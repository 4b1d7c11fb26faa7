---------------------------- MODULE Observations ----------------------------
(***************************************************************************)
(* What is derived from the raw messages: summaries, observations with     *)
(* their evidence, and pages.  Two writers, each one transaction at READ   *)
(* COMMITTED: the refresh of one conversation by the ingestion worker      *)
(* (services/memory_pipeline.py), and the rebuild of everything by the     *)
(* transaction that switches generations (services/memory_rebuild.py);     *)
(* both through services/memory_consolidation.py.                          *)
(*                                                                         *)
(* No constraint makes the claim of an observation unique, and a SELECT    *)
(* FOR UPDATE does not find what another transaction has not committed.    *)
(*                                                                         *)
(* A text is its claim (what is left of it when case and spaces do not     *)
(* count) and its form.  The page follows from the text: a phrase of       *)
(* memory/semantics.py that has a space in it is not found in a ragged     *)
(* text, so the messages of one claim may belong to two pages.             *)
(* explicit_correction is never set outside tests: no observation is       *)
(* SUPERSEDED here.                                                        *)
(***************************************************************************)
EXTENDS Naturals, Sequences, FiniteSets

CONSTANTS
    Conversations,
    Claims,
    Scope,            \* of a text: type and scope of its page (_page_for)
    Forms,            \* of texts, among "plain", "cased" and "ragged" (spaces)
    Workers,
    None,
    MaxEntries,       \* of a page
    MaxMessages,      \* bound: USER messages
    MaxTransactions   \* bound: derivations begun

Texts == [claim : Claims, form : Forms]
Scopes == {Scope[t] : t \in Texts}

(* What an observation is about: claim_key, page_type and page_scope_key.     *)
Subjects == Claims \X Scopes

(* Case does not count for the page: only spaces do.                          *)
ASSUME ObservationsAssumption ==
    /\ DOMAIN Scope = Texts
    /\ \A t, u \in Texts :
         t.claim = u.claim /\ "ragged" \notin {t.form, u.form} => Scope[t] = Scope[u]
    /\ None \notin Conversations \cup Subjects
    /\ Forms \subseteq {"plain", "cased", "ragged"}
    /\ MaxEntries \in Nat \ {0} /\ MaxMessages \in Nat /\ MaxTransactions \in Nat

VARIABLES
    archive,     \* the USER messages, in the order they came
    retained,    \* those the backend of the generation has
    marked,      \* and those recorded as ingested
    dirty,       \* of a conversation: derived_dirty_through_message_id, 0 if none
    summary,     \* its summary: last_processed_message_id, 0 if none
    rows,        \* observations by subject and transaction (its start: created_at)
    pages,       \* of a scope: the rows it lists, as they were when it was refreshed
    tx,          \* of a worker: its transaction
    log,         \* the transactions begun: a conversation, or None for a rebuild
    overlap      \* pairs of them, the first still open when the second began

ingestion == <<archive, retained, marked, dirty>>
derived == <<summary, rows, pages>>
history == <<log, overlap>>
vars == <<ingestion, derived, tx, history>>

Messages == 1 .. MaxMessages
Keys == Subjects \X (1 .. MaxTransactions)
NoRow == [supports |-> {}, contradicts |-> {}]      \* a row has evidence
NoPage == <<>>
NoRead == <<>>

Of(c) == {m \in DOMAIN archive : archive[m].conv = c}
Last(S) == CHOOSE m \in S \cup {0} : \A n \in S : n <= m

Init ==
    /\ archive = <<>> /\ retained = {} /\ marked = {}
    /\ dirty = [c \in Conversations |-> 0]
    /\ summary = [c \in Conversations |-> 0]
    /\ rows = [k \in Keys |-> NoRow]
    /\ pages = [s \in Scopes |-> NoPage]
    /\ tx = [w \in Workers |-> None]
    /\ log = <<>> /\ overlap = {}

(***************************************************************************)
(* The archive and its ingestion (MemoryIngestion has the rest of it)      *)
(***************************************************************************)

Arrive(c, t) ==
    /\ Len(archive) < MaxMessages
    /\ archive' = Append(archive, [conv |-> c, text |-> t])
    /\ UNCHANGED <<retained, marked, dirty, derived, tx, history>>

(* Variant of RegistryFree: retains go on beside a rebuild.                   *)
RegistryUnlocked == TRUE

(* A retain goes through the active generation, whose row the switch has      *)
(* locked: none while a rebuild derives.                                      *)
RegistryFree == \A w \in Workers : tx[w] # None => tx[w].conv # None

Retain(m) ==
    /\ m \in DOMAIN archive \ retained
    /\ RegistryFree
    /\ retained' = retained \cup {m}
    /\ UNCHANGED <<archive, marked, dirty, derived, tx, history>>

(* record_message_succeeded, in the order of the conversation.                *)
Mark(m) ==
    /\ m \in retained \ marked
    /\ \A n \in Of(archive[m].conv) : n < m => n \in marked
    /\ marked' = marked \cup {m}
    /\ dirty' = [dirty EXCEPT ![archive[m].conv] = m]
    /\ UNCHANGED <<archive, retained, derived, tx, history>>

(***************************************************************************)
(* What a transaction sees, and what it waits for                          *)
(***************************************************************************)

Running == {w \in Workers : tx[w] # None}
Open == {w \in Running : tx[w].step # "mark"}

(* What a transaction has written hides what is committed.                    *)
Above(written, committed) ==
    [x \in DOMAIN written \cup DOMAIN committed |->
        IF x \in DOMAIN written THEN written[x] ELSE committed[x]]

RowsOf(w) == Above(tx[w].rows, rows)
PagesOf(w) == Above(tx[w].pages, pages)
LinksOf(w) == UNION {DOMAIN tx[w].pages[s] : s \in DOMAIN tx[w].pages}

Others(w) == Open \ {w}
(* A listed row is shared by the foreign key of its link; the others are held *)
(* FOR UPDATE.                                                                *)
Unlocked(w, keys) ==
    \A u \in Others(w) : keys \cap (DOMAIN tx[u].rows \cup LinksOf(u)) = {}
Shareable(w, keys) == \A u \in Others(w) : keys \cap DOMAIN tx[u].rows = {}
SummariesFree(w, S) == \A u \in Others(w) : S \cap DOMAIN tx[u].sums = {}
PagesFree(w, S) == \A u \in Others(w) : S \cap DOMAIN tx[u].pages = {}

Existing(f, keys, none) == {k \in keys : f[k] # none}

Transaction(c, step, todo, sums) ==
    [conv |-> c, begun |-> Len(log) + 1, through |-> IF c = None THEN 0 ELSE dirty[c],
     last |-> IF c = None THEN 0 ELSE Last(Of(c)), step |-> step, todo |-> todo,
     subject |-> None, evidence |-> {}, keys |-> {}, sums |-> sums, rows |-> <<>>,
     pages |-> <<>>, scopes |-> {}, read |-> NoRead]

Begin(w, c, transaction) ==
    /\ tx[w] = None
    /\ Len(log) < MaxTransactions
    /\ tx' = [tx EXCEPT ![w] = transaction]
    /\ log' = Append(log, c)
    /\ overlap' = overlap \cup {<<tx[u].begun, Len(log) + 1>> : u \in Open}
    /\ UNCHANGED <<ingestion, derived>>

(***************************************************************************)
(* _refresh_derived                                                        *)
(***************************************************************************)

(* " ".join(text.split())                                                     *)
Collapse(t) == IF t.form = "ragged" THEN [t EXCEPT !.form = "plain"] ELSE t

(* claim_derived_refresh, then the messages of the conversation.              *)
BeginRefresh(w, c) ==
    /\ dirty[c] # 0
    /\ Begin(w, c,
             Transaction(c, "summary", {Collapse(archive[m].text) : m \in Of(c)}, <<>>))

SaveSummary(w) ==
    LET x == tx[w] IN
    /\ tx[w] # None /\ x.step = "summary"
    /\ SummariesFree(w, {x.conv})
    /\ tx' = [tx EXCEPT ![w].step = "claims",
                        ![w].sums = IF summary[x.conv] = x.last THEN @ ELSE [c \in {x.conv} |-> x.last]]
    /\ UNCHANGED <<ingestion, derived, history>>

(***************************************************************************)
(* MemoryDerivedRebuilder.rebuild and _rebuild_derived before it           *)
(***************************************************************************)

Group(c, k) == {m \in Of(c) : archive[m].text.claim = k}
First(G) == CHOOSE m \in G : \A n \in G : m <= n

(* The page is that of the first text of the group as it stands.              *)
Candidate(G) ==
    LET t == archive[First(G)].text
    IN  [claim |-> t.claim, scope |-> Scope[t], evidence |-> G]

Groups == {Group(c, k) : c \in Conversations, k \in Claims} \ {{}}
Candidates == {Candidate(G) : G \in Groups}

(* The summaries are deleted and saved again: a refresh waits with its own.   *)
BeginRebuild(w) ==
    /\ RegistryFree
    /\ SummariesFree(w, Conversations)
    /\ Begin(w, None,
             Transaction(None, "delete", Candidates,
                         [c \in {b \in Conversations : Of(b) # {}} |-> Last(Of(c))]))

(* A DELETE takes the rows there are when it starts, once nobody holds them.  *)
StartDelete(w) ==
    /\ tx[w] # None /\ tx[w].step = "delete"
    /\ tx' = [tx EXCEPT ![w].step = "pages",
                        ![w].keys = Existing(pages, Scopes, NoPage)]
    /\ UNCHANGED <<ingestion, derived, history>>

DeletePages(w) ==
    LET found == Existing(pages, tx[w].keys, NoPage) IN
    /\ tx[w] # None /\ tx[w].step = "pages"
    /\ PagesFree(w, tx[w].keys)
    /\ tx' = [tx EXCEPT ![w].step = "rows",
                        ![w].keys = Existing(rows, Keys, NoRow),
                        ![w].pages = [s \in found |-> NoPage]]
    /\ UNCHANGED <<ingestion, derived, history>>

(* The evidence and the links go with the rows (ON DELETE CASCADE).           *)
DeleteRows(w) ==
    LET found == Existing(rows, tx[w].keys, NoRow) IN
    /\ tx[w] # None /\ tx[w].step = "rows"
    /\ Unlocked(w, found)
    /\ tx' = [tx EXCEPT ![w].step = "claims",
                        ![w].rows = [k \in found |-> NoRow]]
    /\ UNCHANGED <<ingestion, derived, history>>

(***************************************************************************)
(* consolidate                                                             *)
(***************************************************************************)

(* Variant of ClaimRows: the rows of the page, whatever they claim.           *)
ScopeRows(w, subject) == {k \in Existing(RowsOf(w), Keys, NoRow) : k[1][2] = subject[2]}
(* Variant of ClaimRows: what the transaction itself wrote.                   *)
OwnRows(w, subject) == {k \in DOMAIN tx[w].rows : k[1] = subject /\ tx[w].rows[k] # NoRow}

ClaimRows(w, subject) == {k \in Existing(RowsOf(w), Keys, NoRow) : k[1] = subject}

(* A text is looked up as it is, in every conversation; a candidate of a      *)
(* rebuild has its evidence.                                                  *)
EvidenceFor(w, item) ==
    IF tx[w].conv = None THEN item.evidence
    ELSE {m \in DOMAIN archive : archive[m].text = item}

(* A refresh classifies the collapsed text, a rebuild has classified.         *)
Subject(w, item) ==
    <<item.claim, IF tx[w].conv = None THEN item.scope ELSE Scope[item]>>

(* SELECT ... FOR UPDATE starts: it finds what is committed, or its own.      *)
FindRows(w, item) ==
    /\ tx[w] # None /\ tx[w].step = "claims" /\ tx[w].subject = None
    /\ item \in tx[w].todo
    /\ IF EvidenceFor(w, item) = {}
       THEN tx' = [tx EXCEPT ![w].todo = @ \ {item}]
       ELSE tx' = [tx EXCEPT ![w].todo = @ \ {item},
                             ![w].subject = Subject(w, item),
                             ![w].evidence = EvidenceFor(w, item),
                             ![w].keys = ClaimRows(w, Subject(w, item))]
    /\ UNCHANGED <<ingestion, derived, history>>

Earliest(keys) == CHOOSE k \in keys : \A j \in keys : k[2] <= j[2]

(* _add_evidence: the first stance of a message on an observation stays.      *)
Supported(row, evidence) ==
    [row EXCEPT !.supports = @ \cup (evidence \ row.contradicts)]
Contradicted(row, evidence) ==
    [row EXCEPT !.contradicts = @ \cup (evidence \ row.supports)]

(* _refresh_observation                                                       *)
Status(row) ==
    IF Cardinality(row.supports) < 2 THEN "CANDIDATE"
    ELSE IF row.contradicts # {} THEN "CONTESTED" ELSE "ACTIVE"

(* Variant of Refreshed: only a new observation has its page refreshed.       *)
RefreshedIfNew(subject, found) == IF found = {} THEN {subject[2]} ELSE {}

Refreshed(subject, found) == {subject[2]}

(* The rows are locked: those deleted meanwhile are gone, those inserted      *)
(* meanwhile were not found.  The first has the same statement; any other     *)
(* competes with it.                                                          *)
Consolidate(w) ==
    LET x == tx[w]
        found == Existing(RowsOf(w), x.keys, NoRow)
        same == IF found = {} THEN <<x.subject, x.begun>> ELSE Earliest(found)
        new(k) == IF k = same THEN Supported(RowsOf(w)[k], x.evidence)
                  ELSE Contradicted(RowsOf(w)[k], x.evidence)
    IN  /\ tx[w] # None /\ x.step = "claims" /\ x.subject # None
        /\ Unlocked(w, Existing(rows, x.keys, NoRow))
        /\ tx' = [tx EXCEPT ![w].subject = None, ![w].evidence = {}, ![w].keys = {},
                            ![w].rows = Above([k \in found \cup {same} |-> new(k)], @),
                            ![w].scopes = @ \cup Refreshed(x.subject, found)]
        /\ UNCHANGED <<ingestion, derived, history>>

(***************************************************************************)
(* MemoryPageService.refresh                                               *)
(***************************************************************************)

Visible(R, s) ==
    {k \in Existing(R, Keys, NoRow) : k[1][2] = s /\ Status(R[k]) # "CANDIDATE"}

(* Confidence is supports / (supports + contradicts).                         *)
AtLeast(r, q) ==
    IF Status(r) # Status(q) THEN Status(r) = "ACTIVE"
    ELSE Cardinality(r.supports) * Cardinality(q.contradicts)
             >= Cardinality(q.supports) * Cardinality(r.contradicts)

(* The selections the sort may make; updated_at, which breaks ties, is left   *)
(* open.                                                                      *)
Selections(R, s) ==
    LET V == Visible(R, s) IN
    {S \in SUBSET V :
        /\ Cardinality(S) = IF Cardinality(V) < MaxEntries THEN Cardinality(V) ELSE MaxEntries
        /\ \A k \in S, j \in V \ S : AtLeast(R[k], R[j])}

ReadPage(w, s) ==
    /\ tx[w] # None /\ tx[w].step = "claims" /\ tx[w].subject = None /\ tx[w].todo = {}
    /\ tx[w].read = NoRead
    /\ s \in tx[w].scopes
    /\ \E S \in Selections(RowsOf(w), s) :
         tx' = [tx EXCEPT ![w].scopes = @ \ {s},
                          ![w].read = [scope |-> s, existing |-> PagesOf(w)[s] # NoPage,
                                       page |-> [k \in S |-> RowsOf(w)[k]]]]
    /\ UNCHANGED <<ingestion, derived, history>>

(* A page inserted or deleted meanwhile, or a listed row that is gone, is an  *)
(* error: Abort.                                                              *)
WritePage(w) ==
    LET r == tx[w].read IN
    /\ tx[w] # None /\ tx[w].step = "claims" /\ r # NoRead
    /\ \/ /\ r.page = NoPage /\ ~r.existing
          /\ tx' = [tx EXCEPT ![w].read = NoRead]
       \/ /\ r.page # NoPage \/ r.existing
          /\ PagesFree(w, {r.scope})
          /\ r.existing = (PagesOf(w)[r.scope] # NoPage)
          /\ Shareable(w, DOMAIN r.page)
          /\ \A k \in DOMAIN r.page : RowsOf(w)[k] # NoRow
          /\ tx' = [tx EXCEPT ![w].read = NoRead, ![w].pages = Above([s \in {r.scope} |-> r.page], @)]
    /\ UNCHANGED <<ingestion, derived, history>>

(***************************************************************************)
(* The end of a transaction                                                *)
(***************************************************************************)

Commit(w) ==
    LET x == tx[w] IN
    /\ tx[w] # None /\ x.step = "claims" /\ x.subject = None /\ x.todo = {}
    /\ x.scopes = {} /\ x.read = NoRead
    /\ rows' = RowsOf(w) /\ pages' = PagesOf(w) /\ summary' = Above(x.sums, summary)
    /\ tx' = [tx EXCEPT ![w] = IF x.conv = None THEN None ELSE [x EXCEPT !.step = "mark"]]
    /\ UNCHANGED <<ingestion, history>>

(* mark_derived_succeeded, a transaction of its own                           *)
(* Variant of StillThrough: whatever was ingested meanwhile.                  *)
Whatever(w) == TRUE

StillThrough(w) == dirty[tx[w].conv] = tx[w].through

MarkSucceeded(w) ==
    /\ tx[w] # None /\ tx[w].step = "mark"
    /\ dirty' = [dirty EXCEPT ![tx[w].conv] = IF StillThrough(w) THEN 0 ELSE @]
    /\ tx' = [tx EXCEPT ![w] = None]
    /\ UNCHANGED <<archive, retained, marked, derived, history>>

(* An error, a deadlock or a crash, at any point.                             *)
Abort(w) ==
    /\ tx[w] # None
    /\ tx' = [tx EXCEPT ![w] = None]
    /\ UNCHANGED <<ingestion, derived, history>>

Next ==
    \/ \E c \in Conversations, t \in Texts : Arrive(c, t)
    \/ \E m \in Messages : Retain(m) \/ Mark(m)
    \/ \E w \in Workers :
         \/ \E c \in Conversations : BeginRefresh(w, c)
         \/ BeginRebuild(w) \/ StartDelete(w) \/ DeletePages(w) \/ DeleteRows(w)
         \/ SaveSummary(w)
         \/ tx[w] # None /\ \E item \in tx[w].todo : FindRows(w, item)
         \/ Consolidate(w)
         \/ \E s \in Scopes : ReadPage(w, s)
         \/ WritePage(w)
         \/ Commit(w) \/ MarkSucceeded(w) \/ Abort(w)

Spec == Init /\ [][Next]_vars

(***************************************************************************)
(* Properties                                                              *)
(***************************************************************************)

Row == [supports : SUBSET Messages, contradicts : SUBSET Messages]

TypeOK ==
    /\ archive \in Seq([conv : Conversations, text : Texts]) /\ Len(archive) <= MaxMessages
    /\ marked \subseteq retained /\ retained \subseteq DOMAIN archive
    /\ dirty \in [Conversations -> 0 .. Len(archive)]
    /\ summary \in [Conversations -> 0 .. Len(archive)]
    /\ \A k \in Keys :
         /\ rows[k] \in Row /\ rows[k].supports \cap rows[k].contradicts = {}
         /\ rows[k] # NoRow => rows[k].supports # {}
    /\ \A s \in Scopes : DOMAIN pages[s] \subseteq {k \in Keys : k[1][2] = s}
    /\ DOMAIN log \subseteq 1 .. MaxTransactions
    /\ \A p \in overlap : p[1] < p[2] /\ p[2] <= Len(log)

Live == Existing(rows, Keys, NoRow)

Ragged(claim) ==
    \E m \in DOMAIN archive : archive[m].text = [claim |-> claim, form |-> "ragged"]

(* A claim has two observations on one page only when the two transactions    *)
(* that inserted them ran at the same time: "same is None" in consolidate is  *)
(* decided on what is committed.  It has observations on two pages only when  *)
(* some message of it has ragged spaces and one of them comes from a rebuild: *)
(* refreshes agree on the page of a claim, since they collapse the text       *)
(* before they classify it; a rebuild classifies what was written.            *)
TwinsExplained ==
    \A k, j \in Live : k[1][1] = j[1][1] /\ k # j =>
        IF k[1] = j[1]
        THEN <<k[2], j[2]>> \in overlap \/ <<j[2], k[2]>> \in overlap
        ELSE Ragged(k[1][1]) /\ None \in {log[k[2]], log[j[2]]}

(* Nothing that the user says contradicts what the user says, but a twin of   *)
(* an observation: without explicit corrections consolidate can only contest  *)
(* a second observation of the same claim on the same page.                   *)
ContestedByTwin ==
    \A k \in Live : rows[k].contradicts # {} =>
        /\ rows[k].contradicts \subseteq {m \in DOMAIN archive : archive[m].text.claim = k[1][1]}
        /\ \E p \in overlap : k[2] = p[2]

(* A message that is recorded as ingested, and whose conversation is not      *)
(* dirty, is evidence of an observation of its claim, unless its spaces are   *)
(* ragged; whatever rebuilds and refreshes ran side by side.  The refresh     *)
(* may have been deleted by a rebuild that had read the archive before; then  *)
(* the message cannot have been retained.                                     *)
IngestedIsEvidence ==
    \A m \in marked :
        /\ dirty[archive[m].conv] = 0
        /\ archive[m].text.form # "ragged"
        => \E k \in Live : k[1][1] = archive[m].text.claim
                           /\ m \in rows[k].supports \cup rows[k].contradicts

(* In the same way the summary of a conversation that is not dirty covers     *)
(* what was ingested of it, unless two refreshes of it ran side by side and   *)
(* the one that read first saved last (a claim of a refresh is no lease).     *)
SummaryCovers ==
    \A m \in marked :
        LET c == archive[m].conv IN
        \/ dirty[c] # 0
        \/ summary[c] >= m
        \/ \E p \in overlap : log[p[1]] = c /\ log[p[2]] = c

(* While derivations never overlapped, the pages are what the observations    *)
(* say: every scope lists the best of its visible observations as they are.   *)
PagesCurrent ==
    overlap = {} => \A s \in Scopes :
        \E S \in Selections(rows, s) : pages[s] = [k \in S |-> rows[k]]
=============================================================================
