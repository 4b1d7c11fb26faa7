-------------------------- MODULE ObservationsProofs --------------------------
(***************************************************************************)
(* Where twins come from, for any conversations, claims, workers and       *)
(* messages: two observations of one claim on one page were inserted by    *)
(* transactions that ran at the same time, on two pages one of them by a   *)
(* rebuild over ragged texts, and nothing but a twin is ever contested.    *)
(* Then what clean conversations have: their summaries (SInv) and the      *)
(* evidence of their messages (DInv); and the pages (PInv).                *)
(*                                                                         *)
(* What is said of committed rows is not inductive: a transaction decides  *)
(* on what it found, and commits later.  What it must know until then is   *)
(* that every row of the subject it did not find came from a transaction   *)
(* that was still open when it began itself (Searched, Inserted), and that *)
(* its subject is the one of a message that it may classify so (Derived).  *)
(***************************************************************************)
EXTENDS Observations, TLAPS, FiniteSetTheorems

Fields == {"conv", "begun", "through", "last", "step", "todo", "subject", "evidence", "keys",
           "sums", "rows", "pages", "scopes", "read"}
Alive(R) == Existing(R, Keys, NoRow)
Saying(c) == {m \in DOMAIN archive : archive[m].text.claim = c}

FromRebuild(n) == n \in 1 .. Len(log) /\ log[n] = None

(* The subject is that of a message, as transaction n classifies it: only a*)
(* rebuild classifies a ragged text.                                       *)
Derived(subject, n) ==
    \E m \in DOMAIN archive :
        /\ archive[m].text.claim = subject[1] /\ Scope[archive[m].text] = subject[2]
        /\ archive[m].text.form = "ragged" => FromRebuild(n)

(* A row has a subject that its transaction has derived; it contradicts    *)
(* only what says the same, and only when a transaction was open as its own*)
(* began.                                                                  *)
RowOK(k, r) ==
    /\ DOMAIN r = {"supports", "contradicts"}
    /\ r # NoRow => Derived(k[1], k[2])
    /\ r.contradicts \subseteq Saying(k[1][1])
    /\ r.contradicts # {} => \E p \in overlap : k[2] = p[2]

Twins(R) ==
    \A k, j \in Alive(R) : k[1] = j[1] /\ k[2] < j[2] => <<k[2], j[2]>> \in overlap

(* Any rows of a subject have an earliest one, and any messages a first:   *)
(* said as an invariant, since a set that gets one more keeps it.          *)
HasEarliest(S) == \E k \in S : \A j \in S : k[2] <= j[2]
WellOrdered(S) == \A T \in SUBSET S : T # {} => HasEarliest(T)
HasFirst(S) == \E m \in S : \A n \in S : m <= n
LiveOf(R, c) == {k \in Alive(R) : k[1] = c}

Committed ==
    /\ log \in Seq(Conversations \cup {None})
    /\ archive \in Seq([conv : Conversations, text : Texts])
    /\ \A S \in SUBSET DOMAIN archive : S # {} => HasFirst(S)
    /\ tx = [w \in Workers |-> tx[w]]
    /\ Keys \subseteq DOMAIN rows
    /\ \A k \in Keys : RowOK(k, rows[k])
    /\ \A k \in Alive(rows) : k[2] <= Len(log)
    /\ Twins(rows)
    /\ \A c \in Subjects : WellOrdered(LiveOf(rows, c))

(* Whatever began since, began while w was open.                           *)
Began(w) ==
    /\ DOMAIN tx[w] = Fields
    /\ tx[w].begun \in 1 .. Len(log) /\ log[tx[w].begun] = tx[w].conv
    /\ \A n \in tx[w].begun + 1 .. Len(log) : <<tx[w].begun, n>> \in overlap
    /\ \A k \in Keys : k[2] = tx[w].begun => rows[k] = NoRow

(* It has written rows that are committed, or that it has inserted.        *)
Written(w) ==
    /\ \A k \in Keys \cap DOMAIN tx[w].rows :
           /\ k[2] = tx[w].begun \/ rows[k] # NoRow
           /\ RowOK(k, tx[w].rows[k])
    /\ tx[w].step # "claims" => DOMAIN tx[w].rows = {} /\ tx[w].subject = None

(* An earlier row of a subject it has inserted was not committed when it   *)
(* began.                                                                  *)
Inserted(w) ==
    \A k, j \in Alive(RowsOf(w)) :
        k[2] = tx[w].begun /\ j[1] = k[1] /\ j[2] < k[2] => <<j[2], k[2]>> \in overlap

(* What its search for the rows of a subject has not found was not there   *)
(* either.                                                                 *)
Searched(w) ==
    tx[w].subject # None =>
        /\ tx[w].subject \in Subjects /\ Derived(tx[w].subject, tx[w].begun)
        /\ \A k \in tx[w].keys : k \in Keys /\ k[1] = tx[w].subject
        /\ tx[w].evidence \subseteq Saying(tx[w].subject[1])
        /\ \A j \in Alive(RowsOf(w)) :
               j[1] = tx[w].subject /\ j[2] < tx[w].begun
               => j \in tx[w].keys \/ <<j[2], tx[w].begun>> \in overlap

(* A candidate of a rebuild is on the page of one of the messages that say *)
(* it, its evidence; a refresh has collapsed its texts.                    *)
CandidateOK(item, n) ==
    /\ <<item.claim, item.scope>> \in Subjects /\ Derived(<<item.claim, item.scope>>, n)
    /\ item.evidence \subseteq Saying(item.claim)
Waiting(w) ==
    \A item \in tx[w].todo :
        IF tx[w].conv = None THEN CandidateOK(item, tx[w].begun) ELSE item.form # "ragged"

OwnOK(w) == Began(w) /\ Written(w) /\ Inserted(w) /\ Searched(w) /\ Waiting(w)

(* Open transactions have written different rows.                          *)
Apart(u, w) ==
    /\ tx[u].begun # tx[w].begun
    /\ \A k \in Keys : ~(k \in DOMAIN tx[u].rows /\ k \in DOMAIN tx[w].rows)

IInv ==
    /\ Committed
    /\ \A w \in Open : OwnOK(w)
    /\ \A u, w \in Open : u # w => Apart(u, w)

-----------------------------------------------------------------------------
(* The parts of a key. *)
LEMMA KeyParts ==
  \A k \in Keys : /\ k[1] \in Subjects /\ k[2] \in Nat /\ k = <<k[1], k[2]>>
                   /\ k[1][1] \in Claims /\ k[1][2] \in Scopes /\ k[1] = <<k[1][1], k[1][2]>>
BY ObservationsAssumption DEF Keys, Subjects

(* Messages have a conversation and a text.                                *)
LEMMA ElementsTyped ==
  ASSUME IInv
  PROVE  \A m \in DOMAIN archive : archive[m] \in [conv : Conversations, text : Texts]
<1>1. PICK S : S = [conv : Conversations, text : Texts]
  OBVIOUS
<1>2. archive \in Seq(S)
  BY <1>1 DEF IInv, Committed
<1>3. \A m \in DOMAIN archive : archive[m] \in S
  BY <1>2
<1> QED
  BY <1>1, <1>3

(* What a transaction sees of a row. *)
LEMMA ViewAt ==
  ASSUME Keys \subseteq DOMAIN rows
  PROVE  \A w : /\ Keys \subseteq DOMAIN RowsOf(w)
                /\ \A k \in Keys : RowsOf(w)[k] = IF k \in DOMAIN tx[w].rows
                                                  THEN tx[w].rows[k] ELSE rows[k]
BY DEF RowsOf, Above

LEMMA ViewAtNext ==
  ASSUME Keys \subseteq DOMAIN rows'
  PROVE  \A w : \A k \in Keys : RowsOf(w)'[k] = IF k \in DOMAIN tx'[w].rows
                                                THEN tx'[w].rows[k] ELSE rows'[k]
BY DEF RowsOf, Above

(* One row more keeps a set well ordered. *)
LEMMA OneMore ==
  ASSUME NEW S \in SUBSET Keys, NEW k \in Keys, WellOrdered(S), NEW R \in SUBSET (S \cup {k})
  PROVE  WellOrdered(R)
<1> SUFFICES ASSUME NEW T \in SUBSET R, T # {} PROVE HasEarliest(T)
  BY DEF WellOrdered
<1>1. CASE T \ {k} = {}
  <2>1. T = {k}
    BY <1>1
  <2> QED
    BY <2>1, KeyParts DEF HasEarliest
<1>2. CASE T \ {k} # {}
  <2>1. HasEarliest(T \ {k})
    <3>1. T \ {k} \in SUBSET S
      OBVIOUS
    <3> QED
      BY <1>2, <3>1 DEF WellOrdered
  <2>2. PICK j \in T \ {k} : \A i \in T \ {k} : j[2] <= i[2]
    BY <2>1 DEF HasEarliest
  <2>3. \A i \in T : i[2] \in Nat
    BY KeyParts
  <2>4. CASE j[2] <= k[2]
    <3>1. \A i \in T : j[2] <= i[2]
      BY <2>2, <2>4
    <3> QED
      BY <3>1 DEF HasEarliest
  <2>5. CASE k[2] < j[2] /\ k \in T
    <3>1. \A i \in T : k[2] <= i[2]
      BY <2>2, <2>3, <2>5
    <3> QED
      BY <2>5, <3>1 DEF HasEarliest
  <2>6. CASE k \notin T
    <3>1. \A i \in T : j[2] <= i[2]
      BY <2>2, <2>6
    <3> QED
      BY <3>1 DEF HasEarliest
  <2> QED
    BY <2>3, <2>4, <2>5, <2>6, KeyParts
<1> QED
  BY <1>1, <1>2

(* The rows that an open transaction sees are sound as the committed ones, *)
(* and of each claim it has inserted at most one.                          *)
LEMMA ViewSound ==
  ASSUME IInv, NEW w \in Open
  PROVE  /\ \A k \in Keys : RowOK(k, RowsOf(w)[k])
         /\ \A k \in Alive(RowsOf(w)) : rows[k] # NoRow \/ k[2] = tx[w].begun
         /\ Twins(RowsOf(w))
         /\ \A c \in Subjects : WellOrdered(LiveOf(RowsOf(w), c))
<1>1. /\ Keys \subseteq DOMAIN rows
      /\ \A k \in Keys : RowsOf(w)[k] = IF k \in DOMAIN tx[w].rows
                                        THEN tx[w].rows[k] ELSE rows[k]
  BY ViewAt DEF IInv, Committed
<1>2. Began(w) /\ Written(w) /\ Inserted(w)
  BY DEF IInv, OwnOK
<1>3. \A k \in Keys : RowOK(k, RowsOf(w)[k])
  BY <1>1, <1>2 DEF IInv, Committed, Written
<1>4. \A k \in Alive(RowsOf(w)) : rows[k] # NoRow \/ k[2] = tx[w].begun
  BY <1>1, <1>2 DEF Alive, Existing, Written
<1>5. Twins(RowsOf(w))
  <2> SUFFICES ASSUME NEW k \in Alive(RowsOf(w)), NEW j \in Alive(RowsOf(w)),
                      k[1] = j[1], k[2] < j[2]
               PROVE  <<k[2], j[2]>> \in overlap
    BY DEF Twins
  <2>1. k \in Keys /\ j \in Keys
    BY DEF Alive, Existing
  <2>2. CASE j[2] = tx[w].begun
    BY <1>2, <2>2 DEF Inserted
  <2>3. CASE rows[j] # NoRow /\ k[2] = tx[w].begun
    <3>1. j[2] <= Len(log) /\ Len(log) \in Nat
      BY <2>1, <2>3 DEF IInv, Committed, Alive, Existing
    <3>2. j[2] \in tx[w].begun + 1 .. Len(log)
      BY <1>2, <2>1, <2>3, <3>1, KeyParts DEF Began
    <3> QED
      BY <1>2, <2>3, <3>2 DEF Began
  <2>4. CASE rows[j] # NoRow /\ rows[k] # NoRow
    BY <2>1, <2>4 DEF IInv, Committed, Twins, Alive, Existing
  <2> QED
    BY <1>4, <2>2, <2>3, <2>4
<1>6. ASSUME NEW c \in Subjects PROVE WellOrdered(LiveOf(RowsOf(w), c))
  <2>1. WellOrdered(LiveOf(rows, c)) /\ LiveOf(rows, c) \in SUBSET Keys
    BY DEF IInv, Committed, LiveOf, Alive, Existing
  <2>2. CASE <<c, tx[w].begun>> \in Keys
    <3>1. LiveOf(RowsOf(w), c) \in SUBSET (LiveOf(rows, c) \cup {<<c, tx[w].begun>>})
      BY <1>4, KeyParts DEF LiveOf, Alive, Existing
    <3> QED
      BY <2>1, <2>2, <3>1, OneMore
  <2>3. CASE <<c, tx[w].begun>> \notin Keys
    <3>1. LiveOf(RowsOf(w), c) \subseteq LiveOf(rows, c)
      BY <1>4, <2>3, KeyParts DEF LiveOf, Alive, Existing
    <3> QED
      BY <2>1, <3>1 DEF WellOrdered
  <2> QED
    BY <2>2, <2>3
<1> QED
  BY <1>3, <1>4, <1>5, <1>6

(* Messages and transactions are only ever added. *)
Longer ==
    /\ \A m \in DOMAIN archive : m \in DOMAIN archive' /\ archive'[m] = archive[m]
    /\ \A n \in 1 .. Len(log) : n \in 1 .. Len(log') /\ log'[n] = log[n]
    /\ overlap \subseteq overlap'

(* What is sound stays sound. *)
LEMMA StaysOK ==
  ASSUME Longer
  PROVE  /\ \A c : Saying(c) \subseteq Saying(c)'
         /\ \A s, n : Derived(s, n) => Derived(s, n)'
         /\ \A item, n : CandidateOK(item, n) => CandidateOK(item, n)'
         /\ \A k, r : RowOK(k, r) => RowOK(k, r)'
<1>1. \A c : Saying(c) \subseteq Saying(c)'
  BY DEF Longer, Saying
<1>2. \A n : FromRebuild(n) => FromRebuild(n)'
  BY DEF Longer, FromRebuild
<1>3. \A s, n : Derived(s, n) => Derived(s, n)'
  BY <1>2 DEF Longer, Derived
<1>4. \A item, n : CandidateOK(item, n) => CandidateOK(item, n)'
  BY <1>1, <1>3 DEF CandidateOK
<1>5. \A k, r : RowOK(k, r) => RowOK(k, r)'
  BY <1>1, <1>3 DEF Longer, RowOK
<1> QED
  BY <1>1, <1>3, <1>4, <1>5

LEMMA SameHistory ==
  ASSUME UNCHANGED <<archive, log, overlap>>
  PROVE  /\ Longer
         /\ \A c : Saying(c)' = Saying(c)
         /\ \A s, n : Derived(s, n)' = Derived(s, n)
         /\ \A item, n : CandidateOK(item, n)' = CandidateOK(item, n)
         /\ \A k, r : RowOK(k, r)' = RowOK(k, r)
BY DEF Longer, Saying, FromRebuild, Derived, CandidateOK, RowOK

(* What a transaction knows is true whatever others do, as long as the rows*)
(* they commit are ones it has not written, and new only if their          *)
(* transaction was open when it began, or began later.                     *)
LEMMA OthersKeep ==
  ASSUME IInv, NEW u \in Open, tx'[u] = tx[u],
         Longer, Len(log') \in Nat, Len(log) <= Len(log'),
         \A n \in tx[u].begun + 1 .. Len(log') : <<tx[u].begun, n>> \in overlap',
         Keys \subseteq DOMAIN rows',
         \A k \in Keys :
             \/ rows'[k] = rows[k]
             \/ /\ k \notin DOMAIN tx[u].rows
                /\ \/ rows[k] # NoRow
                   \/ /\ k[2] # tx[u].begun
                      /\ k[2] < tx[u].begun => <<k[2], tx[u].begun>> \in overlap
  PROVE  OwnOK(u)'
<1>1. Began(u) /\ Written(u) /\ Inserted(u) /\ Searched(u) /\ Waiting(u)
  BY DEF IInv, OwnOK
<1>2. \A k \in Keys : RowsOf(u)[k] = IF k \in DOMAIN tx[u].rows
                                     THEN tx[u].rows[k] ELSE rows[k]
  BY ViewAt DEF IInv, Committed
<1>3. \A k \in Keys : RowsOf(u)'[k] = IF k \in DOMAIN tx[u].rows
                                      THEN tx[u].rows[k] ELSE rows'[k]
  BY ViewAtNext
<1>4. Began(u)'
  <2>1. tx[u].begun \in 1 .. Len(log') /\ log'[tx[u].begun] = tx[u].conv
    BY <1>1 DEF Began, Longer
  <2> QED
    BY <1>1, <2>1 DEF Began
<1>5. Written(u)'
  BY <1>1, StaysOK DEF Written
<1>6. \A j \in Alive(RowsOf(u)') :
          \/ j \in Alive(RowsOf(u))
          \/ j[2] # tx[u].begun /\ (j[2] < tx[u].begun => <<j[2], tx[u].begun>> \in overlap)
  BY <1>2, <1>3 DEF Alive, Existing
<1>7. Inserted(u)'
  BY <1>1, <1>6 DEF Inserted, Longer
<1>8. Searched(u)'
  BY <1>1, <1>6, StaysOK DEF Searched, Longer
<1>9. Waiting(u)'
  BY <1>1, StaysOK DEF Waiting
<1> QED
  BY <1>4, <1>5, <1>7, <1>8, <1>9 DEF OwnOK

(* A step of one transaction that neither begins nor commits. *)
LEMMA OwnStep ==
  ASSUME IInv, NEW w \in Workers, tx' = [tx EXCEPT ![w] = tx'[w]],
         UNCHANGED <<archive, rows, log, overlap>>,
         w \in Open' => OwnOK(w)' /\ \A u \in Open \ {w} : Apart(u, w)'
  PROVE  IInv'
<1>1. \A u \in Workers \ {w} : tx'[u] = tx[u]
  BY DEF IInv, Committed
<1>2. \A u \in Open' \ {w} : u \in Open /\ u \in Workers
  BY <1>1 DEF Open, Running
<1>3. Committed'
  <2>1. \A k, r : RowOK(k, r)' = RowOK(k, r)
    BY SameHistory
  <2>2. tx' = [u \in Workers |-> tx'[u]]
    BY DEF IInv, Committed
  <2> QED
    BY <2>1, <2>2 DEF IInv, Committed, Alive, Existing, Twins, LiveOf
<1>4. ASSUME NEW u \in Open' \ {w} PROVE OwnOK(u)'
  <2>1. u \in Open /\ tx'[u] = tx[u]
    BY <1>1, <1>2
  <2>2. Longer
    BY SameHistory
  <2>3. Len(log) \in Nat /\ Keys \subseteq DOMAIN rows
    BY DEF IInv, Committed
  <2>4. \A n \in tx[u].begun + 1 .. Len(log) : <<tx[u].begun, n>> \in overlap
    BY <2>1 DEF IInv, OwnOK, Began
  <2> QED
    BY <2>1, <2>2, <2>3, <2>4, OthersKeep
<1>5. ASSUME NEW u \in Open', NEW v \in Open', u # v PROVE Apart(u, v)'
  <2>1. CASE u # w /\ v # w
    BY <1>1, <1>2, <1>5, <2>1 DEF IInv, Apart
  <2>2. CASE v = w
    BY <1>2, <1>5, <2>2
  <2>3. CASE u = w
    <3>1. Apart(v, u)'
      BY <1>2, <1>5, <2>3
    <3> QED
      BY <3>1 DEF Apart
  <2> QED
    BY <2>1, <2>2, <2>3
<1> QED
  BY <1>3, <1>4, <1>5 DEF IInv

(* A step that writes no row and leaves the search for rows as it is, or   *)
(* has none: summaries, pages, and the statements that wait.               *)
LEMMA LocalStep ==
  ASSUME IInv, NEW w \in Open, tx' = [tx EXCEPT ![w] = tx'[w]],
         UNCHANGED <<archive, rows, log, overlap>>,
         DOMAIN tx'[w] = Fields,
         tx'[w].begun = tx[w].begun, tx'[w].rows = tx[w].rows, tx'[w].conv = tx[w].conv,
         tx'[w].todo \subseteq tx[w].todo,
         \/ tx'[w].subject = None
         \/ /\ tx'[w].subject = tx[w].subject /\ tx'[w].keys = tx[w].keys
            /\ tx'[w].evidence = tx[w].evidence,
         tx'[w].step # "claims" => tx'[w].subject = None,
         tx'[w].step # "claims" => tx[w].step # "claims"
  PROVE  IInv'
<1>1. Began(w) /\ Written(w) /\ Inserted(w) /\ Searched(w) /\ Waiting(w) /\ w \in Workers
  BY DEF IInv, OwnOK, Open, Running
<1>2. RowsOf(w)' = RowsOf(w)
  BY DEF RowsOf, Above
<1>3. /\ \A c : Saying(c)' = Saying(c)
      /\ \A s, n : Derived(s, n)' = Derived(s, n)
      /\ \A item, n : CandidateOK(item, n)' = CandidateOK(item, n)
  BY SameHistory
<1>4. \A k, r : RowOK(k, r)' = RowOK(k, r)
  BY SameHistory
<1>5. Began(w)'
  BY <1>1 DEF Began
<1>6. Written(w)'
  BY <1>1, <1>4 DEF Written
<1>7. Inserted(w)'
  BY <1>1, <1>2 DEF Inserted
<1>8. Searched(w)' /\ Waiting(w)'
  BY <1>1, <1>2, <1>3 DEF Searched, Waiting
<1>9. \A u \in Open \ {w} : Apart(u, w)'
  <2>1. \A u \in Open \ {w} : tx'[u] = tx[u] /\ Apart(u, w)
    BY DEF IInv, Committed, Open, Running
  <2> QED
    BY <2>1 DEF Apart
<1> QED
  BY <1>1, <1>5, <1>6, <1>7, <1>8, <1>9, OwnStep DEF OwnOK

(* The statements of a transaction that write no row of an observation. *)
LEMMA LocalSteps ==
  ASSUME IInv, NEW w \in Workers,
         \/ SaveSummary(w) \/ StartDelete(w) \/ DeletePages(w)
         \/ \E s \in Scopes : ReadPage(w, s)
         \/ WritePage(w)
  PROVE  IInv'
<1>1. tx = [u \in Workers |-> tx[u]]
  BY DEF IInv, Committed
<1>2. w \in Open => DOMAIN tx[w] = Fields /\ (tx[w].step # "claims" => tx[w].subject = None)
  BY DEF IInv, OwnOK, Began, Written
<1>3. CASE SaveSummary(w)
  <2>1. w \in Open /\ UNCHANGED <<archive, rows, log, overlap>>
    BY <1>3 DEF SaveSummary, Open, Running, ingestion, derived, history
  <2>2. tx' = [tx EXCEPT ![w] = tx'[w]]
    BY <1>1, <1>3 DEF SaveSummary
  <2>3. /\ DOMAIN tx'[w] = Fields /\ tx'[w].step = "claims"
        /\ tx'[w].begun = tx[w].begun /\ tx'[w].rows = tx[w].rows /\ tx'[w].conv = tx[w].conv
        /\ tx'[w].todo = tx[w].todo /\ tx'[w].subject = None /\ tx[w].step = "summary"
    BY <1>1, <1>2, <1>3, <2>1 DEF SaveSummary, Fields
  <2> QED
    BY <2>1, <2>2, <2>3, LocalStep
<1>4. CASE StartDelete(w) \/ DeletePages(w)
  <2>1. w \in Open /\ UNCHANGED <<archive, rows, log, overlap>>
    BY <1>4 DEF StartDelete, DeletePages, Open, Running, ingestion, derived, history
  <2>2. tx' = [tx EXCEPT ![w] = tx'[w]]
    BY <1>1, <1>4 DEF StartDelete, DeletePages
  <2>3. /\ DOMAIN tx'[w] = Fields
        /\ tx'[w].begun = tx[w].begun /\ tx'[w].rows = tx[w].rows /\ tx'[w].conv = tx[w].conv
        /\ tx'[w].todo = tx[w].todo /\ tx'[w].subject = None /\ tx[w].step # "claims"
    BY <1>1, <1>2, <1>4, <2>1 DEF StartDelete, DeletePages, Fields
  <2> QED
    BY <2>1, <2>2, <2>3, LocalStep
<1>5. CASE \E s \in Scopes : ReadPage(w, s)
  <2>1. PICK s, page :
            tx' = [tx EXCEPT ![w].scopes = @ \ {s},
                             ![w].read = [scope |-> s, existing |-> PagesOf(w)[s] # NoPage,
                                          page |-> page]]
    BY <1>5 DEF ReadPage
  <2>2. /\ w \in Open /\ tx[w].step = "claims" /\ tx[w].subject = None
        /\ UNCHANGED <<archive, rows, log, overlap>>
    BY <1>5 DEF ReadPage, Open, Running, ingestion, derived, history
  <2>3. tx' = [tx EXCEPT ![w] = tx'[w]]
    BY <1>1, <2>1
  <2>4. /\ DOMAIN tx'[w] = Fields /\ tx'[w].step = "claims"
        /\ tx'[w].begun = tx[w].begun /\ tx'[w].rows = tx[w].rows /\ tx'[w].conv = tx[w].conv
        /\ tx'[w].todo = tx[w].todo /\ tx'[w].subject = None
    BY <1>1, <1>2, <2>1, <2>2 DEF Fields
  <2> QED
    BY <2>2, <2>3, <2>4, LocalStep
<1>6. CASE WritePage(w)
  <2>1. w \in Open /\ UNCHANGED <<archive, rows, log, overlap>>
    BY <1>6 DEF WritePage, Open, Running, ingestion, derived, history
  <2>2. tx' = [tx EXCEPT ![w] = tx'[w]]
    BY <1>1, <1>6 DEF WritePage
  <2>3. /\ DOMAIN tx'[w] = Fields /\ tx'[w].step = tx[w].step
        /\ tx'[w].begun = tx[w].begun /\ tx'[w].rows = tx[w].rows /\ tx'[w].conv = tx[w].conv
        /\ tx'[w].todo = tx[w].todo /\ tx'[w].subject = tx[w].subject /\ tx'[w].keys = tx[w].keys
        /\ tx'[w].evidence = tx[w].evidence
    BY <1>1, <1>2, <1>6, <2>1 DEF WritePage, Fields
  <2> QED
    BY <1>2, <2>1, <2>2, <2>3, LocalStep
<1> QED
  BY <1>3, <1>4, <1>5, <1>6

(* What is classified with evidence is a subject.                          *)
LEMMA SubjectFound ==
  ASSUME IInv, NEW w \in Open, NEW item \in tx[w].todo, EvidenceFor(w, item) # {}
  PROVE  /\ Subject(w, item) \in Subjects /\ Subject(w, item) # None
         /\ Subject(w, item)[1] = item.claim
         /\ Derived(Subject(w, item), tx[w].begun)
         /\ EvidenceFor(w, item) \subseteq Saying(Subject(w, item)[1])
<1>1. Waiting(w)
  BY DEF IInv, OwnOK
<1>2. Subject(w, item)[1] = item.claim
  BY DEF Subject
<1>3. CASE tx[w].conv = None
  <2>1. CandidateOK(item, tx[w].begun)
    BY <1>1, <1>3 DEF Waiting
  <2>2. Subject(w, item) = <<item.claim, item.scope>> /\ EvidenceFor(w, item) = item.evidence
    BY <1>3 DEF Subject, EvidenceFor
  <2> QED
    BY <1>2, <2>1, <2>2, ObservationsAssumption DEF CandidateOK
<1>4. CASE tx[w].conv # None
  <2>1. item.form # "ragged"
    BY <1>1, <1>4 DEF Waiting
  <2>2. /\ Subject(w, item) = <<item.claim, Scope[item]>>
        /\ EvidenceFor(w, item) = {m \in DOMAIN archive : archive[m].text = item}
    BY <1>4 DEF Subject, EvidenceFor
  <2>3. PICK m \in DOMAIN archive : archive[m].text = item
    BY <2>2
  <2>4. item \in Texts
    BY <2>3, ElementsTyped
  <2>5. Subject(w, item) \in Subjects
    BY <2>2, <2>4 DEF Subjects, Scopes, Texts
  <2>6. Derived(Subject(w, item), tx[w].begun)
    BY <2>1, <2>2, <2>3 DEF Derived
  <2> QED
    BY <1>2, <2>2, <2>5, <2>6, ObservationsAssumption DEF Saying
<1> QED
  BY <1>3, <1>4

(* The rows of a subject are searched: those it does not find are not     *)
(* there yet.                                                              *)
LEMMA FindKeeps ==
  ASSUME IInv, NEW w \in Workers, NEW item, FindRows(w, item)
  PROVE  IInv'
<1>1. /\ tx = [u \in Workers |-> tx[u]] /\ w \in Open
      /\ tx[w].step = "claims" /\ tx[w].subject = None /\ item \in tx[w].todo
      /\ UNCHANGED <<archive, rows, log, overlap>>
  BY DEF IInv, Committed, FindRows, Open, Running, ingestion, derived, history
<1>2. Began(w) /\ Written(w) /\ Inserted(w) /\ Waiting(w)
  BY <1>1 DEF IInv, OwnOK
<1>3. tx' = [tx EXCEPT ![w] = tx'[w]]
  BY <1>1 DEF FindRows
<1>4. CASE EvidenceFor(w, item) = {}
  <2>1. tx' = [tx EXCEPT ![w].todo = @ \ {item}]
    BY <1>4 DEF FindRows
  <2>2. /\ DOMAIN tx'[w] = Fields /\ tx'[w].step = "claims"
        /\ tx'[w].begun = tx[w].begun /\ tx'[w].rows = tx[w].rows /\ tx'[w].conv = tx[w].conv
        /\ tx'[w].todo \subseteq tx[w].todo /\ tx'[w].subject = None
    BY <1>1, <1>2, <2>1 DEF Fields, Began
  <2> QED
    BY <1>1, <1>3, <2>2, LocalStep
<1>5. CASE EvidenceFor(w, item) # {}
  <2>1. tx' = [tx EXCEPT ![w].todo = @ \ {item}, ![w].subject = Subject(w, item),
                         ![w].evidence = EvidenceFor(w, item),
                         ![w].keys = ClaimRows(w, Subject(w, item))]
    BY <1>5 DEF FindRows
  <2>2. /\ DOMAIN tx'[w] = Fields /\ tx'[w].step = "claims"
        /\ tx'[w].begun = tx[w].begun /\ tx'[w].rows = tx[w].rows /\ tx'[w].conv = tx[w].conv
        /\ tx'[w].todo \subseteq tx[w].todo /\ tx'[w].subject = Subject(w, item)
        /\ tx'[w].evidence = EvidenceFor(w, item) /\ tx'[w].keys = ClaimRows(w, Subject(w, item))
    BY <1>1, <1>2, <2>1 DEF Fields, Began
  <2>3. /\ RowsOf(w)' = RowsOf(w) /\ \A c : Saying(c)' = Saying(c)
        /\ \A s, n : Derived(s, n)' = Derived(s, n)
        /\ \A it, n : CandidateOK(it, n)' = CandidateOK(it, n)
        /\ \A k, r : RowOK(k, r)' = RowOK(k, r)
    BY <1>1, <2>2, SameHistory DEF RowsOf, Above
  <2>4. Began(w)' /\ Written(w)' /\ Inserted(w)' /\ Waiting(w)'
    <3>1. Began(w)'
      BY <1>1, <1>2, <2>2 DEF Began
    <3>2. Written(w)'
      BY <1>1, <1>2, <2>2, <2>3 DEF Written
    <3>3. Inserted(w)'
      BY <1>1, <1>2, <2>2, <2>3 DEF Inserted
    <3>4. Waiting(w)'
      BY <1>2, <2>2, <2>3 DEF Waiting
    <3> QED
      BY <3>1, <3>2, <3>3, <3>4
  <2>5. /\ Subject(w, item) \in Subjects /\ Derived(Subject(w, item), tx[w].begun)
        /\ EvidenceFor(w, item) \subseteq Saying(Subject(w, item)[1])
    BY <1>1, <1>5, SubjectFound
  <2>6. Searched(w)'
    BY <1>1, <2>2, <2>3, <2>5 DEF Searched, ClaimRows, Alive, Existing
  <2>7. \A u \in Open \ {w} : Apart(u, w)'
    <3>1. \A u \in Open \ {w} : tx'[u] = tx[u] /\ Apart(u, w)
      BY <1>1, <2>1 DEF IInv, Open, Running
    <3> QED
      BY <2>2, <3>1 DEF Apart
  <2> QED
    BY <1>1, <1>3, <2>4, <2>6, <2>7, OwnStep DEF OwnOK
<1> QED
  BY <1>4, <1>5

(* A rebuild deletes rows that nobody else has written.                    *)
LEMMA DeleteKeeps ==
  ASSUME IInv, NEW w \in Workers, DeleteRows(w)
  PROVE  IInv'
<1> DEFINE found == Existing(rows, tx[w].keys, NoRow)
<1>1. /\ tx = [u \in Workers |-> tx[u]] /\ w \in Open
      /\ tx[w].step = "rows" /\ Unlocked(w, found)
      /\ tx' = [tx EXCEPT ![w].step = "claims", ![w].rows = [k \in found |-> NoRow]]
      /\ UNCHANGED <<archive, rows, log, overlap>>
  BY DEF IInv, Committed, DeleteRows, Open, Running, ingestion, derived, history
<1>2. Began(w) /\ Written(w) /\ Waiting(w) /\ tx[w].subject = None
  BY <1>1 DEF IInv, OwnOK, Written
<1>3. tx' = [tx EXCEPT ![w] = tx'[w]]
  BY <1>1
<1>4. /\ DOMAIN tx'[w] = Fields /\ tx'[w].step = "claims"
      /\ tx'[w].begun = tx[w].begun /\ tx'[w].rows = [k \in found |-> NoRow]
      /\ tx'[w].conv = tx[w].conv /\ tx'[w].todo = tx[w].todo /\ tx'[w].subject = None
  BY <1>1, <1>2 DEF Fields, Began
<1>5. \A k \in found : rows[k] # NoRow
  BY DEF Existing
<1>6. \A u \in Open \ {w} : found \cap DOMAIN tx[u].rows = {}
  BY <1>1 DEF Unlocked, Others
<1> HIDE DEF found
<1>7. \A k \in Keys : RowsOf(w)'[k] = IF k \in found THEN NoRow ELSE rows[k]
  <2>1. Keys \subseteq DOMAIN rows'
    BY <1>1 DEF IInv, Committed
  <2>2. \A k \in Keys : RowsOf(w)'[k] = IF k \in DOMAIN tx'[w].rows
                                         THEN tx'[w].rows[k] ELSE rows'[k]
    BY <2>1, ViewAtNext
  <2> QED
    BY <1>1, <1>4, <2>2
<1>8. Began(w)'
  BY <1>1, <1>2, <1>4 DEF Began
<1>9. Written(w)'
  <2>1. \A k : RowOK(k, NoRow)'
    BY DEF RowOK, NoRow
  <2> QED
    BY <1>1, <1>4, <1>5, <2>1 DEF Written
<1>10. Inserted(w)'
  BY <1>2, <1>4, <1>7 DEF Inserted, Began, Alive, Existing
<1>11. Searched(w)' /\ Waiting(w)'
  <2>1. \A item, n : CandidateOK(item, n)' = CandidateOK(item, n)
    BY <1>1, SameHistory
  <2> QED
    BY <1>2, <1>4, <2>1 DEF Searched, Waiting
<1>12. \A u \in Open \ {w} : Apart(u, w)'
  <2>1. \A u \in Open \ {w} : tx'[u] = tx[u] /\ Apart(u, w)
    BY <1>1 DEF IInv, Open, Running
  <2> QED
    BY <1>4, <1>6, <2>1 DEF Apart
<1> QED
  BY <1>1, <1>3, <1>8, <1>9, <1>10, <1>11, <1>12, OwnStep DEF OwnOK

(* A claim is consolidated with the rows that were found and are still     *)
(* there: a new row only where the search has missed nothing but rows of   *)
(* transactions that ran at the same time, and a contradiction only where  *)
(* there are two rows.                                                     *)
LEMMA ConsolidateKeeps ==
  ASSUME IInv, NEW w \in Workers, Consolidate(w)
  PROVE  IInv'
<1> DEFINE x == tx[w]
           found == Existing(RowsOf(w), x.keys, NoRow)
           same == IF found = {} THEN <<x.subject, x.begun>> ELSE Earliest(found)
           new(k) == IF k = same THEN Supported(RowsOf(w)[k], x.evidence)
                     ELSE Contradicted(RowsOf(w)[k], x.evidence)
           written == Above([k \in found \cup {same} |-> new(k)], x.rows)
<1>1. /\ tx = [u \in Workers |-> tx[u]] /\ w \in Open
      /\ tx[w].step = "claims" /\ tx[w].subject # None
      /\ Unlocked(w, Existing(rows, tx[w].keys, NoRow))
      /\ UNCHANGED <<archive, rows, log, overlap>>
  BY DEF IInv, Committed, Consolidate, Open, Running, ingestion, derived, history
<1>2. PICK scopes : tx' = [tx EXCEPT ![w].subject = None, ![w].evidence = {}, ![w].keys = {},
                                     ![w].rows = written, ![w].scopes = scopes]
  BY <1>1 DEF Consolidate
<1>3. Began(w) /\ Written(w) /\ Inserted(w) /\ Searched(w) /\ Waiting(w)
  BY <1>1 DEF IInv, OwnOK
<1>4. /\ DOMAIN tx'[w] = Fields /\ tx'[w].step = "claims"
      /\ tx'[w].begun = tx[w].begun /\ tx'[w].rows = written
      /\ tx'[w].conv = tx[w].conv /\ tx'[w].todo = tx[w].todo /\ tx'[w].subject = None
  BY <1>1, <1>2, <1>3 DEF Fields, Began
<1>5. tx' = [tx EXCEPT ![w] = tx'[w]]
  BY <1>1, <1>2
<1>6. /\ DOMAIN written = found \cup {same} \cup DOMAIN tx[w].rows
      /\ \A k \in found \cup {same} : written[k] = new(k)
      /\ \A k \in DOMAIN tx[w].rows \ (found \cup {same}) : written[k] = tx[w].rows[k]
  BY DEF Above
<1>7. /\ \A k \in Keys : RowOK(k, RowsOf(w)[k])
      /\ \A k \in Alive(RowsOf(w)) : rows[k] # NoRow \/ k[2] = tx[w].begun
      /\ Twins(RowsOf(w))
      /\ \A c \in Subjects : WellOrdered(LiveOf(RowsOf(w), c))
  BY <1>1, ViewSound
<1>8. /\ \A k \in Keys : RowsOf(w)[k] = IF k \in DOMAIN tx[w].rows
                                        THEN tx[w].rows[k] ELSE rows[k]
      /\ \A k \in Keys : RowsOf(w)'[k] = IF k \in DOMAIN written THEN written[k] ELSE rows[k]
  <2>1. Keys \subseteq DOMAIN rows /\ Keys \subseteq DOMAIN rows'
    BY <1>1 DEF IInv, Committed
  <2>2. \A k \in Keys : RowsOf(w)'[k] = IF k \in DOMAIN tx'[w].rows
                                        THEN tx'[w].rows[k] ELSE rows'[k]
    BY <2>1, ViewAtNext
  <2> QED
    BY <1>1, <1>4, <2>1, <2>2, ViewAt
<1>9. \A k \in found : k \in tx[w].keys /\ k \in Alive(RowsOf(w)) /\ k[1] = tx[w].subject
  BY <1>1, <1>3 DEF Existing, Alive, Searched
<1>10. \A k \in tx[w].keys \cap Alive(RowsOf(w)) : k \in found
  BY DEF Existing, Alive
<1>11. found # {} => same \in found /\ \A k \in found : same[2] <= k[2]
  <2> SUFFICES ASSUME found # {} PROVE HasEarliest(found)
    BY DEF Earliest, HasEarliest
  <2>1. PICK k \in found : TRUE
    OBVIOUS
  <2>2. tx[w].subject \in Subjects
    BY <1>9, <2>1, KeyParts DEF Alive, Existing
  <2>3. found \in SUBSET LiveOf(RowsOf(w), tx[w].subject)
    BY <1>9 DEF LiveOf
  <2> QED
    BY <1>7, <2>2, <2>3 DEF WellOrdered
<1>12. found = {} => same = <<tx[w].subject, tx[w].begun>>
  OBVIOUS
<1>13. \A k \in found \cup {same} : new(k) = IF k = same
                                             THEN Supported(RowsOf(w)[k], tx[w].evidence)
                                             ELSE Contradicted(RowsOf(w)[k], tx[w].evidence)
  OBVIOUS
<1> HIDE DEF x, found, same, new, written
<1>14. ASSUME NEW k \in Keys, k \in found \cup {same} PROVE RowOK(k, new(k))
  <2> DEFINE r == RowsOf(w)[k]
  <2>1. RowOK(k, r)
    BY <1>7
  <2>2. Derived(k[1], k[2])
    <3>1. CASE k \in found
      BY <1>9, <2>1, <3>1 DEF RowOK, Alive, Existing
    <3>2. CASE k = same /\ found = {}
      BY <1>1, <1>3, <1>12, <3>2 DEF Searched
    <3> QED
      BY <1>11, <1>14, <3>1, <3>2
  <2>3. CASE k = same
    <3>1. DOMAIN new(k) = {"supports", "contradicts"} /\ new(k).contradicts = r.contradicts
      BY <1>13, <2>1, <2>3 DEF Supported, RowOK
    <3> QED
      BY <2>1, <2>2, <3>1 DEF RowOK
  <2>4. CASE k # same
    <3>1. /\ DOMAIN new(k) = {"supports", "contradicts"}
          /\ new(k).contradicts \subseteq r.contradicts \cup tx[w].evidence
      BY <1>13, <1>14, <2>1, <2>4, ZenonT(60) DEF Contradicted, RowOK
    <3>2. tx[w].evidence \subseteq Saying(k[1][1])
      BY <1>1, <1>3, <1>9, <1>14, <2>4 DEF Searched
    <3>3. same \in found /\ same[2] <= k[2] /\ k \in found
      BY <1>11, <1>14, <2>4
    <3>4. same[1] = k[1] /\ {same, k} \subseteq Alive(RowsOf(w))
      BY <1>9, <3>3
    <3>5. same[2] < k[2]
      BY <2>4, <3>3, <3>4, KeyParts DEF Alive, Existing
    <3>6. <<same[2], k[2]>> \in overlap
      BY <1>7, <3>4, <3>5 DEF Twins
    <3>7. \E p \in overlap : k[2] = p[2]
      BY <3>6
    <3> QED
      BY <2>1, <2>2, <3>1, <3>2, <3>7 DEF RowOK
  <2> QED
    BY <2>3, <2>4
<1>15. Began(w)'
  BY <1>1, <1>3, <1>4 DEF Began
<1>16. Written(w)'
  <2>1. \A k, r : RowOK(k, r)' = RowOK(k, r)
    BY <1>1, SameHistory
  <2>2. ASSUME NEW k \in Keys \cap DOMAIN written
        PROVE  (k[2] = tx[w].begun \/ rows[k] # NoRow) /\ RowOK(k, written[k])
    <3>1. CASE k \in DOMAIN tx[w].rows \ (found \cup {same})
      BY <1>3, <1>6, <3>1 DEF Written
    <3>2. CASE k \in found
      BY <1>6, <1>7, <1>9, <1>14, <3>2
    <3>3. CASE k = same /\ found = {}
      BY <1>6, <1>12, <1>14, <3>3
    <3> QED
      BY <1>6, <1>11, <3>1, <3>2, <3>3
  <2> QED
    BY <1>1, <1>4, <2>1, <2>2 DEF Written
<1>17. \A k \in Alive(RowsOf(w)') : k \in Alive(RowsOf(w)) \/ (k = same /\ found = {})
  <2> SUFFICES ASSUME NEW k \in Keys, k \in Alive(RowsOf(w)'),
                      k \notin found, ~(k = same /\ found = {})
               PROVE  k \in Alive(RowsOf(w))
    <3>1. \A k \in Alive(RowsOf(w)') : k \in Keys
      BY DEF Alive, Existing
    <3>2. \A k \in found : k \in Alive(RowsOf(w))
      BY <1>9
    <3> QED
      BY <3>1, <3>2
  <2>1. k \notin found \cup {same}
    BY <1>11
  <2>2. RowsOf(w)'[k] = RowsOf(w)[k]
    BY <1>6, <1>8, <2>1
  <2> QED
    BY <2>2 DEF Alive, Existing
<1>18. Inserted(w)'
  <2> SUFFICES ASSUME NEW k \in Alive(RowsOf(w)'), NEW j \in Alive(RowsOf(w)'),
                      k[2] = tx[w].begun, j[1] = k[1], j[2] < k[2]
               PROVE  <<j[2], k[2]>> \in overlap
    BY <1>1, <1>4 DEF Inserted
  <2>1. k \in Keys /\ j \in Keys
    BY DEF Alive, Existing
  <2>2. j \in Alive(RowsOf(w))
    BY <1>12, <1>17, <2>1, KeyParts
  <2>3. CASE k \in Alive(RowsOf(w))
    BY <1>3, <2>2, <2>3 DEF Inserted
  <2>4. CASE k = same /\ found = {}
    <3>1. j[1] = tx[w].subject
      BY <1>12, <2>4
    <3>2. j \notin tx[w].keys
      BY <1>10, <2>2, <2>4
    <3> QED
      BY <1>1, <1>3, <2>2, <3>1, <3>2 DEF Searched
  <2> QED
    BY <1>17, <2>3, <2>4
<1>19. Searched(w)' /\ Waiting(w)'
  <2>1. \A item, n : CandidateOK(item, n)' = CandidateOK(item, n)
    BY <1>1, SameHistory
  <2> QED
    BY <1>3, <1>4, <2>1 DEF Searched, Waiting
<1>20. ASSUME NEW u \in Open \ {w} PROVE Apart(u, w)'
  <2>1. tx'[u] = tx[u] /\ Apart(u, w) /\ Written(u)
    BY <1>1, <1>5 DEF IInv, OwnOK, Open, Running
  <2>2. ASSUME NEW k \in Keys, k \in DOMAIN tx[u].rows, k \in found PROVE FALSE
    <3>1. CASE rows[k] # NoRow
      <4>1. k \in Existing(rows, tx[w].keys, NoRow)
        BY <1>9, <2>2, <3>1 DEF Existing
      <4> QED
        BY <1>1, <2>2, <4>1 DEF Unlocked, Others
    <3>2. CASE rows[k] = NoRow
      BY <1>8, <1>9, <2>1, <2>2, <3>2 DEF Apart, Alive, Existing
    <3> QED
      BY <3>1, <3>2
  <2>3. ASSUME NEW k \in Keys, k \in DOMAIN tx[u].rows, k = same, found = {} PROVE FALSE
    BY <1>3, <1>12, <2>1, <2>3 DEF Apart, Written, Began
  <2>4. \A k \in Keys : ~(k \in DOMAIN tx[u].rows /\ k \in DOMAIN written)
    BY <1>6, <1>11, <2>1, <2>2, <2>3 DEF Apart
  <2> QED
    BY <1>4, <2>1, <2>4 DEF Apart
<1> QED
  BY <1>1, <1>5, <1>15, <1>16, <1>18, <1>19, <1>20, OwnStep DEF OwnOK

LEMMA FirstIsIn ==
  ASSUME Committed, NEW c, NEW k, Group(c, k) # {}
  PROVE  First(Group(c, k)) \in Group(c, k)
<1>1. Group(c, k) \in SUBSET DOMAIN archive
  BY DEF Group, Of
<1>2. HasFirst(Group(c, k))
  BY <1>1 DEF Committed
<1> QED
  BY <1>2 DEF HasFirst, First

(* A candidate of a rebuild is on the page of the first message of its     *)
(* group.                                                                  *)
LEMMA CandidateIs ==
  ASSUME Committed, NEW item \in Candidates
  PROVE  \E m \in DOMAIN archive :
             /\ item.claim = archive[m].text.claim /\ item.scope = Scope[archive[m].text]
             /\ item.evidence \subseteq Saying(item.claim)
<1>1. PICK c \in Conversations, k \in Claims :
          Group(c, k) # {} /\ item = Candidate(Group(c, k))
  BY DEF Candidates, Groups
<1>2. /\ Group(c, k) \in SUBSET DOMAIN archive
      /\ \A m \in Group(c, k) : archive[m].text.claim = k
  BY DEF Group, Of
<1>3. First(Group(c, k)) \in Group(c, k)
  BY <1>1, FirstIsIn
<1>4. /\ item.claim = archive[First(Group(c, k))].text.claim
      /\ item.scope = Scope[archive[First(Group(c, k))].text]
      /\ item.evidence = Group(c, k)
  BY <1>1 DEF Candidate
<1>5. item.evidence \subseteq Saying(item.claim)
  BY <1>2, <1>3, <1>4 DEF Saying
<1> QED
  BY <1>2, <1>3, <1>4, <1>5

(* A transaction begins: what is open now has run beside it.               *)
LEMMA BeginKeeps ==
  ASSUME IInv, NEW w \in Workers, BeginRebuild(w) \/ \E c \in Conversations : BeginRefresh(w, c)
  PROVE  IInv'
<1>1. PICK c, step, todo, sums :
          /\ c \in Conversations \cup {None} /\ step \in {"summary", "delete"}
          /\ Begin(w, c, Transaction(c, step, todo, sums))
          /\ IF c = None THEN todo = Candidates ELSE \A item \in todo : item.form # "ragged"
  <2>1. CASE BeginRebuild(w)
    BY <2>1 DEF BeginRebuild
  <2>2. CASE \E c \in Conversations : BeginRefresh(w, c)
    <3>1. \A t : Collapse(t).form # "ragged"
      BY DEF Collapse
    <3> QED
      BY <2>2, <3>1, ObservationsAssumption DEF BeginRefresh
  <2> QED
    BY <2>1, <2>2
<1>2. /\ tx = [u \in Workers |-> tx[u]] /\ tx[w] = None
      /\ tx' = [tx EXCEPT ![w] = Transaction(c, step, todo, sums)]
      /\ log' = Append(log, c) /\ log \in Seq(Conversations \cup {None})
      /\ overlap' = overlap \cup {<<tx[u].begun, Len(log) + 1>> : u \in Open}
      /\ UNCHANGED <<archive, rows>>
  BY <1>1 DEF IInv, Committed, Begin, ingestion, derived
<1>3. /\ log' \in Seq(Conversations \cup {None})
      /\ Len(log) \in Nat /\ Len(log') = Len(log) + 1
  <2>1. c \in Conversations \cup {None}
    BY <1>1
  <2> QED
    BY <1>2, <2>1
<1>4. /\ DOMAIN tx'[w] = Fields /\ tx'[w].begun = Len(log) + 1 /\ tx'[w].step # "claims"
      /\ tx'[w].rows = <<>> /\ tx'[w].subject = None /\ tx'[w].conv = c /\ tx'[w].todo = todo
  <2>1. step # "claims" /\ w \in DOMAIN tx
    BY <1>1, <1>2
  <2>2. tx'[w] = Transaction(c, step, todo, sums)
    BY <1>2, <2>1
  <2> QED
    BY <2>1, <2>2 DEF Transaction, Fields
<1>5. \A u \in Workers \ {w} : tx'[u] = tx[u]
  BY <1>2
<1>6. Longer
  BY <1>2, <1>3 DEF Longer
<1>7. Committed'
  <2>1. \A k, r : RowOK(k, r) => RowOK(k, r)'
    BY <1>6, StaysOK
  <2>2. \A k \in Alive(rows') : k[2] <= Len(log')
    BY <1>2, <1>3, KeyParts DEF IInv, Committed, Alive, Existing
  <2>3. Twins(rows)'
    BY <1>2 DEF IInv, Committed, Twins, Alive, Existing
  <2>4. \A k \in Subjects : WellOrdered(LiveOf(rows, k))'
    BY <1>2 DEF IInv, Committed, LiveOf, Alive, Existing
  <2>5. tx' = [u \in Workers |-> tx'[u]]
    BY <1>2
  <2>6. \A k \in Keys : RowOK(k, rows[k])'
    <3>1. \A k \in Keys : RowOK(k, rows[k])
      BY DEF IInv, Committed
    <3> QED
      BY <1>2, <2>1, <3>1
  <2>7. \A k \in (Alive(rows))' : k[2] <= Len(log')
    BY <2>2 DEF Alive, Existing
  <2>8. /\ Keys \subseteq DOMAIN rows' /\ archive' \in Seq([conv : Conversations, text : Texts])
        /\ \A S \in SUBSET DOMAIN archive' : S # {} => HasFirst(S)
    BY <1>2 DEF IInv, Committed
  <2> QED
    BY <1>3, <2>3, <2>4, <2>5, <2>6, <2>7, <2>8 DEF Committed
<1>8. OwnOK(w)'
  <2>1. Keys \subseteq DOMAIN rows'
    BY <1>2 DEF IInv, Committed
  <2>2. \A k \in Keys : RowsOf(w)'[k] = rows[k]
    <3>1. DOMAIN tx'[w].rows = {}
      BY <1>4
    <3> QED
      BY <1>2, <2>1, <3>1, ViewAtNext
  <2>3. \A k \in Keys : k[2] = Len(log) + 1 => rows[k] = NoRow
    BY <1>3 DEF IInv, Committed, Alive, Existing
  <2>4. Began(w)'
    <3>1. log'[Len(log) + 1] = c
      BY <1>2
    <3> QED
      BY <1>2, <1>3, <1>4, <2>3, <3>1 DEF Began
  <2>5. Written(w)' /\ Searched(w)'
    BY <1>4 DEF Written, Searched
  <2>6. Inserted(w)'
    BY <1>4, <2>2, <2>3 DEF Inserted, Alive, Existing
  <2>7. Waiting(w)'
    <3>1. CASE c = None
      <4>1. FromRebuild(Len(log))'
        BY <1>2, <1>3, <3>1 DEF FromRebuild
      <4>2. ASSUME NEW item \in Candidates PROVE CandidateOK(item, Len(log))'
        <5>1. PICK m \in DOMAIN archive :
                  /\ item.claim = archive[m].text.claim /\ item.scope = Scope[archive[m].text]
                  /\ item.evidence \subseteq Saying(item.claim)
          BY CandidateIs DEF IInv
        <5>2. archive[m].text \in Texts
          BY ElementsTyped
        <5>3. <<item.claim, item.scope>> \in Subjects
          BY <5>1, <5>2 DEF Subjects, Scopes, Texts
        <5>4. Derived(<<item.claim, item.scope>>, Len(log))'
          BY <1>2, <4>1, <5>1 DEF Derived
        <5>5. item.evidence \subseteq Saying(item.claim)'
          BY <1>2, <5>1 DEF Saying
        <5> QED
          BY <1>2, <5>3, <5>4, <5>5 DEF CandidateOK
      <4> QED
        BY <1>1, <1>3, <1>4, <3>1, <4>2 DEF Waiting
    <3>2. CASE c # None
      BY <1>1, <1>4, <3>2 DEF Waiting
    <3> QED
      BY <3>1, <3>2
  <2> QED
    BY <2>4, <2>5, <2>6, <2>7 DEF OwnOK
<1>9. ASSUME NEW u \in Open' \ {w} PROVE u \in Open /\ tx'[u] = tx[u] /\ OwnOK(u)'
  <2>1. u \in Open /\ tx'[u] = tx[u]
    BY <1>5 DEF Open, Running
  <2>2. Began(u)
    BY <2>1 DEF IInv, OwnOK
  <2>3. \A n \in tx[u].begun + 1 .. Len(log') : <<tx[u].begun, n>> \in overlap'
    <3> SUFFICES ASSUME NEW n \in tx[u].begun + 1 .. Len(log')
                 PROVE  <<tx[u].begun, n>> \in overlap'
      OBVIOUS
    <3>1. tx[u].begun \in Nat
      BY <1>3, <2>2 DEF Began
    <3>2. CASE n = Len(log) + 1
      BY <1>2, <2>1, <3>2
    <3>3. CASE n # Len(log) + 1
      <4>1. n \in tx[u].begun + 1 .. Len(log)
        BY <1>3, <3>1, <3>3
      <4> QED
        BY <1>2, <2>2, <4>1 DEF Began
    <3> QED
      BY <3>2, <3>3
  <2>4. Keys \subseteq DOMAIN rows'
    BY <1>2 DEF IInv, Committed
  <2>5. /\ Longer /\ Len(log') \in Nat /\ Len(log) <= Len(log')
        /\ \A k \in Keys : rows'[k] = rows[k]
    BY <1>2, <1>3, <1>6
  <2> QED
    BY <2>1, <2>3, <2>4, <2>5, OthersKeep
<1>10. ASSUME NEW u \in Open' \ {w} PROVE Apart(u, w)' /\ Apart(w, u)'
  <2>1. tx[u].begun \in 1 .. Len(log)
    BY <1>9 DEF IInv, OwnOK, Began
  <2> QED
    BY <1>3, <1>4, <1>9, <2>1 DEF Apart
<1>11. ASSUME NEW u \in Open', NEW v \in Open', u # v PROVE Apart(u, v)'
  <2>1. CASE u # w /\ v # w
    BY <1>9, <1>11, <2>1 DEF IInv, Apart
  <2> QED
    BY <1>10, <1>11, <2>1
<1> QED
  BY <1>7, <1>8, <1>9, <1>11 DEF IInv

(* A commit: what a transaction sees becomes what is there.                *)
LEMMA CommitKeeps ==
  ASSUME IInv, NEW w \in Workers, Commit(w)
  PROVE  IInv'
<1>1. /\ tx = [u \in Workers |-> tx[u]] /\ w \in Open
      /\ rows' = RowsOf(w)
      /\ tx' = [tx EXCEPT ![w] = IF tx[w].conv = None THEN None
                                 ELSE [tx[w] EXCEPT !.step = "mark"]]
      /\ UNCHANGED <<archive, log, overlap>>
  BY DEF IInv, Committed, Commit, Open, Running, ingestion, history
<1>2. Began(w) /\ Written(w)
  BY <1>1 DEF IInv, OwnOK
<1>3. w \notin Open'
  BY <1>1, <1>2 DEF Open, Running, Began, Fields
<1>4. \A u \in Open' : u # w /\ u \in Open /\ tx'[u] = tx[u]
  BY <1>1, <1>3 DEF Open, Running
<1>5. Longer /\ \A k, r : RowOK(k, r)' = RowOK(k, r)
  BY <1>1, SameHistory
<1>6. /\ Keys \subseteq DOMAIN rows'
      /\ \A k \in Keys : rows'[k] = IF k \in DOMAIN tx[w].rows THEN tx[w].rows[k] ELSE rows[k]
  BY <1>1, ViewAt DEF IInv, Committed
<1>7. Committed'
  <2>1. /\ \A k \in Keys : RowOK(k, rows'[k])
        /\ \A k \in Alive(rows') : rows[k] # NoRow \/ k[2] = tx[w].begun
        /\ Twins(rows')
        /\ \A c \in Subjects : WellOrdered(LiveOf(rows', c))
    BY <1>1, ViewSound
  <2>2. \A k \in Alive(rows') : k[2] <= Len(log)
    BY <1>2, <2>1 DEF IInv, Committed, Began, Alive, Existing
  <2>3. tx' = [u \in Workers |-> tx'[u]]
    BY <1>1
  <2> QED
    BY <1>1, <1>5, <1>6, <2>1, <2>2, <2>3
       DEF IInv, Committed, Twins, Alive, Existing, LiveOf
<1>8. ASSUME NEW u \in Open' PROVE OwnOK(u)'
  <2>1. u # w /\ u \in Open /\ tx'[u] = tx[u] /\ Apart(u, w) /\ Began(u)
    BY <1>1, <1>4 DEF IInv, OwnOK
  <2>2. Len(log) \in Nat
    BY DEF IInv, Committed
  <2>3. ASSUME NEW k \in Keys
        PROVE  \/ rows'[k] = rows[k]
               \/ /\ k \notin DOMAIN tx[u].rows
                  /\ \/ rows[k] # NoRow
                     \/ /\ k[2] # tx[u].begun
                        /\ k[2] < tx[u].begun => <<k[2], tx[u].begun>> \in overlap
    <3>1. CASE k \notin DOMAIN tx[w].rows
      BY <1>6, <3>1
    <3>2. CASE k \in DOMAIN tx[w].rows
      <4>1. k \notin DOMAIN tx[u].rows
        BY <2>1, <3>2 DEF Apart
      <4>2. CASE k[2] = tx[w].begun
        <5>1. tx[w].begun < tx[u].begun => tx[u].begun \in tx[w].begun + 1 .. Len(log)
          BY <1>2, <2>1, <2>2 DEF Began
        <5> QED
          BY <1>2, <2>1, <4>1, <4>2, <5>1 DEF Began, Apart
      <4> QED
        BY <1>2, <3>2, <4>1, <4>2 DEF Written
    <3> QED
      BY <3>1, <3>2
  <2>4. \A n \in tx[u].begun + 1 .. Len(log) : <<tx[u].begun, n>> \in overlap
    BY <2>1 DEF Began
  <2>5. /\ Longer
        /\ overlap' = overlap /\ Len(log') = Len(log) /\ Len(log) <= Len(log)
    BY <1>1, <1>5, <2>2
  <2> QED
    BY <1>6, <2>1, <2>2, <2>3, <2>4, <2>5, OthersKeep
<1>9. \A u, v \in Open' : u # v => Apart(u, v)'
  BY <1>4 DEF IInv, Apart
<1> QED
  BY <1>7, <1>8, <1>9 DEF IInv

(* A message arrives; what is known of the earlier ones stays.             *)
LEMMA ArriveKeeps ==
  ASSUME IInv, NEW c \in Conversations, NEW t \in Texts, Arrive(c, t)
  PROVE  IInv'
<1>1. /\ archive' = Append(archive, [conv |-> c, text |-> t])
      /\ archive \in Seq([conv : Conversations, text : Texts])
      /\ UNCHANGED <<rows, tx, log, overlap>>
  BY DEF IInv, Committed, Arrive, derived, history
<1>2. archive' \in Seq([conv : Conversations, text : Texts])
  BY <1>1
<1>3. Longer
  BY <1>1 DEF Longer
<1>4. \A k, r : RowOK(k, r) => RowOK(k, r)'
  BY <1>3, StaysOK
<1>5. ASSUME NEW S \in SUBSET DOMAIN archive', S # {} PROVE HasFirst(S)
  <2> DEFINE new == Len(archive) + 1
             old == S \ {new}
  <2>1. DOMAIN archive' = DOMAIN archive \cup {new} /\ \A n \in DOMAIN archive' : n <= new
    BY <1>1
  <2>2. old \in SUBSET DOMAIN archive /\ S \subseteq old \cup {new}
    BY <2>1
  <2>3. CASE old = {}
    <3>1. S = {new}
      BY <1>5, <2>2, <2>3
    <3>2. new <= new
      BY <1>1
    <3> QED
      BY <3>1, <3>2 DEF HasFirst
  <2>4. CASE old # {}
    <3>1. PICK m \in old : \A n \in old : m <= n
      BY <2>2, <2>4 DEF IInv, Committed, HasFirst
    <3>2. m \in S /\ \A n \in S : m <= n
      BY <2>1, <2>2, <3>1
    <3> QED
      BY <3>2 DEF HasFirst
  <2> QED
    BY <2>3, <2>4
<1>6. Committed'
  BY <1>1, <1>2, <1>4, <1>5 DEF IInv, Committed, Twins, Alive, Existing, LiveOf
<1>7. ASSUME NEW u \in Open' PROVE u \in Open /\ OwnOK(u)'
  <2>1. u \in Open /\ Began(u) /\ Len(log) \in Nat /\ Keys \subseteq DOMAIN rows
    BY <1>1 DEF IInv, OwnOK, Committed, Open, Running
  <2> QED
    BY <1>1, <1>3, <2>1, OthersKeep DEF Began
<1>8. \A u, v \in Open' : u # v => Apart(u, v)'
  BY <1>1, <1>7 DEF IInv, Apart
<1> QED
  BY <1>6, <1>7, <1>8 DEF IInv

(* Ingestion does not meet the derived rows.                               *)
LEMMA SameKeeps ==
  ASSUME IInv, UNCHANGED <<archive, rows, tx, log, overlap>>
  PROVE  IInv'
<1>1. /\ \A w : RowsOf(w)' = RowsOf(w)
      /\ \A k : Saying(k)' = Saying(k)
      /\ \A s, n : Derived(s, n)' = Derived(s, n)
      /\ \A item, n : CandidateOK(item, n)' = CandidateOK(item, n)
      /\ \A k, r : RowOK(k, r)' = RowOK(k, r)
      /\ Open' = Open
  BY SameHistory DEF RowsOf, Above, Open, Running
<1>2. Committed'
  BY <1>1 DEF IInv, Committed, Twins, Alive, Existing, LiveOf
<1>3. \A w \in Open : OwnOK(w)'
  BY <1>1 DEF IInv, OwnOK, Began, Written, Inserted, Searched, Waiting
<1>4. \A u, w \in Open : u # w => Apart(u, w)'
  BY DEF IInv, Apart
<1> QED
  BY <1>1, <1>2, <1>3, <1>4 DEF IInv

(* A transaction that is over, or rolled back.                             *)
LEMMA EndKeeps ==
  ASSUME IInv, NEW w \in Workers, MarkSucceeded(w) \/ Abort(w)
  PROVE  IInv'
<1>1. /\ tx = [u \in Workers |-> tx[u]] /\ tx' = [tx EXCEPT ![w] = None]
      /\ UNCHANGED <<archive, rows, log, overlap>>
  BY DEF IInv, Committed, MarkSucceeded, Abort, ingestion, derived, history
<1>2. w \notin Open' /\ tx' = [tx EXCEPT ![w] = tx'[w]]
  BY <1>1 DEF Open, Running
<1> QED
  BY <1>1, <1>2, OwnStep

(* Every step. *)
LEMMA IInvStep == IInv /\ [Next]_vars => IInv'
<1> SUFFICES ASSUME IInv, [Next]_vars PROVE IInv'
  OBVIOUS
<1>1. CASE UNCHANGED vars
  BY <1>1, SameKeeps DEF vars, ingestion, derived, history
<1>2. CASE \E c \in Conversations, t \in Texts : Arrive(c, t)
  BY <1>2, ArriveKeeps
<1>3. CASE \E m \in Messages : Retain(m) \/ Mark(m)
  BY <1>3, SameKeeps DEF Retain, Mark, derived, history
<1>4. ASSUME NEW w \in Workers,
             \/ \E c \in Conversations : BeginRefresh(w, c)
             \/ BeginRebuild(w) \/ StartDelete(w) \/ DeletePages(w) \/ DeleteRows(w)
             \/ SaveSummary(w)
             \/ tx[w] # None /\ \E item \in tx[w].todo : FindRows(w, item)
             \/ Consolidate(w)
             \/ \E s \in Scopes : ReadPage(w, s)
             \/ WritePage(w)
             \/ Commit(w) \/ MarkSucceeded(w) \/ Abort(w)
      PROVE  IInv'
  BY <1>4, BeginKeeps, LocalSteps, DeleteKeeps, FindKeeps, ConsolidateKeeps, CommitKeeps, EndKeeps
<1> QED
  BY <1>1, <1>2, <1>3, <1>4 DEF Next

(* Nothing is derived at the start. *)
LEMMA IInvInit == Init => IInv
<1> SUFFICES ASSUME Init PROVE IInv
  OBVIOUS
<1>1. Open = {}
  BY DEF Init, Open, Running
<1>2. \A k \in Keys : rows[k] = NoRow
  BY DEF Init
<1>3. Alive(rows) = {}
  BY <1>2 DEF Alive, Existing
<1>4. \A k \in Keys : RowOK(k, rows[k])
  BY <1>2 DEF RowOK, NoRow
<1>5. /\ \A c \in Subjects : WellOrdered(LiveOf(rows, c))
      /\ \A S \in SUBSET DOMAIN archive : S # {} => HasFirst(S)
  BY <1>3 DEF WellOrdered, LiveOf, Init
<1>6. log \in Seq(Conversations \cup {None}) /\ archive \in Seq([conv : Conversations, text : Texts])
  BY DEF Init
<1> QED
  BY <1>1, <1>3, <1>4, <1>5, <1>6 DEF Init, IInv, Committed, Twins

-----------------------------------------------------------------------------
(* consolidate decides that a claim is new on its page on what is          *)
(* committed, and no constraint stops a second row: it still takes two     *)
(* transactions that ran at the same time.  On another page it takes       *)
(* ragged spaces and a rebuild, at any distance in time.                   *)
THEOREM TwinsAreExplained == Spec => []TwinsExplained
<1>1. IInv => TwinsExplained
  <2> SUFFICES ASSUME IInv, NEW k \in Live, NEW j \in Live, k[1][1] = j[1][1], k # j
               PROVE  IF k[1] = j[1]
                      THEN <<k[2], j[2]>> \in overlap \/ <<j[2], k[2]>> \in overlap
                      ELSE Ragged(k[1][1]) /\ None \in {log[k[2]], log[j[2]]}
    BY DEF TwinsExplained
  <2>1. /\ k \in Keys /\ rows[k] # NoRow /\ k \in Alive(rows)
        /\ j \in Keys /\ rows[j] # NoRow /\ j \in Alive(rows)
    BY DEF Live, Alive, Existing
  <2>2. CASE k[1] = j[1]
    <3>1. k[2] < j[2] \/ j[2] < k[2]
      BY <2>1, <2>2, KeyParts
    <3> QED
      BY <2>1, <2>2, <3>1 DEF IInv, Committed, Twins
  <2>3. CASE k[1] # j[1]
    <3>1. k[1][2] # j[1][2]
      BY <2>1, <2>3, KeyParts
    <3>2. Derived(k[1], k[2]) /\ Derived(j[1], j[2])
      BY <2>1 DEF IInv, Committed, RowOK
    <3>3. PICK m \in DOMAIN archive :
              /\ archive[m].text.claim = k[1][1] /\ Scope[archive[m].text] = k[1][2]
              /\ archive[m].text.form = "ragged" => FromRebuild(k[2])
      BY <3>2 DEF Derived
    <3>4. PICK n \in DOMAIN archive :
              /\ archive[n].text.claim = j[1][1] /\ Scope[archive[n].text] = j[1][2]
              /\ archive[n].text.form = "ragged" => FromRebuild(j[2])
      BY <3>2 DEF Derived
    <3>5. archive[m].text \in Texts /\ archive[n].text \in Texts
      BY ElementsTyped
    <3>6. "ragged" \in {archive[m].text.form, archive[n].text.form}
      BY <3>1, <3>3, <3>4, <3>5, ObservationsAssumption
    <3>7. \A t \in Texts : t.form = "ragged" => t = [claim |-> t.claim, form |-> "ragged"]
      BY DEF Texts
    <3>8. CASE archive[m].text.form = "ragged"
      BY <2>3, <3>3, <3>5, <3>7, <3>8 DEF Ragged, FromRebuild
    <3>9. CASE archive[n].text.form = "ragged"
      BY <2>3, <3>4, <3>5, <3>7, <3>9 DEF Ragged, FromRebuild
    <3> QED
      BY <3>6, <3>8, <3>9
  <2> QED
    BY <2>2, <2>3
<1> QED
  BY <1>1, IInvInit, IInvStep, PTL DEF Spec

(* An observation is contested only by messages of its own claim, and only *)
(* when its transaction began while another was open.                      *)
THEOREM OnlyTwinsAreContested == Spec => []ContestedByTwin
<1>1. IInv => ContestedByTwin
  BY DEF IInv, Committed, RowOK, Saying, ContestedByTwin, Live, Existing
<1> QED
  BY <1>1, IInvInit, IInvStep, PTL DEF Spec

-----------------------------------------------------------------------------
(* The statements of a transaction that derive observations and pages.     *)
Quiet(w) ==
    \/ StartDelete(w) \/ DeletePages(w) \/ DeleteRows(w)
    \/ tx[w] # None /\ \E item \in tx[w].todo : FindRows(w, item)
    \/ Consolidate(w)
    \/ \E s \in Scopes : ReadPage(w, s)
    \/ WritePage(w)

(* What they leave alone.                                                  *)
Same(w) ==
    /\ w \in Open /\ \A u \in Workers \ {w} : tx'[u] = tx[u]
    /\ DOMAIN tx'[w] = Fields
    /\ tx'[w].conv = tx[w].conv /\ tx'[w].begun = tx[w].begun
    /\ tx'[w].through = tx[w].through /\ tx'[w].last = tx[w].last /\ tx'[w].sums = tx[w].sums
    /\ \/ tx'[w].step = tx[w].step
       \/ tx[w].step \in {"delete", "pages", "rows"} /\ tx'[w].step \in {"pages", "rows", "claims"}
    /\ UNCHANGED <<ingestion, derived, history>>

LEMMA QuietIs ==
  ASSUME IInv, NEW w \in Workers, Quiet(w)
  PROVE  Same(w)
<1>1. tx = [u \in Workers |-> tx[u]]
  BY DEF IInv, Committed
<1>2. w \in Open /\ UNCHANGED <<ingestion, derived, history>>
  BY DEF Quiet, StartDelete, DeletePages, DeleteRows, FindRows, Consolidate, ReadPage, WritePage,
         Open, Running
<1>3. DOMAIN tx[w] = Fields
  BY <1>2 DEF IInv, OwnOK, Began
<1>4. CASE StartDelete(w)
  BY <1>1, <1>2, <1>3, <1>4 DEF StartDelete, Same, Fields
<1>5. CASE DeletePages(w)
  BY <1>1, <1>2, <1>3, <1>5 DEF DeletePages, Same, Fields
<1>6. CASE DeleteRows(w)
  BY <1>1, <1>2, <1>3, <1>6 DEF DeleteRows, Same, Fields
<1>7. ASSUME NEW item, FindRows(w, item) PROVE Same(w)
  BY <1>1, <1>2, <1>3, <1>7 DEF FindRows, Same, Fields
<1>8. CASE Consolidate(w)
  <2>1. PICK rr, scopes : tx' = [tx EXCEPT ![w].subject = None, ![w].evidence = {}, ![w].keys = {},
                                           ![w].rows = rr, ![w].scopes = scopes]
    BY <1>8 DEF Consolidate
  <2> QED
    BY <1>1, <1>2, <1>3, <2>1 DEF Same, Fields
<1>9. ASSUME NEW s, ReadPage(w, s) PROVE Same(w)
  <2>1. PICK ss, r : tx' = [tx EXCEPT ![w].scopes = ss, ![w].read = r]
    BY <1>9 DEF ReadPage
  <2> QED
    BY <1>1, <1>2, <1>3, <2>1 DEF Same, Fields
<1>10. CASE WritePage(w)
  <2>1. PICK pp : tx' = [tx EXCEPT ![w].read = NoRead, ![w].pages = pp]
    <3>1. tx' = [tx EXCEPT ![w].read = NoRead] =>
          tx' = [tx EXCEPT ![w].read = NoRead, ![w].pages = tx[w].pages]
      BY <1>1, <1>2, <1>3 DEF Fields
    <3> QED
      BY <1>10, <3>1 DEF WritePage
  <2> QED
    BY <1>1, <1>2, <1>3, <2>1 DEF Same, Fields
<1> QED
  BY <1>4, <1>5, <1>6, <1>7, <1>8, <1>9, <1>10 DEF Quiet

-----------------------------------------------------------------------------
(***************************************************************************)
(* Summaries                                                               *)
(***************************************************************************)

(* Two refreshes of c ran side by side.                                    *)
Twice(c) == \E p \in overlap : log[p[1]] = c /\ log[p[2]] = c

(* Messages are ingested in the order of their conversation, and a         *)
(* conversation is dirty through the last of them.                         *)
Archived ==
    /\ marked \subseteq retained /\ retained \subseteq DOMAIN archive
    /\ dirty \in [Conversations -> Nat] /\ summary \in [Conversations -> Nat]
    /\ \A p \in overlap : p[1] \in 1 .. Len(log) /\ p[2] \in 1 .. Len(log)
    /\ \A c \in Conversations : \E m \in Of(c) \cup {0} : \A n \in Of(c) : n <= m
    /\ \A c \in Conversations : \A n \in marked \cap Of(c) : \A m \in Of(c) : m < n => m \in marked
    /\ \A c \in Conversations : dirty[c] # 0 =>
           dirty[c] \in marked \cap Of(c) /\ \A m \in marked \cap Of(c) : m <= dirty[c]

(* What a transaction knows since it began.                                *)
Fixed(w) ==
    LET x == tx[w] IN
    /\ DOMAIN x = Fields /\ x.conv \in Conversations \cup {None}
    /\ x.begun \in 1 .. Len(log) /\ log[x.begun] = x.conv
    /\ x.conv # None =>
         /\ x.step \in {"summary", "claims", "mark"} /\ DOMAIN x.sums \subseteq {x.conv}
         /\ x.step = "summary" => DOMAIN x.sums = {}
         /\ x.through \in marked \cap Of(x.conv)
         /\ x.last \in Nat /\ x.last \in Of(x.conv) /\ x.through <= x.last
    /\ x.conv = None =>
         /\ x.step \notin {"summary", "mark"}
         /\ \A c \in DOMAIN x.sums : c \in Conversations /\ x.sums[c] \in Nat

(* Its summaries have what is ingested, or it is not the last.             *)
Summarised(w) ==
    LET x == tx[w] IN
    IF x.conv = None
    THEN \A c \in Conversations : \A m \in retained \cap Of(c) : c \in DOMAIN x.sums /\ m <= x.sums[c]
    ELSE /\ x.step # "mark" =>
              \A m \in marked \cap Of(x.conv) : m <= x.last \/ dirty[x.conv] # 0 \/ Twice(x.conv)
         /\ x.step = "claims" =>
              \/ DOMAIN x.sums = {x.conv} /\ x.sums[x.conv] = x.last
              \/ DOMAIN x.sums = {} /\ (x.last <= summary[x.conv] \/ Twice(x.conv))
         /\ x.step = "mark" => x.last <= summary[x.conv] \/ Twice(x.conv)

(* u may commit after w has committed its summary or found it there.       *)
Beside(u, w) ==
    LET c == tx[w].conv IN
    c # None =>
        /\ tx[u].conv = c /\ tx[u].step # "mark" =>
             IF tx[w].step = "mark" THEN tx[w].last <= tx[u].last \/ Twice(c) ELSE Twice(c)
        /\ tx[u].conv = None /\ tx[w].step # "summary" /\ c \in DOMAIN tx[u].sums =>
             tx[w].last <= tx[u].sums[c]

SInv ==
    /\ Archived
    /\ \A w \in Running : Fixed(w) /\ Summarised(w)
    /\ \A u, w \in Running : u # w => Beside(u, w)
    /\ \A c \in Conversations : \A m \in marked \cap Of(c) :
           dirty[c] # 0 \/ m <= summary[c] \/ Twice(c)

LEMMA TwiceStays ==
  ASSUME Archived, \A i \in 1 .. Len(log) : log'[i] = log[i], overlap \subseteq overlap'
  PROVE  \A c : Twice(c) => Twice(c)'
BY DEF Archived, Twice

(* What others know of a step that changes one transaction only.           *)
LEMMA QuietS ==
  ASSUME IInv, SInv, NEW w \in Workers, Same(w)
  PROVE  SInv'
<1>1. /\ UNCHANGED <<archive, retained, marked, dirty, summary, log, overlap>>
      /\ w \in Running /\ \A u \in Running' : u \in Running
      /\ \A u \in Workers \ {w} : tx'[u] = tx[u]
  BY DEF Same, ingestion, derived, history, Open, Running
<1>2. (\A c : Of(c)' = Of(c)) /\ \A c : Twice(c)' = Twice(c)
  BY <1>1 DEF Of, Twice
<1>3. Archived'
  BY <1>1, <1>2 DEF SInv, Archived
<1>4. tx[w].step \in {"delete", "pages", "rows"} => tx[w].conv = None
  BY <1>1 DEF SInv, Fixed
<1>5. ASSUME NEW u \in Running' PROVE Fixed(u)' /\ Summarised(u)'
  <2>1. Fixed(u) /\ Summarised(u)
    BY <1>1 DEF SInv
  <2>2. CASE u = w
    <3>1. Fixed(u)'
      BY <1>1, <1>2, <1>4, <2>1, <2>2 DEF Same, Fixed
    <3>2. Summarised(u)'
      BY <1>1, <1>2, <1>4, <2>1, <2>2 DEF Same, Summarised
    <3> QED
      BY <3>1, <3>2
  <2>3. CASE u # w
    <3>1. tx'[u] = tx[u]
      BY <1>1, <2>3 DEF Running
    <3> QED
      BY <1>1, <1>2, <2>1, <3>1 DEF Fixed, Summarised
  <2> QED
    BY <2>2, <2>3
<1>6. ASSUME NEW u \in Running', NEW v \in Running', u # v PROVE Beside(u, v)'
  <2>1. Beside(u, v)
    BY <1>1, <1>6 DEF SInv
  <2>2. CASE u = w
    <3>1. tx'[v] = tx[v]
      BY <1>1, <1>6, <2>2 DEF Running
    <3> QED
      BY <1>2, <1>4, <2>1, <2>2, <3>1 DEF Same, Beside
  <2>3. CASE v = w
    <3>1. tx'[u] = tx[u]
      BY <1>1, <1>6, <2>3 DEF Running
    <3> QED
      BY <1>2, <1>4, <2>1, <2>3, <3>1 DEF Same, Beside
  <2>4. CASE u # w /\ v # w
    <3>1. tx'[u] = tx[u] /\ tx'[v] = tx[v]
      BY <1>1, <2>4 DEF Running
    <3> QED
      BY <1>2, <2>1, <3>1 DEF Beside
  <2> QED
    BY <2>2, <2>3, <2>4
<1> QED
  BY <1>1, <1>2, <1>3, <1>5, <1>6 DEF SInv

(* Ingestion, and steps that change no transaction.                        *)
LEMMA IngestS ==
  ASSUME IInv, SInv, UNCHANGED <<tx, summary, log, overlap>>, Archived',
         \A c \in Conversations : Of(c) \subseteq Of(c)',
         marked \subseteq marked',
         retained' = retained \/ RegistryFree,
         \A c \in Conversations : retained' = retained => retained' \cap Of(c)' = retained \cap Of(c),
         \A c \in Conversations :
             \/ marked' \cap Of(c)' = marked \cap Of(c) /\ dirty'[c] = dirty[c]
             \/ dirty'[c] # 0
  PROVE  SInv'
<1>1. Running' = Running /\ \A c : Twice(c)' = Twice(c)
  BY DEF Running, Twice
<1>2. ASSUME NEW w \in Running PROVE Fixed(w)'
  <2>1. Fixed(w)
    BY DEF SInv
  <2>2. tx[w].conv # None => tx[w].through \in marked' \cap Of(tx[w].conv)'
    BY <2>1 DEF Fixed
  <2> QED
    BY <2>1, <2>2 DEF Fixed
<1>3. ASSUME NEW w \in Running PROVE Summarised(w)'
  <2>1. Summarised(w) /\ tx[w].conv \in Conversations \cup {None}
    BY DEF SInv, Fixed
  <2>2. CASE tx[w].conv = None
    <3>1. retained' = retained
      BY <2>2 DEF RegistryFree, Running
    <3> QED
      BY <2>1, <2>2, <3>1 DEF Summarised
  <2>3. CASE tx[w].conv # None
    BY <1>1, <2>1, <2>3 DEF Summarised
  <2> QED
    BY <2>2, <2>3
<1>4. \A u, w \in Running : u # w => Beside(u, w)'
  BY <1>1 DEF SInv, Beside
<1>5. ASSUME NEW c \in Conversations, NEW m \in marked' \cap Of(c)'
      PROVE  dirty'[c] # 0 \/ m <= summary[c] \/ Twice(c)
  BY <1>5 DEF SInv
<1> QED
  BY <1>1, <1>2, <1>3, <1>4, <1>5 DEF SInv

(* The messages after one more has come.                                   *)
LEMMA OneMessageMore ==
  ASSUME IInv, NEW c \in Conversations, NEW t \in Texts, Arrive(c, t)
  PROVE  /\ Len(archive) \in Nat /\ DOMAIN archive = 1 .. Len(archive)
         /\ DOMAIN archive' = DOMAIN archive \cup {Len(archive) + 1}
         /\ \A m \in DOMAIN archive : archive'[m] = archive[m]
         /\ \A b : Of(b)' = Of(b) \cup (IF b = c THEN {Len(archive) + 1} ELSE {})
         /\ UNCHANGED <<retained, marked, dirty, derived, tx, history>>
<1>1. /\ archive' = Append(archive, [conv |-> c, text |-> t])
      /\ archive \in Seq([conv : Conversations, text : Texts])
      /\ UNCHANGED <<retained, marked, dirty, derived, tx, history>>
  BY DEF IInv, Committed, Arrive
<1>2. /\ Len(archive) \in Nat /\ DOMAIN archive = 1 .. Len(archive)
      /\ DOMAIN archive' = 1 .. Len(archive) + 1
      /\ \A m \in DOMAIN archive : archive'[m] = archive[m]
      /\ archive'[Len(archive) + 1] = [conv |-> c, text |-> t]
  BY <1>1
<1>3. DOMAIN archive' = DOMAIN archive \cup {Len(archive) + 1}
  BY <1>2
<1>4. ASSUME NEW b PROVE Of(b)' = Of(b) \cup (IF b = c THEN {Len(archive) + 1} ELSE {})
  <2>1. \A m \in DOMAIN archive : m # Len(archive) + 1
    BY <1>2
  <2> QED
    BY <1>2, <1>3, <2>1 DEF Of
<1> QED
  BY <1>1, <1>2, <1>3, <1>4

LEMMA ArriveS ==
  ASSUME IInv, SInv, NEW c \in Conversations, NEW t \in Texts, Arrive(c, t)
  PROVE  SInv'
<1>1. /\ Len(archive) \in Nat /\ DOMAIN archive = 1 .. Len(archive)
      /\ DOMAIN archive' = DOMAIN archive \cup {Len(archive) + 1}
      /\ \A b : Of(b)' = Of(b) \cup (IF b = c THEN {Len(archive) + 1} ELSE {})
      /\ UNCHANGED <<retained, marked, dirty, summary, tx, log, overlap>>
  BY OneMessageMore DEF derived, history
<1>2. Archived
  BY DEF SInv
<1>3. retained \subseteq 1 .. Len(archive) /\ \A b : Of(b) \subseteq 1 .. Len(archive)
  BY <1>1, <1>2 DEF Archived, Of
<1>4. \A b : retained \cap Of(b)' = retained \cap Of(b) /\ marked \cap Of(b)' = marked \cap Of(b)
  BY <1>1, <1>2, <1>3 DEF Archived
<1>5. \A b \in Conversations : \E m \in Of(b)' \cup {0} : \A n \in Of(b)' : n <= m
  <2> SUFFICES ASSUME NEW b \in Conversations
               PROVE  \E m \in Of(b)' \cup {0} : \A n \in Of(b)' : n <= m
    OBVIOUS
  <2>1. CASE b = c
    <3>1. Len(archive) + 1 \in Of(b)' /\ \A n \in Of(b)' : n <= Len(archive) + 1
      BY <1>1, <1>3, <2>1
    <3> QED
      BY <3>1
  <2>2. CASE b # c
    BY <1>1, <1>2, <2>2 DEF Archived
  <2> QED
    BY <2>1, <2>2
<1>6. Archived'
  <2>1. \A b \in Conversations : \A n \in marked \cap Of(b)' : \A m \in Of(b)' : m < n => m \in marked
    <3> SUFFICES ASSUME NEW b \in Conversations, NEW n \in marked \cap Of(b), NEW m \in Of(b)', m < n
                 PROVE  m \in marked
      BY <1>4
    <3>1. m \in Of(b)
      BY <1>1, <1>3
    <3> QED
      BY <1>2, <3>1 DEF Archived
  <2> QED
    BY <1>1, <1>2, <1>4, <1>5, <2>1 DEF Archived
<1> QED
  BY <1>1, <1>4, <1>6, IngestS

LEMMA RetainS ==
  ASSUME IInv, SInv, NEW m, Retain(m)
  PROVE  SInv'
<1>1. /\ m \in DOMAIN archive /\ RegistryFree /\ retained' = retained \cup {m}
      /\ UNCHANGED <<archive, marked, dirty, summary, tx, log, overlap>>
  BY DEF Retain, derived, history
<1>2. \A c : Of(c)' = Of(c)
  BY <1>1 DEF Of
<1>3. Archived'
  BY <1>1, <1>2 DEF SInv, Archived
<1> QED
  BY <1>1, <1>2, <1>3, IngestS

LEMMA MarkS ==
  ASSUME IInv, SInv, NEW m \in Messages, Mark(m)
  PROVE  SInv'
<1>1. /\ m \in retained \ marked /\ marked' = marked \cup {m}
      /\ \A n \in Of(archive[m].conv) : n < m => n \in marked
      /\ dirty' = [dirty EXCEPT ![archive[m].conv] = m]
      /\ UNCHANGED <<archive, retained, summary, tx, log, overlap>>
  BY DEF Mark, derived, history
<1>2. \A c : Of(c)' = Of(c)
  BY <1>1 DEF Of
<1>3. Archived /\ archive \in Seq([conv : Conversations, text : Texts]) /\ m \in Nat \ {0}
  BY DEF SInv, IInv, Committed, Messages
<1>4. PICK c \in Conversations : c = archive[m].conv /\ m \in Of(c)
  <2>1. m \in DOMAIN archive
    BY <1>1, <1>3 DEF Archived
  <2>2. archive[m] \in [conv : Conversations, text : Texts]
    BY <2>1, ElementsTyped
  <2> QED
    BY <2>1, <2>2 DEF Of
<1>5. \A b \in Conversations : dirty'[b] = IF b = c THEN m ELSE dirty[b]
  BY <1>1, <1>3, <1>4 DEF Archived
<1>6. \A b \in Conversations \ {c} : m \notin Of(b)
  BY <1>4 DEF Of
<1>7. \A n \in Of(c) : n \in Nat
  BY <1>3 DEF Of
<1>8. \A n \in marked \cap Of(c) : n < m
  <2> SUFFICES ASSUME NEW n \in marked \cap Of(c), m < n PROVE FALSE
    BY <1>1, <1>3, <1>7
  <2> QED
    BY <1>1, <1>3, <1>4 DEF Archived
<1>9. Archived'
  <2>1. marked' \subseteq retained' /\ retained' \subseteq DOMAIN archive'
    BY <1>1, <1>3 DEF Archived
  <2>2. dirty' \in [Conversations -> Nat]
    BY <1>1, <1>3, <1>4 DEF Archived
  <2>3. \A b \in Conversations :
            \A n \in marked' \cap Of(b)' : \A k \in Of(b)' : k < n => k \in marked'
    <3> SUFFICES ASSUME NEW b \in Conversations, NEW n \in marked' \cap Of(b), NEW k \in Of(b), k < n
                 PROVE  k \in marked'
      BY <1>2
    <3>1. CASE n = m
      BY <1>1, <1>4, <1>6, <3>1
    <3>2. CASE n # m
      BY <1>1, <1>3, <3>2 DEF Archived
    <3> QED
      BY <3>1, <3>2
  <2>4. \A b \in Conversations : dirty'[b] # 0 =>
            dirty'[b] \in marked' \cap Of(b)' /\ \A k \in marked' \cap Of(b)' : k <= dirty'[b]
    <3> SUFFICES ASSUME NEW b \in Conversations, dirty'[b] # 0
                 PROVE  dirty'[b] \in marked' \cap Of(b) /\ \A k \in marked' \cap Of(b) : k <= dirty'[b]
      BY <1>2
    <3>1. CASE b = c
      <4>1. dirty'[b] = m /\ m \in marked' \cap Of(b)
        BY <1>1, <1>4, <1>5, <3>1
      <4>2. \A k \in marked' \cap Of(b) : k = m \/ k \in marked \cap Of(c)
        BY <1>1, <3>1
      <4>3. \A k \in marked' \cap Of(b) : k <= m
        BY <1>3, <1>7, <1>8, <4>2
      <4> QED
        BY <4>1, <4>3
    <3>2. CASE b # c
      BY <1>1, <1>3, <1>5, <1>6, <3>2, SMTT(30) DEF Archived
    <3> QED
      BY <3>1, <3>2
  <2> QED
    BY <1>1, <1>2, <1>3, <2>1, <2>2, <2>3, <2>4 DEF Archived
<1>10. \A b \in Conversations :
           \/ marked' \cap Of(b)' = marked \cap Of(b) /\ dirty'[b] = dirty[b]
           \/ dirty'[b] # 0
  BY <1>1, <1>2, <1>3, <1>5, <1>6
<1> QED
  BY <1>1, <1>2, <1>9, <1>10, IngestS

(* A step of w, of which no other transaction knows but what is said here. *)
LEMMA OwnStepS ==
  ASSUME SInv, NEW w \in Workers, \A u \in Workers \ {w} : tx'[u] = tx[u],
         UNCHANGED <<archive, retained, marked, summary, log, overlap>>, Archived',
         \A c \in Conversations : dirty'[c] = dirty[c] \/ \A m \in marked \cap Of(c) :
             /\ m <= summary[c] \/ Twice(c)
             /\ \A u \in Running \ {w} : tx[u].conv = c /\ tx[u].step # "mark"
                                         => m <= tx[u].last \/ Twice(c),
         w \in Running' =>
             /\ Fixed(w)' /\ Summarised(w)'
             /\ \A u \in Running \ {w} : Beside(u, w)' /\ Beside(w, u)'
  PROVE  SInv'
<1>1. (\A c : Of(c)' = Of(c)) /\ \A c : Twice(c)' = Twice(c)
  BY DEF Of, Twice
<1>2. \A u \in Running' \ {w} : u \in Running /\ tx'[u] = tx[u]
  BY DEF Running
<1>3. ASSUME NEW u \in Running' \ {w} PROVE Fixed(u)' /\ Summarised(u)'
  <2>1. Fixed(u) /\ Summarised(u) /\ tx'[u] = tx[u] /\ tx[u].conv \in Conversations \cup {None}
    BY <1>2 DEF SInv, Fixed
  <2>2. Fixed(u)'
    BY <1>1, <2>1 DEF Fixed
  <2>3. Summarised(u)'
    BY <1>1, <1>2, <2>1 DEF Summarised
  <2> QED
    BY <2>2, <2>3
<1>4. ASSUME NEW u \in Running', NEW v \in Running', u # v PROVE Beside(u, v)'
  <2>1. CASE u # w /\ v # w
    <3>1. tx'[u] = tx[u] /\ tx'[v] = tx[v] /\ Beside(u, v)
      BY <1>2, <1>4, <2>1 DEF SInv
    <3> QED
      BY <1>1, <3>1 DEF Beside
  <2> QED
    BY <1>2, <1>4, <2>1
<1>5. \A c \in Conversations : \A m \in marked \cap Of(c) :
          dirty'[c] # 0 \/ m <= summary[c] \/ Twice(c)
  BY DEF SInv
<1> QED
  BY <1>1, <1>2, <1>3, <1>4, <1>5 DEF SInv

(* A transaction that is over.                                             *)
LEMMA EndS ==
  ASSUME IInv, SInv, NEW w \in Workers, MarkSucceeded(w) \/ Abort(w)
  PROVE  SInv'
<1>1. /\ tx' = [tx EXCEPT ![w] = None] /\ tx = [u \in Workers |-> tx[u]] /\ w \in Running
      /\ UNCHANGED <<archive, retained, marked, summary, log, overlap>>
  BY DEF IInv, Committed, MarkSucceeded, Abort, ingestion, derived, history, Running
<1>2. (\A u \in Workers \ {w} : tx'[u] = tx[u]) /\ w \notin Running'
  BY <1>1 DEF Running
<1>3. (\A c : Of(c)' = Of(c)) /\ \A c : Twice(c)' = Twice(c)
  BY <1>1 DEF Of, Twice
<1>4. CASE Abort(w)
  <2>1. dirty' = dirty
    BY <1>4 DEF Abort, ingestion
  <2>2. Archived'
    BY <1>1, <1>3, <2>1 DEF SInv, Archived
  <2> QED
    BY <1>1, <1>2, <2>1, <2>2, OwnStepS
<1>5. CASE MarkSucceeded(w)
  <2>1. /\ tx[w].step = "mark"
        /\ dirty' = [dirty EXCEPT ![tx[w].conv] = IF StillThrough(w) THEN 0 ELSE @]
    BY <1>5 DEF MarkSucceeded
  <2>2. Fixed(w) /\ Summarised(w) /\ Archived
    BY <1>1 DEF SInv
  <2>3. PICK c \in Conversations : c = tx[w].conv /\ c # None
    BY <2>1, <2>2 DEF Fixed
  <2>4. \A b \in Conversations : dirty'[b] = IF b = c /\ StillThrough(w) THEN 0 ELSE dirty[b]
    BY <2>1, <2>2, <2>3 DEF Archived
  <2>5. Archived'
    <3>1. dirty' \in [Conversations -> Nat]
      BY <2>1, <2>2, <2>3 DEF Archived
    <3> QED
      BY <1>1, <1>3, <2>2, <2>4, <3>1 DEF Archived
  <2>6. ASSUME StillThrough(w), NEW m \in marked \cap Of(c)
        PROVE  /\ m <= summary[c] \/ Twice(c)
               /\ \A u \in Running \ {w} : tx[u].conv = c /\ tx[u].step # "mark"
                                           => m <= tx[u].last \/ Twice(c)
    <3>1. /\ tx[w].through \in marked \cap Of(c) /\ tx[w].through <= tx[w].last
          /\ tx[w].last \in Nat /\ dirty[c] = tx[w].through /\ dirty[c] \in Nat
      BY <2>2, <2>3, <2>6 DEF Fixed, StillThrough, Archived
    <3>2. m \in Nat /\ summary[c] \in Nat /\ \A n \in Of(c) : n \in Nat \ {0}
      BY <2>2 DEF IInv, Committed, Archived, Of
    <3>3. m <= tx[w].last
      BY <2>2, <3>1, <3>2 DEF Archived
    <3>4. m <= summary[c] \/ Twice(c)
      BY <2>1, <2>2, <2>3, <3>1, <3>2, <3>3 DEF Summarised
    <3>5. ASSUME NEW u \in Running \ {w}, tx[u].conv = c, tx[u].step # "mark"
          PROVE  m <= tx[u].last \/ Twice(c)
      <4>1. tx[w].last <= tx[u].last \/ Twice(c)
        BY <1>1, <2>1, <2>3, <3>5 DEF SInv, Beside
      <4>2. tx[u].last \in Nat
        BY <2>3, <3>5 DEF SInv, Fixed
      <4> QED
        BY <3>1, <3>2, <3>3, <4>1, <4>2
    <3> QED
      BY <3>4, <3>5
  <2>7. \A b \in Conversations : dirty'[b] = dirty[b] \/ \A m \in marked \cap Of(b) :
             /\ m <= summary[b] \/ Twice(b)
             /\ \A u \in Running \ {w} : tx[u].conv = b /\ tx[u].step # "mark"
                                         => m <= tx[u].last \/ Twice(b)
    BY <2>4, <2>6
  <2> QED
    BY <1>1, <1>2, <2>5, <2>7, OwnStepS
<1> QED
  BY <1>4, <1>5

LEMMA SaveSummaryS ==
  ASSUME IInv, SInv, NEW w \in Workers, SaveSummary(w)
  PROVE  SInv'
<1>1. /\ tx = [u \in Workers |-> tx[u]] /\ w \in Running /\ tx[w].step = "summary"
      /\ UNCHANGED <<archive, retained, marked, dirty, summary, log, overlap>>
      /\ SummariesFree(w, {tx[w].conv})
  BY DEF IInv, Committed, SaveSummary, ingestion, derived, history, Running
<1>2. Fixed(w) /\ Summarised(w) /\ Archived
  BY <1>1 DEF SInv
<1>3. PICK c : c = tx[w].conv
  OBVIOUS
<1>4. /\ \A u \in Workers \ {w} : tx'[u] = tx[u]
      /\ DOMAIN tx'[w] = Fields /\ tx'[w].conv = c /\ tx'[w].begun = tx[w].begun
      /\ tx'[w].through = tx[w].through /\ tx'[w].last = tx[w].last /\ tx'[w].step = "claims"
      /\ tx'[w].sums = IF summary[c] = tx[w].last THEN tx[w].sums ELSE [b \in {c} |-> tx[w].last]
  BY <1>1, <1>2, <1>3 DEF SaveSummary, Fixed, Fields
<1>5. /\ c \in Conversations /\ c # None /\ tx[w].last \in Nat
      /\ DOMAIN tx[w].sums = {}
  BY <1>1, <1>2, <1>3 DEF Fixed
<1>6. (\A b : Of(b)' = Of(b)) /\ \A b : Twice(b)' = Twice(b)
  BY <1>1 DEF Of, Twice
<1>7. Archived'
  BY <1>1, <1>2, <1>6 DEF Archived
<1>8. Fixed(w)'
  BY <1>1, <1>2, <1>3, <1>4, <1>5, <1>6 DEF Fixed
<1>9. Summarised(w)'
  <2>1. \/ DOMAIN tx'[w].sums = {c} /\ tx'[w].sums[c] = tx[w].last
        \/ DOMAIN tx'[w].sums = {} /\ tx[w].last <= summary[c]
    BY <1>4, <1>5
  <2> QED
    BY <1>1, <1>2, <1>3, <1>4, <1>5, <1>6, <2>1 DEF Summarised
<1>10. ASSUME NEW u \in Running \ {w} PROVE Beside(u, w)' /\ Beside(w, u)'
  <2>1. Beside(u, w) /\ Beside(w, u) /\ tx'[u] = tx[u] /\ Fixed(u)
    BY <1>1, <1>4 DEF SInv, Running
  <2>2. tx[u].conv = None => c \notin DOMAIN tx[u].sums
    BY <1>1, <1>3, <2>1 DEF SummariesFree, Others, Open, Fixed
  <2>3. Beside(u, w)'
    BY <1>1, <1>3, <1>4, <1>6, <2>1, <2>2 DEF Beside
  <2>4. Beside(w, u)'
    BY <1>1, <1>3, <1>4, <1>5, <1>6, <2>1 DEF Beside
  <2> QED
    BY <2>3, <2>4
<1> QED
  BY <1>1, <1>4, <1>7, <1>8, <1>9, <1>10, OwnStepS

LEMMA LastIs ==
  ASSUME IInv, Archived, NEW c \in Conversations
  PROVE  /\ Last(Of(c)) \in Of(c) \cup {0} /\ Last(Of(c)) \in Nat
         /\ \A n \in Of(c) : n \in Nat \ {0} /\ n <= Last(Of(c))
<1>1. \E m \in Of(c) \cup {0} : \A n \in Of(c) : n <= m
  BY DEF Archived
<1>2. Last(Of(c)) \in Of(c) \cup {0} /\ \A n \in Of(c) : n <= Last(Of(c))
  BY <1>1 DEF Last
<1>3. \A n \in Of(c) : n \in Nat \ {0}
  BY DEF IInv, Committed, Of
<1> QED
  BY <1>2, <1>3

(* A transaction begins.                                                   *)
LEMMA BeginIs ==
  ASSUME IInv, NEW w \in Workers, NEW c \in Conversations \cup {None},
         NEW step, NEW todo, NEW sums, Begin(w, c, Transaction(c, step, todo, sums))
  PROVE  /\ tx[w] = None /\ \A u \in Workers \ {w} : tx'[u] = tx[u]
         /\ tx'[w] = Transaction(c, step, todo, sums)
         /\ DOMAIN tx'[w] = Fields
         /\ Len(log) \in Nat /\ Len(log') = Len(log) + 1 /\ log'[Len(log) + 1] = c
         /\ \A i \in 1 .. Len(log) : log'[i] = log[i]
         /\ overlap' = overlap \cup {<<tx[u].begun, Len(log) + 1>> : u \in Open}
         /\ UNCHANGED <<ingestion, derived>>
<1>1. /\ tx = [u \in Workers |-> tx[u]] /\ tx[w] = None
      /\ tx' = [tx EXCEPT ![w] = Transaction(c, step, todo, sums)]
      /\ log' = Append(log, c) /\ log \in Seq(Conversations \cup {None})
      /\ overlap' = overlap \cup {<<tx[u].begun, Len(log) + 1>> : u \in Open}
      /\ UNCHANGED <<ingestion, derived>>
  BY DEF IInv, Committed, Begin
<1>2. /\ Len(log) \in Nat /\ Len(log') = Len(log) + 1 /\ log'[Len(log) + 1] = c
      /\ \A i \in 1 .. Len(log) : log'[i] = log[i]
  BY <1>1
<1>3. tx'[w] = Transaction(c, step, todo, sums) /\ \A u \in Workers \ {w} : tx'[u] = tx[u]
  BY <1>1
<1>4. DOMAIN tx'[w] = Fields
  BY <1>3 DEF Transaction, Fields
<1> QED
  BY <1>1, <1>2, <1>3, <1>4

(* What it means for the others.                                           *)
LEMMA BeginOthersS ==
  ASSUME IInv, SInv, NEW w \in Workers, NEW c \in Conversations \cup {None},
         NEW step, NEW todo, NEW sums, Begin(w, c, Transaction(c, step, todo, sums)),
         Fixed(w)', Summarised(w)',
         \A u \in Running : Beside(u, w)' /\ Beside(w, u)'
  PROVE  SInv'
<1>1. /\ \A u \in Workers \ {w} : tx'[u] = tx[u]
      /\ Len(log) \in Nat /\ Len(log') = Len(log) + 1
      /\ \A i \in 1 .. Len(log) : log'[i] = log[i]
      /\ overlap' = overlap \cup {<<tx[u].begun, Len(log) + 1>> : u \in Open}
      /\ UNCHANGED <<archive, retained, marked, dirty, summary>>
  BY BeginIs DEF ingestion, derived
<1>2. \A b : Of(b)' = Of(b)
  BY <1>1 DEF Of
<1>3. \A b : Twice(b) => Twice(b)'
  BY <1>1, TwiceStays DEF SInv
<1>4. Archived'
  <2>1. \A u \in Open : tx[u].begun \in 1 .. Len(log)
    BY DEF SInv, Fixed, Open
  <2>2. \A p \in overlap' : p[1] \in 1 .. Len(log') /\ p[2] \in 1 .. Len(log')
    <3> SUFFICES ASSUME NEW p \in overlap'
                 PROVE  p[1] \in 1 .. Len(log') /\ p[2] \in 1 .. Len(log')
      OBVIOUS
    <3>1. CASE p \in overlap
      BY <1>1, <3>1 DEF SInv, Archived
    <3>2. CASE p \notin overlap
      <4>1. PICK u \in Open : p = <<tx[u].begun, Len(log) + 1>>
        BY <1>1, <3>2
      <4> QED
        BY <1>1, <2>1, <4>1
    <3> QED
      BY <3>1, <3>2
  <2> QED
    BY <1>1, <1>2, <2>2 DEF SInv, Archived
<1>5. \A u \in Running' \ {w} : u \in Running /\ tx'[u] = tx[u]
  BY <1>1 DEF Running
<1>6. ASSUME NEW u \in Running' \ {w} PROVE Fixed(u)' /\ Summarised(u)'
  <2>1. Fixed(u) /\ Summarised(u) /\ tx'[u] = tx[u]
    BY <1>5 DEF SInv
  <2>2. Fixed(u)'
    BY <1>1, <1>2, <2>1 DEF Fixed
  <2>3. Summarised(u)'
    BY <1>1, <1>2, <1>3, <2>1 DEF Summarised
  <2> QED
    BY <2>2, <2>3
<1>7. ASSUME NEW u \in Running', NEW v \in Running', u # v PROVE Beside(u, v)'
  <2>1. CASE u # w /\ v # w
    <3>1. tx'[u] = tx[u] /\ tx'[v] = tx[v] /\ Beside(u, v)
      BY <1>5, <1>7, <2>1 DEF SInv
    <3> QED
      BY <1>3, <3>1 DEF Beside
  <2> QED
    BY <1>5, <1>7, <2>1
<1> QED
  BY <1>1, <1>2, <1>3, <1>4, <1>5, <1>6, <1>7 DEF SInv

(* Whatever is open runs beside it.                                        *)
LEMMA OpenTwice ==
  ASSUME IInv, SInv, NEW w \in Workers, NEW c \in Conversations,
         NEW step, NEW todo, NEW sums, Begin(w, c, Transaction(c, step, todo, sums)),
         NEW u \in Open, tx[u].conv = c
  PROVE  Twice(c)'
<1>1. /\ Len(log) \in Nat /\ log'[Len(log) + 1] = c
      /\ \A i \in 1 .. Len(log) : log'[i] = log[i]
      /\ <<tx[u].begun, Len(log) + 1>> \in overlap'
  BY BeginIs
<1>2. tx[u].begun \in 1 .. Len(log) /\ log[tx[u].begun] = c
  BY DEF SInv, Fixed, Open
<1>3. log'[tx[u].begun] = c
  BY <1>1, <1>2
<1> QED
  BY <1>1, <1>3 DEF Twice

LEMMA BeginRefreshS ==
  ASSUME IInv, SInv, NEW w \in Workers, NEW c \in Conversations, BeginRefresh(w, c)
  PROVE  SInv'
<1>1. PICK todo : Begin(w, c, Transaction(c, "summary", todo, <<>>)) /\ dirty[c] # 0
  BY DEF BeginRefresh
<1>2. /\ \A u \in Workers \ {w} : tx'[u] = tx[u]
      /\ tx[w] = None
      /\ tx'[w] = Transaction(c, "summary", todo, <<>>) /\ DOMAIN tx'[w] = Fields
      /\ Len(log) \in Nat /\ Len(log') = Len(log) + 1 /\ log'[Len(log) + 1] = c
      /\ UNCHANGED <<archive, retained, marked, dirty, summary>>
  BY <1>1, BeginIs DEF ingestion, derived
<1>3. c # None
  BY ObservationsAssumption
<1>4. /\ tx'[w].conv = c /\ tx'[w].begun = Len(log) + 1 /\ tx'[w].through = dirty[c]
      /\ tx'[w].last = Last(Of(c)) /\ tx'[w].step = "summary" /\ tx'[w].sums = <<>>
  BY <1>2, <1>3 DEF Transaction
<1>5. Archived
  BY DEF SInv
<1>6. \A b : Of(b)' = Of(b)
  BY <1>2 DEF Of
<1>7. /\ dirty[c] \in marked \cap Of(c) /\ dirty[c] <= Last(Of(c))
      /\ Last(Of(c)) \in Nat /\ Last(Of(c)) \in Of(c)
      /\ \A n \in Of(c) : n <= Last(Of(c))
  BY <1>1, <1>5, LastIs DEF Archived
<1>8. Fixed(w)'
  <2>1. Len(log) + 1 \in 1 .. Len(log')
    BY <1>2
  <2> QED
    BY <1>2, <1>3, <1>4, <1>6, <1>7, <2>1 DEF Fixed
<1>9. Summarised(w)'
  BY <1>2, <1>3, <1>4, <1>6, <1>7 DEF Summarised
<1>10. ASSUME NEW u \in Running PROVE Beside(u, w)' /\ Beside(w, u)'
  <2>1. u # w /\ tx'[u] = tx[u] /\ Fixed(u)
    BY <1>2 DEF SInv, Running
  <2>2. tx[u].conv = c /\ tx[u].step # "mark" => Twice(c)'
    BY <1>1, OpenTwice DEF Open
  <2>3. Beside(u, w)'
    BY <1>4, <2>1, <2>2 DEF Beside
  <2>4. tx[u].conv = c => tx[u].last <= Last(Of(c))
    BY <1>3, <1>7, <2>1 DEF Fixed
  <2>5. Beside(w, u)'
    BY <1>3, <1>4, <2>1, <2>2, <2>4 DEF Beside
  <2> QED
    BY <2>3, <2>5
<1> QED
  BY <1>1, <1>8, <1>9, <1>10, BeginOthersS

LEMMA BeginRebuildS ==
  ASSUME IInv, SInv, NEW w \in Workers, BeginRebuild(w)
  PROVE  SInv'
<1>1. PICK sums : /\ Begin(w, None, Transaction(None, "delete", Candidates, sums))
                  /\ sums = [c \in {b \in Conversations : Of(b) # {}} |-> Last(Of(c))]
  BY DEF BeginRebuild
<1>2. /\ \A u \in Workers \ {w} : tx'[u] = tx[u]
      /\ tx[w] = None
      /\ tx'[w] = Transaction(None, "delete", Candidates, sums) /\ DOMAIN tx'[w] = Fields
      /\ Len(log) \in Nat /\ Len(log') = Len(log) + 1 /\ log'[Len(log) + 1] = None
      /\ UNCHANGED <<archive, retained, marked, dirty, summary>>
  BY <1>1, BeginIs DEF ingestion, derived
<1>3. /\ tx'[w].conv = None /\ tx'[w].begun = Len(log) + 1
      /\ tx'[w].step = "delete" /\ tx'[w].sums = sums
  BY <1>2 DEF Transaction
<1>4. Archived
  BY DEF SInv
<1>5. \A b : Of(b)' = Of(b)
  BY <1>2 DEF Of
<1>6. /\ \A c \in DOMAIN sums : c \in Conversations /\ sums[c] = Last(Of(c)) /\ sums[c] \in Nat
      /\ \A c \in Conversations : \A n \in Of(c) : c \in DOMAIN sums /\ n <= sums[c]
  BY <1>1, <1>4, LastIs
<1>7. Fixed(w)'
  <2>1. Len(log) + 1 \in 1 .. Len(log')
    BY <1>2
  <2> QED
    BY <1>2, <1>3, <1>6, <2>1 DEF Fixed
<1>8. Summarised(w)'
  BY <1>2, <1>3, <1>5, <1>6 DEF Summarised
<1>9. ASSUME NEW u \in Running PROVE Beside(u, w)' /\ Beside(w, u)'
  <2>1. u # w /\ tx'[u] = tx[u] /\ Fixed(u)
    BY <1>2 DEF SInv, Running
  <2>2. Beside(u, w)'
    BY <1>3 DEF Beside
  <2>3. tx[u].conv # None => tx[u].last <= sums[tx[u].conv]
    BY <1>6, <2>1 DEF Fixed
  <2>4. Beside(w, u)'
    BY <1>3, <2>1, <2>3 DEF Beside
  <2> QED
    BY <2>2, <2>4
<1> QED
  BY <1>1, <1>7, <1>8, <1>9, BeginOthersS

LEMMA CommitS ==
  ASSUME IInv, SInv, NEW w \in Workers, Commit(w)
  PROVE  SInv'
<1>1. /\ tx = [u \in Workers |-> tx[u]] /\ w \in Running /\ tx[w].step = "claims"
      /\ summary' = Above(tx[w].sums, summary)
      /\ tx' = [tx EXCEPT ![w] = IF tx[w].conv = None THEN None ELSE [tx[w] EXCEPT !.step = "mark"]]
      /\ UNCHANGED <<archive, retained, marked, dirty, log, overlap>>
  BY DEF IInv, Committed, Commit, ingestion, history, Running
<1>2. Fixed(w) /\ Summarised(w) /\ Archived
  BY <1>1 DEF SInv
<1>3. (\A b : Of(b)' = Of(b)) /\ \A b : Twice(b)' = Twice(b)
  BY <1>1 DEF Of, Twice
<1>4. /\ \A u \in Workers \ {w} : tx'[u] = tx[u]
      /\ tx[w].conv = None => w \notin Running'
      /\ tx[w].conv # None =>
           /\ DOMAIN tx'[w] = Fields /\ tx'[w].conv = tx[w].conv /\ tx'[w].begun = tx[w].begun
           /\ tx'[w].through = tx[w].through /\ tx'[w].last = tx[w].last
           /\ tx'[w].sums = tx[w].sums /\ tx'[w].step = "mark"
  BY <1>1, <1>2 DEF Fixed, Fields, Running
<1>5. /\ DOMAIN tx[w].sums \subseteq Conversations
      /\ \A c \in DOMAIN tx[w].sums : tx[w].sums[c] \in Nat
  BY <1>1, <1>2 DEF Fixed, Summarised
<1>6. /\ \A c \in Conversations :
             summary'[c] = IF c \in DOMAIN tx[w].sums THEN tx[w].sums[c] ELSE summary[c]
      /\ summary' \in [Conversations -> Nat]
  BY <1>1, <1>2, <1>5 DEF Above, Archived
<1>7. Archived'
  BY <1>1, <1>2, <1>3, <1>6 DEF Archived
<1>8. \A u \in Running' \ {w} : u \in Running /\ tx'[u] = tx[u]
  BY <1>4 DEF Running
<1>9. ASSUME NEW c \in Conversations, tx[w].conv = c
      PROVE  \/ summary'[c] = tx[w].last
             \/ summary'[c] = summary[c] /\ tx[w].last <= summary[c]
             \/ Twice(c)
  <2>1. c # None
    BY ObservationsAssumption
  <2> QED
    BY <1>1, <1>2, <1>6, <1>9, <2>1 DEF Summarised
<1>10. ASSUME NEW u \in Running' \ {w} PROVE Fixed(u)' /\ Summarised(u)'
  <2>1. Fixed(u) /\ Summarised(u) /\ tx'[u] = tx[u] /\ Beside(w, u)
    BY <1>1, <1>8 DEF SInv
  <2>2. Fixed(u)'
    BY <1>1, <1>3, <2>1 DEF Fixed
  <2>3. CASE tx[u].conv = None
    BY <1>1, <1>3, <2>1, <2>2, <2>3 DEF Summarised
  <2>4. CASE tx[u].conv # None
    <3>1. PICK c \in Conversations : c = tx[u].conv
      BY <2>1, <2>4 DEF Fixed
    <3>2. CASE tx[w].conv = c
      <4>1. IF tx[u].step = "mark" THEN tx[u].last <= tx[w].last \/ Twice(c) ELSE Twice(c)
        BY <1>1, <2>1, <2>4, <3>1, <3>2 DEF Beside
      <4>2. tx[u].last \in Nat /\ tx[w].last \in Nat /\ summary[c] \in Nat
        BY <1>2, <2>1, <2>4, <3>1, <3>2 DEF Fixed, Archived
      <4>3. tx[u].step = "mark" => tx[u].last <= summary'[c] \/ Twice(c)
        BY <1>9, <3>2, <4>1, <4>2
      <4> QED
        BY <1>1, <1>3, <2>1, <2>2, <2>4, <3>1, <4>1, <4>3 DEF Summarised
    <3>3. CASE tx[w].conv # c
      <4>1. tx[u].step # "summary" /\ c \in DOMAIN tx[w].sums => tx[u].last <= summary'[c]
        BY <1>2, <1>6, <2>1, <2>4, <3>1, <3>3 DEF Beside, Fixed
      <4>2. c \notin DOMAIN tx[w].sums => summary'[c] = summary[c]
        BY <1>6
      <4>3. tx[u].step # "mark" =>
                \A m \in marked \cap Of(c) : m <= tx[u].last \/ dirty[c] # 0 \/ Twice(c)
        BY <2>1, <2>4, <3>1 DEF Summarised
      <4>4. tx[u].step = "claims" =>
                \/ DOMAIN tx[u].sums = {c} /\ tx[u].sums[c] = tx[u].last
                \/ DOMAIN tx[u].sums = {} /\ (tx[u].last <= summary'[c] \/ Twice(c))
        BY <2>1, <2>4, <3>1, <4>1, <4>2 DEF Summarised
      <4>5. tx[u].step = "mark" => tx[u].last <= summary'[c] \/ Twice(c)
        BY <2>1, <2>4, <3>1, <4>1, <4>2 DEF Summarised
      <4>6. Summarised(u)'
        BY <1>1, <1>3, <2>1, <2>4, <3>1, <4>3, <4>4, <4>5 DEF Summarised
      <4> QED
        BY <2>2, <4>6
    <3> QED
      BY <2>2, <3>2, <3>3
  <2> QED
    BY <2>2, <2>3, <2>4
<1>11. w \in Running' => Fixed(w)' /\ Summarised(w)'
  <2> SUFFICES ASSUME w \in Running' PROVE Fixed(w)' /\ Summarised(w)'
    OBVIOUS
  <2>1. PICK c \in Conversations : c = tx[w].conv /\ c # None
    BY <1>2, <1>4 DEF Fixed
  <2>2. Fixed(w)'
    BY <1>1, <1>2, <1>3, <1>4, <2>1 DEF Fixed
  <2>3. tx[w].last <= summary'[c] \/ Twice(c)
    BY <1>2, <1>9, <2>1 DEF Fixed
  <2> QED
    BY <1>3, <1>4, <2>1, <2>2, <2>3 DEF Summarised
<1>12. ASSUME NEW u \in Running', NEW v \in Running', u # v PROVE Beside(u, v)'
  <2>1. u \in Running /\ v \in Running /\ Beside(u, v)
    BY <1>1, <1>8, <1>12 DEF SInv
  <2>2. CASE u = w
    <3>1. tx'[v] = tx[v] /\ tx'[u].step = "mark" /\ tx'[u].conv # None
      BY <1>2, <1>4, <1>8, <1>12, <2>2 DEF Fixed
    <3> QED
      BY <3>1 DEF Beside
  <2>3. CASE v = w
    BY <1>1, <1>3, <1>4, <1>8, <1>12, <2>1, <2>3 DEF Beside
  <2>4. CASE u # w /\ v # w
    BY <1>3, <1>8, <2>1, <2>4 DEF Beside
  <2> QED
    BY <2>2, <2>3, <2>4
<1>13. ASSUME NEW c \in Conversations, NEW m \in marked \cap Of(c)
       PROVE  dirty[c] # 0 \/ m <= summary'[c] \/ Twice(c)
  <2>1. dirty[c] # 0 \/ m <= summary[c] \/ Twice(c)
    BY DEF SInv
  <2>2. CASE tx[w].conv = c
    <3>1. m <= tx[w].last \/ dirty[c] # 0 \/ Twice(c)
      BY <1>1, <1>2, <2>2, ObservationsAssumption DEF Summarised
    <3> QED
      BY <1>9, <2>1, <2>2, <3>1
  <2>3. CASE tx[w].conv = None
    <3>1. m \in retained
      BY <1>2 DEF Archived
    <3> QED
      BY <1>2, <1>6, <2>3, <3>1 DEF Summarised
  <2>4. CASE tx[w].conv # c /\ tx[w].conv # None
    <3>1. summary'[c] = summary[c]
      BY <1>2, <1>6, <2>4 DEF Fixed
    <3> QED
      BY <2>1, <3>1
  <2> QED
    BY <2>2, <2>3, <2>4
<1> QED
  BY <1>1, <1>3, <1>7, <1>8, <1>10, <1>11, <1>12, <1>13 DEF SInv

LEMMA SInvInit == Init => SInv
<1> SUFFICES ASSUME Init PROVE SInv
  OBVIOUS
<1>1. Running = {} /\ marked = {} /\ retained = {} /\ \A c : Of(c) = {}
  BY DEF Init, Running, Of
<1>2. Archived
  BY <1>1 DEF Init, Archived
<1> QED
  BY <1>1, <1>2 DEF SInv

LEMMA SInvStep == IInv /\ SInv /\ [Next]_vars => SInv'
<1> SUFFICES ASSUME IInv, SInv, [Next]_vars PROVE SInv'
  OBVIOUS
<1>1. CASE UNCHANGED vars
  <2>1. UNCHANGED <<archive, retained, marked, dirty, summary, tx, log, overlap>>
    BY <1>1 DEF vars, ingestion, derived, history
  <2>2. \A c : Of(c)' = Of(c)
    BY <2>1 DEF Of
  <2>3. Archived'
    BY <2>1, <2>2 DEF SInv, Archived
  <2> QED
    BY <2>1, <2>2, <2>3, IngestS
<1>2. ASSUME NEW c \in Conversations, NEW t \in Texts, Arrive(c, t) PROVE SInv'
  BY <1>2, ArriveS
<1>3. ASSUME NEW m \in Messages, Retain(m) \/ Mark(m) PROVE SInv'
  BY <1>3, RetainS, MarkS
<1>4. ASSUME NEW w \in Workers, Quiet(w) PROVE SInv'
  BY <1>4, QuietIs, QuietS
<1>5. ASSUME NEW w \in Workers,
             \/ \E c \in Conversations : BeginRefresh(w, c)
             \/ BeginRebuild(w) \/ SaveSummary(w) \/ Commit(w) \/ MarkSucceeded(w) \/ Abort(w)
      PROVE  SInv'
  BY <1>5, BeginRefreshS, BeginRebuildS, SaveSummaryS, CommitS, EndS
<1> QED
  BY <1>1, <1>2, <1>3, <1>4, <1>5 DEF Next, Quiet

(* The summary of a conversation that is not dirty covers what was ingested*)
(* of it, however refreshes of other conversations, rebuilds, aborts and   *)
(* new messages interleave; only a second refresh of the same conversation *)
(* beside the first may have put an older summary back (_refresh_derived,  *)
(* whose claim is no lease).                                               *)
THEOREM SummariesCover == Spec => []SummaryCovers
<1>1. IInv /\ SInv => SummaryCovers
  <2> SUFFICES ASSUME IInv, SInv, NEW m \in marked, NEW c, c = archive[m].conv
               PROVE  dirty[c] # 0 \/ summary[c] >= m \/ Twice(c)
    BY DEF SummaryCovers, Twice
  <2>1. m \in DOMAIN archive /\ Archived
    BY DEF SInv, Archived
  <2>2. c \in Conversations /\ m \in Of(c)
    BY <2>1, ElementsTyped DEF Of
  <2>3. m \in Nat /\ summary[c] \in Nat
    BY <2>1, <2>2 DEF IInv, Committed, Archived
  <2> QED
    BY <2>2, <2>3 DEF SInv
<1> QED
  BY <1>1, IInvInit, IInvStep, SInvInit, SInvStep, PTL DEF Spec

-----------------------------------------------------------------------------
(***************************************************************************)
(* Evidence                                                                *)
(***************************************************************************)

Ev(row) == row.supports \cup row.contradicts
Regular(c) == {m \in Of(c) : archive[m].text.form # "ragged"}

(* m is evidence of a committed row of its claim.                          *)
Evident(m) == \E k \in Keys : k[1][1] = archive[m].text.claim /\ m \in Ev(rows[k])

(* w has written such a row, or will.                                      *)
Waits(w, m) ==
    \/ tx[w].conv # None /\ archive[m].text \in tx[w].todo
    \/ tx[w].conv = None /\ \E item \in tx[w].todo :
           item.claim = archive[m].text.claim /\ m \in item.evidence
Covers(w, m) ==
    \/ Waits(w, m)
    \/ tx[w].subject # None /\ tx[w].subject[1] = archive[m].text.claim /\ m \in tx[w].evidence
    \/ \E k \in Keys \cap DOMAIN tx[w].rows :
           k[1][1] = archive[m].text.claim /\ m \in Ev(tx[w].rows[k])

(* A rebuild has everything that is retained, a refresh what was ingested  *)
(* when it began, and it only adds to rows.                                *)
Derives(w) ==
    LET x == tx[w] IN
    IF x.conv = None THEN \A m \in retained : Covers(w, m)
    ELSE /\ x.step # "mark" =>
              /\ \A m \in Regular(x.conv) : m <= x.through => Covers(w, m)
              /\ \A k \in Keys \cap DOMAIN x.rows : Ev(rows[k]) \subseteq Ev(x.rows[k])
         /\ x.step = "mark" => \A m \in Regular(x.conv) : m <= x.through => Evident(m)

DInv ==
    /\ Len(log) <= MaxTransactions
    /\ \A w \in Running : Derives(w)
    /\ \A c \in Conversations : \A m \in marked \cap Regular(c) : dirty[c] # 0 \/ Evident(m)

LEMMA ClaimsTyped ==
  ASSUME IInv
  PROVE  \A m \in DOMAIN archive :
             /\ archive[m].conv \in Conversations /\ m \in Of(archive[m].conv)
             /\ archive[m].text.claim \in Claims
BY ElementsTyped DEF Texts, Of

(* A step that leaves the archive and the committed rows as they are, seen *)
(* by all transactions but w.                                              *)
LEMMA OwnStepD ==
  ASSUME IInv, SInv, DInv, NEW w \in Workers, \A u \in Workers \ {w} : tx'[u] = tx[u],
         UNCHANGED <<archive, retained, marked, rows>>, Len(log') <= MaxTransactions,
         \A c \in Conversations : dirty'[c] = dirty[c] \/ \A m \in marked \cap Regular(c) : Evident(m),
         w \in Running' => Derives(w)'
  PROVE  DInv'
<1>1. (\A c : Regular(c)' = Regular(c)) /\ \A m : Evident(m)' = Evident(m)
  BY DEF Regular, Of, Evident
<1>2. ASSUME NEW u \in Running' \ {w} PROVE Derives(u)'
  <2>1. tx'[u] = tx[u] /\ Derives(u)
    BY DEF Running, DInv
  <2>2. \A m : Covers(u, m)' = Covers(u, m)
    BY <2>1 DEF Covers, Waits
  <2> QED
    BY <1>1, <2>1, <2>2 DEF Derives
<1> QED
  BY <1>1, <1>2 DEF DInv

(* A step that leaves to w what it covers.                                 *)
LEMMA CoversStay ==
  ASSUME IInv, SInv, DInv, NEW w \in Running, tx'[w].conv = tx[w].conv,
         tx'[w].through = tx[w].through, UNCHANGED <<archive, retained, rows>>,
         tx[w].step # "mark", tx'[w].step # "mark",
         \A m \in DOMAIN archive : Covers(w, m) => Covers(w, m)',
         tx[w].conv # None =>
             \A k \in Keys \cap DOMAIN tx'[w].rows : Ev(rows[k]) \subseteq Ev(tx'[w].rows[k])
  PROVE  Derives(w)'
<1>1. Derives(w) /\ retained \subseteq DOMAIN archive
  BY DEF DInv, SInv, Archived
<1>2. \A c : Regular(c)' = Regular(c) /\ Regular(c) \subseteq DOMAIN archive
  BY DEF Regular, Of
<1> QED
  BY <1>1, <1>2 DEF Derives

(* The statements that wait or write no row.                               *)
LEMMA LocalD ==
  ASSUME IInv, SInv, DInv, NEW w \in Workers,
         \/ SaveSummary(w) \/ StartDelete(w) \/ DeletePages(w)
         \/ \E s \in Scopes : ReadPage(w, s)
         \/ WritePage(w)
  PROVE  DInv'
<1>1. tx = [u \in Workers |-> tx[u]]
  BY DEF IInv, Committed
<1>2. w \in Open /\ w \in Running /\ UNCHANGED <<archive, retained, marked, dirty, rows, log>>
  BY DEF SaveSummary, StartDelete, DeletePages, ReadPage, WritePage, Open, Running,
         ingestion, derived, history
<1>3. DOMAIN tx[w] = Fields /\ tx[w].step # "mark"
  BY <1>2 DEF IInv, OwnOK, Began, Open
<1>4. /\ \A u \in Workers \ {w} : tx'[u] = tx[u]
      /\ tx'[w].conv = tx[w].conv /\ tx'[w].through = tx[w].through /\ tx'[w].step # "mark"
      /\ tx'[w].todo = tx[w].todo /\ tx'[w].subject = tx[w].subject
      /\ tx'[w].evidence = tx[w].evidence /\ tx'[w].rows = tx[w].rows
  <2>1. CASE SaveSummary(w)
    BY <1>1, <1>2, <1>3, <2>1 DEF SaveSummary, Fields
  <2>2. CASE StartDelete(w)
    BY <1>1, <1>2, <1>3, <2>2 DEF StartDelete, Fields
  <2>3. CASE DeletePages(w)
    BY <1>1, <1>2, <1>3, <2>3 DEF DeletePages, Fields
  <2>4. ASSUME NEW s, ReadPage(w, s)
        PROVE  \E ss, r : tx' = [tx EXCEPT ![w].scopes = ss, ![w].read = r]
    BY <2>4 DEF ReadPage
  <2>5. CASE \E ss, r : tx' = [tx EXCEPT ![w].scopes = ss, ![w].read = r]
    BY <1>1, <1>2, <1>3, <2>5 DEF Fields
  <2>6. CASE WritePage(w)
    BY <1>1, <1>2, <1>3, <2>6 DEF WritePage, Fields
  <2> QED
    BY <2>1, <2>2, <2>3, <2>4, <2>5, <2>6
<1>5. \A m : Covers(w, m)' = Covers(w, m)
  BY <1>2, <1>4 DEF Covers, Waits
<1>6. tx[w].conv # None =>
          \A k \in Keys \cap DOMAIN tx'[w].rows : Ev(rows[k]) \subseteq Ev(tx'[w].rows[k])
  BY <1>2, <1>3, <1>4 DEF DInv, Derives
<1>7. Derives(w)'
  BY <1>2, <1>3, <1>4, <1>5, <1>6, CoversStay
<1> QED
  BY <1>2, <1>4, <1>7, OwnStepD DEF DInv

LEMMA DeleteD ==
  ASSUME IInv, SInv, DInv, NEW w \in Workers, DeleteRows(w)
  PROVE  DInv'
<1>1. /\ tx = [u \in Workers |-> tx[u]] /\ w \in Open /\ w \in Running /\ tx[w].step = "rows"
      /\ UNCHANGED <<archive, retained, marked, dirty, rows, log>>
  BY DEF IInv, Committed, DeleteRows, Open, Running, ingestion, derived, history
<1>2. /\ DOMAIN tx[w] = Fields /\ DOMAIN tx[w].rows = {} /\ tx[w].subject = None
      /\ tx[w].conv = None
  BY <1>1 DEF IInv, OwnOK, Began, Written, SInv, Fixed
<1>3. /\ \A u \in Workers \ {w} : tx'[u] = tx[u]
      /\ tx'[w].conv = tx[w].conv /\ tx'[w].through = tx[w].through /\ tx'[w].step # "mark"
      /\ tx'[w].todo = tx[w].todo
  BY <1>1, <1>2 DEF DeleteRows, Fields
<1>4. \A m \in DOMAIN archive : Covers(w, m) => Covers(w, m)'
  <2> SUFFICES ASSUME NEW m \in DOMAIN archive, Covers(w, m) PROVE Covers(w, m)'
    OBVIOUS
  <2>1. Waits(w, m)
    BY <1>2, ClaimsTyped DEF Covers
  <2> QED
    BY <1>1, <1>3, <2>1 DEF Covers, Waits
<1>5. Derives(w)'
  BY <1>1, <1>2, <1>3, <1>4, CoversStay
<1> QED
  BY <1>1, <1>3, <1>5, OwnStepD DEF DInv

LEMMA FindD ==
  ASSUME IInv, SInv, DInv, NEW w \in Workers, NEW item, FindRows(w, item)
  PROVE  DInv'
<1>1. /\ tx = [u \in Workers |-> tx[u]] /\ w \in Open /\ w \in Running
      /\ tx[w].step = "claims" /\ tx[w].subject = None /\ item \in tx[w].todo
      /\ UNCHANGED <<archive, retained, marked, dirty, rows, log>>
  BY DEF IInv, Committed, FindRows, Open, Running, ingestion, derived, history
<1>2. DOMAIN tx[w] = Fields
  BY <1>1 DEF IInv, OwnOK, Began
<1>3. /\ \A u \in Workers \ {w} : tx'[u] = tx[u]
      /\ tx'[w].conv = tx[w].conv /\ tx'[w].through = tx[w].through /\ tx'[w].step = tx[w].step
      /\ tx'[w].todo = tx[w].todo \ {item} /\ tx'[w].rows = tx[w].rows
      /\ EvidenceFor(w, item) # {} =>
             /\ tx'[w].subject # None /\ tx'[w].subject[1] = item.claim
             /\ tx'[w].evidence = EvidenceFor(w, item)
  <2>1. CASE EvidenceFor(w, item) = {}
    <3>1. tx' = [tx EXCEPT ![w].todo = @ \ {item}]
      BY <2>1 DEF FindRows
    <3> QED
      BY <1>1, <1>2, <2>1, <3>1 DEF Fields
  <2>2. CASE EvidenceFor(w, item) # {}
    <3>1. tx' = [tx EXCEPT ![w].todo = @ \ {item}, ![w].subject = Subject(w, item),
                           ![w].evidence = EvidenceFor(w, item),
                           ![w].keys = ClaimRows(w, Subject(w, item))]
      BY <2>2 DEF FindRows
    <3>2. Subject(w, item) # None /\ Subject(w, item)[1] = item.claim
      BY <1>1, <2>2, SubjectFound
    <3> QED
      BY <1>1, <1>2, <3>1, <3>2 DEF Fields
  <2> QED
    BY <2>1, <2>2
<1>4. \A m \in DOMAIN archive : Covers(w, m) => Covers(w, m)'
  <2> SUFFICES ASSUME NEW m \in DOMAIN archive, Covers(w, m) PROVE Covers(w, m)'
    OBVIOUS
  <2>1. CASE \E k \in Keys \cap DOMAIN tx[w].rows :
                 k[1][1] = archive[m].text.claim /\ m \in Ev(tx[w].rows[k])
    BY <1>1, <1>3, <2>1 DEF Covers
  <2>2. CASE tx[w].conv # None /\ archive[m].text \in tx[w].todo
    <3>1. CASE archive[m].text = item
      <4>1. m \in EvidenceFor(w, item)
        BY <2>2, <3>1 DEF EvidenceFor
      <4> QED
        BY <1>1, <1>3, <3>1, <4>1 DEF Covers
    <3>2. CASE archive[m].text # item
      BY <1>1, <1>3, <2>2, <3>2 DEF Covers, Waits
    <3> QED
      BY <3>1, <3>2
  <2>3. ASSUME tx[w].conv = None, NEW it \in tx[w].todo,
               it.claim = archive[m].text.claim, m \in it.evidence
        PROVE  Covers(w, m)'
    <3>1. CASE it = item
      <4>1. m \in EvidenceFor(w, item)
        BY <2>3, <3>1 DEF EvidenceFor
      <4> QED
        BY <1>1, <1>3, <2>3, <3>1, <4>1 DEF Covers
    <3>2. CASE it # item
      BY <1>1, <1>3, <2>3, <3>2 DEF Covers, Waits
    <3> QED
      BY <3>1, <3>2
  <2> QED
    BY <1>1, <2>1, <2>2, <2>3, ClaimsTyped DEF Covers, Waits
<1>5. tx[w].conv # None =>
          \A k \in Keys \cap DOMAIN tx'[w].rows : Ev(rows[k]) \subseteq Ev(tx'[w].rows[k])
  BY <1>1, <1>3 DEF DInv, Derives
<1>6. Derives(w)'
  BY <1>1, <1>3, <1>4, <1>5, CoversStay
<1> QED
  BY <1>1, <1>3, <1>6, OwnStepD DEF DInv

(* The evidence goes to the first row of its subject, or a new one, and no *)
(* row loses any.                                                          *)
LEMMA ConsolidateWrites ==
  ASSUME IInv, DInv, NEW w \in Workers, Consolidate(w)
  PROVE  /\ w \in Open /\ \A u \in Workers \ {w} : tx'[u] = tx[u]
         /\ tx'[w].conv = tx[w].conv /\ tx'[w].through = tx[w].through
         /\ tx'[w].step = tx[w].step /\ tx[w].step = "claims" /\ tx'[w].todo = tx[w].todo
         /\ tx'[w].subject = None
         /\ DOMAIN tx[w].rows \subseteq DOMAIN tx'[w].rows
         /\ \A k \in Keys \cap DOMAIN tx'[w].rows : Ev(RowsOf(w)[k]) \subseteq Ev(tx'[w].rows[k])
         /\ \E k \in Keys \cap DOMAIN tx'[w].rows :
                k[1] = tx[w].subject /\ tx[w].evidence \subseteq Ev(tx'[w].rows[k])
         /\ \A k \in Keys : k[1] # tx[w].subject =>
                /\ k \in DOMAIN tx'[w].rows <=> k \in DOMAIN tx[w].rows
                /\ k \in DOMAIN tx[w].rows => tx'[w].rows[k] = tx[w].rows[k]
         /\ tx'[w].scopes = tx[w].scopes \cup {tx[w].subject[2]}
         /\ tx'[w].pages = tx[w].pages /\ tx'[w].read = tx[w].read
<1> DEFINE x == tx[w]
           found == Existing(RowsOf(w), x.keys, NoRow)
           same == IF found = {} THEN <<x.subject, x.begun>> ELSE Earliest(found)
           new(k) == IF k = same THEN Supported(RowsOf(w)[k], x.evidence)
                     ELSE Contradicted(RowsOf(w)[k], x.evidence)
           written == Above([k \in found \cup {same} |-> new(k)], x.rows)
<1>1. tx = [u \in Workers |-> tx[u]] /\ w \in Open /\ tx[w].step = "claims" /\ tx[w].subject # None
  BY DEF IInv, Committed, Consolidate, Open, Running
<1>2. tx' = [tx EXCEPT ![w].subject = None, ![w].evidence = {}, ![w].keys = {},
                       ![w].rows = written, ![w].scopes = @ \cup {tx[w].subject[2]}]
  BY <1>1 DEF Consolidate, Refreshed
<1>3. Began(w) /\ Searched(w)
  BY <1>1 DEF IInv, OwnOK
<1>4. /\ \A u \in Workers \ {w} : tx'[u] = tx[u]
      /\ tx'[w].conv = tx[w].conv /\ tx'[w].through = tx[w].through
      /\ tx'[w].step = tx[w].step /\ tx'[w].todo = tx[w].todo /\ tx'[w].subject = None
      /\ tx'[w].rows = written /\ tx'[w].scopes = tx[w].scopes \cup {tx[w].subject[2]}
      /\ tx'[w].pages = tx[w].pages /\ tx'[w].read = tx[w].read
  BY <1>1, <1>2, <1>3 DEF Fields, Began
<1>5. /\ DOMAIN written = found \cup {same} \cup DOMAIN tx[w].rows
      /\ \A k \in found \cup {same} : written[k] = new(k)
      /\ \A k \in DOMAIN tx[w].rows \ (found \cup {same}) : written[k] = tx[w].rows[k]
  BY DEF Above
<1>6. /\ \A k \in Keys : RowOK(k, RowsOf(w)[k])
      /\ \A c \in Subjects : WellOrdered(LiveOf(RowsOf(w), c))
      /\ \A k \in Keys : k \in DOMAIN tx[w].rows => RowsOf(w)[k] = tx[w].rows[k]
  BY <1>1, ViewSound, ViewAt DEF IInv, Committed
<1>7. \A k \in found : k \in Keys /\ k \in Alive(RowsOf(w)) /\ k[1] = tx[w].subject
  BY <1>1, <1>3 DEF Existing, Alive, Searched
<1>8. found # {} => same \in found
  <2> SUFFICES ASSUME found # {} PROVE HasEarliest(found)
    BY DEF Earliest, HasEarliest
  <2>1. PICK k \in found : TRUE
    OBVIOUS
  <2>2. tx[w].subject \in Subjects
    BY <1>1, <1>3 DEF Searched
  <2>3. found \in SUBSET LiveOf(RowsOf(w), tx[w].subject)
    BY <1>7 DEF LiveOf
  <2> QED
    BY <1>6, <2>2, <2>3 DEF WellOrdered
<1>9. found = {} => same = <<tx[w].subject, tx[w].begun>>
  OBVIOUS
<1>10. same \in Keys /\ same[1] = tx[w].subject
  <2>1. tx[w].begun \in 1 .. MaxTransactions
    BY <1>3, ObservationsAssumption DEF Began, DInv, IInv, Committed
  <2>2. <<tx[w].subject, tx[w].begun>> \in Keys
    BY <1>1, <1>3, <2>1 DEF Searched, Keys
  <2> QED
    BY <1>7, <1>8, <1>9, <2>2
<1>11. \A k \in found \cup {same} : new(k) = IF k = same
                                             THEN Supported(RowsOf(w)[k], tx[w].evidence)
                                             ELSE Contradicted(RowsOf(w)[k], tx[w].evidence)
  OBVIOUS
<1> HIDE DEF x, found, same, new, written
<1>12. ASSUME NEW k \in Keys, k \in found \cup {same}
       PROVE  Ev(RowsOf(w)[k]) \subseteq Ev(new(k)) /\ tx[w].evidence \subseteq Ev(new(k))
  <2> DEFINE r == RowsOf(w)[k]
  <2>1. DOMAIN r = {"supports", "contradicts"}
    BY <1>6 DEF RowOK
  <2>2. CASE k = same
    <3>1. new(k) = Supported(r, tx[w].evidence)
      BY <1>11, <2>2
    <3> HIDE DEF r
    <3>2. /\ Supported(r, tx[w].evidence).supports = r.supports \cup (tx[w].evidence \ r.contradicts)
          /\ Supported(r, tx[w].evidence).contradicts = r.contradicts
      BY <2>1 DEF Supported
    <3>3. Ev(r) \subseteq Ev(new(k)) /\ tx[w].evidence \subseteq Ev(new(k))
      BY <3>1, <3>2 DEF Ev
    <3> QED
      BY <3>3 DEF r
  <2>3. CASE k # same
    <3>1. new(k) = Contradicted(r, tx[w].evidence)
      BY <1>11, <1>12, <2>3
    <3> HIDE DEF r
    <3>2. /\ Contradicted(r, tx[w].evidence).contradicts = r.contradicts \cup (tx[w].evidence \ r.supports)
          /\ Contradicted(r, tx[w].evidence).supports = r.supports
      BY <2>1 DEF Contradicted
    <3>3. Ev(r) \subseteq Ev(new(k)) /\ tx[w].evidence \subseteq Ev(new(k))
      BY <3>1, <3>2 DEF Ev
    <3> QED
      BY <3>3 DEF r
  <2> QED
    BY <2>2, <2>3
<1>13. \A k \in Keys \cap DOMAIN written : Ev(RowsOf(w)[k]) \subseteq Ev(written[k])
  BY <1>5, <1>6, <1>12
<1>14. \E k \in Keys \cap DOMAIN written :
           k[1] = tx[w].subject /\ tx[w].evidence \subseteq Ev(written[k])
  BY <1>5, <1>10, <1>12
<1>15. DOMAIN tx[w].rows \subseteq DOMAIN written
  BY <1>5
<1>16. \A k \in found \cup {same} : k \in Keys => k[1] = tx[w].subject
  BY <1>7, <1>8, <1>9
<1>17. \A k \in Keys : k[1] # tx[w].subject =>
           /\ k \in DOMAIN written <=> k \in DOMAIN tx[w].rows
           /\ k \in DOMAIN tx[w].rows => written[k] = tx[w].rows[k]
  BY <1>5, <1>16
<1> QED
  BY <1>1, <1>4, <1>13, <1>14, <1>15, <1>17

LEMMA ConsolidateD ==
  ASSUME IInv, SInv, DInv, NEW w \in Workers, Consolidate(w)
  PROVE  DInv'
<1>1. UNCHANGED <<archive, retained, marked, dirty, rows, log>>
  BY DEF Consolidate, ingestion, derived, history
<1>2. /\ w \in Open /\ w \in Running /\ \A u \in Workers \ {w} : tx'[u] = tx[u]
      /\ tx'[w].conv = tx[w].conv /\ tx'[w].through = tx[w].through
      /\ tx'[w].step = tx[w].step /\ tx[w].step = "claims" /\ tx'[w].todo = tx[w].todo
      /\ DOMAIN tx[w].rows \subseteq DOMAIN tx'[w].rows
      /\ \A k \in Keys \cap DOMAIN tx'[w].rows : Ev(RowsOf(w)[k]) \subseteq Ev(tx'[w].rows[k])
      /\ \E k \in Keys \cap DOMAIN tx'[w].rows :
             k[1] = tx[w].subject /\ tx[w].evidence \subseteq Ev(tx'[w].rows[k])
  BY ConsolidateWrites DEF Open
<1>3. \A k \in Keys : RowsOf(w)[k] = IF k \in DOMAIN tx[w].rows
                                     THEN tx[w].rows[k] ELSE rows[k]
  BY ViewAt DEF IInv, Committed
<1>4. \A m \in DOMAIN archive : Covers(w, m) => Covers(w, m)'
  <2> SUFFICES ASSUME NEW m \in DOMAIN archive, Covers(w, m) PROVE Covers(w, m)'
    OBVIOUS
  <2>1. CASE Waits(w, m)
    BY <1>1, <1>2, <2>1 DEF Covers, Waits
  <2>2. CASE tx[w].subject[1] = archive[m].text.claim /\ m \in tx[w].evidence
    <3>1. PICK k \in Keys \cap DOMAIN tx'[w].rows :
                   k[1] = tx[w].subject /\ tx[w].evidence \subseteq Ev(tx'[w].rows[k])
      BY <1>2
    <3> QED
      BY <1>1, <2>2, <3>1 DEF Covers
  <2>3. ASSUME NEW k \in Keys \cap DOMAIN tx[w].rows,
               k[1][1] = archive[m].text.claim, m \in Ev(tx[w].rows[k])
        PROVE  Covers(w, m)'
    <3>1. k \in Keys \cap DOMAIN tx'[w].rows /\ m \in Ev(tx'[w].rows[k])
      BY <1>2, <1>3, <2>3
    <3> QED
      BY <1>1, <2>3, <3>1 DEF Covers
  <2> QED
    BY <2>1, <2>2, <2>3 DEF Covers
<1>5. tx[w].conv # None =>
          \A k \in Keys \cap DOMAIN tx'[w].rows : Ev(rows[k]) \subseteq Ev(tx'[w].rows[k])
  <2> SUFFICES ASSUME tx[w].conv # None, NEW k \in Keys \cap DOMAIN tx'[w].rows
               PROVE  Ev(rows[k]) \subseteq Ev(RowsOf(w)[k])
    BY <1>2
  <2>1. k \in DOMAIN tx[w].rows => Ev(rows[k]) \subseteq Ev(tx[w].rows[k])
    BY <1>2 DEF DInv, Derives
  <2> QED
    BY <1>3, <2>1
<1>6. Derives(w)'
  BY <1>1, <1>2, <1>4, <1>5, CoversStay
<1> QED
  BY <1>1, <1>2, <1>6, OwnStepD DEF DInv

LEMMA BeginD ==
  ASSUME IInv, SInv, DInv, NEW w \in Workers,
         BeginRebuild(w) \/ \E c \in Conversations : BeginRefresh(w, c)
  PROVE  DInv'
<1>1. PICK c, step, todo, sums :
          /\ c \in Conversations \cup {None}
          /\ Begin(w, c, Transaction(c, step, todo, sums)) /\ step # "mark"
          /\ IF c = None THEN todo = Candidates
             ELSE todo = {Collapse(archive[m].text) : m \in Of(c)}
  <2>1. CASE BeginRebuild(w)
    BY <2>1 DEF BeginRebuild
  <2>2. CASE \E c \in Conversations : BeginRefresh(w, c)
    BY <2>2, ObservationsAssumption DEF BeginRefresh
  <2> QED
    BY <2>1, <2>2
<1>2. /\ \A u \in Workers \ {w} : tx'[u] = tx[u]
      /\ tx'[w] = Transaction(c, step, todo, sums)
      /\ Len(log) \in Nat /\ Len(log') = Len(log) + 1
      /\ UNCHANGED <<archive, retained, marked, dirty, rows>>
  BY <1>1, BeginIs DEF ingestion, derived
<1>3. /\ tx'[w].conv = c /\ tx'[w].step # "mark" /\ tx'[w].todo = todo
      /\ tx'[w].rows = <<>>
  BY <1>1, <1>2 DEF Transaction
<1>4. Len(log') <= MaxTransactions
  BY <1>1, <1>2, ObservationsAssumption DEF Begin
<1>5. c = None => \A m \in DOMAIN archive : Covers(w, m)'
  <2> SUFFICES ASSUME c = None, NEW m \in DOMAIN archive PROVE Covers(w, m)'
    OBVIOUS
  <2>1. PICK k \in Claims, b \in Conversations : k = archive[m].text.claim /\ b = archive[m].conv
    BY ClaimsTyped
  <2>2. m \in Group(b, k)
    BY <2>1 DEF Group, Of
  <2>3. PICK item : item = Candidate(Group(b, k))
    OBVIOUS
  <2>4. item \in Candidates
    BY <2>2, <2>3 DEF Candidates, Groups
  <2>5. item.claim = k /\ m \in item.evidence
    <3>1. First(Group(b, k)) \in Group(b, k)
      BY <2>2, FirstIsIn DEF IInv
    <3> QED
      BY <2>2, <2>3, <3>1 DEF Candidate, Group
  <2> QED
    BY <1>1, <1>2, <1>3, <2>1, <2>4, <2>5 DEF Covers, Waits
<1>6. c # None => \A m \in Regular(c) : Covers(w, m)'
  <2> SUFFICES ASSUME c # None, NEW m \in Regular(c) PROVE Covers(w, m)'
    OBVIOUS
  <2>1. m \in Of(c) /\ Collapse(archive[m].text) = archive[m].text
    BY DEF Regular, Collapse
  <2>2. archive[m].text \in todo
    BY <1>1, <2>1
  <2> QED
    BY <1>2, <1>3, <2>2 DEF Covers, Waits
<1>7. Derives(w)'
  <2>1. \A b : Regular(b)' = Regular(b)
    BY <1>2 DEF Regular, Of
  <2>2. DOMAIN tx'[w].rows = {}
    BY <1>3
  <2>3. retained \subseteq DOMAIN archive
    BY DEF SInv, Archived
  <2> QED
    BY <1>2, <1>3, <1>5, <1>6, <2>1, <2>2, <2>3 DEF Derives
<1> QED
  BY <1>2, <1>4, <1>7, OwnStepD

LEMMA EndD ==
  ASSUME IInv, SInv, DInv, NEW w \in Workers, MarkSucceeded(w) \/ Abort(w)
  PROVE  DInv'
<1>1. /\ tx' = [tx EXCEPT ![w] = None] /\ tx = [u \in Workers |-> tx[u]] /\ w \in Running
      /\ UNCHANGED <<archive, retained, marked, rows, log>>
  BY DEF IInv, Committed, MarkSucceeded, Abort, ingestion, derived, history, Running
<1>2. (\A u \in Workers \ {w} : tx'[u] = tx[u]) /\ w \notin Running'
  BY <1>1 DEF Running
<1>3. CASE Abort(w)
  <2>1. dirty' = dirty
    BY <1>3 DEF Abort, ingestion
  <2> QED
    BY <1>1, <1>2, <2>1, OwnStepD DEF DInv
<1>4. CASE MarkSucceeded(w)
  <2>1. /\ tx[w].step = "mark"
        /\ dirty' = [dirty EXCEPT ![tx[w].conv] = IF StillThrough(w) THEN 0 ELSE @]
    BY <1>4 DEF MarkSucceeded
  <2>2. Fixed(w) /\ Derives(w) /\ Archived
    BY <1>1 DEF SInv, DInv
  <2>3. PICK c \in Conversations : c = tx[w].conv /\ c # None
    BY <2>1, <2>2 DEF Fixed
  <2>4. \A b \in Conversations : dirty'[b] = IF b = c /\ StillThrough(w) THEN 0 ELSE dirty[b]
    BY <2>1, <2>2, <2>3 DEF Archived
  <2>5. ASSUME StillThrough(w), NEW m \in marked \cap Regular(c) PROVE Evident(m)
    <3>1. dirty[c] = tx[w].through /\ dirty[c] \in Of(c) /\ dirty[c] # 0
      <4>1. tx[w].through \in Of(c) /\ \A n \in Of(c) : n # 0
        BY <2>2, <2>3 DEF Fixed, IInv, Committed, Of
      <4> QED
        BY <2>3, <2>5, <4>1 DEF StillThrough
    <3>2. m \in Of(c)
      BY DEF Regular
    <3>3. m <= tx[w].through
      BY <2>2, <3>1, <3>2 DEF Archived
    <3> QED
      BY <2>1, <2>2, <2>3, <3>3 DEF Derives
  <2> QED
    BY <1>1, <1>2, <2>4, <2>5, OwnStepD DEF DInv
<1> QED
  BY <1>3, <1>4

(* A refresh deletes no evidence, and a rebuild has it all.                *)
LEMMA CommitD ==
  ASSUME IInv, SInv, DInv, NEW w \in Workers, Commit(w)
  PROVE  DInv'
<1>1. /\ tx = [u \in Workers |-> tx[u]] /\ w \in Open /\ w \in Running /\ tx[w].step = "claims"
      /\ tx[w].subject = None /\ tx[w].todo = {} /\ rows' = RowsOf(w)
      /\ tx' = [tx EXCEPT ![w] = IF tx[w].conv = None THEN None ELSE [tx[w] EXCEPT !.step = "mark"]]
      /\ UNCHANGED <<archive, retained, marked, dirty, log, overlap>>
  BY DEF IInv, Committed, Commit, ingestion, history, Running, Open
<1>2. Fixed(w) /\ Derives(w) /\ Archived
  BY <1>1 DEF SInv, DInv
<1>3. /\ \A u \in Workers \ {w} : tx'[u] = tx[u]
      /\ tx[w].conv = None => w \notin Running'
      /\ tx[w].conv # None => /\ tx'[w].conv = tx[w].conv /\ tx'[w].through = tx[w].through
                              /\ tx'[w].step = "mark"
  BY <1>1, <1>2 DEF Fixed, Fields, Running
<1>4. \A k \in Keys : rows'[k] = IF k \in DOMAIN tx[w].rows THEN tx[w].rows[k] ELSE rows[k]
  BY <1>1, ViewAt DEF IInv, Committed
<1>5. ASSUME NEW m \in DOMAIN archive, Covers(w, m) PROVE Evident(m)'
  <2>1. PICK k \in Keys \cap DOMAIN tx[w].rows :
                 k[1][1] = archive[m].text.claim /\ m \in Ev(tx[w].rows[k])
    BY <1>1, <1>5, ClaimsTyped DEF Covers, Waits
  <2> QED
    BY <1>1, <1>4, <2>1 DEF Evident
<1>6. ASSUME NEW m, Evident(m), tx[w].conv # None PROVE Evident(m)'
  <2>1. PICK k \in Keys : k[1][1] = archive[m].text.claim /\ m \in Ev(rows[k])
    BY <1>6 DEF Evident
  <2>2. k \in DOMAIN tx[w].rows => Ev(rows[k]) \subseteq Ev(tx[w].rows[k])
    BY <1>1, <1>2, <1>6 DEF Derives
  <2>3. m \in Ev(rows'[k])
    BY <1>4, <2>1, <2>2
  <2> QED
    BY <1>1, <2>1, <2>3 DEF Evident
<1>7. ASSUME NEW m \in retained, Evident(m) \/ tx[w].conv = None PROVE Evident(m)'
  BY <1>2, <1>5, <1>6, <1>7 DEF Archived, Derives
<1>8. \A c : Regular(c)' = Regular(c) /\ Of(c)' = Of(c)
  BY <1>1 DEF Regular, Of
<1>9. \A u \in Running' \ {w} : u \in Running /\ tx'[u] = tx[u]
  BY <1>3 DEF Running
<1>10. ASSUME NEW u \in Running' \ {w} PROVE Derives(u)'
  <2>1. Derives(u) /\ Fixed(u) /\ tx'[u] = tx[u]
    BY <1>9 DEF DInv, SInv
  <2>2. \A m : Covers(u, m)' = Covers(u, m)
    BY <1>1, <2>1 DEF Covers, Waits
  <2>3. ASSUME tx[u].step # "mark"
        PROVE  \A k \in Keys \cap DOMAIN tx[u].rows : rows'[k] = rows[k]
    <3>1. Apart(u, w)
      BY <1>1, <1>9, <2>3 DEF IInv, Open
    <3> QED
      BY <1>4, <3>1 DEF Apart
  <2>4. ASSUME tx[u].conv # None, tx[u].step = "mark",
               NEW m \in Regular(tx[u].conv), m <= tx[u].through
        PROVE  Evident(m)'
    <3>1. Evident(m)
      BY <2>1, <2>4 DEF Derives
    <3>2. PICK c \in Conversations : c = tx[u].conv /\ m \in Of(c)
      BY <2>1, <2>4 DEF Fixed, Regular
    <3>3. tx[u].through \in marked \cap Of(c)
      BY <2>1, <2>4, <3>2 DEF Fixed
    <3>4. m \in marked
      <4>1. m \in Nat /\ tx[u].through \in Nat
        BY <3>2, <3>3 DEF IInv, Committed, Of
      <4>2. CASE m < tx[u].through
        BY <1>2, <3>2, <3>3, <4>2 DEF Archived
      <4> QED
        BY <2>4, <3>3, <4>1, <4>2
    <3> QED
      BY <1>2, <1>7, <3>1, <3>4 DEF Archived
  <2> QED
    BY <1>1, <1>8, <2>1, <2>2, <2>3, <2>4 DEF Derives
<1>11. w \in Running' => Derives(w)'
  <2> SUFFICES ASSUME w \in Running', tx[w].conv # None PROVE Derives(w)'
    BY <1>3
  <2>1. \A m \in Regular(tx[w].conv) : m <= tx[w].through => Covers(w, m)
    BY <1>1, <1>2 DEF Derives
  <2>2. Regular(tx[w].conv) \subseteq DOMAIN archive
    BY DEF Regular, Of
  <2> QED
    BY <1>3, <1>5, <1>8, <2>1, <2>2 DEF Derives
<1>12. ASSUME NEW c \in Conversations, NEW m \in marked \cap Regular(c), dirty[c] = 0
       PROVE  Evident(m)'
  <2>1. Evident(m) /\ m \in retained
    BY <1>2, <1>12 DEF DInv, Archived
  <2> QED
    BY <1>7, <2>1
<1> QED
  BY <1>1, <1>8, <1>10, <1>11, <1>12 DEF DInv

(* Ingestion: what a transaction covers is not about the messages that     *)
(* come meanwhile.                                                         *)
LEMMA IngestD ==
  ASSUME IInv, SInv, DInv, UNCHANGED <<tx, rows, log>>,
         DOMAIN archive \subseteq DOMAIN archive', \A m \in DOMAIN archive : archive'[m] = archive[m],
         retained' = retained \/ RegistryFree,
         \A c : \A m \in Of(c)' \ Of(c) : \A n \in Of(c) : ~(m <= n),
         \A c \in Conversations :
             \/ marked' \cap Of(c)' = marked \cap Of(c) /\ dirty'[c] = dirty[c]
             \/ dirty'[c] # 0
  PROVE  DInv'
<1>1. Running' = Running
  BY DEF Running
<1>2. /\ \A m \in DOMAIN archive : Evident(m)' = Evident(m)
      /\ \A w : \A m \in DOMAIN archive : Covers(w, m)' = Covers(w, m)
  BY DEF Evident, Covers, Waits
<1>3. retained \subseteq DOMAIN archive
  BY DEF SInv, Archived
<1>4. \A c : \A m \in Regular(c)' : m \in Regular(c) \/ (m \in Of(c)' \ Of(c))
  BY DEF Regular, Of
<1>5. \A c : Regular(c) \subseteq DOMAIN archive
  BY DEF Regular, Of
<1>6. ASSUME NEW w \in Running PROVE Derives(w)'
  <2>1. Derives(w) /\ Fixed(w)
    BY DEF DInv, SInv
  <2>2. CASE tx[w].conv = None
    <3>1. retained' = retained
      BY <2>2 DEF RegistryFree, Running
    <3> QED
      BY <1>2, <1>3, <2>1, <2>2, <3>1 DEF Derives
  <2>3. CASE tx[w].conv # None
    <3>1. \A m \in Regular(tx[w].conv)' : m <= tx[w].through => m \in Regular(tx[w].conv)
      BY <1>4, <2>1, <2>3 DEF Fixed
    <3> QED
      BY <1>2, <1>5, <2>1, <2>3, <3>1 DEF Derives
  <2> QED
    BY <2>2, <2>3
<1>7. ASSUME NEW c \in Conversations, NEW m \in marked' \cap Regular(c)', dirty'[c] = 0
      PROVE  Evident(m)'
  <2>1. m \in marked \cap Of(c) /\ dirty[c] = 0
    BY <1>7 DEF Regular
  <2>2. m \in Regular(c)
    BY <1>4, <1>7, <2>1
  <2> QED
    BY <1>2, <1>5, <2>1, <2>2 DEF DInv
<1> QED
  BY <1>1, <1>6, <1>7 DEF DInv

LEMMA ArriveD ==
  ASSUME IInv, SInv, DInv, NEW c \in Conversations, NEW t \in Texts, Arrive(c, t)
  PROVE  DInv'
<1>1. /\ Len(archive) \in Nat /\ DOMAIN archive = 1 .. Len(archive)
      /\ DOMAIN archive' = DOMAIN archive \cup {Len(archive) + 1}
      /\ \A m \in DOMAIN archive : archive'[m] = archive[m]
      /\ \A b : Of(b)' = Of(b) \cup (IF b = c THEN {Len(archive) + 1} ELSE {})
      /\ UNCHANGED <<retained, marked, dirty, rows, tx, log>>
  BY OneMessageMore DEF derived, history
<1>2. marked \subseteq 1 .. Len(archive) /\ \A b : Of(b) \subseteq 1 .. Len(archive)
  BY <1>1 DEF SInv, Archived, Of
<1>3. \A b : \A m \in Of(b)' \ Of(b) : \A n \in Of(b) : ~(m <= n)
  BY <1>1, <1>2
<1>4. \A b : marked \cap Of(b)' = marked \cap Of(b)
  BY <1>1, <1>2
<1> QED
  BY <1>1, <1>3, <1>4, IngestD

LEMMA MarkD ==
  ASSUME IInv, SInv, DInv, NEW m \in Messages, Retain(m) \/ Mark(m)
  PROVE  DInv'
<1>1. UNCHANGED <<archive, rows, tx, log>>
  BY DEF Retain, Mark, derived, history
<1>2. \A c : Of(c)' = Of(c)
  BY <1>1 DEF Of
<1>3. retained' = retained \/ RegistryFree
  BY DEF Retain, Mark
<1>4. \A c \in Conversations :
          \/ marked' \cap Of(c)' = marked \cap Of(c) /\ dirty'[c] = dirty[c]
          \/ dirty'[c] # 0
  <2>1. CASE Retain(m)
    BY <1>2, <2>1 DEF Retain
  <2>2. CASE Mark(m)
    <3>1. /\ marked' = marked \cup {m} /\ dirty' = [dirty EXCEPT ![archive[m].conv] = m]
          /\ m # 0 /\ dirty \in [Conversations -> Nat]
      BY <2>2 DEF Mark, Messages, SInv, Archived
    <3>2. \A c : m \in Of(c) => c = archive[m].conv
      BY DEF Of
    <3> QED
      BY <1>2, <3>1, <3>2
  <2> QED
    BY <2>1, <2>2
<1> QED
  BY <1>1, <1>2, <1>3, <1>4, IngestD

LEMMA DInvInit == Init => DInv
<1> SUFFICES ASSUME Init PROVE DInv
  OBVIOUS
<1>1. Running = {} /\ marked = {} /\ Len(log) = 0
  BY DEF Init, Running
<1> QED
  BY <1>1, ObservationsAssumption DEF DInv

LEMMA DInvStep == IInv /\ SInv /\ DInv /\ [Next]_vars => DInv'
<1> SUFFICES ASSUME IInv, SInv, DInv, [Next]_vars PROVE DInv'
  OBVIOUS
<1>1. CASE UNCHANGED vars
  <2>1. UNCHANGED <<archive, retained, marked, dirty, rows, tx, log>>
    BY <1>1 DEF vars, ingestion, derived, history
  <2>2. \A c : Of(c)' = Of(c)
    BY <2>1 DEF Of
  <2> QED
    BY <2>1, <2>2, IngestD
<1>2. ASSUME NEW c \in Conversations, NEW t \in Texts, Arrive(c, t) PROVE DInv'
  BY <1>2, ArriveD
<1>3. ASSUME NEW m \in Messages, Retain(m) \/ Mark(m) PROVE DInv'
  BY <1>3, MarkD
<1>4. ASSUME NEW w \in Workers,
             \/ SaveSummary(w) \/ StartDelete(w) \/ DeletePages(w)
             \/ \E s \in Scopes : ReadPage(w, s)
             \/ WritePage(w)
      PROVE  DInv'
  BY <1>4, LocalD
<1>5. ASSUME NEW w \in Workers, NEW item, FindRows(w, item) PROVE DInv'
  BY <1>5, FindD
<1>6. ASSUME NEW w \in Workers, DeleteRows(w) \/ Consolidate(w) PROVE DInv'
  BY <1>6, DeleteD, ConsolidateD
<1>7. ASSUME NEW w \in Workers,
             \/ \E c \in Conversations : BeginRefresh(w, c)
             \/ BeginRebuild(w) \/ Commit(w) \/ MarkSucceeded(w) \/ Abort(w)
      PROVE  DInv'
  BY <1>7, BeginD, CommitD, EndD
<1> QED
  BY <1>1, <1>2, <1>3, <1>4, <1>5, <1>6, <1>7 DEF Next

(* A message that is recorded as ingested, of a conversation that is not   *)
(* dirty, is evidence of an observation of its claim: no interleaving of   *)
(* refreshes, rebuilds that delete everything, aborts and new messages     *)
(* loses it.  The texts with ragged spaces are left out, which a refresh   *)
(* looks up in another form than they have (consolidate).                  *)
THEOREM IngestedBecomesEvidence == Spec => []IngestedIsEvidence
<1>1. IInv /\ SInv /\ DInv => IngestedIsEvidence
  <2> SUFFICES ASSUME IInv, SInv, DInv, NEW m \in marked,
                      dirty[archive[m].conv] = 0, archive[m].text.form # "ragged"
               PROVE  \E k \in Live : k[1][1] = archive[m].text.claim
                                      /\ m \in rows[k].supports \cup rows[k].contradicts
    BY DEF IngestedIsEvidence
  <2>1. m \in DOMAIN archive
    BY DEF SInv, Archived
  <2>2. PICK c \in Conversations : c = archive[m].conv /\ m \in Of(c)
    BY <2>1, ClaimsTyped
  <2>3. Evident(m)
    BY <2>2 DEF DInv, Regular
  <2>4. PICK k \in Keys : k[1][1] = archive[m].text.claim /\ m \in Ev(rows[k])
    BY <2>3 DEF Evident
  <2>5. rows[k] # NoRow
    BY <2>4 DEF Ev, NoRow
  <2> QED
    BY <2>4, <2>5 DEF Ev, Live, Existing
<1> QED
  BY <1>1, IInvInit, IInvStep, SInvInit, SInvStep, DInvInit, DInvStep, PTL DEF Spec

-----------------------------------------------------------------------------
(***************************************************************************)
(* Pages                                                                   *)
(***************************************************************************)

(* The page lists the best of the visible rows, as they are.               *)
Current(R, page, s) == \E S \in Selections(R, s) : page = [k \in S |-> R[k]]

(* A page that w has read and is about to write.                           *)
Pending(w, s) ==
    LET r == tx[w].read IN
    /\ r # NoRead /\ r.scope = s
    /\ r.existing = (PagesOf(w)[s] # NoPage)
    /\ Current(RowsOf(w), r.page, s)

(* A transaction alone: what it sees is what is committed until it has     *)
(* deleted everything, and of what it has then written a page is current   *)
(* unless it is still to be refreshed.                                     *)
Refreshing(w) ==
    LET x == tx[w] IN
    /\ DOMAIN x.pages \subseteq Scopes
    /\ x.step # "claims" => x.read = NoRead
    /\ x.read # NoRead => /\ x.todo = {} /\ x.subject = None
                          /\ x.read.scope \in Scopes /\ Pending(w, x.read.scope)
    /\ x.step \in {"summary", "delete", "pages"} => DOMAIN x.rows = {} /\ DOMAIN x.pages = {}
    /\ x.step = "pages" => x.keys = Existing(pages, Scopes, NoPage)
    /\ x.step = "rows" =>
         /\ x.keys = Alive(rows) /\ DOMAIN x.rows = {}
         /\ \A s \in Scopes : PagesOf(w)[s] = NoPage
    /\ x.step = "claims" =>
         \A s \in Scopes : \/ s \in x.scopes
                           \/ Pending(w, s)
                           \/ Current(RowsOf(w), PagesOf(w)[s], s)

PInv ==
    overlap = {} =>
        /\ \A u, w \in Open : u = w
        /\ DOMAIN pages = Scopes /\ \A s \in Scopes : Current(rows, pages[s], s)
        /\ \A w \in Open : Refreshing(w)

(* A page is about the rows of its scope only.                             *)
LEMMA OfItsScope ==
  ASSUME NEW R, NEW Q, NEW s, \A k \in Keys : k[1][2] = s => R[k] = Q[k]
  PROVE  \A page : Current(R, page, s) => Current(Q, page, s)
<1>1. Visible(R, s) = Visible(Q, s)
  BY DEF Visible, Existing
<1>2. \A k \in Visible(R, s) : R[k] = Q[k]
  BY DEF Visible, Existing
<1>3. ASSUME NEW S \in Selections(R, s) PROVE S \in Selections(Q, s)
  BY <1>1, <1>2 DEF Selections
<1>4. ASSUME NEW S \in Selections(R, s) PROVE [k \in S |-> R[k]] = [k \in S |-> Q[k]]
  <2>1. S \subseteq Visible(R, s)
    BY DEF Selections
  <2> QED
    BY <1>2, <2>1
<1> QED
  BY <1>3, <1>4 DEF Current

(* Without rows there is no page.                                          *)
LEMMA NothingToList ==
  ASSUME NEW R, NEW s, \A k \in Keys : R[k] = NoRow
  PROVE  Current(R, NoPage, s)
<1>1. Visible(R, s) = {}
  BY DEF Visible, Existing
<1>2. Cardinality({}) = 0
  BY FS_EmptySet
<1>3. {} \in Selections(R, s)
  BY <1>1, <1>2, ObservationsAssumption DEF Selections
<1>4. NoPage = [k \in {} |-> R[k]]
  BY DEF NoPage
<1> QED
  BY <1>3, <1>4 DEF Current

(* What a transaction sees of a page.                                      *)
LEMMA PageAt ==
  ASSUME DOMAIN pages = Scopes
  PROVE  /\ \A w : DOMAIN tx[w].pages \subseteq Scopes => DOMAIN PagesOf(w) = Scopes
         /\ \A w : \A s \in Scopes : PagesOf(w)[s] = IF s \in DOMAIN tx[w].pages
                                                     THEN tx[w].pages[s] ELSE pages[s]
BY DEF PagesOf, Above

LEMMA PageAtNext ==
  ASSUME DOMAIN pages' = Scopes
  PROVE  \A w : \A s \in Scopes : PagesOf(w)'[s] = IF s \in DOMAIN tx'[w].pages
                                                   THEN tx'[w].pages[s] ELSE pages'[s]
BY DEF PagesOf, Above

(* A step of one transaction that does not commit.                         *)
LEMMA OwnStepP ==
  ASSUME PInv, NEW w \in Workers, \A u \in Workers \ {w} : tx'[u] = tx[u],
         UNCHANGED <<rows, pages, overlap>>,
         w \in Open' => w \in Open /\ (overlap = {} => Refreshing(w)')
  PROVE  PInv'
<1>1. \A u \in Open' : u \in Open /\ (u # w => tx'[u] = tx[u])
  BY DEF Open, Running
<1>2. ASSUME overlap = {}, NEW u \in Open' PROVE Refreshing(u)'
  <2>1. CASE u = w
    BY <1>2, <2>1
  <2>2. CASE u # w
    <3>1. Refreshing(u) /\ tx'[u] = tx[u]
      BY <1>1, <1>2, <2>2 DEF PInv
    <3>2. /\ RowsOf(u)' = RowsOf(u) /\ PagesOf(u)' = PagesOf(u)
          /\ \A s : Pending(u, s)' = Pending(u, s)
      BY <3>1 DEF RowsOf, PagesOf, Above, Pending
    <3> QED
      BY <3>1, <3>2 DEF Refreshing
  <2> QED
    BY <2>1, <2>2
<1> QED
  BY <1>1, <1>2 DEF PInv

(* With nothing written, a transaction sees the committed pages of the     *)
(* committed rows.                                                         *)
LEMMA SaveSummaryP ==
  ASSUME IInv, PInv, NEW w \in Workers, SaveSummary(w)
  PROVE  PInv'
<1>1. /\ tx = [u \in Workers |-> tx[u]] /\ w \in Open /\ tx[w].step = "summary"
      /\ UNCHANGED <<rows, pages, overlap>>
  BY DEF IInv, Committed, SaveSummary, Open, Running, derived, history
<1>2. PICK sums : tx' = [tx EXCEPT ![w].step = "claims", ![w].sums = sums]
  BY <1>1 DEF SaveSummary
<1>3. DOMAIN tx[w] = Fields
  BY <1>1 DEF IInv, OwnOK, Began
<1>4. /\ \A u \in Workers \ {w} : tx'[u] = tx[u]
      /\ tx'[w].step = "claims" /\ tx'[w].read = tx[w].read
      /\ tx'[w].rows = tx[w].rows /\ tx'[w].pages = tx[w].pages
  BY <1>1, <1>2, <1>3 DEF Fields
<1>5. ASSUME overlap = {} PROVE Refreshing(w)'
  <2>1. /\ DOMAIN tx[w].rows = {} /\ DOMAIN tx[w].pages = {} /\ tx[w].read = NoRead
        /\ \A s \in Scopes : Current(rows, pages[s], s)
    BY <1>1, <1>5 DEF PInv, Refreshing
  <2>2. \A k \in Keys : RowsOf(w)'[k] = rows[k]
    BY <1>1, <1>4, <2>1, ViewAtNext DEF IInv, Committed
  <2>3. \A s \in Scopes : PagesOf(w)'[s] = pages[s]
    BY <1>1, <1>4, <1>5, <2>1, PageAtNext DEF PInv
  <2>4. \A s \in Scopes : Current(RowsOf(w)', PagesOf(w)'[s], s)
    BY <2>1, <2>2, <2>3, OfItsScope
  <2> QED
    BY <1>4, <2>1, <2>4 DEF Refreshing
<1> QED
  BY <1>1, <1>4, <1>5, OwnStepP

(* A rebuild, alone, deletes all the pages and then all the rows.          *)
LEMMA DeleteP ==
  ASSUME IInv, PInv, NEW w \in Workers, StartDelete(w) \/ DeletePages(w) \/ DeleteRows(w)
  PROVE  PInv'
<1>1. /\ tx = [u \in Workers |-> tx[u]] /\ w \in Open /\ tx[w].step \in {"delete", "pages", "rows"}
      /\ UNCHANGED <<rows, pages, overlap>>
  BY DEF IInv, Committed, StartDelete, DeletePages, DeleteRows, Open, Running, derived, history
<1>2. DOMAIN tx[w] = Fields
  BY <1>1 DEF IInv, OwnOK, Began
<1>3. \A u \in Workers \ {w} : tx'[u] = tx[u]
  BY <1>1 DEF StartDelete, DeletePages, DeleteRows
<1>4. overlap = {} => Refreshing(w)
  BY <1>1 DEF PInv
<1>5. overlap = {} => \A s \in Scopes : PagesOf(w)'[s] = IF s \in DOMAIN tx'[w].pages
                                                         THEN tx'[w].pages[s] ELSE pages[s]
  BY <1>1, PageAtNext DEF PInv
<1>6. CASE StartDelete(w)
  <2>1. /\ tx[w].step = "delete" /\ tx'[w].step = "pages"
        /\ tx'[w].keys = Existing(pages, Scopes, NoPage)
        /\ tx'[w].read = tx[w].read /\ tx'[w].rows = tx[w].rows /\ tx'[w].pages = tx[w].pages
    BY <1>1, <1>2, <1>6 DEF StartDelete, Fields
  <2>2. overlap = {} => Refreshing(w)'
    BY <1>1, <1>4, <2>1 DEF Refreshing
  <2> QED
    BY <1>1, <1>3, <2>2, OwnStepP
<1>7. CASE DeletePages(w)
  <2>1. /\ tx[w].step = "pages" /\ tx'[w].step = "rows"
        /\ tx'[w].keys = Alive(rows)
        /\ tx'[w].read = tx[w].read /\ tx'[w].rows = tx[w].rows
        /\ tx'[w].pages = [s \in Existing(pages, tx[w].keys, NoPage) |-> NoPage]
    BY <1>1, <1>2, <1>7 DEF DeletePages, Fields, Alive
  <2>2. ASSUME overlap = {} PROVE Refreshing(w)'
    <3>1. /\ tx[w].keys = Existing(pages, Scopes, NoPage) /\ DOMAIN tx[w].rows = {}
          /\ tx[w].read = NoRead
      BY <1>4, <2>1, <2>2 DEF Refreshing
    <3>2. \A s \in Scopes : s \in Existing(pages, tx[w].keys, NoPage) <=> pages[s] # NoPage
      BY <3>1 DEF Existing
    <3>3. \A s \in Scopes : PagesOf(w)'[s] = NoPage
      BY <1>5, <2>1, <2>2, <3>2
    <3>4. DOMAIN tx'[w].pages \subseteq Scopes
      BY <2>1, <3>1 DEF Existing
    <3> QED
      BY <1>1, <2>1, <3>1, <3>3, <3>4 DEF Refreshing
  <2> QED
    BY <1>1, <1>3, <2>2, OwnStepP
<1>8. CASE DeleteRows(w)
  <2>1. /\ tx[w].step = "rows" /\ tx'[w].step = "claims"
        /\ tx'[w].read = tx[w].read /\ tx'[w].pages = tx[w].pages
        /\ tx'[w].rows = [k \in Existing(rows, tx[w].keys, NoRow) |-> NoRow]
    BY <1>1, <1>2, <1>8 DEF DeleteRows, Fields
  <2>2. ASSUME overlap = {} PROVE Refreshing(w)'
    <3>1. /\ tx[w].keys = Alive(rows) /\ tx[w].read = NoRead /\ DOMAIN tx[w].pages \subseteq Scopes
          /\ \A s \in Scopes : PagesOf(w)[s] = NoPage
      BY <1>4, <2>1, <2>2 DEF Refreshing
    <3>2. \A k \in Keys : k \in Existing(rows, tx[w].keys, NoRow) <=> rows[k] # NoRow
      BY <3>1 DEF Alive, Existing
    <3>3. \A k \in Keys : RowsOf(w)'[k] = IF k \in DOMAIN tx'[w].rows
                                          THEN tx'[w].rows[k] ELSE rows[k]
      BY <1>1, ViewAtNext DEF IInv, Committed
    <3>4. \A k \in Keys : RowsOf(w)'[k] = NoRow
      BY <2>1, <3>2, <3>3
    <3>5. PagesOf(w)' = PagesOf(w)
      BY <1>1, <2>1 DEF PagesOf, Above
    <3>6. \A s \in Scopes : Current(RowsOf(w)', PagesOf(w)'[s], s)
      BY <3>1, <3>4, <3>5, NothingToList
    <3> QED
      BY <2>1, <3>1, <3>6 DEF Refreshing
  <2> QED
    BY <1>1, <1>3, <2>2, OwnStepP
<1> QED
  BY <1>6, <1>7, <1>8

LEMMA FindP ==
  ASSUME IInv, PInv, NEW w \in Workers, NEW item, FindRows(w, item)
  PROVE  PInv'
<1>1. /\ tx = [u \in Workers |-> tx[u]] /\ w \in Open /\ tx[w].step = "claims"
      /\ item \in tx[w].todo /\ UNCHANGED <<rows, pages, overlap>>
  BY DEF IInv, Committed, FindRows, Open, Running, derived, history
<1>2. DOMAIN tx[w] = Fields
  BY <1>1 DEF IInv, OwnOK, Began
<1>3. /\ \A u \in Workers \ {w} : tx'[u] = tx[u]
      /\ tx'[w].step = tx[w].step /\ tx'[w].read = tx[w].read /\ tx'[w].scopes = tx[w].scopes
      /\ tx'[w].rows = tx[w].rows /\ tx'[w].pages = tx[w].pages
  <2>1. CASE EvidenceFor(w, item) = {}
    <3>1. tx' = [tx EXCEPT ![w].todo = @ \ {item}]
      BY <2>1 DEF FindRows
    <3> QED
      BY <1>1, <1>2, <3>1 DEF Fields
  <2>2. CASE EvidenceFor(w, item) # {}
    <3>1. tx' = [tx EXCEPT ![w].todo = @ \ {item}, ![w].subject = Subject(w, item),
                           ![w].evidence = EvidenceFor(w, item),
                           ![w].keys = ClaimRows(w, Subject(w, item))]
      BY <2>2 DEF FindRows
    <3> QED
      BY <1>1, <1>2, <3>1 DEF Fields
  <2> QED
    BY <2>1, <2>2
<1>4. ASSUME overlap = {} PROVE Refreshing(w)'
  <2>1. /\ tx[w].read = NoRead /\ DOMAIN tx[w].pages \subseteq Scopes
        /\ \A s \in Scopes : s \in tx[w].scopes \/ Current(RowsOf(w), PagesOf(w)[s], s)
    BY <1>1, <1>4 DEF PInv, Refreshing, Pending
  <2>2. RowsOf(w)' = RowsOf(w) /\ PagesOf(w)' = PagesOf(w)
    BY <1>1, <1>3 DEF RowsOf, PagesOf, Above
  <2> QED
    BY <1>1, <1>3, <2>1, <2>2 DEF Refreshing
<1> QED
  BY <1>1, <1>3, <1>4, OwnStepP

(* The pages of other scopes than the subject's are not about what is      *)
(* written.                                                                *)
LEMMA ConsolidateP ==
  ASSUME IInv, DInv, PInv, NEW w \in Workers, Consolidate(w)
  PROVE  PInv'
<1>1. tx[w].subject # None /\ UNCHANGED <<rows, pages, overlap>>
  BY DEF Consolidate, derived, history
<1>2. /\ w \in Open /\ \A u \in Workers \ {w} : tx'[u] = tx[u]
      /\ tx'[w].step = tx[w].step /\ tx[w].step = "claims"
      /\ \A k \in Keys : k[1] # tx[w].subject =>
             /\ k \in DOMAIN tx'[w].rows <=> k \in DOMAIN tx[w].rows
             /\ k \in DOMAIN tx[w].rows => tx'[w].rows[k] = tx[w].rows[k]
      /\ tx'[w].scopes = tx[w].scopes \cup {tx[w].subject[2]}
      /\ tx'[w].pages = tx[w].pages /\ tx'[w].read = tx[w].read
  BY ConsolidateWrites
<1>3. ASSUME overlap = {} PROVE Refreshing(w)'
  <2>1. /\ tx[w].read = NoRead /\ DOMAIN tx[w].pages \subseteq Scopes
        /\ \A s \in Scopes : s \in tx[w].scopes \/ Current(RowsOf(w), PagesOf(w)[s], s)
    BY <1>1, <1>2, <1>3 DEF PInv, Refreshing, Pending
  <2>2. PagesOf(w)' = PagesOf(w)
    BY <1>1, <1>2 DEF PagesOf, Above
  <2>3. ASSUME NEW s \in Scopes, s \notin tx'[w].scopes
        PROVE  Current(RowsOf(w)', PagesOf(w)'[s], s)
    <3>1. s \notin tx[w].scopes /\ s # tx[w].subject[2]
      BY <1>2, <2>3
    <3>2. \A k \in Keys : RowsOf(w)[k] = IF k \in DOMAIN tx[w].rows
                                         THEN tx[w].rows[k] ELSE rows[k]
      BY ViewAt DEF IInv, Committed
    <3>3. \A k \in Keys : RowsOf(w)'[k] = IF k \in DOMAIN tx'[w].rows
                                          THEN tx'[w].rows[k] ELSE rows[k]
      BY <1>1, ViewAtNext DEF IInv, Committed
    <3>4. \A k \in Keys : k[1][2] = s => RowsOf(w)[k] = RowsOf(w)'[k]
      BY <1>2, <3>1, <3>2, <3>3
    <3>5. Current(RowsOf(w), PagesOf(w)[s], s)
      BY <2>1, <3>1
    <3>6. Current(RowsOf(w)', PagesOf(w)[s], s)
      BY <3>4, <3>5, OfItsScope
    <3> QED
      BY <2>2, <3>6
  <2> QED
    BY <1>1, <1>2, <2>1, <2>3 DEF Refreshing
<1> QED
  BY <1>1, <1>2, <1>3, OwnStepP

(* What a page is to list is read before the page is written: nothing is   *)
(* written between.                                                        *)
LEMMA ReadPageP ==
  ASSUME IInv, PInv, NEW w \in Workers, NEW s \in Scopes, ReadPage(w, s)
  PROVE  PInv'
<1>1. /\ tx = [u \in Workers |-> tx[u]] /\ w \in Open /\ tx[w].step = "claims"
      /\ tx[w].subject = None /\ tx[w].todo = {} /\ tx[w].read = NoRead
      /\ UNCHANGED <<rows, pages, overlap>>
  BY DEF IInv, Committed, ReadPage, Open, Running, derived, history
<1>2. DOMAIN tx[w] = Fields
  BY <1>1 DEF IInv, OwnOK, Began
<1>3. PICK S \in Selections(RowsOf(w), s) :
            tx' = [tx EXCEPT ![w].scopes = @ \ {s},
                             ![w].read = [scope |-> s, existing |-> PagesOf(w)[s] # NoPage,
                                          page |-> [k \in S |-> RowsOf(w)[k]]]]
  BY DEF ReadPage
<1>31. PICK page : page = [k \in S |-> RowsOf(w)[k]]
  OBVIOUS
<1>32. PICK r : r = [scope |-> s, existing |-> PagesOf(w)[s] # NoPage, page |-> page]
  OBVIOUS
<1>33. tx' = [tx EXCEPT ![w].scopes = @ \ {s}, ![w].read = r]
  BY <1>3, <1>31, <1>32
<1>4. r.scope = s /\ r.existing = (PagesOf(w)[s] # NoPage) /\ r.page = page /\ r # NoRead
  <2>1. r.scope = s /\ r.existing = (PagesOf(w)[s] # NoPage) /\ r.page = page
    BY <1>32
  <2>2. DOMAIN r # {}
    BY <1>32
  <2> QED
    BY <2>1, <2>2 DEF NoRead
<1>5. /\ \A u \in Workers \ {w} : tx'[u] = tx[u]
      /\ tx'[w].step = tx[w].step /\ tx'[w].subject = tx[w].subject /\ tx'[w].todo = tx[w].todo
      /\ tx'[w].read = r /\ tx'[w].scopes = tx[w].scopes \ {s}
      /\ tx'[w].rows = tx[w].rows /\ tx'[w].pages = tx[w].pages
  BY <1>1, <1>2, <1>33 DEF Fields
<1>6. RowsOf(w)' = RowsOf(w) /\ PagesOf(w)' = PagesOf(w)
  BY <1>1, <1>5 DEF RowsOf, PagesOf, Above
<1>7. Pending(w, s)'
  <2>1. Current(RowsOf(w), page, s)
    BY <1>31 DEF Current
  <2> QED
    BY <1>4, <1>5, <1>6, <2>1 DEF Pending
<1>8. ASSUME overlap = {} PROVE Refreshing(w)'
  <2>1. /\ DOMAIN tx[w].pages \subseteq Scopes
        /\ \A t \in Scopes : t \in tx[w].scopes \/ Current(RowsOf(w), PagesOf(w)[t], t)
    BY <1>1, <1>8 DEF PInv, Refreshing, Pending
  <2>2. \A t \in Scopes : \/ t \in tx'[w].scopes
                          \/ Pending(w, t)'
                          \/ Current(RowsOf(w)', PagesOf(w)'[t], t)
    BY <1>5, <1>6, <1>7, <2>1
  <2>3. tx'[w].read.scope = s
    BY <1>4, <1>5
  <2> QED
    BY <1>1, <1>4, <1>5, <1>7, <2>1, <2>2, <2>3 DEF Refreshing
<1> QED
  BY <1>1, <1>5, <1>8, OwnStepP

LEMMA WritePageP ==
  ASSUME IInv, PInv, NEW w \in Workers, WritePage(w)
  PROVE  PInv'
<1>1. /\ tx = [u \in Workers |-> tx[u]] /\ w \in Open /\ tx[w].step = "claims"
      /\ tx[w].read # NoRead /\ UNCHANGED <<rows, pages, overlap>>
  BY DEF IInv, Committed, WritePage, Open, Running, derived, history
<1>2. DOMAIN tx[w] = Fields
  BY <1>1 DEF IInv, OwnOK, Began
<1>3. PICK r, s, written :
          /\ r = tx[w].read /\ s = r.scope
          /\ tx' = [tx EXCEPT ![w].read = NoRead, ![w].pages = written]
          /\ \/ r.page = NoPage /\ ~r.existing /\ written = tx[w].pages
             \/ written = Above([t \in {s} |-> r.page], tx[w].pages)
  <2>1. tx' = [tx EXCEPT ![w].read = NoRead] =>
        tx' = [tx EXCEPT ![w].read = NoRead, ![w].pages = tx[w].pages]
    BY <1>1, <1>2 DEF Fields
  <2> QED
    BY <2>1 DEF WritePage
<1>4. /\ \A u \in Workers \ {w} : tx'[u] = tx[u]
      /\ tx'[w].step = tx[w].step /\ tx'[w].read = NoRead /\ tx'[w].scopes = tx[w].scopes
      /\ tx'[w].rows = tx[w].rows /\ tx'[w].pages = written
  BY <1>1, <1>2, <1>3 DEF Fields
<1>5. RowsOf(w)' = RowsOf(w)
  BY <1>1, <1>4 DEF RowsOf, Above
<1>6. overlap = {} =>
          /\ \A t \in Scopes : PagesOf(w)[t] = IF t \in DOMAIN tx[w].pages
                                               THEN tx[w].pages[t] ELSE pages[t]
          /\ \A t \in Scopes : PagesOf(w)'[t] = IF t \in DOMAIN written THEN written[t] ELSE pages[t]
  BY <1>1, <1>4, PageAt, PageAtNext DEF PInv
<1>7. ASSUME overlap = {} PROVE Refreshing(w)'
  <2>1. /\ DOMAIN tx[w].pages \subseteq Scopes /\ s \in Scopes /\ Pending(w, s)
        /\ \A t \in Scopes : \/ t \in tx[w].scopes \/ Pending(w, t)
                             \/ Current(RowsOf(w), PagesOf(w)[t], t)
    BY <1>1, <1>3, <1>7 DEF PInv, Refreshing
  <2>2. \A t \in Scopes : t # s => PagesOf(w)'[t] = PagesOf(w)[t] /\ ~Pending(w, t)
    BY <1>3, <1>6, <1>7 DEF Above, Pending
  <2>3. DOMAIN written \subseteq Scopes
    BY <1>3, <2>1 DEF Above
  <2>4. Pending(w, s) => Current(RowsOf(w), PagesOf(w)'[s], s)
    <3> SUFFICES ASSUME Pending(w, s) PROVE Current(RowsOf(w), PagesOf(w)'[s], s)
      OBVIOUS
    <3>1. r.existing = (PagesOf(w)[s] # NoPage) /\ Current(RowsOf(w), r.page, s)
      BY <1>3 DEF Pending
    <3>2. PagesOf(w)'[s] = r.page
      <4>1. CASE written = Above([t \in {s} |-> r.page], tx[w].pages)
        BY <1>6, <1>7, <2>1, <4>1 DEF Above
      <4>2. CASE r.page = NoPage /\ ~r.existing /\ written = tx[w].pages
        BY <1>6, <1>7, <2>1, <3>1, <4>2
      <4> QED
        BY <1>3, <4>1, <4>2
    <3> QED
      BY <3>1, <3>2
  <2>5. \A t \in Scopes : t \in tx[w].scopes \/ Current(RowsOf(w), PagesOf(w)'[t], t)
    BY <2>1, <2>2, <2>4
  <2> QED
    BY <1>1, <1>4, <1>5, <2>1, <2>3, <2>5 DEF Refreshing
<1> QED
  BY <1>1, <1>4, <1>7, OwnStepP

(* Nothing is open when a transaction begins, if none ever overlapped.     *)
LEMMA BeginP ==
  ASSUME IInv, PInv, NEW w \in Workers,
         BeginRebuild(w) \/ \E c \in Conversations : BeginRefresh(w, c)
  PROVE  PInv'
<1>1. PICK c, step, todo, sums :
          /\ c \in Conversations \cup {None} /\ step \in {"summary", "delete"}
          /\ Begin(w, c, Transaction(c, step, todo, sums))
  <2>1. CASE BeginRebuild(w)
    BY <2>1 DEF BeginRebuild
  <2>2. CASE \E c \in Conversations : BeginRefresh(w, c)
    BY <2>2 DEF BeginRefresh
  <2> QED
    BY <2>1, <2>2
<1>2. /\ tx[w] = None /\ \A u \in Workers \ {w} : tx'[u] = tx[u]
      /\ tx'[w] = Transaction(c, step, todo, sums)
      /\ overlap' = overlap \cup {<<tx[u].begun, Len(log) + 1>> : u \in Open}
      /\ UNCHANGED <<rows, pages>>
  BY <1>1, BeginIs DEF derived
<1>3. /\ tx'[w].step \in {"summary", "delete"} /\ tx'[w].read = NoRead
      /\ DOMAIN tx'[w].rows = {} /\ DOMAIN tx'[w].pages = {}
  BY <1>1, <1>2 DEF Transaction
<1>4. Refreshing(w)'
  BY <1>3 DEF Refreshing
<1>5. overlap' = {} => overlap = {} /\ Open = {}
  BY <1>2
<1>6. \A u \in Open' : u = w \/ u \in Open
  BY <1>2 DEF Open, Running
<1>7. ASSUME overlap' = {}
      PROVE  /\ \A u, v \in Open' : u = v
             /\ \A s \in Scopes : Current(rows', pages'[s], s)
             /\ \A u \in Open' : Refreshing(u)'
  <2>1. \A u \in Open' : u = w
    BY <1>5, <1>6, <1>7
  <2>2. \A s \in Scopes : Current(rows, pages[s], s)
    BY <1>5, <1>7 DEF PInv
  <2> QED
    BY <1>2, <1>4, <2>1, <2>2
<1> QED
  BY <1>2, <1>7 DEF PInv

(* Every page is refreshed before the commit.                              *)
LEMMA CommitP ==
  ASSUME IInv, PInv, NEW w \in Workers, Commit(w)
  PROVE  PInv'
<1>1. /\ tx = [u \in Workers |-> tx[u]] /\ w \in Open /\ tx[w].step = "claims"
      /\ tx[w].scopes = {} /\ tx[w].read = NoRead
      /\ rows' = RowsOf(w) /\ pages' = PagesOf(w)
      /\ tx' = [tx EXCEPT ![w] = IF tx[w].conv = None THEN None ELSE [tx[w] EXCEPT !.step = "mark"]]
      /\ overlap' = overlap
  BY DEF IInv, Committed, Commit, history, Running, Open
<1>2. DOMAIN tx[w] = Fields
  BY <1>1 DEF IInv, OwnOK, Began
<1>3. w \notin Open' /\ \A u \in Workers \ {w} : tx'[u] = tx[u]
  BY <1>1, <1>2 DEF Fields, Running, Open
<1>4. \A u \in Open' : u \in Open /\ u # w
  BY <1>3 DEF Running, Open
<1>5. ASSUME overlap = {}
      PROVE  /\ Open' = {}
             /\ DOMAIN pages' = Scopes /\ \A s \in Scopes : Current(rows', pages'[s], s)
  <2>1. Open' = {}
    BY <1>1, <1>4, <1>5 DEF PInv
  <2>2. /\ DOMAIN pages = Scopes /\ DOMAIN tx[w].pages \subseteq Scopes
        /\ \A s \in Scopes : Current(RowsOf(w), PagesOf(w)[s], s)
    BY <1>1, <1>5 DEF PInv, Refreshing, Pending
  <2>3. DOMAIN PagesOf(w) = Scopes
    BY <2>2, PageAt
  <2> QED
    BY <1>1, <2>1, <2>2, <2>3
<1> QED
  BY <1>1, <1>5 DEF PInv

LEMMA EndP ==
  ASSUME IInv, PInv, NEW w \in Workers, MarkSucceeded(w) \/ Abort(w)
  PROVE  PInv'
<1>1. tx' = [tx EXCEPT ![w] = None] /\ UNCHANGED <<rows, pages, overlap>>
  BY DEF MarkSucceeded, Abort, derived, history
<1>2. tx'[w] = None /\ \A u \in Workers \ {w} : tx'[u] = tx[u]
  BY <1>1 DEF IInv, Committed
<1>3. w \notin Open'
  BY <1>2 DEF Open, Running
<1> QED
  BY <1>1, <1>2, <1>3, OwnStepP

LEMMA SameP ==
  ASSUME PInv, UNCHANGED <<tx, rows, pages, overlap>>
  PROVE  PInv'
<1>1. Open' = Open
  BY DEF Open, Running
<1>2. /\ \A w : RowsOf(w)' = RowsOf(w) /\ PagesOf(w)' = PagesOf(w)
      /\ \A w, s : Pending(w, s)' = Pending(w, s)
  BY DEF RowsOf, PagesOf, Above, Pending
<1>3. \A w : Refreshing(w)' = Refreshing(w)
  BY <1>2 DEF Refreshing
<1> QED
  BY <1>1, <1>3 DEF PInv

LEMMA PInvInit == Init => PInv
<1> SUFFICES ASSUME Init PROVE PInv
  OBVIOUS
<1>1. Open = {} /\ DOMAIN pages = Scopes
  BY DEF Init, Open, Running
<1>2. /\ \A k \in Keys : rows[k] = NoRow
      /\ \A s \in Scopes : pages[s] = NoPage
  BY DEF Init
<1> QED
  BY <1>1, <1>2, NothingToList DEF PInv

LEMMA PInvStep == IInv /\ DInv /\ PInv /\ [Next]_vars => PInv'
<1> SUFFICES ASSUME IInv, DInv, PInv, [Next]_vars PROVE PInv'
  OBVIOUS
<1>1. CASE UNCHANGED vars
  BY <1>1, SameP DEF vars, derived, history
<1>2. CASE \E c \in Conversations, t \in Texts : Arrive(c, t)
  BY <1>2, SameP DEF Arrive, derived, history
<1>3. CASE \E m \in Messages : Retain(m) \/ Mark(m)
  BY <1>3, SameP DEF Retain, Mark, derived, history
<1>4. ASSUME NEW w \in Workers,
             \/ SaveSummary(w) \/ StartDelete(w) \/ DeletePages(w) \/ DeleteRows(w)
             \/ Consolidate(w) \/ WritePage(w)
      PROVE  PInv'
  BY <1>4, SaveSummaryP, DeleteP, ConsolidateP, WritePageP
<1>5. ASSUME NEW w \in Workers, NEW item, FindRows(w, item) PROVE PInv'
  BY <1>5, FindP
<1>6. ASSUME NEW w \in Workers, NEW s \in Scopes, ReadPage(w, s) PROVE PInv'
  BY <1>6, ReadPageP
<1>7. ASSUME NEW w \in Workers,
             \/ \E c \in Conversations : BeginRefresh(w, c)
             \/ BeginRebuild(w) \/ Commit(w) \/ MarkSucceeded(w) \/ Abort(w)
      PROVE  PInv'
  BY <1>7, BeginP, CommitP, EndP
<1> QED
  BY <1>1, <1>2, <1>3, <1>4, <1>5, <1>6, <1>7 DEF Next

(* As long as no two derivations ran side by side, the page of every scope *)
(* lists the best of its visible observations as they are: a refresh of a  *)
(* conversation refreshes the page of every claim it has consolidated, and *)
(* what it reads for a page is still true when the page is written         *)
(* (MemoryPageService.refresh).                                            *)
THEOREM PagesStayCurrent == Spec => []PagesCurrent
<1>1. PInv => PagesCurrent
  BY DEF PInv, PagesCurrent, Current
<1> QED
  BY <1>1, IInvInit, IInvStep, SInvInit, SInvStep, DInvInit, DInvStep, PInvInit, PInvStep, PTL
  DEF Spec
=============================================================================
