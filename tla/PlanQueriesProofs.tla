-------------------------- MODULE PlanQueriesProofs --------------------------
(***************************************************************************)
(* Staleness is exact, for any Goals, turns, versions and clock; the check *)
(* of dependencies and the next action are right for any items.            *)
(*                                                                         *)
(* Dates are compared, so what has to hold is that a change of a Goal that *)
(* a version was not built on is dated later than the one it records, also *)
(* when it is still uncommitted.  With a Project in the database one turn  *)
(* at a time has uncommitted changes (Serialised), and they are later than *)
(* all that is committed (OwnIsLater).                                     *)
(*                                                                         *)
(* The check of dependencies takes items in rounds, so that it needs an    *)
(* induction; the library gives it as a least element of a set (Least).    *)
(***************************************************************************)
EXTENDS PlanQueries, FiniteSetTheorems, WellFoundedInduction, TLAPS

Own(t, g) == {e.at : e \in {d \in own[t] : d.on = g}}

(* Dates have a latest one: said as an invariant, since a union of sets that*)
(* have one has one.                                                       *)
HasLatest(S) == \E n \in S : \A m \in S : m <= n

EventOK(e) == e.on \in Goals /\ e.at \in 0 .. clock
LinkOK(l) == l.goal \in Goals /\ l.at \in 0 .. clock

(* What a version knows of its basis: the recorded event is the latest one *)
(* it was built on.                                                        *)
VersionOK(v) ==
    /\ DOMAIN v = {"at", "basis", "content", "committed", "seen"}
    /\ v.at \in 0 .. clock
    /\ DOMAIN v.basis \subseteq Goals
    /\ \A g \in DOMAIN v.basis :
           /\ v.basis[g] \in 0 .. clock
           /\ \A n \in v.seen[g] : n <= v.basis[g]

(* It was committed after everything it names.                             *)
CommittedOK(v) ==
    /\ v.committed \in 0 .. clock
    /\ v.at <= v.committed
    /\ \A g \in DOMAIN v.basis : v.basis[g] <= v.committed

Tables ==
    /\ clock \in Nat
    /\ began = [t \in Turns |-> began[t]] /\ own = [t \in Turns |-> own[t]]
    /\ ownLinks = [t \in Turns |-> ownLinks[t]] /\ ownVersions = [t \in Turns |-> ownVersions[t]]
    /\ \A t \in Turns : began[t] \in 0 .. clock
    /\ \A e \in events : EventOK(e)
    /\ \A t \in Turns : \A e \in own[t] : EventOK(e)
    /\ \A l \in links : LinkOK(l)
    /\ \A t \in Turns : \A l \in ownLinks[t] : LinkOK(l)
    /\ \A v \in versions : VersionOK(v) /\ CommittedOK(v)
    /\ \A t \in Turns : \A v \in ownVersions[t] : VersionOK(v)

Latests ==
    /\ \A g \in Goals : HasLatest(EventsOf(g))
    /\ \A t \in Turns, g \in Goals : Own(t, g) = {} \/ HasLatest(Own(t, g))

Dated == Tables /\ Latests

(* Only the turn that holds the Projects has uncommitted changes of Goals. *)
Serialised == \A t \in Turns : own[t] # {} => projectLock = t

(* They are later than all that is committed.                              *)
OwnIsLater == \A t \in Turns : \A e \in own[t], d \in events : d.at < e.at

(* Whatever a version was not built on is later than its basis, committed  *)
(* or not.                                                                 *)
UnseenIsLater(v) ==
    \A g \in DOMAIN v.basis :
        /\ \A n \in EventsOf(g) \ v.seen[g] : v.basis[g] < n
        /\ \A u \in Turns : \A n \in Own(u, g) \ v.seen[g] : v.basis[g] < n

UnseenLater ==
    /\ \A v \in versions : UnseenIsLater(v)
    /\ \A t \in Turns : \A v \in ownVersions[t] : UnseenIsLater(v)

IInv == Dated /\ Serialised /\ OwnIsLater /\ UnseenLater

-----------------------------------------------------------------------------
(* The initial state has no version and one event of each Goal. *)
LEMMA DatedInit == Init => Dated
<1> SUFFICES ASSUME Init PROVE Dated
  OBVIOUS
<1>1. Tables
  BY DEF Init, Tables, EventOK
<1>2. Latests
  <2>1. ASSUME NEW g \in Goals PROVE EventsOf(g) = {0}
    <3>1. events = {[on |-> h, at |-> 0] : h \in Goals}
      BY DEF Init
    <3>2. [on |-> g, at |-> 0] \in {d \in events : d.on = g}
      BY <3>1
    <3> QED
      BY <3>1, <3>2 DEF EventsOf
  <2>2. ASSUME NEW t \in Turns, NEW g \in Goals PROVE Own(t, g) = {}
    BY DEF Init, Own
  <2> QED
    BY <2>1, <2>2 DEF Latests, HasLatest
<1> QED
  BY <1>1, <1>2 DEF Dated

(* Latest is the latest, when there is one. *)
LEMMA LatestIsLatest ==
  ASSUME NEW S, HasLatest(S)
  PROVE  Latest(S) \in S /\ \A m \in S : m <= Latest(S)
BY DEF Latest, HasLatest

(* A union of two dated sets has a latest date. *)
LEMMA UnionHasLatest ==
  ASSUME NEW S, NEW T, S \subseteq Nat, T \subseteq Nat, HasLatest(S), T = {} \/ HasLatest(T)
  PROVE  HasLatest(S \cup T)
<1>1. CASE T = {}
  BY <1>1 DEF HasLatest
<1>2. CASE HasLatest(T)
  <2>1. PICK n \in S : \A m \in S : m <= n
    BY DEF HasLatest
  <2>2. PICK k \in T : \A m \in T : m <= k
    BY <1>2 DEF HasLatest
  <2>3. CASE n <= k
    <3>1. \A m \in S \cup T : m <= k
      BY <2>1, <2>2, <2>3
    <3> QED
      BY <3>1 DEF HasLatest
  <2>4. CASE k <= n
    <3>1. \A m \in S \cup T : m <= n
      BY <2>1, <2>2, <2>4
    <3> QED
      BY <3>1 DEF HasLatest
  <2> QED
    BY <2>3, <2>4
<1> QED
  BY <1>1, <1>2

(* What a turn sees of a Goal is dated, and has a latest date. *)
LEMMA SeenHasLatest ==
  ASSUME Dated, NEW t \in Turns, NEW g \in Goals
  PROVE  /\ EventsSeen(t, g) = EventsOf(g) \cup Own(t, g)
         /\ EventsSeen(t, g) \subseteq 0 .. clock
         /\ HasLatest(EventsSeen(t, g))
<1>1. EventsSeen(t, g) = EventsOf(g) \cup Own(t, g)
  BY DEF EventsSeen, EventsOf, Own
<1>2. EventsOf(g) \subseteq 0 .. clock /\ Own(t, g) \subseteq 0 .. clock /\ clock \in Nat
  BY DEF Dated, Tables, EventsOf, Own, EventOK
<1>3. EventsOf(g) \subseteq Nat /\ Own(t, g) \subseteq Nat
  BY <1>2
<1>4. HasLatest(EventsOf(g) \cup Own(t, g))
  BY <1>3, UnionHasLatest DEF Dated, Latests
<1> QED
  BY <1>1, <1>2, <1>4

(* What a version records when it is created. *)
LEMMA CreatedVersion ==
  ASSUME Dated, NEW t \in Turns, NEW content \in Contents, NEW stated \in Stated,
         CreateCandidate(t, content, stated)
  PROVE  \E v : /\ ownVersions' = [ownVersions EXCEPT ![t] = @ \cup {v}]
                /\ VersionOK(v)
                /\ \A g \in DOMAIN v.basis :
                       /\ v.basis[g] \in EventsSeen(t, g)
                       /\ \A n \in EventsSeen(t, g) \ v.seen[g] : v.basis[g] < n
<1> DEFINE added == {l.goal : l \in LinksSeen(t)} \ DOMAIN stated
           basis == [g \in DOMAIN stated \cup added |->
                        IF g \in added THEN Baseline(t, g) ELSE stated[g]]
           seen == [g \in Goals |-> IF g \in DOMAIN stated
                                    THEN {n \in EventsSeen(t, g) : n <= stated[g]}
                                    ELSE EventsSeen(t, g)]
           v == [at |-> began[t], basis |-> basis, content |-> content, committed |-> 0,
                 seen |-> seen]
<1>1. ownVersions' = [ownVersions EXCEPT ![t] = @ \cup {v}]
  BY DEF CreateCandidate
<1>2. DOMAIN stated \subseteq Goals
  BY DEF Stated
<1>3. added \subseteq Goals
  BY DEF LinksSeen, Dated, Tables, LinkOK
<1>4. ASSUME NEW g \in DOMAIN basis
      PROVE  /\ g \in Goals
             /\ basis[g] \in EventsSeen(t, g)
             /\ \A n \in seen[g] : n <= basis[g]
             /\ \A n \in EventsSeen(t, g) \ seen[g] : basis[g] < n
  <2>1. g \in Goals
    BY <1>2, <1>3
  <2>2. HasLatest(EventsSeen(t, g)) /\ EventsSeen(t, g) \subseteq 0 .. clock
    BY <2>1, SeenHasLatest
  <2>3. CASE g \in added
    <3>1. basis[g] = Latest(EventsSeen(t, g)) /\ seen[g] = EventsSeen(t, g)
      BY <2>1, <2>3 DEF Baseline
    <3> QED
      BY <2>1, <2>2, <3>1, LatestIsLatest
  <2>4. CASE g \notin added
    <3>1. /\ g \in DOMAIN stated
          /\ basis[g] = stated[g]
          /\ seen[g] = {n \in EventsSeen(t, g) : n <= stated[g]}
      BY <2>1, <2>4
    <3>2. stated[g] \in EventsSeen(t, g)
      BY <3>1 DEF CreateCandidate
    <3> QED
      BY <2>1, <2>2, <3>1, <3>2
  <2> QED
    BY <2>3, <2>4
<1>5. /\ v.basis = basis /\ v.seen = seen /\ v.at = began[t]
      /\ DOMAIN v = {"at", "basis", "content", "committed", "seen"}
  OBVIOUS
<1> HIDE DEF basis, seen, v
<1>6. VersionOK(v)
  <2>1. began[t] \in 0 .. clock
    BY DEF Dated, Tables
  <2>2. \A g \in DOMAIN basis : basis[g] \in 0 .. clock
    BY <1>4, SeenHasLatest
  <2> QED
    BY <1>4, <1>5, <2>1, <2>2 DEF VersionOK
<1> QED
  BY <1>1, <1>4, <1>5, <1>6

-----------------------------------------------------------------------------
(* Dates stay in range when the clock goes on. *)
LEMMA LaterOK ==
  ASSUME clock \in Nat, clock' \in Nat, clock <= clock'
  PROVE  /\ \A e : EventOK(e) => EventOK(e)'
         /\ \A l : LinkOK(l) => LinkOK(l)'
         /\ \A v : VersionOK(v) => VersionOK(v)'
         /\ \A v : CommittedOK(v) => CommittedOK(v)'
BY DEF EventOK, LinkOK, VersionOK, CommittedOK

(* Only changes of Goals, commits and aborts touch events. *)
LEMMA SameEvents ==
  ASSUME UNCHANGED <<events, own>>
  PROVE  /\ \A g : EventsOf(g)' = EventsOf(g)
         /\ \A t, g : Own(t, g)' = Own(t, g)
         /\ \A v : UnseenIsLater(v)' = UnseenIsLater(v)
         /\ Latests' = Latests /\ OwnIsLater' = OwnIsLater
BY DEF EventsOf, Own, UnseenIsLater, Latests, OwnIsLater

(* The clock ticks. *)
LEMMA BeginKeeps ==
  ASSUME IInv, NEW t \in Turns, BeginTurn(t)
  PROVE  IInv'
<1> USE DEF BeginTurn, locks
<1>1. clock \in Nat /\ clock' = clock + 1
  BY DEF IInv, Dated, Tables
<1>2. Tables'
  BY <1>1, LaterOK DEF IInv, Dated, Tables
<1>3. Latests' /\ OwnIsLater' /\ UnseenLater'
  BY SameEvents DEF IInv, Dated, UnseenLater
<1>4. Serialised'
  BY DEF IInv, Serialised
<1> QED
  BY <1>2, <1>3, <1>4 DEF IInv, Dated

(* A link is dated by the start of its turn. *)
LEMMA LinkKeeps ==
  ASSUME IInv, NEW t \in Turns, NEW g \in Goals, LinkGoal(t, g)
  PROVE  IInv'
<1> USE DEF LinkGoal
<1>1. Tables'
  <2>1. LinkOK([goal |-> g, at |-> began[t]])
    BY DEF IInv, Dated, Tables, LinkOK
  <2>2. \A u \in Turns : \A l \in ownLinks'[u] :
            l \in ownLinks[u] \/ l = [goal |-> g, at |-> began[t]]
    BY DEF IInv, Dated, Tables
  <2>3. \A u \in Turns : \A l \in ownLinks'[u] : LinkOK(l)'
    BY <2>1, <2>2, LaterOK DEF IInv, Dated, Tables
  <2>4. ownLinks' = [u \in Turns |-> ownLinks'[u]]
    BY DEF IInv, Dated, Tables
  <2> QED
    BY <2>3, <2>4, LaterOK DEF IInv, Dated, Tables
<1>2. Latests' /\ OwnIsLater' /\ UnseenLater'
  BY SameEvents DEF IInv, Dated, UnseenLater
<1>3. Serialised'
  BY DEF IInv, Serialised
<1> QED
  BY <1>1, <1>2, <1>3 DEF IInv, Dated

(* A change of a Goal is the latest event there is. *)
LEMMA ChangeKeeps ==
  ASSUME HasProject, IInv, NEW t \in Turns, NEW g \in Goals, NEW criterion \in BOOLEAN,
         ChangeGoal(t, g, criterion)
  PROVE  IInv'
<1>0. PICK e : e = [on |-> g, at |-> clock + 1]
  OBVIOUS
<1>1. /\ clock \in Nat /\ clock' = clock + 1
      /\ UNCHANGED <<began, events, links, ownLinks, versions, ownVersions>>
      /\ own' = [own EXCEPT ![t] = @ \cup {e}]
      /\ projectLock \in {None, t} /\ projectLock' = t
  BY <1>0 DEF IInv, Dated, Tables, ChangeGoal
<1>2. \A u \in Turns : own'[u] = IF u = t THEN own[t] \cup {e} ELSE own[u]
  BY <1>1 DEF IInv, Dated, Tables
<1>3. EventOK(e)' /\ e.at = clock + 1 /\ e.on = g
  BY <1>0, <1>1 DEF EventOK
<1>4. \A h : EventsOf(h)' = EventsOf(h)
  BY <1>1 DEF EventsOf
<1>5. \A u \in Turns, h \in Goals :
          Own(u, h)' = IF u = t /\ h = g THEN Own(t, g) \cup {clock + 1} ELSE Own(u, h)
  BY <1>2, <1>3 DEF Own
<1>6. Tables'
  <2>1. \A u \in Turns : \A d \in own'[u] : EventOK(d)'
    BY <1>1, <1>2, <1>3, LaterOK DEF IInv, Dated, Tables
  <2>2. own' = [u \in Turns |-> own'[u]]
    BY <1>1 DEF IInv, Dated, Tables
  <2> QED
    BY <1>1, <2>1, <2>2, LaterOK DEF IInv, Dated, Tables
<1>7. Latests'
  <2>1. Own(t, g) \subseteq 0 .. clock
    BY DEF IInv, Dated, Tables, Own, EventOK
  <2>2. HasLatest(Own(t, g) \cup {clock + 1})
    <3>1. \A m \in Own(t, g) \cup {clock + 1} : m <= clock + 1
      BY <1>1, <2>1
    <3> QED
      BY <3>1 DEF HasLatest
  <2> QED
    BY <1>4, <1>5, <2>2 DEF IInv, Dated, Latests
<1>8. Serialised'
  BY <1>1, <1>2, QueriesAssumption DEF IInv, Serialised
<1>9. OwnIsLater'
  <2>1. \A d \in events : d.at \in 0 .. clock
    BY DEF IInv, Dated, Tables, EventOK
  <2> QED
    BY <1>1, <1>2, <1>3, <2>1 DEF IInv, OwnIsLater
<1>10. ASSUME NEW v, VersionOK(v), UnseenIsLater(v)
       PROVE  UnseenIsLater(v)'
  BY <1>1, <1>4, <1>5, <1>10 DEF VersionOK, UnseenIsLater
<1>11. UnseenLater'
  BY <1>1, <1>10 DEF IInv, Dated, Tables, UnseenLater
<1> QED
  BY <1>6, <1>7, <1>8, <1>9, <1>11 DEF IInv, Dated

(* A version is built on what its turn sees: an event that another turn has *)
(* not committed is later than all that is committed, and then its own turn *)
(* has changed no Goal.                                                     *)
LEMMA CreateKeeps ==
  ASSUME IInv, NEW t \in Turns, NEW content \in Contents, NEW stated \in Stated,
         CreateCandidate(t, content, stated)
  PROVE  IInv'
<1>1. UNCHANGED <<clock, began, events, own, links, ownLinks, versions, projectLock>>
  BY DEF CreateCandidate
<1>2. PICK v : /\ ownVersions' = [ownVersions EXCEPT ![t] = @ \cup {v}]
               /\ VersionOK(v)
               /\ \A g \in DOMAIN v.basis :
                      /\ v.basis[g] \in EventsSeen(t, g)
                      /\ \A n \in EventsSeen(t, g) \ v.seen[g] : v.basis[g] < n
  BY CreatedVersion DEF IInv
<1>3. \A u \in Turns : \A w \in ownVersions'[u] : w \in ownVersions[u] \/ w = v
  BY <1>2 DEF IInv, Dated, Tables
<1>4. Tables'
  <2>1. \A w : VersionOK(w)' = VersionOK(w)
    BY <1>1 DEF VersionOK
  <2>2. \A u \in Turns : \A w \in ownVersions'[u] : VersionOK(w)'
    BY <1>2, <1>3, <2>1 DEF IInv, Dated, Tables
  <2>3. ownVersions' = [u \in Turns |-> ownVersions'[u]]
    BY <1>2 DEF IInv, Dated, Tables
  <2> QED
    BY <1>1, <2>2, <2>3, LaterOK DEF IInv, Dated, Tables
<1>5. UnseenIsLater(v)
  <2> SUFFICES ASSUME NEW g \in DOMAIN v.basis
               PROVE  /\ \A n \in EventsOf(g) \ v.seen[g] : v.basis[g] < n
                      /\ \A u \in Turns : \A n \in Own(u, g) \ v.seen[g] : v.basis[g] < n
    BY DEF UnseenIsLater
  <2>1. g \in Goals
    BY <1>2 DEF VersionOK
  <2>2. EventsSeen(t, g) = EventsOf(g) \cup Own(t, g)
    BY <2>1, SeenHasLatest DEF IInv
  <2>3. ASSUME NEW u \in Turns \ {t}, NEW n \in Own(u, g) PROVE v.basis[g] < n
    <3>1. PICK e \in own[u] : e.at = n
      BY <2>3 DEF Own
    <3>2. own[t] = {}
      BY <3>1 DEF IInv, Serialised
    <3>3. Own(t, g) = {}
      BY <3>2 DEF Own
    <3>4. PICK d \in events : d.at = v.basis[g]
      BY <1>2, <2>2, <3>3 DEF EventsOf
    <3> QED
      BY <3>1, <3>4 DEF IInv, OwnIsLater
  <2> QED
    BY <1>2, <2>2, <2>3
<1>6. Latests' /\ OwnIsLater' /\ UnseenLater'
  BY <1>1, <1>3, <1>5, SameEvents DEF IInv, Dated, UnseenLater
<1>7. Serialised'
  BY <1>1 DEF IInv, Serialised
<1> QED
  BY <1>4, <1>6, <1>7 DEF IInv, Dated

(* What a turn leaves when it ends. *)
LEMMA EndedShape ==
  ASSUME Tables, Serialised, NEW t \in Turns, Ended(t)
  PROVE  /\ began' = [u \in Turns |-> began'[u]] /\ own' = [u \in Turns |-> own'[u]]
         /\ ownLinks' = [u \in Turns |-> ownLinks'[u]]
         /\ ownVersions' = [u \in Turns |-> ownVersions'[u]]
         /\ \A u \in Turns : /\ began'[u] = IF u = t THEN 0 ELSE began[u]
                             /\ own'[u] = IF u = t THEN {} ELSE own[u]
                             /\ ownLinks'[u] = IF u = t THEN {} ELSE ownLinks[u]
                             /\ ownVersions'[u] = IF u = t THEN {} ELSE ownVersions[u]
         /\ \A u \in Turns, g \in Goals : Own(u, g)' = IF u = t THEN {} ELSE Own(u, g)
         /\ Serialised'
<1>1. /\ began' = [began EXCEPT ![t] = 0] /\ own' = [own EXCEPT ![t] = {}]
      /\ ownLinks' = [ownLinks EXCEPT ![t] = {}]
      /\ ownVersions' = [ownVersions EXCEPT ![t] = {}]
      /\ projectLock' = IF projectLock = t THEN None ELSE projectLock
  BY DEF Ended
<1>2. \A u \in Turns : /\ began'[u] = IF u = t THEN 0 ELSE began[u]
                       /\ own'[u] = IF u = t THEN {} ELSE own[u]
                       /\ ownLinks'[u] = IF u = t THEN {} ELSE ownLinks[u]
                       /\ ownVersions'[u] = IF u = t THEN {} ELSE ownVersions[u]
  BY <1>1 DEF Tables
<1>3. /\ began' = [u \in Turns |-> began'[u]] /\ own' = [u \in Turns |-> own'[u]]
      /\ ownLinks' = [u \in Turns |-> ownLinks'[u]]
      /\ ownVersions' = [u \in Turns |-> ownVersions'[u]]
  BY <1>1 DEF Tables
<1>4. \A u \in Turns, g \in Goals : Own(u, g)' = IF u = t THEN {} ELSE Own(u, g)
  BY <1>2 DEF Own
<1>5. Serialised'
  BY <1>1, <1>2 DEF Serialised
<1> QED
  BY <1>2, <1>3, <1>4, <1>5

(* A commit makes the latest changes of all visible, and its versions know *)
(* them.                                                                   *)
LEMMA CommitKeeps ==
  ASSUME IInv, NEW t \in Turns, Commit(t)
  PROVE  IInv'
<1>1. /\ clock \in Nat /\ clock' = clock + 1
      /\ events' = events \cup own[t] /\ links' = links \cup ownLinks[t]
      /\ versions' = versions \cup {[v EXCEPT !.committed = clock + 1] : v \in ownVersions[t]}
      /\ Ended(t)
  BY DEF IInv, Dated, Tables, Commit
<1>2. /\ began' = [u \in Turns |-> began'[u]] /\ own' = [u \in Turns |-> own'[u]]
      /\ ownLinks' = [u \in Turns |-> ownLinks'[u]]
      /\ ownVersions' = [u \in Turns |-> ownVersions'[u]]
      /\ \A u \in Turns : /\ began'[u] = IF u = t THEN 0 ELSE began[u]
                          /\ own'[u] = IF u = t THEN {} ELSE own[u]
                          /\ ownLinks'[u] = IF u = t THEN {} ELSE ownLinks[u]
                          /\ ownVersions'[u] = IF u = t THEN {} ELSE ownVersions[u]
      /\ \A u \in Turns, g \in Goals : Own(u, g)' = IF u = t THEN {} ELSE Own(u, g)
      /\ Serialised'
  BY <1>1, EndedShape DEF IInv, Dated
<1>3. \A g : EventsOf(g)' = EventsOf(g) \cup Own(t, g)
  BY <1>1 DEF EventsOf, Own
<1>4. ASSUME NEW v \in ownVersions[t], NEW w, w = [v EXCEPT !.committed = clock + 1]
      PROVE  VersionOK(w)' /\ CommittedOK(w)' /\ w.basis = v.basis /\ w.seen = v.seen
  <2>1. VersionOK(v)
    BY DEF IInv, Dated, Tables
  <2>2. /\ DOMAIN w = {"at", "basis", "content", "committed", "seen"}
        /\ w.at = v.at /\ w.basis = v.basis /\ w.seen = v.seen /\ w.committed = clock + 1
    BY <1>4, <2>1 DEF VersionOK
  <2> QED
    BY <1>1, <2>1, <2>2 DEF VersionOK, CommittedOK
<1>5. \A v \in versions' : \/ v \in versions
                           \/ \E u \in ownVersions[t] : v = [u EXCEPT !.committed = clock + 1]
  BY <1>1
<1>6. Tables'
  <2>1. \A v \in versions' : VersionOK(v)' /\ CommittedOK(v)'
    BY <1>1, <1>4, <1>5, LaterOK DEF IInv, Dated, Tables
  <2>2. \A u \in Turns : began'[u] \in 0 .. clock'
    BY <1>1, <1>2 DEF IInv, Dated, Tables
  <2>3. \A e \in events' : EventOK(e)'
    BY <1>1, LaterOK DEF IInv, Dated, Tables
  <2>4. \A l \in links' : LinkOK(l)'
    BY <1>1, LaterOK DEF IInv, Dated, Tables
  <2>5. \A u \in Turns : \A e \in own'[u] : EventOK(e)'
    BY <1>1, <1>2, LaterOK DEF IInv, Dated, Tables
  <2>6. \A u \in Turns : \A l \in ownLinks'[u] : LinkOK(l)'
    BY <1>1, <1>2, LaterOK DEF IInv, Dated, Tables
  <2>7. \A u \in Turns : \A v \in ownVersions'[u] : VersionOK(v)'
    BY <1>1, <1>2, LaterOK DEF IInv, Dated, Tables
  <2> QED
    BY <1>1, <1>2, <2>1, <2>2, <2>3, <2>4, <2>5, <2>6, <2>7 DEF Tables
<1>7. Latests'
  <2>1. ASSUME NEW g \in Goals PROVE HasLatest(EventsOf(g)')
    BY <1>3, SeenHasLatest DEF IInv
  <2> QED
    BY <1>2, <2>1 DEF IInv, Dated, Latests, HasLatest
<1>8. OwnIsLater'
  BY <1>1, <1>2 DEF IInv, OwnIsLater, Serialised
<1>9. ASSUME NEW v, DOMAIN v.basis \subseteq Goals, UnseenIsLater(v) PROVE UnseenIsLater(v)'
  BY <1>2, <1>3, <1>9 DEF UnseenIsLater
<1>10. UnseenLater'
  <2>1. \A v \in versions' : UnseenIsLater(v)'
    <3>1. ASSUME NEW v \in versions PROVE UnseenIsLater(v)'
      BY <1>9 DEF IInv, Dated, Tables, VersionOK, UnseenLater
    <3>2. ASSUME NEW v \in ownVersions[t], NEW w, w.basis = v.basis, w.seen = v.seen
          PROVE  UnseenIsLater(w)'
      <4>1. UnseenIsLater(w) /\ DOMAIN w.basis \subseteq Goals
        BY <3>2 DEF IInv, Dated, Tables, VersionOK, UnseenLater, UnseenIsLater
      <4> QED
        BY <1>9, <4>1
    <3> QED
      BY <1>4, <1>5, <3>1, <3>2
  <2>2. \A u \in Turns : \A v \in ownVersions'[u] : UnseenIsLater(v)'
    BY <1>2, <1>9 DEF IInv, Dated, Tables, VersionOK, UnseenLater
  <2> QED
    BY <2>1, <2>2 DEF UnseenLater
<1> QED
  BY <1>2, <1>6, <1>7, <1>8, <1>10 DEF IInv, Dated

(* A turn that is rolled back takes its changes with it. *)
LEMMA AbortKeeps ==
  ASSUME IInv, NEW t \in Turns, Abort(t)
  PROVE  IInv'
<1>1. UNCHANGED <<clock, events, links, versions>> /\ Ended(t) /\ clock \in Nat
  BY DEF IInv, Dated, Tables, Abort
<1>2. /\ began' = [u \in Turns |-> began'[u]] /\ own' = [u \in Turns |-> own'[u]]
      /\ ownLinks' = [u \in Turns |-> ownLinks'[u]]
      /\ ownVersions' = [u \in Turns |-> ownVersions'[u]]
      /\ \A u \in Turns : /\ began'[u] = IF u = t THEN 0 ELSE began[u]
                          /\ own'[u] = IF u = t THEN {} ELSE own[u]
                          /\ ownLinks'[u] = IF u = t THEN {} ELSE ownLinks[u]
                          /\ ownVersions'[u] = IF u = t THEN {} ELSE ownVersions[u]
      /\ \A u \in Turns, g \in Goals : Own(u, g)' = IF u = t THEN {} ELSE Own(u, g)
      /\ Serialised'
  BY <1>1, EndedShape DEF IInv, Dated
<1>3. \A g : EventsOf(g)' = EventsOf(g)
  BY <1>1 DEF EventsOf
<1>4. Tables'
  <2>1. \A u \in Turns : began'[u] \in 0 .. clock'
    BY <1>1, <1>2 DEF IInv, Dated, Tables
  <2>2. \A u \in Turns : \A e \in own'[u] : EventOK(e)'
    BY <1>1, <1>2, LaterOK DEF IInv, Dated, Tables
  <2>3. \A u \in Turns : \A l \in ownLinks'[u] : LinkOK(l)'
    BY <1>1, <1>2, LaterOK DEF IInv, Dated, Tables
  <2>4. \A u \in Turns : \A v \in ownVersions'[u] : VersionOK(v)'
    BY <1>1, <1>2, LaterOK DEF IInv, Dated, Tables
  <2> QED
    BY <1>1, <1>2, <2>1, <2>2, <2>3, <2>4, LaterOK DEF IInv, Dated, Tables
<1>5. Latests'
  BY <1>2, <1>3 DEF IInv, Dated, Latests, HasLatest
<1>6. OwnIsLater'
  BY <1>1, <1>2 DEF IInv, OwnIsLater
<1>7. ASSUME NEW v, DOMAIN v.basis \subseteq Goals, UnseenIsLater(v) PROVE UnseenIsLater(v)'
  BY <1>2, <1>3, <1>7 DEF UnseenIsLater
<1>8. UnseenLater'
  BY <1>1, <1>2, <1>7 DEF IInv, Dated, Tables, VersionOK, UnseenLater
<1> QED
  BY <1>2, <1>4, <1>5, <1>6, <1>8 DEF IInv, Dated

(* Every step. *)
LEMMA IInvStep == HasProject /\ IInv /\ [Next]_vars => IInv'
<1> SUFFICES ASSUME HasProject, IInv, [Next]_vars PROVE IInv'
  OBVIOUS
<1>1. CASE UNCHANGED vars
  <2>1. UNCHANGED <<clock, began, events, own, links, ownLinks, versions, ownVersions, projectLock>>
    BY <1>1 DEF vars, locks
  <2>2. Tables'
    BY <2>1, LaterOK DEF IInv, Dated, Tables
  <2> QED
    BY <2>1, <2>2, SameEvents DEF IInv, Dated, Serialised, UnseenLater
<1>2. CASE Next
  BY <1>2, BeginKeeps, ChangeKeeps, LinkKeeps, CreateKeeps, CommitKeeps, AbortKeeps DEF Next
<1> QED
  BY <1>1, <1>2

(* The start. *)
LEMMA IInvInit == Init => IInv
BY DatedInit DEF Init, IInv, Serialised, OwnIsLater, UnseenLater

-----------------------------------------------------------------------------
(* With a Project in the database (assess_plan_staleness): a version is    *)
(* stale for a Goal of its basis exactly when a change was committed that  *)
(* it was not built on, in whatever order turns begin, change and commit.  *)
THEOREM StalenessIsExact == ASSUME HasProject PROVE Spec => []StaleExactly
<1>1. IInv => StaleExactly
  <2> SUFFICES ASSUME IInv, NEW v \in versions, NEW g \in DOMAIN v.basis
               PROVE  g \in ChangedBasis(v) <=> EventsOf(g) \ v.seen[g] # {}
    BY DEF StaleExactly
  <2>1. VersionOK(v) /\ UnseenIsLater(v)
    BY DEF IInv, Dated, Tables, UnseenLater
  <2>2. EventsOf(g) \subseteq 0 .. clock /\ clock \in Nat
    BY DEF IInv, Dated, Tables, EventsOf, EventOK
  <2>3. g \in ChangedBasis(v) <=> \E n \in EventsOf(g) : n > v.basis[g]
    BY DEF ChangedBasis
  <2>4. \A n \in EventsOf(g) : n > v.basis[g] <=> n \notin v.seen[g]
    BY <2>1, <2>2 DEF VersionOK, UnseenIsLater
  <2> QED
    BY <2>3, <2>4
<1> QED
  BY <1>1, IInvInit, IInvStep, PTL DEF Spec

(* get_staleness_details: a Goal linked or changed after the commit of a    *)
(* version is reported, whatever the version knew of it.                   *)
THEOREM LateGoalsAreReported == ASSUME HasProject PROVE Spec => []LateGoalsReported
<1>1. IInv => LateGoalsReported
  <2> SUFFICES ASSUME IInv, NEW v \in versions, NEW l \in links,
                      \/ l.at > v.committed /\ l.goal \notin DOMAIN v.basis
                      \/ \E n \in EventsOf(l.goal) : n > v.committed
               PROVE  l.goal \in Changed(v)
    BY DEF LateGoalsReported
  <2>1. VersionOK(v) /\ CommittedOK(v) /\ LinkOK(l) /\ clock \in Nat
    BY DEF IInv, Dated, Tables
  <2>2. EventsOf(l.goal) \subseteq 0 .. clock
    BY DEF IInv, Dated, Tables, EventsOf, EventOK
  <2>3. CASE l.goal \in DOMAIN v.basis
    <3>1. \E n \in EventsOf(l.goal) : n > v.basis[l.goal]
      BY <2>1, <2>2, <2>3 DEF VersionOK, CommittedOK
    <3> QED
      BY <2>3, <3>1 DEF Changed, ChangedBasis
  <2>4. CASE l.goal \notin DOMAIN v.basis
    <3>1. l.at > v.at \/ \E n \in EventsOf(l.goal) : n > v.at
      BY <2>1, <2>2 DEF VersionOK, CommittedOK, LinkOK
    <3> QED
      BY <2>4, <3>1 DEF Changed, ChangedLinks
  <2> QED
    BY <2>3, <2>4
<1> QED
  BY <1>1, IInvInit, IInvStep, PTL DEF Spec

-----------------------------------------------------------------------------
(***************************************************************************)
(* The check of the dependencies, and the next action.                     *)
(***************************************************************************)

(* A set of numbers has a least one.                                       *)
LEMMA Least ==
  ASSUME NEW T, T \subseteq Nat, T # {}
  PROVE  \E x \in T : \A y \in T : x <= y
<1> DEFINE R == {ss \in Nat \X Nat : ss[1] < ss[2]}
<1>1. IsWellFoundedOn(R, Nat)
  BY NatLessThanWellFounded DEF OpToRel
<1> HIDE DEF R
<1>2. PICK x \in T : \A y \in T : <<y, x>> \notin R
  BY <1>1, WFMin
<1>3. ASSUME NEW y \in T PROVE x <= y
  <2>1. PICK p : p = <<y, x>>
    OBVIOUS
  <2>2. p \in Nat \X Nat /\ p[1] = y /\ p[2] = x
    BY <2>1
  <2>3. ~(y < x)
    BY <1>2, <2>1, <2>2 DEF R
  <2> QED
    BY <2>3
<1> QED
  BY <1>3

(* Induction, over a set of numbers up to N.                               *)
LEMMA UpTo ==
  ASSUME NEW N \in Nat, NEW T, 0 \in T, \A n \in Nat : n < N /\ n \in T => n + 1 \in T
  PROVE  0 .. N \subseteq T
<1>1. SUFFICES ASSUME (0 .. N) \ T # {} PROVE FALSE
  OBVIOUS
<1>2. PICK x \in (0 .. N) \ T : \A y \in (0 .. N) \ T : x <= y
  <2>1. PICK D : D = (0 .. N) \ T
    OBVIOUS
  <2>2. D \subseteq Nat /\ D # {}
    BY <1>1, <2>1
  <2>3. \E x \in D : \A y \in D : x <= y
    BY <2>2, Least
  <2> QED
    BY <2>1, <2>3
<1>3. x # 0 /\ x - 1 \in Nat /\ x - 1 < N
  BY <1>2
<1>4. x - 1 \in T
  BY <1>2, <1>3
<1> QED
  BY <1>2, <1>3, <1>4

(* The items of a version are finitely many.                               *)
LEMMA ItemsFinite ==
  ASSUME NEW content \in Contents
  PROVE  /\ IsFiniteSet(ItemsOf(content))
         /\ Cardinality(ItemsOf(content)) \in Nat
<1>1. content.order \in Seq(ItemsOf(content))
  BY QueriesAssumption
<1>2. PICK N \in Nat : DOMAIN content.order = 1 .. N
  BY <1>1
<1>3. IsFiniteSet(1 .. N)
  BY FS_Interval
<1>4. ItemsOf(content) = {content.order[i] : i \in 1 .. N}
  BY <1>2 DEF ItemsOf
<1>5. PICK f : f = [i \in 1 .. N |-> content.order[i]]
  OBVIOUS
<1>6. f \in Surjection(1 .. N, ItemsOf(content))
  BY <1>4, <1>5 DEF Surjection
<1>7. IsFiniteSet(ItemsOf(content))
  BY <1>3, <1>6, FS_Surjection
<1> QED
  BY <1>7, FS_CardinalityType

(* The rounds of the check are well defined: one after the other.          *)
LEMMA Rounds ==
  ASSUME NEW content \in Contents, NEW N, N = Cardinality(ItemsOf(content))
  PROVE  /\ Visited(content)[0] = {}
         /\ \A n \in Nat : n < N =>
                Visited(content)[n + 1] = Settled(content, Visited(content)[n])
<1>0. N \in Nat
  BY ItemsFinite
<1> DEFINE Round(f, n) == IF n = 0 THEN {} ELSE Settled(content, f[n - 1])
           T == {k \in Nat : \E f : f = [n \in 0 .. k |-> Round(f, n)]}
<1>1. 0 \in T
  <2>1. PICK f : f = [n \in 0 .. 0 |-> {}]
    OBVIOUS
  <2>2. f = [n \in 0 .. 0 |-> Round(f, n)]
    BY <2>1
  <2> QED
    BY <2>2
<1>2. ASSUME NEW k \in Nat, k \in T PROVE k + 1 \in T
  <2>1. PICK f : f = [n \in 0 .. k |-> Round(f, n)]
    BY <1>2
  <2>2. PICK h : h = [n \in 0 .. k + 1 |-> IF n = k + 1 THEN Settled(content, f[k]) ELSE f[n]]
    OBVIOUS
  <2>3. ASSUME NEW n \in 0 .. k + 1 PROVE h[n] = Round(h, n)
    <3>1. CASE n = 0
      BY <2>1, <2>2, <3>1
    <3>2. CASE n # 0 /\ n <= k
      <4>1. n \in 0 .. k /\ n - 1 \in 0 .. k /\ n # k + 1 /\ n - 1 # k + 1 /\ n - 1 \in 0 .. k + 1
        BY <3>2
      <4>2. h[n] = f[n] /\ h[n - 1] = f[n - 1]
        BY <2>2, <4>1
      <4>3. f[n] = Settled(content, f[n - 1])
        BY <2>1, <3>2, <4>1
      <4> QED
        BY <3>2, <4>2, <4>3
    <3>3. CASE n = k + 1
      <4>1. n # 0 /\ n - 1 = k /\ k \in 0 .. k + 1 /\ k # k + 1
        BY <3>3
      <4> QED
        BY <2>2, <3>3, <4>1
    <3> QED
      BY <3>1, <3>2, <3>3
  <2>4. h = [n \in 0 .. k + 1 |-> Round(h, n)]
    BY <2>2, <2>3
  <2> QED
    BY <2>4
<1>3. N \in T
  <2> HIDE DEF T
  <2> QED
    BY <1>0, <1>1, <1>2, UpTo
<1>4. PICK f : f = [n \in 0 .. N |-> Round(f, n)]
  BY <1>3
<1>5. Visited(content) = [n \in 0 .. N |-> Round(Visited(content), n)]
  BY <1>4 DEF Visited
<1>6. Visited(content)[0] = {}
  BY <1>0, <1>5
<1>7. ASSUME NEW n \in Nat, n < N
      PROVE  Visited(content)[n + 1] = Settled(content, Visited(content)[n])
  <2>1. n + 1 \in 0 .. N /\ n + 1 # 0 /\ (n + 1) - 1 = n
    BY <1>0, <1>7
  <2> QED
    BY <1>5, <2>1
<1> QED
  BY <1>6, <1>7

(* A round takes items, and more than the round before.                    *)
LEMMA RoundsGrow ==
  ASSUME NEW content \in Contents, NEW N, N = Cardinality(ItemsOf(content))
  PROVE  \A n \in 0 .. N :
           /\ Visited(content)[n] \subseteq ItemsOf(content)
           /\ n < N => Visited(content)[n] \subseteq Visited(content)[n + 1]
<1>0. N \in Nat
  BY ItemsFinite
<1>1. /\ Visited(content)[0] = {}
      /\ \A n \in Nat : n < N =>
             Visited(content)[n + 1] = Settled(content, Visited(content)[n])
  BY Rounds
<1> DEFINE T == {n \in Nat : /\ Visited(content)[n] \subseteq ItemsOf(content)
                             /\ n < N => Visited(content)[n] \subseteq Visited(content)[n + 1]}
<1>2. 0 \in T
  BY <1>1
<1>3. ASSUME NEW n \in Nat, n < N, n \in T PROVE n + 1 \in T
  <2>1. Visited(content)[n + 1] = Settled(content, Visited(content)[n])
    BY <1>1, <1>3
  <2>2. n + 1 < N => Visited(content)[(n + 1) + 1] = Settled(content, Visited(content)[n + 1])
    BY <1>1
  <2>3. Visited(content)[n] \subseteq Visited(content)[n + 1]
    BY <1>3
  <2>4. Visited(content)[n + 1] \subseteq ItemsOf(content)
    BY <2>1 DEF Settled
  <2>5. Settled(content, Visited(content)[n]) \subseteq Settled(content, Visited(content)[n + 1])
    BY <2>3 DEF Settled
  <2> QED
    BY <2>1, <2>2, <2>4, <2>5
<1>4. 0 .. N \subseteq T
  <2> HIDE DEF T
  <2> QED
    BY <1>0, <1>2, <1>3, UpTo
<1> QED
  BY <1>4

(* What each waits for one of is never taken: what is accepted is acyclic. *)
LEMMA AcceptedIsAcyclic ==
  ASSUME NEW content \in Contents, Accepted(content)
  PROVE  ~Circular(content)
<1>1. SUFFICES ASSUME NEW C \in (SUBSET ItemsOf(content)) \ {{}},
                      \A i \in C : Prerequisites(content, i) \cap C # {}
               PROVE  FALSE
  BY DEF Circular
<1>2. PICK N : N = Cardinality(ItemsOf(content))
  OBVIOUS
<1>3. /\ N \in Nat
      /\ Visited(content)[0] = {}
      /\ \A n \in Nat : n < N =>
             Visited(content)[n + 1] = Settled(content, Visited(content)[n])
  BY <1>2, ItemsFinite, Rounds
<1> DEFINE T == {n \in Nat : Visited(content)[n] \cap C = {}}
<1>4. 0 \in T
  BY <1>3
<1>5. ASSUME NEW n \in Nat, n < N, n \in T PROVE n + 1 \in T
  BY <1>1, <1>3, <1>5 DEF Settled
<1>6. 0 .. N \subseteq T
  <2> HIDE DEF T
  <2> QED
    BY <1>3, <1>4, <1>5, UpTo
<1>7. Visited(content)[N] \cap C = {}
  BY <1>3, <1>6
<1> QED
  BY <1>1, <1>2, <1>7 DEF Accepted

(* As long as items are left and they are not circular, a round takes one. *)
LEMMA AcyclicIsAccepted ==
  ASSUME NEW content \in Contents, ~Circular(content)
  PROVE  Accepted(content)
<1>1. PICK I, N : I = ItemsOf(content) /\ N = Cardinality(I)
  OBVIOUS
<1>2. IsFiniteSet(I) /\ N \in Nat
  BY <1>1, ItemsFinite
<1>3. PICK V : V = Visited(content)
  OBVIOUS
<1>4. /\ V[0] = {}
      /\ \A n \in Nat : n < N => V[n + 1] = Settled(content, V[n])
      /\ \A n \in 0 .. N : V[n] \subseteq I /\ (n < N => V[n] \subseteq V[n + 1])
  BY <1>1, <1>3, Rounds, RoundsGrow
<1>5. ASSUME NEW n \in Nat, n < N, V[n] # I PROVE V[n] # V[n + 1]
  <2>1. PICK C : C = I \ V[n]
    OBVIOUS
  <2>2. C \in (SUBSET I) \ {{}}
    BY <1>2, <1>4, <1>5, <2>1, SMTT(30)
  <2>3. PICK i \in C : Prerequisites(content, i) \cap C = {}
    BY <1>1, <2>2 DEF Circular
  <2>4. Prerequisites(content, i) \subseteq I
    BY <1>1, QueriesAssumption DEF Prerequisites
  <2>5. Prerequisites(content, i) \subseteq V[n]
    BY <2>1, <2>3, <2>4
  <2>6. i \in V[n + 1]
    BY <1>1, <1>4, <1>5, <2>1, <2>5 DEF Settled
  <2> QED
    BY <2>1, <2>6
<1> DEFINE T == {n \in Nat : V[n] = I \/ Cardinality(V[n]) >= n}
<1>6. 0 \in T
  BY <1>4, FS_EmptySet
<1>7. ASSUME NEW n \in Nat, n < N, n \in T PROVE n + 1 \in T
  <2>1. V[n] \subseteq V[n + 1] /\ V[n + 1] \subseteq I /\ V[n] \subseteq I
    BY <1>2, <1>4, <1>7
  <2>2. CASE V[n] = I
    BY <2>1, <2>2
  <2>3. CASE V[n] # I
    <3>1. V[n] # V[n + 1] /\ Cardinality(V[n]) >= n
      BY <1>5, <1>7, <2>3
    <3>2. IsFiniteSet(V[n + 1]) /\ Cardinality(V[n + 1]) \in Nat
      BY <1>2, <2>1, FS_Subset, FS_CardinalityType
    <3>3. /\ Cardinality(V[n]) <= Cardinality(V[n + 1])
          /\ Cardinality(V[n]) # Cardinality(V[n + 1])
          /\ Cardinality(V[n]) \in Nat
      BY <2>1, <3>1, <3>2, FS_Subset, FS_CardinalityType
    <3>4. Cardinality(V[n + 1]) >= n + 1
      BY <3>1, <3>2, <3>3
    <3> QED
      BY <3>4
  <2> QED
    BY <2>2, <2>3
<1>8. 0 .. N \subseteq T
  <2> HIDE DEF T
  <2> QED
    BY <1>2, <1>6, <1>7, UpTo
<1>9. V[N] = I
  <2>1. V[N] = I \/ Cardinality(V[N]) >= N
    BY <1>2, <1>8
  <2>2. V[N] \subseteq I
    BY <1>2, <1>4
  <2>3. Cardinality(V[N]) \in Nat /\ Cardinality(V[N]) <= N
    BY <1>1, <1>2, <2>2, FS_Subset, FS_CardinalityType
  <2>4. Cardinality(V[N]) = Cardinality(I) => V[N] = I
    BY <1>2, <2>2, FS_Subset
  <2> QED
    BY <1>1, <1>2, <2>1, <2>3, <2>4
<1> QED
  BY <1>1, <1>3, <1>9 DEF Accepted

(* The first item of a set is one of it, when there is one.                *)
LEMMA FirstIsOne ==
  ASSUME NEW content \in Contents, NEW S, S \subseteq ItemsOf(content)
  PROVE  /\ S = {} => First(content, S) = None
         /\ S # {} => First(content, S) \in S
<1>1. content.order \in Seq(ItemsOf(content))
  BY QueriesAssumption
<1>2. PICK N \in Nat : DOMAIN content.order = 1 .. N
  BY <1>1
<1>3. ASSUME S # {} PROVE First(content, S) \in S
  <2> DEFINE Is(i) == /\ content.order[i] \in S
                      /\ \A j \in 1 .. i - 1 : content.order[j] \notin S
  <2>1. PICK D : D = {i \in DOMAIN content.order : content.order[i] \in S}
    OBVIOUS
  <2>2. D \subseteq Nat /\ D # {}
    BY <1>2, <1>3, <2>1 DEF ItemsOf
  <2>3. PICK i \in D : \A j \in D : i <= j
    BY <2>2, Least
  <2>4. \A j \in 1 .. i - 1 : content.order[j] \notin S
    BY <1>2, <2>1, <2>3
  <2>5. \E n \in DOMAIN content.order : Is(n)
    BY <2>1, <2>3, <2>4
  <2>6. PICK k : k = CHOOSE n \in DOMAIN content.order : Is(n)
    OBVIOUS
  <2>7. content.order[k] \in S
    BY <2>5, <2>6
  <2> QED
    BY <1>3, <2>6, <2>7 DEF First
<1> QED
  BY <1>3 DEF First

(* Whatever the progress: what is proposed can be done now, and nothing is *)
(* proposed only if something is set aside.                                *)
LEMMA NextActionIsSound ==
  ASSUME NEW content \in Contents, ~Circular(content),
         NEW progress \in [ItemsOf(content) -> Progress], NEW i, i = NextAction(content, progress)
  PROVE  IF i = None
         THEN (\E j \in ItemsOf(content) : progress[j] # "DONE")
                  => \E j \in ItemsOf(content) : progress[j] \in SetAside
         ELSE \/ progress[i] = "IN_PROGRESS"
              \/ /\ progress[i] = "NOT_STARTED"
                 /\ \A j \in Prerequisites(content, i) : progress[j] = "DONE"
                 /\ \A j \in ItemsOf(content) : progress[j] # "IN_PROGRESS"
<1> DEFINE with(status) == {j \in ItemsOf(content) : progress[j] = status}
           ready == {j \in with("NOT_STARTED") :
                         Prerequisites(content, j) \subseteq with("DONE")}
<1>1. None \notin ItemsOf(content)
  BY QueriesAssumption
<1>2. i = First(content, IF with("IN_PROGRESS") # {} THEN with("IN_PROGRESS") ELSE ready)
  BY DEF NextAction
<1>3. CASE with("IN_PROGRESS") # {}
  <2>1. First(content, with("IN_PROGRESS")) \in with("IN_PROGRESS")
    BY <1>3, FirstIsOne
  <2> QED
    BY <1>1, <1>2, <1>3, <2>1
<1>4. CASE with("IN_PROGRESS") = {} /\ ready # {}
  <2>1. First(content, ready) \in ready
    BY <1>4, FirstIsOne
  <2> QED
    BY <1>1, <1>2, <1>4, <2>1
<1>5. CASE with("IN_PROGRESS") = {} /\ ready = {}
  <2>1. i = None
    BY <1>2, <1>5, FirstIsOne
  <2>2. ASSUME NEW j \in ItemsOf(content), progress[j] # "DONE",
               \A k \in ItemsOf(content) : progress[k] \notin SetAside
        PROVE  FALSE
    <3>1. \A k \in ItemsOf(content) : progress[k] \in {"NOT_STARTED", "DONE"}
      BY <1>5, <2>2 DEF SetAside, Progress
    <3>2. PICK C : C = with("NOT_STARTED")
      OBVIOUS
    <3>3. C \in (SUBSET ItemsOf(content)) \ {{}}
      BY <2>2, <3>1, <3>2
    <3>4. PICK k \in C : Prerequisites(content, k) \cap C = {}
      BY <3>3 DEF Circular
    <3>5. Prerequisites(content, k) \subseteq ItemsOf(content)
      BY QueriesAssumption DEF Prerequisites
    <3>6. Prerequisites(content, k) \subseteq with("DONE")
      BY <3>1, <3>2, <3>4, <3>5
    <3> QED
      BY <1>5, <3>2, <3>4, <3>6
  <2> QED
    BY <2>1, <2>2
<1> QED
  BY <1>3, <1>4, <1>5

(* Versions, committed or not, passed the check when they were created.    *)
Checked(v) ==
    /\ DOMAIN v = {"at", "basis", "content", "committed", "seen"}
    /\ v.content \in Contents /\ Accepted(v.content)

AllChecked ==
    /\ ownVersions = [t \in Turns |-> ownVersions[t]]
    /\ \A v \in versions : Checked(v)
    /\ \A t \in Turns : \A v \in ownVersions[t] : Checked(v)

(* A version is created by a command that is checked, and never changed.   *)
LEMMA AllCheckedStep == AllChecked /\ [Next]_vars => AllChecked'
<1> SUFFICES ASSUME AllChecked, [Next]_vars PROVE AllChecked'
  OBVIOUS
<1>1. CASE UNCHANGED <<versions, ownVersions>>
  BY <1>1 DEF AllChecked
<1>2. ASSUME NEW t \in Turns, NEW content \in Contents, NEW stated \in Stated,
             CreateCandidate(t, content, stated)
      PROVE  AllChecked'
  <2>1. PICK basis, seen, v :
            /\ v = [at |-> began[t], basis |-> basis, content |-> content, committed |-> 0,
                    seen |-> seen]
            /\ ownVersions' = [ownVersions EXCEPT ![t] = @ \cup {v}]
    BY <1>2 DEF CreateCandidate
  <2>2. Checked(v)
    BY <1>2, <2>1 DEF CreateCandidate, Checked
  <2>3. \A u \in Turns : \A w \in ownVersions'[u] : w \in ownVersions[u] \/ w = v
    BY <2>1 DEF AllChecked
  <2>4. ownVersions' = [u \in Turns |-> ownVersions'[u]]
    BY <2>1 DEF AllChecked
  <2> QED
    BY <1>2, <2>2, <2>3, <2>4 DEF AllChecked, CreateCandidate
<1>3. ASSUME NEW t \in Turns, Commit(t) \/ Abort(t) PROVE AllChecked'
  <2>1. \A u \in Turns : ownVersions'[u] \subseteq ownVersions[u]
    BY <1>3 DEF Commit, Abort, Ended, AllChecked
  <2>2. ownVersions' = [u \in Turns |-> ownVersions'[u]]
    BY <1>3 DEF Commit, Abort, Ended, AllChecked
  <2>3. ASSUME NEW v \in ownVersions[t], NEW w, w = [v EXCEPT !.committed = clock + 1]
        PROVE  Checked(w)
    <3>1. Checked(v)
      BY DEF AllChecked
    <3>2. DOMAIN w = DOMAIN v /\ w.content = v.content
      BY <2>3, <3>1 DEF Checked
    <3> QED
      BY <3>1, <3>2 DEF Checked
  <2>4. \A w \in versions' : w \in versions \/ \E v \in ownVersions[t] :
                                                  w = [v EXCEPT !.committed = clock + 1]
    BY <1>3 DEF Commit, Abort
  <2> QED
    BY <2>1, <2>2, <2>3, <2>4 DEF AllChecked
<1> QED
  BY <1>1, <1>2, <1>3 DEF Next, BeginTurn, ChangeGoal, LinkGoal, vars

(* Hence all versions are acyclic.                                         *)
LEMMA AlwaysChecked == Spec => []AllChecked
<1>1. Init => AllChecked
  BY DEF Init, AllChecked
<1> QED
  BY <1>1, AllCheckedStep, PTL DEF Spec

(* _assert_acyclic, for any number of items and dependencies: what it lets *)
(* pass is acyclic, and it refuses only what has a cycle.                  *)
THEOREM DependenciesAreChecked == Spec => []DependenciesChecked
<1>1. AllChecked => DependenciesChecked
  BY AcceptedIsAcyclic, AcyclicIsAccepted DEF AllChecked, Checked, DependenciesChecked
<1> QED
  BY <1>1, AlwaysChecked, PTL

(* get_next_action, for every version and every progress of its items: an  *)
(* item it proposes can be done now, and when it proposes none the plan is *)
(* done or something is set aside; a plan is never stuck on itself.        *)
THEOREM NextActionIsRight == Spec => []NextActionSound
<1>1. AllChecked => NextActionSound
  BY AcceptedIsAcyclic, NextActionIsSound DEF AllChecked, Checked, NextActionSound
<1> QED
  BY <1>1, AlwaysChecked, PTL
=============================================================================
