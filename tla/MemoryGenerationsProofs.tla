----------------------- MODULE MemoryGenerationsProofs -----------------------
(***************************************************************************)
(* Safety of the generations of the semantic memory, for any number of     *)
(* maintainers, generations, messages and failures.  That the pointer is   *)
(* sound and that only retired banks are deleted is not inductive: it      *)
(* rests on what a command knows of its own generation between two         *)
(* transactions (CommandOK), which an expired lease weakens (the row may   *)
(* be FAILED, or gone) but never turns into the active generation's.       *)
(* That a switch forgets nothing rests on what a rebuild has copied below  *)
(* its offset (CInv), and that it loses nothing a reader could find on the *)
(* registry lock between its last page and the switch (SInv).              *)
(***************************************************************************)
EXTENDS MemoryGenerations, FiniteSetTheorems, TLAPS

Rebuilding == {"create", "replay", "retain", "lock", "switching", "catchUp", "verified", "failing"}

CommandOK(r) ==
    /\ pc[r] \in Rebuilding =>
          gen[r] \in Generations \ {active} /\ status[gen[r]] \in {"BUILDING", "FAILED", "DELETED"}
    /\ pc[r] \in {"replay", "retain", "lock"} /\ status[gen[r]] = "BUILDING" => gen[r] \in banks
    /\ pc[r] \in {"switching", "catchUp", "verified"} =>
          registryLock = r /\ gen[r] \in banks /\ status[gen[r]] # "DELETED"
    /\ pc[r] = "cleanup" => gen[r] \in Generations
    /\ pc[r] \in {"delete", "deleteRow"} =>
          /\ registryLock = r
          /\ gen[r] \in Generations \ {active}
          /\ status[gen[r]] \in {"FAILED", "SUPERSEDED"}

(* No two rebuilds have the same generation. *)
OwnGenerations ==
    \A r, q \in Maintainers :
        r # q /\ pc[r] \in Rebuilding /\ pc[q] \in Rebuilding => gen[r] # gen[q]

(* No command starts before the pointer is set. *)
BootstrappedFirst == active = 0 => 1 \in banks /\ \A r \in Maintainers : pc[r] = "idle"

WorkerOK ==
    /\ wpc # "idle" => msg \in Messages
    /\ wpc = "retaining" => registryLock = Ingestion

IInv ==
    /\ TypeOK
    /\ PointerSound
    /\ WorkerOK
    /\ BootstrappedFirst
    /\ OwnGenerations
    /\ \A r \in Maintainers : CommandOK(r)

(* A step of r that moves no row and no pointer and deletes no bank. *)
Quiet(r) ==
    /\ UNCHANGED <<status, active, worker>>
    /\ banks \subseteq banks'
    /\ registryLock' = registryLock \/ registryLock \in {NoOwner, r}
    /\ \A q \in Maintainers \ {r} : pc'[q] = pc[q] /\ gen'[q] = gen[q]
    /\ pc'[r] \in Rebuilding => pc[r] \in Rebuilding /\ gen'[r] = gen[r]

MaintainerStep(r) ==
    RecoverInterrupted(r) \/ ListCandidate(r) \/ Proceed(r) \/ RebuildFails(r) \/ Crash(r)

-----------------------------------------------------------------------------
(* The initial state satisfies the invariant. *)
LEMMA InvInit == Init => IInv
BY GenerationsAssumption DEF Init, IInv, TypeOK, PointerSound, WorkerOK, BootstrappedFirst,
    OwnGenerations, CommandOK, Rebuilding, RowStatuses, Steps

(* Counting the archive gives a number. *)
LEMMA OffsetType ==
    ASSUME TypeOK, NEW n \in Nat
    PROVE  Beyond(n) \in Nat
<1>1. IsFiniteSet(stored)
    BY FS_Subset, GenerationsAssumption DEF TypeOK
<1>. QED  BY <1>1, FS_CardinalityType, GenerationsAssumption DEF Beyond

(* A command that is over: the types of what it leaves. *)
LEMMA QuitType ==
    ASSUME TypeOK, NEW r \in Maintainers, Quit(r)
    PROVE  /\ pc' \in [Maintainers -> Steps]
           /\ gen' \in [Maintainers -> Generations \cup {0}]
           /\ offset' \in [Maintainers -> Nat]
           /\ page' \in [Maintainers -> SUBSET Messages]
BY DEF TypeOK, Quit, Goto, Steps

LEMMA GotoType ==
    ASSUME TypeOK, NEW r \in Maintainers, NEW step \in Steps, Goto(r, step)
    PROVE  pc' \in [Maintainers -> Steps]
BY DEF TypeOK, Goto

LEMMA CloseType ==
    ASSUME TypeOK, NEW r \in Maintainers, Close(r)
    PROVE  /\ registryLock' \in Maintainers \cup {Ingestion, NoOwner}
           /\ rowLock' \subseteq Generations
BY DEF TypeOK, Close

(* The ingestion worker, the clock and the application keep the types. *)
LEMMA OthersType ==
    ASSUME IInv,
           Bootstrap \/ IngestionStep \/ WorkerFails
             \/ (\E m \in Messages : Store(m)) \/ (\E g \in Generations : LeaseExpires(g))
    PROVE  TypeOK'
<1>. USE GenerationsAssumption DEF IInv
<1>1. CASE Bootstrap
    BY <1>1 DEF TypeOK, Bootstrap, RowStatuses, backend, maintainer, worker
<1>2. ASSUME NEW m \in Messages, Store(m) PROVE TypeOK'
    BY <1>2 DEF TypeOK, Store, journal, backend, maintainer, worker
<1>3. ASSUME NEW g \in Generations, LeaseExpires(g) PROVE TypeOK'
    BY <1>3 DEF TypeOK, LeaseExpires, backend, maintainer, worker
<1>4. ASSUME NEW m \in Messages, BeginRetain(m) PROVE TypeOK'
    BY <1>4 DEF TypeOK, BeginRetain, journal, backend, maintainer
<1>5. CASE Confirm
    <2>1. bank' \in [Generations -> SUBSET Messages]
        BY <1>5 DEF TypeOK, Confirm, WorkerOK
    <2>. QED  BY <1>5, <2>1 DEF TypeOK, Confirm, journal, maintainer
<1>6. CASE RecordReceipt
    BY <1>6 DEF TypeOK, RecordReceipt, WorkerOK, journal, backend, maintainer
<1>7. CASE WorkerFails
    <2>1. bank' \in [Generations -> SUBSET Messages]
        BY <1>7 DEF TypeOK, WorkerFails, WorkerOK
    <2>2. failures' \in 0 .. MaxFailures
        BY <1>7 DEF TypeOK, WorkerFails
    <2>. QED  BY <1>7, <2>1, <2>2 DEF TypeOK, WorkerFails, journal, maintainer
<1>. QED  BY <1>1, <1>2, <1>3, <1>4, <1>5, <1>6, <1>7 DEF IngestionStep

(* So does each step of a maintainer. *)
LEMMA MaintainerType ==
    ASSUME IInv, NEW r \in Maintainers, MaintainerStep(r)
    PROVE  TypeOK'
<1>. USE GenerationsAssumption
<1>0. TypeOK /\ CommandOK(r)
    BY DEF IInv
<1>1. CASE RecoverInterrupted(r)
    BY <1>0, <1>1 DEF TypeOK, RecoverInterrupted, Goto, RowStatuses, Steps, backend, worker
<1>2. CASE StartRebuild(r)
    BY <1>0, <1>2 DEF TypeOK, StartRebuild, Goto, RowStatuses, Steps, backend, worker
<1>3. CASE RebuildRefused(r)
    BY <1>0, <1>3, QuitType DEF TypeOK, RebuildRefused, journal, backend, worker
<1>4. CASE CreateClean(r)
    BY <1>0, <1>4 DEF TypeOK, CreateClean, CommandOK, Rebuilding, Goto, Steps, journal, worker
<1>5. CASE ReadPage(r)
    <2>1. offset' \in [Maintainers -> Nat]
        BY <1>0, <1>5, OffsetType DEF TypeOK, ReadPage
    <2>2. page' \in [Maintainers -> SUBSET Messages]
        BY <1>0, <1>5 DEF TypeOK, ReadPage, Page
    <2>3. pc' \in [Maintainers -> Steps]
        BY <1>0, <1>5 DEF TypeOK, ReadPage, Goto, Steps
    <2>. QED  BY <1>0, <1>5, <2>1, <2>2, <2>3 DEF TypeOK, ReadPage, journal, backend, worker
<1>6. CASE RetainNext(r)
    <2>1. PICK m \in page[r] :
                /\ bank' = [bank EXCEPT ![gen[r]] = @ \cup {m}]
                /\ page' = [page EXCEPT ![r] = @ \ {m}]
        BY <1>6 DEF RetainNext
    <2>2. m \in Messages
        BY <1>0, <2>1 DEF TypeOK
    <2>3. bank' \in [Generations -> SUBSET Messages]
        BY <1>0, <2>1, <2>2 DEF TypeOK
    <2>4. page' \in [Maintainers -> SUBSET Messages]
        BY <1>0, <2>1 DEF TypeOK
    <2>. QED  BY <1>0, <1>6, <2>3, <2>4 DEF TypeOK, RetainNext, journal, worker
<1>7. CASE RetainRefused(r)
    BY <1>0, <1>7, CloseType DEF TypeOK, RetainRefused, Goto, Steps, journal, backend, worker
<1>8. CASE RecordProgress(r)
    <2>1. pc' \in [Maintainers -> Steps]
        BY <1>0, <1>8, GotoType DEF RecordProgress, Steps
    <2>2. replayed' \in [Generations -> Nat]
        BY <1>0, <1>8 DEF TypeOK, RecordProgress
    <2>3. overdue' \subseteq Generations
        BY <1>0, <1>8 DEF TypeOK, RecordProgress
    <2>. QED  BY <1>0, <1>8, <2>1, <2>2, <2>3 DEF TypeOK, RecordProgress, backend, worker
<1>9. CASE LockRegistry(r)
    <2>1. gen[r] \in Generations
        BY <1>0, <1>9 DEF LockRegistry, CommandOK, Rebuilding
    <2>. QED  BY <1>0, <1>9, <2>1 DEF TypeOK, LockRegistry, Goto, Steps, journal, backend, worker
<1>10. CASE Flush(r)
    <2>1. gen[r] \in Generations
        BY <1>0, <1>10 DEF Flush, CommandOK, Rebuilding
    <2>2. pc' \in [Maintainers -> Steps]
        BY <1>0, <1>10, GotoType DEF Flush, Steps
    <2>3. /\ registryLock' \in Maintainers \cup {Ingestion, NoOwner}
          /\ rowLock' \subseteq Generations
        BY <1>0, <1>10, <2>1, CloseType, ZenonT(60) DEF TypeOK, Flush
    <2>. QED  BY <1>0, <1>10, <2>2, <2>3 DEF TypeOK, Flush, journal, backend, worker
<1>11. CASE Switch(r)
    <2>1. gen[r] \in Generations
        BY <1>0, <1>11 DEF Switch, CommandOK, Rebuilding
    <2>2. status' \in [Generations -> RowStatuses]
        BY <1>0, <1>11 DEF TypeOK, Switch, Superseded, RowStatuses
    <2>3. replayed' \in [Generations -> Nat]
        BY <1>0, <1>11 DEF TypeOK, Switch
    <2>4. Quit(r) /\ Close(r)
        BY <1>11 DEF Switch
    <2>5. /\ overdue' \subseteq Generations
          /\ active' \in Generations
          /\ UNCHANGED <<stored, receipted, backend, worker, failures>>
        BY <1>0, <1>11, <2>1 DEF TypeOK, Switch
    <2>. QED  BY <1>0, <2>2, <2>3, <2>4, <2>5, QuitType, CloseType DEF TypeOK, backend, worker
<1>12. CASE MarkFailed(r)
    BY <1>0, <1>12, QuitType DEF TypeOK, MarkFailed, RowStatuses, backend, worker
<1>13. CASE RebuildFails(r)
    <2>1. failures' \in 0 .. MaxFailures
        BY <1>0, <1>13 DEF TypeOK, RebuildFails
    <2>. QED  BY <1>0, <1>13, <2>1, CloseType
              DEF TypeOK, RebuildFails, Goto, Steps, journal, backend, worker
<1>14. CASE ListCandidate(r)
    BY <1>0, <1>14 DEF TypeOK, ListCandidate, Goto, Steps, journal, backend, worker
<1>15. CASE LockForCleanup(r)
    <2>1. gen[r] \in Generations
        BY <1>0, <1>15 DEF LockForCleanup, CommandOK
    <2>2. CASE Retired(gen[r])
        <3>1. pc' \in [Maintainers -> Steps]
            BY <1>0, <1>15, <2>2, GotoType DEF LockForCleanup, Steps
        <3>. QED  BY <1>0, <1>15, <2>1, <2>2, <3>1
                  DEF TypeOK, LockForCleanup, journal, backend, worker
    <2>3. CASE ~Retired(gen[r])
        BY <1>0, <1>15, <2>3, QuitType DEF TypeOK, LockForCleanup, journal, backend, worker
    <2>. QED  BY <2>2, <2>3
<1>16. CASE DeleteBank(r)
    BY <1>0, <1>16 DEF TypeOK, DeleteBank, Goto, Steps, journal, worker
<1>17. CASE DeleteRow(r)
    BY <1>0, <1>17, QuitType, CloseType DEF TypeOK, DeleteRow, RowStatuses, backend, worker
<1>18. CASE Crash(r)
    <2>1. failures' \in 0 .. MaxFailures
        BY <1>0, <1>18 DEF TypeOK, Crash
    <2>. QED  BY <1>0, <1>18, <2>1, QuitType, CloseType DEF TypeOK, Crash, journal, backend, worker
<1>. QED  BY <1>1, <1>2, <1>3, <1>4, <1>5, <1>6, <1>7, <1>8, <1>9, <1>10, <1>11, <1>12, <1>13,
             <1>14, <1>15, <1>16, <1>17, <1>18 DEF MaintainerStep, Proceed

(* Every step keeps the types. *)
LEMMA TypeStep == IInv /\ [Next]_vars => TypeOK'
<1>. SUFFICES ASSUME IInv, [Next]_vars PROVE TypeOK'
    OBVIOUS
<1>1. CASE UNCHANGED vars
    BY <1>1 DEF IInv, TypeOK, vars, journal, backend, maintainer, worker
<1>. QED  BY <1>1, OthersType, MaintainerType DEF Next, MaintainerStep

-----------------------------------------------------------------------------
(* A running command runs after the pointer was set. *)
LEMMA ActiveSet ==
    ASSUME IInv, NEW r \in Maintainers, MaintainerStep(r)
    PROVE  active \in Generations /\ active # 0
<1>1. active # 0
    <2>1. CASE RecoverInterrupted(r) \/ ListCandidate(r)
        BY <2>1 DEF RecoverInterrupted, ListCandidate
    <2>2. CASE Proceed(r) \/ RebuildFails(r) \/ Crash(r)
        <3>1. pc[r] # "idle"
            BY <2>2 DEF Proceed, StartRebuild, RebuildRefused, CreateClean, ReadPage, RetainNext,
                RetainRefused, RecordProgress, LockRegistry, Flush, Switch, MarkFailed,
                LockForCleanup, DeleteBank, DeleteRow, RebuildFails, Crash
        <3>. QED  BY <3>1 DEF IInv, BootstrappedFirst
    <2>. QED  BY <2>1, <2>2 DEF MaintainerStep
<1>. QED  BY <1>1 DEF IInv, TypeOK

(* Most steps are quiet, and leave the command in order. *)
LEMMA QuietSteps ==
    ASSUME IInv, NEW r \in Maintainers,
           \/ RebuildRefused(r) \/ CreateClean(r) \/ ReadPage(r) \/ RetainNext(r)
           \/ RetainRefused(r) \/ RecordProgress(r) \/ LockRegistry(r) \/ Flush(r)
           \/ RebuildFails(r) \/ ListCandidate(r) \/ LockForCleanup(r) \/ Crash(r)
    PROVE  Quiet(r) /\ CommandOK(r)'
<1>. USE GenerationsAssumption DEF Quiet, CommandOK, Rebuilding, Goto
<1>0. TypeOK /\ CommandOK(r)
    BY DEF IInv
<1>1. CASE RebuildRefused(r)
    BY <1>0, <1>1 DEF TypeOK, RebuildRefused, Quit, journal, backend, worker
<1>2. CASE CreateClean(r)
    BY <1>0, <1>2 DEF TypeOK, CreateClean, journal, worker
<1>3. CASE ReadPage(r)
    BY <1>0, <1>3 DEF TypeOK, ReadPage, journal, backend, worker
<1>4. CASE RetainNext(r)
    BY <1>0, <1>4 DEF TypeOK, RetainNext, journal, worker
<1>5. CASE RetainRefused(r)
    BY <1>0, <1>5 DEF TypeOK, RetainRefused, Close, journal, backend, worker
<1>6. CASE RecordProgress(r)
    BY <1>0, <1>6 DEF TypeOK, RecordProgress, backend, worker
<1>7. CASE LockRegistry(r)
    BY <1>0, <1>7 DEF TypeOK, LockRegistry, journal, backend, worker
<1>8. CASE Flush(r)
    BY <1>0, <1>8 DEF TypeOK, Flush, Close, journal, backend, worker
<1>9. CASE RebuildFails(r)
    BY <1>0, <1>9 DEF TypeOK, RebuildFails, Close, journal, backend, worker
<1>10. CASE ListCandidate(r)
    BY <1>0, <1>10 DEF TypeOK, ListCandidate, journal, backend, worker
<1>11. CASE LockForCleanup(r)
    BY <1>0, <1>11 DEF TypeOK, LockForCleanup, Retired, Quit, journal, backend, worker
<1>12. CASE Crash(r)
    BY <1>0, <1>12 DEF TypeOK, Crash, Close, Quit, journal, backend, worker
<1>. QED  BY <1>1, <1>2, <1>3, <1>4, <1>5, <1>6, <1>7, <1>8, <1>9, <1>10, <1>11, <1>12

(* The invariant without the types. *)
Sound ==
    /\ PointerSound
    /\ WorkerOK
    /\ BootstrappedFirst
    /\ OwnGenerations
    /\ \A r \in Maintainers : CommandOK(r)

LEMMA QuietKeeps ==
    ASSUME IInv, TypeOK', NEW r \in Maintainers, active # 0, Quiet(r), CommandOK(r)'
    PROVE  Sound'
<1>. USE GenerationsAssumption
<1>1. ASSUME NEW q \in Maintainers PROVE CommandOK(q)'
    <2>1. CASE q = r
        BY <2>1
    <2>2. CASE q # r
        BY <2>2 DEF IInv, Quiet, CommandOK
    <2>. QED  BY <2>1, <2>2
<1>2. PointerSound'
    BY DEF IInv, PointerSound, Quiet
<1>3. WorkerOK'
    BY DEF IInv, WorkerOK, Quiet, worker
<1>4. BootstrappedFirst'
    BY DEF BootstrappedFirst, Quiet
<1>5. OwnGenerations'
    BY DEF IInv, OwnGenerations, Quiet
<1>. QED  BY <1>1, <1>2, <1>3, <1>4, <1>5 DEF Sound

(* Others keep their step and generation, and so do rebuilds theirs. *)
LEMMA RecoverKeeps ==
    ASSUME IInv, TypeOK', NEW r \in Maintainers, active # 0, RecoverInterrupted(r)
    PROVE  Sound'
<1>. USE GenerationsAssumption DEF IInv, RecoverInterrupted, Building, Goto
<1>1. ASSUME NEW q \in Maintainers PROVE CommandOK(q)'
    BY DEF TypeOK, CommandOK, Rebuilding, backend
<1>2. PointerSound'
    BY DEF TypeOK, PointerSound, backend
<1>3. WorkerOK' /\ BootstrappedFirst'
    BY DEF WorkerOK, BootstrappedFirst, worker
<1>4. OwnGenerations'
    BY DEF TypeOK, OwnGenerations, Rebuilding
<1>. QED  BY <1>1, <1>2, <1>3, <1>4 DEF Sound

(* A new rebuild gets a generation that has no row, hence nobody's. *)
LEMMA StartKeeps ==
    ASSUME IInv, TypeOK', NEW r \in Maintainers, active # 0, StartRebuild(r)
    PROVE  Sound'
<1>. USE GenerationsAssumption DEF IInv
<1>1. PICK g \in Generations :
          /\ status[g] = "NONE"
          /\ status' = [status EXCEPT ![g] = "BUILDING"]
          /\ gen' = [gen EXCEPT ![r] = g]
    BY DEF StartRebuild
<1>2. /\ pc' = [pc EXCEPT ![r] = "create"]
      /\ UNCHANGED <<active, banks, registryLock, wpc, msg>>
    BY DEF StartRebuild, Goto, backend, worker
<1>3. g # active
    BY <1>1 DEF PointerSound
<1>4. ASSUME NEW q \in Maintainers PROVE CommandOK(q)'
    <2>1. CASE q = r
        BY <1>1, <1>2, <1>3, <2>1 DEF TypeOK, CommandOK, Rebuilding
    <2>2. CASE q # r
        BY <1>1, <1>2, <2>2 DEF TypeOK, CommandOK, Rebuilding
    <2>. QED  BY <2>1, <2>2
<1>5. PointerSound'
    BY <1>1, <1>2, <1>3 DEF TypeOK, PointerSound
<1>6. WorkerOK' /\ BootstrappedFirst'
    BY <1>2 DEF WorkerOK, BootstrappedFirst
<1>7. OwnGenerations'
    BY <1>1, <1>2 DEF TypeOK, OwnGenerations, CommandOK, Rebuilding
<1>. QED  BY <1>4, <1>5, <1>6, <1>7 DEF Sound

(* The switch supersedes the one active row there was; the new pointer is no *)
(* other command's generation, and its lock kept the bank from a cleanup.    *)
LEMMA SwitchKeeps ==
    ASSUME IInv, TypeOK', NEW r \in Maintainers, active # 0, Switch(r)
    PROVE  Sound'
<1>. USE GenerationsAssumption DEF IInv
<1>1. /\ gen[r] \in Generations \ {active} /\ gen[r] \in banks /\ registryLock = r
      /\ pc[r] = "verified"
    BY DEF Switch, CommandOK, Rebuilding
<1>2. status' = [g \in Generations |-> IF g = gen[r] THEN "ACTIVE" ELSE Superseded(g)]
    BY DEF Switch
<1>3. /\ active' = gen[r]
      /\ registryLock' = NoOwner
      /\ pc' = [pc EXCEPT ![r] = "idle"]
      /\ gen' = [gen EXCEPT ![r] = 0]
      /\ UNCHANGED <<banks, wpc, msg>>
    BY <1>1 DEF Switch, Close, Quit, Goto, backend, worker
<1>4. ASSUME NEW q \in Maintainers PROVE CommandOK(q)'
    <2>1. CASE q = r
        BY <1>3, <2>1 DEF TypeOK, CommandOK, Rebuilding
    <2>2. CASE q # r
        <3>1. pc'[q] = pc[q] /\ gen'[q] = gen[q] /\ registryLock # q
            BY <1>1, <1>3, <2>2 DEF TypeOK
        <3>2. pc[q] \notin {"switching", "catchUp", "verified", "delete", "deleteRow"}
            BY <3>1 DEF CommandOK
        <3>3. pc[q] \in Rebuilding => gen[q] # gen[r]
            BY <1>1, <2>2 DEF OwnGenerations, Rebuilding
        <3>4. pc[q] \in Rebuilding => status'[gen[q]] = status[gen[q]]
            BY <1>2, <3>3 DEF CommandOK, Superseded
        <3>. QED  BY <1>3, <3>1, <3>2, <3>3, <3>4 DEF CommandOK, Rebuilding
    <2>. QED  BY <2>1, <2>2
<1>5. PointerSound'
    BY <1>1, <1>2, <1>3 DEF TypeOK, PointerSound, Superseded
<1>6. WorkerOK'
    BY <1>1, <1>3 DEF WorkerOK
<1>7. BootstrappedFirst'
    BY <1>1, <1>3 DEF BootstrappedFirst
<1>8. OwnGenerations'
    BY <1>3 DEF TypeOK, OwnGenerations, Rebuilding
<1>. QED  BY <1>4, <1>5, <1>6, <1>7, <1>8 DEF Sound

LEMMA MarkFailedKeeps ==
    ASSUME IInv, TypeOK', NEW r \in Maintainers, active # 0, MarkFailed(r)
    PROVE  Sound'
<1>. USE GenerationsAssumption DEF IInv
<1>1. gen[r] \in Generations \ {active}
    BY DEF MarkFailed, CommandOK, Rebuilding
<1>2. /\ \/ status' = status
         \/ status[gen[r]] = "BUILDING" /\ status' = [status EXCEPT ![gen[r]] = "FAILED"]
      /\ pc' = [pc EXCEPT ![r] = "idle"]
      /\ gen' = [gen EXCEPT ![r] = 0]
      /\ UNCHANGED <<active, banks, registryLock, wpc, msg>>
    BY DEF MarkFailed, Quit, Goto, backend, worker
<1>3. ASSUME NEW q \in Maintainers PROVE CommandOK(q)'
    <2>1. CASE q = r
        BY <1>2, <2>1 DEF TypeOK, CommandOK, Rebuilding
    <2>2. CASE q # r
        BY <1>1, <1>2, <2>2, ZenonT(60) DEF TypeOK, CommandOK, Rebuilding
    <2>. QED  BY <2>1, <2>2
<1>4. PointerSound'
    <2>1. CASE status' = status
        BY <1>2, <2>1 DEF PointerSound
    <2>2. CASE status' = [status EXCEPT ![gen[r]] = "FAILED"]
        BY <1>1, <1>2, <2>2 DEF TypeOK, PointerSound
    <2>. QED  BY <1>2, <2>1, <2>2
<1>5. WorkerOK' /\ BootstrappedFirst'
    BY <1>2 DEF WorkerOK, BootstrappedFirst
<1>6. OwnGenerations'
    BY <1>2 DEF TypeOK, OwnGenerations, Rebuilding
<1>. QED  BY <1>3, <1>4, <1>5, <1>6 DEF Sound

(* The registry lock keeps every switch away from a bank that is deleted. *)
LEMMA DeletionKeeps ==
    ASSUME IInv, TypeOK', NEW r \in Maintainers, active # 0, DeleteBank(r) \/ DeleteRow(r)
    PROVE  Sound'
<1>. USE GenerationsAssumption DEF IInv
<1>1. /\ gen[r] \in Generations \ {active} /\ registryLock = r
      /\ status[gen[r]] \in {"FAILED", "SUPERSEDED"}
    BY DEF DeleteBank, DeleteRow, CommandOK
<1>2. ASSUME NEW q \in Maintainers, q # r
      PROVE  /\ pc'[q] = pc[q] /\ gen'[q] = gen[q]
             /\ pc[q] \notin {"switching", "catchUp", "verified", "delete", "deleteRow"}
    BY <1>1, <1>2 DEF TypeOK, CommandOK, DeleteBank, DeleteRow, Quit, Goto
<1>3. CASE DeleteBank(r)
    <2>1. /\ UNCHANGED <<status, active, registryLock, gen, wpc, msg>>
          /\ banks' = banks \ {gen[r]}
          /\ pc' = [pc EXCEPT ![r] = "deleteRow"]
        BY <1>3 DEF DeleteBank, Goto, journal, worker
    <2>2. ASSUME NEW q \in Maintainers PROVE CommandOK(q)'
        <3>1. CASE q = r
            BY <1>1, <2>1, <3>1 DEF TypeOK, CommandOK, Rebuilding
        <3>2. CASE q # r
            BY <1>1, <1>2, <2>1, <3>2 DEF CommandOK, Rebuilding
        <3>. QED  BY <3>1, <3>2
    <2>3. PointerSound'
        BY <1>1, <2>1 DEF PointerSound
    <2>4. WorkerOK' /\ BootstrappedFirst'
        BY <2>1 DEF WorkerOK, BootstrappedFirst
    <2>5. OwnGenerations'
        BY <2>1 DEF TypeOK, OwnGenerations, Rebuilding
    <2>. QED  BY <2>2, <2>3, <2>4, <2>5 DEF Sound
<1>4. CASE DeleteRow(r)
    <2>1. /\ UNCHANGED <<active, banks, wpc, msg>>
          /\ status' = [status EXCEPT ![gen[r]] = "DELETED"]
          /\ registryLock' = NoOwner
          /\ pc' = [pc EXCEPT ![r] = "idle"]
          /\ gen' = [gen EXCEPT ![r] = 0]
        BY <1>1, <1>4 DEF DeleteRow, Close, Quit, Goto, backend, worker
    <2>2. ASSUME NEW q \in Maintainers PROVE CommandOK(q)'
        <3>1. CASE q = r
            BY <2>1, <3>1 DEF TypeOK, CommandOK, Rebuilding
        <3>2. CASE q # r
            BY <1>1, <1>2, <2>1, <3>2 DEF TypeOK, CommandOK, Rebuilding
        <3>. QED  BY <3>1, <3>2
    <2>3. PointerSound'
        BY <1>1, <2>1 DEF TypeOK, PointerSound
    <2>4. WorkerOK' /\ BootstrappedFirst'
        BY <1>1, <2>1 DEF WorkerOK, BootstrappedFirst
    <2>5. OwnGenerations'
        BY <2>1 DEF TypeOK, OwnGenerations, Rebuilding
    <2>. QED  BY <2>2, <2>3, <2>4, <2>5 DEF Sound
<1>. QED  BY <1>3, <1>4

(* Steps of everybody else leave the commands alone; the worker gives back *)
(* only the lock it took itself.                                           *)
LEMMA OthersKeep ==
    ASSUME IInv, TypeOK',
           Bootstrap \/ IngestionStep \/ WorkerFails
             \/ (\E m \in Messages : Store(m)) \/ (\E g \in Generations : LeaseExpires(g))
    PROVE  Sound'
<1>. USE GenerationsAssumption DEF IInv
<1>1. CASE Bootstrap
    BY <1>1 DEF TypeOK, Bootstrap, Sound, PointerSound, WorkerOK, BootstrappedFirst, OwnGenerations,
        CommandOK, Rebuilding, backend, maintainer, worker
<1>2. CASE ~Bootstrap
    <2>1. UNCHANGED <<status, active, banks, pc, gen>>
        BY <1>2 DEF IngestionStep, BeginRetain, Confirm, RecordReceipt, WorkerFails, Store,
            LeaseExpires, journal, backend, maintainer
    <2>2. WorkerOK' /\ (registryLock \in Maintainers => registryLock' = registryLock)
        <3>1. ASSUME NEW m \in Messages, Store(m) PROVE UNCHANGED <<registryLock, wpc, msg>>
            BY <3>1 DEF Store, worker
        <3>2. ASSUME NEW g \in Generations, LeaseExpires(g)
              PROVE  UNCHANGED <<registryLock, wpc, msg>>
            BY <3>2 DEF LeaseExpires, worker
        <3>3. CASE IngestionStep
            BY <3>3 DEF IngestionStep, BeginRetain, Confirm, RecordReceipt, WorkerOK
        <3>4. CASE WorkerFails
            BY <3>4 DEF TypeOK, WorkerFails, WorkerOK
        <3>. QED  BY <1>2, <3>1, <3>2, <3>3, <3>4 DEF WorkerOK
    <2>3. ASSUME NEW q \in Maintainers PROVE CommandOK(q)'
        BY <2>1, <2>2 DEF CommandOK, Rebuilding
    <2>. QED  BY <2>1, <2>2, <2>3 DEF Sound, PointerSound, BootstrappedFirst, OwnGenerations, Rebuilding
<1>. QED  BY <1>1, <1>2

-----------------------------------------------------------------------------
(* Every step keeps the invariant. *)
LEMMA InvStep == IInv /\ [Next]_vars => IInv'
<1>. SUFFICES ASSUME IInv, [Next]_vars PROVE Sound'
    BY TypeStep DEF IInv, Sound
<1>0. TypeOK'
    BY TypeStep
<1>1. CASE UNCHANGED vars
    BY <1>1 DEF IInv, Sound, PointerSound, WorkerOK, BootstrappedFirst, OwnGenerations, CommandOK,
        vars, journal, backend, maintainer, worker
<1>2. ASSUME NEW r \in Maintainers, MaintainerStep(r) PROVE Sound'
    <2>1. active # 0
        BY <1>2, ActiveSet
    <2>2. CASE RecoverInterrupted(r)
        BY <1>0, <2>1, <2>2, RecoverKeeps
    <2>3. CASE StartRebuild(r)
        BY <1>0, <2>1, <2>3, StartKeeps
    <2>4. CASE Switch(r)
        BY <1>0, <2>1, <2>4, SwitchKeeps
    <2>5. CASE MarkFailed(r)
        BY <1>0, <2>1, <2>5, MarkFailedKeeps
    <2>6. CASE DeleteBank(r) \/ DeleteRow(r)
        BY <1>0, <2>1, <2>6, DeletionKeeps
    <2>7. CASE \/ RebuildRefused(r) \/ CreateClean(r) \/ ReadPage(r) \/ RetainNext(r)
               \/ RetainRefused(r) \/ RecordProgress(r) \/ LockRegistry(r) \/ Flush(r)
               \/ RebuildFails(r) \/ ListCandidate(r) \/ LockForCleanup(r) \/ Crash(r)
        BY <1>0, <2>1, <2>7, QuietSteps, QuietKeeps
    <2>. QED  BY <1>2, <2>2, <2>3, <2>4, <2>5, <2>6, <2>7 DEF MaintainerStep, Proceed
<1>. QED  BY <1>0, <1>1, <1>2, OthersKeep DEF Next, MaintainerStep

(* Every reachable state satisfies the invariant. *)
LEMMA Always == Spec => []IInv
BY InvInit, InvStep, PTL DEF Spec

(* The tables, the backend and the processes keep their types. *)
THEOREM GenerationsTypeCorrect == Spec => []TypeOK
<1>1. IInv => TypeOK
    BY DEF IInv
<1>. QED  BY <1>1, Always, PTL

(* Whatever rebuilds, recoveries and cleanups do to each other, the pointer   *)
(* names the one ACTIVE generation, and its bank exists.                      *)
THEOREM PointerIsSound == Spec => []PointerSound
<1>1. IInv => PointerSound
    BY DEF IInv
<1>. QED  BY <1>1, Always, PTL

(* Only a step of a cleanup deletes a bank, and only one of a failed or       *)
(* superseded generation.                                                     *)
THEOREM OnlyRetiredAreDeleted == Spec => DeletesRetiredOnly
<1>1. ASSUME IInv, [Next]_vars, NEW g \in banks \ banks'
      PROVE  g # active /\ status[g] \in {"FAILED", "SUPERSEDED"}
    <2>1. PICK r \in Maintainers : DeleteBank(r)
        <3>1. CASE UNCHANGED vars
            BY <1>1, <3>1 DEF vars, backend
        <3>2. CASE Bootstrap \/ IngestionStep \/ WorkerFails
                   \/ (\E m \in Messages : Store(m)) \/ (\E h \in Generations : LeaseExpires(h))
            BY <1>1, <3>2 DEF Bootstrap, IngestionStep, BeginRetain, Confirm, RecordReceipt,
                WorkerFails, Store, LeaseExpires, backend
        <3>3. ASSUME NEW r \in Maintainers, MaintainerStep(r) PROVE DeleteBank(r)
            BY <1>1, <3>3 DEF MaintainerStep, Proceed, RecoverInterrupted, StartRebuild,
                RebuildRefused, CreateClean, ReadPage, RetainNext, RetainRefused, RecordProgress,
                LockRegistry, Flush, Switch, MarkFailed, RebuildFails, ListCandidate,
                LockForCleanup, DeleteRow, Crash, backend
        <3>. QED  BY <1>1, <3>1, <3>2, <3>3 DEF Next, MaintainerStep
    <2>. QED  BY <1>1, <2>1 DEF IInv, CommandOK, DeleteBank
<1>2. IInv /\ [Next]_vars =>
        [\A g \in banks \ banks' : g # active /\ status[g] \in {"FAILED", "SUPERSEDED"}]_vars
    BY <1>1
<1>. QED  BY <1>2, Always, PTL DEF Spec, DeletesRetiredOnly

(* One rebuild at a time is journaled as running: only StartRebuild adds one, *)
(* and counts the others in the transaction that adds it.                     *)
THEOREM OneRebuildRuns == Spec => []OneRebuild
<1>1. Init => OneRebuild
    BY DEF Init, OneRebuild, Building
<1>2. IInv /\ OneRebuild /\ [Next]_vars => OneRebuild'
    <2>. SUFFICES ASSUME IInv, OneRebuild, [Next]_vars PROVE OneRebuild'
        OBVIOUS
    <2>0. TypeOK
        BY DEF IInv
    <2>1. ASSUME NEW r \in Maintainers, StartRebuild(r) PROVE OneRebuild'
        BY <2>0, <2>1 DEF TypeOK, StartRebuild, OneRebuild, NoneBuilding, Building
    <2>2. CASE ~\E r \in Maintainers : StartRebuild(r)
        <3>1. Building' \subseteq Building
            <4>1. CASE UNCHANGED vars
                BY <4>1 DEF vars, journal, Building
            <4>2. CASE Bootstrap
                BY <2>0, <4>2 DEF TypeOK, Bootstrap, Building
            <4>3. CASE IngestionStep \/ WorkerFails \/ (\E m \in Messages : Store(m))
                       \/ (\E h \in Generations : LeaseExpires(h))
                BY <4>3 DEF IngestionStep, BeginRetain, Confirm, RecordReceipt, WorkerFails, Store,
                    LeaseExpires, journal, Building
            <4>4. ASSUME NEW r \in Maintainers,
                         RecoverInterrupted(r) \/ MarkFailed(r) \/ DeleteRow(r) \/ Switch(r)
                  PROVE  Building' \subseteq Building
                BY <2>0, <4>4 DEF TypeOK, RecoverInterrupted, MarkFailed, DeleteRow, Switch,
                    Superseded, Building
            <4>5. ASSUME NEW r \in Maintainers,
                         \/ RebuildRefused(r) \/ CreateClean(r) \/ ReadPage(r) \/ RetainNext(r)
                         \/ RetainRefused(r) \/ RecordProgress(r) \/ LockRegistry(r) \/ Flush(r)
                         \/ RebuildFails(r) \/ ListCandidate(r) \/ LockForCleanup(r) \/ Crash(r)
                         \/ DeleteBank(r)
                  PROVE  Building' \subseteq Building
                BY <4>5 DEF RebuildRefused, CreateClean, ReadPage, RetainNext, RetainRefused,
                    RecordProgress, LockRegistry, Flush, RebuildFails, ListCandidate,
                    LockForCleanup, Crash, DeleteBank, journal, Building
            <4>. QED  BY <2>2, <4>1, <4>2, <4>3, <4>4, <4>5 DEF Next, Proceed
        <3>. QED  BY <3>1 DEF OneRebuild
    <2>. QED  BY <2>1, <2>2
<1>. QED  BY <1>1, <1>2, Always, PTL DEF Spec

-----------------------------------------------------------------------------
(***************************************************************************)
(* Nothing that was remembered is forgotten, while the archive is committed*)
(* in the order of created_at (InOrder).                                   *)
(***************************************************************************)

(* What of the archive up to offset n, without the page P, is in the bank  *)
(* of generation g.                                                        *)
Kept(g, n, P) ==
    /\ n <= Cardinality(stored)
    /\ \A m \in stored : Rank(m) < n /\ m \notin P => m \in bank[g]

(* Receipts, and the message that is about to have one.                    *)
Remembered == receipted \cup {m \in {msg} : wpc = "confirmed"}

(* As long as the row of a rebuild is BUILDING, or it holds the registry   *)
(* lock, nobody deletes its bank.                                          *)
BankSafe(r) ==
    \/ pc[r] \in {"replay", "retain", "lock"} /\ status[gen[r]] = "BUILDING"
    \/ pc[r] \in {"switching", "catchUp", "verified"}

(* What a rebuild has copied.                                              *)
Copied(r) ==
    /\ pc[r] \in Steps \ {"retain", "catchUp", "failing"} => page[r] = {}
    /\ pc[r] \in Steps \ (Rebuilding \ {"create"}) => offset[r] = 0
    /\ BankSafe(r) => Kept(gen[r], offset[r], page[r])
    /\ pc[r] = "verified" => Remembered \subseteq bank[gen[r]]

(* Offsets leave out no message: the ranks of the archive have no gap.     *)
Archive ==
    /\ \A n \in Nat : n < Cardinality(stored) => \E m \in stored : Rank(m) = n
    /\ receipted \subseteq stored
    /\ wpc # "idle" => msg \in stored

Journaled ==
    \A g \in Generations :
        /\ status[g] = "NONE" => replayed[g] = 0
        /\ status[g] = "BUILDING" => Kept(g, replayed[g], {})

Receipts ==
    /\ active = 0 => receipted = {} /\ wpc = "idle"
    /\ active # 0 => Remembered \subseteq bank[active]

CInv ==
    /\ Archive /\ Journaled /\ Receipts
    /\ \A r \in Maintainers : Copied(r)

(* The archive is finite, and a message has as many before it as it has.   *)
LEMMA Counted ==
    ASSUME TypeOK
    PROVE  /\ Cardinality(stored) \in Nat
           /\ \A m \in stored : Rank(m) \in Nat /\ Rank(m) < Cardinality(stored)
<1>1. IsFiniteSet(stored) /\ stored \subseteq Nat
    BY FS_Subset, GenerationsAssumption DEF TypeOK
<1>2. Cardinality(stored) \in Nat
    BY <1>1, FS_CardinalityType
<1>3. ASSUME NEW m \in stored PROVE Rank(m) \in Nat /\ Rank(m) < Cardinality(stored)
    <2>1. PICK before : before = {k \in stored : k < m}
        OBVIOUS
    <2>2. before \in SUBSET stored /\ before # stored
        BY <1>1, <2>1
    <2>3. /\ IsFiniteSet(before) /\ Cardinality(before) <= Cardinality(stored)
          /\ Cardinality(stored) = Cardinality(before) => stored = before
        BY <1>1, <2>2, FS_Subset
    <2>4. Cardinality(before) \in Nat
        BY <2>3, FS_CardinalityType
    <2>. QED  BY <1>2, <2>1, <2>2, <2>3, <2>4 DEF Rank
<1>. QED  BY <1>2, <1>3

(* A message that is committed last is the last of the archive.            *)
LEMMA StoreRanks ==
    ASSUME TypeOK, InOrder, NEW m \in Messages, Store(m)
    PROVE  /\ stored' = stored \cup {m} /\ m \notin stored
           /\ Cardinality(stored)' = Cardinality(stored) + 1
           /\ \A k \in stored : Rank(k)' = Rank(k)
           /\ Rank(m)' = Cardinality(stored)
<1>1. /\ IsFiniteSet(stored) /\ stored \subseteq Nat /\ m \in Nat
      /\ stored' = stored \cup {m} /\ m \notin stored
      /\ \A k \in stored : k < m
    BY FS_Subset, GenerationsAssumption DEF TypeOK, Store
<1>2. Cardinality(stored)' = Cardinality(stored) + 1
    BY <1>1, FS_AddElement
<1>3. ASSUME NEW k \in stored PROVE Rank(k)' = Rank(k)
    <2>1. {j \in stored' : j < k} = {j \in stored : j < k}
        BY <1>1
    <2>. QED  BY <2>1 DEF Rank
<1>4. Rank(m)' = Cardinality(stored)
    <2>1. PICK before : before = {j \in stored' : j < m}
        OBVIOUS
    <2>2. before = stored
        <3>1. \A j \in stored' : j < m <=> j \in stored
            BY <1>1
        <3>2. stored \subseteq stored'
            BY <1>1
        <3>3. \A j : j \in before <=> j \in stored
            BY <2>1, <3>1, <3>2
        <3>. QED  BY <3>3
    <2>3. Rank(m)' = Cardinality(before)
        BY <2>1 DEF Rank
    <2>. QED  BY <2>2, <2>3
<1>. QED  BY <1>1, <1>2, <1>3, <1>4

(* A page and what was before it is what is before the offset after it;    *)
(* an empty page is beyond the last message.                               *)
LEMMA PageIs ==
    ASSUME TypeOK, Archive, NEW n \in Nat, n <= Cardinality(stored)
    PROVE  /\ Beyond(n) <= Cardinality(stored)
           /\ \A m \in stored : Rank(m) < Beyond(n) => Rank(m) < n \/ m \in Page(n)
           /\ Page(n) = {} => \A m \in stored : Rank(m) < n
<1>1. /\ Cardinality(stored) \in Nat /\ BatchSize \in Nat \ {0}
      /\ \A m \in stored : Rank(m) \in Nat /\ Rank(m) < Cardinality(stored)
    BY Counted, GenerationsAssumption
<1>2. Beyond(n) <= Cardinality(stored) /\ Beyond(n) <= n + BatchSize /\ Beyond(n) \in Nat
    BY <1>1 DEF Beyond
<1>3. \A m \in stored : Rank(m) < Beyond(n) => Rank(m) < n \/ m \in Page(n)
    BY <1>1, <1>2 DEF Page
<1>4. ASSUME Page(n) = {}, NEW m \in stored PROVE Rank(m) < n
    <2>1. CASE n < Cardinality(stored)
        <3>1. PICK k \in stored : Rank(k) = n
            BY <2>1 DEF Archive
        <3>2. k \in Page(n)
            BY <1>1, <3>1 DEF Page
        <3>. QED  BY <1>4, <3>2
    <2>2. CASE ~(n < Cardinality(stored))
        BY <1>1, <2>2
    <2>. QED  BY <2>1, <2>2
<1>. QED  BY <1>2, <1>3, <1>4

(* Initially nothing is stored.                                            *)
LEMMA CInvInit == Init => CInv
<1>. SUFFICES ASSUME Init PROVE CInv
    OBVIOUS
<1>1. Cardinality(stored) = 0 /\ stored = {}
    BY FS_EmptySet DEF Init
<1>2. Archive /\ Journaled /\ Receipts
    BY <1>1 DEF Init, Archive, Journaled, Receipts
<1>3. \A r \in Maintainers : Copied(r)
    BY DEF Init, Copied, BankSafe
<1>. QED  BY <1>2, <1>3 DEF CInv

(* A new message comes after whatever was read.                            *)
LEMMA StoreC ==
    ASSUME IInv, CInv, InOrder, NEW m \in Messages, Store(m)
    PROVE  CInv'
<1>1. /\ stored' = stored \cup {m} /\ m \notin stored
      /\ Cardinality(stored)' = Cardinality(stored) + 1
      /\ \A k \in stored : Rank(k)' = Rank(k)
      /\ Rank(m)' = Cardinality(stored)
    BY StoreRanks DEF IInv
<1>2. /\ Cardinality(stored) \in Nat
      /\ \A k \in stored : Rank(k) \in Nat /\ Rank(k) < Cardinality(stored)
    BY Counted DEF IInv
<1>3. UNCHANGED <<receipted, status, replayed, active, bank, pc, gen, offset, page, wpc, msg>>
    BY DEF Store, journal, backend, maintainer, worker
<1>4. \A g, P : \A n \in Nat : Kept(g, n, P) => Kept(g, n, P)'
    BY <1>1, <1>2, <1>3 DEF Kept
<1>5. Archive'
    <2>1. ASSUME NEW n \in Nat, n < Cardinality(stored)' PROVE \E k \in stored' : Rank(k)' = n
        <3>1. CASE n < Cardinality(stored)
            BY <1>1, <3>1 DEF CInv, Archive
        <3>2. CASE n = Cardinality(stored)
            BY <1>1, <3>2
        <3>. QED  BY <1>1, <1>2, <2>1, <3>1, <3>2
    <2>. QED  BY <1>1, <1>3, <2>1 DEF CInv, Archive
<1>6. Journaled'
    BY <1>3, <1>4 DEF CInv, Journaled, IInv, TypeOK
<1>7. Receipts'
    BY <1>3 DEF CInv, Receipts, Remembered
<1>8. ASSUME NEW r \in Maintainers PROVE Copied(r)'
    BY <1>3, <1>4 DEF CInv, Copied, BankSafe, Remembered, IInv, TypeOK
<1>. QED  BY <1>5, <1>6, <1>7, <1>8 DEF CInv

(* What was copied stays, when a bank grows.                               *)
LEMMA KeptStays ==
    ASSUME UNCHANGED stored, NEW g, bank[g] \subseteq bank'[g], NEW n, NEW P, Kept(g, n, P)
    PROVE  Kept(g, n, P)'
<1>1. \A m : Rank(m)' = Rank(m)
    BY DEF Rank
<1>. QED  BY <1>1 DEF Kept

(* Before the first message there is none.                                 *)
LEMMA NothingYet ==
    ASSUME TypeOK, NEW g, NEW P
    PROVE  Kept(g, 0, P)
BY Counted DEF Kept

(* A step of somebody else: r has copied what it had.                      *)
LEMMA CopiedStays ==
    ASSUME CInv, UNCHANGED stored, NEW r \in Maintainers,
           pc'[r] = pc[r], gen'[r] = gen[r], offset'[r] = offset[r], page'[r] = page[r],
           pc[r] \in Rebuilding /\ status'[gen[r]] = "BUILDING" => status[gen[r]] = "BUILDING",
           BankSafe(r) => bank[gen[r]] \subseteq bank'[gen[r]],
           pc[r] = "verified" => Remembered' \subseteq Remembered
    PROVE  Copied(r)'
<1>1. Copied(r)
    BY DEF CInv
<1>2. BankSafe(r)' => BankSafe(r)
    BY DEF BankSafe, Rebuilding
<1>3. ASSUME BankSafe(r) PROVE Kept(gen[r], offset[r], page[r])'
    <2>1. PICK g, n, P : g = gen[r] /\ n = offset[r] /\ P = page[r]
        OBVIOUS
    <2>2. Kept(g, n, P)
        BY <1>1, <1>3, <2>1 DEF Copied
    <2>3. Kept(g, n, P)'
        BY <1>3, <2>1, <2>2, KeptStays
    <2>. QED  BY <2>1, <2>3 DEF Kept
<1>4. pc[r] = "verified" => Remembered' \subseteq bank'[gen[r]]
    BY <1>1 DEF Copied, BankSafe
<1>. QED  BY <1>1, <1>2, <1>3, <1>4 DEF Copied

(* Rows that are BUILDING keep their progress, or record more.             *)
LEMMA JournaledStays ==
    ASSUME IInv, CInv, UNCHANGED stored,
           \A g \in Generations :
               /\ status'[g] = "NONE" => status[g] = "NONE" /\ replayed'[g] = replayed[g]
               /\ status'[g] = "BUILDING" =>
                    \/ status[g] = "NONE" /\ replayed'[g] = replayed[g]
                    \/ /\ status[g] = "BUILDING" /\ bank[g] \subseteq bank'[g]
                       /\ replayed'[g] = replayed[g] \/ Kept(g, replayed'[g], {})
    PROVE  Journaled'
<1>1. ASSUME NEW g \in Generations, status'[g] = "BUILDING" PROVE Kept(g, replayed[g], {})'
    <2>1. PICK n : n = replayed'[g]
        OBVIOUS
    <2>2. CASE status[g] = "NONE" /\ replayed'[g] = replayed[g]
        <3>1. n = 0
            BY <2>1, <2>2 DEF CInv, Journaled
        <3>2. \A m \in stored : ~(Rank(m) < 0)
            BY Counted DEF IInv
        <3>3. 0 <= Cardinality(stored)
            BY Counted DEF IInv
        <3>4. \A m : Rank(m)' = Rank(m)
            BY DEF Rank
        <3>. QED  BY <2>1, <3>1, <3>2, <3>3, <3>4 DEF Kept
    <2>3. CASE /\ status[g] = "BUILDING" /\ bank[g] \subseteq bank'[g]
               /\ replayed'[g] = replayed[g] \/ Kept(g, replayed'[g], {})
        <3>1. Kept(g, n, {})
            BY <2>1, <2>3 DEF CInv, Journaled
        <3>2. Kept(g, n, {})'
            BY <2>3, <3>1, KeptStays
        <3>. QED  BY <2>1, <3>2 DEF Kept
    <2>. QED  BY <1>1, <2>2, <2>3
<1>. QED  BY <1>1 DEF CInv, Journaled

(* The application and the worker: banks grow, and a retain through the    *)
(* active generation holds the registry lock.                              *)
LEMMA IngestC ==
    ASSUME IInv, CInv,
           Bootstrap \/ IngestionStep \/ WorkerFails \/ (\E g \in Generations : LeaseExpires(g))
    PROVE  CInv'
<1>. USE GenerationsAssumption
<1>1. UNCHANGED <<stored, replayed, pc, gen, offset, page>>
    BY DEF Bootstrap, IngestionStep, BeginRetain, Confirm, RecordReceipt, WorkerFails, LeaseExpires,
        journal, maintainer
<1>2. \A g \in Generations : bank[g] \subseteq bank'[g]
    <2>1. CASE Bootstrap \/ (\E m \in Messages : BeginRetain(m)) \/ RecordReceipt
               \/ (\E g \in Generations : LeaseExpires(g))
        BY <2>1 DEF Bootstrap, BeginRetain, RecordReceipt, LeaseExpires, backend
    <2>2. CASE Confirm \/ WorkerFails
        BY <2>2 DEF Confirm, WorkerFails, IInv, TypeOK
    <2>. QED  BY <2>1, <2>2 DEF IngestionStep
<1>3. /\ \A g \in Generations : status'[g] \in {"NONE", "BUILDING"} => status'[g] = status[g]
      /\ \A g \in Generations : status'[g] = "BUILDING" => status[g] = "BUILDING"
    BY DEF Bootstrap, IngestionStep, BeginRetain, Confirm, RecordReceipt, WorkerFails, LeaseExpires,
        journal, IInv, TypeOK
<1>4. Archive' /\ \A r \in Maintainers : registryLock = r => Remembered' \subseteq Remembered
    <2>1. Archive /\ WorkerOK
        BY DEF CInv, IInv
    <2>2. \A m : Rank(m)' = Rank(m)
        BY <1>1 DEF Rank
    <2>3. CASE Bootstrap \/ \E g \in Generations : LeaseExpires(g)
        BY <1>1, <2>1, <2>2, <2>3 DEF Bootstrap, LeaseExpires, worker, Archive, Remembered
    <2>4. CASE \E m \in Messages : BeginRetain(m)
        BY <1>1, <2>1, <2>2, <2>4 DEF BeginRetain, Archive, Remembered
    <2>5. CASE Confirm
        BY <1>1, <2>1, <2>2, <2>5 DEF Confirm, Archive, WorkerOK
    <2>6. CASE RecordReceipt \/ WorkerFails
        BY <1>1, <2>1, <2>2, <2>6 DEF RecordReceipt, WorkerFails, Archive, Remembered
    <2>. QED  BY <2>3, <2>4, <2>5, <2>6 DEF IngestionStep
<1>5. Receipts'
    <2>1. Receipts /\ active \in Generations \cup {0} /\ bank \in [Generations -> SUBSET Messages]
        BY DEF CInv, IInv, TypeOK
    <2>2. CASE Bootstrap
        BY <2>1, <2>2 DEF Bootstrap, Receipts, Remembered, worker
    <2>3. CASE \E g \in Generations : LeaseExpires(g)
        BY <2>1, <2>3 DEF LeaseExpires, Receipts, Remembered, worker, backend
    <2>4. CASE \E m \in Messages : BeginRetain(m)
        BY <2>1, <2>4 DEF BeginRetain, PointerValid, Receipts, Remembered, journal, backend
    <2>5. CASE Confirm
        BY <2>1, <2>5 DEF Confirm, Receipts, Remembered, journal
    <2>6. CASE RecordReceipt
        BY <2>1, <2>6 DEF RecordReceipt, Receipts, Remembered, journal, backend
    <2>7. CASE WorkerFails
        <3>1. UNCHANGED <<receipted, active>> /\ wpc' = "idle" /\ wpc # "idle"
            BY <2>7 DEF WorkerFails, journal
        <3>. QED  BY <1>2, <2>1, <3>1 DEF Receipts, Remembered
    <2>. QED  BY <2>2, <2>3, <2>4, <2>5, <2>6, <2>7 DEF IngestionStep
<1>6. Journaled'
    BY <1>1, <1>2, <1>3, JournaledStays
<1>7. ASSUME NEW r \in Maintainers PROVE Copied(r)'
    <2>1. CommandOK(r)
        BY DEF IInv
    <2>2. pc[r] \in Rebuilding => gen[r] \in Generations
        BY <2>1 DEF CommandOK
    <2>3. BankSafe(r) => bank[gen[r]] \subseteq bank'[gen[r]]
        BY <1>2, <2>2 DEF BankSafe, Rebuilding
    <2>4. pc[r] = "verified" => Remembered' \subseteq Remembered
        BY <1>4, <2>1 DEF CommandOK
    <2>. QED  BY <1>1, <1>3, <2>2, <2>3, <2>4, CopiedStays
<1>. QED  BY <1>4, <1>5, <1>6, <1>7 DEF CInv

(* A step of a maintainer: the others have copied what they had.           *)
LEMMA MaintainerC ==
    ASSUME IInv, CInv, NEW r \in Maintainers,
           UNCHANGED <<stored, receipted, worker>>,
           \A q \in Maintainers \ {r} :
               /\ pc'[q] = pc[q] /\ gen'[q] = gen[q] /\ offset'[q] = offset[q] /\ page'[q] = page[q]
               /\ pc[q] \in Rebuilding /\ status'[gen[q]] = "BUILDING" => status[gen[q]] = "BUILDING"
               /\ BankSafe(q) => bank[gen[q]] \subseteq bank'[gen[q]],
           Journaled', Receipts', Copied(r)'
    PROVE  CInv'
<1>1. Remembered' = Remembered
    BY DEF Remembered, worker
<1>2. Archive'
    BY DEF CInv, Archive, Rank, worker
<1>3. ASSUME NEW q \in Maintainers \ {r} PROVE Copied(q)'
    BY <1>1, CopiedStays
<1>. QED  BY <1>2, <1>3 DEF CInv

(* A command that is over has nothing to copy.                             *)
LEMMA QuitC ==
    ASSUME TypeOK, NEW r \in Maintainers, Quit(r)
    PROVE  Copied(r)'
<1>1. pc'[r] = "idle" /\ offset'[r] = 0 /\ page'[r] = {}
    BY DEF TypeOK, Quit, Goto
<1>. QED  BY <1>1 DEF Copied, BankSafe, Rebuilding

(* A step that touches no row of the journal and deletes no bank.          *)
LEMMA QuietC ==
    ASSUME IInv, CInv, NEW r \in Maintainers,
           UNCHANGED <<stored, receipted, status, replayed, active, worker>>,
           \A g \in Generations : bank[g] \subseteq bank'[g],
           \A q \in Maintainers \ {r} :
               pc'[q] = pc[q] /\ gen'[q] = gen[q] /\ offset'[q] = offset[q] /\ page'[q] = page[q],
           Copied(r)'
    PROVE  CInv'
<1>1. ASSUME NEW q \in Maintainers, BankSafe(q) PROVE bank[gen[q]] \subseteq bank'[gen[q]]
    <2>1. gen[q] \in Generations
        BY <1>1 DEF IInv, CommandOK, BankSafe, Rebuilding
    <2>. QED  BY <2>1
<1>2. Journaled'
    BY JournaledStays
<1>3. Receipts'
    BY DEF CInv, Receipts, Remembered, IInv, TypeOK, worker
<1>. QED  BY <1>1, <1>2, <1>3, MaintainerC

(* Steps of a command that end it, or leave the rest to _mark_failed.      *)
LEMMA GiveUpC ==
    ASSUME IInv, CInv, NEW r \in Maintainers,
           RebuildRefused(r) \/ RetainRefused(r) \/ RebuildFails(r) \/ Crash(r)
    PROVE  CInv'
<1>1. /\ UNCHANGED <<stored, receipted, status, replayed, active, bank, worker>>
      /\ TypeOK
    BY DEF RebuildRefused, RetainRefused, RebuildFails, Crash, journal, backend, IInv
<1>2. \A q \in Maintainers \ {r} :
          pc'[q] = pc[q] /\ gen'[q] = gen[q] /\ offset'[q] = offset[q] /\ page'[q] = page[q]
    BY <1>1 DEF RebuildRefused, RetainRefused, RebuildFails, Crash, Quit, Goto, TypeOK
<1>3. CASE Quit(r)
    <2>1. Copied(r)'
        BY <1>1, <1>3, QuitC
    <2>. QED  BY <1>1, <1>2, <2>1, QuietC
<1>4. CASE ~Quit(r)
    <2>1. pc'[r] = "failing"
        BY <1>1, <1>4 DEF RebuildRefused, RetainRefused, RebuildFails, Crash, Goto, TypeOK
    <2>2. Copied(r)'
        BY <2>1 DEF Copied, BankSafe, Rebuilding
    <2>. QED  BY <1>1, <1>2, <2>2, QuietC
<1>. QED  BY <1>3, <1>4

(* A page is read: what was copied is what is before it.                   *)
LEMMA ReadPageC ==
    ASSUME IInv, CInv, NEW r \in Maintainers, ReadPage(r)
    PROVE  CInv'
<1>1. /\ UNCHANGED <<stored, receipted, status, replayed, active, bank, worker>>
      /\ TypeOK /\ CommandOK(r) /\ Copied(r) /\ Archive /\ WorkerOK
    BY DEF ReadPage, journal, backend, IInv, CInv
<1>2. /\ \A q \in Maintainers \ {r} :
             pc'[q] = pc[q] /\ gen'[q] = gen[q] /\ offset'[q] = offset[q] /\ page'[q] = page[q]
      /\ gen'[r] = gen[r] /\ offset'[r] = Beyond(offset[r]) /\ page'[r] = Page(offset[r])
      /\ pc[r] \in {"replay", "switching"} /\ page[r] = {} /\ offset[r] \in Nat
      /\ pc'[r] = IF pc[r] = "replay" THEN IF page'[r] = {} THEN "lock" ELSE "retain"
                  ELSE IF page'[r] = {} THEN "verified" ELSE "catchUp"
    BY <1>1 DEF ReadPage, Goto, TypeOK, Copied, Steps
<1>3. ASSUME Kept(gen[r], offset[r], page[r])
      PROVE  /\ Kept(gen[r], offset'[r], page'[r])
             /\ page'[r] = {} => stored \subseteq bank[gen[r]]
    <2>1. offset[r] <= Cardinality(stored)
        BY <1>3 DEF Kept
    <2>2. /\ Beyond(offset[r]) <= Cardinality(stored)
          /\ \A m \in stored : Rank(m) < Beyond(offset[r]) => Rank(m) < offset[r] \/ m \in Page(offset[r])
          /\ Page(offset[r]) = {} => \A m \in stored : Rank(m) < offset[r]
        BY <1>1, <1>2, <2>1, PageIs
    <2>. QED  BY <1>2, <1>3, <2>2 DEF Kept
<1>4. BankSafe(r)' => BankSafe(r)
    BY <1>1, <1>2 DEF BankSafe
<1>5. BankSafe(r) => Kept(gen[r], offset[r], page[r])'
    <2>. SUFFICES ASSUME BankSafe(r) PROVE Kept(gen[r], offset[r], page[r])'
        OBVIOUS
    <2>1. PICK n, P : n = offset'[r] /\ P = page'[r]
        OBVIOUS
    <2>2. Kept(gen[r], n, P)
        BY <1>1, <1>3, <2>1 DEF Copied
    <2>. QED  BY <1>1, <1>2, <2>1, <2>2 DEF Kept, Rank
<1>6. pc'[r] = "verified" => Remembered' \subseteq bank'[gen'[r]]
    <2>. SUFFICES ASSUME pc'[r] = "verified" PROVE Remembered \subseteq bank[gen[r]]
        BY <1>1, <1>2 DEF Remembered, worker
    <2>1. pc[r] = "switching" /\ page'[r] = {}
        BY <1>2
    <2>2. stored \subseteq bank[gen[r]]
        BY <1>1, <1>3, <2>1 DEF Copied, BankSafe
    <2>. QED  BY <1>1, <2>2 DEF Archive, Remembered
<1>7. Copied(r)'
    BY <1>2, <1>4, <1>5, <1>6 DEF Copied, Rebuilding
<1>. QED  BY <1>1, <1>2, <1>7, QuietC

(* A message of the page is retained.                                      *)
LEMMA RetainNextC ==
    ASSUME IInv, CInv, NEW r \in Maintainers, RetainNext(r)
    PROVE  CInv'
<1>1. /\ UNCHANGED <<stored, receipted, status, replayed, active, pc, gen, offset, worker>>
      /\ TypeOK /\ CommandOK(r) /\ Copied(r)
    BY DEF RetainNext, journal, IInv, CInv
<1>2. pc[r] \in {"retain", "catchUp"} /\ gen[r] \in Generations
    BY <1>1 DEF RetainNext, CommandOK, Rebuilding
<1>3. PICK m \in page[r] : /\ bank' = [bank EXCEPT ![gen[r]] = @ \cup {m}]
                           /\ page' = [page EXCEPT ![r] = @ \ {m}]
    BY DEF RetainNext
<1>4. \A g \in Generations : bank[g] \subseteq bank'[g]
    BY <1>1, <1>2, <1>3 DEF TypeOK
<1>5. /\ \A q \in Maintainers \ {r} : page'[q] = page[q]
      /\ page'[r] = page[r] \ {m} /\ bank'[gen[r]] = bank[gen[r]] \cup {m}
    BY <1>1, <1>2, <1>3 DEF TypeOK
<1>6. BankSafe(r) => Kept(gen[r], offset[r], page[r])'
    <2>. SUFFICES ASSUME BankSafe(r) PROVE Kept(gen[r], offset[r], page[r])'
        OBVIOUS
    <2>1. Kept(gen[r], offset[r], page[r])
        BY <1>1 DEF Copied
    <2>2. \A k : Rank(k)' = Rank(k)
        BY <1>1 DEF Rank
    <2>. QED  BY <1>1, <1>5, <2>1, <2>2 DEF Kept
<1>7. Copied(r)'
    <2>1. BankSafe(r)' => BankSafe(r)
        BY <1>1 DEF BankSafe
    <2>. QED  BY <1>1, <1>2, <1>6, <2>1 DEF Copied, Rebuilding
<1>. QED  BY <1>1, <1>4, <1>5, <1>7, QuietC

(* Steps that keep what the command has copied, or copy nothing.           *)
LEMMA SameOffsetC ==
    ASSUME IInv, CInv, NEW r \in Maintainers,
           CreateClean(r) \/ Flush(r) \/ ListCandidate(r) \/ LockForCleanup(r)
    PROVE  CInv'
<1>1. /\ UNCHANGED <<stored, receipted, status, replayed, active, bank, worker>>
      /\ TypeOK /\ CommandOK(r) /\ Copied(r)
    BY DEF CreateClean, Flush, ListCandidate, LockForCleanup, journal, backend, IInv, CInv
<1>2. \A q \in Maintainers \ {r} :
          pc'[q] = pc[q] /\ gen'[q] = gen[q] /\ offset'[q] = offset[q] /\ page'[q] = page[q]
    BY <1>1 DEF CreateClean, Flush, ListCandidate, LockForCleanup, Quit, Goto, TypeOK
<1>3. CASE CreateClean(r)
    <2>1. /\ pc'[r] = "replay" /\ offset'[r] = 0 /\ page'[r] = {}
        BY <1>1, <1>3 DEF CreateClean, Goto, TypeOK, Copied, Steps, Rebuilding
    <2>2. \A g, P : Kept(g, 0, P)
        BY <1>1, NothingYet
    <2>3. Kept(gen[r], offset[r], page[r])'
        BY <1>1, <2>1, <2>2 DEF Kept, Rank
    <2>4. Copied(r)'
        BY <2>1, <2>3 DEF Copied, Rebuilding
    <2>. QED  BY <1>1, <1>2, <2>4, QuietC
<1>4. CASE Flush(r)
    <2>1. /\ pc[r] = "catchUp" /\ pc'[r] \in {"switching", "failing"} /\ page[r] = {}
          /\ gen'[r] = gen[r] /\ offset'[r] = offset[r] /\ page'[r] = page[r]
        BY <1>1, <1>4 DEF Flush, Goto, TypeOK
    <2>2. Kept(gen[r], offset[r], page[r])
        BY <1>1, <2>1 DEF Copied, BankSafe
    <2>3. Kept(gen[r], offset[r], page[r])'
        BY <1>1, <2>1, <2>2 DEF Kept, Rank
    <2>4. Copied(r)'
        BY <2>1, <2>3 DEF Copied, BankSafe, Rebuilding
    <2>. QED  BY <1>1, <1>2, <2>4, QuietC
<1>5. CASE ListCandidate(r) \/ (LockForCleanup(r) /\ Retired(gen[r]))
    <2>1. /\ pc[r] \in {"idle", "cleanup"} /\ pc'[r] \in {"cleanup", "delete"}
          /\ offset'[r] = offset[r] /\ page'[r] = page[r]
        BY <1>1, <1>5 DEF ListCandidate, LockForCleanup, Goto, TypeOK
    <2>2. Copied(r)'
        BY <1>1, <2>1 DEF Copied, BankSafe, Rebuilding, Steps
    <2>. QED  BY <1>1, <1>2, <2>2, QuietC
<1>6. CASE LockForCleanup(r) /\ ~Retired(gen[r])
    <2>1. Copied(r)'
        BY <1>1, <1>6, QuitC DEF LockForCleanup
    <2>. QED  BY <1>1, <1>2, <2>1, QuietC
<1>. QED  BY <1>3, <1>4, <1>5, <1>6

(* The page is retained: the journal says how far the rebuild has come.    *)
LEMMA RecordProgressC ==
    ASSUME IInv, CInv, NEW r \in Maintainers, RecordProgress(r)
    PROVE  CInv'
<1>1. /\ UNCHANGED <<stored, receipted, status, active, bank, gen, offset, page, worker>>
      /\ TypeOK /\ CommandOK(r) /\ Copied(r)
      /\ pc[r] = "retain" /\ page[r] = {}
    BY DEF RecordProgress, backend, IInv, CInv
<1>2. \A q \in Maintainers \ {r} : pc'[q] = pc[q]
    BY <1>1 DEF RecordProgress, Goto, TypeOK
<1>3. CASE status[gen[r]] = "BUILDING"
    <2>1. /\ Kept(gen[r], offset[r], {}) /\ pc'[r] = "replay"
          /\ \A g \in Generations : replayed'[g] = IF g = gen[r] THEN offset[r] ELSE replayed[g]
        BY <1>1, <1>3 DEF RecordProgress, Goto, TypeOK, Copied, BankSafe
    <2>2. \A g \in Generations : replayed'[g] = replayed[g] \/ Kept(g, replayed'[g], {})
        BY <2>1
    <2>3. Journaled'
        <3>1. \A g \in Generations : status[g] = "NONE" => replayed'[g] = replayed[g]
            BY <1>3, <2>1
        <3>. QED  BY <1>1, <2>2, <3>1, JournaledStays DEF IInv, TypeOK, RowStatuses
    <2>4. Copied(r)'
        BY <1>1, <2>1 DEF Copied, Kept, Rank, Rebuilding
    <2>5. Receipts'
        BY <1>1 DEF CInv, Receipts, Remembered, worker
    <2>. QED  BY <1>1, <1>2, <2>3, <2>4, <2>5, MaintainerC
<1>4. CASE status[gen[r]] # "BUILDING"
    <2>1. pc'[r] = "failing" /\ UNCHANGED replayed
        BY <1>1, <1>4 DEF RecordProgress, Goto, TypeOK
    <2>2. Copied(r)'
        BY <2>1 DEF Copied, BankSafe, Rebuilding
    <2>. QED  BY <1>1, <1>2, <2>1, <2>2, QuietC
<1>. QED  BY <1>3, <1>4

(* The catch-up starts where the journal says the replay has come.         *)
LEMMA LockRegistryC ==
    ASSUME IInv, CInv, NEW r \in Maintainers, LockRegistry(r)
    PROVE  CInv'
<1>1. /\ UNCHANGED <<stored, receipted, status, replayed, active, bank, gen, page, worker>>
      /\ TypeOK /\ CommandOK(r) /\ Copied(r)
      /\ pc[r] = "lock" /\ page[r] = {} /\ gen[r] \in Generations
    BY DEF LockRegistry, journal, backend, IInv, CInv, CommandOK, Copied, Rebuilding, Steps
<1>2. /\ \A q \in Maintainers \ {r} : pc'[q] = pc[q] /\ offset'[q] = offset[q]
      /\ offset'[r] = replayed[gen[r]]
      /\ pc'[r] = IF status[gen[r]] = "BUILDING" THEN "switching" ELSE "failing"
    BY <1>1 DEF LockRegistry, Goto, TypeOK
<1>3. pc'[r] = "switching" => Kept(gen[r], replayed[gen[r]], {})
    BY <1>1, <1>2 DEF CInv, Journaled
<1>4. pc'[r] = "switching" => Kept(gen[r], offset[r], page[r])'
    BY <1>1, <1>2, <1>3 DEF Kept, Rank
<1>5. Copied(r)'
    BY <1>1, <1>2, <1>4 DEF Copied, BankSafe, Rebuilding
<1>. QED  BY <1>1, <1>2, <1>5, QuietC

(* Rows leave BUILDING, and the pointer moves at most to a complete bank.  *)
LEMMA RowC ==
    ASSUME IInv, CInv, NEW r \in Maintainers,
           UNCHANGED <<stored, receipted, bank, worker>>,
           \A g \in Generations : status'[g] \in {"NONE", "BUILDING"} =>
               status'[g] = status[g] /\ replayed'[g] = replayed[g],
           \A q \in Maintainers \ {r} :
               pc'[q] = pc[q] /\ gen'[q] = gen[q] /\ offset'[q] = offset[q] /\ page'[q] = page[q],
           Receipts', Copied(r)'
    PROVE  CInv'
<1>1. Journaled'
    BY JournaledStays
<1>2. ASSUME NEW q \in Maintainers, pc[q] \in Rebuilding, status'[gen[q]] = "BUILDING"
      PROVE  status[gen[q]] = "BUILDING"
    <2>1. gen[q] \in Generations
        BY <1>2 DEF IInv, CommandOK
    <2>. QED  BY <1>2, <2>1
<1>. QED  BY <1>1, <1>2, MaintainerC

(* The end of a rebuild or a cleanup, and the recovery before a rebuild.   *)
LEMMA EndC ==
    ASSUME IInv, CInv, NEW r \in Maintainers,
           RecoverInterrupted(r) \/ MarkFailed(r) \/ DeleteRow(r)
    PROVE  CInv'
<1>1. /\ UNCHANGED <<stored, receipted, replayed, active, bank, worker>>
      /\ TypeOK /\ CommandOK(r) /\ Copied(r)
    BY DEF RecoverInterrupted, MarkFailed, DeleteRow, backend, IInv, CInv
<1>2. \A q \in Maintainers \ {r} :
          pc'[q] = pc[q] /\ gen'[q] = gen[q] /\ offset'[q] = offset[q] /\ page'[q] = page[q]
    BY <1>1 DEF RecoverInterrupted, MarkFailed, DeleteRow, Quit, Goto, TypeOK
<1>3. \A g \in Generations : status'[g] \in {"NONE", "BUILDING"} => status'[g] = status[g]
    BY <1>1 DEF RecoverInterrupted, MarkFailed, DeleteRow, TypeOK
<1>4. Receipts'
    BY <1>1 DEF CInv, Receipts, Remembered, worker
<1>5. CASE RecoverInterrupted(r)
    <2>1. pc[r] = "idle" /\ pc'[r] = "start" /\ offset'[r] = offset[r] /\ page'[r] = page[r]
        BY <1>1, <1>5 DEF RecoverInterrupted, Goto, TypeOK
    <2>2. Copied(r)'
        BY <1>1, <2>1 DEF Copied, BankSafe, Rebuilding, Steps
    <2>. QED  BY <1>1, <1>2, <1>3, <1>4, <2>2, RowC
<1>6. CASE MarkFailed(r) \/ DeleteRow(r)
    <2>1. Copied(r)'
        BY <1>1, <1>6, QuitC DEF MarkFailed, DeleteRow
    <2>. QED  BY <1>1, <1>2, <1>3, <1>4, <2>1, RowC
<1>. QED  BY <1>5, <1>6

(* A new rebuild has its own generation, and has read nothing.             *)
LEMMA StartC ==
    ASSUME IInv, CInv, NEW r \in Maintainers, StartRebuild(r)
    PROVE  CInv'
<1>1. /\ UNCHANGED <<stored, receipted, replayed, active, bank, offset, page, worker>>
      /\ TypeOK /\ Copied(r) /\ pc[r] = "start"
    BY DEF StartRebuild, backend, IInv, CInv
<1>2. PICK g \in Generations : /\ status[g] = "NONE"
                               /\ status' = [status EXCEPT ![g] = "BUILDING"]
                               /\ gen' = [gen EXCEPT ![r] = g]
    BY DEF StartRebuild
<1>3. /\ \A q \in Maintainers \ {r} : pc'[q] = pc[q] /\ gen'[q] = gen[q]
      /\ pc'[r] = "create"
    BY <1>1, <1>2 DEF StartRebuild, Goto, TypeOK
<1>4. Journaled'
    <2>1. \A h \in Generations : status'[h] = IF h = g THEN "BUILDING" ELSE status[h]
        BY <1>1, <1>2 DEF TypeOK
    <2>. QED  BY <1>1, <1>2, <2>1, JournaledStays
<1>5. Receipts'
    BY <1>1 DEF CInv, Receipts, Remembered, worker
<1>6. Copied(r)'
    BY <1>1, <1>3 DEF Copied, BankSafe, Rebuilding, Steps
<1>7. ASSUME NEW q \in Maintainers, pc[q] \in Rebuilding, status'[gen[q]] = "BUILDING"
      PROVE  status[gen[q]] = "BUILDING"
    <2>1. gen[q] \in Generations /\ status[gen[q]] # "NONE"
        BY <1>7 DEF IInv, CommandOK
    <2>. QED  BY <1>1, <1>2, <1>7, <2>1 DEF TypeOK
<1>. QED  BY <1>1, <1>3, <1>4, <1>5, <1>6, <1>7, MaintainerC

(* The pointer moves to a bank that has all of the archive.                *)
LEMMA SwitchC ==
    ASSUME IInv, CInv, NEW r \in Maintainers, Switch(r)
    PROVE  CInv'
<1>. USE GenerationsAssumption
<1>1. /\ UNCHANGED <<stored, receipted, bank, worker>>
      /\ TypeOK /\ CommandOK(r) /\ Copied(r)
      /\ pc[r] = "verified" /\ active' = gen[r] /\ Quit(r)
      /\ gen[r] \in Generations \ {active}
    BY DEF Switch, backend, IInv, CInv, CommandOK, Rebuilding
<1>2. \A q \in Maintainers \ {r} :
          pc'[q] = pc[q] /\ gen'[q] = gen[q] /\ offset'[q] = offset[q] /\ page'[q] = page[q]
    BY <1>1 DEF Quit, Goto, TypeOK
<1>3. \A g \in Generations : status'[g] \in {"NONE", "BUILDING"} =>
          status'[g] = status[g] /\ replayed'[g] = replayed[g]
    <2>1. \A g \in Generations :
              /\ status'[g] = IF g = gen[r] THEN "ACTIVE" ELSE Superseded(g)
              /\ g # gen[r] => replayed'[g] = replayed[g]
        BY <1>1 DEF Switch, TypeOK
    <2>. QED  BY <2>1 DEF Superseded
<1>4. Receipts'
    <2>1. Remembered \subseteq bank[gen[r]]
        BY <1>1 DEF Copied
    <2>2. Remembered' = Remembered /\ gen[r] # 0
        BY <1>1 DEF Remembered, worker
    <2>. QED  BY <1>1, <2>1, <2>2 DEF Receipts
<1>5. Copied(r)'
    BY <1>1, QuitC
<1>. QED  BY <1>1, <1>2, <1>3, <1>4, <1>5, RowC

(* A bank that is deleted is not active, and no living rebuild fills it.   *)
LEMMA DeleteBankC ==
    ASSUME IInv, CInv, NEW r \in Maintainers, DeleteBank(r)
    PROVE  CInv'
<1>1. /\ UNCHANGED <<stored, receipted, status, replayed, active, gen, offset, page, worker>>
      /\ TypeOK /\ CommandOK(r) /\ Copied(r) /\ pc[r] = "delete" /\ registryLock = r
      /\ gen[r] \in Generations \ {active} /\ status[gen[r]] \in {"FAILED", "SUPERSEDED"}
    BY DEF DeleteBank, journal, IInv, CInv, CommandOK
<1>2. /\ pc'[r] = "deleteRow"
      /\ \A q \in Maintainers \ {r} : pc'[q] = pc[q]
      /\ \A g \in Generations \ {gen[r]} : bank'[g] = bank[g]
    BY <1>1 DEF DeleteBank, Goto, TypeOK
<1>3. Journaled'
    <2>1. \A g \in Generations : status[g] = "BUILDING" => bank[g] \subseteq bank'[g]
        BY <1>1, <1>2
    <2>. QED  BY <1>1, <2>1, JournaledStays
<1>4. Receipts'
    BY <1>1, <1>2 DEF CInv, Receipts, Remembered, worker, TypeOK
<1>5. Copied(r)'
    BY <1>1, <1>2 DEF Copied, BankSafe, Rebuilding, Steps
<1>6. ASSUME NEW q \in Maintainers \ {r}, BankSafe(q) PROVE bank[gen[q]] \subseteq bank'[gen[q]]
    <2>1. gen[q] \in Generations /\ gen[q] # gen[r]
        <3>1. CASE pc[q] \in {"replay", "retain", "lock"} /\ status[gen[q]] = "BUILDING"
            BY <1>1, <3>1 DEF IInv, CommandOK, Rebuilding
        <3>2. CASE pc[q] \in {"switching", "catchUp", "verified"}
            BY <1>1, <3>2 DEF IInv, CommandOK
        <3>. QED  BY <1>6, <3>1, <3>2 DEF BankSafe
    <2>. QED  BY <1>2, <2>1
<1>. QED  BY <1>1, <1>2, <1>3, <1>4, <1>5, <1>6, MaintainerC

(* Every step keeps what was copied, as long as no message is committed    *)
(* below an offset.                                                        *)
LEMMA CInvStep ==
    ASSUME InOrder
    PROVE  IInv /\ CInv /\ [Next]_vars => CInv'
<1>. SUFFICES ASSUME IInv, CInv, [Next]_vars PROVE CInv'
    OBVIOUS
<1>1. CASE UNCHANGED vars
    BY <1>1 DEF vars, journal, backend, maintainer, worker, CInv, Archive, Journaled, Receipts,
        Remembered, Copied, BankSafe, Kept, Rank
<1>2. CASE \E m \in Messages : Store(m)
    BY <1>2, StoreC
<1>3. CASE Bootstrap \/ IngestionStep \/ WorkerFails \/ (\E g \in Generations : LeaseExpires(g))
    BY <1>3, IngestC
<1>4. CASE \E r \in Maintainers : MaintainerStep(r)
    <2>. PICK r \in Maintainers : MaintainerStep(r)
        BY <1>4
    <2>. QED  BY GiveUpC, ReadPageC, RetainNextC, SameOffsetC, RecordProgressC, LockRegistryC, EndC,
                 StartC, SwitchC, DeleteBankC DEF MaintainerStep, Proceed
<1>. QED  BY <1>1, <1>2, <1>3, <1>4 DEF Next, MaintainerStep

(* If the archive is committed in the order of created_at, a switch forgets *)
(* nothing that ingestion has confirmed: every message with a receipt is in *)
(* the active bank, although receipts are written outside the registry lock *)
(* and a rebuild reads the archive in pages while it grows.                 *)
THEOREM SwitchForgetsNothing ==
    ASSUME InOrder
    PROVE  Spec => []ActiveComplete
<1>1. IInv /\ CInv => ActiveComplete
    BY DEF CInv, Receipts, Remembered, ActiveComplete
<1>2. IInv /\ CInv /\ [Next]_vars => CInv'
    BY CInvStep
<1>. QED  BY <1>1, <1>2, CInvInit, Always, PTL DEF Spec

-----------------------------------------------------------------------------
(***************************************************************************)
(* Nothing that a reader could find is lost: the refinement.               *)
(***************************************************************************)

(* Banks and pages hold committed messages only, and the bank of a rebuild *)
(* that is verified has all that readers find so far.                      *)
SInv ==
    /\ \A g \in Generations : bank[g] \subseteq stored
    /\ \A r \in Maintainers : page[r] \subseteq stored
    /\ \A r \in Maintainers : pc[r] = "verified" => Recallable \subseteq bank[gen[r]]

(* Whoever holds the registry lock: the pointer stays, and what readers    *)
(* find grows by what the others retain, which the lock excludes.          *)
LEMMA HeldStays ==
    ASSUME IInv, [Next]_vars, NEW r \in Maintainers, pc[r] = "verified", pc'[r] = "verified"
    PROVE  /\ Recallable' \subseteq Recallable
           /\ gen'[r] = gen[r] /\ gen[r] \in Generations /\ bank[gen[r]] \subseteq bank'[gen[r]]
<1>. USE GenerationsAssumption
<1>1. /\ TypeOK /\ CommandOK(r) /\ BootstrappedFirst /\ WorkerOK
      /\ registryLock = r /\ gen[r] \in Generations \ {active}
      /\ active # 0 /\ active \in Generations /\ wpc # "retaining"
    BY DEF IInv, CommandOK, Rebuilding, TypeOK, BootstrappedFirst, WorkerOK
<1>2. CASE UNCHANGED vars
    BY <1>1, <1>2 DEF vars, journal, backend, maintainer, Recallable
<1>3. CASE \/ \E m \in Messages : Store(m)
           \/ Bootstrap \/ IngestionStep \/ WorkerFails \/ \E g \in Generations : LeaseExpires(g)
    <2>1. UNCHANGED <<active, bank, gen>>
        BY <1>1, <1>3 DEF Store, Bootstrap, IngestionStep, BeginRetain, Confirm, RecordReceipt,
            WorkerFails, LeaseExpires, journal, backend, maintainer
    <2>. QED  BY <1>1, <2>1 DEF Recallable
<1>4. ASSUME MaintainerStep(r) PROVE FALSE
    <2>1. Crash(r) \/ RebuildFails(r) \/ Switch(r)
        BY <1>1, <1>4 DEF MaintainerStep, Proceed, RecoverInterrupted, ListCandidate, StartRebuild,
            RebuildRefused, CreateClean, ReadPage, RetainNext, RetainRefused, RecordProgress,
            LockRegistry, Flush, MarkFailed, LockForCleanup, DeleteBank, DeleteRow
    <2>2. pc'[r] \in {"idle", "failing"}
        BY <1>1, <2>1 DEF Crash, RebuildFails, Switch, Quit, Goto, TypeOK
    <2>. QED  BY <2>2
<1>5. ASSUME NEW q \in Maintainers, q # r, MaintainerStep(q)
      PROVE  /\ Recallable' \subseteq Recallable
             /\ gen'[r] = gen[r] /\ bank[gen[r]] \subseteq bank'[gen[r]]
    <2>1. CommandOK(q) /\ OwnGenerations
        BY DEF IInv
    <2>2. ~Switch(q) /\ ~DeleteBank(q)
        BY <1>1, <1>5, <2>1 DEF CommandOK, Switch, DeleteBank
    <2>3. UNCHANGED active
        BY <1>5, <2>2 DEF MaintainerStep, Proceed, RecoverInterrupted, ListCandidate, StartRebuild,
            RebuildRefused, CreateClean, ReadPage, RetainNext, RetainRefused, RecordProgress,
            LockRegistry, Flush, MarkFailed, LockForCleanup, DeleteRow, RebuildFails, Crash, journal
    <2>4. gen'[r] = gen[r]
        BY <1>1, <1>5, <2>2 DEF MaintainerStep, Proceed, RecoverInterrupted, ListCandidate,
            StartRebuild, RebuildRefused, CreateClean, ReadPage, RetainNext, RetainRefused,
            RecordProgress, LockRegistry, Flush, MarkFailed, LockForCleanup, DeleteRow, RebuildFails,
            Crash, Quit, TypeOK
    <2>5. CASE RetainNext(q)
        <3>1. /\ gen[q] \in Generations \ {active}
              /\ \E m : bank' = [bank EXCEPT ![gen[q]] = @ \cup {m}]
            BY <2>1, <2>5 DEF RetainNext, CommandOK, Rebuilding
        <3>2. \A g \in Generations : bank[g] \subseteq bank'[g] /\ (g # gen[q] => bank'[g] = bank[g])
            BY <1>1, <3>1 DEF TypeOK
        <3>. QED  BY <1>1, <2>3, <2>4, <3>1, <3>2 DEF Recallable
    <2>6. CASE ~RetainNext(q)
        <3>1. UNCHANGED bank
            BY <1>5, <2>2, <2>6 DEF MaintainerStep, Proceed, RecoverInterrupted, ListCandidate,
                StartRebuild, RebuildRefused, CreateClean, ReadPage, RetainRefused, RecordProgress,
                LockRegistry, Flush, MarkFailed, LockForCleanup, DeleteRow, RebuildFails, Crash, backend
        <3>. QED  BY <2>3, <2>4, <3>1 DEF Recallable
    <2>. QED  BY <2>5, <2>6
<1>. QED  BY <1>1, <1>2, <1>3, <1>4, <1>5 DEF Next, MaintainerStep

(* A page that is empty ends the catch-up: the whole archive was copied.   *)
LEMMA LastPage ==
    ASSUME IInv, CInv, NEW r \in Maintainers, ReadPage(r), pc'[r] = "verified"
    PROVE  gen'[r] = gen[r] /\ stored \subseteq bank[gen[r]]
<1>1. TypeOK /\ Copied(r) /\ Archive
    BY DEF IInv, CInv
<1>2. /\ pc[r] = "switching" /\ gen'[r] = gen[r]
      /\ Page(offset[r]) = {} /\ page[r] = {} /\ offset[r] \in Nat
    BY <1>1 DEF ReadPage, Goto, TypeOK, Copied, Steps
<1>3. Kept(gen[r], offset[r], {})
    BY <1>1, <1>2 DEF Copied, BankSafe
<1>4. \A m \in stored : Rank(m) < offset[r]
    BY <1>1, <1>2, <1>3, PageIs DEF Kept
<1>. QED  BY <1>2, <1>3, <1>4 DEF Kept

(* Nothing but an empty page under the registry lock verifies a rebuild.   *)
LEMMA OnlyLastPage ==
    ASSUME IInv, [Next]_vars, NEW r \in Maintainers, pc[r] # "verified", pc'[r] = "verified"
    PROVE  ReadPage(r)
<1>1. TypeOK
    BY DEF IInv
<1>2. CASE UNCHANGED vars \/ ~\E q \in Maintainers : MaintainerStep(q)
    <2>1. UNCHANGED pc
        BY <1>2 DEF Next, MaintainerStep, Store, Bootstrap, LeaseExpires, IngestionStep, BeginRetain,
            Confirm, RecordReceipt, WorkerFails, vars, maintainer
    <2>. QED  BY <2>1
<1>3. ASSUME NEW q \in Maintainers, MaintainerStep(q), ~ReadPage(q) PROVE FALSE
    <2>1. \E step \in Steps \ {"verified"} : pc' = [pc EXCEPT ![q] = step] \/ UNCHANGED pc
        BY <1>3 DEF MaintainerStep, Proceed, RecoverInterrupted, ListCandidate, StartRebuild,
            RebuildRefused, CreateClean, RetainNext, RetainRefused, RecordProgress, LockRegistry,
            Flush, Switch, MarkFailed, LockForCleanup, DeleteBank, DeleteRow, RebuildFails, Crash,
            Quit, Goto, Steps
    <2>. QED  BY <1>1, <2>1 DEF TypeOK
<1>4. ASSUME NEW q \in Maintainers \ {r}, ReadPage(q) PROVE FALSE
    BY <1>1, <1>4 DEF ReadPage, Goto, TypeOK
<1>. QED  BY <1>2, <1>3, <1>4

(* Only committed messages get into a bank or onto a page.                 *)
LEMMA CommittedOnly ==
    ASSUME IInv, CInv, SInv, [Next]_vars
    PROVE  /\ \A g \in Generations : bank'[g] \subseteq stored'
           /\ \A r \in Maintainers : page'[r] \subseteq stored'
<1>1. TypeOK /\ stored \subseteq stored'
    BY DEF IInv, Next, Store, Bootstrap, LeaseExpires, IngestionStep, BeginRetain, Confirm,
        RecordReceipt, WorkerFails, Proceed, RecoverInterrupted, ListCandidate, StartRebuild,
        RebuildRefused, CreateClean, ReadPage, RetainNext, RetainRefused, RecordProgress,
        LockRegistry, Flush, Switch, MarkFailed, LockForCleanup, DeleteBank, DeleteRow, RebuildFails,
        Crash, vars
<1>2. CASE Confirm \/ WorkerFails
    <2>1. msg \in stored /\ page' = page
        BY <1>2 DEF CInv, Archive, Confirm, WorkerFails, maintainer
    <2>2. bank' = bank \/ bank' = [bank EXCEPT ![active] = @ \cup {msg}]
        BY <1>2 DEF Confirm, WorkerFails
    <2>3. \A g \in Generations : bank'[g] \subseteq bank[g] \cup {msg}
        BY <1>1, <2>2 DEF TypeOK
    <2>. QED  BY <1>1, <2>1, <2>3 DEF SInv
<1>3. ASSUME NEW r \in Maintainers, RetainNext(r) \/ DeleteBank(r) \/ ReadPage(r)
      PROVE  /\ \A g \in Generations : bank'[g] \subseteq stored'
             /\ \A q \in Maintainers : page'[q] \subseteq stored'
    <2>1. CASE RetainNext(r)
        <3>1. PICK m \in page[r] : /\ bank' = [bank EXCEPT ![gen[r]] = @ \cup {m}]
                                   /\ page' = [page EXCEPT ![r] = @ \ {m}]
            BY <2>1 DEF RetainNext
        <3>2. /\ \A g \in Generations : bank'[g] \subseteq bank[g] \cup {m}
              /\ \A q \in Maintainers : page'[q] \subseteq page[q]
            BY <1>1, <3>1 DEF TypeOK
        <3>. QED  BY <1>1, <3>1, <3>2 DEF SInv
    <2>2. CASE DeleteBank(r)
        BY <1>1, <2>2 DEF DeleteBank, SInv, TypeOK
    <2>3. CASE ReadPage(r)
        <3>1. bank' = bank /\ page' = [page EXCEPT ![r] = Page(offset[r])]
            BY <2>3 DEF ReadPage, backend
        <3>2. Page(offset[r]) \subseteq stored
            BY DEF Page
        <3>. QED  BY <1>1, <3>1, <3>2 DEF SInv, TypeOK
    <2>. QED  BY <1>3, <2>1, <2>2, <2>3
<1>4. CASE /\ ~(Confirm \/ WorkerFails)
           /\ ~\E r \in Maintainers : RetainNext(r) \/ DeleteBank(r) \/ ReadPage(r)
    <2>1. bank' = bank
        BY <1>4 DEF Next, Store, Bootstrap, LeaseExpires, IngestionStep, BeginRetain, RecordReceipt,
            Proceed, RecoverInterrupted, ListCandidate, StartRebuild, RebuildRefused, CreateClean,
            RetainRefused, RecordProgress, LockRegistry, Flush, Switch, MarkFailed, LockForCleanup,
            DeleteRow, RebuildFails, Crash, vars, backend
    <2>2. \A r \in Maintainers : page'[r] \subseteq page[r]
        <3>1. \/ page' = page
              \/ \E r \in Maintainers : page' = [page EXCEPT ![r] = {}]
            BY <1>4 DEF Next, Store, Bootstrap, LeaseExpires, IngestionStep, BeginRetain,
                RecordReceipt, Proceed, RecoverInterrupted, ListCandidate, StartRebuild,
                RebuildRefused, CreateClean, RetainRefused, RecordProgress, LockRegistry, Flush,
                Switch, MarkFailed, LockForCleanup, DeleteRow, RebuildFails, Crash, Quit, vars,
                maintainer
        <3>. QED  BY <1>1, <3>1 DEF TypeOK
    <2>. QED  BY <1>1, <2>1, <2>2 DEF SInv
<1>. QED  BY <1>2, <1>3, <1>4

LEMMA SInvInit == Init => SInv
BY DEF Init, SInv

LEMMA SInvStep == IInv /\ CInv /\ SInv /\ [Next]_vars => SInv'
<1>. SUFFICES ASSUME IInv, CInv, SInv, [Next]_vars PROVE SInv'
    OBVIOUS
<1>1. ASSUME NEW r \in Maintainers, pc'[r] = "verified"
      PROVE  Recallable' \subseteq bank'[gen'[r]]
    <2>1. CASE pc[r] = "verified"
        BY <1>1, <2>1, HeldStays DEF SInv
    <2>2. CASE pc[r] # "verified"
        <3>1. ReadPage(r)
            BY <1>1, <2>2, OnlyLastPage
        <3>2. UNCHANGED <<active, bank, stored>> /\ TypeOK
            BY <3>1 DEF ReadPage, journal, backend, IInv
        <3>3. gen'[r] = gen[r] /\ stored \subseteq bank[gen[r]]
            BY <1>1, <3>1, LastPage
        <3>4. Recallable' \subseteq stored
            BY <3>2 DEF Recallable, SInv, TypeOK
        <3>. QED  BY <3>2, <3>3, <3>4
    <2>. QED  BY <2>1, <2>2
<1>. QED  BY <1>1, CommittedOnly DEF SInv

(* What readers find after a step of a maintainer they also find if it was *)
(* there before: the bank they read is not deleted, and the one that takes *)
(* its place has what it has.                                              *)
LEMMA MaintainerLosesNothing ==
    ASSUME IInv, SInv, NEW r \in Maintainers, MaintainerStep(r)
    PROVE  UNCHANGED <<stored, receipted>> /\ Recallable \subseteq Recallable'
<1>. USE GenerationsAssumption
<1>1. /\ TypeOK /\ CommandOK(r)
      /\ UNCHANGED <<stored, receipted>>
    BY DEF IInv, MaintainerStep, Proceed, RecoverInterrupted, ListCandidate, StartRebuild,
        RebuildRefused, CreateClean, ReadPage, RetainNext, RetainRefused, RecordProgress,
        LockRegistry, Flush, Switch, MarkFailed, LockForCleanup, DeleteBank, DeleteRow, RebuildFails,
        Crash
<1>2. CASE Switch(r)
    <2>1. /\ pc[r] = "verified" /\ active' = gen[r] /\ UNCHANGED bank /\ gen[r] \in Generations
        BY <1>1, <1>2 DEF Switch, backend, CommandOK, Rebuilding
    <2>2. Recallable' = bank[gen[r]]
        BY <2>1 DEF Recallable
    <2>. QED  BY <1>1, <2>1, <2>2 DEF SInv
<1>3. CASE DeleteBank(r)
    <2>1. gen[r] \in Generations \ {active} /\ UNCHANGED active
        BY <1>1, <1>3 DEF DeleteBank, CommandOK, journal
    <2>2. \A g \in Generations \ {gen[r]} : bank'[g] = bank[g]
        BY <1>1, <1>3, <2>1 DEF DeleteBank, TypeOK
    <2>. QED  BY <1>1, <2>1, <2>2 DEF Recallable, TypeOK
<1>4. CASE RetainNext(r)
    <2>1. /\ UNCHANGED active /\ gen[r] \in Generations
          /\ \E m : bank' = [bank EXCEPT ![gen[r]] = @ \cup {m}]
        BY <1>1, <1>4 DEF RetainNext, CommandOK, Rebuilding, journal
    <2>2. \A g \in Generations : bank[g] \subseteq bank'[g]
        BY <1>1, <2>1 DEF TypeOK
    <2>. QED  BY <1>1, <2>1, <2>2 DEF Recallable, TypeOK
<1>5. CASE ~Switch(r) /\ ~DeleteBank(r) /\ ~RetainNext(r)
    <2>1. UNCHANGED <<active, bank>>
        BY <1>5 DEF MaintainerStep, Proceed, RecoverInterrupted, ListCandidate, StartRebuild,
            RebuildRefused, CreateClean, ReadPage, RetainRefused, RecordProgress, LockRegistry, Flush,
            MarkFailed, LockForCleanup, DeleteRow, RebuildFails, Crash, journal, backend
    <2>. QED  BY <1>1, <2>1 DEF Recallable
<1>. QED  BY <1>2, <1>3, <1>4, <1>5

(* A step of the generations is one of the abstract memory, or none.       *)
LEMMA MemoryStep ==
    ASSUME IInv, CInv, SInv, [Next]_vars, IInv', SInv'
    PROVE  [Memory!Next]_(Memory!mvars)
<1>. USE GenerationsAssumption
<1>1. TypeOK /\ TypeOK' /\ Receipts
    BY DEF IInv, CInv
<1>2. Recallable' \subseteq stored'
    BY <1>1 DEF SInv, Recallable, TypeOK
<1>3. ASSUME UNCHANGED <<stored, receipted>>, Recallable \subseteq Recallable'
      PROVE  Memory!Learn
    BY <1>2, <1>3 DEF Memory!Learn
<1>4. CASE UNCHANGED vars
    BY <1>4 DEF vars, journal, backend, Recallable, Memory!mvars
<1>5. ASSUME NEW m \in Messages, Store(m) PROVE Memory!Archive(m)
    BY <1>5 DEF Store, journal, backend, Recallable, Memory!Archive
<1>6. CASE RecordReceipt
    <2>1. active # 0 /\ msg \in bank[active] /\ msg \in Messages
        BY <1>1, <1>6 DEF RecordReceipt, Receipts, Remembered, IInv, WorkerOK
    <2>2. receipted' = receipted \cup {msg} /\ UNCHANGED <<stored, Recallable>>
        BY <1>6 DEF RecordReceipt, journal, backend, Recallable
    <2>3. Memory!Receipt(msg)
        BY <2>1, <2>2 DEF Memory!Receipt, Recallable
    <2>. QED  BY <2>1, <2>3 DEF Memory!Next
<1>7. CASE Bootstrap \/ (\E g \in Generations : LeaseExpires(g)) \/ (\E m \in Messages : BeginRetain(m))
    <2>1. UNCHANGED <<stored, receipted>> /\ Recallable \subseteq Recallable'
        BY <1>7 DEF Bootstrap, LeaseExpires, BeginRetain, journal, backend, Recallable
    <2>. QED  BY <1>3, <2>1 DEF Memory!Next
<1>8. CASE Confirm \/ WorkerFails
    <2>1. UNCHANGED <<stored, receipted, active>>
        BY <1>8 DEF Confirm, WorkerFails, journal
    <2>2. bank' = bank \/ bank' = [bank EXCEPT ![active] = @ \cup {msg}]
        BY <1>8 DEF Confirm, WorkerFails
    <2>3. active # 0 => bank[active] \subseteq bank'[active]
        BY <1>1, <2>2 DEF TypeOK
    <2>. QED  BY <1>3, <2>1, <2>3 DEF Recallable, Memory!Next
<1>9. ASSUME NEW r \in Maintainers, MaintainerStep(r) PROVE Memory!Next
    BY <1>3, <1>9, MaintainerLosesNothing DEF Memory!Next
<1>. QED  BY <1>4, <1>5, <1>6, <1>7, <1>8, <1>9
             DEF Next, MaintainerStep, IngestionStep, Memory!Next

(* While messages are committed in order, generations implement one memory  *)
(* that only grows: rebuild, switch, cleanup, recovery and crashes of any   *)
(* number of commands are steps that a reader of the memory cannot tell     *)
(* from a retain, and a receipt is given only for what the reader finds.    *)
THEOREM GenerationsImplementMemory ==
    ASSUME InOrder
    PROVE  Spec => ImplementsMemory
<1>1. Init => Memory!Init
    BY DEF Init, Recallable, Memory!Init
<1>2. IInv /\ CInv /\ [Next]_vars => CInv'
    BY CInvStep
<1>3. IInv /\ CInv /\ SInv /\ [Next]_vars /\ IInv' /\ SInv' => [Memory!Next]_(Memory!mvars)
    BY MemoryStep
<1>. QED  BY <1>1, <1>2, <1>3, CInvInit, SInvInit, SInvStep, Always, PTL
             DEF Spec, ImplementsMemory, Memory!Spec
==============================================================================
