-------------------------- MODULE MemoryGenerations --------------------------
(***************************************************************************)
(* Generations of the semantic memory: memory_rebuild.py and               *)
(* memory/generation.py.                                                   *)
(*                                                                         *)
(* Ingestion retains messages in the bank of the active generation, holding*)
(* the registry row lock while it waits for the backend.  A maintainer, in *)
(* a process of its own, replays the archive into a new bank, catches up   *)
(* under the registry lock and moves the pointer; or it deletes the banks  *)
(* of failed and superseded generations.                                   *)
(*                                                                         *)
(* Covered: crashes of everybody at every step, leases that expire under a *)
(* living maintainer, several maintainers.  Not covered: the derived tables*)
(* a rebuild rewrites, a read that the pointer overtakes.                  *)
(***************************************************************************)
EXTENDS Integers, FiniteSets

CONSTANTS
    Messages,        \* archive messages SQL finds not blank, by created_at
    Whitespace,      \* those of them that Python finds blank
    Generations,     \* numbered in the order they are journaled; 1 is bootstrapped
    Maintainers,
    Ingestion,       \* the ingestion worker, as a lock holder
    NoOwner,
    BatchSize,       \* MemoryRebuildConfig.batch_size
    InOrder,         \* messages are committed in the order of created_at
    MaxFailures      \* bound: crashes and backend failures

ASSUME GenerationsAssumption ==
    /\ Messages \subseteq Nat
    /\ IsFiniteSet(Messages)
    /\ Whitespace \subseteq Messages
    /\ Generations \subseteq Nat \ {0}
    /\ 1 \in Generations
    /\ Ingestion \notin Maintainers
    /\ NoOwner \notin Maintainers \cup {Ingestion}
    /\ BatchSize \in Nat \ {0}
    /\ InOrder \in BOOLEAN
    /\ MaxFailures \in Nat

VARIABLES
    stored,          \* committed messages
    receipted,       \* those with an INGESTED receipt
    status,          \* MemoryGeneration.status; "NONE" and "DELETED" without a row
    overdue,         \* generations whose lease has expired
    replayed,        \* messages_replayed
    active,          \* MemoryBackendRegistry.active_generation_id, 0 if not set
    banks, bank,     \* which generations have a bank, and what is in it
    registryLock,    \* owner of the registry row lock
    rowLock,         \* generations whose row a transaction has locked
    pc, gen,         \* of a maintainer: its next step, its generation
    offset, page,    \* rows read so far, messages of the page still to retain
    wpc, msg,        \* the same of the ingestion worker: step, message
    failures

journal == <<status, overdue, replayed, active>>
backend == <<banks, bank>>
maintainer == <<pc, gen, offset, page>>
worker == <<wpc, msg>>
vars == <<stored, receipted, journal, backend, registryLock, rowLock, maintainer, worker, failures>>

RowStatuses == {"NONE", "BUILDING", "ACTIVE", "SUPERSEDED", "FAILED", "DELETED"}
Steps == {"idle", "start", "create", "replay", "retain", "lock", "switching", "catchUp", "verified",
          "failing", "cleanup", "delete", "deleteRow"}

Init ==
    /\ stored = {} /\ receipted = {}
    /\ status = [g \in Generations |-> "NONE"]
    /\ overdue = {}
    /\ replayed = [g \in Generations |-> 0]
    /\ active = 0
    /\ banks = {1}
    /\ bank = [g \in Generations |-> {}]
    /\ registryLock = NoOwner
    /\ rowLock = {}
    /\ pc = [r \in Maintainers |-> "idle"]
    /\ gen = [r \in Maintainers |-> 0]
    /\ offset = [r \in Maintainers |-> 0]
    /\ page = [r \in Maintainers |-> {}]
    /\ wpc = "idle" /\ msg = 0
    /\ failures = 0

(* A turn commits a message.  Its created_at is the start of the transaction. *)
Store(m) ==
    /\ m \notin stored
    /\ InOrder => \A k \in stored : k < m
    /\ stored' = stored \cup {m}
    /\ UNCHANGED <<receipted, journal, backend, registryLock, rowLock, maintainer, worker, failures>>

(* bootstrap_existing, which the application and every maintenance command call first. *)
Bootstrap ==
    /\ registryLock = NoOwner
    /\ active = 0
    /\ active' = 1
    /\ status' = [status EXCEPT ![1] = "ACTIVE"]
    /\ UNCHANGED <<stored, receipted, overdue, replayed, backend, registryLock, rowLock, maintainer,
                   worker, failures>>

LeaseExpires(g) ==
    /\ status[g] = "BUILDING" /\ g \notin overdue
    /\ overdue' = overdue \cup {g}
    /\ UNCHANGED <<stored, receipted, status, replayed, active, backend, registryLock, rowLock,
                   maintainer, worker, failures>>

-----------------------------------------------------------------------------
(* Ingestion: ActiveGenerationMemoryService.retain, then the receipt. *)

(* The pointer is read under the registry lock, which is kept. *)
PointerValid == active # 0 /\ status[active] = "ACTIVE"
BeginRetain(m) ==
    /\ wpc = "idle"
    /\ m \in stored \ (Whitespace \cup receipted)
    /\ registryLock = NoOwner
    /\ PointerValid
    /\ registryLock' = Ingestion
    /\ wpc' = "retaining" /\ msg' = m
    /\ UNCHANGED <<stored, receipted, journal, backend, rowLock, maintainer, failures>>

(* The backend confirms, and the commit releases the lock. *)
Confirm ==
    /\ wpc = "retaining"
    /\ active \in banks
    /\ bank' = [bank EXCEPT ![active] = @ \cup {msg}]
    /\ registryLock' = NoOwner
    /\ wpc' = "confirmed"
    /\ UNCHANGED <<stored, receipted, journal, banks, rowLock, maintainer, msg, failures>>

RecordReceipt ==
    /\ wpc = "confirmed"
    /\ receipted' = receipted \cup {msg}
    /\ wpc' = "idle" /\ msg' = 0
    /\ UNCHANGED <<stored, journal, backend, registryLock, rowLock, maintainer, failures>>

(* A failure or a crash before the receipt; the backend may have stored the message. *)
WorkerFails ==
    /\ wpc # "idle"
    /\ failures < MaxFailures
    /\ failures' = failures + 1
    /\ bank' \in {bank} \cup {[bank EXCEPT ![active] = @ \cup {msg}] : w \in {"retaining"} \cap {wpc}}
    /\ registryLock' = IF wpc = "retaining" THEN NoOwner ELSE registryLock
    /\ wpc' = "idle" /\ msg' = 0
    /\ UNCHANGED <<stored, receipted, journal, banks, rowLock, maintainer>>

-----------------------------------------------------------------------------
(* Maintenance: rebuild. *)
Goto(r, step) == pc' = [pc EXCEPT ![r] = step]

(* The command is over; its transaction, if any, is closed. *)
Quit(r) ==
    /\ Goto(r, "idle")
    /\ gen' = [gen EXCEPT ![r] = 0]
    /\ offset' = [offset EXCEPT ![r] = 0]
    /\ page' = [page EXCEPT ![r] = {}]
Close(r) ==
    /\ registryLock' = IF registryLock = r THEN NoOwner ELSE registryLock
    /\ rowLock' = IF registryLock = r THEN rowLock \ {gen[r]} ELSE rowLock

Building == {g \in Generations : status[g] = "BUILDING"}

(* recover_interrupted waits for the rows it selects. *)
RecoverInterrupted(r) ==
    /\ pc[r] = "idle" /\ active # 0
    /\ Building \cap overdue \cap rowLock = {}
    /\ status' = [g \in Generations |-> IF g \in Building \cap overdue THEN "FAILED" ELSE status[g]]
    /\ overdue' = overdue \ Building
    /\ Goto(r, "start")
    /\ UNCHANGED <<stored, receipted, replayed, active, backend, registryLock, rowLock, gen, offset,
                   page, worker, failures>>

NoneBuilding == Building = {}
StartRebuild(r) ==
    /\ pc[r] = "start"
    /\ registryLock = NoOwner
    /\ NoneBuilding
    /\ \E g \in Generations :
          /\ status[g] = "NONE" /\ g # 1
          /\ \A h \in Generations : h < g => h = 1 \/ status[h] # "NONE"
          /\ status' = [status EXCEPT ![g] = "BUILDING"]
          /\ gen' = [gen EXCEPT ![r] = g]
    /\ Goto(r, "create")
    /\ UNCHANGED <<stored, receipted, overdue, replayed, active, backend, registryLock, rowLock,
                   offset, page, worker, failures>>

(* "another memory rebuild is already running", or the bound on Generations. *)
RebuildRefused(r) ==
    /\ pc[r] = "start"
    /\ registryLock = NoOwner
    /\ ~NoneBuilding \/ \A g \in Generations \ {1} : status[g] # "NONE"
    /\ Quit(r)
    /\ UNCHANGED <<stored, receipted, journal, backend, registryLock, rowLock, worker, failures>>

CreateClean(r) ==
    /\ pc[r] = "create"
    /\ banks' = banks \cup {gen[r]}
    /\ Goto(r, "replay")
    /\ UNCHANGED <<stored, receipted, journal, bank, registryLock, rowLock, gen, offset, page,
                   worker, failures>>

(* SELECT ... ORDER BY created_at OFFSET n LIMIT BatchSize, and n plus the rows it returns. *)
Rank(m) == Cardinality({k \in stored : k < m})
ReceiptedPage(n) ==                           \* variant: replays what has a receipt
    {m \in receipted : n <= Rank(m) /\ Rank(m) < n + BatchSize}
Page(n) == {m \in stored : n <= Rank(m) /\ Rank(m) < n + BatchSize}
BeyondStays(n) == n                           \* variant: the offset is not advanced
BeyondFull(n) == n + BatchSize                \* variant: by a full page, however short it was
BeyondLast(n) ==                              \* variant: one less at the end
    IF n + BatchSize < Cardinality(stored) THEN n + BatchSize ELSE Cardinality(stored) - 1
Beyond(n) == IF n + BatchSize < Cardinality(stored) THEN n + BatchSize ELSE Cardinality(stored)

ReadPage(r) ==
    /\ \/ pc[r] = "replay" /\ Goto(r, IF Page(offset[r]) = {} THEN "lock" ELSE "retain")
       \/ pc[r] = "switching" /\ Goto(r, IF Page(offset[r]) = {} THEN "verified" ELSE "catchUp")
    /\ page' = [page EXCEPT ![r] = Page(offset[r])]
    /\ offset' = [offset EXCEPT ![r] = Beyond(offset[r])]
    /\ UNCHANGED <<stored, receipted, journal, backend, registryLock, rowLock, gen, worker, failures>>

(* The adapter refuses a text that is blank to Python. *)
RetainNext(r) ==
    /\ pc[r] \in {"retain", "catchUp"}
    /\ gen[r] \in banks
    /\ \E m \in page[r] \ Whitespace :
          /\ \A k \in page[r] : m <= k
          /\ bank' = [bank EXCEPT ![gen[r]] = @ \cup {m}]
          /\ page' = [page EXCEPT ![r] = @ \ {m}]
    /\ UNCHANGED <<stored, receipted, journal, banks, registryLock, rowLock, pc, gen, offset, worker,
                   failures>>

RetainRefused(r) ==
    /\ pc[r] \in {"retain", "catchUp"}
    /\ \/ gen[r] \notin banks
       \/ \E m \in page[r] \cap Whitespace : \A k \in page[r] : m <= k
    /\ Close(r)
    /\ Goto(r, "failing")
    /\ UNCHANGED <<stored, receipted, journal, backend, gen, offset, page, worker, failures>>

(* _record_progress, which also renews the lease. *)
RecordProgress(r) ==
    /\ pc[r] = "retain" /\ page[r] = {}
    /\ IF status[gen[r]] = "BUILDING"
       THEN /\ replayed' = [replayed EXCEPT ![gen[r]] = offset[r]]
            /\ overdue' = overdue \ {gen[r]}
            /\ Goto(r, "replay")
       ELSE UNCHANGED <<replayed, overdue>> /\ Goto(r, "failing")
    /\ UNCHANGED <<stored, receipted, status, active, backend, registryLock, rowLock, gen, offset,
                   page, worker, failures>>

(* _verify_derive_and_switch: the registry lock, and is it still BUILDING? *)
LockRegistry(r) ==
    /\ pc[r] = "lock"
    /\ registryLock = NoOwner
    /\ IF status[gen[r]] = "BUILDING"
       THEN registryLock' = r /\ Goto(r, "switching")
       ELSE UNCHANGED registryLock /\ Goto(r, "failing")
    /\ offset' = [offset EXCEPT ![r] = replayed[gen[r]]]
    /\ UNCHANGED <<stored, receipted, journal, backend, rowLock, gen, page, worker, failures>>

(* Flushing progress and lease locks the row until the commit; the table refuses *)
(* a lease if the row was marked FAILED meanwhile.                               *)
Flush(r) ==
    /\ pc[r] = "catchUp" /\ page[r] = {}
    /\ IF status[gen[r]] = "BUILDING"
       THEN /\ rowLock' = rowLock \cup {gen[r]}
            /\ UNCHANGED registryLock
            /\ Goto(r, "switching")
       ELSE Close(r) /\ Goto(r, "failing")
    /\ UNCHANGED <<stored, receipted, journal, backend, gen, offset, page, worker, failures>>

(* The index was verified; one commit moves the pointer. *)
StaysActive(g) == status[g]                   \* variant: the predecessor is not superseded
Superseded(g) == IF g = active THEN "SUPERSEDED" ELSE status[g]
Switch(r) ==
    /\ pc[r] = "verified"
    /\ status' = [g \in Generations |-> IF g = gen[r] THEN "ACTIVE" ELSE Superseded(g)]
    /\ overdue' = overdue \ {gen[r]}
    /\ replayed' = [replayed EXCEPT ![gen[r]] = offset[r]]
    /\ active' = gen[r]
    /\ Close(r)
    /\ Quit(r)
    /\ UNCHANGED <<stored, receipted, backend, worker, failures>>

(* The backend, the verification or the database fails: roll back ... *)
RebuildFails(r) ==
    /\ pc[r] \in {"create", "replay", "retain", "lock", "switching", "catchUp", "verified"}
    /\ failures < MaxFailures
    /\ failures' = failures + 1
    /\ Close(r)
    /\ Goto(r, "failing")
    /\ UNCHANGED <<stored, receipted, journal, backend, gen, offset, page, worker>>

(* ... and _mark_failed. *)
MarkFailed(r) ==
    /\ pc[r] = "failing"
    /\ IF status[gen[r]] = "BUILDING"
       THEN /\ status' = [status EXCEPT ![gen[r]] = "FAILED"]
            /\ overdue' = overdue \ {gen[r]}
       ELSE UNCHANGED <<status, overdue>>
    /\ Quit(r)
    /\ UNCHANGED <<stored, receipted, replayed, active, backend, registryLock, rowLock, worker,
                   failures>>

-----------------------------------------------------------------------------
(* Maintenance: cleanup. *)

(* cleanup_candidates: a list that may be stale when it is used. *)
ListCandidate(r) ==
    /\ pc[r] = "idle" /\ active # 0
    /\ \E g \in Generations \ {active} :
          /\ status[g] \in {"FAILED", "SUPERSEDED"}
          /\ gen' = [gen EXCEPT ![r] = g]
    /\ Goto(r, "cleanup")
    /\ UNCHANGED <<stored, receipted, journal, backend, registryLock, rowLock, offset, page, worker,
                   failures>>

(* cleanup_orphans checks again under both locks. *)
TrustsList(g) == TRUE                         \* variant: no second check
Retired(g) == g # active /\ status[g] \in {"FAILED", "SUPERSEDED"}
LockForCleanup(r) ==
    /\ pc[r] = "cleanup"
    /\ registryLock = NoOwner /\ gen[r] \notin rowLock
    /\ IF Retired(gen[r])
       THEN /\ registryLock' = r
            /\ rowLock' = rowLock \cup {gen[r]}
            /\ Goto(r, "delete")
            /\ UNCHANGED <<gen, offset, page>>
       ELSE UNCHANGED <<registryLock, rowLock>> /\ Quit(r)
    /\ UNCHANGED <<stored, receipted, journal, backend, worker, failures>>

(* A bank that is already gone counts as deleted. *)
DeleteBank(r) ==
    /\ pc[r] = "delete"
    /\ banks' = banks \ {gen[r]}
    /\ bank' = [bank EXCEPT ![gen[r]] = {}]
    /\ Goto(r, "deleteRow")
    /\ UNCHANGED <<stored, receipted, journal, registryLock, rowLock, gen, offset, page, worker,
                   failures>>

DeleteRow(r) ==
    /\ pc[r] = "deleteRow"
    /\ status' = [status EXCEPT ![gen[r]] = "DELETED"]
    /\ Close(r)
    /\ Quit(r)
    /\ UNCHANGED <<stored, receipted, overdue, replayed, active, backend, worker, failures>>

(* The command dies, or a cleanup raises: locks go, the journal stays as it is. *)
Crash(r) ==
    /\ pc[r] # "idle"
    /\ failures < MaxFailures
    /\ failures' = failures + 1
    /\ Close(r)
    /\ Quit(r)
    /\ UNCHANGED <<stored, receipted, journal, backend, worker>>

-----------------------------------------------------------------------------
IngestionStep == Confirm \/ RecordReceipt \/ \E m \in Messages : BeginRetain(m)

(* What a command does once it was started. *)
Proceed(r) ==
    \/ StartRebuild(r) \/ RebuildRefused(r) \/ CreateClean(r) \/ ReadPage(r) \/ RetainNext(r)
    \/ RetainRefused(r) \/ RecordProgress(r) \/ LockRegistry(r) \/ Flush(r) \/ Switch(r)
    \/ MarkFailed(r) \/ LockForCleanup(r) \/ DeleteBank(r) \/ DeleteRow(r)

Next ==
    \/ Bootstrap
    \/ \E m \in Messages : Store(m)
    \/ \E g \in Generations : LeaseExpires(g)
    \/ IngestionStep \/ WorkerFails
    \/ \E r \in Maintainers :
          RecoverInterrupted(r) \/ ListCandidate(r) \/ Proceed(r) \/ RebuildFails(r) \/ Crash(r)

Spec == Init /\ [][Next]_vars

(* The application starts, its worker runs on, and a command that was started *)
(* is not abandoned without dying.  Nobody has to start one.                  *)
Fairness ==
    /\ WF_vars(Bootstrap)
    /\ WF_vars(IngestionStep)
    /\ \A r \in Maintainers : WF_vars(Proceed(r))
FairSpec == Spec /\ Fairness

-----------------------------------------------------------------------------
(***************************************************************************)
(* Properties                                                              *)
(***************************************************************************)

(* Type of the tables, the backend and the processes. *)
TypeOK ==
    /\ stored \subseteq Messages
    /\ receipted \subseteq Messages
    /\ status \in [Generations -> RowStatuses]
    /\ overdue \subseteq Generations
    /\ replayed \in [Generations -> Nat]
    /\ active \in Generations \cup {0}
    /\ banks \subseteq Generations
    /\ bank \in [Generations -> SUBSET Messages]
    /\ registryLock \in Maintainers \cup {Ingestion, NoOwner}
    /\ rowLock \subseteq Generations
    /\ pc \in [Maintainers -> Steps]
    /\ gen \in [Maintainers -> Generations \cup {0}]
    /\ offset \in [Maintainers -> Nat]
    /\ page \in [Maintainers -> SUBSET Messages]
    /\ wpc \in {"idle", "retaining", "confirmed"}
    /\ msg \in Messages \cup {0}
    /\ failures \in 0 .. MaxFailures

(* The pointer is never invalid: what it names is ACTIVE and has a bank,      *)
(* nothing else is ACTIVE, whatever was recovered, overtaken or cleaned up.   *)
PointerSound ==
    /\ active # 0 => status[active] = "ACTIVE" /\ active \in banks
    /\ \A g \in Generations : status[g] = "ACTIVE" => g = active

(* One rebuild at a time is journaled as running. *)
OneRebuild == \A g, h \in Building : g = h

(* Nothing that was remembered is forgotten by a switch: each message with a  *)
(* receipt is in the active bank, although receipts are written after the     *)
(* registry lock is released and the pointer may have moved in between.       *)
ActiveComplete == active # 0 => receipted \subseteq bank[active]

(* Seen through the pointer, the banks are one SemanticMemory: no switch and  *)
(* no cleanup loses anything a reader could find, receipted or not (a retain  *)
(* whose commit failed), and no message is found that was not committed.      *)
Recallable == IF active = 0 THEN {} ELSE bank[active]
Memory == INSTANCE SemanticMemory WITH
    archived <- stored, recalled <- Recallable, confirmed <- receipted
ImplementsMemory == Memory!Spec

(* A bank is deleted only while its generation is failed or superseded and    *)
(* not active; release notes 0.2.1: active and BUILDING ones are protected.   *)
DeletesRetiredOnly ==
    [][\A g \in banks \ banks' : g # active /\ status[g] \in {"FAILED", "SUPERSEDED"}]_vars

(* A rebuild holds up ingestion only for a while. *)
IngestedAfterAll == \A m \in Messages \ Whitespace : m \in stored ~> m \in receipted

(* A command that was started comes to an end. *)
CommandsEnd == \A r \in Maintainers : pc[r] # "idle" ~> pc[r] = "idle"
=============================================================================
