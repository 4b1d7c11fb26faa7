--------------------------- MODULE MemoryIngestion ---------------------------
(***************************************************************************)
(* The catch-up loop from the raw message archive to the semantic memory   *)
(* backend: memory_pipeline.py over memory_ingestion.py.                   *)
(*                                                                         *)
(* A worker claims a batch of messages without a receipt from the first    *)
(* conversation that is open, under a lease; retains them one by one in    *)
(* the backend, writing a receipt after each; finishes the batch; and      *)
(* refreshes what is derived from the archive.  Every step below is one    *)
(* database transaction or one backend call, so a worker may die, stall    *)
(* past its lease or meet another worker between any two of them.  Nothing *)
(* fences off a worker whose lease was taken over.                         *)
(*                                                                         *)
(* Wall-clock time is abstracted: a lease expires, and a retry becomes due,*)
(* at some time.  An attempt that failed may have lasted longer than its   *)
(* delay, which the code counts from the start of the attempt, so that the *)
(* retry is due at once.                                                   *)
(***************************************************************************)
EXTENDS Naturals, FiniteSets

CONSTANTS
    Conversations,   \* numbered in the order of Conversation.created_at
    Messages,        \* numbered in the order of Message.created_at
    ConvOf,          \* the conversation of each message
    Blank,           \* messages without text
    Poison,          \* messages the backend never accepts in time
    Workers,         \* ingestion workers that may exist at the same time
    BatchSize,       \* MemoryPipelineConfig.batch_size
    MaxFailures      \* bound: crashes and failures that are not Poison's

ASSUME IngestionAssumption ==
    /\ Conversations \subseteq Nat \ {0}
    /\ Messages \subseteq Nat \ {0}
    /\ ConvOf \in [Messages -> Conversations]
    /\ Blank \subseteq Messages
    /\ Poison \subseteq Messages
    /\ BatchSize \in Nat \ {0}
    /\ MaxFailures \in Nat

VARIABLES
    stored,          \* committed messages, the raw archive
    status,          \* MemoryIngestionState.status, "NONE" without a row
    lease,           \* lease_expires_at: not set, in the future or in the past
    retryLater,      \* next_attempt_at is in the future
    dirty,           \* derived_dirty_through_message_id, 0 if none
    refreshLater,    \* derived_next_attempt_at is in the future
    receipt,         \* MemoryIngestionReceipt.outcome, "NONE" without a row
    bank,            \* messages the backend has stored
    summary,         \* messages the derived state of a conversation covers
    pc, conv,        \* of a worker: its next step, the conversation of its batch
    batch, todo,     \* the claimed messages, those not yet dealt with
    target,          \* the conversation whose derived state it refreshes
    cur,             \* the message in hand, or the refresh claim's last one
    snap,            \* the messages a refresh has read
    failures

rows == <<status, lease, retryLater, dirty, refreshLater>>
locals == <<conv, batch, todo, target, cur, snap>>
vars == <<stored, rows, receipt, bank, summary, pc, locals, failures>>

RowStatuses == {"NONE", "IDLE", "PROCESSING", "FAILED"}
Outcomes == {"NONE", "INGESTED", "IGNORED_BLANK"}
Steps == {"asleep", "ready", "next", "leased", "retained", "failing", "reconcile",
          "refresh", "write", "refreshed"}

Of(c) == {m \in Messages : ConvOf[m] = c}
Archive(c) == stored \cap Of(c)
Replayed(c) == Archive(c)                           \* variant: receipts are not consulted
Unreceipted(c) == {m \in Archive(c) : receipt[m] = "NONE"}

(* The first BatchSize of a set of messages. *)
First(ms) == {m \in ms : Cardinality({k \in ms : k < m}) < BatchSize}

Init ==
    /\ stored = {}
    /\ status = [c \in Conversations |-> "NONE"]
    /\ lease = [c \in Conversations |-> "none"]
    /\ retryLater = [c \in Conversations |-> FALSE]
    /\ dirty = [c \in Conversations |-> 0]
    /\ refreshLater = [c \in Conversations |-> FALSE]
    /\ receipt = [m \in Messages |-> "NONE"]
    /\ bank = {}
    /\ summary = [c \in Conversations |-> {}]
    /\ pc = [w \in Workers |-> "ready"]
    /\ conv = [w \in Workers |-> 0]
    /\ batch = [w \in Workers |-> {}]
    /\ todo = [w \in Workers |-> {}]
    /\ target = [w \in Workers |-> 0]
    /\ cur = [w \in Workers |-> 0]
    /\ snap = [w \in Workers |-> {}]
    /\ failures = 0

(* A turn commits a user or an assistant message, in any order. *)
Store(m) ==
    /\ m \notin stored
    /\ stored' = stored \cup {m}
    /\ UNCHANGED <<rows, receipt, bank, summary, pc, locals, failures>>

-----------------------------------------------------------------------------
(* Time passes. *)
ExpireLease(c) ==
    /\ lease[c] = "held"
    /\ lease' = [lease EXCEPT ![c] = "expired"]
    /\ UNCHANGED <<stored, status, retryLater, dirty, refreshLater, receipt, bank, summary,
                   pc, locals, failures>>

RetryDue(c) ==
    /\ retryLater[c]
    /\ retryLater' = [retryLater EXCEPT ![c] = FALSE]
    /\ UNCHANGED <<stored, status, lease, dirty, refreshLater, receipt, bank, summary,
                   pc, locals, failures>>

RefreshDue(c) ==
    /\ refreshLater[c]
    /\ refreshLater' = [refreshLater EXCEPT ![c] = FALSE]
    /\ UNCHANGED <<stored, status, lease, retryLater, dirty, receipt, bank, summary,
                   pc, locals, failures>>

-----------------------------------------------------------------------------
Goto(w, step) == pc' = [pc EXCEPT ![w] = step]

(* process_once is over and its locals are gone. *)
Return(w, step) ==
    /\ Goto(w, step)
    /\ conv' = [conv EXCEPT ![w] = 0]
    /\ batch' = [batch EXCEPT ![w] = {}]
    /\ todo' = [todo EXCEPT ![w] = {}]
    /\ target' = [target EXCEPT ![w] = 0]
    /\ cur' = [cur EXCEPT ![w] = 0]
    /\ snap' = [snap EXCEPT ![w] = {}]

(* claim_next_batch passes over conversations without messages, leased ones *)
(* and those waiting for a retry.                                           *)
LeasedOut(c) == status[c] = "PROCESSING"            \* variant: an expired lease still counts
Leased(c) == status[c] = "PROCESSING" /\ lease[c] = "held"
Open(c) == Archive(c) # {} /\ ~Leased(c) /\ ~retryLater[c]
Claimable(c) == Open(c) /\ Unreceipted(c) # {}

(* Open conversations that have caught up become IDLE on the way; the first *)
(* that has not is claimed.                                                 *)
Claim(w) ==
    /\ pc[w] = "ready"
    /\ \E c \in Conversations :
          /\ Claimable(c)
          /\ \A d \in Conversations : d < c => ~Claimable(d)
          /\ status' = [d \in Conversations |->
                           IF d = c THEN "PROCESSING"
                           ELSE IF d < c /\ Open(d) THEN "IDLE" ELSE status[d]]
          /\ lease' = [d \in Conversations |->
                           IF d = c THEN "held"
                           ELSE IF d < c /\ Open(d) THEN "none" ELSE lease[d]]
          /\ conv' = [conv EXCEPT ![w] = c]
          /\ batch' = [batch EXCEPT ![w] = First(Unreceipted(c))]
          /\ todo' = [todo EXCEPT ![w] = First(Unreceipted(c))]
    /\ Goto(w, "next")
    /\ UNCHANGED <<stored, retryLater, dirty, refreshLater, receipt, bank, summary, target, cur,
                   snap, failures>>

NothingToClaim(w) ==
    /\ pc[w] = "ready"
    /\ \A c \in Conversations : ~Claimable(c)
    /\ status' = [d \in Conversations |-> IF Open(d) THEN "IDLE" ELSE status[d]]
    /\ lease' = [d \in Conversations |-> IF Open(d) THEN "none" ELSE lease[d]]
    /\ Goto(w, "reconcile")
    /\ UNCHANGED <<stored, retryLater, dirty, refreshLater, receipt, bank, summary, locals,
                   failures>>

(* renew_lease before the next message raises if the state is not PROCESSING *)
(* any more; it does not notice that another worker made it so.              *)
RenewLease(w) ==
    /\ pc[w] = "next"
    /\ \E m \in todo[w] :
          /\ \A k \in todo[w] : m <= k
          /\ cur' = [cur EXCEPT ![w] = m]
    /\ IF status[conv[w]] = "PROCESSING"
       THEN lease' = [lease EXCEPT ![conv[w]] = "held"] /\ Goto(w, "leased")
       ELSE UNCHANGED lease /\ Goto(w, "failing")
    /\ UNCHANGED <<stored, status, retryLater, dirty, refreshLater, receipt, bank, summary,
                   conv, batch, todo, target, snap, failures>>

(* A receipt is written once; an outcome never changes. *)
Receipts(ms, outcome) ==
    [m \in Messages |-> IF m \in ms /\ receipt[m] = "NONE" THEN outcome ELSE receipt[m]]

RecordIgnored(w) ==
    /\ pc[w] = "leased"
    /\ cur[w] \in Blank
    /\ receipt' = Receipts({cur[w]}, "IGNORED_BLANK")
    /\ todo' = [todo EXCEPT ![w] = @ \ {cur[w]}]
    /\ Goto(w, "next")
    /\ UNCHANGED <<stored, rows, bank, summary, conv, batch, target, cur, snap, failures>>

(* The backend confirms the retain operation of this message, whose identity *)
(* depends on the message only: retaining again stores nothing new.          *)
Forgets(w) == UNCHANGED bank                        \* variant: accepted but not completed
Remembers(w) == bank' = bank \cup {cur[w]}
Retain(w) ==
    /\ pc[w] = "leased"
    /\ cur[w] \notin Blank \cup Poison
    /\ Remembers(w)
    /\ Goto(w, "retained")
    /\ UNCHANGED <<stored, rows, receipt, summary, locals, failures>>

(* The backend is not ready, refuses, or does not answer in time although it *)
(* may have stored the message.                                              *)
RetainFails(w) ==
    /\ pc[w] = "leased"
    /\ cur[w] \notin Blank
    /\ \/ cur[w] \in Poison /\ UNCHANGED failures
       \/ failures < MaxFailures /\ failures' = failures + 1
    /\ bank' \in {bank, bank \cup {cur[w]}}
    /\ Goto(w, "failing")
    /\ UNCHANGED <<stored, rows, receipt, summary, locals>>

(* record_message_succeeded: the receipt, and the derived state is dirty. *)
NotDirtied(w) == UNCHANGED <<dirty, refreshLater>>  \* variant
Dirtied(w) ==
    /\ dirty' = [dirty EXCEPT ![conv[w]] = cur[w]]
    /\ refreshLater' = [refreshLater EXCEPT ![conv[w]] = FALSE]
RecordReceipt(w) ==
    /\ pc[w] = "retained"
    /\ receipt' = Receipts({cur[w]}, "INGESTED")
    /\ Dirtied(w)
    /\ todo' = [todo EXCEPT ![w] = @ \ {cur[w]}]
    /\ Goto(w, "next")
    /\ UNCHANGED <<stored, status, lease, retryLater, bank, summary, conv, batch, target,
                   cur, snap, failures>>

(* mark_succeeded: receipts for whatever of the batch has none, and IDLE,    *)
(* whoever holds the lease by now.                                           *)
Succeeded(w) ==                                     \* variant: not a status of the table
    status' = [status EXCEPT ![conv[w]] = "SUCCEEDED"]
Idle(w) == status' = [status EXCEPT ![conv[w]] = "IDLE"]
Finish(w) ==
    /\ pc[w] = "next"
    /\ todo[w] = {}
    /\ receipt' = Receipts(batch[w], "INGESTED")
    /\ Idle(w)
    /\ lease' = [lease EXCEPT ![conv[w]] = "none"]
    /\ retryLater' = [retryLater EXCEPT ![conv[w]] = FALSE]
    /\ Goto(w, "reconcile")
    /\ UNCHANGED <<stored, dirty, refreshLater, bank, summary, locals, failures>>

(* mark_failed: FAILED until the retry is due, which it is at once if the    *)
(* attempt lasted longer than its delay.                                     *)
DropsLease(w) == lease' = [lease EXCEPT ![conv[w]] = "none"]
MarkFailed(w) ==
    /\ pc[w] = "failing"
    /\ status' = [status EXCEPT ![conv[w]] = "FAILED"]
    /\ DropsLease(w)
    /\ \E later \in BOOLEAN : retryLater' = [retryLater EXCEPT ![conv[w]] = later]
    /\ Return(w, "ready")
    /\ UNCHANGED <<stored, dirty, refreshLater, receipt, bank, summary, failures>>

-----------------------------------------------------------------------------
(* _reconcile_one: claim_derived_refresh takes a dirty conversation that is  *)
(* due, without a lease.                                                     *)
Refreshable(c) == dirty[c] # 0 /\ ~refreshLater[c]

ClaimRefresh(w) ==
    /\ pc[w] = "reconcile"
    /\ \E c \in Conversations :
          /\ Refreshable(c)
          /\ target' = [target EXCEPT ![w] = c]
          /\ cur' = [cur EXCEPT ![w] = dirty[c]]
    /\ Goto(w, "refresh")
    /\ UNCHANGED <<stored, rows, receipt, bank, summary, conv, batch, todo, snap, failures>>

(* Without one, or if another worker has its row locked, process_once reports *)
(* whether it had a batch, and the worker loops or sleeps.                    *)
NothingToRefresh(w) ==
    /\ pc[w] = "reconcile"
    /\ Workers # {w} \/ \A c \in Conversations : ~Refreshable(c)
    /\ Return(w, IF batch[w] = {} THEN "asleep" ELSE "ready")
    /\ UNCHANGED <<stored, rows, receipt, bank, summary, failures>>

(* _refresh_derived reads the archive, not the receipts, and replaces the   *)
(* summary of the conversation.                                             *)
RefreshRead(w) ==
    /\ pc[w] = "refresh"
    /\ snap' = [snap EXCEPT ![w] = Archive(target[w]) \ Blank]
    /\ Goto(w, "write")
    /\ UNCHANGED <<stored, rows, receipt, bank, summary, conv, batch, todo, target, cur,
                   failures>>

RefreshWrite(w) ==
    /\ pc[w] = "write"
    /\ summary' = [summary EXCEPT ![target[w]] = snap[w]]
    /\ Goto(w, "refreshed")
    /\ UNCHANGED <<stored, rows, receipt, bank, locals, failures>>

(* mark_derived_succeeded: clean only if no later message was recorded. *)
StillThrough(w) == dirty[target[w]] = cur[w]
MarkRefreshed(w) ==
    /\ pc[w] = "refreshed"
    /\ dirty' = [dirty EXCEPT ![target[w]] = IF StillThrough(w) THEN 0 ELSE @]
    /\ refreshLater' = [refreshLater EXCEPT ![target[w]] = FALSE]
    /\ Return(w, "ready")
    /\ UNCHANGED <<stored, status, lease, retryLater, receipt, bank, summary, failures>>

(* The refresh raises and mark_derived_failed follows. *)
RefreshFails(w) ==
    /\ pc[w] \in {"refresh", "write"}
    /\ failures < MaxFailures
    /\ failures' = failures + 1
    /\ \E later \in BOOLEAN : refreshLater' = [refreshLater EXCEPT ![target[w]] = later]
    /\ Return(w, "ready")
    /\ UNCHANGED <<stored, status, lease, retryLater, dirty, receipt, bank, summary>>

(* Anything else that raises while a batch is in hand, the refresh after a   *)
(* finished batch included, ends in mark_failed for the batch.               *)
BatchFails(w) ==
    /\ batch[w] # {}
    /\ pc[w] # "failing"
    /\ failures < MaxFailures
    /\ failures' = failures + 1
    /\ Goto(w, "failing")
    /\ UNCHANGED <<stored, rows, receipt, bank, summary, locals>>

-----------------------------------------------------------------------------
(* A wake-up by a turn, or the idle poll. *)
Wake(w) ==
    /\ pc[w] = "asleep"
    /\ Goto(w, "ready")
    /\ UNCHANGED <<stored, rows, receipt, bank, summary, locals, failures>>

(* The process dies and is started again, or a database error (also the one *)
(* of two workers inserting the same row) ends the iteration: the worker    *)
(* forgets its batch and leaves the lease as it is.                         *)
Crash(w) ==
    /\ pc[w] # "asleep"
    /\ failures < MaxFailures
    /\ failures' = failures + 1
    /\ Return(w, "asleep")
    /\ UNCHANGED <<stored, rows, receipt, bank, summary>>

(* What process_once and the worker's loop do when nothing goes wrong. *)
Step(w) ==
    \/ Claim(w) \/ NothingToClaim(w) \/ RenewLease(w) \/ RecordIgnored(w)
    \/ Retain(w) \/ RetainFails(w) \/ RecordReceipt(w) \/ Finish(w) \/ MarkFailed(w)
    \/ ClaimRefresh(w) \/ NothingToRefresh(w) \/ RefreshRead(w) \/ RefreshWrite(w)
    \/ MarkRefreshed(w) \/ Wake(w)

Next ==
    \/ \E m \in Messages : Store(m)
    \/ \E c \in Conversations : ExpireLease(c) \/ RetryDue(c) \/ RefreshDue(c)
    \/ \E w \in Workers : Step(w) \/ RefreshFails(w) \/ BatchFails(w) \/ Crash(w)

Spec == Init /\ [][Next]_vars

(* The event loop keeps running the worker's task, the poll wakes it, and   *)
(* time passes.  Messages need not come, and nothing has to fail.           *)
Fairness ==
    /\ \A w \in Workers : WF_vars(Step(w))
    /\ \A c \in Conversations : WF_vars(ExpireLease(c)) /\ WF_vars(RetryDue(c))
                                    /\ WF_vars(RefreshDue(c))
FairSpec == Spec /\ Fairness

-----------------------------------------------------------------------------
(***************************************************************************)
(* Properties                                                              *)
(***************************************************************************)

(* Type of the tables and of each worker's local state. *)
TypeOK ==
    /\ stored \subseteq Messages
    /\ status \in [Conversations -> RowStatuses]
    /\ lease \in [Conversations -> {"none", "held", "expired"}]
    /\ retryLater \in [Conversations -> BOOLEAN]
    /\ dirty \in [Conversations -> Messages \cup {0}]
    /\ refreshLater \in [Conversations -> BOOLEAN]
    /\ receipt \in [Messages -> Outcomes]
    /\ bank \subseteq Messages
    /\ summary \in [Conversations -> SUBSET Messages]
    /\ pc \in [Workers -> Steps]
    /\ conv \in [Workers -> Conversations \cup {0}]
    /\ batch \in [Workers -> SUBSET Messages]
    /\ todo \in [Workers -> SUBSET Messages]
    /\ target \in [Workers -> Conversations \cup {0}]
    /\ cur \in [Workers -> Messages \cup {0}]
    /\ snap \in [Workers -> SUBSET Messages]
    /\ failures \in 0 .. MaxFailures

(* The ledger is honest: an INGESTED receipt only for a message the backend  *)
(* has stored, IGNORED only for a blank one, whoever crashed, stalled, was   *)
(* overtaken or finished somebody else's batch.                              *)
ReceiptsHonest ==
    \A m \in Messages :
        /\ receipt[m] = "INGESTED" => m \in bank \ Blank
        /\ receipt[m] = "IGNORED_BLANK" => m \in Blank
        /\ receipt[m] # "NONE" => m \in stored

(* ck_memory_ingestion_lease_consistent never fails a transaction: a lease   *)
(* exactly while PROCESSING; and only a FAILED conversation waits.           *)
RowsConsistent ==
    \A c \in Conversations :
        /\ status[c] = "PROCESSING" <=> lease[c] # "none"
        /\ retryLater[c] => status[c] = "FAILED"
        /\ status[c] = "NONE" => Archive(c) \cap {m \in Messages : receipt[m] # "NONE"} = {}

(* One worker, however often it is killed and started again, never sends a  *)
(* message to the backend that has a receipt.                               *)
RetainsOnlyNew ==
    \A w \in Workers : pc[w] \in {"leased", "retained"} => receipt[cur[w]] = "NONE"

(* What is derived is never silently out of date: a conversation that is not *)
(* marked dirty has every ingested message in its summary.                   *)
SummaryCurrent ==
    \A c \in Conversations :
        dirty[c] = 0 => {m \in Of(c) : receipt[m] = "INGESTED"} \subseteq summary[c]

(* Every stored message gets its receipt, every ingested one reaches the    *)
(* derived state, after finitely many crashes, outages and refresh errors.  *)
CatchesUp == \A m \in Messages : m \in stored ~> receipt[m] # "NONE"
DerivedCatchesUp ==
    \A m \in Messages : receipt[m] = "INGESTED" ~> m \in summary[ConvOf[m]]
=============================================================================
