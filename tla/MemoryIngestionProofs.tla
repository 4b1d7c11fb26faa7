------------------------ MODULE MemoryIngestionProofs ------------------------
(***************************************************************************)
(* Safety of MemoryIngestion for any number of workers, conversations,     *)
(* messages and failures.  The ledger and the rows are not inductive by    *)
(* themselves: what a worker holds between two transactions must be right  *)
(* too (WorkerOK), although other workers may have moved on meanwhile.     *)
(* Nothing a worker relies on is ever taken back (Monotone), which is why  *)
(* the missing fencing does no harm.                                       *)
(***************************************************************************)
EXTENDS MemoryIngestion, TLAPS

InBatch(w) == pc[w] \in {"next", "leased", "retained"}

(* The claimed messages are stored ones of its conversation, which has a row; *)
(* what is not to do any more has a receipt; what it calls retained is.       *)
WorkerOK(w) ==
    /\ batch[w] \subseteq stored \cap Of(conv[w])
    /\ todo[w] \subseteq batch[w]
    /\ InBatch(w) => conv[w] \in Conversations /\ status[conv[w]] # "NONE"
    /\ InBatch(w) => \A m \in batch[w] \ todo[w] : receipt[m] # "NONE"
    /\ pc[w] \in {"leased", "retained"} => cur[w] \in todo[w]
    /\ pc[w] = "retained" => cur[w] \in bank \ Blank

Inv ==
    /\ TypeOK
    /\ ReceiptsHonest
    /\ RowsConsistent
    /\ \A w \in Workers : WorkerOK(w)

(* What no step takes back. *)
Monotone ==
    /\ stored \subseteq stored'
    /\ bank \subseteq bank'
    /\ \A m \in Messages : receipt[m] # "NONE" => receipt'[m] = receipt[m]
    /\ \A c \in Conversations : status[c] # "NONE" => status'[c] # "NONE"

Unmoved(v) ==
    /\ pc'[v] = pc[v] /\ conv'[v] = conv[v] /\ batch'[v] = batch[v]
    /\ todo'[v] = todo[v] /\ cur'[v] = cur[v]

WorkerStep(w) == Step(w) \/ RefreshFails(w) \/ BatchFails(w) \/ Crash(w)
ClockStep == \E c \in Conversations : ExpireLease(c) \/ RetryDue(c) \/ RefreshDue(c)

-----------------------------------------------------------------------------
(* The initial state satisfies the invariant. *)
LEMMA InvInit == Init => Inv
BY IngestionAssumption DEF Init, Inv, TypeOK, ReceiptsHonest, RowsConsistent, WorkerOK, InBatch,
    Archive, Of, RowStatuses, Outcomes, Steps

(* process_once is over: the types of what it leaves. *)
LEMMA ReturnType ==
    ASSUME TypeOK, NEW w \in Workers, NEW step \in Steps, Return(w, step)
    PROVE  /\ pc' \in [Workers -> Steps]
           /\ conv' \in [Workers -> Conversations \cup {0}]
           /\ batch' \in [Workers -> SUBSET Messages]
           /\ todo' \in [Workers -> SUBSET Messages]
           /\ target' \in [Workers -> Conversations \cup {0}]
           /\ cur' \in [Workers -> Messages \cup {0}]
           /\ snap' \in [Workers -> SUBSET Messages]
BY DEF TypeOK, Return, Goto

(* The receipts written by a step have one of the outcomes. *)
LEMMA ReceiptsType ==
    ASSUME TypeOK, NEW ms, NEW outcome \in Outcomes
    PROVE  Receipts(ms, outcome) \in [Messages -> Outcomes]
BY DEF TypeOK, Receipts

(* The message in hand is a claimed one. *)
LEMMA InHand ==
    ASSUME Inv, NEW w \in Workers, pc[w] \in {"leased", "retained"}
    PROVE  cur[w] \in todo[w] /\ cur[w] \in batch[w] /\ cur[w] \in stored /\ cur[w] \in Messages
BY DEF Inv, WorkerOK, TypeOK

(* Every action keeps the types. *)
LEMMA TypeStep == Inv /\ [Next]_vars => TypeOK'
<1>. USE IngestionAssumption
<1>. SUFFICES ASSUME Inv, TypeOK, [Next]_vars PROVE TypeOK'
    BY DEF Inv
<1>1. CASE UNCHANGED vars
    BY <1>1 DEF TypeOK, vars, rows, locals
<1>2. ASSUME NEW m \in Messages, Store(m) PROVE TypeOK'
    BY <1>2 DEF TypeOK, Store, rows, locals
<1>3. ASSUME NEW c \in Conversations, ExpireLease(c) \/ RetryDue(c) \/ RefreshDue(c)
      PROVE  TypeOK'
    BY <1>3, ZenonT(60) DEF TypeOK, ExpireLease, RetryDue, RefreshDue, locals
<1>4. ASSUME NEW w \in Workers, WorkerStep(w) PROVE TypeOK'
    <2>1. CASE Claim(w)
        BY <2>1 DEF TypeOK, Claim, Goto, First, Unreceipted, Archive, Of, RowStatuses, Steps
    <2>2. CASE NothingToClaim(w)
        BY <2>2 DEF TypeOK, NothingToClaim, Goto, RowStatuses, Steps, locals
    <2>3. CASE RenewLease(w)
        BY <2>3 DEF TypeOK, RenewLease, Goto, Steps
    <2>4. CASE RecordIgnored(w)
        <3>1. receipt' \in [Messages -> Outcomes]
            BY <2>4, ReceiptsType DEF RecordIgnored, Outcomes
        <3>. QED  BY <2>4, <3>1 DEF TypeOK, RecordIgnored, Goto, Steps, rows
    <2>5. CASE Retain(w)
        <3>1. bank' \subseteq Messages
            BY <2>5, InHand DEF TypeOK, Retain, Remembers
        <3>. QED  BY <2>5, <3>1 DEF TypeOK, Retain, Goto, Steps, rows, locals
    <2>6. CASE RetainFails(w)
        <3>1. bank' \subseteq Messages
            BY <2>6, InHand DEF TypeOK, RetainFails
        <3>2. failures' \in 0 .. MaxFailures
            BY <2>6 DEF TypeOK, RetainFails
        <3>. QED  BY <2>6, <3>1, <3>2 DEF TypeOK, RetainFails, Goto, Steps, rows, locals
    <2>7. CASE RecordReceipt(w)
        <3>1. receipt' \in [Messages -> Outcomes]
            BY <2>7, ReceiptsType DEF RecordReceipt, Outcomes
        <3>. QED  BY <2>7, <3>1 DEF TypeOK, RecordReceipt, Dirtied, Goto, Steps
    <2>8. CASE Finish(w)
        <3>1. receipt' \in [Messages -> Outcomes]
            BY <2>8, ReceiptsType DEF Finish, Outcomes
        <3>. QED  BY <2>8, <3>1 DEF TypeOK, Finish, Idle, Goto, RowStatuses, Steps, locals
    <2>9. CASE MarkFailed(w)
        BY <2>9, ReturnType, ZenonT(60) DEF TypeOK, MarkFailed, DropsLease, RowStatuses, Steps
    <2>10. CASE ClaimRefresh(w)
        BY <2>10 DEF TypeOK, ClaimRefresh, Goto, Steps, rows
    <2>11. CASE NothingToRefresh(w)
        BY <2>11, ReturnType DEF TypeOK, NothingToRefresh, Steps, rows
    <2>12. CASE RefreshRead(w)
        BY <2>12 DEF TypeOK, RefreshRead, Goto, Archive, Steps, rows
    <2>13. CASE RefreshWrite(w)
        BY <2>13 DEF TypeOK, RefreshWrite, Goto, Steps, rows, locals
    <2>14. CASE MarkRefreshed(w)
        <3>1. dirty' \in [Conversations -> Messages \cup {0}]
            BY <2>14 DEF TypeOK, MarkRefreshed
        <3>2. refreshLater' \in [Conversations -> BOOLEAN]
            BY <2>14 DEF TypeOK, MarkRefreshed
        <3>. QED  BY <2>14, <3>1, <3>2, ReturnType DEF TypeOK, MarkRefreshed, Steps
    <2>15. CASE Wake(w)
        BY <2>15 DEF TypeOK, Wake, Goto, Steps, rows, locals
    <2>16. CASE RefreshFails(w)
        <3>1. refreshLater' \in [Conversations -> BOOLEAN]
            BY <2>16 DEF TypeOK, RefreshFails
        <3>2. failures' \in 0 .. MaxFailures
            BY <2>16 DEF TypeOK, RefreshFails
        <3>. QED  BY <2>16, <3>1, <3>2, ReturnType DEF TypeOK, RefreshFails, Steps
    <2>17. CASE BatchFails(w)
        BY <2>17 DEF TypeOK, BatchFails, Goto, Steps, rows, locals
    <2>18. CASE Crash(w)
        BY <2>18, ReturnType DEF TypeOK, Crash, Steps, rows
    <2>. QED  BY <1>4, <2>1, <2>2, <2>3, <2>4, <2>5, <2>6, <2>7, <2>8, <2>9, <2>10, <2>11, <2>12,
                 <2>13, <2>14, <2>15, <2>16, <2>17, <2>18 DEF WorkerStep, Step
<1>. QED  BY <1>1, <1>2, <1>3, <1>4 DEF Next, WorkerStep

-----------------------------------------------------------------------------
(* Receipts keeps what is recorded. *)
LEMMA ReceiptsKept ==
    ASSUME TypeOK, NEW ms, NEW outcome, NEW m \in Messages, receipt[m] # "NONE"
    PROVE  Receipts(ms, outcome)[m] = receipt[m]
BY DEF Receipts

(* No step takes back a message, a receipt or a row. *)
LEMMA StepMonotone == Inv /\ [Next]_vars => Monotone
<1>. SUFFICES ASSUME TypeOK, [Next]_vars PROVE Monotone
    BY DEF Inv
<1>1. CASE UNCHANGED vars
    BY <1>1 DEF Monotone, vars, rows
<1>2. ASSUME NEW m \in Messages, Store(m) PROVE Monotone
    BY <1>2 DEF Monotone, Store, rows
<1>3. CASE ClockStep
    BY <1>3 DEF Monotone, ClockStep, ExpireLease, RetryDue, RefreshDue
<1>4. ASSUME NEW w \in Workers, WorkerStep(w) PROVE Monotone
    <2>1. CASE Claim(w)
        BY <2>1 DEF TypeOK, Monotone, Claim
    <2>2. CASE NothingToClaim(w)
        BY <2>2 DEF TypeOK, Monotone, NothingToClaim
    <2>3. CASE RecordIgnored(w) \/ RecordReceipt(w) \/ Finish(w)
        <3>1. stored' = stored /\ bank' = bank
            BY <2>3 DEF RecordIgnored, RecordReceipt, Finish, rows
        <3>2. \A m \in Messages : receipt[m] # "NONE" => receipt'[m] = receipt[m]
            BY <2>3, ReceiptsKept DEF RecordIgnored, RecordReceipt, Finish
        <3>3. status' = status \/ status' = [status EXCEPT ![conv[w]] = "IDLE"]
            BY <2>3 DEF RecordIgnored, RecordReceipt, Finish, Idle, rows
        <3>. QED  BY <3>1, <3>2, <3>3 DEF TypeOK, Monotone
    <2>4. CASE MarkFailed(w)
        BY <2>4 DEF TypeOK, Monotone, MarkFailed
    <2>5. CASE Retain(w) \/ RetainFails(w)
        BY <2>5 DEF Monotone, Retain, RetainFails, Remembers, rows
    <2>6. CASE RenewLease(w) \/ ClaimRefresh(w) \/ NothingToRefresh(w) \/ RefreshRead(w)
               \/ RefreshWrite(w) \/ MarkRefreshed(w) \/ Wake(w) \/ RefreshFails(w)
               \/ BatchFails(w) \/ Crash(w)
        <3>1. UNCHANGED <<stored, status, receipt, bank>>
            BY <2>6 DEF RenewLease, ClaimRefresh, NothingToRefresh, RefreshRead, RefreshWrite,
                        MarkRefreshed, Wake, RefreshFails, BatchFails, Crash, rows
        <3>. QED  BY <3>1 DEF Monotone
    <2>. QED  BY <1>4, <2>1, <2>2, <2>3, <2>4, <2>5, <2>6 DEF WorkerStep, Step
<1>. QED  BY <1>1, <1>2, <1>3, <1>4 DEF Next, WorkerStep, ClockStep

-----------------------------------------------------------------------------
(* A step of one worker moves no other. *)
LEMMA OthersUnmoved ==
    ASSUME TypeOK, NEW w \in Workers, NEW v \in Workers, v # w, WorkerStep(w)
    PROVE  Unmoved(v)
<1>1. CASE Claim(w) \/ RenewLease(w)
    BY <1>1 DEF TypeOK, Unmoved, Claim, RenewLease, Goto
<1>2. CASE RecordIgnored(w) \/ RecordReceipt(w)
    BY <1>2 DEF TypeOK, Unmoved, RecordIgnored, RecordReceipt, Goto
<1>3. CASE NothingToClaim(w) \/ Retain(w) \/ RetainFails(w) \/ Finish(w) \/ Wake(w)
           \/ RefreshWrite(w) \/ BatchFails(w)
    BY <1>3 DEF TypeOK, Unmoved, NothingToClaim, Retain, RetainFails, Finish, Wake, RefreshWrite,
                BatchFails, Goto, locals
<1>4. CASE ClaimRefresh(w) \/ RefreshRead(w)
    BY <1>4 DEF TypeOK, Unmoved, ClaimRefresh, RefreshRead, Goto
<1>5. ASSUME NEW step, Return(w, step) PROVE Unmoved(v)
    BY <1>5 DEF TypeOK, Unmoved, Return, Goto
<1>6. CASE MarkFailed(w) \/ NothingToRefresh(w) \/ MarkRefreshed(w) \/ RefreshFails(w) \/ Crash(w)
    BY <1>5, <1>6 DEF MarkFailed, NothingToRefresh, MarkRefreshed, RefreshFails, Crash
<1>. QED  BY <1>1, <1>2, <1>3, <1>4, <1>6 DEF WorkerStep, Step

(* What a worker holds stays right while others move. *)
LEMMA UnmovedOK ==
    ASSUME Inv, Monotone, NEW v \in Workers, Unmoved(v)
    PROVE  WorkerOK(v)'
BY DEF Inv, TypeOK, WorkerOK, InBatch, Monotone, Unmoved, Of

(* A worker that returned holds nothing. *)
LEMMA ReturnedOK ==
    ASSUME TypeOK, NEW w \in Workers, NEW step \in {"asleep", "ready"}, Return(w, step)
    PROVE  WorkerOK(w)'
BY DEF TypeOK, WorkerOK, InBatch, Return, Goto, Archive, Of

(* The worker that moves. *)
LEMMA MoverOK ==
    ASSUME Inv, Monotone, NEW w \in Workers, WorkerStep(w)
    PROVE  WorkerOK(w)'
<1>. USE DEF Inv
<1>1. CASE Claim(w)
    <2>1. PICK c \in Conversations :
              /\ status'[c] = "PROCESSING"
              /\ conv'[w] = c
              /\ batch'[w] = First(Unreceipted(c))
              /\ todo'[w] = First(Unreceipted(c))
        BY <1>1 DEF TypeOK, Claim
    <2>2. First(Unreceipted(c)) \subseteq stored' \cap Of(c)
        BY <1>1 DEF Claim, First, Unreceipted, Archive
    <2>3. pc'[w] = "next"
        BY <1>1 DEF TypeOK, Claim, Goto
    <2>. QED  BY <2>1, <2>2, <2>3 DEF WorkerOK, InBatch, Of
<1>2. CASE NothingToClaim(w)
    BY <1>2 DEF TypeOK, WorkerOK, InBatch, NothingToClaim, Goto, Of, locals
<1>3. CASE RenewLease(w)
    BY <1>3 DEF TypeOK, WorkerOK, InBatch, RenewLease, Goto, Of
<1>4. CASE RecordIgnored(w)
    <2>1. receipt'[cur[w]] # "NONE"
        BY <1>4, InHand DEF TypeOK, RecordIgnored, Receipts
    <2>2. \A m \in batch[w] : receipt[m] # "NONE" => receipt'[m] # "NONE"
        BY <1>4 DEF TypeOK, Monotone
    <2>. QED  BY <1>4, <2>1, <2>2 DEF TypeOK, WorkerOK, InBatch, RecordIgnored, Goto, Of, rows
<1>5. CASE Retain(w)
    BY <1>5, InHand DEF TypeOK, WorkerOK, InBatch, Retain, Remembers, Goto, Of, rows, locals
<1>6. CASE RetainFails(w)
    BY <1>6 DEF TypeOK, WorkerOK, InBatch, RetainFails, Goto, Of, rows, locals
<1>7. CASE RecordReceipt(w)
    <2>1. receipt'[cur[w]] # "NONE"
        BY <1>7, InHand DEF TypeOK, RecordReceipt, Receipts
    <2>2. \A m \in batch[w] : receipt[m] # "NONE" => receipt'[m] # "NONE"
        BY <1>7 DEF TypeOK, Monotone
    <2>. QED  BY <1>7, <2>1, <2>2 DEF TypeOK, WorkerOK, InBatch, RecordReceipt, Goto, Of
<1>8. CASE Finish(w)
    BY <1>8 DEF TypeOK, WorkerOK, InBatch, Finish, Goto, Of, locals
<1>9. CASE ClaimRefresh(w)
    BY <1>9 DEF TypeOK, WorkerOK, InBatch, ClaimRefresh, Goto, Of
<1>10. CASE RefreshRead(w) \/ RefreshWrite(w)
    BY <1>10 DEF TypeOK, WorkerOK, InBatch, RefreshRead, RefreshWrite, Goto, Of, locals
<1>11. CASE Wake(w) \/ BatchFails(w)
    BY <1>11 DEF TypeOK, WorkerOK, InBatch, Wake, BatchFails, Goto, Of, locals
<1>12. CASE MarkFailed(w) \/ NothingToRefresh(w) \/ MarkRefreshed(w) \/ RefreshFails(w) \/ Crash(w)
    BY <1>12, ReturnedOK DEF MarkFailed, NothingToRefresh, MarkRefreshed, RefreshFails, Crash
<1>. QED  BY <1>1, <1>2, <1>3, <1>4, <1>5, <1>6, <1>7, <1>8, <1>9, <1>10, <1>11, <1>12
          DEF WorkerStep, Step

(* What every worker holds stays right. *)
LEMMA WorkersStep == Inv /\ [Next]_vars => \A v \in Workers : WorkerOK(v)'
<1>. SUFFICES ASSUME Inv, [Next]_vars, NEW v \in Workers PROVE WorkerOK(v)'
    OBVIOUS
<1>0. Monotone
    BY StepMonotone
<1>1. CASE UNCHANGED vars
    BY <1>0, <1>1, UnmovedOK DEF Unmoved, vars, locals
<1>2. ASSUME NEW m \in Messages, Store(m) PROVE WorkerOK(v)'
    BY <1>0, <1>2, UnmovedOK DEF Unmoved, Store, locals
<1>3. CASE ClockStep
    BY <1>0, <1>3, UnmovedOK DEF Unmoved, ClockStep, ExpireLease, RetryDue, RefreshDue, locals
<1>4. ASSUME NEW w \in Workers, WorkerStep(w) PROVE WorkerOK(v)'
    <2>1. CASE v = w
        BY <1>0, <1>4, <2>1, MoverOK
    <2>2. CASE v # w
        BY <1>0, <1>4, <2>2, OthersUnmoved, UnmovedOK DEF Inv
    <2>. QED  BY <2>1, <2>2
<1>. QED  BY <1>1, <1>2, <1>3, <1>4 DEF Next, WorkerStep, ClockStep

-----------------------------------------------------------------------------
(* Finish writes no receipt: the whole batch has one by then. *)
LEMMA FinishWritesNone ==
    ASSUME Inv, NEW w \in Workers, Finish(w)
    PROVE  receipt' = receipt
<1>1. \A m \in batch[w] : receipt[m] # "NONE"
    BY DEF Inv, WorkerOK, InBatch, Finish
<1>2. Receipts(batch[w], "INGESTED") = [m \in Messages |-> receipt[m]]
    BY <1>1 DEF Receipts
<1>. QED  BY <1>2 DEF Finish, Inv, TypeOK

(* A step leaves the ledger alone or records the message in hand. *)
LEMMA LedgerShape ==
    ASSUME Inv, [Next]_vars
    PROVE  \/ receipt' = receipt
           \/ \E w \in Workers : RecordIgnored(w) \/ RecordReceipt(w)
<1>1. CASE UNCHANGED vars
    BY <1>1 DEF vars
<1>2. CASE ClockStep \/ \E m \in Messages : Store(m)
    BY <1>2 DEF ClockStep, Store, ExpireLease, RetryDue, RefreshDue
<1>3. ASSUME NEW w \in Workers, WorkerStep(w), ~RecordIgnored(w), ~RecordReceipt(w)
      PROVE  receipt' = receipt
    BY <1>3, FinishWritesNone DEF WorkerStep, Step, Claim, NothingToClaim, RenewLease, Retain,
        RetainFails, MarkFailed, ClaimRefresh, NothingToRefresh, RefreshRead, RefreshWrite,
        MarkRefreshed, Wake, RefreshFails, BatchFails, Crash
<1>. QED  BY <1>1, <1>2, <1>3 DEF Next, WorkerStep, ClockStep

(* The ledger stays honest. *)
LEMMA LedgerStep == Inv /\ [Next]_vars => ReceiptsHonest'
<1>. SUFFICES ASSUME Inv, [Next]_vars PROVE ReceiptsHonest'
    OBVIOUS
<1>. USE DEF Inv
<1>0. Monotone
    BY StepMonotone
<1>1. CASE receipt' = receipt
    BY <1>0, <1>1 DEF ReceiptsHonest, Monotone
<1>2. ASSUME NEW w \in Workers, RecordIgnored(w) PROVE ReceiptsHonest'
    <2>1. cur[w] \in stored /\ cur[w] \in Blank
        BY <1>2, InHand DEF RecordIgnored
    <2>. QED  BY <1>2, <2>1 DEF TypeOK, ReceiptsHonest, RecordIgnored, Receipts
<1>3. ASSUME NEW w \in Workers, RecordReceipt(w) PROVE ReceiptsHonest'
    <2>1. cur[w] \in stored /\ cur[w] \in bank \ Blank
        BY <1>3, InHand DEF RecordReceipt, WorkerOK
    <2>. QED  BY <1>3, <2>1 DEF TypeOK, ReceiptsHonest, RecordReceipt, Receipts
<1>. QED  BY <1>1, <1>2, <1>3, LedgerShape

-----------------------------------------------------------------------------
(* A lease exactly while PROCESSING, and only a FAILED conversation waits. *)
Leases ==
    \A c \in Conversations :
        /\ status[c] = "PROCESSING" <=> lease[c] # "none"
        /\ retryLater[c] => status[c] = "FAILED"

(* Only a conversation with a row has receipts. *)
ReceiptsHaveRow ==
    \A c \in Conversations :
        status[c] = "NONE" => Archive(c) \cap {m \in Messages : receipt[m] # "NONE"} = {}

(* The two halves of RowsConsistent. *)
LEMMA RowsAreLeasesAndLedger == RowsConsistent <=> Leases /\ ReceiptsHaveRow
BY DEF RowsConsistent, Leases, ReceiptsHaveRow

(* The lease constraint survives every step, whoever holds the lease. *)
LEMMA LeasesStep == Inv /\ [Next]_vars => Leases'
<1>. SUFFICES ASSUME Inv, TypeOK, Leases, [Next]_vars PROVE Leases'
    BY RowsAreLeasesAndLedger DEF Inv
<1>1. CASE UNCHANGED <<status, lease, retryLater>>
    BY <1>1 DEF Leases
<1>2. CASE UNCHANGED vars \/ \E m \in Messages : Store(m)
    BY <1>1, <1>2 DEF vars, Store, rows
<1>3. ASSUME NEW c \in Conversations, ExpireLease(c) \/ RetryDue(c) \/ RefreshDue(c) PROVE Leases'
    BY <1>3 DEF TypeOK, Leases, ExpireLease, RetryDue, RefreshDue
<1>4. ASSUME NEW w \in Workers, WorkerStep(w) PROVE Leases'
    <2>1. CASE Claim(w)
        BY <2>1 DEF TypeOK, Leases, Claim, Claimable, Open
    <2>2. CASE NothingToClaim(w)
        BY <2>2 DEF TypeOK, Leases, NothingToClaim, Open
    <2>3. CASE RenewLease(w)
        BY <2>3 DEF TypeOK, Leases, RenewLease
    <2>4. CASE Finish(w)
        BY <2>4 DEF TypeOK, Leases, Finish, Idle
    <2>5. CASE MarkFailed(w)
        BY <2>5 DEF TypeOK, Leases, MarkFailed, DropsLease
    <2>6. ASSUME ~Claim(w), ~NothingToClaim(w), ~RenewLease(w), ~Finish(w), ~MarkFailed(w)
          PROVE  UNCHANGED <<status, lease, retryLater>>
        BY <1>4, <2>6 DEF WorkerStep, Step, RecordIgnored, Retain, RetainFails, RecordReceipt,
            ClaimRefresh, NothingToRefresh, RefreshRead, RefreshWrite, MarkRefreshed, Wake,
            RefreshFails, BatchFails, Crash, rows
    <2>. QED  BY <1>1, <2>1, <2>2, <2>3, <2>4, <2>5, <2>6
<1>. QED  BY <1>2, <1>3, <1>4 DEF Next, WorkerStep

(* A receipt is written to a conversation that has its row. *)
LEMMA RowStep == Inv /\ [Next]_vars => ReceiptsHaveRow'
<1>. SUFFICES ASSUME Inv, [Next]_vars,
                     NEW c \in Conversations, status'[c] = "NONE",
                     NEW m \in Messages, m \in Of(c), receipt'[m] # "NONE"
              PROVE  FALSE
    BY DEF ReceiptsHaveRow, Archive
<1>. USE IngestionAssumption DEF Inv
<1>0. status[c] = "NONE"
    BY StepMonotone DEF TypeOK, Monotone
<1>1. receipt[m] = "NONE"
    BY <1>0 DEF RowsConsistent, ReceiptsHonest, Archive
<1>2. PICK w \in Workers : RecordIgnored(w) \/ RecordReceipt(w)
    BY <1>1, LedgerShape
<1>3. m = cur[w]
    BY <1>1, <1>2 DEF TypeOK, RecordIgnored, RecordReceipt, Receipts
<1>4. cur[w] \in Of(conv[w]) /\ status[conv[w]] # "NONE"
    BY <1>2, InHand DEF WorkerOK, InBatch, RecordIgnored, RecordReceipt
<1>5. conv[w] = c
    BY <1>3, <1>4 DEF Of
<1>. QED  BY <1>0, <1>4, <1>5

-----------------------------------------------------------------------------
(* The invariant is inductive. *)
LEMMA InvStep == Inv /\ [Next]_vars => Inv'
BY TypeStep, LedgerStep, LeasesStep, RowStep, WorkersStep, RowsAreLeasesAndLedger
DEF Inv, RowsConsistent, Leases, ReceiptsHaveRow

(* Every reachable state satisfies it. *)
LEMMA InvAlways == Spec => []Inv
BY InvInit, InvStep, PTL DEF Spec

(* The tables and what the workers hold keep their types. *)
THEOREM IngestionTypeCorrect == Spec => []TypeOK
<1>1. Inv => TypeOK
    BY DEF Inv
<1>. QED  BY <1>1, InvAlways, PTL

(* An INGESTED receipt is written only for what the backend has stored, an   *)
(* IGNORED one only for a blank message, by whichever worker, in whatever    *)
(* order of expired leases, take-overs, crashes and retries.                 *)
THEOREM ReceiptsAreHonest == Spec => []ReceiptsHonest
<1>1. Inv => ReceiptsHonest
    BY DEF Inv
<1>. QED  BY <1>1, InvAlways, PTL

(* No transaction is ever refused by ck_memory_ingestion_lease_consistent.   *)
THEOREM RowsAreConsistent == Spec => []RowsConsistent
<1>1. Inv => RowsConsistent
    BY DEF Inv
<1>. QED  BY <1>1, InvAlways, PTL

-----------------------------------------------------------------------------
(***************************************************************************)
(* With one worker, which is what app.py starts, a claimed message stays   *)
(* without a receipt until its turn comes, and what a refresh has read is  *)
(* all that was recorded.                                                  *)
(***************************************************************************)
OneWorker == \A v, w \in Workers : v = w

Ingested(c) == {m \in Of(c) : receipt[m] = "INGESTED"}

SoleOK(w) ==
    /\ InBatch(w) => \A m \in todo[w] : receipt[m] = "NONE"
    /\ pc[w] = "write" => Ingested(target[w]) \subseteq snap[w]
    /\ pc[w] = "refreshed" => target[w] \in Conversations
                               /\ Ingested(target[w]) \subseteq summary[target[w]]
    /\ pc[w] \in {"refresh", "write"} => target[w] \in Conversations

Sole == SummaryCurrent /\ \A w \in Workers : SoleOK(w)

(* The first of a set of messages are among them. *)
LEMMA FirstOf == ASSUME NEW ms PROVE First(ms) \subseteq ms
BY DEF First

(* Initially nothing is recorded. *)
LEMMA SoleInit == Init => Sole
BY IngestionAssumption DEF Init, Sole, SummaryCurrent, SoleOK, InBatch, Of

(* A step that leaves ledger, marks and summaries alone and moves nobody. *)
LEMMA SoleFrame ==
    ASSUME Sole, UNCHANGED <<receipt, dirty, summary, pc, locals>>
    PROVE  Sole'
BY DEF Sole, SummaryCurrent, SoleOK, InBatch, Ingested, Of, locals

(* Claiming takes messages without a receipt; recording one leaves the others *)
(* of the batch without.                                                      *)
LEMMA SoleWorkerStep ==
    ASSUME Inv, Sole, NEW w \in Workers, WorkerStep(w)
    PROVE  SoleOK(w)'
<1>. USE DEF Inv, Sole
<1>1. CASE Claim(w)
    <2>1. \A m \in todo'[w] : receipt'[m] = "NONE"
        BY <1>1, FirstOf DEF TypeOK, Claim, Unreceipted
    <2>. QED  BY <1>1, <2>1 DEF TypeOK, SoleOK, InBatch, Claim, Goto
<1>2. CASE RecordIgnored(w) \/ RecordReceipt(w)
    <2>1. \A m \in todo'[w] : receipt'[m] = "NONE"
        BY <1>2 DEF TypeOK, SoleOK, InBatch, RecordIgnored, RecordReceipt, Receipts
    <2>. QED  BY <1>2, <2>1 DEF TypeOK, SoleOK, InBatch, RecordIgnored, RecordReceipt, Goto
<1>3. CASE RenewLease(w) \/ Retain(w)
    BY <1>3 DEF TypeOK, SoleOK, InBatch, RenewLease, Retain, Goto, locals
<1>4. CASE NothingToClaim(w) \/ RetainFails(w) \/ Finish(w) \/ Wake(w) \/ BatchFails(w)
    BY <1>4 DEF TypeOK, SoleOK, InBatch, NothingToClaim, RetainFails, Finish, Wake, BatchFails, Goto
<1>5. CASE ClaimRefresh(w)
    BY <1>5 DEF TypeOK, SoleOK, InBatch, ClaimRefresh, Goto
<1>6. CASE RefreshRead(w)
    <2>1. Ingested(target[w]) \subseteq Archive(target[w]) \ Blank
        BY DEF ReceiptsHonest, Ingested, Archive, Of
    <2>. QED  BY <1>6, <2>1 DEF TypeOK, SoleOK, InBatch, RefreshRead, Goto, Ingested, Of
<1>7. CASE RefreshWrite(w)
    BY <1>7 DEF TypeOK, SoleOK, InBatch, RefreshWrite, Goto, Ingested, Of, locals
<1>8. ASSUME NEW step \in {"asleep", "ready"}, Return(w, step) PROVE SoleOK(w)'
    BY <1>8 DEF TypeOK, SoleOK, InBatch, Return, Goto
<1>9. CASE MarkFailed(w) \/ NothingToRefresh(w) \/ MarkRefreshed(w) \/ RefreshFails(w) \/ Crash(w)
    BY <1>8, <1>9 DEF MarkFailed, NothingToRefresh, MarkRefreshed, RefreshFails, Crash
<1>. QED  BY <1>1, <1>2, <1>3, <1>4, <1>5, <1>6, <1>7, <1>9 DEF WorkerStep, Step

(* What is recorded marks its conversation dirty; only a refresh that has    *)
(* read it all clears the mark.                                              *)
LEMMA CurrentStep ==
    ASSUME Inv, Sole, NEW w \in Workers, WorkerStep(w)
    PROVE  SummaryCurrent'
<1>. USE IngestionAssumption DEF Inv, Sole
<1>1. CASE RecordReceipt(w)
    <2>1. cur[w] \in Messages /\ cur[w] # 0 /\ cur[w] \in Of(conv[w]) /\ conv[w] \in Conversations
        BY <1>1, InHand DEF RecordReceipt, WorkerOK, InBatch
    <2>2. \A c \in Conversations : c # conv[w] =>
              /\ dirty'[c] = dirty[c] /\ summary'[c] = summary[c]
              /\ \A m \in Of(c) : receipt'[m] = receipt[m]
        BY <1>1, <2>1 DEF TypeOK, RecordReceipt, Dirtied, Receipts, Of
    <2>3. dirty'[conv[w]] # 0
        BY <1>1, <2>1 DEF TypeOK, RecordReceipt, Dirtied
    <2>. QED  BY <2>2, <2>3 DEF SummaryCurrent, Of
<1>2. CASE RecordIgnored(w)
    <2>1. \A m \in Messages : receipt'[m] = "INGESTED" => receipt[m] = "INGESTED"
        BY <1>2 DEF TypeOK, RecordIgnored, Receipts
    <2>. QED  BY <1>2, <2>1 DEF SummaryCurrent, RecordIgnored, rows, Of
<1>3. CASE RefreshWrite(w)
    BY <1>3 DEF TypeOK, SummaryCurrent, RefreshWrite, SoleOK, Ingested, Of, rows
<1>4. CASE MarkRefreshed(w)
    BY <1>4 DEF TypeOK, SummaryCurrent, MarkRefreshed, SoleOK, Ingested, Of
<1>5. CASE Finish(w)
    BY <1>5, FinishWritesNone DEF SummaryCurrent, Finish, Of
<1>6. CASE Claim(w) \/ NothingToClaim(w) \/ RenewLease(w) \/ Retain(w) \/ RetainFails(w)
           \/ MarkFailed(w) \/ ClaimRefresh(w) \/ NothingToRefresh(w) \/ RefreshRead(w)
           \/ Wake(w) \/ RefreshFails(w) \/ BatchFails(w) \/ Crash(w)
    <2>1. UNCHANGED <<receipt, dirty, summary>>
        BY <1>6 DEF Claim, NothingToClaim, RenewLease, Retain, RetainFails, MarkFailed,
            ClaimRefresh, NothingToRefresh, RefreshRead, Wake, RefreshFails, BatchFails, Crash, rows
    <2>. QED  BY <2>1 DEF SummaryCurrent, Of
<1>. QED  BY <1>1, <1>2, <1>3, <1>4, <1>5, <1>6 DEF WorkerStep, Step

(* Both, for the one worker there is. *)
LEMMA SoleStep ==
    ASSUME OneWorker
    PROVE  Inv /\ Sole /\ [Next]_vars => Sole'
<1>. SUFFICES ASSUME Inv, Sole, [Next]_vars PROVE Sole'
    OBVIOUS
<1>1. CASE UNCHANGED vars
    BY <1>1, SoleFrame DEF vars, rows
<1>2. CASE ClockStep
    <2>1. UNCHANGED <<receipt, summary, pc, locals>>
        BY <1>2 DEF ClockStep, ExpireLease, RetryDue, RefreshDue
    <2>2. dirty' = dirty
        BY <1>2 DEF ClockStep, ExpireLease, RetryDue, RefreshDue
    <2>. QED  BY <2>1, <2>2, SoleFrame
<1>3. ASSUME NEW m \in Messages, Store(m) PROVE Sole'
    BY <1>3, SoleFrame DEF Store, rows
<1>4. ASSUME NEW w \in Workers, WorkerStep(w) PROVE Sole'
    BY <1>4, SoleWorkerStep, CurrentStep DEF OneWorker, Sole
<1>. QED  BY <1>1, <1>2, <1>3, <1>4 DEF Next, WorkerStep, ClockStep

(* Every reachable state of one worker satisfies both invariants. *)
LEMMA SoleAlways ==
    ASSUME OneWorker
    PROVE  Spec => [](Inv /\ Sole)
<1>1. Init => Inv /\ Sole
    BY InvInit, SoleInit
<1>2. Inv /\ Sole /\ [Next]_vars => (Inv /\ Sole)'
    BY InvStep, SoleStep
<1>. QED  BY <1>1, <1>2, PTL DEF Spec

(* One worker, however often it is killed, fails and starts again, never     *)
(* sends a message to the backend that already has a receipt.                *)
THEOREM OnlyNewIsRetained ==
    ASSUME OneWorker
    PROVE  Spec => []RetainsOnlyNew
<1>1. Inv /\ Sole => RetainsOnlyNew
    BY InHand DEF Sole, SoleOK, InBatch, RetainsOnlyNew
<1>. QED  BY <1>1, SoleAlways, PTL

(* With one worker a conversation that is not marked dirty has every         *)
(* ingested message in its summary, whatever failed in between.              *)
THEOREM SummariesAreCurrent ==
    ASSUME OneWorker
    PROVE  Spec => []SummaryCurrent
<1>1. Inv /\ Sole => SummaryCurrent
    BY DEF Sole
<1>. QED  BY <1>1, SoleAlways, PTL
==============================================================================
