--------------------------- MODULE SemanticMemory ---------------------------
(***************************************************************************)
(* What the semantic memory promises ingestion and its readers, without    *)
(* generations, banks, locks, pages or offsets: there is one memory.       *)
(*   - It holds messages of the archive only, and what it has held once it *)
(*     never loses, whether or not a receipt says so.                      *)
(*   - A message is receipted only while the memory that readers are sent  *)
(*     to holds it, one message at a time.                                 *)
(* MemoryGenerations implements this module, as long as messages are       *)
(* committed in order.                                                     *)
(***************************************************************************)
EXTENDS Naturals

CONSTANT Messages

VARIABLES
    archived,     \* committed messages
    recalled,     \* what a reader of the memory can find
    confirmed     \* messages with a receipt

mvars == <<archived, recalled, confirmed>>

Init == archived = {} /\ recalled = {} /\ confirmed = {}

Archive(m) ==
    /\ m \notin archived
    /\ archived' = archived \cup {m}
    /\ UNCHANGED <<recalled, confirmed>>

(* The memory learns a message, or is replaced by one that knows no less. *)
Learn ==
    /\ recalled \subseteq recalled'
    /\ recalled' \subseteq archived
    /\ UNCHANGED <<archived, confirmed>>

Receipt(m) ==
    /\ m \in recalled
    /\ confirmed' = confirmed \cup {m}
    /\ UNCHANGED <<archived, recalled>>

Next == Learn \/ \E m \in Messages : Archive(m) \/ Receipt(m)

Spec == Init /\ [][Next]_mvars
=============================================================================
