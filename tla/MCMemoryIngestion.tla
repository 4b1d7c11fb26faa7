-------------------------- MODULE MCMemoryIngestion --------------------------
(***************************************************************************)
(* Small instances of MemoryIngestion: two conversations, up to four       *)
(* messages (the even ones in the second conversation), one or two workers.*)
(***************************************************************************)
EXTENDS MemoryIngestion, TLC

EvenInSecond == [m \in Messages |-> IF m % 2 = 0 THEN 2 ELSE 1]
OneConversation == [m \in Messages |-> 1]
=============================================================================
