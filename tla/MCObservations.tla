--------------------------- MODULE MCObservations ---------------------------
(* A small instance of Observations for TLC.                                  *)
EXTENDS Observations, TLC

CONSTANTS topic, profile

(* Every claim is an IDEA of one topic while its phrase is found, and a       *)
(* PREFERENCE of the profile when a line break is in the phrase.              *)
PhraseBroken == [t \in Texts |-> IF t.form = "ragged" THEN profile ELSE topic]

(* Conversations, claims and workers are interchangeable.                     *)
Interchangeable ==
    Permutations(Conversations) \cup Permutations(Claims) \cup Permutations(Workers)
=============================================================================
