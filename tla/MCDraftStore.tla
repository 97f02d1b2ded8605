----------------------------- MODULE MCDraftStore -----------------------------
(* Instances of DraftStore for TLC. *)
EXTENDS DraftStore, TLC

CONSTANTS a, b

OneStore  == [r \in Requests |-> CHOOSE s \in Stores : TRUE]
OwnStore  == [r \in Requests |-> r]
TwoBatches == {{a}, {a, b}}
OneBatch == {{a}}
Symmetric == Permutations(Requests)
===============================================================================
