---------------------------- MODULE MCDraftEditing ----------------------------
(* An instance of DraftEditing for TLC: two objects, the first with two fields
   alike, the second with the field its name obliges it to have. *)
EXTENDS DraftEditing, TLC

CONSTANTS a, b, a1, a2, b1

Owners     == [f \in {a1, a2, b1} |-> IF f = b1 THEN b ELSE a]
Types      == [f \in {a1, a2, b1} |-> "string"]
Partitions == [o \in {a, b} |-> IF o = b THEN b1 ELSE None]

Symmetric == Permutations({a1, a2})
===============================================================================
