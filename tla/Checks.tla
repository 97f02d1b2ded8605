---------------------------------- MODULE Checks ----------------------------------
(* Lists, gone through from the first to the last. *)
EXTENDS Naturals, Sequences

(* The elements of a sequence that are in a set, in their order. *)
Those(s, S) ==
  LET upto[n \in 0 .. Len(s)] ==
        IF n = 0 THEN <<>> ELSE IF s[n] \in S THEN Append(upto[n - 1], s[n]) ELSE upto[n - 1]
  IN upto[Len(s)]

(* A list of checks <<code, holds>>: the first that fails names the refusal. *)
FirstFailure(checks) ==
  LET failed == {i \in DOMAIN checks : ~checks[i][2]}
  IN IF failed = {} THEN "ok" ELSE checks[CHOOSE i \in failed : \A j \in failed : i <= j][1]
===============================================================================
