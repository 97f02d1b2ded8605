------------------------------- MODULE LiveRuntime -------------------------------
(***************************************************************************)
(* The ontology a server process answers from while it generates SQL: the  *)
(* snapshot of its OntologyRuntime.  Publisher models how it gets there;   *)
(* here other threads install a newer version at any time.                 *)
(***************************************************************************)
EXTENDS Naturals

CONSTANTS
  Processes,  \* the server processes, each with a runtime of its own
  MaxVersions \* bound: the versions published in a behaviour

ASSUME RuntimeAssumption == MaxVersions \in Nat

VARIABLE installed \* the version each process answers from, 0 while it has none

Versions == 0 .. MaxVersions

RuntimeInit == installed \in [Processes -> {0, 1} \cap Versions]

(* A later version comes into the runtime of process p. *)
InstallVersion(p) ==
  \E v \in Versions : v > installed[p] /\ installed' = [installed EXCEPT ![p] = v]
===============================================================================
