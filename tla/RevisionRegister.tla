--------------------------- MODULE RevisionRegister ---------------------------
(***************************************************************************)
(* What DraftStore.commit promises its callers: a register whose text is   *)
(* changed by one mutation at a time, each of them applied in one atomic   *)
(* step to exactly the revision its caller expected, and never undone.     *)
(* FileDraftStore is shown to implement it when its users share one        *)
(* instance (DraftStore, ImplementsRegister).                              *)
(***************************************************************************)
EXTENDS Naturals

CONSTANT Requests

VARIABLES
  exists,       \* the workspace has been created
  revision,     \* the revision of the current text
  at,           \* the revision at which a request's mutation entered, or 0
  expected,     \* the revision a request was based on
  acknowledged  \* the requests whose callers were told of their success

vars == <<exists, revision, at, expected, acknowledged>>

Init ==
  /\ exists \in BOOLEAN
  /\ revision = 0
  /\ at = [r \in Requests |-> 0]
  /\ expected = [r \in Requests |-> 0]
  /\ acknowledged = {}

Create ==
  /\ ~exists
  /\ exists' = TRUE
  /\ UNCHANGED <<revision, at, expected, acknowledged>>

(* A caller bases a mutation on a revision that has been current. *)
Base(r) ==
  /\ at[r] = 0
  /\ \E n \in 0 .. revision : expected' = [expected EXCEPT ![r] = n]
  /\ UNCHANGED <<exists, revision, at, acknowledged>>

(* Compare the revisions and apply the mutation, in one step. *)
Commit(r) ==
  /\ exists
  /\ at[r] = 0
  /\ expected[r] = revision
  /\ revision' = revision + 1
  /\ at' = [at EXCEPT ![r] = revision + 1]
  /\ UNCHANGED <<exists, expected, acknowledged>>

Acknowledge(r) ==
  /\ at[r] # 0
  /\ acknowledged' = acknowledged \cup {r}
  /\ UNCHANGED <<exists, revision, at, expected>>

Next ==
  \/ Create
  \/ \E r \in Requests : Base(r) \/ Commit(r) \/ Acknowledge(r)

Spec == Init /\ [][Next]_vars
===============================================================================
