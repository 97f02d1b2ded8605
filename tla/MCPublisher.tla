------------------------------ MODULE MCPublisher ------------------------------
(* Instances of Publisher for TLC. *)
EXTENDS Publisher

(* The managed draft stays publishable, an edit of the other draft opens a
   diagnostic that blocks its publication. *)
PublishableDrafts == [w \in Workspaces |-> IF w = Managed THEN 0 .. MaxRevision ELSE {0}]
===============================================================================
