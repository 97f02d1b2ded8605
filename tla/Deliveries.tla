-------------------------------- MODULE Deliveries --------------------------------
(***************************************************************************)
(* The three ways a request to a model ends in SQL, side by side: the      *)
(* agent with its tools, the older graph of nodes and the services that    *)
(* let a model write or plan one program.  They share nothing but the      *)
(* ontology that is installed, so the conjunction of their specifications  *)
(* is their composition: what is installed under one of them is installed  *)
(* under the others.                                                       *)
(***************************************************************************)
EXTENDS AgentLoop, LegacyPipeline, ProgramGeneration

DeliverySpec == AgentSpec /\ LegacySpec /\ GenerationSpec

(* What is delivered belongs to one version of the ontology, the one the model was
   shown, and that was the live one when the snapshot was compared
   (ConversationTools.check_snapshot, SqlAuthoringService, MetadataInferenceService);
   and it passed the checks, with every prohibition identified on the way: CTE
   permissions are only ever withdrawn, and a repair is checked again. *)
DeliveredIsSound ==
  /\ OneVersionPerTurn /\ ProgramOfOneVersion
  /\ ForbiddenCteStaysForbidden /\ LegacyWasChecked /\ ProgramWasChecked

(* The budgets hold for every behaviour of the model: calls, tool calls, rounds,
   repairs, nodes, the size of the context; and the trace accounts for them. *)
BudgetsHold == WithinBudgets /\ TraceAccounts /\ LegacyWithinLimits /\ JobWithinLimits
===============================================================================
