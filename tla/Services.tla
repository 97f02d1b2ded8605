-------------------------------- MODULE Services --------------------------------
(***************************************************************************)
(* The services a client of the platform uses beside the ontology          *)
(* management: the turns of a conversation, evaluation runs, executions,   *)
(* feedback and the ontology tables (the routers api/main.py includes).    *)
(* No two of them write a common row or share memory, so a behaviour       *)
(* exercises one of them and the others stay as they are.                  *)
(***************************************************************************)
EXTENDS ConversationTurns, EvaluationRuns, Execution, Feedback, OntologyMetadata

VARIABLE service  \* the one in use

vars == <<service, conversationVars, evaluationVars, executionVars, feedbackVars, metadataVars>>

Routers == {"conversations", "evaluations", "execute", "feedback", "ontology"}

Init ==
  /\ service \in Routers
  /\ ConversationInit /\ EvaluationInit /\ ExecutionInit /\ FeedbackInit /\ MetadataInit
  /\ service # "execute" => eager  \* nobody looks at how tasks run

(* The other services do not move. *)
OnlyConversations ==
  /\ service = "conversations"
  /\ UNCHANGED <<service, evaluationVars, executionVars, feedbackVars, metadataVars>>
OnlyEvaluations ==
  /\ service = "evaluations"
  /\ UNCHANGED <<service, conversationVars, executionVars, feedbackVars, metadataVars>>
OnlyExecute ==
  /\ service = "execute"
  /\ UNCHANGED <<service, conversationVars, evaluationVars, feedbackVars, metadataVars>>
OnlyFeedback ==
  /\ service = "feedback"
  /\ UNCHANGED <<service, conversationVars, evaluationVars, executionVars, metadataVars>>
OnlyOntology ==
  /\ service = "ontology"
  /\ UNCHANGED <<service, conversationVars, evaluationVars, executionVars, feedbackVars>>

Next ==
  \/ OnlyConversations /\ ConversationNext
  \/ OnlyEvaluations /\ EvaluationNext
  \/ OnlyExecute /\ ExecutionNext
  \/ OnlyFeedback /\ FeedbackNext
  \/ OnlyOntology /\ MetadataNext

(* Threads and tasks that can go on do; clients need not do anything. *)
Fairness ==
  /\ \A t \in Turns : WF_vars(OnlyConversations /\ ThreadStep(t))
  /\ \A s \in Starts : WF_vars(OnlyEvaluations /\ RunnerStep(s))
  /\ \A t \in Tasks : WF_vars(OnlyExecute /\ TaskStep(t))

Spec     == Init /\ [][Next]_vars
FairSpec == Spec /\ Fairness

-------------------------------------------------------------------------------
TypeOK ==
  /\ service \in Routers
  /\ ConversationTypeOK /\ EvaluationTypeOK /\ ExecutionTypeOK /\ FeedbackTypeOK /\ MetadataTypeOK

(* What was begun comes to an end: the turns of a conversation, an evaluation run,
   an execution.  Clients ask for finitely much, so again and again nothing is
   under way; a deleted conversation, a failed commit and a dead process
   included. *)
EveryServiceSettles == []<>(TurnsResolved /\ RunsEnded /\ TasksEnded)
===============================================================================
