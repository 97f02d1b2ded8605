------------------------------- MODULE Generation -------------------------------
(***************************************************************************)
(* How SQL comes about: the agent with its tools (the pipeline that is     *)
(* wired), the older graph of nodes, the services that let a model write   *)
(* or plan one program, the algorithms that turn a plan into SQL, and the  *)
(* way of a package to the catalog they read.  A request runs through one  *)
(* of them, so a behaviour exercises one and the others stay as they are;  *)
(* the ontology that is installed may change under the agent and the       *)
(* services.                                                               *)
(***************************************************************************)
EXTENDS Deliveries, InferencePlans, ProgramPlans, Catalogs

(* Some server answers. *)
ASSUME ProcessAssumption == Processes # {}

VARIABLE pipeline \* the one in use

vars == <<pipeline, installed, agent, legacy, job, plan, program, package>>

Pipelines == {"agent", "legacy", "service", "inference", "program", "package"}

NoTurn    == agent = [t \in Turns |-> Fresh(CHOOSE p \in Processes : TRUE)]
NoJob     == job = NewJob("plan", CHOOSE p \in Processes : TRUE, TRUE)
NoPlanYet == plan = [Waiting(<<>>) EXCEPT !.phase = "none"]
NoProgram == program = [NewProgram(<<>>) EXCEPT !.stage = "none"]
NoPackage == package = NewPackage(NoDraft, {}, "none")

Init ==
  /\ pipeline \in Pipelines
  /\ RuntimeInit
  /\ IF pipeline = "agent"     THEN AgentInit ELSE NoTurn
  /\ IF pipeline = "service"   THEN GenerationInit ELSE NoJob
  /\ IF pipeline = "inference" THEN PlanInit ELSE NoPlanYet
  /\ IF pipeline = "program"   THEN ProgramInit ELSE NoProgram
  /\ IF pipeline = "package"   THEN PackageInit ELSE NoPackage
  /\ LegacyInit
  /\ pipeline # "legacy" => legacy.key

OnlyAgent     == pipeline = "agent"     /\ UNCHANGED <<pipeline, legacy, job, plan, program, package>>
OnlyLegacy    == pipeline = "legacy"    /\ UNCHANGED <<pipeline, installed, agent, job, plan, program, package>>
OnlyService   == pipeline = "service"   /\ UNCHANGED <<pipeline, legacy, agent, plan, program, package>>
OnlyInference == pipeline = "inference" /\ UNCHANGED <<pipeline, installed, agent, legacy, job, program, package>>
OnlyProgram   == pipeline = "program"   /\ UNCHANGED <<pipeline, installed, agent, legacy, job, plan, package>>
OnlyPackage   == pipeline = "package"   /\ UNCHANGED <<pipeline, installed, agent, legacy, job, plan, program>>

Next ==
  \/ OnlyAgent /\ AgentNext
  \/ OnlyLegacy /\ LegacyNext
  \/ OnlyService /\ GenerationNext
  \/ OnlyInference /\ InferenceNext
  \/ OnlyProgram /\ ProgramNext
  \/ OnlyPackage /\ PackageNext

(* The thread of a request that talks to a model goes on; nobody has to publish
   anything, and of the algorithms only what they give is looked at. *)
Fairness ==
  /\ \A t \in Turns : WF_vars(OnlyAgent /\ AgentStep(t))
  /\ WF_vars(OnlyLegacy /\ LegacyNext)
  /\ WF_vars(OnlyService /\ JobStep)

Spec     == Init /\ [][Next]_vars
FairSpec == Spec /\ Fairness

-------------------------------------------------------------------------------
TypeOK == pipeline \in Pipelines /\ AgentTypeOK /\ LegacyTypeOK /\ GenerationTypeOK

(* What an inferred plan is turned into computes what the plan says, and the two
   compilers of such plans agree (inference_to_relational.py, inference_sql_compiler.py). *)
ProgramsComputeTheirPlan == CompiledMeansPlan /\ OlderCompilerAgrees

(* Every request to the agent, the older graph or a service is answered, whatever the
   model says: an answer, a question back or a failure. *)
RequestAnswered ==
  /\ pipeline = "agent"     => \A t \in Turns : agent[t].phase = "done"
  /\ pipeline = "legacy"    => legacy.node = "end"
  /\ pipeline = "service"   => job.phase = "done"

EveryRequestIsAnswered == []<>RequestAnswered
===============================================================================
