---------------------------- MODULE ProgramGeneration ----------------------------
(***************************************************************************)
(* The three services that have a model produce one program for a request: *)
(* SqlAuthoringService ("author": the model writes the script),            *)
(* MetadataInferenceService ("infer": it proposes a plan that is compiled) *)
(* and AdaptiveProgramPlanner ("plan": it fills in a plan, and repairs it  *)
(* once).  The first two let it look things up in bounded rounds of tool   *)
(* calls (generate_with_field_lookup, FieldDetailLookup).                  *)
(*                                                                         *)
(* Objects stand for themselves and their fields.  What the validators and *)
(* the compiler say of a script or a plan is the model's choice, but for   *)
(* what the properties look at: its CTE, and the objects it names.         *)
(***************************************************************************)
EXTENDS Naturals, FiniteSets, LiveRuntime

CONSTANTS
  Objects,    \* the objects of the ontology
  MaxObjects, \* how many of them a search may extend the context of a request to (32)
  ToolRounds, \* the rounds of tool calls of one generation (3)
  MaxBatch    \* the tool calls of one round (4)

ASSUME GenerationAssumption ==
  /\ IsFiniteSet(Objects)
  /\ MaxObjects \in Nat /\ ToolRounds \in Nat /\ MaxBatch \in Nat \ {0}

VARIABLE job \* one request to one of the services

generationVars == <<installed, job>>

Kinds == {"author", "infer", "plan"}
(* "known" are the objects of the candidate context, "loaded" those whose fields
   were read; "cte" and "names" are of the last script or plan.  History: whether
   some answer or the request forbade CTEs, and the version compared at the end. *)
Jobs ==
  [kind : Kinds, at : Processes, phase : {"new", "ask", "tools", "judge", "compare", "done"},
   pinned : Versions, known : SUBSET Objects, loaded : SUBSET Objects,
   round : 0 .. ToolRounds, pending : 0 .. MaxBatch, attempt : 0 .. 1,
   calls : Nat, tools : Nat, allow : BOOLEAN, claim : BOOLEAN, cte : BOOLEAN,
   names : SUBSET Objects, output : {"none", "program", "clarification", "failed", "unavailable"},
   forbade : BOOLEAN, compared : Versions, grown : BOOLEAN]

NewJob(kind, p, allow) ==
  [kind |-> kind, at |-> p, phase |-> "new", pinned |-> 0, known |-> {}, loaded |-> {},
   round |-> 0, pending |-> 0, attempt |-> 0, calls |-> 0, tools |-> 0,
   allow |-> allow, claim |-> allow, cte |-> FALSE, names |-> {}, output |-> "none",
   forbade |-> ~allow, compared |-> 0, grown |-> FALSE]

GenerationInit ==
  /\ RuntimeInit
  /\ \E kind \in Kinds, p \in Processes, allow \in BOOLEAN :
       (kind # "author" => allow) /\ job = NewJob(kind, p, allow)

Becomes(j)     == job' = j /\ UNCHANGED installed
Ended(j, output) == [j EXCEPT !.phase = "done", !.output = output, !.pending = 0]
InJob(phase)   == job.phase = phase

(* The snapshot of the request and its first candidates, whatever their number: the
   members of a family come in full.  Inference does not ask a model that has
   nothing to choose from. *)
BeginJob ==
  /\ InJob("new")
  /\ LET live == installed[job.at]
     IN IF live = 0 THEN Becomes(Ended(job, "unavailable"))
        ELSE \E found \in SUBSET Objects :
          LET j == [job EXCEPT !.pinned = live, !.known = found]
          IN Becomes(IF job.kind = "infer" /\ found = {} THEN Ended(j, "failed")
                     ELSE [j EXCEPT !.phase = "ask"])

-------------------------------------------------------------------------------
JobCalled == [job EXCEPT !.calls = @ + 1]

(* No credentials, network, status, timeout, or a response that is not usable. *)
CallFails ==
  /\ InJob("ask")
  /\ Becomes(Ended(JobCalled, IF job.kind = "author" THEN "unavailable" ELSE "failed"))

(* Tool calls: too many of them, or in the round that must answer, end it. *)
CallAsksTools ==
  /\ InJob("ask") /\ job.kind # "plan"
  /\ \E n \in 1 .. MaxBatch + 1 :
       Becomes(IF job.round = ToolRounds \/ n > MaxBatch THEN Ended(JobCalled, "failed")
               ELSE [JobCalled EXCEPT !.phase = "tools", !.pending = n])

(* An answer: a script with what it says about CTEs, or a plan and its objects. *)
CallAnswers ==
  /\ InJob("ask")
  /\ \E claim, cte \in BOOLEAN, names \in SUBSET Objects :
       /\ job.kind # "author" => claim = job.claim /\ ~cte
       /\ job.kind # "infer" => names = {}
       /\ Becomes([JobCalled EXCEPT !.phase = "judge", !.claim = claim, !.cte = cte, !.names = names,
                                 !.forbade = @ \/ ~claim])

(* One tool call of the batch is answered; after the last the next round begins. *)
LookupAnswered(j) ==
  [j EXCEPT !.tools = @ + 1, !.pending = @ - 1,
            !.phase = IF j.pending = 1 THEN "ask" ELSE "tools",
            !.round = IF j.pending = 1 THEN @ + 1 ELSE @]

WithObjects(kept) ==
  [job EXCEPT !.known = @ \cup kept, !.loaded = @ \cup kept,
              !.grown = @ \/ ~(kept \subseteq job.known)]

(* Mutant: objects that do not fit are told to the model all the same. *)
SearchUnbounded ==
  /\ InJob("tools")
  /\ \E found \in SUBSET Objects : Becomes(LookupAnswered(WithObjects(found)))

(* FieldDetailLookup.search: what is found joins the context as long as it fits;
   the rest is left out, and the model is told so. *)
SearchMetadata ==
  /\ InJob("tools")
  /\ \E found \in SUBSET Objects : \E kept \in SUBSET found :
       /\ found \cap job.known \subseteq kept
       /\ kept \subseteq job.known \/ Cardinality(job.known \cup kept) <= MaxObjects
       /\ kept # found => Cardinality(job.known \cup kept) >= MaxObjects
       /\ Becomes(LookupAnswered(WithObjects(kept)))

(* FieldDetailLookup.__call__: a reference outside the context ends the generation,
   as do arguments that break the contract, and a tool inference does not have. *)
LookupFields ==
  /\ InJob("tools")
  /\ \E refs \in SUBSET Objects :
       Becomes(IF refs # {} /\ refs \subseteq job.known
               THEN LookupAnswered([job EXCEPT !.loaded = @ \cup refs])
               ELSE Ended(job, "failed"))

(* validate_sql_program of the author: it only tells the model. *)
CheckScript ==
  /\ InJob("tools") /\ job.kind = "author"
  /\ Becomes(LookupAnswered(job))

-------------------------------------------------------------------------------
(* A rejected answer is sent back once. *)
Retried(j) == [j EXCEPT !.phase = "ask", !.attempt = 1, !.round = 0]

(* Mutant: the second attempt may allow what the first answer forbade. *)
JudgeScriptForgetting ==
  /\ InJob("judge") /\ job.kind = "author"
  /\ \/ Becomes(Ended(job, "failed"))
     \/ /\ job.cte => job.allow /\ job.claim
        /\ Becomes([job EXCEPT !.phase = "compare"])
     \/ Becomes(IF job.attempt = 0 THEN Retried(job) ELSE Ended(job, "failed"))

(* SqlAuthoringService: no script is a question back; a CTE needs the permission of
   the request and of every answer so far; a script that is refused is repaired
   once, under the permission that is left. *)
JudgeScript ==
  /\ InJob("judge") /\ job.kind = "author"
  /\ \/ Becomes(Ended(job, "failed"))
     \/ /\ job.cte => job.allow /\ job.claim
        /\ Becomes([job EXCEPT !.phase = "compare"])
     \/ Becomes(IF job.attempt = 0 THEN Retried([job EXCEPT !.allow = @ /\ job.claim])
                ELSE Ended(job, "failed"))

(* MetadataInferenceService up to the binding: relations, validation against the
   candidates the model was shown, conversion. *)
JudgeInference ==
  /\ InJob("judge") /\ job.kind = "infer"
  /\ \/ Becomes(Ended(job, "failed"))
     \/ /\ job.names # {} /\ job.names \subseteq job.known
        /\ Becomes([job EXCEPT !.phase = "compare"])

(* Mutant: a plan is repaired until it binds. *)
JudgePlanRepeatedly ==
  /\ InJob("judge") /\ job.kind = "plan"
  /\ \/ Becomes(Ended(job, "program"))
     \/ \E output \in {"clarification", "failed"} : Becomes(Ended(job, output))
     \/ Becomes(Retried(job))

(* AdaptiveProgramPlanner: bound, unclear, hopeless, or worth one repair. *)
JudgePlan ==
  /\ InJob("judge") /\ job.kind = "plan"
  /\ \/ Becomes(Ended(job, "program"))
     \/ \E output \in {"clarification", "failed"} : Becomes(Ended(job, output))
     \/ job.attempt = 0 /\ Becomes(Retried(job))

(* The live snapshot is compared before the script is handed out, or before the
   plan is compiled, which may fail. *)
CompareSnapshot ==
  /\ InJob("compare")
  /\ \/ /\ installed[job.at] = job.pinned
        /\ Becomes([Ended(job, "program") EXCEPT !.compared = installed[job.at]])
     \/ /\ installed[job.at] # job.pinned \/ job.kind = "infer"
        /\ Becomes(Ended(job, IF job.kind = "infer" THEN "unavailable" ELSE "failed"))

JobStep ==
  \/ BeginJob \/ CallFails \/ CallAsksTools \/ CallAnswers
  \/ SearchMetadata \/ LookupFields \/ CheckScript
  \/ JudgeScript \/ JudgeInference \/ JudgePlan \/ CompareSnapshot

GenerationNext == JobStep \/ (\E p \in Processes : InstallVersion(p) /\ UNCHANGED job)

GenerationSpec == GenerationInit /\ [][GenerationNext]_generationVars

-------------------------------------------------------------------------------
GenerationTypeOK == job \in Jobs

(* A script or an inferred program belongs to one version: the one whose objects
   the model was shown was still the live one when the answer had been checked.
   Whatever was looked up on the way is part of the context that is checked. *)
ProgramOfOneVersion ==
  /\ job.loaded \subseteq job.known
  /\ job.output = "program" /\ job.kind # "plan" => job.compared = job.pinned
  /\ job.output = "program" => job.pinned # 0

(* A constraint once identified is not relaxed by a repair: no script with a CTE
   leaves after the request or any answer has forbidden it; and an inferred
   program names only what the model was shown. *)
ProgramWasChecked ==
  job.output = "program" => (job.cte => ~job.forbade) /\ job.names \subseteq job.known

(* The loops are bounded for every model: two attempts of ToolRounds + 1 calls; and
   no search, or series of them, takes the context past its limit: only the first
   candidates may be more. *)
JobWithinLimits ==
  /\ job.calls <= IF job.kind = "author" THEN 2 * (ToolRounds + 1)
                  ELSE IF job.kind = "infer" THEN ToolRounds + 1 ELSE 2
  /\ job.tools + job.pending <= MaxBatch * ToolRounds * (job.attempt + 1)
  /\ job.grown => Cardinality(job.known) <= MaxObjects
===============================================================================
