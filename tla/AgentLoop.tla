------------------------------- MODULE AgentLoop -------------------------------
(***************************************************************************)
(* One model chooses read-only tools and writes the SQL of a turn:         *)
(* run_conversation_agent and the ConversationTools of the request.        *)
(*                                                                         *)
(* A response of the model is whatever the provider may return.  A script  *)
(* is abstracted to what the checks look at: whether it reads tables,      *)
(* whether it has a CTE, whether it passes validate_authored_sql on the    *)
(* catalog of the turn.  A version of the ontology is a number, 0 for none *)
(* installed; the runtime belongs to the process the turn runs in, and     *)
(* another thread may install a newer version between any two steps.       *)
(***************************************************************************)
EXTENDS Naturals, FiniteSets, LiveRuntime

CONSTANTS
  Turns,         \* the runs of the agent, each a thread
  MaxModelCalls, \* the calls of the model one turn may make (9 in the code)
  MaxToolCalls   \* the tool calls one turn may make (16 in the code)

ASSUME AgentAssumption ==
  /\ IsFiniteSet(Turns)
  /\ MaxModelCalls \in Nat \ {0}
  /\ MaxToolCalls \in Nat

VARIABLE agent \* the local variables of each run of the agent

agentVars == <<installed, agent>>

Scripts  == [tables : BOOLEAN, cte : BOOLEAN]
NoScript == [tables |-> FALSE, cte |-> FALSE]
AgentOutputs == {"none", "reply", "sql", "draft", "failed"}

(* "facts" and "forbade" are history: the versions tool results were read from,
   and whether some validation of the turn was told not to allow a CTE. *)
Agents ==
  [at : Processes, phase : {"idle", "call", "act", "check", "done"},
   calls : 0 .. MaxModelCalls, tools : 0 .. MaxToolCalls, pending : 0 .. MaxToolCalls,
   touched : BOOLEAN, pinned : Versions, allowCte : BOOLEAN, script : Scripts,
   steps : Nat, output : AgentOutputs, checked : Versions,
   facts : SUBSET Versions, forbade : BOOLEAN]

Fresh(p) ==
  [at |-> p, phase |-> "idle", calls |-> 0, tools |-> 0, pending |-> 0,
   touched |-> FALSE, pinned |-> 0, allowCte |-> TRUE, script |-> NoScript,
   steps |-> 0, output |-> "none", checked |-> 0, facts |-> {}, forbade |-> FALSE]

AgentInit ==
  /\ RuntimeInit
  /\ agent \in [Turns -> {Fresh(p) : p \in Processes}]

In(t, phase) == agent[t].phase = phase
Update(t, a) == agent' = [agent EXCEPT ![t] = a] /\ UNCHANGED installed

-------------------------------------------------------------------------------
(* finish: the last step of the trace is the response; "extra" steps come
   before it in the same action. *)
Finished(a, output, extra) ==
  [a EXCEPT !.phase = "done", !.output = output, !.steps = @ + extra + 1, !.pending = 0]

(* The model is asked; its answer is recorded as one step. *)
Called(a) == [a EXCEPT !.calls = @ + 1, !.steps = @ + 1]

MayCall(t) == In(t, "call") /\ agent[t].calls < MaxModelCalls

(* Without credentials the turn fails before anything else is built. *)
Begin(t) ==
  /\ In(t, "idle")
  /\ \/ Update(t, [agent[t] EXCEPT !.phase = "call"])
     \/ Update(t, Finished(agent[t], "failed", 0))

(* Network, HTTP status, timeout; or a response that is cut off, empty, not the
   contracted JSON, or names an unknown tool.  A body that cannot be read at all
   is the one call that leaves no step. *)
ModelFails(t) ==
  /\ MayCall(t)
  /\ \/ Update(t, Finished(Called(agent[t]), "failed", 0))
     \/ Update(t, Finished([agent[t] EXCEPT !.calls = @ + 1], "failed", 0))

(* Mutant: each batch is compared with the whole budget. *)
ModelAsksAfresh(t) ==
  /\ MayCall(t)
  /\ \E n \in 1 .. MaxToolCalls + 1 :
       IF n > MaxToolCalls
       THEN Update(t, Finished(Called(agent[t]), "failed", 0))
       ELSE Update(t, [Called(agent[t]) EXCEPT !.phase = "act", !.pending = n])

(* The whole batch is refused when it does not fit into what is left. *)
ModelAsks(t) ==
  /\ MayCall(t)
  /\ \E n \in 1 .. MaxToolCalls + 1 :
       IF agent[t].tools + n > MaxToolCalls
       THEN Update(t, Finished(Called(agent[t]), "failed", 0))
       ELSE Update(t, [Called(agent[t]) EXCEPT !.phase = "act", !.pending = n])

(* Plain text, or the contracted answer without SQL. *)
ModelReplies(t) ==
  /\ MayCall(t)
  /\ Update(t, Finished(Called(agent[t]), "reply", 0))

(* Mutant: the loop ends and nothing is returned. *)
CallsExhaustedSilently(t) ==
  In(t, "call") /\ agent[t].calls = MaxModelCalls /\ UNCHANGED agentVars

(* The loop is over and the model has still not answered. *)
CallsExhausted(t) ==
  /\ In(t, "call") /\ agent[t].calls = MaxModelCalls
  /\ Update(t, Finished(agent[t], "failed", 0))

-------------------------------------------------------------------------------
(* Mutant: off by one, the batch is taken to have one more call. *)
ToolAnsweredOffByOne(a) ==
  [a EXCEPT !.tools = @ + 1, !.pending = @ - 1, !.steps = @ + 1,
            !.phase = IF a.pending = 0 THEN "call" ELSE "act"]

(* One tool call of the batch is answered; after the last, the model is called
   again, also when the last call the loop allows is spent. *)
ToolAnswered(a) ==
  [a EXCEPT !.tools = @ + 1, !.pending = @ - 1, !.steps = @ + 1,
            !.phase = IF a.pending = 1 THEN "call" ELSE "act"]

(* The catalog of the request: taken from the runtime when it is first needed,
   and kept.  The runtime is remembered even when it has no snapshot to give. *)
WithCatalog(a) ==
  [a EXCEPT !.touched = TRUE, !.pinned = IF @ = 0 THEN installed[a.at] ELSE @]

(* Arguments that do not validate, or a tool that needs no catalog
   (get_business_context without objects). *)
ToolWithoutCatalog(t) ==
  /\ In(t, "act")
  /\ Update(t, ToolAnswered(agent[t]))

(* search_tables, read_fields, get_field_mappings, get_business_context: facts
   of the catalog, or an error when there is none. *)
ToolReads(t) ==
  /\ In(t, "act")
  /\ LET a == WithCatalog(agent[t])
     IN Update(t, ToolAnswered([a EXCEPT !.facts = @ \cup ({a.pinned} \ {0})]))

(* ConversationTools.validate up to check_snapshot: the permission for a CTE
   only ever goes away; a forbidden CTE is refused before storage is touched; a
   script without tables needs no catalog. *)
Permitted(a, allow) == [a EXCEPT !.allowCte = @ /\ allow, !.forbade = @ \/ ~allow]
CteRefused(a, s)    == s.cte /\ ~a.allowCte
Inspected(a, s)     == IF CteRefused(a, s) \/ ~s.tables THEN a ELSE WithCatalog(a)
MayAccept(a, s)     == ~CteRefused(a, s) /\ (s.tables => Inspected(a, s).pinned # 0)

(* Mutant: only a turn whose catalog is empty is refused. *)
SnapshotPresent(a) == a.touched => a.pinned # 0

(* check_snapshot: the process still answers from the version of the turn. *)
SnapshotUnchanged(a) == a.touched => a.pinned # 0 /\ installed[a.at] = a.pinned

(* validate_sql: whatever it finds goes to the model and leaves nothing behind
   but the permission and the catalog. *)
ToolChecks(t) ==
  /\ In(t, "act")
  /\ \E s \in Scripts, allow \in BOOLEAN :
       Update(t, ToolAnswered(Inspected(Permitted(agent[t], allow), s)))

-------------------------------------------------------------------------------
(* An answer with SQL that is not delivered: items are unresolved (then it is
   not even checked), or the checks before the snapshot refuse it. *)
ModelDrafts(t) ==
  /\ MayCall(t)
  /\ \/ Update(t, Finished(Called(agent[t]), "draft", 1))
     \/ \E s \in Scripts, allow \in BOOLEAN :
          Update(t, Finished(Inspected(Permitted(Called(agent[t]), allow), s), "draft", 1))

(* An answer with SQL that passes validate_authored_sql on the turn's catalog. *)
ModelDelivers(t) ==
  /\ MayCall(t)
  /\ \E s \in Scripts, allow \in BOOLEAN :
       LET a == Permitted(Called(agent[t]), allow)
       IN /\ MayAccept(a, s)
          /\ Update(t, [Inspected(a, s) EXCEPT !.phase = "check", !.script = s])

(* Then the snapshot is compared, then the script with the delivery mode. *)
CheckDelivery(t) ==
  /\ In(t, "check")
  /\ \/ /\ SnapshotUnchanged(agent[t])
        /\ Update(t, Finished([agent[t] EXCEPT !.checked = installed[agent[t].at]], "sql", 1))
     \/ Update(t, Finished([agent[t] EXCEPT !.script = NoScript], "draft", 1))

AgentStep(t) ==
  \/ Begin(t) \/ ModelFails(t) \/ ModelAsks(t) \/ ModelReplies(t) \/ CallsExhausted(t)
  \/ ToolWithoutCatalog(t) \/ ToolReads(t) \/ ToolChecks(t)
  \/ ModelDrafts(t) \/ ModelDelivers(t) \/ CheckDelivery(t)

AgentNext == (\E t \in Turns : AgentStep(t)) \/ (\E p \in Processes : InstallVersion(p) /\ UNCHANGED agent)

AgentSpec     == AgentInit /\ [][AgentNext]_agentVars
AgentFairness == \A t \in Turns : WF_agentVars(AgentStep(t))
FairAgentSpec == AgentSpec /\ AgentFairness

-------------------------------------------------------------------------------
AgentTypeOK ==
  /\ installed \in [Processes -> Versions]
  /\ agent \in [Turns -> Agents]

(* Everything a turn says about the ontology comes from one version: the facts
   its tools read and the package its trace names; and SQL that reads tables is
   delivered only if that version was still the installed one when it was
   compared (check_snapshot), whatever was installed meanwhile. *)
OneVersionPerTurn ==
  \A t \in Turns :
    /\ agent[t].facts \subseteq {agent[t].pinned}
    /\ agent[t].output = "sql" /\ agent[t].script.tables =>
         agent[t].pinned # 0 /\ agent[t].checked = agent[t].pinned

(* Once a validation of the turn was told that CTEs are not allowed, no script
   with a CTE is delivered, even if the final answer claims to allow them. *)
ForbiddenCteStaysForbidden ==
  \A t \in Turns : agent[t].output = "sql" /\ agent[t].script.cte => ~agent[t].forbade

(* The trace accounts for the work: one step per model call and per tool call,
   one for the response, one more when SQL was written; at most the call that
   made the turn fail has no step.  What the poll of a message shows is the trace. *)
TraceAccounts ==
  \A t \in Turns :
    LET a == agent[t]
        closing == IF a.phase # "done" THEN 0 ELSE IF a.output \in {"sql", "draft"} THEN 2 ELSE 1
        missing == a.calls + a.tools + closing - a.steps
    IN missing = 0 \/ (missing = 1 /\ a.output = "failed")

(* The two budgets of the loop hold for calls that are still to be answered, too. *)
WithinBudgets ==
  \A t \in Turns : /\ agent[t].calls <= MaxModelCalls
                   /\ agent[t].tools + agent[t].pending <= MaxToolCalls

(* Every turn ends: whatever the model answers, the budgets run out. *)
EveryTurnEnds == \A t \in Turns : agent[t].phase # "idle" ~> agent[t].phase = "done"
===============================================================================
