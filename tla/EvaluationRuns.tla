----------------------------- MODULE EvaluationRuns -----------------------------
(***************************************************************************)
(* One evaluation run and its cases: clients start it, each start launches *)
(* a daemon thread (EvaluationRunner.run) that generates an answer for one *)
(* case after the other, and the run may be deleted at any time.           *)
(*                                                                         *)
(* A step is what happens between two commits, or between a commit and the *)
(* call of the agent.  The agent's answer is the ontology package it names *)
(* (0: none), the comparison of the two statements is left out but for its *)
(* failing.                                                                *)
(***************************************************************************)
EXTENDS Naturals, FiniteSets

CONSTANTS
  Cases,    \* the cases of the run, 1 .. n
  Starts,   \* the requests to start it, each a client and the thread it may launch
  Packages  \* the ontology packages that may be installed meanwhile

ASSUME EvaluationAssumption ==
  /\ Cases = 1 .. Cardinality(Cases) /\ IsFiniteSet(Cases) /\ Cases # {}
  /\ IsFiniteSet(Starts)
  /\ Packages \subseteq Nat \ {0}

VARIABLES
  run,      \* the row of the run: status, pinned package, counters
  cases,    \* the rows of its cases; "package" is history: what its answer named
  runner,   \* where each start request, then its thread is
  doubled,  \* history: two threads have worked on the run at once
  abandoned \* history: some thread died while it worked

evaluationVars == <<run, cases, runner, doubled, abandoned>>

Answers == {0} \cup Packages
Decided == {"completed", "failed"}
Runs ==
  [status : {"pending", "running", "completed", "failed", "deleted"}, package : Answers,
   processed : 0 .. Cardinality(Cases), failed : 0 .. Cardinality(Cases)]
CaseRows == [status : {"pending", "running"} \cup Decided, package : Answers]
Runners ==
  [phase : {"idle", "asked", "launched", "next", "mark", "generating", "ended"},
   case : 1 .. Cardinality(Cases) + 1, pinned : Answers]

EvaluationInit ==
  /\ run = [status |-> "pending", package |-> 0, processed |-> 0, failed |-> 0]
  /\ cases = [c \in Cases |-> [status |-> "pending", package |-> 0]]
  /\ runner = [s \in Starts |-> [phase |-> "idle", case |-> 1, pinned |-> 0]]
  /\ doubled = FALSE
  /\ abandoned = FALSE

Working(s)      == runner[s].phase \notin {"idle", "asked", "ended"}
Moves(s, phase) == runner' = [runner EXCEPT ![s].phase = phase]
InPhase(s, phase) == runner[s].phase = phase /\ run.status # "deleted"
Quiet           == UNCHANGED <<doubled, abandoned>>

(* start_evaluation reads the run; a run that is running or completed is only
   shown, which changes nothing. *)
AskStart(s) ==
  /\ InPhase(s, "idle") /\ run.status \in {"pending", "failed"}
  /\ Moves(s, "asked")
  /\ UNCHANGED <<run, cases>> /\ Quiet

(* Then it sets the status, whatever it is by now, and launches a thread. *)
CommitStart(s) ==
  /\ InPhase(s, "asked")
  /\ run' = [run EXCEPT !.status = "running"]
  /\ Moves(s, "launched")
  /\ doubled' = (doubled \/ \E other \in Starts : Working(other))
  /\ UNCHANGED <<cases, abandoned>>

(* A client is told of a run as it is. *)
IgnoredStart(s) ==
  /\ InPhase(s, "idle") /\ run.status \in {"running", "completed"}
  /\ Moves(s, "ended")
  /\ UNCHANGED <<run, cases>> /\ Quiet

(* Mutant: whatever is not completed is tried again. *)
BeginRunRetryingFailed(s) ==
  /\ InPhase(s, "launched")
  /\ IF run.status = "completed"
     THEN Moves(s, "ended") /\ UNCHANGED <<run, cases>>
     ELSE /\ run' = [run EXCEPT !.status = "running"]
          /\ cases' = [c \in Cases |-> IF cases[c].status # "completed"
                                       THEN [cases[c] EXCEPT !.status = "pending"] ELSE cases[c]]
          /\ Moves(s, "next")
  /\ Quiet

(* The thread loads the run; a completed one is left alone.  Cases that were
   running when their thread died are pending again. *)
BeginRun(s) ==
  /\ InPhase(s, "launched")
  /\ IF run.status = "completed"
     THEN Moves(s, "ended") /\ UNCHANGED <<run, cases>>
     ELSE /\ run' = [run EXCEPT !.status = "running"]
          /\ cases' = [c \in Cases |-> IF cases[c].status = "running"
                                       THEN [cases[c] EXCEPT !.status = "pending"] ELSE cases[c]]
          /\ Moves(s, "next")
  /\ Quiet

(* The next case: one that is decided is skipped. *)
InspectCase(s) ==
  /\ InPhase(s, "next") /\ runner[s].case \in Cases
  /\ IF cases[runner[s].case].status \in Decided
     THEN runner' = [runner EXCEPT ![s].case = @ + 1]
     ELSE Moves(s, "mark")
  /\ UNCHANGED <<run, cases>> /\ Quiet

(* It is marked, and the run is read again for the call of the agent. *)
MarkCase(s) ==
  /\ InPhase(s, "mark")
  /\ cases' = [cases EXCEPT ![runner[s].case].status = "running"]
  /\ runner' = [runner EXCEPT ![s].phase = "generating", ![s].pinned = run.package]
  /\ UNCHANGED run /\ Quiet

Among(rows, statuses) == Cardinality({c \in Cases : rows[c].status \in statuses})

(* _refresh_counts *)
Counted(rows, r) ==
  [r EXCEPT !.processed = Among(rows, Decided), !.failed = Among(rows, {"failed"})]

DecideCase(s, status, package) ==
  cases' = [cases EXCEPT ![runner[s].case] = [status |-> status, package |-> package]]

(* Mutant: a newer package is not taken for a change. *)
ChangedToOlder(s, package) == runner[s].pinned # 0 /\ package \in 1 .. runner[s].pinned - 1

(* _package_changed: the first package a run sees is pinned, another one fails the
   run and the case, and the counters are left as they are. *)
Changed(s, package) == package # 0 /\ runner[s].pinned \notin {0, package}

PackageChanged(s) ==
  /\ InPhase(s, "generating")
  /\ \E p \in Packages : Changed(s, p) /\ DecideCase(s, "failed", p)
  /\ run' = [run EXCEPT !.status = "failed"]
  /\ Moves(s, "ended")
  /\ Quiet

(* Otherwise the case is evaluated, which may fail, and counted. *)
DecidedCase(s) ==
  /\ InPhase(s, "generating")
  /\ \E p \in Answers, status \in Decided :
       /\ ~Changed(s, p)
       /\ DecideCase(s, status, p)
       /\ run' = Counted(cases', IF p # 0 /\ runner[s].pinned = 0
                                 THEN [run EXCEPT !.package = p] ELSE run)
  /\ runner' = [runner EXCEPT ![s].phase = "next", ![s].case = @ + 1, ![s].pinned = 0]
  /\ Quiet

CompleteRun(s) ==
  /\ InPhase(s, "next") /\ runner[s].case \notin Cases
  /\ run' = [Counted(cases, run) EXCEPT !.status = "completed"]
  /\ Moves(s, "ended")
  /\ UNCHANGED cases /\ Quiet

(* The process dies, or the database refuses a commit outside the handler of the
   cases: nobody writes down that the thread is gone. *)
LoseRunner(s) ==
  /\ Working(s) /\ run.status # "deleted"
  /\ Moves(s, "ended")
  /\ abandoned' = TRUE
  /\ UNCHANGED <<run, cases, doubled>>

(* delete_evaluation: the rows are gone, and the next commit of a thread that
   works on them is an error that ends it. *)
DeleteRun ==
  /\ run.status # "deleted"
  /\ run' = [run EXCEPT !.status = "deleted"]
  /\ runner' = [s \in Starts |-> [runner[s] EXCEPT !.phase = "ended"]]
  /\ UNCHANGED cases /\ Quiet

RunnerStep(s) ==
  \/ CommitStart(s) \/ BeginRun(s) \/ InspectCase(s) \/ MarkCase(s)
  \/ PackageChanged(s) \/ DecidedCase(s) \/ CompleteRun(s)

EvaluationNext ==
  \/ \E s \in Starts : AskStart(s) \/ IgnoredStart(s) \/ RunnerStep(s) \/ LoseRunner(s)
  \/ DeleteRun

EvaluationSpec == EvaluationInit /\ [][EvaluationNext]_evaluationVars

-------------------------------------------------------------------------------
EvaluationTypeOK ==
  /\ run \in Runs
  /\ cases \in [Cases -> CaseRows]
  /\ runner \in [Starts -> Runners]
  /\ doubled \in BOOLEAN /\ abandoned \in BOOLEAN

(* The thread has taken the case up, and will decide it or die. *)
TakenUp(s, c) == runner[s].case = c /\ runner[s].phase \in {"mark", "generating"}

(* A run that reads as completed is: every case is decided, but for one that a
   second thread took up too and has in hand, or left behind when it died.  As
   long as two starts did not launch two threads the counters are those of the
   cases, and a run never mixes packages: an answer that was not failed for it
   names the pinned package or none. *)
CompletedRunIsSound ==
  /\ run.status = "completed" =>
       \A c \in Cases :
         \/ cases[c].status \in Decided
         \/ doubled /\ (abandoned \/ \E s \in Starts : TakenUp(s, c))
  /\ ~doubled =>
       /\ run.status = "completed" => run = Counted(cases, run)
       /\ \A c \in Cases :
            cases[c].status = "completed" => cases[c].package \in {0, run.package}

(* Starting again never repeats or overturns a case that was decided (the
   answers cost calls of the model): only one of two threads that worked at once
   does, and only on a case it took up before the other decided it. *)
DecidedCasesStay ==
  [][\A c \in Cases : cases[c].status \in Decided /\ cases'[c] # cases[c] =>
       doubled /\ \E s \in Starts : TakenUp(s, c)]_evaluationVars

(* Whatever is started how often, no case is executed again that has been. *)
RepeatedStartIsIdempotent ==
  [][\A c \in Cases : cases[c].status \in Decided => cases'[c] = cases[c]]_evaluationVars

(* The run is at rest: nobody is to work on it, unless the thread that worked on
   it is lost. *)
RunsEnded == run.status # "running" \/ abandoned
===============================================================================
