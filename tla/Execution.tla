-------------------------------- MODULE Execution --------------------------------
(***************************************************************************)
(* The execution of one query record: a client submits it, a task runs the *)
(* SQL, stores the result by its size and writes status, row count and the *)
(* reference of the result into the record.                                *)
(*                                                                         *)
(* With Redis the tasks go through a queue and are acknowledged late, so a *)
(* task of a dead worker, or one that takes longer than the visibility     *)
(* timeout, is delivered again; without Redis (REDIS_AVAILABLE = False) a  *)
(* task runs inside the request.  A result is its number of rows.  One of  *)
(* RESULT_FILE_THRESHOLD rows or more goes to the file named after the     *)
(* record, a smaller one to a database row of its own.                     *)
(***************************************************************************)
EXTENDS Naturals, FiniteSets, UnitOfWork

CONSTANTS
  Tasks,         \* the submissions, and the further deliveries of their tasks
  RowCounts,     \* how many rows a query may return
  FileThreshold, \* RESULT_FILE_THRESHOLD
  NoRef, FileRef \* an empty result_ref, and the path of the file

ASSUME ExecutionAssumption ==
  /\ IsFiniteSet(Tasks)
  /\ RowCounts \subseteq Nat \ {0} /\ FileThreshold \in Nat
  /\ NoRef # FileRef /\ {NoRef, FileRef} \cap Tasks = {}

VARIABLES
  eager,   \* tasks run inside the request
  record,  \* the row of query_history; a result row is named by its task
  file,    \* the rows in the result file of the record, 0 while there is none
  task,    \* each task: where it is, the record as it loaded it, its result
  overlap, \* history: two tasks have executed at once
  lost     \* history: a submission, a task or the note of its failure is gone for good

executionVars == <<eager, record, file, task, overlap, lost>>

Counts  == RowCounts \cup {0}
Records ==
  [status : {"pending", "running", "success", "failed"}, count : Counts,
   ref : Tasks \cup {NoRef, FileRef}]
NewRecord == [status |-> "pending", count |-> 0, ref |-> NoRef]
TaskStates ==
  [phase : {"none", "submitted", "queued", "started", "executed", "stored", "unacked", "done"},
   loaded : Records, rows : Counts]

ExecutionInit ==
  /\ eager \in BOOLEAN
  /\ record = NewRecord
  /\ file = 0
  /\ task = [t \in Tasks |-> [phase |-> "none", loaded |-> NewRecord, rows |-> 0]]
  /\ overlap = FALSE
  /\ lost = FALSE

At(t, phase)    == task[t].phase = phase
Enter(t, phase) == task' = [task EXCEPT ![t].phase = phase]
Leave(t, phase) == task' = [task EXCEPT ![t].phase = phase, ![t].loaded = NewRecord]
Executing(t)    == task[t].phase \in {"started", "executed", "stored"}
Histories       == UNCHANGED <<eager, overlap, lost>>

(* create_execute: a record may be submitted in any state, as often as a client
   likes; it is pending before its task exists. *)
SubmitTask(t) ==
  /\ At(t, "none")
  /\ record' = [record EXCEPT !.status = "pending"]
  /\ Enter(t, "submitted")
  /\ UNCHANGED file /\ Histories

EnqueueTask(t) ==
  /\ At(t, "submitted")
  /\ Enter(t, "queued")
  /\ UNCHANGED <<record, file>> /\ Histories

(* execute_query *)
StartTask(t) ==
  /\ At(t, "queued")
  /\ record' = [record EXCEPT !.status = "running"]
  /\ Enter(t, "started")
  /\ overlap' = (overlap \/ \E other \in Tasks : Executing(other))
  /\ UNCHANGED <<eager, file, lost>>

(* The record is loaded again for its SQL, which then runs. *)
ExecuteTask(t) ==
  /\ At(t, "started")
  /\ \E n \in RowCounts :
       task' = [task EXCEPT ![t] = [phase |-> "executed", loaded |-> record, rows |-> n]]
  /\ UNCHANGED <<record, file>> /\ Histories

(* store_result: into the file, or into a row. *)
InFile(rows) == rows >= FileThreshold

StoreTask(t) ==
  /\ At(t, "executed")
  /\ file' = IF InFile(task[t].rows) THEN task[t].rows ELSE file
  /\ Enter(t, "stored")
  /\ UNCHANGED record /\ Histories

(* Mutant: whether a result was stored in the file is decided by > instead of >=. *)
FinishTaskOffByOne(t) ==
  /\ At(t, "stored")
  /\ record' = Flushed(record, task[t].loaded,
                       [status |-> "success", count |-> task[t].rows,
                        ref |-> IF task[t].rows > FileThreshold THEN FileRef ELSE t])
  /\ Leave(t, "done")
  /\ UNCHANGED file /\ Histories

FinishTask(t) ==
  /\ At(t, "stored")
  /\ record' = Flushed(record, task[t].loaded,
                       [status |-> "success", count |-> task[t].rows,
                        ref |-> IF InFile(task[t].rows) THEN FileRef ELSE t])
  /\ Leave(t, "done")
  /\ UNCHANGED file /\ Histories

(* An error of the query or of storing its result; writing that down may be an
   error too, and then the task is over all the same. *)
FailTask(t) ==
  /\ Executing(t)
  /\ \/ record' = [record EXCEPT !.status = "failed"] /\ UNCHANGED lost
     \/ lost' = TRUE /\ UNCHANGED record
  /\ Leave(t, "done")
  /\ UNCHANGED <<eager, file, overlap>>

(* The process dies, the server's or the worker's: what is in the queue or not
   acknowledged survives. *)
LoseTask(t) ==
  /\ \/ At(t, "submitted")
     \/ At(t, "queued") /\ eager
     \/ Executing(t)
  /\ LET gone == eager \/ At(t, "submitted")
     IN /\ Leave(t, IF gone THEN "done" ELSE "unacked")
        /\ lost' = (lost \/ gone)
  /\ UNCHANGED <<eager, record, file, overlap>>

(* The queue delivers a task again, as the task "again". *)
Redeliver(t, again) ==
  /\ ~eager
  /\ At(t, "unacked") \/ Executing(t)
  /\ At(again, "none")
  /\ task' = [task EXCEPT ![again].phase = "queued",
                          ![t].phase = IF @ = "unacked" THEN "done" ELSE @]
  /\ UNCHANGED <<record, file>> /\ Histories

TaskStep(t) ==
  \/ EnqueueTask(t) \/ StartTask(t) \/ ExecuteTask(t) \/ StoreTask(t) \/ FinishTask(t)
  \/ FailTask(t)

ExecutionNext ==
  \/ \E t \in Tasks : SubmitTask(t) \/ TaskStep(t) \/ LoseTask(t)
  \/ \E t, again \in Tasks : Redeliver(t, again)

ExecutionSpec == ExecutionInit /\ [][ExecutionNext]_executionVars

-------------------------------------------------------------------------------
ExecutionTypeOK ==
  /\ eager \in BOOLEAN /\ overlap \in BOOLEAN /\ lost \in BOOLEAN
  /\ record \in Records
  /\ file \in Counts
  /\ task \in [Tasks -> TaskStates]

(* get_execute_result loads what result_ref names; load_result.  Nothing is there
   under the name of a row that was not inserted. *)
LoadedRows ==
  IF record.ref = FileRef THEN file
  ELSE IF InFile(task[record.ref].rows) THEN 0 ELSE task[record.ref].rows

(* A successful record loads, and has the row count it shows, whatever failed or
   died before: each execution stores its result before it names it.  Two
   executions of a record at once share its file and its columns. *)
ResultMatchesRecord ==
  record.status = "success" /\ ~overlap =>
    /\ record.ref # NoRef
    /\ record.count = LoadedRows

(* When no task is on its way any more, the record says how the last one ended:
   a client that polls is not left with "pending" or "running", except when the
   process died with a task nobody delivers again, or a failure could not be
   written down. *)
NoLimbo ==
  (\A t \in Tasks : task[t].phase \in {"none", "done"}) /\ (\E t \in Tasks : At(t, "done")) =>
    lost \/ record.status \in {"success", "failed"}

(* What a client reads about its execution is true, and it is not left waiting. *)
RecordIsTrue == ResultMatchesRecord /\ NoLimbo

(* Every task is done, or waits to be delivered again. *)
TasksEnded == \A t \in Tasks : task[t].phase \in {"none", "done", "unacked"}
===============================================================================
