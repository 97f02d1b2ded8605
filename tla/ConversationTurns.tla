--------------------------- MODULE ConversationTurns ---------------------------
(***************************************************************************)
(* The turns of one conversation: send_message stores the question and a   *)
(* placeholder, a daemon thread compacts the history, runs the agent and   *)
(* replaces the placeholder (_generate_async), and clients poll the status *)
(* of a message, which is read from the memory of the process first and    *)
(* from the database second (message_status, trace_store).                 *)
(*                                                                         *)
(* Turns are numbered in the order of their messages.  The database        *)
(* commits atomically and shows each statement what is committed; the      *)
(* trace of a turn and its thread live in the process that took the        *)
(* request.  A summary is represented by the turns whose answers it holds, *)
(* and the run of the agent by its outcome: AgentLoop is that run.         *)
(***************************************************************************)
EXTENDS Naturals, FiniteSets

CONSTANTS
  Turns,      \* the messages sent to the conversation, 1 .. n
  Earlier,    \* those answered before the behaviour begins, 1 .. m
  Processes,  \* the server processes; each poll reaches one of them
  Home,       \* the process that takes the request of each turn
  Polled,     \* the turns some client polls: polls change nothing but what is told
  KeepRecent, \* context_keep_recent_turns: turns never compacted
  MaxCrashes  \* bound: how often a process dies

ASSUME TurnsAssumption ==
  /\ Turns = 1 .. Cardinality(Turns)
  /\ Earlier = 1 .. Cardinality(Earlier)
  /\ IsFiniteSet(Turns) /\ Earlier \subseteq Turns
  /\ Home \in [Turns -> Processes] /\ Polled \subseteq Turns
  /\ KeepRecent \in Nat \ {0}
  /\ MaxCrashes \in Nat

VARIABLES
  conversation, \* whether its row exists
  summary,      \* context_summary and context_summary_through_message_id
  row,          \* the assistant message of each turn
  thread,       \* where the request, then the thread of each turn is
  memory,       \* what each thread knows: a summary of its own, whether its session
                \* still holds the rows it has read, what the agent returned
  trace,        \* _traces of the process of the turn: its status
  poll,         \* the poll of each turn that has looked into memory
  told,         \* history: the verdicts clients were given about each turn
  excused,      \* history: turns polled where their trace could not be
  crashes

database == <<conversation, summary, row>>
clients  == <<poll, told, excused>>
conversationVars == <<conversation, summary, row, thread, memory, trace, poll, told, excused, crashes>>

Numbers   == 0 .. Cardinality(Turns)
(* "open" is history: turns behind the boundary that were still unanswered, or
   were answering, when the summary was made. *)
Summaries == [covers : SUBSET Turns, open : SUBSET Turns, through : Numbers]
Rows      == {"none", "placeholder", "success", "failed", "deleted"}
Phases    == {"unsent", "sent", "start", "compact", "agent", "saved", "record", "clear",
              "done", "dead"}
Statuses  == {"none", "generating", "success", "failed"}
Verdicts  == {"success", "failed"}
NoPoll    == "idle"
NoSummary == [covers |-> {}, open |-> {}, through |-> 0]
Memories  == [local : Summaries, loaded : BOOLEAN, outcome : Verdicts]
NoMemory  == [local |-> NoSummary, loaded |-> FALSE, outcome |-> "failed"]

ConversationInit ==
  /\ conversation = "live"
  /\ summary = NoSummary
  /\ row = [t \in Turns |-> IF t \in Earlier THEN "success" ELSE "none"]
  /\ thread = [t \in Turns |-> IF t \in Earlier THEN "done" ELSE "unsent"]
  /\ memory = [t \in Turns |-> NoMemory]
  /\ trace = [t \in Turns |-> "none"]
  /\ poll = [t \in Turns |-> NoPoll]
  /\ told = [t \in Turns |-> {}]
  /\ excused = {}
  /\ crashes = 0

Goto(t, phase)     == thread' = [thread EXCEPT ![t] = phase]
SetTrace(t, status) == trace' = [trace EXCEPT ![t] = status]
Sent               == {t \in Turns : thread[t] # "unsent"}
Answered           == {t \in Turns : row[t] \in Verdicts}

(* A thread that leaves its main part needs nothing it remembered. *)
Forget(t) == memory' = [memory EXCEPT ![t] = NoMemory]

-------------------------------------------------------------------------------
(* send_message: both messages in one transaction ... *)
Send(t) ==
  /\ thread[t] = "unsent" /\ Sent = 1 .. t - 1
  /\ conversation = "live"
  /\ row' = [row EXCEPT ![t] = "placeholder"]
  /\ Goto(t, "sent")
  /\ UNCHANGED <<conversation, summary, memory, trace, clients, crashes>>

(* ... then the trace and the thread, and the client is answered. *)
Register(t) ==
  /\ thread[t] = "sent"
  /\ SetTrace(t, "generating")
  /\ Goto(t, "start")
  /\ UNCHANGED <<database, memory, clients, crashes>>

(* The raw messages not yet in the summary, without the turn's own. *)
Active(t) == {k \in Turns : k > summary.through /\ k # t /\ row[k] # "none"}
(* Mutant: one turn too few is kept. *)
PrefixOffByOne(t) == {k \in Active(t) : Cardinality({j \in Active(t) : j >= k}) >= KeepRecent}
Prefix(t) == {k \in Active(t) : Cardinality({j \in Active(t) : j >= k}) > KeepRecent}
Last(s)   == CHOOSE k \in s : \A j \in s : j <= k

(* Mutant: the previous summary is not fed into the new one. *)
CompactedAlone(t) ==
  [covers  |-> Prefix(t) \cap Answered,
   open    |-> summary.open \cup {k \in summary.through + 1 .. Last(Prefix(t)) : k \notin Answered},
   through |-> Last(Prefix(t))]

(* ContextAssembler.assemble: all but the recent turns go into the summary, which
   now reaches to the last of them. *)
Compacted(t) ==
  [covers  |-> summary.covers \cup (Prefix(t) \cap Answered),
   open    |-> summary.open \cup {k \in summary.through + 1 .. Last(Prefix(t)) : k \notin Answered},
   through |-> Last(Prefix(t))]

(* The thread reads the conversation and its messages; whether they fill the
   token budget is the model's choice, but with no turn older than the recent
   ones there is nothing to compact.  A conversation that is gone ends the turn. *)
Prepare(t) ==
  /\ thread[t] = "start"
  /\ IF conversation = "deleted"
     THEN SetTrace(t, "failed") /\ Goto(t, "clear") /\ UNCHANGED memory
     ELSE /\ \/ /\ Prefix(t) # {}
                /\ memory' = [memory EXCEPT ![t].local = Compacted(t)]
                /\ Goto(t, "compact")
             \/ /\ memory' = [memory EXCEPT ![t].loaded = TRUE]
                /\ Goto(t, "agent")
          /\ UNCHANGED trace
  /\ UNCHANGED <<database, clients, crashes>>

(* An error anywhere in the thread: roll back, set_failed, and what the thread
   knew is gone. *)
Abort(t) == SetTrace(t, "failed") /\ Goto(t, "record") /\ Forget(t)

(* The summary may have taken a model call to make; both columns are written,
   over whatever another turn wrote meanwhile. *)
CommitCompaction(t) ==
  /\ thread[t] = "compact"
  /\ IF conversation = "deleted"
     THEN Abort(t) /\ UNCHANGED summary
     ELSE /\ summary' = memory[t].local
          /\ Goto(t, "agent") /\ Forget(t)
          /\ UNCHANGED trace
  /\ UNCHANGED <<conversation, row, clients, crashes>>

Fails(t) ==
  /\ thread[t] \in {"start", "compact", "agent"}
  /\ Abort(t)
  /\ UNCHANGED <<database, clients, crashes>>

(* Mutant: the output is announced before the commit, which may fail. *)
SaveAnswerAnnouncedFirst(t) ==
  /\ thread[t] = "agent" /\ row[t] = "placeholder"
  /\ \E v \in Verdicts :
       /\ SetTrace(t, v)
       /\ \/ row' = [row EXCEPT ![t] = v] /\ Goto(t, "saved")
          \/ UNCHANGED row /\ Goto(t, "record")
       /\ memory' = [memory EXCEPT ![t] = [NoMemory EXCEPT !.outcome = v]]
  /\ UNCHANGED <<conversation, summary, clients, crashes>>

(* run_agent always returns: an answer, or SQL that passed the checks, is a
   success; a draft and every kind of failure is not.  It replaces the
   placeholder.  A message deleted meanwhile is an error when the session still
   holds its row from the reading of the history, and is skipped when the commit
   of a compaction made the session forget it. *)
SaveAnswer(t) ==
  /\ thread[t] = "agent"
  /\ \/ /\ row[t] = "deleted" /\ memory[t].loaded
        /\ Abort(t)
        /\ UNCHANGED row
     \/ \E v \in Verdicts :
          /\ \/ row[t] = "placeholder" /\ row' = [row EXCEPT ![t] = v]
             \/ row[t] = "deleted" /\ ~memory[t].loaded /\ UNCHANGED row
          /\ memory' = [memory EXCEPT ![t] = [NoMemory EXCEPT !.outcome = v]]
          /\ Goto(t, "saved")
          /\ UNCHANGED trace
  /\ UNCHANGED <<conversation, summary, clients, crashes>>

(* Mutant: the status is taken from the row instead of the output. *)
SetOutputOfRow(t) ==
  /\ thread[t] = "saved"
  /\ SetTrace(t, row[t])
  /\ Goto(t, "clear")
  /\ Forget(t)
  /\ UNCHANGED <<database, clients, crashes>>

(* set_output, after the commit. *)
SetOutput(t) ==
  /\ thread[t] = "saved"
  /\ SetTrace(t, memory[t].outcome)
  /\ Goto(t, "clear")
  /\ Forget(t)
  /\ UNCHANGED <<database, clients, crashes>>

(* The failure is written into the message, if it is there and the database
   lets it. *)
RecordFailure(t) ==
  /\ thread[t] = "record"
  /\ \/ row[t] = "placeholder" /\ row' = [row EXCEPT ![t] = "failed"]
     \/ UNCHANGED row
  /\ Goto(t, "clear")
  /\ UNCHANGED <<conversation, summary, memory, trace, clients, crashes>>

(* Mutant: the trace is left when the turn failed. *)
ClearTraceOnSuccess(t) ==
  /\ thread[t] = "clear"
  /\ IF row[t] = "success" THEN SetTrace(t, "none") ELSE UNCHANGED trace
  /\ Goto(t, "done")
  /\ UNCHANGED <<database, memory, clients, crashes>>

ClearTrace(t) ==
  /\ thread[t] = "clear"
  /\ SetTrace(t, "none")
  /\ Goto(t, "done")
  /\ UNCHANGED <<database, memory, clients, crashes>>

-------------------------------------------------------------------------------
(* message_status, first half: the trace of the turn, if the poll came to the
   process that has it, at a time it has it. *)
PollMemory(t, p) ==
  /\ t \in Polled /\ poll[t] = NoPoll /\ thread[t] # "unsent"
  /\ poll' = [poll EXCEPT ![t] = IF p = Home[t] THEN trace[t] ELSE "none"]
  /\ excused' = IF p # Home[t] \/ thread[t] = "sent" THEN excused \cup {t} ELSE excused
  /\ UNCHANGED <<database, thread, memory, trace, told, crashes>>

(* Second half: the message.  Without a trace a placeholder is reported as an
   interrupted generation. *)
Verdict(t, seen) ==
  IF seen # "none" THEN seen ELSE IF row[t] = "placeholder" THEN "failed" ELSE row[t]

PollRow(t) ==
  /\ poll[t] # NoPoll
  /\ poll' = [poll EXCEPT ![t] = NoPoll]
  /\ told' = IF row[t] = "deleted" THEN told
             ELSE [told EXCEPT ![t] = @ \cup ({Verdict(t, poll[t])} \cap Verdicts)]
  /\ UNCHANGED <<database, thread, memory, trace, excused, crashes>>

(* delete_conversation, with its messages. *)
Delete ==
  /\ conversation = "live"
  /\ conversation' = "deleted"
  /\ row' = [t \in Turns |-> IF row[t] = "none" THEN "none" ELSE "deleted"]
  /\ UNCHANGED <<summary, thread, memory, trace, clients, crashes>>

(* The process dies: its traces and threads, and a request not yet answered. *)
Crash(p) ==
  /\ crashes < MaxCrashes
  /\ crashes' = crashes + 1
  /\ LET lost == {t \in Turns : Home[t] = p /\ thread[t] \notin {"unsent", "done"}}
     IN /\ thread' = [t \in Turns |-> IF t \in lost THEN "dead" ELSE thread[t]]
        /\ trace' = [t \in Turns |-> IF t \in lost THEN "none" ELSE trace[t]]
        /\ memory' = [t \in Turns |-> IF t \in lost THEN NoMemory ELSE memory[t]]
  /\ UNCHANGED <<database, clients>>

ThreadStep(t) ==
  \/ Register(t) \/ Prepare(t) \/ CommitCompaction(t) \/ Fails(t) \/ SaveAnswer(t)
  \/ SetOutput(t) \/ RecordFailure(t) \/ ClearTrace(t)

ConversationNext ==
  \/ \E t \in Turns : Send(t) \/ ThreadStep(t) \/ PollRow(t)
  \/ \E t \in Turns, p \in Processes : PollMemory(t, p)
  \/ \E p \in Processes : Crash(p)
  \/ Delete

ConversationSpec == ConversationInit /\ [][ConversationNext]_conversationVars

-------------------------------------------------------------------------------
ConversationTypeOK ==
  /\ conversation \in {"live", "deleted"}
  /\ summary \in Summaries
  /\ row \in [Turns -> Rows]
  /\ thread \in [Turns -> Phases]
  /\ memory \in [Turns -> Memories]
  /\ trace \in [Turns -> Statuses]
  /\ poll \in [Turns -> Statuses \cup {NoPoll}]
  /\ told \in [Turns -> SUBSET Verdicts]
  /\ excused \subseteq Turns
  /\ crashes \in 0 .. MaxCrashes

(* What a client is told about a turn is final: a success is in the database
   and stays there until the conversation is deleted, and a failure is never
   followed by a success.  Reading memory first makes this so (message_status);
   the exception are polls that could not find the trace: of another process,
   or between the commit of the placeholder and new_trace. *)
VerdictsAreFinal ==
  \A t \in Turns \ excused :
    /\ "success" \in told[t] => row[t] \in {"success", "deleted"} /\ "failed" \notin told[t]
    /\ "failed" \in told[t] => row[t] # "success"

(* Compaction forgets no answer: what lies behind the boundary is in the summary,
   except what had no answer yet when the summary was made.  Two turns may
   compact at the same time and overwrite each other. *)
NothingForgotten ==
  \A k \in 1 .. summary.through : k \in summary.covers \cup summary.open

(* The boundary never reaches the recent turns of the thread that moved it: the
   last KeepRecent turns sent before or beside it stay raw. *)
RecentStaysRaw ==
  summary.through = 0 \/ summary.through + KeepRecent <= Cardinality(Sent)

(* A turn works with the whole history: the summary and the raw turns after it. *)
HistoryIsWhole == NothingForgotten /\ RecentStaysRaw

(* No turn is under way: every message that was stored has left "generating",
   whatever happened to its conversation, its thread or its process. *)
TurnsResolved ==
  \A t \in Sent : trace[t] = "none" /\ thread[t] \in {"done", "dead"}
===============================================================================
