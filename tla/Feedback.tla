-------------------------------- MODULE Feedback --------------------------------
(***************************************************************************)
(* The feedback on one SQL answer: put_feedback and delete_feedback of     *)
(* concurrent requests.  The table allows one row per message; a request   *)
(* reads the row, sets columns of what it has read, and commits.           *)
(***************************************************************************)
EXTENDS Naturals, FiniteSets, UnitOfWork

CONSTANTS
  Requests, \* the requests, each of them once
  Notes,    \* the notes a client may write
  Scripts,  \* the corrected scripts a client may send
  Answer,   \* the script of the message, which does not change any more
  Null      \* an empty column; as a row: no row

ASSUME FeedbackAssumption ==
  /\ IsFiniteSet(Requests)
  /\ Null \notin Notes \cup Scripts \cup {Answer}

VARIABLES
  feedback, \* the row of the message; its id is the request that inserted it
  request,  \* what each request asks for, has read and was answered
  crossed   \* history: some request committed over a change it had not seen

feedbackVars == <<feedback, request, crossed>>

Columns ==
  [status : {"correct", "needs_revision"}, note : Notes \cup {Null},
   final : Scripts \cup {Answer, Null}]
FeedbackRows == [id : Requests, columns : Columns]

(* FeedbackWrite and put_feedback: a revision needs a note; the final script of a
   correct answer is the answer. *)
Payloads ==
  {[status |-> "correct", note |-> Null, final |-> Answer]} \cup
  [status : {"needs_revision"}, note : Notes, final : Scripts \cup {Null}]

RequestStates ==
  [phase : {"new", "read", "ok", "error"}, asks : Payloads \cup {Null},
   read : FeedbackRows \cup {Null}]

FeedbackInit ==
  /\ feedback = Null
  /\ request = [q \in Requests |-> [phase |-> "new", asks |-> Null, read |-> Null]]
  /\ crossed = FALSE

(* A put with its payload, or a delete: the row is read. *)
ReadFeedback(q) ==
  /\ request[q].phase = "new"
  /\ \E asks \in Payloads \cup {Null} :
       request' = [request EXCEPT ![q] = [phase |-> "read", asks |-> asks, read |-> feedback]]
  /\ UNCHANGED <<feedback, crossed>>

Commit(q, row, answer) ==
  /\ request[q].phase = "read"
  /\ feedback' = row
  /\ request' = [request EXCEPT ![q].phase = answer]
  /\ crossed' = (crossed \/ feedback # request[q].read)

IsSame(q) == feedback # Null /\ request[q].read # Null /\ feedback.id = request[q].read.id

(* The first put inserts; the second of two first puts meets the unique index. *)
InsertFeedback(q) ==
  /\ request[q].asks # Null /\ request[q].read = Null
  /\ IF feedback = Null
     THEN Commit(q, [id |-> q, columns |-> request[q].asks], "ok")
     ELSE Commit(q, feedback, "error")

(* Mutant: the note of an earlier revision is not cleared. *)
UpdateFeedbackKeepingNote(q) ==
  /\ request[q].asks # Null /\ request[q].read # Null
  /\ LET read == request[q].read.columns
         asks == request[q].asks
     IN IF IsSame(q)
        THEN Commit(q, [feedback EXCEPT !.columns =
                          Flushed(@, read, IF asks.note = Null THEN [asks EXCEPT !.note = read.note]
                                           ELSE asks)], "ok")
        ELSE Commit(q, feedback, "error")

(* A later put updates the columns that differ from what it read; a row that was
   deleted meanwhile cannot be updated, or not be read again for the response. *)
UpdateFeedback(q) ==
  /\ request[q].asks # Null /\ request[q].read # Null
  /\ IF IsSame(q)
     THEN Commit(q, [feedback EXCEPT !.columns =
                       Flushed(@, request[q].read.columns, request[q].asks)], "ok")
     ELSE Commit(q, feedback, "error")

(* A delete of what is not there is fine. *)
DeleteFeedback(q) ==
  /\ request[q].asks = Null
  /\ Commit(q, IF IsSame(q) THEN Null ELSE feedback, "ok")

FeedbackNext ==
  \E q \in Requests : \/ ReadFeedback(q) \/ InsertFeedback(q) \/ UpdateFeedback(q)
                      \/ DeleteFeedback(q)

FeedbackSpec == FeedbackInit /\ [][FeedbackNext]_feedbackVars

-------------------------------------------------------------------------------
FeedbackTypeOK ==
  /\ feedback \in FeedbackRows \cup {Null}
  /\ request \in [Requests -> RequestStates]
  /\ crossed \in BOOLEAN

(* What the maintainers read is one client's opinion: a revision with its note, or
   a correct answer without one and with the script of the message, as long as no
   put committed over a change it had not seen.  Puts write single columns, so
   two crossing ones mix their opinions. *)
FeedbackIsConsistent ==
  feedback # Null /\ ~crossed => feedback.columns \in Payloads
===============================================================================
