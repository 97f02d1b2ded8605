------------------------------ MODULE DraftStore ------------------------------
(***************************************************************************)
(* The mutable draft of one workspace, the import sessions beside it, and  *)
(* the requests that change them: FileDraftStore (create_workspace, read,  *)
(* commit, the three import-session operations) and BatchImportService     *)
(* (preview, confirm), under ontology_core/management/.                    *)
(*                                                                         *)
(* A request is one thread serving one HTTP call.  A step is what a thread *)
(* does between two points at which another thread can change what it will *)
(* look at next: a read of a file, an atomic replacement of a file, taking *)
(* or releasing a lock.                                                    *)
(*                                                                         *)
(* The text of the draft is abstracted to the mutations it contains:       *)
(* draft.at[r] is the revision at which the mutation of request r entered  *)
(* this text, 0 if this text does not contain it.  The objects of an       *)
(* import are abstracted to the normalised physical names of its batch.    *)
(***************************************************************************)
EXTENDS Naturals, FiniteSets

CONSTANTS
  Requests,    \* the requests of a run, each served by a thread of its own
  Nobody,      \* the holder of a free lock
  Stores,      \* the FileDraftStore instances
  StoreOf,     \* the instance that serves a request
  Batches,     \* the batches an upload can contain, each a set of names
  MaxCrashes   \* bound: how often the server process dies in a behaviour

ASSUME StoreAssumption ==
  /\ Nobody \notin Requests
  /\ StoreOf \in [Requests -> Stores]
  /\ MaxCrashes \in Nat

(* All requests go through one store object, hence through one lock table. *)
SharedStore == \A r, q \in Requests : StoreOf[r] = StoreOf[q]

VARIABLES
  draft,        \* draft.json
  session,      \* import_sessions/: what is on disk for the token of a preview
  expired,      \* the tokens whose expires_at has passed
  lock,         \* the holder of "workspace:<id>" in each store's lock table
  sessionLocks, \* the <<store, token>> pairs whose "import:<hash>" is held
  request,      \* what the client of each request asked for
  pc,           \* where the thread of each request is
  seen,         \* the draft the thread has in memory
  held,         \* the session the thread has in memory
  result,       \* the answer the client got
  overlapped,   \* history: the requests that were inside the locked part of a
                \* create or a commit while another request was
  crashes       \* how often the process died

files   == <<draft, session>>
threads == <<request, pc, seen, held, result>>
locks   == <<lock, sessionLocks>>
history == <<overlapped, crashes>>
vars    == <<draft, session, expired, lock, sessionLocks, request, pc, seen,
             held, result, overlapped, crashes>>

Kinds   == {"create", "edit", "preview", "confirm"}
Answers == {"ok", "conflict", "refused", "invalid", "io_error", "lost"}

Labels  == {"idle", "lock", "create", "write", "unlock", "preview", "issue",
            "precheck", "append", "mark", "consume", "consumed", "answered"}

Tokens   == Requests                 \* a token is named by the preview that drew it
NoToken  == Nobody
NoBatch  == {}
Drafts   == [exists : BOOLEAN, revision : Nat, at : [Requests -> Nat]]
Sessions == [exists : BOOLEAN, expected : Nat, committed : Nat, consumed : BOOLEAN]
Asked    == [kind : Kinds, expected : Nat, token : Tokens \cup {NoToken},
             batch : Batches \cup {NoBatch}]

Unread    == [exists |-> FALSE, revision |-> 0, at |-> [r \in Requests |-> 0]]
Empty     == [exists |-> TRUE, revision |-> 0, at |-> [r \in Requests |-> 0]]
NoSession == [exists |-> FALSE, expected |-> 0, committed |-> 0, consumed |-> FALSE]
Unasked   == [kind |-> "edit", expected |-> 0, token |-> NoToken, batch |-> NoBatch]

Mutators == {r \in Requests : request[r].kind \in {"edit", "confirm"}}

-------------------------------------------------------------------------------
(* What a text of the draft contains. *)

Contains(d, r) == d.at[r] # 0

ImportsIn(d) == {c \in Requests : request[c].kind = "confirm" /\ Contains(d, c)}

(* The mutations a text contained when its revision was below n. *)
TextBefore(d, n) == [r \in Requests |-> IF d.at[r] < n THEN d.at[r] ELSE 0]

(* The revision the answer to a successful mutation names. *)
RevisionGiven(r) == seen[r].revision + 1

NamesIn(d) == UNION {request[request[c].token].batch : c \in ImportsIn(d)}

(* Mutant: only a batch that is in the draft as a whole is a duplicate. *)
DuplicatesOnlyWholeBatch(d, batch) == batch \subseteq NamesIn(d)

(* The batch shares a physical identity with an object of the draft. *)
Duplicates(d, batch) == batch \cap NamesIn(d) # {}

(* BatchImportService._validate_session, with the failing checks told apart
   as the two answers they produce.  A missing session file is refused too. *)
SessionRefused(s, t) ==
  ~s.exists \/ s.committed # 0 \/ s.consumed \/ t \in expired

(* Mutant: the revision of the session is not compared with the client's. *)
SessionConflictsUnchecked(s, r) == FALSE

SessionConflicts(s, r) == s.expected # request[r].expected

-------------------------------------------------------------------------------
(* Moves of a thread. *)

Goto(r, label) == pc' = [pc EXCEPT ![r] = label]

Answer(r, answer) ==
  /\ Goto(r, "answered")
  /\ result' = [result EXCEPT ![r] = answer]

(* Mutant: an exception leaves the lock held. *)
RaiseKeepingLock(r, answer) == Answer(r, answer)

(* An exception inside the "with" of the workspace lock: the lock is released
   while the exception propagates, then the client is answered. *)
Raise(r, answer) ==
  /\ Goto(r, "unlock")
  /\ result' = [result EXCEPT ![r] = answer]

(* The threads between the check and the write of a create or of a commit. *)
Inside == {r \in Requests : pc[r] \in {"create", "append", "mark", "write"}}

(* A thread that has passed the check of a create or of a commit is inside from
   now on; one store keeps it alone there, several do not. *)
Enter(r) ==
  overlapped' = IF r \in Inside' /\ Inside # {} THEN overlapped \cup Inside \cup {r}
                ELSE overlapped

Init ==
  /\ draft \in {Unread, Empty}
  /\ session = [t \in Tokens |-> NoSession]
  /\ expired = {}
  /\ lock = [s \in Stores |-> Nobody]
  /\ sessionLocks = {}
  /\ request = [r \in Requests |-> Unasked]
  /\ pc = [r \in Requests |-> "idle"]
  /\ seen = [r \in Requests |-> Unread]
  /\ held = [r \in Requests |-> NoSession]
  /\ result = [r \in Requests |-> "none"]
  /\ overlapped = {}
  /\ crashes = 0

TokensFor(r, kind) == IF kind = "confirm" THEN Tokens \ {r} ELSE {NoToken}

BatchesFor(kind) == IF kind = "preview" THEN Batches ELSE {NoBatch}

Entry(kind) == CASE kind = "preview" -> "preview"
                 [] kind = "confirm" -> "precheck"
                 [] OTHER            -> "lock"

(* A client can only quote a revision that some response has shown, and the
   token of a preview that was answered.  A preview that got no session stands
   for a token the server does not know. *)
Submit(r) ==
  /\ pc[r] = "idle"
  /\ \E kind \in Kinds, expected \in 0 .. draft.revision :
       \E token \in TokensFor(r, kind), batch \in BatchesFor(kind) :
         /\ kind = "confirm" =>
              /\ request[token].kind = "preview"
              /\ pc[token] = "answered" /\ result[token] # "lost"
         /\ request' = [request EXCEPT ![r] = [kind |-> kind, expected |-> expected,
                                               token |-> token, batch |-> batch]]
         /\ Goto(r, Entry(kind))
  /\ UNCHANGED <<files, expired, locks, seen, held, result, history>>

(* The clock passes expires_at of a session that was issued. *)
Expire(t) ==
  /\ session[t].exists
  /\ t \notin expired
  /\ expired' = expired \cup {t}
  /\ UNCHANGED <<files, locks, threads, history>>

-------------------------------------------------------------------------------
(* FileDraftStore.create_workspace *)

CreateLock(r) ==
  /\ pc[r] = "lock"
  /\ request[r].kind = "create"
  /\ lock[StoreOf[r]] = Nobody
  /\ lock' = [lock EXCEPT ![StoreOf[r]] = r]
  /\ \/ draft.exists  /\ Raise(r, "refused")
     \/ ~draft.exists /\ Goto(r, "create") /\ UNCHANGED result
  /\ Enter(r)
  /\ UNCHANGED <<files, expired, sessionLocks, request, seen, held, crashes>>

CreateWrite(r) ==
  /\ pc[r] = "create"
  /\ \/ draft' = Empty /\ Goto(r, "unlock") /\ UNCHANGED result
     \/ Raise(r, "io_error") /\ UNCHANGED draft
  /\ UNCHANGED <<session, expired, locks, request, seen, held, history>>

-------------------------------------------------------------------------------
(* FileDraftStore.commit, for an edit and for the import of a batch *)

(* Mutant: the workspace lock is not waited for. *)
CommitLockWithoutWaiting(r) ==
  /\ pc[r] = "lock"
  /\ request[r].kind \in {"edit", "confirm"}
  /\ lock' = [lock EXCEPT ![StoreOf[r]] = r]
  /\ seen' = [seen EXCEPT ![r] = draft]
  /\ \/ ~draft.exists /\ Raise(r, "refused")
     \/ draft.exists /\ draft.revision # request[r].expected /\ Raise(r, "conflict")
     \/ /\ draft.exists /\ draft.revision = request[r].expected
        /\ Goto(r, IF request[r].kind = "confirm" THEN "append" ELSE "write")
        /\ UNCHANGED result
  /\ Enter(r)
  /\ UNCHANGED <<files, expired, sessionLocks, request, held, crashes>>

(* Mutant: the revisions are not compared. *)
CommitLockAnyRevision(r) ==
  /\ pc[r] = "lock"
  /\ request[r].kind \in {"edit", "confirm"}
  /\ lock[StoreOf[r]] = Nobody
  /\ lock' = [lock EXCEPT ![StoreOf[r]] = r]
  /\ seen' = [seen EXCEPT ![r] = draft]
  /\ \/ ~draft.exists /\ Raise(r, "refused")
     \/ /\ draft.exists
        /\ Goto(r, IF request[r].kind = "confirm" THEN "append" ELSE "write")
        /\ UNCHANGED result
  /\ Enter(r)
  /\ UNCHANGED <<files, expired, sessionLocks, request, held, crashes>>

(* Take the workspace lock, read draft.json, compare the revisions. *)
CommitLock(r) ==
  /\ pc[r] = "lock"
  /\ request[r].kind \in {"edit", "confirm"}
  /\ lock[StoreOf[r]] = Nobody
  /\ lock' = [lock EXCEPT ![StoreOf[r]] = r]
  /\ seen' = [seen EXCEPT ![r] = draft]
  /\ \/ ~draft.exists /\ Raise(r, "refused")
     \/ draft.exists /\ draft.revision # request[r].expected /\ Raise(r, "conflict")
     \/ /\ draft.exists /\ draft.revision = request[r].expected
        /\ Goto(r, IF request[r].kind = "confirm" THEN "append" ELSE "write")
        /\ UNCHANGED result
  /\ Enter(r)
  /\ UNCHANGED <<files, expired, sessionLocks, request, held, crashes>>

(* The three outcomes of a commit that got as far as its mutator; the mutants
   of CommitWrite differ in the numbers they write and in when they write. *)
WriteDraft(r, revision, at) ==
  draft' = [exists |-> seen[r].exists, revision |-> revision,
            at |-> [seen[r].at EXCEPT ![r] = at]]

(* Mutant: the revision counts down. *)
CommitWriteCountingDown(r) ==
  /\ pc[r] = "write"
  /\ WriteDraft(r, seen[r].revision - 1, seen[r].revision + 1)
  /\ Goto(r, "unlock")
  /\ UNCHANGED <<session, expired, locks, request, seen, held, result, history>>

(* Mutant: the file is replaced before the mutator has accepted the input. *)
CommitWriteBeforeValidation(r) ==
  /\ pc[r] = "write"
  /\ WriteDraft(r, seen[r].revision + 1, seen[r].revision + 1)
  /\ \/ Goto(r, "unlock") /\ UNCHANGED result
     \/ request[r].kind = "edit" /\ Raise(r, "invalid")
  /\ UNCHANGED <<session, expired, locks, request, seen, held, history>>

(* Mutant: a replacement that failed is answered like one that succeeded. *)
CommitWriteIgnoringErrors(r) ==
  /\ pc[r] = "write"
  /\ \/ /\ WriteDraft(r, seen[r].revision + 1, seen[r].revision + 1)
        /\ Goto(r, "unlock")
        /\ UNCHANGED result
     \/ Goto(r, "unlock") /\ UNCHANGED <<draft, result>>
     \/ request[r].kind = "edit" /\ Raise(r, "invalid") /\ UNCHANGED draft
  /\ UNCHANGED <<session, expired, locks, request, seen, held, history>>

(* The replacement of draft.json is the commit point: nothing after it in
   commit can fail.  The mutator of an edit can reject what it was given. *)
CommitWrite(r) ==
  /\ pc[r] = "write"
  /\ \/ /\ WriteDraft(r, seen[r].revision + 1, seen[r].revision + 1)
        /\ Goto(r, "unlock")
        /\ UNCHANGED result
     \/ Raise(r, "io_error") /\ UNCHANGED draft
     \/ request[r].kind = "edit" /\ Raise(r, "invalid") /\ UNCHANGED draft
  /\ UNCHANGED <<session, expired, locks, request, seen, held, history>>

(* Leave the "with": a failed request is answered, a successful import goes on
   to consume its session, every other success is answered. *)
Unlock(r) ==
  /\ pc[r] = "unlock"
  /\ lock' = [lock EXCEPT ![StoreOf[r]] = Nobody]
  /\ \/ result[r] # "none" /\ Answer(r, result[r])
     \/ result[r] = "none" /\ request[r].kind = "confirm"
          /\ Goto(r, "consume") /\ UNCHANGED result
     \/ result[r] = "none" /\ request[r].kind # "confirm" /\ Answer(r, "ok")
  /\ UNCHANGED <<files, expired, sessionLocks, request, seen, held, history>>

-------------------------------------------------------------------------------
(* BatchImportService.preview *)

(* The draft is read without a lock; a clean batch gets a session for the
   revision the client quoted. *)
Preview(r) ==
  /\ pc[r] = "preview"
  /\ seen' = [seen EXCEPT ![r] = draft]
  /\ \/ ~draft.exists /\ Answer(r, "refused")
     \/ draft.exists /\ draft.revision # request[r].expected /\ Answer(r, "conflict")
     \/ /\ draft.exists /\ draft.revision = request[r].expected
        /\ \/ Duplicates(draft, request[r].batch) /\ Answer(r, "invalid")
           \/ /\ ~Duplicates(draft, request[r].batch)
              /\ Goto(r, "issue")
              /\ UNCHANGED result
  /\ UNCHANGED <<files, expired, locks, request, held, history>>

Issued(r) == [exists |-> TRUE, expected |-> request[r].expected,
              committed |-> 0, consumed |-> FALSE]

IssueSession(r) ==
  /\ pc[r] = "issue"
  /\ \/ /\ session' = [session EXCEPT ![r] = Issued(r)]
        /\ Answer(r, "ok")
     \/ Answer(r, "io_error") /\ UNCHANGED session
  /\ UNCHANGED <<draft, expired, locks, request, seen, held, history>>

-------------------------------------------------------------------------------
(* BatchImportService.confirm *)

(* The session is validated before the workspace lock is taken ... *)
ConfirmPrecheck(r) ==
  /\ pc[r] = "precheck"
  /\ LET t == request[r].token IN
     \/ SessionRefused(session[t], t) /\ Answer(r, "refused")
     \/ /\ ~SessionRefused(session[t], t)
        /\ \/ SessionConflicts(session[t], r) /\ Answer(r, "conflict")
           \/ ~SessionConflicts(session[t], r) /\ Goto(r, "lock") /\ UNCHANGED result
  /\ UNCHANGED <<files, expired, locks, request, seen, held, history>>

(* ... and again by append_all, under the lock, with the duplicate check. *)
AppendCheck(r) ==
  /\ pc[r] = "append"
  /\ LET t == request[r].token IN
     /\ held' = [held EXCEPT ![r] = session[t]]
     /\ \/ SessionRefused(session[t], t) /\ Raise(r, "refused")
        \/ /\ ~SessionRefused(session[t], t)
           /\ \/ SessionConflicts(session[t], r) /\ Raise(r, "conflict")
              \/ /\ ~SessionConflicts(session[t], r)
                 /\ \/ Duplicates(seen[r], request[t].batch) /\ Raise(r, "invalid")
                    \/ /\ ~Duplicates(seen[r], request[t].batch)
                       /\ Goto(r, "mark")
                       /\ UNCHANGED result
  /\ UNCHANGED <<files, expired, locks, request, seen, history>>

(* The session the thread holds, with a committed_revision, and consumed. *)
Marked(r, revision) ==
  [exists |-> held[r].exists, expected |-> held[r].expected,
   committed |-> revision, consumed |-> held[r].consumed]

Consumed(r) ==
  [exists |-> held[r].exists, expected |-> held[r].expected,
   committed |-> held[r].committed, consumed |-> TRUE]

(* Mutant: the mark names the revision that was read, not the one to come. *)
MarkSessionOffByOne(r) ==
  /\ pc[r] = "mark"
  /\ LET t == request[r].token IN
     /\ <<StoreOf[r], t>> \notin sessionLocks
     /\ session' = [session EXCEPT ![t] = Marked(r, seen[r].revision)]
     /\ Goto(r, "write")
  /\ UNCHANGED <<draft, expired, locks, request, seen, held, result, history>>

(* The session is marked with the revision about to be written, first. *)
MarkSession(r) ==
  /\ pc[r] = "mark"
  /\ LET t == request[r].token IN
     /\ <<StoreOf[r], t>> \notin sessionLocks
     /\ \/ /\ session' = [session EXCEPT ![t] = Marked(r, seen[r].revision + 1)]
           /\ Goto(r, "write")
           /\ UNCHANGED result
        \/ Raise(r, "io_error") /\ UNCHANGED session
  /\ UNCHANGED <<draft, expired, locks, request, seen, held, history>>

(* FileDraftStore.consume_import_session, after the workspace lock is free. *)
ConsumeRead(r) ==
  /\ pc[r] = "consume"
  /\ LET t == request[r].token IN
     /\ <<StoreOf[r], t>> \notin sessionLocks
     /\ sessionLocks' = sessionLocks \cup {<<StoreOf[r], t>>}
     /\ held' = [held EXCEPT ![r] = session[t]]
  /\ Goto(r, "consumed")
  /\ UNCHANGED <<files, expired, lock, request, seen, result, history>>

ConsumeWrite(r) ==
  /\ pc[r] = "consumed"
  /\ LET t == request[r].token IN
     /\ sessionLocks' = sessionLocks \ {<<StoreOf[r], t>>}
     /\ \/ /\ session' = [session EXCEPT ![t] = Consumed(r)]
           /\ Answer(r, "ok")
        \/ Answer(r, "io_error") /\ UNCHANGED session
  /\ UNCHANGED <<draft, expired, lock, request, seen, held, history>>

(* A file cannot be read: the operation ends before it changed anything.  The
   lock a commit took for its read is released again by the same exception. *)
ReadFails(r) ==
  /\ \/ pc[r] \in {"preview", "precheck", "consume"} /\ Answer(r, "io_error")
     \/ /\ pc[r] = "lock" /\ request[r].kind # "create"
        /\ lock[StoreOf[r]] = Nobody
        /\ Answer(r, "io_error")
     \/ pc[r] = "append" /\ Raise(r, "io_error")
  /\ UNCHANGED <<files, expired, locks, request, seen, held, history>>

-------------------------------------------------------------------------------
(* The process dies: its threads and lock tables are gone, the files stay.
   A temporary file left behind is never looked at again. *)
Crash ==
  /\ crashes < MaxCrashes
  /\ crashes' = crashes + 1
  /\ lock' = [s \in Stores |-> Nobody]
  /\ sessionLocks' = {}
  /\ LET alive == {r \in Requests : pc[r] \notin {"idle", "answered"}} IN
     /\ alive # {}
     /\ pc' = [r \in Requests |-> IF r \in alive THEN "answered" ELSE pc[r]]
     /\ result' = [r \in Requests |-> IF r \in alive THEN "lost" ELSE result[r]]
  /\ UNCHANGED <<files, expired, request, seen, held, overlapped>>

Step(r) ==
  \/ CreateLock(r) \/ CreateWrite(r)
  \/ CommitLock(r) \/ CommitWrite(r) \/ Unlock(r)
  \/ Preview(r) \/ IssueSession(r)
  \/ ConfirmPrecheck(r) \/ AppendCheck(r) \/ MarkSession(r)
  \/ ConsumeRead(r) \/ ConsumeWrite(r) \/ ReadFails(r)

Next ==
  \/ \E r \in Requests : Submit(r) \/ Step(r)
  \/ \E t \in Tokens : Expire(t)
  \/ Crash

Spec == Init /\ [][Next]_vars

(* The operating system runs every thread that can take a step, and a thread
   waiting for a lock nobody holds gets it.  Nothing obliges a client to send
   a request, the clock to reach an expiry, or the process to die. *)
FairSpec == Spec /\ \A r \in Requests : WF_vars(Step(r))

-------------------------------------------------------------------------------
(* Every variable has its type. *)
TypeOK ==
  /\ draft \in Drafts
  /\ session \in [Tokens -> Sessions]
  /\ expired \in SUBSET Tokens
  /\ lock \in [Stores -> Requests \cup {Nobody}]
  /\ sessionLocks \in SUBSET (Stores \X Tokens)
  /\ request \in [Requests -> Asked]
  /\ pc \in [Requests -> Labels]
  /\ seen \in [Requests -> Drafts]
  /\ held \in [Requests -> Sessions]
  /\ result \in [Requests -> Answers \cup {"none"}]
  /\ overlapped \in SUBSET Requests
  /\ crashes \in Nat

(* No lost update: an edit or an import the client was told succeeded is in the
   text of the draft, and stays there whatever other requests do and whenever
   the process dies (FileDraftStore.commit). *)
NoLostUpdate ==
  \A r \in Mutators : result[r] = "ok" => Contains(draft, r)

(* One store for each request, as the HTTP layer builds them: an acknowledged
   change that is missing from the draft was made while another request was
   between the check and the write of a commit or a create.  Whoever commits
   alone keeps the change, whatever the others do before and after, and
   whenever the process dies. *)
LostOnlyInOverlap ==
  \A r \in Mutators :
    result[r] = "ok" /\ ~Contains(draft, r) => r \in overlapped

(* A revision number names one text (one store for all requests): each revision
   from 1 to the current one was made by exactly one mutation, which is still
   in the text, and no two acknowledged mutations were told the same number. *)
OneMutationPerRevision ==
  /\ \A n \in 1 .. draft.revision :
       \E r \in Mutators : \A q \in Requests : draft.at[q] = n <=> q = r
  /\ \A r, q \in Mutators :
       r # q /\ result[r] = "ok" /\ result[q] = "ok" =>
         RevisionGiven(r) # RevisionGiven(q)

(* An import lands on the very draft its preview examined (one store for all
   requests): the mutations below it in the draft are those of the text the
   preview read, each at its revision, so what the user confirmed was checked
   against the text it is appended to. *)
ImportLandsOnPreviewedDraft ==
  \A c \in ImportsIn(draft) :
    LET examined == seen[request[c].token] IN
    /\ draft.at[c] = examined.revision + 1
    /\ examined.at = TextBefore(draft, draft.at[c])

(* A token whose batch is in the draft is spent, and its session names the
   revision that holds the batch, even if the process died between the two
   writes of confirm or before the consume. *)
AppliedTokenIsSpent ==
  \A c \in ImportsIn(draft) :
    session[request[c].token].committed = draft.at[c]

(* No physical object is in the draft twice: two imports in one text share no
   name (preview and append_all each check for duplicates). *)
NoDuplicateObjects ==
  \A c, d \in ImportsIn(draft) :
    c # d => request[request[c].token].batch \cap request[request[d].token].batch = {}

(* A request that was turned down left no trace in the draft, nor did an edit
   that failed on the file system. *)
FailureLeavesDraft ==
  \A r \in Requests :
    \/ result[r] \in {"conflict", "refused", "invalid"}
    \/ result[r] = "io_error" /\ request[r].kind # "confirm"
    => ~Contains(draft, r)

(* Each step of a confirm that fails leaves the draft as it was: the promise of
   section 7.3 of the package-management design. *)
FailedConfirmLeavesDraft ==
  \A r \in Requests :
    request[r].kind = "confirm" /\ result[r] = "io_error" => ~Contains(draft, r)

(* Every request that was sent is answered: no path leaves a lock held. *)
EveryRequestAnswered ==
  \A r \in Requests : pc[r] # "idle" ~> pc[r] = "answered"

(* What the store promises, as an atomic register: see RevisionRegister. *)
Register == INSTANCE RevisionRegister WITH
  exists       <- draft.exists,
  revision     <- draft.revision,
  at           <- draft.at,
  expected     <- [r \in Requests |-> request[r].expected],
  acknowledged <- {r \in Mutators : result[r] = "ok"}

ImplementsRegister == Register!Spec
===============================================================================
