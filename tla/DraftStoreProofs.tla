--------------------------- MODULE DraftStoreProofs ---------------------------
(***************************************************************************)
(* What holds of DraftStore for every set of requests, every assignment of *)
(* store instances, every set of batches and every number of crashes.      *)
(***************************************************************************)
EXTENDS DraftStore, TLAPS

ConfirmPhases == {"precheck", "append", "mark", "consume", "consumed"}

(* Where the thread of a mutation is once its mutation is in the draft. *)
Done == {"unlock", "consume", "consumed", "answered"}

(* A thread is only in the phases of what it was asked for, and a confirm names
   a preview that was answered, hence never writes its session again. *)
PhaseInv ==
  \A r \in Requests :
    /\ pc[r] \in ConfirmPhases => request[r].kind = "confirm"
    /\ pc[r] = "create" => request[r].kind = "create"
    /\ pc[r] = "write" => request[r].kind \in {"edit", "confirm"}
    /\ pc[r] \in {"preview", "issue"} => request[r].kind = "preview"
    /\ request[r].kind = "confirm" =>
         /\ request[r].token \in Requests
         /\ pc[request[r].token] = "answered"
         /\ request[request[r].token].kind = "preview"

TypeInv == TypeOK /\ PhaseInv

(* The states a server starts in, an empty draft or none, are well typed. *)
LEMMA TypeInit == Init => TypeInv
  <1>1. Unread \in Drafts /\ Empty \in Drafts
    BY DEF Unread, Empty, Drafts
  <1>2. NoSession \in Sessions
    BY DEF NoSession, Sessions
  <1>3. Unasked \in Asked
    BY DEF Unasked, Asked, Kinds
  <1>4. Init => TypeOK
    BY <1>1, <1>2, <1>3, StoreAssumption DEF Init, TypeOK, Labels, Tokens
  <1>5. Init => PhaseInv
    BY DEF Init, PhaseInv, ConfirmPhases, Unasked
  <1> QED
    BY <1>4, <1>5 DEF TypeInv

(* What the writes of a thread build: a session and a draft. *)
LEMMA TypesOfWrites ==
  ASSUME TypeOK, NEW r \in Requests
  PROVE  /\ Issued(r) \in Sessions
         /\ Consumed(r) \in Sessions
         /\ \A n \in Nat : Marked(r, n) \in Sessions
         /\ \A n, m \in Nat : WriteDraft(r, n, m) => draft' \in Drafts
  <1>1. held[r] \in Sessions /\ seen[r] \in Drafts /\ request[r] \in Asked
    BY DEF TypeOK
  <1>2. Consumed(r) \in Sessions
    BY <1>1 DEF Consumed, Sessions
  <1>3. \A n \in Nat : Marked(r, n) \in Sessions
    BY <1>1 DEF Marked, Sessions
  <1>4. \A n, m \in Nat : WriteDraft(r, n, m) => draft' \in Drafts
    BY <1>1 DEF WriteDraft, Drafts
  <1>5. Issued(r) \in Sessions
    BY <1>1 DEF Issued, Sessions, Asked
  <1> QED
    BY <1>2, <1>3, <1>4, <1>5

(* Every step of a thread leaves the variables in their types. *)
LEMMA TypeStep ==
  ASSUME TypeOK, PhaseInv, NEW r \in Requests, Step(r)
  PROVE  TypeOK'
  <1> USE StoreAssumption
      DEF TypeOK, Labels, Answers, files, locks, history, Goto, Answer, Raise
  <1>0. request[r] \in Asked /\ seen[r] \in Drafts /\ held[r] \in Sessions
    OBVIOUS
  <1>1. CASE CreateLock(r)
    BY <1>1 DEF CreateLock, Enter, Inside
  <1>2. CASE CreateWrite(r)
    <2>1. Empty \in Drafts
      BY DEF Empty, Drafts
    <2> QED
      BY <1>2, <2>1 DEF CreateWrite
  <1>3. CASE CommitLock(r)
    BY <1>3 DEF CommitLock, Enter, Inside
  <1>4. CASE CommitWrite(r)
    <2>1. seen[r].revision + 1 \in Nat
      BY <1>0 DEF Drafts
    <2>2. draft' \in Drafts
      BY <1>4, <2>1, TypesOfWrites DEF CommitWrite
    <2> QED
      BY <1>4, <2>2 DEF CommitWrite
  <1>5. CASE Unlock(r)
    BY <1>5 DEF Unlock
  <1>6. CASE Preview(r)
    BY <1>6 DEF Preview
  <1>7. CASE IssueSession(r)
    <2>1. Issued(r) \in Sessions
      BY TypesOfWrites
    <2>2. session' \in [Tokens -> Sessions]
      BY <1>7, <2>1 DEF IssueSession
    <2> QED
      BY <1>7, <2>2 DEF IssueSession
  <1>8. CASE ConfirmPrecheck(r)
    BY <1>8 DEF ConfirmPrecheck
  <1>9. CASE AppendCheck(r)
    <2>1. session[request[r].token] \in Sessions
      BY <1>9 DEF AppendCheck, PhaseInv, ConfirmPhases, Tokens
    <2> QED
      BY <1>9, <2>1 DEF AppendCheck
  <1>10. CASE MarkSession(r)
    <2>1. seen[r].revision + 1 \in Nat
      BY <1>0 DEF Drafts
    <2>2. Marked(r, seen[r].revision + 1) \in Sessions
      BY <2>1, TypesOfWrites
    <2> QED
      BY <1>10, <2>2 DEF MarkSession
  <1>11. CASE ConsumeRead(r)
    <2>1. request[r].token \in Tokens
      BY <1>11 DEF ConsumeRead, PhaseInv, ConfirmPhases, Tokens
    <2>2. session[request[r].token] \in Sessions
      BY <2>1
    <2>3. <<StoreOf[r], request[r].token>> \in Stores \X Tokens
      BY <2>1
    <2>4. sessionLocks' \in SUBSET (Stores \X Tokens)
      BY <1>11, <2>3 DEF ConsumeRead
    <2> QED
      BY <1>11, <2>2, <2>4 DEF ConsumeRead
  <1>12. CASE ConsumeWrite(r)
    <2>1. Consumed(r) \in Sessions
      BY TypesOfWrites
    <2>2. session' \in [Tokens -> Sessions]
      BY <1>12, <2>1 DEF ConsumeWrite
    <2> QED
      BY <1>12, <2>2 DEF ConsumeWrite
  <1>13. CASE ReadFails(r)
    BY <1>13 DEF ReadFails
  <1> QED
    BY <1>1, <1>2, <1>3, <1>4, <1>5, <1>6, <1>7, <1>8, <1>9, <1>10, <1>11, <1>12,
       <1>13 DEF Step

(* What a step of one thread does to the control state: the thread follows the
   edges of the program, and no other thread or question is touched. *)
LEMMA ThreadStep ==
  ASSUME TypeOK, NEW r \in Requests, Step(r)
  PROVE  /\ request' = request
         /\ \A q \in Requests \ {r} :
              /\ pc'[q] = pc[q] /\ result'[q] = result[q]
              /\ seen'[q] = seen[q] /\ held'[q] = held[q]
         /\ pc[r] \notin {"idle", "answered"}
         /\ pc'[r] # pc[r]
         /\ pc'[r] \notin {"idle", "preview", "precheck"}
         /\ pc[r] \in Done => pc'[r] \in Done
         /\ pc'[r] \in ConfirmPhases =>
              \/ pc[r] \in ConfirmPhases
              \/ request[r].kind = "confirm"
         /\ pc'[r] = "write" =>
              \/ pc[r] = "mark"
              \/ pc[r] = "lock" /\ request[r].kind = "edit"
         /\ pc'[r] = "issue" => pc[r] = "preview"
         /\ pc'[r] = "create" => request[r].kind = "create"
  <1> USE DEF TypeOK, files, locks, threads, Goto, Answer, Raise, ConfirmPhases, Done
  <1>1. CASE CreateLock(r)
    BY <1>1 DEF CreateLock
  <1>2. CASE CreateWrite(r)
    BY <1>2 DEF CreateWrite
  <1>3. CASE CommitLock(r)
    BY <1>3 DEF CommitLock
  <1>4. CASE CommitWrite(r)
    BY <1>4 DEF CommitWrite
  <1>5. CASE Unlock(r)
    BY <1>5 DEF Unlock
  <1>6. CASE Preview(r)
    BY <1>6 DEF Preview
  <1>7. CASE IssueSession(r)
    BY <1>7 DEF IssueSession
  <1>8. CASE ConfirmPrecheck(r)
    BY <1>8 DEF ConfirmPrecheck
  <1>9. CASE AppendCheck(r)
    BY <1>9 DEF AppendCheck
  <1>10. CASE MarkSession(r)
    BY <1>10 DEF MarkSession
  <1>11. CASE ConsumeRead(r)
    BY <1>11 DEF ConsumeRead
  <1>12. CASE ConsumeWrite(r)
    BY <1>12 DEF ConsumeWrite
  <1>13. CASE ReadFails(r)
    BY <1>13 DEF ReadFails
  <1> QED
    BY <1>1, <1>2, <1>3, <1>4, <1>5, <1>6, <1>7, <1>8, <1>9, <1>10, <1>11, <1>12,
       <1>13 DEF Step

(* A new request starts in the first phase of its kind. *)
LEMMA SubmitStep ==
  ASSUME TypeOK, NEW r \in Requests, Submit(r)
  PROVE  /\ TypeOK'
         /\ pc[r] = "idle"
         /\ \A q \in Requests \ {r} : pc'[q] = pc[q] /\ request'[q] = request[q]
         /\ pc'[r] \in {"preview", "precheck", "lock"}
         /\ pc'[r] = "preview" <=> request'[r].kind = "preview"
         /\ pc'[r] = "precheck" <=> request'[r].kind = "confirm"
         /\ request'[r].kind = "confirm" =>
              LET t == request'[r].token IN
              t \in Requests \ {r} /\ pc[t] = "answered" /\ request[t].kind = "preview"
  <1> USE DEF TypeOK, files, locks, history, threads, Goto, Tokens
  <1>1. PICK kind \in Kinds, expected \in 0 .. draft.revision :
          \E token \in TokensFor(r, kind), batch \in BatchesFor(kind) :
            /\ kind = "confirm" =>
                 /\ request[token].kind = "preview"
                 /\ pc[token] = "answered" /\ result[token] # "lost"
            /\ request' = [request EXCEPT ![r] = [kind |-> kind, expected |-> expected,
                                                  token |-> token, batch |-> batch]]
            /\ Goto(r, Entry(kind))
    BY DEF Submit
  <1>2. PICK token \in TokensFor(r, kind), batch \in BatchesFor(kind) :
          /\ kind = "confirm" =>
               /\ request[token].kind = "preview" /\ pc[token] = "answered"
          /\ request' = [request EXCEPT ![r] = [kind |-> kind, expected |-> expected,
                                                token |-> token, batch |-> batch]]
          /\ pc' = [pc EXCEPT ![r] = Entry(kind)]
    BY <1>1
  <1> DEFINE asked == [kind |-> kind, expected |-> expected, token |-> token,
                       batch |-> batch]
  <1>8. asked \in Asked
    BY DEF Drafts, Asked, TokensFor, BatchesFor
  <1>3. request' \in [Requests -> Asked] /\ request'[r] = asked
    BY <1>2, <1>8
  <1>4. pc' \in [Requests -> Labels] /\ pc'[r] = Entry(kind)
    BY <1>2 DEF Labels, Entry
  <1>5. TypeOK'
    BY <1>3, <1>4 DEF Submit
  <1>6. pc[r] = "idle"
    BY DEF Submit
  <1>7. kind = "confirm" => token \in Requests \ {r}
    BY DEF TokensFor
  <1> QED
    BY <1>2, <1>3, <1>4, <1>5, <1>6, <1>7 DEF Kinds, Entry

(* The process dies: every thread at work ends without an answer. *)
LEMMA CrashStep ==
  ASSUME TypeOK, Crash
  PROVE  /\ TypeOK'
         /\ request' = request
         /\ \A r \in Requests :
              pc'[r] = IF pc[r] \in {"idle", "answered"} THEN pc[r] ELSE "answered"
  BY DEF TypeOK, Crash, files, Labels, Answers

(* The clock passing an expiry touches neither the threads nor the draft. *)
LEMMA ExpireStep ==
  ASSUME TypeOK, NEW t \in Tokens, Expire(t)
  PROVE  TypeOK'
  BY DEF TypeOK, Expire, files, locks, threads, history

(* The types and the phases are an inductive invariant. *)
LEMMA TypeInvNext == TypeInv /\ [Next]_vars => TypeInv'
  <1> SUFFICES ASSUME TypeOK, PhaseInv, [Next]_vars PROVE TypeInv'
    BY DEF TypeInv
  <1>1. CASE \E r \in Requests : Submit(r)
    <2>1. PICK r \in Requests : Submit(r)
      BY <1>1
    <2>2. request'[r].kind = "confirm" =>
            /\ request'[r].token \in Requests \ {r}
            /\ pc'[request'[r].token] = "answered"
            /\ request'[request'[r].token].kind = "preview"
      BY <2>1, SubmitStep
    <2>3. \A q \in Requests \ {r} :
            /\ pc'[q] = pc[q] /\ request'[q] = request[q]
            /\ request[q].kind = "confirm" => request[q].token # r
      BY <2>1, SubmitStep DEF PhaseInv
    <2>4. PhaseInv'
      BY <2>1, <2>2, <2>3, SubmitStep DEF PhaseInv, ConfirmPhases
    <2> QED
      BY <2>1, <2>4, SubmitStep DEF TypeInv
  <1>2. CASE \E r \in Requests : Step(r)
    <2>1. PICK r \in Requests : Step(r)
      BY <1>2
    <2>2. PhaseInv'
      BY <2>1, ThreadStep DEF PhaseInv, ConfirmPhases
    <2> QED
      BY <2>1, <2>2, TypeStep DEF TypeInv
  <1>3. CASE \E t \in Tokens : Expire(t)
    <2>1. TypeOK'
      BY <1>3, ExpireStep
    <2>2. PhaseInv'
      BY <1>3 DEF PhaseInv, Expire, threads
    <2> QED
      BY <2>1, <2>2 DEF TypeInv
  <1>4. CASE Crash
    <2>1. PhaseInv'
      BY <1>4, CrashStep DEF PhaseInv, ConfirmPhases
    <2> QED
      BY <1>4, <2>1, CrashStep DEF TypeInv
  <1>5. CASE UNCHANGED vars
    BY <1>5 DEF TypeInv, TypeOK, PhaseInv, vars
  <1> QED
    BY <1>1, <1>2, <1>3, <1>4, <1>5 DEF Next

(* Every variable keeps its type, whatever the number of requests and stores. *)
THEOREM TypeCorrect == Spec => []TypeOK
  <1>1. TypeInv => TypeOK
    BY DEF TypeInv
  <1> QED
    BY TypeInit, TypeInvNext, <1>1, PTL DEF Spec

-------------------------------------------------------------------------------
(* What a text of the draft, on disk or in the memory of a thread, says of the
   mutations that made it: each of its revisions was made by one mutation, and
   that mutation has been written. *)
TextOK(d, asked, at) ==
  /\ \A r \in Requests : d.at[r] \in 0 .. d.revision
  /\ \A r \in Requests : d.at[r] # 0 =>
        asked[r].kind \in {"edit", "confirm"} /\ at[r] \in Done
  /\ \A n \in 1 .. d.revision : \E r \in Requests : d.at[r] = n
  /\ \A r, q \in Requests : d.at[r] = d.at[q] /\ d.at[r] # 0 => r = q

HistoryInv ==
  /\ TextOK(draft, request, pc)
  /\ \A r \in Requests : TextOK(seen[r], request, pc)

(* The history of a text does not depend on what its threads do afterwards. *)
LEMMA TextKept ==
  ASSUME NEW d, NEW asked, NEW at, NEW asked2, NEW at2, TextOK(d, asked, at),
         \A r \in Requests : at[r] \in Done =>
           at2[r] \in Done /\ asked2[r] = asked[r]
  PROVE  TextOK(d, asked2, at2)
  BY DEF TextOK

(* A thread writes its own mutation, once, on top of the text it has read. *)
LEMMA TextWritten ==
  ASSUME TypeOK, PhaseInv, NEW r \in Requests, pc[r] = "write",
         TextOK(seen[r], request, pc),
         WriteDraft(r, seen[r].revision + 1, seen[r].revision + 1),
         pc'[r] = "unlock", request' = request,
         \A q \in Requests \ {r} : pc'[q] = pc[q]
  PROVE  TextOK(draft', request', pc')
  <1> DEFINE n == seen[r].revision + 1
  <1>1. seen[r] \in Drafts
    BY DEF TypeOK
  <1>2. n \in Nat \ {0} /\ seen[r].revision \in Nat
    BY <1>1 DEF Drafts
  <1>3. draft'.revision = n
    BY DEF WriteDraft
  <1>4. \A q \in Requests : draft'.at[q] = IF q = r THEN n ELSE seen[r].at[q]
    BY <1>1 DEF WriteDraft, Drafts
  <1>5. seen[r].at[r] = 0
    BY DEF TextOK, Done
  <1>6. \A q \in Requests : draft'.at[q] \in 0 .. draft'.revision
    BY <1>2, <1>3, <1>4 DEF TextOK
  <1>7. \A q \in Requests : draft'.at[q] # 0 =>
          request'[q].kind \in {"edit", "confirm"} /\ pc'[q] \in Done
    BY <1>4 DEF TextOK, PhaseInv, Done
  <1>8. \A m \in 1 .. draft'.revision : \E q \in Requests : draft'.at[q] = m
    <2> SUFFICES ASSUME NEW m \in 1 .. n PROVE \E q \in Requests : draft'.at[q] = m
      BY <1>3
    <2>1. CASE m = n
      BY <1>4, <2>1
    <2>2. CASE m # n
      <3>1. m \in 1 .. seen[r].revision
        BY <1>2, <2>2
      <3>2. PICK q \in Requests : seen[r].at[q] = m
        BY <3>1 DEF TextOK
      <3>3. q # r
        BY <1>5, <3>1, <3>2
      <3> QED
        BY <1>4, <3>2, <3>3
    <2> QED
      BY <2>1, <2>2
  <1>9. \A p, q \in Requests : draft'.at[p] = draft'.at[q] /\ draft'.at[p] # 0 => p = q
    BY <1>2, <1>4 DEF TextOK
  <1> QED
    BY <1>6, <1>7, <1>8, <1>9 DEF TextOK

(* What a step of one thread does to the texts: it reads the draft into its
   memory, creates an empty one, or writes its mutation; nothing else. *)
LEMMA TextStep ==
  ASSUME TypeOK, NEW r \in Requests, Step(r)
  PROVE  /\ \A q \in Requests : seen'[q] \in {seen[q], draft}
         /\ pc[r] \in Done \cup {"write"} => seen'[r] = seen[r]
         /\ \/ draft' = draft
            \/ pc[r] = "create" /\ pc'[r] = "unlock" /\ draft' = Empty
            \/ /\ pc[r] = "write" /\ pc'[r] = "unlock" /\ result'[r] = result[r]
               /\ WriteDraft(r, seen[r].revision + 1, seen[r].revision + 1)
  <1> USE DEF TypeOK, files, locks, threads, Goto, Answer, Raise, Done
  <1>1. CASE CreateLock(r)
    BY <1>1 DEF CreateLock
  <1>2. CASE CreateWrite(r)
    BY <1>2 DEF CreateWrite
  <1>3. CASE CommitLock(r)
    BY <1>3 DEF CommitLock
  <1>4. CASE CommitWrite(r)
    BY <1>4 DEF CommitWrite
  <1>5. CASE Unlock(r)
    BY <1>5 DEF Unlock
  <1>6. CASE Preview(r)
    BY <1>6 DEF Preview
  <1>7. CASE IssueSession(r)
    BY <1>7 DEF IssueSession
  <1>8. CASE ConfirmPrecheck(r)
    BY <1>8 DEF ConfirmPrecheck
  <1>9. CASE AppendCheck(r)
    BY <1>9 DEF AppendCheck
  <1>10. CASE MarkSession(r)
    BY <1>10 DEF MarkSession
  <1>11. CASE ConsumeRead(r)
    BY <1>11 DEF ConsumeRead
  <1>12. CASE ConsumeWrite(r)
    BY <1>12 DEF ConsumeWrite
  <1>13. CASE ReadFails(r)
    BY <1>13 DEF ReadFails
  <1> QED
    BY <1>1, <1>2, <1>3, <1>4, <1>5, <1>6, <1>7, <1>8, <1>9, <1>10, <1>11, <1>12,
       <1>13 DEF Step

(* The two texts a workspace can start from contain no mutation. *)
LEMMA TextEmpty ==
  ASSUME NEW asked, NEW at, NEW d \in {Unread, Empty}
  PROVE  TextOK(d, asked, at)
  BY DEF TextOK, Unread, Empty

(* A fresh or missing draft has an empty, hence complete, history. *)
LEMMA HistoryInit == Init => HistoryInv
  BY TextEmpty DEF Init, HistoryInv

(* No step breaks the history of the draft or of a text in memory. *)
LEMMA HistoryNext == TypeInv /\ HistoryInv /\ [Next]_vars => HistoryInv'
  <1> SUFFICES ASSUME TypeOK, PhaseInv, HistoryInv, [Next]_vars PROVE HistoryInv'
    BY DEF TypeInv
  <1>1. CASE \E r \in Requests : Step(r)
    <2>1. PICK r \in Requests : Step(r)
      BY <1>1
    <2>2. \A q \in Requests : pc[q] \in Done => pc'[q] \in Done /\ request'[q] = request[q]
      BY <2>1, ThreadStep
    <2>3. \A d : TextOK(d, request, pc) => TextOK(d, request', pc')
      BY <2>2, TextKept
    <2>4. \A q \in Requests : TextOK(seen'[q], request', pc')
      BY <2>1, <2>3, TextStep DEF HistoryInv
    <2>5. TextOK(draft', request', pc')
      BY <2>1, <2>3, TextStep, TextEmpty, TextWritten, ThreadStep DEF HistoryInv
    <2> QED
      BY <2>4, <2>5 DEF HistoryInv
  <1>2. CASE ~ \E r \in Requests : Step(r)
    <2>1. draft' = draft /\ seen' = seen
      BY <1>2 DEF Next, vars, Submit, Expire, Crash, files, threads
    <2>2. \A q \in Requests : pc[q] \in Done => pc'[q] \in Done /\ request'[q] = request[q]
      <3>1. CASE \E r \in Requests : Submit(r)
        BY <3>1, SubmitStep DEF Done
      <3>2. CASE \E t \in Tokens : Expire(t)
        BY <3>2 DEF Expire, threads
      <3>3. CASE Crash
        BY <3>3, CrashStep DEF Done
      <3>4. CASE UNCHANGED vars
        BY <3>4 DEF vars
      <3> QED
        BY <1>2, <3>1, <3>2, <3>3, <3>4 DEF Next
    <2>3. \A d : TextOK(d, request, pc) => TextOK(d, request', pc')
      BY <2>2, TextKept
    <2> QED
      BY <2>1, <2>3 DEF HistoryInv
  <1> QED
    BY <1>1, <1>2

-------------------------------------------------------------------------------
(* The revision a session names as the one that holds its batch. *)
Promised(s) == s.expected + 1

(* The batch of an import that is in a text entered at the revision its session
   was issued for and names. *)
SpentIn(d, asked, sessions) ==
  \A c \in Requests :
    asked[c].kind = "confirm" /\ d.at[c] # 0 =>
      LET s == sessions[asked[c].token] IN
      s.exists /\ d.at[c] = Promised(s) /\ s.committed = Promised(s)

(* How far a confirm has got, and what its session says by then. *)
ConfirmOK(r, asked, at, answer, text, own, s) ==
  /\ at \in {"append", "mark", "write"} => text.revision = asked.expected
  /\ at \in {"mark", "write"} => s.exists /\ s.expected = asked.expected
  /\ at = "mark" => own.exists = s.exists /\ own.expected = s.expected
  /\ at \in {"write", "consume", "consumed"} \/ (at = "unlock" /\ answer = "none") =>
       s.committed = Promised(s)
  /\ at = "consumed" =>
       own.exists = s.exists /\ own.expected = s.expected /\ own.committed = s.committed

SessionInv ==
  /\ \A r \in Requests : request[r].kind = "confirm" =>
       ConfirmOK(r, request[r], pc[r], result[r], seen[r], held[r],
                 session[request[r].token])
  /\ SpentIn(draft, request, session)
  /\ \A r \in Requests : SpentIn(seen[r], request, session)

(* A session that was issued keeps the revision it was issued for, and can only
   come to name the revision after it. *)
LEMMA SessionKept ==
  ASSUME TypeOK, PhaseInv, SessionInv, NEW r \in Requests, Step(r),
         NEW t \in Requests, pc[t] = "answered"
  PROVE  /\ session'[t].exists = session[t].exists
         /\ session'[t].expected = session[t].expected
         /\ session'[t].committed \in {session[t].committed, Promised(session[t])}
  <1> USE DEF TypeOK, files, locks
  <1>1. CASE session' = session
    BY <1>1
  <1>2. CASE IssueSession(r)
    BY <1>2 DEF IssueSession, Tokens
  <1>3. CASE MarkSession(r)
    <2>1. request[r].kind = "confirm" /\ pc[r] = "mark"
      BY <1>3 DEF MarkSession, PhaseInv, ConfirmPhases
    <2>2. /\ seen[r].revision = session[request[r].token].expected
          /\ held[r].exists = session[request[r].token].exists
          /\ held[r].expected = session[request[r].token].expected
      BY <2>1 DEF SessionInv, ConfirmOK
    <2> QED
      BY <1>3, <2>2 DEF MarkSession, Marked, Promised, Tokens
  <1>4. CASE ConsumeWrite(r)
    <2>1. request[r].kind = "confirm" /\ pc[r] = "consumed"
      BY <1>4 DEF ConsumeWrite, PhaseInv, ConfirmPhases
    <2>2. /\ held[r].committed = session[request[r].token].committed
          /\ held[r].exists = session[request[r].token].exists
          /\ held[r].expected = session[request[r].token].expected
      BY <2>1 DEF SessionInv, ConfirmOK
    <2> QED
      BY <1>4, <2>2 DEF ConsumeWrite, Consumed, Tokens
  <1> QED
    BY <1>1, <1>2, <1>3, <1>4
    DEF Step, CreateLock, CreateWrite, CommitLock, CommitWrite, Unlock, Preview,
        ConfirmPrecheck, AppendCheck, ConsumeRead, ReadFails

(* What a confirm knows of its session stays true while others move. *)
LEMMA OtherConfirm ==
  ASSUME NEW r, NEW asked, NEW at, NEW answer, NEW text, NEW own, NEW s, NEW s2,
         ConfirmOK(r, asked, at, answer, text, own, s),
         s2.exists = s.exists, s2.expected = s.expected, s2.committed \in {s.committed, Promised(s)}
  PROVE  ConfirmOK(r, asked, at, answer, text, own, s2)
  BY DEF ConfirmOK, Promised

(* The confirm that moves learns, marks and writes what the next phase needs. *)
LEMMA OwnConfirm ==
  ASSUME TypeOK, PhaseInv, SessionInv, NEW r \in Requests, Step(r),
         request[r].kind = "confirm"
  PROVE  ConfirmOK(r, request[r], pc'[r], result'[r], seen'[r], held'[r],
                   session'[request[r].token])
  <1> DEFINE t == request[r].token
  <1> USE DEF TypeOK, files, locks, Goto, Answer, Raise, Tokens, Promised, ConfirmOK
  <1>0. /\ t \in Requests
        /\ ConfirmOK(r, request[r], pc[r], result[r], seen[r], held[r], session[t])
    BY DEF PhaseInv, SessionInv
  <1>1. CASE CreateLock(r) \/ CreateWrite(r) \/ Preview(r) \/ IssueSession(r)
    BY <1>1 DEF CreateLock, CreateWrite, Preview, IssueSession, PhaseInv
  <1>2. CASE CommitLock(r)
    BY <1>2 DEF CommitLock
  <1>3. CASE CommitWrite(r)
    BY <1>0, <1>3 DEF CommitWrite
  <1>4. CASE Unlock(r)
    BY <1>0, <1>4 DEF Unlock
  <1>5. CASE ConfirmPrecheck(r)
    BY <1>5 DEF ConfirmPrecheck
  <1>6. CASE AppendCheck(r)
    BY <1>0, <1>6 DEF AppendCheck, SessionConflicts, SessionRefused
  <1>7. CASE MarkSession(r)
    BY <1>0, <1>7 DEF MarkSession, Marked
  <1>8. CASE ConsumeRead(r)
    BY <1>0, <1>8 DEF ConsumeRead
  <1>9. CASE ConsumeWrite(r)
    BY <1>0, <1>9 DEF ConsumeWrite, Consumed
  <1>10. CASE ReadFails(r)
    BY <1>0, <1>10 DEF ReadFails
  <1> QED
    BY <1>1, <1>2, <1>3, <1>4, <1>5, <1>6, <1>7, <1>8, <1>9, <1>10 DEF Step

(* With no import in the draft there is no token to be spent. *)
LEMMA SessionInit == Init => SessionInv
  <1> SUFFICES ASSUME Init PROVE SessionInv
    OBVIOUS
  <1>1. \A r \in Requests : request[r].kind # "confirm"
    BY DEF Init, Unasked
  <1> QED
    BY <1>1 DEF SessionInv, SpentIn

(* No step separates an import from the session its preview issued. *)
LEMMA SessionNext == TypeInv /\ HistoryInv /\ SessionInv /\ [Next]_vars => SessionInv'
  <1> SUFFICES ASSUME TypeOK, PhaseInv, HistoryInv, SessionInv, [Next]_vars
               PROVE  SessionInv'
    BY DEF TypeInv
  <1>1. CASE \E r \in Requests : Step(r)
    <2>1. PICK r \in Requests : Step(r)
      BY <1>1
    <2>2. request' = request
      BY <2>1, ThreadStep
    <2>3. \A c \in Requests : request[c].kind = "confirm" =>
            LET t == request[c].token IN
            /\ session'[t].exists = session[t].exists
            /\ session'[t].expected = session[t].expected
            /\ session'[t].committed \in {session[t].committed, Promised(session[t])}
      BY <2>1, SessionKept DEF PhaseInv
    <2>4. ASSUME NEW q \in Requests, request[q].kind = "confirm"
          PROVE  ConfirmOK(q, request[q], pc'[q], result'[q], seen'[q], held'[q],
                           session'[request[q].token])
      <3>1. CASE q = r
        BY <2>1, <2>4, <3>1, OwnConfirm
      <3>2. CASE q # r
        <4>1. /\ pc'[q] = pc[q] /\ result'[q] = result[q]
              /\ seen'[q] = seen[q] /\ held'[q] = held[q]
          BY <2>1, <3>2, ThreadStep
        <4>2. ConfirmOK(q, request[q], pc[q], result[q], seen[q], held[q],
                        session[request[q].token])
          BY <2>4 DEF SessionInv
        <4> QED
          BY <2>3, <2>4, <4>1, <4>2, OtherConfirm
      <3> QED
        BY <3>1, <3>2
    <2>5. \A d : SpentIn(d, request, session) => SpentIn(d, request, session')
      BY <2>3 DEF SpentIn, Promised
    <2>6. \A q \in Requests : SpentIn(seen'[q], request, session')
      BY <2>1, <2>5, TextStep DEF SessionInv
    <2>7. SpentIn(draft', request, session')
      <3>1. CASE draft' = draft
        BY <2>5, <3>1 DEF SessionInv
      <3>2. CASE draft' = Empty
        BY <3>2 DEF SpentIn, Empty
      <3>3. CASE /\ pc[r] = "write"
                 /\ WriteDraft(r, seen[r].revision + 1, seen[r].revision + 1)
        <4>1. \A q \in Requests :
                draft'.at[q] = IF q = r THEN seen[r].revision + 1 ELSE seen[r].at[q]
          BY <3>3 DEF WriteDraft, TypeOK, Drafts
        <4>2. request[r].kind = "confirm" =>
                LET s == session[request[r].token] IN
                s.exists /\ seen[r].revision = s.expected /\ s.committed = Promised(s)
          BY <3>3 DEF SessionInv, ConfirmOK
        <4>3. request[r].kind = "confirm" =>
                LET s == session'[request[r].token] IN
                /\ s.exists /\ seen[r].revision + 1 = Promised(s)
                /\ s.committed = Promised(s)
          BY <2>3, <4>2 DEF Promised
        <4>4. SpentIn(seen[r], request, session')
          BY <2>5 DEF SessionInv
        <4> QED
          BY <4>1, <4>3, <4>4 DEF SpentIn
      <3> QED
        BY <2>1, <3>1, <3>2, <3>3, TextStep
    <2> QED
      BY <2>2, <2>4, <2>6, <2>7 DEF SessionInv
  <1>2. CASE \E r \in Requests : Submit(r)
    <2>1. PICK r \in Requests : Submit(r)
      BY <1>2
    <2>2. /\ draft' = draft /\ session' = session /\ seen' = seen /\ held' = held
          /\ result' = result
      BY <2>1 DEF Submit, files
    <2>3. draft.at[r] = 0 /\ \A q \in Requests : seen[q].at[r] = 0
      BY <2>1, SubmitStep DEF HistoryInv, TextOK, Done
    <2>4. \A q \in Requests \ {r} : request'[q] = request[q] /\ pc'[q] = pc[q]
      BY <2>1, SubmitStep
    <2>5. SpentIn(draft, request', session)
      BY <2>3, <2>4 DEF SessionInv, SpentIn
    <2>6. \A q \in Requests : SpentIn(seen[q], request', session)
      BY <2>3, <2>4 DEF SessionInv, SpentIn
    <2>7. \A q \in Requests : request'[q].kind = "confirm" =>
            ConfirmOK(q, request'[q], pc'[q], result[q], seen[q], held[q],
                      session[request'[q].token])
      <3> SUFFICES ASSUME NEW q \in Requests, request'[q].kind = "confirm"
                   PROVE  ConfirmOK(q, request'[q], pc'[q], result[q], seen[q], held[q],
                                    session[request'[q].token])
        OBVIOUS
      <3>1. CASE q = r
        BY <2>1, <3>1, SubmitStep DEF ConfirmOK
      <3>2. CASE q # r
        BY <2>4, <3>2 DEF SessionInv
      <3> QED
        BY <3>1, <3>2
    <2> QED
      BY <2>2, <2>5, <2>6, <2>7 DEF SessionInv
  <1>3. CASE Crash
    <2>1. /\ draft' = draft /\ session' = session /\ seen' = seen /\ held' = held
          /\ request' = request
      BY <1>3 DEF Crash, files
    <2>2. \A q \in Requests : pc'[q] \in {"idle", "answered"}
      BY <1>3, CrashStep
    <2>3. \A q \in Requests : request[q].kind = "confirm" =>
            ConfirmOK(q, request[q], pc'[q], result'[q], seen[q], held[q],
                      session[request[q].token])
      BY <2>2 DEF ConfirmOK
    <2> QED
      BY <2>1, <2>3 DEF SessionInv
  <1>4. CASE (\E t \in Tokens : Expire(t)) \/ UNCHANGED vars
    <2>1. /\ draft' = draft /\ session' = session /\ seen' = seen /\ held' = held
          /\ request' = request /\ pc' = pc /\ result' = result
      BY <1>4 DEF Expire, files, threads, vars
    <2> QED
      BY <2>1 DEF SessionInv
  <1> QED
    BY <1>1, <1>2, <1>3, <1>4 DEF Next

(* In any wiring of stores and through any number of crashes: the session of an
   import that is in the draft names its revision, so that the token is refused
   from then on. *)
THEOREM AppliedTokensSpent == Spec => []AppliedTokenIsSpent
  <1>1. SessionInv => AppliedTokenIsSpent
    BY DEF SessionInv, SpentIn, AppliedTokenIsSpent, ImportsIn, Contains
  <1> QED
    BY TypeInit, TypeInvNext, HistoryInit, HistoryNext, SessionInit, SessionNext, <1>1,
       PTL DEF Spec

-------------------------------------------------------------------------------
(* A thread that has not been answered, and is not on its way out of the lock,
   has met no failure. *)
PendingInv ==
  \A r \in Requests : pc[r] \notin {"unlock", "answered"} => result[r] = "none"

(* What clients were told of the mutations that are in a text. *)
TextTold(d, asked, answer) ==
  \A r \in Requests : d.at[r] # 0 =>
    \/ answer[r] \in {"none", "ok", "lost"}
    \/ answer[r] = "io_error" /\ asked[r].kind = "confirm"

ToldInv ==
  /\ PendingInv
  /\ TextTold(draft, request, result)
  /\ \A r \in Requests : TextTold(seen[r], request, result)

(* A failure is answered on the way out of the lock, before anything was written,
   or by an import whose session could not be consumed. *)
LEMMA FailureStep ==
  ASSUME TypeOK, PhaseInv, PendingInv, NEW r \in Requests, Step(r)
  PROVE  /\ pc'[r] \notin {"unlock", "answered"} => result'[r] = "none"
         /\ pc[r] \in Done =>
              \/ result'[r] \in {result[r], "ok"}
              \/ result'[r] = "io_error" /\ request[r].kind = "confirm"
         /\ pc[r] = "write" => result[r] = "none"
  <1> USE DEF TypeOK, files, locks, threads, Goto, Answer, Raise, Done, PendingInv
  <1>1. CASE CreateLock(r) \/ CreateWrite(r) \/ CommitLock(r) \/ CommitWrite(r)
    BY <1>1 DEF CreateLock, CreateWrite, CommitLock, CommitWrite
  <1>2. CASE Unlock(r)
    BY <1>2 DEF Unlock
  <1>3. CASE Preview(r) \/ IssueSession(r)
    BY <1>3 DEF Preview, IssueSession
  <1>4. CASE ConfirmPrecheck(r)
    BY <1>4 DEF ConfirmPrecheck
  <1>5. CASE AppendCheck(r) \/ MarkSession(r)
    BY <1>5 DEF AppendCheck, MarkSession
  <1>6. CASE ConsumeRead(r) \/ ConsumeWrite(r)
    BY <1>6 DEF ConsumeRead, ConsumeWrite, PhaseInv, ConfirmPhases
  <1>7. CASE ReadFails(r)
    BY <1>7 DEF ReadFails, PhaseInv, ConfirmPhases
  <1> QED
    BY <1>1, <1>2, <1>3, <1>4, <1>5, <1>6, <1>7 DEF Step

(* At the start nobody was told anything. *)
LEMMA ToldInit == Init => ToldInv
  BY DEF Init, ToldInv, PendingInv, TextTold, Unread, Empty

(* No step answers a failure to a client whose mutation is in a text. *)
LEMMA ToldNext == TypeInv /\ HistoryInv /\ ToldInv /\ [Next]_vars => ToldInv'
  <1> SUFFICES ASSUME TypeOK, PhaseInv, HistoryInv, ToldInv, [Next]_vars
               PROVE  ToldInv'
    BY DEF TypeInv
  <1>0. PendingInv
    BY DEF ToldInv
  <1>1. CASE \E r \in Requests : Step(r)
    <2>1. PICK r \in Requests : Step(r)
      BY <1>1
    <2>2. request' = request /\ \A q \in Requests \ {r} : result'[q] = result[q] /\ pc'[q] = pc[q]
      BY <2>1, ThreadStep
    <2>3. PendingInv'
      BY <1>0, <2>1, <2>2, FailureStep DEF PendingInv
    <2>4. \A d : TextOK(d, request, pc) /\ TextTold(d, request, result)
                   => TextTold(d, request, result')
      BY <1>0, <2>1, <2>2, FailureStep DEF TextOK, TextTold
    <2>5. \A q \in Requests : TextTold(seen'[q], request, result')
      BY <2>1, <2>4, TextStep DEF HistoryInv, ToldInv
    <2>6. TextTold(draft', request, result')
      <3>1. CASE draft' = draft
        BY <2>4, <3>1 DEF HistoryInv, ToldInv
      <3>2. CASE draft' = Empty
        BY <3>2 DEF TextTold, Empty
      <3>3. CASE /\ pc[r] = "write" /\ result'[r] = result[r]
                 /\ WriteDraft(r, seen[r].revision + 1, seen[r].revision + 1)
        <4>1. \A q \in Requests :
                draft'.at[q] = IF q = r THEN seen[r].revision + 1 ELSE seen[r].at[q]
          BY <3>3 DEF WriteDraft, TypeOK, Drafts
        <4>2. result'[r] = "none"
          BY <1>0, <2>1, <3>3, FailureStep
        <4>3. TextTold(seen[r], request, result')
          BY <2>4 DEF HistoryInv, ToldInv
        <4> QED
          BY <4>1, <4>2, <4>3 DEF TextTold
      <3> QED
        BY <2>1, <3>1, <3>2, <3>3, TextStep
    <2> QED
      BY <2>2, <2>3, <2>5, <2>6 DEF ToldInv
  <1>2. CASE \E r \in Requests : Submit(r)
    <2>1. PICK r \in Requests : Submit(r)
      BY <1>2
    <2>2. /\ draft' = draft /\ seen' = seen /\ result' = result
          /\ \A q \in Requests \ {r} : request'[q] = request[q] /\ pc'[q] = pc[q]
      BY <2>1, SubmitStep DEF Submit, files
    <2>3. draft.at[r] = 0 /\ \A q \in Requests : seen[q].at[r] = 0
      BY <2>1, SubmitStep DEF HistoryInv, TextOK, Done
    <2>4. PendingInv'
      BY <1>0, <2>1, <2>2, SubmitStep DEF PendingInv
    <2> QED
      BY <2>2, <2>3, <2>4 DEF ToldInv, TextTold
  <1>3. CASE Crash
    <2>1. /\ draft' = draft /\ seen' = seen /\ request' = request
          /\ \A q \in Requests : result'[q] \in {result[q], "lost"}
      BY <1>3 DEF Crash, files, TypeOK
    <2>2. PendingInv'
      <3> SUFFICES ASSUME NEW q \in Requests, pc'[q] \notin {"unlock", "answered"}
                   PROVE  result'[q] = "none"
        BY DEF PendingInv
      <3>1. pc[q] = "idle"
        BY <1>3, CrashStep
      <3> QED
        BY <1>0, <1>3, <3>1 DEF Crash, PendingInv, TypeOK
    <2> QED
      BY <2>1, <2>2 DEF ToldInv, TextTold
  <1>4. CASE (\E t \in Tokens : Expire(t)) \/ UNCHANGED vars
    <2>1. /\ draft' = draft /\ seen' = seen /\ request' = request /\ pc' = pc
          /\ result' = result
      BY <1>4 DEF Expire, files, threads, vars
    <2> QED
      BY <2>1 DEF ToldInv, PendingInv, TextTold
  <1> QED
    BY <1>1, <1>2, <1>3, <1>4 DEF Next

(* In any wiring of stores: a request that was turned down, or an edit that
   failed, is in no text, not even in one another thread may still write. *)
THEOREM FailuresLeaveNoTrace == Spec => []FailureLeavesDraft
  <1>1. TypeInv /\ ToldInv => FailureLeavesDraft
    BY DEF TypeInv, TypeOK, Answers, ToldInv, TextTold, FailureLeavesDraft, Contains
  <1> QED
    BY TypeInit, TypeInvNext, HistoryInit, HistoryNext, ToldInit, ToldNext, <1>1,
       PTL DEF Spec

-------------------------------------------------------------------------------
(* The names a confirm brings into the text. *)
BatchOf(asked, c) == asked[asked[c].token].batch

Imported(d, asked, c) == asked[c].kind = "confirm" /\ d.at[c] # 0

(* No two imports of a text share a name. *)
TextDistinct(d, asked) ==
  \A c, e \in Requests :
    Imported(d, asked, c) /\ Imported(d, asked, e) /\ c # e =>
      BatchOf(asked, c) \cap BatchOf(asked, e) = {}

(* The batch of r shares no name with an import of the text. *)
Fresh(r, d, asked) ==
  \A c \in Requests : Imported(d, asked, c) => BatchOf(asked, r) \cap BatchOf(asked, c) = {}

NamesInv ==
  /\ TextDistinct(draft, request)
  /\ \A r \in Requests : TextDistinct(seen[r], request)
  /\ \A r \in Requests : request[r].kind = "confirm" /\ pc[r] \in {"mark", "write"} =>
       Fresh(r, seen[r], request)

(* A confirm that may mark its session has been checked against the text it
   will replace, and holds that text until it has written. *)
LEMMA FreshStep ==
  ASSUME TypeOK, PhaseInv, NamesInv, NEW r \in Requests, Step(r),
         request[r].kind = "confirm", pc'[r] \in {"mark", "write"}
  PROVE  Fresh(r, seen'[r], request)
  <1> USE DEF TypeOK, files, locks, threads, Goto, Answer, Raise
  <1>1. CASE AppendCheck(r)
    <2>1. seen' = seen /\ ~Duplicates(seen[r], BatchOf(request, r))
      BY <1>1 DEF AppendCheck, BatchOf
    <2> QED
      BY <2>1 DEF Duplicates, NamesIn, ImportsIn, Contains, Fresh, Imported, BatchOf
  <1>2. CASE MarkSession(r)
    BY <1>2 DEF MarkSession, NamesInv
  <1> QED
    BY <1>1, <1>2
    DEF Step, CreateLock, CreateWrite, CommitLock, CommitWrite, Unlock, Preview,
        IssueSession, ConfirmPrecheck, ConsumeRead, ConsumeWrite, ReadFails

(* At the start no text holds an import. *)
LEMMA NamesInit == Init => NamesInv
  BY DEF Init, NamesInv, TextDistinct, Imported, Unread, Empty, Unasked

(* No step brings a name into a text that has it. *)
LEMMA NamesNext == TypeInv /\ HistoryInv /\ NamesInv /\ [Next]_vars => NamesInv'
  <1> SUFFICES ASSUME TypeOK, PhaseInv, HistoryInv, NamesInv, [Next]_vars
               PROVE  NamesInv'
    BY DEF TypeInv
  <1>1. CASE \E r \in Requests : Step(r)
    <2>1. PICK r \in Requests : Step(r)
      BY <1>1
    <2>2. request' = request
      BY <2>1, ThreadStep
    <2>3. \A q \in Requests : TextDistinct(seen'[q], request)
      BY <2>1, TextStep DEF NamesInv
    <2>4. \A q \in Requests : request[q].kind = "confirm" /\ pc'[q] \in {"mark", "write"} =>
            Fresh(q, seen'[q], request)
      BY <2>1, ThreadStep, FreshStep DEF NamesInv
    <2>5. TextDistinct(draft', request)
      <3>1. CASE draft' = draft
        BY <3>1 DEF NamesInv
      <3>2. CASE draft' = Empty
        BY <3>2 DEF TextDistinct, Imported, Empty
      <3>3. CASE /\ pc[r] = "write"
                 /\ WriteDraft(r, seen[r].revision + 1, seen[r].revision + 1)
        <4>1. \A q \in Requests :
                draft'.at[q] = IF q = r THEN seen[r].revision + 1 ELSE seen[r].at[q]
          BY <3>3 DEF WriteDraft, TypeOK, Drafts
        <4>2. TextDistinct(seen[r], request)
          BY DEF NamesInv
        <4>3. request[r].kind = "confirm" => Fresh(r, seen[r], request)
          BY <3>3 DEF NamesInv
        <4>4. \A c \in Requests : Imported(draft', request, c) /\ c # r =>
                Imported(seen[r], request, c)
          BY <4>1 DEF Imported
        <4> QED
          BY <4>2, <4>3, <4>4 DEF TextDistinct, Fresh, Imported
      <3> QED
        BY <2>1, <3>1, <3>2, <3>3, TextStep
    <2> QED
      BY <2>2, <2>3, <2>4, <2>5 DEF NamesInv
  <1>2. CASE \E r \in Requests : Submit(r)
    <2>1. PICK r \in Requests : Submit(r)
      BY <1>2
    <2>2. /\ draft' = draft /\ seen' = seen
          /\ \A q \in Requests \ {r} : request'[q] = request[q] /\ pc'[q] = pc[q]
          /\ pc'[r] \in {"preview", "precheck", "lock"}
      BY <2>1, SubmitStep DEF Submit, files
    <2>3. draft.at[r] = 0 /\ \A q \in Requests : seen[q].at[r] = 0
      BY <2>1, SubmitStep DEF HistoryInv, TextOK, Done
    <2>4. \A c \in Requests \ {r} : request[c].kind = "confirm" =>
            BatchOf(request', c) = BatchOf(request, c)
      <3>1. \A c \in Requests : request[c].kind = "confirm" => request[c].token \in Requests \ {r}
        BY <2>1, SubmitStep DEF PhaseInv
      <3> QED
        BY <2>2, <3>1 DEF BatchOf
    <2>5. \A d : d.at[r] = 0 =>
            \A c \in Requests : Imported(d, request', c) => c # r /\ Imported(d, request, c)
      BY <2>2 DEF Imported
    <2>6. \A d : d.at[r] = 0 /\ TextDistinct(d, request) => TextDistinct(d, request')
      BY <2>4, <2>5 DEF TextDistinct, Imported
    <2>7. \A q \in Requests : request'[q].kind = "confirm" /\ pc'[q] \in {"mark", "write"} =>
            Fresh(q, seen[q], request')
      <3> SUFFICES ASSUME NEW q \in Requests, request'[q].kind = "confirm",
                          pc'[q] \in {"mark", "write"}
                   PROVE  Fresh(q, seen[q], request')
        OBVIOUS
      <3>1. q # r /\ request[q].kind = "confirm"
        BY <2>2
      <3>2. Fresh(q, seen[q], request)
        BY <2>2, <3>1 DEF NamesInv
      <3> QED
        BY <2>3, <2>4, <2>5, <3>1, <3>2 DEF Fresh, Imported
    <2> QED
      BY <2>2, <2>3, <2>6, <2>7 DEF NamesInv
  <1>3. CASE Crash
    <2>1. /\ draft' = draft /\ seen' = seen /\ request' = request
          /\ \A q \in Requests : pc'[q] \in {"idle", "answered"}
      BY <1>3, CrashStep DEF Crash, files
    <2> QED
      BY <2>1 DEF NamesInv
  <1>4. CASE (\E t \in Tokens : Expire(t)) \/ UNCHANGED vars
    <2>1. draft' = draft /\ seen' = seen /\ request' = request /\ pc' = pc
      BY <1>4 DEF Expire, files, threads, vars
    <2> QED
      BY <2>1 DEF NamesInv
  <1> QED
    BY <1>1, <1>2, <1>3, <1>4 DEF Next

(* In any wiring of stores no text of the draft holds two objects of one
   physical name: a stale write brings back a text that was free of duplicates. *)
THEOREM NamesAreUnique == Spec => []NoDuplicateObjects
  <1>1. NamesInv => NoDuplicateObjects
    BY DEF NamesInv, TextDistinct, Imported, BatchOf, NoDuplicateObjects, ImportsIn, Contains
  <1> QED
    BY TypeInit, TypeInvNext, HistoryInit, HistoryNext, NamesInit, NamesNext, <1>1,
       PTL DEF Spec

-------------------------------------------------------------------------------
(* In any wiring of stores: who is inside a commit at the same time as another,
   and what that can cost. *)

(* The mutation of r has been written. *)
Written(r) ==
  \/ result[r] = "ok" \/ pc[r] \in {"consume", "consumed"}
  \/ pc[r] = "unlock" /\ result[r] = "none"

(* Success is announced last. *)
AnswerInv ==
  \A r \in Requests :
    /\ pc[r] = "idle" => result[r] = "none"
    /\ result[r] = "ok" => pc[r] = "answered"

(* Nobody has been told of a success when the server starts. *)
LEMMA AnswerInit == Init => AnswerInv
  BY DEF Init, AnswerInv

(* The answer a thread gives: a success is announced after the write. *)
LEMMA AnswerStep ==
  ASSUME TypeOK, PhaseInv, AnswerInv, NEW r \in Requests, Step(r)
  PROVE  /\ result'[r] = "ok" => pc'[r] = "answered"
         /\ r \in Mutators /\ Written(r)' =>
              \/ Written(r) /\ draft' = draft
              \/ /\ pc[r] = "write"
                 /\ WriteDraft(r, seen[r].revision + 1, seen[r].revision + 1)
  <1> USE DEF TypeOK, files, locks, threads, Goto, Answer, Raise, Written, AnswerInv,
          PhaseInv, Mutators, ConfirmPhases
  <1>1. CASE CreateLock(r)
    BY <1>1 DEF CreateLock
  <1>2. CASE CreateWrite(r)
    BY <1>2 DEF CreateWrite
  <1>3. CASE CommitLock(r)
    BY <1>3 DEF CommitLock
  <1>4. CASE CommitWrite(r)
    BY <1>4 DEF CommitWrite
  <1>5. CASE Unlock(r)
    BY <1>5 DEF Unlock
  <1>6. CASE Preview(r)
    BY <1>6 DEF Preview
  <1>7. CASE IssueSession(r)
    BY <1>7 DEF IssueSession
  <1>8. CASE ConfirmPrecheck(r)
    BY <1>8 DEF ConfirmPrecheck
  <1>9. CASE AppendCheck(r)
    BY <1>9 DEF AppendCheck
  <1>10. CASE MarkSession(r)
    BY <1>10 DEF MarkSession
  <1>11. CASE ConsumeRead(r)
    BY <1>11 DEF ConsumeRead
  <1>12. CASE ConsumeWrite(r)
    BY <1>12 DEF ConsumeWrite
  <1>13. CASE ReadFails(r)
    BY <1>13 DEF ReadFails
  <1> QED
    BY <1>1, <1>2, <1>3, <1>4, <1>5, <1>6, <1>7, <1>8, <1>9, <1>10, <1>11, <1>12,
       <1>13 DEF Step

(* No step announces a success before the end. *)
LEMMA AnswerNext == TypeInv /\ AnswerInv /\ [Next]_vars => AnswerInv'
  <1> SUFFICES ASSUME TypeOK, PhaseInv, AnswerInv, [Next]_vars PROVE AnswerInv'
    BY DEF TypeInv
  <1>1. CASE \E r \in Requests : Step(r)
    <2>1. PICK r \in Requests : Step(r)
      BY <1>1
    <2> QED
      BY <2>1, ThreadStep, AnswerStep DEF AnswerInv
  <1>2. CASE \E r \in Requests : Submit(r)
    <2>1. PICK r \in Requests : Submit(r)
      BY <1>2
    <2>2. result' = result
      BY <2>1 DEF Submit
    <2> QED
      BY <2>1, <2>2, SubmitStep DEF AnswerInv
  <1>3. CASE Crash
    BY <1>3 DEF Crash, AnswerInv, TypeOK
  <1>4. CASE (\E t \in Tokens : Expire(t)) \/ UNCHANGED vars
    BY <1>4 DEF Expire, threads, vars, AnswerInv
  <1> QED
    BY <1>1, <1>2, <1>3, <1>4 DEF Next

(* Two threads inside at once have both been noted; a change that was written
   by a thread alone is in the draft and in every text a thread may still write
   in its place. *)
OverlapInv ==
  /\ \A r, q \in Inside : r # q => r \in overlapped
  /\ \A r \in Inside : pc[r] # "create" => seen[r].exists
  /\ ~draft.exists => draft = Unread
  /\ \A r \in Mutators : Written(r) /\ r \notin overlapped =>
       /\ Contains(draft, r)
       /\ \A q \in Inside : pc[q] # "create" /\ Contains(seen[q], r)

(* Nobody is inside when the server starts. *)
LEMMA OverlapInit == Init => OverlapInv
  BY DEF Init, OverlapInv, Inside, Written, Mutators, Unasked, Unread, Empty

(* A thread comes in with the draft it has just read, keeps that text while it
   is inside, and replaces the draft only on its way out. *)
LEMMA InsideStep ==
  ASSUME TypeOK, NEW r \in Requests, Step(r)
  PROVE  /\ r \notin Inside /\ r \in Inside' =>
              /\ draft' = draft
              /\ pc'[r] = "create" => ~draft.exists
              /\ pc'[r] # "create" => draft.exists /\ seen'[r] = draft
              /\ Inside # {} => overlapped' = overlapped \cup Inside \cup {r}
         /\ r \in Inside /\ r \in Inside' =>
              /\ draft' = draft /\ seen'[r] = seen[r]
              /\ pc[r] # "create" /\ pc'[r] # "create"
         /\ draft' # draft => r \in Inside /\ r \notin Inside'
         /\ overlapped \subseteq overlapped'
  <1> USE DEF TypeOK, files, locks, threads, history, Goto, Answer, Raise, Inside
  <1>1. CASE CreateLock(r)
    BY <1>1 DEF CreateLock, Enter
  <1>2. CASE CreateWrite(r)
    BY <1>2 DEF CreateWrite
  <1>3. CASE CommitLock(r)
    BY <1>3 DEF CommitLock, Enter
  <1>4. CASE CommitWrite(r)
    BY <1>4 DEF CommitWrite
  <1>5. CASE Unlock(r)
    BY <1>5 DEF Unlock
  <1>6. CASE Preview(r)
    BY <1>6 DEF Preview
  <1>7. CASE IssueSession(r)
    BY <1>7 DEF IssueSession
  <1>8. CASE ConfirmPrecheck(r)
    BY <1>8 DEF ConfirmPrecheck
  <1>9. CASE AppendCheck(r)
    BY <1>9 DEF AppendCheck
  <1>10. CASE MarkSession(r)
    BY <1>10 DEF MarkSession
  <1>11. CASE ConsumeRead(r)
    BY <1>11 DEF ConsumeRead
  <1>12. CASE ConsumeWrite(r)
    BY <1>12 DEF ConsumeWrite
  <1>13. CASE ReadFails(r)
    BY <1>13 DEF ReadFails
  <1> QED
    BY <1>1, <1>2, <1>3, <1>4, <1>5, <1>6, <1>7, <1>8, <1>9, <1>10, <1>11, <1>12,
       <1>13 DEF Step

(* A step of a thread keeps what was written by threads that were alone. *)
LEMMA OverlapStep ==
  ASSUME TypeOK, PhaseInv, AnswerInv, OverlapInv, NEW r \in Requests, Step(r)
  PROVE  OverlapInv'
  <1>1. request' = request /\ Mutators' = Mutators
    BY ThreadStep DEF Mutators
  <1>2. \A q \in Requests \ {r} :
          /\ q \in Inside' <=> q \in Inside
          /\ pc'[q] = pc[q] /\ seen'[q] = seen[q] /\ Written(q)' = Written(q)
    BY ThreadStep DEF Inside, Written
  <1>3. \A p, q \in Inside' : p # q => p \in overlapped'
    BY <1>2, InsideStep DEF OverlapInv, Inside
  <1>4. \A q \in Inside' : pc'[q] # "create" => seen'[q].exists
    BY <1>2, InsideStep DEF OverlapInv, Inside
  <1>5. ~draft'.exists => draft' = Unread
    <2>1. CASE draft' = draft
      BY <2>1 DEF OverlapInv
    <2>2. CASE draft' = Empty
      BY <2>2 DEF Empty
    <2>3. CASE /\ pc[r] = "write"
               /\ WriteDraft(r, seen[r].revision + 1, seen[r].revision + 1)
      BY <2>3 DEF OverlapInv, Inside, WriteDraft
    <2> QED
      BY <2>1, <2>2, <2>3, TextStep
  <1>6. ASSUME NEW p \in Mutators, Written(p)', p \notin overlapped'
        PROVE  /\ Contains(draft', p)
               /\ \A q \in Inside' : pc'[q] # "create" /\ Contains(seen'[q], p)
    <2>1. CASE Written(p)
      <3>1. p \notin overlapped
        BY <1>6, InsideStep
      <3>2. /\ Contains(draft, p) /\ draft.exists
            /\ \A q \in Inside : pc[q] # "create" /\ Contains(seen[q], p)
        BY <2>1, <3>1 DEF OverlapInv, Contains, Unread, Mutators
      <3>3. Contains(draft', p)
        <4>1. CASE draft' = draft
          BY <3>2, <4>1
        <4>2. CASE pc[r] = "create"
          BY <3>2, <4>2 DEF Inside
        <4>3. CASE /\ pc[r] = "write"
                   /\ WriteDraft(r, seen[r].revision + 1, seen[r].revision + 1)
          BY <3>2, <4>3 DEF Inside, WriteDraft, Contains, TypeOK, Drafts, Mutators
        <4> QED
          BY <4>1, <4>2, <4>3, TextStep
      <3>4. \A q \in Inside' : pc'[q] # "create" /\ Contains(seen'[q], p)
        <4> SUFFICES ASSUME NEW q \in Inside'
                     PROVE  pc'[q] # "create" /\ Contains(seen'[q], p)
          OBVIOUS
        <4>1. CASE q # r
          BY <1>2, <3>2, <4>1 DEF Inside
        <4>2. CASE q = r /\ r \in Inside
          BY <3>2, <4>2, InsideStep
        <4>3. CASE q = r /\ r \notin Inside
          BY <3>2, <4>3, InsideStep
        <4> QED
          BY <4>1, <4>2, <4>3
      <3> QED
        BY <3>3, <3>4
    <2>2. CASE ~Written(p)
      <3>1. p = r
        BY <1>2, <1>6, <2>2 DEF Mutators
      <3>2. /\ pc[r] = "write"
            /\ WriteDraft(r, seen[r].revision + 1, seen[r].revision + 1)
        BY <1>6, <2>2, <3>1, AnswerStep
      <3>3. Contains(draft', r)
        BY <3>2 DEF WriteDraft, Contains, TypeOK, Drafts
      <3>4. r \in Inside /\ r \notin overlapped
        BY <1>6, <3>1, <3>2, InsideStep DEF Inside
      <3>5. \A q \in Inside : q = r
        BY <3>4 DEF OverlapInv
      <3>6. r \notin Inside'
        BY <1>6, <3>1, AnswerStep DEF Written, Inside
      <3> QED
        BY <1>2, <3>1, <3>3, <3>5, <3>6 DEF Inside
    <2> QED
      BY <2>1, <2>2
  <1> QED
    BY <1>1, <1>3, <1>4, <1>5, <1>6 DEF OverlapInv

(* No step loses what was written by threads that were alone. *)
LEMMA OverlapNext ==
  TypeInv /\ AnswerInv /\ OverlapInv /\ [Next]_vars => OverlapInv'
  <1> SUFFICES ASSUME TypeOK, PhaseInv, AnswerInv, OverlapInv, [Next]_vars
               PROVE  OverlapInv'
    BY DEF TypeInv
  <1>1. CASE \E r \in Requests : Step(r)
    BY <1>1, OverlapStep
  <1>2. CASE \E r \in Requests : Submit(r)
    <2>1. PICK r \in Requests : Submit(r)
      BY <1>2
    <2>2. draft' = draft /\ result' = result /\ seen' = seen /\ overlapped' = overlapped
      BY <2>1 DEF Submit, files, history
    <2>3. r \notin Inside' /\ r \notin Inside /\ ~Written(r)'
      BY <2>1, <2>2, SubmitStep DEF AnswerInv, Written, Inside
    <2>4. \A q \in Requests \ {r} :
            /\ pc'[q] = pc[q] /\ request'[q] = request[q]
            /\ Written(q)' = Written(q) /\ (q \in Mutators)' = (q \in Mutators)
      BY <2>1, <2>2, SubmitStep DEF Written, Mutators
    <2>5. Inside' = Inside
      BY <2>3, <2>4 DEF Inside
    <2>6. \A p \in Mutators' : Written(p)' => p \in Mutators /\ Written(p)
      BY <2>3, <2>4 DEF Mutators
    <2>7. \A q \in Inside : pc'[q] = pc[q]
      BY <2>3, <2>4 DEF Inside
    <2> QED
      BY <2>2, <2>5, <2>6, <2>7 DEF OverlapInv
  <1>3. CASE Crash
    <2>1. draft' = draft /\ Mutators' = Mutators /\ overlapped' = overlapped
      BY <1>3 DEF Crash, files, Mutators
    <2>2. Inside' = {}
      BY <1>3, CrashStep DEF Inside
    <2>3. \A q \in Requests : Written(q)' => Written(q)
      BY <1>3 DEF Crash, Written, TypeOK
    <2> QED
      BY <2>1, <2>2, <2>3 DEF OverlapInv, Mutators
  <1>4. CASE (\E t \in Tokens : Expire(t)) \/ UNCHANGED vars
    BY <1>4
    DEF Expire, files, locks, threads, history, vars, OverlapInv, Inside, Written, Mutators
  <1> QED
    BY <1>1, <1>2, <1>3, <1>4 DEF Next

(* In any wiring of stores and through any number of crashes: what a client was
   told succeeded is in the draft, unless its request was inside a commit or a
   create together with another. *)
THEOREM LostByOverlapOnly == Spec => []LostOnlyInOverlap
  <1>1. OverlapInv => LostOnlyInOverlap
    BY DEF OverlapInv, LostOnlyInOverlap, Written
  <1> QED
    BY TypeInit, TypeInvNext, AnswerInit, AnswerNext, OverlapInit, OverlapNext, <1>1,
       PTL DEF Spec

-------------------------------------------------------------------------------
(* The rest holds when all requests go through one store object: then one lock
   orders the commits, and what a thread has read under it is the draft. *)
Critical == {"create", "append", "mark", "write", "unlock"}

LockInv ==
  /\ \A r \in Requests : pc[r] \in Critical => lock[StoreOf[r]] = r
  /\ \A r \in Requests : pc[r] \in {"append", "mark", "write"} =>
       /\ seen[r] = draft /\ draft.exists
       /\ draft.revision = request[r].expected
  /\ \A r \in Requests : pc[r] = "create" => ~draft.exists
  /\ ~draft.exists => draft = Unread

(* A mutation whose thread has written it is in the draft, at the revision its
   client is told. *)
AckInv ==
  \A r \in Mutators : Written(r) => draft.at[r] = RevisionGiven(r)

(* A text that some thread has read is what the draft was at its revision. *)
PrefixInv ==
  \A r \in Requests :
    /\ seen[r].revision <= draft.revision
    /\ seen[r].at = TextBefore(draft, seen[r].revision + 1)

(* At most one thread is in a critical phase. *)
LEMMA Exclusion ==
  ASSUME SharedStore, TypeOK, LockInv,
         NEW r \in Requests, NEW q \in Requests, pc[r] \in Critical, pc[q] \in Critical
  PROVE  r = q
  BY DEF SharedStore, LockInv

(* Entering a critical phase takes the lock, and only its holder releases it. *)
LEMMA LockStep ==
  ASSUME SharedStore, TypeOK, LockInv, NEW r \in Requests, Step(r)
  PROVE  \A q \in Requests : pc'[q] \in Critical => lock'[StoreOf[q]] = q
  <1> USE StoreAssumption
      DEF TypeOK, files, locks, threads, Goto, Answer, Raise, Critical, LockInv
  <1>1. CASE pc[r] \in Critical /\ pc[r] # "unlock"
    <2>1. lock' = lock
      BY <1>1
      DEF Step, CreateLock, CreateWrite, CommitLock, CommitWrite, Unlock, Preview,
          IssueSession, ConfirmPrecheck, AppendCheck, MarkSession, ConsumeRead,
          ConsumeWrite, ReadFails
    <2> QED
      BY <1>1, <2>1, ThreadStep
  <1>2. CASE pc[r] = "unlock"
    <2>1. Unlock(r)
      BY <1>2
      DEF Step, CreateLock, CreateWrite, CommitLock, CommitWrite, Preview,
          IssueSession, ConfirmPrecheck, AppendCheck, MarkSession, ConsumeRead,
          ConsumeWrite, ReadFails
    <2>2. \A q \in Requests \ {r} : pc[q] \notin Critical
      BY <1>2, Exclusion
    <2> QED
      BY <2>1, <2>2 DEF Unlock
  <1>3. CASE CreateLock(r) \/ CommitLock(r)
    <2>1. lock[StoreOf[r]] = Nobody /\ lock' = [lock EXCEPT ![StoreOf[r]] = r]
      BY <1>3 DEF CreateLock, CommitLock
    <2>2. \A q \in Requests \ {r} : pc[q] \notin Critical
      BY <2>1 DEF SharedStore
    <2> QED
      BY <2>1, <2>2, ThreadStep
  <1>4. CASE /\ pc[r] \notin Critical
             /\ ~CreateLock(r) /\ ~CommitLock(r)
    <2>1. lock' = lock /\ pc'[r] \notin Critical
      BY <1>4
      DEF Step, CreateWrite, CommitWrite, Unlock, Preview,
          IssueSession, ConfirmPrecheck, AppendCheck, MarkSession, ConsumeRead,
          ConsumeWrite, ReadFails
    <2> QED
      BY <2>1, ThreadStep
  <1> QED
    BY <1>1, <1>2, <1>3, <1>4 DEF CreateLock, CommitLock

(* A step that enters or stays in a commit has read the draft that is there. *)
LEMMA ReadStep ==
  ASSUME SharedStore, TypeOK, LockInv, NEW r \in Requests, Step(r)
  PROVE  /\ pc'[r] \in {"append", "mark", "write"} =>
              /\ seen'[r] = draft' /\ draft'.exists
              /\ draft'.revision = request'[r].expected
         /\ pc'[r] = "create" => ~draft'.exists
         /\ draft' # draft =>
              /\ pc[r] \in {"create", "write"} /\ draft'.exists
              /\ pc[r] = "write" =>
                    WriteDraft(r, draft.revision + 1, draft.revision + 1)
  <1> USE DEF TypeOK, files, locks, threads, Goto, Answer, Raise, LockInv
  <1>1. CASE CreateLock(r)
    BY <1>1 DEF CreateLock
  <1>2. CASE CreateWrite(r)
    BY <1>2 DEF CreateWrite, Empty
  <1>3. CASE CommitLock(r)
    BY <1>3 DEF CommitLock
  <1>4. CASE CommitWrite(r)
    BY <1>4 DEF CommitWrite, WriteDraft
  <1>5. CASE Unlock(r)
    BY <1>5 DEF Unlock
  <1>6. CASE Preview(r)
    BY <1>6 DEF Preview
  <1>7. CASE IssueSession(r)
    BY <1>7 DEF IssueSession
  <1>8. CASE ConfirmPrecheck(r)
    BY <1>8 DEF ConfirmPrecheck
  <1>9. CASE AppendCheck(r)
    BY <1>9 DEF AppendCheck
  <1>10. CASE MarkSession(r)
    BY <1>10 DEF MarkSession
  <1>11. CASE ConsumeRead(r)
    BY <1>11 DEF ConsumeRead
  <1>12. CASE ConsumeWrite(r)
    BY <1>12 DEF ConsumeWrite
  <1>13. CASE ReadFails(r)
    BY <1>13 DEF ReadFails
  <1> QED
    BY <1>1, <1>2, <1>3, <1>4, <1>5, <1>6, <1>7, <1>8, <1>9, <1>10, <1>11, <1>12,
       <1>13 DEF Step

(* Nobody is inside a commit when the server starts. *)
LEMMA LockInit == Init => LockInv
  BY DEF Init, LockInv, Critical, Unread, Empty

(* With one lock table, a thread inside a commit holds the lock and has
   read the draft that is still on disk. *)
LEMMA LockNext ==
  ASSUME SharedStore
  PROVE  TypeInv /\ LockInv /\ [Next]_vars => LockInv'
  <1> SUFFICES ASSUME TypeOK, PhaseInv, LockInv, [Next]_vars PROVE LockInv'
    BY DEF TypeInv
  <1>1. CASE \E r \in Requests : Step(r)
    <2>1. PICK r \in Requests : Step(r)
      BY <1>1
    <2>2. request' = request
      BY <2>1, ThreadStep
    <2>3. ASSUME NEW q \in Requests \ {r}, pc[q] \in Critical
          PROVE  draft' = draft
      <3>1. pc[r] \notin Critical
        BY <2>3, Exclusion
      <3> QED
        BY <2>1, <3>1, ReadStep DEF Critical
    <2>4. ASSUME NEW q \in Requests, pc'[q] \in {"append", "mark", "write"}
          PROVE  /\ seen'[q] = draft' /\ draft'.exists
                 /\ draft'.revision = request'[q].expected
      <3>1. CASE q = r
        BY <2>1, <2>4, <3>1, ReadStep
      <3>2. CASE q # r
        <4>1. pc[q] = pc'[q] /\ seen'[q] = seen[q]
          BY <2>1, <3>2, ThreadStep
        <4>2. draft' = draft
          BY <2>3, <2>4, <3>2, <4>1 DEF Critical
        <4> QED
          BY <2>2, <2>4, <4>1, <4>2 DEF LockInv
      <3> QED
        BY <3>1, <3>2
    <2>5. ASSUME NEW q \in Requests, pc'[q] = "create"
          PROVE  ~draft'.exists
      <3>1. CASE q = r
        BY <2>1, <2>5, <3>1, ReadStep
      <3>2. CASE q # r
        <4>1. pc[q] = "create"
          BY <2>1, <2>5, <3>2, ThreadStep
        <4>2. draft' = draft
          BY <2>3, <3>2, <4>1 DEF Critical
        <4> QED
          BY <4>1, <4>2 DEF LockInv
      <3> QED
        BY <3>1, <3>2
    <2>6. ~draft'.exists => draft' = Unread
      BY <2>1, ReadStep DEF LockInv
    <2>7. \A q \in Requests : pc'[q] \in Critical => lock'[StoreOf[q]] = q
      BY <2>1, LockStep
    <2> QED
      BY <2>4, <2>5, <2>6, <2>7 DEF LockInv
  <1>2. CASE \E r \in Requests : Submit(r)
    <2>1. PICK r \in Requests : Submit(r)
      BY <1>2
    <2>2. draft' = draft /\ seen' = seen /\ lock' = lock
      BY <2>1 DEF Submit, files, locks
    <2>3. pc'[r] \notin Critical
      BY <2>1, SubmitStep DEF Critical
    <2>4. \A q \in Requests \ {r} : pc'[q] = pc[q] /\ request'[q] = request[q]
      BY <2>1, SubmitStep
    <2> QED
      BY <2>2, <2>3, <2>4 DEF LockInv, Critical
  <1>3. CASE Crash
    <2>1. draft' = draft
      BY <1>3 DEF Crash, files
    <2>2. \A q \in Requests : pc'[q] \notin Critical
      BY <1>3, CrashStep DEF Critical
    <2> QED
      BY <2>1, <2>2 DEF LockInv, Critical
  <1>4. CASE (\E t \in Tokens : Expire(t)) \/ UNCHANGED vars
    BY <1>4 DEF Expire, files, locks, threads, vars, LockInv
  <1> QED
    BY <1>1, <1>2, <1>3, <1>4 DEF Next

(* No mutation is written when the server starts. *)
LEMMA AckInit == Init => AckInv
  BY DEF Init, AckInv, Written, Mutators

(* A write adds one entry to the draft it has read, and leaves the others. *)
LEMMA SharedWrite ==
  ASSUME SharedStore, TypeOK, LockInv, NEW r \in Requests, Step(r), draft' # draft
  PROVE  \/ draft.at = draft'.at /\ draft.revision = draft'.revision
         \/ /\ pc[r] = "write" /\ draft'.revision = draft.revision + 1
            /\ seen[r] = draft
            /\ \A q \in Requests :
                 draft'.at[q] = IF q = r THEN draft.revision + 1 ELSE draft.at[q]
  <1>1. CASE pc[r] = "create"
    BY <1>1, TextStep DEF LockInv, Unread, Empty
  <1>2. CASE pc[r] = "write"
    <2>1. seen[r] = draft /\ draft \in Drafts
      BY <1>2 DEF LockInv, TypeOK
    <2>2. WriteDraft(r, draft.revision + 1, draft.revision + 1)
      BY <1>2, ReadStep
    <2> QED
      BY <1>2, <2>1, <2>2 DEF WriteDraft, Drafts
  <1> QED
    BY <1>1, <1>2, ReadStep

(* A mutation in the draft stays there, as commits read the draft they replace. *)
LEMMA AckNext ==
  ASSUME SharedStore
  PROVE  TypeInv /\ LockInv /\ AnswerInv /\ AckInv /\ [Next]_vars => AckInv'
  <1> SUFFICES ASSUME TypeOK, PhaseInv, LockInv, AnswerInv, AckInv, [Next]_vars
               PROVE  AckInv'
    BY DEF TypeInv
  <1>1. CASE \E r \in Requests : Step(r)
    <2>1. PICK r \in Requests : Step(r)
      BY <1>1
    <2>2. request' = request /\ Mutators' = Mutators
      BY <2>1, ThreadStep DEF Mutators
    <2>3. ASSUME NEW q \in Mutators, Written(q)'
          PROVE  draft'.at[q] = RevisionGiven(q)'
      <3>1. CASE Written(q)
        <4>1. pc[q] # "write" /\ draft.at[q] = RevisionGiven(q)
          BY <3>1 DEF AckInv, AnswerInv, Written, Mutators
        <4>2. seen'[q] = seen[q]
          <5>1. pc[q] \in Done
            BY <3>1 DEF Written, AnswerInv, Done, Mutators
          <5> QED
            BY <2>1, <5>1, ThreadStep, TextStep DEF Mutators
        <4>3. draft'.at[q] = draft.at[q]
          BY <2>1, <4>1, SharedWrite DEF Mutators
        <4> QED
          BY <4>1, <4>2, <4>3 DEF RevisionGiven
      <3>2. CASE ~Written(q)
        <4>1. q = r
          BY <2>1, <2>3, <3>2, ThreadStep DEF Written, Mutators
        <4>2. /\ pc[r] = "write"
              /\ WriteDraft(r, seen[r].revision + 1, seen[r].revision + 1)
          BY <2>1, <2>3, <3>2, <4>1, AnswerStep
        <4>3. seen'[r] = seen[r]
          BY <2>1, <4>2, TextStep
        <4> QED
          BY <4>1, <4>2, <4>3 DEF RevisionGiven, WriteDraft, TypeOK, Drafts
      <3> QED
        BY <3>1, <3>2
    <2> QED
      BY <2>2, <2>3 DEF AckInv
  <1>2. CASE \E r \in Requests : Submit(r)
    <2>1. PICK r \in Requests : Submit(r)
      BY <1>2
    <2>2. draft' = draft /\ result' = result /\ seen' = seen
      BY <2>1 DEF Submit, files
    <2>3. ~Written(r)'
      BY <2>1, <2>2, SubmitStep DEF AnswerInv, Written
    <2>4. \A q \in Requests \ {r} :
            Written(q)' = Written(q) /\ (q \in Mutators)' = (q \in Mutators)
      BY <2>1, <2>2, SubmitStep DEF Written, Mutators
    <2> QED
      BY <2>2, <2>3, <2>4 DEF AckInv, Mutators, RevisionGiven
  <1>3. CASE Crash
    <2>1. draft' = draft /\ Mutators' = Mutators /\ seen' = seen
      BY <1>3 DEF Crash, files, Mutators
    <2>2. \A q \in Requests : Written(q)' => Written(q)
      BY <1>3 DEF Crash, Written, TypeOK
    <2> QED
      BY <2>1, <2>2 DEF AckInv, RevisionGiven, Mutators
  <1>4. CASE (\E t \in Tokens : Expire(t)) \/ UNCHANGED vars
    <2>1. /\ draft' = draft /\ request' = request /\ pc' = pc /\ result' = result
          /\ seen' = seen
      BY <1>4 DEF Expire, files, threads, vars
    <2> QED
      BY <2>1 DEF AckInv, Mutators, Written, RevisionGiven
  <1> QED
    BY <1>1, <1>2, <1>3, <1>4 DEF Next

(* When all requests share one store object, what the client was told succeeded
   is in the draft, for ever: the promise of FileDraftStore.commit. *)
THEOREM SharedStoreLosesNothing == ASSUME SharedStore PROVE Spec => []NoLostUpdate
  <1>1. TypeInv /\ AckInv => NoLostUpdate
    BY DEF TypeInv, TypeOK, Drafts, AckInv, NoLostUpdate, Written, Mutators, Contains,
           RevisionGiven
  <1>2. TypeInv /\ LockInv /\ [Next]_vars => LockInv'
    BY LockNext
  <1>3. TypeInv /\ LockInv /\ AnswerInv /\ AckInv /\ [Next]_vars => AckInv'
    BY AckNext
  <1> QED
    BY TypeInit, TypeInvNext, LockInit, AnswerInit, AnswerNext, AckInit, <1>1, <1>2, <1>3,
       PTL DEF Spec

(* When all requests share one store object, each revision of the draft was made
   by exactly one mutation, which is still in the text, and no two successful
   mutations were told the same revision. *)
THEOREM HistoryComplete == ASSUME SharedStore PROVE Spec => []OneMutationPerRevision
  <1>1. TypeInv /\ HistoryInv /\ AckInv => OneMutationPerRevision
    <2> SUFFICES ASSUME TypeInv, HistoryInv, AckInv PROVE OneMutationPerRevision
      OBVIOUS
    <2>1. draft \in Drafts /\ seen \in [Requests -> Drafts]
      BY DEF TypeInv, TypeOK
    <2>2. ASSUME NEW n \in 1 .. draft.revision
          PROVE  \E r \in Mutators : \A q \in Requests : draft.at[q] = n <=> q = r
      <3>1. PICK r \in Requests : draft.at[r] = n
        BY DEF HistoryInv, TextOK
      <3>2. r \in Mutators
        BY <2>1, <3>1 DEF HistoryInv, TextOK, Mutators, Drafts
      <3>3. \A q \in Requests : draft.at[q] = n <=> q = r
        BY <2>1, <3>1 DEF HistoryInv, TextOK, Drafts
      <3> QED
        BY <3>2, <3>3
    <2>3. ASSUME NEW r \in Mutators, NEW q \in Mutators, r # q,
                 result[r] = "ok", result[q] = "ok"
          PROVE  RevisionGiven(r) # RevisionGiven(q)
      <3>1. draft.at[r] = RevisionGiven(r) /\ draft.at[q] = RevisionGiven(q)
        BY <2>3 DEF AckInv, Written
      <3>2. draft.at[r] # 0
        BY <2>1, <3>1 DEF RevisionGiven, Drafts, Mutators
      <3> QED
        BY <2>3, <3>1, <3>2 DEF HistoryInv, TextOK, Mutators
    <2> QED
      BY <2>2, <2>3 DEF OneMutationPerRevision
  <1>2. TypeInv /\ LockInv /\ [Next]_vars => LockInv'
    BY LockNext
  <1>3. TypeInv /\ LockInv /\ AnswerInv /\ AckInv /\ [Next]_vars => AckInv'
    BY AckNext
  <1> QED
    BY TypeInit, TypeInvNext, LockInit, AnswerInit, AnswerNext, AckInit, HistoryInit,
       HistoryNext, <1>1, <1>2, <1>3, PTL DEF Spec

-------------------------------------------------------------------------------
(* The text a preview examined, and the text its import is appended to. *)

(* A preview that is about to issue a session has read the draft at the revision
   the client quoted, and the session it issued names the revision it read. *)
PreviewInv ==
  \A t \in Requests :
    /\ pc[t] = "issue" => seen[t].revision = request[t].expected
    /\ session[t].exists =>
         pc[t] = "answered" /\ session[t].expected = seen[t].revision

(* At the start no session was issued, and no text was read. *)
LEMMA PreviewInit == Init => PreviewInv /\ PrefixInv
  <1> SUFFICES ASSUME Init PROVE PreviewInv /\ PrefixInv
    OBVIOUS
  <1>1. draft.revision = 0 /\ draft.at = [r \in Requests |-> 0]
    BY DEF Init, Unread, Empty
  <1>2. \A r \in Requests : seen[r].revision = 0 /\ seen[r].at = [q \in Requests |-> 0]
    BY DEF Init, Unread
  <1>3. PrefixInv
    BY <1>1, <1>2 DEF PrefixInv, TextBefore
  <1> QED
    BY <1>3 DEF Init, PreviewInv, NoSession, Tokens

(* Only the preview of a token issues its session. *)
LEMMA SessionStep ==
  ASSUME TypeOK, PhaseInv, NEW r \in Requests, Step(r),
         NEW t \in Requests, pc[t] # "answered"
  PROVE  \/ session'[t] = session[t]
         \/ t = r /\ pc[r] = "issue" /\ session'[t] = Issued(r) /\ pc'[r] = "answered"
  <1> USE DEF TypeOK, files, locks, Answer, Goto, Tokens, PhaseInv, ConfirmPhases
  <1>1. CASE session' = session
    BY <1>1
  <1>2. CASE IssueSession(r)
    BY <1>2 DEF IssueSession
  <1>3. CASE MarkSession(r)
    BY <1>3 DEF MarkSession
  <1>4. CASE ConsumeWrite(r)
    BY <1>4 DEF ConsumeWrite
  <1> QED
    BY <1>1, <1>2, <1>3, <1>4
    DEF Step, CreateLock, CreateWrite, CommitLock, CommitWrite, Unlock, Preview,
        ConfirmPrecheck, AppendCheck, ConsumeRead, ReadFails

(* A session names the revision its preview read, in any wiring. *)
LEMMA PreviewNext ==
  TypeInv /\ HistoryInv /\ SessionInv /\ PreviewInv /\ [Next]_vars => PreviewInv'
  <1> SUFFICES ASSUME TypeOK, PhaseInv, SessionInv, PreviewInv, [Next]_vars
               PROVE  PreviewInv'
    BY DEF TypeInv
  <1>1. CASE \E r \in Requests : Step(r)
    <2>1. PICK r \in Requests : Step(r)
      BY <1>1
    <2>2. request' = request
      BY <2>1, ThreadStep
    <2>3. ASSUME NEW t \in Requests, pc'[t] = "issue"
          PROVE  seen'[t].revision = request[t].expected
      <3>1. CASE t = r
        <4>1. Preview(r)
          BY <2>1, <2>3, <3>1, ThreadStep
          DEF Step, CreateLock, CreateWrite, CommitLock, CommitWrite, Unlock,
              IssueSession, ConfirmPrecheck, AppendCheck, MarkSession, ConsumeRead,
              ConsumeWrite, ReadFails, Answer, Goto, TypeOK
        <4> QED
          BY <2>3, <3>1, <4>1 DEF Preview, Answer, Goto, TypeOK
      <3>2. CASE t # r
        BY <2>1, <2>3, <3>2, ThreadStep DEF PreviewInv
      <3> QED
        BY <3>1, <3>2
    <2>4. ASSUME NEW t \in Requests, session'[t].exists
          PROVE  pc'[t] = "answered" /\ session'[t].expected = seen'[t].revision
      <3>1. CASE pc[t] = "answered"
        <4>1. t # r
          BY <2>1, <3>1, ThreadStep
        <4>2. session'[t].exists = session[t].exists /\ session'[t].expected = session[t].expected
          BY <2>1, <3>1, SessionKept
        <4> QED
          BY <2>1, <2>4, <3>1, <4>1, <4>2, ThreadStep DEF PreviewInv
      <3>2. CASE pc[t] # "answered"
        <4>1. t = r /\ pc[r] = "issue" /\ session'[t] = Issued(r) /\ pc'[r] = "answered"
          BY <2>1, <2>4, <3>2, SessionStep DEF PreviewInv
        <4>2. seen'[r] = seen[r]
          BY <2>1, <4>1
          DEF Step, CreateLock, CreateWrite, CommitLock, CommitWrite, Unlock, Preview,
              IssueSession, ConfirmPrecheck, AppendCheck, MarkSession, ConsumeRead,
              ConsumeWrite, ReadFails
        <4> QED
          BY <4>1, <4>2 DEF PreviewInv, Issued
      <3> QED
        BY <3>1, <3>2
    <2> QED
      BY <2>2, <2>3, <2>4 DEF PreviewInv
  <1>2. CASE \E r \in Requests : Submit(r)
    <2>1. PICK r \in Requests : Submit(r)
      BY <1>2
    <2>2. session' = session /\ seen' = seen
      BY <2>1 DEF Submit, files
    <2> QED
      BY <2>1, <2>2, SubmitStep DEF PreviewInv
  <1>3. CASE Crash
    <2>1. session' = session /\ seen' = seen /\ request' = request
      BY <1>3 DEF Crash, files
    <2> QED
      BY <1>3, <2>1, CrashStep DEF PreviewInv
  <1>4. CASE (\E t \in Tokens : Expire(t)) \/ UNCHANGED vars
    BY <1>4 DEF Expire, files, threads, vars, PreviewInv
  <1> QED
    BY <1>1, <1>2, <1>3, <1>4 DEF Next

(* With one lock table the draft only grows at its end. *)
LEMMA PrefixNext ==
  ASSUME SharedStore
  PROVE  TypeInv /\ LockInv /\ HistoryInv /\ PrefixInv /\ [Next]_vars => PrefixInv'
  <1> SUFFICES ASSUME TypeOK, PhaseInv, LockInv, HistoryInv, PrefixInv, [Next]_vars
               PROVE  PrefixInv'
    BY DEF TypeInv
  <1>1. CASE \E r \in Requests : Step(r)
    <2>1. PICK r \in Requests : Step(r)
      BY <1>1
    <2>2. /\ draft \in Drafts /\ draft' \in Drafts
          /\ seen \in [Requests -> Drafts] /\ seen' \in [Requests -> Drafts]
      BY <2>1, TypeStep DEF TypeOK
    <2>3. \A q \in Requests : draft.at[q] \in 0 .. draft.revision
      BY DEF HistoryInv, TextOK
    <2>4. TextBefore(draft, draft.revision + 1) = draft.at
      <3>1. \A q \in Requests : draft.at[q] < draft.revision + 1
        BY <2>2, <2>3 DEF Drafts
      <3> QED
        BY <2>2, <3>1 DEF TextBefore, Drafts
    <2>5. \A q \in Requests :
            /\ seen'[q].revision <= draft.revision
            /\ seen'[q].at = TextBefore(draft, seen'[q].revision + 1)
      BY <2>1, <2>2, <2>4, TextStep DEF PrefixInv, Drafts
    <2>6. ASSUME NEW n \in Nat, n <= draft.revision
          PROVE  /\ n <= draft'.revision
                 /\ TextBefore(draft', n + 1) = TextBefore(draft, n + 1)
      <3>1. CASE draft.at = draft'.at /\ draft.revision = draft'.revision
        BY <2>6, <3>1 DEF TextBefore
      <3>2. CASE /\ pc[r] = "write" /\ draft'.revision = draft.revision + 1
                 /\ \A q \in Requests :
                      draft'.at[q] = IF q = r THEN draft.revision + 1 ELSE draft.at[q]
        <4>1. draft.at[r] = 0
          BY <3>2 DEF HistoryInv, TextOK, Done
        <4>2. draft.revision \in Nat
          BY <2>2 DEF Drafts
        <4>3. \A q \in Requests : (IF draft'.at[q] < n + 1 THEN draft'.at[q] ELSE 0) =
                                  (IF draft.at[q] < n + 1 THEN draft.at[q] ELSE 0)
          BY <2>6, <3>2, <4>1, <4>2
        <4> QED
          BY <2>6, <3>2, <4>2, <4>3 DEF TextBefore
      <3> QED
        BY <2>1, <3>1, <3>2, SharedWrite
    <2>7. \A q \in Requests : seen'[q].revision \in Nat
      BY <2>2 DEF Drafts
    <2> QED
      BY <2>5, <2>6, <2>7 DEF PrefixInv
  <1>2. CASE ~ \E r \in Requests : Step(r)
    <2>1. draft' = draft /\ seen' = seen
      BY <1>2 DEF Next, vars, Submit, Expire, Crash, files, threads
    <2> QED
      BY <2>1 DEF PrefixInv, TextBefore
  <1> QED
    BY <1>1, <1>2

(* When all requests share one store object, and through any number of crashes:
   below an import the draft holds what its preview examined, and nothing else. *)
THEOREM ImportsOnPreviewedDraft ==
  ASSUME SharedStore PROVE Spec => []ImportLandsOnPreviewedDraft
  <1>1. TypeInv /\ SessionInv /\ PreviewInv /\ PrefixInv => ImportLandsOnPreviewedDraft
    <2> SUFFICES ASSUME TypeInv, SessionInv, PreviewInv, PrefixInv,
                        NEW c \in ImportsIn(draft)
                 PROVE  LET examined == seen[request[c].token] IN
                        /\ draft.at[c] = examined.revision + 1
                        /\ examined.at = TextBefore(draft, draft.at[c])
      BY DEF ImportLandsOnPreviewedDraft
    <2> DEFINE t == request[c].token
    <2>1. c \in Requests /\ request[c].kind = "confirm" /\ draft.at[c] # 0
      BY DEF ImportsIn, Contains
    <2>2. t \in Requests
      BY <2>1 DEF TypeInv, PhaseInv
    <2>3. session[t].exists /\ draft.at[c] = session[t].expected + 1
      BY <2>1 DEF SessionInv, SpentIn, Promised
    <2>4. session[t].expected = seen[t].revision
      BY <2>2, <2>3 DEF PreviewInv
    <2> QED
      BY <2>2, <2>3, <2>4 DEF PrefixInv
  <1>2. TypeInv /\ LockInv /\ [Next]_vars => LockInv'
    BY LockNext
  <1>3. TypeInv /\ LockInv /\ HistoryInv /\ PrefixInv /\ [Next]_vars => PrefixInv'
    BY PrefixNext
  <1> QED
    BY TypeInit, TypeInvNext, LockInit, HistoryInit, HistoryNext, SessionInit, SessionNext,
       PreviewInit, PreviewNext, <1>1, <1>2, <1>3, PTL DEF Spec

-------------------------------------------------------------------------------
(* The refinement: every step of the store is a step of the register. *)

(* A server starts with revision 0 and nothing acknowledged. *)
LEMMA RegisterInit == Init => Register!Init
  <1> SUFFICES ASSUME Init PROVE Register!Init
    OBVIOUS
  <1>0. Unread.exists = FALSE /\ Empty.exists = TRUE
    BY DEF Unread, Empty
  <1>1. draft.exists \in BOOLEAN
    BY <1>0 DEF Init
  <1>5. draft.revision = 0
    BY DEF Init, Unread, Empty
  <1>2. draft.at = [r \in Requests |-> 0]
    BY DEF Init, Unread, Empty
  <1>3. [r \in Requests |-> request[r].expected] = [r \in Requests |-> 0]
    BY DEF Init, Unasked
  <1>4. {r \in Mutators : result[r] = "ok"} = {}
    BY DEF Init, Mutators
  <1> QED
    BY <1>1, <1>2, <1>3, <1>4, <1>5 DEF Register!Init

(* Sending a request is a choice of base revision, or a stutter. *)
LEMMA RegisterSubmit ==
  ASSUME TypeOK, AnswerInv, HistoryInv, NEW r \in Requests, Submit(r)
  PROVE  Register!Base(r)
  <1>1. draft' = draft /\ result' = result
    BY DEF Submit, files
  <1>2. draft.at[r] = 0
    BY SubmitStep DEF HistoryInv, TextOK, Done
  <1>3. \A q \in Requests \ {r} : request'[q] = request[q]
    BY SubmitStep
  <1>4. result[r] = "none"
    BY SubmitStep DEF AnswerInv
  <1>5. {q \in Mutators' : result'[q] = "ok"} = {q \in Mutators : result[q] = "ok"}
    BY <1>1, <1>3, <1>4 DEF Mutators
  <1>6. request'[r].expected \in 0 .. draft.revision
    BY DEF Submit, TypeOK
  <1>7. [q \in Requests |-> request'[q].expected] =
          [[q \in Requests |-> request[q].expected] EXCEPT ![r] = request'[r].expected]
    BY <1>3
  <1> QED
    BY <1>1, <1>2, <1>5, <1>6, <1>7 DEF Register!Base

(* A step of a thread creates the register, commits, acknowledges or stutters. *)
LEMMA RegisterStep ==
  ASSUME SharedStore, TypeOK, PhaseInv, LockInv, AnswerInv, AckInv, HistoryInv,
         NEW r \in Requests, Step(r)
  PROVE  \/ Register!Create \/ Register!Commit(r) \/ Register!Acknowledge(r)
         \/ UNCHANGED Register!vars
  <1>1. request' = request /\ Mutators' = Mutators
    BY ThreadStep DEF Mutators
  <1>2. CASE draft' # draft
    <2>1. /\ result'[r] # "ok" /\ result[r] # "ok"
          /\ \A q \in Requests \ {r} : result'[q] = result[q]
      BY <1>2, ThreadStep, AnswerStep, TextStep DEF AnswerInv
    <2>2. {q \in Mutators' : result'[q] = "ok"} = {q \in Mutators : result[q] = "ok"}
      BY <1>1, <2>1 DEF Mutators
    <2>3. CASE pc[r] = "create"
      <3>1. draft = Unread /\ draft' = Empty
        BY <1>2, <2>3, TextStep DEF LockInv
      <3> QED
        BY <1>1, <2>2, <3>1 DEF Register!Create, Unread, Empty
    <2>4. CASE pc[r] = "write"
      <3>1. seen[r] = draft /\ draft.exists /\ draft.revision = request[r].expected
        BY <2>4 DEF LockInv
      <3>2. WriteDraft(r, draft.revision + 1, draft.revision + 1)
        BY <1>2, <2>4, ReadStep
      <3>3. draft.at[r] = 0
        BY <2>4 DEF HistoryInv, TextOK, Done
      <3> QED
        BY <1>1, <2>2, <3>1, <3>2, <3>3 DEF Register!Commit, WriteDraft
    <2> QED
      BY <1>2, <2>3, <2>4, ReadStep
  <1>3. CASE draft' = draft
    <2>1. \A q \in Requests \ {r} : result'[q] = result[q]
      BY ThreadStep
    <2>2. CASE r \in Mutators /\ result'[r] = "ok"
      <3>1. Written(r)'
        BY <2>2 DEF Written
      <3>2. draft.at[r] # 0
        <4>1. seen[r].revision + 1 # 0 /\ draft \in Drafts /\ seen[r] \in Drafts
          BY DEF TypeOK, Drafts
        <4>2. CASE Written(r)
          BY <1>1, <2>2, <4>1, <4>2 DEF AckInv, RevisionGiven
        <4>3. CASE WriteDraft(r, seen[r].revision + 1, seen[r].revision + 1)
          BY <1>3, <4>1, <4>3 DEF WriteDraft, Drafts
        <4> QED
          BY <1>1, <2>2, <3>1, <4>2, <4>3, AnswerStep
      <3>3. {q \in Mutators' : result'[q] = "ok"} =
              {q \in Mutators : result[q] = "ok"} \cup {r}
        BY <1>1, <2>1, <2>2 DEF Mutators
      <3> QED
        BY <1>1, <1>3, <3>2, <3>3 DEF Register!Acknowledge
    <2>3. CASE ~(r \in Mutators /\ result'[r] = "ok")
      <3>1. result[r] # "ok"
        BY ThreadStep DEF AnswerInv
      <3>2. {q \in Mutators' : result'[q] = "ok"} = {q \in Mutators : result[q] = "ok"}
        BY <1>1, <2>1, <2>3, <3>1 DEF Mutators
      <3> QED
        BY <1>1, <1>3, <3>2 DEF Register!vars
    <2> QED
      BY <2>2, <2>3
  <1> QED
    BY <1>2, <1>3

(* Every step of the store is a step of the register or a stutter. *)
LEMMA RegisterNext ==
  ASSUME SharedStore
  PROVE  TypeInv /\ LockInv /\ AnswerInv /\ AckInv /\ HistoryInv /\ [Next]_vars
           => [Register!Next]_(Register!vars)
  <1> SUFFICES ASSUME TypeOK, PhaseInv, LockInv, AnswerInv, AckInv, HistoryInv, [Next]_vars
               PROVE  [Register!Next]_(Register!vars)
    BY DEF TypeInv
  <1>1. CASE \E r \in Requests : Step(r)
    BY <1>1, RegisterStep DEF Register!Next
  <1>2. CASE \E r \in Requests : Submit(r)
    BY <1>2, RegisterSubmit DEF Register!Next
  <1>3. CASE Crash
    <2>1. draft' = draft /\ request' = request /\ Mutators' = Mutators
      BY <1>3 DEF Crash, files, Mutators
    <2>2. \A q \in Requests : result'[q] = "ok" <=> result[q] = "ok"
      BY <1>3 DEF Crash, AnswerInv
    <2>3. {q \in Mutators' : result'[q] = "ok"} = {q \in Mutators : result[q] = "ok"}
      BY <2>1, <2>2 DEF Mutators
    <2> QED
      BY <2>1, <2>3 DEF Register!vars
  <1>4. CASE (\E t \in Tokens : Expire(t)) \/ UNCHANGED vars
    BY <1>4 DEF Expire, files, threads, vars, Register!vars, Mutators
  <1> QED
    BY <1>1, <1>2, <1>3, <1>4 DEF Next

(* Seen from its callers a shared FileDraftStore is the atomic register: each
   commit compares and replaces in one step, and nothing committed is undone. *)
THEOREM SharedStoreIsRegister == ASSUME SharedStore PROVE Spec => ImplementsRegister
  <1>1. TypeInv /\ LockInv /\ [Next]_vars => LockInv'
    BY LockNext
  <1>2. TypeInv /\ LockInv /\ AnswerInv /\ AckInv /\ [Next]_vars => AckInv'
    BY AckNext
  <1>3. TypeInv /\ LockInv /\ AnswerInv /\ AckInv /\ HistoryInv /\ [Next]_vars
          => [Register!Next]_(Register!vars)
    BY RegisterNext
  <1> QED
    BY TypeInit, TypeInvNext, LockInit, AnswerInit, AnswerNext, AckInit, HistoryInit, HistoryNext, RegisterInit,
       <1>1, <1>2, <1>3, PTL DEF Spec, ImplementsRegister, Register!Spec
===============================================================================
