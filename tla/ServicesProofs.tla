------------------------------ MODULE ServicesProofs ------------------------------
(***************************************************************************)
(* What the services promise, for every number of requests, processes and  *)
(* turns.  In this order: the turns of a conversation (the message, thread,*)
(* trace and polls of each turn, and the summary against the messages that *)
(* were sent), the queries, the evaluation runs, feedback, the ontology    *)
(* tables, and the services side by side.                                  *)
(***************************************************************************)
EXTENDS Services, FiniteSetTheorems, WellFoundedInduction, TLAPS

-------------------------------------------------------------------------------
(* The greatest of the turns *)

LEMMA HasLeast ==
  ASSUME NEW S, S \subseteq Nat, S # {}
  PROVE  \E x \in S : \A y \in S : x <= y
  <1> DEFINE R == {ss \in Nat \X Nat : ss[1] < ss[2]}
  <1>1. OpToRel(<, Nat) = R
    BY Zenon DEF OpToRel
  <1>2. IsWellFoundedOn(R, Nat)
    BY <1>1, NatLessThanWellFounded, Zenon
  <1> HIDE DEF R
  <1>3. PICK x \in S : \A y \in S : ~(<<y, x>> \in R)
    BY <1>2, WFMin, Zenon
  <1>4. ASSUME NEW y \in S
        PROVE  x <= y
    <2>1. <<y, x>> \in Nat \X Nat /\ <<y, x>>[1] = y /\ <<y, x>>[2] = x
      OBVIOUS
    <2>2. y < x => <<y, x>> \in R
      BY <2>1, Zenon DEF R
    <2>3. y \in Nat /\ x \in Nat
      OBVIOUS
    <2> QED
      BY <1>3, <2>2, <2>3
  <1> QED
    BY <1>4

LEMMA LastIsGreatest ==
  ASSUME NEW S, S \subseteq Turns, S # {}
  PROVE  Last(S) \in S /\ \A j \in S : j <= Last(S)
  <1> DEFINE n == Cardinality(Turns)
             D == {n - k : k \in S}
  <1>1. n \in Nat /\ S \subseteq 1 .. n
    BY TurnsAssumption, FS_CardinalityType
  <1> HIDE DEF n
  <1>6. \A k \in S : n - k \in Nat
    BY <1>1
  <1>2. D \subseteq Nat /\ D # {}
    BY <1>6
  <1>3. PICK d \in D : \A e \in D : d <= e
    BY <1>2, HasLeast
  <1>4. PICK k \in S : d = n - k
    BY <1>3
  <1>5. ASSUME NEW j \in S
        PROVE  j <= k
    <2>1. n - j \in D /\ j \in Nat /\ k \in Nat
      BY <1>1
    <2>2. n - k <= n - j
      BY <1>3, <1>4, <2>1
    <2> QED
      BY <1>1, <2>1, <2>2
  <1> QED
    BY <1>5 DEF Last

-------------------------------------------------------------------------------
(* The messages that were sent are numbered without a gap. *)
SentInOrder == Sent = 1 .. Cardinality(Sent)

(* A summary whose boundary leaves the recent ones of n messages raw, and that
   holds or excuses every answer behind it. *)
WholeFor(s, n) ==
  /\ s.through = 0 \/ s.through + KeepRecent <= n
  /\ \A k \in 1 .. s.through : k \in s.covers \cup s.open

(* What a turn's message r, thread th, outcome o, trace tr, poll p and the verdicts
   told have to do with each other, unless its polls are excused. *)
Sound(r, th, o, tr, p, told_, ex) ==
  /\ r = "none" <=> th = "unsent"
  /\ th \in {"sent", "start", "compact", "agent", "record"} => r \in {"placeholder", "deleted"}
  /\ th = "saved" => r \in {o, "deleted"}
  /\ th \in {"unsent", "sent", "done", "dead"} => tr = "none"
  /\ th \in {"start", "compact", "agent", "saved"} => tr = "generating"
  /\ th = "record" => tr = "failed"
  /\ th = "clear" => tr \in Verdicts
  /\ tr = "success" => r \in {"success", "deleted"}
  /\ tr = "failed" => r # "success"
  /\ ~ex => /\ p = "none" => th \in {"done", "dead"}
            /\ p = "failed" \/ "failed" \in told_ =>
                 r # "success" /\ th \in {"record", "clear", "done", "dead"}
            /\ p = "success" \/ "success" \in told_ => r \in {"success", "deleted"}
            /\ ~("success" \in told_ /\ "failed" \in told_)

SoundTurn(t) == Sound(row[t], thread[t], memory[t].outcome, trace[t], poll[t], told[t], t \in excused)

TurnsInv ==
  /\ ConversationTypeOK
  /\ \A t \in Turns : SoundTurn(t)
  /\ SentInOrder
  /\ WholeFor(summary, Cardinality(Sent))
  /\ \A t \in Turns : WholeFor(memory[t].local, Cardinality(Sent))

LEMMA NumbersAreNat ==
  /\ Cardinality(Turns) \in Nat /\ Turns = 1 .. Cardinality(Turns) /\ Turns \subseteq Nat
  /\ Numbers \subseteq Nat /\ Turns \subseteq Numbers /\ 0 \in Numbers
  /\ IsFiniteSet(Sent) /\ Cardinality(Sent) \in Nat /\ Cardinality(Sent) <= Cardinality(Turns)
  <1>1. Cardinality(Turns) \in Nat /\ Turns = 1 .. Cardinality(Turns)
    BY TurnsAssumption, FS_CardinalityType
  <1>2. Sent \in SUBSET Turns
    BY DEF Sent
  <1> QED
    BY <1>1, <1>2, TurnsAssumption, FS_Subset, FS_CardinalityType DEF Numbers

LEMMA EmptyIsWhole ==
  ASSUME NEW n \in Nat
  PROVE  WholeFor(NoSummary, n) /\ NoSummary \in Summaries /\ NoMemory \in Memories /\ NoMemory.local = NoSummary
  BY NumbersAreNat DEF WholeFor, NoSummary, Summaries, NoMemory, Memories, Verdicts

LEMMA WholeForMore ==
  ASSUME NEW s \in Summaries, NEW n \in Nat, NEW m \in Nat, n <= m, WholeFor(s, n)
  PROVE  WholeFor(s, m)
  <1>1. s.through \in Nat /\ KeepRecent \in Nat
    BY NumbersAreNat, TurnsAssumption DEF Summaries
  <1> QED
    BY <1>1 DEF WholeFor

(* Compaction makes a whole summary of a whole one (ContextAssembler.assemble). *)
LEMMA CompactedIsWhole ==
  ASSUME TurnsInv, NEW t \in Turns, thread[t] = "start", Prefix(t) # {}
  PROVE  Compacted(t) \in Summaries /\ WholeFor(Compacted(t), Cardinality(Sent))
  <1> DEFINE n == Cardinality(Sent)
             last == Last(Prefix(t))
             recent == {j \in Active(t) : j >= last}
  <1>1. Prefix(t) \subseteq Active(t) /\ Active(t) \subseteq Turns
    BY DEF Prefix, Active
  <1>2. /\ last \in Prefix(t) /\ last \in Turns /\ last \in Active(t)
        /\ summary.through < last
    BY <1>1, LastIsGreatest DEF Active
  <1>3. n \in Nat /\ summary \in Summaries /\ summary.through \in Nat /\ last \in Nat
    BY <1>2, NumbersAreNat DEF TurnsInv, ConversationTypeOK, Summaries
  <1>4. IsFiniteSet(Active(t))
    BY <1>1, TurnsAssumption, FS_Subset
  <1>5. last + KeepRecent <= n
    <2>1. recent \subseteq last .. n
      <3>1. \A j \in Active(t) : row[j] # "none" /\ j \in Turns
        BY DEF Active
      <3>2. \A j \in Active(t) : j \in Sent
        BY <3>1 DEF TurnsInv, SoundTurn, Sound, Sent
      <3>3. Sent = 1 .. n
        BY DEF TurnsInv, SentInOrder
      <3> QED
        BY <1>3, <3>2, <3>3
    <2>2. Cardinality(recent) > KeepRecent
      BY <1>2 DEF Prefix
    <2> HIDE DEF last, n
    <2>6. last \in Int /\ n \in Int
      BY <1>3
    <2>3. /\ IsFiniteSet(last .. n)
          /\ Cardinality(last .. n) = IF last > n THEN 0 ELSE n - last + 1
      BY <2>6, FS_Interval
    <2>4. Cardinality(recent) <= Cardinality(last .. n)
      BY <2>1, <2>3, FS_Subset
    <2>5. Cardinality(recent) \in Nat
      BY <1>4, FS_Subset, FS_CardinalityType
    <2> QED
      BY <1>3, <2>2, <2>3, <2>4, <2>5, TurnsAssumption
  <1>6. ASSUME NEW k \in 1 .. last
        PROVE  k \in Compacted(t).covers \cup Compacted(t).open
    <2>1. CASE k <= summary.through
      <3>1. k \in summary.covers \cup summary.open
        BY <1>3, <2>1 DEF TurnsInv, WholeFor
      <3> QED
        BY <3>1 DEF Compacted
    <2>2. CASE k > summary.through /\ k \notin Answered
      BY <1>3, <2>2 DEF Compacted
    <2>3. CASE k > summary.through /\ k \in Answered
      <3>1. k \in Turns /\ row[k] \in Verdicts
        BY <2>3 DEF Answered
      <3>2. row[t] \in {"placeholder", "deleted"}
        BY DEF TurnsInv, SoundTurn, Sound
      <3>3. k \in Active(t)
        BY <2>3, <3>1, <3>2 DEF Active, Verdicts
      <3> DEFINE behind == {j \in Active(t) : j >= k}
      <3>4. recent \subseteq behind
        BY <1>1, <1>3, <3>1, NumbersAreNat
      <3>5. IsFiniteSet(behind) /\ Cardinality(behind) \in Nat /\ Cardinality(recent) \in Nat
        BY <1>4, FS_Subset, FS_CardinalityType
      <3>6. Cardinality(recent) <= Cardinality(behind)
        BY <3>4, <3>5, FS_Subset
      <3>7. Cardinality(recent) > KeepRecent
        BY <1>2 DEF Prefix
      <3>8. k \in Prefix(t)
        BY <3>3, <3>5, <3>6, <3>7, TurnsAssumption DEF Prefix
      <3> QED
        BY <2>3, <3>8 DEF Compacted
    <2> QED
      BY <1>3, <2>1, <2>2, <2>3
  <1>7. Compacted(t) \in Summaries
    <2>1. summary.covers \cup (Prefix(t) \cap Answered) \in SUBSET Turns
      BY <1>1, <1>3 DEF Summaries
    <2>2. {k \in summary.through + 1 .. last : k \notin Answered} \subseteq Turns
      BY <1>2, <1>3, NumbersAreNat
    <2>3. last \in Numbers
      BY <1>2, NumbersAreNat
    <2> QED
      BY <1>3, <2>1, <2>2, <2>3 DEF Summaries, Compacted
  <1>8. Compacted(t).through = last
    BY DEF Compacted
  <1> HIDE DEF last, n
  <1> QED
    BY <1>5, <1>6, <1>7, <1>8 DEF WholeFor, n

-------------------------------------------------------------------------------
LEMMA TurnsInitInv ==
  ASSUME ConversationInit
  PROVE  TurnsInv
  <1> USE DEF ConversationInit
  <1>1. ConversationTypeOK
    BY EmptyIsWhole, NumbersAreNat, TurnsAssumption
      DEF ConversationTypeOK, Rows, Phases, Statuses
  <1>2. \A t \in Turns : SoundTurn(t)
    BY DEF SoundTurn, Sound, NoPoll, Verdicts
  <1>3. Sent = Earlier
    BY TurnsAssumption DEF Sent
  <1>4. SentInOrder
    BY <1>3, TurnsAssumption DEF SentInOrder
  <1>5. \A t \in Turns : memory[t].local = NoSummary
    BY EmptyIsWhole
  <1> QED
    BY <1>1, <1>2, <1>4, <1>5, EmptyIsWhole, NumbersAreNat DEF TurnsInv

(* Nothing of the other turns has changed. *)
OnlyTurn(t) ==
  \A k \in Turns \ {t} :
    /\ row'[k] = row[k] /\ thread'[k] = thread[k] /\ memory'[k] = memory[k]
    /\ trace'[k] = trace[k] /\ poll'[k] = poll[k] /\ told'[k] = told[k]
    /\ k \in excused' <=> k \in excused

LEMMA OneTurn ==
  ASSUME \A k \in Turns : SoundTurn(k), NEW t \in Turns, OnlyTurn(t), SoundTurn(t)'
  PROVE  \A k \in Turns : SoundTurn(k)'
  <1> SUFFICES ASSUME NEW k \in Turns, k # t
               PROVE  SoundTurn(k)'
    OBVIOUS
  <1>1. SoundTurn(k)
    OBVIOUS
  <1> QED
    BY <1>1 DEF OnlyTurn, SoundTurn, Sound

LEMMA SoundStays ==
  ASSUME TurnsInv, ConversationNext
  PROVE  \A k \in Turns : SoundTurn(k)'
  <1>0. ConversationTypeOK /\ \A k \in Turns : SoundTurn(k)
    BY DEF TurnsInv
  <1> USE <1>0
  <1> USE DEF ConversationTypeOK, Goto, SetTrace, Forget, Abort, database, clients, Memories, NoMemory
  <1>1. ASSUME NEW t \in Turns, Send(t)
        PROVE  OnlyTurn(t) /\ SoundTurn(t)'
    BY <1>1 DEF Send, OnlyTurn, SoundTurn, Sound
  <1>2. ASSUME NEW t \in Turns, Register(t)
        PROVE  OnlyTurn(t) /\ SoundTurn(t)'
    BY <1>2 DEF Register, OnlyTurn, SoundTurn, Sound
  <1>3. ASSUME NEW t \in Turns, Prepare(t)
        PROVE  OnlyTurn(t) /\ SoundTurn(t)'
    BY <1>3 DEF Prepare, OnlyTurn, SoundTurn, Sound, Verdicts
  <1>4. ASSUME NEW t \in Turns, CommitCompaction(t)
        PROVE  OnlyTurn(t) /\ SoundTurn(t)'
    BY <1>4 DEF CommitCompaction, OnlyTurn, SoundTurn, Sound
  <1>5. ASSUME NEW t \in Turns, Fails(t)
        PROVE  OnlyTurn(t) /\ SoundTurn(t)'
    BY <1>5 DEF Fails, OnlyTurn, SoundTurn, Sound
  <1>6. ASSUME NEW t \in Turns, SaveAnswer(t)
        PROVE  OnlyTurn(t) /\ SoundTurn(t)'
    BY <1>6 DEF SaveAnswer, OnlyTurn, SoundTurn, Sound, Verdicts
  <1>7. ASSUME NEW t \in Turns, SetOutput(t)
        PROVE  OnlyTurn(t) /\ SoundTurn(t)'
    BY <1>7 DEF SetOutput, OnlyTurn, SoundTurn, Sound, Verdicts
  <1>8. ASSUME NEW t \in Turns, RecordFailure(t)
        PROVE  OnlyTurn(t) /\ SoundTurn(t)'
    BY <1>8 DEF RecordFailure, OnlyTurn, SoundTurn, Sound, Verdicts
  <1>9. ASSUME NEW t \in Turns, ClearTrace(t)
        PROVE  OnlyTurn(t) /\ SoundTurn(t)'
    BY <1>9 DEF ClearTrace, OnlyTurn, SoundTurn, Sound, Verdicts
  <1>10. ASSUME NEW t \in Turns, NEW p \in Processes, PollMemory(t, p)
         PROVE  OnlyTurn(t) /\ SoundTurn(t)'
    <2>1. OnlyTurn(t)
      BY <1>10 DEF PollMemory, OnlyTurn
    <2>2. UNCHANGED <<row, thread, memory, trace, told>> /\ thread[t] # "unsent"
      BY <1>10 DEF PollMemory
    <2>3. CASE p # Home[t] \/ thread[t] = "sent"
      <3>1. t \in excused'
        BY <1>10, <2>3 DEF PollMemory
      <3> QED
        BY <2>1, <2>2, <3>1 DEF SoundTurn, Sound
    <2>4. CASE p = Home[t] /\ thread[t] # "sent"
      <3>1. poll'[t] = trace[t] /\ excused' = excused
        BY <1>10, <2>4 DEF PollMemory
      <3>2. thread[t] \in Phases
        OBVIOUS
      <3> QED
        BY <2>1, <2>2, <2>4, <3>1, <3>2 DEF SoundTurn, Sound, Phases, Verdicts
    <2> QED
      BY <2>3, <2>4
  <1>11. ASSUME NEW t \in Turns, PollRow(t)
         PROVE  OnlyTurn(t) /\ SoundTurn(t)'
    BY <1>11 DEF PollRow, Verdict, OnlyTurn, SoundTurn, Sound, Verdicts, Rows, Statuses, NoPoll
  <1>12. ASSUME Delete, NEW k \in Turns
         PROVE  SoundTurn(k)'
    BY <1>12 DEF Delete, SoundTurn, Sound, Verdicts
  <1>13. ASSUME NEW p \in Processes, Crash(p), NEW k \in Turns
         PROVE  SoundTurn(k)'
    BY <1>13 DEF Crash, SoundTurn, Sound, Verdicts
  <1> QED
    BY <1>1, <1>2, <1>3, <1>4, <1>5, <1>6, <1>7, <1>8, <1>9, <1>10, <1>11, <1>12, <1>13, OneTurn
      DEF ConversationNext, ThreadStep

LEMMA ConversationTypes ==
  ASSUME TurnsInv, ConversationNext
  PROVE  ConversationTypeOK'
  <1>0. ConversationTypeOK
    BY DEF TurnsInv
  <1> USE DEF ConversationTypeOK, Goto, SetTrace, Forget, Abort, database, clients
  <1>1. ASSUME NEW t \in Turns, Send(t) \/ Register(t) \/ SetOutput(t) \/ RecordFailure(t) \/ ClearTrace(t)
        PROVE  ConversationTypeOK'
    <2>1. /\ row' \in [Turns -> Rows] /\ thread' \in [Turns -> Phases]
      BY <1>0, <1>1 DEF Send, Register, SetOutput, RecordFailure, ClearTrace, Rows, Phases
    <2>2. memory' \in [Turns -> Memories]
      BY <1>0, <1>1, EmptyIsWhole, NumbersAreNat DEF Send, Register, SetOutput, RecordFailure, ClearTrace
    <2>3. trace' \in [Turns -> Statuses]
      BY <1>0, <1>1 DEF Send, Register, SetOutput, RecordFailure, ClearTrace, Statuses, Verdicts, Memories
    <2> QED
      BY <1>0, <1>1, <2>1, <2>2, <2>3 DEF Send, Register, SetOutput, RecordFailure, ClearTrace
  <1>2. ASSUME NEW t \in Turns, Prepare(t)
        PROVE  ConversationTypeOK'
    <2>1. memory' \in [Turns -> Memories]
      <3>1. CASE memory' = memory
        BY <1>0, <3>1
      <3>2. CASE /\ thread[t] = "start" /\ Prefix(t) # {}
                 /\ memory' = [memory EXCEPT ![t].local = Compacted(t)]
        BY <1>0, <3>2, CompactedIsWhole DEF Memories
      <3>3. CASE memory' = [memory EXCEPT ![t].loaded = TRUE]
        BY <1>0, <3>3 DEF Memories
      <3> QED
        BY <1>2, <3>1, <3>2, <3>3 DEF Prepare
    <2>2. thread' \in [Turns -> Phases] /\ trace' \in [Turns -> Statuses]
      BY <1>0, <1>2 DEF Prepare, Phases, Statuses
    <2> QED
      BY <1>0, <1>2, <2>1, <2>2 DEF Prepare
  <1>3. ASSUME NEW t \in Turns, CommitCompaction(t) \/ Fails(t)
        PROVE  ConversationTypeOK'
    <2>1. memory' \in [Turns -> Memories] /\ summary' \in Summaries
      BY <1>0, <1>3, EmptyIsWhole, NumbersAreNat DEF CommitCompaction, Fails, Memories
    <2>2. thread' \in [Turns -> Phases] /\ trace' \in [Turns -> Statuses]
      BY <1>0, <1>3 DEF CommitCompaction, Fails, Phases, Statuses
    <2> QED
      BY <1>0, <1>3, <2>1, <2>2 DEF CommitCompaction, Fails
  <1>4. ASSUME NEW t \in Turns, SaveAnswer(t)
        PROVE  ConversationTypeOK'
    <2>1. memory' \in [Turns -> Memories]
      <3>1. ASSUME NEW v \in Verdicts
            PROVE  [NoMemory EXCEPT !.outcome = v] \in Memories
        BY EmptyIsWhole, NumbersAreNat DEF Memories, NoMemory
      <3> QED
        BY <1>0, <1>4, <3>1, EmptyIsWhole, NumbersAreNat DEF SaveAnswer
    <2>2. thread' \in [Turns -> Phases] /\ trace' \in [Turns -> Statuses] /\ row' \in [Turns -> Rows]
      BY <1>0, <1>4 DEF SaveAnswer, Phases, Statuses, Rows, Verdicts
    <2> QED
      BY <1>0, <1>4, <2>1, <2>2 DEF SaveAnswer
  <1>5. ASSUME NEW t \in Turns, NEW p \in Processes, PollMemory(t, p)
        PROVE  ConversationTypeOK'
    BY <1>0, <1>5 DEF PollMemory, Statuses
  <1>6. ASSUME NEW t \in Turns, PollRow(t)
        PROVE  ConversationTypeOK'
    BY <1>0, <1>6 DEF PollRow, NoPoll
  <1>7. ASSUME Delete
        PROVE  ConversationTypeOK'
    BY <1>0, <1>7 DEF Delete, Rows
  <1>8. ASSUME NEW p \in Processes, Crash(p)
        PROVE  ConversationTypeOK'
    <2>1. memory' \in [Turns -> Memories]
      BY <1>0, <1>8, EmptyIsWhole, NumbersAreNat DEF Crash
    <2>2. thread' \in [Turns -> Phases] /\ trace' \in [Turns -> Statuses]
      BY <1>0, <1>8 DEF Crash, Phases, Statuses
    <2>3. crashes' \in 0 .. MaxCrashes
      BY <1>0, <1>8, TurnsAssumption DEF Crash
    <2> QED
      BY <1>0, <1>8, <2>1, <2>2, <2>3 DEF Crash
  <1> QED
    BY <1>1, <1>2, <1>3, <1>4, <1>5, <1>6, <1>7, <1>8 DEF ConversationNext, ThreadStep

LEMMA SentGrows ==
  ASSUME TurnsInv, ConversationNext
  PROVE  /\ SentInOrder'
         /\ Cardinality(Sent') \in Nat /\ Cardinality(Sent) <= Cardinality(Sent')
  <1>0. ConversationTypeOK /\ SentInOrder /\ Cardinality(Sent) \in Nat
    BY NumbersAreNat DEF TurnsInv
  <1>1. CASE \A k \in Turns : thread'[k] = "unsent" <=> thread[k] = "unsent"
    <2>1. Sent' = Sent
      BY <1>1 DEF Sent
    <2> QED
      BY <1>0, <2>1 DEF SentInOrder
  <1>2. ASSUME NEW t \in Turns, Send(t)
        PROVE  /\ SentInOrder'
               /\ Cardinality(Sent') \in Nat /\ Cardinality(Sent) <= Cardinality(Sent')
    <2>1. t \in Nat /\ 0 < t /\ Sent = 1 .. t - 1
      BY <1>2, NumbersAreNat DEF Send
    <2>2. Sent' = Sent \cup {t}
      BY <1>0, <1>2 DEF Send, Goto, Sent, ConversationTypeOK
    <2>3. Sent' = 1 .. t
      BY <2>1, <2>2
    <2>4. 1 \in Int /\ t \in Int /\ t - 1 \in Int
      BY <2>1
    <2>5. Cardinality(Sent') = t /\ Cardinality(Sent) = t - 1
      BY <2>1, <2>3, <2>4, FS_Interval
    <2> QED
      BY <2>1, <2>3, <2>5 DEF SentInOrder
  <1>3. ASSUME NEW t \in Turns, ThreadStep(t)
        PROVE  \A k \in Turns : thread'[k] = "unsent" <=> thread[k] = "unsent"
    BY <1>0, <1>3 DEF ThreadStep, Register, Prepare, CommitCompaction, Fails, SaveAnswer, SetOutput,
      RecordFailure, ClearTrace, Goto, Abort, ConversationTypeOK
  <1>4. ASSUME \/ Delete \/ \E p \in Processes : Crash(p)
               \/ \E t \in Turns : PollRow(t) \/ \E p \in Processes : PollMemory(t, p)
        PROVE  \A k \in Turns : thread'[k] = "unsent" <=> thread[k] = "unsent"
    BY <1>0, <1>4 DEF Delete, Crash, PollRow, PollMemory, ConversationTypeOK
  <1> QED
    BY <1>1, <1>2, <1>3, <1>4 DEF ConversationNext

LEMMA SummariesStayWhole ==
  ASSUME TurnsInv, ConversationNext
  PROVE  /\ WholeFor(summary', Cardinality(Sent))
         /\ \A k \in Turns : WholeFor(memory'[k].local, Cardinality(Sent))
  <1>0. /\ ConversationTypeOK /\ memory \in [Turns -> Memories]
        /\ WholeFor(summary, Cardinality(Sent))
        /\ \A k \in Turns : WholeFor(memory[k].local, Cardinality(Sent))
    BY DEF TurnsInv, ConversationTypeOK
  <1>1. NoMemory.local = NoSummary /\ WholeFor(NoSummary, Cardinality(Sent))
    BY EmptyIsWhole, NumbersAreNat
  <1>2. ASSUME NEW t \in Turns, Prepare(t)
        PROVE  /\ summary' = summary
               /\ \A k \in Turns : memory'[k].local = memory[k].local \/ WholeFor(memory'[k].local, Cardinality(Sent))
    BY <1>0, <1>2, CompactedIsWhole DEF Prepare, database, Memories
  <1>3. ASSUME NEW t \in Turns, CommitCompaction(t)
        PROVE  /\ summary' \in {summary, memory[t].local}
               /\ \A k \in Turns : memory'[k].local \in {memory[k].local, NoSummary}
    BY <1>0, <1>1, <1>3 DEF CommitCompaction, Abort, Forget
  <1>4. ASSUME NEW t \in Turns,
               \/ Send(t) \/ Register(t) \/ Fails(t) \/ SetOutput(t)
               \/ RecordFailure(t) \/ ClearTrace(t) \/ PollRow(t)
               \/ \E p \in Processes : PollMemory(t, p)
        PROVE  summary' = summary /\ \A k \in Turns : memory'[k].local \in {memory[k].local, NoSummary}
    BY <1>0, <1>1, <1>4 DEF Send, Register, Fails, SetOutput, RecordFailure, ClearTrace, PollRow,
      PollMemory, Abort, Forget, database, Memories
  <1>5. ASSUME Delete \/ \E p \in Processes : Crash(p)
        PROVE  summary' = summary /\ \A k \in Turns : memory'[k].local \in {memory[k].local, NoSummary}
    BY <1>0, <1>1, <1>5 DEF Delete, Crash, database
  <1>6. ASSUME NEW t \in Turns, SaveAnswer(t)
        PROVE  summary' = summary /\ \A k \in Turns : memory'[k].local \in {memory[k].local, NoSummary}
    <2>1. \A v \in Verdicts : [NoMemory EXCEPT !.outcome = v].local = NoSummary
      BY DEF NoMemory
    <2> QED
      BY <1>0, <1>1, <1>6, <2>1 DEF SaveAnswer, Abort, Forget
  <1> QED
    BY <1>0, <1>1, <1>2, <1>3, <1>4, <1>5, <1>6 DEF ConversationNext, ThreadStep

LEMMA TurnsStep ==
  ASSUME TurnsInv, [ConversationNext]_conversationVars
  PROVE  TurnsInv'
  <1>1. CASE ConversationNext
    <2>1. ConversationTypeOK' /\ SentInOrder' /\ \A k \in Turns : SoundTurn(k)'
      BY <1>1, ConversationTypes, SentGrows, SoundStays
    <2>2. /\ summary' \in Summaries
          /\ \A k \in Turns : memory'[k].local \in Summaries
      BY <2>1 DEF ConversationTypeOK, Memories
    <2>3. /\ WholeFor(summary', Cardinality(Sent'))
          /\ \A k \in Turns : WholeFor(memory'[k].local, Cardinality(Sent'))
      BY <1>1, <2>2, SummariesStayWhole, SentGrows, WholeForMore, NumbersAreNat
    <2> QED
      BY <2>1, <2>3 DEF TurnsInv
  <1>2. CASE UNCHANGED conversationVars
    BY <1>2 DEF conversationVars, TurnsInv, ConversationTypeOK, SoundTurn, SentInOrder, Sent
  <1> QED
    BY <1>1, <1>2

LEMMA SoundTurnsAreFinal ==
  ASSUME TurnsInv
  PROVE  VerdictsAreFinal /\ HistoryIsWhole
  <1>1. VerdictsAreFinal
    BY DEF TurnsInv, SoundTurn, Sound, VerdictsAreFinal
  <1>2. HistoryIsWhole
    BY DEF TurnsInv, WholeFor, HistoryIsWhole, NothingForgotten, RecentStaysRaw
  <1> QED
    BY <1>1, <1>2

(* What clients are told is final and compaction forgets nothing (message_status,
   _generate_async, ContextAssembler.assemble), for every number of turns and
   processes and every number of turns kept raw. *)
THEOREM TurnsAreSound == ConversationSpec => [](VerdictsAreFinal /\ HistoryIsWhole)
  <1>1. ConversationInit => TurnsInv
    BY TurnsInitInv
  <1>2. TurnsInv /\ [ConversationNext]_conversationVars => TurnsInv'
    BY TurnsStep
  <1>3. TurnsInv => VerdictsAreFinal /\ HistoryIsWhole
    BY SoundTurnsAreFinal
  <1> QED
    BY <1>1, <1>2, <1>3, PTL DEF ConversationSpec

-------------------------------------------------------------------------------
(* Evaluation runs *)

(* As long as no two threads were launched: one of them works at most, the run
   reads as running, and what the thread has behind it is decided. *)
InHand(s) ==
  /\ run.status = "running"
  /\ runner[s].phase # "launched" =>
       \A c \in Cases : c < runner[s].case => cases[c].status \in Decided
  /\ runner[s].phase = "mark" => cases[runner[s].case].status \notin Decided
  /\ runner[s].phase = "generating" =>
       cases[runner[s].case].status = "running" /\ runner[s].pinned = run.package
OneRunner ==
  ~doubled =>
    /\ \A s, other \in Starts : Working(s) /\ Working(other) => s = other
    /\ \A s \in Starts : Working(s) => InHand(s)

(* A thread that generates an answer has a case. *)
CaseInHand ==
  \A s \in Starts : runner[s].phase \in {"mark", "generating"} => runner[s].case \in Cases

(* A thread starts with the first case. *)
StartsAtFirst ==
  \A s \in Starts : runner[s].phase \in {"idle", "asked", "launched"} => runner[s].case = 1

(* As long as no two threads were launched, a completed run has decided and counted
   its cases, and their answers name one package. *)
SoundAlone ==
  ~doubled =>
    /\ run.status = "completed" =>
         (\A c \in Cases : cases[c].status \in Decided) /\ run = Counted(cases, run)
    /\ \A c \in Cases : cases[c].status = "completed" => cases[c].package \in {0, run.package}

(* However many threads there are, each has decided the cases behind it, but for
   those another one took up since, or had in hand when it died; and so has a
   completed run. *)
Accounted(c) ==
  cases[c].status \in Decided \/ abandoned \/ \E s \in Starts : TakenUp(s, c)
BehindIsAccounted ==
  /\ \A s \in Starts : runner[s].phase \in {"next", "mark", "generating"} =>
       \A c \in Cases : c < runner[s].case => Accounted(c)
  /\ run.status = "completed" => \A c \in Cases : Accounted(c)

EvaluationInv ==
  /\ EvaluationTypeOK /\ CaseInHand /\ StartsAtFirst
  /\ OneRunner /\ SoundAlone /\ BehindIsAccounted

(* The cases that are in some state are no more than there are. *)
LEMMA AmongType ==
  ASSUME NEW rows, NEW statuses
  PROVE  Among(rows, statuses) \in 0 .. Cardinality(Cases)
  <1> DEFINE S == {c \in Cases : rows[c].status \in statuses}
  <1>1. IsFiniteSet(Cases)
    BY EvaluationAssumption
  <1>2. IsFiniteSet(S) /\ Cardinality(S) <= Cardinality(Cases)
    BY <1>1, FS_Subset
  <1>3. Cardinality(S) \in Nat /\ Cardinality(Cases) \in Nat
    BY <1>1, <1>2, FS_CardinalityType
  <1> QED
    BY <1>2, <1>3 DEF Among

LEMMA CaseNumbers ==
  /\ Cardinality(Cases) \in Nat
  /\ Cases = 1 .. Cardinality(Cases)
  /\ Cardinality(Cases) >= 1
  BY EvaluationAssumption, FS_CardinalityType

LEMMA CountedType ==
  ASSUME NEW rows, NEW r \in Runs
  PROVE  /\ Counted(rows, r) \in Runs
         /\ Counted(rows, r).status = r.status /\ Counted(rows, r).package = r.package
         /\ Counted(rows, Counted(rows, r)) = Counted(rows, r)
         /\ [Counted(rows, r) EXCEPT !.status = "completed"] \in Runs
         /\ LET done == [Counted(rows, r) EXCEPT !.status = "completed"]
            IN done = Counted(rows, done)
  <1>1. /\ Among(rows, Decided) \in 0 .. Cardinality(Cases)
        /\ Among(rows, {"failed"}) \in 0 .. Cardinality(Cases)
    BY AmongType
  <1> QED
    BY <1>1 DEF Counted, Runs

LEMMA EvaluationInitInv ==
  ASSUME EvaluationInit
  PROVE  EvaluationInv
  <1>1. run.status = "pending" /\ \A c \in Cases : cases[c].status = "pending"
    BY DEF EvaluationInit
  <1>2. \A s \in Starts : runner[s].phase = "idle" /\ runner[s].case = 1
    BY DEF EvaluationInit
  <1>3. EvaluationTypeOK
    <2>1. run \in Runs
      BY CaseNumbers DEF EvaluationInit, Runs, Answers
    <2>2. cases \in [Cases -> CaseRows]
      BY DEF EvaluationInit, CaseRows, Answers
    <2>3. runner \in [Starts -> Runners]
      BY CaseNumbers DEF EvaluationInit, Runners, Answers
    <2> QED
      BY <2>1, <2>2, <2>3 DEF EvaluationInit, EvaluationTypeOK
  <1>4. OneRunner /\ StartsAtFirst /\ CaseInHand
    BY <1>2 DEF OneRunner, StartsAtFirst, CaseInHand, Working
  <1>5. SoundAlone
    BY <1>1 DEF SoundAlone
  <1>6. BehindIsAccounted
    BY <1>1, <1>2 DEF BehindIsAccounted
  <1> QED
    BY <1>3, <1>4, <1>5, <1>6 DEF EvaluationInv

RunnersType == runner \in [Starts -> Runners]

LEMMA MovesType ==
  ASSUME RunnersType, NEW s \in Starts, Moves(s, "asked") \/ Moves(s, "launched") \/ Moves(s, "next")
           \/ Moves(s, "mark") \/ Moves(s, "ended")
  PROVE  RunnersType'
  BY DEF RunnersType, Moves, Runners

LEMMA EvaluationTypes ==
  ASSUME EvaluationTypeOK, CaseInHand, EvaluationNext
  PROVE  EvaluationTypeOK'
  <1> USE DEF EvaluationTypeOK, InPhase, Quiet
  <1>0. RunnersType /\ run \in Runs /\ cases \in [Cases -> CaseRows] /\ doubled \in BOOLEAN /\ abandoned \in BOOLEAN
    BY DEF RunnersType
  <1>1. ASSUME NEW s \in Starts, AskStart(s) \/ IgnoredStart(s)
        PROVE  EvaluationTypeOK'
    BY <1>0, <1>1, MovesType DEF AskStart, IgnoredStart, RunnersType
  <1>2. ASSUME NEW s \in Starts, CommitStart(s)
        PROVE  EvaluationTypeOK'
    <2>1. run' \in Runs
      BY <1>2 DEF CommitStart, Runs
    <2>2. RunnersType'
      BY <1>0, <1>2, MovesType DEF CommitStart
    <2> QED
      BY <1>2, <2>1, <2>2 DEF CommitStart, RunnersType
  <1>3. ASSUME NEW s \in Starts, BeginRun(s)
        PROVE  EvaluationTypeOK'
    <2>1. run' \in Runs
      BY <1>3 DEF BeginRun, Runs
    <2>2. RunnersType'
      BY <1>0, <1>3, MovesType DEF BeginRun
    <2>3. cases' \in [Cases -> CaseRows]
      BY <1>3 DEF BeginRun, CaseRows
    <2> QED
      BY <1>3, <2>1, <2>2, <2>3 DEF BeginRun, RunnersType
  <1>4. ASSUME NEW s \in Starts, InspectCase(s)
        PROVE  EvaluationTypeOK'
    <2>1. CASE cases[runner[s].case].status \in Decided
      <3>1. runner[s].case + 1 \in 1 .. Cardinality(Cases) + 1
        BY <1>4, CaseNumbers DEF InspectCase
      <3>2. RunnersType'
        BY <1>0, <1>4, <2>1, <3>1 DEF InspectCase, RunnersType, Runners
      <3> QED
        BY <1>0, <1>4, <3>2 DEF InspectCase, RunnersType
    <2>2. CASE cases[runner[s].case].status \notin Decided
      BY <1>0, <1>4, <2>2, MovesType DEF InspectCase, RunnersType
    <2> QED
      BY <2>1, <2>2
  <1>5. ASSUME NEW s \in Starts, MarkCase(s)
        PROVE  EvaluationTypeOK'
    <2>1. run.package \in Answers
      BY DEF Runs
    <2>2. RunnersType'
      BY <1>0, <1>5, <2>1 DEF MarkCase, RunnersType, Runners
    <2>3. cases' \in [Cases -> CaseRows]
      BY <1>5 DEF MarkCase, CaseRows
    <2> QED
      BY <1>5, <2>2, <2>3 DEF MarkCase, RunnersType
  <1>6. ASSUME NEW s \in Starts, PackageChanged(s)
        PROVE  EvaluationTypeOK'
    <2>1. run' \in Runs
      BY <1>6 DEF PackageChanged, Runs
    <2>2. RunnersType'
      BY <1>0, <1>6, MovesType DEF PackageChanged
    <2>3. cases' \in [Cases -> CaseRows]
      <3>1. PICK p \in Packages : DecideCase(s, "failed", p)
        BY <1>6 DEF PackageChanged
      <3>2. [status |-> "failed", package |-> p] \in CaseRows
        BY DEF CaseRows, Answers, Decided
      <3> QED
        BY <1>0, <3>1, <3>2 DEF DecideCase
    <2> QED
      BY <1>6, <2>1, <2>2, <2>3 DEF PackageChanged, RunnersType
  <1>7. ASSUME NEW s \in Starts, DecidedCase(s)
        PROVE  EvaluationTypeOK'
    <2>1. PICK p \in Answers, status \in Decided :
            /\ DecideCase(s, status, p)
            /\ run' = Counted(cases', IF p # 0 /\ runner[s].pinned = 0
                                      THEN [run EXCEPT !.package = p] ELSE run)
      BY <1>7 DEF DecidedCase
    <2>2. (IF p # 0 /\ runner[s].pinned = 0 THEN [run EXCEPT !.package = p] ELSE run) \in Runs
      BY DEF Runs
    <2>3. run' \in Runs
      BY <2>1, <2>2, CountedType
    <2>4. cases' \in [Cases -> CaseRows]
      BY <2>1 DEF DecideCase, CaseRows
    <2>5. runner[s].case + 1 \in 1 .. Cardinality(Cases) + 1 /\ 0 \in Answers
      BY <1>7, CaseNumbers DEF DecidedCase, CaseInHand, Answers
    <2>6. RunnersType'
      BY <1>0, <1>7, <2>5 DEF DecidedCase, RunnersType, Runners
    <2> QED
      BY <1>7, <2>3, <2>4, <2>6 DEF DecidedCase, RunnersType
  <1>8. ASSUME NEW s \in Starts, CompleteRun(s)
        PROVE  EvaluationTypeOK'
    <2>1. run' \in Runs
      BY <1>8, CountedType DEF CompleteRun
    <2>2. RunnersType'
      BY <1>0, <1>8, MovesType DEF CompleteRun
    <2> QED
      BY <1>8, <2>1, <2>2 DEF CompleteRun, RunnersType
  <1>9. ASSUME NEW s \in Starts, LoseRunner(s)
        PROVE  EvaluationTypeOK'
    BY <1>0, <1>9, MovesType DEF LoseRunner, RunnersType
  <1>10. ASSUME DeleteRun
         PROVE  EvaluationTypeOK'
    <2>1. run' \in Runs
      BY <1>10 DEF DeleteRun, Runs
    <2>2. RunnersType'
      BY <1>0, <1>10 DEF DeleteRun, RunnersType, Runners
    <2> QED
      BY <1>10, <2>1, <2>2 DEF DeleteRun, RunnersType
  <1> QED
    BY <1>1, <1>2, <1>3, <1>4, <1>5, <1>6, <1>7, <1>8, <1>9, <1>10 DEF EvaluationNext, RunnerStep

-------------------------------------------------------------------------------
(* What a step of a thread does to where the threads are. *)
LEMMA MovesOne ==
  ASSUME RunnersType, NEW s \in Starts, NEW phase, Moves(s, phase)
  PROVE  /\ \A other \in Starts : other # s => runner'[other] = runner[other]
         /\ runner'[s] = [runner[s] EXCEPT !.phase = phase]
         /\ runner'[s].phase = phase /\ runner'[s].case = runner[s].case
         /\ runner'[s].pinned = runner[s].pinned
  BY DEF RunnersType, Moves, Runners

LEMMA CaseInHandStays ==
  ASSUME EvaluationTypeOK, CaseInHand, EvaluationNext
  PROVE  CaseInHand'
  <1>0. RunnersType
    BY DEF EvaluationTypeOK, RunnersType
  <1>1. ASSUME NEW s \in Starts, AskStart(s) \/ IgnoredStart(s) \/ CommitStart(s) \/ BeginRun(s)
                 \/ PackageChanged(s) \/ CompleteRun(s) \/ LoseRunner(s)
        PROVE  CaseInHand'
    <2>1. PICK phase \in {"asked", "launched", "next", "ended"} : Moves(s, phase)
      BY <1>1 DEF AskStart, IgnoredStart, CommitStart, BeginRun, PackageChanged, CompleteRun, LoseRunner
    <2>2. /\ \A other \in Starts : other # s => runner'[other] = runner[other]
          /\ runner'[s].phase = phase
      BY <1>0, <2>1, MovesOne
    <2> QED
      BY <2>2 DEF CaseInHand
  <1>2. ASSUME NEW s \in Starts, InspectCase(s)
        PROVE  CaseInHand'
    <2>1. CASE cases[runner[s].case].status \in Decided
      BY <1>0, <1>2, <2>1 DEF InspectCase, InPhase, CaseInHand, RunnersType, Runners
    <2>2. CASE cases[runner[s].case].status \notin Decided
      BY <1>0, <1>2, <2>2, MovesOne DEF InspectCase, CaseInHand
    <2> QED
      BY <2>1, <2>2
  <1>3. ASSUME NEW s \in Starts, MarkCase(s)
        PROVE  CaseInHand'
    BY <1>0, <1>3 DEF MarkCase, InPhase, CaseInHand, RunnersType, Runners
  <1>4. ASSUME NEW s \in Starts, DecidedCase(s)
        PROVE  CaseInHand'
    BY <1>0, <1>4 DEF DecidedCase, CaseInHand, RunnersType, Runners
  <1>5. ASSUME DeleteRun
        PROVE  CaseInHand'
    BY <1>0, <1>5 DEF DeleteRun, CaseInHand, RunnersType, Runners
  <1> QED
    BY <1>1, <1>2, <1>3, <1>4, <1>5 DEF EvaluationNext, RunnerStep

LEMMA StartsAtFirstStays ==
  ASSUME EvaluationTypeOK, StartsAtFirst, EvaluationNext
  PROVE  StartsAtFirst'
  <1>0. RunnersType
    BY DEF EvaluationTypeOK, RunnersType
  <1>1. ASSUME NEW s \in Starts, AskStart(s) \/ CommitStart(s)
        PROVE  StartsAtFirst'
    <2>1. runner[s].phase \in {"idle", "asked"} /\ (Moves(s, "asked") \/ Moves(s, "launched"))
      BY <1>1 DEF AskStart, CommitStart, InPhase
    <2> QED
      BY <1>0, <2>1, MovesOne DEF StartsAtFirst
  <1>2. ASSUME NEW s \in Starts, IgnoredStart(s) \/ BeginRun(s) \/ PackageChanged(s)
                 \/ CompleteRun(s) \/ LoseRunner(s)
        PROVE  StartsAtFirst'
    <2>1. PICK phase \in {"next", "ended"} : Moves(s, phase)
      BY <1>2 DEF IgnoredStart, BeginRun, PackageChanged, CompleteRun, LoseRunner
    <2>2. /\ \A other \in Starts : other # s => runner'[other] = runner[other]
          /\ runner'[s].phase = phase
      BY <1>0, <2>1, MovesOne
    <2> QED
      BY <2>2 DEF StartsAtFirst
  <1>3. ASSUME NEW s \in Starts, InspectCase(s)
        PROVE  StartsAtFirst'
    <2>1. CASE cases[runner[s].case].status \in Decided
      BY <1>0, <1>3, <2>1 DEF InspectCase, InPhase, StartsAtFirst, RunnersType, Runners
    <2>2. CASE cases[runner[s].case].status \notin Decided
      <3>1. Moves(s, "mark")
        BY <1>3, <2>2 DEF InspectCase
      <3>2. /\ \A other \in Starts : other # s => runner'[other] = runner[other]
            /\ runner'[s].phase = "mark"
        BY <1>0, <3>1, MovesOne
      <3> QED
        BY <3>2 DEF StartsAtFirst
    <2> QED
      BY <2>1, <2>2
  <1>4. ASSUME NEW s \in Starts, MarkCase(s) \/ DecidedCase(s)
        PROVE  StartsAtFirst'
    BY <1>0, <1>4 DEF MarkCase, DecidedCase, InPhase, StartsAtFirst, RunnersType, Runners
  <1>5. ASSUME DeleteRun
        PROVE  StartsAtFirst'
    BY <1>0, <1>5 DEF DeleteRun, StartsAtFirst, RunnersType, Runners
  <1> QED
    BY <1>1, <1>2, <1>3, <1>4, <1>5 DEF EvaluationNext, RunnerStep

(* A step of the thread that works leaves it the only one. *)
LEMMA StaysAlone ==
  ASSUME OneRunner, NEW s \in Starts, Working(s), ~doubled,
         \A other \in Starts : other # s => runner'[other] = runner[other],
         Working(s)' => InHand(s)'
  PROVE  OneRunner'
  <1>1. \A other \in Starts : Working(other)' => other = s
    BY DEF OneRunner, Working
  <1> QED
    BY <1>1 DEF OneRunner

LEMMA OneRunnerStays ==
  ASSUME EvaluationInv, EvaluationNext
  PROVE  OneRunner'
  <1>0. RunnersType /\ OneRunner /\ StartsAtFirst /\ CaseInHand
    BY DEF EvaluationInv, EvaluationTypeOK, RunnersType
  <1>1. ASSUME NEW s \in Starts, AskStart(s) \/ IgnoredStart(s)
        PROVE  OneRunner'
    <2>1. PICK phase \in {"asked", "ended"} : Moves(s, phase)
      BY <1>1 DEF AskStart, IgnoredStart
    <2>2. runner'[s].phase = phase /\ \A other \in Starts : other # s => runner'[other] = runner[other]
      BY <1>0, <2>1, MovesOne
    <2>3. runner[s].phase = "idle" /\ UNCHANGED <<run, cases, doubled>>
      BY <1>1 DEF AskStart, IgnoredStart, InPhase, Quiet
    <2>4. \A other \in Starts : Working(other)' => Working(other) /\ runner'[other] = runner[other]
      BY <2>2 DEF Working
    <2> QED
      BY <1>0, <2>3, <2>4 DEF OneRunner, InHand
  <1>2. ASSUME NEW s \in Starts, CommitStart(s)
        PROVE  OneRunner'
    <2>1. /\ runner'[s].phase = "launched"
          /\ \A other \in Starts : other # s => runner'[other] = runner[other]
      BY <1>0, <1>2, MovesOne DEF CommitStart
    <2>2. run'.status = "running"
      BY <1>2 DEF CommitStart, EvaluationInv, EvaluationTypeOK, Runs
    <2>3. ~doubled' => \A other \in Starts : Working(other)' => other = s
      BY <1>2, <2>1 DEF CommitStart, Working
    <2> QED
      BY <2>1, <2>2, <2>3 DEF OneRunner, InHand
  <1>3. ASSUME NEW s \in Starts, BeginRun(s) \/ PackageChanged(s) \/ CompleteRun(s) \/ LoseRunner(s),
               ~doubled
        PROVE  OneRunner'
    <2>1. PICK phase \in {"next", "ended"} : Moves(s, phase)
      BY <1>3 DEF BeginRun, PackageChanged, CompleteRun, LoseRunner
    <2>2. /\ runner'[s].phase = phase /\ runner'[s].case = runner[s].case
          /\ \A other \in Starts : other # s => runner'[other] = runner[other]
      BY <1>0, <2>1, MovesOne
    <2>3. Working(s)
      BY <1>3 DEF BeginRun, PackageChanged, CompleteRun, LoseRunner, InPhase, Working
    <2>4. ASSUME Working(s)'
          PROVE  InHand(s)'
      <3>1. phase = "next" /\ ~Moves(s, "ended")
        BY <1>0, <2>2, <2>4, MovesOne DEF Working
      <3>2. BeginRun(s) /\ run' = [run EXCEPT !.status = "running"]
        BY <1>3, <3>1 DEF BeginRun, PackageChanged, CompleteRun, LoseRunner
      <3>3. run'.status = "running"
        BY <3>2 DEF EvaluationInv, EvaluationTypeOK, Runs
      <3>4. runner'[s].case = 1
        BY <1>0, <2>2, <3>2 DEF BeginRun, InPhase, StartsAtFirst
      <3>5. \A c \in Cases : ~(c < 1)
        BY CaseNumbers
      <3> QED
        BY <2>2, <3>1, <3>3, <3>4, <3>5 DEF InHand
    <2> QED
      BY <1>0, <1>3, <2>2, <2>3, <2>4, StaysAlone
  <1>4. ASSUME NEW s \in Starts, InspectCase(s), ~doubled
        PROVE  OneRunner'
    <2>1. /\ Working(s) /\ runner[s].phase = "next" /\ InHand(s) /\ UNCHANGED <<run, cases>>
          /\ runner[s].case \in Cases
      BY <1>0, <1>4 DEF InspectCase, InPhase, Working, OneRunner
    <2>2. CASE cases[runner[s].case].status \in Decided
      <3>1. /\ runner'[s].phase = "next" /\ runner'[s].case = runner[s].case + 1
            /\ \A other \in Starts : other # s => runner'[other] = runner[other]
        BY <1>0, <1>4, <2>1, <2>2 DEF InspectCase, RunnersType, Runners
      <3>2. \A c \in Cases : c < runner[s].case + 1 => c < runner[s].case \/ c = runner[s].case
        BY <2>1, CaseNumbers
      <3>3. InHand(s)'
        BY <2>1, <2>2, <3>1, <3>2 DEF InHand
      <3> QED
        BY <1>0, <1>4, <2>1, <3>1, <3>3, StaysAlone
    <2>3. CASE cases[runner[s].case].status \notin Decided
      <3>1. Moves(s, "mark")
        BY <1>4, <2>3 DEF InspectCase
      <3>2. /\ runner'[s].phase = "mark" /\ runner'[s].case = runner[s].case
            /\ \A other \in Starts : other # s => runner'[other] = runner[other]
        BY <1>0, <3>1, MovesOne
      <3>3. InHand(s)'
        BY <2>1, <2>3, <3>2 DEF InHand
      <3> QED
        BY <1>0, <1>4, <2>1, <3>2, <3>3, StaysAlone
    <2> QED
      BY <2>2, <2>3
  <1>5. ASSUME NEW s \in Starts, MarkCase(s), ~doubled
        PROVE  OneRunner'
    <2>1. Working(s) /\ runner[s].phase = "mark" /\ InHand(s) /\ runner[s].case \in Cases
      BY <1>0, <1>5 DEF MarkCase, InPhase, Working, OneRunner, CaseInHand
    <2>2. /\ runner'[s].phase = "generating" /\ runner'[s].case = runner[s].case
          /\ runner'[s].pinned = run.package
          /\ \A other \in Starts : other # s => runner'[other] = runner[other]
      BY <1>0, <1>5 DEF MarkCase, RunnersType, Runners
    <2>3. /\ cases'[runner[s].case].status = "running"
          /\ \A c \in Cases : c # runner[s].case => cases'[c] = cases[c]
      BY <1>5, <2>1 DEF MarkCase, EvaluationInv, EvaluationTypeOK, CaseRows
    <2>4. \A c \in Cases : c < runner[s].case => c # runner[s].case
      BY <2>1, CaseNumbers
    <2>5. InHand(s)'
      BY <1>5, <2>1, <2>2, <2>3, <2>4 DEF InHand, MarkCase
    <2> QED
      BY <1>0, <1>5, <2>1, <2>2, <2>5, StaysAlone
  <1>6. ASSUME NEW s \in Starts, DecidedCase(s), ~doubled
        PROVE  OneRunner'
    <2>1. Working(s) /\ runner[s].phase = "generating" /\ InHand(s) /\ runner[s].case \in Cases
      BY <1>0, <1>6 DEF DecidedCase, InPhase, Working, OneRunner, CaseInHand
    <2>2. PICK p \in Answers, status \in Decided :
            /\ DecideCase(s, status, p)
            /\ run' = Counted(cases', IF p # 0 /\ runner[s].pinned = 0
                                      THEN [run EXCEPT !.package = p] ELSE run)
      BY <1>6 DEF DecidedCase
    <2>3. /\ runner'[s].phase = "next" /\ runner'[s].case = runner[s].case + 1
          /\ \A other \in Starts : other # s => runner'[other] = runner[other]
      BY <1>0, <1>6 DEF DecidedCase, RunnersType, Runners
    <2>4. run'.status = "running"
      BY <2>1, <2>2 DEF InHand, Counted, EvaluationInv, EvaluationTypeOK, Runs
    <2>5. /\ cases'[runner[s].case].status \in Decided
          /\ \A c \in Cases : c # runner[s].case => cases'[c] = cases[c]
      BY <2>1, <2>2 DEF DecideCase, EvaluationInv, EvaluationTypeOK, CaseRows
    <2>6. \A c \in Cases : c < runner[s].case + 1 => c < runner[s].case \/ c = runner[s].case
      BY <2>1, CaseNumbers
    <2>7. InHand(s)'
      BY <2>1, <2>3, <2>4, <2>5, <2>6 DEF InHand
    <2> QED
      BY <1>0, <1>6, <2>1, <2>3, <2>7, StaysAlone
  <1>7. ASSUME DeleteRun
        PROVE  OneRunner'
    <2>1. \A s \in Starts : runner'[s].phase = "ended"
      BY <1>0, <1>7 DEF DeleteRun, RunnersType, Runners
    <2> QED
      BY <2>1 DEF OneRunner, Working
  <1>8. CASE doubled
    BY <1>8 DEF OneRunner, EvaluationNext, RunnerStep, AskStart, IgnoredStart, CommitStart, BeginRun,
      InspectCase, MarkCase, PackageChanged, DecidedCase, CompleteRun, LoseRunner, DeleteRun, Quiet
  <1> QED
    BY <1>1, <1>2, <1>3, <1>4, <1>5, <1>6, <1>7, <1>8 DEF EvaluationNext, RunnerStep

LEMMA SoundAloneStays ==
  ASSUME EvaluationInv, EvaluationNext
  PROVE  SoundAlone'
  <1>0. RunnersType /\ OneRunner /\ CaseInHand /\ SoundAlone
        /\ run \in Runs /\ cases \in [Cases -> CaseRows]
    BY DEF EvaluationInv, EvaluationTypeOK, RunnersType
  <1>1. ASSUME NEW s \in Starts, AskStart(s) \/ IgnoredStart(s) \/ InspectCase(s) \/ LoseRunner(s)
        PROVE  SoundAlone'
    <2>1. UNCHANGED <<run, cases, doubled>>
      BY <1>1 DEF AskStart, IgnoredStart, InspectCase, LoseRunner, Quiet
    <2> QED
      BY <1>0, <2>1 DEF SoundAlone, Counted, Among
  <1>2. ASSUME NEW s \in Starts, CommitStart(s) \/ (BeginRun(s) /\ run.status # "completed"), ~doubled
        PROVE  SoundAlone'
    <2>1. run' = [run EXCEPT !.status = "running"]
      BY <1>2 DEF CommitStart, BeginRun
    <2>2. run'.status = "running" /\ run'.package = run.package
      BY <1>0, <2>1 DEF Runs
    <2>3. \A c \in Cases : cases'[c].status = "completed" => cases'[c] = cases[c]
      BY <1>0, <1>2 DEF CommitStart, BeginRun, CaseRows
    <2> QED
      BY <1>0, <1>2, <2>2, <2>3 DEF SoundAlone
  <1>3. ASSUME NEW s \in Starts, BeginRun(s), run.status = "completed"
        PROVE  SoundAlone'
    <2>1. UNCHANGED <<run, cases, doubled>>
      BY <1>3 DEF BeginRun, Quiet
    <2> QED
      BY <1>0, <2>1 DEF SoundAlone, Counted, Among
  <1>4. ASSUME NEW s \in Starts, MarkCase(s), ~doubled
        PROVE  SoundAlone'
    <2>1. InHand(s) /\ runner[s].case \in Cases
      BY <1>0, <1>4 DEF MarkCase, InPhase, Working, OneRunner, CaseInHand
    <2>2. /\ cases'[runner[s].case].status = "running"
          /\ \A c \in Cases : c # runner[s].case => cases'[c] = cases[c]
      BY <1>0, <1>4, <2>1 DEF MarkCase, CaseRows
    <2> QED
      BY <1>0, <1>4, <2>1, <2>2 DEF SoundAlone, InHand, MarkCase
  <1>5. ASSUME NEW s \in Starts, PackageChanged(s), ~doubled
        PROVE  SoundAlone'
    <2>1. runner[s].case \in Cases
      BY <1>0, <1>5 DEF PackageChanged, InPhase, CaseInHand
    <2>2. run'.status = "failed" /\ run'.package = run.package
      BY <1>0, <1>5 DEF PackageChanged, Runs
    <2>3. /\ cases'[runner[s].case].status = "failed"
          /\ \A c \in Cases : c # runner[s].case => cases'[c] = cases[c]
      BY <1>0, <1>5, <2>1 DEF PackageChanged, DecideCase, CaseRows
    <2> QED
      BY <1>0, <1>5, <2>2, <2>3 DEF SoundAlone
  <1>6. ASSUME NEW s \in Starts, DecidedCase(s), ~doubled
        PROVE  SoundAlone'
    <2>1. InHand(s) /\ runner[s].case \in Cases /\ runner[s].phase = "generating"
      BY <1>0, <1>6 DEF DecidedCase, InPhase, Working, OneRunner, CaseInHand
    <2>2. PICK p \in Answers, status \in Decided :
            /\ ~Changed(s, p)
            /\ DecideCase(s, status, p)
            /\ run' = Counted(cases', IF p # 0 /\ runner[s].pinned = 0
                                      THEN [run EXCEPT !.package = p] ELSE run)
      BY <1>6 DEF DecidedCase
    <2>3. /\ cases'[runner[s].case].package = p
          /\ \A c \in Cases : c # runner[s].case => cases'[c] = cases[c]
      BY <1>0, <2>1, <2>2 DEF DecideCase, CaseRows
    <2>4. CASE p # 0 /\ runner[s].pinned = 0
      <3>1. run'.package = p /\ run'.status = "running" /\ run.package = 0
        BY <1>0, <2>1, <2>2, <2>4 DEF Counted, Runs, InHand
      <3> QED
        BY <1>0, <1>6, <2>3, <3>1 DEF SoundAlone
    <2>5. CASE ~(p # 0 /\ runner[s].pinned = 0)
      <3>1. run'.package = run.package /\ run'.status = "running"
        BY <1>0, <2>1, <2>2, <2>5 DEF Counted, Runs, InHand
      <3>2. p \in {0, run.package}
        BY <2>1, <2>2, <2>5 DEF Changed, InHand
      <3> QED
        BY <1>0, <1>6, <2>3, <3>1, <3>2 DEF SoundAlone
    <2> QED
      BY <2>4, <2>5
  <1>7. ASSUME NEW s \in Starts, CompleteRun(s), ~doubled
        PROVE  SoundAlone'
    <2>1. InHand(s) /\ runner[s].phase = "next"
      BY <1>0, <1>7 DEF CompleteRun, InPhase, Working, OneRunner
    <2>2. \A c \in Cases : c < runner[s].case
      <3>1. runner[s].case \in 1 .. Cardinality(Cases) + 1 /\ runner[s].case \notin Cases
        BY <1>0, <1>7 DEF CompleteRun, RunnersType, Runners
      <3> QED
        BY <3>1, CaseNumbers
    <2>3. \A c \in Cases : cases[c].status \in Decided
      BY <2>1, <2>2 DEF InHand
    <2>4. /\ run' = Counted(cases, run') /\ UNCHANGED cases
          /\ run'.package = run.package
      <3>1. Counted(cases, run) \in Runs /\ Counted(cases, run).package = run.package
        BY <1>0, CountedType
      <3> QED
        BY <1>0, <1>7, <3>1, CountedType DEF CompleteRun, Runs
    <2>5. run' = Counted(cases', run')
      BY <2>4
    <2> QED
      BY <1>0, <1>7, <2>3, <2>4, <2>5 DEF SoundAlone
  <1>8. ASSUME DeleteRun
        PROVE  SoundAlone'
    <2>1. run'.status = "deleted" /\ run'.package = run.package /\ UNCHANGED <<cases, doubled>>
      BY <1>0, <1>8 DEF DeleteRun, Runs, Quiet
    <2> QED
      BY <1>0, <2>1 DEF SoundAlone
  <1>9. CASE doubled
    BY <1>9 DEF SoundAlone, EvaluationNext, RunnerStep, AskStart, IgnoredStart, CommitStart,
      BeginRun, InspectCase, MarkCase, PackageChanged, DecidedCase, CompleteRun, LoseRunner, DeleteRun, Quiet
  <1>10. ASSUME NEW s \in Starts, CommitStart(s) \/ BeginRun(s), ~doubled
         PROVE  SoundAlone'
    BY <1>10, <1>2, <1>3
  <1> QED
    BY <1>1, <1>4, <1>5, <1>6, <1>7, <1>8, <1>9, <1>10 DEF EvaluationNext, RunnerStep

(* What is accounted for stays so: a case is given up by the thread that has it in
   hand only when it is decided, or the thread dies. *)
LEMMA AccountedStays ==
  ASSUME EvaluationTypeOK, CaseInHand, EvaluationNext, ~DeleteRun, NEW c \in Cases, Accounted(c)
  PROVE  Accounted(c)'
  <1>0. RunnersType /\ CaseInHand /\ cases \in [Cases -> CaseRows]
    BY DEF EvaluationTypeOK, RunnersType
  <1>1. ASSUME NEW s \in Starts, AskStart(s) \/ IgnoredStart(s) \/ CommitStart(s) \/ BeginRun(s)
                 \/ CompleteRun(s)
        PROVE  Accounted(c)'
    <2>1. PICK phase \in {"asked", "launched", "next", "ended"} : Moves(s, phase)
      BY <1>1 DEF AskStart, IgnoredStart, CommitStart, BeginRun, CompleteRun
    <2>2. \A o \in Starts : TakenUp(o, c) => o # s
      BY <1>1 DEF AskStart, IgnoredStart, CommitStart, BeginRun, CompleteRun, InPhase, TakenUp
    <2>3. \A o \in Starts : TakenUp(o, c) => TakenUp(o, c)'
      BY <1>0, <2>1, <2>2, MovesOne DEF TakenUp
    <2>4. cases[c].status \in Decided => cases'[c] = cases[c]
      BY <1>0, <1>1 DEF AskStart, IgnoredStart, CommitStart, BeginRun, CompleteRun, Decided
    <2>5. abandoned' = abandoned
      BY <1>1 DEF AskStart, IgnoredStart, CommitStart, BeginRun, CompleteRun, Quiet
    <2> QED
      BY <2>3, <2>4, <2>5 DEF Accounted
  <1>2. ASSUME NEW s \in Starts, InspectCase(s)
        PROVE  Accounted(c)'
    <2>1. UNCHANGED <<cases, abandoned>> /\ runner[s].phase = "next"
      BY <1>2 DEF InspectCase, InPhase, Quiet
    <2>2. \A o \in Starts : TakenUp(o, c) => o # s
      BY <2>1 DEF TakenUp
    <2>3. \A o \in Starts : o # s => runner'[o] = runner[o]
      BY <1>0, <1>2 DEF InspectCase, Moves, RunnersType
    <2>4. \A o \in Starts : TakenUp(o, c) => TakenUp(o, c)'
      BY <2>2, <2>3 DEF TakenUp
    <2> QED
      BY <2>1, <2>4 DEF Accounted
  <1>3. ASSUME NEW s \in Starts, MarkCase(s)
        PROVE  Accounted(c)'
    <2>1. /\ runner'[s].phase = "generating" /\ runner'[s].case = runner[s].case
          /\ \A o \in Starts : o # s => runner'[o] = runner[o]
      BY <1>0, <1>3 DEF MarkCase, RunnersType, Runners
    <2>2. abandoned' = abandoned /\ (c # runner[s].case => cases'[c] = cases[c])
      BY <1>0, <1>3 DEF MarkCase, Quiet
    <2>3. CASE c = runner[s].case
      BY <2>1, <2>3 DEF Accounted, TakenUp
    <2>4. CASE c # runner[s].case
      <3>1. \A o \in Starts : TakenUp(o, c) => TakenUp(o, c)'
        BY <2>1, <2>4 DEF TakenUp
      <3> QED
        BY <2>2, <2>4, <3>1 DEF Accounted
    <2> QED
      BY <2>3, <2>4
  <1>4. ASSUME NEW s \in Starts, PackageChanged(s) \/ DecidedCase(s)
        PROVE  Accounted(c)'
    <2>1. runner[s].case \in Cases
      BY <1>0, <1>4 DEF PackageChanged, DecidedCase, InPhase, CaseInHand
    <2>2. \A o \in Starts : o # s => runner'[o] = runner[o]
      BY <1>0, <1>4 DEF PackageChanged, DecidedCase, Moves, RunnersType
    <2>3. \E p \in Answers, status \in Decided : DecideCase(s, status, p)
      <3>1. CASE PackageChanged(s)
        <4>1. PICK p \in Packages : DecideCase(s, "failed", p)
          BY <3>1 DEF PackageChanged
        <4> QED
          BY <4>1 DEF Answers, Decided
      <3>2. CASE DecidedCase(s)
        BY <3>2 DEF DecidedCase
      <3> QED
        BY <1>4, <3>1, <3>2
    <2>4. abandoned' = abandoned
      BY <1>4 DEF PackageChanged, DecidedCase, Quiet
    <2>5. CASE c = runner[s].case
      BY <1>0, <2>1, <2>3, <2>5 DEF DecideCase, Accounted
    <2>6. CASE c # runner[s].case
      <3>1. \A o \in Starts : TakenUp(o, c) => TakenUp(o, c)'
        BY <2>2, <2>6 DEF TakenUp
      <3>2. cases'[c] = cases[c]
        BY <1>0, <2>3, <2>6 DEF DecideCase
      <3> QED
        BY <2>4, <3>1, <3>2 DEF Accounted
    <2> QED
      BY <2>5, <2>6
  <1>5. ASSUME NEW s \in Starts, LoseRunner(s)
        PROVE  Accounted(c)'
    BY <1>5 DEF LoseRunner, Accounted
  <1> QED
    BY <1>1, <1>2, <1>3, <1>4, <1>5 DEF EvaluationNext, RunnerStep

LEMMA BehindStays ==
  ASSUME EvaluationInv, EvaluationNext
  PROVE  BehindIsAccounted'
  <1>0. RunnersType /\ CaseInHand /\ StartsAtFirst /\ BehindIsAccounted /\ EvaluationTypeOK
        /\ run \in Runs /\ cases \in [Cases -> CaseRows]
    BY DEF EvaluationInv, EvaluationTypeOK, RunnersType
  <1>1. CASE DeleteRun
    <2>1. run'.status = "deleted" /\ \A s \in Starts : runner'[s].phase = "ended"
      BY <1>0, <1>1 DEF DeleteRun, RunnersType, Runners, Runs
    <2> QED
      BY <2>1 DEF BehindIsAccounted
  <1>2. ASSUME ~DeleteRun, NEW s \in Starts, NEW phase \in {"asked", "launched", "mark", "generating", "ended"},
               \A o \in Starts : o # s => runner'[o] = runner[o],
               runner'[s].phase = phase, runner'[s].case = runner[s].case,
               phase \in {"mark", "generating"} => runner[s].phase \in {"next", "mark"},
               run'.status = "completed" => run.status = "completed"
        PROVE  BehindIsAccounted'
    <2>1. \A c \in Cases : Accounted(c) => Accounted(c)'
      BY <1>0, <1>2, AccountedStays
    <2>2. ASSUME NEW o \in Starts, runner'[o].phase \in {"next", "mark", "generating"},
                 NEW c \in Cases, c < runner'[o].case
          PROVE  Accounted(c)'
      <3>1. runner[o].phase \in {"next", "mark", "generating"} /\ runner'[o].case = runner[o].case
        BY <1>2, <2>2
      <3>2. Accounted(c)
        BY <1>0, <2>2, <3>1 DEF BehindIsAccounted
      <3> QED
        BY <2>1, <3>2
    <2> QED
      BY <1>0, <1>2, <2>1, <2>2 DEF BehindIsAccounted
  <1>3. ASSUME ~DeleteRun, NEW s \in Starts, AskStart(s) \/ IgnoredStart(s) \/ CommitStart(s)
                 \/ PackageChanged(s) \/ LoseRunner(s)
        PROVE  BehindIsAccounted'
    <2>1. PICK phase \in {"asked", "launched", "ended"} : Moves(s, phase)
      BY <1>3 DEF AskStart, IgnoredStart, CommitStart, PackageChanged, LoseRunner
    <2>2. run'.status = "completed" => run.status = "completed"
      BY <1>0, <1>3 DEF AskStart, IgnoredStart, CommitStart, PackageChanged, LoseRunner, Runs
    <2>3. /\ \A o \in Starts : o # s => runner'[o] = runner[o]
          /\ runner'[s].phase = phase /\ runner'[s].case = runner[s].case
      BY <1>0, <2>1, MovesOne
    <2> QED
      BY <1>2, <1>3, <2>2, <2>3
  <1>4. ASSUME ~DeleteRun, NEW s \in Starts, BeginRun(s)
        PROVE  BehindIsAccounted'
    <2>0. \A c \in Cases : Accounted(c) => Accounted(c)'
      BY <1>0, <1>4, AccountedStays
    <2>1. PICK phase \in {"next", "ended"} : Moves(s, phase)
      BY <1>4 DEF BeginRun
    <2>2. /\ \A o \in Starts : o # s => runner'[o] = runner[o]
          /\ runner'[s].case = runner[s].case
      BY <1>0, <2>1, MovesOne
    <2>3. runner'[s].case = 1
      BY <1>0, <1>4, <2>2 DEF BeginRun, InPhase, StartsAtFirst
    <2>4. \A c \in Cases : ~(c < 1)
      BY CaseNumbers
    <2>5. run'.status = "completed" => run.status = "completed"
      BY <1>0, <1>4 DEF BeginRun, Runs
    <2> QED
      BY <1>0, <2>0, <2>2, <2>3, <2>4, <2>5 DEF BehindIsAccounted
  <1>5. ASSUME ~DeleteRun, NEW s \in Starts, InspectCase(s)
        PROVE  BehindIsAccounted'
    <2>0. \A c \in Cases : Accounted(c) => Accounted(c)'
      BY <1>0, <1>5, AccountedStays
    <2>1. runner[s].phase = "next" /\ runner[s].case \in Cases /\ UNCHANGED <<run, cases>>
      BY <1>5 DEF InspectCase, InPhase
    <2>2. CASE cases[runner[s].case].status \in Decided
      <3>1. /\ runner'[s].case = runner[s].case + 1 /\ runner'[s].phase = "next"
            /\ \A o \in Starts : o # s => runner'[o] = runner[o]
        BY <1>0, <1>5, <2>1, <2>2 DEF InspectCase, RunnersType, Runners
      <3>2. \A c \in Cases : c < runner[s].case + 1 => c < runner[s].case \/ c = runner[s].case
        BY <2>1, CaseNumbers
      <3>3. Accounted(runner[s].case)
        BY <2>2 DEF Accounted
      <3>4. \A c \in Cases : c < runner[s].case + 1 => Accounted(c)'
        BY <1>0, <2>0, <2>1, <3>2, <3>3 DEF BehindIsAccounted
      <3> QED
        BY <1>0, <2>0, <2>1, <3>1, <3>4 DEF BehindIsAccounted
    <2>3. CASE cases[runner[s].case].status \notin Decided
      <3>1. Moves(s, "mark")
        BY <1>5, <2>3 DEF InspectCase
      <3>2. /\ runner'[s].phase = "mark" /\ runner'[s].case = runner[s].case
            /\ \A o \in Starts : o # s => runner'[o] = runner[o]
        BY <1>0, <3>1, MovesOne
      <3> QED
        BY <1>2, <1>5, <2>1, <3>2
    <2> QED
      BY <2>2, <2>3
  <1>6. ASSUME ~DeleteRun, NEW s \in Starts, MarkCase(s)
        PROVE  BehindIsAccounted'
    <2>1. /\ runner'[s].phase = "generating" /\ runner'[s].case = runner[s].case
          /\ runner[s].phase = "mark" /\ run' = run
          /\ \A o \in Starts : o # s => runner'[o] = runner[o]
      BY <1>0, <1>6 DEF MarkCase, InPhase, RunnersType, Runners
    <2> QED
      BY <1>2, <1>6, <2>1
  <1>7. ASSUME ~DeleteRun, NEW s \in Starts, DecidedCase(s)
        PROVE  BehindIsAccounted'
    <2>0. \A c \in Cases : Accounted(c) => Accounted(c)'
      BY <1>0, <1>7, AccountedStays
    <2>1. runner[s].phase = "generating" /\ runner[s].case \in Cases
      BY <1>0, <1>7 DEF DecidedCase, InPhase, CaseInHand
    <2>2. /\ runner'[s].case = runner[s].case + 1
          /\ \A o \in Starts : o # s => runner'[o] = runner[o]
      BY <1>0, <1>7 DEF DecidedCase, RunnersType, Runners
    <2>3. PICK p \in Answers, status \in Decided :
            /\ DecideCase(s, status, p)
            /\ run' = Counted(cases', IF p # 0 /\ runner[s].pinned = 0
                                      THEN [run EXCEPT !.package = p] ELSE run)
      BY <1>7 DEF DecidedCase
    <2>4. run'.status = run.status
      BY <1>0, <2>3 DEF Counted, Runs
    <2>5. \A c \in Cases : c < runner[s].case + 1 => c < runner[s].case \/ c = runner[s].case
      BY <2>1, CaseNumbers
    <2>6. \A c \in Cases : c = runner[s].case => Accounted(c)'
      BY <1>0, <2>3 DEF DecideCase, Accounted
    <2>7. \A c \in Cases : c < runner[s].case + 1 => Accounted(c)'
      BY <1>0, <2>0, <2>1, <2>5, <2>6 DEF BehindIsAccounted
    <2> QED
      BY <1>0, <2>0, <2>2, <2>4, <2>7 DEF BehindIsAccounted
  <1>8. ASSUME ~DeleteRun, NEW s \in Starts, CompleteRun(s)
        PROVE  BehindIsAccounted'
    <2>0. \A c \in Cases : Accounted(c) => Accounted(c)'
      BY <1>0, <1>8, AccountedStays
    <2>1. /\ runner'[s].phase = "ended"
          /\ \A o \in Starts : o # s => runner'[o] = runner[o]
      BY <1>0, <1>8, MovesOne DEF CompleteRun
    <2>2. \A c \in Cases : c < runner[s].case
      <3>1. runner[s].case \in 1 .. Cardinality(Cases) + 1 /\ runner[s].case \notin Cases
        BY <1>0, <1>8 DEF CompleteRun, RunnersType, Runners
      <3> QED
        BY <3>1, CaseNumbers
    <2>3. \A c \in Cases : Accounted(c)'
      BY <1>0, <1>8, <2>0, <2>2 DEF CompleteRun, InPhase, BehindIsAccounted
    <2> QED
      BY <2>3 DEF BehindIsAccounted
  <1> QED
    BY <1>1, <1>3, <1>4, <1>5, <1>6, <1>7, <1>8 DEF EvaluationNext, RunnerStep

LEMMA EvaluationStep ==
  ASSUME EvaluationInv, [EvaluationNext]_evaluationVars
  PROVE  EvaluationInv'
  <1>1. CASE EvaluationNext
    BY <1>1, EvaluationTypes, CaseInHandStays, StartsAtFirstStays, OneRunnerStays, SoundAloneStays,
      BehindStays DEF EvaluationInv
  <1>2. CASE UNCHANGED evaluationVars
    BY <1>2 DEF evaluationVars, EvaluationInv, EvaluationTypeOK, CaseInHand, StartsAtFirst, OneRunner,
      InHand, Working, SoundAlone, Counted, Among, BehindIsAccounted, Accounted, TakenUp
  <1> QED
    BY <1>1, <1>2

(* The invariant says what a completed run promises. *)
LEMMA SoundRuns ==
  ASSUME EvaluationInv
  PROVE  CompletedRunIsSound
  <1>0. SoundAlone /\ BehindIsAccounted
    BY DEF EvaluationInv
  <1>1. ASSUME run.status = "completed", NEW c \in Cases
        PROVE  cases[c].status \in Decided
               \/ (doubled /\ (abandoned \/ \E s \in Starts : TakenUp(s, c)))
    <2>1. CASE ~doubled
      BY <1>0, <1>1, <2>1 DEF SoundAlone
    <2>2. CASE doubled
      <3>1. Accounted(c)
        BY <1>0, <1>1 DEF BehindIsAccounted
      <3> QED
        BY <2>2, <3>1 DEF Accounted
    <2> QED
      BY <2>1, <2>2
  <1>2. ~doubled =>
          /\ run.status = "completed" => run = Counted(cases, run)
          /\ \A c \in Cases : cases[c].status = "completed" => cases[c].package \in {0, run.package}
    BY <1>0 DEF SoundAlone
  <1> QED
    BY <1>1, <1>2 DEF CompletedRunIsSound

(* What was decided stays decided while no two threads were launched. *)
LEMMA DecidedCaseStays ==
  ASSUME EvaluationInv, [EvaluationNext]_evaluationVars, ~doubled,
         NEW c \in Cases, cases[c].status \in Decided
  PROVE  cases'[c] = cases[c]
  <1>0. RunnersType /\ OneRunner /\ CaseInHand /\ cases \in [Cases -> CaseRows]
    BY DEF EvaluationInv, EvaluationTypeOK, RunnersType
  <1>1. ASSUME NEW s \in Starts, BeginRun(s)
        PROVE  cases'[c] = cases[c]
    BY <1>0, <1>1 DEF BeginRun, Decided
  <1>2. ASSUME NEW s \in Starts, MarkCase(s) \/ PackageChanged(s) \/ DecidedCase(s)
        PROVE  cases'[c] = cases[c]
    <2>1. InHand(s) /\ runner[s].case \in Cases /\ runner[s].phase \in {"mark", "generating"}
      BY <1>0, <1>2 DEF MarkCase, PackageChanged, DecidedCase, InPhase, Working, OneRunner, CaseInHand
    <2>2. c # runner[s].case
      BY <2>1 DEF InHand, Decided
    <2> QED
      BY <1>0, <1>2, <2>2 DEF MarkCase, PackageChanged, DecidedCase, DecideCase
  <1>3. CASE UNCHANGED cases
    BY <1>3
  <1> QED
    BY <1>1, <1>2, <1>3 DEF EvaluationNext, RunnerStep, AskStart, IgnoredStart, CommitStart, InspectCase,
      CompleteRun, LoseRunner, DeleteRun, evaluationVars

(* Only the thread that has a case in hand changes what was decided of it. *)
LEMMA ChangedByItsThread ==
  ASSUME EvaluationInv, [EvaluationNext]_evaluationVars,
         NEW c \in Cases, cases[c].status \in Decided, cases'[c] # cases[c]
  PROVE  doubled /\ \E s \in Starts : TakenUp(s, c)
  <1>0. cases \in [Cases -> CaseRows]
    BY DEF EvaluationInv, EvaluationTypeOK
  <1>1. doubled
    BY DecidedCaseStays
  <1>2. ASSUME NEW s \in Starts, BeginRun(s)
        PROVE  FALSE
    BY <1>0, <1>2 DEF BeginRun, Decided
  <1>3. ASSUME NEW s \in Starts, MarkCase(s) \/ PackageChanged(s) \/ DecidedCase(s)
        PROVE  TakenUp(s, c)
    <2>1. runner[s].phase \in {"mark", "generating"}
      BY <1>3 DEF MarkCase, PackageChanged, DecidedCase, InPhase
    <2>2. c = runner[s].case
      BY <1>0, <1>3 DEF MarkCase, PackageChanged, DecidedCase, DecideCase
    <2> QED
      BY <2>1, <2>2 DEF TakenUp
  <1>4. ~UNCHANGED cases
    OBVIOUS
  <1> QED
    BY <1>1, <1>2, <1>3, <1>4 DEF EvaluationNext, RunnerStep, AskStart, IgnoredStart, CommitStart,
      InspectCase, CompleteRun, LoseRunner, DeleteRun, evaluationVars

(* A completed run is sound (EvaluationRunner.run, start_evaluation,
   delete_evaluation), for every number of cases, requests, threads and packages. *)
THEOREM EvaluationRunsAreSound == EvaluationSpec => [](EvaluationTypeOK /\ CompletedRunIsSound)
  <1>1. EvaluationInit => EvaluationInv
    BY EvaluationInitInv
  <1>2. EvaluationInv /\ [EvaluationNext]_evaluationVars => EvaluationInv'
    BY EvaluationStep
  <1>3. EvaluationInv => EvaluationTypeOK /\ CompletedRunIsSound
    BY SoundRuns DEF EvaluationInv
  <1> QED
    BY <1>1, <1>2, <1>3, PTL DEF EvaluationSpec

-------------------------------------------------------------------------------
(* Executions *)

(* As long as no two tasks executed at once: one executes at most, the record says
   that it does, and what the task has loaded and stored is still the record's. *)
Undisturbed(t) ==
  /\ record.status \in {"pending", "running"}
  /\ task[t].phase \in {"executed", "stored"} =>
       /\ task[t].loaded.count = record.count /\ task[t].loaded.ref = record.ref
       /\ task[t].loaded.status # "success"
  /\ task[t].phase = "stored" /\ InFile(task[t].rows) => file = task[t].rows
OneExecution ==
  ~overlap =>
    /\ \A t, other \in Tasks : Executing(t) /\ Executing(other) => t = other
    /\ \A t \in Tasks : Executing(t) => Undisturbed(t)

(* A record that was submitted and is neither successful nor failed has a task that
   will make it one or the other: one that is still to load the record, or that
   loaded it before it was successful and so will write that it is. *)
Resolves(t) ==
  \/ task[t].phase \in {"submitted", "queued", "started", "unacked"}
  \/ task[t].phase \in {"executed", "stored"} /\ task[t].loaded.status # "success"
SomebodyResolves ==
  \/ lost
  \/ record.status \in {"success", "failed"}
  \/ \A t \in Tasks : task[t].phase = "none"
  \/ \E t \in Tasks : Resolves(t)

ExecutionInv == ExecutionTypeOK /\ OneExecution /\ ResultMatchesRecord /\ SomebodyResolves

LEMMA ResolvedIsNoLimbo ==
  ASSUME SomebodyResolves
  PROVE  NoLimbo
  BY DEF SomebodyResolves, Resolves, NoLimbo, At

LEMMA FlushedRecord ==
  ASSUME NEW stored \in Records, NEW loaded \in Records, NEW set \in Records
  PROVE  /\ Flushed(stored, loaded, set) \in Records
         /\ Flushed(stored, loaded, set).status =
              IF set.status = loaded.status THEN stored.status ELSE set.status
         /\ Flushed(stored, loaded, set).count =
              IF set.count = loaded.count THEN stored.count ELSE set.count
         /\ Flushed(stored, loaded, set).ref =
              IF set.ref = loaded.ref THEN stored.ref ELSE set.ref
  <1> DEFINE f == [status |-> IF set.status = loaded.status THEN stored.status ELSE set.status,
                   count  |-> IF set.count = loaded.count THEN stored.count ELSE set.count,
                   ref    |-> IF set.ref = loaded.ref THEN stored.ref ELSE set.ref]
  <1>1. Flushed(stored, loaded, set) = f
    BY DEF Flushed, Records
  <1>2. f \in Records
    BY DEF Records
  <1> QED
    BY <1>1, <1>2

TasksType == task \in [Tasks -> TaskStates]

LEMMA EntersOne ==
  ASSUME TasksType, NEW t \in Tasks, NEW phase, Enter(t, phase)
  PROVE  /\ \A other \in Tasks : other # t => task'[other] = task[other]
         /\ task'[t].phase = phase /\ task'[t].loaded = task[t].loaded /\ task'[t].rows = task[t].rows
         /\ phase \in {"submitted", "queued", "started", "stored"} => TasksType'
  BY DEF TasksType, TaskStates, Enter

LEMMA LeavesOne ==
  ASSUME TasksType, NEW t \in Tasks, NEW phase \in {"unacked", "done"}, Leave(t, phase)
  PROVE  /\ \A other \in Tasks : other # t => task'[other] = task[other]
         /\ task'[t].phase = phase /\ task'[t].rows = task[t].rows
         /\ TasksType'
  <1>1. NewRecord \in Records
    BY DEF NewRecord, Records, Counts
  <1> QED
    BY <1>1 DEF TasksType, TaskStates, Leave

LEMMA ExecutesOne ==
  ASSUME TasksType, record \in Records, NEW t \in Tasks, ExecuteTask(t)
  PROVE  /\ \A other \in Tasks : other # t => task'[other] = task[other]
         /\ task'[t].phase = "executed" /\ task'[t].loaded = record
         /\ TasksType'
  BY DEF TasksType, TaskStates, ExecuteTask, Counts

LEMMA RedeliversOne ==
  ASSUME TasksType, NEW t \in Tasks, NEW again \in Tasks, Redeliver(t, again)
  PROVE  /\ \A other \in Tasks : /\ task'[other].loaded = task[other].loaded
                                 /\ task'[other].rows = task[other].rows
                                 /\ other # again => \/ task'[other].phase = task[other].phase
                                                    \/ task'[other].phase = "done"
         /\ task'[again].phase = "queued"
         /\ \A other \in Tasks : task'[other].phase # task[other].phase => ~Executing(other)'
         /\ TasksType'
  BY DEF TasksType, TaskStates, Redeliver, At, Executing

(* What a finished task has written. *)
LEMMA FinishedRecord ==
  ASSUME ExecutionTypeOK, NEW t \in Tasks, FinishTask(t)
  PROVE  /\ record' \in Records
         /\ record'.status = IF task[t].loaded.status = "success" THEN record.status ELSE "success"
         /\ record'.count = IF task[t].rows = task[t].loaded.count THEN record.count ELSE task[t].rows
         /\ LET ref == IF InFile(task[t].rows) THEN FileRef ELSE t
            IN record'.ref = IF ref = task[t].loaded.ref THEN record.ref ELSE ref
  <1> DEFINE set == [status |-> "success", count |-> task[t].rows,
                     ref |-> IF InFile(task[t].rows) THEN FileRef ELSE t]
  <1>1. set \in Records /\ task[t].loaded \in Records /\ record \in Records
    BY DEF ExecutionTypeOK, TaskStates, Records
  <1>2. record' = Flushed(record, task[t].loaded, set)
    BY DEF FinishTask
  <1> QED
    BY <1>1, <1>2, FlushedRecord

LEMMA ExecutionInitInv ==
  ASSUME ExecutionInit
  PROVE  ExecutionInv
  <1>1. \A t \in Tasks : task[t].phase = "none"
    BY DEF ExecutionInit
  <1>2. NewRecord \in Records /\ NewRecord.status = "pending" /\ 0 \in Counts
    BY DEF NewRecord, Records, Counts
  <1>3. ExecutionTypeOK
    BY <1>2 DEF ExecutionInit, ExecutionTypeOK, TaskStates
  <1>4. OneExecution
    BY <1>1 DEF OneExecution, Executing
  <1>5. ResultMatchesRecord
    BY <1>2 DEF ExecutionInit, ResultMatchesRecord
  <1>6. SomebodyResolves
    BY <1>1 DEF SomebodyResolves
  <1> QED
    BY <1>3, <1>4, <1>5, <1>6 DEF ExecutionInv

LEMMA ExecutionTypes ==
  ASSUME ExecutionTypeOK, ExecutionNext
  PROVE  ExecutionTypeOK'
  <1> USE DEF Histories
  <1>0. TasksType /\ record \in Records
    BY DEF ExecutionTypeOK, TasksType
  <1>1. ASSUME NEW t \in Tasks, SubmitTask(t) \/ EnqueueTask(t) \/ StartTask(t)
        PROVE  ExecutionTypeOK'
    <2>1. TasksType'
      BY <1>0, <1>1, EntersOne DEF SubmitTask, EnqueueTask, StartTask
    <2>2. record' \in Records
      BY <1>0, <1>1 DEF SubmitTask, EnqueueTask, StartTask, Records
    <2> QED
      BY <1>1, <2>1, <2>2 DEF ExecutionTypeOK, TasksType, SubmitTask, EnqueueTask, StartTask
  <1>2. ASSUME NEW t \in Tasks, ExecuteTask(t)
        PROVE  ExecutionTypeOK'
    BY <1>0, <1>2, ExecutesOne DEF ExecutionTypeOK, TasksType, ExecuteTask
  <1>3. ASSUME NEW t \in Tasks, StoreTask(t)
        PROVE  ExecutionTypeOK'
    <2>1. TasksType'
      BY <1>0, <1>3, EntersOne DEF StoreTask
    <2>2. file' \in Counts
      BY <1>0, <1>3 DEF StoreTask, ExecutionTypeOK, TaskStates
    <2> QED
      BY <1>3, <2>1, <2>2 DEF ExecutionTypeOK, TasksType, StoreTask
  <1>4. ASSUME NEW t \in Tasks, FinishTask(t) \/ FailTask(t) \/ LoseTask(t)
        PROVE  ExecutionTypeOK'
    <2>1. PICK phase \in {"done", "unacked"} : Leave(t, phase)
      BY <1>4 DEF FinishTask, FailTask, LoseTask
    <2>2. TasksType'
      BY <1>0, <2>1, LeavesOne
    <2>3. record' \in Records
      BY <1>0, <1>4, FinishedRecord DEF FailTask, LoseTask, Records
    <2> QED
      BY <1>4, <2>2, <2>3 DEF ExecutionTypeOK, TasksType, FinishTask, FailTask, LoseTask
  <1>5. ASSUME NEW t \in Tasks, NEW again \in Tasks, Redeliver(t, again)
        PROVE  ExecutionTypeOK'
    BY <1>0, <1>5, RedeliversOne DEF ExecutionTypeOK, TasksType, Redeliver
  <1> QED
    BY <1>1, <1>2, <1>3, <1>4, <1>5 DEF ExecutionNext, TaskStep

LEMMA SomebodyStillResolves ==
  ASSUME ExecutionTypeOK, SomebodyResolves, ExecutionNext
  PROVE  SomebodyResolves'
  <1> USE DEF Histories
  <1>0. TasksType /\ record \in Records
    BY DEF ExecutionTypeOK, TasksType
  <1>1. ASSUME NEW t \in Tasks, SubmitTask(t) \/ EnqueueTask(t) \/ StartTask(t)
        PROVE  SomebodyResolves'
    <2>1. task'[t].phase \in {"submitted", "queued", "started"}
      BY <1>0, <1>1, EntersOne DEF SubmitTask, EnqueueTask, StartTask
    <2> QED
      BY <2>1 DEF SomebodyResolves, Resolves
  <1>2. ASSUME NEW t \in Tasks, ExecuteTask(t)
        PROVE  SomebodyResolves'
    <2>1. task'[t].phase = "executed" /\ task'[t].loaded = record /\ record' = record
      BY <1>0, <1>2, ExecutesOne DEF ExecuteTask
    <2> QED
      BY <2>1 DEF SomebodyResolves, Resolves
  <1>3. ASSUME NEW t \in Tasks, StoreTask(t)
        PROVE  SomebodyResolves'
    <2>1. /\ \A other \in Tasks : other # t => task'[other] = task[other]
          /\ task'[t].phase = "stored" /\ task'[t].loaded = task[t].loaded
      BY <1>0, <1>3, EntersOne DEF StoreTask
    <2>2. task[t].phase = "executed" /\ UNCHANGED <<record, lost>>
      BY <1>3 DEF StoreTask, At
    <2>3. \A other \in Tasks : Resolves(other) => Resolves(other)'
      BY <2>1, <2>2 DEF Resolves
    <2> QED
      BY <2>2, <2>3 DEF SomebodyResolves
  <1>4. ASSUME NEW t \in Tasks, FinishTask(t)
        PROVE  SomebodyResolves'
    <2>1. \A other \in Tasks : other # t => task'[other] = task[other]
      BY <1>0, <1>4, LeavesOne DEF FinishTask
    <2>2. task[t].phase = "stored" /\ lost' = lost
      BY <1>4 DEF FinishTask, At
    <2>3. record'.status = IF task[t].loaded.status = "success" THEN record.status ELSE "success"
      BY <1>4, FinishedRecord
    <2>4. CASE task[t].loaded.status # "success"
      BY <2>3, <2>4 DEF SomebodyResolves
    <2>5. CASE task[t].loaded.status = "success"
      <3>1. \A other \in Tasks : Resolves(other) => Resolves(other)'
        BY <2>1, <2>2, <2>5 DEF Resolves
      <3> QED
        BY <2>2, <2>3, <2>5, <3>1 DEF SomebodyResolves
    <2> QED
      BY <2>4, <2>5
  <1>5. ASSUME NEW t \in Tasks, FailTask(t)
        PROVE  SomebodyResolves'
    <2>1. record'.status = "failed" \/ lost'
      BY <1>0, <1>5 DEF FailTask, Records
    <2> QED
      BY <2>1 DEF SomebodyResolves
  <1>6. ASSUME NEW t \in Tasks, LoseTask(t)
        PROVE  SomebodyResolves'
    <2>1. CASE lost'
      BY <2>1 DEF SomebodyResolves
    <2>2. CASE ~lost'
      <3>1. Leave(t, "unacked")
        BY <1>6, <2>2 DEF LoseTask
      <3>2. task'[t].phase = "unacked"
        BY <1>0, <3>1, LeavesOne
      <3> QED
        BY <3>2 DEF SomebodyResolves, Resolves
    <2> QED
      BY <2>1, <2>2
  <1>7. ASSUME NEW t \in Tasks, NEW again \in Tasks, Redeliver(t, again)
        PROVE  SomebodyResolves'
    <2>1. task'[again].phase = "queued"
      BY <1>0, <1>7, RedeliversOne
    <2> QED
      BY <2>1 DEF SomebodyResolves, Resolves
  <1> QED
    BY <1>1, <1>2, <1>3, <1>4, <1>5, <1>6, <1>7 DEF ExecutionNext, TaskStep

(* Nobody but t goes on or ends; if t executes before and after, what it relies on
   holds after. *)
LEMMA StaysTheOnlyExecution ==
  ASSUME OneExecution, ~overlap, NEW t \in Tasks, Executing(t),
         \A other \in Tasks : other # t => task'[other] = task[other],
         Executing(t)' => Undisturbed(t)'
  PROVE  OneExecution'
  <1>1. \A other \in Tasks : Executing(other)' => other = t
    BY DEF OneExecution, Executing
  <1> QED
    BY <1>1 DEF OneExecution

LEMMA OneExecutionStays ==
  ASSUME ExecutionTypeOK, OneExecution, ExecutionNext
  PROVE  OneExecution'
  <1> USE DEF Histories
  <1>0. TasksType /\ record \in Records
    BY DEF ExecutionTypeOK, TasksType
  <1>1. ASSUME NEW t \in Tasks, SubmitTask(t) \/ EnqueueTask(t)
        PROVE  OneExecution'
    <2>1. PICK phase \in {"submitted", "queued"} : Enter(t, phase)
      BY <1>1 DEF SubmitTask, EnqueueTask
    <2>2. /\ \A other \in Tasks : other # t => task'[other] = task[other]
          /\ task'[t].phase = phase
      BY <1>0, <2>1, EntersOne
    <2>3. /\ record'.status = record.status \/ record'.status = "pending"
          /\ record'.count = record.count /\ record'.ref = record.ref
          /\ UNCHANGED <<file, overlap>>
      BY <1>0, <1>1 DEF SubmitTask, EnqueueTask, Records
    <2>4. \A other \in Tasks : Executing(other)' => Executing(other) /\ task'[other] = task[other]
      BY <2>2 DEF Executing
    <2> QED
      BY <2>3, <2>4 DEF OneExecution, Undisturbed
  <1>2. ASSUME NEW t \in Tasks, StartTask(t)
        PROVE  OneExecution'
    <2>1. /\ \A other \in Tasks : other # t => task'[other] = task[other]
          /\ task'[t].phase = "started"
      BY <1>0, <1>2, EntersOne DEF StartTask
    <2>2. record'.status = "running"
      BY <1>0, <1>2 DEF StartTask, Records
    <2>3. ~overlap' => \A other \in Tasks : Executing(other)' => other = t
      BY <1>2, <2>1 DEF StartTask, Executing
    <2>4. Undisturbed(t)'
      BY <2>1, <2>2 DEF Undisturbed
    <2> QED
      BY <2>3, <2>4 DEF OneExecution
  <1>3. ASSUME NEW t \in Tasks, ExecuteTask(t), ~overlap
        PROVE  OneExecution'
    <2>1. Executing(t) /\ Undisturbed(t)
      BY <1>3 DEF ExecuteTask, At, Executing, OneExecution
    <2>2. /\ \A other \in Tasks : other # t => task'[other] = task[other]
          /\ task'[t].phase = "executed" /\ task'[t].loaded = record
          /\ record' = record
      BY <1>0, <1>3, ExecutesOne DEF ExecuteTask
    <2>3. Undisturbed(t)'
      BY <2>1, <2>2 DEF Undisturbed
    <2> QED
      BY <1>3, <2>1, <2>2, <2>3, StaysTheOnlyExecution
  <1>4. ASSUME NEW t \in Tasks, StoreTask(t), ~overlap
        PROVE  OneExecution'
    <2>1. Executing(t) /\ Undisturbed(t) /\ task[t].phase = "executed"
      BY <1>4 DEF StoreTask, At, Executing, OneExecution
    <2>2. /\ \A other \in Tasks : other # t => task'[other] = task[other]
          /\ task'[t].loaded = task[t].loaded /\ task'[t].rows = task[t].rows
      BY <1>0, <1>4, EntersOne DEF StoreTask
    <2>3. Undisturbed(t)'
      BY <1>4, <2>1, <2>2 DEF Undisturbed, StoreTask, InFile
    <2> QED
      BY <1>4, <2>1, <2>2, <2>3, StaysTheOnlyExecution
  <1>5. ASSUME NEW t \in Tasks, FinishTask(t) \/ FailTask(t) \/ (LoseTask(t) /\ Executing(t)), ~overlap
        PROVE  OneExecution'
    <2>1. PICK phase \in {"done", "unacked"} : Leave(t, phase)
      BY <1>5 DEF FinishTask, FailTask, LoseTask
    <2>2. /\ \A other \in Tasks : other # t => task'[other] = task[other]
          /\ task'[t].phase = phase
      BY <1>0, <2>1, LeavesOne
    <2>3. Executing(t) /\ ~Executing(t)'
      BY <1>5, <2>2 DEF FinishTask, FailTask, At, Executing
    <2> QED
      BY <1>5, <2>2, <2>3, StaysTheOnlyExecution
  <1>6. ASSUME NEW t \in Tasks, LoseTask(t), ~Executing(t)
        PROVE  OneExecution'
    <2>1. PICK phase \in {"done", "unacked"} : Leave(t, phase)
      BY <1>6 DEF LoseTask
    <2>2. /\ \A other \in Tasks : other # t => task'[other] = task[other]
          /\ task'[t].phase = phase
      BY <1>0, <2>1, LeavesOne
    <2>3. \A other \in Tasks : Executing(other)' => Executing(other) /\ task'[other] = task[other]
      BY <2>2 DEF Executing
    <2> QED
      BY <1>6, <2>3 DEF OneExecution, Undisturbed, LoseTask
  <1>7. ASSUME NEW t \in Tasks, NEW again \in Tasks, Redeliver(t, again)
        PROVE  OneExecution'
    <2>1. \A other \in Tasks : Executing(other)' =>
            /\ Executing(other) /\ task'[other].phase = task[other].phase
            /\ task'[other].loaded = task[other].loaded /\ task'[other].rows = task[other].rows
      BY <1>0, <1>7, RedeliversOne DEF Executing
    <2> QED
      BY <1>7, <2>1 DEF OneExecution, Undisturbed, Redeliver
  <1>8. CASE overlap
    BY <1>8 DEF OneExecution, ExecutionNext, TaskStep, SubmitTask, EnqueueTask, StartTask, ExecuteTask,
      StoreTask, FinishTask, FailTask, LoseTask, Redeliver
  <1> QED
    BY <1>1, <1>2, <1>3, <1>4, <1>5, <1>6, <1>7, <1>8 DEF ExecutionNext, TaskStep

LEMMA ResultStaysTheRecords ==
  ASSUME ExecutionTypeOK, OneExecution, ResultMatchesRecord, ExecutionNext
  PROVE  ResultMatchesRecord'
  <1> USE DEF Histories
  <1>0. TasksType /\ record \in Records
    BY DEF ExecutionTypeOK, TasksType
  <1>1. ASSUME NEW t \in Tasks, SubmitTask(t) \/ StartTask(t)
        PROVE  ResultMatchesRecord'
    <2>1. record'.status # "success"
      BY <1>0, <1>1 DEF SubmitTask, StartTask, Records
    <2> QED
      BY <2>1 DEF ResultMatchesRecord
  <1>2. ASSUME NEW t \in Tasks, ExecuteTask(t) \/ StoreTask(t), ~overlap
        PROVE  ResultMatchesRecord'
    <2>1. Undisturbed(t) /\ record' = record
      BY <1>2 DEF ExecuteTask, StoreTask, At, Executing, OneExecution
    <2> QED
      BY <2>1 DEF ResultMatchesRecord, Undisturbed
  <1>3. ASSUME UNCHANGED <<record, file, overlap>>, \A t \in Tasks : task'[t].rows = task[t].rows
        PROVE  ResultMatchesRecord'
    <2>1. record.ref \in Tasks \cup {NoRef, FileRef}
      BY <1>0 DEF Records
    <2>2. record.ref # NoRef => LoadedRows' = LoadedRows
      BY <1>3, <2>1 DEF LoadedRows, InFile
    <2> QED
      BY <1>3, <2>2 DEF ResultMatchesRecord
  <1>4. ASSUME NEW t \in Tasks, EnqueueTask(t)
        PROVE  ResultMatchesRecord'
    <2>1. \A other \in Tasks : task'[other].rows = task[other].rows
      BY <1>0, <1>4, EntersOne DEF EnqueueTask
    <2> QED
      BY <1>3, <1>4, <2>1 DEF EnqueueTask
  <1>5. ASSUME NEW t \in Tasks, LoseTask(t)
        PROVE  ResultMatchesRecord'
    <2>1. PICK phase \in {"done", "unacked"} : Leave(t, phase)
      BY <1>5 DEF LoseTask
    <2>2. \A other \in Tasks : task'[other].rows = task[other].rows
      BY <1>0, <2>1, LeavesOne
    <2> QED
      BY <1>3, <1>5, <2>2 DEF LoseTask
  <1>6. ASSUME NEW t \in Tasks, NEW again \in Tasks, Redeliver(t, again)
        PROVE  ResultMatchesRecord'
    <2>1. \A other \in Tasks : task'[other].rows = task[other].rows
      BY <1>0, <1>6, RedeliversOne
    <2> QED
      BY <1>3, <1>6, <2>1 DEF Redeliver
  <1>7. ASSUME NEW t \in Tasks, FinishTask(t), ~overlap
        PROVE  ResultMatchesRecord'
    <2>1. Undisturbed(t) /\ task[t].phase = "stored"
      BY <1>7 DEF FinishTask, At, Executing, OneExecution
    <2>2. /\ record'.count = task[t].rows
          /\ record'.ref = IF InFile(task[t].rows) THEN FileRef ELSE t
      BY <1>7, <2>1, FinishedRecord DEF Undisturbed
    <2>3. task'[t].rows = task[t].rows /\ file' = file
      BY <1>0, <1>7, LeavesOne DEF FinishTask
    <2>4. NoRef # FileRef /\ t # NoRef /\ t # FileRef
      BY ExecutionAssumption
    <2>5. CASE InFile(task[t].rows)
      BY <2>1, <2>2, <2>3, <2>4, <2>5 DEF ResultMatchesRecord, LoadedRows, Undisturbed
    <2>6. CASE ~InFile(task[t].rows)
      BY <2>2, <2>3, <2>4, <2>6 DEF ResultMatchesRecord, LoadedRows, InFile
    <2> QED
      BY <2>5, <2>6
  <1>9. ASSUME NEW t \in Tasks, FailTask(t), ~overlap
        PROVE  ResultMatchesRecord'
    <2>1. record.status # "success"
      BY <1>9 DEF FailTask, OneExecution, Undisturbed
    <2>2. record'.status # "success"
      BY <1>0, <1>9, <2>1 DEF FailTask, Records
    <2> QED
      BY <2>2 DEF ResultMatchesRecord
  <1>8. CASE overlap
    BY <1>8 DEF ResultMatchesRecord, ExecutionNext, TaskStep, SubmitTask, EnqueueTask, StartTask,
      ExecuteTask, StoreTask, FinishTask, FailTask, LoseTask, Redeliver
  <1> QED
    BY <1>1, <1>2, <1>4, <1>5, <1>6, <1>7, <1>8, <1>9 DEF ExecutionNext, TaskStep

LEMMA ExecutionStep ==
  ASSUME ExecutionInv, [ExecutionNext]_executionVars
  PROVE  ExecutionInv'
  <1>1. CASE ExecutionNext
    BY <1>1, ExecutionTypes, OneExecutionStays, ResultStaysTheRecords, SomebodyStillResolves
      DEF ExecutionInv
  <1>2. CASE UNCHANGED executionVars
    BY <1>2 DEF executionVars, ExecutionInv, ExecutionTypeOK, OneExecution, Undisturbed, Executing,
      InFile, ResultMatchesRecord, LoadedRows, SomebodyResolves, Resolves
  <1> QED
    BY <1>1, <1>2

(* What a client reads of an execution is true (execute_query, store_result,
   create_execute), for every number of submissions and deliveries, every result
   and every threshold. *)
THEOREM ExecutionsAreTrue == ExecutionSpec => []RecordIsTrue
  <1>1. ExecutionInit => ExecutionInv
    BY ExecutionInitInv
  <1>2. ExecutionInv /\ [ExecutionNext]_executionVars => ExecutionInv'
    BY ExecutionStep
  <1>3. ExecutionInv => RecordIsTrue
    BY ResolvedIsNoLimbo DEF ExecutionInv, RecordIsTrue
  <1> QED
    BY <1>1, <1>2, <1>3, PTL DEF ExecutionSpec

-------------------------------------------------------------------------------
(* Feedback *)

LEMMA FlushedColumns ==
  ASSUME NEW stored \in Columns, NEW loaded \in Columns, NEW set \in Columns
  PROVE  /\ Flushed(stored, loaded, set) \in Columns
         /\ stored = loaded => Flushed(stored, loaded, set) = set
  <1> DEFINE f == [status |-> IF set.status = loaded.status THEN stored.status ELSE set.status,
                   note   |-> IF set.note = loaded.note THEN stored.note ELSE set.note,
                   final  |-> IF set.final = loaded.final THEN stored.final ELSE set.final]
  <1>1. Flushed(stored, loaded, set) = f
    BY DEF Flushed, Columns
  <1>2. f \in Columns
    BY DEF Columns
  <1>3. stored = loaded => f = set
    BY DEF Columns
  <1> QED
    BY <1>1, <1>2, <1>3

LEMMA PayloadColumns == Payloads \subseteq Columns
  BY DEF Payloads, Columns

FeedbackInv == FeedbackTypeOK /\ FeedbackIsConsistent

LEMMA FeedbackInitInv ==
  ASSUME FeedbackInit
  PROVE  FeedbackInv
  BY DEF FeedbackInit, FeedbackInv, FeedbackTypeOK, FeedbackIsConsistent, RequestStates

LEMMA CommitType ==
  ASSUME FeedbackTypeOK, NEW q \in Requests, NEW stored \in FeedbackRows \cup {Null}, NEW answer \in {"ok", "error"},
         Commit(q, stored, answer)
  PROVE  FeedbackTypeOK'
  BY DEF FeedbackTypeOK, Commit, RequestStates

LEMMA FeedbackStep ==
  ASSUME FeedbackInv, [FeedbackNext]_feedbackVars
  PROVE  FeedbackInv'
  <1>0. /\ FeedbackTypeOK /\ FeedbackIsConsistent
        /\ feedback \in FeedbackRows \cup {Null} /\ request \in [Requests -> RequestStates]
    BY DEF FeedbackInv, FeedbackTypeOK
  <1>1. ASSUME NEW q \in Requests, ReadFeedback(q)
        PROVE  FeedbackInv'
    BY <1>0, <1>1 DEF ReadFeedback, FeedbackInv, FeedbackTypeOK, FeedbackIsConsistent, RequestStates
  <1>2. ASSUME NEW q \in Requests, NEW answer \in {"ok", "error"}, Commit(q, feedback, answer)
        PROVE  FeedbackInv'
    <2>1. FeedbackTypeOK'
      BY <1>0, <1>2, CommitType
    <2> QED
      BY <1>0, <1>2, <2>1 DEF FeedbackInv, FeedbackIsConsistent, Commit
  <1>3. ASSUME NEW q \in Requests, InsertFeedback(q)
        PROVE  FeedbackInv'
    <2>1. CASE feedback = Null
      <3>1. request[q].asks \in Payloads
        BY <1>0, <1>3 DEF InsertFeedback, RequestStates
      <3> DEFINE stored == [id |-> q, columns |-> request[q].asks]
      <3>2. stored \in FeedbackRows /\ stored.columns \in Payloads /\ Commit(q, stored, "ok")
        BY <1>3, <2>1, <3>1, PayloadColumns DEF InsertFeedback, FeedbackRows
      <3>3. FeedbackTypeOK'
        BY <1>0, <3>2, CommitType
      <3> QED
        BY <3>2, <3>3 DEF FeedbackInv, FeedbackIsConsistent, Commit
    <2> QED
      BY <1>2, <1>3, <2>1 DEF InsertFeedback
  <1>4. ASSUME NEW q \in Requests, UpdateFeedback(q)
        PROVE  FeedbackInv'
    <2>1. CASE IsSame(q)
      <3>1. request[q].asks \in Payloads /\ request[q].read \in FeedbackRows /\ feedback \in FeedbackRows
        BY <1>0, <1>4, <2>1 DEF UpdateFeedback, IsSame, RequestStates
      <3>2. /\ request[q].asks \in Columns /\ request[q].read.columns \in Columns
            /\ feedback.columns \in Columns
        BY <3>1, PayloadColumns DEF FeedbackRows
      <3> DEFINE columns == Flushed(feedback.columns, request[q].read.columns, request[q].asks)
                 stored == [feedback EXCEPT !.columns = columns]
      <3>3. /\ columns \in Columns
            /\ feedback = request[q].read => columns = request[q].asks
        BY <3>2, FlushedColumns
      <3>4. stored \in FeedbackRows /\ stored.columns = columns /\ Commit(q, stored, "ok")
        BY <1>4, <2>1, <3>1, <3>3 DEF UpdateFeedback, FeedbackRows
      <3>5. FeedbackTypeOK'
        BY <1>0, <3>4, CommitType
      <3>6. feedback' = stored /\ (~crossed' => feedback = request[q].read)
        BY <3>4 DEF Commit
      <3> HIDE DEF stored, columns
      <3> QED
        BY <3>1, <3>3, <3>4, <3>5, <3>6 DEF FeedbackInv, FeedbackIsConsistent
    <2> QED
      BY <1>2, <1>4, <2>1 DEF UpdateFeedback
  <1>5. ASSUME NEW q \in Requests, DeleteFeedback(q)
        PROVE  FeedbackInv'
    <2>1. CASE IsSame(q)
      <3>1. Commit(q, Null, "ok")
        BY <1>5, <2>1 DEF DeleteFeedback
      <3>2. FeedbackTypeOK'
        BY <1>0, <3>1, CommitType
      <3> QED
        BY <3>1, <3>2 DEF FeedbackInv, FeedbackIsConsistent, Commit
    <2> QED
      BY <1>2, <1>5, <2>1 DEF DeleteFeedback
  <1>6. CASE UNCHANGED feedbackVars
    BY <1>0, <1>6 DEF feedbackVars, FeedbackInv, FeedbackTypeOK, FeedbackIsConsistent
  <1> QED
    BY <1>1, <1>3, <1>4, <1>5, <1>6 DEF FeedbackNext

-------------------------------------------------------------------------------
(* The ontology tables *)

(* An edit is no newer than the tables; whoever still loads them has what its
   process has confirmed, or knows that it was overtaken. *)
LoadsAreCurrent ==
  /\ \A e \in Editors : editor[e].edit <= comments
  /\ \A s \in Servers : acknowledged[s] <= comments
  /\ \A r \in Readers : reader[r].phase = "loaded" =>
       reader[r].loaded.crossed \/ reader[r].loaded.value >= acknowledged[ServerOf[r]]

(* A field has exactly one description; whose it is has written them all. *)
DescribedOnce ==
  /\ \A f \in Fields : \E x : active[f] = {x}
  /\ \A f \in Fields : \A e \in active[f] \cap Editors :
       /\ editor[e].phase \in {"importing", "done", "failed"}
       /\ \A g \in editor[e].fields : active[g] \subseteq Editors

MetadataInv == MetadataTypeOK /\ EditsTakeEffect /\ LoadsAreCurrent /\ DescribedOnce

LEMMA DescriptionsFollow ==
  ASSUME MetadataTypeOK, DescribedOnce
  PROVE  DescriptionsAreWhole
  <1>1. ASSUME NEW f \in Fields
        PROVE  Cardinality(active[f]) <= 1
    <2>1. PICK x : active[f] = {x}
      BY DEF DescribedOnce
    <2>2. Cardinality({x}) = 1
      BY FS_Singleton
    <2> QED
      BY <2>1, <2>2
  <1>2. ASSUME NEW f \in Fields, NEW e \in active[f] \cap Editors, NEW g \in editor[e].fields
        PROVE  active[g] \subseteq Editors /\ active[g] # {}
    <2>1. g \in Fields
      BY DEF MetadataTypeOK
    <2> QED
      BY <2>1 DEF DescribedOnce
  <1> QED
    BY <1>1, <1>2 DEF DescriptionsAreWhole

LEMMA MetadataInitInv ==
  ASSUME MetadataInit
  PROVE  MetadataInv
  <1>1. MetadataTypeOK
    BY DEF MetadataInit, MetadataTypeOK, Entries, NoEntry
  <1>2. EditsTakeEffect /\ LoadsAreCurrent
    BY DEF MetadataInit, EditsTakeEffect, LoadsAreCurrent, NoEntry
  <1>3. DescribedOnce
    BY MetadataAssumption DEF MetadataInit, DescribedOnce
  <1> QED
    BY <1>1, <1>2, <1>3 DEF MetadataInv

EditorStates ==
  [edit : Nat, fields : SUBSET Fields,
   phase : {"new", "altered", "writing", "importing", "done", "failed"}]
ReaderStates == [phase : {"new", "loaded", "done"}, loaded : Entries]

LEMMA EditorsMove ==
  ASSUME MetadataTypeOK, NEW e \in Editors,
         NEW phase \in {"new", "altered", "writing", "importing", "done", "failed"}, EditorGoes(e, phase)
  PROVE  editor' \in [Editors -> EditorStates]
  BY DEF MetadataTypeOK, EditorGoes, EditorStates

LEMMA MetadataTypes ==
  ASSUME MetadataTypeOK, MetadataNext
  PROVE  MetadataTypeOK'
  <1> DEFINE Types(c, a, ca, ed, re, ack) ==
               /\ c \in Nat /\ a \in [Fields -> SUBSET (Editors \cup {"migrated"})]
               /\ ca \in [Servers -> Entries] /\ ed \in [Editors -> EditorStates]
               /\ re \in [Readers -> ReaderStates] /\ ack \in [Servers -> Nat]
  <1>0. NoEntry \in Entries /\ comments + 1 \in Nat
    BY DEF NoEntry, Entries, MetadataTypeOK
  <1>t. Types(comments, active, cached, editor, reader, acknowledged)
    BY DEF MetadataTypeOK, EditorStates, ReaderStates
  <1>u. SUFFICES Types(comments', active', cached', editor', reader', acknowledged')
    BY DEF MetadataTypeOK, EditorStates, ReaderStates
  <1>1. ASSUME NEW e \in Editors, AlterComment(e)
        PROVE  Types(comments', active', cached', editor', reader', acknowledged')
    <2>2. [phase |-> "altered", edit |-> comments + 1, fields |-> {}] \in EditorStates
      BY <1>0 DEF EditorStates
    <2>1. editor' \in [Editors -> EditorStates]
      BY <1>1, <1>t, <2>2 DEF AlterComment
    <2> QED
      BY <1>0, <1>1, <1>t, <2>1 DEF AlterComment
  <1>2. ASSUME NEW e \in Editors, ClearCache(e)
        PROVE  Types(comments', active', cached', editor', reader', acknowledged')
    <2> DEFINE s == ServerOf[e]
    <2>1. s \in Servers /\ editor[e].edit \in Nat
      BY <1>t, MetadataAssumption DEF EditorStates
    <2>2. \A r \in Readers : [reader[r] EXCEPT !.loaded.crossed = TRUE] \in ReaderStates
      BY <1>t DEF ReaderStates, Entries
    <2>3. reader' \in [Readers -> ReaderStates]
      <3>1. reader' = [r \in Readers |-> IF ServerOf[r] = s /\ reader[r].phase = "loaded"
                                              /\ reader[r].loaded.value < editor[e].edit
                                           THEN [reader[r] EXCEPT !.loaded.crossed = TRUE] ELSE reader[r]]
        BY <1>2 DEF ClearCache
      <3>2. \A r \in Readers : reader'[r] \in ReaderStates
        BY <1>t, <2>2, <3>1
      <3> QED
        BY <3>1, <3>2
    <2>4. cached' \in [Servers -> Entries]
      BY <1>0, <1>2, <1>t, <2>1 DEF ClearCache
    <2>5. acknowledged' \in [Servers -> Nat]
      BY <1>2, <1>t, <2>1 DEF ClearCache
    <2>6. editor' \in [Editors -> EditorStates]
      BY <1>2, EditorsMove DEF ClearCache
    <2> QED
      BY <1>2, <1>t, <2>3, <2>4, <2>5, <2>6 DEF ClearCache
  <1>3. ASSUME NEW e \in Editors, WriteDescriptions(e)
        PROVE  Types(comments', active', cached', editor', reader', acknowledged')
    <2>1. PICK fields \in {Fields} \cup {{f} : f \in Fields} :
            editor' = [editor EXCEPT ![e] = [phase |-> "writing", edit |-> 0, fields |-> fields]]
      BY <1>3 DEF WriteDescriptions
    <2>3. [phase |-> "writing", edit |-> 0, fields |-> fields] \in EditorStates
      BY DEF EditorStates
    <2>2. editor' \in [Editors -> EditorStates]
      BY <1>t, <2>1, <2>3
    <2> QED
      BY <1>3, <1>t, <2>2 DEF WriteDescriptions
  <1>4. ASSUME NEW e \in Editors, CommitDescriptions(e) \/ AlterByImport(e) \/ FinishImport(e) \/ EditFails(e)
        PROVE  Types(comments', active', cached', editor', reader', acknowledged')
    <2>1. active' \in [Fields -> SUBSET (Editors \cup {"migrated"})]
      BY <1>4, <1>t DEF CommitDescriptions, AlterByImport, FinishImport, EditFails, Described
    <2>2. comments' \in Nat
      BY <1>0, <1>4, <1>t DEF CommitDescriptions, AlterByImport, FinishImport, EditFails
    <2>3. \E phase \in {"done", "importing", "failed"} : EditorGoes(e, phase)
      BY <1>4 DEF CommitDescriptions, AlterByImport, FinishImport, EditFails
    <2>4. editor' \in [Editors -> EditorStates]
      BY <2>3, EditorsMove
    <2>5. UNCHANGED <<cached, reader, acknowledged>>
      BY <1>4 DEF CommitDescriptions, AlterByImport, FinishImport, EditFails
    <2> QED
      BY <1>t, <2>1, <2>2, <2>4, <2>5
  <1>5. ASSUME NEW r \in Readers, UseCache(r) \/ LoadTables(r) \/ StoreTables(r)
        PROVE  Types(comments', active', cached', editor', reader', acknowledged')
    <2>1. ServerOf[r] \in Servers
      BY MetadataAssumption
    <2>2. [held |-> TRUE, value |-> comments, crossed |-> FALSE] \in Entries
      BY <1>t DEF Entries
    <2>3. reader' \in [Readers -> ReaderStates]
      BY <1>5, <1>t, <2>1, <2>2 DEF UseCache, LoadTables, StoreTables, ReaderStates
    <2>4. cached' \in [Servers -> Entries]
      BY <1>5, <1>t, <2>1 DEF UseCache, LoadTables, StoreTables, ReaderStates
    <2> QED
      BY <1>5, <1>t, <2>3, <2>4 DEF UseCache, LoadTables, StoreTables
  <1>6. ASSUME NEW s \in Servers, ExpireCache(s)
        PROVE  Types(comments', active', cached', editor', reader', acknowledged')
    BY <1>0, <1>6, <1>t DEF ExpireCache
  <1> QED
    BY <1>1, <1>2, <1>3, <1>4, <1>5, <1>6 DEF MetadataNext, EditorStep

LEMMA CachesStayCurrent ==
  ASSUME MetadataTypeOK, EditsTakeEffect, LoadsAreCurrent, MetadataNext
  PROVE  EditsTakeEffect' /\ LoadsAreCurrent'
  <1> USE DEF MetadataTypeOK, EditorGoes
  <1>1. ASSUME NEW e \in Editors, AlterComment(e)
        PROVE  EditsTakeEffect' /\ LoadsAreCurrent'
    <2>1. EditsTakeEffect'
      BY <1>1 DEF AlterComment, EditsTakeEffect
    <2>2. \A other \in Editors : editor'[other].edit <= comments'
      BY <1>1 DEF AlterComment, LoadsAreCurrent
    <2>3. \A s \in Servers : acknowledged'[s] <= comments'
      BY <1>1 DEF AlterComment, LoadsAreCurrent
    <2> QED
      BY <1>1, <2>1, <2>2, <2>3 DEF AlterComment, LoadsAreCurrent
  <1>2. ASSUME NEW e \in Editors, ClearCache(e)
        PROVE  EditsTakeEffect' /\ LoadsAreCurrent'
    <2> DEFINE s == ServerOf[e]
    <2>1. s \in Servers /\ editor[e].edit \in Nat /\ editor[e].edit <= comments
      BY MetadataAssumption DEF LoadsAreCurrent
    <2>2. /\ cached' = [cached EXCEPT ![s] = NoEntry]
          /\ acknowledged' = [acknowledged EXCEPT ![s] =
               IF editor[e].edit > @ THEN editor[e].edit ELSE @]
          /\ reader' = [r \in Readers |-> IF ServerOf[r] = s /\ reader[r].phase = "loaded"
                                           /\ reader[r].loaded.value < editor[e].edit
                                        THEN [reader[r] EXCEPT !.loaded.crossed = TRUE] ELSE reader[r]]
          /\ editor' = [editor EXCEPT ![e].phase = "done"] /\ comments' = comments
      BY <1>2 DEF ClearCache
    <2>3. EditsTakeEffect'
      <3>1. ASSUME NEW x \in Servers
            PROVE  cached'[x].crossed \/ cached'[x].value >= acknowledged'[x]
        <4>1. CASE x = s
          BY <2>1, <2>2, <4>1 DEF NoEntry
        <4>2. CASE x # s
          BY <2>1, <2>2, <4>2 DEF EditsTakeEffect
        <4> QED
          BY <4>1, <4>2
      <3> QED
        BY <3>1 DEF EditsTakeEffect
    <2>4. \A x \in Servers : acknowledged'[x] <= comments'
      BY <2>1, <2>2 DEF LoadsAreCurrent
    <2>5. \A other \in Editors : editor'[other].edit <= comments'
      BY <2>2 DEF LoadsAreCurrent
    <2>6. ASSUME NEW r \in Readers, reader'[r].phase = "loaded"
          PROVE  reader'[r].loaded.crossed \/ reader'[r].loaded.value >= acknowledged'[ServerOf[r]]
      <3>1. ServerOf[r] \in Servers /\ reader[r].loaded \in Entries
        BY MetadataAssumption
      <3>2. CASE ServerOf[r] = s /\ reader[r].phase = "loaded" /\ reader[r].loaded.value < editor[e].edit
        BY <2>2, <3>1, <3>2 DEF Entries
      <3>3. CASE ~(ServerOf[r] = s /\ reader[r].phase = "loaded" /\ reader[r].loaded.value < editor[e].edit)
        <4>1. reader'[r] = reader[r]
          BY <2>2, <3>3
        <4>2. reader[r].loaded.crossed \/ reader[r].loaded.value >= acknowledged[ServerOf[r]]
          BY <2>6, <4>1 DEF LoadsAreCurrent
        <4>3. ServerOf[r] = s => reader[r].loaded.value >= editor[e].edit
          BY <2>1, <2>6, <3>1, <3>3, <4>1 DEF Entries
        <4> QED
          BY <2>1, <2>2, <3>1, <4>1, <4>2, <4>3 DEF Entries
      <3> QED
        BY <3>2, <3>3
    <2> QED
      BY <2>3, <2>4, <2>5, <2>6 DEF LoadsAreCurrent
  <1>3. ASSUME NEW e \in Editors,
               WriteDescriptions(e) \/ CommitDescriptions(e) \/ AlterByImport(e) \/ FinishImport(e) \/ EditFails(e)
        PROVE  EditsTakeEffect' /\ LoadsAreCurrent'
    <2>1. UNCHANGED <<cached, reader, acknowledged>>
      BY <1>3 DEF WriteDescriptions, CommitDescriptions, AlterByImport, FinishImport, EditFails
    <2>2. comments' \in {comments, comments + 1}
      BY <1>3 DEF WriteDescriptions, CommitDescriptions, AlterByImport, FinishImport, EditFails
    <2>3. \A other \in Editors : editor'[other].edit \in {0, editor[other].edit}
      <3>1. CASE WriteDescriptions(e)
        <4>1. PICK fields : editor' = [editor EXCEPT ![e] = [phase |-> "writing", edit |-> 0, fields |-> fields]]
          BY <3>1 DEF WriteDescriptions
        <4> QED
          BY <4>1
      <3>2. CASE CommitDescriptions(e) \/ AlterByImport(e) \/ FinishImport(e) \/ EditFails(e)
        BY <3>2 DEF CommitDescriptions, AlterByImport, FinishImport, EditFails
      <3> QED
        BY <1>3, <3>1, <3>2
    <2>4. \A other \in Editors : editor'[other].edit <= comments'
      BY <2>2, <2>3 DEF LoadsAreCurrent
    <2>5. \A s \in Servers : acknowledged'[s] <= comments'
      BY <2>1, <2>2 DEF LoadsAreCurrent
    <2> QED
      BY <2>1, <2>4, <2>5 DEF EditsTakeEffect, LoadsAreCurrent
  <1>4. ASSUME NEW r \in Readers, UseCache(r)
        PROVE  EditsTakeEffect' /\ LoadsAreCurrent'
    BY <1>4 DEF UseCache, EditsTakeEffect, LoadsAreCurrent
  <1>5. ASSUME NEW r \in Readers, LoadTables(r)
        PROVE  EditsTakeEffect' /\ LoadsAreCurrent'
    <2>1. comments >= acknowledged[ServerOf[r]]
      BY MetadataAssumption DEF LoadsAreCurrent
    <2> QED
      BY <1>5, <2>1 DEF LoadTables, EditsTakeEffect, LoadsAreCurrent
  <1>6. ASSUME NEW r \in Readers, StoreTables(r)
        PROVE  EditsTakeEffect' /\ LoadsAreCurrent'
    <2>1. ServerOf[r] \in Servers
      BY MetadataAssumption
    <2> QED
      BY <1>6, <2>1 DEF StoreTables, EditsTakeEffect, LoadsAreCurrent
  <1>7. ASSUME NEW s \in Servers, ExpireCache(s)
        PROVE  EditsTakeEffect' /\ LoadsAreCurrent'
    BY <1>7 DEF ExpireCache, EditsTakeEffect, LoadsAreCurrent, NoEntry
  <1> QED
    BY <1>1, <1>2, <1>3, <1>4, <1>5, <1>6, <1>7 DEF MetadataNext, EditorStep

LEMMA DescribedOnceStays ==
  ASSUME MetadataTypeOK, DescribedOnce, MetadataNext
  PROVE  DescribedOnce'
  <1> USE DEF MetadataTypeOK, EditorGoes
  <1>1. ASSUME UNCHANGED active,
               \A e \in Editors : editor[e].phase \in {"importing", "done", "failed"} =>
                 /\ editor'[e].phase \in {"importing", "done", "failed"}
                 /\ editor'[e].fields = editor[e].fields
        PROVE  DescribedOnce'
    BY <1>1 DEF DescribedOnce
  <1>2. ASSUME NEW e \in Editors,
               AlterComment(e) \/ ClearCache(e) \/ WriteDescriptions(e) \/ FinishImport(e) \/ EditFails(e)
        PROVE  DescribedOnce'
    <2>1. UNCHANGED active
      BY <1>2 DEF AlterComment, ClearCache, WriteDescriptions, FinishImport, EditFails
    <2>2. \A other \in Editors : editor[other].phase \in {"importing", "done", "failed"} =>
            /\ editor'[other].phase \in {"importing", "done", "failed"}
            /\ editor'[other].fields = editor[other].fields
      BY <1>2 DEF AlterComment, ClearCache, WriteDescriptions, FinishImport, EditFails, EditorAt
    <2> QED
      BY <1>1, <2>1, <2>2
  <1>3. ASSUME NEW e \in Editors, CommitDescriptions(e) \/ AlterByImport(e)
        PROVE  DescribedOnce'
    <2> DEFINE fields == editor[e].fields
    <2>1. fields \subseteq Fields /\ editor[e].phase = "writing"
      BY <1>3 DEF CommitDescriptions, AlterByImport, EditorAt
    <2>2. /\ active' = Described(e, fields)
          /\ editor'[e].phase \in {"done", "importing"}
          /\ \A other \in Editors : /\ other # e => editor'[other] = editor[other]
                                    /\ editor'[other].fields = editor[other].fields
      BY <1>3 DEF CommitDescriptions, AlterByImport
    <2>3. \A f \in Fields : active'[f] = IF f \in fields THEN {e} ELSE active[f]
      BY <2>2 DEF Described
    <2>4. \A f \in Fields : \E x : active'[f] = {x}
      BY <2>3 DEF DescribedOnce
    <2>5. ASSUME NEW f \in Fields, NEW x \in active'[f] \cap Editors
          PROVE  /\ editor'[x].phase \in {"importing", "done", "failed"}
                 /\ \A g \in editor'[x].fields : active'[g] \subseteq Editors
      <3>1. CASE x = e
        BY <2>1, <2>2, <2>3, <3>1
      <3>2. CASE x # e
        <4>1. x \in active[f] /\ editor'[x] = editor[x]
          BY <2>2, <2>3, <2>5, <3>2
        <4>2. \A g \in editor[x].fields : g \in Fields /\ active[g] \subseteq Editors
          BY <2>5, <4>1 DEF DescribedOnce
        <4> QED
          BY <2>3, <2>5, <4>1, <4>2 DEF DescribedOnce
      <3> QED
        BY <3>1, <3>2
    <2> QED
      BY <2>4, <2>5 DEF DescribedOnce
  <1>4. ASSUME NEW r \in Readers, UseCache(r) \/ LoadTables(r) \/ StoreTables(r)
        PROVE  DescribedOnce'
    BY <1>4 DEF UseCache, LoadTables, StoreTables, DescribedOnce
  <1>5. ASSUME NEW s \in Servers, ExpireCache(s)
        PROVE  DescribedOnce'
    BY <1>5 DEF ExpireCache, DescribedOnce
  <1> QED
    BY <1>2, <1>3, <1>4, <1>5 DEF MetadataNext, EditorStep

LEMMA MetadataStep ==
  ASSUME MetadataInv, [MetadataNext]_metadataVars
  PROVE  MetadataInv'
  <1>1. CASE MetadataNext
    BY <1>1, MetadataTypes, CachesStayCurrent, DescribedOnceStays DEF MetadataInv
  <1>2. CASE UNCHANGED metadataVars
    BY <1>2 DEF metadataVars, MetadataInv, MetadataTypeOK, EditsTakeEffect, LoadsAreCurrent, DescribedOnce
  <1> QED
    BY <1>1, <1>2

-------------------------------------------------------------------------------
(* Each service by itself *)

(* The feedback of a message is what one client sent (put_message_feedback), for
   every number of requests, notes and scripts. *)
THEOREM FeedbackStaysConsistent == FeedbackSpec => [](FeedbackTypeOK /\ FeedbackIsConsistent)
  <1>1. FeedbackInit => FeedbackInv
    BY FeedbackInitInv
  <1>2. FeedbackInv /\ [FeedbackNext]_feedbackVars => FeedbackInv'
    BY FeedbackStep
  <1> QED
    BY <1>1, <1>2, PTL DEF FeedbackSpec, FeedbackInv

(* Confirmed edits are visible and descriptions whole (api/routes/ontology.py,
   _cached, import_field_meta), for every number of processes, edits, questions
   and fields. *)
THEOREM MetadataStaysConsistent == MetadataSpec => [](MetadataTypeOK /\ MetadataIsConsistent)
  <1>1. MetadataInit => MetadataInv
    BY MetadataInitInv
  <1>2. MetadataInv /\ [MetadataNext]_metadataVars => MetadataInv'
    BY MetadataStep
  <1>3. MetadataInv => MetadataTypeOK /\ MetadataIsConsistent
    BY DescriptionsFollow DEF MetadataInv, MetadataIsConsistent
  <1> QED
    BY <1>1, <1>2, <1>3, PTL DEF MetadataSpec

(* A decided case is decided again only by a thread that had taken it up before,
   beside another one (EvaluationRunner.run). *)
THEOREM DecisionsStay == EvaluationSpec => DecidedCasesStay
  <1>1. EvaluationInit => EvaluationInv
    BY EvaluationInitInv
  <1>2. EvaluationInv /\ [EvaluationNext]_evaluationVars => EvaluationInv'
    BY EvaluationStep
  <1>3. EvaluationInv /\ [EvaluationNext]_evaluationVars =>
          [\A c \in Cases : cases[c].status \in Decided /\ cases'[c] # cases[c] =>
             doubled /\ \E s \in Starts : TakenUp(s, c)]_evaluationVars
    BY ChangedByItsThread
  <1> QED
    BY <1>1, <1>2, <1>3, PTL DEF EvaluationSpec, DecidedCasesStay

-------------------------------------------------------------------------------
(* The services side by side *)

LEMMA StepOfOne ==
  ASSUME [Next]_vars
  PROVE  /\ [ConversationNext]_conversationVars /\ [EvaluationNext]_evaluationVars
         /\ [ExecutionNext]_executionVars /\ [FeedbackNext]_feedbackVars
         /\ [MetadataNext]_metadataVars
         /\ service' = service
  <1>1. CASE Next
    BY <1>1 DEF Next, OnlyConversations, OnlyEvaluations, OnlyExecute, OnlyFeedback, OnlyOntology
  <1>2. CASE UNCHANGED vars
    BY <1>2 DEF vars
  <1> QED
    BY <1>1, <1>2

(* The composition implements the specification of every service: what one of
   them promises it promises beside the others. *)
THEOREM ServicesAreIndependent ==
  Spec => ConversationSpec /\ EvaluationSpec /\ ExecutionSpec /\ FeedbackSpec /\ MetadataSpec
  <1>1. Init => ConversationInit /\ EvaluationInit /\ ExecutionInit /\ FeedbackInit /\ MetadataInit
    BY DEF Init
  <1>2. [Next]_vars => /\ [ConversationNext]_conversationVars /\ [EvaluationNext]_evaluationVars
                       /\ [ExecutionNext]_executionVars /\ [FeedbackNext]_feedbackVars
                       /\ [MetadataNext]_metadataVars
    BY StepOfOne
  <1> QED
    BY <1>1, <1>2, PTL
      DEF Spec, ConversationSpec, EvaluationSpec, ExecutionSpec, FeedbackSpec, MetadataSpec

(* Every variable of every service keeps its type. *)
THEOREM TypesStay == Spec => []TypeOK
  <1> DEFINE Inv == service \in Routers /\ TurnsInv /\ EvaluationInv /\ ExecutionInv /\ FeedbackInv /\ MetadataInv
  <1>1. Init => Inv
    BY TurnsInitInv, EvaluationInitInv, ExecutionInitInv, FeedbackInitInv, MetadataInitInv DEF Init
  <1>2. Inv /\ [Next]_vars => Inv'
    BY StepOfOne, TurnsStep, EvaluationStep, ExecutionStep, FeedbackStep, MetadataStep
  <1>3. Inv => TypeOK
    BY DEF TypeOK, TurnsInv, EvaluationInv, ExecutionInv, FeedbackInv, MetadataInv
  <1> QED
    BY <1>1, <1>2, <1>3, PTL DEF Spec

(* A success clients were told of stays, and a failure is final (message_status). *)
THEOREM VerdictsStayFinal == Spec => []VerdictsAreFinal
  BY ServicesAreIndependent, TurnsAreSound, PTL

(* No answer is forgotten, and the recent turns stay raw (assemble). *)
THEOREM HistoryStaysWhole == Spec => []HistoryIsWhole
  BY ServicesAreIndependent, TurnsAreSound, PTL

(* A completed run is sound, beside the other services (EvaluationRunner.run). *)
THEOREM CompletedRunsStaySound == Spec => []CompletedRunIsSound
  BY ServicesAreIndependent, EvaluationRunsAreSound, PTL

(* A decided case is overturned only by a thread that has it in hand beside
   another (EvaluationRunner.run). *)
THEOREM DecidedCasesStayDecided == Spec => DecidedCasesStay
  BY ServicesAreIndependent, DecisionsStay, PTL

(* What is read of an execution is true (execute_query, store_result). *)
THEOREM RecordsStayTrue == Spec => []RecordIsTrue
  BY ServicesAreIndependent, ExecutionsAreTrue, PTL

(* The feedback is one client's (put_message_feedback). *)
THEOREM FeedbackIsSomebodys == Spec => []FeedbackIsConsistent
  BY ServicesAreIndependent, FeedbackStaysConsistent, PTL

(* Edits of the tables take effect and descriptions are whole (api/routes/ontology.py). *)
THEOREM TablesStayConsistent == Spec => []MetadataIsConsistent
  BY ServicesAreIndependent, MetadataStaysConsistent, PTL

===============================================================================
