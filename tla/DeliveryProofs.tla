------------------------------ MODULE DeliveryProofs ------------------------------
(***************************************************************************)
(* What is delivered is sound, and the loops around the model are bounded, *)
(* for every number of turns, processes and versions, every size of the    *)
(* ontology, every budget and every behaviour of the model: the inductive  *)
(* invariants of the agent, of the older graph and of the services.        *)
(***************************************************************************)
EXTENDS Deliveries, FiniteSetTheorems, TLAPS

-------------------------------------------------------------------------------
(* Numbers *)

(* A set of numbers has a least one: what stands for induction in the proofs about the
   algorithms, which all rest on this module. *)
LEMMA LeastNumber ==
  ASSUME NEW S, S \subseteq Nat, S # {}
  PROVE  \E x \in S : \A y \in S : x <= y
<1> DEFINE R == {ss \in Nat \X Nat : ss[1] < ss[2]}
<1>1. OpToRel(<, Nat) = R
  BY Zenon DEF OpToRel
<1>2. IsWellFoundedOn(R, Nat)
  BY <1>1, NatLessThanWellFounded, Zenon
<1> HIDE DEF R
<1>3. PICK x \in S : \A y \in S : ~(<<y, x>> \in R)
  BY <1>2, WFMin, Zenon
<1>4. ASSUME NEW y \in S
      PROVE  x <= y
  <2>1. <<y, x>> \in Nat \X Nat /\ <<y, x>>[1] = y /\ <<y, x>>[2] = x
    OBVIOUS
  <2>2. y < x => <<y, x>> \in R
    BY <2>1, Zenon DEF R
  <2>3. y \in Nat /\ x \in Nat
    OBVIOUS
  <2> QED
    BY <1>3, <2>2, <2>3
<1> QED
  BY <1>4

(* A set that holds 0 and every successor of what it holds is all of Nat. *)
LEMMA CountingUp ==
  ASSUME NEW P, 0 \in P, \A n \in Nat : n \in P => n + 1 \in P
  PROVE  Nat \subseteq P
<1> DEFINE bad == {n \in Nat : n \notin P}
<1>1. bad = {}
  <2> SUFFICES ASSUME bad # {} PROVE FALSE
    OBVIOUS
  <2>1. bad \subseteq Nat
    OBVIOUS
  <2>2. PICK n \in bad : \A m \in bad : n <= m
    BY <2>1, LeastNumber
  <2>3. n \in Nat /\ n # 0 /\ n \notin P
    OBVIOUS
  <2>4. n - 1 \in Nat /\ (n - 1) + 1 = n /\ ~ n <= n - 1
    BY <2>3
  <2>5. n - 1 \in P
    BY <2>2, <2>4
  <2> QED
    BY <2>3, <2>4, <2>5
<1> QED
  BY <1>1

-------------------------------------------------------------------------------
(* Finite sets *)

(* The elements of a finite set can be numbered. *)
LEMMA FiniteIsListed ==
  ASSUME NEW S, IsFiniteSet(S)
  PROVE  /\ Cardinality(S) \in Nat
         /\ \E f \in [1 .. Cardinality(S) -> S] : \A i, j \in 1 .. Cardinality(S) : f[i] = f[j] => i = j
         /\ \A f \in [1 .. Cardinality(S) -> S] :
              (\A i, j \in 1 .. Cardinality(S) : f[i] = f[j] => i = j) => \A x \in S : \E i \in 1 .. Cardinality(S) : f[i] = x
<1> DEFINE n == Cardinality(S)
<1>1. n \in Nat
  BY FS_CardinalityType
<1>2. PICK f : f \in Bijection(1 .. n, S)
  BY FS_CardinalityType DEF ExistsBijection
<1>3. f \in [1 .. n -> S] /\ \A i, j \in 1 .. n : f[i] = f[j] => i = j
  BY <1>2 DEF Bijection, Injection, IsInjective
<1>4. ASSUME NEW g \in [1 .. n -> S], \A i, j \in 1 .. n : g[i] = g[j] => i = j
      PROVE  \A x \in S : \E i \in 1 .. n : g[i] = x
  <2>1. g \in Injection(1 .. n, S)
    BY <1>4 DEF Injection, IsInjective
  <2>2. Cardinality(1 .. n) = n
    BY <1>1, FS_Interval
  <2>3. g \in Surjection(1 .. n, S)
    BY <2>1, <2>2, FS_Injection
  <2> QED
    BY <2>3 DEF Surjection
<1> QED
  BY <1>1, <1>3, <1>4

(* What a function gives for a finite set is a finite set. *)
LEMMA FiniteImage ==
  ASSUME NEW S, IsFiniteSet(S), NEW f
  PROVE  IsFiniteSet({f[x] : x \in S})
<1> DEFINE T == {f[x] : x \in S}
           g == [x \in S |-> f[x]]
<1>1. g \in Surjection(S, T)
  BY DEF Surjection
<1> QED
  BY <1>1, FS_Surjection

(* And so is a part of a finite set. *)
LEMMA FiniteParts ==
  ASSUME NEW S, IsFiniteSet(S), NEW T, T \subseteq S
  PROVE  IsFiniteSet(T)
BY FS_Subset

(* A finite set that is not empty has one element or more than one. *)
LEMMA OneOrMore ==
  ASSUME NEW S, IsFiniteSet(S), S # {}
  PROVE  (Cardinality(S) > 1 /\ ~\E x : S = {x}) \/ (Cardinality(S) = 1 /\ \E x : S = {x})
<1>1. Cardinality(S) \in Nat /\ Cardinality(S) # 0
  BY FS_CardinalityType, FS_EmptySet
<1>2. Cardinality(S) = 1 <=> \E x : S = {x}
  BY FS_Singleton
<1>3. Cardinality(S) = 1 \/ (Cardinality(S) > 1 /\ Cardinality(S) # 1)
  BY <1>1
<1> QED
  BY <1>2, <1>3, Zenon

-------------------------------------------------------------------------------
(* The local variables without their bounds: each step keeps this type, the bounds
   come from the invariant. *)
AgentRecords ==
  [at : Processes, phase : {"idle", "call", "act", "check", "done"},
   calls : Nat, tools : Nat, pending : Nat,
   touched : BOOLEAN, pinned : Versions, allowCte : BOOLEAN, script : Scripts,
   steps : Nat, output : AgentOutputs, checked : Versions,
   facts : SUBSET Versions, forbade : BOOLEAN]

LEMMA OneFieldSet ==
  ASSUME NEW a \in AgentRecords
  PROVE  /\ \A x \in {"idle", "call", "act", "check", "done"} : [a EXCEPT !.phase = x] \in AgentRecords
         /\ \A n \in Nat : /\ [a EXCEPT !.calls = n] \in AgentRecords
                           /\ [a EXCEPT !.tools = n] \in AgentRecords
                           /\ [a EXCEPT !.pending = n] \in AgentRecords
                           /\ [a EXCEPT !.steps = n] \in AgentRecords
         /\ \A o \in AgentOutputs : [a EXCEPT !.output = o] \in AgentRecords
         /\ \A v \in Versions : /\ [a EXCEPT !.pinned = v] \in AgentRecords
                                /\ [a EXCEPT !.checked = v] \in AgentRecords
         /\ \A vs \in SUBSET Versions : [a EXCEPT !.facts = vs] \in AgentRecords
         /\ \A s \in Scripts : [a EXCEPT !.script = s] \in AgentRecords
         /\ \A b \in BOOLEAN : /\ [a EXCEPT !.touched = b] \in AgentRecords
                               /\ [a EXCEPT !.allowCte = b] \in AgentRecords
                               /\ [a EXCEPT !.forbade = b] \in AgentRecords
  BY DEF AgentRecords

LEMMA FinishedRecord ==
  ASSUME NEW a \in AgentRecords, NEW output \in AgentOutputs, NEW extra \in Nat
  PROVE  Finished(a, output, extra) \in AgentRecords
  <1> DEFINE b == [a EXCEPT !.phase = "done"]
             c == [b EXCEPT !.output = output]
             d == [c EXCEPT !.steps = a.steps + extra + 1]
             e == [d EXCEPT !.pending = 0]
  <1>1. Finished(a, output, extra) = e
    BY DEF AgentRecords, Finished
  <1>2. a.steps + extra + 1 \in Nat
    BY DEF AgentRecords
  <1>3. b \in AgentRecords
    BY OneFieldSet
  <1> HIDE DEF b
  <1>4. c \in AgentRecords
    BY <1>3, OneFieldSet
  <1> HIDE DEF c
  <1>5. d \in AgentRecords
    BY <1>2, <1>4, OneFieldSet
  <1> HIDE DEF d
  <1>6. e \in AgentRecords
    BY <1>5, OneFieldSet
  <1> QED
    BY <1>1, <1>6

LEMMA CalledRecord ==
  ASSUME NEW a \in AgentRecords
  PROVE  Called(a) \in AgentRecords
  <1> DEFINE b == [a EXCEPT !.calls = a.calls + 1]
             c == [b EXCEPT !.steps = a.steps + 1]
  <1>1. Called(a) = c
    BY DEF AgentRecords, Called
  <1>2. a.calls + 1 \in Nat /\ a.steps + 1 \in Nat
    BY DEF AgentRecords
  <1>3. b \in AgentRecords
    BY <1>2, OneFieldSet
  <1> HIDE DEF b
  <1>4. c \in AgentRecords
    BY <1>2, <1>3, OneFieldSet
  <1> QED
    BY <1>1, <1>4

LEMMA ToolAnsweredRecord ==
  ASSUME NEW a \in AgentRecords, a.pending > 0
  PROVE  ToolAnswered(a) \in AgentRecords
  <1> DEFINE b == [a EXCEPT !.tools = a.tools + 1]
             c == [b EXCEPT !.pending = a.pending - 1]
             d == [c EXCEPT !.steps = a.steps + 1]
             phase == IF a.pending = 1 THEN "call" ELSE "act"
             e == [d EXCEPT !.phase = phase]
  <1>1. ToolAnswered(a) = e
    BY DEF AgentRecords, ToolAnswered
  <1>2. a.tools + 1 \in Nat /\ a.pending - 1 \in Nat /\ a.steps + 1 \in Nat
    BY DEF AgentRecords
  <1>3. b \in AgentRecords
    BY <1>2, OneFieldSet
  <1> HIDE DEF b
  <1>4. c \in AgentRecords
    BY <1>2, <1>3, OneFieldSet
  <1> HIDE DEF c
  <1>5. d \in AgentRecords
    BY <1>2, <1>4, OneFieldSet
  <1> HIDE DEF d
  <1>6. phase \in {"call", "act"}
    OBVIOUS
  <1> HIDE DEF phase
  <1>7. e \in AgentRecords
    BY <1>5, <1>6, OneFieldSet
  <1> QED
    BY <1>1, <1>7

LEMMA CatalogRecord ==
  ASSUME NEW a \in AgentRecords, installed \in [Processes -> Versions]
  PROVE  /\ WithCatalog(a) \in AgentRecords
         /\ \A s \in Scripts : Inspected(a, s) \in AgentRecords
  <1> DEFINE v == IF a.pinned = 0 THEN installed[a.at] ELSE a.pinned
             b == [a EXCEPT !.touched = TRUE]
             c == [b EXCEPT !.pinned = v]
  <1>1. WithCatalog(a) = c
    BY DEF AgentRecords, WithCatalog
  <1>2. v \in Versions
    BY DEF AgentRecords
  <1>3. b \in AgentRecords
    BY OneFieldSet
  <1> HIDE DEF b, v
  <1>4. c \in AgentRecords
    BY <1>2, <1>3, OneFieldSet
  <1> HIDE DEF c
  <1> QED
    BY <1>1, <1>4 DEF Inspected

LEMMA PermittedRecord ==
  ASSUME NEW a \in AgentRecords, NEW allow \in BOOLEAN
  PROVE  Permitted(a, allow) \in AgentRecords
  <1> DEFINE b == [a EXCEPT !.allowCte = a.allowCte /\ allow]
             c == [b EXCEPT !.forbade = a.forbade \/ ~allow]
  <1>1. Permitted(a, allow) = c
    BY DEF AgentRecords, Permitted
  <1>2. b \in AgentRecords
    BY OneFieldSet
  <1> HIDE DEF b
  <1>3. c \in AgentRecords
    BY <1>2, OneFieldSet
  <1> QED
    BY <1>1, <1>3

-------------------------------------------------------------------------------
(* A turn that is under way: its facts are of its version, its permission knows
   every prohibition, and the trace has one step for each call. *)
Open(a) ==
  /\ a \in AgentRecords
  /\ a.calls <= MaxModelCalls /\ a.tools <= MaxToolCalls
  /\ a.facts \subseteq {a.pinned} \ {0}
  /\ a.forbade <=> ~a.allowCte
  /\ a.steps = a.calls + a.tools
  /\ a.output = "none"

(* Its next tool calls are within the budget, and a script that waits for the
   comparison of the snapshot has what the comparison needs. *)
Proceeding(a) ==
  /\ Open(a)
  /\ a.phase # "done"
  /\ a.phase = "act" => a.pending > 0
  /\ a.tools + a.pending <= MaxToolCalls
  /\ a.phase = "check" => /\ a.script.tables => a.touched
                          /\ a.script.cte => a.allowCte

Closed(a) ==
  /\ a \in AgentRecords
  /\ a.phase = "done" /\ a.pending = 0
  /\ a.calls <= MaxModelCalls /\ a.tools <= MaxToolCalls
  /\ a.facts \subseteq {a.pinned} \ {0}
  /\ a.forbade <=> ~a.allowCte
  /\ \/ a.output = "failed" /\ a.steps \in {a.calls + a.tools, a.calls + a.tools + 1}
     \/ a.output = "reply" /\ a.steps = a.calls + a.tools + 1
     \/ a.output \in {"sql", "draft"} /\ a.steps = a.calls + a.tools + 2
  /\ a.output = "sql" => /\ a.script.tables => a.pinned # 0 /\ a.checked = a.pinned
                         /\ a.script.cte => a.allowCte

AgentInv ==
  /\ installed \in [Processes -> Versions]
  /\ agent \in [Turns -> AgentRecords]
  /\ \A t \in Turns : Proceeding(agent[t]) \/ Closed(agent[t])

LEMMA CalledOpen ==
  ASSUME NEW a, Open(a), a.calls < MaxModelCalls
  PROVE  /\ Open(Called(a))
         /\ Called(a).tools = a.tools /\ Called(a).pending = a.pending
  <1>1. Called(a) \in AgentRecords
    BY CalledRecord DEF Open
  <1>2. a.calls \in Nat /\ a.tools \in Nat /\ a.steps \in Nat
    BY DEF Open, AgentRecords
  <1> QED
    BY <1>1, <1>2, AgentAssumption DEF Open, AgentRecords, Called

LEMMA PermittedOpen ==
  ASSUME NEW a, Open(a), NEW allow \in BOOLEAN
  PROVE  /\ Open(Permitted(a, allow))
         /\ Permitted(a, allow).pending = a.pending /\ Permitted(a, allow).tools = a.tools
  <1>1. Permitted(a, allow) \in AgentRecords
    BY PermittedRecord DEF Open
  <1> QED
    BY <1>1 DEF Open, AgentRecords, Permitted

LEMMA CatalogOpen ==
  ASSUME NEW a, Open(a), installed \in [Processes -> Versions]
  PROVE  /\ Open(WithCatalog(a))
         /\ WithCatalog(a).touched
         /\ WithCatalog(a).allowCte = a.allowCte
         /\ WithCatalog(a).pending = a.pending /\ WithCatalog(a).tools = a.tools
  <1>1. WithCatalog(a) \in AgentRecords
    BY CatalogRecord DEF Open
  <1> QED
    BY <1>1 DEF Open, AgentRecords, WithCatalog

LEMMA InspectedOpen ==
  ASSUME NEW a, Open(a), NEW s \in Scripts, installed \in [Processes -> Versions]
  PROVE  /\ Open(Inspected(a, s))
         /\ Inspected(a, s).allowCte = a.allowCte
         /\ Inspected(a, s).pending = a.pending /\ Inspected(a, s).tools = a.tools
         /\ ~CteRefused(a, s) /\ s.tables => Inspected(a, s).touched
  BY CatalogOpen DEF Inspected

LEMMA FinishedClosed ==
  ASSUME NEW a, Open(a),
         NEW output \in {"reply", "draft", "failed"}, NEW extra \in {0, 1}, extra = 1 <=> output = "draft"
  PROVE  Closed(Finished(a, output, extra))
  <1>1. Finished(a, output, extra) \in AgentRecords
    BY FinishedRecord DEF Open, AgentOutputs
  <1>2. a.calls \in Nat /\ a.tools \in Nat /\ a.steps \in Nat
    BY DEF Open, AgentRecords
  <1>3. /\ Finished(a, output, extra).phase = "done" /\ Finished(a, output, extra).pending = 0
        /\ Finished(a, output, extra).output = output
        /\ Finished(a, output, extra).steps = a.steps + extra + 1
        /\ Finished(a, output, extra).calls = a.calls /\ Finished(a, output, extra).tools = a.tools
        /\ Finished(a, output, extra).facts = a.facts /\ Finished(a, output, extra).pinned = a.pinned
        /\ Finished(a, output, extra).forbade = a.forbade /\ Finished(a, output, extra).allowCte = a.allowCte
    BY DEF Finished, Open, AgentRecords
  <1> QED
    BY <1>1, <1>2, <1>3 DEF Closed, Open

LEMMA ToolAnsweredProceeds ==
  ASSUME NEW a, Open(a), a.pending > 0, a.tools + a.pending <= MaxToolCalls
  PROVE  Proceeding(ToolAnswered(a))
  <1>1. ToolAnswered(a) \in AgentRecords
    BY ToolAnsweredRecord DEF Open
  <1>2. a.calls \in Nat /\ a.tools \in Nat /\ a.steps \in Nat /\ a.pending \in Nat
    BY DEF Open, AgentRecords
  <1>3. /\ ToolAnswered(a).phase = (IF a.pending = 1 THEN "call" ELSE "act")
        /\ ToolAnswered(a).pending = a.pending - 1 /\ ToolAnswered(a).tools = a.tools + 1
        /\ ToolAnswered(a).steps = a.steps + 1 /\ ToolAnswered(a).calls = a.calls
        /\ ToolAnswered(a).facts = a.facts /\ ToolAnswered(a).pinned = a.pinned
        /\ ToolAnswered(a).forbade = a.forbade /\ ToolAnswered(a).allowCte = a.allowCte
        /\ ToolAnswered(a).output = a.output
    BY DEF ToolAnswered, Open, AgentRecords
  <1> QED
    BY <1>1, <1>2, <1>3, AgentAssumption DEF Proceeding, Open

-------------------------------------------------------------------------------
LEMMA AgentInitInv ==
  ASSUME AgentInit
  PROVE  AgentInv
  <1>1. installed \in [Processes -> Versions]
    BY DEF AgentInit, RuntimeInit, Versions
  <1>2. NoScript \in Scripts /\ 0 \in Versions
    BY RuntimeAssumption DEF NoScript, Scripts, Versions
  <1>3. ASSUME NEW p \in Processes
        PROVE  Fresh(p) \in AgentRecords /\ Proceeding(Fresh(p))
    <2>1. Fresh(p) \in AgentRecords
      BY <1>2 DEF Fresh, AgentRecords, AgentOutputs
    <2> QED
      BY <2>1, AgentAssumption DEF Fresh, Proceeding, Open
  <1>4. \A t \in Turns : \E p \in Processes : agent[t] = Fresh(p)
    BY DEF AgentInit
  <1>5. agent \in [Turns -> AgentRecords]
    BY <1>3, <1>4 DEF AgentInit
  <1> QED
    BY <1>1, <1>3, <1>4, <1>5 DEF AgentInv

(* A step of one turn. *)
LEMMA UpdateSound ==
  ASSUME AgentInv, NEW t \in Turns, NEW a, Update(t, a), Proceeding(a) \/ Closed(a)
  PROVE  AgentInv'
  <1>1. a \in AgentRecords
    BY DEF Proceeding, Open, Closed
  <1> QED
    BY <1>1 DEF AgentInv, Update, Proceeding, Open, Closed

LEMMA AgentStepSound ==
  ASSUME AgentInv, NEW t \in Turns, AgentStep(t)
  PROVE  AgentInv'
  <1> DEFINE a == agent[t]
  <1>0. /\ installed \in [Processes -> Versions]
        /\ a \in AgentRecords /\ (a.phase # "done" => Proceeding(a) /\ Open(a))
    BY DEF AgentInv, Closed, Proceeding
  <1>1. CASE Begin(t)
    <2>1. a.phase = "idle" /\ Open(a) /\ Proceeding(a)
      BY <1>0, <1>1 DEF Begin, In
    <2>2. CASE Update(t, [a EXCEPT !.phase = "call"])
      <3>1. [a EXCEPT !.phase = "call"] \in AgentRecords
        BY <1>0, OneFieldSet
      <3>2. Proceeding([a EXCEPT !.phase = "call"])
        BY <2>1, <3>1 DEF Proceeding, Open, AgentRecords
      <3> QED
        BY <2>2, <3>2, UpdateSound
    <2>3. CASE Update(t, Finished(a, "failed", 0))
      BY <2>1, <2>3, FinishedClosed, UpdateSound
    <2> QED
      BY <1>1, <2>2, <2>3 DEF Begin
  <1>2. ASSUME MayCall(t)
        PROVE  /\ Open(a) /\ a.calls < MaxModelCalls /\ a.tools + a.pending <= MaxToolCalls
               /\ Open(Called(a)) /\ Called(a).tools = a.tools /\ Called(a).pending = a.pending
    BY <1>0, <1>2, CalledOpen DEF MayCall, In, Proceeding
  <1>3. CASE ModelFails(t)
    <2>1. MayCall(t)
      BY <1>3 DEF ModelFails
    <2>2. CASE Update(t, Finished(Called(a), "failed", 0))
      BY <1>2, <2>1, <2>2, FinishedClosed, UpdateSound
    <2>3. CASE Update(t, Finished([a EXCEPT !.calls = @ + 1], "failed", 0))
      <3> DEFINE b == [a EXCEPT !.calls = a.calls + 1]
                 c == Finished(b, "failed", 0)
      <3>1. a.calls + 1 \in Nat /\ a.tools \in Nat /\ a.steps \in Nat /\ a.calls \in Nat
        BY <1>0 DEF AgentRecords
      <3>2. b \in AgentRecords /\ c \in AgentRecords
        BY <1>0, <3>1, OneFieldSet, FinishedRecord DEF AgentOutputs
      <3>3. /\ c.phase = "done" /\ c.pending = 0 /\ c.output = "failed" /\ c.steps = a.steps + 1
            /\ c.calls = a.calls + 1 /\ c.tools = a.tools /\ c.facts = a.facts
            /\ c.pinned = a.pinned /\ c.forbade = a.forbade /\ c.allowCte = a.allowCte
        BY <1>0 DEF Finished, AgentRecords
      <3>4. Closed(c)
        BY <1>2, <2>1, <3>1, <3>2, <3>3, AgentAssumption DEF Closed, Open
      <3> QED
        BY <2>3, <3>4, UpdateSound
    <2> QED
      BY <1>3, <2>2, <2>3 DEF ModelFails
  <1>4. CASE ModelAsks(t)
    <2>1. MayCall(t)
      BY <1>4 DEF ModelAsks
    <2>2. PICK n \in 1 .. MaxToolCalls + 1 :
            IF a.tools + n > MaxToolCalls
            THEN Update(t, Finished(Called(a), "failed", 0))
            ELSE Update(t, [Called(a) EXCEPT !.phase = "act", !.pending = n])
      BY <1>4 DEF ModelAsks
    <2>3. CASE a.tools + n > MaxToolCalls
      BY <1>2, <2>1, <2>2, <2>3, FinishedClosed, UpdateSound
    <2>4. CASE ~(a.tools + n > MaxToolCalls)
      <3> DEFINE c == Called(a)
                 d == [c EXCEPT !.phase = "act"]
                 e == [d EXCEPT !.pending = n]
      <3>1. n \in Nat /\ n > 0 /\ a.tools \in Nat
        BY <1>0, AgentAssumption DEF AgentRecords
      <3>2. Open(c) /\ c \in AgentRecords /\ c.tools = a.tools
        BY <1>2, <2>1 DEF Open
      <3> HIDE DEF c
      <3>3. [c EXCEPT !.phase = "act", !.pending = n] = e
        BY <3>2 DEF AgentRecords
      <3>4. d \in AgentRecords
        BY <3>2, OneFieldSet
      <3>5. e \in AgentRecords
        BY <3>1, <3>4, OneFieldSet
      <3>6. /\ e.phase = "act" /\ e.pending = n /\ e.tools = a.tools /\ e.calls = c.calls
            /\ e.steps = c.steps /\ e.facts = c.facts /\ e.pinned = c.pinned
            /\ e.forbade = c.forbade /\ e.allowCte = c.allowCte /\ e.output = c.output
        BY <3>2 DEF AgentRecords
      <3> HIDE DEF e
      <3>7. Proceeding(e)
        BY <2>4, <3>1, <3>2, <3>5, <3>6, AgentAssumption DEF Proceeding, Open
      <3>8. Update(t, e)
        BY <2>2, <2>4, <3>3 DEF c
      <3> QED
        BY <3>7, <3>8, UpdateSound
    <2> QED
      BY <2>3, <2>4
  <1>5. CASE ModelReplies(t)
    <2>1. MayCall(t) /\ Update(t, Finished(Called(a), "reply", 0))
      BY <1>5 DEF ModelReplies
    <2> QED
      BY <1>2, <2>1, FinishedClosed, UpdateSound
  <1>6. CASE CallsExhausted(t)
    <2>1. Open(a) /\ Update(t, Finished(a, "failed", 0))
      BY <1>0, <1>6 DEF CallsExhausted, In
    <2> QED
      BY <2>1, FinishedClosed, UpdateSound
  <1>7. ASSUME In(t, "act")
        PROVE  Open(a) /\ a.pending > 0 /\ a.tools + a.pending <= MaxToolCalls
    BY <1>0, <1>7 DEF In, Proceeding
  <1>8. CASE ToolWithoutCatalog(t)
    <2>1. In(t, "act") /\ Update(t, ToolAnswered(a))
      BY <1>8 DEF ToolWithoutCatalog
    <2> QED
      BY <1>7, <2>1, ToolAnsweredProceeds, UpdateSound
  <1>9. CASE ToolReads(t)
    <2> DEFINE b == WithCatalog(a)
               c == [b EXCEPT !.facts = b.facts \cup ({b.pinned} \ {0})]
    <2>1. In(t, "act") /\ Update(t, ToolAnswered(c))
      BY <1>9 DEF ToolReads
    <2>2. /\ Open(b) /\ b.pending = a.pending /\ b.tools = a.tools /\ b \in AgentRecords
          /\ a.pending > 0 /\ a.tools + a.pending <= MaxToolCalls
      BY <1>0, <1>7, <2>1, CatalogOpen DEF Open
    <2> HIDE DEF b
    <2>3. b.facts \cup ({b.pinned} \ {0}) \in SUBSET Versions
      BY <2>2 DEF AgentRecords
    <2>4. c \in AgentRecords
      BY <2>2, <2>3, OneFieldSet
    <2>5. /\ c.facts = b.facts \cup ({b.pinned} \ {0}) /\ c.pinned = b.pinned
          /\ c.pending = b.pending /\ c.tools = b.tools /\ c.calls = b.calls /\ c.steps = b.steps
          /\ c.forbade = b.forbade /\ c.allowCte = b.allowCte /\ c.output = b.output
      BY <2>2 DEF AgentRecords
    <2> HIDE DEF c
    <2>6. Open(c) /\ c.pending > 0 /\ c.tools + c.pending <= MaxToolCalls
      BY <2>2, <2>4, <2>5 DEF Open
    <2> QED
      BY <2>1, <2>6, ToolAnsweredProceeds, UpdateSound
  <1>10. CASE ToolChecks(t)
    <2>1. In(t, "act")
      BY <1>10 DEF ToolChecks
    <2>2. PICK s \in Scripts, allow \in BOOLEAN :
            Update(t, ToolAnswered(Inspected(Permitted(a, allow), s)))
      BY <1>10 DEF ToolChecks
    <2> DEFINE b == Inspected(Permitted(a, allow), s)
    <2>3. Open(Permitted(a, allow)) /\ Permitted(a, allow).pending = a.pending /\ Permitted(a, allow).tools = a.tools
      BY <1>7, <2>1, PermittedOpen
    <2>4. Open(b) /\ b.pending = a.pending /\ b.tools = a.tools
      BY <1>0, <2>3, InspectedOpen
    <2> QED
      BY <1>7, <2>1, <2>2, <2>4, ToolAnsweredProceeds, UpdateSound
  <1>11. CASE ModelDrafts(t)
    <2>1. MayCall(t)
      BY <1>11 DEF ModelDrafts
    <2>2. CASE Update(t, Finished(Called(a), "draft", 1))
      BY <1>2, <2>1, <2>2, FinishedClosed, UpdateSound
    <2>3. ASSUME NEW s \in Scripts, NEW allow \in BOOLEAN,
                 Update(t, Finished(Inspected(Permitted(Called(a), allow), s), "draft", 1))
          PROVE  AgentInv'
      <3>1. Open(Permitted(Called(a), allow))
        BY <1>2, <2>1, PermittedOpen
      <3>2. Open(Inspected(Permitted(Called(a), allow), s))
        BY <1>0, <3>1, InspectedOpen
      <3> QED
        BY <2>3, <3>2, FinishedClosed, UpdateSound
    <2> QED
      BY <1>11, <2>2, <2>3 DEF ModelDrafts
  <1>12. CASE ModelDelivers(t)
    <2>1. MayCall(t)
      BY <1>12 DEF ModelDelivers
    <2>2. PICK s \in Scripts, allow \in BOOLEAN :
            /\ MayAccept(Permitted(Called(a), allow), s)
            /\ Update(t, [Inspected(Permitted(Called(a), allow), s) EXCEPT !.phase = "check", !.script = s])
      BY <1>12 DEF ModelDelivers
    <2> DEFINE p == Permitted(Called(a), allow)
               b == Inspected(p, s)
               c == [b EXCEPT !.phase = "check"]
               d == [c EXCEPT !.script = s]
    <2>3. Open(p) /\ p.tools = a.tools /\ p.pending = a.pending
      BY <1>2, <2>1, PermittedOpen
    <2>4. /\ Open(b) /\ b.allowCte = p.allowCte /\ b \in AgentRecords
          /\ b.tools = a.tools /\ b.pending = a.pending
          /\ ~CteRefused(p, s) /\ s.tables => b.touched
      BY <1>0, <2>3, InspectedOpen DEF Open
    <2>5. (s.cte => b.allowCte) /\ (s.tables => b.touched)
      BY <2>2, <2>4 DEF MayAccept, CteRefused
    <2>6. Update(t, [b EXCEPT !.phase = "check", !.script = s])
      BY <2>2
    <2> HIDE DEF p, b
    <2>7. [b EXCEPT !.phase = "check", !.script = s] = d
      BY <2>4 DEF AgentRecords
    <2>8. c \in AgentRecords
      BY <2>4, OneFieldSet
    <2>9. d \in AgentRecords
      BY <2>8, OneFieldSet
    <2>10. /\ d.phase = "check" /\ d.script = s /\ d.touched = b.touched /\ d.allowCte = b.allowCte
           /\ d.calls = b.calls /\ d.tools = b.tools /\ d.pending = b.pending /\ d.facts = b.facts
           /\ d.pinned = b.pinned /\ d.forbade = b.forbade /\ d.steps = b.steps /\ d.output = b.output
      BY <2>4 DEF AgentRecords
    <2> HIDE DEF d
    <2>11. Proceeding(d)
      BY <1>2, <2>1, <2>4, <2>5, <2>9, <2>10 DEF Proceeding, Open
    <2> QED
      BY <2>6, <2>7, <2>11, UpdateSound
  <1>13. CASE CheckDelivery(t)
    <2>1. Open(a) /\ a.phase = "check" /\ (a.script.tables => a.touched) /\ (a.script.cte => a.allowCte)
      BY <1>0, <1>13 DEF CheckDelivery, In, Proceeding
    <2>2. CASE /\ SnapshotUnchanged(a)
               /\ Update(t, Finished([a EXCEPT !.checked = installed[a.at]], "sql", 1))
      <3> DEFINE v == installed[a.at]
                 b == [a EXCEPT !.checked = v]
                 c == Finished(b, "sql", 1)
      <3>1. v \in Versions /\ a.calls \in Nat /\ a.tools \in Nat /\ a.steps \in Nat
        BY <1>0 DEF AgentRecords
      <3>2. a.script.tables => a.pinned # 0 /\ v = a.pinned
        BY <2>1, <2>2 DEF SnapshotUnchanged
      <3>3. Update(t, c)
        BY <2>2
      <3> HIDE DEF v
      <3>4. b \in AgentRecords /\ c \in AgentRecords
        BY <1>0, <3>1, OneFieldSet, FinishedRecord DEF AgentOutputs
      <3>5. /\ c.phase = "done" /\ c.pending = 0 /\ c.output = "sql" /\ c.steps = a.steps + 1 + 1
            /\ c.calls = a.calls /\ c.tools = a.tools /\ c.facts = a.facts /\ c.pinned = a.pinned
            /\ c.forbade = a.forbade /\ c.allowCte = a.allowCte /\ c.script = a.script /\ c.checked = v
        BY <1>0 DEF Finished, AgentRecords
      <3> HIDE DEF c
      <3>6. Closed(c)
        BY <2>1, <3>1, <3>2, <3>4, <3>5 DEF Closed, Open
      <3> QED
        BY <3>3, <3>6, UpdateSound
    <2>3. CASE Update(t, Finished([a EXCEPT !.script = NoScript], "draft", 1))
      <3> DEFINE b == [a EXCEPT !.script = NoScript]
      <3>1. NoScript \in Scripts
        BY DEF NoScript, Scripts
      <3>2. b \in AgentRecords
        BY <1>0, <3>1, OneFieldSet
      <3>3. /\ b.calls = a.calls /\ b.tools = a.tools /\ b.steps = a.steps /\ b.facts = a.facts
            /\ b.pinned = a.pinned /\ b.forbade = a.forbade /\ b.allowCte = a.allowCte
            /\ b.output = a.output
        BY <1>0 DEF AgentRecords
      <3> HIDE DEF b
      <3>4. Open(b)
        BY <2>1, <3>2, <3>3 DEF Open
      <3>5. Update(t, Finished(b, "draft", 1))
        BY <2>3 DEF b
      <3> QED
        BY <3>4, <3>5, FinishedClosed, UpdateSound
    <2> QED
      BY <1>13, <2>2, <2>3 DEF CheckDelivery
  <1> QED
    BY <1>1, <1>3, <1>4, <1>5, <1>6, <1>8, <1>9, <1>10, <1>11, <1>12, <1>13 DEF AgentStep

LEMMA AgentKeepsInv ==
  ASSUME AgentInv, [AgentNext]_agentVars
  PROVE  AgentInv'
  <1>1. ASSUME NEW p \in Processes, InstallVersion(p), UNCHANGED agent
        PROVE  AgentInv'
    <2>1. installed' \in [Processes -> Versions]
      BY <1>1 DEF InstallVersion, AgentInv
    <2> QED
      BY <1>1, <2>1 DEF AgentInv, Proceeding, Open, Closed
  <1>2. CASE UNCHANGED agentVars
    BY <1>2 DEF agentVars, AgentInv, Proceeding, Open, Closed
  <1> QED
    BY <1>1, <1>2, AgentStepSound DEF AgentNext

LEMMA SoundTurns ==
  ASSUME AgentInv
  PROVE  /\ AgentTypeOK
         /\ OneVersionPerTurn /\ ForbiddenCteStaysForbidden /\ TraceAccounts /\ WithinBudgets
  <1>1. \A t \in Turns : agent[t] \in AgentRecords /\ (Proceeding(agent[t]) \/ Closed(agent[t]))
    BY DEF AgentInv
  <1>2. OneVersionPerTurn
    BY <1>1 DEF OneVersionPerTurn, Proceeding, Open, Closed
  <1>3. ForbiddenCteStaysForbidden
    BY <1>1 DEF ForbiddenCteStaysForbidden, Proceeding, Open, Closed
  <1>4. ASSUME NEW t \in Turns
        PROVE  /\ agent[t].calls \in Nat /\ agent[t].tools \in Nat /\ agent[t].steps \in Nat
               /\ agent[t].pending \in Nat
    BY <1>1 DEF AgentRecords
  <1>5. TraceAccounts
    BY <1>1, <1>4 DEF TraceAccounts, Proceeding, Open, Closed
  <1>6. WithinBudgets
    BY <1>1, <1>4, AgentAssumption DEF WithinBudgets, Proceeding, Open, Closed
  <1>7. ASSUME NEW t \in Turns
        PROVE  agent[t] \in Agents
    <2>1. /\ agent[t].calls <= MaxModelCalls /\ agent[t].tools <= MaxToolCalls
          /\ agent[t].pending <= MaxToolCalls
      BY <1>1, <1>4, AgentAssumption DEF Proceeding, Open, Closed
    <2> QED
      BY <1>1, <1>4, <2>1, AgentAssumption DEF AgentRecords, Agents
  <1>8. AgentTypeOK
    BY <1>7 DEF AgentTypeOK, AgentInv
  <1> QED
    BY <1>2, <1>3, <1>5, <1>6, <1>8

(* What a turn hands out belongs to one version and was checked with every
   prohibition, its trace accounts for the calls and the budgets hold
   (run_conversation_agent, ConversationTools), for every number of turns, every
   budget and every behaviour of the model and of the publishers. *)
THEOREM TurnsAreAccountable ==
  AgentSpec => [](/\ AgentTypeOK
                  /\ OneVersionPerTurn /\ ForbiddenCteStaysForbidden /\ TraceAccounts /\ WithinBudgets)
  <1>1. AgentInit => AgentInv
    BY AgentInitInv
  <1>2. AgentInv /\ [AgentNext]_agentVars => AgentInv'
    BY AgentKeepsInv
  <1>3. AgentInv => /\ AgentTypeOK
                    /\ OneVersionPerTurn /\ ForbiddenCteStaysForbidden /\ TraceAccounts /\ WithinBudgets
    BY SoundTurns
  <1> QED
    BY <1>1, <1>2, <1>3, PTL DEF AgentSpec

-------------------------------------------------------------------------------
(* The older graph *)

(* The state of the graph without the bound of its repairs. *)
LegacyRecords ==
  [node : Nodes, key : BOOLEAN, irrelevant : BOOLEAN, objects : SUBSET Names,
   rules : SUBSET Names, attempt : 0 .. 2, sql : Texts, valid : BOOLEAN,
   retries : Nat, steps : Nat, calls : Nat, output : LegacyOutputs,
   passed : SUBSET {"syntax", "semantics"}, blind : BOOLEAN]

LEMMA OneLegacyFieldSet ==
  ASSUME NEW l \in LegacyRecords
  PROVE  /\ \A n \in Nodes : [l EXCEPT !.node = n] \in LegacyRecords
         /\ \A n \in Nat : /\ [l EXCEPT !.steps = n] \in LegacyRecords
                           /\ [l EXCEPT !.calls = n] \in LegacyRecords
                           /\ [l EXCEPT !.retries = n] \in LegacyRecords
         /\ \A n \in 0 .. 2 : [l EXCEPT !.attempt = n] \in LegacyRecords
         /\ \A names \in SUBSET Names : /\ [l EXCEPT !.objects = names] \in LegacyRecords
                                        /\ [l EXCEPT !.rules = names] \in LegacyRecords
         /\ \A text \in Texts : [l EXCEPT !.sql = text] \in LegacyRecords
         /\ \A b \in BOOLEAN : /\ [l EXCEPT !.valid = b] \in LegacyRecords
                               /\ [l EXCEPT !.blind = b] \in LegacyRecords
                               /\ [l EXCEPT !.irrelevant = b] \in LegacyRecords
         /\ \A o \in LegacyOutputs : [l EXCEPT !.output = o] \in LegacyRecords
         /\ \A p \in SUBSET {"syntax", "semantics"} : [l EXCEPT !.passed = p] \in LegacyRecords
  BY DEF LegacyRecords

LEMMA ReturnedRecord ==
  ASSUME NEW l \in LegacyRecords, NEW next \in Nodes, NEW steps \in Nat, Returns(l, next, steps)
  PROVE  /\ legacy' \in LegacyRecords
         /\ legacy'.node = next /\ legacy'.steps = l.steps + steps /\ legacy'.attempt = 0
         /\ legacy'.calls = l.calls /\ legacy'.retries = l.retries /\ legacy'.output = l.output
         /\ legacy'.sql = l.sql /\ legacy'.passed = l.passed /\ legacy'.blind = l.blind
         /\ legacy'.valid = l.valid
  <1> DEFINE b == [l EXCEPT !.node = next]
             c == [b EXCEPT !.steps = l.steps + steps]
             d == [c EXCEPT !.attempt = 0]
  <1>1. legacy' = d
    BY DEF LegacyRecords, Returns
  <1>2. l.steps + steps \in Nat /\ 0 \in 0 .. 2
    BY DEF LegacyRecords
  <1>3. b \in LegacyRecords
    BY OneLegacyFieldSet
  <1>4. c \in LegacyRecords
    <2> HIDE DEF b
    <2> QED
      BY <1>2, <1>3, OneLegacyFieldSet
  <1>5. d \in LegacyRecords
    <2> HIDE DEF c
    <2> QED
      BY <1>2, <1>4, OneLegacyFieldSet
  <1>6. /\ d.node = next /\ d.steps = l.steps + steps /\ d.attempt = 0
        /\ d.calls = l.calls /\ d.retries = l.retries /\ d.output = l.output
        /\ d.sql = l.sql /\ d.passed = l.passed /\ d.blind = l.blind /\ d.valid = l.valid
    BY DEF LegacyRecords
  <1> HIDE DEF d
  <1> QED
    BY <1>1, <1>5, <1>6

LEMMA AskedRecord ==
  ASSUME NEW l \in LegacyRecords
  PROVE  /\ Asks(l) \in LegacyRecords
         /\ Asks(l).calls \in {l.calls, l.calls + 1}
         /\ Asks(l).steps = l.steps /\ Asks(l).retries = l.retries /\ Asks(l).output = l.output
         /\ Asks(l).attempt = l.attempt /\ Asks(l).node = l.node
  <1> DEFINE n == IF l.key THEN l.calls + 1 ELSE l.calls
  <1>1. n \in Nat
    BY DEF LegacyRecords
  <1>2. Asks(l) = [l EXCEPT !.calls = n]
    BY DEF Asks, LegacyRecords
  <1> HIDE DEF n
  <1>3. [l EXCEPT !.calls = n] \in LegacyRecords
    BY <1>1, OneLegacyFieldSet
  <1> QED
    BY <1>2, <1>3 DEF LegacyRecords, n

(* How many nodes have returned when a node is entered for the r-th repair, ... *)
StepsBefore(node, r) ==
  IF node = "get_ttl_definition" THEN 0
  ELSE IF node = "get_attr_mapping" THEN 1
  ELSE IF node = "derive_rules" THEN 5
  ELSE IF node = "build_sql" THEN 6
  ELSE IF node \in {"validate_syntax", "format_failure"} THEN 7 + 3 * r
  ELSE IF node = "validate_semantics" THEN 8 + 3 * r
  ELSE 9 + 3 * r

(* ... and how often the model has been asked. *)
CallsBefore(node, attempt) ==
  IF node = "get_ttl_definition" THEN 0
  ELSE IF node = "get_attr_mapping" THEN 1
  ELSE IF node = "derive_rules" THEN 1 + attempt
  ELSE IF node = "build_sql" THEN 3 + attempt
  ELSE 5

LEMMA BeforeNodes ==
  /\ \A r : /\ StepsBefore("get_ttl_definition", r) = 0 /\ StepsBefore("get_attr_mapping", r) = 1
            /\ StepsBefore("derive_rules", r) = 5 /\ StepsBefore("build_sql", r) = 6
            /\ StepsBefore("validate_syntax", r) = 7 + 3 * r /\ StepsBefore("format_failure", r) = 7 + 3 * r
            /\ StepsBefore("validate_semantics", r) = 8 + 3 * r
            /\ StepsBefore("fix_sql", r) = 9 + 3 * r /\ StepsBefore("format_output", r) = 9 + 3 * r
  /\ \A n : /\ CallsBefore("get_ttl_definition", n) = 0 /\ CallsBefore("get_attr_mapping", n) = 1
            /\ CallsBefore("derive_rules", n) = 1 + n /\ CallsBefore("build_sql", n) = 3 + n
            /\ CallsBefore("validate_syntax", n) = 5 /\ CallsBefore("validate_semantics", n) = 5
            /\ CallsBefore("fix_sql", n) = 5 /\ CallsBefore("format_output", n) = 5
            /\ CallsBefore("format_failure", n) = 5 /\ CallsBefore("end", n) = 5
  BY DEF StepsBefore, CallsBefore

(* The script at hand passed the checks that lie behind it, ... *)
PassedSoFar(l) ==
  /\ l.node \in {"validate_semantics", "format_output"} \/ l.output = "sql" =>
       "syntax" \in l.passed /\ SyntaxOk(l.sql)
  /\ l.node = "format_output" \/ l.output = "sql" => l.blind \/ "semantics" \in l.passed

(* ... and the run is no longer than its repairs make it. *)
LegacyProgress(l) ==
  /\ l.node = "end" => l.steps <= 8 + 3 * MaxFixes
  /\ l.node # "end" => /\ l.steps <= StepsBefore(l.node, l.retries)
                       /\ l.output = "none"
  /\ l.calls <= CallsBefore(l.node, l.attempt)
  /\ l.retries <= MaxFixes
  /\ l.node \notin {"format_failure", "end"} => l.retries < MaxFixes

LegacyInv == legacy \in LegacyRecords /\ PassedSoFar(legacy) /\ LegacyProgress(legacy)

LEMMA LegacyInitInv ==
  ASSUME LegacyInit
  PROVE  LegacyInv
  <1>1. NoText \in Texts
    BY DEF NoText, Texts
  <1>4. PICK k \in BOOLEAN :
          legacy = [node |-> "get_ttl_definition", key |-> k, irrelevant |-> FALSE, objects |-> {},
                    rules |-> {}, attempt |-> 0, sql |-> NoText, valid |-> FALSE, retries |-> 0,
                    steps |-> 0, calls |-> 0, output |-> "none", passed |-> {}, blind |-> FALSE]
    BY DEF LegacyInit
  <1>5. "get_ttl_definition" \in Nodes /\ "none" \in LegacyOutputs /\ 0 \in 0 .. 2
    BY DEF Nodes, LegacyOutputs
  <1>2. legacy \in LegacyRecords
    BY <1>1, <1>4, <1>5 DEF LegacyRecords
  <1>3. /\ legacy.node = "get_ttl_definition" /\ legacy.output = "none" /\ legacy.steps = 0
        /\ legacy.calls = 0 /\ legacy.retries = 0
    BY <1>4
  <1> QED
    BY <1>2, <1>3, LegacyAssumption DEF LegacyInv, PassedSoFar, LegacyProgress, StepsBefore, CallsBefore

(* The node at hand returns with the state l: what the next node may be entered
   with. *)
MayEnter(next, l, steps) ==
  /\ next \in Nodes /\ l \in LegacyRecords
  /\ next # "end" => l.steps + steps <= StepsBefore(next, l.retries) /\ l.output = "none"
  /\ next = "end" => l.steps + steps <= 8 + 3 * MaxFixes
  /\ l.calls <= CallsBefore(next, 0)
  /\ l.retries <= MaxFixes
  /\ next \notin {"format_failure", "end"} => l.retries < MaxFixes
  /\ next \in {"validate_semantics", "format_output"} \/ l.output = "sql" =>
       "syntax" \in l.passed /\ SyntaxOk(l.sql)
  /\ next = "format_output" \/ l.output = "sql" => l.blind \/ "semantics" \in l.passed

LEMMA ReturnsKeep ==
  ASSUME NEW l, NEW next, NEW steps \in Nat, Returns(l, next, steps), MayEnter(next, l, steps)
  PROVE  LegacyInv'
  <1>0. l \in LegacyRecords /\ next \in Nodes
    BY DEF MayEnter
  <1>1. /\ legacy' \in LegacyRecords
        /\ legacy'.node = next /\ legacy'.steps = l.steps + steps /\ legacy'.attempt = 0
        /\ legacy'.calls = l.calls /\ legacy'.retries = l.retries /\ legacy'.output = l.output
        /\ legacy'.sql = l.sql /\ legacy'.passed = l.passed /\ legacy'.blind = l.blind
    BY <1>0, ReturnedRecord
  <1>2. PassedSoFar(legacy')
    BY <1>1 DEF PassedSoFar, MayEnter
  <1>3. LegacyProgress(legacy')
    BY <1>1 DEF LegacyProgress, MayEnter
  <1> QED
    BY <1>1, <1>2, <1>3 DEF LegacyInv

(* Another attempt inside the node, after a call of the model. *)
LEMMA AttemptKeeps ==
  ASSUME LegacyInv, NEW l \in {legacy, Asks(legacy)}, NEW n \in 0 .. 2,
         legacy.node \in {"derive_rules", "build_sql"}, legacy.attempt < n,
         legacy' = [l EXCEPT !.attempt = n]
  PROVE  LegacyInv'
  <1>1. /\ l \in LegacyRecords /\ l.node = legacy.node /\ l.steps = legacy.steps
        /\ l.calls \in {legacy.calls, legacy.calls + 1} /\ l.retries = legacy.retries
        /\ l.output = legacy.output
    BY AskedRecord DEF LegacyInv
  <1>2. [l EXCEPT !.attempt = n] \in LegacyRecords
    BY <1>1, OneLegacyFieldSet
  <1>3. /\ legacy'.node = legacy.node /\ legacy'.steps = legacy.steps /\ legacy'.attempt = n
        /\ legacy'.calls \in {legacy.calls, legacy.calls + 1} /\ legacy'.retries = legacy.retries
        /\ legacy'.output = "none"
    BY <1>1 DEF LegacyRecords, LegacyInv, LegacyProgress
  <1>4. legacy.attempt \in 0 .. 2 /\ legacy.calls \in Nat
    BY DEF LegacyInv, LegacyRecords
  <1>5. PassedSoFar(legacy')
    BY <1>3 DEF PassedSoFar
  <1>6. LegacyProgress(legacy')
    BY <1>3, <1>4 DEF LegacyInv, LegacyProgress, StepsBefore, CallsBefore
  <1> QED
    BY <1>2, <1>5, <1>6 DEF LegacyInv

LEMMA LegacyStep ==
  ASSUME LegacyInv, LegacyNext
  PROVE  LegacyInv'
  <1> DEFINE l == legacy
  <1>0. /\ l \in LegacyRecords /\ PassedSoFar(l) /\ LegacyProgress(l)
        /\ l.steps \in Nat /\ l.calls \in Nat /\ l.retries \in Nat /\ l.attempt \in 0 .. 2
    BY DEF LegacyInv, LegacyRecords
  <1>n. /\ "get_attr_mapping" \in Nodes /\ "format_failure" \in Nodes /\ "derive_rules" \in Nodes
        /\ "build_sql" \in Nodes /\ "validate_syntax" \in Nodes /\ "validate_semantics" \in Nodes
        /\ "fix_sql" \in Nodes /\ "format_output" \in Nodes /\ "end" \in Nodes
    BY DEF Nodes
  <1>1. CASE GetTtlDefinition
    <2>1. /\ l.node = "get_ttl_definition" /\ l.steps = 0 /\ l.calls = 0 /\ l.output = "none"
          /\ l.retries < MaxFixes
      BY <1>0, <1>1, BeforeNodes DEF GetTtlDefinition, Node, LegacyProgress
    <2>2. ASSUME NEW schema \in Schemas, NEW objects \in SUBSET schema,
                 Returns([Asks(l) EXCEPT !.objects = objects], "get_attr_mapping", 1)
          PROVE  LegacyInv'
      <3> DEFINE b == [Asks(l) EXCEPT !.objects = objects]
      <3>1. objects \in SUBSET Names
        BY LegacyAssumption
      <3>2. b \in LegacyRecords
        BY <1>0, <3>1, AskedRecord, OneLegacyFieldSet
      <3>3. b.steps = 0 /\ b.calls <= 1 /\ b.retries = l.retries /\ b.output = "none"
        BY <1>0, <2>1, AskedRecord DEF LegacyRecords
      <3> HIDE DEF b
      <3>4. Returns(b, "get_attr_mapping", 1)
        BY <2>2 DEF b
      <3>5. MayEnter("get_attr_mapping", b, 1)
        BY <1>0, <1>n, <2>1, <3>2, <3>3, BeforeNodes, LegacyAssumption DEF MayEnter
      <3> QED
        BY <3>4, <3>5, ReturnsKeep
    <2>3. CASE Returns([l EXCEPT !.irrelevant = TRUE], "format_failure", 1)
      <3> DEFINE b == [l EXCEPT !.irrelevant = TRUE]
      <3>1. b \in LegacyRecords
        BY <1>0, OneLegacyFieldSet
      <3>2. b.steps = 0 /\ b.calls = 0 /\ b.retries = l.retries /\ b.output = "none"
        BY <1>0, <2>1 DEF LegacyRecords
      <3> HIDE DEF b
      <3>3. Returns(b, "format_failure", 1)
        BY <2>3 DEF b
      <3>4. MayEnter("format_failure", b, 1)
        BY <1>0, <1>n, <2>1, <3>1, <3>2, BeforeNodes, LegacyAssumption DEF MayEnter
      <3> QED
        BY <3>3, <3>4, ReturnsKeep
    <2>4. CASE Returns(l, "get_attr_mapping", 1)
      <3>1. MayEnter("get_attr_mapping", l, 1)
        BY <1>0, <1>n, <2>1, BeforeNodes, LegacyAssumption DEF MayEnter
      <3> QED
        BY <2>4, <3>1, ReturnsKeep
    <2> QED
      BY <1>1, <2>2, <2>3, <2>4 DEF GetTtlDefinition
  <1>2. CASE PrepareFields
    <2>1. /\ l.node = "get_attr_mapping" /\ l.steps <= 1 /\ l.calls <= 1 /\ l.output = "none"
          /\ l.retries < MaxFixes /\ Returns(l, "derive_rules", 4)
      BY <1>0, <1>2, BeforeNodes DEF PrepareFields, Node, LegacyProgress
    <2>2. MayEnter("derive_rules", l, 4)
      BY <1>0, <1>n, <2>1, BeforeNodes, LegacyAssumption DEF MayEnter
    <2> QED
      BY <2>1, <2>2, ReturnsKeep
  <1>3. CASE DeriveRules
    <2>1. /\ l.node = "derive_rules" /\ l.steps <= 5 /\ l.calls <= 1 + l.attempt /\ l.output = "none"
          /\ l.retries < MaxFixes
      BY <1>0, <1>3, BeforeNodes DEF DeriveRules, Node, LegacyProgress
    <2>2. CASE Returns(l, "build_sql", 1)
      <3>1. MayEnter("build_sql", l, 1)
        BY <1>0, <1>n, <2>1, BeforeNodes, LegacyAssumption DEF MayEnter
      <3> QED
        BY <2>2, <3>1, ReturnsKeep
    <2>3. ASSUME NEW names \in SUBSET Names, l.attempt < 2,
                 Returns([Asks(l) EXCEPT !.rules = names], "build_sql", 1)
          PROVE  LegacyInv'
      <3> DEFINE b == [Asks(l) EXCEPT !.rules = names]
      <3>1. b \in LegacyRecords
        BY <1>0, AskedRecord, OneLegacyFieldSet
      <3>2. b.steps = l.steps /\ b.calls <= l.calls + 1 /\ b.retries = l.retries /\ b.output = "none"
        BY <1>0, <2>1, AskedRecord DEF LegacyRecords
      <3> HIDE DEF b
      <3>3. Returns(b, "build_sql", 1)
        BY <2>3 DEF b
      <3>4. b.calls \in Nat
        BY <3>1 DEF LegacyRecords
      <3>5. MayEnter("build_sql", b, 1)
        BY <1>0, <1>n, <2>1, <2>3, <3>1, <3>2, <3>4, BeforeNodes, LegacyAssumption DEF MayEnter
      <3> QED
        BY <3>3, <3>5, ReturnsKeep
    <2>4. CASE l.attempt < 2 /\ legacy' = [Asks(l) EXCEPT !.attempt = l.attempt + 1]
      <3>1. l.attempt + 1 \in 0 .. 2 /\ l.attempt < l.attempt + 1
        BY <1>0, <2>4
      <3> QED
        BY <2>1, <2>4, <3>1, AttemptKeeps
    <2>5. CASE l.attempt < 2 /\ legacy' = [Asks(l) EXCEPT !.attempt = @ + 1]
      <3>1. Asks(l).attempt = l.attempt /\ Asks(l) \in LegacyRecords
        BY <1>0, AskedRecord
      <3> QED
        BY <2>4, <2>5, <3>1 DEF LegacyRecords
    <2> QED
      BY <1>3, <2>2, <2>3, <2>5 DEF DeriveRules
  <1>4. CASE BuildWithModel
    <2>1. /\ l.node = "build_sql" /\ l.steps <= 6 /\ l.calls <= 3 + l.attempt /\ l.output = "none"
          /\ l.retries < MaxFixes /\ l.attempt < 2
      BY <1>0, <1>4, BeforeNodes DEF BuildWithModel, Node, LegacyProgress
    <2>2. CASE legacy' = [Asks(l) EXCEPT !.attempt = @ + 1]
      <3>1. Asks(l).attempt = l.attempt /\ Asks(l) \in LegacyRecords
        BY <1>0, AskedRecord
      <3>2. l.attempt + 1 \in 0 .. 2 /\ l.attempt < l.attempt + 1
        BY <1>0, <2>1
      <3>3. legacy' = [Asks(l) EXCEPT !.attempt = l.attempt + 1]
        BY <2>2, <3>1 DEF LegacyRecords
      <3> QED
        BY <2>1, <3>2, <3>3, AttemptKeeps
    <2>3. ASSUME legacy' = [Asks(l) EXCEPT !.attempt = 2]
          PROVE  LegacyInv'
      <3>1. 2 \in 0 .. 2
        OBVIOUS
      <3> QED
        BY <2>1, <2>3, <3>1, AttemptKeeps
    <2>4. ASSUME NEW sql \in Texts, Returns([Asks(l) EXCEPT !.sql = sql], "validate_syntax", 1)
          PROVE  LegacyInv'
      <3> DEFINE b == [Asks(l) EXCEPT !.sql = sql]
      <3>1. b \in LegacyRecords
        BY <1>0, AskedRecord, OneLegacyFieldSet
      <3>2. b.steps = l.steps /\ b.calls <= l.calls + 1 /\ b.retries = l.retries /\ b.output = "none"
        BY <1>0, <2>1, AskedRecord DEF LegacyRecords
      <3> HIDE DEF b
      <3>3. Returns(b, "validate_syntax", 1)
        BY <2>4 DEF b
      <3>4. b.calls \in Nat
        BY <3>1 DEF LegacyRecords
      <3>5. MayEnter("validate_syntax", b, 1)
        BY <1>0, <1>n, <2>1, <3>1, <3>2, <3>4, BeforeNodes, LegacyAssumption DEF MayEnter
      <3> QED
        BY <3>3, <3>5, ReturnsKeep
    <2>5. CASE Returns(Asks(l), "validate_syntax", 1)
      <3>1. /\ Asks(l) \in LegacyRecords /\ Asks(l).calls <= l.calls + 1 /\ Asks(l).steps = l.steps
            /\ Asks(l).retries = l.retries /\ Asks(l).output = "none" /\ Asks(l).calls \in Nat
        BY <1>0, <2>1, AskedRecord DEF LegacyRecords
      <3>2. MayEnter("validate_syntax", Asks(l), 1)
        BY <1>0, <1>n, <2>1, <3>1, BeforeNodes, LegacyAssumption DEF MayEnter
      <3> QED
        BY <2>5, <3>2, ReturnsKeep
    <2>6. CASE \E sql \in Texts, schema \in Schemas :
                 /\ SyntaxOk(sql)
                 /\ IF SemanticsOk(sql, schema)
                    THEN Returns([Asks(l) EXCEPT !.sql = sql], "validate_syntax", 1)
                    ELSE legacy' = [Asks(l) EXCEPT !.attempt = 2]
      BY <2>3, <2>4, <2>6
    <2> QED
      BY <1>4, <2>2, <2>5, <2>6 DEF BuildWithModel
  <1>5. CASE BuildFromTemplate
    <2>1. /\ l.node = "build_sql" /\ l.steps <= 6 /\ l.calls <= 5 /\ l.output = "none"
          /\ l.retries < MaxFixes
      BY <1>0, <1>5, BeforeNodes DEF BuildFromTemplate, Node, LegacyProgress
    <2>2. PICK form \in BOOLEAN : Returns([l EXCEPT !.sql = Template(form)], "validate_syntax", 1)
      BY <1>5 DEF BuildFromTemplate
    <2> DEFINE b == [l EXCEPT !.sql = Template(form)]
    <2>3. l.objects \cup l.rules \in SUBSET Names
      BY <1>0 DEF LegacyRecords
    <2>4. Template(form) \in Texts
      BY <2>3 DEF Template, Texts, NoText
    <2>5. b \in LegacyRecords
      BY <1>0, <2>4, OneLegacyFieldSet
    <2>6. b.steps = l.steps /\ b.calls = l.calls /\ b.retries = l.retries /\ b.output = "none"
      BY <1>0, <2>1 DEF LegacyRecords
    <2> HIDE DEF b
    <2>7. MayEnter("validate_syntax", b, 1)
      BY <1>0, <1>n, <2>1, <2>5, <2>6, BeforeNodes, LegacyAssumption DEF MayEnter
    <2>8. Returns(b, "validate_syntax", 1)
      BY <2>2 DEF b
    <2> QED
      BY <2>7, <2>8, ReturnsKeep
  <1>6. CASE ValidateSyntax
    <2> DEFINE ok == SyntaxOk(l.sql)
               passed == IF ok THEN {"syntax"} ELSE {}
               next == IF ok THEN "validate_semantics" ELSE "fix_sql"
               b == [l EXCEPT !.valid = ok]
               c == [b EXCEPT !.blind = FALSE]
               d == [c EXCEPT !.passed = passed]
    <2>1. /\ l.node = "validate_syntax" /\ l.steps <= 7 + 3 * l.retries /\ l.calls <= 5
          /\ l.output = "none" /\ l.retries < MaxFixes
      BY <1>0, <1>6, BeforeNodes DEF ValidateSyntax, Node, LegacyProgress
    <2>2. Returns([l EXCEPT !.valid = ok, !.blind = FALSE, !.passed = passed], next, 1)
      BY <1>6 DEF ValidateSyntax
    <2>3. ok \in BOOLEAN
      BY DEF SyntaxOk
    <2>4. b \in LegacyRecords
      BY <1>0, <2>3, OneLegacyFieldSet
    <2>5. c \in LegacyRecords
      <3> HIDE DEF b
      <3> QED
        BY <2>4, OneLegacyFieldSet
    <2>6. d \in LegacyRecords
      <3> HIDE DEF c
      <3> QED
        BY <2>5, OneLegacyFieldSet
    <2>7. [l EXCEPT !.valid = ok, !.blind = FALSE, !.passed = passed] = d
      BY <1>0 DEF LegacyRecords
    <2>8. /\ d.steps = l.steps /\ d.calls = l.calls /\ d.retries = l.retries /\ d.output = l.output
          /\ d.passed = passed /\ d.sql = l.sql
      BY <1>0 DEF LegacyRecords
    <2>9. next \in {"validate_semantics", "fix_sql"} /\ (next = "validate_semantics" <=> ok)
      OBVIOUS
    <2>10. ok => "syntax" \in passed
      OBVIOUS
    <2> HIDE DEF d, next, passed
    <2>11. MayEnter(next, d, 1)
      BY <1>0, <1>n, <2>1, <2>6, <2>8, <2>9, <2>10, BeforeNodes, LegacyAssumption DEF MayEnter
    <2>12. Returns(d, next, 1)
      BY <2>2, <2>7
    <2> QED
      BY <2>11, <2>12, ReturnsKeep
  <1>7. CASE ValidateSemantics
    <2>1. /\ l.node = "validate_semantics" /\ l.steps <= 8 + 3 * l.retries /\ l.calls <= 5
          /\ l.output = "none" /\ l.retries < MaxFixes
          /\ "syntax" \in l.passed /\ SyntaxOk(l.sql)
      BY <1>0, <1>7, BeforeNodes DEF ValidateSemantics, Node, LegacyProgress, PassedSoFar
    <2>2. ASSUME NEW schema \in Schemas,
                 LET ok == SemanticsOk(l.sql, schema)
                 IN Returns([l EXCEPT !.valid = ok,
                                      !.passed = IF ok THEN @ \cup {"semantics"} ELSE @],
                            IF ok THEN "format_output" ELSE "fix_sql", 1)
          PROVE  LegacyInv'
      <3> DEFINE ok == SemanticsOk(l.sql, schema)
                 passed == IF ok THEN l.passed \cup {"semantics"} ELSE l.passed
                 next == IF ok THEN "format_output" ELSE "fix_sql"
                 b == [l EXCEPT !.valid = ok]
                 c == [b EXCEPT !.passed = passed]
      <3>1. ok \in BOOLEAN
        BY DEF SemanticsOk
      <3>2. passed \in SUBSET {"syntax", "semantics"}
        BY <1>0 DEF LegacyRecords
      <3>3. b \in LegacyRecords
        BY <1>0, <3>1, OneLegacyFieldSet
      <3>4. c \in LegacyRecords
        <4> HIDE DEF b, passed
        <4> QED
          BY <3>2, <3>3, OneLegacyFieldSet
      <3>5. [l EXCEPT !.valid = ok, !.passed = IF ok THEN @ \cup {"semantics"} ELSE @] = c
        BY <1>0 DEF LegacyRecords
      <3>6. /\ c.steps = l.steps /\ c.calls = l.calls /\ c.retries = l.retries /\ c.output = l.output
            /\ c.passed = passed /\ c.sql = l.sql
        BY <1>0 DEF LegacyRecords
      <3>7. next \in {"format_output", "fix_sql"} /\ (next = "format_output" <=> ok)
        OBVIOUS
      <3>8. "syntax" \in passed /\ (ok => "semantics" \in passed)
        BY <2>1
      <3>9. Returns(c, next, 1)
        BY <2>2, <3>5
      <3> HIDE DEF c, next, passed
      <3>10. MayEnter(next, c, 1)
        BY <1>0, <1>n, <2>1, <3>4, <3>6, <3>7, <3>8, BeforeNodes, LegacyAssumption DEF MayEnter
      <3> QED
        BY <3>9, <3>10, ReturnsKeep
    <2>3. CASE Returns([l EXCEPT !.blind = TRUE], IF l.valid THEN "format_output" ELSE "fix_sql", 1)
      <3> DEFINE next == IF l.valid THEN "format_output" ELSE "fix_sql"
                 b == [l EXCEPT !.blind = TRUE]
      <3>1. b \in LegacyRecords
        BY <1>0, OneLegacyFieldSet
      <3>2. /\ b.steps = l.steps /\ b.calls = l.calls /\ b.retries = l.retries /\ b.output = l.output
            /\ b.passed = l.passed /\ b.sql = l.sql /\ b.blind
        BY <1>0 DEF LegacyRecords
      <3>3. next \in {"format_output", "fix_sql"}
        OBVIOUS
      <3>4. Returns(b, next, 1)
        BY <2>3
      <3> HIDE DEF b, next
      <3>5. MayEnter(next, b, 1)
        BY <1>0, <1>n, <2>1, <3>1, <3>2, <3>3, BeforeNodes, LegacyAssumption DEF MayEnter
      <3> QED
        BY <3>4, <3>5, ReturnsKeep
    <2> QED
      BY <1>7, <2>2, <2>3 DEF ValidateSemantics
  <1>8. CASE FixSql
    <2> DEFINE count == l.retries + 1
               next == IF count < MaxFixes THEN "validate_syntax" ELSE "format_failure"
               b == [l EXCEPT !.sql.ends = TRUE]
               c == [b EXCEPT !.retries = count]
               d == [c EXCEPT !.passed = {}]
    <2>1. /\ l.node = "fix_sql" /\ l.steps <= 9 + 3 * l.retries /\ l.calls <= 5
          /\ l.output = "none" /\ l.retries < MaxFixes
      BY <1>0, <1>8, BeforeNodes DEF FixSql, Node, LegacyProgress
    <2>2. Returns([l EXCEPT !.sql.ends = TRUE, !.retries = count, !.passed = {}], next, 1)
      BY <1>8 DEF FixSql
    <2>3. b \in LegacyRecords
      BY <1>0 DEF LegacyRecords, Texts
    <2>11. count \in Nat
      BY <1>0
    <2>4. c \in LegacyRecords
      <3> HIDE DEF b, count
      <3> QED
        BY <2>3, <2>11, OneLegacyFieldSet
    <2>5. d \in LegacyRecords
      <3> HIDE DEF c
      <3> QED
        BY <2>4, OneLegacyFieldSet
    <2>6. [l EXCEPT !.sql.ends = TRUE, !.retries = count, !.passed = {}] = d
      BY <1>0 DEF LegacyRecords
    <2>7. /\ d.steps = l.steps /\ d.calls = l.calls /\ d.retries = count /\ d.output = l.output
      BY <1>0 DEF LegacyRecords
    <2>8. /\ next \in {"validate_syntax", "format_failure"}
          /\ next = "validate_syntax" => count < MaxFixes
          /\ count <= MaxFixes
      BY <1>0, <2>1, LegacyAssumption
    <2>9. Returns(d, next, 1)
      BY <2>2, <2>6
    <2> HIDE DEF d, next
    <2>10. MayEnter(next, d, 1)
      BY <1>0, <1>n, <2>1, <2>5, <2>7, <2>8, BeforeNodes, LegacyAssumption DEF MayEnter
    <2> QED
      BY <2>9, <2>10, ReturnsKeep
  <1>9. CASE FormatOutput
    <2> DEFINE b == [l EXCEPT !.output = "sql"]
    <2>1. /\ l.node = "format_output" /\ l.steps <= 9 + 3 * l.retries /\ l.calls <= 5
          /\ l.retries < MaxFixes
          /\ "syntax" \in l.passed /\ SyntaxOk(l.sql) /\ (l.blind \/ "semantics" \in l.passed)
      BY <1>0, <1>9, BeforeNodes DEF FormatOutput, Node, LegacyProgress, PassedSoFar
    <2>2. b \in LegacyRecords
      BY <1>0, OneLegacyFieldSet DEF LegacyOutputs
    <2>3. /\ b.steps = l.steps /\ b.calls = l.calls /\ b.retries = l.retries
          /\ b.passed = l.passed /\ b.sql = l.sql /\ b.blind = l.blind
      BY <1>0 DEF LegacyRecords
    <2>4. Returns(b, "end", 1)
      BY <1>9 DEF FormatOutput
    <2> HIDE DEF b
    <2>5. MayEnter("end", b, 1)
      BY <1>0, <1>n, <2>1, <2>2, <2>3, BeforeNodes, LegacyAssumption DEF MayEnter
    <2> QED
      BY <2>4, <2>5, ReturnsKeep
  <1>10. CASE FormatFailure
    <2> DEFINE output == IF l.irrelevant THEN "irrelevant" ELSE "refused"
               b == [l EXCEPT !.output = output]
    <2>1. /\ l.node = "format_failure" /\ l.steps <= 7 + 3 * l.retries /\ l.calls <= 5
          /\ l.retries <= MaxFixes
      BY <1>0, <1>10, BeforeNodes DEF FormatFailure, Node, LegacyProgress
    <2>2. output \in LegacyOutputs /\ output # "sql"
      BY DEF LegacyOutputs
    <2>3. Returns(b, "end", 1)
      BY <1>10 DEF FormatFailure
    <2> HIDE DEF output
    <2>4. b \in LegacyRecords
      BY <1>0, <2>2, OneLegacyFieldSet
    <2>5. b.steps = l.steps /\ b.calls = l.calls /\ b.retries = l.retries /\ b.output # "sql"
      BY <1>0, <2>2 DEF LegacyRecords
    <2> HIDE DEF b
    <2>6. MayEnter("end", b, 1)
      BY <1>0, <1>n, <2>1, <2>4, <2>5, BeforeNodes, LegacyAssumption DEF MayEnter
    <2> QED
      BY <2>3, <2>6, ReturnsKeep
  <1> QED
    BY <1>1, <1>2, <1>3, <1>4, <1>5, <1>6, <1>7, <1>8, <1>9, <1>10 DEF LegacyNext

LEMMA LegacyKeepsInv ==
  ASSUME LegacyInv, [LegacyNext]_legacy
  PROVE  LegacyInv'
  <1>1. CASE UNCHANGED legacy
    BY <1>1 DEF LegacyInv, PassedSoFar, LegacyProgress
  <1> QED
    BY <1>1, LegacyStep

(* The older graph hands out only what its checks accepted, and its repairs bound
   its nodes (node_fix_sql, route_after_fix). *)
LEMMA LegacySound ==
  ASSUME LegacyInv
  PROVE  /\ LegacyWasChecked
         /\ 8 + 3 * MaxFixes < NodeLimit => LegacyWithinLimits
  <1>1. LegacyWasChecked
    BY DEF LegacyInv, PassedSoFar, LegacyWasChecked
  <1>2. /\ legacy.node \in Nodes /\ legacy.retries \in Nat /\ legacy.steps \in Nat /\ legacy.calls \in Nat
        /\ legacy.attempt \in 0 .. 2 /\ MaxFixes \in Nat \ {0} /\ NodeLimit \in Nat
    BY LegacyAssumption DEF LegacyInv, LegacyRecords
  <1>3. legacy.steps <= 8 + 3 * MaxFixes
    <2>1. CASE legacy.node = "end"
      BY <2>1 DEF LegacyInv, LegacyProgress
    <2>2. CASE legacy.node = "format_failure"
      BY <1>2, <2>2, BeforeNodes DEF LegacyInv, LegacyProgress
    <2>3. CASE legacy.node \notin {"end", "format_failure"}
      <3>1. StepsBefore(legacy.node, legacy.retries) <= 9 + 3 * legacy.retries
        BY <1>2, <2>3, BeforeNodes DEF Nodes
      <3>2. legacy.steps <= StepsBefore(legacy.node, legacy.retries) /\ legacy.retries < MaxFixes
        BY <2>3 DEF LegacyInv, LegacyProgress
      <3>3. StepsBefore(legacy.node, legacy.retries) \in Nat
        BY <1>2, <2>3, BeforeNodes DEF Nodes
      <3> QED
        BY <1>2, <3>1, <3>2, <3>3
    <2> QED
      BY <2>1, <2>2, <2>3
  <1>4. legacy.calls <= 5
    <2>1. CallsBefore(legacy.node, legacy.attempt) \in 0 .. 5
      BY <1>2, BeforeNodes DEF Nodes
    <2> QED
      BY <1>2, <2>1 DEF LegacyInv, LegacyProgress
  <1> QED
    BY <1>1, <1>2, <1>3, <1>4 DEF LegacyWithinLimits

-------------------------------------------------------------------------------
(* The services *)

JobPhases  == {"new", "ask", "tools", "judge", "compare", "done"}
JobOutputs == {"none", "program", "clarification", "failed", "unavailable"}

(* A job without the bounds of its rounds and batches. *)
JobRecords ==
  [kind : Kinds, at : Processes, phase : JobPhases,
   pinned : Versions, known : SUBSET Objects, loaded : SUBSET Objects,
   round : Nat, pending : Nat, attempt : 0 .. 1,
   calls : Nat, tools : Nat, allow : BOOLEAN, claim : BOOLEAN, cte : BOOLEAN,
   names : SUBSET Objects, output : JobOutputs, forbade : BOOLEAN, compared : Versions, grown : BOOLEAN]

LEMMA OneJobFieldSet ==
  ASSUME NEW j \in JobRecords
  PROVE  /\ \A x \in JobPhases : [j EXCEPT !.phase = x] \in JobRecords
         /\ \A v \in Versions : /\ [j EXCEPT !.pinned = v] \in JobRecords
                                /\ [j EXCEPT !.compared = v] \in JobRecords
         /\ \A os \in SUBSET Objects : /\ [j EXCEPT !.known = os] \in JobRecords
                                       /\ [j EXCEPT !.loaded = os] \in JobRecords
                                       /\ [j EXCEPT !.names = os] \in JobRecords
         /\ \A n \in Nat : /\ [j EXCEPT !.round = n] \in JobRecords
                           /\ [j EXCEPT !.pending = n] \in JobRecords
                           /\ [j EXCEPT !.calls = n] \in JobRecords
                           /\ [j EXCEPT !.tools = n] \in JobRecords
         /\ \A n \in 0 .. 1 : [j EXCEPT !.attempt = n] \in JobRecords
         /\ \A b \in BOOLEAN : /\ [j EXCEPT !.allow = b] \in JobRecords
                               /\ [j EXCEPT !.claim = b] \in JobRecords
                               /\ [j EXCEPT !.cte = b] \in JobRecords
                               /\ [j EXCEPT !.forbade = b] \in JobRecords
                              /\ [j EXCEPT !.grown = b] \in JobRecords
         /\ \A o \in JobOutputs : [j EXCEPT !.output = o] \in JobRecords
  BY DEF JobRecords

(* The rounds of tool calls that are over, and those an attempt ends with at most;
   the calls of the model before the one that is made next. *)
Rounds(j)    == IF j.attempt = 0 THEN j.round ELSE ToolRounds + j.round
AllRounds(j) == IF j.attempt = 0 THEN ToolRounds ELSE ToolRounds + ToolRounds
CallsSoFar(j) == IF j.kind = "plan" THEN j.attempt ELSE Rounds(j) + j.attempt

(* Batches of tool calls add up. *)
LEMMA Batches ==
  /\ \A n \in Nat : MaxBatch * n \in Nat /\ MaxBatch * (n + 1) = MaxBatch * n + MaxBatch
  /\ \A m, n \in Nat : m <= n => MaxBatch * m <= MaxBatch * n
  /\ MaxBatch * ToolRounds * 1 = MaxBatch * ToolRounds
  /\ MaxBatch * ToolRounds * 2 = MaxBatch * (ToolRounds + ToolRounds)
  BY GenerationAssumption

(* What the model was shown, ... *)
ShownContext(j) ==
  /\ j.loaded \subseteq j.known /\ (j.grown => Cardinality(j.known) <= MaxObjects)
  /\ j.phase \in {"ask", "tools", "judge", "compare"} => j.pinned # 0
  /\ j.phase # "done" => j.output = "none"
  /\ j.phase = "new" => j.loaded = {} /\ ~j.grown

(* ... what was forbidden and checked, ... *)
Judged(j) ==
  /\ j.kind # "author" => ~j.cte
  /\ j.kind # "infer" => j.names = {}
  /\ j.kind = "author" /\ j.phase \in {"new", "ask", "tools"} /\ j.allow => ~j.forbade
  /\ j.kind = "author" /\ j.phase = "judge" /\ j.allow /\ j.claim => ~j.forbade
  /\ j.phase = "compare" => j.names \subseteq j.known /\ (j.cte => ~j.forbade)

(* ... and how far the loops are. *)
Counted(j) ==
  /\ j.round <= ToolRounds /\ j.pending <= MaxBatch
  /\ j.kind = "infer" => j.attempt = 0
  /\ j.phase \in {"new", "ask"} =>
       j.calls <= CallsSoFar(j) /\ j.pending = 0 /\ j.tools <= MaxBatch * Rounds(j)
  /\ j.calls <= CallsSoFar(j) + 1
  /\ j.phase = "tools" =>
       /\ j.kind # "plan" /\ j.round < ToolRounds /\ j.pending > 0
       /\ j.tools + j.pending <= MaxBatch * Rounds(j) + MaxBatch
  /\ j.phase \in {"judge", "compare"} => j.pending = 0 /\ j.tools <= MaxBatch * AllRounds(j)

(* What is handed out was compared and checked. *)
HandsOut(j) ==
  j.output = "program" =>
    /\ j.pinned # 0 /\ (j.kind # "plan" => j.compared = j.pinned)
    /\ j.names \subseteq j.known /\ (j.cte => ~j.forbade)

JobOpen(j) == j \in JobRecords /\ j.phase # "done" /\ ShownContext(j) /\ Judged(j) /\ Counted(j)
JobClosed(j) ==
  /\ j \in JobRecords /\ j.phase = "done" /\ HandsOut(j)
  /\ j.loaded \subseteq j.known /\ (j.grown => Cardinality(j.known) <= MaxObjects)
  /\ j.round <= ToolRounds /\ j.pending = 0 /\ (j.kind = "infer" => j.attempt = 0)
  /\ j.calls <= CallsSoFar(j) + 1 /\ j.tools <= MaxBatch * AllRounds(j)

JobInv == installed \in [Processes -> Versions] /\ (JobOpen(job) \/ JobClosed(job))

LEMMA RoundNumbers ==
  ASSUME NEW j \in JobRecords
  PROVE  /\ Rounds(j) \in Nat /\ AllRounds(j) \in Nat /\ CallsSoFar(j) \in Nat
         /\ MaxBatch * Rounds(j) \in Nat /\ MaxBatch * AllRounds(j) \in Nat
         /\ j.round <= ToolRounds => MaxBatch * Rounds(j) <= MaxBatch * AllRounds(j)
         /\ j.round < ToolRounds => MaxBatch * Rounds(j) + MaxBatch <= MaxBatch * AllRounds(j)
  <1>1. j.round \in Nat /\ j.attempt \in 0 .. 1 /\ ToolRounds \in Nat
    BY GenerationAssumption DEF JobRecords
  <1>2. Rounds(j) \in Nat /\ AllRounds(j) \in Nat /\ CallsSoFar(j) \in Nat
    BY <1>1 DEF Rounds, AllRounds, CallsSoFar
  <1>3. /\ j.round <= ToolRounds => Rounds(j) <= AllRounds(j)
        /\ j.round < ToolRounds => Rounds(j) + 1 <= AllRounds(j)
    BY <1>1 DEF Rounds, AllRounds
  <1>4. MaxBatch * (Rounds(j) + 1) = MaxBatch * Rounds(j) + MaxBatch
    BY <1>2, Batches
  <1>5. Rounds(j) + 1 \in Nat
    BY <1>2
  <1> HIDE DEF Rounds, AllRounds
  <1> QED
    BY <1>2, <1>3, <1>4, <1>5, Batches

(* A request ends. *)
MayEnd(j, output) ==
  /\ j \in JobRecords /\ output \in JobOutputs
  /\ output = "program" =>
       /\ j.pinned # 0 /\ (j.kind # "plan" => j.compared = j.pinned)
       /\ j.names \subseteq j.known /\ (j.cte => ~j.forbade)
  /\ j.loaded \subseteq j.known /\ (j.grown => Cardinality(j.known) <= MaxObjects)
  /\ j.round <= ToolRounds /\ (j.kind = "infer" => j.attempt = 0)
  /\ j.calls <= CallsSoFar(j) + 1 /\ j.tools <= MaxBatch * AllRounds(j)

LEMMA EndedJob ==
  ASSUME NEW j, NEW output, MayEnd(j, output)
  PROVE  JobClosed(Ended(j, output))
  <1> DEFINE b == [j EXCEPT !.phase = "done"]
             c == [b EXCEPT !.output = output]
             d == [c EXCEPT !.pending = 0]
  <1>0. j \in JobRecords /\ output \in JobOutputs
    BY DEF MayEnd
  <1>1. Ended(j, output) = d
    BY <1>0 DEF JobRecords, Ended
  <1>2. b \in JobRecords
    BY <1>0, OneJobFieldSet DEF JobPhases
  <1>3. c \in JobRecords
    <2> HIDE DEF b
    <2> QED
      BY <1>0, <1>2, OneJobFieldSet
  <1>4. d \in JobRecords
    <2> HIDE DEF c
    <2> QED
      BY <1>3, OneJobFieldSet
  <1>5. /\ d.phase = "done" /\ d.output = output /\ d.pending = 0 /\ d.round = j.round
        /\ d.kind = j.kind /\ d.attempt = j.attempt /\ d.calls = j.calls /\ d.tools = j.tools
        /\ d.known = j.known /\ d.grown = j.grown /\ d.loaded = j.loaded /\ d.names = j.names /\ d.cte = j.cte
        /\ d.forbade = j.forbade /\ d.pinned = j.pinned /\ d.compared = j.compared
    BY <1>0 DEF JobRecords
  <1> HIDE DEF d
  <1>6. CallsSoFar(d) = CallsSoFar(j) /\ AllRounds(d) = AllRounds(j)
    BY <1>5 DEF CallsSoFar, AllRounds, Rounds
  <1>7. JobClosed(d)
    BY <1>4, <1>5, <1>6 DEF JobClosed, HandsOut, MayEnd
  <1> QED
    BY <1>1, <1>7

(* Any open job may end without a program. *)
LEMMA OpenMayEnd ==
  ASSUME NEW j, JobOpen(j), NEW output \in JobOutputs \ {"program"}
  PROVE  MayEnd(j, output)
  <1>1. j \in JobRecords /\ j.tools \in Nat /\ j.pending \in Nat
    BY DEF JobOpen, JobRecords
  <1>2. j.tools <= MaxBatch * AllRounds(j)
    BY <1>1, RoundNumbers, GenerationAssumption DEF JobOpen, Counted, JobRecords, JobPhases
  <1> QED
    BY <1>1, <1>2 DEF MayEnd, JobOpen, ShownContext, Counted

(* The model is called. *)
LEMMA CalledJob ==
  ASSUME JobOpen(job), job.phase = "ask"
  PROVE  /\ JobCalled \in JobRecords
         /\ JobCalled.calls = job.calls + 1 /\ JobCalled.phase = "ask"
         /\ JobCalled.kind = job.kind /\ JobCalled.round = job.round /\ JobCalled.attempt = job.attempt
         /\ JobCalled.tools = job.tools /\ JobCalled.pending = 0
         /\ JobCalled.known = job.known /\ JobCalled.grown = job.grown /\ JobCalled.loaded = job.loaded
         /\ JobCalled.pinned = job.pinned /\ JobCalled.output = "none"
         /\ JobCalled.names = job.names /\ JobCalled.cte = job.cte
         /\ JobCalled.allow = job.allow /\ JobCalled.forbade = job.forbade /\ JobCalled.claim = job.claim
         /\ CallsSoFar(JobCalled) = CallsSoFar(job) /\ Rounds(JobCalled) = Rounds(job)
         /\ AllRounds(JobCalled) = AllRounds(job)
         /\ JobCalled.calls <= CallsSoFar(job) + 1
         /\ \A output \in JobOutputs \ {"program"} : MayEnd(JobCalled, output)
  <1>1. job \in JobRecords /\ job.calls \in Nat /\ job.calls + 1 \in Nat
    BY DEF JobOpen, JobRecords
  <1>2. JobCalled \in JobRecords
    BY <1>1, OneJobFieldSet DEF JobCalled
  <1>3. /\ JobCalled.calls = job.calls + 1 /\ JobCalled.phase = "ask"
        /\ JobCalled.kind = job.kind /\ JobCalled.round = job.round /\ JobCalled.attempt = job.attempt
        /\ JobCalled.tools = job.tools /\ JobCalled.pending = job.pending
        /\ JobCalled.known = job.known /\ JobCalled.grown = job.grown /\ JobCalled.loaded = job.loaded
        /\ JobCalled.pinned = job.pinned /\ JobCalled.output = job.output
        /\ JobCalled.names = job.names /\ JobCalled.cte = job.cte
        /\ JobCalled.allow = job.allow /\ JobCalled.forbade = job.forbade /\ JobCalled.claim = job.claim
    BY <1>1 DEF JobCalled, JobRecords
  <1>4. job.pending = 0 /\ job.output = "none" /\ job.calls <= CallsSoFar(job)
    BY DEF JobOpen, Counted, ShownContext
  <1>5. /\ CallsSoFar(JobCalled) = CallsSoFar(job) /\ Rounds(JobCalled) = Rounds(job)
        /\ AllRounds(JobCalled) = AllRounds(job)
    BY <1>3 DEF CallsSoFar, Rounds, AllRounds
  <1>6. job.calls + 1 <= CallsSoFar(job) + 1
    BY <1>1, <1>4, RoundNumbers
  <1>7. ASSUME NEW output \in JobOutputs \ {"program"}
        PROVE  MayEnd(JobCalled, output)
    <2>1. MayEnd(job, output)
      BY OpenMayEnd
    <2> QED
      BY <1>2, <1>3, <1>5, <1>6, <2>1 DEF MayEnd
  <1> QED
    BY <1>2, <1>3, <1>4, <1>5, <1>6, <1>7

(* One tool call is answered. *)
LEMMA AnsweredLookup ==
  ASSUME NEW j, JobOpen(j), j.phase = "tools"
  PROVE  JobOpen(LookupAnswered(j))
  <1> DEFINE phase == IF j.pending = 1 THEN "ask" ELSE "tools"
             round == IF j.pending = 1 THEN j.round + 1 ELSE j.round
             b == [j EXCEPT !.tools = j.tools + 1]
             c == [b EXCEPT !.pending = j.pending - 1]
             d == [c EXCEPT !.phase = phase]
             e == [d EXCEPT !.round = round]
  <1>0. /\ j \in JobRecords /\ j.tools \in Nat /\ j.pending \in Nat /\ j.pending > 0 /\ j.round \in Nat
        /\ j.attempt \in 0 .. 1 /\ j.calls \in Nat
        /\ j.round < ToolRounds /\ j.pending <= MaxBatch
        /\ j.tools + j.pending <= MaxBatch * Rounds(j) + MaxBatch
        /\ j.calls <= CallsSoFar(j) + 1
    BY DEF JobOpen, JobRecords, Counted
  <1>1. LookupAnswered(j) = e
    <2>1. CASE j.pending = 1
      BY <1>0, <2>1 DEF LookupAnswered, JobRecords
    <2>2. CASE j.pending # 1
      BY <1>0, <2>2 DEF LookupAnswered, JobRecords
    <2> QED
      BY <2>1, <2>2
  <1>2. b \in JobRecords
    <2>1. j.tools + 1 \in Nat
      BY <1>0
    <2> QED
      BY <1>0, <2>1, OneJobFieldSet
  <1>3. c \in JobRecords
    <2>1. j.pending - 1 \in Nat
      BY <1>0
    <2> HIDE DEF b
    <2> QED
      BY <1>2, <2>1, OneJobFieldSet
  <1>4. d \in JobRecords
    <2>1. phase \in JobPhases
      BY DEF JobPhases
    <2> HIDE DEF c, phase
    <2> QED
      BY <1>3, <2>1, OneJobFieldSet
  <1>5. round \in Nat
    BY <1>0
  <1>6. e \in JobRecords
    <2> HIDE DEF d, round
    <2> QED
      BY <1>4, <1>5, OneJobFieldSet
  <1>7. /\ e.phase = phase /\ e.round = round /\ e.pending = j.pending - 1 /\ e.tools = j.tools + 1
        /\ e.kind = j.kind /\ e.attempt = j.attempt /\ e.calls = j.calls
        /\ e.known = j.known /\ e.grown = j.grown /\ e.loaded = j.loaded /\ e.names = j.names /\ e.cte = j.cte
        /\ e.allow = j.allow /\ e.claim = j.claim /\ e.forbade = j.forbade
        /\ e.pinned = j.pinned /\ e.output = j.output
    BY <1>0 DEF JobRecords
  <1> HIDE DEF e
  <1>8. ShownContext(e)
    BY <1>7 DEF JobOpen, ShownContext
  <1>9. Judged(e)
    BY <1>7 DEF JobOpen, Judged
  <1>10. Counted(e)
    <2>1. CASE j.pending = 1
      <3>1. Rounds(e) = Rounds(j) + 1
        BY <1>0, <1>7, <2>1, GenerationAssumption DEF Rounds
      <3>2. MaxBatch * Rounds(e) = MaxBatch * Rounds(j) + MaxBatch
        BY <1>0, <3>1, RoundNumbers, Batches
      <3>3. j.kind # "plan" => CallsSoFar(e) = CallsSoFar(j) + 1
        BY <1>0, <1>7, <3>1, RoundNumbers DEF CallsSoFar
      <3>4. /\ e.phase = "ask" /\ e.pending = 0 /\ e.round = j.round + 1 /\ e.round <= ToolRounds
            /\ e.pending <= MaxBatch
        BY <1>0, <1>7, <2>1, GenerationAssumption
      <3>5. e.tools <= MaxBatch * Rounds(e)
        BY <1>0, <1>7, <2>1, <3>2
      <3>6. j.kind # "plan"
        BY DEF JobOpen, Counted
      <3>7. e.calls <= CallsSoFar(e)
        BY <1>0, <1>7, <3>3, <3>6
      <3> QED
        BY <1>6, <1>7, <3>4, <3>5, <3>7, RoundNumbers DEF Counted, JobOpen, JobRecords
    <2>2. CASE j.pending # 1
      <3>1. Rounds(e) = Rounds(j) /\ CallsSoFar(e) = CallsSoFar(j)
        BY <1>7, <2>2 DEF Rounds, CallsSoFar
      <3>2. e.phase = "tools" /\ e.round = j.round
        BY <1>7, <2>2
      <3>3. e.pending > 0 /\ e.pending <= MaxBatch /\ e.tools + e.pending = j.tools + j.pending
        BY <1>0, <1>7, <2>2, GenerationAssumption
      <3> QED
        BY <1>0, <1>7, <3>1, <3>2, <3>3 DEF Counted, JobOpen
    <2> QED
      BY <2>1, <2>2
  <1> QED
    BY <1>0, <1>1, <1>6, <1>7, <1>8, <1>9, <1>10 DEF JobOpen

(* What the model says is judged; only CTEs and names are looked at. *)
LEMMA AnsweredCall ==
  ASSUME JobOpen(job), job.phase = "ask",
         NEW claim \in BOOLEAN, NEW cte \in BOOLEAN, NEW names \in SUBSET Objects,
         job.kind # "author" => claim = job.claim /\ ~cte,
         job.kind # "infer" => names = {}
  PROVE  JobOpen([JobCalled EXCEPT !.phase = "judge", !.claim = claim, !.cte = cte, !.names = names,
                                   !.forbade = @ \/ ~claim])
  <1> DEFINE j == JobCalled
             b == [j EXCEPT !.phase = "judge"]
             c == [b EXCEPT !.claim = claim]
             d == [c EXCEPT !.cte = cte]
             e == [d EXCEPT !.names = names]
             f == [e EXCEPT !.forbade = j.forbade \/ ~claim]
             g == [j EXCEPT !.phase = "judge", !.claim = claim, !.cte = cte, !.names = names,
                            !.forbade = @ \/ ~claim]
  <1>0. j \in JobRecords /\ j.forbade \in BOOLEAN
    BY CalledJob DEF JobRecords
  <1>1. g = f
    <2> HIDE DEF j
    <2> QED
      BY <1>0 DEF JobRecords
  <1>2. b \in JobRecords
    <2> HIDE DEF j
    <2> QED
      BY <1>0, OneJobFieldSet DEF JobPhases
  <1>3. c \in JobRecords
    <2> HIDE DEF b
    <2> QED
      BY <1>2, OneJobFieldSet
  <1>4. d \in JobRecords
    <2> HIDE DEF c
    <2> QED
      BY <1>3, OneJobFieldSet
  <1>5. e \in JobRecords
    <2> HIDE DEF d
    <2> QED
      BY <1>4, OneJobFieldSet
  <1>6. f \in JobRecords
    <2> HIDE DEF e, j
    <2> QED
      BY <1>0, <1>5, OneJobFieldSet
  <1>7. /\ g.phase = "judge" /\ g.claim = claim /\ g.cte = cte /\ g.names = names
        /\ g.forbade = (j.forbade \/ ~claim)
        /\ g.kind = j.kind /\ g.round = j.round /\ g.attempt = j.attempt /\ g.pending = j.pending
        /\ g.calls = j.calls /\ g.tools = j.tools /\ g.known = j.known /\ g.grown = j.grown /\ g.loaded = j.loaded
        /\ g.allow = j.allow /\ g.pinned = j.pinned /\ g.output = j.output
    <2> HIDE DEF j
    <2> QED
      BY <1>0 DEF JobRecords
  <1> HIDE DEF g, f
  <1>8. /\ g.kind = job.kind /\ g.round = job.round /\ g.attempt = job.attempt /\ g.pending = 0
        /\ g.tools = job.tools /\ g.known = job.known /\ g.grown = job.grown /\ g.loaded = job.loaded
        /\ g.allow = job.allow /\ g.pinned = job.pinned /\ g.output = "none"
        /\ g.forbade = (job.forbade \/ ~claim) /\ g.calls <= CallsSoFar(job) + 1
    <2> HIDE DEF j
    <2>1. j = JobCalled
      BY DEF j
    <2> QED
      BY <1>7, <2>1, CalledJob
  <1>9. ShownContext(g)
    BY <1>7, <1>8 DEF JobOpen, ShownContext
  <1>10. Judged(g)
    BY <1>7, <1>8 DEF JobOpen, Judged
  <1>11. Counted(g)
    <2>1. CallsSoFar(g) = CallsSoFar(job) /\ AllRounds(g) = AllRounds(job)
      BY <1>8 DEF CallsSoFar, Rounds, AllRounds
    <2>2. job.tools <= MaxBatch * AllRounds(job)
      BY RoundNumbers, GenerationAssumption DEF JobOpen, Counted, JobRecords
    <2> QED
      BY <1>7, <1>8, <2>1, <2>2, GenerationAssumption DEF JobOpen, Counted
  <1> QED
    <2>1. JobOpen(g)
      BY <1>1, <1>6, <1>7, <1>9, <1>10, <1>11 DEF JobOpen
    <2> QED
      BY <2>1 DEF g

(* Objects join the context. *)
LEMMA GrownContext ==
  ASSUME JobOpen(job), job.phase = "tools", NEW known \in SUBSET Objects, NEW loaded \in SUBSET Objects,
         NEW grown \in BOOLEAN,
         job.known \subseteq known, loaded \subseteq known, grown => Cardinality(known) <= MaxObjects
  PROVE  JobOpen(LookupAnswered([job EXCEPT !.known = known, !.loaded = loaded, !.grown = grown]))
  <1> DEFINE b == [job EXCEPT !.known = known]
             c == [b EXCEPT !.loaded = loaded]
             d == [c EXCEPT !.grown = grown]
             g == [job EXCEPT !.known = known, !.loaded = loaded, !.grown = grown]
  <1>0. job \in JobRecords
    BY DEF JobOpen
  <1>1. g = d
    BY <1>0 DEF JobRecords
  <1>2. b \in JobRecords
    BY <1>0, OneJobFieldSet
  <1>3. c \in JobRecords
    <2> HIDE DEF b
    <2> QED
      BY <1>2, OneJobFieldSet
  <1>d. d \in JobRecords
    <2> HIDE DEF c
    <2> QED
      BY <1>3, OneJobFieldSet
  <1>4. /\ g.known = known /\ g.grown = grown /\ g.loaded = loaded /\ g.phase = job.phase /\ g.kind = job.kind
        /\ g.round = job.round /\ g.attempt = job.attempt /\ g.pending = job.pending
        /\ g.calls = job.calls /\ g.tools = job.tools /\ g.allow = job.allow /\ g.claim = job.claim
        /\ g.cte = job.cte /\ g.names = job.names /\ g.forbade = job.forbade
        /\ g.pinned = job.pinned /\ g.output = job.output
    BY <1>0 DEF JobRecords
  <1> HIDE DEF g, d
  <1>5. /\ CallsSoFar(g) = CallsSoFar(job) /\ Rounds(g) = Rounds(job) /\ AllRounds(g) = AllRounds(job)
    BY <1>4 DEF CallsSoFar, Rounds, AllRounds
  <1>6. ShownContext(g)
    BY <1>4 DEF JobOpen, ShownContext
  <1>7. Judged(g)
    BY <1>4 DEF JobOpen, Judged
  <1>8. Counted(g)
    BY <1>4, <1>5 DEF JobOpen, Counted
  <1>9. JobOpen(g) /\ g.phase = "tools"
    BY <1>1, <1>d, <1>4, <1>6, <1>7, <1>8 DEF JobOpen
  <1>10. JobOpen(LookupAnswered(g))
    BY <1>9, AnsweredLookup
  <1> QED
    BY <1>10 DEF g

(* An answer is sent back; the author's permission for CTEs is what is left of it. *)
LEMMA RetriedJob ==
  ASSUME JobOpen(job), job.phase = "judge", job.attempt = 0, job.kind # "infer",
         NEW allow \in BOOLEAN, job.kind = "author" => allow = (job.allow /\ job.claim)
  PROVE  JobOpen([job EXCEPT !.phase = "ask", !.attempt = 1, !.round = 0, !.allow = allow])
  <1> DEFINE b == [job EXCEPT !.phase = "ask"]
             c == [b EXCEPT !.attempt = 1]
             d == [c EXCEPT !.round = 0]
             e == [d EXCEPT !.allow = allow]
             g == [job EXCEPT !.phase = "ask", !.attempt = 1, !.round = 0, !.allow = allow]
  <1>0. job \in JobRecords
    BY DEF JobOpen
  <1>1. g = e
    BY <1>0 DEF JobRecords
  <1>2. b \in JobRecords
    BY <1>0, OneJobFieldSet DEF JobPhases
  <1>3. c \in JobRecords
    <2>1. 1 \in 0 .. 1
      OBVIOUS
    <2> HIDE DEF b
    <2> QED
      BY <1>2, <2>1, OneJobFieldSet
  <1>4. d \in JobRecords
    <2> HIDE DEF c
    <2> QED
      BY <1>3, OneJobFieldSet
  <1>5. e \in JobRecords
    <2> HIDE DEF d
    <2> QED
      BY <1>4, OneJobFieldSet
  <1>6. /\ g.known = job.known /\ g.grown = job.grown /\ g.loaded = job.loaded /\ g.phase = "ask" /\ g.kind = job.kind
        /\ g.round = 0 /\ g.attempt = 1 /\ g.pending = job.pending
        /\ g.calls = job.calls /\ g.tools = job.tools /\ g.allow = allow /\ g.claim = job.claim
        /\ g.cte = job.cte /\ g.names = job.names /\ g.forbade = job.forbade
        /\ g.pinned = job.pinned /\ g.output = job.output
    BY <1>0 DEF JobRecords
  <1> HIDE DEF g, e
  <1>7. ShownContext(g)
    BY <1>6 DEF JobOpen, ShownContext
  <1>8. Judged(g)
    BY <1>6 DEF JobOpen, Judged
  <1>9. Counted(g)
    <2>1. Rounds(g) = ToolRounds /\ AllRounds(job) = ToolRounds
      BY <1>6, GenerationAssumption DEF Rounds, AllRounds
    <2>2. CallsSoFar(job) + 1 <= CallsSoFar(g) /\ CallsSoFar(g) \in Nat /\ CallsSoFar(job) \in Nat
      <3>1. job.round \in Nat /\ job.round <= ToolRounds
        BY DEF JobOpen, JobRecords, Counted
      <3> QED
        BY <1>6, <3>1, GenerationAssumption DEF CallsSoFar, Rounds
    <2>3. job.calls \in Nat /\ job.calls <= CallsSoFar(job) + 1 /\ job.pending = 0
          /\ job.tools <= MaxBatch * AllRounds(job)
      BY DEF JobOpen, JobRecords, Counted
    <2> QED
      BY <1>6, <2>1, <2>2, <2>3, GenerationAssumption DEF Counted
  <1> QED
    <2>1. JobOpen(g)
      BY <1>1, <1>5, <1>6, <1>7, <1>8, <1>9 DEF JobOpen
    <2> QED
      BY <2>1 DEF g

(* What was judged acceptable is compared next. *)
LEMMA JudgedJob ==
  ASSUME JobOpen(job), job.phase = "judge", job.names \subseteq job.known, job.cte => ~job.forbade
  PROVE  JobOpen([job EXCEPT !.phase = "compare"])
  <1> DEFINE g == [job EXCEPT !.phase = "compare"]
  <1>1. g \in JobRecords
    BY OneJobFieldSet DEF JobOpen, JobPhases
  <1>2. /\ g.phase = "compare" /\ g.known = job.known /\ g.grown = job.grown /\ g.loaded = job.loaded /\ g.kind = job.kind
        /\ g.round = job.round /\ g.attempt = job.attempt /\ g.pending = job.pending
        /\ g.calls = job.calls /\ g.tools = job.tools /\ g.cte = job.cte /\ g.names = job.names
        /\ g.forbade = job.forbade /\ g.pinned = job.pinned /\ g.output = job.output
    BY DEF JobOpen, JobRecords
  <1> HIDE DEF g
  <1>3. CallsSoFar(g) = CallsSoFar(job) /\ AllRounds(g) = AllRounds(job)
    BY <1>2 DEF CallsSoFar, Rounds, AllRounds
  <1>4. ShownContext(g)
    BY <1>2 DEF JobOpen, ShownContext
  <1>5. Judged(g)
    BY <1>2 DEF JobOpen, Judged
  <1>6. Counted(g)
    BY <1>2, <1>3 DEF JobOpen, Counted
  <1>7. JobOpen(g)
    BY <1>1, <1>2, <1>4, <1>5, <1>6 DEF JobOpen
  <1> QED
    BY <1>7 DEF g

LEMMA JobInitInv ==
  ASSUME GenerationInit
  PROVE  JobInv
  <1>1. installed \in [Processes -> Versions] /\ 0 \in Versions
    BY RuntimeAssumption DEF GenerationInit, RuntimeInit, Versions
  <1>2. PICK kind \in Kinds, p \in Processes, allow \in BOOLEAN : job = NewJob(kind, p, allow)
    BY DEF GenerationInit
  <1>3. job \in JobRecords
    BY <1>1, <1>2 DEF NewJob, JobRecords, JobPhases, JobOutputs
  <1>4. /\ job.phase = "new" /\ job.known = {} /\ job.loaded = {} /\ ~job.grown /\ job.round = 0 /\ job.pending = 0
        /\ job.attempt = 0 /\ job.calls = 0 /\ job.tools = 0 /\ ~job.cte /\ job.names = {}
        /\ job.output = "none" /\ job.forbade = ~job.allow
    BY <1>2 DEF NewJob
  <1>5. ShownContext(job)
    BY <1>4, GenerationAssumption, FS_EmptySet DEF ShownContext
  <1>6. Judged(job)
    BY <1>4 DEF Judged
  <1>7. Rounds(job) = 0 /\ CallsSoFar(job) = 0
    BY <1>4 DEF Rounds, CallsSoFar
  <1>8. MaxBatch * 0 \in Nat
    BY Batches
  <1>9. Counted(job)
    BY <1>4, <1>7, <1>8, GenerationAssumption DEF Counted
  <1> QED
    BY <1>1, <1>3, <1>4, <1>5, <1>6, <1>9 DEF JobInv, JobOpen

LEMMA JobStepKeeps ==
  ASSUME JobInv, JobStep
  PROVE  JobInv'
  <1> USE DEF InJob
  <1>i. /\ installed \in [Processes -> Versions]
        /\ \A j : (JobOpen(j) \/ JobClosed(j)) /\ Becomes(j) => JobInv'
    BY DEF JobInv, Becomes
  <1>o. job.phase # "done" => JobOpen(job)
    BY DEF JobInv, JobClosed
  <1>e. \A j : \A output : MayEnd(j, output) /\ Becomes(Ended(j, output)) => JobInv'
    BY <1>i, EndedJob
  <1>f. ASSUME JobOpen(job), NEW output \in JobOutputs \ {"program"}, Becomes(Ended(job, output))
        PROVE  JobInv'
    BY <1>e, <1>f, OpenMayEnd
  <1>p. {"clarification", "failed", "unavailable"} \subseteq JobOutputs \ {"program"}
    BY DEF JobOutputs
  <1>1. CASE BeginJob
    <2> DEFINE live == installed[job.at]
    <2>0. JobOpen(job) /\ job \in JobRecords /\ job.phase = "new"
      BY <1>1, <1>o DEF BeginJob, JobOpen
    <2>1. live \in Versions
      BY <1>i, <2>0 DEF JobRecords
    <2>2. CASE live = 0
      BY <1>1, <1>f, <1>p, <2>0, <2>2 DEF BeginJob
    <2>3. CASE live # 0
      <3>1. PICK found \in SUBSET Objects :
              LET j == [job EXCEPT !.pinned = live, !.known = found]
              IN Becomes(IF job.kind = "infer" /\ found = {} THEN Ended(j, "failed")
                         ELSE [j EXCEPT !.phase = "ask"])
        BY <1>1, <2>3 DEF BeginJob
      <3> DEFINE b == [job EXCEPT !.pinned = live]
                 c == [b EXCEPT !.known = found]
                 j == [job EXCEPT !.pinned = live, !.known = found]
                 d == [j EXCEPT !.phase = "ask"]
      <3>2. j = c
        BY <2>0 DEF JobRecords
      <3>3. b \in JobRecords
        <4> HIDE DEF live
        <4> QED
          BY <2>0, <2>1, OneJobFieldSet
      <3>4. c \in JobRecords
        <4> HIDE DEF b
        <4> QED
          BY <3>3, OneJobFieldSet
      <3>5. j \in JobRecords
        BY <3>2, <3>4
      <3>6. /\ j.known = found /\ j.grown = job.grown /\ j.pinned = live /\ j.phase = "new" /\ j.loaded = job.loaded
            /\ j.kind = job.kind /\ j.round = job.round /\ j.attempt = job.attempt
            /\ j.pending = job.pending /\ j.calls = job.calls /\ j.tools = job.tools
            /\ j.allow = job.allow /\ j.cte = job.cte /\ j.names = job.names
            /\ j.forbade = job.forbade /\ j.output = job.output
        BY <2>0 DEF JobRecords
      <3> HIDE DEF j, live
      <3>7. d \in JobRecords
        BY <3>5, OneJobFieldSet DEF JobPhases
      <3>8. /\ d.known = found /\ ~d.grown /\ d.pinned = live /\ d.phase = "ask" /\ d.loaded = {}
            /\ d.kind = job.kind /\ d.round = job.round /\ d.attempt = job.attempt
            /\ d.pending = job.pending /\ d.calls = job.calls /\ d.tools = job.tools
            /\ d.allow = job.allow /\ d.cte = job.cte /\ d.names = job.names
            /\ d.forbade = job.forbade /\ d.output = job.output
        BY <2>0, <3>5, <3>6 DEF JobRecords, JobOpen, ShownContext
      <3>9. CASE job.kind = "infer" /\ found = {}
        <4>1. CallsSoFar(j) = CallsSoFar(job) /\ AllRounds(j) = AllRounds(job)
          BY <3>6 DEF CallsSoFar, AllRounds, Rounds
        <4>2. MayEnd(job, "failed")
          BY <1>p, <2>0, OpenMayEnd
        <4>3. MayEnd(j, "failed")
          BY <2>0, <3>1, <3>5, <3>6, <4>1, <4>2 DEF MayEnd, JobOpen, ShownContext
        <4>4. Becomes(Ended(j, "failed"))
          BY <3>1, <3>9 DEF j
        <4> QED
          BY <1>e, <4>3, <4>4
      <3>10. CASE ~(job.kind = "infer" /\ found = {})
        <4>1. Becomes(d)
          BY <3>1, <3>10 DEF j
        <4> HIDE DEF d
        <4>2. CallsSoFar(d) = CallsSoFar(job) /\ Rounds(d) = Rounds(job)
          BY <3>8 DEF CallsSoFar, Rounds
        <4>3. ShownContext(d)
          BY <2>0, <2>3, <3>1, <3>8 DEF JobOpen, ShownContext
        <4>4. Judged(d)
          BY <2>0, <3>8 DEF JobOpen, Judged
        <4>5. Counted(d)
          BY <2>0, <3>8, <4>2 DEF JobOpen, Counted
        <4>6. JobOpen(d)
          BY <3>7, <3>8, <4>3, <4>4, <4>5 DEF JobOpen
        <4> QED
          BY <1>i, <4>1, <4>6
      <3> QED
        BY <3>9, <3>10
    <2> QED
      BY <2>2, <2>3
  <1>2. CASE CallFails
    <2>1. JobOpen(job) /\ job.phase = "ask"
      BY <1>2, <1>o DEF CallFails
    <2>2. PICK output \in JobOutputs \ {"program"} : Becomes(Ended(JobCalled, output))
      BY <1>2, <1>p DEF CallFails
    <2>3. MayEnd(JobCalled, output)
      BY <2>1, CalledJob
    <2> QED
      BY <1>e, <2>2, <2>3
  <1>3. CASE CallAsksTools
    <2>1. JobOpen(job) /\ job.phase = "ask" /\ job.kind # "plan"
      BY <1>3, <1>o DEF CallAsksTools
    <2>2. PICK n \in 1 .. MaxBatch + 1 :
            Becomes(IF job.round = ToolRounds \/ n > MaxBatch THEN Ended(JobCalled, "failed")
                    ELSE [JobCalled EXCEPT !.phase = "tools", !.pending = n])
      BY <1>3 DEF CallAsksTools
    <2>3. CASE job.round = ToolRounds \/ n > MaxBatch
      <3>1. MayEnd(JobCalled, "failed")
        BY <1>p, <2>1, CalledJob
      <3> QED
        BY <1>e, <2>2, <2>3, <3>1
    <2>4. CASE ~(job.round = ToolRounds \/ n > MaxBatch)
      <3> DEFINE b == [JobCalled EXCEPT !.phase = "tools"]
                 c == [b EXCEPT !.pending = n]
                 g == [JobCalled EXCEPT !.phase = "tools", !.pending = n]
      <3>0. JobCalled \in JobRecords
        BY <2>1, CalledJob
      <3>1. g = c
        BY <3>0 DEF JobRecords
      <3>2. b \in JobRecords
        BY <3>0, OneJobFieldSet DEF JobPhases
      <3>3. n \in Nat /\ n > 0 /\ n <= MaxBatch
        BY <2>4, GenerationAssumption
      <3>4. c \in JobRecords
        <4> HIDE DEF b
        <4> QED
          BY <3>2, <3>3, OneJobFieldSet
      <3>5. /\ g.phase = "tools" /\ g.pending = n
            /\ g.kind = JobCalled.kind /\ g.round = JobCalled.round /\ g.attempt = JobCalled.attempt
            /\ g.calls = JobCalled.calls /\ g.tools = JobCalled.tools /\ g.known = JobCalled.known /\ g.grown = JobCalled.grown
            /\ g.loaded = JobCalled.loaded /\ g.allow = JobCalled.allow /\ g.cte = JobCalled.cte
            /\ g.names = JobCalled.names /\ g.forbade = JobCalled.forbade /\ g.pinned = JobCalled.pinned
            /\ g.output = JobCalled.output
        BY <3>0 DEF JobRecords
      <3>6. Becomes(g)
        BY <2>2, <2>4
      <3> HIDE DEF g
      <3>7. CallsSoFar(g) = CallsSoFar(job) /\ Rounds(g) = Rounds(job)
        BY <2>1, <3>5, CalledJob DEF CallsSoFar, Rounds
      <3>8. ShownContext(g)
        BY <2>1, <3>5, CalledJob DEF JobOpen, ShownContext
      <3>9. Judged(g)
        BY <2>1, <3>5, CalledJob DEF JobOpen, Judged
      <3>10. Counted(g)
        <4>1. /\ job.round \in Nat /\ job.round <= ToolRounds /\ job.round # ToolRounds
              /\ job.tools \in Nat /\ job.tools <= MaxBatch * Rounds(job)
              /\ job.kind = "infer" => job.attempt = 0
          BY <2>1, <2>4 DEF JobOpen, JobRecords, Counted
        <4>2. job.round < ToolRounds
          BY <4>1, GenerationAssumption
        <4>3. MaxBatch * Rounds(job) \in Nat
          BY <2>1, RoundNumbers DEF JobOpen
        <4>4. job.tools + n <= MaxBatch * Rounds(job) + MaxBatch
          BY <3>3, <4>1, <4>3, GenerationAssumption
        <4>5. /\ g.calls <= CallsSoFar(job) + 1 /\ g.tools = job.tools /\ g.round = job.round
              /\ g.kind = job.kind /\ g.attempt = job.attempt
          BY <2>1, <3>5, CalledJob
        <4> QED
          BY <2>1, <3>3, <3>5, <3>7, <4>1, <4>2, <4>4, <4>5 DEF Counted
      <3>11. JobOpen(g)
        BY <3>1, <3>4, <3>5, <3>8, <3>9, <3>10 DEF JobOpen
      <3> QED
        BY <1>i, <3>6, <3>11
    <2> QED
      BY <2>3, <2>4
  <1>4. CASE CallAnswers
    <2>1. JobOpen(job) /\ job.phase = "ask"
      BY <1>4, <1>o DEF CallAnswers
    <2>2. PICK claim \in BOOLEAN, cte \in BOOLEAN, names \in SUBSET Objects :
            /\ job.kind # "author" => claim = job.claim /\ ~cte
            /\ job.kind # "infer" => names = {}
            /\ Becomes([JobCalled EXCEPT !.phase = "judge", !.claim = claim, !.cte = cte, !.names = names,
                                         !.forbade = @ \/ ~claim])
      BY <1>4 DEF CallAnswers
    <2>3. JobOpen([JobCalled EXCEPT !.phase = "judge", !.claim = claim, !.cte = cte, !.names = names,
                                    !.forbade = @ \/ ~claim])
      BY <2>1, <2>2, AnsweredCall
    <2> QED
      BY <1>i, <2>2, <2>3
  <1>5. CASE SearchMetadata
    <2>1. JobOpen(job) /\ job.phase = "tools" /\ job \in JobRecords
      BY <1>5, <1>o DEF SearchMetadata, JobOpen
    <2>2. PICK kept \in SUBSET Objects :
            /\ kept \subseteq job.known \/ Cardinality(job.known \cup kept) <= MaxObjects
            /\ Becomes(LookupAnswered(WithObjects(kept)))
      BY <1>5 DEF SearchMetadata
    <2> DEFINE grown == job.grown \/ ~(kept \subseteq job.known)
    <2>3. /\ job.known \cup kept \in SUBSET Objects /\ job.loaded \cup kept \in SUBSET Objects
          /\ job.known \subseteq job.known \cup kept
          /\ job.loaded \cup kept \subseteq job.known \cup kept
      BY <2>1 DEF JobRecords, JobOpen, ShownContext
    <2>6. grown \in BOOLEAN /\ (grown => Cardinality(job.known \cup kept) <= MaxObjects)
      <3>1. CASE kept \subseteq job.known
        <4>1. job.known \cup kept = job.known
          BY <3>1
        <4> QED
          BY <2>1, <3>1, <4>1 DEF JobRecords, JobOpen, ShownContext
      <3>2. CASE ~(kept \subseteq job.known)
        BY <2>1, <2>2, <3>2 DEF JobRecords
      <3> QED
        BY <3>1, <3>2
    <2> HIDE DEF grown
    <2>4. JobOpen(LookupAnswered([job EXCEPT !.known = job.known \cup kept, !.loaded = job.loaded \cup kept,
                                             !.grown = grown]))
      BY <2>1, <2>3, <2>6, GrownContext
    <2>5. WithObjects(kept)
            = [job EXCEPT !.known = job.known \cup kept, !.loaded = job.loaded \cup kept, !.grown = grown]
      BY <2>1 DEF JobRecords, WithObjects, grown
    <2> QED
      BY <1>i, <2>2, <2>4, <2>5
  <1>6. CASE LookupFields
    <2>1. JobOpen(job) /\ job.phase = "tools" /\ job \in JobRecords
      BY <1>6, <1>o DEF LookupFields, JobOpen
    <2>2. PICK refs \in SUBSET Objects :
            Becomes(IF refs # {} /\ refs \subseteq job.known
                    THEN LookupAnswered([job EXCEPT !.loaded = @ \cup refs])
                    ELSE Ended(job, "failed"))
      BY <1>6 DEF LookupFields
    <2>3. CASE refs # {} /\ refs \subseteq job.known
      <3>1. /\ job.known \in SUBSET Objects /\ job.loaded \cup refs \in SUBSET Objects
            /\ job.loaded \cup refs \subseteq job.known /\ job.grown \in BOOLEAN
            /\ (job.grown => Cardinality(job.known) <= MaxObjects)
        BY <2>1, <2>3 DEF JobRecords, JobOpen, ShownContext
      <3>2. JobOpen(LookupAnswered([job EXCEPT !.known = job.known, !.loaded = job.loaded \cup refs,
                                               !.grown = job.grown]))
        BY <2>1, <3>1, GrownContext
      <3>3. [job EXCEPT !.loaded = @ \cup refs]
              = [job EXCEPT !.known = job.known, !.loaded = job.loaded \cup refs, !.grown = job.grown]
        BY <2>1 DEF JobRecords
      <3> QED
        BY <1>i, <2>2, <2>3, <3>2, <3>3
    <2>4. CASE ~(refs # {} /\ refs \subseteq job.known)
      BY <1>f, <1>p, <2>1, <2>2, <2>4
    <2> QED
      BY <2>3, <2>4
  <1>7. CASE CheckScript
    <2>1. JobOpen(job) /\ job.phase = "tools" /\ Becomes(LookupAnswered(job))
      BY <1>7, <1>o DEF CheckScript
    <2> QED
      BY <1>i, <2>1, AnsweredLookup
  <1>8. CASE JudgeScript
    <2>1. JobOpen(job) /\ job.phase = "judge" /\ job.kind = "author" /\ job \in JobRecords
      BY <1>8, <1>o DEF JudgeScript, JobOpen
    <2>2. CASE Becomes(Ended(job, "failed"))
      BY <1>f, <1>p, <2>1, <2>2
    <2>3. CASE (job.cte => job.allow /\ job.claim) /\ Becomes([job EXCEPT !.phase = "compare"])
      <3>1. job.names \subseteq job.known /\ (job.cte => ~job.forbade)
        BY <2>1, <2>3 DEF JobOpen, Judged
      <3> QED
        BY <1>i, <2>1, <2>3, <3>1, JudgedJob
    <2>4. CASE job.attempt = 0 /\ Becomes(Retried([job EXCEPT !.allow = @ /\ job.claim]))
      <3> DEFINE allow == job.allow /\ job.claim
      <3>1. allow \in BOOLEAN
        BY <2>1 DEF JobRecords
      <3>2. Retried([job EXCEPT !.allow = @ /\ job.claim])
              = [job EXCEPT !.phase = "ask", !.attempt = 1, !.round = 0, !.allow = allow]
        BY <2>1 DEF Retried, JobRecords
      <3>3. JobOpen([job EXCEPT !.phase = "ask", !.attempt = 1, !.round = 0, !.allow = allow])
        BY <2>1, <2>4, <3>1, RetriedJob
      <3> QED
        BY <1>i, <2>4, <3>2, <3>3
    <2> QED
      BY <1>8, <2>2, <2>3, <2>4 DEF JudgeScript
  <1>9. CASE JudgeInference
    <2>1. JobOpen(job) /\ job.phase = "judge" /\ job.kind = "infer"
      BY <1>9, <1>o DEF JudgeInference
    <2>2. CASE Becomes(Ended(job, "failed"))
      BY <1>f, <1>p, <2>1, <2>2
    <2>3. CASE job.names \subseteq job.known /\ Becomes([job EXCEPT !.phase = "compare"])
      <3>1. job.cte => ~job.forbade
        BY <2>1 DEF JobOpen, Judged
      <3> QED
        BY <1>i, <2>1, <2>3, <3>1, JudgedJob
    <2> QED
      BY <1>9, <2>2, <2>3 DEF JudgeInference
  <1>10. CASE JudgePlan
    <2>1. JobOpen(job) /\ job.phase = "judge" /\ job.kind = "plan" /\ job \in JobRecords
      BY <1>10, <1>o DEF JudgePlan, JobOpen
    <2>2. CASE Becomes(Ended(job, "program"))
      <3>1. MayEnd(job, "failed")
        BY <1>p, <2>1, OpenMayEnd
      <3>2. /\ job.pinned # 0 /\ job.names \subseteq job.known /\ (job.cte => ~job.forbade)
            /\ "program" \in JobOutputs
        BY <2>1 DEF JobOpen, ShownContext, Judged, JobOutputs
      <3>3. MayEnd(job, "program")
        BY <2>1, <3>1, <3>2 DEF MayEnd
      <3> QED
        BY <1>e, <2>2, <3>3
    <2>3. ASSUME NEW output \in {"clarification", "failed"}, Becomes(Ended(job, output))
          PROVE  JobInv'
      BY <1>f, <1>p, <2>1, <2>3
    <2>4. CASE job.attempt = 0 /\ Becomes(Retried(job))
      <3>1. job.allow \in BOOLEAN
        BY <2>1 DEF JobRecords
      <3>2. Retried(job) = [job EXCEPT !.phase = "ask", !.attempt = 1, !.round = 0, !.allow = job.allow]
        BY <2>1 DEF Retried, JobRecords
      <3>3. JobOpen([job EXCEPT !.phase = "ask", !.attempt = 1, !.round = 0, !.allow = job.allow])
        BY <2>1, <2>4, <3>1, RetriedJob
      <3> QED
        BY <1>i, <2>4, <3>2, <3>3
    <2> QED
      BY <1>10, <2>2, <2>3, <2>4 DEF JudgePlan
  <1>11. CASE CompareSnapshot
    <2> DEFINE live == installed[job.at]
               j == [job EXCEPT !.compared = live]
    <2>1. JobOpen(job) /\ job.phase = "compare" /\ job \in JobRecords
      BY <1>11, <1>o DEF CompareSnapshot, JobOpen
    <2>2. CASE live = job.pinned /\ Becomes([Ended(job, "program") EXCEPT !.compared = live])
      <3>1. live \in Versions
        BY <1>i, <2>1 DEF JobRecords
      <3>2. [Ended(job, "program") EXCEPT !.compared = live] = Ended(j, "program")
        <4> HIDE DEF live
        <4> QED
          BY <2>1 DEF Ended, JobRecords
      <3>3. j \in JobRecords
        <4> HIDE DEF live
        <4> QED
          BY <2>1, <3>1, OneJobFieldSet
      <3>4. /\ j.compared = live /\ j.pinned = job.pinned /\ j.known = job.known /\ j.grown = job.grown /\ j.loaded = job.loaded
            /\ j.names = job.names /\ j.cte = job.cte /\ j.forbade = job.forbade /\ j.kind = job.kind
            /\ j.round = job.round /\ j.attempt = job.attempt /\ j.calls = job.calls /\ j.tools = job.tools
        <4> HIDE DEF live
        <4> QED
          BY <2>1 DEF JobRecords
      <3> HIDE DEF j, live
      <3>5. CallsSoFar(j) = CallsSoFar(job) /\ AllRounds(j) = AllRounds(job)
        BY <3>4 DEF CallsSoFar, Rounds, AllRounds
      <3>6. MayEnd(job, "failed")
        BY <1>p, <2>1, OpenMayEnd
      <3>7. /\ job.pinned # 0 /\ job.names \subseteq job.known /\ (job.cte => ~job.forbade)
            /\ "program" \in JobOutputs
        BY <2>1 DEF JobOpen, ShownContext, Judged, JobOutputs
      <3>8. MayEnd(j, "program")
        BY <2>2, <3>3, <3>4, <3>5, <3>6, <3>7 DEF MayEnd
      <3>9. Becomes(Ended(j, "program"))
        BY <2>2, <3>2
      <3> QED
        BY <1>e, <3>8, <3>9
    <2>3. ASSUME NEW output \in {"unavailable", "failed"}, Becomes(Ended(job, output))
          PROVE  JobInv'
      BY <1>f, <1>p, <2>1, <2>3
    <2> QED
      BY <1>11, <2>2, <2>3 DEF CompareSnapshot
  <1> QED
    BY <1>1, <1>2, <1>3, <1>4, <1>5, <1>6, <1>7, <1>8, <1>9, <1>10, <1>11 DEF JobStep

LEMMA JobKeepsInv ==
  ASSUME JobInv, [GenerationNext]_generationVars
  PROVE  JobInv'
  <1>1. CASE JobStep
    BY <1>1, JobStepKeeps
  <1>2. ASSUME NEW p \in Processes, InstallVersion(p), UNCHANGED job
        PROVE  JobInv'
    BY <1>2 DEF JobInv, InstallVersion
  <1>3. CASE UNCHANGED generationVars
    BY <1>3 DEF JobInv, generationVars
  <1> QED
    BY <1>1, <1>2, <1>3 DEF GenerationNext

(* What a service hands out was compared with the live snapshot and checked, and its
   loops are bounded. *)
LEMMA JobSound ==
  ASSUME JobInv
  PROVE  ProgramOfOneVersion /\ ProgramWasChecked /\ JobWithinLimits
  <1>1. job \in JobRecords
    BY DEF JobInv, JobOpen, JobClosed
  <1>2. job.round \in Nat /\ job.attempt \in 0 .. 1 /\ job.calls \in Nat /\ job.tools \in Nat
        /\ job.pending \in Nat /\ job.kind \in Kinds
    BY <1>1 DEF JobRecords
  <1>3. ProgramOfOneVersion
    BY DEF JobInv, JobOpen, JobClosed, ShownContext, HandsOut, ProgramOfOneVersion
  <1>4. ProgramWasChecked
    BY DEF JobInv, JobOpen, JobClosed, ShownContext, HandsOut, ProgramWasChecked
  <1>5. job.round <= ToolRounds /\ job.calls <= CallsSoFar(job) + 1 /\ (job.kind = "infer" => job.attempt = 0)
        /\ (job.grown => Cardinality(job.known) <= MaxObjects)
    BY DEF JobInv, JobOpen, JobClosed, Counted, ShownContext
  <1>6. job.calls <= IF job.kind = "author" THEN 2 * (ToolRounds + 1)
                     ELSE IF job.kind = "infer" THEN ToolRounds + 1 ELSE 2
    <2>1. CASE job.kind = "author"
      BY <1>2, <1>5, <2>1, GenerationAssumption DEF CallsSoFar, Rounds
    <2>2. CASE job.kind = "infer"
      BY <1>2, <1>5, <2>2, GenerationAssumption DEF CallsSoFar, Rounds
    <2>3. CASE job.kind = "plan"
      BY <1>2, <1>5, <2>3 DEF CallsSoFar
    <2> QED
      BY <1>2, <2>1, <2>2, <2>3 DEF Kinds
  <1>7. job.tools + job.pending <= MaxBatch * AllRounds(job)
    <2>1. CASE JobOpen(job)
      BY <1>2, <2>1, RoundNumbers, GenerationAssumption DEF JobOpen, Counted, JobRecords, JobPhases
    <2>2. CASE JobClosed(job)
      BY <1>1, <1>2, <2>2, RoundNumbers DEF JobClosed
    <2> QED
      BY <2>1, <2>2 DEF JobInv
  <1>8. MaxBatch * AllRounds(job) = MaxBatch * ToolRounds * (job.attempt + 1)
    <2>1. CASE job.attempt = 0
      BY <2>1, Batches DEF AllRounds
    <2>2. CASE job.attempt = 1
      BY <2>2, Batches DEF AllRounds
    <2> QED
      BY <1>2, <2>1, <2>2
  <1> QED
    BY <1>3, <1>4, <1>5, <1>6, <1>7, <1>8 DEF JobWithinLimits

-------------------------------------------------------------------------------
(* What any of the three ways delivers belongs to the version the model was shown and
   passed the checks under every prohibition (check_snapshot, SqlAuthoringService,
   MetadataInferenceService, node_fix_sql), for every size of the ontology and every
   behaviour of the model and of the publishers. *)
THEOREM DeliveriesAreSound ==
  DeliverySpec => []DeliveredIsSound
  <1>1. LegacyInit => LegacyInv
    BY LegacyInitInv
  <1>2. LegacyInv /\ [LegacyNext]_legacy => LegacyInv'
    BY LegacyKeepsInv
  <1>3. GenerationInit => JobInv
    BY JobInitInv
  <1>4. JobInv /\ [GenerationNext]_generationVars => JobInv'
    BY JobKeepsInv
  <1>5. OneVersionPerTurn /\ ForbiddenCteStaysForbidden /\ LegacyInv /\ JobInv => DeliveredIsSound
    <2>1. LegacyInv => LegacyWasChecked
      BY LegacySound
    <2> QED
      BY <2>1, JobSound DEF DeliveredIsSound
  <1> QED
    BY <1>1, <1>2, <1>3, <1>4, <1>5, TurnsAreAccountable, PTL
    DEF DeliverySpec, LegacySpec, GenerationSpec

(* The loops around the model end within their budgets, and the trace accounts for the
   calls (run_conversation_agent, MAX_FIX_RETRIES, generate_with_field_lookup), for every
   value of the budgets, as long as the limit of the graph library leaves room for the
   repairs. *)
THEOREM BudgetsAreKept ==
  ASSUME 8 + 3 * MaxFixes < NodeLimit
  PROVE  DeliverySpec => []BudgetsHold
  <1>1. LegacyInit => LegacyInv
    BY LegacyInitInv
  <1>2. LegacyInv /\ [LegacyNext]_legacy => LegacyInv'
    BY LegacyKeepsInv
  <1>3. GenerationInit => JobInv
    BY JobInitInv
  <1>4. JobInv /\ [GenerationNext]_generationVars => JobInv'
    BY JobKeepsInv
  <1>5. WithinBudgets /\ TraceAccounts /\ LegacyInv /\ JobInv => BudgetsHold
    BY LegacySound, JobSound DEF BudgetsHold
  <1> QED
    BY <1>1, <1>2, <1>3, <1>4, <1>5, TurnsAreAccountable, PTL
    DEF DeliverySpec, LegacySpec, GenerationSpec

===============================================================================
