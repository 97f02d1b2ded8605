------------------------------ MODULE InferenceProofs ------------------------------
(***************************************************************************)
(* What is compiled from an answer of the model computes what the answer   *)
(* asks for, for every answer, ontology and evidence, and with either      *)
(* compiler.  The argument: the statements of a plan that meets the        *)
(* contract compute its nodes (StatementsCompute), each once and after     *)
(* what it reads; the sources hold the rows that pass their tests, the     *)
(* nodes of the joins the assignments that agree with the joins taken so   *)
(* far (PlanInv), and a row of the last node stands for an assignment that *)
(* the answer means, and the other way round (CompiledIsMeant).  The older *)
(* compiler takes its joins in another order and its tests in other        *)
(* places, and keeps the same assignments (OlderAgrees).                   *)
(***************************************************************************)
EXTENDS InferencePlans, DeliveryProofs
LOCAL INSTANCE SequencesExt

-------------------------------------------------------------------------------
(* Checks *)

(* What is made of checks that all hold. *)
LEMMA ChecksHold ==
  ASSUME NEW checks, DOMAIN checks \subseteq Nat,
         \A i \in DOMAIN checks : checks[i][1] = "ok" => checks[i][2],
         FirstFailure(checks) = "ok"
  PROVE  \A i \in DOMAIN checks : checks[i][2]
<1> DEFINE failed == {i \in DOMAIN checks : ~checks[i][2]}
<1> SUFFICES ASSUME failed # {} PROVE FALSE
  OBVIOUS
<1>1. failed \subseteq Nat
  OBVIOUS
<1>2. \E i \in failed : \A j \in failed : i <= j
  <2> HIDE DEF failed
  <2> QED
    BY <1>1, LeastNumber
<1>3. PICK i \in failed : FirstFailure(checks) = checks[i][1]
  BY <1>2 DEF FirstFailure
<1> QED
  BY <1>3

-------------------------------------------------------------------------------
(* Lists *)

(* A list has finitely many elements. *)
LEMMA ListsAreFinite ==
  ASSUME NEW s, s \in Seq(ToSet(s))
  PROVE  IsFiniteSet(ToSet(s))
<1>1. \A x \in ToSet(s) : \E i \in 1 .. Len(s) : s[i] = x
  BY DEF ToSet
<1> HIDE DEF ToSet
<1> QED
  BY <1>1 DEF IsFiniteSet

-------------------------------------------------------------------------------
(* Lists in which everything comes after what it needs *)

(* What an element needs, by R, stands before it. *)
InOrder(s, R) == \A i \in DOMAIN s : \A y : <<s[i], y>> \in R => \E k \in DOMAIN s : k < i /\ s[k] = y

(* An element whose needs are all in the list may be put at its end. *)
LEMMA AppendedInOrder ==
  ASSUME NEW T, NEW s \in Seq(T), NEW R, InOrder(s, R),
         NEW x \in T, \A y : <<x, y>> \in R => y \in ToSet(s)
  PROVE  /\ Append(s, x) \in Seq(T) /\ ToSet(Append(s, x)) = ToSet(s) \cup {x}
         /\ InOrder(Append(s, x), R)
<1> DEFINE t == Append(s, x)
<1>1. /\ t \in Seq(T) /\ Len(s) \in Nat /\ DOMAIN s = 1 .. Len(s) /\ DOMAIN t = 1 .. Len(s) + 1
      /\ \A i \in 1 .. Len(s) : t[i] = s[i]
      /\ t[Len(s) + 1] = x
  OBVIOUS
<1> HIDE DEF t
<1>2. \A i : i \in 1 .. Len(s) + 1 <=> i \in 1 .. Len(s) \/ i = Len(s) + 1
  BY <1>1
<1>3. ToSet(t) = ToSet(s) \cup {x}
  BY <1>1, <1>2 DEF ToSet
<1>4. InOrder(t, R)
  <2> SUFFICES ASSUME NEW i \in DOMAIN t, NEW y, <<t[i], y>> \in R
               PROVE  \E k \in DOMAIN t : k < i /\ t[k] = y
    BY DEF InOrder
  <2>1. CASE i \in 1 .. Len(s)
    <3>1. PICK k \in DOMAIN s : k < i /\ s[k] = y
      BY <1>1, <2>1 DEF InOrder
    <3> QED
      BY <1>1, <1>2, <3>1
  <2>2. CASE i = Len(s) + 1
    <3>1. PICK k \in DOMAIN s : s[k] = y
      BY <1>1, <2>2 DEF ToSet
    <3>2. k < Len(s) + 1
      BY <1>1, <3>1
    <3> QED
      BY <1>1, <1>2, <2>2, <3>1, <3>2
  <2> QED
    BY <1>1, <1>2, <2>1, <2>2
<1> QED
  BY <1>1, <1>3, <1>4 DEF t

(* Two lists in order, one after the other, are in order. *)
LEMMA JoinedInOrder ==
  ASSUME NEW T, NEW s \in Seq(T), NEW t \in Seq(T), NEW R, InOrder(s, R), InOrder(t, R)
  PROVE  /\ s \o t \in Seq(T) /\ ToSet(s \o t) = ToSet(s) \cup ToSet(t)
         /\ InOrder(s \o t, R)
<1> DEFINE b == s \o t
<1>1. /\ b \in Seq(T) /\ Len(s) \in Nat /\ Len(t) \in Nat
      /\ DOMAIN s = 1 .. Len(s) /\ DOMAIN t = 1 .. Len(t) /\ DOMAIN b = 1 .. Len(s) + Len(t)
      /\ \A i \in 1 .. Len(s) : b[i] = s[i]
      /\ \A i \in 1 .. Len(t) : b[Len(s) + i] = t[i]
  OBVIOUS
<1> HIDE DEF b
<1>2. /\ \A i \in 1 .. Len(s) : i \in DOMAIN b
      /\ \A i \in 1 .. Len(t) : Len(s) + i \in DOMAIN b
      /\ \A i \in DOMAIN b : i \in 1 .. Len(s) \/ (i - Len(s) \in 1 .. Len(t) /\ i = Len(s) + (i - Len(s)))
  BY <1>1
<1>3. ToSet(b) = ToSet(s) \cup ToSet(t)
  <2>1. ToSet(b) \subseteq ToSet(s) \cup ToSet(t)
    <3> SUFFICES ASSUME NEW i \in DOMAIN b PROVE b[i] \in ToSet(s) \cup ToSet(t)
      BY DEF ToSet
    <3>1. CASE i \in 1 .. Len(s)
      BY <1>1, <3>1 DEF ToSet
    <3>2. CASE i - Len(s) \in 1 .. Len(t) /\ i = Len(s) + (i - Len(s))
      <4>1. b[i] = t[i - Len(s)]
        BY <1>1, <3>2
      <4> QED
        BY <1>1, <3>2, <4>1 DEF ToSet
    <3> QED
      BY <1>2, <3>1, <3>2
  <2>2. ToSet(s) \cup ToSet(t) \subseteq ToSet(b)
    BY <1>1, <1>2 DEF ToSet
  <2> QED
    BY <2>1, <2>2
<1>4. InOrder(b, R)
  <2> SUFFICES ASSUME NEW i \in DOMAIN b, NEW y, <<b[i], y>> \in R
               PROVE  \E k \in DOMAIN b : k < i /\ b[k] = y
    BY DEF InOrder
  <2>1. CASE i \in 1 .. Len(s)
    <3>1. PICK k \in DOMAIN s : k < i /\ s[k] = y
      BY <1>1, <2>1 DEF InOrder
    <3> QED
      BY <1>1, <1>2, <3>1
  <2>2. CASE i - Len(s) \in 1 .. Len(t) /\ i = Len(s) + (i - Len(s))
    <3>1. b[i] = t[i - Len(s)]
      BY <1>1, <2>2
    <3>2. PICK k \in DOMAIN t : k < i - Len(s) /\ t[k] = y
      BY <1>1, <2>2, <3>1 DEF InOrder
    <3>3. Len(s) + k < i /\ b[Len(s) + k] = y /\ Len(s) + k \in DOMAIN b
      BY <1>1, <1>2, <3>2
    <3> QED
      BY <3>3
  <2> QED
    BY <1>2, <2>1, <2>2
<1> QED
  BY <1>1, <1>3, <1>4 DEF b

(* What Those builds, one element at a time. *)
ThoseNext(s, S, k, r) == IF s[k] \in S THEN Append(r, s[k]) ELSE r
IsThose(s, S, n, f) == f = [k \in 0 .. n |-> IF k = 0 THEN <<>> ELSE ThoseNext(s, S, k, f[k - 1])]

(* The fold of Those, as a function of how much of the list it has read. *)
LEMMA ThoseSteps ==
  ASSUME NEW s, NEW S, Len(s) \in Nat
  PROVE  \E f : /\ Those(s, S) = f[Len(s)] /\ f[0] = <<>>
               /\ \A k \in 1 .. Len(s) : f[k] = ThoseNext(s, S, k, f[k - 1])
<1> DEFINE P == {n \in Nat : \E f : IsThose(s, S, n, f)}
<1>1. 0 \in P
  <2> DEFINE f == [k \in 0 .. 0 |-> <<>>]
  <2>1. \A k \in 0 .. 0 : k = 0
    OBVIOUS
  <2>2. IsThose(s, S, 0, f)
    BY <2>1 DEF IsThose
  <2> QED
    BY <2>2
<1>2. ASSUME NEW n \in Nat, n \in P
      PROVE  n + 1 \in P
  <2>1. PICK f : IsThose(s, S, n, f)
    BY <1>2
  <2> DEFINE h == [k \in 0 .. n + 1 |-> IF k = 0 THEN <<>> ELSE ThoseNext(s, S, k, f[k - 1])]
  <2>2. \A k \in 0 .. n : h[k] = f[k]
    BY <2>1 DEF IsThose
  <2>3. \A k \in 0 .. n + 1 : k # 0 => k - 1 \in 0 .. n
    OBVIOUS
  <2>4. IsThose(s, S, n + 1, h)
    BY <2>2, <2>3 DEF IsThose
  <2> HIDE DEF h
  <2>5. \E g : IsThose(s, S, n + 1, g)
    BY <2>4
  <2> QED
    BY <2>5
<1> HIDE DEF P
<1>3. Nat \subseteq P
  BY <1>1, <1>2, CountingUp
<1> DEFINE u == CHOOSE f : IsThose(s, S, Len(s), f)
<1>4. IsThose(s, S, Len(s), u)
  <2>1. Len(s) \in P
    BY <1>3
  <2> QED
    BY <2>1 DEF P
<1>5. Those(s, S) = u[Len(s)]
  BY Zenon DEF Those, IsThose, ThoseNext
<1> HIDE DEF u
<1>6. /\ u[0] = <<>>
      /\ \A k \in 1 .. Len(s) : u[k] = ThoseNext(s, S, k, u[k - 1])
  <2>1. \A k \in 0 .. Len(s) : u[k] = IF k = 0 THEN <<>> ELSE ThoseNext(s, S, k, u[k - 1])
    BY <1>4, Zenon DEF IsThose
  <2>2. 0 \in 0 .. Len(s) /\ \A k \in 1 .. Len(s) : k \in 0 .. Len(s) /\ k # 0
    OBVIOUS
  <2> QED
    BY <2>1, <2>2
<1> QED
  BY <1>5, <1>6

(* What Once builds. *)
OnceNext(s, k, r) == IF s[k] \in ToSet(r) THEN r ELSE Append(r, s[k])
IsOnce(s, n, f) == f = [k \in 0 .. n |-> IF k = 0 THEN <<>> ELSE OnceNext(s, k, f[k - 1])]

(* The fold of Once, likewise. *)
LEMMA OnceSteps ==
  ASSUME NEW s, Len(s) \in Nat
  PROVE  \E f : /\ Once(s) = f[Len(s)] /\ f[0] = <<>>
               /\ \A k \in 1 .. Len(s) : f[k] = OnceNext(s, k, f[k - 1])
<1> DEFINE P == {n \in Nat : \E f : IsOnce(s, n, f)}
<1>1. 0 \in P
  <2> DEFINE f == [k \in 0 .. 0 |-> <<>>]
  <2>1. \A k \in 0 .. 0 : k = 0
    OBVIOUS
  <2>2. IsOnce(s, 0, f)
    BY <2>1 DEF IsOnce
  <2> QED
    BY <2>2
<1>2. ASSUME NEW n \in Nat, n \in P
      PROVE  n + 1 \in P
  <2>1. PICK f : IsOnce(s, n, f)
    BY <1>2
  <2> DEFINE h == [k \in 0 .. n + 1 |-> IF k = 0 THEN <<>> ELSE OnceNext(s, k, f[k - 1])]
  <2>2. \A k \in 0 .. n : h[k] = f[k]
    BY <2>1 DEF IsOnce
  <2>3. \A k \in 0 .. n + 1 : k # 0 => k - 1 \in 0 .. n
    OBVIOUS
  <2>4. IsOnce(s, n + 1, h)
    BY <2>2, <2>3 DEF IsOnce
  <2> HIDE DEF h
  <2>5. \E g : IsOnce(s, n + 1, g)
    BY <2>4
  <2> QED
    BY <2>5
<1> HIDE DEF P
<1>3. Nat \subseteq P
  BY <1>1, <1>2, CountingUp
<1> DEFINE u == CHOOSE f : IsOnce(s, Len(s), f)
<1>4. IsOnce(s, Len(s), u)
  <2>1. Len(s) \in P
    BY <1>3
  <2> QED
    BY <2>1 DEF P
<1>5. Once(s) = u[Len(s)]
  BY Zenon DEF Once, IsOnce, OnceNext
<1> HIDE DEF u
<1>6. /\ u[0] = <<>>
      /\ \A k \in 1 .. Len(s) : u[k] = OnceNext(s, k, u[k - 1])
  <2>1. \A k \in 0 .. Len(s) : u[k] = IF k = 0 THEN <<>> ELSE OnceNext(s, k, u[k - 1])
    BY <1>4, Zenon DEF IsOnce
  <2>2. 0 \in 0 .. Len(s) /\ \A k \in 1 .. Len(s) : k \in 0 .. Len(s) /\ k # 0
    OBVIOUS
  <2> QED
    BY <2>1, <2>2
<1> QED
  BY <1>5, <1>6

(* The tables and queries there are after the first of a WITH clause. *)
SelectNext(s, tables, w, k, r) == With(r, s.with[k].id, RowsOf(s.with[k], r, w))
IsSelect(s, tables, w, n, f) == f = [k \in 0 .. n |-> IF k = 0 THEN tables ELSE SelectNext(s, tables, w, k, f[k - 1])]

(* The WITH clauses of a statement, bound one after the other. *)
LEMMA SelectSteps ==
  ASSUME NEW s, NEW tables, NEW w, Len(s.with) \in Nat
  PROVE  \E f : /\ Select(s, tables, w) = f[Len(s.with)][s.from] /\ f[0] = tables
               /\ \A k \in 1 .. Len(s.with) : f[k] = SelectNext(s, tables, w, k, f[k - 1])
<1> DEFINE P == {n \in Nat : \E f : IsSelect(s, tables, w, n, f)}
<1>1. 0 \in P
  <2> DEFINE f == [k \in 0 .. 0 |-> tables]
  <2>1. \A k \in 0 .. 0 : k = 0
    OBVIOUS
  <2>2. IsSelect(s, tables, w, 0, f)
    BY <2>1 DEF IsSelect
  <2> QED
    BY <2>2
<1>2. ASSUME NEW n \in Nat, n \in P
      PROVE  n + 1 \in P
  <2>1. PICK f : IsSelect(s, tables, w, n, f)
    BY <1>2
  <2> DEFINE h == [k \in 0 .. n + 1 |-> IF k = 0 THEN tables ELSE SelectNext(s, tables, w, k, f[k - 1])]
  <2>2. \A k \in 0 .. n : h[k] = f[k]
    BY <2>1 DEF IsSelect
  <2>3. \A k \in 0 .. n + 1 : k # 0 => k - 1 \in 0 .. n
    OBVIOUS
  <2>4. IsSelect(s, tables, w, n + 1, h)
    BY <2>2, <2>3 DEF IsSelect
  <2> HIDE DEF h
  <2>5. \E g : IsSelect(s, tables, w, n + 1, g)
    BY <2>4
  <2> QED
    BY <2>5
<1> HIDE DEF P
<1>3. Nat \subseteq P
  BY <1>1, <1>2, CountingUp
<1> DEFINE u == CHOOSE f : IsSelect(s, tables, w, Len(s.with), f)
<1>4. IsSelect(s, tables, w, Len(s.with), u)
  <2>1. Len(s.with) \in P
    BY <1>3
  <2> QED
    BY <2>1 DEF P
<1>5. Select(s, tables, w) = u[Len(s.with)][s.from]
  BY Zenon DEF Select, IsSelect, SelectNext
<1> HIDE DEF u
<1>6. /\ u[0] = tables
      /\ \A k \in 1 .. Len(s.with) : u[k] = SelectNext(s, tables, w, k, u[k - 1])
  <2>1. \A k \in 0 .. Len(s.with) : u[k] = IF k = 0 THEN tables ELSE SelectNext(s, tables, w, k, u[k - 1])
    BY <1>4, Zenon DEF IsSelect
  <2>2. 0 \in 0 .. Len(s.with) /\ \A k \in 1 .. Len(s.with) : k \in 0 .. Len(s.with) /\ k # 0
    OBVIOUS
  <2> QED
    BY <2>1, <2>2
<1> QED
  BY <1>5, <1>6

(* The tables there are after the first statements. *)
ExecuteNext(statements, w, k, r) == With(r, statements[k].target, Select(statements[k], r, w))
IsExecute(statements, w, n, f) == f = [k \in 0 .. n |-> IF k = 0 THEN <<>> ELSE ExecuteNext(statements, w, k, f[k - 1])]

(* The statements of a program, run one after the other. *)
LEMMA ExecuteSteps ==
  ASSUME NEW statements, NEW w, Len(statements) \in Nat
  PROVE  \E f : /\ Execute(statements, w) = f[Len(statements)][Last(statements).target] /\ f[0] = <<>>
               /\ \A k \in 1 .. Len(statements) : f[k] = ExecuteNext(statements, w, k, f[k - 1])
<1> DEFINE P == {n \in Nat : \E f : IsExecute(statements, w, n, f)}
<1>1. 0 \in P
  <2> DEFINE f == [k \in 0 .. 0 |-> <<>>]
  <2>1. \A k \in 0 .. 0 : k = 0
    OBVIOUS
  <2>2. IsExecute(statements, w, 0, f)
    BY <2>1 DEF IsExecute
  <2> QED
    BY <2>2
<1>2. ASSUME NEW n \in Nat, n \in P
      PROVE  n + 1 \in P
  <2>1. PICK f : IsExecute(statements, w, n, f)
    BY <1>2
  <2> DEFINE h == [k \in 0 .. n + 1 |-> IF k = 0 THEN <<>> ELSE ExecuteNext(statements, w, k, f[k - 1])]
  <2>2. \A k \in 0 .. n : h[k] = f[k]
    BY <2>1 DEF IsExecute
  <2>3. \A k \in 0 .. n + 1 : k # 0 => k - 1 \in 0 .. n
    OBVIOUS
  <2>4. IsExecute(statements, w, n + 1, h)
    BY <2>2, <2>3 DEF IsExecute
  <2> HIDE DEF h
  <2>5. \E g : IsExecute(statements, w, n + 1, g)
    BY <2>4
  <2> QED
    BY <2>5
<1> HIDE DEF P
<1>3. Nat \subseteq P
  BY <1>1, <1>2, CountingUp
<1> DEFINE u == CHOOSE f : IsExecute(statements, w, Len(statements), f)
<1>4. IsExecute(statements, w, Len(statements), u)
  <2>1. Len(statements) \in P
    BY <1>3
  <2> QED
    BY <2>1 DEF P
<1>5. Execute(statements, w) = u[Len(statements)][Last(statements).target]
  BY Zenon DEF Execute, IsExecute, ExecuteNext
<1> HIDE DEF u
<1>6. /\ u[0] = <<>>
      /\ \A k \in 1 .. Len(statements) : u[k] = ExecuteNext(statements, w, k, u[k - 1])
  <2>1. \A k \in 0 .. Len(statements) : u[k] = IF k = 0 THEN <<>> ELSE ExecuteNext(statements, w, k, u[k - 1])
    BY <1>4, Zenon DEF IsExecute
  <2>2. 0 \in 0 .. Len(statements) /\ \A k \in 1 .. Len(statements) : k \in 0 .. Len(statements) /\ k # 0
    OBVIOUS
  <2> QED
    BY <2>1, <2>2
<1> QED
  BY <1>5, <1>6

(* Nothing is known. *)
NoSchemas == [ok |-> TRUE, of |-> <<>>]

(* The schemas there are after the first nodes. *)
SchemasNext(nodes, k, r) == Checked(r, nodes[k])
IsSchemas(nodes, n, f) == f = [k \in 0 .. n |-> IF k = 0 THEN NoSchemas ELSE SchemasNext(nodes, k, f[k - 1])]

(* The schemas of a plan, found node by node. *)
LEMMA SchemasSteps ==
  ASSUME NEW nodes, Len(nodes) \in Nat
  PROVE  \E f : /\ SchemasOf(nodes) = f[Len(nodes)] /\ f[0] = NoSchemas
               /\ \A k \in 1 .. Len(nodes) : f[k] = SchemasNext(nodes, k, f[k - 1])
<1> DEFINE P == {n \in Nat : \E f : IsSchemas(nodes, n, f)}
<1>1. 0 \in P
  <2> DEFINE f == [k \in 0 .. 0 |-> NoSchemas]
  <2>1. \A k \in 0 .. 0 : k = 0
    OBVIOUS
  <2>2. IsSchemas(nodes, 0, f)
    BY <2>1 DEF IsSchemas
  <2> QED
    BY <2>2
<1>2. ASSUME NEW n \in Nat, n \in P
      PROVE  n + 1 \in P
  <2>1. PICK f : IsSchemas(nodes, n, f)
    BY <1>2
  <2> DEFINE h == [k \in 0 .. n + 1 |-> IF k = 0 THEN NoSchemas ELSE SchemasNext(nodes, k, f[k - 1])]
  <2>2. \A k \in 0 .. n : h[k] = f[k]
    BY <2>1 DEF IsSchemas
  <2>3. \A k \in 0 .. n + 1 : k # 0 => k - 1 \in 0 .. n
    OBVIOUS
  <2>4. IsSchemas(nodes, n + 1, h)
    BY <2>2, <2>3 DEF IsSchemas
  <2> HIDE DEF h
  <2>5. \E g : IsSchemas(nodes, n + 1, g)
    BY <2>4
  <2> QED
    BY <2>5
<1> HIDE DEF P
<1>3. Nat \subseteq P
  BY <1>1, <1>2, CountingUp
<1> DEFINE u == CHOOSE f : IsSchemas(nodes, Len(nodes), f)
<1>4. IsSchemas(nodes, Len(nodes), u)
  <2>1. Len(nodes) \in P
    BY <1>3
  <2> QED
    BY <2>1 DEF P
<1>5. SchemasOf(nodes) = u[Len(nodes)]
  BY Zenon DEF SchemasOf, NoSchemas, IsSchemas, SchemasNext
<1> HIDE DEF u
<1>6. /\ u[0] = NoSchemas
      /\ \A k \in 1 .. Len(nodes) : u[k] = SchemasNext(nodes, k, u[k - 1])
  <2>1. \A k \in 0 .. Len(nodes) : u[k] = IF k = 0 THEN NoSchemas ELSE SchemasNext(nodes, k, u[k - 1])
    BY <1>4, Zenon DEF IsSchemas
  <2>2. 0 \in 0 .. Len(nodes) /\ \A k \in 1 .. Len(nodes) : k \in 0 .. Len(nodes) /\ k # 0
    OBVIOUS
  <2> QED
    BY <2>1, <2>2
<1> QED
  BY <1>5, <1>6

(* What FlattenSeq builds. *)
Glued(seqs, i, r) == r \o seqs[i]
IsFlatten(seqs, n, f) == f = [i \in 1 .. n |-> IF i = 1 THEN seqs[i] ELSE Glued(seqs, i, f[i - 1])]

(* A list of lists, joined one list at a time. *)
LEMMA FlattenSteps ==
  ASSUME NEW seqs, Len(seqs) \in Nat, Len(seqs) # 0
  PROVE  \E f : /\ FlattenSeq(seqs) = f[Len(seqs)] /\ f[1] = seqs[1]
                /\ \A k \in 2 .. Len(seqs) : f[k] = f[k - 1] \o seqs[k]
<1> DEFINE P == {n \in Nat : \E f : IsFlatten(seqs, n, f)}
<1>1. 0 \in P
  <2> DEFINE f == [i \in 1 .. 0 |-> <<>>]
  <2>1. \A i \in 1 .. 0 : FALSE
    OBVIOUS
  <2>2. IsFlatten(seqs, 0, f)
    BY <2>1 DEF IsFlatten
  <2> QED
    BY <2>2
<1>2. ASSUME NEW n \in Nat, n \in P
      PROVE  n + 1 \in P
  <2>1. PICK f : IsFlatten(seqs, n, f)
    BY <1>2
  <2> DEFINE h == [i \in 1 .. n + 1 |-> IF i = 1 THEN seqs[i] ELSE Glued(seqs, i, f[i - 1])]
  <2>2. \A i \in 1 .. n : h[i] = f[i]
    BY <2>1 DEF IsFlatten
  <2>3. \A i \in 1 .. n + 1 : i # 1 => i - 1 \in 1 .. n
    OBVIOUS
  <2>4. IsFlatten(seqs, n + 1, h)
    BY <2>2, <2>3 DEF IsFlatten
  <2> HIDE DEF h
  <2>5. \E g : IsFlatten(seqs, n + 1, g)
    BY <2>4
  <2> QED
    BY <2>5
<1> HIDE DEF P
<1>3. Nat \subseteq P
  BY <1>1, <1>2, CountingUp
<1> DEFINE u == CHOOSE f : IsFlatten(seqs, Len(seqs), f)
<1>4. IsFlatten(seqs, Len(seqs), u)
  <2>1. Len(seqs) \in P
    BY <1>3
  <2> QED
    BY <2>1 DEF P
<1>5. FlattenSeq(seqs) = u[Len(seqs)]
  BY Zenon DEF FlattenSeq, IsFlatten, Glued
<1> HIDE DEF u
<1>6. /\ u[1] = seqs[1]
      /\ \A k \in 2 .. Len(seqs) : u[k] = u[k - 1] \o seqs[k]
  <2>1. \A i \in 1 .. Len(seqs) : u[i] = IF i = 1 THEN seqs[i] ELSE Glued(seqs, i, u[i - 1])
    BY <1>4, Zenon DEF IsFlatten
  <2>2. 1 \in 1 .. Len(seqs) /\ \A k \in 2 .. Len(seqs) : k \in 1 .. Len(seqs) /\ k # 1
    OBVIOUS
  <2> QED
    BY <2>1, <2>2 DEF Glued
<1> QED
  BY <1>5, <1>6

(* A list of lists, one after the other. *)
LEMMA Flattened ==
  ASSUME NEW T, NEW seqs \in Seq(Seq(T)), NEW R, \A i \in DOMAIN seqs : InOrder(seqs[i], R)
  PROVE  /\ FlattenSeq(seqs) \in Seq(T)
         /\ ToSet(FlattenSeq(seqs)) = UNION {ToSet(seqs[i]) : i \in DOMAIN seqs}
         /\ InOrder(FlattenSeq(seqs), R)
<1> DEFINE N == Len(seqs)
<1>1. N \in Nat /\ DOMAIN seqs = 1 .. N /\ \A i \in 1 .. N : seqs[i] \in Seq(T)
  OBVIOUS
<1>2. CASE N = 0
  <2>1. FlattenSeq(seqs) = seqs /\ seqs = <<>> /\ DOMAIN seqs = {}
    BY <1>1, <1>2 DEF FlattenSeq
  <2>2. <<>> \in Seq(T) /\ DOMAIN <<>> = {}
    OBVIOUS
  <2> QED
    BY <2>1, <2>2 DEF InOrder, ToSet
<1>3. CASE N # 0
  <2>1. PICK f : /\ FlattenSeq(seqs) = f[N] /\ f[1] = seqs[1]
                 /\ \A k \in 2 .. N : f[k] = f[k - 1] \o seqs[k]
    BY <1>1, <1>3, FlattenSteps
  <2> DEFINE Claim(n) == /\ f[n] \in Seq(T)
                         /\ ToSet(f[n]) = UNION {ToSet(seqs[i]) : i \in 1 .. n}
                         /\ InOrder(f[n], R)
             P == {n \in Nat : n + 1 <= N => Claim(n + 1)}
  <2> HIDE DEF N
  <2>2. 0 \in P
    <3>1. 1 \in 1 .. N /\ 1 .. 1 = {1}
      BY <1>1, <1>3
    <3>2. Claim(1)
      BY <1>1, <2>1, <3>1
    <3> QED
      BY <3>2
  <2>3. ASSUME NEW n \in Nat, n \in P
        PROVE  n + 1 \in P
    <3> SUFFICES ASSUME (n + 1) + 1 <= N PROVE Claim((n + 1) + 1)
      OBVIOUS
    <3>1. Claim(n + 1)
      BY <1>1, <2>3
    <3>2. /\ (n + 1) + 1 \in 2 .. N /\ ((n + 1) + 1) - 1 = n + 1
          /\ (n + 1) + 1 \in DOMAIN seqs /\ (n + 1) + 1 \in 1 .. N
          /\ \A i : i \in 1 .. (n + 1) + 1 <=> i \in 1 .. n + 1 \/ i = (n + 1) + 1
      BY <1>1
    <3> DEFINE a == f[n + 1]
               b == seqs[(n + 1) + 1]
    <3>3. f[(n + 1) + 1] = a \o b
      BY <2>1, <3>2
    <3>4. a \in Seq(T) /\ b \in Seq(T) /\ InOrder(a, R) /\ InOrder(b, R)
      BY <1>1, <3>1, <3>2
    <3>5. ToSet(a) = UNION {ToSet(seqs[i]) : i \in 1 .. n + 1}
      BY <3>1
    <3>6. UNION {ToSet(seqs[i]) : i \in 1 .. (n + 1) + 1}
            = (UNION {ToSet(seqs[i]) : i \in 1 .. n + 1}) \cup ToSet(b)
      BY <3>2
    <3> HIDE DEF a, b
    <3>7. a \o b \in Seq(T) /\ ToSet(a \o b) = ToSet(a) \cup ToSet(b) /\ InOrder(a \o b, R)
      BY <3>4, JoinedInOrder
    <3> QED
      BY <3>3, <3>5, <3>6, <3>7
  <2> HIDE DEF P
  <2>4. Nat \subseteq P
    BY <2>2, <2>3, CountingUp
  <2>5. N - 1 \in Nat /\ (N - 1) + 1 = N
    BY <1>1, <1>3
  <2>6. Claim(N)
    <3> HIDE DEF Claim
    <3>1. N - 1 \in P
      BY <2>4, <2>5
    <3> QED
      BY <1>1, <2>5, <3>1 DEF P
  <2> QED
    BY <1>1, <2>1, <2>6
<1> QED
  BY <1>2, <1>3

(* What is needed of a set. *)
Within(R, S) == {p \in R : p[2] \in S}

(* Those that are in a set keep their order. *)
LEMMA ThoseInOrder ==
  ASSUME NEW T, NEW s \in Seq(T), NEW R, InOrder(s, R), NEW S
  PROVE  /\ Those(s, S) \in Seq(T) /\ ToSet(Those(s, S)) = ToSet(s) \cap S
         /\ InOrder(Those(s, S), Within(R, S))
<1> DEFINE N == Len(s)
           Q == Within(R, S)
<1>1. N \in Nat /\ DOMAIN s = 1 .. N /\ \A i \in 1 .. N : s[i] \in T
  OBVIOUS
<1>2. PICK f : /\ Those(s, S) = f[N] /\ f[0] = <<>>
               /\ \A k \in 1 .. N : f[k] = ThoseNext(s, S, k, f[k - 1])
  BY <1>1, ThoseSteps
<1> DEFINE Claim(n) == /\ f[n] \in Seq(T)
                       /\ ToSet(f[n]) = {s[i] : i \in 1 .. n} \cap S
                       /\ InOrder(f[n], Q)
           P == {n \in Nat : n <= N => Claim(n)}
<1> HIDE DEF N, Q
<1>3. 0 \in P
  <2>1. <<>> \in Seq(T) /\ DOMAIN <<>> = {} /\ 1 .. 0 = {}
    OBVIOUS
  <2>2. Claim(0)
    BY <1>2, <2>1 DEF InOrder, ToSet
  <2> QED
    BY <2>2
<1>4. ASSUME NEW n \in Nat, n \in P
      PROVE  n + 1 \in P
  <2> SUFFICES ASSUME n + 1 <= N PROVE Claim(n + 1)
    OBVIOUS
  <2>1. Claim(n)
    BY <1>1, <1>4
  <2>2. /\ n + 1 \in 1 .. N /\ (n + 1) - 1 = n /\ n + 1 \in DOMAIN s /\ s[n + 1] \in T
        /\ \A i : i \in 1 .. n + 1 <=> i \in 1 .. n \/ i = n + 1
        /\ \A k \in DOMAIN s : k < n + 1 => k \in 1 .. n
    BY <1>1
  <2>3. f[n + 1] = IF s[n + 1] \in S THEN Append(f[n], s[n + 1]) ELSE f[n]
    BY <1>2, <2>2 DEF ThoseNext
  <2>4. {s[i] : i \in 1 .. n + 1} = {s[i] : i \in 1 .. n} \cup {s[n + 1]}
    BY <2>2
  <2>5. CASE s[n + 1] \notin S
    BY <2>1, <2>3, <2>4, <2>5
  <2>6. CASE s[n + 1] \in S
    <3> DEFINE r == f[n]
               x == s[n + 1]
    <3>1. r \in Seq(T) /\ InOrder(r, Q) /\ ToSet(r) = {s[i] : i \in 1 .. n} \cap S /\ x \in T
      BY <2>1, <2>2
    <3>2. \A y : <<x, y>> \in Q => y \in ToSet(r)
      <4> SUFFICES ASSUME NEW y, <<x, y>> \in Q PROVE y \in ToSet(r)
        OBVIOUS
      <4>1. <<x, y>> \in R /\ y \in S
        BY DEF Q, Within
      <4>2. PICK k \in DOMAIN s : k < n + 1 /\ s[k] = y
        BY <2>2, <4>1 DEF InOrder
      <4> QED
        BY <2>2, <3>1, <4>1, <4>2
    <3> HIDE DEF r, x
    <3>3. /\ Append(r, x) \in Seq(T) /\ ToSet(Append(r, x)) = ToSet(r) \cup {x}
          /\ InOrder(Append(r, x), Q)
      BY <3>1, <3>2, AppendedInOrder
    <3>4. f[n + 1] = Append(r, x)
      BY <2>3, <2>6 DEF r, x
    <3>5. {s[i] : i \in 1 .. n + 1} \cap S = ToSet(r) \cup {x}
      BY <2>4, <2>6, <3>1 DEF x
    <3> QED
      BY <3>3, <3>4, <3>5
  <2> QED
    BY <2>5, <2>6
<1> HIDE DEF P
<1>5. N \in P
  BY <1>1, <1>3, <1>4, CountingUp
<1>6. Claim(N)
  <2> HIDE DEF Claim
  <2> QED
    BY <1>1, <1>5 DEF P
<1> QED
  BY <1>1, <1>2, <1>6 DEF ToSet, Q

(* Each once, where it was first. *)
LEMMA OnceInOrder ==
  ASSUME NEW T, NEW s \in Seq(T), NEW R, InOrder(s, R)
  PROVE  Once(s) \in Seq(T) /\ ToSet(Once(s)) = ToSet(s) /\ InOrder(Once(s), R)
<1> DEFINE N == Len(s)
<1>1. N \in Nat /\ DOMAIN s = 1 .. N /\ \A i \in 1 .. N : s[i] \in T
  OBVIOUS
<1>2. PICK f : /\ Once(s) = f[N] /\ f[0] = <<>>
               /\ \A k \in 1 .. N : f[k] = OnceNext(s, k, f[k - 1])
  BY <1>1, OnceSteps
<1> DEFINE Claim(n) == /\ f[n] \in Seq(T)
                       /\ ToSet(f[n]) = {s[i] : i \in 1 .. n}
                       /\ InOrder(f[n], R)
           P == {n \in Nat : n <= N => Claim(n)}
<1> HIDE DEF N
<1>3. 0 \in P
  <2>1. <<>> \in Seq(T) /\ DOMAIN <<>> = {} /\ 1 .. 0 = {}
    OBVIOUS
  <2>2. Claim(0)
    BY <1>2, <2>1 DEF InOrder, ToSet
  <2> QED
    BY <2>2
<1>4. ASSUME NEW n \in Nat, n \in P
      PROVE  n + 1 \in P
  <2> SUFFICES ASSUME n + 1 <= N PROVE Claim(n + 1)
    OBVIOUS
  <2>1. Claim(n)
    BY <1>1, <1>4
  <2>2. /\ n + 1 \in 1 .. N /\ (n + 1) - 1 = n /\ n + 1 \in DOMAIN s /\ s[n + 1] \in T
        /\ \A i : i \in 1 .. n + 1 <=> i \in 1 .. n \/ i = n + 1
        /\ \A k \in DOMAIN s : k < n + 1 => k \in 1 .. n
    BY <1>1
  <2>3. f[n + 1] = IF s[n + 1] \in ToSet(f[n]) THEN f[n] ELSE Append(f[n], s[n + 1])
    BY <1>2, <2>2 DEF OnceNext
  <2>4. {s[i] : i \in 1 .. n + 1} = {s[i] : i \in 1 .. n} \cup {s[n + 1]}
    BY <2>2
  <2>5. CASE s[n + 1] \in ToSet(f[n])
    BY <2>1, <2>3, <2>4, <2>5
  <2>6. CASE s[n + 1] \notin ToSet(f[n])
    <3> DEFINE r == f[n]
               x == s[n + 1]
    <3>1. r \in Seq(T) /\ InOrder(r, R) /\ ToSet(r) = {s[i] : i \in 1 .. n} /\ x \in T
      BY <2>1, <2>2
    <3>2. \A y : <<x, y>> \in R => y \in ToSet(r)
      <4> SUFFICES ASSUME NEW y, <<x, y>> \in R PROVE y \in ToSet(r)
        OBVIOUS
      <4>2. PICK k \in DOMAIN s : k < n + 1 /\ s[k] = y
        BY <2>2 DEF InOrder
      <4> QED
        BY <2>2, <3>1, <4>2
    <3> HIDE DEF r, x
    <3>3. /\ Append(r, x) \in Seq(T) /\ ToSet(Append(r, x)) = ToSet(r) \cup {x}
          /\ InOrder(Append(r, x), R)
      BY <3>1, <3>2, AppendedInOrder
    <3>4. f[n + 1] = Append(r, x)
      BY <2>3, <2>6 DEF r, x
    <3>5. {s[i] : i \in 1 .. n + 1} = ToSet(r) \cup {x}
      BY <2>4, <3>1 DEF x
    <3> QED
      BY <3>3, <3>4, <3>5
  <2> QED
    BY <2>5, <2>6
<1> HIDE DEF P
<1>5. N \in P
  BY <1>1, <1>3, <1>4, CountingUp
<1>6. Claim(N)
  <2> HIDE DEF Claim
  <2> QED
    BY <1>1, <1>5 DEF P
<1> QED
  BY <1>1, <1>2, <1>6 DEF ToSet

(* A set has one size, under either name of it. *)
LEMMA SameCardinality ==
  ASSUME NEW S
  PROVE  Lists!Cardinality(S) = Cardinality(S)
BY Zenon DEF Lists!Cardinality, Cardinality

(* A finite set, listed. *)
LEMMA SetListed ==
  ASSUME NEW S, IsFiniteSet(S)
  PROVE  Lists!SetToSeq(S) \in Seq(S) /\ ToSet(Lists!SetToSeq(S)) = S
<1> DEFINE n == Cardinality(S)
           F == [1 .. n -> S]
<1>1. n \in Nat
  BY FiniteIsListed
<1>3. \E f \in F : Lists!IsInjective(f)
  <2>1. PICK f \in F : \A i, j \in 1 .. n : f[i] = f[j] => i = j
    BY FiniteIsListed
  <2>2. Lists!IsInjective(f)
    BY <2>1 DEF Lists!IsInjective
  <2> QED
    BY <2>2
<1> DEFINE s == Lists!SetToSeq(S)
<1>4. s \in F /\ Lists!IsInjective(s)
  <2>1. s = CHOOSE f \in F : Lists!IsInjective(f)
    BY SameCardinality, Zenon DEF Lists!SetToSeq
  <2> QED
    BY <1>3, <2>1, Zenon
<1>5. \A x \in S : \E i \in 1 .. n : s[i] = x
  <2>1. DOMAIN s = 1 .. n
    BY <1>4
  <2>2. \A i, j \in 1 .. n : s[i] = s[j] => i = j
    BY <1>4, <2>1 DEF Lists!IsInjective
  <2> HIDE DEF s
  <2> QED
    BY <1>4, <2>2, FiniteIsListed
<1> HIDE DEF s, n
<1>6. s \in Seq(S) /\ DOMAIN s = 1 .. n /\ \A i \in 1 .. n : s[i] \in S
  BY <1>1, <1>4
<1>7. ToSet(s) = S
  BY <1>5, <1>6 DEF ToSet
<1> QED
  BY <1>6, <1>7 DEF s

-------------------------------------------------------------------------------
(* Plans whose nodes read earlier nodes *)

(* The nodes the adapter makes. *)
WellMade(n) ==
  /\ n.kind \in {"scan", "filter", "union", "join", "project", "aggregate", "materialize"}
  /\ n.inputs \in Seq(ToSet(n.inputs))
  /\ n.kind \in {"filter", "project", "aggregate", "materialize"} => Len(n.inputs) = 1
  /\ n.kind = "join" => Len(n.inputs) = 2

(* The identifiers of the first nodes. *)
Ids(nodes, k) == {nodes[i].id : i \in 1 .. k}

(* Every node has an identifier of its own and reads nodes before it. *)
Linked(nodes) ==
  /\ nodes \in Seq(ToSet(nodes)) /\ \A n \in ToSet(nodes) : WellMade(n)
  /\ \A i, j \in DOMAIN nodes : nodes[i].id = nodes[j].id => i = j
  /\ \A i \in DOMAIN nodes : ToSet(nodes[i].inputs) \subseteq Ids(nodes, i - 1)

(* The rows of every node, by its identifier. *)
Valued(nodes, v, w) == \A n \in ToSet(nodes) : v[n.id] = RowsOf(n, v, w)

(* With adds one name to a function. *)
LEMMA WithDomain ==
  ASSUME NEW f, NEW a, NEW b
  PROVE  DOMAIN With(f, a, b) = DOMAIN f \cup {a}
BY DEF With

(* The name With adds has the value it was given. *)
LEMMA WithNew ==
  ASSUME NEW f, NEW a, NEW b
  PROVE  With(f, a, b)[a] = b
BY DEF With

(* Every other name keeps its value. *)
LEMMA WithOld ==
  ASSUME NEW f, NEW a, NEW b, NEW x \in DOMAIN f, x # a
  PROVE  With(f, a, b)[x] = f[x]
BY DEF With

(* A node reads its inputs and nothing else. *)
LEMMA RowsOfInputs ==
  ASSUME NEW n, WellMade(n), NEW e, NEW f, NEW w, \A i \in ToSet(n.inputs) : e[i] = f[i]
  PROVE  RowsOf(n, e, w) = RowsOf(n, f, w)
<1>1. n.kind \in {"filter", "project", "aggregate", "materialize"} => n.inputs[1] \in ToSet(n.inputs)
  BY DEF WellMade, ToSet
<1>2. n.kind = "join" => n.inputs[1] \in ToSet(n.inputs) /\ n.inputs[2] \in ToSet(n.inputs)
  BY DEF WellMade, ToSet
<1>3. CASE n.kind = "union"
  <2>1. {e[i] : i \in ToSet(n.inputs)} = {f[i] : i \in ToSet(n.inputs)}
    OBVIOUS
  <2> QED
    BY <1>3, <2>1, Zenon DEF RowsOf
<1>4. CASE n.kind = "scan"
  BY <1>4 DEF RowsOf
<1>5. CASE n.kind = "join"
  <2>1. e[n.inputs[1]] = f[n.inputs[1]] /\ e[n.inputs[2]] = f[n.inputs[2]]
    BY <1>2, <1>5
  <2> QED
    BY <1>5, <2>1 DEF RowsOf
<1>6. CASE n.kind \in {"filter", "project", "aggregate", "materialize"}
  <2>1. e[n.inputs[1]] = f[n.inputs[1]]
    BY <1>1, <1>6
  <2> QED
    BY <1>6, <2>1 DEF RowsOf
<1> QED
  BY <1>3, <1>4, <1>5, <1>6 DEF WellMade

(* An id names one node of a linked plan. *)
LEMMA NodeOfId ==
  ASSUME NEW nodes, Linked(nodes), NEW n \in ToSet(nodes)
  PROVE  NodeOf(nodes, n.id) = n
<1>1. \A m \in ToSet(nodes) : m.id = n.id => m = n
  BY DEF Linked, ToSet
<1> QED
  BY <1>1 DEF NodeOf

(* The rows of all nodes are there to be had. *)
LEMMA ValuesExist ==
  ASSUME NEW nodes, Linked(nodes), NEW w
  PROVE  \E v : Valued(nodes, v, w)
<1> DEFINE N == Len(nodes)
           Upto(k, v) == /\ DOMAIN v = Ids(nodes, k)
                         /\ \A i \in 1 .. k : v[nodes[i].id] = RowsOf(nodes[i], v, w)
           P == {k \in Nat : k <= N => \E v : Upto(k, v)}
<1>1. N \in Nat /\ DOMAIN nodes = 1 .. N /\ \A i \in 1 .. N : nodes[i] \in ToSet(nodes) /\ WellMade(nodes[i])
  BY DEF Linked, ToSet
<1> HIDE DEF N
<1>2. 0 \in P
  <2>1. Ids(nodes, 0) = {} /\ DOMAIN <<>> = {} /\ 1 .. 0 = {}
    BY DEF Ids
  <2>2. Upto(0, <<>>)
    BY <2>1
  <2> HIDE DEF Upto
  <2> QED
    BY <2>2
<1>3. ASSUME NEW k \in Nat, k \in P
      PROVE  k + 1 \in P
  <2> SUFFICES ASSUME k + 1 <= N PROVE \E v : Upto(k + 1, v)
    OBVIOUS
  <2>1. PICK v : Upto(k, v)
    BY <1>1, <1>3
  <2> DEFINE n == nodes[k + 1]
             u == With(v, n.id, RowsOf(n, v, w))
  <2>2. /\ k + 1 \in 1 .. N /\ (k + 1) - 1 = k
        /\ \A i : i \in 1 .. k + 1 <=> i \in 1 .. k \/ i = k + 1
        /\ \A i \in 1 .. k : i \in 1 .. N /\ i # k + 1 /\ \A j \in 1 .. i - 1 : j \in 1 .. k
    BY <1>1
  <2>3. n.id \notin Ids(nodes, k)
    BY <1>1, <2>2 DEF Linked, Ids
  <2>10. /\ DOMAIN u = DOMAIN v \cup {n.id} /\ u[n.id] = RowsOf(n, v, w)
         /\ \A x \in DOMAIN v : x # n.id => u[x] = v[x]
    <3>1. DOMAIN u = DOMAIN v \cup {n.id}
      BY WithDomain
    <3>2. u[n.id] = RowsOf(n, v, w)
      BY WithNew
    <3>3. \A x \in DOMAIN v : x # n.id => u[x] = v[x]
      BY WithOld
    <3> HIDE DEF u, n
    <3> QED
      BY <3>1, <3>2, <3>3
  <2>4. DOMAIN u = Ids(nodes, k + 1)
    <3>1. Ids(nodes, k + 1) = Ids(nodes, k) \cup {n.id}
      BY <2>2 DEF Ids
    <3> HIDE DEF n, u
    <3> QED
      BY <2>1, <2>10, <3>1
  <2>5. \A x \in Ids(nodes, k) : u[x] = v[x]
    <3> HIDE DEF n, u
    <3> QED
      BY <2>1, <2>3, <2>10
  <2>6. ASSUME NEW i \in 1 .. k + 1
        PROVE  u[nodes[i].id] = RowsOf(nodes[i], u, w)
    <3>1. ToSet(nodes[i].inputs) \subseteq Ids(nodes, k)
      <4>1. ToSet(nodes[i].inputs) \subseteq Ids(nodes, i - 1)
        BY <1>1, <2>2 DEF Linked
      <4>2. Ids(nodes, i - 1) \subseteq Ids(nodes, k)
        BY <2>2 DEF Ids
      <4> QED
        BY <4>1, <4>2
    <3>2. RowsOf(nodes[i], u, w) = RowsOf(nodes[i], v, w)
      <4>1. WellMade(nodes[i])
        BY <1>1, <2>2
      <4> HIDE DEF u
      <4> QED
        BY <2>5, <3>1, <4>1, RowsOfInputs
    <3>3. CASE i = k + 1
      <4> HIDE DEF u
      <4> QED
        BY <2>10, <3>2, <3>3
    <3>4. CASE i \in 1 .. k
      <4>1. nodes[i].id \in Ids(nodes, k)
        BY <3>4 DEF Ids
      <4> HIDE DEF u
      <4> QED
        BY <2>1, <2>5, <3>2, <3>4, <4>1
    <3> QED
      BY <2>2, <3>3, <3>4
  <2>7. Upto(k + 1, u)
    <3> HIDE DEF u
    <3> QED
      BY <2>4, <2>6
  <2> HIDE DEF u, Upto
  <2> QED
    BY <2>7
<1> HIDE DEF P
<1>4. N \in P
  BY <1>1, <1>2, <1>3, CountingUp
<1>5. PICK v : Upto(N, v)
  <2> HIDE DEF Upto
  <2> QED
    BY <1>1, <1>4 DEF P
<1>6. Valued(nodes, v, w)
  BY <1>1, <1>5 DEF Valued, ToSet
<1> QED
  BY <1>6

-------------------------------------------------------------------------------
(* What a query needs *)

(* A query needs its inputs, unless it is a table by now. *)
InputsAmong(nodes) ==
  {p \in ToSet(nodes) \X ToSet(nodes) : p[1].kind # "materialize" /\ p[2].id \in ToSet(p[1].inputs)}

(* What the recursion of Needed gives for the nodes of S. *)
OrderStep(n, lists) == IF n.kind = "materialize" THEN <<n>> ELSE FlattenSeq(lists) \o <<n>>
IsOrder(nodes, S, f) ==
  f = [n \in S |-> OrderStep(n, [i \in DOMAIN n.inputs |-> f[NodeOf(nodes, n.inputs[i])]])]

(* The inputs of a node stand before it. *)
LEMMA InputNodes ==
  ASSUME NEW nodes, Linked(nodes), NEW j \in DOMAIN nodes, NEW i \in DOMAIN nodes[j].inputs
  PROVE  \E k \in 1 .. j - 1 : k \in DOMAIN nodes /\ NodeOf(nodes, nodes[j].inputs[i]) = nodes[k]
                               /\ nodes[k].id = nodes[j].inputs[i]
<1>1. nodes[j].inputs[i] \in Ids(nodes, j - 1)
  BY DEF Linked, ToSet
<1>2. PICK k \in 1 .. j - 1 : nodes[k].id = nodes[j].inputs[i]
  BY <1>1 DEF Ids
<1>3. k \in DOMAIN nodes /\ nodes[k] \in ToSet(nodes)
  <2>1. Len(nodes) \in Nat /\ DOMAIN nodes = 1 .. Len(nodes)
    BY DEF Linked
  <2> QED
    BY <2>1 DEF ToSet
<1>4. NodeOf(nodes, nodes[k].id) = nodes[k]
  BY <1>3, NodeOfId
<1> QED
  BY <1>2, <1>3, <1>4

(* The depth-first order of a linked plan is defined for every node. *)
LEMMA OrderExists ==
  ASSUME NEW nodes, Linked(nodes)
  PROVE  \E f : IsOrder(nodes, ToSet(nodes), f)
<1> DEFINE N == Len(nodes)
           T(k) == {nodes[i] : i \in 1 .. k}
           P == {k \in Nat : k <= N => \E f : IsOrder(nodes, T(k), f)}
<1>1. N \in Nat /\ DOMAIN nodes = 1 .. N
  BY DEF Linked
<1> HIDE DEF N
<1>2. 0 \in P
  <2> DEFINE f == [n \in T(0) |-> <<>>]
  <2>1. T(0) = {}
    OBVIOUS
  <2>2. IsOrder(nodes, T(0), f)
    BY <2>1 DEF IsOrder
  <2> HIDE DEF f
  <2> QED
    BY <2>2
<1>3. ASSUME NEW k \in Nat, k \in P
      PROVE  k + 1 \in P
  <2> HIDE DEF T
  <2> SUFFICES ASSUME k + 1 <= N PROVE \E f : IsOrder(nodes, T(k + 1), f)
    OBVIOUS
  <2>1. PICK f : IsOrder(nodes, T(k), f)
    BY <1>1, <1>3
  <2> USE DEF T
  <2> DEFINE lists(g, n) == [i \in DOMAIN n.inputs |-> g[NodeOf(nodes, n.inputs[i])]]
             h == [n \in T(k + 1) |-> OrderStep(n, lists(f, n))]
  <2>2. ASSUME NEW n \in T(k + 1), NEW i \in DOMAIN n.inputs
        PROVE  NodeOf(nodes, n.inputs[i]) \in T(k)
    <3>1. PICK j \in 1 .. k + 1 : n = nodes[j]
      OBVIOUS
    <3>2. j \in DOMAIN nodes
      BY <1>1
    <3>3. PICK m \in 1 .. j - 1 : NodeOf(nodes, n.inputs[i]) = nodes[m]
      BY <2>2, <3>1, <3>2, InputNodes
    <3>4. m \in 1 .. k
      OBVIOUS
    <3> QED
      BY <3>3, <3>4
  <2>3. T(k) \subseteq T(k + 1)
    OBVIOUS
  <2>4. \A n \in T(k) : f[n] = OrderStep(n, lists(f, n))
    BY <2>1, Zenon DEF IsOrder
  <2>5. \A n \in T(k) : h[n] = f[n]
    <3> HIDE DEF T, lists
    <3> QED
      BY <2>3, <2>4
  <2>6. \A n \in T(k + 1) : lists(h, n) = lists(f, n)
    <3> HIDE DEF h, T
    <3> QED
      BY <2>2, <2>5
  <2>7. h = [n \in T(k + 1) |-> OrderStep(n, lists(h, n))]
    <3> HIDE DEF T, lists
    <3>1. DOMAIN h = T(k + 1)
      OBVIOUS
    <3> QED
      BY <2>6
  <2>8. IsOrder(nodes, T(k + 1), h)
    <3> HIDE DEF h, T
    <3> QED
      BY <2>7 DEF IsOrder
  <2> HIDE DEF h
  <2> QED
    BY <2>8
<1> HIDE DEF P
<1>4. N \in P
  BY <1>1, <1>2, <1>3, CountingUp
<1>5. T(N) = ToSet(nodes)
  BY <1>1 DEF ToSet
<1> HIDE DEF T
<1> QED
  BY <1>1, <1>4, <1>5 DEF P

(* All that a query needs is there, and before it. *)
LEMMA NeededInOrder ==
  ASSUME NEW nodes, Linked(nodes), NEW m \in ToSet(nodes)
  PROVE  /\ Needed(nodes, m.id) \in Seq(ToSet(nodes)) /\ m \in ToSet(Needed(nodes, m.id))
         /\ InOrder(Needed(nodes, m.id), InputsAmong(nodes))
<1> DEFINE N == Len(nodes)
           T == ToSet(nodes)
           R == InputsAmong(nodes)
           order == CHOOSE f : IsOrder(nodes, T, f)
           Claim(n) == order[n] \in Seq(T) /\ n \in ToSet(order[n]) /\ InOrder(order[n], R)
           P == {k \in Nat : k <= N => \A i \in 1 .. k : Claim(nodes[i])}
<1>1. N \in Nat /\ DOMAIN nodes = 1 .. N /\ \A i \in 1 .. N : nodes[i] \in T /\ WellMade(nodes[i])
  BY DEF Linked, ToSet
<1>2. IsOrder(nodes, T, order)
  BY OrderExists
<1>3. Needed(nodes, m.id) = Once(order[NodeOf(nodes, m.id)])
  BY Zenon DEF Needed, IsOrder, OrderStep
<1> HIDE DEF order
<1>4. \A n \in T : order[n] = OrderStep(n, [i \in DOMAIN n.inputs |-> order[NodeOf(nodes, n.inputs[i])]])
  BY <1>2, Zenon DEF IsOrder
<1> HIDE DEF N, T, R
<1>5. 0 \in P
  OBVIOUS
<1>6. ASSUME NEW k \in Nat, k \in P
      PROVE  k + 1 \in P
  <2> SUFFICES ASSUME k + 1 <= N PROVE Claim(nodes[k + 1])
    <3>1. \A i \in 1 .. k + 1 : i \in 1 .. k \/ i = k + 1
      OBVIOUS
    <3>2. k + 1 <= N => \A i \in 1 .. k : Claim(nodes[i])
      BY <1>1, <1>6
    <3> HIDE DEF Claim
    <3> QED
      BY <3>1, <3>2
  <2> DEFINE n == nodes[k + 1]
             lists == [i \in DOMAIN n.inputs |-> order[NodeOf(nodes, n.inputs[i])]]
  <2>1. /\ k + 1 \in DOMAIN nodes /\ n \in T /\ WellMade(n) /\ (k + 1) - 1 = k
        /\ \A i \in 1 .. k : Claim(nodes[i])
    <3> HIDE DEF Claim
    <3> QED
      BY <1>1, <1>6
  <2>2. order[n] = OrderStep(n, lists)
    BY <1>4, <2>1
  <2>3. CASE n.kind = "materialize"
    <3>1. order[n] = Append(<<>>, n)
      BY <2>2, <2>3 DEF OrderStep
    <3>2. \A y : <<n, y>> \notin R
      BY <2>3 DEF R, InputsAmong
    <3>3. <<>> \in Seq(T) /\ InOrder(<<>>, R) /\ ToSet(<<>>) = {}
      BY DEF InOrder, ToSet
    <3>4. /\ Append(<<>>, n) \in Seq(T) /\ ToSet(Append(<<>>, n)) = ToSet(<<>>) \cup {n}
          /\ InOrder(Append(<<>>, n), R)
      <4> HIDE DEF n
      <4> QED
        BY <2>1, <3>2, <3>3, AppendedInOrder
    <3> QED
      BY <3>1, <3>4
  <2>4. CASE n.kind # "materialize"
    <3>1. DOMAIN n.inputs = 1 .. Len(n.inputs) /\ Len(n.inputs) \in Nat
      BY <2>1 DEF WellMade
    <3>2. ASSUME NEW i \in DOMAIN n.inputs
          PROVE  /\ lists[i] \in Seq(T) /\ InOrder(lists[i], R)
                 /\ \A y \in T : y.id = n.inputs[i] => y \in ToSet(lists[i])
      <4>1. PICK j \in 1 .. (k + 1) - 1 : /\ j \in DOMAIN nodes /\ NodeOf(nodes, n.inputs[i]) = nodes[j]
                                          /\ nodes[j].id = n.inputs[i]
        BY <2>1, InputNodes
      <4>2. lists[i] = order[nodes[j]]
        BY <4>1
      <4>3. Claim(nodes[j])
        <5> HIDE DEF Claim
        <5> QED
          BY <2>1
      <4>4. \A y \in T : y.id = nodes[j].id => y = nodes[j]
        BY <1>1, <4>1 DEF Linked, T, ToSet
      <4> HIDE DEF lists, n
      <4> QED
        BY <4>1, <4>2, <4>3, <4>4
    <3>3. lists \in Seq(Seq(T)) /\ DOMAIN lists = DOMAIN n.inputs
      <4>1. \A i \in DOMAIN n.inputs : order[NodeOf(nodes, n.inputs[i])] \in Seq(T)
        BY <3>2
      <4> HIDE DEF n
      <4> QED
        BY <3>1, <4>1
    <3> DEFINE flat == FlattenSeq(lists)
    <3>4. flat \in Seq(T) /\ ToSet(flat) = UNION {ToSet(lists[i]) : i \in DOMAIN lists} /\ InOrder(flat, R)
      <4> HIDE DEF lists
      <4> QED
        BY <3>2, <3>3, Flattened
    <3>5. \A y : <<n, y>> \in R => y \in ToSet(flat)
      <4> SUFFICES ASSUME NEW y, <<n, y>> \in R PROVE y \in ToSet(flat)
        OBVIOUS
      <4>1. y \in T /\ y.id \in ToSet(n.inputs)
        BY DEF R, InputsAmong, T
      <4>2. PICK i \in DOMAIN n.inputs : y.id = n.inputs[i]
        BY <4>1 DEF ToSet
      <4>3. y \in ToSet(lists[i])
        BY <3>2, <4>1, <4>2
      <4> HIDE DEF lists, flat
      <4> QED
        BY <3>3, <3>4, <4>3
    <3>6. order[n] = flat \o <<n>>
      BY <2>2, <2>4 DEF OrderStep
    <3> HIDE DEF flat, lists, n
    <3>7. flat \o <<n>> = Append(flat, n)
      BY <3>4, <2>1
    <3>8. /\ Append(flat, n) \in Seq(T) /\ ToSet(Append(flat, n)) = ToSet(flat) \cup {n}
          /\ InOrder(Append(flat, n), R)
      BY <2>1, <3>4, <3>5, AppendedInOrder
    <3> QED
      BY <3>6, <3>7, <3>8 DEF n
  <2> QED
    BY <2>3, <2>4
<1> HIDE DEF P
<1>7. N \in P
  BY <1>1, <1>5, <1>6, CountingUp
<1>8. \A n \in T : Claim(n)
  <2> HIDE DEF Claim
  <2> QED
    BY <1>1, <1>7 DEF P, T, ToSet
<1>9. NodeOf(nodes, m.id) = m /\ Claim(m)
  <2> HIDE DEF Claim
  <2> QED
    BY <1>8, NodeOfId DEF T
<1> QED
  BY <1>3, <1>9, OnceInOrder DEF R, T

-------------------------------------------------------------------------------
(* What the statements compute *)

(* A query gives the rows of the node it selects from, when the tables it reads hold
   those of theirs. *)
LEMMA SelectGives ==
  ASSUME NEW nodes, Linked(nodes), NEW w, NEW v, Valued(nodes, v, w),
         NEW m \in ToSet(nodes), m.kind = "materialize", NEW tables,
         Statement(nodes, m).reads \subseteq DOMAIN tables,
         \A x \in DOMAIN tables : tables[x] = v[x]
  PROVE  Select(Statement(nodes, m), tables, w) = v[m.inputs[1]]
<1> DEFINE s == Statement(nodes, m)
           T == ToSet(nodes)
           needed == Needed(nodes, m.inputs[1])
           queries == {n \in ToSet(needed) : n.kind # "materialize"}
           N == Len(s.with)
<1>1. PICK j \in DOMAIN nodes : m = nodes[j]
  BY DEF ToSet
<1>2. 1 \in DOMAIN m.inputs
  BY DEF Linked, WellMade
<1>3. PICK k \in DOMAIN nodes : nodes[k].id = m.inputs[1]
  BY <1>1, <1>2, InputNodes
<1>4. nodes[k] \in T
  BY DEF ToSet
<1>5. needed \in Seq(T) /\ nodes[k] \in ToSet(needed) /\ InOrder(needed, InputsAmong(nodes))
  BY <1>3, <1>4, NeededInOrder
<1>6. /\ s.target = m.id /\ s.from = m.inputs[1] /\ s.with = Those(needed, queries)
      /\ s.reads = {n.id : n \in {x \in ToSet(needed) : x.kind = "materialize"}}
  BY DEF Statement
<1> HIDE DEF needed, s
<1>7. /\ s.with \in Seq(T) /\ ToSet(s.with) = ToSet(needed) \cap queries
      /\ InOrder(s.with, Within(InputsAmong(nodes), queries))
  <2> HIDE DEF T, queries
  <2>1. /\ Those(needed, queries) \in Seq(T) /\ ToSet(Those(needed, queries)) = ToSet(needed) \cap queries
        /\ InOrder(Those(needed, queries), Within(InputsAmong(nodes), queries))
    BY <1>5, ThoseInOrder
  <2> QED
    BY <1>6, <2>1
<1>8. N \in Nat /\ DOMAIN s.with = 1 .. N /\ \A i \in 1 .. N : s.with[i] \in T
  BY <1>7
<1>9. PICK env : /\ Select(s, tables, w) = env[N][s.from] /\ env[0] = tables
                 /\ \A i \in 1 .. N : env[i] = SelectNext(s, tables, w, i, env[i - 1])
  BY <1>8, SelectSteps
<1> HIDE DEF N
<1> DEFINE Claim(n) == /\ DOMAIN tables \subseteq DOMAIN env[n]
                       /\ \A i \in 1 .. n : s.with[i].id \in DOMAIN env[n]
                       /\ \A x \in DOMAIN env[n] : env[n][x] = v[x]
           P == {n \in Nat : n <= N => Claim(n)}
(* What a node of the clause reads is there when its turn comes. *)
<1>10. ASSUME NEW i \in 1 .. N, NEW x \in ToSet(s.with[i].inputs)
       PROVE  x \in s.reads \/ \E l \in 1 .. i - 1 : l \in 1 .. N /\ s.with[l].id = x
  <2>1. s.with[i] \in T /\ s.with[i].kind # "materialize" /\ s.with[i] \in ToSet(needed)
    BY <1>7, <1>8 DEF ToSet
  <2>2. PICK a \in DOMAIN nodes : s.with[i] = nodes[a]
    BY <2>1 DEF ToSet
  <2>3. x \in Ids(nodes, a - 1)
    BY <2>2 DEF Linked
  <2>4. PICK b \in 1 .. a - 1 : nodes[b].id = x
    BY <2>3 DEF Ids
  <2>5. nodes[b] \in T
    <3>1. Len(nodes) \in Nat /\ DOMAIN nodes = 1 .. Len(nodes)
      BY DEF Linked
    <3>2. b \in DOMAIN nodes
      BY <3>1
    <3> QED
      BY <3>2 DEF ToSet
  <2>6. <<s.with[i], nodes[b]>> \in InputsAmong(nodes)
    BY <2>1, <2>4, <2>5 DEF InputsAmong
  <2>7. nodes[b] \in ToSet(needed)
    <3>1. PICK c \in DOMAIN needed : needed[c] = s.with[i]
      BY <2>1 DEF ToSet
    <3>2. PICK e \in DOMAIN needed : needed[e] = nodes[b]
      BY <1>5, <2>6, <3>1 DEF InOrder
    <3> QED
      BY <3>2 DEF ToSet
  <2>8. CASE nodes[b].kind = "materialize"
    BY <1>6, <2>4, <2>7, <2>8
  <2>9. CASE nodes[b].kind # "materialize"
    <3>1. nodes[b] \in queries
      BY <2>7, <2>9
    <3> HIDE DEF queries
    <3>2. <<s.with[i], nodes[b]>> \in Within(InputsAmong(nodes), queries)
      BY <2>6, <3>1 DEF Within
    <3>3. i \in DOMAIN s.with
      BY <1>8
    <3>4. PICK l \in DOMAIN s.with : l < i /\ s.with[l] = nodes[b]
      BY <1>7, <3>2, <3>3 DEF InOrder
    <3>5. l \in 1 .. i - 1 /\ l \in 1 .. N
      BY <1>8, <3>4
    <3> QED
      BY <2>4, <3>4, <3>5
  <2> QED
    BY <2>8, <2>9
<1>11. 0 \in P
  <2>1. 1 .. 0 = {}
    OBVIOUS
  <2> QED
    BY <1>9, <2>1
<1>12. ASSUME NEW n \in Nat, n \in P
       PROVE  n + 1 \in P
  <2> SUFFICES ASSUME n + 1 <= N PROVE Claim(n + 1)
    OBVIOUS
  <2>1. Claim(n)
    BY <1>8, <1>12
  <2>2. /\ n + 1 \in 1 .. N /\ (n + 1) - 1 = n
        /\ \A i : i \in 1 .. n + 1 <=> i \in 1 .. n \/ i = n + 1
    BY <1>8
  <2> DEFINE e == env[n]
             q == s.with[n + 1]
             u == RowsOf(q, e, w)
  <2>3. env[n + 1] = With(e, q.id, u)
    BY <1>9, <2>2 DEF SelectNext
  <2>4. q \in T /\ WellMade(q)
    BY <1>8, <2>2 DEF Linked
  <2>5. \A x \in ToSet(q.inputs) : e[x] = v[x]
    <3> SUFFICES ASSUME NEW x \in ToSet(q.inputs) PROVE x \in DOMAIN e
      BY <2>1
    <3>1. x \in s.reads \/ \E l \in 1 .. n : l \in 1 .. N /\ s.with[l].id = x
      BY <1>10, <2>2
    <3>2. s.reads \subseteq DOMAIN tables
      BY DEF s
    <3> QED
      BY <2>1, <3>1, <3>2
  <2>6. u = v[q.id]
    <3>1. u = RowsOf(q, v, w)
      <4> HIDE DEF e, q
      <4> QED
        BY <2>4, <2>5, RowsOfInputs
    <3> HIDE DEF u
    <3> QED
      BY <2>4, <3>1 DEF Valued
  <2> DEFINE new == env[n + 1]
  <2> HIDE DEF u, e, q, new
  <2>10. new = With(e, q.id, u)
    BY <2>3 DEF new
  <2>7. DOMAIN new = DOMAIN e \cup {q.id}
    BY <2>10, WithDomain
  <2>8. new[q.id] = u
    BY <2>10, WithNew
  <2>9. \A x \in DOMAIN e : x # q.id => new[x] = e[x]
    BY <2>10, WithOld
  <2> QED
    BY <2>1, <2>2, <2>6, <2>7, <2>8, <2>9 DEF e, q, new
<1> HIDE DEF P
<1>13. N \in P
  BY <1>8, <1>11, <1>12, CountingUp
<1>14. Claim(N)
  <2> HIDE DEF Claim
  <2> QED
    BY <1>8, <1>13 DEF P
<1>15. m.inputs[1] \in DOMAIN env[N]
  <2>1. CASE nodes[k].kind = "materialize"
    <3>1. nodes[k].id \in s.reads
      BY <1>5, <1>6, <2>1
    <3> QED
      BY <1>3, <1>14, <3>1 DEF s
  <2>2. CASE nodes[k].kind # "materialize"
    <3>1. nodes[k] \in ToSet(s.with)
      BY <1>5, <1>7, <2>2
    <3>2. PICK i \in 1 .. N : s.with[i] = nodes[k]
      BY <1>8, <3>1 DEF ToSet
    <3> QED
      BY <1>3, <1>14, <3>2
  <2> QED
    BY <2>1, <2>2
<1> QED
  BY <1>6, <1>9, <1>14, <1>15 DEF s

(* The statements for some of the materialized nodes, each over tables that were
   created before. *)
Compiled(nodes, statements) ==
  /\ statements \in Seq(ToSet(statements))
  /\ \A i \in DOMAIN statements :
       /\ \E m \in ToSet(nodes) : m.kind = "materialize" /\ statements[i] = Statement(nodes, m)
       /\ statements[i].reads \subseteq {statements[j].target : j \in 1 .. i - 1}

(* The last table holds the rows of the node it was made for. *)
LEMMA ExecuteGives ==
  ASSUME NEW nodes, Linked(nodes), NEW w, NEW v, Valued(nodes, v, w),
         NEW statements, Compiled(nodes, statements), statements # <<>>
  PROVE  Execute(statements, w) = v[Last(statements).target]
<1> DEFINE N == Len(statements)
<1>1. N \in Nat /\ N # 0 /\ DOMAIN statements = 1 .. N
  BY DEF Compiled
<1>2. PICK after : /\ Execute(statements, w) = after[N][Last(statements).target] /\ after[0] = <<>>
                   /\ \A i \in 1 .. N : after[i] = ExecuteNext(statements, w, i, after[i - 1])
  BY <1>1, ExecuteSteps
<1> HIDE DEF N
<1> DEFINE Claim(n) == /\ DOMAIN after[n] = {statements[j].target : j \in 1 .. n}
                       /\ \A x \in DOMAIN after[n] : after[n][x] = v[x]
           P == {n \in Nat : n <= N => Claim(n)}
<1>3. 0 \in P
  <2>1. 1 .. 0 = {} /\ DOMAIN <<>> = {}
    OBVIOUS
  <2> QED
    BY <1>2, <2>1
<1>4. ASSUME NEW n \in Nat, n \in P
      PROVE  n + 1 \in P
  <2> SUFFICES ASSUME n + 1 <= N PROVE Claim(n + 1)
    OBVIOUS
  <2>1. Claim(n)
    BY <1>1, <1>4
  <2>2. /\ n + 1 \in 1 .. N /\ (n + 1) - 1 = n /\ n + 1 \in DOMAIN statements
        /\ \A i : i \in 1 .. n + 1 <=> i \in 1 .. n \/ i = n + 1
    BY <1>1
  <2> DEFINE e == after[n]
             s == statements[n + 1]
             u == Select(s, e, w)
  <2>3. after[n + 1] = With(e, s.target, u)
    BY <1>2, <2>2 DEF ExecuteNext
  <2>4. PICK m \in ToSet(nodes) : m.kind = "materialize" /\ s = Statement(nodes, m)
    BY <2>2 DEF Compiled
  <2>5. s.reads \subseteq DOMAIN e
    BY <2>1, <2>2 DEF Compiled
  <2>6. s.target = m.id
    BY <2>4 DEF Statement
  <2>7. u = v[m.inputs[1]]
    <3> HIDE DEF e, s
    <3> QED
      BY <2>1, <2>4, <2>5, SelectGives DEF e
  <2>8. v[m.id] = v[m.inputs[1]]
    <3>1. v[m.id] = RowsOf(m, v, w)
      BY DEF Valued
    <3> QED
      BY <2>4, <3>1 DEF RowsOf
  <2> HIDE DEF u, e, s
  <2>9. DOMAIN after[n + 1] = DOMAIN e \cup {s.target}
    BY <2>3, WithDomain
  <2>10. after[n + 1][s.target] = u
    BY <2>3, WithNew
  <2>11. \A x \in DOMAIN e : x # s.target => after[n + 1][x] = e[x]
    BY <2>3, WithOld
  <2>12. {statements[j].target : j \in 1 .. n + 1} = {statements[j].target : j \in 1 .. n} \cup {s.target}
    BY <2>2 DEF s
  <2> QED
    BY <2>1, <2>6, <2>7, <2>8, <2>9, <2>10, <2>11, <2>12 DEF e, s
<1> HIDE DEF P
<1>5. N \in P
  BY <1>1, <1>3, <1>4, CountingUp
<1>6. Claim(N)
  <2> HIDE DEF Claim
  <2> QED
    BY <1>1, <1>5 DEF P
<1>7. Last(statements) = statements[N] /\ N \in 1 .. N
  BY <1>1 DEF Last, N
<1> QED
  BY <1>2, <1>6, <1>7

-------------------------------------------------------------------------------
(* What the contract says of the nodes *)

(* Plans that pass read earlier nodes only; and there are schemas of their nodes, the
   ones that were there when each was looked at. *)
LEMMA ContractLinks ==
  ASSUME NEW nodes, nodes \in Seq(ToSet(nodes)), \A n \in ToSet(nodes) : WellMade(n), SchemasOf(nodes).ok
  PROVE  /\ Linked(nodes)
         /\ \E S : \A n \in ToSet(nodes) :
              /\ n.kind = "scan" => S[n.id] = [c \in ToSet(NamesOf(n)) |-> TypeOf[c[2]]]
              /\ n.kind = "filter" => S[n.id] = S[n.inputs[1]]
              /\ n.kind = "union" => \A i \in DOMAIN n.columns : \A j \in ToSet(n.inputs) :
                                       n.columns[i].from \in DOMAIN S[j]
<1> DEFINE N == Len(nodes)
<1>1. N \in Nat /\ DOMAIN nodes = 1 .. N /\ \A i \in 1 .. N : nodes[i] \in ToSet(nodes) /\ WellMade(nodes[i])
  BY DEF ToSet
<1>2. PICK f : /\ SchemasOf(nodes) = f[N] /\ f[0] = NoSchemas
               /\ \A i \in 1 .. N : f[i] = SchemasNext(nodes, i, f[i - 1])
  BY <1>1, SchemasSteps
<1> HIDE DEF N
(* What is not refused in the end was never refused. *)
<1>3. ASSUME NEW i \in 1 .. N, f[i].ok
      PROVE  /\ f[i - 1].ok /\ NodeOk(nodes[i], f[i - 1].of)
             /\ f[i].of = With(f[i - 1].of, nodes[i].id, OutputOf(nodes[i], f[i - 1].of))
  <2> DEFINE r == f[i - 1]
             n == nodes[i]
  <2>1. f[i] = Checked(r, n)
    BY <1>2 DEF SchemasNext
  <2> HIDE DEF r, n
  <2>2. ~(r.ok /\ NodeOk(n, r.of)) => ~f[i].ok
    <3> SUFFICES ASSUME ~(r.ok /\ NodeOk(n, r.of)), [r EXCEPT !.ok = FALSE].ok PROVE FALSE
      BY <1>3, <2>1 DEF Checked
    <3> QED
      OBVIOUS
  <2>3. r.ok /\ NodeOk(n, r.of)
    BY <1>3, <2>2
  <2>4. f[i] = [ok |-> TRUE, of |-> With(r.of, n.id, OutputOf(n, r.of))]
    BY <2>1, <2>3 DEF Checked
  <2> QED
    BY <2>3, <2>4 DEF r, n
<1> DEFINE Claim(n) == /\ DOMAIN f[n].of = Ids(nodes, n)
                       /\ \A i \in 1 .. n :
                            /\ f[i].ok
                            /\ f[n].of[nodes[i].id] = OutputOf(nodes[i], f[i - 1].of)
                            /\ \A x \in Ids(nodes, i - 1) : f[n].of[x] = f[i - 1].of[x]
           P == {n \in Nat : n <= N /\ f[n].ok => Claim(n)}
<1>4. 0 \in P
  <2>1. f[0].of = <<>>
    BY <1>2 DEF NoSchemas
  <2>2. Ids(nodes, 0) = {} /\ DOMAIN <<>> = {} /\ 1 .. 0 = {}
    BY DEF Ids
  <2>3. Claim(0)
    BY <2>1, <2>2
  <2> QED
    BY <2>3
<1>5. ASSUME NEW n \in Nat, n \in P
      PROVE  n + 1 \in P
  <2> HIDE DEF Claim
  <2> SUFFICES ASSUME n + 1 <= N, f[n + 1].ok PROVE Claim(n + 1)
    OBVIOUS
  <2> USE DEF Claim
  <2>1. /\ n + 1 \in 1 .. N /\ (n + 1) - 1 = n /\ n <= N
        /\ \A i : i \in 1 .. n + 1 <=> i \in 1 .. n \/ i = n + 1
    BY <1>1
  <2> DEFINE old == f[n].of
             node == nodes[n + 1]
             out == OutputOf(node, old)
  <2>2. f[n].ok /\ NodeOk(node, old) /\ f[n + 1].of = With(old, node.id, out)
    BY <1>3, <2>1
  <2>3. Claim(n)
    <3> HIDE DEF Claim
    <3> QED
      BY <1>5, <2>1, <2>2
  <2>4. node.id \notin DOMAIN old
    BY <2>2 DEF NodeOk
  <2> DEFINE new == f[n + 1].of
  <2>5. new = With(old, node.id, out)
    BY <2>2
  <2>6. Ids(nodes, n + 1) = Ids(nodes, n) \cup {node.id}
    BY <2>1 DEF Ids
  <2> HIDE DEF out, old, node, new
  <2>7. DOMAIN new = DOMAIN old \cup {node.id}
    BY <2>5, WithDomain
  <2>8. new[node.id] = out
    BY <2>5, WithNew
  <2>9. \A x \in DOMAIN old : x # node.id => new[x] = old[x]
    BY <2>5, WithOld
  <2>10. \A x \in DOMAIN old : new[x] = old[x]
    BY <2>4, <2>9
  <2>11. DOMAIN new = Ids(nodes, n + 1) /\ DOMAIN old = Ids(nodes, n)
    BY <2>3, <2>6, <2>7 DEF old
  <2>12. ASSUME NEW i \in 1 .. n + 1
         PROVE  /\ f[i].ok
                /\ new[nodes[i].id] = OutputOf(nodes[i], f[i - 1].of)
                /\ \A x \in Ids(nodes, i - 1) : new[x] = f[i - 1].of[x]
    <3>1. CASE i = n + 1
      BY <2>1, <2>2, <2>8, <2>10, <2>11, <3>1 DEF node, old, out
    <3>2. CASE i \in 1 .. n
      <4>1. nodes[i].id \in DOMAIN old /\ Ids(nodes, i - 1) \subseteq DOMAIN old
        BY <2>11, <3>2 DEF Ids
      <4>2. /\ f[i].ok /\ old[nodes[i].id] = OutputOf(nodes[i], f[i - 1].of)
            /\ \A x \in Ids(nodes, i - 1) : old[x] = f[i - 1].of[x]
        BY <2>3, <3>2 DEF old
      <4> QED
        BY <2>10, <4>1, <4>2
    <3> QED
      BY <2>1, <3>1, <3>2
  <2> QED
    BY <2>11, <2>12 DEF new
<1> HIDE DEF P
<1>6. \A n \in 0 .. N : n \in P
  BY <1>1, <1>4, <1>5, CountingUp
<1>7. Claim(N)
  <2> HIDE DEF Claim
  <2> QED
    BY <1>1, <1>2, <1>6 DEF P
<1>8. ASSUME NEW i \in 1 .. N
      PROVE  /\ DOMAIN f[i - 1].of = Ids(nodes, i - 1) /\ NodeOk(nodes[i], f[i - 1].of)
  <2>1. f[i].ok
    BY <1>7
  <2>2. f[i - 1].ok /\ NodeOk(nodes[i], f[i - 1].of)
    BY <1>3, <2>1
  <2>3. i - 1 \in 0 .. N /\ i - 1 \in Nat /\ i - 1 <= N
    BY <1>1
  <2>4. Claim(i - 1)
    <3> HIDE DEF Claim
    <3> QED
      BY <1>6, <2>2, <2>3 DEF P
  <2> QED
    BY <2>2, <2>4
<1>9. Linked(nodes)
  <2>1. ASSUME NEW i \in 1 .. N, NEW j \in 1 .. N, nodes[i].id = nodes[j].id
        PROVE  ~ i < j
    <3> SUFFICES ASSUME i < j PROVE FALSE
      OBVIOUS
    <3>1. nodes[i].id \in Ids(nodes, j - 1)
      BY <1>1 DEF Ids
    <3>2. nodes[j].id \notin Ids(nodes, j - 1)
      BY <1>8 DEF NodeOk
    <3> QED
      BY <2>1, <3>1, <3>2
  <2>2. \A i, j \in 1 .. N : nodes[i].id = nodes[j].id => i = j
    BY <2>1
  <2>3. \A i \in 1 .. N : ToSet(nodes[i].inputs) \subseteq Ids(nodes, i - 1)
    BY <1>8 DEF NodeOk
  <2> QED
    BY <1>1, <2>2, <2>3 DEF Linked
<1> DEFINE S == f[N].of
<1>10. ASSUME NEW n \in ToSet(nodes)
       PROVE  /\ n.kind = "scan" => S[n.id] = [c \in ToSet(NamesOf(n)) |-> TypeOf[c[2]]]
              /\ n.kind = "filter" => S[n.id] = S[n.inputs[1]]
              /\ n.kind = "union" => \A i \in DOMAIN n.columns : \A j \in ToSet(n.inputs) :
                                       n.columns[i].from \in DOMAIN S[j]
  <2>1. PICK i \in 1 .. N : n = nodes[i]
    BY <1>1 DEF ToSet
  <2> DEFINE e == f[i - 1].of
  <2>2. S[n.id] = OutputOf(n, e) /\ \A x \in Ids(nodes, i - 1) : S[x] = e[x]
    BY <1>7, <2>1
  <2>3. NodeOk(n, e) /\ ToSet(n.inputs) \subseteq Ids(nodes, i - 1) /\ WellMade(n)
    <3>1. NodeOk(nodes[i], f[i - 1].of) /\ WellMade(nodes[i])
      BY <1>1, <1>8, <2>1
    <3>2. ToSet(nodes[i].inputs) \subseteq Ids(nodes, i - 1)
      BY <1>8, <2>1 DEF NodeOk
    <3> QED
      BY <2>1, <3>1, <3>2
  <2> HIDE DEF e, S
  <2>4. n.kind = "scan" => S[n.id] = [c \in ToSet(NamesOf(n)) |-> TypeOf[c[2]]]
    BY <2>2 DEF OutputOf
  <2>5. ASSUME n.kind = "filter" PROVE S[n.id] = S[n.inputs[1]]
    <3>1. n.inputs[1] \in ToSet(n.inputs)
      BY <2>3, <2>5 DEF WellMade, ToSet
    <3>2. S[n.id] = e[n.inputs[1]]
      BY <2>2, <2>5 DEF OutputOf
    <3> QED
      BY <2>2, <2>3, <3>1, <3>2
  <2>6. ASSUME n.kind = "union", NEW k \in DOMAIN n.columns, NEW j \in ToSet(n.inputs)
        PROVE  n.columns[k].from \in DOMAIN S[j]
    <3>1. n.columns[k].from \in DOMAIN e[j]
      BY <2>3, <2>6 DEF NodeOk
    <3> QED
      BY <2>2, <2>3, <3>1
  <2> QED
    BY <2>4, <2>5, <2>6
<1> HIDE DEF S
<1> QED
  BY <1>9, <1>10

-------------------------------------------------------------------------------
(* Answers that pass *)

(* Tables and what stands for them. *)
LEMMA DraftPasses ==
  ASSUME NEW d, Diagnosis(d) = "ok"
  PROVE  /\ d.objects \subseteq Tables /\ d.families \subseteq DOMAIN Members
         /\ \A f \in d.families : Members[f] \subseteq Tables
         /\ \A f \in ToSet(d.requested) : f[1] \in Selected(d)
         /\ \A j \in ToSet(d.joins) : j.left[1] \in Selected(d) /\ j.right[1] \in Selected(d)
         /\ JoinsMakeSense(d)
         /\ \A i \in ToSet(d.filters) : \A f \in i.leaves : f[1] \in Selected(d)
         /\ \A i \in ToSet(d.filters) : i.scope = "match" => Cardinality({f[1] : f \in i.leaves}) = 1
<1>1. FirstFailure(PlainChecks(d)) = "ok" /\ FirstFailure(BoundChecks(d)) = "ok"
  BY DEF Diagnosis
<1> DEFINE a == PlainChecks(d)
           b == BoundChecks(d)
<1>2. /\ a[3][2] = (d.objects \subseteq Tables) /\ a[4][2] = (d.families \subseteq DOMAIN Members)
      /\ a[5][2] = (\A f \in d.families \cap DOMAIN Members : Members[f] \subseteq Tables)
  BY DEF PlainChecks
<1>3. DOMAIN a = 1 .. 5 /\ \A i \in 1 .. 5 : a[i][1] # "ok"
  BY DEF PlainChecks
<1>4. /\ b[3][2] = (\A f \in ToSet(d.requested) : Known(f) /\ f[1] \in Selected(d))
      /\ b[4][2] = (\A j \in ToSet(d.joins) : /\ Known(j.left) /\ j.left[1] \in Selected(d)
                                              /\ Known(j.right) /\ j.right[1] \in Selected(d))
      /\ b[7][2] = JoinsMakeSense(d)
      /\ b[9][2] = (\A i \in ToSet(d.filters) : \A f \in i.leaves : Known(f) /\ f[1] \in Selected(d))
      /\ b[11][2] = (\A i \in ToSet(d.filters) : i.scope = "match" => Cardinality({f[1] : f \in i.leaves}) = 1)
  BY DEF BoundChecks
<1>5. DOMAIN b = 1 .. 18 /\ \A i \in 1 .. 18 : b[i][1] # "ok"
  BY DEF BoundChecks
<1> HIDE DEF a, b
<1>6. \A i \in 1 .. 5 : a[i][2]
  BY <1>1, <1>3, ChecksHold DEF a
<1>7. \A i \in 1 .. 18 : b[i][2]
  BY <1>1, <1>5, ChecksHold DEF b
<1>8. a[3][2] /\ a[4][2] /\ a[5][2]
  BY <1>6
<1>9. b[3][2] /\ b[4][2] /\ b[7][2] /\ b[9][2] /\ b[11][2]
  BY <1>7
<1> QED
  BY <1>2, <1>4, <1>8, <1>9

(* An answer that has a plan. *)
Usable(d) == d \in Drafts /\ Diagnosis(d) = "ok" /\ Convertible(d)

(* A source is a table of its own or a family with its members. *)
LEMMA KeysOfTables ==
  ASSUME NEW d, Usable(d)
  PROVE  /\ Selected(d) \subseteq Tables /\ IsFiniteSet(Selected(d)) /\ IsFiniteSet(d.families)
         /\ \A o \in Selected(d) : Key(d, o) \in Sources(d)
         /\ \A o \in Selected(d) : Key(d, o) \in d.families => o \in Members[Key(d, o)] /\ o \notin Sources(d)
         /\ \A o \in Selected(d) : Key(d, o) \notin d.families => Key(d, o) = o
         /\ \A s \in Sources(d) \ d.families :
              s \in Selected(d) /\ Key(d, s) = s /\ \A o \in Selected(d) : Key(d, o) = s => o = s
         /\ \A f \in d.families : Members[f] \subseteq Selected(d) /\ IsFiniteSet(Members[f])
<1>1. /\ d.objects \subseteq Tables /\ d.families \subseteq DOMAIN Members
      /\ \A f \in d.families : Members[f] \subseteq Tables
  BY DraftPasses DEF Usable
<1>2. DOMAIN FamilyOf(d) = UNION {Members[f] : f \in d.families}
  BY DEF FamilyOf
<1>3. Selected(d) \subseteq Tables /\ \A f \in d.families : Members[f] \subseteq Selected(d)
  BY <1>1, <1>2 DEF Selected
<1>4. \A o \in DOMAIN FamilyOf(d) : FamilyOf(d)[o] \in d.families /\ o \in Members[FamilyOf(d)[o]]
  <2> SUFFICES ASSUME NEW o \in DOMAIN FamilyOf(d)
               PROVE  FamilyOf(d)[o] \in d.families /\ o \in Members[FamilyOf(d)[o]]
    OBVIOUS
  <2>1. \E f \in d.families : o \in Members[f]
    BY <1>2
  <2>2. FamilyOf(d)[o] = CHOOSE f \in d.families : o \in Members[f]
    BY DEF FamilyOf
  <2> QED
    BY <2>1, <2>2
<1>5. d.families \cap Tables = {}
  BY <1>1, AnswerAssumption
<1>6. /\ \A o \in DOMAIN FamilyOf(d) : Key(d, o) \in d.families /\ o \in Members[Key(d, o)]
      /\ \A o \in Selected(d) \ DOMAIN FamilyOf(d) : Key(d, o) = o
  BY <1>4 DEF Key
<1>7. \A o \in Selected(d) : Key(d, o) \notin d.families => o \notin DOMAIN FamilyOf(d) /\ Key(d, o) = o
  BY <1>6
<1>8. \A o \in Selected(d) : Key(d, o) \in d.families => o \in DOMAIN FamilyOf(d)
  BY <1>3, <1>5, <1>6
<1>9. \A s \in Sources(d) \ d.families :
         s \in Selected(d) /\ s \notin DOMAIN FamilyOf(d) /\ Key(d, s) = s /\ \A o \in Selected(d) : Key(d, o) = s => o = s
  <2> SUFFICES ASSUME NEW s \in Sources(d), s \notin d.families
               PROVE  s \in Selected(d) /\ s \notin DOMAIN FamilyOf(d) /\ Key(d, s) = s /\ \A o \in Selected(d) : Key(d, o) = s => o = s
    OBVIOUS
  <2>1. PICK o \in Selected(d) : s = Key(d, o)
    BY DEF Sources
  <2> QED
    BY <1>7, <2>1
<1>10. \A o \in Selected(d) : Key(d, o) \in d.families => o \notin Sources(d)
  BY <1>3, <1>5, <1>8, <1>9
<1>11. /\ IsFiniteSet(Selected(d)) /\ IsFiniteSet(d.families)
       /\ \A f \in d.families : IsFiniteSet(Members[f])
  BY <1>1, <1>3, FiniteParts, AnswerAssumption
<1> QED
  BY <1>3, <1>6, <1>7, <1>8, <1>9, <1>10, <1>11 DEF Sources

(* The fields of a source have a finite list of columns, its partition among them. *)
LEMMA ColumnsListed ==
  ASSUME NEW d, Usable(d), NEW s \in Sources(d)
  PROVE  /\ ColumnsOfSource(d, s) \in Seq(ToSet(ColumnsOfSource(d, s)))
         /\ ToSet(ColumnsOfSource(d, s)) = {<<s, f[2]>> : f \in FieldsOfSource(d, s)}
         /\ <<s, "p">> \in ToSet(ColumnsOfSource(d, s))
<1> DEFINE said == ToSet(d.requested) \cup ToSet(d.groups) \cup ToSet(d.sums)
                   \cup {j.left : j \in ToSet(d.joins)} \cup {j.right : j \in ToSet(d.joins)}
                   \cup (UNION {i.leaves : i \in ToSet(d.filters)})
                   \cup {<<o, "p">> : o \in Selected(d)}
           alike(o, f) == o = f[1] \/ (o \in DOMAIN FamilyOf(d) /\ Key(d, o) = Key(d, f[1]))
           columns == {<<s, f[2]>> : f \in FieldsOfSource(d, s)}
<1>1. IsFiniteSet(said)
  <2>1. /\ IsFiniteSet(ToSet(d.requested)) /\ IsFiniteSet(ToSet(d.groups)) /\ IsFiniteSet(ToSet(d.sums))
        /\ IsFiniteSet(ToSet(d.joins)) /\ IsFiniteSet(ToSet(d.filters))
    BY ListsAreFinite, AnswerAssumption DEF Usable
  <2>2. IsFiniteSet({j.left : j \in ToSet(d.joins)})
    <3> DEFINE g == [j \in ToSet(d.joins) |-> j.left]
    <3>1. {g[j] : j \in ToSet(d.joins)} = {j.left : j \in ToSet(d.joins)}
      OBVIOUS
    <3> HIDE DEF g
    <3>2. IsFiniteSet({g[j] : j \in ToSet(d.joins)})
      BY <2>1, FiniteImage
    <3> QED
      BY <3>1, <3>2
  <2>3. IsFiniteSet({j.right : j \in ToSet(d.joins)})
    <3> DEFINE g == [j \in ToSet(d.joins) |-> j.right]
    <3>1. {g[j] : j \in ToSet(d.joins)} = {j.right : j \in ToSet(d.joins)}
      OBVIOUS
    <3> HIDE DEF g
    <3>2. IsFiniteSet({g[j] : j \in ToSet(d.joins)})
      BY <2>1, FiniteImage
    <3> QED
      BY <3>1, <3>2
  <2>4. IsFiniteSet(UNION {i.leaves : i \in ToSet(d.filters)})
    <3> DEFINE g == [i \in ToSet(d.filters) |-> i.leaves]
    <3>1. {g[i] : i \in ToSet(d.filters)} = {i.leaves : i \in ToSet(d.filters)}
      OBVIOUS
    <3>2. \A T \in {i.leaves : i \in ToSet(d.filters)} : IsFiniteSet(T)
      BY AnswerAssumption DEF Usable
    <3> HIDE DEF g
    <3>3. IsFiniteSet({g[i] : i \in ToSet(d.filters)})
      BY <2>1, FiniteImage
    <3> QED
      BY <3>1, <3>2, <3>3, FS_UNION
  <2>5. IsFiniteSet({<<o, "p">> : o \in Selected(d)})
    <3> DEFINE g == [o \in Selected(d) |-> <<o, "p">>]
    <3>1. {g[o] : o \in Selected(d)} = {<<o, "p">> : o \in Selected(d)}
      OBVIOUS
    <3> HIDE DEF g
    <3>2. IsFiniteSet({g[o] : o \in Selected(d)})
      BY FiniteImage, KeysOfTables
    <3> QED
      BY <3>1, <3>2
  <2> DEFINE a == {j.left : j \in ToSet(d.joins)}
             b == {j.right : j \in ToSet(d.joins)}
             c == UNION {i.leaves : i \in ToSet(d.filters)}
             e == {<<o, "p">> : o \in Selected(d)}
  <2> HIDE DEF a, b, c, e
  <2>6. IsFiniteSet(ToSet(d.requested) \cup ToSet(d.groups) \cup ToSet(d.sums) \cup a)
    BY <2>1, <2>2, FS_Union DEF a
  <2>7. IsFiniteSet(((ToSet(d.requested) \cup ToSet(d.groups) \cup ToSet(d.sums) \cup a) \cup b) \cup c)
    BY <2>3, <2>4, <2>6, FS_Union DEF b, c
  <2>8. IsFiniteSet((((ToSet(d.requested) \cup ToSet(d.groups) \cup ToSet(d.sums) \cup a) \cup b) \cup c) \cup e)
    BY <2>5, <2>7, FS_Union DEF e
  <2> QED
    BY <2>8 DEF a, b, c, e
<1>2. NeededFields(d) = {<<o, f[2]>> : o \in Selected(d), f \in said} \cap
                        UNION {{<<o, f[2]>> : o \in {x \in Selected(d) : alike(x, f)}} : f \in said}
  BY DEF NeededFields
<1> HIDE DEF said
<1>3. IsFiniteSet(columns)
  <2> DEFINE g == [f \in said |-> <<s, f[2]>>]
  <2>1. columns \subseteq {g[f] : f \in said}
    <3> SUFFICES ASSUME NEW f \in FieldsOfSource(d, s) PROVE \E x \in said : <<s, f[2]>> = g[x]
      OBVIOUS
    <3>1. f \in {<<o, x[2]>> : o \in Selected(d), x \in said}
      BY <1>2 DEF FieldsOfSource
    <3>2. PICK o \in Selected(d), x \in said : f = <<o, x[2]>>
      BY <3>1
    <3> QED
      BY <3>2
  <2> HIDE DEF g, columns
  <2>2. IsFiniteSet({g[f] : f \in said})
    BY <1>1, FiniteImage
  <2> QED
    BY <2>1, <2>2, FiniteParts
<1>4. ColumnsOfSource(d, s) = Lists!SetToSeq(columns)
  BY Zenon DEF ColumnsOfSource
<1>5. <<s, "p">> \in columns
  <2>1. PICK o \in Selected(d) : s = Key(d, o)
    BY DEF Sources
  <2>2. <<o, "p">> \in said /\ <<o, "p">>[2] = "p" /\ <<o, "p">>[1] = o
    BY DEF said
  <2>3. alike(o, <<o, "p">>)
    BY <2>2
  <2>4. <<o, "p">> \in NeededFields(d)
    <3> HIDE DEF alike
    <3> QED
      BY <1>2, <2>2, <2>3
  <2>5. <<o, "p">> \in FieldsOfSource(d, s)
    BY <2>1, <2>2, <2>4 DEF FieldsOfSource
  <2> QED
    BY <2>2, <2>5
<1> HIDE DEF columns
<1>6. Lists!SetToSeq(columns) \in Seq(columns) /\ ToSet(Lists!SetToSeq(columns)) = columns
  BY <1>3, SetListed
<1> QED
  BY <1>4, <1>5, <1>6 DEF columns

-------------------------------------------------------------------------------
(* Tests and what they read *)

(* What a test finds at one source, and over all it reads. *)
LeafOf(test, x, w) ==
  IF test.op = "is_null" THEN IF x = Null THEN "T" ELSE "F"
  ELSE IF x = Null THEN "U" ELSE IF w[x] = (IF test.op = "period" THEN "out" ELSE "off") THEN "F" ELSE "T"
Leaves(test, row, w) == {LeafOf(test, row[c[1]], w) : c \in test.reads}
TruthOf(op, leaves) ==
  CASE op = "any" -> IF "T" \in leaves THEN "T" ELSE IF "U" \in leaves THEN "U" ELSE "F"
    [] op = "not" -> IF "F" \in leaves THEN "T" ELSE IF "U" \in leaves THEN "U" ELSE "F"
    [] OTHER -> IF "F" \in leaves THEN "F" ELSE IF "U" \in leaves THEN "U" ELSE "T"

(* A test is the three-valued combination of the truths of its columns. *)
LEMMA TruthIs ==
  ASSUME NEW test, NEW row, NEW w
  PROVE  Truth(test, row, w) = TruthOf(test.op, Leaves(test, row, w))
BY Zenon DEF Truth, TruthOf, Leaves, LeafOf

(* Only the sources a test reads decide it. *)
LEMMA TruthSame ==
  ASSUME NEW test, NEW row, NEW other, NEW w, \A c \in test.reads : row[c[1]] = other[c[1]]
  PROVE  Truth(test, row, w) = Truth(test, other, w)
<1>1. Leaves(test, row, w) = Leaves(test, other, w)
  <2>1. \A c \in test.reads : LeafOf(test, row[c[1]], w) = LeafOf(test, other[c[1]], w)
    OBVIOUS
  <2> QED
    BY <2>1 DEF Leaves
<1> QED
  BY <1>1, TruthIs

(* A filter reads its sources. *)
LEMMA ItemSame ==
  ASSUME NEW d, NEW item, NEW row, NEW other, NEW w,
         \A s \in FilterSources(d, item) : row[s] = other[s]
  PROVE  Truth(ItemTest(d, item), row, w) = Truth(ItemTest(d, item), other, w)
<1> DEFINE t == ItemTest(d, item)
<1>1. t.reads = {Column(d, f) : f \in item.leaves}
  BY DEF ItemTest
<1>2. \A c \in t.reads : c[1] \in FilterSources(d, item)
  BY <1>1 DEF Column, FilterSources
<1> HIDE DEF t
<1>3. Truth(t, row, w) = Truth(t, other, w)
  BY <1>2, TruthSame
<1> QED
  BY <1>3 DEF t

(* A period lets those in that are there and not outside. *)
LEMMA PeriodHolds ==
  ASSUME NEW d, NEW o, NEW row, NEW w
  PROVE  Truth(PeriodTest(d, o), row, w) = "T" <=> row[Key(d, o)] # Null /\ w[row[Key(d, o)]] # "out"
<1> DEFINE t == PeriodTest(d, o)
           x == row[Key(d, o)]
<1>1. t.op = "period" /\ t.reads = {<<Key(d, o), "p">>} /\ <<Key(d, o), "p">>[1] = Key(d, o)
  BY DEF PeriodTest
<1> HIDE DEF t
<1>2. Leaves(t, row, w) = {LeafOf(t, x, w)}
  BY <1>1 DEF Leaves
<1> HIDE DEF x
<1>3. LeafOf(t, x, w) = IF x = Null THEN "U" ELSE IF w[x] = "out" THEN "F" ELSE "T"
  BY <1>1 DEF LeafOf
<1>4. TruthOf("period", {LeafOf(t, x, w)}) = "T" <=> LeafOf(t, x, w) = "T"
  BY <1>3 DEF TruthOf
<1>5. Truth(t, row, w) = TruthOf("period", {LeafOf(t, x, w)})
  BY <1>1, <1>2, TruthIs
<1> QED
  BY <1>3, <1>4, <1>5 DEF t, x

(* A filter has one source or several, and of several only after the joins. *)
LEMMA FilterKinds ==
  ASSUME NEW d, Usable(d), NEW i \in ToSet(d.filters)
  PROVE  /\ FilterSources(d, i) \subseteq Sources(d)
         /\ \/ \E s \in Sources(d) : FilterSources(d, i) = {s} /\ ~Cardinality(FilterSources(d, i)) > 1
            \/ i.scope = "where" /\ Cardinality(FilterSources(d, i)) > 1 /\ ~\E s : FilterSources(d, i) = {s}
<1>1. /\ i.leaves # {} /\ IsFiniteSet(i.leaves) /\ i.scope \in {"match", "where"}
      /\ \A f \in i.leaves : f[1] \in Selected(d)
      /\ i.scope = "match" => Cardinality({f[1] : f \in i.leaves}) = 1
  BY AnswerAssumption, DraftPasses DEF Usable
<1>2. FilterSources(d, i) \subseteq Sources(d) /\ FilterSources(d, i) # {}
  BY <1>1, KeysOfTables DEF FilterSources
<1>3. IsFiniteSet(FilterSources(d, i))
  <2> DEFINE g == [f \in i.leaves |-> Key(d, f[1])]
  <2>1. {g[f] : f \in i.leaves} = FilterSources(d, i)
    BY DEF FilterSources
  <2> HIDE DEF g
  <2>2. IsFiniteSet({g[f] : f \in i.leaves})
    BY <1>1, FiniteImage
  <2> QED
    BY <2>1, <2>2
<1>4. i.scope = "match" => \E s : FilterSources(d, i) = {s}
  <2> SUFFICES ASSUME i.scope = "match" PROVE \E s : FilterSources(d, i) = {s}
    OBVIOUS
  <2> DEFINE tables == {f[1] : f \in i.leaves}
  <2>1. IsFiniteSet(tables) /\ tables # {}
    <3> DEFINE g == [f \in i.leaves |-> f[1]]
    <3>1. {g[f] : f \in i.leaves} = tables
      OBVIOUS
    <3> HIDE DEF g, tables
    <3>2. IsFiniteSet({g[f] : f \in i.leaves})
      BY <1>1, FiniteImage
    <3> QED
      BY <1>1, <3>1, <3>2 DEF tables
  <2>2. PICK o : tables = {o}
    <3>1. Cardinality(tables) = 1
      BY <1>1
    <3> HIDE DEF tables
    <3>2. ~ 1 > 1
      OBVIOUS
    <3> QED
      BY <2>1, <3>1, <3>2, OneOrMore
  <2>3. \A f \in i.leaves : f[1] = o
    BY <2>2
  <2>4. FilterSources(d, i) = {Key(d, o)}
    BY <1>1, <2>3 DEF FilterSources
  <2> QED
    BY <2>4
<1>5. \/ Cardinality(FilterSources(d, i)) > 1 /\ ~\E s : FilterSources(d, i) = {s}
      \/ Cardinality(FilterSources(d, i)) = 1 /\ \E s : FilterSources(d, i) = {s}
  BY <1>2, <1>3, OneOrMore
<1>6. ~ 1 > 1
  OBVIOUS
<1> QED
  BY <1>1, <1>2, <1>4, <1>5, <1>6

-------------------------------------------------------------------------------
(* The rows of a source *)

(* A row of one source. *)
One(s, o) == [x \in {s} |-> o]

(* The tables of a source that have a row within the period, those that a left or anti
   join finds, and whether the filters of the source let a row in. *)
There(d, s, w)     == {o \in Selected(d) : Key(d, o) = s /\ w[o] \notin {"none", "out"}}
Scoped(d, i, s)    == FilterSources(d, i) = {s} /\ i.scope = "match"
Matching(d, s, w)  == {o \in There(d, s, w) : \A i \in ToSet(d.filters) :
                         Scoped(d, i, s) => Truth(ItemTest(d, i), One(s, o), w) = "T"}
Passes(d, s, o, w) == \A i \in ToSet(d.filters) :
                        FilterSources(d, i) = {s} => Truth(ItemTest(d, i), One(s, o), w) = "T"

(* What is scanned of a source. *)
Alone(d, s, w) ==
  {o \in Selected(d) : /\ Key(d, o) = s /\ w[o] # "none"
                       /\ s \notin DirectedRights(d) \/ s \in d.families => w[o] # "out"
                       /\ s \notin DirectedRights(d) => Passes(d, s, o, w)}
RowsAlone(d, s, w) == {One(s, o) : o \in Alone(d, s, w)}

(* The members of a family that is used stand for no other family. *)
FamiliesFit(d) == \A f \in d.families \cap Sources(d) : \A o \in Members[f] : Key(d, o) = f

(* A node that copies its columns keeps their names. *)
LEMMA CopiedNames ==
  ASSUME NEW n, NEW names, NEW from, n.columns = Copied(names, from)
  PROVE  ToSet(NamesOf(n)) = ToSet(names)
BY DEF NamesOf, Copied, ToSet

(* The nodes of a table: its scan, and a filter where something can be tested then. *)
ScanOf(d, o) ==
  [NoNode EXCEPT !.id = <<"scan", o>>, !.kind = "scan", !.table = o,
                 !.columns = Copied(ColumnsOfSource(d, Key(d, o)), "table")]
FilterOf(d, o) ==
  [NoNode EXCEPT !.id = <<"filter", o>>, !.kind = "filter", !.inputs = <<ScanOf(d, o).id>>,
                 !.tests = ScanTests(d, o)]

(* A table is scanned, and filtered when there is something to filter by. *)
LEMMA ScanNodesAre ==
  ASSUME NEW d, NEW o
  PROVE  ScanNodes(d, o) = IF ScanTests(d, o) = {} THEN <<ScanOf(d, o)>>
                           ELSE <<ScanOf(d, o), FilterOf(d, o)>>
BY Zenon DEF ScanNodes, ScanOf, FilterOf

(* What the scan of a table has. *)
LEMMA ScanIs ==
  ASSUME NEW d, NEW o, NEW scan, scan = ScanOf(d, o)
  PROVE  /\ scan.id = <<"scan", o>> /\ scan.kind = "scan" /\ scan.table = o /\ scan.inputs = <<>>
         /\ scan.columns = Copied(ColumnsOfSource(d, Key(d, o)), "table")
<1> DEFINE columns == Copied(ColumnsOfSource(d, Key(d, o)), "table")
<1> HIDE DEF columns
<1>1. scan = [NoNode EXCEPT !.id = <<"scan", o>>, !.kind = "scan", !.table = o, !.columns = columns]
  BY Zenon DEF ScanOf, columns
<1>2. /\ scan.id = <<"scan", o>> /\ scan.kind = "scan" /\ scan.table = o /\ scan.inputs = <<>>
      /\ scan.columns = columns
  BY <1>1 DEF NoNode
<1> QED
  BY <1>2 DEF columns

(* What the filter above it has. *)
LEMMA FilterIs ==
  ASSUME NEW d, NEW o, NEW filter, filter = FilterOf(d, o)
  PROVE  /\ filter.id = <<"filter", o>> /\ filter.kind = "filter"
         /\ filter.inputs = <<<<"scan", o>>>> /\ filter.tests = ScanTests(d, o)
<1> DEFINE tests == ScanTests(d, o)
           id == ScanOf(d, o).id
<1> HIDE DEF tests, id
<1>1. filter = [NoNode EXCEPT !.id = <<"filter", o>>, !.kind = "filter", !.inputs = <<id>>, !.tests = tests]
  BY Zenon DEF FilterOf, tests, id
<1>2. /\ filter.id = <<"filter", o>> /\ filter.kind = "filter" /\ filter.inputs = <<id>>
      /\ filter.tests = tests
  BY <1>1 DEF NoNode
<1>3. id = <<"scan", o>>
  BY ScanIs DEF id
<1> QED
  BY <1>2, <1>3 DEF tests

(* The rows a table's nodes hold: its own, when they pass the tests put on the scan. *)
LEMMA ScanValue ==
  ASSUME NEW d, Usable(d), NEW o \in Selected(d), NEW nodes, ToSet(ScanNodes(d, o)) \subseteq ToSet(nodes),
         NEW v, NEW w, Valued(nodes, v, w)
  PROVE  v[Last(ScanNodes(d, o)).id] =
           {r \in {One(Key(d, o), o)} : w[o] # "none" /\ Holds(ScanTests(d, o), r, w)}
<1>0. \E s, tests, scan, filter :
        s = Key(d, o) /\ tests = ScanTests(d, o) /\ scan = ScanOf(d, o) /\ filter = FilterOf(d, o)
  OBVIOUS
<1> PICK s, tests, scan, filter :
        s = Key(d, o) /\ tests = ScanTests(d, o) /\ scan = ScanOf(d, o) /\ filter = FilterOf(d, o)
  BY <1>0
<1>1. /\ scan.id = <<"scan", o>> /\ scan.kind = "scan" /\ scan.table = o /\ scan.inputs = <<>>
      /\ scan.columns = Copied(ColumnsOfSource(d, s), "table")
      /\ filter.id = <<"filter", o>> /\ filter.kind = "filter"
      /\ filter.inputs = <<<<"scan", o>>>> /\ filter.tests = tests
      /\ ScanNodes(d, o) = IF tests = {} THEN <<scan>> ELSE <<scan, filter>>
  BY ScanNodesAre, ScanIs, FilterIs
<1>2. s \in Sources(d)
  BY KeysOfTables
<1>3. {c[1] : c \in ToSet(NamesOf(scan))} = {s}
  <2>1. ToSet(NamesOf(scan)) = ToSet(ColumnsOfSource(d, s))
    BY <1>1, CopiedNames
  <2>2. /\ ToSet(ColumnsOfSource(d, s)) = {<<s, f[2]>> : f \in FieldsOfSource(d, s)}
        /\ <<s, "p">> \in ToSet(ColumnsOfSource(d, s))
    BY <1>2, ColumnsListed
  <2>3. \A f : <<s, f[2]>>[1] = s
    OBVIOUS
  <2>4. \A c \in ToSet(NamesOf(scan)) : c[1] = s
    BY <2>1, <2>2
  <2>5. <<s, "p">>[1] = s /\ <<s, "p">> \in ToSet(NamesOf(scan))
    BY <2>1, <2>2
  <2> QED
    BY <2>4, <2>5
<1>4. scan \in ToSet(ScanNodes(d, o)) /\ (tests # {} => filter \in ToSet(ScanNodes(d, o)))
  BY <1>1 DEF ToSet
<1>5. v[scan.id] = IF w[o] = "none" THEN {} ELSE {One(s, o)}
  <2>1. v[scan.id] = RowsOf(scan, v, w)
    BY <1>4 DEF Valued
  <2>2. RowsOf(scan, v, w) = IF w[o] = "none" THEN {} ELSE {[x \in {c[1] : c \in ToSet(NamesOf(scan))} |-> o]}
    BY <1>1 DEF RowsOf
  <2> QED
    BY <1>3, <2>1, <2>2 DEF One
<1>6. CASE tests = {}
  <2>1. ScanNodes(d, o) = <<scan>>
    BY <1>1, <1>6
  <2>2. Last(ScanNodes(d, o)) = scan
    BY <2>1 DEF Last
  <2>3. \A r : Holds(tests, r, w)
    BY <1>6 DEF Holds
  <2> QED
    BY <1>5, <2>2, <2>3
<1>7. CASE tests # {}
  <2>1. ScanNodes(d, o) = <<scan, filter>>
    BY <1>1, <1>7
  <2>2. Last(ScanNodes(d, o)) = filter
    BY <2>1 DEF Last
  <2>3. v[filter.id] = RowsOf(filter, v, w)
    BY <1>4, <1>7 DEF Valued
  <2>4. RowsOf(filter, v, w) = {r \in v[<<"scan", o>>] : Holds(tests, r, w)}
    BY <1>1 DEF RowsOf
  <2>5. v[Last(ScanNodes(d, o)).id] = {r \in v[scan.id] : Holds(tests, r, w)}
    BY <1>1, <2>2, <2>3, <2>4
  <2> QED
    BY <1>5, <2>5
<1> QED
  BY <1>6, <1>7

(* What a scan tests. *)
LEMMA ScanTestsHold ==
  ASSUME NEW d, Usable(d), NEW o \in Selected(d), NEW w
  PROVE  Holds(ScanTests(d, o), One(Key(d, o), o), w) <=>
           /\ Key(d, o) \notin DirectedRights(d) => Passes(d, Key(d, o), o, w)
           /\ Key(d, o) \notin DirectedRights(d) \/ Key(d, o) \in d.families => w[o] # "out"
<1> DEFINE s == Key(d, o)
           r == One(s, o)
           items == {x \in ToSet(d.filters) : FilterSources(d, x) = {s} /\ s \notin DirectedRights(d)}
           period == Truth(PeriodTest(d, o), r, w) = "T"
<1>1. r[s] = o
  BY DEF One
<1>2. o # Null /\ s \in Sources(d)
  BY KeysOfTables, AnswerAssumption
<1>3. period <=> w[o] # "out"
  BY <1>1, <1>2, PeriodHolds
<1>4. o \in DirectedRights(d) <=> s \in DirectedRights(d) /\ s \notin d.families
  <2>1. DirectedRights(d) \subseteq Sources(d)
    <3> SUFFICES ASSUME NEW j \in Directed(d) PROVE Right(d, d.joins[j]) \in Sources(d)
      BY DEF DirectedRights
    <3>1. d.joins[j] \in ToSet(d.joins)
      BY DEF Directed, ToSet
    <3>2. d.joins[j].right[1] \in Selected(d)
      BY <3>1, DraftPasses DEF Usable
    <3> QED
      BY <3>2, KeysOfTables DEF Right
  <2>2. s \in d.families => o \notin Sources(d)
    BY KeysOfTables
  <2>3. s \notin d.families => s = o
    BY KeysOfTables
  <2> QED
    BY <2>1, <2>2, <2>3
<1>5. ScanTests(d, o) = {ItemTest(d, i) : i \in items}
                        \cup (IF o \in DirectedRights(d) THEN {} ELSE {PeriodTest(d, o)})
  BY DEF ScanTests
<1> HIDE DEF s, r
<1>6. Holds(ScanTests(d, o), r, w) <=>
        /\ \A i \in items : Truth(ItemTest(d, i), r, w) = "T"
        /\ o \notin DirectedRights(d) => period
  BY <1>5 DEF Holds
<1>7. (\A i \in items : Truth(ItemTest(d, i), r, w) = "T") <=> (s \notin DirectedRights(d) => Passes(d, s, o, w))
  BY DEF Passes, r
<1> HIDE DEF items, period
<1>8. Holds(ScanTests(d, o), r, w) <=>
        /\ s \notin DirectedRights(d) => Passes(d, s, o, w)
        /\ s \notin DirectedRights(d) \/ s \in d.families => w[o] # "out"
  BY <1>3, <1>4, <1>6, <1>7
<1> QED
  BY <1>8 DEF s, r

(* The nodes of a family: the union of its members, and the table that is made of it. *)
UnionOf(d, f) ==
  [NoNode EXCEPT !.id = <<"union", f>>, !.kind = "union",
     !.inputs = [i \in DOMAIN Lists!SetToSeq(Members[f]) |->
                   Last(ScanNodes(d, Lists!SetToSeq(Members[f])[i])).id],
     !.columns = Copied(ColumnsOfSource(d, f), "inputs")]
WholeOf(d, f) ==
  [NoNode EXCEPT !.id = <<"family", f>>, !.kind = "materialize", !.inputs = <<UnionOf(d, f).id>>]

(* A family is the union of its members, then a table of its own. *)
LEMMA FamilyNodesAre ==
  ASSUME NEW d, NEW f
  PROVE  FamilyNodes(d, f) = <<UnionOf(d, f), WholeOf(d, f)>>
BY Zenon DEF FamilyNodes, UnionOf, WholeOf

(* What the union has. *)
LEMMA UnionIs ==
  ASSUME NEW d, Usable(d), NEW f \in d.families, NEW union, union = UnionOf(d, f)
  PROVE  /\ union.id = <<"union", f>> /\ union.kind = "union"
         /\ union.inputs \in Seq(ToSet(union.inputs))
         /\ ToSet(union.inputs) = {Last(ScanNodes(d, o)).id : o \in Members[f]}
         /\ union.columns = Copied(ColumnsOfSource(d, f), "inputs")
<1> DEFINE columns == Copied(ColumnsOfSource(d, f), "inputs")
           members == Lists!SetToSeq(Members[f])
           inputs == [i \in DOMAIN members |-> Last(ScanNodes(d, members[i])).id]
<1>1. members \in Seq(Members[f]) /\ ToSet(members) = Members[f]
  BY KeysOfTables, SetListed
<1>2. inputs \in Seq(ToSet(inputs)) /\ ToSet(inputs) = {Last(ScanNodes(d, o)).id : o \in Members[f]}
  <2> HIDE DEF members
  <2>1. Len(members) \in Nat /\ DOMAIN members = 1 .. Len(members)
    BY <1>1
  <2>2. ToSet(members) = {members[i] : i \in DOMAIN members}
    BY DEF ToSet
  <2>3. ToSet(inputs) = {Last(ScanNodes(d, members[i])).id : i \in DOMAIN members}
    BY DEF ToSet
  <2>4. {Last(ScanNodes(d, members[i])).id : i \in DOMAIN members} = {Last(ScanNodes(d, o)).id : o \in Members[f]}
    BY <1>1, <2>2
  <2>5. inputs \in [1 .. Len(members) -> ToSet(inputs)]
    BY <2>1, <2>3
  <2> HIDE DEF inputs
  <2>6. inputs \in Seq(ToSet(inputs))
    BY <2>1, <2>5
  <2> QED
    BY <2>3, <2>4, <2>6
<1> HIDE DEF columns, inputs
<1>3. union = [NoNode EXCEPT !.id = <<"union", f>>, !.kind = "union", !.inputs = inputs, !.columns = columns]
  BY Zenon DEF UnionOf, columns, inputs, members
<1>4. /\ union.id = <<"union", f>> /\ union.kind = "union" /\ union.inputs = inputs
      /\ union.columns = columns
  BY <1>3 DEF NoNode
<1> QED
  BY <1>2, <1>4 DEF columns

(* What the table of a family has. *)
LEMMA WholeIs ==
  ASSUME NEW d, Usable(d), NEW f \in d.families, NEW whole, whole = WholeOf(d, f)
  PROVE  whole.id = <<"family", f>> /\ whole.kind = "materialize" /\ whole.inputs = <<<<"union", f>>>>
<1> DEFINE id == UnionOf(d, f).id
<1> HIDE DEF id
<1>1. whole = [NoNode EXCEPT !.id = <<"family", f>>, !.kind = "materialize", !.inputs = <<id>>]
  BY Zenon DEF WholeOf, id
<1>2. whole.id = <<"family", f>> /\ whole.kind = "materialize" /\ whole.inputs = <<id>>
  BY <1>1 DEF NoNode
<1>3. id = <<"union", f>>
  BY UnionIs DEF id
<1> QED
  BY <1>2, <1>3

(* Lists of lists, one for each element of a finite set. *)
LEMMA AllFlattened ==
  ASSUME NEW S, IsFiniteSet(S), NEW g, \A x \in S : g[x] \in Seq(ToSet(g[x]))
  PROVE  LET all == FlattenSeq([i \in DOMAIN Lists!SetToSeq(S) |-> g[Lists!SetToSeq(S)[i]]])
         IN all \in Seq(ToSet(all)) /\ ToSet(all) = UNION {ToSet(g[x]) : x \in S}
<1> DEFINE list == Lists!SetToSeq(S)
           T == UNION {ToSet(g[x]) : x \in S}
           seqs == [i \in DOMAIN list |-> g[list[i]]]
<1>1. list \in Seq(S) /\ ToSet(list) = S
  BY SetListed
<1>2. \A x \in S : g[x] \in Seq(T)
  <2> SUFFICES ASSUME NEW x \in S PROVE g[x] \in Seq(T)
    OBVIOUS
  <2>1. g[x] \in Seq(ToSet(g[x])) /\ ToSet(g[x]) \subseteq T
    OBVIOUS
  <2> HIDE DEF T
  <2> QED
    BY <2>1
<1> HIDE DEF list, T
<1>3. Len(list) \in Nat /\ DOMAIN list = 1 .. Len(list) /\ \A i \in 1 .. Len(list) : list[i] \in S
  BY <1>1
<1>4. seqs \in Seq(Seq(T))
  <2>1. seqs \in [1 .. Len(list) -> Seq(T)]
    BY <1>2, <1>3
  <2> HIDE DEF seqs
  <2> QED
    BY <1>3, <2>1
<1>5. UNION {ToSet(seqs[i]) : i \in DOMAIN seqs} = T
  <2>1. DOMAIN seqs = DOMAIN list /\ \A i \in DOMAIN list : seqs[i] = g[list[i]]
    OBVIOUS
  <2> HIDE DEF seqs
  <2>2. {ToSet(seqs[i]) : i \in DOMAIN seqs} = {ToSet(g[list[i]]) : i \in DOMAIN list}
    BY <2>1
  <2>3. {list[i] : i \in DOMAIN list} = S
    BY <1>1 DEF ToSet
  <2>4. {ToSet(g[list[i]]) : i \in DOMAIN list} = {ToSet(g[x]) : x \in S}
    BY <2>3
  <2> QED
    BY <2>2, <2>4 DEF T
<1>6. \A i \in DOMAIN seqs : InOrder(seqs[i], {})
  BY DEF InOrder
<1> HIDE DEF seqs
<1>7. FlattenSeq(seqs) \in Seq(T) /\ ToSet(FlattenSeq(seqs)) = T
  BY <1>4, <1>5, <1>6, Flattened
<1>8. FlattenSeq(seqs) \in Seq(ToSet(FlattenSeq(seqs))) /\ ToSet(FlattenSeq(seqs)) = T
  BY <1>7
<1> QED
  BY <1>8 DEF seqs, list, T

(* A pair as a list. *)
LEMMA PairIsList ==
  ASSUME NEW a, NEW b
  PROVE  <<a, b>> \in Seq(ToSet(<<a, b>>)) /\ ToSet(<<a, b>>) = {a, b}
<1>1. <<a, b>>[1] = a /\ <<a, b>>[2] = b /\ DOMAIN <<a, b>> = {1, 2}
  OBVIOUS
<1>2. ToSet(<<a, b>>) = {a, b}
  BY <1>1 DEF ToSet
<1> QED
  BY <1>2

(* One element as a list. *)
LEMMA OneIsList ==
  ASSUME NEW a
  PROVE  <<a>> \in Seq(ToSet(<<a>>)) /\ ToSet(<<a>>) = {a}
<1>1. <<a>>[1] = a /\ DOMAIN <<a>> = {1}
  OBVIOUS
<1>2. ToSet(<<a>>) = {a}
  BY <1>1 DEF ToSet
<1> QED
  BY <1>2

(* The nodes of all sources. *)
LEMMA SourceNodesAre ==
  ASSUME NEW d, Usable(d)
  PROVE  /\ SourceNodes(d) \in Seq(ToSet(SourceNodes(d)))
         /\ ToSet(SourceNodes(d)) = (UNION {ToSet(ScanNodes(d, o)) : o \in Selected(d)})
                                    \cup UNION {ToSet(FamilyNodes(d, f)) : f \in d.families}
<1> DEFINE g == [o \in Selected(d) |-> ScanNodes(d, o)]
           h == [f \in d.families |-> FamilyNodes(d, f)]
           tables == Lists!SetToSeq(Selected(d))
           families == Lists!SetToSeq(d.families)
           all == FlattenSeq([i \in DOMAIN tables |-> g[tables[i]]])
           more == FlattenSeq([i \in DOMAIN families |-> h[families[i]]])
<1>1. IsFiniteSet(Selected(d)) /\ IsFiniteSet(d.families)
  BY KeysOfTables
<1>2. \A o \in Selected(d) : g[o] = ScanNodes(d, o) /\ g[o] \in Seq(ToSet(g[o]))
  <2> SUFFICES ASSUME NEW o \in Selected(d) PROVE ScanNodes(d, o) \in Seq(ToSet(ScanNodes(d, o)))
    OBVIOUS
  <2>1. ScanNodes(d, o) = <<ScanOf(d, o)>> \/ ScanNodes(d, o) = <<ScanOf(d, o), FilterOf(d, o)>>
    BY ScanNodesAre
  <2>2. <<ScanOf(d, o)>> \in Seq(ToSet(<<ScanOf(d, o)>>))
    BY OneIsList
  <2>3. <<ScanOf(d, o), FilterOf(d, o)>> \in Seq(ToSet(<<ScanOf(d, o), FilterOf(d, o)>>))
    BY PairIsList
  <2> QED
    BY <2>1, <2>2, <2>3
<1>3. \A f \in d.families : h[f] = FamilyNodes(d, f) /\ h[f] \in Seq(ToSet(h[f]))
  BY FamilyNodesAre, PairIsList
<1>4. tables \in Seq(Selected(d)) /\ families \in Seq(d.families)
  BY <1>1, SetListed
<1> HIDE DEF g, h
<1>5. all \in Seq(ToSet(all)) /\ ToSet(all) = UNION {ToSet(g[o]) : o \in Selected(d)}
  <2>1. \A o \in Selected(d) : g[o] \in Seq(ToSet(g[o]))
    BY <1>2
  <2> QED
    BY <1>1, <2>1, AllFlattened, SMTT(30)
<1>6. more \in Seq(ToSet(more)) /\ ToSet(more) = UNION {ToSet(h[f]) : f \in d.families}
  <2>1. \A f \in d.families : h[f] \in Seq(ToSet(h[f]))
    BY <1>3
  <2> QED
    BY <1>1, <2>1, AllFlattened, SMTT(30)
<1> HIDE DEF tables, families
<1>7. /\ [i \in DOMAIN tables |-> g[tables[i]]] = [i \in DOMAIN tables |-> ScanNodes(d, tables[i])]
      /\ [i \in DOMAIN families |-> h[families[i]]] = [i \in DOMAIN families |-> FamilyNodes(d, families[i])]
  <2>1. \A i \in DOMAIN tables : tables[i] \in Selected(d)
    BY <1>4
  <2>2. \A i \in DOMAIN families : families[i] \in d.families
    BY <1>4
  <2> QED
    BY <1>2, <1>3, <2>1, <2>2
<1>8. SourceNodes(d) = all \o more
  <2>1. SourceNodes(d) = FlattenSeq([i \in DOMAIN tables |-> ScanNodes(d, tables[i])])
                         \o FlattenSeq([i \in DOMAIN families |-> FamilyNodes(d, families[i])])
    BY Zenon DEF SourceNodes, tables, families
  <2> QED
    BY <1>7, <2>1
<1>9. /\ {ToSet(g[o]) : o \in Selected(d)} = {ToSet(ScanNodes(d, o)) : o \in Selected(d)}
      /\ {ToSet(h[f]) : f \in d.families} = {ToSet(FamilyNodes(d, f)) : f \in d.families}
  BY <1>2, <1>3
<1> HIDE DEF all, more
<1>10. /\ all \o more \in Seq(ToSet(all \o more))
       /\ ToSet(all \o more) = ToSet(all) \cup ToSet(more)
  <2> DEFINE T == ToSet(all) \cup ToSet(more)
  <2>1. all \in Seq(T) /\ more \in Seq(T)
    BY <1>5, <1>6
  <2>2. InOrder(all, {}) /\ InOrder(more, {})
    BY DEF InOrder
  <2> HIDE DEF T
  <2>3. all \o more \in Seq(T) /\ ToSet(all \o more) = ToSet(all) \cup ToSet(more)
    BY <2>1, <2>2, JoinedInOrder
  <2> QED
    BY <2>3 DEF T
<1> QED
  BY <1>5, <1>6, <1>8, <1>9, <1>10

(* What stands for a source holds its rows: the scan of a table or its filter, the
   union of a family. *)
LEMMA SourceValue ==
  ASSUME NEW d, Usable(d), NEW s \in Sources(d), s \in d.families => FamiliesFit(d),
         NEW nodes, ToSet(SourceNodes(d)) \subseteq ToSet(nodes),
         NEW v, NEW w, Valued(nodes, v, w)
  PROVE  v[NodeOfSource(d, s)] = RowsAlone(d, s, w)
<1>1. \A o \in Selected(d) :
        v[Last(ScanNodes(d, o)).id] = {r \in {One(Key(d, o), o)} : o \in Alone(d, Key(d, o), w)}
  <2> SUFFICES ASSUME NEW o \in Selected(d)
               PROVE  v[Last(ScanNodes(d, o)).id] = {r \in {One(Key(d, o), o)} : o \in Alone(d, Key(d, o), w)}
    OBVIOUS
  <2>1. ToSet(ScanNodes(d, o)) \subseteq ToSet(nodes)
    BY SourceNodesAre
  <2>2. v[Last(ScanNodes(d, o)).id] =
          {r \in {One(Key(d, o), o)} : w[o] # "none" /\ Holds(ScanTests(d, o), r, w)}
    BY <2>1, ScanValue
  <2>3. w[o] # "none" /\ Holds(ScanTests(d, o), One(Key(d, o), o), w) <=> o \in Alone(d, Key(d, o), w)
    BY ScanTestsHold DEF Alone
  <2> QED
    BY <2>2, <2>3
<1>2. CASE s \notin d.families
  <2>1. s \in Selected(d) /\ Key(d, s) = s /\ \A o \in Selected(d) : Key(d, o) = s => o = s
    BY <1>2, KeysOfTables
  <2>2. NodeOfSource(d, s) = Last(ScanNodes(d, s)).id
    BY <1>2 DEF NodeOfSource
  <2>3. v[NodeOfSource(d, s)] = {r \in {One(s, s)} : s \in Alone(d, s, w)}
    BY <1>1, <2>1, <2>2
  <2>4. \A o \in Alone(d, s, w) : o = s
    BY <2>1 DEF Alone
  <2> QED
    BY <2>3, <2>4 DEF RowsAlone
<1>3. CASE s \in d.families
  <2>1. \E union, whole : union = UnionOf(d, s) /\ whole = WholeOf(d, s)
    OBVIOUS
  <2> PICK union, whole : union = UnionOf(d, s) /\ whole = WholeOf(d, s)
    BY <2>1
  <2>2. /\ union.id = <<"union", s>> /\ union.kind = "union"
        /\ ToSet(union.inputs) = {Last(ScanNodes(d, o)).id : o \in Members[s]}
    BY <1>3, UnionIs
  <2>3. whole.id = <<"family", s>> /\ whole.kind = "materialize" /\ whole.inputs = <<<<"union", s>>>>
    BY <1>3, WholeIs
  <2>4. union \in ToSet(nodes) /\ whole \in ToSet(nodes)
    <3>1. ToSet(FamilyNodes(d, s)) = {union, whole}
      BY FamilyNodesAre, PairIsList
    <3> QED
      BY <1>3, <3>1, SourceNodesAre
  <2>5. v[<<"family", s>>] = v[<<"union", s>>]
    <3>1. v[whole.id] = RowsOf(whole, v, w)
      BY <2>4 DEF Valued
    <3>2. RowsOf(whole, v, w) = v[whole.inputs[1]]
      BY <2>3 DEF RowsOf
    <3> QED
      BY <2>3, <3>1, <3>2
  <2>6. v[<<"union", s>>] = UNION {v[i] : i \in ToSet(union.inputs)}
    <3>1. v[union.id] = RowsOf(union, v, w)
      BY <2>4 DEF Valued
    <3>2. RowsOf(union, v, w) = UNION {v[i] : i \in ToSet(union.inputs)}
      BY <2>2, Zenon DEF RowsOf
    <3> QED
      BY <2>2, <3>1, <3>2
  <2>7. {v[i] : i \in ToSet(union.inputs)} = {v[Last(ScanNodes(d, o)).id] : o \in Members[s]}
    BY <2>2
  <2>8. NodeOfSource(d, s) = <<"family", s>>
    BY <1>3 DEF NodeOfSource
  <2>9. \A o \in Members[s] : o \in Selected(d) /\ Key(d, o) = s
    BY <1>3, KeysOfTables DEF FamiliesFit
  <2>10. \A o \in Selected(d) : Key(d, o) = s => o \in Members[s]
    BY <1>3, KeysOfTables
  <2>11. \A r : r \in UNION {v[Last(ScanNodes(d, o)).id] : o \in Members[s]}
                <=> \E o \in Members[s] : o \in Alone(d, s, w) /\ r = One(s, o)
    <3>1. \A o \in Members[s] : v[Last(ScanNodes(d, o)).id] = {r \in {One(s, o)} : o \in Alone(d, s, w)}
      BY <1>1, <2>9
    <3> QED
      BY <3>1
  <2>12. \A o \in Alone(d, s, w) : o \in Members[s]
    BY <2>10 DEF Alone
  <2>13. UNION {v[Last(ScanNodes(d, o)).id] : o \in Members[s]} = {One(s, o) : o \in Alone(d, s, w)}
    BY <2>11, <2>12
  <2> QED
    BY <2>5, <2>6, <2>7, <2>8, <2>13 DEF RowsAlone
<1> QED
  BY <1>2, <1>3

-------------------------------------------------------------------------------
(* What a join gives *)

(* The rows of one side with their matches, and those that have none. *)
Met(L, from, new, M) == {Joined(p[1], One(new, p[2])) : p \in {q \in L \X M : q[1][from] # Null}}
Unmet(L, from, M)    == {l \in L : l[from] = Null \/ M = {}}
Padded(L, new)       == {Joined(l, One(new, Null)) : l \in L}

(* Joining a row to a source adds that source. *)
LEMMA JoinedDomain ==
  ASSUME NEW l, NEW new, NEW x
  PROVE  DOMAIN Joined(l, One(new, x)) = DOMAIN l \cup {new}
BY DEF Joined, One

(* The source joined holds what was joined. *)
LEMMA JoinedNew ==
  ASSUME NEW l, NEW new, new \notin DOMAIN l, NEW x
  PROVE  Joined(l, One(new, x))[new] = x
BY DEF Joined, One

(* Every source joined before keeps what it held. *)
LEMMA JoinedOld ==
  ASSUME NEW l, NEW new, NEW x, NEW s \in DOMAIN l
  PROVE  Joined(l, One(new, x))[s] = l[s]
BY DEF Joined, One

(* Rows of one source, and those of them that match. *)
Ones(s, C)           == {One(s, o) : o \in C}
Fulfilling(tests, s, C, w) == {o \in C : Holds(tests, One(s, o), w)}
On(n, from, new)     == n.on[1][1] = from /\ n.on[2][1] = new
Lack(L, new)         == \A l \in L : new \notin DOMAIN l

Results(n, L, from, new, M) ==
  IF n.join = "inner" THEN Met(L, from, new, M)
  ELSE IF n.join = "left" THEN Met(L, from, new, M) \cup Padded(Unmet(L, from, M), new)
  ELSE IF n.strategy = "not_exists" THEN Unmet(L, from, M) ELSE Padded(Unmet(L, from, M), new)

(* What a join returns, by its type: the pairs met, and for a left or an anti join the rows left over. *)
LEMMA JoinRowsAre ==
  ASSUME NEW n, NEW L, NEW from, NEW new, On(n, from, new),
         NEW C, Null \notin C, NEW w, Lack(L, new)
  PROVE  JoinRows(n, L, Ones(new, C), {new}, w) =
           Results(n, L, from, new, Fulfilling(n.match, new, C, w))
<1> DEFINE M == Fulfilling(n.match, new, C, w)
           R == Ones(new, C)
           meets(l, r) == l[n.on[1][1]] # Null /\ r[n.on[2][1]] # Null /\ Holds(n.match, r, w)
           kept  == {Joined(p[1], p[2]) : p \in {q \in L \X R : meets(q[1], q[2])}}
           alone == {l \in L : \A r \in R : ~meets(l, r)}
           padded == {Joined(l, NullRow({new})) : l \in alone}
           outer == kept \cup padded
<1>1. JoinRows(n, L, R, {new}, w) =
        IF n.join = "inner" THEN kept
        ELSE IF n.join = "left" THEN outer
        ELSE IF n.strategy = "not_exists" THEN alone ELSE {o \in outer : o[n.on[2][1]] = Null}
  BY Zenon DEF JoinRows
<1>2. \A l : \A o \in C : meets(l, One(new, o)) <=> l[from] # Null /\ o \in M
  <2>1. \A o : One(new, o)[new] = o
    BY DEF One
  <2> QED
    BY <2>1 DEF Fulfilling, On
<1>9. /\ R = {One(new, o) : o \in C} /\ M \subseteq C /\ Null \notin M
      /\ \A l \in L : new \notin DOMAIN l
  BY DEF Fulfilling, Ones, Lack
<1> HIDE DEF meets, M, R
<1>3. kept = Met(L, from, new, M)
  <2>1. ASSUME NEW q \in kept PROVE q \in Met(L, from, new, M)
    <3>1. PICK l \in L, r \in R : meets(l, r) /\ q = Joined(l, r)
      BY <2>1
    <3>2. PICK o \in C : r = One(new, o)
      BY <1>9
    <3>3. l[from] # Null /\ o \in M
      BY <1>2, <3>1, <3>2
    <3>4. <<l, o>> \in {y \in L \X M : y[1][from] # Null}
      BY <3>3
    <3> QED
      BY <3>1, <3>2, <3>4 DEF Met
  <2>2. ASSUME NEW q \in Met(L, from, new, M) PROVE q \in kept
    <3>1. PICK l \in L, o \in M : l[from] # Null /\ q = Joined(l, One(new, o))
      BY <2>2 DEF Met
    <3>2. One(new, o) \in R /\ meets(l, One(new, o))
      BY <1>2, <1>9, <3>1
    <3>3. <<l, One(new, o)>> \in {y \in L \X R : meets(y[1], y[2])}
      BY <3>2
    <3> QED
      BY <3>1, <3>3
  <2> QED
    BY <2>1, <2>2
<1>4. alone = Unmet(L, from, M)
  <2>1. \A l : (\A r \in R : ~meets(l, r)) <=> l[from] = Null \/ M = {}
    BY <1>2, <1>9
  <2> QED
    BY <2>1 DEF Unmet
<1>5. padded = Padded(Unmet(L, from, M), new)
  <2>1. NullRow({new}) = One(new, Null)
    BY DEF NullRow, One
  <2> QED
    BY <1>4, <2>1 DEF Padded
<1>6. \A o \in kept : o[new] # Null
  <2> SUFFICES ASSUME NEW l \in L, NEW o \in M PROVE Joined(l, One(new, o))[new] # Null
    BY <1>3 DEF Met
  <2>1. Joined(l, One(new, o))[new] = o
    BY <1>9, JoinedNew
  <2> QED
    BY <1>9, <2>1
<1>7. \A o \in padded : o[new] = Null
  <2> SUFFICES ASSUME NEW l \in L PROVE Joined(l, One(new, Null))[new] = Null
    BY <1>4, <1>5 DEF Padded, Unmet
  <2> QED
    BY <1>9, JoinedNew
<1> HIDE DEF kept, alone, padded
<1>8. {o \in outer : o[n.on[2][1]] = Null} = padded
  BY <1>6, <1>7 DEF On
<1> QED
  BY <1>1, <1>3, <1>4, <1>5, <1>8 DEF M, R, Results

-------------------------------------------------------------------------------
(* The rows there are after some of the joins *)

(* What a join asks of a row. *)
Found(d, j, r, w) == IF r[Left(d, j)] = Null THEN {} ELSE Matching(d, Right(d, j), w)
JoinMet(d, j, r, w) ==
  CASE j.type = "inner" -> r[Left(d, j)] # Null /\ r[Right(d, j)] # Null
    [] j.type = "left" -> IF Found(d, j, r, w) = {} THEN r[Right(d, j)] = Null
                          ELSE r[Right(d, j)] \in Found(d, j, r, w)
    [] OTHER -> Found(d, j, r, w) = {}

(* What may stand for a source in a row. *)
Fits(d, s, x, w) == /\ x \in There(d, s, w) \cup {Null}
                    /\ s \notin DirectedRights(d) => x # Null /\ Passes(d, s, x, w)

(* The rows of the sources V that the joins J leave. *)
Partial(d, V, J, w) ==
  {r \in [V \ AntiRights(d) -> Selected(d) \cup {Null}] :
     /\ \A s \in V \ AntiRights(d) : Fits(d, s, r[s], w)
     /\ \A j \in J : JoinMet(d, d.joins[j], r, w)}

(* The ends of a join of a usable draft are two sources, the left one never excluded. *)
LEMMA EndsOfJoins ==
  ASSUME NEW d, Usable(d), NEW k \in DOMAIN d.joins, NEW j, j = d.joins[k]
  PROVE  /\ j.type \in {"inner", "left", "anti"} /\ Left(d, j) # Right(d, j)
         /\ Left(d, j) \in Sources(d) \ AntiRights(d) /\ Right(d, j) \in Sources(d)
         /\ j.type # "inner" => Right(d, j) \in DirectedRights(d)
         /\ j.type = "anti" <=> Right(d, j) \in AntiRights(d)
         /\ AntiRights(d) \subseteq DirectedRights(d)
<1>1. j \in ToSet(d.joins)
  BY DEF ToSet
<1>2. j.type \in {"inner", "left", "anti"} /\ Left(d, j) # Right(d, j)
  BY <1>1, AnswerAssumption DEF Usable, Convertible
<1>3. Left(d, j) \in Sources(d) /\ Right(d, j) \in Sources(d)
  BY <1>1, DraftPasses, KeysOfTables DEF Usable, Left, Right
<1>4. \A i \in Directed(d) : d.joins[i].type = "anti" =>
        \A x \in DOMAIN d.joins \ {i} : Right(d, d.joins[i]) # Left(d, d.joins[x])
                                        /\ Right(d, d.joins[i]) # Right(d, d.joins[x])
  BY DraftPasses DEF Usable, JoinsMakeSense
<1>5. \A i \in Directed(d) : d.joins[i].type = "anti" /\ i # k =>
        Right(d, d.joins[i]) # Left(d, j) /\ Right(d, d.joins[i]) # Right(d, j)
  BY <1>4
<1>6. \A s \in AntiRights(d) : \E i \in Directed(d) : d.joins[i].type = "anti" /\ s = Right(d, d.joins[i])
  BY DEF AntiRights
<1>7. Left(d, j) \notin AntiRights(d)
  BY <1>2, <1>5, <1>6
<1>8. j.type # "inner" => k \in Directed(d)
  BY DEF Directed
<1>9. Right(d, j) \in AntiRights(d) => j.type = "anti"
  BY <1>5, <1>6
<1>10. j.type = "anti" => Right(d, j) \in AntiRights(d)
  BY <1>8 DEF AntiRights
<1>11. AntiRights(d) \subseteq DirectedRights(d) /\ (j.type # "inner" => Right(d, j) \in DirectedRights(d))
  BY <1>8 DEF AntiRights, DirectedRights
<1> QED
  BY <1>2, <1>3, <1>7, <1>9, <1>10, <1>11

(* A join looks at its ends. *)
LEMMA JoinMetSame ==
  ASSUME NEW d, NEW j, NEW r, NEW q, NEW w, r[Left(d, j)] = q[Left(d, j)],
         j.type \in {"inner", "left"} => r[Right(d, j)] = q[Right(d, j)]
  PROVE  JoinMet(d, j, r, w) <=> JoinMet(d, j, q, w)
<1>1. Found(d, j, r, w) = Found(d, j, q, w)
  BY DEF Found
<1> QED
  BY <1>1 DEF JoinMet

(* Joins whose ends are among some sources. *)
JoinedWithin(d, V, J) ==
  J \subseteq DOMAIN d.joins /\ \A k \in J : Left(d, d.joins[k]) \in V /\ Right(d, d.joins[k]) \in V

(* A row of some joins and a row of one more source make a row of one more join. *)
Grown(d, V, J, j, new, w, q) ==
  \E l \in Partial(d, V, J, w), x \in There(d, new, w) \cup {Null} :
     q = Joined(l, One(new, x)) /\ Fits(d, new, x, w) /\ JoinMet(d, d.joins[j], q, w)

(* One more source. *)
LEMMA Extended ==
  ASSUME NEW d, Usable(d), NEW w, NEW V, NEW J, JoinedWithin(d, V, J),
         NEW j \in DOMAIN d.joins, NEW new, new \notin V, new \notin AntiRights(d), NEW q
  PROVE  q \in Partial(d, V \cup {new}, J \cup {j}, w) <=> Grown(d, V, J, j, new, w, q)
<1> DEFINE A == AntiRights(d)
           kept == V \ A
           U == V \cup {new}
<1>1. U \ A = kept \cup {new} /\ new \notin kept
  OBVIOUS
<1>2. There(d, new, w) \cup {Null} \subseteq Selected(d) \cup {Null}
  BY DEF There
<1>3. ASSUME NEW l, NEW r, \A s \in kept : r[s] = l[s], NEW k \in J
      PROVE  JoinMet(d, d.joins[k], r, w) <=> JoinMet(d, d.joins[k], l, w)
  <2>1. Left(d, d.joins[k]) \in kept /\ (d.joins[k].type # "anti" => Right(d, d.joins[k]) \in kept)
    BY EndsOfJoins DEF JoinedWithin
  <2>2. r[Left(d, d.joins[k])] = l[Left(d, d.joins[k])]
    BY <1>3, <2>1
  <2>3. d.joins[k].type \in {"inner", "left"} => r[Right(d, d.joins[k])] = l[Right(d, d.joins[k])]
    BY <1>3, <2>1
  <2> QED
    BY <2>2, <2>3, JoinMetSame
<1>4. ASSUME NEW l \in Partial(d, V, J, w), NEW x \in There(d, new, w) \cup {Null},
             q = Joined(l, One(new, x)), Fits(d, new, x, w), JoinMet(d, d.joins[j], q, w)
      PROVE  q \in Partial(d, U, J \cup {j}, w)
  <2>1. /\ l \in [kept -> Selected(d) \cup {Null}] /\ \A s \in kept : Fits(d, s, l[s], w)
        /\ \A k \in J : JoinMet(d, d.joins[k], l, w)
    BY DEF Partial
  <2>2. DOMAIN q = U \ A /\ q[new] = x /\ \A s \in kept : q[s] = l[s]
    <3>1. DOMAIN l = kept
      BY <2>1
    <3>2. DOMAIN q = U \ A
      <4>1. q = Joined(l, One(new, x))
        BY <1>4
      <4>2. DOMAIN q = DOMAIN l \cup {new}
        BY <4>1, JoinedDomain
      <4> QED
        BY <1>1, <3>1, <4>2
    <3>3. q[new] = x
      BY <1>1, <1>4, <3>1, JoinedNew
    <3>4. \A s \in kept : q[s] = l[s]
      BY <1>4, <3>1, JoinedOld
    <3> QED
      BY <3>2, <3>3, <3>4
  <2>3. q \in [U \ A -> Selected(d) \cup {Null}]
    <3>1. q = [s \in DOMAIN l \cup DOMAIN One(new, x) |-> IF s \in DOMAIN l THEN l[s] ELSE One(new, x)[s]]
      BY <1>4 DEF Joined
    <3>2. q = [s \in DOMAIN q |-> q[s]]
      BY <3>1
    <3>3. \A s \in DOMAIN q : q[s] \in Selected(d) \cup {Null}
      BY <1>1, <1>2, <2>1, <2>2
    <3> QED
      BY <2>2, <3>2, <3>3
  <2>4. \A s \in U \ A : Fits(d, s, q[s], w)
    BY <1>1, <1>4, <2>1, <2>2
  <2>5. \A k \in J \cup {j} : JoinMet(d, d.joins[k], q, w)
    BY <1>3, <1>4, <2>1, <2>2
  <2> HIDE DEF U
  <2> QED
    BY <2>3, <2>4, <2>5 DEF Partial
<1>5. ASSUME q \in Partial(d, U, J \cup {j}, w)
      PROVE  \E l \in Partial(d, V, J, w), x \in There(d, new, w) \cup {Null} :
               q = Joined(l, One(new, x)) /\ Fits(d, new, x, w) /\ JoinMet(d, d.joins[j], q, w)
  <2> DEFINE l == [s \in kept |-> q[s]]
             x == q[new]
  <2>1. /\ q \in [U \ A -> Selected(d) \cup {Null}] /\ \A s \in U \ A : Fits(d, s, q[s], w)
        /\ \A k \in J \cup {j} : JoinMet(d, d.joins[k], q, w)
    BY <1>5 DEF Partial
  <2>2. l \in [kept -> Selected(d) \cup {Null}] /\ DOMAIN l = kept /\ \A s \in kept : l[s] = q[s]
    BY <1>1, <2>1
  <2> HIDE DEF l
  <2>3. l \in Partial(d, V, J, w)
    <3>1. \A k \in J : JoinMet(d, d.joins[k], l, w)
      BY <1>3, <2>1, <2>2
    <3>2. \A s \in kept : Fits(d, s, l[s], w)
      BY <1>1, <2>1, <2>2
    <3> QED
      BY <2>2, <3>1, <3>2 DEF Partial
  <2>4. Fits(d, new, x, w) /\ x \in There(d, new, w) \cup {Null}
    BY <1>1, <2>1 DEF Fits
  <2>5. q = Joined(l, One(new, x))
    <3>1. /\ DOMAIN Joined(l, One(new, x)) = kept \cup {new} /\ Joined(l, One(new, x))[new] = x
          /\ \A s \in kept : Joined(l, One(new, x))[s] = l[s]
      <4>1. DOMAIN Joined(l, One(new, x)) = kept \cup {new}
        BY <2>2, JoinedDomain
      <4>2. Joined(l, One(new, x))[new] = x
        BY <1>1, <2>2, JoinedNew
      <4>3. \A s \in kept : Joined(l, One(new, x))[s] = l[s]
        BY <2>2, JoinedOld
      <4> QED
        BY <4>1, <4>2, <4>3
    <3>2. DOMAIN q = kept \cup {new} /\ q = [s \in kept \cup {new} |-> q[s]]
      BY <1>1, <2>1
    <3>3. \A s \in kept \cup {new} : Joined(l, One(new, x))[s] = q[s]
      BY <2>2, <3>1
    <3>4. Joined(l, One(new, x)) = [s \in DOMAIN Joined(l, One(new, x)) |-> Joined(l, One(new, x))[s]]
      BY DEF Joined
    <3> HIDE DEF x
    <3> QED
      BY <3>1, <3>2, <3>3, <3>4
  <2>6. JoinMet(d, d.joins[j], q, w)
    BY <2>1
  <2> HIDE DEF x
  <2> QED
    BY <2>3, <2>4, <2>5, <2>6
<1> QED
  BY <1>4, <1>5 DEF Grown

(* An anti join keeps the sources there are. *)
LEMMA Excluded ==
  ASSUME NEW d, Usable(d), NEW w, NEW V, NEW J, NEW j \in DOMAIN d.joins, d.joins[j].type = "anti", NEW q
  PROVE  q \in Partial(d, V \cup {Right(d, d.joins[j])}, J \cup {j}, w) <=>
           q \in Partial(d, V, J, w) /\ Found(d, d.joins[j], q, w) = {}
<1>1. Right(d, d.joins[j]) \in AntiRights(d)
  BY EndsOfJoins
<1>2. (V \cup {Right(d, d.joins[j])}) \ AntiRights(d) = V \ AntiRights(d)
  BY <1>1
<1>3. \A r : JoinMet(d, d.joins[j], r, w) <=> Found(d, d.joins[j], r, w) = {}
  BY DEF JoinMet
<1> QED
  BY <1>2, <1>3 DEF Partial

(* What is tested while rows are matched leaves the ones that match. *)
LEMMA MatchesFound ==
  ASSUME NEW d, Usable(d), NEW s \in DirectedRights(d), NEW w
  PROVE  {o \in Alone(d, s, w) : Holds(MatchTests(d, s), One(s, o), w)} = Matching(d, s, w)
<1> DEFINE items == {x \in ToSet(d.filters) : FilterSources(d, x) = {s} /\ x.scope = "match"}
           good(o) == \A i \in ToSet(d.filters) : Scoped(d, i, s) => Truth(ItemTest(d, i), One(s, o), w) = "T"
<1>1. MatchTests(d, s) = {ItemTest(d, i) : i \in items} \cup (IF s \in d.families THEN {} ELSE {PeriodTest(d, s)})
  BY DEF MatchTests
<1>2. \A o : (\A i \in items : Truth(ItemTest(d, i), One(s, o), w) = "T") <=> good(o)
  BY DEF Scoped
<1> HIDE DEF items
<1>3. \A o : Holds(MatchTests(d, s), One(s, o), w) <=>
               /\ \A i \in items : Truth(ItemTest(d, i), One(s, o), w) = "T"
               /\ s \notin d.families => Truth(PeriodTest(d, s), One(s, o), w) = "T"
  BY <1>1 DEF Holds
<1>4. \A o \in Selected(d) : Key(d, o) = s /\ s \notin d.families =>
        (Truth(PeriodTest(d, s), One(s, o), w) = "T" <=> w[o] # "out")
  <2> SUFFICES ASSUME NEW o \in Selected(d), Key(d, o) = s, s \notin d.families
               PROVE  Truth(PeriodTest(d, s), One(s, o), w) = "T" <=> w[o] # "out"
    OBVIOUS
  <2>1. o = s /\ o # Null
    BY KeysOfTables, AnswerAssumption
  <2>2. Key(d, s) = s
    BY <2>1
  <2>3. One(s, o)[s] = o
    BY DEF One
  <2> QED
    BY <2>1, <2>2, <2>3, PeriodHolds
<1> HIDE DEF good
<1>5. \A o \in Selected(d) : Key(d, o) = s =>
        (o \in Alone(d, s, w) /\ Holds(MatchTests(d, s), One(s, o), w) <=> o \in There(d, s, w) /\ good(o))
  BY <1>2, <1>3, <1>4 DEF Alone, There
<1>6. Matching(d, s, w) = {o \in There(d, s, w) : good(o)}
  BY DEF Matching, good
<1>7. /\ \A o \in Alone(d, s, w) : o \in Selected(d) /\ Key(d, o) = s
      /\ \A o \in There(d, s, w) : o \in Selected(d) /\ Key(d, o) = s
  BY DEF Alone, There
<1> QED
  BY <1>5, <1>6, <1>7

(* What is carried of rows. *)
Cut(R, K) == {OnlyFor(r, K) : r \in R}

(* Every source of a row kept leaves the row. *)
LEMMA OnlyAll ==
  ASSUME NEW K, NEW T, NEW r \in [K -> T]
  PROVE  OnlyFor(r, K) = r
BY DEF OnlyFor

(* Leaving out the source joined last gives back the row before it. *)
LEMMA OnlyOld ==
  ASSUME NEW K, NEW T, NEW l \in [K -> T], NEW new, new \notin K, NEW x
  PROVE  OnlyFor(Joined(l, One(new, x)), K) = l
BY DEF OnlyFor, Joined, One

(* A pair a join met is a left row with a value to join on and a row of the new source. *)
LEMMA MetIs ==
  ASSUME NEW L, NEW from, NEW new, NEW M, NEW q
  PROVE  q \in Met(L, from, new, M) <=> \E l \in L, x \in M : q = Joined(l, One(new, x)) /\ l[from] # Null
<1>1. ASSUME NEW l \in L, NEW x \in M, q = Joined(l, One(new, x)), l[from] # Null
      PROVE  q \in Met(L, from, new, M)
  <2>1. <<l, x>> \in {p \in L \X M : p[1][from] # Null}
    BY <1>1
  <2> QED
    BY <1>1, <2>1 DEF Met
<1>2. ASSUME q \in Met(L, from, new, M)
      PROVE  \E l \in L, x \in M : q = Joined(l, One(new, x)) /\ l[from] # Null
  <2>1. PICK p \in L \X M : p[1][from] # Null /\ q = Joined(p[1], One(new, p[2]))
    BY <1>2 DEF Met
  <2>2. p[1] \in L /\ p[2] \in M
    OBVIOUS
  <2> QED
    BY <2>1, <2>2
<1> QED
  BY <1>1, <1>2

(* A join that may come next: it adds a source to V, and the node that makes it. *)
Joinable(d, V, k, from, new) ==
  /\ k \in DOMAIN d.joins /\ from \in V /\ new \in Sources(d) /\ new \notin V
  /\ \/ from = Left(d, d.joins[k]) /\ new = Right(d, d.joins[k])
     \/ d.joins[k].type = "inner" /\ from = Right(d, d.joins[k]) /\ new = Left(d, d.joins[k])
  /\ d.joins[k].type = "inner" => new \notin DirectedRights(d)
JoinsAs(n, d, k, from, new) ==
  /\ On(n, from, new) /\ n.join = d.joins[k].type
  /\ n.match = IF d.joins[k].type = "inner" THEN {} ELSE MatchTests(d, new)

(* A join of the plan adds its source. *)
LEMMA JoinGives ==
  ASSUME NEW d, Usable(d), NEW w, NEW V, V \subseteq Sources(d), NEW J, JoinedWithin(d, V, J),
         NEW k, NEW from, NEW new, Joinable(d, V, k, from, new), NEW n, JoinsAs(n, d, k, from, new)
  PROVE  Cut(JoinRows(n, Partial(d, V, J, w), RowsAlone(d, new, w), {new}, w), (V \cup {new}) \ AntiRights(d))
           = Partial(d, V \cup {new}, J \cup {k}, w)
<1>0. \E j, K : j = d.joins[k] /\ K = (V \cup {new}) \ AntiRights(d)
  OBVIOUS
<1> PICK j, K : j = d.joins[k] /\ K = (V \cup {new}) \ AntiRights(d)
  BY <1>0
<1>16. /\ k \in DOMAIN d.joins /\ from \in V /\ new \in Sources(d) /\ new \notin V
       /\ \/ from = Left(d, j) /\ new = Right(d, j)
          \/ j.type = "inner" /\ from = Right(d, j) /\ new = Left(d, j)
       /\ j.type = "inner" => new \notin DirectedRights(d)
       /\ On(n, from, new) /\ n.join = j.type
       /\ n.match = IF j.type = "inner" THEN {} ELSE MatchTests(d, new)
  BY DEF Joinable, JoinsAs
<1> DEFINE L == Partial(d, V, J, w)
           A == AntiRights(d)
           kept == V \ A
           C == Alone(d, new, w)
           U == V \cup {new}
           T == Selected(d) \cup {Null}
           P == Partial(d, U, J \cup {k}, w)
<1>1. /\ j.type \in {"inner", "left", "anti"} /\ A \subseteq DirectedRights(d)
      /\ Left(d, j) \notin A
      /\ j.type # "inner" => Right(d, j) \in DirectedRights(d)
      /\ j.type = "anti" <=> Right(d, j) \in A
  BY <1>16, EndsOfJoins
<1>2. from \in kept /\ new \notin kept
  BY <1>1, <1>16
<1>3. \A l \in L : l \in [kept -> T] /\ DOMAIN l = kept
  BY DEF Partial
<1>4. \A r \in P : r \in [U \ A -> T]
  BY Zenon DEF Partial
<1>5. Null \notin C /\ C \subseteq Selected(d) /\ Null \notin Selected(d)
  BY KeysOfTables, AnswerAssumption DEF Alone
<1>6. RowsAlone(d, new, w) = Ones(new, C)
  BY DEF RowsAlone, Ones
<1>8. \A l \in L : \A x : Joined(l, One(new, x))[new] = x /\ Joined(l, One(new, x))[from] = l[from]
  <2> SUFFICES ASSUME NEW l \in L, NEW x
               PROVE  Joined(l, One(new, x))[new] = x /\ Joined(l, One(new, x))[from] = l[from]
    OBVIOUS
  <2>1. new \notin DOMAIN l /\ from \in DOMAIN l
    BY <1>2, <1>3
  <2> QED
    BY <2>1, JoinedNew, JoinedOld
<1>9. new \notin A => \A q : q \in P <=>
        \E l \in L, x \in There(d, new, w) \cup {Null} :
          q = Joined(l, One(new, x)) /\ Fits(d, new, x, w) /\ JoinMet(d, j, q, w)
  <2> SUFFICES ASSUME new \notin A, NEW q
               PROVE  q \in P <=>
                 \E l \in L, x \in There(d, new, w) \cup {Null} :
                   q = Joined(l, One(new, x)) /\ Fits(d, new, x, w) /\ JoinMet(d, j, q, w)
    OBVIOUS
  <2>1. q \in Partial(d, V \cup {new}, J \cup {k}, w) <=> Grown(d, V, J, k, new, w, q)
    BY <1>16, Extended
  <2> QED
    BY <2>1 DEF Grown
<1>15. new = Right(d, j) /\ j.type = "anti" => P = {l \in L : Found(d, j, l, w) = {}}
  <2> SUFFICES ASSUME new = Right(d, j), j.type = "anti", NEW q
               PROVE  q \in P <=> q \in L /\ Found(d, j, q, w) = {}
    OBVIOUS
  <2>1. q \in Partial(d, V \cup {Right(d, d.joins[k])}, J \cup {k}, w) <=>
           q \in Partial(d, V, J, w) /\ Found(d, d.joins[k], q, w) = {}
    BY <1>16, Excluded
  <2> QED
    BY <2>1
<1> HIDE DEF L, P
<1>7. Lack(L, new)
  BY <1>2, <1>3 DEF Lack
<1>10. JoinRows(n, L, RowsAlone(d, new, w), {new}, w) = Results(n, L, from, new, Fulfilling(n.match, new, C, w))
  <2>1. Null \notin C
    BY <1>5
  <2> HIDE DEF C
  <2>2. JoinRows(n, L, Ones(new, C), {new}, w) = Results(n, L, from, new, Fulfilling(n.match, new, C, w))
    BY <1>7, <1>16, <2>1, JoinRowsAre
  <2> QED
    BY <1>6, <2>2
<1>11. CASE j.type = "inner"
  <2>1. new \notin DirectedRights(d) /\ new \notin A
    BY <1>1, <1>11, <1>16
  <2>2. C = Fulfilling(n.match, new, C, w)
    BY <1>11, <1>16 DEF Holds, Fulfilling
  <2>3. JoinRows(n, L, RowsAlone(d, new, w), {new}, w) = Met(L, from, new, C)
    BY <1>10, <1>11, <1>16, <2>2 DEF Results
  <2>4. \A x : x \in C <=> x \in There(d, new, w) /\ Passes(d, new, x, w)
    BY <2>1 DEF Alone, There
  <2>5. \A x : x \in There(d, new, w) \cup {Null} /\ Fits(d, new, x, w) <=> x \in C
    BY <1>5, <2>1, <2>4 DEF Fits, There
  <2>6. \A l \in L : \A x : JoinMet(d, j, Joined(l, One(new, x)), w) <=> l[from] # Null /\ x # Null
    BY <1>8, <1>11, <1>16 DEF JoinMet
  <2>7. \A q : q \in P <=> \E l \in L, x \in C : q = Joined(l, One(new, x)) /\ l[from] # Null
    BY <1>5, <1>9, <2>1, <2>5, <2>6
  <2>8. \A q : q \in Met(L, from, new, C) <=> \E l \in L, x \in C : q = Joined(l, One(new, x)) /\ l[from] # Null
    BY MetIs
  <2>9. Met(L, from, new, C) = P
    BY <2>7, <2>8
  <2>10. \A q \in P : OnlyFor(q, K) = q
    BY <1>4, OnlyAll
  <2>11. Cut(P, K) = P
    BY <2>10 DEF Cut
  <2> QED
    BY <2>3, <2>9, <2>11 DEF L, P
<1>12. ASSUME j.type # "inner"
       PROVE  /\ from = Left(d, j) /\ new = Right(d, j) /\ new \in DirectedRights(d)
              /\ Matching(d, new, w) = Fulfilling(n.match, new, C, w)
              /\ \A l \in L : Found(d, j, l, w) = IF l[from] = Null THEN {} ELSE Matching(d, new, w)
  <2>1. from = Left(d, j) /\ new = Right(d, j) /\ new \in DirectedRights(d)
    BY <1>1, <1>12, <1>16
  <2>2. Matching(d, new, w) = Fulfilling(n.match, new, C, w)
    BY <1>12, <1>16, <2>1, MatchesFound DEF Fulfilling
  <2> QED
    BY <2>1, <2>2 DEF Found
<1>13. CASE j.type = "left"
  <2> DEFINE M == Matching(d, new, w)
  <2> HIDE DEF M
  <2>1. new \notin A /\ from = Left(d, j) /\ new = Right(d, j) /\ new \in DirectedRights(d)
    BY <1>1, <1>12, <1>13, <1>16
  <2>2. JoinRows(n, L, RowsAlone(d, new, w), {new}, w) = Met(L, from, new, M) \cup Padded(Unmet(L, from, M), new)
    BY <1>10, <1>12, <1>13, <1>16 DEF M, Results
  <2>3. \A x : x \in There(d, new, w) \cup {Null} /\ Fits(d, new, x, w) <=> x \in There(d, new, w) \cup {Null}
    BY <2>1 DEF Fits
  <2>4. M \subseteq There(d, new, w) /\ Null \notin M
    BY <1>5 DEF Matching, There, M
  <2>5. \A l \in L : \A x : JoinMet(d, j, Joined(l, One(new, x)), w) <=>
                          IF l[from] = Null \/ M = {} THEN x = Null ELSE x \in M
    <3> SUFFICES ASSUME NEW l \in L, NEW x
                 PROVE  JoinMet(d, j, Joined(l, One(new, x)), w) <=>
                          IF l[from] = Null \/ M = {} THEN x = Null ELSE x \in M
      OBVIOUS
    <3> DEFINE q == Joined(l, One(new, x))
    <3>1. q[Left(d, j)] = l[from] /\ q[Right(d, j)] = x
      BY <1>8, <2>1
    <3> HIDE DEF q
    <3>2. Found(d, j, q, w) = IF l[from] = Null THEN {} ELSE M
      BY <2>1, <3>1 DEF Found, M
    <3>3. JoinMet(d, j, q, w) <=> IF l[from] = Null \/ M = {} THEN x = Null ELSE x \in M
      BY <1>13, <3>1, <3>2 DEF JoinMet
    <3> QED
      BY <3>3 DEF q
  <2>6. \A q : q \in P <=>
               \E l \in L : \E x : q = Joined(l, One(new, x)) /\ IF l[from] = Null \/ M = {} THEN x = Null ELSE x \in M
    BY <1>9, <2>1, <2>3, <2>4, <2>5
  <2>7. \A q : q \in Met(L, from, new, M) <=> \E l \in L, x \in M : q = Joined(l, One(new, x)) /\ l[from] # Null
    BY MetIs
  <2>8. \A q : q \in Padded(Unmet(L, from, M), new) <=>
               \E l \in L : q = Joined(l, One(new, Null)) /\ (l[from] = Null \/ M = {})
    BY DEF Padded, Unmet
  <2>9. Met(L, from, new, M) \cup Padded(Unmet(L, from, M), new) = P
    <3>1. \A q : q \in Met(L, from, new, M) \cup Padded(Unmet(L, from, M), new) <=> q \in P
      <4> HIDE DEF U, C
      <4> QED
        BY <2>6, <2>7, <2>8
    <3> QED
      BY <3>1
  <2>10. \A q \in P : OnlyFor(q, K) = q
    BY <1>4, OnlyAll
  <2>11. Cut(P, K) = P
    BY <2>10 DEF Cut
  <2> QED
    BY <2>2, <2>9, <2>11 DEF L, P
<1>14. CASE j.type = "anti"
  <2> DEFINE M == Matching(d, new, w)
  <2> HIDE DEF M
  <2>1. new \in A /\ from = Left(d, j) /\ new = Right(d, j) /\ K = kept
    BY <1>1, <1>12, <1>14, <1>16
  <2>2. \/ JoinRows(n, L, RowsAlone(d, new, w), {new}, w) = Unmet(L, from, M)
        \/ JoinRows(n, L, RowsAlone(d, new, w), {new}, w) = Padded(Unmet(L, from, M), new)
    BY <1>10, <1>12, <1>14, <1>16 DEF M, Results
  <2>3. P = {l \in L : Found(d, j, l, w) = {}}
    BY <1>14, <1>15, <2>1
  <2>4. Unmet(L, from, M) = P
    BY <1>12, <1>14, <2>3 DEF Unmet, M
  <2>5. \A l \in L : OnlyFor(l, K) = l /\ OnlyFor(Joined(l, One(new, Null)), K) = l
    <3> SUFFICES ASSUME NEW l \in L PROVE OnlyFor(l, K) = l /\ OnlyFor(Joined(l, One(new, Null)), K) = l
      OBVIOUS
    <3>1. l \in [kept -> T]
      BY <1>3
    <3> HIDE DEF kept, T
    <3> QED
      BY <1>2, <2>1, <3>1, OnlyAll, OnlyOld
  <2>6. Unmet(L, from, M) \subseteq L
    BY DEF Unmet
  <2>7. Cut(Unmet(L, from, M), K) = Unmet(L, from, M)
    BY <2>5, <2>6 DEF Cut
  <2>8. Cut(Padded(Unmet(L, from, M), new), K) = Unmet(L, from, M)
    BY <2>5, <2>6 DEF Padded, Cut
  <2> QED
    BY <2>2, <2>4, <2>7, <2>8 DEF L, P
<1> QED
  BY <1>1, <1>11, <1>13, <1>14

-------------------------------------------------------------------------------
(* Where the joins start and end *)

(* The rows meant, written as a set of functions on the sources an answer shows. *)
LEMMA MeaningIs ==
  ASSUME NEW d, NEW w
  PROVE  Meaning(d, w) =
           {r \in [Sources(d) \ AntiRights(d) -> Selected(d) \cup {Null}] :
              /\ \A s \in Sources(d) \ AntiRights(d) : r[s] \in There(d, s, w) \cup {Null}
              /\ \A s \in (Sources(d) \ AntiRights(d)) \ DirectedRights(d) : r[s] # Null
              /\ \A j \in ToSet(d.joins) : JoinMet(d, j, r, w)
              /\ \A i \in ToSet(d.filters) :
                   (\A s \in DirectedRights(d) : ~Scoped(d, i, s)) => Truth(ItemTest(d, i), r, w) = "T"}
BY Zenon DEF Meaning, There, Scoped, Matching, One, JoinMet, Found

(* The right ends of left and anti joins are sources, those of anti joins among them. *)
LEMMA DirectedAreSources ==
  ASSUME NEW d, Usable(d)
  PROVE  DirectedRights(d) \subseteq Sources(d) /\ AntiRights(d) \subseteq DirectedRights(d)
<1> SUFFICES ASSUME NEW j \in Directed(d) PROVE Right(d, d.joins[j]) \in Sources(d)
  BY DEF DirectedRights, AntiRights
<1>1. j \in DOMAIN d.joins
  BY DEF Directed
<1> QED
  BY <1>1, EndsOfJoins

(* What is tested after the joins makes the rows that are asked for. *)
LEMMA RowsMeant ==
  ASSUME NEW d, Usable(d), NEW w
  PROVE  {r \in Partial(d, Sources(d), DOMAIN d.joins, w) : Holds(PostTests(d), r, w)} = Meaning(d, w)
<1> DEFINE A == AntiRights(d)
           D == DirectedRights(d)
           kept == Sources(d) \ A
           F == ToSet(d.filters)
           late(i) == i.scope = "where" /\ (FilterSources(d, i) \cap D # {} \/ Cardinality(FilterSources(d, i)) > 1)
           asked(i) == \A s \in D : ~Scoped(d, i, s)
           own(i) == \E s \in kept \ D : FilterSources(d, i) = {s}
           true(i, r) == Truth(ItemTest(d, i), r, w) = "T"
<1>1. D \subseteq Sources(d) /\ A \subseteq D
  BY DirectedAreSources
<1>2. \A r : Holds(PostTests(d), r, w) <=> \A i \in F : late(i) => true(i, r)
  <2>1. PostTests(d) = {ItemTest(d, i) : i \in {x \in F : late(x)}}
    BY DEF PostTests
  <2> HIDE DEF late
  <2> QED
    BY <2>1 DEF Holds
<1>3. \A i \in F : asked(i) <=> late(i) \/ own(i)
  <2> SUFFICES ASSUME NEW i \in F PROVE asked(i) <=> late(i) \/ own(i)
    OBVIOUS
  <2>1. i.scope \in {"match", "where"}
    BY AnswerAssumption DEF Usable
  <2>2. CASE \E s \in Sources(d) : FilterSources(d, i) = {s} /\ ~Cardinality(FilterSources(d, i)) > 1
    <3>1. PICK s \in Sources(d) : FilterSources(d, i) = {s} /\ ~Cardinality(FilterSources(d, i)) > 1
      BY <2>2
    <3>2. asked(i) <=> ~(s \in D /\ i.scope = "match")
      BY <3>1 DEF Scoped
    <3>3. late(i) <=> i.scope = "where" /\ s \in D
      BY <3>1
    <3>4. own(i) <=> s \notin D
      BY <1>1, <3>1
    <3> QED
      BY <2>1, <3>2, <3>3, <3>4
  <2>3. CASE i.scope = "where" /\ Cardinality(FilterSources(d, i)) > 1 /\ ~\E s : FilterSources(d, i) = {s}
    BY <2>3 DEF Scoped
  <2> QED
    BY <2>2, <2>3, FilterKinds
<1>4. ASSUME NEW r
      PROVE  (\A s \in kept : s \notin D => Passes(d, s, r[s], w)) <=> \A i \in F : own(i) => true(i, r)
  <2>1. ASSUME NEW s \in kept, NEW i \in F, FilterSources(d, i) = {s}
        PROVE  Truth(ItemTest(d, i), One(s, r[s]), w) = Truth(ItemTest(d, i), r, w)
    <3>1. One(s, r[s])[s] = r[s]
      BY DEF One
    <3> QED
      BY <2>1, <3>1, ItemSame
  <2> QED
    BY <2>1 DEF Passes
<1>5. \A r : (\A j \in ToSet(d.joins) : JoinMet(d, j, r, w)) <=> \A k \in DOMAIN d.joins : JoinMet(d, d.joins[k], r, w)
  BY DEF ToSet
<1> HIDE DEF late, asked, own, true
<1>6. \A r : (\A i \in F : asked(i) => true(i, r)) <=>
               (\A i \in F : late(i) => true(i, r)) /\ (\A i \in F : own(i) => true(i, r))
  BY <1>3
<1>7. Meaning(d, w) =
        {r \in [kept -> Selected(d) \cup {Null}] :
           /\ \A s \in kept : r[s] \in There(d, s, w) \cup {Null}
           /\ \A s \in kept \ D : r[s] # Null
           /\ \A j \in ToSet(d.joins) : JoinMet(d, j, r, w)
           /\ \A i \in F : asked(i) => true(i, r)}
  BY MeaningIs, Zenon DEF asked, true
<1>8. Partial(d, Sources(d), DOMAIN d.joins, w) =
        {r \in [kept -> Selected(d) \cup {Null}] :
           /\ \A s \in kept : /\ r[s] \in There(d, s, w) \cup {Null}
                              /\ s \notin D => r[s] # Null /\ Passes(d, s, r[s], w)
           /\ \A k \in DOMAIN d.joins : JoinMet(d, d.joins[k], r, w)}
  BY Zenon DEF Partial, Fits
<1> HIDE DEF F
<1>9. \A r : r \in Meaning(d, w) <=> r \in Partial(d, Sources(d), DOMAIN d.joins, w) /\ Holds(PostTests(d), r, w)
  BY <1>2, <1>4, <1>5, <1>6, <1>7, <1>8
<1> QED
  BY <1>9

(* The joins start from a source that no left or anti join needs another for. *)
LEMMA RootIsFree ==
  ASSUME NEW d, Usable(d)
  PROVE  Root(d) \in Roots(d)
<1> DEFINE asked == {i \in DOMAIN d.requested : Key(d, d.requested[i][1]) \in Roots(d)}
<1>1. CASE asked = {}
  <2>1. Root(d) = Lists!SetToSeq(Roots(d))[1]
    BY <1>1, Zenon DEF Root
  <2>2. IsFiniteSet(Sources(d))
    <3> DEFINE g == [o \in Selected(d) |-> Key(d, o)]
    <3>1. {g[o] : o \in Selected(d)} = Sources(d)
      BY DEF Sources
    <3> HIDE DEF g
    <3>2. IsFiniteSet({g[o] : o \in Selected(d)})
      BY KeysOfTables, FiniteImage
    <3> QED
      BY <3>1, <3>2
  <2>3. IsFiniteSet(Roots(d)) /\ Roots(d) # {}
    BY <2>2, FiniteParts DEF Roots, Usable, Convertible
  <2> DEFINE list == Lists!SetToSeq(Roots(d))
  <2>4. list \in Seq(Roots(d)) /\ ToSet(list) = Roots(d)
    BY <2>3, SetListed
  <2> HIDE DEF list
  <2>5. Len(list) \in Nat /\ DOMAIN list = 1 .. Len(list) /\ Len(list) # 0
    BY <2>3, <2>4 DEF ToSet
  <2>6. 1 \in DOMAIN list
    BY <2>5
  <2> QED
    BY <2>1, <2>4, <2>6 DEF list, ToSet
<1>2. CASE asked # {}
  <2>1. Root(d) = Key(d, d.requested[CHOOSE i \in asked : \A j \in asked : i <= j][1])
    BY <1>2, Zenon DEF Root
  <2>2. asked \subseteq Nat
    <3>1. d.requested \in Seq(ToSet(d.requested))
      BY AnswerAssumption DEF Usable
    <3>2. DOMAIN d.requested \subseteq Nat
      BY <3>1
    <3> QED
      BY <3>2
  <2>3. \E i \in asked : \A j \in asked : i <= j
    <3> HIDE DEF asked
    <3> QED
      BY <1>2, <2>2, LeastNumber
  <2>4. (CHOOSE i \in asked : \A j \in asked : i <= j) \in asked
    <3> HIDE DEF asked
    <3> QED
      BY <2>3
  <2> QED
    BY <2>1, <2>4
<1> QED
  BY <1>1, <1>2

(* The rows of a source nothing is directed at are the partial answer over it alone. *)
LEMMA RowsOfRoot ==
  ASSUME NEW d, Usable(d), NEW s \in Roots(d), NEW w
  PROVE  RowsAlone(d, s, w) = Partial(d, {s}, {}, w)
<1>1. s \in Sources(d) /\ s \notin DirectedRights(d) /\ s \notin AntiRights(d)
  BY DirectedAreSources DEF Roots
<1>2. {s} \ AntiRights(d) = {s}
  BY <1>1
<1>3. \A x : x \in Alone(d, s, w) <=> x # Null /\ Fits(d, s, x, w)
  <2>1. Null \notin Selected(d)
    BY KeysOfTables, AnswerAssumption
  <2> QED
    BY <1>1, <2>1 DEF Alone, Fits, There
<1>4. Partial(d, {s}, {}, w) = {r \in [{s} -> Selected(d) \cup {Null}] : Fits(d, s, r[s], w)}
  BY <1>2 DEF Partial
<1>5. \A x \in Alone(d, s, w) : x \in Selected(d)
  BY DEF Alone
<1>6. \A x : Fits(d, s, x, w) => x # Null
  BY <1>1 DEF Fits
<1>7. ASSUME NEW x \in Alone(d, s, w) PROVE One(s, x) \in Partial(d, {s}, {}, w)
  BY <1>3, <1>4, <1>5 DEF One
<1>8. ASSUME NEW r \in Partial(d, {s}, {}, w) PROVE r[s] \in Alone(d, s, w) /\ r = One(s, r[s])
  BY <1>3, <1>4, <1>6 DEF One
<1> QED
  BY <1>7, <1>8 DEF RowsAlone

-------------------------------------------------------------------------------
(* Plans in the making *)

(* The joins that were made of a plan p. *)
Used(p) == DOMAIN p.draft.joins \ p.unused

(* The current node of a tree holds the rows that its joins leave. *)
TreeRows(p) ==
  FamiliesFit(p.draft) => \A w, v : Valued(p.nodes, v, w) => v[p.current] = Partial(p.draft, p.visited, Used(p), w)

TreeHolds(p) ==
  /\ Usable(p.draft) /\ p.statements = <<>>
  /\ p.nodes \in Seq(ToSet(p.nodes)) /\ \A n \in ToSet(p.nodes) : WellMade(n)
  /\ ToSet(SourceNodes(p.draft)) \subseteq ToSet(p.nodes)
  /\ p.unused \subseteq DOMAIN p.draft.joins
  /\ p.visited \subseteq Sources(p.draft) /\ JoinedWithin(p.draft, p.visited, Used(p))
  /\ p.carried \in Seq(ToSet(p.carried))
  /\ {c[1] : c \in ToSet(p.carried)} = p.visited \ AntiRights(p.draft)
  /\ TreeRows(p)

(* The statements so far are those of the first materialized nodes, and the last of
   these has the rows that are asked for. *)
PlanMeans(p) ==
  /\ Usable(p.draft) /\ Linked(p.nodes) /\ Compiled(p.nodes, p.statements)
  /\ \A w, v : Valued(p.nodes, v, w) => v[<<"result">>] = Meaning(p.draft, w)
StatementsHold(p) ==
  /\ PlanMeans(p) /\ p.nodes # <<>> /\ Last(p.nodes).kind = "materialize" /\ Last(p.nodes).id = <<"result">>
  /\ \A i \in DOMAIN p.statements : /\ p.statements[i] = Statement(p.nodes, Materialized(p.nodes)[i])
                                    /\ p.statements[i].target # <<"result">>
PlanCompiled(p) == PlanMeans(p) /\ p.statements # <<>> /\ Last(p.statements).target = <<"result">>

PlanHolds(p) ==
  /\ DOMAIN p = DOMAIN Waiting(<<>>)
  /\ p.phase \in {"none", "draft", "join", "compile", "done"}
  /\ p.phase = "draft" => p.draft \in Drafts /\ p.statements = <<>>
  /\ p.phase = "join" => TreeHolds(p)
  /\ p.phase = "compile" => StatementsHold(p)
  /\ p.phase = "done" /\ p.code = "ok" => PlanCompiled(p)
PlanInv == PlanHolds(plan)

(* A refusal keeps the invariant, which asks nothing of a plan refused. *)
LEMMA PlanRefused ==
  ASSUME PlanInv, NEW code, code # "ok", Refused(code)
  PROVE  PlanInv'
<1>1. DOMAIN plan = DOMAIN Waiting(<<>>)
  BY DEF PlanInv, PlanHolds
<1>2. plan' = [plan EXCEPT !.phase = "done", !.code = code]
  BY DEF Refused
<1>3. plan'.phase = "done" /\ plan'.code = code /\ DOMAIN plan' = DOMAIN plan
  BY <1>1, <1>2 DEF Waiting
<1> QED
  BY <1>1, <1>3 DEF PlanInv, PlanHolds

(* A source is chosen to start from. *)
LEMMA SourcesWellMade ==
  ASSUME NEW d, Usable(d), NEW n \in ToSet(SourceNodes(d))
  PROVE  WellMade(n)
<1>1. CASE \E o \in Selected(d) : n \in ToSet(ScanNodes(d, o))
  <2>1. PICK o \in Selected(d) : n \in ToSet(ScanNodes(d, o))
    BY <1>1
  <2>2. ScanNodes(d, o) = <<ScanOf(d, o)>> \/ ScanNodes(d, o) = <<ScanOf(d, o), FilterOf(d, o)>>
    BY ScanNodesAre
  <2>3. n = ScanOf(d, o) \/ n = FilterOf(d, o)
    <3>1. ToSet(<<ScanOf(d, o)>>) = {ScanOf(d, o)}
      BY OneIsList
    <3>2. ToSet(<<ScanOf(d, o), FilterOf(d, o)>>) = {ScanOf(d, o), FilterOf(d, o)}
      BY PairIsList
    <3> QED
      BY <2>1, <2>2, <3>1, <3>2
  <2>4. CASE n = ScanOf(d, o)
    <3>1. n.kind = "scan" /\ n.inputs = <<>>
      BY <2>4, ScanIs
    <3> QED
      BY <3>1 DEF WellMade
  <2>5. CASE n = FilterOf(d, o)
    <3>1. n.kind = "filter" /\ n.inputs = <<<<"scan", o>>>>
      BY <2>5, FilterIs
    <3>2. n.inputs \in Seq(ToSet(n.inputs)) /\ Len(n.inputs) = 1
      BY <3>1, OneIsList
    <3> QED
      BY <3>1, <3>2 DEF WellMade
  <2> QED
    BY <2>3, <2>4, <2>5
<1>2. CASE \E f \in d.families : n \in ToSet(FamilyNodes(d, f))
  <2>1. PICK f \in d.families : n \in ToSet(FamilyNodes(d, f))
    BY <1>2
  <2>2. n = UnionOf(d, f) \/ n = WholeOf(d, f)
    BY <2>1, FamilyNodesAre, PairIsList
  <2>3. CASE n = UnionOf(d, f)
    BY <2>3, UnionIs DEF WellMade
  <2>4. CASE n = WholeOf(d, f)
    <3>1. n.kind = "materialize" /\ n.inputs = <<<<"union", f>>>>
      BY <2>4, WholeIs
    <3>2. n.inputs \in Seq(ToSet(n.inputs)) /\ Len(n.inputs) = 1
      BY <3>1, OneIsList
    <3> QED
      BY <3>1, <3>2 DEF WellMade
  <2> QED
    BY <2>2, <2>3, <2>4
<1> QED
  BY <1>1, <1>2, SourceNodesAre

(* The columns of a source name that source. *)
LEMMA ColumnsAreOfSource ==
  ASSUME NEW d, Usable(d), NEW s \in Sources(d)
  PROVE  {c[1] : c \in ToSet(ColumnsOfSource(d, s))} = {s}
<1>1. \A f : <<s, f[2]>>[1] = s
  OBVIOUS
<1>2. \A c \in ToSet(ColumnsOfSource(d, s)) : c[1] = s
  <2>1. ToSet(ColumnsOfSource(d, s)) = {<<s, f[2]>> : f \in FieldsOfSource(d, s)}
    BY ColumnsListed
  <2> QED
    BY <1>1, <2>1
<1>3. <<s, "p">>[1] = s /\ <<s, "p">> \in ToSet(ColumnsOfSource(d, s))
  BY ColumnsListed
<1> QED
  BY <1>2, <1>3

(* The root alone is a tree of joins. *)
LEMMA TreeStarts ==
  ASSUME NEW d, Usable(d), NEW p, p.draft = d, p.statements = <<>>, p.visited = {Root(d)},
         p.unused = DOMAIN d.joins, p.nodes = SourceNodes(d),
         p.carried = ColumnsOfSource(d, Root(d)), p.current = NodeOfSource(d, Root(d))
  PROVE  TreeHolds(p)
<1>1. Root(d) \in Roots(d) /\ Root(d) \in Sources(d) /\ Root(d) \notin AntiRights(d) /\ Used(p) = {}
  BY RootIsFree, DirectedAreSources DEF Roots, Used
<1>2. SourceNodes(d) \in Seq(ToSet(SourceNodes(d))) /\ \A n \in ToSet(SourceNodes(d)) : WellMade(n)
  BY SourceNodesAre, SourcesWellMade
<1>3. /\ ColumnsOfSource(d, Root(d)) \in Seq(ToSet(ColumnsOfSource(d, Root(d))))
      /\ {c[1] : c \in ToSet(ColumnsOfSource(d, Root(d)))} = {Root(d)}
  BY <1>1, ColumnsListed, ColumnsAreOfSource
<1>4. TreeRows(p)
  <2> SUFFICES ASSUME FamiliesFit(d), NEW w, NEW v, Valued(SourceNodes(d), v, w)
               PROVE  v[NodeOfSource(d, Root(d))] = Partial(d, {Root(d)}, {}, w)
    BY <1>1 DEF TreeRows
  <2>1. v[NodeOfSource(d, Root(d))] = RowsAlone(d, Root(d), w)
    BY <1>1, SourceValue
  <2> QED
    BY <1>1, <2>1, RowsOfRoot
<1>5. JoinedWithin(d, {Root(d)}, {})
  BY DEF JoinedWithin
<1> QED
  BY <1>1, <1>2, <1>3, <1>4, <1>5 DEF TreeHolds

(* Validating the draft keeps the invariant. *)
LEMMA ValidatingHolds ==
  ASSUME PlanInv, ValidateDraft
  PROVE  PlanInv'
<1> DEFINE d == plan.draft
           source == SourceNodes(d)
           carried == ColumnsOfSource(d, Root(d))
           current == NodeOfSource(d, Root(d))
<1>1. d \in Drafts /\ plan.statements = <<>> /\ DOMAIN plan = DOMAIN Waiting(<<>>)
  BY DEF PlanInv, PlanHolds, ValidateDraft, InPlan
<1>2. \/ \E code : code # "ok" /\ Refused(code)
      \/ /\ Diagnosis(d) = "ok" /\ Convertible(d)
         /\ plan' = [plan EXCEPT !.phase = "join", !.visited = {Root(d)}, !.unused = DOMAIN d.joins,
                                 !.nodes = source, !.carried = carried, !.current = current]
  BY DEF ValidateDraft
<1>3. CASE /\ Diagnosis(d) = "ok" /\ Convertible(d)
           /\ plan' = [plan EXCEPT !.phase = "join", !.visited = {Root(d)}, !.unused = DOMAIN d.joins,
                                   !.nodes = source, !.carried = carried, !.current = current]
  <2>1. Usable(d)
    BY <1>1, <1>3 DEF Usable
  <2> HIDE DEF source, carried, current
  <2>2. /\ plan'.phase = "join" /\ DOMAIN plan' = DOMAIN plan /\ plan'.draft = d /\ plan'.statements = <<>>
        /\ plan'.visited = {Root(d)} /\ plan'.unused = DOMAIN d.joins /\ plan'.nodes = source
        /\ plan'.carried = carried /\ plan'.current = current
    BY <1>1, <1>3 DEF Waiting
  <2>3. TreeHolds(plan')
    BY <2>1, <2>2, TreeStarts DEF source, carried, current
  <2> QED
    BY <1>1, <2>2, <2>3 DEF PlanInv, PlanHolds
<1> QED
  BY <1>2, <1>3, PlanRefused

(* The node of a join, and what it carries. *)
CarriesBoth(n, names, from, more, other) == n.columns = Copied(names, from) \o Copied(more, other)

(* A join carries the columns of both its sides. *)
LEMMA CopiedAre ==
  ASSUME NEW names, names \in Seq(ToSet(names)), NEW from, NEW more, more \in Seq(ToSet(more)), NEW other,
         NEW n, CarriesBoth(n, names, from, more, other)
  PROVE  ToSet(NamesOf(n)) = ToSet(names) \cup ToSet(more)
<1> DEFINE a == Copied(names, from)
           b == Copied(more, other)
<1>1. /\ Len(names) \in Nat /\ DOMAIN names = 1 .. Len(names) /\ DOMAIN a = 1 .. Len(names)
      /\ \A i \in DOMAIN names : a[i].name = names[i]
  BY DEF Copied
<1>2. /\ Len(more) \in Nat /\ DOMAIN more = 1 .. Len(more) /\ DOMAIN b = 1 .. Len(more)
      /\ \A i \in DOMAIN more : b[i].name = more[i]
  BY DEF Copied
<1>3. a \in Seq(ToSet(a)) /\ b \in Seq(ToSet(b)) /\ Len(a) = Len(names) /\ Len(b) = Len(more)
  <2>1. a \in [1 .. Len(names) -> ToSet(a)]
    <3>1. a = [i \in DOMAIN names |-> [name |-> names[i], node |-> from, from |-> names[i]]]
      BY DEF Copied
    <3> HIDE DEF a
    <3> QED
      BY <1>1, <3>1 DEF ToSet
  <2>2. b \in [1 .. Len(more) -> ToSet(b)]
    <3>1. b = [i \in DOMAIN more |-> [name |-> more[i], node |-> other, from |-> more[i]]]
      BY DEF Copied
    <3> HIDE DEF b
    <3> QED
      BY <1>2, <3>1 DEF ToSet
  <2> HIDE DEF a, b
  <2>3. a \in Seq(ToSet(a)) /\ Len(a) = Len(names)
    BY <1>1, <2>1
  <2>4. b \in Seq(ToSet(b)) /\ Len(b) = Len(more)
    BY <1>2, <2>2
  <2> QED
    BY <2>3, <2>4
<1> HIDE DEF a, b
<1>4. ToSet(a \o b) = ToSet(a) \cup ToSet(b)
  <2> DEFINE T == ToSet(a) \cup ToSet(b)
  <2>1. a \in Seq(T) /\ b \in Seq(T)
    BY <1>3
  <2>2. InOrder(a, {}) /\ InOrder(b, {})
    BY DEF InOrder
  <2> HIDE DEF T
  <2> QED
    BY <2>1, <2>2, JoinedInOrder
<1>5. ToSet(NamesOf(n)) = {x.name : x \in ToSet(a \o b)}
  <2>1. n.columns = a \o b
    BY DEF a, b, CarriesBoth
  <2>2. ToSet(NamesOf(n)) = {n.columns[i].name : i \in DOMAIN n.columns}
    BY DEF NamesOf, ToSet
  <2> QED
    BY <2>1, <2>2 DEF ToSet
<1>6. {x.name : x \in ToSet(a)} = ToSet(names)
  BY <1>1 DEF ToSet
<1>7. {x.name : x \in ToSet(b)} = ToSet(more)
  BY <1>2 DEF ToSet
<1> QED
  BY <1>4, <1>5, <1>6, <1>7

(* A list with one element more. *)
LEMMA OneMore ==
  ASSUME NEW s, s \in Seq(ToSet(s)), NEW x
  PROVE  Append(s, x) \in Seq(ToSet(Append(s, x))) /\ ToSet(Append(s, x)) = ToSet(s) \cup {x}
<1> DEFINE T == ToSet(s) \cup {x}
<1>1. s \in Seq(T) /\ x \in T
  OBVIOUS
<1>2. InOrder(s, {})
  BY DEF InOrder
<1> HIDE DEF T
<1>3. Append(s, x) \in Seq(T) /\ ToSet(Append(s, x)) = ToSet(s) \cup {x}
  BY <1>1, <1>2, AppendedInOrder
<1> QED
  BY <1>3 DEF T

(* Two lists, one after the other. *)
LEMMA TwoLists ==
  ASSUME NEW s, s \in Seq(ToSet(s)), NEW t, t \in Seq(ToSet(t))
  PROVE  s \o t \in Seq(ToSet(s \o t)) /\ ToSet(s \o t) = ToSet(s) \cup ToSet(t)
<1> DEFINE T == ToSet(s) \cup ToSet(t)
<1>1. s \in Seq(T) /\ t \in Seq(T)
  OBVIOUS
<1>2. InOrder(s, {}) /\ InOrder(t, {})
  BY DEF InOrder
<1> HIDE DEF T
<1>3. s \o t \in Seq(T) /\ ToSet(s \o t) = ToSet(s) \cup ToSet(t)
  BY <1>1, <1>2, JoinedInOrder
<1> QED
  BY <1>3 DEF T

(* The node of the join number k of d, from a source that is there to a new one. *)
IsJoinOf(n, p, k, from, new, added) ==
  /\ n.kind = "join" /\ n.id = <<"join", k>> /\ n.inputs = <<p.current, NodeOfSource(p.draft, new)>>
  /\ JoinsAs(n, p.draft, k, from, new)
  /\ added = (IF p.draft.joins[k].type = "anti" THEN <<>> ELSE ColumnsOfSource(p.draft, new))
  /\ CarriesBoth(n, p.carried, p.current, added, NodeOfSource(p.draft, new))

(* A join the planner may take next leaves a tree of joins, one source larger. *)
LEMMA TreeGrows ==
  ASSUME NEW p, TreeHolds(p), NEW k, NEW from, NEW new, Joinable(p.draft, p.visited, k, from, new), k \in p.unused,
         NEW n, NEW added, IsJoinOf(n, p, k, from, new, added),
         NEW q, q.draft = p.draft, q.statements = p.statements, q.visited = p.visited \cup {new},
         q.unused = p.unused \ {k}, q.nodes = Append(p.nodes, n), q.current = <<"join", k>>,
         q.carried = p.carried \o added
  PROVE  TreeHolds(q)
<1> DEFINE d == p.draft
           j == d.joins[k]
           A == AntiRights(d)
           V == p.visited
           J == Used(p)
           K == (V \cup {new}) \ A
<1>1. /\ Usable(d) /\ p.statements = <<>> /\ p.nodes \in Seq(ToSet(p.nodes))
      /\ \A x \in ToSet(p.nodes) : WellMade(x)
      /\ ToSet(SourceNodes(d)) \subseteq ToSet(p.nodes)
      /\ p.unused \subseteq DOMAIN d.joins
      /\ V \subseteq Sources(d) /\ JoinedWithin(d, V, J)
      /\ p.carried \in Seq(ToSet(p.carried)) /\ {c[1] : c \in ToSet(p.carried)} = V \ A
      /\ TreeRows(p)
  BY DEF TreeHolds
<1>2. /\ k \in p.unused /\ k \in DOMAIN d.joins /\ from \in V /\ new \in Sources(d) /\ new \notin V
      /\ \/ from = Left(d, j) /\ new = Right(d, j)
         \/ j.type = "inner" /\ from = Right(d, j) /\ new = Left(d, j)
      /\ j.type = "inner" => new \notin DirectedRights(d)
  BY DEF Joinable
<1>3. /\ n.kind = "join" /\ n.id = <<"join", k>> /\ n.inputs = <<p.current, NodeOfSource(d, new)>>
      /\ JoinsAs(n, d, k, from, new)
      /\ added = (IF j.type = "anti" THEN <<>> ELSE ColumnsOfSource(d, new))
      /\ CarriesBoth(n, p.carried, p.current, added, NodeOfSource(d, new))
  BY DEF IsJoinOf
<1>4. /\ j.type \in {"inner", "left", "anti"} /\ A \subseteq DirectedRights(d)
      /\ j.type = "anti" <=> Right(d, j) \in A
  BY <1>1, <1>2, EndsOfJoins
<1>5. new \in A <=> j.type = "anti"
  BY <1>2, <1>4
<1>6. Used(q) = J \cup {k}
  BY <1>2 DEF Used
<1>7. JoinedWithin(d, V \cup {new}, J \cup {k})
  BY <1>1, <1>2 DEF JoinedWithin
<1> HIDE DEF A, V, J
<1>8. added \in Seq(ToSet(added)) /\ {c[1] : c \in ToSet(added)} = {new} \ A
  <2>1. CASE j.type = "anti"
    <3>1. added = <<>> /\ {new} \ A = {}
      BY <1>3, <1>5, <2>1
    <3>2. ToSet(<<>>) = {}
      BY DEF ToSet
    <3> QED
      BY <3>1, <3>2
  <2>2. CASE j.type # "anti"
    <3>1. added = ColumnsOfSource(d, new) /\ {new} \ A = {new}
      BY <1>3, <1>5, <2>2
    <3> QED
      BY <1>1, <1>2, <3>1, ColumnsListed, ColumnsAreOfSource
  <2> QED
    BY <2>1, <2>2
<1>9. /\ q.carried \in Seq(ToSet(q.carried)) /\ ToSet(q.carried) = ToSet(p.carried) \cup ToSet(added)
  BY <1>1, <1>8, TwoLists
<1>10. {c[1] : c \in ToSet(p.carried) \cup ToSet(added)} = K
  <2>1. {c[1] : c \in ToSet(p.carried) \cup ToSet(added)} = {c[1] : c \in ToSet(p.carried)} \cup {c[1] : c \in ToSet(added)}
    OBVIOUS
  <2> QED
    BY <1>1, <1>8, <2>1
<1>11. ToSet(NamesOf(n)) = ToSet(p.carried) \cup ToSet(added)
  <2>1. p.carried \in Seq(ToSet(p.carried)) /\ added \in Seq(ToSet(added))
    BY <1>1, <1>8
  <2>2. CarriesBoth(n, p.carried, p.current, added, NodeOfSource(d, new))
    BY <1>3
  <2> HIDE DEF d
  <2> QED
    BY <2>1, <2>2, CopiedAre
<1>12. /\ q.nodes \in Seq(ToSet(q.nodes)) /\ ToSet(q.nodes) = ToSet(p.nodes) \cup {n}
  BY <1>1, OneMore
<1>13. WellMade(n)
  <2>1. n.inputs \in Seq(ToSet(n.inputs)) /\ Len(n.inputs) = 2
    BY <1>3, PairIsList
  <2> QED
    BY <1>3, <2>1 DEF WellMade
<1>14. TreeRows(q)
  <2> SUFFICES ASSUME FamiliesFit(d), NEW w, NEW v, Valued(q.nodes, v, w)
               PROVE  v[<<"join", k>>] = Partial(d, V \cup {new}, J \cup {k}, w)
    BY <1>6 DEF TreeRows, V
  <2>1. Valued(p.nodes, v, w) /\ v[n.id] = RowsOf(n, v, w)
    BY <1>12 DEF Valued
  <2>2. v[p.current] = Partial(d, V, J, w)
    BY <1>1, <2>1 DEF TreeRows, V, J
  <2>3. v[NodeOfSource(d, new)] = RowsAlone(d, new, w)
    BY <1>1, <1>2, <2>1, SourceValue
  <2>4. RowsOf(n, v, w) = Cut(JoinRows(n, v[p.current], v[NodeOfSource(d, new)], {new}, w), K)
    <3>1. n.inputs[1] = p.current /\ n.inputs[2] = NodeOfSource(d, new) /\ n.on[2][1] = new
      BY <1>3 DEF JoinsAs, On
    <3>2. RowsOf(n, v, w) = Cut(JoinRows(n, v[n.inputs[1]], v[n.inputs[2]], {n.on[2][1]}, w), {c[1] : c \in ToSet(NamesOf(n))})
      BY <1>3, Zenon DEF RowsOf, Cut
    <3> QED
      BY <1>10, <1>11, <3>1, <3>2
  <2>5. Cut(JoinRows(n, Partial(d, V, J, w), RowsAlone(d, new, w), {new}, w), K) = Partial(d, V \cup {new}, J \cup {k}, w)
    BY <1>1, <1>3, JoinGives DEF A, V
  <2> QED
    BY <1>3, <2>1, <2>2, <2>3, <2>4, <2>5
<1>15. {c[1] : c \in ToSet(q.carried)} = (V \cup {new}) \ A
  BY <1>9, <1>10
<1> QED
  BY <1>1, <1>2, <1>6, <1>7, <1>9, <1>12, <1>13, <1>14, <1>15 DEF TreeHolds, V, A

(* The node of a join, and what it has. *)
JoinNode(id, inputs, type, strategy, pair, match, columns) ==
  [NoNode EXCEPT !.id = id, !.kind = "join", !.inputs = inputs, !.join = type,
                 !.strategy = strategy, !.on = pair, !.match = match, !.columns = columns]

(* Read field by field. *)
LEMMA JoinNodeIs ==
  ASSUME NEW id, NEW inputs, NEW type, NEW strategy, NEW pair, NEW match, NEW columns
  PROVE  LET n == JoinNode(id, inputs, type, strategy, pair, match, columns)
         IN /\ n.id = id /\ n.kind = "join" /\ n.inputs = inputs
            /\ n.join = type /\ n.on = pair /\ n.match = match /\ n.columns = columns
BY DEF JoinNode, NoNode

(* One more join. *)
LEMMA JoiningHolds ==
  ASSUME PlanInv, AddJoin
  PROVE  PlanInv'
<1> DEFINE d == plan.draft
           forward(k) == Left(d, d.joins[k]) \in plan.visited /\ Right(d, d.joins[k]) \in Sources(d) \ plan.visited
           backward(k) == /\ d.joins[k].type = "inner" /\ Right(d, d.joins[k]) \in plan.visited
                          /\ Left(d, d.joins[k]) \in Sources(d) \ plan.visited
                          /\ Left(d, d.joins[k]) \notin DirectedRights(d)
           ends(k) == IF Extends(d, k) = "forward" THEN <<d.joins[k].left, d.joins[k].right>>
                      ELSE <<d.joins[k].right, d.joins[k].left>>
           on(k) == <<Column(d, ends(k)[1]), Column(d, ends(k)[2])>>
           added(k) == IF d.joins[k].type = "anti" THEN <<>> ELSE ColumnsOfSource(d, on(k)[2][1])
           node(k) == [NoNode EXCEPT !.id = <<"join", k>>, !.kind = "join",
                         !.inputs = <<plan.current, NodeOfSource(d, on(k)[2][1])>>, !.join = d.joins[k].type,
                         !.strategy = d.joins[k].strategy, !.on = on(k),
                         !.match = IF d.joins[k].type = "inner" THEN {} ELSE MatchTests(d, on(k)[2][1]),
                         !.columns = Copied(plan.carried, plan.current)
                                     \o Copied(added(k), NodeOfSource(d, on(k)[2][1]))]
<1>1. plan.phase = "join" /\ TreeHolds(plan) /\ DOMAIN plan = DOMAIN Waiting(<<>>)
  BY DEF PlanInv, PlanHolds, AddJoin, InPlan
<1>2. \A k : \/ Extends(d, k) = "forward" /\ forward(k)
             \/ Extends(d, k) = "backward" /\ backward(k)
             \/ Extends(d, k) = "no"
  BY Zenon DEF Extends
<1>3. \/ \E code : code # "ok" /\ Refused(code)
      \/ \E k \in plan.unused :
           /\ Extends(d, k) # "no"
           /\ ~(d.joins[k].type = "inner" /\ on(k)[2][1] \in DirectedRights(d))
           /\ plan' = [plan EXCEPT !.visited = @ \cup {on(k)[2][1]}, !.unused = @ \ {k},
                                   !.nodes = Append(@, node(k)), !.current = <<"join", k>>,
                                   !.carried = @ \o added(k)]
  <2>1. \/ Refused("no_join_tree")
        \/ \E k \in plan.unused : Extends(d, k) # "no" /\ JoinWith(d, k, on(k), NodeOfSource(d, on(k)[2][1]))
    BY DEF AddJoin
  <2>2. CASE \E k \in plan.unused : Extends(d, k) # "no" /\ JoinWith(d, k, on(k), NodeOfSource(d, on(k)[2][1]))
    <3>1. PICK k \in plan.unused : Extends(d, k) # "no" /\ JoinWith(d, k, on(k), NodeOfSource(d, on(k)[2][1]))
      BY <2>2
    <3>2. \/ Refused("not_convertible")
          \/ /\ ~(d.joins[k].type = "inner" /\ on(k)[2][1] \in DirectedRights(d))
             /\ plan' = [plan EXCEPT !.visited = @ \cup {on(k)[2][1]}, !.unused = @ \ {k},
                                     !.nodes = Append(@, node(k)), !.current = <<"join", k>>,
                                     !.carried = @ \o added(k)]
      BY <3>1, Zenon DEF JoinWith
    <3> QED
      BY <3>1, <3>2
  <2> QED
    BY <2>1, <2>2
<1>4. ASSUME NEW k \in plan.unused, Extends(d, k) # "no",
             ~(d.joins[k].type = "inner" /\ on(k)[2][1] \in DirectedRights(d)),
             plan' = [plan EXCEPT !.visited = @ \cup {on(k)[2][1]}, !.unused = @ \ {k},
                                  !.nodes = Append(@, node(k)), !.current = <<"join", k>>,
                                  !.carried = @ \o added(k)]
      PROVE  PlanInv'
  <2>1. \E from, new, more, n : from = on(k)[1][1] /\ new = on(k)[2][1] /\ more = added(k) /\ n = node(k)
    <3> HIDE DEF on, added, node
    <3> QED
      OBVIOUS
  <2> PICK from, new, more, n : from = on(k)[1][1] /\ new = on(k)[2][1] /\ more = added(k) /\ n = node(k)
    BY <2>1
  <2>2. k \in DOMAIN d.joins
    BY <1>1 DEF TreeHolds
  <2>3. \/ forward(k) /\ from = Left(d, d.joins[k]) /\ new = Right(d, d.joins[k])
        \/ backward(k) /\ from = Right(d, d.joins[k]) /\ new = Left(d, d.joins[k])
    <3>1. on(k)[1][1] = Key(d, ends(k)[1][1]) /\ on(k)[2][1] = Key(d, ends(k)[2][1])
      BY DEF Column
    <3>2. CASE Extends(d, k) = "forward"
      <4>1. ends(k)[1] = d.joins[k].left /\ ends(k)[2] = d.joins[k].right
        BY <3>2
      <4>2. forward(k)
        BY <1>2, <3>2
      <4> HIDE DEF ends, on, forward
      <4> QED
        BY <3>1, <4>1, <4>2 DEF Left, Right
    <3>3. CASE Extends(d, k) = "backward"
      <4>1. ends(k)[1] = d.joins[k].right /\ ends(k)[2] = d.joins[k].left
        BY <3>3
      <4>2. backward(k)
        BY <1>2, <3>3
      <4> HIDE DEF ends, on, backward
      <4> QED
        BY <3>1, <4>1, <4>2 DEF Left, Right
    <3> HIDE DEF forward, backward, on, ends
    <3> QED
      BY <1>2, <1>4, <3>2, <3>3
  <2>4. Joinable(d, plan.visited, k, from, new)
    BY <1>4, <2>2, <2>3 DEF Joinable
  <2>5. IsJoinOf(n, plan, k, from, new, more)
    <3> DEFINE columns == Copied(plan.carried, plan.current) \o Copied(more, NodeOfSource(d, new))
               match == IF d.joins[k].type = "inner" THEN {} ELSE MatchTests(d, new)
               pair == on(k)
               type == d.joins[k].type
               strategy == d.joins[k].strategy
    <3>1. more = IF type = "anti" THEN <<>> ELSE ColumnsOfSource(d, new)
      <4> HIDE DEF on
      <4> QED
        OBVIOUS
    <3>2. pair[1][1] = from /\ pair[2][1] = new
      <4> HIDE DEF on
      <4> QED
        OBVIOUS
    <3>3. n = [NoNode EXCEPT !.id = <<"join", k>>, !.kind = "join",
                 !.inputs = <<plan.current, NodeOfSource(d, new)>>, !.join = type,
                 !.strategy = strategy, !.on = pair, !.match = match, !.columns = columns]
      <4> HIDE DEF on, added
      <4> QED
        OBVIOUS
    <3> HIDE DEF columns, match, pair, type, strategy
    <3>3a. n = JoinNode(<<"join", k>>, <<plan.current, NodeOfSource(d, new)>>, type, strategy, pair, match, columns)
      BY <3>3, Zenon DEF JoinNode
    <3>4. /\ n.id = <<"join", k>> /\ n.kind = "join" /\ n.inputs = <<plan.current, NodeOfSource(d, new)>>
          /\ n.join = type /\ n.on = pair /\ n.match = match /\ n.columns = columns
      <4> HIDE DEF node, on, added
      <4> QED
        BY <3>3a, JoinNodeIs
    <3>5. JoinsAs(n, d, k, from, new)
      BY <3>2, <3>4 DEF JoinsAs, On, match, type
    <3>6. CarriesBoth(n, plan.carried, plan.current, more, NodeOfSource(d, new))
      BY <3>4 DEF CarriesBoth, columns
    <3> QED
      BY <3>1, <3>4, <3>5, <3>6 DEF IsJoinOf, type
  <2>6. plan' = [plan EXCEPT !.visited = @ \cup {new}, !.unused = @ \ {k}, !.nodes = Append(@, n),
                             !.current = <<"join", k>>, !.carried = @ \o more]
    <3> HIDE DEF on, added, node
    <3> QED
      BY <1>4
  <2> HIDE DEF on, added, node, ends, forward, backward
  <2>7. /\ plan'.phase = "join" /\ DOMAIN plan' = DOMAIN plan
        /\ plan'.draft = plan.draft /\ plan'.statements = plan.statements
        /\ plan'.visited = plan.visited \cup {new} /\ plan'.unused = plan.unused \ {k}
        /\ plan'.nodes = Append(plan.nodes, n) /\ plan'.current = <<"join", k>>
        /\ plan'.carried = plan.carried \o more
    BY <1>1, <2>6 DEF Waiting
  <2>8. TreeHolds(plan')
    <3>1. \E q : q = plan'
      OBVIOUS
    <3> PICK q : q = plan'
      BY <3>1
    <3>2. TreeHolds(q)
      BY <1>1, <2>4, <2>5, <2>7, TreeGrows
    <3> QED
      BY <3>2
  <2> QED
    BY <1>1, <2>7, <2>8 DEF PlanInv, PlanHolds
<1> QED
  BY <1>3, <1>4, PlanRefused

(* A plan that meets the contract unites tables of one family only. *)
LEMMA ContractFits ==
  ASSUME NEW d, Usable(d), NEW nodes, nodes \in Seq(ToSet(nodes)), \A n \in ToSet(nodes) : WellMade(n),
         SchemasOf(nodes).ok, ToSet(SourceNodes(d)) \subseteq ToSet(nodes)
  PROVE  FamiliesFit(d)
<1>1. PICK S : \A n \in ToSet(nodes) :
              /\ n.kind = "scan" => S[n.id] = [c \in ToSet(NamesOf(n)) |-> TypeOf[c[2]]]
              /\ n.kind = "filter" => S[n.id] = S[n.inputs[1]]
              /\ n.kind = "union" => \A i \in DOMAIN n.columns : \A j \in ToSet(n.inputs) :
                                       n.columns[i].from \in DOMAIN S[j]
  BY ContractLinks
<1> SUFFICES ASSUME NEW f \in d.families, f \in Sources(d), NEW o \in Members[f]
             PROVE  Key(d, o) = f
  BY DEF FamiliesFit
<1>2. o \in Selected(d)
  BY KeysOfTables
<1>3. \E scan, filter, union : scan = ScanOf(d, o) /\ filter = FilterOf(d, o) /\ union = UnionOf(d, f)
  OBVIOUS
<1> PICK scan, filter, union : scan = ScanOf(d, o) /\ filter = FilterOf(d, o) /\ union = UnionOf(d, f)
  BY <1>3
<1>4. union \in ToSet(nodes) /\ ToSet(ScanNodes(d, o)) \subseteq ToSet(nodes)
  <2>1. ToSet(FamilyNodes(d, f)) = {UnionOf(d, f), WholeOf(d, f)}
    BY FamilyNodesAre, PairIsList
  <2> QED
    BY <1>2, <2>1, SourceNodesAre
<1>5. /\ union.kind = "union" /\ union.columns = Copied(ColumnsOfSource(d, f), "inputs")
      /\ Last(ScanNodes(d, o)).id \in ToSet(union.inputs)
  BY UnionIs
<1>6. \E i \in DOMAIN union.columns : union.columns[i].from = <<f, "p">>
  <2>1. <<f, "p">> \in ToSet(ColumnsOfSource(d, f))
    BY ColumnsListed
  <2>2. PICK i \in DOMAIN ColumnsOfSource(d, f) : ColumnsOfSource(d, f)[i] = <<f, "p">>
    BY <2>1 DEF ToSet
  <2> DEFINE columns == ColumnsOfSource(d, f)
  <2> HIDE DEF columns
  <2>3. i \in DOMAIN Copied(columns, "inputs") /\ Copied(columns, "inputs")[i].from = columns[i]
    BY <2>2 DEF Copied, columns
  <2> QED
    BY <1>5, <2>2, <2>3 DEF columns
<1>7. <<f, "p">> \in DOMAIN S[Last(ScanNodes(d, o)).id]
  <2>1. \A i \in DOMAIN union.columns : \A j \in ToSet(union.inputs) : union.columns[i].from \in DOMAIN S[j]
    BY <1>1, <1>4, <1>5
  <2>2. PICK i \in DOMAIN union.columns : union.columns[i].from = <<f, "p">>
    BY <1>6
  <2> QED
    BY <1>5, <2>1, <2>2
<1>8. scan.kind = "scan" /\ scan.id = <<"scan", o>> /\ scan.columns = Copied(ColumnsOfSource(d, Key(d, o)), "table")
  BY ScanIs
<1>9. filter.kind = "filter" /\ filter.inputs = <<<<"scan", o>>>>
  BY FilterIs
<1>10. Last(ScanNodes(d, o)) \in {scan, filter} /\ scan \in ToSet(nodes)
       /\ (Last(ScanNodes(d, o)) = filter => filter \in ToSet(nodes))
  <2>1. CASE ScanTests(d, o) = {}
    <3>1. ScanNodes(d, o) = <<scan>> /\ ToSet(<<scan>>) = {scan}
      BY <2>1, ScanNodesAre, OneIsList
    <3>2. Last(<<scan>>) = scan
      BY DEF Last
    <3> QED
      BY <1>4, <3>1, <3>2
  <2>2. CASE ScanTests(d, o) # {}
    <3>1. ScanNodes(d, o) = <<scan, filter>> /\ ToSet(<<scan, filter>>) = {scan, filter}
      BY <2>2, ScanNodesAre, PairIsList
    <3>2. Last(<<scan, filter>>) = filter
      BY DEF Last
    <3> QED
      BY <1>4, <3>1, <3>2
  <2> QED
    BY <2>1, <2>2
<1>11. S[Last(ScanNodes(d, o)).id] = S[scan.id]
  <2>1. CASE Last(ScanNodes(d, o)) = filter
    <3>1. S[filter.id] = S[filter.inputs[1]]
      BY <1>1, <1>9, <1>10, <2>1
    <3>2. filter.inputs[1] = scan.id
      BY <1>8, <1>9
    <3> QED
      BY <2>1, <3>1, <3>2
  <2> QED
    BY <1>10, <2>1
<1>12. DOMAIN S[scan.id] = ToSet(ColumnsOfSource(d, Key(d, o)))
  <2>1. S[scan.id] = [c \in ToSet(NamesOf(scan)) |-> TypeOf[c[2]]]
    BY <1>1, <1>8, <1>10
  <2>2. ToSet(NamesOf(scan)) = ToSet(ColumnsOfSource(d, Key(d, o)))
    BY <1>8, CopiedNames
  <2> QED
    BY <2>1, <2>2
<1>13. \A c \in ToSet(ColumnsOfSource(d, Key(d, o))) : c[1] = Key(d, o)
  <2>1. Key(d, o) \in Sources(d)
    BY <1>2, KeysOfTables
  <2>2. {c[1] : c \in ToSet(ColumnsOfSource(d, Key(d, o)))} = {Key(d, o)}
    BY <2>1, ColumnsAreOfSource
  <2> QED
    BY <2>2
<1>14. <<f, "p">>[1] = Key(d, o)
  BY <1>7, <1>11, <1>12, <1>13
<1> QED
  BY <1>14

(* The output of a plan: a filter where something is left to test, what is selected or
   grouped, and the table that is made of it. *)
IsShape(n, from) == n.kind \in {"project", "aggregate"} /\ n.inputs = <<from>>
IsLast(n, from)  == n.kind = "materialize" /\ n.id = <<"result">> /\ n.inputs = <<from>>
IsFilter(n, from, tests) == n.kind = "filter" /\ n.id = <<"filter">> /\ n.inputs = <<from>> /\ n.tests = tests

(* The node that shapes the answer is a projection or an aggregate of the one it is given. *)
LEMMA ShapeIs ==
  ASSUME NEW d, NEW from
  PROVE  IsShape(Shaped(d, from), from)
<1> DEFINE derived(fields) == [i \in DOMAIN fields |->
                                 [name |-> <<fields[i][2]>>, node |-> from, from |-> Column(d, fields[i])]]
           sums == [i \in DOMAIN d.sums |->
                      [name |-> <<"sum", i>>, node |-> from, from |-> Column(d, d.sums[i])]]
           some == derived(d.requested)
           all == derived(d.groups) \o sums
           project == [NoNode EXCEPT !.id = <<"project">>, !.kind = "project", !.inputs = <<from>>, !.columns = some]
           group == [NoNode EXCEPT !.id = <<"aggregate">>, !.kind = "aggregate", !.inputs = <<from>>, !.columns = all]
<1>1. Shaped(d, from) = IF d.sums = <<>> THEN project ELSE group
  BY Zenon DEF Shaped
<1> HIDE DEF some, all
<1>2. project.kind = "project" /\ project.inputs = <<from>>
  BY DEF NoNode
<1>3. group.kind = "aggregate" /\ group.inputs = <<from>>
  BY DEF NoNode
<1> HIDE DEF project, group
<1> QED
  BY <1>1, <1>2, <1>3 DEF IsShape

(* A node with one input is well made. *)
LEMMA OneInputWellMade ==
  ASSUME NEW n, n.kind \in {"filter", "project", "aggregate", "materialize"}, NEW from, n.inputs = <<from>>
  PROVE  WellMade(n)
<1>1. n.inputs \in Seq(ToSet(n.inputs)) /\ Len(n.inputs) = 1
  BY OneIsList
<1> QED
  BY <1>1 DEF WellMade

(* The end of a list two elements longer is the second of them. *)
LEMMA EndOfJoined ==
  ASSUME NEW T, NEW a \in Seq(T), NEW x \in T, NEW y \in T
  PROVE  a \o <<x, y>> # <<>> /\ Last(a \o <<x, y>>) = y
<1>1. Len(a \o <<x, y>>) = Len(a) + 2 /\ Len(a) \in Nat
  OBVIOUS
<1>2. (a \o <<x, y>>)[Len(a) + 2] = y
  OBVIOUS
<1>3. \A k \in Nat : k + 2 # 0
  OBVIOUS
<1>4. Len(<<>>) = 0
  OBVIOUS
<1> QED
  BY <1>1, <1>2, <1>3, <1>4 DEF Last

(* What the last steps of a plan are: what is left to test after the joins, what is selected
   and the table made of it. *)
Filtered(tests, filter) == IF tests = {} THEN <<>> ELSE <<filter>>
Finishes(p, from, filter, shape, last, nodes) ==
  /\ p.visited = Sources(p.draft) /\ p.unused = {}
  /\ IsFilter(filter, p.current, PostTests(p.draft))
  /\ from = IF PostTests(p.draft) = {} THEN p.current ELSE <<"filter">>
  /\ IsShape(shape, from) /\ IsLast(last, shape.id)
  /\ nodes = (p.nodes \o Filtered(PostTests(p.draft), filter)) \o <<shape, last>>
Continues(q, p, nodes) == q.draft = p.draft /\ q.statements = p.statements /\ q.nodes = nodes

(* A plan that is finished and meets the contract has the rows that are asked for. *)
LEMMA FinishedMeans ==
  ASSUME NEW p, TreeHolds(p), NEW from, NEW filter, NEW shape, NEW last, NEW nodes,
         Finishes(p, from, filter, shape, last, nodes), ContractHolds(nodes),
         NEW q, Continues(q, p, nodes)
  PROVE  StatementsHold(q)
<1> DEFINE d == p.draft
           tests == PostTests(d)
           filtered == Filtered(tests, filter)
<1>0. /\ p.visited = Sources(d) /\ p.unused = {} /\ IsFilter(filter, p.current, tests)
      /\ from = IF tests = {} THEN p.current ELSE <<"filter">>
      /\ IsShape(shape, from) /\ IsLast(last, shape.id)
      /\ q.draft = d /\ q.statements = p.statements /\ q.nodes = nodes
  BY DEF Finishes, Continues
<1>1. /\ Usable(d) /\ p.statements = <<>> /\ p.nodes \in Seq(ToSet(p.nodes))
      /\ \A x \in ToSet(p.nodes) : WellMade(x)
      /\ ToSet(SourceNodes(d)) \subseteq ToSet(p.nodes) /\ TreeRows(p)
  BY DEF TreeHolds
<1>2. /\ filter.kind = "filter" /\ filter.id = <<"filter">> /\ filter.inputs = <<p.current>> /\ filter.tests = tests
      /\ shape.kind \in {"project", "aggregate"} /\ shape.inputs = <<from>>
      /\ last.kind = "materialize" /\ last.id = <<"result">> /\ last.inputs = <<shape.id>>
  BY <1>0 DEF IsFilter, IsShape, IsLast
<1>3. /\ filtered \in Seq(ToSet(filtered)) /\ (tests # {} => filter \in ToSet(filtered))
      /\ \A n \in ToSet(filtered) : n = filter
  <2>1. CASE tests = {}
    <3>1. <<>> \in Seq(ToSet(<<>>)) /\ ToSet(<<>>) = {}
      BY DEF ToSet
    <3> QED
      BY <2>1, <3>1 DEF Filtered
  <2>2. CASE tests # {}
    <3>1. <<filter>> \in Seq(ToSet(<<filter>>)) /\ ToSet(<<filter>>) = {filter}
      BY OneIsList
    <3> QED
      BY <2>2, <3>1 DEF Filtered
  <2> QED
    BY <2>1, <2>2
<1>4. nodes = (p.nodes \o filtered) \o <<shape, last>>
  BY DEF Finishes
<1> HIDE DEF filtered
<1>5. /\ nodes \in Seq(ToSet(nodes))
      /\ ToSet(nodes) = (ToSet(p.nodes) \cup ToSet(filtered)) \cup {shape, last}
  <2>1. /\ p.nodes \o filtered \in Seq(ToSet(p.nodes \o filtered))
        /\ ToSet(p.nodes \o filtered) = ToSet(p.nodes) \cup ToSet(filtered)
    BY <1>1, <1>3, TwoLists
  <2>2. <<shape, last>> \in Seq(ToSet(<<shape, last>>)) /\ ToSet(<<shape, last>>) = {shape, last}
    BY PairIsList
  <2> DEFINE a == p.nodes \o filtered
             b == <<shape, last>>
  <2> HIDE DEF a, b
  <2>3. a \o b \in Seq(ToSet(a \o b)) /\ ToSet(a \o b) = ToSet(a) \cup ToSet(b)
    BY <2>1, <2>2, TwoLists DEF a, b
  <2> QED
    BY <1>4, <2>1, <2>2, <2>3 DEF a, b
<1>6. nodes # <<>> /\ Last(nodes) = last
  <2> DEFINE a == p.nodes \o filtered
             T == (ToSet(p.nodes) \cup ToSet(filtered)) \cup {shape, last}
  <2>1. a \in Seq(T)
    <3>1. p.nodes \in Seq(T) /\ filtered \in Seq(T)
      BY <1>1, <1>3
    <3> HIDE DEF T
    <3> QED
      BY <3>1
  <2>2. shape \in T /\ last \in T
    OBVIOUS
  <2>3. nodes = a \o <<shape, last>>
    BY <1>4
  <2> HIDE DEF a, T
  <2> QED
    BY <2>1, <2>2, <2>3, EndOfJoined
<1>7. \A n \in ToSet(nodes) : WellMade(n)
  <2>1. WellMade(filter) /\ WellMade(shape) /\ WellMade(last)
    BY <1>2, OneInputWellMade
  <2> QED
    BY <1>1, <1>3, <1>5, <2>1
<1>8. Linked(nodes) /\ FamiliesFit(d)
  <2>1. SchemasOf(nodes).ok
    BY DEF ContractHolds
  <2>2. Linked(nodes)
    BY <1>5, <1>7, <2>1, ContractLinks
  <2>3. ToSet(SourceNodes(d)) \subseteq ToSet(nodes)
    BY <1>1, <1>5
  <2>4. FamiliesFit(d)
    BY <1>1, <1>5, <1>7, <2>1, <2>3, ContractFits
  <2> QED
    BY <2>2, <2>4
<1>9. ASSUME NEW w, NEW v, Valued(nodes, v, w)
      PROVE  v[<<"result">>] = Meaning(d, w)
  <2>1. Valued(p.nodes, v, w)
    BY <1>5, <1>9 DEF Valued
  <2>2. v[p.current] = Partial(d, Sources(d), DOMAIN d.joins, w)
    <3>1. Used(p) = DOMAIN d.joins
      BY <1>0 DEF Used
    <3> QED
      BY <1>0, <1>1, <1>8, <2>1, <3>1 DEF TreeRows
  <2>3. v[from] = {r \in v[p.current] : Holds(tests, r, w)}
    <3>1. CASE tests = {}
      <4>1. \A r : Holds(tests, r, w)
        BY <3>1 DEF Holds
      <4>2. from = p.current
        BY <1>0, <3>1
      <4> HIDE DEF tests
      <4> QED
        BY <4>1, <4>2
    <3>2. CASE tests # {}
      <4>1. filter \in ToSet(nodes) /\ from = filter.id
        BY <1>0, <1>2, <1>3, <1>5, <3>2
      <4>2. v[filter.id] = RowsOf(filter, v, w)
        BY <1>9, <4>1 DEF Valued
      <4>3. RowsOf(filter, v, w) = {r \in v[p.current] : Holds(tests, r, w)}
        <5> HIDE DEF tests
        <5> QED
          BY <1>2 DEF RowsOf
      <4> HIDE DEF tests
      <4> QED
        BY <4>1, <4>2, <4>3
    <3> QED
      BY <3>1, <3>2
  <2>4. v[shape.id] = v[from] /\ v[last.id] = v[shape.id]
    <3>1. v[shape.id] = RowsOf(shape, v, w) /\ v[last.id] = RowsOf(last, v, w)
      BY <1>5, <1>9 DEF Valued
    <3>2. RowsOf(shape, v, w) = v[from]
      BY <1>2 DEF RowsOf
    <3>3. RowsOf(last, v, w) = v[shape.id]
      BY <1>2 DEF RowsOf
    <3> QED
      BY <3>1, <3>2, <3>3
  <2>5. {r \in Partial(d, Sources(d), DOMAIN d.joins, w) : Holds(PostTests(d), r, w)} = Meaning(d, w)
    BY <1>1, RowsMeant
  <2>6. v[<<"result">>] = {r \in v[p.current] : Holds(tests, r, w)}
    BY <1>2, <2>3, <2>4
  <2> QED
    BY <2>2, <2>5, <2>6
<1>10. Compiled(nodes, <<>>)
  BY DEF Compiled, ToSet
<1>11. PlanMeans(q)
  BY <1>0, <1>1, <1>8, <1>9, <1>10 DEF PlanMeans
<1> QED
  <2>1. DOMAIN q.statements = {}
    BY <1>0, <1>1
  <2> QED
    BY <1>0, <1>2, <1>6, <1>11, <2>1 DEF StatementsHold

(* The joins are done. *)
LEMMA FinishingPlanHolds ==
  ASSUME PlanInv, FinishPlan
  PROVE  PlanInv'
<1> DEFINE d == plan.draft
           tests == PostTests(d)
           filter == [NoNode EXCEPT !.id = <<"filter">>, !.kind = "filter", !.inputs = <<plan.current>>,
                                    !.tests = tests]
           filtered == IF tests = {} THEN <<>> ELSE <<filter>>
           from == IF tests = {} THEN plan.current ELSE <<"filter">>
           shape == Shaped(d, from)
           last == [NoNode EXCEPT !.id = <<"result">>, !.kind = "materialize", !.inputs = <<shape.id>>,
                                  !.step = "result"]
           nodes == plan.nodes \o filtered \o <<shape, last>>
<1>1. /\ plan.phase = "join" /\ TreeHolds(plan) /\ DOMAIN plan = DOMAIN Waiting(<<>>)
      /\ plan.visited = Sources(d)
  BY DEF PlanInv, PlanHolds, FinishPlan, InPlan
<1>2. \/ \E code : code # "ok" /\ Refused(code)
      \/ plan.unused = {} /\ ContractHolds(nodes) /\ plan' = [plan EXCEPT !.phase = "compile", !.nodes = nodes]
  <2>1. \/ Refused("not_convertible") \/ Refused("contract") \/ Refused("dialect")
        \/ plan.unused = {} /\ ContractHolds(nodes) /\ plan' = [plan EXCEPT !.phase = "compile", !.nodes = nodes]
    BY Zenon DEF FinishPlan
  <2> HIDE DEF nodes
  <2> QED
    BY <2>1
<1>3. CASE plan.unused = {} /\ ContractHolds(nodes) /\ plan' = [plan EXCEPT !.phase = "compile", !.nodes = nodes]
  <2>1. IsFilter(filter, plan.current, PostTests(d))
    <3> HIDE DEF tests
    <3>1. filter.kind = "filter" /\ filter.id = <<"filter">> /\ filter.inputs = <<plan.current>> /\ filter.tests = tests
      BY DEF NoNode
    <3> HIDE DEF filter
    <3> QED
      BY <3>1 DEF IsFilter, tests
  <2>2. IsShape(shape, from)
    BY ShapeIs
  <2>3. IsLast(last, shape.id)
    <3> HIDE DEF shape
    <3>1. last.kind = "materialize" /\ last.id = <<"result">> /\ last.inputs = <<shape.id>>
      BY DEF NoNode
    <3> HIDE DEF last
    <3> QED
      BY <3>1 DEF IsLast
  <2> HIDE DEF filter, shape, last
  <2>4. \E all : all = (plan.nodes \o filtered) \o <<shape, last>>
    OBVIOUS
  <2> PICK all : all = (plan.nodes \o filtered) \o <<shape, last>>
    BY <2>4
  <2>5. ContractHolds(all) /\ plan' = [plan EXCEPT !.phase = "compile", !.nodes = all]
    <3>1. all = nodes
      OBVIOUS
    <3> HIDE DEF nodes
    <3> QED
      BY <1>3, <3>1
  <2>6. /\ plan'.phase = "compile" /\ DOMAIN plan' = DOMAIN plan
        /\ Continues(plan', plan, all)
    BY <1>1, <2>5 DEF Waiting, Continues
  <2>7. Finishes(plan, from, filter, shape, last, all)
    <3>1. filtered = Filtered(tests, filter)
      BY DEF Filtered
    <3>2. from = IF tests = {} THEN plan.current ELSE <<"filter">>
      OBVIOUS
    <3>3. all = (plan.nodes \o Filtered(tests, filter)) \o <<shape, last>>
      BY <3>1
    <3> HIDE DEF nodes, from, filtered, tests
    <3> QED
      BY <1>1, <1>3, <2>1, <2>2, <2>3, <3>2, <3>3 DEF Finishes, tests
  <2>8. \E p, q, f, x, s, l : p = plan /\ q = plan' /\ f = filter /\ x = from /\ s = shape /\ l = last
    OBVIOUS
  <2> PICK p, q, f, x, s, l : p = plan /\ q = plan' /\ f = filter /\ x = from /\ s = shape /\ l = last
    BY <2>8
  <2>9. TreeHolds(p) /\ Finishes(p, x, f, s, l, all) /\ ContractHolds(all) /\ Continues(q, p, all)
    <3> HIDE DEF nodes, from, filtered, tests, d
    <3> QED
      BY <1>1, <2>5, <2>6, <2>7, <2>8
  <2>12. StatementsHold(q)
    <3> HIDE DEF nodes, from, filtered, tests, d
    <3> QED
      BY <2>9, FinishedMeans
  <2>13. StatementsHold(plan') /\ plan'.phase = "compile" /\ DOMAIN plan' = DOMAIN plan
    BY <2>6, <2>12
  <2> HIDE DEF nodes
  <2> QED
    BY <1>1, <2>13 DEF PlanInv, PlanHolds
<1> HIDE DEF nodes
<1> QED
  BY <1>2, <1>3, PlanRefused

(* One more statement: the one after the last makes the result. *)
LEMMA StatementAdded ==
  ASSUME NEW p, StatementsHold(p), NEW todo, todo = Materialized(p.nodes),
         NEW s, s = Statement(p.nodes, todo[Len(p.statements) + 1]),
         CanCreate(s, {x.target : x \in ToSet(p.statements)}),
         NEW q, q.draft = p.draft, q.nodes = p.nodes, q.statements = Append(p.statements, s)
  PROVE  IF s.target = <<"result">> THEN PlanCompiled(q) ELSE StatementsHold(q)
<1> DEFINE N == Len(p.statements)
           nodes == p.nodes
           made == {n \in ToSet(nodes) : n.kind = "materialize"}
           m == todo[N + 1]
<1>1. /\ Usable(p.draft) /\ Linked(nodes) /\ Compiled(nodes, p.statements)
      /\ \A w, v : Valued(nodes, v, w) => v[<<"result">>] = Meaning(p.draft, w)
      /\ nodes # <<>> /\ Last(nodes).kind = "materialize" /\ Last(nodes).id = <<"result">>
      /\ \A i \in DOMAIN p.statements : /\ p.statements[i] = Statement(nodes, todo[i])
                                        /\ p.statements[i].target # <<"result">>
  BY DEF StatementsHold, PlanMeans
<1>2. p.statements \in Seq(ToSet(p.statements)) /\ N \in Nat /\ DOMAIN p.statements = 1 .. N
  BY <1>1 DEF Compiled
<1>3. \A n : Statement(nodes, n).target = n.id
  BY DEF Statement
<1>4. todo \in Seq(ToSet(nodes)) /\ ToSet(todo) = made
  <2>1. nodes \in Seq(ToSet(nodes)) /\ InOrder(nodes, {})
    BY <1>1 DEF Linked, InOrder
  <2>2. todo = Those(nodes, made)
    BY DEF Materialized
  <2> HIDE DEF made
  <2>3. Those(nodes, made) \in Seq(ToSet(nodes)) /\ ToSet(Those(nodes, made)) = ToSet(nodes) \cap made
    BY <2>1, ThoseInOrder
  <2> QED
    BY <2>2, <2>3 DEF made
<1>5. N + 1 \in DOMAIN todo
  <2>1. Last(nodes) \in made
    <3>1. nodes \in Seq(ToSet(nodes))
      BY <1>1 DEF Linked
    <3>2. Len(nodes) \in DOMAIN nodes
      BY <1>1, <3>1
    <3> QED
      BY <1>1, <3>2 DEF Last, ToSet
  <2>2. PICK i \in DOMAIN todo : todo[i] = Last(nodes)
    BY <1>4, <2>1 DEF ToSet
  <2>3. i \notin DOMAIN p.statements
    BY <1>1, <1>3, <2>2
  <2> HIDE DEF N
  <2>4. Len(todo) \in Nat /\ DOMAIN todo = 1 .. Len(todo)
    BY <1>4
  <2>5. i \in 1 .. Len(todo) /\ i \notin 1 .. N
    BY <1>2, <2>3, <2>4
  <2>6. N + 1 \in 1 .. Len(todo)
    BY <1>2, <2>4, <2>5
  <2> QED
    BY <2>4, <2>6
<1>6. m \in ToSet(nodes) /\ m.kind = "materialize" /\ s = Statement(nodes, m) /\ s.target = m.id
  <2>1. m \in made
    BY <1>4, <1>5 DEF ToSet
  <2> QED
    BY <1>3, <2>1
<1> HIDE DEF m
<1>7. /\ q.statements \in Seq(ToSet(q.statements)) /\ DOMAIN q.statements = 1 .. N + 1
      /\ Len(q.statements) = N + 1
      /\ \A i \in 1 .. N : q.statements[i] = p.statements[i]
      /\ q.statements[N + 1] = s
  <2>1. q.statements \in Seq(ToSet(q.statements))
    BY <1>2, OneMore
  <2> QED
    BY <1>2, <2>1
<1> HIDE DEF N
<1>8. Compiled(nodes, q.statements)
  <2> SUFFICES ASSUME NEW i \in DOMAIN q.statements
               PROVE  /\ \E x \in ToSet(nodes) : x.kind = "materialize" /\ q.statements[i] = Statement(nodes, x)
                      /\ q.statements[i].reads \subseteq {q.statements[j].target : j \in 1 .. i - 1}
    BY <1>7 DEF Compiled
  <2>1. CASE i \in 1 .. N
    <3>1. /\ \E x \in ToSet(nodes) : x.kind = "materialize" /\ p.statements[i] = Statement(nodes, x)
          /\ p.statements[i].reads \subseteq {p.statements[j].target : j \in 1 .. i - 1}
      BY <1>1, <1>2, <2>1 DEF Compiled
    <3>2. \A j \in 1 .. i - 1 : j \in 1 .. N
      BY <1>2, <2>1
    <3> QED
      BY <1>7, <2>1, <3>1, <3>2
  <2>2. CASE i = N + 1
    <3>1. q.statements[i] = s
      BY <1>7, <2>2
    <3>2. s.reads \subseteq {p.statements[j].target : j \in 1 .. N}
      BY <1>2 DEF CanCreate, ToSet
    <3>3. i - 1 = N
      BY <1>2, <2>2
    <3>4. {p.statements[j].target : j \in 1 .. N} = {q.statements[j].target : j \in 1 .. i - 1}
      BY <1>7, <3>3
    <3> QED
      BY <1>6, <3>1, <3>2, <3>4
  <2> QED
    BY <1>2, <1>7, <2>1, <2>2
<1>9. PlanMeans(q)
  BY <1>1, <1>8 DEF PlanMeans
<1>10. CASE s.target = <<"result">>
  <2>1. Last(q.statements) = s /\ q.statements # <<>>
    <3>1. N + 1 # 0 /\ Len(<<>>) = 0
      BY <1>2
    <3> QED
      BY <1>7, <3>1 DEF Last
  <2> QED
    BY <1>9, <1>10, <2>1 DEF PlanCompiled
<1>11. CASE s.target # <<"result">>
  <2>1. \A i \in DOMAIN q.statements : /\ q.statements[i] = Statement(nodes, todo[i])
                                       /\ q.statements[i].target # <<"result">>
    <3>1. \A i \in 1 .. N + 1 : i \in 1 .. N \/ i = N + 1
      BY <1>2
    <3> QED
      BY <1>1, <1>2, <1>6, <1>7, <1>11, <3>1 DEF m
  <2> QED
    BY <1>1, <1>9, <1>11, <2>1 DEF StatementsHold
<1> QED
  BY <1>10, <1>11

(* Compiling the next statement keeps the invariant. *)
LEMMA CompilingPlanHolds ==
  ASSUME PlanInv, CompileStatement
  PROVE  PlanInv'
<1> DEFINE todo == Materialized(plan.nodes)
           s == Statement(plan.nodes, todo[Len(plan.statements) + 1])
<1>1. StatementsHold(plan) /\ plan.phase = "compile" /\ DOMAIN plan = DOMAIN Waiting(<<>>)
  BY DEF PlanInv, PlanHolds, CompileStatement, InPlan
<1>2. \/ Refused("order")
      \/ /\ CanCreate(s, {x.target : x \in ToSet(plan.statements)})
         /\ plan' = [plan EXCEPT !.statements = Append(@, s),
                                 !.phase = IF s.target = <<"result">> THEN "done" ELSE "compile"]
  BY Zenon DEF CompileStatement
<1> HIDE DEF todo, s
<1>3. CASE /\ CanCreate(s, {x.target : x \in ToSet(plan.statements)})
           /\ plan' = [plan EXCEPT !.statements = Append(@, s),
                                   !.phase = IF s.target = <<"result">> THEN "done" ELSE "compile"]
  <2>1. \E p, q, t, x : p = plan /\ q = plan' /\ t = todo /\ x = s
    OBVIOUS
  <2> PICK p, q, t, x : p = plan /\ q = plan' /\ t = todo /\ x = s
    BY <2>1
  <2>2. /\ DOMAIN q = DOMAIN p /\ q.draft = p.draft /\ q.nodes = p.nodes /\ q.statements = Append(p.statements, x)
        /\ q.phase = IF x.target = <<"result">> THEN "done" ELSE "compile"
    BY <1>1, <1>3 DEF Waiting
  <2>3. StatementsHold(p) /\ t = Materialized(p.nodes) /\ x = Statement(p.nodes, t[Len(p.statements) + 1])
    BY <1>1 DEF todo, s
  <2>4. CanCreate(x, {y.target : y \in ToSet(p.statements)})
    BY <1>3
  <2>5. IF x.target = <<"result">> THEN PlanCompiled(q) ELSE StatementsHold(q)
    BY <2>2, <2>3, <2>4, StatementAdded
  <2>6. PlanHolds(q)
    BY <1>1, <2>2, <2>5 DEF PlanHolds
  <2> QED
    BY <2>6 DEF PlanInv
<1> QED
  BY <1>2, <1>3, PlanRefused

(* What the last statement makes is what is asked for. *)
LEMMA CompiledIsMeant ==
  ASSUME PlanInv
  PROVE  CompiledMeansPlan
<1> SUFFICES ASSUME plan.phase = "done", plan.code = "ok", NEW w
             PROVE  Execute(plan.statements, w) = Meaning(plan.draft, w)
  BY DEF CompiledMeansPlan
<1>1. /\ Linked(plan.nodes) /\ Compiled(plan.nodes, plan.statements) /\ plan.statements # <<>>
      /\ Last(plan.statements).target = <<"result">>
      /\ \A v : Valued(plan.nodes, v, w) => v[<<"result">>] = Meaning(plan.draft, w)
  BY DEF PlanInv, PlanHolds, PlanCompiled, PlanMeans
<1>2. PICK v : Valued(plan.nodes, v, w)
  BY <1>1, ValuesExist
<1>3. Execute(plan.statements, w) = v[<<"result">>]
  BY <1>1, <1>2, ExecuteGives
<1> QED
  BY <1>1, <1>2, <1>3

(* Every step of the compilation keeps the invariant. *)
LEMMA PlanKeepsInv ==
  ASSUME PlanInv, [InferenceNext]_plan
  PROVE  PlanInv'
<1>1. CASE UNCHANGED plan
  BY <1>1 DEF PlanInv
<1> QED
  BY <1>1, ValidatingHolds, JoiningHolds, FinishingPlanHolds, CompilingPlanHolds DEF InferenceNext

-------------------------------------------------------------------------------
(* The order in which the older compiler takes its joins *)

(* A draft selects finitely many sources. *)
LEMMA SourcesAreFinite ==
  ASSUME NEW d, Usable(d)
  PROVE  IsFiniteSet(Sources(d))
<1> DEFINE g == [o \in Selected(d) |-> Key(d, o)]
<1>1. {g[o] : o \in Selected(d)} = Sources(d)
  BY DEF Sources
<1> HIDE DEF g
<1>2. IsFiniteSet({g[o] : o \in Selected(d)})
  BY KeysOfTables, FiniteImage
<1> QED
  BY <1>1, <1>2

(* The sources there are and the joins that are taken after the first steps. *)
ReachedBy(d, t, n) == {DirectRoot(d)} \cup {t[i].new : i \in 1 .. n}
TakenBy(t, n)      == {t[i].join : i \in 1 .. n}
StepFits(d, s, V, J) ==
  /\ s.join \in DOMAIN d.joins /\ s.join \notin J /\ s.from \in V /\ s.new \in Sources(d) /\ s.new \notin V
  /\ \/ s.from = Left(d, d.joins[s.join]) /\ s.new = Right(d, d.joins[s.join])
     \/ /\ d.joins[s.join].type = "inner"
        /\ s.from = Right(d, d.joins[s.join]) /\ s.new = Left(d, d.joins[s.join])
GoodOrder(d, t) ==
  t \in Seq(ToSet(t)) /\ \A i \in DOMAIN t : StepFits(d, t[i], ReachedBy(d, t, i - 1), TakenBy(t, i - 1))
FirstStep(d, r) == CHOOSE s \in DirectSteps(d, r) : \A t \in DirectSteps(d, r) : s.join <= t.join

(* What DirectOrder builds, one join at a time. *)
OrderedNext(d, k, r) == IF DirectSteps(d, r) = {} THEN r ELSE Append(r, FirstStep(d, r))
IsOrdered(d, n, f) == f = [k \in 0 .. n |-> IF k = 0 THEN <<>> ELSE OrderedNext(d, k, f[k - 1])]

(* The order in which the older compiler takes the joins, join by join. *)
LEMMA OrderedSteps ==
  ASSUME NEW d, Len(d.joins) \in Nat
  PROVE  \E f : /\ DirectOrder(d) = f[Len(d.joins)] /\ f[0] = <<>>
               /\ \A k \in 1 .. Len(d.joins) : f[k] = OrderedNext(d, k, f[k - 1])
<1> DEFINE P == {n \in Nat : \E f : IsOrdered(d, n, f)}
<1>1. 0 \in P
  <2> DEFINE f == [k \in 0 .. 0 |-> <<>>]
  <2>1. \A k \in 0 .. 0 : k = 0
    OBVIOUS
  <2>2. IsOrdered(d, 0, f)
    BY <2>1 DEF IsOrdered
  <2> QED
    BY <2>2
<1>2. ASSUME NEW n \in Nat, n \in P
      PROVE  n + 1 \in P
  <2>1. PICK f : IsOrdered(d, n, f)
    BY <1>2
  <2> DEFINE h == [k \in 0 .. n + 1 |-> IF k = 0 THEN <<>> ELSE OrderedNext(d, k, f[k - 1])]
  <2>2. \A k \in 0 .. n : h[k] = f[k]
    BY <2>1 DEF IsOrdered
  <2>3. \A k \in 0 .. n + 1 : k # 0 => k - 1 \in 0 .. n
    OBVIOUS
  <2>4. IsOrdered(d, n + 1, h)
    BY <2>2, <2>3 DEF IsOrdered
  <2> HIDE DEF h
  <2>5. \E g : IsOrdered(d, n + 1, g)
    BY <2>4
  <2> QED
    BY <2>5
<1> HIDE DEF P
<1>3. Nat \subseteq P
  BY <1>1, <1>2, CountingUp
<1> DEFINE u == CHOOSE f : IsOrdered(d, Len(d.joins), f)
<1>4. IsOrdered(d, Len(d.joins), u)
  <2>1. Len(d.joins) \in P
    BY <1>3
  <2> QED
    BY <2>1 DEF P
<1>5. DirectOrder(d) = u[Len(d.joins)]
  BY Zenon DEF DirectOrder, FirstStep, IsOrdered, OrderedNext
<1> HIDE DEF u
<1>6. /\ u[0] = <<>>
      /\ \A k \in 1 .. Len(d.joins) : u[k] = OrderedNext(d, k, u[k - 1])
  <2>1. \A k \in 0 .. Len(d.joins) : u[k] = IF k = 0 THEN <<>> ELSE OrderedNext(d, k, u[k - 1])
    BY <1>4, Zenon DEF IsOrdered
  <2>2. 0 \in 0 .. Len(d.joins) /\ \A k \in 1 .. Len(d.joins) : k \in 0 .. Len(d.joins) /\ k # 0
    OBVIOUS
  <2> QED
    BY <2>1, <2>2
<1> QED
  BY <1>5, <1>6

(* A step the older compiler may take goes from a source reached to one not reached yet. *)
LEMMA StepsFit ==
  ASSUME NEW d, Usable(d), NEW t, t \in Seq(ToSet(t)), NEW s \in DirectSteps(d, t)
  PROVE  StepFits(d, s, ReachedBy(d, t, Len(t)), TakenBy(t, Len(t)))
<1> DEFINE visited == {DirectRoot(d)} \cup {x.new : x \in ToSet(t)}
           forward(j) == [join |-> j, from |-> Left(d, d.joins[j]), new |-> Right(d, d.joins[j])]
           backward(j) == [join |-> j, from |-> Right(d, d.joins[j]), new |-> Left(d, d.joins[j])]
           unused == DOMAIN d.joins \ {x.join : x \in ToSet(t)}
           inner == {j \in unused : d.joins[j].type = "inner" /\ Left(d, d.joins[j]) \notin DirectedRights(d)}
<1>1. DirectSteps(d, t) = {x \in {forward(j) : j \in unused} \cup {backward(j) : j \in inner} :
                             x.from \in visited /\ x.new \notin visited}
  BY Zenon DEF DirectSteps
<1>2. visited = ReachedBy(d, t, Len(t)) /\ unused = DOMAIN d.joins \ TakenBy(t, Len(t))
  <2>1. DOMAIN t = 1 .. Len(t)
    OBVIOUS
  <2> QED
    BY <2>1 DEF ReachedBy, TakenBy, ToSet
<1>3. PICK j \in unused : \/ s = forward(j)
                          \/ s = backward(j) /\ d.joins[j].type = "inner"
  <2>1. s \in {forward(j) : j \in unused} \/ s \in {backward(j) : j \in inner}
    BY <1>1
  <2> QED
    BY <2>1
<1>4. s.from \in visited /\ s.new \notin visited /\ s.join = j
  BY <1>1, <1>3
<1>5. j \in DOMAIN d.joins /\ Left(d, d.joins[j]) \in Sources(d) /\ Right(d, d.joins[j]) \in Sources(d)
  BY EndsOfJoins
<1>6. \/ s.from = Left(d, d.joins[j]) /\ s.new = Right(d, d.joins[j])
      \/ /\ d.joins[j].type = "inner" /\ s.from = Right(d, d.joins[j]) /\ s.new = Left(d, d.joins[j])
  BY <1>3
<1> HIDE DEF visited, unused, forward, backward
<1> QED
  BY <1>2, <1>4, <1>5, <1>6 DEF StepFits

(* The step it takes is one of those it may take. *)
LEMMA FirstStepIsOne ==
  ASSUME NEW d, Usable(d), NEW t, DirectSteps(d, t) # {}, t \in Seq(ToSet(t))
  PROVE  FirstStep(d, t) \in DirectSteps(d, t)
<1> DEFINE steps == DirectSteps(d, t)
           numbers == {s.join : s \in steps}
<1>1. numbers \subseteq Nat
  <2>1. \A s \in steps : s.join \in DOMAIN d.joins
    BY StepsFit DEF StepFits
  <2>2. d.joins \in Seq(ToSet(d.joins))
    BY AnswerAssumption DEF Usable
  <2>3. DOMAIN d.joins \subseteq Nat
    BY <2>2
  <2> QED
    BY <2>1, <2>3
<1>2. \E m \in numbers : \A n \in numbers : m <= n
  <2>1. numbers # {}
    OBVIOUS
  <2> HIDE DEF numbers
  <2> QED
    BY <1>1, <2>1, LeastNumber
<1>3. \E s \in steps : \A x \in steps : s.join <= x.join
  BY <1>2
<1> QED
  BY <1>3, Zenon DEF FirstStep

(* One more step. *)
LEMMA OrderGrows ==
  ASSUME NEW d, NEW t, GoodOrder(d, t), NEW s, StepFits(d, s, ReachedBy(d, t, Len(t)), TakenBy(t, Len(t)))
  PROVE  GoodOrder(d, Append(t, s))
<1> DEFINE N == Len(t)
           q == Append(t, s)
<1>1. t \in Seq(ToSet(t)) /\ N \in Nat /\ DOMAIN t = 1 .. N
  BY DEF GoodOrder
<1>2. /\ q \in Seq(ToSet(q)) /\ DOMAIN q = 1 .. N + 1
      /\ q[N + 1] = s /\ \A i \in 1 .. N : q[i] = t[i]
  <2>1. q \in Seq(ToSet(q))
    BY <1>1, OneMore
  <2> QED
    BY <1>1, <2>1
<1> HIDE DEF q, N
<1>3. \A i \in 1 .. N + 1 : /\ ReachedBy(d, q, i - 1) = ReachedBy(d, t, i - 1)
                            /\ TakenBy(q, i - 1) = TakenBy(t, i - 1)
  <2> SUFFICES ASSUME NEW i \in 1 .. N + 1
               PROVE  /\ ReachedBy(d, q, i - 1) = ReachedBy(d, t, i - 1)
                      /\ TakenBy(q, i - 1) = TakenBy(t, i - 1)
    OBVIOUS
  <2>1. \A k \in 1 .. i - 1 : k \in 1 .. N
    BY <1>1
  <2>2. \A k \in 1 .. i - 1 : q[k] = t[k]
    BY <1>2, <2>1
  <2>3. {q[k].new : k \in 1 .. i - 1} = {t[k].new : k \in 1 .. i - 1}
    BY <2>2
  <2>4. {q[k].join : k \in 1 .. i - 1} = {t[k].join : k \in 1 .. i - 1}
    BY <2>2
  <2> QED
    BY <2>3, <2>4 DEF ReachedBy, TakenBy
<1>4. ASSUME NEW i \in 1 .. N + 1
      PROVE  StepFits(d, q[i], ReachedBy(d, q, i - 1), TakenBy(q, i - 1))
  <2>1. CASE i \in 1 .. N
    BY <1>1, <1>2, <1>3, <2>1 DEF GoodOrder
  <2>2. CASE i = N + 1
    <3>1. i - 1 = N
      BY <1>1, <2>2
    <3> QED
      BY <1>2, <1>3, <2>2, <3>1 DEF N
  <2> QED
    BY <1>1, <2>1, <2>2
<1> QED
  BY <1>2, <1>4 DEF GoodOrder, q

(* The whole order is made of such steps. *)
LEMMA OrderIsGood ==
  ASSUME NEW d, Usable(d)
  PROVE  GoodOrder(d, DirectOrder(d))
<1> DEFINE N == Len(d.joins)
<1>1. N \in Nat
  <2>1. d.joins \in Seq(ToSet(d.joins))
    BY AnswerAssumption DEF Usable
  <2> QED
    BY <2>1
<1>2. PICK f : /\ DirectOrder(d) = f[N] /\ f[0] = <<>>
               /\ \A k \in 1 .. N : f[k] = OrderedNext(d, k, f[k - 1])
  BY <1>1, OrderedSteps
<1> DEFINE P == {n \in Nat : n <= N => GoodOrder(d, f[n])}
<1> HIDE DEF N
<1>3. 0 \in P
  <2>1. <<>> \in Seq(ToSet(<<>>)) /\ DOMAIN <<>> = {}
    BY DEF ToSet
  <2>2. GoodOrder(d, f[0])
    BY <1>2, <2>1 DEF GoodOrder
  <2> QED
    BY <2>2
<1>4. ASSUME NEW n \in Nat, n \in P
      PROVE  n + 1 \in P
  <2> SUFFICES ASSUME n + 1 <= N PROVE GoodOrder(d, f[n + 1])
    OBVIOUS
  <2>1. GoodOrder(d, f[n])
    BY <1>1, <1>4
  <2>2. n + 1 \in 1 .. N /\ (n + 1) - 1 = n
    BY <1>1
  <2>3. \E r : r = f[n]
    OBVIOUS
  <2> PICK r : r = f[n]
    BY <2>3
  <2>4. f[n + 1] = IF DirectSteps(d, r) = {} THEN r ELSE Append(r, FirstStep(d, r))
    BY <1>2, <2>2 DEF OrderedNext
  <2>5. CASE DirectSteps(d, r) # {}
    <3>1. r \in Seq(ToSet(r))
      BY <2>1 DEF GoodOrder
    <3>2. StepFits(d, FirstStep(d, r), ReachedBy(d, r, Len(r)), TakenBy(r, Len(r)))
      BY <2>5, <3>1, FirstStepIsOne, StepsFit
    <3>3. GoodOrder(d, Append(r, FirstStep(d, r)))
      BY <2>1, <3>2, OrderGrows
    <3> QED
      BY <2>4, <2>5, <3>3
  <2> QED
    BY <2>1, <2>4, <2>5
<1> HIDE DEF P
<1>5. N \in P
  BY <1>1, <1>3, <1>4, CountingUp
<1> QED
  BY <1>1, <1>2, <1>5 DEF P

(* The first source is one that no left or anti join needs another for. *)
LEMMA DirectRootIsFree ==
  ASSUME NEW d, Usable(d)
  PROVE  DirectRoot(d) \in Roots(d)
<1> DEFINE keys == LogicalKeys(d)
           list == Those(keys, Roots(d))
<1>1. IsFiniteSet(Sources(d)) /\ IsFiniteSet(d.families) /\ Roots(d) # {}
  BY SourcesAreFinite, KeysOfTables DEF Usable, Convertible
<1>2. keys \in Seq(ToSet(keys)) /\ ToSet(keys) = d.families \cup (Sources(d) \ d.families)
  <2> DEFINE a == Lists!SetToSeq(d.families)
             b == Lists!SetToSeq(Sources(d) \ d.families)
  <2>1. a \in Seq(d.families) /\ ToSet(a) = d.families
    BY <1>1, SetListed
  <2>2. IsFiniteSet(Sources(d) \ d.families)
    BY <1>1, FiniteParts
  <2>3. b \in Seq(Sources(d) \ d.families) /\ ToSet(b) = Sources(d) \ d.families
    BY <2>2, SetListed
  <2>4. keys = a \o b
    BY Zenon DEF LogicalKeys
  <2> HIDE DEF a, b
  <2>5. a \in Seq(ToSet(a)) /\ b \in Seq(ToSet(b))
    BY <2>1, <2>3
  <2>6. a \o b \in Seq(ToSet(a \o b)) /\ ToSet(a \o b) = ToSet(a) \cup ToSet(b)
    BY <2>5, TwoLists
  <2> QED
    BY <2>1, <2>3, <2>4, <2>6
<1> HIDE DEF keys
<1>3. list \in Seq(ToSet(keys)) /\ ToSet(list) = ToSet(keys) \cap Roots(d)
  <2>1. InOrder(keys, {})
    BY DEF InOrder
  <2> QED
    BY <1>2, <2>1, ThoseInOrder
<1>4. ToSet(list) = Roots(d)
  BY <1>2, <1>3 DEF Roots
<1>5. DirectRoot(d) = list[1]
  BY Zenon DEF DirectRoot, keys
<1> HIDE DEF list
<1>6. Len(list) \in Nat /\ DOMAIN list = 1 .. Len(list) /\ Len(list) # 0
  BY <1>1, <1>3, <1>4 DEF ToSet
<1>7. 1 \in DOMAIN list
  BY <1>6
<1> QED
  BY <1>4, <1>5, <1>7 DEF ToSet

(* Each step takes one more join and reaches one more source. *)
LEMMA StepsReach ==
  ASSUME NEW d, Usable(d), NEW t, GoodOrder(d, t), NEW n \in 0 .. Len(t)
  PROVE  /\ ReachedBy(d, t, n) \subseteq Sources(d) /\ JoinedWithin(d, ReachedBy(d, t, n), TakenBy(t, n))
         /\ IsFiniteSet(ReachedBy(d, t, n)) /\ Cardinality(ReachedBy(d, t, n)) = n + 1
         /\ IsFiniteSet(TakenBy(t, n)) /\ Cardinality(TakenBy(t, n)) = n
<1> DEFINE N == Len(t)
           Claim(k) == /\ ReachedBy(d, t, k) \subseteq Sources(d)
                       /\ JoinedWithin(d, ReachedBy(d, t, k), TakenBy(t, k))
                       /\ IsFiniteSet(ReachedBy(d, t, k)) /\ Cardinality(ReachedBy(d, t, k)) = k + 1
                       /\ IsFiniteSet(TakenBy(t, k)) /\ Cardinality(TakenBy(t, k)) = k
           P == {k \in Nat : k <= N => Claim(k)}
<1>1. N \in Nat /\ DOMAIN t = 1 .. N
  BY DEF GoodOrder
<1> HIDE DEF N
<1>2. 0 \in P
  <2>1. 1 .. 0 = {}
    OBVIOUS
  <2>2. ReachedBy(d, t, 0) = {DirectRoot(d)} /\ TakenBy(t, 0) = {}
    BY <2>1 DEF ReachedBy, TakenBy
  <2>3. DirectRoot(d) \in Sources(d)
    BY DirectRootIsFree DEF Roots
  <2>4. IsFiniteSet({DirectRoot(d)}) /\ Cardinality({DirectRoot(d)}) = 1
    BY FS_Singleton
  <2>5. IsFiniteSet({}) /\ Cardinality({}) = 0
    BY FS_EmptySet
  <2>6. {DirectRoot(d)} \subseteq Sources(d) /\ JoinedWithin(d, {DirectRoot(d)}, {})
    BY <2>3 DEF JoinedWithin
  <2>7. 0 + 1 = 1
    OBVIOUS
  <2>8. Claim(0)
    BY <2>2, <2>4, <2>5, <2>6, <2>7, Zenon
  <2> HIDE DEF Claim
  <2> QED
    BY <2>8
<1>3. ASSUME NEW k \in Nat, k \in P
      PROVE  k + 1 \in P
  <2> SUFFICES ASSUME k + 1 <= N PROVE Claim(k + 1)
    OBVIOUS
  <2>1. Claim(k)
    BY <1>1, <1>3
  <2>2. k + 1 \in DOMAIN t /\ (k + 1) - 1 = k /\ \A i : i \in 1 .. k + 1 <=> i \in 1 .. k \/ i = k + 1
    BY <1>1
  <2>3. \E s, V, J : s = t[k + 1] /\ V = ReachedBy(d, t, k) /\ J = TakenBy(t, k)
    OBVIOUS
  <2> PICK s, V, J : s = t[k + 1] /\ V = ReachedBy(d, t, k) /\ J = TakenBy(t, k)
    BY <2>3
  <2>4. ReachedBy(d, t, k + 1) = V \cup {s.new} /\ TakenBy(t, k + 1) = J \cup {s.join}
    BY <2>2 DEF ReachedBy, TakenBy
  <2>5. StepFits(d, s, V, J)
    BY <2>2 DEF GoodOrder
  <2>6. V \cup {s.new} \subseteq Sources(d) /\ JoinedWithin(d, V \cup {s.new}, J \cup {s.join})
    BY <2>1, <2>5 DEF StepFits, JoinedWithin
  <2>7. IsFiniteSet(V \cup {s.new}) /\ Cardinality(V \cup {s.new}) = (k + 1) + 1
    <3>1. IsFiniteSet(V) /\ Cardinality(V) = k + 1 /\ s.new \notin V
      BY <2>1, <2>5 DEF StepFits
    <3>2. IsFiniteSet(V \cup {s.new}) /\ Cardinality(V \cup {s.new}) = Cardinality(V) + 1
      BY <3>1, FS_AddElement
    <3> QED
      BY <3>1, <3>2
  <2>8. IsFiniteSet(J \cup {s.join}) /\ Cardinality(J \cup {s.join}) = k + 1
    <3>1. IsFiniteSet(J) /\ Cardinality(J) = k /\ s.join \notin J
      BY <2>1, <2>5 DEF StepFits
    <3>2. IsFiniteSet(J \cup {s.join}) /\ Cardinality(J \cup {s.join}) = Cardinality(J) + 1
      BY <3>1, FS_AddElement
    <3> QED
      BY <3>1, <3>2
  <2> QED
    BY <2>4, <2>6, <2>7, <2>8
<1> HIDE DEF Claim
<1>4. \A k \in Nat : k \in P
  <2> HIDE DEF P
  <2> QED
    BY <1>2, <1>3, CountingUp
<1>5. n \in Nat /\ n <= N
  BY <1>1 DEF N
<1>6. Claim(n)
  BY <1>4, <1>5 DEF P
<1> QED
  BY <1>6 DEF Claim

(* What it compiles takes all joins and reaches all sources. *)
LEMMA AllTaken ==
  ASSUME NEW d, Usable(d), DirectCompiles(d)
  PROVE  /\ TakenBy(DirectOrder(d), Len(DirectOrder(d))) = DOMAIN d.joins
         /\ ReachedBy(d, DirectOrder(d), Len(DirectOrder(d))) = Sources(d)
<1> DEFINE t == DirectOrder(d)
           N == Len(t)
<1>1. GoodOrder(d, t)
  BY OrderIsGood
<1>2. N = Len(d.joins) /\ N = Cardinality(Sources(d)) - 1
  BY DEF DirectCompiles
<1>3. d.joins \in Seq(ToSet(d.joins))
  BY AnswerAssumption DEF Usable
<1>4. N \in Nat /\ DOMAIN d.joins = 1 .. N
  <2>1. Len(d.joins) \in Nat /\ DOMAIN d.joins = 1 .. Len(d.joins)
    BY <1>3
  <2> QED
    BY <1>2, <2>1, Zenon
<1>5. IsFiniteSet(DOMAIN d.joins) /\ Cardinality(DOMAIN d.joins) = N
  <2> HIDE DEF N
  <2>1. IsFiniteSet(1 .. N) /\ Cardinality(1 .. N) = N
    <3>1. /\ IsFiniteSet(1 .. N)
          /\ Cardinality(1 .. N) = IF 1 > N THEN 0 ELSE N - 1 + 1
      BY <1>4, FS_Interval
    <3> QED
      BY <1>4, <3>1
  <2> QED
    BY <1>4, <2>1
<1>6. IsFiniteSet(Sources(d)) /\ Cardinality(Sources(d)) \in Nat
  BY SourcesAreFinite, FS_CardinalityType
<1> HIDE DEF N
<1>7. N \in 0 .. Len(t)
  BY <1>4 DEF N
<1> HIDE DEF t
<1>8. /\ ReachedBy(d, t, N) \subseteq Sources(d) /\ JoinedWithin(d, ReachedBy(d, t, N), TakenBy(t, N))
      /\ Cardinality(ReachedBy(d, t, N)) = N + 1 /\ Cardinality(TakenBy(t, N)) = N
  BY <1>1, <1>7, StepsReach
<1>9. ReachedBy(d, t, N) = Sources(d)
  <2>1. N + 1 = Cardinality(Sources(d))
    BY <1>2, <1>4, <1>6
  <2> QED
    BY <1>6, <1>8, <2>1, FS_Subset
<1>10. TakenBy(t, N) = DOMAIN d.joins
  <2>1. TakenBy(t, N) \subseteq DOMAIN d.joins
    BY <1>8 DEF JoinedWithin
  <2> QED
    BY <1>5, <1>8, <2>1, FS_Subset
<1> QED
  BY <1>9, <1>10 DEF N, t

-------------------------------------------------------------------------------
(* The rows of the older compiler before WHERE *)

(* Sources that are only looked for, and what may stand for the others. *)
Hidden(d) == {Right(d, d.joins[k]) : k \in {i \in DOMAIN d.joins :
                d.joins[i].type = "anti" /\ d.joins[i].strategy = "not_exists"}}
Raw(d, s, w) == {o \in Selected(d) : Key(d, o) = s /\ w[o] # "none" /\ (s \in d.families => w[o] # "out")}
LooseFits(d, s, x, w) == x \in Raw(d, s, w) \cup {Null} /\ (s \notin DirectedRights(d) => x # Null)
LooselyMet(d, j, r, w) ==
  IF j.type = "inner" THEN r[Left(d, j)] # Null /\ r[Right(d, j)] # Null
  ELSE IF Found(d, j, r, w) = {} THEN r[Right(d, j)] = Null ELSE r[Right(d, j)] \in Found(d, j, r, w)
Shown(d, k) == Right(d, d.joins[k]) \notin Hidden(d)
Loose(d, V, J, w) ==
  {r \in [V \ Hidden(d) -> Selected(d) \cup {Null}] :
     /\ \A s \in V \ Hidden(d) : LooseFits(d, s, r[s], w)
     /\ \A k \in J : Shown(d, k) => LooselyMet(d, d.joins[k], r, w)}
LooselyGrown(d, V, J, j, new, w, q) ==
  \E l \in Loose(d, V, J, w), x \in Raw(d, new, w) \cup {Null} :
     q = Joined(l, One(new, x)) /\ LooseFits(d, new, x, w) /\ LooselyMet(d, d.joins[j], q, w)

(* The sources an EXISTS hides are right ends of anti joins, never left ends. *)
LEMMA HiddenEnds ==
  ASSUME NEW d, Usable(d), NEW k \in DOMAIN d.joins, NEW j, j = d.joins[k]
  PROVE  /\ Left(d, j) \notin Hidden(d) /\ Hidden(d) \subseteq AntiRights(d)
         /\ Right(d, j) \in Hidden(d) <=> j.type = "anti" /\ j.strategy = "not_exists"
<1>1. \A i \in DOMAIN d.joins : d.joins[i].type = "anti" => i \in Directed(d) /\ Right(d, d.joins[i]) \in AntiRights(d)
  BY DEF Directed, AntiRights
<1>2. Hidden(d) \subseteq AntiRights(d)
  BY <1>1 DEF Hidden
<1>3. Left(d, j) \notin Hidden(d)
  BY <1>2, EndsOfJoins
<1>4. \A i \in Directed(d) : d.joins[i].type = "anti" =>
        \A x \in DOMAIN d.joins \ {i} : Right(d, d.joins[i]) # Right(d, d.joins[x])
  BY DraftPasses DEF Usable, JoinsMakeSense
<1>5. \A i \in DOMAIN d.joins : d.joins[i].type = "anti" /\ Right(d, d.joins[i]) = Right(d, j) => i = k
  BY <1>1, <1>4
<1>6. Right(d, j) \in Hidden(d) <=> j.type = "anti" /\ j.strategy = "not_exists"
  BY <1>5 DEF Hidden
<1> QED
  BY <1>2, <1>3, <1>6

(* Only the two ends of a join decide whether a row meets it. *)
LEMMA LooselyMetSame ==
  ASSUME NEW d, NEW j, NEW r, NEW q, NEW w, r[Left(d, j)] = q[Left(d, j)], r[Right(d, j)] = q[Right(d, j)]
  PROVE  LooselyMet(d, j, r, w) <=> LooselyMet(d, j, q, w)
<1>1. Found(d, j, r, w) = Found(d, j, q, w)
  BY DEF Found
<1> QED
  BY <1>1 DEF LooselyMet

(* The rows of a source before any test, one for each of its objects. *)
LEMMA RowsOfSource ==
  ASSUME NEW d, NEW s, NEW w
  PROVE  SourceRows(d, s, w) = Ones(s, Raw(d, s, w))
<1>1. \A o : [x \in {s} |-> o] = One(s, o)
  BY DEF One
<1>2. SourceRows(d, s, w) = {[x \in {s} |-> o] : o \in Raw(d, s, w)}
  BY Zenon DEF SourceRows, Raw
<1> QED
  BY <1>1, <1>2 DEF Ones

(* One more source. *)
LEMMA LooselyExtended ==
  ASSUME NEW d, Usable(d), NEW w, NEW V, NEW J, JoinedWithin(d, V, J),
         NEW j \in DOMAIN d.joins, Shown(d, j), NEW new, new \notin V, new \notin Hidden(d), NEW q
  PROVE  q \in Loose(d, V \cup {new}, J \cup {j}, w) <=> LooselyGrown(d, V, J, j, new, w, q)
<1> DEFINE A == Hidden(d)
           kept == V \ A
           U == V \cup {new}
<1>1. U \ A = kept \cup {new} /\ new \notin kept
  OBVIOUS
<1>2. Raw(d, new, w) \cup {Null} \subseteq Selected(d) \cup {Null}
  BY DEF Raw
<1>3. ASSUME NEW l, NEW r, \A s \in kept : r[s] = l[s], NEW k \in J, Shown(d, k)
      PROVE  LooselyMet(d, d.joins[k], r, w) <=> LooselyMet(d, d.joins[k], l, w)
  <2>1. Left(d, d.joins[k]) \in kept /\ Right(d, d.joins[k]) \in kept
    BY <1>3, HiddenEnds DEF JoinedWithin, Shown
  <2> QED
    BY <1>3, <2>1, LooselyMetSame
<1>4. ASSUME NEW l \in Loose(d, V, J, w), NEW x \in Raw(d, new, w) \cup {Null},
             q = Joined(l, One(new, x)), LooseFits(d, new, x, w), LooselyMet(d, d.joins[j], q, w)
      PROVE  q \in Loose(d, U, J \cup {j}, w)
  <2>1. /\ l \in [kept -> Selected(d) \cup {Null}] /\ \A s \in kept : LooseFits(d, s, l[s], w)
        /\ \A k \in J : Shown(d, k) => LooselyMet(d, d.joins[k], l, w)
    BY DEF Loose
  <2>2. DOMAIN q = U \ A /\ q[new] = x /\ \A s \in kept : q[s] = l[s]
    <3>1. DOMAIN l = kept
      BY <2>1
    <3>2. DOMAIN q = U \ A
      <4>1. q = Joined(l, One(new, x))
        BY <1>4
      <4>2. DOMAIN q = DOMAIN l \cup {new}
        BY <4>1, JoinedDomain
      <4> QED
        BY <1>1, <3>1, <4>2
    <3>3. q[new] = x
      BY <1>1, <1>4, <3>1, JoinedNew
    <3>4. \A s \in kept : q[s] = l[s]
      BY <1>4, <3>1, JoinedOld
    <3> QED
      BY <3>2, <3>3, <3>4
  <2>3. q \in [U \ A -> Selected(d) \cup {Null}]
    <3>1. q = [s \in DOMAIN l \cup DOMAIN One(new, x) |-> IF s \in DOMAIN l THEN l[s] ELSE One(new, x)[s]]
      BY <1>4 DEF Joined
    <3>2. q = [s \in DOMAIN q |-> q[s]]
      BY <3>1
    <3>3. \A s \in DOMAIN q : q[s] \in Selected(d) \cup {Null}
      BY <1>1, <1>2, <2>1, <2>2
    <3> QED
      BY <2>2, <3>2, <3>3
  <2>4. \A s \in U \ A : LooseFits(d, s, q[s], w)
    BY <1>1, <1>4, <2>1, <2>2
  <2>5. \A k \in J \cup {j} : Shown(d, k) => LooselyMet(d, d.joins[k], q, w)
    BY <1>3, <1>4, <2>1, <2>2
  <2> HIDE DEF U
  <2> QED
    BY <2>3, <2>4, <2>5 DEF Loose
<1>5. ASSUME q \in Loose(d, U, J \cup {j}, w)
      PROVE  \E l \in Loose(d, V, J, w), x \in Raw(d, new, w) \cup {Null} :
               q = Joined(l, One(new, x)) /\ LooseFits(d, new, x, w) /\ LooselyMet(d, d.joins[j], q, w)
  <2> DEFINE l == [s \in kept |-> q[s]]
             x == q[new]
  <2>1. /\ q \in [U \ A -> Selected(d) \cup {Null}] /\ \A s \in U \ A : LooseFits(d, s, q[s], w)
        /\ \A k \in J \cup {j} : Shown(d, k) => LooselyMet(d, d.joins[k], q, w)
    BY <1>5 DEF Loose
  <2>2. l \in [kept -> Selected(d) \cup {Null}] /\ DOMAIN l = kept /\ \A s \in kept : l[s] = q[s]
    BY <1>1, <2>1
  <2> HIDE DEF l
  <2>3. l \in Loose(d, V, J, w)
    <3>1. \A k \in J : Shown(d, k) => LooselyMet(d, d.joins[k], l, w)
      BY <1>3, <2>1, <2>2
    <3>2. \A s \in kept : LooseFits(d, s, l[s], w)
      BY <1>1, <2>1, <2>2
    <3> QED
      BY <2>2, <3>1, <3>2 DEF Loose
  <2>4. LooseFits(d, new, x, w) /\ x \in Raw(d, new, w) \cup {Null}
    BY <1>1, <2>1 DEF LooseFits
  <2>5. q = Joined(l, One(new, x))
    <3>1. /\ DOMAIN Joined(l, One(new, x)) = kept \cup {new} /\ Joined(l, One(new, x))[new] = x
          /\ \A s \in kept : Joined(l, One(new, x))[s] = l[s]
      <4>1. DOMAIN Joined(l, One(new, x)) = kept \cup {new}
        BY <2>2, JoinedDomain
      <4>2. Joined(l, One(new, x))[new] = x
        BY <1>1, <2>2, JoinedNew
      <4>3. \A s \in kept : Joined(l, One(new, x))[s] = l[s]
        BY <2>2, JoinedOld
      <4> QED
        BY <4>1, <4>2, <4>3
    <3>2. DOMAIN q = kept \cup {new} /\ q = [s \in kept \cup {new} |-> q[s]]
      BY <1>1, <2>1
    <3>3. \A s \in kept \cup {new} : Joined(l, One(new, x))[s] = q[s]
      BY <2>2, <3>1
    <3>4. Joined(l, One(new, x)) = [s \in DOMAIN Joined(l, One(new, x)) |-> Joined(l, One(new, x))[s]]
      BY DEF Joined
    <3> HIDE DEF x
    <3> QED
      BY <3>1, <3>2, <3>3, <3>4
  <2>6. LooselyMet(d, d.joins[j], q, w)
    BY <2>1
  <2> HIDE DEF x
  <2> QED
    BY <2>3, <2>4, <2>5, <2>6
<1> QED
  BY <1>4, <1>5 DEF LooselyGrown

(* What is looked for leaves the rows there are. *)
LEMMA LooselyHidden ==
  ASSUME NEW d, NEW w, NEW V, NEW J, NEW j, ~Shown(d, j)
  PROVE  Loose(d, V \cup {Right(d, d.joins[j])}, J \cup {j}, w) = Loose(d, V, J, w)
<1>1. (V \cup {Right(d, d.joins[j])}) \ Hidden(d) = V \ Hidden(d)
  BY DEF Shown
<1> QED
  BY <1>1 DEF Loose

(* Where it joins the right side of a left or anti join it finds the rows that match. *)
LEMMA ScopedFound ==
  ASSUME NEW d, Usable(d), NEW s \in DirectedRights(d), NEW w
  PROVE  Fulfilling(ScopedTests(d, s), s, Raw(d, s, w), w) = Matching(d, s, w)
<1>1. ScopedTests(d, s) = MatchTests(d, s)
  <2>1. \A x : FilterSources(d, x) = {s} /\ s \in DirectedRights(d) /\ x.scope = "match"
               <=> FilterSources(d, x) = {s} /\ x.scope = "match"
    OBVIOUS
  <2>2. s \in DirectedRights(d) \ d.families <=> s \notin d.families
    OBVIOUS
  <2> QED
    BY <2>1, <2>2 DEF ScopedTests, MatchTests
<1>2. Raw(d, s, w) = Alone(d, s, w)
  BY DEF Raw, Alone
<1>3. {o \in Alone(d, s, w) : Holds(MatchTests(d, s), One(s, o), w)} = Matching(d, s, w)
  BY MatchesFound
<1> QED
  BY <1>1, <1>2, <1>3 DEF Fulfilling

(* A step that is joined adds its source. *)
StaysInner(d, s) == d.joins[s.join].type = "inner" => s.new \notin DirectedRights(d)
JoinedBy(d, s, L, w)      == JoinRows(DirectJoin(d, s), L, SourceRows(d, s.new, w), {s.new}, w)
LooseAfter(d, V, J, s, w) == Loose(d, V \cup {s.new}, J \cup {s.join}, w)

(* A join of the FROM clause takes the loose answer to the one over a source more. *)
LEMMA LooselyJoined ==
  ASSUME NEW d, Usable(d), NEW w, NEW V, V \subseteq Sources(d), NEW J, JoinedWithin(d, V, J),
         NEW s, StepFits(d, s, V, J), StaysInner(d, s),
         ~InWhere(d, s)
  PROVE  JoinedBy(d, s, Loose(d, V, J, w), w) = LooseAfter(d, V, J, s, w)
<1>0. \E k, j, from, new, n : k = s.join /\ j = d.joins[s.join] /\ from = s.from /\ new = s.new /\ n = DirectJoin(d, s)
  OBVIOUS
<1> PICK k, j, from, new, n : k = s.join /\ j = d.joins[s.join] /\ from = s.from /\ new = s.new /\ n = DirectJoin(d, s)
  BY <1>0
<1>16. /\ k \in DOMAIN d.joins /\ j = d.joins[k] /\ from \in V /\ new \in Sources(d) /\ new \notin V
       /\ \/ from = Left(d, j) /\ new = Right(d, j)
          \/ j.type = "inner" /\ from = Right(d, j) /\ new = Left(d, j)
       /\ j.type = "inner" => new \notin DirectedRights(d)
       /\ ~(j.type = "anti" /\ j.strategy = "not_exists")
  BY DEF StepFits, InWhere, StaysInner
<1>17. /\ On(n, from, new) /\ n.match = ScopedTests(d, new) /\ n.strategy = "left_join"
       /\ n.join = IF j.type = "inner" THEN "inner" ELSE "left"
  BY DEF DirectJoin, On
<1> DEFINE L == Loose(d, V, J, w)
           A == Hidden(d)
           kept == V \ A
           C == Raw(d, new, w)
           U == V \cup {new}
           T == Selected(d) \cup {Null}
           P == Loose(d, U, J \cup {k}, w)
<1> SUFFICES JoinRows(n, L, SourceRows(d, new, w), {new}, w) = P
  BY DEF JoinedBy, LooseAfter
<1>1. /\ j.type \in {"inner", "left", "anti"} /\ A \subseteq DirectedRights(d)
      /\ j.type # "inner" => Right(d, j) \in DirectedRights(d)
      /\ Left(d, j) \notin A /\ Right(d, j) \notin A /\ Shown(d, k)
  <2>1. /\ j.type \in {"inner", "left", "anti"} /\ AntiRights(d) \subseteq DirectedRights(d)
        /\ j.type # "inner" => Right(d, j) \in DirectedRights(d)
    BY <1>16, EndsOfJoins
  <2>2. /\ Left(d, j) \notin Hidden(d) /\ Hidden(d) \subseteq AntiRights(d)
        /\ Right(d, j) \in Hidden(d) <=> j.type = "anti" /\ j.strategy = "not_exists"
    BY <1>16, HiddenEnds
  <2> QED
    BY <1>16, <2>1, <2>2 DEF Shown
<1>2. from \in kept /\ new \notin kept /\ new \notin A
  BY <1>1, <1>16
<1>3. \A l \in L : l \in [kept -> T] /\ DOMAIN l = kept
  BY DEF Loose
<1>5. Null \notin C /\ C \subseteq Selected(d) /\ Null \notin Selected(d)
  BY KeysOfTables, AnswerAssumption DEF Raw
<1>6. SourceRows(d, new, w) = Ones(new, C)
  BY RowsOfSource
<1>8. \A l \in L : \A x : Joined(l, One(new, x))[new] = x /\ Joined(l, One(new, x))[from] = l[from]
  <2> SUFFICES ASSUME NEW l \in L, NEW x
               PROVE  Joined(l, One(new, x))[new] = x /\ Joined(l, One(new, x))[from] = l[from]
    OBVIOUS
  <2>1. new \notin DOMAIN l /\ from \in DOMAIN l
    BY <1>2, <1>3
  <2> QED
    BY <2>1, JoinedNew, JoinedOld
<1>9. \A q : q \in P <=>
        \E l \in L, x \in C \cup {Null} :
          q = Joined(l, One(new, x)) /\ LooseFits(d, new, x, w) /\ LooselyMet(d, j, q, w)
  <2> SUFFICES ASSUME NEW q
               PROVE  q \in P <=>
                 \E l \in L, x \in C \cup {Null} :
                   q = Joined(l, One(new, x)) /\ LooseFits(d, new, x, w) /\ LooselyMet(d, j, q, w)
    OBVIOUS
  <2>1. q \in Loose(d, V \cup {new}, J \cup {k}, w) <=> LooselyGrown(d, V, J, k, new, w, q)
    BY <1>1, <1>2, <1>16, LooselyExtended
  <2> QED
    BY <1>16, <2>1 DEF LooselyGrown
<1> HIDE DEF L, P
<1>7. Lack(L, new)
  BY <1>2, <1>3 DEF Lack
<1>10. JoinRows(n, L, SourceRows(d, new, w), {new}, w) = Results(n, L, from, new, Fulfilling(n.match, new, C, w))
  <2>1. Null \notin C
    BY <1>5
  <2> HIDE DEF C
  <2>2. JoinRows(n, L, Ones(new, C), {new}, w) = Results(n, L, from, new, Fulfilling(n.match, new, C, w))
    BY <1>7, <1>17, <2>1, JoinRowsAre
  <2> QED
    BY <1>6, <2>2
<1>11. CASE j.type = "inner"
  <2>1. new \notin DirectedRights(d)
    BY <1>11, <1>16
  <2>2. C = Fulfilling(n.match, new, C, w)
    <3>1. n.match = {}
      BY <1>17, <2>1 DEF ScopedTests
    <3> QED
      BY <3>1 DEF Holds, Fulfilling
  <2>3. JoinRows(n, L, SourceRows(d, new, w), {new}, w) = Met(L, from, new, C)
    BY <1>10, <1>11, <1>17, <2>2 DEF Results
  <2>5. \A x : x \in C \cup {Null} /\ LooseFits(d, new, x, w) <=> x \in C
    BY <1>5, <2>1 DEF LooseFits
  <2>6. \A l \in L : \A x : LooselyMet(d, j, Joined(l, One(new, x)), w) <=> l[from] # Null /\ x # Null
    BY <1>8, <1>11, <1>16 DEF LooselyMet
  <2>7. \A q : q \in P <=> \E l \in L, x \in C : q = Joined(l, One(new, x)) /\ l[from] # Null
    BY <1>5, <1>9, <2>1, <2>5, <2>6
  <2>8. \A q : q \in Met(L, from, new, C) <=> \E l \in L, x \in C : q = Joined(l, One(new, x)) /\ l[from] # Null
    BY MetIs
  <2>9. Met(L, from, new, C) = P
    BY <2>7, <2>8
  <2> QED
    BY <2>3, <2>9
<1>13. CASE j.type # "inner"
  <2> DEFINE M == Matching(d, new, w)
  <2>1. from = Left(d, j) /\ new = Right(d, j) /\ new \in DirectedRights(d)
    BY <1>1, <1>13, <1>16
  <2>12. M = Fulfilling(n.match, new, C, w)
    BY <1>17, <2>1, ScopedFound
  <2>4. M \subseteq C /\ Null \notin M
    BY <1>5, <2>12 DEF Fulfilling
  <2> HIDE DEF M
  <2>2. JoinRows(n, L, SourceRows(d, new, w), {new}, w) = Met(L, from, new, M) \cup Padded(Unmet(L, from, M), new)
    BY <1>10, <1>13, <1>17, <2>12 DEF Results
  <2>3. \A x : x \in C \cup {Null} /\ LooseFits(d, new, x, w) <=> x \in C \cup {Null}
    BY <2>1 DEF LooseFits
  <2>5. \A l \in L : \A x : LooselyMet(d, j, Joined(l, One(new, x)), w) <=>
                          IF l[from] = Null \/ M = {} THEN x = Null ELSE x \in M
    <3> SUFFICES ASSUME NEW l \in L, NEW x
                 PROVE  LooselyMet(d, j, Joined(l, One(new, x)), w) <=>
                          IF l[from] = Null \/ M = {} THEN x = Null ELSE x \in M
      OBVIOUS
    <3> DEFINE q == Joined(l, One(new, x))
    <3>1. q[Left(d, j)] = l[from] /\ q[Right(d, j)] = x
      BY <1>8, <2>1
    <3> HIDE DEF q
    <3>2. Found(d, j, q, w) = IF l[from] = Null THEN {} ELSE M
      BY <2>1, <3>1 DEF Found, M
    <3>3. LooselyMet(d, j, q, w) <=> IF l[from] = Null \/ M = {} THEN x = Null ELSE x \in M
      BY <1>13, <3>1, <3>2 DEF LooselyMet
    <3> QED
      BY <3>3 DEF q
  <2> HIDE DEF C
  <2>6. \A q : q \in P <=>
               \E l \in L : \E x : q = Joined(l, One(new, x)) /\ IF l[from] = Null \/ M = {} THEN x = Null ELSE x \in M
    BY <1>9, <2>3, <2>4, <2>5
  <2>7. \A q : q \in Met(L, from, new, M) <=> \E l \in L, x \in M : q = Joined(l, One(new, x)) /\ l[from] # Null
    BY MetIs
  <2>8. \A q : q \in Padded(Unmet(L, from, M), new) <=>
               \E l \in L : q = Joined(l, One(new, Null)) /\ (l[from] = Null \/ M = {})
    BY DEF Padded, Unmet
  <2>9. Met(L, from, new, M) \cup Padded(Unmet(L, from, M), new) = P
    <3>1. \A q : q \in Met(L, from, new, M) \cup Padded(Unmet(L, from, M), new) <=> q \in P
      <4> HIDE DEF U, C
      <4> QED
        BY <2>6, <2>7, <2>8
    <3> QED
      BY <3>1
  <2> QED
    BY <2>2, <2>9
<1> QED
  BY <1>11, <1>13

(* The FROM clause begins with the loose answer over its root. *)
LEMMA LooseRoot ==
  ASSUME NEW d, Usable(d), NEW s \in Roots(d), NEW w
  PROVE  SourceRows(d, s, w) = Loose(d, {s}, {}, w)
<1>1. s \notin DirectedRights(d) /\ s \notin Hidden(d)
  <2>1. Hidden(d) \subseteq DirectedRights(d)
    BY DEF Hidden, DirectedRights, Directed
  <2> QED
    BY <2>1 DEF Roots
<1>2. {s} \ Hidden(d) = {s}
  BY <1>1
<1>3. \A x : x \in Raw(d, s, w) <=> LooseFits(d, s, x, w)
  <2>1. Null \notin Selected(d)
    BY KeysOfTables, AnswerAssumption
  <2>2. Null \notin Raw(d, s, w)
    BY <2>1 DEF Raw
  <2> QED
    BY <1>1, <2>2 DEF LooseFits
<1>4. Loose(d, {s}, {}, w) = {r \in [{s} -> Selected(d) \cup {Null}] : LooseFits(d, s, r[s], w)}
  BY <1>2 DEF Loose
<1>5. \A x \in Raw(d, s, w) : x \in Selected(d)
  BY DEF Raw
<1>7. ASSUME NEW x \in Raw(d, s, w) PROVE One(s, x) \in Loose(d, {s}, {}, w)
  BY <1>3, <1>4, <1>5 DEF One
<1>8. ASSUME NEW r \in Loose(d, {s}, {}, w) PROVE r[s] \in Raw(d, s, w) /\ r = One(s, r[s])
  BY <1>3, <1>4 DEF One
<1> QED
  BY <1>7, <1>8, RowsOfSource DEF Ones

(* What DirectFrom joins, one step at a time. *)
FromNext(d, w, k, r) == 
  IF InWhere(d, DirectOrder(d)[k]) THEN r
  ELSE JoinRows(DirectJoin(d, DirectOrder(d)[k]), r, SourceRows(d, DirectOrder(d)[k].new, w),
                {DirectOrder(d)[k].new}, w)
IsFrom(d, w, n, f) == f = [k \in 0 .. n |-> IF k = 0 THEN SourceRows(d, DirectRoot(d), w) ELSE FromNext(d, w, k, f[k - 1])]

(* The rows of the FROM clause, join by join. *)
LEMMA FromSteps ==
  ASSUME NEW d, NEW w, Len(DirectOrder(d)) \in Nat
  PROVE  \E f : /\ DirectFrom(d, w) = f[Len(DirectOrder(d))] /\ f[0] = SourceRows(d, DirectRoot(d), w)
               /\ \A k \in 1 .. Len(DirectOrder(d)) : f[k] = FromNext(d, w, k, f[k - 1])
<1> DEFINE P == {n \in Nat : \E f : IsFrom(d, w, n, f)}
<1>1. 0 \in P
  <2> DEFINE f == [k \in 0 .. 0 |-> SourceRows(d, DirectRoot(d), w)]
  <2>1. \A k \in 0 .. 0 : k = 0
    OBVIOUS
  <2>2. IsFrom(d, w, 0, f)
    BY <2>1 DEF IsFrom
  <2> QED
    BY <2>2
<1>2. ASSUME NEW n \in Nat, n \in P
      PROVE  n + 1 \in P
  <2>1. PICK f : IsFrom(d, w, n, f)
    BY <1>2
  <2> DEFINE h == [k \in 0 .. n + 1 |-> IF k = 0 THEN SourceRows(d, DirectRoot(d), w) ELSE FromNext(d, w, k, f[k - 1])]
  <2>2. \A k \in 0 .. n : h[k] = f[k]
    BY <2>1 DEF IsFrom
  <2>3. \A k \in 0 .. n + 1 : k # 0 => k - 1 \in 0 .. n
    OBVIOUS
  <2>4. IsFrom(d, w, n + 1, h)
    BY <2>2, <2>3 DEF IsFrom
  <2> HIDE DEF h
  <2>5. \E g : IsFrom(d, w, n + 1, g)
    BY <2>4
  <2> QED
    BY <2>5
<1> HIDE DEF P
<1>3. Nat \subseteq P
  BY <1>1, <1>2, CountingUp
<1> DEFINE u == CHOOSE f : IsFrom(d, w, Len(DirectOrder(d)), f)
<1>4. IsFrom(d, w, Len(DirectOrder(d)), u)
  <2>1. Len(DirectOrder(d)) \in P
    BY <1>3
  <2> QED
    BY <2>1 DEF P
<1>5. DirectFrom(d, w) = u[Len(DirectOrder(d))]
  BY Zenon DEF DirectFrom, IsFrom, FromNext
<1> HIDE DEF u
<1>6. /\ u[0] = SourceRows(d, DirectRoot(d), w)
      /\ \A k \in 1 .. Len(DirectOrder(d)) : u[k] = FromNext(d, w, k, u[k - 1])
  <2>1. \A k \in 0 .. Len(DirectOrder(d)) : u[k] = IF k = 0 THEN SourceRows(d, DirectRoot(d), w) ELSE FromNext(d, w, k, u[k - 1])
    BY <1>4, Zenon DEF IsFrom
  <2>2. 0 \in 0 .. Len(DirectOrder(d)) /\ \A k \in 1 .. Len(DirectOrder(d)) : k \in 0 .. Len(DirectOrder(d)) /\ k # 0
    OBVIOUS
  <2> QED
    BY <2>1, <2>2
<1> QED
  BY <1>5, <1>6

(* The whole FROM clause is the loose answer over all sources. *)
LEMMA LooseFrom ==
  ASSUME NEW d, Usable(d), DirectCompiles(d), NEW w
  PROVE  DirectFrom(d, w) = Loose(d, Sources(d), DOMAIN d.joins, w)
<1>0. \E t, N : t = DirectOrder(d) /\ N = Len(t)
  OBVIOUS
<1> PICK t, N : t = DirectOrder(d) /\ N = Len(t)
  BY <1>0
<1>1. GoodOrder(d, t) /\ t \in Seq(ToSet(t)) /\ N \in Nat /\ DOMAIN t = 1 .. N
  BY OrderIsGood DEF GoodOrder
<1>2. PICK f : /\ DirectFrom(d, w) = f[N] /\ f[0] = SourceRows(d, DirectRoot(d), w)
               /\ \A k \in 1 .. N : f[k] = FromNext(d, w, k, f[k - 1])
  BY <1>1, FromSteps
<1> DEFINE Claim(n) == f[n] = Loose(d, ReachedBy(d, t, n), TakenBy(t, n), w)
           P == {n \in Nat : n <= N => Claim(n)}
<1>3. 0 \in P
  <2>1. 1 .. 0 = {}
    OBVIOUS
  <2>2. ReachedBy(d, t, 0) = {DirectRoot(d)} /\ TakenBy(t, 0) = {}
    BY <2>1 DEF ReachedBy, TakenBy
  <2>3. SourceRows(d, DirectRoot(d), w) = Loose(d, {DirectRoot(d)}, {}, w)
    BY DirectRootIsFree, LooseRoot
  <2>4. Claim(0)
    BY <1>2, <2>2, <2>3
  <2> QED
    BY <2>4
<1>4. ASSUME NEW n \in Nat, n \in P
      PROVE  n + 1 \in P
  <2> SUFFICES ASSUME n + 1 <= N PROVE Claim(n + 1)
    OBVIOUS
  <2>1. Claim(n)
    BY <1>1, <1>4
  <2>2. /\ n + 1 \in DOMAIN t /\ (n + 1) - 1 = n /\ n + 1 \in 1 .. N /\ n \in 0 .. Len(t)
        /\ \A i : i \in 1 .. n + 1 <=> i \in 1 .. n \/ i = n + 1
    BY <1>1
  <2>3. \E s, V, J, r, next : s = t[n + 1] /\ V = ReachedBy(d, t, n) /\ J = TakenBy(t, n) /\ r = f[n] /\ next = f[n + 1]
    OBVIOUS
  <2> PICK s, V, J, r, next : s = t[n + 1] /\ V = ReachedBy(d, t, n) /\ J = TakenBy(t, n) /\ r = f[n] /\ next = f[n + 1]
    BY <2>3
  <2>4. ReachedBy(d, t, n + 1) = V \cup {s.new} /\ TakenBy(t, n + 1) = J \cup {s.join}
    BY <2>2 DEF ReachedBy, TakenBy
  <2>5. StepFits(d, s, V, J)
    BY <1>1, <2>2 DEF GoodOrder
  <2>6. V \subseteq Sources(d) /\ JoinedWithin(d, V, J)
    BY <1>1, <2>2, StepsReach
  <2>7. StaysInner(d, s)
    BY <2>2 DEF DirectCompiles, ToSet, StaysInner
  <2>8. next = IF InWhere(d, s) THEN r
               ELSE JoinRows(DirectJoin(d, s), r, SourceRows(d, s.new, w), {s.new}, w)
    BY <1>2, <2>2 DEF FromNext
  <2>9. r = Loose(d, V, J, w)
    BY <2>1
  <2>10. CASE ~InWhere(d, s)
    <3>1. JoinedBy(d, s, Loose(d, V, J, w), w) = LooseAfter(d, V, J, s, w)
      BY <2>5, <2>6, <2>7, <2>10, LooselyJoined
    <3>2. next = JoinedBy(d, s, r, w) /\ LooseAfter(d, V, J, s, w) = Loose(d, V \cup {s.new}, J \cup {s.join}, w)
      BY <2>8, <2>10 DEF JoinedBy, LooseAfter
    <3> QED
      BY <2>4, <2>9, <3>1, <3>2
  <2>11. CASE InWhere(d, s)
    <3>1. s.join \in DOMAIN d.joins /\ s.new = Right(d, d.joins[s.join])
      BY <2>5, <2>11 DEF StepFits, InWhere
    <3>2. ~Shown(d, s.join)
      BY <2>11, <3>1, HiddenEnds DEF InWhere, Shown
    <3>3. Loose(d, V \cup {Right(d, d.joins[s.join])}, J \cup {s.join}, w) = Loose(d, V, J, w)
      BY <3>2, LooselyHidden
    <3> QED
      BY <2>4, <2>8, <2>9, <2>11, <3>1, <3>3
  <2> QED
    BY <2>10, <2>11
<1> HIDE DEF Claim
<1>5. \A n \in Nat : n \in P
  <2> HIDE DEF P
  <2> QED
    BY <1>3, <1>4, CountingUp
<1>6. Claim(N)
  BY <1>1, <1>5
<1>7. TakenBy(t, N) = DOMAIN d.joins /\ ReachedBy(d, t, N) = Sources(d)
  BY AllTaken
<1> QED
  BY <1>2, <1>6, <1>7 DEF Claim

-------------------------------------------------------------------------------
(* What the older compiler computes *)

(* The filters that are no condition of a match, and what is tested after the joins. *)
OfTheRow(d, i) == \A s \in DirectedRights(d) : ~Scoped(d, i, s)
ExcludedBy(d, j, r, w) ==
  IF Right(d, j) \in Hidden(d) THEN Found(d, j, r, w) = {} ELSE r[Right(d, j)] = Null
Late(d, r, w) ==
  /\ \A i \in ToSet(d.filters) : OfTheRow(d, i) => Truth(ItemTest(d, i), r, w) = "T"
  /\ \A s \in Sources(d) : s \notin DirectedRights(d) /\ s \notin d.families => w[r[s]] # "out"
  /\ \A k \in DOMAIN d.joins : d.joins[k].type = "anti" => ExcludedBy(d, d.joins[k], r, w)

(* What the older compiler accepts filters one source at a time. *)
LEMMA FilterOfOne ==
  ASSUME NEW d, Usable(d), DirectCompiles(d), NEW i \in ToSet(d.filters)
  PROVE  \E t \in Sources(d) : /\ FilterSources(d, i) = {t}
                               /\ OfTheRow(d, i) <=> ~(t \in DirectedRights(d) /\ i.scope = "match")
                               /\ OfTheRow(d, i) => t \notin AntiRights(d)
<1>1. Cardinality(i.leaves) = 1 /\ (i.scope = "where" => FilterSources(d, i) \cap AntiRights(d) = {})
  BY DEF DirectCompiles
<1>2. i.leaves # {} /\ IsFiniteSet(i.leaves) /\ i.scope \in {"match", "where"}
  BY AnswerAssumption DEF Usable
<1>3. \E x : i.leaves = {x}
  <2>1. ~(1 > 1)
    OBVIOUS
  <2> QED
    BY <1>1, <1>2, <2>1, OneOrMore
<1>4. PICK x : i.leaves = {x}
  BY <1>3
<1>5. FilterSources(d, i) = {Key(d, x[1])}
  BY <1>4 DEF FilterSources
<1>6. Key(d, x[1]) \in Sources(d)
  <2>1. x[1] \in Selected(d)
    BY <1>4, DraftPasses DEF Usable
  <2> QED
    BY <2>1, KeysOfTables
<1>7. \E t : t = Key(d, x[1])
  OBVIOUS
<1> PICK t : t = Key(d, x[1])
  BY <1>7
<1>8. OfTheRow(d, i) <=> ~(t \in DirectedRights(d) /\ i.scope = "match")
  BY <1>5 DEF OfTheRow, Scoped
<1>9. OfTheRow(d, i) => t \notin AntiRights(d)
  BY <1>1, <1>2, <1>5, <1>8, DirectedAreSources
<1> QED
  BY <1>5, <1>6, <1>8, <1>9

(* The WHERE clause asks for the filters of the row and the periods of its sources. *)
LEMMA WhereHolds ==
  ASSUME NEW d, Usable(d), DirectCompiles(d), NEW w, NEW r
  PROVE  Holds(WhereTests(d), r, w) <=>
           /\ \A i \in ToSet(d.filters) : OfTheRow(d, i) => Truth(ItemTest(d, i), r, w) = "T"
           /\ \A s \in Sources(d) : s \notin DirectedRights(d) /\ s \notin d.families => r[s] # Null /\ w[r[s]] # "out"
<1> DEFINE items == {x \in ToSet(d.filters) : ~(FilterSources(d, x) \subseteq DirectedRights(d) /\ x.scope = "match")}
           plain == Sources(d) \ (DirectedRights(d) \cup d.families)
<1>1. WhereTests(d) = {ItemTest(d, i) : i \in items} \cup {PeriodTest(d, s) : s \in plain}
  BY Zenon DEF WhereTests
<1>2. \A i \in ToSet(d.filters) : i \in items <=> OfTheRow(d, i)
  <2> SUFFICES ASSUME NEW i \in ToSet(d.filters) PROVE i \in items <=> OfTheRow(d, i)
    OBVIOUS
  <2>1. PICK t \in Sources(d) : /\ FilterSources(d, i) = {t}
                                /\ OfTheRow(d, i) <=> ~(t \in DirectedRights(d) /\ i.scope = "match")
    BY FilterOfOne
  <2> QED
    BY <2>1
<1>3. \A s \in plain : Truth(PeriodTest(d, s), r, w) = "T" <=> r[s] # Null /\ w[r[s]] # "out"
  <2> SUFFICES ASSUME NEW s \in plain
               PROVE  Truth(PeriodTest(d, s), r, w) = "T" <=> r[s] # Null /\ w[r[s]] # "out"
    OBVIOUS
  <2>1. Key(d, s) = s
    BY KeysOfTables
  <2> QED
    BY <2>1, PeriodHolds
<1>4. items \subseteq ToSet(d.filters)
  OBVIOUS
<1>5. \A s \in Sources(d) : s \in plain <=> s \notin DirectedRights(d) /\ s \notin d.families
  OBVIOUS
<1>6. plain \subseteq Sources(d)
  OBVIOUS
<1> HIDE DEF items, plain
<1>7. Holds(WhereTests(d), r, w) <=>
        /\ \A i \in items : Truth(ItemTest(d, i), r, w) = "T"
        /\ \A s \in plain : Truth(PeriodTest(d, s), r, w) = "T"
  BY <1>1 DEF Holds
<1> QED
  BY <1>2, <1>3, <1>4, <1>5, <1>6, <1>7

(* A step and the join it takes. *)
LEMMA StepsOfJoins ==
  ASSUME NEW d, Usable(d), DirectCompiles(d)
  PROVE  /\ \A s \in ToSet(DirectOrder(d)) :
              /\ s.join \in DOMAIN d.joins
              /\ d.joins[s.join].type = "anti" => s.from = Left(d, d.joins[s.join]) /\ s.new = Right(d, d.joins[s.join])
         /\ \A k \in DOMAIN d.joins : \E s \in ToSet(DirectOrder(d)) : s.join = k
<1>0. \E t : t = DirectOrder(d)
  OBVIOUS
<1> PICK t : t = DirectOrder(d)
  BY <1>0
<1>1. GoodOrder(d, t) /\ TakenBy(t, Len(t)) = DOMAIN d.joins
  BY OrderIsGood, AllTaken
<1>2. t \in Seq(ToSet(t)) /\ DOMAIN t = 1 .. Len(t)
  BY <1>1 DEF GoodOrder
<1>3. \A k \in DOMAIN d.joins : \E s \in ToSet(t) : s.join = k
  BY <1>1, <1>2 DEF TakenBy, ToSet
<1>4. ASSUME NEW s \in ToSet(t)
      PROVE  /\ s.join \in DOMAIN d.joins
             /\ d.joins[s.join].type = "anti" => s.from = Left(d, d.joins[s.join]) /\ s.new = Right(d, d.joins[s.join])
  <2>1. PICK i \in DOMAIN t : s = t[i]
    BY DEF ToSet
  <2>2. StepFits(d, s, ReachedBy(d, t, i - 1), TakenBy(t, i - 1))
    BY <1>1, <2>1 DEF GoodOrder
  <2> QED
    BY <2>2 DEF StepFits
<1> QED
  BY <1>3, <1>4

(* A NOT EXISTS finds what a join would find. *)
LEMMA NothingFound ==
  ASSUME NEW d, Usable(d), NEW k \in DOMAIN d.joins, NEW j, j = d.joins[k], j.type = "anti", NEW w, NEW r
  PROVE  (r[Left(d, j)] = Null \/ ~\E x \in SourceRows(d, Right(d, j), w) : Holds(ScopedTests(d, Right(d, j)), x, w))
           <=> Found(d, j, r, w) = {}
<1>0. \E new : new = Right(d, j)
  OBVIOUS
<1> PICK new : new = Right(d, j)
  BY <1>0
<1>1. new \in DirectedRights(d)
  BY EndsOfJoins
<1>2. Fulfilling(ScopedTests(d, new), new, Raw(d, new, w), w) = Matching(d, new, w)
  BY <1>1, ScopedFound
<1>3. SourceRows(d, new, w) = Ones(new, Raw(d, new, w))
  BY RowsOfSource
<1>4. (\E x \in SourceRows(d, new, w) : Holds(ScopedTests(d, new), x, w)) <=> Matching(d, new, w) # {}
  BY <1>2, <1>3 DEF Ones, Fulfilling
<1> QED
  BY <1>4 DEF Found

(* The statement's answer: the loose rows that Late keeps, without the sources excluded. *)
LEMMA DirectRowsAre ==
  ASSUME NEW d, Usable(d), DirectCompiles(d), NEW w
  PROVE  DirectRows(d, w) = {OnlyFor(r, Sources(d) \ AntiRights(d)) :
                               r \in {x \in Loose(d, Sources(d), DOMAIN d.joins, w) : Late(d, x, w)}}
<1> DEFINE order == ToSet(DirectOrder(d))
           kept == Sources(d) \ AntiRights(d)
           L == Loose(d, Sources(d), DOMAIN d.joins, w)
           excludes(s, r) ==
             IF InWhere(d, s)
             THEN r[s.from] = Null \/ ~\E x \in SourceRows(d, s.new, w) : Holds(ScopedTests(d, s.new), x, w)
             ELSE r[s.new] = Null
           out(r) == \A s \in order : d.joins[s.join].type = "anti" => excludes(s, r)
<1>1. DirectRows(d, w) = {OnlyFor(r, kept) : r \in {x \in DirectFrom(d, w) : Holds(WhereTests(d), x, w) /\ out(x)}}
  BY Zenon DEF DirectRows
<1>2. DirectFrom(d, w) = L
  BY LooseFrom
<1>3. ASSUME NEW s \in order, d.joins[s.join].type = "anti", NEW r
      PROVE  excludes(s, r) <=> ExcludedBy(d, d.joins[s.join], r, w)
  <2>0. \E j, k : j = d.joins[s.join] /\ k = s.join
    OBVIOUS
  <2> PICK j, k : j = d.joins[s.join] /\ k = s.join
    BY <2>0
  <2>1. k \in DOMAIN d.joins /\ j = d.joins[k] /\ j.type = "anti" /\ s.from = Left(d, j) /\ s.new = Right(d, j)
    BY <1>3, StepsOfJoins
  <2>2. Right(d, j) \in Hidden(d) <=> InWhere(d, s)
    BY <2>1, HiddenEnds DEF InWhere
  <2>3. (r[Left(d, j)] = Null \/ ~\E x \in SourceRows(d, Right(d, j), w) : Holds(ScopedTests(d, Right(d, j)), x, w))
           <=> Found(d, j, r, w) = {}
    BY <2>1, NothingFound
  <2>4. excludes(s, r) <=>
          IF InWhere(d, s)
          THEN r[Left(d, j)] = Null \/ ~\E x \in SourceRows(d, Right(d, j), w) : Holds(ScopedTests(d, Right(d, j)), x, w)
          ELSE r[Right(d, j)] = Null
    BY <2>1
  <2> HIDE DEF excludes
  <2> QED
    BY <2>1, <2>2, <2>3, <2>4 DEF ExcludedBy
<1> HIDE DEF excludes
<1>4. \A r : out(r) <=> \A k \in DOMAIN d.joins : d.joins[k].type = "anti" => ExcludedBy(d, d.joins[k], r, w)
  <2>1. \A s \in order : s.join \in DOMAIN d.joins
    BY StepsOfJoins
  <2>2. \A k \in DOMAIN d.joins : \E s \in order : s.join = k
    BY StepsOfJoins
  <2> HIDE DEF order
  <2> QED
    BY <1>3, <2>1, <2>2
<1>5. \A r \in L : \A s \in Sources(d) : s \notin DirectedRights(d) => r[s] # Null
  <2>1. Hidden(d) \subseteq DirectedRights(d)
    BY DEF Hidden, DirectedRights, Directed
  <2>2. \A r \in L : \A s \in Sources(d) \ Hidden(d) : LooseFits(d, s, r[s], w)
    BY DEF Loose
  <2> QED
    BY <2>1, <2>2 DEF LooseFits
<1> HIDE DEF out, L
<1>6. \A r \in L : Holds(WhereTests(d), r, w) /\ out(r) <=> Late(d, r, w)
  <2> SUFFICES ASSUME NEW r \in L PROVE Holds(WhereTests(d), r, w) /\ out(r) <=> Late(d, r, w)
    OBVIOUS
  <2>1. Holds(WhereTests(d), r, w) <=>
           /\ \A i \in ToSet(d.filters) : OfTheRow(d, i) => Truth(ItemTest(d, i), r, w) = "T"
           /\ \A s \in Sources(d) : s \notin DirectedRights(d) /\ s \notin d.families => r[s] # Null /\ w[r[s]] # "out"
    BY WhereHolds
  <2> QED
    BY <1>4, <1>5, <2>1 DEF Late
<1>7. {x \in L : Holds(WhereTests(d), x, w) /\ out(x)} = {x \in L : Late(d, x, w)}
  BY <1>6
<1> QED
  BY <1>1, <1>2, <1>7 DEF L

(* A row that passes is what is asked for, without the sources that are only looked for. *)
LEMMA LooseMeans ==
  ASSUME NEW d, Usable(d), DirectCompiles(d), NEW w,
         NEW r \in Loose(d, Sources(d), DOMAIN d.joins, w), Late(d, r, w)
  PROVE  OnlyFor(r, Sources(d) \ AntiRights(d)) \in Meaning(d, w)
<1> DEFINE A == AntiRights(d)
           D == DirectedRights(d)
           kept == Sources(d) \ A
           T == Selected(d) \cup {Null}
           q == OnlyFor(r, kept)
<1>1. D \subseteq Sources(d) /\ A \subseteq D
  BY DirectedAreSources
<1>2. Hidden(d) \subseteq A
  BY DEF Hidden, AntiRights, Directed
<1>3. /\ r \in [Sources(d) \ Hidden(d) -> T]
      /\ \A s \in Sources(d) \ Hidden(d) : LooseFits(d, s, r[s], w)
      /\ \A k \in DOMAIN d.joins : Shown(d, k) => LooselyMet(d, d.joins[k], r, w)
  BY DEF Loose
<1>4. q = [s \in kept |-> r[s]]
  <2>1. DOMAIN r \cap kept = kept
    BY <1>2, <1>3
  <2> QED
    BY <2>1 DEF OnlyFor
<1>5. q \in [kept -> T] /\ \A s \in kept : q[s] = r[s] /\ LooseFits(d, s, r[s], w)
  BY <1>2, <1>3, <1>4
<1> HIDE DEF q
<1>6. Null \notin Selected(d)
  BY KeysOfTables, AnswerAssumption
<1>7. \A j : Found(d, j, r, w) \subseteq There(d, Right(d, j), w) /\ Null \notin Found(d, j, r, w)
  BY <1>6 DEF Found, Matching, There
<1>8. ASSUME NEW s \in kept PROVE q[s] \in There(d, s, w) \cup {Null}
  <2>1. CASE s \notin D
    <3>1. q[s] \in Raw(d, s, w)
      BY <1>5, <2>1 DEF LooseFits
    <3>2. s \in d.families \/ w[q[s]] # "out"
      BY <1>5, <2>1 DEF Late
    <3> QED
      BY <3>1, <3>2 DEF Raw, There
  <2>2. CASE s \in D
    <3>1. PICK k \in Directed(d) : s = Right(d, d.joins[k])
      BY <2>2 DEF DirectedRights
    <3>2. \E j : j = d.joins[k]
      OBVIOUS
    <3> PICK j : j = d.joins[k]
      BY <3>2
    <3>3. k \in DOMAIN d.joins /\ j.type # "inner"
      BY DEF Directed
    <3>4. LooselyMet(d, j, r, w)
      BY <1>2, <1>3, <3>1, <3>3 DEF Shown
    <3>5. r[s] = Null \/ r[s] \in Found(d, j, r, w)
      BY <3>1, <3>3, <3>4 DEF LooselyMet
    <3> QED
      BY <1>5, <1>7, <3>1, <3>5
  <2> QED
    BY <2>1, <2>2
<1>9. ASSUME NEW s \in kept, s \notin D PROVE q[s] # Null
  BY <1>5, <1>9 DEF LooseFits
<1>10. ASSUME NEW x \in ToSet(d.joins) PROVE JoinMet(d, x, q, w)
  <2>1. PICK k \in DOMAIN d.joins : x = d.joins[k]
    BY DEF ToSet
  <2>2. \E j : j = d.joins[k]
    OBVIOUS
  <2> PICK j : j = d.joins[k]
    BY <2>2
  <2>3. /\ j.type \in {"inner", "left", "anti"} /\ Left(d, j) \in kept /\ Right(d, j) \in Sources(d)
        /\ j.type = "anti" <=> Right(d, j) \in A
    BY EndsOfJoins
  <2>4. q[Left(d, j)] = r[Left(d, j)] /\ Found(d, j, q, w) = Found(d, j, r, w)
    BY <1>5, <2>3 DEF Found
  <2>5. Shown(d, k) => LooselyMet(d, j, r, w)
    BY <1>3
  <2>6. CASE j.type # "anti"
    <3>1. Right(d, j) \in kept /\ q[Right(d, j)] = r[Right(d, j)]
      BY <1>5, <2>3, <2>6
    <3>2. LooselyMet(d, j, r, w)
      BY <1>2, <2>5, <3>1 DEF Shown
    <3> QED
      BY <2>1, <2>3, <2>4, <2>6, <3>1, <3>2 DEF LooselyMet, JoinMet
  <2>7. CASE j.type = "anti"
    <3>1. ExcludedBy(d, j, r, w)
      BY <2>7 DEF Late
    <3>2. Found(d, j, r, w) = {}
      BY <1>7, <2>5, <2>7, <3>1 DEF ExcludedBy, Shown, LooselyMet
    <3> QED
      BY <2>1, <2>4, <2>7, <3>2 DEF JoinMet
  <2> QED
    BY <2>6, <2>7
<1>11. ASSUME NEW i \in ToSet(d.filters), OfTheRow(d, i) PROVE Truth(ItemTest(d, i), q, w) = "T"
  <2>1. PICK t \in Sources(d) : FilterSources(d, i) = {t} /\ t \notin A
    BY <1>11, FilterOfOne
  <2>2. \A s \in FilterSources(d, i) : q[s] = r[s]
    BY <1>5, <2>1
  <2>3. Truth(ItemTest(d, i), q, w) = Truth(ItemTest(d, i), r, w)
    BY <2>2, ItemSame
  <2> QED
    BY <1>11, <2>3 DEF Late
<1>12. q \in Meaning(d, w)
  BY <1>5, <1>8, <1>9, <1>10, <1>11, MeaningIs DEF OfTheRow
<1> QED
  BY <1>12 DEF q

(* And every row that is asked for is the row of one that passes. *)
LEMMA MeantIsLoose ==
  ASSUME NEW d, Usable(d), DirectCompiles(d), NEW w, NEW q \in Meaning(d, w)
  PROVE  \E r \in Loose(d, Sources(d), DOMAIN d.joins, w) :
           Late(d, r, w) /\ OnlyFor(r, Sources(d) \ AntiRights(d)) = q
<1> DEFINE A == AntiRights(d)
           D == DirectedRights(d)
           kept == Sources(d) \ A
           T == Selected(d) \cup {Null}
           r == [s \in Sources(d) \ Hidden(d) |-> IF s \in kept THEN q[s] ELSE Null]
<1>1. D \subseteq Sources(d) /\ A \subseteq D
  BY DirectedAreSources
<1>2. Hidden(d) \subseteq A
  BY DEF Hidden, AntiRights, Directed
<1>3. /\ q \in [kept -> T]
      /\ \A s \in kept : q[s] \in There(d, s, w) \cup {Null}
      /\ \A s \in kept : s \notin D => q[s] # Null
      /\ \A j \in ToSet(d.joins) : JoinMet(d, j, q, w)
      /\ \A i \in ToSet(d.filters) : OfTheRow(d, i) => Truth(ItemTest(d, i), q, w) = "T"
  BY MeaningIs DEF OfTheRow
<1>4. /\ r \in [Sources(d) \ Hidden(d) -> T] /\ DOMAIN r = Sources(d) \ Hidden(d)
      /\ \A s \in kept : r[s] = q[s] /\ s \notin Hidden(d)
      /\ \A s \in Sources(d) \ Hidden(d) : s \in A => r[s] = Null
  BY <1>2, <1>3
<1>5. OnlyFor(r, kept) = q
  <2>1. DOMAIN r \cap kept = kept
    BY <1>4
  <2>2. OnlyFor(r, kept) = [s \in kept |-> r[s]]
    BY <2>1 DEF OnlyFor
  <2>3. q = [s \in kept |-> q[s]]
    BY <1>3
  <2> QED
    BY <1>4, <2>2, <2>3
<1> HIDE DEF r
<1>6. Null \notin Selected(d)
  BY KeysOfTables, AnswerAssumption
<1>7. ASSUME NEW s \in Sources(d) \ Hidden(d) PROVE LooseFits(d, s, r[s], w)
  <2>1. CASE s \in A
    BY <1>1, <1>4, <2>1 DEF LooseFits
  <2>2. CASE s \notin A
    <3>1. r[s] \in There(d, s, w) \cup {Null} /\ (s \notin D => r[s] # Null)
      BY <1>3, <1>4, <2>2
    <3>2. There(d, s, w) \subseteq Raw(d, s, w)
      BY DEF There, Raw
    <3> QED
      BY <3>1, <3>2 DEF LooseFits
  <2> QED
    BY <2>1, <2>2
<1>8. ASSUME NEW k \in DOMAIN d.joins, NEW j, j = d.joins[k]
      PROVE  /\ Shown(d, k) => LooselyMet(d, j, r, w)
             /\ j.type = "anti" => ExcludedBy(d, j, r, w)
  <2>1. /\ j.type \in {"inner", "left", "anti"} /\ Left(d, j) \in kept /\ Right(d, j) \in Sources(d)
        /\ j.type = "anti" <=> Right(d, j) \in A
    BY <1>8, EndsOfJoins
  <2>2. JoinMet(d, j, q, w)
    BY <1>3, <1>8 DEF ToSet
  <2>3. r[Left(d, j)] = q[Left(d, j)] /\ Found(d, j, r, w) = Found(d, j, q, w)
    BY <1>4, <2>1 DEF Found
  <2>4. CASE j.type # "anti"
    <3>1. r[Right(d, j)] = q[Right(d, j)]
      BY <1>4, <2>1, <2>4
    <3> QED
      BY <2>1, <2>2, <2>3, <2>4, <3>1 DEF LooselyMet, JoinMet
  <2>5. CASE j.type = "anti"
    <3>1. Found(d, j, r, w) = {}
      BY <2>2, <2>3, <2>5 DEF JoinMet
    <3>2. Right(d, j) \notin Hidden(d) => r[Right(d, j)] = Null
      BY <1>4, <2>1, <2>5
    <3> QED
      BY <1>8, <2>5, <3>1, <3>2 DEF LooselyMet, ExcludedBy, Shown
  <2> QED
    BY <2>4, <2>5
<1>9. r \in Loose(d, Sources(d), DOMAIN d.joins, w)
  BY <1>4, <1>7, <1>8 DEF Loose
<1>10. Late(d, r, w)
  <2>1. ASSUME NEW i \in ToSet(d.filters), OfTheRow(d, i) PROVE Truth(ItemTest(d, i), r, w) = "T"
    <3>1. PICK t \in Sources(d) : FilterSources(d, i) = {t} /\ t \notin A
      BY <2>1, FilterOfOne
    <3>2. \A s \in FilterSources(d, i) : r[s] = q[s]
      BY <1>4, <3>1
    <3>3. Truth(ItemTest(d, i), r, w) = Truth(ItemTest(d, i), q, w)
      BY <3>2, ItemSame
    <3> QED
      BY <1>3, <2>1, <3>3
  <2>2. ASSUME NEW s \in Sources(d), s \notin D, s \notin d.families PROVE w[r[s]] # "out"
    <3>1. s \in kept /\ r[s] = q[s] /\ q[s] # Null /\ q[s] \in There(d, s, w)
      BY <1>1, <1>3, <1>4, <2>2
    <3> QED
      BY <3>1 DEF There
  <2> QED
    BY <1>8, <2>1, <2>2 DEF Late
<1> QED
  BY <1>5, <1>9, <1>10

(* So the older compiler's statement answers what the draft means. *)
LEMMA DirectMeans ==
  ASSUME NEW d, Usable(d), DirectCompiles(d), NEW w
  PROVE  DirectRows(d, w) = Meaning(d, w)
<1>1. DirectRows(d, w) = {OnlyFor(r, Sources(d) \ AntiRights(d)) :
                            r \in {x \in Loose(d, Sources(d), DOMAIN d.joins, w) : Late(d, x, w)}}
  BY DirectRowsAre
<1>2. \A r \in Loose(d, Sources(d), DOMAIN d.joins, w) :
        Late(d, r, w) => OnlyFor(r, Sources(d) \ AntiRights(d)) \in Meaning(d, w)
  BY LooseMeans
<1>3. \A q \in Meaning(d, w) : \E r \in Loose(d, Sources(d), DOMAIN d.joins, w) :
        Late(d, r, w) /\ OnlyFor(r, Sources(d) \ AntiRights(d)) = q
  BY MeantIsLoose
<1> QED
  BY <1>1, <1>2, <1>3

(* The older compiler computes the same for the plans that are compiled. *)
LEMMA OlderAgrees ==
  ASSUME PlanInv
  PROVE  OlderCompilerAgrees
<1> SUFFICES ASSUME plan.phase = "done", plan.code = "ok", DirectCompiles(plan.draft), NEW w
             PROVE  DirectRows(plan.draft, w) = Meaning(plan.draft, w)
  BY DEF OlderCompilerAgrees
<1>1. Usable(plan.draft)
  BY DEF PlanInv, PlanHolds, PlanCompiled, PlanMeans
<1> QED
  BY <1>1, DirectMeans

-------------------------------------------------------------------------------
(* Every plan *)

(* Initially nothing is planned or compiled. *)
LEMMA PlanStartsInv ==
  ASSUME PlanInit
  PROVE  PlanInv
<1>1. PICK d \in Drafts : plan = Waiting(d)
  BY DEF PlanInit
<1>2. plan.phase = "draft" /\ plan.draft = d /\ plan.statements = <<>> /\ DOMAIN plan = DOMAIN Waiting(<<>>)
  BY <1>1 DEF Waiting
<1> QED
  BY <1>2 DEF PlanInv, PlanHolds

(* Whatever the model answers: when the plan made of it passes the validator, the adapter
   and the contract, and all its statements are made, the last table has the rows the
   answer asks for and no others: the trees of joins the adapter grows, the tests it puts
   at the scans, the matches or after the joins, the unions of families and the CTEs of
   the compiler all keep its meaning, in every world
   (InferenceRelationalAdapter.build, HiveRelationalCompiler.compile). *)
THEOREM PlansAreMeant == InferenceSpec => []CompiledMeansPlan
<1>1. PlanInit => PlanInv
  BY PlanStartsInv
<1>2. PlanInv /\ [InferenceNext]_plan => PlanInv'
  BY PlanKeepsInv
<1>3. PlanInv => CompiledMeansPlan
  BY CompiledIsMeant
<1> QED
  BY <1>1, <1>2, <1>3, PTL DEF InferenceSpec

(* And the one query of the older compiler, where it compiles the answer at all, has the
   same rows: it takes the joins in another order, tests in WHERE what the adapter tests
   at the scans, and turns anti joins into NOT EXISTS or a test for NULL
   (HiveInferenceCompiler._compile_result). *)
THEOREM CompilersAgree == InferenceSpec => []OlderCompilerAgrees
<1>1. PlanInit => PlanInv
  BY PlanStartsInv
<1>2. PlanInv /\ [InferenceNext]_plan => PlanInv'
  BY PlanKeepsInv
<1>3. PlanInv => OlderCompilerAgrees
  BY OlderAgrees
<1> QED
  BY <1>1, <1>2, <1>3, PTL DEF InferenceSpec
===============================================================================
