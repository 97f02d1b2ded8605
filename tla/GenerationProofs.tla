----------------------------- MODULE GenerationProofs -----------------------------
(***************************************************************************)
(* A compiled program gives what was asked for, for every ontology the     *)
(* parser lets in and every draft the models accept.  The argument: the    *)
(* binder's order holds every step once and each after what it reads       *)
(* (OrderedAreSteps); a step that is planned has, among its conditions,    *)
(* the period, the dates, the constraints and the rules that its intent    *)
(* asks for and no other (StepMeansItsIntent); its statement selects by    *)
(* them, and of an earlier step takes what is left there (StatementIsGood);*)
(* so the last table of the script has the row exactly if all the steps    *)
(* the result is made of agree (ScriptIsGood).  Where the code counts up,  *)
(* a set of numbers that is closed under successor holds all of them.      *)
(*                                                                         *)
(* The period of a query is the one that was asked for, on every day of    *)
(* the year, for every request and every calendar that has the two days    *)
(* before: the arithmetic of months and days in temporal.py agrees with    *)
(* counting them.                                                          *)
(*                                                                         *)
(* And what the pipelines keep when they stand side by side: every         *)
(* behaviour of the whole is one of each pipeline, so that what is proved  *)
(* of them holds of it.                                                    *)
(***************************************************************************)
EXTENDS Generation, CatalogProofs, InferenceProofs
LOCAL INSTANCE SequencesExt

-------------------------------------------------------------------------------
(* Lists *)

(* Different things stand at different places. *)
Distinctly(s) == \A i, j \in DOMAIN s : s[i] = s[j] => i = j

(* Those keeps the elements that are in the set, each once if they were. *)
LEMMA ThoseAreThey ==
  ASSUME NEW s, s \in Seq(ToSet(s)), NEW S
  PROVE  /\ Those(s, S) \in Seq(ToSet(s))
         /\ ToSet(Those(s, S)) = ToSet(s) \cap S
         /\ Distinctly(s) => Distinctly(Those(s, S))
<1> DEFINE N == Len(s)
           T == ToSet(s)
<1>1. /\ N \in Nat /\ DOMAIN s = 1 .. N
      /\ \A i \in 1 .. N : s[i] \in T
  OBVIOUS
<1>2. PICK upto : /\ Those(s, S) = upto[N] /\ upto[0] = <<>>
                  /\ \A k \in 1 .. N : upto[k] = ThoseNext(s, S, k, upto[k - 1])
  BY <1>1, ThoseSteps
<1> DEFINE Claim(n) == /\ upto[n] \in Seq(T)
                       /\ \A x : (\E j \in 1 .. Len(upto[n]) : upto[n][j] = x)
                                   <=> x \in S /\ \E i \in 1 .. n : s[i] = x
                       /\ Distinctly(s) => Distinctly(upto[n])
           P == {n \in Nat : n <= N => Claim(n)}
<1>3. Those(s, S) = upto[N]
  BY <1>2
<1> HIDE DEF T, N
<1>4. /\ upto[0] = <<>>
      /\ \A k \in 1 .. N : upto[k] = IF s[k] \in S THEN Append(upto[k - 1], s[k]) ELSE upto[k - 1]
  BY <1>2 DEF ThoseNext
<1>5. 0 \in P
  <2>1. <<>> \in Seq(T) /\ Len(<<>>) = 0 /\ DOMAIN <<>> = {} /\ 1 .. 0 = {}
    OBVIOUS
  <2>2. Distinctly(<<>>)
    BY <2>1 DEF Distinctly
  <2>3. Claim(0)
    BY <1>4, <2>1, <2>2
  <2> QED
    BY <2>3
<1>6. ASSUME NEW n \in Nat, n \in P
      PROVE  n + 1 \in P
  <2> SUFFICES ASSUME n + 1 <= N
               PROVE  Claim(n + 1)
    OBVIOUS
  <2>1. Claim(n)
    BY <1>1, <1>6
  <2>2. n + 1 \in 1 .. N /\ s[n + 1] \in T
    BY <1>1
  <2>3. upto[n + 1] = IF s[n + 1] \in S THEN Append(upto[n], s[n + 1]) ELSE upto[n]
    BY <1>4, <2>2
  <2>4. CASE s[n + 1] \notin S
    <3>1. \A i \in 1 .. n + 1 : i \in 1 .. n \/ i = n + 1
      OBVIOUS
    <3>2. \A i \in 1 .. n : i \in 1 .. n + 1
      OBVIOUS
    <3> QED
      BY <2>1, <2>3, <2>4, <3>1, <3>2
  <2>5. CASE s[n + 1] \in S
    <3> DEFINE u == upto[n]
               v == Append(u, s[n + 1])
    <3>1. /\ v \in Seq(T) /\ Len(v) = Len(u) + 1 /\ Len(u) \in Nat
          /\ \A j \in 1 .. Len(u) : v[j] = u[j]
          /\ v[Len(u) + 1] = s[n + 1]
          /\ DOMAIN v = 1 .. Len(u) + 1 /\ DOMAIN u = 1 .. Len(u)
      BY <2>1, <2>2
    <3>2. upto[n + 1] = v
      BY <2>3, <2>5
    <3>3. \A x : (\E j \in 1 .. Len(u) : u[j] = x) <=> x \in S /\ \E i \in 1 .. n : s[i] = x
      BY <2>1
    <3>4. Distinctly(s) => Distinctly(u)
      BY <2>1
    <3> HIDE DEF v, u
    <3>5. \A x : (\E j \in 1 .. Len(v) : v[j] = x) <=> x \in S /\ \E i \in 1 .. n + 1 : s[i] = x
      <4>1. \A j : j \in 1 .. Len(v) <=> j \in 1 .. Len(u) \/ j = Len(u) + 1
        BY <3>1
      <4>2. \A i : i \in 1 .. n + 1 <=> i \in 1 .. n \/ i = n + 1
        OBVIOUS
      <4>3. \A x : (\E j \in 1 .. Len(v) : v[j] = x) <=> (\E j \in 1 .. Len(u) : u[j] = x) \/ x = s[n + 1]
        BY <3>1, <4>1
      <4>4. \A x : (\E i \in 1 .. n + 1 : s[i] = x) <=> (\E i \in 1 .. n : s[i] = x) \/ x = s[n + 1]
        BY <4>2
      <4> QED
        BY <2>5, <3>3, <4>3, <4>4
    <3>6. ASSUME Distinctly(s)
          PROVE  Distinctly(v)
      <4>1. \A j \in 1 .. Len(u) : u[j] # s[n + 1]
        <5>1. \A j \in 1 .. Len(u) : \E i \in 1 .. n : s[i] = u[j]
          BY <3>3
        <5>2. \A i \in 1 .. n : i \in 1 .. N /\ i # n + 1
          BY <1>1
        <5> QED
          BY <1>1, <2>2, <3>6, <5>1, <5>2 DEF Distinctly
      <4> SUFFICES ASSUME NEW i \in DOMAIN v, NEW j \in DOMAIN v, v[i] = v[j]
                   PROVE  i = j
        BY DEF Distinctly
      <4>2. (i \in 1 .. Len(u) \/ i = Len(u) + 1) /\ (j \in 1 .. Len(u) \/ j = Len(u) + 1)
        BY <3>1
      <4> QED
        BY <3>1, <3>4, <3>6, <4>1, <4>2 DEF Distinctly
    <3> QED
      BY <3>1, <3>2, <3>5, <3>6
  <2> QED
    BY <2>4, <2>5
<1> HIDE DEF P
<1>7. N \in P
  BY <1>1, <1>5, <1>6, CountingUp
<1>8. Claim(N)
  <2> HIDE DEF Claim
  <2> QED
    BY <1>1, <1>7 DEF P
<1>9. ToSet(upto[N]) = {upto[N][j] : j \in 1 .. Len(upto[N])} /\ T = {s[i] : i \in 1 .. N}
  <2>1. DOMAIN upto[N] = 1 .. Len(upto[N])
    BY <1>8
  <2>2. ToSet(upto[N]) = {upto[N][j] : j \in DOMAIN upto[N]}
    BY DEF ToSet
  <2>3. T = {s[i] : i \in DOMAIN s}
    BY DEF ToSet, T
  <2> QED
    BY <1>1, <2>1, <2>2, <2>3
<1>10. \A x : x \in ToSet(upto[N]) <=> x \in S /\ x \in T
  <2>1. \A x : x \in ToSet(upto[N]) <=> \E j \in 1 .. Len(upto[N]) : upto[N][j] = x
    BY <1>9
  <2>2. \A x : x \in T <=> \E i \in 1 .. N : s[i] = x
    BY <1>9
  <2> QED
    BY <1>8, <2>1, <2>2
<1>11. ToSet(upto[N]) = T \cap S
  BY <1>10
<1> QED
  BY <1>3, <1>8, <1>11 DEF T

-------------------------------------------------------------------------------
(* The order of the steps *)

(* One more layer, and what is there after n of them. *)
NextLayer(steps, r) ==
  LET done == {x.id : x \in ToSet(r)}
  IN r \o Those(steps, {x \in ToSet(steps) : x.id \notin done /\ Upstream(x) \subseteq done})
IsLayers(steps, n, f) == f = [k \in 0 .. n |-> IF k = 0 THEN <<>> ELSE NextLayer(steps, f[k - 1])]

(* There is such a function: Ordered picks it. *)
LEMMA LayersExist ==
  ASSUME NEW steps
  PROVE  \A n \in Nat : \E f : IsLayers(steps, n, f)
<1> DEFINE P == {n \in Nat : \E f : IsLayers(steps, n, f)}
<1>1. 0 \in P
  <2> DEFINE f == [k \in 0 .. 0 |-> <<>>]
  <2>1. \A k \in 0 .. 0 : k = 0
    OBVIOUS
  <2>2. IsLayers(steps, 0, f)
    BY <2>1 DEF IsLayers
  <2> QED
    BY <2>2
<1>2. ASSUME NEW n \in Nat, n \in P
      PROVE  n + 1 \in P
  <2>1. PICK f : IsLayers(steps, n, f)
    BY <1>2
  <2> DEFINE h == [k \in 0 .. n + 1 |-> IF k = 0 THEN <<>> ELSE NextLayer(steps, f[k - 1])]
  <2>2. \A k \in 0 .. n : h[k] = f[k]
    BY <2>1 DEF IsLayers
  <2>3. \A k \in 0 .. n + 1 : k # 0 => k - 1 \in 0 .. n
    OBVIOUS
  <2>4. IsLayers(steps, n + 1, h)
    BY <2>2, <2>3 DEF IsLayers
  <2> HIDE DEF h
  <2>5. \E g : IsLayers(steps, n + 1, g)
    BY <2>4
  <2> QED
    BY <2>5
<1> HIDE DEF P
<1>3. Nat \subseteq P
  BY <1>1, <1>2, CountingUp
<1> QED
  BY <1>3 DEF P

(* No two steps of a list have the same identifier. *)
OwnIds(steps) == \A i, j \in DOMAIN steps : steps[i].id = steps[j].id => i = j

(* The order holds steps of the draft, none of them twice. *)
LEMMA OrderedAreSteps ==
  ASSUME NEW steps, steps \in Seq(ToSet(steps)), OwnIds(steps)
  PROVE  /\ Ordered(steps) \in Seq(ToSet(steps))
         /\ OwnIds(Ordered(steps))
<1> DEFINE T == ToSet(steps)
           N == Len(steps)
           layers == CHOOSE f : IsLayers(steps, N, f)
           Claim(n) == layers[n] \in Seq(T) /\ OwnIds(layers[n])
           P == {n \in Nat : n <= N => Claim(n)}
<1>1. N \in Nat
  OBVIOUS
<1>2. IsLayers(steps, N, layers)
  BY <1>1, LayersExist
<1>3. Ordered(steps) = layers[N]
  BY Zenon DEF Ordered, IsLayers, NextLayer
<1>4. /\ Distinctly(steps)
      /\ \A x, y \in T : x.id = y.id => x = y
  BY DEF Distinctly, OwnIds, ToSet
<1> HIDE DEF layers, N
<1>5. /\ layers[0] = <<>>
      /\ \A k \in 1 .. N : layers[k] = NextLayer(steps, layers[k - 1])
  <2>1. \A k \in 0 .. N : layers[k] = IF k = 0 THEN <<>> ELSE NextLayer(steps, layers[k - 1])
    BY <1>2, Zenon DEF IsLayers
  <2>2. 0 \in 0 .. N /\ \A k \in 1 .. N : k \in 0 .. N /\ k # 0
    BY <1>1
  <2> QED
    BY <2>1, <2>2
<1>6. 0 \in P
  <2>1. <<>> \in Seq(T) /\ DOMAIN <<>> = {}
    OBVIOUS
  <2>2. OwnIds(<<>>)
    BY <2>1 DEF OwnIds
  <2>3. Claim(0)
    BY <1>5, <2>1, <2>2
  <2> QED
    BY <2>3
<1>7. ASSUME NEW n \in Nat, n \in P
      PROVE  n + 1 \in P
  <2> SUFFICES ASSUME n + 1 <= N
               PROVE  Claim(n + 1)
    OBVIOUS
  <2>1. Claim(n)
    BY <1>1, <1>7
  <2> DEFINE r == layers[n]
             done == {x.id : x \in ToSet(r)}
             S == {x \in T : x.id \notin done /\ Upstream(x) \subseteq done}
             more == Those(steps, S)
  <2>2. layers[n + 1] = r \o more
    <3>1. n + 1 \in 1 .. N /\ (n + 1) - 1 = n
      BY <1>1
    <3>2. layers[n + 1] = NextLayer(steps, r)
      BY <1>5, <3>1
    <3> QED
      BY <3>2 DEF NextLayer
  <2>3. /\ more \in Seq(T)
        /\ ToSet(more) = T \cap S
        /\ Distinctly(more)
    <3> HIDE DEF S
    <3> QED
      BY <1>4, ThoseAreThey
  <2>4. \A i \in DOMAIN r : r[i] \in T /\ r[i].id \in done
    BY <2>1 DEF ToSet
  <2>5. \A i \in DOMAIN more : more[i] \in T /\ more[i].id \notin done
    BY <2>3 DEF ToSet
  <2>6. r \in Seq(T) /\ OwnIds(r)
    BY <2>1
  <2> HIDE DEF r, more, done, S, T
  <2> DEFINE both == r \o more
  <2>7. /\ both \in Seq(T) /\ Len(both) = Len(r) + Len(more) /\ Len(r) \in Nat /\ Len(more) \in Nat
        /\ DOMAIN both = 1 .. Len(both) /\ DOMAIN r = 1 .. Len(r) /\ DOMAIN more = 1 .. Len(more)
        /\ \A i \in 1 .. Len(r) : both[i] = r[i]
        /\ \A i \in 1 .. Len(more) : both[Len(r) + i] = more[i]
    BY <2>3, <2>6
  <2> HIDE DEF both
  <2>8. \A i \in DOMAIN both : \/ i \in DOMAIN r /\ both[i] = r[i]
                               \/ i - Len(r) \in DOMAIN more /\ both[i] = more[i - Len(r)]
    <3> TAKE i \in DOMAIN both
    <3>1. CASE i <= Len(r)
      <4>1. i \in 1 .. Len(r)
        BY <2>7, <3>1
      <4>2. i \in DOMAIN r
        BY <2>7, <4>1
      <4>3. both[i] = r[i]
        BY <2>7, <4>1
      <4> QED
        BY <4>2, <4>3
    <3>2. CASE i > Len(r)
      <4>1. i - Len(r) \in 1 .. Len(more) /\ i = Len(r) + (i - Len(r))
        BY <2>7, <3>2
      <4> QED
        BY <2>7, <4>1
    <3>3. i <= Len(r) \/ i > Len(r)
      BY <2>7
    <3> QED
      BY <3>1, <3>2, <3>3
  <2>9. ASSUME NEW i \in DOMAIN both, NEW j \in DOMAIN both, both[i].id = both[j].id
        PROVE  i = j
    <3>0. i \in Int /\ j \in Int /\ Len(r) \in Int
      BY <2>7
    <3>1. CASE i \in DOMAIN r /\ both[i] = r[i] /\ j \in DOMAIN r /\ both[j] = r[j]
      BY <2>6, <2>9, <3>1 DEF OwnIds
    <3>2. CASE /\ i - Len(r) \in DOMAIN more /\ both[i] = more[i - Len(r)]
               /\ j - Len(r) \in DOMAIN more /\ both[j] = more[j - Len(r)]
      <4>1. more[i - Len(r)] = more[j - Len(r)]
        BY <1>4, <2>5, <2>9, <3>2
      <4>2. i - Len(r) = j - Len(r)
        BY <2>3, <3>2, <4>1 DEF Distinctly
      <4> QED
        BY <3>0, <4>2
    <3>3. CASE i \in DOMAIN r /\ both[i] = r[i] /\ j - Len(r) \in DOMAIN more /\ both[j] = more[j - Len(r)]
      BY <2>4, <2>5, <2>9, <3>3
    <3>4. CASE i - Len(r) \in DOMAIN more /\ both[i] = more[i - Len(r)] /\ j \in DOMAIN r /\ both[j] = r[j]
      BY <2>4, <2>5, <2>9, <3>4
    <3> QED
      BY <2>8, <3>1, <3>2, <3>3, <3>4
  <2>10. OwnIds(both)
    BY <2>9 DEF OwnIds
  <2> QED
    BY <2>2, <2>7, <2>10 DEF both
<1> HIDE DEF P
<1>8. N \in P
  BY <1>1, <1>6, <1>7, CountingUp
<1>9. Claim(N)
  <2> HIDE DEF Claim
  <2> QED
    BY <1>1, <1>8 DEF P
<1> QED
  BY <1>3, <1>9

-------------------------------------------------------------------------------
(* What a step is made of *)

(* A step is made of itself and of what the steps it reads are made of. *)
LEMMA MadeOfSteps ==
  ASSUME NEW d, NEW s \in ToSet(d.steps),
         \A x \in ToSet(d.steps) : \A id \in Upstream(x) : StepOf(d.steps, id) \in ToSet(d.steps)
  PROVE  MadeOf(d, s) = {s} \cup UNION {MadeOf(d, StepOf(d.steps, id)) : id \in Upstream(s)}
<1> DEFINE All == ToSet(d.steps)
           up(x) == {StepOf(d.steps, id) : id \in Upstream(x)}
           whole(S, t) == t \in S /\ \A x \in S : up(x) \subseteq S
           made(t) == {x \in All : \A S \in SUBSET All : whole(S, t) => x \in S}
           both == {s} \cup UNION {made(t) : t \in up(s)}
<1>1. \A t : MadeOf(d, t) = made(t)
  BY DEF MadeOf
<1>2. \A x \in All : up(x) \subseteq All
  OBVIOUS
<1>3. UNION {MadeOf(d, StepOf(d.steps, id)) : id \in Upstream(s)} = UNION {made(t) : t \in up(s)}
  <2> HIDE DEF made
  <2> QED
    BY <1>1
<1> HIDE DEF up, All
<1>4. \A t \in All : t \in made(t) /\ made(t) \subseteq All /\ \A x \in made(t) : up(x) \subseteq made(t)
  <2> TAKE t \in All
  <2>1. \A x \in made(t) : \A y : y \in up(x) => y \in All /\ \A S \in SUBSET All : whole(S, t) => y \in S
    BY <1>2
  <2> QED
    BY <2>1
<1>5. both \subseteq made(s)
  <2>1. s \in made(s)
    BY <1>4 DEF All
  <2>2. ASSUME NEW t \in up(s)
        PROVE  made(t) \subseteq made(s)
    <3>1. \A S \in SUBSET All : whole(S, s) => whole(S, t)
      BY <2>2
    <3> HIDE DEF whole
    <3> QED
      BY <3>1
  <2> HIDE DEF made
  <2> QED
    BY <2>1, <2>2
<1>6. made(s) \subseteq both
  <2>1. both \in SUBSET All
    BY <1>2, <1>4 DEF All
  <2>2. whole(both, s)
    <3> HIDE DEF made
    <3>1. \A t \in up(s) : t \in made(t) /\ \A x \in made(t) : up(x) \subseteq made(t)
      BY <1>2, <1>4 DEF All
    <3> QED
      BY <3>1
  <2> HIDE DEF both, whole
  <2> QED
    BY <2>1, <2>2
<1> QED
  BY <1>1, <1>3, <1>5, <1>6

-------------------------------------------------------------------------------
(* Lookups *)

(* A lookup with one match gives that match. *)
LEMMA OnlyOneIsThere ==
  ASSUME NEW S, IsFiniteSet(S), TheOnly(S) # "ambiguous"
  PROVE  TheOnly(S) \in S
<1>1. Cardinality(S) = 1 /\ TheOnly(S) = CHOOSE x \in S : TRUE
  BY DEF TheOnly
<1>2. PICK x : S = {x}
  BY <1>1, FS_Singleton
<1> QED
  BY <1>1, <1>2

(* What a lookup finds is there: a concept of the ontology, a property of the concept. *)
LEMMA ConceptFound ==
  ASSUME NEW o, Ontology(o), NEW id, GetConcept(o, id) \notin {"ambiguous", "missing"}
  PROVE  GetConcept(o, id) \in ToSet(o.concepts)
<1> DEFINE all == ToSet(o.concepts)
           short == {c \in all : o.short[c] = id}
           label == {c \in all : o.label[c] = id}
<1>1. IsFiniteSet(all)
  BY ListsAreFinite DEF Ontology
<1>2. IsFiniteSet(short) /\ IsFiniteSet(label)
  <2> HIDE DEF all
  <2> QED
    BY <1>1, FS_Subset
<1>3. GetConcept(o, id) = IF id \in all THEN id
                          ELSE IF short # {} THEN TheOnly(short)
                          ELSE IF label # {} THEN TheOnly(label) ELSE "missing"
  BY DEF GetConcept
<1>4. short \subseteq all /\ label \subseteq all
  OBVIOUS
<1> HIDE DEF short, label
<1>5. TheOnly(short) # "ambiguous" => TheOnly(short) \in short
  BY <1>2, OnlyOneIsThere
<1>6. TheOnly(label) # "ambiguous" => TheOnly(label) \in label
  BY <1>2, OnlyOneIsThere
<1> QED
  BY <1>3, <1>4, <1>5, <1>6

LEMMA PropertyFound ==
  ASSUME NEW o, Ontology(o), NEW c \in ToSet(o.concepts), NEW id,
         ResolveProperty(o, c, id) \notin {"ambiguous", "missing"}
  PROVE  ResolveProperty(o, c, id) \in ToSet(o.props[c])
<1> DEFINE all == ToSet(o.props[c])
           short == {p \in all : o.propShort[p] = id}
<1>1. IsFiniteSet(all)
  BY ListsAreFinite DEF Ontology
<1>2. IsFiniteSet(short)
  <2> HIDE DEF all
  <2> QED
    BY <1>1, FS_Subset
<1>3. ResolveProperty(o, c, id) = IF id \in all THEN id ELSE IF short # {} THEN TheOnly(short) ELSE "missing"
  BY DEF ResolveProperty
<1>4. short \subseteq all
  OBVIOUS
<1> HIDE DEF short
<1>5. TheOnly(short) # "ambiguous" => TheOnly(short) \in short
  BY <1>2, OnlyOneIsThere
<1> QED
  BY <1>3, <1>4, <1>5

(* A property says whose it is. *)
LEMMA OwnerIs ==
  ASSUME NEW o, Ontology(o), NEW c \in ToSet(o.concepts), NEW p \in ToSet(o.props[c])
  PROVE  Owner(o, p) = c
<1>1. \A e \in ToSet(o.concepts) : p \in ToSet(o.props[e]) => e = c
  BY DEF Ontology
<1> QED
  BY <1>1 DEF Owner

-------------------------------------------------------------------------------
(* Conditions *)

(* A business date of a period is one of the dates of the concept. *)
LEMMA DatesAreOwn ==
  ASSUME NEW o, NEW c, NEW time, PeriodOf(o, c, time).code = "ok"
  PROVE  \A b \in PeriodOf(o, c, time).business : b.on \in DOMAIN o.dates[c]
<1> DEFINE grain == o.policy[c].grain
           dates == o.dates[c]
           tokens == Tokens(time.words, grain)
           business == {e \in tokens : e.near \in DOMAIN dates}
           bound(e, span) == [on |-> e.near, first |-> FirstDay(span[1]), last |-> LastDay(span[2])]
           span(e) == Span(e, grain, o.today)
<1>1. PeriodOf(o, c, time).business = {bound(e, span(e)) : e \in business}
  BY DEF PeriodOf, Resolved
<1> HIDE DEF tokens, span
<1>2. \A e \in business : bound(e, span(e)).on \in DOMAIN dates
  OBVIOUS
<1> HIDE DEF bound, business
<1> QED
  BY <1>1, <1>2

FilterMet(o, f, w) == Meets(o, [on |-> f.on, what |-> f.what], w)

(* The conditions of a plan are those of its rules and those of its filters. *)
LEMMA PlanConditions ==
  ASSUME NEW o, NEW cs, NEW requested, NEW rules, NEW filters, NEW w
  PROVE  (\A cond \in Conditions(Planned(o, cs, requested, rules, filters)) : Meets(o, cond, w))
           <=> /\ \A r \in rules : \A p \in r.reads : w[Owner(o, p)] # "off"
               /\ \A f \in filters : FilterMet(o, f, w)
<1> DEFINE q == Planned(o, cs, requested, rules, filters)
           read == UNION {r.reads : r \in rules}
<1>1. q.rules = rules /\ q.filters = filters
  BY DEF Planned
<1> HIDE DEF q
<1>2. Conditions(q) = {[on |-> p, what |-> "rule"] : p \in read} \cup {[on |-> f.on, what |-> f.what] : f \in filters}
  BY <1>1 DEF Conditions
<1>3. \A p : Meets(o, [on |-> p, what |-> "rule"], w) <=> w[Owner(o, p)] # "off"
  BY DEF Meets
<1>4. (\A cond \in Conditions(q) : Meets(o, cond, w))
        <=> /\ \A p \in read : Meets(o, [on |-> p, what |-> "rule"], w)
            /\ \A f \in filters : FilterMet(o, f, w)
  BY <1>2 DEF FilterMet
<1>5. (\A p \in read : w[Owner(o, p)] # "off") <=> \A r \in rules : \A p \in r.reads : w[Owner(o, p)] # "off"
  OBVIOUS
<1> QED
  BY <1>3, <1>4, <1>5 DEF q

(* The filters of the periods keep a row of every concept with a policy within the
   partition and, where the request bounds one, before the business date. *)
LEMMA PeriodsAreMet ==
  ASSUME NEW o, Ontology(o), NEW cs, ToSet(cs) \subseteq ToSet(o.concepts), NEW time, NEW w,
         \A c \in WithPolicy(o, cs) : PeriodOf(o, c, time).code = "ok"
  PROVE  (\A f \in PeriodFilters(o, PeriodsOf(o, cs, time)) : FilterMet(o, f, w))
           <=> \A c \in WithPolicy(o, cs) :
                 w[c] # "out" /\ (PeriodOf(o, c, time).business # {} => w[c] # "late")
<1> DEFINE periods == PeriodsOf(o, cs, time)
           partition(c) == [on |-> o.policy[c].on, bounded |-> TRUE, what |-> "period", span |-> periods[c].partition]
           date(b) == [on |-> b.on, bounded |-> TRUE, what |-> "date", span |-> <<b.first, b.last>>]
<1>1. DOMAIN periods = WithPolicy(o, cs) /\ \A c \in WithPolicy(o, cs) : periods[c] = PeriodOf(o, c, time)
  BY DEF PeriodsOf
<1> HIDE DEF periods
<1>2. PeriodFilters(o, periods)
        = UNION {{partition(c)} \cup {date(b) : b \in periods[c].business} : c \in DOMAIN periods}
  BY DEF PeriodFilters
<1>3. ASSUME NEW c \in WithPolicy(o, cs)
      PROVE  /\ FilterMet(o, partition(c), w) <=> w[c] # "out"
             /\ \A b \in periods[c].business : FilterMet(o, date(b), w) <=> w[c] # "late"
  <2>1. c \in ToSet(o.concepts) /\ o.policy[c].on \in ToSet(o.props[c])
    BY DEF WithPolicy, Ontology
  <2>2. Owner(o, o.policy[c].on) = c
    BY <2>1, OwnerIs
  <2>3. ASSUME NEW b \in periods[c].business
        PROVE  Owner(o, b.on) = c
    <3>1. b.on \in DOMAIN o.dates[c]
      BY <1>1, DatesAreOwn
    <3>2. b.on \in ToSet(o.props[c])
      BY <2>1, <3>1 DEF Ontology
    <3> QED
      BY <2>1, <3>2, OwnerIs
  <2> QED
    BY <2>2, <2>3 DEF FilterMet, Meets
<1> HIDE DEF partition, date
<1>4. (\A f \in PeriodFilters(o, periods) : FilterMet(o, f, w))
        <=> \A c \in WithPolicy(o, cs) :
              /\ FilterMet(o, partition(c), w)
              /\ \A b \in periods[c].business : FilterMet(o, date(b), w)
  BY <1>1, <1>2
<1> QED
  BY <1>1, <1>3, <1>4 DEF periods

-------------------------------------------------------------------------------
(* Lists of checks *)

IsChecks(s) == s \in Seq(ToSet(s)) /\ \A i \in DOMAIN s : s[i][1] = "ok" => s[i][2]
AllHold(s)  == \A i \in DOMAIN s : s[i][2]

(* No failure among the checks: they all hold. *)
LEMMA PassedMeansAllHold ==
  ASSUME NEW s, IsChecks(s), FirstFailure(s) = "ok"
  PROVE  AllHold(s)
<1>1. DOMAIN s \subseteq Nat
  BY DEF IsChecks
<1> QED
  BY <1>1, ChecksHold DEF IsChecks, AllHold

(* Two lists of checks after each other are a list of checks. *)
LEMMA JoinedChecks ==
  ASSUME NEW s, IsChecks(s), NEW t, IsChecks(t)
  PROVE  /\ IsChecks(s \o t)
         /\ AllHold(s \o t) <=> AllHold(s) /\ AllHold(t)
<1> DEFINE b == s \o t
           X == ToSet(s) \cup ToSet(t)
<1>1. s \in Seq(X) /\ t \in Seq(X)
  BY DEF IsChecks
<1> HIDE DEF X
<1>2. /\ b \in Seq(X) /\ Len(s) \in Nat /\ Len(t) \in Nat
      /\ DOMAIN s = 1 .. Len(s) /\ DOMAIN t = 1 .. Len(t) /\ DOMAIN b = 1 .. Len(s) + Len(t)
      /\ \A i \in 1 .. Len(s) : b[i] = s[i]
      /\ \A i \in 1 .. Len(t) : b[Len(s) + i] = t[i]
  BY <1>1
<1> HIDE DEF b
<1>3. b \in Seq(ToSet(b))
  <2>1. Len(b) \in Nat /\ b = [i \in 1 .. Len(b) |-> b[i]] /\ \A i \in 1 .. Len(b) : b[i] \in ToSet(b)
    BY <1>2 DEF ToSet
  <2> QED
    BY <2>1
<1>4. \A i \in DOMAIN b : \/ i \in DOMAIN s /\ b[i] = s[i]
                          \/ i - Len(s) \in DOMAIN t /\ b[i] = t[i - Len(s)]
  <2> TAKE i \in DOMAIN b
  <2>1. CASE i <= Len(s)
    <3>1. i \in 1 .. Len(s)
      BY <1>2, <2>1
    <3>2. i \in DOMAIN s
      BY <1>2, <3>1
    <3>3. b[i] = s[i]
      BY <1>2, <3>1
    <3> QED
      BY <3>2, <3>3
  <2>2. CASE i > Len(s)
    <3>1. i - Len(s) \in 1 .. Len(t) /\ i = Len(s) + (i - Len(s))
      BY <1>2, <2>2
    <3>2. i - Len(s) \in DOMAIN t
      BY <1>2, <3>1
    <3>3. b[i] = t[i - Len(s)]
      BY <1>2, <3>1
    <3> QED
      BY <3>2, <3>3
  <2>3. i <= Len(s) \/ i > Len(s)
    BY <1>2
  <2> QED
    BY <2>1, <2>2, <2>3
<1>5. /\ \A i \in DOMAIN s : i \in DOMAIN b /\ b[i] = s[i]
      /\ \A i \in DOMAIN t : Len(s) + i \in DOMAIN b /\ b[Len(s) + i] = t[i]
  <2>1. /\ \A i \in 1 .. Len(s) : i \in 1 .. Len(s) + Len(t)
        /\ \A i \in 1 .. Len(t) : Len(s) + i \in 1 .. Len(s) + Len(t)
    BY <1>2
  <2> QED
    BY <1>2, <2>1
<1>6. IsChecks(b)
  BY <1>3, <1>4 DEF IsChecks
<1>7. AllHold(b) <=> AllHold(s) /\ AllHold(t)
  BY <1>4, <1>5 DEF AllHold
<1> QED
  BY <1>6, <1>7 DEF b

(* And so are three checks written down. *)
LEMMA ThreeChecks ==
  ASSUME NEW a, NEW b, NEW c, a[1] # "ok", b[1] # "ok", c[1] # "ok"
  PROVE  IsChecks(<<a, b, c>>)
<1>1. ToSet(<<a, b, c>>) = {a, b, c}
  BY DEF ToSet
<1>2. <<a, b, c>> \in Seq({a, b, c})
  OBVIOUS
<1> QED
  BY <1>1, <1>2 DEF IsChecks

(* Where the checks of the periods pass, every period is resolved. *)
LEMMA PeriodsPass ==
  ASSUME NEW o, NEW cs, cs \in Seq(ToSet(cs)), NEW periods
  PROVE  /\ IsChecks(PeriodChecks(o, cs, periods))
         /\ AllHold(PeriodChecks(o, cs, periods)) => \A c \in ToSet(cs) \cap DOMAIN periods : periods[c].code = "ok"
<1> DEFINE of(c) == <<
             <<"unsupported", o.policy[c].on \in Bindings(o, cs)>>,
             <<PeriodFailure(periods[c]), periods[c].code = "ok">>,
             <<"unsupported", periods[c].code = "ok" =>
                                {b.on : b \in periods[c].business} \subseteq Bindings(o, cs)>> >>
           code(c) == IF c \in DOMAIN periods THEN FirstFailure(of(c)) ELSE "ok"
           checks == [i \in DOMAIN cs |-> <<code(cs[i]), code(cs[i]) = "ok">>]
<1>1. PeriodChecks(o, cs, periods) = checks
  BY DEF PeriodChecks
<1>2. ASSUME NEW c \in DOMAIN periods, code(c) = "ok"
      PROVE  periods[c].code = "ok"
  <2>1. FirstFailure(of(c)) = "ok"
    BY <1>2
  <2>2. /\ DOMAIN of(c) = {1, 2, 3} /\ of(c)[2][2] = (periods[c].code = "ok")
        /\ \A i \in {1, 2, 3} : of(c)[i][1] # "ok"
    BY DEF PeriodFailure
  <2> HIDE DEF of
  <2>3. of(c)[2][2]
    BY <2>1, <2>2, ChecksHold
  <2> QED
    BY <2>2, <2>3
<1> HIDE DEF code
<1>3. IsChecks(checks)
  <2>1. checks \in Seq(ToSet(checks))
    BY DEF ToSet
  <2> QED
    BY <2>1 DEF IsChecks
<1>4. AllHold(checks) => \A i \in DOMAIN cs : code(cs[i]) = "ok"
  BY DEF AllHold
<1> QED
  BY <1>1, <1>2, <1>3, <1>4 DEF ToSet

-------------------------------------------------------------------------------
(* Steps *)

ConceptsOf(o, s)    == [i \in DOMAIN s.objects |-> GetConcept(o, s.objects[i])]
Constraints(s, intent) == intent.constraints \cup s.constraints
NamedBy(s, intent)  == {x.on : x \in Constraints(s, intent)}
Resolve(o, cs, id)  == CHOOSE p \in Candidates(o, cs, id) : TRUE
ConstraintFilters(o, cs, s, intent) ==
  {[on |-> p, bounded |-> \E x \in Constraints(s, intent) : x.bounded /\ p \in Candidates(o, cs, x.on),
    what |-> "constraint", span |-> <<>>] : p \in {Resolve(o, cs, id) : id \in NamedBy(s, intent)}}

(* A plan that comes out ok came past its checks. *)
LEMMA UnlessPassed ==
  ASSUME NEW code, NEW made, Unless(code, made).code = "ok"
  PROVE  code = "ok" /\ Unless(code, made) = made
  BY DEF Unless, NoPlan

(* A step that is planned names concepts that are found and properties that are
   resolved, and is planned with the rules it chose and the periods of the request. *)
LEMMA StepIsPlanned ==
  ASSUME NEW o, NEW s, s.objects \in Seq(ToSet(s.objects)), NEW intent, PlanStep(o, s, intent).code = "ok"
  PROVE  LET found == ConceptsOf(o, s)
         IN /\ \E requested :
                 PlanStep(o, s, intent) =
                   Planned(o, found, requested, ChosenRules(o, found, s.rules),
                           ConstraintFilters(o, found, s, intent) \cup PeriodFilters(o, PeriodsOf(o, found, intent.time)))
            /\ {"ambiguous", "missing"} \cap ToSet(found) = {}
            /\ AllHold(LookupChecks(o, found, NamedBy(s, intent)))
            /\ \A c \in WithPolicy(o, found) : PeriodOf(o, c, intent.time).code = "ok"
<1> DEFINE found == ConceptsOf(o, s)
           named == NamedBy(s, intent)
           lookup == <<
             <<"unsupported", ~intent.shaped>>,
             <<"clarify", "ambiguous" \notin ToSet(found)>>,
             <<"unsupported", "missing" \notin ToSet(found)>>,
             <<"unsupported", Len(found) <= 2>> >>
           requested == [i \in DOMAIN s.requested |-> Resolve(o, found, s.requested[i])]
           rules == ChosenRules(o, found, s.rules)
           three == << <<"unsupported", s.rules # {} => Cardinality(rules) = Cardinality(s.rules)>>,
                  <<"clarify", UsablePolicies(o, found)>>,
                  <<"unsupported", \A x \in Constraints(s, intent) : x.supported>> >>
           names == LookupChecks(o, found, named)
           periods == PeriodsOf(o, found, intent.time)
           bound == << <<"unsupported", {Resolve(o, found, id) : id \in named} \subseteq Bindings(o, found)>> >>
           checks == PeriodChecks(o, found, periods)
           relations == RelationChecks(o, found)
           asked == << <<"unsupported", Len(found) = 2 => s.relations \subseteq {RelationFor(o, found)}>> >>
           made == Planned(o, found, requested, rules,
                           ConstraintFilters(o, found, s, intent) \cup PeriodFilters(o, periods))
           fourth == Unless(FirstFailure(bound \o checks \o relations \o asked), made)
           third == Unless(FirstFailure(three \o names), fourth)
           second == Unless(FirstFailure(SourceChecks(o, found, requested)), third)
           first == Unless(FirstFailure(LookupChecks(o, found, ToSet(s.requested))), second)
<1>1. PlanStep(o, s, intent) = Unless(FirstFailure(lookup), first)
  BY Zenon DEF PlanStep, ConceptsOf, NamedBy, Resolve, ConstraintFilters, Constraints
<1> HIDE DEF lookup, first, second, third, fourth, made
<1>2. FirstFailure(lookup) = "ok" /\ PlanStep(o, s, intent) = first /\ first.code = "ok"
  BY <1>1, UnlessPassed
<1>3. first = second /\ second.code = "ok"
  BY <1>2, UnlessPassed DEF first
<1>4. second = third /\ third.code = "ok"
  BY <1>3, UnlessPassed DEF second
<1>5. FirstFailure(three \o names) = "ok" /\ third = fourth /\ fourth.code = "ok"
  BY <1>4, UnlessPassed DEF third
<1>6. FirstFailure(bound \o checks \o relations \o asked) = "ok" /\ fourth = made
  BY <1>5, UnlessPassed DEF fourth
<1>7. {"ambiguous", "missing"} \cap ToSet(found) = {}
  <2>1. /\ DOMAIN lookup = 1 .. 4
        /\ \A i \in 1 .. 4 : lookup[i][1] # "ok"
        /\ lookup[2][2] = ("ambiguous" \notin ToSet(found)) /\ lookup[3][2] = ("missing" \notin ToSet(found))
    <3> HIDE DEF found
    <3> QED
      BY DEF lookup
  <2>2. lookup[2][2] /\ lookup[3][2]
    BY <1>2, <2>1, ChecksHold
  <2> HIDE DEF found
  <2>3. "ambiguous" \notin ToSet(found) /\ "missing" \notin ToSet(found)
    BY <2>1, <2>2
  <2> QED
    BY <2>3
<1> HIDE DEF found, named, rules, requested
<1>8. AllHold(names)
  <2>1. IsChecks(three)
    BY ThreeChecks
  <2>2. IsChecks(names)
    BY ThreeChecks DEF LookupChecks
  <2> HIDE DEF three, names
  <2>3. IsChecks(three \o names) /\ (AllHold(three \o names) <=> AllHold(three) /\ AllHold(names))
    BY <2>1, <2>2, JoinedChecks
  <2> QED
    BY <1>5, <2>3, PassedMeansAllHold
<1>9. \A c \in WithPolicy(o, found) : PeriodOf(o, c, intent.time).code = "ok"
  <2>1. IsChecks(bound)
    BY DEF IsChecks, ToSet
  <2>2. IsChecks(relations)
    BY DEF IsChecks, ToSet, RelationChecks
  <2>3. IsChecks(asked)
    BY DEF IsChecks, ToSet
  <2>4. found \in Seq(ToSet(found))
    BY DEF found, ConceptsOf, ToSet
  <2>5. /\ IsChecks(checks)
        /\ AllHold(checks) => \A c \in ToSet(found) \cap DOMAIN periods : periods[c].code = "ok"
    BY <2>4, PeriodsPass
  <2>6. DOMAIN periods = WithPolicy(o, found) /\ \A c \in WithPolicy(o, found) : periods[c] = PeriodOf(o, c, intent.time)
    BY DEF PeriodsOf
  <2>7. WithPolicy(o, found) \subseteq ToSet(found)
    BY DEF WithPolicy
  <2> HIDE DEF bound, checks, relations, asked, periods
  <2>8. IsChecks(bound \o checks) /\ (AllHold(bound \o checks) <=> AllHold(bound) /\ AllHold(checks))
    BY <2>1, <2>5, JoinedChecks
  <2>9. /\ IsChecks(bound \o checks \o relations)
        /\ AllHold(bound \o checks \o relations) <=> AllHold(bound \o checks) /\ AllHold(relations)
    BY <2>2, <2>8, JoinedChecks
  <2>10. /\ IsChecks(bound \o checks \o relations \o asked)
         /\ AllHold(bound \o checks \o relations \o asked) <=> AllHold(bound \o checks \o relations) /\ AllHold(asked)
    BY <2>3, <2>9, JoinedChecks
  <2>11. AllHold(checks)
    BY <1>6, <2>8, <2>9, <2>10, PassedMeansAllHold
  <2> QED
    BY <2>5, <2>6, <2>7, <2>11
<1>10. PlanStep(o, s, intent) = made
  BY <1>2, <1>3, <1>4, <1>5, <1>6
<1>11. \E r : PlanStep(o, s, intent) =
                   Planned(o, found, r, ChosenRules(o, found, s.rules),
                           ConstraintFilters(o, found, s, intent) \cup PeriodFilters(o, PeriodsOf(o, found, intent.time)))
  BY <1>10, Zenon DEF made, rules
<1> QED
  BY <1>7, <1>8, <1>9, <1>11 DEF found, named

(* A constraint is a condition on the one property that its name resolves to. *)
LEMMA ConstraintsAreMet ==
  ASSUME NEW o, Ontology(o), NEW cs, cs \in Seq(ToSet(cs)), ToSet(cs) \subseteq ToSet(o.concepts),
         NEW s, NEW intent, AllHold(LookupChecks(o, cs, NamedBy(s, intent))), NEW w
  PROVE  (\A f \in ConstraintFilters(o, cs, s, intent) : FilterMet(o, f, w))
           <=> \A c \in ToSet(cs) :
                 w[c] = "off" => ~ \E x \in Constraints(s, intent) : ResolveProperty(o, c, x.on) # "missing"
<1> DEFINE named == NamedBy(s, intent)
           found(id) == Candidates(o, cs, id)
<1>1. ASSUME NEW id \in named
      PROVE  /\ \E p : found(id) = {p}
             /\ "ambiguous" \notin found(id)
  <2> DEFINE checks == LookupChecks(o, cs, named)
  <2>1. /\ DOMAIN checks = 1 .. 3
        /\ checks[1][2] = (\A x \in named : "ambiguous" \notin found(x))
        /\ checks[2][2] = (\A x \in named : found(x) # {})
        /\ checks[3][2] = (\A x \in named : Cardinality(found(x)) < 2)
    BY DEF LookupChecks
  <2>2. AllHold(checks)
    OBVIOUS
  <2> HIDE DEF checks, named, found
  <2>7. checks[1][2] /\ checks[2][2] /\ checks[3][2]
    <3>1. 1 \in DOMAIN checks /\ 2 \in DOMAIN checks /\ 3 \in DOMAIN checks
      BY <2>1
    <3> QED
      BY <2>2, <3>1, Zenon DEF AllHold
  <2>3. "ambiguous" \notin found(id) /\ found(id) # {} /\ Cardinality(found(id)) < 2
    BY <2>1, <2>7
  <2>4. IsFiniteSet(found(id))
    <3> DEFINE g == [c \in ToSet(cs) |-> ResolveProperty(o, c, id)]
    <3>1. IsFiniteSet(ToSet(cs))
      BY ListsAreFinite
    <3>2. PICK t \in Seq(ToSet(cs)) : \A c \in ToSet(cs) : \E n \in 1 .. Len(t) : t[n] = c
      BY <3>1 DEF IsFiniteSet
    <3> DEFINE all == {g[c] : c \in ToSet(cs)}
               u == [n \in 1 .. Len(t) |-> g[t[n]]]
    <3>3. u \in Seq(all) /\ Len(u) = Len(t)
      BY <3>2
    <3>4. \A p \in all : \E n \in 1 .. Len(u) : u[n] = p
      <4>1. ASSUME NEW c \in ToSet(cs)
            PROVE  \E n \in 1 .. Len(u) : u[n] = g[c]
        <5>1. PICK n \in 1 .. Len(t) : t[n] = c
          BY <3>2
        <5>2. u[n] = g[c] /\ n \in 1 .. Len(u)
          BY <3>3, <5>1
        <5> HIDE DEF u, g
        <5> QED
          BY <5>2
      <4> HIDE DEF u, g
      <4> QED
        BY <4>1
    <3>5. found(id) \subseteq all
      BY DEF found, Candidates
    <3> HIDE DEF all, u
    <3>6. IsFiniteSet(all)
      BY <3>3, <3>4 DEF IsFiniteSet
    <3> QED
      BY <3>5, <3>6, FS_Subset
  <2>5. Cardinality(found(id)) \in Nat /\ (Cardinality(found(id)) = 0 <=> found(id) = {})
    BY <2>4, FS_CardinalityType, FS_EmptySet
  <2>6. Cardinality(found(id)) = 1
    BY <2>3, <2>5
  <2> QED
    BY <2>3, <2>4, <2>6, FS_Singleton
<1>2. ASSUME NEW id \in named, NEW c \in ToSet(cs), ResolveProperty(o, c, id) # "missing"
      PROVE  Resolve(o, cs, id) = ResolveProperty(o, c, id) /\ Owner(o, Resolve(o, cs, id)) = c
  <2> DEFINE p == ResolveProperty(o, c, id)
  <2>1. p \in found(id)
    BY <1>2 DEF Candidates
  <2>2. Resolve(o, cs, id) = p
    BY <1>1, <2>1 DEF Resolve
  <2>3. p \notin {"ambiguous", "missing"}
    BY <1>1, <1>2, <2>1
  <2>4. p \in ToSet(o.props[c])
    BY <2>3, PropertyFound
  <2>5. Owner(o, p) = c
    BY <2>4, OwnerIs
  <2> QED
    BY <2>2, <2>5
<1>3. ASSUME NEW id \in named
      PROVE  \E c \in ToSet(cs) : ResolveProperty(o, c, id) # "missing"
  BY <1>1 DEF Candidates
<1> DEFINE filter(p) == [on |-> p, bounded |-> \E x \in Constraints(s, intent) : x.bounded /\ p \in Candidates(o, cs, x.on),
                         what |-> "constraint", span |-> <<>>]
<1>4. \A p : FilterMet(o, filter(p), w) <=> w[Owner(o, p)] # "off"
  BY DEF FilterMet, Meets
<1>5. ConstraintFilters(o, cs, s, intent) = {filter(p) : p \in {Resolve(o, cs, id) : id \in named}}
  BY DEF ConstraintFilters
<1> HIDE DEF filter, named
<1>6. (\A f \in ConstraintFilters(o, cs, s, intent) : FilterMet(o, f, w))
        <=> \A id \in named : w[Owner(o, Resolve(o, cs, id))] # "off"
  BY <1>4, <1>5
<1>7. (\A id \in named : w[Owner(o, Resolve(o, cs, id))] # "off")
        <=> \A c \in ToSet(cs) : w[c] = "off" => ~ \E id \in named : ResolveProperty(o, c, id) # "missing"
  BY <1>2, <1>3
<1>8. \A c : (\E id \in named : ResolveProperty(o, c, id) # "missing")
                <=> \E x \in Constraints(s, intent) : ResolveProperty(o, c, x.on) # "missing"
  BY DEF named, NamedBy
<1> QED
  BY <1>6, <1>7, <1>8

(* The rules that were chosen are those of the concepts, each kept for its concept. *)
LEMMA RulesAreMet ==
  ASSUME NEW o, NEW cs, NEW refs, NEW w
  PROVE  (\A r \in ChosenRules(o, cs, refs) : \A p \in r.reads : w[Owner(o, p)] # "off")
           <=> \A c \in ToSet(cs) : RulesHold(o, c, {r \in o.rules : refs = {} \/ r.uri \in refs}, w)
<1>1. \A r : r \in ChosenRules(o, cs, refs)
               <=> r \in o.rules /\ r.active /\ r.on \in ToSet(cs) /\ (refs = {} \/ r.uri \in refs)
  BY DEF ChosenRules, ActiveRules
<1> QED
  BY <1>1 DEF RulesHold

(* The rows of a query of base tables are the ones its step asks for. *)
LEMMA StepMeansItsIntent ==
  ASSUME NEW o, Ontology(o), NEW s, s.objects \in Seq(ToSet(s.objects)), NEW intent, NEW w,
         PlanStep(o, s, intent).code = "ok"
  PROVE  LET q == PlanStep(o, s, intent)
         IN /\ q.concepts = ConceptsOf(o, s)
            /\ StepAsked(o, s, intent, w) <=>
                 /\ \A i \in DOMAIN s.objects : w[ConceptsOf(o, s)[i]] # "none"
                 /\ \A cond \in Conditions(q) : Meets(o, cond, w)
<1> DEFINE q == PlanStep(o, s, intent)
           found == ConceptsOf(o, s)
           cs == ToSet(found)
           rules == {r \in o.rules : s.rules = {} \/ r.uri \in s.rules}
           inPeriod(c) == w[c] # "out" /\ (PeriodOf(o, c, intent.time).business # {} => w[c] # "late")
           unconstrained(c) == w[c] = "off" =>
             ~ \E x \in Constraints(s, intent) : ResolveProperty(o, c, x.on) # "missing"
<1>1. PICK requested :
        q = Planned(o, found, requested, ChosenRules(o, found, s.rules),
                    ConstraintFilters(o, found, s, intent) \cup PeriodFilters(o, PeriodsOf(o, found, intent.time)))
  BY StepIsPlanned
<1>2. /\ {"ambiguous", "missing"} \cap cs = {}
      /\ AllHold(LookupChecks(o, found, NamedBy(s, intent)))
      /\ \A c \in WithPolicy(o, found) : PeriodOf(o, c, intent.time).code = "ok"
  BY StepIsPlanned
<1>3. found \in Seq(cs) /\ DOMAIN found = DOMAIN s.objects /\ \A i \in DOMAIN s.objects : found[i] = GetConcept(o, s.objects[i])
  BY DEF ConceptsOf, ToSet
<1>4. cs = {found[i] : i \in DOMAIN s.objects}
  BY <1>3 DEF ToSet
<1> HIDE DEF found, cs
<1>5. cs \subseteq ToSet(o.concepts)
  <2>1. ASSUME NEW i \in DOMAIN s.objects
        PROVE  found[i] \in ToSet(o.concepts)
    <3>1. GetConcept(o, s.objects[i]) \notin {"ambiguous", "missing"}
      BY <1>2, <1>3, <1>4
    <3> QED
      BY <1>3, <3>1, ConceptFound
  <2> QED
    BY <1>4, <2>1
<1>6. q.concepts = found
  BY <1>1 DEF Planned
<1>7. (\A cond \in Conditions(q) : Meets(o, cond, w))
        <=> /\ \A r \in ChosenRules(o, found, s.rules) : \A p \in r.reads : w[Owner(o, p)] # "off"
            /\ \A f \in ConstraintFilters(o, found, s, intent) : FilterMet(o, f, w)
            /\ \A f \in PeriodFilters(o, PeriodsOf(o, found, intent.time)) : FilterMet(o, f, w)
  <2> DEFINE chosen == ChosenRules(o, found, s.rules)
             one == ConstraintFilters(o, found, s, intent)
             two == PeriodFilters(o, PeriodsOf(o, found, intent.time))
  <2> HIDE DEF chosen, one, two, q
  <2>1. q = Planned(o, found, requested, chosen, one \cup two)
    BY <1>1 DEF chosen, one, two
  <2>2. (\A cond \in Conditions(q) : Meets(o, cond, w))
          <=> /\ \A r \in chosen : \A p \in r.reads : w[Owner(o, p)] # "off"
              /\ \A f \in one \cup two : FilterMet(o, f, w)
    BY <2>1, PlanConditions
  <2>3. (\A f \in one \cup two : FilterMet(o, f, w))
          <=> (\A f \in one : FilterMet(o, f, w)) /\ \A f \in two : FilterMet(o, f, w)
    OBVIOUS
  <2> QED
    BY <2>2, <2>3 DEF chosen, one, two, q
<1>8. (\A r \in ChosenRules(o, found, s.rules) : \A p \in r.reads : w[Owner(o, p)] # "off")
        <=> \A c \in cs : RulesHold(o, c, rules, w)
  BY RulesAreMet DEF cs
<1>9. (\A f \in ConstraintFilters(o, found, s, intent) : FilterMet(o, f, w)) <=> \A c \in cs : unconstrained(c)
  BY <1>2, <1>3, <1>5, ConstraintsAreMet DEF cs
<1>10. (\A f \in PeriodFilters(o, PeriodsOf(o, found, intent.time)) : FilterMet(o, f, w))
         <=> \A c \in cs : o.policy[c].state = "active" => inPeriod(c)
  <2>1. (\A f \in PeriodFilters(o, PeriodsOf(o, found, intent.time)) : FilterMet(o, f, w))
          <=> \A c \in WithPolicy(o, found) : inPeriod(c)
    BY <1>2, <1>5, PeriodsAreMet DEF cs
  <2> QED
    BY <2>1 DEF WithPolicy, cs
<1>11. StepAsked(o, s, intent, w) <=>
         \A i \in DOMAIN s.objects :
           /\ w[found[i]] # "none"
           /\ o.policy[found[i]].state = "active" => inPeriod(found[i])
           /\ RulesHold(o, found[i], rules, w)
           /\ unconstrained(found[i])
  BY <1>3 DEF StepAsked, RowAsked, Constraints
<1> HIDE DEF inPeriod, unconstrained, rules
<1>12. StepAsked(o, s, intent, w) <=>
         /\ \A i \in DOMAIN s.objects : w[found[i]] # "none"
         /\ \A c \in cs : o.policy[c].state = "active" => inPeriod(c)
         /\ \A c \in cs : RulesHold(o, c, rules, w)
         /\ \A c \in cs : unconstrained(c)
  BY <1>4, <1>11
<1> QED
  BY <1>6, <1>7, <1>8, <1>9, <1>10, <1>12 DEF found

-------------------------------------------------------------------------------
(* Texts *)

(* A text that is planned is planned for the concepts it matches, in one order or the
   other, with all their rules and the periods of the request. *)
LEMMA TextIsPlanned ==
  ASSUME NEW o, Ontology(o), NEW text, NEW time, PlanText(o, text, time).code = "ok"
  PROVE  \E cs, requested :
           /\ cs \in Seq(ToSet(cs))
           /\ ToSet(cs) = ToSet(Matched(o, text)) /\ ToSet(cs) \subseteq ToSet(o.concepts)
           /\ PlanText(o, text, time) =
                Planned(o, cs, requested, ActiveRules(o, cs), PeriodFilters(o, PeriodsOf(o, cs, time)))
           /\ \A c \in WithPolicy(o, cs) : PeriodOf(o, c, time).code = "ok"
<1> DEFINE matched == Matched(o, text)
           before(c, d) == FirstPosition(o, text, c) < FirstPosition(o, text, d)
           cs == IF Len(matched) = 2 /\ before(matched[2], matched[1]) THEN Reverse(matched) ELSE matched
           props == FlattenSeq([i \in DOMAIN cs |-> MatchedIn(o, text, cs[i])])
           requested == SortSeq(props, LAMBDA p, q : Position(o, text, p) < Position(o, text, q))
           first == << <<"clarify", UsablePolicies(o, cs)>> >>
           checks == PeriodChecks(o, cs, PeriodsOf(o, cs, time))
           relations == RelationChecks(o, cs)
           made == Planned(o, cs, requested, ActiveRules(o, cs), PeriodFilters(o, PeriodsOf(o, cs, time)))
           inner == Unless(FirstFailure(first \o checks \o relations), made)
           outer == Unless(FirstFailure(SourceChecks(o, cs, requested)), inner)
<1>1. PlanText(o, text, time) =
        IF matched = <<>> THEN NoPlan(ByConcept(o, text))
        ELSE IF Len(matched) > 2 THEN NoPlan("unsupported")
        ELSE IF Len(matched) = 2 /\ WordsFor(o, text, cs[1]) = WordsFor(o, text, cs[2]) THEN NoPlan("ambiguous")
        ELSE outer
  BY Zenon DEF PlanText
<1>2. ByConcept(o, text) # "ok"
  BY DEF ByConcept
<1> HIDE DEF outer
<1>3. PlanText(o, text, time) = outer
  <2> HIDE DEF matched, cs
  <2> QED
    BY <1>1, <1>2 DEF NoPlan
<1>4. FirstFailure(first \o checks \o relations) = "ok" /\ outer = made
  <2> HIDE DEF made
  <2>1. outer = inner /\ inner.code = "ok"
    BY <1>3, UnlessPassed DEF outer
  <2> QED
    BY <2>1, UnlessPassed
<1>5. /\ matched \in Seq(ToSet(o.concepts))
      /\ ToSet(matched) \subseteq ToSet(o.concepts)
  <2>1. o.concepts \in Seq(ToSet(o.concepts))
    BY DEF Ontology
  <2> DEFINE S == {c \in ToSet(o.concepts) : MatchedIn(o, text, c) # <<>>}
  <2>2. matched = Those(o.concepts, S)
    BY DEF Matched
  <2> HIDE DEF S, matched
  <2> QED
    BY <2>1, <2>2, ThoseAreThey
<1> HIDE DEF matched
<1>6. cs \in Seq(ToSet(cs)) /\ ToSet(cs) = ToSet(matched)
  <2>1. matched \in Seq(ToSet(matched))
    BY <1>5 DEF ToSet
  <2>2. /\ Reverse(matched) \in Seq(ToSet(matched)) /\ Len(Reverse(matched)) = Len(matched) /\ Len(matched) \in Nat
        /\ \A i \in 1 .. Len(matched) : Reverse(matched)[i] = matched[Len(matched) - i + 1]
        /\ DOMAIN matched = 1 .. Len(matched) /\ DOMAIN Reverse(matched) = 1 .. Len(matched)
    BY <2>1 DEF Reverse, ToSet
  <2>3. ToSet(Reverse(matched)) = ToSet(matched)
    <3>1. \A i \in 1 .. Len(matched) : /\ Len(matched) - i + 1 \in 1 .. Len(matched)
                                       /\ Len(matched) - (Len(matched) - i + 1) + 1 = i
      BY <2>2
    <3>2. \A x : (\E i \in 1 .. Len(matched) : Reverse(matched)[i] = x) <=> \E i \in 1 .. Len(matched) : matched[i] = x
      BY <2>2, <3>1
    <3> QED
      BY <2>2, <3>2 DEF ToSet
  <2>4. cs = Reverse(matched) \/ cs = matched
    OBVIOUS
  <2> HIDE DEF cs
  <2> QED
    BY <2>1, <2>2, <2>3, <2>4
<1> HIDE DEF cs
<1>7. \A c \in WithPolicy(o, cs) : PeriodOf(o, c, time).code = "ok"
  <2> DEFINE periods == PeriodsOf(o, cs, time)
  <2>1. IsChecks(first)
    BY DEF IsChecks, ToSet
  <2>2. IsChecks(relations)
    BY ThreeChecks DEF RelationChecks
  <2>3. DOMAIN periods = WithPolicy(o, cs) /\ \A c \in WithPolicy(o, cs) : periods[c] = PeriodOf(o, c, time)
    BY DEF PeriodsOf
  <2>4. WithPolicy(o, cs) \subseteq ToSet(cs)
    BY DEF WithPolicy
  <2>5. /\ IsChecks(checks)
        /\ AllHold(checks) => \A c \in ToSet(cs) \cap DOMAIN periods : periods[c].code = "ok"
    <3> HIDE DEF periods
    <3> QED
      BY <1>6, PeriodsPass DEF periods
  <2> HIDE DEF first, checks, relations, periods
  <2>6. IsChecks(first \o checks) /\ (AllHold(first \o checks) <=> AllHold(first) /\ AllHold(checks))
    BY <2>1, <2>5, JoinedChecks
  <2>7. /\ IsChecks(first \o checks \o relations)
        /\ AllHold(first \o checks \o relations) <=> AllHold(first \o checks) /\ AllHold(relations)
    BY <2>2, <2>6, JoinedChecks
  <2>8. AllHold(checks)
    BY <1>4, <2>6, <2>7, PassedMeansAllHold
  <2> QED
    BY <2>3, <2>4, <2>5, <2>8
<1>8. PlanText(o, text, time) = Planned(o, cs, requested, ActiveRules(o, cs), PeriodFilters(o, PeriodsOf(o, cs, time)))
  BY <1>3, <1>4
<1> HIDE DEF requested
<1> QED
  BY <1>5, <1>6, <1>7, <1>8 DEF matched

(* The rows of the query of a text are the ones the text asks for. *)
LEMMA TextMeansItsIntent ==
  ASSUME NEW o, Ontology(o), NEW t, PlanText(o, t.text, t.time).code = "ok", NEW w
  PROVE  LET q == PlanText(o, t.text, t.time)
         IN TextAsked(o, t, w) <=>
              /\ \A i \in DOMAIN q.concepts : w[q.concepts[i]] # "none"
              /\ \A cond \in Conditions(q) : Meets(o, cond, w)
<1> DEFINE q == PlanText(o, t.text, t.time)
           time == t.time
           inPeriod(c) == w[c] # "out" /\ (PeriodOf(o, c, time).business # {} => w[c] # "late")
<1>1. PICK cs, requested :
        /\ cs \in Seq(ToSet(cs))
        /\ ToSet(cs) = ToSet(Matched(o, t.text)) /\ ToSet(cs) \subseteq ToSet(o.concepts)
        /\ q = Planned(o, cs, requested, ActiveRules(o, cs), PeriodFilters(o, PeriodsOf(o, cs, time)))
        /\ \A c \in WithPolicy(o, cs) : PeriodOf(o, c, time).code = "ok"
  BY TextIsPlanned
<1> DEFINE concepts == ToSet(cs)
<1>2. q.concepts = cs
  BY <1>1 DEF Planned
<1>3. concepts = {cs[i] : i \in DOMAIN cs}
  BY DEF ToSet
<1>4. (\A cond \in Conditions(q) : Meets(o, cond, w))
        <=> /\ \A r \in ActiveRules(o, cs) : \A p \in r.reads : w[Owner(o, p)] # "off"
            /\ \A f \in PeriodFilters(o, PeriodsOf(o, cs, time)) : FilterMet(o, f, w)
  BY <1>1, PlanConditions
<1>5. (\A r \in ActiveRules(o, cs) : \A p \in r.reads : w[Owner(o, p)] # "off")
        <=> \A c \in concepts : RulesHold(o, c, o.rules, w)
  <2>1. ChosenRules(o, cs, {}) = ActiveRules(o, cs) /\ {r \in o.rules : {} = {} \/ r.uri \in {}} = o.rules
    BY DEF ChosenRules
  <2>2. \A refs : (\A r \in ChosenRules(o, cs, refs) : \A p \in r.reads : w[Owner(o, p)] # "off")
                     <=> \A c \in ToSet(cs) : RulesHold(o, c, {r \in o.rules : refs = {} \/ r.uri \in refs}, w)
    BY RulesAreMet
  <2>3. (\A r \in ChosenRules(o, cs, {}) : \A p \in r.reads : w[Owner(o, p)] # "off")
          <=> \A c \in ToSet(cs) : RulesHold(o, c, {r \in o.rules : {} = {} \/ r.uri \in {}}, w)
    BY <2>2
  <2> QED
    BY <2>1, <2>3
<1>6. (\A f \in PeriodFilters(o, PeriodsOf(o, cs, time)) : FilterMet(o, f, w))
         <=> \A c \in concepts : o.policy[c].state = "active" => inPeriod(c)
  <2>1. (\A f \in PeriodFilters(o, PeriodsOf(o, cs, time)) : FilterMet(o, f, w))
          <=> \A c \in WithPolicy(o, cs) : inPeriod(c)
    BY <1>1, PeriodsAreMet
  <2> QED
    BY <2>1 DEF WithPolicy
<1> HIDE DEF concepts
<1>7. TextAsked(o, t, w) <=>
         \A c \in concepts :
           /\ w[c] # "none"
           /\ o.policy[c].state = "active" => inPeriod(c)
           /\ RulesHold(o, c, o.rules, w)
  BY <1>1 DEF TextAsked, RowAsked, concepts
<1> HIDE DEF inPeriod, q
<1>8. (\A c \in concepts : w[c] # "none") <=> \A i \in DOMAIN q.concepts : w[q.concepts[i]] # "none"
  BY <1>2, <1>3
<1> QED
  BY <1>4, <1>5, <1>6, <1>7, <1>8 DEF q

-------------------------------------------------------------------------------
(* The script *)

NextTables(o, st, tables, w) ==
  [t \in DOMAIN tables \cup {st.target} |->
     IF t = st.target THEN RunStatement(o, st, tables, w) ELSE tables[t]]
AreTables(o, statements, w, n, f) ==
  f = [k \in 0 .. n |-> IF k = 0 THEN <<>> ELSE NextTables(o, statements[k], f[k - 1], w)]

(* There are such tables: Run picks them. *)
LEMMA TablesExist ==
  ASSUME NEW o, NEW statements, NEW w
  PROVE  \A n \in Nat : \E f : AreTables(o, statements, w, n, f)
<1> DEFINE P == {n \in Nat : \E f : AreTables(o, statements, w, n, f)}
<1>1. 0 \in P
  <2> DEFINE f == [k \in 0 .. 0 |-> <<>>]
  <2>1. \A k \in 0 .. 0 : k = 0
    OBVIOUS
  <2>2. AreTables(o, statements, w, 0, f)
    BY <2>1 DEF AreTables
  <2> QED
    BY <2>2
<1>2. ASSUME NEW n \in Nat, n \in P
      PROVE  n + 1 \in P
  <2>1. PICK f : AreTables(o, statements, w, n, f)
    BY <1>2
  <2> DEFINE h == [k \in 0 .. n + 1 |-> IF k = 0 THEN <<>> ELSE NextTables(o, statements[k], f[k - 1], w)]
  <2>2. \A k \in 0 .. n : h[k] = f[k]
    BY <2>1 DEF AreTables
  <2>3. \A k \in 0 .. n + 1 : k # 0 => k - 1 \in 0 .. n
    OBVIOUS
  <2>4. AreTables(o, statements, w, n + 1, h)
    BY <2>2, <2>3 DEF AreTables
  <2> HIDE DEF h
  <2>5. \E g : AreTables(o, statements, w, n + 1, g)
    BY <2>4
  <2> QED
    BY <2>5
<1> HIDE DEF P
<1>3. Nat \subseteq P
  BY <1>1, <1>2, CountingUp
<1> QED
  BY <1>3 DEF P

(* A table that is there has a row exactly if one was asked for; what the platform
   refuses is a column that was not selected. *)
Good(table, asked) == /\ table.error \in {"none", "columns"}
                      /\ table.error = "none" => (table.row <=> asked)

(* A statement has a row when the tables it reads have one and its conditions hold. *)
RowOf(o, st, asked, w) ==
  /\ \A n \in DOMAIN st.reads : IF st.reads[n] # Base THEN st.reads[n] \in asked
                                ELSE w[st.query.concepts[n]] # "none"
  /\ \A cond \in Conditions(st.query) : Meets(o, cond, w)

LEMMA StatementIsGood ==
  ASSUME NEW o, NEW st, NEW tables, NEW w, NEW asked,
         \A n \in DOMAIN st.reads : st.reads[n] # Base =>
           st.reads[n] \in DOMAIN tables /\ Good(tables[st.reads[n]], st.reads[n] \in asked)
  PROVE  Good(RunStatement(o, st, tables, w), RowOf(o, st, asked, w))
<1> DEFINE q == st.query
           read(n) == {p \in ReadFields(o, q) : p \in ToSet(o.props[q.concepts[n]])}
           earlier == {n \in DOMAIN st.reads : st.reads[n] # Base}
           failed == {n \in earlier : st.reads[n] \in DOMAIN tables /\ tables[st.reads[n]].error # "none"}
           missing == \E i \in earlier : st.reads[i] \notin DOMAIN tables
           odd == \/ \E i \in earlier : ~(Fields(o, read(i)) \subseteq tables[st.reads[i]].columns)
                  \/ Cardinality(Fields(o, ToSet(q.selections))) # Len(q.selections)
           columns == Fields(o, ToSet(q.selections))
           row == /\ \A n \in DOMAIN st.reads :
                        IF n \in earlier THEN tables[st.reads[n]].row ELSE w[q.concepts[n]] # "none"
                  /\ \A cond \in Conditions(q) : Meets(o, cond, w)
           result == RunStatement(o, st, tables, w)
<1>1. result = IF missing THEN [error |-> "no_table"]
               ELSE IF failed # {} THEN tables[st.reads[CHOOSE n \in failed : TRUE]]
               ELSE IF odd THEN [error |-> "columns"]
               ELSE [error |-> "none", columns |-> columns, row |-> row]
  BY DEF RunStatement
<1>2. ~missing
  OBVIOUS
<1> HIDE DEF missing, odd, columns, result
<1>3. CASE failed # {}
  <2>1. PICK n \in failed : result = tables[st.reads[n]]
    BY <1>1, <1>2, <1>3
  <2>2. Good(tables[st.reads[n]], st.reads[n] \in asked) /\ tables[st.reads[n]].error # "none"
    BY <2>1
  <2> QED
    BY <2>1, <2>2 DEF Good, result
<1>4. CASE failed = {}
  <2>1. \A n \in earlier : tables[st.reads[n]].row <=> st.reads[n] \in asked
    BY <1>4 DEF Good
  <2>2. row <=> RowOf(o, st, asked, w)
    BY <2>1 DEF RowOf
  <2> HIDE DEF row, failed
  <2>3. result = [error |-> "columns"] \/ result = [error |-> "none", columns |-> columns, row |-> row]
    BY <1>1, <1>2, <1>4
  <2> QED
    BY <2>2, <2>3 DEF Good, result
<1> QED
  BY <1>3, <1>4

(* A script that reads only what it created before computes what is asked of its last
   statement, if what is asked of every statement follows from what is asked of the
   ones it reads. *)
LEMMA ScriptIsGood ==
  ASSUME NEW o, NEW statements, statements \in Seq(ToSet(statements)), statements # <<>>,
         \A i, j \in DOMAIN statements : statements[i].target = statements[j].target => i = j,
         ScriptHolds(statements), NEW w, NEW asked,
         \A i \in DOMAIN statements : statements[i].target \in asked <=> RowOf(o, statements[i], asked, w)
  PROVE  Good(Run(o, statements, w), Last(statements).target \in asked)
<1> DEFINE N == Len(statements)
           target(i) == statements[i].target
           after == CHOOSE f : AreTables(o, statements, w, N, f)
           Claim(n) == /\ DOMAIN after[n] = {target(i) : i \in 1 .. n}
                       /\ \A i \in 1 .. n : Good(after[n][target(i)], target(i) \in asked)
           P == {n \in Nat : n <= N => Claim(n)}
<1>1. N \in Nat /\ N >= 1 /\ DOMAIN statements = 1 .. N
  OBVIOUS
<1>2. AreTables(o, statements, w, N, after)
  BY <1>1, TablesExist
<1>3. Run(o, statements, w) = after[N][Last(statements).target]
  BY Zenon DEF Run, AreTables, NextTables
<1>4. Last(statements) = statements[N]
  BY DEF Last
<1> HIDE DEF after, N
<1>5. /\ after[0] = <<>>
      /\ \A k \in 1 .. N : after[k] = NextTables(o, statements[k], after[k - 1], w)
  <2>1. \A k \in 0 .. N : after[k] = IF k = 0 THEN <<>> ELSE NextTables(o, statements[k], after[k - 1], w)
    BY <1>2, Zenon DEF AreTables
  <2>2. 0 \in 0 .. N /\ \A k \in 1 .. N : k \in 0 .. N /\ k # 0
    BY <1>1
  <2> QED
    BY <2>1, <2>2
<1>6. 0 \in P
  <2>1. DOMAIN <<>> = {} /\ 1 .. 0 = {}
    OBVIOUS
  <2>2. Claim(0)
    BY <1>5, <2>1
  <2> QED
    BY <2>2
<1>7. ASSUME NEW n \in Nat, n \in P
      PROVE  n + 1 \in P
  <2> SUFFICES ASSUME n + 1 <= N
               PROVE  Claim(n + 1)
    OBVIOUS
  <2>1. Claim(n)
    BY <1>1, <1>7
  <2> DEFINE st == statements[n + 1]
             tables == after[n]
             result == RunStatement(o, st, tables, w)
  <2>2. n + 1 \in 1 .. N /\ (n + 1) - 1 = n
    BY <1>1
  <2>3. after[n + 1] = NextTables(o, st, tables, w)
    BY <1>5, <2>2
  <2>4. \A m \in DOMAIN st.reads : st.reads[m] # Base =>
          st.reads[m] \in DOMAIN tables /\ Good(tables[st.reads[m]], st.reads[m] \in asked)
    <3> TAKE m \in DOMAIN st.reads
    <3> HAVE st.reads[m] # Base
    <3>1. ToSet(st.reads) \subseteq {Base} \cup Created(statements, n + 1)
      BY <1>1, <2>2 DEF ScriptHolds
    <3>2. st.reads[m] \in Created(statements, n + 1)
      BY <3>1 DEF ToSet
    <3>3. PICK i \in 1 .. n : st.reads[m] = target(i)
      BY <2>2, <3>2 DEF Created
    <3> QED
      BY <2>1, <3>3
  <2>5. Good(result, RowOf(o, st, asked, w))
    <3> HIDE DEF st, tables
    <3> QED
      BY <2>4, StatementIsGood DEF result
  <2>6. RowOf(o, st, asked, w) <=> target(n + 1) \in asked
    BY <1>1, <2>2
  <2>7. Good(result, target(n + 1) \in asked)
    BY <2>5, <2>6 DEF Good
  <2> HIDE DEF result, tables
  <2>8. after[n + 1] = [t \in DOMAIN tables \cup {target(n + 1)} |-> IF t = target(n + 1) THEN result ELSE tables[t]]
    BY <2>3 DEF NextTables, result
  <2>9. \A i \in 1 .. n : target(i) # target(n + 1)
    <3>1. \A i \in 1 .. n : i \in 1 .. N /\ i # n + 1
      BY <1>1
    <3> QED
      BY <1>1, <2>2, <3>1
  <2>10. \A i : i \in 1 .. n + 1 <=> i \in 1 .. n \/ i = n + 1
    OBVIOUS
  <2>11. DOMAIN tables = {target(i) : i \in 1 .. n} /\ \A i \in 1 .. n : Good(tables[target(i)], target(i) \in asked)
    BY <2>1 DEF tables
  <2> HIDE DEF target
  <2>12. DOMAIN after[n + 1] = {target(i) : i \in 1 .. n + 1}
    BY <2>8, <2>10, <2>11
  <2>13. ASSUME NEW i \in 1 .. n + 1
         PROVE  Good(after[n + 1][target(i)], target(i) \in asked)
    <3>1. CASE i = n + 1
      <4>1. after[n + 1][target(i)] = result
        BY <2>8, <3>1
      <4> QED
        BY <2>7, <3>1, <4>1
    <3>2. CASE i \in 1 .. n
      <4>1. after[n + 1][target(i)] = tables[target(i)]
        BY <2>8, <2>9, <2>11, <3>2
      <4> QED
        BY <2>11, <3>2, <4>1
    <3> QED
      BY <2>10, <3>1, <3>2
  <2> QED
    BY <2>12, <2>13
<1> HIDE DEF P
<1>8. N \in P
  BY <1>1, <1>6, <1>7, CountingUp
<1>9. Claim(N)
  <2> HIDE DEF Claim
  <2> QED
    BY <1>1, <1>8 DEF P
<1>10. Good(after[N][target(N)], target(N) \in asked)
  BY <1>1, <1>9
<1> QED
  BY <1>3, <1>4, <1>10

-------------------------------------------------------------------------------
(* A draft, bound and compiled *)

BoundStep(o, d, s) ==
  [id |-> s.id, kind |-> s.kind, objects |-> s.objects, from |-> s.from, query |-> PlanStep(o, s, d.intent)]

(* The steps that are bound are the first of the order, each planned and each with
   earlier steps that have its concepts. *)
BoundHolds(o, d, bound) ==
  /\ bound \in Seq(ToSet(bound))
  /\ Len(bound) <= Len(Ordered(d.steps))
  /\ \A i \in DOMAIN bound :
       LET s == Ordered(d.steps)[i]
       IN bound[i] = BoundStep(o, d, s) /\ PlanStep(o, s, d.intent).code = "ok" /\ UpstreamHolds(s, bound)

LEMMA StepsOfDraft ==
  ASSUME NEW d \in StepDrafts, WellFormed(d)
  PROVE  /\ d.steps \in Seq(ToSet(d.steps)) /\ OwnIds(d.steps)
         /\ Ordered(d.steps) \in Seq(ToSet(d.steps)) /\ OwnIds(Ordered(d.steps))
         /\ \A s \in ToSet(d.steps) :
              /\ s.objects \in Seq(ToSet(s.objects)) /\ s.from \in Seq(ToSet(s.from)) /\ DOMAIN s.from = DOMAIN s.objects
              /\ StepOf(d.steps, s.id) = s
              /\ \A id \in Upstream(s) : /\ StepOf(d.steps, id) \in ToSet(d.steps)
                                         /\ StepOf(d.steps, id).id = id
<1>1. d.steps \in Seq(ToSet(d.steps)) /\ OwnIds(d.steps)
  BY DraftAssumption DEF WellFormed, OwnIds
<1>2. Ordered(d.steps) \in Seq(ToSet(d.steps)) /\ OwnIds(Ordered(d.steps))
  BY <1>1, OrderedAreSteps
<1>3. \A s, t \in ToSet(d.steps) : s.id = t.id => s = t
  BY <1>1 DEF OwnIds, ToSet
<1>4. ASSUME NEW s \in ToSet(d.steps)
      PROVE  /\ s.objects \in Seq(ToSet(s.objects)) /\ s.from \in Seq(ToSet(s.from)) /\ DOMAIN s.from = DOMAIN s.objects
             /\ StepOf(d.steps, s.id) = s
             /\ \A id \in Upstream(s) : /\ StepOf(d.steps, id) \in ToSet(d.steps)
                                        /\ StepOf(d.steps, id).id = id
  <2>1. s.objects \in Seq(ToSet(s.objects)) /\ s.from \in Seq(ToSet(s.from)) /\ Len(s.from) = Len(s.objects)
    BY DraftAssumption DEF WellFormed
  <2>2. StepOf(d.steps, s.id) = s
    BY <1>3 DEF StepOf
  <2>3. \A id \in Upstream(s) : \E t \in ToSet(d.steps) : t.id = id
    BY DEF WellFormed
  <2>4. \A id \in Upstream(s) : StepOf(d.steps, id) \in ToSet(d.steps) /\ StepOf(d.steps, id).id = id
    BY <2>3 DEF StepOf
  <2> QED
    BY <2>1, <2>2, <2>4
<1> QED
  BY <1>1, <1>2, <1>4

(* The identifiers of the steps that have a row when everything they are made of was
   asked to have one. *)
AskedOf(o, d, w) ==
  {id \in {s.id : s \in ToSet(d.steps)} : \A x \in MadeOf(d, StepOf(d.steps, id)) : StepAsked(o, x, d.intent, w)}

(* What is asked for by a step is what it asks itself and what its sources are asked. *)
LEMMA AskedByUpstream ==
  ASSUME NEW d \in StepDrafts, WellFormed(d), NEW o, NEW s \in ToSet(d.steps), NEW w
  PROVE  s.id \in AskedOf(o, d, w) <=> StepAsked(o, s, d.intent, w) /\ Upstream(s) \subseteq AskedOf(o, d, w)
<1> DEFINE whole(t) == \A x \in MadeOf(d, t) : StepAsked(o, x, d.intent, w)
<1>1. /\ StepOf(d.steps, s.id) = s
      /\ \A x \in ToSet(d.steps) : \A id \in Upstream(x) : /\ StepOf(d.steps, id) \in ToSet(d.steps)
                                                           /\ StepOf(d.steps, id).id = id
  BY StepsOfDraft
<1>2. s.id \in AskedOf(o, d, w) <=> whole(s)
  BY <1>1 DEF AskedOf
<1>3. \A id \in Upstream(s) : id \in AskedOf(o, d, w) <=> whole(StepOf(d.steps, id))
  BY <1>1 DEF AskedOf
<1>4. MadeOf(d, s) = {s} \cup UNION {MadeOf(d, StepOf(d.steps, id)) : id \in Upstream(s)}
  BY <1>1, MadeOfSteps
<1>5. whole(s) <=> StepAsked(o, s, d.intent, w) /\ \A id \in Upstream(s) : whole(StepOf(d.steps, id))
  BY <1>4
<1> QED
  BY <1>2, <1>3, <1>5

(* The script of a draft has a row exactly if every step of its result asked for it. *)
LEMMA DraftIsAnswered ==
  ASSUME NEW d \in StepDrafts, WellFormed(d), GraphHolds(d), NEW o, Ontology(o),
         NEW bound, BoundHolds(o, d, bound), Len(bound) = Len(Ordered(d.steps)),
         NEW statements, statements = [i \in DOMAIN bound |-> StatementOf(bound[i])],
         ScriptHolds(statements), NEW w
  PROVE  Good(Run(o, statements, w), StepsAsked(o, d, w))
<1> DEFINE ord == Ordered(d.steps)
           steps == ToSet(d.steps)
           asked == AskedOf(o, d, w)
           N == Len(ord)
<1>1. /\ ord \in Seq(steps) /\ OwnIds(ord)
      /\ d.steps \in Seq(steps)
      /\ \A s \in steps :
              /\ s.objects \in Seq(ToSet(s.objects)) /\ s.from \in Seq(ToSet(s.from)) /\ DOMAIN s.from = DOMAIN s.objects
              /\ StepOf(d.steps, s.id) = s
  BY StepsOfDraft
<1>2. N \in Nat /\ DOMAIN ord = 1 .. N /\ \A i \in 1 .. N : ord[i] \in steps
  BY <1>1
<1>3. DOMAIN bound = 1 .. N
  BY DEF BoundHolds
<1>4. \A i \in 1 .. N : bound[i] = BoundStep(o, d, ord[i])
  BY <1>3 DEF BoundHolds
<1>5. /\ DOMAIN statements = 1 .. N /\ Len(statements) = N
      /\ \A i \in 1 .. N : /\ statements[i].target = ord[i].id
                           /\ statements[i].query = PlanStep(o, ord[i], d.intent)
                           /\ statements[i].reads = ord[i].from
  BY <1>2, <1>3, <1>4 DEF StatementOf, BoundStep
<1>6. N # 0
  <2>1. {s \in steps : s.kind = "result"} # {}
    <3> DEFINE results == {s \in steps : s.kind = "result"}
    <3>1. Cardinality(results) = 1
      BY DEF WellFormed
    <3>2. Cardinality({}) = 0
      BY FS_EmptySet
    <3> HIDE DEF results
    <3>3. results # {}
      BY <3>1, <3>2
    <3> QED
      BY <3>3 DEF results
  <2>2. Len(d.steps) # 0
    BY <1>1, <2>1 DEF ToSet
  <2> QED
    BY <2>2 DEF GraphHolds
<1> HIDE DEF N
<1>7. statements \in Seq(ToSet(statements)) /\ statements # <<>>
  <2>1. statements = [i \in 1 .. N |-> statements[i]] /\ \A i \in 1 .. N : statements[i] \in ToSet(statements)
    BY <1>3, <1>5 DEF ToSet
  <2> QED
    BY <1>2, <1>5, <1>6, <2>1
<1>8. \A i, j \in DOMAIN statements : statements[i].target = statements[j].target => i = j
  <2>1. \A i, j \in 1 .. N : ord[i].id = ord[j].id => i = j
    BY <1>1, <1>2 DEF OwnIds
  <2> HIDE DEF ord
  <2> QED
    BY <1>5, <2>1
<1>9. ASSUME NEW i \in 1 .. N
      PROVE  statements[i].target \in asked <=> RowOf(o, statements[i], asked, w)
  <2> DEFINE s == ord[i]
             q == PlanStep(o, s, d.intent)
             st == statements[i]
             found == ConceptsOf(o, s)
  <2>1. s \in steps
    BY <1>2
  <2>2. s.id \in asked <=> StepAsked(o, s, d.intent, w) /\ Upstream(s) \subseteq asked
    BY <2>1, AskedByUpstream
  <2>3. q.code = "ok" /\ UpstreamHolds(s, bound)
    BY <1>3 DEF BoundHolds
  <2>4. /\ q.concepts = found
        /\ StepAsked(o, s, d.intent, w) <=>
             /\ \A n \in DOMAIN s.objects : w[found[n]] # "none"
             /\ \A cond \in Conditions(q) : Meets(o, cond, w)
    <3> HIDE DEF s, steps
    <3> QED
      BY <1>1, <2>1, <2>3, StepMeansItsIntent
  <2>5. st.target = s.id /\ st.query = q /\ st.reads = s.from
    BY <1>5
  <2>6. DOMAIN s.from = DOMAIN s.objects /\ Upstream(s) = ToSet(s.from) \ {Base}
    BY <1>1, <2>1 DEF Upstream
  <2>7. ASSUME NEW n \in DOMAIN s.from, s.from[n] # Base, s.from[n] \in asked
        PROVE  w[found[n]] # "none"
    <3>1. PICK k \in 1 .. N : bound[k].id = s.from[n] /\ s.objects[n] \in ToSet(bound[k].objects)
      BY <1>3, <2>3, <2>7 DEF UpstreamHolds, ToSet
    <3> DEFINE t == ord[k]
    <3>2. t \in steps /\ t.id = s.from[n] /\ s.objects[n] \in ToSet(t.objects)
      <4>1. t \in steps
        BY <1>2
      <4>2. bound[k].id = t.id /\ bound[k].objects = t.objects
        <5>1. bound[k] = BoundStep(o, d, t)
          BY <1>4
        <5> HIDE DEF t
        <5> QED
          BY <5>1 DEF BoundStep
      <4> HIDE DEF t, s
      <4> QED
        BY <3>1, <4>1, <4>2
    <3>3. StepAsked(o, t, d.intent, w)
      BY <2>7, <3>2, AskedByUpstream
    <3>4. PICK j \in DOMAIN t.objects : t.objects[j] = s.objects[n]
      BY <3>2 DEF ToSet
    <3>5. w[GetConcept(o, t.objects[j])] # "none"
      BY <3>3 DEF StepAsked, RowAsked
    <3>6. found[n] = GetConcept(o, s.objects[n])
      BY <2>6 DEF ConceptsOf
    <3> QED
      BY <3>4, <3>5, <3>6
  <2>8. RowOf(o, st, asked, w) <=>
          /\ \A n \in DOMAIN s.from : IF s.from[n] # Base THEN s.from[n] \in asked ELSE w[found[n]] # "none"
          /\ \A cond \in Conditions(q) : Meets(o, cond, w)
    <3> HIDE DEF s, q, st, found, asked
    <3> QED
      BY <2>4, <2>5 DEF RowOf
  <2>9. Upstream(s) \subseteq asked <=> \A n \in DOMAIN s.from : s.from[n] # Base => s.from[n] \in asked
    BY <2>6 DEF ToSet
  <2> DEFINE met == \A cond \in Conditions(q) : Meets(o, cond, w)
             there(n) == w[found[n]] # "none"
             before(n) == s.from[n] # Base
             had(n) == s.from[n] \in asked
             D == DOMAIN s.from
  <2>10. /\ s.id \in asked <=> (\A n \in D : there(n)) /\ met /\ \A n \in D : before(n) => had(n)
         /\ RowOf(o, st, asked, w) <=> (\A n \in D : IF before(n) THEN had(n) ELSE there(n)) /\ met
         /\ \A n \in D : before(n) /\ had(n) => there(n)
    BY <2>2, <2>4, <2>6, <2>7, <2>8, <2>9
  <2> HIDE DEF s, q, st, found, asked, met, there, before, had, D
  <2>11. s.id \in asked <=> RowOf(o, st, asked, w)
    BY <2>10
  <2> QED
    BY <2>5, <2>11 DEF st
<1>10. Good(Run(o, statements, w), Last(statements).target \in asked)
  <2> HIDE DEF asked
  <2> QED
    BY <1>5, <1>7, <1>8, <1>9, ScriptIsGood
<1>11. Last(statements).target \in asked <=> StepsAsked(o, d, w)
  <2>1. N \in 1 .. N
    BY <1>2, <1>6
  <2>2. Last(ord) = ord[N] /\ Last(statements) = statements[N]
    BY <1>5 DEF Last, N
  <2>3. ord[N] = ResultOf(d) /\ ord[N] \in steps
    BY <1>2, <2>1, <2>2 DEF GraphHolds
  <2>4. Last(statements).target = ResultOf(d).id /\ ResultOf(d) \in steps
    BY <1>5, <2>1, <2>2, <2>3
  <2>5. StepOf(d.steps, ResultOf(d).id) = ResultOf(d)
    BY <1>1, <2>4
  <2> QED
    BY <2>4, <2>5 DEF AskedOf, StepsAsked
<1> QED
  BY <1>10, <1>11 DEF Good

(* The script of a text has a row exactly if the text asked for it. *)
LEMMA TextIsAnswered ==
  ASSUME NEW t \in TextRequests, NEW o, Ontology(o), NEW w, PlanText(o, t.text, t.time).code = "ok",
         NEW statements,
         LET q == PlanText(o, t.text, t.time)
         IN statements = <<[target |-> "result", query |-> q, reads |-> [c \in DOMAIN q.concepts |-> Base]]>>
  PROVE  Good(Run(o, statements, w), TextAsked(o, t, w))
<1> DEFINE q == PlanText(o, t.text, t.time)
           st == [target |-> "result", query |-> q, reads |-> [c \in DOMAIN q.concepts |-> Base]]
           asked == IF TextAsked(o, t, w) THEN {"result"} ELSE {}
<1>1. TextAsked(o, t, w) <=>
        /\ \A i \in DOMAIN q.concepts : w[q.concepts[i]] # "none"
        /\ \A cond \in Conditions(q) : Meets(o, cond, w)
  BY TextMeansItsIntent
<1> HIDE DEF q
<1>2. statements = <<st>>
  BY DEF q
<1>3. /\ st.target = "result" /\ st.query = q /\ DOMAIN st.reads = DOMAIN q.concepts
      /\ \A n \in DOMAIN st.reads : st.reads[n] = Base
  OBVIOUS
<1> HIDE DEF st
<1>4. /\ statements # <<>> /\ DOMAIN statements = {1} /\ Len(statements) = 1 /\ statements[1] = st
      /\ statements \in Seq(ToSet(statements))
      /\ Last(statements) = st
  BY <1>2 DEF ToSet, Last
<1>5. ScriptHolds(statements)
  <2>1. ToSet(st.reads) \subseteq {Base}
    BY <1>3 DEF ToSet
  <2> QED
    BY <1>4, <2>1 DEF ScriptHolds
<1>6. RowOf(o, st, asked, w) <=> TextAsked(o, t, w)
  BY <1>1, <1>3 DEF RowOf
<1>7. "result" \in asked <=> TextAsked(o, t, w)
  OBVIOUS
<1> HIDE DEF asked
<1>8. \A i \in DOMAIN statements : statements[i].target \in asked <=> RowOf(o, statements[i], asked, w)
  BY <1>3, <1>4, <1>6, <1>7
<1>9. Good(Run(o, statements, w), Last(statements).target \in asked)
  BY <1>4, <1>5, <1>8, ScriptIsGood
<1> QED
  BY <1>3, <1>4, <1>7, <1>9 DEF Good

-------------------------------------------------------------------------------
(* The programs *)

(* A program that is bound has bound the first steps of the order and has the others to
   do; one that is compiled is the statements of its steps, or of its text. *)
BindingHolds(p) ==
  /\ p.draft \in StepDrafts /\ WellFormed(p.draft) /\ GraphHolds(p.draft)
  /\ BoundHolds(p.o, p.draft, p.bound)
  /\ p.todo \in Seq(ToSet(p.todo))
  /\ Len(p.bound) + Len(p.todo) = Len(Ordered(p.draft.steps))
  /\ \A i \in DOMAIN p.todo : p.todo[i] = Ordered(p.draft.steps)[Len(p.bound) + i]

ScriptOfDraft(p) ==
  /\ BindingHolds(p) /\ p.todo = <<>>
  /\ p.statements = [i \in DOMAIN p.bound |-> StatementOf(p.bound[i])]
  /\ ScriptHolds(p.statements)

ScriptOfText(p) ==
  LET q == PlanText(p.o, p.draft.text, p.draft.time)
  IN /\ p.draft \in TextRequests /\ q.code = "ok"
     /\ p.statements = <<[target |-> "result", query |-> q, reads |-> [c \in DOMAIN q.concepts |-> Base]]>>

ProgramHolds(p) ==
  /\ DOMAIN p = DOMAIN NewProgram(<<>>)
  /\ p.stage \in {"draft", "text", "binding", "compiling", "compiled"} => p.o \in Ontologies
  /\ p.stage = "draft" => p.draft \in StepDrafts /\ WellFormed(p.draft) /\ p.bound = <<>>
  /\ p.stage = "text" => p.draft \in TextRequests
  /\ p.stage \in {"binding", "compiling"} => BindingHolds(p)
  /\ p.stage = "compiling" => p.todo = <<>>
  /\ p.stage = "compiled" => ScriptOfDraft(p) \/ ScriptOfText(p)
ProgramInv == ProgramHolds(program)

(* A program that is refused is done. *)
LEMMA RefusalsHold ==
  ASSUME ProgramInv, NEW code, Refuse(code)
  PROVE  ProgramInv'
  BY DEF ProgramInv, ProgramHolds, Refuse, NewProgram

(* The draft that is ordered has bound nothing and has the whole order to do. *)
LEMMA OrderingHolds ==
  ASSUME ProgramInv, OrderSteps
  PROVE  ProgramInv'
<1> DEFINE p == program
           d == p.draft
           ord == Ordered(d.steps)
<1>1. /\ p.stage = "draft"
      /\ \/ Refuse("clarify")
         \/ Refuse("repair")
         \/ GraphHolds(d) /\ program' = [p EXCEPT !.stage = "binding", !.todo = ord]
  BY Zenon DEF OrderSteps
<1>2. CASE GraphHolds(d) /\ program' = [p EXCEPT !.stage = "binding", !.todo = ord]
  <2> HIDE DEF ord
  <2>1. /\ DOMAIN p = DOMAIN NewProgram(<<>>) /\ p.o \in Ontologies
        /\ d \in StepDrafts /\ WellFormed(d) /\ p.bound = <<>>
    BY <1>1 DEF ProgramInv, ProgramHolds
  <2>2. /\ DOMAIN program' = DOMAIN p /\ program'.stage = "binding" /\ program'.o = p.o
        /\ program'.draft = d /\ program'.bound = <<>> /\ program'.todo = ord
    BY <1>2, <2>1 DEF NewProgram
  <2>3. ord \in Seq(ToSet(d.steps))
    BY <2>1, StepsOfDraft DEF ord
  <2>4. ord \in Seq(ToSet(ord))
    BY <2>3 DEF ToSet
  <2>5. BoundHolds(p.o, d, <<>>)
    <3>1. <<>> \in Seq(ToSet(<<>>)) /\ DOMAIN <<>> = {} /\ Len(<<>>) = 0 /\ Len(ord) \in Nat
      BY <2>3
    <3> QED
      BY <3>1 DEF BoundHolds, ord
  <2>6. Len(<<>>) + Len(ord) = Len(ord) /\ \A i \in DOMAIN ord : ord[i] = ord[Len(<<>>) + i]
    <3>1. Len(<<>>) = 0 /\ DOMAIN ord = 1 .. Len(ord) /\ Len(ord) \in Nat
      BY <2>3
    <3>2. \A i \in 1 .. Len(ord) : 0 + i = i
      OBVIOUS
    <3> QED
      BY <3>1, <3>2
  <2>7. BindingHolds(program')
    BY <1>2, <2>1, <2>2, <2>4, <2>5, <2>6 DEF BindingHolds, ord
  <2> QED
    BY <2>1, <2>2, <2>7 DEF ProgramInv, ProgramHolds
<1> QED
  BY <1>1, <1>2, RefusalsHold

(* The first of a list and the rest of it. *)
LEMMA HeadAndTail ==
  ASSUME NEW s, s \in Seq(ToSet(s)), Len(s) > 0
  PROVE  /\ Head(s) = s[1]
         /\ Tail(s) \in Seq(ToSet(s)) /\ Len(Tail(s)) = Len(s) - 1 /\ DOMAIN Tail(s) = 1 .. Len(s) - 1
         /\ \A i \in 1 .. Len(s) - 1 : Tail(s)[i] = s[i + 1]
<1> HIDE DEF ToSet
<1>1. s # <<>>
  OBVIOUS
<1> QED
  BY <1>1

(* The first step that is left is bound after those before it. *)
LEMMA BindingKeepsHolding ==
  ASSUME ProgramInv, BindStep
  PROVE  ProgramInv'
<1> DEFINE p == program
           d == p.draft
           ord == Ordered(d.steps)
           s == Head(p.todo)
           q == PlanStep(p.o, s, d.intent)
           b == [id |-> s.id, kind |-> s.kind, objects |-> s.objects, from |-> s.from, query |-> q]
           bound == p.bound
           more == Append(bound, b)
           rest == Tail(p.todo)
<1>1. /\ p.stage = "binding" /\ p.todo # <<>>
      /\ \/ \E code : Refuse(code)
         \/ /\ UpstreamHolds(s, bound) /\ q.code = "ok"
            /\ program' = [p EXCEPT !.todo = rest, !.bound = more]
  BY DEF BindStep, Bind
<1>2. CASE /\ UpstreamHolds(s, bound) /\ q.code = "ok"
           /\ program' = [p EXCEPT !.todo = rest, !.bound = more]
  <2> HIDE DEF ord, q
  <2>1. DOMAIN p = DOMAIN NewProgram(<<>>) /\ p.o \in Ontologies /\ BindingHolds(p)
    BY <1>1 DEF ProgramInv, ProgramHolds
  <2>2. /\ d \in StepDrafts /\ WellFormed(d) /\ GraphHolds(d)
        /\ BoundHolds(p.o, d, bound)
        /\ p.todo \in Seq(ToSet(p.todo)) /\ Len(bound) + Len(p.todo) = Len(ord)
        /\ \A i \in DOMAIN p.todo : p.todo[i] = ord[Len(bound) + i]
    BY <2>1 DEF BindingHolds, ord
  <2>3. /\ DOMAIN program' = DOMAIN p /\ program'.stage = p.stage /\ program'.o = p.o
        /\ program'.draft = d /\ program'.bound = more /\ program'.todo = rest
    BY <1>2, <2>1 DEF NewProgram
  <2> HIDE DEF b
  <2>4. /\ bound \in Seq(ToSet(bound)) /\ Len(bound) \in Nat /\ Len(p.todo) \in Nat /\ Len(p.todo) > 0
        /\ DOMAIN bound = 1 .. Len(bound) /\ DOMAIN p.todo = 1 .. Len(p.todo)
    BY <1>1, <2>2 DEF BoundHolds
  <2>5. /\ Len(more) = Len(bound) + 1 /\ DOMAIN more = 1 .. Len(bound) + 1
        /\ \A i \in 1 .. Len(bound) : more[i] = bound[i]
        /\ more[Len(bound) + 1] = b
    BY <2>4
  <2>6. more \in Seq(ToSet(more))
    <3>1. ToSet(bound) \cup {b} = ToSet(more)
      <4>1. \A i : i \in 1 .. Len(bound) + 1 <=> i \in 1 .. Len(bound) \/ i = Len(bound) + 1
        BY <2>4
      <4> HIDE DEF more, bound
      <4> QED
        BY <2>4, <2>5, <4>1 DEF ToSet
    <3>2. more \in Seq(ToSet(bound) \cup {b})
      BY <2>4
    <3> QED
      BY <3>1, <3>2
  <2>7. s = ord[Len(bound) + 1]
    <3>1. 1 \in DOMAIN p.todo
      BY <2>4
    <3>2. p.todo[1] = ord[Len(bound) + 1]
      BY <2>2, <3>1
    <3>3. Head(p.todo) = p.todo[1]
      BY <2>2, <2>4, HeadAndTail
    <3> QED
      BY <3>2, <3>3
  <2>8. ToSet(bound) \subseteq ToSet(more)
    <3>1. \A i \in 1 .. Len(bound) : i \in 1 .. Len(bound) + 1
      BY <2>4
    <3> HIDE DEF more, bound
    <3> QED
      BY <2>4, <2>5, <3>1 DEF ToSet
  <2>9. \A x : UpstreamHolds(x, bound) => UpstreamHolds(x, more)
    <3> HIDE DEF more, bound
    <3> QED
      BY <2>8 DEF UpstreamHolds
  <2>10. b = BoundStep(p.o, d, s)
    BY DEF b, q, BoundStep
  <2> HIDE DEF more, bound, s
  <2>11. ASSUME NEW i \in DOMAIN more
         PROVE  LET x == ord[i]
                IN more[i] = BoundStep(p.o, d, x) /\ PlanStep(p.o, x, d.intent).code = "ok" /\ UpstreamHolds(x, more)
    <3>1. CASE i = Len(bound) + 1
      BY <1>2, <2>5, <2>7, <2>9, <2>10, <3>1 DEF q
    <3>2. CASE i \in 1 .. Len(bound)
      BY <2>2, <2>4, <2>5, <2>9, <3>2 DEF BoundHolds, ord
    <3> QED
      BY <2>4, <2>5, <3>1, <3>2
  <2>12. BoundHolds(p.o, d, more)
    BY <2>2, <2>4, <2>5, <2>6, <2>11 DEF BoundHolds, ord
  <2>13. /\ rest \in Seq(ToSet(p.todo)) /\ Len(rest) = Len(p.todo) - 1 /\ DOMAIN rest = 1 .. Len(p.todo) - 1
         /\ \A i \in 1 .. Len(p.todo) - 1 : rest[i] = p.todo[i + 1]
    BY <2>2, <2>4, HeadAndTail
  <2>14. rest \in Seq(ToSet(rest))
    <3> HIDE DEF rest
    <3>1. rest = [i \in 1 .. Len(rest) |-> rest[i]] /\ \A i \in 1 .. Len(rest) : rest[i] \in ToSet(rest)
      BY <2>13 DEF ToSet
    <3> QED
      BY <2>4, <2>13, <3>1
  <2> HIDE DEF rest
  <2>15. Len(more) + Len(rest) = Len(ord)
    <3>1. \A m, n \in Nat : (m + 1) + (n - 1) = m + n
      OBVIOUS
    <3>2. (Len(bound) + 1) + (Len(p.todo) - 1) = Len(bound) + Len(p.todo)
      BY <2>4, <3>1
    <3> QED
      BY <2>2, <2>5, <2>13, <3>2
  <2>16. \A i \in DOMAIN rest : rest[i] = ord[Len(more) + i]
    <3> TAKE i \in DOMAIN rest
    <3>1. i \in 1 .. Len(p.todo) - 1 /\ i + 1 \in 1 .. Len(p.todo)
      BY <2>4, <2>13
    <3>2. rest[i] = ord[Len(bound) + (i + 1)]
      BY <2>2, <2>4, <2>13, <3>1
    <3>3. Len(bound) + (i + 1) = Len(more) + i
      BY <2>4, <2>5, <3>1
    <3> QED
      BY <3>2, <3>3
  <2>17. BindingHolds(program')
    BY <2>2, <2>3, <2>12, <2>14, <2>15, <2>16 DEF BindingHolds, ord
  <2> QED
    BY <1>1, <2>1, <2>3, <2>17 DEF ProgramInv, ProgramHolds
<1> QED
  BY <1>1, <1>2, RefusalsHold

(* When nothing is left to bind the program goes to the compiler as it is. *)
LEMMA FinishingHolds ==
  ASSUME ProgramInv, FinishBinding
  PROVE  ProgramInv'
<1> DEFINE p == program
<1>1. /\ p.stage = "binding" /\ p.todo = <<>>
      /\ \/ \E code : Refuse(code)
         \/ program' = [p EXCEPT !.stage = "compiling"]
  BY DEF FinishBinding
<1>2. CASE program' = [p EXCEPT !.stage = "compiling"]
  <2>1. DOMAIN p = DOMAIN NewProgram(<<>>) /\ p.o \in Ontologies /\ BindingHolds(p)
    BY <1>1 DEF ProgramInv, ProgramHolds
  <2>2. /\ DOMAIN program' = DOMAIN p /\ program'.stage = "compiling" /\ program'.o = p.o
        /\ program'.draft = p.draft /\ program'.bound = p.bound /\ program'.todo = p.todo
    BY <1>2, <2>1 DEF NewProgram
  <2>3. BindingHolds(program')
    BY <2>1, <2>2 DEF BindingHolds
  <2> QED
    BY <1>1, <2>1, <2>2, <2>3 DEF ProgramInv, ProgramHolds
<1> QED
  BY <1>1, <1>2, RefusalsHold

(* What is compiled are the statements of the bound steps, checked as a script. *)
LEMMA CompilingHolds ==
  ASSUME ProgramInv, CompileProgram
  PROVE  ProgramInv'
<1> DEFINE p == program
           statements == [i \in DOMAIN p.bound |-> StatementOf(p.bound[i])]
<1>1. /\ p.stage = "compiling"
      /\ \/ \E code : Refuse(code)
         \/ ScriptHolds(statements) /\ program' = [p EXCEPT !.stage = "compiled", !.statements = statements]
  BY DEF CompileProgram
<1>2. CASE ScriptHolds(statements) /\ program' = [p EXCEPT !.stage = "compiled", !.statements = statements]
  <2> HIDE DEF statements
  <2>1. DOMAIN p = DOMAIN NewProgram(<<>>) /\ p.o \in Ontologies /\ BindingHolds(p) /\ p.todo = <<>>
    BY <1>1 DEF ProgramInv, ProgramHolds
  <2>2. /\ DOMAIN program' = DOMAIN p /\ program'.stage = "compiled" /\ program'.o = p.o
        /\ program'.draft = p.draft /\ program'.bound = p.bound /\ program'.todo = p.todo
        /\ program'.statements = statements
    BY <1>2, <2>1 DEF NewProgram
  <2>3. BindingHolds(program')
    BY <2>1, <2>2 DEF BindingHolds
  <2>4. ScriptOfDraft(program')
    BY <1>2, <2>1, <2>2, <2>3 DEF ScriptOfDraft, statements
  <2> QED
    BY <2>1, <2>2, <2>4 DEF ProgramInv, ProgramHolds
<1> QED
  BY <1>1, <1>2, RefusalsHold

(* A text is planned and compiled at once. *)
LEMMA CompilingTextHolds ==
  ASSUME ProgramInv, CompileText
  PROVE  ProgramInv'
<1> DEFINE p == program
           q == PlanText(p.o, p.draft.text, p.draft.time)
           statements == <<[target |-> "result", query |-> q, reads |-> [c \in DOMAIN q.concepts |-> Base]]>>
<1>1. /\ p.stage = "text"
      /\ \/ \E code : Refuse(code)
         \/ q.code = "ok" /\ program' = [p EXCEPT !.stage = "compiled", !.statements = statements]
  BY DEF CompileText, CompileQuery
<1>2. CASE q.code = "ok" /\ program' = [p EXCEPT !.stage = "compiled", !.statements = statements]
  <2> HIDE DEF statements, q
  <2>1. DOMAIN p = DOMAIN NewProgram(<<>>) /\ p.o \in Ontologies /\ p.draft \in TextRequests
    BY <1>1 DEF ProgramInv, ProgramHolds
  <2>2. /\ DOMAIN program' = DOMAIN p /\ program'.stage = "compiled" /\ program'.o = p.o
        /\ program'.draft = p.draft /\ program'.statements = statements
    BY <1>2, <2>1 DEF NewProgram
  <2>3. ScriptOfText(program')
    BY <1>2, <2>1, <2>2 DEF ScriptOfText, statements, q
  <2> QED
    BY <2>1, <2>2, <2>3 DEF ProgramInv, ProgramHolds
<1> QED
  BY <1>1, <1>2, RefusalsHold

(* A program starts as a draft, a text or a period. *)
LEMMA ProgramInitInv ==
  ASSUME ProgramInit
  PROVE  ProgramInv
  BY DEF ProgramInit, NewProgram, ProgramInv, ProgramHolds

(* And every step keeps what is known of it. *)
LEMMA ProgramKeepsInv ==
  ASSUME ProgramInv, [ProgramNext]_program
  PROVE  ProgramInv'
<1>1. CASE ResolvePeriod
  <2>1. \/ \E code : Refuse(code)
        \/ \E period : program' = [program EXCEPT !.stage = "resolved", !.bound = period]
    BY <1>1 DEF ResolvePeriod, KeepPeriod
  <2>2. CASE \E period : program' = [program EXCEPT !.stage = "resolved", !.bound = period]
    BY <2>2 DEF ProgramInv, ProgramHolds, NewProgram
  <2> QED
    BY <2>1, <2>2, RefusalsHold
<1>2. CASE UNCHANGED program
  BY <1>2 DEF ProgramInv
<1> QED
  BY <1>1, <1>2, OrderingHolds, BindingKeepsHolding, FinishingHolds, CompilingHolds, CompilingTextHolds
  DEF ProgramNext

(* What is known of a compiled program is enough. *)
LEMMA IntentIsMeant ==
  ASSUME ProgramInv
  PROVE  ProgramMeansIntent
<1> DEFINE p == program
           asked(w) == IF "steps" \in DOMAIN p.draft THEN StepsAsked(p.o, p.draft, w) ELSE TextAsked(p.o, p.draft, w)
<1> SUFFICES ASSUME p.stage = "compiled", NEW w \in QueryWorlds
             PROVE  Good(Run(p.o, p.statements, w), asked(w))
  BY DEF ProgramMeansIntent, Good
<1>1. Ontology(p.o) /\ (ScriptOfDraft(p) \/ ScriptOfText(p))
  BY OntologyAssumption DEF ProgramInv, ProgramHolds
<1>2. CASE ScriptOfDraft(p)
  <2>1. /\ p.draft \in StepDrafts /\ WellFormed(p.draft) /\ GraphHolds(p.draft)
        /\ BoundHolds(p.o, p.draft, p.bound) /\ Len(p.bound) + Len(p.todo) = Len(Ordered(p.draft.steps))
        /\ p.todo = <<>> /\ p.bound \in Seq(ToSet(p.bound))
        /\ p.statements = [i \in DOMAIN p.bound |-> StatementOf(p.bound[i])]
        /\ ScriptHolds(p.statements)
    BY <1>2 DEF ScriptOfDraft, BindingHolds, BoundHolds
  <2>2. Len(p.bound) = Len(Ordered(p.draft.steps))
    <3>1. Len(p.bound) \in Nat /\ Len(<<>>) = 0
      BY <2>1
    <3> QED
      BY <2>1, <3>1
  <2>3. "steps" \in DOMAIN p.draft
    BY <2>1, DraftAssumption
  <2>4. Good(Run(p.o, p.statements, w), StepsAsked(p.o, p.draft, w))
    BY <1>1, <2>1, <2>2, DraftIsAnswered
  <2> QED
    BY <2>3, <2>4
<1>3. CASE ScriptOfText(p)
  <2>1. p.draft \in TextRequests /\ "steps" \notin DOMAIN p.draft
    BY <1>3, DraftAssumption DEF ScriptOfText
  <2>2. Good(Run(p.o, p.statements, w), TextAsked(p.o, p.draft, w))
    BY <1>1, <1>3, <2>1, TextIsAnswered DEF ScriptOfText
  <2> QED
    BY <2>1, <2>2
<1> QED
  BY <1>1, <1>2, <1>3

(* A program that compiles gives what was asked for in every state of the warehouse, for
   every ontology, draft and text (OntologyProgramBinder.bind, HiveProgramCompiler.compile,
   OntologyPlanner.plan). *)
THEOREM ProgramsMeanTheirIntent == ProgramSpec => []ProgramMeansIntent
<1>1. ProgramInit => ProgramInv
  BY ProgramInitInv
<1>2. ProgramInv /\ [ProgramNext]_program => ProgramInv'
  BY ProgramKeepsInv
<1>3. ProgramInv => ProgramMeansIntent
  BY IntentIsMeant
<1> QED
  BY <1>1, <1>2, <1>3, PTL DEF ProgramSpec

-------------------------------------------------------------------------------
(* The calendar *)

(* No month is shorter than 28 days or longer than 31. *)
LEMMA MonthsHaveDays ==
  ASSUME NEW y \in Int, NEW m \in 1 .. 12
  PROVE  MonthDays(y, m) \in 28 .. 31
  BY DEF MonthDays

(* A date is a year, a month and one of the days of that month. *)
LEMMA PartsOfDates ==
  ASSUME NEW d \in Dates
  PROVE  /\ d[1] \in Int /\ d[2] \in 1 .. 12 /\ d[3] \in 1 .. 31
         /\ d[3] <= MonthDays(d[1], d[2])
         /\ d = <<d[1], d[2], d[3]>>
<1>1. /\ d \in Int \X (1 .. 12) \X (1 .. 31)
      /\ d[3] \in 1 .. MonthDays(d[1], d[2])
  BY DEF Dates, RealDate
<1>2. d[1] \in Int /\ d[2] \in 1 .. 12 /\ d[3] \in 1 .. 31 /\ d = <<d[1], d[2], d[3]>>
  BY <1>1
<1>3. MonthDays(d[1], d[2]) \in 28 .. 31
  BY <1>2, MonthsHaveDays
<1> QED
  BY <1>1, <1>2, <1>3

LEMMA DatesFromParts ==
  ASSUME NEW y \in Int, NEW m \in 1 .. 12, NEW n \in 1 .. 31, n <= MonthDays(y, m)
  PROVE  <<y, m, n>> \in Dates
<1>1. MonthDays(y, m) \in 28 .. 31
  BY MonthsHaveDays
<1> QED
  BY <1>1 DEF Dates, RealDate

(* The number of a day says which day it is, and orders days as the calendar does. *)
LEMMA DaysAreOrdered ==
  ASSUME NEW d \in Dates, NEW e \in Dates
  PROVE  /\ DayValue(d) \in Int
         /\ DayValue(d) = DayValue(e) => d = e
         /\ DayValue(d) < DayValue(e) <=>
              \/ d[1] < e[1]
              \/ d[1] = e[1] /\ d[2] < e[2]
              \/ d[1] = e[1] /\ d[2] = e[2] /\ d[3] < e[3]
<1>1. /\ d[1] \in Int /\ d[2] \in 1 .. 12 /\ d[3] \in 1 .. 31 /\ d = <<d[1], d[2], d[3]>>
      /\ e[1] \in Int /\ e[2] \in 1 .. 12 /\ e[3] \in 1 .. 31 /\ e = <<e[1], e[2], e[3]>>
  BY PartsOfDates
<1>2. PICK y \in Int, m \in 1 .. 12, n \in 1 .. 31 : d[1] = y /\ d[2] = m /\ d[3] = n
  BY <1>1
<1>3. PICK z \in Int, k \in 1 .. 12, j \in 1 .. 31 : e[1] = z /\ e[2] = k /\ e[3] = j
  BY <1>1
<1>4. DayValue(d) = y * 10000 + m * 100 + n /\ DayValue(e) = z * 10000 + k * 100 + j
  BY <1>2, <1>3 DEF DayValue
<1>5. /\ y * 10000 + m * 100 + n = z * 10000 + k * 100 + j => y = z /\ m = k /\ n = j
      /\ y * 10000 + m * 100 + n < z * 10000 + k * 100 + j <=>
           \/ y < z
           \/ y = z /\ m < k
           \/ y = z /\ m = k /\ n < j
  OBVIOUS
<1>6. DayValue(d) = DayValue(e) => d = e
  BY <1>1, <1>2, <1>3, <1>4, <1>5
<1> QED
  BY <1>2, <1>3, <1>4, <1>5, <1>6

(* Months counted from the year zero.  The number of a month orders months in the same
   way, and MonthsAgo is a difference of such counts. *)
Index(a) == a[1] * 12 + a[2]

LEMMA MonthsAreOrdered ==
  ASSUME NEW a, NEW b, a[1] \in Int, a[2] \in 1 .. 12, b[1] \in Int, b[2] \in 1 .. 12
  PROVE  /\ MonthValue(a[1], a[2]) \in Int /\ Index(a) \in Int
         /\ MonthValue(a[1], a[2]) <= MonthValue(b[1], b[2]) <=> Index(a) <= Index(b)
         /\ Index(a) = Index(b) <=> a[1] = b[1] /\ a[2] = b[2]
         /\ MonthsAgo(a, b) = Index(b) - Index(a)
<1>1. PICK y \in Int, m \in 1 .. 12 : a[1] = y /\ a[2] = m
  OBVIOUS
<1>2. PICK z \in Int, n \in 1 .. 12 : b[1] = z /\ b[2] = n
  OBVIOUS
<1>3. /\ MonthValue(a[1], a[2]) = y * 100 + m /\ Index(a) = y * 12 + m
      /\ MonthValue(b[1], b[2]) = z * 100 + n /\ Index(b) = z * 12 + n
      /\ MonthsAgo(a, b) = (z - y) * 12 + n - m
  BY <1>1, <1>2 DEF MonthValue, Index, MonthsAgo
<1>4. /\ y * 100 + m <= z * 100 + n <=> y * 12 + m <= z * 12 + n
      /\ y * 12 + m = z * 12 + n <=> y = z /\ m = n
      /\ (z - y) * 12 + n - m = (z * 12 + n) - (y * 12 + m)
  OBVIOUS
<1> QED
  BY <1>1, <1>2, <1>3, <1>4

(* Shifting counts months, across the ends of years in either direction. *)
LEMMA ShiftsCount ==
  ASSUME NEW d, d[1] \in Int, d[2] \in 1 .. 12, NEW k \in Int
  PROVE  ShiftMonth(d, k) \in Months /\ Index(ShiftMonth(d, k)) = Index(d) + k
<1>1. ASSUME NEW i \in Int
      PROVE  i \div 12 \in Int /\ i % 12 \in 0 .. 11 /\ i = 12 * (i \div 12) + (i % 12)
  OBVIOUS
<1>2. PICK y \in Int, m \in 1 .. 12 : d[1] = y /\ d[2] = m
  OBVIOUS
<1> DEFINE i == y * 12 + m - 1 + k
<1>3. ShiftMonth(d, k) = <<i \div 12, (i % 12) + 1>>
  BY <1>2 DEF ShiftMonth
<1>4. PICK q \in Int, r \in 0 .. 11 : q = i \div 12 /\ r = i % 12 /\ y * 12 + m - 1 + k = 12 * q + r
  BY <1>1
<1>5. ShiftMonth(d, k) = <<q, r + 1>>
  BY <1>3, <1>4
<1> HIDE DEF i
<1>6. q * 12 + (r + 1) = y * 12 + m + k
  BY <1>4
<1>7. Index(ShiftMonth(d, k)) = q * 12 + (r + 1) /\ Index(d) = y * 12 + m
  BY <1>2, <1>5 DEF Index
<1>8. <<q, r + 1>> \in Months
  BY DEF Months
<1> QED
  BY <1>5, <1>6, <1>7, <1>8

(* A month widened to its days holds the days of the month, the last one included. *)
LEMMA MonthsHoldTheirDays ==
  ASSUME NEW d \in Dates, NEW y \in Int, NEW m \in 1 .. 12
  PROVE  /\ FirstDay(MonthValue(y, m)) <= DayValue(d) <=> MonthValue(y, m) <= MonthValue(d[1], d[2])
         /\ DayValue(d) <= LastDay(MonthValue(y, m)) <=> MonthValue(d[1], d[2]) <= MonthValue(y, m)
         /\ FirstDay(MonthValue(y, m)) \in Int /\ LastDay(MonthValue(y, m)) \in Int
<1>1. /\ d[1] \in Int /\ d[2] \in 1 .. 12 /\ d[3] \in 1 .. 31
      /\ d[3] <= MonthDays(d[1], d[2])
  BY PartsOfDates
<1>2. MonthDays(y, m) \in 28 .. 31
  BY MonthsHaveDays
<1>3. MonthValue(y, m) \div 100 = y /\ MonthValue(y, m) % 100 = m
  BY DEF MonthValue
<1>4. LastDay(MonthValue(y, m)) = MonthValue(y, m) * 100 + MonthDays(y, m)
  BY <1>3 DEF LastDay
<1>5. FirstDay(MonthValue(y, m)) = MonthValue(y, m) * 100 + 1
  BY DEF FirstDay
<1>6. DayValue(d) = MonthValue(d[1], d[2]) * 100 + d[3]
  BY <1>1 DEF DayValue, MonthValue
<1>7. MonthValue(y, m) \in Int /\ MonthValue(d[1], d[2]) \in Int
  BY <1>1 DEF MonthValue
<1>8. CASE MonthValue(d[1], d[2]) = MonthValue(y, m)
  <2>1. d[1] = y /\ d[2] = m
    BY <1>1, <1>8 DEF MonthValue
  <2> QED
    BY <1>1, <1>2, <1>4, <1>5, <1>6, <1>7, <1>8, <2>1
<1>9. CASE MonthValue(d[1], d[2]) # MonthValue(y, m)
  BY <1>1, <1>2, <1>4, <1>5, <1>6, <1>7, <1>9
<1> QED
  BY <1>8, <1>9

(* The day before is a date, and no other date lies between. *)
LEMMA DayBeforeIsNext ==
  ASSUME NEW d \in Dates
  PROVE  /\ DayBefore(d) \in Dates
         /\ DayValue(DayBefore(d)) < DayValue(d)
         /\ \A x \in Dates : DayValue(x) < DayValue(d) => DayValue(x) <= DayValue(DayBefore(d))
<1>1. /\ d[1] \in Int /\ d[2] \in 1 .. 12 /\ d[3] \in 1 .. 31
      /\ d[3] <= MonthDays(d[1], d[2]) /\ d = <<d[1], d[2], d[3]>>
  BY PartsOfDates
<1>2. SUFFICES /\ DayBefore(d) \in Dates
               /\ DayValue(DayBefore(d)) < DayValue(d)
               /\ \A x \in Dates : ~(DayValue(DayBefore(d)) < DayValue(x) /\ DayValue(x) < DayValue(d))
  BY DaysAreOrdered
<1>3. CASE d[3] > 1
  <2>1. DayBefore(d) = <<d[1], d[2], d[3] - 1>>
    BY <1>3 DEF DayBefore
  <2>2. DayBefore(d) \in Dates
    <3>1. d[3] - 1 \in 1 .. 31 /\ d[3] - 1 <= MonthDays(d[1], d[2])
      BY <1>1, <1>3, MonthsHaveDays
    <3> QED
      BY <1>1, <2>1, <3>1, DatesFromParts
  <2>3. DayValue(DayBefore(d)) < DayValue(d)
    BY <1>1, <2>1 DEF DayValue
  <2>4. ASSUME NEW x \in Dates, DayValue(DayBefore(d)) < DayValue(x), DayValue(x) < DayValue(d)
        PROVE  FALSE
    BY <1>1, <2>1, <2>2, <2>4, DaysAreOrdered, PartsOfDates
  <2> QED
    BY <2>2, <2>3, <2>4
<1>4. CASE d[3] = 1 /\ d[2] > 1
  <2> DEFINE last == MonthDays(d[1], d[2] - 1)
  <2>1. DayBefore(d) = <<d[1], d[2] - 1, last>>
    BY <1>4 DEF DayBefore
  <2>2. d[2] - 1 \in 1 .. 12 /\ last \in 28 .. 31
    BY <1>1, <1>4, MonthsHaveDays
  <2>3. DayBefore(d) \in Dates
    <3>1. last \in 1 .. 31 /\ last <= MonthDays(d[1], d[2] - 1)
      BY <2>2
    <3> QED
      BY <1>1, <2>1, <2>2, <3>1, DatesFromParts
  <2> HIDE DEF last
  <2>4. DayValue(DayBefore(d)) < DayValue(d)
    BY <1>1, <1>4, <2>1, <2>2 DEF DayValue
  <2>5. ASSUME NEW x \in Dates, DayValue(DayBefore(d)) < DayValue(x), DayValue(x) < DayValue(d)
        PROVE  FALSE
    <3>1. x[1] \in Int /\ x[2] \in 1 .. 12 /\ x[3] \in 1 .. 31 /\ x[3] <= MonthDays(x[1], x[2])
      BY PartsOfDates
    <3>2. x[1] = d[1] /\ x[2] = d[2] - 1 /\ x[3] > last
      BY <1>1, <1>4, <2>1, <2>2, <2>3, <2>5, <3>1, DaysAreOrdered
    <3> QED
      BY <2>2, <3>1, <3>2 DEF last
  <2> QED
    BY <2>3, <2>4, <2>5
<1>5. CASE d[3] = 1 /\ d[2] = 1
  <2>1. DayBefore(d) = <<d[1] - 1, 12, 31>>
    BY <1>5 DEF DayBefore
  <2>2. MonthDays(d[1] - 1, 12) = 31
    BY DEF MonthDays
  <2>3. DayBefore(d) \in Dates
    <3>1. d[1] - 1 \in Int /\ 12 \in 1 .. 12 /\ 31 \in 1 .. 31 /\ 31 <= MonthDays(d[1] - 1, 12)
      BY <1>1, <2>2
    <3> HIDE <2>2
    <3> QED
      BY <2>1, <3>1, DatesFromParts
  <2>4. DayValue(DayBefore(d)) < DayValue(d)
    BY <1>1, <1>5, <2>1 DEF DayValue
  <2>5. ASSUME NEW x \in Dates, DayValue(DayBefore(d)) < DayValue(x), DayValue(x) < DayValue(d)
        PROVE  FALSE
    BY <1>1, <1>5, <2>1, <2>3, <2>5, DaysAreOrdered, PartsOfDates
  <2> QED
    BY <2>3, <2>4, <2>5
<1> QED
  BY <1>1, <1>3, <1>4, <1>5

-------------------------------------------------------------------------------
(* Days counted in the calendar *)

(* The days of the calendar from d until just before today, as DaysAgo counts them. *)
DaysFrom(d, today) == {x \in Calendar : DayValue(d) <= DayValue(x) /\ DayValue(x) < DayValue(today)}

(* One day ago is yesterday, two days ago the day before: no day is skipped or counted
   twice where a month or a year ends. *)
LEMMA CountingDays ==
  ASSUME NEW r \in Periodical, NEW d \in Calendar
  PROVE  LET yesterday == DayBefore(r.today)
         IN /\ Before(d, r.today) /\ DaysAgo(d, r.today) = 1 <=> d = yesterday
            /\ Before(d, r.today) /\ DaysAgo(d, r.today) = 2 <=> d = DayBefore(yesterday)
<1> DEFINE today == r.today
           y == DayBefore(today)
           z == DayBefore(y)
           S == DaysFrom(d, today)
<1>1. /\ today \in Dates /\ {y, z} \subseteq Calendar
      /\ Calendar \subseteq Dates /\ IsFiniteSet(Calendar)
  <2> HIDE DEF S
  <2> QED
    BY PeriodAssumption
<1> HIDE DEF y, z, S
<1>2. /\ y \in Dates /\ z \in Dates /\ DayValue(y) < DayValue(today) /\ DayValue(z) < DayValue(y)
      /\ \A x \in Dates : DayValue(x) < DayValue(today) => DayValue(x) <= DayValue(y)
      /\ \A x \in Dates : DayValue(x) < DayValue(y) => DayValue(x) <= DayValue(z)
  BY <1>1, DayBeforeIsNext DEF y, z
<1>3. \A x, e \in Dates : DayValue(x) \in Int /\ (DayValue(x) = DayValue(e) => x = e)
  BY DaysAreOrdered
<1>4. IsFiniteSet(S) /\ DaysAgo(d, today) = Cardinality(S)
  <2>1. S \in SUBSET Calendar
    BY DEF S, DaysFrom
  <2> QED
    BY <1>1, <2>1, FS_Subset DEF S, DaysFrom, DaysAgo
<1>5. \A x : x \in S <=> x \in Calendar /\ DayValue(d) <= DayValue(x) /\ DayValue(x) < DayValue(today)
  BY DEF S, DaysFrom
<1>6. CASE DayValue(today) <= DayValue(d)
  <2>1. S = {}
    BY <1>1, <1>3, <1>5, <1>6
  <2>2. DaysAgo(d, today) = 0
    BY <1>4, <2>1, FS_EmptySet
  <2>3. d # y /\ d # z
    BY <1>1, <1>2, <1>3, <1>6
  <2> QED
    BY <2>2, <2>3 DEF y, z
<1>7. CASE d = y
  <2>1. S = {y}
    BY <1>1, <1>2, <1>3, <1>5, <1>7
  <2>2. DaysAgo(d, today) = 1
    BY <1>4, <2>1, FS_Singleton
  <2>3. d # z
    BY <1>1, <1>2, <1>3, <1>7
  <2>4. Before(d, today)
    BY <1>1, <1>2, <1>3, <1>7 DEF Before
  <2> QED
    BY <1>7, <2>2, <2>3, <2>4 DEF y, z
<1>8. y # z
  BY <1>2, <1>3
<1>9. IsFiniteSet({z, y}) /\ Cardinality({z, y}) = 2
  <2>1. IsFiniteSet({z}) /\ Cardinality({z}) = 1 /\ y \notin {z}
    BY <1>8, FS_Singleton
  <2>2. IsFiniteSet({z} \cup {y}) /\ Cardinality({z} \cup {y}) = 1 + 1
    BY <2>1, FS_AddElement
  <2>3. {z} \cup {y} = {z, y}
    OBVIOUS
  <2> QED
    BY <2>2, <2>3
<1>10. CASE d = z
  <2>1. S = {z, y}
    BY <1>1, <1>2, <1>3, <1>5, <1>10
  <2>2. DaysAgo(d, today) = 2
    BY <1>4, <1>9, <2>1
  <2>3. Before(d, today)
    BY <1>1, <1>2, <1>3, <1>10 DEF Before
  <2> QED
    BY <1>8, <1>10, <2>2, <2>3 DEF y, z
<1>11. CASE DayValue(d) < DayValue(today) /\ d # y /\ d # z
  <2>1. {d} \cup {z, y} \subseteq S
    <3>1. DayValue(d) < DayValue(y)
      BY <1>1, <1>2, <1>3, <1>11
    <3>2. DayValue(d) <= DayValue(z)
      BY <1>1, <1>2, <3>1
    <3> QED
      BY <1>1, <1>2, <1>3, <1>5, <1>11, <3>1, <3>2
  <2>2. Cardinality({d} \cup {z, y}) = 3
    <3>1. Cardinality({z, y} \cup {d}) = 2 + 1
      BY <1>9, <1>11, FS_AddElement
    <3>2. {z, y} \cup {d} = {d} \cup {z, y}
      OBVIOUS
    <3> QED
      BY <3>1, <3>2
  <2>3. 3 <= Cardinality(S) /\ Cardinality(S) \in Nat
    BY <1>4, <2>1, <2>2, FS_Subset, FS_CardinalityType
  <2>4. DaysAgo(d, today) # 1 /\ DaysAgo(d, today) # 2
    BY <1>4, <2>3
  <2> QED
    BY <1>11, <2>4 DEF y, z
<1> QED
  BY <1>1, <1>3, <1>6, <1>7, <1>10, <1>11

-------------------------------------------------------------------------------
(* Single expressions *)

Pairs == Int \X Int
Inside(v, span) == span[1] <= v /\ v <= span[2]
Forward(span)   == span[1] <= span[2]

(* An expression that names months is a span of months, first to last, which holds the
   days it means. *)
LEMMA MonthsMeanTheirSpan ==
  ASSUME NEW r \in Periodical, NEW d \in Dates, NEW e, Expression(e),
         e.kind \in MonthKinds \/ (r.grain = "month" /\ e.kind = "written_day"),
         e.kind = "month_range" => Forward(MonthSpan(e, r.today))
  PROVE  \E a, b \in Months :
           /\ MonthSpan(e, r.today) = <<MonthValue(a[1], a[2]), MonthValue(b[1], b[2])>>
           /\ MonthValue(a[1], a[2]) <= MonthValue(b[1], b[2])
           /\ Asked(e, d, r.grain, r.today) <=> Inside(MonthValue(d[1], d[2]), MonthSpan(e, r.today))
<1> DEFINE today == r.today
           v == MonthValue(d[1], d[2])
           last == ShiftMonth(today, -1)
<1>1. today \in Dates
  BY PeriodAssumption
<1>2. /\ today[1] \in Int /\ today[2] \in 1 .. 12 /\ Index(today) \in Int
      /\ d[1] \in Int /\ d[2] \in 1 .. 12 /\ Index(d) \in Int
      /\ MonthsAgo(d, today) = Index(today) - Index(d)
  BY <1>1, PartsOfDates, MonthsAreOrdered
<1> HIDE DEF today
<1>3. \A a \in Months : a[1] \in Int /\ a[2] \in 1 .. 12
  BY DEF Months
<1>4. \A a \in Months : Index(a) \in Int
  BY <1>3, MonthsAreOrdered
<1>5. ASSUME NEW a \in Months, NEW b \in Months,
             MonthSpan(e, today) = <<MonthValue(a[1], a[2]), MonthValue(b[1], b[2])>>,
             Index(a) <= Index(b),
             Asked(e, d, r.grain, today) <=> Index(a) <= Index(d) /\ Index(d) <= Index(b)
      PROVE  \E x, y \in Months :
               /\ MonthSpan(e, today) = <<MonthValue(x[1], x[2]), MonthValue(y[1], y[2])>>
               /\ MonthValue(x[1], x[2]) <= MonthValue(y[1], y[2])
               /\ Asked(e, d, r.grain, today) <=> Inside(v, MonthSpan(e, today))
  <2>1. /\ MonthValue(a[1], a[2]) <= MonthValue(b[1], b[2])
        /\ MonthValue(a[1], a[2]) <= v <=> Index(a) <= Index(d)
        /\ v <= MonthValue(b[1], b[2]) <=> Index(d) <= Index(b)
    BY <1>2, <1>3, <1>5, MonthsAreOrdered
  <2>2. Inside(v, MonthSpan(e, today)) <=> MonthValue(a[1], a[2]) <= v /\ v <= MonthValue(b[1], b[2])
    BY <1>5 DEF Inside
  <2> QED
    BY <1>5, <2>1, <2>2
<1>6. ASSUME NEW a \in Months, MonthSpan(e, today) = <<MonthValue(a[1], a[2]), MonthValue(a[1], a[2])>>,
             Asked(e, d, r.grain, today) <=> Index(a) = Index(d)
      PROVE  \E x, y \in Months :
               /\ MonthSpan(e, today) = <<MonthValue(x[1], x[2]), MonthValue(y[1], y[2])>>
               /\ MonthValue(x[1], x[2]) <= MonthValue(y[1], y[2])
               /\ Asked(e, d, r.grain, today) <=> Inside(v, MonthSpan(e, today))
  <2>1. Index(a) \in Int
    BY <1>4
  <2>2. Index(a) <= Index(a) /\ (Asked(e, d, r.grain, today) <=> Index(a) <= Index(d) /\ Index(d) <= Index(a))
    BY <1>2, <1>6, <2>1
  <2> QED
    BY <1>5, <1>6, <2>2
<1>7. last \in Months /\ Index(last) = Index(today) - 1
  <2>1. last \in Months /\ Index(last) = Index(today) + (-1)
    BY <1>2, ShiftsCount
  <2> QED
    BY <1>2, <2>1
<1>8. CASE e.kind = "month_range"
  <2>1. e.from \in Months /\ e.to \in Months
    BY <1>8 DEF Expression
  <2>2. MonthSpan(e, today) = <<MonthValue(e.from[1], e.from[2]), MonthValue(e.to[1], e.to[2])>>
    BY <1>8 DEF MonthSpan
  <2>3. Asked(e, d, r.grain, today) <=> /\ MonthValue(e.from[1], e.from[2]) <= v
                               /\ v <= MonthValue(e.to[1], e.to[2])
    BY <1>8 DEF Asked
  <2>4. Asked(e, d, r.grain, today) <=> Inside(v, MonthSpan(e, today))
    BY <2>2, <2>3 DEF Inside
  <2>5. MonthValue(e.from[1], e.from[2]) <= MonthValue(e.to[1], e.to[2])
    BY <1>8, <2>2 DEF Forward, today
  <2> QED
    BY <2>1, <2>2, <2>4, <2>5 DEF today
<1>9. CASE e.kind = "recent"
  <2> DEFINE first == ShiftMonth(last, -(e.count - 1))
  <2>1. PICK n \in Nat : n > 0 /\ e.count = n
    BY <1>9 DEF Expression
  <2>2. first \in Months /\ Index(first) = Index(last) - (n - 1)
    <3>1. first = ShiftMonth(last, -(n - 1)) /\ -(n - 1) \in Int
      BY <2>1
    <3> HIDE DEF last, first
    <3>2. first \in Months /\ Index(first) = Index(last) + (-(n - 1))
      BY <1>3, <1>7, <3>1, ShiftsCount
    <3> QED
      BY <1>4, <1>7, <3>2
  <2>3. MonthSpan(e, today) = <<MonthValue(first[1], first[2]), MonthValue(last[1], last[2])>>
    BY <1>9 DEF MonthSpan
  <2>4. Asked(e, d, r.grain, today) <=> MonthsAgo(d, today) \in 1 .. n
    BY <1>9, <2>1 DEF Asked
  <2> HIDE DEF first, last
  <2>5. Index(first) \in Int /\ Index(last) \in Int
    BY <1>4, <1>7, <2>2
  <2>6. Asked(e, d, r.grain, today) <=> Index(first) <= Index(d) /\ Index(d) <= Index(last)
    BY <1>2, <1>7, <2>2, <2>4, <2>5
  <2>7. Index(first) <= Index(last)
    BY <2>1, <2>2, <2>5
  <2> QED
    BY <1>5, <1>7, <2>2, <2>3, <2>6, <2>7 DEF today
<1>10. CASE e.kind = "this_month"
  <2> DEFINE a == <<today[1], today[2]>>
  <2>1. MonthSpan(e, today) = <<MonthValue(a[1], a[2]), MonthValue(a[1], a[2])>>
    BY <1>10 DEF MonthSpan
  <2>2. Asked(e, d, r.grain, today) <=> MonthsAgo(d, today) = 0
    BY <1>10 DEF Asked
  <2>3. a \in Months /\ Index(a) = Index(today)
    BY <1>2 DEF Months, Index
  <2> HIDE DEF a
  <2>4. Asked(e, d, r.grain, today) <=> Index(a) = Index(d)
    BY <1>2, <2>2, <2>3
  <2> QED
    BY <1>6, <2>1, <2>3, <2>4 DEF today
<1>11. CASE e.kind = "last_month"
  <2>1. MonthSpan(e, today) = <<MonthValue(last[1], last[2]), MonthValue(last[1], last[2])>>
    BY <1>11 DEF MonthSpan, LastMonth
  <2>2. Asked(e, d, r.grain, today) <=> MonthsAgo(d, today) = 1
    BY <1>11 DEF Asked
  <2> HIDE DEF last
  <2>3. Asked(e, d, r.grain, today) <=> Index(last) = Index(d)
    BY <1>2, <1>7, <2>2
  <2> QED
    BY <1>6, <1>7, <2>1, <2>3 DEF today
<1>12. CASE e.kind = "month" \/ (r.grain = "month" /\ e.kind = "written_day")
  <2> DEFINE a == <<e.from[1], e.from[2]>>
  <2>1. a \in Months
    <3>1. e.from \in Months \/ e.from \in Int \X (1 .. 12) \X (1 .. 31)
      BY <1>12 DEF Expression
    <3>2. e.from[1] \in Int /\ e.from[2] \in 1 .. 12
      BY <1>3, <3>1
    <3> QED
      BY <3>2 DEF Months
  <2>2. MonthSpan(e, today) = <<MonthValue(a[1], a[2]), MonthValue(a[1], a[2])>>
    BY <1>12 DEF MonthSpan
  <2>3. Asked(e, d, r.grain, today) <=> <<d[1], d[2]>> = <<a[1], a[2]>>
    BY <1>12 DEF Asked
  <2> HIDE DEF a
  <2>4. Asked(e, d, r.grain, today) <=> Index(a) = Index(d)
    BY <1>2, <1>3, <2>1, <2>3, MonthsAreOrdered
  <2> QED
    BY <1>6, <2>1, <2>2, <2>4 DEF today
<1>13. CASE e.kind \in {"yearless_month", "yearless_day"}
  <2> DEFINE a == <<today[1], e.month>>
  <2>1. a \in Months
    BY <1>2, <1>13 DEF Expression, Months
  <2>2. MonthSpan(e, today) = <<MonthValue(a[1], a[2]), MonthValue(a[1], a[2])>>
    BY <1>13 DEF MonthSpan
  <2>3. Asked(e, d, r.grain, today) <=> <<d[1], d[2]>> = <<a[1], a[2]>>
    BY <1>13 DEF Asked
  <2> HIDE DEF a
  <2>4. Asked(e, d, r.grain, today) <=> Index(a) = Index(d)
    BY <1>2, <1>3, <2>1, <2>3, MonthsAreOrdered
  <2> QED
    BY <1>6, <2>1, <2>2, <2>4 DEF today
<1> QED
  BY <1>8, <1>9, <1>10, <1>11, <1>12, <1>13 DEF MonthKinds

(* An expression that names days is a span of days. *)
LEMMA DaysMeanTheirSpan ==
  ASSUME NEW r \in Periodical, NEW d \in Calendar, NEW e, Expression(e), e.kind \in DayKinds,
         r.grain = "day", ~Unreadable(e, "day", r.today), ~NotADate(e, "day")
  PROVE  /\ DaySpan(e, r.today) \in Pairs
         /\ Forward(DaySpan(e, r.today))
         /\ Asked(e, d, r.grain, r.today) <=> Inside(DayValue(d), DaySpan(e, r.today))
<1> DEFINE today == r.today
           span == DaySpan(e, today)
<1>1. today \in Dates /\ d \in Dates
  BY PeriodAssumption
<1>2. /\ Before(d, today) /\ DaysAgo(d, today) = 1 <=> d = DayBefore(today)
      /\ Before(d, today) /\ DaysAgo(d, today) = 2 <=> d = DayBefore(DayBefore(today))
  BY CountingDays
<1> HIDE DEF today
<1>3. ASSUME NEW x \in Dates, span = <<DayValue(x), DayValue(x)>>, Asked(e, d, r.grain, today) <=> d = x
      PROVE  /\ span \in Pairs /\ Forward(span)
             /\ Asked(e, d, r.grain, today) <=> Inside(DayValue(d), span)
  <2>1. DayValue(x) \in Int /\ DayValue(d) \in Int /\ (DayValue(d) = DayValue(x) => d = x)
    BY <1>1, DaysAreOrdered
  <2> QED
    BY <1>3, <2>1 DEF Pairs, Forward, Inside
<1>4. DayBefore(today) \in Dates /\ DayBefore(DayBefore(today)) \in Dates
  BY <1>1, DayBeforeIsNext
<1>5. ASSUME NEW x, x \in Int \X Int \X Int, RealDate(x)
      PROVE  x \in Dates
  <2>1. x[1] \in Int /\ x[2] \in 1 .. 12 /\ x[3] \in Int /\ x = <<x[1], x[2], x[3]>>
        /\ x[3] \in 1 .. MonthDays(x[1], x[2])
    BY <1>5 DEF RealDate
  <2>2. MonthDays(x[1], x[2]) \in 28 .. 31
    BY <2>1, MonthsHaveDays
  <2>3. x[3] \in 1 .. 31
    BY <2>1, <2>2
  <2> QED
    BY <1>5, <2>1, <2>3 DEF Dates
<1>6. CASE e.kind = "day"
  <2>1. e.from \in Dates
    BY <1>5, <1>6 DEF Unreadable, Expression
  <2>2. span = <<DayValue(e.from), DayValue(e.from)>>
    BY <1>6 DEF DaySpan, MonthKinds
  <2>3. Asked(e, d, r.grain, today) <=> d = e.from
    BY <1>6 DEF Asked
  <2> QED
    BY <1>3, <2>1, <2>2, <2>3 DEF today
<1>7. CASE e.kind = "day_range"
  <2>1. e.from \in Dates /\ e.to \in Dates
    BY <1>5, <1>7 DEF Unreadable, Expression
  <2>2. span = <<DayValue(e.from), DayValue(e.to)>>
    BY <1>7 DEF DaySpan, MonthKinds
  <2>3. DayValue(e.from) \in Int /\ DayValue(e.to) \in Int
    BY <2>1, DaysAreOrdered
  <2>4. Asked(e, d, r.grain, today) <=> DayValue(e.from) <= DayValue(d) /\ DayValue(d) <= DayValue(e.to)
    BY <1>7 DEF Asked, Before
  <2>5. ~(span[1] > span[2])
    BY <1>7 DEF Unreadable, Span, today
  <2>6. span \in Pairs /\ Forward(span)
    BY <2>2, <2>3, <2>5 DEF Pairs, Forward
  <2> QED
    BY <2>2, <2>4, <2>6 DEF Inside, today
<1>8. CASE e.kind = "today"
  <2>1. span = <<DayValue(today), DayValue(today)>>
    BY <1>8 DEF DaySpan, MonthKinds
  <2>2. Asked(e, d, r.grain, today) <=> d = today
    BY <1>8 DEF Asked
  <2> QED
    BY <1>1, <1>3, <2>1, <2>2 DEF today
<1>9. CASE e.kind = "yesterday"
  <2>1. span = <<DayValue(DayBefore(today)), DayValue(DayBefore(today))>>
    BY <1>9 DEF DaySpan, MonthKinds
  <2>2. Asked(e, d, r.grain, today) <=> d = DayBefore(today)
    BY <1>2, <1>9 DEF Asked
  <2> QED
    BY <1>3, <1>4, <2>1, <2>2 DEF today
<1>10. CASE e.kind = "day_before"
  <2>1. span = <<DayValue(DayBefore(DayBefore(today))), DayValue(DayBefore(DayBefore(today)))>>
    BY <1>10 DEF DaySpan, MonthKinds
  <2>2. Asked(e, d, r.grain, today) <=> d = DayBefore(DayBefore(today))
    BY <1>2, <1>10 DEF Asked
  <2> QED
    BY <1>3, <1>4, <2>1, <2>2 DEF today
<1>11. CASE e.kind = "written_day"
  <2>1. e.from \in Dates
    BY <1>5, <1>11 DEF NotADate, Expression
  <2>2. span = <<DayValue(e.from), DayValue(e.from)>>
    BY <1>11 DEF DaySpan, MonthKinds
  <2>3. Asked(e, d, r.grain, today) <=> d = e.from
    BY <1>11 DEF Asked
  <2> QED
    BY <1>3, <2>1, <2>2, <2>3 DEF today
<1> QED
  BY <1>6, <1>7, <1>8, <1>9, <1>10, <1>11 DEF DayKinds

(* The number a partition has for a day. *)
ValueFor(grain, d) == IF grain = "month" THEN MonthValue(d[1], d[2]) ELSE DayValue(d)

(* Every expression that is read, in a table by month or by day, is a span that holds
   the days it means. *)
LEMMA SpansMeanTheirDays ==
  ASSUME NEW r \in Periodical, NEW d \in Calendar, NEW e \in Tokens(r.words, r.grain),
         ~Unreadable(e, r.grain, r.today), ~NotADate(e, r.grain)
  PROVE  LET span == Span(e, r.grain, r.today)
         IN /\ span \in Pairs /\ Forward(span)
            /\ Asked(e, d, r.grain, r.today) <=> Inside(ValueFor(r.grain, d), span)
            /\ r.grain = "month" =>
                 (Asked(e, d, r.grain, r.today) <=> Inside(DayValue(d), <<FirstDay(span[1]), LastDay(span[2])>>))
<1> DEFINE today == r.today
           months == MonthSpan(e, today)
           v == MonthValue(d[1], d[2])
<1>1. /\ r.grain \in {"month", "day"} /\ d \in Dates /\ Expression(e)
      /\ \/ e.kind \in MonthKinds
         \/ r.grain = "day" /\ e.kind \in DayKinds
         \/ r.grain = "month" /\ e.kind = "written_day"
  BY PeriodAssumption DEF Tokens, PassedOver, Expression
<1>2. CASE e.kind \in DayKinds /\ r.grain = "day"
  <2>1. Span(e, r.grain, today) = DaySpan(e, today) /\ ValueFor(r.grain, d) = DayValue(d)
    BY <1>2 DEF Span, ValueFor
  <2>2. ~Unreadable(e, "day", today) /\ ~NotADate(e, "day")
    BY <1>2
  <2> QED
    BY <1>1, <1>2, <2>1, <2>2, DaysMeanTheirSpan
<1>3. CASE e.kind \in MonthKinds \/ (r.grain = "month" /\ e.kind = "written_day")
  <2> DEFINE Widened(s) == <<FirstDay(s[1]), LastDay(s[2])>>
  <2>1. r.grain = "month" => Span(e, r.grain, today) = months /\ ValueFor(r.grain, d) = v
    BY DEF Span, ValueFor
  <2>2. r.grain = "day" => Span(e, r.grain, today) = Widened(months) /\ ValueFor(r.grain, d) = DayValue(d)
    BY <1>3 DEF Span, DaySpan, ValueFor, MonthKinds
  <2>3. e.kind = "month_range" => \E a, b \in Months : months = <<MonthValue(a[1], a[2]), MonthValue(b[1], b[2])>>
    BY <1>1 DEF MonthSpan, Expression
  <2>4. ASSUME NEW a \in Months, NEW b \in Months
        PROVE  LET s == <<MonthValue(a[1], a[2]), MonthValue(b[1], b[2])>>
               IN /\ s \in Pairs /\ Widened(s) \in Pairs
                  /\ Forward(s) <=> Forward(Widened(s))
                  /\ Inside(DayValue(d), Widened(s)) <=> Inside(v, s)
    <3>1. a[1] \in Int /\ a[2] \in 1 .. 12 /\ b[1] \in Int /\ b[2] \in 1 .. 12
      BY DEF Months
    <3> DEFINE m == MonthValue(a[1], a[2])
               n == MonthValue(b[1], b[2])
    <3>2. m \in Int /\ n \in Int
      BY <3>1, MonthsAreOrdered
    <3>3. /\ FirstDay(m) <= DayValue(d) <=> m <= v
          /\ DayValue(d) <= LastDay(n) <=> v <= n
          /\ FirstDay(m) \in Int /\ LastDay(n) \in Int
      BY <1>1, <3>1, MonthsHoldTheirDays
    <3>4. FirstDay(m) <= LastDay(n) <=> m <= n
      <4>1. PICK i \in 28 .. 31 : LastDay(n) = n * 100 + i
        <5>1. n \div 100 = b[1] /\ n % 100 = b[2]
          <6>1. PICK y \in Int, k \in 1 .. 12 : b[1] = y /\ b[2] = k
            BY <3>1
          <6> QED
            BY <6>1 DEF MonthValue
        <5>2. MonthDays(b[1], b[2]) \in 28 .. 31
          BY <3>1, MonthsHaveDays
        <5> QED
          BY <5>1, <5>2 DEF LastDay
      <4>2. FirstDay(m) = m * 100 + 1
        BY DEF FirstDay
      <4> HIDE DEF m, n
      <4> QED
        BY <3>2, <4>1, <4>2
    <3> HIDE DEF m, n
    <3> QED
      BY <3>2, <3>3, <3>4 DEF Pairs, Forward, Inside, m, n
  <2> HIDE DEF Widened, months
  <2>5. e.kind = "month_range" => Forward(months)
    <3>1. e.kind = "month_range" => ~(Span(e, r.grain, today)[1] > Span(e, r.grain, today)[2])
      BY DEF Unreadable
    <3>2. e.kind = "month_range" => Forward(Span(e, r.grain, today))
      <4>1. e.kind = "month_range" => Span(e, r.grain, today) \in Pairs
        BY <1>1, <2>1, <2>2, <2>3, <2>4
      <4> QED
        BY <3>1, <4>1 DEF Pairs, Forward
    <3> QED
      BY <1>1, <2>1, <2>2, <2>3, <2>4, <3>2
  <2>6. PICK a, b \in Months : /\ months = <<MonthValue(a[1], a[2]), MonthValue(b[1], b[2])>>
                               /\ MonthValue(a[1], a[2]) <= MonthValue(b[1], b[2])
                               /\ Asked(e, d, r.grain, today) <=> Inside(v, months)
    BY <1>1, <1>3, <2>5, MonthsMeanTheirSpan DEF months
  <2>7. Forward(months) /\ months \in Pairs /\ Forward(Widened(months)) /\ Widened(months) \in Pairs
    BY <2>4, <2>6 DEF Forward
  <2>8. Asked(e, d, r.grain, today) <=> Inside(DayValue(d), Widened(months))
    BY <2>4, <2>6
  <2>9. CASE r.grain = "month"
    BY <2>1, <2>6, <2>7, <2>8, <2>9 DEF Widened
  <2>10. CASE r.grain = "day"
    BY <2>2, <2>7, <2>8, <2>10
  <2> QED
    BY <1>1, <2>9, <2>10
<1> QED
  BY <1>1, <1>2, <1>3

(* Without an expression it is the last complete month, or the day before yesterday. *)
LEMMA DefaultIsAsked ==
  ASSUME NEW r \in Periodical, NEW d \in Calendar
  PROVE  DefaultAsked(d, r) <=> Inside(ValueFor(r.grain, d), DefaultSpan(r.grain, r.today))
<1> DEFINE today == r.today
<1>1. today \in Dates /\ d \in Dates /\ r.grain \in {"month", "day"}
  BY PeriodAssumption
<1>2. CASE r.grain = "month"
  <2> DEFINE last == ShiftMonth(today, -1)
  <2>1. /\ today[1] \in Int /\ today[2] \in 1 .. 12 /\ d[1] \in Int /\ d[2] \in 1 .. 12
    BY <1>1, PartsOfDates
  <2>2. MonthsAgo(d, today) = Index(today) - Index(d) /\ Index(today) \in Int /\ Index(d) \in Int
    BY <2>1, MonthsAreOrdered
  <2>3. last \in Months /\ Index(last) = Index(today) + (-1)
    BY <2>1, ShiftsCount
  <2>4. DefaultSpan(r.grain, today) = <<MonthValue(last[1], last[2]), MonthValue(last[1], last[2])>>
    BY <1>2 DEF DefaultSpan, LastMonth
  <2> HIDE DEF last
  <2>5. last[1] \in Int /\ last[2] \in 1 .. 12
    BY <2>3 DEF Months
  <2>6. /\ MonthValue(last[1], last[2]) <= MonthValue(d[1], d[2]) <=> Index(last) <= Index(d)
        /\ MonthValue(d[1], d[2]) <= MonthValue(last[1], last[2]) <=> Index(d) <= Index(last)
        /\ Index(last) \in Int
    BY <2>1, <2>5, MonthsAreOrdered
  <2>7. MonthsAgo(d, today) = 1 <=> Index(last) <= Index(d) /\ Index(d) <= Index(last)
    BY <2>2, <2>3, <2>6
  <2>8. DefaultAsked(d, r) <=> MonthsAgo(d, today) = 1
    BY <1>2 DEF DefaultAsked
  <2>9. ValueFor(r.grain, d) = MonthValue(d[1], d[2])
    BY <1>2 DEF ValueFor
  <2> QED
    BY <2>4, <2>6, <2>7, <2>8, <2>9 DEF Inside
<1>3. CASE r.grain = "day"
  <2> DEFINE z == DayBefore(DayBefore(today))
  <2>1. DefaultAsked(d, r) <=> d = z
    BY <1>3, CountingDays DEF DefaultAsked
  <2>2. z \in Dates
    BY <1>1, DayBeforeIsNext
  <2>3. DefaultSpan(r.grain, today) = <<DayValue(z), DayValue(z)>> /\ ValueFor(r.grain, d) = DayValue(d)
    BY <1>3 DEF DefaultSpan, ValueFor
  <2>4. DayValue(d) \in Int /\ DayValue(z) \in Int /\ (DayValue(d) = DayValue(z) => d = z)
    <3> HIDE DEF z
    <3> QED
      BY <1>1, <2>2, DaysAreOrdered
  <2> HIDE DEF z
  <2> QED
    BY <2>1, <2>3, <2>4 DEF Inside
<1> QED
  BY <1>1, <1>2, <1>3
-------------------------------------------------------------------------------
(* Several expressions *)

(* Spans that leave no conflict behind are none, or mean together what one of them
   means: a range may only repeat its ends. *)
LEMMA DistinctMeans ==
  ASSUME NEW spans, IsFiniteSet(spans), spans \subseteq Pairs, \A s \in spans : Forward(s),
         ~(Cardinality(Distinct(spans)) > 1)
  PROVE  /\ spans = {} => Distinct(spans) = {}
         /\ spans # {} => \E s \in Pairs : /\ Distinct(spans) = {s}
                                           /\ \A v \in Int : Inside(v, s) <=> \E t \in spans : Inside(v, t)
<1> DEFINE ranges == {s \in spans : s[1] # s[2]}
           r == CHOOSE s \in ranges : TRUE
           repeated == {r, <<r[1], r[1]>>, <<r[2], r[2]>>}
<1>1. CASE Distinct(spans) = spans
  <2>1. Cardinality(spans) \in Nat /\ (Cardinality(spans) = 0 <=> spans = {})
    BY FS_EmptySet, FS_CardinalityType
  <2>2. Cardinality(spans) = 0 \/ Cardinality(spans) = 1
    BY <1>1, <2>1
  <2>3. CASE Cardinality(spans) = 1
    <3>1. PICK s : spans = {s}
      BY <2>3, FS_Singleton
    <3> QED
      BY <1>1, <3>1
  <2> QED
    BY <1>1, <2>1, <2>2, <2>3
<1>2. CASE Cardinality(ranges) = 1 /\ spans = repeated
  <2>1. PICK s \in ranges : ranges = {s}
    <3>1. IsFiniteSet(ranges)
      BY FS_Subset
    <3> QED
      BY <1>2, <3>1, FS_Singleton
  <2>2. r = s
    BY <2>1
  <2>3. Distinct(spans) = {s}
    BY <1>2, <2>2 DEF Distinct
  <2>4. s \in Pairs /\ Forward(s)
    BY <2>1
  <2>5. PICK a, b \in Int : s = <<a, b>>
    BY <2>4 DEF Pairs
  <2>6. a <= b
    BY <2>4, <2>5 DEF Forward
  <2>7. spans = {s, <<s[1], s[1]>>, <<s[2], s[2]>>}
    BY <1>2, <2>2
  <2>8. spans = {<<a, b>>, <<a, a>>, <<b, b>>}
    BY <2>5, <2>7
  <2>9. \A v \in Int : Inside(v, <<a, b>>) <=> \E t \in spans : Inside(v, t)
    BY <2>6, <2>8 DEF Inside
  <2> QED
    BY <2>3, <2>4, <2>5, <2>8, <2>9
<1>3. Distinct(spans) = spans \/ (Cardinality(ranges) = 1 /\ spans = repeated)
  BY DEF Distinct
<1> QED
  BY <1>1, <1>2, <1>3
(* A request has few expressions, so it has few spans. *)
LEMMA SpansAreFew ==
  ASSUME NEW r \in Periodical, NEW S \in SUBSET Tokens(r.words, r.grain)
  PROVE  IsFiniteSet({Span(e, r.grain, r.today) : e \in S})
<1> DEFINE n == Len(r.words)
           places == 1 .. n
           all == {Span(r.words[i], r.grain, r.today) : i \in places}
           f == [i \in places |-> Span(r.words[i], r.grain, r.today)]
           spans == {Span(e, r.grain, r.today) : e \in S}
<1>1. n \in Nat /\ Tokens(r.words, r.grain) \subseteq {r.words[i] : i \in 1 .. n}
  BY PeriodAssumption DEF Tokens, ToSet
<1>2. IsFiniteSet(places)
  <2> HIDE DEF n
  <2> QED
    BY <1>1, FS_Interval
<1> HIDE DEF f, places
<1>3. IsFiniteSet({f[i] : i \in places})
  BY <1>2, FiniteImage
<1>4. all = {f[i] : i \in places}
  BY DEF f
<1>5. IsFiniteSet(all)
  BY <1>3, <1>4
<1>6. spans \subseteq all
  BY <1>1 DEF places
<1> QED
  BY <1>5, <1>6, FS_Subset

(* What is resolved means what the expressions mean. *)
LEMMA ResolvedIsAsked ==
  ASSUME NEW r \in Periodical, NEW d \in Calendar, NEW period,
         period = Resolved(r.words, r.unlimited, r.grain, r.today, r.dates), period.code = "ok"
  PROVE  LET tokens == Tokens(r.words, r.grain)
             own == {e \in tokens : e.near \notin DOMAIN r.dates}
         IN /\ Inside(ValueFor(r.grain, d), period.partition)
                 <=> IF own = {} THEN DefaultAsked(d, r) ELSE \E e \in own : Asked(e, d, r.grain, r.today)
            /\ \A e \in tokens \ own : \E b \in period.business :
                 b.on = e.near /\ (Asked(e, d, r.grain, r.today) <=> b.first <= DayValue(d) /\ DayValue(d) <= b.last)
<1> DEFINE tokens == Tokens(r.words, r.grain)
           own == {e \in tokens : e.near \notin DOMAIN r.dates}
           business == {e \in tokens : e.near \in DOMAIN r.dates}
           span(e) == Span(e, r.grain, r.today)
           spans == {span(e) : e \in own}
           bound(e) == [on |-> e.near, first |-> FirstDay(span(e)[1]), last |-> LastDay(span(e)[2])]
<1>1. /\ \A e \in tokens : ~Unreadable(e, r.grain, r.today) /\ ~NotADate(e, r.grain)
      /\ \A e \in business : r.grain # "day"
      /\ ~(Cardinality(Distinct(spans)) > 1)
      /\ period.partition = IF Distinct(spans) = {} THEN DefaultSpan(r.grain, r.today)
                            ELSE CHOOSE s \in Distinct(spans) : TRUE
      /\ period.business = {bound(e) : e \in business}
  <2>1. own = tokens \ business
    OBVIOUS
  <2> DEFINE found == Distinct({span(e) : e \in tokens \ business})
  <2>2. ~r.unlimited /\ \A e \in tokens : ~Unreadable(e, r.grain, r.today) /\ ~NotADate(e, r.grain)
    BY DEF Resolved
  <2>3. \A e \in business : ~(~r.dates[e.near] \/ r.grain = "day")
    BY <2>2 DEF Resolved
  <2>4. period = IF Cardinality(found) > 1 THEN [code |-> "conflicting_partition_time"]
                 ELSE [code |-> "ok",
                       partition |-> IF found = {} THEN DefaultSpan(r.grain, r.today) ELSE CHOOSE s \in found : TRUE,
                       business |-> {bound(e) : e \in business}]
    BY <2>2, <2>3 DEF Resolved
  <2>5. ~(Cardinality(found) > 1)
    BY <2>4
  <2>6. found = Distinct(spans)
    BY <2>1
  <2> HIDE DEF found, bound, business, tokens
  <2> QED
    BY <2>2, <2>3, <2>4, <2>5, <2>6 DEF tokens
<1>2. ASSUME NEW e \in tokens
      PROVE  /\ span(e) \in Pairs /\ Forward(span(e))
             /\ Asked(e, d, r.grain, r.today) <=> Inside(ValueFor(r.grain, d), span(e))
             /\ r.grain = "month" =>
                  (Asked(e, d, r.grain, r.today) <=> Inside(DayValue(d), <<FirstDay(span(e)[1]), LastDay(span(e)[2])>>))
  BY <1>1, SpansMeanTheirDays
<1>3. r.grain \in {"month", "day"} /\ ValueFor(r.grain, d) \in Int
  <2>1. d \in Dates /\ r.grain \in {"month", "day"}
    BY PeriodAssumption
  <2>2. d[1] \in Int /\ d[2] \in 1 .. 12 /\ DayValue(d) \in Int
    BY <2>1, PartsOfDates, DaysAreOrdered
  <2>3. MonthValue(d[1], d[2]) \in Int
    BY <2>2, MonthsAreOrdered
  <2> QED
    BY <2>1, <2>2, <2>3 DEF ValueFor
<1>4. Inside(ValueFor(r.grain, d), period.partition)
        <=> IF own = {} THEN DefaultAsked(d, r) ELSE \E e \in own : Asked(e, d, r.grain, r.today)
  <2>1. IsFiniteSet(spans)
    BY SpansAreFew
  <2>2. spans \subseteq Pairs /\ \A s \in spans : Forward(s)
    BY <1>2
  <2>3. spans = {} <=> own = {}
    OBVIOUS
  <2>4. CASE own = {}
    <3>1. Distinct(spans) = {}
      <4> HIDE DEF spans
      <4> QED
        BY <1>1, <2>1, <2>2, <2>3, <2>4, DistinctMeans
    <3> QED
      BY <1>1, <2>4, <3>1, DefaultIsAsked
  <2>5. CASE own # {}
    <3>1. PICK s \in Pairs : /\ Distinct(spans) = {s}
                             /\ \A v \in Int : Inside(v, s) <=> \E t \in spans : Inside(v, t)
      <4> HIDE DEF spans
      <4> QED
        BY <1>1, <2>1, <2>2, <2>3, <2>5, DistinctMeans
    <3>2. period.partition = s
      BY <1>1, <3>1
    <3>3. Inside(ValueFor(r.grain, d), s) <=> \E t \in spans : Inside(ValueFor(r.grain, d), t)
      BY <1>3, <3>1
    <3>4. (\E t \in spans : Inside(ValueFor(r.grain, d), t)) <=> \E e \in own : Asked(e, d, r.grain, r.today)
      BY <1>2
    <3> QED
      BY <2>5, <3>2, <3>3, <3>4
  <2> QED
    BY <2>4, <2>5
<1>5. ASSUME NEW e \in tokens \ own
      PROVE  \E b \in period.business :
               b.on = e.near /\ (Asked(e, d, r.grain, r.today) <=> b.first <= DayValue(d) /\ DayValue(d) <= b.last)
  <2>1. e \in business /\ r.grain = "month"
    BY <1>1, <1>3
  <2>2. bound(e) \in period.business
    BY <1>1, <2>1
  <2>3. Asked(e, d, r.grain, r.today) <=> Inside(DayValue(d), <<FirstDay(span(e)[1]), LastDay(span(e)[2])>>)
    BY <1>2, <2>1
  <2>4. Asked(e, d, r.grain, r.today) <=> bound(e).first <= DayValue(d) /\ DayValue(d) <= bound(e).last
    BY <2>3 DEF Inside
  <2> QED
    BY <2>2, <2>4
<1> QED
  BY <1>4, <1>5

-------------------------------------------------------------------------------
(* The periods of the programs *)

(* A period that is resolved is the one its request resolves to. *)
PeriodInv ==
  /\ DOMAIN program = DOMAIN NewProgram(<<>>)
  /\ program.stage \in {"period", "resolved"} => program.draft \in Periodical
  /\ program.stage = "resolved" =>
       LET r == program.draft
       IN /\ program.bound = Resolved(r.words, r.unlimited, r.grain, r.today, r.dates)
          /\ program.bound.code = "ok"

LEMMA PeriodInitInv ==
  ASSUME ProgramInit
  PROVE  PeriodInv
  BY DEF ProgramInit, NewProgram, PeriodInv

LEMMA PeriodKeepsInv ==
  ASSUME PeriodInv, [ProgramNext]_program
  PROVE  PeriodInv'
<1>1. CASE ResolvePeriod
  BY <1>1 DEF PeriodInv, ResolvePeriod, KeepPeriod, Refuse, NewProgram
<1>2. CASE UNCHANGED program
  BY <1>2 DEF PeriodInv
<1>3. CASE OrderSteps
  <2>1. /\ program.stage = "draft"
        /\ \/ Refuse("clarify")
           \/ Refuse("repair")
           \/ program' = [program EXCEPT !.stage = "binding", !.todo = Ordered(program.draft.steps)]
    BY <1>3, Zenon DEF OrderSteps
  <2> QED
    BY <2>1 DEF PeriodInv, Refuse, NewProgram
<1>4. CASE BindStep
  BY <1>4 DEF PeriodInv, BindStep, Bind, Refuse, NewProgram
<1>5. CASE FinishBinding
  BY <1>5 DEF PeriodInv, FinishBinding, Refuse, NewProgram
<1>6. CASE CompileProgram \/ CompileText
  BY <1>6 DEF PeriodInv, CompileProgram, CompileText, CompileQuery, Refuse, NewProgram
<1> QED
  BY <1>1, <1>2, <1>3, <1>4, <1>5, <1>6 DEF ProgramNext

LEMMA AskedPeriods ==
  ASSUME PeriodInv
  PROVE  PeriodIsTheOneAsked
<1> DEFINE r == program.draft
           tokens == Tokens(r.words, r.grain)
           own == {e \in tokens : e.near \notin DOMAIN r.dates}
           MeansDay(d) ==
             /\ InPeriod(d) <=> IF own = {} THEN DefaultAsked(d, r)
                               ELSE \E e \in own : Asked(e, d, r.grain, r.today)
             /\ \A e \in tokens \ own : \E b \in program.bound.business :
                  b.on = e.near /\ (Asked(e, d, r.grain, r.today) <=> b.first <= DayValue(d) /\ DayValue(d) <= b.last)
<1>1. ASSUME program.stage = "resolved", NEW d \in Calendar
      PROVE  MeansDay(d)
  <2>1. r \in Periodical
    BY <1>1 DEF PeriodInv
  <2>2. program.bound = Resolved(r.words, r.unlimited, r.grain, r.today, r.dates) /\ program.bound.code = "ok"
    BY <1>1 DEF PeriodInv
  <2>3. InPeriod(d) <=> Inside(ValueFor(r.grain, d), program.bound.partition)
    BY DEF InPeriod, Inside, ValueFor
  <2> QED
    BY <2>1, <2>2, <2>3, ResolvedIsAsked
<1>2. tokens = {e \in ToSet(r.words) : ~PassedOver(e, r.grain)} /\ own = Stated(r) \cap tokens
  BY DEF Tokens, Stated
<1> HIDE DEF r
<1> QED
  BY <1>1, <1>2 DEF PeriodIsTheOneAsked, r

(* The partition of a query, and the bounds on its business dates, hold exactly the days
   that the request means: the last month, the last three, a range of days, yesterday;
   over the ends of months and years, in leap years and not, for every request and
   whatever the programs that are checked beside it (parse_temporal_intents). *)
THEOREM PeriodsAreAsked == ProgramSpec => []PeriodIsTheOneAsked
<1>1. ProgramInit => PeriodInv
  BY PeriodInitInv
<1>2. PeriodInv /\ [ProgramNext]_program => PeriodInv'
  BY PeriodKeepsInv
<1>3. PeriodInv => PeriodIsTheOneAsked
  BY AskedPeriods
<1> QED
  BY <1>1, <1>2, <1>3, PTL DEF ProgramSpec

-------------------------------------------------------------------------------
(* One pipeline at a time *)

(* Only a publisher changes what is installed. *)
LEMMA StepsInstallNothing ==
  /\ \A t \in Turns : AgentStep(t) => UNCHANGED installed
  /\ JobStep => UNCHANGED installed
<1>1. ASSUME NEW t \in Turns, AgentStep(t)
      PROVE  UNCHANGED installed
  <2>1. CASE Begin(t) \/ ModelFails(t) \/ ModelAsks(t) \/ ModelReplies(t) \/ CallsExhausted(t)
    BY <2>1, Zenon DEF Begin, ModelFails, ModelAsks, ModelReplies, CallsExhausted, Update
  <2>2. CASE ToolWithoutCatalog(t) \/ ToolReads(t) \/ ToolChecks(t)
    BY <2>2, Zenon DEF ToolWithoutCatalog, ToolReads, ToolChecks, Update
  <2>3. CASE ModelDrafts(t) \/ ModelDelivers(t) \/ CheckDelivery(t)
    BY <2>3, Zenon DEF ModelDrafts, ModelDelivers, CheckDelivery, Update
  <2> QED
    BY <1>1, <2>1, <2>2, <2>3 DEF AgentStep
<1>2. ASSUME JobStep
      PROVE  UNCHANGED installed
  <2>1. CASE BeginJob
    BY <2>1, Zenon DEF BeginJob, Becomes
  <2>2. CASE CallFails \/ CallAsksTools \/ CallAnswers
    BY <2>2, Zenon DEF CallFails, CallAsksTools, CallAnswers, Becomes
  <2>3. CASE SearchMetadata \/ LookupFields \/ CheckScript
    BY <2>3, Zenon DEF SearchMetadata, LookupFields, CheckScript, Becomes
  <2>4. CASE JudgeScript \/ JudgeInference \/ JudgePlan \/ CompareSnapshot
    BY <2>4, Zenon DEF JudgeScript, JudgeInference, JudgePlan, CompareSnapshot, Becomes
  <2> QED
    BY <1>2, <2>1, <2>2, <2>3, <2>4 DEF JobStep
<1> QED
  BY <1>1, <1>2

LEMMA InitDelivers ==
  ASSUME Init
  PROVE  AgentInit /\ LegacyInit /\ GenerationInit
<1> DEFINE p == CHOOSE q \in Processes : TRUE
<1>1. p \in Processes
  BY ProcessAssumption
<1>2. RuntimeInit /\ LegacyInit
  BY DEF Init
<1>3. AgentInit
  <2>1. CASE pipeline = "agent"
    BY <2>1 DEF Init
  <2>2. CASE pipeline # "agent"
    <3>1. agent = [t \in Turns |-> Fresh(p)]
      BY <2>2 DEF Init, NoTurn
    <3> QED
      BY <1>1, <1>2, <3>1 DEF AgentInit
  <2> QED
    BY <2>1, <2>2
<1>4. GenerationInit
  <2>1. CASE pipeline = "service"
    BY <2>1 DEF Init
  <2>2. CASE pipeline # "service"
    <3>1. job = NewJob("plan", p, TRUE)
      BY <2>2 DEF Init, NoJob
    <3> QED
      BY <1>1, <1>2, <3>1 DEF GenerationInit, Kinds
  <2> QED
    BY <2>1, <2>2
<1> QED
  BY <1>2, <1>3, <1>4

LEMMA StepDelivers ==
  ASSUME [Next]_vars
  PROVE  [AgentNext]_agentVars /\ [LegacyNext]_legacy /\ [GenerationNext]_generationVars
<1>1. CASE OnlyAgent /\ AgentNext
  BY <1>1, StepsInstallNothing DEF OnlyAgent, AgentNext, GenerationNext, generationVars
<1>2. CASE OnlyService /\ GenerationNext
  BY <1>2, StepsInstallNothing DEF OnlyService, AgentNext, GenerationNext, agentVars
<1>3. CASE OnlyLegacy /\ LegacyNext
  BY <1>3 DEF OnlyLegacy, agentVars, generationVars
<1>4. CASE UNCHANGED <<installed, agent, legacy, job>>
  BY <1>4 DEF agentVars, generationVars
<1> QED
  BY <1>1, <1>2, <1>3, <1>4 DEF Next, vars, OnlyInference, OnlyProgram, OnlyPackage

(* Whichever pipeline is in use, the agent, the older graph and the services do what
   their specifications say, or nothing; and what is installed under one of them is
   installed under the others. *)
THEOREM PipelinesDeliver == Spec => DeliverySpec
<1>1. Init => AgentInit /\ LegacyInit /\ GenerationInit
  BY InitDelivers
<1>2. [Next]_vars => [AgentNext]_agentVars /\ [LegacyNext]_legacy /\ [GenerationNext]_generationVars
  BY StepDelivers
<1> QED
  BY <1>1, <1>2, PTL DEF Spec, DeliverySpec, AgentSpec, LegacySpec, GenerationSpec

(* What is delivered is sound and the budgets hold also of the whole: nothing one
   pipeline does, and nothing that is installed beside it, reaches into another. *)
THEOREM WholeIsSound == Spec => []DeliveredIsSound
  BY PipelinesDeliver, DeliveriesAreSound, PTL

THEOREM WholeKeepsBudgets ==
  ASSUME 8 + 3 * MaxFixes < NodeLimit
  PROVE  Spec => []BudgetsHold
  BY PipelinesDeliver, BudgetsAreKept, PTL

(* And what a request gets is what it means, beside the other pipelines: the programs are
   those that were asked for, and so are the periods. *)
THEOREM WholeMeansTheRequest == Spec => []QueriesMeanTheRequest
<1>1. Init => ProgramInv /\ PeriodInv
  <2>1. CASE pipeline = "program"
    BY <2>1, ProgramInitInv, PeriodInitInv DEF Init
  <2>2. CASE pipeline # "program"
    BY <2>2 DEF Init, NoProgram, NewProgram, PeriodInv, ProgramInv, ProgramHolds
  <2> QED
    BY <2>1, <2>2
<1>2. (ProgramInv /\ PeriodInv) /\ [Next]_vars => (ProgramInv /\ PeriodInv)'
  <2>1. [Next]_vars => [ProgramNext]_program
    BY DEF Next, vars, OnlyAgent, OnlyLegacy, OnlyService, OnlyInference, OnlyProgram, OnlyPackage
  <2> QED
    BY <2>1, ProgramKeepsInv, PeriodKeepsInv
<1>3. ProgramInv /\ PeriodInv => QueriesMeanTheRequest
  BY IntentIsMeant, AskedPeriods DEF QueriesMeanTheRequest
<1> QED
  BY <1>1, <1>2, <1>3, PTL DEF Spec

(* And what an answer of the model is compiled to is what the answer means, with either
   compiler and whatever the other pipelines do: the theorems on inferred plans, of the
   whole. *)
THEOREM WholeMeansPlan == Spec => []ProgramsComputeTheirPlan
<1>1. Init => PlanInv
  <2>1. CASE pipeline = "inference"
    BY <2>1, PlanStartsInv DEF Init
  <2>2. ASSUME pipeline # "inference", Init
        PROVE  PlanInv
    <3>1. plan = [Waiting(<<>>) EXCEPT !.phase = "none"]
      BY <2>2 DEF Init, NoPlanYet
    <3>2. plan.phase = "none" /\ DOMAIN plan = DOMAIN Waiting(<<>>)
      BY <3>1 DEF Waiting
    <3> QED
      BY <3>2 DEF PlanInv, PlanHolds
  <2> QED
    BY <2>1, <2>2
<1>2. PlanInv /\ [Next]_vars => PlanInv'
  <2>1. [Next]_vars => [InferenceNext]_plan
    BY DEF Next, vars, OnlyAgent, OnlyLegacy, OnlyService, OnlyInference, OnlyProgram, OnlyPackage
  <2> QED
    BY <2>1, PlanKeepsInv
<1>3. PlanInv => ProgramsComputeTheirPlan
  BY CompiledIsMeant, OlderAgrees DEF ProgramsComputeTheirPlan
<1> QED
  BY <1>1, <1>2, <1>3, PTL DEF Spec

(* And whatever the pipelines do, the catalog a package is loaded into can be planned
   with: the theorem on packages, of the whole. *)
THEOREM WholeIsUsable == Spec => []LoadedIsUsable
<1>1. Init => PackageIsRead
  <2>1. CASE pipeline = "package"
    BY <2>1, PackageStartsRead DEF Init
  <2>2. ASSUME pipeline # "package", Init
        PROVE  PackageIsRead
    <3>1. WellWritten({})
      BY FS_EmptySet DEF WellWritten
    <3> QED
      BY <2>2, <3>1 DEF Init, NoPackage, NewPackage, PackageIsRead
  <2> QED
    BY <2>1, <2>2
<1>2. PackageIsRead /\ [Next]_vars => PackageIsRead'
  <2>1. [Next]_vars => [PackageNext]_package
    BY DEF Next, vars, OnlyAgent, OnlyLegacy, OnlyService, OnlyInference, OnlyProgram, OnlyPackage
  <2> QED
    BY <2>1, PackageStaysRead
<1>3. PackageIsRead => LoadedIsUsable
  BY ReadIsUsable
<1> QED
  BY <1>1, <1>2, <1>3, PTL DEF Spec

(* And, whatever the pipelines do, the catalog loaded from a draft says what the draft
   says: the theorem on a draft's package, of the whole. *)
THEOREM WholeMeansDraft == Spec => []PackageMeansDraft
<1> DEFINE PackageInv == PackageIsRead /\ DraftIsKept
<1>1. Init => PackageInv
  <2>1. CASE pipeline = "package"
    BY <2>1, PackageStartsRead, DraftStartsKept DEF Init
  <2>2. ASSUME pipeline # "package", Init
        PROVE  PackageInv
    <3>1. WellWritten({})
      BY FS_EmptySet DEF WellWritten
    <3>2. package = NewPackage(NoDraft, {}, "none")
      BY <2>2 DEF Init, NoPackage
    <3>3. PackageIsRead
      BY <3>1, <3>2 DEF NewPackage, PackageIsRead
    <3>4. DraftIsKept
      BY <3>2 DEF NewPackage, DraftIsKept
    <3> QED
      BY <3>3, <3>4
  <2> QED
    BY <2>1, <2>2
<1>2. PackageInv /\ [Next]_vars => PackageInv'
  <2>1. [Next]_vars => [PackageNext]_package
    BY DEF Next, vars, OnlyAgent, OnlyLegacy, OnlyService, OnlyInference, OnlyProgram, OnlyPackage
  <2> QED
    BY <2>1, PackageStaysRead, DraftStaysKept
<1>3. PackageInv => PackageMeansDraft
  BY ReadIsUsable, KeptIsLoaded DEF PackageMeansDraft
<1> QED
  BY <1>1, <1>2, <1>3, PTL DEF Spec

-------------------------------------------------------------------------------
(* Types *)

WholeInv == pipeline \in Pipelines /\ AgentInv /\ LegacyInv /\ JobInv

LEMMA WholeTypes ==
  ASSUME WholeInv
  PROVE  TypeOK
<1>1. AgentTypeOK
  BY SoundTurns DEF WholeInv
<1>2. legacy \in LegacyRecords /\ legacy.retries <= MaxFixes
  BY DEF WholeInv, LegacyInv, LegacyProgress
<1>3. LegacyTypeOK
  <2>1. legacy.retries \in 0 .. MaxFixes
    BY <1>2, LegacyAssumption DEF LegacyRecords
  <2> QED
    BY <1>2, <2>1 DEF LegacyTypeOK, LegacyRecords, LegacyStates
<1>4. job \in JobRecords /\ job.round <= ToolRounds /\ job.pending <= MaxBatch
  BY GenerationAssumption DEF WholeInv, JobInv, JobOpen, JobClosed, Counted
<1>5. GenerationTypeOK
  <2>1. job.round \in 0 .. ToolRounds /\ job.pending \in 0 .. MaxBatch
    BY <1>4, GenerationAssumption DEF JobRecords
  <2> QED
    BY <1>4, <2>1 DEF GenerationTypeOK, Jobs, JobRecords, JobPhases, JobOutputs
<1> QED
  BY <1>1, <1>3, <1>5 DEF TypeOK, WholeInv

(* Every variable of the pipelines keeps its type, the bounds of the counters included:
   rounds, repairs and batches never run over (MAX_FIX_RETRIES, max_rounds). *)
THEOREM WholeTypeOK == Spec => []TypeOK
<1>1. Init => WholeInv
  BY InitDelivers, AgentInitInv, LegacyInitInv, JobInitInv DEF Init, WholeInv
<1>2. WholeInv /\ [Next]_vars => WholeInv'
  <2>1. [Next]_vars => UNCHANGED pipeline
    BY DEF Next, vars, OnlyAgent, OnlyLegacy, OnlyService, OnlyInference, OnlyProgram, OnlyPackage
  <2> QED
    BY <2>1, StepDelivers, AgentKeepsInv, LegacyKeepsInv, JobKeepsInv DEF WholeInv
<1>3. WholeInv => TypeOK
  BY WholeTypes
<1> QED
  BY <1>1, <1>2, <1>3, PTL DEF Spec
===============================================================================
