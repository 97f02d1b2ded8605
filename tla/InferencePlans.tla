------------------------------ MODULE InferencePlans ------------------------------
(***************************************************************************)
(* The answer of a model that is asked for a plan: validated against the   *)
(* published metadata (inference_validation.py), turned into a relational  *)
(* plan whose joins form a tree (inference_to_relational.py) and compiled  *)
(* (relational_compiler.py).  The older compiler of the same answers       *)
(* (inference_compiler.py) is here too: the two must say the same.         *)
(*                                                                         *)
(* A field is <<table, name>>.  A family is a set of tables of one shape   *)
(* that stand for one source; Key gives the source of a table.             *)
(***************************************************************************)
EXTENDS RelationalPlans, Checks
LOCAL INSTANCE SequencesExt
Lists == INSTANCE SequencesExt \* its operators under names other modules can use

CONSTANTS
  Members,   \* the tables of each family of the candidate context
  SourceOf,  \* the data source of each table
  Hive,      \* the data sources that are compiled for
  Published, \* the data sources of the installed ontology
  Policied,  \* the tables with a rule for their partition, its field being "p"
  Evidence,  \* the pairs of fields for which there is evidence of a relation
  TestWorlds, \* the worlds that are tried
  Drafts     \* the answers of the model that are looked at

(* What the models of an answer demand, and what tells names apart: the reference of a
   family is a digest of its members, and no table is called Null. *)
ASSUME AnswerAssumption ==
  /\ Null \notin Tables /\ DOMAIN Members \cap Tables = {}
  /\ IsFiniteSet(Tables) /\ IsFiniteSet(DOMAIN Members)
  /\ \A d \in Drafts :
       /\ d.requested \in Seq(ToSet(d.requested)) /\ d.groups \in Seq(ToSet(d.groups))
       /\ d.sums \in Seq(ToSet(d.sums)) /\ d.joins \in Seq(ToSet(d.joins))
       /\ d.filters \in Seq(ToSet(d.filters))
       /\ \A i \in ToSet(d.filters) : i.leaves # {} /\ IsFiniteSet(i.leaves) /\ i.scope \in {"match", "where"}
       /\ \A j \in ToSet(d.joins) : j.type \in {"inner", "left", "anti"}

VARIABLE plan \* [phase, draft, code, root, visited, unused, nodes, carried, current, todo, program]

(* Tables of the context, whatever the draft names. *)
Known(f)     == f[1] \in Tables /\ f[2] \in FieldsOf[f[1]]
FamilyOf(d)  == [o \in UNION {Members[f] : f \in d.families} |->
                   CHOOSE f \in d.families : o \in Members[f]]
Key(d, o)    == IF o \in DOMAIN FamilyOf(d) THEN FamilyOf(d)[o] ELSE o
Selected(d)  == d.objects \cup DOMAIN FamilyOf(d)
Sources(d)   == {Key(d, o) : o \in Selected(d)}
Left(d, j)   == Key(d, j.left[1])
Right(d, j)  == Key(d, j.right[1])
Directed(d)  == {j \in DOMAIN d.joins : d.joins[j].type # "inner"}
DirectedRights(d) == {Right(d, d.joins[j]) : j \in Directed(d)}
AntiRights(d) == {Right(d, d.joins[j]) : j \in {i \in Directed(d) : d.joins[i].type = "anti"}}
FilterSources(d, item) == {Key(d, f[1]) : f \in item.leaves}

-------------------------------------------------------------------------------
(* join_semantics_error *)
JoinsMakeSense(d) ==
  \A j \in Directed(d) :
    LET r == Right(d, d.joins[j])
        named(i) == r \in {Left(d, d.joins[i]), Right(d, d.joins[i])}
    IN /\ Left(d, d.joins[j]) # r
       /\ \A i \in Directed(d) \ {j} : Right(d, d.joins[i]) # r
       /\ d.joins[j].type = "anti" =>
            /\ \A f \in ToSet(d.requested) : Key(d, f[1]) # r
            /\ \A i \in DOMAIN d.joins \ {j} : ~named(i)

(* _connected, which grows a set of sources along the edges until it stays. *)
Connected(d) ==
  LET edges == {{Left(d, d.joins[j]), Right(d, d.joins[j])} : j \in DOMAIN d.joins}
      grow[n \in 0 .. Cardinality(Sources(d))] ==
        IF n = 0 THEN {CHOOSE s \in Sources(d) : TRUE}
        ELSE grow[n - 1] \cup UNION {e \in edges : e \cap grow[n - 1] # {}}
  IN grow[Cardinality(Sources(d))] = Sources(d)

(* MetadataInferenceValidator.validate: the first check that fails names the refusal. *)
PlainChecks(d) == <<
  <<"incomplete_inferred_semantics", ~d.blocking>>,
  <<"candidate_snapshot_changed", ~d.stale>>,
  <<"unknown_object_ref", d.objects \subseteq Tables>>,
  <<"unknown_family_ref", d.families \subseteq DOMAIN Members>>,
  <<"incomplete_candidate_family",
      \A f \in d.families \cap DOMAIN Members : Members[f] \subseteq Tables>> >>

BoundChecks(d) ==
  LET chosen(f) == Known(f) /\ f[1] \in Selected(d)
      joins == ToSet(d.joins)
  IN <<
  <<"cross_source_candidate", Cardinality({SourceOf[o] : o \in Selected(d)}) = 1>>,
  <<"candidate_source_unavailable", \A o \in Selected(d) : SourceOf[o] \in Published>>,
  <<"field_ownership_mismatch", \A f \in ToSet(d.requested) : chosen(f)>>,
  <<"invalid_join_reference", \A j \in joins : chosen(j.left) /\ chosen(j.right)>>,
  <<"incompatible_join_types", \A j \in joins : TypeOf[j.left[2]] = TypeOf[j.right[2]]>>,
  <<"unsupported_join_evidence",
      \A j \in joins : {<<j.left, j.right>>, <<j.right, j.left>>} \cap Evidence # {}>>,
  <<"unsupported_join_semantics", JoinsMakeSense(d)>>,
  <<"missing_candidate_join", Connected(d)>>,
  <<"invalid_filter_reference", \A i \in ToSet(d.filters) : \A f \in i.leaves : chosen(f)>>,
  <<"unsupported_filter_value", \A i \in ToSet(d.filters) : i.basis>>,
  <<"ambiguous_boolean_scope",
      \A i \in ToSet(d.filters) : i.scope = "match" => Cardinality({f[1] : f \in i.leaves}) = 1>>,
  <<"invalid_group_reference", \A f \in ToSet(d.groups) : chosen(f)>>,
  <<"invalid_aggregation_reference", \A a \in ToSet(d.sums) : chosen(a)>>,
  <<"incompatible_aggregation_type", \A a \in ToSet(d.sums) : TypeOf[a[2]] = "numeric">>,
  <<"invalid_aggregate_projection",
      d.sums = <<>> \/ ToSet(d.requested) \subseteq ToSet(d.groups)>>,
  <<"missing_temporal_policy", Selected(d) \subseteq Policied>>,
  <<"missing_partition_field", \A o \in Selected(d) : Known(<<o, "p">>)>>,
  <<"unsafe_candidate_time", d.bounded>> >>

Diagnosis(d) ==
  IF FirstFailure(PlainChecks(d)) = "ok" THEN FirstFailure(BoundChecks(d)) ELSE FirstFailure(PlainChecks(d))

-------------------------------------------------------------------------------
(* InferenceRelationalAdapter: the fields that are needed, and for a family those
   of every member under the same names. *)
NeededFields(d) ==
  LET said == ToSet(d.requested) \cup ToSet(d.groups) \cup ToSet(d.sums)
              \cup {j.left : j \in ToSet(d.joins)} \cup {j.right : j \in ToSet(d.joins)}
              \cup (UNION {i.leaves : i \in ToSet(d.filters)})
              \cup {<<o, "p">> : o \in Selected(d)}
      alike(o, f) == o = f[1] \/ (o \in DOMAIN FamilyOf(d) /\ Key(d, o) = Key(d, f[1]))
  IN {<<o, f[2]>> : o \in Selected(d), f \in said} \cap
     UNION {{<<o, f[2]>> : o \in {x \in Selected(d) : alike(x, f)}} : f \in said}

FieldsOfSource(d, s) == {f \in NeededFields(d) : Key(d, f[1]) = s}
ColumnsOfSource(d, s) == Lists!SetToSeq({<<s, f[2]>> : f \in FieldsOfSource(d, s)})
Column(d, f) == <<Key(d, f[1]), f[2]>>

ItemTest(d, item)  == [op |-> item.op, reads |-> {Column(d, f) : f \in item.leaves}]
PeriodTest(d, o)   == [op |-> "period", reads |-> {<<Key(d, o), "p">>}]

(* What can be tested while a table is scanned: the filters of its source and its
   period, unless the source is the right side of a left or anti join; the period
   of the members of a family always. *)
ScanTests(d, o) ==
  {ItemTest(d, i) : i \in {x \in ToSet(d.filters) :
     FilterSources(d, x) = {Key(d, o)} /\ Key(d, o) \notin DirectedRights(d)}}
  \cup (IF o \in DirectedRights(d) THEN {} ELSE {PeriodTest(d, o)})

NoNode == [id |-> <<>>, kind |-> "none", inputs |-> <<>>, columns |-> <<>>, tests |-> {},
           match |-> {}, join |-> "inner", strategy |-> "left_join", on |-> <<>>,
           table |-> "none", step |-> "intermediate"]
Copied(names, from) == [i \in DOMAIN names |-> [name |-> names[i], node |-> from, from |-> names[i]]]

ScanNodes(d, o) ==
  LET names == ColumnsOfSource(d, Key(d, o))
      scan == [NoNode EXCEPT !.id = <<"scan", o>>, !.kind = "scan", !.table = o,
                             !.columns = Copied(names, "table")]
      tests == ScanTests(d, o)
  IN IF tests = {} THEN <<scan>>
     ELSE <<scan, [NoNode EXCEPT !.id = <<"filter", o>>, !.kind = "filter",
                                 !.inputs = <<scan.id>>, !.tests = tests]>>

FamilyNodes(d, f) ==
  LET members == Lists!SetToSeq(Members[f])
      union == [NoNode EXCEPT !.id = <<"union", f>>, !.kind = "union",
                  !.inputs = [i \in DOMAIN members |-> Last(ScanNodes(d, members[i])).id],
                  !.columns = Copied(ColumnsOfSource(d, f), "inputs")]
  IN <<union, [NoNode EXCEPT !.id = <<"family", f>>, !.kind = "materialize", !.inputs = <<union.id>>]>>

SourceNodes(d) ==
  LET tables == Lists!SetToSeq(Selected(d)) families == Lists!SetToSeq(d.families)
  IN FlattenSeq([i \in DOMAIN tables |-> ScanNodes(d, tables[i])])
     \o FlattenSeq([i \in DOMAIN families |-> FamilyNodes(d, families[i])])

NodeOfSource(d, s) == IF s \in d.families THEN <<"family", s>> ELSE Last(ScanNodes(d, s)).id

(* The source the tree grows from: that of the first requested field that is not the
   right side of a left or anti join, else the first such source. *)
Roots(d) == Sources(d) \ DirectedRights(d)
Root(d) ==
  LET asked == {i \in DOMAIN d.requested : Key(d, d.requested[i][1]) \in Roots(d)}
  IN IF asked = {} THEN Lists!SetToSeq(Roots(d))[1]
     ELSE Key(d, d.requested[CHOOSE i \in asked : \A j \in asked : i <= j][1])

(* Why a valid answer may still have no plan. *)
Convertible(d) ==
  /\ \A j \in ToSet(d.joins) : Left(d, j) # Right(d, j)
  /\ \A f \in NeededFields(d) : Known(f)
  /\ Roots(d) # {}

-------------------------------------------------------------------------------
Waiting(d) == [phase |-> "draft", draft |-> d, code |-> "ok", visited |-> {}, unused |-> {},
               nodes |-> <<>>, carried |-> <<>>, current |-> <<>>, statements |-> <<>>]
PlanInit == plan \in {Waiting(d) : d \in Drafts}
Refused(code) == plan' = [plan EXCEPT !.phase = "done", !.code = code]
InPlan(phase) == plan.phase = phase

(* Validation, then the sources of the plan. *)
ValidateDraft ==
  /\ InPlan("draft")
  /\ LET d == plan.draft
     IN IF Diagnosis(d) # "ok" THEN Refused(Diagnosis(d))
        ELSE IF ~Convertible(d) THEN Refused("not_convertible")
        ELSE plan' = [plan EXCEPT !.phase = "join", !.visited = {Root(d)}, !.unused = DOMAIN d.joins,
                                  !.nodes = SourceNodes(d), !.carried = ColumnsOfSource(d, Root(d)),
                                  !.current = NodeOfSource(d, Root(d))]

(* The joins that can extend the tree; only inner ones can be used backwards. *)
Extends(d, j) ==
  LET remaining == Sources(d) \ plan.visited
      join == d.joins[j]
  IN IF Left(d, join) \in plan.visited /\ Right(d, join) \in remaining THEN "forward"
     ELSE IF join.type = "inner" /\ Right(d, join) \in plan.visited /\ Left(d, join) \in remaining
             /\ Left(d, join) \notin DirectedRights(d) THEN "backward"
     ELSE "no"

(* A mutant: the right side of a left or anti join is not bounded in time. *)
MatchTestsWithoutPeriod(d, s) ==
  {ItemTest(d, i) : i \in {x \in ToSet(d.filters) : FilterSources(d, x) = {s} /\ x.scope = "match"}}

(* What is tested while rows are matched: the filters of that scope and the period
   of the right side of a left or anti join. *)
MatchTests(d, s) ==
  {ItemTest(d, i) : i \in {x \in ToSet(d.filters) : FilterSources(d, x) = {s} /\ x.scope = "match"}}
  \cup (IF s \in d.families THEN {} ELSE {PeriodTest(d, s)})

JoinWith(d, j, on, input) ==
  LET join == d.joins[j]
      new == on[2][1]
      added == IF join.type = "anti" THEN <<>> ELSE ColumnsOfSource(d, new)
      node == [NoNode EXCEPT !.id = <<"join", j>>, !.kind = "join",
                 !.inputs = <<plan.current, input>>, !.join = join.type,
                 !.strategy = join.strategy, !.on = on,
                 !.match = IF join.type = "inner" THEN {} ELSE MatchTests(d, new),
                 !.columns = Copied(plan.carried, plan.current) \o Copied(added, input)]
  IN IF \/ join.type = "inner" /\ new \in DirectedRights(d)
        \/ /\ join.type # "inner" /\ new \in AntiRights(d)
           /\ \E i \in ToSet(d.filters) : i.scope = "where" /\ new \in FilterSources(d, i)
     THEN Refused("not_convertible")
     ELSE plan' = [plan EXCEPT !.visited = @ \cup {new}, !.unused = @ \ {j},
                               !.nodes = Append(@, node), !.current = <<"join", j>>,
                               !.carried = @ \o added]

AddJoin ==
  /\ InPlan("join") /\ plan.visited # Sources(plan.draft)
  /\ LET d == plan.draft
         ways == {j \in plan.unused : Extends(d, j) # "no"}
         take(j, on) == JoinWith(d, j, on, NodeOfSource(d, on[2][1]))
         ends(j) == IF Extends(d, j) = "forward" THEN <<d.joins[j].left, d.joins[j].right>>
                    ELSE <<d.joins[j].right, d.joins[j].left>>
     IN IF ways = {} THEN Refused("no_join_tree")
        ELSE \E j \in {i \in ways : \A k \in ways : i <= k} :
               take(j, <<Column(d, ends(j)[1]), Column(d, ends(j)[2])>>)

(* What is left for after the joins. *)
PostTests(d) ==
  {ItemTest(d, i) : i \in {x \in ToSet(d.filters) :
     /\ x.scope = "where"
     /\ FilterSources(d, x) \cap DirectedRights(d) # {} \/ Cardinality(FilterSources(d, x)) > 1}}

(* The output has the physical names of the fields. *)
Shaped(d, from) ==
  LET derived(fields) == [i \in DOMAIN fields |->
                            [name |-> <<fields[i][2]>>, node |-> from, from |-> Column(d, fields[i])]]
      sums == [i \in DOMAIN d.sums |->
                 [name |-> <<"sum", i>>, node |-> from, from |-> Column(d, d.sums[i])]]
  IN IF d.sums = <<>>
     THEN [NoNode EXCEPT !.id = <<"project">>, !.kind = "project", !.inputs = <<from>>,
                         !.columns = derived(d.requested)]
     ELSE [NoNode EXCEPT !.id = <<"aggregate">>, !.kind = "aggregate", !.inputs = <<from>>,
                         !.columns = derived(d.groups) \o sums]

(* The rest of the plan, which must meet the contract and have a compiler. *)
FinishPlan ==
  /\ InPlan("join") /\ plan.visited = Sources(plan.draft)
  /\ LET d == plan.draft
         tests == PostTests(d)
         filter == [NoNode EXCEPT !.id = <<"filter">>, !.kind = "filter", !.inputs = <<plan.current>>,
                                  !.tests = tests]
         filtered == IF tests = {} THEN <<>> ELSE <<filter>>
         shape == Shaped(d, IF tests = {} THEN plan.current ELSE <<"filter">>)
         nodes == plan.nodes \o filtered \o
                  <<shape, [NoNode EXCEPT !.id = <<"result">>, !.kind = "materialize",
                                          !.inputs = <<shape.id>>, !.step = "result"]>>
     IN IF plan.unused # {} THEN Refused("not_convertible")
        ELSE IF ~ContractHolds(nodes) THEN Refused("contract")
        ELSE IF \E o \in Selected(d) : SourceOf[o] \notin Hive THEN Refused("dialect")
        ELSE plan' = [plan EXCEPT !.phase = "compile", !.nodes = nodes]

(* HiveRelationalCompiler.compile, one statement at a time. *)
CompileStatement ==
  /\ InPlan("compile")
  /\ LET todo == Materialized(plan.nodes)
         s == Statement(plan.nodes, todo[Len(plan.statements) + 1])
     IN IF ~CanCreate(s, {x.target : x \in ToSet(plan.statements)}) THEN Refused("order")
        ELSE plan' = [plan EXCEPT !.statements = Append(@, s),
                                  !.phase = IF s.target = <<"result">> THEN "done" ELSE "compile"]

InferenceNext == ValidateDraft \/ AddJoin \/ FinishPlan \/ CompileStatement
InferenceSpec == PlanInit /\ [][InferenceNext]_plan

-------------------------------------------------------------------------------
(* HiveInferenceCompiler, which makes one query of all sources but the families.
   Its joins, in the order it takes them, or <<>> when it finds no tree. *)
LogicalKeys(d) == Lists!SetToSeq(d.families) \o Lists!SetToSeq(Sources(d) \ d.families)
DirectRoot(d)  == Those(LogicalKeys(d), Roots(d))[1]

(* The steps there are after some: a join that is not used yet and leads to a new source. *)
DirectSteps(d, before) ==
  LET visited == {DirectRoot(d)} \cup {s.new : s \in ToSet(before)}
      forward(j) == [join |-> j, from |-> Left(d, d.joins[j]), new |-> Right(d, d.joins[j])]
      backward(j) == [join |-> j, from |-> Right(d, d.joins[j]), new |-> Left(d, d.joins[j])]
      unused == DOMAIN d.joins \ {s.join : s \in ToSet(before)}
      inner == {j \in unused : d.joins[j].type = "inner" /\ Left(d, d.joins[j]) \notin DirectedRights(d)}
  IN {s \in {forward(j) : j \in unused} \cup {backward(j) : j \in inner} :
        s.from \in visited /\ s.new \notin visited}

DirectOrder(d) ==
  LET taken[n \in 0 .. Len(d.joins)] ==
        IF n = 0 THEN <<>>
        ELSE LET steps == DirectSteps(d, taken[n - 1])
             IN IF steps = {} THEN taken[n - 1]
                ELSE Append(taken[n - 1], CHOOSE s \in steps : \A t \in steps : s.join <= t.join)
  IN taken[Len(d.joins)]

(* It takes no trees of conditions, and refuses what it cannot place. *)
DirectCompiles(d) ==
  /\ JoinsMakeSense(d) /\ d.sums = <<>> /\ Roots(d) # {}
  /\ \A i \in ToSet(d.filters) : Cardinality(i.leaves) = 1 /\ i.op \in {"all", "is_null"}
  /\ \A i \in ToSet(d.filters) : i.scope = "where" => FilterSources(d, i) \cap AntiRights(d) = {}
  /\ Len(DirectOrder(d)) = Len(d.joins) /\ Len(d.joins) = Cardinality(Sources(d)) - 1
  /\ \A s \in ToSet(DirectOrder(d)) :
       d.joins[s.join].type = "inner" => s.new \notin DirectedRights(d)

(* The rows of a source, what is tested where it is joined, and what is tested after. *)
SourceRows(d, s, w) ==
  {[x \in {s} |-> o] : o \in {m \in Selected(d) : /\ Key(d, m) = s /\ w[m] # "none"
                                                  /\ s \in d.families => w[m] # "out"}}
ScopedTests(d, s) ==
  {ItemTest(d, i) : i \in {x \in ToSet(d.filters) :
     FilterSources(d, x) = {s} /\ s \in DirectedRights(d) /\ x.scope = "match"}}
  \cup (IF s \in DirectedRights(d) \ d.families THEN {PeriodTest(d, s)} ELSE {})
WhereTests(d) ==
  {ItemTest(d, i) : i \in {x \in ToSet(d.filters) :
     ~(FilterSources(d, x) \subseteq DirectedRights(d) /\ x.scope = "match")}}
  \cup {PeriodTest(d, s) : s \in Sources(d) \ (DirectedRights(d) \cup d.families)}

(* The joins of FROM; an anti join may be a NOT EXISTS of WHERE instead. *)
InWhere(d, s) == d.joins[s.join].type = "anti" /\ d.joins[s.join].strategy = "not_exists"
DirectJoin(d, s) ==
  [join |-> IF d.joins[s.join].type = "inner" THEN "inner" ELSE "left", strategy |-> "left_join",
   on |-> <<<<s.from, "k">>, <<s.new, "k">>>>, match |-> ScopedTests(d, s.new)]
DirectFrom(d, w) ==
  LET order == DirectOrder(d)
      upto[n \in 0 .. Len(order)] ==
        IF n = 0 THEN SourceRows(d, DirectRoot(d), w)
        ELSE LET s == order[n]
             IN IF InWhere(d, s) THEN upto[n - 1]
                ELSE JoinRows(DirectJoin(d, s), upto[n - 1], SourceRows(d, s.new, w), {s.new}, w)
  IN upto[Len(order)]

DirectRows(d, w) ==
  LET excludes(s, r) ==
        IF InWhere(d, s)
        THEN r[s.from] = Null \/ ~\E x \in SourceRows(d, s.new, w) : Holds(ScopedTests(d, s.new), x, w)
        ELSE r[s.new] = Null
  IN {OnlyFor(r, Sources(d) \ AntiRights(d)) : r \in {x \in DirectFrom(d, w) :
        /\ Holds(WhereTests(d), x, w)
        /\ \A s \in ToSet(DirectOrder(d)) : d.joins[s.join].type = "anti" => excludes(s, x)}}

-------------------------------------------------------------------------------
(* What an answer asks for, whatever the order of its joins: an assignment of rows
   to the sources that are kept.  Left and anti joins look for matches within the
   period and the filters of that scope; all other filters hold of the row. *)
Meaning(d, w) ==
  LET there(s) == {o \in Selected(d) : Key(d, o) = s /\ w[o] \notin {"none", "out"}}
      scoped(i, s) == FilterSources(d, i) = {s} /\ i.scope = "match"
      matching(s) == {o \in there(s) : \A i \in ToSet(d.filters) :
                        scoped(i, s) => Truth(ItemTest(d, i), [x \in {s} |-> o], w) = "T"}
      kept == Sources(d) \ AntiRights(d)
      found(r, j) == IF r[Left(d, j)] = Null THEN {} ELSE matching(Right(d, j))
  IN {r \in [kept -> Selected(d) \cup {Null}] :
        /\ \A s \in kept : r[s] \in there(s) \cup {Null}
        /\ \A s \in kept \ DirectedRights(d) : r[s] # Null
        /\ \A j \in ToSet(d.joins) :
             CASE j.type = "inner" -> r[Left(d, j)] # Null /\ r[Right(d, j)] # Null
               [] j.type = "left" -> IF found(r, j) = {} THEN r[Right(d, j)] = Null
                                     ELSE r[Right(d, j)] \in found(r, j)
               [] OTHER -> found(r, j) = {}
        /\ \A i \in ToSet(d.filters) :
             (\A s \in DirectedRights(d) : ~scoped(i, s)) => Truth(ItemTest(d, i), r, w) = "T"}

(* The worlds that differ for a draft. *)
WorldsOf(d) == {w \in TestWorlds : \A o \in Tables \ Selected(d) : w[o] = "none"}

(* Whatever is compiled computes what the answer asks for, with either compiler. *)
CompiledMeansPlan ==
  (plan.phase = "done" /\ plan.code = "ok") =>
    \A w \in WorldsOf(plan.draft) : Execute(plan.statements, w) = Meaning(plan.draft, w)

OlderCompilerAgrees ==
  (plan.phase = "done" /\ plan.code = "ok" /\ DirectCompiles(plan.draft)) =>
    \A w \in WorldsOf(plan.draft) : DirectRows(plan.draft, w) = Meaning(plan.draft, w)
===============================================================================
