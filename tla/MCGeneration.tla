------------------------------ MODULE MCGeneration ------------------------------
(* Instances of Generation for TLC. *)
EXTENDS Generation
LOCAL INSTANCE SequencesExt

CONSTANTS n1, n2
TwoSchemas == {{n1}, {n1, n2}}

-------------------------------------------------------------------------------
(* Two plain tables, and a family of which one table has fewer fields. *)
MCFields == [o \in {"a", "b", "c", "d", "x", "y", "z"} |->
               CASE o = "d" -> {"k", "p"} [] o = "z" -> {"k"} [] OTHER -> {"k", "v", "p"}]
MCTypes == [n \in {"k", "v", "p"} |-> IF n = "v" THEN "numeric" ELSE "text"]
MCMembers == [f \in {"f", "g"} |-> IF f = "f" THEN {"c", "d"} ELSE {"c", "e"}]
MCSource == [o \in DOMAIN MCFields |->
               CASE o = "x" -> "unpublished" [] o = "y" -> "other" [] OTHER -> "warehouse"]
MCEvidence == {<<<<m, "k">>, <<n, "k">>>> : m, n \in {"a", "b", "c", "d"}}
MCWorlds ==
  LET world(a, b, c, d) == [o \in DOMAIN MCFields |->
        CASE o = "a" -> a [] o = "b" -> b [] o = "c" -> c [] o = "d" -> d [] OTHER -> "none"]
      Row == {"none", "good", "off", "out"}
  IN {world("good", b, c, "none") : b \in Row, c \in Row}
     \cup {world(a, "good", "good", "none") : a \in {"none", "out"}}
     \cup {world("good", b, "good", "good") : b \in {"none", "good"}}

K(o) == <<o, "k">>
JoinOf(l, r, t) == [left |-> K(l), right |-> K(r), type |-> t,
                    strategy |-> IF r = "b" THEN "not_exists" ELSE "left_join"]
JoinsOf(S) == {JoinOf(l, r, t) : l \in S, r \in S, t \in {"inner", "left", "anti"}}
FilterOf(scope, op, S) == [scope |-> scope, op |-> op, leaves |-> {K(o) : o \in S}, basis |-> TRUE]
AnswerOf(objects, families, first, joins, filters) ==
  [objects |-> objects, families |-> families, requested |-> <<K(first)>>, joins |-> joins,
   filters |-> filters, groups |-> <<>>, sums |-> <<>>, blocking |-> FALSE, stale |-> FALSE,
   bounded |-> TRUE]

(* Trees of three sources with at most one condition, and what is not a tree. *)
Trees ==
  {d \in {AnswerOf({"a", "b"}, {"f"}, "a", <<j, k>>, fs) :
            j, k \in JoinsOf({"a", "b", "c"}),
            fs \in {<<>>, <<FilterOf("match", "all", {"b"})>>, <<FilterOf("where", "is_null", {"c"})>>,
                    <<FilterOf("where", "any", {"b", "c"})>>}} :
     d.joins[1].left # d.joins[1].right /\ JoinsMakeSense(d) /\ Connected(d)}

(* One thing wrong, or another shape, at a time. *)
GoodAnswer == AnswerOf({"a", "b"}, {}, "a", <<JoinOf("a", "b", "left")>>, <<FilterOf("where", "all", {"a"})>>)
OnlyTable(o) == AnswerOf({o}, {}, o, <<>>, <<>>)
Deviations == {
  GoodAnswer, [GoodAnswer EXCEPT !.blocking = TRUE], [GoodAnswer EXCEPT !.stale = TRUE], [GoodAnswer EXCEPT !.bounded = FALSE],
  [GoodAnswer EXCEPT !.objects = {"a", "unknown"}], [GoodAnswer EXCEPT !.families = {"h"}],
  [GoodAnswer EXCEPT !.families = {"g"}], [GoodAnswer EXCEPT !.objects = @ \cup {"y"}], OnlyTable("x"), OnlyTable("y"), OnlyTable("z"),
  [GoodAnswer EXCEPT !.requested = <<K("c")>>], [GoodAnswer EXCEPT !.requested = <<K("a"), K("b")>>],
  [GoodAnswer EXCEPT !.joins[1].right = K("c")], [GoodAnswer EXCEPT !.joins[1].left = <<"a", "v">>],
  [GoodAnswer EXCEPT !.joins[1].left = <<"a", "p">>], [GoodAnswer EXCEPT !.joins[1].type = "anti", !.requested = <<K("b")>>],
  [GoodAnswer EXCEPT !.joins = <<>>], [GoodAnswer EXCEPT !.joins = <<JoinOf("a", "b", "inner"), JoinOf("b", "a", "inner")>>],
  [GoodAnswer EXCEPT !.joins = <<JoinOf("a", "b", "left"), JoinOf("b", "a", "left")>>],
  [GoodAnswer EXCEPT !.joins[1].type = "anti", !.filters = <<FilterOf("where", "all", {"b"})>>],
  [GoodAnswer EXCEPT !.filters = <<FilterOf("where", "all", {"c"})>>],
  [GoodAnswer EXCEPT !.filters = <<[FilterOf("where", "all", {"a"}) EXCEPT !.basis = FALSE]>>],
  [GoodAnswer EXCEPT !.filters = <<FilterOf("match", "all", {"a", "b"})>>],
  [GoodAnswer EXCEPT !.sums = <<<<"a", "v">>>>, !.groups = <<K("a")>>], [GoodAnswer EXCEPT !.sums = <<<<"a", "v">>>>],
  [GoodAnswer EXCEPT !.sums = <<K("a")>>, !.groups = <<K("a")>>], [GoodAnswer EXCEPT !.sums = <<<<"c", "v">>>>],
  [GoodAnswer EXCEPT !.groups = <<K("c")>>],
  AnswerOf({}, {"f"}, "c", <<>>, <<FilterOf("where", "all", {"c"})>>),
  [AnswerOf({}, {"f"}, "c", <<>>, <<>>) EXCEPT !.requested = <<<<"c", "v">>>>],
  AnswerOf({"a"}, {"f"}, "a", <<JoinOf("c", "d", "inner"), JoinOf("a", "c", "inner")>>, <<>>)}
MCDrafts == Trees \cup Deviations

-------------------------------------------------------------------------------
(* Three concepts: orders by month, customers by day, shops without a partition. *)
MCPolicy == [c \in {"X", "Y", "Z"} |->
  CASE c = "X" -> PolicyOf("M", {<<"xp", "P_MON">>, <<"xa", "AMOUNT">>}, NoPolicy)
    [] c = "Y" -> PolicyOf("D", {<<"yp", "P_DAY">>}, NoPolicy)
    [] c = "Z" -> PolicyOf("T", {}, NoPolicy)]
Shop ==
  [concepts |-> <<"X", "Y", "Z">>,
   short |-> [c \in {"X", "Y", "Z"} |-> CASE c = "X" -> "order" [] c = "Y" -> "customer" [] c = "Z" -> "shop"],
   label |-> [c \in {"X", "Y", "Z"} |-> IF c = "X" THEN "Order" ELSE "Party"],
   weight |-> [x \in {"order", "customer", "shop", "Order", "Party"} |-> IF x = "Party" THEN 2 ELSE 1],
   props |-> [c \in {"X", "Y", "Z"} |->
      CASE c = "X" -> <<"xk", "xa", "xd", "xp">> [] c = "Y" -> <<"yk", "ya", "yp">> [] c = "Z" -> <<"zk", "za">>],
   propShort |-> [p \in {"xk", "xa", "xd", "xp", "yk", "ya", "yp", "zk", "za"} |->
      IF p \in {"xk", "yk", "zk"} THEN "key" ELSE IF p = "xa" THEN "amount" ELSE p],
   words |-> [p \in {"xk", "xa", "xd", "xp", "yk", "ya", "yp", "zk", "za"} |->
      IF p \in {"xk", "yk", "zk"} THEN {"key", p} ELSE IF p = "xa" THEN {"amount"} ELSE {p}],
   field |-> [p \in {"xk", "xa", "xd", "xp", "yk", "ya", "yp", "zk", "za"} |->
      IF p \in {"xk", "yk", "zk"} THEN "k" ELSE p],
   sources |-> <<"lake", "hive">>,
   tableIn |-> [c \in {"X", "Y", "Z"} |-> IF c = "Z" THEN {"lake", "hive"} ELSE {"hive"}],
   fieldIn |-> [p \in {"xk", "xa", "xd", "xp", "yk", "ya", "yp", "zk", "za"} |->
      IF p \in {"zk"} THEN {"lake", "hive"} ELSE {"hive"}],
   hive |-> {"hive"},
   relations |-> {
     [uri |-> "XY", from |-> "X", to |-> "Y", active |-> TRUE, confirmed |-> TRUE, keys |-> <<"xk", "yk">>, priority |-> 1],
     [uri |-> "YX", from |-> "Y", to |-> "X", active |-> TRUE, confirmed |-> TRUE, keys |-> <<"yk", "xk">>, priority |-> 0],
     [uri |-> "ZX", from |-> "Z", to |-> "X", active |-> TRUE, confirmed |-> TRUE, keys |-> <<"zk", "xk">>, priority |-> 1]},
   rules |-> {[uri |-> "rx", on |-> "X", reads |-> {"xa"}, active |-> TRUE],
              [uri |-> "ry", on |-> "Y", reads |-> {"ya"}, active |-> FALSE]},
   policy |-> MCPolicy,
   dates |-> [c \in {"X", "Y", "Z"} |-> IF c = "X" THEN [p \in {"xd"} |-> TRUE] ELSE <<>>],
   today |-> <<2024, 1, 15>>]
MCOntologies == {Shop,
  [Shop EXCEPT !.relations = {[r EXCEPT !.priority = 1] : r \in @}],
  [Shop EXCEPT !.fieldIn = [@ EXCEPT !["xp"] = {"lake"}]],
  [Shop EXCEPT !.rules = {[r EXCEPT !.active = ~@] : r \in @}],
  [Shop EXCEPT !.rules = {[uri |-> "rx", on |-> "X", reads |-> {}, active |-> TRUE],
                          [uri |-> "ry", on |-> "Y", reads |-> {"xa"}, active |-> TRUE]}],
  [Shop EXCEPT !.policy["Y"] = PolicyOf("D", {}, NoPolicy)],
  [Shop EXCEPT !.label["Y"] = "order"],
  [Shop EXCEPT !.hive = {}]}

Month(near) == [kind |-> "month", from |-> <<2023, 12>>, near |-> near]
Time(words) == [words |-> words, unlimited |-> FALSE]
Intent(constraints) == [constraints |-> constraints, shaped |-> FALSE, time |-> Time(<<>>)]
Constraint(p) == [on |-> p, bounded |-> FALSE, supported |-> TRUE]
Step(id, kind, objects, from, requested) ==
  [id |-> id, kind |-> kind, objects |-> objects, from |-> from, requested |-> requested,
   rules |-> {}, relations |-> {}, constraints |-> {}]
First(r) == Step("s", "intermediate", <<"X">>, <<"base">>, r)
Whole == <<"xk", "xa", "xp">>
Seconds == {Step("t", "intermediate", <<"Y">>, <<"base">>, <<"yk", "ya", "yp">>),
            Step("t", "intermediate", <<"X", "Z">>, <<"base", "base">>, Whole),
            Step("t", "intermediate", <<"X", "Z">>, <<"s", "base">>, Whole)}
Results == {Step("r", "result", <<"X">>, <<f>>, <<"xa">>) : f \in {"base", "s", "t"}}
           \cup {Step("r", "result", <<"Y", "X">>, <<g, f>>, <<"xk", "ya">>) :
                   f \in {"base", "s", "t"}, g \in {"base", "t"}}
Orders(S) == {q \in [1 .. Cardinality(S) -> S] : ToSet(q) = S}
Chains == UNION {
  {<<r>> : r \in Results},
  UNION {Orders({r, First(Whole)}) : r \in Results},
  UNION {Orders({r, t, First(Whole)}) : r \in Results, t \in Seconds}}
DraftOf(steps) == [ambiguous |-> FALSE, intent |-> Intent({}), steps |-> steps]
OneStep == Step("r", "result", <<"X">>, <<"base">>, <<"xa">>)
TwoConcepts == Step("r", "result", <<"X", "Y">>, <<"base", "base">>, <<"xa", "ya">>)
Odd(d) == {[d EXCEPT !.ambiguous = TRUE], [d EXCEPT !.intent.shaped = TRUE],
  [d EXCEPT !.intent.time.unlimited = TRUE], [d EXCEPT !.intent.time.words = <<Month("none"), Month("xd")>>],
  [d EXCEPT !.intent.time.words = <<[kind |-> "written_day", from |-> <<2023, 2, 29>>, near |-> "none"]>>],
  [d EXCEPT !.intent.constraints = {Constraint("xa")}],
  [d EXCEPT !.intent.constraints = {[Constraint("xa") EXCEPT !.supported = FALSE]}],
  [d EXCEPT !.intent.constraints = {[Constraint("xp") EXCEPT !.bounded = TRUE]}]}
MCStepDrafts == {DraftOf(c) : c \in Chains} \cup Odd(DraftOf(<<OneStep>>)) \cup Odd(DraftOf(<<TwoConcepts>>)) \cup {
  DraftOf(<<First(<<"xk">>), [OneStep EXCEPT !.from = <<"s">>]>>),
  DraftOf(<<[First(Whole) EXCEPT !.from = <<"t">>], Step("t", "intermediate", <<"X">>, <<"s">>, Whole), OneStep>>),
  DraftOf(<<[First(Whole) EXCEPT !.from = <<"r">>], OneStep>>),
  DraftOf(<<[TwoConcepts EXCEPT !.requested = <<"key">>]>>), DraftOf(<<[TwoConcepts EXCEPT !.requested = <<"amount", "missing">>]>>),
  DraftOf(<<[TwoConcepts EXCEPT !.requested = <<"xk", "yk">>]>>),
  DraftOf(<<[TwoConcepts EXCEPT !.objects = <<"order", "customer">>, !.rules = {"rx"}, !.relations = {"XY"}]>>),
  DraftOf(<<[TwoConcepts EXCEPT !.relations = {"YX"}]>>), DraftOf(<<[TwoConcepts EXCEPT !.rules = {"unknown"}]>>),
  DraftOf(<<[OneStep EXCEPT !.objects = <<"Party">>]>>), DraftOf(<<[OneStep EXCEPT !.objects = <<"unknown">>]>>),
  DraftOf(<<[OneStep EXCEPT !.objects = <<"X", "Y", "Z">>, !.from = <<"base", "base", "base">>]>>),
  DraftOf(<<[OneStep EXCEPT !.constraints = {Constraint("xa")}]>>),
  DraftOf(<<Step("r", "result", <<"Y", "Z">>, <<"base", "base">>, <<"ya", "za">>)>>),
  DraftOf(<<Step("s", "intermediate", <<"Z">>, <<"base">>, <<"zk">>), OneStep>>)}
TextOf(text, words) == [text |-> text, time |-> Time(words)]
MCTexts == {TextOf(t, <<>>) : t \in {<<"xa">>, <<"amount">>, <<"ya", "amount">>, <<"amount", "ya">>, <<"za", "amount">>,
     <<"xa", "ya", "za">>, <<"key">>, <<"xk", "yk">>, <<"order">>, <<"Party">>, <<"amount", "key">>, <<"zk">>, <<"elsewhere">>,
     <<"ya", "za">>}}
  \cup {TextOf(<<"amount">>, <<Month("xd")>>), TextOf(<<"amount">>, <<Month("none"), [Month("none") EXCEPT !.from = <<2023, 11>>]>>)}
MCQueryWorlds == {[c \in {"X", "Y", "Z"} |-> CASE c = "X" -> x [] c = "Y" -> y [] c = "Z" -> z] :
  x \in {"none", "good", "off", "out", "late"}, y \in {"none", "good", "off", "out"}, z \in {"none", "good", "off"}}

MCCalendar == {<<y, m, d>> \in {2023, 2024} \X (1 .. 12) \X (1 .. 31) :
                RealDate(<<y, m, d>>) /\ (IF y = 2023 THEN m >= 10 ELSE m <= 4)}
On(kind) == [kind |-> kind, near |-> "none"]
From(kind, from) == [kind |-> kind, near |-> "none", from |-> from]
Between(kind, from, to) == [kind |-> kind, near |-> "none", from |-> from, to |-> to]
Expressions == {On("this_month"), On("last_month"), On("today"), On("yesterday"), On("day_before"),
   From("month", <<2024, 2>>), From("month", <<2023, 12>>), From("day", <<2024, 2, 29>>), From("day", <<2023, 2, 29>>),
   Between("month_range", <<2023, 12>>, <<2024, 2>>), Between("month_range", <<2024, 2>>, <<2023, 12>>),
   Between("day_range", <<2023, 12, 31>>, <<2024, 2, 29>>), Between("day_range", <<2024, 1, 2>>, <<2024, 1, 1>>),
   From("written_day", <<2024, 2, 29>>), From("written_day", <<2024, 2, 30>>),
   [kind |-> "recent", count |-> 3, near |-> "none"], [kind |-> "yearless_month", month |-> 3, near |-> "none"],
   [kind |-> "yearless_day", month |-> 2, near |-> "none"]}
Near(e) == [e EXCEPT !.near = "xd"]
MCPeriodical == {[words |-> ws, unlimited |-> FALSE, grain |-> g, today |-> t, dates |-> [p \in {"xd", "xt"} |-> p = "xd"]] :
  ws \in {<<>>} \cup {<<e>> : e \in Expressions} \cup {<<Near(e)>> : e \in Expressions}
     \cup {<<e, Near(f)>> : e, f \in Expressions}
     \cup {<<From("month", <<2024, 2>>), Between("month_range", <<2023, 12>>, <<2024, 2>>), From("month", <<2023, 12>>)>>,
            <<From("month", <<2024, 2>>), Between("month_range", <<2023, 12>>, <<2024, 2>>)>>,
            <<From("month", <<2023, 11>>), Between("month_range", <<2023, 12>>, <<2024, 2>>)>>,
            <<[From("month", <<2024, 2>>) EXCEPT !.near = "xt"]>>},
  g \in {"day", "month"}, t \in {<<2024, 1, 1>>, <<2024, 1, 31>>, <<2024, 3, 1>>}}

-------------------------------------------------------------------------------
(* Packages: drafts with one thing wrong at a time, and graphs written by hand: a
   good one with a triple missing or with another object, and every kind of
   condition. *)
FieldAs(id, physical, type, active) == [id |-> id, physical |-> physical, type |-> type, active |-> active, aliases |-> {}]
KeyOfOrders == [FieldAs("field/ORDERS/K", "K", "string", TRUE) EXCEPT !.aliases = {"order no"}]
KeyOfSales(type) == FieldAs("field/SALES_M/K", "K", type, TRUE)
PartitionOfSales(physical, active) == FieldAs("field/SALES_M/P", physical, "string", active)
ObjectAs(name, fields, active) == [id |-> "object/" \o name, physical |-> name, fields |-> fields, active |-> active]
OrdersObject == ObjectAs("ORDERS", {KeyOfOrders, FieldAs("field/ORDERS/DAY", "DAY", "date", TRUE)}, TRUE)
SalesObject(fields, active) == ObjectAs("SALES_M", fields, active)
RelationAs(id, active, confirmed, disposed) ==
  [id |-> id, from |-> "object/ORDERS", fromField |-> "field/ORDERS/K", to |-> "object/SALES_M", toField |-> "field/SALES_M/K",
   active |-> active, confirmed |-> confirmed, disposed |-> disposed]
PolicyAs(o, f, grain, strategy) == [object |-> o, field |-> f, grain |-> grain, strategy |-> strategy, active |-> TRUE, override |-> FALSE]
OrdersPolicy == PolicyAs("object/ORDERS", "field/ORDERS/DAY", "day", "t_minus_2")
SalesPolicy == PolicyAs("object/SALES_M", "field/SALES_M/K", "day", "t_minus_2")
GoodDraft ==
  [objects |-> {OrdersObject, SalesObject({KeyOfSales("string"), PartitionOfSales("P_MON", TRUE)}, TRUE)},
   relations |-> {RelationAs("join", TRUE, TRUE, FALSE)}, policies |-> {OrdersPolicy},
   source |-> [id |-> "lake", platform |-> "hive"]]
DraftsOfPackages ==
  {[GoodDraft EXCEPT !.objects = {OrdersObject, SalesObject({KeyOfSales(t), PartitionOfSales("P_MON", TRUE)}, TRUE)}, !.relations = rs, !.policies = ps] :
     t \in {"string", "integer"},
     rs \in {{}, {RelationAs("join", TRUE, TRUE, FALSE), RelationAs("join 2", TRUE, FALSE, TRUE)}} \cup {{RelationAs("join", a, c, e)} : a, c, e \in BOOLEAN},
     ps \in SUBSET {OrdersPolicy, SalesPolicy}}
  \cup {[GoodDraft EXCEPT !.objects = {OrdersObject, SalesObject({KeyOfSales("string"), PartitionOfSales(n, fa)} \cup more, oa)}, !.relations = {}, !.policies = ps] :
     n \in {"P_MON", "p_mon", "MONTH"}, fa, oa \in BOOLEAN, ps \in {{}, {SalesPolicy}, {PolicyAs("object/SALES_M", "field/SALES_M/P", "month", "previous_complete_month")}},
     more \in {{}, {FieldAs("field/SALES_M/Q", "P_MON", "string", TRUE)}}}
  \cup {[GoodDraft EXCEPT !.policies = {[OrdersPolicy EXCEPT !.strategy = "previous_complete_month"]}],
        [GoodDraft EXCEPT !.policies = @ \cup {[OrdersPolicy EXCEPT !.field = "field/ORDERS/K"]}],
        [GoodDraft EXCEPT !.relations = {RelationAs("join 2", TRUE, TRUE, FALSE), RelationAs("join_2", TRUE, TRUE, FALSE)}],
        [GoodDraft EXCEPT !.objects = @ \cup {ObjectAs("9 lives", {}, TRUE)}],
        [GoodDraft EXCEPT !.objects = @ \cup {ObjectAs("BAGS", {FieldAs("field/BAGS/X", "9 lives", "string", TRUE)}, TRUE)}],
        [GoodDraft EXCEPT !.objects = @ \cup {ObjectAs("BAGS", {FieldAs("field/BAGS/X", "X", "bytes", TRUE)}, TRUE)}],
        [GoodDraft EXCEPT !.objects = @ \cup {ObjectAs("BAGS", {KeyOfOrders}, TRUE)}],
        [GoodDraft EXCEPT !.objects = @ \cup {ObjectAs("ORDERS", {}, TRUE)}]}

Blank(id) == <<"blank", EmptyText, id>>
LeafOn(n, op, more) == {<<n, "type", Uri("oa", op)>>, <<n, "leftProperty", Uri("property", "field/ORDERS/K")>>} \cup more
Equal(n, text) == LeafOn(n, "Eq", {<<n, "value", Lit(text)>>})
Compounded(n, op, args) == {<<n, "type", Uri("oa", op)>>} \cup {<<n, "argument", a>> : a \in args}
CellOf(n, item, rest) == {<<n, "first", item>>, <<n, "rest", rest>>}
EndOfList == Uri("rdf", "nil")
RuleOn(n) == Element(Uri("rule", "r"), "BusinessRule", Lit("rule"), {})
  \cup {<<Uri("rule", "r"), "appliesTo", Uri("concept", "object/ORDERS")>>,
        <<Uri("rule", "r"), "usesProperty", Uri("property", "field/ORDERS/K")>>, <<Uri("rule", "r"), "condition", n>>}
TestConditions == {
  Equal(Blank("1"), "x"), LeafOn(Blank("1"), "Eq", {<<Blank("1"), "parameter", Lit("p")>>}), LeafOn(Blank("1"), "Eq", {}),
  LeafOn(Blank("1"), "Eq", {<<Blank("1"), "parameter", Lit("p")>>, <<Blank("1"), "value", Lit("x")>>}),
  LeafOn(Blank("1"), "IsNull", {}), LeafOn(Blank("1"), "IsNull", {<<Blank("1"), "value", Lit("x")>>}), Equal(Blank("1"), "x") \cup LeafOn(Blank("1"), "Gt", {}),
  LeafOn(Blank("1"), "In", {<<Blank("1"), "values", EndOfList>>}), LeafOn(Blank("1"), "Between", {<<Blank("1"), "values", Blank("2")>>}) \cup CellOf(Blank("2"), Lit("x"), EndOfList),
  LeafOn(Blank("1"), "In", {<<Blank("1"), "values", Blank("2")>>}) \cup CellOf(Blank("2"), Lit("x"), EndOfList),
  LeafOn(Blank("1"), "Between", {<<Blank("1"), "values", Blank("2")>>}) \cup CellOf(Blank("2"), Lit("x"), Blank("3")) \cup CellOf(Blank("3"), Lit("y"), EndOfList),
  LeafOn(Blank("1"), "In", {<<Blank("1"), "values", Blank("2")>>}) \cup CellOf(Blank("2"), Lit("x"), Blank("3")) \cup CellOf(Blank("3"), Lit("y"), Blank("4")) \cup CellOf(Blank("4"), Lit("z"), EndOfList),
  LeafOn(Blank("1"), "In", {<<Blank("1"), "values", Blank("2")>>}) \cup CellOf(Blank("2"), Lit("x"), Blank("2")),
  Compounded(Blank("1"), "Not", {Blank("2")}) \cup Equal(Blank("2"), "x"), Compounded(Blank("1"), "Not", {Blank("1")}), Compounded(Blank("1"), "AnyOf", {Blank("2")}) \cup Equal(Blank("2"), "x"),
  Compounded(Blank("1"), "AllOf", {Blank("2"), Blank("3")}) \cup Equal(Blank("2"), "x") \cup Equal(Blank("3"), "x"),
  Compounded(Blank("1"), "AllOf", {Blank("2"), Blank("3")}) \cup Equal(Blank("2"), "x") \cup Compounded(Blank("3"), "Not", {Blank("2")}),
  Compounded(Blank("1"), "AllOf", {Blank("2"), Blank("3")}) \cup Equal(Blank("2"), "x") \cup Compounded(Blank("3"), "AnyOf", {Blank("2"), Blank("4")}) \cup Equal(Blank("4"), "y"),
  Compounded(Blank("1"), "AllOf", {Blank("2"), Blank("3")}) \cup Compounded(Blank("2"), "Not", {Blank("4")}) \cup Compounded(Blank("3"), "Not", {Blank("2")}) \cup Equal(Blank("4"), "y"),
  Compounded(Blank("1"), "AllOf", {Blank("2"), Blank("3"), Blank("4")}) \cup Compounded(Blank("2"), "Not", {Blank("3")}) \cup Compounded(Blank("3"), "Not", {Blank("4")}) \cup Equal(Blank("4"), "y"),
  Compounded(Blank("1"), "AllOf", {Blank("2"), Blank("3"), Blank("4")}) \cup Compounded(Blank("2"), "AllOf", {Blank("3"), Blank("4")}) \cup Compounded(Blank("3"), "AnyOf", {Blank("2"), Blank("4")}) \cup Equal(Blank("4"), "y"),
  Compounded(Blank("1"), "AllOf", {Blank("2"), Blank("3"), Blank("4")}) \cup Compounded(Blank("2"), "AnyOf", {Blank("3"), Blank("4")}) \cup Equal(Blank("3"), "x") \cup Equal(Blank("4"), "y")}
GoodGraph == Written(GoodDraft) \cup RuleOn(Blank("1")) \cup Equal(Blank("1"), "x")
Instead == {Uri("concept", "object/SALES_M"), Uri("property", "field/SALES_M/K"), Lit(EmptyText), Lit("1"), <<"bad", EmptyText, "../x">>, Blank("9")}
GraphsByHand ==
  {GoodGraph} \cup {GoodGraph \ {t} : t \in GoodGraph}
  \cup {(GoodGraph \ {t}) \cup {<<t[1], t[2], v>>} : t \in {u \in GoodGraph : u[2] # "label"}, v \in Instead}
  \cup {Written(GoodDraft) \cup RuleOn(Blank("1")) \cup c : c \in TestConditions}
  \cup {GoodGraph \cup more : more \in {
      {<<Uri("concept", "object/ORDERS"), "subClassOf", Uri("concept", "object/SALES_M")>>},
      {<<Uri("source", "lake"), "configuration", Blank("5")>>, <<Blank("5"), "password", Lit("x")>>},
      {<<Uri("source", "lake"), "owner", Uri("concept", "object/ORDERS")>>, <<Uri("concept", "object/ORDERS"), "password", Lit("x")>>},
      {<<Uri("source", "lake"), "configuration", Uri("concept", "object/ORDERS")>>, <<Uri("concept", "object/ORDERS"), "password", Lit("x")>>},
      {<<Uri("source", "lake"), "configuration", Blank("5")>>, <<Blank("5"), "next", Blank("6")>>, <<Blank("6"), "next", Blank("7")>>, <<Blank("7"), "password", Lit("x")>>},
      {<<Uri("source", "lake"), "configuration", Blank("5")>>, <<Blank("5"), "next", Blank("6")>>, <<Blank("6"), "next", Blank("5")>>},
      {<<Uri("rule", "r"), "condition", Blank("2")>>} \cup Equal(Blank("2"), "y"),
      {<<Uri("objectMapping", "object/SALES_M"), "priority", Lit("1")>>} \cup
         MappingOf(Uri("objectMapping", "second"), Lit("second"), Uri("concept", "object/SALES_M"), Uri("source", "lake"), "objectName", "SALES", TRUE),
      MappingOf(Uri("objectMapping", "second"), Lit("Second"), Uri("concept", "object/SALES_M"), Uri("source", "lake"), "objectName", "SALES", TRUE)
         \cup {<<Uri("objectMapping", "second"), "priority", Lit("100")>>},
      MappingOf(Uri("objectMapping", "second"), Lit("RULE"), Uri("concept", "object/SALES_M"), Uri("source", "lake"), "objectName", "SALES", TRUE)}}
Identifiers == {"object/ORDERS", "object/SALES_M", "object/9 lives", "object/BAGS", "field/ORDERS/K", "field/ORDERS/DAY", "field/SALES_M/K",
          "field/SALES_M/P", "field/SALES_M/Q", "field/BAGS/X", "join", "join 2", "join_2", "lake"}
MCUpper == [n \in {"p_mon", "Second", "rule"} |-> IF n = "p_mon" THEN "P_MON" ELSE IF n = "rule" THEN "RULE" ELSE "SECOND"]
MCSuffix == [n \in {"SALES_M"} |-> "M"]
MCClean == [i \in Identifiers |-> IF i = "join 2" THEN "join_2" ELSE i]
MCOrders == {[b \in {Blank(i) : i \in {"1", "2", "3", "4", "9"}} |->
               IF b = Blank("2") THEN o[1] ELSE IF b = Blank("3") THEN o[2] ELSE IF b = Blank("4") THEN o[3] ELSE 9] :
               o \in {<<1, 2, 3>>, <<3, 2, 1>>, <<2, 3, 1>>}}
===============================================================================
