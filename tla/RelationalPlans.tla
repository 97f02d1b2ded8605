----------------------------- MODULE RelationalPlans -----------------------------
(***************************************************************************)
(* The relational plan in the middle of SQL generation, its contract       *)
(* (relational_plan.py) and its compilation into statements, one per       *)
(* materialized node (relational_compiler.py); and what the statements     *)
(* compute when the platform runs them.                                    *)
(*                                                                         *)
(* A plan is a sequence of nodes [id, kind, inputs, columns, tests, match, *)
(* join].  A column has a name, the node it is read from and its name      *)
(* there; the names inside a plan are <<source, field>>, the ones of the   *)
(* result are physical field names.                                        *)
(*                                                                         *)
(* Data are abstracted to what joins, filters and partitions tell apart.   *)
(* All joins equate keys, so rows of different keys never meet and one key *)
(* at a time is enough: a world says for each table whether it has no row  *)
(* of the key, one that satisfies everything ("good"), one that fails the  *)
(* filters ("off") or one outside the period ("out").                      *)
(***************************************************************************)
EXTENDS Naturals, Sequences, FiniteSets, Checks
LOCAL INSTANCE SequencesExt

CONSTANTS
  FieldsOf, \* the fields of each table
  TypeOf    \* the type of a field, by its name

Tables == DOMAIN FieldsOf
Null   == "null"
Worlds == [Tables -> {"none", "good", "off", "out"}]

-------------------------------------------------------------------------------
(* The contract: CanonicalRelationalPlan.validate_relational_graph. *)
NamesOf(n) == [i \in DOMAIN n.columns |-> n.columns[i].name]

(* The columns and types a node offers; schemas are the ones of earlier nodes. *)
OutputOf(n, schemas) ==
  CASE n.kind \in {"filter", "materialize"} -> schemas[n.inputs[1]]
    [] n.kind = "scan" -> [c \in ToSet(NamesOf(n)) |-> TypeOf[c[2]]]
    [] OTHER -> [c \in ToSet(NamesOf(n)) |->
                   LET col == n.columns[CHOOSE i \in DOMAIN n.columns : n.columns[i].name = c]
                   IN schemas[IF n.kind = "union" THEN n.inputs[1] ELSE col.node][col.from]]

Reads(c, n, schemas) == c.node \in ToSet(n.inputs) /\ c.from \in DOMAIN schemas[c.node]

NodeOk(n, schemas) ==
  /\ n.id \notin DOMAIN schemas
  /\ ToSet(n.inputs) \subseteq DOMAIN schemas
  /\ IsInjective(NamesOf(n))
  /\ n.kind \in {"join", "project", "aggregate"} =>
       \A i \in DOMAIN n.columns : Reads(n.columns[i], n, schemas)
  /\ n.kind = "union" =>
       \A i \in DOMAIN n.columns : \A j, k \in ToSet(n.inputs) :
         /\ n.columns[i].from \in DOMAIN schemas[j]
         /\ schemas[j][n.columns[i].from] = schemas[k][n.columns[i].from]
  /\ n.kind = "filter" => \A t \in n.tests : t.reads \subseteq DOMAIN schemas[n.inputs[1]]
  /\ n.kind = "join" =>
       /\ n.on[1] \in DOMAIN schemas[n.inputs[1]] /\ n.on[2] \in DOMAIN schemas[n.inputs[2]]
       /\ schemas[n.inputs[1]][n.on[1]] = schemas[n.inputs[2]][n.on[2]]
       /\ \A t \in n.match : t.reads \subseteq DOMAIN schemas[n.inputs[2]]
       /\ n.join = "anti" => \A i \in DOMAIN n.columns : n.columns[i].node = n.inputs[1]

(* The schemas of all nodes, or of those before the first that breaks the contract. *)
With(f, a, b) == [x \in DOMAIN f \cup {a} |-> IF x = a THEN b ELSE f[x]]
Checked(r, n) == IF r.ok /\ NodeOk(n, r.of) THEN [ok |-> TRUE, of |-> With(r.of, n.id, OutputOf(n, r.of))]
                 ELSE [r EXCEPT !.ok = FALSE]
SchemasOf(nodes) ==
  LET upto[n \in 0 .. Len(nodes)] ==
        IF n = 0 THEN [ok |-> TRUE, of |-> <<>>] ELSE Checked(upto[n - 1], nodes[n])
  IN upto[Len(nodes)]

Materialized(nodes) == Those(nodes, {n \in ToSet(nodes) : n.kind = "materialize"})

ContractHolds(nodes) ==
  /\ SchemasOf(nodes).ok
  /\ {n \in ToSet(Materialized(nodes)) : n.step = "result"} = {Last(nodes)}

-------------------------------------------------------------------------------
(* The compiler: HiveRelationalCompiler. *)
NodeOf(nodes, id) == CHOOSE n \in ToSet(nodes) : n.id = id

(* compile_node: what a query needs, in the order of its WITH clause: depth first,
   each node once, materialized ones as tables that must be there already. *)
Once(s) ==
  LET upto[n \in 0 .. Len(s)] ==
        IF n = 0 THEN <<>> ELSE LET r == upto[n - 1] IN IF s[n] \in ToSet(r) THEN r ELSE Append(r, s[n])
  IN upto[Len(s)]

Needed(nodes, id) ==
  LET order[n \in ToSet(nodes)] ==
        IF n.kind = "materialize" THEN <<n>>
        ELSE FlattenSeq([i \in DOMAIN n.inputs |-> order[NodeOf(nodes, n.inputs[i])]]) \o <<n>>
  IN Once(order[NodeOf(nodes, id)])

(* One statement per materialized node: the table it drops and creates, the ones it
   reads, the queries of its WITH clause and the one it selects from. *)
Statement(nodes, m) ==
  LET needed == Needed(nodes, m.inputs[1])
  IN [target |-> m.id, from |-> m.inputs[1],
      reads |-> {n.id : n \in {x \in ToSet(needed) : x.kind = "materialize"}},
      with |-> Those(needed, {n \in ToSet(needed) : n.kind # "materialize"})]

(* The next statement is refused when it reads a table that is not created yet. *)
CanCreate(statement, created) == statement.reads \subseteq created

-------------------------------------------------------------------------------
(* What the platform computes.  A row maps the sources it carries to a table whose
   row of the key it is, or to Null; truth has SQL's three values. *)
Truth(test, row, w) ==
  LET fails(s) == w[row[s]] = IF test.op = "period" THEN "out" ELSE "off"
      leaf(s) == IF test.op = "is_null" THEN IF row[s] = Null THEN "T" ELSE "F"
                 ELSE IF row[s] = Null THEN "U" ELSE IF fails(s) THEN "F" ELSE "T"
      leaves == {leaf(c[1]) : c \in test.reads}
      some(v) == v \in leaves
  IN CASE test.op = "any" -> IF some("T") THEN "T" ELSE IF some("U") THEN "U" ELSE "F"
       [] test.op = "not" -> IF some("F") THEN "T" ELSE IF some("U") THEN "U" ELSE "F"
       [] OTHER -> IF some("F") THEN "F" ELSE IF some("U") THEN "U" ELSE "T"

Holds(tests, row, w) == \A t \in tests : Truth(t, row, w) = "T"

Joined(l, r) == [s \in DOMAIN l \cup DOMAIN r |-> IF s \in DOMAIN l THEN l[s] ELSE r[s]]
NullRow(S)   == [s \in S |-> Null]
OnlyFor(row, S) == [s \in DOMAIN row \cap S |-> row[s]]

(* Inner, left and anti joins; the last as NOT EXISTS or as LEFT JOIN .. IS NULL. *)
JoinRows(n, L, R, right, w) ==
  LET meets(l, r) == l[n.on[1][1]] # Null /\ r[n.on[2][1]] # Null /\ Holds(n.match, r, w)
      kept  == {Joined(p[1], p[2]) : p \in {q \in L \X R : meets(q[1], q[2])}}
      alone == {l \in L : \A r \in R : ~meets(l, r)}
      outer == kept \cup {Joined(l, NullRow(right)) : l \in alone}
  IN IF n.join = "inner" THEN kept
     ELSE IF n.join = "left" THEN outer
     ELSE IF n.strategy = "not_exists" THEN alone ELSE {o \in outer : o[n.on[2][1]] = Null}

RowsOf(n, env, w) ==
  LET carried == {c[1] : c \in ToSet(NamesOf(n))}
  IN CASE n.kind = "scan" -> IF w[n.table] = "none" THEN {} ELSE {[s \in carried |-> n.table]}
       [] n.kind = "union" -> UNION {env[i] : i \in ToSet(n.inputs)}
       [] n.kind = "filter" -> {r \in env[n.inputs[1]] : Holds(n.tests, r, w)}
       [] n.kind = "join" ->
            {OnlyFor(r, carried) :
               r \in JoinRows(n, env[n.inputs[1]], env[n.inputs[2]], {n.on[2][1]}, w)}
       [] OTHER -> env[n.inputs[1]]

(* The queries of a WITH clause one after the other, each over those before it and the
   tables there are. *)
Select(s, tables, w) ==
  LET upto[n \in 0 .. Len(s.with)] ==
        IF n = 0 THEN tables
        ELSE LET env == upto[n - 1] IN With(env, s.with[n].id, RowsOf(s.with[n], env, w))
  IN upto[Len(s.with)][s.from]

(* The statements run in their order; the last table is the result.  What the
   result projects or groups are its rows. *)
Execute(statements, w) ==
  LET after[n \in 0 .. Len(statements)] ==
        IF n = 0 THEN <<>>
        ELSE LET tables == after[n - 1]
             IN With(tables, statements[n].target, Select(statements[n], tables, w))
  IN after[Len(statements)][Last(statements).target]
===============================================================================
