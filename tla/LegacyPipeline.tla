----------------------------- MODULE LegacyPipeline -----------------------------
(***************************************************************************)
(* The older pipeline (_run_legacy_agent, sql_pipeline = "legacy"): a graph *)
(* of nodes from the retrieval of the ontology to the formatted output.    *)
(* Every node runs in _traced, which turns an exception into a step of the *)
(* trace and leaves the rest of the state as it was.                       *)
(*                                                                         *)
(* A script is what the two checks look at: its form, whether it ends with *)
(* a semicolon, and the fields it names.  A table after FROM or JOIN is    *)
(* added to what is known and never refused, so tables are left out.  What *)
(* the ontology client knows is read again by each check, from tables that *)
(* are edited meanwhile and cannot always be read (OntologyMetadata).      *)
(***************************************************************************)
EXTENDS Naturals, FiniteSets

CONSTANTS
  Names,     \* the fields a script may name
  Schemas,   \* what the tables may hold, each a set of names
  MaxFixes,  \* the repairs after which a script is given up (3 in the code)
  NodeLimit  \* the nodes after which the graph library gives up (25)

ASSUME LegacyAssumption ==
  /\ IsFiniteSet(Names)
  /\ Schemas \subseteq SUBSET Names
  /\ MaxFixes \in Nat \ {0}
  /\ NodeLimit \in Nat

VARIABLE legacy \* the state of one run of the graph

Texts   == [form : BOOLEAN, ends : BOOLEAN, names : SUBSET Names]
NoText  == [form |-> FALSE, ends |-> FALSE, names |-> {}]
LegacyOutputs == {"none", "sql", "refused", "irrelevant"}
Nodes   == {"get_ttl_definition", "get_attr_mapping", "derive_rules", "build_sql",
            "validate_syntax", "validate_semantics", "fix_sql", "format_output",
            "format_failure", "end"}

(* "objects" are the fields of the chosen tables, none when the retrieval failed,
   "rules" the names in the derived condition.  "passed" is history: the checks the
   script of the state passed, and "blind" that the semantic check of it raised. *)
LegacyStates ==
  [node : Nodes, key : BOOLEAN, irrelevant : BOOLEAN, objects : SUBSET Names,
   rules : SUBSET Names, attempt : 0 .. 2, sql : Texts, valid : BOOLEAN,
   retries : 0 .. MaxFixes, steps : Nat, calls : Nat, output : LegacyOutputs,
   passed : SUBSET {"syntax", "semantics"}, blind : BOOLEAN]

LegacyInit ==
  legacy \in {[node |-> "get_ttl_definition", key |-> k, irrelevant |-> FALSE, objects |-> {},
               rules |-> {}, attempt |-> 0, sql |-> NoText, valid |-> FALSE, retries |-> 0,
               steps |-> 0, calls |-> 0, output |-> "none", passed |-> {}, blind |-> FALSE]
              : k \in BOOLEAN}

Node(name) == legacy.node = name
(* A node returns; with its step in the trace the next one is entered. *)
Returns(state, next, steps) ==
  legacy' = [state EXCEPT !.node = next, !.steps = @ + steps, !.attempt = 0]
(* Another call of the model inside the node. *)
Asks(state) == [state EXCEPT !.calls = IF state.key THEN @ + 1 ELSE @]

-------------------------------------------------------------------------------
(* get_ontology_definition: the tables the model, else the keywords choose, else
   all; a question without any word of the trade is refused without a call. *)
GetTtlDefinition ==
  /\ Node("get_ttl_definition")
  /\ \/ \E schema \in Schemas : \E objects \in SUBSET schema :
          Returns([Asks(legacy) EXCEPT !.objects = objects], "get_attr_mapping", 1)
     \/ Returns([legacy EXCEPT !.irrelevant = TRUE], "format_failure", 1)
     \/ Returns(legacy, "get_attr_mapping", 1)

(* parse_external_tables, get_attr_mapping, transform_fields, calc_dates: none of
   them branches, and what an exception leaves out only makes the prompt poorer. *)
PrepareFields ==
  /\ Node("get_attr_mapping")
  /\ Returns(legacy, "derive_rules", 4)

(* Two calls of the model for a condition, which may name anything. *)
DeriveRules ==
  /\ Node("derive_rules")
  /\ \/ /\ ~legacy.key \/ legacy.attempt = 2
        /\ Returns(legacy, "build_sql", 1)
     \/ /\ legacy.key /\ legacy.attempt < 2
        /\ \/ \E names \in (SUBSET Names) \ {{}} :
                Returns([Asks(legacy) EXCEPT !.rules = names], "build_sql", 1)
           \/ legacy' = [Asks(legacy) EXCEPT !.attempt = @ + 1]

-------------------------------------------------------------------------------
(* _validate_sql_syntax and validate_sql_semantics *)
SyntaxOk(sql)            == sql.form /\ sql.ends
SemanticsOk(sql, schema) == sql.names \subseteq schema

(* One answer of the model in build_sql: adopted when both checks accept it, tried
   once more when it is empty or malformed, given up when it names what is
   not there; a check that cannot read the tables ends the node without a script. *)
BuildWithModel ==
  /\ Node("build_sql") /\ legacy.key /\ legacy.attempt < 2
  /\ \/ legacy' = [Asks(legacy) EXCEPT !.attempt = @ + 1]
     \/ \E sql \in Texts, schema \in Schemas :
          /\ SyntaxOk(sql)
          /\ IF SemanticsOk(sql, schema)
             THEN Returns([Asks(legacy) EXCEPT !.sql = sql], "validate_syntax", 1)
             ELSE legacy' = [Asks(legacy) EXCEPT !.attempt = 2]
     \/ Returns(Asks(legacy), "validate_syntax", 1)

(* _mock_generate_sql: fields of a chosen table with the derived condition, which is
   put in as it is; without a table a script the syntax check refuses, and of a table
   without fields every column. *)
Template(form) ==
  IF legacy.objects = {} /\ ~form THEN [NoText EXCEPT !.ends = TRUE]
  ELSE [form |-> form, ends |-> TRUE, names |-> legacy.objects \cup legacy.rules]

BuildFromTemplate ==
  /\ Node("build_sql") /\ (~legacy.key \/ legacy.attempt = 2)
  /\ \E form \in BOOLEAN :
       /\ legacy.rules = {} /\ legacy.objects # {} => form
       /\ Returns([legacy EXCEPT !.sql = Template(form)], "validate_syntax", 1)

(* node_validate_syntax, route_after_7a *)
ValidateSyntax ==
  /\ Node("validate_syntax")
  /\ LET ok == SyntaxOk(legacy.sql)
     IN Returns([legacy EXCEPT !.valid = ok, !.blind = FALSE,
                               !.passed = IF ok THEN {"syntax"} ELSE {}],
                IF ok THEN "validate_semantics" ELSE "fix_sql", 1)

(* node_validate_semantics, route_after_7b: when the tables cannot be read "valid"
   is what the syntax check left. *)
ValidateSemantics ==
  /\ Node("validate_semantics")
  /\ \/ \E schema \in Schemas :
          LET ok == SemanticsOk(legacy.sql, schema)
          IN Returns([legacy EXCEPT !.valid = ok,
                                    !.passed = IF ok THEN @ \cup {"semantics"} ELSE @],
                     IF ok THEN "format_output" ELSE "fix_sql", 1)
     \/ Returns([legacy EXCEPT !.blind = TRUE],
                IF legacy.valid THEN "format_output" ELSE "fix_sql", 1)

(* Mutant: a repaired script is not parsed again. *)
FixSqlToSemantics ==
  /\ Node("fix_sql")
  /\ LET count == legacy.retries + 1
     IN Returns([legacy EXCEPT !.sql.ends = TRUE, !.retries = count, !.passed = {}],
                IF count < MaxFixes THEN "validate_semantics" ELSE "format_failure", 1)

(* Mutant: the repair is not counted. *)
FixSqlUncounted ==
  /\ Node("fix_sql")
  /\ Returns([legacy EXCEPT !.sql.ends = TRUE, !.passed = {}], "validate_syntax", 1)

(* node_fix_sql only adds a semicolon; route_after_fix. *)
FixSql ==
  /\ Node("fix_sql")
  /\ LET count == legacy.retries + 1
     IN Returns([legacy EXCEPT !.sql.ends = TRUE, !.retries = count, !.passed = {}],
                IF count < MaxFixes THEN "validate_syntax" ELSE "format_failure", 1)

FormatOutput ==
  /\ Node("format_output")
  /\ Returns([legacy EXCEPT !.output = "sql"], "end", 1)

FormatFailure ==
  /\ Node("format_failure")
  /\ Returns([legacy EXCEPT !.output = IF legacy.irrelevant THEN "irrelevant" ELSE "refused"],
             "end", 1)

LegacyNext ==
  \/ GetTtlDefinition \/ PrepareFields \/ DeriveRules
  \/ BuildWithModel \/ BuildFromTemplate
  \/ ValidateSyntax \/ ValidateSemantics \/ FixSql
  \/ FormatOutput \/ FormatFailure

LegacySpec == LegacyInit /\ [][LegacyNext]_legacy

-------------------------------------------------------------------------------
LegacyTypeOK == legacy \in LegacyStates

(* A script that is delivered is the one the checks saw last, and they accepted
   it: all edits of it are followed by both checks.  The exception is a semantic
   check that could not read the tables: its exception is swallowed, and the
   verdict of the syntax check decides alone. *)
LegacyWasChecked ==
  legacy.output = "sql" =>
    /\ "syntax" \in legacy.passed /\ SyntaxOk(legacy.sql)
    /\ legacy.blind \/ "semantics" \in legacy.passed

(* The graph stays below the limit of its library, which would throw the turn
   away, and asks the model at most five times: for the tables, twice for the
   condition and twice for the script. *)
LegacyWithinLimits == legacy.steps < NodeLimit /\ legacy.calls <= 5
===============================================================================
