-------------------------------- MODULE QueryPlans --------------------------------
(***************************************************************************)
(* Queries of one or two concepts: looked up in an ontology (resolver.py), *)
(* planned from a text or from a structured step (planner.py) and compiled *)
(* (compiler.py).                                                          *)
(*                                                                         *)
(* An ontology o is a record: its concepts in order; for a concept its     *)
(* short name, label, properties, the data sources that hold a table of it,*)
(* the policy of its partition and its business dates; for a property its  *)
(* words and the sources that hold a field; relations with their key       *)
(* properties; rules with the properties they read; and the date of today. *)
(***************************************************************************)
EXTENDS Periods, Checks
LOCAL INSTANCE SequencesExt

Props(o) == UNION {ToSet(o.props[c]) : c \in ToSet(o.concepts)}
Owner(o, p) == CHOOSE c \in ToSet(o.concepts) : p \in ToSet(o.props[c])

-------------------------------------------------------------------------------
(* OntologyResolver.  A lookup gives what it finds, "ambiguous" or "missing". *)
TheOnly(S) == IF Cardinality(S) = 1 THEN CHOOSE x \in S : TRUE ELSE "ambiguous"

GetConcept(o, id) ==
  LET short == {c \in ToSet(o.concepts) : o.short[c] = id}
      label == {c \in ToSet(o.concepts) : o.label[c] = id}
  IN IF id \in ToSet(o.concepts) THEN id
     ELSE IF short # {} THEN TheOnly(short)
     ELSE IF label # {} THEN TheOnly(label) ELSE "missing"

(* A property by its identifier or its short name, which is one of its words. *)
ResolveProperty(o, c, id) ==
  LET short == {p \in ToSet(o.props[c]) : o.propShort[p] = id}
  IN IF id \in ToSet(o.props[c]) THEN id ELSE IF short # {} THEN TheOnly(short) ELSE "missing"

(* The confirmed relation of highest priority, in either direction, with both keys
   mapped; one only. *)
DirectRelation(o, c, d) ==
  LET usable == {r \in o.relations : {r.from, r.to} = {c, d} /\ r.active /\ r.confirmed /\ r.keys # <<>>}
      best == {r \in usable : \A x \in usable : x.priority <= r.priority}
  IN IF usable = {} THEN "missing"
     ELSE IF Cardinality(best) # 1 THEN "ambiguous"
     ELSE LET r == CHOOSE x \in best : TRUE
          IN IF \E p \in ToSet(r.keys) : o.fieldIn[p] = {} THEN "missing" ELSE r.uri

RelationOf(o, uri) == CHOOSE r \in o.relations : r.uri = uri

(* What rules and policies a concept brings along. *)
(* A mutant: rules that were switched off still apply. *)
ActiveRulesEvenIdle(o, cs) == {r \in o.rules : r.on \in ToSet(cs)}
ActiveRules(o, cs) == {r \in o.rules : r.on \in ToSet(cs) /\ r.active}
WithPolicy(o, cs)    == {c \in ToSet(cs) : o.policy[c].state = "active"}
Partitions(o, cs)  == {o.policy[c].on : c \in WithPolicy(o, cs)}

-------------------------------------------------------------------------------
(* The part of planning a text and a step share: one source that has a table of
   every concept, the fields there, the periods and the relation. *)
CommonSources(o, cs) == {s \in ToSet(o.sources) : \A c \in ToSet(cs) : s \in o.tableIn[c]}
SourceFor(o, cs)     == SelectSeq(o.sources, LAMBDA s : s \in CommonSources(o, cs))[1]
Bindings(o, cs)      == {p \in UNION {ToSet(o.props[c]) : c \in ToSet(cs)} :
                           SourceFor(o, cs) \in o.fieldIn[p]}

(* Every concept with a policy brings the period of its partition and the business
   dates that the request names. *)
PeriodOf(o, c, time) ==
  Resolved(time.words, time.unlimited, o.policy[c].grain, o.today, o.dates[c])
PeriodsOf(o, cs, time) == [c \in WithPolicy(o, cs) |-> PeriodOf(o, c, time)]
PeriodFilters(o, periods) == UNION {
  {[on |-> o.policy[c].on, bounded |-> TRUE, what |-> "period", span |-> periods[c].partition]}
  \cup {[on |-> b.on, bounded |-> TRUE, what |-> "date", span |-> <<b.first, b.last>>] :
          b \in periods[c].business} : c \in DOMAIN periods}

RelationFor(o, cs) == IF Len(cs) = 2 THEN DirectRelation(o, cs[1], cs[2]) ELSE "none"

SourceChecks(o, cs, requested) == <<
  <<"unsupported", CommonSources(o, cs) # {}>>,
  <<"unsupported", requested # <<>>>>,
  <<"unsupported", CommonSources(o, cs) # {} => ToSet(requested) \subseteq Bindings(o, cs)>> >>

(* A date that does not exist is no error of a period, and nobody catches it. *)
PeriodFailure(period) == IF period.code = "not_a_date" THEN "failed" ELSE "clarify"

UsablePolicies(o, cs) == \A c \in ToSet(cs) : o.policy[c].state # "unusable"
PeriodChecks(o, cs, periods) ==
  LET of(c) == <<
        <<"unsupported", o.policy[c].on \in Bindings(o, cs)>>,
        <<PeriodFailure(periods[c]), periods[c].code = "ok">>,
        <<"unsupported", periods[c].code = "ok" =>
                           {b.on : b \in periods[c].business} \subseteq Bindings(o, cs)>> >>
      code(c) == IF c \in DOMAIN periods THEN FirstFailure(of(c)) ELSE "ok"
  IN [i \in DOMAIN cs |-> <<code(cs[i]), code(cs[i]) = "ok">>]

(* The keys of the relation are read before what the step says of it is compared. *)
RelationChecks(o, cs) == <<
  <<"clarify", RelationFor(o, cs) # "ambiguous">>,
  <<"unsupported", RelationFor(o, cs) # "missing">>,
  <<"unsupported", RelationFor(o, cs) \notin {"none", "ambiguous", "missing"} =>
                     ToSet(RelationOf(o, RelationFor(o, cs)).keys) \subseteq Bindings(o, cs)>> >>

NoPlan(code) == [code |-> code]
Unless(code, plan) == IF code # "ok" THEN NoPlan(code) ELSE plan
Planned(o, cs, requested, rules, filters) ==
  [code |-> "ok", concepts |-> cs, source |-> SourceFor(o, cs), selections |-> requested,
   bindings |-> Bindings(o, cs), relation |-> RelationFor(o, cs), rules |-> rules,
   filters |-> filters, policies |-> Partitions(o, cs)]

-------------------------------------------------------------------------------
(* OntologyPlanner.plan.  A text is the sequence of the words of the ontology that
   occur in it. *)
MatchedIn(o, text, c) == SelectSeq(o.props[c], LAMBDA p : o.words[p] \cap ToSet(text) # {})
Matched(o, text)      == Those(o.concepts, {c \in ToSet(o.concepts) : MatchedIn(o, text, c) # <<>>})
Position(o, text, p)  == CHOOSE i \in DOMAIN text : /\ text[i] \in o.words[p]
                                                    /\ \A j \in 1 .. i - 1 : text[j] \notin o.words[p]
FirstPosition(o, text, c) ==
  LET at == {Position(o, text, p) : p \in ToSet(MatchedIn(o, text, c))}
  IN CHOOSE i \in at : \A j \in at : i <= j
WordsFor(o, text, c) == (UNION {o.words[p] : p \in ToSet(MatchedIn(o, text, c))}) \cap ToSet(text)

(* No property is named: the best concept alone, which then has nothing to select. *)
ByConcept(o, text) ==
  LET named == {c \in ToSet(o.concepts) : {o.short[c], o.label[c]} \cap ToSet(text) # {}}
      score(c) == CHOOSE n \in {o.weight[x] : x \in {o.short[c], o.label[c]} \cap ToSet(text)} :
                    \A x \in {o.short[c], o.label[c]} \cap ToSet(text) : o.weight[x] <= n
      best == {c \in named : \A d \in named : score(d) <= score(c)}
  IN IF named = {} THEN "nomatch" ELSE IF Cardinality(best) # 1 THEN "ambiguous" ELSE "unsupported"

PlanText(o, text, time) ==
  LET matched == Matched(o, text)
      before(c, d) == FirstPosition(o, text, c) < FirstPosition(o, text, d)
      cs == IF Len(matched) = 2 /\ before(matched[2], matched[1]) THEN Reverse(matched) ELSE matched
      props == FlattenSeq([i \in DOMAIN cs |-> MatchedIn(o, text, cs[i])])
      requested == SortSeq(props, LAMBDA p, q : Position(o, text, p) < Position(o, text, q))
      first == <<"clarify", UsablePolicies(o, cs)>>
      plan(periods) ==
        Unless(FirstFailure(<<first>> \o PeriodChecks(o, cs, periods) \o RelationChecks(o, cs)),
               Planned(o, cs, requested, ActiveRules(o, cs), PeriodFilters(o, periods)))
  IN IF matched = <<>> THEN NoPlan(ByConcept(o, text))
     ELSE IF Len(matched) > 2 THEN NoPlan("unsupported")
     ELSE IF Len(matched) = 2 /\ WordsFor(o, text, cs[1]) = WordsFor(o, text, cs[2])
          THEN NoPlan("ambiguous")
     ELSE Unless(FirstFailure(SourceChecks(o, cs, requested)), plan(PeriodsOf(o, cs, time)))

-------------------------------------------------------------------------------
(* OntologyPlanner.plan_structured: a step names its concepts, properties, rules,
   relations and constraints. *)
Candidates(o, cs, id) == {ResolveProperty(o, c, id) : c \in ToSet(cs)} \ {"missing"}

LookupChecks(o, cs, ids) == <<
  <<"clarify", \A id \in ids : "ambiguous" \notin Candidates(o, cs, id)>>,
  <<"unsupported", \A id \in ids : Candidates(o, cs, id) # {}>>,
  <<"clarify", \A id \in ids : Cardinality(Candidates(o, cs, id)) < 2>> >>

ChosenRules(o, cs, refs) ==
  IF refs = {} THEN ActiveRules(o, cs) ELSE {r \in ActiveRules(o, cs) : r.uri \in refs}

PlanStep(o, step, intent) ==
  LET found == [i \in DOMAIN step.objects |-> GetConcept(o, step.objects[i])]
      named == {x.on : x \in intent.constraints \cup step.constraints}
      resolve(id) == CHOOSE p \in Candidates(o, found, id) : TRUE
      lookup == <<
        <<"unsupported", ~intent.shaped>>,
        <<"clarify", "ambiguous" \notin ToSet(found)>>,
        <<"unsupported", "missing" \notin ToSet(found)>>,
        <<"unsupported", Len(found) <= 2>> >>
      requested == [i \in DOMAIN step.requested |-> resolve(step.requested[i])]
      rules == ChosenRules(o, found, step.rules)
      later == << <<"unsupported", step.rules # {} => Cardinality(rules) = Cardinality(step.rules)>>,
                  <<"clarify", UsablePolicies(o, found)>>,
                  <<"unsupported", \A x \in intent.constraints \cup step.constraints : x.supported>> >>
               \o LookupChecks(o, found, named)
      last(props, periods) ==
        << <<"unsupported", props \subseteq Bindings(o, found)>> >>
        \o PeriodChecks(o, found, periods) \o RelationChecks(o, found)
        \o << <<"unsupported", Len(found) = 2 => step.relations \subseteq {RelationFor(o, found)}>> >>
      bounded(p) == \E x \in intent.constraints \cup step.constraints :
                      x.bounded /\ p \in Candidates(o, found, x.on)
      constraints(props) ==
        {[on |-> p, bounded |-> bounded(p), what |-> "constraint", span |-> <<>>] : p \in props}
      plan(props, periods) ==
        Unless(FirstFailure(last(props, periods)),
               Planned(o, found, requested, rules, constraints(props) \cup PeriodFilters(o, periods)))
  IN Unless(FirstFailure(lookup),
     Unless(FirstFailure(LookupChecks(o, found, ToSet(step.requested))),
     Unless(FirstFailure(SourceChecks(o, found, requested)),
     Unless(FirstFailure(later), plan({resolve(id) : id \in named}, PeriodsOf(o, found, intent.time))))))

-------------------------------------------------------------------------------
(* GenericSqlCompiler.compile: every rule and filter becomes a condition on a bound
   field, and a partition is bounded by one filter, no less and no more. *)
Conditions(q) ==
  {[on |-> p, what |-> "rule"] : p \in UNION {r.reads : r \in q.rules}}
  \cup {[on |-> f.on, what |-> f.what] : f \in q.filters}

Compiles(q) ==
  /\ \A c \in Conditions(q) : c.on \in q.bindings
  /\ \A p \in q.policies : Cardinality({f \in q.filters : f.on = p /\ f.bounded}) = 1

(* The fields the query reads of its tables. *)
ReadFields(o, q) ==
  ToSet(q.selections) \cup {c.on : c \in Conditions(q)}
  \cup (IF q.relation = "none" THEN {} ELSE ToSet(RelationOf(o, q.relation).keys))
===============================================================================
