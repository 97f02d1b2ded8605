-------------------------------- MODULE ProgramPlans --------------------------------
(***************************************************************************)
(* Programs of several steps.  A draft names, for each step, the concepts  *)
(* it reads and for each of them where from: the table of the concept or   *)
(* an earlier step.  The binder orders the steps and plans them one by one *)
(* (program_validation.py), the compiler gives each a table of its own and *)
(* checks the script (program_compiler.py).  A plain text is the same with *)
(* one query of base tables.                                               *)
(***************************************************************************)
EXTENDS QueryPlans
LOCAL INSTANCE SequencesExt

CONSTANTS
  Ontologies,  \* the ontologies looked at
  StepDrafts,  \* the drafts of a model, as [intent, ambiguous, steps]
  TextRequests,       \* the requests, as [text, time]
  QueryWorlds, \* what the warehouse holds for one key: a row of each concept
  Periodical,  \* requests for a period, as [words, unlimited, grain, today, dates]
  Calendar     \* the days a period is compared on

(* Requests are made of what is recognised, and the calendar has the two days before. *)
ASSUME PeriodAssumption ==
  /\ \A r \in Periodical : /\ r.grain \in {"month", "day"}
                           /\ r.today \in Dates
                           /\ r.words \in Seq(ToSet(r.words))
                           /\ \A e \in ToSet(r.words) : Expression(e)
                           /\ {DayBefore(r.today), DayBefore(DayBefore(r.today))} \subseteq Calendar
  /\ Calendar \subseteq Dates
  /\ IsFiniteSet(Calendar)

(* What a package is checked for before it is installed, as far as queries need it: a
   property has one domain, and the partition and the business dates of a concept are
   properties of it.  No identifier is one of the outcomes of a lookup. *)
Ontology(o) ==
  /\ o.concepts \in Seq(ToSet(o.concepts))
  /\ \A c \in ToSet(o.concepts) :
       /\ o.props[c] \in Seq(ToSet(o.props[c]))
       /\ \A e \in ToSet(o.concepts) \ {c} : ToSet(o.props[c]) \cap ToSet(o.props[e]) = {}
       /\ o.policy[c].state = "active" => o.policy[c].on \in ToSet(o.props[c])
       /\ DOMAIN o.dates[c] \subseteq ToSet(o.props[c])
  /\ {"ambiguous", "missing"} \cap (ToSet(o.concepts) \cup Props(o)) = {}
ASSUME OntologyAssumption == \A o \in Ontologies : Ontology(o)

(* What the models of a draft and of a request hold. *)
ASSUME DraftAssumption ==
  /\ \A d \in StepDrafts :
       /\ DOMAIN d = {"ambiguous", "intent", "steps"}
       /\ d.steps \in Seq(ToSet(d.steps))
       /\ \A s \in ToSet(d.steps) : s.objects \in Seq(ToSet(s.objects)) /\ s.from \in Seq(ToSet(s.from))
  /\ \A t \in TextRequests : DOMAIN t = {"text", "time"}

VARIABLE program \* [stage, o, draft, todo, bound, statements, code]

Base == "base"

(* What the models of a draft accept at all (DraftProgramStep, DraftSqlProgramPlan). *)
StepOf(steps, id) == CHOOSE s \in ToSet(steps) : s.id = id
Upstream(step) == ToSet(step.from) \ {Base}
WellFormed(d) ==
  LET ids == {s.id : s \in ToSet(d.steps)}
  IN /\ \A i, j \in DOMAIN d.steps : d.steps[i].id = d.steps[j].id => i = j
     /\ Cardinality({s \in ToSet(d.steps) : s.kind = "result"}) = 1
     /\ \A s \in ToSet(d.steps) : /\ Upstream(s) \subseteq ids \ {s.id}
                                  /\ Cardinality(ToSet(s.objects)) = Len(s.objects)
                                  /\ Len(s.from) = Len(s.objects)
ResultOf(d) == CHOOSE s \in ToSet(d.steps) : s.kind = "result"

(* _ordered_steps: layer by layer, in the order of the draft within a layer; the
   result is nobody's source and comes out last. *)
Ordered(steps) ==
  LET ready(done) == Those(steps, {x \in ToSet(steps) : x.id \notin done /\ Upstream(x) \subseteq done})
      layers[n \in 0 .. Len(steps)] ==
        IF n = 0 THEN <<>> ELSE layers[n - 1] \o ready({x.id : x \in ToSet(layers[n - 1])})
  IN layers[Len(steps)]

GraphHolds(d) ==
  /\ \A s \in ToSet(d.steps) : ResultOf(d).id \notin Upstream(s)
  /\ Len(Ordered(d.steps)) = Len(d.steps)
  /\ Last(Ordered(d.steps)) = ResultOf(d)

-------------------------------------------------------------------------------
NewProgram(o) == [stage |-> "binding", o |-> o, draft |-> <<>>, todo |-> <<>>, bound |-> <<>>,
                  statements |-> <<>>, code |-> "ok"]
Refuse(code) == program' = [program EXCEPT !.stage = "done", !.code = code]

(* GenericSqlCompiler on a bound step: base tables, or the table of an earlier step. *)
StatementOf(b) == [target |-> b.id, query |-> b.query, reads |-> b.from]

(* OntologyProgramBinder.bind until the first step is planned. *)
OrderSteps ==
  /\ program.stage = "draft"
  /\ IF program.draft.ambiguous THEN Refuse("clarify")
     ELSE IF ~GraphHolds(program.draft) THEN Refuse("repair")
     ELSE program' = [program EXCEPT !.stage = "binding", !.todo = Ordered(program.draft.steps)]

(* _validate_upstream_objects: an earlier step has the concept. *)
UpstreamHolds(step, bound) ==
  \A i \in DOMAIN step.from :
    step.from[i] # Base =>
      \E b \in ToSet(bound) : b.id = step.from[i] /\ step.objects[i] \in ToSet(b.objects)

(* One step of the loop of bind, which lets other errors through. *)
Severity(code) ==
  IF code = "failed" THEN "failed"
  ELSE IF code \in {"ambiguous", "clarify"} THEN "clarify" ELSE "unsupported"
Bind(step, query) ==
  IF ~UpstreamHolds(step, program.bound) THEN Refuse("unsupported")
  ELSE IF query.code # "ok" THEN Refuse(Severity(query.code))
  ELSE program' = [program EXCEPT !.todo = Tail(@),
         !.bound = Append(@, [id |-> step.id, kind |-> step.kind, objects |-> step.objects,
                              from |-> step.from, query |-> query])]
BindStep ==
  /\ program.stage = "binding" /\ program.todo # <<>>
  /\ Bind(Head(program.todo), PlanStep(program.o, Head(program.todo), program.draft.intent))

(* One data source, and a compiler for what it runs on. *)
FinishBinding ==
  /\ program.stage = "binding" /\ program.todo = <<>>
  /\ IF Cardinality({b.query.source : b \in ToSet(program.bound)}) # 1 THEN Refuse("unsupported")
     ELSE IF program.bound[1].query.source \notin program.o.hive THEN Refuse("no_compiler")
     ELSE program' = [program EXCEPT !.stage = "compiling"]

(* HiveProgramCompiler.compile, step by step, and validate_program at the end: what
   is read of the program was created before. *)
Created(statements, n) == {statements[i].target : i \in 1 .. n - 1}
ScriptHolds(statements) ==
  \A i \in DOMAIN statements : ToSet(statements[i].reads) \subseteq {Base} \cup Created(statements, i)

(* _object_for_ref: what a step calls a concept, by whichever of its names, is the name
   of one of the concepts planned and of no other. *)
NamesOne(o, concepts, ref) ==
  Cardinality({n \in DOMAIN concepts :
                 ref \in {concepts[n], o.short[concepts[n]], o.label[concepts[n]]}}) = 1
RefsHold(o, b) == \A ref \in ToSet(b.objects) : NamesOne(o, b.query.concepts, ref)

CompileProgram ==
  /\ program.stage = "compiling"
  /\ LET statements == [i \in DOMAIN program.bound |-> StatementOf(program.bound[i])]
     IN IF \E b \in ToSet(program.bound) : ~RefsHold(program.o, b) \/ ~Compiles(b.query)
        THEN Refuse("compile_error")
        ELSE IF ~ScriptHolds(statements) THEN Refuse("compile_error")
        ELSE program' = [program EXCEPT !.stage = "compiled", !.statements = statements]

(* OntologyPlanner.plan and GenericSqlCompiler on a text. *)
CompileQuery(query) ==
  IF query.code # "ok" THEN Refuse(query.code)
  ELSE IF ~Compiles(query) THEN Refuse("compile_error")
  ELSE program' = [program EXCEPT !.stage = "compiled",
         !.statements = <<[target |-> "result", query |-> query,
                           reads |-> [c \in DOMAIN query.concepts |-> Base]]>>]
CompileText ==
  /\ program.stage = "text"
  /\ CompileQuery(PlanText(program.o, program.draft.text, program.draft.time))

(* parse_temporal_intents for one policy. *)
KeepPeriod(period) ==
  IF period.code # "ok" THEN Refuse(period.code)
  ELSE program' = [program EXCEPT !.stage = "resolved", !.bound = period]
ResolvePeriod ==
  /\ program.stage = "period"
  /\ LET r == program.draft
     IN KeepPeriod(Resolved(r.words, r.unlimited, r.grain, r.today, r.dates))

ProgramInit ==
  \/ \E o \in Ontologies :
       \/ \E d \in {x \in StepDrafts : WellFormed(x)} :
            program = [NewProgram(o) EXCEPT !.stage = "draft", !.draft = d]
       \/ \E t \in TextRequests : program = [NewProgram(o) EXCEPT !.stage = "text", !.draft = t]
  \/ \E r \in Periodical : program = [NewProgram(<<>>) EXCEPT !.stage = "period", !.draft = r]

ProgramNext ==
  OrderSteps \/ BindStep \/ FinishBinding \/ CompileProgram \/ CompileText \/ ResolvePeriod

ProgramSpec == ProgramInit /\ [][ProgramNext]_program

-------------------------------------------------------------------------------
(* The platform runs the statements one after the other.  A table has the columns that
   were selected and, for the key that is looked at, a row or none. *)
Meets(o, cond, w) ==
  LET row == w[Owner(o, cond.on)]
  IN IF cond.what = "period" THEN row # "out"
     ELSE IF cond.what = "date" THEN row # "late" ELSE row # "off"

Fields(o, ps) == {o.field[p] : p \in ps}
RunStatement(o, st, tables, w) ==
  LET q == st.query
      read(n) == {p \in ReadFields(o, q) : p \in ToSet(o.props[q.concepts[n]])}
      earlier == {n \in DOMAIN st.reads : st.reads[n] # Base}
      failed == {n \in earlier : st.reads[n] \in DOMAIN tables /\ tables[st.reads[n]].error # "none"}
  IN IF \E i \in earlier : st.reads[i] \notin DOMAIN tables THEN [error |-> "no_table"]
     ELSE IF failed # {} THEN tables[st.reads[CHOOSE n \in failed : TRUE]]
     ELSE IF \/ \E i \in earlier : ~(Fields(o, read(i)) \subseteq tables[st.reads[i]].columns)
             \/ Cardinality(Fields(o, ToSet(q.selections))) # Len(q.selections)
          THEN [error |-> "columns"]
     ELSE [error |-> "none", columns |-> Fields(o, ToSet(q.selections)),
           row |-> /\ \A n \in DOMAIN st.reads :
                        IF n \in earlier THEN tables[st.reads[n]].row ELSE w[q.concepts[n]] # "none"
                   /\ \A cond \in Conditions(q) : Meets(o, cond, w)]

Run(o, statements, w) ==
  LET after[n \in 0 .. Len(statements)] ==
        IF n = 0 THEN <<>>
        ELSE [t \in DOMAIN after[n - 1] \cup {statements[n].target} |->
                IF t = statements[n].target THEN RunStatement(o, statements[n], after[n - 1], w)
                ELSE after[n - 1][t]]
  IN after[Len(statements)][Last(statements).target]

(* What was asked for, whatever the order of the steps: the steps the result is made
   of, and of every concept they read a row that is there, in the period, on the dates
   and not excluded by a rule or constraint of one of these steps.  A rule of a concept
   without a condition excludes nothing; a condition may read other concepts. *)
MadeOf(d, step) ==
  LET whole(S) == step \in S /\ \A s \in S : \A id \in Upstream(s) : StepOf(d.steps, id) \in S
  IN {s \in ToSet(d.steps) : \A S \in SUBSET ToSet(d.steps) : whole(S) => s \in S}

RowAsked(o, c, time, w) ==
  /\ w[c] # "none"
  /\ o.policy[c].state = "active" =>
       /\ w[c] # "out"
       /\ PeriodOf(o, c, time).business # {} => w[c] # "late"
RulesHold(o, c, rules, w) ==
  \A r \in rules : r.on = c /\ r.active => \A p \in r.reads : w[Owner(o, p)] # "off"

StepAsked(o, s, intent, w) ==
  \A i \in DOMAIN s.objects :
    LET c == GetConcept(o, s.objects[i])
    IN /\ RowAsked(o, c, intent.time, w)
       /\ RulesHold(o, c, {r \in o.rules : s.rules = {} \/ r.uri \in s.rules}, w)
       /\ w[c] = "off" => ~\E x \in intent.constraints \cup s.constraints :
                              ResolveProperty(o, c, x.on) # "missing"
StepsAsked(o, d, w) == \A s \in MadeOf(d, ResultOf(d)) : StepAsked(o, s, d.intent, w)
TextAsked(o, t, w) ==
  \A c \in ToSet(Matched(o, t.text)) : RowAsked(o, c, t.time, w) /\ RulesHold(o, c, o.rules, w)

(* A compiled program gives what was asked for, nothing more and nothing less, in every
   state of the warehouse: no row from outside the period, none that an active rule
   excludes, none missing because steps ran in the wrong order
   (OntologyProgramBinder.bind, HiveProgramCompiler.compile, OntologyPlanner.plan).
   What the platform refuses is excepted: a step that reads, of an earlier step, columns
   that step did not select. *)
ProgramMeansIntent ==
  program.stage = "compiled" =>
    \A w \in QueryWorlds :
      LET got == Run(program.o, program.statements, w)
      IN got.error # "columns" =>
           /\ got.error = "none"
           /\ got.row <=> IF "steps" \in DOMAIN program.draft THEN StepsAsked(program.o, program.draft, w)
                          ELSE TextAsked(program.o, program.draft, w)

(* The days an expression means, by counting in the calendar from today.  Two are read
   wider than they are written: a day written out, in a table by month, as the month it
   lies in, and a day without its year as its month. *)
MonthsAgo(d, today) == (today[1] - d[1]) * 12 + today[2] - d[2]
DaysAgo(d, today) ==
  Cardinality({x \in Calendar : DayValue(d) <= DayValue(x) /\ DayValue(x) < DayValue(today)})
Before(d, e) == DayValue(d) <= DayValue(e)

Asked(e, d, grain, today) ==
  CASE e.kind = "month_range" -> /\ MonthValue(e.from[1], e.from[2]) <= MonthValue(d[1], d[2])
                                 /\ MonthValue(d[1], d[2]) <= MonthValue(e.to[1], e.to[2])
    [] e.kind = "recent" -> MonthsAgo(d, today) \in 1 .. e.count
    [] e.kind = "this_month" -> MonthsAgo(d, today) = 0
    [] e.kind = "last_month" -> MonthsAgo(d, today) = 1
    [] e.kind = "month" -> <<d[1], d[2]>> = <<e.from[1], e.from[2]>>
    [] e.kind \in {"yearless_month", "yearless_day"} -> <<d[1], d[2]>> = <<today[1], e.month>>
    [] e.kind = "written_day" /\ grain = "month" -> <<d[1], d[2]>> = <<e.from[1], e.from[2]>>
    [] e.kind = "written_day" /\ grain = "day" -> d = e.from
    [] e.kind = "day" -> d = e.from
    [] e.kind = "day_range" -> Before(e.from, d) /\ Before(d, e.to)
    [] e.kind = "today" -> d = today
    [] e.kind = "yesterday" -> Before(d, today) /\ DaysAgo(d, today) = 1
    [] e.kind = "day_before" -> Before(d, today) /\ DaysAgo(d, today) = 2
DefaultAsked(d, r) ==
  IF r.grain = "month" THEN MonthsAgo(d, r.today) = 1
  ELSE Before(d, r.today) /\ DaysAgo(d, r.today) = 2

(* The days the partition of a query holds, and the expressions of its request that are
   not about a business date. *)
InPeriod(d) ==
  LET value == IF program.draft.grain = "month" THEN MonthValue(d[1], d[2]) ELSE DayValue(d)
  IN program.bound.partition[1] <= value /\ value <= program.bound.partition[2]
Stated(r) == {e \in ToSet(r.words) : e.near \notin DOMAIN r.dates}

(* The period of a query holds the days every time expression of the request means and
   no other; without one, the last complete month or the day before yesterday.  A date
   that stands next to a business date bounds that date and not the partition
   (parse_temporal_intents).  Excepted is what a table by month passes over: a day in
   digits, today, yesterday.  StatedTimeWins says what becomes of a request that says
   nothing else. *)
PeriodIsTheOneAsked ==
  program.stage = "resolved" =>
    LET r == program.draft
        heard == {e \in ToSet(r.words) : ~PassedOver(e, r.grain)}
        own == Stated(r) \cap heard
        asked(e, d) == Asked(e, d, r.grain, r.today)
    IN \A d \in Calendar :
         /\ InPeriod(d) <=> IF own = {} THEN DefaultAsked(d, r) ELSE \E e \in own : asked(e, d)
         /\ \A e \in heard \ own : \E b \in program.bound.business :
              b.on = e.near /\ (asked(e, d) <=> b.first <= DayValue(d) /\ DayValue(d) <= b.last)

(* A time the user states has priority over the default, and one that does not fit the
   grain of the table is refused: a query whose request states a time looks at a day of
   it.  It does not hold: a table by month passes over a day in digits, and the request
   gets the last complete month instead, without an error (parse_temporal_intents). *)
StatedTimeWins ==
  program.stage = "resolved" /\ Stated(program.draft) # {} =>
    \E d \in Calendar : InPeriod(d) /\ \E e \in Stated(program.draft) :
      Asked(e, d, program.draft.grain, program.draft.today)

(* What a request gets is what it means: its programs give what was asked for, and its
   period holds the days that were. *)
QueriesMeanTheRequest == ProgramMeansIntent /\ PeriodIsTheOneAsked
===============================================================================
