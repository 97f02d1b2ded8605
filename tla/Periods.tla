---------------------------------- MODULE Periods ----------------------------------
(***************************************************************************)
(* The period a request asks for (temporal.py), and the field that bounds  *)
(* it (temporal_conventions.py).                                           *)
(*                                                                         *)
(* A request is read as its time expressions, in order: an expression is   *)
(* a record whose "kind" says what was recognised and "near" the property  *)
(* whose name stands next to it, if any.  Months and days are numbers like *)
(* 202402 and 20240229, as in the code.                                    *)
(***************************************************************************)
EXTENDS Integers, Sequences, FiniteSets
LOCAL INSTANCE SequencesExt

NoProperty == "none"

(* The calendar: <<year, month, day>>. *)
MonthDays(y, m) ==
  IF m = 2 THEN IF (y % 4 = 0 /\ y % 100 # 0) \/ y % 400 = 0 THEN 29 ELSE 28
  ELSE IF m \in {4, 6, 9, 11} THEN 30 ELSE 31
RealDate(d) == d[2] \in 1 .. 12 /\ d[3] \in 1 .. MonthDays(d[1], d[2])

DayBefore(d) ==
  IF d[3] > 1 THEN <<d[1], d[2], d[3] - 1>>
  ELSE IF d[2] > 1 THEN <<d[1], d[2] - 1, MonthDays(d[1], d[2] - 1)>>
  ELSE <<d[1] - 1, 12, 31>>

MonthValue(y, m) == y * 100 + m
DayValue(d) == d[1] * 10000 + d[2] * 100 + d[3]
FirstDay(month) == month * 100 + 1
LastDay(month) == (month * 100) + MonthDays(month \div 100, month % 100)

(* _shift_month *)
ShiftMonth(d, offset) ==
  LET index == d[1] * 12 + d[2] - 1 + offset IN <<index \div 12, (index % 12) + 1>>
LastMonth(today) == LET m == ShiftMonth(today, -1) IN MonthValue(m[1], m[2])

-------------------------------------------------------------------------------
(* A "day" is written with digits, 20240215 or 2024-02-15; a "written_day" is
   written out with its year, month and day (_CHINESE_DAY); a "yearless_day" has the
   month and the day only, for which there is no pattern but that of the month. *)
MonthKinds == {"month_range", "recent", "this_month", "last_month", "month", "yearless_month", "yearless_day"}
DayKinds   == {"day", "day_range", "today", "yesterday", "day_before", "written_day"}

(* What the patterns of temporal.py match: a month is one of twelve, a count is not
   zero, but a day need not exist. *)
Months == Int \X (1 .. 12)
Dates  == {d \in Int \X (1 .. 12) \X (1 .. 31) : RealDate(d)}
Expression(e) ==
  /\ e.kind \in MonthKinds \cup DayKinds
  /\ e.kind \in {"month", "month_range"} => e.from \in Months
  /\ e.kind = "month_range" => e.to \in Months
  /\ e.kind \in {"yearless_month", "yearless_day"} => e.month \in 1 .. 12
  /\ e.kind = "recent" => e.count \in Nat \ {0}
  /\ e.kind \in {"day", "day_range"} => e.from \in Int \X Int \X Int
  /\ e.kind = "day_range" => e.to \in Int \X Int \X Int
  /\ e.kind = "written_day" => e.from \in Int \X (1 .. 12) \X (1 .. 31)

(* _month_tokens: an expression that names months, as the first and the last.  The
   pattern of a month also finds the month in a day that is written out. *)
MonthSpan(e, today) ==
  CASE e.kind = "month_range" -> <<MonthValue(e.from[1], e.from[2]), MonthValue(e.to[1], e.to[2])>>
    [] e.kind = "recent" ->
         LET last == ShiftMonth(today, -1)
             first == ShiftMonth(last, -(e.count - 1))
         IN <<MonthValue(first[1], first[2]), MonthValue(last[1], last[2])>>
    [] e.kind = "this_month" -> <<MonthValue(today[1], today[2]), MonthValue(today[1], today[2])>>
    [] e.kind = "last_month" -> <<LastMonth(today), LastMonth(today)>>
    [] e.kind \in {"month", "written_day"} -> <<MonthValue(e.from[1], e.from[2]), MonthValue(e.from[1], e.from[2])>>
    [] e.kind \in {"yearless_month", "yearless_day"} ->
         <<MonthValue(today[1], e.month), MonthValue(today[1], e.month)>>

(* _day_tokens: days, and months widened to their days. *)
DaySpan(e, today) ==
  CASE e.kind \in {"day", "written_day"} -> <<DayValue(e.from), DayValue(e.from)>>
    [] e.kind = "day_range" -> <<DayValue(e.from), DayValue(e.to)>>
    [] e.kind = "today" -> <<DayValue(today), DayValue(today)>>
    [] e.kind = "yesterday" -> <<DayValue(DayBefore(today)), DayValue(DayBefore(today))>>
    [] e.kind = "day_before" ->
         <<DayValue(DayBefore(DayBefore(today))), DayValue(DayBefore(DayBefore(today)))>>
    [] e.kind \in MonthKinds -> <<FirstDay(MonthSpan(e, today)[1]), LastDay(MonthSpan(e, today)[2])>>

(* What is recognised depends on the grain of the table: where a partition is a month,
   only the patterns of months are tried, and a day in digits, a range of them, today,
   yesterday and the day before are passed over without a word. *)
PassedOver(e, grain) == grain = "month" /\ e.kind \in DayKinds \ {"written_day"}
Tokens(request, grain) == {e \in ToSet(request) : ~PassedOver(e, grain)}
Span(e, grain, today) == IF grain = "month" THEN MonthSpan(e, today) ELSE DaySpan(e, today)

(* Dates that do not exist and ranges that run backwards are refused.  Of a day that is
   written out this is not looked at first: the date raises, and not the error of a
   period (_day_tokens). *)
NotADate(e, grain) == grain = "day" /\ e.kind = "written_day" /\ ~RealDate(e.from)
Unreadable(e, grain, today) ==
  \/ e.kind \in {"day", "day_range"} /\ ~RealDate(e.from)
  \/ e.kind = "day_range" /\ ~RealDate(e.to)
  \/ e.kind \in {"month_range", "day_range"} /\ Span(e, grain, today)[1] > Span(e, grain, today)[2]

(* The default: the last complete month, or two days ago. *)
DefaultSpan(grain, today) ==
  IF grain = "month" THEN <<LastMonth(today), LastMonth(today)>>
  ELSE <<DayValue(DayBefore(DayBefore(today))), DayValue(DayBefore(DayBefore(today)))>>

(* A mutant: beside a range, whatever else is said is taken for its ends. *)
DistinctAnyRange(spans) ==
  LET ranges == {s \in spans : s[1] # s[2]}
  IN IF Cardinality(ranges) # 1 THEN spans ELSE ranges

(* A range may repeat its ends; anything else that differs is a conflict. *)
Distinct(spans) ==
  LET ranges == {s \in spans : s[1] # s[2]}
  IN IF Cardinality(ranges) # 1 THEN spans
     ELSE LET r == CHOOSE s \in ranges : TRUE
          IN IF spans = {r, <<r[1], r[1]>>, <<r[2], r[2]>>} THEN {r} ELSE spans

(* parse_temporal_intents, for a partition of a grain; dates gives the properties of
   the concept that may be business dates, with TRUE for those whose type is a date. *)
Resolved(request, unlimited, grain, today, dates) ==
  LET tokens   == Tokens(request, grain)
      business == {e \in tokens : e.near \in DOMAIN dates}
      bound(e, span) == [on |-> e.near, first |-> FirstDay(span[1]), last |-> LastDay(span[2])]
      period(spans) ==
        IF Cardinality(spans) > 1 THEN [code |-> "conflicting_partition_time"]
        ELSE [code |-> "ok",
              partition |-> IF spans = {} THEN DefaultSpan(grain, today) ELSE CHOOSE s \in spans : TRUE,
              business |-> {bound(e, Span(e, grain, today)) : e \in business}]
  IN IF unlimited THEN [code |-> "unbounded_time"]
     ELSE IF \E e \in tokens : Unreadable(e, grain, today) THEN [code |-> "invalid_period"]
     ELSE IF \E e \in tokens : NotADate(e, grain) THEN [code |-> "not_a_date"]
     ELSE IF \E e \in business : ~dates[e.near] \/ grain = "day"
     THEN [code |-> "unsupported_business_date_type"]
     ELSE period(Distinct({Span(e, grain, today) : e \in tokens \ business}))

-------------------------------------------------------------------------------
(* partition_convention and catalog_partition_rules: the name of a table says which
   field bounds it; the fields of a concept are a set of <<property, field>>. *)
Convention == [D |-> [field |-> "P_DAY", grain |-> "day"], M |-> [field |-> "P_MON", grain |-> "month"]]
Matches(suffix, fields) == {f[1] : f \in {x \in fields : x[2] = Convention[suffix].field}}

(* with_automatic_temporal_policies and get_temporal_policy: a table with such a name
   has exactly the policy its name says, or none that can be used; another table keeps
   what the package says. *)
NoPolicy == [state |-> "none"]
PolicyOf(suffix, fields, declared) ==
  IF suffix \notin DOMAIN Convention THEN declared
  ELSE LET found == Matches(suffix, fields)
       IN IF Cardinality(found) # 1 THEN [state |-> "unusable"]
          ELSE [state |-> "active", on |-> CHOOSE p \in found : TRUE, grain |-> Convention[suffix].grain]
===============================================================================
