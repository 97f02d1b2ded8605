------------------------------- MODULE MCPeriods -------------------------------
(* Requests that state one time or none, by themselves, for TLC. *)
EXTENDS ProgramPlans

None == {}
FourMonths == {d \in {2024} \X (1 .. 4) \X (1 .. 31) : RealDate(d)}

Today   == <<2024, 4, 15>>
LeapDay == <<2024, 2, 29>>
StatedTimes == {
  [words |-> ws, unlimited |-> FALSE, grain |-> grain, today |-> Today, dates |-> <<>>] :
    ws \in {<<>>} \cup {<<e>> : e \in {
      [kind |-> "month", from |-> <<2024, 2>>, near |-> "none"],
      [kind |-> "written_day", from |-> LeapDay, near |-> "none"],
      [kind |-> "day", from |-> LeapDay, near |-> "none"]}},
    grain \in {"month", "day"}}
================================================================================
