--------------------------- MODULE AttendanceReport ---------------------------
(***************************************************************************)
(* How the days of a report are paired and its overtime is credited:       *)
(* pair_employee_punches (app/services/report_service.py) for one          *)
(* employee. It walks through the days of a range in order, with a running *)
(* total of overtime for each month. The same days are asked for in many   *)
(* ranges: 30 days by the portal, any range by the reports, one day by the *)
(* nightly scan. Report s is the one that begins on day s; after each step *)
(* it is the report that ends there. All see the same days.                *)
(*                                                                         *)
(* Durations are whole ticks, multipliers whole numbers: the rounding to   *)
(* two digits in each record is left out.                                  *)
(***************************************************************************)
EXTENDS Integers, FiniteSets

CONSTANTS
  LastDay,   \* the days are 1..LastDay; day 1 is a Monday
  DayTicks,  \* the ticks of a day are 0..DayTicks-1
  MonthOf,   \* [Days -> Nat]: the (year, month) of a day
  Shifts     \* the schedules a day may resolve to, see ShiftRoster

Days == 1 .. LastDay
Ticks == 0 .. DayTicks - 1
Months == {MonthOf[d] : d \in Days}

\* The columns of shift_schedules the pairing reads; cap 0 stands for none.
Shift == [cyclic : BOOLEAN, working : SUBSET Nat, interval : Nat \ {0}, anchor : Int,
          lateAfter : Nat, after : Nat, threshold : Nat, mult1 : Nat, mult2 : Nat,
          restMult : Nat, holidayMult : Nat, cap : Nat]

ASSUME ReportConstants ==
  /\ LastDay \in Nat \ {0} /\ DayTicks \in Nat \ {0}
  /\ MonthOf \in [Days -> Nat]
  /\ Shifts \subseteq Shift

VARIABLES
  day,          \* the next day to be paired
  preloads,     \* the reports that work on preloaded tables (Excel, work hours)
  legacy,       \* days with a punch that has no tz offset, the day before and after included
  branchKnown,  \* whether the employee has an active device with a branch
  state,        \* [Days -> ...]: of each report
  credited,     \* [Days -> Int]: overtime each report has credited for the latest day
  cap,          \* the cap of the shift of that day
  month,        \* [Days -> [Months -> Int]]: cumulative_ot_by_month of each report
  total         \* [Days -> counts of the report]

vars == <<day, preloads, legacy, branchKnown, state, credited, cap, month, total>>

------------------------------------------------------------------------------
(* One day *)

\* What is punched at each tick of the (local) day.
Kinds == {"none", "In", "Out", "break_start", "break_end"}
Punched(p, kind) == {t \in Ticks : p[t] = kind}

IsWorkingDay(shift, d) ==
  LET index == IF shift.cyclic THEN ((d - shift.anchor) % shift.interval) + 1
                               ELSE ((d - 1) % 7) + 1
  IN index \in shift.working

\* A break ends the latest break begun since the last end.
IsBreak(p, b, e) ==
  /\ b < e /\ p[b] = "break_start" /\ p[e] = "break_end"
  /\ \A t \in Ticks : b < t /\ t < e => p[t] \notin {"break_start", "break_end"}
BreakTicks(p) == {t \in Ticks : \E b, e \in Ticks : IsBreak(p, b, e) /\ b <= t /\ t < e}

Positive(n) == IF n > 0 THEN n ELSE 0

\* From the first In to the last Out, less the breaks (nothing if the last Out is first).
Paired(p) == Punched(p, "In") # {} /\ Punched(p, "Out") # {}
WorkTicks(p) ==
  {t \in Ticks : \E i \in Punched(p, "In"), o \in Punched(p, "Out") : i <= t /\ t < o}
NetWork(p) == Positive(Cardinality(WorkTicks(p)) - Cardinality(BreakTicks(p)))

\* The first In is later than the grace allows.
Late(shift, p) == \A t \in Punched(p, "In") : t > shift.lateAfter

\* Overtime as the policy weighs it, before the cap.
Weighted(shift, net, holiday, working) ==
  LET raw == Positive(net - shift.after)
      first == IF raw < shift.threshold THEN raw ELSE shift.threshold
  IN IF holiday THEN net * shift.holidayMult
     ELSE IF ~working THEN net * shift.restMult
     ELSE first * shift.mult1 + (raw - first) * shift.mult2

\* The verdict on a day: its standing, its overtime, and the cap that applies. A paired
\* day is "Present", even on a holiday or a leave; a day with other punches is "Missing
\* Punch" and counts as present as well.
Verdict(d, shift, p, holiday, leave) ==
  LET working == IsWorkingDay(shift, d)
      any == \E t \in Ticks : p[t] # "none"
  IN [standing |-> CASE Paired(p) -> "Present"
                     [] any /\ ~Paired(p) -> "MissingPunch"
                     [] ~any /\ working /\ ~holiday /\ ~leave -> "Absent"
                     [] OTHER -> "off",
      late     |-> Paired(p) /\ Late(shift, p),
      overtime |-> IF Paired(p) THEN Weighted(shift, NetWork(p), holiday, working) ELSE 0,
      cap      |-> shift.cap]

\* Everything a day may bring.
Verdicts ==
  [d \in Days |->
     {Verdict(d, shift, p, holiday, leave) :
        shift \in Shifts, p \in [Ticks -> Kinds], holiday \in BOOLEAN, leave \in BOOLEAN}]

\* Mutants: the day that reaches the cap is credited whole; a lower cap than that of the
\* days before takes overtime back.
CreditLastWhole(v, soFar) == IF v.cap > 0 /\ soFar >= v.cap THEN 0 ELSE v.overtime
CreditTakenBack(v, soFar) ==
  IF v.cap > 0 /\ soFar + v.overtime > v.cap THEN v.cap - soFar ELSE v.overtime

\* The monthly cap: what is still left of it when soFar has been credited.
Credit(v, soFar) ==
  IF v.standing # "Present" THEN 0
  ELSE IF v.cap = 0 THEN v.overtime
  ELSE IF soFar >= v.cap THEN 0
  ELSE IF soFar + v.overtime > v.cap THEN v.cap - soFar
  ELSE v.overtime

------------------------------------------------------------------------------
(* The reports *)

NoCounts == [present |-> 0, absent |-> 0, late |-> 0, anomalies |-> 0, overtime |-> 0]

Init ==
  /\ day = 1
  /\ preloads \in {{}, Days}
  /\ legacy \in {{}} \union {{d} : d \in 0 .. LastDay + 1}
  /\ branchKnown \in BOOLEAN
  /\ state = [s \in Days |-> "waiting"]
  /\ credited = [s \in Days |-> 0]
  /\ cap = 0
  /\ month = [s \in Days |-> [m \in Months |-> 0]]
  /\ total = [s \in Days |-> NoCounts]

\* The punches of a range are read from the day before it to the day after it and sorted
\* into local days. One without an offset needs the branch of the employee, which the code
\* has no name for if there is none (UnboundLocalError).
Groups(s) == branchKnown \/ \A d \in legacy : d < s - 1

\* The tables a report preloads for the roster are those of one employee, a list, where
\* resolve_employee_shift looks up the employee (AttributeError).
Resolves(s) == s \notin preloads

\* Does the report that begins on s go on to the present day?
Runs(s) == state[s] \in {"waiting", "running"} /\ s <= day /\ Groups(s) /\ Resolves(s)

\* Mutants: one running total for all months; the day's credit replaces the total.
TotalOfAll(s, c) == [m \in Months |-> month[s][m] + c]
LatestOnly(s, c) == [month[s] EXCEPT ![MonthOf[day]] = c]

\* cumulative_ot_by_month after the day is credited with c.
MonthWith(s, c) == [month[s] EXCEPT ![MonthOf[day]] = @ + c]

Counted(t, v, c) ==
  [present   |-> t.present + IF v.standing \in {"Present", "MissingPunch"} THEN 1 ELSE 0,
   absent    |-> t.absent + IF v.standing = "Absent" THEN 1 ELSE 0,
   late      |-> t.late + IF v.late THEN 1 ELSE 0,
   anomalies |-> t.anomalies + IF v.standing = "MissingPunch" THEN 1 ELSE 0,
   overtime  |-> t.overtime + c]

\* Every report that covers the day pairs it, or ends in the exception.
PairDay ==
  /\ day <= LastDay
  /\ \E v \in Verdicts[day] :
       LET c == [s \in Days |-> IF Runs(s) THEN Credit(v, month[s][MonthOf[day]]) ELSE 0]
       IN /\ credited' = c
          /\ cap' = v.cap
          /\ month' = [s \in Days |-> IF Runs(s) THEN MonthWith(s, c[s]) ELSE month[s]]
          /\ total' = [s \in Days |-> IF Runs(s) THEN Counted(total[s], v, c[s]) ELSE total[s]]
  /\ state' = [s \in Days |-> IF s > day THEN "waiting"
                              ELSE IF Runs(s) THEN "running" ELSE "error"]
  /\ day' = day + 1
  /\ UNCHANGED <<preloads, legacy, branchKnown>>

Next == PairDay

Spec == Init /\ [][Next]_vars

------------------------------------------------------------------------------
(* Properties *)

Counts == [present : Nat, absent : Nat, late : Nat, anomalies : Nat, overtime : Nat]

\* Every variable has its type; no credit and no total is ever negative.
TypeOK ==
  /\ day \in 1 .. LastDay + 1
  /\ preloads \in SUBSET Days
  /\ legacy \in SUBSET (0 .. LastDay + 1)
  /\ branchKnown \in BOOLEAN
  /\ state \in [Days -> {"waiting", "running", "error"}]
  /\ credited \in [Days -> Nat]
  /\ cap \in Nat
  /\ month \in [Days -> [Months -> Nat]]
  /\ total \in [Days -> Counts]

Latest == MonthOf[day - 1]   \* the month of the latest day paired

\* The monthly cap holds whenever a capped day is credited, although the shift, and with
\* it the cap, may change from day to day.
CapHolds ==
  \A s \in Days : cap > 0 /\ credited[s] > 0 => month[s][Latest] <= cap

\* The cap makes the overtime of a day depend on where the report begins, in one direction
\* only: a report that begins earlier never credits a day with more. So the overtime of a
\* range is never more than that of its parts.
LongerRangeCreditsLess ==
  \A s, t \in Days :
    s <= t /\ state[s] = "running" /\ state[t] = "running" => credited[s] <= credited[t]

\* Reports that contain a month from its first day on agree on all of its overtime.
FullMonthsAgree ==
  \A s, t \in Days :
    /\ state[s] = "running" /\ state[t] = "running"
    /\ \A d \in 1 .. day - 1 : MonthOf[d] = Latest => s <= d /\ t <= d
    => /\ credited[s] = credited[t]
       /\ month[s][Latest] = month[t][Latest]

\* report_service.py: generate_excel_report "Generates a [...] HR monthly/weekly Excel
\* sheet". A report of an employee whose punches carry their offset is completed.
ReportsComplete ==
  \A s \in Days : legacy = {} => state[s] # "error"
==============================================================================
