----------------------- MODULE AttendanceReport_proofs -----------------------
(***************************************************************************)
(* Theorems about AttendanceReport, for ranges of any length, any division *)
(* into months and any shifts.  What a report credits a day with depends   *)
(* on its running total of the month alone, so the invariant compares the  *)
(* totals of two reports: the one that began earlier has at least as much, *)
(* and as much if neither has missed a day of the month.                   *)
(***************************************************************************)
EXTENDS AttendanceReport, FiniteSetTheorems, TLAPS

VerdictRecord == [standing : {"Present", "MissingPunch", "Absent", "off"},
                  late : BOOLEAN, overtime : Nat, cap : Nat]

------------------------------------------------------------------------------
(* One day *)

LEMMA TicksFinite ==
  ASSUME NEW T \in SUBSET Ticks PROVE Cardinality(T) \in Nat
<1>1. IsFiniteSet(Ticks)
  BY FS_Interval, ReportConstants DEF Ticks
<1>2. IsFiniteSet(T)
  BY <1>1, FS_Subset
<1> QED BY <1>2, FS_CardinalityType

LEMMA NetWorkType == ASSUME NEW p PROVE NetWork(p) \in Nat
<1>1. Cardinality(WorkTicks(p)) \in Nat
  BY TicksFinite DEF WorkTicks
<1>2. Cardinality(BreakTicks(p)) \in Nat
  BY TicksFinite DEF BreakTicks
<1> QED BY <1>1, <1>2 DEF NetWork, Positive

LEMMA ProductType == ASSUME NEW m \in Nat, NEW n \in Nat PROVE m * n \in Nat
OBVIOUS

LEMMA WeightedType ==
  ASSUME NEW shift \in Shift, NEW net \in Nat, NEW holiday \in BOOLEAN,
         NEW working \in BOOLEAN
  PROVE  Weighted(shift, net, holiday, working) \in Nat
<1> DEFINE raw == Positive(net - shift.after)
           first == IF raw < shift.threshold THEN raw ELSE shift.threshold
<1>1. /\ shift.after \in Nat /\ shift.threshold \in Nat
      /\ shift.mult1 \in Nat /\ shift.mult2 \in Nat
      /\ shift.restMult \in Nat /\ shift.holidayMult \in Nat
  BY DEF Shift
<1>2. raw \in Nat /\ first \in Nat /\ raw - first \in Nat
  BY <1>1 DEF Positive
<1>3. /\ net * shift.holidayMult \in Nat /\ net * shift.restMult \in Nat
      /\ first * shift.mult1 \in Nat /\ (raw - first) * shift.mult2 \in Nat
  <2> HIDE DEF raw, first
  <2> QED BY <1>1, <1>2, ProductType
<1> HIDE DEF raw, first
<1>4. first * shift.mult1 + (raw - first) * shift.mult2 \in Nat
  BY <1>3
<1> QED BY <1>3, <1>4 DEF Weighted, raw, first

LEMMA VerdictType ==
  ASSUME NEW d \in Days, NEW v \in Verdicts[d] PROVE v \in VerdictRecord
<1>1. PICK shift \in Shifts, p \in [Ticks -> Kinds], holiday \in BOOLEAN,
           leave \in BOOLEAN : v = Verdict(d, shift, p, holiday, leave)
  BY DEF Verdicts
<1>2. shift \in Shift /\ shift.cap \in Nat
  BY ReportConstants DEF Shift
<1> DEFINE working == IsWorkingDay(shift, d)
<1>3. working \in BOOLEAN
  BY DEF IsWorkingDay
<1>4. Weighted(shift, NetWork(p), holiday, working) \in Nat
  BY <1>2, <1>3, NetWorkType, WeightedType
<1>5. (Paired(p) /\ Late(shift, p)) \in BOOLEAN
  BY DEF Paired
<1> QED BY <1>1, <1>2, <1>4, <1>5 DEF Verdict, VerdictRecord

LEMMA CountedType ==
  ASSUME NEW t \in Counts, NEW v \in VerdictRecord, NEW n \in Nat
  PROVE  Counted(t, v, n) \in Counts
<1>1. /\ t.present \in Nat /\ t.absent \in Nat /\ t.late \in Nat
      /\ t.anomalies \in Nat /\ t.overtime \in Nat
  BY DEF Counts
<1>2. /\ t.present + (IF v.standing \in {"Present", "MissingPunch"} THEN 1 ELSE 0) \in Nat
      /\ t.absent + (IF v.standing = "Absent" THEN 1 ELSE 0) \in Nat
      /\ t.late + (IF v.late THEN 1 ELSE 0) \in Nat
      /\ t.anomalies + (IF v.standing = "MissingPunch" THEN 1 ELSE 0) \in Nat
      /\ t.overtime + n \in Nat
  BY <1>1
<1> QED BY <1>2 DEF Counted, Counts

\* What is credited with more overtime before: no more, and never so much less that the
\* total would be smaller.
LEMMA CreditMonotone ==
  ASSUME NEW v \in VerdictRecord, NEW a \in Nat, NEW b \in Nat, b <= a
  PROVE  /\ Credit(v, a) \in Nat
         /\ Credit(v, a) <= Credit(v, b)
         /\ b + Credit(v, b) <= a + Credit(v, a)
         /\ v.cap > 0 /\ Credit(v, a) > 0 => a + Credit(v, a) <= v.cap
<1> DEFINE o == v.overtime
           k == v.cap
<1>1. o \in Nat /\ k \in Nat
  BY DEF VerdictRecord
<1>2. \A n \in Nat : Credit(v, n) = IF v.standing # "Present" THEN 0
                                    ELSE IF k = 0 THEN o
                                    ELSE IF n >= k THEN 0
                                    ELSE IF n + o > k THEN k - n ELSE o
  BY DEF Credit
<1> HIDE DEF o, k
<1>3. CASE v.standing # "Present"
  BY <1>1, <1>2, <1>3
<1>4. CASE v.standing = "Present" /\ k = 0
  BY <1>1, <1>2, <1>4 DEF k
<1>5. CASE v.standing = "Present" /\ k # 0
  BY <1>1, <1>2, <1>5 DEF k
<1> QED BY <1>3, <1>4, <1>5

------------------------------------------------------------------------------
(* The reports *)

Sound(s) == state[s] # "error"

\* The report that begins on s has missed no day of month m so far.
Whole(s, m) == \A d \in 1 .. day - 1 : MonthOf[d] = m => s <= d

WaitingIsAhead == \A s \in Days : state[s] = "waiting" <=> day <= s
WaitingIsEmpty == \A s \in Days : state[s] = "waiting" => \A m \in Months : month[s][m] = 0

EarlierHasMore ==
  \A s, t \in Days : s <= t /\ Sound(s) /\ Sound(t) =>
    \A m \in Months : month[t][m] <= month[s][m]

WholeMonthsAgree ==
  \A s, t \in Days, m \in Months :
    Sound(s) /\ Sound(t) /\ Whole(s, m) /\ Whole(t, m) => month[s][m] = month[t][m]

ReportInv == /\ TypeOK /\ WaitingIsAhead /\ WaitingIsEmpty
             /\ EarlierHasMore /\ WholeMonthsAgree
             /\ CapHolds /\ LongerRangeCreditsLess /\ FullMonthsAgree

LEMMA ReportInit == Init => ReportInv
<1> SUFFICES ASSUME Init PROVE ReportInv
  OBVIOUS
<1>1. TypeOK
  BY ReportConstants DEF Init, TypeOK, Days, NoCounts, Counts
<1>2. WaitingIsAhead /\ WaitingIsEmpty
  BY ReportConstants DEF Init, WaitingIsAhead, WaitingIsEmpty, Days
<1>3. EarlierHasMore /\ WholeMonthsAgree
  BY DEF Init, EarlierHasMore, WholeMonthsAgree
<1>4. CapHolds
  BY DEF Init, CapHolds
<1>5. LongerRangeCreditsLess /\ FullMonthsAgree
  BY DEF Init, LongerRangeCreditsLess, FullMonthsAgree
<1> QED BY <1>1, <1>2, <1>3, <1>4, <1>5 DEF ReportInv

\* One step of every report, month by month.
LEMMA PairDayStep ==
  ASSUME ReportInv, PairDay
  PROVE  \E v \in VerdictRecord :
           /\ cap' = v.cap /\ day' = day + 1 /\ day \in Days
           /\ credited' \in [Days -> Nat]
           /\ month' \in [Days -> [Months -> Nat]]
           /\ \A s \in Days :
                /\ Runs(s) => credited'[s] = Credit(v, month[s][MonthOf[day]])
                /\ ~Runs(s) => credited'[s] = 0
                /\ month'[s][MonthOf[day]] = month[s][MonthOf[day]] + credited'[s]
                /\ \A m \in Months : m # MonthOf[day] => month'[s][m] = month[s][m]
                /\ total'[s] = IF Runs(s) THEN Counted(total[s], v, credited'[s])
                               ELSE total[s]
<1>1. day \in Days /\ MonthOf[day] \in Months
  BY DEF PairDay, ReportInv, TypeOK, Days, Months
<1> DEFINE Given(v) == [s \in Days |-> IF Runs(s) THEN Credit(v, month[s][MonthOf[day]])
                                       ELSE 0]
<1>2. PICK v \in Verdicts[day] :
        /\ credited' = Given(v)
        /\ cap' = v.cap
        /\ month' = [s \in Days |-> IF Runs(s) THEN MonthWith(s, Given(v)[s]) ELSE month[s]]
        /\ total' = [s \in Days |-> IF Runs(s) THEN Counted(total[s], v, Given(v)[s])
                                    ELSE total[s]]
  BY DEF PairDay
<1>3. v \in VerdictRecord
  BY <1>1, VerdictType
<1>4. month \in [Days -> [Months -> Nat]]
  BY DEF ReportInv, TypeOK
<1>5. \A s \in Days : Given(v)[s] \in Nat
  BY <1>1, <1>3, <1>4, CreditMonotone
<1> HIDE DEF Given
<1>6. \A s \in Days : /\ MonthWith(s, Given(v)[s]) \in [Months -> Nat]
                      /\ MonthWith(s, Given(v)[s])[MonthOf[day]]
                           = month[s][MonthOf[day]] + Given(v)[s]
                      /\ \A m \in Months : m # MonthOf[day] =>
                           MonthWith(s, Given(v)[s])[m] = month[s][m]
  BY <1>1, <1>4, <1>5 DEF MonthWith
<1>7. month' \in [Days -> [Months -> Nat]]
  BY <1>2, <1>4, <1>6
<1>8. credited' \in [Days -> Nat]
  BY <1>2, <1>5 DEF Given
<1>9. ASSUME NEW s \in Days
      PROVE  /\ Runs(s) => credited'[s] = Credit(v, month[s][MonthOf[day]])
             /\ ~Runs(s) => credited'[s] = 0
             /\ month'[s][MonthOf[day]] = month[s][MonthOf[day]] + credited'[s]
             /\ \A m \in Months : m # MonthOf[day] => month'[s][m] = month[s][m]
             /\ total'[s] = IF Runs(s) THEN Counted(total[s], v, credited'[s])
                            ELSE total[s]
  <2>1. Runs(s) => Given(v)[s] = Credit(v, month[s][MonthOf[day]])
    BY DEF Given
  <2>2. ~Runs(s) => Given(v)[s] = 0
    BY DEF Given
  <2>3. month[s][MonthOf[day]] \in Nat
    BY <1>1, <1>4
  <2> QED BY <1>2, <1>6, <2>1, <2>2, <2>3
<1> QED BY <1>1, <1>2, <1>3, <1>7, <1>8, <1>9 DEF PairDay

LEMMA PairDayKeeps == ASSUME ReportInv, PairDay PROVE ReportInv'
<1>1. PICK v \in VerdictRecord :
        /\ cap' = v.cap /\ day' = day + 1 /\ day \in Days
        /\ credited' \in [Days -> Nat]
        /\ month' \in [Days -> [Months -> Nat]]
        /\ \A s \in Days :
             /\ Runs(s) => credited'[s] = Credit(v, month[s][MonthOf[day]])
             /\ ~Runs(s) => credited'[s] = 0
             /\ month'[s][MonthOf[day]] = month[s][MonthOf[day]] + credited'[s]
             /\ \A m \in Months : m # MonthOf[day] => month'[s][m] = month[s][m]
             /\ total'[s] = IF Runs(s) THEN Counted(total[s], v, credited'[s])
                            ELSE total[s]
  BY PairDayStep
<1> DEFINE now == MonthOf[day]
<1>2. /\ day \in Nat /\ day' \in Nat /\ LastDay \in Nat /\ now \in Months
      /\ month \in [Days -> [Months -> Nat]]
      /\ state \in [Days -> {"waiting", "running", "error"}]
  <2>1. LastDay \in Nat /\ day \in Nat
    BY <1>1, ReportConstants DEF Days
  <2>2. now \in Months
    BY <1>1 DEF Months
  <2> QED BY <1>1, <2>1, <2>2 DEF ReportInv, TypeOK
<1>3. Latest' = now
  <2>1. day' - 1 = day
    BY <1>1, <1>2
  <2> QED BY <2>1 DEF Latest
<1>4. \A s \in Days : state'[s] = IF s > day THEN "waiting"
                                  ELSE IF Runs(s) THEN "running" ELSE "error"
  BY DEF PairDay
<1>5. \A s \in Days : /\ Sound(s)' => Sound(s)
                      /\ Sound(s)' /\ s <= day => Runs(s)
                      /\ Runs(s) => s <= day
  <2> SUFFICES ASSUME NEW s \in Days
               PROVE  /\ Sound(s)' => Sound(s)
                      /\ Sound(s)' /\ s <= day => Runs(s)
                      /\ Runs(s) => s <= day
    OBVIOUS
  <2>1. s \in Nat
    BY DEF Days
  <2>2. Runs(s) => s <= day /\ state[s] # "error"
    BY DEF Runs
  <2>3. s > day => state[s] # "error"
    BY <1>2, <2>1 DEF ReportInv, WaitingIsAhead
  <2> QED BY <1>2, <1>4, <2>1, <2>2, <2>3 DEF Sound
<1>6. TypeOK'
  <2>1. total' \in [Days -> Counts]
    <3>1. total \in [Days -> Counts]
      BY DEF ReportInv, TypeOK
    <3>2. \A s \in Days : Counted(total[s], v, credited'[s]) \in Counts
      <4> SUFFICES ASSUME NEW s \in Days PROVE Counted(total[s], v, credited'[s]) \in Counts
        OBVIOUS
      <4>1. credited'[s] \in Nat
        BY <1>1
      <4> QED BY <3>1, <4>1, CountedType
    <3>3. total' = [s \in Days |-> total'[s]]
      BY DEF PairDay
    <3> QED BY <1>1, <3>1, <3>2, <3>3
  <2>2. state' \in [Days -> {"waiting", "running", "error"}]
    BY DEF PairDay
  <2>3. day' \in 1 .. LastDay + 1
    BY <1>1, <1>2 DEF Days
  <2>4. cap' \in Nat
    BY <1>1 DEF VerdictRecord
  <2> QED BY <1>1, <2>1, <2>2, <2>3, <2>4 DEF PairDay, ReportInv, TypeOK
<1>7. WaitingIsAhead'
  <2> SUFFICES ASSUME NEW s \in Days PROVE state'[s] = "waiting" <=> day' <= s
    BY DEF WaitingIsAhead
  <2>1. s \in Nat
    BY DEF Days
  <2>2. state'[s] = "waiting" <=> s > day
    BY <1>4
  <2> QED BY <1>1, <1>2, <2>1, <2>2
<1>8. WaitingIsEmpty'
  <2> SUFFICES ASSUME NEW s \in Days, state'[s] = "waiting", NEW m \in Months
               PROVE  month'[s][m] = 0
    BY DEF WaitingIsEmpty
  <2>1. s > day /\ s \in Nat
    BY <1>2, <1>4 DEF Days
  <2>2. ~Runs(s) /\ state[s] = "waiting"
    BY <1>2, <1>5, <2>1 DEF ReportInv, WaitingIsAhead
  <2>3. month[s][m] = 0
    BY <2>2 DEF ReportInv, WaitingIsEmpty
  <2> QED BY <1>1, <1>2, <2>2, <2>3
<1>9. \A s, t \in Days : s <= t /\ Sound(s)' /\ Sound(t)' =>
        /\ \A m \in Months : month'[t][m] <= month'[s][m]
        /\ t <= day => credited'[s] <= credited'[t]
  <2> SUFFICES ASSUME NEW s \in Days, NEW t \in Days, s <= t, Sound(s)', Sound(t)'
               PROVE  /\ \A m \in Months : month'[t][m] <= month'[s][m]
                      /\ t <= day => credited'[s] <= credited'[t]
    OBVIOUS
  <2>1. \A m \in Months : month[t][m] <= month[s][m]
    BY <1>5 DEF ReportInv, EarlierHasMore
  <2>2. \A m \in Months : month[t][m] \in Nat /\ month[s][m] \in Nat
    BY <1>2
  <2>3. s \in Nat /\ t \in Nat
    BY DEF Days
  <2>4. CASE t <= day
    <3>1. Runs(s) /\ Runs(t)
      BY <1>2, <1>5, <2>3, <2>4
    <3>2. /\ credited'[s] <= credited'[t]
          /\ month'[t][now] <= month'[s][now]
      BY <1>1, <1>2, <2>1, <2>2, <3>1, CreditMonotone
    <3> QED BY <1>1, <2>1, <3>2
  <2>5. CASE ~(t <= day)
    <3>1. ~Runs(t)
      BY <1>5, <2>5
    <3>2. \A m \in Months : month'[t][m] = month[t][m]
      BY <1>1, <1>2, <2>2, <3>1
    <3>3. \A m \in Months : month[s][m] <= month'[s][m]
      <4>1. credited'[s] \in Nat
        BY <1>1
      <4> QED BY <1>1, <1>2, <2>2, <4>1
    <3>4. \A m \in Months : month'[s][m] \in Nat
      BY <1>1
    <3> QED BY <2>1, <2>2, <2>5, <3>2, <3>3, <3>4
  <2> QED BY <2>4, <2>5
<1>10. EarlierHasMore'
  BY <1>9 DEF EarlierHasMore
<1>11. LongerRangeCreditsLess'
  <2> SUFFICES ASSUME NEW s \in Days, NEW t \in Days, s <= t,
                      state'[s] = "running", state'[t] = "running"
               PROVE  credited'[s] <= credited'[t]
    BY DEF LongerRangeCreditsLess
  <2>1. Sound(s)' /\ Sound(t)' /\ ~(t > day)
    BY <1>4 DEF Sound
  <2>2. t <= day
    BY <1>2, <2>1 DEF Days
  <2> QED BY <1>9, <2>1, <2>2
<1>12. CapHolds'
  <2> SUFFICES ASSUME NEW s \in Days, cap' > 0, credited'[s] > 0
               PROVE  month'[s][now] <= cap'
    BY <1>3 DEF CapHolds
  <2>1. Runs(s)
    BY <1>1
  <2>2. month[s][now] \in Nat
    BY <1>2
  <2> QED BY <1>1, <2>1, <2>2, CreditMonotone
<1>13. \A s, t \in Days, m \in Months :
         Sound(s)' /\ Sound(t)' /\ Whole(s, m)' /\ Whole(t, m)' =>
           /\ month'[s][m] = month'[t][m]
           /\ m = now => credited'[s] = credited'[t]
  <2> SUFFICES ASSUME NEW s \in Days, NEW t \in Days, NEW m \in Months,
                      Sound(s)', Sound(t)', Whole(s, m)', Whole(t, m)'
               PROVE  /\ month'[s][m] = month'[t][m]
                      /\ m = now => credited'[s] = credited'[t]
    OBVIOUS
  <2>1. \A d \in 1 .. day : MonthOf[d] = m => s <= d /\ t <= d
    <3>1. day' - 1 = day
      BY <1>1, <1>2
    <3> QED BY <3>1 DEF Whole
  <2>2. Whole(s, m) /\ Whole(t, m)
    BY <1>2, <2>1 DEF Whole
  <2>3. month[s][m] = month[t][m]
    BY <1>5, <2>2 DEF ReportInv, WholeMonthsAgree
  <2>4. CASE m = now
    <3>1. day \in 1 .. day
      BY <1>1, <1>2 DEF Days
    <3>2. s <= day /\ t <= day
      BY <2>1, <2>4, <3>1
    <3>3. Runs(s) /\ Runs(t)
      BY <1>5, <3>2
    <3> QED BY <1>1, <2>3, <2>4, <3>3
  <2>5. CASE m # now
    BY <1>1, <2>3, <2>5
  <2> QED BY <2>4, <2>5
<1>14. WholeMonthsAgree'
  BY <1>13 DEF WholeMonthsAgree
<1>15. FullMonthsAgree'
  <2> SUFFICES ASSUME NEW s \in Days, NEW t \in Days,
                      state'[s] = "running", state'[t] = "running",
                      \A d \in 1 .. day' - 1 : MonthOf[d] = now => s <= d /\ t <= d
               PROVE  /\ credited'[s] = credited'[t]
                      /\ month'[s][now] = month'[t][now]
    BY <1>3 DEF FullMonthsAgree
  <2>1. Sound(s)' /\ Sound(t)'
    BY DEF Sound
  <2>2. PICK m \in Months : m = now
    BY <1>2
  <2>3. Whole(s, m)' /\ Whole(t, m)'
    BY <2>2 DEF Whole
  <2> QED BY <1>13, <2>1, <2>2, <2>3
<1> QED BY <1>6, <1>7, <1>8, <1>10, <1>11, <1>12, <1>14, <1>15 DEF ReportInv

LEMMA ReportNext == ReportInv /\ [Next]_vars => ReportInv'
<1> SUFFICES ASSUME ReportInv, [Next]_vars PROVE ReportInv'
  OBVIOUS
<1>1. CASE PairDay
  BY <1>1, PairDayKeeps
<1>2. CASE UNCHANGED vars
  BY <1>2 DEF vars, ReportInv, TypeOK, WaitingIsAhead, WaitingIsEmpty, EarlierHasMore,
              WholeMonthsAgree, Whole, Sound, CapHolds, LongerRangeCreditsLess,
              FullMonthsAgree, Latest
<1> QED BY <1>1, <1>2 DEF Next

LEMMA ReportInvariant == Spec => []ReportInv
BY ReportInit, ReportNext, PTL DEF Spec

\* No credit, count or total is ever negative or of another type, for any range.
THEOREM ReportTypeCorrect == Spec => []TypeOK
<1>1. ReportInv => TypeOK
  BY DEF ReportInv
<1> QED BY <1>1, ReportInvariant, PTL

\* The cap of the shift of a day bounds the month whenever that day is credited, however
\* the shifts change from day to day.
THEOREM CapIsKept == Spec => []CapHolds
<1>1. ReportInv => CapHolds
  BY DEF ReportInv
<1> QED BY <1>1, ReportInvariant, PTL

\* A report that begins earlier credits no day with more overtime than one that begins
\* later.
THEOREM LongerCreditsLess == Spec => []LongerRangeCreditsLess
<1>1. ReportInv => LongerRangeCreditsLess
  BY DEF ReportInv
<1> QED BY <1>1, ReportInvariant, PTL

\* Two reports that have missed no day of a month credit each of its days alike.
THEOREM MonthsAgree == Spec => []FullMonthsAgree
<1>1. ReportInv => FullMonthsAgree
  BY DEF ReportInv
<1> QED BY <1>1, ReportInvariant, PTL
==============================================================================
