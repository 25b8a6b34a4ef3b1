-------------------------- MODULE MCAttendanceReport --------------------------
(* AttendanceReport for TLC: two shifts and four days in two months. *)
EXTENDS AttendanceReport

TwoMonths == [d \in 1 .. 4 |-> IF d = 1 THEN 1 ELSE 2]

\* Office hours with a cap; a rota of one day in two without, or with a lower one.
Office == [cyclic |-> FALSE, working |-> 1 .. 5, interval |-> 1, anchor |-> 0,
           lateAfter |-> 0, after |-> 1, threshold |-> 1, mult1 |-> 1, mult2 |-> 2,
           restMult |-> 1, holidayMult |-> 2, cap |-> 4]
Rota == [Office EXCEPT !.cyclic = TRUE, !.working = {1}, !.interval = 2, !.anchor = 2,
                       !.cap = 2]
Uncapped == [Rota EXCEPT !.cap = 0]
ThreeShifts == {Office, Rota, Uncapped}
===============================================================================
