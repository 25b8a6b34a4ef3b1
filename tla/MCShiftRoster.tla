---------------------------- MODULE MCShiftRoster -----------------------------
(* ShiftRoster for TLC: all constants are model values or numbers. Nothing tells the
   shifts apart (the choices the queries make are unique), so they are symmetric. *)
EXTENDS ShiftRoster, TLC

ShiftSymmetry == Permutations(Shifts)
===============================================================================
