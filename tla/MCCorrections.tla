---------------------------- MODULE MCCorrections ----------------------------
(* Corrections for TLC: one punch per employee; ids of corrections are             *)
(* interchangeable.                                                                *)
EXTENDS Corrections, TLC

CONSTANTS e1, e2, p1, p2

OnePunchEach == p1 :> e1 @@ p2 :> e2

\* Another type, another day, both, something about the other punch, and a request from
\* the portal.
FiveProposals ==
  {[punch |-> p1, type |-> "Out", day |-> None], [punch |-> p1, type |-> None, day |-> 2],
   [punch |-> p1, type |-> "In", day |-> 1], [punch |-> p2, type |-> "In", day |-> None],
   [punch |-> None, type |-> "Out", day |-> 1]}

AnyId == Permutations(Ids)
===============================================================================
