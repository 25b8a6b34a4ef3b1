------------------------- MODULE MCAdmsRegistration -------------------------
(* AdmsRegistration for TLC: its symmetry, and what is explored of it. *)
EXTENDS AdmsRegistration, TLC

CONSTANTS a1, a2, n1, n2, t1, t2, l1

RegistrationSymmetry ==
  Permutations(Tasks) \union Permutations(Names) \union Permutations(Employees)

\* Nothing has been done to e yet.
Untouched(e) ==
  /\ employee[e] = NoEmployee /\ known[e] = NoName
  /\ e \notin tracked \union erased \union failed \union discarded
  /\ \A t \in Tasks : ~IsFree(t) => task[t].emp # e

\* Bounds the exploration: one employee with every overlap of tasks and late posts, or
\* several with one task at a time and no late post, up to the end of a bulk sync if it is
\* the last request of the pages. (The bulk sync goes with one employee, too.)
OneEmployeeOrOneTask ==
  \/ \E e \in Employees : \A f \in Employees \ {e} : Untouched(f)
  \/ /\ Cardinality({t \in Tasks : ~IsFree(t)}) <= 1
     /\ \A l \in Late : late[l] = NoPost
     /\ edits = MaxEdits => bulk.st # "idle"
==============================================================================
