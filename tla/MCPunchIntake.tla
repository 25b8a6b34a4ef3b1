---------------------------- MODULE MCPunchIntake ----------------------------
(* PunchIntake for TLC: the values its configurations share. *)
EXTENDS PunchIntake, TLC

CONSTANTS d1, d2, i1, i2, i3, i4, nobody, r1, r2

Assigned(e) == [employee |-> e, status |-> "active", isActive |-> TRUE,
                secret |-> TRUE, branches |-> "active"]

MovedBindings == {Assigned(1), [Assigned(2) EXCEPT !.secret = FALSE]}

Valid(type) == [type |-> type, biometric |-> TRUE, signature |-> "none", inside |-> TRUE]

\* The app sends the code of an active punch type.
MixedForms  == {Valid("In"), [Valid("Out") EXCEPT !.signature = "good"],
                [Valid("Break") EXCEPT !.inside = FALSE]}

\* Clocks that are exact or slow.
SlowClock  == {-1, 0}

\* Bounds the exploration: a third punch is followed only where every punch is inside the
\* fence and nothing shows that the device has ever been with another employee.
ThirdIsOfOneEmployee ==
  LET made == {i \in Ids : client[i].st # "none"}
  IN \/ Cardinality(made) <= 2
     \/ /\ \A d \in Devices : binding[d] = Assigned(1)
        /\ \A i \in made : client[i].form.inside /\ "secret" \notin client[i].why
        /\ \A r \in rows : r.employee = 1

IdSymmetry == Permutations(Ids)
RequestSymmetry == IdSymmetry \union Permutations(Requests)
==============================================================================
