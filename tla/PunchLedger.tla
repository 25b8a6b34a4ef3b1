----------------------------- MODULE PunchLedger -----------------------------
(***************************************************************************)
(* What the middleware promises of a recorded punch, without rows, jobs,   *)
(* sessions or processes: a ledger that shows for each punch how its       *)
(* delivery to ADMS stands. PunchSync implements it, see ImplementsLedger. *)
(***************************************************************************)
EXTENDS Naturals

CONSTANT Punches

VARIABLES
  recorded,  \* the punches whose device may be told "success"
  shown,     \* [Punches -> Standing]: what the dashboard shows of each
  copies,    \* [Punches -> Nat]: how often ADMS has taken the punch
  lost,      \* punches given up without an outcome
  faults     \* faults of the process that delivers

vars == <<recorded, shown, copies, lost, faults>>

Standing == {"waiting", "delivered", "bypassed", "failed", "stale"}

Init ==
  /\ recorded = {}
  /\ shown = [p \in Punches |-> "waiting"]
  /\ copies = [p \in Punches |-> 0]
  /\ lost = {}
  /\ faults = 0

Record(p) ==
  /\ p \notin recorded
  /\ recorded' = recorded \union {p}
  /\ UNCHANGED <<shown, copies, lost, faults>>

\* ADMS takes the punch: a second time only if something has failed.
Deliver(p) ==
  /\ p \in recorded
  /\ copies[p] <= faults
  /\ copies' = [copies EXCEPT ![p] = @ + 1]
  /\ UNCHANGED <<recorded, shown, lost, faults>>

\* The standing of p becomes s. What is settled stays, unless something has
\* failed, and nothing is shown as delivered that ADMS has not taken.
Becomes(p, s) ==
  /\ p \in recorded
  /\ shown[p] = "waiting" \/ faults' > 0
  /\ s = "delivered" => copies[p] > 0
  /\ s # "stale"
  /\ shown' = [shown EXCEPT ![p] = s]

\* The outcome of an attempt is on record, or the attempt is lost.
Settle(p) ==
  /\ faults' = faults
  /\ \E s \in Standing : Becomes(p, s)
  /\ lost' \in {lost, lost \union {p}}
  /\ UNCHANGED <<recorded, copies>>

\* Attempts are lost.
Lose ==
  /\ \E some \in SUBSET recorded : lost' = lost \union some
  /\ UNCHANGED <<recorded, shown, copies, faults>>

\* A fault, in the middle of recording an outcome or not.
Fault ==
  /\ faults' = faults + 1
  /\ UNCHANGED shown \/ \E p \in Punches, s \in Standing : Becomes(p, s)
  /\ UNCHANGED <<recorded, copies, lost>>

\* Punches without an outcome are struck off, all of them known as lost.
StrikeOff ==
  /\ \E some \in SUBSET {p \in lost : shown[p] = "waiting"} :
       shown' = [p \in Punches |-> IF p \in some THEN "stale" ELSE shown[p]]
  /\ UNCHANGED <<recorded, copies, lost, faults>>

Next == \/ \E p \in Punches : Record(p) \/ Deliver(p) \/ Settle(p)
        \/ Lose \/ Fault \/ StrikeOff

\* The promise as far as single steps go.
SafeSpec == Init /\ [][Next]_vars

\* No recorded punch waits for ever, unless it is known as lost.
EverySettled ==
  \A p \in Punches : p \in recorded ~> shown[p] # "waiting" \/ p \in lost

Spec == SafeSpec /\ EverySettled
==============================================================================
