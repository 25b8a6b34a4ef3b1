-------------------------- MODULE ShiftRoster_proofs --------------------------
(***************************************************************************)
(* Theorems about ShiftRoster, for any number of employees, shifts, days   *)
(* and pages.  The invariant adds to the properties the runs check that a  *)
(* branch linked to a device exists, without which a shift might be given  *)
(* by no tier at all; the properties of steps follow from it.              *)
(***************************************************************************)
EXTENDS ShiftRoster, SequenceTheorems, WellFoundedInduction, TLAPS

LinkedExist == \A v \in Devices : device[v].branches \subseteq BranchRows

RosterInv == TypeOK /\ OneRowPerDate /\ LinkedExist

------------------------------------------------------------------------------
(* What the pages keep *)

LEMMA RosterInit == Init => RosterInv
<1> SUFFICES ASSUME Init PROVE RosterInv
  OBVIOUS
<1>1. PICK bare \in BOOLEAN :
        /\ group = [g \in Groups |-> IF bare THEN None ELSE [shift |-> None]]
        /\ company = [c \in Companies |-> IF bare THEN None ELSE [shift |-> None]]
        /\ branch = [b \in Branches |-> IF bare THEN None
                                        ELSE [shift |-> None, company |-> None]]
        /\ device \in [Devices -> IF bare THEN {NewDevice}
                                   ELSE [emp : Employees, active : {TRUE}, branches : {Branches}]]
  BY DEF Init
<1>2. NewEmployee \in EmployeeRow /\ NewDevice \in DeviceRow
  BY DEF NewEmployee, EmployeeRow, NewDevice, DeviceRow, ShiftRef
<1>3. device \in [Devices -> DeviceRow]
  BY <1>1, <1>2 DEF DeviceRow
<1>4. TypeOK
  BY <1>1, <1>2, <1>3 DEF Init, TypeOK, GroupRow, CompanyRow, BranchRow, ShiftRef
<1>5. OneRowPerDate
  BY DEF Init, OneRowPerDate
<1>6. LinkedExist
  <2>1. CASE bare
    BY <1>1, <2>1 DEF LinkedExist, NewDevice
  <2>2. CASE ~bare
    <3>1. BranchRows = Branches
      <4>1. [shift |-> None, company |-> None] \in BranchRow
        BY DEF BranchRow, ShiftRef
      <4> QED BY <1>1, <2>2, <4>1, NoneIsNoRow DEF BranchRows
    <3> QED BY <1>1, <2>2, <3>1 DEF LinkedExist
  <2> QED BY <2>1, <2>2
<1> QED BY <1>4, <1>5, <1>6 DEF RosterInv

LEMMA ClosedType ==
  ASSUME NEW r \in Assignment, NEW e, NEW f \in Days, NEW t
  PROVE  /\ Closed(r, e, f, t) \in Assignment
         /\ Closed(r, e, f, t).emp = r.emp
         /\ Closed(r, e, f, t).from = r.from
         /\ Closed(r, e, f, t).shift = r.shift
         /\ Closed(r, e, f, t) # r =>
              t = Open /\ r.emp = e /\ r.to = Open /\ r.from < f
              /\ Closed(r, e, f, t).to = f - 1
<1>1. f - 1 \in 0 .. Open
  BY DaysAreNat DEF Days, Open
<1> QED BY <1>1 DEF Closed, Assignment

LEMMA CreateAssignmentKeeps ==
  ASSUME RosterInv, foreignKeys' = foreignKeys, edits' = edits + 1,
         NEW e \in Employees, NEW f \in Days, NEW t \in Days \union {Open}, NEW s \in Shifts,
         CreateAssignment(e, f, t, s)
  PROVE  RosterInv'
<1> DEFINE kept == {q \in roster : ~(q.emp = e /\ q.from = f)}
           new == [emp |-> e, from |-> f, to |-> t, shift |-> s]
<1>1. roster \in SUBSET Assignment
  BY DEF RosterInv, TypeOK
<1>2. new \in Assignment
  BY DaysAreNat DEF Assignment, Days, Open
<1>3. roster' = {Closed(r, e, f, t) : r \in kept} \union {new}
  BY DEF CreateAssignment
<1>4. \A q \in roster' : q = new \/ \E r \in kept : q = Closed(r, e, f, t)
  BY <1>3
<1>5. roster' \in SUBSET Assignment
  BY <1>1, <1>2, <1>4, ClosedType
<1>6. OneRowPerDate'
  <2> SUFFICES ASSUME NEW p \in roster', NEW q \in roster', p.emp = q.emp, p.from = q.from
               PROVE  p = q
    BY DEF OneRowPerDate
  <2>1. \A r \in kept : LET c == Closed(r, e, f, t)
                        IN c.emp = r.emp /\ c.from = r.from /\ ~(c.emp = e /\ c.from = f)
    BY <1>1, ClosedType
  <2>2. new.emp = e /\ new.from = f
    OBVIOUS
  <2>3. \A r, u \in kept : r.emp = u.emp /\ r.from = u.from => r = u
    BY DEF RosterInv, OneRowPerDate
  <2> HIDE DEF new, kept
  <2> QED BY <1>4, <2>1, <2>2, <2>3
<1>7. LinkedExist'
  BY DEF RosterInv, LinkedExist, CreateAssignment, BranchRows
<1> QED BY <1>5, <1>6, <1>7 DEF RosterInv, TypeOK, CreateAssignment

LEMMA RosterPageKeeps ==
  ASSUME RosterInv, foreignKeys' = foreignKeys, edits' = edits + 1, RosterPage
  PROVE  RosterInv'
<1>1. ASSUME NEW r \in roster, DeleteAssignment(r) PROVE RosterInv'
  <2>1. roster' \subseteq roster
    BY <1>1 DEF DeleteAssignment
  <2>2. TypeOK'
    BY <1>1, <2>1 DEF DeleteAssignment, RosterInv, TypeOK
  <2>3. OneRowPerDate'
    BY <1>1, <2>1 DEF RosterInv, OneRowPerDate
  <2>4. LinkedExist'
    BY <1>1 DEF DeleteAssignment, RosterInv, LinkedExist, BranchRows
  <2> QED BY <2>2, <2>3, <2>4 DEF RosterInv
<1> QED BY <1>1, CreateAssignmentKeeps DEF RosterPage

LEMMA ShiftPagesKeep ==
  ASSUME RosterInv, foreignKeys' = foreignKeys, edits' = edits + 1, ShiftPages
  PROVE  RosterInv'
<1> USE DEF RosterInv, TypeOK
<1>1. UNCHANGED <<roster, employee, group, branch, company, device>>
  BY DEF ShiftPages, CreateShift, UpdateShift, DeleteShift
<1>2. shifts' \in SUBSET Shifts /\ default' \in SUBSET shifts'
  BY DEF ShiftPages, CreateShift, UpdateShift, DeleteShift
<1>3. LinkedExist' /\ OneRowPerDate'
  BY <1>1 DEF LinkedExist, BranchRows, OneRowPerDate
<1> QED BY <1>1, <1>2, <1>3

LEMMA RowsTyped ==
  ASSUME RosterInv
  PROVE  /\ \A g \in GroupRows : group[g] \in GroupRow
         /\ \A c \in CompanyRows : company[c] \in CompanyRow
         /\ \A b \in BranchRows : branch[b] \in BranchRow
BY DEF RosterInv, TypeOK, GroupRows, CompanyRows, BranchRows

\* Groups and companies: a row appears, refers to another shift, or goes.
LEMMA GroupPagesKeep ==
  ASSUME RosterInv, foreignKeys' = foreignKeys, edits' = edits + 1, NEW g \in Groups,
         \/ \E s \in ShiftRef : CreateGroup(g, s) \/ UpdateGroup(g, s)
         \/ DeleteGroup(g)
  PROVE  RosterInv'
<1>1. UNCHANGED <<shifts, default, roster, employee, branch, company, device>>
  BY DEF CreateGroup, UpdateGroup, DeleteGroup
<1>2. ASSUME NEW s \in ShiftRef, CreateGroup(g, s) \/ UpdateGroup(g, s) PROVE RosterInv'
  <2>1. group' = [group EXCEPT ![g] = [shift |-> s]]
    <3>1. CASE CreateGroup(g, s)
      BY <3>1 DEF CreateGroup
    <3>2. CASE UpdateGroup(g, s)
      <4>1. group[g] \in GroupRow
        BY <3>2, RowsTyped DEF UpdateGroup
      <4>2. [group[g] EXCEPT !.shift = s] = [shift |-> s]
        BY <4>1 DEF GroupRow
      <4> QED BY <3>2, <4>2 DEF UpdateGroup
    <3> QED BY <1>2, <3>1, <3>2
  <2>2. [shift |-> s] \in GroupRow
    BY DEF GroupRow
  <2>3. TypeOK'
    BY <1>1, <2>1, <2>2 DEF RosterInv, TypeOK
  <2> QED BY <1>1, <2>3 DEF RosterInv, LinkedExist, BranchRows, OneRowPerDate
<1>3. ASSUME DeleteGroup(g) PROVE RosterInv'
  <2>1. TypeOK'
    BY <1>1, <1>3 DEF RosterInv, TypeOK, DeleteGroup
  <2> QED BY <1>1, <2>1 DEF RosterInv, LinkedExist, BranchRows, OneRowPerDate
<1> QED BY <1>2, <1>3

LEMMA CompanyPagesKeep ==
  ASSUME RosterInv, foreignKeys' = foreignKeys, edits' = edits + 1, NEW c \in Companies,
         \/ \E s \in ShiftRef : CreateCompany(c, s) \/ UpdateCompany(c, s)
         \/ DeleteCompany(c)
  PROVE  RosterInv'
<1>1. UNCHANGED <<shifts, default, roster, employee, group, branch, device>>
  BY DEF CreateCompany, UpdateCompany, DeleteCompany
<1>2. ASSUME NEW s \in ShiftRef, CreateCompany(c, s) \/ UpdateCompany(c, s) PROVE RosterInv'
  <2>1. company' = [company EXCEPT ![c] = [shift |-> s]]
    <3>1. CASE CreateCompany(c, s)
      BY <3>1 DEF CreateCompany
    <3>2. CASE UpdateCompany(c, s)
      <4>1. company[c] \in CompanyRow
        BY <3>2, RowsTyped DEF UpdateCompany
      <4>2. [company[c] EXCEPT !.shift = s] = [shift |-> s]
        BY <4>1 DEF CompanyRow
      <4> QED BY <3>2, <4>2 DEF UpdateCompany
    <3> QED BY <1>2, <3>1, <3>2
  <2>2. [shift |-> s] \in CompanyRow /\ [shift |-> s] \in GroupRow
    BY DEF CompanyRow, GroupRow
  <2>3. TypeOK'
    BY <1>1, <2>1, <2>2 DEF RosterInv, TypeOK
  <2> QED BY <1>1, <2>3 DEF RosterInv, LinkedExist, BranchRows, OneRowPerDate
<1>3. ASSUME DeleteCompany(c) PROVE RosterInv'
  <2>1. TypeOK'
    BY <1>1, <1>3 DEF RosterInv, TypeOK, DeleteCompany
  <2> QED BY <1>1, <2>1 DEF RosterInv, LinkedExist, BranchRows, OneRowPerDate
<1> QED BY <1>2, <1>3

LEMMA BranchPagesKeep ==
  ASSUME RosterInv, foreignKeys' = foreignKeys, edits' = edits + 1, NEW b \in Branches,
         \/ \E s \in ShiftRef, c \in Companies \union {None} : SaveBranch(b, s, c)
         \/ DeleteBranch(b)
  PROVE  RosterInv'
<1>1. UNCHANGED <<shifts, default, roster, employee, group, company, device>>
  BY DEF SaveBranch, DeleteBranch
<1>2. ASSUME NEW s \in ShiftRef, NEW c \in Companies \union {None}, SaveBranch(b, s, c)
      PROVE  RosterInv'
  <2>1. branch' = [branch EXCEPT ![b] = [shift |-> s, company |-> c]]
    BY <1>2 DEF SaveBranch
  <2>2. [shift |-> s, company |-> c] \in BranchRow
    BY DEF BranchRow
  <2>3. TypeOK'
    BY <1>1, <2>1, <2>2 DEF RosterInv, TypeOK
  <2>4. BranchRows' = BranchRows \union {b}
    BY <2>1, <2>2, NoneIsNoRow DEF RosterInv, TypeOK, BranchRows
  <2> QED BY <1>1, <2>3, <2>4 DEF RosterInv, LinkedExist, OneRowPerDate
<1>3. ASSUME DeleteBranch(b) PROVE RosterInv'
  <2>1. TypeOK'
    BY <1>1, <1>3 DEF RosterInv, TypeOK, DeleteBranch
  <2>2. BranchRows' = BranchRows \ {b}
    BY <1>3 DEF RosterInv, TypeOK, BranchRows, DeleteBranch
  <2>3. LinkedExist'
    BY <1>1, <1>3, <2>2 DEF RosterInv, LinkedExist, DeleteBranch
  <2> QED BY <1>1, <2>1, <2>3 DEF RosterInv, OneRowPerDate
<1> QED BY <1>2, <1>3

\* Employees: their own references change, and SoftDelete unbinds devices.
LEMMA EmployeePagesKeep ==
  ASSUME RosterInv, foreignKeys' = foreignKeys, edits' = edits + 1, NEW e \in Employees,
         \/ \E s \in ShiftRef, g \in Groups \union {None}, c \in Companies \union {None} :
              UpdateEmployee(e, s, g, c) \/ Reactivate(e, s, g, c)
         \/ SoftDelete(e)
  PROVE  RosterInv'
<1>1. UNCHANGED <<shifts, default, roster, group, branch, company>>
  BY DEF UpdateEmployee, Reactivate, SoftDelete
<1>2. employee[e] \in EmployeeRow
  BY DEF RosterInv, TypeOK
<1>3. PICK row \in EmployeeRow : employee' = [employee EXCEPT ![e] = row]
  <2>1. ASSUME NEW s \in ShiftRef, NEW g \in Groups \union {None},
               NEW c \in Companies \union {None}, UpdateEmployee(e, s, g, c)
        PROVE  \E row \in EmployeeRow : employee' = [employee EXCEPT ![e] = row]
    <3> DEFINE row == [alive   |-> TRUE,
                       shift   |-> IF s = None THEN employee[e].shift ELSE s,
                       group   |-> IF g = None THEN employee[e].group ELSE g,
                       company |-> IF c = None THEN employee[e].company ELSE c]
    <3>1. row \in EmployeeRow
      BY <1>2 DEF EmployeeRow
    <3>2. employee' = [employee EXCEPT ![e] = row]
      BY <2>1 DEF UpdateEmployee
    <3> QED BY <3>1, <3>2
  <2>2. ASSUME NEW s \in ShiftRef, NEW g \in Groups \union {None},
               NEW c \in Companies \union {None}, Reactivate(e, s, g, c)
        PROVE  \E row \in EmployeeRow : employee' = [employee EXCEPT ![e] = row]
    <3>1. [alive |-> TRUE, shift |-> s, group |-> g, company |-> c] \in EmployeeRow
      BY DEF EmployeeRow
    <3> QED BY <2>2, <3>1 DEF Reactivate
  <2>3. ASSUME SoftDelete(e)
        PROVE  \E row \in EmployeeRow : employee' = [employee EXCEPT ![e] = row]
    <3>1. [employee[e] EXCEPT !.alive = FALSE] \in EmployeeRow
      BY <1>2 DEF EmployeeRow
    <3> QED BY <2>3, <3>1 DEF SoftDelete
  <2> QED BY <2>1, <2>2, <2>3
<1>4. device' \in [Devices -> DeviceRow] /\ \A v \in Devices :
        device'[v].branches \subseteq device[v].branches
  <2>1. device \in [Devices -> DeviceRow] /\ NewDevice \in DeviceRow
    BY DEF RosterInv, TypeOK, NewDevice, DeviceRow
  <2>2. NewDevice.branches = {}
    BY DEF NewDevice
  <2> QED BY <2>1, <2>2 DEF UpdateEmployee, Reactivate, SoftDelete
<1>5. TypeOK'
  BY <1>1, <1>3, <1>4 DEF RosterInv, TypeOK
<1>6. LinkedExist'
  BY <1>1, <1>4 DEF RosterInv, LinkedExist, BranchRows
<1> QED BY <1>1, <1>5, <1>6 DEF RosterInv, OneRowPerDate

LEMMA DevicePagesKeep ==
  ASSUME RosterInv, foreignKeys' = foreignKeys, edits' = edits + 1, NEW v \in Devices,
         \/ \E e \in Employees \union {None}, active \in BOOLEAN : ChangeDevice(v, e, active)
         \/ \E b \in Branches : AssignBranch(v, b) \/ RemoveBranch(v, b)
  PROVE  RosterInv'
<1>1. UNCHANGED <<shifts, default, roster, employee, group, branch, company>>
  BY DEF ChangeDevice, AssignBranch, RemoveBranch
<1>2. device \in [Devices -> DeviceRow]
  BY DEF RosterInv, TypeOK
<1>3. device' \in [Devices -> DeviceRow] /\ LinkedExist'
  <2>1. ASSUME NEW e \in Employees \union {None}, NEW active \in BOOLEAN,
               ChangeDevice(v, e, active)
        PROVE  device' \in [Devices -> DeviceRow] /\ LinkedExist'
    BY <1>1, <1>2, <2>1 DEF ChangeDevice, DeviceRow, RosterInv, LinkedExist, BranchRows
  <2>2. ASSUME NEW b \in Branches, AssignBranch(v, b)
        PROVE  device' \in [Devices -> DeviceRow] /\ LinkedExist'
    BY <1>1, <1>2, <2>2 DEF AssignBranch, DeviceRow, RosterInv, LinkedExist, BranchRows
  <2>3. ASSUME NEW b \in Branches, RemoveBranch(v, b)
        PROVE  device' \in [Devices -> DeviceRow] /\ LinkedExist'
    BY <1>1, <1>2, <2>3 DEF RemoveBranch, DeviceRow, RosterInv, LinkedExist, BranchRows
  <2> QED BY <2>1, <2>2, <2>3
<1>4. TypeOK' /\ OneRowPerDate'
  BY <1>1, <1>3 DEF RosterInv, TypeOK, OneRowPerDate
<1> QED BY <1>3, <1>4 DEF RosterInv

LEMMA RosterNext == RosterInv /\ [Next]_vars => RosterInv'
<1> SUFFICES ASSUME RosterInv, [Next]_vars PROVE RosterInv'
  OBVIOUS
<1>1. CASE Next
  <2>1. foreignKeys' = foreignKeys /\ edits' = edits + 1
    BY <1>1 DEF Next
  <2>2. CASE RosterPage
    BY <2>1, <2>2, RosterPageKeeps
  <2>3. CASE ShiftPages
    BY <2>1, <2>3, ShiftPagesKeep
  <2>4. CASE StructurePages
    BY <2>1, <2>4, GroupPagesKeep, CompanyPagesKeep, BranchPagesKeep DEF StructurePages
  <2>5. CASE PeoplePages
    BY <2>1, <2>5, EmployeePagesKeep, DevicePagesKeep DEF PeoplePages
  <2> QED BY <1>1, <2>2, <2>3, <2>4, <2>5 DEF Next
<1>2. CASE UNCHANGED vars
  BY <1>2 DEF vars, RosterInv, TypeOK, OneRowPerDate, LinkedExist, BranchRows
<1> QED BY <1>1, <1>2

LEMMA RosterInvariant == Spec => []RosterInv
BY RosterInit, RosterNext, PTL DEF Spec

------------------------------------------------------------------------------
(* What a new assignment does to the days *)


\* Of the rows that cover a day one is the latest.
LEMMA LatestExists ==
  ASSUME RosterInv, NEW e \in Employees, NEW d \in Days,
         NEW r0 \in RowsOf(e), Covers(r0, d)
  PROVE  \E r \in RowsOf(e) :
           Covers(r, d) /\ \A q \in RowsOf(e) : Covers(q, d) => q.from <= r.from
<1> DEFINE covering == {q \in RowsOf(e) : Covers(q, d)}
           T == {LastDay - q.from : q \in covering}
<1>1. \A q \in covering : q.from \in 1 .. LastDay
  BY DEF RowsOf, RosterInv, TypeOK, Assignment, Days
<1>2. T \subseteq Nat /\ T # {}
  BY <1>1, DaysAreNat
<1>3. PICK x \in T : \A y \in T : ~ (y < x)
  <2>1. \E x \in T : \A y \in T : ~ (<<y, x>> \in OpToRel(<, Nat))
    BY <1>2, NatLessThanWellFounded, WFMin
  <2> QED BY <1>2, <2>1 DEF OpToRel
<1>4. PICK r \in covering : x = LastDay - r.from
  BY <1>3
<1>5. \A q \in covering : q.from <= r.from
  BY <1>1, <1>3, <1>4, DaysAreNat
<1> QED BY <1>5

LEMMA QueriedRowUnique ==
  ASSUME RosterInv, NEW e \in Employees, NEW d \in Days, NEW r \in RowsOf(e),
         Covers(r, d), \A q \in RowsOf(e) : Covers(q, d) => q.from <= r.from
  PROVE  QueriedRow(e, d) = r
<1> DEFINE covering == {q \in RowsOf(e) : Covers(q, d)}
<1>1. r \in covering /\ \A q \in covering : q.from <= r.from
  OBVIOUS
<1>2. \A q \in covering : (\A p \in covering : p.from <= q.from) => q = r
  <2> SUFFICES ASSUME NEW q \in covering, \A p \in covering : p.from <= q.from PROVE q = r
    OBVIOUS
  <2>1. q \in Assignment /\ r \in Assignment /\ q.emp = r.emp /\ q \in roster /\ r \in roster
    BY DEF RowsOf, RosterInv, TypeOK
  <2>2. q.from = r.from
    BY <1>1, <2>1 DEF Assignment, Days
  <2> QED BY <2>1, <2>2 DEF RosterInv, OneRowPerDate
<1>3. QueriedRow(e, d) = CHOOSE q \in covering : \A p \in covering : p.from <= q.from
  BY <1>1 DEF QueriedRow
<1> HIDE DEF covering
<1> QED BY <1>1, <1>2, <1>3

LEMMA QueriedRowTyped ==
  ASSUME RosterInv, NEW e \in Employees, NEW d \in Days
  PROVE  QueriedRow(e, d) \in Assignment \union {None}
<1>1. CASE \A r \in RowsOf(e) : ~Covers(r, d)
  BY <1>1 DEF QueriedRow
<1>2. CASE \E r \in RowsOf(e) : Covers(r, d)
  <2>1. PICK r \in RowsOf(e) :
          Covers(r, d) /\ \A q \in RowsOf(e) : Covers(q, d) => q.from <= r.from
    BY <1>2, LatestExists
  <2>2. QueriedRow(e, d) = r
    BY <2>1, QueriedRowUnique
  <2> QED BY <2>2 DEF RowsOf, RosterInv, TypeOK
<1> QED BY <1>1, <1>2

\* The query answers the latest of the rows that cover the day.
QueryLaw ==
  \A e \in Employees, d \in Days : \A r \in RowsOf(e) :
    Covers(r, d) /\ (\A q \in RowsOf(e) : Covers(q, d) => q.from <= r.from)
      => QueriedRow(e, d) = r

LEMMA QueryLawHolds == RosterInv => QueryLaw
BY QueriedRowUnique DEF QueryLaw

\* Type correctness.
THEOREM RosterTypeCorrect == Spec => []TypeOK
<1>1. RosterInv => TypeOK
  BY DEF RosterInv
<1> QED BY <1>1, RosterInvariant, PTL

\* An employee has one assignment per effective_date.
THEOREM RosterIsUnique == Spec => []OneRowPerDate
<1>1. RosterInv => OneRowPerDate
  BY DEF RosterInv
<1> QED BY <1>1, RosterInvariant, PTL

\* Creating an assignment uncovers a day only by replacing a longer one of the same date.
THEOREM RosterHasNoGap == Spec => CreationLeavesNoGap
<1> DEFINE NoGap ==
      \A e \in Employees, f \in Days, t \in Days \union {Open}, s \in Shifts :
        CreateAssignment(e, f, t, s) =>
          \A d \in Days : InRoster(e, d) /\ ~InRoster(e, d)' =>
            t < d /\ \E r \in roster : r.emp = e /\ r.from = f /\ Covers(r, d)
<1>1. RosterInv => NoGap
  <2> SUFFICES ASSUME RosterInv, NEW e \in Employees, NEW f \in Days,
                      NEW t \in Days \union {Open}, NEW s \in Shifts,
                      CreateAssignment(e, f, t, s), NEW d \in Days,
                      NEW r \in roster, r.emp = e, Covers(r, d), ~InRoster(e, d)'
               PROVE  t < d /\ r.from = f
    BY DEF InRoster
  <2> DEFINE new == [emp |-> e, from |-> f, to |-> t, shift |-> s]
  <2>1. r \in Assignment
    BY DEF RosterInv, TypeOK
  <2>2. ~Covers(new, d)
    BY DEF CreateAssignment, InRoster, Covers
  <2>3. ASSUME r.from # f PROVE FALSE
    <3>1. Closed(r, e, f, t) \in roster'
      BY <2>3 DEF CreateAssignment
    <3>2. ~Covers(Closed(r, e, f, t), d)
      BY <2>1, <3>1, ClosedType DEF InRoster, Covers
    <3>3. Closed(r, e, f, t) # r
      BY <3>2
    <3>4. t = Open /\ r.from < f /\ Closed(r, e, f, t).to = f - 1
      BY <2>1, <3>3, ClosedType
    <3>5. f <= d
      BY <2>1, <3>2, <3>4, ClosedType DEF Covers, Assignment, Days
    <3> QED BY <2>2, <3>4, <3>5, DaysAreNat DEF Covers, Open, Days
  <2>4. t < d
    BY <2>1, <2>2, <2>3, DaysAreNat DEF Covers, Open, Days
  <2> QED BY <2>3, <2>4
<1> QED BY <1>1, RosterInvariant, PTL DEF CreationLeavesNoGap

------------------------------------------------------------------------------
(* The roster decides *)

\* Two sequences around a third.
LEMMA ThreeParts ==
  ASSUME NEW S, NEW a1 \in S, NEW a2 \in S, NEW a3 \in S, NEW mid \in Seq(S),
         NEW c1 \in S, NEW c2 \in S, NEW t,
         t = <<a1, a2, a3>> \o mid \o <<c1, c2>>
  PROVE  /\ t \in Seq(S) /\ Len(mid) \in Nat /\ Len(t) = Len(mid) + 5
         /\ t[1] = a1 /\ t[2] = a2 /\ t[3] = a3
         /\ \A i \in 4 .. Len(mid) + 3 : t[i] = mid[i - 3]
         /\ t[Len(mid) + 4] = c1 /\ t[Len(mid) + 5] = c2
<1> DEFINE head == <<a1, a2, a3>>
           last == <<c1, c2>>
<1>1. head \in Seq(S) /\ Len(head) = 3 /\ head[1] = a1 /\ head[2] = a2 /\ head[3] = a3
  OBVIOUS
<1>2. last \in Seq(S) /\ Len(last) = 2 /\ last[1] = c1 /\ last[2] = c2
  OBVIOUS
<1>3. t = (head \o mid) \o last
  OBVIOUS
<1> HIDE DEF head, last
<1> DEFINE front == head \o mid
<1>4. /\ front \in Seq(S) /\ Len(mid) \in Nat /\ Len(front) = Len(mid) + 3
      /\ \A i \in 1 .. Len(mid) + 3 : front[i] = IF i <= 3 THEN head[i] ELSE mid[i - 3]
  <2>1. /\ front \in Seq(S) /\ Len(front) = Len(head) + Len(mid)
        /\ \A i \in 1 .. Len(head) + Len(mid) :
             front[i] = IF i <= Len(head) THEN head[i] ELSE mid[i - Len(head)]
    BY <1>1, ConcatProperties
  <2>2. Len(mid) \in Nat
    OBVIOUS
  <2> HIDE DEF front
  <2> QED BY <1>1, <2>1, <2>2
<1>5. t = front \o last
  BY <1>3
<1> HIDE DEF front
<1>6. /\ t \in Seq(S) /\ Len(t) = Len(mid) + 5
      /\ \A i \in 1 .. Len(mid) + 5 :
           t[i] = IF i <= Len(mid) + 3 THEN front[i] ELSE last[i - (Len(mid) + 3)]
  <2>1. /\ front \o last \in Seq(S) /\ Len(front \o last) = Len(front) + Len(last)
        /\ \A i \in 1 .. Len(front) + Len(last) :
             (front \o last)[i] = IF i <= Len(front) THEN front[i] ELSE last[i - Len(front)]
    BY <1>2, <1>4, ConcatProperties
  <2> QED BY <1>2, <1>4, <1>5, <2>1
<1>7. \A i \in 1 .. Len(mid) + 3 : t[i] = front[i]
  BY <1>4, <1>6
<1>8. t[1] = a1 /\ t[2] = a2 /\ t[3] = a3
  BY <1>1, <1>4, <1>7
<1>9. \A i \in 4 .. Len(mid) + 3 : t[i] = mid[i - 3]
  BY <1>4, <1>7
<1>10. t[Len(mid) + 4] = last[1] /\ t[Len(mid) + 5] = last[2]
  <2> DEFINE n == Len(mid)
  <2>1. n \in Nat
    BY <1>4
  <2>2. \A i \in 1 .. n + 5 : t[i] = IF i <= n + 3 THEN front[i] ELSE last[i - (n + 3)]
    BY <1>6
  <2> HIDE DEF n
  <2>3. /\ n + 4 \in 1 .. n + 5 /\ ~(n + 4 <= n + 3) /\ (n + 4) - (n + 3) = 1
        /\ n + 5 \in 1 .. n + 5 /\ ~(n + 5 <= n + 3) /\ (n + 5) - (n + 3) = 2
    BY <2>1
  <2>4. t[n + 4] = last[1] /\ t[n + 5] = last[2]
    BY <2>2, <2>3
  <2> QED BY <2>4 DEF n
<1> QED BY <1>2, <1>4, <1>6, <1>8, <1>9, <1>10

RowShift(row) == IF row = None THEN None ELSE row.shift

LEMMA TiersTyped ==
  ASSUME RosterInv, NEW e \in Employees, NEW row \in Assignment \union {None},
         NEW b \in ReachedBranches(e), NEW f \in Fallbacks
  PROVE  /\ RowShift(row) \in ShiftRef /\ employee[e].shift \in ShiftRef
         /\ GroupShift(employee[e].group) \in ShiftRef
         /\ BranchTiers(b) \in Seq(ShiftRef)
         /\ CompanyShift(employee[e].company) \in ShiftRef /\ f \in ShiftRef
<1>1. RowShift(row) \in ShiftRef
  BY DEF RowShift, Assignment, ShiftRef
<1>2. employee[e].shift \in ShiftRef
  BY DEF RosterInv, TypeOK, EmployeeRow
<1>3. \A c : CompanyShift(c) \in ShiftRef
  BY RowsTyped DEF CompanyShift, CompanyRow, ShiftRef
<1>4. \A g : GroupShift(g) \in ShiftRef
  BY RowsTyped DEF GroupShift, GroupRow, ShiftRef
<1>5. b = None \/ b \in BranchRows
  BY DEF ReachedBranches, BranchRows, RosterInv, TypeOK, DeviceRow
<1>6. BranchTiers(b) \in Seq(ShiftRef)
  BY <1>3, <1>5, RowsTyped DEF BranchTiers, BranchRow
<1>7. f \in ShiftRef
  BY DEF Fallbacks, RosterInv, TypeOK, ShiftRef
<1> QED BY <1>1, <1>2, <1>3, <1>4, <1>6, <1>7

LEMMA TiersBegin ==
  ASSUME RosterInv, NEW e \in Employees, NEW row \in Assignment,
         NEW b \in ReachedBranches(e), NEW f \in Fallbacks
  PROVE  /\ Tiers(e, row, b, f) \in Seq(ShiftRef)
         /\ Len(Tiers(e, row, b, f)) >= 1
         /\ Tiers(e, row, b, f)[1] = row.shift
<1> DEFINE t == Tiers(e, row, b, f)
           mid == BranchTiers(b)
           a3 == GroupShift(employee[e].group)
           c1 == CompanyShift(employee[e].company)
<1>1. t = <<row.shift, employee[e].shift, a3>> \o mid \o <<c1, f>>
  BY NoneIsNoRow DEF Tiers
<1>2. /\ row.shift \in ShiftRef /\ employee[e].shift \in ShiftRef /\ a3 \in ShiftRef
      /\ mid \in Seq(ShiftRef) /\ c1 \in ShiftRef /\ f \in ShiftRef
  BY TiersTyped, NoneIsNoRow DEF RowShift
<1> HIDE DEF t, mid, a3, c1
<1>3. t \in Seq(ShiftRef) /\ Len(mid) \in Nat /\ Len(t) = Len(mid) + 5 /\ t[1] = row.shift
  BY <1>1, <1>2, ThreeParts
<1> QED BY <1>3 DEF t

\* A row with an existing shift gives that shift and no other.
RosterLaw ==
  \A e \in Employees, row \in Assignment :
    row.shift \in shifts => ShiftsGiven(e, row) = {row.shift}

LEMMA RosterLawHolds == RosterInv => RosterLaw
<1> SUFFICES ASSUME RosterInv, NEW e \in Employees, NEW row \in Assignment,
                    row.shift \in shifts
             PROVE  ShiftsGiven(e, row) = {row.shift}
  BY DEF RosterLaw
<1>1. \A b \in ReachedBranches(e), f \in Fallbacks :
        FirstShift(Tiers(e, row, b, f)) = row.shift
  <2> SUFFICES ASSUME NEW b \in ReachedBranches(e), NEW f \in Fallbacks
               PROVE  FirstShift(Tiers(e, row, b, f)) = row.shift
    OBVIOUS
  <2> DEFINE tiers == Tiers(e, row, b, f)
             there == {i \in DOMAIN tiers : tiers[i] \in shifts}
  <2>1. tiers \in Seq(ShiftRef) /\ Len(tiers) >= 1 /\ tiers[1] = row.shift
    BY TiersBegin
  <2> HIDE DEF tiers
  <2>2. there \subseteq 1 .. Len(tiers) /\ 1 \in there
    BY <2>1
  <2>3. FirstShift(tiers) = tiers[CHOOSE i \in there : \A k \in there : i <= k]
    BY <2>2 DEF FirstShift
  <2>4. \A i \in there : (\A k \in there : i <= k) <=> i = 1
    BY <2>1, <2>2
  <2> HIDE DEF there
  <2>5. (CHOOSE i \in there : \A k \in there : i <= k) = 1
    BY <2>2, <2>4
  <2> QED BY <2>1, <2>3, <2>5 DEF tiers
<1>2. \E b : b \in ReachedBranches(e)
  <2> DEFINE mine == {v \in Devices : device[v].emp = e /\ device[v].active}
  <2>1. CASE mine = {} \/ \E v \in mine : device[v].branches = {}
    BY <2>1 DEF ReachedBranches
  <2>2. CASE ~(mine = {} \/ \E v \in mine : device[v].branches = {})
    <3>1. PICK v \in mine : device[v].branches # {}
      BY <2>2
    <3>2. PICK b \in device[v].branches : TRUE
      BY <3>1
    <3>3. branch[b] # None
      BY <3>2 DEF RosterInv, LinkedExist, BranchRows
    <3> QED BY <3>2, <3>3 DEF ReachedBranches
  <2> QED BY <2>1, <2>2
<1>3. \E f : f \in Fallbacks
  BY DEF Fallbacks
<1> QED BY <1>1, <1>2, <1>3 DEF ShiftsGiven

\* On a day that the roster covers with an existing shift, no page but the roster page
\* changes the shift.
THEOREM RosterDecides == Spec => RosterShields
<1> DEFINE Shielded ==
      \A e \in Employees, d \in Days :
        /\ QueriedRow(e, d) # None
        /\ QueriedRow(e, d).shift \in shifts \intersect shifts'
        /\ UNCHANGED roster
        => Queried(e, d)' = Queried(e, d)
<1>1. RosterInv /\ RosterLaw /\ RosterLaw' => Shielded
  <2> SUFFICES ASSUME RosterInv, RosterLaw, RosterLaw', NEW e \in Employees, NEW d \in Days,
                      QueriedRow(e, d) # None,
                      QueriedRow(e, d).shift \in shifts \intersect shifts',
                      UNCHANGED roster
               PROVE  Queried(e, d)' = Queried(e, d)
    OBVIOUS
  <2>1. QueriedRow(e, d)' = QueriedRow(e, d)
    BY DEF QueriedRow, RowsOf
  <2>2. QueriedRow(e, d) \in Assignment
    BY QueriedRowTyped
  <2>3. Queried(e, d) = {QueriedRow(e, d).shift}
    BY <2>2 DEF RosterLaw, Queried
  <2>4. Queried(e, d)' = {QueriedRow(e, d)'.shift}
    BY <2>1, <2>2 DEF RosterLaw, Queried
  <2> QED BY <2>1, <2>3, <2>4
<1> QED BY <1>1, RosterInvariant, RosterLawHolds, PTL DEF RosterShields

\* A new assignment changes no day before its effective_date.
THEOREM RosterKeepsThePast == Spec => PastIsKept
<1> DEFINE Kept ==
      \A e \in Employees, f \in Days, t \in Days \union {Open}, s \in Shifts :
        CreateAssignment(e, f, t, s) =>
          \A d \in 1 .. f - 1 : Queried(e, d)' = Queried(e, d)
<1>1. RosterInv /\ RosterInv' /\ QueryLaw' => Kept
  <2> SUFFICES ASSUME RosterInv, RosterInv', QueryLaw', NEW e \in Employees, NEW f \in Days,
                      NEW t \in Days \union {Open}, NEW s \in Shifts,
                      CreateAssignment(e, f, t, s), NEW d \in 1 .. f - 1
               PROVE  Queried(e, d)' = Queried(e, d)
    OBVIOUS
  <2> DEFINE C(r) == Closed(r, e, f, t)
             new == [emp |-> e, from |-> f, to |-> t, shift |-> s]
  <2>1. d \in Days /\ d < f
    BY DaysAreNat DEF Days
  <2>2. \A r \in RowsOf(e) : r \in Assignment /\ C(r) \in Assignment
                             /\ C(r).from = r.from /\ C(r).emp = e /\ C(r).shift = r.shift
    BY ClosedType DEF RowsOf, RosterInv, TypeOK
  <2>3. \A r \in RowsOf(e) : Covers(C(r), d) <=> Covers(r, d)
    BY <2>1, <2>2, DaysAreNat DEF Closed, Covers, Assignment, Days, Open
  <2>4. \A r \in RowsOf(e) : Covers(r, d) => C(r) \in RowsOf(e)'
    BY <2>1, <2>2 DEF CreateAssignment, RowsOf, Covers, Assignment, Days
  <2>5. \A q \in RowsOf(e)' : Covers(q, d) => \E r \in RowsOf(e) : q = C(r)
    <3>1. ~Covers(new, d)
      BY <2>1 DEF Covers, Days
    <3>2. \A r \in roster : C(r).emp = r.emp
      BY ClosedType DEF RosterInv, TypeOK
    <3> QED BY <3>1, <3>2 DEF CreateAssignment, RowsOf
  <2>6. CASE \A r \in RowsOf(e) : ~Covers(r, d)
    <3>1. \A q \in RowsOf(e)' : ~Covers(q, d)
      BY <2>3, <2>5, <2>6
    <3>2. QueriedRow(e, d) = None /\ QueriedRow(e, d)' = None
      BY <2>6, <3>1 DEF QueriedRow
    <3>3. ShiftsGiven(e, None)' = ShiftsGiven(e, None)
      BY DEF CreateAssignment, ShiftsGiven, ReachedBranches, Fallbacks, FirstShift, Tiers,
             BranchTiers, CompanyShift, GroupShift, CompanyRows, GroupRows
    <3> QED BY <3>2, <3>3 DEF Queried
  <2>7. CASE \E r \in RowsOf(e) : Covers(r, d)
    <3>1. PICK r \in RowsOf(e) :
            Covers(r, d) /\ \A q \in RowsOf(e) : Covers(q, d) => q.from <= r.from
      BY <2>1, <2>7, LatestExists
    <3>2. QueriedRow(e, d) = r
      BY <2>1, <3>1, QueriedRowUnique
    <3>3. /\ C(r) \in RowsOf(e)' /\ Covers(C(r), d)
          /\ \A q \in RowsOf(e)' : Covers(q, d) => q.from <= C(r).from
      BY <2>2, <2>3, <2>4, <2>5, <3>1
    <3>4. QueriedRow(e, d)' = C(r)
      BY <2>1, <3>3 DEF QueryLaw, Covers
    <3>5. ShiftsGiven(e, C(r))' = ShiftsGiven(e, r)
      <4>1. \A b, x : Tiers(e, C(r), b, x)' = Tiers(e, r, b, x)
        BY <2>2, <3>1, NoneIsNoRow
        DEF CreateAssignment, Tiers, BranchTiers, CompanyShift, GroupShift, CompanyRows, GroupRows
      <4>2. ReachedBranches(e)' = ReachedBranches(e) /\ Fallbacks' = Fallbacks
        BY DEF CreateAssignment, ReachedBranches, Fallbacks
      <4>3. \A x : FirstShift(x)' = FirstShift(x)
        BY DEF CreateAssignment, FirstShift
      <4> QED BY <4>1, <4>2, <4>3 DEF ShiftsGiven
    <3> QED BY <3>2, <3>4, <3>5 DEF Queried
  <2> QED BY <2>6, <2>7
<1> QED BY <1>1, RosterInvariant, QueryLawHolds, PTL DEF PastIsKept

------------------------------------------------------------------------------
(* What a deletion does to the days *)

LEMMA LeastExists ==
  ASSUME NEW T \in SUBSET Nat, T # {}
  PROVE  LET least == CHOOSE i \in T : \A k \in T : i <= k
         IN least \in T /\ \A k \in T : least <= k
<1>1. PICK x \in T : \A y \in T : ~ (y < x)
  <2>1. \E x \in T : \A y \in T : ~ (<<y, x>> \in OpToRel(<, Nat))
    BY NatLessThanWellFounded, WFMin
  <2> QED BY <2>1 DEF OpToRel
<1>2. \A y \in T : x <= y
  BY <1>1
<1> QED BY <1>2

\* FirstShift, for a given set of shifts.
FirstOf(tiers, there) ==
  LET D == {i \in DOMAIN tiers : tiers[i] \in there}
  IN IF D = {} THEN BuiltIn ELSE tiers[CHOOSE i \in D : \A k \in D : i <= k]

\* No tier gives another shift than before, except where it gave the one that is gone.
OnlyLost(t, there, t2, there2, gone) ==
  /\ DOMAIN t \subseteq Nat /\ DOMAIN t2 = DOMAIN t
  /\ \A i \in DOMAIN t :
       /\ t[i] \in there /\ t[i] # gone => t2[i] = t[i] /\ t[i] \in there2
       /\ t[i] \notin there => t2[i] \notin there2

\* Then the first tier that gives a shift gives the same, unless it gave that one.
LEMMA FirstStays ==
  ASSUME NEW t, NEW t2, NEW there, NEW there2, NEW gone,
         OnlyLost(t, there, t2, there2, gone), FirstOf(t, there) # gone
  PROVE  FirstOf(t2, there2) = FirstOf(t, there)
<1> DEFINE D == {i \in DOMAIN t : t[i] \in there}
           D2 == {i \in DOMAIN t2 : t2[i] \in there2}
           m == CHOOSE i \in D : \A k \in D : i <= k
           m2 == CHOOSE i \in D2 : \A k \in D2 : i <= k
<1> USE DEF OnlyLost
<1>1. D2 \subseteq D /\ D \subseteq DOMAIN t /\ D \subseteq Nat
  OBVIOUS
<1>2. CASE D = {}
  BY <1>1, <1>2 DEF FirstOf
<1>3. CASE D # {}
  <2>1. FirstOf(t, there) = t[m]
    BY <1>3 DEF FirstOf
  <2>2. m \in D /\ \A k \in D : m <= k
    BY <1>1, <1>3, LeastExists
  <2>3. t2[m] = t[m] /\ m \in D2
    BY <1>1, <2>1, <2>2
  <2>4. FirstOf(t2, there2) = t2[m2]
    BY <2>3 DEF FirstOf
  <2>5. m2 \in D2 /\ \A k \in D2 : m2 <= k
    <3>1. D2 \in SUBSET Nat /\ D2 # {}
      BY <1>1, <2>3
    <3> HIDE DEF D2
    <3> QED BY <3>1, LeastExists
  <2>6. m2 = m
    <3> HIDE DEF D, D2, m, m2
    <3> QED BY <1>1, <2>2, <2>3, <2>5
  <2> QED BY <2>1, <2>3, <2>4, <2>6
<1> QED BY <1>2, <1>3

LEMMA DeletionStep ==
  ASSUME RosterInv, NEW s \in ShiftRef, Deletes(s)
  PROVE  /\ UNCHANGED <<roster, employee, branch, device>>
         /\ shifts' \subseteq shifts /\ shifts \ {s} \subseteq shifts'
         /\ \A x : \/ GroupShift(x)' = GroupShift(x)
                   \/ GroupShift(x) = s /\ GroupShift(x)' = None
         /\ \A x : \/ CompanyShift(x)' = CompanyShift(x)
                   \/ CompanyShift(x) = s /\ CompanyShift(x)' = None
         /\ \A b \in BranchRows :
              CompanyShift(branch[b].company)' = CompanyShift(branch[b].company)
         /\ \A f \in Fallbacks : \E f2 \in Fallbacks' :
              f2 \in ShiftRef /\ (f2 = f \/ (f = s /\ s \in shifts))
<1>1. \A f \in Fallbacks : f \in ShiftRef
  BY DEF Fallbacks, RosterInv, TypeOK, ShiftRef
<1>2. CASE DeleteShift(s)
  <2>1. UNCHANGED <<roster, employee, group, branch, company, device>>
    BY <1>2 DEF DeleteShift
  <2>2. s \in shifts /\ shifts' = shifts \ {s} /\ default' = default \ {s}
    BY <1>2 DEF DeleteShift
  <2>3. \A f \in Fallbacks : \E f2 \in Fallbacks' : f2 \in ShiftRef /\ (f2 = f \/ f = s)
    <3> SUFFICES ASSUME NEW f \in Fallbacks
                 PROVE  \E f2 \in Fallbacks' : f2 \in ShiftRef /\ (f2 = f \/ f = s)
      OBVIOUS
    <3>1. CASE f \in Fallbacks'
      BY <1>1, <3>1
    <3>2. CASE f \notin Fallbacks'
      <4>1. f = s
        BY <2>2, <3>2 DEF Fallbacks
      <4>2. \A f2 \in Fallbacks' : f2 \in ShiftRef
        BY <2>2 DEF Fallbacks, RosterInv, TypeOK, ShiftRef
      <4>3. \E f2 : f2 \in Fallbacks'
        BY DEF Fallbacks
      <4> QED BY <4>1, <4>2, <4>3
    <3> QED BY <3>1, <3>2
  <2> QED BY <2>1, <2>2, <2>3 DEF GroupShift, GroupRows, CompanyShift, CompanyRows
<1>3. ASSUME NEW g \in GroupRows, DeleteGroup(g), group[g].shift = s
      PROVE  /\ UNCHANGED <<shifts, default, roster, employee, branch, company, device>>
             /\ \A x : \/ GroupShift(x)' = GroupShift(x)
                       \/ GroupShift(x) = s /\ GroupShift(x)' = None
  <2>1. /\ UNCHANGED <<shifts, default, roster, employee, branch, company, device>>
        /\ group' = [group EXCEPT ![g] = None]
    BY <1>3 DEF DeleteGroup
  <2>2. GroupRows' = GroupRows \ {g} /\ \A x \in GroupRows' : group'[x] = group[x]
    BY <2>1 DEF GroupRows, RosterInv, TypeOK
  <2> QED BY <1>3, <2>1, <2>2 DEF GroupShift
<1>4. CASE \E g \in GroupRows : DeleteGroup(g) /\ group[g].shift = s
  <2>1. UNCHANGED <<shifts, default, roster, employee, branch, company, device>>
    BY <1>3, <1>4
  <2>2. \A x : \/ GroupShift(x)' = GroupShift(x)
               \/ GroupShift(x) = s /\ GroupShift(x)' = None
    BY <1>3, <1>4
  <2>3. Fallbacks' = Fallbacks /\ \A x : CompanyShift(x)' = CompanyShift(x)
    BY <2>1 DEF Fallbacks, CompanyShift, CompanyRows
  <2> QED BY <1>1, <2>1, <2>2, <2>3
<1>5. ASSUME NEW c \in CompanyRows, DeleteCompany(c), company[c].shift = s
      PROVE  /\ UNCHANGED <<shifts, default, roster, employee, group, branch, device>>
             /\ \A b \in BranchRows : branch[b].company # c
             /\ \A x : \/ CompanyShift(x)' = CompanyShift(x)
                       \/ x = c /\ CompanyShift(x) = s /\ CompanyShift(x)' = None
  <2>1. /\ UNCHANGED <<shifts, default, roster, employee, group, branch, device>>
        /\ company' = [company EXCEPT ![c] = None]
        /\ \A b \in BranchRows : branch[b].company # c
    BY <1>5 DEF DeleteCompany
  <2>2. CompanyRows' = CompanyRows \ {c} /\ \A x \in CompanyRows' : company'[x] = company[x]
    BY <2>1 DEF CompanyRows, RosterInv, TypeOK
  <2> QED BY <1>5, <2>1, <2>2 DEF CompanyShift
<1>6. CASE \E c \in CompanyRows : DeleteCompany(c) /\ company[c].shift = s
  <2>1. PICK c \in CompanyRows : DeleteCompany(c) /\ company[c].shift = s
    BY <1>6
  <2>2. UNCHANGED <<shifts, default, roster, employee, group, branch, device>>
    BY <1>5, <2>1
  <2>3. \A b \in BranchRows : branch[b].company # c
    BY <1>5, <2>1
  <2>4. \A x : \/ CompanyShift(x)' = CompanyShift(x)
               \/ x = c /\ CompanyShift(x) = s /\ CompanyShift(x)' = None
    BY <1>5, <2>1
  <2>5. Fallbacks' = Fallbacks /\ \A x : GroupShift(x)' = GroupShift(x)
    BY <2>2 DEF Fallbacks, GroupShift, GroupRows
  <2>6. \A b \in BranchRows :
          CompanyShift(branch[b].company)' = CompanyShift(branch[b].company)
    BY <2>2, <2>3, <2>4 DEF CompanyShift, CompanyRows
  <2> QED BY <1>1, <2>2, <2>4, <2>5, <2>6
<1> QED BY <1>2, <1>4, <1>6 DEF Deletes

\* On the days with a given roster row, the shifts given stay but for the one that goes.
LEMMA DeletionKeeps ==
  ASSUME RosterInv, NEW s \in ShiftRef, Deletes(s), NEW e \in Employees,
         NEW row \in Assignment \union {None}
  PROVE  ShiftsGiven(e, row) \ {s} \subseteq ShiftsGiven(e, row)'
<1> SUFFICES ASSUME NEW b \in ReachedBranches(e), NEW f \in Fallbacks,
                    FirstShift(Tiers(e, row, b, f)) # s
             PROVE  FirstShift(Tiers(e, row, b, f)) \in ShiftsGiven(e, row)'
  BY DEF ShiftsGiven
<1>1. PICK f2 \in Fallbacks' : f2 \in ShiftRef /\ (f2 = f \/ (f = s /\ s \in shifts))
  BY DeletionStep
<1>2. ReachedBranches(e)' = ReachedBranches(e)
  BY DeletionStep DEF ReachedBranches
<1> DEFINE mid == BranchTiers(b)
           a1 == RowShift(row)
           a2 == employee[e].shift
           a3 == GroupShift(employee[e].group)
           x3 == GroupShift(employee[e].group)'
           c1 == CompanyShift(employee[e].company)
           x1 == CompanyShift(employee[e].company)'
           t == Tiers(e, row, b, f)
           t2 == Tiers(e, row, b, f2)'
<1>3. t = <<a1, a2, a3>> \o mid \o <<c1, f>>
  BY DEF Tiers, RowShift
<1>4. t2 = <<a1, a2, x3>> \o mid \o <<x1, f2>>
  <2>1. employee' = employee /\ branch' = branch
    BY DeletionStep
  <2>2. BranchTiers(b)' = BranchTiers(b)
    <3>1. b = None \/ b \in BranchRows
      BY DEF ReachedBranches, BranchRows, RosterInv, TypeOK, DeviceRow
    <3>2. \A y \in BranchRows :
            CompanyShift(branch[y].company)' = CompanyShift(branch[y].company)
      BY DeletionStep
    <3>3. ASSUME b \in BranchRows
          PROVE  CompanyShift(branch[b].company)' = CompanyShift(branch[b].company)
      BY <3>2, <3>3
    <3> QED BY <2>1, <3>1, <3>3 DEF BranchTiers
  <2> QED BY <2>1, <2>2 DEF Tiers, RowShift
<1>5. (a3 = s /\ x3 = None) \/ x3 = a3
  BY DeletionStep
<1>6. (c1 = s /\ x1 = None) \/ x1 = c1
  BY DeletionStep
<1>7. /\ a1 \in ShiftRef /\ a2 \in ShiftRef /\ a3 \in ShiftRef /\ x3 \in ShiftRef
      /\ mid \in Seq(ShiftRef) /\ c1 \in ShiftRef /\ x1 \in ShiftRef /\ f \in ShiftRef
  BY <1>5, <1>6, TiersTyped DEF ShiftRef
<1>8. FirstShift(t) = FirstOf(t, shifts)
  BY DEF FirstShift, FirstOf
<1>9. FirstShift(Tiers(e, row, b, f2))' = FirstOf(t2, shifts')
  BY DEF FirstShift, FirstOf
<1>10. /\ shifts' \subseteq shifts /\ shifts \ {s} \subseteq shifts'
       /\ None \notin shifts
  BY DeletionStep, NoneIsNoId DEF RosterInv, TypeOK
<1>11. FirstOf(t2, shifts') = FirstOf(t, shifts)
  <2> HIDE DEF mid, a1, a2, a3, x3, c1, x1, t, t2
  <2>1. /\ t \in Seq(ShiftRef) /\ Len(mid) \in Nat /\ Len(t) = Len(mid) + 5
        /\ t[1] = a1 /\ t[2] = a2 /\ t[3] = a3
        /\ \A i \in 4 .. Len(mid) + 3 : t[i] = mid[i - 3]
        /\ t[Len(mid) + 4] = c1 /\ t[Len(mid) + 5] = f
    BY <1>3, <1>7, ThreeParts
  <2>2. /\ t2 \in Seq(ShiftRef) /\ Len(t2) = Len(mid) + 5
        /\ t2[1] = a1 /\ t2[2] = a2 /\ t2[3] = x3
        /\ \A i \in 4 .. Len(mid) + 3 : t2[i] = mid[i - 3]
        /\ t2[Len(mid) + 4] = x1 /\ t2[Len(mid) + 5] = f2
    BY <1>1, <1>4, <1>7, ThreeParts
  <2>3. \A i \in 1 .. Len(t) : t2[i] = t[i] \/ (t[i] = s /\ t2[i] = None) \/ i = Len(mid) + 5
    <3> SUFFICES ASSUME NEW i \in 1 .. Len(t), i # Len(mid) + 5
                 PROVE  t2[i] = t[i] \/ (t[i] = s /\ t2[i] = None)
      OBVIOUS
    <3>1. i \in {1, 2, 3} \/ i \in 4 .. Len(mid) + 3 \/ i = Len(mid) + 4
      BY <2>1
    <3> QED BY <1>5, <1>6, <2>1, <2>2, <3>1
  <2>4. t2[Len(mid) + 5] = t[Len(mid) + 5] \/ (t[Len(mid) + 5] = s /\ s \in shifts)
    BY <1>1, <2>1, <2>2
  <2>5. OnlyLost(t, shifts, t2, shifts', s)
    BY <1>10, <2>1, <2>2, <2>3, <2>4 DEF OnlyLost
  <2>6. FirstOf(t, shifts) # s
    BY <1>8 DEF t
  <2> QED BY <2>5, <2>6, FirstStays
<1>12. FirstShift(Tiers(e, row, b, f2))' \in ShiftsGiven(e, row)'
  BY <1>1, <1>2 DEF ShiftsGiven
<1> QED BY <1>8, <1>9, <1>11, <1>12

\* While there is a default shift, an existing shift is given.
DefaultLaw ==
  \A e \in Employees, row \in Assignment \union {None} :
    default # {} => BuiltIn \notin ShiftsGiven(e, row)

LEMMA DefaultLawHolds == RosterInv => DefaultLaw
<1> SUFFICES ASSUME RosterInv, NEW e \in Employees, NEW row \in Assignment \union {None},
                    default # {}, NEW b \in ReachedBranches(e), NEW f \in Fallbacks
             PROVE  FirstShift(Tiers(e, row, b, f)) # BuiltIn
  BY DEF DefaultLaw, ShiftsGiven
<1> DEFINE mid == BranchTiers(b)
           a1 == RowShift(row)
           a2 == employee[e].shift
           a3 == GroupShift(employee[e].group)
           c1 == CompanyShift(employee[e].company)
           t == Tiers(e, row, b, f)
           D == {i \in DOMAIN t : t[i] \in shifts}
           m == CHOOSE i \in D : \A k \in D : i <= k
<1>1. f \in shifts
  BY DEF Fallbacks, RosterInv, TypeOK
<1>2. t = <<a1, a2, a3>> \o mid \o <<c1, f>>
  BY DEF Tiers, RowShift
<1>3. /\ a1 \in ShiftRef /\ a2 \in ShiftRef /\ a3 \in ShiftRef
      /\ mid \in Seq(ShiftRef) /\ c1 \in ShiftRef /\ f \in ShiftRef
  BY TiersTyped
<1>4. t \in Seq(ShiftRef) /\ Len(mid) \in Nat /\ Len(t) = Len(mid) + 5 /\ t[Len(mid) + 5] = f
  <2> HIDE DEF mid, a1, a2, a3, c1, t
  <2> QED BY <1>2, <1>3, ThreeParts
<1>5. FirstShift(t) = IF D = {} THEN BuiltIn ELSE t[m]
  BY DEF FirstShift
<1> HIDE DEF t, mid
<1>6. D \subseteq Nat /\ Len(mid) + 5 \in D
  BY <1>1, <1>4
<1>7. m \in D
  BY <1>6, LeastExists
<1>8. FirstShift(t) \in shifts
  BY <1>5, <1>6, <1>7
<1> QED BY <1>8, NoneIsNoId DEF t, RosterInv, TypeOK

\* A deletion changes only days that what it deletes has decided, and no day falls through
\* to the hard-coded schedule while there is a default shift.
THEOREM DeletionsAreLocal == Spec => DeletionIsLocal
<1> DEFINE Local ==
      \A s \in ShiftRef : Deletes(s) =>
        \A e \in Employees, d \in Days :
          /\ Queried(e, d) \ {s} \subseteq Queried(e, d)'
          /\ default' # {} => BuiltIn \notin Queried(e, d)'
<1>1. RosterInv /\ DefaultLaw' => Local
  <2> SUFFICES ASSUME RosterInv, DefaultLaw', NEW s \in ShiftRef, Deletes(s),
                      NEW e \in Employees, NEW d \in Days
               PROVE  /\ Queried(e, d) \ {s} \subseteq Queried(e, d)'
                      /\ default' # {} => BuiltIn \notin Queried(e, d)'
    OBVIOUS
  <2>1. PICK row \in Assignment \union {None} : row = QueriedRow(e, d)
    BY QueriedRowTyped
  <2>2. QueriedRow(e, d)' = row
    <3>1. roster' = roster
      BY DeletionStep
    <3> QED BY <2>1, <3>1 DEF QueriedRow, RowsOf
  <2>3. ShiftsGiven(e, row) \ {s} \subseteq ShiftsGiven(e, row)'
    BY DeletionKeeps
  <2>4. default' # {} => BuiltIn \notin ShiftsGiven(e, row)'
    BY DEF DefaultLaw
  <2> QED BY <2>1, <2>2, <2>3, <2>4 DEF Queried
<1> QED BY <1>1, RosterInvariant, DefaultLawHolds, PTL DEF DeletionIsLocal
==============================================================================
