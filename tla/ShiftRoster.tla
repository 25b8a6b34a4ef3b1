----------------------------- MODULE ShiftRoster -----------------------------
(***************************************************************************)
(* Which shift an employee has on a day.                                   *)
(*                                                                         *)
(* resolve_employee_shift (app/services/report_service.py) asks six tiers  *)
(* in turn: the roster, the employee, the group, the branch of a device    *)
(* and its company, the employee's company, the default. The tables behind *)
(* them are edited by pages of the admin UI (app/api/v1/routes/admin/) that *)
(* know nothing of one another. Every page commits in one synchronous      *)
(* stretch, so it is one step. Modelled are the queries the nightly scan   *)
(* and the portal ask; the reports' preloaded tables fail at the first     *)
(* employee, see AttendanceReport.                                         *)
(***************************************************************************)
EXTENDS Naturals, Sequences, FiniteSets

CONSTANTS
  Employees, Shifts, Groups, Branches, Companies, Devices,  \* possible ids
  LastDay,   \* the days are 1..LastDay
  None,      \* a NULL reference
  BuiltIn,   \* the hard-coded schedule of the last tier
  MaxEdits   \* bound on pages saved, for TLC

ASSUME DaysAreNat == LastDay \in Nat \ {0} /\ MaxEdits \in Nat
ASSUME NoneIsNoId == /\ None \notin Shifts \union Groups \union Branches
                     /\ None \notin Companies \union Employees
                     /\ BuiltIn \notin Shifts

VARIABLES
  foreignKeys,  \* whether the database enforces them (PostgreSQL does, SQLite does not)
  shifts,       \* rows of shift_schedules
  default,      \* those with is_default
  roster,       \* rows of schedule_assignments
  employee,     \* [Employees -> EmployeeRow]
  group,        \* [Groups -> GroupRow or None]
  branch,       \* [Branches -> BranchRow or None]
  company,      \* [Companies -> CompanyRow or None]
  device,       \* [Devices -> DeviceRow]: device_bindings and their branches
  edits         \* pages saved so far

tables == <<shifts, default, roster, employee, group, branch, company, device>>
vars == <<foreignKeys, shifts, default, roster, employee, group, branch, company,
          device, edits>>

------------------------------------------------------------------------------
(* Rows *)

Days == 1 .. LastDay
Open == LastDay + 1        \* end_date NULL: later than every day

ShiftRef == Shifts \union {None}

Assignment  == [emp : Employees, from : Days, to : 0 .. Open, shift : Shifts]
EmployeeRow == [alive : BOOLEAN, shift : ShiftRef, group : Groups \union {None},
                company : Companies \union {None}]
GroupRow    == [shift : ShiftRef]
CompanyRow  == [shift : ShiftRef]
BranchRow   == [shift : ShiftRef, company : Companies \union {None}]
DeviceRow   == [emp : Employees \union {None}, active : BOOLEAN,
                branches : SUBSET Branches]

ASSUME NoneIsNoRow == /\ None \notin Assignment
                      /\ None \notin GroupRow
                      /\ None \notin BranchRow

NewEmployee == [alive |-> TRUE, shift |-> None, group |-> None, company |-> None]
NewDevice   == [emp |-> None, active |-> FALSE, branches |-> {}]

GroupRows   == {g \in Groups : group[g] # None}
BranchRows  == {b \in Branches : branch[b] # None}
CompanyRows == {c \in Companies : company[c] # None}

\* Can a new value of a foreign key be stored?
MayRefer(ref, rows) == ref = None \/ ref \in rows \/ ~foreignKeys

\* Empty tables, or one row of each kind that refers to no shift yet.
Init ==
  /\ foreignKeys \in BOOLEAN
  /\ shifts = Shifts /\ default \in {{}} \union {{s} : s \in Shifts}
  /\ roster = {}
  /\ employee = [e \in Employees |-> NewEmployee]
  /\ \E bare \in BOOLEAN :
       /\ group = [g \in Groups |-> IF bare THEN None ELSE [shift |-> None]]
       /\ company = [c \in Companies |-> IF bare THEN None ELSE [shift |-> None]]
       /\ branch = [b \in Branches |-> IF bare THEN None
                                       ELSE [shift |-> None, company |-> None]]
       /\ device \in [Devices -> IF bare THEN {NewDevice}
                                  ELSE [emp : Employees, active : {TRUE}, branches : {Branches}]]
  /\ edits = 0

------------------------------------------------------------------------------
(* The shift of an employee on a day *)

Covers(r, d) == r.from <= d /\ d <= r.to
RowsOf(e) == {r \in roster : r.emp = e}

\* The query: the covering row with the latest effective_date.
QueriedRow(e, d) ==
  LET covering == {r \in RowsOf(e) : Covers(r, d)}
  IN IF covering = {} THEN None
     ELSE CHOOSE r \in covering : \A q \in covering : q.from <= r.from

\* The branches the third tier may take: those of any active device of the employee
\* (neither query has an ORDER BY); None when there is no device or no branch.
ReachedBranches(e) ==
  LET mine == {v \in Devices : device[v].emp = e /\ device[v].active}
      reached == UNION {device[v].branches : v \in mine}
      none == mine = {} \/ \E v \in mine : device[v].branches = {}
  IN {b \in reached : branch[b] # None} \union (IF none THEN {None} ELSE {})

GroupShift(g)   == IF g \in GroupRows THEN group[g].shift ELSE None
CompanyShift(c) == IF c \in CompanyRows THEN company[c].shift ELSE None
BranchTiers(b) ==
  IF b = None THEN <<>> ELSE <<branch[b].shift, CompanyShift(branch[b].company)>>

\* Mutant: the group is asked before the roster.
TiersGroupFirst(e, row, b, fallback) ==
  <<GroupShift(employee[e].group), IF row = None THEN None ELSE row.shift,
    employee[e].shift>>
    \o BranchTiers(b) \o <<CompanyShift(employee[e].company), fallback>>

\* The references the six tiers give, for a roster row (or None), a branch (or None)
\* and a default (or None).
Tiers(e, row, b, fallback) ==
  <<IF row = None THEN None ELSE row.shift, employee[e].shift,
    GroupShift(employee[e].group)>>
    \o BranchTiers(b) \o <<CompanyShift(employee[e].company), fallback>>

\* Mutant: the first reference decides, also when its shift does not exist any more.
FirstReferred(tiers) ==
  LET referred == {i \in DOMAIN tiers : tiers[i] # None}
      first == tiers[CHOOSE i \in referred : \A k \in referred : i <= k]
  IN IF referred = {} THEN BuiltIn ELSE IF first \in shifts THEN first ELSE BuiltIn

\* A tier without a reference, or whose shift does not exist any more, is passed over.
FirstShift(tiers) ==
  LET there == {i \in DOMAIN tiers : tiers[i] \in shifts}
  IN IF there = {} THEN BuiltIn
     ELSE tiers[CHOOSE i \in there : \A k \in there : i <= k]

Fallbacks == IF default = {} THEN {None} ELSE default

\* The shifts the code may give, over what the unordered queries may return.
ShiftsGiven(e, row) ==
  {FirstShift(Tiers(e, row, b, f)) : b \in ReachedBranches(e), f \in Fallbacks}

Queried(e, d) == ShiftsGiven(e, QueriedRow(e, d))

------------------------------------------------------------------------------
(* The roster page *)

\* Mutants: a bounded assignment closes the open ones too; a row is closed a day early.
ClosedByAny(r, e, f, t) ==
  IF r.emp = e /\ r.to = Open /\ r.from < f THEN [r EXCEPT !.to = f - 1] ELSE r
ClosedEarly(r, e, f, t) ==
  IF t = Open /\ r.emp = e /\ r.to = Open /\ r.from < f
    THEN [r EXCEPT !.to = f - 2] ELSE r

\* An open-ended assignment from f on ends the older open-ended ones the day before.
Closed(r, e, f, t) ==
  IF t = Open /\ r.emp = e /\ r.to = Open /\ r.from < f
    THEN [r EXCEPT !.to = f - 1] ELSE r

\* Mutant: the row of the same effective_date stays.
CreateAnother(e, f, t, s) ==
  /\ employee[e].alive
  /\ s \in shifts
  /\ roster' = {Closed(r, e, f, t) : r \in roster}
               \union {[emp |-> e, from |-> f, to |-> t, shift |-> s]}
  /\ UNCHANGED <<shifts, default, employee, group, branch, company, device>>

\* create_schedule_assignment: rows of the same effective_date are replaced. The
\* end_date is not compared with the effective_date.
CreateAssignment(e, f, t, s) ==
  /\ employee[e].alive
  /\ s \in shifts
  /\ roster' = {Closed(r, e, f, t) : r \in {q \in roster : ~(q.emp = e /\ q.from = f)}}
               \union {[emp |-> e, from |-> f, to |-> t, shift |-> s]}
  /\ UNCHANGED <<shifts, default, employee, group, branch, company, device>>

\* delete_schedule_assignment: a row that the deleted one has closed stays closed.
DeleteAssignment(r) ==
  /\ r \in roster
  /\ roster' = roster \ {r}
  /\ UNCHANGED <<shifts, default, employee, group, branch, company, device>>

------------------------------------------------------------------------------
(* The shift pages *)

CreateShift(s, isDefault) ==
  /\ s \notin shifts
  /\ shifts' = shifts \union {s}
  /\ default' = IF isDefault THEN {s} ELSE default
  /\ UNCHANGED <<roster, employee, group, branch, company, device>>

UpdateShift(s, isDefault) ==
  /\ s \in shifts
  /\ default' = IF isDefault THEN {s} ELSE default \ {s}
  /\ UNCHANGED <<shifts, roster, employee, group, branch, company, device>>

ShiftInUse(s) == \/ \E r \in roster : r.shift = s
                 \/ \E e \in Employees : employee[e].shift = s
                 \/ \E g \in GroupRows : group[g].shift = s
                 \/ \E b \in BranchRows : branch[b].shift = s
                 \/ \E c \in CompanyRows : company[c].shift = s

\* Mutant: the flag outlives the row.
DeleteShiftOnly(s) ==
  /\ s \in shifts
  /\ foreignKeys => ~ShiftInUse(s)
  /\ shifts' = shifts \ {s}
  /\ UNCHANGED <<default, roster, employee, group, branch, company, device>>

\* delete_shift_schedule checks nothing itself; the commit fails where the database
\* enforces the references.
DeleteShift(s) ==
  /\ s \in shifts
  /\ foreignKeys => ~ShiftInUse(s)
  /\ shifts' = shifts \ {s}
  /\ default' = default \ {s}
  /\ UNCHANGED <<roster, employee, group, branch, company, device>>

------------------------------------------------------------------------------
(* Groups, companies and branches: update of a group or a company can set a shift,
   never clear it; the branch page writes what it is sent. *)

CreateGroup(g, s) ==
  /\ group[g] = None
  /\ MayRefer(s, shifts)
  /\ group' = [group EXCEPT ![g] = [shift |-> s]]
  /\ UNCHANGED <<shifts, default, roster, employee, branch, company, device>>

UpdateGroup(g, s) ==
  /\ g \in GroupRows
  /\ s # None /\ MayRefer(s, shifts)
  /\ group' = [group EXCEPT ![g].shift = s]
  /\ UNCHANGED <<shifts, default, roster, employee, branch, company, device>>

DeleteGroup(g) ==
  /\ g \in GroupRows
  /\ foreignKeys => \A e \in Employees : employee[e].group # g
  /\ group' = [group EXCEPT ![g] = None]
  /\ UNCHANGED <<shifts, default, roster, employee, branch, company, device>>

CreateCompany(c, s) ==
  /\ company[c] = None
  /\ MayRefer(s, shifts)
  /\ company' = [company EXCEPT ![c] = [shift |-> s]]
  /\ UNCHANGED <<shifts, default, roster, employee, group, branch, device>>

UpdateCompany(c, s) ==
  /\ c \in CompanyRows
  /\ s # None /\ MayRefer(s, shifts)
  /\ company' = [company EXCEPT ![c].shift = s]
  /\ UNCHANGED <<shifts, default, roster, employee, group, branch, device>>

\* delete_company looks at the branches, the database at the employees.
DeleteCompany(c) ==
  /\ c \in CompanyRows
  /\ \A b \in BranchRows : branch[b].company # c
  /\ foreignKeys => \A e \in Employees : employee[e].company # c
  /\ company' = [company EXCEPT ![c] = None]
  /\ UNCHANGED <<shifts, default, roster, employee, group, branch, device>>

\* create_branch and update_branch.
SaveBranch(b, s, c) ==
  /\ MayRefer(s, shifts) /\ MayRefer(c, CompanyRows)
  /\ branch' = [branch EXCEPT ![b] = [shift |-> s, company |-> c]]
  /\ UNCHANGED <<shifts, default, roster, employee, group, company, device>>

\* delete_branch is refused while a device is linked to the branch.
DeleteBranch(b) ==
  /\ b \in BranchRows
  /\ \A v \in Devices : b \notin device[v].branches
  /\ branch' = [branch EXCEPT ![b] = None]
  /\ UNCHANGED <<shifts, default, roster, employee, group, company, device>>

------------------------------------------------------------------------------
(* Employees and their devices *)

\* update_employee: any of the three references is set, none is cleared.
UpdateEmployee(e, s, g, c) ==
  /\ employee[e].alive
  /\ MayRefer(s, shifts) /\ MayRefer(g, GroupRows) /\ MayRefer(c, CompanyRows)
  /\ employee' = [employee EXCEPT
       ![e] = [alive   |-> TRUE,
               shift   |-> IF s = None THEN employee[e].shift ELSE s,
               group   |-> IF g = None THEN employee[e].group ELSE g,
               company |-> IF c = None THEN employee[e].company ELSE c]]
  /\ UNCHANGED <<shifts, default, roster, group, branch, company, device>>

\* soft_delete_employee removes the devices, not the roster.
SoftDelete(e) ==
  /\ employee[e].alive
  /\ employee' = [employee EXCEPT ![e].alive = FALSE]
  /\ device' = [v \in Devices |-> IF device[v].emp = e THEN NewDevice ELSE device[v]]
  /\ UNCHANGED <<shifts, default, roster, group, branch, company>>

\* create_employee with the id of a deleted one: the references are written anew,
\* the roster is still there.
Reactivate(e, s, g, c) ==
  /\ ~employee[e].alive
  /\ MayRefer(s, shifts) /\ MayRefer(g, GroupRows) /\ MayRefer(c, CompanyRows)
  /\ employee' = [employee EXCEPT
       ![e] = [alive |-> TRUE, shift |-> s, group |-> g, company |-> c]]
  /\ UNCHANGED <<shifts, default, roster, group, branch, company, device>>

\* The device pages, see DeviceRegistry: a device is bound, (in)activated or unbound.
ChangeDevice(v, e, active) ==
  /\ e # None => employee[e].alive
  /\ device' = [device EXCEPT ![v].emp = e, ![v].active = active]
  /\ UNCHANGED <<shifts, default, roster, employee, group, branch, company>>

\* assign_branch_to_device, refused when both companies are known and differ.
AssignBranch(v, b) ==
  /\ b \in BranchRows /\ b \notin device[v].branches
  /\ LET e == device[v].emp
     IN e # None => \/ None \in {employee[e].company, branch[b].company}
                    \/ employee[e].company = branch[b].company
  /\ device' = [device EXCEPT ![v].branches = @ \union {b}]
  /\ UNCHANGED <<shifts, default, roster, employee, group, branch, company>>

RemoveBranch(v, b) ==
  /\ b \in device[v].branches
  /\ device' = [device EXCEPT ![v].branches = @ \ {b}]
  /\ UNCHANGED <<shifts, default, roster, employee, group, branch, company>>

------------------------------------------------------------------------------

RosterPage ==
  \/ \E e \in Employees, f \in Days, t \in Days \union {Open}, s \in Shifts :
       CreateAssignment(e, f, t, s)
  \/ \E r \in roster : DeleteAssignment(r)

ShiftPages ==
  \E s \in Shifts :
    \/ \E isDefault \in BOOLEAN : CreateShift(s, isDefault) \/ UpdateShift(s, isDefault)
    \/ DeleteShift(s)

StructurePages ==
  \/ \E g \in Groups : \/ \E s \in ShiftRef : CreateGroup(g, s) \/ UpdateGroup(g, s)
                       \/ DeleteGroup(g)
  \/ \E c \in Companies : \/ \E s \in ShiftRef : CreateCompany(c, s) \/ UpdateCompany(c, s)
                          \/ DeleteCompany(c)
  \/ \E b \in Branches : \/ \E s \in ShiftRef, c \in Companies \union {None} :
                              SaveBranch(b, s, c)
                         \/ DeleteBranch(b)

PeoplePages ==
  \/ \E e \in Employees :
       \/ \E s \in ShiftRef, g \in Groups \union {None}, c \in Companies \union {None} :
            UpdateEmployee(e, s, g, c) \/ Reactivate(e, s, g, c)
       \/ SoftDelete(e)
  \/ \E v \in Devices :
       \/ \E e \in Employees \union {None}, active \in BOOLEAN : ChangeDevice(v, e, active)
       \/ \E b \in Branches : AssignBranch(v, b) \/ RemoveBranch(v, b)

Next ==
  /\ edits < MaxEdits
  /\ edits' = edits + 1
  /\ UNCHANGED foreignKeys
  /\ RosterPage \/ ShiftPages \/ StructurePages \/ PeoplePages

Spec == Init /\ [][Next]_vars

------------------------------------------------------------------------------
(* Properties *)

\* Every table holds rows of its type, and is_default is a flag of existing shifts.
TypeOK ==
  /\ foreignKeys \in BOOLEAN
  /\ shifts \in SUBSET Shifts
  /\ default \in SUBSET shifts
  /\ roster \in SUBSET Assignment
  /\ employee \in [Employees -> EmployeeRow]
  /\ group \in [Groups -> GroupRow \union {None}]
  /\ branch \in [Branches -> BranchRow \union {None}]
  /\ company \in [Companies -> CompanyRow \union {None}]
  /\ device \in [Devices -> DeviceRow]
  /\ edits \in Nat

\* An employee has one assignment per effective_date, whatever the order in which
\* assignments were created, replaced, closed and deleted.
OneRowPerDate ==
  \A r, q \in roster : r.emp = q.emp /\ r.from = q.from => r = q

\* A new assignment changes no day before its effective_date: the report of a closed
\* period stays as it was.
PastIsKept ==
  [][\A e \in Employees, f \in Days, t \in Days \union {Open}, s \in Shifts :
       CreateAssignment(e, f, t, s) =>
         \A d \in 1 .. f - 1 : Queried(e, d)' = Queried(e, d)]_vars

InRoster(e, d) == \E r \in roster : r.emp = e /\ Covers(r, d)

\* Creating an assignment leaves no day without one that had one: days are uncovered by
\* a deletion, or by replacing an assignment with a shorter one of the same date.
CreationLeavesNoGap ==
  [][\A e \in Employees, f \in Days, t \in Days \union {Open}, s \in Shifts :
       CreateAssignment(e, f, t, s) =>
         \A d \in Days : InRoster(e, d) /\ ~InRoster(e, d)' =>
           t < d /\ \E r \in roster : r.emp = e /\ r.from = f /\ Covers(r, d)]_vars

\* The roster rules: on a day it covers with an existing shift, no page about groups,
\* branches, companies, devices, the employee or the default changes the shift.
RosterShields ==
  [][\A e \in Employees, d \in Days :
       /\ QueriedRow(e, d) # None
       /\ QueriedRow(e, d).shift \in shifts \intersect shifts'
       /\ UNCHANGED roster
       => Queried(e, d)' = Queried(e, d)]_vars

\* The deletion of a shift, or of the group or the company that gives it.
Deletes(s) == \/ DeleteShift(s)
              \/ \E g \in GroupRows : DeleteGroup(g) /\ group[g].shift = s
              \/ \E c \in CompanyRows : DeleteCompany(c) /\ company[c].shift = s

\* No page looks whether what it deletes is in use. Where the database does not refuse
\* it, rows go on referring to what is gone: even so, only days it has decided change, and
\* none of them falls through to the hard-coded schedule while there is a default shift.
DeletionIsLocal ==
  [][\A s \in ShiftRef : Deletes(s) =>
       \A e \in Employees, d \in Days :
         /\ Queried(e, d) \ {s} \subseteq Queried(e, d)'
         /\ default' # {} => BuiltIn \notin Queried(e, d)']_vars
==============================================================================
