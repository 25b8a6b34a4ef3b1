----------------------------- MODULE Corrections -----------------------------
(***************************************************************************)
(* Corrections of recorded punches: who asks for them and what a review    *)
(* does to the punch.                                                      *)
(*                                                                         *)
(* Employees file them through the device API (routes/supervisor.py) and   *)
(* the portal (routes/portal.py), and nightly_missing_punch_scan           *)
(* (app/worker.py) files them for the check-ins of the day that have no    *)
(* check-out. Supervisors review them; an approval rewrites the punch. The *)
(* scan is synchronous from the first query to its commit, so it is one    *)
(* step; what it leaves open is a crash, after which ARQ runs it again.    *)
(***************************************************************************)
EXTENDS Naturals, Sequences, FiniteSets

CONSTANTS
  Employees,   \* the active employees
  Punches,     \* ids of punch_logs
  EmpOf,       \* [Punches -> Employees]: whose they are
  Ids,         \* ids of attendance_corrections: bounds the corrections, for TLC
  Proposals,   \* what a request may ask for
  LastDay,     \* the days are 1..LastDay
  None,        \* a NULL column, or a row that does not exist
  MaxCrashes,  \* bound on crashes of the worker during a scan, for TLC
  MaxApprovals \* bound on approvals of corrections of recorded punches, for TLC

ASSUME CorrectionConstants ==
  /\ LastDay \in Nat \ {0} /\ MaxCrashes \in Nat /\ MaxApprovals \in Nat
  /\ None \notin Employees \union Punches \union {"In", "Out"}
  /\ \A d \in 1 .. LastDay : None # d
  /\ IsFiniteSet(Employees)

VARIABLES
  today,       \* the present day
  auto,        \* employees whose shift has auto_clockout_enabled
  recorded,    \* [Punches -> PunchRow or None]: each punch as it was recorded
  punch,       \* [Punches -> PunchRow or None]: punch_logs
  correction,  \* [Ids -> Correction or None]: attendance_corrections
  approvals,   \* the approvals so far whose punch existed, in order (history)
  scanned,     \* days on which cron has started the scan
  reruns,      \* scans cut short that ARQ has to run again
  crashes      \* crashes so far

vars == <<today, auto, recorded, punch, correction, approvals, scanned, reruns, crashes>>

Days == 1 .. LastDay
PunchTypes == {"In", "Out"}
Statuses == {"pending", "approved", "rejected"}

PunchRow == [day : Days, type : PunchTypes]

\* The punch a request names and the columns it would change.
Proposal == [punch : Punches \union {None}, type : PunchTypes \union {None},
             day : Days \union {None}]
Nothing == [punch |-> None, type |-> None, day |-> None]

\* flags is the employee and the day for a correction the scan has filed. (Whose a
\* request is plays no part in its review.)
Correction == [asks : Proposal, status : Statuses,
               flags : [emp : Employees, day : Days] \union {None}]

ASSUME CorrectionInputs == EmpOf \in [Punches -> Employees] /\ Proposals \subseteq Proposal
ASSUME NoneIsNoRow == /\ None \notin PunchRow
                      /\ None \notin Correction
                      /\ None \notin [emp : Employees, day : Days]

Recorded == {p \in Punches : punch[p] # None}
Filed    == {c \in Ids : correction[c] # None}

Init ==
  /\ today = 1
  /\ auto \in SUBSET Employees
  /\ recorded = [p \in Punches |-> None]
  /\ punch = [p \in Punches |-> None]
  /\ correction = [c \in Ids |-> None]
  /\ approvals = <<>>
  /\ scanned = {}
  /\ reruns = 0
  /\ crashes = 0

------------------------------------------------------------------------------
(* The employees *)

\* A punch is recorded, see PunchIntake.
RecordPunch(p, t) ==
  /\ punch[p] = None
  /\ punch' = [punch EXCEPT ![p] = [day |-> today, type |-> t]]
  /\ recorded' = [recorded EXCEPT ![p] = punch'[p]]
  /\ UNCHANGED <<today, auto, correction, approvals, scanned, reruns, crashes>>

\* request_correction, and portal_submit_correction (which names no punch): whether the
\* punch is the employee's, or exists, is not looked at.
RequestCorrection(c, asks) ==
  /\ correction[c] = None
  /\ correction' = [correction EXCEPT
       ![c] = [asks |-> asks, status |-> "pending", flags |-> None]]
  /\ UNCHANGED <<today, auto, recorded, punch, approvals, scanned, reruns, crashes>>

------------------------------------------------------------------------------
(* review_correction *)

\* Mutants: a rejection rewrites the punch as well; a column without a proposal is
\* cleared.
AppliesAlways(asks, status) == asks.punch \in Recorded
RewrittenWhole(row, asks) == [row EXCEPT !.type = asks.type, !.day = asks.day]

Applies(asks, status) == status = "approved" /\ asks.punch \in Recorded

\* The proposed columns replace those of the punch.
Rewritten(row, asks) == [row EXCEPT !.type = IF asks.type = None THEN @ ELSE asks.type,
                                    !.day  = IF asks.day = None THEN @ ELSE asks.day]

\* Any correction, one that has been reviewed before included, may be given any status;
\* a rejection takes no approval back.
Review(c, status) ==
  /\ c \in Filed
  /\ correction' = [correction EXCEPT ![c].status = status]
  /\ LET asks == correction[c].asks
     IN /\ punch' = IF Applies(asks, status)
                      THEN [punch EXCEPT ![asks.punch] = Rewritten(@, asks)] ELSE punch
        /\ approvals' = IF status = "approved" /\ asks.punch \in Recorded
                          THEN Append(approvals, c) ELSE approvals
  /\ UNCHANGED <<today, auto, recorded, scanned, reruns, crashes>>

------------------------------------------------------------------------------
(* nightly_missing_punch_scan *)

Has(e, type) == \E p \in Recorded :
                  EmpOf[p] = e /\ punch[p].day = today /\ punch[p].type = type

\* A check-in and no check-out today.
Unpaired == {e \in Employees : Has(e, "In") /\ ~Has(e, "Out")}

\* The branch for a shift without auto clock-out evaluates datetime.time.min, which
\* raises out of the loop: nothing of the scan is committed.
Raises == ~(Unpaired \subseteq auto)

\* The branch for one with auto clock-out always falls back to a correction, without a
\* look for an earlier one: the call datetime.time(h, m) raises, so that no punch is
\* generated.
Flag(e) == [asks |-> Nothing, status |-> "pending",
            flags |-> [emp |-> e, day |-> today]]

\* Mutant: each correction is committed as it is made, those before the exception stay.
ToFlagAnyhow == Unpaired \intersect auto

ToFlag == IF Raises THEN {} ELSE Unpaired

\* The single commit: one new row each.
Commit ==
  \E row \in [ToFlag -> {c \in Ids : correction[c] = None}] :
    /\ \A e, f \in ToFlag : row[e] = row[f] => e = f
    /\ correction' = [c \in Ids |-> IF \E e \in ToFlag : row[e] = c
                                      THEN Flag(CHOOSE e \in ToFlag : row[e] = c)
                                      ELSE correction[c]]

\* Mutant: a cron entry without its hour, as that of retry_failed_punches.
DueHourly == TRUE

\* cron: 23:30 comes once a day.
Due == today \notin scanned

\* A scan starts on time, or is one that ARQ runs again, on whatever day it is by then.
\* It may fail as a whole for other reasons (a query, the commit, a punch that cannot be
\* dated, see AttendanceReport). If the worker dies, before or after the commit, ARQ has
\* to run it again.
Scan ==
  \E onTime, dies \in BOOLEAN :
    /\ IF onTime THEN Due ELSE reruns > 0
    /\ dies => crashes < MaxCrashes
    /\ Commit \/ UNCHANGED correction
    /\ scanned' = IF onTime THEN scanned \union {today} ELSE scanned
    /\ reruns' = (IF onTime THEN reruns ELSE reruns - 1) + (IF dies THEN 1 ELSE 0)
    /\ crashes' = IF dies THEN crashes + 1 ELSE crashes
    /\ UNCHANGED <<today, auto, recorded, punch, approvals>>

------------------------------------------------------------------------------
(* Environment *)

NextDay ==
  /\ today < LastDay
  /\ today' = today + 1
  /\ UNCHANGED <<auto, recorded, punch, correction, approvals, scanned, reruns, crashes>>

\* The shift pages and the roster decide, see ShiftRoster.
ChangeShift(e) ==
  /\ auto' = IF e \in auto THEN auto \ {e} ELSE auto \union {e}
  /\ UNCHANGED <<today, recorded, punch, correction, approvals, scanned, reruns, crashes>>

Next ==
  \/ \E p \in Punches, t \in PunchTypes : RecordPunch(p, t)
  \/ \E c \in Ids, asks \in Proposals : RequestCorrection(c, asks)
  \/ Len(approvals) < MaxApprovals /\ \E c \in Ids, status \in Statuses : Review(c, status)
  \/ Scan
  \/ NextDay
  \/ \E e \in Employees : ChangeShift(e)

Spec == Init /\ [][Next]_vars

------------------------------------------------------------------------------
(* Properties *)

\* Every variable has its type: no review leaves a punch without a type or a time.
TypeOK ==
  /\ today \in Days
  /\ auto \in SUBSET Employees
  /\ recorded \in [Punches -> PunchRow \union {None}]
  /\ punch \in [Punches -> PunchRow \union {None}]
  /\ correction \in [Ids -> Correction \union {None}]
  /\ approvals \in Seq(Filed)
  /\ scanned \in SUBSET Days
  /\ reruns \in Nat
  /\ crashes \in Nat

\* v is what the latest approval of a correction of p that proposes a value of a column
\* has proposed, or what was recorded if there is none.
Shows(v, p, column, original) ==
  LET Asks(k) == correction[approvals[k]].asks
      proposals == {k \in DOMAIN approvals : Asks(k).punch = p /\ Asks(k)[column] # None}
  IN \/ proposals = {} /\ v = original
     \/ \E k \in proposals : /\ \A i \in proposals : i <= k
                             /\ v = Asks(k)[column]

\* What a punch shows is accounted for, column by column, by what was recorded and the
\* approvals since, the latest first: although a correction may be reviewed again after
\* it was approved or rejected, and several corrections may be about one punch.
PunchShowsLatestApproval ==
  \A p \in Recorded :
    \A column \in {"type", "day"} :
      Shows(punch[p][column], p, column, recorded[p][column])

Flagged(e, d) == {c \in Filed : correction[c].flags = [emp |-> e, day |-> d]}

\* An employee is flagged once a day, but for scans that ARQ ran again after a crash: they
\* do not look for what the first run has committed.
FlaggedTwiceNeedsCrash ==
  \A e \in Employees, d \in Days : Cardinality(Flagged(e, d)) <= 1 + crashes

\* The corrections of a scan come in a single commit (worker.py:228): if it flags anyone,
\* every employee with an unpaired check-in that day has been flagged.
ScanFlagsAllOrNobody ==
  [][\A e \in Employees, d \in Days :
       Flagged(e, d)' # Flagged(e, d) =>
         d = today /\ \A f \in Unpaired : Flagged(f, d)' # {}]_vars

\* The docstring of the scan (worker.py:223-230): a check-in that is unpaired gets a
\* correction. Claimed of employees without auto clock-out and of scans that fail for no
\* other reason. The code raises at the first of them.
UnpairedIsFlagged ==
  [][Scan /\ Commit => \A e \in Unpaired \ auto : Flagged(e, today)' # {}]_vars
==============================================================================
