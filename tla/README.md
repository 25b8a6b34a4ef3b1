# Attendance middleware: a TLA+ verification project

The repository is a FastAPI service that takes attendance punches from mobile
devices, stores them in one SQL database, and forwards them to a ZKTeco *ADMS*
server; an ARQ worker process runs the deliveries and the scheduled tasks. This
directory models the parts of it in which order, failure and concurrency matter,
checks them with TLC on small instances and proves the central invariants with
TLAPS for every value of the constants.

All sources are named relative to `src/`. `PROJECT.json` maps every definition
that models code to its lines.

## 1. The system

Two processes share the database and Redis.

* The **API process** is one asyncio loop. Code between two `await`s is
  synchronous and therefore one step: a handler that validates and commits
  without awaiting cannot be interrupted by another handler. What is read before
  an `await` may be stale after it. Redis calls (`cache.py`, `enqueue_job`),
  websocket sends and HTTP posts are awaits; SQLAlchemy sessions are synchronous.
* The **worker process** is another asyncio loop that runs ARQ jobs and crons
  with its own sessions. Jobs interleave at their awaits; the two processes
  interleave anywhere.

| Component | State it keeps | Operations | Interacts with |
|---|---|---|---|
| Punch intake (`app/api/v1/routes/punch.py`, `app/services/punch_service.py`) | rows of `punch_logs` | single and batch submission, validation, type sequence | devices (repeat their requests), bindings, ARQ queue, stream |
| ADMS push worker (`app/worker.py`, `app/services/adms_service.py`) | sync columns of `punch_logs`, ARQ queue, dead letters in `audit_logs` | `sync_punches_to_adms`, `retry_failed_punches`, `cleanup_stale_jobs`, `push_to_adms` | ADMS, both database sessions of a job |
| ADMS registration (`adms_service.py`, `adms_scraper.py`, `admin/employees.py`) | `employees`, `adms_registered_employees`, ADMS's own user table | register, delete, bulk sync, pull of names, employee pages | push worker, ADMS |
| Device registry (`routes/device.py`, `admin/devices.py`, `admin/branches.py`) | `device_bindings`, `device_branches`, cached configurations | register, onboard, approve, suspend, assign, unbind, configuration | intake, API keys, cache |
| API keys (`services/auth.py`, `admin/security.py`) | `api_keys` | create, use, rotate, revoke | every device request |
| Nightly scan (`worker.py`) | corrections, generated punches | `nightly_missing_punch_scan` | shift resolution, reports |
| Shift resolution (`report_service.py`, roster pages) | assignments, rosters, defaults | six-tier lookup, preloaded and queried | pairing, scan |
| Punch pairing (`report_service.py`) | none (pure) | `pair_employee_punches` | reports |
| Corrections (`supervisor.py`, `portal.py`) | `attendance_corrections` | request, review, approve | `punch_logs` |
| Leaves (`admin/leaves.py`, `portal.py`) | `leave_requests`, `leave_balances` | request, review | webhooks |
| Cached lookups (`cached_lookups.py`, `cache.py`) | Redis keys | read-through, invalidate | every page that changes a shift, branch or holiday |
| Webhooks (`webhook_service.py`, `worker.py`) | ARQ jobs | fire, deliver, retry | corrections, leaves, punches |
| Live stream (`punch.py`) | list of websockets | join, leave, broadcast | intake |
| Geofencing (`geo.py`) | none (pure) | distance, polygon | intake |

The rest (heartbeat, portal pages, reports, accounts, health, migrations) is
listed in `PROJECT.json` with the reason it is left out.

### What is hard here, and what makes each part correct

* **Push worker.** A job commits its outcome twice through two sessions, the
  second from a copy of the row it loaded before its awaits. Runs of one punch may
  overlap once something re-enqueues it. The worker may die anywhere, and ARQ
  then runs the job again. *Correct* when no status claims a delivery that did not
  happen, nothing is left pending without a reason on record, failures are counted
  honestly, duplicates on ADMS stay bounded, and every punch is settled.
* **Intake.** Devices repeat what was not answered, through either endpoint, in
  overlapping batches, with clocks that are wrong and queues that grow old.
  *Correct* when a punch is recorded once, an answer can be relied on, and the
  limits hold at their boundaries.
* **Registration.** Three copies of an employee (row, tracker, ADMS) are kept in
  step by tasks that read before an await and write after it; ADMS executes posts
  late and out of order; background tasks die with the API. *Correct* when a
  tracked employee is known to ADMS, no ATTLOG is discarded for another reason
  than a recorded failure, and the names agree when all is quiet.
* **Registry, keys, caches.** A configuration computed before an invalidation can
  be cached after it; limits are checked in some of the operations only.
* **Scan, corrections, leaves.** Long handlers with several failures swallowed or
  fatal halfway; operations without a guard on the present status.

## 2. The modules

A component `X` has a module `X.tla` (state, actions, properties, and the mutants
that show each property can fail), a module `MCX.tla` with the values its
configurations share, configurations `X_<run>.cfg`, and, where something is
proved, `X_proofs.tla`. An operator under a `Mutant:` comment is not part of the
specification: it is a plausible wrong form of the definition below it.

### PunchSync: from a committed row to ADMS

| In the model | In the code |
|---|---|
| `request` | the handler `create_punch`: committed, then (after the broadcast) enqueued |
| `row` | `adms_status`, `server_sync_status`, `sync_retry_count`, and the dead letters of the punch |
| `job` | ARQ's queue and its running jobs; `snap` is the copy of the row the job's session loaded |
| `sweep` | the rows a run of `retry_failed_punches` has read and not yet enqueued |
| `regular`, `serverUrl`, `old` | what the admin pages and the calendar change meanwhile |
| `acks`, `failures`, `dropped`, `crashes` | history: what really happened, for the properties to compare with |

`RunPush`, `Registered`, `AdmsAccepts`/`AdmsRefuses`, `RunUploaded`/`RunPushFailed`
are the phases of `sync_punches_to_adms` and `push_to_adms`, cut at the awaits.
`OuterSynced` and `OuterFailed` model the second commit as SQLAlchemy issues it: a
column is written only where its new value differs from the *loaded* one, and the
count starts from the loaded one. The two commits are one step unless
`OuterCommitFails` or `CrashBetweenCommits` puts something between them (there is
no await between them, and the other process does not write these columns except
through another run's commits, which are modelled as steps of their own).
`TriesExhausted`, `JobExpires` and the requeueing in `WorkerCrash` are ARQ's rules.

### PunchLedger: what PunchSync promises

An abstract specification without rows, sessions, jobs or processes: the recorded
punches, what the dashboard shows of each, how often ADMS has taken each, which are
known as lost, and a count of faults. A punch is shown as delivered only if ADMS has taken
it; what is settled stays settled, and ADMS takes nothing twice, unless something
has failed; and a recorded punch is eventually settled or known as lost (`EverySettled`).
`PunchSync!Ledger` instantiates it with a refinement mapping, and `ImplementsLedger`
is `Ledger!Spec`, safety and liveness at once.

### PunchIntake: from the device to a committed row

`client` is what each device knows of each of its punches, `rows` is
`punch_logs`, `batch` the batch requests under way (what each has yet to record
and the results so far), `binding` the device's row as an admin may change it,
`now` the clock. `Outcomes(i)` is `validate_and_prepare_punch` followed by
`create_punch_log`: the lookup of `client_punch_id` first, then all checks, then
the commit. It is one step because the code has no await in it. `BatchNext` is
one iteration of the batch loop up to its await; `SingleAnswer` and `BatchAnswer`
are the two readings of the same outcome. Any answer may be lost, and a device
sends everything again that it has not been told "success" for. Time is in
ticks; `GracePeriod`, `DupWindow`, `MaxDeviation` and `DayLength` keep the order
of the code's constants.

### AdmsRegistration: the three copies of an employee

`employee` is the row, `tracked` the rows of `adms_registered_employees`, `known`
what ADMS has under each PIN. `task` holds the tasks under way (the background
registration of the employee pages, a deletion, the registration a push begins
with), `bulk` the chunked bulk sync, `late` and `erasing` posts that ADMS will
execute although its client has given up or has already been answered. Every
await is a boundary between two actions: `PushStart` reads the tracker, the post is
accepted or refused by the environment (`PostAccepted`, `PostRefused`), and `Check`
/ `RegistrationDone` writes the tracker. `discarded`, `failed`, `erased`, `overlapped`
and `missed` are history variables that name the reasons the properties admit.

### DeviceRegistry: rows, keys and cached configurations

`binding` is the row of each device, `key` the rows of `api_keys`, `site` what the branch
shows, `cache` the entries `device_config:<key>:<device>` in Redis. `request` holds the
configuration requests under way, cut at their two awaits: `ConfigStart` (key checked,
cache asked), `ConfigHit` / `ConfigRegister` / `ConfigCompute` (what lies between), and
`ConfigWrite`. `admin` holds the pages under way: each commits in the step that begins it
(`EditRow`, `SetActive`, `ChangeBranch`), or first invalidates and then deletes
(`UnbindStart` / `UnbindFinish`, `SoftDeleteStart` / `SoftDeleteFinish`), with `Invalidate`
or `InvalidateFails` once for every entry in its `todo`. A page that deletes holds rows by
their id: `DeleteRows` takes a row from the other pages that hold it, so that they do not
find the row of a device that registered anew.

The entry a page invalidates is the one under the key of the *row*; a request reads and
writes the one under the key it *sends*. Of `excused`, `unbound` and `released` the code
knows nothing: they record why the properties make an exception.

### ShiftRoster: which shift an employee has on a day

The variables are the tables `resolve_employee_shift` reads; each page that edits one of
them is an action (every page commits without an await in between). `Tiers` lists the
references the six tiers give, `FirstShift` takes the first whose shift exists, and
`ShiftsGiven` is a *set*, over what the queries without an `ORDER BY` may return: which of
the active devices, which of its branches, which of the defaults. `end_date` NULL is `Open`,
a day later than all. `Closed` and `CreateAssignment` are the roster page: an open-ended
assignment ends the older open-ended ones the day before and replaces rows of its own date.
`foreignKeys` tells PostgreSQL, which refuses a dangling reference, from SQLite, which the
tests and the default configuration use and which does not. No page looks whether what it
deletes is in use, so on SQLite rows go on referring to shifts, groups and companies that
are gone; `DeletionIsLocal` is what the order of the tiers makes of that: such a reference is
passed over like a NULL, and only days that it has decided change.

### AttendanceReport: one calendar, many ranges

`pair_employee_punches` walks through the days of a range with a running total of overtime
for each month, so its result for a day depends on where the range begins. The module runs
the reports of all ranges side by side over the same days: report `s` begins on day `s`.
`Verdict` is the body of the day loop up to the cap (working day, first In to last Out less
the breaks, lateness, the overtime policy), `Credit` the cap, `PairDay` one day of every
report. The two exceptions end a report (`Groups`: a punch without an offset of an employee
without a branch; `Resolves`: the tables preloaded by the Excel and the work-hours report).

### Corrections: requests, reviews, and the nightly scan

`punch` is `punch_logs` as corrections may change it, `recorded` how each punch was
recorded, `correction` the rows of `attendance_corrections`, `approvals` the approvals in
order (history). `Review` accepts any status for any correction, reviewed before or not, as
`review_correction` does. `Scan` is `nightly_missing_punch_scan`, one synchronous step from
its first query to its one commit: `Raises` is the branch that evaluates
`datetime.time.min`, `Flag` the fallback of the other. `onTime` is the cron, `reruns` the
jobs ARQ runs again after the worker has died in one, before or after the commit.

### EventDelivery: who is told

The broadcast of a punch is cut at each send: `event[o].list` is the copy of the list that
the loop goes through, `at` its position, while `Connect`, `Close` and `Disconnect` change
`conns` and other broadcasts go on. Webhooks: `Fire` is the background task after the
answer (its query of the subscribers), `EnqueueHook` one subscriber, and `StartJob`,
`EndpointAnswers`, `EndJob`, `AbortJob` are `deliver_webhook`, with ARQ's rule for crashes
in `WorkerCrash`. Leaves are filed, reviewed (again) and deleted by their pages, and each
approval fires.

### How the modules meet

PunchIntake ends where PunchSync begins (a committed row and an enqueued job);
the registration a push begins with is AdmsRegistration's `PushStart`, of which PunchSync
keeps the verdict; `ChangeDevice` and `AssignBranch` in ShiftRoster are the pages of
DeviceRegistry as far as the third tier sees them; `auto` in Corrections and `Shifts` in
AttendanceReport are what ShiftRoster may answer. They are composed by these interfaces
and not by a common module: the product of two of them has more states than TLC can
visit, and no property of one depends on the internal state of another.

## 3. The runs

Each passing run takes seconds to three minutes. Constants are cut so that both sides
of every limit are met. Deadlock is checked where the system cannot stop; it is not where
counted events or the end of the calendar stop the model (`CHECK_DEADLOCK FALSE`).

| Run | Question | Bounds, and why they are enough |
|---|---|---|
| `PunchSync_worker` | the worker as configured; does it keep the promise of `PunchLedger` | 2 punches of one employee, 2 jobs, 2 crashes, 2 tries, dead letter at 2: a job is cut off twice, every limit is reached. Without a `pool` in ctx no punch has two jobs, so 2 slots are all that can be used. Under `FairSpec` and without symmetry, because it checks liveness |
| `PunchSync_retry` | overlapping runs of one punch | 1 punch, 2 jobs, 3 sweeps of which 2 overlap, 1 crash: the stale copy of each run meets the other's commits. The ctx holds the key the sweep expects (`CtxWithPool`), that is, the configuration the code was written for |
| `PunchIntake_endpoints` | both endpoints, batches, repeats, midnight, crashes | 3 punches in 3 forms (one outside the geofence), a limit of 2 a day, UTC days of 3 ticks and local days that end a tick earlier, clock values 0 to 2, windows of 1, a batch of 2 that single requests overlap, a device that is moved to another employee, API crashes between two punches; clocks exact or slow. `ThirdIsOfOneEmployee` explores what a third punch adds only where the device has not been moved, every punch was made inside the geofence and none was refused for a device without a secret |
| `AdmsRegistration_overlaps` | every overlap of two tasks on one employee; bulk sync in chunks | 2 employees, 2 tasks, 1 late post, 2 names, chunk size 1, at most 3 edits by the pages. `OneEmployeeOrOneTask`: two tasks, a late post and the pages meet on one employee while the other is as it was at the beginning; or both employees change, with one task besides the bulk sync, no late post, and the third edit of the pages only during the bulk sync |
| `DeviceRegistry_pages` | rows, keys and cached configurations; does a suspension take effect | 2 devices, 2 keys, one employee with a maximum of 1, one configuration request, 2 admin requests at once, 2 admin requests or onboardings in a behaviour: with initial rows of every kind, each page meets each other page, an onboarding, a failure and a crash (3 was also run, under symmetry and for the invariants: 2.1 million states, same result) |
| `ShiftRoster_pages` | what decides on a shift, and what a page does to other days | 1 employee, 2 shifts, 3 days (one before, at and after an effective date), one row of each other table, 3 pages in any order from bare and from filled tables, with and without foreign keys: an assignment is created, closed by a second and replaced or deleted by a third; a shift, group or company is given to a row and deleted under it |
| `AttendanceReport_ranges` | the monthly cap, and overtime as a function of the range | 4 days of which the last 3 are in one month, all patterns of punches in a day of 4 ticks, 3 shifts with caps 4, 2 and none, all beginnings: a month's cap is reached in its first, second or third day, and two reports that begin before and in the month meet |
| `Corrections_reviews` | what a punch shows after many reviews; whom the scan flags | 2 employees with a punch each, 2 days, 2 corrections of 5 kinds (two about one column, one about another punch, one from the portal), 2 approvals, 1 crash in a scan |
| `EventDelivery_told` | who has heard of an event | 2 events, 2 dashboards, 1 webhook, 1 leave that is reviewed again, 1 crash of either process: two broadcasts overlap with a closed socket between the sends |

Two runs have a CONSTRAINT. It cuts off the exploration behind the states it excludes and
takes nothing from the states it keeps; both runs check safety only.

With a limit of 2 an accepted punch of `PunchIntake_endpoints` may have an earlier row of its
day, so that the sequence of the day changes the type it is stored with (an "In" sent after
an "In" is stored as "Out"), by the latest timestamp and not by the latest arrival; with
local and UTC days that end at different ticks, two punches of one local day may count for
the limits of two days, and the other way round.

In `PunchIntake_endpoints` the clocks are exact or slow. With a clock that runs *ahead*,
two punches of one type may be spaced by less than the window across midnight (the
type sequence restarts with the new day), so `SameTypeSpaced` is not claimed there; nor
for a punch that says "auto" once the page has added a punch type "in". The theorem
`SameTypesAreSpaced` has both conditions as hypotheses, `CodesAreSpaced` needs neither.

Where a run has symmetry it checks no liveness and the values it permutes are not told
apart by any definition; where a choice is made by CHOOSE its result is unique
(`OneRowPerDate` for the roster) or the choice is among indices.

### Runs that end in a violation

These state what the documentation, a comment or a docstring says, and TLC shows
a behaviour of the code that contradicts it. The findings in `PROJECT.json` quote
the lines.

| Run | What TLC shows |
|---|---|
| `PunchSync_FailedIsRetried` | `retry_failed_punches` uses `ctx["pool"]`, which ARQ does not provide: failed punches are never retried |
| `AttendanceReport_ReportsComplete` | the Excel and the work-hours report hand `resolve_employee_shift` a list where it wants a dictionary: they end at the first day of the first employee |
| `Corrections_UnpairedIsFlagged` | the nightly scan evaluates `datetime.time.min` for an unpaired check-in without auto clock-out (`worker.py:311`): an exception, and nobody's correction is committed, where its docstring promises one |

### Other disagreements

Met while modelling, built into the actions as the code has them, and not kept as runs of
their own:

* The batch endpoint reports an already recorded punch as an error (`punch.py:243`), the
  single one as success: `RefusedIsNotRecorded` is about the single endpoint.
* A deletion that ADMS executes late leaves a tracked employee it does not know
  (`adms_service.py:238`): `TrackedIsKnownUnlessErased` is what holds.
* An approval may give an employee more devices than the maximum (`admin/devices.py:103`).
* A punch whose enqueue is lost stays pending, because no sweep reads pending rows. The
  cron of the retries, `minute=5`, is hourly, not every 5 minutes.
* The duplicate check compares the type as it was sent with the capitalised one; a late
  punch is counted with the day of its arrival (`DailyLimitByArrival` is what holds); a
  punch queued longer than the deviation window is refused for good
  (`punch_service.py:246`).
* After several edits of an employee ADMS may keep a former name although nothing failed
  (`NamesAlignAtRest` is what holds); the ATTLOG is posted although the registration
  before it failed.
* `soft_delete_employee` says that it "invalidates all cache", and a configuration that was
  cached under a rotated key, or written late, outlives it.
* The punch that the nightly scan generates for a shift with auto clock-out is never made
  (`worker.py:274` raises too): auto clock-out always ends in a correction.
* A webhook that fails is not tried again, although `worker.py:500` raises a RuntimeError "to
  trigger ARQ worker retry mechanism": ARQ retries a job that raises `Retry` or is cancelled.
* A punch without an offset of an employee whose devices have no branch raises an
  UnboundLocalError (`report_service.py:236`).
* An approved correction changes a punch that ADMS has already taken, and nothing sends it
  again (`supervisor.py:224`); a rejection after an approval takes nothing back.
* The list of punch types is written to its cache after an await (`punch.py:268`) like
  the configuration of a device, and may be as old as its ten minutes.

### Fairness

`PunchSync` and `DeviceRegistry` state liveness. `PunchSync!Fairness` assumes weak
fairness of what schedules itself: asyncio resumes a handler whose await is over (`Enqueue`
or `EnqueueFails`); ARQ polls its queue and starts or gives up what is in it; an HTTP
post ends, by its answer or by the client's timeout (`Registered`, `RunUploaded` or
`RunPushFailed`); cron fires the sweeps. ADMS is under no fairness (it may never
answer), nor are crashes, expiry, aborts and the admin pages. Crashes are bounded by
`MaxCrashes`; the bound is as large as `MaxTries`, so that exhausting the tries by
crashes is among the behaviours.

`DeviceRegistry!FairSpec` assumes weak fairness of `CacheExpires` only: Redis drops an
entry when its five minutes are over, and while it is there requests are answered
from it and write nothing. `SuspensionTakesEffect` needs no more, so it does not depend
on the invalidation, which may fail or be lost in a crash.

The other modules state safety only: a broadcast may wait for ever on a socket that takes
nothing, a webhook is not retried, and nobody has to review a correction.

## 4. The proofs

`*_proofs.tla` are checked by TLAPS without assumptions beyond the named `ASSUME`s on
the constants and the hypotheses a theorem states itself (`"pool" \notin CtxKeys`,
`ClocksNotAhead`, `FormsCarryCodes`; the run of each property meets them), so
the theorems hold for any number of punches, jobs, sweeps, crashes, devices, employees, tasks, shifts, days, corrections, events and webhooks.

* `PunchSync_proofs`. `TypeCorrect` is inductive with `TypeOK` alone.
  `SyncedAccounted` needs `AckInv`: `SyncedIsAccounted` talks of rows only, but a run
  that has an "OK" in its `reply` is about to write "synced", and a stale copy may
  make the second commit keep what the first has written; so `AckInv` adds that a
  reply "ok" has been counted in `acks`. `RetryBounded` and `DeadLetterHonest` rest on
  `CountInv`: the copy of the row that a run holds never counts more retries than
  failures have been recorded, which is what makes a count taken from a stale
  copy harmless. Both hold with any `CtxKeys`, so with any overlap of runs.

  `PendingExplained` holds with any `CtxKeys` too. It is not inductive: a run that loaded a
  *failed* row flushes no status, and leaves the row as another run has made it. `PendInv`
  adds that such a run stands before a pending row only if the punch is counted as lost
  already. Every step that ends a run is reduced to `Outcome`, every crash to `CrashOf`, so
  that an invariant is proved against these two instead of eight actions.

  `RetryExact`, `DuplicatesBounded`, `FailedIsFinal` and `ImplementsTheLedger` are about the
  worker as configured, `"pool" \notin CtxKeys`, and are false otherwise (overlapping runs
  lose counts and post twice without a crash). `SoloInv` is what makes them inductive: no
  sweep holds anything, a punch has at most one job and its request is over (`SoloJobs`),
  the copy of a run is exactly the row (`SoloCopies`), a job without an "OK" has one
  acknowledgement to spare (`SoloAcks`), and a row that has a job is pending unless a worker
  died (`SoloRows`). `FailedIsFinal` says of every failed punch what the run
  `PunchSync_FailedIsRetried` shows of one. `ImplementsTheLedger` proves
  `Spec => Ledger!SafeSpec` step by step: `LedgerStep` has for every action the action of
  `PunchLedger` it maps to (`Deliver`, `Settle`, `Fault`, `StrikeOff`, ...) or a stutter.

  `JobsAreFinite` is the step part of the liveness in `ImplementsLedger`: the rank of a job
  (stages left, three for each try) never rises, and falls with each of its stages and with
  each crash that cuts it off.
* `PunchIntake_proofs`. `IntakeInv` strengthens the type invariant and the two
  invariants with finiteness of `rows`. `OutcomeAllowed` states what one
  validation may do to `rows`; `RowsStay` that no row is ever lost. From them
  `PunchIsRecordedOnce` and `SuccessIsRecorded`. `SingleRefusalIsHonest` is the action
  property `RefusedIsNotRecorded`, with batches under way as well: what a batch has recorded
  the single endpoint recognizes before it checks anything. `DailyLimitHolds` uses
  `LimitInv`, the limit for every employee and day at once. `CodesAreSpaced` rests on
  `SpacedByCode` (the rows that carry a code are spaced) and `RowsPassed` (log numbers
  count the rows, no row is from the future, and each has passed its checks): the check for
  duplicates only compares raw types, and only the sequence of the stored types
  keeps two equal ones of a day apart. `SameTypesAreSpaced` adds `PunchesPast`, which needs
  that no clock is ahead (`ClocksNotAhead`) and that accepted forms carry a code
  (`FormsCarryCodes`); the run has both.
* `AdmsRegistration_proofs`. `RegistrationInv` joins the type, the two
  properties, `DeletionsAreRequested` (a deletion still to be executed is on record
  in `erased`), `TasksAreRight` and `BulkIsRight` (a task or a bulk chunk whose post was
  accepted is about to track an employee ADMS knows, unless erased). Without the
  last two `TrackedIsKnownUnlessErased` is not inductive: the tracker is written in a
  later step than the post.

  `NamesAligned` speaks of employees at rest, its invariant `AlignInv` of what is under way.
  Outside `overlapped` an employee is in the hands of one task, or of the bulk sync
  (`OneAtATime`); a late post is of an employee in `failed` (`LateFailed`); and for an
  employee outside all exceptions, the task and the bulk carry the name of the
  employees page, and ADMS has that name as soon as the post is accepted or the employee is
  tracked, except while `_bg_sync` is about to untrack (`Aligned`). `AlignedElsewhere` and
  `AlignedAtStart` cover the steps of other employees and the starts of tasks.
* `DeviceRegistry_proofs`. `UnboundKeyIsRevoked` is inductive with `TypeOK`.
  `StaleIsExplained` is not: it speaks of devices that have a row, and the registration of
  an unknown device may give a row to a device for which something is cached still.
  `EntriesAreExplained` speaks of every entry that is, or may become, the one of a row;
  `BegunCovers`, `DoneCovers` and `DeleteRowsEntries` are what the steps of a page do to the
  entries it is to invalidate, and `CoveredStays` that other steps leave them alone.
  `UnservedOnlyDrains` is the step part of `SuspensionTakesEffect`: only requests that had
  computed a configuration before the suspension can still write one, each once.
* `ShiftRoster_proofs`: every property of the component's run. `RosterInv` joins the two
  invariants and `LinkedExist`: a branch linked to a device exists, without which the third tier
  might have nothing to read, and a day no shift at all. One lemma for each kind of page
  keeps it. The properties of steps compare a query before and after; for that,
  `QueryLaw` (the query answers the latest covering row, which is unique by
  `OneRowPerDate`, and exists by `LatestExists`) and `RosterLaw` (a row with an existing
  shift gives that shift and no other) are invariants themselves, so that they hold on
  both sides of a step. `DeletionsAreLocal` compares the tiers one by one (`ThreeParts`,
  `DeletionStep`): where a tier gives another shift than before it gave the one that goes
  (`OnlyLost`), so the first tier that gives a shift is the same unless it gave that one
  (`FirstStays`); `DefaultLaw` says that a default shift keeps every day from the hard-coded
  schedule.
* `AttendanceReport_proofs`: every property of the component's run. `CapHolds`,
  `LongerRangeCreditsLess` and `FullMonthsAgree` are about the latest day;
  `ReportInv` adds what makes them inductive: of two reports that have not failed, the one
  that begins earlier has in no month a smaller total (`EarlierHasMore`), and two that have
  missed no day of a month have equal totals (`WholeMonthsAgree`). Both are kept by
  `CreditMonotone`: more overtime before a day leaves less to credit it with, but never so
  much less that the total would be smaller.

* `Corrections_proofs`: every property of the component's run. `PunchShowsLatestApproval`
  is inductive once every approval is known to be about a recorded punch
  (`ApprovedAreRecorded`) and `Kept` says that no step changes what a filed correction
  asks or whom it flags. `FlaggedTwiceNeedsCrash` is not: `FlagsAreScanned` bounds the
  corrections that flag an employee for a day by the scans of that day which ran to their
  end, those begun and those run again after a crash, so that a rerun uses up a crash.
  `ScanFlagsAllOrNobody` says that the scan's corrections come in one commit; who is flagged
  at all is the violation `UnpairedIsFlagged`.
* `EventDelivery_proofs`: every property of the component's run. `StreamInv` follows a
  broadcast through its own copy of the list: a client connected since its beginning has
  heard it if its place is before the next to send to, and not yet otherwise
  (`SentSoFar`), which is where the copy and its having no duplicates are needed.
  `HookInv` adds to `HookIsAccounted` that a delivery has no job, row or post before its
  task enqueues it (`FireInv`), and `PostInv`: posts taken and not logged, and jobs that may
  yet post, are counted with the posts made, so that a crash pays for each repetition.

Every invariant and every action property of the passing runs is a theorem. Model-checked
only are `SuspensionTakesEffect` and the part `EverySettled` of `ImplementsLedger`, which
are liveness: fairness and `ENABLED` are beyond this prover. What their proofs would need of
single steps is proved (`UnservedOnlyDrains`; `JobsAreFinite` with `PendingExplained`); that
the fair actions stay enabled until they are taken is left to TLC. Induction over data is
out of reach as well; no module declares a RECURSIVE operator.

## 5. Abstractions

* Names, employees, punches, ids are model values or small numbers; coordinates,
  signatures and biometric flags are the verdict of their check.
* The retry count and the dead letters are unbounded in the model; `MaxCrashes`,
  `MaxSweeps`, `MaxTime`, `MaxEdits`, `MaxApprovals` bound the exploration only and stand
  in guards; so do the sets of ids of corrections and events. The CONSTRAINTs of two runs
  (section 3) bound it further.
* PunchSync: a late "OK" is an `AdmsAccepts` followed by `RunPushFailed`; a post that
  arrives after its client has given up is not delivered later. ARQ's `max_jobs` is
  not modelled (any number of jobs may run). `job_timeout` is `RunAborted`. Redis loss
  is `JobExpires`.
* PunchIntake: every request carries a `client_punch_id` and a timestamp that parses.
  The unique index on the id cannot be hit, because lookup and commit are one
  step; the rollback path of the batch is therefore not reachable. Other requests may
  come between any two punches of a batch, also after one that failed (the code
  awaits only after a success): a few more behaviours than the code has.
* AdmsRegistration: the server URL is fixed; `SoftDelete` is one step although the page
  awaits a cache invalidation inside it; after a chunk whose commit is rolled back the
  names of the later chunks are kept.
* DeviceRegistry: one branch stands for those a device is assigned to; the set of keys
  is fixed, and a key that expires is revoked; the number of devices shown in a
  configuration is left out (no page invalidates it); "active" and "approved" are one
  status. A row always has a key. The row locks that a soft deletion holds across its
  awaits are not modelled: on PostgreSQL another page that writes a row it has deleted would
  wait for it on the same loop. `unbind_device` that finds its row gone raises after its
  first commit, or deletes nothing: both are `UnbindFinish` without rows.
* ShiftRoster: a shift is its id; times, names and the other columns of the rows are left
  out. A shift, group, company or branch that is deleted may be created again under its id:
  SQLite may give the id of the last row again, a sequence of PostgreSQL gives a new one.
* AttendanceReport: times are ticks of the local day, durations whole ticks, multipliers
  whole numbers; the rounding of each record to two digits is left out. The shift of a day
  is any of `Shifts`; a punch is of one of the four kinds the pairing reads.
* Corrections: a punch is its day and its type; whose a request is plays no part in its
  review. The scan may fail as a whole for any reason.
* EventDelivery: a closed socket fails the next send to it; a webhook's page does not
  exist, so rows change "in the database"; the text and signature of a payload are left
  out.
* The crash of a process is a step at any await boundary; a database commit is atomic.

## 6. Plan

All components that keep state and interact are modelled, and every safety property of the
runs is proved. What is left are theorems beyond those properties, of the kind of
`FailedIsFinal`: what else the findings and the other disagreements of section 3 say, for
every value of the constants.

## 7. Not modelled

`PROJECT.json` lists every component with its status. Left out for good: formatting and
export of reports, the read-only pages, accounts and logins, migrations, logging
and health, the heartbeat (it only feeds the dashboard), floating-point geometry
(`PunchIntake` takes its verdict as an input). The caches of `cached_lookups.py` are
invalidated and never read: no function that fills them has a caller. Three hazards are on
the list without a property: a new server URL (`settings.py:27`), which nothing reacts to,
and the device limit (`devices.py:103`) and the punch that is not sent again
(`supervisor.py:224`), where the code does nothing to state a property of.
