------------------------------ MODULE PunchSync ------------------------------
(***************************************************************************)
(* How a recorded punch reaches the ADMS server.                           *)
(*                                                                         *)
(* The API process commits a row of punch_logs and then, after an await,   *)
(* enqueues the ARQ job sync_punches_to_adms (app/api/v1/routes/punch.py). *)
(* The worker process runs the job (app/worker.py): it loads the row in a  *)
(* session of its own, awaits push_to_adms (app/services/adms_service.py), *)
(* which posts the punch to ADMS and commits the outcome in a second       *)
(* session, and then commits the outcome once more through the first       *)
(* session, whose copy of the row is the one loaded before the await.      *)
(*                                                                         *)
(* All code between two awaits is synchronous, so it is one step of its    *)
(* process; the two commits of a job are one step unless the worker dies,  *)
(* or loses its database connection, between them.                         *)
(***************************************************************************)
EXTENDS Naturals, FiniteSets

CONSTANTS
  Punches,       \* punches a device may submit, one row of punch_logs each
  Employees,     \* the employees they belong to
  EmpOf,         \* [Punches -> Employees]
  Jobs,          \* slots of the ARQ queue: bounds the jobs alive at once
  Sweeps,        \* invocations of retry_failed_punches that may overlap
  CtxKeys,       \* keys of the ctx dictionary ARQ passes to a job
  MaxTries,      \* WorkerSettings.max_tries
  DeadLetterAt,  \* retry count at which a dead letter is written
  SweepLimit,    \* rows one sweep of retry_failed_punches takes
  MaxCrashes,    \* bound on worker crashes, for TLC
  MaxSweeps      \* bound on sweeps, for TLC

ASSUME EmpOfType == EmpOf \in [Punches -> Employees]
ASSUME LimitsAreNat == /\ MaxTries \in Nat \ {0}
                       /\ DeadLetterAt \in Nat \ {0}
                       /\ SweepLimit \in Nat
                       /\ MaxCrashes \in Nat
                       /\ MaxSweeps \in Nat

VARIABLES
  request,   \* [Punches -> ...]: progress of the create_punch handler
  row,       \* [Punches -> Row]: the sync columns of punch_logs
  job,       \* [Jobs -> job record]: the ARQ queue and the running jobs
  sweep,     \* [Sweeps -> SUBSET Punches]: rows a sweep has yet to enqueue
  regular,   \* employees whose employee_type is "regular"
  serverUrl, \* whether the active ADMSTarget has a server_url
  old,       \* punches whose timestamp is more than 7 days back
  acks,      \* [Punches -> Nat]: ATTLOG posts of the punch ADMS answered "OK"
  failures,  \* [Punches -> Nat]: failures of a push recorded by a commit (history)
  dropped,   \* punches a job of which was lost without an outcome (history)
  crashes,   \* worker crashes so far
  sweeps     \* sweeps so far

syncVars == <<row, job, failures, dropped>>
envVars  == <<regular, serverUrl, old, crashes>>
vars == <<request, row, job, sweep, regular, serverUrl, old, acks, failures,
          dropped, crashes, sweeps>>

------------------------------------------------------------------------------
(* Rows and jobs *)

AdmsStatus == {"pending", "uploaded", "failed", "local_only"}
SyncStatus == {"pending", "synced", "failed", "stale", "local_only"}

\* sync_retry_count is retry; dead counts the job_dead_letter rows of audit_logs.
Row == [adms : AdmsStatus, sync : SyncStatus, retry : Nat, dead : Nat]

\* The column defaults a committed row starts with.
NewRow == [adms |-> "pending", sync |-> "pending", retry |-> 0, dead |-> 0]

\* What the worker's own session keeps of the row across its await.
Snapshot == [sync : SyncStatus, retry : Nat]
SnapshotOf(p) == [sync |-> row[p].sync, retry |-> row[p].retry]

JobRecord == [st : {"queued", "registering", "posting"}, punch : Punches,
              tries : Nat, snap : Snapshot, reply : {"none", "ok", "error"}]
NoJob == [st |-> "free"]

Alive(j)   == job[j].st # "free"
Running(j) == job[j].st \in {"registering", "posting"}
HasJob(p)  == \E j \in Jobs : Alive(j) /\ job[j].punch = p

NewJob(p) == [st |-> "queued", punch |-> p, tries |-> 0,
              snap |-> [sync |-> "pending", retry |-> 0], reply |-> "none"]
Finished(j) == [job EXCEPT ![j] = NoJob]

Init ==
  /\ request = [p \in Punches |-> "none"]
  /\ row = [p \in Punches |-> NewRow]
  /\ job = [j \in Jobs |-> NoJob]
  /\ sweep = [s \in Sweeps |-> {}]
  /\ regular \in SUBSET Employees
  /\ serverUrl \in BOOLEAN
  /\ old = {}
  /\ acks = [p \in Punches |-> 0]
  /\ failures = [p \in Punches |-> 0]
  /\ dropped = {}
  /\ crashes = 0
  /\ sweeps = 0

------------------------------------------------------------------------------
(* API process: create_punch *)

\* validate_and_prepare_punch and create_punch_log: the row is committed, then
\* the handler awaits the websocket broadcast.
CreatePunch(p) ==
  /\ request[p] = "none"
  /\ request' = [request EXCEPT ![p] = "committed"]
  /\ UNCHANGED <<syncVars, sweep, acks, envVars, sweeps>>

\* arq_pool.enqueue_job after the await.
Enqueue(p) ==
  /\ request[p] = "committed"
  /\ request' = [request EXCEPT ![p] = "done"]
  /\ \E j \in Jobs : ~Alive(j) /\ job' = [job EXCEPT ![j] = NewJob(p)]
  /\ UNCHANGED <<row, failures, dropped, sweep, acks, envVars, sweeps>>

\* No arq_pool, or enqueue_job raised: a warning is logged, the client is told
\* "success" all the same.
EnqueueFails(p) ==
  /\ request[p] = "committed"
  /\ request' = [request EXCEPT ![p] = "done"]
  /\ dropped' = dropped \union {p}
  /\ UNCHANGED <<row, job, failures, sweep, acks, envVars, sweeps>>

\* The API process dies: the handlers waiting for their broadcast never enqueue.
\* A client that repeats the request finds its client_punch_id and is answered
\* from the row, without an enqueue.
ApiCrash ==
  LET cut == {p \in Punches : request[p] = "committed"}
  IN /\ cut # {}
     /\ request' = [p \in Punches |-> IF p \in cut THEN "done" ELSE request[p]]
     /\ dropped' = dropped \union cut
     /\ UNCHANGED <<row, job, failures, sweep, acks, envVars, sweeps>>

------------------------------------------------------------------------------
(* Worker process: one run of sync_punches_to_adms *)

\* A run may start: ARQ counts the try before it calls the job.
CanStart(j) == job[j].st = "queued" /\ job[j].tries < MaxTries

\* Mutant: a failed push writes a status the columns do not have.
PushFailedUnlisted(p) == [row[p] EXCEPT !.adms = "error", !.sync = "error",
                                        !.retry = row[p].retry + 1]

\* What the inner commit of push_to_adms leaves in the row, per branch.
LocalOnly(p)     == [row[p] EXCEPT !.adms = "local_only", !.sync = "local_only"]
NotConfigured(p) == [row[p] EXCEPT !.adms = "pending", !.sync = "pending"]
Uploaded(p)      == [row[p] EXCEPT !.adms = "uploaded", !.sync = "synced"]
PushFailed(p)    == [row[p] EXCEPT !.adms = "failed", !.sync = "failed",
                                   !.retry = row[p].retry + 1]

\* The outer commit of the job: the session flushes a column only where the new
\* value differs from the one it loaded, and counts the retry from its own copy.
OuterSynced(r, snap) ==
  [r EXCEPT !.sync = IF snap.sync = "synced" THEN r.sync ELSE "synced"]

\* Mutants: the outcome of the push is ignored; the count starts from the row the
\* inner commit has left; a failed row goes back to "pending".
OuterAlwaysSynced(r, snap) == OuterSynced(r, snap)
OuterCountsAgain(r, snap) ==
  [r EXCEPT !.sync  = "failed",
            !.retry = r.retry + 1,
            !.dead  = IF r.retry + 1 >= DeadLetterAt THEN r.dead + 1 ELSE r.dead]
OuterPends(r, snap) == [r EXCEPT !.sync = "pending", !.retry = snap.retry + 1]

OuterFailed(r, snap) ==
  [r EXCEPT !.sync  = IF snap.sync = "failed" THEN r.sync ELSE "failed",
            !.retry = snap.retry + 1,
            !.dead  = IF snap.retry + 1 >= DeadLetterAt THEN r.dead + 1 ELSE r.dead]

\* Mutant: a job that fails is queued again.
EndRunRetries(j, p, r, failed) ==
  /\ row' = [row EXCEPT ![p] = r]
  /\ job' = IF failed THEN [job EXCEPT ![j] = NewJob(p)] ELSE Finished(j)
  /\ failures' = IF failed THEN [failures EXCEPT ![p] = @ + 1] ELSE failures

\* The run ends with row r: ARQ discards the job, whatever its outcome.
EndRun(j, p, r, failed) ==
  /\ row' = [row EXCEPT ![p] = r]
  /\ job' = Finished(j)
  /\ failures' = IF failed THEN [failures EXCEPT ![p] = @ + 1] ELSE failures

\* The copy of the row the run holds: loaded now, or before its awaits.
SnapOf(j) == IF job[j].st = "queued" THEN SnapshotOf(job[j].punch) ELSE job[j].snap

\* An employee who is not "regular": no post, push_to_adms returns True.
RunLocalOnly(j) ==
  /\ CanStart(j)
  /\ LET p == job[j].punch
     IN /\ EmpOf[p] \notin regular
        /\ EndRun(j, p, OuterSynced(LocalOnly(p), SnapOf(j)), FALSE)
  /\ UNCHANGED <<dropped, request, sweep, acks, envVars, sweeps>>

\* No server URL: the inner commit says "pending", push_to_adms returns False and
\* the job counts that as a failure.
RunNotConfigured(j) ==
  /\ CanStart(j)
  /\ ~serverUrl
  /\ LET p == job[j].punch
         r == OuterFailed(NotConfigured(p), SnapOf(j))
     IN /\ EmpOf[p] \in regular
        /\ EndRun(j, p, r, TRUE)
        /\ dropped' = IF r.sync = "pending" THEN dropped \union {p} ELSE dropped
  /\ UNCHANGED <<request, sweep, acks, envVars, sweeps>>

\* The push begins. An employee already tracked as registered costs no await;
\* otherwise the run waits for the answer to the USER post first.
RunPush(j) ==
  /\ CanStart(j)
  /\ serverUrl
  /\ EmpOf[job[j].punch] \in regular
  /\ \E st \in {"registering", "posting"} :
       job' = [job EXCEPT ![j].st = st, ![j].tries = @ + 1, ![j].reply = "none",
                          ![j].snap = SnapshotOf(job[j].punch)]
  /\ UNCHANGED <<row, failures, dropped, request, sweep, acks, envVars, sweeps>>

\* The registration attempt is over, answered, refused or timed out: whatever it
\* gave, the run goes on to the ATTLOG post.
Registered(j) ==
  /\ job[j].st = "registering"
  /\ job' = [job EXCEPT ![j].st = "posting"]
  /\ UNCHANGED <<row, failures, dropped, request, sweep, acks, envVars, sweeps>>

\* ADMS answers the ATTLOG post: 200 and "OK...", or anything else.
AdmsAccepts(j) ==
  /\ job[j].st = "posting" /\ job[j].reply = "none"
  /\ job' = [job EXCEPT ![j].reply = "ok"]
  /\ acks' = [acks EXCEPT ![job[j].punch] = @ + 1]
  /\ UNCHANGED <<row, failures, dropped, request, sweep, envVars, sweeps>>

AdmsRefuses(j) ==
  /\ job[j].st = "posting" /\ job[j].reply = "none"
  /\ job' = [job EXCEPT ![j].reply = "error"]
  /\ UNCHANGED <<row, failures, dropped, request, sweep, acks, envVars, sweeps>>

\* The answer is "OK": both commits.
RunUploaded(j) ==
  /\ job[j].st = "posting" /\ job[j].reply = "ok"
  /\ LET p == job[j].punch
     IN EndRun(j, p, OuterSynced(Uploaded(p), job[j].snap), FALSE)
  /\ UNCHANGED <<dropped, request, sweep, acks, envVars, sweeps>>

\* Another answer, or none within the client's timeout (an "OK" that never
\* arrives included): both commits.
RunPushFailed(j) ==
  /\ job[j].st = "posting"
  /\ LET p == job[j].punch
     IN EndRun(j, p, OuterFailed(PushFailed(p), job[j].snap), TRUE)
  /\ UNCHANGED <<dropped, request, sweep, acks, envVars, sweeps>>

\* push_to_adms raises (its own database sessions fail): the except branch of the
\* job records the failure, adms_status stays as it was.
RunRaises(j) ==
  /\ CanStart(j) \/ job[j].st = "posting"
  /\ LET p == job[j].punch
         r == OuterFailed(row[p], SnapOf(j))
     IN EndRun(j, p, r, TRUE)
  /\ UNCHANGED <<dropped, request, sweep, acks, envVars, sweeps>>

\* job_timeout cancels the run, or the except branch raises too: the row keeps
\* what it has and ARQ does not run the job again.
RunAborted(j) ==
  /\ CanStart(j) \/ Running(j)
  /\ job' = Finished(j)
  /\ dropped' = dropped \union {job[j].punch}
  /\ UNCHANGED <<row, failures, request, sweep, acks, envVars, sweeps>>

------------------------------------------------------------------------------
(* Half a run, crashes and what ARQ does with its queue *)

\* The rows the inner commit of run j may leave, and whether it counts a failure.
InnerCommits(j) ==
  LET p == job[j].punch
      Inner(cond, r, failed) == IF cond THEN {[row |-> r, failed |-> failed]} ELSE {}
  IN Inner(CanStart(j) /\ EmpOf[p] \notin regular, LocalOnly(p), FALSE)
     \union Inner(CanStart(j) /\ EmpOf[p] \in regular /\ ~serverUrl,
                  NotConfigured(p), FALSE)
     \union Inner(job[j].st = "posting" /\ job[j].reply = "ok", Uploaded(p), FALSE)
     \union Inner(job[j].st = "posting", PushFailed(p), TRUE)

\* A job whose worker died is still in the queue: it runs again, from the top.
Requeued(k) ==
  IF Running(k) THEN [NewJob(job[k].punch) EXCEPT !.tries = job[k].tries] ELSE job[k]

\* The outer commit raises, and so does the except branch on the same session:
\* the inner commit stands alone and the job is over.
OuterCommitFails(j) ==
  /\ \E c \in InnerCommits(j) :
       /\ EndRun(j, job[j].punch, c.row, c.failed)
       /\ dropped' = IF c.row.sync = "pending" THEN dropped \union {job[j].punch}
                                              ELSE dropped
  /\ UNCHANGED <<request, sweep, acks, envVars, sweeps>>

\* The worker dies between the two commits of j.
CrashBetweenCommits(j) ==
  /\ crashes < MaxCrashes
  /\ \E c \in InnerCommits(j) :
       /\ row' = [row EXCEPT ![job[j].punch] = c.row]
       /\ failures' = IF c.failed THEN [failures EXCEPT ![job[j].punch] = @ + 1]
                                  ELSE failures
  /\ job' = [k \in Jobs |->
               IF k = j /\ ~Running(j) THEN [job[j] EXCEPT !.tries = @ + 1]
                                       ELSE Requeued(k)]
  /\ sweep' = [s \in Sweeps |-> {}]
  /\ crashes' = crashes + 1
  /\ UNCHANGED <<dropped, request, acks, regular, serverUrl, old, sweeps>>

\* The worker dies anywhere else, a sweep under way included.
WorkerCrash ==
  /\ crashes < MaxCrashes
  /\ job' = [k \in Jobs |-> Requeued(k)]
  /\ sweep' = [s \in Sweeps |-> {}]
  /\ crashes' = crashes + 1
  /\ UNCHANGED <<row, failures, dropped, request, acks, regular, serverUrl, old,
                 sweeps>>

\* ARQ gives up a job it has already run MaxTries times.
TriesExhausted(j) ==
  /\ job[j].st = "queued" /\ job[j].tries >= MaxTries
  /\ job' = Finished(j)
  /\ dropped' = dropped \union {job[j].punch}
  /\ UNCHANGED <<row, failures, request, sweep, acks, envVars, sweeps>>

\* A queued job whose data Redis no longer holds (a day without a worker).
JobExpires(j) ==
  /\ job[j].st = "queued"
  /\ job' = Finished(j)
  /\ dropped' = dropped \union {job[j].punch}
  /\ UNCHANGED <<row, failures, request, sweep, acks, envVars, sweeps>>

------------------------------------------------------------------------------
(* Scheduled tasks: retry_failed_punches and cleanup_stale_jobs *)

Recorded(p) == request[p] # "none"
FailedRows  == {p \in Punches : Recorded(p) /\ row[p].sync = "failed"}

\* A sweep reads at most SweepLimit failed rows, in no particular order.
SweepStart(s) ==
  /\ "pool" \in CtxKeys
  /\ sweep[s] = {} /\ FailedRows # {} /\ sweeps < MaxSweeps
  /\ \E some \in SUBSET FailedRows :
       /\ Cardinality(some) =
            IF Cardinality(FailedRows) < SweepLimit THEN Cardinality(FailedRows)
                                                    ELSE SweepLimit
       /\ sweep' = [sweep EXCEPT ![s] = some]
  /\ sweeps' = sweeps + 1
  /\ UNCHANGED <<request, syncVars, acks, envVars>>

\* It awaits one enqueue after the other and reads no row again.
SweepEnqueue(s, p) ==
  /\ p \in sweep[s]
  /\ sweep' = [sweep EXCEPT ![s] = @ \ {p}]
  /\ \E j \in Jobs : ~Alive(j) /\ job' = [job EXCEPT ![j] = NewJob(p)]
  /\ UNCHANGED <<request, row, failures, dropped, acks, envVars, sweeps>>

\* Without a "pool" in the ctx the first ctx["pool"] raises KeyError: the sweep is
\* over and has changed nothing.
SweepRaises ==
  /\ "pool" \notin CtxKeys
  /\ FailedRows # {}
  /\ UNCHANGED vars

\* Mutant: the UPDATE takes the rows of every status.
CleanupAll ==
  /\ \E p \in old : row[p].sync # "stale"
  /\ row' = [p \in Punches |->
               IF p \in old THEN [row[p] EXCEPT !.sync = "stale"] ELSE row[p]]
  /\ UNCHANGED <<request, job, failures, dropped, sweep, acks, envVars, sweeps>>

\* cleanup_stale_jobs: one UPDATE of every pending row older than 7 days.
CleanupStale ==
  LET stale == {p \in old : row[p].sync = "pending"}
  IN /\ stale # {}
     /\ row' = [p \in Punches |->
                  IF p \in stale THEN [row[p] EXCEPT !.sync = "stale"] ELSE row[p]]
     /\ UNCHANGED <<request, job, failures, dropped, sweep, acks, envVars, sweeps>>

------------------------------------------------------------------------------
(* Environment: time and the admin pages *)

\* Seven days pass. A job is run or expires within a day, so none is left.
GrowOld(p) ==
  /\ request[p] = "done" /\ p \notin old /\ ~HasJob(p)
  /\ old' = old \union {p}
  /\ UNCHANGED <<request, syncVars, sweep, acks, regular, serverUrl, crashes, sweeps>>

\* update_employee may change employee_type, the ADMS settings page the server URL.
ChangeEmployeeType(e) ==
  /\ regular' = IF e \in regular THEN regular \ {e} ELSE regular \union {e}
  /\ UNCHANGED <<request, syncVars, sweep, acks, serverUrl, old, crashes, sweeps>>

ChangeServerUrl ==
  /\ serverUrl' = ~serverUrl
  /\ UNCHANGED <<request, syncVars, sweep, acks, regular, old, crashes, sweeps>>

------------------------------------------------------------------------------

Api == \/ \E p \in Punches : CreatePunch(p) \/ Enqueue(p) \/ EnqueueFails(p)
       \/ ApiCrash

Run(j) == \/ RunLocalOnly(j) \/ RunNotConfigured(j) \/ RunPush(j)
          \/ Registered(j) \/ RunUploaded(j) \/ RunPushFailed(j)
          \/ RunRaises(j) \/ RunAborted(j)
          \/ OuterCommitFails(j) \/ CrashBetweenCommits(j)
          \/ TriesExhausted(j) \/ JobExpires(j)

Adms(j) == AdmsAccepts(j) \/ AdmsRefuses(j)

Cron == \/ \E s \in Sweeps : SweepStart(s) \/ \E p \in Punches : SweepEnqueue(s, p)
        \/ SweepRaises
        \/ CleanupStale

Environment == \/ WorkerCrash
               \/ \E p \in Punches : GrowOld(p)
               \/ \E e \in Employees : ChangeEmployeeType(e)
               \/ ChangeServerUrl

Next == Api \/ (\E j \in Jobs : Run(j) \/ Adms(j)) \/ Cron \/ Environment

Spec == Init /\ [][Next]_vars

\* What the code's scheduling gives: the API resumes a handler after its await,
\* ARQ starts the jobs it holds and gives up the exhausted ones, an await of the
\* HTTP client ends by its answer or its timeout, and cron runs its sweeps.
Fairness ==
  /\ \A p \in Punches : WF_vars(Enqueue(p) \/ EnqueueFails(p))
  /\ \A j \in Jobs :
       /\ WF_vars(RunLocalOnly(j) \/ RunNotConfigured(j) \/ RunPush(j)
                  \/ TriesExhausted(j))
       /\ WF_vars(Registered(j))
       /\ WF_vars(RunUploaded(j) \/ RunPushFailed(j))
  /\ \A s \in Sweeps :
       /\ WF_vars(SweepStart(s))
       /\ \A p \in Punches : WF_vars(SweepEnqueue(s, p))

FairSpec == Spec /\ Fairness

------------------------------------------------------------------------------
(* Properties *)

\* Every variable has its type: the columns written by two sessions included.
TypeOK ==
  /\ request \in [Punches -> {"none", "committed", "done"}]
  /\ row \in [Punches -> Row]
  /\ job \in [Jobs -> JobRecord \union {NoJob}]
  /\ sweep \in [Sweeps -> SUBSET Punches]
  /\ regular \in SUBSET Employees
  /\ serverUrl \in BOOLEAN
  /\ old \in SUBSET Punches
  /\ acks \in [Punches -> Nat]
  /\ failures \in [Punches -> Nat]
  /\ dropped \in SUBSET Punches
  /\ crashes \in Nat
  /\ sweeps \in Nat

\* A row with n acknowledged posts claims no delivery that did not happen.
Accounted(r, n) ==
  /\ r.sync = "synced" => n > 0 \/ r.adms = "local_only"
  /\ r.adms = "uploaded" => n > 0

\* The dashboard never shows as delivered what was not: a row is "synced" only if
\* ADMS has answered OK to its ATTLOG or the push was bypassed for a local-only
\* employee, and "uploaded" only in the first case, whichever of the two sessions
\* and however many overlapping or repeated runs wrote the two columns.
SyncedIsAccounted == \A p \in Punches : Accounted(row[p], acks[p])

\* A committed punch whose row still says "pending" has its request under way, a
\* job alive, or a recorded loss (failed enqueue, API crash between commit and
\* enqueue, cancelled run, expired or exhausted job, no server URL): no other
\* step of the API, the worker or ARQ leaves a punch behind.
PendingIsExplained ==
  \A p \in Punches :
    request[p] = "done" /\ row[p].sync = "pending" => HasJob(p) \/ p \in dropped

\* A dead letter claims that the retries are exhausted (5/5): DeadLetterAt
\* failures have been recorded by then, although the job takes the count from the
\* stale copy of its row.
DeadLetterIsHonest ==
  \A p \in Punches : row[p].dead > 0 => failures[p] >= DeadLetterAt

\* sync_retry_count never overstates the failures, overlapping runs included (an
\* overlapping run may make it smaller: the lost update of its stale copy).
RetryNeverOverstated ==
  \A p \in Punches : row[p].retry <= failures[p]

\* As long as nothing re-enqueues a punch, sync_retry_count is exactly the number
\* of failures: one counted by both commits is counted once, and a crash between
\* the commits neither loses nor doubles it.
RetryIsExact ==
  \A p \in Punches : row[p].retry = failures[p]

\* At-least-once delivery: ADMS takes a punch twice only if the worker crashed,
\* and at most once more per crash.
DuplicatesNeedCrashes ==
  \A p \in Punches : acks[p] <= 1 + crashes

\* How the delivery of a punch stands, read off the two columns of its row.
StandingOf(r) ==
  CASE r.sync = "pending" -> "waiting"
    [] r.sync = "failed" -> "failed"
    [] r.sync = "stale" -> "stale"
    [] r.sync = "local_only" \/ (r.sync = "synced" /\ r.adms = "local_only") -> "bypassed"
    [] OTHER -> "delivered"

Ledger == INSTANCE PunchLedger WITH
            recorded <- {p \in Punches : request[p] # "none"},
            shown    <- [p \in Punches |-> StandingOf(row[p])],
            copies   <- acks,
            lost     <- dropped,
            faults   <- crashes

\* The worker as configured (no "pool" in its ctx) implements PunchLedger: whatever
\* the two sessions, the crashes and ARQ do to the two columns, what a reader of them
\* sees is a ledger in which a settled punch stays settled, nothing is delivered twice
\* or revised without a crash, only lost punches become stale, and every recorded punch
\* is settled in the end or known as lost.
ImplementsLedger == Ledger!Spec

\* README.md:237-238: the ARQ worker retries with backoff, at most 5 attempts, and
\* failed records are retried every 5 minutes. A failed row with no job gets one.
FailedIsRetried ==
  \A p \in Punches : row[p].sync = "failed" /\ ~HasJob(p) ~> HasJob(p)
==============================================================================
