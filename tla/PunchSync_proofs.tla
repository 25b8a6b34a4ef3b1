--------------------------- MODULE PunchSync_proofs ---------------------------
(***************************************************************************)
(* Proofs about PunchSync, for every set of punches, employees, job slots  *)
(* and sweeps, every ctx of ARQ, and every value of the limits.            *)
(***************************************************************************)
EXTENDS PunchSync, TLAPS

------------------------------------------------------------------------------
(* What the operators on rows and jobs return *)

LEMMA RowOperators ==
  ASSUME TypeOK, NEW p \in Punches
  PROVE  /\ SnapshotOf(p) \in Snapshot
         /\ LocalOnly(p) \in Row
         /\ NotConfigured(p) \in Row
         /\ Uploaded(p) \in Row
         /\ PushFailed(p) \in Row
<1>1. row[p] \in Row
  BY DEF TypeOK
<1>2. SnapshotOf(p) \in Snapshot
  BY <1>1 DEF SnapshotOf, Snapshot, Row
<1>3. LocalOnly(p) \in Row
  BY <1>1 DEF LocalOnly, Row, AdmsStatus, SyncStatus
<1>4. NotConfigured(p) \in Row
  BY <1>1 DEF NotConfigured, Row, AdmsStatus, SyncStatus
<1>5. Uploaded(p) \in Row
  BY <1>1 DEF Uploaded, Row, AdmsStatus, SyncStatus
<1>6. PushFailed(p) \in Row
  <2>1. ASSUME NEW r \in Row, NEW n \in Nat
        PROVE  [r EXCEPT !.adms = "failed", !.sync = "failed", !.retry = n] \in Row
    BY DEF Row, AdmsStatus, SyncStatus
  <2>2. row[p].retry + 1 \in Nat
    BY <1>1 DEF Row
  <2> QED BY <1>1, <2>1, <2>2 DEF PushFailed
<1> QED BY <1>2, <1>3, <1>4, <1>5, <1>6

LEMMA OuterOperators ==
  ASSUME NEW r \in Row, NEW snap \in Snapshot
  PROVE  /\ OuterSynced(r, snap) \in Row
         /\ OuterFailed(r, snap) \in Row
<1>1. OuterSynced(r, snap) \in Row
  BY DEF OuterSynced, Row, Snapshot, AdmsStatus, SyncStatus
<1>2. OuterFailed(r, snap) \in Row
  <2> DEFINE newSync == IF snap.sync = "failed" THEN r.sync ELSE "failed"
             newDead == IF snap.retry + 1 >= DeadLetterAt THEN r.dead + 1 ELSE r.dead
  <2>1. /\ r.adms \in AdmsStatus /\ r.sync \in SyncStatus
        /\ r.dead \in Nat /\ snap.retry \in Nat
    BY DEF Row, Snapshot
  <2>2. newSync \in SyncStatus /\ newDead \in Nat /\ snap.retry + 1 \in Nat
    BY <2>1 DEF SyncStatus
  <2>3. ASSUME NEW s \in SyncStatus, NEW n \in Nat, NEW d \in Nat
        PROVE  [r EXCEPT !.sync = s, !.retry = n, !.dead = d] \in Row
    BY DEF Row
  <2> QED BY <2>2, <2>3 DEF OuterFailed
<1> QED BY <1>1, <1>2

\* A job that is not free has a punch, a number of tries and a snapshot.
LEMMA AliveJob ==
  ASSUME TypeOK, NEW j \in Jobs, job[j].st # "free"
  PROVE  /\ job[j] \in JobRecord
         /\ job[j].punch \in Punches
         /\ job[j].tries \in Nat
         /\ job[j].snap \in Snapshot
         /\ SnapOf(j) \in Snapshot
<1>1. job[j] \in JobRecord \union {NoJob}
  BY DEF TypeOK
<1>2. job[j] \in JobRecord
  BY <1>1 DEF NoJob
<1>3. job[j].punch \in Punches /\ job[j].tries \in Nat /\ job[j].snap \in Snapshot
  BY <1>2 DEF JobRecord
<1> QED BY <1>2, <1>3, RowOperators DEF SnapOf

LEMMA NewJobType ==
  ASSUME NEW p \in Punches
  PROVE  NewJob(p) \in JobRecord
BY DEF NewJob, JobRecord, Snapshot, SyncStatus

\* The end of a run keeps the types of what it writes.
LEMMA EndRunType ==
  ASSUME TypeOK, NEW j \in Jobs, NEW p \in Punches, NEW r \in Row,
         NEW failed \in BOOLEAN, EndRun(j, p, r, failed)
  PROVE  /\ row' \in [Punches -> Row]
         /\ job' \in [Jobs -> JobRecord \union {NoJob}]
         /\ failures' \in [Punches -> Nat]
BY DEF TypeOK, EndRun, Finished

LEMMA InnerCommitType ==
  ASSUME TypeOK, NEW j \in Jobs, job[j].st # "free", NEW c \in InnerCommits(j)
  PROVE  c.row \in Row /\ c.failed \in BOOLEAN
<1> DEFINE p == job[j].punch
<1>1. p \in Punches
  BY AliveJob
<1>2. /\ LocalOnly(p) \in Row /\ NotConfigured(p) \in Row
      /\ Uploaded(p) \in Row /\ PushFailed(p) \in Row
  BY <1>1, RowOperators
<1>3. \/ c = [row |-> LocalOnly(p), failed |-> FALSE]
      \/ c = [row |-> NotConfigured(p), failed |-> FALSE]
      \/ c = [row |-> Uploaded(p), failed |-> FALSE]
      \/ c = [row |-> PushFailed(p), failed |-> TRUE]
  BY DEF InnerCommits
<1>4. ASSUME NEW r \in Row, NEW b \in BOOLEAN, c = [row |-> r, failed |-> b]
      PROVE  c.row \in Row /\ c.failed \in BOOLEAN
  BY <1>4
<1> HIDE DEF p
<1> QED BY <1>2, <1>3, <1>4

LEMMA RequeuedType ==
  ASSUME TypeOK
  PROVE  \A k \in Jobs : Requeued(k) \in JobRecord \union {NoJob}
<1> TAKE k \in Jobs
<1>1. CASE Running(k)
  <2>1. job[k].punch \in Punches /\ job[k].tries \in Nat
    BY <1>1, AliveJob DEF Running
  <2>2. NewJob(job[k].punch) \in JobRecord
    BY <2>1, NewJobType
  <2> QED BY <1>1, <2>1, <2>2 DEF Requeued, JobRecord
<1>2. CASE ~Running(k)
  BY <1>2 DEF Requeued, TypeOK
<1> QED BY <1>1, <1>2

------------------------------------------------------------------------------
(* Types *)

\* Every variable keeps its type, whichever step the API, the worker, ARQ, ADMS or
\* the admin takes next.
LEMMA TypeStep == TypeOK /\ [Next]_vars => TypeOK'
<1> SUFFICES ASSUME TypeOK, [Next]_vars PROVE TypeOK'
  OBVIOUS
<1>1. ASSUME NEW p \in Punches, CreatePunch(p) PROVE TypeOK'
  BY <1>1 DEF TypeOK, CreatePunch, syncVars, envVars
<1>2. ASSUME NEW p \in Punches, Enqueue(p) PROVE TypeOK'
  BY <1>2, NewJobType DEF TypeOK, Enqueue, envVars
<1>3. ASSUME NEW p \in Punches, EnqueueFails(p) PROVE TypeOK'
  BY <1>3 DEF TypeOK, EnqueueFails, envVars
<1>4. CASE ApiCrash
  BY <1>4 DEF TypeOK, ApiCrash, envVars
<1>5. ASSUME NEW j \in Jobs, RunLocalOnly(j) PROVE TypeOK'
  <2> DEFINE p == job[j].punch
  <2>1. job[j].st # "free" /\ p \in Punches /\ SnapOf(j) \in Snapshot
    BY <1>5, AliveJob DEF RunLocalOnly, CanStart
  <2>2. OuterSynced(LocalOnly(p), SnapOf(j)) \in Row
    BY <2>1, RowOperators, OuterOperators
  <2>3. EndRun(j, p, OuterSynced(LocalOnly(p), SnapOf(j)), FALSE)
    BY <1>5 DEF RunLocalOnly
  <2> QED BY <1>5, <2>1, <2>2, <2>3, EndRunType DEF TypeOK, RunLocalOnly, envVars
<1>6. ASSUME NEW j \in Jobs, RunNotConfigured(j) PROVE TypeOK'
  <2> DEFINE p == job[j].punch
             r == OuterFailed(NotConfigured(p), SnapOf(j))
  <2>1. job[j].st # "free" /\ p \in Punches /\ SnapOf(j) \in Snapshot
    BY <1>6, AliveJob DEF RunNotConfigured, CanStart
  <2>2. r \in Row
    BY <2>1, RowOperators, OuterOperators
  <2>3. EndRun(j, p, r, TRUE)
    BY <1>6 DEF RunNotConfigured
  <2>4. dropped' \in SUBSET Punches
    BY <1>6, <2>1 DEF RunNotConfigured, TypeOK
  <2> HIDE DEF r
  <2> QED BY <1>6, <2>1, <2>2, <2>3, <2>4, EndRunType
          DEF TypeOK, RunNotConfigured, envVars
<1>7. ASSUME NEW j \in Jobs, RunPush(j) PROVE TypeOK'
  <2>1. job[j] \in JobRecord /\ SnapshotOf(job[j].punch) \in Snapshot
    BY <1>7, AliveJob, RowOperators DEF RunPush, CanStart
  <2>2. PICK st \in {"registering", "posting"} :
          job' = [job EXCEPT ![j].st = st, ![j].tries = @ + 1, ![j].reply = "none",
                             ![j].snap = SnapshotOf(job[j].punch)]
    BY <1>7 DEF RunPush
  <2>3. job'[j] \in JobRecord
    BY <2>1, <2>2 DEF TypeOK, JobRecord
  <2>4. job' \in [Jobs -> JobRecord \union {NoJob}]
    BY <2>2, <2>3 DEF TypeOK
  <2> QED BY <1>7, <2>4 DEF TypeOK, RunPush, envVars
<1>8. ASSUME NEW j \in Jobs, Registered(j) PROVE TypeOK'
  BY <1>8, AliveJob DEF TypeOK, Registered, JobRecord, envVars
<1>9. ASSUME NEW j \in Jobs, AdmsAccepts(j) PROVE TypeOK'
  BY <1>9, AliveJob DEF TypeOK, AdmsAccepts, JobRecord, envVars
<1>10. ASSUME NEW j \in Jobs, AdmsRefuses(j) PROVE TypeOK'
  BY <1>10, AliveJob DEF TypeOK, AdmsRefuses, JobRecord, envVars
<1>11. ASSUME NEW j \in Jobs, RunUploaded(j) PROVE TypeOK'
  <2> DEFINE p == job[j].punch
  <2>1. job[j].st # "free" /\ p \in Punches /\ job[j].snap \in Snapshot
    BY <1>11, AliveJob DEF RunUploaded
  <2>2. OuterSynced(Uploaded(p), job[j].snap) \in Row
    BY <2>1, RowOperators, OuterOperators
  <2>3. EndRun(j, p, OuterSynced(Uploaded(p), job[j].snap), FALSE)
    BY <1>11 DEF RunUploaded
  <2> QED BY <1>11, <2>1, <2>2, <2>3, EndRunType DEF TypeOK, RunUploaded, envVars
<1>12. ASSUME NEW j \in Jobs, RunPushFailed(j) PROVE TypeOK'
  <2> DEFINE p == job[j].punch
  <2>1. job[j].st # "free" /\ p \in Punches /\ job[j].snap \in Snapshot
    BY <1>12, AliveJob DEF RunPushFailed
  <2>2. OuterFailed(PushFailed(p), job[j].snap) \in Row
    BY <2>1, RowOperators, OuterOperators
  <2>3. EndRun(j, p, OuterFailed(PushFailed(p), job[j].snap), TRUE)
    BY <1>12 DEF RunPushFailed
  <2> QED BY <1>12, <2>1, <2>2, <2>3, EndRunType DEF TypeOK, RunPushFailed, envVars
<1>13. ASSUME NEW j \in Jobs, RunRaises(j) PROVE TypeOK'
  <2> DEFINE p == job[j].punch
  <2>1. job[j].st # "free" /\ p \in Punches /\ SnapOf(j) \in Snapshot
    BY <1>13, AliveJob DEF RunRaises, CanStart
  <2>2. OuterFailed(row[p], SnapOf(j)) \in Row
    BY <2>1, OuterOperators DEF TypeOK
  <2>3. EndRun(j, p, OuterFailed(row[p], SnapOf(j)), TRUE)
    BY <1>13 DEF RunRaises
  <2> QED BY <1>13, <2>1, <2>2, <2>3, EndRunType DEF TypeOK, RunRaises, envVars
<1>14. ASSUME NEW j \in Jobs, RunAborted(j) PROVE TypeOK'
  BY <1>14, AliveJob DEF TypeOK, RunAborted, CanStart, Running, Finished, envVars
<1>15. ASSUME NEW j \in Jobs, OuterCommitFails(j) PROVE TypeOK'
  <2>1. PICK c \in InnerCommits(j) :
          /\ EndRun(j, job[j].punch, c.row, c.failed)
          /\ dropped' = IF c.row.sync = "pending" THEN dropped \union {job[j].punch}
                                                 ELSE dropped
    BY <1>15 DEF OuterCommitFails
  <2>2. job[j].st # "free"
    BY <2>1 DEF InnerCommits, CanStart
  <2>3. c.row \in Row /\ c.failed \in BOOLEAN /\ job[j].punch \in Punches
    BY <2>1, <2>2, InnerCommitType, AliveJob
  <2> QED BY <1>15, <2>1, <2>3, EndRunType DEF TypeOK, OuterCommitFails, envVars
<1>16. ASSUME NEW j \in Jobs, CrashBetweenCommits(j) PROVE TypeOK'
  <2>1. PICK c \in InnerCommits(j) :
          /\ row' = [row EXCEPT ![job[j].punch] = c.row]
          /\ failures' = IF c.failed THEN [failures EXCEPT ![job[j].punch] = @ + 1]
                                     ELSE failures
    BY <1>16 DEF CrashBetweenCommits
  <2>2. job[j].st # "free"
    BY <2>1 DEF InnerCommits, CanStart
  <2>3. c.row \in Row /\ job[j].punch \in Punches
    BY <2>1, <2>2, InnerCommitType, AliveJob
  <2>4. row' \in [Punches -> Row] /\ failures' \in [Punches -> Nat]
    BY <2>1, <2>3 DEF TypeOK
  <2>5. ~Running(j) => [job[j] EXCEPT !.tries = @ + 1] \in JobRecord
    BY <2>2, AliveJob DEF JobRecord
  <2>6. \A k \in Jobs : Requeued(k) \in JobRecord \union {NoJob}
    BY RequeuedType
  <2>7. job' \in [Jobs -> JobRecord \union {NoJob}]
    BY <1>16, <2>5, <2>6 DEF CrashBetweenCommits
  <2> QED BY <1>16, <2>4, <2>7 DEF TypeOK, CrashBetweenCommits
<1>17. CASE WorkerCrash
  BY <1>17, RequeuedType DEF TypeOK, WorkerCrash
<1>18. ASSUME NEW j \in Jobs, TriesExhausted(j) PROVE TypeOK'
  BY <1>18, AliveJob DEF TypeOK, TriesExhausted, Finished, envVars
<1>19. ASSUME NEW j \in Jobs, JobExpires(j) PROVE TypeOK'
  BY <1>19, AliveJob DEF TypeOK, JobExpires, Finished, envVars
<1>20. ASSUME NEW s \in Sweeps, SweepStart(s) PROVE TypeOK'
  BY <1>20 DEF TypeOK, SweepStart, FailedRows, syncVars, envVars
<1>21. ASSUME NEW s \in Sweeps, NEW p \in Punches, SweepEnqueue(s, p) PROVE TypeOK'
  BY <1>21, NewJobType DEF TypeOK, SweepEnqueue, envVars
<1>22. CASE CleanupStale
  <2>1. \A p \in Punches : [row[p] EXCEPT !.sync = "stale"] \in Row
    BY DEF TypeOK, Row, SyncStatus
  <2> QED BY <1>22, <2>1 DEF TypeOK, CleanupStale, envVars
<1>23. ASSUME NEW p \in Punches, GrowOld(p) PROVE TypeOK'
  BY <1>23 DEF TypeOK, GrowOld, syncVars
<1>24. ASSUME NEW e \in Employees, ChangeEmployeeType(e) PROVE TypeOK'
  BY <1>24 DEF TypeOK, ChangeEmployeeType, syncVars
<1>25. CASE ChangeServerUrl
  BY <1>25 DEF TypeOK, ChangeServerUrl, syncVars
<1>26. CASE UNCHANGED vars
  BY <1>26 DEF TypeOK, vars
<1> QED
  BY <1>1, <1>2, <1>3, <1>4, <1>5, <1>6, <1>7, <1>8, <1>9, <1>10, <1>11, <1>12,
     <1>13, <1>14, <1>15, <1>16, <1>17, <1>18, <1>19, <1>20, <1>21, <1>22, <1>23,
     <1>24, <1>25, <1>26
  DEF Next, Api, Run, Adms, Cron, Environment, SweepRaises

\* Type correctness of the sync columns, the queue and the history.
THEOREM TypeCorrect == Spec => []TypeOK
<1>1. Init => TypeOK
  BY DEF Init, TypeOK, NewRow, Row, AdmsStatus, SyncStatus
<1> QED BY <1>1, TypeStep, PTL DEF Spec

------------------------------------------------------------------------------
(* No row claims a delivery that did not happen *)

\* What makes SyncedIsAccounted inductive: a run that holds an "OK" holds it for a
\* post that was acknowledged.
AckInv ==
  /\ SyncedIsAccounted
  /\ \A j \in Jobs :
       job[j].st # "free" /\ job[j].reply = "ok" => acks[job[j].punch] > 0

\* A step after which every "OK" a job holds is one it held before.
OkKept ==
  \A k \in Jobs :
    job'[k].st # "free" /\ job'[k].reply = "ok"
      => job[k].st # "free" /\ job[k].reply = "ok" /\ job'[k].punch = job[k].punch

\* The rows the two commits of a run write are accounted for: those of a failure
\* and of a bypass always, those of an upload once the post is acknowledged.
LEMMA WrittenRowsAccounted ==
  ASSUME TypeOK, NEW p \in Punches, NEW snap \in Snapshot, NEW n \in Nat
  PROVE  /\ Accounted(LocalOnly(p), n)
         /\ Accounted(NotConfigured(p), n)
         /\ Accounted(PushFailed(p), n)
         /\ n > 0 => Accounted(Uploaded(p), n)
         /\ Accounted(OuterSynced(LocalOnly(p), snap), n)
         /\ Accounted(OuterFailed(NotConfigured(p), snap), n)
         /\ Accounted(OuterFailed(PushFailed(p), snap), n)
         /\ n > 0 => Accounted(OuterSynced(Uploaded(p), snap), n)
         /\ Accounted(row[p], n) => Accounted(OuterFailed(row[p], snap), n)
<1>1. row[p] \in Row
  BY DEF TypeOK
<1>2. /\ LocalOnly(p).adms = "local_only" /\ LocalOnly(p).sync = "local_only"
      /\ NotConfigured(p).adms = "pending" /\ NotConfigured(p).sync = "pending"
      /\ PushFailed(p).adms = "failed" /\ PushFailed(p).sync = "failed"
      /\ Uploaded(p).adms = "uploaded" /\ Uploaded(p).sync = "synced"
  BY <1>1 DEF LocalOnly, NotConfigured, PushFailed, Uploaded, Row
<1>3. ASSUME NEW r \in Row
      PROVE  /\ OuterSynced(r, snap).adms = r.adms
             /\ OuterSynced(r, snap).sync \in {r.sync, "synced"}
             /\ OuterFailed(r, snap).adms = r.adms
             /\ OuterFailed(r, snap).sync \in {r.sync, "failed"}
  BY <1>3 DEF OuterSynced, OuterFailed, Row
<1>4. /\ LocalOnly(p) \in Row /\ NotConfigured(p) \in Row
      /\ PushFailed(p) \in Row /\ Uploaded(p) \in Row
  BY RowOperators
<1>5. /\ Accounted(LocalOnly(p), n)
      /\ Accounted(NotConfigured(p), n)
      /\ Accounted(PushFailed(p), n)
      /\ n > 0 => Accounted(Uploaded(p), n)
  BY <1>2 DEF Accounted
<1>6. Accounted(OuterSynced(LocalOnly(p), snap), n)
  BY <1>2, <1>3, <1>4 DEF Accounted
<1>7. Accounted(OuterFailed(NotConfigured(p), snap), n)
  BY <1>2, <1>3, <1>4 DEF Accounted
<1>8. Accounted(OuterFailed(PushFailed(p), snap), n)
  BY <1>2, <1>3, <1>4 DEF Accounted
<1>9. n > 0 => Accounted(OuterSynced(Uploaded(p), snap), n)
  BY DEF Accounted
<1>10. Accounted(row[p], n) => Accounted(OuterFailed(row[p], snap), n)
  BY <1>1, <1>3 DEF Accounted
<1> QED BY <1>5, <1>6, <1>7, <1>8, <1>9, <1>10

\* A step that writes one accounted row and starts no "OK" keeps the invariant.
LEMMA AckInvByRow ==
  ASSUME TypeOK, AckInv, NEW p \in Punches, NEW r \in Row,
         Accounted(r, acks[p]), row' = [row EXCEPT ![p] = r], acks' = acks, OkKept
  PROVE  AckInv'
BY DEF TypeOK, AckInv, SyncedIsAccounted, OkKept

LEMMA AckInvByJobs ==
  ASSUME TypeOK, AckInv, UNCHANGED <<row, acks>>, OkKept
  PROVE  AckInv'
BY DEF AckInv, SyncedIsAccounted, OkKept

LEMMA SameJobs ==
  ASSUME job' = job
  PROVE  OkKept
BY DEF OkKept

\* A finished job holds no reply; neither does a new or a requeued one.
LEMMA EndRunJobs ==
  ASSUME TypeOK, NEW j \in Jobs, job' = Finished(j)
  PROVE  OkKept
BY DEF TypeOK, Finished, NoJob, OkKept

LEMMA NewJobJobs ==
  ASSUME TypeOK, NEW p \in Punches, NEW j \in Jobs, job' = [job EXCEPT ![j] = NewJob(p)]
  PROVE  OkKept
BY DEF TypeOK, NewJob, OkKept

LEMMA RequeuedJobs ==
  ASSUME TypeOK, NEW k \in Jobs
  PROVE  Requeued(k).st # "free" /\ Requeued(k).reply = "ok" => Requeued(k) = job[k]
BY DEF Requeued, NewJob, Running

LEMMA AckInvStep == TypeOK /\ AckInv /\ [Next]_vars => AckInv'
<1> SUFFICES ASSUME TypeOK, AckInv, [Next]_vars PROVE AckInv'
  OBVIOUS
<1>0. \A p \in Punches : acks[p] \in Nat /\ row[p] \in Row /\ Accounted(row[p], acks[p])
  BY DEF TypeOK, AckInv, SyncedIsAccounted
<1>1. ASSUME NEW p \in Punches, CreatePunch(p) PROVE AckInv'
  BY <1>1, AckInvByJobs, SameJobs DEF CreatePunch, syncVars
<1>2. ASSUME NEW p \in Punches, Enqueue(p) PROVE AckInv'
  BY <1>2, AckInvByJobs, NewJobJobs DEF Enqueue
<1>3. ASSUME NEW p \in Punches, EnqueueFails(p) PROVE AckInv'
  BY <1>3, AckInvByJobs, SameJobs DEF EnqueueFails
<1>4. CASE ApiCrash
  BY <1>4, AckInvByJobs, SameJobs DEF ApiCrash
<1>5. ASSUME NEW j \in Jobs, RunLocalOnly(j) PROVE AckInv'
  <2> DEFINE p == job[j].punch
             r == OuterSynced(LocalOnly(p), SnapOf(j))
  <2>1. p \in Punches /\ SnapOf(j) \in Snapshot
    BY <1>5, AliveJob DEF RunLocalOnly, CanStart
  <2>2. r \in Row /\ Accounted(r, acks[p])
    BY <1>0, <2>1, RowOperators, OuterOperators, WrittenRowsAccounted
  <2>3. row' = [row EXCEPT ![p] = r] /\ job' = Finished(j) /\ acks' = acks
    BY <1>5 DEF RunLocalOnly, EndRun
  <2> HIDE DEF r
  <2> QED BY <2>1, <2>2, <2>3, AckInvByRow, EndRunJobs
<1>6. ASSUME NEW j \in Jobs, RunNotConfigured(j) PROVE AckInv'
  <2> DEFINE p == job[j].punch
             r == OuterFailed(NotConfigured(p), SnapOf(j))
  <2>1. p \in Punches /\ SnapOf(j) \in Snapshot
    BY <1>6, AliveJob DEF RunNotConfigured, CanStart
  <2>2. r \in Row /\ Accounted(r, acks[p])
    BY <1>0, <2>1, RowOperators, OuterOperators, WrittenRowsAccounted
  <2>3. row' = [row EXCEPT ![p] = r] /\ job' = Finished(j) /\ acks' = acks
    BY <1>6 DEF RunNotConfigured, EndRun
  <2> HIDE DEF r
  <2> QED BY <2>1, <2>2, <2>3, AckInvByRow, EndRunJobs
<1>7. ASSUME NEW j \in Jobs, RunPush(j) PROVE AckInv'
  <2>1. PICK st \in {"registering", "posting"} :
          job' = [job EXCEPT ![j].st = st, ![j].tries = @ + 1, ![j].reply = "none",
                             ![j].snap = SnapshotOf(job[j].punch)]
    BY <1>7 DEF RunPush
  <2>2. job[j] \in JobRecord
    BY <1>7, AliveJob DEF RunPush, CanStart
  <2>3. job'[j].reply = "none"
    BY <2>1, <2>2 DEF TypeOK, JobRecord
  <2>4. \A k \in Jobs : k # j => job'[k] = job[k]
    BY <2>1 DEF TypeOK
  <2>5. OkKept
    BY <2>3, <2>4 DEF OkKept
  <2> QED BY <1>7, <2>5, AckInvByJobs DEF RunPush
<1>8. ASSUME NEW j \in Jobs, Registered(j) PROVE AckInv'
  <2>1. job[j] \in JobRecord
    BY <1>8, AliveJob DEF Registered
  <2>2. job'[j].punch = job[j].punch /\ job'[j].reply = job[j].reply
    BY <1>8, <2>1 DEF Registered, TypeOK, JobRecord
  <2>3. \A k \in Jobs : k # j => job'[k] = job[k]
    BY <1>8 DEF Registered, TypeOK
  <2>4. OkKept
    BY <1>8, <2>2, <2>3 DEF OkKept, Registered
  <2> QED BY <1>8, <2>4, AckInvByJobs DEF Registered
<1>9. ASSUME NEW j \in Jobs, AdmsAccepts(j) PROVE AckInv'
  <2> DEFINE p == job[j].punch
  <2>1. job[j] \in JobRecord /\ p \in Punches
    BY <1>9, AliveJob DEF AdmsAccepts
  <2>2. acks' = [acks EXCEPT ![p] = @ + 1] /\ row' = row
    BY <1>9 DEF AdmsAccepts
  <2>3. \A q \in Punches : acks'[q] >= acks[q] /\ acks'[q] \in Nat
    BY <1>0, <2>1, <2>2 DEF TypeOK
  <2>4. acks'[p] > 0
    BY <1>0, <2>1, <2>2 DEF TypeOK
  <2>5. SyncedIsAccounted'
    BY <1>0, <2>2, <2>3 DEF SyncedIsAccounted, Accounted
  <2>6. job'[j].punch = p /\ \A k \in Jobs : k # j => job'[k] = job[k]
    BY <1>9, <2>1 DEF AdmsAccepts, TypeOK, JobRecord
  <2>7. ASSUME NEW k \in Jobs, job'[k].st # "free", job'[k].reply = "ok"
        PROVE  acks'[job'[k].punch] > 0
    <3>1. CASE k = j
      BY <2>4, <2>6, <3>1
    <3>2. CASE k # j
      <4>1. acks[job[k].punch] > 0 /\ job'[k] = job[k]
        BY <2>6, <2>7, <3>2 DEF AckInv
      <4>2. job[k].punch \in Punches
        BY <2>7, <4>1, AliveJob
      <4> QED BY <1>0, <2>3, <4>1, <4>2
    <3> QED BY <3>1, <3>2
  <2> QED BY <2>5, <2>7 DEF AckInv
<1>10. ASSUME NEW j \in Jobs, AdmsRefuses(j) PROVE AckInv'
  <2>1. job[j] \in JobRecord
    BY <1>10, AliveJob DEF AdmsRefuses
  <2>2. job'[j].reply = "error" /\ \A k \in Jobs : k # j => job'[k] = job[k]
    BY <1>10, <2>1 DEF AdmsRefuses, TypeOK, JobRecord
  <2>3. OkKept
    BY <2>2 DEF OkKept
  <2> QED BY <1>10, <2>3, AckInvByJobs DEF AdmsRefuses
<1>11. ASSUME NEW j \in Jobs, RunUploaded(j) PROVE AckInv'
  <2> DEFINE p == job[j].punch
             r == OuterSynced(Uploaded(p), job[j].snap)
  <2>1. p \in Punches /\ job[j].snap \in Snapshot
    BY <1>11, AliveJob DEF RunUploaded
  <2>2. acks[p] > 0
    BY <1>11 DEF RunUploaded, AckInv
  <2>3. r \in Row /\ Accounted(r, acks[p])
    BY <1>0, <2>1, <2>2, RowOperators, OuterOperators, WrittenRowsAccounted
  <2>4. row' = [row EXCEPT ![p] = r] /\ job' = Finished(j) /\ acks' = acks
    BY <1>11 DEF RunUploaded, EndRun
  <2> HIDE DEF r
  <2> QED BY <2>1, <2>3, <2>4, AckInvByRow, EndRunJobs
<1>12. ASSUME NEW j \in Jobs, RunPushFailed(j) PROVE AckInv'
  <2> DEFINE p == job[j].punch
             r == OuterFailed(PushFailed(p), job[j].snap)
  <2>1. p \in Punches /\ job[j].snap \in Snapshot
    BY <1>12, AliveJob DEF RunPushFailed
  <2>2. r \in Row /\ Accounted(r, acks[p])
    BY <1>0, <2>1, RowOperators, OuterOperators, WrittenRowsAccounted
  <2>3. row' = [row EXCEPT ![p] = r] /\ job' = Finished(j) /\ acks' = acks
    BY <1>12 DEF RunPushFailed, EndRun
  <2> HIDE DEF r
  <2> QED BY <2>1, <2>2, <2>3, AckInvByRow, EndRunJobs
<1>13. ASSUME NEW j \in Jobs, RunRaises(j) PROVE AckInv'
  <2> DEFINE p == job[j].punch
             r == OuterFailed(row[p], SnapOf(j))
  <2>1. p \in Punches /\ SnapOf(j) \in Snapshot
    BY <1>13, AliveJob DEF RunRaises, CanStart
  <2>2. r \in Row /\ Accounted(r, acks[p])
    BY <1>0, <2>1, OuterOperators, WrittenRowsAccounted
  <2>3. row' = [row EXCEPT ![p] = r] /\ job' = Finished(j) /\ acks' = acks
    BY <1>13 DEF RunRaises, EndRun
  <2> HIDE DEF r
  <2> QED BY <2>1, <2>2, <2>3, AckInvByRow, EndRunJobs
<1>14. ASSUME NEW j \in Jobs, RunAborted(j) PROVE AckInv'
  BY <1>14, AckInvByJobs, EndRunJobs DEF RunAborted
<1>15. ASSUME NEW j \in Jobs, NEW c \in InnerCommits(j)
       PROVE  /\ job[j].punch \in Punches
              /\ c.row \in Row
              /\ Accounted(c.row, acks[job[j].punch])
  <2> DEFINE p == job[j].punch
  <2>1. job[j].st # "free"
    BY <1>15 DEF InnerCommits, CanStart
  <2>2. p \in Punches /\ c.row \in Row /\ job[j].snap \in Snapshot
    BY <1>15, <2>1, InnerCommitType, AliveJob
  <2>3. \/ c.row \in {LocalOnly(p), NotConfigured(p), PushFailed(p)}
        \/ c.row = Uploaded(p) /\ job[j].st = "posting" /\ job[j].reply = "ok"
    BY <1>15 DEF InnerCommits
  <2>4. c.row = Uploaded(p) /\ job[j].st = "posting" /\ job[j].reply = "ok"
          => acks[p] > 0
    BY DEF AckInv
  <2> QED BY <1>0, <2>2, <2>3, <2>4, WrittenRowsAccounted
<1>16. ASSUME NEW j \in Jobs, OuterCommitFails(j) PROVE AckInv'
  <2>1. PICK c \in InnerCommits(j) : EndRun(j, job[j].punch, c.row, c.failed)
    BY <1>16 DEF OuterCommitFails
  <2>2. /\ row' = [row EXCEPT ![job[j].punch] = c.row]
        /\ job' = Finished(j)
        /\ acks' = acks
    BY <1>16, <2>1 DEF EndRun, OuterCommitFails
  <2> QED BY <1>15, <2>1, <2>2, AckInvByRow, EndRunJobs
<1>17. ASSUME NEW j \in Jobs, CrashBetweenCommits(j) PROVE AckInv'
  <2>1. PICK c \in InnerCommits(j) : row' = [row EXCEPT ![job[j].punch] = c.row]
    BY <1>17 DEF CrashBetweenCommits
  <2>2. job[j].st # "free"
    BY <2>1 DEF InnerCommits, CanStart
  <2>3. /\ [job[j] EXCEPT !.tries = @ + 1].reply = job[j].reply
        /\ [job[j] EXCEPT !.tries = @ + 1].punch = job[j].punch
    BY <2>2, AliveJob DEF JobRecord
  <2>4. OkKept
    BY <1>17, <2>2, <2>3, RequeuedJobs DEF CrashBetweenCommits, OkKept
  <2>5. acks' = acks
    BY <1>17 DEF CrashBetweenCommits
  <2> QED BY <1>15, <2>1, <2>4, <2>5, AckInvByRow
<1>18. CASE WorkerCrash
  <2>1. OkKept
    BY <1>18, RequeuedJobs DEF WorkerCrash, OkKept
  <2> QED BY <1>18, <2>1, AckInvByJobs DEF WorkerCrash
<1>19. ASSUME NEW j \in Jobs, TriesExhausted(j) PROVE AckInv'
  BY <1>19, AckInvByJobs, EndRunJobs DEF TriesExhausted
<1>20. ASSUME NEW j \in Jobs, JobExpires(j) PROVE AckInv'
  BY <1>20, AckInvByJobs, EndRunJobs DEF JobExpires
<1>21. ASSUME NEW s \in Sweeps, SweepStart(s) PROVE AckInv'
  BY <1>21, AckInvByJobs, SameJobs DEF SweepStart, syncVars
<1>22. ASSUME NEW s \in Sweeps, NEW p \in Punches, SweepEnqueue(s, p) PROVE AckInv'
  BY <1>22, AckInvByJobs, NewJobJobs DEF SweepEnqueue
<1>23. CASE CleanupStale
  <2>1. \A p \in Punches :
          row'[p] = row[p] \/ row'[p] = [row[p] EXCEPT !.sync = "stale"]
    BY <1>23 DEF CleanupStale
  <2>2. \A p \in Punches : /\ [row[p] EXCEPT !.sync = "stale"].sync = "stale"
                           /\ [row[p] EXCEPT !.sync = "stale"].adms = row[p].adms
    BY <1>0 DEF Row
  <2> QED BY <1>0, <1>23, <2>1, <2>2
          DEF CleanupStale, AckInv, SyncedIsAccounted, Accounted
<1>24. ASSUME NEW p \in Punches, GrowOld(p) PROVE AckInv'
  BY <1>24, AckInvByJobs, SameJobs DEF GrowOld, syncVars
<1>25. ASSUME NEW e \in Employees, ChangeEmployeeType(e) PROVE AckInv'
  BY <1>25, AckInvByJobs, SameJobs DEF ChangeEmployeeType, syncVars
<1>26. CASE ChangeServerUrl
  BY <1>26, AckInvByJobs, SameJobs DEF ChangeServerUrl, syncVars
<1>27. CASE UNCHANGED vars
  BY <1>27, AckInvByJobs, SameJobs DEF vars
<1> QED
  BY <1>1, <1>2, <1>3, <1>4, <1>5, <1>6, <1>7, <1>8, <1>9, <1>10, <1>11, <1>12,
     <1>13, <1>14, <1>16, <1>17, <1>18, <1>19, <1>20, <1>21, <1>22, <1>23, <1>24,
     <1>25, <1>26, <1>27
  DEF Next, Api, Run, Adms, Cron, Environment, SweepRaises

LEMMA AckCorrect == Spec => []AckInv
<1>1. Init => AckInv
  BY DEF Init, AckInv, SyncedIsAccounted, Accounted, NewRow, NoJob
<1> QED BY <1>1, AckInvStep, TypeCorrect, PTL DEF Spec

\* A row is "synced" only if ADMS acknowledged the punch or its employee was
\* local-only: in every execution, with any number of overlapping jobs.
THEOREM SyncedAccounted == Spec => []SyncedIsAccounted
<1>1. AckInv => SyncedIsAccounted
  BY DEF AckInv
<1> QED BY <1>1, AckCorrect, PTL

------------------------------------------------------------------------------
(* The retry count and the dead letters *)

\* A row with n recorded failures counts no more than happened.
Counted(r, n) == r.retry <= n /\ (r.dead > 0 => n >= DeadLetterAt)

\* Inductive because the stale copies of the rows are bounded as well.
CountInv ==
  /\ \A p \in Punches : Counted(row[p], failures[p])
  /\ \A j \in Jobs :
       job[j].st # "free" => job[j].snap.retry <= failures[job[j].punch]

\* A step after which every copy of a row is an old one or counts nothing.
SnapsKept ==
  \A k \in Jobs :
    job'[k].st # "free" =>
      \/ job'[k].snap.retry = 0 /\ job'[k].punch \in Punches
      \/ /\ job[k].st # "free"
         /\ job'[k].punch = job[k].punch
         /\ job'[k].snap = job[k].snap

\* Without a failure a commit keeps the counters; with one it counts it once.
LEMMA WrittenRowsCounted ==
  ASSUME TypeOK, NEW p \in Punches, NEW snap \in Snapshot, NEW n \in Nat,
         Counted(row[p], n), snap.retry <= n
  PROVE  /\ Counted(LocalOnly(p), n)
         /\ Counted(NotConfigured(p), n)
         /\ Counted(Uploaded(p), n)
         /\ Counted(PushFailed(p), n + 1)
         /\ Counted(OuterSynced(LocalOnly(p), snap), n)
         /\ Counted(OuterSynced(Uploaded(p), snap), n)
         /\ Counted(OuterFailed(NotConfigured(p), snap), n + 1)
         /\ Counted(OuterFailed(PushFailed(p), snap), n + 1)
         /\ Counted(OuterFailed(row[p], snap), n + 1)
<1>1. row[p] \in Row /\ row[p].retry \in Nat /\ row[p].dead \in Nat
  BY DEF TypeOK, Row
<1>2. /\ LocalOnly(p).retry = row[p].retry /\ LocalOnly(p).dead = row[p].dead
      /\ NotConfigured(p).retry = row[p].retry /\ NotConfigured(p).dead = row[p].dead
      /\ Uploaded(p).retry = row[p].retry /\ Uploaded(p).dead = row[p].dead
      /\ PushFailed(p).retry = row[p].retry + 1 /\ PushFailed(p).dead = row[p].dead
  BY <1>1 DEF LocalOnly, NotConfigured, PushFailed, Uploaded, Row
<1>3. ASSUME NEW r \in Row
      PROVE  /\ OuterSynced(r, snap).retry = r.retry
             /\ OuterSynced(r, snap).dead = r.dead
             /\ OuterFailed(r, snap).retry = snap.retry + 1
             /\ OuterFailed(r, snap).dead =
                  IF snap.retry + 1 >= DeadLetterAt THEN r.dead + 1 ELSE r.dead
  BY <1>3 DEF OuterSynced, OuterFailed, Row
<1>4. /\ LocalOnly(p) \in Row /\ NotConfigured(p) \in Row
      /\ PushFailed(p) \in Row /\ Uploaded(p) \in Row
  BY RowOperators
<1>5. snap.retry \in Nat
  BY DEF Snapshot
<1>6. /\ Counted(LocalOnly(p), n) /\ Counted(NotConfigured(p), n)
      /\ Counted(Uploaded(p), n) /\ Counted(PushFailed(p), n + 1)
  BY <1>1, <1>2, LimitsAreNat DEF Counted
<1>7. /\ Counted(OuterSynced(LocalOnly(p), snap), n)
      /\ Counted(OuterSynced(Uploaded(p), snap), n)
  BY <1>2, <1>3, <1>4 DEF Counted
<1>8. ASSUME NEW r \in Row, r.dead = row[p].dead
      PROVE  Counted(OuterFailed(r, snap), n + 1)
  BY <1>1, <1>3, <1>5, <1>8, LimitsAreNat DEF Counted
<1> QED BY <1>1, <1>2, <1>4, <1>6, <1>7, <1>8

\* A step that leaves rows and failures alone and takes no new copy.
LEMMA CountInvByJobs ==
  ASSUME TypeOK, CountInv, UNCHANGED <<row, failures>>, SnapsKept
  PROVE  CountInv'
BY DEF CountInv, SnapsKept, Counted, TypeOK

\* A step that writes one row, with or without a failure of that row's punch.
LEMMA CountInvByRow ==
  ASSUME TypeOK, CountInv, SnapsKept, NEW p \in Punches, NEW r \in Row,
         NEW failed \in BOOLEAN,
         row' = [row EXCEPT ![p] = r],
         failures' = IF failed THEN [failures EXCEPT ![p] = @ + 1] ELSE failures,
         Counted(r, IF failed THEN failures[p] + 1 ELSE failures[p])
  PROVE  CountInv'
<1>1. \A q \in Punches : /\ failures[q] \in Nat /\ failures'[q] \in Nat
                         /\ failures[q] <= failures'[q]
  BY DEF TypeOK
<1>2. failures'[p] = IF failed THEN failures[p] + 1 ELSE failures[p]
  BY DEF TypeOK
<1>3. ASSUME NEW q \in Punches PROVE Counted(row'[q], failures'[q])
  <2>1. CASE q = p
    BY <1>2, <2>1 DEF TypeOK
  <2>2. CASE q # p
    BY <2>2 DEF TypeOK, CountInv
  <2> QED BY <2>1, <2>2
<1>4. ASSUME NEW k \in Jobs, job'[k].st # "free"
      PROVE  job'[k].snap.retry <= failures'[job'[k].punch]
  <2>1. CASE job'[k].snap.retry = 0 /\ job'[k].punch \in Punches
    BY <1>1, <2>1
  <2>2. CASE /\ job[k].st # "free"
             /\ job'[k].punch = job[k].punch
             /\ job'[k].snap = job[k].snap
    <3>1. job[k].punch \in Punches /\ job[k].snap.retry \in Nat
      BY <2>2, AliveJob DEF Snapshot
    <3>2. job[k].snap.retry <= failures[job[k].punch]
      BY <2>2 DEF CountInv
    <3> QED BY <1>1, <2>2, <3>1, <3>2
  <2> QED BY <1>4, <2>1, <2>2 DEF SnapsKept
<1> QED BY <1>3, <1>4 DEF CountInv

\* The rows a failed run ends with are the only ones that count one more.
LEMMA CountInvByRun ==
  ASSUME TypeOK, CountInv, NEW j \in Jobs, job[j].st # "free", NEW r \in Row,
         NEW failed \in BOOLEAN, EndRun(j, job[j].punch, r, failed),
         Counted(r, IF failed THEN failures[job[j].punch] + 1
                              ELSE failures[job[j].punch])
  PROVE  CountInv'
<1>1. job[j].punch \in Punches
  BY AliveJob
<1>2. SnapsKept
  BY DEF EndRun, Finished, NoJob, SnapsKept, TypeOK
<1> QED BY <1>1, <1>2, CountInvByRow DEF EndRun

\* The copy a run works with never counts more than the failures so far.
LEMMA SnapCounted ==
  ASSUME TypeOK, CountInv, NEW j \in Jobs, job[j].st # "free"
  PROVE  /\ job[j].punch \in Punches /\ failures[job[j].punch] \in Nat
         /\ Counted(row[job[j].punch], failures[job[j].punch])
         /\ SnapOf(j) \in Snapshot
         /\ SnapOf(j).retry <= failures[job[j].punch]
         /\ job[j].snap \in Snapshot
         /\ job[j].snap.retry <= failures[job[j].punch]
<1>1. job[j].punch \in Punches /\ SnapOf(j) \in Snapshot /\ job[j].snap \in Snapshot
  BY AliveJob
<1>2. /\ Counted(row[job[j].punch], failures[job[j].punch])
      /\ job[j].snap.retry <= failures[job[j].punch]
  BY <1>1 DEF CountInv
<1>3. SnapOf(j).retry <= failures[job[j].punch]
  BY <1>2 DEF SnapOf, SnapshotOf, Counted
<1> QED BY <1>1, <1>2, <1>3 DEF TypeOK

LEMMA CountInvStep == TypeOK /\ CountInv /\ [Next]_vars => CountInv'
<1> SUFFICES ASSUME TypeOK, CountInv, [Next]_vars PROVE CountInv'
  OBVIOUS
<1>0. ASSUME job' = job PROVE SnapsKept
  BY <1>0 DEF SnapsKept
<1>1. ASSUME NEW p \in Punches, CreatePunch(p) PROVE CountInv'
  BY <1>0, <1>1, CountInvByJobs DEF CreatePunch, syncVars
<1>2. ASSUME NEW p \in Punches, NEW j \in Jobs, job' = [job EXCEPT ![j] = NewJob(p)]
      PROVE  SnapsKept
  BY <1>2 DEF SnapsKept, NewJob, TypeOK
<1>3. ASSUME NEW p \in Punches, Enqueue(p) PROVE CountInv'
  BY <1>2, <1>3, CountInvByJobs DEF Enqueue
<1>4. ASSUME NEW p \in Punches, EnqueueFails(p) PROVE CountInv'
  BY <1>0, <1>4, CountInvByJobs DEF EnqueueFails
<1>5. CASE ApiCrash
  BY <1>0, <1>5, CountInvByJobs DEF ApiCrash
<1>6. ASSUME NEW j \in Jobs, RunLocalOnly(j) PROVE CountInv'
  <2> DEFINE p == job[j].punch
             r == OuterSynced(LocalOnly(p), SnapOf(j))
  <2>1. job[j].st # "free"
    BY <1>6 DEF RunLocalOnly, CanStart
  <2>2. r \in Row
    BY <2>1, AliveJob, RowOperators, OuterOperators DEF TypeOK
  <2>3. Counted(r, failures[p])
    BY <2>1, SnapCounted, WrittenRowsCounted
  <2>4. EndRun(j, p, r, FALSE)
    BY <1>6 DEF RunLocalOnly
  <2> HIDE DEF r
  <2> QED BY <2>1, <2>2, <2>3, <2>4, CountInvByRun
<1>7. ASSUME NEW j \in Jobs, RunNotConfigured(j) PROVE CountInv'
  <2> DEFINE p == job[j].punch
             r == OuterFailed(NotConfigured(p), SnapOf(j))
  <2>1. job[j].st # "free"
    BY <1>7 DEF RunNotConfigured, CanStart
  <2>2. r \in Row
    BY <2>1, AliveJob, RowOperators, OuterOperators DEF TypeOK
  <2>3. Counted(r, failures[p] + 1)
    BY <2>1, SnapCounted, WrittenRowsCounted
  <2>4. EndRun(j, p, r, TRUE)
    BY <1>7 DEF RunNotConfigured
  <2> HIDE DEF r
  <2> QED BY <2>1, <2>2, <2>3, <2>4, CountInvByRun
<1>8. ASSUME NEW j \in Jobs, RunPush(j) PROVE CountInv'
  <2>1. PICK st \in {"registering", "posting"} :
          job' = [job EXCEPT ![j].st = st, ![j].tries = @ + 1, ![j].reply = "none",
                             ![j].snap = SnapshotOf(job[j].punch)]
    BY <1>8 DEF RunPush
  <2>2. job[j].st # "free" /\ job[j] \in JobRecord /\ job[j].punch \in Punches
    BY <1>8, AliveJob DEF RunPush, CanStart
  <2>3. /\ job'[j].snap = SnapshotOf(job[j].punch)
        /\ job'[j].punch = job[j].punch
        /\ \A k \in Jobs : k # j => job'[k] = job[k]
    BY <2>1, <2>2 DEF TypeOK, JobRecord
  <2>4. SnapshotOf(job[j].punch).retry <= failures[job[j].punch]
    BY <2>2 DEF SnapshotOf, CountInv, Counted
  <2>5. UNCHANGED <<row, failures>>
    BY <1>8 DEF RunPush
  <2> QED BY <2>3, <2>4, <2>5 DEF CountInv
<1>9. ASSUME NEW j \in Jobs, Registered(j) PROVE CountInv'
  <2>1. job[j].st # "free" /\ job[j] \in JobRecord
    BY <1>9, AliveJob DEF Registered
  <2>2. SnapsKept
    BY <1>9, <2>1 DEF Registered, SnapsKept, TypeOK, JobRecord
  <2> QED BY <1>9, <2>2, CountInvByJobs DEF Registered
<1>10. ASSUME NEW j \in Jobs, AdmsAccepts(j) PROVE CountInv'
  <2>1. job[j].st # "free" /\ job[j] \in JobRecord
    BY <1>10, AliveJob DEF AdmsAccepts
  <2>2. SnapsKept
    BY <1>10, <2>1 DEF AdmsAccepts, SnapsKept, TypeOK, JobRecord
  <2> QED BY <1>10, <2>2, CountInvByJobs DEF AdmsAccepts
<1>11. ASSUME NEW j \in Jobs, AdmsRefuses(j) PROVE CountInv'
  <2>1. job[j].st # "free" /\ job[j] \in JobRecord
    BY <1>11, AliveJob DEF AdmsRefuses
  <2>2. SnapsKept
    BY <1>11, <2>1 DEF AdmsRefuses, SnapsKept, TypeOK, JobRecord
  <2> QED BY <1>11, <2>2, CountInvByJobs DEF AdmsRefuses
<1>12. ASSUME NEW j \in Jobs, RunUploaded(j) PROVE CountInv'
  <2> DEFINE p == job[j].punch
             r == OuterSynced(Uploaded(p), job[j].snap)
  <2>1. job[j].st # "free"
    BY <1>12 DEF RunUploaded, CanStart
  <2>2. r \in Row
    BY <2>1, AliveJob, RowOperators, OuterOperators DEF TypeOK
  <2>3. Counted(r, failures[p])
    BY <2>1, SnapCounted, WrittenRowsCounted
  <2>4. EndRun(j, p, r, FALSE)
    BY <1>12 DEF RunUploaded
  <2> HIDE DEF r
  <2> QED BY <2>1, <2>2, <2>3, <2>4, CountInvByRun
<1>13. ASSUME NEW j \in Jobs, RunPushFailed(j) PROVE CountInv'
  <2> DEFINE p == job[j].punch
             r == OuterFailed(PushFailed(p), job[j].snap)
  <2>1. job[j].st # "free"
    BY <1>13 DEF RunPushFailed, CanStart
  <2>2. r \in Row
    BY <2>1, AliveJob, RowOperators, OuterOperators DEF TypeOK
  <2>3. Counted(r, failures[p] + 1)
    BY <2>1, SnapCounted, WrittenRowsCounted
  <2>4. EndRun(j, p, r, TRUE)
    BY <1>13 DEF RunPushFailed
  <2> HIDE DEF r
  <2> QED BY <2>1, <2>2, <2>3, <2>4, CountInvByRun
<1>14. ASSUME NEW j \in Jobs, RunRaises(j) PROVE CountInv'
  <2> DEFINE p == job[j].punch
             r == OuterFailed(row[p], SnapOf(j))
  <2>1. job[j].st # "free"
    BY <1>14 DEF RunRaises, CanStart
  <2>2. r \in Row
    BY <2>1, AliveJob, RowOperators, OuterOperators DEF TypeOK
  <2>3. Counted(r, failures[p] + 1)
    BY <2>1, SnapCounted, WrittenRowsCounted
  <2>4. EndRun(j, p, r, TRUE)
    BY <1>14 DEF RunRaises
  <2> HIDE DEF r
  <2> QED BY <2>1, <2>2, <2>3, <2>4, CountInvByRun
<1>15. ASSUME NEW j \in Jobs, job' = Finished(j)
       PROVE  SnapsKept
  BY <1>15 DEF SnapsKept, Finished, NoJob, TypeOK
<1>16. ASSUME NEW j \in Jobs, RunAborted(j) PROVE CountInv'
  BY <1>15, <1>16, CountInvByJobs DEF RunAborted
<1>17. ASSUME NEW j \in Jobs, NEW c \in InnerCommits(j)
       PROVE  /\ job[j].st # "free"
              /\ job[j].punch \in Punches
              /\ c.row \in Row /\ c.failed \in BOOLEAN
              /\ Counted(c.row, IF c.failed THEN failures[job[j].punch] + 1
                                           ELSE failures[job[j].punch])
  <2> DEFINE p == job[j].punch
  <2>1. job[j].st # "free"
    BY <1>17 DEF InnerCommits, CanStart
  <2>2. p \in Punches /\ c.row \in Row /\ c.failed \in BOOLEAN
    BY <1>17, <2>1, InnerCommitType, AliveJob
  <2>3. /\ Counted(LocalOnly(p), failures[p]) /\ Counted(NotConfigured(p), failures[p])
        /\ Counted(Uploaded(p), failures[p]) /\ Counted(PushFailed(p), failures[p] + 1)
    BY <2>1, SnapCounted, WrittenRowsCounted
  <2>4. \/ c.row \in {LocalOnly(p), NotConfigured(p), Uploaded(p)} /\ c.failed = FALSE
        \/ c.row = PushFailed(p) /\ c.failed = TRUE
    BY <1>17 DEF InnerCommits
  <2> HIDE DEF p
  <2>5. Counted(c.row, IF c.failed THEN failures[p] + 1 ELSE failures[p])
    BY <2>3, <2>4
  <2> QED BY <2>1, <2>2, <2>5 DEF p
<1>18. ASSUME NEW j \in Jobs, OuterCommitFails(j) PROVE CountInv'
  <2>1. PICK c \in InnerCommits(j) : EndRun(j, job[j].punch, c.row, c.failed)
    BY <1>18 DEF OuterCommitFails
  <2> QED BY <1>17, <2>1, CountInvByRun
<1>19. ASSUME NEW k \in Jobs, Requeued(k).st # "free"
       PROVE  \/ Requeued(k).snap.retry = 0 /\ Requeued(k).punch \in Punches
              \/ Requeued(k) = job[k]
  <2>1. CASE Running(k)
    <3>1. job[k].punch \in Punches
      BY <2>1, AliveJob DEF Running
    <3> QED BY <2>1, <3>1 DEF Requeued, NewJob
  <2>2. CASE ~Running(k)
    BY <2>2 DEF Requeued
  <2> QED BY <2>1, <2>2
<1>20. ASSUME NEW j \in Jobs, CrashBetweenCommits(j) PROVE CountInv'
  <2>1. PICK c \in InnerCommits(j) :
          /\ row' = [row EXCEPT ![job[j].punch] = c.row]
          /\ failures' = IF c.failed THEN [failures EXCEPT ![job[j].punch] = @ + 1]
                                     ELSE failures
    BY <1>20 DEF CrashBetweenCommits
  <2>2. /\ [job[j] EXCEPT !.tries = @ + 1].snap = job[j].snap
        /\ [job[j] EXCEPT !.tries = @ + 1].punch = job[j].punch
        /\ job[j].st # "free"
    BY <1>17, <2>1, AliveJob DEF JobRecord
  <2>3. SnapsKept
    BY <1>19, <1>20, <2>2 DEF CrashBetweenCommits, SnapsKept
  <2> QED BY <1>17, <2>1, <2>3, CountInvByRow
<1>21. CASE WorkerCrash
  <2>1. SnapsKept
    BY <1>19, <1>21 DEF WorkerCrash, SnapsKept
  <2> QED BY <1>21, <2>1, CountInvByJobs DEF WorkerCrash
<1>22. ASSUME NEW j \in Jobs, TriesExhausted(j) PROVE CountInv'
  BY <1>15, <1>22, CountInvByJobs DEF TriesExhausted
<1>23. ASSUME NEW j \in Jobs, JobExpires(j) PROVE CountInv'
  BY <1>15, <1>23, CountInvByJobs DEF JobExpires
<1>24. ASSUME NEW s \in Sweeps, SweepStart(s) PROVE CountInv'
  BY <1>0, <1>24, CountInvByJobs DEF SweepStart, syncVars
<1>25. ASSUME NEW s \in Sweeps, NEW p \in Punches, SweepEnqueue(s, p) PROVE CountInv'
  BY <1>2, <1>25, CountInvByJobs DEF SweepEnqueue
<1>26. CASE CleanupStale
  <2>1. \A p \in Punches : /\ row[p] \in Row
                           /\ [row[p] EXCEPT !.sync = "stale"].retry = row[p].retry
                           /\ [row[p] EXCEPT !.sync = "stale"].dead = row[p].dead
    BY DEF TypeOK, Row
  <2>2. \A p \in Punches : row'[p].retry = row[p].retry /\ row'[p].dead = row[p].dead
    BY <1>26, <2>1 DEF CleanupStale
  <2> QED BY <1>26, <2>2 DEF CleanupStale, CountInv, Counted
<1>27. ASSUME NEW p \in Punches, GrowOld(p) PROVE CountInv'
  BY <1>0, <1>27, CountInvByJobs DEF GrowOld, syncVars
<1>28. ASSUME NEW e \in Employees, ChangeEmployeeType(e) PROVE CountInv'
  BY <1>0, <1>28, CountInvByJobs DEF ChangeEmployeeType, syncVars
<1>29. CASE ChangeServerUrl
  BY <1>0, <1>29, CountInvByJobs DEF ChangeServerUrl, syncVars
<1>30. CASE UNCHANGED vars
  BY <1>0, <1>30, CountInvByJobs DEF vars
<1> QED
  BY <1>1, <1>3, <1>4, <1>5, <1>6, <1>7, <1>8, <1>9, <1>10, <1>11, <1>12, <1>13,
     <1>14, <1>16, <1>18, <1>20, <1>21, <1>22, <1>23, <1>24, <1>25, <1>26, <1>27,
     <1>28, <1>29, <1>30
  DEF Next, Api, Run, Adms, Cron, Environment, SweepRaises

LEMMA CountCorrect == Spec => []CountInv
<1>1. Init => CountInv
  BY LimitsAreNat DEF Init, CountInv, Counted, NewRow, NoJob
<1> QED BY <1>1, CountInvStep, TypeCorrect, PTL DEF Spec

\* A dead letter is written only after DeadLetterAt recorded failures.
THEOREM DeadLetterHonest == Spec => []DeadLetterIsHonest
<1>1. CountInv => DeadLetterIsHonest
  BY DEF CountInv, Counted, DeadLetterIsHonest
<1> QED BY <1>1, CountCorrect, PTL

\* sync_retry_count is at most the number of failures, overlapping jobs included.
THEOREM RetryBounded == Spec => []RetryNeverOverstated
<1>1. CountInv => RetryNeverOverstated
  BY DEF CountInv, Counted, RetryNeverOverstated
<1> QED BY <1>1, CountCorrect, PTL

------------------------------------------------------------------------------
(* How a run ends *)

\* The run of j ends with row r: pending only if the punch is counted as lost, or
\* if that is what the row says and the run's copy says "failed"; never stale
\* otherwise; and with one more retry exactly if a failure is recorded, as long as
\* the count of the copy is the count of the row.
Outcome(j, r, failed) ==
  LET p == job[j].punch
  IN /\ Alive(j) /\ p \in Punches
     /\ EndRun(j, p, r, failed)
     /\ UNCHANGED <<request, sweep, acks, envVars, sweeps>>
     /\ dropped' \in {dropped, dropped \union {p}}
     /\ r.sync \in {"pending", "stale"}
          => \/ r.sync = "pending" /\ p \in dropped'
             \/ Running(j) /\ job[j].snap.sync = "failed" /\ r.sync = row[p].sync
     /\ SnapOf(j).retry = row[p].retry
          => r.retry = IF failed THEN row[p].retry + 1 ELSE row[p].retry

\* The steps that end a run with an outcome.
Ends(j) == RunLocalOnly(j) \/ RunNotConfigured(j) \/ RunUploaded(j)
           \/ RunPushFailed(j) \/ RunRaises(j) \/ OuterCommitFails(j)

\* The columns the operators on rows write.
LEMMA WrittenColumns ==
  ASSUME TypeOK, NEW p \in Punches
  PROVE  /\ LocalOnly(p).sync = "local_only" /\ LocalOnly(p).retry = row[p].retry
         /\ NotConfigured(p).sync = "pending" /\ NotConfigured(p).retry = row[p].retry
         /\ Uploaded(p).sync = "synced" /\ Uploaded(p).retry = row[p].retry
         /\ PushFailed(p).sync = "failed" /\ PushFailed(p).retry = row[p].retry + 1
<1>1. row[p] \in Row
  BY DEF TypeOK
<1> QED BY <1>1 DEF LocalOnly, NotConfigured, Uploaded, PushFailed, Row

LEMMA OuterColumns ==
  ASSUME NEW r \in Row, NEW snap \in Snapshot
  PROVE  /\ OuterSynced(r, snap).retry = r.retry
         /\ OuterSynced(r, snap).sync =
              IF snap.sync = "synced" THEN r.sync ELSE "synced"
         /\ OuterFailed(r, snap).retry = snap.retry + 1
         /\ OuterFailed(r, snap).sync =
              IF snap.sync = "failed" THEN r.sync ELSE "failed"
BY DEF OuterSynced, OuterFailed, Row

LEMMA EveryEndIsAnOutcome ==
  ASSUME TypeOK, NEW j \in Jobs, Ends(j)
  PROVE  \E r \in Row, failed \in BOOLEAN : Outcome(j, r, failed)
<1> DEFINE p == job[j].punch
<1>1. Alive(j)
  BY DEF Ends, RunLocalOnly, RunNotConfigured, RunUploaded, RunPushFailed, RunRaises,
         OuterCommitFails, InnerCommits, CanStart, Alive
<1>2. p \in Punches /\ SnapOf(j) \in Snapshot /\ job[j].snap \in Snapshot
  BY <1>1, AliveJob DEF Alive
<1>3. /\ LocalOnly(p) \in Row /\ NotConfigured(p) \in Row /\ row[p] \in Row
      /\ Uploaded(p) \in Row /\ PushFailed(p) \in Row
  BY <1>2, RowOperators DEF TypeOK
<1>4. /\ LocalOnly(p).sync = "local_only" /\ LocalOnly(p).retry = row[p].retry
      /\ NotConfigured(p).sync = "pending" /\ NotConfigured(p).retry = row[p].retry
      /\ Uploaded(p).sync = "synced" /\ Uploaded(p).retry = row[p].retry
      /\ PushFailed(p).sync = "failed" /\ PushFailed(p).retry = row[p].retry + 1
  BY <1>2, WrittenColumns
<1>5. ASSUME NEW r \in Row
      PROVE  /\ OuterSynced(r, SnapOf(j)) \in Row
             /\ OuterSynced(r, SnapOf(j)).retry = r.retry
             /\ OuterSynced(r, SnapOf(j)).sync \in {r.sync, "synced"}
             /\ OuterFailed(r, SnapOf(j)) \in Row
             /\ OuterFailed(r, SnapOf(j)).retry = SnapOf(j).retry + 1
             /\ OuterFailed(r, SnapOf(j)).sync =
                  IF SnapOf(j).sync = "failed" THEN r.sync ELSE "failed"
  BY <1>2, OuterOperators, OuterColumns
<1>6. Running(j) => SnapOf(j) = job[j].snap
  BY DEF Running, SnapOf
<1>7. ~Running(j) => SnapOf(j).sync = row[p].sync
  <2>1. ~Running(j) => job[j].st = "queued"
    BY <1>1, AliveJob DEF Alive, Running, JobRecord
  <2> QED BY <2>1 DEF SnapOf, SnapshotOf
<1>8. CASE RunLocalOnly(j)
  <2> DEFINE r == OuterSynced(LocalOnly(p), SnapOf(j))
  <2>1. EndRun(j, p, r, FALSE) /\ dropped' = dropped
    BY <1>8 DEF RunLocalOnly
  <2>2. r \in Row /\ r.sync \in {"local_only", "synced"} /\ r.retry = row[p].retry
    BY <1>3, <1>4, <1>5
  <2>3. UNCHANGED <<request, sweep, acks, envVars, sweeps>>
    BY <1>8 DEF RunLocalOnly
  <2> HIDE DEF r
  <2>4. Outcome(j, r, FALSE)
    BY <1>1, <1>2, <2>1, <2>2, <2>3 DEF Outcome
  <2> QED BY <2>2, <2>4
<1>9. CASE RunNotConfigured(j)
  <2> DEFINE r == OuterFailed(NotConfigured(p), SnapOf(j))
  <2>1. /\ EndRun(j, p, r, TRUE)
        /\ dropped' = IF r.sync = "pending" THEN dropped \union {p} ELSE dropped
    BY <1>9 DEF RunNotConfigured
  <2>2. r \in Row /\ r.sync \in {"pending", "failed"} /\ r.retry = SnapOf(j).retry + 1
    BY <1>3, <1>4, <1>5
  <2>3. UNCHANGED <<request, sweep, acks, envVars, sweeps>>
    BY <1>9 DEF RunNotConfigured
  <2> HIDE DEF r
  <2>4. Outcome(j, r, TRUE)
    BY <1>1, <1>2, <2>1, <2>2, <2>3 DEF Outcome
  <2> QED BY <2>2, <2>4
<1>10. CASE RunUploaded(j)
  <2> DEFINE r == OuterSynced(Uploaded(p), SnapOf(j))
  <2>0. SnapOf(j) = job[j].snap
    BY <1>6, <1>10 DEF RunUploaded, Running
  <2>1. EndRun(j, p, r, FALSE) /\ dropped' = dropped
    BY <1>10, <2>0 DEF RunUploaded
  <2>2. r \in Row /\ r.sync = "synced" /\ r.retry = row[p].retry
    BY <1>3, <1>4, <1>5
  <2>3. UNCHANGED <<request, sweep, acks, envVars, sweeps>>
    BY <1>10 DEF RunUploaded
  <2> HIDE DEF r
  <2>4. Outcome(j, r, FALSE)
    BY <1>1, <1>2, <2>1, <2>2, <2>3 DEF Outcome
  <2> QED BY <2>2, <2>4
<1>11. CASE RunPushFailed(j)
  <2> DEFINE r == OuterFailed(PushFailed(p), SnapOf(j))
  <2>0. SnapOf(j) = job[j].snap
    BY <1>6, <1>11 DEF RunPushFailed, Running
  <2>1. EndRun(j, p, r, TRUE) /\ dropped' = dropped
    BY <1>11, <2>0 DEF RunPushFailed
  <2>2. r \in Row /\ r.sync = "failed" /\ r.retry = SnapOf(j).retry + 1
    BY <1>3, <1>4, <1>5
  <2>3. UNCHANGED <<request, sweep, acks, envVars, sweeps>>
    BY <1>11 DEF RunPushFailed
  <2> HIDE DEF r
  <2>4. Outcome(j, r, TRUE)
    BY <1>1, <1>2, <2>1, <2>2, <2>3 DEF Outcome
  <2> QED BY <2>2, <2>4
<1>12. CASE RunRaises(j)
  <2> DEFINE r == OuterFailed(row[p], SnapOf(j))
  <2>1. EndRun(j, p, r, TRUE) /\ dropped' = dropped
    BY <1>12 DEF RunRaises
  <2>2. /\ r \in Row /\ r.retry = SnapOf(j).retry + 1
        /\ r.sync = IF SnapOf(j).sync = "failed" THEN row[p].sync ELSE "failed"
    BY <1>3, <1>5
  <2>3. UNCHANGED <<request, sweep, acks, envVars, sweeps>>
    BY <1>12 DEF RunRaises
  <2> HIDE DEF r
  <2>4. r.sync \in {"pending", "stale"}
          => Running(j) /\ job[j].snap.sync = "failed" /\ r.sync = row[p].sync
    BY <1>6, <1>7, <2>2
  <2>5. Outcome(j, r, TRUE)
    BY <1>1, <1>2, <2>1, <2>2, <2>3, <2>4 DEF Outcome
  <2> QED BY <2>2, <2>5
<1>13. CASE OuterCommitFails(j)
  <2>1. PICK c \in InnerCommits(j) :
          /\ EndRun(j, p, c.row, c.failed)
          /\ dropped' = IF c.row.sync = "pending" THEN dropped \union {p} ELSE dropped
    BY <1>13 DEF OuterCommitFails
  <2>2. \/ c.row \in {LocalOnly(p), NotConfigured(p), Uploaded(p)} /\ c.failed = FALSE
        \/ c.row = PushFailed(p) /\ c.failed = TRUE
    BY DEF InnerCommits
  <2>3. /\ c.row \in Row /\ c.failed \in BOOLEAN /\ c.row.sync # "stale"
        /\ c.row.retry = IF c.failed THEN row[p].retry + 1 ELSE row[p].retry
    BY <1>3, <1>4, <2>2
  <2>4. UNCHANGED <<request, sweep, acks, envVars, sweeps>>
    BY <1>13 DEF OuterCommitFails
  <2>5. Outcome(j, c.row, c.failed)
    BY <1>1, <1>2, <2>1, <2>3, <2>4 DEF Outcome
  <2> QED BY <2>3, <2>5
<1> QED BY <1>8, <1>9, <1>10, <1>11, <1>12, <1>13 DEF Ends

\* A job that ends leaves a free slot and the other jobs alone.
LEMMA FinishedJobs ==
  ASSUME TypeOK, NEW j \in Jobs, job' = Finished(j)
  PROVE  /\ ~Alive(j)'
         /\ \A k \in Jobs : k # j => job'[k] = job[k]
BY DEF TypeOK, Finished, NoJob, Alive

\* A crash queues every job that runs and loses none.
LEMMA RequeuedJob ==
  ASSUME NEW k \in Jobs
  PROVE  /\ Requeued(k).st # "free" <=> job[k].st # "free"
         /\ job[k].st # "free" => Requeued(k).punch = job[k].punch
         /\ ~(Requeued(k).st \in {"registering", "posting"})
         /\ Requeued(k).reply = IF Running(k) THEN "none" ELSE job[k].reply
         /\ Requeued(k).st = "queued" /\ ~Running(k) => job[k].st = "queued"
BY DEF Requeued, NewJob, Running

\* A worker that dies, between the commits of a run or elsewhere: at most the row
\* of one job is written, by one of the inner commits, and every job is queued.
CrashOf(r, failed, p) ==
  /\ \/ UNCHANGED <<row, failures>>
     \/ /\ r \in Row /\ failed \in BOOLEAN
        /\ \E j \in Jobs : Alive(j) /\ job[j].punch = p
        /\ row' = [row EXCEPT ![p] = r]
        /\ failures' = IF failed THEN [failures EXCEPT ![p] = @ + 1] ELSE failures
        /\ r.sync # "stale"
        /\ r.retry = IF failed THEN row[p].retry + 1 ELSE row[p].retry
  /\ \A k \in Jobs : /\ Alive(k)' <=> Alive(k)
                     /\ Alive(k) => job'[k].punch = job[k].punch
                     /\ ~Running(k)'
                     /\ job'[k].st = "queued"
                          => job'[k].reply = "none" \/ (/\ job[k].st = "queued"
                                                        /\ job'[k].reply = job[k].reply)
  /\ sweep' = [s \in Sweeps |-> {}]
  /\ crashes' = crashes + 1
  /\ UNCHANGED <<dropped, request, acks, old>>

LEMMA EveryCrashIsOne ==
  ASSUME TypeOK, WorkerCrash \/ \E j \in Jobs : CrashBetweenCommits(j)
  PROVE  \E r, failed, p : CrashOf(r, failed, p)
<1>1. ASSUME WorkerCrash PROVE CrashOf(0, FALSE, 0)
  <2>1. \A k \in Jobs : job'[k] = Requeued(k)
    BY <1>1 DEF WorkerCrash
  <2>2. ASSUME NEW k \in Jobs
        PROVE  /\ Alive(k)' <=> Alive(k)
               /\ Alive(k) => job'[k].punch = job[k].punch
               /\ ~Running(k)'
               /\ job'[k].st = "queued"
                    => job'[k].reply = "none" \/ (/\ job[k].st = "queued"
                                                  /\ job'[k].reply = job[k].reply)
    BY <2>1, RequeuedJob DEF Alive, Running
  <2> QED BY <1>1, <2>2 DEF WorkerCrash, CrashOf
<1>2. ASSUME NEW j \in Jobs, CrashBetweenCommits(j)
      PROVE  \E r, failed : CrashOf(r, failed, job[j].punch)
  <2> DEFINE p == job[j].punch
  <2>1. PICK c \in InnerCommits(j) :
          /\ row' = [row EXCEPT ![p] = c.row]
          /\ failures' = IF c.failed THEN [failures EXCEPT ![p] = @ + 1] ELSE failures
    BY <1>2 DEF CrashBetweenCommits
  <2>2. Alive(j)
    BY DEF InnerCommits, CanStart, Alive
  <2>3. p \in Punches /\ job[j] \in JobRecord
    BY <2>2, AliveJob DEF Alive
  <2>4. /\ LocalOnly(p) \in Row /\ NotConfigured(p) \in Row
        /\ Uploaded(p) \in Row /\ PushFailed(p) \in Row
    BY <2>3, RowOperators
  <2>5. /\ LocalOnly(p).sync = "local_only" /\ LocalOnly(p).retry = row[p].retry
        /\ NotConfigured(p).sync = "pending" /\ NotConfigured(p).retry = row[p].retry
        /\ Uploaded(p).sync = "synced" /\ Uploaded(p).retry = row[p].retry
        /\ PushFailed(p).sync = "failed" /\ PushFailed(p).retry = row[p].retry + 1
    BY <2>3, WrittenColumns
  <2>6. \/ c.row \in {LocalOnly(p), NotConfigured(p), Uploaded(p)} /\ c.failed = FALSE
        \/ c.row = PushFailed(p) /\ c.failed = TRUE
    BY DEF InnerCommits
  <2>7. /\ c.row \in Row /\ c.failed \in BOOLEAN /\ c.row.sync # "stale"
        /\ c.row.retry = IF c.failed THEN row[p].retry + 1 ELSE row[p].retry
    BY <2>4, <2>5, <2>6
  <2>8. [job[j] EXCEPT !.tries = @ + 1].st = job[j].st
        /\ [job[j] EXCEPT !.tries = @ + 1].punch = job[j].punch
        /\ [job[j] EXCEPT !.tries = @ + 1].reply = job[j].reply
    BY <2>3 DEF JobRecord
  <2>9. ASSUME NEW k \in Jobs
        PROVE  /\ Alive(k)' <=> Alive(k)
               /\ Alive(k) => job'[k].punch = job[k].punch
               /\ ~Running(k)'
               /\ job'[k].st = "queued"
                    => job'[k].reply = "none" \/ (/\ job[k].st = "queued"
                                                  /\ job'[k].reply = job[k].reply)
    <3>1. job'[k] = IF k = j /\ ~Running(j) THEN [job[j] EXCEPT !.tries = @ + 1]
                                            ELSE Requeued(k)
      BY <1>2 DEF CrashBetweenCommits
    <3> QED BY <2>8, <3>1, RequeuedJob DEF Alive, Running
  <2>10. /\ sweep' = [s \in Sweeps |-> {}] /\ crashes' = crashes + 1
         /\ UNCHANGED <<dropped, request, acks, old>>
    BY <1>2 DEF CrashBetweenCommits
  <2>11. CrashOf(c.row, c.failed, p)
    BY <2>1, <2>2, <2>7, <2>9, <2>10 DEF CrashOf
  <2> QED BY <2>11
<1> QED BY <1>1, <1>2

------------------------------------------------------------------------------
(* No pending punch is left behind *)

\* What makes PendingIsExplained inductive: a run that loaded a failed row and now
\* stands before a pending one (the URL was removed meanwhile, and another run of
\* the punch has said so) works for a punch already counted as lost, so that the
\* flush of its stale copy may leave the row pending.
PendInv ==
  /\ PendingIsExplained
  /\ \A j \in Jobs :
       Running(j) /\ job[j].snap.sync = "failed" /\ row[job[j].punch].sync = "pending"
         => job[j].punch \in dropped

\* A step that writes no row, starts no run and takes no job from a punch that is
\* not counted as lost.
LEMMA PendInvByJobs ==
  ASSUME PendInv, UNCHANGED row, dropped \subseteq dropped',
         \A p \in Punches :
           request'[p] = "done" /\ (request[p] = "done" => HasJob(p))
             => HasJob(p)' \/ p \in dropped',
         \A k \in Jobs : Running(k)' => /\ Running(k)
                                        /\ job'[k].punch = job[k].punch
                                        /\ job'[k].snap = job[k].snap
  PROVE  PendInv'
<1>1. ASSUME NEW p \in Punches, request'[p] = "done", row'[p].sync = "pending"
      PROVE  HasJob(p)' \/ p \in dropped'
  BY <1>1 DEF PendInv, PendingIsExplained
<1>2. ASSUME NEW k \in Jobs, Running(k)', job'[k].snap.sync = "failed",
             row'[job'[k].punch].sync = "pending"
      PROVE  job'[k].punch \in dropped'
  BY <1>2 DEF PendInv
<1> QED BY <1>1, <1>2 DEF PendInv, PendingIsExplained

\* A run that ends.
LEMMA PendInvByOutcome ==
  ASSUME TypeOK, PendInv, NEW j \in Jobs, NEW r \in Row, NEW failed \in BOOLEAN,
         Outcome(j, r, failed)
  PROVE  PendInv'
<1> DEFINE p == job[j].punch
<1>1. /\ p \in Punches /\ row' = [row EXCEPT ![p] = r] /\ job' = Finished(j)
      /\ dropped \subseteq dropped' /\ request' = request
  BY DEF Outcome, EndRun
<1>2. ~Alive(j)' /\ \A k \in Jobs : k # j => job'[k] = job[k]
  BY <1>1, FinishedJobs
<1>3. row'[p] = r /\ \A q \in Punches : q # p => row'[q] = row[q]
  BY <1>1 DEF TypeOK
<1>4. r.sync = "pending" => p \in dropped'
  <2>1. CASE Running(j) /\ job[j].snap.sync = "failed" /\ row[p].sync = "pending"
    BY <1>1, <2>1 DEF PendInv
  <2> QED BY <2>1 DEF Outcome
<1>5. ASSUME NEW q \in Punches, request'[q] = "done", row'[q].sync = "pending"
      PROVE  HasJob(q)' \/ q \in dropped'
  <2>1. CASE q = p
    BY <1>3, <1>4, <1>5, <2>1
  <2>2. CASE q # p
    <3>1. HasJob(q) \/ q \in dropped
      BY <1>1, <1>3, <1>5, <2>2 DEF PendInv, PendingIsExplained
    <3>2. HasJob(q) => HasJob(q)'
      BY <1>2, <2>2 DEF HasJob, Alive
    <3> QED BY <1>1, <3>1, <3>2
  <2> QED BY <2>1, <2>2
<1>6. ASSUME NEW k \in Jobs, Running(k)', job'[k].snap.sync = "failed",
             row'[job'[k].punch].sync = "pending"
      PROVE  job'[k].punch \in dropped'
  <2>1. k # j /\ job'[k] = job[k] /\ Running(k)
    BY <1>2, <1>6 DEF Running, Alive
  <2>2. job[k].punch \in Punches
    BY <2>1, AliveJob DEF Running
  <2>3. CASE job[k].punch = p
    BY <1>3, <1>4, <1>6, <2>1, <2>3
  <2>4. CASE job[k].punch # p
    BY <1>1, <1>3, <1>6, <2>1, <2>2, <2>4 DEF PendInv
  <2> QED BY <2>3, <2>4
<1> QED BY <1>5, <1>6 DEF PendInv, PendingIsExplained

\* A worker that dies: its jobs are queued again, whatever row was written last.
LEMMA PendInvByCrash ==
  ASSUME TypeOK, PendInv, NEW r, NEW failed, NEW p, CrashOf(r, failed, p)
  PROVE  PendInv'
<1>1. \A k \in Jobs : /\ Alive(k)' <=> Alive(k)
                      /\ Alive(k) => job'[k].punch = job[k].punch
                      /\ ~Running(k)'
  BY DEF CrashOf
<1>2. \A q \in Punches : HasJob(q) <=> HasJob(q)'
  BY <1>1 DEF HasJob
<1>3. UNCHANGED <<dropped, request>>
  BY DEF CrashOf
<1>4. ASSUME NEW q \in Punches, request'[q] = "done", row'[q].sync = "pending"
      PROVE  HasJob(q)' \/ q \in dropped'
  <2>1. CASE row'[q] = row[q]
    BY <1>2, <1>3, <1>4, <2>1 DEF PendInv, PendingIsExplained
  <2>2. CASE row'[q] # row[q]
    <3>1. HasJob(p) /\ row' = [row EXCEPT ![p] = r]
      BY <2>2 DEF CrashOf, HasJob
    <3>2. q = p
      BY <2>2, <3>1 DEF TypeOK
    <3> QED BY <1>2, <3>1, <3>2
  <2> QED BY <2>1, <2>2
<1> QED BY <1>1, <1>4 DEF PendInv, PendingIsExplained

LEMMA PendInvStep == TypeOK /\ PendInv /\ [Next]_vars => PendInv'
<1> SUFFICES ASSUME TypeOK, PendInv, [Next]_vars PROVE PendInv'
  OBVIOUS
<1>0. ASSUME UNCHANGED <<row, job, dropped, request>> PROVE PendInv'
  BY <1>0 DEF PendInv, PendingIsExplained, HasJob, Alive, Running
<1>1. ASSUME NEW p \in Punches, CreatePunch(p) PROVE PendInv'
  <2>1. \A q \in Punches : request'[q] = "done" => request[q] = "done"
    BY <1>1 DEF CreatePunch, TypeOK
  <2> QED BY <1>1, <2>1, PendInvByJobs
          DEF CreatePunch, syncVars, Running, HasJob, Alive
<1>2. ASSUME NEW j \in Jobs, NEW p \in Punches, ~Alive(j),
             job' = [job EXCEPT ![j] = NewJob(p)]
      PROVE  /\ HasJob(p)'
             /\ \A q \in Punches : HasJob(q) => HasJob(q)'
             /\ \A k \in Jobs : Running(k)' => Running(k) /\ job'[k] = job[k]
  <2>1. Alive(j)' /\ job'[j].punch = p /\ ~Running(j)'
    BY <1>2 DEF TypeOK, NewJob, Alive, Running
  <2>2. \A k \in Jobs : k # j => job'[k] = job[k]
    BY <1>2 DEF TypeOK
  <2> QED BY <1>2, <2>1, <2>2 DEF HasJob, Alive, Running
<1>3. ASSUME NEW p \in Punches, Enqueue(p) PROVE PendInv'
  <2>1. PICK j \in Jobs : ~Alive(j) /\ job' = [job EXCEPT ![j] = NewJob(p)]
    BY <1>3 DEF Enqueue
  <2>2. \A q \in Punches : q # p => request'[q] = request[q]
    BY <1>3 DEF Enqueue, TypeOK
  <2>3. UNCHANGED <<row, dropped>>
    BY <1>3 DEF Enqueue
  <2>4. /\ HasJob(p)'
        /\ \A q \in Punches : HasJob(q) => HasJob(q)'
        /\ \A k \in Jobs : Running(k)' => Running(k) /\ job'[k] = job[k]
    BY <1>2, <2>1
  <2> QED BY <2>2, <2>3, <2>4, PendInvByJobs
<1>4. ASSUME NEW p \in Punches, EnqueueFails(p) PROVE PendInv'
  <2>1. \A q \in Punches : q # p => request'[q] = request[q]
    BY <1>4 DEF EnqueueFails, TypeOK
  <2>2. UNCHANGED <<row, job>> /\ dropped' = dropped \union {p}
    BY <1>4 DEF EnqueueFails
  <2>3. \A q \in Punches : HasJob(q) => HasJob(q)'
    BY <2>2 DEF HasJob, Alive
  <2> QED BY <2>1, <2>2, <2>3, PendInvByJobs DEF Running
<1>5. CASE ApiCrash
  <2>1. /\ \A q \in Punches : request'[q] = "done" => request[q] = "done" \/ q \in dropped'
        /\ UNCHANGED <<row, job>> /\ dropped \subseteq dropped'
    BY <1>5 DEF ApiCrash
  <2>2. \A q \in Punches : HasJob(q) => HasJob(q)'
    BY <2>1 DEF HasJob, Alive
  <2> QED BY <2>1, <2>2, PendInvByJobs DEF Running
<1>6. ASSUME NEW j \in Jobs, Ends(j) PROVE PendInv'
  BY <1>6, EveryEndIsAnOutcome, PendInvByOutcome
<1>7. ASSUME NEW j \in Jobs, RunPush(j) PROVE PendInv'
  <2>1. PICK st \in {"registering", "posting"} :
          job' = [job EXCEPT ![j].st = st, ![j].tries = @ + 1, ![j].reply = "none",
                             ![j].snap = SnapshotOf(job[j].punch)]
    BY <1>7 DEF RunPush
  <2>2. Alive(j) /\ job[j] \in JobRecord
    BY <1>7, AliveJob DEF RunPush, CanStart, Alive
  <2>3. /\ job'[j].snap = SnapshotOf(job[j].punch)
        /\ job'[j].punch = job[j].punch /\ Alive(j)'
        /\ \A k \in Jobs : k # j => job'[k] = job[k]
    BY <2>1, <2>2 DEF TypeOK, JobRecord, Alive
  <2>4. UNCHANGED <<row, dropped, request>>
    BY <1>7 DEF RunPush
  <2>5. \A q \in Punches : HasJob(q) => HasJob(q)'
    BY <2>2, <2>3 DEF HasJob, Alive
  <2>6. PendingIsExplained'
    BY <2>4, <2>5 DEF PendInv, PendingIsExplained
  <2>7. ASSUME NEW k \in Jobs, Running(k)', job'[k].snap.sync = "failed",
               row'[job'[k].punch].sync = "pending"
        PROVE  job'[k].punch \in dropped'
    <3>1. CASE k = j
      BY <2>3, <2>4, <2>7, <3>1 DEF SnapshotOf
    <3>2. CASE k # j
      BY <2>3, <2>4, <2>7, <3>2 DEF PendInv, Running
    <3> QED BY <3>1, <3>2
  <2> QED BY <2>6, <2>7 DEF PendInv
<1>8. ASSUME NEW j \in Jobs, Registered(j) \/ AdmsAccepts(j) \/ AdmsRefuses(j)
      PROVE  PendInv'
  <2>1. Running(j) /\ job[j] \in JobRecord
    BY <1>8, AliveJob DEF Registered, AdmsAccepts, AdmsRefuses, Running
  <2>2. /\ job'[j].punch = job[j].punch /\ job'[j].snap = job[j].snap /\ Alive(j)'
        /\ \A k \in Jobs : k # j => job'[k] = job[k]
    BY <1>8, <2>1 DEF Registered, AdmsAccepts, AdmsRefuses, TypeOK, JobRecord, Alive
  <2>3. \A q \in Punches : HasJob(q) => HasJob(q)'
    BY <2>1, <2>2 DEF HasJob, Alive
  <2>4. UNCHANGED <<row, dropped, request>>
    BY <1>8 DEF Registered, AdmsAccepts, AdmsRefuses
  <2>5. \A k \in Jobs : Running(k)' => /\ Running(k)
                                       /\ job'[k].punch = job[k].punch
                                       /\ job'[k].snap = job[k].snap
    BY <2>1, <2>2 DEF Running
  <2> QED BY <2>3, <2>4, <2>5, PendInvByJobs
<1>9. ASSUME NEW j \in Jobs, RunAborted(j) \/ TriesExhausted(j) \/ JobExpires(j)
      PROVE  PendInv'
  <2>1. job' = Finished(j) /\ dropped' = dropped \union {job[j].punch}
    BY <1>9 DEF RunAborted, TriesExhausted, JobExpires
  <2>2. UNCHANGED <<row, request>>
    BY <1>9 DEF RunAborted, TriesExhausted, JobExpires
  <2>3. ~Alive(j)' /\ \A k \in Jobs : k # j => job'[k] = job[k]
    BY <2>1, FinishedJobs
  <2>4. \A q \in Punches : HasJob(q) => HasJob(q)' \/ q \in dropped'
    BY <2>1, <2>3 DEF HasJob, Alive
  <2>5. \A k \in Jobs : Running(k)' => Running(k) /\ job'[k] = job[k]
    BY <2>3 DEF Running, Alive
  <2> QED BY <2>1, <2>2, <2>4, <2>5, PendInvByJobs
<1>10. ASSUME WorkerCrash \/ \E j \in Jobs : CrashBetweenCommits(j) PROVE PendInv'
  BY <1>10, EveryCrashIsOne, PendInvByCrash
<1>11. ASSUME NEW s \in Sweeps, SweepStart(s) PROVE PendInv'
  BY <1>0, <1>11 DEF SweepStart, syncVars
<1>12. ASSUME NEW s \in Sweeps, NEW p \in Punches, SweepEnqueue(s, p) PROVE PendInv'
  <2>1. PICK j \in Jobs : ~Alive(j) /\ job' = [job EXCEPT ![j] = NewJob(p)]
    BY <1>12 DEF SweepEnqueue
  <2>2. UNCHANGED <<row, dropped, request>>
    BY <1>12 DEF SweepEnqueue
  <2>3. /\ \A q \in Punches : HasJob(q) => HasJob(q)'
        /\ \A k \in Jobs : Running(k)' => Running(k) /\ job'[k] = job[k]
    BY <1>2, <2>1
  <2> QED BY <2>2, <2>3, PendInvByJobs
<1>13. CASE CleanupStale
  <2>1. \A p \in Punches : [row[p] EXCEPT !.sync = "stale"].sync = "stale"
    BY DEF TypeOK, Row
  <2>2. \A p \in Punches : row'[p].sync = "pending" => row'[p] = row[p]
    BY <1>13, <2>1 DEF CleanupStale
  <2>3. UNCHANGED <<job, dropped, request>>
    BY <1>13 DEF CleanupStale
  <2>4. \A q \in Punches : HasJob(q) <=> HasJob(q)'
    BY <2>3 DEF HasJob, Alive
  <2>5. \A k \in Jobs : Running(k) => job[k].punch \in Punches
    BY AliveJob DEF Running
  <2> QED BY <2>2, <2>3, <2>4, <2>5 DEF PendInv, PendingIsExplained, Running
<1>14. CASE Environment
  BY <1>0, <1>10, <1>14
  DEF Environment, GrowOld, ChangeEmployeeType, ChangeServerUrl, syncVars
<1>15. CASE UNCHANGED vars
  BY <1>0, <1>15 DEF vars
<1> QED
  BY <1>1, <1>3, <1>4, <1>5, <1>6, <1>7, <1>8, <1>9, <1>10, <1>11, <1>12, <1>13,
     <1>14, <1>15
  DEF Next, Api, Run, Adms, Cron, SweepRaises, Ends

LEMMA PendCorrect == Spec => []PendInv
<1>1. Init => PendInv
  BY DEF Init, PendInv, PendingIsExplained, NoJob, Running
<1> QED BY <1>1, PendInvStep, TypeCorrect, PTL DEF Spec

\* A committed punch that is still pending has its request under way, a job alive
\* or a recorded loss, whatever the API, the worker, ARQ and overlapping sweeps do.
THEOREM PendingExplained == Spec => []PendingIsExplained
<1>1. PendInv => PendingIsExplained
  BY DEF PendInv
<1> QED BY <1>1, PendCorrect, PTL

------------------------------------------------------------------------------
(* Jobs wear out *)

\* What a job has left: three stages for each try ARQ still grants it.
Rank(j) == 3 * (MaxTries - job[j].tries)
             + (IF job[j].st = "registering" THEN 2 ELSE IF job[j].st = "posting" THEN 1 ELSE 0)

TriesCounted == \A j \in Jobs : Alive(j) => job[j].tries <= MaxTries

\* The job goes no step back, and each step of its own uses up something.
WearsOut(j) == /\ job'[j].punch = job[j].punch /\ job'[j].tries \in Nat
               /\ job'[j].tries <= MaxTries
               /\ Rank(j)' <= Rank(j)
               /\ job'[j].st # job[j].st => Rank(j)' < Rank(j)

JobStep == \A j \in Jobs : Alive(j) => ~Alive(j)' \/ WearsOut(j)

LEMMA JobsWearOut == TypeOK /\ TriesCounted /\ [Next]_vars => JobStep /\ TriesCounted'
<1> SUFFICES ASSUME TypeOK, TriesCounted, [Next]_vars PROVE JobStep /\ TriesCounted'
  OBVIOUS
<1>0. MaxTries \in Nat
  BY LimitsAreNat
<1>1. \A j \in Jobs : Alive(j) => /\ job[j] \in JobRecord
                                 /\ job[j].tries \in Nat /\ job[j].tries <= MaxTries
  BY AliveJob DEF Alive, TriesCounted
<1>2. ASSUME NEW j \in Jobs, Alive(j), job'[j] = job[j] PROVE WearsOut(j)
  BY <1>0, <1>1, <1>2 DEF WearsOut, Rank
<1>3. ASSUME \A j \in Jobs : Alive(j)' => Alive(j) /\ WearsOut(j)
      PROVE  JobStep /\ TriesCounted'
  BY <1>3 DEF JobStep, TriesCounted, WearsOut
<1>4. ASSUME job' = job PROVE JobStep /\ TriesCounted'
  BY <1>2, <1>3, <1>4 DEF Alive
<1>5. ASSUME NEW p \in Punches, NEW j \in Jobs, ~Alive(j), job' = [job EXCEPT ![j] = NewJob(p)]
      PROVE  JobStep /\ TriesCounted'
  <2>1. job'[j].tries = 0 /\ \A k \in Jobs : k # j => job'[k] = job[k]
    BY <1>5 DEF TypeOK, NewJob
  <2>2. \A k \in Jobs : Alive(k) => job'[k] = job[k]
    BY <1>5, <2>1
  <2>3. JobStep
    BY <1>2, <2>2 DEF JobStep
  <2> QED BY <1>0, <2>1, <2>3 DEF TriesCounted, Alive
<1>6. ASSUME NEW j \in Jobs, job' = Finished(j) PROVE JobStep /\ TriesCounted'
  BY <1>2, <1>3, <1>6, FinishedJobs DEF Alive
<1>7. ASSUME NEW j \in Jobs, Ends(j) PROVE JobStep /\ TriesCounted'
  BY <1>6, <1>7, EveryEndIsAnOutcome DEF Outcome, EndRun
<1>8. ASSUME NEW j \in Jobs, RunAborted(j) \/ TriesExhausted(j) \/ JobExpires(j)
      PROVE  JobStep /\ TriesCounted'
  BY <1>6, <1>8 DEF RunAborted, TriesExhausted, JobExpires
<1>9. ASSUME NEW j \in Jobs, RunPush(j) \/ Registered(j) \/ AdmsAccepts(j) \/ AdmsRefuses(j)
      PROVE  JobStep /\ TriesCounted'
  <2>1. Alive(j) /\ \A k \in Jobs : k # j => job'[k] = job[k]
    BY <1>9 DEF RunPush, CanStart, Registered, AdmsAccepts, AdmsRefuses, TypeOK, Alive
  <2>2. WearsOut(j)
    <3>1. CASE RunPush(j)
      <4>1. /\ job'[j].punch = job[j].punch /\ job'[j].tries = job[j].tries + 1
            /\ job'[j].st \in {"registering", "posting"}
            /\ job[j].st = "queued" /\ job[j].tries < MaxTries
        BY <1>1, <2>1, <3>1 DEF RunPush, CanStart, TypeOK, JobRecord
      <4> QED BY <1>0, <1>1, <2>1, <4>1 DEF WearsOut, Rank
    <3>2. CASE Registered(j) \/ AdmsAccepts(j) \/ AdmsRefuses(j)
      <4>1. /\ job'[j].punch = job[j].punch /\ job'[j].tries = job[j].tries
            /\ job'[j].st = "posting" /\ job[j].st \in {"registering", "posting"}
        BY <1>1, <2>1, <3>2 DEF Registered, AdmsAccepts, AdmsRefuses, TypeOK, JobRecord
      <4> QED BY <1>0, <1>1, <2>1, <4>1 DEF WearsOut, Rank
    <3> QED BY <1>9, <3>1, <3>2
  <2> QED BY <1>2, <1>3, <2>1, <2>2 DEF Alive
<1>10. ASSUME NEW k \in Jobs, Alive(k), job'[k] = Requeued(k) PROVE WearsOut(k)
  <2>1. CASE ~Running(k)
    BY <1>2, <1>10, <2>1 DEF Requeued
  <2>2. CASE Running(k)
    <3>1. /\ job'[k].punch = job[k].punch /\ job'[k].tries = job[k].tries
          /\ job'[k].st = "queued"
      BY <1>10, <2>2 DEF Requeued, NewJob
    <3> QED BY <1>0, <1>1, <1>10, <2>2, <3>1 DEF WearsOut, Rank, Running
  <2> QED BY <2>1, <2>2
<1>11. CASE WorkerCrash
  <2>1. \A k \in Jobs : job'[k] = Requeued(k)
    BY <1>11 DEF WorkerCrash
  <2>2. \A k \in Jobs : Alive(k)' => Alive(k)
    BY <2>1, RequeuedJob DEF Alive
  <2> QED BY <1>3, <1>10, <2>1, <2>2
<1>12. ASSUME NEW j \in Jobs, CrashBetweenCommits(j) PROVE JobStep /\ TriesCounted'
  <2>1. \A k \in Jobs : job'[k] = IF k = j /\ ~Running(j) THEN [job[j] EXCEPT !.tries = @ + 1]
                                                        ELSE Requeued(k)
    BY <1>12 DEF CrashBetweenCommits
  <2>2. ~Running(j) => CanStart(j)
    BY <1>12 DEF CrashBetweenCommits, InnerCommits, Running
  <2>3. ~Running(j) => Alive(j) /\ WearsOut(j)
    <3> SUFFICES ASSUME ~Running(j) PROVE Alive(j) /\ WearsOut(j)
      OBVIOUS
    <3>1. job[j].st = "queued" /\ job[j].tries < MaxTries /\ Alive(j)
      BY <2>2 DEF CanStart, Alive
    <3>2. /\ job'[j].punch = job[j].punch /\ job'[j].tries = job[j].tries + 1
          /\ job'[j].st = job[j].st
      BY <1>1, <2>1, <3>1 DEF JobRecord
    <3> QED BY <1>0, <1>1, <3>1, <3>2 DEF WearsOut, Rank
  <2>4. \A k \in Jobs : Alive(k)' => Alive(k)
    BY <2>1, <2>3, RequeuedJob DEF Alive
  <2>5. \A k \in Jobs : Alive(k) => WearsOut(k)
    BY <1>10, <2>1, <2>3
  <2> QED BY <1>3, <2>4, <2>5
<1>13. CASE \/ \E p \in Punches : CreatePunch(p) \/ EnqueueFails(p) \/ GrowOld(p)
            \/ ApiCrash \/ (\E s \in Sweeps : SweepStart(s)) \/ SweepRaises \/ CleanupStale
            \/ (\E e \in Employees : ChangeEmployeeType(e)) \/ ChangeServerUrl \/ UNCHANGED vars
  <2>1. job' = job
    BY <1>13 DEF CreatePunch, EnqueueFails, GrowOld, ApiCrash, SweepStart, SweepRaises,
                 CleanupStale, ChangeEmployeeType, ChangeServerUrl, syncVars, vars
  <2> QED BY <1>4, <2>1
<1>14. ASSUME NEW p \in Punches, Enqueue(p) \/ \E s \in Sweeps : SweepEnqueue(s, p)
       PROVE  JobStep /\ TriesCounted'
  BY <1>5, <1>14 DEF Enqueue, SweepEnqueue
<1> QED
  BY <1>7, <1>8, <1>9, <1>11, <1>12, <1>13, <1>14
  DEF Next, Api, Run, Adms, Cron, Environment, Ends

\* The part of EverySettled that is about steps. A job never goes back: a stage of its
\* run, a crash in the middle of it and a crash that cuts off its commits each use up
\* some of the 3 * MaxTries its rank begins with, so that fairness, which lets it take
\* its next step, ends it; PendingExplained says what has become of its punch then.
THEOREM JobsAreFinite == Spec => [][JobStep]_vars /\ []TriesCounted
<1>1. Init => TriesCounted
  BY DEF Init, TriesCounted, Alive, NoJob
<1>2. TypeOK /\ TriesCounted /\ [Next]_vars => [JobStep]_vars /\ TriesCounted'
  BY JobsWearOut
<1> QED BY <1>1, <1>2, TypeCorrect, PTL DEF Spec

------------------------------------------------------------------------------
(* The worker as configured: no "pool" in the ctx, so no sweep enqueues *)

\* A job belongs to one punch whose request is over, and is its only one; what is
\* queued has no reply; only punches of finished requests grow old.
SoloJobs ==
  /\ \A j \in Jobs : Alive(j) => request[job[j].punch] = "done" /\ job[j].punch \notin old
  /\ \A j, k \in Jobs : Alive(j) /\ Alive(k) /\ job[j].punch = job[k].punch => j = k
  /\ \A j \in Jobs : job[j].st = "queued" => job[j].reply = "none"
  /\ old \subseteq {p \in Punches : request[p] = "done"}

\* Nobody writes the row between a run's load and its commits: the copy is exact.
SoloCopies == \A j \in Jobs : Running(j) => job[j].snap = SnapshotOf(job[j].punch)

\* A job without an "OK" has one acknowledgement to spare for its own post.
SoloAcks ==
  /\ \A j \in Jobs : Alive(j) /\ job[j].reply # "ok" => acks[job[j].punch] <= crashes
  /\ DuplicatesNeedCrashes

\* What has not been enqueued is untouched, and a settled row has a job only if a
\* worker died after writing it.
SoloRows ==
  /\ \A p \in Punches : request[p] # "done" => acks[p] = 0 /\ row[p].sync = "pending"
  /\ \A j \in Jobs : Alive(j) => row[job[j].punch].sync = "pending" \/ crashes > 0

SoloInv == /\ \A s \in Sweeps : sweep[s] = {}
           /\ SoloJobs /\ SoloCopies /\ SoloAcks /\ SoloRows
           /\ RetryIsExact

\* A step that starts no job, writes no row, acknowledges nothing and takes no copy.
LEMMA SoloInvByJobs ==
  ASSUME TypeOK, SoloInv, UNCHANGED <<row, failures, sweep, acks, crashes, old>>,
         \A p \in Punches : request[p] = "done" => request'[p] = "done",
         \A k \in Jobs : Alive(k)' => /\ Alive(k)
                                      /\ job'[k].punch = job[k].punch
                                      /\ job'[k].snap = job[k].snap
                                      /\ job'[k].st = "queued" => job[k].st = "queued"
                                      /\ Running(k)' => Running(k)
                                      /\ \/ job'[k].reply = job[k].reply
                                         \/ /\ job[k].reply = "none"
                                            /\ job'[k].st # "queued"
  PROVE  SoloInv'
<1>1. \A k \in Jobs : Alive(k) => job[k].punch \in Punches
  BY AliveJob DEF Alive
<1>2. SoloJobs'
  <2>1. \A k \in Jobs : Alive(k)' =>
          request'[job'[k].punch] = "done" /\ job'[k].punch \notin old'
    BY <1>1 DEF SoloInv, SoloJobs
  <2>2. \A j, k \in Jobs :
          Alive(j)' /\ Alive(k)' /\ job'[j].punch = job'[k].punch => j = k
    BY DEF SoloInv, SoloJobs
  <2>3. \A k \in Jobs : job'[k].st = "queued" => job'[k].reply = "none"
    BY DEF SoloInv, SoloJobs, Alive
  <2>4. old' \subseteq {p \in Punches : request'[p] = "done"}
    BY DEF SoloInv, SoloJobs
  <2> QED BY <2>1, <2>2, <2>3, <2>4 DEF SoloJobs
<1>3. SoloCopies'
  BY DEF SoloInv, SoloCopies, SnapshotOf, Running, Alive
<1>4. SoloAcks'
  BY DEF SoloInv, SoloAcks, DuplicatesNeedCrashes
<1>5. SoloRows'
  BY DEF SoloInv, SoloRows
<1> QED BY <1>2, <1>3, <1>4, <1>5 DEF SoloInv, RetryIsExact

\* A run that ends: its copy was exact, so is the count it writes.
LEMMA SoloInvByOutcome ==
  ASSUME TypeOK, SoloInv, NEW j \in Jobs, NEW r \in Row, NEW failed \in BOOLEAN,
         Outcome(j, r, failed)
  PROVE  SoloInv'
<1> DEFINE p == job[j].punch
<1>1. /\ p \in Punches /\ Alive(j) /\ row' = [row EXCEPT ![p] = r] /\ job' = Finished(j)
      /\ failures' = IF failed THEN [failures EXCEPT ![p] = @ + 1] ELSE failures
      /\ UNCHANGED <<request, sweep, acks, old, crashes>>
  BY DEF Outcome, EndRun, envVars
<1>2. ~Alive(j)' /\ \A k \in Jobs : k # j => job'[k] = job[k]
  BY <1>1, FinishedJobs
<1>3. row'[p] = r /\ \A q \in Punches : q # p => row'[q] = row[q]
  BY <1>1 DEF TypeOK
<1>4. \A k \in Jobs : Alive(k)' => /\ Alive(k) /\ job'[k] = job[k]
                                   /\ job[k].punch \in Punches /\ job[k].punch # p
                                   /\ row'[job[k].punch] = row[job[k].punch]
  <2> TAKE k \in Jobs
  <2> HAVE Alive(k)'
  <2>1. k # j /\ job'[k] = job[k] /\ Alive(k)
    BY <1>2 DEF Alive
  <2>2. job[k].punch # p
    BY <1>1, <2>1 DEF SoloInv, SoloJobs
  <2>3. job[k].punch \in Punches
    BY <2>1, AliveJob DEF Alive
  <2> QED BY <1>3, <2>1, <2>2, <2>3
<1>5. SoloJobs'
  <2>1. \A k \in Jobs : Alive(k)' =>
          request'[job'[k].punch] = "done" /\ job'[k].punch \notin old'
    BY <1>1, <1>4 DEF SoloInv, SoloJobs
  <2>2. \A i, k \in Jobs :
          Alive(i)' /\ Alive(k)' /\ job'[i].punch = job'[k].punch => i = k
    BY <1>4 DEF SoloInv, SoloJobs
  <2>3. \A k \in Jobs : job'[k].st = "queued" => job'[k].reply = "none"
    BY <1>4 DEF SoloInv, SoloJobs, Alive
  <2>4. old' \subseteq {q \in Punches : request'[q] = "done"}
    BY <1>1 DEF SoloInv, SoloJobs
  <2> QED BY <2>1, <2>2, <2>3, <2>4 DEF SoloJobs
<1>6. SoloCopies'
  <2>1. \A k \in Jobs : Running(k)' => Alive(k)' /\ Running(k)
    BY <1>4 DEF Running, Alive
  <2> QED BY <1>4, <2>1 DEF SoloInv, SoloCopies, SnapshotOf
<1>7. SoloAcks'
  BY <1>1, <1>4 DEF SoloInv, SoloAcks, DuplicatesNeedCrashes
<1>8. SoloRows'
  <2>1. request[p] = "done"
    BY <1>1 DEF SoloInv, SoloJobs
  <2> QED BY <1>1, <1>3, <1>4, <2>1 DEF SoloInv, SoloRows
<1>9. RetryIsExact'
  <2>1. SnapOf(j).retry = row[p].retry
    <3>1. Running(j) \/ job[j].st = "queued"
      BY <1>1, AliveJob DEF Alive, Running, JobRecord
    <3>2. SnapOf(j) = SnapshotOf(p)
      BY <3>1 DEF SnapOf, Running, SoloInv, SoloCopies
    <3> QED BY <3>2 DEF SnapshotOf
  <2>2. r.retry = IF failed THEN row[p].retry + 1 ELSE row[p].retry
    BY <2>1 DEF Outcome
  <2>3. /\ failures'[p] = IF failed THEN failures[p] + 1 ELSE failures[p]
        /\ \A q \in Punches : q # p => failures'[q] = failures[q]
    BY <1>1 DEF TypeOK
  <2> QED BY <1>3, <2>2, <2>3 DEF SoloInv, RetryIsExact
<1> QED BY <1>1, <1>5, <1>6, <1>7, <1>8, <1>9 DEF SoloInv

\* A worker that dies pays for one more acknowledgement and one rewritten row.
LEMMA SoloInvByCrash ==
  ASSUME TypeOK, SoloInv, NEW r, NEW failed, NEW p, CrashOf(r, failed, p)
  PROVE  SoloInv'
<1>1. \A k \in Jobs : /\ Alive(k)' <=> Alive(k)
                      /\ Alive(k) => job'[k].punch = job[k].punch
                      /\ ~Running(k)'
                      /\ job'[k].st = "queued"
                           => job'[k].reply = "none" \/ (/\ job[k].st = "queued"
                                                         /\ job'[k].reply = job[k].reply)
  BY DEF CrashOf
<1>2. /\ sweep' = [s \in Sweeps |-> {}] /\ crashes' = crashes + 1
      /\ UNCHANGED <<request, acks, old>>
  BY DEF CrashOf
<1>3. crashes \in Nat /\ \A q \in Punches : acks[q] \in Nat
  BY DEF TypeOK
<1>4. SoloJobs'
  <2>1. \A k \in Jobs : Alive(k)' =>
          request'[job'[k].punch] = "done" /\ job'[k].punch \notin old'
    BY <1>1, <1>2 DEF SoloInv, SoloJobs
  <2>2. \A i, k \in Jobs :
          Alive(i)' /\ Alive(k)' /\ job'[i].punch = job'[k].punch => i = k
    BY <1>1 DEF SoloInv, SoloJobs
  <2>3. \A k \in Jobs : job'[k].st = "queued" => job'[k].reply = "none"
    BY <1>1 DEF SoloInv, SoloJobs
  <2>4. old' \subseteq {q \in Punches : request'[q] = "done"}
    BY <1>2 DEF SoloInv, SoloJobs
  <2> QED BY <2>1, <2>2, <2>3, <2>4 DEF SoloJobs
<1>5. SoloCopies'
  BY <1>1 DEF SoloCopies
<1>6. DuplicatesNeedCrashes /\ DuplicatesNeedCrashes'
  BY <1>2, <1>3 DEF SoloInv, SoloAcks, DuplicatesNeedCrashes
<1>7. ASSUME NEW k \in Jobs, Alive(k)'
      PROVE  acks'[job'[k].punch] <= crashes' /\ crashes' > 0
  <2>1. Alive(k) /\ job'[k].punch = job[k].punch /\ job[k].punch \in Punches
    BY <1>1, <1>7, AliveJob DEF Alive
  <2> QED BY <1>2, <1>3, <1>6, <2>1 DEF DuplicatesNeedCrashes
<1>8. SoloAcks'
  BY <1>6, <1>7 DEF SoloAcks
<1>9. \/ UNCHANGED <<row, failures>>
      \/ /\ HasJob(p) /\ r \in Row /\ failed \in BOOLEAN
         /\ row' = [row EXCEPT ![p] = r]
         /\ failures' = IF failed THEN [failures EXCEPT ![p] = @ + 1] ELSE failures
         /\ r.retry = IF failed THEN row[p].retry + 1 ELSE row[p].retry
  BY DEF CrashOf, HasJob
<1>10. HasJob(p) => request[p] = "done"
  BY DEF HasJob, SoloInv, SoloJobs
<1>11. \A q \in Punches : request[q] # "done" => row'[q] = row[q]
  BY <1>9, <1>10 DEF TypeOK
<1>12. SoloRows'
  BY <1>2, <1>7, <1>11 DEF SoloInv, SoloRows
<1>13. RetryIsExact'
  <2>1. CASE UNCHANGED <<row, failures>>
    BY <2>1 DEF SoloInv, RetryIsExact
  <2>2. CASE /\ HasJob(p) /\ r \in Row /\ failed \in BOOLEAN
             /\ row' = [row EXCEPT ![p] = r]
             /\ failures' = IF failed THEN [failures EXCEPT ![p] = @ + 1] ELSE failures
             /\ r.retry = IF failed THEN row[p].retry + 1 ELSE row[p].retry
    <3>1. p \in Punches
      BY <2>2, AliveJob DEF HasJob, Alive
    <3>2. row'[p] = r /\ \A q \in Punches : q # p => row'[q] = row[q]
      BY <2>2, <3>1 DEF TypeOK
    <3>3. /\ failures'[p] = IF failed THEN failures[p] + 1 ELSE failures[p]
          /\ \A q \in Punches : q # p => failures'[q] = failures[q]
      BY <2>2, <3>1 DEF TypeOK
    <3> QED BY <2>2, <3>1, <3>2, <3>3 DEF SoloInv, RetryIsExact
  <2> QED BY <1>9, <2>1, <2>2
<1> QED BY <1>2, <1>4, <1>5, <1>8, <1>12, <1>13 DEF SoloInv

LEMMA SoloInvStep ==
  ASSUME "pool" \notin CtxKeys
  PROVE  TypeOK /\ SoloInv /\ [Next]_vars => SoloInv'
<1> SUFFICES ASSUME TypeOK, SoloInv, [Next]_vars PROVE SoloInv'
  OBVIOUS
<1>0. ASSUME UNCHANGED <<row, job, failures, request, sweep, acks, crashes, old>>
      PROVE  SoloInv'
  BY <1>0 DEF SoloInv, SoloJobs, SoloCopies, SoloAcks, SoloRows, RetryIsExact,
              DuplicatesNeedCrashes, Alive, Running, SnapshotOf
<1>1. ASSUME NEW p \in Punches, CreatePunch(p) PROVE SoloInv'
  <2>1. /\ \A q \in Punches : request'[q] = "done" <=> request[q] = "done"
        /\ UNCHANGED <<job, row, failures, sweep, acks, crashes, old>>
    BY <1>1 DEF CreatePunch, TypeOK, syncVars, envVars
  <2>2. \A k \in Jobs : Alive(k)' => Alive(k) /\ (Running(k)' => Running(k))
    BY <2>1 DEF Alive, Running
  <2> QED BY <2>1, <2>2, SoloInvByJobs
<1>2. ASSUME NEW p \in Punches, Enqueue(p) PROVE SoloInv'
  <2>1. PICK j \in Jobs : ~Alive(j) /\ job' = [job EXCEPT ![j] = NewJob(p)]
    BY <1>2 DEF Enqueue
  <2>2. /\ job'[j] = NewJob(p) /\ \A k \in Jobs : k # j => job'[k] = job[k]
        /\ NewJob(p).st = "queued" /\ NewJob(p).punch = p /\ NewJob(p).reply = "none"
    BY <2>1 DEF TypeOK, NewJob
  <2>3. /\ request[p] = "committed" /\ request'[p] = "done"
        /\ \A q \in Punches : q # p => request'[q] = request[q]
        /\ UNCHANGED <<row, failures, sweep, acks, crashes, old>>
    BY <1>2 DEF Enqueue, TypeOK, envVars
  <2>4. \A k \in Jobs : Alive(k) => /\ job[k].punch \in Punches /\ k # j
                                    /\ job[k].punch # p /\ job'[k] = job[k]
    BY <2>1, <2>2, <2>3, AliveJob DEF Alive, SoloInv, SoloJobs
  <2>5. \A k \in Jobs : Alive(k)' => k = j \/ Alive(k)
    BY <2>2 DEF Alive
  <2>6. p \notin old
    BY <2>3 DEF SoloInv, SoloJobs
  <2>7. SoloJobs'
    <3>1. \A k \in Jobs : Alive(k)' =>
            request'[job'[k].punch] = "done" /\ job'[k].punch \notin old'
      BY <2>2, <2>3, <2>4, <2>5, <2>6 DEF SoloInv, SoloJobs
    <3>2. \A i, k \in Jobs :
            Alive(i)' /\ Alive(k)' /\ job'[i].punch = job'[k].punch => i = k
      BY <2>2, <2>4, <2>5 DEF SoloInv, SoloJobs
    <3>3. \A k \in Jobs : job'[k].st = "queued" => job'[k].reply = "none"
      BY <2>2 DEF SoloInv, SoloJobs
    <3>4. old' \subseteq {q \in Punches : request'[q] = "done"}
      BY <2>3 DEF SoloInv, SoloJobs
    <3> QED BY <3>1, <3>2, <3>3, <3>4 DEF SoloJobs
  <2>8. SoloCopies'
    <3>1. \A k \in Jobs : Running(k)' => Running(k) /\ job'[k] = job[k]
      BY <2>2 DEF Running
    <3> QED BY <2>3, <3>1 DEF SoloInv, SoloCopies, SnapshotOf
  <2>9. acks[p] = 0 /\ row[p].sync = "pending" /\ crashes \in Nat
    BY <2>3 DEF SoloInv, SoloRows, TypeOK
  <2>10. SoloAcks'
    BY <2>2, <2>3, <2>4, <2>5, <2>9 DEF SoloInv, SoloAcks, DuplicatesNeedCrashes
  <2>11. SoloRows'
    BY <2>2, <2>3, <2>4, <2>5, <2>9 DEF SoloInv, SoloRows
  <2> QED BY <2>3, <2>7, <2>8, <2>10, <2>11 DEF SoloInv, RetryIsExact
<1>3. ASSUME NEW p \in Punches, EnqueueFails(p) PROVE SoloInv'
  <2>1. /\ \A q \in Punches : request[q] = "done" => request'[q] = "done"
        /\ UNCHANGED <<job, row, failures, sweep, acks, crashes, old>>
    BY <1>3 DEF EnqueueFails, TypeOK, envVars
  <2>2. \A k \in Jobs : Alive(k)' => Alive(k) /\ (Running(k)' => Running(k))
    BY <2>1 DEF Alive, Running
  <2> QED BY <2>1, <2>2, SoloInvByJobs
<1>4. CASE ApiCrash
  <2>1. /\ \A q \in Punches : request[q] = "done" => request'[q] = "done"
        /\ UNCHANGED <<job, row, failures, sweep, acks, crashes, old>>
    BY <1>4 DEF ApiCrash, envVars
  <2>2. \A k \in Jobs : Alive(k)' => Alive(k) /\ (Running(k)' => Running(k))
    BY <2>1 DEF Alive, Running
  <2> QED BY <2>1, <2>2, SoloInvByJobs
<1>5. ASSUME NEW j \in Jobs, Ends(j) PROVE SoloInv'
  BY <1>5, EveryEndIsAnOutcome, SoloInvByOutcome
<1>6. ASSUME NEW j \in Jobs, RunPush(j) PROVE SoloInv'
  <2>1. PICK st \in {"registering", "posting"} :
          job' = [job EXCEPT ![j].st = st, ![j].tries = @ + 1, ![j].reply = "none",
                             ![j].snap = SnapshotOf(job[j].punch)]
    BY <1>6 DEF RunPush
  <2>2. /\ Alive(j) /\ job[j].st = "queued"
        /\ job[j] \in JobRecord /\ job[j].punch \in Punches
    BY <1>6, AliveJob DEF RunPush, CanStart, Alive
  <2>3. /\ job'[j].snap = SnapshotOf(job[j].punch) /\ job'[j].punch = job[j].punch
        /\ job'[j].reply = "none" /\ job'[j].st = st
        /\ \A k \in Jobs : k # j => job'[k] = job[k]
    BY <2>1, <2>2 DEF TypeOK, JobRecord
  <2>4. UNCHANGED <<row, failures, request, sweep, acks, crashes, old>>
    BY <1>6 DEF RunPush, envVars
  <2>5. \A k \in Jobs : /\ Alive(k)' => Alive(k) /\ job'[k].punch = job[k].punch
                        /\ job'[k].reply = job[k].reply
                        /\ job'[k].st = "queued" => job[k].st = "queued"
    BY <2>2, <2>3 DEF Alive, SoloInv, SoloJobs
  <2>6. SoloJobs'
    BY <2>4, <2>5 DEF SoloInv, SoloJobs
  <2>7. SoloCopies'
    BY <2>2, <2>3, <2>4 DEF SoloInv, SoloCopies, SnapshotOf, Running
  <2>8. SoloAcks'
    BY <2>4, <2>5 DEF SoloInv, SoloAcks, DuplicatesNeedCrashes
  <2>9. SoloRows'
    BY <2>4, <2>5 DEF SoloInv, SoloRows
  <2> QED BY <2>4, <2>6, <2>7, <2>8, <2>9 DEF SoloInv, RetryIsExact
<1>7. ASSUME NEW j \in Jobs, Registered(j) \/ AdmsRefuses(j) PROVE SoloInv'
  <2>1. Running(j) /\ job[j] \in JobRecord
    BY <1>7, AliveJob DEF Registered, AdmsRefuses, Running
  <2>2. /\ job'[j].punch = job[j].punch /\ job'[j].snap = job[j].snap
        /\ job'[j].st = "posting"
        /\ job'[j].reply = job[j].reply \/ job[j].reply = "none"
        /\ \A k \in Jobs : k # j => job'[k] = job[k]
    BY <1>7, <2>1 DEF Registered, AdmsRefuses, TypeOK, JobRecord
  <2>3. UNCHANGED <<row, failures, request, sweep, acks, crashes, old>>
    BY <1>7 DEF Registered, AdmsRefuses, envVars
  <2>4. \A k \in Jobs : Alive(k)' => /\ Alive(k)
                                     /\ job'[k].punch = job[k].punch
                                     /\ job'[k].snap = job[k].snap
                                     /\ job'[k].st = "queued" => job[k].st = "queued"
                                     /\ Running(k)' => Running(k)
                                     /\ \/ job'[k].reply = job[k].reply
                                        \/ /\ job[k].reply = "none"
                                           /\ job'[k].st # "queued"
    BY <2>1, <2>2 DEF Alive, Running
  <2> QED BY <2>3, <2>4, SoloInvByJobs
<1>8. ASSUME NEW j \in Jobs, AdmsAccepts(j) PROVE SoloInv'
  <2>1. /\ Running(j) /\ Alive(j) /\ job[j] \in JobRecord /\ job[j].punch \in Punches
        /\ job[j].reply = "none" /\ job[j].st = "posting"
    BY <1>8, AliveJob DEF AdmsAccepts, Running, Alive
  <2>2. /\ job'[j].punch = job[j].punch /\ job'[j].snap = job[j].snap
        /\ job'[j].st = job[j].st /\ job'[j].reply = "ok"
        /\ \A k \in Jobs : k # j => job'[k] = job[k]
    BY <1>8, <2>1 DEF AdmsAccepts, TypeOK, JobRecord
  <2>3. /\ UNCHANGED <<row, failures, request, sweep, crashes, old>>
        /\ acks' = [acks EXCEPT ![job[j].punch] = @ + 1]
    BY <1>8 DEF AdmsAccepts, envVars
  <2>4. \A k \in Jobs : /\ Alive(k)' <=> Alive(k)
                        /\ job'[k].punch = job[k].punch /\ job'[k].snap = job[k].snap
                        /\ job'[k].st = job[k].st
    BY <2>2 DEF Alive
  <2>5. SoloJobs'
    <3>1. \A k \in Jobs : job'[k].st = "queued" => job'[k].reply = "none"
      BY <2>1, <2>2 DEF SoloInv, SoloJobs
    <3> QED BY <2>3, <2>4, <3>1 DEF SoloInv, SoloJobs
  <2>6. SoloCopies'
    BY <2>3, <2>4 DEF SoloInv, SoloCopies, SnapshotOf, Running
  <2>7. SoloRows'
    <3>1. request[job[j].punch] = "done"
      BY <2>1 DEF SoloInv, SoloJobs
    <3>2. \A q \in Punches : request[q] # "done" => acks'[q] = acks[q]
      BY <2>3, <3>1 DEF TypeOK
    <3> QED BY <2>3, <2>4, <3>2 DEF SoloInv, SoloRows
  <2>8. SoloAcks'
    <3>1. acks[job[j].punch] <= crashes
      BY <2>1 DEF SoloInv, SoloAcks
    <3>2. /\ acks'[job[j].punch] = acks[job[j].punch] + 1
          /\ \A q \in Punches : q # job[j].punch => acks'[q] = acks[q]
          /\ crashes \in Nat /\ acks[job[j].punch] \in Nat
      BY <2>1, <2>3 DEF TypeOK
    <3>3. DuplicatesNeedCrashes'
      BY <2>3, <3>1, <3>2 DEF SoloInv, SoloAcks, DuplicatesNeedCrashes
    <3>4. ASSUME NEW k \in Jobs, Alive(k)', job'[k].reply # "ok"
          PROVE  acks'[job'[k].punch] <= crashes'
      <4>1. k # j /\ Alive(k) /\ job'[k] = job[k] /\ job[k].punch \in Punches
        BY <2>2, <3>4, AliveJob DEF Alive
      <4>2. job[k].punch # job[j].punch
        BY <2>1, <4>1 DEF SoloInv, SoloJobs
      <4> QED BY <2>3, <3>2, <3>4, <4>1, <4>2 DEF SoloInv, SoloAcks
    <3> QED BY <3>3, <3>4 DEF SoloAcks
  <2> QED BY <2>3, <2>5, <2>6, <2>7, <2>8 DEF SoloInv, RetryIsExact
<1>9. ASSUME NEW j \in Jobs, RunAborted(j) \/ TriesExhausted(j) \/ JobExpires(j)
      PROVE  SoloInv'
  <2>1. /\ job' = Finished(j)
        /\ UNCHANGED <<row, failures, request, sweep, acks, crashes, old>>
    BY <1>9 DEF RunAborted, TriesExhausted, JobExpires, envVars
  <2>2. ~Alive(j)' /\ \A k \in Jobs : k # j => job'[k] = job[k]
    BY <2>1, FinishedJobs
  <2>3. \A k \in Jobs : Alive(k)' => /\ Alive(k) /\ job'[k] = job[k]
                                     /\ Running(k)' => Running(k)
    BY <2>2 DEF Alive, Running
  <2> QED BY <2>1, <2>3, SoloInvByJobs
<1>10. ASSUME WorkerCrash \/ \E j \in Jobs : CrashBetweenCommits(j) PROVE SoloInv'
  BY <1>10, EveryCrashIsOne, SoloInvByCrash
<1>11. ASSUME NEW s \in Sweeps, SweepStart(s) PROVE SoloInv'
  BY <1>11 DEF SweepStart
<1>12. ASSUME NEW s \in Sweeps, NEW p \in Punches, SweepEnqueue(s, p) PROVE SoloInv'
  BY <1>12 DEF SweepEnqueue, SoloInv
<1>13. CASE CleanupStale
  <2>1. \A p \in Punches : [row[p] EXCEPT !.sync = "stale"].retry = row[p].retry
    BY DEF TypeOK, Row
  <2>2. /\ \A p \in Punches : row'[p].retry = row[p].retry
        /\ \A p \in Punches : p \notin old => row'[p] = row[p]
    BY <1>13, <2>1 DEF CleanupStale
  <2>3. UNCHANGED <<job, failures, request, sweep, acks, crashes, old>>
    BY <1>13 DEF CleanupStale, envVars
  <2>4. \A k \in Jobs : Alive(k) => /\ job[k].punch \in Punches
                                    /\ row'[job[k].punch] = row[job[k].punch]
    BY <2>2, AliveJob DEF SoloInv, SoloJobs, Alive
  <2>5. SoloJobs' /\ SoloAcks'
    BY <2>3 DEF SoloInv, SoloJobs, SoloAcks, DuplicatesNeedCrashes, Alive
  <2>6. SoloCopies'
    BY <2>3, <2>4 DEF SoloInv, SoloCopies, SnapshotOf, Running, Alive
  <2>7. SoloRows'
    <3>1. \A p \in Punches : request[p] # "done" => p \notin old
      BY DEF SoloInv, SoloJobs
    <3> QED BY <2>2, <2>3, <2>4, <3>1 DEF SoloInv, SoloRows, Alive
  <2> QED BY <2>2, <2>3, <2>5, <2>6, <2>7 DEF SoloInv, RetryIsExact
<1>14. ASSUME NEW p \in Punches, GrowOld(p) PROVE SoloInv'
  <2>1. /\ request[p] = "done" /\ ~HasJob(p) /\ old' = old \union {p}
        /\ UNCHANGED <<row, job, failures, request, sweep, acks, crashes>>
    BY <1>14 DEF GrowOld, syncVars
  <2>2. SoloJobs'
    BY <2>1 DEF SoloInv, SoloJobs, HasJob, Alive
  <2>3. SoloCopies' /\ SoloAcks' /\ SoloRows' /\ RetryIsExact'
    BY <2>1 DEF SoloInv, SoloCopies, SoloAcks, SoloRows, RetryIsExact,
                DuplicatesNeedCrashes, Alive, Running, SnapshotOf
  <2> QED BY <2>1, <2>2, <2>3 DEF SoloInv
<1>15. CASE (\E e \in Employees : ChangeEmployeeType(e)) \/ ChangeServerUrl
  BY <1>0, <1>15 DEF ChangeEmployeeType, ChangeServerUrl, syncVars
<1>16. CASE UNCHANGED vars
  BY <1>0, <1>16 DEF vars
<1> QED
  BY <1>1, <1>2, <1>3, <1>4, <1>5, <1>6, <1>7, <1>8, <1>9, <1>10, <1>11, <1>12,
     <1>13, <1>14, <1>15, <1>16
  DEF Next, Api, Run, Adms, Cron, Environment, SweepRaises, Ends

LEMMA SoloCorrect ==
  ASSUME "pool" \notin CtxKeys
  PROVE  Spec => []SoloInv
<1>1. Init => SoloInv
  BY DEF Init, SoloInv, SoloJobs, SoloCopies, SoloAcks, SoloRows, RetryIsExact,
         DuplicatesNeedCrashes, NewRow, NoJob, Alive, Running
<1>2. TypeOK /\ SoloInv /\ [Next]_vars => SoloInv'
  BY SoloInvStep
<1> QED BY <1>1, <1>2, TypeCorrect, PTL DEF Spec

\* Without a sweep that enqueues, sync_retry_count is the number of failures, half
\* runs, aborted runs and crashes between the two commits included.
THEOREM RetryExact ==
  ASSUME "pool" \notin CtxKeys
  PROVE  Spec => []RetryIsExact
<1>1. SoloInv => RetryIsExact
  BY DEF SoloInv
<1> QED BY <1>1, SoloCorrect, PTL

\* A failed punch that no job works on.
Abandoned(p) == row[p].sync = "failed" /\ ~HasJob(p)

\* README.md:238 has failed records retried every 5 minutes, and one run shows one that
\* never is. Here it is every failed punch of every execution: once its job is over its
\* row never changes again and no job is ever made for it, whatever the sweeps, new
\* requests, crashes and the admin pages do. (ctx["pool"] raises before anything.)
THEOREM FailedIsFinal ==
  ASSUME "pool" \notin CtxKeys
  PROVE  Spec => [][\A p \in Punches : Abandoned(p) => row'[p] = row[p] /\ Abandoned(p)']_vars
<1> DEFINE P == \A p \in Punches : Abandoned(p) => row'[p] = row[p] /\ Abandoned(p)'
<1>1. TypeOK /\ SoloInv /\ [Next]_vars => [P]_vars
  <2> SUFFICES ASSUME TypeOK, SoloInv, Next, NEW p \in Punches, Abandoned(p)
               PROVE  row'[p] = row[p] /\ ~HasJob(p)'
    BY DEF Abandoned
  <2>1. \A j \in Jobs : Alive(j) => job[j].punch # p
    BY DEF Abandoned, HasJob
  <2>2. request[p] = "done" /\ row[p].sync = "failed"
    BY DEF Abandoned, SoloInv, SoloRows
  <2>3. ASSUME row'[p] = row[p],
               \A j \in Jobs : Alive(j)' => Alive(j) /\ job'[j].punch = job[j].punch
        PROVE  row'[p] = row[p] /\ ~HasJob(p)'
    BY <2>1, <2>3 DEF HasJob
  <2>4. ASSUME UNCHANGED <<row, job>> PROVE row'[p] = row[p] /\ ~HasJob(p)'
    BY <2>3, <2>4 DEF Alive
  <2>5. ASSUME NEW q \in Punches, Enqueue(q) PROVE row'[p] = row[p] /\ ~HasJob(p)'
    <3>1. row' = row /\ q # p
      BY <2>2, <2>5 DEF Enqueue
    <3>2. PICK j \in Jobs : job' = [job EXCEPT ![j] = NewJob(q)]
      BY <2>5 DEF Enqueue
    <3>3. job'[j].punch = q /\ \A k \in Jobs : k # j => job'[k] = job[k]
      BY <3>2 DEF TypeOK, NewJob
    <3> QED BY <2>1, <3>1, <3>3 DEF HasJob, Alive
  <2>6. ASSUME NEW j \in Jobs, Ends(j) PROVE row'[p] = row[p] /\ ~HasJob(p)'
    <3>1. PICK r \in Row, failed \in BOOLEAN : Outcome(j, r, failed)
      BY <2>6, EveryEndIsAnOutcome
    <3>2. /\ Alive(j) /\ job' = Finished(j) /\ row' = [row EXCEPT ![job[j].punch] = r]
      BY <3>1 DEF Outcome, EndRun
    <3>3. row'[p] = row[p]
      BY <2>1, <3>2
    <3>4. ~Alive(j)' /\ \A k \in Jobs : k # j => job'[k] = job[k]
      BY <3>2, FinishedJobs
    <3> QED BY <2>3, <3>3, <3>4 DEF Alive
  <2>7. ASSUME NEW j \in Jobs, RunAborted(j) \/ TriesExhausted(j) \/ JobExpires(j)
        PROVE  row'[p] = row[p] /\ ~HasJob(p)'
    <3>1. row' = row /\ job' = Finished(j)
      BY <2>7 DEF RunAborted, TriesExhausted, JobExpires
    <3>2. ~Alive(j)' /\ \A k \in Jobs : k # j => job'[k] = job[k]
      BY <3>1, FinishedJobs
    <3> QED BY <2>3, <3>1, <3>2 DEF Alive
  <2>8. ASSUME NEW j \in Jobs,
               RunPush(j) \/ Registered(j) \/ AdmsAccepts(j) \/ AdmsRefuses(j)
        PROVE  row'[p] = row[p] /\ ~HasJob(p)'
    <3>1. Alive(j) /\ job[j] \in JobRecord
      BY <2>8, AliveJob DEF RunPush, CanStart, Registered, AdmsAccepts, AdmsRefuses, Alive
    <3>2. row' = row
      BY <2>8 DEF RunPush, Registered, AdmsAccepts, AdmsRefuses
    <3>3. job'[j].punch = job[j].punch /\ \A k \in Jobs : k # j => job'[k] = job[k]
      BY <2>8, <3>1 DEF RunPush, Registered, AdmsAccepts, AdmsRefuses, TypeOK, JobRecord
    <3> QED BY <2>3, <3>1, <3>2, <3>3 DEF Alive
  <2>9. ASSUME WorkerCrash \/ \E j \in Jobs : CrashBetweenCommits(j)
        PROVE  row'[p] = row[p] /\ ~HasJob(p)'
    <3>1. PICK r, failed, q : CrashOf(r, failed, q)
      BY <2>9, EveryCrashIsOne
    <3>2. row' = row \/ (row' = [row EXCEPT ![q] = r] /\ q # p)
      BY <2>1, <3>1 DEF CrashOf
    <3>3. row'[p] = row[p]
      BY <3>2 DEF TypeOK
    <3>4. \A k \in Jobs : Alive(k)' => Alive(k) /\ job'[k].punch = job[k].punch
      BY <3>1 DEF CrashOf
    <3> QED BY <2>3, <3>3, <3>4
  <2>10. ASSUME NEW s \in Sweeps, NEW q \in Punches, SweepEnqueue(s, q) PROVE FALSE
    BY <2>10 DEF SweepEnqueue, SoloInv
  <2>11. CASE CleanupStale
    <3>1. row'[p] = row[p] /\ job' = job
      BY <2>2, <2>11 DEF CleanupStale
    <3> QED BY <2>3, <3>1 DEF Alive
  <2>12. CASE \/ \E q \in Punches : CreatePunch(q) \/ EnqueueFails(q) \/ GrowOld(q)
              \/ ApiCrash \/ (\E s \in Sweeps : SweepStart(s)) \/ SweepRaises
              \/ (\E e \in Employees : ChangeEmployeeType(e)) \/ ChangeServerUrl
    <3>1. UNCHANGED <<row, job>>
      BY <2>12 DEF CreatePunch, EnqueueFails, GrowOld, ApiCrash, SweepStart, SweepRaises,
                   ChangeEmployeeType, ChangeServerUrl, syncVars, vars
    <3> QED BY <2>4, <3>1
  <2> QED
    BY <2>5, <2>6, <2>7, <2>8, <2>9, <2>10, <2>11, <2>12
    DEF Next, Api, Run, Adms, Cron, Environment, Ends
<1> QED BY <1>1, SoloCorrect, TypeCorrect, PTL DEF Spec

\* ADMS takes a punch at most once more per worker crash.
THEOREM DuplicatesBounded ==
  ASSUME "pool" \notin CtxKeys
  PROVE  Spec => []DuplicatesNeedCrashes
<1>1. SoloInv => DuplicatesNeedCrashes
  BY DEF SoloInv, SoloAcks
<1> QED BY <1>1, SoloCorrect, PTL

------------------------------------------------------------------------------
(* The worker as configured implements the ledger, step by step *)

\* What the mapping makes of the sync columns.
LEMMA StandingOfRow ==
  ASSUME NEW r \in Row
  PROVE  /\ StandingOf(r) \in Ledger!Standing
         /\ StandingOf(r) = "waiting" <=> r.sync = "pending"
         /\ StandingOf(r) = "stale" <=> r.sync = "stale"
         /\ StandingOf(r) = "delivered" => r.sync = "synced" /\ r.adms # "local_only"
<1>1. r.sync \in SyncStatus /\ r.adms \in AdmsStatus
  BY DEF Row
<1> QED BY <1>1 DEF StandingOf, Ledger!Standing, SyncStatus

\* Steps the ledger does not see.
LEMMA LedgerStutters ==
  ASSUME UNCHANGED <<row, acks, dropped, crashes>>,
         \A p \in Punches : request'[p] = "none" <=> request[p] = "none"
  PROVE  UNCHANGED Ledger!vars
BY DEF Ledger!vars

\* Steps that only lose attempts.
LEMMA LedgerLoses ==
  ASSUME UNCHANGED <<row, acks, crashes>>,
         \A p \in Punches : request'[p] = "none" <=> request[p] = "none",
         NEW some \in SUBSET {p \in Punches : request[p] # "none"},
         dropped' = dropped \union some
  PROVE  Ledger!Lose
BY DEF Ledger!Lose

\* One row is written: the standing of its punch becomes that of the new row.
LEMMA LedgerBecomes ==
  ASSUME TypeOK, AckInv', NEW p \in Punches, NEW r \in Row,
         row' = [row EXCEPT ![p] = r], UNCHANGED <<request, acks>>,
         request[p] = "done", r.sync # "stale",
         row[p].sync = "pending" \/ crashes' > 0
  PROVE  /\ StandingOf(r) \in Ledger!Standing
         /\ Ledger!Becomes(p, StandingOf(r))
<1>1. row[p] \in Row /\ row'[p] = r /\ acks[p] \in Nat
  BY DEF TypeOK
<1>2. Accounted(r, acks[p])
  BY <1>1 DEF AckInv, SyncedIsAccounted
<1>3. StandingOf(r) = "delivered" => acks[p] > 0
  BY <1>2, StandingOfRow DEF Accounted
<1>4. StandingOf(r) # "stale" /\ StandingOf(r) \in Ledger!Standing
  BY StandingOfRow
<1>5. [q \in Punches |-> StandingOf(row[q])][p] = "waiting" \/ crashes' > 0
  BY <1>1, StandingOfRow
<1>6. [q \in Punches |-> StandingOf(row'[q])] =
        [[q \in Punches |-> StandingOf(row[q])] EXCEPT ![p] = StandingOf(r)]
  <2> DEFINE before == [q \in Punches |-> StandingOf(row[q])]
             x == StandingOf(r)
  <2>1. \A q \in Punches : row'[q] = IF q = p THEN r ELSE row[q]
    BY DEF TypeOK
  <2>2. \A q \in Punches : StandingOf(row'[q]) = IF q = p THEN x ELSE before[q]
    BY <2>1
  <2>3. [before EXCEPT ![p] = x] = [q \in Punches |-> IF q = p THEN x ELSE before[q]]
    OBVIOUS
  <2> HIDE DEF before, x
  <2>4. [q \in Punches |-> StandingOf(row'[q])] = [before EXCEPT ![p] = x]
    BY <2>2, <2>3
  <2> QED BY <2>4 DEF before, x
<1>7. p \in {q \in Punches : request[q] # "none"}
  OBVIOUS
<1> QED BY <1>3, <1>4, <1>5, <1>6, <1>7 DEF Ledger!Becomes

\* Every step of the API, the worker, ARQ, ADMS and the scheduled tasks is a step
\* of the ledger or invisible to it.
LEMMA LedgerStep ==
  ASSUME "pool" \notin CtxKeys
  PROVE  /\ TypeOK /\ AckInv /\ PendInv /\ SoloInv /\ [Next]_vars
         /\ AckInv'
         => [Ledger!Next]_(Ledger!vars)
<1> SUFFICES ASSUME TypeOK, AckInv, PendInv, SoloInv, [Next]_vars, AckInv'
             PROVE  [Ledger!Next]_(Ledger!vars)
  OBVIOUS
<1>1. ASSUME NEW p \in Punches, CreatePunch(p) PROVE Ledger!Next
  <2>1. /\ request[p] = "none" /\ request' = [request EXCEPT ![p] = "committed"]
        /\ UNCHANGED <<row, acks, dropped, crashes>>
    BY <1>1 DEF CreatePunch, syncVars, envVars
  <2>2. \A q \in Punches : request'[q] = IF q = p THEN "committed" ELSE request[q]
    BY <2>1 DEF TypeOK
  <2>3. {q \in Punches : request'[q] # "none"}
          = {q \in Punches : request[q] # "none"} \union {p}
    BY <2>2
  <2>4. Ledger!Record(p)
    BY <2>1, <2>3 DEF Ledger!Record
  <2> QED BY <2>4 DEF Ledger!Next
<1>2. ASSUME NEW p \in Punches, Enqueue(p) PROVE UNCHANGED Ledger!vars
  <2>1. UNCHANGED <<row, acks, dropped, crashes>>
    BY <1>2 DEF Enqueue, envVars
  <2>2. \A q \in Punches : request'[q] = "none" <=> request[q] = "none"
    BY <1>2 DEF Enqueue, TypeOK
  <2> QED BY <2>1, <2>2, LedgerStutters
<1>3. ASSUME NEW p \in Punches, EnqueueFails(p) PROVE Ledger!Next
  <2>1. /\ UNCHANGED <<row, acks, crashes>> /\ dropped' = dropped \union {p}
        /\ request[p] = "committed"
    BY <1>3 DEF EnqueueFails, envVars
  <2>2. \A q \in Punches : request'[q] = "none" <=> request[q] = "none"
    BY <1>3 DEF EnqueueFails, TypeOK
  <2>3. {p} \in SUBSET {q \in Punches : request[q] # "none"}
    BY <2>1
  <2> QED BY <2>1, <2>2, <2>3, LedgerLoses DEF Ledger!Next
<1>4. CASE ApiCrash
  <2> DEFINE cut == {p \in Punches : request[p] = "committed"}
  <2>1. UNCHANGED <<row, acks, crashes>> /\ dropped' = dropped \union cut
    BY <1>4 DEF ApiCrash, envVars
  <2>2. \A q \in Punches : request'[q] = "none" <=> request[q] = "none"
    BY <1>4 DEF ApiCrash
  <2>3. cut \in SUBSET {q \in Punches : request[q] # "none"}
    OBVIOUS
  <2>4. Ledger!Lose
    BY <2>1, <2>2, <2>3, LedgerLoses
  <2> QED BY <2>4 DEF Ledger!Next
<1>5. \A j \in Jobs : Alive(j) => /\ job[j].punch \in Punches
                                  /\ request[job[j].punch] = "done"
                                  /\ row[job[j].punch].sync = "pending" \/ crashes > 0
  BY AliveJob DEF Alive, SoloInv, SoloJobs, SoloRows
<1>6. ASSUME NEW j \in Jobs, Ends(j) PROVE Ledger!Next
  <2> DEFINE p == job[j].punch
  <2>1. PICK r \in Row, failed \in BOOLEAN : Outcome(j, r, failed)
    BY <1>6, EveryEndIsAnOutcome
  <2>2. /\ Alive(j) /\ p \in Punches /\ row' = [row EXCEPT ![p] = r]
        /\ UNCHANGED <<request, acks, crashes>>
        /\ dropped' \in {dropped, dropped \union {p}}
    BY <2>1 DEF Outcome, EndRun, envVars
  <2>3. r.sync # "stale"
    <3>1. Running(j) => job[j].snap = SnapshotOf(p)
      BY DEF SoloInv, SoloCopies
    <3>2. SnapshotOf(p).sync = row[p].sync
      BY DEF SnapshotOf
    <3> QED BY <2>1, <3>1, <3>2 DEF Outcome
  <2>4. /\ StandingOf(r) \in Ledger!Standing
        /\ Ledger!Becomes(p, StandingOf(r))
    BY <1>5, <2>2, <2>3, LedgerBecomes
  <2>5. Ledger!Settle(p)
    BY <2>2, <2>4 DEF Ledger!Settle
  <2> QED BY <2>2, <2>5 DEF Ledger!Next
<1>7. ASSUME NEW j \in Jobs, RunPush(j) \/ Registered(j) \/ AdmsRefuses(j)
      PROVE  UNCHANGED Ledger!vars
  BY <1>7, LedgerStutters DEF RunPush, Registered, AdmsRefuses, envVars
<1>8. ASSUME NEW j \in Jobs, AdmsAccepts(j) PROVE Ledger!Next
  <2> DEFINE p == job[j].punch
  <2>1. /\ Alive(j) /\ job[j].reply = "none"
        /\ acks' = [acks EXCEPT ![p] = @ + 1]
        /\ UNCHANGED <<row, request, dropped, crashes>>
    BY <1>8 DEF AdmsAccepts, Alive, envVars
  <2>2. p \in Punches /\ request[p] = "done" /\ acks[p] <= crashes
    BY <1>5, <2>1 DEF SoloInv, SoloAcks
  <2>3. Ledger!Deliver(p)
    BY <2>1, <2>2 DEF Ledger!Deliver
  <2> QED BY <2>2, <2>3 DEF Ledger!Next
<1>9. ASSUME NEW j \in Jobs, RunAborted(j) \/ TriesExhausted(j) \/ JobExpires(j)
      PROVE  Ledger!Next
  <2>1. /\ Alive(j) /\ dropped' = dropped \union {job[j].punch}
        /\ UNCHANGED <<row, acks, crashes, request>>
    BY <1>9
    DEF RunAborted, TriesExhausted, JobExpires, CanStart, Running, Alive, envVars
  <2>2. {job[j].punch} \in SUBSET {q \in Punches : request[q] # "none"}
    BY <1>5, <2>1
  <2> QED BY <2>1, <2>2, LedgerLoses DEF Ledger!Next
<1>10. ASSUME WorkerCrash \/ \E j \in Jobs : CrashBetweenCommits(j) PROVE Ledger!Next
  <2>1. PICK r, failed, p : CrashOf(r, failed, p)
    BY <1>10, EveryCrashIsOne
  <2>2. crashes' = crashes + 1 /\ UNCHANGED <<dropped, request, acks>>
    BY <2>1 DEF CrashOf
  <2>3. CASE UNCHANGED row
    <3>1. UNCHANGED [q \in Punches |-> StandingOf(row[q])]
      BY <2>3
    <3>2. Ledger!Fault
      BY <2>2, <3>1 DEF Ledger!Fault
    <3> QED BY <3>2 DEF Ledger!Next
  <2>4. CASE row' # row
    <3>1. PICK j \in Jobs : Alive(j) /\ job[j].punch = p
      BY <2>1, <2>4 DEF CrashOf
    <3>2. row' = [row EXCEPT ![p] = r] /\ r \in Row /\ r.sync # "stale"
      BY <2>1, <2>4 DEF CrashOf
    <3>3. p \in Punches /\ request[p] = "done" /\ crashes' > 0
      BY <1>5, <2>2, <3>1 DEF TypeOK
    <3>4. StandingOf(r) \in Ledger!Standing /\ Ledger!Becomes(p, StandingOf(r))
      BY <2>2, <3>2, <3>3, LedgerBecomes
    <3>5. Ledger!Fault
      BY <2>2, <3>3, <3>4 DEF Ledger!Fault
    <3> QED BY <3>5 DEF Ledger!Next
  <2> QED BY <2>3, <2>4
<1>11. ASSUME NEW s \in Sweeps, SweepStart(s) PROVE FALSE
  BY <1>11 DEF SweepStart
<1>12. ASSUME NEW s \in Sweeps, NEW p \in Punches, SweepEnqueue(s, p) PROVE FALSE
  BY <1>12 DEF SweepEnqueue, SoloInv
<1>13. CASE CleanupStale
  <2> DEFINE stale == {p \in old : row[p].sync = "pending"}
  <2>1. /\ row' = [p \in Punches |->
                     IF p \in stale THEN [row[p] EXCEPT !.sync = "stale"] ELSE row[p]]
        /\ UNCHANGED <<request, acks, dropped, crashes>>
    BY <1>13 DEF CleanupStale, envVars
  <2>2. stale \in SUBSET {p \in dropped : row[p].sync = "pending"}
    <3> SUFFICES ASSUME NEW p \in old, row[p].sync = "pending" PROVE p \in dropped
      OBVIOUS
    <3>1. p \in Punches /\ request[p] = "done" /\ ~HasJob(p)
      BY DEF TypeOK, SoloInv, SoloJobs, HasJob
    <3> QED BY <3>1 DEF PendInv, PendingIsExplained
  <2>3. \A p \in Punches : /\ row[p] \in Row
                           /\ [row[p] EXCEPT !.sync = "stale"] \in Row
                           /\ [row[p] EXCEPT !.sync = "stale"].sync = "stale"
    BY DEF TypeOK, Row, SyncStatus
  <2>4. \A p \in Punches : StandingOf(row'[p]) =
                             IF p \in stale THEN "stale" ELSE StandingOf(row[p])
    BY <2>1, <2>3, StandingOfRow
  <2>5. stale \in SUBSET {p \in dropped :
                            [q \in Punches |-> StandingOf(row[q])][p] = "waiting"}
    <3>1. dropped \subseteq Punches
      BY DEF TypeOK
    <3>2. \A p \in dropped : row[p].sync = "pending" => StandingOf(row[p]) = "waiting"
      BY <2>3, <3>1, StandingOfRow
    <3> QED BY <2>2, <3>1, <3>2
  <2>6. [q \in Punches |-> StandingOf(row'[q])] =
          [q \in Punches |-> IF q \in stale THEN "stale"
                             ELSE [p \in Punches |-> StandingOf(row[p])][q]]
    BY <2>4
  <2> HIDE DEF stale
  <2>7. Ledger!StrikeOff
    BY <2>1, <2>5, <2>6 DEF Ledger!StrikeOff
  <2> QED BY <2>7 DEF Ledger!Next
<1>14. ASSUME \/ \E p \in Punches : GrowOld(p)
              \/ \E e \in Employees : ChangeEmployeeType(e)
              \/ ChangeServerUrl
              \/ UNCHANGED vars
       PROVE  UNCHANGED Ledger!vars
  BY <1>14, LedgerStutters
  DEF GrowOld, ChangeEmployeeType, ChangeServerUrl, syncVars, vars
<1> QED
  BY <1>1, <1>2, <1>3, <1>4, <1>6, <1>7, <1>8, <1>9, <1>10, <1>11, <1>12, <1>13,
     <1>14
  DEF Next, Api, Run, Adms, Cron, Environment, SweepRaises, Ends

\* What a reader of the two sync columns sees is a ledger: a settled punch stays
\* settled, nothing is delivered twice or revised without a crash, nothing is shown
\* as delivered that ADMS has not taken, and only lost punches become stale, for
\* every number of punches, jobs and crashes.
THEOREM ImplementsTheLedger ==
  ASSUME "pool" \notin CtxKeys
  PROVE  Spec => Ledger!SafeSpec
<1>1. Init => Ledger!Init
  BY DEF Init, Ledger!Init, NewRow, StandingOf
<1>2. /\ TypeOK /\ AckInv /\ PendInv /\ SoloInv /\ [Next]_vars
      /\ AckInv'
      => [Ledger!Next]_(Ledger!vars)
  BY LedgerStep
<1>3. Spec => []SoloInv
  BY SoloCorrect
<1> QED BY <1>1, <1>2, <1>3, TypeCorrect, AckCorrect, PendCorrect, PTL
        DEF Spec, Ledger!SafeSpec
==============================================================================
