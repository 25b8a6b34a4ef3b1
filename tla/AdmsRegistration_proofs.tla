----------------------- MODULE AdmsRegistration_proofs -----------------------
(***************************************************************************)
(* Theorems about AdmsRegistration, for any number of employees, tasks and *)
(* late posts.  RegistrationInv says that a name ADMS has only goes away   *)
(* by a deletion, that no deletion is anywhere on its way for an employee  *)
(* outside erased, and what a task knows at each of its awaits.  AlignInv  *)
(* says that outside the exceptions of NamesAlignAtRest one task at a time *)
(* has an employee in hand, and carries the name of the employees page.    *)
(***************************************************************************)
EXTENDS AdmsRegistration, TLAPS

Known(e) == known[e] # NoName

\* No deletion of the employee is under way, wherever it may be.
NoDeletion(e) == /\ e \notin erasing
                 /\ \A t \in Tasks : ~IsFree(t) /\ task[t].emp = e => task[t].kind # "delete"
                 /\ \A l \in Late : late[l] # NoPost /\ late[l].emp = e => late[l].kind # "delete"

DeletionsAreRequested == \A e \in Employees \ erased : NoDeletion(e)

TasksAreRight ==
  \A t \in Tasks :
    /\ task[t].st = "ok" /\ task[t].kind # "delete" => Known(task[t].emp) \/ task[t].emp \in erased
    /\ task[t].st = "attlog" => \/ Known(task[t].emp)
                                \/ task[t].emp \in erased \union failed

BulkIsRight ==
  /\ \A e \in bulk.todo \union bulk.chunk : bulk.names[e] # NoName
  /\ bulk.st = "ok" => \A e \in bulk.chunk : Known(e) \/ e \in erased

RegistrationInv == /\ TypeOK /\ TrackedIsKnownUnlessErased /\ DiscardsAreExplained
                   /\ DeletionsAreRequested /\ TasksAreRight /\ BulkIsRight

------------------------------------------------------------------------------
(* Types *)

LEMMA TypeStep == TypeOK /\ [Next]_vars => TypeOK'
<1> SUFFICES ASSUME TypeOK, [Next]_vars PROVE TypeOK'
  OBVIOUS
<1> USE DEF TypeOK, vars, local, remote, history
<1>1. ASSUME NEW e \in Employees, CreateEmployee(e) PROVE TypeOK'
  <2>1. PICK x \in Employee : x.name \in Names /\ employee' = [employee EXCEPT ![e] = x]
    BY <1>1 DEF CreateEmployee
  <2>2. employee' \in [Employees -> Employee]
    BY <2>1
  <2>3. task' \in [Tasks -> TaskRecord \union {NoTask}]
    BY <1>1 DEF CreateEmployee, NewTask, TaskRecord, Kinds
  <2>4. /\ overlapped' \subseteq Employees /\ missed' \subseteq Employees
        /\ edits' \in Nat
    BY <1>1 DEF CreateEmployee, Edit, Overlap
  <2> QED BY <1>1, <2>2, <2>3, <2>4 DEF CreateEmployee
<1>2. ASSUME NEW e \in Employees, UpdateEmployee(e) PROVE TypeOK'
  BY <1>2 DEF UpdateEmployee, Edit, Overlap, NewTask, TaskRecord, Kinds, Employee
<1>3. ASSUME NEW e \in Employees, SoftDelete(e) PROVE TypeOK'
  <2>0. ASSUME NEW r \in Employee PROVE [r EXCEPT !.here = "deleted", !.active = FALSE] \in Employee
    BY DEF Employee
  <2>1. [employee[e] EXCEPT !.here = "deleted", !.active = FALSE] \in Employee
    BY <2>0
  <2>2. employee' \in [Employees -> Employee]
    BY <1>3, <2>1 DEF SoftDelete
  <2> QED BY <1>3, <2>2 DEF SoftDelete, Edit, Overlap
<1>4. ASSUME NEW e \in Employees, DeleteFromAdms(e) PROVE TypeOK'
  BY <1>4 DEF DeleteFromAdms, Edit, Overlap, NewTask, TaskRecord, Kinds
<1>5. ASSUME NEW e \in Employees, PushStart(e) PROVE TypeOK'
  BY <1>5 DEF PushStart, Overlap, NewTask, TaskRecord, Kinds, Employee
<1>6. ASSUME NEW e \in Employees, Erase(e) PROVE TypeOK'
  BY <1>6 DEF Erase
<1>7. CASE PullNames
  <2>1. \A e \in Employees : known[e] # NoName =>
          /\ [employee[e] EXCEPT !.name = known[e]] \in Employee
          /\ [here |-> "present", active |-> TRUE, regular |-> TRUE, name |-> known[e]] \in Employee
    BY DEF Employee
  <2>2. employee' \in [Employees -> Employee]
    BY <1>7, <2>1 DEF PullNames
  <2>3. overlapped' \subseteq Employees /\ edits' \in Nat
    BY <1>7 DEF PullNames, Edit
  <2> QED BY <1>7, <2>2, <2>3 DEF PullNames, Edit
<1>8. CASE BulkStart
  BY <1>8 DEF BulkStart, Edit, Overlap, NamesNow, Employee
<1>9. CASE BulkSend
  BY <1>9 DEF BulkSend
<1>10. CASE BulkProcessed
  BY <1>10 DEF BulkProcessed
<1>11. CASE BulkTracked
  BY <1>11 DEF BulkTracked, NamesNow, Employee
<1>12. CASE BulkChunkFails
  BY <1>12 DEF BulkChunkFails
<1>13. CASE BulkEnd
  BY <1>13 DEF BulkEnd, NoBulk
<1>14. ASSUME NEW t \in Tasks, Untrack(t) PROVE TypeOK'
  BY <1>14 DEF Untrack, TaskRecord, NoTask
<1>15. ASSUME NEW t \in Tasks, Check(t) PROVE TypeOK'
  BY <1>15 DEF Check, AfterRegistration, TaskRecord, NoTask
<1>16. ASSUME NEW t \in Tasks, RegistrationDone(t) PROVE TypeOK'
  BY <1>16 DEF RegistrationDone, AfterRegistration, TaskRecord, NoTask
<1>17. ASSUME NEW t \in Tasks, DeleteDone(t) PROVE TypeOK'
  BY <1>17 DEF DeleteDone, TaskRecord, NoTask
<1>18. ASSUME NEW t \in Tasks, PostFails(t) PROVE TypeOK'
  BY <1>18 DEF PostFails, AfterRegistration, TaskRecord, NoTask
<1>19. ASSUME NEW t \in Tasks, PostTimesOut(t) PROVE TypeOK'
  BY <1>19 DEF PostTimesOut, AfterRegistration, TaskRecord, NoTask, Post
<1>20. ASSUME NEW t \in Tasks, AttlogAnswered(t) PROVE TypeOK'
  BY <1>20 DEF AttlogAnswered, TaskRecord, NoTask
<1>21. ASSUME NEW t \in Tasks, AttlogFails(t) PROVE TypeOK'
  BY <1>21 DEF AttlogFails, NoTask
<1>22. ASSUME NEW t \in Tasks, PostAccepted(t) PROVE TypeOK'
  BY <1>22 DEF PostAccepted, Accept, TaskRecord, NoTask
<1>23. ASSUME NEW t \in Tasks, PostRefused(t) PROVE TypeOK'
  BY <1>23 DEF PostRefused, TaskRecord, NoTask
<1>24. ASSUME NEW l \in Late, LateAccepted(l) PROVE TypeOK'
  BY <1>24 DEF LateAccepted, Accept, Post, NoPost
<1>25. ASSUME NEW l \in Late, LateLost(l) PROVE TypeOK'
  BY <1>25 DEF LateLost
<1>26. CASE ApiCrash
  BY <1>26 DEF ApiCrash, Lost, Without, NoBulk, TaskRecord, NoTask, IsFree
<1>27. CASE WorkerCrash
  BY <1>27 DEF WorkerCrash, Lost, Without, TaskRecord, NoTask, IsFree
<1>28. CASE UNCHANGED vars
  BY <1>28
<1> QED
  BY <1>1, <1>2, <1>3, <1>4, <1>5, <1>6, <1>7, <1>8, <1>9, <1>10, <1>11, <1>12, <1>13, <1>14,
     <1>15, <1>16, <1>17, <1>18, <1>19, <1>20, <1>21, <1>22, <1>23, <1>24, <1>25, <1>26, <1>27,
     <1>28
  DEF Next, Admin, Bulk, Step, Adms

------------------------------------------------------------------------------
(* Who is tracked, known and about to be deleted *)

LEMMA InvInit == Init => RegistrationInv
BY DEF Init, RegistrationInv, TypeOK, TrackedIsKnownUnlessErased, DiscardsAreExplained,
       DeletionsAreRequested, NoDeletion, IsFree, TasksAreRight, BulkIsRight,
       NoTask, NoPost, NoBulk, NoEmployee, Employee

\* A deletion is only ever on its way for an employee in erased.
LEMMA DeletionStep == RegistrationInv /\ [Next]_vars => DeletionsAreRequested'
<1> SUFFICES ASSUME RegistrationInv, [Next]_vars, NEW e \in Employees, e \notin erased'
             PROVE  NoDeletion(e)'
  BY DEF DeletionsAreRequested
<1> USE DEF RegistrationInv, TypeOK, DeletionsAreRequested, NoDeletion, IsFree,
            local, remote, history, NoTask, NoPost
<1>1. ASSUME NEW f \in Employees, CreateEmployee(f) \/ UpdateEmployee(f) \/ PushStart(f)
      PROVE  NoDeletion(e)'
  BY <1>1 DEF CreateEmployee, UpdateEmployee, PushStart, NewTask
<1>2. ASSUME NEW f \in Employees, SoftDelete(f) \/ Erase(f) PROVE NoDeletion(e)'
  BY <1>2 DEF SoftDelete, Erase
<1>3. ASSUME NEW f \in Employees, DeleteFromAdms(f) PROVE NoDeletion(e)'
  BY <1>3 DEF DeleteFromAdms, NewTask
<1>4. CASE PullNames \/ Bulk \/ UNCHANGED vars
  BY <1>4 DEF PullNames, Bulk, BulkStart, BulkSend, BulkProcessed, BulkTracked,
              BulkChunkFails, BulkEnd, vars
<1>5. ASSUME NEW t \in Tasks,
             \/ Untrack(t) \/ Check(t) \/ RegistrationDone(t) \/ DeleteDone(t)
             \/ PostFails(t) \/ AttlogAnswered(t) \/ AttlogFails(t) \/ PostRefused(t)
      PROVE  NoDeletion(e)'
  BY <1>5 DEF Untrack, Check, RegistrationDone, DeleteDone, PostFails, AttlogAnswered,
              AttlogFails, PostRefused, AfterRegistration, TaskRecord
<1>6. ASSUME NEW t \in Tasks, PostAccepted(t) PROVE NoDeletion(e)'
  BY <1>6 DEF PostAccepted, Accept, TaskRecord
<1>7. ASSUME NEW t \in Tasks, PostTimesOut(t) PROVE NoDeletion(e)'
  <2>1. erasing' = erasing /\ erased' = erased
    BY <1>7 DEF PostTimesOut
  <2>2. \A u \in Tasks : ~IsFree(u)' /\ task'[u].emp = e => task'[u].kind # "delete"
    BY <1>7, <2>1 DEF PostTimesOut, AfterRegistration, TaskRecord
  <2>3. \A l \in Late : late'[l] # NoPost /\ late'[l].emp = e => late'[l].kind # "delete"
    BY <1>7, <2>1 DEF PostTimesOut, TaskRecord
  <2> QED BY <2>1, <2>2, <2>3
<1>8. ASSUME NEW l \in Late, LateAccepted(l) \/ LateLost(l) PROVE NoDeletion(e)'
  BY <1>8 DEF LateAccepted, LateLost, Accept, Post
<1>9. CASE ApiCrash \/ WorkerCrash
  BY <1>9 DEF ApiCrash, WorkerCrash, Without, Lost
<1> QED BY <1>1, <1>2, <1>3, <1>4, <1>5, <1>6, <1>7, <1>8, <1>9 DEF Next, Admin, Step, Adms

\* Only a deletion takes a name away from ADMS; the histories only grow.
LEMMA NamesStay ==
  ASSUME RegistrationInv, [Next]_vars
  PROVE  /\ erased \subseteq erased' /\ failed \subseteq failed'
         /\ \A e \in Employees \ erased' : Known(e) => Known(e)'
<1> USE DEF RegistrationInv, TypeOK, Known, local, remote, history
<1>1. ASSUME NEW e \in Employees, Erase(e) PROVE e \in erased
  BY <1>1 DEF Erase, DeletionsAreRequested, NoDeletion
<1>2. CASE \E e \in Employees : Erase(e)
  BY <1>1, <1>2 DEF Erase
<1>3. CASE \E t \in Tasks : PostAccepted(t)
  BY <1>3, NamesDiffer DEF PostAccepted, Accept, TaskRecord, NoTask
<1>4. CASE \E l \in Late : LateAccepted(l)
  BY <1>4, NamesDiffer DEF LateAccepted, Accept, Post, NoPost
<1>5. CASE BulkProcessed
  BY <1>5 DEF BulkProcessed, BulkIsRight
<1>6. CASE \E e \in Employees : Admin(e) \/ PushStart(e)
  BY <1>6 DEF Admin, CreateEmployee, UpdateEmployee, SoftDelete, DeleteFromAdms, PushStart
<1>7. CASE \/ PullNames \/ BulkStart \/ BulkSend \/ BulkTracked \/ BulkChunkFails \/ BulkEnd
          \/ ApiCrash \/ WorkerCrash \/ UNCHANGED vars
  BY <1>7 DEF PullNames, BulkStart, BulkSend, BulkTracked, BulkChunkFails, BulkEnd,
              ApiCrash, WorkerCrash, vars
<1>8. CASE \E t \in Tasks : Step(t) \/ PostRefused(t)
  BY <1>8 DEF Step, Untrack, Check, RegistrationDone, DeleteDone, PostFails, PostTimesOut,
              AttlogAnswered, AttlogFails, PostRefused
<1>9. CASE \E l \in Late : LateLost(l)
  BY <1>9 DEF LateLost
<1> QED BY <1>2, <1>3, <1>4, <1>5, <1>6, <1>7, <1>8, <1>9 DEF Next, Bulk, Adms

LEMMA TrackedStep == RegistrationInv /\ [Next]_vars => TrackedIsKnownUnlessErased'
<1> SUFFICES ASSUME RegistrationInv, [Next]_vars, NEW e \in tracked' \ erased'
             PROVE  Known(e)'
  BY DEF TrackedIsKnownUnlessErased, Known
<1>1. e \in Employees
  BY TypeStep DEF RegistrationInv, TypeOK
<1>2. e \in tracked \/ (\E t \in Tasks : RegistrationDone(t) /\ e = task[t].emp)
        \/ (BulkTracked /\ e \in bulk.chunk)
  BY DEF Next, vars, local, Admin, CreateEmployee, UpdateEmployee, SoftDelete, DeleteFromAdms,
         PushStart, PullNames, Bulk, BulkStart, BulkSend, BulkProcessed, BulkTracked,
         BulkChunkFails, BulkEnd, Step, Untrack, Check, RegistrationDone, DeleteDone, PostFails,
         PostTimesOut, AttlogAnswered, AttlogFails, ApiCrash, WorkerCrash, Adms, PostAccepted,
         PostRefused, LateAccepted, LateLost, Erase
<1>3. e \notin erased
  BY NamesStay
<1>4. Known(e)
  BY <1>2, <1>3 DEF RegistrationInv, TrackedIsKnownUnlessErased, Known, TasksAreRight,
                    BulkIsRight, RegistrationDone, BulkTracked
<1> QED BY <1>1, <1>4, NamesStay

LEMMA DiscardStep == RegistrationInv /\ [Next]_vars => DiscardsAreExplained'
<1> SUFFICES ASSUME RegistrationInv, [Next]_vars, NEW e \in discarded'
             PROVE  e \in failed' \union erased'
  BY DEF DiscardsAreExplained
<1>1. \/ e \in discarded
      \/ \E t \in Tasks : AttlogAnswered(t) /\ e = task[t].emp /\ ~Known(e)
  BY DEF Next, vars, history, Admin, CreateEmployee, UpdateEmployee, SoftDelete, DeleteFromAdms,
         PushStart, PullNames, Bulk, BulkStart, BulkSend, BulkProcessed, BulkTracked,
         BulkChunkFails, BulkEnd, Step, Untrack, Check, RegistrationDone, DeleteDone, PostFails,
         PostTimesOut, AttlogAnswered, AttlogFails, ApiCrash, WorkerCrash, Adms, PostAccepted,
         PostRefused, LateAccepted, LateLost, Erase, Known
<1>2. e \in failed \union erased
  BY <1>1 DEF RegistrationInv, DiscardsAreExplained, TasksAreRight, AttlogAnswered
<1> QED BY <1>2, NamesStay

LEMMA BulkStep == RegistrationInv /\ [Next]_vars => BulkIsRight'
<1> SUFFICES ASSUME RegistrationInv, [Next]_vars PROVE BulkIsRight'
  OBVIOUS
<1>1. CASE bulk' = bulk
  <2>1. bulk.chunk \subseteq Employees
    BY DEF RegistrationInv, TypeOK
  <2> QED BY <1>1, <2>1, NamesStay DEF RegistrationInv, BulkIsRight, Known
<1>2. CASE BulkStart
  BY <1>2, NamesDiffer DEF BulkStart, NamesNow, BulkIsRight, RegistrationInv, TypeOK, Employee
<1>3. CASE BulkSend
  BY <1>3 DEF BulkSend, BulkIsRight, RegistrationInv, TypeOK
<1>4. CASE BulkProcessed
  BY <1>4 DEF BulkProcessed, BulkIsRight, Known, RegistrationInv, TypeOK
<1>5. CASE BulkTracked
  BY <1>5, NamesDiffer DEF BulkTracked, NamesNow, BulkIsRight, RegistrationInv, TypeOK, Employee
<1>6. CASE BulkChunkFails
  BY <1>6 DEF BulkChunkFails, BulkIsRight, RegistrationInv, TypeOK
<1>7. CASE BulkEnd \/ ApiCrash
  BY <1>7 DEF BulkEnd, ApiCrash, NoBulk, BulkIsRight
<1> QED
  BY <1>1, <1>2, <1>3, <1>4, <1>5, <1>6, <1>7
  DEF Next, vars, Admin, CreateEmployee, UpdateEmployee, SoftDelete, DeleteFromAdms, PushStart,
      PullNames, Bulk, Step, Untrack, Check, RegistrationDone, DeleteDone, PostFails,
      PostTimesOut, AttlogAnswered, AttlogFails, WorkerCrash, Adms, PostAccepted,
      PostRefused, LateAccepted, LateLost, Erase

LEMMA TaskStep == RegistrationInv /\ [Next]_vars => TasksAreRight'
<1> SUFFICES ASSUME RegistrationInv, [Next]_vars, NEW t \in Tasks
             PROVE  /\ task'[t].st = "ok" /\ task'[t].kind # "delete"
                         => known'[task'[t].emp] # NoName \/ task'[t].emp \in erased'
                    /\ task'[t].st = "attlog"
                         => known'[task'[t].emp] # NoName \/ task'[t].emp \in erased' \union failed'
  BY DEF TasksAreRight, Known
<1>1. CASE task'[t] = task[t]
  <2>1. task[t].st # "free" => task[t].emp \in Employees
    BY DEF RegistrationInv, TypeOK, TaskRecord, NoTask
  <2> QED BY <1>1, <2>1, NamesStay DEF RegistrationInv, TasksAreRight, Known
<1>2. CASE task'[t].st \notin {"ok", "attlog"}
  BY <1>2
<1> DEFINE e == task[t].emp
<1>3. CASE PostAccepted(t)
  BY <1>3, NamesDiffer DEF PostAccepted, Accept, RegistrationInv, TypeOK, TaskRecord, NoTask, Known
<1>4. CASE Check(t) /\ e \in tracked
  <2>1. task'[t].st = "attlog" => task'[t].emp = e
    BY <1>4 DEF Check, AfterRegistration, RegistrationInv, TypeOK, TaskRecord, NoTask
  <2>2. Known(e) \/ e \in erased
    BY <1>4 DEF RegistrationInv, TrackedIsKnownUnlessErased, Known
  <2>3. e \in Employees
    BY <1>4 DEF RegistrationInv, TypeOK
  <2>4. task'[t].st # "ok"
    BY <1>4 DEF Check, AfterRegistration, RegistrationInv, TypeOK, TaskRecord, NoTask
  <2> HIDE DEF e
  <2> QED BY <2>1, <2>2, <2>3, <2>4, NamesStay DEF Known
<1>5. CASE RegistrationDone(t)
  <2>1. task'[t].st = "attlog" => task'[t].emp = e
    BY <1>5 DEF RegistrationDone, AfterRegistration, RegistrationInv, TypeOK, TaskRecord, NoTask
  <2>2. Known(e) \/ e \in erased
    BY <1>5 DEF RegistrationDone, RegistrationInv, TasksAreRight
  <2>3. e \in Employees
    BY <1>5 DEF RegistrationDone, RegistrationInv, TypeOK, TaskRecord, NoTask
  <2>4. task'[t].st # "ok"
    BY <1>5 DEF RegistrationDone, AfterRegistration, RegistrationInv, TypeOK, TaskRecord, NoTask
  <2> HIDE DEF e
  <2> QED BY <2>1, <2>2, <2>3, <2>4, NamesStay DEF Known
<1>6. CASE PostFails(t) \/ PostTimesOut(t)
  BY <1>6 DEF PostFails, PostTimesOut, AfterRegistration, RegistrationInv, TypeOK, TaskRecord,
              NoTask
<1>7. CASE Untrack(t) \/ DeleteDone(t) \/ AttlogAnswered(t) \/ AttlogFails(t) \/ PostRefused(t)
          \/ (Check(t) /\ e \notin tracked)
  <2>1. task'[t].st \notin {"ok", "attlog"}
    BY <1>7 DEF Untrack, Check, DeleteDone, AttlogAnswered, AttlogFails, PostRefused,
                AfterRegistration, RegistrationInv, TypeOK, TaskRecord, NoTask
  <2> QED BY <1>2, <2>1
<1>8. ASSUME NEW u \in Tasks, u # t, Step(u) \/ PostAccepted(u) \/ PostRefused(u)
      PROVE  task'[t] = task[t]
  BY <1>8 DEF Step, Untrack, Check, RegistrationDone, DeleteDone, PostFails, PostTimesOut,
              AttlogAnswered, AttlogFails, PostAccepted, PostRefused, AfterRegistration,
              RegistrationInv, TypeOK
<1>9. ASSUME NEW f \in Employees, Admin(f) \/ PushStart(f)
      PROVE  task'[t] = task[t] \/ task'[t].st \notin {"ok", "attlog"}
  BY <1>9 DEF Admin, CreateEmployee, UpdateEmployee, SoftDelete, DeleteFromAdms, PushStart,
              NewTask, RegistrationInv, TypeOK
<1>10. CASE ApiCrash \/ WorkerCrash
  <2>1. task'[t] = task[t] \/ task'[t] = NoTask
    BY <1>10 DEF ApiCrash, WorkerCrash, Without
  <2> QED BY <1>1, <1>2, <2>1 DEF NoTask
<1>11. CASE PullNames \/ Bulk \/ (\E l \in Late : LateAccepted(l) \/ LateLost(l))
           \/ (\E f \in Employees : Erase(f)) \/ UNCHANGED vars
  <2>1. task' = task
    BY <1>11 DEF PullNames, Bulk, BulkStart, BulkSend, BulkProcessed, BulkTracked, BulkChunkFails,
                 BulkEnd, LateAccepted, LateLost, Erase, vars
  <2> QED BY <1>1, <2>1
<1>12. CASE Step(t)
  BY <1>4, <1>5, <1>6, <1>7, <1>12 DEF Step
<1> HIDE DEF e
<1> QED
  BY <1>1, <1>2, <1>3, <1>7, <1>8, <1>9, <1>10, <1>11, <1>12 DEF Next, Adms

LEMMA InvStep == RegistrationInv /\ [Next]_vars => RegistrationInv'
<1> SUFFICES ASSUME RegistrationInv, [Next]_vars PROVE RegistrationInv'
  OBVIOUS
<1>1. TypeOK
  BY DEF RegistrationInv
<1> QED BY <1>1, TypeStep, DeletionStep, TrackedStep, DiscardStep, BulkStep, TaskStep
        DEF RegistrationInv

------------------------------------------------------------------------------
(* Names at rest *)

Of(t, e) == ~IsFree(t) /\ task[t].emp = e

\* A post whose client has given up is of an employee in failed.
LateFailed == \A l \in Late : late[l] # NoPost => late[l].emp \in failed

\* Outside overlapped an employee is in the hands of one task, or of the bulk sync.
OneAtATime ==
  \A e \in Employees \ overlapped :
    /\ \A t, u \in Tasks : Of(t, e) /\ Of(u, e) => t = u
    /\ e \in bulk.todo \union bulk.chunk => \A t \in Tasks : ~Of(t, e)

\* None of the exceptions of NamesAlignAtRest.
Clean(e) == /\ e \notin failed /\ e \notin overlapped /\ e \notin erased /\ e \notin missed
            /\ employee[e].here = "present"

\* What is under way for an employee carries the name of the employees page; once it
\* is accepted ADMS has that name.
TaskAligned(t, e) ==
  /\ Of(t, e) /\ task[t].st # "attlog" => task[t].name = employee[e].name
  /\ Of(t, e) /\ task[t].st = "ok" => known[e] = employee[e].name

BulkAligned(e) ==
  /\ e \in bulk.todo \union bulk.chunk => bulk.names[e] = employee[e].name
  /\ bulk.st = "ok" /\ e \in bulk.chunk => known[e] = employee[e].name

\* The row of a tracked employee whose new name waits for _bg_sync is about to go.
TrackedAligned(e) ==
  e \in tracked /\ (\A t \in Tasks : Of(t, e) => task[t].st # "untrack")
    => known[e] = employee[e].name

Aligned(e) == (\A t \in Tasks : TaskAligned(t, e)) /\ TrackedAligned(e) /\ BulkAligned(e)

AlignInv == LateFailed /\ OneAtATime /\ \A e \in Employees : Clean(e) => Aligned(e)

LEMMA AlignInit == Init => AlignInv
BY DEF Init, AlignInv, LateFailed, OneAtATime, Clean, Of, IsFree, NoTask, NoPost, NoBulk,
       NoEmployee

LEMMA LateStep == RegistrationInv /\ LateFailed /\ [Next]_vars => LateFailed'
<1> SUFFICES ASSUME RegistrationInv, LateFailed, [Next]_vars, NEW l \in Late, late'[l] # NoPost
             PROVE  late'[l].emp \in failed'
  BY DEF LateFailed
<1>1. late'[l] = late[l] \/ (\E t \in Tasks : PostTimesOut(t) /\ late'[l].emp = task[t].emp)
  <2>1. ASSUME NEW t \in Tasks, PostTimesOut(t)
        PROVE  late'[l] = late[l] \/ late'[l].emp = task[t].emp
    BY <2>1 DEF PostTimesOut, RegistrationInv, TypeOK
  <2>2. ASSUME NEW k \in Late, LateAccepted(k) \/ LateLost(k)
        PROVE  late'[l] = late[l]
    BY <2>2 DEF LateAccepted, LateLost, RegistrationInv, TypeOK
  <2>3. late' = late \/ (\E t \in Tasks : PostTimesOut(t))
          \/ (\E k \in Late : LateAccepted(k) \/ LateLost(k))
    BY DEF Next, vars, Admin, CreateEmployee, UpdateEmployee, SoftDelete, DeleteFromAdms,
           PushStart, PullNames, Bulk, BulkStart, BulkSend, BulkProcessed, BulkTracked,
           BulkChunkFails, BulkEnd, Step, Untrack, Check, RegistrationDone, DeleteDone, PostFails,
           AttlogAnswered, AttlogFails, ApiCrash, WorkerCrash, Adms, PostAccepted, PostRefused,
           Erase
  <2> QED BY <2>1, <2>2, <2>3
<1> QED BY <1>1, NamesStay DEF LateFailed, PostTimesOut

\* What a step makes of the tasks: it starts one, or those under way go on or end.
TasksGoOn == \A t \in Tasks, e \in Employees : Of(t, e)' => Of(t, e)
TaskStarts(e) == \E t \in Tasks : /\ IsFree(t) /\ task'[t].emp = e
                                  /\ \A u \in Tasks \ {t} : task'[u] = task[u]

LEMMA TasksChange ==
  ASSUME TypeOK, [Next]_vars
  PROVE  \/ TasksGoOn
         \/ \E e \in Employees : TaskStarts(e) /\ Overlap({e}) /\ bulk' = bulk
<1> USE DEF TypeOK, Of, IsFree
<1>1. ASSUME NEW e \in Employees, UpdateEmployee(e), task' # task
      PROVE  TaskStarts(e) /\ Overlap({e}) /\ bulk' = bulk
  BY <1>1 DEF UpdateEmployee, TaskStarts, NewTask
<1>2. ASSUME NEW e \in Employees, CreateEmployee(e), task' # task
      PROVE  TaskStarts(e) /\ Overlap({e}) /\ bulk' = bulk
  BY <1>2 DEF CreateEmployee, TaskStarts, NewTask
<1>3. ASSUME NEW e \in Employees, DeleteFromAdms(e) \/ PushStart(e)
      PROVE  TaskStarts(e) /\ Overlap({e}) /\ bulk' = bulk
  BY <1>3 DEF DeleteFromAdms, PushStart, TaskStarts, NewTask
<1>4. ASSUME NEW t \in Tasks, Step(t) \/ PostAccepted(t) \/ PostRefused(t) PROVE TasksGoOn
  <2>1. ~IsFree(t) /\ \A u \in Tasks \ {t} : task'[u] = task[u]
    BY <1>4 DEF Step, Untrack, Check, RegistrationDone, DeleteDone, PostFails, PostTimesOut,
                AttlogAnswered, AttlogFails, PostAccepted, PostRefused, AfterRegistration
  <2>2. task'[t] = NoTask \/ task'[t].emp = task[t].emp
    BY <1>4, <2>1 DEF Step, Untrack, Check, RegistrationDone, DeleteDone, PostFails,
                PostTimesOut, AttlogAnswered, AttlogFails, PostAccepted, PostRefused,
                AfterRegistration, TaskRecord, NoTask
  <2> QED BY <2>1, <2>2 DEF TasksGoOn, NoTask
<1>5. CASE ApiCrash \/ WorkerCrash
  BY <1>5 DEF ApiCrash, WorkerCrash, Without, TasksGoOn, NoTask
<1>6. ASSUME task' = task PROVE TasksGoOn
  BY <1>6 DEF TasksGoOn
<1>7. CASE \/ PullNames \/ Bulk \/ (\E l \in Late : LateAccepted(l) \/ LateLost(l))
           \/ (\E f \in Employees : Erase(f) \/ SoftDelete(f)) \/ UNCHANGED vars
  <2>1. task' = task
    BY <1>7 DEF PullNames, Bulk, BulkStart, BulkSend, BulkProcessed, BulkTracked, BulkChunkFails,
                BulkEnd, LateAccepted, LateLost, Erase, SoftDelete, vars
  <2> QED BY <1>6, <2>1
<1> QED BY <1>1, <1>2, <1>3, <1>4, <1>5, <1>6, <1>7 DEF Next, Admin, Adms

LEMMA HistoriesGrow ==
  ASSUME [Next]_vars
  PROVE  overlapped \subseteq overlapped' /\ failed \subseteq failed' /\ erased \subseteq erased'
BY DEF Next, vars, history, Admin, CreateEmployee, UpdateEmployee, SoftDelete, DeleteFromAdms,
       PushStart, PullNames, Bulk, BulkStart, BulkSend, BulkProcessed, BulkTracked,
       BulkChunkFails, BulkEnd, Step, Untrack, Check, RegistrationDone, DeleteDone, PostFails,
       PostTimesOut, AttlogAnswered, AttlogFails, ApiCrash, WorkerCrash, Adms, PostAccepted,
       PostRefused, LateAccepted, LateLost, Erase, Overlap

LEMMA OneStep == TypeOK /\ OneAtATime /\ [Next]_vars => OneAtATime'
<1> SUFFICES ASSUME TypeOK, OneAtATime, [Next]_vars, NEW e \in Employees, e \notin overlapped'
             PROVE  /\ \A t, u \in Tasks : Of(t, e)' /\ Of(u, e)' => t = u
                    /\ e \in (bulk.todo \union bulk.chunk)' => \A t \in Tasks : ~Of(t, e)'
  BY DEF OneAtATime
<1>0. e \notin overlapped
  BY HistoriesGrow
<1>1. CASE \E f \in Employees : TaskStarts(f) /\ Overlap({f}) /\ bulk' = bulk
  <2>1. PICK f \in Employees : TaskStarts(f) /\ Overlap({f}) /\ bulk' = bulk
    BY <1>1
  <2>2. PICK t \in Tasks : /\ task'[t].emp = f
                           /\ \A u \in Tasks \ {t} : task'[u] = task[u]
    BY <2>1 DEF TaskStarts
  <2>3. \A u \in Tasks \ {t} : Of(u, e)' <=> Of(u, e)
    BY <2>2 DEF Of, IsFree
  <2>4. CASE f = e
    <3>1. ~Busy(e)
      BY <2>1, <2>4 DEF Overlap
    <3>2. (\A u \in Tasks : ~Of(u, e)) /\ e \notin bulk.todo \union bulk.chunk
      BY <3>1 DEF Busy, Of
    <3> QED BY <2>1, <2>3, <3>2
  <2>5. CASE f # e
    <3>1. ~Of(t, e)'
      BY <2>2, <2>5 DEF Of
    <3> QED BY <1>0, <2>1, <2>3, <3>1 DEF OneAtATime
  <2> QED BY <2>4, <2>5
<1>2. CASE TasksGoOn
  <2>1. (\A t, u \in Tasks : Of(t, e)' /\ Of(u, e)' => t = u)
    BY <1>0, <1>2 DEF TasksGoOn, OneAtATime
  <2>2. CASE BulkStart
    BY <1>2, <2>1, <2>2 DEF BulkStart, Overlap, Busy, TasksGoOn, Of
  <2>3. ASSUME ~BulkStart
        PROVE  (bulk.todo \union bulk.chunk)' \subseteq bulk.todo \union bulk.chunk
    <3>1. CASE BulkSend \/ BulkProcessed \/ BulkTracked \/ BulkChunkFails
      BY <3>1 DEF TypeOK, BulkSend, BulkProcessed, BulkTracked, BulkChunkFails
    <3>2. CASE BulkEnd \/ ApiCrash
      BY <3>2 DEF BulkEnd, ApiCrash, NoBulk
    <3>3. CASE bulk' = bulk
      BY <3>3
    <3> QED
      BY <2>3, <3>1, <3>2, <3>3
      DEF Next, vars, Admin, CreateEmployee, UpdateEmployee, SoftDelete, DeleteFromAdms,
          PushStart, PullNames, Bulk, Step, Untrack, Check, RegistrationDone, DeleteDone,
          PostFails, PostTimesOut, AttlogAnswered, AttlogFails, WorkerCrash, Adms,
          PostAccepted, PostRefused, LateAccepted, LateLost, Erase
  <2> QED BY <1>0, <1>2, <2>1, <2>2, <2>3 DEF TasksGoOn, OneAtATime
<1> QED BY <1>1, <1>2, TasksChange

\* A step that leaves the employee alone.
LEMMA AlignedElsewhere ==
  ASSUME NEW e \in Employees, Aligned(e), bulk' = bulk,
         employee'[e].name = employee[e].name, known'[e] = known[e],
         e \in tracked' => e \in tracked,
         \A t \in Tasks : Of(t, e)' => task'[t] = task[t],
         \A t \in Tasks : Of(t, e) => Of(t, e)'
  PROVE  Aligned(e)'
<1>1. \A t \in Tasks : TaskAligned(t, e)'
  BY DEF Aligned, TaskAligned, Of, IsFree
<1>2. TrackedAligned(e)'
  BY DEF Aligned, TrackedAligned
<1>3. BulkAligned(e)'
  BY DEF Aligned, BulkAligned
<1> QED BY <1>1, <1>2, <1>3 DEF Aligned

\* A registration that starts while nothing is under way for the employee.
LEMMA AlignedAtStart ==
  ASSUME NEW e \in Employees, ~Busy(e), bulk' = bulk, NEW t \in Tasks,
         \A u \in Tasks \ {t} : task'[u] = task[u],
         task'[t].emp = e, task'[t].name = employee'[e].name,
         \/ task'[t].st = "untrack"
         \/ task'[t].st = "check" /\ (e \in tracked' => known'[e] = employee'[e].name)
  PROVE  Aligned(e)'
<1>1. (\A u \in Tasks : ~Of(u, e)) /\ e \notin bulk.todo \union bulk.chunk
  BY DEF Busy, Of
<1>2. \A u \in Tasks \ {t} : ~Of(u, e)'
  BY <1>1 DEF Of, IsFree
<1>3. \A u \in Tasks : TaskAligned(u, e)'
  BY <1>2 DEF TaskAligned
<1>4. TrackedAligned(e)'
  BY DEF TrackedAligned, Of, IsFree
<1>5. BulkAligned(e)'
  BY <1>1 DEF BulkAligned
<1> QED BY <1>3, <1>4, <1>5 DEF Aligned

\* One employee's part of the step: every action that can disturb Aligned(e).
LEMMA AlignedStep ==
  ASSUME RegistrationInv, AlignInv, [Next]_vars, NEW e \in Employees, Clean(e)'
  PROVE  Aligned(e)'
<1> USE DEF RegistrationInv, TypeOK, local, remote, history
<1>0. e \notin failed /\ e \notin overlapped /\ e \notin erased
  BY HistoriesGrow DEF Clean
<1>1. NoDeletion(e) /\ \A l \in Late : late[l] # NoPost => late[l].emp # e
  BY <1>0 DEF DeletionsAreRequested, AlignInv, LateFailed
<1>2. e \notin missed' /\ employee'[e].here = "present"
  BY DEF Clean
<1>3. missed \subseteq missed' /\ employee'[e].here = employee[e].here => Aligned(e)
  BY <1>0, <1>2 DEF AlignInv, Clean
<1>4. ASSUME NEW f \in Employees, CreateEmployee(f) PROVE Aligned(e)'
  <2>1. CASE f = e
    <3>1. ~Busy(e)
      BY <1>2, <1>4, <2>1 DEF CreateEmployee, Overlap, Clean
    <3>2. PICK x \in Employee, t \in Tasks :
            /\ employee' = [employee EXCEPT ![e] = x]
            /\ task' = [task EXCEPT ![t] = NewTask("check", "create", e, x.name)]
      BY <1>2, <1>4, <2>1 DEF CreateEmployee
    <3>3. e \notin tracked' /\ bulk' = bulk
      BY <1>2, <1>4, <2>1 DEF CreateEmployee
    <3>4. /\ task'[t].emp = e /\ task'[t].name = employee'[e].name /\ task'[t].st = "check"
          /\ \A u \in Tasks \ {t} : task'[u] = task[u]
      BY <3>2 DEF NewTask
    <3> QED BY <3>1, <3>3, <3>4, AlignedAtStart
  <2>2. CASE f # e
    <3>1. /\ employee'[e] = employee[e] /\ missed \subseteq missed' /\ bulk' = bulk
          /\ known' = known /\ tracked' = tracked
      BY <1>4, <2>2 DEF CreateEmployee
    <3>2. \A t \in Tasks : (Of(t, e)' => task'[t] = task[t]) /\ (Of(t, e) => Of(t, e)')
      BY <1>4, <2>2 DEF CreateEmployee, NewTask, Of, IsFree
    <3> QED BY <1>3, <3>1, <3>2, AlignedElsewhere
  <2> QED BY <2>1, <2>2
<1>5. ASSUME NEW f \in Employees, UpdateEmployee(f) PROVE Aligned(e)'
  <2>1. CASE f = e /\ Overlap({e})
                   /\ \E t \in Tasks, x \in Employee :
                        /\ employee' = [employee EXCEPT ![e] = x]
                        /\ task' = [task EXCEPT ![t] = NewTask("untrack", "rename", e, x.name)]
    <3>1. ~Busy(e)
      BY <2>1 DEF Overlap, Clean
    <3>2. PICK x \in Employee, t \in Tasks :
            /\ employee' = [employee EXCEPT ![e] = x]
            /\ task' = [task EXCEPT ![t] = NewTask("untrack", "rename", e, x.name)]
      BY <2>1
    <3>3. bulk' = bulk
      BY <1>5 DEF UpdateEmployee
    <3>4. /\ task'[t].emp = e /\ task'[t].name = employee'[e].name /\ task'[t].st = "untrack"
          /\ \A u \in Tasks \ {t} : task'[u] = task[u]
      BY <3>2 DEF NewTask
    <3> QED BY <3>1, <3>3, <3>4, AlignedAtStart
  <2>2. CASE f = e /\ task' = task /\ employee'[e].name = employee[e].name
                   /\ missed \subseteq missed'
    <3>1. bulk' = bulk /\ known' = known /\ tracked' = tracked
      BY <1>5 DEF UpdateEmployee
    <3>2. employee[e].here = "present"
      BY <1>5, <2>2 DEF UpdateEmployee
    <3>3. \A t \in Tasks : (Of(t, e)' => task'[t] = task[t]) /\ (Of(t, e) => Of(t, e)')
      BY <2>2 DEF Of, IsFree
    <3> QED BY <1>2, <1>3, <2>2, <3>1, <3>2, <3>3, AlignedElsewhere
  <2>3. CASE f # e
    <3>1. /\ employee'[e] = employee[e] /\ (e \in missed => e \in missed') /\ bulk' = bulk
          /\ known' = known /\ tracked' = tracked
      BY <1>5, <2>3 DEF UpdateEmployee
    <3>2. \A t \in Tasks : (Of(t, e)' => task'[t] = task[t]) /\ (Of(t, e) => Of(t, e)')
      BY <1>5, <2>3 DEF UpdateEmployee, NewTask, Of, IsFree
    <3>3. Aligned(e)
      BY <1>0, <1>2, <3>1 DEF AlignInv, Clean
    <3> QED BY <3>1, <3>2, <3>3, AlignedElsewhere
  <2>4. f = e => \/ e \in missed'
                 \/ /\ task' = task /\ employee'[e].name = employee[e].name
                    /\ missed \subseteq missed'
                 \/ /\ Overlap({e})
                    /\ \E t \in Tasks, x \in Employee :
                        /\ employee' = [employee EXCEPT ![e] = x]
                        /\ task' = [task EXCEPT ![t] = NewTask("untrack", "rename", e, x.name)]
    <3> SUFFICES ASSUME f = e, e \notin missed', ~(task' = task /\ missed \subseteq missed'
                                                  /\ employee'[e].name = employee[e].name)
                 PROVE  /\ Overlap({e})
                        /\ \E t \in Tasks, x \in Employee :
                             /\ employee' = [employee EXCEPT ![e] = x]
                             /\ task' = [task EXCEPT ![t] = NewTask("untrack", "rename", e, x.name)]
      OBVIOUS
    <3>1. PICK x \in Employee :
            /\ employee' = [employee EXCEPT ![e] = x]
            /\ \/ /\ \E t \in Tasks :
                       task' = [task EXCEPT ![t] = NewTask("untrack", "rename", e, x.name)]
                  /\ Overlap({e})
               \/ /\ missed' = IF x.name # employee[e].name THEN missed \union {e} ELSE missed
                  /\ task' = task
      BY <1>5 DEF UpdateEmployee
    <3>2. employee'[e] = x
      BY <3>1
    <3> QED BY <3>1, <3>2
  <2> QED BY <1>2, <2>1, <2>2, <2>3, <2>4
<1>6. ASSUME NEW f \in Employees, SoftDelete(f) PROVE Aligned(e)'
  <2>1. f # e
    BY <1>2, <1>6 DEF SoftDelete, Employee
  <2>2. /\ employee'[e] = employee[e] /\ missed' = missed /\ bulk' = bulk
        /\ known' = known /\ tracked' \subseteq tracked /\ task' = task
    BY <1>6, <2>1 DEF SoftDelete
  <2>3. \A t \in Tasks : (Of(t, e)' => task'[t] = task[t]) /\ (Of(t, e) => Of(t, e)')
    BY <2>2 DEF Of, IsFree
  <2> QED BY <1>3, <2>2, <2>3, AlignedElsewhere
<1>7. ASSUME NEW f \in Employees, DeleteFromAdms(f) PROVE Aligned(e)'
  <2>1. f # e
    BY <1>7 DEF DeleteFromAdms, Clean
  <2>2. /\ employee' = employee /\ missed' = missed /\ bulk' = bulk
        /\ known' = known /\ tracked' \subseteq tracked
    BY <1>7, <2>1 DEF DeleteFromAdms
  <2>3. \A t \in Tasks : (Of(t, e)' => task'[t] = task[t]) /\ (Of(t, e) => Of(t, e)')
    BY <1>7, <2>1 DEF DeleteFromAdms, NewTask, Of, IsFree
  <2> QED BY <1>3, <2>2, <2>3, AlignedElsewhere
<1>8. ASSUME NEW f \in Employees, PushStart(f) PROVE Aligned(e)'
  <2>1. /\ employee' = employee /\ missed \subseteq missed' /\ bulk' = bulk
        /\ known' = known /\ tracked' = tracked
    BY <1>8 DEF PushStart
  <2>2. Aligned(e)
    BY <1>3, <2>1
  <2>3. CASE f = e
    <3>1. PICK t \in Tasks :
            task' = [task EXCEPT ![t] = NewTask("check", "push", e, employee[e].name)]
      BY <1>2, <1>8, <2>1, <2>3 DEF PushStart
    <3>2. ~Busy(e)
      BY <1>8, <2>3 DEF PushStart, Overlap, Clean
    <3>3. e \in tracked' => known'[e] = employee'[e].name
      BY <2>1, <2>2, <3>2 DEF Aligned, TrackedAligned, Busy, Of
    <3>4. /\ task'[t].emp = e /\ task'[t].name = employee'[e].name /\ task'[t].st = "check"
          /\ \A u \in Tasks \ {t} : task'[u] = task[u]
      BY <2>1, <3>1 DEF NewTask
    <3> QED BY <2>1, <3>2, <3>3, <3>4, AlignedAtStart
  <2>4. CASE f # e
    <3>1. \A t \in Tasks : (Of(t, e)' => task'[t] = task[t]) /\ (Of(t, e) => Of(t, e)')
      BY <1>8, <2>4 DEF PushStart, NewTask, Of, IsFree
    <3> QED BY <2>1, <2>2, <3>1, AlignedElsewhere
  <2> QED BY <2>3, <2>4
<1>9. CASE PullNames
  <2>1. /\ bulk' = bulk /\ known' = known /\ tracked' = tracked /\ task' = task
        /\ missed' = missed
    BY <1>9 DEF PullNames
  <2>2. \A t \in Tasks : (Of(t, e)' => task'[t] = task[t]) /\ (Of(t, e) => Of(t, e)')
    BY <2>1 DEF Of, IsFree
  <2>3. CASE employee'[e] = employee[e]
    BY <1>3, <2>1, <2>2, <2>3, AlignedElsewhere
  <2>4. CASE employee'[e] # employee[e]
    <3>1. ~Busy(e) /\ employee'[e].name = known[e]
      BY <1>9, <2>4 DEF PullNames, Clean, Employee
    <3>2. (\A t \in Tasks : ~Of(t, e)') /\ e \notin (bulk.todo \union bulk.chunk)'
      BY <2>1, <3>1 DEF Busy, Of, IsFree
    <3> QED BY <2>1, <3>1, <3>2 DEF Aligned, TaskAligned, TrackedAligned, BulkAligned
  <2> QED BY <2>3, <2>4
<1>10. CASE Bulk
  <2>1. /\ employee' = employee /\ missed' = missed /\ task' = task
        /\ known' = known \/ BulkProcessed
        /\ tracked' = tracked \/ BulkTracked
    BY <1>10 DEF Bulk, BulkStart, BulkSend, BulkProcessed, BulkTracked, BulkChunkFails, BulkEnd
  <2>0. Aligned(e)
    BY <1>3, <2>1
  <2>2. /\ e \in bulk.todo \union bulk.chunk => bulk.names[e] = employee[e].name
        /\ bulk.st = "ok" /\ e \in bulk.chunk => known[e] = employee[e].name
    BY <2>0 DEF Aligned, BulkAligned
  <2>3. known'[e] = known[e] \/ known'[e] = employee[e].name
    BY <2>1, <2>2 DEF BulkProcessed
  <2>4. \A t \in Tasks : TaskAligned(t, e)'
    BY <2>0, <2>1, <2>3 DEF Aligned, TaskAligned, Of, IsFree
  <2>5. e \in tracked' => e \in tracked \/ known'[e] = employee[e].name
    <3>1. CASE tracked' = tracked
      BY <3>1
    <3>2. CASE BulkTracked
      <4>1. bulk.st = "ok" /\ tracked' = tracked \union bulk.chunk /\ known' = known
        BY <3>2 DEF BulkTracked
      <4> QED BY <2>2, <4>1
    <3> QED BY <2>1, <3>1, <3>2
  <2>6. TrackedAligned(e)'
    BY <2>0, <2>1, <2>3, <2>5 DEF Aligned, TrackedAligned, Of, IsFree
  <2>7. BulkAligned(e)'
    <3>1. CASE BulkStart
      BY <2>1, <3>1 DEF BulkStart, NamesNow, BulkAligned
    <3>2. CASE BulkSend
      BY <2>1, <2>2, <3>2 DEF BulkSend, BulkAligned
    <3>3. CASE BulkProcessed
      BY <2>1, <2>2, <3>3 DEF BulkProcessed, BulkAligned
    <3>4. CASE BulkTracked
      BY <2>1, <2>2, <3>4 DEF BulkTracked, NamesNow, BulkAligned
    <3>5. CASE BulkChunkFails
      BY <2>1, <2>2, <3>5 DEF BulkChunkFails, BulkAligned
    <3>6. CASE BulkEnd
      BY <2>1, <2>2, <3>6 DEF BulkEnd, NoBulk, BulkAligned
    <3> QED BY <1>10, <3>1, <3>2, <3>3, <3>4, <3>5, <3>6 DEF Bulk
  <2> QED BY <2>4, <2>6, <2>7 DEF Aligned
<1>11. ASSUME NEW t \in Tasks, Step(t) \/ PostAccepted(t) \/ PostRefused(t) PROVE Aligned(e)'
  <2>1. /\ bulk' = bulk /\ employee' = employee /\ missed' = missed
        /\ \A u \in Tasks \ {t} : task'[u] = task[u]
    BY <1>11 DEF Step, Untrack, Check, RegistrationDone, DeleteDone, PostFails, PostTimesOut,
                 AttlogAnswered, AttlogFails, PostAccepted, PostRefused, AfterRegistration
  <2>2. ~IsFree(t) /\ task[t].emp \in Employees
    BY <1>11 DEF Step, Untrack, Check, RegistrationDone, DeleteDone, PostFails, PostTimesOut,
                 AttlogAnswered, AttlogFails, PostAccepted, PostRefused, IsFree, TaskRecord, NoTask
  <2>3. Aligned(e)
    BY <1>3, <2>1
  <2>4. CASE task[t].emp # e
    <3>1. known'[e] = known[e] /\ (e \in tracked' => e \in tracked)
      BY <1>11, <2>4 DEF Step, Untrack, Check, RegistrationDone, DeleteDone, PostFails,
           PostTimesOut, AttlogAnswered, AttlogFails, PostAccepted, PostRefused, Accept
    <3>2. ~Of(t, e)'
      BY <1>11, <2>2, <2>4 DEF Step, Untrack, Check, RegistrationDone, DeleteDone, PostFails,
           PostTimesOut, AttlogAnswered, AttlogFails, PostAccepted, PostRefused,
           AfterRegistration, Of, IsFree, TaskRecord, NoTask
    <3>3. \A u \in Tasks : (Of(u, e)' => task'[u] = task[u]) /\ (Of(u, e) => Of(u, e)')
      BY <2>1, <2>4, <3>2 DEF Of, IsFree
    <3> QED BY <2>1, <2>3, <3>1, <3>3, AlignedElsewhere
  <2>5. CASE task[t].emp = e
    <3>1. Of(t, e) /\ \A u \in Tasks \ {t} : ~Of(u, e)
      BY <1>0, <2>2, <2>5 DEF AlignInv, OneAtATime, Of
    <3>2. e \notin bulk.todo \union bulk.chunk
      BY <1>0, <3>1 DEF AlignInv, OneAtATime
    <3>3. BulkAligned(e)'
      BY <2>1, <3>2 DEF BulkAligned
    <3>4. \A u \in Tasks \ {t} : ~Of(u, e)'
      BY <2>1, <3>1 DEF Of, IsFree
    <3>5. /\ task[t].kind # "delete"
          /\ task[t].st # "attlog" => task[t].name = employee[e].name
          /\ task[t].st = "ok" => known[e] = employee[e].name
      BY <1>1, <2>3, <3>1 DEF NoDeletion, Of, Aligned, TaskAligned
    <3>6. task[t].st # "untrack" => (e \in tracked => known[e] = employee[e].name)
      BY <2>3, <3>1 DEF Aligned, TrackedAligned
    <3> HIDE DEF TypeOK, RegistrationInv
    <3>7. task \in [Tasks -> TaskRecord \union {NoTask}] /\ task[t] \in TaskRecord
      BY <2>2 DEF RegistrationInv, TypeOK, IsFree, NoTask
    <3>8. TaskAligned(t, e)' /\ TrackedAligned(e)'
      <4>1. CASE Untrack(t)
        <5>1. /\ tracked' = tracked \ {e} /\ known' = known /\ task[t].st = "untrack"
              /\ task'[t].st = "check" /\ task'[t].emp = e /\ task'[t].name = task[t].name
          BY <2>5, <3>7, <4>1 DEF Untrack, TaskRecord
        <5> QED BY <2>1, <3>5, <5>1 DEF TaskAligned, TrackedAligned, Of
      <4>2. CASE Check(t)
        <5>1. /\ tracked' = tracked /\ known' = known /\ task[t].st = "check"
              /\ \/ task'[t] = NoTask
                 \/ /\ task'[t].st \in {"sent", "attlog"} /\ task'[t].name = task[t].name
          BY <3>7, <4>2 DEF Check, AfterRegistration, TaskRecord
        <5> QED BY <2>1, <3>5, <3>6, <5>1 DEF TaskAligned, TrackedAligned, Of, IsFree, NoTask
      <4>3. CASE RegistrationDone(t)
        <5>1. /\ tracked' = tracked \union {e} /\ known' = known /\ task[t].st = "ok"
              /\ task'[t] = NoTask \/ task'[t].st = "attlog"
          BY <2>5, <3>7, <4>3 DEF RegistrationDone, AfterRegistration, TaskRecord
        <5> QED BY <2>1, <3>5, <5>1 DEF TaskAligned, TrackedAligned, Of, IsFree, NoTask
      <4>4. CASE AttlogAnswered(t) \/ AttlogFails(t)
        <5>1. /\ tracked' = tracked /\ known' = known /\ task[t].st = "attlog"
              /\ task'[t] = NoTask
          BY <3>7, <4>4 DEF AttlogAnswered, AttlogFails
        <5> QED BY <2>1, <3>6, <5>1 DEF TaskAligned, TrackedAligned, Of, IsFree, NoTask
      <4>5. CASE PostAccepted(t)
        <5>1. /\ tracked' = tracked /\ known'[e] = task[t].name /\ task[t].st = "sent"
              /\ task'[t].st = "ok" /\ task'[t].name = task[t].name
          BY <2>5, <3>5, <3>7, <4>5 DEF PostAccepted, Accept, TaskRecord, RegistrationInv, TypeOK
        <5> QED BY <2>1, <3>5, <5>1 DEF TaskAligned, TrackedAligned
      <4>6. CASE PostRefused(t)
        <5>1. /\ tracked' = tracked /\ known' = known /\ task[t].st = "sent"
              /\ task'[t].st = "error" /\ task'[t].name = task[t].name
          BY <3>7, <4>6 DEF PostRefused, TaskRecord
        <5> QED BY <2>1, <3>5, <3>6, <5>1 DEF TaskAligned, TrackedAligned
      <4>7. CASE DeleteDone(t)
        BY <3>5, <4>7 DEF DeleteDone
      <4>8. CASE PostFails(t) \/ PostTimesOut(t)
        BY <2>5, <4>8 DEF PostFails, PostTimesOut, Clean
      <4> QED BY <1>11, <4>1, <4>2, <4>3, <4>4, <4>5, <4>6, <4>7, <4>8 DEF Step
    <3>9. \A u \in Tasks : TaskAligned(u, e)'
      BY <3>4, <3>8 DEF TaskAligned
    <3> QED BY <3>3, <3>8, <3>9 DEF Aligned
  <2> QED BY <2>4, <2>5
<1>12. ASSUME NEW l \in Late, LateAccepted(l) \/ LateLost(l) PROVE Aligned(e)'
  <2>1. /\ bulk' = bulk /\ employee' = employee /\ missed' = missed /\ task' = task
        /\ tracked' = tracked
    BY <1>12 DEF LateAccepted, LateLost
  <2>2. known'[e] = known[e]
    BY <1>1, <1>12 DEF LateAccepted, LateLost, Accept
  <2>3. \A u \in Tasks : (Of(u, e)' => task'[u] = task[u]) /\ (Of(u, e) => Of(u, e)')
    BY <2>1 DEF Of, IsFree
  <2> QED BY <1>3, <2>1, <2>2, <2>3, AlignedElsewhere
<1>13. ASSUME NEW f \in Employees, Erase(f) PROVE Aligned(e)'
  <2>1. /\ bulk' = bulk /\ employee' = employee /\ missed' = missed /\ task' = task
        /\ tracked' = tracked
    BY <1>13 DEF Erase
  <2>2. known'[e] = known[e]
    BY <1>1, <1>13 DEF Erase, NoDeletion
  <2>3. \A u \in Tasks : (Of(u, e)' => task'[u] = task[u]) /\ (Of(u, e) => Of(u, e)')
    BY <2>1 DEF Of, IsFree
  <2> QED BY <1>3, <2>1, <2>2, <2>3, AlignedElsewhere
<1>14. CASE ApiCrash \/ WorkerCrash
  <2>1. /\ employee' = employee /\ missed' = missed /\ known' = known /\ tracked' = tracked
        /\ bulk' = bulk \/ (ApiCrash /\ bulk' = NoBulk)
    BY <1>14 DEF ApiCrash, WorkerCrash
  <2>2. Aligned(e)
    BY <1>3, <2>1
  <2>3. \A u \in Tasks : Of(u, e) => task'[u] = task[u]
    BY <1>14 DEF ApiCrash, WorkerCrash, Without, Lost, Clean, Of
  <2>4. \A u \in Tasks : task'[u] = task[u] \/ task'[u] = NoTask
    BY <1>14 DEF ApiCrash, WorkerCrash, Without
  <2>5. \A u \in Tasks : (Of(u, e)' => task'[u] = task[u]) /\ (Of(u, e) => Of(u, e)')
    BY <2>3, <2>4 DEF Of, IsFree, NoTask
  <2>6. CASE bulk' = bulk
    BY <2>1, <2>2, <2>5, <2>6, AlignedElsewhere
  <2>7. CASE bulk' = NoBulk
    <3>1. \A u \in Tasks : TaskAligned(u, e)'
      BY <2>1, <2>2, <2>5 DEF Aligned, TaskAligned, Of, IsFree
    <3>2. TrackedAligned(e)'
      BY <2>1, <2>2, <2>5 DEF Aligned, TrackedAligned
    <3> QED BY <2>7, <3>1, <3>2 DEF Aligned, BulkAligned, NoBulk
  <2> QED BY <2>1, <2>6, <2>7
<1>15. CASE UNCHANGED vars
  <2>1. \A u \in Tasks : (Of(u, e)' => task'[u] = task[u]) /\ (Of(u, e) => Of(u, e)')
    BY <1>15 DEF vars, Of, IsFree
  <2> QED BY <1>3, <1>15, <2>1, AlignedElsewhere DEF vars
<1> QED
  BY <1>4, <1>5, <1>6, <1>7, <1>8, <1>9, <1>10, <1>11, <1>12, <1>13, <1>14, <1>15
  DEF Next, Admin, Adms

LEMMA AlignStep == RegistrationInv /\ AlignInv /\ [Next]_vars => AlignInv'
<1> SUFFICES ASSUME RegistrationInv, AlignInv, [Next]_vars PROVE AlignInv'
  OBVIOUS
<1>1. LateFailed'
  BY LateStep DEF AlignInv
<1>2. OneAtATime'
  BY OneStep DEF AlignInv, RegistrationInv
<1>3. \A e \in Employees : Clean(e)' => Aligned(e)'
  BY AlignedStep
<1> QED BY <1>1, <1>2, <1>3 DEF AlignInv

------------------------------------------------------------------------------
(* The theorems *)

\* The variables keep their types.
THEOREM RegistrationTypeCorrect == Spec => []TypeOK
<1>1. RegistrationInv => TypeOK
  BY DEF RegistrationInv
<1> QED BY <1>1, InvInit, InvStep, PTL DEF Spec

\* An employee counts as registered only if ADMS knows the PIN, unless its deletion
\* was requested.
THEOREM TrackedKnown == Spec => []TrackedIsKnownUnlessErased
<1>1. RegistrationInv => TrackedIsKnownUnlessErased
  BY DEF RegistrationInv
<1> QED BY <1>1, InvInit, InvStep, PTL DEF Spec

\* ADMS discards no ATTLOG but of an employee a post of whom failed or whose deletion
\* was requested.
THEOREM DiscardExplained == Spec => []DiscardsAreExplained
<1>1. RegistrationInv => DiscardsAreExplained
  BY DEF RegistrationInv
<1> QED BY <1>1, InvInit, InvStep, PTL DEF Spec

\* Once nothing is under way for a tracked employee, ADMS has the name of the
\* employees page, but for the four exceptions the property names.
THEOREM NamesAligned == Spec => []NamesAlignAtRest
<1>1. RegistrationInv /\ AlignInv => NamesAlignAtRest
  <2> SUFFICES ASSUME RegistrationInv, AlignInv, NEW e \in Employees, e \in tracked, Clean(e),
                      Quiet(e)
               PROVE  known[e] = employee[e].name
    BY DEF NamesAlignAtRest, Clean, RegistrationInv, TypeOK
  <2>1. \A t \in Tasks : ~Of(t, e)
    BY DEF Quiet, Busy, Of
  <2> QED BY <2>1 DEF AlignInv, Aligned, TrackedAligned
<1> QED BY <1>1, InvInit, InvStep, AlignInit, AlignStep, PTL DEF Spec
==============================================================================
