--------------------------- MODULE AdmsRegistration ---------------------------
(***************************************************************************)
(* Who is registered on the ADMS server: the employees pages of the admin  *)
(* UI (app/api/v1/routes/admin/employees.py) and the push of the worker    *)
(* (app/services/adms_service.py) post USER and DELETE commands and keep   *)
(* the table adms_registered_employees of the employees ADMS knows.        *)
(*                                                                         *)
(* ADMS discards the ATTLOG of an employee it does not know, and answers   *)
(* OK all the same.  It is outside the repository; what is modelled of it  *)
(* is what register_employee_on_adms and delete_employee_from_adms say     *)
(* and rely on.                                                            *)
(*                                                                         *)
(* A task is a handler, an asyncio task or a job between two awaits; tasks *)
(* of the API and of the worker process interleave.  The server URL is     *)
(* configured.                                                             *)
(***************************************************************************)
EXTENDS Naturals, FiniteSets

CONSTANTS
  Employees,  \* employee_id, the PIN on ADMS
  Names,      \* full names
  NoName,     \* ADMS knows no such PIN
  MobileUser, \* the name a push gives to a PIN without an employees row
  Tasks,      \* tasks alive at once
  Late,       \* slots for posts whose client has given up
  ChunkSize,  \* employees per post of a bulk sync: 50 in the code
  MaxEdits    \* bound on the requests of the admin pages, for TLC

ASSUME NamesDiffer == NoName \notin Names /\ MobileUser \notin Names /\ NoName # MobileUser
ASSUME ChunkIsPositive == ChunkSize \in Nat \ {0} /\ MaxEdits \in Nat

VARIABLES
  employee,  \* [Employees -> Employee]: the employees table
  tracked,   \* employees with a row in adms_registered_employees
  task,      \* [Tasks -> the registrations, deletions and pushes under way]
  bulk,      \* sync_all_employees_to_adms
  late,      \* [Late -> posts nobody waits for any more]
  known,     \* [Employees -> the name ADMS has]
  erasing,   \* deletions ADMS has accepted and not executed
  discarded, \* employees an ATTLOG of whom ADMS has discarded (history)
  failed,    \* employees a post of whom failed or was cut off (history)
  erased,    \* employees whose deletion on ADMS was requested (history)
  overlapped,\* employees for whom two posts were under way at once (history)
  missed,    \* employees given a name no post was started for (history)
  edits      \* requests of the admin pages so far

local   == <<employee, tracked>>
remote  == <<known, erasing>>
history == <<discarded, failed, erased, overlapped, missed>>
vars == <<local, task, bulk, late, remote, history, edits>>

------------------------------------------------------------------------------

Employee == [here : {"none", "present", "deleted"}, active : BOOLEAN,
             regular : BOOLEAN, name : Names \union {MobileUser}]
NoEmployee == [here |-> "none", active |-> FALSE, regular |-> FALSE, name |-> MobileUser]

Kinds == {"create", "rename", "push", "delete"}
NoTask == [st |-> "free"]
TaskRecord == [st : {"untrack", "check", "sent", "ok", "error", "attlog"}, kind : Kinds,
               emp : Employees, name : Names \union {MobileUser}]
NewTask(st, kind, e, n) == [st |-> st, kind |-> kind, emp |-> e, name |-> n]

NoPost == [kind |-> "none"]
Post == [kind : {"user", "delete"}, emp : Employees, name : Names \union {MobileUser}]

NoBulk == [st |-> "idle", todo |-> {}, chunk |-> {}, names |-> [e \in Employees |-> NoName]]

IsFree(t) == task[t].st = "free"

\* Something for e is under way: a second post for it would overlap.
Busy(e) == \/ \E t \in Tasks : ~IsFree(t) /\ task[t].emp = e
           \/ \E l \in Late : late[l] # NoPost /\ late[l].emp = e
           \/ e \in bulk.todo \union bulk.chunk
           \/ e \in erasing

\* A request of the admin pages.
Edit == edits < MaxEdits /\ edits' = edits + 1

Overlap(es) == overlapped' = overlapped \union {e \in es : Busy(e)}

Init ==
  /\ employee = [e \in Employees |-> NoEmployee]
  /\ tracked = {}
  /\ task = [t \in Tasks |-> NoTask]
  /\ bulk = NoBulk
  /\ late = [l \in Late |-> NoPost]
  /\ known = [e \in Employees |-> NoName]
  /\ erasing = {} /\ discarded = {} /\ failed = {} /\ erased = {}
  /\ overlapped = {} /\ missed = {} /\ edits = 0

------------------------------------------------------------------------------
(* The employees pages *)

\* create_employee, and the background registration of a regular active employee;
\* it is skipped later on if the employee is tracked by then.
CreateEmployee(e) ==
  /\ Edit
  /\ employee[e].here # "present"
  /\ \E x \in Employee :
       /\ x.here = "present" /\ x.name \in Names
       /\ employee' = [employee EXCEPT ![e] = x]
       /\ \/ /\ x.active /\ x.regular
             /\ \E t \in Tasks : /\ IsFree(t)
                                 /\ task' = [task EXCEPT ![t] = NewTask("check", "create", e, x.name)]
             /\ missed' = IF e \in tracked THEN missed \union {e} ELSE missed
             /\ Overlap({e})
          \/ /\ ~(x.active /\ x.regular)
             /\ missed' = missed \union {e}
             /\ UNCHANGED <<task, overlapped>>
  /\ UNCHANGED <<tracked, bulk, late, remote, discarded, failed, erased>>

\* update_employee: a regular employee whose name has changed, or who is active
\* again, is registered anew in the background.
UpdateEmployee(e) ==
  /\ Edit
  /\ employee[e].here = "present"
  /\ \E x \in Employee :
       LET renamed == x.name # employee[e].name
           resync  == x.regular /\ (renamed \/ (x.active /\ ~employee[e].active))
       IN /\ x.here = "present" /\ x # employee[e]
          /\ x.name \in Names \union {employee[e].name}
          /\ employee' = [employee EXCEPT ![e] = x]
          /\ \/ /\ resync
                /\ \E t \in Tasks : /\ IsFree(t)
                                    /\ task' = [task EXCEPT ![t] = NewTask("untrack", "rename", e, x.name)]
                /\ missed' = missed \ {e}
                /\ Overlap({e})
             \/ /\ ~resync
                /\ missed' = IF renamed THEN missed \union {e} ELSE missed
                /\ UNCHANGED <<task, overlapped>>
  /\ UNCHANGED <<tracked, bulk, late, remote, discarded, failed, erased>>

\* soft_delete_employee: the employee is no longer tracked, ADMS is left alone.
SoftDelete(e) ==
  /\ Edit
  /\ employee[e].here = "present"
  /\ employee' = [employee EXCEPT ![e].here = "deleted", ![e].active = FALSE]
  /\ tracked' = tracked \ {e}
  /\ Overlap({e})
  /\ UNCHANGED <<task, bulk, late, remote, discarded, failed, erased, missed>>

\* delete_employee_from_adms_endpoint: no longer tracked, then the DELETE post.
DeleteFromAdms(e) ==
  /\ Edit
  /\ tracked' = tracked \ {e}
  /\ \E t \in Tasks : /\ IsFree(t)
                      /\ task' = [task EXCEPT ![t] = NewTask("sent", "delete", e, MobileUser)]
  /\ erased' = erased \union {e}
  /\ Overlap({e})
  /\ UNCHANGED <<employee, bulk, late, remote, discarded, failed, missed>>

\* sync_employees_from_adms: the names ADMS has are taken over for regular,
\* undeleted employees, and unknown PINs get an employees row.
PullNames ==
  /\ Edit
  /\ \E e \in Employees : known[e] # NoName
  /\ LET pulled == {e \in Employees : known[e] # NoName /\
                      \/ employee[e].here = "none"
                      \/ employee[e].here = "present" /\ employee[e].regular}
     IN /\ employee' = [e \in Employees |->
              IF e \notin pulled THEN employee[e]
              ELSE IF employee[e].here = "present" THEN [employee[e] EXCEPT !.name = known[e]]
              ELSE [here |-> "present", active |-> TRUE, regular |-> TRUE, name |-> known[e]]]
        /\ overlapped' = overlapped \union {e \in pulled : Busy(e)}
  /\ UNCHANGED <<tracked, task, bulk, late, remote, discarded, failed, erased, missed>>

------------------------------------------------------------------------------
(* sync_all_employees_to_adms *)

\* The names of the employees rows as they are now.
NamesNow(es) == [e \in Employees |-> IF e \in es THEN employee[e].name ELSE NoName]

BulkStart ==
  LET es == {e \in Employees : employee[e].here = "present" /\ employee[e].active
                               /\ employee[e].regular}
  IN /\ Edit /\ bulk.st = "idle" /\ es # {}
     /\ bulk' = [st |-> "ready", todo |-> es, chunk |-> {}, names |-> NamesNow(es)]
     /\ Overlap(es)
     /\ UNCHANGED <<local, task, late, remote, discarded, failed, erased, missed>>

\* One chunk is posted, with the names the session holds.
BulkSend ==
  /\ bulk.st = "ready" /\ bulk.todo # {}
  /\ \E chunk \in SUBSET bulk.todo :
       /\ Cardinality(chunk) = IF Cardinality(bulk.todo) < ChunkSize THEN Cardinality(bulk.todo)
                                                                     ELSE ChunkSize
       /\ bulk' = [bulk EXCEPT !.st = "sent", !.chunk = chunk, !.todo = bulk.todo \ chunk]
  /\ UNCHANGED <<local, task, late, remote, history, edits>>

BulkProcessed ==
  /\ bulk.st = "sent"
  /\ bulk' = [bulk EXCEPT !.st = "ok"]
  /\ known' = [e \in Employees |-> IF e \in bulk.chunk THEN bulk.names[e] ELSE known[e]]
  /\ UNCHANGED <<local, task, late, erasing, history, edits>>

\* 200: the chunk is tracked; the commit makes the session read the rows again.
BulkTracked ==
  /\ bulk.st = "ok"
  /\ tracked' = tracked \union bulk.chunk
  /\ bulk' = [bulk EXCEPT !.st = "ready", !.chunk = {}, !.names = NamesNow(bulk.todo)]
  /\ UNCHANGED <<employee, task, late, remote, history, edits>>

\* Mutant: a chunk is tracked whatever the answer.
BulkTrackedAnyhow ==
  /\ bulk.st \in {"sent", "ok"}
  /\ bulk' = [bulk EXCEPT !.st = "ready", !.chunk = {}]
  /\ tracked' = tracked \union bulk.chunk
  /\ failed' = failed \union bulk.chunk
  /\ UNCHANGED <<employee, task, late, remote, discarded, erased, overlapped, missed, edits>>

\* Another answer or none: the next chunk follows.
BulkChunkFails ==
  /\ bulk.st \in {"sent", "ok"}
  /\ bulk' = [bulk EXCEPT !.st = "ready", !.chunk = {}]
  /\ failed' = failed \union bulk.chunk
  /\ UNCHANGED <<local, task, late, remote, discarded, erased, overlapped, missed, edits>>

BulkEnd ==
  /\ bulk.st = "ready" /\ bulk.todo = {}
  /\ bulk' = NoBulk
  /\ UNCHANGED <<local, task, late, remote, history, edits>>

------------------------------------------------------------------------------
(* register_employee_on_adms, and the push of the worker it is part of *)

\* sync_punches_to_adms reaches push_to_adms: an employees row that is not regular
\* ends the push; without any row the name is "Mobile User".
PushStart(e) ==
  /\ employee[e].here # "none" => employee[e].regular
  /\ \E t \in Tasks :
       /\ IsFree(t)
       /\ task' = [task EXCEPT ![t] = NewTask("check", "push", e,
            IF employee[e].here = "none" THEN MobileUser ELSE employee[e].name)]
  /\ missed' = IF employee[e].here = "none" THEN missed \union {e} ELSE missed
  /\ Overlap({e})
  /\ UNCHANGED <<local, bulk, late, remote, discarded, failed, erased, edits>>

\* Mutant: the tracker stays.
KeepTracker(t) ==
  /\ task[t].st = "untrack"
  /\ task' = [task EXCEPT ![t].st = "check"]
  /\ UNCHANGED <<local, bulk, late, remote, history, edits>>

\* _bg_sync removes the tracker so that the registration is not skipped.
Untrack(t) ==
  /\ task[t].st = "untrack"
  /\ tracked' = tracked \ {task[t].emp}
  /\ task' = [task EXCEPT ![t].st = "check"]
  /\ UNCHANGED <<employee, bulk, late, remote, history, edits>>

\* Mutant: a task that is over is not forgotten.
AfterRegistrationDone(t) == [task EXCEPT ![t].st = IF task[t].kind = "push" THEN "attlog" ELSE "done"]

\* What a task does when its registration is over: a push goes on to its ATTLOG.
AfterRegistration(t) ==
  IF task[t].kind = "push" THEN [task EXCEPT ![t].st = "attlog"]
                           ELSE [task EXCEPT ![t] = NoTask]

\* Mutant: a push takes it that an employees row was registered when it was made.
CheckRow(t) ==
  /\ task[t].st = "check"
  /\ LET e == task[t].emp
     IN task' = IF e \in tracked \/ (task[t].kind = "push" /\ employee[e].here = "present")
                THEN AfterRegistration(t)
                ELSE [task EXCEPT ![t].st = "sent"]
  /\ UNCHANGED <<local, bulk, late, remote, history, edits>>

\* A tracked employee is not registered again.
Check(t) ==
  /\ task[t].st = "check"
  /\ task' = IF task[t].emp \in tracked THEN AfterRegistration(t)
                                        ELSE [task EXCEPT ![t].st = "sent"]
  /\ UNCHANGED <<local, bulk, late, remote, history, edits>>

\* 200: the employee is tracked (a second row is refused by its unique key).
RegistrationDone(t) ==
  /\ task[t].st = "ok" /\ task[t].kind # "delete"
  /\ tracked' = tracked \union {task[t].emp}
  /\ task' = AfterRegistration(t)
  /\ UNCHANGED <<employee, bulk, late, remote, history, edits>>

DeleteDone(t) ==
  /\ task[t].st = "ok" /\ task[t].kind = "delete"
  /\ task' = [task EXCEPT ![t] = NoTask]
  /\ UNCHANGED <<local, bulk, late, remote, history, edits>>

\* Mutant: the employee is tracked whatever the answer.
TrackAnyhow(t) ==
  /\ task[t].st \in {"ok", "error"}
  /\ task' = AfterRegistration(t)
  /\ tracked' = tracked \union {task[t].emp}
  /\ failed' = failed \union {task[t].emp}
  /\ UNCHANGED <<employee, bulk, late, remote, discarded, erased, overlapped, missed, edits>>

\* Another answer, or none: the registration failed and the push goes on.
PostFails(t) ==
  /\ task[t].st \in {"ok", "error"}
  /\ task' = AfterRegistration(t)
  /\ failed' = failed \union {task[t].emp}
  /\ UNCHANGED <<local, bulk, late, remote, discarded, erased, overlapped, missed, edits>>

\* The client's timeout: the post is still on its way.
PostTimesOut(t) ==
  /\ task[t].st = "sent"
  /\ \E l \in Late :
       /\ late[l] = NoPost
       /\ late' = [late EXCEPT ![l] =
            [kind |-> IF task[t].kind = "delete" THEN "delete" ELSE "user",
             emp |-> task[t].emp, name |-> task[t].name]]
  /\ task' = AfterRegistration(t)
  /\ failed' = failed \union {task[t].emp}
  /\ UNCHANGED <<local, bulk, remote, discarded, erased, overlapped, missed, edits>>

\* The ATTLOG post: ADMS answers OK and discards it if it does not know the PIN.
AttlogAnswered(t) ==
  /\ task[t].st = "attlog"
  /\ discarded' = IF known[task[t].emp] = NoName THEN discarded \union {task[t].emp} ELSE discarded
  /\ task' = [task EXCEPT ![t] = NoTask]
  /\ UNCHANGED <<local, bulk, late, remote, failed, erased, overlapped, missed, edits>>

AttlogFails(t) ==
  /\ task[t].st = "attlog"
  /\ task' = [task EXCEPT ![t] = NoTask]
  /\ UNCHANGED <<local, bulk, late, remote, history, edits>>

\* A process dies with its tasks: the API with all but the pushes, and the bulk.
Lost(kinds) == {t \in Tasks : ~IsFree(t) /\ task[t].kind \in kinds}
Without(kinds) == [t \in Tasks |-> IF t \in Lost(kinds) THEN NoTask ELSE task[t]]

ApiCrash ==
  LET kinds == {"create", "rename", "delete"}
  IN /\ Lost(kinds) # {} \/ bulk.st # "idle"
     /\ task' = Without(kinds)
     /\ bulk' = NoBulk
     /\ failed' = failed \union {task[t].emp : t \in Lost(kinds)} \union bulk.todo \union bulk.chunk
     /\ UNCHANGED <<local, late, remote, discarded, erased, overlapped, missed, edits>>

WorkerCrash ==
  /\ Lost({"push"}) # {}
  /\ task' = Without({"push"})
  /\ failed' = failed \union {task[t].emp : t \in Lost({"push"})}
  /\ UNCHANGED <<local, bulk, late, remote, discarded, erased, overlapped, missed, edits>>

------------------------------------------------------------------------------
(* The ADMS server *)

\* A DELETE is accepted and executed later; a USER record is stored at once.
Accept(kind, e, n) ==
  IF kind = "delete" THEN erasing' = erasing \union {e} /\ known' = known
                     ELSE known' = [known EXCEPT ![e] = n] /\ erasing' = erasing

PostAccepted(t) ==
  /\ task[t].st = "sent"
  /\ task' = [task EXCEPT ![t].st = "ok"]
  /\ Accept(task[t].kind, task[t].emp, task[t].name)
  /\ UNCHANGED <<local, bulk, late, history, edits>>

PostRefused(t) ==
  /\ task[t].st = "sent"
  /\ task' = [task EXCEPT ![t].st = "error"]
  /\ UNCHANGED <<local, bulk, late, remote, history, edits>>

LateAccepted(l) ==
  /\ late[l] # NoPost
  /\ late' = [late EXCEPT ![l] = NoPost]
  /\ Accept(late[l].kind, late[l].emp, late[l].name)
  /\ UNCHANGED <<local, task, bulk, history, edits>>

LateLost(l) ==
  /\ late[l] # NoPost
  /\ late' = [late EXCEPT ![l] = NoPost]
  /\ UNCHANGED <<local, task, bulk, remote, history, edits>>

Erase(e) ==
  /\ e \in erasing
  /\ erasing' = erasing \ {e}
  /\ known' = [known EXCEPT ![e] = NoName]
  /\ UNCHANGED <<local, task, bulk, late, history, edits>>

------------------------------------------------------------------------------

Admin(e) == CreateEmployee(e) \/ UpdateEmployee(e) \/ SoftDelete(e) \/ DeleteFromAdms(e)

Bulk == BulkStart \/ BulkSend \/ BulkProcessed \/ BulkTracked \/ BulkChunkFails \/ BulkEnd

Step(t) == \/ Untrack(t) \/ Check(t) \/ RegistrationDone(t) \/ DeleteDone(t)
           \/ PostFails(t) \/ PostTimesOut(t) \/ AttlogAnswered(t) \/ AttlogFails(t)

Adms == \/ \E t \in Tasks : PostAccepted(t) \/ PostRefused(t)
        \/ \E l \in Late : LateAccepted(l) \/ LateLost(l)
        \/ \E e \in Employees : Erase(e)

Next == \/ \E e \in Employees : Admin(e) \/ PushStart(e)
        \/ PullNames \/ Bulk
        \/ \E t \in Tasks : Step(t)
        \/ ApiCrash \/ WorkerCrash
        \/ Adms

Spec == Init /\ [][Next]_vars

------------------------------------------------------------------------------
(* Properties *)

\* Every variable has its type.
TypeOK ==
  /\ employee \in [Employees -> Employee]
  /\ tracked \subseteq Employees
  /\ task \in [Tasks -> TaskRecord \union {NoTask}]
  /\ bulk \in [st : {"idle", "ready", "sent", "ok"}, todo : SUBSET Employees,
               chunk : SUBSET Employees, names : [Employees -> Names \union {NoName, MobileUser}]]
  /\ late \in [Late -> Post \union {NoPost}]
  /\ known \in [Employees -> Names \union {NoName, MobileUser}]
  /\ erasing \subseteq Employees
  /\ discarded \subseteq Employees /\ failed \subseteq Employees /\ erased \subseteq Employees
  /\ overlapped \subseteq Employees /\ missed \subseteq Employees
  /\ edits \in Nat

\* An employee is in adms_registered_employees only if ADMS knows the PIN, unless
\* an admin has ever asked to delete it there: whatever posts fail, time out, come
\* late or are cut off by a crash, in either process.
TrackedIsKnownUnlessErased == \A e \in tracked \ erased : known[e] # NoName

\* An ATTLOG that ADMS discards while it answers OK is the price of a failed
\* registration, which the push ignores, or of a deletion on ADMS: no other
\* interleaving of the pages, the background tasks and the worker loses a punch.
DiscardsAreExplained == discarded \subseteq failed \union erased

Quiet(e) == ~Busy(e)

\* Once nothing is under way for an employee, ADMS has the name the employees page
\* shows, unless a post of the employee failed, another change came while one was
\* under way, the deletion on ADMS was requested or the last name set is one no post
\* was started for.
NamesAlignAtRest ==
  \A e \in tracked \ (failed \union overlapped \union erased \union missed) :
    Quiet(e) /\ employee[e].here = "present" => known[e] = employee[e].name
==============================================================================
