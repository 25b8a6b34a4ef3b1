---------------------------- MODULE EventDelivery ----------------------------
(***************************************************************************)
(* Who is told of a recorded punch and of an approved leave.               *)
(*                                                                         *)
(* The dashboards: the handler of a punch awaits a broadcast on the live   *)
(* stream (ConnectionManager, app/api/v1/routes/punch.py), one send after  *)
(* the other, while other handlers broadcast and connections come and go.  *)
(* The webhooks: after its answer the handler runs fire_webhook            *)
(* (app/services/webhook_service.py) as a background task of the API       *)
(* process; it enqueues a job for each subscriber, and the worker posts    *)
(* the event (deliver_webhook, app/worker.py). Leaves are created and      *)
(* reviewed in app/api/v1/routes/admin/leaves.py.                          *)
(***************************************************************************)
EXTENDS Naturals, Sequences, FiniteSets

CONSTANTS
  Events,     \* ids of the occurrences that are told: bounds them, for TLC
  Clients,    \* connections of the live stream
  Webhooks,   \* rows of webhooks
  Leaves,     \* ids of leave_requests
  Wants,      \* what a webhook may subscribe to: sets of topics
  None,       \* no row
  MaxCrashes  \* bound on crashes, for TLC

ASSUME EventConstants == MaxCrashes \in Nat /\ IsFiniteSet(Webhooks)
                                           /\ IsFiniteSet(Clients)

VARIABLES
  leave,     \* [Leaves -> status or None]
  hook,      \* [Webhooks -> HookRow]
  event,     \* [Events -> Occurrence or None]: handlers and background tasks
  conns,     \* active_connections, in the order of the list
  gone,      \* clients whose socket is closed
  heard,     \* [Clients -> [Events -> Nat]]: messages received (history)
  present,   \* [Events -> SUBSET Clients]: connected as the broadcast began (history)
  job,       \* [Events \X Webhooks -> job or None]: deliver_webhook jobs
  log,       \* [Events \X Webhooks -> [ok, failed]]: rows of webhook_deliveries
  posted,    \* [Events \X Webhooks -> Nat]: posts the endpoint has taken (history)
  due,       \* pairs of an event and a webhook subscribed as it fired (history)
  lost,      \* those of them given up without a row of the log (history)
  crashes    \* crashes so far

stream  == <<conns, gone, heard, present>>
webhook == <<hook, job, log, posted, due, lost>>
vars == <<leave, hook, event, conns, gone, heard, present, job, log, posted, due, lost,
          crashes>>

------------------------------------------------------------------------------
(* Rows *)

Statuses == {"pending", "approved", "rejected"}
Topics == {"punch.created", "leave.approved"}
Deliveries == Events \X Webhooks

HookRow == [active : BOOLEAN, wants : Wants]

ASSUME WantsTopics == Wants \subseteq SUBSET Topics

\* A broadcast goes through its copy of the list, at is the next to send to; a task that
\* fires has the webhooks in todo still to enqueue.
Occurrence == [kind : Topics, st : {"broadcasting", "answered", "firing", "done"},
               list : Seq(Clients), at : Nat \ {0}, todo : SUBSET Webhooks]

Job == [st : {"queued", "posting"}, reply : {"none", "ok", "error"}]
NewJob == [st |-> "queued", reply |-> "none"]

NoRows == [ok |-> 0, failed |-> 0]

ASSUME NoneIsNoRow == None \notin Occurrence /\ None \notin Job /\ None \notin Statuses
Listed == {conns[i] : i \in DOMAIN conns}

Init ==
  /\ leave = [l \in Leaves |-> None]
  /\ hook \in [Webhooks -> HookRow]
  /\ event = [o \in Events |-> None]
  /\ conns = <<>>
  /\ gone = {}
  /\ heard = [c \in Clients |-> [o \in Events |-> 0]]
  /\ present = [o \in Events |-> {}]
  /\ job = [x \in Deliveries |-> None]
  /\ log = [x \in Deliveries |-> NoRows]
  /\ posted = [x \in Deliveries |-> 0]
  /\ due = {}
  /\ lost = {}
  /\ crashes = 0

St(o) == IF event[o] = None THEN "none" ELSE event[o].st

------------------------------------------------------------------------------
(* The live stream *)

\* websocket_endpoint accepts.
Connect(c) ==
  /\ c \notin gone /\ c \notin Listed
  /\ conns' = Append(conns, c)
  /\ UNCHANGED <<leave, event, webhook, gone, heard, present, crashes>>

\* The socket closes; its receive loop has yet to notice.
Close(c) ==
  /\ c \in Listed /\ c \notin gone
  /\ gone' = gone \union {c}
  /\ UNCHANGED <<leave, event, webhook, conns, heard, present, crashes>>

\* disconnect, as the receive loop ends: list.remove.
Disconnect(c) ==
  /\ c \in gone
  /\ \E i \in DOMAIN conns :
       /\ conns[i] = c
       /\ conns' = SubSeq(conns, 1, i - 1) \o SubSeq(conns, i + 1, Len(conns))
  /\ UNCHANGED <<leave, event, webhook, gone, heard, present, crashes>>

\* A punch is committed (see PunchIntake) and its broadcast begins: there is no await in
\* between. (The broadcast of an onboarding raises before it begins, see DeviceRegistry.)
Broadcast(o) ==
  /\ event[o] = None
  /\ event' = [event EXCEPT ![o] = [kind |-> "punch.created", st |-> "broadcasting",
                                    list |-> conns, at |-> 1, todo |-> {}]]
  /\ present' = [present EXCEPT ![o] = Listed]
  /\ UNCHANGED <<leave, webhook, conns, gone, heard, crashes>>

\* Mutant: the list itself is iterated, connections leave it meanwhile.
LiveList(o) == conns

Targets(o) == event[o].list

\* The next send. To a closed socket it raises, which is logged.
Send(o) ==
  /\ St(o) = "broadcasting" /\ event[o].at <= Len(Targets(o))
  /\ LET c == Targets(o)[event[o].at]
     IN heard' = IF c \in gone THEN heard ELSE [heard EXCEPT ![c][o] = @ + 1]
  /\ event' = [event EXCEPT ![o].at = @ + 1]
  /\ UNCHANGED <<leave, webhook, conns, gone, present, crashes>>

\* The broadcast is over: a background task is added, and the handler (for a batch, after
\* the punches that follow) answers.
EndBroadcast(o) ==
  /\ St(o) = "broadcasting" /\ event[o].at > Len(Targets(o))
  /\ event' = [event EXCEPT ![o].st = "answered"]
  /\ UNCHANGED <<leave, webhook, stream, crashes>>

------------------------------------------------------------------------------
(* Leaves *)

\* portal_submit_leave.
FileLeave(l) ==
  /\ leave[l] = None
  /\ leave' = [leave EXCEPT ![l] = "pending"]
  /\ UNCHANGED <<event, webhook, stream, crashes>>

\* The answer of a page that approves adds the background task.
Announce(o) ==
  /\ event[o] = None
  /\ event' = [event EXCEPT ![o] = [kind |-> "leave.approved", st |-> "answered",
                                    list |-> <<>>, at |-> 1, todo |-> {}]]

\* Mutant: a status of its own for what needs no review.
AdminFilesUnlisted(l, o) ==
  /\ leave[l] = None
  /\ leave' = [leave EXCEPT ![l] = "auto"]
  /\ Announce(o)
  /\ UNCHANGED <<webhook, stream, crashes>>

\* create_leave_request: what an admin files is approved.
AdminFilesLeave(l, o) ==
  /\ leave[l] = None
  /\ leave' = [leave EXCEPT ![l] = "approved"]
  /\ Announce(o)
  /\ UNCHANGED <<webhook, stream, crashes>>

\* review_leave_request: of any leave, again and again, each approval is announced.
ReviewLeave(l, status, o) ==
  /\ leave[l] # None
  /\ leave' = [leave EXCEPT ![l] = status]
  /\ IF status = "approved" THEN Announce(o) ELSE UNCHANGED event
  /\ UNCHANGED <<webhook, stream, crashes>>

DeleteLeave(l) ==
  /\ leave[l] # None
  /\ leave' = [leave EXCEPT ![l] = None]
  /\ UNCHANGED <<event, webhook, stream, crashes>>

------------------------------------------------------------------------------
(* fire_webhook *)

Subscribed(o) == {w \in Webhooks : hook[w].active /\ event[o].kind \in hook[w].wants}

\* The query; the loop that follows awaits each enqueue.
Fire(o) ==
  /\ St(o) = "answered"
  /\ event' = [event EXCEPT ![o].st = "firing", ![o].todo = Subscribed(o)]
  /\ due' = due \union ({o} \X Subscribed(o))
  /\ UNCHANGED <<leave, stream, hook, job, log, posted, lost, crashes>>

EnqueueHook(o, w) ==
  /\ St(o) = "firing" /\ w \in event[o].todo
  /\ event' = [event EXCEPT ![o].todo = @ \ {w}]
  /\ job' = [job EXCEPT ![<<o, w>>] = NewJob]
  /\ UNCHANGED <<leave, stream, hook, log, posted, due, lost, crashes>>

\* No pool can be created, or an enqueue raises: the exception ends the loop.
FireFails(o) ==
  /\ St(o) = "firing" /\ event[o].todo # {}
  /\ event' = [event EXCEPT ![o].todo = {}]
  /\ lost' = lost \union ({o} \X event[o].todo)
  /\ UNCHANGED <<leave, stream, hook, job, log, posted, due, crashes>>

FireEnds(o) ==
  /\ St(o) = "firing" /\ event[o].todo = {}
  /\ event' = [event EXCEPT ![o].st = "done"]
  /\ UNCHANGED <<leave, webhook, stream, crashes>>

\* The API process dies with its connections, handlers and background tasks.
ApiCrash ==
  /\ crashes < MaxCrashes
  /\ event' = [o \in Events |-> IF event[o] = None THEN None
                                ELSE [event[o] EXCEPT !.st = "done", !.todo = {}]]
  /\ lost' = lost \union {x \in Deliveries : St(x[1]) = "firing" /\ x[2] \in event[x[1]].todo}
  /\ gone' = gone \union Listed
  /\ conns' = <<>>
  /\ crashes' = crashes + 1
  /\ UNCHANGED <<leave, heard, present, hook, job, log, posted, due>>

------------------------------------------------------------------------------
(* deliver_webhook in the worker *)

JobSt(x) == IF job[x] = None THEN "none" ELSE job[x].st

\* The job starts: skipped if the webhook has been switched off, else it posts.
StartJob(x) ==
  /\ JobSt(x) = "queued"
  /\ IF hook[x[2]].active
       THEN job' = [job EXCEPT ![x].st = "posting"] /\ UNCHANGED lost
       ELSE job' = [job EXCEPT ![x] = None] /\ lost' = lost \union {x}
  /\ UNCHANGED <<leave, event, stream, hook, log, posted, due, crashes>>

\* The endpoint takes the post and answers 2xx, or it does not.
EndpointAnswers(x, reply) ==
  /\ JobSt(x) = "posting" /\ job[x].reply = "none"
  /\ job' = [job EXCEPT ![x].reply = reply]
  /\ posted' = IF reply = "ok" THEN [posted EXCEPT ![x] = @ + 1] ELSE posted
  /\ UNCHANGED <<leave, event, stream, hook, log, due, lost, crashes>>

\* The row of the log: delivered, or what went wrong, a timeout of 10 s included.
Logged(x, ok) == IF ok THEN [log EXCEPT ![x].ok = @ + 1]
                       ELSE [log EXCEPT ![x].failed = @ + 1]

\* Mutants: ARQ runs a failed job again, as the comment at worker.py:500 intends; a
\* failed attempt raises before its row is written.
RetriedJob(x, ok) == IF ok THEN None ELSE NewJob
SuccessLogged(x, ok) == IF ok THEN [log EXCEPT ![x].ok = @ + 1] ELSE log

\* The job is over, although a failed one raises RuntimeError.
JobAfter(x, ok) == None
Attempted(x, ok) == Logged(x, ok)

\* The attempt ends and its row is committed.
EndJob(x) ==
  /\ JobSt(x) = "posting"
  /\ \E ok \in BOOLEAN :
       /\ ok => job[x].reply = "ok"
       /\ log' = Attempted(x, ok)
       /\ job' = [job EXCEPT ![x] = JobAfter(x, ok)]
  /\ UNCHANGED <<leave, event, stream, hook, posted, due, lost, crashes>>

\* No row: the commit raises, job_timeout cancels the job, or, queued, it expires or has
\* had all of its tries.
AbortJob(x) ==
  /\ JobSt(x) # "none"
  /\ job' = [job EXCEPT ![x] = None]
  /\ lost' = lost \union {x}
  /\ UNCHANGED <<leave, event, stream, hook, log, posted, due, crashes>>

\* The worker dies: what it ran is run again. One of them may just have logged its row.
WorkerCrash ==
  /\ crashes < MaxCrashes
  /\ \/ UNCHANGED log
     \/ \E x \in Deliveries, ok \in BOOLEAN :
          /\ JobSt(x) = "posting" /\ (ok => job[x].reply = "ok")
          /\ log' = Logged(x, ok)
  /\ job' = [x \in Deliveries |-> IF JobSt(x) = "posting" THEN NewJob ELSE job[x]]
  /\ crashes' = crashes + 1
  /\ UNCHANGED <<leave, event, stream, hook, posted, due, lost>>

\* No page writes webhooks: a row is switched off, or on, in the database.
SwitchHook(w) ==
  /\ hook' = [hook EXCEPT ![w].active = ~@]
  /\ UNCHANGED <<leave, event, stream, job, log, posted, due, lost, crashes>>

------------------------------------------------------------------------------

Stream ==
  \/ \E c \in Clients : Connect(c) \/ Close(c) \/ Disconnect(c)
  \/ \E o \in Events : Broadcast(o) \/ Send(o) \/ EndBroadcast(o)

LeavePages ==
  \E l \in Leaves : \/ FileLeave(l) \/ DeleteLeave(l)
                    \/ \E o \in Events : \/ AdminFilesLeave(l, o)
                                         \/ \E s \in Statuses : ReviewLeave(l, s, o)

Firing == \/ \E o \in Events : \/ Fire(o) \/ FireFails(o) \/ FireEnds(o)
                               \/ \E w \in Webhooks : EnqueueHook(o, w)
          \/ ApiCrash

Worker == \/ \E x \in Deliveries : \/ StartJob(x) \/ EndJob(x) \/ AbortJob(x)
                                   \/ \E reply \in {"ok", "error"} : EndpointAnswers(x, reply)
          \/ WorkerCrash

Next == Stream \/ LeavePages \/ Firing \/ Worker \/ \E w \in Webhooks : SwitchHook(w)

Spec == Init /\ [][Next]_vars

------------------------------------------------------------------------------
(* Properties *)

\* Every variable has its type, and a client is listed once.
TypeOK ==
  /\ leave \in [Leaves -> Statuses \union {None}]
  /\ hook \in [Webhooks -> HookRow]
  /\ event \in [Events -> Occurrence \union {None}]
  /\ conns \in Seq(Clients)
  /\ \A i, j \in DOMAIN conns : conns[i] = conns[j] => i = j
  /\ gone \in SUBSET Clients
  /\ heard \in [Clients -> [Events -> Nat]]
  /\ present \in [Events -> SUBSET Clients]
  /\ job \in [Deliveries -> Job \union {None}]
  /\ log \in [Deliveries -> [ok : Nat, failed : Nat]]
  /\ posted \in [Deliveries -> Nat]
  /\ due \in SUBSET Deliveries
  /\ lost \in SUBSET Deliveries
  /\ crashes \in Nat

\* A broadcast that has ended was received, exactly once, by every client that was
\* connected as it began and still is: whoever connected or left while it waited, and
\* whatever other broadcasts did meanwhile.
StreamIsComplete ==
  \A o \in Events, c \in Clients :
    St(o) \in {"answered", "firing", "done"} /\ c \in present[o] \ gone => heard[c][o] = 1

\* An event that fired has, for every webhook subscribed at that time, a job, a row in the
\* log of deliveries, or is a known loss (an enqueue or a commit that failed, a crash of
\* the API, a job cancelled or expired, a webhook switched off).
HookIsAccounted ==
  \A x \in due :
    \/ x[2] \in event[x[1]].todo
    \/ job[x] # None
    \/ log[x] # NoRows
    \/ x \in lost

\* An endpoint takes an event once, and once more per crash of the worker at most; what
\* the log shows as delivered is no more than what it has taken.
PostedOnce ==
  \A x \in Deliveries : log[x].ok <= posted[x] /\ posted[x] <= 1 + crashes
==============================================================================
