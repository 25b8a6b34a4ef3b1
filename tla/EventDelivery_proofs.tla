------------------------- MODULE EventDelivery_proofs -------------------------
(***************************************************************************)
(* Theorems about EventDelivery, for any number of events, clients,        *)
(* webhooks, leaves and crashes.  A broadcast is followed by its position  *)
(* in its own copy of the list; a webhook by the states its event, its     *)
(* job and its row of the log go through.                                  *)
(***************************************************************************)
EXTENDS EventDelivery, SequenceTheorems, TLAPS

------------------------------------------------------------------------------
(* Types *)

Injective(s) == \A i, j \in DOMAIN s : s[i] = s[j] => i = j

LEMMA ConnectedOnce ==
  ASSUME NEW s \in Seq(Clients), NEW c \in Clients, Injective(s),
         \A i \in DOMAIN s : s[i] # c
  PROVE  Append(s, c) \in Seq(Clients) /\ Injective(Append(s, c))
<1> DEFINE t == Append(s, c)
<1>1. /\ Len(s) \in Nat /\ DOMAIN s = 1 .. Len(s)
      /\ DOMAIN t = 1 .. Len(s) + 1
      /\ t[Len(s) + 1] = c
      /\ \A i \in 1 .. Len(s) : t[i] = s[i]
      /\ t \in Seq(Clients)
  OBVIOUS
<1>2. \A i \in 1 .. Len(s) + 1 : i = Len(s) + 1 \/ i \in 1 .. Len(s)
  BY <1>1
<1>3. Injective(t)
  <2> HIDE DEF t
  <2> SUFFICES ASSUME NEW i \in DOMAIN t, NEW j \in DOMAIN t, t[i] = t[j] PROVE i = j
    BY DEF Injective
  <2> QED BY <1>1, <1>2 DEF Injective
<1> QED BY <1>1, <1>3

\* list.remove leaves the others in their order.
LEMMA DisconnectedOnce ==
  ASSUME NEW s \in Seq(Clients), Injective(s), NEW i \in DOMAIN s
  PROVE  LET t == SubSeq(s, 1, i - 1) \o SubSeq(s, i + 1, Len(s))
         IN /\ t \in Seq(Clients) /\ Injective(t)
            /\ \A k \in DOMAIN s : k # i => \E m \in DOMAIN t : t[m] = s[k]
<1> DEFINE n == Len(s)
           a == SubSeq(s, 1, i - 1)
           b == SubSeq(s, i + 1, n)
           t == a \o b
<1>1. n \in Nat /\ DOMAIN s = 1 .. n /\ i \in 1 .. n
  OBVIOUS
<1>2. /\ a \in Seq(Clients) /\ Len(a) = i - 1
      /\ \A k \in 1 .. i - 1 : a[k] = s[k]
  <2>1. \A k \in 1 .. i - 1 : s[k] \in Clients
    BY <1>1
  <2> QED BY <1>1, <2>1, SubSeqProperties
<1>3. /\ b \in Seq(Clients) /\ Len(b) = n - i
      /\ \A k \in 1 .. n - i : b[k] = s[k + i]
  <2>1. \A k \in i + 1 .. n : s[k] \in Clients
    BY <1>1
  <2> QED BY <1>1, <2>1, SubSeqProperties
<1> HIDE DEF a, b
<1>4. /\ t \in Seq(Clients) /\ Len(t) = Len(a) + Len(b)
      /\ \A k \in 1 .. Len(a) + Len(b) : t[k] = IF k <= Len(a) THEN a[k] ELSE b[k - Len(a)]
  BY <1>2, <1>3, ConcatProperties
<1> HIDE DEF n, t
<1>5. DOMAIN t = 1 .. n - 1 /\ \A k \in 1 .. n - 1 : t[k] = IF k < i THEN s[k] ELSE s[k + 1]
  <2>1. Len(t) = n - 1
    BY <1>1, <1>2, <1>3, <1>4
  <2>2. ASSUME NEW k \in 1 .. n - 1 PROVE t[k] = IF k < i THEN s[k] ELSE s[k + 1]
    <3>1. t[k] = IF k <= i - 1 THEN a[k] ELSE b[k - (i - 1)]
      BY <1>1, <1>2, <1>3, <1>4
    <3>2. CASE k < i
      BY <1>1, <1>2, <3>1, <3>2
    <3>3. CASE ~(k < i)
      <4>1. k - (i - 1) \in 1 .. n - i /\ (k - (i - 1)) + i = k + 1
        BY <1>1, <3>3
      <4> QED BY <1>1, <1>3, <3>1, <3>3, <4>1
    <3> QED BY <3>2, <3>3
  <2> QED BY <1>1, <1>4, <2>1, <2>2
<1>6. Injective(t)
  <2> SUFFICES ASSUME NEW j \in 1 .. n - 1, NEW k \in 1 .. n - 1, t[j] = t[k] PROVE j = k
    BY <1>5 DEF Injective
  <2> DEFINE up(m) == IF m < i THEN m ELSE m + 1
  <2>1. up(j) \in DOMAIN s /\ up(k) \in DOMAIN s /\ s[up(j)] = s[up(k)]
    BY <1>1, <1>5
  <2>2. up(j) = up(k)
    BY <2>1 DEF Injective
  <2> QED BY <1>1, <2>2
<1>7. ASSUME NEW k \in DOMAIN s, k # i PROVE \E m \in DOMAIN t : t[m] = s[k]
  <2> DEFINE m == IF k < i THEN k ELSE k - 1
  <2>1. m \in 1 .. n - 1 /\ k = IF m < i THEN m ELSE m + 1
    BY <1>1, <1>7
  <2>2. t[m] = s[k]
    BY <1>5, <2>1
  <2> QED BY <1>5, <2>1, <2>2
<1> QED BY <1>4, <1>6, <1>7 DEF t, a, b, n

LEMMA OccurrenceFields ==
  ASSUME NEW e \in Occurrence
  PROVE  /\ e.list \in Seq(Clients) /\ e.at \in Nat \ {0} /\ e.todo \in SUBSET Webhooks
         /\ [e EXCEPT !.at = @ + 1] \in Occurrence
         /\ \A s \in {"answered", "firing", "done"} : [e EXCEPT !.st = s] \in Occurrence
         /\ \A w \in SUBSET Webhooks :
              /\ [e EXCEPT !.todo = w] \in Occurrence
              /\ \A s \in {"firing", "done"} : [e EXCEPT !.st = s, !.todo = w] \in Occurrence
<1>1. /\ [e EXCEPT !.at = @ + 1] \in Occurrence
      /\ e.at \in Nat \ {0}
  BY DEF Occurrence
<1>2. \A s \in {"answered", "firing", "done"} : [e EXCEPT !.st = s] \in Occurrence
  BY DEF Occurrence
<1>3. \A w \in SUBSET Webhooks : [e EXCEPT !.todo = w] \in Occurrence
  BY DEF Occurrence
<1>4. \A w \in SUBSET Webhooks, s \in {"firing", "done"} :
        [e EXCEPT !.st = s, !.todo = w] \in Occurrence
  BY DEF Occurrence
<1>5. e.list \in Seq(Clients) /\ e.todo \in SUBSET Webhooks
  BY DEF Occurrence
<1> QED BY <1>1, <1>2, <1>3, <1>4, <1>5

LEMMA TypeStep == TypeOK /\ [Next]_vars => TypeOK'
<1> SUFFICES ASSUME TypeOK, [Next]_vars PROVE TypeOK'
  OBVIOUS
<1> USE DEF TypeOK, stream, webhook
<1>1. \A o \in Events : event[o] # None => event[o] \in Occurrence
  OBVIOUS
<1>2. conns \in Seq(Clients) /\ Injective(conns)
  BY DEF Injective
<1>3. CASE Stream
  <2>1. ASSUME NEW c \in Clients, Connect(c) PROVE TypeOK'
    <3>1. conns' \in Seq(Clients) /\ Injective(conns')
      <4>1. \A i \in DOMAIN conns : conns[i] # c
        BY <2>1 DEF Connect, Listed
      <4> QED BY <1>2, <2>1, <4>1, ConnectedOnce DEF Connect
    <3> QED BY <2>1, <3>1 DEF Connect, Injective
  <2>2. ASSUME NEW c \in Clients, Close(c) PROVE TypeOK'
    BY <2>2 DEF Close
  <2>3. ASSUME NEW c \in Clients, Disconnect(c) PROVE TypeOK'
    <3>1. conns' \in Seq(Clients) /\ Injective(conns')
      BY <1>2, <2>3, DisconnectedOnce DEF Disconnect
    <3> QED BY <2>3, <3>1 DEF Disconnect, Injective
  <2>4. ASSUME NEW o \in Events, Broadcast(o) PROVE TypeOK'
    <3>1. [kind |-> "punch.created", st |-> "broadcasting", list |-> conns, at |-> 1,
           todo |-> {}] \in Occurrence
      BY DEF Occurrence, Topics
    <3>2. Listed \in SUBSET Clients
      BY DEF Listed
    <3> QED BY <2>4, <3>1, <3>2 DEF Broadcast
  <2>5. ASSUME NEW o \in Events, Send(o) PROVE TypeOK'
    <3>1. event[o] \in Occurrence
      BY <1>1, <2>5 DEF Send, St
    <3>2. [event[o] EXCEPT !.at = @ + 1] \in Occurrence
      BY <3>1, OccurrenceFields
    <3>3. event' \in [Events -> Occurrence \union {None}]
      BY <2>5, <3>2 DEF Send
    <3>4. heard' \in [Clients -> [Events -> Nat]]
      <4>1. event[o].list \in Seq(Clients) /\ event[o].at \in Nat \ {0}
        BY <3>1, OccurrenceFields
      <4>2. event[o].at \in DOMAIN event[o].list
        BY <2>5, <4>1 DEF Send, Targets
      <4>3. Targets(o)[event[o].at] \in Clients
        BY <4>1, <4>2 DEF Targets
      <4> QED BY <2>5, <4>3 DEF Send
    <3> QED BY <2>5, <3>3, <3>4 DEF Send
  <2>6. ASSUME NEW o \in Events, EndBroadcast(o) PROVE TypeOK'
    <3>1. event[o] \in Occurrence
      BY <1>1, <2>6 DEF EndBroadcast, St
    <3>2. [event[o] EXCEPT !.st = "answered"] \in Occurrence
      BY <3>1 DEF Occurrence
    <3> QED BY <2>6, <3>2 DEF EndBroadcast
  <2> QED BY <1>3, <2>1, <2>2, <2>3, <2>4, <2>5, <2>6 DEF Stream
<1>4. CASE LeavePages
  <2>1. /\ UNCHANGED <<hook, conns, gone, heard, present, job, log, posted, due, lost, crashes>>
        /\ leave' \in [Leaves -> Statuses \union {None}]
    BY <1>4 DEF LeavePages, FileLeave, AdminFilesLeave, ReviewLeave, DeleteLeave, Statuses
  <2>2. event' \in [Events -> Occurrence \union {None}]
    <3>1. ASSUME NEW o \in Events, Announce(o)
          PROVE  event' \in [Events -> Occurrence \union {None}]
      <4>1. [kind |-> "leave.approved", st |-> "answered", list |-> <<>>, at |-> 1,
             todo |-> {}] \in Occurrence
        BY DEF Occurrence, Topics
      <4> QED BY <3>1, <4>1 DEF Announce
    <3> QED BY <1>4, <3>1 DEF LeavePages, FileLeave, AdminFilesLeave, ReviewLeave, DeleteLeave
  <2> QED BY <2>1, <2>2
<1>5. CASE Firing
  <2>1. ASSUME NEW o \in Events, Fire(o) PROVE TypeOK'
    <3>1. event[o] \in Occurrence /\ Subscribed(o) \in SUBSET Webhooks
      BY <1>1, <2>1 DEF Fire, St, Subscribed
    <3>2. [event[o] EXCEPT !.st = "firing", !.todo = Subscribed(o)] \in Occurrence
      BY <3>1 DEF Occurrence
    <3>3. due' \in SUBSET Deliveries
      BY <2>1, <3>1 DEF Fire, Deliveries
    <3> QED BY <2>1, <3>2, <3>3 DEF Fire
  <2>2. ASSUME NEW o \in Events, FireFails(o) PROVE TypeOK'
    <3>1. event[o] \in Occurrence
      BY <1>1, <2>2 DEF FireFails, St
    <3>2. [event[o] EXCEPT !.todo = {}] \in Occurrence /\ event[o].todo \in SUBSET Webhooks
      BY <3>1 DEF Occurrence
    <3>3. lost' \in SUBSET Deliveries
      BY <2>2, <3>2 DEF FireFails, Deliveries
    <3> QED BY <2>2, <3>2, <3>3 DEF FireFails
  <2>3. ASSUME NEW o \in Events, FireEnds(o) PROVE TypeOK'
    <3>1. event[o] \in Occurrence
      BY <1>1, <2>3 DEF FireEnds, St
    <3>2. [event[o] EXCEPT !.st = "done"] \in Occurrence
      BY <3>1 DEF Occurrence
    <3> QED BY <2>3, <3>2 DEF FireEnds
  <2>4. ASSUME NEW o \in Events, NEW w \in Webhooks, EnqueueHook(o, w) PROVE TypeOK'
    <3>1. event[o] \in Occurrence
      BY <1>1, <2>4 DEF EnqueueHook, St
    <3>2. [event[o] EXCEPT !.todo = @ \ {w}] \in Occurrence /\ NewJob \in Job
      BY <3>1 DEF Occurrence, NewJob, Job
    <3> QED BY <2>4, <3>2 DEF EnqueueHook, Deliveries
  <2>5. CASE ApiCrash
    <3>1. \A o \in Events : event[o] # None =>
            [event[o] EXCEPT !.st = "done", !.todo = {}] \in Occurrence
      BY <1>1 DEF Occurrence
    <3>2. event' \in [Events -> Occurrence \union {None}]
      BY <2>5, <3>1 DEF ApiCrash
    <3>3. Listed \in SUBSET Clients
      BY DEF Listed
    <3>4. conns' \in Seq(Clients) /\ Injective(conns')
      <4>1. conns' = <<>>
        BY <2>5 DEF ApiCrash
      <4>2. <<>> \in Seq(Clients)
        OBVIOUS
      <4>3. Injective(<<>>)
        BY DEF Injective
      <4> QED BY <4>1, <4>2, <4>3
    <3>5. lost' \in SUBSET Deliveries
      BY <2>5 DEF ApiCrash
    <3>6. gone' \in SUBSET Clients
      BY <2>5, <3>3 DEF ApiCrash
    <3>7. UNCHANGED <<leave, heard, present, hook, job, log, posted, due>>
      BY <2>5 DEF ApiCrash
    <3>8. crashes' \in Nat
      <4>1. crashes' = crashes + 1 /\ crashes \in Nat
        BY <2>5 DEF ApiCrash
      <4> QED BY <4>1
    <3> QED BY <3>2, <3>4, <3>5, <3>6, <3>7, <3>8 DEF Injective
  <2> QED BY <1>5, <2>1, <2>2, <2>3, <2>4, <2>5 DEF Firing
<1>6. CASE Worker
  <2>1. \A x \in Deliveries : /\ job[x] # None => job[x] \in Job
                              /\ log[x] \in [ok : Nat, failed : Nat]
    OBVIOUS
  <2>2. UNCHANGED <<leave, event, hook, conns, gone, heard, present, due>>
    BY <1>6 DEF Worker, StartJob, EndpointAnswers, EndJob, AbortJob, WorkerCrash
  <2>3. \A x \in Deliveries, ok \in BOOLEAN :
          Logged(x, ok) \in [Deliveries -> [ok : Nat, failed : Nat]]
    BY <2>1 DEF Logged
  <2>4. log' \in [Deliveries -> [ok : Nat, failed : Nat]]
    BY <1>6, <2>3 DEF Worker, StartJob, EndpointAnswers, EndJob, AbortJob, WorkerCrash, Attempted
  <2>5. NewJob \in Job
    BY DEF NewJob, Job
  <2>6. job' \in [Deliveries -> Job \union {None}]
    <3>1. ASSUME NEW x \in Deliveries, StartJob(x)
          PROVE  job' \in [Deliveries -> Job \union {None}]
      <4>1. job[x] \in Job
        BY <3>1, <2>1 DEF StartJob, JobSt
      <4>2. [job[x] EXCEPT !.st = "posting"] \in Job
        BY <4>1 DEF Job
      <4> QED BY <3>1, <4>2 DEF StartJob
    <3>2. ASSUME NEW x \in Deliveries, NEW reply \in {"ok", "error"}, EndpointAnswers(x, reply)
          PROVE  job' \in [Deliveries -> Job \union {None}]
      <4>1. job[x] \in Job
        BY <3>2, <2>1 DEF EndpointAnswers, JobSt
      <4>2. [job[x] EXCEPT !.reply = reply] \in Job
        BY <4>1 DEF Job
      <4> QED BY <3>2, <4>2 DEF EndpointAnswers
    <3>3. ASSUME NEW x \in Deliveries, EndJob(x) \/ AbortJob(x)
          PROVE  job' \in [Deliveries -> Job \union {None}]
      BY <3>3 DEF EndJob, AbortJob, JobAfter
    <3>4. CASE WorkerCrash
      BY <2>5, <3>4 DEF WorkerCrash
    <3> QED BY <1>6, <3>1, <3>2, <3>3, <3>4 DEF Worker
  <2>7. posted' \in [Deliveries -> Nat] /\ lost' \in SUBSET Deliveries /\ crashes' \in Nat
    <3>1. ASSUME NEW x \in Deliveries, NEW reply, EndpointAnswers(x, reply)
          PROVE  /\ posted' \in [Deliveries -> Nat] /\ lost' \in SUBSET Deliveries
                 /\ crashes' \in Nat
      BY <3>1 DEF EndpointAnswers
    <3>2. ASSUME NEW x \in Deliveries, StartJob(x) \/ EndJob(x) \/ AbortJob(x)
          PROVE  /\ posted' \in [Deliveries -> Nat] /\ lost' \in SUBSET Deliveries
                 /\ crashes' \in Nat
      BY <3>2 DEF StartJob, EndJob, AbortJob
    <3>3. CASE WorkerCrash
      BY <3>3 DEF WorkerCrash, EventConstants
    <3> QED BY <1>6, <3>1, <3>2, <3>3 DEF Worker
  <2> QED BY <2>2, <2>4, <2>6, <2>7
<1>7. ASSUME NEW w \in Webhooks, SwitchHook(w) PROVE TypeOK'
  BY <1>7 DEF SwitchHook, HookRow
<1>8. CASE UNCHANGED vars
  BY <1>8 DEF vars
<1> QED BY <1>3, <1>4, <1>5, <1>6, <1>7, <1>8 DEF Next

\* Every variable keeps its type and the list names a connection once.
THEOREM EventTypeCorrect == Spec => []TypeOK
<1>1. Init => TypeOK
  <2> SUFFICES ASSUME Init PROVE TypeOK
    OBVIOUS
  <2>1. conns \in Seq(Clients) /\ \A i, j \in DOMAIN conns : conns[i] = conns[j] => i = j
    BY DEF Init
  <2>2. NoRows \in [ok : Nat, failed : Nat]
    BY DEF NoRows
  <2>3. job \in [Deliveries -> Job \union {None}] /\ event \in [Events -> Occurrence \union {None}]
    BY DEF Init
  <2> QED BY <2>1, <2>2, <2>3 DEF Init, TypeOK
<1>2. TypeOK /\ [Next]_vars => TypeOK'
  BY TypeStep
<1> QED BY <1>1, <1>2, PTL DEF Spec

------------------------------------------------------------------------------
(* The live stream *)

\* A client that was connected as the broadcast began, and still is, has received it if its
\* place in the copy of the list is behind the next one to send to, and not yet otherwise.
SentSoFar(o) ==
  /\ Injective(event[o].list)
  /\ \A c \in present[o] \ gone :
       \E i \in DOMAIN event[o].list :
         /\ event[o].list[i] = c
         /\ heard[c][o] = IF i < event[o].at THEN 1 ELSE 0

StreamInv ==
  /\ \A o \in Events : present[o] \subseteq Listed \union gone
  /\ \A o \in Events : event[o] = None => /\ present[o] = {}
                                          /\ \A c \in Clients : heard[c][o] = 0
  /\ \A o \in Events : St(o) = "broadcasting" => SentSoFar(o)
  /\ \A o \in Events, c \in Clients :
       St(o) \in {"answered", "firing", "done"} /\ c \in present[o] \ gone => heard[c][o] = 1

\* Where nobody hears anything new, no client comes back, and no event begins or ends to
\* broadcast.
LEMMA StreamRests ==
  ASSUME TypeOK, StreamInv, UNCHANGED <<heard, present>>, gone \subseteq gone',
         \A c \in Listed \ gone : c \in Listed' \union gone',
         \A o \in Events :
           \/ event'[o] = event[o]
           \/ event[o] = None /\ event'[o] # None /\ event'[o].st = "answered"
           \/ /\ event[o] # None /\ event'[o] # None
              /\ event[o].st \in {"answered", "firing", "done"}
              /\ event'[o].st \in {"answered", "firing", "done"}
  PROVE  StreamInv'
<1>1. ASSUME NEW o \in Events PROVE (present[o] \subseteq Listed \union gone)'
  BY DEF StreamInv
<1>2. ASSUME NEW o \in Events, event'[o] = None
      PROVE  present'[o] = {} /\ \A c \in Clients : heard'[c][o] = 0
  BY <1>2 DEF StreamInv
<1>3. ASSUME NEW o \in Events, St(o)' = "broadcasting" PROVE SentSoFar(o)'
  <2>1. event'[o] = event[o] /\ St(o) = "broadcasting"
    BY <1>3 DEF St
  <2> QED BY <2>1 DEF StreamInv, SentSoFar
<1>4. ASSUME NEW o \in Events, NEW c \in Clients,
             St(o)' \in {"answered", "firing", "done"}, c \in present'[o] \ gone'
      PROVE  heard'[c][o] = 1
  <2>1. c \in present[o] \ gone /\ event[o] # None
    BY <1>4 DEF StreamInv
  <2>2. St(o) \in {"answered", "firing", "done"}
    BY <1>4, <2>1 DEF St
  <2> QED BY <2>1, <2>2 DEF StreamInv
<1> QED BY <1>1, <1>2, <1>3, <1>4 DEF StreamInv

LEMMA SendStep ==
  ASSUME TypeOK, StreamInv, NEW o \in Events, Send(o)
  PROVE  StreamInv'
<1> DEFINE e == event[o]
           d == e.list[e.at]
<1>1. e \in Occurrence /\ e # None /\ e.st = "broadcasting" /\ SentSoFar(o)
  BY DEF TypeOK, Send, St, StreamInv
<1>2. e.list \in Seq(Clients) /\ e.at \in Nat \ {0} /\ e.at \in DOMAIN e.list /\ d \in Clients
  <2>1. e.list \in Seq(Clients) /\ e.at \in Nat \ {0}
    BY <1>1, OccurrenceFields
  <2>2. e.at <= Len(e.list)
    BY DEF Send, Targets
  <2> QED BY <2>1, <2>2
<1>3. /\ event' = [event EXCEPT ![o].at = @ + 1]
      /\ UNCHANGED <<conns, gone, present>>
      /\ heard' = IF d \in gone THEN heard ELSE [heard EXCEPT ![d][o] = @ + 1]
  BY DEF Send, Targets
<1>4. /\ event'[o] = [e EXCEPT !.at = @ + 1] /\ event'[o] \in Occurrence /\ event'[o] # None
      /\ event'[o].st = "broadcasting" /\ event'[o].list = e.list /\ event'[o].at = e.at + 1
  <2>1. event'[o] = [e EXCEPT !.at = @ + 1]
    BY <1>3 DEF TypeOK
  <2>2. [e EXCEPT !.at = @ + 1] \in Occurrence
    BY <1>1, OccurrenceFields
  <2>3. [e EXCEPT !.at = @ + 1].st = e.st /\ [e EXCEPT !.at = @ + 1].list = e.list
        /\ [e EXCEPT !.at = @ + 1].at = e.at + 1
    BY <1>1 DEF Occurrence
  <2> QED BY <1>1, <2>1, <2>2, <2>3, NoneIsNoRow
<1>5. \A p \in Events \ {o} : event'[p] = event[p]
  BY <1>3 DEF TypeOK
<1>6. \A c \in Clients, p \in Events :
        heard'[c][p] = IF c = d /\ p = o /\ d \notin gone THEN heard[c][p] + 1 ELSE heard[c][p]
  BY <1>2, <1>3 DEF TypeOK
<1> HIDE DEF e, d
<1>7. Listed' = Listed
  BY <1>3 DEF Listed
<1>8. ASSUME NEW c \in present[o] \ gone
      PROVE  \E i \in DOMAIN e.list :
               e.list[i] = c /\ heard'[c][o] = IF i < e.at + 1 THEN 1 ELSE 0
  <2>1. c \in Clients
    BY DEF TypeOK
  <2>2. PICK i \in DOMAIN e.list :
          e.list[i] = c /\ heard[c][o] = IF i < e.at THEN 1 ELSE 0
    BY <1>1 DEF SentSoFar, e
  <2>3. i \in Nat /\ e.at \in Nat
    BY <1>2
  <2>4. CASE i = e.at
    <3>1. c = d /\ heard[c][o] = 0
      BY <2>2, <2>3, <2>4 DEF d
    <3>2. heard'[c][o] = 1
      BY <1>6, <2>1, <3>1
    <3> QED BY <2>2, <2>3, <2>4, <3>2
  <2>5. CASE i # e.at
    <3>1. c # d
      BY <1>1, <1>2, <2>2, <2>5 DEF SentSoFar, Injective, d, e
    <3>2. heard'[c][o] = heard[c][o]
      BY <1>6, <2>1, <3>1
    <3>3. i < e.at + 1 <=> i < e.at
      BY <2>3, <2>5
    <3> QED BY <2>2, <3>2, <3>3
  <2> QED BY <2>4, <2>5
<1>9. SentSoFar(o)'
  BY <1>1, <1>3, <1>4, <1>8 DEF SentSoFar, e
<1>10. \A p \in Events : p # o /\ St(p)' = "broadcasting" => SentSoFar(p)'
  <2> SUFFICES ASSUME NEW p \in Events \ {o}, St(p)' = "broadcasting" PROVE SentSoFar(p)'
    OBVIOUS
  <2>1. event'[p] = event[p] /\ St(p) = "broadcasting"
    BY <1>5 DEF St
  <2>2. \A c \in Clients : heard'[c][p] = heard[c][p]
    BY <1>6
  <2>3. present[p] \subseteq Clients
    BY DEF TypeOK
  <2> QED BY <1>3, <2>1, <2>2, <2>3 DEF StreamInv, SentSoFar
<1>11. ASSUME NEW p \in Events, NEW c \in Clients,
              St(p)' \in {"answered", "firing", "done"}, c \in present'[p] \ gone'
       PROVE  heard'[c][p] = 1
  <2>1. p # o
    BY <1>4, <1>11 DEF St
  <2>2. St(p) \in {"answered", "firing", "done"} /\ heard'[c][p] = heard[c][p]
    BY <1>5, <1>6, <1>11, <2>1 DEF St
  <2> QED BY <1>3, <1>11, <2>2 DEF StreamInv
<1>12. ASSUME NEW p \in Events, event'[p] = None
       PROVE  present'[p] = {} /\ \A c \in Clients : heard'[c][p] = 0
  <2>1. p # o
    BY <1>4, <1>12
  <2>2. event[p] = None /\ \A c \in Clients : heard'[c][p] = heard[c][p]
    BY <1>5, <1>6, <1>12, <2>1
  <2> QED BY <1>3, <2>2 DEF StreamInv
<1> QED BY <1>3, <1>7, <1>9, <1>10, <1>11, <1>12 DEF StreamInv

LEMMA StreamStep == TypeOK /\ TypeOK' /\ StreamInv /\ [Next]_vars => StreamInv'
<1> SUFFICES ASSUME TypeOK, TypeOK', StreamInv, [Next]_vars PROVE StreamInv'
  OBVIOUS
<1>0. \A o \in Events : /\ event[o] # None => event[o] \in Occurrence
                        /\ event'[o] # None => event'[o] \in Occurrence
  BY DEF TypeOK
<1>1. CASE Stream
  <2>1. ASSUME NEW c \in Clients, Connect(c) PROVE StreamInv'
    <3>1. Listed \subseteq Listed'
      <4>1. conns' = Append(conns, c) /\ conns \in Seq(Clients)
        BY <2>1 DEF Connect, TypeOK
      <4>2. \A i \in DOMAIN conns : i \in DOMAIN conns' /\ conns'[i] = conns[i]
        BY <4>1
      <4> QED BY <4>2 DEF Listed
    <3> QED BY <2>1, <3>1, StreamRests DEF Connect
  <2>2. ASSUME NEW c \in Clients, Close(c) PROVE StreamInv'
    <3>1. Listed' = Listed
      BY <2>2 DEF Close, Listed
    <3> QED BY <2>2, <3>1, StreamRests DEF Close
  <2>3. ASSUME NEW c \in Clients, Disconnect(c) PROVE StreamInv'
    <3>1. PICK i \in DOMAIN conns :
            /\ conns[i] = c
            /\ conns' = SubSeq(conns, 1, i - 1) \o SubSeq(conns, i + 1, Len(conns))
      BY <2>3 DEF Disconnect
    <3>2. conns \in Seq(Clients) /\ Injective(conns)
      BY DEF TypeOK, Injective
    <3>3. \A k \in DOMAIN conns : k # i => \E m \in DOMAIN conns' : conns'[m] = conns[k]
      BY <3>1, <3>2, DisconnectedOnce
    <3>4. \A b \in Listed \ gone : b \in Listed'
      BY <2>3, <3>1, <3>3 DEF Listed, Disconnect
    <3> QED BY <2>3, <3>4, StreamRests DEF Disconnect
  <2>4. ASSUME NEW o \in Events, Broadcast(o) PROVE StreamInv'
    <3>1. /\ event[o] = None /\ UNCHANGED <<conns, gone, heard>>
          /\ present' = [present EXCEPT ![o] = Listed]
          /\ event' = [event EXCEPT ![o] = [kind |-> "punch.created", st |-> "broadcasting",
                                            list |-> conns, at |-> 1, todo |-> {}]]
      BY <2>4 DEF Broadcast
    <3>2. /\ event'[o] # None /\ event'[o].st = "broadcasting" /\ event'[o].list = conns
          /\ event'[o].at = 1 /\ present'[o] = Listed
      <4>1. event'[o] = [kind |-> "punch.created", st |-> "broadcasting",
                         list |-> conns, at |-> 1, todo |-> {}]
        BY <3>1 DEF TypeOK
      <4>2. [kind |-> "punch.created", st |-> "broadcasting", list |-> conns, at |-> 1,
             todo |-> {}] \in Occurrence
        BY DEF Occurrence, Topics, TypeOK
      <4>3. present'[o] = Listed
        BY <3>1 DEF TypeOK
      <4> QED BY <4>1, <4>2, <4>3, NoneIsNoRow
    <3>3. \A p \in Events \ {o} : event'[p] = event[p] /\ present'[p] = present[p]
      BY <3>1 DEF TypeOK
    <3>4. Listed' = Listed
      BY <3>1 DEF Listed
    <3>5. \A c \in Clients : heard'[c][o] = 0
      BY <3>1 DEF StreamInv
    <3>6. SentSoFar(o)'
      <4>1. conns \in Seq(Clients) /\ Injective(conns)
        BY DEF TypeOK, Injective
      <4>2. \A c \in Listed : \E i \in DOMAIN conns : conns[i] = c /\ c \in Clients /\ ~(i < 1)
        BY <4>1 DEF Listed
      <4> QED BY <3>1, <3>2, <3>5, <4>1, <4>2 DEF SentSoFar
    <3>7. ASSUME NEW p \in Events, p # o
          PROVE  /\ St(p)' = St(p) /\ (SentSoFar(p) => SentSoFar(p)')
                 /\ heard' = heard /\ event'[p] = event[p] /\ present'[p] = present[p]
      BY <3>1, <3>3, <3>7 DEF St, SentSoFar
    <3>8. St(o)' = "broadcasting"
      BY <3>2 DEF St
    <3> QED BY <3>1, <3>2, <3>4, <3>6, <3>7, <3>8 DEF StreamInv
  <2>5. ASSUME NEW o \in Events, Send(o) PROVE StreamInv'
    BY <2>5, SendStep
  <2>6. ASSUME NEW o \in Events, EndBroadcast(o) PROVE StreamInv'
    <3>1. /\ St(o) = "broadcasting" /\ event[o] # None /\ UNCHANGED <<conns, gone, heard, present>>
          /\ event[o].at > Len(event[o].list) /\ event' = [event EXCEPT ![o].st = "answered"]
      BY <2>6 DEF EndBroadcast, St, Targets, stream
    <3>2. event'[o] = [event[o] EXCEPT !.st = "answered"] /\ event[o] \in Occurrence
      BY <1>0, <3>1 DEF TypeOK
    <3>3. event'[o].st = "answered" /\ event'[o] # None
      <4>1. [event[o] EXCEPT !.st = "answered"] \in Occurrence
        BY <3>2, OccurrenceFields
      <4>2. [event[o] EXCEPT !.st = "answered"].st = "answered"
        BY <3>2 DEF Occurrence
      <4> QED BY <3>2, <4>1, <4>2, NoneIsNoRow
    <3>4. \A c \in present[o] \ gone : heard[c][o] = 1
      <4>1. event[o].list \in Seq(Clients) /\ event[o].at \in Nat
        BY <3>2, OccurrenceFields
      <4>2. \A i \in DOMAIN event[o].list : i < event[o].at
        BY <3>1, <4>1
      <4> QED BY <3>1, <4>2 DEF StreamInv, SentSoFar
    <3>5. \A p \in Events \ {o} : event'[p] = event[p]
      BY <3>1 DEF TypeOK
    <3>6. Listed' = Listed
      BY <3>1 DEF Listed
    <3>7. ASSUME NEW p \in Events, p # o
          PROVE  /\ St(p)' = St(p) /\ (SentSoFar(p) => SentSoFar(p)') /\ event'[p] = event[p]
      BY <3>1, <3>5, <3>7 DEF St, SentSoFar
    <3>8. St(o)' = "answered"
      BY <3>3 DEF St
    <3> QED BY <3>1, <3>3, <3>4, <3>6, <3>7, <3>8 DEF StreamInv
  <2> QED BY <1>1, <2>1, <2>2, <2>3, <2>4, <2>5, <2>6 DEF Stream
<1>2. CASE LeavePages
  <2>1. UNCHANGED <<conns, gone, heard, present>>
    BY <1>2 DEF LeavePages, FileLeave, DeleteLeave, AdminFilesLeave, ReviewLeave, stream
  <2>2. event' = event \/ \E o \in Events : Announce(o)
    BY <1>2 DEF LeavePages, FileLeave, DeleteLeave, AdminFilesLeave, ReviewLeave
  <2>3. ASSUME NEW o \in Events, Announce(o), NEW p \in Events
        PROVE  \/ event'[p] = event[p]
               \/ event[p] = None /\ event'[p] # None /\ event'[p].st = "answered"
    <3>1. event'[o] = [kind |-> "leave.approved", st |-> "answered", list |-> <<>>, at |-> 1,
                       todo |-> {}]
      BY <2>3 DEF Announce, TypeOK
    <3>2. [kind |-> "leave.approved", st |-> "answered", list |-> <<>>, at |-> 1,
           todo |-> {}] \in Occurrence
      BY DEF Occurrence, Topics
    <3>3. p # o => event'[p] = event[p]
      BY <2>3 DEF Announce, TypeOK
    <3>4. event'[o] # None
      BY <3>1, <3>2, NoneIsNoRow
    <3>5. event[o] = None /\ event'[o].st = "answered"
      BY <2>3, <3>1 DEF Announce
    <3> QED BY <3>3, <3>4, <3>5
  <2>4. Listed' = Listed
    BY <2>1 DEF Listed
  <2> QED BY <2>1, <2>2, <2>3, <2>4, StreamRests
<1>3. CASE Firing
  <2>1. ASSUME NEW o \in Events,
               Fire(o) \/ FireFails(o) \/ FireEnds(o) \/ \E w \in Webhooks : EnqueueHook(o, w)
        PROVE  StreamInv'
    <3>1. UNCHANGED <<conns, gone, heard, present>> /\ St(o) \in {"answered", "firing"}
      BY <2>1 DEF Fire, FireFails, FireEnds, EnqueueHook, stream
    <3>2. event[o] # None /\ event[o] \in Occurrence /\ event[o].st \in {"answered", "firing"}
      BY <1>0, <3>1 DEF St
    <3>3. /\ \A p \in Events \ {o} : event'[p] = event[p]
          /\ \/ event'[o] = [event[o] EXCEPT !.st = "firing", !.todo = Subscribed(o)]
             \/ event'[o] = [event[o] EXCEPT !.todo = {}]
             \/ event'[o] = [event[o] EXCEPT !.st = "done"]
             \/ \E w \in Webhooks : event'[o] = [event[o] EXCEPT !.todo = @ \ {w}]
      BY <2>1 DEF Fire, FireFails, FireEnds, EnqueueHook, TypeOK
    <3>4. event'[o] # None /\ event'[o].st \in {"answered", "firing", "done"}
      <4>1. Subscribed(o) \in SUBSET Webhooks /\ event[o].todo \in SUBSET Webhooks
        BY <3>2, OccurrenceFields DEF Subscribed
      <4>2. event'[o] \in Occurrence
        <5>1. CASE event'[o] = [event[o] EXCEPT !.st = "firing", !.todo = Subscribed(o)]
          <6>1. [event[o] EXCEPT !.st = "firing", !.todo = Subscribed(o)] \in Occurrence
            BY <3>2, <4>1 DEF Occurrence
          <6> QED BY <5>1, <6>1
        <5>2. CASE event'[o] = [event[o] EXCEPT !.todo = {}]
          <6>1. [event[o] EXCEPT !.todo = {}] \in Occurrence
            BY <3>2 DEF Occurrence
          <6> QED BY <5>2, <6>1
        <5>3. CASE event'[o] = [event[o] EXCEPT !.st = "done"]
          BY <3>2, <5>3, OccurrenceFields
        <5>4. ASSUME NEW w \in Webhooks, event'[o] = [event[o] EXCEPT !.todo = @ \ {w}]
              PROVE  event'[o] \in Occurrence
          <6>1. event[o].todo \ {w} \in SUBSET Webhooks
            BY <4>1
          <6> QED BY <3>2, <5>4, <6>1, OccurrenceFields
        <5> QED BY <3>3, <5>1, <5>2, <5>3, <5>4
      <4>3. event'[o].st \in {"answered", "firing", "done"}
        BY <3>2, <3>3 DEF Occurrence
      <4> QED BY <4>2, <4>3, NoneIsNoRow
    <3>5. Listed' = Listed
      BY <3>1 DEF Listed
    <3> QED BY <3>1, <3>2, <3>3, <3>4, <3>5, StreamRests
  <2>2. CASE ApiCrash
    <3>1. /\ conns' = <<>> /\ gone' = gone \union Listed /\ heard' = heard /\ present' = present
      BY <2>2 DEF ApiCrash
    <3>2. event' = [o \in Events |-> IF event[o] = None THEN None
                                     ELSE [event[o] EXCEPT !.st = "done", !.todo = {}]]
      BY <2>2 DEF ApiCrash
    <3>3. \A o \in Events : present'[o] \subseteq gone'
      BY <3>1 DEF StreamInv
    <3>4. \A o \in Events : event'[o] = None <=> event[o] = None
      <4>1. \A o \in Events : event[o] # None =>
              [event[o] EXCEPT !.st = "done", !.todo = {}] \in Occurrence
        BY <1>0, OccurrenceFields
      <4> QED BY <3>2, <4>1, NoneIsNoRow
    <3>5. \A o \in Events : St(o)' # "broadcasting"
      <4>1. \A o \in Events : event[o] # None =>
              [event[o] EXCEPT !.st = "done", !.todo = {}].st = "done"
        BY <1>0 DEF Occurrence
      <4> QED BY <3>2, <3>4, <4>1 DEF St
    <3> QED BY <3>1, <3>3, <3>4, <3>5 DEF StreamInv
  <2> QED BY <1>3, <2>1, <2>2 DEF Firing
<1>4. CASE Worker \/ (\E w \in Webhooks : SwitchHook(w)) \/ UNCHANGED vars
  <2>1. UNCHANGED <<event, conns, gone, heard, present>>
    BY <1>4 DEF Worker, StartJob, EndpointAnswers, EndJob, AbortJob, WorkerCrash, SwitchHook,
                stream, vars
  <2>2. Listed' = Listed
    BY <2>1 DEF Listed
  <2> QED BY <2>1, <2>2, StreamRests
<1> QED BY <1>1, <1>2, <1>3, <1>4 DEF Next

\* Whoever is on the stream while a broadcast lasts hears it exactly once.
THEOREM StreamHearsAll == Spec => []StreamIsComplete
<1>1. Init => StreamInv
  BY DEF Init, StreamInv, St
<1>2. TypeOK /\ TypeOK' /\ StreamInv /\ [Next]_vars => StreamInv'
  BY StreamStep
<1>3. StreamInv => StreamIsComplete
  BY DEF StreamInv, StreamIsComplete
<1> QED BY <1>1, <1>2, <1>3, EventTypeCorrect, PTL DEF Spec

------------------------------------------------------------------------------
(* The webhooks *)

Begun(x) == St(x[1]) \in {"firing", "done"} /\ x[2] \notin event[x[1]].todo

\* Only a task that fires has webhooks still to enqueue, and before it has enqueued one
\* there is nothing of that delivery.
FireInv ==
  /\ \A o \in Events : event[o] # None /\ event[o].todo # {} => event[o].st = "firing"
  /\ \A x \in due : St(x[1]) \in {"firing", "done"}
  /\ \A x \in Deliveries : ~Begun(x) => job[x] = None /\ log[x] = NoRows /\ posted[x] = 0

Answered(x) == job[x] # None /\ job[x].st = "posting" /\ job[x].reply = "ok"

\* An accepted post that its job has yet to log; and a post that its job may yet make.
ToLog(x)  == IF Answered(x) THEN 1 ELSE 0
ToPost(x) == IF job[x] # None /\ ~Answered(x) THEN 1 ELSE 0

Posts(x) ==
  /\ job[x] # None /\ job[x].st = "queued" => job[x].reply = "none"
  /\ log[x].ok + ToLog(x) <= posted[x]
  /\ posted[x] + ToPost(x) <= 1 + crashes

PostInv == \A x \in Deliveries : Posts(x)

HookInv == FireInv /\ PostInv /\ HookIsAccounted

\* What the steps that deliver nothing may do to an event.
Steady(o) ==
  \/ event'[o] = event[o]
  \/ /\ event[o] = None /\ event'[o] # None
     /\ event'[o].st \in {"broadcasting", "answered"} /\ event'[o].todo = {}
  \/ /\ event[o] # None /\ event'[o] # None /\ event'[o].todo = event[o].todo
     /\ \/ event'[o].st = event[o].st
        \/ event[o].st = "broadcasting" /\ event'[o].st = "answered"
        \/ event[o].st = "firing" /\ event'[o].st = "done" /\ event[o].todo = {}

LEMMA HookRests ==
  ASSUME TypeOK, HookInv, UNCHANGED <<job, log, posted, due, lost, crashes>>,
         \A o \in Events : Steady(o)
  PROVE  HookInv'
<1>1. ASSUME NEW o \in Events, event'[o] # None, event'[o].todo # {}
      PROVE  event'[o].st = "firing"
  BY <1>1 DEF Steady, HookInv, FireInv
<1>2. ASSUME NEW x \in due
      PROVE  /\ St(x[1])' \in {"firing", "done"}
             /\ x[2] \in event[x[1]].todo => x[2] \in event'[x[1]].todo
  <2>1. x[1] \in Events
    BY DEF TypeOK, Deliveries
  <2>2. event[x[1]] # None /\ event[x[1]].st \in {"firing", "done"}
    BY DEF HookInv, FireInv, St
  <2> QED BY <2>1, <2>2 DEF Steady, St
<1>3. ASSUME NEW x \in Deliveries, ~Begun(x)' PROVE ~Begun(x)
  <2>1. x[1] \in Events
    BY DEF Deliveries
  <2> QED BY <1>3, <2>1 DEF Steady, Begun, St
<1>4. FireInv'
  BY <1>1, <1>2, <1>3 DEF HookInv, FireInv
<1>5. PostInv'
  BY DEF HookInv, PostInv, Posts, ToLog, ToPost, Answered
<1>6. HookIsAccounted'
  BY <1>2 DEF HookInv, HookIsAccounted
<1> QED BY <1>4, <1>5, <1>6 DEF HookInv

\* A job that is worked on concerns its own delivery.
LEMMA WorkerKeeps ==
  ASSUME TypeOK, HookInv, UNCHANGED <<event, due>>, lost \subseteq lost',
         \A x \in Deliveries :
           \/ job'[x] = job[x] /\ log'[x] = log[x] /\ posted'[x] = posted[x]
           \/ /\ job[x] # None
              /\ \/ job'[x] # None
                 \/ log'[x] # NoRows
                 \/ x \in lost',
         \A x \in Deliveries : log[x] # NoRows => log'[x] # NoRows
  PROVE  FireInv' /\ HookIsAccounted'
<1>1. \A x \in Deliveries : Begun(x)' <=> Begun(x)
  BY DEF Begun, St
<1>2. \A x \in Deliveries : ~Begun(x) =>
        job'[x] = job[x] /\ log'[x] = log[x] /\ posted'[x] = posted[x]
  BY DEF HookInv, FireInv
<1>3. FireInv'
  BY <1>1, <1>2 DEF HookInv, FireInv, St
<1>4. ASSUME NEW x \in due'
      PROVE  \/ x[2] \in event'[x[1]].todo \/ job'[x] # None \/ log'[x] # NoRows \/ x \in lost'
  <2>1. x \in Deliveries /\ x \in due
    BY DEF TypeOK
  <2> QED BY <2>1 DEF HookInv, HookIsAccounted
<1> QED BY <1>3, <1>4 DEF HookIsAccounted

LEMMA LoggedRow ==
  ASSUME TypeOK, NEW x \in Deliveries, NEW ok \in BOOLEAN
  PROVE  /\ \A y \in Deliveries : y # x => Logged(x, ok)[y] = log[y]
         /\ Logged(x, ok)[x] # NoRows
         /\ Logged(x, ok)[x].ok = IF ok THEN log[x].ok + 1 ELSE log[x].ok
<1>1. log \in [Deliveries -> [ok : Nat, failed : Nat]]
  BY DEF TypeOK
<1>2. log[x].ok \in Nat /\ log[x].failed \in Nat
  BY <1>1
<1>3. CASE ok
  <2>1. Logged(x, ok) = [log EXCEPT ![x].ok = @ + 1]
    BY <1>3 DEF Logged
  <2>2. Logged(x, ok)[x].ok = log[x].ok + 1
    BY <1>1, <2>1
  <2>3. \A y \in Deliveries : y # x => Logged(x, ok)[y] = log[y]
    BY <1>1, <2>1
  <2>4. Logged(x, ok)[x] # NoRows
    BY <1>2, <2>2 DEF NoRows
  <2> QED BY <1>3, <2>2, <2>3, <2>4
<1>4. CASE ~ok
  <2>1. Logged(x, ok) = [log EXCEPT ![x].failed = @ + 1]
    BY <1>4 DEF Logged
  <2>2. Logged(x, ok)[x].failed = log[x].failed + 1 /\ Logged(x, ok)[x].ok = log[x].ok
    BY <1>1, <2>1
  <2>3. \A y \in Deliveries : y # x => Logged(x, ok)[y] = log[y]
    BY <1>1, <2>1
  <2>4. Logged(x, ok)[x] # NoRows
    BY <1>2, <2>2 DEF NoRows
  <2> QED BY <1>4, <2>2, <2>3, <2>4
<1> QED BY <1>3, <1>4

LEMMA WorkerStep == TypeOK /\ HookInv /\ Worker => HookInv'
<1> SUFFICES ASSUME TypeOK, HookInv, Worker PROVE HookInv'
  OBVIOUS
<1>0. /\ \A y \in Deliveries : /\ job[y] # None => job[y] \in Job
                               /\ log[y].ok \in Nat /\ posted[y] \in Nat
                               /\ Posts(y)
      /\ crashes \in Nat
  BY DEF TypeOK, HookInv, PostInv
<1>1. ASSUME NEW x \in Deliveries, crashes' = crashes,
             \A y \in Deliveries : y # x =>
               job'[y] = job[y] /\ log'[y] = log[y] /\ posted'[y] = posted[y],
             Posts(x)'
      PROVE  PostInv'
  <2> SUFFICES ASSUME NEW y \in Deliveries, y # x PROVE Posts(y)'
    BY <1>1 DEF PostInv
  <2> QED BY <1>0, <1>1 DEF Posts, ToLog, ToPost, Answered
<1>2. ASSUME NEW x \in Deliveries, StartJob(x) PROVE HookInv'
  <2>1. /\ job[x] # None /\ job[x] \in Job /\ job[x].st = "queued" /\ job[x].reply = "none"
        /\ UNCHANGED <<event, log, posted, due, crashes>> /\ lost \subseteq lost'
    BY <1>0, <1>2 DEF StartJob, JobSt, Posts
  <2>2. \A y \in Deliveries : y # x => job'[y] = job[y]
    BY <1>2 DEF StartJob, TypeOK
  <2>3. \/ job'[x] = [job[x] EXCEPT !.st = "posting"]
        \/ job'[x] = None /\ x \in lost'
    BY <1>2 DEF StartJob, TypeOK
  <2>4. job'[x] # None => job'[x].st = "posting" /\ job'[x].reply = "none"
    <3>1. /\ [job[x] EXCEPT !.st = "posting"].st = "posting"
          /\ [job[x] EXCEPT !.st = "posting"].reply = job[x].reply
      BY <2>1 DEF Job
    <3> QED BY <2>1, <2>3, <3>1
  <2>5. job'[x] # None \/ x \in lost'
    <3>1. [job[x] EXCEPT !.st = "posting"] \in Job
      BY <2>1 DEF Job
    <3> QED BY <2>3, <3>1, NoneIsNoRow
  <2>6. Posts(x)'
    BY <1>0, <2>1, <2>4 DEF Posts, ToLog, ToPost, Answered
  <2>7. PostInv'
    BY <1>1, <2>1, <2>2, <2>6
  <2>8. FireInv' /\ HookIsAccounted'
    BY <2>1, <2>2, <2>5, WorkerKeeps
  <2> QED BY <2>7, <2>8 DEF HookInv
<1>3. ASSUME NEW x \in Deliveries, NEW r \in {"ok", "error"}, EndpointAnswers(x, r)
      PROVE  HookInv'
  <2>1. /\ job[x] # None /\ job[x] \in Job /\ job[x].st = "posting" /\ job[x].reply = "none"
        /\ UNCHANGED <<event, log, due, lost, crashes>>
    BY <1>0, <1>3 DEF EndpointAnswers, JobSt
  <2>2. \A y \in Deliveries : y # x => job'[y] = job[y] /\ posted'[y] = posted[y]
    BY <1>3 DEF EndpointAnswers, TypeOK
  <2>3. /\ job'[x] = [job[x] EXCEPT !.reply = r]
        /\ posted'[x] = IF r = "ok" THEN posted[x] + 1 ELSE posted[x]
    BY <1>3 DEF EndpointAnswers, TypeOK
  <2>4. job'[x] # None /\ job'[x].st = "posting" /\ job'[x].reply = r
    <3>1. /\ [job[x] EXCEPT !.reply = r] \in Job
          /\ [job[x] EXCEPT !.reply = r].st = job[x].st
          /\ [job[x] EXCEPT !.reply = r].reply = r
      BY <2>1 DEF Job
    <3> QED BY <2>1, <2>3, <3>1, NoneIsNoRow
  <2>5. Posts(x)'
    <3>1. CASE r = "ok"
      BY <1>0, <2>1, <2>3, <2>4, <3>1 DEF Posts, ToLog, ToPost, Answered
    <3>2. CASE r = "error"
      BY <1>0, <2>1, <2>3, <2>4, <3>2 DEF Posts, ToLog, ToPost, Answered
    <3> QED BY <3>1, <3>2
  <2>6. PostInv'
    BY <1>1, <2>1, <2>2, <2>5
  <2>7. FireInv' /\ HookIsAccounted'
    BY <2>1, <2>2, <2>4, WorkerKeeps
  <2> QED BY <2>6, <2>7 DEF HookInv
<1>4. ASSUME NEW x \in Deliveries, EndJob(x) PROVE HookInv'
  <2>1. PICK ok \in BOOLEAN : /\ ok => job[x].reply = "ok"
                              /\ log' = Logged(x, ok)
                              /\ job' = [job EXCEPT ![x] = None]
    BY <1>4 DEF EndJob, Attempted, JobAfter
  <2>2. /\ job[x] # None /\ job[x].st = "posting"
        /\ UNCHANGED <<event, posted, due, lost, crashes>>
    BY <1>4 DEF EndJob, JobSt
  <2>3. /\ job'[x] = None /\ log'[x] # NoRows
        /\ log'[x].ok = IF ok THEN log[x].ok + 1 ELSE log[x].ok
        /\ \A y \in Deliveries : y # x => job'[y] = job[y] /\ log'[y] = log[y]
    BY <2>1, LoggedRow DEF TypeOK
  <2>4. Posts(x)'
    <3>1. CASE ok
      BY <1>0, <2>1, <2>2, <2>3, <3>1 DEF Posts, ToLog, ToPost, Answered
    <3>2. CASE ~ok
      BY <1>0, <2>1, <2>2, <2>3, <3>2 DEF Posts, ToLog, ToPost, Answered
    <3> QED BY <3>1, <3>2
  <2>5. PostInv'
    BY <1>1, <2>2, <2>3, <2>4
  <2>6. FireInv' /\ HookIsAccounted'
    BY <2>2, <2>3, WorkerKeeps
  <2> QED BY <2>5, <2>6 DEF HookInv
<1>5. ASSUME NEW x \in Deliveries, AbortJob(x) PROVE HookInv'
  <2>1. /\ job[x] # None /\ UNCHANGED <<event, log, posted, due, crashes>>
        /\ lost' = lost \union {x} /\ job'[x] = None
        /\ \A y \in Deliveries : y # x => job'[y] = job[y]
    BY <1>5 DEF AbortJob, JobSt, TypeOK
  <2>2. Posts(x)'
    BY <1>0, <2>1 DEF Posts, ToLog, ToPost, Answered
  <2>3. PostInv'
    BY <1>1, <2>1, <2>2
  <2>4. FireInv' /\ HookIsAccounted'
    BY <2>1, WorkerKeeps
  <2> QED BY <2>3, <2>4 DEF HookInv
<1>6. CASE WorkerCrash
  <2>1. /\ crashes' = crashes + 1 /\ UNCHANGED <<event, posted, due, lost>>
        /\ job' = [x \in Deliveries |-> IF JobSt(x) = "posting" THEN NewJob ELSE job[x]]
        /\ \/ log' = log
           \/ \E x \in Deliveries, ok \in BOOLEAN :
                /\ JobSt(x) = "posting" /\ (ok => job[x].reply = "ok")
                /\ log' = Logged(x, ok)
    BY <1>6 DEF WorkerCrash
  <2>2. NewJob # None /\ NewJob.st = "queued" /\ NewJob.reply = "none"
    BY NoneIsNoRow DEF NewJob, Job
  <2>3. ASSUME NEW y \in Deliveries
        PROVE  /\ IF JobSt(y) = "posting" THEN job'[y] = NewJob ELSE job'[y] = job[y]
               /\ \/ log'[y] = log[y]
                  \/ /\ JobSt(y) = "posting" /\ log'[y] # NoRows
                     /\ \/ log'[y].ok = log[y].ok
                        \/ log'[y].ok = log[y].ok + 1 /\ job[y].reply = "ok"
    <3>1. IF JobSt(y) = "posting" THEN job'[y] = NewJob ELSE job'[y] = job[y]
      BY <2>1
    <3>2. ASSUME NEW x \in Deliveries, NEW ok \in BOOLEAN, JobSt(x) = "posting",
                 ok => job[x].reply = "ok", log' = Logged(x, ok)
          PROVE  \/ log'[y] = log[y]
                 \/ /\ JobSt(y) = "posting" /\ log'[y] # NoRows
                    /\ \/ log'[y].ok = log[y].ok
                       \/ log'[y].ok = log[y].ok + 1 /\ job[y].reply = "ok"
      BY <3>2, LoggedRow
    <3> QED BY <2>1, <3>1, <3>2
  <2>4. ASSUME NEW y \in Deliveries PROVE Posts(y)'
    <3>1. CASE JobSt(y) = "posting"
      <4>1. job[y] # None /\ job[y].st = "posting" /\ job'[y] = NewJob
        BY <2>3, <3>1 DEF JobSt
      <4>2. ToLog(y)' = 0 /\ ToPost(y)' = 1
        BY <2>2, <4>1 DEF ToLog, ToPost, Answered
      <4>3. /\ log'[y].ok \in Nat /\ log'[y].ok <= posted[y]
            /\ posted[y] + 1 <= 1 + (crashes + 1)
        BY <1>0, <2>3, <4>1 DEF Posts, ToLog, ToPost, Answered
      <4>4. log'[y].ok + 0 <= posted'[y] /\ posted'[y] + 1 <= 1 + crashes'
        BY <1>0, <2>1, <4>3
      <4>5. job'[y].reply = "none"
        BY <2>2, <4>1
      <4> QED BY <4>2, <4>4, <4>5 DEF Posts
    <3>2. CASE JobSt(y) # "posting"
      <4>1. job'[y] = job[y] /\ log'[y] = log[y] /\ posted'[y] = posted[y]
        BY <2>1, <2>3, <3>2
      <4> QED BY <1>0, <2>1, <4>1 DEF Posts, ToLog, ToPost, Answered
    <3> QED BY <3>1, <3>2
  <2>5. PostInv'
    BY <2>4 DEF PostInv
  <2>6. ASSUME NEW y \in Deliveries
        PROVE  /\ \/ job'[y] = job[y] /\ log'[y] = log[y] /\ posted'[y] = posted[y]
                  \/ job[y] # None /\ job'[y] # None
               /\ log[y] # NoRows => log'[y] # NoRows
    BY <2>1, <2>2, <2>3 DEF JobSt
  <2>7. FireInv' /\ HookIsAccounted'
    BY <2>1, <2>6, WorkerKeeps
  <2> QED BY <2>5, <2>7 DEF HookInv
<1> QED BY <1>2, <1>3, <1>4, <1>5, <1>6 DEF Worker

LEMMA FiringStep == TypeOK /\ HookInv /\ Firing => HookInv'
<1> SUFFICES ASSUME TypeOK, HookInv, Firing PROVE HookInv'
  OBVIOUS
<1>0. \A p \in Events : event[p] # None => event[p] \in Occurrence
  BY DEF TypeOK
<1>1. ASSUME NEW o \in Events, Fire(o) PROVE HookInv'
  <2>1. /\ event[o] # None /\ event[o] \in Occurrence /\ event[o].st = "answered"
        /\ UNCHANGED <<job, log, posted, lost, crashes>>
        /\ due' = due \union ({o} \X Subscribed(o))
        /\ event'[o] = [event[o] EXCEPT !.st = "firing", !.todo = Subscribed(o)]
        /\ \A p \in Events \ {o} : event'[p] = event[p]
    BY <1>0, <1>1 DEF Fire, St, TypeOK
  <2>2. event'[o] # None /\ event'[o].st = "firing" /\ event'[o].todo = Subscribed(o)
    <3>1. Subscribed(o) \in SUBSET Webhooks
      BY DEF Subscribed
    <3>2. /\ [event[o] EXCEPT !.st = "firing", !.todo = Subscribed(o)] \in Occurrence
          /\ [event[o] EXCEPT !.st = "firing", !.todo = Subscribed(o)].st = "firing"
          /\ [event[o] EXCEPT !.st = "firing", !.todo = Subscribed(o)].todo = Subscribed(o)
      BY <2>1, <3>1 DEF Occurrence
    <3> QED BY <2>1, <3>2, NoneIsNoRow
  <2>3. \A x \in due : x[1] \in Events /\ x[1] # o
    BY <2>1 DEF HookInv, FireInv, St, TypeOK, Deliveries
  <2>4. \A x \in Deliveries : x[1] \in Events /\ (x[1] = o => ~Begun(x))
    BY <2>1 DEF Begun, St, Deliveries
  <2>5. \A x \in Deliveries : x[1] # o => (Begun(x)' <=> Begun(x))
    BY <2>1, <2>4 DEF Begun, St
  <2>6. FireInv'
    <3>1. \A p \in Events : event'[p] # None /\ event'[p].todo # {} => event'[p].st = "firing"
      BY <2>1, <2>2 DEF HookInv, FireInv
    <3>2. \A x \in due' : St(x[1])' \in {"firing", "done"}
      BY <2>1, <2>2, <2>3 DEF HookInv, FireInv, St
    <3>3. \A x \in Deliveries : ~Begun(x)' => job'[x] = None /\ log'[x] = NoRows /\ posted'[x] = 0
      BY <2>1, <2>4, <2>5 DEF HookInv, FireInv
    <3> QED BY <3>1, <3>2, <3>3 DEF FireInv
  <2>7. PostInv'
    BY <2>1 DEF HookInv, PostInv, Posts, ToLog, ToPost, Answered
  <2>8. HookIsAccounted'
    <3> SUFFICES ASSUME NEW x \in due'
                 PROVE  \/ x[2] \in event'[x[1]].todo \/ job'[x] # None
                        \/ log'[x] # NoRows \/ x \in lost'
      BY DEF HookIsAccounted
    <3>1. CASE x \in due
      BY <2>1, <2>3, <3>1 DEF HookInv, HookIsAccounted
    <3>2. CASE x \in {o} \X Subscribed(o)
      BY <2>2, <3>2
    <3> QED BY <2>1, <3>1, <3>2
  <2> QED BY <2>6, <2>7, <2>8 DEF HookInv
<1>2. ASSUME NEW o \in Events, FireFails(o) PROVE HookInv'
  <2>1. /\ event[o] # None /\ event[o] \in Occurrence /\ event[o].st = "firing"
        /\ UNCHANGED <<job, log, posted, due, crashes>>
        /\ lost' = lost \union ({o} \X event[o].todo)
        /\ event'[o] = [event[o] EXCEPT !.todo = {}]
        /\ \A p \in Events \ {o} : event'[p] = event[p]
    BY <1>0, <1>2 DEF FireFails, St, TypeOK
  <2>2. event'[o] # None /\ event'[o].st = "firing" /\ event'[o].todo = {}
    <3>1. /\ [event[o] EXCEPT !.todo = {}] \in Occurrence
          /\ [event[o] EXCEPT !.todo = {}].st = event[o].st
          /\ [event[o] EXCEPT !.todo = {}].todo = {}
      BY <2>1 DEF Occurrence
    <3> QED BY <2>1, <3>1, NoneIsNoRow
  <2>3. \A x \in Deliveries : x[1] \in Events /\ x = <<x[1], x[2]>>
                              /\ (~Begun(x)' => ~Begun(x))
    <3>1. \A x \in Deliveries : x[1] \in Events /\ x = <<x[1], x[2]>>
      BY DEF Deliveries
    <3>2. ASSUME NEW x \in Deliveries, Begun(x) PROVE Begun(x)'
      <4>1. CASE x[1] = o
        BY <2>2, <4>1 DEF Begun, St
      <4>2. CASE x[1] # o
        BY <2>1, <3>1, <3>2, <4>2 DEF Begun, St
      <4> QED BY <4>1, <4>2
    <3> QED BY <3>1, <3>2
  <2>4. FireInv'
    <3>1. \A p \in Events : event'[p] # None /\ event'[p].todo # {} => event'[p].st = "firing"
      BY <2>1, <2>2 DEF HookInv, FireInv
    <3>2. \A x \in due' : St(x[1])' \in {"firing", "done"}
      BY <2>1, <2>2, <2>3 DEF HookInv, FireInv, St, TypeOK
    <3>3. \A x \in Deliveries : ~Begun(x)' => job'[x] = None /\ log'[x] = NoRows /\ posted'[x] = 0
      BY <2>1, <2>3 DEF HookInv, FireInv
    <3> QED BY <3>1, <3>2, <3>3 DEF FireInv
  <2>5. PostInv'
    BY <2>1 DEF HookInv, PostInv, Posts, ToLog, ToPost, Answered
  <2>6. HookIsAccounted'
    <3> SUFFICES ASSUME NEW x \in due
                 PROVE  \/ x[2] \in event'[x[1]].todo \/ job'[x] # None
                        \/ log'[x] # NoRows \/ x \in lost'
      BY <2>1 DEF HookIsAccounted
    <3>1. x \in Deliveries
      BY DEF TypeOK
    <3>2. CASE x[1] = o /\ x[2] \in event[o].todo
      BY <2>1, <2>3, <3>1, <3>2
    <3>3. CASE x[1] # o \/ x[2] \notin event[o].todo
      BY <2>1, <2>3, <3>1, <3>3 DEF HookInv, HookIsAccounted
    <3> QED BY <3>2, <3>3
  <2> QED BY <2>4, <2>5, <2>6 DEF HookInv
<1>3. ASSUME NEW o \in Events, FireEnds(o) PROVE HookInv'
  <2>1. /\ event[o] # None /\ event[o] \in Occurrence /\ event[o].st = "firing"
        /\ event[o].todo = {}
        /\ UNCHANGED <<job, log, posted, due, lost, crashes>>
        /\ event'[o] = [event[o] EXCEPT !.st = "done"]
        /\ \A p \in Events \ {o} : event'[p] = event[p]
    BY <1>0, <1>3 DEF FireEnds, St, TypeOK, webhook
  <2>2. event'[o] # None /\ event'[o].st = "done" /\ event'[o].todo = event[o].todo
    <3>1. /\ [event[o] EXCEPT !.st = "done"] \in Occurrence
          /\ [event[o] EXCEPT !.st = "done"].st = "done"
          /\ [event[o] EXCEPT !.st = "done"].todo = event[o].todo
      BY <2>1 DEF Occurrence
    <3> QED BY <2>1, <3>1, NoneIsNoRow
  <2>3. \A p \in Events : Steady(p)
    BY <2>1, <2>2 DEF Steady
  <2> QED BY <2>1, <2>3, HookRests
<1>4. ASSUME NEW o \in Events, NEW w \in Webhooks, EnqueueHook(o, w) PROVE HookInv'
  <2> DEFINE x == <<o, w>>
  <2>1. /\ event[o] # None /\ event[o] \in Occurrence /\ event[o].st = "firing"
        /\ w \in event[o].todo
        /\ UNCHANGED <<log, posted, due, lost, crashes>>
        /\ event'[o] = [event[o] EXCEPT !.todo = @ \ {w}]
        /\ \A p \in Events \ {o} : event'[p] = event[p]
    BY <1>0, <1>4 DEF EnqueueHook, St, TypeOK
  <2>2. x \in Deliveries /\ job'[x] = NewJob /\ \A y \in Deliveries : y # x => job'[y] = job[y]
    BY <1>4 DEF EnqueueHook, TypeOK, Deliveries
  <2>3. NewJob # None /\ NewJob.st = "queued" /\ NewJob.reply = "none"
    BY NoneIsNoRow DEF NewJob, Job
  <2>4. /\ event'[o] # None /\ event'[o].st = "firing"
        /\ event'[o].todo = event[o].todo \ {w}
    <3>1. event[o].todo \ {w} \in SUBSET Webhooks
      BY <2>1 DEF Occurrence
    <3>2. /\ [event[o] EXCEPT !.todo = @ \ {w}] \in Occurrence
          /\ [event[o] EXCEPT !.todo = @ \ {w}].st = event[o].st
          /\ [event[o] EXCEPT !.todo = @ \ {w}].todo = event[o].todo \ {w}
      BY <2>1, <3>1 DEF Occurrence
    <3> QED BY <2>1, <3>2, NoneIsNoRow
  <2>5. \A y \in Deliveries : /\ y[1] \in Events /\ y = <<y[1], y[2]>>
                              /\ ~Begun(y)' => ~Begun(y) /\ y # x
    <3>1. \A y \in Deliveries : y[1] \in Events /\ y = <<y[1], y[2]>>
      BY DEF Deliveries
    <3>2. ASSUME NEW y \in Deliveries, Begun(y) PROVE Begun(y)'
      <4>1. CASE y[1] = o
        BY <2>1, <2>4, <3>2, <4>1 DEF Begun, St
      <4>2. CASE y[1] # o
        BY <2>1, <3>1, <3>2, <4>2 DEF Begun, St
      <4> QED BY <4>1, <4>2
    <3>3. Begun(x)'
      BY <2>4 DEF Begun, St
    <3> QED BY <3>1, <3>2, <3>3
  <2>6. job[x] = None /\ log[x] = NoRows /\ posted[x] = 0
    <3>1. ~Begun(x)
      BY <2>1 DEF Begun
    <3> QED BY <2>2, <3>1 DEF HookInv, FireInv
  <2>7. FireInv'
    <3>1. \A p \in Events : event'[p] # None /\ event'[p].todo # {} => event'[p].st = "firing"
      BY <2>1, <2>4 DEF HookInv, FireInv
    <3>2. \A y \in due' : St(y[1])' \in {"firing", "done"}
      BY <2>1, <2>4, <2>5 DEF HookInv, FireInv, St, TypeOK
    <3>3. \A y \in Deliveries : ~Begun(y)' => job'[y] = None /\ log'[y] = NoRows /\ posted'[y] = 0
      BY <2>1, <2>2, <2>5 DEF HookInv, FireInv
    <3> QED BY <3>1, <3>2, <3>3 DEF FireInv
  <2>8. PostInv'
    <3>1. ASSUME NEW y \in Deliveries, y # x PROVE Posts(y)'
      BY <2>1, <2>2, <3>1 DEF HookInv, PostInv, Posts, ToLog, ToPost, Answered
    <3>2. Posts(x)'
      <4>1. crashes \in Nat /\ log'[x].ok = 0 /\ posted'[x] = 0
        BY <2>1, <2>6 DEF NoRows, TypeOK
      <4>2. ToLog(x)' = 0 /\ ToPost(x)' = 1
        BY <2>2, <2>3 DEF ToLog, ToPost, Answered
      <4> QED BY <2>1, <2>2, <2>3, <4>1, <4>2 DEF Posts
    <3> QED BY <3>1, <3>2 DEF PostInv
  <2>9. HookIsAccounted'
    <3> SUFFICES ASSUME NEW y \in due
                 PROVE  \/ y[2] \in event'[y[1]].todo \/ job'[y] # None
                        \/ log'[y] # NoRows \/ y \in lost'
      BY <2>1 DEF HookIsAccounted
    <3>1. y \in Deliveries
      BY DEF TypeOK
    <3>2. CASE y = x
      BY <2>2, <2>3, <3>2
    <3>3. CASE y # x
      <4>1. y[2] \in event[y[1]].todo => y[2] \in event'[y[1]].todo
        BY <2>1, <2>4, <2>5, <3>1, <3>3
      <4> QED BY <2>1, <2>2, <3>1, <3>3, <4>1 DEF HookInv, HookIsAccounted
    <3> QED BY <3>2, <3>3
  <2> QED BY <2>7, <2>8, <2>9 DEF HookInv
<1>5. CASE ApiCrash
  <2>1. /\ crashes' = crashes + 1 /\ UNCHANGED <<job, log, posted, due>>
        /\ lost' = lost \union
             {x \in Deliveries : St(x[1]) = "firing" /\ x[2] \in event[x[1]].todo}
        /\ \A p \in Events : event'[p] = IF event[p] = None THEN None
                                         ELSE [event[p] EXCEPT !.st = "done", !.todo = {}]
    BY <1>5 DEF ApiCrash
  <2>2. \A p \in Events : event[p] # None =>
          event'[p] # None /\ event'[p].st = "done" /\ event'[p].todo = {}
    <3> SUFFICES ASSUME NEW p \in Events, event[p] # None
                 PROVE  event'[p] # None /\ event'[p].st = "done" /\ event'[p].todo = {}
      OBVIOUS
    <3>1. /\ [event[p] EXCEPT !.st = "done", !.todo = {}] \in Occurrence
          /\ [event[p] EXCEPT !.st = "done", !.todo = {}].st = "done"
          /\ [event[p] EXCEPT !.st = "done", !.todo = {}].todo = {}
      BY <1>0 DEF Occurrence
    <3> QED BY <2>1, <3>1, NoneIsNoRow
  <2>3. \A x \in Deliveries : x[1] \in Events /\ (~Begun(x)' => ~Begun(x))
    BY <2>1, <2>2 DEF Begun, St, Deliveries
  <2>4. FireInv'
    <3>1. \A p \in Events : event'[p] # None /\ event'[p].todo # {} => event'[p].st = "firing"
      BY <2>1, <2>2
    <3>2. \A x \in due' : St(x[1])' \in {"firing", "done"}
      BY <2>1, <2>2, <2>3 DEF HookInv, FireInv, St, TypeOK
    <3>3. \A x \in Deliveries : ~Begun(x)' => job'[x] = None /\ log'[x] = NoRows /\ posted'[x] = 0
      BY <2>1, <2>3 DEF HookInv, FireInv
    <3> QED BY <3>1, <3>2, <3>3 DEF FireInv
  <2>5. PostInv'
    <3> SUFFICES ASSUME NEW x \in Deliveries PROVE Posts(x)'
      BY DEF PostInv
    <3>1. Posts(x) /\ crashes \in Nat /\ posted[x] \in Nat
      BY DEF HookInv, PostInv, TypeOK
    <3>2. ToLog(x)' = ToLog(x) /\ ToPost(x)' = ToPost(x) /\ ToPost(x) \in Nat
      BY <2>1 DEF ToLog, ToPost, Answered
    <3>3. posted[x] + ToPost(x) <= 1 + (crashes + 1)
      BY <3>1, <3>2 DEF Posts
    <3> QED BY <2>1, <3>1, <3>2, <3>3 DEF Posts
  <2>6. HookIsAccounted'
    <3> SUFFICES ASSUME NEW x \in due
                 PROVE  job'[x] # None \/ log'[x] # NoRows \/ x \in lost'
      BY <2>1 DEF HookIsAccounted
    <3>1. x \in Deliveries /\ x[1] \in Events
      BY <2>3 DEF TypeOK
    <3>2. CASE x[2] \in event[x[1]].todo
      <4>1. event[x[1]] # None
        BY DEF HookInv, FireInv, St
      <4>2. St(x[1]) = "firing"
        BY <3>1, <3>2, <4>1 DEF HookInv, FireInv, St
      <4> QED BY <2>1, <3>1, <3>2, <4>2
    <3>3. CASE x[2] \notin event[x[1]].todo
      BY <2>1, <3>3 DEF HookInv, HookIsAccounted
    <3> QED BY <3>2, <3>3
  <2> QED BY <2>4, <2>5, <2>6 DEF HookInv
<1> QED BY <1>1, <1>2, <1>3, <1>4, <1>5 DEF Firing

LEMMA HookStep == TypeOK /\ HookInv /\ [Next]_vars => HookInv'
<1> SUFFICES ASSUME TypeOK, HookInv, [Next]_vars PROVE HookInv'
  OBVIOUS
<1>1. CASE Stream
  <2>1. UNCHANGED <<job, log, posted, due, lost, crashes>>
    BY <1>1 DEF Stream, Connect, Close, Disconnect, Broadcast, Send, EndBroadcast, webhook
  <2>2. \A o \in Events : Steady(o)
    <3>1. ASSUME NEW c \in Clients, Connect(c) \/ Close(c) \/ Disconnect(c)
          PROVE  event' = event
      BY <3>1 DEF Connect, Close, Disconnect
    <3>2. ASSUME NEW o \in Events, Broadcast(o), NEW p \in Events PROVE Steady(p)
      <4>1. /\ event[o] = None /\ (p # o => event'[p] = event[p])
            /\ event'[o] = [kind |-> "punch.created", st |-> "broadcasting",
                            list |-> conns, at |-> 1, todo |-> {}]
        BY <3>2 DEF Broadcast, TypeOK
      <4>2. [kind |-> "punch.created", st |-> "broadcasting", list |-> conns, at |-> 1,
             todo |-> {}] \in Occurrence
        BY DEF Occurrence, Topics, TypeOK
      <4>3. event'[o] # None
        BY <4>1, <4>2, NoneIsNoRow
      <4>4. event'[o].st = "broadcasting" /\ event'[o].todo = {}
        BY <4>1
      <4> QED BY <4>1, <4>3, <4>4 DEF Steady
    <3>3. ASSUME NEW o \in Events, Send(o) \/ EndBroadcast(o), NEW p \in Events PROVE Steady(p)
      <4>1. /\ event[o] # None /\ event[o] \in Occurrence /\ event[o].st = "broadcasting"
            /\ (p # o => event'[p] = event[p])
            /\ \/ event'[o] = [event[o] EXCEPT !.at = @ + 1]
               \/ event'[o] = [event[o] EXCEPT !.st = "answered"]
        BY <3>3 DEF Send, EndBroadcast, St, TypeOK
      <4>2. /\ [event[o] EXCEPT !.at = @ + 1] \in Occurrence
            /\ [event[o] EXCEPT !.at = @ + 1].st = event[o].st
            /\ [event[o] EXCEPT !.at = @ + 1].todo = event[o].todo
        BY <4>1 DEF Occurrence
      <4>3. /\ [event[o] EXCEPT !.st = "answered"] \in Occurrence
            /\ [event[o] EXCEPT !.st = "answered"].st = "answered"
            /\ [event[o] EXCEPT !.st = "answered"].todo = event[o].todo
        BY <4>1 DEF Occurrence
      <4>4. /\ event'[o] # None /\ event'[o].todo = event[o].todo
            /\ event'[o].st \in {"broadcasting", "answered"}
        BY <4>1, <4>2, <4>3, NoneIsNoRow
      <4> QED BY <4>1, <4>4 DEF Steady
    <3> QED BY <1>1, <3>1, <3>2, <3>3 DEF Stream, Steady
  <2> QED BY <2>1, <2>2, HookRests
<1>2. CASE LeavePages
  <2>1. UNCHANGED <<job, log, posted, due, lost, crashes>>
    BY <1>2 DEF LeavePages, FileLeave, DeleteLeave, AdminFilesLeave, ReviewLeave, webhook
  <2>2. event' = event \/ \E o \in Events : Announce(o)
    BY <1>2 DEF LeavePages, FileLeave, DeleteLeave, AdminFilesLeave, ReviewLeave
  <2>3. ASSUME NEW o \in Events, Announce(o), NEW p \in Events PROVE Steady(p)
    <3>1. /\ event[o] = None /\ (p # o => event'[p] = event[p])
          /\ event'[o] = [kind |-> "leave.approved", st |-> "answered", list |-> <<>>,
                          at |-> 1, todo |-> {}]
      BY <2>3 DEF Announce, TypeOK
    <3>2. [kind |-> "leave.approved", st |-> "answered", list |-> <<>>, at |-> 1,
           todo |-> {}] \in Occurrence
      BY DEF Occurrence, Topics
    <3>3. event'[o] # None
      BY <3>1, <3>2, NoneIsNoRow
    <3>4. event'[o].st = "answered" /\ event'[o].todo = {}
      BY <3>1
    <3> QED BY <3>1, <3>3, <3>4 DEF Steady
  <2>4. \A p \in Events : Steady(p)
    BY <2>2, <2>3 DEF Steady
  <2> QED BY <2>1, <2>4, HookRests
<1>3. CASE Firing
  BY <1>3, FiringStep
<1>4. CASE Worker
  BY <1>4, WorkerStep
<1>5. CASE (\E w \in Webhooks : SwitchHook(w)) \/ UNCHANGED vars
  <2>1. UNCHANGED <<event, job, log, posted, due, lost, crashes>>
    BY <1>5 DEF SwitchHook, vars
  <2> QED BY <2>1, HookRests DEF Steady
<1> QED BY <1>1, <1>2, <1>3, <1>4, <1>5 DEF Next

LEMMA HookHolds == Spec => []HookInv
<1>1. Init => HookInv
  <2> SUFFICES ASSUME Init PROVE HookInv
    OBVIOUS
  <2>1. \A x \in Deliveries : job[x] = None /\ log[x] = NoRows /\ posted[x] = 0
    BY DEF Init
  <2>2. FireInv /\ HookIsAccounted
    BY <2>1 DEF Init, FireInv, HookIsAccounted
  <2>3. ASSUME NEW x \in Deliveries PROVE Posts(x)
    <3>1. ToLog(x) = 0 /\ ToPost(x) = 0 /\ log[x].ok = 0 /\ posted[x] = 0 /\ crashes = 0
      BY <2>1 DEF ToLog, ToPost, Answered, NoRows, Init
    <3> QED BY <2>1, <3>1 DEF Posts
  <2> QED BY <2>2, <2>3 DEF HookInv, PostInv
<1>2. TypeOK /\ HookInv /\ [Next]_vars => HookInv'
  BY HookStep
<1> QED BY <1>1, <1>2, EventTypeCorrect, PTL DEF Spec

\* No subscribed webhook is forgotten: it has a job, a row of the log, or is a known loss.
THEOREM NoHookForgotten == Spec => []HookIsAccounted
<1>1. HookInv => HookIsAccounted
  BY DEF HookInv
<1> QED BY <1>1, HookHolds, PTL

\* A webhook is posted once and once more per crash; the log claims no more than was taken.
THEOREM HookPostedOnce == Spec => []PostedOnce
<1>1. TypeOK /\ HookInv => PostedOnce
  <2> SUFFICES ASSUME TypeOK, HookInv, NEW x \in Deliveries
               PROVE  log[x].ok <= posted[x] /\ posted[x] <= 1 + crashes
    BY DEF PostedOnce
  <2>1. Posts(x) /\ log[x].ok \in Nat /\ posted[x] \in Nat /\ crashes \in Nat
    BY DEF HookInv, PostInv, TypeOK
  <2>2. ToLog(x) \in Nat /\ ToPost(x) \in Nat
    BY DEF ToLog, ToPost
  <2>3. log[x].ok + ToLog(x) <= posted[x] /\ posted[x] + ToPost(x) <= 1 + crashes
    BY <2>1 DEF Posts
  <2> QED BY <2>1, <2>2, <2>3
<1> QED BY <1>1, EventTypeCorrect, HookHolds, PTL
==============================================================================
