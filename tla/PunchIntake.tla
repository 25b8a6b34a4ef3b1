----------------------------- MODULE PunchIntake -----------------------------
(***************************************************************************)
(* From the device to a row of punch_logs: validate_and_prepare_punch and  *)
(* create_punch_log (app/services/punch_service.py), called by the single  *)
(* and the batch endpoint (app/api/v1/routes/punch.py), the devices that   *)
(* queue, send and repeat their punches, and the passing of time.          *)
(*                                                                         *)
(* Validation and commit hold no await, so they are one step of the API    *)
(* process. The batch endpoint awaits between two of its punches; requests *)
(* of other devices, and a crash, come in between.                         *)
(*                                                                         *)
(* Time is counted in ticks, the windows of the code in the same ticks. A  *)
(* punch carries the time its device shows, corrected by its tz offset.    *)
(***************************************************************************)
EXTENDS Integers, FiniteSets, Sequences

CONSTANTS
  Ids,           \* values of client_punch_id: one punch made on a device each
  Devices,       \* device_uuid of the bindings
  Bindings,      \* the device bindings an admin may set: see Binding
  Forms,         \* what a device may fill in: [type, biometric, signature, inside]
  ActiveTypes,   \* codes of the active PunchType rows
  Skews,         \* errors of a device's clock
  TzOffset,      \* local time minus UTC on the devices
  DayLength,     \* ticks of a day
  GracePeriod,   \* 2 minutes: "in" after "in" is taken for "out"
  DupWindow,     \* 5 minutes: duplicate detection
  MaxDeviation,  \* max_timestamp_deviation_seconds: 5 minutes
  MaxDaily,      \* max_daily_punches
  Requests,      \* batch requests that may be under way at once
  MaxBatch,      \* limit on the length of a batch (50 in the code)
  MaxTime,       \* bound on the clock, for TLC
  NoEmployee     \* employee_id of a binding nobody is assigned to

ASSUME IntakeParameters ==
  /\ Skews \subseteq Int /\ TzOffset \in Int
  /\ DayLength \in Nat \ {0} /\ MaxDaily \in Nat \ {0}
  /\ GracePeriod \in Nat /\ DupWindow \in Nat /\ MaxDeviation \in Nat
  /\ MaxTime \in Nat /\ MaxBatch \in Nat \ {0}

\* Raw punch types a request may carry, and strip().lower() of them.
RawTypes == {"In", "in", "Out", "out", "auto", "Break", "break"}
Lower == [t \in RawTypes |-> IF t \in {"In", "in"} THEN "in"
                             ELSE IF t \in {"Out", "out"} THEN "out"
                             ELSE IF t \in {"Break", "break"} THEN "break"
                             ELSE t]

\* A binding as validation reads it: the employee, the registration, whether it
\* is active, a secret for signatures, and the branches it is assigned to.
Binding == [employee : Nat \union {NoEmployee},
            status : {"none", "pending_approval", "approved", "active", "suspended"},
            isActive : BOOLEAN, secret : BOOLEAN,
            branches : {"none", "inactive", "active"}]
Form == [type : RawTypes, biometric : BOOLEAN,
         signature : {"none", "good", "bad"}, inside : BOOLEAN]

ASSUME BindingsAndForms == Bindings \subseteq Binding /\ Forms \subseteq Form

VARIABLES
  now,      \* UTC time of the server
  binding,  \* [Devices -> Binding]
  client,   \* [Ids -> what the device knows of the punch]
  rows,     \* rows of punch_logs
  batch     \* [Requests -> the punches it has yet to record, and its results]

vars == <<now, binding, client, rows, batch>>

------------------------------------------------------------------------------
(* Devices and the data base *)

\* A punch on its device: its last answer, and which checks that answer names.
NoPunch == [st |-> "none"]
Made(d, f, ts) == [st |-> "queued", device |-> d, form |-> f, ts |-> ts, why |-> {}]
NoResults == [i \in {} |-> {}]
Idle == [todo |-> <<>>, results |-> NoResults]

Init ==
  /\ now = 0
  /\ binding \in [Devices -> Bindings]
  /\ client = [i \in Ids |-> NoPunch]
  /\ rows = {}
  /\ batch = [b \in Requests |-> Idle]

\* ts is the timestamp column, at the time of the commit (history).
RowOf(i) == {r \in rows : r.id = i}
Day(t) == t \div DayLength

\* The punches of the employee in the device's present day.
TodaysRows(e) == {r \in rows : r.employee = e
                               /\ Day(r.ts + TzOffset) = Day(now + TzOffset)}

\* Mutant: the latest arrival is asked for.
LatestArrivalTypes(e) == {r.type : r \in {s \in TodaysRows(e) :
                                            \A u \in TodaysRows(e) : u.log <= s.log}}

\* The latest of them; of punches with the same timestamp the data base returns any.
LatestTypes(e) == {r.type : r \in {s \in TodaysRows(e) :
                                     \A u \in TodaysRows(e) : u.ts <= s.ts}}
LatestTs(e) == {r.ts : r \in {s \in TodaysRows(e) :
                                \A u \in TodaysRows(e) : u.ts <= s.ts}}

------------------------------------------------------------------------------
(* Punch types *)

\* "in" and "auto" follow the latest punch of the day: after an "in" it is "out",
\* unless an explicit "in" comes within the grace period.
Resolved(type, last, e) ==
  LET t == Lower[type]
  IN IF t \notin {"auto", "in"} THEN t
     ELSE IF /\ last = "In"
             /\ t = "auto" \/ \E ts \in LatestTs(e) : now - ts >= GracePeriod
          THEN "out"
     ELSE "in"

\* The row of punch_types whose settings apply; none if neither code is active.
ValidCode(type, resolved) ==
  IF resolved \in ActiveTypes THEN {resolved} ELSE {type} \intersect ActiveTypes

\* Mutant: the resolved type is stored as it is.
AsResolved(t) == t

\* What is stored: only "in" and "out" are capitalized.
Capitalized(t) == IF t = "in" THEN "In" ELSE IF t = "out" THEN "Out" ELSE t

------------------------------------------------------------------------------
(* validate_and_prepare_punch: the checks a request fails *)

\* The raw type of the request is compared with the stored types.
Duplicate(q, e) ==
  \E r \in rows : r.employee = e /\ r.type = q.form.type /\ r.ts >= now - DupWindow

\* Mutant: one punch more than the limit is let through.
PastDailyLimit(e) ==
  Cardinality({r \in rows : r.employee = e /\ Day(r.ts) = Day(now)}) > MaxDaily

OverDailyLimit(e) ==
  Cardinality({r \in rows : r.employee = e /\ Day(r.ts) = Day(now)}) >= MaxDaily

Deviates(q) == q.ts < now - MaxDeviation \/ q.ts > now + MaxDeviation

Usable(b) == /\ b.status \in {"approved", "active"} /\ b.isActive
             /\ b.employee # NoEmployee

\* resolved is the type the sequence of the day resolves to.
FailedChecks(q, resolved) ==
  LET b == binding[q.device]
      e == b.employee
      If(cond, name) == IF cond THEN {name} ELSE {}
  IN UNION {If(~q.form.biometric, "biometric"),
            If(~Usable(b), "device"),
            If(q.form.signature # "none" /\ ~b.secret, "secret"),
            If(q.form.signature = "bad", "signature"),
            If(b.branches # "active", "branches"),
            If(ValidCode(q.form.type, resolved) = {}, "punch_type"),
            If(~q.form.inside, "geofence"),
            If(Duplicate(q, e), "duplicate"),
            If(OverDailyLimit(e), "daily_limit"),
            If(Deviates(q), "timestamp")}

\* The types the latest punch of the day allows for the request.
Resolutions(q) ==
  LET e == binding[q.device].employee
      lasts == LatestTypes(e)
  IN {Resolved(q.form.type, last, e) : last \in IF lasts = {} THEN {"none"} ELSE lasts}

NewRow(i, q, resolved) ==
  [id |-> i, log |-> Cardinality(rows) + 1, employee |-> binding[q.device].employee,
   type |-> Capitalized(resolved), ts |-> q.ts, at |-> now]

\* Mutants: a known client_punch_id only spares a punch the duplicate check; it is
\* looked up after the other checks.
OutcomesAnew(i) ==
  LET q == client[i]
  IN {LET why == FailedChecks(q, resolved) \ IF RowOf(i) = {} THEN {} ELSE {"duplicate"}
      IN IF why = {}
         THEN [st |-> "recorded", why |-> {}, rows |-> rows \union {NewRow(i, q, resolved)}]
         ELSE [st |-> "invalid", why |-> why, rows |-> rows] :
      resolved \in Resolutions(q)}
OutcomesLookedUpLast(i) ==
  LET q == client[i]
  IN {LET why == FailedChecks(q, resolved)
      IN IF why # {} THEN [st |-> "invalid", why |-> why, rows |-> rows]
         ELSE IF RowOf(i) # {} THEN [st |-> "known", why |-> {}, rows |-> rows]
         ELSE [st |-> "recorded", why |-> {}, rows |-> rows \union {NewRow(i, q, resolved)}] :
      resolved \in Resolutions(q)}

\* Validation and create_punch_log: a known client_punch_id stops the validation
\* before its checks; otherwise the punch is recorded if it fails none of them.
Outcomes(i) ==
  IF RowOf(i) # {} THEN {[st |-> "known", why |-> {}, rows |-> rows]}
  ELSE LET q == client[i]
       IN {LET why == FailedChecks(q, resolved)
           IN IF why = {}
              THEN [st |-> "recorded", why |-> {}, rows |-> rows \union {NewRow(i, q, resolved)}]
              ELSE [st |-> "invalid", why |-> why, rows |-> rows] :
           resolved \in Resolutions(q)}

\* Mutant: a punch refused as a duplicate is taken for one already recorded.
DuplicateIsKnown(o) ==
  IF o.st \in {"recorded", "known"} \/ o.why = {"duplicate"} THEN "success" ELSE "refused"

\* create_punch answers a known punch like one it records; the batch endpoint
\* reports whatever validation raises as an error, a known punch too.
SingleAnswer(o) == IF o.st \in {"recorded", "known"} THEN "success" ELSE "refused"
BatchAnswer(o)  == IF o.st = "recorded" THEN "success" ELSE "refused"

------------------------------------------------------------------------------
(* The devices and the two endpoints *)

\* A punch is made and queued on device d, whose clock is wrong by skew.
MakePunch(i, d, f, skew) ==
  /\ client[i].st = "none"
  /\ client' = [client EXCEPT ![i] = Made(d, f, now + skew)]
  /\ UNCHANGED <<now, binding, rows, batch>>

\* The device sends what has not been answered "success", refused punches too.
Unsent(i) == client[i].st \in {"queued", "refused"}

\* The answers reach the device; a punch it knows to be recorded stays so.
Answered(answers) ==
  [i \in Ids |-> IF i \in DOMAIN answers /\ Unsent(i)
                 THEN [client[i] EXCEPT !.st = answers[i].st, !.why = answers[i].why]
                 ELSE client[i]]

\* create_punch, from the request to its answer, which may be lost.
CreatePunch(i) ==
  /\ Unsent(i)
  /\ \E o \in Outcomes(i) :
       LET answer == [j \in {i} |-> [st |-> SingleAnswer(o), why |-> o.why]]
       IN /\ rows' = o.rows
          /\ client' \in {Answered(answer), client}
  /\ UNCHANGED <<now, binding, batch>>

\* create_batch_punch begins with the queue of device d, or a part of it. A device
\* that has given up waiting for a batch may send its punches in another.
BatchStart(b, d) ==
  /\ batch[b] = Idle
  /\ \E n \in 1..MaxBatch : \E ids \in [1..n -> {i \in Ids : Unsent(i) /\ client[i].device = d}] :
       /\ \A k, l \in 1..n : ids[k] = ids[l] => k = l
       /\ batch' = [batch EXCEPT ![b].todo = ids]
  /\ UNCHANGED <<now, binding, client, rows>>

\* The results of a batch with that of its next punch.
ResultsWith(b, o) ==
  LET i == Head(batch[b].todo)
  IN [j \in DOMAIN batch[b].results \union {i} |->
        IF j = i THEN [st |-> BatchAnswer(o), why |-> o.why] ELSE batch[b].results[j]]

\* The next punch of the batch, up to the await of its broadcast.
BatchNext(b) ==
  /\ batch[b].todo # <<>>
  /\ \E o \in Outcomes(Head(batch[b].todo)) :
       /\ rows' = o.rows
       /\ batch' = [batch EXCEPT ![b] = [todo    |-> Tail(batch[b].todo),
                                        results |-> ResultsWith(b, o)]]
  /\ UNCHANGED <<now, binding, client>>

\* The batch is answered, or its answer is lost.
BatchEnd(b) ==
  /\ batch[b].todo = <<>> /\ batch[b] # Idle
  /\ batch' = [batch EXCEPT ![b] = Idle]
  /\ client' \in {Answered(batch[b].results), client}
  /\ UNCHANGED <<now, binding, rows>>

\* The API process dies: what it has committed stays.
ApiCrash ==
  /\ \E b \in Requests : batch[b] # Idle
  /\ batch' = [b \in Requests |-> Idle]
  /\ UNCHANGED <<now, binding, client, rows>>

------------------------------------------------------------------------------
(* Environment *)

\* The admin pages approve, suspend, assign and unbind devices.
ChangeBinding(d) ==
  /\ \E b \in Bindings : binding' = [binding EXCEPT ![d] = b]
  /\ UNCHANGED <<now, client, rows, batch>>

Tick ==
  /\ now < MaxTime
  /\ now' = now + 1
  /\ UNCHANGED <<binding, client, rows, batch>>

Next ==
  \/ \E i \in Ids, d \in Devices, f \in Forms, skew \in Skews : MakePunch(i, d, f, skew)
  \/ \E i \in Ids : CreatePunch(i)
  \/ \E b \in Requests : BatchNext(b) \/ BatchEnd(b) \/ \E d \in Devices : BatchStart(b, d)
  \/ ApiCrash
  \/ \E d \in Devices : ChangeBinding(d)
  \/ Tick

Spec == Init /\ [][Next]_vars

------------------------------------------------------------------------------
(* Properties *)

Checks == {"biometric", "device", "secret", "signature", "branches", "punch_type",
           "geofence", "duplicate", "daily_limit", "timestamp"}
PunchRow == [id : Ids, log : Nat, employee : Nat \union {NoEmployee},
             type : {"In", "Out", "break"}, ts : Int, at : Nat]
Punch == [st : {"queued", "success", "refused"}, device : Devices, form : Forms,
          ts : Int, why : SUBSET Checks]
Result == [st : {"success", "refused"}, why : SUBSET Checks]

\* Every variable has its type.
TypeOK ==
  /\ now \in Nat
  /\ binding \in [Devices -> Bindings]
  /\ client \in [Ids -> Punch \union {NoPunch}]
  /\ rows \subseteq PunchRow
  /\ DOMAIN batch = Requests
  /\ \A b \in Requests : /\ DOMAIN batch[b] = {"todo", "results"}
                         /\ batch[b].todo \in Seq(Ids)
                         /\ DOMAIN batch[b].results \subseteq Ids
                         /\ \A i \in DOMAIN batch[b].results : batch[b].results[i] \in Result

\* Idempotency: however often, through whichever endpoint and in however many
\* overlapping requests a punch is sent, it is recorded once.
OneRowPerClientId == \A r, s \in rows : r.id = s.id => r = s

\* A device that was told "success" (and drops the punch from its queue) has its
\* punch in punch_logs, made at the time the device says; so has every result
\* "success" of a batch that is not answered yet.
AckedIsRecorded ==
  /\ \A i \in Ids : client[i].st = "success" => \E r \in RowOf(i) : r.ts = client[i].ts
  /\ \A b \in Requests : \A i \in DOMAIN batch[b].results :
       batch[b].results[i].st = "success" => \E r \in RowOf(i) : r.ts = client[i].ts

\* help.html:313: a punch that is sent again after a network failure gets the
\* existing result. The single endpoint never answers "refused" to what is in
\* punch_logs, whichever request recorded it, even if the punch would fail the checks by
\* now (the batch endpoint does: it reports a known punch as an error).
RefusedIsNotRecorded ==
  [][\A i \in Ids :
       client'[i].st = "refused" /\ client'[i] # client[i] /\ CreatePunch(i) =>
         RowOf(i)' = {}]_vars

\* The punches employee e has made and sent on (UTC) day d.
Arrived(e, d) == {s \in rows : s.employee = e /\ Day(s.ts) = d /\ Day(s.at) = d}

\* Of the punches an employee makes and sends on one (UTC) day, at most MaxDaily
\* are recorded, whichever devices and overlapping batches bring them.
DailyLimitByArrival ==
  \A r \in rows : Cardinality(Arrived(r.employee, Day(r.ts))) <= MaxDaily

\* help.html:315: a punch is rejected if one of the same employee and the same type
\* lies within DupWindow of it. The types are those the rows are stored with, after
\* the sequence of the day has changed them.
SameTypeSpaced ==
  \A r, s \in rows :
    r.log < s.log /\ r.employee = s.employee /\ r.type = s.type => s.at - r.ts > DupWindow
==============================================================================
