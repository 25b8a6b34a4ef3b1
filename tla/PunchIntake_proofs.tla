------------------------- MODULE PunchIntake_proofs -------------------------
(***************************************************************************)
(* Theorems about PunchIntake, for any number of devices, punches and      *)
(* overlapping requests.  One invariant carries them: IntakeInv adds to    *)
(* the properties that a row agrees with the punch on its device and that  *)
(* a batch only holds punches that were made.                              *)
(***************************************************************************)
EXTENDS PunchIntake, FiniteSetTheorems, TLAPS

RowsMatch == \A r \in rows : client[r.id].st # "none" /\ r.ts = client[r.id].ts

BatchIsMade ==
  \A b \in Requests :
    /\ \A k \in 1..Len(batch[b].todo) : client[batch[b].todo[k]].st # "none"
    /\ \A i \in DOMAIN batch[b].results : client[i].st # "none"

IntakeInv == /\ TypeOK /\ IsFiniteSet(rows)
             /\ OneRowPerClientId /\ AckedIsRecorded
             /\ RowsMatch /\ BatchIsMade

------------------------------------------------------------------------------
(* What validation and commit may do with punch i *)

Allowed(i, o) ==
  /\ o.why \in SUBSET Checks
  /\ \/ o.st = "known" /\ o.rows = rows /\ RowOf(i) # {}
     \/ o.st = "invalid" /\ o.rows = rows /\ RowOf(i) = {}
     \/ /\ o.st = "recorded" /\ RowOf(i) = {}
        /\ \E r \in PunchRow : /\ r.id = i /\ r.ts = client[i].ts /\ r.at = now
                              /\ ~OverDailyLimit(r.employee) /\ o.rows = rows \union {r}

LEMMA ChecksNamed ==
  ASSUME NEW q, NEW t PROVE FailedChecks(q, t) \in SUBSET Checks
BY DEF FailedChecks, Checks

LEMMA LimitChecked ==
  ASSUME NEW q, NEW t, FailedChecks(q, t) = {}
  PROVE  ~OverDailyLimit(binding[q.device].employee)
<1> SUFFICES ASSUME OverDailyLimit(binding[q.device].employee)
             PROVE  "daily_limit" \in FailedChecks(q, t)
  OBVIOUS
<1> QED BY DEF FailedChecks

LEMMA ResolvedType ==
  ASSUME NEW type \in RawTypes, NEW last, NEW e
  PROVE  Resolved(type, last, e) \in {"in", "out", "break"}
<1>1. Lower[type] \in {"in", "out", "break", "auto"}
  BY DEF Lower, RawTypes
<1> QED BY <1>1 DEF Resolved

LEMMA OutcomeAllowed ==
  ASSUME IntakeInv, NEW i \in Ids, client[i].st # "none", NEW o \in Outcomes(i)
  PROVE  Allowed(i, o)
<1>1. CASE RowOf(i) # {}
  BY <1>1 DEF Outcomes, Allowed
<1>2. CASE RowOf(i) = {}
  <2> DEFINE q == client[i]
  <2>1. q \in Punch
    BY DEF IntakeInv, TypeOK, NoPunch
  <2>2. PICK t \in Resolutions(q) :
          LET why == FailedChecks(q, t)
          IN o = IF why = {}
                 THEN [st |-> "recorded", why |-> {}, rows |-> rows \union {NewRow(i, q, t)}]
                 ELSE [st |-> "invalid", why |-> why, rows |-> rows]
    BY <1>2 DEF Outcomes
  <2>3. FailedChecks(q, t) \in SUBSET Checks
    BY ChecksNamed
  <2>4. t \in {"in", "out", "break"}
    <3>1. q.form.type \in RawTypes
      BY <2>1, BindingsAndForms DEF Punch, Form
    <3> QED BY <3>1, ResolvedType DEF Resolutions
  <2>5. NewRow(i, q, t) \in PunchRow
    <3>1. binding[q.device].employee \in Nat \union {NoEmployee}
      BY <2>1, BindingsAndForms DEF IntakeInv, TypeOK, Punch, Binding
    <3>2. Capitalized(t) \in {"In", "Out", "break"}
      BY <2>4 DEF Capitalized
    <3>3. Cardinality(rows) + 1 \in Nat
      BY FS_CardinalityType DEF IntakeInv
    <3>4. q.ts \in Int /\ now \in Nat
      BY <2>1 DEF IntakeInv, TypeOK, Punch
    <3> QED BY <3>1, <3>2, <3>3, <3>4 DEF NewRow, PunchRow
  <2>6. /\ NewRow(i, q, t).id = i /\ NewRow(i, q, t).ts = client[i].ts
        /\ NewRow(i, q, t).at = now
        /\ NewRow(i, q, t).employee = binding[q.device].employee
    BY DEF NewRow
  <2>7. FailedChecks(q, t) = {} => ~OverDailyLimit(NewRow(i, q, t).employee)
    BY <2>6, LimitChecked
  <2> HIDE DEF q
  <2> QED BY <1>2, <2>2, <2>3, <2>5, <2>6, <2>7 DEF Allowed
<1> QED BY <1>1, <1>2

------------------------------------------------------------------------------
(* One step preserves the invariant *)

\* The rows a request leaves are good, and those of the other punches are the same.
LEMMA RowsStay ==
  ASSUME IntakeInv, NEW i \in Ids, client[i].st # "none", NEW o, Allowed(i, o),
         rows' = o.rows
  PROVE  /\ rows \subseteq rows' /\ rows' \subseteq PunchRow
         /\ IsFiniteSet(rows')
         /\ \A r \in rows' : client[r.id].st # "none" /\ r.ts = client[r.id].ts
         /\ OneRowPerClientId'
         /\ o.st = "recorded" => \E r \in RowOf(i)' : r.ts = client[i].ts
         /\ o.st = "known" => \E r \in RowOf(i)' : r.ts = client[i].ts
         /\ o.st = "invalid" => RowOf(i)' = {}
<1>1. CASE o.st # "recorded"
  BY <1>1 DEF Allowed, IntakeInv, TypeOK, RowsMatch, OneRowPerClientId, RowOf
<1>2. CASE o.st = "recorded"
  <2>1. PICK r \in PunchRow : r.id = i /\ r.ts = client[i].ts /\ rows' = rows \union {r}
    BY <1>2 DEF Allowed
  <2>2. \A s \in rows : s.id # i
    BY <1>2 DEF Allowed, RowOf
  <2>3. IsFiniteSet(rows')
    BY <2>1, FS_AddElement DEF IntakeInv
  <2>4. OneRowPerClientId'
    BY <2>1, <2>2 DEF IntakeInv, OneRowPerClientId
  <2> QED BY <1>2, <2>1, <2>3, <2>4 DEF IntakeInv, TypeOK, RowsMatch, RowOf
<1> QED BY <1>1, <1>2

\* An answer that only claims success of recorded punches keeps the devices good.
LEMMA AnswersGood ==
  ASSUME IntakeInv, NEW answers, DOMAIN answers \subseteq Ids,
         \A i \in DOMAIN answers : answers[i] \in Result,
         client' \in {Answered(answers), client}
  PROVE  /\ client' \in [Ids -> Punch \union {NoPunch}]
         /\ \A i \in Ids : /\ client'[i].st = "none" <=> client[i].st = "none"
                           /\ client[i].st # "none" => client'[i].ts = client[i].ts
                           /\ client'[i].st = "success" =>
                                \/ client[i].st = "success"
                                \/ i \in DOMAIN answers /\ answers[i].st = "success"
<1>1. client \in [Ids -> Punch \union {NoPunch}]
  BY DEF IntakeInv, TypeOK
<1>2. CASE client' = client
  BY <1>1, <1>2
<1>3. CASE client' = Answered(answers)
  <2>1. ASSUME NEW i \in Ids
        PROVE  /\ client'[i] \in Punch \union {NoPunch}
               /\ client'[i].st = "none" <=> client[i].st = "none"
               /\ client[i].st # "none" => client'[i].ts = client[i].ts
               /\ client'[i].st = "success" =>
                    \/ client[i].st = "success"
                    \/ i \in DOMAIN answers /\ answers[i].st = "success"
    <3>1. CASE i \in DOMAIN answers /\ Unsent(i)
      <4>1. client[i] \in Punch
        BY <1>1, <3>1 DEF Unsent, NoPunch
      <4>2. client'[i] = [client[i] EXCEPT !.st = answers[i].st, !.why = answers[i].why]
        BY <1>3, <3>1 DEF Answered
      <4>3. answers[i].st \in {"success", "refused"} /\ answers[i].why \in SUBSET Checks
        BY <3>1 DEF Result
      <4>4. /\ client'[i] \in Punch
            /\ client'[i].st = answers[i].st /\ client'[i].ts = client[i].ts
        BY <4>1, <4>2, <4>3 DEF Punch
      <4> QED BY <3>1, <4>3, <4>4 DEF Unsent
    <3>2. CASE ~(i \in DOMAIN answers /\ Unsent(i))
      BY <1>1, <1>3, <3>2 DEF Answered
    <3> QED BY <3>1, <3>2
  <2>2. DOMAIN client' = Ids /\ client' = [i \in Ids |-> client'[i]]
    BY <1>3 DEF Answered
  <2> QED BY <2>1, <2>2
<1> QED BY <1>2, <1>3

\* The batches of a step that neither touches them nor forgets a punch or a row.
LEMMA BatchStays ==
  ASSUME IntakeInv, batch' = batch, rows \subseteq rows',
         \A i \in Ids : client[i].st # "none" =>
            client'[i].st # "none" /\ client'[i].ts = client[i].ts
  PROVE  /\ BatchIsMade'
         /\ \A b \in Requests : \A i \in DOMAIN batch'[b].results :
              batch'[b].results[i].st = "success" =>
                \E r \in RowOf(i)' : r.ts = client'[i].ts
<1>1. BatchIsMade'
  <2> SUFFICES ASSUME NEW b \in Requests
      PROVE  /\ \A k \in 1..Len(batch[b].todo) : client'[batch[b].todo[k]].st # "none"
             /\ \A i \in DOMAIN batch[b].results : client'[i].st # "none"
    BY DEF BatchIsMade
  <2>1. \A k \in 1..Len(batch[b].todo) : batch[b].todo[k] \in Ids
    BY DEF IntakeInv, TypeOK
  <2>2. DOMAIN batch[b].results \subseteq Ids
    BY DEF IntakeInv, TypeOK
  <2> QED BY <2>1, <2>2 DEF IntakeInv, BatchIsMade
<1>2. ASSUME NEW b \in Requests, NEW i \in DOMAIN batch[b].results,
             batch[b].results[i].st = "success"
      PROVE  \E r \in RowOf(i)' : r.ts = client'[i].ts
  <2>1. i \in Ids /\ client[i].st # "none"
    BY DEF IntakeInv, TypeOK, BatchIsMade
  <2>2. PICK r \in RowOf(i) : r.ts = client[i].ts
    BY <1>2 DEF IntakeInv, AckedIsRecorded
  <2> QED BY <2>1, <2>2 DEF RowOf
<1> QED BY <1>1, <1>2

LEMMA IdleIsEmpty ==
  /\ DOMAIN Idle = {"todo", "results"} /\ Idle.todo \in Seq(Ids) /\ Len(Idle.todo) = 0
  /\ DOMAIN Idle.results = {}
<1>1. DOMAIN NoResults = {}
  BY DEF NoResults
<1> QED BY <1>1 DEF Idle

LEMMA InvInit == Init => IntakeInv
<1> SUFFICES ASSUME Init PROVE IntakeInv
  OBVIOUS
<1>1. TypeOK
  <2>1. ASSUME NEW b \in Requests
        PROVE  /\ DOMAIN batch[b] = {"todo", "results"}
               /\ batch[b].todo \in Seq(Ids)
               /\ DOMAIN batch[b].results = {}
    BY IdleIsEmpty DEF Init
  <2>2. rows \subseteq PunchRow
    BY DEF Init
  <2>3. DOMAIN batch = Requests
    BY DEF Init
  <2> QED BY <2>1, <2>2, <2>3 DEF Init, TypeOK
<1>2. IsFiniteSet(rows)
  BY FS_EmptySet DEF Init
<1>3. AckedIsRecorded
  BY IdleIsEmpty DEF Init, AckedIsRecorded, NoPunch
<1>4. BatchIsMade
  BY IdleIsEmpty DEF Init, BatchIsMade
<1> QED BY <1>1, <1>2, <1>3, <1>4 DEF IntakeInv, Init, OneRowPerClientId, RowsMatch

\* A punch that is made was not known before: no row and no batch has its id.
LEMMA MakeStep ==
  ASSUME IntakeInv, NEW i \in Ids, NEW d \in Devices, NEW f \in Forms,
         NEW skew \in Skews, MakePunch(i, d, f, skew)
  PROVE  IntakeInv'
<1> DEFINE m == Made(d, f, now + skew)
<1>1. m \in Punch /\ m.st = "queued"
  <2>1. now + skew \in Int
    BY IntakeParameters DEF IntakeInv, TypeOK
  <2> QED BY <2>1 DEF Made, Punch
<1> HIDE DEF m
<1>2. /\ client' = [client EXCEPT ![i] = m]
      /\ client \in [Ids -> Punch \union {NoPunch}] /\ client[i].st = "none"
  BY DEF MakePunch, m, IntakeInv, TypeOK
<1>3. \A j \in Ids : client[j].st # "none" => client'[j] = client[j]
  BY <1>2
<1>4. BatchIsMade' /\ \A b \in Requests : \A j \in DOMAIN batch'[b].results :
         batch'[b].results[j].st = "success" => \E r \in RowOf(j)' : r.ts = client'[j].ts
  BY <1>3, BatchStays DEF MakePunch
<1>5. AckedIsRecorded'
  <2>1. ASSUME NEW j \in Ids, client'[j].st = "success"
        PROVE  \E r \in RowOf(j)' : r.ts = client'[j].ts
    <3>1. client'[j] = client[j]
      BY <1>1, <1>2, <2>1
    <3> QED BY <2>1, <3>1 DEF IntakeInv, AckedIsRecorded, RowOf, MakePunch
  <2> QED BY <1>4, <2>1 DEF AckedIsRecorded
<1>6. TypeOK'
  BY <1>1, <1>2 DEF IntakeInv, TypeOK, MakePunch
<1>7. RowsMatch'
  <2>1. \A r \in rows : r.id \in Ids
    BY DEF IntakeInv, TypeOK, PunchRow
  <2> QED BY <2>1, <1>3 DEF IntakeInv, RowsMatch, MakePunch
<1> QED BY <1>4, <1>5, <1>6, <1>7 DEF IntakeInv, OneRowPerClientId, MakePunch

LEMMA SingleStep ==
  ASSUME IntakeInv, NEW i \in Ids, CreatePunch(i)
  PROVE  IntakeInv'
<1>1. client[i].st # "none"
  BY DEF CreatePunch, Unsent
<1> DEFINE a(o) == [j \in {i} |-> [st |-> SingleAnswer(o), why |-> o.why]]
<1>2. PICK o \in Outcomes(i) : rows' = o.rows /\ client' \in {Answered(a(o)), client}
  BY DEF CreatePunch
<1>3. Allowed(i, o)
  BY <1>1, OutcomeAllowed
<1>4. /\ rows \subseteq rows' /\ rows' \subseteq PunchRow
      /\ IsFiniteSet(rows') /\ OneRowPerClientId'
      /\ \A r \in rows' : client[r.id].st # "none" /\ r.ts = client[r.id].ts
      /\ o.st \in {"recorded", "known"} => \E r \in RowOf(i)' : r.ts = client[i].ts
  <2> HIDE DEF a
  <2> QED BY <1>1, <1>2, <1>3, RowsStay
<1>5. /\ DOMAIN a(o) = {i}
      /\ \A j \in DOMAIN a(o) : a(o)[j] \in Result
      /\ \A j \in DOMAIN a(o) : a(o)[j].st = "success" => o.st \in {"recorded", "known"}
  BY <1>3 DEF SingleAnswer, Allowed, Result
<1> HIDE DEF a
<1>6. /\ client' \in [Ids -> Punch \union {NoPunch}]
      /\ \A j \in Ids : /\ client'[j].st = "none" <=> client[j].st = "none"
                        /\ client[j].st # "none" => client'[j].ts = client[j].ts
                        /\ client'[j].st = "success" =>
                             \/ client[j].st = "success"
                             \/ j \in DOMAIN a(o) /\ a(o)[j].st = "success"
  BY <1>2, <1>5, AnswersGood
<1>7. /\ BatchIsMade'
      /\ \A b \in Requests : \A j \in DOMAIN batch'[b].results :
           batch'[b].results[j].st = "success" => \E r \in RowOf(j)' : r.ts = client'[j].ts
  BY <1>4, <1>6, BatchStays DEF CreatePunch
<1>8. AckedIsRecorded'
  <2>1. ASSUME NEW j \in Ids, client'[j].st = "success"
        PROVE  \E r \in RowOf(j)' : r.ts = client'[j].ts
    <3>1. CASE client[j].st = "success"
      <4>1. PICK r \in RowOf(j) : r.ts = client[j].ts
        BY <3>1 DEF IntakeInv, AckedIsRecorded
      <4> QED BY <3>1, <4>1, <1>4, <1>6 DEF RowOf
    <3>2. CASE client[j].st # "success"
      BY <1>1, <1>4, <1>5, <1>6, <2>1, <3>2
    <3> QED BY <3>1, <3>2
  <2> QED BY <1>7, <2>1 DEF AckedIsRecorded
<1>9. TypeOK'
  BY <1>4, <1>6 DEF IntakeInv, TypeOK, CreatePunch
<1>10. RowsMatch'
  BY <1>4, <1>6 DEF RowsMatch, PunchRow
<1> QED BY <1>4, <1>7, <1>8, <1>9, <1>10 DEF IntakeInv

\* The queue of a batch holds punches its device has made.
LEMMA StartStep ==
  ASSUME IntakeInv, NEW b \in Requests, NEW d \in Devices, BatchStart(b, d)
  PROVE  IntakeInv'
<1> DEFINE Own == {i \in Ids : Unsent(i) /\ client[i].device = d}
<1>0. PICK n \in 1..MaxBatch :
        \E ids \in [1..n -> Own] : batch' = [batch EXCEPT ![b].todo = ids]
  BY DEF BatchStart
<1>1. PICK ids \in [1..n -> Own] : batch' = [batch EXCEPT ![b].todo = ids]
  BY <1>0
<1>2. n \in Nat
  BY IntakeParameters
<1>3. ids \in Seq(Ids) /\ Len(ids) = n /\ \A k \in 1..n : client[ids[k]].st # "none"
  BY <1>1, <1>2 DEF Unsent
<1>4. /\ DOMAIN batch' = Requests
      /\ batch'[b] = [todo |-> ids, results |-> batch[b].results]
      /\ \A c \in Requests : c # b => batch'[c] = batch[c]
  BY <1>1 DEF IntakeInv, TypeOK, BatchStart, Idle
<1>5. TypeOK'
  BY <1>3, <1>4 DEF IntakeInv, TypeOK, BatchStart
<1>6. BatchIsMade'
  <2>1. ASSUME NEW c \in Requests
        PROVE  /\ \A k \in 1..Len(batch'[c].todo) : client[batch'[c].todo[k]].st # "none"
               /\ \A i \in DOMAIN batch'[c].results : client[i].st # "none"
    <3>1. CASE c = b
      BY <1>3, <1>4, <3>1 DEF IntakeInv, BatchIsMade
    <3>2. CASE c # b
      BY <1>4, <3>2 DEF IntakeInv, BatchIsMade
    <3> QED BY <3>1, <3>2
  <2>2. client' = client
    BY DEF BatchStart
  <2> QED BY <2>1, <2>2 DEF BatchIsMade
<1>7. AckedIsRecorded'
  <2>1. \A c \in Requests : batch'[c].results = batch[c].results
    BY <1>4
  <2> QED BY <2>1 DEF IntakeInv, AckedIsRecorded, RowOf, BatchStart
<1> QED BY <1>5, <1>6, <1>7 DEF IntakeInv, OneRowPerClientId, RowsMatch, BatchStart

LEMMA NextStep ==
  ASSUME IntakeInv, NEW b \in Requests, BatchNext(b)
  PROVE  IntakeInv'
<1>1. batch[b].todo \in Seq(Ids) /\ batch[b].todo # <<>>
  BY DEF IntakeInv, TypeOK, BatchNext
<1>0. PICK i \in Ids : i = Head(batch[b].todo)
  BY <1>1
<1>2. /\ client[i].st # "none" /\ Tail(batch[b].todo) \in Seq(Ids)
      /\ \A k \in 1..Len(Tail(batch[b].todo)) : client[Tail(batch[b].todo)[k]].st # "none"
  BY <1>0, <1>1 DEF IntakeInv, BatchIsMade
<1>3. PICK o \in Outcomes(i) :
        /\ rows' = o.rows
        /\ batch' = [batch EXCEPT ![b] = [todo |-> Tail(batch[b].todo), results |-> ResultsWith(b, o)]]
  BY <1>0 DEF BatchNext
<1>4. Allowed(i, o)
  BY <1>2, OutcomeAllowed
<1>5. /\ DOMAIN ResultsWith(b, o) = DOMAIN batch[b].results \union {i}
      /\ ResultsWith(b, o)[i] = [st |-> BatchAnswer(o), why |-> o.why] /\ ResultsWith(b, o)[i] \in Result
      /\ \A j \in DOMAIN batch[b].results : j # i => ResultsWith(b, o)[j] = batch[b].results[j]
      /\ ResultsWith(b, o)[i].st = "success" => o.st = "recorded"
  BY <1>0, <1>4 DEF ResultsWith, BatchAnswer, Allowed, Result
<1>6. /\ DOMAIN batch' = Requests
      /\ DOMAIN batch'[b] = {"todo", "results"}
      /\ batch'[b].todo = Tail(batch[b].todo) /\ batch'[b].results = ResultsWith(b, o)
      /\ \A c \in Requests : c # b => batch'[c] = batch[c]
  BY <1>3 DEF IntakeInv, TypeOK
<1>7. /\ rows \subseteq rows' /\ rows' \subseteq PunchRow
      /\ IsFiniteSet(rows') /\ OneRowPerClientId'
      /\ \A r \in rows' : client[r.id].st # "none" /\ r.ts = client[r.id].ts
      /\ o.st = "recorded" => \E r \in RowOf(i)' : r.ts = client[i].ts
  BY <1>2, <1>3, <1>4, RowsStay
<1>8. client' = client /\ now' = now /\ binding' = binding
  BY DEF BatchNext
<1>9. TypeOK'
  <2>1. ASSUME NEW c \in Requests
        PROVE  /\ DOMAIN batch'[c] = {"todo", "results"}
               /\ batch'[c].todo \in Seq(Ids)
               /\ DOMAIN batch'[c].results \subseteq Ids
               /\ \A j \in DOMAIN batch'[c].results : batch'[c].results[j] \in Result
    <3>1. CASE c = b
      <4>1. \A j \in DOMAIN batch[b].results : j \in Ids /\ batch[b].results[j] \in Result
        BY DEF IntakeInv, TypeOK
      <4>2. \A j \in DOMAIN ResultsWith(b, o) : j \in Ids /\ ResultsWith(b, o)[j] \in Result
        BY <1>5, <4>1
      <4> QED BY <1>2, <1>6, <3>1, <4>2
    <3>2. CASE c # b
      BY <1>6, <3>2 DEF IntakeInv, TypeOK
    <3> QED BY <3>1, <3>2
  <2> QED BY <1>6, <1>7, <1>8, <2>1 DEF IntakeInv, TypeOK
<1>10. BatchIsMade'
  <2>1. ASSUME NEW c \in Requests
        PROVE  /\ \A k \in 1..Len(batch'[c].todo) : client[batch'[c].todo[k]].st # "none"
               /\ \A j \in DOMAIN batch'[c].results : client[j].st # "none"
    <3>1. CASE c = b
      BY <1>2, <1>5, <1>6, <3>1 DEF IntakeInv, BatchIsMade
    <3>2. CASE c # b
      BY <1>6, <3>2 DEF IntakeInv, BatchIsMade
    <3> QED BY <3>1, <3>2
  <2> QED BY <1>8, <2>1 DEF BatchIsMade
<1>11. AckedIsRecorded'
  <2>1. ASSUME NEW j \in Ids, client[j].st = "success"
        PROVE  \E r \in RowOf(j)' : r.ts = client[j].ts
    BY <1>7, <2>1 DEF IntakeInv, AckedIsRecorded, RowOf
  <2>2. ASSUME NEW c \in Requests, NEW j \in DOMAIN batch[c].results,
               batch[c].results[j].st = "success"
        PROVE  \E r \in RowOf(j)' : r.ts = client[j].ts
    BY <1>7, <2>2 DEF IntakeInv, AckedIsRecorded, RowOf
  <2>3. ASSUME NEW c \in Requests, NEW j \in DOMAIN batch'[c].results,
               batch'[c].results[j].st = "success"
        PROVE  \E r \in RowOf(j)' : r.ts = client[j].ts
    <3>1. CASE c = b /\ j = i
      BY <1>5, <1>6, <1>7, <2>3, <3>1
    <3>2. CASE ~(c = b /\ j = i)
      <4>1. j \in DOMAIN batch[c].results /\ batch[c].results[j] = batch'[c].results[j]
        BY <1>5, <1>6, <2>3, <3>2
      <4> QED BY <2>2, <2>3, <4>1
    <3> QED BY <3>1, <3>2
  <2> QED BY <1>8, <2>1, <2>3 DEF AckedIsRecorded
<1> QED BY <1>7, <1>8, <1>9, <1>10, <1>11 DEF IntakeInv, RowsMatch

LEMMA EndStep ==
  ASSUME IntakeInv, NEW b \in Requests, BatchEnd(b)
  PROVE  IntakeInv'
<1> DEFINE a == batch[b].results
<1>1. DOMAIN a \subseteq Ids /\ \A j \in DOMAIN a : a[j] \in Result
  BY DEF IntakeInv, TypeOK
<1>2. client' \in {Answered(a), client} /\ rows' = rows /\ now' = now /\ binding' = binding
  BY DEF BatchEnd
<1>3. \A j \in DOMAIN a : a[j].st = "success" => \E r \in RowOf(j) : r.ts = client[j].ts
  BY DEF IntakeInv, AckedIsRecorded
<1> HIDE DEF a
<1>4. /\ client' \in [Ids -> Punch \union {NoPunch}]
      /\ \A j \in Ids : /\ client'[j].st = "none" <=> client[j].st = "none"
                        /\ client[j].st # "none" => client'[j].ts = client[j].ts
                        /\ client'[j].st = "success" =>
                             \/ client[j].st = "success"
                             \/ j \in DOMAIN a /\ a[j].st = "success"
  BY <1>1, <1>2, AnswersGood
<1>5. /\ DOMAIN batch' = Requests
      /\ batch'[b] = Idle
      /\ \A c \in Requests : c # b => batch'[c] = batch[c]
  BY DEF BatchEnd, IntakeInv, TypeOK
<1>6. /\ DOMAIN Idle = {"todo", "results"} /\ Idle.todo \in Seq(Ids) /\ Len(Idle.todo) = 0
      /\ DOMAIN Idle.results = {}
  BY IdleIsEmpty
<1>7. TypeOK'
  BY <1>2, <1>4, <1>5, <1>6 DEF IntakeInv, TypeOK
<1>8. BatchIsMade'
  <2> SUFFICES ASSUME NEW c \in Requests
      PROVE  /\ \A k \in 1..Len(batch'[c].todo) : client'[batch'[c].todo[k]].st # "none"
             /\ \A j \in DOMAIN batch'[c].results : client'[j].st # "none"
    BY DEF BatchIsMade
  <2>1. CASE c = b
    BY <1>5, <1>6, <2>1
  <2>2. CASE c # b
    <3>1. batch[c].todo \in Seq(Ids) /\ DOMAIN batch[c].results \subseteq Ids
      BY DEF IntakeInv, TypeOK
    <3> QED BY <1>4, <1>5, <2>2, <3>1 DEF IntakeInv, BatchIsMade
  <2> QED BY <2>1, <2>2
<1>9. AckedIsRecorded'
  <2>1. ASSUME NEW j \in Ids, client'[j].st = "success"
        PROVE  \E r \in RowOf(j)' : r.ts = client'[j].ts
    <3>1. \E r \in RowOf(j) : r.ts = client[j].ts
      BY <1>3, <1>4, <2>1 DEF IntakeInv, AckedIsRecorded
    <3>2. RowOf(j)' = RowOf(j)
      BY <1>2 DEF RowOf
    <3>3. client[j].st # "none"
      BY <1>4, <2>1
    <3> QED BY <1>4, <3>1, <3>2, <3>3
  <2>2. ASSUME NEW c \in Requests, NEW j \in DOMAIN batch'[c].results,
               batch'[c].results[j].st = "success"
        PROVE  \E r \in RowOf(j)' : r.ts = client'[j].ts
    <3>1. c # b /\ batch'[c] = batch[c]
      BY <1>5, <1>6, <2>2
    <3>2. j \in Ids /\ client[j].st # "none" /\ \E r \in RowOf(j) : r.ts = client[j].ts
      BY <2>2, <3>1 DEF IntakeInv, TypeOK, AckedIsRecorded, BatchIsMade
    <3> QED BY <1>2, <1>4, <3>2 DEF RowOf
  <2> QED BY <2>1, <2>2 DEF AckedIsRecorded
<1>10. RowsMatch'
  BY <1>2, <1>4 DEF IntakeInv, TypeOK, PunchRow, RowsMatch
<1> QED BY <1>2, <1>7, <1>8, <1>9, <1>10 DEF IntakeInv, OneRowPerClientId

LEMMA InvStep == IntakeInv /\ [Next]_vars => IntakeInv'
<1> SUFFICES ASSUME IntakeInv, [Next]_vars PROVE IntakeInv'
  OBVIOUS
<1>1. CASE \E i \in Ids, d \in Devices, f \in Forms, skew \in Skews : MakePunch(i, d, f, skew)
  BY <1>1, MakeStep
<1>2. CASE \E i \in Ids : CreatePunch(i)
  BY <1>2, SingleStep
<1>3. CASE \E b \in Requests : \E d \in Devices : BatchStart(b, d)
  BY <1>3, StartStep
<1>4. CASE \E b \in Requests : BatchNext(b)
  BY <1>4, NextStep
<1>5. CASE \E b \in Requests : BatchEnd(b)
  BY <1>5, EndStep
<1>6. CASE ApiCrash
  <2>1. TypeOK'
    BY <1>6, IdleIsEmpty DEF IntakeInv, TypeOK, ApiCrash
  <2>2. AckedIsRecorded' /\ BatchIsMade'
    BY <1>6, IdleIsEmpty DEF IntakeInv, AckedIsRecorded, BatchIsMade, RowOf, ApiCrash
  <2> QED BY <1>6, <2>1, <2>2 DEF IntakeInv, OneRowPerClientId, RowsMatch, ApiCrash
<1>7. CASE \/ \E d \in Devices : ChangeBinding(d)
          \/ Tick \/ UNCHANGED vars
  <2>1. client' = client /\ rows' = rows /\ batch' = batch
    BY <1>7 DEF ChangeBinding, Tick, vars
  <2>2. TypeOK'
    <3>1. now' \in Nat /\ binding' \in [Devices -> Bindings]
      BY <1>7 DEF IntakeInv, TypeOK, ChangeBinding, Tick, vars
    <3> QED BY <2>1, <3>1 DEF IntakeInv, TypeOK
  <2> QED BY <2>1, <2>2 DEF IntakeInv, AckedIsRecorded, BatchIsMade, RowOf,
                            OneRowPerClientId, RowsMatch
<1> QED BY <1>1, <1>2, <1>3, <1>4, <1>5, <1>6, <1>7 DEF Next

\* The variables keep their types.
THEOREM IntakeTypeCorrect == Spec => []TypeOK
<1>1. IntakeInv => TypeOK
  BY DEF IntakeInv
<1> QED BY <1>1, InvInit, InvStep, PTL DEF Spec

\* A client_punch_id is recorded at most once, whatever requests overlap.
THEOREM PunchIsRecordedOnce == Spec => []OneRowPerClientId
<1>1. IntakeInv => OneRowPerClientId
  BY DEF IntakeInv
<1> QED BY <1>1, InvInit, InvStep, PTL DEF Spec

\* What a device is told, or a batch is about to tell it, is recorded is.
THEOREM SuccessIsRecorded == Spec => []AckedIsRecorded
<1>1. IntakeInv => AckedIsRecorded
  BY DEF IntakeInv
<1> QED BY <1>1, InvInit, InvStep, PTL DEF Spec

------------------------------------------------------------------------------
(* The answers of the single endpoint *)

\* The single endpoint refuses nothing that is recorded, whichever request recorded it:
\* a repeated request is recognized before any check can refuse it.
THEOREM SingleRefusalIsHonest == Spec => RefusedIsNotRecorded
<1> DEFINE P == \A i \in Ids :
                  client'[i].st = "refused" /\ client'[i] # client[i] /\ CreatePunch(i) =>
                    RowOf(i)' = {}
<1>1. IntakeInv /\ [Next]_vars => [P]_vars
  <2> SUFFICES ASSUME IntakeInv, NEW i \in Ids, CreatePunch(i),
                      client'[i].st = "refused", client'[i] # client[i]
               PROVE  RowOf(i)' = {}
    BY DEF vars
  <2>1. client[i].st # "none"
    BY DEF CreatePunch, Unsent
  <2> DEFINE a(o) == [k \in {i} |-> [st |-> SingleAnswer(o), why |-> o.why]]
  <2>2. PICK o \in Outcomes(i) : rows' = o.rows /\ client' \in {Answered(a(o)), client}
    BY DEF CreatePunch
  <2>3. client'[i].st = SingleAnswer(o)
    <3>1. client' = Answered(a(o))
      BY <2>2
    <3>2. Unsent(i)
      BY DEF CreatePunch
    <3>3. client[i] \in Punch
      BY <3>2 DEF IntakeInv, TypeOK, Unsent, NoPunch
    <3>4. client'[i] = [client[i] EXCEPT !.st = SingleAnswer(o), !.why = o.why]
      BY <3>1, <3>2 DEF Answered
    <3> QED BY <3>3, <3>4 DEF Punch
  <2> HIDE DEF a
  <2>4. Allowed(i, o)
    BY <2>1, OutcomeAllowed
  <2>5. o.st = "invalid"
    BY <2>3, <2>4 DEF SingleAnswer, Allowed
  <2> QED BY <2>1, <2>2, <2>4, <2>5, RowsStay
<1> QED BY <1>1, InvInit, InvStep, PTL DEF Spec, RefusedIsNotRecorded

------------------------------------------------------------------------------
(* The daily limit *)

LimitInv == \A e, d : Cardinality(Arrived(e, d)) <= MaxDaily

\* A step records nothing, or one punch of an employee below the limit.
LEMMA RowsGrow ==
  ASSUME IntakeInv, [Next]_vars
  PROVE  \/ rows' = rows
         \/ \E r \in PunchRow : r.at = now /\ ~OverDailyLimit(r.employee) /\ rows' = rows \union {r}
<1>1. ASSUME NEW i \in Ids, client[i].st # "none", NEW o \in Outcomes(i), rows' = o.rows
      PROVE  \/ rows' = rows
             \/ \E r \in PunchRow : /\ r.at = now /\ ~OverDailyLimit(r.employee)
                                   /\ rows' = rows \union {r}
  BY <1>1, OutcomeAllowed DEF Allowed
<1>2. CASE \E i \in Ids : CreatePunch(i)
  <2>1. PICK i \in Ids : CreatePunch(i)
    BY <1>2
  <2>2. client[i].st # "none" /\ \E o \in Outcomes(i) : rows' = o.rows
    BY <2>1 DEF CreatePunch, Unsent
  <2> QED BY <1>1, <2>2
<1>3. CASE \E b \in Requests : BatchNext(b)
  <2>1. PICK b \in Requests : BatchNext(b)
    BY <1>3
  <2>2. batch[b].todo \in Seq(Ids) /\ batch[b].todo # <<>>
    BY <2>1 DEF IntakeInv, TypeOK, BatchNext
  <2>3. PICK i \in Ids : i = Head(batch[b].todo)
    BY <2>2
  <2>4. client[i].st # "none"
    BY <2>2, <2>3 DEF IntakeInv, BatchIsMade
  <2>5. \E o \in Outcomes(i) : rows' = o.rows
    BY <2>1, <2>3 DEF BatchNext
  <2> QED BY <1>1, <2>4, <2>5
<1> QED BY <1>2, <1>3 DEF Next, vars, MakePunch, BatchStart, BatchEnd, ApiCrash, ChangeBinding, Tick

LEMMA OneMore ==
  ASSUME NEW S, IsFiniteSet(S), NEW x
  PROVE  Cardinality(S \union {x}) \in Nat /\ Cardinality(S \union {x}) <= Cardinality(S) + 1
<1>1. Cardinality(S) \in Nat
  BY FS_CardinalityType
<1>2. CASE x \in S
  <2>1. S \union {x} = S
    BY <1>2
  <2>2. Cardinality(S \union {x}) = Cardinality(S)
    BY <2>1
  <2> QED BY <1>1, <2>2
<1>3. CASE x \notin S
  <2>1. Cardinality(S \union {x}) = Cardinality(S) + 1
    BY <1>3, FS_AddElement
  <2> QED BY <1>1, <2>1
<1> QED BY <1>2, <1>3

LEMMA LimitStep == IntakeInv /\ LimitInv /\ [Next]_vars => LimitInv'
<1> SUFFICES ASSUME IntakeInv, LimitInv, [Next]_vars, NEW e, NEW d
             PROVE  Cardinality(Arrived(e, d)') <= MaxDaily
  BY DEF LimitInv, Arrived
<1>1. IsFiniteSet(Arrived(e, d)) /\ Cardinality(Arrived(e, d)) \in Nat
  <2>1. Arrived(e, d) \subseteq rows
    BY DEF Arrived
  <2> QED BY <2>1, FS_Subset, FS_CardinalityType DEF IntakeInv
<1>2. CASE Arrived(e, d)' = Arrived(e, d)
  BY <1>2 DEF LimitInv
<1>3. CASE Arrived(e, d)' # Arrived(e, d)
  <2>1. PICK r : r.at = now /\ ~OverDailyLimit(r.employee) /\ rows' = rows \union {r}
    BY <1>3, RowsGrow DEF Arrived
  <2>2. /\ r.employee = e /\ Day(r.ts) = d /\ Day(now) = d
        /\ Arrived(e, d)' = Arrived(e, d) \union {r}
    BY <1>3, <2>1 DEF Arrived
  <2> DEFINE Today == {s \in rows : s.employee = e /\ Day(s.ts) = Day(now)}
  <2>3. IsFiniteSet(Today) /\ Cardinality(Today) \in Nat
    BY FS_Subset, FS_CardinalityType DEF IntakeInv
  <2>4. Cardinality(Arrived(e, d)) <= Cardinality(Today)
    <3>1. Arrived(e, d) \subseteq Today
      BY <2>2 DEF Arrived
    <3> QED BY <2>3, <3>1, FS_Subset
  <2>5. Cardinality(Today) < MaxDaily
    BY <2>1, <2>2, <2>3, IntakeParameters DEF OverDailyLimit
  <2>6. /\ Cardinality(Arrived(e, d) \union {r}) \in Nat
        /\ Cardinality(Arrived(e, d) \union {r}) <= Cardinality(Arrived(e, d)) + 1
    BY <1>1, OneMore
  <2> HIDE DEF Today
  <2> QED BY <1>1, <2>2, <2>3, <2>4, <2>5, <2>6, IntakeParameters
<1> QED BY <1>2, <1>3

\* The daily limit holds of what is made and sent on a day, whichever devices and
\* overlapping requests bring it.
THEOREM DailyLimitHolds == Spec => []DailyLimitByArrival
<1>1. Init => LimitInv
  <2> SUFFICES ASSUME Init, NEW e, NEW d PROVE Cardinality(Arrived(e, d)) <= MaxDaily
    BY DEF LimitInv
  <2>1. Arrived(e, d) = {}
    BY DEF Init, Arrived
  <2> QED BY <2>1, FS_EmptySet, IntakeParameters
<1>2. LimitInv => DailyLimitByArrival
  BY DEF LimitInv, DailyLimitByArrival
<1> QED BY <1>1, <1>2, InvInit, InvStep, LimitStep, PTL DEF Spec

------------------------------------------------------------------------------
(* Punches of one type are spaced *)

\* A punch whose raw type is a code ("In" or "Out") is stored at a distance of every
\* earlier punch of its stored type, except those of a clock that was ahead.
SpacedByCode ==
  \A r, s \in rows :
    /\ r.log < s.log /\ r.employee = s.employee /\ r.type = s.type
    /\ r.ts <= r.at /\ client[s.id].form.type \in {"In", "Out"}
    => s.at - r.ts > DupWindow

\* Log numbers count the rows, no row is from the future, and what is recorded has
\* passed the checks of its form.
RowsPassed ==
  \A r \in rows : /\ r.log <= Cardinality(rows) /\ r.at <= now
                  /\ client[r.id].form.biometric /\ client[r.id].form.inside

\* Days follow each other.
LEMMA DayMonotone ==
  ASSUME NEW t \in Int, NEW u \in Int, t <= u
  PROVE  Day(t) \in Int /\ Day(u) \in Int /\ Day(t) <= Day(u)
BY IntakeParameters DEF Day

\* What the checks of a recorded punch say of its form and of the rows before it.
LEMMA ChecksPassed ==
  ASSUME NEW q, NEW t, FailedChecks(q, t) = {}
  PROVE  /\ q.form.biometric /\ q.form.inside
         /\ ~Duplicate(q, binding[q.device].employee)
<1>1. ~q.form.biometric => "biometric" \in FailedChecks(q, t)
  BY DEF FailedChecks
<1>2. ~q.form.inside => "geofence" \in FailedChecks(q, t)
  BY DEF FailedChecks
<1>3. Duplicate(q, binding[q.device].employee) => "duplicate" \in FailedChecks(q, t)
  BY DEF FailedChecks
<1> QED BY <1>1, <1>2, <1>3

\* The heart of it: what the new punch is stored as lies outside the window. If it is
\* stored as what it says, the duplicate check has seen to it.  If an "In" is stored
\* as "Out", the latest punch of the day is an "In" outside the window, and every
\* "Out" is earlier still.
LEMMA StoredTypeSpaced ==
  ASSUME IntakeInv, NEW q \in Punch, NEW t \in Resolutions(q), FailedChecks(q, t) = {},
         q.form.type \in {"In", "Out"},
         NEW r \in rows, r.employee = binding[q.device].employee,
         r.type = Capitalized(t), r.ts <= now
  PROVE  now - r.ts > DupWindow
<1> DEFINE e == binding[q.device].employee
<1>1. /\ now \in Int /\ r.ts \in Int /\ DupWindow \in Int /\ TzOffset \in Int
      /\ \A s \in rows : s.ts \in Int
  BY IntakeParameters DEF IntakeInv, TypeOK, PunchRow
<1>2. \A s \in rows : s.employee = e /\ s.type = q.form.type => now - s.ts > DupWindow
  <2>1. ~Duplicate(q, e)
    BY ChecksPassed
  <2> QED BY <1>1, <2>1 DEF Duplicate
<1>3. CASE r.type = q.form.type
  BY <1>2, <1>3
<1>4. CASE r.type # q.form.type
  <2>1. PICK last \in (IF LatestTypes(e) = {} THEN {"none"} ELSE LatestTypes(e)) :
          t = Resolved(q.form.type, last, e)
    BY DEF Resolutions
  <2>2. Lower["In"] = "in" /\ Lower["Out"] = "out"
    BY DEF Lower, RawTypes
  <2>3. q.form.type = "In" /\ last = "In"
    BY <1>4, <2>1, <2>2 DEF Resolved, Capitalized
  <2>4. "In" \in LatestTypes(e)
    BY <2>1, <2>3
  <2>5. PICK l \in TodaysRows(e) : l.type = "In" /\ \A u \in TodaysRows(e) : u.ts <= l.ts
    BY <2>4 DEF LatestTypes
  <2>6. /\ l \in rows /\ l.employee = e
        /\ Day(l.ts + TzOffset) = Day(now + TzOffset)
    BY <2>5 DEF TodaysRows
  <2>7. now - l.ts > DupWindow
    BY <1>2, <2>3, <2>5, <2>6
  <2>8. r.ts <= l.ts
    <3>1. CASE Day(r.ts + TzOffset) = Day(now + TzOffset)
      BY <2>5, <3>1 DEF TodaysRows
    <3>2. CASE Day(r.ts + TzOffset) # Day(now + TzOffset)
      <4>1. Day(r.ts + TzOffset) <= Day(now + TzOffset)
        BY <1>1, DayMonotone
      <4>2. l.ts <= r.ts => Day(l.ts + TzOffset) <= Day(r.ts + TzOffset)
        BY <1>1, <2>6, DayMonotone
      <4>3. Day(r.ts + TzOffset) \in Int /\ Day(now + TzOffset) \in Int
        BY <1>1, DayMonotone
      <4> QED BY <1>1, <2>6, <3>2, <4>1, <4>2, <4>3
    <3> QED BY <3>1, <3>2
  <2> QED BY <1>1, <2>6, <2>7, <2>8
<1> QED BY <1>3, <1>4

\* A step records nothing or one punch that has passed its checks.
LEMMA RowsGrowChecked ==
  ASSUME IntakeInv, [Next]_vars
  PROVE  \/ rows' = rows
         \/ \E i \in Ids : \E t \in Resolutions(client[i]) :
              /\ client[i] \in Punch /\ RowOf(i) = {}
              /\ FailedChecks(client[i], t) = {}
              /\ rows' = rows \union {NewRow(i, client[i], t)} /\ now' = now
<1>1. ASSUME NEW i \in Ids, client[i].st # "none", NEW o \in Outcomes(i),
             rows' = o.rows, now' = now
      PROVE  \/ rows' = rows
             \/ \E t \in Resolutions(client[i]) :
                  /\ client[i] \in Punch /\ RowOf(i) = {}
                  /\ FailedChecks(client[i], t) = {}
                  /\ rows' = rows \union {NewRow(i, client[i], t)} /\ now' = now
  <2>1. CASE RowOf(i) # {}
    BY <1>1, <2>1 DEF Outcomes
  <2>2. CASE RowOf(i) = {}
    <3>1. PICK t \in Resolutions(client[i]) :
            o = IF FailedChecks(client[i], t) = {}
                THEN [st |-> "recorded", why |-> {},
                      rows |-> rows \union {NewRow(i, client[i], t)}]
                ELSE [st |-> "invalid", why |-> FailedChecks(client[i], t), rows |-> rows]
      BY <2>2 DEF Outcomes
    <3>2. client[i] \in Punch
      BY <1>1 DEF IntakeInv, TypeOK, NoPunch
    <3>3. CASE FailedChecks(client[i], t) = {}
      <4>1. o.rows = rows \union {NewRow(i, client[i], t)}
        BY <3>1, <3>3
      <4> QED BY <1>1, <2>2, <3>2, <3>3, <4>1
    <3>4. CASE FailedChecks(client[i], t) # {}
      BY <1>1, <3>1, <3>4
    <3> QED BY <3>3, <3>4
  <2> QED BY <2>1, <2>2
<1>2. CASE \E i \in Ids : CreatePunch(i)
  <2>1. PICK i \in Ids : CreatePunch(i)
    BY <1>2
  <2>2. PICK o \in Outcomes(i) : rows' = o.rows
    BY <2>1 DEF CreatePunch
  <2>3. client[i].st # "none" /\ now' = now
    BY <2>1 DEF CreatePunch, Unsent
  <2> QED BY <1>1, <2>2, <2>3
<1>3. CASE \E b \in Requests : BatchNext(b)
  <2>1. PICK b \in Requests : BatchNext(b)
    BY <1>3
  <2>2. batch[b].todo \in Seq(Ids) /\ batch[b].todo # <<>>
    BY <2>1 DEF IntakeInv, TypeOK, BatchNext
  <2>3. PICK i \in Ids : i = Head(batch[b].todo)
    BY <2>2
  <2>4. client[i].st # "none" /\ now' = now
    BY <2>1, <2>2, <2>3 DEF IntakeInv, BatchIsMade, BatchNext
  <2>5. PICK o \in Outcomes(i) : rows' = o.rows
    BY <2>1, <2>3 DEF BatchNext
  <2> QED BY <1>1, <2>4, <2>5
<1> QED BY <1>2, <1>3 DEF Next, vars, MakePunch, BatchStart, BatchEnd, ApiCrash,
                         ChangeBinding, Tick

\* No step changes what a punch that was made says, nor turns back the clock; a punch
\* that is made says what its device's clock says.
LEMMA PunchesStay ==
  ASSUME IntakeInv, [Next]_vars
  PROVE  /\ now' \in Nat /\ now <= now'
         /\ \A i \in Ids : client[i].st # "none" => /\ client'[i].form = client[i].form
                                                    /\ client'[i].ts = client[i].ts
         /\ \A i \in Ids : client[i].st = "none" =>
              \/ client'[i].st = "none"
              \/ \E skew \in Skews : client'[i].ts = now + skew /\ now' = now
<1> DEFINE Same(i) == /\ client[i].st # "none" => /\ client'[i].form = client[i].form
                                                  /\ client'[i].ts = client[i].ts
                      /\ client[i].st = "none" => client'[i].st = "none"
<1>1. now \in Nat /\ client \in [Ids -> Punch \union {NoPunch}]
  BY DEF IntakeInv, TypeOK
<1>2. now' \in Nat /\ now <= now'
  <2>1. now' \in {now, now + 1}
    BY DEF Next, vars, MakePunch, CreatePunch, BatchStart, BatchNext, BatchEnd,
           ApiCrash, ChangeBinding, Tick
  <2> QED BY <1>1, <2>1
<1>3. ASSUME NEW answers, client' \in {Answered(answers), client}, NEW i \in Ids
      PROVE  Same(i)
  <2>1. CASE client'[i] = client[i]
    BY <2>1
  <2>2. CASE client'[i] # client[i]
    <3>1. /\ Unsent(i)
          /\ client'[i] = [client[i] EXCEPT !.st = answers[i].st, !.why = answers[i].why]
      BY <1>3, <2>2 DEF Answered
    <3>2. client[i] \in Punch
      BY <1>1, <3>1 DEF Unsent, NoPunch
    <3>3. ASSUME NEW st, NEW why
          PROVE  /\ [client[i] EXCEPT !.st = st, !.why = why].form = client[i].form
                 /\ [client[i] EXCEPT !.st = st, !.why = why].ts = client[i].ts
      BY <3>2 DEF Punch
    <3> QED BY <3>1, <3>3 DEF Unsent
  <2> QED BY <2>1, <2>2
<1>4. ASSUME NEW i \in Ids, NEW j \in Ids, CreatePunch(j) PROVE Same(i)
  <2>1. PICK o \in Outcomes(j) :
          client' \in {Answered([k \in {j} |-> [st |-> SingleAnswer(o), why |-> o.why]]),
                       client}
    BY <1>4 DEF CreatePunch
  <2> QED BY <1>3, <2>1
<1>5. ASSUME NEW i \in Ids, NEW b \in Requests, BatchEnd(b) PROVE Same(i)
  BY <1>3, <1>5 DEF BatchEnd
<1>6. ASSUME NEW i \in Ids, NEW j \in Ids, NEW d \in Devices, NEW f \in Forms,
             NEW skew \in Skews, MakePunch(j, d, f, skew)
      PROVE  Same(i) \/ /\ client[i].st = "none"
                        /\ client'[i].ts = now + skew /\ now' = now
  BY <1>1, <1>6 DEF MakePunch, Made
<1>7. ASSUME NEW i \in Ids
      PROVE  Same(i) \/ /\ client[i].st = "none"
                        /\ \E skew \in Skews : client'[i].ts = now + skew /\ now' = now
  <2>1. CASE client' = client
    BY <2>1
  <2>2. CASE \/ \E j \in Ids : CreatePunch(j)
             \/ \E b \in Requests : BatchEnd(b)
    BY <1>4, <1>5, <2>2
  <2>3. CASE \E j \in Ids, d \in Devices, f \in Forms, skew \in Skews :
               MakePunch(j, d, f, skew)
    BY <1>6, <2>3
  <2> QED BY <2>1, <2>2, <2>3 DEF Next, vars, BatchStart, BatchNext, ApiCrash,
                                  ChangeBinding, Tick
<1> QED BY <1>2, <1>7

LEMMA SpacedStep ==
  IntakeInv /\ RowsPassed /\ SpacedByCode /\ [Next]_vars => RowsPassed' /\ SpacedByCode'
<1> SUFFICES ASSUME IntakeInv, RowsPassed, SpacedByCode, [Next]_vars
             PROVE  RowsPassed' /\ SpacedByCode'
  OBVIOUS
<1>1. /\ now \in Nat /\ now' \in Nat /\ now <= now'
      /\ \A i \in Ids : client[i].st # "none" => client'[i].form = client[i].form
  BY PunchesStay DEF IntakeInv, TypeOK
<1>2. \A r \in rows : /\ r \in PunchRow /\ r.id \in Ids /\ r.log \in Nat
                      /\ r.at \in Nat /\ r.ts \in Int
                      /\ client'[r.id].form = client[r.id].form
  BY <1>1 DEF IntakeInv, TypeOK, RowsMatch, PunchRow
<1>3. CASE rows' = rows
  <2>1. RowsPassed'
    BY <1>1, <1>2, <1>3 DEF RowsPassed
  <2>2. SpacedByCode'
    BY <1>2, <1>3 DEF SpacedByCode
  <2> QED BY <2>1, <2>2
<1>4. ASSUME NEW i \in Ids, NEW t \in Resolutions(client[i]),
             client[i] \in Punch, RowOf(i) = {}, FailedChecks(client[i], t) = {},
             rows' = rows \union {NewRow(i, client[i], t)}, now' = now
      PROVE  RowsPassed' /\ SpacedByCode'
  <2> DEFINE n == NewRow(i, client[i], t)
             c == Cardinality(rows)
  <2>1. /\ n.id = i /\ n.log = c + 1 /\ n.at = now /\ n.type = Capitalized(t)
        /\ n.employee = binding[client[i].device].employee
    BY DEF NewRow
  <2>2. /\ client'[i].form = client[i].form
        /\ client[i].form.biometric /\ client[i].form.inside
    <3>1. client[i].st # "none"
      BY <1>4 DEF Punch
    <3> QED BY <1>1, <1>4, <3>1, ChecksPassed
  <2>3. c \in Nat /\ Cardinality(rows') = c + 1
    <3>1. n \notin rows
      BY <1>4, <2>1 DEF RowOf
    <3> QED BY <1>4, <3>1, FS_CardinalityType, FS_AddElement DEF IntakeInv
  <2> HIDE DEF n, c
  <2>4. \A r \in rows' : r \in rows \/ r = n
    BY <1>4 DEF n
  <2>5. \A r \in rows : r.log <= c
    BY DEF RowsPassed, c
  <2>6. RowsPassed'
    <3>1. \A r \in rows : r.log <= c + 1
      BY <1>2, <2>3, <2>5
    <3>2. n.log <= c + 1 /\ n.at <= now'
      BY <1>1, <1>4, <2>1, <2>3
    <3> QED BY <1>1, <1>2, <1>4, <2>1, <2>2, <2>3, <2>4, <3>1, <3>2 DEF RowsPassed
  <2>7. ASSUME NEW r \in rows', NEW s \in rows', r.log < s.log,
               r.employee = s.employee, r.type = s.type, r.ts <= r.at,
               client'[s.id].form.type \in {"In", "Out"}
        PROVE  s.at - r.ts > DupWindow
    <3>1. r \in rows
      BY <1>2, <2>1, <2>3, <2>4, <2>5, <2>7
    <3>2. CASE s \in rows
      BY <1>2, <2>7, <3>1, <3>2 DEF SpacedByCode
    <3>3. CASE s = n
      <4>1. r.ts <= now
        BY <1>1, <1>2, <2>7, <3>1 DEF RowsPassed
      <4>2. client[i].form.type \in {"In", "Out"}
        BY <2>1, <2>2, <2>7, <3>3
      <4>3. now - r.ts > DupWindow
        BY <1>4, <2>1, <2>7, <3>1, <3>3, <4>1, <4>2, StoredTypeSpaced
      <4> QED BY <2>1, <3>3, <4>3
    <3> QED BY <2>4, <3>2, <3>3
  <2> QED BY <2>6, <2>7 DEF SpacedByCode
<1> QED BY <1>3, <1>4, RowsGrowChecked

\* help.html:313-315 for every clock, form and binding: a punch the device sends as
\* "In" or "Out" is recorded more than DupWindow after every earlier punch of the
\* employee that is stored under the same type, although the type sequence may have
\* stored it as the other one; only an earlier punch whose clock was ahead may be nearer.
THEOREM CodesAreSpaced == Spec => []SpacedByCode
<1>1. Init => RowsPassed /\ SpacedByCode
  BY DEF Init, RowsPassed, SpacedByCode
<1>2. IntakeInv /\ RowsPassed /\ SpacedByCode /\ [Next]_vars
        => RowsPassed' /\ SpacedByCode'
  BY SpacedStep
<1> QED BY <1>1, <1>2, InvInit, InvStep, PTL DEF Spec

\* Clocks that are exact or slow, and forms of which only those that carry a code can
\* pass their checks.
ClocksNotAhead == \A skew \in Skews : skew <= 0
FormsCarryCodes == \A f \in Forms : f.biometric /\ f.inside => f.type \in {"In", "Out"}

\* No punch is from the future.
PunchesPast ==
  /\ \A i \in Ids : client[i].st # "none" => client[i].ts <= now
  /\ \A r \in rows : r.ts <= r.at

LEMMA PunchesPastStep ==
  ASSUME ClocksNotAhead
  PROVE  IntakeInv /\ IntakeInv' /\ PunchesPast /\ [Next]_vars => PunchesPast'
<1> SUFFICES ASSUME IntakeInv, IntakeInv', PunchesPast, [Next]_vars PROVE PunchesPast'
  OBVIOUS
<1>1. now \in Nat /\ now' \in Nat /\ now <= now'
  BY PunchesStay DEF IntakeInv, TypeOK
<1>2. ASSUME NEW i \in Ids, client'[i].st # "none" PROVE client'[i].ts <= now'
  <2>1. CASE client[i].st # "none"
    <3>1. client'[i].ts = client[i].ts /\ client[i].ts \in Int
      BY <2>1, PunchesStay DEF IntakeInv, TypeOK, Punch, NoPunch
    <3> QED BY <1>1, <2>1, <3>1 DEF PunchesPast
  <2>2. CASE client[i].st = "none"
    <3>1. PICK skew \in Skews : client'[i].ts = now + skew /\ now' = now
      BY <1>2, <2>2, PunchesStay
    <3>2. skew \in Int /\ skew <= 0
      BY IntakeParameters DEF ClocksNotAhead
    <3> QED BY <1>1, <3>1, <3>2
  <2> QED BY <2>1, <2>2
<1>3. ASSUME NEW r \in rows' PROVE r.ts <= r.at
  <2>1. CASE rows' = rows
    BY <1>3, <2>1 DEF PunchesPast
  <2>2. ASSUME NEW i \in Ids, NEW t, client[i] \in Punch,
               rows' = rows \union {NewRow(i, client[i], t)}
        PROVE  r.ts <= r.at
    <3>1. NewRow(i, client[i], t).ts <= NewRow(i, client[i], t).at
      BY <2>2 DEF NewRow, PunchesPast, Punch
    <3> QED BY <1>3, <2>2, <3>1 DEF PunchesPast
  <2> QED BY <2>1, <2>2, RowsGrowChecked
<1> QED BY <1>2, <1>3 DEF PunchesPast

\* help.html:315 as it stands: punches of one stored type are more than DupWindow
\* apart, if no clock is ahead and what passes the checks carries a code. TLC refutes it
\* without either condition: after a punch of a clock that is ahead of midnight, and
\* for a punch that says "auto" once the page has added the punch type "in".
THEOREM SameTypesAreSpaced ==
  ASSUME ClocksNotAhead, FormsCarryCodes
  PROVE  Spec => []SameTypeSpaced
<1>1. Init => PunchesPast /\ RowsPassed
  BY DEF Init, PunchesPast, RowsPassed, NoPunch
<1>2. IntakeInv /\ IntakeInv' /\ PunchesPast /\ [Next]_vars => PunchesPast'
  BY PunchesPastStep
<1>3. IntakeInv /\ RowsPassed /\ SpacedByCode /\ [Next]_vars => RowsPassed'
  BY SpacedStep
<1>4. IntakeInv /\ RowsPassed /\ PunchesPast /\ SpacedByCode => SameTypeSpaced
  <2> SUFFICES ASSUME IntakeInv, RowsPassed, PunchesPast, SpacedByCode,
                      NEW r \in rows, NEW s \in rows, r.log < s.log,
                      r.employee = s.employee, r.type = s.type
               PROVE  s.at - r.ts > DupWindow
    BY DEF SameTypeSpaced
  <2>1. client[s.id] \in Punch
    BY DEF IntakeInv, TypeOK, RowsMatch, PunchRow, NoPunch
  <2>2. client[s.id].form.type \in {"In", "Out"}
    BY <2>1 DEF RowsPassed, FormsCarryCodes, Punch
  <2>3. r.ts <= r.at
    BY DEF PunchesPast
  <2> QED BY <2>2, <2>3 DEF SpacedByCode
<1> QED BY <1>1, <1>2, <1>3, <1>4, InvInit, InvStep, CodesAreSpaced, PTL DEF Spec
==============================================================================
