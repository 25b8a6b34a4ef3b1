------------------------ MODULE DeviceRegistry_proofs ------------------------
(***************************************************************************)
(* What is proved of DeviceRegistry, for any number of devices, keys,      *)
(* requests and admin requests.                                            *)
(***************************************************************************)
EXTENDS DeviceRegistry, TLAPS

\* An admin request that only invalidates is a well-formed one.
LEMMA InvalidatingType ==
  ASSUME NEW entries \in SUBSET Entry
  PROVE  /\ Invalidating(entries) \in AdminRecord \union {NoAdmin}
         /\ Invalidating(entries) # NoAdmin => Invalidating(entries).rows = {}
BY DEF Invalidating, AdminRecord, NoAdmin, Anyone

\* A configuration that is computed is of the type that is cached.
LEMMA ConfigType ==
  ASSUME NEW b \in Row \union {NoBinding}, NEW s \in Sites \union {"off"}
  PROVE  ConfigOf(b, s) \in Config \union {NoConfig}
BY DEF ConfigOf, Config, Row, NoConfig, Anyone, NoBinding, Counted

\* The rows and cache entries of an employee's devices are rows and entries.
LEMMA EntryTypes ==
  ASSUME TypeOK
  PROVE  /\ \A d \in Devices : Bound(d) => binding[d] \in Row /\ EntryOf(d) \in Entry
         /\ \A e : DevicesOf(e) \subseteq {d \in Devices : Bound(d)}
         /\ \A ds \in SUBSET {d \in Devices : Bound(d)} : EntriesOf(ds) \subseteq Entry
BY DEF TypeOK, Bound, EntryOf, EntriesOf, Entry, DevicesOf, Row

\* A token makes a row, and never one that looks like none.
LEMMA OnboardedType ==
  ASSUME NEW e \in Employees, NEW k \in Keys
  PROVE  Onboarded(e, k) \in Row /\ Onboarded(e, k) # NoBinding
BY DEF Onboarded, Row, Anyone, NoBinding

\* What a request is still to invalidate are cache entries.
LEMMA PendingType ==
  ASSUME TypeOK, NEW a \in Admins
  PROVE  Pending(a) \subseteq Entry
<1>1. EntriesOf(DevicesOf(admin[a].employee) \ admin[a].rows) \subseteq Entry
  BY EntryTypes
<1>2. ~Free(a) => admin[a].todo \subseteq Entry
  BY DEF TypeOK, Free, AdminRecord
<1> QED
  BY <1>1, <1>2 DEF Pending

LEMMA InitType == Init => TypeOK
<1> SUFFICES ASSUME Init PROVE TypeOK
  OBVIOUS
<1>1. binding \in [Devices -> Row \union {NoBinding}]
  <2>1. {NoBinding} \union {Onboarded(e, k) : e \in Employees, k \in Keys}
          \subseteq Row \union {NoBinding}
    <3>1. \A e \in Employees, k \in Keys : Onboarded(e, k) \in Row
      BY OnboardedType
    <3> QED BY <3>1
  <2> QED BY <2>1 DEF Init
<1>2. cache \in [Entry -> Config \union {NoConfig}]
  BY DEF Init
<1>3. edits \in 0..MaxEdits
  BY RegistryParameters DEF Init
<1> QED
  BY <1>1, <1>2, <1>3 DEF Init, TypeOK, Free

\* The part of TypeOK that a page's Begin takes care of.
LEMMA BeginType ==
  ASSUME TypeOK, NEW a \in Admins, NEW record \in AdminRecord \union {NoAdmin},
         Begin(a, record),
         \A d \in Devices : Bound(d) => Bound(d)',
         record # NoAdmin => \A d \in record.rows : Bound(d)'
  PROVE  /\ (admin \in [Admins -> AdminRecord \union {NoAdmin}])'
         /\ (\A b \in Admins : ~Free(b) => \A d \in admin[b].rows : Bound(d))'
         /\ (edits \in 0..MaxEdits)'
<1>1. (admin \in [Admins -> AdminRecord \union {NoAdmin}])'
  BY DEF TypeOK, Begin
<1>2. ASSUME NEW b \in Admins, ~Free(b)', NEW d \in admin'[b].rows PROVE Bound(d)'
  <2>1. CASE b = a
    BY <1>2, <2>1 DEF TypeOK, Begin, Free
  <2>2. CASE b # a
    <3>1. admin'[b] = admin[b] /\ admin[b] \in AdminRecord /\ ~Free(b)
      BY <1>2, <2>2 DEF TypeOK, Begin, Free
    <3> QED BY <1>2, <3>1 DEF TypeOK, AdminRecord
  <2> QED BY <2>1, <2>2
<1>3. (edits \in 0..MaxEdits)'
  BY RegistryParameters DEF TypeOK, Begin
<1> QED BY <1>1, <1>2, <1>3

\* A page that writes one row keeps the types, if the row is one.
LEMMA EditRowType ==
  ASSUME TypeOK, NEW a \in Admins, NEW d \in Devices, NEW row,
         Bound(d) => row \in Row, EditRow(a, d, row)
  PROVE  TypeOK'
<1>1. row \in Row /\ EntryOf(d) \in Entry
  BY EntryTypes DEF EditRow
<1>2. row # NoBinding
  BY <1>1 DEF Row, NoBinding
<1>3. /\ binding' \in [Devices -> Row \union {NoBinding}]
      /\ \A o \in Devices : Bound(o) => Bound(o)'
  BY <1>1, <1>2 DEF EditRow, TypeOK, Bound
<1>4. /\ Invalidating({EntryOf(d)}) \in AdminRecord \union {NoAdmin}
      /\ Invalidating({EntryOf(d)}) # NoAdmin => Invalidating({EntryOf(d)}).rows = {}
  BY <1>1, InvalidatingType
<1>5. Begin(a, Invalidating({EntryOf(d)}))
  BY DEF EditRow
<1>6. /\ (admin \in [Admins -> AdminRecord \union {NoAdmin}])'
      /\ (\A b \in Admins : ~Free(b) => \A o \in admin[b].rows : Bound(o))'
      /\ (edits \in 0..MaxEdits)'
  BY <1>3, <1>4, <1>5, BeginType
<1> QED
  BY <1>3, <1>6 DEF EditRow, TypeOK

\* Deleting rows takes them from every request that holds them.
LEMMA DeleteRowsType ==
  ASSUME TypeOK, NEW a \in Admins, NEW ds \in SUBSET Devices, DeleteRows(a, ds)
  PROVE  /\ (binding \in [Devices -> Row \union {NoBinding}])'
         /\ (admin \in [Admins -> AdminRecord \union {NoAdmin}])'
         /\ (\A b \in Admins : ~Free(b) => \A d \in admin[b].rows : Bound(d))'
         /\ (excused \subseteq Entry)'
<1>1. (binding \in [Devices -> Row \union {NoBinding}])'
  BY DEF DeleteRows, TypeOK
<1>2. \A b \in Admins : ~Free(b) => admin[b] \in AdminRecord
  BY DEF TypeOK, Free
<1>3. \A b \in Admins : ~Free(b) => [admin[b] EXCEPT !.rows = @ \ ds] \in AdminRecord
  BY <1>2 DEF AdminRecord
<1>4. (admin \in [Admins -> AdminRecord \union {NoAdmin}])'
  BY <1>3 DEF DeleteRows
<1>5. ASSUME NEW b \in Admins, ~Free(b)', NEW d \in admin'[b].rows PROVE Bound(d)'
  <2>1. b # a /\ ~Free(b) /\ admin'[b] = [admin[b] EXCEPT !.rows = @ \ ds]
    BY <1>5 DEF DeleteRows, Free
  <2>2. d \in admin[b].rows \ ds /\ d \in Devices
    BY <1>2, <1>5, <2>1 DEF AdminRecord
  <2> QED
    BY <2>1, <2>2 DEF TypeOK, Bound, DeleteRows
<1>6. (excused \subseteq Entry)'
  BY DEF DeleteRows, Excuse, TypeOK
<1> QED
  BY <1>1, <1>4, <1>5, <1>6

\* An invalidation that is over leaves a well-formed request, of the same rows.
LEMMA DoneType ==
  ASSUME TypeOK, NEW a \in Admins, NEW x \in Entry, ~Free(a), Done(a, x),
         UNCHANGED binding
  PROVE  /\ (admin \in [Admins -> AdminRecord \union {NoAdmin}])'
         /\ (\A b \in Admins : ~Free(b) => \A d \in admin[b].rows : Bound(d))'
<1>1. admin[a] \in AdminRecord
  BY DEF TypeOK, Free
<1>2. /\ Invalidating(admin[a].todo \ {x}) \in AdminRecord \union {NoAdmin}
      /\ Invalidating(admin[a].todo \ {x}) # NoAdmin
           => Invalidating(admin[a].todo \ {x}).rows = {}
  BY <1>1, InvalidatingType DEF AdminRecord
<1>3. /\ [admin[a] EXCEPT !.todo = @ \ {x}] \in AdminRecord
      /\ [admin[a] EXCEPT !.todo = @ \ {x}].rows = admin[a].rows
  BY <1>1 DEF AdminRecord
<1>4. \A b \in Admins \ {a} : admin'[b] = admin[b]
  BY DEF Done, TypeOK
<1>5. admin'[a] = Invalidating(admin[a].todo \ {x})
        \/ admin'[a] = [admin[a] EXCEPT !.todo = @ \ {x}]
  BY DEF Done, TypeOK
<1>6. (admin \in [Admins -> AdminRecord \union {NoAdmin}])'
  BY <1>2, <1>3, <1>4, <1>5 DEF TypeOK, Done
<1>7. ASSUME NEW b \in Admins, ~Free(b)', NEW d \in admin'[b].rows PROVE Bound(d)'
  <2>1. d \in admin[b].rows /\ ~Free(b)
    BY <1>2, <1>3, <1>4, <1>5, <1>7 DEF Free
  <2>2. d \in Devices
    BY <2>1 DEF TypeOK, Free, AdminRecord
  <2> QED
    BY <2>1, <2>2 DEF TypeOK, Bound
<1> QED
  BY <1>6, <1>7

\* A crash leaves rows and cache as they are.
LEMMA LoseRequestsType ==
  ASSUME TypeOK, LoseRequests
  PROVE  /\ (binding \in [Devices -> Row \union {NoBinding}])'
         /\ (cache \in [Entry -> Config \union {NoConfig}])'
         /\ (request \in [Requests -> RequestRecord \union {NoRequest}])'
         /\ (admin \in [Admins -> AdminRecord \union {NoAdmin}])'
         /\ (\A a \in Admins : ~Free(a) => \A d \in admin[a].rows : Bound(d))'
         /\ (excused \subseteq Entry)'
<1>1. UNION {Pending(a) : a \in Admins} \subseteq Entry
  BY PendingType
<1> QED
  BY <1>1 DEF LoseRequests, TypeOK, Excuse, Free

\* Every step of a configuration request keeps the types.
LEMMA ConfigStepType ==
  ASSUME TypeOK, NEW r \in Requests, ConfigStep(r)
  PROVE  TypeOK'
<1>1. ASSUME NEW d \in Devices, NEW k \in Keys, ConfigStart(r, d, k) PROVE TypeOK'
  BY <1>1 DEF ConfigStart, TypeOK, RequestRecord, Bound, Free
<1>2. ASSUME ConfigHit(r) PROVE TypeOK'
  BY <1>2 DEF ConfigHit, EndRequest, TypeOK, Bound, Free
<1>3. ASSUME NEW e \in Anyone, ConfigRegister(r, e) PROVE TypeOK'
  <2>1. request[r] \in RequestRecord
    BY <1>3 DEF ConfigRegister, Looking, TypeOK
  <2> DEFINE d == request[r].dev
             row == [employee |-> e, status |-> "pending_approval", isActive |-> TRUE,
                     key |-> request[r].key, branch |-> FALSE]
  <2>2. d \in Devices /\ row \in Row /\ row # NoBinding
    BY <2>1 DEF RequestRecord, Row, NoBinding
  <2>3. binding' = binding \/ binding' = [binding EXCEPT ![d] = row]
    BY <1>3 DEF ConfigRegister
  <2>4. /\ binding' \in [Devices -> Row \union {NoBinding}]
        /\ \A o \in Devices : Bound(o) => Bound(o)'
    BY <2>2, <2>3 DEF TypeOK, Bound
  <2>5. \A a \in Admins : ~Free(a) => admin[a].rows \subseteq Devices
    BY DEF TypeOK, Free, AdminRecord
  <2> QED
    BY <1>3, <2>4, <2>5 DEF ConfigRegister, EndRequest, TypeOK, Free
<1>4. ASSUME ConfigCompute(r) PROVE TypeOK'
  <2>1. request[r] \in RequestRecord
    BY <1>4 DEF ConfigCompute, Looking, TypeOK
  <2>2. ConfigOf(binding[request[r].dev], site) \in Config \union {NoConfig}
    BY <2>1, ConfigType DEF TypeOK, RequestRecord
  <2>3. request' \in [Requests -> RequestRecord \union {NoRequest}]
    BY <1>4, <2>1, <2>2 DEF ConfigCompute, EndRequest, TypeOK, RequestRecord
  <2> QED
    BY <1>4, <2>3 DEF ConfigCompute, TypeOK, Bound, Free
<1>5. ASSUME ConfigWrite(r) PROVE TypeOK'
  <2>1. request[r] \in RequestRecord
    BY <1>5 DEF ConfigWrite, Writing, TypeOK
  <2>2. RequestEntry(r) \in Entry /\ request[r].config \in Config \union {NoConfig}
    BY <2>1 DEF RequestEntry, RequestRecord, Entry
  <2> QED
    BY <1>5, <2>2 DEF ConfigWrite, EndRequest, TypeOK, Bound, Free
<1>6. ASSUME ConfigWriteFails(r) PROVE TypeOK'
  BY <1>6 DEF ConfigWriteFails, EndRequest, TypeOK, Bound, Free
<1> QED
  BY <1>1, <1>2, <1>3, <1>4, <1>5, <1>6 DEF ConfigStep

\* Every page keeps the types when it begins.
LEMMA AdminEditType ==
  ASSUME TypeOK, NEW a \in Admins, AdminEdit(a)
  PROVE  TypeOK'
<1>1. ASSUME NEW d \in Devices, NEW row,
             EditRow(a, d, row), Bound(d) => row \in Row PROVE TypeOK'
  BY <1>1, EditRowType
<1>2. ASSUME NEW d \in Devices, Approve(a, d) PROVE TypeOK'
  BY <1>1, <1>2, EntryTypes DEF Approve, Row
<1>3. ASSUME NEW d \in Devices, Suspend(a, d) PROVE TypeOK'
  BY <1>1, <1>3, EntryTypes DEF Suspend, Row
<1>4. ASSUME NEW d \in Devices, BindBranch(a, d) PROVE TypeOK'
  BY <1>1, <1>4, EntryTypes DEF BindBranch, Row
<1>5. ASSUME NEW d \in Devices, RemoveBranch(a, d) PROVE TypeOK'
  BY <1>1, <1>5, EntryTypes DEF RemoveBranch, Row
<1>6. ASSUME NEW d \in Devices, NEW e \in Employees, AssignEmployee(a, d, e) PROVE TypeOK'
  BY <1>1, <1>6, EntryTypes DEF AssignEmployee, Row, Anyone
<1>7. ASSUME NEW d \in Devices, SetActive(a, d) PROVE TypeOK'
  <2> DEFINE e == binding[d].employee
             record == IF e = NoEmployee THEN Invalidating({EntryOf(d)})
                       ELSE [st |-> "activating", todo |-> {EntryOf(d)}, rows |-> {d},
                             employee |-> e, keys |-> {}]
  <2>1. binding[d] \in Row /\ EntryOf(d) \in Entry /\ Bound(d)
    BY <1>7, EntryTypes DEF SetActive
  <2>2. \A o \in Devices : \A v \in BOOLEAN :
          Bound(o) => /\ [binding[o] EXCEPT !.isActive = v] \in Row
                      /\ [binding[o] EXCEPT !.isActive = v] # NoBinding
    BY EntryTypes DEF Row, NoBinding
  <2>3. /\ binding' \in [Devices -> Row \union {NoBinding}]
        /\ \A o \in Devices : Bound(o) => Bound(o)'
    BY <1>7, <2>2 DEF SetActive, TypeOK, DevicesOf, Bound
  <2>4. record \in AdminRecord \union {NoAdmin}
    <3>1. CASE e = NoEmployee
      BY <2>1, <3>1, InvalidatingType
    <3>2. CASE e # NoEmployee
      BY <2>1, <3>2 DEF AdminRecord, Row
    <3> QED BY <3>1, <3>2
  <2>5. record # NoAdmin => \A o \in record.rows : Bound(o)'
    <3>1. CASE e = NoEmployee
      BY <2>1, <3>1, InvalidatingType
    <3>2. CASE e # NoEmployee
      BY <2>1, <2>3, <3>2
    <3> QED BY <3>1, <3>2
  <2>6. Begin(a, record)
    BY <1>7 DEF SetActive
  <2> HIDE DEF record
  <2>7. /\ (admin \in [Admins -> AdminRecord \union {NoAdmin}])'
        /\ (\A b \in Admins : ~Free(b) => \A o \in admin[b].rows : Bound(o))'
        /\ (edits \in 0..MaxEdits)'
    BY <2>3, <2>4, <2>5, <2>6, BeginType
  <2> QED
    BY <1>7, <2>3, <2>7 DEF SetActive, TypeOK
<1>8. ASSUME NEW d \in Devices, UnbindStart(a, d) PROVE TypeOK'
  <2> DEFINE record == [st |-> "unbinding", todo |-> {EntryOf(d)}, rows |-> {d},
                        employee |-> NoEmployee, keys |-> {binding[d].key}]
  <2>1. Bound(d) /\ record \in AdminRecord /\ record.rows = {d}
    BY <1>8, EntryTypes DEF UnbindStart, AdminRecord, Row, Anyone
  <2>2. Begin(a, record) /\ UNCHANGED binding
    BY <1>8 DEF UnbindStart
  <2> HIDE DEF record
  <2>3. /\ (admin \in [Admins -> AdminRecord \union {NoAdmin}])'
        /\ (\A b \in Admins : ~Free(b) => \A o \in admin[b].rows : Bound(o))'
        /\ (edits \in 0..MaxEdits)'
    BY <2>1, <2>2, BeginType DEF Bound
  <2> QED
    BY <1>8, <2>3 DEF UnbindStart, TypeOK
<1>9. ASSUME NEW s \in Sites \union {"off"}, ChangeBranch(a, s) PROVE TypeOK'
  <2> DEFINE entries == EntriesOf({d \in Devices : Bound(d) /\ binding[d].branch})
  <2>1. entries \in SUBSET Entry
    BY EntryTypes
  <2>2. Begin(a, Invalidating(entries)) /\ UNCHANGED binding
    BY <1>9 DEF ChangeBranch
  <2> HIDE DEF entries
  <2>3. /\ (admin \in [Admins -> AdminRecord \union {NoAdmin}])'
        /\ (\A b \in Admins : ~Free(b) => \A o \in admin[b].rows : Bound(o))'
        /\ (edits \in 0..MaxEdits)'
    BY <2>1, <2>2, InvalidatingType, BeginType DEF Bound
  <2> QED
    BY <1>9, <2>3 DEF ChangeBranch, TypeOK
<1>10. ASSUME NEW e \in Employees, SoftDeleteStart(a, e) PROVE TypeOK'
  <2> DEFINE record == [st |-> "deleting", todo |-> EntriesOf(DevicesOf(e)),
                        rows |-> DevicesOf(e), employee |-> e, keys |-> {}]
  <2>1. record \in AdminRecord /\ record.rows = DevicesOf(e)
    BY EntryTypes DEF AdminRecord, Anyone, DevicesOf
  <2>2. Begin(a, record) /\ UNCHANGED binding
    BY <1>10 DEF SoftDeleteStart
  <2> HIDE DEF record
  <2>3. /\ (admin \in [Admins -> AdminRecord \union {NoAdmin}])'
        /\ (\A b \in Admins : ~Free(b) => \A o \in admin[b].rows : Bound(o))'
        /\ (edits \in 0..MaxEdits)'
    BY <2>1, <2>2, BeginType, EntryTypes DEF Bound
  <2> QED
    BY <1>10, <2>3 DEF SoftDeleteStart, TypeOK
<1> QED
  BY <1>2, <1>3, <1>4, <1>5, <1>6, <1>7, <1>8, <1>9, <1>10 DEF AdminEdit

\* So does every later step of a page.
LEMMA AdminStepType ==
  ASSUME TypeOK, NEW a \in Admins, AdminStep(a)
  PROVE  TypeOK'
<1> USE DEF Revoke
<1>1. ASSUME SetActiveOthers(a) PROVE TypeOK'
  <2> DEFINE entries == EntriesOf(DevicesOf(admin[a].employee) \ admin[a].rows)
  <2>1. entries \in SUBSET Entry
    BY EntryTypes
  <2>2. admin' = [admin EXCEPT ![a] = Invalidating(entries)] /\ UNCHANGED binding
    BY <1>1 DEF SetActiveOthers
  <2> HIDE DEF entries
  <2>3. /\ (admin \in [Admins -> AdminRecord \union {NoAdmin}])'
        /\ (\A b \in Admins : ~Free(b) => \A o \in admin[b].rows : Bound(o))'
    BY <2>1, <2>2, InvalidatingType DEF TypeOK, Free, Bound
  <2> QED
    BY <1>1, <2>3 DEF SetActiveOthers, TypeOK
<1>2. ASSUME NEW x \in Entry, Invalidate(a, x) PROVE TypeOK'
  BY <1>2, DoneType DEF Invalidate, Forget, Excuse, TypeOK
<1>3. ASSUME NEW x \in Entry, InvalidateFails(a, x) PROVE TypeOK'
  BY <1>3, DoneType DEF InvalidateFails, Excuse, TypeOK
<1>4. ASSUME UnbindFinish(a) PROVE TypeOK'
  <2>1. admin[a] \in AdminRecord /\ admin[a].rows \subseteq Devices /\ admin[a].keys \subseteq Keys
    BY <1>4 DEF UnbindFinish, In, TypeOK, Free, AdminRecord
  <2>2. \A d \in admin[a].rows : binding[d].key \in Keys
    BY <1>4, <2>1, EntryTypes DEF UnbindFinish, In, TypeOK, Row
  <2>3. released' \subseteq Keys /\ unbound' \subseteq Keys
    BY <1>4, <2>1, <2>2 DEF UnbindFinish, TypeOK
  <2>4. key' \in [Keys -> {"active", "revoked"}]
    BY <1>4 DEF UnbindFinish, RevokeUnused, TypeOK
  <2> QED
    BY <1>4, <2>1, <2>3, <2>4, DeleteRowsType DEF UnbindFinish, DeleteRows, TypeOK
<1>5. ASSUME SoftDeleteFinish(a) PROVE TypeOK'
  <2>1. admin[a] \in AdminRecord /\ admin[a].rows \subseteq Devices
    BY <1>5 DEF SoftDeleteFinish, In, TypeOK, Free, AdminRecord
  <2>2. \A d \in admin[a].rows : binding[d].key \in Keys
    BY <1>5, <2>1, EntryTypes DEF SoftDeleteFinish, In, TypeOK, Row
  <2>3. released' \subseteq Keys
    BY <1>5, <2>2 DEF SoftDeleteFinish, TypeOK
  <2> QED
    BY <1>5, <2>1, <2>3, DeleteRowsType DEF SoftDeleteFinish, DeleteRows, TypeOK
<1>6. ASSUME CrashInUnbind(a) PROVE TypeOK'
  <2>1. key' \in [Keys -> {"active", "revoked"}]
    BY <1>6 DEF CrashInUnbind, RevokeUnused, TypeOK
  <2> QED
    BY <1>6, <2>1, LoseRequestsType DEF CrashInUnbind, LoseRequests, TypeOK
<1> QED
  BY <1>1, <1>2, <1>3, <1>4, <1>5, <1>6 DEF AdminStep

\* Onboarding a device writes a row.
LEMMA OnboardType ==
  ASSUME TypeOK, NEW d \in Devices, NEW e \in Employees, NEW k \in Keys, Onboard(d, e, k)
  PROVE  TypeOK'
<1>1. /\ binding' \in [Devices -> Row \union {NoBinding}]
      /\ \A o \in Devices : Bound(o) => Bound(o)'
  BY OnboardedType DEF Onboard, TypeOK, Bound
<1>2. \A a \in Admins : ~Free(a) => admin[a].rows \subseteq Devices
  BY DEF TypeOK, Free, AdminRecord
<1>3. (\A a \in Admins : ~Free(a) => \A o \in admin[a].rows : Bound(o))'
  BY <1>1, <1>2 DEF Onboard, TypeOK, Free
<1>4. released' \subseteq Keys
  BY EntryTypes DEF Onboard, TypeOK, Row
<1>5. excused' \subseteq Entry
  BY DEF Onboard, Excuse, TypeOK, Entry
<1>6. edits' \in 0..MaxEdits
  BY RegistryParameters DEF Onboard, TypeOK
<1> QED
  BY <1>1, <1>3, <1>4, <1>5, <1>6 DEF Onboard, TypeOK

LEMMA TypeStep == TypeOK /\ [Next]_vars => TypeOK'
<1> SUFFICES ASSUME TypeOK, [Next]_vars PROVE TypeOK'
  OBVIOUS
<1>1. ASSUME NEW r \in Requests, ConfigStep(r) PROVE TypeOK'
  BY <1>1, ConfigStepType
<1>2. ASSUME NEW d \in Devices, NEW e \in Employees, NEW k \in Keys, Onboard(d, e, k)
      PROVE  TypeOK'
  BY <1>2, OnboardType
<1>3. ASSUME NEW a \in Admins, AdminEdit(a) PROVE TypeOK'
  BY <1>3, AdminEditType
<1>4. ASSUME NEW a \in Admins, AdminStep(a) PROVE TypeOK'
  BY <1>4, AdminStepType
<1>5. ASSUME NEW k \in Keys, RevokeKey(k) PROVE TypeOK'
  <2>1. key' \in [Keys -> {"active", "revoked"}] /\ edits' \in 0..MaxEdits
    BY <1>5, RegistryParameters DEF RevokeKey, Revoke, TypeOK
  <2> QED
    BY <1>5, <2>1 DEF RevokeKey, TypeOK, Bound, Free
<1>6. ASSUME NEW x \in Entry, CacheExpires(x) PROVE TypeOK'
  BY <1>6 DEF CacheExpires, Forget, Excuse, TypeOK, Bound, Free
<1>7. ASSUME ApiCrash PROVE TypeOK'
  BY <1>7, LoseRequestsType DEF ApiCrash, LoseRequests, TypeOK
<1>8. ASSUME UNCHANGED vars PROVE TypeOK'
  BY <1>8 DEF vars, TypeOK, Bound, Free
<1> QED
  BY <1>1, <1>2, <1>3, <1>4, <1>5, <1>6, <1>7, <1>8 DEF Next

\* Every variable of the registry keeps to its values: a page that deletes rows
\* leaves no other page with a row that is not there.
THEOREM RegistryTypeCorrect == Spec => []TypeOK
<1> QED
  BY InitType, TypeStep, PTL DEF Spec

------------------------------------------------------------------------------
(* The cached configurations. StaleIsExplained speaks of devices with a row; a row
   may come back for a device without one, so the invariant speaks of both. *)

Relevant(k, d) == Bound(d) => binding[d].key = k
Current(k, d)  == cache[<<k, d>>] \in {NoConfig, ConfigOf(binding[d], site)}
Covered(k, d)  == <<k, d>> \in excused \/ \E a \in Admins : <<k, d>> \in Pending(a)

\* Whatever is cached under the key a device's row has, or might get, is current,
\* excused or about to be invalidated.
EntriesAreExplained ==
  \A k \in Keys, d \in Devices : Relevant(k, d) => Current(k, d) \/ Covered(k, d)

\* When an entry is about to be invalidated.
LEMMA PendingMeans ==
  \A a \in Admins, k \in Keys, d \in Devices :
    <<k, d>> \in Pending(a) <=>
      /\ ~Free(a)
      /\ \/ <<k, d>> \in admin[a].todo
         \/ /\ admin[a].st = "activating" /\ d \notin admin[a].rows
            /\ Bound(d) /\ binding[d].employee = admin[a].employee /\ binding[d].key = k
BY DEF Pending, In, EntriesOf, EntryOf, DevicesOf

\* The same in the next state.
LEMMA PendingMeansNext ==
  \A a \in Admins, k \in Keys, d \in Devices :
    (<<k, d>> \in Pending(a))' <=>
      /\ ~Free(a)'
      /\ \/ <<k, d>> \in admin'[a].todo
         \/ /\ admin'[a].st = "activating" /\ d \notin admin'[a].rows
            /\ Bound(d)' /\ binding'[d].employee = admin'[a].employee /\ binding'[d].key = k
BY DEF Pending, In, EntriesOf, EntryOf, DevicesOf

\* A device without a row has no configuration.
LEMMA NoRowNoConfig == \A s : ConfigOf(NoBinding, s) = NoConfig
BY DEF ConfigOf

LEMMA InvalidatingTodo ==
  ASSUME NEW entries, NEW x \in entries
  PROVE  Invalidating(entries) # NoAdmin /\ Invalidating(entries).todo = entries
BY DEF Invalidating, NoAdmin

\* An entry stays covered as long as its row, its excuse and the requests that
\* are to invalidate it stay.
LEMMA CoveredStays ==
  ASSUME NEW k \in Keys, NEW d \in Devices, Covered(k, d),
         binding'[d] = binding[d],
         <<k, d>> \in excused => <<k, d>> \in excused',
         \A b \in Admins : <<k, d>> \in Pending(b) =>
            /\ ~Free(b)' /\ admin'[b].st = admin[b].st
            /\ admin'[b].todo = admin[b].todo /\ admin'[b].employee = admin[b].employee
            /\ admin'[b].rows \subseteq admin[b].rows
  PROVE  Covered(k, d)'
<1>1. CASE <<k, d>> \in excused
  BY <1>1 DEF Covered
<1>2. CASE \E a \in Admins : <<k, d>> \in Pending(a)
  <2>1. PICK a \in Admins : <<k, d>> \in Pending(a)
    BY <1>2
  <2>2. (<<k, d>> \in Pending(a))'
    BY <2>1, PendingMeans, PendingMeansNext DEF Bound
  <2> QED
    BY <2>2 DEF Covered
<1> QED
  BY <1>1, <1>2 DEF Covered

\* In particular where no page takes a step.
LEMMA CoveredStaysQuiet ==
  ASSUME NEW k \in Keys, NEW d \in Devices, Covered(k, d), UNCHANGED admin,
         binding'[d] = binding[d],
         <<k, d>> \in excused => <<k, d>> \in excused'
  PROVE  Covered(k, d)'
<1>1. \A b \in Admins : <<k, d>> \in Pending(b) => ~Free(b)
  BY PendingMeans
<1>2. \A b \in Admins : Free(b)' <=> Free(b)
  BY DEF Free
<1> QED
  BY <1>1, <1>2, CoveredStays

\* Where rows, branch and cache stay, so does the invariant, if what was covered is.
LEMMA EntriesStay ==
  ASSUME EntriesAreExplained, UNCHANGED <<binding, site, cache>>,
         \A k \in Keys, d \in Devices : Covered(k, d) => Current(k, d)' \/ Covered(k, d)'
  PROVE  EntriesAreExplained'
BY DEF EntriesAreExplained, Relevant, Current, Bound

LEMMA ConfigStepEntries ==
  ASSUME TypeOK, EntriesAreExplained, NEW r \in Requests, ConfigStep(r)
  PROVE  EntriesAreExplained'
<1>0. UNCHANGED admin
  BY DEF ConfigStep, ConfigStart, ConfigHit, ConfigRegister, ConfigCompute, ConfigWrite,
         ConfigWriteFails
<1>1. ASSUME UNCHANGED <<binding, site, cache, excused>> PROVE EntriesAreExplained'
  <2>1. \A k \in Keys, d \in Devices : Covered(k, d) => Covered(k, d)'
    BY <1>0, <1>1, CoveredStaysQuiet
  <2> QED
    BY <1>1, <2>1, EntriesStay
<1>2. ASSUME NEW e \in Anyone, ConfigRegister(r, e) PROVE EntriesAreExplained'
  <2> SUFFICES ASSUME NEW k \in Keys, NEW d \in Devices, Relevant(k, d)'
               PROVE  Current(k, d)' \/ Covered(k, d)'
    BY DEF EntriesAreExplained
  <2>1. UNCHANGED <<site, cache, excused>>
    BY <1>2 DEF ConfigRegister
  <2>2. CASE binding'[d] = binding[d]
    <3>1. Current(k, d) \/ Covered(k, d)
      BY <2>2 DEF EntriesAreExplained, Relevant, Bound
    <3>2. Covered(k, d) => Covered(k, d)'
      BY <1>0, <2>1, <2>2, CoveredStaysQuiet
    <3> QED
      BY <2>1, <2>2, <3>1, <3>2 DEF Current
  <2>3. CASE binding'[d] # binding[d]
    <3>1. ~Bound(d)
      BY <1>2, <2>3 DEF ConfigRegister, TypeOK
    <3>2. cache[<<k, d>>] = NoConfig \/ Covered(k, d)
      BY <3>1, NoRowNoConfig DEF EntriesAreExplained, Relevant, Current, Bound
    <3>3. ASSUME <<k, d>> \in excused PROVE Covered(k, d)'
      BY <2>1, <3>3 DEF Covered
    <3>4. ASSUME NEW a \in Admins, <<k, d>> \in Pending(a) PROVE Covered(k, d)'
      <4>1. (<<k, d>> \in Pending(a))'
        BY <1>0, <3>1, <3>4, PendingMeans, PendingMeansNext DEF Free
      <4> QED
        BY <4>1 DEF Covered
    <3> QED
      BY <2>1, <3>2, <3>3, <3>4 DEF Covered, Current
  <2> QED
    BY <2>2, <2>3
<1>3. ASSUME ConfigWrite(r) PROVE EntriesAreExplained'
  <2> SUFFICES ASSUME NEW k \in Keys, NEW d \in Devices, Relevant(k, d)'
               PROVE  Current(k, d)' \/ Covered(k, d)'
    BY DEF EntriesAreExplained
  <2>1. UNCHANGED <<binding, site>>
    BY <1>3 DEF ConfigWrite
  <2>2. request[r] \in RequestRecord
    BY <1>3 DEF ConfigWrite, Writing, TypeOK
  <2>3. RequestEntry(r) \in Entry
    BY <2>2 DEF RequestEntry, RequestRecord, Entry
  <2>4. CASE <<k, d>> = RequestEntry(r)
    <3>1. RequestEntry(r)[2] = d
      BY <2>4
    <3>2. cache'[<<k, d>>] = request[r].config
      BY <1>3, <2>3, <2>4 DEF ConfigWrite, TypeOK
    <3>3. CASE request[r].config = ConfigOf(binding[d], site)
      BY <2>1, <3>2, <3>3 DEF Current
    <3>4. CASE request[r].config # ConfigOf(binding[d], site)
      <4>1. <<k, d>> \in excused'
        BY <1>3, <2>4, <3>1, <3>4 DEF ConfigWrite
      <4> QED
        BY <4>1 DEF Covered
    <3> QED
      BY <3>3, <3>4
  <2>5. CASE <<k, d>> # RequestEntry(r)
    <3>1. cache'[<<k, d>>] = cache[<<k, d>>]
      BY <1>3, <2>5 DEF ConfigWrite, TypeOK, Entry
    <3>2. <<k, d>> \in excused => <<k, d>> \in excused'
      BY <1>3, <2>5 DEF ConfigWrite
    <3>3. Current(k, d) \/ Covered(k, d)
      BY <2>1 DEF EntriesAreExplained, Relevant, Bound
    <3>4. Covered(k, d) => Covered(k, d)'
      BY <1>0, <2>1, <3>2, CoveredStaysQuiet
    <3> QED
      BY <2>1, <3>1, <3>3, <3>4 DEF Current
  <2> QED
    BY <2>4, <2>5
<1> QED
  BY <1>1, <1>2, <1>3
  DEF ConfigStep, ConfigStart, ConfigHit, ConfigCompute, ConfigWriteFails

\* A page that has begun covers the entries it has to invalidate, and leaves those
\* of the other pages to them.
LEMMA BegunCovers ==
  ASSUME TypeOK, NEW a \in Admins, NEW record, record # NoAdmin, Begin(a, record)
  PROVE  /\ \A k \in Keys, d \in Devices :
              <<k, d>> \in record.todo => Covered(k, d)'
         /\ \A k \in Keys, d \in Devices :
              (/\ record.st = "activating" /\ d \notin record.rows
               /\ Bound(d)' /\ binding'[d].employee = record.employee
               /\ binding'[d].key = k)
              => Covered(k, d)'
<1>1. admin'[a] = record /\ ~Free(a)'
  BY DEF Begin, TypeOK, Free
<1> QED
  BY <1>1, PendingMeansNext DEF Covered

LEMMA BeginKeepsCovered ==
  ASSUME TypeOK, NEW a \in Admins, NEW record, Begin(a, record), UNCHANGED excused,
         NEW k \in Keys, NEW d \in Devices, Covered(k, d), binding'[d] = binding[d]
  PROVE  Covered(k, d)'
<1>1. \A b \in Admins : ~Free(b) => admin'[b] = admin[b]
  BY DEF Begin, TypeOK, Free
<1>2. \A b \in Admins : <<k, d>> \in Pending(b) => ~Free(b)
  BY PendingMeans
<1> QED
  BY <1>1, <1>2, CoveredStays DEF Free

\* A page that writes one row, and not its key, covers what is cached for it.
LEMMA EditRowEntries ==
  ASSUME TypeOK, EntriesAreExplained, NEW a \in Admins, NEW o \in Devices, NEW row,
         EditRow(a, o, row), row \in Row, row.key = binding[o].key
  PROVE  EntriesAreExplained'
<1> SUFFICES ASSUME NEW k \in Keys, NEW d \in Devices, Relevant(k, d)'
             PROVE  Current(k, d)' \/ Covered(k, d)'
  BY DEF EntriesAreExplained
<1>1. /\ UNCHANGED <<site, cache, excused>> /\ Bound(o)
      /\ Begin(a, Invalidating({EntryOf(o)}))
      /\ binding' = [binding EXCEPT ![o] = row]
  BY DEF EditRow
<1>2. CASE d = o
  <2>1. binding'[d] = row /\ row # NoBinding
    BY <1>1, <1>2 DEF TypeOK, Row, NoBinding
  <2>2. <<k, d>> \in {EntryOf(o)}
    BY <1>2, <2>1 DEF Relevant, Bound, EntryOf
  <2>3. Covered(k, d)'
    BY <1>1, <2>2, InvalidatingTodo, BegunCovers
  <2> QED
    BY <2>3
<1>3. CASE d # o
  <2>1. binding'[d] = binding[d]
    BY <1>1, <1>3 DEF TypeOK
  <2>2. Current(k, d) \/ Covered(k, d)
    BY <2>1 DEF EntriesAreExplained, Relevant, Bound
  <2>3. Covered(k, d) => Covered(k, d)'
    BY <1>1, <2>1, BeginKeepsCovered
  <2> QED
    BY <1>1, <2>1, <2>2, <2>3 DEF Current
<1> QED
  BY <1>2, <1>3

LEMMA AdminEditEntries ==
  ASSUME TypeOK, EntriesAreExplained, NEW a \in Admins, AdminEdit(a)
  PROVE  EntriesAreExplained'
<1>1. ASSUME NEW o \in Devices, NEW row, EditRow(a, o, row),
             Bound(o) => row \in Row /\ row.key = binding[o].key
      PROVE  EntriesAreExplained'
  <2>1. Bound(o)
    BY <1>1 DEF EditRow
  <2> QED
    BY <1>1, <2>1, EditRowEntries
<1>2. ASSUME NEW o \in Devices, Approve(a, o) PROVE EntriesAreExplained'
  BY <1>1, <1>2, EntryTypes DEF Approve, Row
<1>3. ASSUME NEW o \in Devices, Suspend(a, o) PROVE EntriesAreExplained'
  BY <1>1, <1>3, EntryTypes DEF Suspend, Row
<1>4. ASSUME NEW o \in Devices, BindBranch(a, o) PROVE EntriesAreExplained'
  BY <1>1, <1>4, EntryTypes DEF BindBranch, Row
<1>5. ASSUME NEW o \in Devices, RemoveBranch(a, o) PROVE EntriesAreExplained'
  BY <1>1, <1>5, EntryTypes DEF RemoveBranch, Row
<1>6. ASSUME NEW o \in Devices, NEW e \in Employees, AssignEmployee(a, o, e)
      PROVE  EntriesAreExplained'
  BY <1>1, <1>6, EntryTypes DEF AssignEmployee, Row, Anyone
<1>7. ASSUME NEW o \in Devices, SetActive(a, o) PROVE EntriesAreExplained'
  <2> SUFFICES ASSUME NEW k \in Keys, NEW d \in Devices, Relevant(k, d)'
               PROVE  Current(k, d)' \/ Covered(k, d)'
    BY DEF EntriesAreExplained
  <2> DEFINE e == binding[o].employee
             record == IF e = NoEmployee THEN Invalidating({EntryOf(o)})
                       ELSE [st |-> "activating", todo |-> {EntryOf(o)}, rows |-> {o},
                             employee |-> e, keys |-> {}]
  <2>1. /\ UNCHANGED <<site, cache, excused>> /\ Bound(o) /\ Begin(a, record)
        /\ binding[o] \in Row
    BY <1>7, EntryTypes DEF SetActive
  <2>2. record # NoAdmin /\ record.todo = {EntryOf(o)}
    <3>1. CASE e = NoEmployee
      BY <3>1, InvalidatingTodo
    <3>2. CASE e # NoEmployee
      BY <3>2 DEF NoAdmin
    <3> QED BY <3>1, <3>2
  <2>3. CASE d = o
    <3>1. binding'[d] = [binding[o] EXCEPT !.isActive = TRUE]
      BY <1>7, <2>3 DEF SetActive
    <3>2. binding'[d] # NoBinding /\ binding'[d].key = binding[o].key
      BY <2>1, <3>1 DEF Row, NoBinding
    <3>3. <<k, d>> \in record.todo
      BY <2>2, <2>3, <3>2 DEF Relevant, Bound, EntryOf
    <3> HIDE DEF record
    <3> QED
      BY <2>1, <2>2, <3>3, BegunCovers
  <2>4. CASE d # o /\ e # NoEmployee /\ d \in DevicesOf(e)
    <3>1. binding'[d] = [binding[d] EXCEPT !.isActive = FALSE]
      BY <1>7, <2>4 DEF SetActive
    <3>2. binding[d] \in Row /\ binding[d].employee = e
      BY <2>4, EntryTypes DEF DevicesOf
    <3>3. /\ binding'[d] # NoBinding
          /\ binding'[d].employee = e /\ binding'[d].key = binding[d].key
      BY <3>1, <3>2 DEF Row, NoBinding
    <3>4. record.st = "activating" /\ d \notin record.rows /\ record.employee = e
      BY <2>4
    <3>5. binding'[d].key = k
      BY <3>3 DEF Relevant, Bound
    <3>6. \/ <<k, d>> \in record.todo
          \/ /\ record.st = "activating" /\ d \notin record.rows
             /\ Bound(d)' /\ binding'[d].employee = record.employee
             /\ binding'[d].key = k
      BY <3>3, <3>4, <3>5 DEF Bound
    <3> HIDE DEF record
    <3> QED
      BY <2>1, <2>2, <3>6, BegunCovers
  <2>5. CASE d # o /\ ~(e # NoEmployee /\ d \in DevicesOf(e))
    <3>1. binding'[d] = binding[d]
      BY <1>7, <2>5 DEF SetActive
    <3>2. Current(k, d) \/ Covered(k, d)
      BY <3>1 DEF EntriesAreExplained, Relevant, Bound
    <3> HIDE DEF record
    <3>3. Covered(k, d) => Covered(k, d)'
      BY <2>1, <3>1, BeginKeepsCovered
    <3> QED
      BY <2>1, <3>1, <3>2, <3>3 DEF Current
  <2> QED
    BY <2>3, <2>4, <2>5
<1>8. ASSUME NEW record, Begin(a, record), UNCHANGED <<binding, site, cache, excused>>
      PROVE  EntriesAreExplained'
  <2>1. \A k \in Keys, d \in Devices : Covered(k, d) => Covered(k, d)'
    BY <1>8, BeginKeepsCovered
  <2> QED
    BY <1>8, <2>1, EntriesStay
<1>9. ASSUME NEW o \in Devices, UnbindStart(a, o) PROVE EntriesAreExplained'
  BY <1>8, <1>9 DEF UnbindStart
<1>10. ASSUME NEW e \in Employees, SoftDeleteStart(a, e) PROVE EntriesAreExplained'
  BY <1>8, <1>10 DEF SoftDeleteStart
<1>11. ASSUME NEW s \in Sites \union {"off"}, ChangeBranch(a, s) PROVE EntriesAreExplained'
  <2> SUFFICES ASSUME NEW k \in Keys, NEW d \in Devices, Relevant(k, d)'
               PROVE  Current(k, d)' \/ Covered(k, d)'
    BY DEF EntriesAreExplained
  <2> DEFINE entries == EntriesOf({o \in Devices : Bound(o) /\ binding[o].branch})
  <2>1. /\ UNCHANGED <<binding, cache, excused>>
        /\ Begin(a, Invalidating(entries))
    BY <1>11 DEF ChangeBranch
  <2>2. CASE Bound(d) /\ binding[d].branch
    <3>1. binding[d].key = k
      BY <2>1, <2>2 DEF Relevant, Bound
    <3>2. <<k, d>> \in entries
      BY <2>2, <3>1 DEF EntriesOf, EntryOf
    <3> HIDE DEF entries
    <3> QED
      BY <2>1, <3>2, InvalidatingTodo, BegunCovers
  <2>3. CASE ~(Bound(d) /\ binding[d].branch)
    <3>1. \A t : ConfigOf(binding[d], t) = NoConfig
      BY <2>3 DEF ConfigOf, Bound
    <3>2. Current(k, d) => Current(k, d)'
      BY <2>1, <3>1 DEF Current
    <3>3. Current(k, d) \/ Covered(k, d)
      BY <2>1 DEF EntriesAreExplained, Relevant, Bound
    <3> HIDE DEF entries
    <3>4. Covered(k, d) => Covered(k, d)'
      BY <2>1, BeginKeepsCovered
    <3> QED
      BY <3>2, <3>3, <3>4
  <2> QED
    BY <2>2, <2>3
<1> QED
  BY <1>2, <1>3, <1>4, <1>5, <1>6, <1>7, <1>9, <1>10, <1>11 DEF AdminEdit

\* An invalidation that is over leaves every other entry covered.
LEMMA DoneCovers ==
  ASSUME TypeOK, NEW a \in Admins, NEW x \in Entry, Done(a, x), ~Free(a), UNCHANGED binding,
         NEW k \in Keys, NEW d \in Devices, Covered(k, d), <<k, d>> # x,
         <<k, d>> \in excused => <<k, d>> \in excused'
  PROVE  Covered(k, d)'
<1>1. CASE <<k, d>> \in excused
  BY <1>1 DEF Covered
<1>2. ASSUME NEW b \in Admins, <<k, d>> \in Pending(b) PROVE Covered(k, d)'
  <2>1. CASE b # a
    <3>1. admin'[b] = admin[b] /\ (Free(b)' <=> Free(b))
      BY <2>1 DEF Done, TypeOK, Free
    <3>2. (<<k, d>> \in Pending(b))'
      BY <1>2, <3>1, PendingMeans, PendingMeansNext DEF Bound
    <3> QED
      BY <3>2 DEF Covered
  <2>2. CASE b = a /\ admin[a].st = "invalidating"
    <3>1. <<k, d>> \in admin[a].todo \ {x}
      BY <1>2, <2>2, PendingMeans
    <3>2. admin'[a] = Invalidating(admin[a].todo \ {x})
      BY <2>2 DEF Done, TypeOK
    <3>3. admin'[a] # NoAdmin /\ <<k, d>> \in admin'[a].todo
      BY <3>1, <3>2, InvalidatingTodo
    <3> QED
      BY <3>3, PendingMeansNext DEF Covered, Free
  <2>3. CASE b = a /\ admin[a].st # "invalidating"
    <3>1. admin[a] \in AdminRecord
      BY DEF TypeOK, Free
    <3>2. admin'[a] = [admin[a] EXCEPT !.todo = @ \ {x}]
      BY <2>3 DEF Done, TypeOK
    <3>3. /\ admin'[a].st = admin[a].st /\ admin'[a].rows = admin[a].rows
          /\ admin'[a].employee = admin[a].employee
          /\ admin'[a].todo = admin[a].todo \ {x} /\ admin'[a] # NoAdmin
      BY <3>1, <3>2 DEF AdminRecord, NoAdmin
    <3>4. (<<k, d>> \in Pending(a))'
      BY <1>2, <2>3, <3>3, PendingMeans, PendingMeansNext DEF Bound, Free
    <3> QED
      BY <3>4 DEF Covered
  <2> QED
    BY <2>1, <2>2, <2>3
<1> QED
  BY <1>1, <1>2 DEF Covered

\* Deleting rows excuses what is left of them and disturbs nothing else.
LEMMA DeleteRowsEntries ==
  ASSUME TypeOK, EntriesAreExplained, NEW a \in Admins, NEW ds \in SUBSET Devices,
         DeleteRows(a, ds), UNCHANGED site, Pending(a) = {}
  PROVE  EntriesAreExplained'
<1> SUFFICES ASSUME NEW k \in Keys, NEW d \in Devices, Relevant(k, d)'
             PROVE  Current(k, d)' \/ Covered(k, d)'
  BY DEF EntriesAreExplained
<1>1. <<k, d>> \in Entry /\ <<k, d>>[2] = d /\ UNCHANGED cache
  BY DEF Entry, DeleteRows
<1>2. CASE d \in ds
  <2>1. cache'[<<k, d>>] = NoConfig \/ <<k, d>> \in excused'
    BY <1>1, <1>2 DEF DeleteRows, Excuse
  <2> QED
    BY <2>1 DEF Current, Covered
<1>3. CASE d \notin ds
  <2>1. binding'[d] = binding[d]
    BY <1>3 DEF DeleteRows
  <2>2. Current(k, d) \/ Covered(k, d)
    BY <2>1 DEF EntriesAreExplained, Relevant, Bound
  <2>3. CASE <<k, d>> \in excused
    <3>1. cache'[<<k, d>>] = NoConfig \/ <<k, d>> \in excused'
      BY <1>1, <2>3 DEF DeleteRows, Excuse
    <3> QED
      BY <3>1 DEF Current, Covered
  <2>4. ASSUME NEW b \in Admins, <<k, d>> \in Pending(b) PROVE Covered(k, d)'
    <3>1. b # a /\ ~Free(b)
      BY <2>4, PendingMeans
    <3>2. admin[b] \in AdminRecord
      BY <3>1 DEF TypeOK, Free
    <3>3. admin'[b] = [admin[b] EXCEPT !.rows = @ \ ds]
      BY <3>1 DEF DeleteRows
    <3>4. /\ admin'[b].st = admin[b].st /\ admin'[b].rows \subseteq admin[b].rows
          /\ admin'[b].employee = admin[b].employee
          /\ admin'[b].todo = admin[b].todo /\ admin'[b] # NoAdmin
      BY <3>2, <3>3 DEF AdminRecord, NoAdmin
    <3>5. (<<k, d>> \in Pending(b))'
      BY <2>1, <2>4, <3>4, PendingMeans, PendingMeansNext DEF Bound, Free
    <3> QED
      BY <3>5 DEF Covered
  <2>5. Current(k, d) => Current(k, d)'
    BY <1>1, <2>1 DEF Current
  <2> QED
    BY <2>2, <2>3, <2>4, <2>5 DEF Covered
<1> QED
  BY <1>2, <1>3

\* A crash excuses what was about to be invalidated.
LEMMA LoseRequestsEntries ==
  ASSUME TypeOK, EntriesAreExplained, LoseRequests
  PROVE  EntriesAreExplained'
<1>1. ASSUME NEW k \in Keys, NEW d \in Devices, Covered(k, d)
      PROVE  Current(k, d)' \/ Covered(k, d)'
  <2>1. <<k, d>> \in excused \union UNION {Pending(a) : a \in Admins}
    BY <1>1 DEF Covered
  <2>2. cache'[<<k, d>>] = NoConfig \/ <<k, d>> \in excused'
    BY <2>1 DEF LoseRequests, Excuse
  <2> QED
    BY <2>2 DEF Current, Covered
<1> QED
  BY <1>1, EntriesStay DEF LoseRequests

LEMMA AdminStepEntries ==
  ASSUME TypeOK, EntriesAreExplained, NEW a \in Admins, AdminStep(a)
  PROVE  EntriesAreExplained'
<1>1. ASSUME SetActiveOthers(a) PROVE EntriesAreExplained'
  <2> DEFINE others == EntriesOf(DevicesOf(admin[a].employee) \ admin[a].rows)
  <2>1. /\ UNCHANGED <<binding, site, cache, excused>> /\ In(a, "activating")
        /\ admin[a].todo = {}
        /\ admin' = [admin EXCEPT ![a] = Invalidating(others)]
    BY <1>1 DEF SetActiveOthers
  <2>2. ASSUME NEW k \in Keys, NEW d \in Devices, Covered(k, d) PROVE Covered(k, d)'
    <3>1. CASE <<k, d>> \in excused
      BY <2>1, <3>1 DEF Covered
    <3>2. ASSUME NEW b \in Admins, b # a, <<k, d>> \in Pending(b) PROVE Covered(k, d)'
      <4>1. admin'[b] = admin[b]
        BY <2>1, <3>2 DEF TypeOK
      <4>2. (<<k, d>> \in Pending(b))'
        BY <2>1, <3>2, <4>1, PendingMeans, PendingMeansNext DEF Bound, Free
      <4> QED
        BY <4>2 DEF Covered
    <3>3. CASE <<k, d>> \in Pending(a)
      <4>1. <<k, d>> \in others
        BY <2>1, <3>3 DEF Pending, In
      <4>2. admin'[a] = Invalidating(others)
        BY <2>1 DEF TypeOK
      <4> HIDE DEF others
      <4>3. admin'[a] # NoAdmin /\ <<k, d>> \in admin'[a].todo
        BY <4>1, <4>2, InvalidatingTodo
      <4> QED
        BY <4>3, PendingMeansNext DEF Covered, Free
    <3> QED
      BY <2>2, <3>1, <3>2, <3>3 DEF Covered
  <2> QED
    BY <2>1, <2>2, EntriesStay
<1>2. ASSUME NEW x \in Entry, Invalidate(a, x) PROVE EntriesAreExplained'
  <2> SUFFICES ASSUME NEW k \in Keys, NEW d \in Devices, Relevant(k, d)'
               PROVE  Current(k, d)' \/ Covered(k, d)'
    BY DEF EntriesAreExplained
  <2>1. /\ UNCHANGED <<binding, site>> /\ Done(a, x) /\ ~Free(a) /\ <<k, d>> \in Entry
    BY <1>2 DEF Invalidate, Entry
  <2>2. CASE <<k, d>> = x
    BY <1>2, <2>1, <2>2 DEF Invalidate, Forget, Current
  <2>3. CASE <<k, d>> # x
    <3>1. cache'[<<k, d>>] = cache[<<k, d>>]
      BY <1>2, <2>1, <2>3 DEF Invalidate, Forget
    <3>2. Current(k, d) \/ Covered(k, d)
      BY <2>1 DEF EntriesAreExplained, Relevant, Bound
    <3>3. CASE Current(k, d)
      BY <2>1, <3>1, <3>3 DEF Current
    <3>4. CASE ~Current(k, d) /\ Covered(k, d)
      <4>1. <<k, d>> \in excused => <<k, d>> \in excused'
        BY <1>2, <3>1, <3>4 DEF Invalidate, Forget, Excuse, Current
      <4> QED
        BY <2>1, <2>3, <3>4, <4>1, DoneCovers
    <3> QED
      BY <3>2, <3>3, <3>4
  <2> QED
    BY <2>2, <2>3
<1>3. ASSUME NEW x \in Entry, InvalidateFails(a, x) PROVE EntriesAreExplained'
  <2>1. /\ UNCHANGED <<binding, site, cache>> /\ Done(a, x) /\ ~Free(a)
        /\ \A y \in excused \union {x} : cache'[y] = NoConfig \/ y \in excused'
    BY <1>3 DEF InvalidateFails, Excuse
  <2>2. ASSUME NEW k \in Keys, NEW d \in Devices, Covered(k, d)
        PROVE  Current(k, d)' \/ Covered(k, d)'
    <3>1. CASE <<k, d>> \in excused \union {x}
      BY <2>1, <3>1 DEF Current, Covered
    <3>2. CASE <<k, d>> \notin excused \union {x}
      BY <2>1, <2>2, <3>2, DoneCovers
    <3> QED
      BY <3>1, <3>2
  <2> QED
    BY <2>1, <2>2, EntriesStay
<1>4. ASSUME In(a, "unbinding") \/ In(a, "deleting"), admin[a].todo = {}, UNCHANGED site,
             DeleteRows(a, admin[a].rows)
      PROVE  EntriesAreExplained'
  <2>1. Pending(a) = {}
    BY <1>4 DEF Pending, In
  <2>2. admin[a].rows \in SUBSET Devices
    BY <1>4 DEF In, TypeOK, Free, AdminRecord
  <2> QED
    BY <1>4, <2>1, <2>2, DeleteRowsEntries
<1>5. ASSUME UnbindFinish(a) PROVE EntriesAreExplained'
  BY <1>4, <1>5 DEF UnbindFinish
<1>6. ASSUME SoftDeleteFinish(a) PROVE EntriesAreExplained'
  BY <1>4, <1>6 DEF SoftDeleteFinish
<1>7. ASSUME CrashInUnbind(a) PROVE EntriesAreExplained'
  BY <1>7, LoseRequestsEntries DEF CrashInUnbind
<1> QED
  BY <1>1, <1>2, <1>3, <1>5, <1>6, <1>7 DEF AdminStep

\* Onboarding invalidates nothing: what is cached for the device is excused.
LEMMA OnboardEntries ==
  ASSUME TypeOK, EntriesAreExplained, NEW o \in Devices, NEW e \in Employees,
         NEW key0 \in Keys, Onboard(o, e, key0)
  PROVE  EntriesAreExplained'
<1> SUFFICES ASSUME NEW k \in Keys, NEW d \in Devices, Relevant(k, d)'
             PROVE  Current(k, d)' \/ Covered(k, d)'
  BY DEF EntriesAreExplained
<1>1. /\ UNCHANGED <<site, cache, admin>>
      /\ binding' = [binding EXCEPT ![o] = Onboarded(e, key0)]
      /\ \A x \in excused \union (IF Bound(o) THEN {<<key0, o>>} ELSE {}) :
           cache'[x] = NoConfig \/ x \in excused'
  BY DEF Onboard, Excuse
<1>2. ASSUME <<k, d>> \in excused PROVE Current(k, d)' \/ Covered(k, d)'
  BY <1>1, <1>2 DEF Current, Covered
<1>3. CASE d # o
  <2>1. binding'[d] = binding[d]
    BY <1>1, <1>3 DEF TypeOK
  <2>2. Current(k, d) \/ Covered(k, d)
    BY <2>1 DEF EntriesAreExplained, Relevant, Bound
  <2>3. Covered(k, d) /\ <<k, d>> \notin excused => Covered(k, d)'
    BY <1>1, <2>1, CoveredStaysQuiet
  <2> QED
    BY <1>1, <1>2, <2>1, <2>2, <2>3 DEF Current
<1>4. CASE d = o /\ Bound(o)
  <2>1. binding'[d] = Onboarded(e, key0) /\ Onboarded(e, key0).key = key0
    BY <1>1, <1>4 DEF TypeOK, Onboarded
  <2>2. k = key0
    BY <2>1, OnboardedType DEF Relevant, Bound
  <2> QED
    BY <1>1, <1>4, <2>2 DEF Current, Covered
<1>5. CASE d = o /\ ~Bound(o)
  <2>1. cache[<<k, d>>] = NoConfig \/ Covered(k, d)
    BY <1>5, NoRowNoConfig DEF EntriesAreExplained, Relevant, Current, Bound
  <2>2. ASSUME NEW a \in Admins, <<k, d>> \in Pending(a) PROVE Covered(k, d)'
    <3>1. (<<k, d>> \in Pending(a))'
      BY <1>1, <1>5, <2>2, PendingMeans, PendingMeansNext DEF Free
    <3> QED
      BY <3>1 DEF Covered
  <2> QED
    BY <1>1, <1>2, <2>1, <2>2 DEF Covered, Current
<1> QED
  BY <1>3, <1>4, <1>5

LEMMA EntriesStep == TypeOK /\ EntriesAreExplained /\ [Next]_vars => EntriesAreExplained'
<1> SUFFICES ASSUME TypeOK, EntriesAreExplained, [Next]_vars PROVE EntriesAreExplained'
  OBVIOUS
<1>1. ASSUME NEW r \in Requests, ConfigStep(r) PROVE EntriesAreExplained'
  BY <1>1, ConfigStepEntries
<1>2. ASSUME NEW d \in Devices, NEW e \in Employees, NEW k \in Keys, Onboard(d, e, k)
      PROVE  EntriesAreExplained'
  BY <1>2, OnboardEntries
<1>3. ASSUME NEW a \in Admins, AdminEdit(a) PROVE EntriesAreExplained'
  BY <1>3, AdminEditEntries
<1>4. ASSUME NEW a \in Admins, AdminStep(a) PROVE EntriesAreExplained'
  BY <1>4, AdminStepEntries
<1>5. ASSUME UNCHANGED <<binding, site, cache, admin, excused>> PROVE EntriesAreExplained'
  <2>1. \A k \in Keys, d \in Devices : Covered(k, d) => Covered(k, d)'
    BY <1>5, CoveredStaysQuiet
  <2> QED
    BY <1>5, <2>1, EntriesStay
<1>6. ASSUME NEW x \in Entry, CacheExpires(x) PROVE EntriesAreExplained'
  <2> SUFFICES ASSUME NEW k \in Keys, NEW d \in Devices, Relevant(k, d)'
               PROVE  Current(k, d)' \/ Covered(k, d)'
    BY DEF EntriesAreExplained
  <2>1. UNCHANGED <<binding, site, admin>> /\ <<k, d>> \in Entry
    BY <1>6 DEF CacheExpires, Entry
  <2>2. cache'[<<k, d>>] = NoConfig \/ cache'[<<k, d>>] = cache[<<k, d>>]
    BY <1>6, <2>1 DEF CacheExpires, Forget
  <2>3. Current(k, d) \/ Covered(k, d)
    BY <2>1 DEF EntriesAreExplained, Relevant, Bound
  <2>4. cache'[<<k, d>>] = NoConfig \/ (<<k, d>> \in excused => <<k, d>> \in excused')
    BY <1>6 DEF CacheExpires, Forget, Excuse
  <2>5. CASE cache'[<<k, d>>] = NoConfig
    BY <2>5 DEF Current
  <2>6. CASE cache'[<<k, d>>] # NoConfig
    <3>1. Covered(k, d) => Covered(k, d)'
      BY <2>1, <2>4, <2>6, CoveredStaysQuiet
    <3> QED
      BY <2>1, <2>2, <2>3, <2>6, <3>1 DEF Current
  <2> QED
    BY <2>5, <2>6
<1>7. ASSUME ApiCrash PROVE EntriesAreExplained'
  BY <1>7, LoseRequestsEntries DEF ApiCrash
<1> QED
  BY <1>1, <1>2, <1>3, <1>4, <1>5, <1>6, <1>7 DEF Next, RevokeKey, vars

\* However pages, requests, onboardings, failures and crashes interleave: what is cached
\* for a device under the key of its row is what it would be answered now, or an
\* invalidation is under way, or one of the known gaps is the reason.
THEOREM StaleExplained == Spec => []StaleIsExplained
<1>1. Init => EntriesAreExplained
  <2> SUFFICES ASSUME Init, NEW k \in Keys, NEW d \in Devices PROVE Current(k, d)
    BY DEF EntriesAreExplained
  <2> QED
    BY DEF Init, Current, Entry
<1>2. TypeOK /\ EntriesAreExplained => StaleIsExplained
  <2> SUFFICES ASSUME TypeOK, EntriesAreExplained, NEW d \in Devices, Bound(d)
               PROVE  LET x == EntryOf(d) IN
                        \/ cache[x] \in {NoConfig, ConfigOf(binding[d], site)}
                        \/ x \in excused
                        \/ \E a \in Admins : x \in Pending(a)
    BY DEF StaleIsExplained
  <2>1. binding[d].key \in Keys
    BY EntryTypes DEF Row
  <2> QED
    BY <2>1 DEF EntriesAreExplained, Relevant, Current, Covered, EntryOf
<1> QED
  BY <1>1, <1>2, InitType, TypeStep, EntriesStep, PTL DEF Spec

------------------------------------------------------------------------------
(* The keys of unbound devices. *)

\* Keys are kept where no revocation is taken back and a row that loses its key, or
\* goes, releases it.
LEMMA KeysKept ==
  ASSUME UnboundKeyIsRevoked, unbound \subseteq Keys, unbound' = unbound,
         released \subseteq released',
         \A k \in Keys : key[k] = "revoked" => key'[k] = "revoked",
         \A d \in Devices : Bound(d) =>
           \/ Bound(d)' /\ binding'[d].key = binding[d].key
           \/ binding[d].key \in released'
  PROVE  UnboundKeyIsRevoked'
<1> SUFFICES ASSUME NEW k \in unbound
             PROVE  (key[k] = "revoked" \/ k \in released
                      \/ \E d \in Devices : Bound(d) /\ binding[d].key = k)'
  BY DEF UnboundKeyIsRevoked
<1>1. key[k] = "revoked" \/ k \in released \/ \E d \in Devices : Bound(d) /\ binding[d].key = k
  BY DEF UnboundKeyIsRevoked
<1>2. ASSUME NEW d \in Devices, Bound(d), binding[d].key = k
      PROVE  k \in released' \/ \E o \in Devices : Bound(o)' /\ binding'[o].key = k
  BY <1>2
<1> QED
  BY <1>1, <1>2

\* Where the keys of the rows stay.
LEMMA KeysQuiet ==
  ASSUME TypeOK, UnboundKeyIsRevoked, UNCHANGED <<key, unbound, released>>,
         \A d \in Devices : Bound(d) => Bound(d)' /\ binding'[d].key = binding[d].key
  PROVE  UnboundKeyIsRevoked'
BY KeysKept DEF TypeOK

\* unbind_device deletes its row only after its key was revoked or found in use.
LEMMA UnbindKeys ==
  ASSUME TypeOK, UnboundKeyIsRevoked, NEW a \in Admins, UnbindFinish(a)
  PROVE  UnboundKeyIsRevoked'
<1> DEFINE ds == admin[a].rows
<1>1. /\ \A d \in Devices : binding'[d] = IF d \in ds THEN NoBinding ELSE binding[d]
      /\ unbound' = unbound \union admin[a].keys
      /\ released' = released \union ({binding[d].key : d \in ds} \ admin[a].keys)
      /\ \A k \in Keys : key'[k] = IF k \in admin[a].keys /\ ~StillUsed(k, ds)
                                  THEN "revoked" ELSE key[k]
  BY DEF UnbindFinish, DeleteRows, RevokeUnused, Revoke
<1>2. unbound' \subseteq Keys
  BY AdminStepType DEF TypeOK, AdminStep
<1> SUFFICES ASSUME NEW k \in unbound'
             PROVE  (key[k] = "revoked" \/ k \in released
                      \/ \E d \in Devices : Bound(d) /\ binding[d].key = k)'
  BY DEF UnboundKeyIsRevoked
<1>3. CASE k \in admin[a].keys /\ ~StillUsed(k, ds)
  BY <1>1, <1>2, <1>3
<1>4. CASE k \in admin[a].keys /\ StillUsed(k, ds)
  <2>1. PICK o \in Devices \ ds : Bound(o) /\ binding[o].key = k
    BY <1>4 DEF StillUsed
  <2>2. binding'[o] = binding[o]
    BY <1>1, <2>1
  <2> QED
    BY <2>1, <2>2 DEF Bound
<1>5. CASE k \notin admin[a].keys
  <2>1. k \in unbound /\ key'[k] = key[k]
    BY <1>1, <1>2, <1>5
  <2>2. CASE key[k] = "revoked" \/ k \in released
    BY <1>1, <2>1, <2>2
  <2>3. ASSUME NEW d \in Devices, Bound(d), binding[d].key = k
        PROVE  k \in released' \/ (Bound(d)' /\ binding'[d].key = k)
    BY <1>1, <1>5, <2>3 DEF Bound
  <2> QED
    BY <2>1, <2>2, <2>3 DEF UnboundKeyIsRevoked
<1> QED
  BY <1>3, <1>4, <1>5

LEMMA KeysStep == TypeOK /\ UnboundKeyIsRevoked /\ [Next]_vars => UnboundKeyIsRevoked'
<1> SUFFICES ASSUME TypeOK, UnboundKeyIsRevoked, [Next]_vars PROVE UnboundKeyIsRevoked'
  OBVIOUS
<1>0. ASSUME UNCHANGED <<binding, key, unbound, released>> PROVE UnboundKeyIsRevoked'
  BY <1>0, KeysQuiet DEF Bound
<1>1. ASSUME NEW r \in Requests, ConfigStep(r) PROVE UnboundKeyIsRevoked'
  <2>1. UNCHANGED <<key, unbound, released>>
    BY <1>1 DEF ConfigStep, ConfigStart, ConfigHit, ConfigRegister, ConfigCompute,
                ConfigWrite, ConfigWriteFails
  <2>2. \A d \in Devices : Bound(d) => binding'[d] = binding[d]
    BY <1>1 DEF ConfigStep, ConfigStart, ConfigHit, ConfigRegister, ConfigCompute,
                ConfigWrite, ConfigWriteFails, TypeOK
  <2> QED
    BY <2>1, <2>2, KeysQuiet DEF Bound
<1>2. ASSUME NEW d \in Devices, NEW e \in Employees, NEW k \in Keys, Onboard(d, e, k)
      PROVE  UnboundKeyIsRevoked'
  <2>1. /\ UNCHANGED <<key, unbound>> /\ released \subseteq released'
        /\ binding' = [binding EXCEPT ![d] = Onboarded(e, k)]
        /\ Bound(d) => binding[d].key = k \/ binding[d].key \in released'
    BY <1>2 DEF Onboard
  <2>2. binding'[d] # NoBinding /\ binding'[d].key = k
    BY <2>1, OnboardedType DEF Onboarded, TypeOK
  <2>3. \A o \in Devices : Bound(o) =>
           \/ Bound(o)' /\ binding'[o].key = binding[o].key
           \/ binding[o].key \in released'
    BY <2>1, <2>2 DEF TypeOK, Bound
  <2> QED
    BY <2>1, <2>3, KeysKept DEF TypeOK
<1>3. ASSUME NEW a \in Admins, AdminEdit(a) PROVE UnboundKeyIsRevoked'
  <2>1. ASSUME NEW d \in Devices, NEW row, EditRow(a, d, row),
               Bound(d) => row \in Row /\ row.key = binding[d].key
        PROVE  UnboundKeyIsRevoked'
    <3>1. /\ UNCHANGED <<key, unbound, released>> /\ Bound(d)
          /\ binding' = [binding EXCEPT ![d] = row]
      BY <2>1 DEF EditRow
    <3>2. row # NoBinding
      BY <2>1, <3>1 DEF Row, NoBinding
    <3> QED
      BY <2>1, <3>1, <3>2, KeysQuiet DEF TypeOK, Bound
  <2>2. ASSUME NEW d \in Devices, Approve(a, d) PROVE UnboundKeyIsRevoked'
    BY <2>1, <2>2, EntryTypes DEF Approve, Row
  <2>3. ASSUME NEW d \in Devices, Suspend(a, d) PROVE UnboundKeyIsRevoked'
    BY <2>1, <2>3, EntryTypes DEF Suspend, Row
  <2>4. ASSUME NEW d \in Devices, BindBranch(a, d) PROVE UnboundKeyIsRevoked'
    BY <2>1, <2>4, EntryTypes DEF BindBranch, Row
  <2>5. ASSUME NEW d \in Devices, RemoveBranch(a, d) PROVE UnboundKeyIsRevoked'
    BY <2>1, <2>5, EntryTypes DEF RemoveBranch, Row
  <2>6. ASSUME NEW d \in Devices, NEW e \in Employees, AssignEmployee(a, d, e)
        PROVE  UnboundKeyIsRevoked'
    BY <2>1, <2>6, EntryTypes DEF AssignEmployee, Row, Anyone
  <2>7. ASSUME NEW d \in Devices, SetActive(a, d) PROVE UnboundKeyIsRevoked'
    <3>1. \A o \in Devices : \A v \in BOOLEAN :
            Bound(o) => /\ [binding[o] EXCEPT !.isActive = v].key = binding[o].key
                        /\ [binding[o] EXCEPT !.isActive = v] # NoBinding
      BY EntryTypes DEF Row, NoBinding
    <3>2. \A o \in Devices : Bound(o) => Bound(o)' /\ binding'[o].key = binding[o].key
      BY <2>7, <3>1 DEF SetActive, Bound
    <3> QED
      BY <2>7, <3>2, KeysQuiet DEF SetActive
  <2>8. ASSUME NEW d \in Devices, UnbindStart(a, d) PROVE UnboundKeyIsRevoked'
    BY <1>0, <2>8 DEF UnbindStart
  <2>9. ASSUME NEW t \in Sites \union {"off"}, ChangeBranch(a, t) PROVE UnboundKeyIsRevoked'
    BY <1>0, <2>9 DEF ChangeBranch
  <2>10. ASSUME NEW e \in Employees, SoftDeleteStart(a, e) PROVE UnboundKeyIsRevoked'
    BY <1>0, <2>10 DEF SoftDeleteStart
  <2> QED
    BY <1>3, <2>2, <2>3, <2>4, <2>5, <2>6, <2>7, <2>8, <2>9, <2>10 DEF AdminEdit
<1>4. ASSUME NEW a \in Admins, AdminStep(a) PROVE UnboundKeyIsRevoked'
  <2>1. ASSUME SoftDeleteFinish(a) PROVE UnboundKeyIsRevoked'
    <3>1. \A d \in Devices : Bound(d) =>
            \/ Bound(d)' /\ binding'[d].key = binding[d].key
            \/ binding[d].key \in released'
      BY <2>1 DEF SoftDeleteFinish, DeleteRows, Bound
    <3> QED
      BY <2>1, <3>1, KeysKept DEF SoftDeleteFinish, TypeOK
  <2>2. ASSUME CrashInUnbind(a) PROVE UnboundKeyIsRevoked'
    <3>1. \A k \in Keys : key[k] = "revoked" => key'[k] = "revoked"
      BY <2>2 DEF CrashInUnbind, RevokeUnused, Revoke
    <3> QED
      BY <2>2, <3>1, KeysKept DEF CrashInUnbind, LoseRequests, TypeOK, Bound
  <2>3. ASSUME UnbindFinish(a) PROVE UnboundKeyIsRevoked'
    BY <2>3, UnbindKeys
  <2> QED
    BY <1>0, <1>4, <2>1, <2>2, <2>3 DEF AdminStep, SetActiveOthers, Invalidate, InvalidateFails
<1>5. ASSUME NEW k \in Keys, RevokeKey(k) PROVE UnboundKeyIsRevoked'
  <2>1. \A q \in Keys : key[q] = "revoked" => key'[q] = "revoked"
    BY <1>5 DEF RevokeKey, Revoke
  <2> QED
    BY <1>5, <2>1, KeysKept DEF RevokeKey, TypeOK, Bound
<1> QED
  BY <1>0, <1>1, <1>2, <1>3, <1>4, <1>5
  DEF Next, CacheExpires, ApiCrash, LoseRequests, vars

\* Unbinding a device leaves no key that works and that no row has, apart from those
\* an onboarding or a soft deletion has taken off a row.
THEOREM UnboundKeyRevoked == Spec => []UnboundKeyIsRevoked
<1>1. Init => UnboundKeyIsRevoked
  BY DEF Init, UnboundKeyIsRevoked
<1> QED
  BY <1>1, InitType, TypeStep, KeysStep, PTL DEF Spec
------------------------------------------------------------------------------
(* Devices that are not served. *)

\* What get_device_config answers the device now is not cached: it has no row, waits
\* for its approval, is suspended or switched off, or has no active branch.
Unserved(d) == ConfigOf(binding[d], site) = NoConfig

\* The requests that have computed a configuration of the device and not written it.
WritersOf(d) == {r \in Requests : Writing(r) /\ request[r].dev = d /\ request[r].config # NoConfig}

\* A step caches nothing for the device unless it uses up one of these requests, and
\* adds none to them.
Drains(d) ==
  /\ WritersOf(d)' \subseteq WritersOf(d)
  /\ (\E k \in Keys : cache[<<k, d>>] = NoConfig /\ cache'[<<k, d>>] # NoConfig)
       => WritersOf(d)' # WritersOf(d)

\* A suspended device is not served.
LEMMA SuspendedIsUnserved ==
  \A d \in Devices : Bound(d) /\ binding[d].status = "suspended" => Unserved(d)
BY DEF Unserved, ConfigOf, Counted

\* The steps that neither fill the cache nor begin a write.
LEMMA DrainsQuiet ==
  ASSUME TypeOK, NEW d \in Devices,
         \A x \in Entry : cache'[x] \in {cache[x], NoConfig},
         \A r \in Requests : Writing(r)' => request'[r] = request[r]
  PROVE  Drains(d)
<1>1. WritersOf(d)' \subseteq WritersOf(d)
  BY DEF WritersOf, Writing
<1>2. \A k \in Keys : <<k, d>> \in Entry
  BY DEF Entry
<1> QED BY <1>1, <1>2 DEF Drains

LEMMA DrainsStep ==
  TypeOK /\ [Next]_vars => [\A d \in Devices : Unserved(d) => Drains(d)]_vars
<1> SUFFICES ASSUME TypeOK, Next, NEW d \in Devices, Unserved(d)
             PROVE  Drains(d)
  OBVIOUS
<1>1. ASSUME NEW r \in Requests, NEW o \in Devices, NEW k \in Keys, ConfigStart(r, o, k)
      PROVE  Drains(d)
  <2>1. ~Writing(r)' /\ cache' = cache /\ \A q \in Requests : q # r => request'[q] = request[q]
    BY <1>1 DEF ConfigStart, Writing, TypeOK
  <2> QED BY <2>1, DrainsQuiet DEF Writing
<1>2. ASSUME NEW r \in Requests,
             ConfigHit(r) \/ ConfigWriteFails(r) \/ \E e \in Anyone : ConfigRegister(r, e)
      PROVE  Drains(d)
  <2>1. cache' = cache /\ request' = [request EXCEPT ![r] = NoRequest]
    BY <1>2 DEF ConfigHit, ConfigWriteFails, ConfigRegister, EndRequest
  <2>2. ~Writing(r)' /\ \A q \in Requests : q # r => request'[q] = request[q]
    BY <2>1 DEF Writing, TypeOK
  <2> QED BY <2>1, <2>2, DrainsQuiet DEF Writing
<1>3. ASSUME NEW r \in Requests, ConfigCompute(r) PROVE Drains(d)
  <2>1. cache' = cache /\ \A q \in Requests : q # r => request'[q] = request[q]
    BY <1>3 DEF ConfigCompute, EndRequest, TypeOK
  <2>2. r \notin WritersOf(d)'
    BY <1>3 DEF ConfigCompute, EndRequest, TypeOK, WritersOf, Writing, Looking, RequestRecord,
                Unserved
  <2>3. WritersOf(d)' \subseteq WritersOf(d)
    BY <2>1, <2>2 DEF WritersOf, Writing
  <2> QED BY <2>1, <2>3 DEF Drains
<1>4. ASSUME NEW r \in Requests, ConfigWrite(r) PROVE Drains(d)
  <2>1. /\ request' = [request EXCEPT ![r] = NoRequest] /\ Writing(r)
        /\ cache' = [cache EXCEPT ![RequestEntry(r)] = request[r].config]
    BY <1>4 DEF ConfigWrite, EndRequest
  <2>2. ~Writing(r)' /\ \A q \in Requests : q # r => request'[q] = request[q]
    BY <2>1 DEF Writing, TypeOK
  <2>3. WritersOf(d)' = WritersOf(d) \ {r}
    BY <2>2 DEF WritersOf, Writing
  <2>4. ASSUME NEW k \in Keys, cache[<<k, d>>] = NoConfig, cache'[<<k, d>>] # NoConfig
        PROVE  r \in WritersOf(d)
    <3>1. <<k, d>> \in Entry
      BY DEF Entry
    <3>2. <<k, d>> = RequestEntry(r) /\ request[r].config # NoConfig
      BY <2>1, <2>4, <3>1 DEF TypeOK
    <3> QED BY <2>1, <3>2 DEF RequestEntry, WritersOf
  <2> QED BY <2>3, <2>4 DEF Drains
<1>5. ASSUME UNCHANGED request, \A x \in Entry : cache'[x] \in {cache[x], NoConfig}
      PROVE  Drains(d)
  BY <1>5, DrainsQuiet
<1>6. ASSUME NEW o \in Devices, NEW e \in Employees, NEW k \in Keys, Onboard(o, e, k)
      PROVE  Drains(d)
  BY <1>5, <1>6 DEF Onboard
<1>7. ASSUME NEW a \in Admins, AdminEdit(a) PROVE Drains(d)
  <2>1. UNCHANGED <<request, cache>>
    BY <1>7 DEF AdminEdit, Approve, Suspend, BindBranch, RemoveBranch, AssignEmployee, EditRow,
                SetActive, UnbindStart, ChangeBranch, SoftDeleteStart
  <2> QED BY <1>5, <2>1
<1>8. ASSUME NEW a \in Admins,
             \/ SetActiveOthers(a) \/ UnbindFinish(a) \/ SoftDeleteFinish(a)
             \/ \E x \in Entry : InvalidateFails(a, x)
      PROVE  Drains(d)
  <2>1. UNCHANGED <<request, cache>>
    BY <1>8 DEF SetActiveOthers, UnbindFinish, SoftDeleteFinish, DeleteRows, InvalidateFails
  <2> QED BY <1>5, <2>1
<1>9. ASSUME NEW x \in Entry, CacheExpires(x) \/ \E a \in Admins : Invalidate(a, x)
      PROVE  Drains(d)
  <2>1. request' = request /\ \A y \in Entry : cache'[y] \in {cache[y], NoConfig}
    BY <1>9 DEF CacheExpires, Invalidate, Forget
  <2> QED BY <1>5, <2>1
<1>10. CASE ApiCrash \/ \E a \in Admins : CrashInUnbind(a)
  <2>1. cache' = cache /\ \A r \in Requests : request'[r] = NoRequest
    BY <1>10 DEF ApiCrash, CrashInUnbind, LoseRequests
  <2> QED BY <2>1, DrainsQuiet DEF Writing
<1>11. ASSUME NEW k \in Keys, RevokeKey(k) PROVE Drains(d)
  BY <1>5, <1>11 DEF RevokeKey
<1> QED
  BY <1>1, <1>2, <1>3, <1>4, <1>6, <1>7, <1>8, <1>9, <1>10, <1>11
  DEF Next, ConfigStep, AdminStep

\* The part of SuspensionTakesEffect that is about steps. A device that is suspended (or
\* otherwise not served) gets a cached configuration only from one of the requests that
\* had computed it before, and no request joins them: while it stays suspended that can
\* happen as often as they are, and entries expire.
THEOREM UnservedOnlyDrains ==
  Spec => [][\A d \in Devices : Unserved(d) => Drains(d)]_vars
<1>1. TypeOK /\ [Next]_vars => [\A d \in Devices : Unserved(d) => Drains(d)]_vars
  BY DrainsStep
<1> QED BY <1>1, InitType, TypeStep, PTL DEF Spec
=============================================================================
