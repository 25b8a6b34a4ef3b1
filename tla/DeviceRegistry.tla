---------------------------- MODULE DeviceRegistry ----------------------------
(***************************************************************************)
(* The devices of the employees: their rows in device_bindings, the API    *)
(* keys they use and the configurations cached for them in Redis.          *)
(*                                                                         *)
(* A device fetches its configuration (get_device_config, which registers  *)
(* an unknown device) or is onboarded by a QR code (onboard_device). The   *)
(* admin pages (admin/devices.py, admin/branches.py, admin/security.py,    *)
(* soft_delete_employee) change rows and branches and invalidate what is   *)
(* cached. All of them run on the loop of the API process: what lies       *)
(* between two awaits, Redis calls all of them, is one step.               *)
(*                                                                         *)
(* One branch stands for the branches a device may be assigned to. Of a    *)
(* configuration the model keeps the employee and what the branch shows;   *)
(* the status "approved" stands for "active" too, which no code tells      *)
(* apart.                                                                  *)
(***************************************************************************)
EXTENDS Naturals, FiniteSets

CONSTANTS
  Devices,    \* device_uuid values
  Employees,  \* employee_id values
  NoEmployee, \* employee_id of a binding nobody is assigned to
  Keys,       \* rows of api_keys
  Sites,      \* what the active branch may show: its place, radius, checkpoints
  Requests,   \* get_device_config requests that may be under way at once
  Admins,     \* admin requests that may be under way at once
  MaxDevices, \* max_devices_per_employee
  MaxEdits    \* bound on admin requests and onboardings, for TLC

ASSUME RegistryParameters ==
  /\ "off" \notin Sites
  /\ NoEmployee \notin Employees
  /\ MaxDevices \in Nat /\ MaxEdits \in Nat

VARIABLES
  binding,  \* [Devices -> a row of device_bindings, or NoBinding]
  key,      \* [Keys -> "active" or "revoked"]
  site,     \* what the branch shows, or "off" while it is inactive
  cache,    \* [Keys \X Devices -> a cached configuration, or NoConfig]
  request,  \* [Requests -> a get_device_config request]
  admin,    \* [Admins -> an admin request between its awaits]
  excused,  \* cached configurations the code cannot keep current (history)
  unbound,  \* keys of the rows an admin has unbound (history)
  released, \* keys taken off a row in another way (history)
  edits     \* admin requests and onboardings so far

vars == <<binding, key, site, cache, request, admin, excused, unbound, released, edits>>

------------------------------------------------------------------------------
(* Rows, configurations, requests *)

Anyone == Employees \union {NoEmployee}
Row == [employee : Anyone, status : {"pending_approval", "approved", "suspended"},
        isActive : BOOLEAN, key : Keys, branch : BOOLEAN]
NoBinding == [status |-> "none"]
Bound(d)  == binding[d] # NoBinding
Entry == Keys \X Devices

\* The row of a device that was onboarded by a token.
Onboarded(e, k) ==
  [employee |-> e, status |-> "approved", isActive |-> TRUE, key |-> k, branch |-> TRUE]

\* Mutant: a suspended device is still served.
CountedUnlessPending(b) == b.status # "pending_approval" /\ b.isActive

\* The devices that count against the maximum, and may punch.
Counted(b) == b.status = "approved" /\ b.isActive
DevicesOf(e) == {d \in Devices : Bound(d) /\ binding[d].employee = e}
CountOf(e)   == Cardinality({d \in DevicesOf(e) : Counted(binding[d])})

\* The response of get_device_config that is cached: only a complete one is.
Config == [employee : Anyone, site : Sites]
NoConfig == [employee |-> NoEmployee, site |-> "off"]
ConfigOf(b, s) ==
  IF b # NoBinding /\ Counted(b) /\ b.branch /\ s # "off"
  THEN [employee |-> b.employee, site |-> s] ELSE NoConfig

NoRequest == [st |-> "idle"]
RequestRecord == [st : {"lookup", "writing"}, dev : Devices, key : Keys,
                  config : Config \union {NoConfig}]

\* An admin request under way: the cache entries it has yet to invalidate, and what
\* it read before its await and uses after it. Each handler of admin/ runs up to its
\* first await in the step that begins it.
NoAdmin == [st |-> "idle"]
AdminRecord == [st : {"invalidating", "activating", "unbinding", "deleting"},
                todo : SUBSET Entry, rows : SUBSET Devices,
                employee : Anyone, keys : SUBSET Keys]
Free(a) == admin[a] = NoAdmin
In(a, st) == ~Free(a) /\ admin[a].st = st

EntryOf(d) == <<binding[d].key, d>>
EntriesOf(ds) == {EntryOf(d) : d \in ds}
\* Nothing but the invalidations is left to do.
Invalidating(entries) ==
  IF entries = {} THEN NoAdmin
  ELSE [st |-> "invalidating", todo |-> entries, rows |-> {},
        employee |-> NoEmployee, keys |-> {}]

\* The entries an admin request is still to invalidate: those it knows, and those
\* set_active_device has not queried yet.
Pending(a) ==
  IF Free(a) THEN {}
  ELSE admin[a].todo \union
       (IF In(a, "activating")
        THEN EntriesOf(DevicesOf(admin[a].employee) \ admin[a].rows) ELSE {})

\* No employee has more devices that may punch than the maximum, as the API starts.
LimitHolds == \A e \in Employees : CountOf(e) <= MaxDevices

\* The API is started: some devices have been onboarded, nothing is cached.
Init ==
  /\ binding \in [Devices -> {NoBinding} \union {Onboarded(e, k) : e \in Employees, k \in Keys}]
  /\ LimitHolds
  /\ key = [k \in Keys |-> "active"]
  /\ site \in Sites
  /\ cache = [x \in Entry |-> NoConfig]
  /\ request = [r \in Requests |-> NoRequest]
  /\ admin = [a \in Admins |-> NoAdmin]
  /\ excused = {} /\ unbound = {} /\ released = {}
  /\ edits = 0

\* A cached configuration is excused once one of the gaps in the code has hit it,
\* until it is gone. (To be used after cache'.)
Excuse(entries) == excused' = {x \in excused \union entries : cache'[x] # NoConfig}
Forget(entries) ==
  /\ cache' = [x \in Entry |-> IF x \in entries THEN NoConfig ELSE cache[x]]
  /\ Excuse({})

------------------------------------------------------------------------------
(* get_device_config *)

\* verify_api_key, then the await of get_cache. The device sends the key it has,
\* which need not be the one in its row.
ConfigStart(r, d, k) ==
  /\ request[r] = NoRequest
  /\ key[k] = "active"
  /\ request' = [request EXCEPT ![r] = [st |-> "lookup", dev |-> d, key |-> k,
                                        config |-> NoConfig]]
  /\ UNCHANGED <<binding, key, site, cache, admin, excused, unbound, released, edits>>

RequestEntry(r) == <<request[r].key, request[r].dev>>
Looking(r) == request[r] # NoRequest /\ request[r].st = "lookup"
Writing(r) == request[r] # NoRequest /\ request[r].st = "writing"
EndRequest(r) == request' = [request EXCEPT ![r] = NoRequest]

ConfigHit(r) ==
  /\ Looking(r) /\ cache[RequestEntry(r)] # NoConfig
  /\ EndRequest(r)
  /\ UNCHANGED <<binding, key, site, cache, admin, excused, unbound, released, edits>>

\* An unknown device is registered, unless the employee it names has all their
\* devices. It is answered "pending_approval" or "max_devices_reached".
ConfigRegister(r, e) ==
  LET d == request[r].dev IN
  /\ Looking(r) /\ ~Bound(d)
  /\ IF e # NoEmployee /\ CountOf(e) >= MaxDevices
     THEN UNCHANGED binding
     ELSE binding' = [binding EXCEPT ![d] =
            [employee |-> e, status |-> "pending_approval", isActive |-> TRUE,
             key |-> request[r].key, branch |-> FALSE]]
  /\ EndRequest(r)
  /\ UNCHANGED <<key, site, cache, admin, excused, unbound, released, edits>>

\* What lies between the two awaits for a known device. get_cache answers None when
\* Redis fails, so that this may follow although something is cached.
ConfigCompute(r) ==
  LET c == ConfigOf(binding[request[r].dev], site) IN
  /\ Looking(r) /\ Bound(request[r].dev)
  /\ IF c = NoConfig THEN EndRequest(r)
     ELSE request' = [request EXCEPT ![r].st = "writing", ![r].config = c]
  /\ UNCHANGED <<binding, key, site, cache, admin, excused, unbound, released, edits>>

\* set_cache. What it writes is excused if the row or the branch has changed since.
ConfigWrite(r) ==
  LET x == RequestEntry(r)
      c == request[r].config
  IN /\ Writing(r)
     /\ cache' = [cache EXCEPT ![x] = c]
     /\ excused' = IF c = ConfigOf(binding[x[2]], site)
                   THEN excused \ {x} ELSE excused \union {x}
     /\ EndRequest(r)
     /\ UNCHANGED <<binding, key, site, admin, unbound, released, edits>>

\* Redis fails, which set_cache swallows.
ConfigWriteFails(r) ==
  /\ Writing(r)
  /\ EndRequest(r)
  /\ UNCHANGED <<binding, key, site, cache, admin, excused, unbound, released, edits>>

\* The five minutes of a cached configuration are over.
CacheExpires(x) ==
  /\ cache[x] # NoConfig
  /\ Forget({x})
  /\ UNCHANGED <<binding, key, site, request, admin, unbound, released, edits>>

------------------------------------------------------------------------------
(* onboard_device: the token names an employee, a branch and a key, which may have
   been revoked since it was made. Only a device without a row is counted, and
   nothing is invalidated. The broadcast in it never comes to its await: it names a
   variable that is not assigned yet, and the exception is swallowed. *)

Onboard(d, e, k) ==
  /\ edits < MaxEdits /\ edits' = edits + 1
  /\ Bound(d) \/ CountOf(e) < MaxDevices
  /\ binding' = [binding EXCEPT ![d] = Onboarded(e, k)]
  /\ released' = released \union
                 (IF Bound(d) THEN {binding[d].key} \ {k} ELSE {})
  /\ UNCHANGED cache
  /\ Excuse(IF Bound(d) THEN {<<k, d>>} ELSE {})
  /\ UNCHANGED <<key, site, request, admin, unbound>>

------------------------------------------------------------------------------
(* The admin pages *)

Begin(a, record) ==
  /\ Free(a) /\ edits < MaxEdits
  /\ admin' = [admin EXCEPT ![a] = record]
  /\ edits' = edits + 1

\* A page that changes one row, commits, and invalidates what is cached for it.
EditRow(a, d, row) ==
  /\ Bound(d)
  /\ Begin(a, Invalidating({EntryOf(d)}))
  /\ binding' = [binding EXCEPT ![d] = row]
  /\ UNCHANGED <<key, site, cache, request, excused, unbound, released>>

\* approve_device looks neither at the former status nor at the maximum.
Approve(a, d)      == EditRow(a, d, [binding[d] EXCEPT !.status = "approved"])
Suspend(a, d)      == EditRow(a, d, [binding[d] EXCEPT !.status = "suspended"])
BindBranch(a, d)   == EditRow(a, d, [binding[d] EXCEPT !.branch = TRUE])
RemoveBranch(a, d) == EditRow(a, d, [binding[d] EXCEPT !.branch = FALSE])

AssignEmployee(a, d, e) ==
  /\ CountOf(e) < MaxDevices
  /\ EditRow(a, d, [binding[d] EXCEPT !.employee = e, !.isActive = TRUE])

\* set_active_device switches off the other devices of the employee. It invalidates
\* the device's own configuration first and queries the others after that.
SetActive(a, d) ==
  LET e == binding[d].employee IN
  /\ Bound(d)
  /\ Begin(a, IF e = NoEmployee THEN Invalidating({EntryOf(d)})
              ELSE [st |-> "activating", todo |-> {EntryOf(d)}, rows |-> {d},
                    employee |-> e, keys |-> {}])
  /\ binding' = [o \in Devices |->
       IF o = d THEN [binding[d] EXCEPT !.isActive = TRUE]
       ELSE IF e # NoEmployee /\ o \in DevicesOf(e)
            THEN [binding[o] EXCEPT !.isActive = FALSE] ELSE binding[o]]
  /\ UNCHANGED <<key, site, cache, request, excused, unbound, released>>

\* Mutant: only the device itself is invalidated.
SetActiveForgetsOthers(a) ==
  /\ In(a, "activating") /\ admin[a].todo = {}
  /\ admin' = [admin EXCEPT ![a] = NoAdmin]
  /\ UNCHANGED <<binding, key, site, cache, request, excused, unbound, released, edits>>

SetActiveOthers(a) ==
  /\ In(a, "activating") /\ admin[a].todo = {}
  /\ admin' = [admin EXCEPT ![a] =
       Invalidating(EntriesOf(DevicesOf(admin[a].employee) \ admin[a].rows))]
  /\ UNCHANGED <<binding, key, site, cache, request, excused, unbound, released, edits>>

\* update_branch, toggle_branch_status and the pages of the checkpoints: the change,
\* then the invalidation for every device that is assigned to the branch.
ChangeBranch(a, s) ==
  /\ s # site
  /\ Begin(a, Invalidating(EntriesOf({d \in Devices : Bound(d) /\ binding[d].branch})))
  /\ site' = s
  /\ UNCHANGED <<binding, key, cache, request, excused, unbound, released>>

\* unbind_device invalidates first, and holds the row and its key meanwhile.
UnbindStart(a, d) ==
  /\ Bound(d)
  /\ Begin(a, [st |-> "unbinding", todo |-> {EntryOf(d)}, rows |-> {d},
               employee |-> NoEmployee, keys |-> {binding[d].key}])
  /\ UNCHANGED <<binding, key, site, cache, request, excused, unbound, released>>

\* Mutant: the row that is about to be deleted counts too.
StillUsedByAnyone(k, ds) ==
  \E o \in Devices : Bound(o) /\ binding[o].key = k /\ Counted(binding[o])

\* Whether another device that may punch uses the key.
StillUsed(k, ds) ==
  \E o \in Devices \ ds : Bound(o) /\ binding[o].key = k /\ Counted(binding[o])
Revoke(ks) == key' = [k \in Keys |-> IF k \in ks THEN "revoked" ELSE key[k]]

\* Mutant: the row is kept and marked.
MarkRows(a, ds) ==
  /\ binding' = [d \in Devices |-> IF d \in ds THEN [binding[d] EXCEPT !.status = "unbound"]
                                   ELSE binding[d]]
  /\ admin' = [admin EXCEPT ![a] = NoAdmin]
  /\ UNCHANGED cache
  /\ Excuse({x \in Entry : x[2] \in ds})

\* The last step of a request that deletes rows. Another request that holds one of
\* them finds nothing under its id, also when the device registers anew.
DeleteRows(a, ds) ==
  /\ binding' = [d \in Devices |-> IF d \in ds THEN NoBinding ELSE binding[d]]
  /\ admin' = [b \in Admins |-> IF b = a \/ Free(b) THEN NoAdmin
                               ELSE [admin[b] EXCEPT !.rows = @ \ ds]]
  /\ UNCHANGED cache
  /\ Excuse({x \in Entry : x[2] \in ds})

\* The key is revoked and then the row deleted, in two commits. A key the row got
\* during the await is not the one that is revoked. What is cached by now stays.
RevokeUnused(a) == Revoke({k \in admin[a].keys : ~StillUsed(k, admin[a].rows)})

UnbindFinish(a) ==
  LET ds == admin[a].rows IN
  /\ In(a, "unbinding") /\ admin[a].todo = {}
  /\ RevokeUnused(a)
  /\ DeleteRows(a, ds)
  /\ unbound' = unbound \union admin[a].keys
  /\ released' = released \union ({binding[d].key : d \in ds} \ admin[a].keys)
  /\ UNCHANGED <<site, request, edits>>

\* soft_delete_employee reads the rows, invalidates one after the other, deletes
\* them and commits at the end. No key is revoked. (Its guard on is_deleted is left
\* out: the employee pages may bring an employee back.)
SoftDeleteStart(a, e) ==
  /\ DevicesOf(e) # {}
  /\ Begin(a, [st |-> "deleting", todo |-> EntriesOf(DevicesOf(e)), rows |-> DevicesOf(e),
               employee |-> e, keys |-> {}])
  /\ UNCHANGED <<binding, key, site, cache, request, excused, unbound, released>>

SoftDeleteFinish(a) ==
  LET ds == admin[a].rows IN
  /\ In(a, "deleting") /\ admin[a].todo = {}
  /\ DeleteRows(a, ds)
  /\ released' = released \union {binding[d].key : d \in ds}
  /\ UNCHANGED <<key, site, request, unbound, edits>>

\* revoke_api_key, and the end of the grace period of a rotated key.
RevokeKey(k) ==
  /\ key[k] = "active"
  /\ edits < MaxEdits /\ edits' = edits + 1
  /\ Revoke({k})
  /\ UNCHANGED <<binding, site, cache, request, admin, excused, unbound, released>>

\* One invalidate_cache of an admin request is over. Its failure is swallowed.
Done(a, x) ==
  admin' = [admin EXCEPT ![a] =
    IF admin[a].st = "invalidating" THEN Invalidating(admin[a].todo \ {x})
    ELSE [admin[a] EXCEPT !.todo = @ \ {x}]]

Invalidate(a, x) ==
  /\ ~Free(a) /\ x \in admin[a].todo
  /\ Forget({x})
  /\ Done(a, x)
  /\ UNCHANGED <<binding, key, site, request, unbound, released, edits>>

InvalidateFails(a, x) ==
  /\ ~Free(a) /\ x \in admin[a].todo
  /\ UNCHANGED cache
  /\ Excuse({x})
  /\ Done(a, x)
  /\ UNCHANGED <<binding, key, site, request, unbound, released, edits>>

\* The API process dies and is started again: the requests under way are lost.
LoseRequests ==
  /\ request' = [r \in Requests |-> NoRequest]
  /\ admin' = [a \in Admins |-> NoAdmin]
  /\ UNCHANGED cache
  /\ Excuse(UNION {Pending(a) : a \in Admins})
  /\ UNCHANGED <<binding, site, unbound, released, edits>>

ApiCrash ==
  /\ (\E r \in Requests : request[r] # NoRequest) \/ (\E a \in Admins : ~Free(a))
  /\ LoseRequests
  /\ UNCHANGED key

\* It dies between the two commits of unbind_device.
CrashInUnbind(a) ==
  /\ In(a, "unbinding") /\ admin[a].todo = {}
  /\ RevokeUnused(a)
  /\ LoseRequests

ConfigStep(r) ==
  \/ \E d \in Devices, k \in Keys : ConfigStart(r, d, k)
  \/ ConfigHit(r) \/ (\E e \in Anyone : ConfigRegister(r, e))
  \/ ConfigCompute(r) \/ ConfigWrite(r) \/ ConfigWriteFails(r)

AdminEdit(a) ==
  \/ \E d \in Devices :
       \/ Approve(a, d) \/ Suspend(a, d) \/ SetActive(a, d) \/ UnbindStart(a, d)
       \/ BindBranch(a, d) \/ RemoveBranch(a, d)
       \/ \E e \in Employees : AssignEmployee(a, d, e)
  \/ \E s \in Sites \union {"off"} : ChangeBranch(a, s)
  \/ \E e \in Employees : SoftDeleteStart(a, e)

AdminStep(a) ==
  \/ SetActiveOthers(a) \/ UnbindFinish(a) \/ SoftDeleteFinish(a) \/ CrashInUnbind(a)
  \/ \E x \in Entry : Invalidate(a, x) \/ InvalidateFails(a, x)

Next ==
  \/ \E r \in Requests : ConfigStep(r)
  \/ \E d \in Devices, e \in Employees, k \in Keys : Onboard(d, e, k)
  \/ \E a \in Admins : AdminEdit(a) \/ AdminStep(a)
  \/ \E k \in Keys : RevokeKey(k)
  \/ \E x \in Entry : CacheExpires(x)
  \/ ApiCrash

Spec == Init /\ [][Next]_vars

\* Redis drops an entry when its time is over. Nothing prolongs that time for ever:
\* while an entry is there and can be read, requests write nothing. Requests, pages
\* and the loop itself are under no fairness.
FairSpec == Spec /\ \A x \in Entry : WF_vars(CacheExpires(x))

------------------------------------------------------------------------------
(* Properties *)

\* Every variable keeps to the values of its comment; an admin request holds rows
\* that exist.
TypeOK ==
  /\ binding \in [Devices -> Row \union {NoBinding}]
  /\ key \in [Keys -> {"active", "revoked"}]
  /\ site \in Sites \union {"off"}
  /\ cache \in [Entry -> Config \union {NoConfig}]
  /\ request \in [Requests -> RequestRecord \union {NoRequest}]
  /\ admin \in [Admins -> AdminRecord \union {NoAdmin}]
  /\ \A a \in Admins : ~Free(a) => \A d \in admin[a].rows : Bound(d)
  /\ excused \subseteq Entry
  /\ unbound \subseteq Keys /\ released \subseteq Keys
  /\ edits \in 0..MaxEdits

\* What is cached for a device under the key of its row is what get_device_config
\* would answer now, unless an admin request is about to invalidate it or one of the
\* gaps has hit it: a configuration written after the change that made it stale, an
\* onboarding, a row that was deleted, a Redis call that failed, a crash. So every
\* page that changes what a configuration shows invalidates it wherever it is cached.
StaleIsExplained ==
  \A d \in Devices : Bound(d) =>
    LET x == EntryOf(d) IN
      \/ cache[x] \in {NoConfig, ConfigOf(binding[d], site)}
      \/ x \in excused
      \/ \E a \in Admins : x \in Pending(a)

\* The key of a device that was unbound is revoked, unless another row has it, or had
\* it and lost it in a way that revokes nothing (an onboarding with another key, a
\* soft deletion): unbind_device leaves no key that works and belongs to nobody.
UnboundKeyIsRevoked ==
  \A k \in unbound :
    key[k] = "revoked" \/ k \in released \/ \E d \in Devices : Bound(d) /\ binding[d].key = k

\* A device that stays suspended ends up without a cached configuration under any
\* key, whatever was under way, failed or crashed when it was suspended: it is
\* answered 403 from then on.
SuspensionTakesEffect ==
  \A d \in Devices :
    <>[](Bound(d) /\ binding[d].status = "suspended")
      => <>[](\A k \in Keys : cache[<<k, d>>] = NoConfig)
=============================================================================
