------------------------------- MODULE DemoClone -------------------------------
(***************************************************************************)
(* Helpers ERP Cloud, the demo lane: checkout_demo_clone queues a request, *)
(* a worker claims it under a lease, a clone of the template is made under *)
(* names derived from the request's id, a trial runs out, and the demo is  *)
(* cleaned up after its retention.  Sources: cloud_checkout_service,       *)
(* cloud_demo_clone_worker_service, cloud_demo_clone_service,              *)
(* cloud_demo_lifecycle_service, demo_clone_worker_main.                   *)
(*                                                                         *)
(* The worker executes what it claimed; supervised runs (Operators) call   *)
(* execute_demo_clone_job on a queued request, and are the only callers of *)
(* the rollback and of the cleanup.                                        *)
(***************************************************************************)
EXTENDS Integers, FiniteSets

CONSTANTS
    MaxRequests,    \* requests, claimed in the order of their ids
    Workers,        \* demo-clone worker processes
    Operators,      \* supervised runs of the services
    HasFilestore,   \* the template has a filestore to copy
    MaxAttempts,    \* max_attempts of a request
    MaxTime,        \* bound: ticks of the clock, one per lifecycle phase
    MaxCrashes,     \* bound: processes killed
    MaxEdits,       \* bound: changes of template, plan or subscription
    MaxFaults       \* bound: external steps that fail

(* What the bounds are; MCCloud has TLC evaluate it. *)
DemoAssumption ==
    /\ MaxRequests \in Nat \ {0} /\ MaxAttempts \in Nat \ {0}
    /\ HasFilestore \in BOOLEAN /\ MaxTime \in Nat /\ MaxCrashes \in Nat
    /\ MaxEdits \in Nat /\ MaxFaults \in Nat /\ Workers \cap Operators = {}

Requests  == 1 .. MaxRequests
Processes == Workers \cup Operators

(* Days of trial, grace and retention, one tick each; 0 is a null timestamp. *)
CLOUD_DEMO_TRIAL_DAYS     == 1
CLOUD_DEMO_GRACE_DAYS     == 1
CLOUD_DEMO_RETENTION_DAYS == 1
Null  == 0
Times == 0 .. MaxTime + 3

Kinds == {"role", "database", "filestore"}

(* The request with its subscription (trial, grace, terminated) and its     *)
(* instance (instance, retention, deleted), which checkout inserts at once. *)
Rows == [status : {"absent", "queued", "provisioning", "failed"},
         lease : {"none", "live", "expired"}, attempts : 0 .. MaxAttempts + 1,
         due : {"now", "later", "parked"}, tenant : BOOLEAN,
         instance : {"queued", "failed", "deleted"},
         trial : Times, grace : Times, retention : Times,
         terminated : BOOLEAN, deleted : BOOLEAN]

NoRow == [status |-> "absent", lease |-> "none", attempts |-> 0, due |-> "now",
          tenant |-> FALSE, instance |-> "queued", trial |-> Null,
          grace |-> Null, retention |-> Null, terminated |-> FALSE,
          deleted |-> FALSE]

(* made: the _CleanupTracker.  undo: kinds a removal still has to visit. *)
Procs == [pc : {"idle", "claimed", "work", "clone", "tenant", "activate",
                "failed", "undo", "remove", "mark_deleted"},
          r : Requests \cup {0}, made : SUBSET Kinds, undo : SUBSET Kinds,
          cleanup : BOOLEAN]

Idle == [pc |-> "idle", r |-> 0, made |-> {}, undo |-> {}, cleanup |-> FALSE]

VARIABLES
    row,        \* requests with their subscriptions and instances
    tenants,    \* requests whose tenant row exists
    res,        \* roles, databases and filestores, by request
    inputs,     \* requests whose template, plan and subscription are in order
    proc,       \* the processes
    now,        \* the clock
    crashes, edits, faults,   \* used up of their bounds
    excused,    \* history: requests a process died over
    left        \* history: kinds that no clean-up knows of or that one failed on

vars == <<row, tenants, res, inputs, proc, now, crashes, edits, faults, excused, left>>
Counters == <<now, crashes, edits, faults>>

Init ==
    /\ row = [r \in Requests |-> NoRow]
    /\ tenants = {}
    /\ res = [r \in Requests |-> {}]
    /\ inputs = Requests
    /\ proc = [p \in Processes |-> Idle]
    /\ now = 1 /\ crashes = 0 /\ edits = 0 /\ faults = 0 /\ excused = {}
    /\ left = [r \in Requests |-> {}]

-----------------------------------------------------------------------------
(* Order, subscription, request and instance in one commit.  The idempotency *)
(* key (here the request's id) makes a repetition a replay.                  *)
checkout_demo_clone(r) ==
    /\ row[r].status = "absent" /\ r \in inputs
    /\ row' = [row EXCEPT ![r].status = "queued"]

(* A published, validated template for the package and the language. *)
get_demo_template(r) == r \in inputs

(* The confirmation page posts; ids are given in order. *)
_demo_confirm_submit(r) ==
    /\ get_demo_template(r)
    /\ \A q \in Requests : q < r => row[q].status # "absent"
    /\ checkout_demo_clone(r)
    /\ UNCHANGED <<tenants, res, inputs, proc, Counters, excused, left>>

(* The template is withdrawn, the plan deactivated or the subscription       *)
(* suspended, or put right again.                                            *)
EditInputs(r) ==
    /\ edits < MaxEdits
    /\ edits' = edits + 1
    /\ inputs' = IF r \in inputs THEN inputs \ {r} ELSE inputs \cup {r}
    /\ UNCHANGED <<row, tenants, res, proc, now, crashes, faults, excused, left>>

(* Mutant: a terminated subscription is still in order. *)
InputsInOrderDespiteEnd(r) == r \in inputs

(* A subscription that cleanup terminated is inactive. *)
InputsInOrder(r) == r \in inputs /\ ~row[r].terminated

(* For a request whose status the caller holds as `status`. *)
demo_request_eligibility_reasons(r, status) ==
    {s \in {"status_not_queued"} : status # "queued"}
      \cup {s \in {"inputs"} : ~InputsInOrder(r)}

-----------------------------------------------------------------------------
(* The worker.                                                               *)

Claimable(r) ==
    /\ row[r].status = "queued" /\ row[r].due = "now"
    /\ \A q \in Requests : q < r => ~(row[q].status = "queued" /\ row[q].due = "now")

(* One conditional UPDATE.  The claim does not look at max_attempts: the     *)
(* bound on attempts here only keeps the counter finite.                     *)
claim_next_demo_clone_job(w, r) ==
    /\ proc[w].pc = "idle" /\ Claimable(r)
    /\ row[r].attempts <= MaxAttempts
    /\ row' = [row EXCEPT ![r].status = "provisioning", ![r].lease = "live",
                          ![r].attempts = @ + 1]
    /\ proc' = [proc EXCEPT ![w].pc = "claimed", ![w].r = r]
    /\ UNCHANGED <<tenants, res, inputs, Counters, excused, left>>

(* The second half of the claim checks the inputs (not the status); a request *)
(* that is not in order goes back to the queue for ten years.                 *)
CheckClaim(w) ==
    LET r == proc[w].r IN
    /\ proc[w].pc = "claimed"
    /\ IF InputsInOrder(r)
       THEN /\ proc' = [proc EXCEPT ![w].pc = "work"]
            /\ row' = row
       ELSE /\ proc' = [proc EXCEPT ![w] = Idle]
            /\ row' = [row EXCEPT ![r].status = "queued", ![r].lease = "none",
                                  ![r].attempts = IF @ > 0 THEN @ - 1 ELSE 0,
                                  ![r].due = "parked"]
    /\ UNCHANGED <<tenants, res, inputs, Counters, excused, left>>

(* The worker asks demo_request_eligibility_reasons again, of the copy it    *)
(* claimed, whose status is provisioning; a reason ends the request.         *)
_execute_demo_clone_job_safe(w) ==
    LET r == proc[w].r IN
    /\ proc[w].pc = "work"
    /\ IF demo_request_eligibility_reasons(r, "provisioning") # {}
       THEN /\ row' = [row EXCEPT ![r].status = "failed"]
            /\ proc' = [proc EXCEPT ![w] = Idle]
       ELSE /\ row' = row
            /\ proc' = [proc EXCEPT ![w].pc = "clone"]
    /\ UNCHANGED <<tenants, res, inputs, Counters, excused, left>>

ExpireLease(r) ==
    /\ row[r].lease = "live"
    /\ row' = [row EXCEPT ![r].lease = "expired"]
    /\ UNCHANGED <<tenants, res, inputs, proc, Counters, excused, left>>

BackoffOver(r) ==
    /\ row[r].due = "later"
    /\ row' = [row EXCEPT ![r].due = "now"]
    /\ UNCHANGED <<tenants, res, inputs, proc, Counters, excused, left>>

reconcile_stale_demo_clone_jobs(r) ==
    /\ row[r].status = "provisioning" /\ row[r].lease = "expired"
    /\ row' = IF row[r].attempts < MaxAttempts
              THEN [row EXCEPT ![r].status = "queued", ![r].lease = "none",
                               ![r].due = "later"]
              ELSE [row EXCEPT ![r].status = "failed", ![r].lease = "none"]
    /\ UNCHANGED <<tenants, res, inputs, proc, Counters, excused, left>>

-----------------------------------------------------------------------------
(* Cloning.                                                                  *)

FreeOperator(p, r) ==
    /\ p \in Operators /\ proc[p].pc = "idle"
    /\ row[r].status # "absent"

(* The gates.  A database that is there already ends the call: with its      *)
(* tenant as a success, without as a collision.                              *)
execute_demo_clone_job(p, r) ==
    /\ FreeOperator(p, r)
    /\ demo_request_eligibility_reasons(r, row[r].status) = {}
    /\ "database" \notin res[r]
    /\ proc' = [proc EXCEPT ![p].pc = "clone", ![p].r = r]
    /\ UNCHANGED <<row, tenants, res, inputs, Counters, excused, left>>

(* create_tenant_role alters a role and clone_database_from_template takes a *)
(* database that is there; copy_filestore refuses to overwrite.              *)
Blocked(r, k) == \/ k = "database" /\ res[r] \cap {"database", "role"} = {}
                 \/ k = "filestore" /\ k \in res[r]

CloneKinds == IF HasFilestore THEN Kinds ELSE Kinds \ {"filestore"}

(* The next kind to make: role, then database, then filestore. *)
NextKind(made) == IF "role" \notin made THEN "role"
                  ELSE IF "database" \notin made THEN "database" ELSE "filestore"

MakeNext(p) ==
    LET r == proc[p].r
        k == NextKind(proc[p].made)
    IN  /\ proc[p].pc = "clone" /\ ~(CloneKinds \subseteq proc[p].made)
        /\ ~Blocked(r, k)
        /\ res' = [res EXCEPT ![r] = @ \cup {k}]
        /\ proc' = [proc EXCEPT ![p].made = @ \cup {k}]
        /\ left' = [left EXCEPT ![r] = @ \ {k}]
        /\ UNCHANGED <<row, tenants, inputs, Counters, excused>>

(* The restricted user is made last, inside the cloned database. *)
CreateUser(p) ==
    /\ proc[p].pc = "clone" /\ CloneKinds \subseteq proc[p].made
    /\ proc' = [proc EXCEPT ![p].pc = "tenant"]
    /\ UNCHANGED <<row, tenants, res, inputs, Counters, excused, left>>

(* Any of these steps may raise, and one that is blocked does.  One may have *)
(* made its kind: copytree stops half-way, the tables of a new database are  *)
(* not reassigned.  The tracker's flag is set after the step.                *)
StepFails(p) ==
    LET r == proc[p].r
        k == NextKind(proc[p].made)
        more == ~(CloneKinds \subseteq proc[p].made)
    IN  /\ proc[p].pc = "clone"
        /\ \/ more /\ Blocked(r, k) /\ UNCHANGED <<faults, res, left>>
           \/ faults < MaxFaults /\ faults' = faults + 1 /\ UNCHANGED <<res, left>>
           \/ /\ more /\ ~Blocked(r, k) /\ k \notin res[r]
              /\ faults < MaxFaults /\ faults' = faults + 1
              /\ res' = [res EXCEPT ![r] = @ \cup {k}]
              /\ left' = [left EXCEPT ![r] = @ \cup {k}]
        /\ proc' = [proc EXCEPT ![p].pc = "failed"]
        /\ UNCHANGED <<row, tenants, inputs, now, crashes, edits, excused>>

(* Tenant row and links to it in one commit; the status stays as it is. *)
ReserveTenant(p) ==
    LET r == proc[p].r IN
    /\ proc[p].pc = "tenant"
    /\ tenants' = tenants \cup {r}
    /\ row' = [row EXCEPT ![r].tenant = TRUE]
    /\ proc' = [proc EXCEPT ![p].pc = "activate", ![p].made = {}]
    /\ UNCHANGED <<res, inputs, Counters, excused, left>>

(* Mutant: the tracker forgets the filestore. *)
MarkFailedForgets(p) ==
    /\ proc[p].pc = "failed"
    /\ row' = [row EXCEPT ![proc[p].r].status = "failed"]
    /\ proc' = [proc EXCEPT ![p].pc = "undo", ![p].undo = proc[p].made \ {"filestore"}]
    /\ UNCHANGED <<tenants, res, inputs, Counters, excused, left>>

(* The except branch: the request is marked, then what this attempt made is  *)
(* removed, then the instance is marked.                                     *)
MarkFailed(p) ==
    /\ proc[p].pc = "failed"
    /\ row' = [row EXCEPT ![proc[p].r].status = "failed"]
    /\ proc' = [proc EXCEPT ![p].pc = "undo", ![p].undo = proc[p].made]
    /\ UNCHANGED <<tenants, res, inputs, Counters, excused, left>>

(* A role that owns a database is not dropped. *)
Removable(r, k) == k # "role" \/ "database" \notin res[r]

(* Remove one of the kinds still to visit, in the order each caller uses;    *)
(* a failure is collected in `errors` and the removal goes on.               *)
RemoveOne(p, k) ==
    LET r == proc[p].r IN
    /\ proc' = [proc EXCEPT ![p].undo = @ \ {k}]
    /\ \/ /\ Removable(r, k)
          /\ res' = [res EXCEPT ![r] = @ \ {k}]
          /\ left' = [left EXCEPT ![r] = @ \ {k}]
          /\ faults' = faults
       \/ /\ \/ ~Removable(r, k) /\ faults' = faults
             \/ faults < MaxFaults /\ faults' = faults + 1
          /\ res' = res
          /\ left' = [left EXCEPT ![r] = @ \cup ({k} \cap res[r])]
    /\ UNCHANGED <<row, tenants, inputs, now, crashes, edits, excused>>

_CleanupTrackerOrder == <<"filestore", "database", "role">>
rollback_order       == <<"database", "role", "filestore">>

(* The first kind of an order that is still to visit. *)
FirstOf(order, undo) ==
    order[CHOOSE i \in 1 .. 3 : order[i] \in undo /\ \A j \in 1 .. i - 1 : order[j] \notin undo]

cleanup(p) ==
    /\ proc[p].pc = "undo" /\ proc[p].undo # {}
    /\ RemoveOne(p, FirstOf(_CleanupTrackerOrder, proc[p].undo))

MarkInstanceFailed(p) ==
    /\ proc[p].pc = "undo" /\ proc[p].undo = {}
    /\ row' = [row EXCEPT ![proc[p].r].instance = "failed"]
    /\ proc' = [proc EXCEPT ![p] = Idle]
    /\ UNCHANGED <<tenants, res, inputs, Counters, excused, left>>

-----------------------------------------------------------------------------
(* Lifecycle.                                                                *)

_is_demo_subscription_active(r) == InputsInOrder(r)

(* Mutants: an activation that starts the trial anew, and one that counts the *)
(* retention twice.                                                           *)
ActivatedAnew(r) ==
    IF r \in tenants /\ row[r].tenant /\ _is_demo_subscription_active(r)
         /\ row[r].status # "failed"
    THEN [row EXCEPT ![r].trial = now + 1, ![r].grace = now + 2, ![r].retention = now + 3]
    ELSE row
ActivatedLonger(r) ==
    IF r \in tenants /\ row[r].tenant /\ row[r].status # "failed" /\ row[r].trial = Null
    THEN [row EXCEPT ![r].trial = now + 1, ![r].grace = now + 2, ![r].retention = now + 4]
    ELSE row

(* Rejected without a tenant, for an inactive subscription and for a failed  *)
(* request; deadlines that are set stay.                                     *)
Activated(r) ==
    IF r \in tenants /\ row[r].tenant /\ _is_demo_subscription_active(r)
         /\ row[r].status # "failed" /\ row[r].trial = Null
    THEN [row EXCEPT
            ![r].trial = now + CLOUD_DEMO_TRIAL_DAYS,
            ![r].grace = now + CLOUD_DEMO_TRIAL_DAYS + CLOUD_DEMO_GRACE_DAYS,
            ![r].retention = now + CLOUD_DEMO_TRIAL_DAYS + CLOUD_DEMO_GRACE_DAYS
                                 + CLOUD_DEMO_RETENTION_DAYS]
    ELSE row

(* At the end of a clone, or called on its own. *)
activate_demo_lifecycle(p, r) ==
    /\ \/ proc[p].pc = "activate" /\ proc[p].r = r
       \/ FreeOperator(p, r)
    /\ row' = Activated(r)
    /\ proc' = [proc EXCEPT ![p] = Idle]
    /\ UNCHANGED <<tenants, res, inputs, Counters, excused, left>>

is_demo_access_expired(r) == row[r].terminated \/ (row[r].trial # Null /\ now >= row[r].trial)

is_demo_cleanup_eligible(r) ==
    LET end == IF row[r].retention = Null /\ row[r].grace # Null
               THEN row[r].grace + CLOUD_DEMO_RETENTION_DAYS
               ELSE row[r].retention
    IN  end # Null /\ now >= end
(* Mutant: the portal does not look for the tenant. *)
PortalIgnoresTenant(r) ==
    CASE row[r].status = "failed" -> "failed"
      [] row[r].trial = Null -> "preparing"
      [] now >= row[r].trial -> "expired"
      [] OTHER -> "active"

get_demo_portal_status(r) ==
    CASE row[r].status = "failed" -> "failed"
      [] ~_is_demo_subscription_active(r) -> "unavailable"
      [] ~(r \in tenants /\ row[r].tenant) \/ row[r].trial = Null -> "preparing"
      [] now >= row[r].trial -> "expired"
      [] OTHER -> "active"

(* The portal's can_launch: the Open Odoo button and /cloud/demo/open. *)
can_launch(r) == row[r].status # "absent" /\ get_demo_portal_status(r) = "active"

-----------------------------------------------------------------------------
(* Rollback and cleanup: database, role, filestore, then the tenant row.     *)

StartRemoval(p, r, after) ==
    proc' = [proc EXCEPT ![p] = [pc |-> "remove", r |-> r, made |-> {},
                                 undo |-> Kinds, cleanup |-> after]]

rollback_demo_clone(p, r) ==
    /\ FreeOperator(p, r)
    /\ row[r].tenant /\ r \in tenants
    /\ StartRemoval(p, r, FALSE)
    /\ UNCHANGED <<row, tenants, res, inputs, Counters, excused, left>>

(* Only after the retention, of a demo that is not marked deleted. *)
execute_demo_cleanup(p, r) ==
    /\ FreeOperator(p, r)
    /\ ~row[r].deleted /\ r \in tenants /\ row[r].tenant
    /\ is_demo_cleanup_eligible(r)
    /\ StartRemoval(p, r, TRUE)
    /\ UNCHANGED <<row, tenants, res, inputs, Counters, excused, left>>

RemoveResource(p) ==
    /\ proc[p].pc = "remove" /\ proc[p].undo # {}
    /\ RemoveOne(p, FirstOf(rollback_order, proc[p].undo))

(* References cleared and the tenant deleted in one commit. *)
DeleteTenant(p) ==
    LET r == proc[p].r IN
    /\ proc[p].pc = "remove" /\ proc[p].undo = {}
    /\ tenants' = tenants \ {r}
    /\ row' = [row EXCEPT ![r].tenant = FALSE]
    /\ proc' = IF proc[p].cleanup THEN [proc EXCEPT ![p].pc = "mark_deleted"]
                                  ELSE [proc EXCEPT ![p] = Idle]
    /\ UNCHANGED <<res, inputs, Counters, excused, left>>

(* The cleanup's second commit. *)
MarkDeleted(p) ==
    /\ proc[p].pc = "mark_deleted"
    /\ row' = [row EXCEPT ![proc[p].r].deleted = TRUE, ![proc[p].r].terminated = TRUE,
                          ![proc[p].r].instance = "deleted"]
    /\ proc' = [proc EXCEPT ![p] = Idle]
    /\ UNCHANGED <<tenants, res, inputs, Counters, excused, left>>

-----------------------------------------------------------------------------
Tick ==
    /\ now < MaxTime
    /\ now' = now + 1
    /\ UNCHANGED <<row, tenants, res, inputs, proc, crashes, edits, faults, excused, left>>

(* Only the process knew what it had made without a tenant row. *)
Crash(p) ==
    /\ crashes < MaxCrashes /\ proc[p].pc # "idle"
    /\ crashes' = crashes + 1
    /\ excused' = excused \cup {proc[p].r}
    /\ left' = [left EXCEPT ![proc[p].r] =
           IF proc[p].r \in tenants THEN @
           ELSE @ \cup ((proc[p].made \cup proc[p].undo) \cap res[proc[p].r])]
    /\ proc' = [proc EXCEPT ![p] = Idle]
    /\ UNCHANGED <<row, tenants, res, inputs, now, edits, faults>>

CloneStep(p) == \/ MakeNext(p) \/ CreateUser(p) \/ StepFails(p) \/ ReserveTenant(p)
                \/ MarkFailed(p) \/ cleanup(p) \/ MarkInstanceFailed(p)

WorkerStep(w) ==
    \/ \E r \in Requests : claim_next_demo_clone_job(w, r)
    \/ CheckClaim(w) \/ _execute_demo_clone_job_safe(w)

OperatorStep(p) ==
    \/ \E r \in Requests : \/ execute_demo_clone_job(p, r)
                           \/ activate_demo_lifecycle(p, r)
                           \/ rollback_demo_clone(p, r)
                           \/ execute_demo_cleanup(p, r)
    \/ RemoveResource(p) \/ DeleteTenant(p) \/ MarkDeleted(p)

Next ==
    \/ \E r \in Requests : \/ _demo_confirm_submit(r) \/ EditInputs(r) \/ ExpireLease(r)
                           \/ BackoffOver(r) \/ reconcile_stale_demo_clone_jobs(r)
    \/ \E w \in Workers : WorkerStep(w)
    \/ \E p \in Operators : OperatorStep(p)
    \/ \E p \in Processes : CloneStep(p) \/ Crash(p)
    \/ Tick

(* The worker's loop runs for ever and reconciles on every turn; leases and  *)
(* back-offs run out with time.                                              *)
Fairness ==
    /\ \A w \in Workers : WF_vars(WorkerStep(w) \/ CloneStep(w))
    /\ \A r \in Requests : /\ WF_vars(ExpireLease(r)) /\ WF_vars(BackoffOver(r))
                           /\ WF_vars(reconcile_stale_demo_clone_jobs(r))

Spec     == Init /\ [][Next]_vars
FairSpec == Spec /\ Fairness

-----------------------------------------------------------------------------
TypeOK ==
    /\ row \in [Requests -> Rows]
    /\ tenants \subseteq Requests
    /\ res \in [Requests -> SUBSET Kinds]
    /\ inputs \subseteq Requests
    /\ proc \in [Processes -> Procs]
    /\ now \in 1 .. MaxTime + 1 /\ crashes \in 0 .. MaxCrashes
    /\ edits \in 0 .. MaxEdits /\ faults \in 0 .. MaxFaults
    /\ excused \subseteq Requests /\ left \in [Requests -> SUBSET Kinds]

Busy(r) == \E p \in Processes : proc[p].r = r

(* What the portal lets a customer open is a demo whose tenant row, role and *)
(* database exist, whose trial is running and which is not deleted, unless a *)
(* rollback is under way or a process died over it.                          *)
LaunchIsServed ==
    \A r \in Requests : can_launch(r) /\ ~Busy(r) /\ r \notin excused =>
        /\ r \in tenants /\ CloneKinds \subseteq res[r]
        /\ ~is_demo_access_expired(r) /\ ~row[r].deleted

(* A request without a tenant row that nobody works on has left no role, no  *)
(* database and no filestore behind, whichever of the clone's steps, the     *)
(* rollback or the cleanup came last, but for what the step that raised had  *)
(* made before its flag was set, what a removal failed on and what a process *)
(* that died had made (_CleanupTracker, rollback_demo_clone).                *)
UnservedIsClean ==
    \A r \in Requests : r \notin tenants /\ ~Busy(r) => res[r] \subseteq left[r]

(* A demo marked deleted stays so: nothing clones it again, though its       *)
(* request is still queued.                                                  *)
DeletedIsFinal == \A r \in Requests : row[r].deleted => r \notin tenants /\ row[r].terminated

(* No retry, second activation, rollback or new clone moves the end of a     *)
(* trial or of the retention once it is set (never extended on a retry).     *)
NeverExtends ==
    [][\A r \in Requests : row[r].trial # Null =>
          /\ row'[r].trial = row[r].trial /\ row'[r].retention = row[r].retention]_vars

(* What checkout_demo_clone's docstring promises: the demo-clone worker picks *)
(* the request up, so a queued request whose inputs are in order gets its     *)
(* clone.                                                                     *)
QueuedIsCloned ==
    \A r \in Requests :
        (row[r].status = "queued" /\ InputsInOrder(r)) ~> (r \in tenants \/ ~InputsInOrder(r))
====
