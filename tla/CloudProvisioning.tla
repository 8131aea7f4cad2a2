--------------------------- MODULE CloudProvisioning ---------------------------
(***************************************************************************)
(* Helpers ERP Cloud, the real lane: a request is created for a validated  *)
(* template, an operator approves exact inputs (a fingerprint), a worker   *)
(* claims the request under a lease and provisions a tenant with Docker.   *)
(* Sources: cloud_contract_service, cloud_template_service,                *)
(* cloud_provisioning_service, cloud_worker_service, cloud_docker_adapter. *)
(*                                                                         *)
(* A worker keeps one ORM session for a job: sessions do not expire on     *)
(* commit, so what it read of the request at the claim (field mem) is what *)
(* its later checks see, and a commit writes only the columns it changed,  *)
(* whatever the row holds by then.  A step ends at a commit or after an    *)
(* external effect.                                                        *)
(***************************************************************************)
EXTENDS Integers, FiniteSets, FiniteSetsExt

CONSTANTS
    MaxRequests,    \* requests, claimed in the order of their ids
    Workers,        \* worker processes: the loop and --cloud-bounded runs
    QuoteRequests,  \* requests of a plan with quote_required
    MaxAttempts,    \* max_attempts of a request
    MaxRuns,        \* bound: tenants ever reserved
    MaxCrashes,     \* bound: worker processes killed
    MaxEdits,       \* bound: changes of a request's inputs
    MaxFaults,      \* bound: removals that fail during a rollback
    Overlap         \* a lease may expire, or an operator retry, while the worker
                    \* of the request is at work on it; two reconciliations meet

(* What the bounds are; MCCloud has TLC evaluate it. *)
CloudAssumption ==
    /\ MaxRequests \in Nat \ {0} /\ MaxAttempts \in Nat \ {0}
    /\ MaxRuns \in Nat /\ MaxCrashes \in Nat /\ MaxEdits \in Nat
    /\ MaxFaults \in Nat /\ Overlap \in BOOLEAN
    /\ QuoteRequests \subseteq 1 .. MaxRequests

Requests == 1 .. MaxRequests
Runs     == 1 .. MaxRuns        \* run ids; a tenant is named after its run
NoRun    == 0
Nobody   == "nobody"
Unset    == <<>>                \* no approval fingerprint

CLOUD_PROVISION_STATUSES ==
    {"queued", "provisioning", "ready", "failed", "rollback_pending",
     "rolled_back"}

(* The central contract of status changes, restricted to these statuses. *)
CLOUD_PROVISION_LEGAL_TRANSITIONS ==
    [queued           |-> {"provisioning", "failed"},
     provisioning     |-> {"ready", "failed", "rollback_pending"},
     failed           |-> {"rollback_pending", "queued"},
     rollback_pending |-> {"rolled_back", "failed"},
     ready |-> {}, rolled_back |-> {}]

Kinds == {"role", "database", "filestore", "container"}

(* due: next_attempt_at has passed, is seconds ahead, or ten years ahead. *)
Rows == [status : CLOUD_PROVISION_STATUSES \cup {"absent"},
         claimed_by : Workers \cup {Nobody},
         lease : {"none", "live", "expired"}, attempts : 0 .. MaxAttempts,
         due : {"now", "later", "parked"}, approved : BOOLEAN,
         fingerprint : {Unset} \cup ({"a", "b", "bad"} \X BOOLEAN \X BOOLEAN),
         quote : BOOLEAN, tenant : Runs \cup {NoRun}, verified : BOOLEAN]
NoRow == [status |-> "absent", claimed_by |-> Nobody, lease |-> "none",
          attempts |-> 0, due |-> "now", approved |-> FALSE,
          fingerprint |-> Unset, quote |-> FALSE, tenant |-> NoRun,
          verified |-> FALSE]

Instances == [status : CLOUD_PROVISION_STATUSES \cup {"absent"},
              verified : BOOLEAN]

VARIABLES
    req,        \* cloud_provisioning_requests
    inst,       \* cloud_instances, one per request
    inputs,     \* plan, subscription and form of a request: "a", "b" or "bad"
    template,   \* the cloud_base template row and its database
    tenants,    \* runs whose tenant row exists
    made,       \* roles, databases, filestores and containers that exist
    wk,         \* worker processes
    count,      \* run ids used, crashes, edits and faults so far
    crashed     \* requests a worker died on (for stating properties)

vars == <<req, inst, inputs, template, tenants, made, wk, count, crashed>>

Executing == {"start", "database", "files", "container", "verify", "ready"}
Recovery  == {"mark", "mark_again", "rollback", "remove", "rows", "close"}
WorkerRows == [pc : {"idle", "reconcile", "poll", "check"} \cup Executing \cup
                    Recovery,
               stale : SUBSET Requests, r : Requests \cup {0},
               run : Runs \cup {NoRun}, target : Runs \cup {NoRun},
               mem : [status : CLOUD_PROVISION_STATUSES \cup {"absent"},
                      tenant : Runs \cup {NoRun}, verified : BOOLEAN],
               again : BOOLEAN]
Copy(r) == [status |-> req[r].status, tenant |-> req[r].tenant,
            verified |-> req[r].verified]
Idle == [pc |-> "idle", stale |-> {}, r |-> 0, run |-> NoRun,
         target |-> NoRun, again |-> FALSE,
         mem |-> [status |-> "absent", tenant |-> NoRun, verified |-> FALSE]]

AtWork(r)   == \E w \in Workers : wk[w].r = r
Goto(w, pc) == wk' = [wk EXCEPT ![w].pc = pc]

----------------------------------------------------------------------------
(* The template. *)

_verify_template_database_accessible == template.database
validate_cloud_template_metadata == template.validated
get_validated_cloud_template ==
    validate_cloud_template_metadata /\ _verify_template_database_accessible

(* ensure_cloud_template_validated: initialises the database with the base *)
(* modules; an initialisation that fails leaves the row as it was.         *)
ensure_cloud_template_validated ==
    /\ ~ get_validated_cloud_template
    /\ \E ok \in BOOLEAN :
         template' = IF ok THEN [validated |-> TRUE, database |-> TRUE]
                           ELSE [template EXCEPT !.database = FALSE]
    /\ UNCHANGED <<req, inst, inputs, tenants, made, wk, count, crashed>>

(* External: somebody drops the template's database. *)
LoseTemplate ==
    /\ template.database /\ count.edits < MaxEdits
    /\ template' = [template EXCEPT !.database = FALSE]
    /\ count' = [count EXCEPT !.edits = @ + 1]
    /\ UNCHANGED <<req, inst, inputs, tenants, made, wk, crashed>>

----------------------------------------------------------------------------
(* Requests and their approval. *)

(* _ensure_order, _ensure_subscription and _ensure_instance: only the        *)
(* instance has state of its own here.                                       *)
_ensure_instance(r) == inst' = [inst EXCEPT ![r].status = "queued"]

(* create_real_eligible_cloud_request: order, subscription, instance and   *)
(* request of a customer, queued and not approved.                         *)
create_real_eligible_cloud_request(r) ==
    /\ req[r].status = "absent" /\ get_validated_cloud_template
    /\ _ensure_instance(r)
    /\ req' = [req EXCEPT ![r].status = "queued"]
    /\ UNCHANGED <<inputs, template, tenants, made, wk, count, crashed>>

(* External: plan, subscription, package or company data are edited. *)
EditInputs(r) ==
    /\ req[r].status # "absent" /\ count.edits < MaxEdits
    /\ \E v \in {"a", "b", "bad"} \ {inputs[r]} :
         inputs' = [inputs EXCEPT ![r] = v]
    /\ count' = [count EXCEPT !.edits = @ + 1]
    /\ UNCHANGED <<req, inst, template, tenants, made, wk, crashed>>

(* cloud_request_eligibility_reasons returns no reason. *)
Eligible(r) ==
    /\ inputs[r] # "bad" /\ template.validated
    /\ r \in QuoteRequests => req[r].quote

_compute_approval_fingerprint(r) ==
    <<inputs[r], template.validated, req[r].quote>>

is_cloud_request_approved_and_unchanged(r) ==
    /\ req[r].approved
    /\ req[r].fingerprint = _compute_approval_fingerprint(r)
    /\ Eligible(r)

approve_cloud_request_quote(r) ==
    /\ req[r].status # "absent"
    /\ req' = [req EXCEPT ![r].quote = TRUE]
    /\ UNCHANGED <<inst, inputs, template, tenants, made, wk, count, crashed>>

revoke_cloud_request_quote(r) ==
    /\ req[r].status # "absent"
    /\ req' = [req EXCEPT ![r].quote = FALSE, ![r].approved = FALSE,
                          ![r].fingerprint = IF req[r].approved THEN Unset ELSE @]
    /\ UNCHANGED <<inst, inputs, template, tenants, made, wk, count, crashed>>

approve_cloud_request_for_real_provisioning(r) ==
    /\ req[r].status \in {"queued", "provisioning"} /\ Eligible(r)
    /\ req' = [req EXCEPT ![r].approved = TRUE,
                          ![r].fingerprint = _compute_approval_fingerprint(r)]
    /\ UNCHANGED <<inst, inputs, template, tenants, made, wk, count, crashed>>

revoke_cloud_provisioning_approval(r) ==
    /\ req[r].status # "absent"
    /\ req' = [req EXCEPT ![r].approved = FALSE, ![r].fingerprint = Unset]
    /\ UNCHANGED <<inst, inputs, template, tenants, made, wk, count, crashed>>

retry_failed_cloud_job(r) ==
    /\ req[r].status = "failed" /\ req[r].attempts < MaxAttempts
    /\ Overlap \/ ~ AtWork(r)
    /\ req' = [req EXCEPT ![r].status = "queued", ![r].claimed_by = Nobody,
                          ![r].lease = "none", ![r].due = "now"]
    /\ UNCHANGED <<inst, inputs, template, tenants, made, wk, count, crashed>>

----------------------------------------------------------------------------
(* A worker reconciles stale leases, then claims. *)

(* Mutants: leases are not looked at; only a missing lease counts. *)
StaleIgnoresLease(r) == req[r].status = "provisioning"
StaleWithoutLease(r) == req[r].status = "provisioning" /\ req[r].lease = "none"

Stale(r) == req[r].status = "provisioning" /\ req[r].lease = "expired"

(* reconcile_stale_cloud_jobs: the rows are read, decided on and written *)
(* without a condition on what they hold at the commit.                  *)
ReconcileRead(w) ==
    /\ wk[w].pc = "idle"
    /\ Overlap \/ \A v \in Workers : wk[v].pc # "reconcile"
    /\ wk' = [wk EXCEPT ![w].pc = "reconcile",
                        ![w].stale = {r \in Requests : Stale(r)}]
    /\ UNCHANGED <<req, inst, inputs, template, tenants, made, count, crashed>>

(* Mutant: attempts are not counted. *)
RequeuedAlways(row) ==
    [row EXCEPT !.status = "queued", !.claimed_by = Nobody, !.lease = "none",
                !.due = "later"]

Requeued(row) ==
    IF row.attempts < MaxAttempts
    THEN [row EXCEPT !.status = "queued", !.claimed_by = Nobody,
                     !.lease = "none", !.due = "later"]
    ELSE [row EXCEPT !.status = "failed", !.claimed_by = Nobody,
                     !.lease = "none"]

reconcile_stale_cloud_jobs(w) ==
    /\ wk[w].pc = "reconcile"
    /\ req' = [r \in Requests |->
                 IF r \in wk[w].stale THEN Requeued(req[r]) ELSE req[r]]
    /\ wk' = [wk EXCEPT ![w].pc = "poll", ![w].stale = {}]
    /\ UNCHANGED <<inst, inputs, template, tenants, made, count, crashed>>

(* Mutant: the UPDATE has lost its condition on the status. *)
ClaimableTwice(r) ==
    req[r].status \in {"queued", "provisioning"} /\ req[r].approved
      /\ req[r].attempts < MaxAttempts /\ req[r].due = "now"
(* Mutant: a request that was requeued is not looked at again. *)
ClaimableOnce(r) ==
    req[r].status = "queued" /\ req[r].approved /\ req[r].attempts = 0

Claimable(r) ==
    req[r].status = "queued" /\ req[r].approved /\ req[r].due = "now"

(* claim_next_real_cloud_job: the conditional UPDATE and its commit. *)
claim_next_real_cloud_job(w) ==
    /\ wk[w].pc = "poll"
    /\ \E r \in Requests :
         /\ Claimable(r) /\ \A s \in Requests : Claimable(s) => r <= s
         /\ req' = [req EXCEPT ![r].status = "provisioning",
                               ![r].claimed_by = w, ![r].lease = "live",
                               ![r].attempts = @ + 1]
         /\ wk' = [wk EXCEPT ![w].pc = "check", ![w].r = r]
    /\ UNCHANGED <<inst, inputs, template, tenants, made, count, crashed>>

NothingToClaim(w) ==
    /\ wk[w].pc = "poll" /\ \A r \in Requests : ~ Claimable(r)
    /\ Goto(w, "idle")
    /\ UNCHANGED <<req, inst, inputs, template, tenants, made, count, crashed>>

(* The claimed row is read and its approval checked; a request that fails  *)
(* goes back to the queue, parked for 3650 days, and the claim looks again.*)
CheckApproval(w) ==
    LET r == wk[w].r IN
    /\ wk[w].pc = "check"
    /\ IF is_cloud_request_approved_and_unchanged(r)
       THEN /\ wk' = [wk EXCEPT ![w].pc = "start", ![w].mem = Copy(r)]
            /\ UNCHANGED req
       ELSE /\ req' = [req EXCEPT ![r].status = "queued",
                                  ![r].claimed_by = Nobody, ![r].lease = "none",
                                  ![r].attempts = IF @ = 0 THEN 0 ELSE @ - 1,
                                  ![r].due = "parked"]
            /\ wk' = [wk EXCEPT ![w] = [Idle EXCEPT !.pc = "poll"]]
    /\ UNCHANGED <<inst, inputs, template, tenants, made, count, crashed>>

(* dry_claim_check: a claim that is reverted at once, to show eligibility. *)
dry_claim_check(w) ==
    LET r == wk[w].r IN
    /\ wk[w].pc = "start"
    /\ req' = [req EXCEPT ![r].status = "queued", ![r].claimed_by = Nobody,
                          ![r].lease = "none",
                          ![r].attempts = IF @ = 0 THEN 0 ELSE @ - 1]
    /\ wk' = [wk EXCEPT ![w] = Idle]
    /\ UNCHANGED <<inst, inputs, template, tenants, made, count, crashed>>

----------------------------------------------------------------------------
(* provision_cloud_request. *)

(* Stages 1 to 5.  The checks of status, approval and fingerprint see the  *)
(* copy of the claim and pass again; a linked tenant or a missing template *)
(* database raises before the adapter's own error handling starts.  The    *)
(* tenant row, named after the run, and the links to it are one commit.    *)
ReserveTenant(w) ==
    LET r == wk[w].r IN
    /\ wk[w].pc = "start"
    /\ \/ /\ wk[w].mem.tenant # NoRun \/ ~ template.database
          /\ Goto(w, "mark_again") /\ UNCHANGED <<req, tenants, count>>
       \/ /\ wk[w].mem.tenant = NoRun /\ template.database
          /\ count.runs < MaxRuns
          /\ LET k == count.runs + 1 IN
             /\ tenants' = tenants \cup {k}
             /\ req' = [req EXCEPT ![r].tenant = k]
             /\ count' = [count EXCEPT !.runs = k]
             /\ wk' = [wk EXCEPT ![w].pc = "database", ![w].run = k,
                         ![w].mem = [Copy(r) EXCEPT !.tenant = k]]
    /\ UNCHANGED <<inst, inputs, template, made, crashed>>

(* What the stages make, in order, and where each leads. *)
Stages == [database  |-> {"role", "database"}, files |-> {"filestore"},
           container |-> {"container"}]
StageAfter == [database |-> "files", files |-> "container",
               container |-> "verify"]

(* Stages 6 to 11.  A stage that raises may have made a part of its         *)
(* resources.  The port is committed to the tenant row with the filestore:  *)
(* when the row is gone the commit fails, every further use of the session  *)
(* raises until execute_cloud_provisioning_job rolls it back, so the        *)
(* request is not marked and the first rollback does nothing.               *)
BuildStage(w) ==
    LET pc == wk[w].pc
        k  == wk[w].run IN
    /\ pc \in DOMAIN Stages
    /\ \E part \in SUBSET Stages[pc] :
         /\ "database" \in part => "role" \in part
         /\ made' = made \cup (part \X {k})
         /\ wk' = [wk EXCEPT ![w] =
              IF pc = "files" /\ part = Stages[pc] /\ k \notin tenants
              THEN [@ EXCEPT !.pc = "rollback", !.mem = Copy(wk[w].r),
                             !.again = TRUE]
              ELSE [@ EXCEPT !.pc = IF part = Stages[pc] THEN StageAfter[pc]
                                    ELSE "mark"]]
    /\ UNCHANGED <<req, inst, inputs, template, tenants, count, crashed>>

Verified(k) == Kinds \X {k} \subseteq made

(* Stages 12 and 13: the container answers, the database has Odoo's tables,*)
(* the filestore is there.                                                 *)
Verify(w) ==
    /\ wk[w].pc = "verify"
    /\ \/ Verified(wk[w].run) /\ Goto(w, "ready")
       \/ Goto(w, "mark")
    /\ UNCHANGED <<req, inst, inputs, template, tenants, made, count, crashed>>

(* Stage 14: request, instance and tenant become ready in one commit, which *)
(* fails when the tenant row is gone.                                       *)
MarkReady(w) ==
    LET r == wk[w].r IN
    /\ wk[w].pc = "ready"
    /\ IF wk[w].run \in tenants
       THEN /\ req' = [req EXCEPT ![r].status = "ready", ![r].verified = TRUE]
            /\ inst' = [inst EXCEPT ![r] = [status |-> "ready", verified |-> TRUE]]
            /\ wk' = [wk EXCEPT ![w] = Idle]
       ELSE /\ wk' = [wk EXCEPT ![w].pc = "mark", ![w].mem = Copy(r)]
            /\ UNCHANGED <<req, inst>>
    /\ UNCHANGED <<inputs, template, tenants, made, count, crashed>>

----------------------------------------------------------------------------
(* Failure: the adapter marks the request and rolls back, then the worker  *)
(* service marks it again when it is not settled and rolls back again.     *)

MarkFailed(w) ==
    LET r == wk[w].r IN
    /\ wk[w].pc = "mark"
    /\ req' = [req EXCEPT ![r].status = "failed"]
    /\ inst' = [inst EXCEPT ![r].status = "failed"]
    /\ wk' = [wk EXCEPT ![w].pc = "rollback", ![w].mem.status = "failed"]
    /\ UNCHANGED <<inputs, template, tenants, made, count, crashed>>

(* Mutant: without the check for a settled status. *)
MarkFailedAlways(w) ==
    LET r == wk[w].r IN
    /\ wk[w].pc = "mark_again"
    /\ req' = [req EXCEPT ![r].status = "failed"]
    /\ wk' = [wk EXCEPT ![w].pc = "rollback", ![w].again = TRUE,
                ![w].mem = [Copy(r) EXCEPT !.status = "failed"]]
    /\ UNCHANGED <<inst, inputs, template, tenants, made, count, crashed>>

MarkFailedAgain(w) ==
    LET r == wk[w].r IN
    /\ wk[w].pc = "mark_again"
    /\ req' = [req EXCEPT ![r].status =
                 IF @ \in {"failed", "rolled_back"} THEN @ ELSE "failed"]
    /\ wk' = [wk EXCEPT ![w].pc = "rollback", ![w].again = TRUE,
                ![w].mem = [Copy(r) EXCEPT !.status = req'[r].status]]
    /\ UNCHANGED <<inst, inputs, template, tenants, made, count, crashed>>

(* rollback_cloud_request, 1: the intent. *)
RollbackIntent(w) ==
    LET r == wk[w].r
        s == IF wk[w].mem.status = "rolled_back" THEN "rolled_back"
             ELSE "rollback_pending" IN
    /\ wk[w].pc = "rollback"
    /\ req' = [req EXCEPT ![r].status = IF s = "rolled_back" THEN @ ELSE s]
    /\ wk' = [wk EXCEPT ![w].pc = "remove", ![w].target = wk[w].mem.tenant,
                        ![w].mem.status = s]
    /\ UNCHANGED <<inst, inputs, template, tenants, made, count, crashed>>

(* Mutant: containers and filestores are never removed. *)
MayRemoveDatabases(kind, k, t) == kind \in {"role", "database"}

(* Whether a rollback by run k may remove what carries the name of run t:  *)
(* the database and its role always, the container and the filestore only  *)
(* when their names hold k.                                                *)
MayRemove(kind, k, t) == kind \in {"role", "database"} \/ k = t

(* 2 to 6: a removal that raises is recorded and the rollback goes on. *)
RemoveResources(w) ==
    LET t == wk[w].target
        doomed == {x \in made : x[2] = t /\ MayRemove(x[1], wk[w].run, t)} IN
    /\ wk[w].pc = "remove"
    /\ \E kept \in SUBSET doomed :
         /\ kept # {} => count.faults < MaxFaults
         /\ made' = made \ (doomed \ kept)
         /\ count' = [count EXCEPT !.faults = IF kept = {} THEN @ ELSE @ + 1]
    /\ Goto(w, "rows")
    /\ UNCHANGED <<req, inst, inputs, template, tenants, crashed>>

(* 8: the links are cleared and the tenant row deleted; when it is already *)
(* gone the session is rolled back and the request read anew.              *)
DeleteTenant(w) ==
    LET r == wk[w].r
        t == wk[w].target IN
    /\ wk[w].pc = "rows"
    /\ req' = [req EXCEPT ![r].tenant = IF t # NoRun THEN NoRun ELSE @]
    /\ tenants' = tenants \ {t}
    /\ wk' = [wk EXCEPT ![w].pc = "close",
                ![w].mem = IF t # NoRun /\ t \notin tenants
                           THEN [Copy(r) EXCEPT !.tenant = NoRun]
                           ELSE [@ EXCEPT !.tenant = NoRun]]
    /\ UNCHANGED <<inst, inputs, template, made, count, crashed>>

(* 9: the request becomes rolled_back; only columns that differ from the   *)
(* session's copy are written.                                             *)
CloseRollback(w) ==
    LET r == wk[w].r
        s == wk[w].mem.status IN
    /\ wk[w].pc = "close"
    /\ req' = [req EXCEPT
         ![r].status = IF s \in {"failed", "rolled_back"} THEN @ ELSE "rolled_back",
         ![r].verified = IF wk[w].mem.verified THEN FALSE ELSE @]
    /\ inst' = [inst EXCEPT ![r] =
         [status |-> IF @.status \in {"failed", "rolled_back"} THEN @.status
                     ELSE "rolled_back",
          verified |-> IF wk[w].mem.verified THEN FALSE ELSE @.verified]]
    /\ wk' = [wk EXCEPT ![w] = IF @.again THEN Idle
                               ELSE [@ EXCEPT !.pc = "mark_again"]]
    /\ UNCHANGED <<inputs, template, tenants, made, count, crashed>>

----------------------------------------------------------------------------
(* Time and faults. *)

(* A lease of five minutes runs out. *)
ExpireLease(r) ==
    /\ req[r].lease = "live"
    /\ Overlap \/ ~ AtWork(r)
    /\ req' = [req EXCEPT ![r].lease = "expired"]
    /\ UNCHANGED <<inst, inputs, template, tenants, made, wk, count, crashed>>

BackoffOver(r) ==
    /\ req[r].due = "later"
    /\ req' = [req EXCEPT ![r].due = "now"]
    /\ UNCHANGED <<inst, inputs, template, tenants, made, wk, count, crashed>>

(* A worker process is killed and started again. *)
Crash(w) ==
    /\ wk[w].pc # "idle" /\ count.crashes < MaxCrashes
    /\ wk' = [wk EXCEPT ![w] = Idle]
    /\ count' = [count EXCEPT !.crashes = @ + 1]
    /\ crashed' = crashed \cup ({wk[w].r} \ {0})
    /\ UNCHANGED <<req, inst, inputs, template, tenants, made>>

Init ==
    /\ req = [r \in Requests |-> NoRow]
    /\ inst = [r \in Requests |-> [status |-> "absent", verified |-> FALSE]]
    /\ inputs = [r \in Requests |-> "a"]
    /\ template = [validated |-> FALSE, database |-> FALSE]
    /\ tenants = {} /\ made = {} /\ crashed = {}
    /\ wk = [w \in Workers |-> Idle]
    /\ count = [runs |-> 0, crashes |-> 0, edits |-> 0, faults |-> 0]

WorkerStep(w) ==
    \/ ReconcileRead(w) \/ reconcile_stale_cloud_jobs(w)
    \/ claim_next_real_cloud_job(w) \/ NothingToClaim(w) \/ CheckApproval(w)
    \/ ReserveTenant(w) \/ BuildStage(w) \/ Verify(w) \/ MarkReady(w)
    \/ MarkFailed(w) \/ MarkFailedAgain(w) \/ RollbackIntent(w)
    \/ RemoveResources(w) \/ DeleteTenant(w) \/ CloseRollback(w)

Operator(r) ==
    \/ create_real_eligible_cloud_request(r) \/ retry_failed_cloud_job(r)
    \/ approve_cloud_request_quote(r) \/ revoke_cloud_request_quote(r)
    \/ approve_cloud_request_for_real_provisioning(r)
    \/ revoke_cloud_provisioning_approval(r)

Next ==
    \/ ensure_cloud_template_validated \/ LoseTemplate
    \/ \E r \in Requests :
         Operator(r) \/ EditInputs(r) \/ ExpireLease(r) \/ BackoffOver(r)
    \/ \E w \in Workers : WorkerStep(w) \/ dry_claim_check(w) \/ Crash(w)

(* The worker loop never stops and time passes; operators owe nothing. *)
Fairness ==
    /\ \A w \in Workers : WF_vars(WorkerStep(w))
    /\ \A r \in Requests : WF_vars(ExpireLease(r)) /\ WF_vars(BackoffOver(r))

Spec == Init /\ [][Next]_vars
FairSpec == Spec /\ Fairness

----------------------------------------------------------------------------
(* Properties. *)

(* Every variable stays within the values the code can give it. *)
TypeOK ==
    /\ req \in [Requests -> Rows] /\ inst \in [Requests -> Instances]
    /\ inputs \in [Requests -> {"a", "b", "bad"}]
    /\ template \in [validated : BOOLEAN, database : BOOLEAN]
    /\ tenants \subseteq Runs /\ made \subseteq Kinds \X Runs
    /\ wk \in [Workers -> WorkerRows] /\ crashed \subseteq Requests
    /\ count \in [runs : 0 .. MaxRuns, crashes : 0 .. MaxCrashes,
                  edits : 0 .. MaxEdits, faults : 0 .. MaxFaults]

can_open_odoo(r) == inst[r].status = "ready" /\ inst[r].verified

(* An instance a customer may open (can_open_odoo) has its tenant row, its *)
(* database, role, filestore and container, whatever other worker rolled   *)
(* back a run of the same request.                                         *)
OpenIsServed ==
    \A r \in Requests :
      can_open_odoo(r) =>
        /\ req[r].status = "ready" /\ req[r].tenant \in tenants
        /\ Kinds \X {req[r].tenant} \subseteq made

(* No two workers build, or build and roll back, the same request.         *)
OneExecutor ==
    \A v, w \in Workers :
      v # w /\ wk[v].pc \in Executing \cup Recovery
            /\ wk[w].pc \in Executing \cup Recovery => wk[v].r # wk[w].r

(* A rolled back request that no worker died on has left nothing behind,   *)
(* when no removal failed: rollback_cloud_request names every resource it  *)
(* may have made.                                                          *)
RolledBackIsClean ==
    (\A w \in Workers : wk[w].r = 0) /\ crashed = {} /\ count.faults = 0 =>
      \A x \in made : \E r \in Requests :
        req[r].tenant = x[2] /\ req[r].status = "ready"

(* The same for every history: what a rolled back request made is gone. *)
RollbackLeavesNothing ==
    (\A w \in Workers : wk[w].r = 0) /\ count.faults = 0
      /\ (\A r \in Requests : req[r].status = "rolled_back") => made = {}

(* Terminal statuses are final and ready is reached only from a claim: the *)
(* central contract of transitions, but for the requeue of a stale claim.  *)
LegalTransitions ==
    [][\A r \in Requests :
         LET s == req[r].status
             t == req'[r].status IN
         s # t /\ s # "absent" =>
           \/ t \in CLOUD_PROVISION_LEGAL_TRANSITIONS[s]
           \/ s = "provisioning" /\ t = "queued"]_vars

(* A claimed request does not stay claimed: a worker finishes it, or its   *)
(* lease expires and it is requeued or failed, whatever dies in between.   *)
ClaimsSettle ==
    \A r \in Requests :
      req[r].status = "provisioning" ~> req[r].status # "provisioning"

(* An approved, unchanged request in the queue is claimed, unless a claim  *)
(* has parked it: approving it again does not take it out of the car park. *)
Waiting(r) ==
    req[r].status = "queued" /\ is_cloud_request_approved_and_unchanged(r)
ApprovedIsServed ==
    \A r \in Requests : Waiting(r) /\ req[r].due # "parked" ~> ~ Waiting(r)

================================================================================
