------------------------------- MODULE ManualUat -------------------------------
(***************************************************************************)
(* The manual acceptance-test tenants: one fixed account per tester, with  *)
(* a fixed database, role, filestore and container name.                   *)
(* Sources: cloud_manual_uat_service, cloud_manual_uat_provisioner,        *)
(* manual_uat_worker_main, scripts/seed_helpers_cloud_manual_uat.          *)
(*                                                                         *)
(* Two processes provision: the polling worker and the operator's command  *)
(* line (seed, --provision-all, --reset).  No row is claimed: the request  *)
(* stays "queued" while it is built, and only the unique database name of  *)
(* the tenant row keeps the two apart.                                     *)
(***************************************************************************)
EXTENDS Integers, FiniteSets

CONSTANTS
    MaxAccounts,    \* accounts; the code has four
    MaxRequests,    \* bound: ids of provisioning requests
    MaxSuccess,     \* max_jobs: successes after which the worker exits
    MaxFaults,      \* bound: steps that raise
    MaxCrashes,     \* bound: processes killed
    MaxRuns,        \* bound: command lines the operator starts
    ResetOverlaps   \* --reset may run while the worker builds

(* The commands start with the first account. *)
UatAssumption == MaxAccounts \in Nat \ {0}

VARIABLES
    rows,       \* of the rows a seed makes, the ones the account has
    req,        \* its provisioning request
    tenant,     \* the status of the tenant row with its database's name
    res,        \* what exists under its names
    left,       \* history: of these, what a failed removal left behind
    agent,      \* where each process is in provision_manual_uat_request
    op,         \* the operator's command: its kind, account and seed step
    dirty,      \* requests changed in the operator's session, not committed
    done,       \* _processed_count
    nextId, faults, crashes, runs

uvars == <<rows, req, tenant, res, left, agent, op, dirty, done, nextId, faults, crashes, runs>>

MANUAL_UAT_ACCOUNTS == 1 .. MaxAccounts
Agents == {"worker", "operator"}
Resources == {"role", "database", "filestore", "container"}
SeedRows == {"user", "setup", "subscription", "instance"}

NoRequest == [id |-> 0, status |-> "none", approved |-> FALSE, tenant |-> FALSE]
IdleAgent == [step |-> "idle", a |-> 0, id |-> 0]
NoCommand == [kind |-> "idle", a |-> 0, step |-> "none"]

UInit ==
    /\ rows = [a \in MANUAL_UAT_ACCOUNTS |-> {}]
    /\ req = [a \in MANUAL_UAT_ACCOUNTS |-> NoRequest]
    /\ tenant = [a \in MANUAL_UAT_ACCOUNTS |-> "none"]
    /\ res = [a \in MANUAL_UAT_ACCOUNTS |-> {}]
    /\ left = [a \in MANUAL_UAT_ACCOUNTS |-> {}]
    /\ agent = [p \in Agents |-> IdleAgent]
    /\ op = NoCommand /\ dirty = {} /\ done = 0
    /\ nextId = 1 /\ faults = 0 /\ crashes = 0 /\ runs = 0

Least(S) == CHOOSE x \in S : \A y \in S : x <= y

(* What the operator's session has pending when it commits.  *)
Flushed(r) == [a \in MANUAL_UAT_ACCOUNTS |->
    IF a \in dirty /\ r[a].id # 0 THEN [r[a] EXCEPT !.status = "queued", !.tenant = FALSE] ELSE r[a]]

---------------------------------------------------------------------------
(* Seeding: every row is looked up and made in a commit of its own.  *)

StartCommand(kind) ==
    /\ op = NoCommand /\ runs < MaxRuns
    /\ kind = "reset" /\ ~ResetOverlaps => agent["worker"] = IdleAgent
    /\ runs' = runs + 1
    /\ op' = [kind |-> kind, a |-> 1, step |-> IF kind = "reset" THEN "database" ELSE "user"]
    /\ UNCHANGED <<rows, req, tenant, res, left, agent, dirty, done, nextId, faults, crashes>>

Made(row, step) ==
    /\ op.kind \in {"seed", "provision", "accounts"} /\ op.step = row
    /\ rows' = [rows EXCEPT ![op.a] = @ \cup {row}]
    /\ op' = [op EXCEPT !.step = step]
    /\ UNCHANGED <<req, tenant, res, left, agent, dirty, done, nextId, faults, crashes, runs>>

_ensure_user == Made("user", "setup")

(* The accounts-only seed stops at the set-up. *)
_ensure_setup == Made("setup", IF op.kind = "accounts" THEN "next" ELSE "subscription")

EnsureSubscription == Made("subscription", "request")
EnsureInstance == Made("instance", "approve")

(* The request is found by its key, or made. *)
_ensure_subscription_and_request ==
    /\ op.kind \in {"seed", "provision"} /\ op.step = "request"
    /\ \/ req[op.a].id # 0 /\ UNCHANGED <<req, nextId>>
       \/ /\ req[op.a].id = 0 /\ nextId <= MaxRequests
          /\ req' = [req EXCEPT ![op.a] = [NoRequest EXCEPT !.id = nextId, !.status = "queued"]]
          /\ nextId' = nextId + 1
    /\ op' = [op EXCEPT !.step = "instance"]
    /\ UNCHANGED <<rows, tenant, res, left, agent, dirty, done, faults, crashes, runs>>

(* The quote and the provisioning approved by the seed itself. *)
Approve ==
    /\ op.kind \in {"seed", "provision"} /\ op.step = "approve"
    /\ req' = [req EXCEPT ![op.a].approved = (@ \/ req[op.a].id # 0)]
    /\ op' = [op EXCEPT !.step = "next"]
    /\ UNCHANGED <<rows, tenant, res, left, agent, dirty, done, nextId, faults, crashes, runs>>

(* seed_manual_uat: the next account; after the last, --provision-all goes   *)
(* through the accounts again.                                               *)
seed_manual_uat ==
    /\ op.step = "next"
    /\ op' = IF op.a < MaxAccounts THEN [op EXCEPT !.a = @ + 1, !.step = "user"]
             ELSE IF op.kind = "provision" THEN [op EXCEPT !.a = 1, !.step = "run"]
             ELSE NoCommand
    /\ UNCHANGED <<rows, req, tenant, res, left, agent, dirty, done, nextId, faults, crashes,
                   runs>>

---------------------------------------------------------------------------
(* Provisioning. *)

Allowed == {a \in MANUAL_UAT_ACCOUNTS : /\ req[a].status = "queued" /\ req[a].approved
                                        /\ "subscription" \in rows[a]}
get_manual_uat_allow_list == {req[a].id : a \in Allowed}

(* The gates: approved, without a tenant; a failed request is queued again   *)
(* and its tenant forgotten, in memory.                                      *)
_validate_manual_uat_gates(a) ==
    /\ req[a].status \in {"queued", "failed"} /\ req[a].approved
    /\ req[a].status = "failed" \/ ~req[a].tenant

Collides(a) == res[a] \cap {"database", "container", "filestore"} # {}

(* The worker takes the eligible request with the smallest id, and nothing   *)
(* when that one has a tenant.  A collision raises before anything is        *)
(* written.                                                                  *)
process_one ==
    /\ agent["worker"] = IdleAgent /\ done < MaxSuccess /\ get_manual_uat_allow_list # {}
    /\ op.kind = "reset" => ResetOverlaps
    /\ LET a == CHOOSE x \in Allowed : req[x].id = Least(get_manual_uat_allow_list)
       IN /\ _validate_manual_uat_gates(a) /\ ~Collides(a)
          /\ agent' = [agent EXCEPT !["worker"] = [step |-> "reserve", a |-> a, id |-> req[a].id]]
    /\ UNCHANGED <<rows, req, tenant, res, left, op, dirty, done, nextId, faults, crashes,
                   runs>>

(* --provision-all, for its current account.  The session is kept when a     *)
(* collision raises, with the failed request's reset in it.                  *)
ProvisionAll ==
    /\ op.kind = "provision" /\ op.step = "run"
    /\ IF ~_validate_manual_uat_gates(op.a)
       THEN /\ op' = [op EXCEPT !.step = "ran"] /\ UNCHANGED <<agent, dirty>>
       ELSE /\ dirty' = IF req[op.a].status = "failed" THEN dirty \cup {op.a} ELSE dirty
            /\ IF Collides(op.a)
               THEN op' = [op EXCEPT !.step = "ran"] /\ UNCHANGED agent
               ELSE /\ agent' = [agent EXCEPT !["operator"] =
                                    [step |-> "reserve", a |-> op.a, id |-> req[op.a].id]]
                    /\ op' = [op EXCEPT !.step = "running"]
    /\ UNCHANGED <<rows, req, tenant, res, left, done, nextId, faults, crashes, runs>>

ProvisionNext ==
    /\ op.kind = "provision" /\ op.step = "ran"
    /\ op' = IF op.a < MaxAccounts THEN [op EXCEPT !.a = @ + 1, !.step = "run"] ELSE NoCommand
    /\ dirty' = IF op.a < MaxAccounts THEN dirty ELSE {}
    /\ UNCHANGED <<rows, req, tenant, res, left, agent, done, nextId, faults, crashes, runs>>

(* The agent's part is over: the worker polls again, --provision-all goes    *)
(* on, or dies with its session broken.                                      *)
Ends(p, broken) ==
    /\ agent' = [agent EXCEPT ![p] = IdleAgent]
    /\ op' = IF p = "worker" THEN op
             ELSE IF broken THEN NoCommand ELSE [op EXCEPT !.step = "ran"]

(* What is still the request the agent read. *)
Mine(p) == req[agent[p].a].id = agent[p].id

(* Mutant: the reservation is inside the try block, so losing it rolls back. *)
ReserveInTry(p) ==
    /\ agent[p].step = "reserve"
    /\ LET a == agent[p].a
       IN IF tenant[a] = "none" /\ Mine(p)
          THEN /\ tenant' = [tenant EXCEPT ![a] = "provisioning"]
               /\ req' = [req EXCEPT ![a].tenant = TRUE]
               /\ agent' = [agent EXCEPT ![p].step = "role"]
          ELSE /\ agent' = [agent EXCEPT ![p].step = "undo container"]
               /\ UNCHANGED <<req, tenant>>
    /\ UNCHANGED <<rows, res, left, op, dirty, done, nextId, faults, crashes, runs>>

(* Mutant: the tenant row of another process is taken over. *)
ReserveUnguarded(p) ==
    /\ agent[p].step = "reserve"
    /\ tenant' = [tenant EXCEPT ![agent[p].a] = "provisioning"]
    /\ req' = [req EXCEPT ![agent[p].a].tenant = TRUE]
    /\ agent' = [agent EXCEPT ![p].step = "role"]
    /\ UNCHANGED <<rows, res, left, op, dirty, done, nextId, faults, crashes, runs>>

(* The tenant row: its database name is unique, and the request has to be    *)
(* there still.                                                              *)
ReserveTenant(p) ==
    /\ agent[p].step = "reserve"
    /\ LET a == agent[p].a
           pending == IF p = "operator" THEN Flushed(req) ELSE req
       IN IF tenant[a] = "none" /\ Mine(p)
          THEN /\ tenant' = [tenant EXCEPT ![a] = "provisioning"]
               /\ req' = [pending EXCEPT ![a].tenant = TRUE]
               /\ dirty' = IF p = "operator" THEN {} ELSE dirty
               /\ agent' = [agent EXCEPT ![p].step = "role"]
               /\ UNCHANGED op
          ELSE /\ Ends(p, TRUE)
               /\ dirty' = IF p = "operator" THEN {} ELSE dirty
               /\ UNCHANGED <<req, tenant>>
    /\ UNCHANGED <<rows, res, left, done, nextId, faults, crashes, runs>>

ProvisionSteps == {"role", "database", "filestore", "modules", "container", "company"}

Provision(p, step, then) ==
    /\ agent[p].step = step
    /\ res' = [res EXCEPT ![agent[p].a] = @ \cup ({step} \cap Resources)]
    /\ left' = [left EXCEPT ![agent[p].a] = @ \ {step}]
    /\ agent' = [agent EXCEPT ![p].step = then]
    /\ UNCHANGED <<rows, req, tenant, op, dirty, done, nextId, faults, crashes, runs>>

create_tenant_role(p) == Provision(p, "role", "database")

(* A database under the name is taken as it is. *)
clone_database_from_template(p) == Provision(p, "database", "filestore")

_prepare_filestore(p) == Provision(p, "filestore", "modules")
_install_package_modules(p) == Provision(p, "modules", "container")

(* A container under the name is replaced. *)
StartContainer(p) == Provision(p, "container", "company")

(* wait_odoo_healthy, then the company, the user and the password. *)
_init_odoo_company_and_user(p) == Provision(p, "company", "verify")

(* The container answers: request, instance and tenant in one commit.        *)
MarkReady(p) ==
    /\ agent[p].step = "verify"
    /\ "container" \in res[agent[p].a] /\ Mine(p) /\ tenant[agent[p].a] # "none"
    /\ req' = [req EXCEPT ![agent[p].a].status = "ready", ![agent[p].a].tenant = TRUE]
    /\ tenant' = [tenant EXCEPT ![agent[p].a] = "active"]
    /\ done' = IF p = "worker" THEN done + 1 ELSE done
    /\ Ends(p, FALSE)
    /\ UNCHANGED <<rows, res, left, dirty, nextId, faults, crashes, runs>>

(* A step raises, or finds its container or rows gone.  When the rows are    *)
(* gone the handler's own commit fails and nothing is undone.                *)
ProvisionFails(p) ==
    /\ agent[p].step \in ProvisionSteps \cup {"verify"}
    /\ LET a == agent[p].a
           sure == /\ agent[p].step = "verify"
                   /\ ~("container" \in res[a] /\ Mine(p) /\ tenant[a] # "none")
       IN /\ sure \/ faults < MaxFaults
          /\ faults' = IF sure THEN faults ELSE faults + 1
          /\ IF Mine(p) /\ tenant[a] # "none"
             THEN /\ req' = [req EXCEPT ![a].status = "failed"]
                  /\ agent' = [agent EXCEPT ![p].step = "undo container"]
                  /\ UNCHANGED op
             ELSE UNCHANGED req /\ Ends(p, TRUE)
    /\ UNCHANGED <<rows, tenant, res, left, dirty, done, nextId, crashes, runs>>

UndoStep == [container |-> "undo container", database |-> "undo database",
             role |-> "undo role", filestore |-> "undo filestore"]
(* Mutant: the rollback leaves the filestore. *)
UndoForgetsFilestore == [container |-> "undo database", database |-> "undo role",
                         role |-> "undo rows", filestore |-> "undo rows"]

UndoAfter == [container |-> "undo database", database |-> "undo role",
              role |-> "undo filestore", filestore |-> "undo rows"]

(* rollback_manual_uat_request: four removals, each passed over when it      *)
(* raises ...                                                                *)
Remove(p, r) ==
    /\ agent[p].step = UndoStep[r]
    /\ \/ /\ res' = [res EXCEPT ![agent[p].a] = @ \ {r}]
          /\ left' = [left EXCEPT ![agent[p].a] = @ \ {r}]
          /\ UNCHANGED faults
       \/ /\ faults < MaxFaults /\ faults' = faults + 1
          /\ left' = [left EXCEPT ![agent[p].a] = @ \cup {r}]
          /\ UNCHANGED res
    /\ agent' = [agent EXCEPT ![p].step = UndoAfter[r]]
    /\ UNCHANGED <<rows, req, tenant, op, dirty, done, nextId, crashes, runs>>

(* ... then the rows: the link in one commit, the tenant in the next. *)
rollback_manual_uat_request(p) ==
    /\ \/ /\ agent[p].step = "undo rows"
          /\ req' = IF Mine(p) THEN [req EXCEPT ![agent[p].a].tenant = FALSE] ELSE req
          /\ agent' = [agent EXCEPT ![p].step = "undo tenant"]
          /\ UNCHANGED <<tenant, op>>
       \/ /\ agent[p].step = "undo tenant"
          /\ tenant' = [tenant EXCEPT ![agent[p].a] = "none"]
          /\ Ends(p, FALSE)
          /\ UNCHANGED req
    /\ UNCHANGED <<rows, res, left, dirty, done, nextId, faults, crashes, runs>>

---------------------------------------------------------------------------
(* --reset: what a linked tenant left is removed, errors swallowed; then the *)
(* account's rows go in one commit.                                          *)

ResetAfter == [database |-> "role", role |-> "container", container |-> "filestore",
               filestore |-> "rows"]

ResetRemoves ==
    /\ op.kind = "reset" /\ op.step \in DOMAIN ResetAfter
    /\ \/ /\ ~(req[op.a].tenant /\ tenant[op.a] # "none")
          /\ UNCHANGED <<res, left, faults>>
       \/ /\ req[op.a].tenant /\ tenant[op.a] # "none"
          /\ res' = [res EXCEPT ![op.a] = @ \ {op.step}]
          /\ left' = [left EXCEPT ![op.a] = @ \ {op.step}]
          /\ UNCHANGED faults
       \/ /\ req[op.a].tenant /\ tenant[op.a] # "none"
          /\ faults < MaxFaults /\ faults' = faults + 1
          /\ left' = [left EXCEPT ![op.a] = @ \cup {op.step}]
          /\ UNCHANGED res
    /\ op' = [op EXCEPT !.step = ResetAfter[@]]
    /\ UNCHANGED <<rows, req, tenant, agent, dirty, done, nextId, crashes, runs>>

reset_manual_uat ==
    /\ op.kind = "reset" /\ op.step = "rows"
    /\ tenant' = IF req[op.a].tenant THEN [tenant EXCEPT ![op.a] = "none"] ELSE tenant
    /\ req' = [req EXCEPT ![op.a] = NoRequest]
    /\ rows' = [rows EXCEPT ![op.a] = {}]
    /\ op' = IF op.a < MaxAccounts THEN [op EXCEPT !.a = @ + 1, !.step = "database"] ELSE NoCommand
    /\ UNCHANGED <<res, left, agent, dirty, done, nextId, faults, crashes, runs>>

(* A process is killed. *)
UCrash(p) ==
    /\ crashes < MaxCrashes
    /\ agent[p] # IdleAgent \/ (p = "operator" /\ op # NoCommand)
    /\ crashes' = crashes + 1
    /\ agent' = [agent EXCEPT ![p] = IdleAgent]
    /\ IF p = "operator" THEN op' = NoCommand /\ dirty' = {} ELSE UNCHANGED <<op, dirty>>
    /\ UNCHANGED <<rows, req, tenant, res, left, done, nextId, faults, runs>>

---------------------------------------------------------------------------
AgentStep(p) ==
    \/ ReserveTenant(p) \/ create_tenant_role(p) \/ clone_database_from_template(p)
    \/ _prepare_filestore(p) \/ _install_package_modules(p) \/ StartContainer(p)
    \/ _init_odoo_company_and_user(p) \/ MarkReady(p) \/ ProvisionFails(p)
    \/ \E r \in Resources : Remove(p, r)
    \/ rollback_manual_uat_request(p)

CommandStep ==
    \/ _ensure_user \/ _ensure_setup \/ EnsureSubscription \/ EnsureInstance
    \/ _ensure_subscription_and_request \/ Approve \/ seed_manual_uat
    \/ ProvisionAll \/ ProvisionNext
    \/ ResetRemoves \/ reset_manual_uat

UNext ==
    \/ \E kind \in {"seed", "accounts", "provision", "reset"} : StartCommand(kind)
    \/ CommandStep
    \/ process_one
    \/ \E p \in Agents : AgentStep(p) \/ UCrash(p)

USpec == UInit /\ [][UNext]_uvars

---------------------------------------------------------------------------
UTypeOK ==
    /\ rows \in [MANUAL_UAT_ACCOUNTS -> SUBSET SeedRows]
    /\ req \in [MANUAL_UAT_ACCOUNTS ->
         [id : 0 .. MaxRequests, status : {"none", "queued", "ready", "failed"},
          approved : BOOLEAN, tenant : BOOLEAN]]
    /\ tenant \in [MANUAL_UAT_ACCOUNTS -> {"none", "provisioning", "active"}]
    /\ res \in [MANUAL_UAT_ACCOUNTS -> SUBSET Resources]
    /\ dirty \subseteq MANUAL_UAT_ACCOUNTS

(* A request that is ready has an active tenant of its own, whoever built    *)
(* it and whatever failed or was retried before, and all four resources,     *)
(* until a reset starts on it (provision_manual_uat_request).  A reset that  *)
(* is killed leaves a ready request without them.                            *)
ReadyIsServed ==
    \A a \in MANUAL_UAT_ACCOUNTS :
        req[a].status = "ready" =>
            /\ tenant[a] = "active" /\ req[a].tenant
            /\ res[a] = Resources \/ crashes > 0 \/ (op.kind = "reset" /\ op.a = a)

(* What exists under an account's names has the tenant row that lets a       *)
(* rollback or a reset find it again, but for what a removal failed to take  *)
(* away: that one is passed over and the row deleted all the same            *)
(* (rollback_manual_uat_request, reset_manual_uat).  The failure of one      *)
(* removal, or of a step or a process before it, costs none of the others.   *)
NothingOrphaned ==
    \A a \in MANUAL_UAT_ACCOUNTS : tenant[a] = "none" => res[a] \subseteq left[a]

(* The worker and the operator never build the same account at a time,       *)
(* although neither claims the request.                                      *)
OneProvisioner ==
    \A p, q \in Agents :
        agent[p].a = agent[q].a /\ {agent[p].step, agent[q].step} \cap {"idle", "reserve"} = {}
            => p = q

================================================================================
