--------------------------- MODULE TenantProvisioning ---------------------------
(***************************************************************************)
(* Tenant provisioning: services/provisioning_service.py with its          *)
(* compensation in provisioning_rollback.py.                               *)
(*                                                                         *)
(* Operators queue, retry and reconcile jobs through the API; one worker   *)
(* process (worker_main.py) polls the same SQLite database, reconciles     *)
(* stale jobs, claims the oldest queued one and executes it.  A thread     *)
(* works on ORM copies of the rows it loaded, and a commit writes the      *)
(* attributes it changed.  A step is one commit, one read a later decision *)
(* depends on, or one call of Postgres, docker or the file system.  The    *)
(* environment row, ports, URLs, passwords, error texts and audit events   *)
(* are left out: no decision of a job reads them.                          *)
(***************************************************************************)
EXTENDS Integers, FiniteSets

CONSTANTS
    MaxJobs,        \* bound: rows ever inserted into provisioning_jobs
    Subscriptions,  \* eligible customer subscriptions
    Keys,           \* idempotency keys the operators use
    MaxAttempts,    \* settings.provisioning_max_attempts
    Daemon,         \* the provisioning worker process
    Handlers,       \* bound: operator requests served at the same time
    Ops,            \* the kinds of request the operators of a run issue
    Refusing,       \* the kinds of resource whose removal may be refused
    SlowJobs,       \* an execution may outlast the stale threshold
    MaxCrashes      \* bound: deaths of the worker or of a request

ASSUME ProvisioningAssumption ==
    /\ MaxJobs \in Nat /\ MaxAttempts \in Nat /\ MaxCrashes \in Nat
    /\ Daemon \notin Handlers /\ IsFiniteSet(Handlers)
    /\ Ops \subseteq {"queue", "retry", "reconcile"}
    /\ Refusing \subseteq {"container", "database", "role", "filestore"}
    /\ SlowJobs \in BOOLEAN

Jobs     == 1 .. MaxJobs                \* primary keys, in insertion order
Tenants  == Jobs                        \* a job reserves at most one tenant
NoTenant == 0                           \* ProvisioningJob.tenant_id IS NULL
Threads  == Handlers \cup {Daemon}

ACTIVE_PROVISIONING_STATUSES == {"queued", "running", "rollback_required"}
RETRYABLE_STATUSES == {"failed", "rollback_failed", "rolled_back"}

JobStatuses ==
    ACTIVE_PROVISIONING_STATUSES \cup RETRYABLE_STATUSES \cup {"none", "succeeded"}
RollbackStatuses == {"none", "pending", "completed", "failed"}

(* The columns that guards read; "none" is a row not yet inserted. *)
JobRows == [status : JobStatuses, sub : Subscriptions \cup {"none"},
            key : Keys \cup {"none"}, tenant : Tenants \cup {NoTenant},
            attempts : Nat, rollback : RollbackStatuses]
NoJob == [status |-> "none", sub |-> "none", key |-> "none",
          tenant |-> NoTenant, attempts |-> 0, rollback |-> "none"]

(* files and named: filestore_path and container_name are recorded. *)
TenantRows == [status : {"none", "provisioning", "active", "failed"},
               sub : Subscriptions \cup {"none"}, files : BOOLEAN, named : BOOLEAN]
NoRow == [status |-> "none", sub |-> "none", files |-> FALSE, named |-> FALSE]

VARIABLES
    job,        \* the table provisioning_jobs
    tenant,     \* the table tenants
    roles,      \* tenants whose Postgres role exists
    databases,  \* tenants whose database exists
    containers, \* tenants whose Odoo container exists
    filestores, \* tenants whose filestore directory exists
    stale,      \* running jobs whose started_at is past the threshold
    thread,     \* program counter and session of each thread
    crashes     \* crashes so far

resources == <<roles, databases, containers, filestores>>
tables    == <<job, tenant>>
vars      == <<tables, resources, stale, thread, crashes>>

EXECUTE_PCS  == {"validate", "filestore", "filepath", "role", "clone", "port",
                 "container", "health", "succeed", "audit", "fail"}
ROLLBACK_PCS == {"mark", "rollback", "rmContainer", "rmDatabase", "rmRole",
                 "rmFilestore", "tenantFailed", "outcome", "final"}
Pcs == EXECUTE_PCS \cup ROLLBACK_PCS \cup {"idle", "claim", "insert", "requeue"}

ThreadStates ==
    [pc : Pcs, job : Jobs \cup {0}, todo : SUBSET Jobs, seen : [Jobs -> JobRows],
     copy : TenantRows, errors : BOOLEAN,
     sub : Subscriptions \cup {"none"}, key : Keys \cup {"none"}]

Idle == [pc |-> "idle", job |-> 0, todo |-> {}, seen |-> [j \in Jobs |-> NoJob],
         copy |-> NoRow, errors |-> FALSE, sub |-> "none", key |-> "none"]

------------------------------------------------------------------------------
(* Reading and committing.                                                 *)

Inserted == {j \in Jobs : job[j].status # "none"}
Queued   == {j \in Jobs : job[j].status = "queued"}
TenantOf(s) == {t \in Tenants : tenant[t].sub = s}

Least(S) == CHOOSE j \in S : \A k \in S : j <= k

At(x, pc)   == thread[x].pc = pc
Goto(x, pc) == thread' = [thread EXCEPT ![x].pc = pc]
Mine(x)     == thread[x].seen[thread[x].job]     \* the copy of its current job
MyTenant(x) == Mine(x).tenant

Merge(now, seen, new) == IF new # seen THEN new ELSE now

(* db.commit() after changes of the current job; then go on at pc. *)
CommitJob(x, new, pc) ==
    LET j == thread[x].job  seen == Mine(x) IN
    /\ job' = [job EXCEPT ![j].status   = Merge(@, seen.status, new.status),
                          ![j].tenant   = Merge(@, seen.tenant, new.tenant),
                          ![j].rollback = Merge(@, seen.rollback, new.rollback)]
    /\ thread' = [thread EXCEPT ![x].pc = pc, ![x].seen[j] = new]

(* The same for the tenant row of the current job. *)
CommitTenant(x, new, pc) ==
    LET t == MyTenant(x)  seen == thread[x].copy IN
    /\ tenant' = [tenant EXCEPT ![t].status = Merge(@, seen.status, new.status),
                                ![t].files  = Merge(@, seen.files, new.files),
                                ![t].named  = Merge(@, seen.named, new.named)]
    /\ thread' = [thread EXCEPT ![x].pc = pc, ![x].copy = new]

------------------------------------------------------------------------------
(* Operator requests: queue_provisioning and retry_failed_job.             *)

Queueing == {h \in Handlers : At(h, "insert")}

(* A key that is known returns its job; every refusal leaves no trace. *)
QueueCheck(h, s, k) ==
    /\ "queue" \in Ops /\ At(h, "idle")
    /\ Cardinality(Inserted) + Cardinality(Queueing) < MaxJobs
    /\ \A j \in Inserted : job[j].key # k
    /\ \A j \in Inserted :
           job[j].sub = s => job[j].status \notin ACTIVE_PROVISIONING_STATUSES
    /\ \A t \in TenantOf(s) : tenant[t].status \notin {"active", "provisioning"}
    /\ thread' = [thread EXCEPT ![h] = [Idle EXCEPT !.pc = "insert", !.sub = s, !.key = k]]
    /\ UNCHANGED <<tables, resources, stale, crashes>>

(* uq_provisioning_idempotency refuses a key that was inserted meanwhile. *)
QueueInsert(h) ==
    /\ At(h, "insert")
    /\ \/ /\ \A j \in Inserted : job[j].key # thread[h].key
          /\ job' = [job EXCEPT ![Least(Jobs \ Inserted)] =
                 [NoJob EXCEPT !.status = "queued", !.sub = thread[h].sub,
                               !.key = thread[h].key]]
       \/ /\ \E j \in Inserted : job[j].key = thread[h].key
          /\ UNCHANGED job
    /\ thread' = [thread EXCEPT ![h] = Idle]
    /\ UNCHANGED <<tenant, resources, stale, crashes>>

RetryCheck(h, j) ==
    /\ "retry" \in Ops /\ At(h, "idle")
    /\ job[j].status \in RETRYABLE_STATUSES
    /\ job[j].attempts < MaxAttempts
    /\ thread' = [thread EXCEPT ![h] =
           [Idle EXCEPT !.pc = "requeue", !.job = j, !.seen[j] = job[j]]]
    /\ UNCHANGED <<tables, resources, stale, crashes>>

(* Neither rollback_status nor tenant_id is reset. *)
RetryWrite(h) ==
    /\ At(h, "requeue")
    /\ job' = [job EXCEPT ![thread[h].job].status = "queued"]
    /\ stale' = stale \ {thread[h].job}
    /\ thread' = [thread EXCEPT ![h] = Idle]
    /\ UNCHANGED <<tenant, resources, crashes>>

------------------------------------------------------------------------------
(* reconcile_stale_running_jobs, by the worker at the start of every poll  *)
(* and by operators: the stale jobs are loaded at once, then compensated   *)
(* one after the other.                                                    *)

(* Mutant: the age of a running job is not looked at. *)
StaleRunningAny == {j \in Jobs : job[j].status = "running"}

StaleRunning == {j \in stale : job[j].status = "running"}

Loaded(todo) ==
    [Idle EXCEPT !.pc = "mark", !.job = Least(todo), !.todo = todo,
                 !.seen = [j \in Jobs |-> IF j \in todo THEN job[j] ELSE NoJob]]

(* Mutant: the worker goes straight to the queue. *)
PollNoReconcile ==
    /\ At(Daemon, "idle")
    /\ thread' = [thread EXCEPT ![Daemon] = [Idle EXCEPT !.pc = "claim"]]
    /\ UNCHANGED <<tables, resources, stale, crashes>>

Poll ==
    /\ At(Daemon, "idle")
    /\ thread' = [thread EXCEPT ![Daemon] =
           IF StaleRunning = {} THEN [Idle EXCEPT !.pc = "claim"] ELSE Loaded(StaleRunning)]
    /\ UNCHANGED <<tables, resources, stale, crashes>>

OperatorReconcile(h) ==
    /\ "reconcile" \in Ops /\ At(h, "idle") /\ StaleRunning # {}
    /\ thread' = [thread EXCEPT ![h] = Loaded(StaleRunning)]
    /\ UNCHANGED <<tables, resources, stale, crashes>>

(* The job is marked, here and in _fail_job with trigger_rollback ... *)
RollbackRequired(x) ==
    /\ thread[x].pc \in {"mark", "fail"}
    /\ CommitJob(x, [Mine(x) EXCEPT !.status = "rollback_required"], "rollback")
    /\ UNCHANGED <<tenant, resources, stale, crashes>>

------------------------------------------------------------------------------
(* rollback_provisioning_job.                                              *)

(* The tenant is in the worker's session already; a reconciler loads it. *)
RollbackBegin(x) ==
    /\ At(x, "rollback")
    /\ \/ /\ Mine(x).rollback = "completed"
          /\ Goto(x, "final")
          /\ UNCHANGED job
       \/ /\ Mine(x).rollback # "completed"
          /\ LET t == MyTenant(x)
                 pending == [Mine(x) EXCEPT !.rollback = "pending"]
             IN /\ job' = [job EXCEPT ![thread[x].job].rollback =
                              Merge(@, Mine(x).rollback, "pending")]
                /\ thread' = [thread EXCEPT
                       ![x].pc = IF t = NoTenant THEN "outcome" ELSE "rmContainer",
                       ![x].seen[thread[x].job] = pending,
                       ![x].copy = IF t = NoTenant \/ thread[x].todo = {}
                                   THEN @ ELSE tenant[t]]
    /\ UNCHANGED <<tenant, resources, stale, crashes>>

(* One resource: removed, absent already, or refused, which is remembered. *)
Failing(x, pc) == thread' = [thread EXCEPT ![x].pc = pc, ![x].errors = TRUE]

Refused(x, kind, pc) == kind \in Refusing /\ Failing(x, pc)

RemoveContainer(x) ==
    /\ At(x, "rmContainer")
    /\ \/ /\ containers' = IF thread[x].copy.named THEN containers \ {MyTenant(x)}
                           ELSE containers
          /\ Goto(x, "rmDatabase")
       \/ /\ thread[x].copy.named
          /\ Refused(x, "container", "rmDatabase") /\ UNCHANGED containers
    /\ UNCHANGED <<tables, roles, databases, filestores, stale, crashes>>

DropDatabase(x) ==
    /\ At(x, "rmDatabase")
    /\ \/ databases' = databases \ {MyTenant(x)} /\ Goto(x, "rmRole")
       \/ UNCHANGED databases /\ Refused(x, "database", "rmRole")
    /\ UNCHANGED <<tables, roles, containers, filestores, stale, crashes>>

(* Postgres does not drop a role that still owns a database. *)
DropRole(x) ==
    /\ At(x, "rmRole")
    /\ \/ /\ MyTenant(x) \notin databases
          /\ roles' = roles \ {MyTenant(x)} /\ Goto(x, "rmFilestore")
       \/ MyTenant(x) \in databases /\ UNCHANGED roles /\ Failing(x, "rmFilestore")
       \/ UNCHANGED roles /\ Refused(x, "role", "rmFilestore")
    /\ UNCHANGED <<tables, databases, containers, filestores, stale, crashes>>

(* A recorded path that is no directory any more counts as an error. *)
RemoveFilestore(x) ==
    /\ At(x, "rmFilestore")
    /\ LET t == MyTenant(x) IN
       \/ /\ ~thread[x].copy.files
          /\ Goto(x, "tenantFailed") /\ UNCHANGED filestores
       \/ /\ thread[x].copy.files /\ t \in filestores
          /\ filestores' = filestores \ {t} /\ Goto(x, "tenantFailed")
       \/ /\ thread[x].copy.files /\ t \notin filestores
          /\ Failing(x, "tenantFailed") /\ UNCHANGED filestores
       \/ /\ thread[x].copy.files
          /\ Refused(x, "filestore", "tenantFailed") /\ UNCHANGED filestores
    /\ UNCHANGED <<tables, roles, databases, containers, stale, crashes>>

TenantFailed(x) ==
    /\ At(x, "tenantFailed")
    /\ CommitTenant(x, [thread[x].copy EXCEPT !.status = "failed"], "outcome")
    /\ UNCHANGED <<job, resources, stale, crashes>>

RollbackOutcome(x) ==
    /\ At(x, "outcome")
    /\ CommitJob(x, [Mine(x) EXCEPT !.rollback =
           IF thread[x].errors THEN "failed" ELSE "completed"], "final")
    /\ UNCHANGED <<tenant, resources, stale, crashes>>

(* The caller's last commit; a reconciler goes on to its next job. *)
NextInTodo(x) ==
    LET todo == thread[x].todo \ {thread[x].job} IN
    IF todo # {}
    THEN [thread[x] EXCEPT !.pc = "mark", !.todo = todo, !.job = Least(todo),
                           !.errors = FALSE, !.copy = NoRow]
    ELSE IF x = Daemon /\ thread[x].todo # {} THEN [Idle EXCEPT !.pc = "claim"] ELSE Idle

(* Mutant: PROV_ROLLBACK_COMPLETED is written where PROV_ROLLED_BACK belongs. *)
RollbackFinalCompleted(x) ==
    /\ At(x, "final")
    /\ job' = [job EXCEPT ![thread[x].job].status =
           IF thread[x].errors THEN "rollback_failed" ELSE "completed"]
    /\ thread' = [thread EXCEPT ![x] = NextInTodo(x)]
    /\ UNCHANGED <<tenant, resources, stale, crashes>>

RollbackFinal(x) ==
    /\ At(x, "final")
    /\ job' = [job EXCEPT ![thread[x].job].status =
           IF thread[x].errors THEN "rollback_failed" ELSE "rolled_back"]
    /\ thread' = [thread EXCEPT ![x] = NextInTodo(x)]
    /\ UNCHANGED <<tenant, resources, stale, crashes>>

Rollback(x) ==
    \/ RollbackRequired(x) \/ RollbackBegin(x)
    \/ RemoveContainer(x) \/ DropDatabase(x) \/ DropRole(x) \/ RemoveFilestore(x)
    \/ TenantFailed(x) \/ RollbackOutcome(x) \/ RollbackFinal(x)

------------------------------------------------------------------------------
(* The worker: claim_next_job and execute_provisioning_job.                *)

Claim ==
    /\ At(Daemon, "claim")
    /\ \/ /\ Queued = {}
          /\ thread' = [thread EXCEPT ![Daemon] = Idle]
          /\ UNCHANGED <<job, stale>>
       \/ /\ Queued # {}
          /\ LET j == Least(Queued)
                 claimed == [job[j] EXCEPT !.status = "running", !.attempts = @ + 1]
             IN /\ job' = [job EXCEPT ![j] = claimed]
                /\ stale' = stale \ {j}
                /\ thread' = [thread EXCEPT ![Daemon] =
                       [Idle EXCEPT !.pc = "validate", !.job = j, !.seen[j] = claimed]]
    /\ UNCHANGED <<tenant, resources, crashes>>

(* The catalogue checks fail the job without a rollback. *)
FailValidation ==
    /\ At(Daemon, "validate")
    /\ job' = [job EXCEPT ![thread[Daemon].job].status = "failed"]
    /\ thread' = [thread EXCEPT ![Daemon] = Idle]
    /\ UNCHANGED <<tenant, resources, stale, crashes>>

(* Tenant.customer_subscription_id is unique: with a tenant row left from  *)
(* an earlier attempt or job the insert raises out of the execution, and   *)
(* the job stays running.                                                  *)
ReserveTenant ==
    /\ At(Daemon, "validate")
    /\ LET j == thread[Daemon].job  s == Mine(Daemon).sub IN
       \/ /\ TenantOf(s) = {}
          /\ LET t == Least({u \in Tenants : tenant[u].status = "none"})
                 new == [NoRow EXCEPT !.status = "provisioning", !.sub = s]
             IN /\ tenant' = [tenant EXCEPT ![t] = new]
                /\ job' = [job EXCEPT ![j].tenant = t]
                /\ thread' = [thread EXCEPT ![Daemon].pc = "filestore",
                       ![Daemon].seen[j].tenant = t, ![Daemon].copy = new]
       \/ /\ TenantOf(s) # {}
          /\ thread' = [thread EXCEPT ![Daemon] = Idle]
          /\ UNCHANGED tables
    /\ UNCHANGED <<resources, stale, crashes>>

(* Outside the try block as well: an OSError leaves the job running. *)
PrepareFilestore ==
    /\ At(Daemon, "filestore")
    /\ \/ filestores' = filestores \cup {MyTenant(Daemon)} /\ Goto(Daemon, "filepath")
       \/ UNCHANGED filestores /\ thread' = [thread EXCEPT ![Daemon] = Idle]
    /\ UNCHANGED <<tables, roles, databases, containers, stale, crashes>>

RecordFilestore ==
    /\ At(Daemon, "filepath")
    /\ CommitTenant(Daemon, [thread[Daemon].copy EXCEPT !.files = TRUE], "role")
    /\ UNCHANGED <<job, resources, stale, crashes>>

CreateRole ==
    /\ At(Daemon, "role")
    /\ \/ roles' = roles \cup {MyTenant(Daemon)} /\ Goto(Daemon, "clone")
       \/ UNCHANGED roles /\ Goto(Daemon, "fail")
    /\ UNCHANGED <<tables, databases, containers, filestores, stale, crashes>>

(* The database may exist although the call failed: its tables' owners are *)
(* changed after it was created.                                           *)
CloneDatabase ==
    /\ At(Daemon, "clone")
    /\ \/ /\ MyTenant(Daemon) \in roles
          /\ databases' = databases \cup {MyTenant(Daemon)}
          /\ Goto(Daemon, "port") \/ Goto(Daemon, "fail")
       \/ UNCHANGED databases /\ Goto(Daemon, "fail")
    /\ UNCHANGED <<tables, roles, containers, filestores, stale, crashes>>

(* Mutant: the container name is not recorded before the container runs. *)
AllocatePortUnnamed ==
    /\ At(Daemon, "port")
    /\ \/ Goto(Daemon, "container")
       \/ Goto(Daemon, "fail")
    /\ UNCHANGED <<tables, resources, stale, crashes>>

AllocatePort ==
    /\ At(Daemon, "port")
    /\ \/ CommitTenant(Daemon, [thread[Daemon].copy EXCEPT !.named = TRUE], "container")
       \/ Goto(Daemon, "fail") /\ UNCHANGED tenant
    /\ UNCHANGED <<job, resources, stale, crashes>>

(* A container that docker created and could not start stays behind. *)
RunContainer ==
    /\ At(Daemon, "container")
    /\ \/ /\ containers' = containers \cup {MyTenant(Daemon)}
          /\ Goto(Daemon, "health") \/ Goto(Daemon, "fail")
       \/ UNCHANGED containers /\ Goto(Daemon, "fail")
    /\ UNCHANGED <<tables, roles, databases, filestores, stale, crashes>>

(* wait_tenant_healthy and the installation of the solution's modules. *)
HealthCheck ==
    /\ At(Daemon, "health")
    /\ \/ /\ MyTenant(Daemon) \in containers \cap databases
          /\ Goto(Daemon, "succeed")
       \/ Goto(Daemon, "fail")
    /\ UNCHANGED <<tables, resources, stale, crashes>>

Succeed ==
    /\ At(Daemon, "succeed")
    /\ LET j == thread[Daemon].job IN
       /\ tenant' = [tenant EXCEPT ![MyTenant(Daemon)].status = "active"]
       /\ job' = [job EXCEPT ![j].status = "succeeded"]
       /\ thread' = [thread EXCEPT ![Daemon].pc = "audit",
              ![Daemon].seen[j].status = "succeeded", ![Daemon].copy.status = "active"]
    /\ UNCHANGED <<resources, stale, crashes>>

(* The audit row is written inside the try block, after the commit. *)
RecordAudit ==
    /\ At(Daemon, "audit")
    /\ \/ thread' = [thread EXCEPT ![Daemon] = Idle]
       \/ Goto(Daemon, "fail")
    /\ UNCHANGED <<tables, resources, stale, crashes>>

Execute ==
    \/ FailValidation \/ ReserveTenant \/ PrepareFilestore \/ RecordFilestore
    \/ CreateRole \/ CloneDatabase \/ AllocatePort \/ RunContainer \/ HealthCheck
    \/ Succeed \/ RecordAudit

------------------------------------------------------------------------------
(* Time and failures.                                                      *)

BeingExecuted(j) == thread[Daemon].job = j /\ thread[Daemon].pc \in EXECUTE_PCS

(* started_at passes the stale threshold (30 minutes for an operator, 60   *)
(* for the worker, which only looks between two jobs).                     *)
Age(j) ==
    /\ job[j].status = "running" /\ j \notin stale
    /\ SlowJobs \/ ~BeingExecuted(j)
    /\ stale' = stale \cup {j}
    /\ UNCHANGED <<tables, resources, thread, crashes>>

(* The worker or the API process dies; the worker is started again. *)
Crash(x) ==
    /\ crashes < MaxCrashes /\ ~At(x, "idle")
    /\ crashes' = crashes + 1
    /\ thread' = [thread EXCEPT ![x] = Idle]
    /\ UNCHANGED <<tables, resources, stale>>

Init ==
    /\ job = [j \in Jobs |-> NoJob] /\ tenant = [t \in Tenants |-> NoRow]
    /\ roles = {} /\ databases = {} /\ containers = {} /\ filestores = {}
    /\ stale = {} /\ crashes = 0
    /\ thread = [x \in Threads |-> Idle]

Request(h) ==
    \/ \E s \in Subscriptions, k \in Keys : QueueCheck(h, s, k)
    \/ \E j \in Jobs : RetryCheck(h, j)
    \/ OperatorReconcile(h)

Serve(h)   == QueueInsert(h) \/ RetryWrite(h) \/ Rollback(h)
WorkerStep == Poll \/ Claim \/ Execute \/ Rollback(Daemon)

Next ==
    \/ \E h \in Handlers : Request(h) \/ Serve(h)
    \/ WorkerStep
    \/ \E j \in Jobs : Age(j)
    \/ \E x \in Threads : Crash(x)

Spec == Init /\ [][Next]_vars

(* The worker loops for ever, accepted requests are served, time passes. *)
Fairness ==
    /\ WF_vars(WorkerStep)
    /\ \A h \in Handlers : WF_vars(Serve(h))
    /\ \A j \in Jobs : WF_vars(Age(j))

FairSpec == Spec /\ Fairness

------------------------------------------------------------------------------
(* Properties.                                                             *)

(* The state of provisioning stays within its types. *)
TypeOK ==
    /\ job \in [Jobs -> JobRows]
    /\ tenant \in [Tenants -> TenantRows]
    /\ roles \subseteq Tenants /\ databases \subseteq Tenants
    /\ containers \subseteq Tenants /\ filestores \subseteq Tenants
    /\ stale \subseteq Jobs
    /\ thread \in [Threads -> ThreadStates]
    /\ crashes \in 0 .. MaxCrashes

(* A job that succeeded has an active tenant with all its resources:       *)
(* no rollback of a stale, duplicate or retried job takes them away.       *)
SucceededIsServed ==
    \A j \in Jobs : job[j].status = "succeeded" =>
        LET t == job[j].tenant IN
        /\ t # NoTenant /\ tenant[t].status = "active"
        /\ t \in roles \cap databases \cap containers \cap filestores

(* What a rollback promises to have removed. *)
NothingLeft(t) ==
    /\ t \notin roles \cup databases \cup containers
    /\ t \in filestores => ~tenant[t].files

(* A job reported as rolled_back owns no container, database, role or      *)
(* recorded filestore any more.                                            *)
RolledBackIsClean ==
    \A j \in Jobs : job[j].status = "rolled_back" /\ job[j].tenant # NoTenant
        => NothingLeft(job[j].tenant)

(* The same for jobs that were never retried, whatever step they failed,   *)
(* were interrupted or were reconciled at.                                 *)
FirstRollbackIsClean ==
    \A j \in Jobs :
        job[j].status = "rolled_back" /\ job[j].attempts = 1 /\ job[j].tenant # NoTenant
        => NothingLeft(job[j].tenant)

(* No job is left behind as queued or running: the worker claims it, ends  *)
(* it, or finds it stale.                                                  *)
JobsMoveOn ==
    \A j \in Jobs : /\ (job[j].status = "queued") ~> (job[j].status # "queued")
                    /\ (job[j].status = "running") ~> (job[j].status # "running")
==============================================================================
