-------------------------------- MODULE MCQueues --------------------------------
(* The queues of the two job engines, checked side by side: the builds (part *)
(* "builds") and tenant provisioning (part "provisioning").  Only one part   *)
(* takes steps, under the fairness of the two services.                      *)
EXTENDS BuildEngine

CONSTANTS MaxJobs, Subscriptions, Keys, MaxAttempts, Daemon, JobHandlers, JobOps,
          Refusing, SlowJobs, MaxJobCrashes

VARIABLES part,
          job, tenant, roles, tenantDatabases, containers, filestores, stale, thread, jobCrashes

Provisioning == INSTANCE TenantProvisioning WITH
                    Handlers <- JobHandlers, Ops <- JobOps, MaxCrashes <- MaxJobCrashes,
                    databases <- tenantDatabases, crashes <- jobCrashes

jobVars == <<job, tenant, roles, tenantDatabases, containers, filestores, stale, thread,
             jobCrashes>>
all == <<part, vars, jobVars>>

BothInit == part \in {"builds", "provisioning"} /\ Init /\ Provisioning!Init

BuildDoes(A) == part = "builds" /\ A /\ UNCHANGED <<part, jobVars>>
JobDoes(A)   == part = "provisioning" /\ A /\ UNCHANGED <<part, vars>>

OneNext == BuildDoes(Next) \/ JobDoes(Provisioning!Next)

(* The fairness of BuildEngine and of TenantProvisioning, each of its part. *)
BothSpec ==
    /\ BothInit /\ [][OneNext]_all
    /\ \A b \in Builds : WF_all(BuildDoes(Worker(b)))
    /\ \A h \in Handlers : WF_all(BuildDoes(Serve(h)))
    /\ WF_all(BuildDoes(Boot))
    /\ WF_all(JobDoes(Provisioning!WorkerStep))
    /\ \A h \in JobHandlers : WF_all(JobDoes(Provisioning!Serve(h)))
    /\ \A j \in Provisioning!Jobs : WF_all(JobDoes(Provisioning!Age(j)))

(* A queued job is taken up, and a running one ends (run_worker_loop,       *)
(* reconcile_stale_jobs).                                                   *)
JobsMoveOn == Provisioning!JobsMoveOn
==============================================================================
