------------------------------- MODULE MCPlatform -------------------------------
(* Quick Deploy, checked side by side: the wizard and the deployments (part  *)
(* "deploy"), the life of deployed trials (part "lifecycle") and what a      *)
(* selection installs (part "selection").  Only one part takes steps.        *)
EXTENDS Integers, Sequences, FiniteSets

CONSTANTS DeployTrials, MaxTrials, Tabs, Plans, AppLimit, MaxBuilds, MaxEdits, MaxCrashes, MaxFaults,
          Limit, AutoTerminate, MaxTime, MaxOps,
          Selections, Modules, Catalogs, Rulesets, Requests

VARIABLES part,
          trial, job, tenant, res, template, build, rules, tab, worker, crashes, faults, moved,
          row, box, now, tick, op, crossed, ops, lFaults, lCrashes,
          catalog, planRules, requested, phase, errors, calls, selected, missing,
          blocked, indegree, queue, order, cycle

(* A form posts its applications in the order they were ticked. *)
SmallSelections == {<<1>>, <<2, 1>>}

(* Three modules with every dependency relation between them; the first may  *)
(* install the third by itself, the third may be of any kind.                *)
SmallModules == 1 .. 3
SmallCatalogs ==
    {[kind |-> k, deps |-> d, auto |-> [m \in SmallModules |-> IF m = 1 THEN a ELSE {}]] :
        k \in {k \in [SmallModules -> {"open", "hidden", "barred", "absent"}] :
                 k[1] = "open" /\ k[2] = "open"},
        d \in {d \in [SmallModules -> SUBSET SmallModules] : \A m \in SmallModules : m \notin d[m]},
        a \in {{}, {3}}}
SmallRulesets ==
    {[module |-> [m \in SmallModules |-> IF m = 2 THEN r ELSE {"allowed"}], category |-> c] :
        r \in {{}, {"allowed"}, {"required"}, {"required", "blocked"}}, c \in {{}, {"blocked"}}}
SmallRequests == {<<1>>, <<2, 1>>, <<3, 1, 2>>}

Deploy    == INSTANCE PlatformDeployment WITH MaxTrials <- DeployTrials
Lifecycle == INSTANCE TrialLifecycle WITH faults <- lFaults, crashes <- lCrashes
Selection == INSTANCE ModuleSelection WITH rules <- planRules, MaxSelectedApps <- AppLimit

ASSUME PlatformBounds ==
    Deploy!DeploymentAssumption /\ Lifecycle!LifecycleAssumption /\ Selection!SelectionAssumption

deployVars == <<trial, job, tenant, res, template, build, rules, tab, worker, crashes, faults, moved>>
lifeVars   == <<row, box, now, tick, op, crossed, ops, lFaults, lCrashes>>
selectVars == <<catalog, planRules, requested, phase, errors, calls, selected, missing,
                blocked, indegree, queue, order, cycle>>

AnyCatalog == CHOOSE c \in Catalogs : TRUE
AnyRules == CHOOSE r \in Rulesets : TRUE

Init ==
    /\ part \in {"deploy", "lifecycle", "selection"}
    /\ Deploy!Init /\ Lifecycle!Init
    /\ IF part = "selection" THEN Selection!Init
       ELSE /\ catalog = AnyCatalog /\ planRules = AnyRules /\ requested = <<1>>
            /\ phase = "validate" /\ errors = {} /\ calls = <<>>
            /\ selected = {} /\ missing = {} /\ blocked = {}
            /\ indegree = [m \in Modules |-> 0] /\ queue = {} /\ order = <<>> /\ cycle = {}

Next ==
    \/ part = "deploy" /\ Deploy!Next /\ UNCHANGED <<part, lifeVars, selectVars>>
    \/ part = "lifecycle" /\ Lifecycle!Next /\ UNCHANGED <<part, deployVars, selectVars>>
    \/ part = "selection" /\ Selection!Next /\ UNCHANGED <<part, deployVars, lifeVars>>

all == <<part, deployVars, lifeVars, selectVars>>

(* The fairness of the two services, each for its own part. *)
DeployDoes(A) == part = "deploy" /\ A /\ UNCHANGED <<part, lifeVars, selectVars>>
LifeDoes(A) == part = "lifecycle" /\ A /\ UNCHANGED <<part, deployVars, selectVars>>

Spec ==
    /\ Init /\ [][Next]_all
    /\ WF_all(DeployDoes(Deploy!WorkerStep))
    /\ \A b \in Tabs : WF_all(DeployDoes(Deploy!TabStep(b)))
    /\ WF_all(LifeDoes(Lifecycle!WorkerStep))
    /\ WF_all(LifeDoes(Lifecycle!EndOp))
    /\ WF_all(LifeDoes(Lifecycle!DayPasses))
    /\ \A t \in 1 .. MaxTrials : WF_all(LifeDoes(Lifecycle!BackoffEnds(t)))

(* An active trial has its resources and the plan it was validated on, unless *)
(* a tab wrote another over it later (execute_deployment_job).               *)
DeployedIsServed == Deploy!ActiveIsServed

(* A rolled-back deployment leaves nothing recorded (rollback_deployment_job). *)
RolledBackIsClean == Deploy!RolledBackIsClean

(* A confirmed trial is deployed or refused (confirm_wizard). *)
ConfirmedIsDecided == Deploy!ConfirmedIsDecided

(* A trial in use has a running container unless it was reactivated under a  *)
(* tick that held it (complete_suspension).                                  *)
TrialIsServed == Lifecycle!ActiveIsServed

(* A container is removed only after the retention (execute_termination). *)
RetentionKept == Lifecycle!RetentionKept

(* An expired trial the limit always reaches is suspended in the end         *)
(* (process_due_lifecycle_tick).                                             *)
ExpiredIsSuspended == part = "lifecycle" => Lifecycle!ExpiredIsSuspended

(* A valid selection installs its closure, in order (resolve_module_selection). *)
ValidInstallsClosure == Selection!ValidInstallsClosure

===============================================================================
