--------------------------- MODULE PlatformDeployment ---------------------------
(***************************************************************************)
(* Quick Deploy: the wizard makes a draft trial, the customer reviews a    *)
(* selection and confirms it, and the worker builds the base template and  *)
(* deploys the confirmed trials, undoing what a failed deployment made.    *)
(* Sources: platform_deploy_service, platform_plan_selection,              *)
(* platform_template_service, deployment_service, deployment_rollback,     *)
(* api/platform_deploy, api/operator_platform, worker_main.                *)
(*                                                                         *)
(* All trials are one customer's, who may have the wizard open in several  *)
(* tabs.  A selection is the sequence of application ids the form posts.   *)
(***************************************************************************)
EXTENDS Integers, Sequences, TLC

CONSTANTS
    MaxTrials,      \* bound: rows of platform_trials
    Tabs,           \* the wizard's open tabs
    Plans,          \* selectable plans
    Selections,     \* what a form may post: sequences of application ids
    AppLimit,       \* max_selected_apps
    MaxBuilds,      \* bound: template builds an operator asks for
    MaxEdits,       \* bound: edits of the plan rules and the catalogue
    MaxCrashes,     \* bound: processes killed
    MaxFaults       \* bound: external steps that fail

VARIABLES
    trial,      \* platform_trials with their deployment_selections row
    job,        \* the trial's deployment job: its status
    tenant,     \* the trial's tenant row
    res,        \* the tenant's role, database, filestore and container
    template,   \* the platform base template and its PostgreSQL database
    build,      \* the latest template build job: its status
    rules,      \* what the plan rules allow, and the version of rules and catalogue
    tab, worker, crashes, faults,
    moved       \* history: trials whose plan was written after their validation

vars == <<trial, job, tenant, res, template, build, rules, tab, worker, crashes, faults, moved>>

DeploymentAssumption == MaxTrials \in Nat

Trials == 1 .. MaxTrials

(* The snapshot whose checksum the review page carries. *)
Snapshots == [apps : Selections, plan : Plans, version : 0 .. MaxEdits]
NoSnapshot == [apps |-> <<>>, plan |-> "none", version |-> 0]
NoTrial == [status |-> "none", plan |-> "none", draft |-> <<>>, selection |-> NoSnapshot]

NoTenant == [status |-> "none", store |-> FALSE, named |-> FALSE]
Kinds == {"role", "database", "filestore", "container"}

Idle == [step |-> "idle", t |-> 0, page |-> NoSnapshot]

Drafts == {t \in Trials : trial[t].status = "draft"}
Largest(S) == CHOOSE x \in S : \A y \in S : x >= y
Smallest(S) == CHOOSE x \in S : \A y \in S : x <= y

Init ==
    /\ trial = [t \in Trials |-> NoTrial]
    /\ job = [t \in Trials |-> "none"]
    /\ tenant = [t \in Trials |-> NoTenant]
    /\ res = [t \in Trials |-> {}]
    /\ template = [status |-> "draft", db |-> "none", builds |-> 0]
    /\ build = "none"
    /\ rules = [allowed |-> UNION {{s[i] : i \in 1 .. Len(s)} : s \in Selections},
                version |-> 0]
    /\ tab = [b \in Tabs |-> Idle]
    /\ worker = [step |-> "idle", t |-> 0]
    /\ crashes = 0
    /\ faults = 0
    /\ moved = {}

workerVars == <<job, tenant, res, template, build, worker, faults>>

---------------------------------------------------------------------------
(* Selections and plan rules. *)

(* validate_plan_module_selection without the expected checksum. *)
Valid(apps) ==
    /\ \A i \in 1 .. Len(apps) : apps[i] \in rules.allowed
    /\ Len(apps) <= AppLimit

(* compute_snapshot_checksum: the requested applications in the order they   *)
(* were requested, the plan, and the versions of plan, rules and catalogue.  *)
Snapshot(t, apps) == [apps |-> apps, plan |-> trial[t].plan, version |-> rules.version]

(* create_module_rule, deactivate_module_rule, update_plan_entitlements and  *)
(* set_module_selectable: any of them changes the checksum.                  *)
EditRules(allowed) ==
    /\ rules.version < MaxEdits
    /\ rules' = [allowed |-> allowed, version |-> rules.version + 1]
    /\ UNCHANGED <<trial, job, tenant, res, template, build, tab, worker, crashes, faults, moved>>

---------------------------------------------------------------------------
(* The wizard. *)

(* get_or_create_draft_trial finds no draft ... *)
MissDraft(b) ==
    /\ tab[b].step = "idle" /\ Drafts = {}
    /\ \E t \in Trials : trial[t].status = "none"
    /\ tab' = [tab EXCEPT ![b].step = "insert"]
    /\ UNCHANGED <<trial, rules, crashes, moved, workerVars>>

(* ... and inserts one, on the trial plan. *)
get_or_create_draft_trial(b, plan) ==
    /\ tab[b].step = "insert"
    /\ LET free == {t \in Trials : trial[t].status = "none"}
       IN trial' = IF free = {} THEN trial
                   ELSE [trial EXCEPT ![Smallest(free)] =
                           [NoTrial EXCEPT !.status = "draft", !.plan = plan]]
    /\ tab' = [tab EXCEPT ![b] = Idle]
    /\ UNCHANGED <<rules, crashes, moved, workerVars>>

(* set_wizard_plan reads the draft; a plan it has already is not written ... *)
ChoosePlan(b, plan) ==
    /\ tab[b].step = "idle" /\ Drafts # {}
    /\ trial[Largest(Drafts)].plan # plan
    /\ tab' = [tab EXCEPT ![b] = [step |-> "plan", t |-> Largest(Drafts),
                                  page |-> [NoSnapshot EXCEPT !.plan = plan]]]
    /\ UNCHANGED <<trial, rules, crashes, moved, workerVars>>

(* The worker has read the plan it deploys the trial with. *)
Validated(t) ==
    \/ trial[t].status \in {"provisioning", "trial_active"}
    \/ worker.step = "accept" /\ worker.t = t

(* ... and commits the plan, whatever the trial's status is by then. *)
set_wizard_plan(b) ==
    /\ tab[b].step = "plan"
    /\ LET t == tab[b].t
       IN /\ trial' = [trial EXCEPT ![t].plan = tab[b].page.plan]
          /\ moved' = IF Validated(t) THEN moved \cup {t} ELSE moved
    /\ tab' = [tab EXCEPT ![b] = Idle]
    /\ UNCHANGED <<rules, crashes, workerVars>>

(* set_wizard_modules reads the draft ... *)
ChooseModules(b, apps) ==
    /\ tab[b].step = "idle" /\ Drafts # {}
    /\ tab' = [tab EXCEPT ![b] = [step |-> "modules", t |-> Largest(Drafts),
                                  page |-> [NoSnapshot EXCEPT !.apps = apps]]]
    /\ UNCHANGED <<trial, rules, crashes, moved, workerVars>>

(* ... and commits the posted ids even when they are refused. *)
set_wizard_modules(b) ==
    /\ tab[b].step = "modules"
    /\ trial' = [trial EXCEPT ![tab[b].t].draft = tab[b].page.apps]
    /\ tab' = [tab EXCEPT ![b] = Idle]
    /\ UNCHANGED <<rules, crashes, moved, workerVars>>

(* The review page carries the trial's id and the checksum of its snapshot. *)
review_step_context(b) ==
    /\ tab[b].step = "idle" /\ Drafts # {}
    /\ LET t == Largest(Drafts)
       IN /\ trial[t].draft # <<>>
          /\ tab' = [tab EXCEPT ![b] = [step |-> "review", t |-> t,
                                        page |-> Snapshot(t, trial[t].draft)]]
    /\ UNCHANGED <<trial, rules, crashes, moved, workerVars>>

(* The customer leaves the page. *)
LeavePage(b) ==
    /\ tab[b].step = "review"
    /\ tab' = [tab EXCEPT ![b] = Idle]
    /\ UNCHANGED <<trial, rules, crashes, moved, workerVars>>

ActiveTrials(plan) ==
    {t \in Trials : /\ trial[t].status \in {"trial_pending", "provisioning", "trial_active"}
                    /\ trial[t].plan = plan}

(* confirm_wizard up to its first write: every refusal goes back to review. *)
CheckConfirm(b) ==
    /\ tab[b].step = "review"
    /\ LET t == tab[b].t
           ok == /\ trial[t].status = "draft"
                 /\ Valid(trial[t].draft)
                 /\ Snapshot(t, trial[t].draft) = tab[b].page
                 /\ ActiveTrials(trial[t].plan) \ {t} = {}
       IN tab' = IF ok THEN [tab EXCEPT ![b].step = "commit"] ELSE [tab EXCEPT ![b] = Idle]
    /\ UNCHANGED <<trial, rules, crashes, moved, workerVars>>

(* The commit of confirm_wizard.  A second selection row for the trial breaks *)
(* its unique constraint and the request fails.                               *)
confirm_wizard(b) ==
    /\ tab[b].step = "commit"
    /\ LET t == tab[b].t
       IN IF trial[t].selection = NoSnapshot
          THEN /\ trial' = [trial EXCEPT ![t].status = "trial_pending",
                                         ![t].selection = tab[b].page]
               /\ tab' = [tab EXCEPT ![b].step = "queue"]
          ELSE /\ tab' = [tab EXCEPT ![b] = Idle] /\ UNCHANGED trial
    /\ UNCHANGED <<rules, crashes, moved, workerVars>>

queue_deployment_for_trial(b) ==
    /\ tab[b].step = "queue"
    /\ job' = IF job[tab[b].t] = "none" THEN [job EXCEPT ![tab[b].t] = "queued"] ELSE job
    /\ tab' = [tab EXCEPT ![b] = Idle]
    /\ UNCHANGED <<trial, tenant, res, template, build, rules, worker, crashes, faults, moved>>

(* The API process dies inside a request. *)
WebCrash(b) ==
    /\ tab[b].step \in {"insert", "plan", "modules", "commit", "queue"} /\ crashes < MaxCrashes
    /\ crashes' = crashes + 1
    /\ tab' = [tab EXCEPT ![b] = Idle]
    /\ UNCHANGED <<trial, rules, moved, workerVars>>

---------------------------------------------------------------------------
(* The base template. *)

queue_base_template_build ==
    /\ build \notin {"queued", "running"} /\ template.builds < MaxBuilds
    /\ build' = "queued"
    /\ template' = [template EXCEPT !.builds = @ + 1]
    /\ UNCHANGED <<trial, job, tenant, res, rules, tab, worker, crashes, faults, moved>>

claim_next_template_build_job ==
    /\ worker.step = "idle" /\ build = "queued"
    /\ build' = "running"
    /\ worker' = [worker EXCEPT !.step = "init"]
    /\ UNCHANGED <<trial, job, tenant, res, template, rules, tab, crashes, faults, moved>>

(* Mutant: the template is marked ready with its database. *)
ReadyBeforeModules ==
    /\ worker.step = "init"
    /\ template' = [template EXCEPT !.db = IF @ = "none" THEN "partial" ELSE @, !.status = "ready"]
    /\ worker' = [worker EXCEPT !.step = "modules"]
    /\ UNCHANGED <<trial, job, tenant, res, build, rules, tab, crashes, faults, moved>>

(* init_empty_template_database keeps a database that is already there. *)
init_empty_template_database ==
    /\ worker.step = "init"
    /\ template' = [template EXCEPT !.db = IF @ = "none" THEN "partial" ELSE @]
    /\ worker' = [worker EXCEPT !.step = "modules"]
    /\ UNCHANGED <<trial, job, tenant, res, build, rules, tab, crashes, faults, moved>>

(* _run_base_module_init, then the commit of execute_template_build_job. *)
execute_template_build_job ==
    /\ worker.step = "modules"
    /\ \/ /\ template' = [template EXCEPT !.status = "ready", !.db = "built"]
          /\ build' = "succeeded" /\ UNCHANGED faults
       \/ /\ faults < MaxFaults /\ faults' = faults + 1
          /\ template' = [template EXCEPT !.status = "invalid"]
          /\ build' = "failed"
    /\ worker' = [worker EXCEPT !.step = "idle"]
    /\ UNCHANGED <<trial, job, tenant, res, rules, tab, crashes, moved>>

---------------------------------------------------------------------------
(* The deployment. *)

(* Mutant: the claim writes the first step where the status belongs. *)
ClaimWritesStep ==
    /\ worker.step = "idle" /\ build # "queued"
    /\ LET queued == {t \in Trials : job[t] = "queued"}
       IN /\ queued # {}
          /\ job' = [job EXCEPT ![Smallest(queued)] = "cloning_template"]
          /\ worker' = [step |-> "validate", t |-> Smallest(queued)]
    /\ UNCHANGED <<trial, tenant, res, template, build, rules, tab, crashes, faults, moved>>

claim_next_deployment_job ==
    /\ worker.step = "idle" /\ build # "queued"
    /\ LET queued == {t \in Trials : job[t] = "queued"}
       IN /\ queued # {}
          /\ job' = [job EXCEPT ![Smallest(queued)] = "running"]
          /\ worker' = [step |-> "validate", t |-> Smallest(queued)]
    /\ UNCHANGED <<trial, tenant, res, template, build, rules, tab, crashes, faults, moved>>

(* The catalogue rows of the customer's selections, as the query returns     *)
(* them: in the catalogue's order, not in the order they were requested.     *)
CatalogueOrder(apps) == SortSeq(apps, LAMBDA x, y : x < y)

(* Mutant: the selection is checked against the rules but not against the    *)
(* snapshot the customer confirmed.                                          *)
RevalidateRulesOnly(t) == Valid(CatalogueOrder(trial[t].selection.apps))

(* _revalidate_trial_selection. *)
_revalidate_trial_selection(t) ==
    LET apps == CatalogueOrder(trial[t].selection.apps)
    IN Valid(apps) /\ Snapshot(t, apps) = trial[t].selection

(* _select_base_template *)
_select_base_template == template.status = "ready"

(* Mutant: a refusal fails the job and forgets the trial. *)
RefuseJobOnly ==
    /\ worker.step = "validate"
    /\ LET t == worker.t
       IN IF _revalidate_trial_selection(t) /\ _select_base_template
          THEN worker' = [worker EXCEPT !.step = "accept"] /\ UNCHANGED job
          ELSE /\ job' = [job EXCEPT ![t] = "failed"]
               /\ worker' = [step |-> "idle", t |-> 0]
    /\ UNCHANGED <<trial, tenant, res, template, build, rules, tab, crashes, faults, moved>>

(* The checks before anything is made: _fail_job without a rollback. *)
ValidateTrial ==
    /\ worker.step = "validate"
    /\ LET t == worker.t
       IN IF _revalidate_trial_selection(t) /\ _select_base_template
          THEN worker' = [worker EXCEPT !.step = "accept"] /\ UNCHANGED <<trial, job>>
          ELSE /\ trial' = [trial EXCEPT ![t].status = "failed"]
               /\ job' = [job EXCEPT ![t] = "failed"]
               /\ worker' = [step |-> "idle", t |-> 0]
    /\ UNCHANGED <<tenant, res, template, build, rules, tab, crashes, faults, moved>>

(* The first commit of the deployment. *)
ReserveTenant ==
    /\ worker.step = "accept"
    /\ trial' = [trial EXCEPT ![worker.t].status = "provisioning"]
    /\ tenant' = [tenant EXCEPT ![worker.t].status = "provisioning"]
    /\ worker' = [worker EXCEPT !.step = "filestore"]
    /\ UNCHANGED <<job, res, template, build, rules, tab, crashes, faults, moved>>

(* A step makes a kind of resource. *)
Make(step, kind, next) ==
    /\ worker.step = step
    /\ res' = [res EXCEPT ![worker.t] = @ \cup {kind}]
    /\ worker' = [worker EXCEPT !.step = next]
    /\ UNCHANGED <<trial, job, tenant, template, build, rules, tab, crashes, faults, moved>>

_prepare_tenant_filestore == Make("filestore", "filestore", "record_store")
create_tenant_role == Make("role", "role", "clone")
clone_database_from_template == Make("clone", "database", "install")
run_tenant_odoo_container == Make("run", "container", "health")

RecordFilestore ==
    /\ worker.step = "record_store"
    /\ tenant' = [tenant EXCEPT ![worker.t].store = TRUE]
    /\ worker' = [worker EXCEPT !.step = "role"]
    /\ UNCHANGED <<trial, job, res, template, build, rules, tab, crashes, faults, moved>>

(* _install_modules_one_shot runs the module installation in a container of  *)
(* its own.  What it may leave behind is not in res: its odoo.conf, and that *)
(* container when its removal fails.                                         *)
_install_modules_one_shot ==
    /\ worker.step = "install"
    /\ worker' = [worker EXCEPT !.step = "port"]
    /\ UNCHANGED <<trial, job, tenant, res, template, build, rules, tab, crashes, faults, moved>>

(* The port and the container's name are committed before the container. *)
RecordContainer ==
    /\ worker.step = "port"
    /\ tenant' = [tenant EXCEPT ![worker.t].named = TRUE]
    /\ worker' = [worker EXCEPT !.step = "run"]
    /\ UNCHANGED <<trial, job, res, template, build, rules, tab, crashes, faults, moved>>

(* The health check passed: the final commit of execute_deployment_job. *)
Succeed ==
    /\ worker.step = "health"
    /\ tenant' = [tenant EXCEPT ![worker.t].status = "active"]
    /\ trial' = [trial EXCEPT ![worker.t].status = "trial_active"]
    /\ job' = [job EXCEPT ![worker.t] = "succeeded"]
    /\ worker' = [worker EXCEPT !.step = "audit"]
    /\ UNCHANGED <<res, template, build, rules, tab, crashes, faults, moved>>

(* record_audit, still inside the try block. *)
record_audit ==
    /\ worker.step = "audit"
    /\ worker' = [step |-> "idle", t |-> 0]
    /\ UNCHANGED <<trial, job, tenant, res, template, build, rules, tab, crashes, faults, moved>>

(* A step raises, with or without having made its resource.  _fail_job. *)
Made(step) == CASE step = "filestore" -> {"filestore"} [] step = "role" -> {"role"}
                [] step = "clone" -> {"database"} [] step = "run" -> {"container"}
                [] OTHER -> {}

_fail_job ==
    /\ worker.step \in {"filestore", "record_store", "role", "clone", "install",
                        "port", "run", "health", "audit"}
    /\ faults < MaxFaults /\ faults' = faults + 1
    /\ \E made \in SUBSET Made(worker.step) :
         res' = [res EXCEPT ![worker.t] = @ \cup made]
    /\ job' = [job EXCEPT ![worker.t] = "rollback_required"]
    /\ trial' = [trial EXCEPT ![worker.t].status = "failed"]
    /\ worker' = [worker EXCEPT !.step = "rollback"]
    /\ UNCHANGED <<tenant, template, build, rules, tab, crashes, moved>>

(* Mutant: the recorded container is forgotten.                              *)
RecordedWithoutContainer(t) ==
    {"role", "database"} \cup (IF tenant[t].store THEN {"filestore"} ELSE {})

(* What rollback_deployment_job looks for: the names the tenant row records. *)
Recorded(t) == {"role", "database"}
                 \cup (IF tenant[t].store THEN {"filestore"} ELSE {})
                 \cup (IF tenant[t].named THEN {"container"} ELSE {})

(* Each removal is tried; left are the ones that raise.  A role with a       *)
(* database cannot be dropped.                                               *)
rollback_deployment_job ==
    /\ worker.step = "rollback"
    /\ \E left \in SUBSET (res[worker.t] \cap Recorded(worker.t)) :
         /\ left # {} => faults < MaxFaults
         /\ {"database", "role"} \subseteq res[worker.t] /\ "database" \in left => "role" \in left
         /\ faults' = IF left # {} THEN faults + 1 ELSE faults
         /\ res' = [res EXCEPT ![worker.t] = (@ \ Recorded(worker.t)) \cup left]
         /\ job' = [job EXCEPT ![worker.t] = IF left = {} THEN "rolled_back" ELSE "rollback_failed"]
    /\ tenant' = [tenant EXCEPT ![worker.t].status = "failed"]
    /\ worker' = [step |-> "idle", t |-> 0]
    /\ UNCHANGED <<trial, template, build, rules, tab, crashes, moved>>

(* The worker dies.  Nothing takes a running deployment or template build up *)
(* again; a rollback has got as far as it has got.                           *)
WorkerCrash ==
    /\ worker.step # "idle" /\ crashes < MaxCrashes
    /\ crashes' = crashes + 1
    /\ IF worker.step = "rollback"
       THEN \E gone \in SUBSET Recorded(worker.t) :
              res' = [res EXCEPT ![worker.t] = @ \ gone]
       ELSE UNCHANGED res
    /\ worker' = [step |-> "idle", t |-> 0]
    /\ UNCHANGED <<trial, job, tenant, template, build, rules, tab, faults, moved>>

---------------------------------------------------------------------------

WorkerStep ==
    \/ claim_next_template_build_job \/ init_empty_template_database
    \/ execute_template_build_job \/ claim_next_deployment_job \/ ValidateTrial \/ ReserveTenant
    \/ _prepare_tenant_filestore \/ RecordFilestore \/ create_tenant_role
    \/ clone_database_from_template \/ _install_modules_one_shot \/ RecordContainer
    \/ run_tenant_odoo_container \/ Succeed \/ record_audit \/ _fail_job
    \/ rollback_deployment_job

TabStep(b) ==
    \/ \E plan \in Plans : get_or_create_draft_trial(b, plan)
    \/ set_wizard_plan(b) \/ set_wizard_modules(b)
    \/ confirm_wizard(b) \/ queue_deployment_for_trial(b)

Next ==
    \/ \E allowed \in {{}, UNION {{s[i] : i \in 1 .. Len(s)} : s \in Selections}} : EditRules(allowed)
    \/ \E b \in Tabs : \/ \E plan \in Plans : ChoosePlan(b, plan)
                       \/ \E apps \in Selections : ChooseModules(b, apps)
                       \/ MissDraft(b) \/ review_step_context(b) \/ LeavePage(b)
                       \/ CheckConfirm(b) \/ TabStep(b) \/ WebCrash(b)
    \/ queue_base_template_build
    \/ WorkerStep
    \/ WorkerCrash

Spec == Init /\ [][Next]_vars

(* A request that is running ends, and the worker polls for ever. *)
Fairness == WF_vars(WorkerStep) /\ \A b \in Tabs : WF_vars(TabStep(b))

---------------------------------------------------------------------------

TypeOK ==
    /\ \A t \in Trials :
         /\ trial[t].status \in {"none", "draft", "trial_pending", "provisioning",
                                 "trial_active", "failed"}
         /\ trial[t].plan \in Plans \cup {"none"}
         /\ trial[t].draft \in Selections \cup {<<>>}
         /\ trial[t].selection \in Snapshots \cup {NoSnapshot}
    /\ job \in [Trials -> {"none", "queued", "running", "succeeded", "failed",
                           "rollback_required", "rolled_back", "rollback_failed"}]
    /\ tenant \in [Trials -> [status : {"none", "provisioning", "active", "failed"},
                              store : BOOLEAN, named : BOOLEAN]]
    /\ res \in [Trials -> SUBSET Kinds]
    /\ template \in [status : {"draft", "ready", "invalid"}, db : {"none", "partial", "built"},
                     builds : 0 .. MaxBuilds]
    /\ build \in {"none", "queued", "running", "succeeded", "failed"}
    /\ \A b \in Tabs : tab[b].t \in 0 .. MaxTrials
    /\ moved \subseteq Trials

(* An active trial has all of its resources, and the plan its selection was  *)
(* validated on unless a tab wrote another plan over it after the worker had *)
(* validated (execute_deployment_job, set_wizard_plan): neither a plan that  *)
(* changes before the validation, under a confirmation, nor a failure after  *)
(* the health check leaves an active trial without them.                     *)
ActiveIsServed ==
    \A t \in Trials : trial[t].status = "trial_active" =>
        /\ res[t] = Kinds /\ tenant[t].status = "active"
        /\ trial[t].plan = trial[t].selection.plan \/ t \in moved

(* A rolled-back deployment leaves nothing but a filestore whose path was    *)
(* never recorded (rollback_deployment_job).                                 *)
RolledBackIsClean ==
    \A t \in Trials : job[t] = "rolled_back" =>
        res[t] = {} \/ (res[t] = {"filestore"} /\ ~tenant[t].store)

(* A template marked ready holds the base modules, through failed and        *)
(* interrupted builds (execute_template_build_job).                          *)
ReadyIsBuilt == template.status = "ready" => template.db = "built"

(* A confirmed trial is deployed or refused, unless a process died           *)
(* (confirm_wizard queues in a second transaction, and no deployment is      *)
(* taken up again).                                                          *)
ConfirmedIsDecided ==
    \A t \in Trials : trial[t].status \in {"trial_pending", "provisioning"}
        ~> (trial[t].status \in {"trial_active", "failed"} \/ crashes > 0)

(* A deployment is refused as stale only when the plan, its rules or the     *)
(* catalogue changed since the customer's confirmation: the review page says *)
(* that an unchanged selection stands.                                       *)
StaleHasReason ==
    \A t \in Trials : job[t] = "failed" =>
        \/ template.status # "ready"
        \/ rules.version # trial[t].selection.version
        \/ trial[t].plan # trial[t].selection.plan
===============================================================================
