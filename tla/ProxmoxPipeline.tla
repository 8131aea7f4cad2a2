---------------------------- MODULE ProxmoxPipeline ----------------------------
(***************************************************************************)
(* What happens to a job parked at the mutation boundary: drift is checked *)
(* (Gate 3), the clone is made (Gate 4), an operator re-establishes its    *)
(* binding, the VM is configured and booted (HC3.8), the base runtime is   *)
(* installed or found there (HC3.9).  Sources: drift_validation,           *)
(* gate4_controlled_execution, credential_registry, binding_               *)
(* reestablishment, post_clone_*, base_runtime_provisioning,               *)
(* hc39_persistence_recovery.                                              *)
(*                                                                         *)
(* Commands run one at a time, each from the job row it reads first, and   *)
(* may die at any step.  Gate 4 flushes but commits only at its end, so it *)
(* loses everything it wrote; the boot commands commit every state.        *)
(***************************************************************************)
EXTENDS Integers

CONSTANTS
    MaxCrashes,   \* bound: commands that die
    MaxDrifts     \* bound: changes of the cluster behind the job's back

None == "none"

Chain == <<"mutation_ready", "mutation_validated", "clone_executed", "post_clone_validated",
           "post_clone_configuring", "boot_starting", "boot_verifying", "booted_and_ready",
           "base_runtime_installing", "postgres_ready", "odoo_runtime_starting",
           "odoo_runtime_verifying", "base_odoo_runtime_ready">>
States == {Chain[i] : i \in DOMAIN Chain} \cup {"failed"}
Rank(s) == CHOOSE i \in DOMAIN Chain : Chain[i] = s

(* PROXMOX_JOB_TRANSITIONS from mutation_ready on; mutation_executing is     *)
(* never committed.                                                          *)
_validate_transition(a, b) ==
    \/ b # "failed" /\ a # "failed" /\ Rank(b) = Rank(a) + 1
    \/ b = "failed" /\ a \in {"mutation_validated", "boot_verifying", "base_runtime_installing",
                              "postgres_ready", "odoo_runtime_starting", "odoo_runtime_verifying"}

VARIABLES
    state,       \* the job's state
    execution,   \* mutation_execution_status
    frozen,      \* an operator-approved plan is in dry_run_result_json
    lease,       \* the job's VMID lease
    readiness,   \* post_clone_readiness_json: none, partial, live or orchestrated
    runtime,     \* base_runtime_json: none, runtime, persisted or failure
    vm,          \* the provider: absent, stopped, running
    configured,  \* the provider: the approved size and name were applied
    changed,     \* what differs from the readiness evidence
    accepts,     \* the transport takes Gate 4's contract
    cmd,         \* the command under way
    clones, starts,    \* history: VMs made and started
    crashes, drifts

row   == <<state, execution, frozen, lease, readiness, runtime>>
world == <<vm, configured, changed, accepts, clones, starts, drifts>>
vars  == <<row, world, cmd, crashes>>

Idle == [name |-> None, pc |-> "idle"]

Init ==
    /\ state = "mutation_ready" /\ execution = None /\ frozen = FALSE
    /\ lease = "leased" /\ readiness = None /\ runtime = None
    /\ vm = "absent" /\ configured = FALSE /\ changed = {} /\ accepts \in BOOLEAN
    /\ cmd = Idle /\ clones = 0 /\ starts = 0 /\ crashes = 0 /\ drifts = 0

Run(name, pc) == cmd' = [name |-> name, pc |-> pc]
Ends == cmd' = Idle

-----------------------------------------------------------------------------
Facets == {"capacity", "template", "node", "storage", "bridge"}

Drift ==
    /\ drifts < MaxDrifts /\ drifts' = drifts + 1
    /\ \E f \in Facets : changed' = IF f \in changed THEN changed \ {f} ELSE changed \cup {f}
    /\ UNCHANGED <<row, vm, configured, accepts, cmd, clones, starts, crashes>>

(* Gate 3 recomputes what Gate 2 recorded and compares.  A difference leaves *)
(* the job; _check_target_vmid_free always says yes.                         *)
_cluster_snapshot_fingerprint == changed \cap {"capacity", "node", "storage"}
_recompute_plan_fingerprint   == changed \cap {"template", "node", "storage", "bridge"}
_check_vmid_lease             == lease \in {"leased", "consumed"}
_recompute_contract_binding   ==
    IF _check_vmid_lease THEN _recompute_plan_fingerprint ELSE {"lease"}
SourceChecks                  == changed \cap {"template", "node"}
PlacementChecks               == changed \cap {"storage", "bridge"}

(* Every field compared is a material one. *)
_classify_drift ==
    IF _cluster_snapshot_fingerprint \cup _recompute_plan_fingerprint
         \cup _recompute_contract_binding \cup SourceChecks \cup PlacementChecks = {}
    THEN "no_drift" ELSE "material_drift"

(* The verdict is kept with the job, and only a clean one advances it. *)
RecordValidated == state' = "mutation_validated"

validate_mutation_drift ==
    /\ cmd = Idle /\ state = "mutation_ready"
    /\ _classify_drift = "no_drift" /\ _check_vmid_lease
    /\ RecordValidated
    /\ UNCHANGED <<execution, frozen, lease, readiness, runtime, world, cmd, crashes>>

-----------------------------------------------------------------------------
(* Gate 4.                                                                   *)

(* Gates 1 to 11 compare the job with its evidence; 12 to 16 are switches    *)
(* (open here), the credential and the one execution.                        *)
EvidenceGates == state = "mutation_validated" /\ lease = "leased"
ExecutionGates == execution # "executed"
_check_all_gates == EvidenceGates /\ ExecutionGates

(* A credential that is active, unexpired and not consumed; Gate 4 never     *)
(* marks it consumed.                                                        *)
resolve_credential(present) == present

(* The real clone is off: only the pre-checks are recorded. *)
PreChecksOnly ==
    /\ cmd = Idle /\ _check_all_gates
    /\ execution' = "pre_checks_pass"
    /\ UNCHANGED <<state, frozen, lease, readiness, runtime, world, cmd, crashes>>

execute_controlled_clone ==
    /\ cmd = Idle /\ _check_all_gates
    /\ \E present \in BOOLEAN : resolve_credential(present)
    /\ Run("gate4", "post")
    /\ UNCHANGED <<row, world, crashes>>

(* Mutant: the request goes out without a fresh look at the inventory. *)
ClonesAnyway == TRUE

(* _RealCloneTransport takes only the frozen contract: Gate 4 gives it the   *)
(* snapshot's fingerprint as the cluster and is refused, unless a test       *)
(* stands in for the transport (accepts).  Identity, frozen source and an    *)
(* absent target are checked immediately before the one POST.                *)
TargetAbsent == vm = "absent"
MayPost == accepts /\ changed \subseteq {"capacity"} /\ TargetAbsent

(* The POST: refused, done, or done with its answer lost. *)
_execute_real_clone ==
    /\ cmd.name = "gate4" /\ cmd.pc = "post"
    /\ \/ /\ ~MayPost
          /\ Run("gate4", "error") /\ UNCHANGED <<vm, clones>>
       \/ /\ MayPost
          /\ \/ /\ vm' = "stopped" /\ clones' = clones + 1
                /\ Run("gate4", "wait") \/ Run("gate4", "error")
             \/ Run("gate4", "error") /\ UNCHANGED <<vm, clones>>
    /\ UNCHANGED <<row, configured, changed, accepts, starts, drifts, crashes>>

(* The task's end is awaited for half an hour. *)
_wait_for_upid_completion ==
    /\ cmd.name = "gate4" /\ cmd.pc = "wait"
    /\ \E status \in {"OK", "error", "unknown"} :
         Run("gate4", IF status = "OK" THEN "verify" ELSE status)
    /\ UNCHANGED <<row, world, crashes>>

(* The one commit: a stopped VM that matches, a failure, or a failure that   *)
(* asks for reconciliation.                                                  *)
_verify_clone_post_execution ==
    /\ cmd.name = "gate4" /\ cmd.pc \in {"verify", "error", "unknown"}
    /\ \/ /\ cmd.pc = "verify" /\ vm = "stopped"
          /\ state' = "clone_executed" /\ execution' = "executed"
       \/ /\ cmd.pc \in {"verify", "error"}
          /\ state' = "failed" /\ execution' = "verification_failed"
       \/ /\ cmd.pc = "unknown"
          /\ state' = "failed" /\ execution' = "reconciliation_required"
    /\ Ends
    /\ UNCHANGED <<frozen, lease, readiness, runtime, world, crashes>>

-----------------------------------------------------------------------------
(* Mutant: the lease gets the state of a reservation. *)
AdoptsAsReserved == lease' = "reserved"

adopt_existing_vmid == lease' = "consumed"

(* The new plan and contract, their approval (consumed) and the intent.      *)
FreezeBinding == frozen' = TRUE

(* HC3.7.6: a new binding for the VM that exists, approved by an operator;   *)
(* refused once it has been done.  The state and Gate 4's evidence are left. *)
reestablish_operator_binding ==
    /\ cmd = Idle /\ ~frozen
    /\ adopt_existing_vmid
    /\ FreezeBinding
    /\ UNCHANGED <<state, execution, readiness, runtime, world, cmd, crashes>>

-----------------------------------------------------------------------------
(* HC3.8.  Every advance is committed.                                       *)
Advance(to) == _validate_transition(state, to) /\ state' = to

(* _assert_binding: only a clone that was never taken further. *)
_assert_binding == state = "clone_executed"

execute_phase_c_live ==
    /\ cmd = Idle /\ _assert_binding /\ frozen /\ execution # None
    /\ state' = "post_clone_validated"
    /\ Run("live", "status")
    /\ UNCHANGED <<execution, frozen, lease, readiness, runtime, world, crashes>>

advance_to_post_clone_configuring ==
    /\ cmd.name = "live" /\ cmd.pc = "status"
    /\ IF vm = "stopped"
       THEN Advance("post_clone_configuring") /\ Run("live", "configure")
       ELSE Ends /\ UNCHANGED state
    /\ UNCHANGED <<execution, frozen, lease, readiness, runtime, world, crashes>>

(* qm set and qm resize, read back; the disk is never shrunk. *)
_apply_config ==
    /\ cmd.name = "live" /\ cmd.pc = "configure"
    /\ \/ /\ configured' = TRUE
          /\ Advance("boot_starting") /\ Run("live", "start")
       \/ Ends /\ UNCHANGED <<state, configured>>
    /\ UNCHANGED <<execution, frozen, lease, readiness, runtime, vm, changed, accepts,
                   clones, starts, drifts, crashes>>

_start_once ==
    /\ cmd.name = "live" /\ cmd.pc = "start"
    /\ \/ /\ vm = "stopped" /\ vm' = "running" /\ starts' = starts + 1
          /\ Run("live", "started")
       \/ vm = "running" /\ Run("live", "started") /\ UNCHANGED <<vm, starts>>
       \/ vm = "stopped" /\ Ends /\ UNCHANGED <<vm, starts>>      \* start_timeout
    /\ UNCHANGED <<row, configured, changed, accepts, clones, drifts, crashes>>

advance_to_boot_verifying ==
    /\ cmd.name = "live" /\ cmd.pc = "started"
    /\ Advance("boot_verifying")
    /\ Run("live", "verify")
    /\ UNCHANGED <<execution, frozen, lease, readiness, runtime, world, crashes>>

(* --resume goes on from boot_verifying when the VM runs. *)
resume_phase_c_from_boot_verifying ==
    /\ cmd = Idle /\ state = "boot_verifying" /\ vm = "running"
    /\ Run("live", "verify")
    /\ UNCHANGED <<row, world, crashes>>

(* The guest answers with its size, name and cloud-init status: all of it    *)
(* right, some of it wrong (kept as partial evidence), or not at all.        *)
_verify_cloud_init_and_ssh ==
    /\ cmd.name = "live" /\ cmd.pc = "verify"
    /\ \/ /\ vm = "running" /\ configured
          /\ Advance("booted_and_ready") /\ readiness' = "live"
       \/ vm = "running" /\ readiness' = "partial" /\ UNCHANGED state
       \/ UNCHANGED <<state, readiness>>
    /\ Ends
    /\ UNCHANGED <<execution, frozen, lease, runtime, world, crashes>>

(* The orchestrator walks the same states without configuring the VM; a      *)
(* start that fails and a guest that never answers are only logged.          *)
orchestrate_post_clone_boot ==
    /\ cmd = Idle /\ state = "clone_executed" /\ execution # None
    /\ state' = "boot_starting"
    /\ Run("orchestrator", "start")
    /\ UNCHANGED <<execution, frozen, lease, readiness, runtime, world, crashes>>

_issue_vm_start ==
    /\ cmd.name = "orchestrator" /\ cmd.pc = "start"
    /\ \/ vm = "stopped" /\ vm' = "running" /\ starts' = starts + 1
       \/ UNCHANGED <<vm, starts>>
    /\ Advance("boot_verifying")
    /\ Run("orchestrator", "wait")
    /\ UNCHANGED <<execution, frozen, lease, readiness, runtime, configured, changed, accepts,
                   clones, drifts, crashes>>

_wait_for_boot_completion ==
    /\ cmd.name = "orchestrator" /\ cmd.pc = "wait"
    /\ Advance("booted_and_ready") /\ readiness' = "orchestrated"
    /\ Ends
    /\ UNCHANGED <<execution, frozen, lease, runtime, world, crashes>>

-----------------------------------------------------------------------------
(* HC3.9: the runtime's states one by one, or its evidence persisted for a   *)
(* runtime found in place.                                                   *)
advance_to_base_runtime_installing ==
    /\ cmd = Idle /\ state = "booted_and_ready" /\ readiness # None
    /\ Advance("base_runtime_installing")
    /\ UNCHANGED <<execution, frozen, lease, readiness, runtime, world, cmd, crashes>>

AdvanceRuntime ==
    /\ cmd = Idle /\ Rank("base_runtime_installing") <= Rank(state)
    /\ \E to \in States \ {"failed"} : Advance(to)
    /\ runtime' = IF state' = "base_odoo_runtime_ready" THEN "runtime" ELSE runtime
    /\ UNCHANGED <<execution, frozen, lease, readiness, world, cmd, crashes>>

mark_runtime_failed ==
    /\ cmd = Idle /\ state # "failed" /\ Rank("base_runtime_installing") <= Rank(state)
    /\ Advance("failed")
    /\ runtime' = "failure"
    /\ UNCHANGED <<execution, frozen, lease, readiness, world, cmd, crashes>>

(* The evidence must name its job: the orchestrator's does not. *)
validate_hc38_evidence == readiness \in {"live", "partial"}

persist_hc39_evidence ==
    /\ cmd = Idle /\ state = "booted_and_ready" /\ validate_hc38_evidence
    /\ state' = "base_odoo_runtime_ready" /\ runtime' = "persisted"
    /\ UNCHANGED <<execution, frozen, lease, readiness, world, cmd, crashes>>

(* The command dies: what Gate 4 only flushed is gone. *)
Crash ==
    /\ cmd # Idle /\ crashes < MaxCrashes
    /\ crashes' = crashes + 1 /\ Ends
    /\ UNCHANGED <<row, world>>

Next ==
    \/ Drift
    \/ validate_mutation_drift
    \/ PreChecksOnly
    \/ execute_controlled_clone
    \/ _execute_real_clone
    \/ _wait_for_upid_completion
    \/ _verify_clone_post_execution
    \/ reestablish_operator_binding
    \/ execute_phase_c_live
    \/ advance_to_post_clone_configuring
    \/ _apply_config
    \/ _start_once
    \/ advance_to_boot_verifying
    \/ resume_phase_c_from_boot_verifying
    \/ _verify_cloud_init_and_ssh
    \/ orchestrate_post_clone_boot
    \/ _issue_vm_start
    \/ _wait_for_boot_completion
    \/ advance_to_base_runtime_installing
    \/ state # "failed" /\ AdvanceRuntime
    \/ mark_runtime_failed
    \/ persist_hc39_evidence
    \/ Crash

Spec == Init /\ [][Next]_vars

-----------------------------------------------------------------------------
(* Every variable holds a value of its type. *)
TypeOK ==
    /\ state \in States
    /\ execution \in {None, "pre_checks_pass", "executed", "verification_failed",
                      "reconciliation_required"}
    /\ frozen \in BOOLEAN /\ configured \in BOOLEAN
    /\ accepts \in BOOLEAN /\ changed \subseteq Facets
    /\ lease \in {"leased", "consumed"} /\ vm \in {"absent", "stopped", "running"}
    /\ readiness \in {None, "partial", "live", "orchestrated"}
    /\ runtime \in {None, "runtime", "persisted", "failure"}

(* "No duplicate execution even on worker restart/crash" and one start: the  *)
(* job's VM is made once and started once, though a Gate 4 that dies leaves  *)
(* no trace and its job is still validated.                                  *)
MadeOnce == clones <= 1 /\ starts <= 1

(* Evidence of a base runtime belongs to a VM that runs.  (The docstring of  *)
(* advance_to_booted_and_ready: "VM is running, accessible"; the             *)
(* orchestrator breaks it.)                                                  *)
BootedIsRunning == state = "booted_and_ready" => vm = "running"

===============================================================================
