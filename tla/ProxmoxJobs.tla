------------------------------ MODULE ProxmoxJobs ------------------------------
(***************************************************************************)
(* Helper Compute on Proxmox: a request reserves a node, becomes a job, is *)
(* queued, claimed by a worker, planned (with a VMID lease) and executed;  *)
(* operators cancel, retry and reconcile.  Sources: proxmox/reservation,   *)
(* vmid_lease, provisioning_job, plan_compiler, provisioning_worker,       *)
(* api/provisioning.                                                       *)
(*                                                                         *)
(* A claim is a conditional UPDATE that stays uncommitted: with Gate 2 off *)
(* claim, plan and execution are one transaction.  With Gate 2 on, the     *)
(* readiness verdict is committed in between, and the worker goes on with  *)
(* the copies it has.  Operators read a row and write it back later,       *)
(* without a condition on its state.                                       *)
(***************************************************************************)
EXTENDS Integers, FiniteSets

CONSTANTS
    Jobs,         \* requests, each with at most one reservation and job
    Nodes,        \* compute nodes
    Capacity,     \* units a node can give; a request takes one
    MaxVmid,      \* VMIDs of the configured range
    Workers,      \* worker processes
    Operators,    \* request threads of the operators' endpoints
    MaxAttempts,  \* max_attempts of a job
    MaxRetries,   \* bound: jobs an operator retries
    MaxCrashes,   \* bound: workers killed
    Overlap,      \* a process may be suspended for longer than a lease
    Overtaken     \* with Gate 2 on, a row may change under an operator's copy

(* What is reserved is counted. *)
JobsAssumption == IsFiniteSet(Jobs) /\ Capacity \in [Nodes -> Nat]

Procs  == Workers \cup Operators
Vmids  == 1 .. MaxVmid
None   == "none"

PROXMOX_JOB_TRANSITIONS ==
    [s \in {"absent", "reserved", "queued", "provisioning", "failed", "rollback_pending",
            "ready", "rolled_back", "cancelled", "mutation_ready"} |->
       CASE s = "absent" -> {"reserved"}
         [] s = "reserved" -> {"queued", "cancelled"}
         [] s = "queued" -> {"provisioning", "cancelled"}
         [] s = "provisioning" -> {"ready", "failed", "rollback_pending", "mutation_ready"}
         [] s = "failed" -> {"queued", "rollback_pending", "rolled_back"}
         [] s = "rollback_pending" -> {"rolled_back", "failed"}
         [] OTHER -> {}]
States == DOMAIN PROXMOX_JOB_TRANSITIONS

ReservationStatuses == {None, "active", "released", "consumed", "failed"}

(* permanent: last_error_code is one a retry is refused for. *)
NoJob == [state |-> "absent", attempts |-> 0, lease |-> None, permanent |-> FALSE]
Idle  == [pc |-> "idle", j |-> None, node |-> None, copy |-> NoJob, rsv |-> None]

VARIABLES
    job,       \* rows of proxmox_provisioning_jobs
    rsv,       \* [status, node] of each job's reservation
    reserved, committed,   \* counters of helper_compute_nodes
    vmid,      \* VMID leased to each job, 0 for none
    resource,  \* the provider's resources: none, partial or whole
    proc,      \* handlers and workers under way
    retries, crashes,      \* used up of their bounds
    gate2      \* is_mutation_readiness_enabled

vars == <<job, rsv, reserved, committed, vmid, resource, proc, retries, crashes, gate2>>

Init ==
    /\ job = [j \in Jobs |-> NoJob]
    /\ rsv = [j \in Jobs |-> [status |-> None, node |-> None]]
    /\ reserved = [n \in Nodes |-> 0] /\ committed = [n \in Nodes |-> 0]
    /\ vmid = [j \in Jobs |-> 0]
    /\ resource = [j \in Jobs |-> None]
    /\ proc = [p \in Procs |-> Idle]
    /\ retries = 0 /\ crashes = 0
    /\ gate2 \in BOOLEAN

Done(p) == proc' = [proc EXCEPT ![p] = Idle]

-----------------------------------------------------------------------------
(* Reservation: the node is chosen from what the thread reads, and taken by  *)
(* an UPDATE that checks the room again.                                     *)
Available(n) == Capacity[n] - reserved[n] - committed[n]
candidate_nodes == {n \in Nodes : Available(n) >= 1}

_select_node_deterministic(n) ==
    n \in candidate_nodes /\ \A m \in candidate_nodes : Available(m) <= Available(n)

acquire_reservation(p, j) ==
    /\ proc[p].pc = "idle" /\ p \in Operators
    /\ rsv[j].status = None
    /\ \E n \in Nodes : /\ _select_node_deterministic(n)
                        /\ proc' = [proc EXCEPT ![p] =
                             [Idle EXCEPT !.pc = "reserve", !.j = j, !.node = n]]
    /\ UNCHANGED <<job, rsv, reserved, committed, vmid, resource, retries, crashes, gate2>>

(* Mutant: the UPDATE trusts the earlier read. *)
TakesAnyway(n) == TRUE

StillFits(n) == Available(n) >= 1

(* UPDATE, reservation and (create_provisioning_job) the job; request id and *)
(* idempotency key are unique.                                               *)
create_provisioning_job(p) ==
    LET j == proc[p].j
        n == proc[p].node IN
    /\ proc[p].pc = "reserve"
    /\ IF rsv[j].status = None /\ StillFits(n)
       THEN /\ reserved' = [reserved EXCEPT ![n] = @ + 1]
            /\ rsv' = [rsv EXCEPT ![j] = [status |-> "active", node |-> n]]
            /\ job' = [job EXCEPT ![j].state = "reserved"]
       ELSE UNCHANGED <<job, rsv, reserved>>
    /\ Done(p)
    /\ UNCHANGED <<committed, vmid, resource, retries, crashes, gate2>>

(* What release_reservation, fail_reservation and consume_reservation do to  *)
(* the counters, for a reservation the session holds as `status`.            *)
Less(x) == IF x - 1 < 0 THEN 0 ELSE x - 1

release_reservation(j, status, to) ==
    IF status = "active"
    THEN /\ rsv' = [rsv EXCEPT ![j].status = to]
         /\ reserved' = [reserved EXCEPT ![rsv[j].node] = Less(@)]
         /\ UNCHANGED committed
    ELSE UNCHANGED <<rsv, reserved, committed>>

(* Mutant: the reserved share is kept. *)
ConsumeKeepsReserved(j) ==
    /\ rsv' = [rsv EXCEPT ![j].status = "consumed"]
    /\ committed' = [committed EXCEPT ![rsv[j].node] = @ + 1]
    /\ UNCHANGED reserved

consume_reservation(j) ==
    /\ rsv' = [rsv EXCEPT ![j].status = "consumed"]
    /\ reserved' = [reserved EXCEPT ![rsv[j].node] = Less(@)]
    /\ committed' = [committed EXCEPT ![rsv[j].node] = @ + 1]

-----------------------------------------------------------------------------
(* Operators: enqueue, cancel and retry read the job, and write it later.    *)
LoadJob(p, j) ==
    /\ proc[p].pc = "idle" /\ p \in Operators
    /\ job[j].state \in {"reserved", "queued", "failed"}
    /\ proc' = [proc EXCEPT ![p] = [Idle EXCEPT !.pc = "loaded", !.j = j, !.copy = job[j]]]
    /\ UNCHANGED <<job, rsv, reserved, committed, vmid, resource, retries, crashes, gate2>>

Fresh(p) == Overtaken \/ ~gate2 \/ proc[p].copy = job[proc[p].j]

enqueue_job(p) ==
    LET j == proc[p].j IN
    /\ proc[p].pc = "loaded" /\ Fresh(p) /\ proc[p].copy.state = "reserved"
    /\ job' = IF rsv[j].status = "active" THEN [job EXCEPT ![j].state = "queued"] ELSE job
    /\ Done(p)
    /\ UNCHANGED <<rsv, reserved, committed, vmid, resource, retries, crashes, gate2>>

(* The reservation is read after the job's row is flushed, under the lock. *)
cancel_job(p) ==
    LET j == proc[p].j IN
    /\ proc[p].pc = "loaded" /\ Fresh(p) /\ proc[p].copy.state \in {"reserved", "queued"}
    /\ job' = [job EXCEPT ![j].state = "cancelled"]
    /\ release_reservation(j, rsv[j].status, "released")
    /\ Done(p)
    /\ UNCHANGED <<vmid, resource, retries, crashes, gate2>>

retry_failed_job(p) ==
    LET j == proc[p].j IN
    /\ proc[p].pc = "loaded" /\ Fresh(p) /\ proc[p].copy.state = "failed"
    /\ proc[p].copy.attempts < MaxAttempts /\ ~proc[p].copy.permanent
    /\ retries < MaxRetries
    /\ retries' = retries + 1
    /\ job' = [job EXCEPT ![j].state = "queued"]
    /\ Done(p)
    /\ UNCHANGED <<rsv, reserved, committed, vmid, resource, crashes, gate2>>

(* A refused request, or one that is given up. *)
RefuseOperator(p) ==
    /\ proc[p].pc \in {"loaded", "stale"}
    /\ Done(p)
    /\ UNCHANGED <<job, rsv, reserved, committed, vmid, resource, retries, crashes, gate2>>

-----------------------------------------------------------------------------
(* The worker.                                                              *)

(* allocate_vmid: the job's own lease, else the lowest VMID free of leases. *)
Leased == {vmid[j] : j \in Jobs} \ {0}
allocate_vmid(j) ==
    IF vmid[j] # 0 THEN vmid[j]
    ELSE IF Vmids \subseteq Leased THEN 0
    ELSE CHOOSE v \in Vmids \ Leased : \A w \in Vmids \ Leased : v <= w

(* compile_provisioning_plan raises unless the reservation is active, every  *)
(* check passes and a VMID is left; `failed` is the check that refuses.      *)
PlanChecks == {"template", "node", "storage", "network", "capacity"}
Verdicts   == PlanChecks \cup {None}

_validate_job_reservation_consistency(j) == rsv[j].status = "active"

compile_provisioning_plan(j, failed) ==
    /\ _validate_job_reservation_consistency(j)
    /\ failed = None
    /\ allocate_vmid(j) # 0

(* The row of a plan that failed: attempts counted, and no retry when the    *)
(* reservation was not active ("validation_failed").  (The bound on attempts *)
(* only keeps the counter finite.)                                           *)
Unplanned(j) ==
    [job[j] EXCEPT !.state = "failed", !.lease = "live",
                   !.permanent = ~_validate_job_reservation_consistency(j),
                   !.attempts = IF @ > MaxAttempts THEN @ ELSE @ + 1]

(* It is written, and the reservation kept. *)
FailJob(j) ==
    /\ job' = [job EXCEPT ![j] = Unplanned(j)]
    /\ UNCHANGED <<rsv, reserved, committed, vmid, resource>>

Claimable(j) == job[j].state = "queued"

(* What the provider's answer does to the job (_classify_and_handle_result   *)
(* and the rollback of execute_job), given the number of this attempt and    *)
(* the reservation's status as the session holds it.  An operator may retry  *)
(* what failed unless last_error_code is one of three: an answer for good is *)
(* coded provider_permanent or by its limiting factor, a rollback that       *)
(* failed is coded rollback_failure.                                         *)
_classify_and_handle_result(j, answer, n, status) ==
    LET to(s, permanent) == job' = [job EXCEPT ![j] =
            [state |-> s, attempts |-> n, lease |-> "live", permanent |-> permanent]] IN
    \/ /\ answer = "success" /\ status = "active"
       /\ to("ready", FALSE)
       /\ consume_reservation(j)
       /\ resource' = [resource EXCEPT ![j] = "whole"]
    \/ /\ answer = "transient" /\ n < MaxAttempts
       /\ to("queued", FALSE)
       /\ UNCHANGED <<rsv, reserved, committed, resource>>
    \/ /\ (answer = "transient" /\ n >= MaxAttempts) \/ answer = "permanent"
       /\ \E coded \in BOOLEAN : to("failed", coded /\ answer = "permanent")
       /\ release_reservation(j, status, "failed")
       /\ UNCHANGED resource
    \/ /\ answer = "partial"
       /\ to("rolled_back", FALSE)
       /\ release_reservation(j, status, "failed")
       /\ UNCHANGED resource
    \/ /\ answer = "partial_stuck"      \* the rollback failed too
       /\ to("failed", FALSE)
       /\ UNCHANGED <<rsv, reserved, committed>>
       /\ resource' = [resource EXCEPT ![j] = "partial"]

Answers == {"success", "transient", "permanent", "partial", "partial_stuck"}

(* Gate 2 off: one transaction, or nothing of it when the process dies. *)
_process_one_proxmox_job(w, j) ==
    /\ proc[w].pc = "idle" /\ w \in Workers /\ ~gate2 /\ Claimable(j)
    /\ \/ \E answer \in Answers :
            /\ compile_provisioning_plan(j, None)
            /\ _classify_and_handle_result(j, answer, job[j].attempts + 1, rsv[j].status)
            /\ vmid' = [vmid EXCEPT ![j] = allocate_vmid(j)]
       \/ \E failed \in Verdicts : ~compile_provisioning_plan(j, failed) /\ FailJob(j)
    /\ UNCHANGED <<proc, retries, crashes, gate2>>

(* claim_job: the row of a job that is taken. *)
claim_job(j) == [job[j] EXCEPT !.state = "provisioning", !.attempts = @ + 1, !.lease = "live"]

(* What Gate 2 asks of a compiled plan.  The operational blockers (switches,  *)
(* credential, policy) are recorded and decide nothing.                       *)
StructuralChecks == {"contract_bound", "preflight_valid", "gate_errors"}

is_structurally_ready(failing) == failing = {}

(* claim_job: a ready job is parked. *)
Readied(j) == [claim_job(j) EXCEPT !.state = "mutation_ready"]

(* Gate 2 on: claim, plan and verdict are committed; a blocked job goes on to *)
(* the execution.                                                            *)
evaluate_mutation_readiness(w, j) ==
    /\ proc[w].pc = "idle" /\ w \in Workers /\ gate2 /\ Claimable(j)
    /\ \/ /\ compile_provisioning_plan(j, None)
          /\ vmid' = [vmid EXCEPT ![j] = allocate_vmid(j)]
          /\ \E failing \in SUBSET StructuralChecks :
               LET ready == is_structurally_ready(failing)
                   row   == IF ready THEN Readied(j) ELSE claim_job(j) IN
               /\ job' = [job EXCEPT ![j] = row]
               /\ proc' = IF ready THEN proc
                          ELSE [proc EXCEPT ![w] = [Idle EXCEPT !.pc = "execute", !.j = j,
                                            !.copy = row, !.rsv = rsv[j].status]]
          /\ UNCHANGED <<rsv, reserved, committed, resource>>
       \/ /\ \E failed \in Verdicts : ~compile_provisioning_plan(j, failed)
          /\ FailJob(j) /\ UNCHANGED proc
    /\ UNCHANGED <<retries, crashes, gate2>>

(* The job is still "provisioning" in the worker's copy, whatever happened. *)
execute_job(w) ==
    LET j == proc[w].j IN
    /\ proc[w].pc = "execute"
    /\ \E answer \in Answers :
         _classify_and_handle_result(j, answer, proc[w].copy.attempts, proc[w].rsv)
    /\ Done(w)
    /\ UNCHANGED <<vmid, retries, crashes, gate2>>

Crash(w) ==
    /\ crashes < MaxCrashes /\ proc[w].pc = "execute"
    /\ crashes' = crashes + 1
    /\ Done(w)
    /\ UNCHANGED <<job, rsv, reserved, committed, vmid, resource, retries, gate2>>

(* Five minutes pass. *)
ExpireLease(j) ==
    /\ job[j].state = "provisioning" /\ job[j].lease = "live"
    /\ Overlap \/ \A p \in Procs : proc[p].pc = "idle"
    /\ job' = [job EXCEPT ![j].lease = "expired"]
    /\ UNCHANGED <<rsv, reserved, committed, vmid, resource, proc, retries, crashes, gate2>>

(* The endpoint reads the stale jobs and their reservations, then writes. *)
LoadStale(p, j) ==
    /\ proc[p].pc = "idle" /\ p \in Operators
    /\ job[j].state = "provisioning" /\ job[j].lease = "expired"
    /\ proc' = [proc EXCEPT ![p] = [Idle EXCEPT !.pc = "stale", !.j = j, !.copy = job[j],
                                                !.rsv = rsv[j].status]]
    /\ UNCHANGED <<job, rsv, reserved, committed, vmid, resource, retries, crashes, gate2>>

(* The worker's own reconciliation is in RequeueUncommitted. *)
reconcile_stale_proxmox_jobs(p) ==
    LET j == proc[p].j IN
    /\ proc[p].pc = "stale" /\ Fresh(p)
    /\ IF proc[p].copy.attempts < MaxAttempts
       THEN /\ job' = [job EXCEPT ![j].state = "queued", ![j].lease = None]
            /\ UNCHANGED <<rsv, reserved, committed>>
       ELSE /\ job' = [job EXCEPT ![j].state = "failed", ![j].lease = None]
            /\ release_reservation(j, proc[p].rsv, "failed")
    /\ Done(p)
    /\ UNCHANGED <<vmid, resource, retries, crashes, gate2>>

(* run_proxmox_worker_loop reconciles in a session it commits only through a *)
(* claim.  The requeued job is due a second later, so it is not the one that *)
(* is claimed: the writes last only when another job is processed after them *)
(* in the same session.                                                      *)
run_proxmox_worker_loop(w, j, other) ==
    /\ proc[w].pc = "idle" /\ w \in Workers /\ j # other
    /\ job[j].state = "provisioning" /\ job[j].lease = "expired"
    /\ job[j].attempts < MaxAttempts
    /\ Claimable(other) /\ (\E failed \in PlanChecks : ~compile_provisioning_plan(other, failed))
    /\ job' = [job EXCEPT ![j].state = "queued", ![j].lease = None,
                          ![other] = Unplanned(other)]
    /\ UNCHANGED <<rsv, reserved, committed, vmid, resource, proc, retries, crashes, gate2>>

Next ==
    \/ \E p \in Operators, j \in Jobs :
         acquire_reservation(p, j) \/ LoadJob(p, j) \/ LoadStale(p, j)
    \/ \E p \in Operators :
         \/ create_provisioning_job(p)
         \/ enqueue_job(p)
         \/ cancel_job(p)
         \/ retry_failed_job(p)
         \/ RefuseOperator(p)
         \/ reconcile_stale_proxmox_jobs(p)
    \/ \E w \in Workers, j \in Jobs :
         _process_one_proxmox_job(w, j) \/ evaluate_mutation_readiness(w, j)
    \/ \E w \in Workers : execute_job(w) \/ Crash(w)
    \/ \E w \in Workers, j, other \in Jobs : run_proxmox_worker_loop(w, j, other)
    \/ \E j \in Jobs : ExpireLease(j)

Spec == Init /\ [][Next]_vars

-----------------------------------------------------------------------------
(* Every variable holds a value of its type. *)
TypeOK ==
    /\ \A j \in Jobs : /\ job[j].state \in States
                       /\ job[j].attempts \in 0 .. MaxAttempts + 1
                       /\ rsv[j].status \in ReservationStatuses
                       /\ vmid[j] \in 0 .. MaxVmid
                       /\ resource[j] \in {None, "partial", "whole"}
    /\ \A n \in Nodes : reserved[n] \in Nat /\ committed[n] \in Nat
    /\ retries \in 0 .. MaxRetries /\ crashes \in 0 .. MaxCrashes

(* A node's counters are what its reservations say: nothing is released      *)
(* twice or kept for a job that ended, whichever of worker, cancellation and *)
(* reconciliation ends it.                                                   *)
CountersExact ==
    \A n \in Nodes :
        /\ reserved[n] = Cardinality({j \in Jobs : rsv[j] = [status |-> "active", node |-> n]})
        /\ committed[n] = Cardinality({j \in Jobs : rsv[j] = [status |-> "consumed", node |-> n]})

(* Two requests that read the same free node do not both get its last unit.  *)
NodesNotOversold ==
    \A n \in Nodes : reserved[n] + committed[n] <= Capacity[n]

(* What PROXMOX_JOB_TRANSITIONS allows, two of its steps at a time: a        *)
(* committed write may hold a claim and its outcome.                         *)
LegalStep(a, b) ==
    \/ a = b \/ b \in PROXMOX_JOB_TRANSITIONS[a]
    \/ \E c \in PROXMOX_JOB_TRANSITIONS[a] :
         \/ b \in PROXMOX_JOB_TRANSITIONS[c]
         \/ \E d \in PROXMOX_JOB_TRANSITIONS[c] : b \in PROXMOX_JOB_TRANSITIONS[d]

(* A job that ended (ready, rolled back, cancelled) keeps its state. *)
EndedIsFinal ==
    [][\A j \in Jobs : LegalStep(job[j].state, job'[j].state)]_vars

===============================================================================
