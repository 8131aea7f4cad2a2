------------------------------ MODULE ProxmoxClone ------------------------------
(***************************************************************************)
(* The one controlled clone of Helper Compute: a job is staged with a VMID *)
(* lease and an approval, an operator's call writes a durable intent in    *)
(* one transaction, sends the clone request at most once, and every later  *)
(* call only reconciles.  Sources: clone_control, real_clone_entry,        *)
(* real_clone_transport, staging_coordinator, vmid_lease.                  *)
(*                                                                         *)
(* `real` is the live transport with its dedicated database; otherwise the *)
(* in-memory simulator answers.  Calls of two operators interleave at each *)
(* commit and each request to the provider, and may die there.             *)
(***************************************************************************)
EXTENDS Integers, FiniteSets

CONSTANTS
    Jobs,         \* clone jobs
    Operators,    \* calls of trusted operators under way at a time
    MaxVmid,      \* VMIDs of the frozen range
    MaxCalls,     \* bound: operator calls in all
    MaxCrashes    \* bound: calls that die

Vmids == 1 .. MaxVmid
None  == "none"

Phases == {None, "mutation_requested", "mutation_not_attempted", "provider_acknowledged",
           "outcome_ambiguous", "manual_review_required", "clone_absent_retain_for_review",
           "clone_verified"}

States    == {"absent", "reserved", "clone_intent", "clone_verified", "clone_cancelled"}
Leases    == [job : Jobs \cup {None}, state : {None, "leased", "consumed", "released"}]
Approvals == [issued : BOOLEAN, live : BOOLEAN, consumed : BOOLEAN]
Intents   == [phase : Phases, upid : BOOLEAN]

NoLease    == [job |-> None, state |-> None]
NoApproval == [issued |-> FALSE, live |-> FALSE, consumed |-> FALSE]
NoIntent   == [phase |-> None, upid |-> FALSE]
Pcs        == {"idle", "claim", "recheck", "dispatch", "ack", "ambiguous", "reconcile", "settle",
               "delete", "deleted", "release"}
Calls      == [pc : Pcs, j : Jobs \cup {None}, phase : Phases,
               task : {None, "running", "OK", "failed", "unknown"}, vm : BOOLEAN]
Idle       == [pc |-> "idle", j |-> None, phase |-> None, task |-> None, vm |-> FALSE]

(* No job is called like the absence of one. *)
CloneAssumption == None \notin Jobs /\ MaxVmid \in Nat

VARIABLES
    real,      \* live transport or simulator
    state,     \* job state: absent, reserved, clone_intent, clone_verified, clone_cancelled
    target,    \* VMID of each job's contract, 0 before it is staged
    lease,     \* rows of proxmox_vmid_leases, by VMID
    approval, cleanupApproval, intent,
    control,   \* proxmox_mutation_control: slot owner and kill switch
    vms,       \* the provider: the job each VMID was cloned for
    task,      \* the provider: clone task of each job
    sent,      \* history: clone requests sent for each job
    proc, calls, crashes

rows == <<state, target, lease, approval, cleanupApproval, intent, control>>
provider == <<vms, task, sent>>
vars == <<real, rows, provider, proc, calls, crashes>>

Init ==
    /\ real \in BOOLEAN
    /\ state = [j \in Jobs |-> "absent"]
    /\ target = [j \in Jobs |-> 0]
    /\ lease = [v \in Vmids |-> NoLease]
    /\ approval = [j \in Jobs |-> NoApproval]
    /\ cleanupApproval = [j \in Jobs |-> FALSE]
    /\ intent = [j \in Jobs |-> NoIntent]
    /\ control = [owner |-> None, kill |-> TRUE]
    /\ vms = [v \in Vmids |-> None]
    /\ task = [j \in Jobs |-> None]
    /\ sent = [j \in Jobs |-> 0]
    /\ proc = [p \in Operators |-> Idle]
    /\ calls = 0 /\ crashes = 0

(* An operator starts a call. *)
Call(p, pc, j) ==
    /\ proc[p].pc = "idle" /\ calls < MaxCalls
    /\ calls' = calls + 1
    /\ proc' = [proc EXCEPT ![p] = [pc |-> pc, j |-> j, phase |-> None, task |-> None, vm |-> FALSE]]

Done(p) == proc' = [proc EXCEPT ![p] = Idle]
Goto(p, pc) == proc' = [proc EXCEPT ![p].pc = pc]

-----------------------------------------------------------------------------
(* Staging.                                                                  *)

(* _used_vmids: every VMID that was ever leased or targeted, or exists. *)
_used_vmids == {v \in Vmids : lease[v] # NoLease \/ vms[v] # None}

(* allocate_vmid reuses a released row unless its job has an intent. *)
Reusable(v) ==
    /\ vms[v] = None
    /\ \/ lease[v] = NoLease
       \/ lease[v].state = "released" /\ intent[lease[v].job] = NoIntent

Lowest(S) == CHOOSE v \in S : \A w \in S : v <= w

StageJob(j, v) ==
    /\ state' = [state EXCEPT ![j] = "reserved"]
    /\ target' = [target EXCEPT ![j] = v]
    /\ lease' = [lease EXCEPT ![v] = [job |-> j, state |-> "leased"]]
    /\ approval' = [approval EXCEPT ![j] = [issued |-> TRUE, live |-> TRUE, consumed |-> FALSE]]
    /\ UNCHANGED <<cleanupApproval, intent, control, real, provider, proc, calls, crashes>>

(* BEGIN IMMEDIATE: one transaction, with the kill switch engaged. *)
_stage(j) ==
    /\ real /\ state[j] = "absent"
    /\ \A i \in Jobs : intent[i] = NoIntent /\ (approval[i].issued => approval[i].consumed)
    /\ control.kill /\ control.owner = None
    /\ _used_vmids # Vmids
    /\ StageJob(j, Lowest(Vmids \ _used_vmids))

allocate_vmid(j) ==
    /\ ~real /\ state[j] = "absent"
    /\ \E v \in Vmids : Reusable(v)
    /\ StageJob(j, Lowest({v \in Vmids : Reusable(v)}))

(* Cancels what was staged and engages the kill switch. *)
_cancel(j) ==
    /\ real /\ state[j] = "reserved" /\ control.owner = None
    /\ \A i \in Jobs : intent[i] = NoIntent
    /\ ~approval[j].consumed
    /\ lease[target[j]] = [job |-> j, state |-> "leased"]
    /\ state' = [state EXCEPT ![j] = "clone_cancelled"]
    /\ lease' = [lease EXCEPT ![target[j]].state = "released"]
    /\ approval' = [approval EXCEPT ![j].live = FALSE, ![j].consumed = TRUE]
    /\ control' = [control EXCEPT !.kill = TRUE]
    /\ UNCHANGED <<real, target, cleanupApproval, intent, provider, proc, calls, crashes>>

ApprovalExpires(j) ==
    /\ approval[j].live
    /\ approval' = [approval EXCEPT ![j].live = FALSE]
    /\ UNCHANGED <<real, state, target, lease, cleanupApproval, intent, control, provider,
                   proc, calls, crashes>>

(* An operator disengages the kill switch by hand. *)
ClearStop ==
    /\ control.kill
    /\ control' = [control EXCEPT !.kill = FALSE]
    /\ UNCHANGED <<real, state, target, lease, approval, cleanupApproval, intent, provider,
                   proc, calls, crashes>>

set_emergency_stop ==
    /\ ~control.kill /\ calls < MaxCalls
    /\ calls' = calls + 1
    /\ control' = [control EXCEPT !.kill = TRUE]
    /\ UNCHANGED <<real, state, target, lease, approval, cleanupApproval, intent, provider,
                   proc, crashes>>

-----------------------------------------------------------------------------
(* One call of execute_real_clone or execute_clone.                         *)
lease_valid(j, s) == target[j] # 0 /\ lease[target[j]] = [job |-> j, state |-> s]
approval_valid(j) == approval[j].live /\ ~approval[j].consumed
job_valid(j)      == state[j] = "reserved"

(* An existing intent is only reconciled. *)
_run(p, j) ==
    /\ state[j] # "absent"
    /\ \/ /\ intent[j] # NoIntent
          /\ Call(p, "reconcile", j)
       \/ /\ intent[j] = NoIntent
          /\ approval_valid(j) /\ lease_valid(j, "leased") /\ job_valid(j)
          /\ vms[target[j]] = None
          /\ real => ~control.kill /\ control.owner = None /\ \A i \in Jobs : intent[i] = NoIntent
          /\ Call(p, "claim", j)
    /\ UNCHANGED <<real, rows, provider, crashes>>

(* Mutant: an intent that was not acknowledged is taken up again. *)
ResumesIntent(j) ==
    /\ control.owner \in {None, j} /\ ~control.kill
    /\ state[j] \in {"reserved", "clone_intent"}
    /\ lease_valid(j, "leased")

(* The conditions of the transaction's UPDATEs and its unique insert. *)
MayIntend(j) ==
    /\ control.owner = None /\ ~control.kill
    /\ approval_valid(j)
    /\ state[j] = "reserved"
    /\ lease_valid(j, "leased")
    /\ intent[j] = NoIntent

_execute_controlled(p) ==
    LET j == proc[p].j IN
    /\ proc[p].pc = "claim"
    /\ IF MayIntend(j)
       THEN /\ control' = [control EXCEPT !.owner = j]
            /\ approval' = [approval EXCEPT ![j].consumed = TRUE]
            /\ state' = [state EXCEPT ![j] = "clone_intent"]
            /\ intent' = [intent EXCEPT ![j] = [phase |-> "mutation_requested", upid |-> FALSE]]
            /\ Goto(p, "recheck")
       ELSE Done(p) /\ UNCHANGED <<control, approval, state, intent>>
    /\ UNCHANGED <<real, target, lease, cleanupApproval, provider, calls, crashes>>

(* The stop, the slot and the approval's expiry are read again. *)
RecheckBeforeDispatch(p) ==
    LET j == proc[p].j IN
    /\ proc[p].pc = "recheck"
    /\ IF control.kill \/ control.owner # j \/ ~approval[j].live
       THEN /\ intent' = [intent EXCEPT ![j].phase = "mutation_not_attempted"]
            /\ Done(p)
       ELSE Goto(p, "dispatch") /\ UNCHANGED intent
    /\ UNCHANGED <<real, state, target, lease, approval, cleanupApproval, control, provider, calls, crashes>>

(* The permit of the real transport: the database is read once more. *)
_durable(j) ==
    /\ lease_valid(j, "leased") /\ ~control.kill /\ control.owner = j
    /\ approval[j].live /\ approval[j].consumed
    /\ intent[j] = [phase |-> "mutation_requested", upid |-> FALSE]
    /\ \A i \in Jobs \ {j} : intent[i] = NoIntent
    /\ state[j] = "clone_intent"

(* One request.  The real provider starts a task and makes the VM later; the *)
(* simulator makes it at once.  The answer may be lost either way, and a     *)
(* request that is refused is "ambiguous" too.                               *)
clone_template(p) ==
    LET j == proc[p].j
        v == target[j]
        send(t, vm) == /\ sent' = [sent EXCEPT ![j] = @ + 1]
                       /\ task' = [task EXCEPT ![j] = t]
                       /\ vms' = IF vm THEN [vms EXCEPT ![v] = j] ELSE vms IN
    /\ proc[p].pc = "dispatch"
    /\ \/ /\ real /\ ~(_durable(j) /\ vms[v] = None)
          /\ Goto(p, "ambiguous") /\ UNCHANGED provider
       \/ /\ real /\ _durable(j) /\ vms[v] = None
          /\ \/ send("accepted", FALSE) /\ (Goto(p, "ack") \/ Goto(p, "ambiguous"))
             \/ send(None, FALSE) /\ Goto(p, "ambiguous")
       \/ /\ ~real /\ vms[v] # None
          /\ send(task[j], FALSE) /\ Goto(p, "ambiguous")
       \/ /\ ~real /\ vms[v] = None
          /\ \/ \E t \in {"running", "OK"} : send(t, TRUE) /\ Goto(p, "ack")
             \/ \E vm \in BOOLEAN : send(None, vm) /\ Goto(p, "ambiguous")
    /\ UNCHANGED <<real, rows, calls, crashes>>

Acknowledge(p) ==
    /\ proc[p].pc = "ack"
    /\ intent' = [intent EXCEPT ![proc[p].j] = [phase |-> "provider_acknowledged", upid |-> TRUE]]
    /\ Goto(p, "reconcile")
    /\ UNCHANGED <<real, state, target, lease, approval, cleanupApproval, control, provider, calls, crashes>>

(* A phase is written when it differs from the one the session read. *)
_phase(p, phase) ==
    intent' = IF phase = proc[p].phase THEN intent
              ELSE [intent EXCEPT ![proc[p].j].phase = phase]

Ambiguous(p) ==
    /\ proc[p].pc = "ambiguous"
    /\ intent' = [intent EXCEPT ![proc[p].j].phase = "outcome_ambiguous"]
    /\ Done(p)
    /\ UNCHANGED <<real, state, target, lease, approval, cleanupApproval, control, provider, calls, crashes>>

(* The provider works on its own. *)
ProviderClones(j) ==
    /\ task[j] \in {"accepted", "running"}
    /\ IF task[j] = "accepted"
       THEN IF vms[target[j]] = None
            THEN vms' = [vms EXCEPT ![target[j]] = j] /\ task' = [task EXCEPT ![j] = "running"]
            ELSE task' = [task EXCEPT ![j] = "failed"] /\ UNCHANGED vms
       ELSE \E t \in {"OK", "failed"} : task' = [task EXCEPT ![j] = t] /\ UNCHANGED vms
    /\ UNCHANGED <<real, rows, sent, proc, calls, crashes>>

-----------------------------------------------------------------------------
(* Reconciliation: the intent, the task and the VM are read, then written.  *)
task_status(j) == IF ~intent[j].upid THEN None
                  ELSE IF task[j] \in {"accepted", "running"} THEN "running" ELSE task[j]

ReadProvider(p) ==
    LET j == proc[p].j IN
    /\ proc[p].pc = "reconcile"
    /\ IF intent[j].phase = "clone_verified"
       THEN Done(p)
       ELSE \/ proc' = [proc EXCEPT ![p] = [pc |-> "settle", j |-> j, phase |-> intent[j].phase,
                                            task |-> task_status(j), vm |-> vms[target[j]] = j]]
            \/ proc' = [proc EXCEPT ![p] = [pc |-> "settle", j |-> j, phase |-> intent[j].phase,
                                            task |-> "unknown", vm |-> FALSE]]   \* a GET failed
    /\ UNCHANGED <<real, rows, provider, calls, crashes>>

(* What the reads say of the clone. *)
Outcome(p) ==
    LET j == proc[p].j IN
    CASE proc[p].task = "running" -> "provider_acknowledged"
      [] proc[p].task \notin {None, "OK", "running"} -> "manual_review_required"
      [] proc[p].task \in {None, "OK"} /\ ~proc[p].vm -> "clone_absent_retain_for_review"
      [] proc[p].vm /\ ~(lease_valid(j, "leased") /\ state[j] = "clone_intent")
           -> "manual_review_required"
      [] real /\ proc[p].task = None -> "manual_review_required"
      [] OTHER -> "clone_verified"

(* The real transport keeps the slot: one clone for ever. *)
reconcile_clone(p) ==
    LET j == proc[p].j IN
    /\ proc[p].pc = "settle"
    /\ _phase(p, Outcome(p))
    /\ IF Outcome(p) = "clone_verified"
       THEN /\ lease' = [lease EXCEPT ![target[j]].state = "consumed"]
            /\ state' = [state EXCEPT ![j] = "clone_verified"]
            /\ control' = IF ~real /\ control.owner = j
                          THEN [control EXCEPT !.owner = None] ELSE control
       ELSE UNCHANGED <<lease, state, control>>
    /\ Done(p)
    /\ UNCHANGED <<real, target, approval, cleanupApproval, provider, calls, crashes>>

-----------------------------------------------------------------------------
(* Cleanup of a verified clone, and release of a lease before any attempt.  *)
issue_approval(j) ==
    /\ state[j] = "clone_verified" /\ ~cleanupApproval[j]
    /\ cleanupApproval' = [cleanupApproval EXCEPT ![j] = TRUE]
    /\ UNCHANGED <<real, state, target, lease, approval, intent, control, provider, proc, calls, crashes>>

cleanup_eligible(p, j) ==
    /\ cleanupApproval[j] /\ ~control.kill /\ control.owner = None
    /\ intent[j].phase = "clone_verified" /\ state[j] = "clone_verified"
    /\ lease_valid(j, "consumed") /\ vms[target[j]] = j
    /\ Call(p, "delete", j)
    /\ UNCHANGED <<real, rows, provider, crashes>>

DeleteClone(p) ==
    /\ proc[p].pc = "delete"
    /\ vms' = [vms EXCEPT ![target[proc[p].j]] = IF @ = proc[p].j THEN None ELSE @]
    /\ Goto(p, "deleted")
    /\ UNCHANGED <<real, rows, task, sent, calls, crashes>>

controlled_cleanup(p) ==
    LET j == proc[p].j IN
    /\ proc[p].pc = "deleted"
    /\ lease' = [lease EXCEPT ![target[j]].state = "released"]
    /\ state' = [state EXCEPT ![j] = "clone_cancelled"]
    /\ Done(p)
    /\ UNCHANGED <<real, target, approval, cleanupApproval, intent, control, provider, calls, crashes>>

ReadUnattempted(p, j) ==
    /\ intent[j] = NoIntent /\ lease_valid(j, "leased")
    /\ Call(p, "release", j)
    /\ UNCHANGED <<real, rows, provider, crashes>>

(* Mutant: the job's state is not compared. *)
CancelsAnyState(j) == TRUE

StillUnclaimed(j) == state[j] = "reserved"

release_unattempted_lease(p) ==
    LET j == proc[p].j IN
    /\ proc[p].pc = "release"
    /\ IF StillUnclaimed(j)
       THEN /\ state' = [state EXCEPT ![j] = "clone_cancelled"]
            /\ lease' = [lease EXCEPT ![target[j]].state = "released"]
       ELSE UNCHANGED <<state, lease>>
    /\ Done(p)
    /\ UNCHANGED <<real, target, approval, cleanupApproval, intent, control, provider, calls, crashes>>

(* A call dies where it stands: nothing else remembers it. *)
Crash(p) ==
    /\ crashes < MaxCrashes /\ proc[p].pc # "idle"
    /\ crashes' = crashes + 1
    /\ Done(p)
    /\ UNCHANGED <<real, rows, provider, calls>>

Next ==
    \/ \E j \in Jobs : \/ _stage(j) \/ allocate_vmid(j) \/ _cancel(j) \/ ApprovalExpires(j)
                       \/ ProviderClones(j) \/ issue_approval(j)
    \/ ClearStop
    \/ set_emergency_stop
    \/ \E p \in Operators, j \in Jobs :
         _run(p, j) \/ cleanup_eligible(p, j) \/ ReadUnattempted(p, j)
    \/ \E p \in Operators :
         \/ _execute_controlled(p)
         \/ RecheckBeforeDispatch(p)
         \/ clone_template(p)
         \/ Acknowledge(p)
         \/ Ambiguous(p)
         \/ ReadProvider(p)
         \/ reconcile_clone(p)
         \/ DeleteClone(p)
         \/ controlled_cleanup(p)
         \/ release_unattempted_lease(p)
         \/ Crash(p)

Spec == Init /\ [][Next]_vars

-----------------------------------------------------------------------------
(* Every variable holds a value of its type. *)
TypeOK ==
    /\ real \in BOOLEAN
    /\ state \in [Jobs -> States]
    /\ target \in [Jobs -> 0 .. MaxVmid]
    /\ lease \in [Vmids -> Leases]
    /\ approval \in [Jobs -> Approvals]
    /\ cleanupApproval \in [Jobs -> BOOLEAN]
    /\ intent \in [Jobs -> Intents]
    /\ control \in [owner : Jobs \cup {None}, kill : BOOLEAN]
    /\ vms \in [Vmids -> Jobs \cup {None}]
    /\ task \in [Jobs -> {None, "accepted", "running", "OK", "failed"}]
    /\ sent \in [Jobs -> Nat]
    /\ proc \in [Operators -> Calls]
    /\ calls \in Nat /\ crashes \in Nat

(* "crash after this point always reconciles; NEVER resends": a job's clone  *)
(* request is sent at most once, whoever calls, dies or retries; and the     *)
(* real transport sends one request in all.                                  *)
OneDispatch ==
    /\ \A j \in Jobs : sent[j] <= 1
    /\ real => Cardinality({j \in Jobs : sent[j] > 0}) <= 1

(* A VM the provider made belongs to the job that holds its VMID: the lease  *)
(* is not given back, and not given away, while the VM exists.               *)
VmIsLeased ==
    \A v \in Vmids : vms[v] # None =>
        lease[v].job = vms[v] /\ lease[v].state \in {"leased", "consumed"}

===============================================================================
