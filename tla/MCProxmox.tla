------------------------------- MODULE MCProxmox -------------------------------
(* Helper Compute on Proxmox, checked side by side: the job queue and its    *)
(* reservations (part "jobs"), the controlled clone (part "clone") and what  *)
(* follows a job parked at the mutation boundary (part "pipeline").  The     *)
(* parts use rows of different jobs, so only one takes steps.                *)
EXTENDS Integers, TLC

CONSTANTS Jobs, Nodes, Workers, Operators, MaxVmid, MaxAttempts, MaxRetries,
          MaxCrashes, Overlap, Overtaken, MaxCalls, MaxDrifts

VARIABLES part,
          job, rsv, reserved, committed, vmid, resource, proc, retries, crashes, gate2,
          real, cState, target, cLease, approval, cleanupApproval, intent, control,
          vms, task, sent, cProc, calls, cCrashes,
          pState, execution, frozen, pLease, readiness, runtime, vm, configured,
          changed, accepts, cmd, clones, starts, pCrashes, drifts

Capacity == [n \in Nodes |-> 1]

Queue    == INSTANCE ProxmoxJobs
Clone    == INSTANCE ProxmoxClone
              WITH state <- cState, lease <- cLease, proc <- cProc, crashes <- cCrashes
Pipeline == INSTANCE ProxmoxPipeline
              WITH state <- pState, lease <- pLease, crashes <- pCrashes

ASSUME ProxmoxBounds == Queue!JobsAssumption /\ Clone!CloneAssumption

jobVars   == <<job, rsv, reserved, committed, vmid, resource, proc, retries, crashes, gate2>>
cloneVars == <<real, cState, target, cLease, approval, cleanupApproval, intent, control,
               vms, task, sent, cProc, calls, cCrashes>>
pipeVars  == <<pState, execution, frozen, pLease, readiness, runtime, vm, configured,
               changed, accepts, cmd, clones, starts, pCrashes, drifts>>

Init ==
    /\ part \in {"jobs", "clone", "pipeline"}
    /\ Queue!Init /\ Clone!Init /\ Pipeline!Init
    /\ part # "jobs" => ~gate2
    /\ part # "clone" => ~real
    /\ part # "pipeline" => ~accepts

Next ==
    \/ part = "jobs" /\ Queue!Next /\ UNCHANGED <<part, cloneVars, pipeVars>>
    \/ part = "clone" /\ Clone!Next /\ UNCHANGED <<part, jobVars, pipeVars>>
    \/ part = "pipeline" /\ Pipeline!Next /\ UNCHANGED <<part, jobVars, cloneVars>>

Spec == Init /\ [][Next]_<<part, jobVars, cloneVars, pipeVars>>

Symmetry == Permutations(Jobs) \cup Permutations(Operators)

(* Two requests do not both get a node's last unit (acquire_reservation). *)
NodesNotOversold == Queue!NodesNotOversold

(* A clone request is sent at most once (_execute_controlled). *)
OneDispatch == Clone!OneDispatch

(* A VM belongs to the job that holds its VMID (release_unattempted_lease,   *)
(* controlled_cleanup).                                                      *)
VmIsLeased == Clone!VmIsLeased

(* Gate 4 makes a job's VM once and HC3.8 starts it once, through crashes. *)
MadeOnce == Pipeline!MadeOnce

===============================================================================
