---------------------------- MODULE ProxmoxProofs -----------------------------
(***************************************************************************)
(* Proofs about the three parts MCProxmox checks side by side, for any     *)
(* number of jobs, nodes, units, VMIDs, workers, operators, retries,       *)
(* crashes and drifts.  Each part has its own inductive invariant: CInv    *)
(* for the controlled clone, JInv for the job queue, PMade for what        *)
(* follows a job parked at the mutation boundary.                          *)
(***************************************************************************)
EXTENDS MCProxmox, FiniteSetTheorems, WellFoundedInduction, TLAPS

(* An intent was committed for the job: from here on a request may have     *)
(* gone out.                                                                *)
Intended(j) == intent[j].phase # "none"

(* A job has a VMID from its staging on, and its lease says so as long as   *)
(* the job may use it.                                                      *)
CStaged ==
    \A j \in Jobs :
        /\ cState[j] = "absent" <=> target[j] = 0
        /\ cState[j] \in {"reserved", "clone_intent"}
               => cLease[target[j]].job = j /\ cLease[target[j]].state = "leased"
        /\ cState[j] = "clone_verified"
               => cLease[target[j]].job = j /\ cLease[target[j]].state = "consumed"

(* What the intent's phase, the job's state, the requests sent and the      *)
(* provider's task say of each other. The lease of a job with an intent     *)
(* stays the job's own.                                                     *)
CIntents ==
    \A j \in Jobs :
        /\ intent[j].upid => Intended(j)
        /\ Intended(j) <=> \/ cState[j] \in {"clone_intent", "clone_verified"}
                           \/ cState[j] = "clone_cancelled" /\ sent[j] > 0
        /\ cState[j] = "clone_verified" => sent[j] = 1
        /\ Intended(j) => cLease[target[j]].job = j
        /\ sent[j] > 0 => Intended(j)
        /\ sent[j] <= 1
        /\ task[j] = "accepted"
               => cState[j] = "clone_intent" /\ sent[j] > 0 /\ vms[target[j]] # j

(* The real provider has taken a request of at most one job.                *)
COne == real => \A i, j \in Jobs : sent[i] > 0 /\ sent[j] > 0 => i = j

(* A VM is at the VMID of the job it was made for, after that job's one     *)
(* request.                                                                 *)
CVms ==
    \A v \in Clone!Vmids : vms[v] # "none" =>
        /\ target[vms[v]] = v
        /\ cState[vms[v]] \in {"clone_intent", "clone_verified"}
        /\ sent[vms[v]] = 1

(* The call has committed an intent and may still send its request.         *)
Sending(p) == cProc[p].pc \in {"recheck", "dispatch"}

(* What a call in progress relies on: a sender finds its request unsent, a  *)
(* deletion is about a clone that was made, and a VM seen by a              *)
(* reconciliation comes from a task that ended.                             *)
CCalls ==
    \A p \in Operators :
        /\ cProc[p].pc # "idle" => cProc[p].j \in Jobs /\ cState[cProc[p].j] # "absent"
        /\ Sending(p) => Intended(cProc[p].j) /\ sent[cProc[p].j] = 0
        /\ cProc[p].pc \in {"ack", "ambiguous", "reconcile", "settle", "delete", "deleted"}
               => Intended(cProc[p].j)
        /\ cProc[p].pc = "settle" /\ cProc[p].vm
               => sent[cProc[p].j] = 1 /\ task[cProc[p].j] # "accepted"
        /\ cProc[p].pc \in {"delete", "deleted"}
               => /\ cState[cProc[p].j] \in {"clone_verified", "clone_cancelled"}
                  /\ sent[cProc[p].j] = 1
        /\ cProc[p].pc = "deleted" => vms[target[cProc[p].j]] # cProc[p].j

(* Two calls never both send for one job.                                   *)
CAlone ==
    \A p, q \in Operators :
        Sending(p) /\ Sending(q) /\ cProc[p].j = cProc[q].j => p = q

(* The inductive invariant of the controlled clone.                         *)
CInv == Clone!TypeOK /\ CStaged /\ CIntents /\ COne /\ CVms /\ CCalls /\ CAlone

(* The lowest of a set of VMIDs is one of them.                             *)
LEMMA LeastVmid ==
    ASSUME NEW S \in SUBSET Clone!Vmids, S # {}
    PROVE  Clone!Lowest(S) \in S
<1>1. S \subseteq Nat
  BY DEF Clone!Vmids
<1>2. PICK x \in S : \A y \in S : ~ (<<y, x>> \in OpToRel(<, Nat))
  BY <1>1, NatLessThanWellFounded, WFMin
<1>3. \A y \in S : x <= y
  <2> TAKE y \in S
  <2>1. x \in Nat /\ y \in Nat /\ ~(y < x)
    BY <1>1, <1>2 DEF OpToRel
  <2> QED  BY <2>1
<1> QED  BY <1>3 DEF Clone!Lowest

(* A call that starts changes its own operator's row only.                  *)
LEMMA CallStarts ==
    ASSUME Clone!TypeOK, NEW p \in Operators, NEW j \in Jobs, NEW pc \in Clone!Pcs,
           Clone!Call(p, pc, j)
    PROVE  /\ cProc[p].pc = "idle" /\ calls' \in Nat
           /\ cProc' \in [Operators -> Clone!Calls]
           /\ cProc'[p].pc = pc /\ cProc'[p].j = j /\ ~cProc'[p].vm
           /\ \A q \in Operators \ {p} : cProc'[q] = cProc[q]
<1>1. [pc |-> pc, j |-> j, phase |-> "none", task |-> "none", vm |-> FALSE] \in Clone!Calls
  BY DEF Clone!Calls, Clone!Phases, Clone!None
<1>2. cProc \in [Operators -> Clone!Calls] /\ calls \in Nat
  BY DEF Clone!TypeOK
<1> QED  BY <1>1, <1>2 DEF Clone!Call, Clone!None

(* A call that ends leaves the other operators' calls alone.                *)
LEMMA CallEnds ==
    ASSUME Clone!TypeOK, NEW p \in Operators, Clone!Done(p)
    PROVE  /\ cProc' \in [Operators -> Clone!Calls]
           /\ cProc'[p].pc = "idle"
           /\ \A q \in Operators \ {p} : cProc'[q] = cProc[q]
BY DEF Clone!TypeOK, Clone!Done, Clone!Calls, Clone!Idle, Clone!Phases, Clone!None, Clone!Pcs

(* A call that goes on keeps its job, and leaves the other calls alone.     *)
LEMMA CallGoes ==
    ASSUME Clone!TypeOK, NEW p \in Operators, NEW pc \in Clone!Pcs, Clone!Goto(p, pc)
    PROVE  /\ cProc' \in [Operators -> Clone!Calls]
           /\ cProc'[p].pc = pc /\ cProc'[p].j = cProc[p].j
           /\ \A q \in Operators \ {p} : cProc'[q] = cProc[q]
BY DEF Clone!TypeOK, Clone!Goto, Clone!Calls

(* Writing an intent's phase keeps its task id and the other jobs' intents. *)
LEMMA PhaseWritten ==
    ASSUME Clone!TypeOK, NEW j \in Jobs, NEW ph \in Clone!Phases,
           intent' = [intent EXCEPT ![j].phase = ph]
    PROVE  /\ intent' \in [Jobs -> Clone!Intents]
           /\ intent'[j].phase = ph /\ (intent'[j].upid <=> intent[j].upid)
           /\ \A i \in Jobs \ {j} : intent'[i] = intent[i]
BY DEF Clone!TypeOK, Clone!Intents

(* A lease that changes state keeps its job, and the other leases are       *)
(* untouched.                                                               *)
LEMMA LeaseMoved ==
    ASSUME Clone!TypeOK, NEW v \in Clone!Vmids, NEW s \in {"consumed", "released"},
           cLease' = [cLease EXCEPT ![v].state = s]
    PROVE  /\ cLease' \in [Clone!Vmids -> Clone!Leases]
           /\ cLease'[v].job = cLease[v].job /\ cLease'[v].state = s
           /\ \A w \in Clone!Vmids \ {v} : cLease'[w] = cLease[w]
BY DEF Clone!TypeOK, Clone!Leases

(* An approval that expires or is consumed is an approval.                  *)
LEMMA ApprovalMarked ==
    ASSUME NEW r \in Clone!Approvals
    PROVE  /\ [r EXCEPT !.live = FALSE] \in Clone!Approvals
           /\ [r EXCEPT !.consumed = TRUE] \in Clone!Approvals
           /\ [[r EXCEPT !.live = FALSE] EXCEPT !.consumed = TRUE] \in Clone!Approvals
BY Zenon DEF Clone!Approvals

(* A job's intent is the empty one just when nothing was intended.          *)
LEMMA NoIntentIsNone ==
    ASSUME Clone!TypeOK, CIntents, NEW j \in Jobs
    PROVE  intent[j] = Clone!NoIntent <=> ~Intended(j)
BY DEF Clone!TypeOK, Clone!Intents, CIntents, Intended, Clone!NoIntent, Clone!None

(* Staging a job (either allocator) takes a VMID no job in progress or      *)
(* intended job has.                                                        *)
LEMMA StageStep ==
    ASSUME CInv, NEW j \in Jobs, Clone!_stage(j) \/ Clone!allocate_vmid(j)
    PROVE  CInv'
<1> USE ProxmoxBounds DEF Clone!CloneAssumption
<1>1. PICK v \in Clone!Vmids :
          /\ Clone!StageJob(j, v) /\ vms[v] = "none" /\ cState[j] = "absent"
          /\ \/ cLease[v] = Clone!NoLease
             \/ /\ cLease[v].state = "released"
                /\ cLease[v].job \in Jobs => ~Intended(cLease[v].job)
  <2>1. CASE Clone!_stage(j)
    <3> DEFINE S == Clone!Vmids \ Clone!_used_vmids
    <3>1. S # {} /\ S \in SUBSET Clone!Vmids
      BY <2>1 DEF Clone!_stage, Clone!_used_vmids
    <3>2. Clone!Lowest(S) \in S
      BY <3>1, LeastVmid
    <3> QED  BY <2>1, <3>2 DEF Clone!_stage, Clone!_used_vmids, Clone!None
  <2>2. CASE Clone!allocate_vmid(j)
    <3> DEFINE S == {v \in Clone!Vmids : Clone!Reusable(v)}
    <3>1. S # {} /\ S \in SUBSET Clone!Vmids
      BY <2>2 DEF Clone!allocate_vmid
    <3>2. Clone!Lowest(S) \in S
      BY <3>1, LeastVmid
    <3>3. Clone!Reusable(Clone!Lowest(S)) /\ Clone!Lowest(S) \in Clone!Vmids
      BY <3>2
    <3> QED  BY <2>2, <3>3, NoIntentIsNone DEF Clone!allocate_vmid, Clone!Reusable, Clone!None, CInv
  <2> QED  BY <2>1, <2>2
<1>2. /\ cState' = [cState EXCEPT ![j] = "reserved"]
      /\ target' = [target EXCEPT ![j] = v]
      /\ cLease' = [cLease EXCEPT ![v] = [job |-> j, state |-> "leased"]]
      /\ approval' = [approval EXCEPT ![j] = [issued |-> TRUE, live |-> TRUE, consumed |-> FALSE]]
      /\ UNCHANGED <<cleanupApproval, intent, control, real, vms, task, sent, cProc, calls, cCrashes>>
  BY <1>1 DEF Clone!StageJob, Clone!provider
<1>3. /\ v # 0 /\ v \in 0 .. MaxVmid
      /\ target \in [Jobs -> 0 .. MaxVmid] /\ cState \in [Jobs -> Clone!States]
      /\ cLease \in [Clone!Vmids -> Clone!Leases]
      /\ vms \in [Clone!Vmids -> Jobs \cup {"none"}]
      /\ cLease' \in [Clone!Vmids -> Clone!Leases]
      /\ cLease'[v].job = j /\ cLease'[v].state = "leased"
      /\ \A w \in Clone!Vmids \ {v} : cLease'[w] = cLease[w]
  BY <1>2 DEF CInv, Clone!TypeOK, Clone!Vmids, Clone!None, Clone!Leases
<1>4. Clone!TypeOK'
  <2>1. approval' \in [Jobs -> Clone!Approvals]
    BY <1>2, Zenon DEF CInv, Clone!TypeOK, Clone!Approvals
  <2> QED  BY <1>2, <1>3, <2>1 DEF CInv, Clone!TypeOK, Clone!States
<1>5. \A i \in Jobs : target[i] = v => cState[i] \notin {"reserved", "clone_intent", "clone_verified"}
  BY <1>1, <1>3 DEF CInv, CStaged, CIntents, Clone!NoLease, Clone!None
<1>6. \A i \in Jobs : Intended(i) => target[i] # v
  BY <1>1, <1>3 DEF CInv, CStaged, CIntents, Clone!NoLease, Clone!None
<1>7. ~Intended(j) /\ \A w \in Clone!Vmids : vms[w] # j
  BY <1>1, <1>3 DEF CInv, CIntents, CVms, Clone!None
<1>8. CStaged'
  BY <1>1, <1>2, <1>3, <1>5 DEF CInv, CStaged, Clone!Vmids
<1>9. CIntents'
  BY <1>1, <1>2, <1>3, <1>6, <1>7 DEF CInv, CIntents, Intended, Clone!Vmids, CStaged
<1>10. COne'
  BY <1>2 DEF CInv, COne
<1>11. CVms'
  BY <1>1, <1>2, <1>3, <1>7 DEF CInv, CVms
<1>12. CCalls'
  BY <1>1, <1>2, <1>3, <1>7 DEF CInv, CCalls, Intended, Sending
<1>13. CAlone'
  BY <1>2 DEF CInv, CAlone, Sending
<1> QED  BY <1>4, <1>8, <1>9, <1>10, <1>11, <1>12, <1>13 DEF CInv

(* Cancelling a staged job: it has no intent, so the VMID it releases holds *)
(* no VM.                                                                   *)
LEMMA CancelStep ==
    ASSUME CInv, NEW j \in Jobs, Clone!_cancel(j)
    PROVE  CInv'
<1> USE ProxmoxBounds DEF Clone!CloneAssumption
<1>1. /\ cState[j] = "reserved"
      /\ cState' = [cState EXCEPT ![j] = "clone_cancelled"]
      /\ approval' = [approval EXCEPT ![j].live = FALSE, ![j].consumed = TRUE]
      /\ cLease' = [cLease EXCEPT ![target[j]].state = "released"]
      /\ control' = [control EXCEPT !.kill = TRUE]
      /\ UNCHANGED <<real, target, cleanupApproval, intent, vms, task, sent, cProc, calls, cCrashes>>
  BY DEF Clone!_cancel, Clone!provider
<1>2. /\ target[j] \in Clone!Vmids
      /\ target \in [Jobs -> 0 .. MaxVmid] /\ cState \in [Jobs -> Clone!States]
      /\ vms \in [Clone!Vmids -> Jobs \cup {"none"}]
      /\ cLease[target[j]].job = j
      /\ ~Intended(j)
  BY <1>1 DEF CInv, Clone!TypeOK, CStaged, CIntents, Clone!Vmids, Clone!None
<1>3. /\ cLease' \in [Clone!Vmids -> Clone!Leases]
      /\ cLease'[target[j]].job = cLease[target[j]].job
      /\ \A w \in Clone!Vmids \ {target[j]} : cLease'[w] = cLease[w]
  BY <1>1, <1>2, LeaseMoved DEF CInv
<1>4. Clone!TypeOK'
  <2>1. approval' \in [Jobs -> Clone!Approvals]
    BY <1>1, ZenonT(60) DEF CInv, Clone!TypeOK, Clone!Approvals
  <2>2. control' \in [owner : Jobs \cup {Clone!None}, kill : BOOLEAN]
    BY <1>1 DEF CInv, Clone!TypeOK
  <2> QED  BY <1>1, <1>2, <1>3, <2>1, <2>2 DEF CInv, Clone!TypeOK, Clone!States
<1>5. CStaged'
  BY <1>1, <1>2, <1>3 DEF CInv, CStaged, Clone!Vmids
<1>6. CIntents'
  BY <1>1, <1>2, <1>3 DEF CInv, CIntents, Intended, Clone!Vmids, CStaged
<1>7. COne'
  BY <1>1 DEF CInv, COne
<1>8. CVms'
  BY <1>1, <1>2, <1>3 DEF CInv, CVms
<1>9. CCalls'
  BY <1>1, <1>2 DEF CInv, CCalls, Intended, Sending
<1>10. CAlone'
  BY <1>1 DEF CInv, CAlone, Sending
<1> QED  BY <1>4, <1>5, <1>6, <1>7, <1>8, <1>9, <1>10 DEF CInv

(* Approvals and the emergency stop do not disturb the invariant.           *)
LEMMA FlagStep ==
    ASSUME CInv,
           \/ \E j \in Jobs : Clone!ApprovalExpires(j) \/ Clone!issue_approval(j)
           \/ Clone!ClearStop
           \/ Clone!set_emergency_stop
    PROVE  CInv'
<1>1. UNCHANGED <<real, cState, target, cLease, intent, vms, task, sent, cProc, cCrashes>>
  BY DEF Clone!ApprovalExpires, Clone!issue_approval, Clone!ClearStop, Clone!set_emergency_stop,
         Clone!provider
<1>2. Clone!TypeOK
  BY DEF CInv
<1>3. approval' \in [Jobs -> Clone!Approvals] /\ cleanupApproval' \in [Jobs -> BOOLEAN]
      /\ control' \in [owner : Jobs \cup {Clone!None}, kill : BOOLEAN] /\ calls' \in Nat
  <2>1. ASSUME NEW j \in Jobs, Clone!ApprovalExpires(j)
        PROVE  approval' \in [Jobs -> Clone!Approvals]
    BY <1>2, <2>1, Zenon DEF Clone!TypeOK, Clone!Approvals, Clone!ApprovalExpires
  <2>2. ASSUME NEW j \in Jobs, Clone!issue_approval(j)
        PROVE  cleanupApproval' \in [Jobs -> BOOLEAN]
    BY <1>2, <2>2, Zenon DEF Clone!TypeOK, Clone!issue_approval
  <2>3. CASE Clone!ClearStop
    BY <1>2, <2>3 DEF Clone!TypeOK, Clone!ClearStop
  <2>4. CASE Clone!set_emergency_stop
    <3>1. control' \in [owner : Jobs \cup {Clone!None}, kill : BOOLEAN]
      BY <1>2, <2>4 DEF Clone!TypeOK, Clone!set_emergency_stop
    <3>2. calls' \in Nat
      BY <1>2, <2>4 DEF Clone!TypeOK, Clone!set_emergency_stop
    <3> QED  BY <1>2, <2>4, <3>1, <3>2 DEF Clone!TypeOK, Clone!set_emergency_stop
  <2> QED
    BY <1>2, <2>1, <2>2, <2>3, <2>4 DEF Clone!TypeOK, Clone!ApprovalExpires, Clone!issue_approval
<1>5. Clone!TypeOK'
  BY <1>1, <1>2, <1>3 DEF Clone!TypeOK
<1>6. CStaged' /\ CIntents' /\ COne' /\ CVms'
  BY <1>1 DEF CInv, CStaged, CIntents, COne, CVms, Intended
<1>7. CCalls' /\ CAlone'
  BY <1>1 DEF CInv, CCalls, CAlone, Intended, Sending
<1> QED  BY <1>5, <1>6, <1>7 DEF CInv

(* A call that starts reads the row it was admitted for.                    *)
LEMMA StartStep ==
    ASSUME CInv, NEW p \in Operators, NEW j \in Jobs,
           Clone!_run(p, j) \/ Clone!cleanup_eligible(p, j) \/ Clone!ReadUnattempted(p, j)
    PROVE  CInv'
<1>1. UNCHANGED <<real, cState, target, cLease, approval, cleanupApproval, intent, control,
                  vms, task, sent, cCrashes>>
  BY DEF Clone!_run, Clone!cleanup_eligible, Clone!ReadUnattempted, Clone!rows, Clone!provider
<1>2. PICK pc \in {"reconcile", "claim", "delete", "release"} :
          /\ Clone!Call(p, pc, j)
          /\ cState[j] # "absent"
          /\ pc = "reconcile" => Intended(j)
          /\ pc = "delete" => /\ Intended(j) /\ sent[j] = 1
                              /\ cState[j] = "clone_verified"
  <2>1. CASE Clone!_run(p, j)
    BY <2>1, NoIntentIsNone DEF Clone!_run, CInv
  <2>2. CASE Clone!cleanup_eligible(p, j)
    <3>1. target[j] \in Clone!Vmids /\ vms[target[j]] = j /\ cState[j] = "clone_verified"
      BY <2>2 DEF Clone!cleanup_eligible, Clone!lease_valid, CInv, Clone!TypeOK, Clone!Vmids
    <3>2. Intended(j) /\ sent[j] = 1
      BY <3>1, ProxmoxBounds DEF CInv, CVms, CIntents, Clone!CloneAssumption, Clone!None
    <3> QED  BY <2>2, <3>1, <3>2 DEF Clone!cleanup_eligible
  <2>3. CASE Clone!ReadUnattempted(p, j)
    BY <2>3 DEF Clone!ReadUnattempted, Clone!lease_valid, CInv, CStaged
  <2> QED  BY <2>1, <2>2, <2>3
<1>3. /\ cProc[p].pc = "idle" /\ calls' \in Nat
      /\ cProc' \in [Operators -> Clone!Calls]
      /\ cProc'[p].pc = pc /\ cProc'[p].j = j /\ ~cProc'[p].vm
      /\ \A q \in Operators \ {p} : cProc'[q] = cProc[q]
  BY <1>2, CallStarts DEF CInv, Clone!Pcs
<1>4. Clone!TypeOK'
  BY <1>1, <1>3 DEF CInv, Clone!TypeOK
<1>5. CStaged' /\ CIntents' /\ COne' /\ CVms'
  BY <1>1 DEF CInv, CStaged, CIntents, COne, CVms, Intended
<1>6. CCalls'
  BY <1>1, <1>2, <1>3 DEF CInv, CCalls, Intended, Sending
<1>7. CAlone'
  BY <1>1, <1>2, <1>3 DEF CInv, CAlone, Sending
<1> QED  BY <1>4, <1>5, <1>6, <1>7 DEF CInv

(* A call that ends without a write.                                        *)
LEMMA QuietEnd ==
    ASSUME CInv, NEW p \in Operators, Clone!Done(p),
           UNCHANGED <<real, cState, target, cLease, approval, cleanupApproval, intent, control,
                       vms, task, sent, calls>>,
           cCrashes' \in Nat
    PROVE  CInv'
<1>1. /\ cProc' \in [Operators -> Clone!Calls] /\ cProc'[p].pc = "idle"
      /\ \A q \in Operators \ {p} : cProc'[q] = cProc[q]
  BY CallEnds DEF CInv
<1>2. Clone!TypeOK'
  BY <1>1 DEF CInv, Clone!TypeOK
<1>3. CStaged' /\ CIntents' /\ COne' /\ CVms'
  BY DEF CInv, CStaged, CIntents, COne, CVms, Intended
<1>4. CCalls' /\ CAlone'
  BY <1>1 DEF CInv, CCalls, CAlone, Intended, Sending
<1> QED  BY <1>2, <1>3, <1>4 DEF CInv

(* A call that ends with a phase written for a job that has an intent.      *)
LEMMA PhaseEnd ==
    ASSUME CInv, NEW p \in Operators, Clone!Done(p), cProc[p].j \in Jobs, Intended(cProc[p].j),
           NEW ph \in Clone!Phases, ph # "none",
           intent' = [intent EXCEPT ![cProc[p].j].phase = ph],
           UNCHANGED <<real, cState, target, cLease, approval, cleanupApproval, control,
                       vms, task, sent, calls, cCrashes>>
    PROVE  CInv'
<1>1. /\ cProc' \in [Operators -> Clone!Calls] /\ cProc'[p].pc = "idle"
      /\ \A q \in Operators \ {p} : cProc'[q] = cProc[q]
  BY CallEnds DEF CInv
<1>2. /\ intent' \in [Jobs -> Clone!Intents]
      /\ \A i \in Jobs : Intended(i)' <=> Intended(i)
      /\ \A i \in Jobs : intent'[i].upid <=> intent[i].upid
  BY PhaseWritten DEF CInv, Intended
<1>3. Clone!TypeOK'
  BY <1>1, <1>2 DEF CInv, Clone!TypeOK
<1>4. CStaged' /\ CIntents' /\ COne' /\ CVms'
  BY <1>2 DEF CInv, CStaged, CIntents, COne, CVms
<1>5. CCalls' /\ CAlone'
  BY <1>1, <1>2 DEF CInv, CCalls, CAlone, Sending
<1> QED  BY <1>3, <1>4, <1>5 DEF CInv

(* Committing the intent: the job had none, so this call is its only        *)
(* sender.                                                                  *)
LEMMA IntendStep ==
    ASSUME CInv, NEW p \in Operators, Clone!_execute_controlled(p)
    PROVE  CInv'
<1> USE ProxmoxBounds DEF Clone!CloneAssumption
<1> DEFINE j == cProc[p].j
<1>1. /\ cProc[p].pc = "claim" /\ j \in Jobs
      /\ UNCHANGED <<real, target, cLease, cleanupApproval, vms, task, sent, calls, cCrashes>>
  BY DEF Clone!_execute_controlled, Clone!provider, CInv, CCalls
<1>2. CASE Clone!MayIntend(j)
  <2>1. /\ ~Intended(j) /\ cState[j] = "reserved" /\ sent[j] = 0 /\ cLease[target[j]].job = j
        /\ cState \in [Jobs -> Clone!States] /\ task[j] # "accepted"
        /\ \A q \in Operators : cProc[q].pc \notin {"idle", "claim", "release"} => cProc[q].j # j
        /\ \A v \in Clone!Vmids : vms[v] # j
    BY <1>1, <1>2, NoIntentIsNone
       DEF Clone!MayIntend, CInv, CStaged, CIntents, CVms, CCalls, Clone!TypeOK, Sending, Clone!Calls, Clone!Pcs, Clone!None
  <2>2. /\ cState' = [cState EXCEPT ![j] = "clone_intent"]
        /\ intent' = [intent EXCEPT ![j] = [phase |-> "mutation_requested", upid |-> FALSE]]
        /\ approval' = [approval EXCEPT ![j].consumed = TRUE]
        /\ control' = [control EXCEPT !.owner = j]
        /\ Clone!Goto(p, "recheck")
    BY <1>2 DEF Clone!_execute_controlled
  <2>3. /\ intent' \in [Jobs -> Clone!Intents]
        /\ intent'[j].phase = "mutation_requested" /\ ~intent'[j].upid
        /\ \A i \in Jobs \ {j} : intent'[i] = intent[i]
    BY <1>1, <2>2 DEF CInv, Clone!TypeOK, Clone!Intents, Clone!Phases
  <2>4. /\ cProc' \in [Operators -> Clone!Calls]
        /\ cProc'[p].pc = "recheck" /\ cProc'[p].j = j
        /\ \A q \in Operators \ {p} : cProc'[q] = cProc[q]
    BY <2>2, CallGoes DEF CInv, Clone!Pcs
  <2>5. Clone!TypeOK'
    <3>1. approval' \in [Jobs -> Clone!Approvals]
      BY <1>1, <2>2, Zenon DEF CInv, Clone!TypeOK, Clone!Approvals
    <3>2. control' \in [owner : Jobs \cup {Clone!None}, kill : BOOLEAN]
      BY <1>1, <2>2 DEF CInv, Clone!TypeOK
    <3> QED  BY <1>1, <2>2, <2>3, <2>4, <3>1, <3>2 DEF CInv, Clone!TypeOK, Clone!States
  <2>6. CStaged'
    BY <1>1, <2>1, <2>2 DEF CInv, CStaged
  <2>7. CIntents'
    BY <1>1, <2>1, <2>2, <2>3 DEF CInv, CIntents, Intended
  <2>8. COne'
    BY <1>1 DEF CInv, COne
  <2>9. CVms'
    BY <1>1, <2>1, <2>2 DEF CInv, CVms
  <2>10. CCalls'
    <3>1. \A q \in Operators \ {p} : cProc[q].pc # "idle" /\ cProc[q].j = j => cProc[q].pc \in {"claim", "release"}
      BY <2>1
    <3> QED  BY <1>1, <2>1, <2>2, <2>3, <2>4, <3>1 DEF CInv, CCalls, Intended, Sending
  <2>11. CAlone'
    BY <1>1, <2>1, <2>4 DEF CInv, CAlone, Sending
  <2> QED  BY <2>5, <2>6, <2>7, <2>8, <2>9, <2>10, <2>11 DEF CInv
<1>3. CASE ~Clone!MayIntend(j)
  <2>1. Clone!Done(p) /\ UNCHANGED <<control, approval, cState, intent>>
    BY <1>3 DEF Clone!_execute_controlled
  <2> QED  BY <1>1, <2>1, QuietEnd DEF CInv, Clone!TypeOK
<1> QED  BY <1>2, <1>3

(* The last look at the provider before the request.                        *)
LEMMA RecheckStep ==
    ASSUME CInv, NEW p \in Operators, Clone!RecheckBeforeDispatch(p)
    PROVE  CInv'
<1> DEFINE j == cProc[p].j
<1>1. /\ cProc[p].pc = "recheck" /\ j \in Jobs /\ Intended(j)
      /\ UNCHANGED <<real, cState, target, cLease, approval, cleanupApproval, control, vms, task, sent, calls, cCrashes>>
  BY DEF Clone!RecheckBeforeDispatch, Clone!provider, CInv, CCalls, Sending
<1>2. CASE intent' = [intent EXCEPT ![j].phase = "mutation_not_attempted"] /\ Clone!Done(p)
  BY <1>1, <1>2, PhaseEnd DEF Clone!Phases
<1>3. CASE Clone!Goto(p, "dispatch") /\ UNCHANGED intent
  <2>1. /\ cProc' \in [Operators -> Clone!Calls]
        /\ cProc'[p].pc = "dispatch" /\ cProc'[p].j = j
        /\ \A q \in Operators \ {p} : cProc'[q] = cProc[q]
    BY <1>3, CallGoes DEF CInv, Clone!Pcs
  <2>2. Clone!TypeOK'
    BY <1>1, <1>3, <2>1 DEF CInv, Clone!TypeOK
  <2>3. CStaged' /\ CIntents' /\ COne' /\ CVms'
    BY <1>1, <1>3 DEF CInv, CStaged, CIntents, COne, CVms, Intended
  <2>4. CCalls' /\ CAlone'
    BY <1>1, <1>3, <2>1 DEF CInv, CCalls, CAlone, Intended, Sending
  <2> QED  BY <2>2, <2>3, <2>4 DEF CInv
<1> QED  BY <1>2, <1>3 DEF Clone!RecheckBeforeDispatch

(* The one request goes out: no other call sends for the job, and a real    *)
(* provider has taken no other job's.                                       *)
LEMMA DispatchStep ==
    ASSUME CInv, NEW p \in Operators, Clone!clone_template(p)
    PROVE  CInv'
<1> USE ProxmoxBounds DEF Clone!CloneAssumption
<1> DEFINE j == cProc[p].j
<1>1. /\ cProc[p].pc = "dispatch" /\ j \in Jobs /\ Intended(j) /\ sent[j] = 0
      /\ UNCHANGED <<real, cState, target, cLease, approval, cleanupApproval, intent, control, calls, cCrashes>>
  BY DEF Clone!clone_template, Clone!rows, CInv, CCalls, Sending
<1>2. /\ cState[j] = "clone_intent" /\ target[j] \in Clone!Vmids /\ cLease[target[j]].job = j
      /\ sent \in [Jobs -> Nat] /\ vms \in [Clone!Vmids -> Jobs \cup {"none"}]
      /\ task \in [Jobs -> {"none", "accepted", "running", "OK", "failed"}]
      /\ \A v \in Clone!Vmids : vms[v] # j
      /\ task[j] # "accepted"
  <2>1. cState[j] = "clone_intent" /\ task[j] # "accepted" /\ cLease[target[j]].job = j
    BY <1>1 DEF CInv, CIntents
  <2>2. /\ sent \in [Jobs -> Nat] /\ vms \in [Clone!Vmids -> Jobs \cup {"none"}]
        /\ task \in [Jobs -> {"none", "accepted", "running", "OK", "failed"}]
    BY DEF CInv, Clone!TypeOK, Clone!None
  <2>3. target[j] \in Clone!Vmids
    BY <1>1, <2>1 DEF CInv, CStaged, Clone!TypeOK, Clone!Vmids
  <2>4. \A v \in Clone!Vmids : vms[v] # j
    BY <1>1 DEF CInv, CVms, Clone!None
  <2> QED  BY <2>1, <2>2, <2>3, <2>4
<1>3. PICK pc \in {"ack", "ambiguous"} : Clone!Goto(p, pc)
  BY DEF Clone!clone_template
<1>4. /\ cProc' \in [Operators -> Clone!Calls]
      /\ cProc'[p].pc = pc /\ cProc'[p].j = j
      /\ \A q \in Operators \ {p} : cProc'[q] = cProc[q]
  BY <1>3, CallGoes DEF CInv, Clone!Pcs
<1>5. \A q \in Operators \ {p} : Sending(q) => cProc[q].j # j
  BY <1>1 DEF CInv, CAlone, Sending
<1>6. CASE UNCHANGED <<vms, task, sent>>
  <2>1. Clone!TypeOK'
    BY <1>1, <1>4, <1>6 DEF CInv, Clone!TypeOK
  <2>2. CStaged' /\ CIntents' /\ COne' /\ CVms'
    BY <1>1, <1>6 DEF CInv, CStaged, CIntents, COne, CVms, Intended
  <2>3. CCalls' /\ CAlone'
    BY <1>1, <1>4, <1>6 DEF CInv, CCalls, CAlone, Intended, Sending
  <2> QED  BY <2>1, <2>2, <2>3 DEF CInv
<1>7. ASSUME NEW t \in {"none", "accepted", "running", "OK", "failed"}, NEW mk \in BOOLEAN,
             sent' = [sent EXCEPT ![j] = @ + 1], task' = [task EXCEPT ![j] = t],
             vms' = IF mk THEN [vms EXCEPT ![target[j]] = j] ELSE vms,
             mk => vms[target[j]] = "none" /\ t # "accepted",
             real => \A i \in Jobs \ {j} : ~Intended(i)
      PROVE  CInv'
  <2>1. /\ sent' \in [Jobs -> Nat] /\ sent'[j] = 1
        /\ \A i \in Jobs \ {j} : sent'[i] = sent[i] /\ task'[i] = task[i]
        /\ task' \in [Jobs -> {"none", "accepted", "running", "OK", "failed"}] /\ task'[j] = t
        /\ vms' \in [Clone!Vmids -> Jobs \cup {"none"}]
        /\ \A v \in Clone!Vmids : vms'[v] = vms[v] \/ (mk /\ v = target[j] /\ vms'[v] = j)
    BY <1>1, <1>2, <1>7
  <2>2. Clone!TypeOK'
    BY <1>1, <1>4, <2>1 DEF CInv, Clone!TypeOK, Clone!None
  <2>3. CStaged'
    BY <1>1 DEF CInv, CStaged
  <2>4. CIntents'
    <3>1. \A i \in Jobs : target[i] \in 0 .. MaxVmid
      BY DEF CInv, Clone!TypeOK
    <3>2. \A i \in Jobs \ {j} : task[i] = "accepted" => target[i] # target[j]
      BY <1>2, <3>1 DEF CInv, CIntents, CStaged
    <3> QED  BY <1>1, <1>2, <1>7, <2>1, <3>1, <3>2 DEF CInv, CIntents, CStaged, Intended, Clone!Vmids
  <2>5. COne'
    BY <1>1, <1>2, <1>7, <2>1 DEF CInv, COne, CIntents
  <2>6. CVms'
    BY <1>1, <1>2, <1>7, <2>1 DEF CInv, CVms
  <2>7. CCalls'
    <3>1. \A q \in Operators \ {p} : cProc[q].pc = "deleted" => cProc[q].j # j
      BY <1>1 DEF CInv, CCalls
    <3>2. \A q \in Operators \ {p} : cProc[q].pc = "settle" /\ cProc[q].vm => cProc[q].j # j
      BY <1>1 DEF CInv, CCalls
    <3>3. \A q \in Operators \ {p} : cProc[q].pc \in {"delete", "deleted"} => cProc[q].j # j
      BY <1>1 DEF CInv, CCalls
    <3>4. \A i \in Jobs : cState[i] # "absent" => target[i] \in Clone!Vmids
      BY DEF CInv, CStaged, Clone!TypeOK, Clone!Vmids
    <3> QED  BY <1>1, <1>2, <1>4, <1>5, <2>1, <3>1, <3>2, <3>3, <3>4 DEF CInv, CCalls, Intended, Sending
  <2>8. CAlone'
    BY <1>4 DEF CInv, CAlone, Sending
  <2> QED  BY <2>2, <2>3, <2>4, <2>5, <2>6, <2>7, <2>8 DEF CInv
<1>8. CASE ~UNCHANGED <<vms, task, sent>>
  <2>1. Clone!_durable(j) => \A i \in Jobs \ {j} : ~Intended(i)
    BY NoIntentIsNone DEF Clone!_durable, CInv
  <2>2. \E t \in {"none", "accepted", "running", "OK", "failed"}, mk \in BOOLEAN :
             /\ sent' = [sent EXCEPT ![j] = @ + 1] /\ task' = [task EXCEPT ![j] = t]
             /\ vms' = IF mk THEN [vms EXCEPT ![target[j]] = j] ELSE vms
             /\ mk => vms[target[j]] = "none" /\ t # "accepted"
             /\ real => \A i \in Jobs \ {j} : ~Intended(i)
    BY <1>1, <1>2, <1>8, <2>1 DEF Clone!clone_template, Clone!provider, Clone!None
  <2> QED  BY <2>2, <1>7
<1> QED  BY <1>6, <1>8

(* The answer to the request is recorded.                                   *)
LEMMA AckStep ==
    ASSUME CInv, NEW p \in Operators, Clone!Acknowledge(p)
    PROVE  CInv'
<1> DEFINE j == cProc[p].j
<1>1. /\ cProc[p].pc = "ack" /\ j \in Jobs /\ Intended(j)
      /\ UNCHANGED <<real, cState, target, cLease, approval, cleanupApproval, control, vms, task, sent, calls, cCrashes>>
  BY DEF Clone!Acknowledge, Clone!provider, CInv, CCalls, Sending
<1>2. /\ cProc' \in [Operators -> Clone!Calls]
      /\ cProc'[p].pc = "reconcile" /\ cProc'[p].j = j
      /\ \A q \in Operators \ {p} : cProc'[q] = cProc[q]
  BY CallGoes DEF CInv, Clone!Pcs, Clone!Acknowledge
<1>3. /\ intent' \in [Jobs -> Clone!Intents]
      /\ intent'[j].phase = "provider_acknowledged"
      /\ \A i \in Jobs \ {j} : intent'[i] = intent[i]
  BY <1>1 DEF Clone!Acknowledge, CInv, Clone!TypeOK, Clone!Intents, Clone!Phases
<1>4. Clone!TypeOK'
  BY <1>1, <1>2, <1>3 DEF CInv, Clone!TypeOK
<1>5. CStaged' /\ COne' /\ CVms'
  BY <1>1 DEF CInv, CStaged, COne, CVms
<1>6. CIntents'
  BY <1>1, <1>3 DEF CInv, CIntents, Intended
<1>7. CCalls'
  BY <1>1, <1>2, <1>3 DEF CInv, CCalls, Intended, Sending
<1>8. CAlone'
  BY <1>1, <1>2 DEF CInv, CAlone, Sending
<1> QED  BY <1>4, <1>5, <1>6, <1>7, <1>8 DEF CInv

(* A lost answer is recorded as ambiguous: no second request.               *)
LEMMA AmbiguousStep ==
    ASSUME CInv, NEW p \in Operators, Clone!Ambiguous(p)
    PROVE  CInv'
<1>1. /\ cProc[p].j \in Jobs /\ Intended(cProc[p].j)
      /\ UNCHANGED <<real, cState, target, cLease, approval, cleanupApproval, control, vms, task, sent, calls, cCrashes>>
  BY DEF Clone!Ambiguous, Clone!provider, CInv, CCalls
<1> QED  BY <1>1, PhaseEnd DEF Clone!Ambiguous, Clone!Phases

(* The provider ends a task it accepted: the VM appears at the job's leased *)
(* VMID.                                                                    *)
LEMMA ProviderStep ==
    ASSUME CInv, NEW j \in Jobs, Clone!ProviderClones(j)
    PROVE  CInv'
<1> USE ProxmoxBounds DEF Clone!CloneAssumption
<1>1. /\ task[j] \in {"accepted", "running"}
      /\ UNCHANGED <<real, cState, target, cLease, approval, cleanupApproval, intent, control, sent, cProc, calls, cCrashes>>
  BY DEF Clone!ProviderClones, Clone!rows
<1>2. /\ vms \in [Clone!Vmids -> Jobs \cup {"none"}]
      /\ task \in [Jobs -> {"none", "accepted", "running", "OK", "failed"}]
      /\ \A i \in Jobs : cState[i] # "absent" => target[i] \in Clone!Vmids
  BY DEF CInv, Clone!TypeOK, Clone!None, CStaged, Clone!Vmids
<1>3. /\ task' \in [Jobs -> {"none", "accepted", "running", "OK", "failed"}]
      /\ task'[j] # "accepted" /\ \A i \in Jobs \ {j} : task'[i] = task[i]
      /\ \/ vms' = vms
         \/ /\ task[j] = "accepted" /\ vms[target[j]] = "none"
            /\ vms' = [vms EXCEPT ![target[j]] = j]
  BY <1>1, <1>2 DEF Clone!ProviderClones, Clone!None
<1>4. /\ vms' \in [Clone!Vmids -> Jobs \cup {"none"}]
      /\ \A v \in Clone!Vmids : \/ vms'[v] = vms[v]
                                \/ /\ v = target[j] /\ vms'[v] = j
                                   /\ cState[j] = "clone_intent" /\ sent[j] = 1
  BY <1>2, <1>3 DEF CInv, CIntents, CStaged, Clone!TypeOK
<1>5. Clone!TypeOK'
  BY <1>1, <1>3, <1>4 DEF CInv, Clone!TypeOK, Clone!None
<1>6. CStaged' /\ COne' /\ CAlone'
  BY <1>1 DEF CInv, CStaged, COne, CAlone, Sending
<1>7. CIntents'
  <2>1. \A i \in Jobs \ {j} : task[i] = "accepted" => vms'[target[i]] # i
    BY <1>2, <1>4 DEF CInv, CIntents, CStaged
  <2> QED  BY <1>1, <1>3, <2>1 DEF CInv, CIntents, Intended
<1>8. CVms'
  BY <1>1, <1>2, <1>4 DEF CInv, CVms
<1>9. CCalls'
  <2>1. \A q \in Operators : cProc[q].pc = "deleted" => vms'[target[cProc[q].j]] # cProc[q].j
    BY <1>2, <1>4 DEF CInv, CCalls
  <2> QED  BY <1>1, <1>3, <2>1 DEF CInv, CCalls, Intended, Sending
<1> QED  BY <1>5, <1>6, <1>7, <1>8, <1>9 DEF CInv

(* Reconciliation reads the provider.                                       *)
LEMMA ReadStep ==
    ASSUME CInv, NEW p \in Operators, Clone!ReadProvider(p)
    PROVE  CInv'
<1> USE ProxmoxBounds DEF Clone!CloneAssumption
<1> DEFINE j == cProc[p].j
<1>1. /\ cProc[p].pc = "reconcile" /\ j \in Jobs /\ Intended(j) /\ cState[j] # "absent"
      /\ UNCHANGED <<real, cState, target, cLease, approval, cleanupApproval, intent, control, vms, task, sent, calls, cCrashes>>
  BY DEF Clone!ReadProvider, Clone!rows, Clone!provider, CInv, CCalls
<1>2. CASE Clone!Done(p)
  BY <1>1, <1>2, QuietEnd DEF CInv, Clone!TypeOK
<1>3. ASSUME NEW t \in {"none", "running", "OK", "failed", "unknown"}, NEW mk \in BOOLEAN,
             cProc' = [cProc EXCEPT ![p] = [pc |-> "settle", j |-> j, phase |-> intent[j].phase,
                                            task |-> t, vm |-> mk]],
             mk => vms[target[j]] = j
      PROVE  CInv'
  <2>1. [pc |-> "settle", j |-> j, phase |-> intent[j].phase, task |-> t, vm |-> mk] \in Clone!Calls
    BY <1>1 DEF CInv, Clone!TypeOK, Clone!Intents, Clone!Calls, Clone!Pcs, Clone!None
  <2>2. cProc \in [Operators -> Clone!Calls]
    BY DEF CInv, Clone!TypeOK
  <2>3. /\ cProc' \in [Operators -> Clone!Calls]
        /\ cProc'[p].pc = "settle" /\ cProc'[p].j = j /\ (cProc'[p].vm => vms[target[j]] = j)
        /\ \A q \in Operators \ {p} : cProc'[q] = cProc[q]
    BY <1>3, <2>1, <2>2
  <2>4. vms[target[j]] = j => sent[j] = 1 /\ task[j] # "accepted"
    BY <1>1 DEF CInv, CVms, CIntents, CStaged, Clone!TypeOK, Clone!Vmids, Clone!None
  <2>5. Clone!TypeOK'
    BY <1>1, <2>3 DEF CInv, Clone!TypeOK
  <2>6. CStaged' /\ CIntents' /\ COne' /\ CVms'
    BY <1>1 DEF CInv, CStaged, CIntents, COne, CVms, Intended
  <2>7. CCalls'
    BY <1>1, <2>3, <2>4 DEF CInv, CCalls, Intended, Sending
  <2>8. CAlone'
    BY <1>1, <2>3 DEF CInv, CAlone, Sending
  <2> QED  BY <2>5, <2>6, <2>7, <2>8 DEF CInv
<1>4. Clone!task_status(j) \in {"none", "running", "OK", "failed", "unknown"}
  BY <1>1 DEF CInv, Clone!TypeOK, Clone!task_status, Clone!None
<1> QED
  BY <1>1, <1>2, <1>3, <1>4 DEF Clone!ReadProvider

(* Reconciliation settles the phase, and verifies a clone it saw under a    *)
(* lease that still is the job's.                                           *)
LEMMA SettleStep ==
    ASSUME CInv, NEW p \in Operators, Clone!reconcile_clone(p)
    PROVE  CInv'
<1> USE ProxmoxBounds DEF Clone!CloneAssumption
<1> DEFINE j == cProc[p].j
<1>1. /\ cProc[p].pc = "settle" /\ j \in Jobs /\ Intended(j) /\ cState[j] # "absent"
      /\ UNCHANGED <<real, target, approval, cleanupApproval, vms, task, sent, calls, cCrashes>>
      /\ Clone!Done(p)
  BY DEF Clone!reconcile_clone, Clone!provider, CInv, CCalls
<1>2. Clone!Outcome(p) \in Clone!Phases \ {"none"}
  BY DEF Clone!Outcome, Clone!Phases, Clone!None
<1>3. /\ cProc' \in [Operators -> Clone!Calls] /\ cProc'[p].pc = "idle"
      /\ \A q \in Operators \ {p} : cProc'[q] = cProc[q]
  BY <1>1, CallEnds DEF CInv
<1>4. /\ intent' \in [Jobs -> Clone!Intents]
      /\ \A i \in Jobs : Intended(i)' <=> Intended(i)
      /\ \A i \in Jobs : intent'[i].upid <=> intent[i].upid
  <2>1. CASE intent' = intent
    BY <2>1 DEF CInv, Clone!TypeOK, Intended
  <2>2. CASE intent' = [intent EXCEPT ![j].phase = Clone!Outcome(p)]
    BY <1>1, <1>2, <2>2, PhaseWritten DEF CInv, Intended
  <2> QED  BY <2>1, <2>2 DEF Clone!reconcile_clone, Clone!_phase
<1>5. CASE Clone!Outcome(p) = "clone_verified"
  <2>1. cProc[p].vm /\ Clone!lease_valid(j, "leased") /\ cState[j] = "clone_intent"
    BY <1>5 DEF Clone!Outcome
  <2>2. /\ target[j] \in Clone!Vmids /\ sent[j] = 1 /\ task[j] # "accepted"
        /\ cState \in [Jobs -> Clone!States]
    BY <1>1, <2>1 DEF CInv, CCalls, CStaged, Clone!TypeOK, Clone!Vmids
  <2>3. /\ cState' = [cState EXCEPT ![j] = "clone_verified"]
        /\ cLease' = [cLease EXCEPT ![target[j]].state = "consumed"]
        /\ control' = IF ~real /\ control.owner = j
                          THEN [control EXCEPT !.owner = Clone!None] ELSE control
    BY <1>5 DEF Clone!reconcile_clone
  <2>4. /\ cLease' \in [Clone!Vmids -> Clone!Leases]
        /\ cLease'[target[j]].job = j /\ cLease'[target[j]].state = "consumed"
        /\ \A w \in Clone!Vmids \ {target[j]} : cLease'[w] = cLease[w]
    <3>1. cLease[target[j]].job = j
      BY <2>1 DEF Clone!lease_valid
    <3> QED  BY <2>2, <2>3, <3>1, LeaseMoved DEF CInv
  <2>5. control' \in [owner : Jobs \cup {Clone!None}, kill : BOOLEAN]
    BY <2>3 DEF CInv, Clone!TypeOK
  <2>6. \A i \in Jobs \ {j} : cState[i] \in {"reserved", "clone_intent", "clone_verified"} \/ Intended(i)
            => target[i] # target[j]
    BY <2>1, <2>2 DEF CInv, CStaged, CIntents, Clone!lease_valid
  <2>7. Clone!TypeOK'
    BY <1>1, <1>3, <1>4, <2>2, <2>3, <2>4, <2>5 DEF CInv, Clone!TypeOK, Clone!States
  <2>8. \A i \in Jobs : cState[i] # "absent" => target[i] \in Clone!Vmids
    BY DEF CInv, CStaged, Clone!TypeOK, Clone!Vmids
  <2>9. CStaged'
    BY <1>1, <2>2, <2>3, <2>4, <2>6, <2>8 DEF CInv, CStaged
  <2>10. CIntents'
    BY <1>1, <1>4, <2>2, <2>3, <2>4, <2>6, <2>8 DEF CInv, CIntents
  <2>11. COne' /\ CVms'
    BY <1>1, <2>2, <2>3 DEF CInv, COne, CVms
  <2>12. CCalls' /\ CAlone'
    BY <1>1, <1>3, <1>4, <2>1, <2>2, <2>3 DEF CInv, CCalls, CAlone, Sending
  <2> QED  BY <2>7, <2>9, <2>10, <2>11, <2>12 DEF CInv
<1>6. CASE Clone!Outcome(p) # "clone_verified"
  <2>1. UNCHANGED <<cLease, cState, control>>
    BY <1>6 DEF Clone!reconcile_clone
  <2>2. Clone!TypeOK'
    BY <1>1, <1>3, <1>4, <2>1 DEF CInv, Clone!TypeOK
  <2>3. CStaged' /\ CIntents' /\ COne' /\ CVms'
    BY <1>1, <1>4, <2>1 DEF CInv, CStaged, CIntents, COne, CVms
  <2>4. CCalls' /\ CAlone'
    BY <1>1, <1>3, <1>4, <2>1 DEF CInv, CCalls, CAlone, Sending
  <2> QED  BY <2>2, <2>3, <2>4 DEF CInv
<1> QED  BY <1>5, <1>6

(* Cleanup deletes the VM of a verified or cancelled clone.                 *)
LEMMA DeleteStep ==
    ASSUME CInv, NEW p \in Operators, Clone!DeleteClone(p)
    PROVE  CInv'
<1> USE ProxmoxBounds DEF Clone!CloneAssumption
<1> DEFINE j == cProc[p].j
<1>1. /\ cProc[p].pc = "delete" /\ j \in Jobs /\ Intended(j) /\ sent[j] = 1
      /\ cState[j] \in {"clone_verified", "clone_cancelled"}
      /\ vms' = [vms EXCEPT ![target[j]] = IF vms[target[j]] = j THEN "none" ELSE vms[target[j]]]
      /\ UNCHANGED <<real, cState, target, cLease, approval, cleanupApproval, intent, control, task, sent, calls, cCrashes>>
  BY DEF Clone!DeleteClone, Clone!rows, CInv, CCalls, Clone!None
<1>2. /\ cProc' \in [Operators -> Clone!Calls]
      /\ cProc'[p].pc = "deleted" /\ cProc'[p].j = j
      /\ \A q \in Operators \ {p} : cProc'[q] = cProc[q]
  BY CallGoes DEF CInv, Clone!Pcs, Clone!DeleteClone
<1>3. target[j] \in Clone!Vmids /\ vms \in [Clone!Vmids -> Jobs \cup {"none"}]
  BY <1>1 DEF CInv, CStaged, Clone!TypeOK, Clone!Vmids, Clone!None
<1>4. /\ vms' \in [Clone!Vmids -> Jobs \cup {"none"}] /\ vms'[target[j]] # j
      /\ \A v \in Clone!Vmids : vms'[v] \in {vms[v], "none"}
  BY <1>1, <1>3 DEF Clone!None
<1>5. \A i \in Jobs : cState[i] # "absent" => target[i] \in Clone!Vmids
  BY DEF CInv, CStaged, Clone!TypeOK, Clone!Vmids
<1>6. Clone!TypeOK'
  BY <1>1, <1>2, <1>4 DEF CInv, Clone!TypeOK, Clone!None
<1>7. CStaged' /\ COne'
  BY <1>1 DEF CInv, CStaged, COne
<1>8. CIntents'
  BY <1>1, <1>4, <1>5 DEF CInv, CIntents, Intended, Clone!None
<1>9. CVms'
  BY <1>1, <1>4 DEF CInv, CVms
<1>10. CCalls'
  <2>1. \A q \in Operators : cProc'[q].pc = "deleted" => vms'[target[cProc'[q].j]] # cProc'[q].j
    BY <1>1, <1>2, <1>4, <1>5 DEF CInv, CCalls, Clone!None
  <2> QED  BY <1>1, <1>2, <2>1 DEF CInv, CCalls, Intended, Sending
<1>11. CAlone'
  BY <1>1, <1>2 DEF CInv, CAlone, Sending
<1> QED  BY <1>6, <1>7, <1>8, <1>9, <1>10, <1>11 DEF CInv

(* A lease is released for a job whose VM is not there and cannot appear    *)
(* any more.                                                                *)
LEMMA ReleaseLease ==
    ASSUME CInv, NEW p \in Operators, Clone!Done(p), NEW j \in Jobs,
           cState[j] \in {"reserved", "clone_verified", "clone_cancelled"},
           cState[j] # "reserved" => sent[j] = 1 /\ Intended(j),
           cLease[target[j]].job = j, vms[target[j]] # j,
           cState' = [cState EXCEPT ![j] = "clone_cancelled"],
           cLease' = [cLease EXCEPT ![target[j]].state = "released"],
           UNCHANGED <<real, target, approval, cleanupApproval, intent, control,
                       vms, task, sent, calls, cCrashes>>
    PROVE  CInv'
<1>1. /\ cProc' \in [Operators -> Clone!Calls] /\ cProc'[p].pc = "idle"
      /\ \A q \in Operators \ {p} : cProc'[q] = cProc[q]
  BY CallEnds DEF CInv
<1>2. /\ target[j] \in Clone!Vmids
      /\ cState \in [Jobs -> Clone!States]
      /\ \A i \in Jobs : cState[i] # "absent" => target[i] \in Clone!Vmids
  BY DEF CInv, CStaged, Clone!TypeOK, Clone!Vmids
<1>3. /\ cLease' \in [Clone!Vmids -> Clone!Leases]
      /\ cLease'[target[j]].job = j
      /\ \A w \in Clone!Vmids \ {target[j]} : cLease'[w] = cLease[w]
  BY <1>2, LeaseMoved DEF CInv
<1>4. \A i \in Jobs \ {j} : cState[i] \in {"reserved", "clone_intent", "clone_verified"} \/ Intended(i)
            => target[i] # target[j]
  BY <1>2 DEF CInv, CStaged, CIntents
<1>5. \A v \in Clone!Vmids : vms[v] # j
  <2> SUFFICES ASSUME NEW v \in Clone!Vmids, vms[v] = j PROVE FALSE
    OBVIOUS
  <2> QED  BY ProxmoxBounds DEF CInv, CVms, Clone!CloneAssumption, Clone!None
<1>6. Clone!TypeOK'
  BY <1>1, <1>2, <1>3 DEF CInv, Clone!TypeOK, Clone!States
<1>7. CStaged'
  BY <1>2, <1>3, <1>4 DEF CInv, CStaged
<1>8. CIntents'
  BY <1>2, <1>3, <1>4 DEF CInv, CIntents, Intended
<1>9. COne'
  BY DEF CInv, COne
<1>10. CVms'
  BY <1>2, <1>5 DEF CInv, CVms
<1>11. CCalls'
  BY <1>1, <1>2 DEF CInv, CCalls, Intended, Sending
<1>12. CAlone'
  BY <1>1 DEF CInv, CAlone, Sending
<1> QED  BY <1>6, <1>7, <1>8, <1>9, <1>10, <1>11, <1>12 DEF CInv

(* Cleanup releases the lease after the deletion.                           *)
LEMMA CleanupStep ==
    ASSUME CInv, NEW p \in Operators, Clone!controlled_cleanup(p)
    PROVE  CInv'
<1> DEFINE j == cProc[p].j
<1>1. /\ cProc[p].pc = "deleted" /\ j \in Jobs /\ Intended(j) /\ sent[j] = 1
      /\ cState[j] \in {"clone_verified", "clone_cancelled"} /\ vms[target[j]] # j
      /\ UNCHANGED <<real, target, approval, cleanupApproval, intent, control, vms, task, sent, calls, cCrashes>>
  BY DEF Clone!controlled_cleanup, Clone!provider, CInv, CCalls
<1>2. cLease[target[j]].job = j
  BY <1>1 DEF CInv, CIntents
<1> QED  BY <1>1, <1>2, ReleaseLease DEF Clone!controlled_cleanup

(* Releasing the lease of a job that was never attempted.                   *)
LEMMA ReleaseStep ==
    ASSUME CInv, NEW p \in Operators, Clone!release_unattempted_lease(p)
    PROVE  CInv'
<1> DEFINE j == cProc[p].j
<1>1. /\ cProc[p].pc = "release" /\ j \in Jobs /\ Clone!Done(p)
      /\ UNCHANGED <<real, target, approval, cleanupApproval, intent, control, vms, task, sent, calls, cCrashes>>
  BY DEF Clone!release_unattempted_lease, Clone!provider, CInv, CCalls
<1>2. CASE cState[j] = "reserved"
  <2>1. cLease[target[j]].job = j /\ vms[target[j]] # j
    <3>1. cLease[target[j]].job = j /\ target[j] \in Clone!Vmids
      BY <1>1, <1>2 DEF CInv, CStaged, Clone!TypeOK, Clone!Vmids
    <3>2. vms[target[j]] # j
      BY <1>1, <1>2, <3>1, ProxmoxBounds DEF CInv, CVms, Clone!CloneAssumption, Clone!None
    <3> QED  BY <3>1, <3>2
  <2>2. /\ cState' = [cState EXCEPT ![j] = "clone_cancelled"]
        /\ cLease' = [cLease EXCEPT ![target[j]].state = "released"]
    BY <1>2 DEF Clone!release_unattempted_lease, Clone!StillUnclaimed
  <2> QED  BY <1>1, <1>2, <2>1, <2>2, ReleaseLease
<1>3. CASE cState[j] # "reserved"
  <2>1. UNCHANGED <<cState, cLease>>
    BY <1>3 DEF Clone!release_unattempted_lease, Clone!StillUnclaimed
  <2> QED  BY <1>1, <2>1, QuietEnd DEF CInv, Clone!TypeOK
<1> QED  BY <1>2, <1>3

(* A call that dies leaves what it committed.                               *)
LEMMA CrashStep ==
    ASSUME CInv, NEW p \in Operators, Clone!Crash(p)
    PROVE  CInv'
<1>1. /\ Clone!Done(p) /\ cCrashes' \in Nat
      /\ UNCHANGED <<real, cState, target, cLease, approval, cleanupApproval, intent, control, vms, task, sent, calls>>
  BY DEF Clone!Crash, Clone!rows, Clone!provider, CInv, Clone!TypeOK
<1> QED  BY <1>1, QuietEnd

(* The initial states satisfy the invariant.                                *)
LEMMA CloneInit == Clone!Init => CInv
<1> SUFFICES ASSUME Clone!Init PROVE CInv
  OBVIOUS
<1> USE ProxmoxBounds DEF Clone!CloneAssumption, Clone!Init, Clone!None
<1>1. Clone!TypeOK
  <2>1. approval \in [Jobs -> Clone!Approvals]
    BY DEF Clone!Approvals, Clone!NoApproval
  <2>2. intent \in [Jobs -> Clone!Intents]
    BY DEF Clone!Intents, Clone!NoIntent, Clone!Phases
  <2>3. cLease \in [Clone!Vmids -> Clone!Leases]
    BY DEF Clone!Leases, Clone!NoLease
  <2>4. cProc \in [Operators -> Clone!Calls]
    BY DEF Clone!Calls, Clone!Idle, Clone!Phases, Clone!Pcs
  <2>5. control \in [owner : Jobs \cup {Clone!None}, kill : BOOLEAN]
    OBVIOUS
  <2> QED  BY <2>1, <2>2, <2>3, <2>4, <2>5 DEF Clone!TypeOK, Clone!States
<1>2. CStaged /\ COne /\ CVms
  BY DEF CStaged, COne, CVms
<1>3. CIntents
  <2> SUFFICES ASSUME NEW j \in Jobs
               PROVE  /\ ~Intended(j) /\ ~intent[j].upid /\ cState[j] = "absent"
                      /\ task[j] = "none" /\ ~(sent[j] > 0) /\ sent[j] <= 1
    BY Zenon DEF CIntents, Intended
  <2> QED  BY DEF Intended, Clone!NoIntent
<1>4. CCalls /\ CAlone
  BY DEF CCalls, CAlone, Sending, Clone!Idle
<1> QED  BY <1>1, <1>2, <1>3, <1>4 DEF CInv

(* A step of another part leaves the clone alone.                           *)
LEMMA CloneStutter ==
    ASSUME CInv, UNCHANGED cloneVars
    PROVE  CInv'
<1>1. Clone!TypeOK'
  BY DEF cloneVars, CInv, Clone!TypeOK
<1>2. CStaged' /\ CIntents' /\ COne' /\ CVms'
  BY DEF cloneVars, CInv, CStaged, CIntents, COne, CVms, Intended
<1>3. CCalls' /\ CAlone'
  BY DEF cloneVars, CInv, CCalls, CAlone, Intended, Sending
<1> QED  BY <1>1, <1>2, <1>3 DEF CInv

(* Every step of the controlled clone keeps the invariant.                  *)
LEMMA CloneStep ==
    ASSUME CInv, Clone!Next
    PROVE  CInv'
BY StageStep, CancelStep, FlagStep, ProviderStep, StartStep, IntendStep, RecheckStep, DispatchStep,
   AckStep, AmbiguousStep, ReadStep, SettleStep, DeleteStep, CleanupStep, ReleaseStep, CrashStep
   DEF Clone!Next

(* The cardinality of the instanced module is that of FiniteSets.           *)
LEMMA SameCount == \A S : Clone!Cardinality(S) = Cardinality(S)
BY DEF Clone!Cardinality, Cardinality

(* The invariant gives the two properties the run checks.                   *)
LEMMA CloneImplies ==
    ASSUME CInv
    PROVE  OneDispatch /\ VmIsLeased
<1>1. \A j \in Jobs : sent[j] <= 1
  BY DEF CInv, CIntents
<1>2. ASSUME real
      PROVE  Cardinality({j \in Jobs : sent[j] > 0}) <= 1
  <2> DEFINE S == {j \in Jobs : sent[j] > 0}
  <2>1. CASE S = {}
    BY <2>1, FS_EmptySet
  <2>2. CASE S # {}
    <3>1. PICK j \in S : TRUE
      BY <2>2
    <3>2. S = {j}
      BY <1>2, <3>1 DEF CInv, COne
    <3> QED  BY <3>2, FS_Singleton
  <2> QED  BY <2>1, <2>2
<1>3. OneDispatch
  BY <1>1, <1>2, SameCount DEF OneDispatch, Clone!OneDispatch
<1>4. ASSUME NEW v \in Clone!Vmids, vms[v] # "none"
      PROVE  cLease[v].job = vms[v] /\ cLease[v].state \in {"leased", "consumed"}
  <2>1. vms[v] \in Jobs
    BY <1>4 DEF CInv, Clone!TypeOK, Clone!None
  <2> QED  BY <1>4, <2>1 DEF CInv, CVms, CStaged
<1> QED  BY <1>3, <1>4 DEF VmIsLeased, Clone!VmIsLeased, Clone!None

(* The invariant holds in every reachable state.                            *)
LEMMA CloneInvariant == Spec => []CInv
<1>1. Init => CInv
  BY CloneInit DEF Init
<1>2. CInv /\ [Next]_<<part, jobVars, cloneVars, pipeVars>> => CInv'
  BY CloneStep, CloneStutter DEF Next
<1> QED  BY <1>1, <1>2, PTL DEF Spec

(* A clone request is sent at most once for a job, and the real provider    *)
(* sees the request of one job only, through calls that interleave, die and *)
(* are repeated (_execute_controlled).                                      *)
THEOREM OneCloneRequest == Spec => []OneDispatch
<1>1. CInv => OneDispatch
  BY CloneImplies
<1> QED  BY <1>1, CloneInvariant, PTL

(* A VM of the provider always sits at a VMID that is leased to the job it  *)
(* was made for, whatever release_unattempted_lease, the cancellation and   *)
(* controlled_cleanup do meanwhile.                                         *)
THEOREM VmKeepsItsLease == Spec => []VmIsLeased
<1>1. CInv => VmIsLeased
  BY CloneImplies
<1> QED  BY <1>1, CloneInvariant, PTL

-------------------------------------------------------------------------------

(* The rows of proxmox_provisioning_jobs.                                   *)
JobRows == [state : Queue!States, attempts : Nat, lease : {"none", "live", "expired"},
            permanent : BOOLEAN]

(* Types, with attempts unbounded: they are only counted.                   *)
JTypes ==
    /\ job \in [Jobs -> JobRows]
    /\ rsv \in [Jobs -> [status : Queue!ReservationStatuses, node : Nodes \cup {"none"}]]
    /\ reserved \in [Nodes -> Nat] /\ committed \in [Nodes -> Nat]
    /\ proc \in [Queue!Procs ->
                   [pc : {"idle", "reserve", "loaded", "execute", "stale"}, j : Jobs \cup {"none"},
                    node : Nodes \cup {"none"}, copy : JobRows, rsv : Queue!ReservationStatuses]]
    /\ gate2 \in BOOLEAN

(* A claim whose lease ran out.                                             *)
Stale(j) == job[j].state = "provisioning" /\ job[j].lease = "expired"

(* With Gate 2 off a claim is never committed, so nothing is in progress.   *)
JOff ==
    ~gate2 => /\ \A j \in Jobs : job[j].state # "provisioning"
              /\ \A p \in Queue!Procs : proc[p].pc \notin {"execute", "stale"}

(* What the copies a process holds still say of the rows: a worker that     *)
(* executes has a live claim and an active reservation; the reservation an  *)
(* operator read with a stale job has not moved while the job is stale.     *)
JProcs ==
    \A p \in Queue!Procs :
        /\ proc[p].pc # "idle" => proc[p].j \in Jobs
        /\ proc[p].pc = "reserve" => proc[p].node \in Nodes
        /\ proc[p].pc = "loaded" => proc[p].copy.state \in {"reserved", "queued", "failed"}
        /\ proc[p].pc = "stale" =>
               /\ proc[p].copy.state = "provisioning" /\ proc[p].copy.lease = "expired"
               /\ Stale(proc[p].j) => rsv[proc[p].j].status = proc[p].rsv
        /\ proc[p].pc = "execute" =>
               /\ job[proc[p].j].state = "provisioning" /\ job[proc[p].j].lease = "live"
               /\ rsv[proc[p].j].status = "active" /\ proc[p].rsv = "active"

(* A job is executed by one worker at a time.                               *)
JAlone ==
    \A p, q \in Queue!Procs :
        proc[p].pc = "execute" /\ proc[q].pc = "execute" /\ proc[p].j = proc[q].j => p = q

(* The jobs whose reservation is active on a node.                          *)
Active(n) == {j \in Jobs : rsv[j].status = "active" /\ rsv[j].node = n}

(* A node's reserved counter is the number of its active reservations.      *)
(* Without it a consumption could move a unit that was never counted (Less  *)
(* stops at zero), and committed would grow alone.                          *)
JCounts ==
    /\ \A j \in Jobs : rsv[j].status # "none" => rsv[j].node \in Nodes
    /\ \A n \in Nodes : reserved[n] = Cardinality(Active(n))

(* The inductive invariant of the job queue.                                *)
JInv == JTypes /\ JOff /\ JProcs /\ JAlone /\ JCounts /\ NodesNotOversold

(* There are finitely many jobs.                                            *)
LEMMA JobsAreFinite == IsFiniteSet(Jobs)
BY ProxmoxBounds DEF Queue!JobsAssumption, Queue!IsFiniteSet, IsFiniteSet

(* Adding a job to a set of jobs, or removing one, changes its size by one. *)
LEMMA Counted ==
    ASSUME NEW S, S \subseteq Jobs
    PROVE  /\ IsFiniteSet(S) /\ Cardinality(S) \in Nat
           /\ \A j \in Jobs \ S : Cardinality(S \cup {j}) = Cardinality(S) + 1
           /\ \A j \in S : /\ Cardinality(S \ {j}) = Cardinality(S) - 1
                           /\ Cardinality(S) >= 1
<1>1. IsFiniteSet(S) /\ Cardinality(S) \in Nat
  BY JobsAreFinite, FS_Subset, FS_CardinalityType
<1>2. \A j \in Jobs \ S : Cardinality(S \cup {j}) = Cardinality(S) + 1
  BY <1>1, FS_AddElement
<1>3. ASSUME NEW j \in S
      PROVE  Cardinality(S \ {j}) = Cardinality(S) - 1 /\ Cardinality(S) >= 1
  <2>1. Cardinality(S \ {j}) = Cardinality(S) - 1 /\ IsFiniteSet(S \ {j})
    BY <1>1, FS_RemoveElement
  <2>2. Cardinality(S \ {j}) \in Nat
    BY <2>1, FS_CardinalityType
  <2> QED  BY <1>1, <2>1, <2>2
<1> QED  BY <1>1, <1>2, <1>3

(* A reservation that becomes active is counted on its node.                *)
LEMMA ReservationTaken ==
    ASSUME JTypes, JCounts, NEW j \in Jobs, NEW n \in Nodes, rsv[j].status = "none",
           reserved' = [reserved EXCEPT ![n] = @ + 1],
           rsv' = [rsv EXCEPT ![j] = [status |-> "active", node |-> n]]
    PROVE  /\ rsv' \in [Jobs -> [status : Queue!ReservationStatuses, node : Nodes \cup {"none"}]]
           /\ reserved' \in [Nodes -> Nat] /\ JCounts'
<1>1. /\ rsv' \in [Jobs -> [status : Queue!ReservationStatuses, node : Nodes \cup {"none"}]]
      /\ rsv'[j].status = "active" /\ rsv'[j].node = n
      /\ \A i \in Jobs \ {j} : rsv'[i] = rsv[i]
  BY DEF JTypes, Queue!ReservationStatuses
<1>2. /\ reserved' \in [Nodes -> Nat] /\ reserved'[n] = reserved[n] + 1
      /\ \A m \in Nodes \ {n} : reserved'[m] = reserved[m]
  BY DEF JTypes
<1>3. /\ Active(n)' = Active(n) \cup {j} /\ j \in Jobs \ Active(n)
      /\ \A m \in Nodes \ {n} : Active(m)' = Active(m)
  BY <1>1 DEF Active
<1>4. Cardinality(Active(n)') = Cardinality(Active(n)) + 1
  BY <1>3, Counted DEF Active
<1>5. ASSUME NEW m \in Nodes
      PROVE  reserved'[m] = Cardinality(Active(m)')
  <2>1. reserved[m] = Cardinality(Active(m))
    BY DEF JCounts
  <2>2. CASE m = n
    BY <1>2, <1>4, <2>1, <2>2
  <2>3. CASE m # n
    BY <1>2, <1>3, <2>1, <2>3
  <2> QED  BY <2>2, <2>3
<1> QED  BY <1>1, <1>2, <1>5 DEF JCounts

(* A reservation that stops being active gives its unit back, once.         *)
LEMMA ReservationEnds ==
    ASSUME JTypes, JCounts, NEW j \in Jobs, rsv[j].status = "active",
           NEW to \in Queue!ReservationStatuses \ {"none", "active"},
           reserved' = [reserved EXCEPT ![rsv[j].node] = Queue!Less(@)],
           rsv' = [rsv EXCEPT ![j].status = to]
    PROVE  /\ rsv[j].node \in Nodes
           /\ rsv' \in [Jobs -> [status : Queue!ReservationStatuses, node : Nodes \cup {"none"}]]
           /\ rsv'[j].status = to /\ \A i \in Jobs \ {j} : rsv'[i] = rsv[i]
           /\ reserved' \in [Nodes -> Nat] /\ JCounts'
           /\ reserved'[rsv[j].node] = reserved[rsv[j].node] - 1
           /\ \A m \in Nodes \ {rsv[j].node} : reserved'[m] = reserved[m]
<1> DEFINE n == rsv[j].node
<1>1. /\ n \in Nodes
      /\ rsv' \in [Jobs -> [status : Queue!ReservationStatuses, node : Nodes \cup {"none"}]]
      /\ rsv'[j].status = to /\ rsv'[j].node = n
      /\ \A i \in Jobs \ {j} : rsv'[i] = rsv[i]
  BY DEF JTypes, JCounts
<1>2. /\ Active(n)' = Active(n) \ {j} /\ j \in Active(n)
      /\ \A m \in Nodes \ {n} : Active(m)' = Active(m)
  BY <1>1 DEF Active
<1>3. /\ Cardinality(Active(n)') = Cardinality(Active(n)) - 1 /\ Cardinality(Active(n)) >= 1
  BY <1>2, Counted DEF Active
<1>4. reserved[n] = Cardinality(Active(n)) /\ reserved[n] \in Nat
  BY <1>1 DEF JCounts, JTypes
<1>5. reserved' = [reserved EXCEPT ![n] = reserved[n] - 1]
  <2>1. Queue!Less(reserved[n]) = reserved[n] - 1
    BY <1>3, <1>4 DEF Queue!Less
  <2>2. reserved' = [reserved EXCEPT ![n] = Queue!Less(reserved[n])]
    OBVIOUS
  <2> QED  BY <2>1, <2>2
<1>6. /\ reserved' \in [Nodes -> Nat] /\ reserved'[n] = reserved[n] - 1
      /\ \A m \in Nodes \ {n} : reserved'[m] = reserved[m]
  BY <1>1, <1>3, <1>4, <1>5 DEF JTypes
<1>7. ASSUME NEW m \in Nodes
      PROVE  reserved'[m] = Cardinality(Active(m)')
  <2>1. reserved[m] = Cardinality(Active(m))
    BY DEF JCounts
  <2>2. CASE m = n
    BY <1>3, <1>6, <2>1, <2>2
  <2>3. CASE m # n
    BY <1>2, <1>6, <2>1, <2>3
  <2> QED  BY <2>2, <2>3
<1>8. \A i \in Jobs : rsv'[i].status # "none" => rsv'[i].node \in Nodes
  BY <1>1 DEF JCounts
<1> QED  BY <1>1, <1>6, <1>7, <1>8 DEF JCounts

(* release_reservation and fail_reservation, for a reservation that is what *)
(* the session says.                                                        *)
LEMMA Released ==
    ASSUME JInv, NEW j \in Jobs, NEW status, status = "active" => rsv[j].status = "active",
           NEW to \in {"released", "failed"},
           Queue!release_reservation(j, status, to)
    PROVE  /\ rsv' \in [Jobs -> [status : Queue!ReservationStatuses, node : Nodes \cup {"none"}]]
           /\ \A i \in Jobs \ {j} : rsv'[i] = rsv[i]
           /\ reserved' \in [Nodes -> Nat] /\ committed' \in [Nodes -> Nat]
           /\ JCounts' /\ NodesNotOversold'
<1>1. CASE status = "active"
  <2>1. /\ rsv[j].status = "active" /\ committed' = committed
        /\ reserved' = [reserved EXCEPT ![rsv[j].node] = Queue!Less(@)]
        /\ rsv' = [rsv EXCEPT ![j].status = to]
    BY <1>1 DEF Queue!release_reservation
  <2>2. /\ rsv' \in [Jobs -> [status : Queue!ReservationStatuses, node : Nodes \cup {"none"}]]
        /\ \A i \in Jobs \ {j} : rsv'[i] = rsv[i]
        /\ reserved' \in [Nodes -> Nat] /\ JCounts'
        /\ \A m \in Nodes : reserved'[m] <= reserved[m]
    <3>1. to \in Queue!ReservationStatuses \ {"none", "active"} /\ JTypes /\ JCounts
      BY DEF Queue!ReservationStatuses, JInv
    <3>2. /\ reserved' \in [Nodes -> Nat] /\ JCounts'
          /\ rsv' \in [Jobs -> [status : Queue!ReservationStatuses, node : Nodes \cup {"none"}]]
          /\ \A i \in Jobs \ {j} : rsv'[i] = rsv[i]
          /\ reserved'[rsv[j].node] = reserved[rsv[j].node] - 1
          /\ \A m \in Nodes \ {rsv[j].node} : reserved'[m] = reserved[m]
      BY <2>1, <3>1, ReservationEnds
    <3> QED  BY <3>1, <3>2 DEF JTypes
  <2>3. /\ committed' \in [Nodes -> Nat] /\ reserved \in [Nodes -> Nat]
        /\ Capacity \in [Nodes -> Nat]
    BY <2>1, ProxmoxBounds DEF JInv, JTypes, Queue!JobsAssumption
  <2>4. NodesNotOversold'
    BY <2>1, <2>2, <2>3 DEF JInv, NodesNotOversold, Queue!NodesNotOversold
  <2> QED  BY <2>2, <2>3, <2>4
<1>2. CASE status # "active"
  <2>1. UNCHANGED <<rsv, reserved, committed>>
    BY <1>2 DEF Queue!release_reservation
  <2> QED
    BY <2>1 DEF JInv, JTypes, JCounts, Active, NodesNotOversold, Queue!NodesNotOversold
<1> QED  BY <1>1, <1>2

(* consume_reservation moves one counted unit from reserved to committed.   *)
LEMMA Consumed ==
    ASSUME JInv, NEW j \in Jobs, rsv[j].status = "active", Queue!consume_reservation(j)
    PROVE  /\ rsv' \in [Jobs -> [status : Queue!ReservationStatuses, node : Nodes \cup {"none"}]]
           /\ \A i \in Jobs \ {j} : rsv'[i] = rsv[i]
           /\ reserved' \in [Nodes -> Nat] /\ committed' \in [Nodes -> Nat]
           /\ JCounts' /\ NodesNotOversold'
<1> DEFINE n == rsv[j].node
<1>1. /\ committed' = [committed EXCEPT ![n] = @ + 1]
      /\ reserved' = [reserved EXCEPT ![n] = Queue!Less(@)]
      /\ rsv' = [rsv EXCEPT ![j].status = "consumed"]
  BY DEF Queue!consume_reservation
<1>2. "consumed" \in Queue!ReservationStatuses \ {"none", "active"} /\ JTypes /\ JCounts
  BY DEF Queue!ReservationStatuses, JInv
<1>3. /\ reserved' \in [Nodes -> Nat] /\ JCounts' /\ n \in Nodes
      /\ rsv' \in [Jobs -> [status : Queue!ReservationStatuses, node : Nodes \cup {"none"}]]
      /\ \A i \in Jobs \ {j} : rsv'[i] = rsv[i]
      /\ reserved'[n] = reserved[n] - 1
      /\ \A m \in Nodes \ {n} : reserved'[m] = reserved[m]
  BY <1>1, <1>2, ReservationEnds
<1>4. /\ committed' \in [Nodes -> Nat] /\ committed'[n] = committed[n] + 1
      /\ \A m \in Nodes \ {n} : committed'[m] = committed[m]
      /\ committed \in [Nodes -> Nat] /\ reserved \in [Nodes -> Nat]
      /\ Capacity \in [Nodes -> Nat]
  BY <1>1, <1>3, ProxmoxBounds DEF JInv, JTypes, Queue!JobsAssumption
<1>5. NodesNotOversold'
  BY <1>3, <1>4 DEF JInv, NodesNotOversold, Queue!NodesNotOversold
<1> QED  BY <1>3, <1>4, <1>5

(* What a process may hold.                                                 *)
ProcRows == [pc : {"idle", "reserve", "loaded", "execute", "stale"}, j : Jobs \cup {"none"},
             node : Nodes \cup {"none"}, copy : JobRows, rsv : Queue!ReservationStatuses]

(* The part of JProcs that is about one process.                            *)
Held(p) ==
    /\ proc[p].pc # "idle" => proc[p].j \in Jobs
    /\ proc[p].pc = "reserve" => proc[p].node \in Nodes
    /\ proc[p].pc = "loaded" => proc[p].copy.state \in {"reserved", "queued", "failed"}
    /\ proc[p].pc = "stale" =>
           /\ proc[p].copy.state = "provisioning" /\ proc[p].copy.lease = "expired"
           /\ Stale(proc[p].j) => rsv[proc[p].j].status = proc[p].rsv
    /\ proc[p].pc = "execute" =>
           /\ job[proc[p].j].state = "provisioning" /\ job[proc[p].j].lease = "live"
           /\ rsv[proc[p].j].status = "active" /\ proc[p].rsv = "active"

(* Writing one process's row leaves the others.                             *)
LEMMA ProcWritten ==
    ASSUME JInv, NEW p \in Queue!Procs, NEW r \in ProcRows, proc' = [proc EXCEPT ![p] = r]
    PROVE  /\ proc' \in [Queue!Procs -> ProcRows] /\ proc'[p] = r
           /\ \A q \in Queue!Procs \ {p} : proc'[q] = proc[q]
BY DEF JInv, JTypes, ProcRows

(* An idle process is one.                                                  *)
LEMMA IdleRow == Queue!Idle \in ProcRows /\ Queue!Idle.pc = "idle"
<1>1. Queue!NoJob \in JobRows
  BY DEF Queue!NoJob, Queue!None, JobRows, Queue!States, Queue!PROXMOX_JOB_TRANSITIONS
<1> QED  BY <1>1 DEF Queue!Idle, Queue!None, ProcRows, Queue!ReservationStatuses

(* A process that only reads keeps the invariant.                           *)
LEMMA OnlyProcs ==
    ASSUME JInv, NEW p \in Queue!Procs, proc' \in [Queue!Procs -> ProcRows],
           \A q \in Queue!Procs \ {p} : proc'[q] = proc[q],
           UNCHANGED <<job, rsv, reserved, committed, gate2>>,
           Held(p)', proc'[p].pc # "execute", proc'[p].pc = "stale" => gate2
    PROVE  JInv'
<1>1. JTypes'
  BY DEF JInv, JTypes, ProcRows
<1>2. JOff'
  BY DEF JInv, JOff
<1>3. JProcs'
  BY DEF JInv, JProcs, Held, Stale
<1>4. JAlone'
  BY DEF JInv, JAlone
<1>5. JCounts' /\ NodesNotOversold'
  BY DEF JInv, JCounts, Active, NodesNotOversold, Queue!NodesNotOversold
<1> QED  BY <1>1, <1>2, <1>3, <1>4, <1>5 DEF JInv

(* Rows of the jobs in J are written by a process p. Nobody else executes   *)
(* one of them, and none is left stale: the invariant holds.                *)
LEMMA JobsMove ==
    ASSUME JInv, NEW J, NEW p \in Queue!Procs,
           job' \in [Jobs -> JobRows],
           \A i \in Jobs \ J : job'[i] = job[i] /\ rsv'[i] = rsv[i],
           \A i \in J \cap Jobs : ~Stale(i)' /\ (~gate2 => job'[i].state # "provisioning"),
           rsv' \in [Jobs -> [status : Queue!ReservationStatuses, node : Nodes \cup {"none"}]],
           reserved' \in [Nodes -> Nat], committed' \in [Nodes -> Nat],
           JCounts', NodesNotOversold',
           proc' \in [Queue!Procs -> ProcRows],
           \A q \in Queue!Procs \ {p} :
               proc'[q] = proc[q] /\ (proc[q].pc = "execute" => proc[q].j \notin J),
           Held(p)', proc'[p].pc = "execute" => proc'[p].j \in J /\ gate2,
           proc'[p].pc # "stale", gate2' = gate2
    PROVE  JInv'
<1>1. JTypes'
  BY DEF JInv, JTypes, ProcRows
<1>2. JOff'
  BY DEF JInv, JOff
<1>3. JProcs'
  <2> SUFFICES ASSUME NEW q \in Queue!Procs PROVE Held(q)'
    BY Zenon DEF JProcs, Held
  <2>1. CASE q = p
    BY <2>1
  <2>2. CASE q # p
    <3>1. proc'[q] = proc[q] /\ Held(q) /\ (proc[q].pc = "execute" => proc[q].j \notin J)
      BY <2>2 DEF JInv, JProcs, Held
    <3> QED  BY <3>1 DEF Held, Stale
  <2> QED  BY <2>1, <2>2
<1>4. JAlone'
  BY DEF JInv, JAlone
<1> QED  BY <1>1, <1>2, <1>3, <1>4 DEF JInv

(* An operator's request picks a node, or reads a job.                      *)
LEMMA OperatorLoads ==
    ASSUME JInv, NEW p \in Operators, NEW j \in Jobs,
           Queue!acquire_reservation(p, j) \/ Queue!LoadJob(p, j) \/ Queue!LoadStale(p, j)
    PROVE  JInv'
<1>0. p \in Queue!Procs /\ job[j] \in JobRows /\ rsv[j].status \in Queue!ReservationStatuses
  BY DEF Queue!Procs, JInv, JTypes
<1>1. CASE Queue!acquire_reservation(p, j)
  <2>1. PICK n \in Nodes : proc' = [proc EXCEPT ![p] = [Queue!Idle EXCEPT !.pc = "reserve", !.j = j, !.node = n]]
    BY <1>1 DEF Queue!acquire_reservation
  <2> DEFINE r == [Queue!Idle EXCEPT !.pc = "reserve", !.j = j, !.node = n]
  <2>2. r \in ProcRows /\ r.pc = "reserve" /\ r.j = j /\ r.node = n
    BY IdleRow DEF ProcRows
  <2>3. /\ proc' \in [Queue!Procs -> ProcRows] /\ proc'[p] = r
        /\ \A q \in Queue!Procs \ {p} : proc'[q] = proc[q]
    BY <1>0, <2>1, <2>2, ProcWritten
  <2>4. Held(p)' /\ proc'[p].pc = "reserve"
    BY <2>2, <2>3 DEF Held
  <2> QED  BY <1>0, <1>1, <2>3, <2>4, OnlyProcs DEF Queue!acquire_reservation
<1>2. CASE Queue!LoadJob(p, j)
  <2> DEFINE r == [Queue!Idle EXCEPT !.pc = "loaded", !.j = j, !.copy = job[j]]
  <2>2. r \in ProcRows /\ r.pc = "loaded" /\ r.j = j /\ r.copy = job[j]
    BY <1>0, IdleRow DEF ProcRows
  <2>3. /\ proc' \in [Queue!Procs -> ProcRows] /\ proc'[p] = r
        /\ \A q \in Queue!Procs \ {p} : proc'[q] = proc[q]
    BY <1>0, <1>2, <2>2, ProcWritten DEF Queue!LoadJob
  <2>4. Held(p)' /\ proc'[p].pc = "loaded"
    BY <1>2, <2>2, <2>3 DEF Held, Queue!LoadJob
  <2> QED  BY <1>0, <1>2, <2>3, <2>4, OnlyProcs DEF Queue!LoadJob
<1>3. CASE Queue!LoadStale(p, j)
  <2> DEFINE r == [Queue!Idle EXCEPT !.pc = "stale", !.j = j, !.copy = job[j], !.rsv = rsv[j].status]
  <2>2. r \in ProcRows /\ r.pc = "stale" /\ r.j = j /\ r.copy = job[j] /\ r.rsv = rsv[j].status
    BY <1>0, IdleRow DEF ProcRows
  <2>3. /\ proc' \in [Queue!Procs -> ProcRows] /\ proc'[p] = r
        /\ \A q \in Queue!Procs \ {p} : proc'[q] = proc[q]
    BY <1>0, <1>3, <2>2, ProcWritten DEF Queue!LoadStale
  <2>4. Held(p)' /\ proc'[p].pc = "stale" /\ gate2
    BY <1>3, <2>2, <2>3 DEF Held, Queue!LoadStale, JInv, JOff
  <2> QED  BY <1>0, <1>3, <2>3, <2>4, OnlyProcs DEF Queue!LoadStale
<1> QED  BY <1>1, <1>2, <1>3

(* A process that ends leaves the others.                                   *)
LEMMA ProcEnds ==
    ASSUME JInv, NEW p \in Queue!Procs, Queue!Done(p)
    PROVE  /\ proc' \in [Queue!Procs -> ProcRows] /\ proc'[p].pc = "idle" /\ Held(p)'
           /\ \A q \in Queue!Procs \ {p} : proc'[q] = proc[q]
<1>1. /\ proc' \in [Queue!Procs -> ProcRows] /\ proc'[p] = Queue!Idle
      /\ \A q \in Queue!Procs \ {p} : proc'[q] = proc[q]
  BY IdleRow, ProcWritten DEF Queue!Done
<1> QED  BY <1>1, IdleRow DEF Held

(* A process that ends without a write.                                     *)
LEMMA ProcGivesUp ==
    ASSUME JInv, NEW p \in Queue!Procs, Queue!Done(p),
           UNCHANGED <<job, rsv, reserved, committed, gate2>>
    PROVE  JInv'
BY ProcEnds, OnlyProcs

(* A unit taken from a node that still has room leaves it within its        *)
(* capacity.                                                                *)
LEMMA RoomTaken ==
    ASSUME JInv, NEW j \in Jobs, NEW n \in Nodes, rsv[j].status = "none", Queue!StillFits(n),
           reserved' = [reserved EXCEPT ![n] = @ + 1], committed' = committed,
           rsv' = [rsv EXCEPT ![j] = [status |-> "active", node |-> n]]
    PROVE  NodesNotOversold'
<1>1. /\ reserved \in [Nodes -> Nat] /\ committed \in [Nodes -> Nat] /\ Capacity \in [Nodes -> Nat]
  BY ProxmoxBounds DEF JInv, JTypes, Queue!JobsAssumption
<1>2. Capacity[n] - reserved[n] - committed[n] >= 1
  BY DEF Queue!StillFits, Queue!Available
<1>3. reserved[n] + committed[n] + 1 <= Capacity[n]
  BY <1>1, <1>2
<1> QED  BY <1>1, <1>3 DEF JInv, NodesNotOversold, Queue!NodesNotOversold

(* Writing a job's state (and lease) leaves the other rows.                 *)
LEMMA StateWritten ==
    ASSUME JInv, NEW j \in Jobs, NEW s \in Queue!States,
           \/ job' = [job EXCEPT ![j].state = s]
           \/ \E l \in {"none", "live", "expired"} : job' = [job EXCEPT ![j].state = s, ![j].lease = l]
    PROVE  /\ job' \in [Jobs -> JobRows] /\ job'[j].state = s
           /\ \A i \in Jobs \ {j} : job'[i] = job[i]
<1>1. job \in [Jobs -> JobRows]
  BY DEF JInv, JTypes
<1>2. CASE job' = [job EXCEPT ![j].state = s]
  <2>1. [job[j] EXCEPT !.state = s] \in JobRows /\ [job[j] EXCEPT !.state = s].state = s
    BY <1>1 DEF JobRows
  <2> QED  BY <1>1, <1>2, <2>1
<1>3. ASSUME NEW l \in {"none", "live", "expired"}, job' = [job EXCEPT ![j].state = s, ![j].lease = l]
      PROVE  /\ job' \in [Jobs -> JobRows] /\ job'[j].state = s
             /\ \A i \in Jobs \ {j} : job'[i] = job[i]
  <2> DEFINE r == [job[j] EXCEPT !.state = s, !.lease = l]
  <2>1. r \in JobRows /\ r.state = s
    BY <1>1 DEF JobRows
  <2>2. job' = [job EXCEPT ![j] = r]
    BY <1>1, <1>3
  <2> HIDE DEF r
  <2> QED  BY <1>1, <2>1, <2>2
<1> QED  BY <1>2, <1>3

(* The reservation and its job: a request nobody executes, on a node with   *)
(* room at the time of the UPDATE.                                          *)
LEMMA CreateStep ==
    ASSUME JInv, NEW p \in Operators, Queue!create_provisioning_job(p)
    PROVE  JInv'
<1> DEFINE j == proc[p].j
           n == proc[p].node
<1>1. /\ p \in Queue!Procs /\ j \in Jobs /\ n \in Nodes /\ Queue!Done(p)
      /\ UNCHANGED <<committed, gate2>>
  BY DEF Queue!Procs, Queue!create_provisioning_job, JInv, JProcs
<1>2. CASE rsv[j].status = "none" /\ Queue!StillFits(n)
  <2>1. /\ reserved' = [reserved EXCEPT ![n] = @ + 1]
        /\ rsv' = [rsv EXCEPT ![j] = [status |-> "active", node |-> n]]
        /\ job' = [job EXCEPT ![j].state = "reserved"]
    BY <1>2 DEF Queue!create_provisioning_job, Queue!None
  <2>2. /\ rsv' \in [Jobs -> [status : Queue!ReservationStatuses, node : Nodes \cup {"none"}]]
        /\ reserved' \in [Nodes -> Nat] /\ committed' \in [Nodes -> Nat] /\ JCounts'
    BY <1>1, <1>2, <2>1, ReservationTaken DEF JInv, JTypes
  <2>3. NodesNotOversold'
    BY <1>1, <1>2, <2>1, RoomTaken
  <2>4. /\ job' \in [Jobs -> JobRows] /\ job'[j].state = "reserved"
        /\ \A i \in Jobs \ {j} : job'[i] = job[i]
    <3>1. "reserved" \in Queue!States
      BY DEF Queue!States, Queue!PROXMOX_JOB_TRANSITIONS
    <3> QED  BY <1>1, <2>1, <3>1, StateWritten
  <2>8. \A i \in Jobs \ {j} : rsv'[i] = rsv[i]
    BY <1>1, <2>1 DEF JInv, JTypes
  <2>5. \A q \in Queue!Procs : proc[q].pc = "execute" => proc[q].j # j
    BY <1>2 DEF JInv, JProcs
  <2>6. /\ proc' \in [Queue!Procs -> ProcRows] /\ proc'[p].pc = "idle" /\ Held(p)'
        /\ \A q \in Queue!Procs \ {p} : proc'[q] = proc[q]
    BY <1>1, ProcEnds
  <2>7. \A i \in {j} \cap Jobs : ~Stale(i)' /\ (~gate2 => job'[i].state # "provisioning")
    BY <2>4 DEF Stale
  <2> QED  BY <1>1, <2>2, <2>3, <2>4, <2>5, <2>6, <2>7, <2>8, JobsMove
<1>3. CASE ~(rsv[j].status = "none" /\ Queue!StillFits(n))
  <2>1. UNCHANGED <<job, rsv, reserved>>
    BY <1>3 DEF Queue!create_provisioning_job, Queue!None
  <2> QED  BY <1>1, <2>1, ProcGivesUp
<1> QED  BY <1>2, <1>3

(* A write of one job's row by a process that then ends, when nobody executes it. *)
LEMMA RowWritten ==
    ASSUME JInv, NEW p \in Queue!Procs, NEW j \in Jobs,
           NEW s \in Queue!States \ {"provisioning"},
           job' \in [Jobs -> JobRows], job'[j].state = s,
           \A i \in Jobs \ {j} : job'[i] = job[i] /\ rsv'[i] = rsv[i],
           \A q \in Queue!Procs \ {p} : proc[q].pc = "execute" => proc[q].j # j,
           rsv' \in [Jobs -> [status : Queue!ReservationStatuses, node : Nodes \cup {"none"}]],
           reserved' \in [Nodes -> Nat], committed' \in [Nodes -> Nat],
           JCounts', NodesNotOversold',
           Queue!Done(p) \/ (proc' = proc /\ proc[p].pc = "idle"), gate2' = gate2
    PROVE  JInv'
<1>1. /\ proc' \in [Queue!Procs -> ProcRows] /\ proc'[p].pc = "idle" /\ Held(p)'
      /\ \A q \in Queue!Procs \ {p} : proc'[q] = proc[q]
  <2>1. CASE Queue!Done(p)
    BY <2>1, ProcEnds
  <2>2. CASE proc' = proc /\ proc[p].pc = "idle"
    BY <2>2 DEF JInv, JTypes, ProcRows, Held
  <2> QED  BY <2>1, <2>2
<1>2. \A i \in {j} \cap Jobs : ~Stale(i)' /\ (~gate2 => job'[i].state # "provisioning")
  BY DEF Stale
<1> QED  BY <1>1, <1>2, JobsMove

(* Counters and reservations that do not change stay right.                 *)
LEMMA SameCounters ==
    ASSUME JInv, UNCHANGED <<rsv, reserved, committed>>
    PROVE  /\ rsv' \in [Jobs -> [status : Queue!ReservationStatuses, node : Nodes \cup {"none"}]]
           /\ reserved' \in [Nodes -> Nat] /\ committed' \in [Nodes -> Nat]
           /\ JCounts' /\ NodesNotOversold'
BY DEF JInv, JTypes, JCounts, Active, NodesNotOversold, Queue!NodesNotOversold

(* An operator that writes from a copy writes a job nobody executes, and    *)
(* the reservation it read with a stale job is still what it read.          *)
LEMMA FreshCopy ==
    ASSUME JInv, ~Overtaken, NEW p \in Operators, Queue!Fresh(p),
           proc[p].pc \in {"loaded", "stale"}
    PROVE  /\ p \in Queue!Procs /\ proc[p].j \in Jobs
           /\ \A q \in Queue!Procs : proc[q].pc = "execute" => proc[q].j # proc[p].j
           /\ proc[p].pc = "stale" => rsv[proc[p].j].status = proc[p].rsv
<1>1. p \in Queue!Procs /\ proc[p].j \in Jobs
  BY DEF Queue!Procs, JInv, JProcs
<1>2. CASE ~gate2
  BY <1>1, <1>2 DEF JInv, JOff
<1>3. CASE proc[p].copy = job[proc[p].j]
  BY <1>1, <1>3 DEF JInv, JProcs, Stale
<1> QED  BY <1>1, <1>2, <1>3 DEF Queue!Fresh

(* Enqueue and retry.                                                       *)
LEMMA EnqueueStep ==
    ASSUME JInv, ~Overtaken, NEW p \in Operators, Queue!enqueue_job(p) \/ Queue!retry_failed_job(p)
    PROVE  JInv'
<1> DEFINE j == proc[p].j
<1>1. /\ proc[p].pc = "loaded" /\ Queue!Fresh(p) /\ Queue!Done(p)
      /\ UNCHANGED <<rsv, reserved, committed, gate2>>
      /\ job' = job \/ job' = [job EXCEPT ![j].state = "queued"]
  BY DEF Queue!enqueue_job, Queue!retry_failed_job
<1>2. /\ p \in Queue!Procs /\ j \in Jobs
      /\ \A q \in Queue!Procs : proc[q].pc = "execute" => proc[q].j # j
  BY <1>1, FreshCopy
<1>3. CASE job' = job
  BY <1>1, <1>2, <1>3, ProcGivesUp
<1>4. CASE job' = [job EXCEPT ![j].state = "queued"]
  <2>1. "queued" \in Queue!States \ {"provisioning"}
    BY DEF Queue!States, Queue!PROXMOX_JOB_TRANSITIONS
  <2>2. /\ job' \in [Jobs -> JobRows] /\ job'[j].state = "queued"
        /\ \A i \in Jobs \ {j} : job'[i] = job[i]
    BY <1>2, <1>4, <2>1, StateWritten
  <2> QED  BY <1>1, <1>2, <2>1, <2>2, SameCounters, RowWritten
<1> QED  BY <1>1, <1>3, <1>4

(* Cancellation releases the reservation it reads under the lock.           *)
LEMMA CancelJobStep ==
    ASSUME JInv, ~Overtaken, NEW p \in Operators, Queue!cancel_job(p)
    PROVE  JInv'
<1> DEFINE j == proc[p].j
<1>1. /\ proc[p].pc = "loaded" /\ Queue!Fresh(p) /\ Queue!Done(p)
      /\ Queue!release_reservation(j, rsv[j].status, "released")
      /\ job' = [job EXCEPT ![j].state = "cancelled"] /\ gate2' = gate2
  BY DEF Queue!cancel_job
<1>2. /\ p \in Queue!Procs /\ j \in Jobs
      /\ \A q \in Queue!Procs : proc[q].pc = "execute" => proc[q].j # j
  BY <1>1, FreshCopy
<1>3. "cancelled" \in Queue!States \ {"provisioning"}
  BY DEF Queue!States, Queue!PROXMOX_JOB_TRANSITIONS
<1>4. /\ job' \in [Jobs -> JobRows] /\ job'[j].state = "cancelled"
      /\ \A i \in Jobs \ {j} : job'[i] = job[i]
  BY <1>1, <1>2, <1>3, StateWritten
<1>5. /\ rsv' \in [Jobs -> [status : Queue!ReservationStatuses, node : Nodes \cup {"none"}]]
      /\ \A i \in Jobs \ {j} : rsv'[i] = rsv[i]
      /\ reserved' \in [Nodes -> Nat] /\ committed' \in [Nodes -> Nat]
      /\ JCounts' /\ NodesNotOversold'
  BY <1>1, <1>2, Released
<1> QED  BY <1>1, <1>2, <1>3, <1>4, <1>5, RowWritten

(* Reconciliation requeues a stale job, or fails it and its reservation.    *)
LEMMA ReconcileJobStep ==
    ASSUME JInv, ~Overtaken, NEW p \in Operators, Queue!reconcile_stale_proxmox_jobs(p)
    PROVE  JInv'
<1> DEFINE j == proc[p].j
<1>1. /\ proc[p].pc = "stale" /\ Queue!Fresh(p) /\ Queue!Done(p) /\ gate2' = gate2
  BY DEF Queue!reconcile_stale_proxmox_jobs
<1>2. /\ p \in Queue!Procs /\ j \in Jobs
      /\ \A q \in Queue!Procs : proc[q].pc = "execute" => proc[q].j # j
      /\ rsv[j].status = proc[p].rsv
  BY <1>1, FreshCopy
<1>3. {"queued", "failed"} \subseteq Queue!States \ {"provisioning"}
  BY DEF Queue!States, Queue!PROXMOX_JOB_TRANSITIONS
<1>4. CASE proc[p].copy.attempts < MaxAttempts
  <2>1. /\ job' = [job EXCEPT ![j].state = "queued", ![j].lease = "none"]
        /\ UNCHANGED <<rsv, reserved, committed>>
    BY <1>4 DEF Queue!reconcile_stale_proxmox_jobs, Queue!None
  <2>2. /\ job' \in [Jobs -> JobRows] /\ job'[j].state = "queued"
        /\ \A i \in Jobs \ {j} : job'[i] = job[i]
    BY <1>2, <1>3, <2>1, StateWritten
  <2> QED  BY <1>1, <1>2, <1>3, <2>1, <2>2, SameCounters, RowWritten
<1>5. CASE ~(proc[p].copy.attempts < MaxAttempts)
  <2>1. /\ job' = [job EXCEPT ![j].state = "failed", ![j].lease = "none"]
        /\ Queue!release_reservation(j, proc[p].rsv, "failed")
    BY <1>5 DEF Queue!reconcile_stale_proxmox_jobs, Queue!None
  <2>2. /\ job' \in [Jobs -> JobRows] /\ job'[j].state = "failed"
        /\ \A i \in Jobs \ {j} : job'[i] = job[i]
    BY <1>2, <1>3, <2>1, StateWritten
  <2>3. /\ rsv' \in [Jobs -> [status : Queue!ReservationStatuses, node : Nodes \cup {"none"}]]
        /\ \A i \in Jobs \ {j} : rsv'[i] = rsv[i]
        /\ reserved' \in [Nodes -> Nat] /\ committed' \in [Nodes -> Nat]
        /\ JCounts' /\ NodesNotOversold'
    BY <1>2, <2>1, Released
  <2> QED  BY <1>1, <1>2, <1>3, <2>2, <2>3, RowWritten
<1> QED  BY <1>4, <1>5

(* A request that is refused, and a worker that dies.                       *)
LEMMA RefuseStep ==
    ASSUME JInv, NEW p \in Queue!Procs, Queue!RefuseOperator(p) \/ Queue!Crash(p)
    PROVE  JInv'
BY ProcGivesUp DEF Queue!RefuseOperator, Queue!Crash

(* A claim expires while nobody is suspended in the middle of it.           *)
LEMMA ExpireStep ==
    ASSUME JInv, ~Overlap, NEW j \in Jobs, Queue!ExpireLease(j)
    PROVE  JInv'
<1>1. /\ job[j].state = "provisioning"
      /\ \A p \in Queue!Procs : proc[p].pc = "idle"
      /\ job' = [job EXCEPT ![j].lease = "expired"]
      /\ UNCHANGED <<rsv, reserved, committed, proc, gate2>>
  BY DEF Queue!ExpireLease
<1>2. gate2
  BY <1>1 DEF JInv, JOff
<1>3. JTypes'
  BY <1>1 DEF JInv, JTypes, JobRows
<1>4. JOff' /\ JProcs' /\ JAlone'
  BY <1>1, <1>2 DEF JOff, JProcs, JAlone
<1> QED  BY <1>1, <1>3, <1>4, SameCounters DEF JInv

(* The provider's answer, written for a job no other process executes.      *)
LEMMA ResultWritten ==
    ASSUME JInv, NEW w \in Queue!Procs, NEW j \in Jobs, NEW n \in Nat, NEW answer,
           \A q \in Queue!Procs \ {w} : proc[q].pc = "execute" => proc[q].j # j,
           NEW status, status = "active" => rsv[j].status = "active",
           Queue!_classify_and_handle_result(j, answer, n, status),
           Queue!Done(w) \/ (proc' = proc /\ proc[w].pc = "idle"), gate2' = gate2
    PROVE  JInv'
<1>1. /\ rsv' \in [Jobs -> [status : Queue!ReservationStatuses, node : Nodes \cup {"none"}]]
      /\ \A i \in Jobs \ {j} : rsv'[i] = rsv[i]
      /\ reserved' \in [Nodes -> Nat] /\ committed' \in [Nodes -> Nat]
      /\ JCounts' /\ NodesNotOversold'
  <2>1. CASE status = "active" /\ Queue!consume_reservation(j)
    BY <2>1, Consumed
  <2>2. CASE UNCHANGED <<rsv, reserved, committed>>
    BY <2>2, SameCounters
  <2>3. CASE Queue!release_reservation(j, status, "failed")
    BY <2>3, Released
  <2> QED  BY <2>1, <2>2, <2>3 DEF Queue!_classify_and_handle_result
<1>2. PICK s \in {"ready", "queued", "failed", "rolled_back"}, permanent \in BOOLEAN :
          job' = [job EXCEPT ![j] =
                    [state |-> s, attempts |-> n, lease |-> "live", permanent |-> permanent]]
  BY Zenon DEF Queue!_classify_and_handle_result
<1>3. s \in Queue!States \ {"provisioning"}
  BY DEF Queue!States, Queue!PROXMOX_JOB_TRANSITIONS
<1> DEFINE row == [state |-> s, attempts |-> n, lease |-> "live", permanent |-> permanent]
<1>4. row \in JobRows /\ row.state = s
  BY <1>3 DEF JobRows
<1>5. /\ job' \in [Jobs -> JobRows] /\ job'[j].state = s
      /\ \A i \in Jobs \ {j} : job'[i] = job[i]
  BY <1>2, <1>4 DEF JInv, JTypes
<1> QED  BY <1>1, <1>3, <1>5, RowWritten

(* The row of a plan that failed.                                           *)
LEMMA UnplannedRow ==
    ASSUME JInv, NEW j \in Jobs
    PROVE  Queue!Unplanned(j) \in JobRows /\ Queue!Unplanned(j).state = "failed"
<1> DEFINE a == IF job[j].attempts > MaxAttempts THEN job[j].attempts ELSE job[j].attempts + 1
           never == ~Queue!_validate_job_reservation_consistency(j)
<1>1. job[j] \in JobRows
  BY DEF JInv, JTypes
<1>2. "failed" \in Queue!States
  BY DEF Queue!States, Queue!PROXMOX_JOB_TRANSITIONS
<1>3. a \in Nat
  BY <1>1 DEF JobRows
<1>4. never \in BOOLEAN
  BY DEF Queue!_validate_job_reservation_consistency
<1>5. Queue!Unplanned(j) = [job[j] EXCEPT !.state = "failed", !.lease = "live",
                                          !.permanent = never, !.attempts = a]
  BY <1>1 DEF Queue!Unplanned, JobRows
<1> HIDE DEF a, never
<1> QED  BY <1>1, <1>2, <1>3, <1>4, <1>5 DEF JobRows

(* A plan that failed.                                                      *)
LEMMA FailedRow ==
    ASSUME JInv, NEW w \in Queue!Procs, NEW j \in Jobs, job[j].state = "queued",
           Queue!FailJob(j), proc' = proc, proc[w].pc = "idle", gate2' = gate2
    PROVE  JInv'
<1>1. job \in [Jobs -> JobRows]
  BY DEF JInv, JTypes
<1>2. "failed" \in Queue!States \ {"provisioning"}
  BY DEF Queue!States, Queue!PROXMOX_JOB_TRANSITIONS
<1>3. job' = [job EXCEPT ![j] = Queue!Unplanned(j)] /\ UNCHANGED <<rsv, reserved, committed>>
  BY DEF Queue!FailJob
<1>4. /\ job' \in [Jobs -> JobRows] /\ job'[j].state = "failed"
      /\ \A i \in Jobs \ {j} : job'[i] = job[i]
  BY <1>1, <1>3, UnplannedRow
<1>5. \A q \in Queue!Procs : proc[q].pc = "execute" => proc[q].j # j
  BY DEF JInv, JProcs
<1> QED  BY <1>2, <1>3, <1>4, <1>5, SameCounters, RowWritten

(* Gate 2 off: claim, plan and execution in one transaction.                *)
LEMMA ProcessStep ==
    ASSUME JInv, NEW w \in Workers, NEW j \in Jobs, Queue!_process_one_proxmox_job(w, j)
    PROVE  JInv'
<1>1. /\ w \in Queue!Procs /\ proc[w].pc = "idle" /\ ~gate2 /\ job[j].state = "queued"
      /\ proc' = proc /\ gate2' = gate2
  BY DEF Queue!Procs, Queue!_process_one_proxmox_job, Queue!Claimable
<1>2. job[j].attempts + 1 \in Nat
  BY DEF JInv, JTypes, JobRows
<1>3. \A q \in Queue!Procs : proc[q].pc # "execute"
  BY <1>1 DEF JInv, JOff
<1>4. ASSUME NEW answer \in Queue!Answers,
             Queue!_classify_and_handle_result(j, answer, job[j].attempts + 1, rsv[j].status)
      PROVE  JInv'
  BY <1>1, <1>2, <1>3, <1>4, ResultWritten
<1>5. CASE Queue!FailJob(j)
  BY <1>1, <1>5, FailedRow
<1> QED  BY <1>4, <1>5 DEF Queue!_process_one_proxmox_job

(* The rows a claim writes.                                                 *)
LEMMA ClaimedRow ==
    ASSUME JInv, NEW j \in Jobs
    PROVE  /\ Queue!claim_job(j) \in JobRows
           /\ Queue!claim_job(j).state = "provisioning" /\ Queue!claim_job(j).lease = "live"
           /\ Queue!Readied(j) \in JobRows /\ Queue!Readied(j).state = "mutation_ready"
<1>1. job[j] \in JobRows
  BY DEF JInv, JTypes
<1>2. {"provisioning", "mutation_ready"} \subseteq Queue!States
  BY DEF Queue!States, Queue!PROXMOX_JOB_TRANSITIONS
<1>3. /\ Queue!claim_job(j) \in JobRows
      /\ Queue!claim_job(j).state = "provisioning" /\ Queue!claim_job(j).lease = "live"
  <2> DEFINE a == job[j].attempts + 1
             r == [job[j] EXCEPT !.state = "provisioning", !.attempts = a, !.lease = "live"]
  <2>1. a \in Nat
    BY <1>1 DEF JobRows
  <2>2. Queue!claim_job(j) = r
    BY DEF Queue!claim_job
  <2> HIDE DEF a
  <2>3. r \in JobRows /\ r.state = "provisioning" /\ r.lease = "live"
    BY <1>1, <1>2, <2>1 DEF JobRows
  <2> QED  BY <2>2, <2>3
<1> QED  BY <1>2, <1>3 DEF Queue!Readied, JobRows

(* Gate 2 on: the claim is committed, and the worker goes on with its       *)
(* copies.                                                                  *)
LEMMA EvaluateStep ==
    ASSUME JInv, NEW w \in Workers, NEW j \in Jobs, Queue!evaluate_mutation_readiness(w, j)
    PROVE  JInv'
<1>1. /\ w \in Queue!Procs /\ proc[w].pc = "idle" /\ gate2 /\ job[j].state = "queued"
      /\ gate2' = gate2
      /\ \A q \in Queue!Procs : proc[q].pc = "execute" => proc[q].j # j
  BY DEF Queue!Procs, Queue!evaluate_mutation_readiness, Queue!Claimable, JInv, JProcs
<1>2. job \in [Jobs -> JobRows] /\ job[j] \in JobRows
  BY DEF JInv, JTypes
<1>3. CASE Queue!FailJob(j) /\ proc' = proc
  BY <1>1, <1>3, FailedRow
<1>4. CASE /\ rsv[j].status = "active" /\ UNCHANGED <<rsv, reserved, committed>>
           /\ job' = [job EXCEPT ![j] = Queue!Readied(j)] /\ proc' = proc
  <2>1. /\ job' \in [Jobs -> JobRows] /\ job'[j].state = "mutation_ready"
        /\ \A i \in Jobs \ {j} : job'[i] = job[i]
    BY <1>2, <1>4, ClaimedRow
  <2>2. "mutation_ready" \in Queue!States \ {"provisioning"}
    BY DEF Queue!States, Queue!PROXMOX_JOB_TRANSITIONS
  <2> QED  BY <1>1, <1>4, <2>1, <2>2, SameCounters, RowWritten
<1>5. CASE /\ rsv[j].status = "active" /\ UNCHANGED <<rsv, reserved, committed>>
           /\ job' = [job EXCEPT ![j] = Queue!claim_job(j)]
           /\ proc' = [proc EXCEPT ![w] = [Queue!Idle EXCEPT !.pc = "execute", !.j = j,
                                 !.copy = Queue!claim_job(j), !.rsv = rsv[j].status]]
  <2>1. /\ job' \in [Jobs -> JobRows] /\ job'[j].state = "provisioning" /\ job'[j].lease = "live"
        /\ \A i \in Jobs \ {j} : job'[i] = job[i]
    BY <1>2, <1>5, ClaimedRow
  <2> DEFINE r == [Queue!Idle EXCEPT !.pc = "execute", !.j = j,
                                 !.copy = Queue!claim_job(j), !.rsv = rsv[j].status]
  <2>2. /\ r \in ProcRows /\ r.pc = "execute" /\ r.j = j /\ r.rsv = "active"
    BY <1>5, IdleRow, ClaimedRow DEF ProcRows, Queue!ReservationStatuses
  <2>3. /\ proc' \in [Queue!Procs -> ProcRows] /\ proc'[w] = r
        /\ \A q \in Queue!Procs \ {w} : proc'[q] = proc[q]
    BY <1>1, <1>5, <2>2, ProcWritten
  <2>4. Held(w)' /\ proc'[w].pc = "execute" /\ proc'[w].j = j
    BY <1>5, <2>1, <2>2, <2>3 DEF Held
  <2>5. \A i \in {j} \cap Jobs : ~Stale(i)' /\ (~gate2 => job'[i].state # "provisioning")
    BY <1>1, <2>1 DEF Stale
  <2> QED  BY <1>1, <1>5, <2>1, <2>3, <2>4, <2>5, SameCounters, JobsMove, ZenonT(60)
<1> QED
  BY <1>3, <1>4, <1>5
     DEF Queue!evaluate_mutation_readiness, Queue!compile_provisioning_plan,
         Queue!_validate_job_reservation_consistency

(* The execution: the claim is live and the reservation active, though the  *)
(* worker looks at neither.                                                 *)
LEMMA ExecuteStep ==
    ASSUME JInv, NEW w \in Queue!Procs, Queue!execute_job(w)
    PROVE  JInv'
<1> DEFINE j == proc[w].j
<1>1. /\ proc[w].pc = "execute" /\ j \in Jobs /\ Queue!Done(w) /\ gate2' = gate2
      /\ rsv[j].status = "active"
      /\ \A q \in Queue!Procs \ {w} : proc[q].pc = "execute" => proc[q].j # j
  BY DEF Queue!execute_job, JInv, JProcs, JAlone
<1>2. proc[w].copy.attempts \in Nat
  BY DEF JInv, JTypes, JobRows
<1>3. PICK answer \in Queue!Answers :
          Queue!_classify_and_handle_result(j, answer, proc[w].copy.attempts, proc[w].rsv)
  BY DEF Queue!execute_job
<1> QED  BY <1>1, <1>2, <1>3, ResultWritten

(* The worker's own reconciliation, committed with the failure of another   *)
(* job.                                                                     *)
LEMMA LoopStep ==
    ASSUME JInv, NEW w \in Workers, NEW j \in Jobs, NEW other \in Jobs,
           Queue!run_proxmox_worker_loop(w, j, other)
    PROVE  JInv'
<1> DEFINE q == [job[j] EXCEPT !.state = "queued", !.lease = "none"]
           f == Queue!Unplanned(other)
<1>1. /\ w \in Queue!Procs /\ proc[w].pc = "idle" /\ j # other
      /\ job[j].state = "provisioning" /\ job[j].lease = "expired" /\ job[other].state = "queued"
      /\ UNCHANGED <<rsv, reserved, committed, proc, gate2>>
  BY DEF Queue!Procs, Queue!run_proxmox_worker_loop, Queue!Claimable
<1>2. job \in [Jobs -> JobRows] /\ job[j] \in JobRows /\ job[other] \in JobRows
  BY DEF JInv, JTypes
<1>3. {"queued", "failed"} \subseteq Queue!States
  BY DEF Queue!States, Queue!PROXMOX_JOB_TRANSITIONS
<1>4. job' = [[job EXCEPT ![j] = q] EXCEPT ![other] = f]
  BY <1>1, <1>2 DEF Queue!run_proxmox_worker_loop, Queue!None
<1>5. q \in JobRows /\ q.state = "queued" /\ f \in JobRows /\ f.state = "failed"
  BY <1>2, <1>3, UnplannedRow DEF JobRows
<1> HIDE DEF q, f
<1>6. /\ job' \in [Jobs -> JobRows] /\ job'[j].state = "queued" /\ job'[other].state = "failed"
      /\ \A i \in Jobs \ {j, other} : job'[i] = job[i]
  BY <1>1, <1>2, <1>4, <1>5
<1>7. \A p \in Queue!Procs : proc[p].pc = "execute" => proc[p].j \notin {j, other}
  BY <1>1 DEF JInv, JProcs
<1>8. proc \in [Queue!Procs -> ProcRows] /\ Held(w)'
  BY <1>1 DEF JInv, JTypes, ProcRows, Held
<1>9. \A i \in {j, other} \cap Jobs : ~Stale(i)' /\ (~gate2 => job'[i].state # "provisioning")
  BY <1>6 DEF Stale
<1> QED  BY <1>1, <1>6, <1>7, <1>8, <1>9, SameCounters, JobsMove

(* Every step of the queue keeps the invariant.                             *)
LEMMA JobsStep ==
    ASSUME JInv, ~Overlap, ~Overtaken, Queue!Next
    PROVE  JInv'
<1>1. Workers \subseteq Queue!Procs /\ Operators \subseteq Queue!Procs
  BY DEF Queue!Procs
<1> QED
  BY <1>1, OperatorLoads, CreateStep, EnqueueStep, CancelJobStep, ReconcileJobStep, RefuseStep,
     ProcessStep, EvaluateStep, ExecuteStep, LoopStep, ExpireStep DEF Queue!Next

(* The initial states satisfy the invariant.                                *)
LEMMA JobsInit == Queue!Init => JInv
<1> SUFFICES ASSUME Queue!Init PROVE JInv
  OBVIOUS
<1>1. Queue!NoJob \in JobRows /\ Queue!NoJob.state = "absent"
  BY DEF Queue!NoJob, Queue!None, JobRows, Queue!States, Queue!PROXMOX_JOB_TRANSITIONS
<1>2. \A p \in Queue!Procs : proc[p] = Queue!Idle /\ proc[p].pc = "idle"
  BY IdleRow DEF Queue!Init
<1>3. JTypes
  <2>1. "none" \in Queue!ReservationStatuses
    BY DEF Queue!ReservationStatuses, Queue!None
  <2> QED  BY <1>1, <2>1, IdleRow DEF JTypes, Queue!Init, Queue!None, ProcRows
<1>4. JOff /\ JProcs /\ JAlone
  BY <1>1, <1>2 DEF JOff, JProcs, JAlone, Queue!Init
<1>5. JCounts
  <2>1. \A n \in Nodes : Active(n) = {}
    BY DEF Active, Queue!Init, Queue!None
  <2> QED  BY <2>1, FS_EmptySet DEF JCounts, Queue!Init, Queue!None
<1>6. NodesNotOversold
  BY ProxmoxBounds DEF Queue!JobsAssumption, Queue!Init, NodesNotOversold, Queue!NodesNotOversold
<1> QED  BY <1>3, <1>4, <1>5, <1>6 DEF JInv

(* A step of another part leaves the queue alone.                           *)
LEMMA JobsStutter ==
    ASSUME JInv, UNCHANGED jobVars
    PROVE  JInv'
<1>1. JTypes' /\ JOff' /\ JAlone' /\ UNCHANGED <<rsv, reserved, committed>>
  BY DEF jobVars, JInv, JTypes, JOff, JAlone
<1>2. JProcs'
  BY DEF jobVars, JInv, JProcs, Stale
<1> QED  BY <1>1, <1>2, SameCounters DEF JInv

(* What is reserved and committed on a node never exceeds its capacity,     *)
(* whatever requests, cancellations, retries, reconciliations, workers and  *)
(* crashes do, as long as no process is suspended for longer than a lease   *)
(* and no row changes under an operator's copy (acquire_reservation,        *)
(* consume_reservation, release_reservation).                               *)
THEOREM NodesKeepTheirCapacity ==
    ASSUME ~Overlap, ~Overtaken
    PROVE  Spec => []NodesNotOversold
<1>1. Init => JInv
  BY JobsInit DEF Init
<1>2. JInv /\ [Next]_<<part, jobVars, cloneVars, pipeVars>> => JInv'
  BY JobsStep, JobsStutter DEF Next
<1>3. JInv => NodesNotOversold
  BY DEF JInv
<1> QED  BY <1>1, <1>2, <1>3, PTL DEF Spec

-------------------------------------------------------------------------------

(* The provider's VM, and how often it was made and started.                *)
PMade ==
    \/ vm = "absent" /\ clones = 0 /\ starts = 0
    \/ vm = "stopped" /\ clones = 1 /\ starts = 0
    \/ vm = "running" /\ clones = 1 /\ starts = 1

(* Only the POST of Gate 4 makes the VM, and only a start of a stopped one  *)
(* starts it.                                                               *)
LEMMA PipelineStep ==
    ASSUME PMade, Pipeline!Next
    PROVE  PMade'
<1>1. CASE Pipeline!_execute_real_clone
  BY <1>1 DEF PMade, Pipeline!_execute_real_clone, Pipeline!MayPost, Pipeline!TargetAbsent
<1>2. CASE Pipeline!_start_once
  BY <1>2 DEF PMade, Pipeline!_start_once
<1>3. CASE Pipeline!_issue_vm_start
  BY <1>3 DEF PMade, Pipeline!_issue_vm_start
<1>4. CASE UNCHANGED <<vm, clones, starts>>
  BY <1>4 DEF PMade
<1> QED
  BY <1>1, <1>2, <1>3, <1>4
     DEF Pipeline!Next, Pipeline!Drift, Pipeline!validate_mutation_drift, Pipeline!PreChecksOnly,
         Pipeline!execute_controlled_clone, Pipeline!_wait_for_upid_completion,
         Pipeline!_verify_clone_post_execution, Pipeline!reestablish_operator_binding,
         Pipeline!execute_phase_c_live, Pipeline!advance_to_post_clone_configuring,
         Pipeline!_apply_config, Pipeline!advance_to_boot_verifying,
         Pipeline!resume_phase_c_from_boot_verifying, Pipeline!_verify_cloud_init_and_ssh,
         Pipeline!orchestrate_post_clone_boot, Pipeline!_wait_for_boot_completion,
         Pipeline!advance_to_base_runtime_installing, Pipeline!AdvanceRuntime,
         Pipeline!mark_runtime_failed, Pipeline!persist_hc39_evidence, Pipeline!Crash,
         Pipeline!row, Pipeline!world

(* Gate 4 makes a job's VM once and HC3.8 starts it once, though a Gate 4   *)
(* that dies leaves no trace in the job's row (_execute_real_clone,         *)
(* _start_once, _issue_vm_start).                                           *)
THEOREM VmMadeAndStartedOnce == Spec => []MadeOnce
<1>1. Init => PMade
  BY DEF Init, Pipeline!Init, PMade
<1>2. PMade /\ [Next]_<<part, jobVars, cloneVars, pipeVars>> => PMade'
  <2>1. PMade /\ UNCHANGED pipeVars => PMade'
    BY DEF PMade, pipeVars
  <2> QED  BY <2>1, PipelineStep DEF Next
<1>3. PMade => MadeOnce
  BY DEF PMade, MadeOnce, Pipeline!MadeOnce
<1> QED  BY <1>1, <1>2, <1>3, PTL DEF Spec

===============================================================================
