-------------------------------- MODULE MCCloud --------------------------------
(* Helpers ERP Cloud behind the order, checked side by side: the capacity a  *)
(* customer reserves (part "reserve", the names of ComputeReservation), the  *)
(* provisioning of an ordered instance (part "build") and the demo lane      *)
(* (part "demo").  They meet only in rows that none of them writes for       *)
(* another, so only one takes steps.                                         *)
EXTENDS ComputeReservation

CONSTANTS MaxRequests, Workers, QuoteRequests, MaxAttempts, MaxRuns, MaxCrashes,
          MaxEdits, MaxFaults, Overlap,
          DemoWorkers, Operators, HasFilestore, MaxTime, DemoCrashes, DemoFaults

VARIABLES part,
          req, inst, inputs, template, tenants, made, wk, count, crashed,
          row, demos, res, inOrder, proc, now, crashes, edits, faults, excused, left

Build == INSTANCE CloudProvisioning
Demo  == INSTANCE DemoClone WITH
           Workers <- DemoWorkers, MaxCrashes <- DemoCrashes, MaxFaults <- DemoFaults,
           tenants <- demos, inputs <- inOrder

ASSUME CloudBounds == Build!CloudAssumption /\ Demo!DemoAssumption

buildVars == <<req, inst, inputs, template, tenants, made, wk, count, crashed>>
demoVars  == <<row, demos, res, inOrder, proc, now, crashes, edits, faults, excused, left>>
all       == <<part, vars, buildVars, demoVars>>

BuildDoes(A) == part = "build" /\ A /\ UNCHANGED <<part, vars, demoVars>>

CloudInit ==
    part \in {"reserve", "build", "demo"} /\ Init /\ Build!Init /\ Demo!Init

CloudNext ==
    \/ part = "reserve" /\ Next /\ UNCHANGED <<part, buildVars, demoVars>>
    \/ part = "build" /\ Build!Next /\ UNCHANGED <<part, vars, demoVars>>
    \/ part = "demo" /\ Demo!Next /\ UNCHANGED <<part, vars, buildVars>>

(* The fairness of the provisioning's worker loop, as CloudProvisioning      *)
(* states it.                                                                *)
CloudSpec ==
    /\ CloudInit /\ [][CloudNext]_all
    /\ \A w \in Workers : WF_all(BuildDoes(Build!WorkerStep(w)))
    /\ \A r \in 1 .. MaxRequests :
         WF_all(BuildDoes(Build!ExpireLease(r))) /\ WF_all(BuildDoes(Build!BackoffOver(r)))

(* What a customer may open is there (can_open_odoo). *)
OpenIsServed == Build!OpenIsServed

(* No two workers build, or build and roll back, the same request            *)
(* (claim_next_real_cloud_job).                                              *)
OneExecutor == Build!OneExecutor

(* A rollback names all it made (rollback_cloud_request). *)
RolledBackIsClean == Build!RolledBackIsClean

(* An approved request in the queue is claimed                               *)
(* (approve_cloud_request_for_real_provisioning).                            *)
ApprovedIsServed == part = "build" => Build!ApprovedIsServed

(* A demo the portal lets a customer open is there (can_launch). *)
LaunchIsServed == Demo!LaunchIsServed

(* A request without a tenant has left nothing behind                        *)
(* (execute_demo_clone_job, execute_demo_cleanup).                           *)
UnservedIsClean == Demo!UnservedIsClean

================================================================================
