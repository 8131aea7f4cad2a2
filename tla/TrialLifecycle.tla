----------------------------- MODULE TrialLifecycle -----------------------------
(***************************************************************************)
(* The life of a Quick Deploy trial after its deployment: it expires into  *)
(* grace, is suspended by the worker's tick, reactivated, converted or     *)
(* terminated by operators.  Sources: platform_lifecycle_service,          *)
(* api/platform_lifecycle, models_dp6, worker_main.                        *)
(*                                                                         *)
(* A tick reads up to Limit trials in the order of their ids and walks     *)
(* these copies; stopping or starting a container happens between two      *)
(* transactions, and operators work between the steps of a tick.           *)
(***************************************************************************)
EXTENDS Integers, FiniteSets

CONSTANTS
    MaxTrials,      \* trials, all of them active when the model starts
    Limit,          \* the tick's limit
    AutoTerminate,  \* platform_trial_auto_terminate_enabled
    MaxTime,        \* bound: days
    MaxOps,         \* bound: operators' requests
    MaxFaults,      \* bound: Docker calls that fail
    MaxCrashes      \* bound: processes killed

VARIABLES
    row,        \* platform_trials with platform_trial_lifecycle
    box,        \* the tenant's container
    now,        \* the day
    tick,       \* the worker: its copies, the trial it works on, its `now`
    op,         \* the operator's request in progress
    crossed,    \* history: trials whose last reactivation met a tick that held them
    ops, faults, crashes

vars == <<row, box, now, tick, op, crossed, ops, faults, crashes>>

LifecycleAssumption == MaxTrials \in Nat /\ MaxTime \in Nat

Trials == 1 .. MaxTrials

(* Days of trial, grace and retention; 0 is a null timestamp. *)
TrialDays == 1
GraceDays == 1
RetentionDays == 1
Null == 0
Days == 0 .. MaxTime + 3

PT_STATUSES == {"trial_active", "grace", "suspension_pending", "suspended",
                "termination_pending", "terminated", "converted"}

NoTick == [at |-> 0, todo |-> {}, t |-> 0, step |-> "idle",
           copy |-> [t \in Trials |-> "none"]]
NoOp == [kind |-> "none", t |-> 0]

Init ==
    /\ row = [t \in Trials |-> [status |-> "trial_active", ends |-> TrialDays, grace |-> Null,
                                suspended |-> Null, retention |-> Null, backoff |-> FALSE,
                                converted |-> FALSE]]
    /\ box = [t \in Trials |-> "running"]
    /\ now = 0
    /\ tick = NoTick
    /\ op = NoOp
    /\ crossed = {}
    /\ ops = 0 /\ faults = 0 /\ crashes = 0

(* Operators' requests come one at a time. *)
OperatorMayAct == op = NoOp /\ ops < MaxOps

(* The tick has read the trial and is not done with it. *)
Held(t) ==
    \/ tick.step # "idle" /\ t \in tick.todo
    \/ tick.step \in {"process", "stop", "suspend"} /\ t = tick.t

---------------------------------------------------------------------------
(* The tick. *)

Due == {t \in Trials : row[t].status \in {"trial_active", "grace", "suspension_pending",
                                          "suspended", "termination_pending"}}

(* The first Limit due trials in the order of their ids. *)
Batch == {t \in Due : Cardinality({u \in Due : u < t}) < Limit}

Least(S) == CHOOSE t \in S : \A u \in S : t <= u

process_due_lifecycle_tick ==
    /\ tick.step = "idle" /\ Batch # {}
    /\ tick' = [at |-> now, todo |-> Batch, t |-> 0, step |-> "next",
                copy |-> [t \in Trials |-> row[t].status]]
    /\ crossed' = crossed \cup {t \in Batch : op.kind = "reactivate" /\ op.t = t}
    /\ UNCHANGED <<row, box, now, op, ops, faults, crashes>>

(* process_trial takes the next copy, in the order of the ids.                *)
NextTrial ==
    /\ tick.step = "next"
    /\ tick' = IF tick.todo = {} THEN NoTick
               ELSE [tick EXCEPT !.t = Least(tick.todo), !.todo = @ \ {Least(@)},
                                 !.step = "process"]
    /\ UNCHANGED <<row, box, now, op, crossed, ops, faults, crashes>>

Status == tick.copy[tick.t]
Row == row[tick.t]

(* Mutant: the grace period gets no end. *)
EnterGraceWithoutEnd ==
    /\ Status = "trial_active" /\ tick.at >= Row.ends
    /\ row' = [row EXCEPT ![tick.t].status = "grace"]
    /\ tick' = [tick EXCEPT !.step = "next"]

(* Expired: enter_grace.  The grace period is set once. *)
enter_grace ==
    /\ Status = "trial_active" /\ tick.at >= Row.ends
    /\ row' = [row EXCEPT ![tick.t].status = "grace",
                          ![tick.t].grace = IF @ = Null THEN Row.ends + GraceDays ELSE @]
    /\ tick' = [tick EXCEPT !.step = "next"]

(* Mutant: the container is stopped before the suspension is committed. *)
StopBeforeRequest ==
    /\ Status = "grace" /\ Row.grace # Null /\ tick.at >= Row.grace
    /\ tick' = [tick EXCEPT !.step = "stop"]
    /\ UNCHANGED row

(* The grace is over: the trial is to be suspended. *)
request_suspension ==
    /\ Status = "grace" /\ Row.grace # Null /\ tick.at >= Row.grace
    /\ row' = [row EXCEPT ![tick.t].status = "suspension_pending"]
    /\ tick' = [tick EXCEPT !.step = "stop"]

(* Mutant: a suspension under way is taken for a finished one. *)
SuspensionIsDone ==
    /\ Status = "suspension_pending" /\ ~Row.backoff
    /\ tick' = [tick EXCEPT !.step = "next"]
    /\ UNCHANGED row

(* A suspension under way is retried once its backoff is over. *)
RetrySuspension ==
    /\ Status = "suspension_pending" /\ ~Row.backoff
    /\ tick' = [tick EXCEPT !.step = "stop"]
    /\ UNCHANGED row

AutoRequestTermination ==
    /\ Status = "suspended" /\ AutoTerminate
    /\ Row.retention # Null /\ tick.at >= Row.retention
    /\ row' = [row EXCEPT ![tick.t].status = "termination_pending"]
    /\ tick' = [tick EXCEPT !.step = "next"]

NothingDue ==
    /\ ~ \/ Status = "trial_active" /\ tick.at >= Row.ends
         \/ Status = "grace" /\ Row.grace # Null /\ tick.at >= Row.grace
         \/ Status = "suspension_pending" /\ ~Row.backoff
         \/ Status = "suspended" /\ AutoTerminate /\ Row.retention # Null /\ tick.at >= Row.retention
    /\ tick' = [tick EXCEPT !.step = "next"]
    /\ UNCHANGED row

process_trial ==
    /\ tick.step = "process"
    /\ \/ enter_grace \/ request_suspension \/ RetrySuspension
       \/ AutoRequestTermination \/ NothingDue
    /\ UNCHANGED <<box, now, op, crossed, ops, faults, crashes>>

(* complete_suspension stops the container and looks again ... *)
StopContainer ==
    /\ tick.step = "stop"
    /\ box' = [box EXCEPT ![tick.t] = IF @ = "running" THEN "stopped" ELSE @]
    /\ tick' = [tick EXCEPT !.step = "suspend"]
    /\ UNCHANGED <<row, now, op, crossed, ops, faults, crashes>>

(* ... or the stop fails: a container that still runs is a retry with a      *)
(* backoff (_record_retry), a Docker error only ends the attempt.  The       *)
(* rollback expires the session's copies.                                    *)
StopFails ==
    /\ tick.step = "stop"
    /\ faults < MaxFaults /\ faults' = faults + 1
    /\ \E retry \in BOOLEAN : row' = [row EXCEPT ![tick.t].backoff = @ \/ retry]
    /\ tick' = [tick EXCEPT !.step = "next", !.copy = [t \in Trials |-> row[t].status]]
    /\ UNCHANGED <<box, now, op, crossed, ops, crashes>>

(* complete_suspension commits.  Retention is set once. *)
complete_suspension ==
    /\ tick.step = "suspend"
    /\ row' = [row EXCEPT ![tick.t].status = "suspended", ![tick.t].backoff = FALSE,
                          ![tick.t].suspended = IF @ = Null THEN tick.at ELSE @,
                          ![tick.t].retention =
                              IF @ = Null THEN tick.at + RetentionDays ELSE @]
    /\ tick' = [tick EXCEPT !.step = "next"]
    /\ UNCHANGED <<box, now, op, crossed, ops, faults, crashes>>

---------------------------------------------------------------------------
(* Operators. *)

(* Mutant: any trial that still has its container can be reactivated. *)
ReactivateAny(t) ==
    /\ OperatorMayAct /\ box[t] # "removed"
    /\ ops' = ops + 1
    /\ box' = [box EXCEPT ![t] = "running"]
    /\ op' = [kind |-> "reactivate", t |-> t]
    /\ crossed' = IF Held(t) THEN crossed \cup {t} ELSE crossed \ {t}
    /\ UNCHANGED <<row, now, tick, faults, crashes>>

(* reactivate_trial starts the container and waits for its health ... *)
StartContainer(t) ==
    /\ OperatorMayAct
    /\ row[t].status \in {"suspended", "suspension_pending"} /\ box[t] # "removed"
    /\ ops' = ops + 1
    /\ box' = [box EXCEPT ![t] = "running"]
    /\ op' = [kind |-> "reactivate", t |-> t]
    /\ crossed' = IF Held(t) THEN crossed \cup {t} ELSE crossed \ {t}
    /\ UNCHANGED <<row, now, tick, faults, crashes>>

(* ... records a retry when it is not healthy: the container keeps running ... *)
NotHealthy ==
    /\ op.kind = "reactivate"
    /\ faults < MaxFaults /\ faults' = faults + 1
    /\ row' = [row EXCEPT ![op.t].backoff = TRUE]
    /\ op' = NoOp
    /\ UNCHANGED <<box, now, tick, crossed, ops, crashes>>

(* ... or makes the trial active again, with the deadlines it had. *)
reactivate_trial ==
    /\ op.kind = "reactivate"
    /\ row' = [row EXCEPT ![op.t].status = "trial_active", ![op.t].backoff = FALSE]
    /\ op' = NoOp
    /\ UNCHANGED <<box, now, tick, crossed, ops, faults, crashes>>

convert_trial_to_subscription(t) ==
    /\ OperatorMayAct
    /\ row[t].status \notin {"terminated", "converted"}
    /\ row' = [row EXCEPT ![t].status = "converted", ![t].converted = TRUE]
    /\ ops' = ops + 1
    /\ UNCHANGED <<box, now, tick, op, crossed, faults, crashes>>

request_termination(t) ==
    /\ OperatorMayAct
    /\ row[t].status = "suspended"
    /\ row' = [row EXCEPT ![t].status = "termination_pending"]
    /\ ops' = ops + 1
    /\ UNCHANGED <<box, now, tick, op, crossed, faults, crashes>>

cancel_termination(t) ==
    /\ OperatorMayAct
    /\ row[t].status = "termination_pending"
    /\ row' = [row EXCEPT ![t].status = "suspended"]
    /\ ops' = ops + 1
    /\ UNCHANGED <<box, now, tick, op, crossed, faults, crashes>>

(* Mutant: the retention is not looked at. *)
DestroyAtOnce(t) ==
    /\ OperatorMayAct /\ row[t].status = "termination_pending"
    /\ ops' = ops + 1
    /\ box' = [box EXCEPT ![t] = "removed"]
    /\ op' = [kind |-> "terminate", t |-> t]
    /\ UNCHANGED <<row, now, tick, crossed, faults, crashes>>

(* execute_termination removes the container after the retention ... *)
DestroyRuntime(t) ==
    /\ OperatorMayAct
    /\ row[t].status = "termination_pending"
    /\ row[t].retention # Null /\ now >= row[t].retention
    /\ ops' = ops + 1
    /\ box' = [box EXCEPT ![t] = "removed"]
    /\ op' = [kind |-> "terminate", t |-> t]
    /\ UNCHANGED <<row, now, tick, crossed, faults, crashes>>

(* ... and commits; the database, the role and the filestore are kept. *)
execute_termination ==
    /\ op.kind = "terminate"
    /\ row' = [row EXCEPT ![op.t].status = "terminated"]
    /\ op' = NoOp
    /\ UNCHANGED <<box, now, tick, crossed, ops, faults, crashes>>

(* An operator runs process_trial on one trial. *)
api_operator_lifecycle_retry(t) ==
    /\ OperatorMayAct /\ tick.step = "idle" /\ t \in Due
    /\ ops' = ops + 1
    /\ tick' = [at |-> now, todo |-> {t}, t |-> 0, step |-> "next",
                copy |-> [u \in Trials |-> row[u].status]]
    /\ UNCHANGED <<row, box, now, op, crossed, faults, crashes>>

---------------------------------------------------------------------------
(* The environment. *)

DayPasses ==
    /\ now < MaxTime /\ now' = now + 1
    /\ UNCHANGED <<row, box, tick, op, crossed, ops, faults, crashes>>

(* next_lifecycle_retry_at passes. *)
BackoffEnds(t) ==
    /\ row[t].backoff
    /\ row' = [row EXCEPT ![t].backoff = FALSE]
    /\ UNCHANGED <<box, now, tick, op, crossed, ops, faults, crashes>>

(* The worker or the API process dies; each starts again. *)
WorkerCrash ==
    /\ tick.step # "idle" /\ crashes < MaxCrashes
    /\ crashes' = crashes + 1 /\ tick' = NoTick
    /\ UNCHANGED <<row, box, now, op, crossed, ops, faults>>

WebCrash ==
    /\ op # NoOp /\ crashes < MaxCrashes
    /\ crashes' = crashes + 1 /\ op' = NoOp
    /\ UNCHANGED <<row, box, now, tick, crossed, ops, faults>>

---------------------------------------------------------------------------

WorkerStep ==
    \/ process_due_lifecycle_tick \/ NextTrial \/ process_trial
    \/ StopContainer \/ StopFails \/ complete_suspension

EndOp == NotHealthy \/ reactivate_trial \/ execute_termination

Next ==
    \/ WorkerStep
    \/ \E t \in Trials : \/ StartContainer(t) \/ convert_trial_to_subscription(t)
                         \/ request_termination(t) \/ cancel_termination(t)
                         \/ DestroyRuntime(t) \/ api_operator_lifecycle_retry(t)
                         \/ BackoffEnds(t)
    \/ EndOp
    \/ DayPasses
    \/ WorkerCrash
    \/ WebCrash

Spec == Init /\ [][Next]_vars

(* The worker polls for ever, time passes, and a request that runs ends. *)
Fairness ==
    /\ WF_vars(WorkerStep) /\ WF_vars(EndOp) /\ WF_vars(DayPasses)
    /\ \A t \in Trials : WF_vars(BackoffEnds(t))

---------------------------------------------------------------------------

TypeOK ==
    /\ row \in [Trials -> [status : PT_STATUSES, ends : Days, grace : Days, suspended : Days,
                           retention : Days, backoff : BOOLEAN, converted : BOOLEAN]]
    /\ box \in [Trials -> {"running", "stopped", "removed"}]
    /\ now \in 0 .. MaxTime
    /\ tick.step \in {"idle", "next", "process", "stop", "suspend"} /\ crossed \subseteq Trials
    /\ tick.t \in 0 .. MaxTrials /\ op.t \in 0 .. MaxTrials /\ tick.todo \subseteq Trials
    /\ tick.copy \in [Trials -> PT_STATUSES \cup {"none"}]

(* A customer in the trial or in its grace has a running container: no       *)
(* crash, failed stop or failed reactivation leaves an active trial stopped, *)
(* and neither does a tick that walks old copies, except a trial that was    *)
(* reactivated while the tick held it (complete_suspension,                  *)
(* reactivate_trial).                                                        *)
ActiveIsServed ==
    \A t \in Trials \ crossed :
        row[t].status \in {"trial_active", "grace"} => box[t] = "running"

(* The container of a trial is gone only after its grace and a retention     *)
(* counted from its first suspension (execute_termination).                  *)
RetentionKept ==
    \A t \in Trials : box[t] = "removed" =>
        /\ row[t].suspended # Null /\ row[t].suspended >= row[t].ends + GraceDays
        /\ now >= row[t].suspended + RetentionDays

(* What the documentation says of a conversion: it is never undone.          *)
ConversionStands == [][\A t \in Trials : row[t].converted => row'[t].status = "converted"]_vars

Unsuspended(t) == row[t].status \in {"trial_active", "grace", "suspension_pending"}

(* An expired trial leaves the trial, the grace and the suspension under way *)
(* in the end: it is suspended or converted, through failed stops, backoffs, *)
(* crashes and reactivations.  It is so for the trials that the limit always *)
(* reaches, those with fewer than Limit trials before them                   *)
(* (process_due_lifecycle_tick).                                             *)
ExpiredIsSuspended ==
    \A t \in {t \in Trials : t <= Limit} : (now = MaxTime /\ Unsuspended(t)) ~> ~Unsuspended(t)

(* The same of every trial, which the limit breaks: suspended trials stay in *)
(* the query for ever.                                                       *)
EveryTrialIsSuspended ==
    \A t \in Trials : (now = MaxTime /\ Unsuspended(t)) ~> ~Unsuspended(t)
===============================================================================
