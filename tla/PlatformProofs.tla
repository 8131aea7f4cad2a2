---------------------------- MODULE PlatformProofs ----------------------------
(***************************************************************************)
(* Proofs about the three parts of Quick Deploy that MCPlatform checks     *)
(* side by side, for any number of trials, tabs and modules and any        *)
(* catalogue.  LInv is inductive for the life of deployed trials, PInv for *)
(* the wizard and the deployments, and SInv for what a selection installs; *)
(* none needs a hypothesis on how their steps interleave.                  *)
(***************************************************************************)
EXTENDS MCPlatform, FiniteSetTheorems, FunctionTheorems, SequenceTheorems, WellFoundedInduction, TLAPS

(* The columns of a trial's lifecycle row ...                               *)
RowFields == {"status", "ends", "grace", "suspended", "retention", "backoff", "converted"}

(* ... and what a tick remembers.                                           *)
TickFields == {"at", "todo", "t", "step", "copy"}

(* The steps of a tick that holds a trial.                                  *)
OnTrial == {"process", "stop", "suspend"}

(* Every row has its columns, and the tick and the operator hold trials.    *)
LifeShapes ==
    /\ row = [t \in Lifecycle!Trials |-> row[t]] /\ box = [t \in Lifecycle!Trials |-> box[t]]
    /\ \A t \in Lifecycle!Trials : DOMAIN row[t] = RowFields
    /\ now \in Nat /\ DOMAIN tick = TickFields /\ DOMAIN op = {"kind", "t"}
    /\ tick.at \in 0 .. now /\ tick.todo \subseteq Lifecycle!Trials
    /\ tick.step \in {"idle", "next"} \cup OnTrial
    /\ tick.step \in OnTrial => tick.t \in Lifecycle!Trials
    /\ op.kind \in {"none", "reactivate", "terminate"}
    /\ op.kind # "none" => op.t \in Lifecycle!Trials

(* The time a tick writes: the one it read when it began.                   *)
Clock == IF tick.step = "idle" THEN now ELSE tick.at

(* The deadlines of a trial follow from its end, and what the deadlines     *)
(* gate has waited for them: a suspension for the grace period, the removal *)
(* of the container for the retention.                                      *)
Timely(t) ==
    LET over == row[t].ends + Lifecycle!GraceDays
    IN /\ row[t].ends \in Nat /\ row[t].grace \in {Lifecycle!Null, over}
       /\ row[t].retention # Lifecycle!Null => row[t].suspended # Lifecycle!Null
       /\ row[t].suspended # Lifecycle!Null =>
            /\ row[t].suspended \in Nat /\ row[t].suspended >= over
            /\ row[t].retention = row[t].suspended + Lifecycle!RetentionDays
       /\ row[t].status = "suspension_pending" => Clock >= over
       /\ tick.step # "idle" /\ tick.copy[t] = "suspension_pending" => tick.at >= over
       /\ tick.step \in {"stop", "suspend"} /\ tick.t = t => tick.at >= over
       /\ box[t] = "removed" => /\ row[t].suspended # Lifecycle!Null
                                /\ now >= row[t].suspended + Lifecycle!RetentionDays

(* The part of the invariant that concerns time.                            *)
LTimes == LifeShapes /\ \A t \in Lifecycle!Trials : Timely(t)

(* A customer works in the trial.                                           *)
InUse == {"trial_active", "grace"}

(* The tick has a copy of the trial that it has still to act on.            *)
Pending(t) == tick.step # "idle" /\ (t \in tick.todo \/ (tick.step = "process" /\ t = tick.t))

(* The tick is suspending the trial.                                        *)
Suspending(t) == tick.step \in {"stop", "suspend"} /\ t = tick.t

(* What holds of a trial that no reactivation crossed: only a conversion    *)
(* gets between a copy that lets the tick suspend it and its row, a         *)
(* reactivation has it to itself, a termination finds it suspended, and it  *)
(* has its container while it is in use.                                    *)
Tidy(t) ==
    /\ tick.step \in OnTrial /\ t = tick.t => t \notin tick.todo
    /\ Pending(t) /\ tick.copy[t] \in InUse =>
         row[t].status \in InUse \cup {"converted"} /\ box[t] = "running"
    /\ Pending(t) /\ tick.copy[t] = "suspension_pending" =>
         row[t].status \in {"suspension_pending", "converted"}
    /\ Suspending(t) => row[t].status \in {"suspension_pending", "converted"}
    /\ op.kind = "reactivate" /\ op.t = t =>
         ~Pending(t) /\ ~Suspending(t) /\ box[t] = "running"
    /\ op.kind = "terminate" /\ op.t = t =>
         /\ row[t].status \in {"suspended", "termination_pending"}
         /\ Pending(t) => tick.copy[t] \notin InUse \cup {"suspension_pending"}
         /\ ~Suspending(t)
    /\ row[t].status \in InUse => box[t] = "running"

(* The part that concerns the containers.                                   *)
LTidy == \A t \in Lifecycle!Trials \ crossed : Tidy(t)

(* The inductive invariant of the trials' lives.                            *)
LInv == LTimes /\ LTidy

(* The invariant holds at the start.                                        *)
LEMMA LifecycleBegins ==
    ASSUME Init
    PROVE  LInv
<1>1. Lifecycle!Init
  BY DEF Init
<1>2. LifeShapes
  BY <1>1 DEF Lifecycle!Init, LifeShapes, Lifecycle!NoTick, Lifecycle!NoOp, RowFields, TickFields,
              OnTrial
<1>3. \A t \in Lifecycle!Trials : Timely(t)
  BY <1>1 DEF Lifecycle!Init, Timely, Lifecycle!NoTick, Lifecycle!NoOp, Lifecycle!Null,
              Lifecycle!TrialDays, Lifecycle!GraceDays, Lifecycle!RetentionDays
<1>4. LTidy
  BY <1>1 DEF Lifecycle!Init, LTidy, Tidy, Pending, Suspending, InUse, Lifecycle!NoTick,
              Lifecycle!NoOp, OnTrial
<1> QED
  BY <1>2, <1>3, <1>4 DEF LInv, LTimes

(* The first trial of a batch in the order of ids is one of the batch.      *)
LEMMA SmallestTrial ==
    ASSUME NEW S \in SUBSET Lifecycle!Trials, S # {}
    PROVE  Lifecycle!Least(S) \in S
<1> DEFINE Less == OpToRel(<, Nat)
<1>1. IsWellFoundedOn(Less, Nat)
  BY NatLessThanWellFounded
<1>2. S \subseteq Nat /\ S # {}
  BY DEF Lifecycle!Trials
<1>3. PICK x \in S : \A y \in S : ~ (<<y, x>> \in Less)
  <2> HIDE DEF Less
  <2> QED
    BY <1>1, <1>2, WFMin
<1>4. \A y \in S : x <= y
  <2> TAKE y \in S
  <2>1. ~ (y < x)
    BY <1>2, <1>3 DEF OpToRel
  <2> QED
    BY <1>2, <2>1
<1>5. \E x2 \in S : \A y \in S : x2 <= y
  BY <1>4
<1> QED
  BY <1>5 DEF Lifecycle!Least

(* A tick reads its batch, and moves from trial to trial.                   *)
LEMMA TickWalks ==
    ASSUME LTimes, Lifecycle!process_due_lifecycle_tick \/ Lifecycle!NextTrial
    PROVE  LTimes' /\ (LTidy => LTidy')
<1> USE DEF LTimes, OnTrial
<1>1. CASE Lifecycle!process_due_lifecycle_tick
  <2> USE <1>1 DEF Lifecycle!process_due_lifecycle_tick
  <2>1. tick' = [at |-> now, todo |-> Lifecycle!Batch, t |-> 0, step |-> "next",
                 copy |-> [t \in Lifecycle!Trials |-> row[t].status]]
        /\ tick.step = "idle" /\ UNCHANGED <<row, box, now, op>>
    OBVIOUS
  <2>2. Lifecycle!Batch \subseteq Lifecycle!Trials
    BY DEF Lifecycle!Batch, Lifecycle!Due
  <2>3. LifeShapes'
    BY <2>1, <2>2 DEF LifeShapes, TickFields
  <2>4. \A t \in Lifecycle!Trials : Timely(t)'
    BY <2>1 DEF LifeShapes, Timely, Clock
  <2>5. ASSUME LTidy
        PROVE  LTidy'
    <3>1. crossed' = crossed \cup {t \in Lifecycle!Batch : op.kind = "reactivate" /\ op.t = t}
      OBVIOUS
    <3>2. SUFFICES ASSUME NEW t \in Lifecycle!Trials \ crossed'
                   PROVE  Tidy(t)'
      BY DEF LTidy
    <3>3. Tidy(t)
      BY <2>5, <3>1, <3>2 DEF LTidy
    <3>4. op.kind = "reactivate" /\ op.t = t => t \notin Lifecycle!Batch
      BY <3>1, <3>2
    <3>5. tick'.step = "next" /\ tick'.todo = Lifecycle!Batch /\ tick'.copy[t] = row[t].status
      BY <2>1, <3>2
    <3> QED
      BY <2>1, <3>2, <3>3, <3>4, <3>5 DEF Tidy, Pending, Suspending, InUse
  <2> QED
    BY <2>3, <2>4, <2>5
<1>2. CASE Lifecycle!NextTrial
  <2>0. Lifecycle!NextTrial /\ crossed' = crossed
    BY <1>2 DEF Lifecycle!NextTrial
  <2>1. CASE tick.todo = {}
    <3>0. PICK q : q = Lifecycle!NoTick
      OBVIOUS
    <3>1. tick' = q /\ tick.step = "next" /\ UNCHANGED <<row, box, now, op>>
      BY <2>0, <2>1, <3>0 DEF Lifecycle!NextTrial
    <3>5. /\ DOMAIN q = TickFields /\ q.at = 0 /\ q.todo = {} /\ q.step = "idle"
      BY <3>0 DEF TickFields, Lifecycle!NoTick
    <3>2. LifeShapes'
      BY <3>5, <3>1 DEF LifeShapes
    <3>3. \A t \in Lifecycle!Trials : Timely(t)'
      BY <3>5, <3>1 DEF LifeShapes, Timely, Clock, Lifecycle!GraceDays
    <3>4. LTidy => LTidy'
      BY <2>0, <3>5, <3>1 DEF LTidy, Tidy, Pending, Suspending, InUse
    <3> QED
      BY <3>2, <3>3, <3>4
  <2>2. CASE tick.todo # {}
    <3>1. PICK u : u = Lifecycle!Least(tick.todo)
      OBVIOUS
    <3>2. u \in tick.todo /\ tick.todo \subseteq Lifecycle!Trials
      BY <2>2, <3>1, SmallestTrial DEF LifeShapes
    <3>3. /\ tick' = [tick EXCEPT !.t = u, !.todo = @ \ {u}, !.step = "process"]
          /\ tick.step = "next" /\ UNCHANGED <<row, box, now, op>>
      BY <2>0, <2>2, <3>1 DEF Lifecycle!NextTrial
    <3>4. /\ tick'.t = u /\ tick'.todo = tick.todo \ {u} /\ tick'.step = "process"
          /\ tick'.at = tick.at /\ tick'.copy = tick.copy /\ DOMAIN tick' = TickFields
      BY <3>3 DEF LifeShapes, TickFields
    <3>5. LifeShapes'
      BY <3>2, <3>3, <3>4 DEF LifeShapes
    <3>6. \A t \in Lifecycle!Trials : Timely(t)'
      BY <3>3, <3>4 DEF LifeShapes, Timely, Clock
    <3>7. LTidy => LTidy'
      BY <2>0, <3>2, <3>3, <3>4 DEF LTidy, Tidy, Pending, Suspending, InUse
    <3> QED
      BY <3>5, <3>6, <3>7
  <2> QED
    BY <2>1, <2>2
<1> QED
  BY <1>1, <1>2

(* The statuses a commit makes the session read again.                      *)
Reads == [t \in Lifecycle!Trials |-> row[t].status]

(* A write to one trial leaves the others, and the shape of the tables.     *)
LEMMA TrialWritten ==
    ASSUME LTimes, NEW u \in Lifecycle!Trials, NEW new, row' = [row EXCEPT ![u] = new],
           DOMAIN new = RowFields, NEW b, box' = [box EXCEPT ![u] = b], now' = now
    PROVE  /\ row' = [t \in Lifecycle!Trials |-> row'[t]]
           /\ box' = [t \in Lifecycle!Trials |-> box'[t]]
           /\ \A t \in Lifecycle!Trials : DOMAIN row'[t] = RowFields
           /\ row'[u] = new /\ box'[u] = b
           /\ \A t \in Lifecycle!Trials \ {u} : row'[t] = row[t] /\ box'[t] = box[t]
BY DEF LTimes, LifeShapes

(* A step of the tick on its trial keeps LTimes when the trial stays timely *)
(* ...                                                                      *)
LEMMA TickWrites ==
    ASSUME LTimes, tick.step \in OnTrial, NEW u, u = tick.t,
           NEW new, DOMAIN new = RowFields, row' = [row EXCEPT ![u] = new],
           NEW b, box' = [box EXCEPT ![u] = b], UNCHANGED <<now, op>>,
           NEW q, tick' = q, DOMAIN q = TickFields, q.at = tick.at, q.t = u,
           q.todo = tick.todo, q.step \in {"next", "stop", "suspend"},
           q.copy = tick.copy \/ q.copy = Reads,
           Timely(u)'
    PROVE  LTimes'
<1>1. u \in Lifecycle!Trials
  BY DEF LTimes, LifeShapes
<1>2. /\ row' = [t \in Lifecycle!Trials |-> row'[t]] /\ box' = [t \in Lifecycle!Trials |-> box'[t]]
      /\ \A t \in Lifecycle!Trials : DOMAIN row'[t] = RowFields
      /\ row'[u] = new /\ box'[u] = b
      /\ \A t \in Lifecycle!Trials \ {u} : row'[t] = row[t] /\ box'[t] = box[t]
  BY <1>1, TrialWritten
<1>3. LifeShapes'
  BY <1>1, <1>2 DEF LTimes, LifeShapes, OnTrial
<1>4. \A t \in Lifecycle!Trials \ {u} : Timely(t)'
  BY <1>1, <1>2 DEF LTimes, LifeShapes, Timely, Clock, OnTrial, Reads
<1> QED
  BY <1>3, <1>4 DEF LTimes

(* ... and LTidy when what it writes to a trial that no reactivation crossed *)
(* suits what it does next.                                                 *)
LEMMA TickTidies ==
    ASSUME LTimes, LTidy, tick.step \in OnTrial, NEW u, u = tick.t,
           NEW new, row' = [row EXCEPT ![u] = new], DOMAIN new = RowFields,
           NEW b, box' = [box EXCEPT ![u] = b], UNCHANGED <<now, op, crossed>>,
           NEW q, tick' = q, q.t = u, q.todo = tick.todo, q.step \in {"next", "stop", "suspend"},
           q.copy = tick.copy \/ q.copy = Reads,
           u \notin crossed =>
              /\ q.step # "next" => new.status \in {"suspension_pending", "converted"}
              /\ new.status \in InUse => b = "running"
              /\ op.kind = "terminate" /\ op.t = u =>
                   q.step = "next" /\ new.status \in {"suspended", "termination_pending"}
    PROVE  LTidy'
<1>1. u \in Lifecycle!Trials
  BY DEF LTimes, LifeShapes
<1>2. /\ row'[u] = new /\ box'[u] = b
      /\ \A t \in Lifecycle!Trials \ {u} : row'[t] = row[t] /\ box'[t] = box[t]
  BY <1>1, TrialWritten
<1>3. SUFFICES ASSUME NEW t \in Lifecycle!Trials \ crossed
               PROVE  Tidy(t)'
  BY DEF LTidy
<1>4. Tidy(t) /\ q.step # "process" /\ tick.step # "idle"
  BY <1>3 DEF LTidy, OnTrial
<1>5. CASE t = u
  <2>1. t \notin tick.todo /\ ~(op.kind = "reactivate" /\ op.t = u)
    BY <1>4, <1>5 DEF Tidy, OnTrial, Pending, Suspending
  <2> QED
    BY <1>2, <1>3, <1>4, <1>5, <2>1 DEF Tidy, OnTrial, Pending, Suspending
<1>6. CASE t # u
  <2>1. row'[t] = row[t] /\ box'[t] = box[t] /\ q.copy[t] \in {tick.copy[t], row[t].status}
    BY <1>2, <1>3, <1>6 DEF Reads
  <2>2. ~Suspending(t) /\ ~Suspending(t)' /\ (Pending(t)' <=> t \in tick.todo)
        /\ (Pending(t) <=> t \in tick.todo)
    BY <1>4, <1>6 DEF Suspending, Pending
  <2> QED
    BY <1>3, <1>4, <1>6, <2>1, <2>2 DEF Tidy, InUse
<1> QED
  BY <1>5, <1>6

(* process_trial looks at one trial and moves it along.                     *)
LEMMA ProcessStep ==
    ASSUME LTimes, Lifecycle!process_trial
    PROVE  LTimes' /\ (LTidy => LTidy')
<1>0. PICK u : u = tick.t
  OBVIOUS
<1>1. /\ tick.step = "process" /\ tick.step \in OnTrial /\ u \in Lifecycle!Trials
      /\ UNCHANGED <<box, now, op, crossed>> /\ DOMAIN row[u] = RowFields /\ u \in DOMAIN row
      /\ box = [box EXCEPT ![u] = box[u]] /\ row = [row EXCEPT ![u] = row[u]]
      /\ DOMAIN tick = TickFields /\ Timely(u)
  BY <1>0 DEF Lifecycle!process_trial, LTimes, LifeShapes, OnTrial
<1>2. PICK s \in {"next", "stop"} : tick' = [tick EXCEPT !.step = s]
  BY DEF Lifecycle!process_trial, Lifecycle!enter_grace, Lifecycle!request_suspension,
         Lifecycle!RetrySuspension, Lifecycle!AutoRequestTermination, Lifecycle!NothingDue
<1>3. PICK q : q = [tick EXCEPT !.step = s]
  OBVIOUS
<1>4. /\ tick' = q /\ DOMAIN q = TickFields /\ q.at = tick.at /\ q.t = u /\ q.todo = tick.todo
      /\ q.step = s /\ q.copy = tick.copy
  BY <1>0, <1>1, <1>2, <1>3 DEF TickFields
<1>5. SUFFICES ASSUME NEW new, DOMAIN new = RowFields, row' = [row EXCEPT ![u] = new],
                      new.ends = row[u].ends, new.suspended = row[u].suspended,
                      new.retention = row[u].retention, new.converted = row[u].converted,
                      new.grace \in {row[u].grace, row[u].ends + Lifecycle!GraceDays},
                      new.status = "suspension_pending" =>
                         \/ row[u].status = "suspension_pending"
                         \/ tick.at >= row[u].ends + Lifecycle!GraceDays,
                      s = "stop" => tick.at >= row[u].ends + Lifecycle!GraceDays,
                      s = "stop" => \/ tick.copy[u] \in InUse /\ new.status = "suspension_pending"
                                    \/ tick.copy[u] = "suspension_pending" /\ new = row[u],
                      s = "next" => \/ tick.copy[u] = "trial_active"
                                    \/ tick.copy[u] = "suspended" /\ new.status = "termination_pending"
                                    \/ new = row[u]
               PROVE  LTimes' /\ (LTidy => LTidy')
  <2>1. CASE Lifecycle!enter_grace
    <3> DEFINE new == [row[u] EXCEPT !.status = "grace",
                         !.grace = IF @ = Lifecycle!Null THEN row[u].ends + Lifecycle!GraceDays ELSE @]
    <3>1. /\ DOMAIN new = RowFields /\ new.ends = row[u].ends /\ new.status = "grace"
          /\ new.grace \in {row[u].grace, row[u].ends + Lifecycle!GraceDays}
          /\ new.suspended = row[u].suspended /\ new.retention = row[u].retention
          /\ new.converted = row[u].converted
      BY <1>1 DEF RowFields
    <3>2. row' = [row EXCEPT ![u] = new]
      BY <1>0, <1>1, <2>1 DEF Lifecycle!enter_grace, Lifecycle!Row
    <3>3. tick.copy[u] = "trial_active" /\ s = "next"
      BY <1>0, <1>1, <1>3, <1>4, <2>1 DEF Lifecycle!enter_grace, Lifecycle!Status, TickFields
    <3> HIDE DEF new
    <3> QED
      BY <3>1, <3>2, <3>3, <1>5
  <2>2. CASE Lifecycle!request_suspension
    <3> DEFINE new == [row[u] EXCEPT !.status = "suspension_pending"]
    <3>1. /\ DOMAIN new = RowFields /\ new.ends = row[u].ends /\ new.status = "suspension_pending"
          /\ new.grace = row[u].grace /\ new.suspended = row[u].suspended
          /\ new.retention = row[u].retention /\ new.converted = row[u].converted
      BY <1>1 DEF RowFields
    <3>2. row' = [row EXCEPT ![u] = new]
      BY <1>0, <1>1, <2>2 DEF Lifecycle!request_suspension
    <3>3. /\ tick.copy[u] = "grace" /\ row[u].grace # Lifecycle!Null
          /\ tick.at >= row[u].ends + Lifecycle!GraceDays
      BY <1>0, <1>1, <2>2 DEF Lifecycle!request_suspension, Lifecycle!Status, Lifecycle!Row, Timely
    <3>4. s = "stop"
      BY <1>1, <1>3, <1>4, <2>2 DEF Lifecycle!request_suspension, TickFields
    <3> HIDE DEF new
    <3> QED
      BY <3>1, <3>2, <3>3, <3>4, <1>5 DEF InUse
  <2>3. CASE Lifecycle!RetrySuspension
    <3>1. tick.copy[u] = "suspension_pending" /\ row' = row
      BY <1>0, <2>3 DEF Lifecycle!RetrySuspension, Lifecycle!Status
    <3>2. tick.at >= row[u].ends + Lifecycle!GraceDays
      BY <1>1, <3>1 DEF Timely
    <3> QED
      BY <1>1, <3>1, <3>2, <1>5
  <2>4. CASE Lifecycle!AutoRequestTermination
    <3> DEFINE new == [row[u] EXCEPT !.status = "termination_pending"]
    <3>1. /\ DOMAIN new = RowFields /\ new.ends = row[u].ends /\ new.status = "termination_pending"
          /\ new.grace = row[u].grace /\ new.suspended = row[u].suspended
          /\ new.retention = row[u].retention /\ new.converted = row[u].converted
      BY <1>1 DEF RowFields
    <3>2. row' = [row EXCEPT ![u] = new]
      BY <1>0, <1>1, <2>4 DEF Lifecycle!AutoRequestTermination
    <3>3. tick.copy[u] = "suspended" /\ s = "next"
      BY <1>0, <1>1, <1>3, <1>4, <2>4 DEF Lifecycle!AutoRequestTermination, Lifecycle!Status, TickFields
    <3> HIDE DEF new
    <3> QED
      BY <3>1, <3>2, <3>3, <1>5
  <2>5. CASE Lifecycle!NothingDue
    <3>1. row' = row /\ s = "next"
      BY <1>1, <1>3, <1>4, <2>5 DEF Lifecycle!NothingDue, TickFields
    <3> QED
      BY <1>1, <3>1, <1>5
  <2> QED
    BY <2>1, <2>2, <2>3, <2>4, <2>5 DEF Lifecycle!process_trial
<1>6. row'[u] = new /\ box'[u] = box[u]
  BY <1>1, <1>5, TrialWritten
<1>7. Timely(u)'
  BY <1>1, <1>4, <1>5, <1>6 DEF Timely, Clock
<1>8. LTimes'
  BY <1>0, <1>1, <1>2, <1>4, <1>5, <1>7, TickWrites
<1>9. ASSUME LTidy
      PROVE  LTidy'
  <2>1. ASSUME u \notin crossed
        PROVE  /\ q.step # "next" => new.status \in {"suspension_pending", "converted"}
               /\ new.status \in InUse => box[u] = "running"
               /\ op.kind = "terminate" /\ op.t = u =>
                    q.step = "next" /\ new.status \in {"suspended", "termination_pending"}
    <3>1. Tidy(u) /\ Pending(u)
      BY <1>0, <1>1, <1>9, <2>1 DEF LTidy, Pending
    <3> QED
      BY <1>2, <1>4, <1>5, <3>1 DEF Tidy, InUse
  <2>5. q.step \in {"next", "stop", "suspend"}
    BY <1>2, <1>4
  <2>6. /\ box' = [box EXCEPT ![u] = box[u]] /\ UNCHANGED <<now, op, crossed>> /\ tick.step \in OnTrial
        /\ tick' = q /\ q.t = u /\ q.todo = tick.todo /\ q.copy = tick.copy
        /\ u = tick.t /\ LTimes /\ LTidy
        /\ row' = [row EXCEPT ![u] = new] /\ DOMAIN new = RowFields
    BY <1>0, <1>1, <1>4, <1>5, <1>9
  <2> HIDE <1>0
  <2> QED
    BY <2>1, <2>5, <2>6, TickTidies
<1> QED
  BY <1>8, <1>9

(* The steps that suspend a trial: stopping its container, failing to, and  *)
(* the commit.                                                              *)
Stops(u, new, b, q) ==
    /\ DOMAIN new = RowFields /\ row' = [row EXCEPT ![u] = new]
    /\ box' = [box EXCEPT ![u] = b] /\ (b = "removed" => box[u] = "removed")
    /\ tick' = q /\ DOMAIN q = TickFields /\ q.at = tick.at /\ q.t = u
    /\ q.todo = tick.todo /\ q.step \in {"next", "suspend"}
    /\ q.copy = tick.copy \/ q.copy = Reads
    /\ new.ends = row[u].ends /\ new.grace = row[u].grace
    /\ \/ new.suspended = row[u].suspended /\ new.retention = row[u].retention
       \/ /\ row[u].suspended = Lifecycle!Null /\ row[u].retention = Lifecycle!Null
          /\ new.suspended = tick.at /\ new.retention = tick.at + Lifecycle!RetentionDays
    /\ new.status \in {"suspended", row[u].status} /\ new.converted = row[u].converted
    /\ q.step # "next" => new.status = row[u].status

(* A suspension writes its deadlines once.                                  *)
LEMMA StopStep ==
    ASSUME LTimes, Lifecycle!StopContainer \/ Lifecycle!StopFails \/ Lifecycle!complete_suspension
    PROVE  LTimes' /\ (LTidy => LTidy')
<1>0. PICK u : u = tick.t
  OBVIOUS
<1>1. /\ tick.step \in {"stop", "suspend"} /\ tick.step \in OnTrial /\ u \in Lifecycle!Trials
      /\ UNCHANGED <<now, op, crossed>> /\ DOMAIN row[u] = RowFields /\ u \in DOMAIN row
      /\ u \in DOMAIN box
      /\ row = [row EXCEPT ![u] = row[u]] /\ box = [box EXCEPT ![u] = box[u]]
      /\ DOMAIN tick = TickFields /\ Timely(u)
  BY <1>0 DEF Lifecycle!StopContainer, Lifecycle!StopFails, Lifecycle!complete_suspension,
              LTimes, LifeShapes, OnTrial
<1>2. SUFFICES ASSUME NEW new, NEW b, NEW q, Stops(u, new, b, q)
        PROVE  LTimes' /\ (LTidy => LTidy')
  <2>1. CASE Lifecycle!StopContainer
    <3> DEFINE b == IF box[u] = "running" THEN "stopped" ELSE box[u]
               q == [tick EXCEPT !.step = "suspend"]
    <3>1. /\ DOMAIN q = TickFields /\ q.at = tick.at /\ q.t = u /\ q.todo = tick.todo
          /\ q.step = "suspend" /\ q.copy = tick.copy
      BY <1>0, <1>1 DEF TickFields
    <3>2. tick' = q /\ row' = row /\ box' = [box EXCEPT ![u] = b]
      BY <1>0, <1>1, <2>1 DEF Lifecycle!StopContainer
    <3>3. b = "removed" => box[u] = "removed"
      OBVIOUS
    <3> HIDE DEF b, q
    <3>20. Stops(u, row[u], b, q)
      BY <1>1, <3>1, <3>2, <3>3 DEF Stops
    <3> QED
      BY <3>20, <1>2
  <2>2. CASE Lifecycle!StopFails
    <3>1. PICK retry \in BOOLEAN : row' = [row EXCEPT ![u].backoff = @ \/ retry]
      BY <1>0, <2>2 DEF Lifecycle!StopFails
    <3> DEFINE new == [row[u] EXCEPT !.backoff = @ \/ retry]
               q == [tick EXCEPT !.step = "next",
                                 !.copy = Reads]
    <3>2. /\ DOMAIN q = TickFields /\ q.at = tick.at /\ q.t = u /\ q.todo = tick.todo
          /\ q.step = "next" /\ q.copy = Reads
      BY <1>0, <1>1 DEF TickFields
    <3>3. /\ DOMAIN new = RowFields /\ new.ends = row[u].ends /\ new.status = row[u].status
          /\ new.grace = row[u].grace /\ new.suspended = row[u].suspended
          /\ new.retention = row[u].retention /\ new.converted = row[u].converted
      BY <1>1 DEF RowFields
    <3>4. tick' = q /\ row' = [row EXCEPT ![u] = new] /\ box' = box
      BY <1>0, <1>1, <2>2, <3>1 DEF Lifecycle!StopFails, Reads
    <3> HIDE DEF new, q
    <3>20. Stops(u, new, box[u], q)
      BY <1>1, <3>2, <3>3, <3>4 DEF Stops
    <3> QED
      BY <3>20, <1>2
  <2>3. CASE Lifecycle!complete_suspension
    <3> DEFINE new == [row[u] EXCEPT !.status = "suspended", !.backoff = FALSE,
                         !.suspended = IF @ = Lifecycle!Null THEN tick.at ELSE @,
                         !.retention = IF @ = Lifecycle!Null
                                       THEN tick.at + Lifecycle!RetentionDays ELSE @]
               q == [tick EXCEPT !.step = "next"]
    <3>1. /\ DOMAIN q = TickFields /\ q.at = tick.at /\ q.t = u /\ q.todo = tick.todo
          /\ q.step = "next" /\ q.copy = tick.copy
      BY <1>0, <1>1 DEF TickFields
    <3>2. /\ DOMAIN new = RowFields /\ new.ends = row[u].ends /\ new.status = "suspended"
          /\ new.grace = row[u].grace /\ new.converted = row[u].converted
          /\ new.suspended = IF row[u].suspended = Lifecycle!Null THEN tick.at ELSE row[u].suspended
          /\ new.retention = IF row[u].retention = Lifecycle!Null
                             THEN tick.at + Lifecycle!RetentionDays ELSE row[u].retention
      BY <1>1 DEF RowFields
    <3>3. \/ new.suspended = row[u].suspended /\ new.retention = row[u].retention
          \/ /\ row[u].suspended = Lifecycle!Null /\ row[u].retention = Lifecycle!Null
             /\ new.suspended = tick.at /\ new.retention = tick.at + Lifecycle!RetentionDays
      BY <1>1, <3>2 DEF Timely, Lifecycle!Null, Lifecycle!RetentionDays
    <3>5. row' = [row EXCEPT ![u].status = "suspended", ![u].backoff = FALSE,
                    ![u].suspended = IF @ = Lifecycle!Null THEN tick.at ELSE @,
                    ![u].retention = IF @ = Lifecycle!Null
                                     THEN tick.at + Lifecycle!RetentionDays ELSE @]
      BY <1>0, <2>3 DEF Lifecycle!complete_suspension
    <3>6. /\ DOMAIN row' = DOMAIN row /\ \A t \in DOMAIN row \ {u} : row'[t] = row[t]
          /\ row' = [t \in DOMAIN row |-> row'[t]]
      BY <1>1, <3>5
    <3>7. /\ DOMAIN row'[u] = RowFields /\ row'[u].status = "suspended" /\ row'[u].backoff = FALSE
          /\ row'[u].ends = row[u].ends /\ row'[u].grace = row[u].grace
          /\ row'[u].converted = row[u].converted
      BY <1>1, <3>5 DEF RowFields
    <3>8. /\ row'[u].suspended = new.suspended /\ row'[u].retention = new.retention
      BY <1>1, <3>5, <3>2 DEF RowFields
    <3>9. row' = [row EXCEPT ![u] = row'[u]]
      BY <1>1, <3>6
    <3>4. tick' = q /\ row' = [row EXCEPT ![u] = row'[u]] /\ box' = box
      BY <2>3, <3>9 DEF Lifecycle!complete_suspension
    <3> HIDE DEF new, q
    <3>10. PICK x : x = row'[u]
      OBVIOUS
    <3>11. /\ DOMAIN x = RowFields /\ x.ends = row[u].ends /\ x.status = "suspended"
           /\ x.grace = row[u].grace /\ x.converted = row[u].converted
           /\ \/ x.suspended = row[u].suspended /\ x.retention = row[u].retention
              \/ /\ row[u].suspended = Lifecycle!Null /\ row[u].retention = Lifecycle!Null
                 /\ x.suspended = tick.at /\ x.retention = tick.at + Lifecycle!RetentionDays
           /\ row' = [row EXCEPT ![u] = x]
      BY <3>3, <3>7, <3>8, <3>9, <3>10
    <3>20. Stops(u, x, box[u], q)
      BY <1>1, <3>1, <3>4, <3>11 DEF Stops
    <3> QED
      BY <3>20, <1>2
  <2> QED
    BY <2>1, <2>2, <2>3
<1>3. row'[u] = new /\ box'[u] = b
  BY <1>1, <1>2, TrialWritten DEF Stops
<1>4. tick.at >= row[u].ends + Lifecycle!GraceDays /\ tick.at \in Nat /\ now \in Nat
  BY <1>0, <1>1 DEF Timely, LTimes, LifeShapes
<1>5. Timely(u)'
  BY <1>1, <1>2, <1>3, <1>4 DEF Stops, Timely, Clock, Lifecycle!Null, Lifecycle!GraceDays
<1>6. LTimes'
  BY <1>0, <1>1, <1>2, <1>5, TickWrites DEF Stops
<1>7. ASSUME LTidy
      PROVE  LTidy'
  <2>1. ASSUME u \notin crossed
        PROVE  /\ q.step # "next" => new.status \in {"suspension_pending", "converted"}
               /\ new.status \in InUse => b = "running"
               /\ op.kind = "terminate" /\ op.t = u =>
                    q.step = "next" /\ new.status \in {"suspended", "termination_pending"}
    <3>1. Tidy(u) /\ Suspending(u)
      BY <1>0, <1>1, <1>7, <2>1 DEF LTidy, Suspending
    <3> QED
      BY <1>2, <3>1 DEF Tidy, InUse, Stops
  <2>5. q.step \in {"next", "stop", "suspend"}
    BY <1>2 DEF Stops
  <2>6. /\ UNCHANGED <<now, op, crossed>> /\ tick.step \in OnTrial /\ u = tick.t
        /\ tick' = q /\ q.t = u /\ q.todo = tick.todo
        /\ row' = [row EXCEPT ![u] = new] /\ DOMAIN new = RowFields
        /\ box' = [box EXCEPT ![u] = b]
        /\ q.copy = tick.copy \/ q.copy = Reads
        /\ LTimes /\ LTidy
    BY <1>0, <1>1, <1>2, <1>7 DEF Stops
  <2> QED
    BY <2>1, <2>5, <2>6, TickTidies
<1> QED
  BY <1>6, <1>7

(* A step of an operation keeps LTimes when it leaves the deadlines and     *)
(* removes a container only after the retention.                            *)
LEMMA OperatorWrites ==
    ASSUME LTimes, NEW u \in Lifecycle!Trials,
           NEW new, DOMAIN new = RowFields, row' = [row EXCEPT ![u] = new],
           NEW b, box' = [box EXCEPT ![u] = b], now' = now, tick' = tick,
           DOMAIN op' = {"kind", "t"}, op'.kind \in {"none", "reactivate", "terminate"},
           op'.kind # "none" => op'.t \in Lifecycle!Trials,
           new.ends = row[u].ends, new.grace = row[u].grace,
           new.suspended = row[u].suspended, new.retention = row[u].retention,
           new.status = row[u].status \/ new.status # "suspension_pending",
           b = "removed" => \/ box[u] = "removed"
                            \/ row[u].retention # Lifecycle!Null /\ now >= row[u].retention
    PROVE  LTimes'
<1>1. /\ row' = [t \in Lifecycle!Trials |-> row'[t]] /\ box' = [t \in Lifecycle!Trials |-> box'[t]]
      /\ \A t \in Lifecycle!Trials : DOMAIN row'[t] = RowFields
      /\ row'[u] = new /\ box'[u] = b
      /\ \A t \in Lifecycle!Trials \ {u} : row'[t] = row[t] /\ box'[t] = box[t]
  BY TrialWritten
<1>2. LifeShapes'
  BY <1>1 DEF LTimes, LifeShapes, OnTrial
<1>3. \A t \in Lifecycle!Trials \ {u} : Timely(t)'
  BY <1>1 DEF LTimes, Timely, Clock
<1>4. Timely(u)'
  BY <1>1 DEF LTimes, Timely, Clock
<1> QED
  BY <1>2, <1>3, <1>4 DEF LTimes

(* What a step of an operation may write for LTimes ...                     *)
Writes(u, new, b) ==
    /\ u \in Lifecycle!Trials /\ tick' = tick /\ now' = now
    /\ DOMAIN new = RowFields /\ row' = [row EXCEPT ![u] = new]
    /\ box' = [box EXCEPT ![u] = b]
    /\ DOMAIN op' = {"kind", "t"} /\ op'.kind \in {"none", "reactivate", "terminate"}
    /\ op'.kind # "none" => op'.t \in Lifecycle!Trials
    /\ new.ends = row[u].ends /\ new.grace = row[u].grace
    /\ new.suspended = row[u].suspended /\ new.retention = row[u].retention
    /\ new.status = row[u].status \/ new.status # "suspension_pending"
    /\ b = "removed" => \/ box[u] = "removed"
                        \/ row[u].retention # Lifecycle!Null /\ now >= row[u].retention

(* ... and for LTidy.                                                       *)
Suits(u) ==
    /\ op.kind = "none" \/ op.t = u
    /\ op'.kind # "none" => op'.t = u
    /\ crossed' \subseteq crossed \cup {u} /\ crossed \subseteq crossed' \cup {u}
    /\ u \notin crossed' => Tidy(u)'

(* A step of an operation keeps the invariant.                              *)
LEMMA OperatorDoes ==
    ASSUME LTimes, NEW u, NEW new, NEW b, Writes(u, new, b)
    PROVE  /\ LTimes'
           /\ LTidy /\ Suits(u) => LTidy'
<1>1. LTimes'
  BY OperatorWrites DEF Writes
<1>2. /\ u \in Lifecycle!Trials /\ row'[u] = new /\ box'[u] = b
      /\ \A t \in Lifecycle!Trials \ {u} : row'[t] = row[t] /\ box'[t] = box[t]
  BY TrialWritten DEF Writes
<1>3. ASSUME LTidy, Suits(u)
      PROVE  LTidy'
  <2> SUFFICES ASSUME NEW t \in Lifecycle!Trials \ crossed', t # u
               PROVE  Tidy(t)'
    BY <1>3 DEF LTidy, Suits
  <2>1. Tidy(t) /\ row'[t] = row[t] /\ box'[t] = box[t] /\ tick' = tick
    BY <1>2, <1>3 DEF LTidy, Suits, Writes
  <2>2. ~(op'.kind = "reactivate" /\ op'.t = t) /\ ~(op'.kind = "terminate" /\ op'.t = t)
    BY <1>3 DEF Suits
  <2> QED
    BY <2>1, <2>2 DEF Tidy, Pending, Suspending
<1> QED
  BY <1>1, <1>3

(* What an operation writes, read from its tables.                          *)
LEMMA OperatorReads ==
    ASSUME LTimes, NEW u, NEW new, NEW b, Writes(u, new, b)
    PROVE  row'[u] = new /\ box'[u] = b /\ tick' = tick /\ u \in Lifecycle!Trials
BY TrialWritten DEF Writes

(* The steps that begin an operation, or are one.                           *)
LEMMA OperatorStarts ==
    ASSUME LTimes, NEW t \in Lifecycle!Trials,
           \/ Lifecycle!StartContainer(t) \/ Lifecycle!convert_trial_to_subscription(t)
           \/ Lifecycle!request_termination(t) \/ Lifecycle!cancel_termination(t)
           \/ Lifecycle!DestroyRuntime(t)
    PROVE  LTimes' /\ (LTidy => LTidy')
<1>1. /\ DOMAIN row[t] = RowFields /\ t \in DOMAIN row /\ t \in DOMAIN box
      /\ row = [row EXCEPT ![t] = row[t]] /\ box = [box EXCEPT ![t] = box[t]]
      /\ DOMAIN op = {"kind", "t"}
      /\ DOMAIN Lifecycle!NoOp = {"kind", "t"} /\ Lifecycle!NoOp.kind = "none"
  BY DEF LTimes, LifeShapes, Lifecycle!NoOp
<1>2. /\ op = Lifecycle!NoOp /\ op.kind = "none" /\ UNCHANGED <<tick, now>>
      /\ LTidy => t \in crossed \/ Tidy(t)
  BY <1>1 DEF Lifecycle!StartContainer, Lifecycle!convert_trial_to_subscription,
         Lifecycle!request_termination, Lifecycle!cancel_termination,
         Lifecycle!DestroyRuntime, Lifecycle!OperatorMayAct, LTidy
<1>3. SUFFICES ASSUME NEW new, NEW b, Writes(t, new, b), LTidy => Suits(t)
               PROVE  LTimes' /\ (LTidy => LTidy')
  <2>1. CASE Lifecycle!StartContainer(t)
    <3>1. /\ row' = row /\ box' = [box EXCEPT ![t] = "running"]
          /\ op' = [kind |-> "reactivate", t |-> t]
          /\ row[t].status \in {"suspended", "suspension_pending"}
      BY <2>1 DEF Lifecycle!StartContainer
    <3>2. Writes(t, row[t], "running")
      BY <1>1, <1>2, <3>1 DEF Writes
    <3>3. LTidy => Suits(t)
      <4>1. crossed' = IF Lifecycle!Held(t) THEN crossed \cup {t} ELSE crossed \ {t}
        BY <2>1 DEF Lifecycle!StartContainer
      <4>2. t \notin crossed' => ~Pending(t) /\ ~Suspending(t) /\ ~(tick.step \in OnTrial /\ t = tick.t)
        BY <4>1 DEF Lifecycle!Held, Pending, Suspending, OnTrial
      <4>3. row'[t] = row[t] /\ box'[t] = "running" /\ tick' = tick
        BY <3>2, OperatorReads
      <4>4. t \notin crossed' => Tidy(t)'
        BY <3>1, <4>2, <4>3 DEF Tidy, Pending, Suspending, InUse
      <4> QED
        BY <1>2, <3>1, <4>1, <4>4 DEF Suits
    <3> QED
      BY <1>3, <3>2, <3>3
  <2>2. CASE Lifecycle!convert_trial_to_subscription(t)
    <3> DEFINE new == [row[t] EXCEPT !.status = "converted", !.converted = TRUE]
    <3>1. /\ DOMAIN new = RowFields /\ new.ends = row[t].ends /\ new.status = "converted"
          /\ new.grace = row[t].grace /\ new.suspended = row[t].suspended
          /\ new.retention = row[t].retention
      BY <1>1 DEF RowFields
    <3>2. row' = [row EXCEPT ![t] = new] /\ box' = box /\ op' = op
      BY <1>1, <2>2 DEF Lifecycle!convert_trial_to_subscription
    <3> HIDE DEF new
    <3>3. Writes(t, new, box[t])
      BY <1>1, <1>2, <3>1, <3>2 DEF Writes
    <3>4. LTidy => Suits(t)
      <4>1. row'[t] = new /\ box'[t] = box[t] /\ tick' = tick /\ crossed' = crossed
        BY <3>3, <2>2, OperatorReads DEF Lifecycle!convert_trial_to_subscription
      <4> QED
        BY <1>2, <3>1, <3>2, <4>1 DEF Suits, Tidy, Pending, Suspending, InUse
    <3> QED
      BY <1>3, <3>3, <3>4
  <2>3. CASE Lifecycle!request_termination(t)
    <3> DEFINE new == [row[t] EXCEPT !.status = "termination_pending"]
    <3>1. /\ DOMAIN new = RowFields /\ new.ends = row[t].ends /\ new.status = "termination_pending"
          /\ new.grace = row[t].grace /\ new.suspended = row[t].suspended
          /\ new.retention = row[t].retention /\ new.converted = row[t].converted
      BY <1>1 DEF RowFields
    <3>2. row' = [row EXCEPT ![t] = new] /\ box' = box /\ op' = op /\ row[t].status = "suspended"
      BY <1>1, <2>3 DEF Lifecycle!request_termination
    <3> HIDE DEF new
    <3>3. Writes(t, new, box[t])
      BY <1>1, <1>2, <3>1, <3>2 DEF Writes
    <3>4. LTidy => Suits(t)
      <4>1. row'[t] = new /\ box'[t] = box[t] /\ tick' = tick /\ crossed' = crossed
        BY <3>3, <2>3, OperatorReads DEF Lifecycle!request_termination
      <4> QED
        BY <1>2, <3>1, <3>2, <4>1 DEF Suits, Tidy, Pending, Suspending, InUse
    <3> QED
      BY <1>3, <3>3, <3>4
  <2>4. CASE Lifecycle!cancel_termination(t)
    <3> DEFINE new == [row[t] EXCEPT !.status = "suspended"]
    <3>1. /\ DOMAIN new = RowFields /\ new.ends = row[t].ends /\ new.status = "suspended"
          /\ new.grace = row[t].grace /\ new.suspended = row[t].suspended
          /\ new.retention = row[t].retention /\ new.converted = row[t].converted
      BY <1>1 DEF RowFields
    <3>2. /\ row' = [row EXCEPT ![t] = new] /\ box' = box /\ op' = op
          /\ row[t].status = "termination_pending"
      BY <1>1, <2>4 DEF Lifecycle!cancel_termination
    <3> HIDE DEF new
    <3>3. Writes(t, new, box[t])
      BY <1>1, <1>2, <3>1, <3>2 DEF Writes
    <3>4. LTidy => Suits(t)
      <4>1. row'[t] = new /\ box'[t] = box[t] /\ tick' = tick /\ crossed' = crossed
        BY <3>3, <2>4, OperatorReads DEF Lifecycle!cancel_termination
      <4> QED
        BY <1>2, <3>1, <3>2, <4>1 DEF Suits, Tidy, Pending, Suspending, InUse
    <3> QED
      BY <1>3, <3>3, <3>4
  <2>5. CASE Lifecycle!DestroyRuntime(t)
    <3>1. /\ row' = row /\ box' = [box EXCEPT ![t] = "removed"]
          /\ op' = [kind |-> "terminate", t |-> t]
          /\ row[t].status = "termination_pending"
          /\ row[t].retention # Lifecycle!Null /\ now >= row[t].retention
      BY <2>5 DEF Lifecycle!DestroyRuntime
    <3>2. Writes(t, row[t], "removed")
      BY <1>1, <1>2, <3>1 DEF Writes
    <3>3. LTidy => Suits(t)
      <4>1. row'[t] = row[t] /\ box'[t] = "removed" /\ tick' = tick /\ crossed' = crossed
        BY <2>5, <3>2, OperatorReads DEF Lifecycle!DestroyRuntime
      <4> QED
        BY <1>2, <3>1, <4>1 DEF Suits, Tidy, Pending, Suspending, InUse
    <3> QED
      BY <1>3, <3>2, <3>3
  <2> QED
    BY <2>1, <2>2, <2>3, <2>4, <2>5
<1> QED
  BY <1>2, <1>3, OperatorDoes

(* The steps that end an operation.                                         *)
LEMMA OperatorEnds ==
    ASSUME LTimes, Lifecycle!EndOp
    PROVE  LTimes' /\ (LTidy => LTidy')
<1>0. PICK t : t = op.t
  OBVIOUS
<1>1. /\ op.kind # "none" /\ UNCHANGED <<box, tick, now, crossed>> /\ op' = Lifecycle!NoOp
      /\ DOMAIN Lifecycle!NoOp = {"kind", "t"} /\ Lifecycle!NoOp.kind = "none"
  BY DEF Lifecycle!EndOp, Lifecycle!NotHealthy, Lifecycle!reactivate_trial,
         Lifecycle!execute_termination, Lifecycle!NoOp
<1>2. /\ t \in Lifecycle!Trials /\ DOMAIN row[t] = RowFields /\ t \in DOMAIN row
      /\ box = [box EXCEPT ![t] = box[t]]
      /\ LTidy => t \in crossed \/ Tidy(t)
  BY <1>0, <1>1 DEF LTimes, LifeShapes, LTidy
<1>3. SUFFICES ASSUME NEW new, Writes(t, new, box[t]), LTidy => Suits(t)
               PROVE  LTimes' /\ (LTidy => LTidy')
  <2>1. CASE Lifecycle!NotHealthy
    <3> DEFINE new == [row[t] EXCEPT !.backoff = TRUE]
    <3>1. /\ DOMAIN new = RowFields /\ new.ends = row[t].ends /\ new.status = row[t].status
          /\ new.grace = row[t].grace /\ new.suspended = row[t].suspended
          /\ new.retention = row[t].retention /\ new.converted = row[t].converted
      BY <1>2 DEF RowFields
    <3>2. row' = [row EXCEPT ![t] = new]
      BY <1>0, <1>2, <2>1 DEF Lifecycle!NotHealthy
    <3> HIDE DEF new
    <3>3. Writes(t, new, box[t])
      BY <1>1, <1>2, <3>1, <3>2 DEF Writes
    <3>4. LTidy => Suits(t)
      <4>1. row'[t] = new /\ box'[t] = box[t] /\ tick' = tick
        BY <3>3, OperatorReads
      <4> QED
        BY <1>0, <1>1, <1>2, <3>1, <3>2, <4>1 DEF Suits, Tidy, Pending, Suspending, InUse
    <3> QED
      BY <1>3, <3>3, <3>4
  <2>2. CASE Lifecycle!reactivate_trial
    <3> DEFINE new == [row[t] EXCEPT !.status = "trial_active", !.backoff = FALSE]
    <3>1. /\ DOMAIN new = RowFields /\ new.ends = row[t].ends /\ new.status = "trial_active"
          /\ new.grace = row[t].grace /\ new.suspended = row[t].suspended
          /\ new.retention = row[t].retention /\ new.converted = row[t].converted
      BY <1>2 DEF RowFields
    <3>2. row' = [row EXCEPT ![t] = new] /\ op.kind = "reactivate"
      BY <1>0, <1>2, <2>2 DEF Lifecycle!reactivate_trial
    <3> HIDE DEF new
    <3>3. Writes(t, new, box[t])
      BY <1>1, <1>2, <3>1, <3>2 DEF Writes
    <3>4. LTidy => Suits(t)
      <4>1. row'[t] = new /\ box'[t] = box[t] /\ tick' = tick
        BY <3>3, OperatorReads
      <4> QED
        BY <1>0, <1>1, <1>2, <3>1, <3>2, <4>1 DEF Suits, Tidy, Pending, Suspending, InUse
    <3> QED
      BY <1>3, <3>3, <3>4
  <2>3. CASE Lifecycle!execute_termination
    <3> DEFINE new == [row[t] EXCEPT !.status = "terminated"]
    <3>1. /\ DOMAIN new = RowFields /\ new.ends = row[t].ends /\ new.status = "terminated"
          /\ new.grace = row[t].grace /\ new.suspended = row[t].suspended
          /\ new.retention = row[t].retention /\ new.converted = row[t].converted
      BY <1>2 DEF RowFields
    <3>2. row' = [row EXCEPT ![t] = new] /\ op.kind = "terminate"
      BY <1>0, <1>2, <2>3 DEF Lifecycle!execute_termination
    <3> HIDE DEF new
    <3>3. Writes(t, new, box[t])
      BY <1>1, <1>2, <3>1, <3>2 DEF Writes
    <3>4. LTidy => Suits(t)
      <4>1. row'[t] = new /\ box'[t] = box[t] /\ tick' = tick
        BY <3>3, OperatorReads
      <4> QED
        BY <1>0, <1>1, <1>2, <3>1, <3>2, <4>1 DEF Suits, Tidy, Pending, Suspending, InUse
    <3> QED
      BY <1>3, <3>3, <3>4
  <2> QED
    BY <2>1, <2>2, <2>3 DEF Lifecycle!EndOp
<1> QED
  BY <1>2, <1>3, OperatorDoes

(* A day passes.                                                            *)
LEMMA DayStep ==
    ASSUME LTimes, Lifecycle!DayPasses
    PROVE  LTimes' /\ (LTidy => LTidy')
<1>1. now' = now + 1 /\ UNCHANGED <<row, box, tick, op, crossed>>
  BY DEF Lifecycle!DayPasses
<1>2. LifeShapes'
  BY <1>1 DEF LTimes, LifeShapes, OnTrial
<1>3. \A u \in Lifecycle!Trials : Timely(u)'
  BY <1>1 DEF LTimes, LifeShapes, Timely, Clock, Lifecycle!Null, Lifecycle!GraceDays,
              Lifecycle!RetentionDays
<1> QED
  BY <1>1, <1>2, <1>3 DEF LTimes, LTidy, Tidy, Pending, Suspending

(* A back-off that runs out changes no deadline.                            *)
LEMMA BackoffStep ==
    ASSUME LTimes, NEW t \in Lifecycle!Trials, Lifecycle!BackoffEnds(t)
    PROVE  LTimes' /\ (LTidy => LTidy')
<1> DEFINE new == [row[t] EXCEPT !.backoff = FALSE]
<1>1. /\ DOMAIN row[t] = RowFields /\ t \in DOMAIN row /\ box = [box EXCEPT ![t] = box[t]]
      /\ DOMAIN op = {"kind", "t"} /\ op.kind \in {"none", "reactivate", "terminate"}
      /\ op.kind # "none" => op.t \in Lifecycle!Trials
  BY DEF LTimes, LifeShapes
<1>2. /\ DOMAIN new = RowFields /\ new.ends = row[t].ends /\ new.status = row[t].status
      /\ new.grace = row[t].grace /\ new.suspended = row[t].suspended
      /\ new.retention = row[t].retention /\ new.converted = row[t].converted
  BY <1>1 DEF RowFields
<1>3. row' = [row EXCEPT ![t] = new] /\ UNCHANGED <<box, now, tick, op, crossed>>
  BY <1>1 DEF Lifecycle!BackoffEnds
<1> HIDE DEF new
<1>4. Writes(t, new, box[t])
  BY <1>1, <1>2, <1>3 DEF Writes
<1>5. row'[t] = new /\ \A u \in Lifecycle!Trials \ {t} : row'[u] = row[u]
  BY <1>1, <1>2, <1>3, TrialWritten
<1>6. \A u \in Lifecycle!Trials : row'[u].status = row[u].status
  BY <1>2, <1>5
<1>7. ASSUME LTidy
      PROVE  LTidy'
  <2> SUFFICES ASSUME NEW u \in Lifecycle!Trials \ crossed
               PROVE  Tidy(u)'
    BY <1>3 DEF LTidy
  <2>1. Tidy(u) /\ row'[u].status = row[u].status
    BY <1>6, <1>7 DEF LTidy
  <2> QED
    BY <1>3, <2>1 DEF Tidy, Pending, Suspending
<1> QED
  BY <1>4, <1>7, OperatorDoes

(* A process dies, and leaves its work.                                     *)
LEMMA LifecycleCrash ==
    ASSUME LTimes, Lifecycle!WorkerCrash \/ Lifecycle!WebCrash
    PROVE  LTimes' /\ (LTidy => LTidy')
<1>1. CASE Lifecycle!WorkerCrash
  <2>0. PICK q : q = Lifecycle!NoTick
    OBVIOUS
  <2>1. tick' = q /\ UNCHANGED <<row, box, now, op, crossed>>
    BY <1>1, <2>0 DEF Lifecycle!WorkerCrash
  <2>2. DOMAIN q = TickFields /\ q.at = 0 /\ q.todo = {} /\ q.step = "idle"
    BY <2>0 DEF TickFields, Lifecycle!NoTick
  <2>3. LifeShapes'
    BY <2>1, <2>2 DEF LTimes, LifeShapes, OnTrial
  <2>4. \A t \in Lifecycle!Trials : Timely(t)'
    BY <2>1, <2>2 DEF LTimes, LifeShapes, Timely, Clock, Lifecycle!GraceDays
  <2>5. LTidy => LTidy'
    BY <2>1, <2>2 DEF LTidy, Tidy, Pending, Suspending, OnTrial
  <2> QED
    BY <2>3, <2>4, <2>5 DEF LTimes
<1>2. CASE Lifecycle!WebCrash
  <2>0. PICK p : p = Lifecycle!NoOp
    OBVIOUS
  <2>1. op' = p /\ UNCHANGED <<row, box, now, tick, crossed>>
    BY <1>2, <2>0 DEF Lifecycle!WebCrash
  <2>2. DOMAIN p = {"kind", "t"} /\ p.kind = "none"
    BY <2>0 DEF Lifecycle!NoOp
  <2>3. LifeShapes'
    BY <2>1, <2>2 DEF LTimes, LifeShapes, OnTrial
  <2>4. \A t \in Lifecycle!Trials : Timely(t)'
    BY <2>1, <2>2 DEF LTimes, LifeShapes, Timely, Clock
  <2>5. LTidy => LTidy'
    BY <2>1, <2>2 DEF LTidy, Tidy, Pending, Suspending, OnTrial
  <2> QED
    BY <2>3, <2>4, <2>5 DEF LTimes
<1> QED
  BY <1>1, <1>2

(* An operator's retry clears the back-off.                                 *)
LEMMA RetryStarts ==
    ASSUME LTimes, NEW t \in Lifecycle!Trials, Lifecycle!api_operator_lifecycle_retry(t)
    PROVE  LTimes' /\ (LTidy => LTidy')
<1>0. PICK q : q = [at |-> now, todo |-> {t}, t |-> 0, step |-> "next",
                    copy |-> [u \in Lifecycle!Trials |-> row[u].status]]
  OBVIOUS
<1>1. /\ tick' = q /\ tick.step = "idle" /\ UNCHANGED <<row, box, now, op, crossed>>
      /\ op.kind = "none"
  BY <1>0 DEF Lifecycle!api_operator_lifecycle_retry, Lifecycle!OperatorMayAct,
              Lifecycle!NoOp
<1>2. /\ DOMAIN q = TickFields /\ q.at = now /\ q.todo = {t} /\ q.step = "next"
      /\ \A u \in Lifecycle!Trials : q.copy[u] = row[u].status
  BY <1>0 DEF TickFields
<1>3. LifeShapes'
  BY <1>1, <1>2 DEF LTimes, LifeShapes, OnTrial
<1>4. \A u \in Lifecycle!Trials : Timely(u)'
  BY <1>1, <1>2 DEF LTimes, LifeShapes, Timely, Clock
<1>5. LTidy => LTidy'
  BY <1>1, <1>2 DEF LTidy, Tidy, Pending, Suspending, InUse, OnTrial
<1> QED
  BY <1>3, <1>4, <1>5 DEF LTimes

(* Every step of the lifecycle keeps both parts.                            *)
LEMMA LifecycleStep ==
    ASSUME LTimes, Lifecycle!Next
    PROVE  LTimes' /\ (LTidy => LTidy')
<1>1. CASE Lifecycle!WorkerStep
  BY <1>1, TickWalks, ProcessStep, StopStep DEF Lifecycle!WorkerStep
<1>2. ASSUME NEW t \in Lifecycle!Trials,
             \/ Lifecycle!StartContainer(t) \/ Lifecycle!convert_trial_to_subscription(t)
             \/ Lifecycle!request_termination(t) \/ Lifecycle!cancel_termination(t)
             \/ Lifecycle!DestroyRuntime(t) \/ Lifecycle!api_operator_lifecycle_retry(t)
             \/ Lifecycle!BackoffEnds(t)
      PROVE  LTimes' /\ (LTidy => LTidy')
  BY <1>2, OperatorStarts, RetryStarts, BackoffStep
<1>3. CASE Lifecycle!EndOp
  BY <1>3, OperatorEnds
<1>4. CASE Lifecycle!DayPasses
  BY <1>4, DayStep
<1>5. CASE Lifecycle!WorkerCrash \/ Lifecycle!WebCrash
  BY <1>5, LifecycleCrash
<1> QED
  BY <1>1, <1>2, <1>3, <1>4, <1>5 DEF Lifecycle!Next

(* The invariant depends on the lifecycle's variables only.                 *)
LEMMA LifecycleStutter ==
    ASSUME LTimes, UNCHANGED <<row, box, now, tick, op, crossed>>
    PROVE  LTimes' /\ (LTidy => LTidy')
<1>1. LifeShapes'
  BY DEF LTimes, LifeShapes, OnTrial
<1>2. \A u \in Lifecycle!Trials : Timely(u)'
  BY DEF LTimes, Timely, Clock
<1>3. LTidy => LTidy'
  BY DEF LTidy, Tidy, Pending, Suspending
<1> QED
  BY <1>1, <1>2, <1>3 DEF LTimes

(* Every step of the composition keeps the invariant.                       *)
LEMMA LifecycleKeeps ==
    ASSUME LTimes, [Next]_all
    PROVE  LTimes' /\ (LTidy => LTidy')
<1>1. CASE Lifecycle!Next
  BY <1>1, LifecycleStep
<1>2. CASE UNCHANGED lifeVars
  BY <1>2, LifecycleStutter DEF lifeVars
<1> QED
  BY <1>1, <1>2 DEF Next, all

(* What the safety proofs use of the specification.                         *)
LEMMA Behaves == Spec => Init /\ [][Next]_all
BY PTL DEF Spec

(* A trial's container is removed only after the retention that follows its *)
(* suspension, whatever tick and operator do at once, for any number of     *)
(* trials and any time (execute_termination).                               *)
THEOREM ContainerOutlivesRetention == Spec => []RetentionKept
<1>1. Init => LTimes
  BY LifecycleBegins DEF LInv
<1>2. LTimes /\ [Next]_all => LTimes'
  BY LifecycleKeeps
<1>3. LTimes => RetentionKept
  BY DEF LTimes, LifeShapes, Timely, RetentionKept, Lifecycle!RetentionKept, Lifecycle!Null,
         Lifecycle!RetentionDays, Lifecycle!GraceDays
<1> QED
  BY <1>1, <1>2, <1>3, Behaves, PTL

(* LInv holds of every state.                                               *)
LEMMA LifecycleInvariant == Spec => []LInv
<1>1. Init => LInv
  BY LifecycleBegins
<1>2. LInv /\ [Next]_all => LInv'
  BY LifecycleKeeps DEF LInv
<1> QED
  BY <1>1, <1>2, Behaves, PTL

(* A trial that is active or in its grace period has its container running  *)
(* unless it was reactivated while the tick held it, for any number of      *)
(* trials and however tick, operators, faults and crashes interleave        *)
(* (complete_suspension, reactivate_trial).                                 *)
THEOREM TrialInUseIsServed == Spec => []TrialIsServed
<1>1. LInv => TrialIsServed
  BY DEF LInv, LTidy, Tidy, InUse, TrialIsServed, Lifecycle!ActiveIsServed
<1> QED
  BY <1>1, LifecycleInvariant, PTL

-------------------------------------------------------------------------------

(* The columns of a trial ...                                               *)
TrialFields == {"status", "plan", "draft", "selection"}

(* ... of its tenant ...                                                    *)
TenantFields == {"status", "store", "named"}

(* ... and what a tab of the wizard carries.                                *)
TabFields == {"step", "t", "page"}

(* The worker is rolling a deployment back ...                              *)
Undoing == {"rollback"}

(* ... or is making one ...                                                 *)
Deploying == {"validate", "accept", "filestore", "record_store", "role", "clone", "install",
              "port", "run", "health"}

(* ... or holds a job at all.                                               *)
OnJob == Deploying \cup {"audit"} \cup Undoing

(* Every row has its columns, and the worker is at a step of the code.      *)
DeployShapes ==
    /\ trial = [t \in Deploy!Trials |-> trial[t]] /\ job = [t \in Deploy!Trials |-> job[t]]
    /\ tenant = [t \in Deploy!Trials |-> tenant[t]] /\ res = [t \in Deploy!Trials |-> res[t]]
    /\ tab = [b \in Tabs |-> tab[b]]
    /\ \A t \in Deploy!Trials :
         DOMAIN trial[t] = TrialFields /\ DOMAIN tenant[t] = TenantFields /\ res[t] \subseteq Deploy!Kinds
    /\ \A b \in Tabs : DOMAIN tab[b] = TabFields
    /\ DOMAIN worker = {"step", "t"}
    /\ worker.step \in {"idle", "init", "modules"} \cup OnJob

(* The steps of a tab past the review.                                      *)
Reviewing == {"review", "commit", "queue"}

(* A tab that has read a draft carries its trial, and past the review the   *)
(* snapshot of a selection.                                                 *)
TabKnows(b) ==
    /\ tab[b].step \in {"plan", "modules"} \cup Reviewing => tab[b].t \in Deploy!Trials
    /\ tab[b].step \in Reviewing => tab[b].page # Deploy!NoSnapshot

(* A tab about to queue has confirmed its trial.                            *)
QueuedPages ==
    \A b \in Tabs : tab[b].step = "queue" => trial[tab[b].t].selection # Deploy!NoSnapshot

(* What a trial's rows say of each other: no job before the confirmation,   *)
(* nothing made before the job is claimed, everything there and the plan    *)
(* unchanged since its validation when it is active, and only an unrecorded *)
(* filestore left after a rollback.                                         *)
TrialOk(t) ==
    /\ trial[t].selection = Deploy!NoSnapshot <=> trial[t].status \in {"none", "draft"}
    /\ trial[t].selection = Deploy!NoSnapshot => job[t] = "none"
    /\ job[t] \in {"none", "queued"} =>
         /\ res[t] = {} /\ ~tenant[t].store /\ ~tenant[t].named
         /\ trial[t].status \in {"none", "draft", "trial_pending"}
    /\ trial[t].status = "trial_active" =>
         /\ res[t] = Deploy!Kinds /\ tenant[t].status = "active" /\ job[t] = "succeeded"
         /\ trial[t].plan = trial[t].selection.plan \/ t \in moved
    /\ job[t] = "rolled_back" => res[t] = {} \/ (res[t] = {"filestore"} /\ ~tenant[t].store)

(* What the worker at a step relies on: how much of the deployment is made  *)
(* and recorded, and that the plan is the one the selection was validated   *)
(* against, unless a tab has written over it (m).                           *)
Fits(s, t, j, n, r, m) ==
    /\ t.selection # Deploy!NoSnapshot /\ j \notin {"none", "queued"}
    /\ s \in Deploying => j = "running"
    /\ s = "audit" => j = "succeeded"
    /\ s = "rollback" => j = "rollback_required" /\ ("container" \in r => n.named)
    /\ s \in Deploying \ {"validate", "accept"} => t.status = "provisioning"
    /\ s = "audit" => t.status = "trial_active"
    /\ s \notin Undoing \cup {"validate"} => t.plan = t.selection.plan \/ m
    /\ s \in {"validate", "accept", "filestore"} => r = {} /\ ~n.named
    /\ s \in {"record_store", "role"} => r = {"filestore"} /\ ~n.named
    /\ s = "clone" => r = {"filestore", "role"} /\ ~n.named
    /\ s \in {"install", "port"} => r = {"filestore", "role", "database"} /\ ~n.named
    /\ s = "run" => r = {"filestore", "role", "database"} /\ n.named
    /\ s \in {"health", "audit"} => r = Deploy!Kinds /\ n.named

(* The worker's job and trial fit its step.                                 *)
DeployerKnows ==
    worker.step \in OnJob =>
       /\ worker.t \in Deploy!Trials
       /\ Fits(worker.step, trial[worker.t], job[worker.t], tenant[worker.t], res[worker.t],
               worker.t \in moved)

(* The inductive invariant of the wizard and the deployments.               *)
PInv ==
    /\ DeployShapes /\ DeployerKnows
    /\ \A b \in Tabs : TabKnows(b)
    /\ QueuedPages
    /\ \A t \in Deploy!Trials : TrialOk(t)

(* The invariant holds at the start.                                        *)
LEMMA DeploymentBegins ==
    ASSUME Init
    PROVE  PInv
<1>1. Deploy!Init
  BY DEF Init
<1>2. DeployShapes
  BY <1>1 DEF Deploy!Init, DeployShapes, Deploy!NoTrial, Deploy!NoTenant, Deploy!Idle, TrialFields,
              TenantFields, TabFields
<1>3. DeployerKnows
  BY <1>1 DEF Deploy!Init, DeployerKnows, OnJob, Deploying, Undoing
<1>4. \A b \in Tabs : TabKnows(b)
  BY <1>1 DEF Deploy!Init, TabKnows, Reviewing, Deploy!Idle
<1>5. \A t \in Deploy!Trials : TrialOk(t)
  BY <1>1 DEF Deploy!Init, TrialOk, Deploy!NoTrial, Deploy!NoTenant
<1>6. QueuedPages
  BY <1>1 DEF Deploy!Init, QueuedPages, Deploy!Idle
<1> QED
  BY <1>2, <1>3, <1>4, <1>5, <1>6 DEF PInv

(* The first of a set of trials is one of them (claim_next_deployment_job,  *)
(* get_or_create_draft_trial).                                              *)
LEMMA SmallestJob ==
    ASSUME NEW S \in SUBSET Deploy!Trials, S # {}
    PROVE  Deploy!Smallest(S) \in S
<1> DEFINE Less == OpToRel(<, Nat)
<1>1. IsWellFoundedOn(Less, Nat)
  BY NatLessThanWellFounded
<1>2. S \subseteq Nat /\ S # {}
  BY DEF Deploy!Trials
<1>3. PICK x \in S : \A y \in S : ~ (<<y, x>> \in Less)
  <2> HIDE DEF Less
  <2> QED
    BY <1>1, <1>2, WFMin
<1>4. \A y \in S : x <= y
  <2> TAKE y \in S
  <2>1. ~ (y < x)
    BY <1>2, <1>3 DEF OpToRel
  <2> QED
    BY <1>2, <2>1
<1> QED
  BY <1>4 DEF Deploy!Smallest

(* The newest draft is a draft (get_wizard_trial).                          *)
LEMMA LargestDraft ==
    ASSUME NEW S \in SUBSET Deploy!Trials, S # {}
    PROVE  Deploy!Largest(S) \in S
<1> DEFINE Less == OpToRel(<, Nat)
           T == {DeployTrials - x : x \in S}
<1>1. IsWellFoundedOn(Less, Nat)
  BY NatLessThanWellFounded
<1>2. DeployTrials \in Nat /\ S \subseteq Nat /\ \A x \in S : x <= DeployTrials
  BY PlatformBounds DEF Deploy!DeploymentAssumption, Deploy!Trials
<1>3. T \subseteq Nat /\ T # {}
  <2>1. \A x \in S : DeployTrials - x \in Nat
    BY <1>2
  <2> QED
    BY <2>1
<1>4. PICK m \in T : \A y \in T : ~ (<<y, m>> \in Less)
  <2> HIDE DEF Less, T
  <2> QED
    BY <1>1, <1>3, WFMin
<1>5. PICK x \in S : m = DeployTrials - x
  BY <1>4
<1>6. \A y \in S : x >= y
  <2> TAKE y \in S
  <2>1. ~ (<<DeployTrials - y, m>> \in Less)
    BY <1>4
  <2>2. ~ (DeployTrials - y < m)
    BY <1>2, <1>3, <1>4, <2>1 DEF OpToRel
  <2> QED
    BY <1>2, <1>5, <2>2
<1> QED
  BY <1>6 DEF Deploy!Largest

(* The part of PInv that concerns the tabs.                                 *)
TabsKnow ==
    /\ tab = [b \in Tabs |-> tab[b]] /\ QueuedPages
    /\ \A b \in Tabs : DOMAIN tab[b] = TabFields /\ TabKnows(b)

(* A step that undoes no confirmation.                                      *)
ChoicesStay ==
    \A t \in Deploy!Trials :
       trial[t].selection # Deploy!NoSnapshot => trial'[t].selection # Deploy!NoSnapshot

(* A step of one tab that undoes no confirmation keeps TabsKnow when the    *)
(* tab's new page does.                                                     *)
LEMMA TabMoves ==
    ASSUME PInv, ChoicesStay,
           NEW b \in Tabs, NEW q, tab' = [tab EXCEPT ![b] = q], DOMAIN q = TabFields,
           q.step \in {"plan", "modules"} \cup Reviewing => q.t \in Deploy!Trials,
           q.step \in Reviewing => q.page # Deploy!NoSnapshot,
           q.step = "queue" => trial'[q.t].selection # Deploy!NoSnapshot
    PROVE  TabsKnow' /\ tab'[b] = q
<1>1. tab'[b] = q /\ \A c \in Tabs \ {b} : tab'[c] = tab[c]
  BY DEF PInv, DeployShapes
<1>2. tab' = [c \in Tabs |-> tab'[c]]
  BY DEF PInv, DeployShapes
<1>3. \A c \in Tabs : DOMAIN tab'[c] = TabFields /\ TabKnows(c)'
  BY <1>1 DEF PInv, DeployShapes, TabKnows, Reviewing
<1>4. \A c \in Tabs \ {b} : tab[c].step = "queue" => trial'[tab[c].t].selection # Deploy!NoSnapshot
  BY DEF PInv, TabKnows, Reviewing, QueuedPages, ChoicesStay
<1>5. QueuedPages'
  BY <1>1, <1>4 DEF QueuedPages
<1> QED
  BY <1>1, <1>2, <1>3, <1>5 DEF TabsKnow

(* So does a step of no tab.                                                *)
LEMMA TabsSame ==
    ASSUME PInv, ChoicesStay, tab' = tab
    PROVE  TabsKnow'
<1>1. QueuedPages'
  BY DEF PInv, TabKnows, Reviewing, QueuedPages, ChoicesStay
<1> QED
  BY <1>1 DEF PInv, DeployShapes, TabsKnow, TabKnows

(* What a step of the wizard may do to a trial: edit its plan and its draft *)
(* at any time, which is remembered once the plan was validated; confirm it *)
(* once, and queue it once confirmed.                                       *)
Wizard(u, new, j) ==
    /\ DOMAIN new = TrialFields /\ trial' = [trial EXCEPT ![u] = new]
    /\ job' = [job EXCEPT ![u] = j] /\ UNCHANGED <<tenant, res, worker>>
    /\ new.selection = Deploy!NoSnapshot <=> new.status \in {"none", "draft"}
    /\ trial[u].selection # Deploy!NoSnapshot =>
         /\ new.selection = trial[u].selection /\ new.status = trial[u].status
         /\ new.plan = trial[u].plan \/ (Deploy!Validated(u) => u \in moved')
    /\ moved \subseteq moved'
    /\ trial[u].selection = Deploy!NoSnapshot => new.status \in {"none", "draft", "trial_pending"}
    /\ j = job[u] \/ (job[u] = "none" /\ j = "queued" /\ new.selection # Deploy!NoSnapshot)

(* A step of the wizard undoes no confirmation.                             *)
LEMMA WizardKeeps ==
    ASSUME PInv, NEW u \in Deploy!Trials, NEW new, NEW j, Wizard(u, new, j)
    PROVE  ChoicesStay
<1>1. trial'[u] = new /\ \A t \in Deploy!Trials \ {u} : trial'[t] = trial[t]
  BY DEF PInv, DeployShapes, Wizard
<1>2. trial[u].selection # Deploy!NoSnapshot => new.selection = trial[u].selection
  BY DEF Wizard
<1> QED
  BY <1>1, <1>2 DEF ChoicesStay

(* A step of the wizard keeps PInv: of the worker's trial it can change the *)
(* plan and the draft alone.                                                *)
LEMMA WizardMoves ==
    ASSUME PInv, TabsKnow', NEW u \in Deploy!Trials, NEW new, NEW j, Wizard(u, new, j)
    PROVE  PInv'
<1>1. /\ trial'[u] = new /\ job'[u] = j
      /\ \A t \in Deploy!Trials \ {u} : trial'[t] = trial[t] /\ job'[t] = job[t]
      /\ trial' = [t \in Deploy!Trials |-> trial'[t]] /\ job' = [t \in Deploy!Trials |-> job'[t]]
  BY DEF PInv, DeployShapes, Wizard
<1>2. DeployShapes'
  BY <1>1 DEF PInv, DeployShapes, TabsKnow, Wizard
<1>3. TrialOk(u)'
  BY <1>1 DEF PInv, TrialOk, Wizard, Deploy!Validated
<1>4. \A t \in Deploy!Trials \ {u} : TrialOk(t)'
  BY <1>1 DEF PInv, TrialOk, Wizard
<1>5. worker.step \in OnJob =>
         /\ worker.t \in Deploy!Trials
         /\ trial'[worker.t].selection = trial[worker.t].selection
         /\ trial'[worker.t].status = trial[worker.t].status
         /\ \/ trial'[worker.t].plan = trial[worker.t].plan
            \/ Deploy!Validated(worker.t) => worker.t \in moved'
  BY <1>1 DEF PInv, DeployerKnows, Wizard, Fits
<1>6. worker.step \in OnJob => job'[worker.t] = job[worker.t]
  <2>1. worker.step \in OnJob => job[worker.t] # "none"
    BY DEF PInv, DeployerKnows, Fits
  <2> QED
    BY <1>1, <2>1 DEF PInv, DeployerKnows, Wizard
<1>7. DeployerKnows'
  <2>1. UNCHANGED <<tenant, res, worker>> /\ moved \subseteq moved'
    BY DEF Wizard
  <2> SUFFICES ASSUME worker.step \in OnJob
               PROVE  Fits(worker.step, trial'[worker.t], job[worker.t], tenant[worker.t],
                           res[worker.t], worker.t \in moved')
    BY <1>5, <1>6, <2>1 DEF DeployerKnows
  <2> PICK s, t, v, m : /\ s = worker.step /\ t = trial[worker.t] /\ v = trial'[worker.t]
                        /\ m = (worker.t \in moved')
    OBVIOUS
  <2>2. Fits(s, t, job[worker.t], tenant[worker.t], res[worker.t], worker.t \in moved)
    BY DEF PInv, DeployerKnows
  <2>3. s \in Deploying \ {"validate"} \/ s = "audit" => Deploy!Validated(worker.t)
    BY <2>2 DEF Fits, Deploy!Validated
  <2>4. s \notin Undoing \cup {"validate"} => v.plan = v.selection.plan \/ m
    BY <1>5, <2>1, <2>2, <2>3 DEF Fits, OnJob, Deploying, Undoing
  <2>5. Fits(s, v, job[worker.t], tenant[worker.t], res[worker.t], m)
    BY <1>5, <2>2, <2>4 DEF Fits
  <2> QED
    BY <2>5
<1> QED
  BY <1>2, <1>3, <1>4, <1>7 DEF PInv, TabsKnow

(* A step that concerns only a tab keeps PInv.                              *)
LEMMA TabOnly ==
    ASSUME PInv, TabsKnow', UNCHANGED <<trial, job, tenant, res, worker, moved>>
    PROVE  PInv'
<1>1. DeployShapes'
  BY DEF PInv, DeployShapes, TabsKnow
<1>2. DeployerKnows'
  BY DEF PInv, DeployerKnows
<1>3. \A t \in Deploy!Trials : TrialOk(t)'
  BY DEF PInv, TrialOk
<1> QED
  BY <1>1, <1>2, <1>3 DEF PInv, TabsKnow

(* set_wizard_plan and set_wizard_modules write the plan and the ids of the *)
(* trial they read, whatever has become of it.                              *)
LEMMA DraftSteps ==
    ASSUME PInv, NEW b \in Tabs, Deploy!set_wizard_plan(b) \/ Deploy!set_wizard_modules(b)
    PROVE  PInv'
<1>0. PICK u, idle : u = tab[b].t /\ idle = Deploy!Idle
  OBVIOUS
<1>1. DOMAIN idle = TabFields /\ idle.step = "idle"
  BY <1>0 DEF Deploy!Idle, TabFields
<1>2. /\ tab' = [tab EXCEPT ![b] = idle] /\ UNCHANGED <<job, tenant, res, worker>>
      /\ moved \subseteq moved' /\ u \in Deploy!Trials
  BY <1>0 DEF Deploy!set_wizard_plan, Deploy!set_wizard_modules, Deploy!workerVars, PInv, TabKnows
<1>3. DOMAIN trial[u] = TrialFields /\ u \in DOMAIN trial /\ job = [job EXCEPT ![u] = job[u]]
  BY <1>2 DEF PInv, DeployShapes
<1>4. PICK new : /\ trial' = [trial EXCEPT ![u] = new] /\ DOMAIN new = TrialFields
                 /\ new.status = trial[u].status /\ new.selection = trial[u].selection
                 /\ new.plan = trial[u].plan \/ (Deploy!Validated(u) => u \in moved')
  <2>1. CASE Deploy!set_wizard_plan(b)
    <3> DEFINE new == [trial[u] EXCEPT !.plan = tab[b].page.plan]
    <3>1. trial' = [trial EXCEPT ![u] = new]
      BY <1>0, <1>3, <2>1 DEF Deploy!set_wizard_plan
    <3>2. DOMAIN new = TrialFields /\ new.status = trial[u].status /\ new.selection = trial[u].selection
      BY <1>3 DEF TrialFields
    <3>3. Deploy!Validated(u) => u \in moved'
      BY <1>0, <2>1 DEF Deploy!set_wizard_plan
    <3> HIDE DEF new
    <3> QED
      BY <3>1, <3>2, <3>3
  <2>2. CASE Deploy!set_wizard_modules(b)
    <3> DEFINE new == [trial[u] EXCEPT !.draft = tab[b].page.apps]
    <3>1. trial' = [trial EXCEPT ![u] = new]
      BY <1>0, <1>3, <2>2 DEF Deploy!set_wizard_modules
    <3>2. /\ DOMAIN new = TrialFields /\ new.status = trial[u].status /\ new.plan = trial[u].plan
          /\ new.selection = trial[u].selection
      BY <1>3 DEF TrialFields
    <3> HIDE DEF new
    <3> QED
      BY <3>1, <3>2
  <2> QED
    BY <2>1, <2>2
<1>5. TrialOk(u)
  BY <1>2 DEF PInv
<1>6. Wizard(u, new, job[u])
  BY <1>2, <1>3, <1>4, <1>5 DEF Wizard, TrialOk
<1>7. TabsKnow'
  BY <1>1, <1>2, <1>6, WizardKeeps, TabMoves DEF Reviewing
<1> QED
  BY <1>2, <1>6, <1>7, WizardMoves

(* get_or_create_draft_trial inserts a draft, unless the bound is reached.  *)
LEMMA InsertDraftStep ==
    ASSUME PInv, NEW b \in Tabs, NEW plan \in Plans, Deploy!get_or_create_draft_trial(b, plan)
    PROVE  PInv'
<1>0. PICK q : q = Deploy!Idle
  OBVIOUS
<1>1. DOMAIN q = TabFields /\ q.step = "idle"
  BY <1>0 DEF Deploy!Idle, TabFields
<1>2. /\ tab' = [tab EXCEPT ![b] = q] /\ UNCHANGED <<job, tenant, res, worker, moved>>
      /\ LET free == {t \in Deploy!Trials : trial[t].status = "none"}
         IN trial' = IF free = {} THEN trial
                     ELSE [trial EXCEPT ![Deploy!Smallest(free)] =
                             [Deploy!NoTrial EXCEPT !.status = "draft", !.plan = plan]]
  BY <1>0 DEF Deploy!get_or_create_draft_trial, Deploy!workerVars
<1>4. CASE trial' = trial
  <2>1. ChoicesStay
    BY <1>4 DEF ChoicesStay
  <2>2. TabsKnow'
    BY <1>1, <1>2, <2>1, TabMoves DEF Reviewing
  <2> QED
    BY <1>2, <1>4, <2>2, TabOnly
<1>5. CASE trial' # trial
  <2> DEFINE free == {t \in Deploy!Trials : trial[t].status = "none"}
             new == [Deploy!NoTrial EXCEPT !.status = "draft", !.plan = plan]
  <2>1. PICK u : u = Deploy!Smallest(free)
    OBVIOUS
  <2>2. free # {} /\ trial' = [trial EXCEPT ![u] = new]
    BY <1>2, <1>5, <2>1
  <2>3. u \in free
    BY <2>1, <2>2, SmallestJob
  <2>4. /\ DOMAIN new = TrialFields /\ new.status = "draft" /\ new.selection = Deploy!NoSnapshot
    BY DEF Deploy!NoTrial, TrialFields
  <2>5. u \in Deploy!Trials /\ trial[u].status = "none" /\ job = [job EXCEPT ![u] = job[u]]
    BY <2>3 DEF PInv, DeployShapes
  <2>6. trial[u].selection = Deploy!NoSnapshot
    BY <2>5 DEF PInv, TrialOk
  <2> HIDE DEF new, free
  <2>7. Wizard(u, new, job[u])
    BY <1>2, <2>2, <2>4, <2>5, <2>6 DEF Wizard
  <2>8. TabsKnow'
    BY <1>1, <1>2, <2>5, <2>7, WizardKeeps, TabMoves DEF Reviewing
  <2> QED
    BY <2>5, <2>7, <2>8, WizardMoves
<1> QED
  BY <1>4, <1>5

(* The steps of a tab that write no row.                                    *)
LEMMA PageSteps ==
    ASSUME PInv, NEW b \in Tabs,
           \/ Deploy!MissDraft(b) \/ Deploy!LeavePage(b) \/ Deploy!CheckConfirm(b)
           \/ Deploy!WebCrash(b)
    PROVE  PInv'
<1>0. PICK idle : idle = Deploy!Idle
  OBVIOUS
<1>1. DOMAIN idle = TabFields /\ idle.step = "idle"
  BY <1>0 DEF Deploy!Idle, TabFields
<1>2. DOMAIN tab[b] = TabFields /\ b \in DOMAIN tab /\ TabKnows(b)
  BY DEF PInv, DeployShapes
<1>3. UNCHANGED <<trial, job, tenant, res, worker, moved>>
  BY DEF Deploy!MissDraft, Deploy!LeavePage, Deploy!CheckConfirm, Deploy!WebCrash, Deploy!workerVars
<1>4. \/ tab' = [tab EXCEPT ![b] = idle]
      \/ tab' = [tab EXCEPT ![b].step = "insert"]
      \/ tab[b].step = "review" /\ tab' = [tab EXCEPT ![b].step = "commit"]
  BY <1>0 DEF Deploy!MissDraft, Deploy!LeavePage, Deploy!CheckConfirm, Deploy!WebCrash
<1>5. TabsKnow'
  <2>0. ChoicesStay
    BY <1>3 DEF ChoicesStay
  <2>1. CASE tab' = [tab EXCEPT ![b] = idle]
    BY <1>1, <2>0, <2>1, TabMoves DEF Reviewing
  <2>2. ASSUME NEW s, tab' = [tab EXCEPT ![b].step = s],
               s = "insert" \/ (s = "commit" /\ tab[b].step = "review")
        PROVE  TabsKnow'
    <3> DEFINE q == [tab[b] EXCEPT !.step = s]
    <3>1. DOMAIN q = TabFields /\ q.step = s /\ q.t = tab[b].t /\ q.page = tab[b].page
      BY <1>2 DEF TabFields
    <3>2. tab' = [tab EXCEPT ![b] = q]
      BY <1>2, <2>2
    <3>3. q.step \in {"plan", "modules"} \cup Reviewing =>
             q.t \in Deploy!Trials /\ q.page # Deploy!NoSnapshot
      BY <1>2, <2>2, <3>1 DEF TabKnows, Reviewing
    <3> HIDE DEF q
    <3> QED
      BY <2>0, <2>2, <3>1, <3>2, <3>3, TabMoves
  <2> QED
    BY <1>4, <2>1, <2>2
<1> QED
  BY <1>3, <1>5, TabOnly

(* A tab that reads a draft carries its trial.                              *)
LEMMA ChooseSteps ==
    ASSUME PInv, NEW b \in Tabs,
           \/ \E plan \in Plans : Deploy!ChoosePlan(b, plan)
           \/ \E apps \in Selections : Deploy!ChooseModules(b, apps)
    PROVE  PInv'
<1>1. PICK u : u = Deploy!Largest(Deploy!Drafts)
  OBVIOUS
<1>2. PICK q : /\ tab' = [tab EXCEPT ![b] = q] /\ DOMAIN q = TabFields /\ q.t = u
               /\ q.step \in {"plan", "modules"}
  <2>1. ASSUME NEW s, NEW p, tab' = [tab EXCEPT ![b] = [step |-> s, t |-> u, page |-> p]],
               s \in {"plan", "modules"}
        PROVE  \E q : /\ tab' = [tab EXCEPT ![b] = q] /\ DOMAIN q = TabFields /\ q.t = u
                      /\ q.step \in {"plan", "modules"}
    <3> DEFINE q == [step |-> s, t |-> u, page |-> p]
    <3>1. /\ tab' = [tab EXCEPT ![b] = q] /\ DOMAIN q = TabFields /\ q.t = u
          /\ q.step \in {"plan", "modules"}
      BY <2>1 DEF TabFields
    <3> HIDE DEF q
    <3> QED
      BY <3>1
  <2> QED
    BY <1>1, <2>1 DEF Deploy!ChoosePlan, Deploy!ChooseModules
<1>3. Deploy!Drafts # {} /\ UNCHANGED <<trial, job, tenant, res, worker, moved>>
  BY DEF Deploy!ChoosePlan, Deploy!ChooseModules, Deploy!workerVars
<1>4. u \in Deploy!Trials
  BY <1>1, <1>3, LargestDraft DEF Deploy!Drafts
<1>5. ChoicesStay
  BY <1>3 DEF ChoicesStay
<1>6. TabsKnow'
  BY <1>2, <1>4, <1>5, TabMoves DEF Reviewing
<1> QED
  BY <1>3, <1>6, TabOnly

(* The review page carries the draft's snapshot, which is not empty.        *)
LEMMA ReviewStep ==
    ASSUME PInv, NEW b \in Tabs, Deploy!review_step_context(b)
    PROVE  PInv'
<1>0. PICK u : u = Deploy!Largest(Deploy!Drafts)
  OBVIOUS
<1>1. /\ Deploy!Drafts # {} /\ trial[u].draft # <<>>
      /\ UNCHANGED <<trial, job, tenant, res, worker, moved>>
      /\ tab' = [tab EXCEPT ![b] = [step |-> "review", t |-> u,
                                    page |-> Deploy!Snapshot(u, trial[u].draft)]]
  BY <1>0 DEF Deploy!review_step_context, Deploy!workerVars
<1>2. u \in Deploy!Trials
  BY <1>0, <1>1, LargestDraft DEF Deploy!Drafts
<1>3. PICK q : q = [step |-> "review", t |-> u, page |-> Deploy!Snapshot(u, trial[u].draft)]
  OBVIOUS
<1>4. q.page # Deploy!NoSnapshot
  <2>1. q.page.apps = trial[u].draft /\ Deploy!NoSnapshot.apps = <<>>
    BY <1>3 DEF Deploy!Snapshot, Deploy!NoSnapshot
  <2> QED
    BY <1>1, <2>1
<1>5. DOMAIN q = TabFields /\ q.t = u /\ tab' = [tab EXCEPT ![b] = q]
  BY <1>1, <1>3 DEF TabFields
<1>6. TabsKnow'
  <2>1. ChoicesStay
    BY <1>1 DEF ChoicesStay
  <2>2. q.step # "queue"
    BY <1>3
  <2> QED
    BY <1>2, <1>4, <1>5, <2>1, <2>2, TabMoves
<1> QED
  BY <1>1, <1>6, TabOnly

(* confirm_wizard keeps what the page carried as the trial's selection,     *)
(* unless it has one.                                                       *)
LEMMA ConfirmStep ==
    ASSUME PInv, NEW b \in Tabs, Deploy!confirm_wizard(b)
    PROVE  PInv'
<1>0. PICK u : u = tab[b].t
  OBVIOUS
<1>1. /\ DOMAIN tab[b] = TabFields /\ b \in DOMAIN tab /\ tab[b].step = "commit"
      /\ u \in Deploy!Trials /\ tab[b].page # Deploy!NoSnapshot
      /\ DOMAIN trial[u] = TrialFields /\ u \in DOMAIN trial /\ job = [job EXCEPT ![u] = job[u]]
      /\ UNCHANGED <<job, tenant, res, worker, moved>>
  BY <1>0 DEF PInv, DeployShapes, TabKnows, Reviewing, Deploy!confirm_wizard, Deploy!workerVars
<1>2. CASE trial[u].selection = Deploy!NoSnapshot
  <2> DEFINE new == [trial[u] EXCEPT !.status = "trial_pending", !.selection = tab[b].page]
             q == [tab[b] EXCEPT !.step = "queue"]
  <2>1. trial' = [trial EXCEPT ![u] = new] /\ tab' = [tab EXCEPT ![b] = q]
    BY <1>0, <1>1, <1>2 DEF Deploy!confirm_wizard
  <2>2. /\ DOMAIN new = TrialFields /\ new.status = "trial_pending" /\ new.selection = tab[b].page
    BY <1>1 DEF TrialFields
  <2>3. DOMAIN q = TabFields /\ q.t = u /\ q.page = tab[b].page
    BY <1>0, <1>1 DEF TabFields
  <2> HIDE DEF new, q
  <2>5. Wizard(u, new, job[u])
    BY <1>1, <1>2, <2>1, <2>2 DEF Wizard
  <2>6. trial'[u].selection # Deploy!NoSnapshot
    BY <1>1, <2>1, <2>2
  <2>4. TabsKnow'
    BY <1>1, <2>1, <2>3, <2>5, <2>6, WizardKeeps, TabMoves
  <2> QED
    BY <1>1, <2>4, <2>5, WizardMoves
<1>3. CASE trial[u].selection # Deploy!NoSnapshot
  <2>1. PICK idle : idle = Deploy!Idle
    OBVIOUS
  <2>2. DOMAIN idle = TabFields /\ idle.step = "idle"
    BY <2>1 DEF Deploy!Idle, TabFields
  <2>3. trial' = trial /\ tab' = [tab EXCEPT ![b] = idle]
    BY <1>0, <1>3, <2>1 DEF Deploy!confirm_wizard
  <2>5. ChoicesStay
    BY <2>3 DEF ChoicesStay
  <2>4. TabsKnow'
    BY <2>2, <2>3, <2>5, TabMoves DEF Reviewing
  <2> QED
    BY <1>1, <2>3, <2>4, TabOnly
<1> QED
  BY <1>2, <1>3

(* queue_deployment_for_trial makes a job for a confirmed trial that has    *)
(* none.                                                                    *)
LEMMA QueueStep ==
    ASSUME PInv, NEW b \in Tabs, Deploy!queue_deployment_for_trial(b)
    PROVE  PInv'
<1>0. PICK u : u = tab[b].t
  OBVIOUS
<1>1. PICK idle : idle = Deploy!Idle
  OBVIOUS
<1>2. DOMAIN idle = TabFields /\ idle.step = "idle"
  BY <1>1 DEF Deploy!Idle, TabFields
<1>3. /\ tab[b].step = "queue" /\ tab' = [tab EXCEPT ![b] = idle]
      /\ job' = IF job[u] = "none" THEN [job EXCEPT ![u] = "queued"] ELSE job
      /\ UNCHANGED <<trial, tenant, res, worker, moved>>
  BY <1>0, <1>1 DEF Deploy!queue_deployment_for_trial
<1>4. /\ u \in Deploy!Trials /\ trial[u].selection # Deploy!NoSnapshot
      /\ DOMAIN trial[u] = TrialFields /\ trial = [trial EXCEPT ![u] = trial[u]]
  BY <1>0, <1>3 DEF PInv, DeployShapes, TabKnows, Reviewing, QueuedPages
<1>5. trial[u].status \notin {"none", "draft"} /\ job = [job EXCEPT ![u] = job[u]]
  BY <1>4 DEF PInv, DeployShapes, TrialOk
<1>6. \E j : Wizard(u, trial[u], j)
  <2>1. CASE job[u] = "none"
    <3>1. Wizard(u, trial[u], "queued")
      BY <1>3, <1>4, <1>5, <2>1 DEF Wizard
    <3> QED
      BY <3>1
  <2>2. CASE job[u] # "none"
    <3>1. Wizard(u, trial[u], job[u])
      BY <1>3, <1>4, <1>5, <2>2 DEF Wizard
    <3> QED
      BY <3>1
  <2> QED
    BY <2>1, <2>2
<1>7. ChoicesStay
  BY <1>3 DEF ChoicesStay
<1>8. TabsKnow'
  BY <1>2, <1>3, <1>7, TabMoves DEF Reviewing
<1> QED
  BY <1>4, <1>6, <1>8, WizardMoves

(* What a step of the worker may write: the rows of its trial.              *)
Runs(u, t, j, n, r, w) ==
    /\ trial' = [trial EXCEPT ![u] = t] /\ job' = [job EXCEPT ![u] = j]
    /\ tenant' = [tenant EXCEPT ![u] = n] /\ res' = [res EXCEPT ![u] = r]
    /\ worker' = w /\ UNCHANGED <<tab, moved>>
    /\ DOMAIN t = TrialFields /\ DOMAIN n = TenantFields /\ r \subseteq Deploy!Kinds
    /\ DOMAIN w = {"step", "t"} /\ w.step \in {"idle"} \cup OnJob

(* A step of the worker keeps PInv when what it leaves fits its next step.  *)
LEMMA DeployerMoves ==
    ASSUME PInv, NEW u \in Deploy!Trials, NEW t, NEW j, NEW n, NEW r, NEW w, Runs(u, t, j, n, r, w),
           trial[u].selection # Deploy!NoSnapshot, t.selection = trial[u].selection,
           t.status \notin {"none", "draft"}, j \notin {"none", "queued"},
           t.status = "trial_active" =>
              /\ r = Deploy!Kinds /\ n.status = "active" /\ j = "succeeded"
              /\ t.plan = t.selection.plan \/ u \in moved,
           j = "rolled_back" => r = {} \/ (r = {"filestore"} /\ ~n.store),
           w.step \in OnJob => w.t = u /\ Fits(w.step, t, j, n, r, u \in moved)
    PROVE  PInv'
<1>1. /\ trial'[u] = t /\ job'[u] = j /\ tenant'[u] = n /\ res'[u] = r
      /\ worker' = w /\ UNCHANGED <<tab, moved>>
  BY DEF PInv, DeployShapes, Runs
<1>2. \A v \in Deploy!Trials \ {u} :
         trial'[v] = trial[v] /\ job'[v] = job[v] /\ tenant'[v] = tenant[v] /\ res'[v] = res[v]
  BY DEF PInv, DeployShapes, Runs
<1>3. /\ trial' = [v \in Deploy!Trials |-> trial'[v]] /\ job' = [v \in Deploy!Trials |-> job'[v]]
      /\ tenant' = [v \in Deploy!Trials |-> tenant'[v]] /\ res' = [v \in Deploy!Trials |-> res'[v]]
  BY DEF PInv, DeployShapes, Runs
<1>4. DeployShapes'
  BY <1>1, <1>2, <1>3 DEF PInv, DeployShapes, Runs
<1>5. TrialOk(u)'
  BY <1>1 DEF TrialOk
<1>6. \A v \in Deploy!Trials \ {u} : TrialOk(v)'
  BY <1>1, <1>2 DEF PInv, TrialOk
<1>7. DeployerKnows'
  BY <1>1 DEF DeployerKnows
<1>8. ChoicesStay
  BY <1>1, <1>2 DEF ChoicesStay
<1>9. TabsKnow'
  BY <1>1, <1>8, TabsSame
<1> QED
  BY <1>4, <1>5, <1>6, <1>7, <1>9 DEF PInv, TabsKnow

(* A step that takes the worker off its job, or leaves it, keeps PInv.      *)
LEMMA DeployerElsewhere ==
    ASSUME PInv, UNCHANGED <<trial, job, tenant, res, tab, moved>>, DOMAIN worker' = {"step", "t"},
           worker' = worker \/ worker'.step \in {"idle", "init", "modules"}
    PROVE  PInv'
<1>1. DeployShapes'
  BY DEF PInv, DeployShapes
<1>2. DeployerKnows'
  <2>1. CASE worker' = worker
    BY <2>1 DEF PInv, DeployerKnows
  <2>2. CASE worker'.step \in {"idle", "init", "modules"}
    BY <2>2 DEF DeployerKnows, OnJob, Deploying, Undoing
  <2> QED
    BY <2>1, <2>2
<1>3. \A t \in Deploy!Trials : TrialOk(t)'
  BY DEF PInv, TrialOk
<1>4. ChoicesStay
  BY DEF ChoicesStay
<1>5. TabsKnow'
  BY <1>4, TabsSame
<1> QED
  BY <1>1, <1>2, <1>3, <1>5 DEF PInv, TabsKnow

(* The rules, the template builds and the end of a job write no row of a    *)
(* trial.                                                                   *)
LEMMA TemplateSteps ==
    ASSUME PInv,
           \/ \E allowed : Deploy!EditRules(allowed)
           \/ Deploy!queue_base_template_build \/ Deploy!claim_next_template_build_job
           \/ Deploy!init_empty_template_database \/ Deploy!execute_template_build_job
           \/ Deploy!record_audit
    PROVE  PInv'
<1>1. DOMAIN worker = {"step", "t"}
  BY DEF PInv, DeployShapes
<1>2. UNCHANGED <<trial, job, tenant, res, tab, moved>>
  BY DEF Deploy!EditRules, Deploy!queue_base_template_build, Deploy!claim_next_template_build_job,
         Deploy!init_empty_template_database, Deploy!execute_template_build_job, Deploy!record_audit
<1>3. \/ worker' = worker
      \/ \E s \in {"idle", "init", "modules"} : worker' = [worker EXCEPT !.step = s]
      \/ worker' = [step |-> "idle", t |-> 0]
  BY DEF Deploy!EditRules, Deploy!queue_base_template_build, Deploy!claim_next_template_build_job,
         Deploy!init_empty_template_database, Deploy!execute_template_build_job, Deploy!record_audit
<1>4. /\ DOMAIN worker' = {"step", "t"}
      /\ worker' = worker \/ worker'.step \in {"idle", "init", "modules"}
  BY <1>1, <1>3
<1> QED
  BY <1>2, <1>4, DeployerElsewhere

(* A job is claimed with nothing made for it.                               *)
LEMMA ClaimJobStep ==
    ASSUME PInv, Deploy!claim_next_deployment_job
    PROVE  PInv'
<1> DEFINE queued == {t \in Deploy!Trials : job[t] = "queued"}
<1>1. PICK u : u = Deploy!Smallest(queued)
  OBVIOUS
<1>2. PICK w : w = [step |-> "validate", t |-> u]
  OBVIOUS
<1>3. /\ queued # {} /\ job' = [job EXCEPT ![u] = "running"] /\ worker' = w
      /\ UNCHANGED <<trial, tenant, res, tab, moved>>
  BY <1>1, <1>2 DEF Deploy!claim_next_deployment_job
<1>4. u \in Deploy!Trials /\ job[u] = "queued"
  BY <1>1, <1>3, SmallestJob
<1> HIDE DEF queued
<1>5. /\ DOMAIN trial[u] = TrialFields /\ DOMAIN tenant[u] = TenantFields /\ res[u] \subseteq Deploy!Kinds
      /\ trial = [trial EXCEPT ![u] = trial[u]] /\ tenant = [tenant EXCEPT ![u] = tenant[u]]
      /\ res = [res EXCEPT ![u] = res[u]]
  BY <1>4 DEF PInv, DeployShapes
<1>6. DOMAIN w = {"step", "t"} /\ w.step = "validate" /\ w.t = u
  BY <1>2
<1>7. Runs(u, trial[u], "running", tenant[u], res[u], w)
  BY <1>3, <1>5, <1>6 DEF Runs, OnJob, Deploying
<1>8. /\ trial[u].selection # Deploy!NoSnapshot /\ trial[u].status = "trial_pending"
      /\ res[u] = {} /\ ~tenant[u].named
  BY <1>4 DEF PInv, TrialOk
<1>9. Fits(w.step, trial[u], "running", tenant[u], res[u], u \in moved)
  BY <1>6, <1>8 DEF Fits, Deploying, Undoing
<1> QED
  BY <1>4, <1>6, <1>7, <1>8, <1>9, DeployerMoves

(* A deployment starts only on the plan its selection was confirmed for.    *)
LEMMA ValidateStep ==
    ASSUME PInv, Deploy!ValidateTrial
    PROVE  PInv'
<1>0. PICK u : u = worker.t
  OBVIOUS
<1>1. worker.step = "validate" /\ DOMAIN worker = {"step", "t"}
  BY DEF PInv, DeployShapes, Deploy!ValidateTrial
<1>2. u \in Deploy!Trials /\ Fits("validate", trial[u], job[u], tenant[u], res[u], u \in moved)
  BY <1>0, <1>1 DEF PInv, DeployerKnows, OnJob, Deploying
<1>3. /\ DOMAIN trial[u] = TrialFields /\ DOMAIN tenant[u] = TenantFields /\ res[u] \subseteq Deploy!Kinds
      /\ u \in DOMAIN trial /\ u \in DOMAIN tenant /\ u \in DOMAIN job
      /\ job = [job EXCEPT ![u] = job[u]] /\ tenant = [tenant EXCEPT ![u] = tenant[u]]
      /\ res = [res EXCEPT ![u] = res[u]]
  BY <1>2 DEF PInv, DeployShapes
<1>4. /\ trial[u].selection # Deploy!NoSnapshot /\ job[u] = "running" /\ res[u] = {}
      /\ ~tenant[u].named
  BY <1>2 DEF Fits, Deploying
<1>5. UNCHANGED <<tenant, res, tab, moved>>
  BY DEF Deploy!ValidateTrial
<1>6. CASE Deploy!_revalidate_trial_selection(u) /\ Deploy!_select_base_template
  <2> DEFINE w == [worker EXCEPT !.step = "accept"]
  <2>1. UNCHANGED <<trial, job>> /\ worker' = w
    BY <1>0, <1>6 DEF Deploy!ValidateTrial
  <2>2. DOMAIN w = {"step", "t"} /\ w.step = "accept" /\ w.t = u
    BY <1>0, <1>1
  <2>3. trial[u].plan = trial[u].selection.plan
    BY <1>6 DEF Deploy!_revalidate_trial_selection, Deploy!Snapshot
  <2> HIDE DEF w
  <2>4. /\ trial = [trial EXCEPT ![u] = trial[u]] /\ trial[u].status \notin {"none", "draft"}
        /\ trial[u].status # "trial_active"
    BY <1>2, <1>4 DEF PInv, DeployShapes, TrialOk
  <2>5. Runs(u, trial[u], job[u], tenant[u], res[u], w)
    BY <1>3, <1>5, <2>1, <2>2, <2>4 DEF Runs, OnJob, Deploying
  <2>6. Fits(w.step, trial[u], job[u], tenant[u], res[u], u \in moved)
    BY <1>4, <2>2, <2>3 DEF Fits, Deploying, Undoing
  <2> QED
    BY <1>2, <1>4, <2>2, <2>4, <2>5, <2>6, DeployerMoves
<1>7. CASE ~(Deploy!_revalidate_trial_selection(u) /\ Deploy!_select_base_template)
  <2> DEFINE t == [trial[u] EXCEPT !.status = "failed"]
  <2>0. PICK w : w = [step |-> "idle", t |-> 0]
    OBVIOUS
  <2>1. /\ trial' = [trial EXCEPT ![u] = t] /\ job' = [job EXCEPT ![u] = "failed"]
        /\ worker' = w
    BY <1>0, <1>3, <1>7, <2>0 DEF Deploy!ValidateTrial
  <2>2. DOMAIN t = TrialFields /\ t.status = "failed" /\ t.selection = trial[u].selection
    BY <1>3 DEF TrialFields
  <2>3. DOMAIN w = {"step", "t"} /\ w.step = "idle"
    BY <2>0
  <2> HIDE DEF t
  <2>4. Runs(u, t, "failed", tenant[u], res[u], w)
    BY <1>3, <1>5, <2>1, <2>2, <2>3 DEF Runs
  <2> QED
    BY <1>2, <1>4, <2>2, <2>3, <2>4, DeployerMoves DEF OnJob, Deploying, Undoing
<1> QED
  BY <1>6, <1>7

(* What PInv says of the worker's trial.                                    *)
LEMMA OnTheJob ==
    ASSUME PInv, worker.step \in OnJob
    PROVE  /\ worker.t \in Deploy!Trials /\ DOMAIN worker = {"step", "t"}
           /\ Fits(worker.step, trial[worker.t], job[worker.t], tenant[worker.t], res[worker.t],
                   worker.t \in moved)
           /\ DOMAIN trial[worker.t] = TrialFields /\ DOMAIN tenant[worker.t] = TenantFields
           /\ res[worker.t] \subseteq Deploy!Kinds
           /\ worker.t \in DOMAIN trial /\ worker.t \in DOMAIN tenant
           /\ worker.t \in DOMAIN res /\ worker.t \in DOMAIN job
           /\ trial = [trial EXCEPT ![worker.t] = trial[worker.t]]
           /\ job = [job EXCEPT ![worker.t] = job[worker.t]]
           /\ tenant = [tenant EXCEPT ![worker.t] = tenant[worker.t]]
           /\ res = [res EXCEPT ![worker.t] = res[worker.t]]
           /\ trial[worker.t].selection # Deploy!NoSnapshot
           /\ trial[worker.t].status \notin {"none", "draft"}
           /\ worker.step \in Deploying \cup Undoing => trial[worker.t].status # "trial_active"
<1>1. worker.t \in Deploy!Trials /\ DOMAIN worker = {"step", "t"}
  BY DEF PInv, DeployShapes, DeployerKnows
<1>2. Fits(worker.step, trial[worker.t], job[worker.t], tenant[worker.t], res[worker.t],
           worker.t \in moved)
  BY DEF PInv, DeployerKnows
<1>3. trial[worker.t].selection # Deploy!NoSnapshot
  BY <1>2 DEF Fits
<1>4. trial[worker.t].status \notin {"none", "draft"}
  BY <1>1, <1>3 DEF PInv, TrialOk
<1>5. worker.step \in Deploying \cup Undoing => job[worker.t] # "succeeded"
  BY <1>2 DEF Fits, Undoing
<1>6. worker.step \in Deploying \cup Undoing => trial[worker.t].status # "trial_active"
  BY <1>1, <1>5 DEF PInv, TrialOk
<1>7. /\ DOMAIN trial[worker.t] = TrialFields /\ DOMAIN tenant[worker.t] = TenantFields
      /\ res[worker.t] \subseteq Deploy!Kinds
      /\ worker.t \in DOMAIN trial /\ worker.t \in DOMAIN tenant
      /\ worker.t \in DOMAIN res /\ worker.t \in DOMAIN job
      /\ trial = [trial EXCEPT ![worker.t] = trial[worker.t]]
      /\ job = [job EXCEPT ![worker.t] = job[worker.t]]
      /\ tenant = [tenant EXCEPT ![worker.t] = tenant[worker.t]]
      /\ res = [res EXCEPT ![worker.t] = res[worker.t]]
  BY <1>1 DEF PInv, DeployShapes
<1> QED
  BY <1>1, <1>2, <1>3, <1>4, <1>6, <1>7

(* The tenant is reserved on the plan that was validated.                   *)
LEMMA ReserveStep ==
    ASSUME PInv, Deploy!ReserveTenant
    PROVE  PInv'
<1>0. PICK u : u = worker.t
  OBVIOUS
<1>1. worker.step = "accept" /\ worker.step \in OnJob
  BY DEF Deploy!ReserveTenant, OnJob, Deploying
<1> DEFINE t == [trial[u] EXCEPT !.status = "provisioning"]
           n == [tenant[u] EXCEPT !.status = "provisioning"]
           w == [worker EXCEPT !.step = "filestore"]
<1>2. /\ u \in Deploy!Trials /\ DOMAIN worker = {"step", "t"}
      /\ Fits("accept", trial[u], job[u], tenant[u], res[u], u \in moved)
      /\ DOMAIN trial[u] = TrialFields /\ DOMAIN tenant[u] = TenantFields
      /\ res[u] \subseteq Deploy!Kinds /\ u \in DOMAIN trial /\ u \in DOMAIN tenant
      /\ job = [job EXCEPT ![u] = job[u]] /\ res = [res EXCEPT ![u] = res[u]]
  BY <1>0, <1>1, OnTheJob
<1>3. /\ trial' = [trial EXCEPT ![u] = t] /\ tenant' = [tenant EXCEPT ![u] = n] /\ worker' = w
      /\ UNCHANGED <<job, res, tab, moved>>
  BY <1>0, <1>2 DEF Deploy!ReserveTenant
<1>4. /\ DOMAIN t = TrialFields /\ t.status = "provisioning" /\ t.selection = trial[u].selection
      /\ t.plan = trial[u].plan
  BY <1>2 DEF TrialFields
<1>5. DOMAIN n = TenantFields /\ n.named = tenant[u].named
  BY <1>2 DEF TenantFields
<1>6. DOMAIN w = {"step", "t"} /\ w.step = "filestore" /\ w.t = u
  BY <1>0, <1>2
<1> HIDE DEF t, n, w
<1>7. /\ trial[u].selection # Deploy!NoSnapshot /\ job[u] = "running" /\ res[u] = {}
      /\ trial[u].plan = trial[u].selection.plan \/ u \in moved
      /\ ~tenant[u].named
  BY <1>2 DEF Fits, Deploying, Undoing
<1>8. Runs(u, t, job[u], n, res[u], w)
  BY <1>2, <1>3, <1>4, <1>5, <1>6 DEF Runs, OnJob, Deploying
<1>9. Fits(w.step, t, job[u], n, res[u], u \in moved)
  BY <1>4, <1>5, <1>6, <1>7 DEF Fits, Deploying, Undoing
<1> QED
  BY <1>2, <1>4, <1>6, <1>7, <1>8, <1>9, DeployerMoves

(* A step that makes or records a resource keeps PInv.                      *)
LEMMA BuildMoves ==
    ASSUME PInv, worker.step \in Deploying, NEW n, NEW r, NEW s \in Deploying,
           worker' = [worker EXCEPT !.step = s], UNCHANGED <<trial, job, tab, moved>>,
           tenant' = [tenant EXCEPT ![worker.t] = n], res' = [res EXCEPT ![worker.t] = r],
           DOMAIN n = TenantFields, r \subseteq Deploy!Kinds,
           Fits(s, trial[worker.t], "running", n, r, worker.t \in moved)
    PROVE  PInv'
<1>0. worker.step \in OnJob
  BY DEF OnJob
<1>1. PICK u : u = worker.t
  OBVIOUS
<1>2. PICK w : w = [worker EXCEPT !.step = s]
  OBVIOUS
<1>3. DOMAIN w = {"step", "t"} /\ w.step = s /\ w.t = u
  BY <1>0, <1>1, <1>2, OnTheJob
<1>4. /\ u \in Deploy!Trials /\ Fits(worker.step, trial[u], job[u], tenant[u], res[u], u \in moved)
      /\ DOMAIN trial[u] = TrialFields
      /\ trial = [trial EXCEPT ![u] = trial[u]] /\ job = [job EXCEPT ![u] = job[u]]
      /\ trial[u].selection # Deploy!NoSnapshot /\ trial[u].status \notin {"none", "draft"}
      /\ trial[u].status # "trial_active"
  BY <1>0, <1>1, OnTheJob
<1>5. job[u] = "running"
  BY <1>4 DEF Fits
<1>6. Runs(u, trial[u], job[u], n, r, w)
  BY <1>1, <1>2, <1>3, <1>4 DEF Runs, OnJob
<1>7. Fits(w.step, trial[u], job[u], n, r, u \in moved)
  BY <1>1, <1>3, <1>5
<1> QED
  BY <1>3, <1>4, <1>5, <1>6, <1>7, DeployerMoves

(* The seven steps between the validation and the health check.             *)
LEMMA BuildSteps ==
    ASSUME PInv,
           \/ Deploy!_prepare_tenant_filestore \/ Deploy!create_tenant_role
           \/ Deploy!clone_database_from_template \/ Deploy!run_tenant_odoo_container
           \/ Deploy!RecordFilestore \/ Deploy!_install_modules_one_shot \/ Deploy!RecordContainer
    PROVE  PInv'
<1>0. PICK u : u = worker.t
  OBVIOUS
<1>1. worker.step \in Deploying /\ UNCHANGED <<trial, job, tab, moved>>
  BY DEF Deploying, Deploy!_prepare_tenant_filestore, Deploy!create_tenant_role,
         Deploy!clone_database_from_template, Deploy!run_tenant_odoo_container, Deploy!Make,
         Deploy!RecordFilestore, Deploy!_install_modules_one_shot, Deploy!RecordContainer
<1>2. /\ DOMAIN tenant[u] = TenantFields /\ u \in DOMAIN tenant /\ u \in DOMAIN res
      /\ tenant = [tenant EXCEPT ![u] = tenant[u]] /\ res = [res EXCEPT ![u] = res[u]]
      /\ Fits(worker.step, trial[u], job[u], tenant[u], res[u], u \in moved)
      /\ res[u] \subseteq Deploy!Kinds
  BY <1>0, <1>1, OnTheJob DEF OnJob
<1>3. CASE \/ Deploy!_prepare_tenant_filestore \/ Deploy!create_tenant_role
           \/ Deploy!clone_database_from_template \/ Deploy!run_tenant_odoo_container
  <2>1. PICK s, k, next :
           /\ worker.step = s /\ tenant' = tenant /\ worker' = [worker EXCEPT !.step = next]
           /\ res' = [res EXCEPT ![u] = @ \cup {k}]
           /\ <<s, k, next>> \in {<<"filestore", "filestore", "record_store">>,
                                  <<"role", "role", "clone">>, <<"clone", "database", "install">>,
                                  <<"run", "container", "health">>}
    BY <1>0, <1>3 DEF Deploy!_prepare_tenant_filestore, Deploy!create_tenant_role,
         Deploy!clone_database_from_template, Deploy!run_tenant_odoo_container, Deploy!Make
  <2>2. PICK r : r = res[u] \cup {k}
    OBVIOUS
  <2>3. res' = [res EXCEPT ![u] = r] /\ r \subseteq Deploy!Kinds /\ next \in Deploying
    BY <1>2, <2>1, <2>2 DEF Deploy!Kinds, Deploying
  <2>4. /\ s = "filestore" => r = {"filestore"} /\ ~tenant[u].named
        /\ s = "role" => r = {"filestore", "role"} /\ ~tenant[u].named
        /\ s = "clone" => r = {"filestore", "role", "database"} /\ ~tenant[u].named
        /\ s = "run" => r = Deploy!Kinds /\ tenant[u].named
    BY <1>2, <2>1, <2>2 DEF Fits, Deploy!Kinds
  <2>5. /\ trial[u].selection # Deploy!NoSnapshot /\ trial[u].status = "provisioning"
        /\ trial[u].plan = trial[u].selection.plan \/ u \in moved
    BY <1>2, <2>1 DEF Fits, Deploying, Undoing
  <2>6. Fits(next, trial[u], "running", tenant[u], r, u \in moved)
    BY <2>1, <2>4, <2>5 DEF Fits, Deploying, Undoing
  <2> QED
    BY <1>0, <1>1, <1>2, <2>1, <2>3, <2>6, BuildMoves
<1>4. CASE Deploy!RecordFilestore \/ Deploy!_install_modules_one_shot \/ Deploy!RecordContainer
  <2>1. PICK s, next, n :
           /\ worker.step = s /\ res' = res /\ worker' = [worker EXCEPT !.step = next]
           /\ tenant' = [tenant EXCEPT ![u] = n] /\ DOMAIN n = TenantFields
           /\ <<s, next>> \in {<<"record_store", "role">>, <<"install", "port">>, <<"port", "run">>}
           /\ n.named = IF s = "port" THEN TRUE ELSE tenant[u].named
    <3>1. CASE Deploy!RecordFilestore
      <4> DEFINE n == [tenant[u] EXCEPT !.store = TRUE]
      <4>1. DOMAIN n = TenantFields /\ n.named = tenant[u].named
        BY <1>2 DEF TenantFields
      <4>2. tenant' = [tenant EXCEPT ![u] = n]
        BY <1>0, <1>2, <3>1 DEF Deploy!RecordFilestore
      <4> HIDE DEF n
      <4> QED
        BY <3>1, <4>1, <4>2 DEF Deploy!RecordFilestore
    <3>2. CASE Deploy!_install_modules_one_shot
      BY <1>2, <3>2 DEF Deploy!_install_modules_one_shot
    <3>3. CASE Deploy!RecordContainer
      <4> DEFINE n == [tenant[u] EXCEPT !.named = TRUE]
      <4>1. DOMAIN n = TenantFields /\ n.named = TRUE
        BY <1>2 DEF TenantFields
      <4>2. tenant' = [tenant EXCEPT ![u] = n]
        BY <1>0, <1>2, <3>3 DEF Deploy!RecordContainer
      <4> HIDE DEF n
      <4> QED
        BY <3>3, <4>1, <4>2 DEF Deploy!RecordContainer
    <3> QED
      BY <1>4, <3>1, <3>2, <3>3
  <2>2. next \in Deploying
    BY <2>1 DEF Deploying
  <2>3. /\ s = "record_store" => res[u] = {"filestore"} /\ ~n.named
        /\ s = "install" => res[u] = {"filestore", "role", "database"} /\ ~n.named
        /\ s = "port" => res[u] = {"filestore", "role", "database"} /\ n.named
    BY <1>2, <2>1 DEF Fits
  <2>4. /\ trial[u].selection # Deploy!NoSnapshot /\ trial[u].status = "provisioning"
        /\ trial[u].plan = trial[u].selection.plan \/ u \in moved
    BY <1>2, <2>1 DEF Fits, Deploying, Undoing
  <2>5. Fits(next, trial[u], "running", n, res[u], u \in moved)
    BY <2>1, <2>3, <2>4 DEF Fits, Deploying, Undoing
  <2> QED
    BY <1>0, <1>1, <1>2, <2>1, <2>2, <2>5, BuildMoves
<1> QED
  BY <1>3, <1>4

(* The deployment is marked active with every resource in place.            *)
LEMMA SucceedStep ==
    ASSUME PInv, Deploy!Succeed
    PROVE  PInv'
<1>0. PICK u : u = worker.t
  OBVIOUS
<1>1. worker.step = "health" /\ worker.step \in OnJob
  BY DEF Deploy!Succeed, OnJob, Deploying
<1> DEFINE t == [trial[u] EXCEPT !.status = "trial_active"]
           n == [tenant[u] EXCEPT !.status = "active"]
           w == [worker EXCEPT !.step = "audit"]
<1>2. /\ u \in Deploy!Trials /\ DOMAIN worker = {"step", "t"}
      /\ Fits("health", trial[u], job[u], tenant[u], res[u], u \in moved)
      /\ DOMAIN trial[u] = TrialFields /\ DOMAIN tenant[u] = TenantFields
      /\ res[u] \subseteq Deploy!Kinds /\ u \in DOMAIN trial /\ u \in DOMAIN tenant
      /\ res = [res EXCEPT ![u] = res[u]]
  BY <1>0, <1>1, OnTheJob
<1>3. /\ trial' = [trial EXCEPT ![u] = t] /\ tenant' = [tenant EXCEPT ![u] = n] /\ worker' = w
      /\ job' = [job EXCEPT ![u] = "succeeded"] /\ UNCHANGED <<res, tab, moved>>
  BY <1>0, <1>2 DEF Deploy!Succeed
<1>4. /\ DOMAIN t = TrialFields /\ t.status = "trial_active" /\ t.selection = trial[u].selection
      /\ t.plan = trial[u].plan
  BY <1>2 DEF TrialFields
<1>5. DOMAIN n = TenantFields /\ n.status = "active" /\ n.named = tenant[u].named
  BY <1>2 DEF TenantFields
<1>6. DOMAIN w = {"step", "t"} /\ w.step = "audit" /\ w.t = u
  BY <1>0, <1>2
<1> HIDE DEF t, n, w
<1>7. /\ trial[u].selection # Deploy!NoSnapshot
      /\ trial[u].plan = trial[u].selection.plan \/ u \in moved
      /\ res[u] = Deploy!Kinds /\ tenant[u].named
  BY <1>2 DEF Fits, Undoing
<1>8. Runs(u, t, "succeeded", n, res[u], w)
  BY <1>2, <1>3, <1>4, <1>5, <1>6 DEF Runs, OnJob
<1>9. Fits(w.step, t, "succeeded", n, res[u], u \in moved)
  BY <1>4, <1>5, <1>6, <1>7 DEF Fits, Deploying, Undoing
<1> QED
  BY <1>2, <1>4, <1>5, <1>6, <1>7, <1>8, <1>9, DeployerMoves

(* A failure leaves no container that is not recorded.                      *)
LEMMA FailStep ==
    ASSUME PInv, Deploy!_fail_job
    PROVE  PInv'
<1>0. PICK u : u = worker.t
  OBVIOUS
<1>1. worker.step \in OnJob \ (Undoing \cup {"validate", "accept"})
  BY DEF Deploy!_fail_job, OnJob, Deploying, Undoing
<1> DEFINE t == [trial[u] EXCEPT !.status = "failed"]
           w == [worker EXCEPT !.step = "rollback"]
<1>2. /\ u \in Deploy!Trials /\ DOMAIN worker = {"step", "t"}
      /\ Fits(worker.step, trial[u], job[u], tenant[u], res[u], u \in moved)
      /\ DOMAIN trial[u] = TrialFields /\ DOMAIN tenant[u] = TenantFields
      /\ res[u] \subseteq Deploy!Kinds /\ u \in DOMAIN trial /\ u \in DOMAIN res
      /\ tenant = [tenant EXCEPT ![u] = tenant[u]]
      /\ trial[u].selection # Deploy!NoSnapshot
  BY <1>0, <1>1, OnTheJob
<1>3. PICK made \in SUBSET Deploy!Made(worker.step) : res' = [res EXCEPT ![u] = @ \cup made]
  BY <1>0 DEF Deploy!_fail_job
<1>4. PICK r : r = res[u] \cup made
  OBVIOUS
<1>5. /\ trial' = [trial EXCEPT ![u] = t] /\ worker' = w /\ UNCHANGED <<tenant, tab, moved>>
      /\ job' = [job EXCEPT ![u] = "rollback_required"] /\ res' = [res EXCEPT ![u] = r]
  BY <1>0, <1>2, <1>3, <1>4 DEF Deploy!_fail_job
<1>6. DOMAIN t = TrialFields /\ t.status = "failed" /\ t.selection = trial[u].selection
  BY <1>2 DEF TrialFields
<1>7. DOMAIN w = {"step", "t"} /\ w.step = "rollback" /\ w.t = u
  BY <1>0, <1>2
<1> HIDE DEF t, w
<1>8. /\ "container" \in Deploy!Made(worker.step) => worker.step = "run"
      /\ Deploy!Made(worker.step) \subseteq Deploy!Kinds
  BY DEF Deploy!Made, Deploy!Kinds
<1>9. r \subseteq Deploy!Kinds /\ ("container" \in r => tenant[u].named)
  <2>1. "container" \in res[u] => tenant[u].named
    BY <1>1, <1>2 DEF Fits, OnJob, Deploying, Undoing
  <2>2. worker.step = "run" => tenant[u].named
    BY <1>2 DEF Fits
  <2> QED
    BY <1>2, <1>4, <1>8, <2>1, <2>2
<1>10. Runs(u, t, "rollback_required", tenant[u], r, w)
  BY <1>2, <1>5, <1>6, <1>7, <1>9 DEF Runs, OnJob, Undoing
<1>11. Fits(w.step, t, "rollback_required", tenant[u], r, u \in moved)
  BY <1>2, <1>6, <1>7, <1>9 DEF Fits, Deploying, Undoing
<1> QED
  BY <1>2, <1>6, <1>7, <1>10, <1>11, DeployerMoves

(* A rollback that removes all it looks for leaves at most an unrecorded    *)
(* filestore.                                                               *)
LEMMA RollbackStep ==
    ASSUME PInv, Deploy!rollback_deployment_job
    PROVE  PInv'
<1>0. PICK u : u = worker.t
  OBVIOUS
<1>1. worker.step = "rollback" /\ worker.step \in OnJob /\ worker.step \in Undoing
  BY DEF Deploy!rollback_deployment_job, OnJob, Undoing
<1> DEFINE n == [tenant[u] EXCEPT !.status = "failed"]
<1>2. /\ u \in Deploy!Trials /\ Fits("rollback", trial[u], job[u], tenant[u], res[u], u \in moved)
      /\ DOMAIN trial[u] = TrialFields /\ DOMAIN tenant[u] = TenantFields
      /\ res[u] \subseteq Deploy!Kinds /\ u \in DOMAIN tenant /\ u \in DOMAIN res
      /\ trial = [trial EXCEPT ![u] = trial[u]] /\ trial[u].selection # Deploy!NoSnapshot
      /\ trial[u].status \notin {"none", "draft"} /\ trial[u].status # "trial_active"
  BY <1>0, <1>1, OnTheJob
<1>3. PICK w : w = [step |-> "idle", t |-> 0]
  OBVIOUS
<1>4. PICK left \in SUBSET (res[u] \cap Deploy!Recorded(u)) :
         /\ res' = [res EXCEPT ![u] = (@ \ Deploy!Recorded(u)) \cup left]
         /\ job' = [job EXCEPT ![u] = IF left = {} THEN "rolled_back" ELSE "rollback_failed"]
  BY <1>0 DEF Deploy!rollback_deployment_job
<1>5. PICK r : r = (res[u] \ Deploy!Recorded(u)) \cup left
  OBVIOUS
<1>6. PICK j : j = IF left = {} THEN "rolled_back" ELSE "rollback_failed"
  OBVIOUS
<1>7. /\ tenant' = [tenant EXCEPT ![u] = n] /\ worker' = w /\ UNCHANGED <<trial, tab, moved>>
      /\ job' = [job EXCEPT ![u] = j] /\ res' = [res EXCEPT ![u] = r]
  BY <1>0, <1>2, <1>3, <1>4, <1>5, <1>6 DEF Deploy!rollback_deployment_job
<1>8. DOMAIN n = TenantFields /\ n.store = tenant[u].store
  BY <1>2 DEF TenantFields
<1> HIDE DEF n
<1>9. r \subseteq Deploy!Kinds /\ j \in {"rolled_back", "rollback_failed"}
  BY <1>2, <1>4, <1>5, <1>6
<1>10. j = "rolled_back" => r = {} \/ (r = {"filestore"} /\ ~n.store)
  <2>1. "container" \in res[u] => tenant[u].named
    BY <1>2 DEF Fits
  <2>2. /\ "role" \in Deploy!Recorded(u) /\ "database" \in Deploy!Recorded(u)
        /\ tenant[u].store => "filestore" \in Deploy!Recorded(u)
        /\ tenant[u].named => "container" \in Deploy!Recorded(u)
    BY DEF Deploy!Recorded
  <2>3. res[u] \ Deploy!Recorded(u) \subseteq {"filestore"}
    BY <1>2, <2>1, <2>2 DEF Deploy!Kinds
  <2>4. tenant[u].store => res[u] \ Deploy!Recorded(u) = {}
    BY <2>2, <2>3
  <2>5. j = "rolled_back" => r = res[u] \ Deploy!Recorded(u)
    BY <1>5, <1>6
  <2> QED
    BY <1>8, <2>3, <2>4, <2>5
<1>11. DOMAIN w = {"step", "t"} /\ w.step = "idle"
  BY <1>3
<1>12. Runs(u, trial[u], j, n, r, w)
  BY <1>2, <1>7, <1>8, <1>9, <1>11 DEF Runs
<1> QED
  BY <1>2, <1>9, <1>10, <1>11, <1>12, DeployerMoves DEF OnJob, Deploying, Undoing

(* The worker dies, and its job is nobody's.                                *)
LEMMA WorkerCrashStep ==
    ASSUME PInv, Deploy!WorkerCrash
    PROVE  PInv'
<1>0. PICK u : u = worker.t
  OBVIOUS
<1>1. PICK w : w = [step |-> "idle", t |-> 0]
  OBVIOUS
<1>2. DOMAIN w = {"step", "t"} /\ w.step = "idle" /\ worker' = w
  BY <1>1 DEF Deploy!WorkerCrash
<1>3. UNCHANGED <<trial, job, tenant, tab, moved>>
  BY DEF Deploy!WorkerCrash
<1>4. CASE worker.step # "rollback"
  <2>1. res' = res
    BY <1>4 DEF Deploy!WorkerCrash
  <2> QED
    BY <1>2, <1>3, <2>1, DeployerElsewhere
<1>5. CASE worker.step = "rollback"
  <2>1. worker.step \in OnJob /\ worker.step \in Undoing
    BY <1>5 DEF OnJob, Undoing
  <2>2. /\ u \in Deploy!Trials /\ Fits("rollback", trial[u], job[u], tenant[u], res[u], u \in moved)
        /\ DOMAIN trial[u] = TrialFields /\ DOMAIN tenant[u] = TenantFields
        /\ res[u] \subseteq Deploy!Kinds /\ u \in DOMAIN res
        /\ trial = [trial EXCEPT ![u] = trial[u]] /\ tenant = [tenant EXCEPT ![u] = tenant[u]]
        /\ job = [job EXCEPT ![u] = job[u]] /\ trial[u].selection # Deploy!NoSnapshot
        /\ trial[u].status \notin {"none", "draft"} /\ trial[u].status # "trial_active"
    BY <1>0, <1>5, <2>1, OnTheJob
  <2>3. PICK gone : res' = [res EXCEPT ![u] = @ \ gone]
    BY <1>0, <1>5 DEF Deploy!WorkerCrash
  <2>4. PICK r : r = res[u] \ gone
    OBVIOUS
  <2>5. res' = [res EXCEPT ![u] = r] /\ r \subseteq Deploy!Kinds
    BY <2>2, <2>3, <2>4
  <2>6. job[u] = "rollback_required"
    BY <2>2 DEF Fits
  <2>7. Runs(u, trial[u], job[u], tenant[u], r, w)
    BY <1>2, <1>3, <2>2, <2>5 DEF Runs
  <2> QED
    BY <1>2, <2>2, <2>6, <2>7, DeployerMoves DEF OnJob, Deploying, Undoing
<1> QED
  BY <1>4, <1>5

(* Every step of the wizard, the worker and the crashes keeps the           *)
(* invariant.                                                               *)
LEMMA DeploymentStep ==
    ASSUME PInv, Deploy!Next
    PROVE  PInv'
<1>1. \/ \E allowed : Deploy!EditRules(allowed)
      \/ \E b \in Tabs : \/ \E plan \in Plans : Deploy!ChoosePlan(b, plan)
                         \/ \E apps \in Selections : Deploy!ChooseModules(b, apps)
                         \/ Deploy!MissDraft(b) \/ Deploy!review_step_context(b)
                         \/ Deploy!LeavePage(b) \/ Deploy!CheckConfirm(b)
                         \/ Deploy!TabStep(b) \/ Deploy!WebCrash(b)
      \/ Deploy!queue_base_template_build \/ Deploy!WorkerStep \/ Deploy!WorkerCrash
  BY DEF Deploy!Next
<1>2. ASSUME NEW b \in Tabs, Deploy!TabStep(b)
      PROVE  PInv'
  BY <1>2, InsertDraftStep, DraftSteps, ConfirmStep, QueueStep DEF Deploy!TabStep
<1>3. CASE Deploy!WorkerStep
  BY <1>3, TemplateSteps, ClaimJobStep, ValidateStep, ReserveStep, BuildSteps, SucceedStep,
     FailStep, RollbackStep DEF Deploy!WorkerStep
<1> QED
  BY <1>1, <1>2, <1>3, TemplateSteps, ChooseSteps, PageSteps, ReviewStep, WorkerCrashStep

(* PInv depends on the deployment's variables only.                         *)
LEMMA DeploymentStutter ==
    ASSUME PInv, UNCHANGED deployVars
    PROVE  PInv'
<1>1. UNCHANGED <<trial, job, tenant, res, tab, moved>> /\ worker' = worker
  BY DEF deployVars
<1>2. DOMAIN worker' = {"step", "t"}
  BY <1>1 DEF PInv, DeployShapes
<1> QED
  BY <1>1, <1>2, DeployerElsewhere

(* Every step of the composition keeps the invariant.                       *)
LEMMA DeploymentKeeps ==
    ASSUME PInv, [Next]_all
    PROVE  PInv'
<1>1. CASE part = "deploy" /\ Deploy!Next
  BY <1>1, DeploymentStep
<1>2. CASE UNCHANGED deployVars
  BY <1>2, DeploymentStutter
<1> QED
  BY <1>1, <1>2 DEF Next, all

(* PInv holds of every state.                                               *)
LEMMA DeploymentInvariant == Spec => []PInv
<1>1. Init => PInv
  BY DeploymentBegins
<1>2. PInv /\ [Next]_all => PInv'
  BY DeploymentKeeps
<1>3. Spec => Init /\ [][Next]_all
  BY Behaves
<1> QED
  BY <1>1, <1>2, <1>3, PTL

(* An active trial has its role, database, filestore and container, an      *)
(* active tenant, and the plan its selection was validated against unless a *)
(* tab wrote another over it after that validation, whatever its tabs, plan *)
(* edits, failures and crashes, for any number of trials and tabs           *)
(* (execute_deployment_job, set_wizard_plan).                               *)
THEOREM ActiveDeploymentIsServed == Spec => []DeployedIsServed
<1>1. PInv => DeployedIsServed
  BY DEF PInv, TrialOk, DeployedIsServed, Deploy!ActiveIsServed
<1> QED
  BY <1>1, DeploymentInvariant, PTL

(* A deployment that is rolled back leaves nothing but a filestore whose    *)
(* path was never recorded, for any number of trials                        *)
(* (rollback_deployment_job).                                               *)
THEOREM RollbackLeavesNothing == Spec => []RolledBackIsClean
<1>1. PInv => RolledBackIsClean
  BY DEF PInv, TrialOk, RolledBackIsClean, Deploy!RolledBackIsClean
<1> QED
  BY <1>1, DeploymentInvariant, PTL

-------------------------------------------------------------------------------

(* The least of a set of modules is one of them (_topological_order).       *)
LEMMA LeastModule ==
    ASSUME NEW S \in SUBSET Modules, S # {}
    PROVE  Selection!Least(S) \in S
<1> DEFINE Less == OpToRel(<, Nat)
<1>1. IsWellFoundedOn(Less, Nat)
  BY NatLessThanWellFounded
<1>2. S \subseteq Nat /\ S # {}
  BY PlatformBounds DEF Selection!SelectionAssumption
<1>3. PICK x \in S : \A y \in S : ~ (<<y, x>> \in Less)
  <2> HIDE DEF Less
  <2> QED
    BY <1>1, <1>2, WFMin
<1>4. \A y \in S : x <= y
  <2> TAKE y \in S
  <2>1. ~ (y < x)
    BY <1>2, <1>3 DEF OpToRel
  <2> QED
    BY <1>2, <2>1
<1> QED
  BY <1>4 DEF Selection!Least

(* How many modules of a set come before one of them.                       *)
Rank(S, x) == Cardinality({y \in S : y < x})

(* Instantiating FiniteSets changes no cardinality.                         *)
LEMMA SameCount == \A S : Selection!Cardinality(S) = Cardinality(S)
BY DEF Selection!Cardinality, Cardinality

(* A set of modules is finite, and its names are ordered.                   *)
LEMMA FiniteModules ==
    ASSUME NEW S \in SUBSET Modules
    PROVE  IsFiniteSet(S) /\ S \subseteq Nat /\ Cardinality(S) \in Nat
<1>1. IsFiniteSet(Modules) /\ Modules \subseteq Nat
  BY PlatformBounds DEF Selection!SelectionAssumption, Selection!IsFiniteSet, IsFiniteSet
<1>2. IsFiniteSet(S)
  BY <1>1, FS_Subset
<1> QED
  BY <1>1, <1>2, FS_CardinalityType

(* Two modules of a set have different ranks.                               *)
LEMMA RanksAreDistinct ==
    ASSUME NEW S \in SUBSET Modules, NEW x \in S, NEW z \in S, x # z
    PROVE  Rank(S, x) # Rank(S, z)
<1>1. ASSUME NEW a \in S, NEW b \in S, a < b
      PROVE  Rank(S, a) # Rank(S, b)
  <2> DEFINE A == {y \in S : y < a}
             B == {y \in S : y < b}
  <2>1. a \in Nat /\ b \in Nat /\ S \subseteq Nat /\ IsFiniteSet(S)
    BY FiniteModules
  <2>2. A \subseteq B /\ B \subseteq S
    <3>1. ASSUME NEW y \in S, y < a
          PROVE  y < b
      <4>1. y \in Nat /\ a < b
        BY <1>1, <2>1
      <4> QED
        BY <2>1, <3>1, <4>1
    <3> QED
      BY <3>1
  <2>3. a \in B /\ a \notin A
    BY <1>1, <2>1
  <2>4. IsFiniteSet(B)
    BY <2>1, <2>2, FS_Subset
  <2> HIDE DEF A, B
  <2>5. Cardinality(B) = Cardinality(A) => B = A
    BY <2>2, <2>4, FS_Subset
  <2>6. Cardinality(B) # Cardinality(A)
    BY <2>3, <2>5
  <2> QED
    BY <2>6 DEF Rank, A, B
<1>2. x \in Nat /\ z \in Nat
  BY FiniteModules
<1> QED
  BY <1>1, <1>2

(* A rank is smaller than the size of the set.                              *)
LEMMA RankIsPlace ==
    ASSUME NEW S \in SUBSET Modules, NEW x \in S
    PROVE  Rank(S, x) \in 0 .. Cardinality(S) - 1
<1> DEFINE A == {y \in S : y < x}
<1>1. IsFiniteSet(S) /\ S \subseteq Nat /\ Cardinality(S) \in Nat
  BY FiniteModules
<1>2. A \subseteq S \ {x}
  BY <1>1
<1>3. IsFiniteSet(S \ {x}) /\ Cardinality(S \ {x}) = Cardinality(S) - 1
  BY <1>1, FS_RemoveElement
<1> HIDE DEF A
<1>4. IsFiniteSet(A) /\ Cardinality(A) <= Cardinality(S) - 1
  BY <1>2, <1>3, FS_Subset
<1>5. Cardinality(A) \in Nat
  BY <1>4, FS_CardinalityType
<1>6. Rank(S, x) = Cardinality(A)
  BY DEF Rank, A
<1> QED
  BY <1>1, <1>4, <1>5, <1>6

(* So every smaller number is the rank of a module.                         *)
LEMMA EveryPlaceIsTaken ==
    ASSUME NEW S \in SUBSET Modules, NEW k \in 0 .. Cardinality(S) - 1
    PROVE  \E x \in S : Rank(S, x) = k
<1>1. IsFiniteSet(S) /\ Cardinality(S) \in Nat
  BY FiniteModules
<1>2. SUFFICES ASSUME \A x \in S : Rank(S, x) # k
               PROVE  FALSE
  OBVIOUS
<1> DEFINE T == (0 .. Cardinality(S) - 1) \ {k}
           f == [x \in S |-> Rank(S, x)]
<1>3. IsFiniteSet(0 .. Cardinality(S) - 1) /\ Cardinality(0 .. Cardinality(S) - 1) = Cardinality(S)
  BY <1>1, FS_Interval
<1>4. IsFiniteSet(T) /\ Cardinality(T) = Cardinality(S) - 1
  BY <1>1, <1>3, FS_RemoveElement
<1>5. f \in [S -> T]
  BY <1>2, RankIsPlace
<1>6. PICK x, y \in S : x # y /\ f[x] = f[y]
  <2>1. Cardinality(T) < Cardinality(S)
    BY <1>1, <1>4
  <2> HIDE DEF f, T
  <2> QED
    BY <1>1, <1>4, <1>5, <2>1, FS_PigeonHole
<1>7. Rank(S, x) = Rank(S, y)
  BY <1>6
<1> QED
  BY <1>6, <1>7, RanksAreDistinct

(* Ascending lists a set: it has the set's elements, each once.             *)
LEMMA AscendingLists ==
    ASSUME NEW S \in SUBSET Modules
    PROVE  /\ Selection!Ascending(S) \in Seq(S)
           /\ Len(Selection!Ascending(S)) = Cardinality(S)
           /\ Selection!Elements(Selection!Ascending(S)) = S
<1> DEFINE s == Selection!Ascending(S)
           n == Cardinality(S)
           At(i) == CHOOSE x \in S : Selection!Cardinality({y \in S : y < x}) = i - 1
<1>1. n \in Nat
  BY FiniteModules
<1>2. s = [i \in 1 .. n |-> At(i)]
  BY SameCount DEF Selection!Ascending
<1>3. \A i \in 1 .. n : At(i) \in S /\ Rank(S, At(i)) = i - 1
  <2> TAKE i \in 1 .. n
  <2>1. i - 1 \in 0 .. Cardinality(S) - 1
    BY <1>1
  <2>2. PICK x \in S : Rank(S, x) = i - 1
    BY <2>1, EveryPlaceIsTaken
  <2>3. Selection!Cardinality({y \in S : y < x}) = i - 1
    BY <2>2, SameCount DEF Rank
  <2>4. At(i) \in S /\ Selection!Cardinality({y \in S : y < At(i)}) = i - 1
    BY <2>3
  <2> QED
    BY <2>4, SameCount DEF Rank
<1> HIDE DEF At, s
<1>4. s \in Seq(S) /\ Len(s) = n /\ \A i \in 1 .. n : s[i] = At(i)
  BY <1>1, <1>2, <1>3
<1>5. \A x \in S : \E i \in 1 .. n : s[i] = x
  <2> TAKE x \in S
  <2>1. PICK k \in 0 .. n - 1 : k = Rank(S, x)
    BY RankIsPlace
  <2>2. k + 1 \in 1 .. n /\ (k + 1) - 1 = k
    BY <1>1, <2>1
  <2>3. At(k + 1) \in S /\ Rank(S, At(k + 1)) = k
    BY <1>3, <2>2
  <2>4. At(k + 1) = x
    BY <2>1, <2>3, RanksAreDistinct
  <2> QED
    BY <1>4, <2>2, <2>4
<1>6. Selection!Elements(s) = S
  BY <1>3, <1>4, <1>5 DEF Selection!Elements
<1> QED
  BY <1>4, <1>6 DEF s

(* The arguments of add_module.                                             *)
Pairs == Modules \X BOOLEAN

(* The modules that calls name.                                             *)
Named(s) == {s[i][1] : i \in 1 .. Len(s)}

(* Calls in a row name what each names.                                     *)
LEMMA NamedTogether ==
    ASSUME NEW s \in Seq(Pairs), NEW t \in Seq(Pairs)
    PROVE  s \o t \in Seq(Pairs) /\ Named(s \o t) = Named(s) \cup Named(t)
<1>1. /\ s \o t \in Seq(Pairs) /\ Len(s \o t) = Len(s) + Len(t)
      /\ Len(s) \in Nat /\ Len(t) \in Nat
      /\ \A i \in 1 .. Len(s) + Len(t) :
           (s \o t)[i] = IF i <= Len(s) THEN s[i] ELSE t[i - Len(s)]
  BY ConcatProperties, LenProperties
<1>2. ASSUME NEW x \in Named(s \o t)
      PROVE  x \in Named(s) \cup Named(t)
  <2>1. PICK i \in 1 .. Len(s \o t) : x = (s \o t)[i][1]
    BY <1>2 DEF Named
  <2>2. CASE i <= Len(s)
    BY <1>1, <2>1, <2>2 DEF Named
  <2>3. CASE ~(i <= Len(s))
    <3>1. i - Len(s) \in 1 .. Len(t) /\ x = t[i - Len(s)][1]
      BY <1>1, <2>1, <2>3
    <3> QED
      BY <3>1 DEF Named
  <2> QED
    BY <2>2, <2>3
<1>3. ASSUME NEW x \in Named(s)
      PROVE  x \in Named(s \o t)
  <2>1. PICK i \in 1 .. Len(s) : x = s[i][1]
    BY <1>3 DEF Named
  <2>2. i \in 1 .. Len(s \o t) /\ x = (s \o t)[i][1]
    BY <1>1, <2>1
  <2> QED
    BY <2>2 DEF Named
<1>4. ASSUME NEW x \in Named(t)
      PROVE  x \in Named(s \o t)
  <2>1. PICK i \in 1 .. Len(t) : x = t[i][1]
    BY <1>4 DEF Named
  <2>2. Len(s) + i \in 1 .. Len(s \o t) /\ x = (s \o t)[Len(s) + i][1]
    <3>1. Len(s) + i \in 1 .. Len(s) + Len(t) /\ ~(Len(s) + i <= Len(s)) /\ (Len(s) + i) - Len(s) = i
      BY <1>1
    <3> QED
      BY <1>1, <2>1, <3>1
  <2> QED
    BY <2>2 DEF Named
<1> QED
  BY <1>1, <1>2, <1>3, <1>4

(* A call for each module of a list names the list.                         *)
LEMMA NamedFrom ==
    ASSUME NEW s \in Seq(Modules), NEW top \in BOOLEAN
    PROVE  /\ [i \in 1 .. Len(s) |-> <<s[i], top>>] \in Seq(Pairs)
           /\ Named([i \in 1 .. Len(s) |-> <<s[i], top>>]) = Selection!Elements(s)
<1> DEFINE c == [i \in 1 .. Len(s) |-> <<s[i], top>>]
<1>1. Len(s) \in Nat /\ \A i \in 1 .. Len(s) : s[i] \in Modules
  BY LenProperties, ElementOfSeq
<1>2. \A i \in 1 .. Len(s) : c[i] \in Pairs /\ c[i][1] = s[i]
  BY <1>1 DEF Pairs
<1>3. c \in [1 .. Len(s) -> Pairs]
  BY <1>2
<1>4. c \in Seq(Pairs) /\ Len(c) = Len(s)
  BY <1>1, <1>3
<1>5. Named(c) = Selection!Elements(s)
  <2> HIDE DEF c
  <2> QED
    BY <1>2, <1>4 DEF Named, Selection!Elements
<1> QED
  BY <1>4, <1>5

(* The first call and the rest name what the calls name.                    *)
LEMMA NamedRest ==
    ASSUME NEW s \in Seq(Pairs), s # <<>>
    PROVE  /\ Head(s) \in Pairs /\ Tail(s) \in Seq(Pairs)
           /\ Named(s) = {Head(s)[1]} \cup Named(Tail(s))
<1>1. /\ Head(s) \in Pairs /\ Tail(s) \in Seq(Pairs) /\ Head(s) = s[1]
      /\ Len(s) \in Nat \ {0} /\ Len(Tail(s)) = Len(s) - 1
      /\ \A i \in 1 .. Len(Tail(s)) : Tail(s)[i] = s[i + 1]
  BY HeadTailProperties, EmptySeq
<1>2. ASSUME NEW x \in Named(s)
      PROVE  x \in {Head(s)[1]} \cup Named(Tail(s))
  <2>1. PICK i \in 1 .. Len(s) : x = s[i][1]
    BY <1>2 DEF Named
  <2>2. CASE i = 1
    BY <1>1, <2>1, <2>2
  <2>3. CASE i # 1
    <3>1. i - 1 \in 1 .. Len(Tail(s)) /\ (i - 1) + 1 = i
      BY <1>1, <2>3
    <3>2. x = Tail(s)[i - 1][1]
      BY <1>1, <2>1, <3>1
    <3> QED
      BY <3>1, <3>2 DEF Named
  <2> QED
    BY <2>2, <2>3
<1>3. Head(s)[1] \in Named(s)
  <2>1. 1 \in 1 .. Len(s)
    BY <1>1
  <2> QED
    BY <1>1, <2>1 DEF Named
<1>4. ASSUME NEW x \in Named(Tail(s))
      PROVE  x \in Named(s)
  <2>1. PICK i \in 1 .. Len(Tail(s)) : x = Tail(s)[i][1]
    BY <1>4 DEF Named
  <2>2. i + 1 \in 1 .. Len(s) /\ x = s[i + 1][1]
    BY <1>1, <2>1
  <2> QED
    BY <2>2 DEF Named
<1> QED
  BY <1>1, <1>2, <1>3, <1>4

(* What the closure starts from: the requested and the required modules.    *)
Roots == Selection!Elements(requested) \cup Selection!Required

(* The modules without an active row.                                       *)
Lacking == {m \in Modules : catalog.kind[m] = "absent"}

(* What add_module asks for after it selects a module.                      *)
Calls(m) == catalog.deps[m] \cup catalog.auto[m]

(* A set with the roots and, for each module, all it calls that the         *)
(* catalogue has.                                                           *)
Holds(T) == Roots \subseteq T /\ \A m \in T : Calls(m) \ Lacking \subseteq T

(* The types of the resolver's state, what a refusal leaves, and where it   *)
(* starts.                                                                  *)
SelectShapes ==
    /\ catalog \in [kind : [Modules -> Selection!Kinds], deps : [Modules -> SUBSET Modules],
                    auto : [Modules -> SUBSET Modules]]
    /\ requested \in Seq(Modules) /\ calls \in Seq(Pairs)
    /\ phase \in {"validate", "resolve", "order", "done"}
    /\ selected \subseteq Modules /\ missing \subseteq Lacking /\ blocked \subseteq Modules
    /\ \A m \in selected : catalog.kind[m] \notin {"barred", "absent"}
    /\ blocked # {} => errors # {}
    /\ phase \in {"validate", "resolve"} => order = <<>>
    /\ phase = "validate" => selected = {} /\ blocked = {}

(* While a selection is not refused: nothing the roots or the selected      *)
(* modules call is forgotten, and every set that holds the roots and its    *)
(* own calls holds what is selected and what is still to be added.          *)
Collected ==
    /\ Roots \cap Lacking = {}
    /\ Roots \subseteq selected \cup blocked \cup Named(calls)
    /\ \A m \in selected : Calls(m) \subseteq selected \cup missing \cup blocked \cup Named(calls)
    /\ \A T \in SUBSET Modules : Holds(T) => selected \subseteq T /\ Named(calls) \ Lacking \subseteq T
    /\ phase # "resolve" => calls = <<>>

(* Every module of the order comes after those it depends on.               *)
InOrder ==
    \A i \in 1 .. Len(order) : Selection!graph(order[i]) \subseteq {order[j] : j \in 1 .. i - 1}

(* The modules already ordered.                                             *)
Placed == Selection!Elements(order)

(* Kahn's algorithm: a degree counts the dependencies not yet placed, and   *)
(* the queue holds the modules that wait for none.                          *)
Sorting ==
    /\ order \in Seq(Modules) /\ Placed \subseteq selected
    /\ \A i, j \in 1 .. Len(order) : order[i] = order[j] => i = j
    /\ \A m \in selected : indegree[m] = Cardinality(Selection!graph(m) \ Placed)
    /\ queue = {m \in selected \ Placed : Selection!graph(m) \subseteq Placed}
    /\ InOrder

(* The order holds every selected module once.                              *)
Sorted == Len(order) = Cardinality(selected) /\ Placed = selected /\ InOrder

(* The selection is not refused.                                            *)
Accepted == phase \in {"resolve", "order"} \/ (phase = "done" /\ errors = {})

(* The inductive invariant of the resolver.                                 *)
SInv ==
    IF part = "selection"
    THEN /\ SelectShapes /\ (Accepted => Collected)
         /\ phase = "order" => Sorting
         /\ phase = "done" /\ errors = {} => Sorted
    ELSE phase = "validate"

(* The invariant holds at the start.                                        *)
LEMMA SelectionBegins ==
    ASSUME Init
    PROVE  SInv
<1>1. CASE part = "selection"
  <2>1. Selection!Init
    BY <1>1 DEF Init
  <2>2. /\ catalog \in Catalogs /\ requested \in Requests /\ phase = "validate" /\ calls = <<>>
        /\ selected = {} /\ missing = {} /\ blocked = {} /\ order = <<>>
    BY <2>1 DEF Selection!Init
  <2>3. calls \in Seq(Pairs)
    BY <2>2, EmptySeq
  <2>4. SelectShapes
    BY <2>2, <2>3, PlatformBounds DEF SelectShapes, Selection!SelectionAssumption
  <2> QED
    BY <1>1, <2>2, <2>4 DEF SInv, Accepted
<1>2. CASE part # "selection"
  BY <1>2 DEF Init, SInv
<1> QED
  BY <1>1, <1>2

(* A sequence of modules holds modules.                                     *)
LEMMA ElementsAreModules ==
    ASSUME NEW s \in Seq(Modules)
    PROVE  Selection!Elements(s) \subseteq Modules
BY ElementOfSeq DEF Selection!Elements

(* The validation refuses, or calls add_module for every root.              *)
LEMMA ValidateSelectionStep ==
    ASSUME SInv, part = "selection", part' = part, Selection!validate_plan_module_selection
    PROVE  SInv'
<1>1. SelectShapes /\ phase = "validate"
  BY DEF SInv, Selection!validate_plan_module_selection
<1>2. UNCHANGED <<catalog, planRules, requested, selected, missing, blocked, order>>
  BY DEF Selection!validate_plan_module_selection
<1>3. selected = {} /\ order = <<>>
  BY <1>1 DEF SelectShapes
<1>4. CASE Selection!Unknown # {}
  <2>1. phase' = "done" /\ calls' = calls
    BY <1>4 DEF Selection!validate_plan_module_selection
  <2>2. "dependency_error" \in errors'
    <3> DEFINE A == UNION {Selection!Refusal(m) : m \in Selection!Elements(requested)}
               B == IF Len(Selection!RequestedApps) > AppLimit THEN {"app_limit_exceeded"} ELSE {}
               C == IF Selection!Unknown # {} THEN {"dependency_error"} ELSE {}
    <3>1. errors' = A \cup B \cup C
      BY DEF Selection!validate_plan_module_selection
    <3>2. C = {"dependency_error"}
      BY <1>4
    <3> HIDE DEF A, B, C
    <3> QED
      BY <3>1, <3>2
  <2>3. SelectShapes'
    BY <1>1, <1>2, <2>1, <2>2 DEF SelectShapes, Lacking
  <2> QED
    BY <2>1, <2>2, <2>3 DEF SInv, Accepted
<1>5. CASE Selection!Unknown = {}
  <2> DEFINE R == Selection!Required \ Selection!Elements(requested)
             asked == [i \in 1 .. Len(requested) |-> <<requested[i], TRUE>>]
             added == [i \in 1 .. Len(Selection!Ascending(R)) |-> <<Selection!Ascending(R)[i], TRUE>>]
  <2>1. R \in SUBSET Modules
    BY DEF Selection!Required
  <2>2. /\ Selection!Ascending(R) \in Seq(Modules) /\ Selection!Elements(Selection!Ascending(R)) = R
        /\ Len(Selection!Ascending(R)) = Selection!Cardinality(R)
    <3> HIDE DEF R
    <3> QED
      BY <2>1, AscendingLists, SameCount, SeqMonotonic
  <2>3. phase' = "resolve" /\ calls' = asked \o added
    BY <1>5, <2>2 DEF Selection!validate_plan_module_selection
  <2>4. asked \in Seq(Pairs) /\ Named(asked) = Selection!Elements(requested)
    BY <1>1, NamedFrom DEF SelectShapes
  <2>5. added \in Seq(Pairs) /\ Named(added) = R
    <3> HIDE DEF R
    <3> QED
      BY <2>2, NamedFrom
  <2>6. calls' \in Seq(Pairs) /\ Named(calls') = Selection!Elements(requested) \cup R
    <3> HIDE DEF asked, added, R
    <3> QED
      BY <2>3, <2>4, <2>5, NamedTogether
  <2>7. Named(calls') = Roots
    BY <2>6 DEF Roots
  <2> HIDE DEF R, asked, added
  <2>8. Roots' = Roots /\ Lacking' = Lacking /\ \A m : Calls(m)' = Calls(m)
    BY <1>2 DEF Roots, Lacking, Calls, Selection!Required, Selection!Elements
  <2>9. Roots \cap Lacking = {}
    <3>1. Selection!Elements(requested) \cap Lacking = {}
      BY <1>5 DEF Selection!Unknown, Lacking
    <3>2. Selection!Required \cap Lacking = {}
      BY DEF Selection!Required, Lacking
    <3> QED
      BY <3>1, <3>2 DEF Roots
  <2>10. Collected'
    <3>1. \A T \in SUBSET Modules : Holds(T)' => Roots \subseteq T
      BY <2>8 DEF Holds
    <3>2. selected' = {} /\ Named(calls)' = Roots
      BY <1>2, <1>3, <2>7 DEF Named
    <3> QED
      BY <2>3, <2>8, <2>9, <3>1, <3>2 DEF Collected
  <2>11. SelectShapes'
    <3>1. blocked' = {}
      BY <1>1, <1>2 DEF SelectShapes
    <3> QED
      BY <1>1, <1>2, <2>3, <2>6, <3>1 DEF SelectShapes, Lacking
  <2> QED
    BY <2>3, <2>10, <2>11 DEF SInv, Accepted
<1> QED
  BY <1>4, <1>5

(* Two sequences in a row hold what each holds.                             *)
LEMMA ElementsTogether ==
    ASSUME NEW s \in Seq(Modules), NEW t \in Seq(Modules)
    PROVE  /\ s \o t \in Seq(Modules)
           /\ Selection!Elements(s \o t) = Selection!Elements(s) \cup Selection!Elements(t)
<1>1. /\ s \o t \in Seq(Modules) /\ Len(s \o t) = Len(s) + Len(t)
      /\ Len(s) \in Nat /\ Len(t) \in Nat
      /\ \A i \in 1 .. Len(s) + Len(t) : (s \o t)[i] = IF i <= Len(s) THEN s[i] ELSE t[i - Len(s)]
  BY ConcatProperties, LenProperties
<1>2. ASSUME NEW x \in Selection!Elements(s \o t)
      PROVE  x \in Selection!Elements(s) \cup Selection!Elements(t)
  <2>1. PICK i \in 1 .. Len(s \o t) : x = (s \o t)[i]
    BY <1>2 DEF Selection!Elements
  <2>2. CASE i <= Len(s)
    BY <1>1, <2>1, <2>2 DEF Selection!Elements
  <2>3. CASE ~(i <= Len(s))
    <3>1. i - Len(s) \in 1 .. Len(t) /\ x = t[i - Len(s)]
      BY <1>1, <2>1, <2>3
    <3> QED
      BY <3>1 DEF Selection!Elements
  <2> QED
    BY <2>2, <2>3
<1>3. ASSUME NEW x \in Selection!Elements(s)
      PROVE  x \in Selection!Elements(s \o t)
  <2>1. PICK i \in 1 .. Len(s) : x = s[i]
    BY <1>3 DEF Selection!Elements
  <2>2. i \in 1 .. Len(s \o t) /\ x = (s \o t)[i]
    BY <1>1, <2>1
  <2> QED
    BY <2>2 DEF Selection!Elements
<1>4. ASSUME NEW x \in Selection!Elements(t)
      PROVE  x \in Selection!Elements(s \o t)
  <2>1. PICK i \in 1 .. Len(t) : x = t[i]
    BY <1>4 DEF Selection!Elements
  <2>2. Len(s) + i \in 1 .. Len(s) + Len(t) /\ ~(Len(s) + i <= Len(s)) /\ (Len(s) + i) - Len(s) = i
    BY <1>1
  <2>3. Len(s) + i \in 1 .. Len(s \o t) /\ x = (s \o t)[Len(s) + i]
    BY <1>1, <2>1, <2>2
  <2> QED
    BY <2>3 DEF Selection!Elements
<1> QED
  BY <1>1, <1>2, <1>3, <1>4

(* A selected module calls its dependencies and its auto_install list.      *)
LEMMA NeedsNamed ==
    ASSUME SelectShapes, NEW m \in Modules
    PROVE  Selection!Needs(m) \in Seq(Pairs) /\ Named(Selection!Needs(m)) = Calls(m)
<1> DEFINE d == catalog.deps[m]
           a == catalog.auto[m]
           s == Selection!Ascending(d)
           t == Selection!Ascending(a)
<1>1. d \in SUBSET Modules /\ a \in SUBSET Modules
  BY DEF SelectShapes
<1>2. Calls(m) = d \cup a /\ Selection!Needs(m) = [i \in 1 .. Len(s \o t) |-> <<(s \o t)[i], FALSE>>]
  BY DEF Calls, Selection!Needs
<1> HIDE DEF d, a
<1>3. /\ s \in Seq(Modules) /\ Selection!Elements(s) = d
      /\ t \in Seq(Modules) /\ Selection!Elements(t) = a
  BY <1>1, AscendingLists, SeqMonotonic
<1> HIDE DEF s, t
<1>4. s \o t \in Seq(Modules) /\ Selection!Elements(s \o t) = d \cup a
  BY <1>3, ElementsTogether
<1> QED
  BY <1>2, <1>4, NamedFrom

(* add_module selects, refuses or misses one module.                        *)
LEMMA AddModuleStep ==
    ASSUME SInv, part = "selection", part' = part, Selection!add_module
    PROVE  SInv'
<1>0. PICK m : m = Head(calls)[1]
  OBVIOUS
<1>1. SelectShapes /\ Collected /\ phase = "resolve" /\ calls # <<>>
  BY DEF SInv, Accepted, Selection!add_module
<1>2. UNCHANGED <<catalog, planRules, requested, phase, order>>
  BY DEF Selection!add_module
<1>3. /\ Head(calls) \in Pairs /\ Tail(calls) \in Seq(Pairs)
      /\ Named(calls) = {m} \cup Named(Tail(calls))
  BY <1>0, <1>1, NamedRest DEF SelectShapes
<1>4. m \in Modules
  BY <1>0, <1>3 DEF Pairs
<1>5. /\ Roots' = Roots /\ Lacking' = Lacking /\ \A x : Calls(x)' = Calls(x)
      /\ \A T : Holds(T)' = Holds(T)
  BY <1>2 DEF Roots, Lacking, Calls, Holds, Selection!Required, Selection!Elements
<1>6. Named(calls)' = Named(calls')
  BY DEF Named
<1> DEFINE refuse == catalog.kind[m] = "barred" \/ (catalog.kind[m] = "hidden" /\ Head(calls)[2])
<1>7. CASE m \in selected
  <2>1. calls' = Tail(calls) /\ UNCHANGED <<selected, missing, blocked, errors>>
    BY <1>0, <1>7 DEF Selection!add_module
  <2>2. SelectShapes'
    BY <1>1, <1>2, <1>3, <1>5, <2>1 DEF SelectShapes
  <2>3. Collected'
    BY <1>1, <1>2, <1>3, <1>5, <1>6, <1>7, <2>1 DEF Collected
  <2> QED
    BY <1>1, <1>2, <2>2, <2>3 DEF SInv
<1>8. CASE m \notin selected /\ catalog.kind[m] = "absent"
  <2>1. calls' = Tail(calls) /\ missing' = missing \cup {m} /\ UNCHANGED <<selected, blocked, errors>>
    BY <1>0, <1>8 DEF Selection!add_module
  <2>2. m \in Lacking
    BY <1>4, <1>8 DEF Lacking
  <2>3. SelectShapes'
    BY <1>1, <1>2, <1>3, <1>5, <2>1, <2>2 DEF SelectShapes
  <2>4. Collected'
    BY <1>1, <1>2, <1>3, <1>5, <1>6, <2>1, <2>2 DEF Collected
  <2> QED
    BY <1>1, <1>2, <2>3, <2>4 DEF SInv
<1>9. CASE m \notin selected /\ catalog.kind[m] # "absent" /\ refuse
  <2>1. /\ calls' = Tail(calls) /\ blocked' = blocked \cup {m}
        /\ errors' = errors \cup {"dependency_error"} /\ UNCHANGED <<selected, missing>>
    BY <1>0, <1>9 DEF Selection!add_module
  <2>2. errors' # {}
    BY <2>1
  <2>3. SelectShapes'
    BY <1>1, <1>2, <1>3, <1>4, <1>5, <2>1, <2>2 DEF SelectShapes
  <2>4. Collected'
    BY <1>1, <1>2, <1>3, <1>5, <1>6, <2>1 DEF Collected
  <2> QED
    BY <1>1, <1>2, <2>3, <2>4 DEF SInv
<1>10. CASE m \notin selected /\ catalog.kind[m] # "absent" /\ ~refuse
  <2>1. /\ calls' = Selection!Needs(m) \o Tail(calls) /\ selected' = selected \cup {m}
        /\ UNCHANGED <<missing, blocked, errors>>
    BY <1>0, <1>10 DEF Selection!add_module
  <2>2. calls' \in Seq(Pairs) /\ Named(calls') = Calls(m) \cup Named(Tail(calls))
    BY <1>1, <1>3, <1>4, <2>1, NeedsNamed, NamedTogether
  <2>3. catalog.kind[m] \notin {"barred", "absent"}
    BY <1>10
  <2>4. SelectShapes'
    BY <1>1, <1>2, <1>4, <1>5, <2>1, <2>2, <2>3 DEF SelectShapes
  <2>5. m \notin Lacking
    BY <1>10 DEF Lacking
  <2>6. ASSUME NEW T \in SUBSET Modules, Holds(T)
        PROVE  selected' \subseteq T /\ Named(calls') \ Lacking \subseteq T
    <3>1. selected \subseteq T /\ Named(calls) \ Lacking \subseteq T
      BY <1>1, <2>6 DEF Collected
    <3>2. m \in T
      BY <1>3, <2>5, <3>1
    <3>3. Calls(m) \ Lacking \subseteq T
      BY <2>6, <3>2 DEF Holds
    <3> QED
      BY <1>3, <2>1, <2>2, <3>1, <3>2, <3>3
  <2>7. Roots \subseteq selected' \cup blocked' \cup Named(calls')
    BY <1>1, <1>3, <2>1, <2>2 DEF Collected
  <2>8. \A x \in selected' : Calls(x) \subseteq selected' \cup missing' \cup blocked' \cup Named(calls')
    BY <1>1, <1>3, <2>1, <2>2 DEF Collected
  <2>9. Collected'
    BY <1>1, <1>2, <1>5, <1>6, <2>6, <2>7, <2>8 DEF Collected
  <2> QED
    BY <1>1, <1>2, <2>4, <2>9 DEF SInv
<1> QED
  BY <1>7, <1>8, <1>9, <1>10

(* The order starts with the modules that depend on none.                   *)
LEMMA StartOrderStep ==
    ASSUME SInv, part = "selection", part' = part, Selection!StartOrder
    PROVE  SInv'
<1>1. SelectShapes /\ Collected /\ phase = "resolve" /\ calls = <<>> /\ order = <<>>
  BY DEF SInv, Accepted, SelectShapes, Selection!StartOrder
<1>2. /\ UNCHANGED <<catalog, planRules, requested, errors, calls, selected, missing, blocked, order>>
      /\ phase' = "order"
      /\ indegree' = [m \in Modules |-> IF m \in selected
                                        THEN Selection!Cardinality(Selection!graph(m)) ELSE 0]
      /\ queue' = {m \in selected : Selection!graph(m) = {}}
  BY DEF Selection!StartOrder
<1>3. /\ Roots' = Roots /\ Lacking' = Lacking /\ \A x : Calls(x)' = Calls(x)
      /\ \A T : Holds(T)' = Holds(T) /\ \A x : Selection!graph(x)' = Selection!graph(x)
  BY <1>2 DEF Roots, Lacking, Calls, Holds, Selection!Required, Selection!Elements, Selection!graph
<1>4. Collected'
  <2>1. Named(calls)' = Named(calls)
    BY <1>2 DEF Named
  <2> QED
    BY <1>1, <1>2, <1>3, <2>1 DEF Collected
<1>5. SelectShapes'
  BY <1>1, <1>2, <1>3 DEF SelectShapes
<1>6. Len(order) = 0 /\ Placed' = {}
  BY <1>1, <1>2 DEF Placed, Selection!Elements
<1>7. Sorting'
  <2>1. order' \in Seq(Modules) /\ Len(order') = 0
    BY <1>1, <1>2, <1>6
  <2>2. \A m \in selected : indegree'[m] = Cardinality(Selection!graph(m) \ {})
    <3> TAKE m \in selected
    <3>1. indegree'[m] = Selection!Cardinality(Selection!graph(m))
      BY <1>1, <1>2 DEF SelectShapes
    <3>2. Selection!graph(m) \ {} = Selection!graph(m)
      OBVIOUS
    <3> QED
      BY <3>1, <3>2, SameCount
  <2>3. queue' = {m \in selected \ {} : Selection!graph(m) \subseteq {}}
    BY <1>2
  <2>4. InOrder'
    BY <2>1 DEF InOrder
  <2> QED
    BY <1>2, <1>3, <1>6, <2>1, <2>2, <2>3, <2>4 DEF Sorting
<1> QED
  BY <1>2, <1>4, <1>5, <1>7 DEF SInv

(* A module taken from the queue comes after what it depends on.            *)
LEMMA TakenInOrder ==
    ASSUME SelectShapes, Sorting, NEW n \in queue, order' = Append(order, n),
           UNCHANGED <<catalog, selected>>
    PROVE  /\ order' \in Seq(Modules) /\ Placed' = Placed \cup {n} /\ Placed' \subseteq selected
           /\ n \in selected \ Placed
           /\ \A i, j \in 1 .. Len(order') : order'[i] = order'[j] => i = j
           /\ InOrder'
<1>1. n \in selected \ Placed /\ n \in Modules /\ Selection!graph(n) \subseteq Placed
  BY DEF Sorting, SelectShapes
<1>2. /\ order \in Seq(Modules) /\ order' \in Seq(Modules) /\ Len(order) \in Nat
      /\ Len(order') = Len(order) + 1
      /\ \A i \in 1 .. Len(order) : order'[i] = order[i]
      /\ order'[Len(order) + 1] = n
  BY <1>1 DEF Sorting
<1>3. Placed' = Placed \cup {n}
  <2>1. Placed' = {order'[i] : i \in 1 .. Len(order')} /\ Placed = {order[i] : i \in 1 .. Len(order)}
    BY DEF Placed, Selection!Elements
  <2>2. \A i \in 1 .. Len(order') : i \in 1 .. Len(order) \/ i = Len(order) + 1
    BY <1>2
  <2>3. Len(order) + 1 \in 1 .. Len(order') /\ \A i \in 1 .. Len(order) : i \in 1 .. Len(order')
    BY <1>2
  <2> QED
    BY <1>2, <2>1, <2>2, <2>3
<1>4. \A i \in 1 .. Len(order) : order[i] # n
  BY <1>1 DEF Placed, Selection!Elements
<1>5. \A i, j \in 1 .. Len(order') : order'[i] = order'[j] => i = j
  <2>1. \A i \in 1 .. Len(order') : i \in 1 .. Len(order) \/ i = Len(order) + 1
    BY <1>2
  <2>2. \A i, j \in 1 .. Len(order) : order[i] = order[j] => i = j
    BY DEF Sorting
  <2> QED
    BY <1>2, <1>4, <2>1, <2>2
<1>6. \A x : Selection!graph(x)' = Selection!graph(x)
  BY DEF Selection!graph
<1>7. ASSUME NEW i \in 1 .. Len(order')
      PROVE  Selection!graph(order'[i]) \subseteq {order'[j] : j \in 1 .. i - 1}
  <2>1. CASE i \in 1 .. Len(order)
    <3>1. \A j \in 1 .. i - 1 : order'[j] = order[j]
      BY <1>2, <2>1
    <3>2. order'[i] = order[i] /\ Selection!graph(order[i]) \subseteq {order[j] : j \in 1 .. i - 1}
      BY <1>2, <2>1 DEF Sorting, InOrder
    <3> QED
      BY <3>1, <3>2
  <2>2. CASE i = Len(order) + 1
    <3>1. i - 1 = Len(order) /\ order'[i] = n
      BY <1>2, <2>2
    <3>2. Placed = {order'[j] : j \in 1 .. Len(order)}
      BY <1>2 DEF Placed, Selection!Elements
    <3> QED
      BY <1>1, <3>1, <3>2
  <2> QED
    BY <1>2, <2>1, <2>2, SMTT(40)
<1>8. InOrder'
  BY <1>6, <1>7 DEF InOrder
<1>9. Placed' \subseteq selected
  BY <1>1, <1>3 DEF Sorting
<1> QED
  BY <1>1, <1>2, <1>3, <1>5, <1>8, <1>9

(* What a placed module depends on is placed.                               *)
LEMMA PlacedNeedsPlaced ==
    ASSUME Sorting, NEW m \in Placed
    PROVE  Selection!graph(m) \subseteq Placed
<1>1. PICK i \in 1 .. Len(order) : m = order[i]
  BY DEF Placed, Selection!Elements
<1>2. Len(order) \in Nat
  BY DEF Sorting
<1>3. Selection!graph(m) \subseteq {order[j] : j \in 1 .. i - 1}
  BY <1>1 DEF Sorting, InOrder
<1>4. \A j \in 1 .. i - 1 : j \in 1 .. Len(order)
  BY <1>1, <1>2
<1> QED
  BY <1>3, <1>4 DEF Placed, Selection!Elements

(* Taking a module lowers the degrees of those that depend on it, and       *)
(* queues those left with none.                                             *)
LEMMA TopologicalStep ==
    ASSUME SInv, part = "selection", part' = part, Selection!_topological_order
    PROVE  SInv'
<1>0. PICK n : n = Selection!Least(queue)
  OBVIOUS
<1>1. SelectShapes /\ Collected /\ Sorting /\ phase = "order" /\ queue # {}
  BY DEF SInv, Accepted, Selection!_topological_order
<1>2. queue \in SUBSET Modules
  BY <1>1 DEF SelectShapes, Sorting
<1>3. n \in queue
  BY <1>0, <1>1, <1>2, LeastModule
<1> DEFINE lower == [m \in Modules |-> IF m \in selected /\ n \in Selection!graph(m)
                                       THEN indegree[m] - 1 ELSE indegree[m]]
<1>4. /\ order' = Append(order, n) /\ indegree' = lower
      /\ queue' = (queue \ {n}) \cup {m \in selected : n \in Selection!graph(m) /\ lower[m] = 0}
      /\ UNCHANGED <<catalog, planRules, requested, phase, errors, calls, selected, missing, blocked>>
  BY <1>0 DEF Selection!_topological_order
<1>5. /\ order' \in Seq(Modules) /\ Placed' = Placed \cup {n} /\ Placed' \subseteq selected
      /\ n \in selected \ Placed
      /\ \A i, j \in 1 .. Len(order') : order'[i] = order'[j] => i = j
      /\ InOrder'
  BY <1>1, <1>3, <1>4, TakenInOrder
<1>6. /\ Roots' = Roots /\ Lacking' = Lacking /\ \A x : Calls(x)' = Calls(x)
      /\ \A T : Holds(T)' = Holds(T) /\ \A x : Selection!graph(x)' = Selection!graph(x)
  BY <1>4 DEF Roots, Lacking, Calls, Holds, Selection!Required, Selection!Elements, Selection!graph
<1>7. \A m \in selected : lower[m] = Cardinality(Selection!graph(m) \ Placed')
  <2> TAKE m \in selected
  <2>1. m \in Modules /\ Selection!graph(m) \in SUBSET Modules
    BY <1>1 DEF SelectShapes, Selection!graph
  <2> DEFINE rest == Selection!graph(m) \ Placed
  <2>2. IsFiniteSet(rest) /\ Cardinality(rest) \in Nat /\ indegree[m] = Cardinality(rest)
    <3>1. rest \in SUBSET Modules
      BY <2>1
    <3> QED
      BY <1>1, <3>1, FiniteModules DEF Sorting
  <2>3. Selection!graph(m) \ Placed' = rest \ {n}
    BY <1>5
  <2>4. Cardinality(rest \ {n}) = IF n \in rest THEN Cardinality(rest) - 1 ELSE Cardinality(rest)
    BY <2>2, FS_RemoveElement
  <2>5. n \in rest <=> n \in Selection!graph(m)
    BY <1>5
  <2>6. lower[m] = IF n \in Selection!graph(m) THEN indegree[m] - 1 ELSE indegree[m]
    BY <2>1
  <2> QED
    BY <2>2, <2>3, <2>4, <2>5, <2>6
<1>8. \A m \in selected : lower[m] = 0 <=> Selection!graph(m) \subseteq Placed'
  <2> TAKE m \in selected
  <2>1. Selection!graph(m) \ Placed' \in SUBSET Modules
    BY <1>1 DEF SelectShapes, Selection!graph
  <2>2. IsFiniteSet(Selection!graph(m) \ Placed')
    BY <2>1, FiniteModules
  <2>3. Cardinality(Selection!graph(m) \ Placed') = 0 <=> Selection!graph(m) \ Placed' = {}
    BY <2>2, FS_EmptySet
  <2> QED
    BY <1>7, <2>3
<1> HIDE DEF lower
<1>9. queue' = {m \in selected \ Placed' : Selection!graph(m) \subseteq Placed'}
  <2>0. queue = {m \in selected \ Placed : Selection!graph(m) \subseteq Placed}
    BY <1>1 DEF Sorting
  <2>1. ASSUME NEW m \in queue'
        PROVE  m \in selected \ Placed' /\ Selection!graph(m) \subseteq Placed'
    <3>1. CASE m \in queue \ {n}
      BY <1>5, <2>0, <3>1
    <3>2. CASE m \in selected /\ n \in Selection!graph(m) /\ lower[m] = 0
      <4>1. m # n
        BY <3>2 DEF Selection!graph
      <4>2. m \notin Placed
        BY <1>1, <1>5, <3>2, PlacedNeedsPlaced
      <4> QED
        BY <1>5, <1>8, <3>2, <4>1, <4>2
    <3> QED
      BY <1>4, <2>1, <3>1, <3>2
  <2>2. ASSUME NEW m \in selected \ Placed', Selection!graph(m) \subseteq Placed'
        PROVE  m \in queue'
    <3>1. CASE n \in Selection!graph(m)
      BY <1>4, <1>8, <2>2, <3>1
    <3>2. CASE n \notin Selection!graph(m)
      BY <1>4, <1>5, <2>0, <2>2, <3>2
    <3> QED
      BY <3>1, <3>2
  <2> QED
    BY <2>1, <2>2
<1>10. Sorting'
  BY <1>4, <1>5, <1>6, <1>7, <1>9 DEF Sorting
<1>11. SelectShapes'
  BY <1>1, <1>4, <1>6 DEF SelectShapes
<1>12. Collected'
  <2>1. Named(calls)' = Named(calls)
    BY <1>4 DEF Named
  <2> QED
    BY <1>1, <1>4, <1>6, <2>1 DEF Collected
<1> QED
  BY <1>1, <1>4, <1>10, <1>11, <1>12 DEF SInv

(* The order has no module twice.                                           *)
LEMMA PlacedCount ==
    ASSUME Sorting
    PROVE  IsFiniteSet(Placed) /\ Cardinality(Placed) = Len(order)
<1> DEFINE n == Len(order)
           f == [i \in 1 .. n |-> order[i]]
<1>1. n \in Nat /\ \A i \in 1 .. n : order[i] \in Placed
  BY DEF Sorting, Placed, Selection!Elements
<1>2. f \in [1 .. n -> Placed]
  BY <1>1
<1>3. \A i, j \in 1 .. n : f[i] = f[j] => i = j
  BY DEF Sorting
<1>4. \A x \in Placed : \E i \in 1 .. n : f[i] = x
  BY DEF Placed, Selection!Elements
<1>5. ExistsBijection(1 .. n, Placed)
  <2> HIDE DEF f
  <2>1. f \in Bijection(1 .. n, Placed)
    BY <1>2, <1>3, <1>4 DEF Bijection, Injection, Surjection, IsInjective
  <2> QED
    BY <2>1 DEF ExistsBijection
<1>6. IsFiniteSet(1 .. n) /\ Cardinality(1 .. n) = n
  <2>1. IsFiniteSet(1 .. n) /\ Cardinality(1 .. n) = IF 1 > n THEN 0 ELSE n - 1 + 1
    BY <1>1, FS_Interval
  <2> QED
    BY <1>1, <2>1
<1> HIDE DEF n
<1>7. IsFiniteSet(Placed) /\ Cardinality(Placed) = n
  BY <1>5, <1>6, FS_Bijection
<1> QED
  BY <1>7 DEF n

(* Without a cycle, every selected module was placed.                       *)
LEMMA ResolvedStep ==
    ASSUME SInv, part = "selection", part' = part, Selection!resolve_module_selection
    PROVE  SInv'
<1>1. SelectShapes /\ Collected /\ Sorting /\ phase = "order" /\ queue = {}
  BY DEF SInv, Accepted, Selection!resolve_module_selection
<1>2. /\ UNCHANGED <<catalog, planRules, requested, calls, selected, missing, blocked, order, indegree>>
      /\ phase' = "done"
      /\ cycle' = IF Len(order) = Selection!Cardinality(selected) THEN {}
                  ELSE {m \in selected : indegree[m] > 0}
      /\ errors' = IF cycle' = {} THEN errors ELSE errors \cup {"dependency_cycle"}
  BY DEF Selection!resolve_module_selection
<1>3. /\ Roots' = Roots /\ Lacking' = Lacking /\ \A x : Calls(x)' = Calls(x)
      /\ \A T : Holds(T)' = Holds(T) /\ \A x : Selection!graph(x)' = Selection!graph(x)
      /\ Placed' = Placed /\ Named(calls)' = Named(calls)
  BY <1>2 DEF Roots, Lacking, Calls, Holds, Selection!Required, Selection!Elements, Selection!graph,
              Placed, Named
<1>4. SelectShapes'
  <2>1. errors # {} => errors' # {}
    BY <1>2
  <2> QED
    BY <1>1, <1>2, <1>3, <2>1 DEF SelectShapes
<1>5. Collected'
  BY <1>1, <1>2, <1>3 DEF Collected
<1>6. ASSUME errors' = {}
      PROVE  Sorted'
  <2>1. cycle' = {}
    BY <1>2, <1>6
  <2>2. IsFiniteSet(Placed) /\ Cardinality(Placed) = Len(order) /\ Placed \subseteq selected
    BY <1>1, PlacedCount DEF Sorting
  <2>3. IsFiniteSet(selected)
    BY <1>1, FiniteModules DEF SelectShapes
  <2>4. Placed = selected
    <3>1. CASE Len(order) = Cardinality(selected)
      BY <2>2, <2>3, <3>1, FS_Subset
    <3>2. CASE Len(order) # Cardinality(selected)
      <4>1. \A m \in selected : ~(indegree[m] > 0)
        BY <1>2, <2>1, <3>2, SameCount
      <4>2. ASSUME NEW m \in selected
            PROVE  Selection!graph(m) \subseteq Placed
        <5>1. Selection!graph(m) \ Placed \in SUBSET Modules
          BY <1>1 DEF SelectShapes, Selection!graph
        <5>2. IsFiniteSet(Selection!graph(m) \ Placed) /\ Cardinality(Selection!graph(m) \ Placed) \in Nat
          BY <5>1, FiniteModules
        <5>3. Cardinality(Selection!graph(m) \ Placed) = 0
          BY <1>1, <4>1, <5>2 DEF Sorting
        <5> QED
          BY <5>2, <5>3, FS_EmptySet
      <4> QED
        BY <1>1, <2>2, <4>2 DEF Sorting
    <3> QED
      BY <3>1, <3>2
  <2>5. InOrder'
    <3>1. InOrder /\ order' = order
      BY <1>1, <1>2 DEF Sorting
    <3>2. \A x : Selection!graph(x)' = Selection!graph(x)
      BY <1>3
    <3> QED
      BY <3>1, <3>2 DEF InOrder
  <2> QED
    BY <1>2, <1>3, <2>2, <2>4, <2>5 DEF Sorted
<1> QED
  BY <1>2, <1>4, <1>5, <1>6 DEF SInv, Accepted

(* SInv depends on the resolver's variables only.                           *)
LEMMA SelectionStutter ==
    ASSUME SInv, part' = part, UNCHANGED selectVars
    PROVE  SInv'
<1>1. UNCHANGED <<catalog, planRules, requested, phase, errors, calls, selected, missing, blocked,
                  indegree, queue, order>>
  BY DEF selectVars
<1>2. /\ Roots' = Roots /\ Lacking' = Lacking /\ \A x : Calls(x)' = Calls(x)
      /\ \A T : Holds(T)' = Holds(T) /\ \A x : Selection!graph(x)' = Selection!graph(x)
      /\ Placed' = Placed /\ Named(calls)' = Named(calls)
  BY <1>1 DEF Roots, Lacking, Calls, Holds, Selection!Required, Selection!Elements, Selection!graph,
              Placed, Named
<1>3. SelectShapes => SelectShapes'
  BY <1>1, <1>2 DEF SelectShapes
<1>4. Collected => Collected'
  BY <1>1, <1>2 DEF Collected
<1>5. InOrder => InOrder'
  BY <1>1, <1>2 DEF InOrder
<1>6. Sorting => Sorting'
  BY <1>1, <1>2, <1>5 DEF Sorting
<1>7. Sorted => Sorted'
  BY <1>1, <1>2, <1>5 DEF Sorted
<1> QED
  BY <1>1, <1>3, <1>4, <1>6, <1>7 DEF SInv, Accepted

(* Every step of the composition keeps the invariant.                       *)
LEMMA SelectionKeeps ==
    ASSUME SInv, [Next]_all
    PROVE  SInv'
<1>1. CASE part = "selection" /\ Selection!Next /\ part' = part
  BY <1>1, ValidateSelectionStep, AddModuleStep, StartOrderStep, TopologicalStep, ResolvedStep
     DEF Selection!Next
<1>2. CASE part' = part /\ UNCHANGED selectVars
  BY <1>2, SelectionStutter
<1> QED
  BY <1>1, <1>2 DEF Next, all

(* SInv holds of every state.                                               *)
LEMMA SelectionInvariant == Spec => []SInv
<1>1. Init => SInv
  BY SelectionBegins
<1>2. SInv /\ [Next]_all => SInv'
  BY SelectionKeeps
<1>3. Spec => Init /\ [][Next]_all
  BY Behaves
<1> QED
  BY <1>1, <1>2, <1>3, PTL

(* When nothing is left to add and nothing was refused, the selected        *)
(* modules are the least closed set over the roots.                         *)
LEMMA ClosureIsLeast ==
    ASSUME SelectShapes, Collected, blocked = {}, calls = <<>>
    PROVE  selected = Selection!Closure
<1>1. Named(calls) = {}
  BY DEF Named
<1>2. Roots \subseteq selected /\ \A m \in selected : Calls(m) \subseteq selected \cup missing
  BY <1>1 DEF Collected
<1> DEFINE Good(S) == Roots \subseteq S /\ Selection!Closed(S)
<1>3. selected \in SUBSET Modules
  BY DEF SelectShapes
<1>4. Good(selected)
  BY <1>2 DEF Selection!Closed, Calls
<1>5. ASSUME NEW T \in SUBSET Modules, Good(T)
      PROVE  selected \subseteq T
  <2>1. \A m \in T : Calls(m) \ missing \subseteq T
    BY <1>5 DEF Selection!Closed, Calls
  <2>2. missing \subseteq Lacking
    BY DEF SelectShapes
  <2>3. Holds(T)
    BY <1>5, <2>1, <2>2 DEF Holds
  <2> QED
    BY <2>3 DEF Collected
<1> HIDE DEF Good
<1>6. PICK least : least = CHOOSE S \in SUBSET Modules :
                             Good(S) /\ \A T \in SUBSET Modules : Good(T) => S \subseteq T
  OBVIOUS
<1>7. least \in SUBSET Modules /\ Good(least) /\ \A T \in SUBSET Modules : Good(T) => least \subseteq T
  <2>1. \E S \in SUBSET Modules : Good(S) /\ \A T \in SUBSET Modules : Good(T) => S \subseteq T
    BY <1>3, <1>4, <1>5
  <2> QED
    BY <1>6, <2>1
<1>8. least = selected
  BY <1>3, <1>4, <1>5, <1>7
<1>9. Selection!Closure = least
  BY <1>6 DEF Selection!Closure, Good, Roots
<1> QED
  BY <1>8, <1>9

(* A selection without errors installs exactly the closure of what was      *)
(* asked and what the plan requires, none of it barred or absent, each      *)
(* module once and after those it depends on, for any number of modules and *)
(* any catalogue and rules (resolve_module_selection, _topological_order).  *)
THEOREM SelectionInstallsClosure == Spec => []ValidInstallsClosure
<1>1. SInv => ValidInstallsClosure
  <2> SUFFICES ASSUME SInv, phase = "done", errors = {}
               PROVE  /\ selected = Selection!Closure
                      /\ \A m \in selected : catalog.kind[m] \notin {"barred", "absent"}
                      /\ Len(order) = Selection!Cardinality(selected)
                      /\ Selection!Elements(order) = selected
                      /\ \A i \in 1 .. Len(order) :
                           Selection!graph(order[i]) \subseteq {order[j] : j \in 1 .. i - 1}
    BY DEF ValidInstallsClosure, Selection!ValidInstallsClosure
  <2>1. SelectShapes /\ Collected /\ Sorted
    BY DEF SInv, Accepted
  <2>2. blocked = {} /\ calls = <<>>
    BY <2>1 DEF SelectShapes, Collected
  <2>3. selected = Selection!Closure
    BY <2>1, <2>2, ClosureIsLeast
  <2>4. Len(order) = Selection!Cardinality(selected) /\ Selection!Elements(order) = selected
    BY <2>1, SameCount DEF Sorted, Placed
  <2>5. \A i \in 1 .. Len(order) :
           Selection!graph(order[i]) \subseteq {order[j] : j \in 1 .. i - 1}
    BY <2>1 DEF Sorted, InOrder
  <2>6. \A m \in selected : catalog.kind[m] \notin {"barred", "absent"}
    BY <2>1 DEF SelectShapes
  <2> QED
    BY <2>3, <2>4, <2>5, <2>6
<1> QED
  BY <1>1, SelectionInvariant, PTL

===============================================================================
