------------------------ MODULE TenantProvisioningProofs ------------------------
(***************************************************************************)
(* Proofs about TenantProvisioning, for any number of jobs, subscriptions, *)
(* keys, attempts, requests and crashes, and with any removals refused.    *)
(* Types and the owners of tenant rows need no hypothesis (TBase); what a  *)
(* success and a first rollback promise needs that no execution outlasts   *)
(* the age at which a job counts as dead (~SlowJobs), and then follows     *)
(* from who may know a tenant: only the thread that works on its job.      *)
(***************************************************************************)
EXTENDS TenantProvisioning, FiniteSetTheorems, FunctionTheorems, WellFoundedInduction, TLAPS

(* The execution holds a tenant it reserved.                                *)
Reserved == EXECUTE_PCS \ {"validate"}

(* A thread compensates, and removes something or is about to.              *)
Undoing(x)  == thread[x].pc \in ROLLBACK_PCS
Removing    == {"rmContainer", "rmDatabase", "rmRole", "rmFilestore", "tenantFailed"}

(* The jobs a compensating thread has before it, and whether it will take   *)
(* away what the job's tenant owns.                                         *)
OnList(x, j) == Undoing(x) /\ (thread[x].job = j \/ j \in thread[x].todo)
Threatens(x, j) == Undoing(x) /\ thread[x].seen[j].tenant # NoTenant

Requeues(x, j) == thread[x].pc = "requeue" /\ thread[x].job = j

Executing(j) == thread[Daemon].pc \in EXECUTE_PCS /\ thread[Daemon].job = j

(* There is a row for every request that was let in.                        *)
Room == Cardinality(Inserted) + Cardinality(Queueing) <= MaxJobs

(* A tenant row belongs to one job, of its subscription, and what exists    *)
(* has a row; a job that was never claimed is as it was inserted.           *)
Owners ==
    /\ \A j \in Jobs : job[j].tenant # NoTenant =>
         /\ tenant[job[j].tenant].status # "none" /\ tenant[job[j].tenant].sub = job[j].sub
         /\ \A i \in Jobs : job[i].tenant = job[j].tenant => i = j
    /\ \A t \in Tenants : tenant[t].status # "none" => \E j \in Jobs : job[j].tenant = t
    /\ \A t \in roles \cup databases \cup containers \cup filestores : tenant[t].status # "none"
    /\ \A j \in Jobs : job[j].status \notin {"none", "queued"} => job[j].attempts > 0
    /\ \A j \in Jobs : job[j].attempts = 0 => job[j].tenant = NoTenant /\ job[j].rollback = "none"
    /\ \A j \in Jobs : job[j].status = "none" => job[j].attempts = 0

(* What a thread in state q holds of the jobs: a tenant, if any, is the     *)
(* job's own; an execution knows no other job, and its tenant once it is    *)
(* reserved; a compensation begins with a copy that says running.           *)
Holds(x, q) ==
    /\ q.pc \in EXECUTE_PCS \cup ROLLBACK_PCS \cup {"requeue"} =>
         q.job \in Jobs /\ job[q.job].attempts > 0
    /\ q.pc \in EXECUTE_PCS =>
         /\ x = Daemon /\ q.todo = {}
         /\ q.seen[q.job].sub = job[q.job].sub
         /\ q.seen[q.job].status \in {"running", "succeeded"}
         /\ \A i \in Jobs \ {q.job} : q.seen[i].tenant = NoTenant
    /\ q.pc \in Reserved \cup Removing => q.seen[q.job].tenant # NoTenant
    /\ q.pc = "mark" => q.job \in q.todo
    /\ q.pc \in ROLLBACK_PCS =>
         \A i \in q.todo : /\ job[i].attempts > 0
                           /\ q.pc = "mark" \/ i # q.job => q.seen[i].status = "running"
    /\ \A i \in Jobs : q.seen[i].tenant \in {NoTenant, job[i].tenant}

Holder(x) == Holds(x, thread[x])

TBase == TypeOK /\ Room /\ Owners /\ \A x \in Threads : Holder(x)

(* Nobody threatens the tenant under an execution, which has what its steps *)
(* so far have made.                                                        *)
Undisturbed ==
    /\ thread[Daemon].pc \in EXECUTE_PCS => thread[Daemon].job \notin stale
    /\ thread[Daemon].pc \in Reserved =>
         LET t == MyTenant(Daemon)  pc == thread[Daemon].pc
         IN /\ \A x \in Threads : ~Threatens(x, thread[Daemon].job)
            /\ pc \in {"filepath", "role", "clone", "port", "container", "health", "succeed"}
                 => t \in filestores
            /\ pc \in {"clone", "port", "container", "health", "succeed"} => t \in roles
            /\ pc \in {"port", "container", "health", "succeed"} => t \in databases
            /\ pc \in {"health", "succeed"} => t \in containers

(* Nor the tenant of a job that has succeeded.                              *)
Secure ==
    /\ SucceededIsServed
    /\ \A j \in Jobs, x \in Threads : job[j].status = "succeeded" => ~Threatens(x, j)

(* In the first attempt at a job nobody has it on a list before the         *)
(* execution is over, and who has it then knows its tenant and has not seen *)
(* a completed rollback.                                                    *)
Fresh ==
    \A j \in Jobs : job[j].attempts = 1 =>
        /\ Executing(j) => /\ job[j].status \in {"running", "succeeded"}
                           /\ Mine(Daemon).tenant = job[j].tenant
                           /\ Mine(Daemon).rollback # "completed"
                           /\ \A x \in Threads : ~OnList(x, j) /\ ~Requeues(x, j)
        /\ job[j].status \in {"running", "succeeded"} => job[j].rollback # "completed"
        /\ \A x \in Threads : OnList(x, j) =>
             /\ thread[x].seen[j].tenant = job[j].tenant
             /\ j # thread[x].job \/ thread[x].pc \in {"mark", "rollback"} =>
                  thread[x].seen[j].rollback # "completed"
             /\ j = thread[x].job /\ thread[x].pc # "mark" =>
                  job[j].status \notin {"running", "succeeded"}

(* What a thread remembers of its tenant's resources is what the row says,  *)
(* no container goes unrecorded, ...                                        *)
Recorded ==
    /\ \A t \in containers : tenant[t].named
    /\ thread[Daemon].pc \in {"container", "health"} => thread[Daemon].copy.named
    /\ \A x \in Threads :
         (\/ thread[x].pc \in Reserved \cup Removing
          \/ thread[x].pc = "rollback" /\ thread[x].todo = {})
         /\ MyTenant(x) # NoTenant =>
              /\ thread[x].copy.named = tenant[MyTenant(x)].named
              /\ thread[x].copy.files = tenant[MyTenant(x)].files

(* ... and what a compensation has removed without an error is gone.        *)
Gone(x) ==
    LET t == MyTenant(x)  pc == thread[x].pc
    IN Undoing(x) /\ t # NoTenant /\ ~thread[x].errors =>
         /\ pc \in {"rmDatabase", "rmRole", "rmFilestore", "tenantFailed", "outcome"}
              => t \notin containers
         /\ pc \in {"rmRole", "rmFilestore", "tenantFailed", "outcome"} => t \notin databases
         /\ pc \in {"rmFilestore", "tenantFailed", "outcome"} => t \notin roles
         /\ pc \in {"tenantFailed", "outcome"} => (t \in filestores => ~tenant[t].files)
         /\ pc = "final" /\ job[thread[x].job].attempts = 1 => NothingLeft(t)

TKnow == /\ Undisturbed /\ Secure /\ Fresh /\ Recorded
         /\ \A x \in Threads : Gone(x)
         /\ FirstRollbackIsClean

------------------------------------------------------------------------------
(* Facts about the operators of the model.                                 *)

(* The least of some jobs is one of them.                                   *)
LEMMA LeastIn ==
    ASSUME NEW S, S \subseteq Jobs, S # {}
    PROVE  Least(S) \in S
<1>1. S \subseteq Nat
  BY ProvisioningAssumption DEF Jobs
<1>2. PICK j \in S : \A k \in S : ~ (<<k, j>> \in OpToRel(<, Nat))
  BY <1>1, NatLessThanWellFounded, WFMin
<1>3. ASSUME NEW k \in S
      PROVE  j <= k
  <2>1. j \in Nat /\ k \in Nat /\ ~(k < j)
    BY <1>1, <1>2 DEF OpToRel
  <2> QED  BY <2>1
<1> QED  BY <1>3 DEF Least

(* The columns of a job and of a tenant row, and what a thread holds.       *)
LEMMA Types ==
    ASSUME TypeOK
    PROVE  /\ \A j \in Jobs : /\ job[j] \in JobRows /\ job[j].status \in JobStatuses
                              /\ job[j].sub \in Subscriptions \cup {"none"}
                              /\ job[j].tenant \in Tenants \cup {NoTenant}
                              /\ job[j].attempts \in Nat
           /\ \A t \in Tenants : tenant[t] \in TenantRows
           /\ \A x \in Threads :
                /\ thread[x] \in ThreadStates /\ thread[x].pc \in Pcs
                /\ thread[x].todo \subseteq Jobs /\ thread[x].copy \in TenantRows
                /\ \A j \in Jobs : thread[x].seen[j] \in JobRows
                /\ thread[x].job \in Jobs => Mine(x) \in JobRows
                /\ thread[x].job \in Jobs => MyTenant(x) \in Tenants \cup {NoTenant}
           /\ NoTenant \notin Tenants
<1>1. NoTenant \notin Tenants
  BY DEF Tenants, Jobs, NoTenant
<1>2. \A j \in Jobs : /\ job[j] \in JobRows /\ job[j].status \in JobStatuses
                      /\ job[j].sub \in Subscriptions \cup {"none"}
                      /\ job[j].tenant \in Tenants \cup {NoTenant}
                      /\ job[j].attempts \in Nat
  BY DEF TypeOK, JobRows
<1>3. \A t \in Tenants : tenant[t] \in TenantRows
  BY DEF TypeOK
<1>4. ASSUME NEW x \in Threads
      PROVE  /\ thread[x] \in ThreadStates /\ thread[x].pc \in Pcs
             /\ thread[x].todo \subseteq Jobs /\ thread[x].copy \in TenantRows
             /\ \A j \in Jobs : thread[x].seen[j] \in JobRows
             /\ thread[x].job \in Jobs => Mine(x) \in JobRows
             /\ thread[x].job \in Jobs => MyTenant(x) \in Tenants \cup {NoTenant}
  <2>1. thread[x] \in ThreadStates
    BY DEF TypeOK
  <2>2. /\ thread[x].pc \in Pcs
        /\ thread[x].todo \subseteq Jobs /\ thread[x].copy \in TenantRows
        /\ \A j \in Jobs : thread[x].seen[j] \in JobRows
    BY <2>1 DEF ThreadStates
  <2>3. thread[x].job \in Jobs => Mine(x) \in JobRows
    BY <2>2 DEF Mine
  <2>4. Mine(x) \in JobRows => MyTenant(x) \in Tenants \cup {NoTenant}
    BY DEF MyTenant, JobRows
  <2> QED  BY <2>1, <2>2, <2>3, <2>4
<1> QED  BY <1>1, <1>2, <1>3, <1>4

(* The initial rows and an idle thread are of their types, and an idle      *)
(* thread holds nothing.                                                    *)
LEMMA Nothing ==
    /\ NoJob \in JobRows /\ NoRow \in TenantRows /\ Idle \in ThreadStates
    /\ Idle.pc = "idle" /\ Idle.todo = {} /\ Idle.copy = NoRow /\ Idle.errors = FALSE
    /\ NoJob.tenant = NoTenant /\ NoJob.attempts = 0 /\ NoJob.status = "none"
    /\ NoJob.rollback = "none" /\ NoRow.status = "none"
    /\ Idle.seen = [j \in Jobs |-> NoJob]
<1>1. NoJob \in JobRows /\ NoRow \in TenantRows
  BY DEF NoJob, JobRows, JobStatuses, RollbackStatuses, NoRow, TenantRows
<1>2. Idle \in ThreadStates
  BY <1>1 DEF Idle, ThreadStates, Pcs
<1> QED  BY <1>1, <1>2 DEF Idle, NoJob, NoRow

(* The kinds of program counters do not overlap.                            *)
LEMMA Counters ==
    /\ EXECUTE_PCS \cap ROLLBACK_PCS = {}
    /\ {"idle", "claim", "insert", "requeue"} \cap (EXECUTE_PCS \cup ROLLBACK_PCS) = {}
    /\ Removing \subseteq ROLLBACK_PCS /\ Reserved \subseteq EXECUTE_PCS
    /\ Pcs = EXECUTE_PCS \cup ROLLBACK_PCS \cup {"idle", "claim", "insert", "requeue"}
BY DEF EXECUTE_PCS, ROLLBACK_PCS, Removing, Reserved, Pcs

(* Sets of jobs and of requests are finite.                                 *)
LEMMA Countable ==
    /\ IsFiniteSet(Jobs) /\ Cardinality(Jobs) = MaxJobs
    /\ IsFiniteSet(Inserted) /\ IsFiniteSet(Queueing)
    /\ Cardinality(Inserted) \in Nat /\ Cardinality(Queueing) \in Nat
<1>1. IsFiniteSet(Jobs) /\ Cardinality(Jobs) = MaxJobs
  BY ProvisioningAssumption, FS_Interval DEF Jobs
<1>2. Inserted \subseteq Jobs /\ Queueing \subseteq Handlers
  BY DEF Inserted, Queueing
<1>3. IsFiniteSet(Inserted) /\ IsFiniteSet(Queueing)
  BY <1>1, <1>2, FS_Subset, ProvisioningAssumption
<1> QED  BY <1>1, <1>3, FS_CardinalityType

(* A request that was let in finds a row that is free.                      *)
LEMMA RowIsFree ==
    ASSUME TBase, NEW h \in Handlers, thread[h].pc = "insert"
    PROVE  /\ Jobs \ Inserted # {} /\ Least(Jobs \ Inserted) \in Jobs
           /\ job[Least(Jobs \ Inserted)].status = "none"
<1>1. h \in Queueing
  BY DEF Queueing, At
<1>2. Cardinality(Queueing) # 0
  BY <1>1, Countable, FS_EmptySet
<1>3. Cardinality(Inserted) < MaxJobs
  BY <1>2, Countable, ProvisioningAssumption DEF TBase, Room
<1>4. Inserted # Jobs /\ Inserted \subseteq Jobs
  BY <1>3, Countable DEF Inserted
<1>5. Jobs \ Inserted # {}
  BY <1>4
<1> QED  BY <1>5, LeastIn DEF Inserted

(* A job without a tenant finds a tenant row that is free: every row that   *)
(* is taken is another job's.                                               *)
LEMMA TenantIsFree ==
    ASSUME TBase, NEW j \in Jobs, job[j].tenant = NoTenant
    PROVE  LET free == {u \in Tenants : tenant[u].status = "none"}
           IN free # {} /\ Least(free) \in Tenants /\ tenant[Least(free)].status = "none"
<1> DEFINE free == {u \in Tenants : tenant[u].status = "none"}
<1>1. free # {}
  <2> SUFFICES ASSUME free = {}
               PROVE  FALSE
    OBVIOUS
  <2> DEFINE f == [t \in Tenants |-> CHOOSE i \in Jobs : job[i].tenant = t]
  <2>1. \A t \in Tenants : f[t] \in Jobs /\ job[f[t]].tenant = t
    BY DEF TBase, Owners
  <2>2. \A t \in Tenants : f[t] # j
    BY <2>1, Types DEF TBase
  <2>3. f \in [Tenants -> Jobs \ {j}]
    BY <2>1, <2>2
  <2>4. IsFiniteSet(Jobs \ {j}) /\ Cardinality(Jobs \ {j}) = MaxJobs - 1
    BY Countable, FS_RemoveElement
  <2>5. Cardinality(Jobs \ {j}) < Cardinality(Tenants) /\ IsFiniteSet(Tenants)
    BY <2>4, Countable, ProvisioningAssumption DEF Tenants
  <2>6. PICK t, u \in Tenants : t # u /\ f[t] = f[u]
    <3> HIDE DEF f
    <3> QED  BY <2>3, <2>4, <2>5, FS_PigeonHole
  <2> QED  BY <2>1, <2>6
<1>2. free \subseteq Jobs
  BY DEF Tenants
<1> QED  BY <1>1, <1>2, LeastIn

------------------------------------------------------------------------------
(* Types and owners.                                                       *)

(* What every step but a reservation leaves of the tables: the tenant and   *)
(* the subscription of a job, attempts that only grow, and who has a tenant *)
(* row; and resources are made for tenants that have one.                   *)
JobsKept ==
    /\ job' \in [Jobs -> JobRows]
    /\ \A i \in Jobs :
         /\ job'[i].tenant = job[i].tenant /\ job'[i].attempts >= job[i].attempts
         /\ job[i].status # "none" => job'[i].sub = job[i].sub
         /\ job'[i].status = "none" => job[i].status = "none" /\ job'[i].attempts = 0
         /\ job'[i].status \notin {"none", "queued"} => job'[i].attempts > 0
         /\ job'[i].attempts = 0 => job'[i].rollback = "none"

TenantsKept ==
    /\ tenant' \in [Tenants -> TenantRows]
    /\ \A t \in Tenants : /\ tenant'[t].sub = tenant[t].sub
                          /\ tenant'[t].status = "none" <=> tenant[t].status = "none"

ResourcesOwned ==
    \A t \in roles' \cup databases' \cup containers' \cup filestores' :
        t \in Tenants /\ tenant[t].status # "none"

(* Unchanged tables and resources are kept.                                 *)
LEMMA KeptUnchanged ==
    ASSUME TBase
    PROVE  /\ job' = job => JobsKept
           /\ tenant' = tenant => TenantsKept
           /\ UNCHANGED resources => ResourcesOwned
<1>1. job' = job => JobsKept
  BY Types DEF TBase, TypeOK, Owners, JobsKept
<1>2. tenant' = tenant => TenantsKept
  BY DEF TBase, TypeOK, TenantsKept
<1>3. UNCHANGED resources => ResourcesOwned
  BY DEF TBase, TypeOK, Owners, ResourcesOwned, resources
<1> QED  BY <1>1, <1>2, <1>3

(* One row of an inserted job is written: its status or its rollback.       *)
LEMMA KeptJob ==
    ASSUME TBase, NEW j \in Jobs, NEW r \in JobRows, job' = [job EXCEPT ![j] = r],
           r.tenant = job[j].tenant, r.sub = job[j].sub, r.attempts >= job[j].attempts,
           r.attempts > 0, r.status # "none"
    PROVE  JobsKept
<1>1. job' \in [Jobs -> JobRows] /\ job'[j] = r /\ \A i \in Jobs \ {j} : job'[i] = job[i]
  BY DEF TBase, TypeOK
<1>2. \A i \in Jobs : job[i].attempts \in Nat
  BY Types DEF TBase
<1> QED  BY <1>1, <1>2 DEF JobsKept, TBase, Owners

(* One tenant row that is taken is written.                                 *)
LEMMA KeptTenant ==
    ASSUME TBase, NEW t \in Tenants, NEW w \in TenantRows, tenant' = [tenant EXCEPT ![t] = w],
           w.sub = tenant[t].sub, w.status # "none", tenant[t].status # "none"
    PROVE  TenantsKept
BY DEF TBase, TypeOK, TenantsKept

(* No row is inserted and no request let in.                                *)
LEMMA RoomKept ==
    ASSUME TBase, JobsKept, NEW x \in Threads, NEW q,
           thread' = [thread EXCEPT ![x] = q], q.pc # "insert",
           \A i \in Jobs : job[i].status = "none" => job'[i].status = "none"
    PROVE  Room'
<1>1. Inserted' = Inserted
  BY DEF Inserted, JobsKept
<1>2. Queueing' \subseteq Queueing
  BY DEF Queueing, At, TBase, TypeOK, Threads
<1>3. Cardinality(Queueing') <= Cardinality(Queueing) /\ Cardinality(Queueing') \in Nat
  BY <1>2, Countable, FS_Subset, FS_CardinalityType
<1> QED  BY <1>1, <1>3, Countable, ProvisioningAssumption DEF Room, TBase

(* The threads that do not take a step hold what they held.                 *)
LEMMA OthersHold ==
    ASSUME TBase, JobsKept, NEW y \in Threads
    PROVE  Holds(y, thread[y])'  \/ thread'[y] # thread[y]
<1> SUFFICES ASSUME thread'[y] = thread[y]
             PROVE  Holds(y, thread[y])'
  OBVIOUS
<1> DEFINE q == thread[y]
<1>1. Holds(y, q)
  BY DEF TBase, Holder
<1>2. \A i \in Jobs : /\ job'[i].tenant = job[i].tenant /\ job'[i].attempts >= job[i].attempts
                      /\ job[i].attempts \in Nat /\ job'[i].attempts \in Nat
                      /\ job[i].attempts > 0 => job'[i].sub = job[i].sub
  BY Types DEF JobsKept, JobRows, TBase, Owners
<1>3. q.todo \subseteq Jobs
  BY Types DEF TBase
<1> HIDE DEF q
<1>4. /\ q.pc \in EXECUTE_PCS \cup ROLLBACK_PCS \cup {"requeue"} =>
           q.job \in Jobs /\ job'[q.job].attempts > 0
      /\ q.pc \in EXECUTE_PCS =>
           /\ y = Daemon /\ q.todo = {} /\ q.seen[q.job].sub = job'[q.job].sub
           /\ q.seen[q.job].status \in {"running", "succeeded"}
           /\ \A i \in Jobs \ {q.job} : q.seen[i].tenant = NoTenant
      /\ q.pc \in Reserved \cup Removing => q.seen[q.job].tenant # NoTenant
      /\ q.pc = "mark" => q.job \in q.todo
      /\ q.pc \in ROLLBACK_PCS =>
           \A i \in q.todo : /\ job'[i].attempts > 0
                             /\ q.pc = "mark" \/ i # q.job => q.seen[i].status = "running"
      /\ \A i \in Jobs : q.seen[i].tenant \in {NoTenant, job'[i].tenant}
  BY <1>1, <1>2, <1>3 DEF Holds
<1>5. thread'[y] = q
  BY DEF q
<1> QED  BY <1>4, <1>5 DEF Holds

(* A step of one thread over kept tables is a matter of what that thread    *)
(* holds after it.                                                          *)
LEMMA BaseMoves ==
    ASSUME TBase, NEW x \in Threads, NEW q \in ThreadStates,
           thread' = [thread EXCEPT ![x] = q], JobsKept, TenantsKept, ResourcesOwned, Room',
           stale' \subseteq Jobs, crashes' \in 0 .. MaxCrashes, Holds(x, q)'
    PROVE  TBase'
<1>1. /\ thread' \in [Threads -> ThreadStates] /\ thread'[x] = q
      /\ \A y \in Threads \ {x} : thread'[y] = thread[y]
  BY DEF TBase, TypeOK
<1>2. TypeOK'
  BY <1>1 DEF TypeOK, JobsKept, TenantsKept, ResourcesOwned
<1>3. Owners'
  <2>1. \A j \in Jobs : job'[j].tenant # NoTenant =>
          /\ job'[j].tenant = job[j].tenant /\ job'[j].sub = job[j].sub
          /\ job[j].tenant \in Tenants
    <3> TAKE j \in Jobs
    <3>1. job[j].tenant # NoTenant => job[j].status # "none" /\ job[j].tenant \in Tenants
      BY Types DEF TBase, Owners
    <3>2. /\ job'[j].tenant = job[j].tenant
          /\ job[j].status # "none" => job'[j].sub = job[j].sub
      BY DEF JobsKept
    <3> QED  BY <3>1, <3>2
  <2>2. /\ \A t \in Tenants : /\ tenant'[t].sub = tenant[t].sub
                              /\ tenant'[t].status = "none" <=> tenant[t].status = "none"
        /\ \A t \in roles' \cup databases' \cup containers' \cup filestores' :
              t \in Tenants /\ tenant[t].status # "none"
    BY DEF TenantsKept, ResourcesOwned
  <2>3. /\ \A j \in Jobs : job[j].tenant # NoTenant =>
             /\ tenant[job[j].tenant].status # "none" /\ tenant[job[j].tenant].sub = job[j].sub
             /\ \A i \in Jobs : job[i].tenant = job[j].tenant => i = j
        /\ \A t \in Tenants : tenant[t].status # "none" => \E j \in Jobs : job[j].tenant = t
        /\ \A j \in Jobs : job[j].attempts = 0 => job[j].tenant = NoTenant
        /\ \A i \in Jobs : job[i].attempts \in Nat /\ job'[i].attempts \in Nat
    BY Types DEF TBase, Owners, JobsKept, JobRows
  <2>4. \A i \in Jobs :
         /\ job'[i].tenant = job[i].tenant /\ job'[i].attempts >= job[i].attempts
         /\ job'[i].status = "none" => job'[i].attempts = 0
         /\ job'[i].status \notin {"none", "queued"} => job'[i].attempts > 0
         /\ job'[i].attempts = 0 => job'[i].rollback = "none"
    BY DEF JobsKept
  <2>5. \A j \in Jobs : job'[j].tenant # NoTenant =>
             /\ tenant'[job'[j].tenant].status # "none" /\ tenant'[job'[j].tenant].sub = job'[j].sub
             /\ \A i \in Jobs : job'[i].tenant = job'[j].tenant => i = j
    BY <2>1, <2>2, <2>3, <2>4
  <2>6. /\ \A t \in Tenants : tenant'[t].status # "none" => \E j \in Jobs : job'[j].tenant = t
        /\ \A t \in roles' \cup databases' \cup containers' \cup filestores' :
              tenant'[t].status # "none"
    BY <2>2, <2>3, <2>4
  <2>7. /\ \A j \in Jobs : job'[j].status \notin {"none", "queued"} => job'[j].attempts > 0
        /\ \A j \in Jobs : job'[j].attempts = 0
              => job'[j].tenant = NoTenant /\ job'[j].rollback = "none"
        /\ \A j \in Jobs : job'[j].status = "none" => job'[j].attempts = 0
    BY <2>3, <2>4
  <2> QED  BY <2>5, <2>6, <2>7 DEF Owners
<1>4. ASSUME NEW y \in Threads
      PROVE  Holder(y)'
  <2>1. CASE y = x
    BY <1>1, <2>1 DEF Holder
  <2>2. CASE y # x
    BY <1>1, <2>2, OthersHold DEF Holder
  <2> QED  BY <2>1, <2>2
<1> QED  BY <1>2, <1>3, <1>4 DEF TBase

------------------------------------------------------------------------------
(* Steps that end in rest, and steps of a compensation.                    *)

(* No job begins to run or succeeds in such a step; one changes its status  *)
(* at the hands of the worker or of a thread that had it before it, and is  *)
(* reported as rolled back only if its tenant is.                           *)
StatusMoves(x) ==
    \A i \in Jobs :
        /\ job'[i].attempts = job[i].attempts
        /\ job'[i].status # job[i].status =>
             /\ job'[i].status \notin {"running", "succeeded"}
             /\ x = Daemon \/ OnList(x, i) \/ Requeues(x, i) \/ job[i].attempts = 0
             /\ (/\ job'[i].status = "rolled_back" /\ job[i].attempts = 1
                 /\ job[i].tenant # NoTenant) => NothingLeft(job[i].tenant)

(* The others, and what is theirs, are as they were.                        *)
LEMMA OthersStay ==
    ASSUME TBase, NEW x \in Threads, NEW q, thread' = [thread EXCEPT ![x] = q]
    PROVE  /\ thread'[x] = q /\ DOMAIN thread' = Threads
           /\ \A y \in Threads \ {x} :
                /\ thread'[y] = thread[y] /\ MyTenant(y)' = MyTenant(y) /\ Mine(y)' = Mine(y)
                /\ Undoing(y)' = Undoing(y)
                /\ \A i \in Jobs : /\ OnList(y, i)' = OnList(y, i)
                                   /\ Threatens(y, i)' = Threatens(y, i)
                                   /\ Requeues(y, i)' = Requeues(y, i)
BY DEF TBase, TypeOK, MyTenant, Mine, Undoing, OnList, Threatens, Requeues

(* A thread comes to rest: it leaves what it was doing, and nothing outside *)
(* the jobs table changes.                                                  *)
LEMMA RestMoves ==
    ASSUME TBase, NEW x \in Threads, NEW q \in ThreadStates,
           thread' = [thread EXCEPT ![x] = q],
           q.pc \in {"idle", "claim", "insert", "requeue"},
           q.pc = "requeue" => /\ q.job \in Jobs /\ job[q.job].attempts > 0
                               /\ job[q.job].status \notin {"running", "succeeded"},
           \A i \in Jobs : q.seen[i].tenant \in {NoTenant, job[i].tenant},
           UNCHANGED <<tenant, resources>>, stale' \subseteq stale, crashes' \in 0 .. MaxCrashes,
           JobsKept, Room', StatusMoves(x), \A i \in Jobs : job'[i].rollback = job[i].rollback
    PROVE  TBase' /\ (TKnow => TKnow')
<1>1. /\ q.pc \notin EXECUTE_PCS /\ q.pc \notin ROLLBACK_PCS
      /\ q.pc \notin Reserved \cup Removing /\ q.pc # "mark"
  BY Counters DEF Reserved, Removing, ROLLBACK_PCS
<1>2. \A i \in Jobs : /\ job'[i].tenant = job[i].tenant /\ job'[i].attempts = job[i].attempts
                      /\ job'[i].rollback = job[i].rollback
  BY DEF JobsKept, StatusMoves
<1>3. Holds(x, q)'
  BY <1>1, <1>2 DEF Holds
<1>4. TBase'
  BY <1>3, BaseMoves, KeptUnchanged DEF TBase, TypeOK
<1> SUFFICES ASSUME TKnow
             PROVE  TKnow'
  BY <1>4
<1>5. /\ thread'[x] = q
      /\ \A y \in Threads \ {x} :
           /\ thread'[y] = thread[y] /\ MyTenant(y)' = MyTenant(y) /\ Mine(y)' = Mine(y)
           /\ Undoing(y)' = Undoing(y)
           /\ \A i \in Jobs : /\ OnList(y, i)' = OnList(y, i)
                              /\ Threatens(y, i)' = Threatens(y, i)
                              /\ Requeues(y, i)' = Requeues(y, i)
  BY OthersStay
<1>6. ~Undoing(x)' /\ \A i \in Jobs : ~OnList(x, i)' /\ ~Threatens(x, i)'
  BY <1>1, <1>5 DEF Undoing, OnList, Threatens
<1>7. /\ thread'[Daemon].pc \in EXECUTE_PCS => x # Daemon
      /\ \A i \in Jobs : Executing(i)' => Executing(i) /\ x # Daemon
      /\ Daemon \in Threads
  BY <1>1, <1>5 DEF Executing, Threads
<1>8. UNCHANGED <<tenant, roles, databases, containers, filestores>>
  BY DEF resources
<1>9. Undisturbed'
  <2>1. \A i \in Jobs, y \in Threads : Threatens(y, i)' => Threatens(y, i)
    BY <1>5, <1>6
  <2>2. thread[Daemon].pc \in EXECUTE_PCS => thread[Daemon].job \in Jobs
    BY <1>7 DEF TBase, Holder, Holds
  <2> QED  BY <1>5, <1>7, <1>8, <2>1, <2>2, Counters DEF TKnow, Undisturbed
<1>10. Secure'
  BY <1>2, <1>5, <1>6, <1>8 DEF TKnow, Secure, SucceededIsServed, StatusMoves
<1>11. Fresh'
  <2> SUFFICES ASSUME NEW j \in Jobs, job'[j].attempts = 1
               PROVE  /\ Executing(j)' => /\ job'[j].status \in {"running", "succeeded"}
                                         /\ Mine(Daemon)'.tenant = job'[j].tenant
                                         /\ Mine(Daemon)'.rollback # "completed"
                                         /\ \A y \in Threads : ~OnList(y, j)' /\ ~Requeues(y, j)'
                      /\ job'[j].status \in {"running", "succeeded"} => job'[j].rollback # "completed"
                      /\ \A y \in Threads : OnList(y, j)' =>
                           /\ thread'[y].seen[j].tenant = job'[j].tenant
                           /\ j # thread'[y].job \/ thread'[y].pc \in {"mark", "rollback"} =>
                                thread'[y].seen[j].rollback # "completed"
                           /\ j = thread'[y].job /\ thread'[y].pc # "mark" =>
                                job'[j].status \notin {"running", "succeeded"}
    BY DEF Fresh
  <2>1. job[j].attempts = 1
    BY <1>2
  <2>2. /\ Executing(j) => /\ job[j].status \in {"running", "succeeded"}
                           /\ Mine(Daemon).tenant = job[j].tenant
                           /\ Mine(Daemon).rollback # "completed"
                           /\ \A y \in Threads : ~OnList(y, j) /\ ~Requeues(y, j)
        /\ job[j].status \in {"running", "succeeded"} => job[j].rollback # "completed"
        /\ \A y \in Threads : OnList(y, j) =>
             /\ thread[y].seen[j].tenant = job[j].tenant
             /\ j # thread[y].job \/ thread[y].pc \in {"mark", "rollback"} =>
                  thread[y].seen[j].rollback # "completed"
             /\ j = thread[y].job /\ thread[y].pc # "mark" =>
                  job[j].status \notin {"running", "succeeded"}
    BY <2>1 DEF TKnow, Fresh
  <2>3. /\ job'[j].status # job[j].status =>
             /\ job'[j].status \notin {"running", "succeeded"}
             /\ x = Daemon \/ OnList(x, j) \/ Requeues(x, j)
    BY <2>1 DEF StatusMoves
  <2>4. Requeues(x, j)' => job[j].status \notin {"running", "succeeded"}
    BY <1>5 DEF Requeues
  <2>5. Executing(j)' => /\ job'[j].status \in {"running", "succeeded"}
                         /\ Mine(Daemon)'.tenant = job'[j].tenant
                         /\ Mine(Daemon)'.rollback # "completed"
                         /\ \A y \in Threads : ~OnList(y, j)' /\ ~Requeues(y, j)'
    BY <1>2, <1>5, <1>6, <1>7, <2>2, <2>3, <2>4
  <2>6. job'[j].status \in {"running", "succeeded"} => job'[j].rollback # "completed"
    BY <1>2, <2>2, <2>3
  <2>7. \A y \in Threads : OnList(y, j)' =>
             /\ thread'[y].seen[j].tenant = job'[j].tenant
             /\ j # thread'[y].job \/ thread'[y].pc \in {"mark", "rollback"} =>
                  thread'[y].seen[j].rollback # "completed"
             /\ j = thread'[y].job /\ thread'[y].pc # "mark" =>
                  job'[j].status \notin {"running", "succeeded"}
    BY <1>2, <1>5, <1>6, <2>2, <2>3
  <2> QED  BY <2>5, <2>6, <2>7
<1>12. Recorded'
  BY <1>1, <1>5, <1>7, <1>8, Counters DEF TKnow, Recorded, Reserved, EXECUTE_PCS
<1>13. ASSUME NEW y \in Threads
       PROVE  Gone(y)'
  <2>1. CASE y = x
    BY <1>6, <2>1 DEF Gone
  <2>2. CASE y # x
    <3>1. thread'[y] = thread[y] /\ MyTenant(y)' = MyTenant(y) /\ Undoing(y)' = Undoing(y)
      BY <1>5, <2>2
    <3>2. Undoing(y) => thread[y].job \in Jobs
      BY DEF TBase, Holder, Holds, Undoing
    <3>3. \A t : NothingLeft(t)' = NothingLeft(t)
      BY <1>8 DEF NothingLeft
    <3> QED  BY <1>2, <1>8, <3>1, <3>2, <3>3 DEF TKnow, Gone
  <2> QED  BY <2>1, <2>2
<1>14. FirstRollbackIsClean'
  <2>1. \A t : NothingLeft(t)' = NothingLeft(t)
    BY <1>8 DEF NothingLeft
  <2> QED  BY <1>2, <2>1 DEF TKnow, FirstRollbackIsClean, StatusMoves
<1> QED  BY <1>9, <1>10, <1>11, <1>12, <1>13, <1>14 DEF TKnow

(* How a compensation goes on: the job is marked, the next thing is done,   *)
(* or the next job of the list is begun.  The copies of the other jobs and  *)
(* every tenant it knows stay.                                              *)
Advances(x, q) ==
    LET old == thread[x]  j == thread[x].job
    IN /\ q.pc \in ROLLBACK_PCS
       /\ q.pc = "mark" => q.job \in q.todo
       /\ \A i \in Jobs : /\ q.seen[i].tenant = old.seen[i].tenant
                          /\ i # j => q.seen[i] = old.seen[i]
       /\ \/ /\ old.pc \in {"mark", "fail"} /\ q.pc = "rollback" /\ q.job = j /\ q.todo = old.todo
             /\ q.seen[j].rollback = old.seen[j].rollback
             /\ job'[j].status = "rollback_required"
          \/ /\ old.pc \in ROLLBACK_PCS \ {"mark"} /\ q.pc \notin {"mark", "rollback"}
             /\ q.job = j /\ q.todo = old.todo
          \/ /\ old.pc = "final" /\ q.pc = "mark"
             /\ q.job \in old.todo \ {j} /\ q.todo = old.todo \ {j}
       /\ q.pc \in Removing => q.seen[q.job].tenant # NoTenant

(* What a compensation may change outside the jobs table: it takes away     *)
(* from its own tenant, and marks it.                                       *)
TakesOwn(x) ==
    /\ roles' \subseteq roles /\ databases' \subseteq databases
    /\ containers' \subseteq containers /\ filestores' \subseteq filestores
    /\ \A t \in Tenants : /\ tenant'[t].named = tenant[t].named
                          /\ tenant'[t].files = tenant[t].files
    /\ \/ UNCHANGED <<tenant, resources>>
       \/ /\ thread[x].pc \in Removing
          /\ \A t \in Tenants \ {MyTenant(x)} :
               /\ tenant'[t] = tenant[t]
               /\ t \in roles => t \in roles'
               /\ t \in databases => t \in databases'
               /\ t \in containers => t \in containers'
               /\ t \in filestores => t \in filestores'

(* The tenant of a job that somebody else works on, or that succeeded, is   *)
(* not the one a compensation takes away from.                              *)
LEMMA TakesNoOther ==
    ASSUME TBase, NEW x \in Threads, TakesOwn(x), NEW j \in Jobs, ~Threatens(x, j),
           NEW t \in Tenants, job[j].tenant = t
    PROVE  /\ tenant'[t] = tenant[t]
           /\ t \in roles => t \in roles'
           /\ t \in databases => t \in databases'
           /\ t \in containers => t \in containers'
           /\ t \in filestores => t \in filestores'
<1>1. CASE UNCHANGED <<tenant, resources>>
  BY <1>1 DEF resources
<1>2. CASE thread[x].pc \in Removing
  <2> DEFINE i == thread[x].job
  <2>1. Undoing(x) /\ i \in Jobs /\ MyTenant(x) # NoTenant /\ MyTenant(x) = job[i].tenant
    BY <1>2, Counters DEF TBase, Holder, Holds, Undoing, MyTenant, Mine
  <2>2. i # j
    BY <2>1 DEF Threatens, MyTenant, Mine
  <2>3. MyTenant(x) # t
    BY <2>1, <2>2, Types DEF TBase, Owners
  <2> QED  BY <2>1, <2>3 DEF TakesOwn, resources
<1> QED  BY <1>1, <1>2 DEF TakesOwn

(* A step of a compensation.  What it has removed, and that its copy of the *)
(* tenant row is right, is for each step to show.                           *)
LEMMA UndoMoves ==
    ASSUME TBase, NEW x \in Threads, NEW q \in ThreadStates,
           thread' = [thread EXCEPT ![x] = q], Advances(x, q), TakesOwn(x), TenantsKept,
           UNCHANGED <<stale, crashes>>, JobsKept, TKnow => StatusMoves(x),
           \A i \in Jobs : job'[i].attempts = job[i].attempts,
           \A i \in Jobs \ {thread[x].job} : job'[i] = job[i],
           thread[x].pc \in {"mark", "fail"} =>
               job'[thread[x].job].rollback = job[thread[x].job].rollback,
           TKnow => /\ Gone(x)'
                    /\ (q.pc \in Removing \/ (q.pc = "rollback" /\ q.todo = {}))
                       /\ q.seen[q.job].tenant # NoTenant =>
                         /\ q.copy.named = tenant'[q.seen[q.job].tenant].named
                         /\ q.copy.files = tenant'[q.seen[q.job].tenant].files
    PROVE  TBase' /\ (TKnow => TKnow')
<1> DEFINE old == thread[x]
           at == thread[x].job
<1>0. /\ old.pc \in ROLLBACK_PCS \/ (x = Daemon /\ old.pc = "fail" /\ old.todo = {})
      /\ at \in Jobs /\ job[at].attempts > 0 /\ Holds(x, old)
      /\ old.todo \subseteq Jobs
      /\ old.pc \in EXECUTE_PCS => x = Daemon
  <2>1. old.pc \in ROLLBACK_PCS \/ old.pc = "fail"
    BY DEF Advances, ROLLBACK_PCS
  <2> QED  BY <2>1, Types DEF TBase, Holder, Holds, EXECUTE_PCS
<1>1. /\ q.pc \in ROLLBACK_PCS /\ q.pc \notin EXECUTE_PCS /\ q.pc \notin Reserved
      /\ q.pc \notin {"insert", "requeue"}
      /\ q.job \in Jobs /\ q.todo \subseteq old.todo /\ q.job \in {at} \cup old.todo
      /\ \A i \in Jobs : q.seen[i].tenant = old.seen[i].tenant
  BY <1>0, Counters DEF Advances
<1>2. \A i \in Jobs : /\ job'[i].tenant = job[i].tenant /\ job'[i].attempts = job[i].attempts
  BY DEF JobsKept
<1>3. Holds(x, q)'
  <2>1. /\ \A i \in old.todo : old.pc \in ROLLBACK_PCS => job[i].attempts > 0
        /\ \A i \in Jobs : old.seen[i].tenant \in {NoTenant, job[i].tenant}
    BY <1>0 DEF Holds
  <2>2. job[q.job].attempts > 0 /\ \A i \in q.todo : job[i].attempts > 0
    BY <1>0, <1>1, <2>1
  <2>3. \A i \in q.todo : q.pc = "mark" \/ i # q.job => q.seen[i].status = "running"
    BY <1>0 DEF Holds, Advances
  <2>4. q.pc \in Removing => q.seen[q.job].tenant # NoTenant
    BY DEF Advances
  <2>5. q.pc = "mark" => q.job \in q.todo
    BY DEF Advances
  <2> QED  BY <1>0, <1>1, <1>2, <2>1, <2>2, <2>3, <2>4, <2>5 DEF Holds
<1>4. TBase'
  <2>1. ResourcesOwned
    BY DEF TakesOwn, ResourcesOwned, TBase, TypeOK, Owners
  <2>2. Room'
    <3>1. \A i \in Jobs : job[i].status = "none" => job'[i].status = "none"
      BY <1>0 DEF TBase, Owners
    <3> QED  BY <1>1, <3>1, RoomKept
  <2>3. stale' \subseteq Jobs /\ crashes' \in 0 .. MaxCrashes
    BY DEF TBase, TypeOK
  <2> QED  BY <1>3, <2>1, <2>2, <2>3, BaseMoves
<1> SUFFICES ASSUME TKnow, StatusMoves(x)
             PROVE  TKnow'
  BY <1>4
<1>5. /\ thread'[x] = q
      /\ \A y \in Threads \ {x} :
           /\ thread'[y] = thread[y] /\ MyTenant(y)' = MyTenant(y) /\ Mine(y)' = Mine(y)
           /\ Undoing(y)' = Undoing(y)
           /\ \A i \in Jobs : /\ OnList(y, i)' = OnList(y, i)
                              /\ Threatens(y, i)' = Threatens(y, i)
                              /\ Requeues(y, i)' = Requeues(y, i)
  BY OthersStay
<1>6. /\ Undoing(x)' /\ MyTenant(x)' = q.seen[q.job].tenant
      /\ \A i \in Jobs : /\ ~Requeues(x, i)'
                         /\ OnList(x, i)' => (q.job = i \/ i \in q.todo)
                         /\ OnList(x, i)' => OnList(x, i) \/ (x = Daemon /\ Executing(i))
                         /\ Threatens(x, i)' => old.seen[i].tenant # NoTenant
  BY <1>0, <1>1, <1>5, Counters
  DEF Undoing, OnList, Threatens, Requeues, MyTenant, Mine, Executing, EXECUTE_PCS
<1>7. /\ thread'[Daemon].pc \in EXECUTE_PCS => x # Daemon
      /\ \A i \in Jobs : Executing(i)' => Executing(i) /\ x # Daemon
      /\ Daemon \in Threads
  BY <1>1, <1>5 DEF Executing, Threads
(* What x threatens it threatened, or it is the job it has just left.       *)
<1>8. \A i \in Jobs : Threatens(x, i)' => Threatens(x, i) \/ (x = Daemon /\ i = at /\ old.pc = "fail")
  BY <1>0, <1>6 DEF Threatens, Undoing, Holds, EXECUTE_PCS
<1>9. Undisturbed'
  <2> SUFFICES ASSUME thread'[Daemon].pc \in EXECUTE_PCS
               PROVE  Undisturbed'
    BY Counters DEF Undisturbed
  <2> DEFINE j == thread[Daemon].job
             t == MyTenant(Daemon)
             pc == thread[Daemon].pc
  <2>1. x # Daemon /\ thread'[Daemon] = thread[Daemon] /\ t' = t /\ j \in Jobs /\ j \notin stale
    BY <1>5, <1>7 DEF TBase, Holder, Holds, TKnow, Undisturbed
  <2>2. ASSUME pc \in Reserved
        PROVE  /\ \A y \in Threads : ~Threatens(y, j)'
               /\ t \in filestores => t \in filestores'
               /\ t \in roles => t \in roles'
               /\ t \in databases => t \in databases'
               /\ t \in containers => t \in containers'
    <3>1. \A y \in Threads : ~Threatens(y, j)
      BY <2>2 DEF TKnow, Undisturbed
    <3>2. t \in Tenants /\ job[j].tenant = t
      BY <1>7, <2>1, <2>2, Types DEF TBase, Holder, Holds, MyTenant, Mine
    <3>3. \A y \in Threads : ~Threatens(y, j)'
      BY <1>5, <1>8, <2>1, <3>1
    <3> QED  BY <3>1, <3>2, <3>3, <2>1, TakesNoOther
  <2>3. thread'[Daemon].pc = pc /\ thread'[Daemon].job = j /\ j \notin stale'
    BY <2>1
  <2>4. pc \in Reserved =>
            /\ pc \in {"filepath", "role", "clone", "port", "container", "health", "succeed"}
                 => t \in filestores
            /\ pc \in {"clone", "port", "container", "health", "succeed"} => t \in roles
            /\ pc \in {"port", "container", "health", "succeed"} => t \in databases
            /\ pc \in {"health", "succeed"} => t \in containers
    BY DEF TKnow, Undisturbed
  <2>6. thread'[Daemon].pc \in Reserved =>
            /\ \A y \in Threads : ~Threatens(y, thread[Daemon].job)'
            /\ pc \in {"filepath", "role", "clone", "port", "container", "health", "succeed"}
                 => MyTenant(Daemon)' \in filestores'
            /\ pc \in {"clone", "port", "container", "health", "succeed"}
                 => MyTenant(Daemon)' \in roles'
            /\ pc \in {"port", "container", "health", "succeed"}
                 => MyTenant(Daemon)' \in databases'
            /\ pc \in {"health", "succeed"} => MyTenant(Daemon)' \in containers'
    BY <2>1, <2>2, <2>3, <2>4
  <2> QED  BY <2>1, <2>3, <2>6 DEF Undisturbed
<1>10. \A t \in Tenants : NothingLeft(t) => NothingLeft(t)'
  BY DEF NothingLeft, TakesOwn
<1>11. \A i \in Jobs : job[i].tenant \in Tenants \cup {NoTenant}
  BY Types DEF TBase
<1>12. Secure'
  <2>1. ASSUME NEW j \in Jobs, job'[j].status = "succeeded"
        PROVE  /\ job[j].status = "succeeded"
               /\ \A y \in Threads : ~Threatens(y, j)
               /\ \A y \in Threads : ~Threatens(y, j)'
               /\ job'[j].tenant # NoTenant /\ tenant'[job'[j].tenant].status = "active"
               /\ job'[j].tenant \in roles' \cap databases' \cap containers' \cap filestores'
    <3>1. job[j].status = "succeeded"
      BY <2>1 DEF StatusMoves
    <3>2. \A y \in Threads : ~Threatens(y, j)
      BY <3>1 DEF TKnow, Secure
    <3>3. old.pc = "fail" => job'[at].status = "rollback_required"
      BY DEF Advances, ROLLBACK_PCS
    <3>4. \A y \in Threads : ~Threatens(y, j)'
      BY <1>5, <1>8, <2>1, <3>2, <3>3
    <3>5. /\ job[j].tenant # NoTenant /\ tenant[job[j].tenant].status = "active"
          /\ job[j].tenant \in roles \cap databases \cap containers \cap filestores
      BY <3>1 DEF TKnow, Secure, SucceededIsServed
    <3>6. /\ tenant'[job[j].tenant] = tenant[job[j].tenant]
          /\ job[j].tenant \in roles' \cap databases' \cap containers' \cap filestores'
      BY <1>11, <3>2, <3>5, TakesNoOther
    <3> QED  BY <1>2, <3>1, <3>2, <3>4, <3>5, <3>6
  <2> QED  BY <2>1 DEF Secure, SucceededIsServed
<1>13. Fresh'
  <2> SUFFICES ASSUME NEW j \in Jobs, job'[j].attempts = 1
               PROVE  /\ Executing(j)' => /\ job'[j].status \in {"running", "succeeded"}
                                         /\ Mine(Daemon)'.tenant = job'[j].tenant
                                         /\ Mine(Daemon)'.rollback # "completed"
                                         /\ \A y \in Threads : ~OnList(y, j)' /\ ~Requeues(y, j)'
                      /\ job'[j].status \in {"running", "succeeded"} => job'[j].rollback # "completed"
                      /\ \A y \in Threads : OnList(y, j)' =>
                           /\ thread'[y].seen[j].tenant = job'[j].tenant
                           /\ j # thread'[y].job \/ thread'[y].pc \in {"mark", "rollback"} =>
                                thread'[y].seen[j].rollback # "completed"
                           /\ j = thread'[y].job /\ thread'[y].pc # "mark" =>
                                job'[j].status \notin {"running", "succeeded"}
    BY DEF Fresh
  <2>1. job[j].attempts = 1
    BY <1>2
  <2>2. /\ Executing(j) => /\ job[j].status \in {"running", "succeeded"}
                           /\ Mine(Daemon).tenant = job[j].tenant
                           /\ Mine(Daemon).rollback # "completed"
                           /\ \A y \in Threads : ~OnList(y, j) /\ ~Requeues(y, j)
        /\ job[j].status \in {"running", "succeeded"} => job[j].rollback # "completed"
        /\ \A y \in Threads : OnList(y, j) =>
             /\ thread[y].seen[j].tenant = job[j].tenant
             /\ j # thread[y].job \/ thread[y].pc \in {"mark", "rollback"} =>
                  thread[y].seen[j].rollback # "completed"
             /\ j = thread[y].job /\ thread[y].pc # "mark" =>
                  job[j].status \notin {"running", "succeeded"}
    BY <2>1 DEF TKnow, Fresh
  <2>3. /\ job'[j].status # job[j].status =>
             /\ job'[j].status \notin {"running", "succeeded"}
             /\ x = Daemon \/ OnList(x, j) \/ Requeues(x, j)
    BY <2>1 DEF StatusMoves
  <2>4. Executing(j)' => /\ job'[j].status \in {"running", "succeeded"}
                         /\ Mine(Daemon)'.tenant = job'[j].tenant
                         /\ Mine(Daemon)'.rollback # "completed"
                         /\ \A y \in Threads : ~OnList(y, j)' /\ ~Requeues(y, j)'
    BY <1>2, <1>5, <1>6, <1>7, <2>2, <2>3
  <2>5. old.pc \in ROLLBACK_PCS => OnList(x, at)
    BY DEF OnList, Undoing
  <2>6. job'[j].status \in {"running", "succeeded"} => job'[j].rollback # "completed"
    <3>1. CASE j # at
      BY <2>2, <3>1
    <3>2. CASE j = at /\ old.pc \in {"mark", "fail"}
      BY <2>2, <2>3, <3>2
    <3>3. CASE j = at /\ old.pc \notin {"mark", "fail"}
      BY <1>0, <2>2, <2>3, <2>5, <3>3
    <3> QED  BY <3>1, <3>2, <3>3
  <2>7. ASSUME OnList(x, j)'
        PROVE  /\ q.seen[j].tenant = job'[j].tenant
               /\ j # q.job \/ q.pc \in {"mark", "rollback"} => q.seen[j].rollback # "completed"
               /\ j = q.job /\ q.pc # "mark" => job'[j].status \notin {"running", "succeeded"}
    <3>1. q.seen[j].tenant = job'[j].tenant
      <4>1. CASE OnList(x, j)
        BY <1>1, <1>2, <2>2, <4>1
      <4>2. CASE x = Daemon /\ Executing(j)
        BY <1>1, <1>2, <2>2, <4>2 DEF Executing, Mine
      <4> QED  BY <1>6, <2>7, <4>1, <4>2
    <3>2. j = q.job \/ j \in q.todo
      BY <1>6, <2>7
    <3>3. CASE /\ old.pc \in {"mark", "fail"} /\ q.pc = "rollback" /\ q.job = at
               /\ q.todo = old.todo /\ q.seen[at].rollback = old.seen[at].rollback
               /\ job'[at].status = "rollback_required"
      <4>1. CASE OnList(x, j)
        <5>1. old.pc = "mark"
          BY <3>3, <4>1 DEF OnList, Undoing, ROLLBACK_PCS
        <5> QED  BY <2>2, <3>1, <3>3, <4>1, <5>1 DEF Advances
      <4>2. CASE x = Daemon /\ Executing(j)
        BY <2>2, <3>1, <3>3, <4>2 DEF Executing, Mine
      <4> QED  BY <1>6, <2>7, <4>1, <4>2
    <3>4. CASE /\ old.pc \in ROLLBACK_PCS \ {"mark"} /\ q.pc \notin {"mark", "rollback"}
               /\ q.job = at /\ q.todo = old.todo
      <4>1. OnList(x, j)
        BY <3>2, <3>4 DEF OnList, Undoing
      <4> QED  BY <2>2, <2>3, <3>1, <3>4, <4>1 DEF Advances
    <3>5. CASE /\ old.pc = "final" /\ q.pc = "mark"
               /\ q.job \in old.todo \ {at} /\ q.todo = old.todo \ {at}
      <4>1. OnList(x, j) /\ j # at
        BY <3>2, <3>5 DEF OnList, Undoing, ROLLBACK_PCS
      <4> QED  BY <2>2, <3>1, <3>5, <4>1 DEF Advances
    <3> QED  BY <3>3, <3>4, <3>5 DEF Advances
  <2>8. \A y \in Threads : OnList(y, j)' =>
             /\ thread'[y].seen[j].tenant = job'[j].tenant
             /\ j # thread'[y].job \/ thread'[y].pc \in {"mark", "rollback"} =>
                  thread'[y].seen[j].rollback # "completed"
             /\ j = thread'[y].job /\ thread'[y].pc # "mark" =>
                  job'[j].status \notin {"running", "succeeded"}
    BY <1>2, <1>5, <2>2, <2>3, <2>7
  <2> QED  BY <2>4, <2>6, <2>8
<1>14. Recorded'
  <2>1. /\ containers' \subseteq containers
        /\ \A t \in Tenants : /\ tenant'[t].named = tenant[t].named
                              /\ tenant'[t].files = tenant[t].files
    BY DEF TakesOwn
  <2>2. \A t \in containers : t \in Tenants /\ tenant[t].named
    BY DEF TKnow, Recorded, TBase, TypeOK
  <2>3. thread'[Daemon].pc \in {"container", "health"} => thread'[Daemon].copy.named
    BY <1>5, <1>7 DEF TKnow, Recorded, EXECUTE_PCS
  <2>4. ASSUME NEW y \in Threads, y # x,
               \/ thread'[y].pc \in Reserved \cup Removing
               \/ thread'[y].pc = "rollback" /\ thread'[y].todo = {},
               MyTenant(y)' # NoTenant
        PROVE  /\ thread'[y].copy.named = tenant'[MyTenant(y)'].named
               /\ thread'[y].copy.files = tenant'[MyTenant(y)'].files
    <3>1. thread'[y] = thread[y] /\ MyTenant(y)' = MyTenant(y)
      BY <1>5, <2>4
    <3>2. thread[y].job \in Jobs
      BY <2>4, <3>1, Counters DEF TBase, Holder, Holds, ROLLBACK_PCS
    <3>3. MyTenant(y) \in Tenants
      BY <2>4, <3>1, <3>2, Types DEF TBase
    <3> QED  BY <2>1, <2>4, <3>1, <3>3 DEF TKnow, Recorded
  <2>5. (\/ thread'[x].pc \in Reserved \cup Removing
         \/ thread'[x].pc = "rollback" /\ thread'[x].todo = {})
        /\ MyTenant(x)' # NoTenant =>
               /\ thread'[x].copy.named = tenant'[MyTenant(x)'].named
               /\ thread'[x].copy.files = tenant'[MyTenant(x)'].files
    BY <1>1, <1>5, <1>6
  <2> QED  BY <2>1, <2>2, <2>3, <2>4, <2>5 DEF Recorded
<1>15. ASSUME NEW y \in Threads
       PROVE  Gone(y)'
  <2>1. CASE y # x
    <3>1. thread'[y] = thread[y] /\ MyTenant(y)' = MyTenant(y) /\ Undoing(y)' = Undoing(y)
      BY <1>5, <2>1
    <3>2. Undoing(y) => thread[y].job \in Jobs /\ MyTenant(y) \in Tenants \cup {NoTenant}
      BY Types DEF TBase, Holder, Holds, Undoing
    <3>3. \A t \in Tenants : tenant'[t].files = tenant[t].files
      BY DEF TakesOwn
    <3>4. Gone(y)
      BY DEF TKnow
    <3>5. /\ roles' \subseteq roles /\ databases' \subseteq databases
          /\ containers' \subseteq containers /\ filestores' \subseteq filestores
      BY DEF TakesOwn
    <3> QED  BY <1>2, <1>10, <3>1, <3>2, <3>3, <3>4, <3>5 DEF Gone
  <2> QED  BY <2>1
<1>16. FirstRollbackIsClean'
  BY <1>2, <1>10, <1>11 DEF TKnow, FirstRollbackIsClean, StatusMoves
<1> QED  BY <1>9, <1>12, <1>13, <1>14, <1>15, <1>16 DEF TKnow

------------------------------------------------------------------------------
(* Steps of an execution that holds its tenant.                            *)

(* Nobody else takes away from the tenant that an execution holds.          *)
LEMMA HeldAlone ==
    ASSUME TBase, TKnow, thread[Daemon].pc \in Reserved
    PROVE  LET j == thread[Daemon].job  t == MyTenant(Daemon)
           IN /\ Daemon \in Threads /\ j \in Jobs /\ t \in Tenants /\ job[j].tenant = t
              /\ ~Undoing(Daemon) /\ Executing(j)
              /\ \A y \in Threads : Undoing(y) /\ MyTenant(y) # NoTenant => MyTenant(y) # t
              /\ \A i \in Jobs : job[i].tenant = t => i = j
<1> DEFINE j == thread[Daemon].job
           t == MyTenant(Daemon)
<1>1. Daemon \in Threads /\ thread[Daemon].pc \in EXECUTE_PCS /\ ~Undoing(Daemon)
  BY Counters DEF Threads, Undoing
<1>2. Executing(j) /\ j \in Jobs /\ t # NoTenant /\ t \in {NoTenant, job[j].tenant}
  BY <1>1 DEF TBase, Holder, Holds, MyTenant, Mine, Executing
<1>3. t \in Tenants /\ job[j].tenant = t
  BY <1>1, <1>2, Types DEF TBase
<1>4. \A i \in Jobs : job[i].tenant = t => i = j
  BY <1>2, <1>3 DEF TBase, Owners
<1>5. ASSUME NEW y \in Threads, Undoing(y), MyTenant(y) # NoTenant
      PROVE  MyTenant(y) # t
  <2>1. thread[y].job \in Jobs /\ MyTenant(y) = job[thread[y].job].tenant
    BY <1>5 DEF TBase, Holder, Holds, Undoing, MyTenant, Mine
  <2>2. ~Threatens(y, j)
    BY DEF TKnow, Undisturbed
  <2>3. thread[y].job # j
    BY <1>5, <2>2 DEF Threatens, MyTenant, Mine
  <2> QED  BY <1>4, <2>1, <2>3
<1> QED  BY <1>1, <1>2, <1>3, <1>4, <1>5

(* An execution makes something for its tenant, or records it in its row.   *)
LEMMA ExecutionMoves ==
    ASSUME TBase, NEW q \in ThreadStates, thread' = [thread EXCEPT ![Daemon] = q],
           thread[Daemon].pc \in Reserved, q.pc \in Reserved, q.job = thread[Daemon].job,
           q.todo = thread[Daemon].todo, q.seen = thread[Daemon].seen,
           UNCHANGED <<job, stale, crashes>>, TenantsKept, ResourcesOwned,
           \A t \in Tenants : /\ tenant'[t].status = tenant[t].status
                              /\ t # MyTenant(Daemon) => tenant'[t] = tenant[t],
           roles \subseteq roles' /\ roles' \subseteq roles \cup {MyTenant(Daemon)},
           databases \subseteq databases' /\ databases' \subseteq databases \cup {MyTenant(Daemon)},
           containers \subseteq containers' /\ containers' \subseteq containers \cup {MyTenant(Daemon)},
           filestores \subseteq filestores' /\ filestores' \subseteq filestores \cup {MyTenant(Daemon)},
           TKnow => LET t == MyTenant(Daemon)
                    IN /\ q.pc \in {"filepath", "role", "clone", "port", "container", "health", "succeed"}
                            => t \in filestores'
                       /\ q.pc \in {"clone", "port", "container", "health", "succeed"} => t \in roles'
                       /\ q.pc \in {"port", "container", "health", "succeed"} => t \in databases'
                       /\ q.pc \in {"health", "succeed"} => t \in containers'
                       /\ q.pc \in {"container", "health"} => q.copy.named
                       /\ t \in containers' => tenant'[t].named
                       /\ q.copy.named = tenant'[t].named /\ q.copy.files = tenant'[t].files
    PROVE  TBase' /\ (TKnow => TKnow')
<1> DEFINE j == thread[Daemon].job
           t == MyTenant(Daemon)
<1>1. Daemon \in Threads /\ q.pc \in EXECUTE_PCS /\ q.pc \notin ROLLBACK_PCS
      /\ thread[Daemon].pc \in EXECUTE_PCS /\ thread[Daemon].pc \notin ROLLBACK_PCS
      /\ q.pc \notin Removing /\ q.pc \notin {"mark", "rollback", "insert", "requeue"}
  BY Counters DEF Threads, ROLLBACK_PCS
<1>2. Holds(Daemon, thread[Daemon]) /\ JobsKept
  BY <1>1, KeptUnchanged DEF TBase, Holder
<1>3. Holds(Daemon, q)'
  <2>1. job' = job
    OBVIOUS
  <2> QED  BY <1>1, <1>2, <2>1 DEF Holds
<1>4. TBase'
  <2>1. Room'
    BY <1>1, <1>2, RoomKept
  <2> QED  BY <1>1, <1>2, <1>3, <2>1, BaseMoves DEF TBase, TypeOK
<1> SUFFICES ASSUME TKnow
             PROVE  TKnow'
  BY <1>4
<1>5. /\ thread'[Daemon] = q
      /\ \A y \in Threads \ {Daemon} :
           /\ thread'[y] = thread[y] /\ MyTenant(y)' = MyTenant(y) /\ Mine(y)' = Mine(y)
           /\ Undoing(y)' = Undoing(y)
           /\ \A i \in Jobs : /\ OnList(y, i)' = OnList(y, i)
                              /\ Threatens(y, i)' = Threatens(y, i)
                              /\ Requeues(y, i)' = Requeues(y, i)
  BY <1>1, OthersStay
<1>6. /\ ~Undoing(Daemon)' /\ ~Undoing(Daemon) /\ t' = t /\ Mine(Daemon)' = Mine(Daemon)
      /\ \A i \in Jobs : /\ ~OnList(Daemon, i)' /\ ~Threatens(Daemon, i)'
                         /\ ~Requeues(Daemon, i)' /\ Executing(i)' = Executing(i)
  <2>1. ~Undoing(Daemon)' /\ ~Undoing(Daemon)
    BY <1>1, <1>5 DEF Undoing
  <2>2. t' = t /\ Mine(Daemon)' = Mine(Daemon)
    BY <1>1, <1>5 DEF MyTenant, Mine
  <2>3. \A i \in Jobs : ~Requeues(Daemon, i)' /\ Executing(i)' = Executing(i)
    BY <1>1, <1>5 DEF Requeues, Executing
  <2> QED  BY <2>1, <2>2, <2>3 DEF OnList, Threatens
<1>7. /\ j \in Jobs /\ t \in Tenants /\ job[j].tenant = t /\ Executing(j)
      /\ \A y \in Threads : Undoing(y) /\ MyTenant(y) # NoTenant => MyTenant(y) # t
      /\ \A i \in Jobs : job[i].tenant = t => i = j
  BY HeldAlone
<1>8. /\ \A i \in Jobs : job[i].tenant \in Tenants \cup {NoTenant}
      /\ \A y \in Threads : Undoing(y) => thread[y].job \in Jobs /\ MyTenant(y) \in Tenants \cup {NoTenant}
  BY Types DEF TBase, Holder, Holds, Undoing
<1>9. Undisturbed'
  <2>1. \A y \in Threads : ~Threatens(y, j)'
    BY <1>5, <1>6, <1>7 DEF TKnow, Undisturbed
  <2>2. j \notin stale'
    BY <1>1 DEF TKnow, Undisturbed
  <2> QED  BY <1>5, <1>6, <2>1, <2>2 DEF Undisturbed
<1>10. Secure'
  BY <1>5, <1>6, <1>8 DEF TKnow, Secure, SucceededIsServed
<1>11. Fresh'
  BY <1>5, <1>6 DEF TKnow, Fresh
<1>12. Recorded'
  <2>1. \A u \in containers' : tenant'[u].named
    <3> TAKE u \in containers'
    <3>1. CASE u = t
      BY <3>1
    <3>2. CASE u # t
      <4>1. u \in containers /\ u \in Tenants
        BY <3>2 DEF TBase, TypeOK
      <4> QED  BY <3>2, <4>1 DEF TKnow, Recorded
    <3> QED  BY <3>1, <3>2
  <2>2. ASSUME NEW y \in Threads,
               \/ thread'[y].pc \in Reserved \cup Removing
               \/ thread'[y].pc = "rollback" /\ thread'[y].todo = {},
               MyTenant(y)' # NoTenant
        PROVE  /\ thread'[y].copy.named = tenant'[MyTenant(y)'].named
               /\ thread'[y].copy.files = tenant'[MyTenant(y)'].files
    <3>1. CASE y = Daemon
      BY <1>5, <1>6, <3>1
    <3>2. CASE y # Daemon
      <4>1. thread'[y] = thread[y] /\ MyTenant(y)' = MyTenant(y)
        BY <1>5, <3>2
      <4>2. thread[y].pc \notin EXECUTE_PCS
        BY <3>2 DEF TBase, Holder, Holds
      <4>3. Undoing(y)
        BY <2>2, <4>1, <4>2, Counters DEF Undoing, ROLLBACK_PCS
      <4>4. MyTenant(y) \in Tenants /\ MyTenant(y) # t
        BY <1>7, <1>8, <2>2, <4>1, <4>3
      <4> QED  BY <2>2, <4>1, <4>4 DEF TKnow, Recorded
    <3> QED  BY <3>1, <3>2
  <2>3. thread'[Daemon].pc \in {"container", "health"} => thread'[Daemon].copy.named
    BY <1>5
  <2> QED  BY <2>1, <2>2, <2>3 DEF Recorded
<1>13. \A u \in Tenants \ {t} : NothingLeft(u) => NothingLeft(u)'
  BY DEF NothingLeft
<1>14. ASSUME NEW y \in Threads
       PROVE  Gone(y)'
  <2>1. CASE y = Daemon
    BY <1>6, <2>1 DEF Gone
  <2>2. CASE y # Daemon /\ ~Undoing(y)
    BY <1>5, <2>2 DEF Gone
  <2>3. CASE y # Daemon /\ Undoing(y) /\ MyTenant(y) = NoTenant
    BY <1>5, <2>3 DEF Gone
  <2>4. CASE y # Daemon /\ Undoing(y) /\ MyTenant(y) # NoTenant
    <3>1. thread'[y] = thread[y] /\ MyTenant(y)' = MyTenant(y) /\ Undoing(y)' = Undoing(y)
      BY <1>5, <2>4
    <3>2. MyTenant(y) \in Tenants \ {t} /\ tenant'[MyTenant(y)] = tenant[MyTenant(y)]
      BY <1>7, <1>8, <2>4
    <3>3. /\ MyTenant(y) \in roles' => MyTenant(y) \in roles
          /\ MyTenant(y) \in databases' => MyTenant(y) \in databases
          /\ MyTenant(y) \in containers' => MyTenant(y) \in containers
          /\ MyTenant(y) \in filestores' => MyTenant(y) \in filestores
      BY <3>2
    <3> QED  BY <1>13, <3>1, <3>2, <3>3 DEF TKnow, Gone
  <2> QED  BY <2>1, <2>2, <2>3, <2>4
<1>15. FirstRollbackIsClean'
  <2> SUFFICES ASSUME NEW i \in Jobs, job[i].status = "rolled_back", job[i].attempts = 1,
                      job[i].tenant # NoTenant
               PROVE  NothingLeft(job[i].tenant)'
    BY DEF FirstRollbackIsClean
  <2>1. ~Executing(i)
    BY DEF TKnow, Fresh
  <2>2. job[i].tenant # t /\ job[i].tenant \in Tenants
    BY <1>7, <1>8, <2>1
  <2> QED  BY <1>13, <2>2 DEF TKnow, FirstRollbackIsClean
<1> QED  BY <1>9, <1>10, <1>11, <1>12, <1>14, <1>15 DEF TKnow

------------------------------------------------------------------------------
(* Requests, polls, crashes and ends.                                      *)

(* A thread at rest between two pieces of work.                             *)
Resting == {Idle, [Idle EXCEPT !.pc = "claim"]}

LEMMA RestingThread ==
    ASSUME NEW q \in Resting
    PROVE  /\ q \in ThreadStates /\ q.pc \in {"idle", "claim"}
           /\ \A i \in Jobs : q.seen[i].tenant = NoTenant
BY Nothing DEF Resting, ThreadStates, Pcs

(* A thread gives up or has nothing to do.                                  *)
LEMMA GoesIdle ==
    ASSUME TBase, NEW x \in Threads, NEW q \in Resting, thread' = [thread EXCEPT ![x] = q],
           UNCHANGED <<job, tenant, resources, stale>>, crashes' \in 0 .. MaxCrashes
    PROVE  TBase' /\ (TKnow => TKnow')
<1>1. JobsKept
  BY KeptUnchanged
<1>2. StatusMoves(x)
  BY DEF StatusMoves
<1>3. Room'
  BY <1>1, RestingThread, RoomKept
<1> QED  BY <1>1, <1>2, <1>3, RestingThread, RestMoves

(* A thread ends, or hands back, the job it has, and comes to rest.         *)
LEMMA EndsJob ==
    ASSUME TBase, NEW x \in Threads, NEW q \in Resting, thread' = [thread EXCEPT ![x] = q],
           thread[x].job \in Jobs, job[thread[x].job].attempts > 0,
           NEW s \in {"queued", "failed", "rollback_failed", "rolled_back"},
           job' = [job EXCEPT ![thread[x].job].status = s],
           x = Daemon \/ OnList(x, thread[x].job) \/ Requeues(x, thread[x].job),
           (/\ s = "rolled_back" /\ job[thread[x].job].attempts = 1
            /\ job[thread[x].job].tenant # NoTenant) =>
                (TKnow => NothingLeft(job[thread[x].job].tenant)),
           UNCHANGED <<tenant, resources, crashes>>, stale' \subseteq stale
    PROVE  TBase' /\ (TKnow => TKnow')
<1> DEFINE j == thread[x].job
           r == [job[j] EXCEPT !.status = s]
<1>1. /\ r \in JobRows /\ r.status = s /\ r.tenant = job[j].tenant /\ r.sub = job[j].sub
      /\ r.attempts = job[j].attempts /\ r.rollback = job[j].rollback /\ r.attempts \in Nat
  BY Types DEF TBase, JobRows, JobStatuses, RETRYABLE_STATUSES, ACTIVE_PROVISIONING_STATUSES
<1>2. job' = [job EXCEPT ![j] = r]
  BY Types DEF TBase, TypeOK
<1> HIDE DEF r
<1>3. JobsKept
  <2>1. /\ r \in JobRows /\ r.tenant = job[j].tenant /\ r.sub = job[j].sub
        /\ r.attempts >= job[j].attempts /\ r.attempts > 0 /\ r.status # "none" /\ j \in Jobs
    BY <1>1
  <2> HIDE DEF j
  <2> QED  BY <1>2, <2>1, KeptJob
<1>4. /\ job'[j] = r /\ \A i \in Jobs \ {j} : job'[i] = job[i]
      /\ \A i \in Jobs : job'[i].rollback = job[i].rollback
  BY <1>1, <1>2 DEF TBase, TypeOK
<1>5. \A i \in Jobs : job[i].status = "none" => job'[i].status = "none"
  <2>1. job[j].status # "none"
    BY DEF TBase, Owners
  <2> QED  BY <1>4, <2>1
<1>6. Room'
  BY <1>3, <1>5, RestingThread, RoomKept
<1>7. crashes' \in 0 .. MaxCrashes
  BY DEF TBase, TypeOK
<1>8. TKnow => StatusMoves(x)
  BY <1>1, <1>4 DEF StatusMoves
<1>9. TBase'
  <2>1. Holds(x, q)'
    BY RestingThread, Counters DEF Holds, Reserved, EXECUTE_PCS, Removing, ROLLBACK_PCS
  <2>2. stale' \subseteq Jobs
    BY DEF TBase, TypeOK
  <2> QED  BY <1>3, <1>6, <1>7, <2>1, <2>2, RestingThread, KeptUnchanged, BaseMoves
<1>10. ASSUME TKnow
       PROVE  TKnow'
  BY <1>3, <1>4, <1>6, <1>7, <1>8, <1>10, RestingThread, RestMoves
<1> QED  BY <1>9, <1>10

(* queue_provisioning: the checks ...                                       *)
LEMMA QueueCheckStep ==
    ASSUME TBase, NEW h \in Handlers, NEW s \in Subscriptions, NEW k \in Keys, QueueCheck(h, s, k)
    PROVE  TBase' /\ (TKnow => TKnow')
<1> DEFINE q == [Idle EXCEPT !.pc = "insert", !.sub = s, !.key = k]
<1>1. /\ thread' = [thread EXCEPT ![h] = q] /\ h \in Threads
      /\ UNCHANGED <<job, tenant, resources, stale, crashes>>
      /\ Cardinality(Inserted) + Cardinality(Queueing) < MaxJobs
  BY DEF QueueCheck, tables, Threads
<1>2. q \in ThreadStates /\ q.pc = "insert" /\ \A i \in Jobs : q.seen[i].tenant = NoTenant
  BY Nothing DEF ThreadStates, Pcs
<1> HIDE DEF q
<1>3. JobsKept /\ StatusMoves(h) /\ crashes' \in 0 .. MaxCrashes
  BY <1>1, KeptUnchanged DEF StatusMoves, TBase, TypeOK
<1>4. Room'
  <2>1. Inserted' = Inserted
    BY <1>1 DEF Inserted
  <2>2. Queueing' \subseteq Queueing \cup {h}
    BY <1>1 DEF Queueing, At, TBase, TypeOK, Threads
  <2>3. IsFiniteSet(Queueing \cup {h}) /\ Cardinality(Queueing \cup {h}) <= Cardinality(Queueing) + 1
    <3>1. /\ IsFiniteSet(Queueing \cup {h})
          /\ \/ Cardinality(Queueing \cup {h}) = Cardinality(Queueing)
             \/ Cardinality(Queueing \cup {h}) = Cardinality(Queueing) + 1
      BY Countable, FS_AddElement
    <3> QED  BY <3>1, Countable
  <2>4. Cardinality(Queueing') <= Cardinality(Queueing) + 1 /\ Cardinality(Queueing') \in Nat
    <3>1. /\ Cardinality(Queueing \cup {h}) \in Nat /\ Cardinality(Queueing') \in Nat
          /\ Cardinality(Queueing') <= Cardinality(Queueing \cup {h})
      BY <2>2, <2>3, FS_Subset, FS_CardinalityType
    <3> QED  BY <2>3, <3>1, Countable
  <2> QED  BY <1>1, <2>1, <2>4, Countable, ProvisioningAssumption DEF Room
<1> QED  BY <1>1, <1>2, <1>3, <1>4, RestMoves

(* ... and the insertion.                                                   *)
LEMMA QueueInsertStep ==
    ASSUME TBase, NEW h \in Handlers, QueueInsert(h)
    PROVE  TBase' /\ (TKnow => TKnow')
<1>1. /\ thread' = [thread EXCEPT ![h] = Idle] /\ h \in Threads /\ thread[h].pc = "insert"
      /\ UNCHANGED <<tenant, resources, stale, crashes>> /\ Idle \in Resting
  BY DEF QueueInsert, Threads, At, Resting
<1>2. CASE UNCHANGED job
  BY <1>1, <1>2, GoesIdle DEF TBase, TypeOK
<1>3. CASE ~UNCHANGED job
  <2> DEFINE l == Least(Jobs \ Inserted)
             r == [NoJob EXCEPT !.status = "queued", !.sub = thread[h].sub, !.key = thread[h].key]
  <2>1. job' = [job EXCEPT ![l] = r]
    BY <1>3 DEF QueueInsert
  <2>2. l \in Jobs /\ job[l].status = "none" /\ l \notin Inserted
    BY <1>1, RowIsFree DEF Inserted
  <2>3. /\ job[l].attempts = 0 /\ job[l].tenant = NoTenant /\ job[l].rollback = "none"
    BY <2>2 DEF TBase, Owners
  <2>4. r \in JobRows /\ r.status = "queued" /\ r.attempts = 0 /\ r.tenant = NoTenant /\ r.rollback = "none"
    <3>1. thread[h].sub \in Subscriptions \cup {"none"} /\ thread[h].key \in Keys \cup {"none"}
      BY <1>1 DEF TBase, TypeOK, ThreadStates
    <3> QED  BY <3>1, Nothing DEF JobRows, JobStatuses, ACTIVE_PROVISIONING_STATUSES
  <2> HIDE DEF l, r
  <2>5. /\ job' \in [Jobs -> JobRows] /\ job'[l] = r /\ \A i \in Jobs \ {l} : job'[i] = job[i]
    BY <2>1, <2>2, <2>4 DEF TBase, TypeOK
  <2>6. JobsKept
    BY <2>2, <2>3, <2>4, <2>5, Types DEF JobsKept, TBase, Owners
  <2>7. StatusMoves(h) /\ \A i \in Jobs : job'[i].rollback = job[i].rollback
    BY <2>3, <2>4, <2>5 DEF StatusMoves
  <2>8. Room'
    <3>1. Inserted' = Inserted \cup {l}
      BY <2>2, <2>4, <2>5 DEF Inserted
    <3>2. Queueing' = Queueing \ {h} /\ h \in Queueing
      BY <1>1, Nothing DEF Queueing, At, TBase, TypeOK, Threads
    <3>3. Cardinality(Inserted') = Cardinality(Inserted) + 1
      BY <2>2, <3>1, Countable, FS_AddElement
    <3>4. Cardinality(Queueing') = Cardinality(Queueing) - 1
      BY <3>2, Countable, FS_RemoveElement
    <3> QED  BY <3>3, <3>4, Countable, ProvisioningAssumption DEF Room, TBase
  <2>9. crashes' \in 0 .. MaxCrashes
    BY <1>1 DEF TBase, TypeOK
  <2> QED  BY <1>1, <2>6, <2>7, <2>8, <2>9, RestingThread, RestMoves
<1> QED  BY <1>2, <1>3

(* retry_failed_job: the check ...                                          *)
LEMMA RetryCheckStep ==
    ASSUME TBase, NEW h \in Handlers, NEW j \in Jobs, RetryCheck(h, j)
    PROVE  TBase' /\ (TKnow => TKnow')
<1> DEFINE q == [Idle EXCEPT !.pc = "requeue", !.job = j, !.seen[j] = job[j]]
<1>1. /\ thread' = [thread EXCEPT ![h] = q] /\ h \in Threads
      /\ UNCHANGED <<job, tenant, resources, stale, crashes>>
      /\ job[j].status \in RETRYABLE_STATUSES
  BY DEF RetryCheck, tables, Threads
<1>2. q \in ThreadStates /\ q.pc = "requeue" /\ q.job = j
  BY Nothing, Types DEF ThreadStates, Pcs, TBase
<1>3. \A i \in Jobs : q.seen[i].tenant \in {NoTenant, job[i].tenant}
  BY Nothing
<1> HIDE DEF q
<1>4. job[j].status \notin {"running", "succeeded"} /\ job[j].attempts > 0
  BY <1>1 DEF RETRYABLE_STATUSES, TBase, Owners
<1>5. JobsKept /\ StatusMoves(h) /\ crashes' \in 0 .. MaxCrashes
  BY <1>1, KeptUnchanged DEF StatusMoves, TBase, TypeOK
<1>6. Room'
  BY <1>1, <1>2, <1>5, RoomKept
<1> QED  BY <1>1, <1>2, <1>3, <1>4, <1>5, <1>6, RestMoves

(* ... and the write.                                                       *)
LEMMA RetryWriteStep ==
    ASSUME TBase, NEW h \in Handlers, RetryWrite(h)
    PROVE  TBase' /\ (TKnow => TKnow')
<1>1. /\ thread' = [thread EXCEPT ![h] = Idle] /\ h \in Threads /\ Requeues(h, thread[h].job)
      /\ UNCHANGED <<tenant, resources, crashes>> /\ stale' \subseteq stale /\ Idle \in Resting
      /\ job' = [job EXCEPT ![thread[h].job].status = "queued"]
  BY DEF RetryWrite, Threads, At, Resting, Requeues
<1>2. thread[h].job \in Jobs /\ job[thread[h].job].attempts > 0
  BY <1>1 DEF TBase, Holder, Holds, Requeues
<1> QED  BY <1>1, <1>2, EndsJob

(* The catalogue checks refuse the job.                                     *)
LEMMA FailValidationStep ==
    ASSUME TBase, FailValidation
    PROVE  TBase' /\ (TKnow => TKnow')
<1>1. /\ thread' = [thread EXCEPT ![Daemon] = Idle] /\ Daemon \in Threads
      /\ thread[Daemon].pc \in EXECUTE_PCS
      /\ UNCHANGED <<tenant, resources, stale, crashes>> /\ Idle \in Resting
      /\ job' = [job EXCEPT ![thread[Daemon].job].status = "failed"]
  BY DEF FailValidation, Threads, At, Resting, EXECUTE_PCS
<1>2. thread[Daemon].job \in Jobs /\ job[thread[Daemon].job].attempts > 0
  BY <1>1 DEF TBase, Holder, Holds
<1> QED  BY <1>1, <1>2, EndsJob

(* A thread dies, whatever it was doing.                                    *)
LEMMA CrashStep ==
    ASSUME TBase, NEW x \in Threads, Crash(x)
    PROVE  TBase' /\ (TKnow => TKnow')
<1>1. /\ thread' = [thread EXCEPT ![x] = Idle] /\ Idle \in Resting
      /\ UNCHANGED <<job, tenant, resources, stale>> /\ crashes' \in 0 .. MaxCrashes
  BY ProvisioningAssumption DEF Crash, tables, Resting, TBase, TypeOK
<1> QED  BY <1>1, GoesIdle

(* The stale jobs are loaded, all running and none of them executed.        *)
LEMMA LoadStep ==
    ASSUME TBase, NEW x \in Threads, thread' = [thread EXCEPT ![x] = Loaded(StaleRunning)],
           StaleRunning # {}, thread[x].pc = "idle",
           UNCHANGED <<job, tenant, resources, stale, crashes>>
    PROVE  TBase' /\ (TKnow => TKnow')
<1> DEFINE todo == StaleRunning
<1>1. /\ todo \subseteq Jobs /\ todo \subseteq stale /\ Least(todo) \in todo
      /\ \A i \in todo : job[i].status = "running" /\ job[i].attempts > 0
  <2>1. todo \subseteq Jobs /\ todo \subseteq stale
    BY DEF StaleRunning, TBase, TypeOK
  <2>2. Least(todo) \in todo
    BY <2>1, LeastIn
  <2>3. \A i \in todo : job[i].status = "running"
    BY DEF StaleRunning
  <2> QED  BY <2>1, <2>2, <2>3 DEF TBase, Owners
<1>2. PICK q \in ThreadStates :
        /\ thread' = [thread EXCEPT ![x] = q]
        /\ q.pc = "mark" /\ q.job = Least(todo) /\ q.todo = todo
        /\ \A i \in Jobs : q.seen[i] = IF i \in todo THEN job[i] ELSE NoJob
  <2> DEFINE q == Loaded(todo)
  <2>1. /\ q \in ThreadStates /\ q.pc = "mark" /\ q.job = Least(todo) /\ q.todo = todo
        /\ \A i \in Jobs : q.seen[i] = IF i \in todo THEN job[i] ELSE NoJob
    BY <1>1, Nothing, Types DEF Loaded, ThreadStates, Pcs, ROLLBACK_PCS, TBase
  <2>2. thread' = [thread EXCEPT ![x] = q]
    OBVIOUS
  <2> HIDE DEF q
  <2> QED  BY <2>1, <2>2
<1>3. /\ q.pc \notin EXECUTE_PCS /\ q.pc \in ROLLBACK_PCS /\ q.pc \notin Reserved \cup Removing
      /\ q.job \in Jobs
  BY <1>1, <1>2 DEF EXECUTE_PCS, ROLLBACK_PCS, Reserved, Removing
<1>4. JobsKept /\ job' = job
  BY KeptUnchanged
<1>5. Holds(x, q)'
  <2>1. \A i \in Jobs : q.seen[i].tenant \in {NoTenant, job'[i].tenant}
    BY <1>2, <1>4, Nothing
  <2>2. \A i \in q.todo : job'[i].attempts > 0 /\ q.seen[i].status = "running"
    BY <1>1, <1>2, <1>4
  <2>3. q.job \in q.todo /\ q.pc # "requeue" /\ job'[q.job].attempts > 0
    BY <1>1, <1>2, <2>2
  <2>4. q.pc \notin EXECUTE_PCS /\ q.pc \notin Reserved \cup Removing /\ q.pc = "mark" /\ q.job \in Jobs
    BY <1>2, <1>3
  <2> QED  BY <2>1, <2>2, <2>3, <2>4 DEF Holds
<1>6. TBase'
  <2>1. Room'
    BY <1>2, <1>4, RoomKept
  <2>2. TenantsKept /\ ResourcesOwned
    BY KeptUnchanged
  <2>3. stale' \subseteq Jobs /\ crashes' \in 0 .. MaxCrashes
    BY DEF TBase, TypeOK
  <2> QED  BY <1>2, <1>4, <1>5, <2>1, <2>2, <2>3, BaseMoves
<1> SUFFICES ASSUME TKnow
             PROVE  TKnow'
  BY <1>6
<1>7. /\ thread'[x] = q
      /\ \A y \in Threads \ {x} :
           /\ thread'[y] = thread[y] /\ MyTenant(y)' = MyTenant(y) /\ Mine(y)' = Mine(y)
           /\ Undoing(y)' = Undoing(y)
           /\ \A i \in Jobs : /\ OnList(y, i)' = OnList(y, i)
                              /\ Threatens(y, i)' = Threatens(y, i)
                              /\ Requeues(y, i)' = Requeues(y, i)
  BY <1>2, OthersStay
<1>8. \A i \in Jobs : /\ OnList(x, i)' => i \in todo
                      /\ Threatens(x, i)' => i \in todo
                      /\ ~Requeues(x, i)'
  BY <1>1, <1>2, <1>3, <1>7, Nothing DEF OnList, Threatens, Requeues
<1>9. /\ thread'[Daemon].pc \in EXECUTE_PCS => x # Daemon
      /\ \A i \in Jobs : Executing(i)' => Executing(i) /\ x # Daemon /\ i \notin todo
      /\ Daemon \in Threads
  BY <1>1, <1>3, <1>7 DEF Executing, Threads, TKnow, Undisturbed
<1>10. UNCHANGED <<tenant, roles, databases, containers, filestores>>
  BY DEF resources
<1>11. Undisturbed'
  <2>1. thread'[Daemon].pc \in EXECUTE_PCS =>
            /\ thread'[Daemon] = thread[Daemon] /\ MyTenant(Daemon)' = MyTenant(Daemon)
            /\ thread[Daemon].job \in Jobs /\ thread[Daemon].job \notin todo
    BY <1>1, <1>7, <1>9 DEF TBase, Holder, Holds, TKnow, Undisturbed
  <2>2. thread'[Daemon].pc \in Reserved => thread'[Daemon].pc \in EXECUTE_PCS
    BY Counters
  <2>3. thread'[Daemon].pc \in EXECUTE_PCS =>
            \A y \in Threads : Threatens(y, thread[Daemon].job)' => Threatens(y, thread[Daemon].job)
    BY <1>7, <1>8, <2>1
  <2> QED  BY <1>10, <2>1, <2>2, <2>3 DEF TKnow, Undisturbed
<1>12. Secure'
  BY <1>1, <1>4, <1>7, <1>8, <1>10 DEF TKnow, Secure, SucceededIsServed
<1>13. Fresh'
  <2> SUFFICES ASSUME NEW j \in Jobs, job[j].attempts = 1
               PROVE  /\ Executing(j)' => /\ job[j].status \in {"running", "succeeded"}
                                         /\ Mine(Daemon)'.tenant = job[j].tenant
                                         /\ Mine(Daemon)'.rollback # "completed"
                                         /\ \A y \in Threads : ~OnList(y, j)' /\ ~Requeues(y, j)'
                      /\ job[j].status \in {"running", "succeeded"} => job[j].rollback # "completed"
                      /\ \A y \in Threads : OnList(y, j)' =>
                           /\ thread'[y].seen[j].tenant = job[j].tenant
                           /\ j # thread'[y].job \/ thread'[y].pc \in {"mark", "rollback"} =>
                                thread'[y].seen[j].rollback # "completed"
                           /\ j = thread'[y].job /\ thread'[y].pc # "mark" =>
                                job[j].status \notin {"running", "succeeded"}
    BY DEF Fresh
  <2>1. /\ Executing(j) => /\ job[j].status \in {"running", "succeeded"}
                           /\ Mine(Daemon).tenant = job[j].tenant
                           /\ Mine(Daemon).rollback # "completed"
                           /\ \A y \in Threads : ~OnList(y, j) /\ ~Requeues(y, j)
        /\ job[j].status \in {"running", "succeeded"} => job[j].rollback # "completed"
        /\ \A y \in Threads : OnList(y, j) =>
             /\ thread[y].seen[j].tenant = job[j].tenant
             /\ j # thread[y].job \/ thread[y].pc \in {"mark", "rollback"} =>
                  thread[y].seen[j].rollback # "completed"
             /\ j = thread[y].job /\ thread[y].pc # "mark" =>
                  job[j].status \notin {"running", "succeeded"}
    BY DEF TKnow, Fresh
  <2>2. Executing(j)' => /\ job[j].status \in {"running", "succeeded"}
                         /\ Mine(Daemon)'.tenant = job[j].tenant
                         /\ Mine(Daemon)'.rollback # "completed"
                         /\ \A y \in Threads : ~OnList(y, j)' /\ ~Requeues(y, j)'
    BY <1>7, <1>8, <1>9, <2>1
  <2>3. OnList(x, j)' => /\ q.seen[j].tenant = job[j].tenant
                         /\ q.seen[j].rollback # "completed" /\ q.pc = "mark"
    BY <1>1, <1>2, <1>8, <2>1
  <2> QED  BY <1>7, <2>1, <2>2, <2>3
<1>14. Recorded'
  BY <1>2, <1>3, <1>7, <1>9, <1>10, Counters DEF TKnow, Recorded, Reserved, EXECUTE_PCS
<1>15. ASSUME NEW y \in Threads
       PROVE  Gone(y)'
  <2>1. CASE y = x
    BY <1>2, <1>7, <2>1 DEF Gone
  <2>2. CASE y # x
    <3>1. thread'[y] = thread[y] /\ MyTenant(y)' = MyTenant(y) /\ Undoing(y)' = Undoing(y)
      BY <1>7, <2>2
    <3>2. \A t : NothingLeft(t)' = NothingLeft(t)
      BY <1>10 DEF NothingLeft
    <3> QED  BY <1>4, <1>10, <3>1, <3>2 DEF TKnow, Gone
  <2> QED  BY <2>1, <2>2
<1>16. FirstRollbackIsClean'
  BY <1>4, <1>10 DEF TKnow, FirstRollbackIsClean, NothingLeft
<1> QED  BY <1>11, <1>12, <1>13, <1>14, <1>15, <1>16 DEF TKnow

(* The worker polls.                                                        *)
LEMMA PollStep ==
    ASSUME TBase, Poll
    PROVE  TBase' /\ (TKnow => TKnow')
<1>1. /\ Daemon \in Threads /\ thread[Daemon].pc = "idle"
      /\ UNCHANGED <<job, tenant, resources, stale, crashes>>
      /\ thread' = [thread EXCEPT ![Daemon] =
              IF StaleRunning = {} THEN [Idle EXCEPT !.pc = "claim"] ELSE Loaded(StaleRunning)]
  BY DEF Poll, Threads, At, tables
<1>2. CASE StaleRunning = {}
  <2>1. crashes' \in 0 .. MaxCrashes /\ [Idle EXCEPT !.pc = "claim"] \in Resting
    BY <1>1 DEF TBase, TypeOK, Resting
  <2> QED  BY <1>1, <1>2, <2>1, GoesIdle
<1>3. CASE StaleRunning # {}
  BY <1>1, <1>3, LoadStep
<1> QED  BY <1>2, <1>3

(* An operator reconciles.                                                  *)
LEMMA OperatorReconcileStep ==
    ASSUME TBase, NEW h \in Handlers, OperatorReconcile(h)
    PROVE  TBase' /\ (TKnow => TKnow')
<1>1. /\ h \in Threads /\ thread[h].pc = "idle" /\ StaleRunning # {}
      /\ UNCHANGED <<job, tenant, resources, stale, crashes>>
      /\ thread' = [thread EXCEPT ![h] = Loaded(StaleRunning)]
  BY DEF OperatorReconcile, Threads, At, tables
<1> QED  BY <1>1, LoadStep

------------------------------------------------------------------------------
(* What the operators of a step write.                                     *)

(* Going on changes the program counter only; ...                           *)
LEMMA GotoIs ==
    ASSUME TBase, NEW x \in Threads, NEW p \in Pcs, Goto(x, p)
    PROVE  \E q \in ThreadStates :
              /\ thread' = [thread EXCEPT ![x] = q]
              /\ q.pc = p /\ q.job = thread[x].job /\ q.todo = thread[x].todo
              /\ q.seen = thread[x].seen /\ q.copy = thread[x].copy
              /\ q.errors = thread[x].errors
<1> DEFINE q == [thread[x] EXCEPT !.pc = p]
<1>1. thread[x] \in ThreadStates /\ DOMAIN thread = Threads
  BY DEF TBase, TypeOK
<1>2. /\ q \in ThreadStates /\ q.pc = p /\ q.job = thread[x].job /\ q.todo = thread[x].todo
      /\ q.seen = thread[x].seen /\ q.copy = thread[x].copy /\ q.errors = thread[x].errors
  BY <1>1 DEF ThreadStates
<1>3. thread' = [thread EXCEPT ![x] = q]
  BY DEF Goto
<1> HIDE DEF q
<1> QED  BY <1>2, <1>3

(* ... failing remembers the error.                                         *)
LEMMA FailingIs ==
    ASSUME TBase, NEW x \in Threads, NEW p \in Pcs, Failing(x, p)
    PROVE  \E q \in ThreadStates :
              /\ thread' = [thread EXCEPT ![x] = q]
              /\ q.pc = p /\ q.job = thread[x].job /\ q.todo = thread[x].todo
              /\ q.seen = thread[x].seen /\ q.copy = thread[x].copy
              /\ q.errors = TRUE
<1> DEFINE q == [thread[x] EXCEPT !.pc = p, !.errors = TRUE]
<1>1. thread[x] \in ThreadStates /\ DOMAIN thread = Threads
  BY DEF TBase, TypeOK
<1>2. /\ q \in ThreadStates /\ q.pc = p /\ q.job = thread[x].job /\ q.todo = thread[x].todo
      /\ q.seen = thread[x].seen /\ q.copy = thread[x].copy /\ q.errors = TRUE
  BY <1>1 DEF ThreadStates
<1>3. thread' = [thread EXCEPT ![x] = q]
  BY <1>1 DEF Failing, ThreadStates
<1> HIDE DEF q
<1> QED  BY <1>2, <1>3

(* A commit of the job writes status and rollback where they differ from    *)
(* the thread's copy.                                                       *)
LEMMA CommitJobIs ==
    ASSUME TBase, NEW x \in Threads, NEW p \in Pcs, thread[x].job \in Jobs,
           NEW new \in JobRows, new.tenant = Mine(x).tenant, CommitJob(x, new, p)
    PROVE  \E q \in ThreadStates, r \in JobRows :
              /\ thread' = [thread EXCEPT ![x] = q] /\ job' = [job EXCEPT ![thread[x].job] = r]
              /\ q.pc = p /\ q.job = thread[x].job /\ q.todo = thread[x].todo
              /\ q.seen = [thread[x].seen EXCEPT ![thread[x].job] = new]
              /\ q.copy = thread[x].copy /\ q.errors = thread[x].errors
              /\ r.sub = job[thread[x].job].sub /\ r.tenant = job[thread[x].job].tenant
              /\ r.attempts = job[thread[x].job].attempts
              /\ r.status = Merge(job[thread[x].job].status, Mine(x).status, new.status)
              /\ r.rollback = Merge(job[thread[x].job].rollback, Mine(x).rollback, new.rollback)
<1> DEFINE j == thread[x].job
           q == [thread[x] EXCEPT !.pc = p, !.seen = [thread[x].seen EXCEPT ![j] = new]]
           r == [job[j] EXCEPT !.status = Merge(job[j].status, Mine(x).status, new.status),
                               !.tenant = Merge(job[j].tenant, Mine(x).tenant, new.tenant),
                               !.rollback = Merge(job[j].rollback, Mine(x).rollback, new.rollback)]
<1>1. thread[x] \in ThreadStates /\ DOMAIN thread = Threads /\ job[j] \in JobRows /\ Mine(x) \in JobRows
  BY Types DEF TBase, TypeOK
<1>2. /\ q \in ThreadStates /\ q.pc = p /\ q.job = j /\ q.todo = thread[x].todo
      /\ q.seen = [thread[x].seen EXCEPT ![j] = new]
      /\ q.copy = thread[x].copy /\ q.errors = thread[x].errors
  BY <1>1 DEF ThreadStates
<1>3. /\ r \in JobRows /\ r.sub = job[j].sub /\ r.tenant = job[j].tenant /\ r.attempts = job[j].attempts
      /\ r.status = Merge(job[j].status, Mine(x).status, new.status)
      /\ r.rollback = Merge(job[j].rollback, Mine(x).rollback, new.rollback)
  <2>1. /\ Merge(job[j].status, Mine(x).status, new.status) \in {job[j].status, new.status}
        /\ Merge(job[j].tenant, Mine(x).tenant, new.tenant) = job[j].tenant
        /\ Merge(job[j].rollback, Mine(x).rollback, new.rollback) \in {job[j].rollback, new.rollback}
    BY DEF Merge
  <2> QED  BY <1>1, <2>1 DEF JobRows
<1>4. thread' = [thread EXCEPT ![x] = q]
  BY <1>1 DEF CommitJob, ThreadStates
<1>5. job' = [job EXCEPT ![j] = r]
  BY <1>1 DEF CommitJob, JobRows, TBase, TypeOK
<1> HIDE DEF q, r
<1> QED  BY <1>2, <1>3, <1>4, <1>5

(* So does a commit of the tenant row.                                      *)
LEMMA CommitTenantIs ==
    ASSUME TBase, NEW x \in Threads, NEW p \in Pcs, MyTenant(x) \in Tenants,
           NEW new \in TenantRows, new.status # "none" \/ new.status = thread[x].copy.status,
           tenant[MyTenant(x)].status # "none", CommitTenant(x, new, p)
    PROVE  /\ TenantsKept /\ \A t \in Tenants \ {MyTenant(x)} : tenant'[t] = tenant[t]
           /\ LET now == tenant[MyTenant(x)]  row == tenant'[MyTenant(x)]
              IN /\ row.status = Merge(now.status, thread[x].copy.status, new.status)
                 /\ row.files = Merge(now.files, thread[x].copy.files, new.files)
                 /\ row.named = Merge(now.named, thread[x].copy.named, new.named)
           /\ \E q \in ThreadStates :
                 /\ thread' = [thread EXCEPT ![x] = q]
                 /\ q.pc = p /\ q.job = thread[x].job /\ q.todo = thread[x].todo
                 /\ q.seen = thread[x].seen /\ q.copy = new /\ q.errors = thread[x].errors
<1> DEFINE t == MyTenant(x)
           q == [thread[x] EXCEPT !.pc = p, !.copy = new]
           w == [tenant[t] EXCEPT !.status = Merge(tenant[t].status, thread[x].copy.status, new.status),
                                  !.files = Merge(tenant[t].files, thread[x].copy.files, new.files),
                                  !.named = Merge(tenant[t].named, thread[x].copy.named, new.named)]
<1>1. thread[x] \in ThreadStates /\ DOMAIN thread = Threads /\ tenant[t] \in TenantRows
      /\ thread[x].copy \in TenantRows
  BY Types DEF TBase, TypeOK
<1>2. /\ q \in ThreadStates /\ q.pc = p /\ q.job = thread[x].job /\ q.todo = thread[x].todo
      /\ q.seen = thread[x].seen /\ q.copy = new /\ q.errors = thread[x].errors
  BY <1>1 DEF ThreadStates
<1>3. /\ w \in TenantRows /\ w.sub = tenant[t].sub /\ w.status # "none"
      /\ w.status = Merge(tenant[t].status, thread[x].copy.status, new.status)
      /\ w.files = Merge(tenant[t].files, thread[x].copy.files, new.files)
      /\ w.named = Merge(tenant[t].named, thread[x].copy.named, new.named)
  BY <1>1 DEF TenantRows, Merge
<1>4. thread' = [thread EXCEPT ![x] = q]
  BY <1>1 DEF CommitTenant, ThreadStates
<1>5. tenant' = [tenant EXCEPT ![t] = w]
  BY <1>1 DEF CommitTenant, TenantRows, TBase, TypeOK
<1> HIDE DEF q, w
<1>6. TenantsKept
  BY <1>3, <1>5, KeptTenant
<1>7. tenant'[t] = w /\ \A u \in Tenants \ {t} : tenant'[u] = tenant[u]
  BY <1>5 DEF TBase, TypeOK
<1> QED  BY <1>2, <1>3, <1>4, <1>6, <1>7

------------------------------------------------------------------------------
(* The steps of a compensation.                                            *)

(* The thread that compensates, or fails an execution, has its job, and     *)
(* what it knows of a tenant is the job's.                                  *)
LEMMA InHand ==
    ASSUME TBase, NEW x \in Threads, thread[x].pc \in EXECUTE_PCS \cup ROLLBACK_PCS
    PROVE  /\ thread[x].job \in Jobs /\ job[thread[x].job].attempts > 0
           /\ job[thread[x].job].status # "none" /\ job[thread[x].job] \in JobRows
           /\ Mine(x) \in JobRows /\ MyTenant(x) \in Tenants \cup {NoTenant}
           /\ MyTenant(x) \in {NoTenant, job[thread[x].job].tenant}
           /\ MyTenant(x) # NoTenant => /\ MyTenant(x) \in Tenants
                                        /\ tenant[MyTenant(x)].status # "none"
           /\ thread[x].pc \in Reserved \cup Removing => MyTenant(x) # NoTenant
           /\ thread[x].pc \in ROLLBACK_PCS => OnList(x, thread[x].job) /\ Undoing(x)
<1> DEFINE j == thread[x].job
<1>1. j \in Jobs /\ job[j].attempts > 0 /\ MyTenant(x) \in {NoTenant, job[j].tenant}
      /\ (thread[x].pc \in Reserved \cup Removing => MyTenant(x) # NoTenant)
  BY DEF TBase, Holder, Holds, MyTenant, Mine
<1>2. /\ job[j].status # "none"
      /\ job[j].tenant # NoTenant => tenant[job[j].tenant].status # "none"
  BY <1>1 DEF TBase, Owners
<1>3. job[j] \in JobRows /\ Mine(x) \in JobRows /\ MyTenant(x) \in Tenants \cup {NoTenant}
  BY <1>1, Types DEF TBase
<1>4. thread[x].pc \in ROLLBACK_PCS => OnList(x, j) /\ Undoing(x)
  BY DEF OnList, Undoing
<1> QED  BY <1>1, <1>2, <1>3, <1>4

(* A step that fails is not one that goes on without an error.              *)
LEMMA GotoTells ==
    ASSUME TBase, NEW x \in Threads, NEW p, Failing(x, p), ~thread[x].errors
    PROVE  ~Goto(x, p)
<1>1. thread'[x].errors = TRUE
  BY DEF Failing, TBase, TypeOK, ThreadStates
<1>2. Goto(x, p) => thread'[x].errors = thread[x].errors
  BY DEF Goto, TBase, TypeOK, ThreadStates
<1> QED  BY <1>1, <1>2

(* One resource of the tenant is removed, or is not.                        *)
LEMMA RemovesOne ==
    ASSUME TBase, NEW x \in Threads, NEW p \in Removing \ {"rmContainer"},
           thread[x].pc \in Removing, Goto(x, p) \/ Failing(x, p),
           UNCHANGED <<job, tenant, stale, crashes>>,
           NEW r, NEW d, NEW c, NEW f,
           r \subseteq {MyTenant(x)} /\ roles' = roles \ r,
           d \subseteq {MyTenant(x)} /\ databases' = databases \ d,
           c \subseteq {MyTenant(x)} /\ containers' = containers \ c,
           f \subseteq {MyTenant(x)} /\ filestores' = filestores \ f,
           TKnow /\ ~thread[x].errors /\ Goto(x, p) =>
               LET t == MyTenant(x)
               IN /\ t \notin containers'
                  /\ p \in {"rmRole", "rmFilestore", "tenantFailed"} => t \notin databases'
                  /\ p \in {"rmFilestore", "tenantFailed"} => t \notin roles'
                  /\ p = "tenantFailed" => (t \in filestores' => ~tenant[t].files)
    PROVE  TBase' /\ (TKnow => TKnow')
<1> DEFINE j == thread[x].job
           t == MyTenant(x)
<1>1. PICK q \in ThreadStates :
        /\ thread' = [thread EXCEPT ![x] = q]
        /\ q.pc = p /\ q.job = thread[x].job /\ q.todo = thread[x].todo
        /\ q.seen = thread[x].seen /\ q.copy = thread[x].copy
        /\ q.errors # TRUE => Goto(x, p) /\ q.errors = thread[x].errors
  <2>1. p \in Pcs
    BY Counters
  <2>2. CASE Failing(x, p)
    <3>1. PICK q \in ThreadStates :
            /\ thread' = [thread EXCEPT ![x] = q]
            /\ q.pc = p /\ q.job = thread[x].job /\ q.todo = thread[x].todo
            /\ q.seen = thread[x].seen /\ q.copy = thread[x].copy
            /\ q.errors = TRUE
      BY <2>1, <2>2, FailingIs
    <3> QED  BY <2>2, <3>1
  <2>3. CASE Goto(x, p)
    <3>1. PICK q \in ThreadStates :
            /\ thread' = [thread EXCEPT ![x] = q]
            /\ q.pc = p /\ q.job = thread[x].job /\ q.todo = thread[x].todo
            /\ q.seen = thread[x].seen /\ q.copy = thread[x].copy
            /\ q.errors = thread[x].errors
      BY <2>1, <2>3, GotoIs
    <3> QED  BY <2>3, <3>1
  <2> QED  BY <2>2, <2>3
<1>2. thread[x].pc \in ROLLBACK_PCS \ {"mark", "fail", "rollback"} /\ p \in ROLLBACK_PCS \ {"mark", "rollback"}
      /\ p \in Removing /\ p # "final" /\ p # "outcome"
  BY DEF Removing, ROLLBACK_PCS
<1>3. /\ j \in Jobs /\ t \in Tenants /\ t # NoTenant /\ Undoing(x)
  BY <1>2, InHand
<1>4. JobsKept /\ TenantsKept
  BY KeptUnchanged
<1>5. StatusMoves(x)
  BY DEF StatusMoves
<1>6. t = q.seen[q.job].tenant /\ thread'[x] = q
  BY <1>1 DEF MyTenant, Mine, TBase, TypeOK
<1>7. Advances(x, q)
  BY <1>1, <1>2, <1>3, <1>6 DEF Advances
<1>8. TakesOwn(x)
  BY DEF TakesOwn
<1>9. t' = t /\ Undoing(x)'
  BY <1>1, <1>2, <1>6 DEF MyTenant, Mine, Undoing
<1>10. ASSUME TKnow
       PROVE  Gone(x)'
  <2>1. CASE q.errors = TRUE
    BY <1>6, <2>1 DEF Gone
  <2>2. CASE q.errors # TRUE
    <3>1. p \in {"rmDatabase", "rmRole", "rmFilestore", "tenantFailed"}
      BY DEF Removing
    <3> QED  BY <1>1, <1>6, <1>9, <1>10, <2>2, <3>1 DEF Gone
  <2> QED  BY <2>1, <2>2
<1>11. TKnow => /\ q.copy.named = tenant[t].named /\ q.copy.files = tenant[t].files
  BY <1>1, <1>3 DEF TKnow, Recorded
<1>12. \A i \in Jobs : job'[i] = job[i]
  OBVIOUS
<1>13. UNCHANGED <<stale, crashes>>
  OBVIOUS
<1> QED  BY <1>1, <1>2, <1>4, <1>5, <1>6, <1>7, <1>8, <1>10, <1>11, <1>12, <1>13, UndoMoves

(* The container, ...                                                       *)
LEMMA RemoveContainerStep ==
    ASSUME TBase, NEW x \in Threads, RemoveContainer(x)
    PROVE  TBase' /\ (TKnow => TKnow')
<1> DEFINE t == MyTenant(x)
           p == "rmDatabase"
<1>1. /\ thread[x].pc = "rmContainer" /\ UNCHANGED <<job, tenant, roles, databases, filestores, stale, crashes>>
      /\ thread[x].pc \in Removing /\ p \in Removing \ {"rmContainer"}
      /\ thread[x].pc \in ROLLBACK_PCS
  BY DEF RemoveContainer, At, tables, Removing, ROLLBACK_PCS
<1>2. t \in Tenants /\ t # NoTenant
  BY <1>1, InHand
<1>3. TKnow /\ ~thread[x].copy.named => t \notin containers
  BY <1>1, <1>2 DEF TKnow, Recorded
<1>4. Goto(x, p) \/ Failing(x, p)
  BY DEF RemoveContainer, Refused
<1>5. PICK c \in SUBSET {t} : /\ containers' = containers \ c
                              /\ TKnow /\ ~thread[x].errors /\ Goto(x, p) => t \notin containers'
  <2>1. CASE containers' = containers \ {t}
    BY <2>1
  <2>2. CASE containers' = containers /\ ~thread[x].copy.named
    BY <1>3, <2>2
  <2>3. CASE containers' = containers /\ Failing(x, p)
    <3>1. ~(~thread[x].errors /\ Goto(x, p))
      BY <1>1, <2>3, GotoTells
    <3> QED  BY <2>3, <3>1
  <2> QED  BY <2>1, <2>2, <2>3 DEF RemoveContainer, Refused
<1>6. /\ {} \subseteq {t} /\ roles' = roles \ {} /\ databases' = databases \ {} /\ filestores' = filestores \ {}
      /\ UNCHANGED <<job, tenant, stale, crashes>> /\ c \subseteq {t}
  BY <1>1
<1> QED  BY <1>1, <1>4, <1>5, <1>6, RemovesOne

(* ... the database, ...                                                    *)
LEMMA DropDatabaseStep ==
    ASSUME TBase, NEW x \in Threads, DropDatabase(x)
    PROVE  TBase' /\ (TKnow => TKnow')
<1> DEFINE t == MyTenant(x)
           p == "rmRole"
<1>1. /\ thread[x].pc = "rmDatabase" /\ UNCHANGED <<job, tenant, roles, containers, filestores, stale, crashes>>
      /\ thread[x].pc \in Removing /\ p \in Removing \ {"rmContainer"}
      /\ thread[x].pc \in ROLLBACK_PCS
  BY DEF DropDatabase, At, tables, Removing, ROLLBACK_PCS
<1>2. t \in Tenants /\ t # NoTenant /\ Undoing(x)
  BY <1>1, InHand
<1>3. TKnow /\ ~thread[x].errors => t \notin containers
  BY <1>1, <1>2 DEF TKnow, Gone
<1>4. Goto(x, p) \/ Failing(x, p)
  BY DEF DropDatabase, Refused
<1>5. PICK d \in SUBSET {t} : /\ databases' = databases \ d
                              /\ ~thread[x].errors /\ Goto(x, p) => t \notin databases'
  <2>1. CASE databases' = databases \ {t}
    BY <2>1
  <2>2. CASE databases' = databases /\ Failing(x, p)
    <3>1. ~(~thread[x].errors /\ Goto(x, p))
      BY <1>1, <2>2, GotoTells
    <3> QED  BY <2>2, <3>1
  <2> QED  BY <2>1, <2>2 DEF DropDatabase, Refused
<1>6. /\ {} \subseteq {t} /\ roles' = roles \ {} /\ containers' = containers \ {} /\ filestores' = filestores \ {}
      /\ UNCHANGED <<job, tenant, stale, crashes>> /\ d \subseteq {t}
  BY <1>1
<1> QED  BY <1>1, <1>3, <1>4, <1>5, <1>6, RemovesOne

(* ... the role, ...                                                        *)
LEMMA DropRoleStep ==
    ASSUME TBase, NEW x \in Threads, DropRole(x)
    PROVE  TBase' /\ (TKnow => TKnow')
<1> DEFINE t == MyTenant(x)
           p == "rmFilestore"
<1>1. /\ thread[x].pc = "rmRole" /\ UNCHANGED <<job, tenant, databases, containers, filestores, stale, crashes>>
      /\ thread[x].pc \in Removing /\ p \in Removing \ {"rmContainer"}
      /\ thread[x].pc \in ROLLBACK_PCS
  BY DEF DropRole, At, tables, Removing, ROLLBACK_PCS
<1>2. t \in Tenants /\ t # NoTenant /\ Undoing(x)
  BY <1>1, InHand
<1>3. TKnow /\ ~thread[x].errors => t \notin containers /\ t \notin databases
  BY <1>1, <1>2 DEF TKnow, Gone
<1>4. Goto(x, p) \/ Failing(x, p)
  BY DEF DropRole, Refused
<1>5. PICK r \in SUBSET {t} : /\ roles' = roles \ r
                              /\ ~thread[x].errors /\ Goto(x, p) => t \notin roles'
  <2>1. CASE roles' = roles \ {t}
    BY <2>1
  <2>2. CASE roles' = roles /\ Failing(x, p)
    <3>1. ~(~thread[x].errors /\ Goto(x, p))
      BY <1>1, <2>2, GotoTells
    <3> QED  BY <2>2, <3>1
  <2> QED  BY <2>1, <2>2 DEF DropRole, Refused
<1>6. /\ {} \subseteq {t} /\ databases' = databases \ {} /\ containers' = containers \ {} /\ filestores' = filestores \ {}
      /\ UNCHANGED <<job, tenant, stale, crashes>> /\ r \subseteq {t}
  BY <1>1
<1> QED  BY <1>1, <1>3, <1>4, <1>5, <1>6, RemovesOne

(* ... and the filestore.                                                   *)
LEMMA RemoveFilestoreStep ==
    ASSUME TBase, NEW x \in Threads, RemoveFilestore(x)
    PROVE  TBase' /\ (TKnow => TKnow')
<1> DEFINE t == MyTenant(x)
           p == "tenantFailed"
<1>1. /\ thread[x].pc = "rmFilestore" /\ UNCHANGED <<job, tenant, roles, databases, containers, stale, crashes>>
      /\ thread[x].pc \in Removing /\ p \in Removing \ {"rmContainer"}
      /\ thread[x].pc \in ROLLBACK_PCS
  BY DEF RemoveFilestore, At, tables, Removing, ROLLBACK_PCS
<1>2. t \in Tenants /\ t # NoTenant /\ Undoing(x)
  BY <1>1, InHand
<1>3. TKnow /\ ~thread[x].errors => t \notin containers /\ t \notin databases /\ t \notin roles
  BY <1>1, <1>2 DEF TKnow, Gone
<1>4. Goto(x, p) \/ Failing(x, p)
  BY DEF RemoveFilestore, Refused
<1>5. TKnow => tenant[t].files = thread[x].copy.files
  BY <1>1, <1>2 DEF TKnow, Recorded
<1>6. PICK f \in SUBSET {t} :
        /\ filestores' = filestores \ f
        /\ TKnow /\ ~thread[x].errors /\ Goto(x, p) => (t \in filestores' => ~tenant[t].files)
  <2>1. CASE filestores' = filestores \ {t}
    BY <2>1
  <2>2. CASE filestores' = filestores /\ ~thread[x].copy.files
    BY <1>5, <2>2
  <2>3. CASE filestores' = filestores /\ Failing(x, p)
    <3>1. ~(~thread[x].errors /\ Goto(x, p))
      BY <1>1, <2>3, GotoTells
    <3> QED  BY <2>3, <3>1
  <2> QED  BY <2>1, <2>2, <2>3 DEF RemoveFilestore, Refused
<1>7. /\ {} \subseteq {t} /\ roles' = roles \ {} /\ databases' = databases \ {} /\ containers' = containers \ {}
      /\ UNCHANGED <<job, tenant, stale, crashes>> /\ f \subseteq {t}
  BY <1>1
<1> QED  BY <1>1, <1>3, <1>4, <1>6, <1>7, RemovesOne

(* The tenant row is marked.                                                *)
LEMMA TenantFailedStep ==
    ASSUME TBase, NEW x \in Threads, TenantFailed(x)
    PROVE  TBase' /\ (TKnow => TKnow')
<1> DEFINE j == thread[x].job
           t == MyTenant(x)
           new == [thread[x].copy EXCEPT !.status = "failed"]
<1>1. /\ thread[x].pc = "tenantFailed" /\ UNCHANGED <<job, roles, databases, containers, filestores, stale, crashes>>
      /\ thread[x].pc \in Removing /\ thread[x].pc \in ROLLBACK_PCS
      /\ CommitTenant(x, new, "outcome")
  BY DEF TenantFailed, At, resources, Removing, ROLLBACK_PCS
<1>2. /\ t \in Tenants /\ t # NoTenant /\ Undoing(x) /\ tenant[t].status # "none" /\ j \in Jobs
  BY <1>1, InHand
<1>3. /\ new \in TenantRows /\ new.status # "none" /\ new.files = thread[x].copy.files
      /\ new.named = thread[x].copy.named
  BY Types DEF TBase, TenantRows
<1>4. "outcome" \in Pcs /\ "outcome" \in ROLLBACK_PCS /\ "outcome" \notin Removing
  BY DEF Pcs, ROLLBACK_PCS, Removing
<1> HIDE DEF new
<1>5. /\ TenantsKept /\ \A u \in Tenants \ {t} : tenant'[u] = tenant[u]
      /\ tenant'[t].files = Merge(tenant[t].files, thread[x].copy.files, new.files)
      /\ tenant'[t].named = Merge(tenant[t].named, thread[x].copy.named, new.named)
      /\ \E q \in ThreadStates :
            /\ thread' = [thread EXCEPT ![x] = q]
            /\ q.pc = "outcome" /\ q.job = thread[x].job /\ q.todo = thread[x].todo
            /\ q.seen = thread[x].seen /\ q.copy = new /\ q.errors = thread[x].errors
  BY <1>1, <1>2, <1>3, <1>4, CommitTenantIs
<1>6. tenant'[t].files = tenant[t].files /\ tenant'[t].named = tenant[t].named
  BY <1>3, <1>5 DEF Merge
<1>7. PICK q \in ThreadStates :
            /\ thread' = [thread EXCEPT ![x] = q]
            /\ q.pc = "outcome" /\ q.job = thread[x].job /\ q.todo = thread[x].todo
            /\ q.seen = thread[x].seen /\ q.copy = new /\ q.errors = thread[x].errors
  BY <1>5
<1>8. JobsKept /\ StatusMoves(x)
  BY <1>1, KeptUnchanged DEF StatusMoves
<1>9. Advances(x, q)
  BY <1>1, <1>4, <1>7 DEF Advances
<1>10. TakesOwn(x)
  BY <1>1, <1>5, <1>6 DEF TakesOwn
<1>11. thread'[x] = q /\ t' = t
  BY <1>7 DEF MyTenant, Mine, TBase, TypeOK
<1>12. ASSUME TKnow
       PROVE  Gone(x)'
  <2>1. ~thread[x].errors => /\ t \notin containers /\ t \notin databases /\ t \notin roles
                             /\ (t \in filestores => ~tenant[t].files)
    BY <1>1, <1>2, <1>12 DEF TKnow, Gone
  <2> QED  BY <1>1, <1>6, <1>7, <1>11, <2>1 DEF Gone
<1> QED  BY <1>1, <1>4, <1>5, <1>7, <1>8, <1>9, <1>10, <1>12, UndoMoves

(* The job is marked: its copy said running, so the mark is written.        *)
LEMMA RollbackRequiredStep ==
    ASSUME TBase, NEW x \in Threads, RollbackRequired(x)
    PROVE  TBase' /\ (TKnow => TKnow')
<1> DEFINE j == thread[x].job
           t == MyTenant(x)
           new == [Mine(x) EXCEPT !.status = "rollback_required"]
<1>1. /\ thread[x].pc \in {"mark", "fail"} /\ UNCHANGED <<tenant, resources, stale, crashes>>
      /\ thread[x].pc \in EXECUTE_PCS \cup ROLLBACK_PCS
      /\ CommitJob(x, new, "rollback")
  BY DEF RollbackRequired, EXECUTE_PCS, ROLLBACK_PCS
<1>2. /\ j \in Jobs /\ job[j] \in JobRows /\ job[j].attempts > 0 /\ Mine(x) \in JobRows
      /\ thread[x].pc = "mark" => OnList(x, j)
  BY <1>1, InHand DEF ROLLBACK_PCS
<1>3. /\ new \in JobRows /\ new.tenant = Mine(x).tenant /\ new.status = "rollback_required"
      /\ new.rollback = Mine(x).rollback
  BY <1>2 DEF JobRows, JobStatuses, ACTIVE_PROVISIONING_STATUSES
<1>4. /\ "rollback" \in Pcs /\ "rollback" \in ROLLBACK_PCS /\ "rollback" \notin Reserved \cup Removing
      /\ "mark" \in ROLLBACK_PCS /\ "fail" \in Reserved
  BY DEF Pcs, ROLLBACK_PCS, Removing, Reserved, EXECUTE_PCS
<1>5. /\ Mine(x).status \in {"running", "succeeded"}
      /\ thread[x].pc = "mark" => thread[x].todo # {}
      /\ thread[x].pc = "fail" => x = Daemon
  BY <1>1, <1>4 DEF TBase, Holder, Holds, Mine, Reserved
<1> HIDE DEF new
<1>6. PICK q \in ThreadStates, r \in JobRows :
        /\ thread' = [thread EXCEPT ![x] = q] /\ job' = [job EXCEPT ![j] = r]
        /\ q.pc = "rollback" /\ q.job = j /\ q.todo = thread[x].todo
        /\ q.seen = [thread[x].seen EXCEPT ![j] = new]
        /\ q.copy = thread[x].copy /\ q.errors = thread[x].errors
        /\ r.sub = job[j].sub /\ r.tenant = job[j].tenant /\ r.attempts = job[j].attempts
        /\ r.status = Merge(job[j].status, Mine(x).status, new.status)
        /\ r.rollback = Merge(job[j].rollback, Mine(x).rollback, new.rollback)
  BY <1>1, <1>2, <1>3, <1>4, CommitJobIs
<1>7. r.status = "rollback_required" /\ r.rollback = job[j].rollback
  BY <1>3, <1>5, <1>6 DEF Merge
<1>8. /\ job'[j] = r /\ \A i \in Jobs \ {j} : job'[i] = job[i]
  BY <1>2, <1>6 DEF TBase, TypeOK
<1>9. JobsKept
  <2>1. r.tenant = job[j].tenant /\ r.sub = job[j].sub /\ r.attempts >= job[j].attempts
        /\ r.attempts > 0 /\ r.status # "none" /\ job' = [job EXCEPT ![j] = r]
    BY <1>2, <1>6, <1>7 DEF JobRows
  <2> HIDE DEF j
  <2> QED  BY <1>2, <2>1, KeptJob
<1>10. StatusMoves(x)
  BY <1>1, <1>2, <1>5, <1>6, <1>7, <1>8 DEF StatusMoves
<1>11. \A i \in Jobs : job'[i].attempts = job[i].attempts
  BY <1>6, <1>8
<1>12. /\ q.seen[j] = new /\ \A i \in Jobs \ {j} : q.seen[i] = thread[x].seen[i]
  BY <1>2, <1>6, Types DEF TBase, ThreadStates, TypeOK
<1>13. Advances(x, q)
  <2>1. \A i \in Jobs : q.seen[i].tenant = thread[x].seen[i].tenant
    BY <1>3, <1>12 DEF Mine
  <2>2. q.seen[j].rollback = thread[x].seen[j].rollback
    BY <1>3, <1>12 DEF Mine
  <2> QED  BY <1>1, <1>4, <1>6, <1>7, <1>8, <1>12, <2>1, <2>2 DEF Advances
<1>14. TakesOwn(x) /\ TenantsKept
  BY <1>1, KeptUnchanged DEF TakesOwn, resources
<1>15. thread'[x] = q /\ t' = t
  BY <1>3, <1>6, <1>12 DEF MyTenant, Mine, TBase, TypeOK
<1>16. Gone(x)'
  BY <1>6, <1>15 DEF Gone
<1>17. ASSUME TKnow, (q.pc \in Removing \/ (q.pc = "rollback" /\ q.todo = {})),
              q.seen[q.job].tenant # NoTenant
       PROVE  /\ q.copy.named = tenant'[q.seen[q.job].tenant].named
              /\ q.copy.files = tenant'[q.seen[q.job].tenant].files
  <2>1. thread[x].pc = "fail" /\ thread[x].pc \in Reserved
    BY <1>1, <1>4, <1>5, <1>6, <1>17
  <2>2. q.seen[q.job].tenant = t
    BY <1>3, <1>6, <1>12 DEF MyTenant, Mine
  <2> QED  BY <1>1, <1>6, <1>17, <2>1, <2>2 DEF TKnow, Recorded
<1>18. job'[j].rollback = job[j].rollback
  BY <1>7, <1>8
<1> QED  BY <1>1, <1>6, <1>8, <1>9, <1>10, <1>11, <1>13, <1>14, <1>16, <1>17, <1>18, UndoMoves

(* The compensation begins, or finds that it was completed before.          *)
LEMMA RollbackBeginStep ==
    ASSUME TBase, NEW x \in Threads, RollbackBegin(x)
    PROVE  TBase' /\ (TKnow => TKnow')
<1> DEFINE j == thread[x].job
           t == MyTenant(x)
<1>1. /\ thread[x].pc = "rollback" /\ UNCHANGED <<tenant, resources, stale, crashes>>
      /\ thread[x].pc \in ROLLBACK_PCS
  BY DEF RollbackBegin, At, ROLLBACK_PCS
<1>2. /\ j \in Jobs /\ job[j] \in JobRows /\ job[j].attempts > 0 /\ Mine(x) \in JobRows
      /\ OnList(x, j) /\ job[j].status # "none" /\ t \in Tenants \cup {NoTenant}
      /\ thread[x] \in ThreadStates
  BY <1>1, InHand, Types DEF TBase
<1>3. TakesOwn(x) /\ TenantsKept
  BY <1>1, KeptUnchanged DEF TakesOwn, resources
<1>4. CASE Mine(x).rollback = "completed" /\ Goto(x, "final") /\ UNCHANGED job
  <2>1. "final" \in Pcs /\ "final" \in ROLLBACK_PCS /\ "final" \notin Removing
    BY DEF Pcs, ROLLBACK_PCS, Removing
  <2>2. PICK q \in ThreadStates :
          /\ thread' = [thread EXCEPT ![x] = q]
          /\ q.pc = "final" /\ q.job = thread[x].job /\ q.todo = thread[x].todo
          /\ q.seen = thread[x].seen
    BY <1>4, <2>1, GotoIs
  <2>3. JobsKept /\ StatusMoves(x)
    BY <1>4, KeptUnchanged DEF StatusMoves
  <2>4. Advances(x, q)
    BY <1>1, <2>1, <2>2 DEF Advances
  <2>5. thread'[x] = q
    BY <2>2 DEF TBase, TypeOK
  <2>6. ASSUME TKnow
        PROVE  Gone(x)'
    <3>1. job[j].attempts # 1
      BY <1>1, <1>2, <1>4, <2>6 DEF TKnow, Fresh, Mine
    <3> QED  BY <1>4, <2>2, <2>5, <3>1 DEF Gone
  <2>7. thread[x].pc \notin {"mark", "fail"} /\ q.pc \notin Removing \cup {"rollback"}
    BY <1>1, <2>1, <2>2
  <2>8. UNCHANGED <<stale, crashes>> /\ \A i \in Jobs : job'[i] = job[i]
    BY <1>1, <1>4
  <2> QED  BY <1>3, <2>2, <2>3, <2>4, <2>6, <2>7, <2>8, UndoMoves
<1>5. CASE /\ job' = [job EXCEPT ![j].rollback = Merge(@, Mine(x).rollback, "pending")]
           /\ thread' = [thread EXCEPT
                  ![x].pc = IF t = NoTenant THEN "outcome" ELSE "rmContainer",
                  ![x].seen[j] = [Mine(x) EXCEPT !.rollback = "pending"],
                  ![x].copy = IF t = NoTenant \/ thread[x].todo = {}
                              THEN @ ELSE tenant[t]]
  <2> DEFINE new == [Mine(x) EXCEPT !.rollback = "pending"]
             q == [thread[x] EXCEPT !.pc = IF t = NoTenant THEN "outcome" ELSE "rmContainer",
                                    !.seen = [thread[x].seen EXCEPT ![j] = new],
                                    !.copy = IF t = NoTenant \/ thread[x].todo = {}
                                             THEN thread[x].copy ELSE tenant[t]]
             r == [job[j] EXCEPT !.rollback = Merge(job[j].rollback, Mine(x).rollback, "pending")]
  <2>1. new \in JobRows /\ new.tenant = t
    BY <1>2 DEF JobRows, RollbackStatuses, MyTenant
  <2>2. /\ r \in JobRows /\ r.sub = job[j].sub /\ r.tenant = job[j].tenant
        /\ r.attempts = job[j].attempts /\ r.status = job[j].status
    BY <1>2 DEF JobRows, RollbackStatuses, Merge
  <2>3. thread' = [thread EXCEPT ![x] = q]
    BY <1>2, <1>5 DEF ThreadStates, TBase, TypeOK
  <2>4. job' = [job EXCEPT ![j] = r]
    BY <1>2, <1>5 DEF JobRows, TBase, TypeOK
  <2>5. /\ q.job = j /\ q.todo = thread[x].todo /\ q.errors = thread[x].errors
        /\ q.pc = IF t = NoTenant THEN "outcome" ELSE "rmContainer"
        /\ q.seen = [thread[x].seen EXCEPT ![j] = new]
        /\ q.copy = IF t = NoTenant \/ thread[x].todo = {} THEN thread[x].copy ELSE tenant[t]
    BY <1>2 DEF ThreadStates
  <2>6. q \in ThreadStates
    <3> HIDE DEF new
    <3>1. "outcome" \in Pcs /\ "rmContainer" \in Pcs
      BY DEF Pcs, ROLLBACK_PCS
    <3>2. [thread[x].seen EXCEPT ![j] = new] \in [Jobs -> JobRows]
      BY <1>2, <2>1 DEF ThreadStates
    <3>3. (IF t = NoTenant \/ thread[x].todo = {} THEN thread[x].copy ELSE tenant[t]) \in TenantRows
      BY <1>2, Types DEF TBase
    <3>4. (IF t = NoTenant THEN "outcome" ELSE "rmContainer") \in Pcs
      BY <3>1
    <3> HIDE DEF t, j
    <3> QED  BY <1>2, <3>2, <3>3, <3>4 DEF ThreadStates
  <2> HIDE DEF new, q, r
  <2>7. /\ job'[j] = r /\ \A i \in Jobs \ {j} : job'[i] = job[i]
    BY <1>2, <2>4 DEF TBase, TypeOK
  <2>8. JobsKept
    <3>1. r.tenant = job[j].tenant /\ r.sub = job[j].sub /\ r.attempts >= job[j].attempts
          /\ r.attempts > 0 /\ r.status # "none" /\ job' = [job EXCEPT ![j] = r]
      BY <1>2, <2>2, <2>4 DEF JobRows
    <3> HIDE DEF j
    <3> QED  BY <1>2, <2>2, <3>1, KeptJob
  <2>9. StatusMoves(x) /\ \A i \in Jobs : job'[i].attempts = job[i].attempts
    BY <2>2, <2>7 DEF StatusMoves
  <2>10. /\ q.seen[j] = new /\ \A i \in Jobs \ {j} : q.seen[i] = thread[x].seen[i]
    BY <1>2, <2>5 DEF ThreadStates
  <2>11. /\ q.pc \in ROLLBACK_PCS \ {"mark", "rollback"} /\ q.pc \in {"outcome", "rmContainer"}
         /\ q.pc \in Removing => t # NoTenant
    BY <2>5 DEF ROLLBACK_PCS, Removing
  <2>12. q.seen[q.job].tenant = t /\ t = thread[x].seen[j].tenant
    BY <2>1, <2>5, <2>10 DEF MyTenant, Mine
  <2>13. Advances(x, q)
    BY <1>1, <2>5, <2>10, <2>11, <2>12 DEF Advances
  <2>14. thread'[x] = q /\ t' = t
    BY <2>3, <2>12 DEF MyTenant, Mine, TBase, TypeOK
  <2>15. Gone(x)'
    BY <2>5, <2>11, <2>14 DEF Gone
  <2>16. ASSUME TKnow, t # NoTenant
         PROVE  q.copy.named = tenant[t].named /\ q.copy.files = tenant[t].files
    BY <1>1, <2>5, <2>16 DEF TKnow, Recorded
  <2>17. thread[x].pc \notin {"mark", "fail"} /\ UNCHANGED <<stale, crashes>> /\ tenant' = tenant
    BY <1>1
  <2> QED  BY <1>3, <2>3, <2>6, <2>7, <2>8, <2>9, <2>12, <2>13, <2>15, <2>16, <2>17, UndoMoves
<1> QED  BY <1>4, <1>5 DEF RollbackBegin

(* Its outcome is recorded.                                                 *)
LEMMA RollbackOutcomeStep ==
    ASSUME TBase, NEW x \in Threads, RollbackOutcome(x)
    PROVE  TBase' /\ (TKnow => TKnow')
<1> DEFINE j == thread[x].job
           t == MyTenant(x)
           new == [Mine(x) EXCEPT !.rollback = IF thread[x].errors THEN "failed" ELSE "completed"]
<1>1. /\ thread[x].pc = "outcome" /\ UNCHANGED <<tenant, resources, stale, crashes>>
      /\ thread[x].pc \in ROLLBACK_PCS
      /\ CommitJob(x, new, "final")
  BY DEF RollbackOutcome, ROLLBACK_PCS, At
<1>2. /\ j \in Jobs /\ job[j] \in JobRows /\ job[j].attempts > 0 /\ Mine(x) \in JobRows
      /\ OnList(x, j) /\ Undoing(x) /\ job[j].status # "none"
  BY <1>1, InHand
<1>3. /\ new \in JobRows /\ new.tenant = Mine(x).tenant /\ new.status = Mine(x).status
  BY <1>2 DEF JobRows, RollbackStatuses
<1>4. /\ "final" \in Pcs /\ "final" \in ROLLBACK_PCS /\ "final" \notin Removing
  BY DEF Pcs, ROLLBACK_PCS, Removing
<1> HIDE DEF new
<1>6. PICK q \in ThreadStates, r \in JobRows :
        /\ thread' = [thread EXCEPT ![x] = q] /\ job' = [job EXCEPT ![j] = r]
        /\ q.pc = "final" /\ q.job = j /\ q.todo = thread[x].todo
        /\ q.seen = [thread[x].seen EXCEPT ![j] = new]
        /\ q.copy = thread[x].copy /\ q.errors = thread[x].errors
        /\ r.sub = job[j].sub /\ r.tenant = job[j].tenant /\ r.attempts = job[j].attempts
        /\ r.status = Merge(job[j].status, Mine(x).status, new.status)
        /\ r.rollback = Merge(job[j].rollback, Mine(x).rollback, new.rollback)
  BY <1>1, <1>2, <1>3, <1>4, CommitJobIs
<1>7. r.status = job[j].status
  BY <1>3, <1>6 DEF Merge
<1>8. /\ job'[j] = r /\ \A i \in Jobs \ {j} : job'[i] = job[i]
  BY <1>2, <1>6 DEF TBase, TypeOK
<1>9. JobsKept
  <2>1. r.tenant = job[j].tenant /\ r.sub = job[j].sub /\ r.attempts >= job[j].attempts
        /\ r.attempts > 0 /\ r.status # "none" /\ job' = [job EXCEPT ![j] = r]
    BY <1>2, <1>6, <1>7 DEF JobRows
  <2> HIDE DEF j
  <2> QED  BY <1>2, <2>1, KeptJob
<1>10. StatusMoves(x) /\ \A i \in Jobs : job'[i].attempts = job[i].attempts
  BY <1>6, <1>7, <1>8 DEF StatusMoves
<1>12. /\ q.seen[j] = new /\ \A i \in Jobs \ {j} : q.seen[i] = thread[x].seen[i]
  BY <1>2, <1>6, Types DEF TBase, ThreadStates, TypeOK
<1>13. Advances(x, q)
  <2>1. \A i \in Jobs : q.seen[i].tenant = thread[x].seen[i].tenant
    BY <1>3, <1>12 DEF Mine
  <2> QED  BY <1>1, <1>4, <1>6, <1>12, <2>1 DEF Advances
<1>14. TakesOwn(x) /\ TenantsKept
  BY <1>1, KeptUnchanged DEF TakesOwn, resources
<1>15. thread'[x] = q /\ t' = t
  BY <1>3, <1>6, <1>12 DEF MyTenant, Mine, TBase, TypeOK
<1>16. ASSUME TKnow
       PROVE  Gone(x)'
  <2>1. t # NoTenant /\ ~thread[x].errors => NothingLeft(t)
    BY <1>1, <1>2, <1>16 DEF TKnow, Gone, NothingLeft
  <2>2. NothingLeft(t) => NothingLeft(t)'
    BY <1>1, <1>15 DEF NothingLeft, resources
  <2> QED  BY <1>6, <1>15, <2>1, <2>2 DEF Gone
<1>17. thread[x].pc \notin {"mark", "fail"} /\ q.pc \notin Removing \cup {"rollback"}
  BY <1>1, <1>4, <1>6
<1> QED  BY <1>1, <1>6, <1>8, <1>9, <1>10, <1>13, <1>14, <1>16, <1>17, UndoMoves

(* What a compensation of a first attempt leaves when it ends without an    *)
(* error is nothing.                                                        *)
LEMMA FinalIsClean ==
    ASSUME TBase, TKnow, NEW x \in Threads, thread[x].pc = "final", ~thread[x].errors,
           job[thread[x].job].attempts = 1, job[thread[x].job].tenant # NoTenant
    PROVE  NothingLeft(job[thread[x].job].tenant)
<1> DEFINE j == thread[x].job
<1>1. j \in Jobs /\ OnList(x, j) /\ Undoing(x)
  BY InHand DEF ROLLBACK_PCS
<1>2. MyTenant(x) = job[j].tenant
  BY <1>1 DEF TKnow, Fresh, MyTenant, Mine
<1> QED  BY <1>1, <1>2 DEF TKnow, Gone

(* The compensation ends; the thread goes on to its next job or to rest.    *)
LEMMA RollbackFinalStep ==
    ASSUME TBase, NEW x \in Threads, RollbackFinal(x)
    PROVE  TBase' /\ (TKnow => TKnow')
<1> DEFINE j == thread[x].job
           todo == thread[x].todo \ {j}
           s == IF thread[x].errors THEN "rollback_failed" ELSE "rolled_back"
<1>1. /\ thread[x].pc = "final" /\ UNCHANGED <<tenant, resources, stale, crashes>>
      /\ thread[x].pc \in ROLLBACK_PCS
      /\ job' = [job EXCEPT ![j].status = s] /\ thread' = [thread EXCEPT ![x] = NextInTodo(x)]
  BY DEF RollbackFinal, ROLLBACK_PCS, At
<1>2. /\ j \in Jobs /\ job[j] \in JobRows /\ job[j].attempts > 0
      /\ OnList(x, j) /\ thread[x].todo \subseteq Jobs /\ thread[x] \in ThreadStates
  BY <1>1, InHand, Types DEF TBase
<1>3. ASSUME TKnow, s = "rolled_back", job[j].attempts = 1, job[j].tenant # NoTenant
      PROVE  NothingLeft(job[j].tenant)
  BY <1>1, <1>3, FinalIsClean
<1>4. s \in {"queued", "failed", "rollback_failed", "rolled_back"} /\ s \in JobStatuses
      /\ s \notin {"none", "running", "succeeded"}
  BY DEF JobStatuses, RETRYABLE_STATUSES
<1> HIDE DEF s
<1>5. CASE todo = {}
  <2>1. PICK q \in Resting : thread' = [thread EXCEPT ![x] = q]
    BY <1>1, <1>5 DEF NextInTodo, Resting
  <2>2. /\ UNCHANGED <<tenant, resources, crashes>> /\ stale' \subseteq stale
        /\ (s = "rolled_back" /\ job[j].attempts = 1 /\ job[j].tenant # NoTenant)
              => (TKnow => NothingLeft(job[j].tenant))
    BY <1>1, <1>3
  <2> QED  BY <1>1, <1>2, <1>4, <2>1, <2>2, EndsJob
<1>6. CASE todo # {}
  <2> DEFINE q == [thread[x] EXCEPT !.pc = "mark", !.todo = todo, !.job = Least(todo),
                                    !.errors = FALSE, !.copy = NoRow]
             r == [job[j] EXCEPT !.status = s]
  <2>1. Least(todo) \in todo /\ todo \subseteq Jobs /\ "mark" \in Pcs /\ "mark" \in ROLLBACK_PCS
        /\ "mark" \notin Removing
    BY <1>2, <1>6, LeastIn DEF Pcs, ROLLBACK_PCS, Removing
  <2>2. thread' = [thread EXCEPT ![x] = q]
    BY <1>1, <1>6 DEF NextInTodo
  <2>3. /\ q.pc = "mark" /\ q.todo = todo /\ q.job = Least(todo) /\ q.seen = thread[x].seen
    BY <1>2 DEF ThreadStates
  <2>4. q \in ThreadStates
    <3>1. Least(todo) \in Jobs \cup {0} /\ todo \in SUBSET Jobs /\ NoRow \in TenantRows
      BY <2>1, Nothing
    <3> HIDE DEF todo
    <3> QED  BY <1>2, <2>1, <3>1 DEF ThreadStates
  <2>5. job' = [job EXCEPT ![j] = r]
    BY <1>1, <1>2 DEF TBase, TypeOK
  <2>6. /\ r \in JobRows /\ r.sub = job[j].sub /\ r.tenant = job[j].tenant
        /\ r.attempts = job[j].attempts /\ r.status = s
    BY <1>2, <1>4 DEF JobRows
  <2> HIDE DEF q, r
  <2>7. /\ job'[j] = r /\ \A i \in Jobs \ {j} : job'[i] = job[i]
    BY <1>2, <2>5 DEF TBase, TypeOK
  <2>8. JobsKept
    <3>1. r.tenant = job[j].tenant /\ r.sub = job[j].sub /\ r.attempts >= job[j].attempts
          /\ r.attempts > 0 /\ r.status # "none" /\ job' = [job EXCEPT ![j] = r]
      BY <1>2, <1>4, <2>5, <2>6 DEF JobRows
    <3> HIDE DEF j
    <3> QED  BY <1>2, <2>6, <3>1, KeptJob
  <2>9. /\ TKnow => StatusMoves(x)
        /\ \A i \in Jobs : job'[i].attempts = job[i].attempts
    BY <1>2, <1>3, <1>4, <2>6, <2>7 DEF StatusMoves
  <2>10. Advances(x, q)
    <3>1. /\ q.job \in thread[x].todo \ {j} /\ q.todo = thread[x].todo \ {j} /\ q.job \in q.todo
      BY <2>1, <2>3
    <3>2. \A i \in Jobs : /\ q.seen[i].tenant = thread[x].seen[i].tenant
                          /\ i # j => q.seen[i] = thread[x].seen[i]
      BY <2>3
    <3> QED  BY <1>1, <2>1, <2>3, <3>1, <3>2 DEF Advances
  <2>11. TakesOwn(x) /\ TenantsKept
    BY <1>1, KeptUnchanged DEF TakesOwn, resources
  <2>12. thread'[x] = q
    BY <2>2 DEF TBase, TypeOK
  <2>13. Gone(x)'
    BY <2>3, <2>12 DEF Gone
  <2>14. thread[x].pc \notin {"mark", "fail"} /\ q.pc \notin Removing \cup {"rollback"}
         /\ UNCHANGED <<stale, crashes>>
    BY <1>1, <2>1, <2>3
  <2> QED  BY <2>2, <2>4, <2>7, <2>8, <2>9, <2>10, <2>11, <2>13, <2>14, UndoMoves
<1> QED  BY <1>5, <1>6

(* A compensation preserves everything.                                     *)
LEMMA RollbackStep ==
    ASSUME TBase, NEW x \in Threads, Rollback(x)
    PROVE  TBase' /\ (TKnow => TKnow')
BY RollbackRequiredStep, RollbackBeginStep, RemoveContainerStep, DropDatabaseStep,
   DropRoleStep, RemoveFilestoreStep, TenantFailedStep, RollbackOutcomeStep, RollbackFinalStep
DEF Rollback

------------------------------------------------------------------------------
(* The steps of an execution.                                              *)

(* What an execution that holds its tenant knows at its step.               *)
LEMMA Execution ==
    ASSUME TBase, thread[Daemon].pc \in Reserved
    PROVE  LET t == MyTenant(Daemon)
           IN /\ Daemon \in Threads /\ t \in Tenants /\ tenant[t].status # "none"
              /\ TKnow => /\ thread[Daemon].copy.named = tenant[t].named
                          /\ thread[Daemon].copy.files = tenant[t].files
                          /\ t \in containers => tenant[t].named
<1>1. Daemon \in Threads /\ thread[Daemon].pc \in EXECUTE_PCS
  BY Counters DEF Threads
<1>2. /\ MyTenant(Daemon) \in Tenants /\ tenant[MyTenant(Daemon)].status # "none"
      /\ MyTenant(Daemon) # NoTenant
  BY <1>1, InHand
<1> QED  BY <1>1, <1>2 DEF TKnow, Recorded

(* It goes on, or fails, after it made something or found something there.  *)
LEMMA MakesOne ==
    ASSUME TBase, NEW p \in Reserved, Goto(Daemon, p), thread[Daemon].pc \in Reserved,
           NEW r, NEW d, NEW c, NEW f,
           r \subseteq {MyTenant(Daemon)}, roles' = roles \cup r,
           d \subseteq {MyTenant(Daemon)}, databases' = databases \cup d,
           c \subseteq {MyTenant(Daemon)}, containers' = containers \cup c,
           f \subseteq {MyTenant(Daemon)}, filestores' = filestores \cup f,
           UNCHANGED <<job, tenant, stale, crashes>>,
           TKnow => LET t == MyTenant(Daemon)
                    IN /\ p \in {"filepath", "role", "clone", "port", "container", "health", "succeed"}
                            => t \in filestores'
                       /\ p \in {"clone", "port", "container", "health", "succeed"} => t \in roles'
                       /\ p \in {"port", "container", "health", "succeed"} => t \in databases'
                       /\ p \in {"health", "succeed"} => t \in containers'
                       /\ p \in {"container", "health"} => thread[Daemon].copy.named
                       /\ c # {} => thread[Daemon].copy.named
    PROVE  TBase' /\ (TKnow => TKnow')
<1> DEFINE t == MyTenant(Daemon)
<1>1. /\ Daemon \in Threads /\ t \in Tenants /\ tenant[t].status # "none"
      /\ TKnow => /\ thread[Daemon].copy.named = tenant[t].named
                  /\ thread[Daemon].copy.files = tenant[t].files
                  /\ t \in containers => tenant[t].named
  BY Execution
<1>2. p \in Pcs
  BY Counters
<1>3. PICK q \in ThreadStates :
          /\ thread' = [thread EXCEPT ![Daemon] = q]
          /\ q.pc = p /\ q.job = thread[Daemon].job /\ q.todo = thread[Daemon].todo
          /\ q.seen = thread[Daemon].seen /\ q.copy = thread[Daemon].copy
  <2>1. PICK q \in ThreadStates :
          /\ thread' = [thread EXCEPT ![Daemon] = q]
          /\ q.pc = p /\ q.job = thread[Daemon].job /\ q.todo = thread[Daemon].todo
          /\ q.seen = thread[Daemon].seen /\ q.copy = thread[Daemon].copy
          /\ q.errors = thread[Daemon].errors
    BY <1>1, <1>2, GotoIs
  <2> QED  BY <2>1
<1>4. TenantsKept
  BY KeptUnchanged
<1>5. ResourcesOwned
  BY <1>1 DEF ResourcesOwned, TBase, TypeOK, Owners
<1>6. /\ roles \subseteq roles' /\ roles' \subseteq roles \cup {t}
      /\ databases \subseteq databases' /\ databases' \subseteq databases \cup {t}
      /\ containers \subseteq containers' /\ containers' \subseteq containers \cup {t}
      /\ filestores \subseteq filestores' /\ filestores' \subseteq filestores \cup {t}
  OBVIOUS
<1>7. UNCHANGED <<job, stale, crashes>> /\ tenant' = tenant
  OBVIOUS
<1>8. TKnow => /\ p \in {"filepath", "role", "clone", "port", "container", "health", "succeed"}
                       => t \in filestores'
               /\ p \in {"clone", "port", "container", "health", "succeed"} => t \in roles'
               /\ p \in {"port", "container", "health", "succeed"} => t \in databases'
               /\ p \in {"health", "succeed"} => t \in containers'
               /\ p \in {"container", "health"} => thread[Daemon].copy.named
  OBVIOUS
<1>9. TKnow => (t \in containers' => tenant'[t].named)
  BY <1>1, <1>7
<1>10. \A u \in Tenants : tenant'[u].status = tenant[u].status /\ (u # t => tenant'[u] = tenant[u])
  BY <1>7
<1>11. TKnow => /\ q.pc \in {"filepath", "role", "clone", "port", "container", "health", "succeed"}
                       => t \in filestores'
                /\ q.pc \in {"clone", "port", "container", "health", "succeed"} => t \in roles'
                /\ q.pc \in {"port", "container", "health", "succeed"} => t \in databases'
                /\ q.pc \in {"health", "succeed"} => t \in containers'
                /\ q.pc \in {"container", "health"} => q.copy.named
                /\ t \in containers' => tenant'[t].named
                /\ q.copy.named = tenant'[t].named /\ q.copy.files = tenant'[t].files
  BY <1>1, <1>3, <1>7, <1>8, <1>9
<1>12. q.pc \in Reserved
  BY <1>3
<1> QED  BY <1>3, <1>4, <1>5, <1>6, <1>7, <1>10, <1>11, <1>12, ExecutionMoves

(* It records something in the tenant's row.                                *)
LEMMA RecordsOne ==
    ASSUME TBase, NEW p \in Reserved, thread[Daemon].pc \in Reserved, NEW new \in TenantRows,
           new.status = thread[Daemon].copy.status, CommitTenant(Daemon, new, p),
           UNCHANGED <<job, resources, stale, crashes>>,
           TKnow => LET t == MyTenant(Daemon)
                    IN /\ p \in {"filepath", "role", "clone", "port", "container", "health", "succeed"}
                            => t \in filestores
                       /\ p \in {"clone", "port", "container", "health", "succeed"} => t \in roles
                       /\ p \in {"port", "container", "health", "succeed"} => t \in databases
                       /\ p \in {"health", "succeed"} => t \in containers
                       /\ p \in {"container", "health"} => new.named
                       /\ thread[Daemon].copy.named => new.named
    PROVE  TBase' /\ (TKnow => TKnow')
<1> DEFINE t == MyTenant(Daemon)
<1>1. /\ Daemon \in Threads /\ t \in Tenants /\ tenant[t].status # "none" /\ p \in Pcs
      /\ TKnow => /\ thread[Daemon].copy.named = tenant[t].named
                  /\ thread[Daemon].copy.files = tenant[t].files
                  /\ t \in containers => tenant[t].named
  BY Execution, Counters
<1>2. /\ TenantsKept /\ \A u \in Tenants \ {t} : tenant'[u] = tenant[u]
      /\ tenant'[t].status = Merge(tenant[t].status, thread[Daemon].copy.status, new.status)
      /\ tenant'[t].files = Merge(tenant[t].files, thread[Daemon].copy.files, new.files)
      /\ tenant'[t].named = Merge(tenant[t].named, thread[Daemon].copy.named, new.named)
      /\ \E q \in ThreadStates :
            /\ thread' = [thread EXCEPT ![Daemon] = q]
            /\ q.pc = p /\ q.job = thread[Daemon].job /\ q.todo = thread[Daemon].todo
            /\ q.seen = thread[Daemon].seen /\ q.copy = new /\ q.errors = thread[Daemon].errors
  BY <1>1, CommitTenantIs
<1>3. /\ tenant'[t].status = tenant[t].status
      /\ TKnow => tenant'[t].files = new.files /\ tenant'[t].named = new.named
  BY <1>1, <1>2 DEF Merge
<1>4. PICK q \in ThreadStates :
            /\ thread' = [thread EXCEPT ![Daemon] = q]
            /\ q.pc = p /\ q.job = thread[Daemon].job /\ q.todo = thread[Daemon].todo
            /\ q.seen = thread[Daemon].seen /\ q.copy = new /\ q.errors = thread[Daemon].errors
  BY <1>2
<1>5. /\ UNCHANGED <<job, stale, crashes>>
      /\ roles' = roles /\ databases' = databases /\ containers' = containers /\ filestores' = filestores
  BY DEF resources
<1>6. ResourcesOwned
  BY KeptUnchanged
<1>7. \A u \in Tenants : tenant'[u].status = tenant[u].status /\ (u # t => tenant'[u] = tenant[u])
  BY <1>2, <1>3
<1>8. TKnow => /\ p \in {"filepath", "role", "clone", "port", "container", "health", "succeed"}
                       => t \in filestores
               /\ p \in {"clone", "port", "container", "health", "succeed"} => t \in roles
               /\ p \in {"port", "container", "health", "succeed"} => t \in databases
               /\ p \in {"health", "succeed"} => t \in containers
               /\ p \in {"container", "health"} => new.named
               /\ thread[Daemon].copy.named => new.named
  OBVIOUS
<1>9. TKnow => /\ q.pc \in {"filepath", "role", "clone", "port", "container", "health", "succeed"}
                      => t \in filestores'
               /\ q.pc \in {"clone", "port", "container", "health", "succeed"} => t \in roles'
               /\ q.pc \in {"port", "container", "health", "succeed"} => t \in databases'
               /\ q.pc \in {"health", "succeed"} => t \in containers'
               /\ q.pc \in {"container", "health"} => q.copy.named
               /\ t \in containers' => tenant'[t].named
               /\ q.copy.named = tenant'[t].named /\ q.copy.files = tenant'[t].files
  BY <1>1, <1>3, <1>4, <1>5, <1>8
<1>10. /\ roles \subseteq roles' /\ roles' \subseteq roles \cup {t}
       /\ databases \subseteq databases' /\ databases' \subseteq databases \cup {t}
       /\ containers \subseteq containers' /\ containers' \subseteq containers \cup {t}
       /\ filestores \subseteq filestores' /\ filestores' \subseteq filestores \cup {t}
       /\ q.pc \in Reserved /\ TenantsKept
  BY <1>2, <1>4, <1>5
<1>11. /\ thread' = [thread EXCEPT ![Daemon] = q] /\ q.job = thread[Daemon].job
       /\ q.todo = thread[Daemon].todo /\ q.seen = thread[Daemon].seen
       /\ UNCHANGED <<job, stale, crashes>>
  BY <1>4, <1>5
<1>12. thread[Daemon].pc \in Reserved /\ q \in ThreadStates
  OBVIOUS
<1> QED  BY <1>6, <1>7, <1>9, <1>10, <1>11, <1>12, ExecutionMoves

(* What the steps so far have made.                                         *)
LEMMA Made ==
    ASSUME TKnow, thread[Daemon].pc \in Reserved
    PROVE  LET t == MyTenant(Daemon)  pc == thread[Daemon].pc
           IN /\ pc \in {"filepath", "role", "clone", "port", "container", "health", "succeed"}
                    => t \in filestores
              /\ pc \in {"clone", "port", "container", "health", "succeed"} => t \in roles
              /\ pc \in {"port", "container", "health", "succeed"} => t \in databases
              /\ pc \in {"health", "succeed"} => t \in containers
              /\ pc \in {"container", "health"} => thread[Daemon].copy.named
BY DEF TKnow, Undisturbed, Recorded

(* A step fails the execution, and may have made what it was about to make. *)
LEMMA FailsExecution ==
    ASSUME TBase, Goto(Daemon, "fail"), thread[Daemon].pc \in Reserved,
           UNCHANGED <<job, tenant, roles, filestores, stale, crashes>>,
           databases' = databases \/ databases' = databases \cup {MyTenant(Daemon)},
           \/ containers' = containers
           \/ containers' = containers \cup {MyTenant(Daemon)} /\ thread[Daemon].pc = "container"
    PROVE  TBase' /\ (TKnow => TKnow')
<1> DEFINE t == MyTenant(Daemon)
           none == {}
<1>1. PICK d \in SUBSET {t} : databases' = databases \cup d
  <2>1. CASE databases' = databases
    <3>1. databases' = databases \cup none /\ none \in SUBSET {t}
      BY <2>1
    <3> QED  BY <3>1
  <2>2. CASE databases' = databases \cup {t}
    BY <2>2
  <2> QED  BY <2>1, <2>2
<1>2. PICK c \in SUBSET {t} : /\ containers' = containers \cup c
                              /\ c # {} => thread[Daemon].pc = "container"
  <2>1. CASE containers' = containers
    <3>1. containers' = containers \cup none /\ none \in SUBSET {t} /\ none = {}
      BY <2>1
    <3> QED  BY <3>1
  <2>2. CASE containers' = containers \cup {t} /\ thread[Daemon].pc = "container"
    BY <2>2
  <2> QED  BY <2>1, <2>2
<1>3. TKnow => (c # {} => thread[Daemon].copy.named)
  BY <1>2, Made
<1>4. /\ "fail" \in Reserved
      /\ "fail" \notin {"filepath", "role", "clone", "port", "container", "health", "succeed"}
  BY DEF Reserved, EXECUTE_PCS
<1>5. /\ none \subseteq {t} /\ roles' = roles \cup none /\ filestores' = filestores \cup none
      /\ UNCHANGED <<job, tenant, stale, crashes>> /\ d \subseteq {t} /\ c \subseteq {t}
  OBVIOUS
<1> HIDE DEF none
<1> QED  BY <1>1, <1>2, <1>3, <1>4, <1>5, MakesOne

(* The filestore is made, ...                                               *)
LEMMA PrepareFilestoreStep ==
    ASSUME TBase, PrepareFilestore
    PROVE  TBase' /\ (TKnow => TKnow')
<1> DEFINE t == MyTenant(Daemon)
           none == {}
           one == {t}
<1>1. /\ thread[Daemon].pc = "filestore" /\ thread[Daemon].pc \in Reserved /\ "filepath" \in Reserved
      /\ UNCHANGED <<job, tenant, roles, databases, containers, stale, crashes>> /\ Daemon \in Threads
  BY DEF PrepareFilestore, At, tables, Reserved, EXECUTE_PCS, Threads
<1>2. CASE filestores' = filestores \cup {t} /\ Goto(Daemon, "filepath")
  <2>1. /\ none \subseteq {t} /\ one \subseteq {t} /\ none = {} /\ t \in filestores'
        /\ roles' = roles \cup none /\ databases' = databases \cup none
        /\ containers' = containers \cup none /\ filestores' = filestores \cup one
        /\ UNCHANGED <<job, tenant, stale, crashes>>
    BY <1>1, <1>2
  <2> HIDE DEF one, none
  <2> QED  BY <1>1, <1>2, <2>1, MakesOne
<1>3. CASE filestores' = filestores /\ thread' = [thread EXCEPT ![Daemon] = Idle]
  BY <1>1, <1>3, GoesIdle DEF resources, Resting, TBase, TypeOK
<1> QED  BY <1>2, <1>3 DEF PrepareFilestore

(* ... its path recorded, ...                                               *)
LEMMA RecordFilestoreStep ==
    ASSUME TBase, RecordFilestore
    PROVE  TBase' /\ (TKnow => TKnow')
<1> DEFINE new == [thread[Daemon].copy EXCEPT !.files = TRUE]
<1>1. /\ thread[Daemon].pc = "filepath" /\ thread[Daemon].pc \in Reserved /\ "role" \in Reserved
      /\ UNCHANGED <<job, resources, stale, crashes>> /\ Daemon \in Threads
      /\ CommitTenant(Daemon, new, "role")
  BY DEF RecordFilestore, At, Reserved, EXECUTE_PCS, Threads
<1>2. /\ new \in TenantRows /\ new.status = thread[Daemon].copy.status
      /\ new.named = thread[Daemon].copy.named
  BY <1>1, Types DEF TBase, TenantRows
<1> HIDE DEF new
<1>3. TKnow => MyTenant(Daemon) \in filestores
  BY <1>1, Made
<1> QED  BY <1>1, <1>2, <1>3, RecordsOne

(* ... the role made, ...                                                   *)
LEMMA CreateRoleStep ==
    ASSUME TBase, CreateRole
    PROVE  TBase' /\ (TKnow => TKnow')
<1> DEFINE t == MyTenant(Daemon)
           none == {}
           one == {t}
<1>1. /\ thread[Daemon].pc = "role" /\ thread[Daemon].pc \in Reserved /\ "clone" \in Reserved
      /\ UNCHANGED <<job, tenant, databases, containers, filestores, stale, crashes>>
  BY DEF CreateRole, At, tables, Reserved, EXECUTE_PCS
<1>2. CASE roles' = roles \cup {t} /\ Goto(Daemon, "clone")
  <2>1. /\ none \subseteq {t} /\ one \subseteq {t} /\ none = {} /\ t \in roles'
        /\ databases' = databases \cup none /\ roles' = roles \cup one
        /\ containers' = containers \cup none /\ filestores' = filestores \cup none
        /\ UNCHANGED <<job, tenant, stale, crashes>>
    BY <1>1, <1>2
  <2>2. TKnow => t \in filestores'
    BY <1>1, Made
  <2> HIDE DEF one, none
  <2> QED  BY <1>1, <1>2, <2>1, <2>2, MakesOne
<1>3. CASE roles' = roles /\ Goto(Daemon, "fail")
  BY <1>1, <1>3, FailsExecution
<1> QED  BY <1>2, <1>3 DEF CreateRole

(* ... the database, ...                                                    *)
LEMMA CloneDatabaseStep ==
    ASSUME TBase, CloneDatabase
    PROVE  TBase' /\ (TKnow => TKnow')
<1> DEFINE t == MyTenant(Daemon)
           none == {}
           one == {t}
<1>1. /\ thread[Daemon].pc = "clone" /\ thread[Daemon].pc \in Reserved /\ "port" \in Reserved
      /\ UNCHANGED <<job, tenant, roles, containers, filestores, stale, crashes>>
  BY DEF CloneDatabase, At, tables, Reserved, EXECUTE_PCS
<1>2. CASE databases' = databases \cup {t} /\ Goto(Daemon, "port")
  <2>1. /\ none \subseteq {t} /\ one \subseteq {t} /\ none = {} /\ t \in databases'
        /\ databases' = databases \cup one /\ roles' = roles \cup none
        /\ containers' = containers \cup none /\ filestores' = filestores \cup none
        /\ UNCHANGED <<job, tenant, stale, crashes>>
    BY <1>1, <1>2
  <2>2. TKnow => t \in filestores' /\ t \in roles'
    BY <1>1, Made
  <2> HIDE DEF one, none
  <2> QED  BY <1>1, <1>2, <2>1, <2>2, MakesOne
<1>3. CASE (databases' = databases \/ databases' = databases \cup {t}) /\ Goto(Daemon, "fail")
  BY <1>1, <1>3, FailsExecution
<1> QED  BY <1>2, <1>3 DEF CloneDatabase

(* ... the container named, ...                                             *)
LEMMA AllocatePortStep ==
    ASSUME TBase, AllocatePort
    PROVE  TBase' /\ (TKnow => TKnow')
<1> DEFINE new == [thread[Daemon].copy EXCEPT !.named = TRUE]
<1>1. /\ thread[Daemon].pc = "port" /\ thread[Daemon].pc \in Reserved /\ "container" \in Reserved
      /\ UNCHANGED <<job, resources, stale, crashes>> /\ Daemon \in Threads
  BY DEF AllocatePort, At, Reserved, EXECUTE_PCS, Threads
<1>2. CASE CommitTenant(Daemon, new, "container")
  <2>1. new \in TenantRows /\ new.status = thread[Daemon].copy.status /\ new.named = TRUE
    BY <1>1, Types DEF TBase, TenantRows
  <2> HIDE DEF new
  <2>2. TKnow => /\ MyTenant(Daemon) \in filestores /\ MyTenant(Daemon) \in roles
                 /\ MyTenant(Daemon) \in databases
    BY <1>1, Made
  <2> QED  BY <1>1, <1>2, <2>1, <2>2, RecordsOne
<1>3. CASE Goto(Daemon, "fail") /\ UNCHANGED tenant
  BY <1>1, <1>3, FailsExecution DEF resources
<1> QED  BY <1>2, <1>3 DEF AllocatePort

(* ... and run, ...                                                         *)
LEMMA RunContainerStep ==
    ASSUME TBase, RunContainer
    PROVE  TBase' /\ (TKnow => TKnow')
<1> DEFINE t == MyTenant(Daemon)
           none == {}
           one == {t}
<1>1. /\ thread[Daemon].pc = "container" /\ thread[Daemon].pc \in Reserved /\ "health" \in Reserved
      /\ UNCHANGED <<job, tenant, roles, databases, filestores, stale, crashes>>
  BY DEF RunContainer, At, tables, Reserved, EXECUTE_PCS
<1>2. CASE containers' = containers \cup {t} /\ Goto(Daemon, "health")
  <2>1. /\ none \subseteq {t} /\ one \subseteq {t} /\ none = {} /\ t \in containers'
        /\ databases' = databases \cup none /\ roles' = roles \cup none
        /\ containers' = containers \cup one /\ filestores' = filestores \cup none
        /\ UNCHANGED <<job, tenant, stale, crashes>>
    BY <1>1, <1>2
  <2>2. TKnow => t \in filestores' /\ t \in roles' /\ t \in databases' /\ thread[Daemon].copy.named
    BY <1>1, Made
  <2> HIDE DEF one, none
  <2> QED  BY <1>1, <1>2, <2>1, <2>2, MakesOne
<1>3. CASE (containers' = containers \/ containers' = containers \cup {t}) /\ Goto(Daemon, "fail")
  BY <1>1, <1>3, FailsExecution
<1> QED  BY <1>2, <1>3 DEF RunContainer

(* ... and found healthy.                                                   *)
LEMMA HealthCheckStep ==
    ASSUME TBase, HealthCheck
    PROVE  TBase' /\ (TKnow => TKnow')
<1> DEFINE t == MyTenant(Daemon)
           none == {}
<1>1. /\ thread[Daemon].pc = "health" /\ thread[Daemon].pc \in Reserved /\ "succeed" \in Reserved
      /\ UNCHANGED <<job, tenant, roles, databases, containers, filestores, stale, crashes>>
  BY DEF HealthCheck, At, tables, resources, Reserved, EXECUTE_PCS
<1>2. CASE Goto(Daemon, "succeed")
  <2>1. /\ none \subseteq {t} /\ none = {}
        /\ databases' = databases \cup none /\ roles' = roles \cup none
        /\ containers' = containers \cup none /\ filestores' = filestores \cup none
        /\ UNCHANGED <<job, tenant, stale, crashes>>
    BY <1>1, <1>2
  <2>2. TKnow => t \in filestores' /\ t \in roles' /\ t \in databases' /\ t \in containers'
    BY <1>1, Made
  <2> HIDE DEF none
  <2> QED  BY <1>1, <1>2, <2>1, <2>2, MakesOne
<1>3. CASE Goto(Daemon, "fail")
  BY <1>1, <1>3, FailsExecution
<1> QED  BY <1>2, <1>3 DEF HealthCheck

(* The audit row is written or fails the execution.                         *)
LEMMA RecordAuditStep ==
    ASSUME TBase, RecordAudit
    PROVE  TBase' /\ (TKnow => TKnow')
<1>1. /\ thread[Daemon].pc \in Reserved /\ Daemon \in Threads /\ Idle \in Resting
      /\ UNCHANGED <<job, tenant, resources, stale, crashes>>
      /\ UNCHANGED <<roles, databases, containers, filestores>>
  BY DEF RecordAudit, At, tables, resources, Reserved, EXECUTE_PCS, Threads, Resting
<1>2. CASE thread' = [thread EXCEPT ![Daemon] = Idle]
  BY <1>1, <1>2, GoesIdle DEF TBase, TypeOK
<1>3. CASE Goto(Daemon, "fail")
  BY <1>1, <1>3, FailsExecution
<1> QED  BY <1>2, <1>3 DEF RecordAudit

(* The execution succeeds: what it made is there, and is its own.           *)
LEMMA SucceedStep ==
    ASSUME TBase, Succeed
    PROVE  TBase' /\ (TKnow => TKnow')
<1>0. /\ thread[Daemon].pc = "succeed" /\ UNCHANGED <<resources, stale, crashes>>
      /\ thread[Daemon].pc \in Reserved /\ thread[Daemon].pc \in EXECUTE_PCS
  BY DEF Succeed, At, Reserved, EXECUTE_PCS
<1>a. PICK j \in Jobs, t \in Tenants : j = thread[Daemon].job /\ t = MyTenant(Daemon)
  BY <1>0, Execution, InHand
<1> DEFINE new == [thread[Daemon].seen[j] EXCEPT !.status = "succeeded"]
           r == [job[j] EXCEPT !.status = "succeeded"]
           w == [tenant[t] EXCEPT !.status = "active"]
<1>1. /\ thread[Daemon].pc = "succeed" /\ UNCHANGED <<resources, stale, crashes>>
      /\ thread[Daemon].pc \in Reserved /\ thread[Daemon].pc \in EXECUTE_PCS
      /\ "audit" \in Reserved /\ "audit" \in EXECUTE_PCS /\ "audit" \in Pcs
      /\ "audit" \notin ROLLBACK_PCS /\ "audit" \notin Removing
  BY <1>0 DEF Reserved, EXECUTE_PCS, Pcs, ROLLBACK_PCS, Removing
<1>2. /\ Daemon \in Threads /\ t \in Tenants /\ t # NoTenant /\ tenant[t].status # "none"
      /\ j \in Jobs /\ job[j] \in JobRows /\ job[j].attempts > 0 /\ Mine(Daemon) \in JobRows
      /\ tenant[t] \in TenantRows /\ thread[Daemon] \in ThreadStates /\ job[j].tenant = t
      /\ Holds(Daemon, thread[Daemon]) /\ j = thread[Daemon].job /\ t = MyTenant(Daemon)
  BY <1>1, <1>a, Execution, InHand, Types DEF TBase, Holder
<1>3. new \in JobRows /\ new.tenant = t /\ new.sub = Mine(Daemon).sub /\ new.status = "succeeded"
      /\ new.rollback = Mine(Daemon).rollback
  BY <1>2 DEF JobRows, JobStatuses, MyTenant, Mine
<1>4. /\ r \in JobRows /\ r.sub = job[j].sub /\ r.tenant = job[j].tenant
      /\ r.attempts = job[j].attempts /\ r.status = "succeeded" /\ r.rollback = job[j].rollback
  BY <1>2 DEF JobRows, JobStatuses
<1>5. /\ w \in TenantRows /\ w.sub = tenant[t].sub /\ w.status = "active"
      /\ w.named = tenant[t].named /\ w.files = tenant[t].files
  BY <1>2 DEF TenantRows
<1>7. job' = [job EXCEPT ![j] = r] /\ tenant' = [tenant EXCEPT ![t] = w]
  BY <1>2 DEF Succeed, TBase, TypeOK
<1>8. PICK q \in ThreadStates :
        /\ thread' = [thread EXCEPT ![Daemon] = q]
        /\ q.pc = "audit" /\ q.job = j /\ q.todo = thread[Daemon].todo
        /\ q.seen = [thread[Daemon].seen EXCEPT ![j] = new]
        /\ q.copy = [thread[Daemon].copy EXCEPT !.status = "active"]
  <2> DEFINE q == [thread[Daemon] EXCEPT !.pc = "audit",
                                         !.seen = [thread[Daemon].seen EXCEPT ![j] = new],
                                         !.copy = [thread[Daemon].copy EXCEPT !.status = "active"]]
  <2>1. thread' = [thread EXCEPT ![Daemon] = q]
    BY <1>2 DEF Succeed, ThreadStates, TBase, TypeOK
  <2>2. /\ q.pc = "audit" /\ q.job = j /\ q.todo = thread[Daemon].todo
        /\ q.seen = [thread[Daemon].seen EXCEPT ![j] = new]
        /\ q.copy = [thread[Daemon].copy EXCEPT !.status = "active"]
    BY <1>2 DEF ThreadStates
  <2>3. q \in ThreadStates
    <3>1. [thread[Daemon].seen EXCEPT ![j] = new] \in [Jobs -> JobRows]
      BY <1>2, <1>3 DEF ThreadStates
    <3>2. [thread[Daemon].copy EXCEPT !.status = "active"] \in TenantRows
      BY <1>2 DEF ThreadStates, TenantRows
    <3> HIDE DEF new
    <3> QED  BY <1>1, <1>2, <3>1, <3>2 DEF ThreadStates
  <2> HIDE DEF q
  <2> QED  BY <2>1, <2>2, <2>3
<1>10. q.copy.named = thread[Daemon].copy.named /\ q.copy.files = thread[Daemon].copy.files
  BY <1>2, <1>8 DEF ThreadStates, TenantRows
<1> HIDE DEF new, r, w
<1>11. /\ job'[j] = r /\ \A i \in Jobs \ {j} : job'[i] = job[i]
       /\ tenant'[t] = w /\ \A u \in Tenants \ {t} : tenant'[u] = tenant[u]
  BY <1>2, <1>7 DEF TBase, TypeOK
<1>12. JobsKept
  <2>1. r.tenant = job[j].tenant /\ r.sub = job[j].sub /\ r.attempts >= job[j].attempts
        /\ r.attempts > 0 /\ r.status # "none" /\ job' = [job EXCEPT ![j] = r]
    BY <1>2, <1>4, <1>7 DEF JobRows
  <2> QED  BY <1>2, <1>4, <2>1, KeptJob
<1>13. TenantsKept
  <2>1. w.sub = tenant[t].sub /\ w.status # "none" /\ tenant' = [tenant EXCEPT ![t] = w]
    BY <1>5, <1>7
  <2> QED  BY <1>2, <1>5, <2>1, KeptTenant
<1>14. q.seen[j] = new /\ \A i \in Jobs \ {j} : q.seen[i] = thread[Daemon].seen[i]
  BY <1>2, <1>8 DEF ThreadStates
<1>15. Holds(Daemon, q)'
  <2>1. /\ thread[Daemon].todo = {} /\ thread[Daemon].seen[j].sub = job[j].sub
        /\ \A i \in Jobs \ {j} : thread[Daemon].seen[i].tenant = NoTenant
        /\ \A i \in Jobs : thread[Daemon].seen[i].tenant \in {NoTenant, job[i].tenant}
    BY <1>1, <1>2 DEF Holds
  <2>2. /\ q.job \in Jobs /\ job'[q.job].attempts > 0 /\ q.todo = {}
        /\ q.seen[q.job].sub = job'[q.job].sub /\ q.seen[q.job].status = "succeeded"
        /\ \A i \in Jobs \ {q.job} : q.seen[i].tenant = NoTenant
        /\ q.seen[q.job].tenant # NoTenant
        /\ \A i \in Jobs : q.seen[i].tenant \in {NoTenant, job'[i].tenant}
    BY <1>2, <1>3, <1>4, <1>8, <1>11, <1>14, <2>1 DEF Mine
  <2>3. q.pc # "mark" /\ q.pc \notin ROLLBACK_PCS
    BY <1>1, <1>8
  <2> QED  BY <2>2, <2>3 DEF Holds
<1>16. TBase'
  <2>1. \A i \in Jobs : job[i].status = "none" => job'[i].status = "none"
    <3>1. job[j].status # "none"
      BY <1>2 DEF TBase, Owners
    <3> QED  BY <1>11, <3>1
  <2>2. Room'
    <3>1. q.pc # "insert"
      BY <1>8
    <3> QED  BY <1>2, <1>8, <1>12, <2>1, <3>1, RoomKept
  <2>3. ResourcesOwned /\ stale' \subseteq Jobs /\ crashes' \in 0 .. MaxCrashes
    <3>1. ResourcesOwned
      BY <1>1, KeptUnchanged
    <3>2. stale' \subseteq Jobs /\ crashes' \in 0 .. MaxCrashes
      BY <1>1 DEF TBase, TypeOK
    <3> QED  BY <3>1, <3>2
  <2> QED  BY <1>2, <1>8, <1>12, <1>13, <1>15, <2>2, <2>3, BaseMoves
<1> SUFFICES ASSUME TKnow
             PROVE  TKnow'
  BY <1>16
<1>17. /\ thread'[Daemon] = q
       /\ \A y \in Threads \ {Daemon} :
            /\ thread'[y] = thread[y] /\ MyTenant(y)' = MyTenant(y) /\ Mine(y)' = Mine(y)
            /\ Undoing(y)' = Undoing(y)
            /\ \A i \in Jobs : /\ OnList(y, i)' = OnList(y, i)
                               /\ Threatens(y, i)' = Threatens(y, i)
                               /\ Requeues(y, i)' = Requeues(y, i)
  BY <1>2, <1>8, OthersStay
<1>18. /\ ~Undoing(Daemon)' /\ MyTenant(Daemon)' = t /\ Mine(Daemon)' = new
       /\ \A i \in Jobs : /\ ~OnList(Daemon, i)' /\ ~Threatens(Daemon, i)' /\ ~Requeues(Daemon, i)'
                          /\ Executing(i)' => i = j
       /\ Executing(j)
  <2>1. ~Undoing(Daemon)'
    BY <1>1, <1>2, <1>3, <1>8, <1>14, <1>17 DEF Undoing
  <2>2. MyTenant(Daemon)' = t /\ Mine(Daemon)' = new
    BY <1>1, <1>2, <1>3, <1>8, <1>14, <1>17 DEF MyTenant, Mine
  <2>3. \A i \in Jobs : ~Requeues(Daemon, i)' /\ (Executing(i)' => i = j)
    BY <1>1, <1>2, <1>3, <1>8, <1>14, <1>17 DEF Requeues, Executing
  <2>4. Executing(j)
    BY <1>1, <1>2, <1>3, <1>8, <1>14, <1>17 DEF Executing
  <2> QED  BY <2>1, <2>2, <2>3, <2>4 DEF OnList, Threatens
<1>19. /\ j \notin stale /\ \A y \in Threads : ~Threatens(y, j)
       /\ t \in roles \cap databases \cap containers \cap filestores
  BY <1>1, <1>2, Made DEF TKnow, Undisturbed
<1>20. \A y \in Threads : ~Threatens(y, j)'
  BY <1>2, <1>17, <1>18, <1>19
<1>21. UNCHANGED <<roles, databases, containers, filestores, stale>>
  BY <1>1 DEF resources
<1>22. \A i \in Jobs : job[i].tenant = t => i = j
  BY <1>2 DEF TBase, Owners
<1>23. \A i \in Jobs : job[i].tenant \in Tenants \cup {NoTenant}
  BY Types DEF TBase
<1>24. Undisturbed'
  BY <1>1, <1>2, <1>8, <1>17, <1>19, <1>20, <1>21 DEF Undisturbed
<1>25. Secure'
  <2> SUFFICES ASSUME NEW i \in Jobs, job'[i].status = "succeeded"
               PROVE  /\ job'[i].tenant # NoTenant /\ tenant'[job'[i].tenant].status = "active"
                      /\ job'[i].tenant \in roles' \cap databases' \cap containers' \cap filestores'
                      /\ \A y \in Threads : ~Threatens(y, i)'
    BY DEF Secure, SucceededIsServed
  <2>1. CASE i = j
    BY <1>2, <1>4, <1>5, <1>11, <1>19, <1>20, <1>21, <2>1
  <2>2. CASE i # j
    BY <1>11, <1>17, <1>18, <1>21, <1>22, <1>23, <2>2 DEF TKnow, Secure, SucceededIsServed
  <2> QED  BY <2>1, <2>2
<1>26. Fresh'
  <2> SUFFICES ASSUME NEW i \in Jobs, job'[i].attempts = 1
               PROVE  /\ Executing(i)' => /\ job'[i].status \in {"running", "succeeded"}
                                         /\ Mine(Daemon)'.tenant = job'[i].tenant
                                         /\ Mine(Daemon)'.rollback # "completed"
                                         /\ \A y \in Threads : ~OnList(y, i)' /\ ~Requeues(y, i)'
                      /\ job'[i].status \in {"running", "succeeded"} => job'[i].rollback # "completed"
                      /\ \A y \in Threads : OnList(y, i)' =>
                           /\ thread'[y].seen[i].tenant = job'[i].tenant
                           /\ i # thread'[y].job \/ thread'[y].pc \in {"mark", "rollback"} =>
                                thread'[y].seen[i].rollback # "completed"
                           /\ i = thread'[y].job /\ thread'[y].pc # "mark" =>
                                job'[i].status \notin {"running", "succeeded"}
    BY DEF Fresh
  <2>1. CASE i = j
    <3>1. job[j].attempts = 1
      BY <1>4, <1>11, <2>1
    <3>2. /\ job[j].status \in {"running", "succeeded"} /\ Mine(Daemon).rollback # "completed"
          /\ \A y \in Threads : ~OnList(y, j) /\ ~Requeues(y, j)
          /\ job[j].rollback # "completed"
      BY <1>2, <1>18, <3>1 DEF TKnow, Fresh
    <3>3. \A y \in Threads : ~OnList(y, j)' /\ ~Requeues(y, j)'
      BY <1>2, <1>17, <1>18, <3>2
    <3> QED  BY <1>2, <1>3, <1>4, <1>11, <1>18, <2>1, <3>2, <3>3
  <2>2. CASE i # j
    BY <1>11, <1>17, <1>18, <2>2 DEF TKnow, Fresh
  <2> QED  BY <2>1, <2>2
<1>27. \A u \in Tenants : tenant'[u].named = tenant[u].named /\ tenant'[u].files = tenant[u].files
  BY <1>5, <1>11
<1>28. \A u \in Tenants : NothingLeft(u)' = NothingLeft(u)
  BY <1>21, <1>27 DEF NothingLeft
<1>29. Recorded'
  <2>1. \A u \in containers' : tenant'[u].named
    BY <1>21, <1>27 DEF TKnow, Recorded, TBase, TypeOK
  <2>2. thread'[Daemon].pc \notin {"container", "health"}
    BY <1>8, <1>17
  <2>3. ASSUME NEW y \in Threads,
               \/ thread'[y].pc \in Reserved \cup Removing
               \/ thread'[y].pc = "rollback" /\ thread'[y].todo = {},
               MyTenant(y)' # NoTenant
        PROVE  /\ thread'[y].copy.named = tenant'[MyTenant(y)'].named
               /\ thread'[y].copy.files = tenant'[MyTenant(y)'].files
    <3>1. CASE y = Daemon
      BY <1>1, <1>2, <1>10, <1>17, <1>18, <1>27, <3>1 DEF TKnow, Recorded
    <3>2. CASE y # Daemon
      <4>1. thread'[y] = thread[y] /\ MyTenant(y)' = MyTenant(y)
        BY <1>17, <3>2
      <4>2. thread[y].job \in Jobs
        BY <2>3, <4>1, Counters DEF TBase, Holder, Holds, ROLLBACK_PCS
      <4>3. MyTenant(y) \in Tenants
        BY <2>3, <4>1, <4>2, Types DEF TBase
      <4> QED  BY <1>27, <2>3, <4>1, <4>3 DEF TKnow, Recorded
    <3> QED  BY <3>1, <3>2
  <2> QED  BY <2>1, <2>2, <2>3 DEF Recorded
<1>30. ASSUME NEW y \in Threads
       PROVE  Gone(y)'
  <2>1. CASE y = Daemon
    BY <1>18, <2>1 DEF Gone
  <2>2. CASE y # Daemon
    <3>1. thread'[y] = thread[y] /\ MyTenant(y)' = MyTenant(y) /\ Undoing(y)' = Undoing(y)
      BY <1>17, <2>2
    <3>2. Undoing(y) => thread[y].job \in Jobs /\ MyTenant(y) \in Tenants \cup {NoTenant}
      BY Types DEF TBase, Holder, Holds, Undoing
    <3>3. Undoing(y) => job'[thread[y].job].attempts = job[thread[y].job].attempts
      BY <1>4, <1>11, <3>2
    <3>4. Gone(y)
      BY DEF TKnow
    <3> QED  BY <1>21, <1>27, <1>28, <3>1, <3>2, <3>3, <3>4 DEF Gone
  <2> QED  BY <2>1, <2>2
<1>31. FirstRollbackIsClean'
  BY <1>4, <1>11, <1>23, <1>28 DEF TKnow, FirstRollbackIsClean
<1> QED  BY <1>24, <1>25, <1>26, <1>29, <1>30, <1>31 DEF TKnow

------------------------------------------------------------------------------
(* Time.                                                                   *)

(* A running job gets old.                                                  *)
LEMMA AgeKeepsBase ==
    ASSUME TBase, NEW j \in Jobs, Age(j)
    PROVE  TBase'
<1>1. UNCHANGED <<job, tenant, roles, databases, containers, filestores, thread, crashes>>
      /\ stale' = stale \cup {j}
  BY DEF Age, tables, resources
<1>2. TypeOK' /\ Room' /\ Owners'
  BY <1>1 DEF TBase, TypeOK, Room, Inserted, Queueing, At, Owners
<1>3. ASSUME NEW y \in Threads
      PROVE  Holder(y)'
  <2>1. Holds(y, thread[y])'
    BY <1>1, OthersHold, KeptUnchanged
  <2> QED  BY <1>1, <2>1 DEF Holder
<1> QED  BY <1>2, <1>3 DEF TBase

(* While it is executed it does so only if executions may be slow.          *)
LEMMA AgeStep ==
    ASSUME ~SlowJobs, TBase, TKnow, NEW j \in Jobs, Age(j)
    PROVE  TKnow'
<1>1. UNCHANGED <<job, tenant, roles, databases, containers, filestores, thread, crashes>>
      /\ stale' = stale \cup {j} /\ ~BeingExecuted(j)
  BY DEF Age, tables, resources
<1>2. thread[Daemon].pc \in EXECUTE_PCS => thread[Daemon].job # j
  BY <1>1 DEF BeingExecuted
<1>3. /\ MyTenant(Daemon)' = MyTenant(Daemon)
      /\ \A y \in Threads : /\ thread'[y] = thread[y] /\ MyTenant(y)' = MyTenant(y)
                            /\ Mine(y)' = Mine(y) /\ Undoing(y)' = Undoing(y)
                            /\ \A i \in Jobs : /\ OnList(y, i)' = OnList(y, i)
                                               /\ Requeues(y, i)' = Requeues(y, i)
      /\ \A y, i : Threatens(y, i)' = Threatens(y, i)
      /\ \A i \in Jobs : Executing(i)' = Executing(i)
      /\ \A t : NothingLeft(t)' = NothingLeft(t)
      /\ Daemon \in Threads
  BY <1>1 DEF MyTenant, Mine, Undoing, OnList, Requeues, Threatens, Executing, NothingLeft, Threads
<1>4. Undisturbed'
  BY <1>1, <1>2, <1>3 DEF TKnow, Undisturbed
<1>5. Secure'
  BY <1>1, <1>3 DEF TKnow, Secure, SucceededIsServed
<1>6. Fresh'
  BY <1>1, <1>3 DEF TKnow, Fresh
<1>7. Recorded'
  BY <1>1, <1>3 DEF TKnow, Recorded
<1>8. \A y \in Threads : Gone(y)'
  BY <1>1, <1>3 DEF TKnow, Gone
<1>9. FirstRollbackIsClean'
  BY <1>1, <1>3 DEF TKnow, FirstRollbackIsClean
<1> QED  BY <1>4, <1>5, <1>6, <1>7, <1>8, <1>9 DEF TKnow

------------------------------------------------------------------------------
(* The steps that give a thread a job and a job a tenant.                  *)

(* What a step that is no thread's compensation leaves of what the others   *)
(* know, when it disturbs no tenant they know.                              *)
LEMMA OthersKnow ==
    ASSUME TBase, TKnow, NEW q, thread' = [thread EXCEPT ![Daemon] = q],
           UNCHANGED <<roles, databases, containers, filestores>>,
           \A u \in Tenants : tenant[u].status # "none" => tenant'[u] = tenant[u],
           \A i \in Jobs : job[i].attempts > 0 => job'[i].attempts = job[i].attempts,
           NEW y \in Threads \ {Daemon}
    PROVE  /\ (\/ thread'[y].pc \in Reserved \cup Removing
               \/ thread'[y].pc = "rollback" /\ thread'[y].todo = {})
              /\ MyTenant(y)' # NoTenant =>
                   /\ thread'[y].copy.named = tenant'[MyTenant(y)'].named
                   /\ thread'[y].copy.files = tenant'[MyTenant(y)'].files
           /\ Gone(y)'
<1>1. /\ thread'[y] = thread[y] /\ MyTenant(y)' = MyTenant(y) /\ Undoing(y)' = Undoing(y)
      /\ Daemon \in Threads
  BY OthersStay DEF Threads
<1>2. thread[y].pc \in EXECUTE_PCS \cup ROLLBACK_PCS =>
        /\ job'[thread[y].job].attempts = job[thread[y].job].attempts
        /\ MyTenant(y) # NoTenant => tenant'[MyTenant(y)] = tenant[MyTenant(y)]
  BY InHand
<1>3. (\/ thread'[y].pc \in Reserved \cup Removing
       \/ thread'[y].pc = "rollback" /\ thread'[y].todo = {})
      /\ MyTenant(y)' # NoTenant =>
           /\ thread'[y].copy.named = tenant'[MyTenant(y)'].named
           /\ thread'[y].copy.files = tenant'[MyTenant(y)'].files
  <2>1. thread[y].pc \in Reserved \cup Removing \cup {"rollback"} =>
          thread[y].pc \in EXECUTE_PCS \cup ROLLBACK_PCS
    BY Counters DEF ROLLBACK_PCS
  <2> QED  BY <1>1, <1>2, <2>1 DEF TKnow, Recorded
<1>4. Gone(y)'
  <2>1. Gone(y) /\ (Undoing(y) => thread[y].pc \in ROLLBACK_PCS)
    BY DEF TKnow, Undoing
  <2>2. Undoing(y) /\ MyTenant(y) # NoTenant => NothingLeft(MyTenant(y))' = NothingLeft(MyTenant(y))
    <3>1. PICK u : u = MyTenant(y)
      OBVIOUS
    <3>2. Undoing(y) /\ u # NoTenant => tenant'[u] = tenant[u]
      BY <1>2, <2>1, <3>1
    <3>3. Undoing(y) /\ u # NoTenant => NothingLeft(u)' = NothingLeft(u)
      BY <3>2 DEF NothingLeft
    <3> QED  BY <1>1, <3>1, <3>3 DEF NothingLeft
  <2> QED  BY <1>1, <1>2, <2>1, <2>2 DEF Gone
<1> QED  BY <1>3, <1>4

(* The worker claims the oldest job; nobody has anything of it if this is   *)
(* its first attempt.                                                       *)
LEMMA ClaimStep ==
    ASSUME TBase, Claim
    PROVE  TBase' /\ (TKnow => TKnow')
<1>1. thread[Daemon].pc = "claim" /\ Daemon \in Threads /\ UNCHANGED <<tenant, resources, crashes>>
  BY DEF Claim, At, Threads
<1>2. CASE Queued = {}
  <2>1. thread' = [thread EXCEPT ![Daemon] = Idle] /\ UNCHANGED <<job, stale>>
    BY <1>2 DEF Claim
  <2> QED  BY <1>1, <2>1, GoesIdle DEF Resting, TBase, TypeOK
<1>3. CASE Queued # {}
  <2>1. PICK j \in Jobs : j = Least(Queued) /\ job[j].status = "queued"
    BY <1>3, LeastIn DEF Queued
  <2>2. /\ job[j] \in JobRows /\ job[j].attempts \in Nat
        /\ job[j].attempts = 0 => job[j].tenant = NoTenant /\ job[j].rollback = "none"
    BY Types DEF TBase, Owners
  <2>0. PICK r : r = [job[j] EXCEPT !.status = "running", !.attempts = job[j].attempts + 1]
    OBVIOUS
  <2>3. /\ r \in JobRows /\ r.sub = job[j].sub /\ r.tenant = job[j].tenant /\ r.status = "running"
        /\ r.attempts = job[j].attempts + 1 /\ r.rollback = job[j].rollback
        /\ r.attempts >= job[j].attempts /\ r.attempts > 0
    <3>1. /\ r.sub = job[j].sub /\ r.tenant = job[j].tenant /\ r.status = "running"
          /\ r.attempts = job[j].attempts + 1 /\ r.rollback = job[j].rollback
      BY <2>0, <2>2 DEF JobRows
    <3>2. "running" \in JobStatuses /\ job[j].attempts + 1 \in Nat
      BY <2>2 DEF JobStatuses, ACTIVE_PROVISIONING_STATUSES
    <3>3. r \in JobRows
      BY <2>0, <2>2, <3>2 DEF JobRows
    <3> QED  BY <2>2, <3>1, <3>3
  <2>4. /\ job' = [job EXCEPT ![j] = r] /\ stale' = stale \ {j}
        /\ thread' = [thread EXCEPT ![Daemon] =
                         [Idle EXCEPT !.pc = "validate", !.job = j, !.seen[j] = r]]
    BY <1>3, <2>0, <2>1 DEF Claim
  <2>5. /\ "validate" \in Pcs /\ "validate" \in EXECUTE_PCS /\ "validate" \notin Reserved \cup Removing
        /\ "validate" \notin ROLLBACK_PCS
    BY DEF Pcs, EXECUTE_PCS, Reserved, Removing, ROLLBACK_PCS
  <2>6. PICK q \in ThreadStates :
          /\ thread' = [thread EXCEPT ![Daemon] = q]
          /\ q.pc = "validate" /\ q.job = j /\ q.todo = {} /\ q.seen[j] = r
          /\ \A i \in Jobs \ {j} : q.seen[i] = NoJob
    <3> DEFINE q == [Idle EXCEPT !.pc = "validate", !.job = j, !.seen[j] = r]
    <3>1. /\ q \in ThreadStates /\ q.pc = "validate" /\ q.job = j /\ q.todo = {} /\ q.seen[j] = r
          /\ \A i \in Jobs \ {j} : q.seen[i] = NoJob
      BY <2>3, <2>5, Nothing DEF ThreadStates
    <3>2. thread' = [thread EXCEPT ![Daemon] = q]
      BY <2>4
    <3> HIDE DEF q
    <3> QED  BY <3>1, <3>2
  <2>7. job'[j] = r /\ \A i \in Jobs \ {j} : job'[i] = job[i]
    BY <2>4 DEF TBase, TypeOK
  <2>8. JobsKept
    <3>1. r.status # "none"
      BY <2>3
    <3> QED  BY <2>3, <2>4, <3>1, KeptJob
  <2>9. Holds(Daemon, q)'
    <3>1. \A i \in Jobs : q.seen[i].tenant \in {NoTenant, job'[i].tenant}
      BY <2>6, <2>7, Nothing
    <3>2. /\ q.job \in Jobs /\ job'[q.job].attempts > 0 /\ q.seen[q.job].sub = job'[q.job].sub
          /\ q.seen[q.job].status = "running" /\ \A i \in Jobs \ {q.job} : q.seen[i].tenant = NoTenant
      BY <2>2, <2>3, <2>6, <2>7, Nothing
    <3>3. /\ q.pc \notin Reserved \cup Removing /\ q.pc # "mark" /\ q.pc \notin ROLLBACK_PCS /\ q.todo = {}
      BY <2>5, <2>6
    <3> QED  BY <3>1, <3>2, <3>3 DEF Holds
  <2>10. TBase'
    <3>1. \A i \in Jobs : job[i].status = "none" => job'[i].status = "none"
      BY <2>1, <2>7
    <3>2. q.pc # "insert"
      BY <2>6
    <3>3. Room'
      BY <1>1, <2>6, <2>8, <3>1, <3>2, RoomKept
    <3>4. TenantsKept /\ ResourcesOwned
      BY <1>1, KeptUnchanged
    <3>5. stale' \subseteq Jobs /\ crashes' \in 0 .. MaxCrashes
      BY <1>1, <2>4 DEF TBase, TypeOK
    <3> QED  BY <1>1, <2>6, <2>8, <2>9, <3>3, <3>4, <3>5, BaseMoves
  <2> SUFFICES ASSUME TKnow
               PROVE  TKnow'
    BY <2>10
  <2>11. /\ thread'[Daemon] = q
         /\ \A y \in Threads \ {Daemon} :
              /\ thread'[y] = thread[y] /\ MyTenant(y)' = MyTenant(y) /\ Mine(y)' = Mine(y)
              /\ Undoing(y)' = Undoing(y)
              /\ \A i \in Jobs : /\ OnList(y, i)' = OnList(y, i)
                                 /\ Threatens(y, i)' = Threatens(y, i)
                                 /\ Requeues(y, i)' = Requeues(y, i)
    BY <1>1, <2>6, OthersStay
  <2>12. /\ ~Undoing(Daemon)' /\ Mine(Daemon)' = r
         /\ \A i \in Jobs : /\ ~OnList(Daemon, i)' /\ ~Threatens(Daemon, i)' /\ ~Requeues(Daemon, i)'
                            /\ Executing(i)' => i = j
    BY <2>5, <2>6, <2>11 DEF Undoing, OnList, Threatens, Requeues, Mine, Executing
  <2>13. /\ tenant' = tenant /\ UNCHANGED <<roles, databases, containers, filestores>>
    BY <1>1 DEF resources
  <2>14. Undisturbed'
    BY <2>4, <2>5, <2>6, <2>11 DEF Undisturbed
  <2>15. Secure'
    <3>1. \A i \in Jobs : job'[i].status = "succeeded" => i # j /\ job'[i] = job[i]
      BY <2>3, <2>7
    <3> QED  BY <2>11, <2>12, <2>13, <3>1 DEF TKnow, Secure, SucceededIsServed
  <2>16. ASSUME job[j].attempts = 0, NEW y \in Threads
         PROVE  ~OnList(y, j) /\ ~Requeues(y, j)
    BY <2>16 DEF TBase, Holder, Holds, OnList, Requeues, Undoing
  <2>17. Fresh'
    <3> SUFFICES ASSUME NEW i \in Jobs, job'[i].attempts = 1
                 PROVE  /\ Executing(i)' => /\ job'[i].status \in {"running", "succeeded"}
                                           /\ Mine(Daemon)'.tenant = job'[i].tenant
                                           /\ Mine(Daemon)'.rollback # "completed"
                                           /\ \A y \in Threads : ~OnList(y, i)' /\ ~Requeues(y, i)'
                        /\ job'[i].status \in {"running", "succeeded"} => job'[i].rollback # "completed"
                        /\ \A y \in Threads : OnList(y, i)' =>
                             /\ thread'[y].seen[i].tenant = job'[i].tenant
                             /\ i # thread'[y].job \/ thread'[y].pc \in {"mark", "rollback"} =>
                                  thread'[y].seen[i].rollback # "completed"
                             /\ i = thread'[y].job /\ thread'[y].pc # "mark" =>
                                  job'[i].status \notin {"running", "succeeded"}
      BY DEF Fresh
    <3>1. CASE i = j
      <4>1. job[j].attempts = 0 /\ r.rollback = "none"
        <5>1. job[j].attempts + 1 = 1
          BY <2>3, <2>7, <3>1
        <5> QED  BY <2>2, <2>3, <5>1
      <4>2. \A y \in Threads : ~OnList(y, j)' /\ ~Requeues(y, j)'
        BY <2>11, <2>12, <2>16, <4>1
      <4> QED  BY <2>3, <2>7, <2>12, <3>1, <4>1, <4>2
    <3>2. CASE i # j
      BY <2>7, <2>11, <2>12, <3>2 DEF TKnow, Fresh
    <3> QED  BY <3>1, <3>2
  <2>18. ASSUME NEW y \in Threads \ {Daemon}
         PROVE  /\ thread'[y] = thread[y] /\ MyTenant(y)' = MyTenant(y) /\ Undoing(y)' = Undoing(y)
                /\ Undoing(y) => thread[y].job \in Jobs /\ job[thread[y].job].attempts > 0
                /\ Gone(y)
    BY <2>11 DEF TBase, Holder, Holds, Undoing, TKnow
  <2>19. Recorded'
    BY <2>5, <2>6, <2>11, <2>13, <2>18 DEF TKnow, Recorded
  <2>20. ASSUME NEW y \in Threads
         PROVE  Gone(y)'
    <3>1. CASE y = Daemon
      BY <2>12, <3>1 DEF Gone
    <3>2. CASE y # Daemon
      <4>1. Undoing(y) /\ job'[thread[y].job].attempts = 1 => job[thread[y].job].attempts = 1
        <5>1. CASE thread[y].job = j
          <6>1. Undoing(y) => job[j].attempts > 0 /\ job'[j].attempts = job[j].attempts + 1
            BY <2>3, <2>7, <2>18, <3>2, <5>1
          <6> QED  BY <2>2, <5>1, <6>1
        <5>2. CASE thread[y].job # j
          BY <2>7, <2>18, <3>2, <5>2
        <5> QED  BY <5>1, <5>2
      <4>2. \A t : NothingLeft(t)' = NothingLeft(t)
        BY <2>13 DEF NothingLeft
      <4> QED  BY <2>13, <2>18, <3>2, <4>1, <4>2 DEF Gone
    <3> QED  BY <3>1, <3>2
  <2>21. FirstRollbackIsClean'
    <3>1. \A i \in Jobs : job'[i].status = "rolled_back" => i # j /\ job'[i] = job[i]
      BY <2>3, <2>7
    <3> QED  BY <2>13, <3>1 DEF TKnow, FirstRollbackIsClean, NothingLeft
  <2> QED  BY <2>14, <2>15, <2>17, <2>19, <2>20, <2>21 DEF TKnow
<1> QED  BY <1>2, <1>3

(* The execution reserves a tenant row that nobody has.                     *)
LEMMA ReserveTenantStep ==
    ASSUME TBase, ReserveTenant
    PROVE  TBase' /\ (TKnow => TKnow')
<1>1. /\ thread[Daemon].pc = "validate" /\ Daemon \in Threads /\ UNCHANGED <<resources, stale, crashes>>
      /\ thread[Daemon].pc \in EXECUTE_PCS
  BY DEF ReserveTenant, At, Threads, EXECUTE_PCS
<1>2. CASE thread' = [thread EXCEPT ![Daemon] = Idle] /\ UNCHANGED tables
  BY <1>1, <1>2, GoesIdle DEF Resting, TBase, TypeOK, tables
<1>3. CASE ~(thread' = [thread EXCEPT ![Daemon] = Idle] /\ UNCHANGED tables)
  <2>1. PICK j \in Jobs, s \in Subscriptions \cup {"none"} :
          /\ j = thread[Daemon].job /\ s = Mine(Daemon).sub /\ s = job[j].sub
          /\ job[j] \in JobRows /\ job[j].attempts > 0 /\ job[j].status # "none"
          /\ Mine(Daemon) \in JobRows /\ thread[Daemon] \in ThreadStates
          /\ Holds(Daemon, thread[Daemon])
    <3>1. thread[Daemon].job \in Jobs
      BY <1>1, InHand
    <3>2. PICK j \in Jobs : j = thread[Daemon].job
      BY <3>1
    <3>3. /\ job[j] \in JobRows /\ job[j].attempts > 0 /\ job[j].status # "none"
          /\ Mine(Daemon) \in JobRows /\ thread[Daemon] \in ThreadStates
          /\ Holds(Daemon, thread[Daemon])
      BY <1>1, <3>2, InHand, Types DEF TBase, Holder
    <3>4. Mine(Daemon).sub = job[j].sub
      BY <1>1, <3>2, <3>3 DEF Holds, Mine
    <3>5. job[j].sub \in Subscriptions \cup {"none"}
      BY Types DEF TBase
    <3> QED  BY <3>2, <3>3, <3>4, <3>5
  <2>2. TenantOf(s) = {}
    BY <1>3, <2>1 DEF ReserveTenant
  <2>3. job[j].tenant = NoTenant
    BY <2>1, <2>2, Types DEF TBase, Owners, TenantOf
  <2>4. PICK t \in Tenants : /\ t = Least({u \in Tenants : tenant[u].status = "none"})
                             /\ tenant[t].status = "none" /\ t # NoTenant
    BY <2>3, TenantIsFree, Types DEF TBase
  <2>0. PICK w, r, new : /\ w = [NoRow EXCEPT !.status = "provisioning", !.sub = s]
                         /\ r = [job[j] EXCEPT !.tenant = t]
                         /\ new = [thread[Daemon].seen[j] EXCEPT !.tenant = t]
    OBVIOUS
  <2>5. /\ w \in TenantRows /\ w.status = "provisioning" /\ w.sub = s
        /\ w.named = FALSE /\ w.files = FALSE
    BY <2>0, <2>1 DEF NoRow, TenantRows
  <2>6. /\ r \in JobRows /\ r.tenant = t /\ r.sub = job[j].sub /\ r.attempts = job[j].attempts
        /\ r.status = job[j].status /\ r.rollback = job[j].rollback
    BY <2>0, <2>1, <2>4 DEF JobRows
  <2>7. /\ new \in JobRows /\ new.tenant = t /\ new.sub = s /\ new.status = Mine(Daemon).status
        /\ new.rollback = Mine(Daemon).rollback
    <3>1. thread[Daemon].seen[j] = Mine(Daemon)
      BY <2>1 DEF Mine
    <3> QED  BY <2>0, <2>1, <2>4, <3>1 DEF JobRows
  <2>8. job' = [job EXCEPT ![j] = r] /\ tenant' = [tenant EXCEPT ![t] = w]
    BY <1>3, <2>0, <2>1, <2>4 DEF ReserveTenant, TBase, TypeOK
  <2>9. PICK q \in ThreadStates :
          /\ thread' = [thread EXCEPT ![Daemon] = q]
          /\ q.pc = "filestore" /\ q.job = j /\ q.todo = thread[Daemon].todo /\ q.copy = w
          /\ q.seen[j] = new /\ \A i \in Jobs \ {j} : q.seen[i] = thread[Daemon].seen[i]
    <3> DEFINE q == [thread[Daemon] EXCEPT !.pc = "filestore",
                        !.seen = [thread[Daemon].seen EXCEPT ![j] = new], !.copy = w]
    <3>1. /\ q.pc = "filestore" /\ q.job = j /\ q.todo = thread[Daemon].todo /\ q.copy = w
          /\ q.seen[j] = new /\ \A i \in Jobs \ {j} : q.seen[i] = thread[Daemon].seen[i]
      BY <2>1 DEF ThreadStates
    <3>2. thread' = [thread EXCEPT ![Daemon] = q]
      <4>1. thread' = [thread EXCEPT ![Daemon].pc = "filestore",
                           ![Daemon].seen[j].tenant = t, ![Daemon].copy = w]
        BY <1>3, <2>0, <2>1, <2>4 DEF ReserveTenant
      <4> QED  BY <1>1, <2>0, <2>1, <4>1 DEF ThreadStates, TBase, TypeOK
    <3>3. q \in ThreadStates
      <4>1. "filestore" \in Pcs /\ [thread[Daemon].seen EXCEPT ![j] = new] \in [Jobs -> JobRows]
        BY <2>1, <2>7 DEF Pcs, EXECUTE_PCS, ThreadStates
      <4> QED  BY <2>1, <2>5, <4>1 DEF ThreadStates
    <3> HIDE DEF q
    <3> QED  BY <3>1, <3>2, <3>3
  <2>10. /\ job'[j] = r /\ \A i \in Jobs \ {j} : job'[i] = job[i]
         /\ tenant'[t] = w /\ \A u \in Tenants \ {t} : tenant'[u] = tenant[u]
         /\ thread'[Daemon] = q /\ \A y \in Threads \ {Daemon} : thread'[y] = thread[y]
         /\ job' \in [Jobs -> JobRows] /\ tenant' \in [Tenants -> TenantRows]
         /\ thread' \in [Threads -> ThreadStates]
         /\ UNCHANGED <<roles, databases, containers, filestores>>
    BY <1>1, <2>5, <2>6, <2>8, <2>9 DEF TBase, TypeOK, resources
  <2>11. /\ "filestore" \in Reserved /\ "filestore" \in EXECUTE_PCS
         /\ "filestore" \notin ROLLBACK_PCS /\ "filestore" \notin Removing
    BY DEF Reserved, EXECUTE_PCS, ROLLBACK_PCS, Removing
  <2>12. TypeOK'
    BY <1>1, <2>10 DEF TBase, TypeOK
  <2>13. Room'
    <3>1. Inserted' = Inserted
      BY <2>6, <2>10 DEF Inserted
    <3>2. Queueing' \subseteq Queueing
      BY <2>9, <2>10 DEF Queueing, At, Threads
    <3>3. Cardinality(Queueing') <= Cardinality(Queueing) /\ Cardinality(Queueing') \in Nat
      BY <3>2, Countable, FS_Subset, FS_CardinalityType
    <3> QED  BY <3>1, <3>3, Countable, ProvisioningAssumption DEF Room, TBase
  (* The new row is the job's, and no other job's.                          *)
  <2>14. \A i \in Jobs : job[i].tenant # t
    BY <2>4 DEF TBase, Owners
  <2>15. \A i \in Jobs : job[i].tenant \in Tenants \cup {NoTenant}
    BY Types DEF TBase
  <2>16. Owners'
    <3>1. ASSUME NEW i \in Jobs, job'[i].tenant # NoTenant
          PROVE  /\ tenant'[job'[i].tenant].status # "none" /\ tenant'[job'[i].tenant].sub = job'[i].sub
                 /\ \A k \in Jobs : job'[k].tenant = job'[i].tenant => k = i
      <4>1. CASE i = j
        <5>1. job'[j].tenant = t /\ tenant'[t].status # "none" /\ tenant'[t].sub = job'[j].sub
          BY <2>1, <2>5, <2>6, <2>10
        <5>2. \A k \in Jobs \ {j} : job'[k].tenant # t
          BY <2>10, <2>14
        <5> QED  BY <4>1, <5>1, <5>2
      <4>2. CASE i # j
        <5>1. /\ job'[i] = job[i] /\ job[i].tenant \in Tenants \ {t}
              /\ tenant'[job[i].tenant] = tenant[job[i].tenant]
          <6>1. job'[i] = job[i] /\ job[i].tenant # NoTenant
            BY <2>10, <3>1, <4>2
          <6>2. job[i].tenant \in Tenants \ {t}
            BY <2>14, <2>15, <6>1
          <6> QED  BY <2>10, <6>1, <6>2
        <5> QED  BY <2>6, <2>10, <2>14, <3>1, <5>1 DEF TBase, Owners
      <4> QED  BY <4>1, <4>2
    <3>2. ASSUME NEW u \in Tenants, tenant'[u].status # "none"
          PROVE  \E i \in Jobs : job'[i].tenant = u
      <4>1. CASE u = t
        BY <2>6, <2>10, <4>1
      <4>2. CASE u # t
        <5>1. PICK i \in Jobs : job[i].tenant = u
          BY <2>10, <3>2, <4>2 DEF TBase, Owners
        <5>2. u # NoTenant
          BY Types DEF TBase
        <5> QED  BY <2>3, <2>10, <5>1, <5>2
      <4> QED  BY <4>1, <4>2
    <3>3. \A u \in roles' \cup databases' \cup containers' \cup filestores' : tenant'[u].status # "none"
      BY <2>4, <2>10 DEF TBase, TypeOK, Owners
    <3>4. /\ \A i \in Jobs : job'[i].status \notin {"none", "queued"} => job'[i].attempts > 0
          /\ \A i \in Jobs : job'[i].attempts = 0
                => job'[i].tenant = NoTenant /\ job'[i].rollback = "none"
          /\ \A i \in Jobs : job'[i].status = "none" => job'[i].attempts = 0
      BY <2>1, <2>6, <2>10 DEF TBase, Owners, JobRows
    <3> QED  BY <3>1, <3>2, <3>3, <3>4 DEF Owners
  <2>17. ASSUME NEW y \in Threads
         PROVE  Holder(y)'
    <3>1. CASE y = Daemon
      <4>1. /\ thread[Daemon].todo = {} /\ thread[Daemon].seen[j].status \in {"running", "succeeded"}
            /\ \A i \in Jobs \ {j} : thread[Daemon].seen[i].tenant = NoTenant
        BY <1>1, <2>1 DEF Holds
      <4>2. /\ q.job \in Jobs /\ job'[q.job].attempts > 0 /\ q.todo = {}
            /\ q.seen[q.job].sub = job'[q.job].sub
            /\ q.seen[q.job].status \in {"running", "succeeded"}
            /\ \A i \in Jobs \ {q.job} : q.seen[i].tenant = NoTenant
            /\ q.seen[q.job].tenant # NoTenant
            /\ \A i \in Jobs : q.seen[i].tenant \in {NoTenant, job'[i].tenant}
        BY <2>1, <2>4, <2>6, <2>7, <2>9, <2>10, <4>1 DEF Mine
      <4>3. q.pc # "mark" /\ q.pc \notin ROLLBACK_PCS
        BY <2>9, <2>11
      <4>4. Holds(Daemon, q)'
        BY <4>2, <4>3 DEF Holds
      <4> QED  BY <2>10, <3>1, <4>4 DEF Holder
    <3>2. CASE y # Daemon
      <4>1. PICK p : p = thread[y]
        OBVIOUS
      <4>2. Holds(y, p) /\ p.todo \subseteq Jobs
        BY <4>1, Types DEF TBase, Holder
      <4>3. \A i \in Jobs : /\ job'[i].attempts = job[i].attempts /\ job'[i].sub = job[i].sub
                            /\ job[i].tenant # NoTenant => job'[i].tenant = job[i].tenant
        BY <2>3, <2>6, <2>10
      <4>4. Holds(y, p)'
        BY <4>2, <4>3 DEF Holds
      <4> QED  BY <2>10, <3>2, <4>1, <4>4 DEF Holder
    <3> QED  BY <3>1, <3>2
  <2>18. TBase'
    BY <2>12, <2>13, <2>16, <2>17 DEF TBase
  <2> SUFFICES ASSUME TKnow
               PROVE  TKnow'
    BY <2>18
  <2>19. \A y \in Threads \ {Daemon} :
              /\ MyTenant(y)' = MyTenant(y) /\ Mine(y)' = Mine(y) /\ Undoing(y)' = Undoing(y)
              /\ \A i \in Jobs : /\ OnList(y, i)' = OnList(y, i)
                                 /\ Threatens(y, i)' = Threatens(y, i)
                                 /\ Requeues(y, i)' = Requeues(y, i)
    BY <1>1, <2>9, OthersStay
  <2>20. /\ ~Undoing(Daemon)' /\ Mine(Daemon)' = new /\ MyTenant(Daemon)' = t
         /\ \A i \in Jobs : /\ ~OnList(Daemon, i)' /\ ~Threatens(Daemon, i)' /\ ~Requeues(Daemon, i)'
                            /\ Executing(i)' => i = j
         /\ Executing(j)
    BY <1>1, <2>1, <2>7, <2>9, <2>10, <2>11
    DEF Undoing, OnList, Threatens, Requeues, Mine, MyTenant, Executing
  <2>21. \A y \in Threads : ~Threatens(y, j)'
    <3>1. \A y \in Threads : ~Threatens(y, j)
      BY <2>3 DEF TBase, Holder, Holds, Threatens
    <3> QED  BY <2>19, <2>20, <3>1
  <2>22. Undisturbed'
    BY <1>1, <2>1, <2>9, <2>10, <2>21 DEF TKnow, Undisturbed
  <2>23. job[j].status # "succeeded"
    BY <2>3 DEF TKnow, Secure, SucceededIsServed
  <2>24. Secure'
    <3> SUFFICES ASSUME NEW i \in Jobs, job'[i].status = "succeeded"
                 PROVE  /\ job'[i].tenant # NoTenant /\ tenant'[job'[i].tenant].status = "active"
                        /\ job'[i].tenant \in roles' \cap databases' \cap containers' \cap filestores'
                        /\ \A y \in Threads : ~Threatens(y, i)'
      BY DEF Secure, SucceededIsServed
    <3>1. i # j /\ job'[i] = job[i]
      BY <2>6, <2>10, <2>23
    <3>2. job[i].tenant # t
      BY <2>14
    <3> QED  BY <2>10, <2>15, <2>19, <2>20, <3>1, <3>2 DEF TKnow, Secure, SucceededIsServed
  <2>25. Fresh'
    <3> SUFFICES ASSUME NEW i \in Jobs, job'[i].attempts = 1
                 PROVE  /\ Executing(i)' => /\ job'[i].status \in {"running", "succeeded"}
                                           /\ Mine(Daemon)'.tenant = job'[i].tenant
                                           /\ Mine(Daemon)'.rollback # "completed"
                                           /\ \A y \in Threads : ~OnList(y, i)' /\ ~Requeues(y, i)'
                        /\ job'[i].status \in {"running", "succeeded"} => job'[i].rollback # "completed"
                        /\ \A y \in Threads : OnList(y, i)' =>
                             /\ thread'[y].seen[i].tenant = job'[i].tenant
                             /\ i # thread'[y].job \/ thread'[y].pc \in {"mark", "rollback"} =>
                                  thread'[y].seen[i].rollback # "completed"
                             /\ i = thread'[y].job /\ thread'[y].pc # "mark" =>
                                  job'[i].status \notin {"running", "succeeded"}
      BY DEF Fresh
    <3>1. CASE i = j
      <4>1. job[j].attempts = 1
        BY <2>6, <2>10, <3>1
      <4>2. /\ job[j].status \in {"running", "succeeded"} /\ Mine(Daemon).rollback # "completed"
            /\ \A y \in Threads : ~OnList(y, j) /\ ~Requeues(y, j)
            /\ job[j].rollback # "completed"
        BY <2>20, <4>1 DEF TKnow, Fresh
      <4>3. \A y \in Threads : ~OnList(y, j)' /\ ~Requeues(y, j)'
        BY <2>19, <2>20, <4>2
      <4> QED  BY <2>6, <2>7, <2>10, <2>20, <3>1, <4>2, <4>3
    <3>2. CASE i # j
      BY <2>10, <2>19, <2>20, <3>2 DEF TKnow, Fresh
    <3> QED  BY <3>1, <3>2
  <2>26. /\ \A u \in Tenants : tenant[u].status # "none" => tenant'[u] = tenant[u]
         /\ \A i \in Jobs : job'[i].attempts = job[i].attempts
         /\ t \notin roles \cup databases \cup containers \cup filestores
    BY <2>4, <2>6, <2>10 DEF TBase, Owners
  <2>27. Recorded'
    <3>1. \A u \in containers' : tenant'[u].named
      BY <2>10, <2>26 DEF TKnow, Recorded, TBase, TypeOK
    <3>2. thread'[Daemon].pc \notin {"container", "health"}
      BY <2>9, <2>10
    <3>3. thread'[Daemon].copy = tenant'[MyTenant(Daemon)']
      BY <2>9, <2>10, <2>20
    <3> QED  BY <2>9, <2>10, <2>26, <3>1, <3>2, <3>3, OthersKnow DEF Recorded
  <2>28. ASSUME NEW y \in Threads
         PROVE  Gone(y)'
    <3>1. CASE y = Daemon
      BY <2>20, <3>1 DEF Gone
    <3>2. CASE y # Daemon
      BY <2>9, <2>10, <2>26, <3>2, OthersKnow
    <3> QED  BY <3>1, <3>2
  <2>29. FirstRollbackIsClean'
    <3> SUFFICES ASSUME NEW i \in Jobs, job'[i].status = "rolled_back", job'[i].attempts = 1,
                        job'[i].tenant # NoTenant
                 PROVE  NothingLeft(job[i].tenant)'
      BY DEF FirstRollbackIsClean
    <3>1. i # j
      BY <2>6, <2>10, <2>20 DEF TKnow, Fresh
    <3>2. job'[i] = job[i] /\ job[i].tenant \in Tenants \ {t}
      BY <2>10, <2>14, <2>15, <3>1
    <3>3. PICK u \in Tenants : u = job[i].tenant /\ tenant'[u] = tenant[u]
      BY <2>10, <3>2
    <3>4. NothingLeft(u)
      BY <3>2, <3>3 DEF TKnow, FirstRollbackIsClean
    <3> QED  BY <2>10, <3>2, <3>3, <3>4 DEF NothingLeft
  <2> QED  BY <2>22, <2>24, <2>25, <2>27, <2>28, <2>29 DEF TKnow
<1> QED  BY <1>2, <1>3

------------------------------------------------------------------------------
(* The theorems.                                                           *)

(* Nothing is inserted, made or known at first.                             *)
LEMMA Start ==
    ASSUME Init
    PROVE  TBase /\ TKnow
<1>1. /\ \A i \in Jobs : job[i] = NoJob
      /\ \A t \in Tenants : tenant[t] = NoRow
      /\ roles = {} /\ databases = {} /\ containers = {} /\ filestores = {}
      /\ stale = {} /\ crashes = 0
      /\ \A x \in Threads : thread[x] = Idle
      /\ Daemon \in Threads
  BY DEF Init, Threads
<1>2. TypeOK
  BY <1>1, Nothing, ProvisioningAssumption DEF Init, TypeOK
<1>3. Room
  <2>1. Inserted = {}
    BY <1>1, Nothing DEF Inserted
  <2>2. Queueing = {}
    BY <1>1, Nothing DEF Queueing, At, Threads
  <2> QED  BY <2>1, <2>2, FS_EmptySet, ProvisioningAssumption DEF Room
<1>4. Owners
  BY <1>1, Nothing DEF Owners
<1>5. /\ Idle.pc \notin EXECUTE_PCS \cup ROLLBACK_PCS \cup {"requeue"}
      /\ Idle.pc \notin Reserved \cup Removing \cup {"mark", "rollback"}
      /\ \A i \in Jobs : Idle.seen[i].tenant = NoTenant
  BY Nothing DEF EXECUTE_PCS, ROLLBACK_PCS, Reserved, Removing
<1>6. ASSUME NEW x \in Threads
      PROVE  Holder(x) /\ ~Undoing(x) /\ \A i \in Jobs : ~Requeues(x, i) /\ ~Executing(i)
  BY <1>1, <1>5 DEF Holder, Holds, Undoing, Requeues, Executing
<1>7. TBase
  BY <1>2, <1>3, <1>4, <1>6 DEF TBase
<1>8. Undisturbed
  BY <1>1, <1>5 DEF Undisturbed
<1>9. Secure
  BY <1>1, Nothing DEF Secure, SucceededIsServed
<1>10. Fresh
  BY <1>1, Nothing DEF Fresh
<1>11. Recorded
  BY <1>1, <1>5, Nothing DEF Recorded
<1>12. \A x \in Threads : Gone(x)
  BY <1>6 DEF Gone
<1>13. FirstRollbackIsClean
  BY <1>1, Nothing DEF FirstRollbackIsClean
<1> QED  BY <1>7, <1>8, <1>9, <1>10, <1>11, <1>12, <1>13 DEF TKnow

(* Every step keeps types and owners, and, unless an execution gets old,    *)
(* what the threads know.                                                   *)
LEMMA Step ==
    ASSUME TBase, Next
    PROVE  TBase' /\ (~SlowJobs /\ TKnow => TKnow')
<1>1. ASSUME NEW h \in Handlers, Request(h)
      PROVE  TBase' /\ (TKnow => TKnow')
  BY <1>1, QueueCheckStep, RetryCheckStep, OperatorReconcileStep DEF Request
<1>2. ASSUME NEW h \in Handlers, Serve(h)
      PROVE  TBase' /\ (TKnow => TKnow')
  BY <1>2, QueueInsertStep, RetryWriteStep, RollbackStep DEF Serve, Threads
<1>3. ASSUME Execute
      PROVE  TBase' /\ (TKnow => TKnow')
  BY <1>3, FailValidationStep, ReserveTenantStep, PrepareFilestoreStep, RecordFilestoreStep,
     CreateRoleStep, CloneDatabaseStep, AllocatePortStep, RunContainerStep, HealthCheckStep,
     SucceedStep, RecordAuditStep
  DEF Execute
<1>4. ASSUME WorkerStep
      PROVE  TBase' /\ (TKnow => TKnow')
  BY <1>3, <1>4, PollStep, ClaimStep, RollbackStep DEF WorkerStep, Threads
<1>5. ASSUME NEW j \in Jobs, Age(j)
      PROVE  TBase' /\ (~SlowJobs /\ TKnow => TKnow')
  BY <1>5, AgeKeepsBase, AgeStep
<1>6. ASSUME NEW x \in Threads, Crash(x)
      PROVE  TBase' /\ (TKnow => TKnow')
  BY <1>6, CrashStep
<1> QED  BY <1>1, <1>2, <1>4, <1>5, <1>6 DEF Next

(* A step that changes nothing keeps everything.                            *)
LEMMA Stutter ==
    ASSUME TBase, UNCHANGED vars
    PROVE  TBase' /\ (TKnow => TKnow')
<1>1. UNCHANGED <<job, tenant, roles, databases, containers, filestores, stale, thread, crashes>>
  BY DEF vars, tables, resources
<1>2. TypeOK' /\ Room' /\ Owners'
  BY <1>1 DEF TBase, TypeOK, Room, Inserted, Queueing, At, Owners
<1>3. ASSUME NEW y \in Threads
      PROVE  Holder(y)'
  <2>1. Holds(y, thread[y])'
    BY <1>1, OthersHold, KeptUnchanged
  <2> QED  BY <1>1, <2>1 DEF Holder
<1>4. /\ MyTenant(Daemon)' = MyTenant(Daemon)
      /\ \A y \in Threads : /\ thread'[y] = thread[y] /\ MyTenant(y)' = MyTenant(y)
                            /\ Mine(y)' = Mine(y) /\ Undoing(y)' = Undoing(y)
                            /\ \A i \in Jobs : /\ OnList(y, i)' = OnList(y, i)
                                               /\ Requeues(y, i)' = Requeues(y, i)
      /\ \A y, i : Threatens(y, i)' = Threatens(y, i)
      /\ \A i \in Jobs : Executing(i)' = Executing(i)
      /\ \A t : NothingLeft(t)' = NothingLeft(t)
      /\ Daemon \in Threads
  BY <1>1 DEF MyTenant, Mine, Undoing, OnList, Requeues, Threatens, Executing, NothingLeft, Threads
<1>5. TKnow => Undisturbed'
  BY <1>1, <1>4 DEF TKnow, Undisturbed
<1>6. TKnow => Secure'
  BY <1>1, <1>4 DEF TKnow, Secure, SucceededIsServed
<1>7. TKnow => Fresh'
  BY <1>1, <1>4 DEF TKnow, Fresh
<1>8. TKnow => Recorded'
  BY <1>1, <1>4 DEF TKnow, Recorded
<1>9. TKnow => \A y \in Threads : Gone(y)'
  BY <1>1, <1>4 DEF TKnow, Gone
<1>10. TKnow => FirstRollbackIsClean'
  BY <1>1, <1>4 DEF TKnow, FirstRollbackIsClean
<1> QED  BY <1>2, <1>3, <1>5, <1>6, <1>7, <1>8, <1>9, <1>10 DEF TBase, TKnow

(* The state of provisioning stays within its types, whatever the           *)
(* operators, the worker and the crashes do.                                *)
THEOREM TypesAreKept == Spec => []TypeOK
<1>1. Init => TBase
  BY Start
<1>2. TBase /\ [Next]_vars => TBase'
  BY Step, Stutter
<1>3. TBase => TypeOK
  BY DEF TBase
<1> QED  BY <1>1, <1>2, <1>3, PTL DEF Spec

(* Both promises, by what each thread knows.                                *)
LEMMA Knowledge == ~SlowJobs => (Spec => [](TBase /\ TKnow))
<1> SUFFICES ASSUME ~SlowJobs
             PROVE  Spec => [](TBase /\ TKnow)
  OBVIOUS
<1>1. Init => TBase /\ TKnow
  BY Start
<1>2. TBase /\ TKnow /\ [Next]_vars => (TBase /\ TKnow)'
  BY Step, Stutter
<1> QED  BY <1>1, <1>2, PTL DEF Spec

(* A job that succeeded keeps its active tenant with its role, database,    *)
(* container and filestore: no rollback of a stale, retried or crashed job  *)
(* takes them away, if no execution outlasts the stale threshold.           *)
THEOREM SuccessIsKept == ~SlowJobs => (Spec => []SucceededIsServed)
<1>1. TBase /\ TKnow => SucceededIsServed
  BY DEF TKnow, Secure
<1> SUFFICES ASSUME ~SlowJobs
             PROVE  Spec => []SucceededIsServed
  OBVIOUS
<1>2. Spec => [](TBase /\ TKnow)
  BY Knowledge
<1> QED  BY <1>1, <1>2, PTL

(* A job that is reported rolled_back after its first attempt has left no   *)
(* container, database, role or recorded filestore behind, whichever step   *)
(* failed or was interrupted, whoever rolled it back, and although removals *)
(* may be refused, if no execution outlasts the stale threshold.            *)
THEOREM FirstRollbackLeavesNothing == ~SlowJobs => (Spec => []FirstRollbackIsClean)
<1>1. TBase /\ TKnow => FirstRollbackIsClean
  BY DEF TKnow
<1> SUFFICES ASSUME ~SlowJobs
             PROVE  Spec => []FirstRollbackIsClean
  OBVIOUS
<1>2. Spec => [](TBase /\ TKnow)
  BY Knowledge
<1> QED  BY <1>1, <1>2, PTL
==============================================================================
