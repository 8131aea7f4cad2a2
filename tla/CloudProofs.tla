----------------------------- MODULE CloudProofs ------------------------------
(***************************************************************************)
(* Proofs about the three cloud parts that MCCloud checks side by side,    *)
(* for any number of requests, nodes, reservations, workers and operators. *)
(* BInv is inductive for the real build of a paid instance when a lease    *)
(* outlives the work it covers (~Overlap), RInv for the reservations,      *)
(* whichever requests overlap, on every node whose counters no request has *)
(* written from a stale copy, and EInv for the demo clones when one        *)
(* operator runs them (OneOperator).                                       *)
(***************************************************************************)
EXTENDS MCCloud, FiniteSetTheorems, WellFoundedInduction, TLAPS

(* The columns of a provisioning request ...                                *)
CFields == {"status", "claimed_by", "lease", "attempts", "due", "approved", "fingerprint",
            "quote", "tenant", "verified"}

(* ... what a worker remembers ...                                          *)
WFields == {"pc", "stale", "r", "run", "target", "mem", "again"}

(* ... its copy of the row ...                                              *)
MFields == {"status", "tenant", "verified"}

(* ... the columns of an instance ...                                       *)
IFields == {"status", "verified"}

(* ... and the counters that bound the model.                               *)
NFields == {"runs", "crashes", "edits", "faults"}

(* The steps of a worker that has reserved a tenant for its job.            *)
Building == {"database", "files", "container", "verify", "ready"}

(* The steps of a worker that holds a job.                                  *)
AtJob == {"check", "start", "mark", "mark_again", "rollback", "remove", "rows", "close"} \cup Building

(* No worker died and no call failed: what the code alone guarantees.       *)
Clean == crashed = {} /\ count.faults = 0

(* Every row and every worker has its columns.                              *)
BShapes ==
    /\ req = [r \in Build!Requests |-> req[r]] /\ inst = [r \in Build!Requests |-> inst[r]]
    /\ wk = [w \in Workers |-> wk[w]]
    /\ \A r \in Build!Requests : DOMAIN req[r] = CFields /\ DOMAIN inst[r] = IFields
    /\ \A w \in Workers : DOMAIN wk[w] = WFields /\ DOMAIN wk[w].mem = MFields
    /\ DOMAIN count = NFields /\ count.runs \in Nat /\ count.faults \in Nat

(* What a worker relies on: its job is claimed and leased, its copy names   *)
(* the row's tenant, it publishes an instance only once every kind of       *)
(* resource was made, and the jobs it is about to reconcile are nobody's.   *)
WorkerOk(w) ==
    /\ wk[w].r # 0 <=> wk[w].pc \in AtJob
    /\ wk[w].pc \in AtJob =>
         /\ wk[w].r \in Build!Requests
         /\ req[wk[w].r].status \notin {"queued", "absent"} /\ req[wk[w].r].lease # "expired"
         /\ inst[wk[w].r].status # "ready"
    /\ wk[w].pc \in AtJob \ {"check"} => wk[w].mem.tenant = req[wk[w].r].tenant
    /\ wk[w].pc \in {"remove", "rows"} => wk[w].target = req[wk[w].r].tenant
    /\ wk[w].pc \in Building => wk[w].run = req[wk[w].r].tenant /\ wk[w].run # 0
    /\ wk[w].pc = "ready" => Build!Kinds \X {wk[w].run} \subseteq made
    /\ wk[w].pc = "reconcile" => \A s \in Build!Requests : s \in wk[w].stale =>
         /\ req[s].status = "provisioning" /\ req[s].lease = "expired"
         /\ \A v \in Workers : wk[v].r # s

(* While nothing went wrong outside the code, a worker's job names a tenant *)
(* only from the reservation to the end of the rollback, and the rows are   *)
(* deleted after the resources.                                             *)
WorkerTidy(w) ==
    /\ Clean /\ wk[w].pc \in AtJob /\ req[wk[w].r].tenant # 0 =>
         /\ wk[w].run = req[wk[w].r].tenant
         /\ wk[w].pc \notin {"check", "start", "mark_again", "close"}
    /\ Clean /\ wk[w].pc = "rows" => \A x \in made : x[2] # wk[w].target

(* What a row says of its tenant: an open instance belongs to a ready job   *)
(* that nobody works on, with its tenant and every resource in place; and a *)
(* row that is nobody's names a tenant only when it is ready.               *)
RequestOk(r) ==
    /\ req[r].tenant \in 0 .. count.runs
    /\ inst[r].status = "ready" =>
         /\ req[r].status = "ready" /\ \A w \in Workers : wk[w].r # r
         /\ req[r].tenant # 0 /\ req[r].tenant \in tenants
         /\ Build!Kinds \X {req[r].tenant} \subseteq made
    /\ Clean /\ req[r].tenant # 0 /\ (\A w \in Workers : wk[w].r # r) => req[r].status = "ready"

(* Resources belong to tenants that were numbered, and, while nothing went  *)
(* wrong outside the code, to one that some row still names.                *)
MadeOk ==
    /\ made \subseteq Build!Kinds \X (1 .. count.runs)
    /\ Clean => \A x \in made : \E r \in Build!Requests : req[r].tenant = x[2]

(* The inductive invariant of the builds.                                   *)
BInv ==
    /\ BShapes /\ MadeOk
    /\ \A w \in Workers : WorkerOk(w) /\ WorkerTidy(w)
    /\ \A r \in Build!Requests : RequestOk(r)
    /\ \A r, s \in Build!Requests : r # s /\ req[r].tenant # 0 => req[r].tenant # req[s].tenant
    /\ \A v, w \in Workers :
         v # w => /\ wk[v].pc \in AtJob => wk[v].r # wk[w].r
                  /\ ~(wk[v].pc = "reconcile" /\ wk[w].pc = "reconcile")

(* A step of the worker on its own job keeps BInv when it keeps what        *)
(* concerns that job and worker: no other worker is on the job, and no      *)
(* other row names its tenant.                                              *)
LEMMA JobActs ==
    ASSUME BInv, NEW w \in Workers, wk[w].pc \in AtJob,
           NEW new, DOMAIN new = CFields, req' = [req EXCEPT ![wk[w].r] = new],
           NEW q, DOMAIN q = WFields, DOMAIN q.mem = MFields, wk' = [wk EXCEPT ![w] = q],
           q.r \in {0, wk[w].r}, q.pc # "reconcile",
           NEW i, DOMAIN i = IFields, inst' = [inst EXCEPT ![wk[w].r] = i],
           DOMAIN count' = NFields, count'.runs \in Nat, count'.faults \in Nat,
           count.runs <= count'.runs, Clean' => Clean,
           new.tenant \in {0, req[wk[w].r].tenant} \/ new.tenant > count.runs,
           \A s \in Build!Requests \ {wk[w].r} :
              req[s].tenant # 0 /\ req[s].tenant \in tenants => req[s].tenant \in tenants',
           \A x \in made : x \in made' \/ x[2] = req[wk[w].r].tenant,
           \A x \in made' : x \in made \/ (x \in Build!Kinds \X {new.tenant} /\ new.tenant # 0),
           Clean' => \A x \in made' : x[2] = req[wk[w].r].tenant => x[2] = new.tenant,
           WorkerOk(w)', WorkerTidy(w)',
           NEW r, r = wk[w].r, RequestOk(r)'
    PROVE  BInv'
<1>1. /\ r \in Build!Requests /\ WorkerOk(w)
      /\ \A v \in Workers \ {w} : wk[v].r # r
      /\ \A v \in Workers : WorkerOk(v) /\ WorkerTidy(v)
      /\ \A s \in Build!Requests : RequestOk(s)
  BY DEF BInv, WorkerOk
<1>2. /\ req = [s \in Build!Requests |-> req[s]] /\ inst = [s \in Build!Requests |-> inst[s]]
      /\ wk = [v \in Workers |-> wk[v]]
  BY DEF BInv, BShapes
<1>3. /\ req'[r] = new /\ inst'[r] = i /\ wk'[w] = q
      /\ \A s \in Build!Requests \ {r} : req'[s] = req[s] /\ inst'[s] = inst[s]
      /\ \A v \in Workers \ {w} : wk'[v] = wk[v]
      /\ req' = [s \in Build!Requests |-> req'[s]] /\ inst' = [s \in Build!Requests |-> inst'[s]]
      /\ wk' = [v \in Workers |-> wk'[v]]
  BY <1>1, <1>2
<1>4. BShapes'
  BY <1>3 DEF BInv, BShapes
<1>5. \A s, t \in Build!Requests : s # t /\ req[s].tenant # 0 => req[s].tenant # req[t].tenant
  BY DEF BInv
<1>6. made \subseteq Build!Kinds \X (1 .. count.runs) /\ count.runs \in Nat
  BY DEF BInv, BShapes, MadeOk
<1>7. \A s \in Build!Requests : req[s].tenant \in 0 .. count.runs
  BY <1>1 DEF RequestOk
<1>8. new.tenant \in 0 .. count'.runs
  BY <1>3 DEF RequestOk
<1>9. \A s \in Build!Requests \ {r} : req[s].tenant # 0 => req[s].tenant # new.tenant
  BY <1>1, <1>5, <1>6, <1>7
<1>10. \A s, t \in Build!Requests : s # t /\ req'[s].tenant # 0 => req'[s].tenant # req'[t].tenant
  BY <1>3, <1>5, <1>9
<1>11. MadeOk'
  <2>1. made' \subseteq Build!Kinds \X (1 .. count'.runs)
    <3> SUFFICES ASSUME NEW x \in made'
                 PROVE  x \in Build!Kinds \X (1 .. count'.runs)
      OBVIOUS
    <3>1. CASE x \in made
      <4>1. x \in Build!Kinds \X (1 .. count.runs)
        BY <1>6, <3>1
      <4>2. 1 .. count.runs \subseteq 1 .. count'.runs
        BY <1>6
      <4> QED  BY <4>1, <4>2
    <3>2. CASE x \in Build!Kinds \X {new.tenant} /\ new.tenant # 0
      <4>1. new.tenant \in 1 .. count'.runs
        BY <1>8, <3>2
      <4> QED  BY <3>2, <4>1
    <3> QED  BY <3>1, <3>2
  <2>2. ASSUME Clean', NEW x \in made'
        PROVE  \E s \in Build!Requests : req'[s].tenant = x[2]
    <3>1. CASE x[2] = new.tenant
      BY <1>1, <1>3, <3>1
    <3>2. CASE x[2] # new.tenant
      <4>1. x \in made /\ x[2] # req[r].tenant /\ Clean
        BY <1>1, <2>2, <3>2
      <4>2. PICK s \in Build!Requests : req[s].tenant = x[2]
        BY <4>1 DEF BInv, MadeOk
      <4> QED  BY <1>3, <4>1, <4>2
    <3> QED  BY <3>1, <3>2
  <2> QED  BY <2>1, <2>2 DEF MadeOk
<1>12. ASSUME NEW v \in Workers \ {w}
       PROVE  WorkerOk(v)' /\ WorkerTidy(v)'
  <2>1. WorkerOk(v) /\ WorkerTidy(v) /\ wk'[v] = wk[v] /\ wk[v].r # r
    BY <1>1, <1>3
  <2>2. wk[v].pc \in AtJob => wk[v].r \in Build!Requests \ {r}
    BY <2>1 DEF WorkerOk
  <2>3. wk[v].pc \in AtJob => req'[wk[v].r] = req[wk[v].r] /\ inst'[wk[v].r] = inst[wk[v].r]
    BY <1>3, <2>2
  <2>4. wk[v].pc = "ready" => Build!Kinds \X {wk[v].run} \subseteq made'
    <3> SUFFICES ASSUME wk[v].pc = "ready", NEW x \in Build!Kinds \X {wk[v].run}
                 PROVE  x \in made'
      OBVIOUS
    <3>1. x \in made /\ wk[v].run = req[wk[v].r].tenant /\ wk[v].run # 0
      BY <2>1 DEF WorkerOk, Building
    <3>2. wk[v].r \in Build!Requests \ {r}
      BY <2>2 DEF AtJob, Building
    <3>3. x[2] # req[r].tenant
      BY <1>1, <1>5, <3>1, <3>2
    <3> QED  BY <1>1, <3>1, <3>3
  <2>5. ASSUME wk[v].pc = "reconcile", NEW s \in Build!Requests, s \in wk[v].stale
        PROVE  /\ req'[s].status = "provisioning" /\ req'[s].lease = "expired"
               /\ \A u \in Workers : wk'[u].r # s
    <3>1. /\ req[s].status = "provisioning" /\ req[s].lease = "expired"
          /\ \A u \in Workers : wk[u].r # s
      BY <2>1, <2>5 DEF WorkerOk
    <3>2. s # r /\ s # 0
      BY <1>1, <3>1 DEF Build!Requests
    <3> QED  BY <1>1, <1>3, <3>1, <3>2
  <2>6. WorkerOk(v)'
    BY <2>1, <2>2, <2>3, <2>4, <2>5 DEF WorkerOk, AtJob, Building
  <2>7. WorkerTidy(v)'
    <3>1. ASSUME Clean', wk[v].pc = "rows", NEW x \in made'
          PROVE  x[2] # wk[v].target
      <4>1. wk[v].target = req[wk[v].r].tenant /\ wk[v].r \in Build!Requests \ {r}
        BY <2>1, <2>2, <3>1 DEF WorkerOk, AtJob
      <4>2. CASE x \in made
        BY <2>1, <3>1, <4>2 DEF WorkerTidy
      <4>3. CASE x \in Build!Kinds \X {new.tenant} /\ new.tenant # 0
        <5>1. x[2] = new.tenant
          BY <4>3
        <5> QED  BY <1>9, <4>1, <4>3, <5>1
      <4> QED  BY <4>2, <4>3
    <3>2. ASSUME Clean', wk[v].pc \in AtJob, req'[wk[v].r].tenant # 0
          PROVE  /\ wk[v].run = req'[wk[v].r].tenant
                 /\ wk[v].pc \notin {"check", "start", "mark_again", "close"}
      BY <2>1, <2>3, <3>2 DEF WorkerTidy
    <3> QED  BY <2>1, <3>1, <3>2 DEF WorkerTidy
  <2> QED  BY <2>6, <2>7
<1>13. ASSUME NEW s \in Build!Requests \ {r}
       PROVE  RequestOk(s)'
  <2>1. RequestOk(s) /\ req'[s] = req[s] /\ inst'[s] = inst[s] /\ s # 0
    BY <1>1, <1>3 DEF Build!Requests
  <2>2. (\A v \in Workers : wk'[v].r # s) <=> (\A v \in Workers : wk[v].r # s)
    BY <1>1, <1>3, <2>1
  <2>3. req[s].tenant \in 0 .. count'.runs
    BY <1>6, <1>7
  <2>4. req[s].tenant # 0 /\ Build!Kinds \X {req[s].tenant} \subseteq made =>
            Build!Kinds \X {req[s].tenant} \subseteq made'
    <3> SUFFICES ASSUME req[s].tenant # 0, NEW x \in Build!Kinds \X {req[s].tenant}, x \in made
                 PROVE  x \in made'
      OBVIOUS
    <3>1. x[2] # req[r].tenant
      BY <1>1, <1>5
    <3> QED  BY <1>1, <3>1
  <2>5. req[s].tenant # 0 /\ req[s].tenant \in tenants => req[s].tenant \in tenants'
    BY <1>1
  <2> QED  BY <2>1, <2>2, <2>3, <2>4, <2>5 DEF RequestOk
<1>14. \A v \in Workers : WorkerOk(v)' /\ WorkerTidy(v)'
  BY <1>12
<1>15. \A s \in Build!Requests : RequestOk(s)'
  BY <1>13
<1>16. ASSUME NEW u \in Workers, NEW v \in Workers, u # v
       PROVE  /\ wk'[u].pc \in AtJob => wk'[u].r # wk'[v].r
              /\ ~(wk'[u].pc = "reconcile" /\ wk'[v].pc = "reconcile")
  <2>1. /\ wk[u].pc \in AtJob => wk[u].r # wk[v].r
        /\ ~(wk[u].pc = "reconcile" /\ wk[v].pc = "reconcile")
    BY <1>16 DEF BInv
  <2>2. wk'[u].pc \in AtJob => wk'[u].r # 0
    BY <1>14 DEF WorkerOk
  <2>3. wk'[u].pc \in AtJob => wk'[u].r # wk'[v].r
    BY <1>1, <1>3, <1>16, <2>1, <2>2
  <2> QED  BY <1>3, <1>16, <2>1, <2>3
<1> QED  BY <1>4, <1>10, <1>11, <1>14, <1>15, <1>16 DEF BInv

(* A step of a page or an operator that changes one row keeps BInv when it  *)
(* leaves the tenant, and the state of a row that a worker is on.           *)
LEMMA RowActs ==
    ASSUME BInv, NEW r \in Build!Requests, NEW new, DOMAIN new = CFields,
           req' = [req EXCEPT ![r] = new],
           UNCHANGED <<tenants, made, wk, crashed>>,
           NEW i, DOMAIN i = IFields, inst' = [inst EXCEPT ![r] = i],
           i.status # "ready" \/ i = inst[r],
           DOMAIN count' = NFields, count'.runs = count.runs, count'.faults = count.faults,
           new.tenant = req[r].tenant,
           \/ /\ new.status = req[r].status
              /\ new.lease = req[r].lease \/ (req[r].lease = "live" /\ \A w \in Workers : wk[w].r # r)
           \/ /\ req[r].status \in {"absent", "failed"} /\ \A w \in Workers : wk[w].r # r
    PROVE  BInv'
<1>1. /\ req = [s \in Build!Requests |-> req[s]] /\ inst = [s \in Build!Requests |-> inst[s]]
      /\ count.faults \in Nat /\ count.runs \in Nat
  BY DEF BInv, BShapes
<1>2. /\ req'[r] = new /\ inst'[r] = i
      /\ \A s \in Build!Requests \ {r} : req'[s] = req[s] /\ inst'[s] = inst[s]
      /\ req' = [s \in Build!Requests |-> req'[s]] /\ inst' = [s \in Build!Requests |-> inst'[s]]
  BY <1>1
<1>3. BShapes'
  BY <1>2 DEF BInv, BShapes
<1>4. Clean' = Clean
  BY DEF Clean
<1>5. \A s \in Build!Requests : req'[s].tenant = req[s].tenant
  BY <1>2
<1>6. MadeOk'
  BY <1>4, <1>5 DEF BInv, MadeOk
<1>7. ASSUME NEW w \in Workers
      PROVE  WorkerOk(w)' /\ WorkerTidy(w)'
  <2>1. WorkerOk(w) /\ WorkerTidy(w)
    BY DEF BInv
  <2>2. wk[w].pc \in AtJob =>
          /\ req'[wk[w].r].status \notin {"queued", "absent"} /\ req'[wk[w].r].lease # "expired"
          /\ inst'[wk[w].r].status # "ready" /\ req'[wk[w].r].tenant = req[wk[w].r].tenant
    BY <1>2, <1>5, <2>1 DEF WorkerOk
  <2>3. ASSUME wk[w].pc = "reconcile", NEW s \in Build!Requests, s \in wk[w].stale
        PROVE  req'[s].status = "provisioning" /\ req'[s].lease = "expired"
    BY <1>2, <2>1, <2>3 DEF WorkerOk
  <2>4. WorkerOk(w)'
    BY <2>1, <2>2, <2>3 DEF WorkerOk, AtJob, Building
  <2>5. WorkerTidy(w)'
    BY <1>4, <2>1, <2>2 DEF WorkerTidy
  <2> QED  BY <2>4, <2>5
<1>8. ASSUME NEW s \in Build!Requests
      PROVE  RequestOk(s)'
  <2>1. RequestOk(s)
    BY DEF BInv
  <2>2. CASE s # r
    BY <1>2, <1>4, <2>1, <2>2 DEF RequestOk
  <2>3. CASE s = r
    BY <1>2, <1>4, <2>1, <2>3 DEF RequestOk
  <2> QED  BY <2>2, <2>3
<1> QED  BY <1>3, <1>5, <1>6, <1>7, <1>8 DEF BInv

(* BInv depends on the builds' variables only.                              *)
LEMMA BuildStutter ==
    ASSUME BInv, UNCHANGED <<req, inst, tenants, made, wk, crashed>>,
           DOMAIN count' = NFields, count'.runs = count.runs, count'.faults = count.faults
    PROVE  BInv'
BY DEF BInv, BShapes, WorkerOk, WorkerTidy, RequestOk, MadeOk, Clean

(* What BInv says of one row.                                               *)
LEMMA RequestRow ==
    ASSUME BInv, NEW r \in Build!Requests
    PROVE  /\ DOMAIN req[r] = CFields /\ DOMAIN inst[r] = IFields
           /\ req = [s \in Build!Requests |-> req[s]] /\ inst = [s \in Build!Requests |-> inst[s]]
           /\ inst = [inst EXCEPT ![r] = inst[r]] /\ RequestOk(r)
           /\ DOMAIN count = NFields
<1>1. inst = [s \in Build!Requests |-> inst[s]]
  BY DEF BInv, BShapes
<1>2. inst = [inst EXCEPT ![r] = inst[r]]
  BY <1>1
<1> QED  BY <1>1, <1>2 DEF BInv, BShapes

(* RowActs, for a step that leaves the instance alone.                      *)
LEMMA RowAlone ==
    ASSUME BInv, NEW r \in Build!Requests, NEW new, DOMAIN new = CFields,
           req' = [req EXCEPT ![r] = new], UNCHANGED <<inst, tenants, made, wk, crashed, count>>,
           new.tenant = req[r].tenant,
           \/ /\ new.status = req[r].status
              /\ new.lease = req[r].lease \/ (req[r].lease = "live" /\ \A w \in Workers : wk[w].r # r)
           \/ /\ req[r].status \in {"absent", "failed"} /\ \A w \in Workers : wk[w].r # r
    PROVE  BInv'
<1>1. inst' = [inst EXCEPT ![r] = inst[r]] /\ DOMAIN inst[r] = IFields
  BY RequestRow
<1>2. DOMAIN count' = NFields /\ count'.runs = count.runs /\ count'.faults = count.faults
  BY RequestRow
<1> QED  BY <1>1, <1>2, RowActs

(* The approvals and their revocations write no column a worker's step      *)
(* rests on.                                                                *)
LEMMA ApprovalStep ==
    ASSUME BInv, NEW r \in Build!Requests,
           \/ Build!approve_cloud_request_quote(r) \/ Build!revoke_cloud_request_quote(r)
           \/ Build!approve_cloud_request_for_real_provisioning(r)
           \/ Build!revoke_cloud_provisioning_approval(r)
    PROVE  BInv'
<1>0. DOMAIN req[r] = CFields /\ r \in DOMAIN req
  BY RequestRow
<1>1. UNCHANGED <<inst, tenants, made, wk, crashed, count>>
  BY DEF Build!approve_cloud_request_quote, Build!revoke_cloud_request_quote,
         Build!approve_cloud_request_for_real_provisioning,
         Build!revoke_cloud_provisioning_approval
<1>2. CASE Build!approve_cloud_request_quote(r)
  <2> DEFINE new == [req[r] EXCEPT !.quote = TRUE]
  <2>1. req' = [req EXCEPT ![r] = new]
    BY <1>2 DEF Build!approve_cloud_request_quote
  <2>2. /\ DOMAIN new = CFields /\ new.tenant = req[r].tenant /\ new.status = req[r].status
        /\ new.lease = req[r].lease
    BY <1>0 DEF CFields
  <2> HIDE DEF new
  <2> QED  BY <1>1, <2>1, <2>2, RowAlone
<1>3. CASE Build!revoke_cloud_request_quote(r)
  <2> DEFINE f == IF req[r].approved THEN Build!Unset ELSE req[r].fingerprint
             new == [req[r] EXCEPT !.quote = FALSE, !.approved = FALSE, !.fingerprint = f]
  <2>1. req' = [req EXCEPT ![r].quote = FALSE, ![r].approved = FALSE, ![r].fingerprint = f]
    BY <1>0, <1>3 DEF Build!revoke_cloud_request_quote, CFields
  <2> HIDE DEF f
  <2>2. req' = [req EXCEPT ![r] = new]
    BY <1>0, <2>1
  <2>3. /\ DOMAIN new = CFields /\ new.tenant = req[r].tenant /\ new.status = req[r].status
        /\ new.lease = req[r].lease
    BY <1>0 DEF CFields
  <2> HIDE DEF new
  <2> QED  BY <1>1, <2>2, <2>3, RowAlone
<1>4. CASE Build!approve_cloud_request_for_real_provisioning(r)
  <2> DEFINE f == Build!_compute_approval_fingerprint(r)
             new == [req[r] EXCEPT !.approved = TRUE, !.fingerprint = f]
  <2>1. req' = [req EXCEPT ![r].approved = TRUE, ![r].fingerprint = f]
    BY <1>4 DEF Build!approve_cloud_request_for_real_provisioning
  <2> HIDE DEF f
  <2>2. req' = [req EXCEPT ![r] = new]
    BY <1>0, <2>1
  <2>3. /\ DOMAIN new = CFields /\ new.tenant = req[r].tenant /\ new.status = req[r].status
        /\ new.lease = req[r].lease
    BY <1>0 DEF CFields
  <2> HIDE DEF new
  <2> QED  BY <1>1, <2>2, <2>3, RowAlone
<1>5. CASE Build!revoke_cloud_provisioning_approval(r)
  <2> DEFINE new == [req[r] EXCEPT !.approved = FALSE, !.fingerprint = Build!Unset]
  <2>1. req' = [req EXCEPT ![r] = new]
    BY <1>0, <1>5 DEF Build!revoke_cloud_provisioning_approval
  <2>2. /\ DOMAIN new = CFields /\ new.tenant = req[r].tenant /\ new.status = req[r].status
        /\ new.lease = req[r].lease
    BY <1>0 DEF CFields
  <2> HIDE DEF new
  <2> QED  BY <1>1, <2>1, <2>2, RowAlone
<1> QED  BY <1>2, <1>3, <1>4, <1>5

(* A new job, a retry, an edit, a lease or a back-off that runs out: a      *)
(* lease runs out only under no worker.                                     *)
LEMMA OperatorStep ==
    ASSUME BInv, ~Overlap, NEW r \in Build!Requests,
           \/ Build!create_real_eligible_cloud_request(r) \/ Build!retry_failed_cloud_job(r)
           \/ Build!EditInputs(r) \/ Build!ExpireLease(r) \/ Build!BackoffOver(r)
    PROVE  BInv'
<1>0. /\ DOMAIN req[r] = CFields /\ DOMAIN inst[r] = IFields /\ r \in DOMAIN req
      /\ r \in DOMAIN inst
  BY RequestRow
<1>1. CASE Build!create_real_eligible_cloud_request(r)
  <2> DEFINE new == [req[r] EXCEPT !.status = "queued"]
             i == [inst[r] EXCEPT !.status = "queued"]
  <2>1. /\ req[r].status = "absent" /\ req' = [req EXCEPT ![r] = new]
        /\ inst' = [inst EXCEPT ![r] = i] /\ UNCHANGED <<tenants, made, wk, crashed, count>>
    BY <1>1 DEF Build!create_real_eligible_cloud_request, Build!_ensure_instance
  <2>2. DOMAIN new = CFields /\ new.tenant = req[r].tenant /\ DOMAIN i = IFields /\ i.status = "queued"
    BY <1>0 DEF CFields, IFields
  <2>3. \A w \in Workers : wk[w].r # r
    BY <2>1 DEF BInv, WorkerOk, Build!Requests
  <2> HIDE DEF new, i
  <2> QED  BY <2>1, <2>2, <2>3, RequestRow, RowActs
<1>2. CASE Build!retry_failed_cloud_job(r)
  <2> DEFINE new == [req[r] EXCEPT !.status = "queued", !.claimed_by = Build!Nobody,
                                   !.lease = "none", !.due = "now"]
  <2>1. req[r].status = "failed" /\ UNCHANGED <<inst, tenants, made, wk, crashed, count>>
    BY <1>2 DEF Build!retry_failed_cloud_job
  <2>2. req' = [req EXCEPT ![r] = new]
    BY <1>0, <1>2 DEF Build!retry_failed_cloud_job
  <2>3. \A w \in Workers : wk[w].r # r
    BY <1>2 DEF Build!retry_failed_cloud_job, Build!AtWork
  <2>4. DOMAIN new = CFields /\ new.tenant = req[r].tenant
    BY <1>0 DEF CFields
  <2> HIDE DEF new
  <2> QED  BY <2>1, <2>2, <2>3, <2>4, RowAlone
<1>3. CASE Build!EditInputs(r)
  <2>1. /\ UNCHANGED <<req, inst, tenants, made, wk, crashed>>
        /\ count' = [count EXCEPT !.edits = @ + 1]
    BY <1>3 DEF Build!EditInputs
  <2>2. DOMAIN count' = NFields /\ count'.runs = count.runs /\ count'.faults = count.faults
    BY <2>1, RequestRow DEF NFields
  <2> QED  BY <2>1, <2>2, BuildStutter
<1>4. CASE Build!ExpireLease(r)
  <2> DEFINE new == [req[r] EXCEPT !.lease = "expired"]
  <2>1. /\ req[r].lease = "live" /\ UNCHANGED <<inst, tenants, made, wk, crashed, count>>
        /\ req' = [req EXCEPT ![r] = new]
    BY <1>4 DEF Build!ExpireLease
  <2>2. \A w \in Workers : wk[w].r # r
    BY <1>4 DEF Build!ExpireLease, Build!AtWork
  <2>3. DOMAIN new = CFields /\ new.tenant = req[r].tenant /\ new.status = req[r].status
    BY <1>0 DEF CFields
  <2> HIDE DEF new
  <2> QED  BY <2>1, <2>2, <2>3, RowAlone
<1>5. CASE Build!BackoffOver(r)
  <2> DEFINE new == [req[r] EXCEPT !.due = "now"]
  <2>1. /\ UNCHANGED <<inst, tenants, made, wk, crashed, count>> /\ req' = [req EXCEPT ![r] = new]
    BY <1>5 DEF Build!BackoffOver
  <2>2. /\ DOMAIN new = CFields /\ new.tenant = req[r].tenant /\ new.status = req[r].status
        /\ new.lease = req[r].lease
    BY <1>0 DEF CFields
  <2> HIDE DEF new
  <2> QED  BY <2>1, <2>2, RowAlone
<1> QED  BY <1>1, <1>2, <1>3, <1>4, <1>5

(* The template is no part of BInv.                                         *)
LEMMA TemplateStep ==
    ASSUME BInv, Build!ensure_cloud_template_validated \/ Build!LoseTemplate
    PROVE  BInv'
<1>1. /\ UNCHANGED <<req, inst, tenants, made, wk, crashed>>
      /\ count' = count \/ count' = [count EXCEPT !.edits = @ + 1]
  BY DEF Build!ensure_cloud_template_validated, Build!LoseTemplate
<1>2. DOMAIN count = NFields
  BY DEF BInv, BShapes
<1>3. DOMAIN count' = NFields /\ count'.runs = count.runs /\ count'.faults = count.faults
  BY <1>1, <1>2 DEF NFields
<1> QED  BY <1>1, <1>3, BuildStutter

(* What BInv says of one worker.                                            *)
LEMMA WorkerRecord ==
    ASSUME BInv, NEW w \in Workers
    PROVE  /\ DOMAIN wk[w] = WFields /\ DOMAIN wk[w].mem = MFields /\ w \in DOMAIN wk
           /\ wk = [v \in Workers |-> wk[v]] /\ WorkerOk(w) /\ WorkerTidy(w)
           /\ DOMAIN Build!Idle = WFields /\ DOMAIN Build!Idle.mem = MFields
           /\ Build!Idle.r = 0 /\ Build!Idle.pc = "idle"
<1>1. /\ DOMAIN Build!Idle = WFields /\ DOMAIN Build!Idle.mem = MFields
      /\ Build!Idle.r = 0 /\ Build!Idle.pc = "idle"
  BY DEF Build!Idle, WFields, MFields
<1> QED  BY <1>1 DEF BInv, BShapes

(* A step that takes a worker off every job keeps BInv.                     *)
LEMMA WorkerAway ==
    ASSUME BInv, NEW w \in Workers,
           NEW q, DOMAIN q = WFields, DOMAIN q.mem = MFields, wk' = [wk EXCEPT ![w] = q],
           q.r = 0, q.pc \notin AtJob, UNCHANGED <<req, inst, tenants, made>>,
           DOMAIN count' = NFields, count'.runs = count.runs, count'.faults = count.faults,
           Clean' => Clean /\ wk[w].r = 0,
           q.pc = "reconcile" => \A v \in Workers \ {w} : wk[v].pc # "reconcile",
           q.pc = "reconcile" => \A s \in Build!Requests : s \in q.stale =>
               req[s].status = "provisioning" /\ req[s].lease = "expired"
    PROVE  BInv'
<1>1. /\ wk = [v \in Workers |-> wk[v]] /\ count.runs \in Nat /\ count.faults \in Nat
      /\ \A v \in Workers : WorkerOk(v) /\ WorkerTidy(v)
  BY DEF BInv, BShapes
<1>2. /\ wk'[w] = q /\ \A v \in Workers \ {w} : wk'[v] = wk[v]
      /\ wk' = [v \in Workers |-> wk'[v]]
  BY <1>1
<1>3. BShapes' /\ MadeOk'
  BY <1>1, <1>2 DEF BInv, BShapes, MadeOk
<1>4. \A s \in Build!Requests : s # 0 /\ (req[s].lease = "expired" => \A v \in Workers : wk[v].r # s)
  BY <1>1 DEF WorkerOk, Build!Requests
<1>5. WorkerOk(w)' /\ WorkerTidy(w)'
  <2>1. q.pc = "reconcile" => \A s \in Build!Requests : s \in q.stale =>
          /\ req[s].status = "provisioning" /\ req[s].lease = "expired"
          /\ \A v \in Workers : wk'[v].r # s
    BY <1>2, <1>4
  <2>2. WorkerOk(w)'
    BY <1>2, <2>1 DEF WorkerOk, AtJob, Building
  <2>3. WorkerTidy(w)'
    BY <1>2 DEF WorkerTidy, AtJob
  <2> QED  BY <2>2, <2>3
<1>6. ASSUME NEW v \in Workers \ {w}
      PROVE  WorkerOk(v)' /\ WorkerTidy(v)'
  <2>1. wk'[v] = wk[v] /\ WorkerOk(v) /\ WorkerTidy(v)
    BY <1>1, <1>2
  <2>2. wk[v].pc = "reconcile" => \A s \in Build!Requests : s \in wk[v].stale =>
          \A u \in Workers : wk'[u].r # s
    BY <1>2, <1>4, <2>1 DEF WorkerOk
  <2>3. WorkerOk(v)'
    BY <2>1, <2>2 DEF WorkerOk
  <2>4. WorkerTidy(v)'
    BY <2>1 DEF WorkerTidy
  <2> QED  BY <2>3, <2>4
<1>7. ASSUME NEW s \in Build!Requests
      PROVE  RequestOk(s)'
  <2>1. RequestOk(s) /\ s # 0
    BY <1>4 DEF BInv
  <2>2. (\A v \in Workers : wk[v].r # s) => \A v \in Workers : wk'[v].r # s
    BY <1>2, <2>1
  <2>3. Clean' /\ (\A v \in Workers : wk'[v].r # s) => \A v \in Workers : wk[v].r # s
    BY <1>2, <2>1
  <2> QED  BY <2>1, <2>2, <2>3 DEF RequestOk
<1>8. ASSUME NEW u \in Workers, NEW v \in Workers, u # v
      PROVE  /\ wk'[u].pc \in AtJob => wk'[u].r # wk'[v].r
             /\ ~(wk'[u].pc = "reconcile" /\ wk'[v].pc = "reconcile")
  <2>1. /\ wk[u].pc \in AtJob => wk[u].r # wk[v].r /\ wk[u].r # 0
        /\ ~(wk[u].pc = "reconcile" /\ wk[v].pc = "reconcile")
    BY <1>1, <1>8 DEF BInv, WorkerOk
  <2> QED  BY <1>2, <1>8, <2>1
<1> QED  BY <1>3, <1>5, <1>6, <1>7, <1>8 DEF BInv

(* A poll reads the stale jobs, none of which is a worker's.                *)
LEMMA PollSteps ==
    ASSUME BInv, ~Overlap, NEW w \in Workers, Build!ReconcileRead(w) \/ Build!NothingToClaim(w)
    PROVE  BInv'
<1>0. UNCHANGED <<req, inst, tenants, made, count, crashed>> /\ (Clean' => Clean)
  BY DEF Build!ReconcileRead, Build!NothingToClaim, Clean
<1>1. CASE Build!ReconcileRead(w)
  <2> DEFINE S == {r \in Build!Requests : Build!Stale(r)}
             q == [wk[w] EXCEPT !.pc = "reconcile", !.stale = S]
  <2>1. wk[w].pc = "idle" /\ \A v \in Workers : wk[v].pc # "reconcile"
    BY <1>1 DEF Build!ReconcileRead
  <2>2. \A s \in Build!Requests : s \in S => req[s].status = "provisioning" /\ req[s].lease = "expired"
    BY DEF Build!Stale
  <2>3. wk' = [wk EXCEPT ![w].pc = "reconcile", ![w].stale = S]
    BY <1>1 DEF Build!ReconcileRead
  <2> HIDE DEF S
  <2>4. wk' = [wk EXCEPT ![w] = q]
    BY <2>3, WorkerRecord
  <2>5. /\ DOMAIN q = WFields /\ DOMAIN q.mem = MFields /\ q.pc = "reconcile" /\ q.stale = S
        /\ q.r = wk[w].r
    BY WorkerRecord DEF WFields
  <2>6. wk[w].r = 0 /\ q.pc \notin AtJob
    BY <2>1, <2>5, WorkerRecord DEF WorkerOk, AtJob, Building
  <2> HIDE DEF q
  <2>7. DOMAIN count' = NFields
    BY <1>0 DEF BInv, BShapes
  <2> QED  BY <1>0, <2>1, <2>2, <2>4, <2>5, <2>6, <2>7, WorkerAway
<1>2. CASE Build!NothingToClaim(w)
  <2> DEFINE q == [wk[w] EXCEPT !.pc = "idle"]
  <2>1. wk[w].pc = "poll" /\ wk' = [wk EXCEPT ![w] = q]
    BY <1>2 DEF Build!NothingToClaim, Build!Goto
  <2>2. DOMAIN q = WFields /\ DOMAIN q.mem = MFields /\ q.pc = "idle" /\ q.r = wk[w].r
    BY WorkerRecord DEF WFields
  <2>3. wk[w].r = 0 /\ q.pc \notin AtJob
    BY <2>1, <2>2, WorkerRecord DEF WorkerOk, AtJob, Building
  <2> HIDE DEF q
  <2>4. DOMAIN count' = NFields
    BY <1>0 DEF BInv, BShapes
  <2> QED  BY <1>0, <2>1, <2>2, <2>3, <2>4, WorkerAway
<1> QED  BY <1>1, <1>2

(* A worker dies: its job keeps its row, and is no longer clean.            *)
LEMMA CrashStep ==
    ASSUME BInv, NEW w \in Workers, Build!Crash(w)
    PROVE  BInv'
<1>1. /\ wk' = [wk EXCEPT ![w] = Build!Idle] /\ count' = [count EXCEPT !.crashes = @ + 1]
      /\ crashed' = crashed \cup ({wk[w].r} \ {0}) /\ UNCHANGED <<req, inst, tenants, made>>
  BY DEF Build!Crash
<1>2. DOMAIN count = NFields
  BY DEF BInv, BShapes
<1>3. DOMAIN count' = NFields /\ count'.runs = count.runs /\ count'.faults = count.faults
  BY <1>1, <1>2 DEF NFields
<1>4. Clean' => Clean /\ wk[w].r = 0
  BY <1>1, <1>3 DEF Clean
<1>5. Build!Idle.pc \notin AtJob /\ Build!Idle.pc # "reconcile"
  BY WorkerRecord DEF AtJob, Building
<1> QED  BY <1>1, <1>3, <1>4, <1>5, WorkerRecord, WorkerAway

(* reconcile_stale_cloud_jobs writes the jobs it read, which are still      *)
(* stale and still nobody's.                                                *)
LEMMA ReconcileStep ==
    ASSUME BInv, NEW w \in Workers, Build!reconcile_stale_cloud_jobs(w)
    PROVE  BInv'
<1> DEFINE q == [wk[w] EXCEPT !.pc = "poll", !.stale = {}]
<1>1. /\ wk[w].pc = "reconcile" /\ wk' = [wk EXCEPT ![w].pc = "poll", ![w].stale = {}]
      /\ req' = [r \in Build!Requests |->
                   IF r \in wk[w].stale THEN Build!Requeued(req[r]) ELSE req[r]]
      /\ UNCHANGED <<inst, tenants, made, count, crashed>> /\ Clean' = Clean
  BY DEF Build!reconcile_stale_cloud_jobs, Clean
<1>2. wk' = [wk EXCEPT ![w] = q]
  BY <1>1, WorkerRecord
<1>3. DOMAIN q = WFields /\ DOMAIN q.mem = MFields /\ q.pc = "poll" /\ q.r = wk[w].r
  BY WorkerRecord DEF WFields
<1>4. wk[w].r = 0 /\ q.pc \notin AtJob
  BY <1>1, <1>3, WorkerRecord DEF WorkerOk, AtJob, Building
<1> HIDE DEF q
<1>5. /\ wk'[w] = q /\ (\A v \in Workers \ {w} : wk'[v] = wk[v])
      /\ wk' = [v \in Workers |-> wk'[v]]
  BY <1>2, WorkerRecord
<1>6. \A r \in Build!Requests : r \in wk[w].stale =>
         /\ req[r].status = "provisioning" /\ req[r].lease = "expired"
         /\ \A v \in Workers : wk[v].r # r
  BY <1>1, WorkerRecord DEF WorkerOk
<1>7. ASSUME NEW r \in Build!Requests, r \in wk[w].stale
      PROVE  /\ DOMAIN req'[r] = CFields /\ req'[r].tenant = req[r].tenant
             /\ req'[r].status \in {"queued", "failed"}
  <2>1. req'[r] = Build!Requeued(req[r]) /\ DOMAIN req[r] = CFields
    BY <1>1, <1>7, RequestRow
  <2> QED  BY <2>1 DEF Build!Requeued, CFields
<1>8. \A r \in Build!Requests : r \notin wk[w].stale => req'[r] = req[r]
  BY <1>1
<1>9. \A r \in Build!Requests : DOMAIN req'[r] = CFields /\ req'[r].tenant = req[r].tenant
  BY <1>7, <1>8, RequestRow
<1>10. req' = [r \in Build!Requests |-> req'[r]]
  BY <1>1
<1>11. BShapes' /\ MadeOk'
  BY <1>1, <1>3, <1>5, <1>9, <1>10 DEF BInv, BShapes, MadeOk
<1>12. \A v \in Workers : wk'[v].r = wk[v].r
  BY <1>3, <1>5
<1>13. ASSUME NEW v \in Workers \ {w}
       PROVE  WorkerOk(v)' /\ WorkerTidy(v)'
  <2>1. wk'[v] = wk[v] /\ WorkerOk(v) /\ WorkerTidy(v) /\ wk[v].pc # "reconcile"
    BY <1>1, <1>5 DEF BInv
  <2>2. wk[v].pc \in AtJob => req'[wk[v].r] = req[wk[v].r] /\ wk[v].r \in Build!Requests
    BY <1>6, <1>8, <2>1 DEF WorkerOk
  <2>3. WorkerOk(v)'
    BY <1>1, <2>1, <2>2 DEF WorkerOk, AtJob, Building
  <2>4. WorkerTidy(v)'
    BY <1>1, <2>1, <2>2 DEF WorkerTidy
  <2> QED  BY <2>3, <2>4
<1>14. WorkerOk(w)' /\ WorkerTidy(w)'
  <2>1. WorkerOk(w)'
    BY <1>3, <1>4, <1>5 DEF WorkerOk, AtJob, Building
  <2>2. WorkerTidy(w)'
    BY <1>3, <1>4, <1>5 DEF WorkerTidy
  <2> QED  BY <2>1, <2>2
<1>15. ASSUME NEW r \in Build!Requests
       PROVE  RequestOk(r)'
  <2>1. RequestOk(r)
    BY DEF BInv
  <2>2. CASE r \in wk[w].stale
    <3>1. inst[r].status # "ready" /\ (Clean => req[r].tenant = 0)
      BY <1>6, <2>1, <2>2 DEF RequestOk
    <3> QED  BY <1>1, <1>9, <2>1, <3>1 DEF RequestOk
  <2>3. CASE r \notin wk[w].stale
    BY <1>1, <1>8, <1>12, <2>1, <2>3 DEF RequestOk
  <2> QED  BY <2>2, <2>3
<1>16. ASSUME NEW u \in Workers, NEW v \in Workers, u # v
       PROVE  /\ wk'[u].pc \in AtJob => wk'[u].r # wk'[v].r
              /\ ~(wk'[u].pc = "reconcile" /\ wk'[v].pc = "reconcile")
  <2>1. /\ wk[u].pc \in AtJob => wk[u].r # wk[v].r
        /\ ~(wk[u].pc = "reconcile" /\ wk[v].pc = "reconcile")
    BY <1>16 DEF BInv
  <2> QED  BY <1>3, <1>4, <1>5, <1>12, <1>16, <2>1
<1> QED  BY <1>9, <1>11, <1>13, <1>14, <1>15, <1>16 DEF BInv

(* claim_next_real_cloud_job takes a queued job, which nobody is on.        *)
LEMMA ClaimJobStep ==
    ASSUME BInv, NEW w \in Workers, Build!claim_next_real_cloud_job(w)
    PROVE  BInv'
<1>1. PICK r \in Build!Requests :
        /\ Build!Claimable(r)
        /\ req' = [req EXCEPT ![r].status = "provisioning", ![r].claimed_by = w,
                              ![r].lease = "live", ![r].attempts = @ + 1]
        /\ wk' = [wk EXCEPT ![w].pc = "check", ![w].r = r]
  BY DEF Build!claim_next_real_cloud_job
<1>2. wk[w].pc = "poll" /\ UNCHANGED <<inst, tenants, made, count, crashed>> /\ Clean' = Clean
  BY DEF Build!claim_next_real_cloud_job, Clean
<1> DEFINE n == req[r].attempts + 1
           new == [req[r] EXCEPT !.status = "provisioning", !.claimed_by = w,
                                 !.lease = "live", !.attempts = n]
           q == [wk[w] EXCEPT !.pc = "check", !.r = r]
<1>3. req' = [req EXCEPT ![r].status = "provisioning", ![r].claimed_by = w,
                         ![r].lease = "live", ![r].attempts = n]
  BY <1>1, RequestRow DEF CFields
<1> HIDE DEF n
<1>4. req' = [req EXCEPT ![r] = new] /\ wk' = [wk EXCEPT ![w] = q]
  BY <1>1, <1>3, RequestRow, WorkerRecord
<1>5. /\ DOMAIN new = CFields /\ new.status = "provisioning" /\ new.lease = "live"
      /\ new.tenant = req[r].tenant
  BY RequestRow DEF CFields
<1>6. DOMAIN q = WFields /\ DOMAIN q.mem = MFields /\ q.pc = "check" /\ q.r = r
  BY WorkerRecord DEF WFields
<1> HIDE DEF new, q
<1>7. /\ wk'[w] = q /\ (\A v \in Workers \ {w} : wk'[v] = wk[v])
      /\ wk' = [v \in Workers |-> wk'[v]]
      /\ req'[r] = new /\ (\A s \in Build!Requests \ {r} : req'[s] = req[s])
      /\ req' = [s \in Build!Requests |-> req'[s]]
  BY <1>4, RequestRow, WorkerRecord
<1>8. req[r].status = "queued" /\ \A v \in Workers : wk[v].r # r
  <2>1. req[r].status = "queued"
    BY <1>1 DEF Build!Claimable
  <2> QED  BY <2>1 DEF BInv, WorkerOk, Build!Requests
<1>9. r # 0 /\ wk[w].r = 0
  BY <1>2, WorkerRecord DEF Build!Requests, WorkerOk, AtJob, Building
<1>10. inst[r].status # "ready" /\ (Clean => req[r].tenant = 0)
  BY <1>8, RequestRow DEF RequestOk
<1>11. BShapes'
  BY <1>2, <1>5, <1>6, <1>7 DEF BInv, BShapes
<1>12. \A s \in Build!Requests : req'[s].tenant = req[s].tenant
  BY <1>5, <1>7
<1>13. MadeOk'
  BY <1>2, <1>12 DEF BInv, MadeOk
<1>14. ASSUME NEW v \in Workers \ {w}
       PROVE  WorkerOk(v)' /\ WorkerTidy(v)'
  <2>1. wk'[v] = wk[v] /\ WorkerOk(v) /\ WorkerTidy(v)
    BY <1>7 DEF BInv
  <2>2. wk[v].pc \in AtJob => req'[wk[v].r] = req[wk[v].r]
    BY <1>7, <1>8, <2>1 DEF WorkerOk
  <2>3. wk[v].pc = "reconcile" => \A s \in Build!Requests : s \in wk[v].stale =>
          /\ req'[s].status = "provisioning" /\ req'[s].lease = "expired"
          /\ \A u \in Workers : wk'[u].r # s
    <3> SUFFICES ASSUME wk[v].pc = "reconcile", NEW s \in Build!Requests, s \in wk[v].stale
                 PROVE  /\ req'[s].status = "provisioning" /\ req'[s].lease = "expired"
                        /\ \A u \in Workers : wk'[u].r # s
      OBVIOUS
    <3>1. /\ req[s].status = "provisioning" /\ req[s].lease = "expired"
          /\ \A u \in Workers : wk[u].r # s
      BY <2>1 DEF WorkerOk
    <3>2. s # r
      BY <1>8, <3>1
    <3> QED  BY <1>6, <1>7, <3>1, <3>2
  <2>4. WorkerOk(v)'
    BY <1>2, <2>1, <2>2, <2>3 DEF WorkerOk, AtJob, Building
  <2>5. WorkerTidy(v)'
    BY <1>2, <2>1, <2>2 DEF WorkerTidy
  <2> QED  BY <2>4, <2>5
<1>15. WorkerOk(w)' /\ WorkerTidy(w)'
  <2>1. WorkerOk(w)'
    BY <1>2, <1>5, <1>6, <1>7, <1>9, <1>10 DEF WorkerOk, AtJob, Building
  <2>2. WorkerTidy(w)'
    BY <1>2, <1>6, <1>10, <1>12 , <1>7 DEF WorkerTidy
  <2> QED  BY <2>1, <2>2
<1>16. ASSUME NEW s \in Build!Requests
       PROVE  RequestOk(s)'
  <2>1. RequestOk(s)
    BY DEF BInv
  <2>2. CASE s = r
    BY <1>2, <1>6, <1>7, <1>10, <1>12, <2>1, <2>2 DEF RequestOk
  <2>3. CASE s # r
    <3>1. req'[s] = req[s] /\ s # 0
      BY <1>7, <2>3 DEF Build!Requests
    <3>2. (\A v \in Workers : wk'[v].r # s) <=> (\A v \in Workers : wk[v].r # s)
      BY <1>6, <1>7, <1>9, <2>3, <3>1
    <3> QED  BY <1>2, <2>1, <3>1, <3>2 DEF RequestOk
  <2> QED  BY <2>2, <2>3
<1>17. ASSUME NEW u \in Workers, NEW v \in Workers, u # v
       PROVE  /\ wk'[u].pc \in AtJob => wk'[u].r # wk'[v].r
              /\ ~(wk'[u].pc = "reconcile" /\ wk'[v].pc = "reconcile")
  <2>1. /\ wk[u].pc \in AtJob => wk[u].r # wk[v].r
        /\ ~(wk[u].pc = "reconcile" /\ wk[v].pc = "reconcile")
    BY <1>17 DEF BInv
  <2> QED  BY <1>6, <1>7, <1>8, <1>17, <2>1
<1> QED  BY <1>11, <1>12, <1>13, <1>14, <1>15, <1>16, <1>17 DEF BInv

(* What a step of a worker on its job leaves alone.                         *)
LEMMA JobFrame ==
    ASSUME BInv, NEW w \in Workers, wk[w].pc \in AtJob,
           NEW new, req' = [req EXCEPT ![wk[w].r] = new],
           NEW q, wk' = [wk EXCEPT ![w] = q],
           NEW i, inst' = [inst EXCEPT ![wk[w].r] = i]
    PROVE  /\ wk[w].r \in Build!Requests /\ wk[w].r # 0
           /\ WorkerOk(w) /\ WorkerTidy(w) /\ RequestOk(wk[w].r)
           /\ req'[wk[w].r] = new /\ inst'[wk[w].r] = i /\ wk'[w] = q
           /\ \A v \in Workers \ {w} : wk'[v] = wk[v] /\ wk'[v].r # wk[w].r
<1>1. /\ wk[w].r \in Build!Requests /\ WorkerOk(w) /\ WorkerTidy(w) /\ wk[w].r # 0
      /\ RequestOk(wk[w].r)
  BY DEF BInv, WorkerOk, Build!Requests
<1>2. req'[wk[w].r] = new /\ inst'[wk[w].r] = i
  BY <1>1, RequestRow
<1>3. wk'[w] = q /\ \A v \in Workers \ {w} : wk'[v] = wk[v]
  BY WorkerRecord
<1>4. \A v \in Workers \ {w} : wk'[v].r # wk[w].r
  BY <1>3 DEF BInv
<1> QED  BY <1>1, <1>2, <1>3, <1>4

(* The worker ends its job with nothing left behind.                        *)
LEMMA JobLeaves ==
    ASSUME BInv, NEW w \in Workers, wk[w].pc \in AtJob,
           NEW new, DOMAIN new = CFields, req' = [req EXCEPT ![wk[w].r] = new],
           NEW q, DOMAIN q = WFields, DOMAIN q.mem = MFields, wk' = [wk EXCEPT ![w] = q],
           NEW i, DOMAIN i = IFields, inst' = [inst EXCEPT ![wk[w].r] = i],
           tenants' = tenants, made' = made, count' = count, crashed' = crashed,
           new.tenant = req[wk[w].r].tenant, i.status # "ready",
           q.r = 0, q.pc \in {"idle", "poll"}, Clean => req[wk[w].r].tenant = 0
    PROVE  BInv'
<1>0. PICK r : r = wk[w].r
  OBVIOUS
<1>8. wk[w].r \in Build!Requests /\ req'[wk[w].r] = new /\ inst'[wk[w].r] = i /\ wk'[w] = q
  BY JobFrame, ZenonT(60)
<1>1. r \in Build!Requests /\ req'[r] = new /\ inst'[r] = i /\ wk'[w] = q
  BY <1>0, <1>8
<1>7. RequestOk(r)
  BY <1>1 DEF BInv
<1>2. /\ DOMAIN count' = NFields /\ count'.runs \in Nat /\ count'.faults \in Nat
      /\ count.runs <= count'.runs /\ Clean' = Clean
  BY DEF BInv, BShapes, Clean
<1>3. WorkerOk(w)'
  BY <1>1 DEF WorkerOk, AtJob, Building
<1>4. WorkerTidy(w)'
  BY <1>1 DEF WorkerTidy, AtJob, Building
<1>5. RequestOk(r)'
  BY <1>0, <1>1, <1>2, <1>7 DEF RequestOk
<1>6. q.pc # "reconcile" /\ q.r \in {0, wk[w].r}
  OBVIOUS
<1> QED  BY <1>0, <1>6, <1>1, <1>2, <1>3, <1>4, <1>5, JobActs

(* The worker goes on with its job, and writes its row.                     *)
LEMMA JobMoves ==
    ASSUME BInv, NEW w \in Workers, wk[w].pc \in AtJob,
           NEW new, DOMAIN new = CFields, req' = [req EXCEPT ![wk[w].r] = new],
           NEW q, DOMAIN q = WFields, DOMAIN q.mem = MFields, wk' = [wk EXCEPT ![w] = q],
           NEW i, DOMAIN i = IFields, inst' = [inst EXCEPT ![wk[w].r] = i],
           tenants' = tenants, made' = made, count' = count, crashed' = crashed,
           new.tenant = req[wk[w].r].tenant, i.status # "ready",
           q.r = wk[w].r, q.pc \in AtJob \ {"check", "rows"}, q.run = wk[w].run,
           new.status \notin {"queued", "absent"}, new.lease = req[wk[w].r].lease,
           q.mem.tenant = req[wk[w].r].tenant,
           q.pc = "remove" => q.target = req[wk[w].r].tenant,
           q.pc \in Building => wk[w].pc \in Building,
           q.pc = "ready" => Build!Kinds \X {q.run} \subseteq made,
           Clean /\ q.pc \in {"start", "mark_again", "close"} => req[wk[w].r].tenant = 0
    PROVE  BInv'
<1> DEFINE r == wk[w].r
<1>1. /\ r \in Build!Requests /\ RequestOk(r) /\ req'[r] = new /\ inst'[r] = i /\ wk'[w] = q
      /\ WorkerOk(w) /\ WorkerTidy(w) /\ r # 0
  BY JobFrame, ZenonT(60)
<1>2. /\ DOMAIN count' = NFields /\ count'.runs \in Nat /\ count'.faults \in Nat
      /\ count.runs <= count'.runs /\ Clean' = Clean
  BY DEF BInv, BShapes, Clean
<1>3. WorkerOk(w)'
  BY <1>1 DEF WorkerOk, AtJob, Building
<1>4. WorkerTidy(w)'
  BY <1>1, <1>2 DEF WorkerTidy
<1>5. RequestOk(r)'
  BY <1>1, <1>2 DEF RequestOk
<1>6. q.pc # "reconcile"
  BY DEF AtJob, Building
<1> QED  BY <1>1, <1>2, <1>3, <1>4, <1>5, <1>6, JobActs

(* What BInv says of a worker's job.                                        *)
LEMMA JobRow ==
    ASSUME BInv, NEW w \in Workers, wk[w].pc \in AtJob
    PROVE  /\ wk[w].r \in Build!Requests /\ wk[w].r # 0
           /\ req[wk[w].r].status \notin {"queued", "absent"} /\ inst[wk[w].r].status # "ready"
           /\ DOMAIN req[wk[w].r] = CFields /\ DOMAIN inst[wk[w].r] = IFields
           /\ wk[w].r \in DOMAIN req /\ wk[w].r \in DOMAIN inst
           /\ req = [req EXCEPT ![wk[w].r] = req[wk[w].r]]
           /\ inst = [inst EXCEPT ![wk[w].r] = inst[wk[w].r]]
           /\ DOMAIN Build!Copy(wk[w].r) = MFields
           /\ Build!Copy(wk[w].r).tenant = req[wk[w].r].tenant
<1>1. wk[w].r \in Build!Requests /\ WorkerOk(w)
  BY DEF BInv, WorkerOk
<1>2. /\ DOMAIN req[wk[w].r] = CFields /\ DOMAIN inst[wk[w].r] = IFields
      /\ req = [s \in Build!Requests |-> req[s]] /\ inst = [s \in Build!Requests |-> inst[s]]
  BY <1>1, RequestRow
<1>3. /\ req = [req EXCEPT ![wk[w].r] = req[wk[w].r]]
      /\ inst = [inst EXCEPT ![wk[w].r] = inst[wk[w].r]]
  BY <1>1, <1>2
<1>4. /\ DOMAIN Build!Copy(wk[w].r) = MFields
      /\ Build!Copy(wk[w].r).tenant = req[wk[w].r].tenant
  BY DEF Build!Copy, MFields
<1> QED  BY <1>1, <1>2, <1>3, <1>4 DEF WorkerOk, Build!Requests

(* The approval is checked again before anything is built.                  *)
LEMMA CheckApprovalStep ==
    ASSUME BInv, NEW w \in Workers, Build!CheckApproval(w)
    PROVE  BInv'
<1> DEFINE r == wk[w].r
<1>1. wk[w].pc = "check" /\ UNCHANGED <<inst, tenants, made, count, crashed>>
  BY DEF Build!CheckApproval
<1>2. wk[w].pc \in AtJob
  BY <1>1 DEF AtJob
<1>3. Clean => req[r].tenant = 0
  BY <1>1, <1>2, WorkerRecord DEF WorkerTidy
<1>4. CASE Build!is_cloud_request_approved_and_unchanged(r)
  <2> DEFINE q == [wk[w] EXCEPT !.pc = "start", !.mem = Build!Copy(r)]
  <2>1. /\ wk' = [wk EXCEPT ![w].pc = "start", ![w].mem = Build!Copy(r)]
        /\ req' = [req EXCEPT ![r] = req[r]] /\ inst' = [inst EXCEPT ![r] = inst[r]]
    BY <1>1, <1>2, <1>4, JobRow DEF Build!CheckApproval
  <2>2. wk' = [wk EXCEPT ![w] = q]
    BY <2>1, WorkerRecord
  <2>3. /\ DOMAIN q = WFields /\ q.pc = "start" /\ q.mem = Build!Copy(r) /\ q.r = r
        /\ q.run = wk[w].run
    BY WorkerRecord DEF WFields
  <2>4. q.pc \in AtJob \ {"check", "rows"} /\ q.pc \notin Building
    BY <2>3 DEF AtJob, Building
  <2>5. /\ q.run = wk[w].run /\ q.mem.tenant = req[r].tenant /\ DOMAIN q.mem = MFields
        /\ q.pc # "remove" /\ q.pc # "ready" /\ q.pc # "reconcile"
    BY <1>2, <2>3, JobRow
  <2>6. /\ inst[r].status # "ready" /\ DOMAIN req[r] = CFields /\ DOMAIN inst[r] = IFields
        /\ req[r].status \notin {"queued", "absent"}
    BY <1>2, JobRow
  <2> HIDE DEF q, r
  <2> QED  BY <1>1, <1>2, <1>3, <2>1, <2>2, <2>3, <2>4, <2>5, <2>6, JobMoves DEF r
<1>5. CASE ~Build!is_cloud_request_approved_and_unchanged(r)
  <2> DEFINE n == IF req[r].attempts = 0 THEN 0 ELSE req[r].attempts - 1
             new == [req[r] EXCEPT !.status = "queued", !.claimed_by = Build!Nobody,
                                   !.lease = "none", !.attempts = n, !.due = "parked"]
             q == [Build!Idle EXCEPT !.pc = "poll"]
  <2>1. /\ req' = [req EXCEPT ![r].status = "queued", ![r].claimed_by = Build!Nobody,
                              ![r].lease = "none", ![r].attempts = n, ![r].due = "parked"]
        /\ wk' = [wk EXCEPT ![w] = q] /\ inst' = [inst EXCEPT ![r] = inst[r]]
    BY <1>1, <1>2, <1>5, JobRow DEF Build!CheckApproval, CFields
  <2> HIDE DEF n
  <2>2. req' = [req EXCEPT ![r] = new]
    BY <1>2, <2>1, JobRow
  <2>3. DOMAIN new = CFields /\ new.tenant = req[r].tenant
    BY <1>2, JobRow DEF CFields
  <2>4. /\ DOMAIN q = WFields /\ DOMAIN q.mem = MFields /\ q.r = 0 /\ q.pc = "poll"
    BY WorkerRecord DEF WFields
  <2>6. inst[r].status # "ready" /\ DOMAIN inst[r] = IFields /\ q.pc \in {"idle", "poll"}
    BY <1>2, <2>4, JobRow
  <2> HIDE DEF q, new
  <2> QED  BY <1>1, <1>2, <1>3, <2>1, <2>2, <2>3, <2>4, <2>6, JobLeaves
<1> QED  BY <1>4, <1>5

(* dry_claim_check before the build.                                        *)
LEMMA DryClaimStep ==
    ASSUME BInv, NEW w \in Workers, Build!dry_claim_check(w)
    PROVE  BInv'
<1> DEFINE r == wk[w].r
           n == IF req[r].attempts = 0 THEN 0 ELSE req[r].attempts - 1
           new == [req[r] EXCEPT !.status = "queued", !.claimed_by = Build!Nobody,
                                 !.lease = "none", !.attempts = n]
           q == Build!Idle
<1>1. wk[w].pc = "start" /\ UNCHANGED <<inst, tenants, made, count, crashed>>
  BY DEF Build!dry_claim_check
<1>2. wk[w].pc \in AtJob
  BY <1>1 DEF AtJob
<1>3. Clean => req[r].tenant = 0
  BY <1>1, <1>2, WorkerRecord DEF WorkerTidy
<1>4. /\ req' = [req EXCEPT ![r].status = "queued", ![r].claimed_by = Build!Nobody,
                            ![r].lease = "none", ![r].attempts = n]
      /\ wk' = [wk EXCEPT ![w] = q] /\ inst' = [inst EXCEPT ![r] = inst[r]]
  BY <1>1, <1>2, JobRow DEF Build!dry_claim_check, CFields
<1> HIDE DEF n
<1>5. req' = [req EXCEPT ![r] = new]
  BY <1>2, <1>4, JobRow
<1>6. DOMAIN new = CFields /\ new.tenant = req[r].tenant
  BY <1>2, JobRow DEF CFields
<1>7. DOMAIN q = WFields /\ DOMAIN q.mem = MFields /\ q.r = 0 /\ q.pc = "idle"
  BY WorkerRecord
<1>8. inst[r].status # "ready" /\ DOMAIN inst[r] = IFields /\ q.pc \in {"idle", "poll"}
  BY <1>2, <1>7, JobRow
<1> HIDE DEF q, new
<1> QED  BY <1>1, <1>2, <1>3, <1>4, <1>5, <1>6, <1>7, <1>8, JobLeaves

(* The worker goes on with its job, and writes nothing.                     *)
LEMMA SameRow ==
    ASSUME BInv, NEW w \in Workers, wk[w].pc \in AtJob,
           NEW q, DOMAIN q = WFields, DOMAIN q.mem = MFields, wk' = [wk EXCEPT ![w] = q],
           req' = req, inst' = inst,
           tenants' = tenants, made' = made, count' = count, crashed' = crashed,
           q.r = wk[w].r, q.pc \in AtJob \ {"check", "start", "close", "rows", "remove"},
           q.run = wk[w].run, q.mem.tenant = req[wk[w].r].tenant,
           q.pc \in Building => wk[w].pc \in Building,
           q.pc = "ready" => Build!Kinds \X {q.run} \subseteq made,
           Clean /\ q.pc = "mark_again" => req[wk[w].r].tenant = 0
    PROVE  BInv'
<1>1. /\ req' = [req EXCEPT ![wk[w].r] = req[wk[w].r]]
      /\ inst' = [inst EXCEPT ![wk[w].r] = inst[wk[w].r]]
      /\ DOMAIN req[wk[w].r] = CFields /\ DOMAIN inst[wk[w].r] = IFields
      /\ req[wk[w].r].status \notin {"queued", "absent"} /\ inst[wk[w].r].status # "ready"
  BY JobRow
<1>2. /\ q.pc \in AtJob \ {"check", "rows"}
      /\ q.pc = "remove" => q.target = req[wk[w].r].tenant
      /\ Clean /\ q.pc \in {"start", "mark_again", "close"} => req[wk[w].r].tenant = 0
  OBVIOUS
<1> QED  BY <1>1, <1>2, JobMoves

(* The end of the build is verified.                                        *)
LEMMA VerifyStep ==
    ASSUME BInv, NEW w \in Workers, Build!Verify(w)
    PROVE  BInv'
<1>1. /\ wk[w].pc = "verify" /\ req' = req /\ inst' = inst /\ tenants' = tenants
      /\ made' = made /\ count' = count /\ crashed' = crashed
  BY DEF Build!Verify
<1>2. wk[w].pc \in AtJob /\ wk[w].pc \in Building
  BY <1>1 DEF AtJob, Building
<1>3. wk[w].mem.tenant = req[wk[w].r].tenant
  BY <1>1, <1>2, WorkerRecord DEF WorkerOk
<1>4. PICK pc \in {"ready", "mark"} : /\ wk' = [wk EXCEPT ![w].pc = pc]
                                      /\ pc = "ready" => Build!Kinds \X {wk[w].run} \subseteq made
  BY DEF Build!Verify, Build!Verified, Build!Goto
<1> DEFINE q == [wk[w] EXCEPT !.pc = pc]
<1>5. wk' = [wk EXCEPT ![w] = q]
  BY <1>4
<1>6. /\ DOMAIN q = WFields /\ q.mem = wk[w].mem /\ q.pc = pc /\ q.r = wk[w].r
      /\ q.run = wk[w].run /\ DOMAIN q.mem = MFields
  BY WorkerRecord DEF WFields
<1>7. q.pc \in AtJob \ {"check", "start", "close", "rows", "remove"} /\ q.pc # "mark_again"
  BY <1>4, <1>6 DEF AtJob, Building
<1> HIDE DEF q
<1> QED  BY <1>1, <1>2, <1>3, <1>4, <1>5, <1>6, <1>7, SameRow

(* The failure of a build is written.                                       *)
LEMMA MarkFailedStep ==
    ASSUME BInv, NEW w \in Workers, Build!MarkFailed(w)
    PROVE  BInv'
<1> DEFINE r == wk[w].r
           new == [req[r] EXCEPT !.status = "failed"]
           i == [inst[r] EXCEPT !.status = "failed"]
           m == [wk[w].mem EXCEPT !.status = "failed"]
           q == [wk[w] EXCEPT !.pc = "rollback", !.mem = m]
<1>1. /\ wk[w].pc = "mark" /\ req' = [req EXCEPT ![r] = new] /\ inst' = [inst EXCEPT ![r] = i]
      /\ tenants' = tenants /\ made' = made /\ count' = count /\ crashed' = crashed
  BY DEF Build!MarkFailed
<1>2. wk' = [wk EXCEPT ![w].pc = "rollback", ![w].mem.status = "failed"]
  BY DEF Build!MarkFailed
<1>3. wk' = [wk EXCEPT ![w] = q]
  BY <1>2, WorkerRecord DEF WFields
<1>4. wk[w].pc \in AtJob /\ wk[w].pc # "check"
  BY <1>1 DEF AtJob
<1>5. wk[w].mem.tenant = req[r].tenant
  BY <1>4, WorkerRecord DEF WorkerOk
<1>6. /\ DOMAIN new = CFields /\ new.status = "failed" /\ new.tenant = req[r].tenant
      /\ new.lease = req[r].lease /\ DOMAIN i = IFields /\ i.status = "failed"
  BY <1>4, JobRow DEF CFields, IFields
<1>7. DOMAIN m = MFields /\ m.tenant = req[r].tenant
  BY <1>5, WorkerRecord DEF MFields
<1> HIDE DEF m, new, i
<1>8. DOMAIN q = WFields /\ q.pc = "rollback" /\ q.mem = m /\ q.r = r /\ q.run = wk[w].run
  BY WorkerRecord DEF WFields
<1>9. /\ q.pc \in AtJob \ {"check", "rows"} /\ q.pc \notin Building /\ q.pc # "ready"
      /\ q.pc # "remove" /\ q.pc \notin {"start", "mark_again", "close"}
  BY <1>8 DEF AtJob, Building
<1> HIDE DEF q
<1> QED  BY <1>1, <1>3, <1>4, <1>6, <1>7, <1>8, <1>9, JobMoves

(* The failure is written once more after a failed write.                   *)
LEMMA MarkFailedAgainStep ==
    ASSUME BInv, NEW w \in Workers, Build!MarkFailedAgain(w)
    PROVE  BInv'
<1> DEFINE r == wk[w].r
<1>1. PICK s : s = IF req[r].status \in {"failed", "rolled_back"} THEN req[r].status ELSE "failed"
  OBVIOUS
<1>2. PICK t : t = req'[r].status
  OBVIOUS
<1> DEFINE new == [req[r] EXCEPT !.status = s]
           m == [Build!Copy(r) EXCEPT !.status = t]
           q == [wk[w] EXCEPT !.pc = "rollback", !.again = TRUE, !.mem = m]
<1>3. wk[w].pc = "mark_again" /\ inst' = inst /\ tenants' = tenants /\ made' = made
      /\ count' = count /\ crashed' = crashed
  BY DEF Build!MarkFailedAgain
<1>4. wk[w].pc \in AtJob /\ wk[w].pc # "check"
  BY <1>3 DEF AtJob
<1>5. req' = [req EXCEPT ![r] = new]
  BY <1>1, <1>4, JobRow DEF Build!MarkFailedAgain, CFields
<1>6. wk' = [wk EXCEPT ![w].pc = "rollback", ![w].again = TRUE, ![w].mem = m]
  BY <1>2 DEF Build!MarkFailedAgain
<1>7. wk' = [wk EXCEPT ![w] = q]
  BY <1>6, WorkerRecord
<1>8. /\ DOMAIN new = CFields /\ new.status = s /\ new.tenant = req[r].tenant
      /\ new.lease = req[r].lease
  BY <1>4, JobRow DEF CFields
<1>9. DOMAIN m = MFields /\ m.tenant = req[r].tenant
  BY <1>4, JobRow DEF MFields
<1>10. s \notin {"queued", "absent"}
  BY <1>1
<1>11. /\ inst' = [inst EXCEPT ![r] = inst[r]] /\ DOMAIN inst[r] = IFields
       /\ inst[r].status # "ready"
  BY <1>3, <1>4, JobRow
<1> HIDE DEF m, new
<1>12. DOMAIN q = WFields /\ q.pc = "rollback" /\ q.mem = m /\ q.r = r /\ q.run = wk[w].run
  BY WorkerRecord DEF WFields
<1>13. /\ q.pc \in AtJob \ {"check", "rows"} /\ q.pc \notin Building /\ q.pc # "ready"
       /\ q.pc # "remove" /\ q.pc \notin {"start", "mark_again", "close"}
  BY <1>12 DEF AtJob, Building
<1> HIDE DEF q
<1> QED  BY <1>3, <1>4, <1>5, <1>7, <1>8, <1>9, <1>10, <1>11, <1>12, <1>13, JobMoves

(* The rollback writes down what it will remove before it removes anything. *)
LEMMA RollbackIntentStep ==
    ASSUME BInv, NEW w \in Workers, Build!RollbackIntent(w)
    PROVE  BInv'
<1> DEFINE r == wk[w].r
<1>1. PICK s : s = IF wk[w].mem.status = "rolled_back" THEN "rolled_back" ELSE "rollback_pending"
  OBVIOUS
<1>2. PICK t : t = IF s = "rolled_back" THEN req[r].status ELSE s
  OBVIOUS
<1> DEFINE new == [req[r] EXCEPT !.status = t]
           m == [wk[w].mem EXCEPT !.status = s]
           q == [wk[w] EXCEPT !.pc = "remove", !.target = wk[w].mem.tenant, !.mem = m]
<1>3. wk[w].pc = "rollback" /\ inst' = inst /\ tenants' = tenants /\ made' = made
      /\ count' = count /\ crashed' = crashed
  BY DEF Build!RollbackIntent
<1>4. wk[w].pc \in AtJob /\ wk[w].pc # "check"
  BY <1>3 DEF AtJob
<1>5. req' = [req EXCEPT ![r] = new]
  BY <1>1, <1>2, <1>4, JobRow DEF Build!RollbackIntent, CFields
<1>6. wk' = [wk EXCEPT ![w].pc = "remove", ![w].target = wk[w].mem.tenant, ![w].mem.status = s]
  BY <1>1 DEF Build!RollbackIntent
<1>7. wk' = [wk EXCEPT ![w] = q]
  BY <1>6, WorkerRecord DEF WFields
<1>8. /\ DOMAIN new = CFields /\ new.status = t /\ new.tenant = req[r].tenant
      /\ new.lease = req[r].lease
  BY <1>4, JobRow DEF CFields
<1>9. wk[w].mem.tenant = req[r].tenant
  BY <1>4, WorkerRecord DEF WorkerOk
<1>10. DOMAIN m = MFields /\ m.tenant = req[r].tenant
  BY <1>9, WorkerRecord DEF MFields
<1>11. t \notin {"queued", "absent"}
  BY <1>1, <1>2, <1>4, JobRow
<1>12. /\ inst' = [inst EXCEPT ![r] = inst[r]] /\ DOMAIN inst[r] = IFields
       /\ inst[r].status # "ready"
  BY <1>3, <1>4, JobRow
<1> HIDE DEF m, new
<1>13. /\ DOMAIN q = WFields /\ q.pc = "remove" /\ q.mem = m /\ q.r = r /\ q.run = wk[w].run
       /\ q.target = req[r].tenant
  BY <1>9, WorkerRecord DEF WFields
<1>14. /\ q.pc \in AtJob \ {"check", "rows"} /\ q.pc \notin Building /\ q.pc # "ready"
       /\ q.pc \notin {"start", "mark_again", "close"}
  BY <1>13 DEF AtJob, Building
<1> HIDE DEF q
<1> QED  BY <1>3, <1>4, <1>5, <1>7, <1>8, <1>10, <1>11, <1>12, <1>13, <1>14, JobMoves

(* The rollback is closed.                                                  *)
LEMMA CloseRollbackStep ==
    ASSUME BInv, NEW w \in Workers, Build!CloseRollback(w)
    PROVE  BInv'
<1> DEFINE r == wk[w].r
<1>1. PICK s : s = IF wk[w].mem.status \in {"failed", "rolled_back"} THEN req[r].status
                   ELSE "rolled_back"
  OBVIOUS
<1>2. PICK v : v = IF wk[w].mem.verified THEN FALSE ELSE req[r].verified
  OBVIOUS
<1>3. PICK i : i = [status |-> IF inst[r].status \in {"failed", "rolled_back"} THEN inst[r].status
                               ELSE "rolled_back",
                    verified |-> IF wk[w].mem.verified THEN FALSE ELSE inst[r].verified]
  OBVIOUS
<1>4. DOMAIN i = IFields /\ i.status # "ready"
  BY <1>3 DEF IFields
<1> DEFINE new == [req[r] EXCEPT !.status = s, !.verified = v]
<1>5. wk[w].pc = "close" /\ tenants' = tenants /\ made' = made
      /\ count' = count /\ crashed' = crashed
  BY DEF Build!CloseRollback
<1>6. wk[w].pc \in AtJob /\ wk[w].pc # "check"
  BY <1>5 DEF AtJob
<1>7. req' = [req EXCEPT ![r].status = s, ![r].verified = v]
  BY <1>1, <1>2, <1>6, JobRow DEF Build!CloseRollback, CFields
<1>8. req' = [req EXCEPT ![r] = new]
  BY <1>6, <1>7, JobRow
<1>9. inst' = [inst EXCEPT ![r] = i]
  BY <1>3, <1>6, JobRow DEF Build!CloseRollback
<1>10. /\ DOMAIN new = CFields /\ new.status = s /\ new.tenant = req[r].tenant
       /\ new.lease = req[r].lease
  BY <1>6, JobRow DEF CFields
<1>11. s \notin {"queued", "absent"}
  BY <1>1, <1>6, JobRow
<1>12. wk[w].mem.tenant = req[r].tenant /\ (Clean => req[r].tenant = 0)
  BY <1>5, <1>6, WorkerRecord DEF WorkerOk, WorkerTidy
<1> HIDE DEF new
<1>13. CASE wk[w].again
  <2>1. wk' = [wk EXCEPT ![w] = Build!Idle]
    BY <1>13 DEF Build!CloseRollback
  <2>2. Build!Idle.pc \in {"idle", "poll"}
    BY WorkerRecord
  <2> QED  BY <1>4, <1>5, <1>6, <1>8, <1>9, <1>10, <1>12, <2>1, <2>2, WorkerRecord, JobLeaves
<1>14. CASE ~wk[w].again
  <2> DEFINE q == [wk[w] EXCEPT !.pc = "mark_again"]
  <2>1. wk' = [wk EXCEPT ![w] = q]
    BY <1>14 DEF Build!CloseRollback
  <2>2. /\ DOMAIN q = WFields /\ q.pc = "mark_again" /\ q.mem = wk[w].mem /\ q.r = r
        /\ q.run = wk[w].run /\ DOMAIN q.mem = MFields
    BY WorkerRecord DEF WFields
  <2>3. /\ q.pc \in AtJob \ {"check", "rows"} /\ q.pc \notin Building /\ q.pc # "ready"
        /\ q.pc # "remove"
    BY <2>2 DEF AtJob, Building
  <2> HIDE DEF q
  <2> QED  BY <1>4, <1>5, <1>6, <1>8, <1>9, <1>10, <1>11, <1>12, <2>1, <2>2, <2>3, JobMoves
<1> QED  BY <1>13, <1>14

(* The build reserves a tenant: the number is new, so no other row names    *)
(* it.                                                                      *)
LEMMA ReserveTenantStep ==
    ASSUME BInv, NEW w \in Workers, Build!ReserveTenant(w)
    PROVE  BInv'
<1>0. PICK r : r = wk[w].r
  OBVIOUS
<1>1. wk[w].pc = "start" /\ inst' = inst /\ made' = made /\ crashed' = crashed
  BY DEF Build!ReserveTenant
<1>2. wk[w].pc \in AtJob /\ wk[w].pc # "check"
  BY <1>1 DEF AtJob
<1>3. wk[w].mem.tenant = req[r].tenant /\ (Clean => req[r].tenant = 0)
  BY <1>0, <1>1, <1>2, WorkerRecord DEF WorkerOk, WorkerTidy
<1>4. CASE Build!Goto(w, "mark_again") /\ UNCHANGED <<req, tenants, count>>
  <2> DEFINE q == [wk[w] EXCEPT !.pc = "mark_again"]
  <2>1. wk' = [wk EXCEPT ![w] = q] /\ req' = req /\ tenants' = tenants /\ count' = count
    BY <1>4 DEF Build!Goto
  <2>2. /\ DOMAIN q = WFields /\ q.pc = "mark_again" /\ q.mem = wk[w].mem /\ q.r = wk[w].r
        /\ q.run = wk[w].run /\ DOMAIN q.mem = MFields
    BY WorkerRecord DEF WFields
  <2>3. /\ q.pc \in AtJob \ {"check", "start", "close", "rows", "remove"} /\ q.pc \notin Building
        /\ q.pc # "ready"
    BY <2>2 DEF AtJob, Building
  <2> HIDE DEF q
  <2> QED  BY <1>0, <1>1, <1>2, <1>3, <2>1, <2>2, <2>3, SameRow
<1>5. CASE ~(Build!Goto(w, "mark_again") /\ UNCHANGED <<req, tenants, count>>)
  <2>1. PICK k : k = count.runs + 1
    OBVIOUS
  <2> DEFINE new == [req[r] EXCEPT !.tenant = k]
             m == [Build!Copy(r) EXCEPT !.tenant = k]
             q == [wk[w] EXCEPT !.pc = "database", !.run = k, !.mem = m]
  <2>2. /\ wk[w].mem.tenant = 0 /\ tenants' = tenants \cup {k} /\ req' = [req EXCEPT ![r] = new]
        /\ count' = [count EXCEPT !.runs = k]
        /\ wk' = [wk EXCEPT ![w].pc = "database", ![w].run = k, ![w].mem = m]
    BY <1>0, <1>5, <2>1 DEF Build!ReserveTenant, Build!NoRun
  <2>3. wk' = [wk EXCEPT ![w] = q]
    BY <2>2, WorkerRecord
  <2>4. DOMAIN new = CFields /\ new.tenant = k /\ new.status = req[r].status /\ new.lease = req[r].lease
    BY <1>0, <1>2, JobRow DEF CFields
  <2>5. DOMAIN m = MFields /\ m.tenant = k
    BY <1>0, <1>2, JobRow DEF MFields
  <2>6. count.runs \in Nat /\ count.faults \in Nat /\ DOMAIN count = NFields
    BY DEF BInv, BShapes
  <2>7. DOMAIN count' = NFields /\ count'.runs = k /\ count'.faults = count.faults
    BY <2>2, <2>6 DEF NFields
  <2>8. k \in Nat /\ k > count.runs /\ k # 0 /\ count.runs <= k
    BY <2>1, <2>6
  <2>9. Clean' = Clean
    BY <1>1, <2>7 DEF Clean
  <2> HIDE DEF m, new
  <2>10. /\ DOMAIN q = WFields /\ q.pc = "database" /\ q.mem = m /\ q.r = r /\ q.run = k
    BY <1>0, WorkerRecord DEF WFields
  <2> HIDE DEF q
  <2>11. inst' = [inst EXCEPT ![r] = inst[r]] /\ DOMAIN inst[r] = IFields
    BY <1>0, <1>1, <1>2, JobRow
  <2>12. r \in Build!Requests /\ r # 0 /\ WorkerOk(w)
    BY <1>0, <1>2, JobRow, WorkerRecord
  <2>13. /\ r \in Build!Requests /\ r # 0 /\ req'[r] = new /\ inst'[r] = inst[r] /\ wk'[w] = q
    BY <1>1, <2>2, <2>3, <2>12, RequestRow, WorkerRecord
  <2>14. /\ req[r].status \notin {"queued", "absent"} /\ req[r].lease # "expired"
         /\ inst[r].status # "ready"
    BY <1>0, <1>2, <2>12 DEF WorkerOk
  <2>15. WorkerOk(w)'
    BY <2>4, <2>5, <2>8, <2>10, <2>13, <2>14 DEF WorkerOk, AtJob, Building
  <2>16. WorkerTidy(w)'
    BY <2>4, <2>8, <2>10, <2>13 DEF WorkerTidy
  <2>17. RequestOk(r)'
    BY <2>4, <2>7, <2>8, <2>10, <2>13, <2>14 DEF RequestOk
  <2>18. \A x \in made : x[2] # 0
    BY DEF BInv, MadeOk
  <2>19. q.pc # "reconcile" /\ q.r \in {0, wk[w].r}
    BY <1>0, <2>10
  <2>20. /\ \A x \in made' : x[2] = req[wk[w].r].tenant => x[2] = new.tenant
         /\ \A x \in made : x \in made' \/ x[2] = req[wk[w].r].tenant
         /\ \A x \in made' : x \in made \/ (x \in Build!Kinds \X {new.tenant} /\ new.tenant # 0)
    BY <1>0, <1>1, <1>3, <2>2, <2>18
  <2>21. \A s \in Build!Requests \ {wk[w].r} :
            req[s].tenant # 0 /\ req[s].tenant \in tenants => req[s].tenant \in tenants'
    BY <2>2
  <2>22. /\ new.tenant > count.runs /\ count'.runs \in Nat /\ count'.faults \in Nat
         /\ count.runs <= count'.runs /\ (Clean' => Clean) /\ DOMAIN q.mem = MFields
    BY <2>4, <2>5, <2>6, <2>7, <2>8, <2>9, <2>10
  <2>23. req' = [req EXCEPT ![wk[w].r] = new] /\ inst' = [inst EXCEPT ![wk[w].r] = inst[r]]
    BY <1>0, <2>2, <2>11
  <2> QED  BY <1>0, <1>2, <2>3, <2>4, <2>7, <2>10, <2>11, <2>15, <2>16, <2>17,
              <2>19, <2>20, <2>21, <2>22, <2>23, JobActs
<1> QED  BY <1>4, <1>5

(* The worker makes or removes resources of its own tenant.                 *)
LEMMA JobTouches ==
    ASSUME BInv, NEW w \in Workers, wk[w].pc \in AtJob \ {"check"},
           NEW new, DOMAIN new = CFields, req' = [req EXCEPT ![wk[w].r] = new],
           NEW q, DOMAIN q = WFields, DOMAIN q.mem = MFields, wk' = [wk EXCEPT ![w] = q],
           inst' = inst, crashed' = crashed,
           DOMAIN count' = NFields, count'.runs = count.runs, count'.faults \in Nat,
           Clean' => Clean,
           new.status = req[wk[w].r].status, new.lease = req[wk[w].r].lease,
           new.tenant \in {0, req[wk[w].r].tenant},
           q.r = wk[w].r, q.pc \in AtJob \ {"check", "start", "mark_again", "remove", "ready"},
           q.run = wk[w].run, q.mem.tenant = new.tenant,
           q.pc \in Building => wk[w].pc \in Building /\ new.tenant = req[wk[w].r].tenant,
           Clean' /\ q.pc = "close" => new.tenant = 0,
           q.pc = "rows" => q.target = new.tenant,
           Clean' /\ q.pc = "rows" => \A x \in made' : x[2] # q.target,
           \A x \in tenants : x \in tenants' \/ x = req[wk[w].r].tenant,
           \A x \in made : x \in made' \/ x[2] = req[wk[w].r].tenant,
           \A x \in made' : x \in made \/ (x \in Build!Kinds \X {new.tenant} /\ new.tenant # 0),
           Clean' => \A x \in made' : x[2] = req[wk[w].r].tenant => x[2] = new.tenant
    PROVE  BInv'
<1>0. PICK r : r = wk[w].r
  OBVIOUS
<1>1. wk[w].pc \in AtJob
  OBVIOUS
<1>2. inst' = [inst EXCEPT ![wk[w].r] = inst[wk[w].r]] /\ DOMAIN inst[wk[w].r] = IFields
  BY <1>1, JobRow
<1>3. /\ wk[w].r \in Build!Requests /\ wk[w].r # 0 /\ WorkerOk(w) /\ WorkerTidy(w)
      /\ req'[wk[w].r] = new /\ wk'[w] = q
      /\ inst'[wk[w].r] = inst[wk[w].r]
  BY <1>1, JobRow, RequestRow, WorkerRecord
<1>4. /\ r \in Build!Requests /\ r # 0 /\ req'[r] = new /\ inst'[r] = inst[r] /\ wk'[w] = q
  BY <1>0, <1>3
<1>5. /\ req[r].status \notin {"queued", "absent"} /\ req[r].lease # "expired"
      /\ inst[r].status # "ready"
  BY <1>0, <1>1, <1>3 DEF WorkerOk
<1>6. count.runs \in Nat /\ \A s \in Build!Requests : req[s].tenant \in 0 .. count.runs
  BY DEF BInv, BShapes, RequestOk
<1>7. new.tenant \in 0 .. count'.runs /\ count.runs <= count'.runs /\ count'.runs \in Nat
  BY <1>0, <1>4, <1>6
<1>8. WorkerOk(w)'
  BY <1>0, <1>3, <1>4, <1>5 DEF WorkerOk, AtJob, Building
<1>9. WorkerTidy(w)'
  BY <1>0, <1>3, <1>4 DEF WorkerTidy
<1>10. RequestOk(r)'
  BY <1>0, <1>4, <1>5, <1>7 DEF RequestOk
<1>11. q.pc # "reconcile" /\ q.r \in {0, wk[w].r}
  BY DEF AtJob, Building
<1>12. \A s \in Build!Requests \ {wk[w].r} :
          req[s].tenant # 0 /\ req[s].tenant \in tenants => req[s].tenant \in tenants'
  <2> SUFFICES ASSUME NEW s \in Build!Requests \ {wk[w].r}, req[s].tenant # 0,
                      req[s].tenant \in tenants
               PROVE  req[s].tenant \in tenants'
    OBVIOUS
  <2>1. req[s].tenant # req[wk[w].r].tenant
    BY <1>3 DEF BInv
  <2> QED  BY <2>1
<1> QED  BY <1>0, <1>1, <1>2, <1>7, <1>8, <1>9, <1>10, <1>11, <1>12, JobActs

(* A stage of the build makes its resources or fails.                       *)
LEMMA BuildStageStep ==
    ASSUME BInv, NEW w \in Workers, Build!BuildStage(w)
    PROVE  BInv'
<1> DEFINE k == wk[w].run
           pc == wk[w].pc
<1>1. /\ pc \in {"database", "files", "container"} /\ req' = req /\ inst' = inst
      /\ tenants' = tenants /\ count' = count /\ crashed' = crashed
  BY DEF Build!BuildStage, Build!Stages
<1>2. PICK some \in SUBSET Build!Kinds : made' = made \cup (some \X {k})
        /\ \/ wk' = [wk EXCEPT ![w] = [@ EXCEPT !.pc = "rollback", !.mem = Build!Copy(wk[w].r),
                                                !.again = TRUE]]
           \/ \E to \in {"files", "container", "verify", "mark"} :
                 wk' = [wk EXCEPT ![w] = [@ EXCEPT !.pc = to]]
  <2>1. PICK some \in SUBSET (Build!Stages[pc]) :
          /\ made' = made \cup (some \X {k})
          /\ wk' = [wk EXCEPT ![w] =
              IF pc = "files" /\ some = Build!Stages[pc] /\ k \notin tenants
              THEN [@ EXCEPT !.pc = "rollback", !.mem = Build!Copy(wk[w].r),
                             !.again = TRUE]
              ELSE [@ EXCEPT !.pc = IF some = Build!Stages[pc] THEN Build!StageAfter[pc]
                                    ELSE "mark"]]
    BY DEF Build!BuildStage
  <2>2. Build!Stages[pc] \subseteq Build!Kinds
    BY <1>1 DEF Build!Stages, Build!Kinds
  <2>3. Build!StageAfter[pc] \in {"files", "container", "verify"}
    BY <1>1 DEF Build!StageAfter
  <2>4. some \in SUBSET Build!Kinds
    BY <2>1, <2>2
  <2> QED  BY <2>1, <2>3, <2>4
<1>3. pc \in AtJob /\ pc \in Building /\ pc # "check"
  BY <1>1 DEF AtJob, Building
<1>4. /\ wk[w].run = req[wk[w].r].tenant /\ wk[w].run # 0
      /\ wk[w].mem.tenant = req[wk[w].r].tenant
  BY <1>3, WorkerRecord DEF WorkerOk
<1>5. /\ req' = [req EXCEPT ![wk[w].r] = req[wk[w].r]] /\ DOMAIN req[wk[w].r] = CFields
      /\ DOMAIN Build!Copy(wk[w].r) = MFields /\ Build!Copy(wk[w].r).tenant = req[wk[w].r].tenant
  BY <1>1, <1>3, JobRow
<1>6. /\ DOMAIN count' = NFields /\ count'.runs = count.runs /\ count'.faults \in Nat
      /\ Clean' = Clean
  BY <1>1 DEF BInv, BShapes, Clean
<1>7. PICK q : /\ wk' = [wk EXCEPT ![w] = q] /\ DOMAIN q = WFields /\ DOMAIN q.mem = MFields
               /\ q.pc \in {"rollback", "files", "container", "verify", "mark"}
               /\ q.r = wk[w].r /\ q.run = wk[w].run /\ q.mem.tenant = req[wk[w].r].tenant
  <2>1. CASE wk' = [wk EXCEPT ![w] = [@ EXCEPT !.pc = "rollback", !.mem = Build!Copy(wk[w].r),
                                                !.again = TRUE]]
    <3> DEFINE q == [wk[w] EXCEPT !.pc = "rollback", !.mem = Build!Copy(wk[w].r), !.again = TRUE]
    <3>1. wk' = [wk EXCEPT ![w] = q]
      BY <2>1
    <3>2. /\ DOMAIN q = WFields /\ q.mem = Build!Copy(wk[w].r) /\ q.pc = "rollback"
          /\ q.r = wk[w].r /\ q.run = wk[w].run
      BY WorkerRecord DEF WFields
    <3> HIDE DEF q
    <3> QED  BY <1>5, <3>1, <3>2
  <2>2. ASSUME NEW to \in {"files", "container", "verify", "mark"},
               wk' = [wk EXCEPT ![w] = [@ EXCEPT !.pc = to]]
        PROVE  \E q : /\ wk' = [wk EXCEPT ![w] = q] /\ DOMAIN q = WFields /\ DOMAIN q.mem = MFields
                      /\ q.pc \in {"rollback", "files", "container", "verify", "mark"}
                      /\ q.r = wk[w].r /\ q.run = wk[w].run /\ q.mem.tenant = req[wk[w].r].tenant
    <3> DEFINE q == [wk[w] EXCEPT !.pc = to]
    <3>1. wk' = [wk EXCEPT ![w] = q]
      BY <2>2
    <3>2. /\ DOMAIN q = WFields /\ q.mem = wk[w].mem /\ q.pc = to
          /\ q.r = wk[w].r /\ q.run = wk[w].run
      BY WorkerRecord DEF WFields
    <3>3. DOMAIN q.mem = MFields /\ q.mem.tenant = req[wk[w].r].tenant
      BY <1>4, <3>2, WorkerRecord
    <3> HIDE DEF q
    <3> QED  BY <3>1, <3>2, <3>3
  <2> QED  BY <1>2, <2>1, <2>2
<1>8. /\ q.pc \in AtJob \ {"check", "start", "mark_again", "remove", "ready"}
      /\ q.pc # "close" /\ q.pc # "rows"
  BY <1>7 DEF AtJob, Building
<1>9. /\ \A x \in made : x \in made' \/ x[2] = req[wk[w].r].tenant
      /\ \A x \in made' : x \in made \/ x \in Build!Kinds \X {req[wk[w].r].tenant}
  BY <1>2, <1>4
<1>10. req[wk[w].r].tenant # 0 /\ \A x \in tenants : x \in tenants' \/ x = req[wk[w].r].tenant
  BY <1>1, <1>4
<1> QED  BY <1>1, <1>3, <1>5, <1>6, <1>7, <1>8, <1>9, <1>10, JobTouches

(* The rollback removes the resources of the tenant that the row named.     *)
LEMMA RemoveStep ==
    ASSUME BInv, NEW w \in Workers, Build!RemoveResources(w)
    PROVE  BInv'
<1> DEFINE t == wk[w].target
           doomed == {x \in made : x[2] = t /\ Build!MayRemove(x[1], wk[w].run, t)}
           q == [wk[w] EXCEPT !.pc = "rows"]
<1>1. /\ wk[w].pc = "remove" /\ req' = req /\ inst' = inst /\ tenants' = tenants
      /\ crashed' = crashed /\ wk' = [wk EXCEPT ![w] = q]
  BY DEF Build!RemoveResources, Build!Goto
<1>2. PICK kept \in SUBSET doomed, n \in {count.faults, count.faults + 1} :
        /\ made' = made \ (doomed \ kept) /\ count' = [count EXCEPT !.faults = n]
        /\ kept # {} => n = count.faults + 1
  <2>1. PICK kept \in SUBSET doomed :
          /\ made' = made \ (doomed \ kept)
          /\ count' = [count EXCEPT !.faults = IF kept = {} THEN @ ELSE @ + 1]
    BY DEF Build!RemoveResources
  <2>2. DOMAIN count = NFields
    BY DEF BInv, BShapes
  <2>3. CASE kept = {}
    BY <2>1, <2>2, <2>3 DEF NFields
  <2>4. CASE kept # {}
    BY <2>1, <2>2, <2>4 DEF NFields
  <2> QED  BY <2>3, <2>4
<1>3. wk[w].pc \in AtJob /\ wk[w].pc # "check"
  BY <1>1 DEF AtJob
<1>4. /\ wk[w].target = req[wk[w].r].tenant /\ wk[w].mem.tenant = req[wk[w].r].tenant
      /\ Clean /\ t # 0 => wk[w].run = t
  BY <1>1, <1>3, WorkerRecord DEF WorkerOk, WorkerTidy
<1>5. DOMAIN count = NFields /\ count.runs \in Nat /\ count.faults \in Nat
  BY DEF BInv, BShapes
<1>6. DOMAIN count' = NFields /\ count'.runs = count.runs /\ count'.faults = n
  BY <1>2, <1>5 DEF NFields
<1>7. n \in Nat /\ (Clean' => Clean /\ kept = {})
  BY <1>1, <1>2, <1>5, <1>6 DEF Clean
<1>8. /\ req' = [req EXCEPT ![wk[w].r] = req[wk[w].r]] /\ DOMAIN req[wk[w].r] = CFields
  BY <1>1, <1>3, JobRow
<1>9. /\ DOMAIN q = WFields /\ q.mem = wk[w].mem /\ q.pc = "rows" /\ q.target = t
      /\ q.r = wk[w].r /\ q.run = wk[w].run /\ DOMAIN q.mem = MFields
  BY WorkerRecord DEF WFields
<1>10. q.pc \in AtJob \ {"check", "start", "mark_again", "remove", "ready"} /\ q.pc \notin Building
  BY <1>9 DEF AtJob, Building
<1>11. \A x \in made : x[2] # 0
  BY DEF BInv, MadeOk
<1>12. Clean' => \A x \in made' : x[2] # t
  BY <1>2, <1>4, <1>7, <1>11 DEF Build!MayRemove
<1>13. /\ \A x \in made : x \in made' \/ x[2] = t
       /\ \A x \in made' : x \in made
  BY <1>2
<1>14. q.mem.tenant = req[wk[w].r].tenant /\ q.target = req[wk[w].r].tenant
  BY <1>4, <1>9
<1>15. /\ \A x \in made : x \in made' \/ x[2] = req[wk[w].r].tenant
       /\ \A x \in tenants : x \in tenants' \/ x = req[wk[w].r].tenant
       /\ Clean' => \A x \in made' : x[2] # q.target
       /\ count'.faults \in Nat /\ (Clean' => Clean) /\ q.pc # "close"
  BY <1>1, <1>4, <1>6, <1>7, <1>9, <1>12, <1>13
<1> HIDE DEF q, t, doomed
<1> QED  BY <1>1, <1>3, <1>6, <1>8, <1>9, <1>10, <1>13, <1>14, <1>15, JobTouches

(* The tenant's rows are deleted after its resources.                       *)
LEMMA DeleteTenantStep ==
    ASSUME BInv, NEW w \in Workers, Build!DeleteTenant(w)
    PROVE  BInv'
<1> DEFINE t == wk[w].target
<1>1. /\ wk[w].pc = "rows" /\ inst' = inst /\ tenants' = tenants \ {t} /\ made' = made
      /\ count' = count /\ crashed' = crashed
  BY DEF Build!DeleteTenant
<1>2. wk[w].pc \in AtJob /\ wk[w].pc # "check"
  BY <1>1 DEF AtJob
<1>3. /\ wk[w].target = req[wk[w].r].tenant
      /\ Clean => \A x \in made : x[2] # t
  BY <1>1, <1>2, WorkerRecord DEF WorkerOk, WorkerTidy
<1>4. PICK m : m = IF t # Build!NoRun /\ t \notin tenants
                   THEN [Build!Copy(wk[w].r) EXCEPT !.tenant = Build!NoRun]
                   ELSE [wk[w].mem EXCEPT !.tenant = Build!NoRun]
  OBVIOUS
<1>5. PICK k : k = IF t # Build!NoRun THEN Build!NoRun ELSE req[wk[w].r].tenant
  OBVIOUS
<1>6. k = 0
  BY <1>3, <1>5 DEF Build!NoRun
<1> DEFINE new == [req[wk[w].r] EXCEPT !.tenant = k]
           q == [wk[w] EXCEPT !.pc = "close", !.mem = m]
<1>7. req' = [req EXCEPT ![wk[w].r] = new]
  BY <1>2, <1>5, JobRow DEF Build!DeleteTenant, CFields
<1>8. wk' = [wk EXCEPT ![w].pc = "close", ![w].mem = m]
  BY <1>4, WorkerRecord DEF Build!DeleteTenant, WFields
<1>9. wk' = [wk EXCEPT ![w] = q]
  BY <1>8, WorkerRecord
<1>10. DOMAIN m = MFields /\ m.tenant = 0
  BY <1>2, <1>4, JobRow, WorkerRecord DEF MFields, Build!NoRun
<1>11. /\ DOMAIN new = CFields /\ new.tenant = 0 /\ new.status = req[wk[w].r].status
       /\ new.lease = req[wk[w].r].lease
  BY <1>2, <1>6, JobRow DEF CFields
<1>12. DOMAIN q = WFields /\ q.mem = m /\ q.pc = "close" /\ q.r = wk[w].r /\ q.run = wk[w].run
  BY WorkerRecord DEF WFields
<1>13. q.pc \in AtJob \ {"check", "start", "mark_again", "remove", "ready"} /\ q.pc \notin Building
       /\ q.pc # "rows"
  BY <1>12 DEF AtJob, Building
<1>14. /\ DOMAIN count' = NFields /\ count'.runs = count.runs /\ count'.faults \in Nat
       /\ Clean' = Clean
  BY <1>1 DEF BInv, BShapes, Clean
<1>15. /\ \A x \in tenants : x \in tenants' \/ x = req[wk[w].r].tenant
       /\ Clean => \A x \in made' : x[2] # req[wk[w].r].tenant
  BY <1>1, <1>3
<1> HIDE DEF new, q
<1> QED  BY <1>1, <1>2, <1>7, <1>9, <1>10, <1>11, <1>12, <1>13, <1>14, <1>15, JobTouches, ZenonT(60)

(* The instance is published when every stage is done.                      *)
LEMMA MarkReadyStep ==
    ASSUME BInv, NEW w \in Workers, Build!MarkReady(w)
    PROVE  BInv'
<1>0. PICK r : r = wk[w].r
  OBVIOUS
<1>1. /\ wk[w].pc = "ready" /\ tenants' = tenants /\ made' = made
      /\ count' = count /\ crashed' = crashed
  BY DEF Build!MarkReady
<1>2. wk[w].pc \in AtJob /\ wk[w].pc \in Building /\ wk[w].pc # "check"
  BY <1>1 DEF AtJob, Building
<1>3. /\ wk[w].run = req[r].tenant /\ wk[w].run # 0 /\ Build!Kinds \X {wk[w].run} \subseteq made
      /\ wk[w].mem.tenant = req[r].tenant
  BY <1>0, <1>1, <1>2, WorkerRecord DEF WorkerOk
<1>4. CASE wk[w].run \in tenants
  <2> DEFINE new == [req[r] EXCEPT !.status = "ready", !.verified = TRUE]
             i == [status |-> "ready", verified |-> TRUE]
  <2>1. /\ req' = [req EXCEPT ![r].status = "ready", ![r].verified = TRUE]
        /\ inst' = [inst EXCEPT ![r] = i] /\ wk' = [wk EXCEPT ![w] = Build!Idle]
    BY <1>0, <1>4 DEF Build!MarkReady
  <2>2. r \in Build!Requests /\ r # 0 /\ DOMAIN req[r] = CFields /\ r \in DOMAIN req
    BY <1>0, <1>2, JobRow
  <2>3. req' = [req EXCEPT ![r] = new]
    BY <2>1, <2>2
  <2>4. DOMAIN new = CFields /\ new.status = "ready" /\ new.tenant = req[r].tenant
    BY <2>2 DEF CFields
  <2>5. DOMAIN i = IFields /\ i.status = "ready"
    BY DEF IFields
  <2> HIDE DEF new, i
  <2>6. /\ req'[r] = new /\ inst'[r] = i /\ wk'[w] = Build!Idle
        /\ \A v \in Workers \ {w} : wk'[v] = wk[v]
    BY <2>1, <2>2, <2>3, RequestRow, WorkerRecord
  <2>7. \A v \in Workers : wk'[v].r # r
    BY <1>0, <1>2, <2>2, <2>6, WorkerRecord DEF BInv
  <2>8. /\ DOMAIN count' = NFields /\ count'.runs \in Nat /\ count'.faults \in Nat
        /\ count.runs <= count'.runs /\ Clean' = Clean
    BY <1>1 DEF BInv, BShapes, Clean
  <2>9. WorkerOk(w)' /\ WorkerTidy(w)'
    <3>1. WorkerOk(w)'
      BY <2>6, WorkerRecord DEF WorkerOk, AtJob, Building
    <3>2. WorkerTidy(w)'
      BY <2>6, WorkerRecord DEF WorkerTidy, AtJob, Building
    <3> QED  BY <3>1, <3>2
  <2>10. RequestOk(r)
    BY <2>2 DEF BInv
  <2>11. RequestOk(r)'
    BY <1>1, <1>3, <1>4, <2>4, <2>6, <2>7, <2>8, <2>10 DEF RequestOk
  <2>12. Build!Idle.r \in {0, wk[w].r} /\ Build!Idle.pc # "reconcile"
    BY WorkerRecord
  <2>13. req' = [req EXCEPT ![wk[w].r] = new] /\ inst' = [inst EXCEPT ![wk[w].r] = i]
    BY <1>0, <2>1, <2>3
  <2>14. new.tenant = req[wk[w].r].tenant
    BY <1>0, <2>4
  <2>15. PICK q : q = Build!Idle
    OBVIOUS
  <2>16. /\ DOMAIN q = WFields /\ DOMAIN q.mem = MFields /\ wk' = [wk EXCEPT ![w] = q]
         /\ q.r \in {0, wk[w].r} /\ q.pc # "reconcile"
    BY <2>1, <2>12, <2>15, WorkerRecord
  <2>17. /\ new.tenant \in {0, req[wk[w].r].tenant} \/ new.tenant > count.runs
         /\ \A s \in Build!Requests \ {wk[w].r} :
              req[s].tenant # 0 /\ req[s].tenant \in tenants => req[s].tenant \in tenants'
    BY <1>1, <2>14
  <2>18. /\ \A x \in made : x \in made' \/ x[2] = req[wk[w].r].tenant
         /\ \A x \in made' : x \in made \/ (x \in Build!Kinds \X {new.tenant} /\ new.tenant # 0)
         /\ Clean' => \A x \in made' : x[2] = req[wk[w].r].tenant => x[2] = new.tenant
    BY <1>1, <2>14
  <2>19. Clean' => Clean
    BY <2>8
  <2> QED  BY <1>0, <1>2, <2>4, <2>5, <2>8, <2>9, <2>11, <2>13, <2>16, <2>17, <2>18, <2>19, JobActs
<1>5. CASE wk[w].run \notin tenants
  <2> DEFINE q == [wk[w] EXCEPT !.pc = "mark", !.mem = Build!Copy(wk[w].r)]
  <2>1. req' = req /\ inst' = inst /\ wk' = [wk EXCEPT ![w].pc = "mark", ![w].mem = Build!Copy(wk[w].r)]
    BY <1>5 DEF Build!MarkReady
  <2>2. wk' = [wk EXCEPT ![w] = q]
    BY <2>1, WorkerRecord
  <2>3. /\ DOMAIN q = WFields /\ q.mem = Build!Copy(wk[w].r) /\ q.pc = "mark"
        /\ q.r = wk[w].r /\ q.run = wk[w].run
    BY WorkerRecord DEF WFields
  <2>4. DOMAIN q.mem = MFields /\ q.mem.tenant = req[wk[w].r].tenant
    BY <1>2, <2>3, JobRow
  <2>5. /\ q.pc \in AtJob \ {"check", "start", "close", "rows", "remove"} /\ q.pc # "mark_again"
        /\ q.pc \notin Building /\ q.pc # "ready"
    BY <2>3 DEF AtJob, Building
  <2> HIDE DEF q
  <2> QED  BY <1>1, <1>2, <2>1, <2>2, <2>3, <2>4, <2>5, SameRow
<1> QED  BY <1>4, <1>5

(* Every step of the builds keeps the invariant.                            *)
LEMMA BuildStep ==
    ASSUME BInv, ~Overlap, Build!Next
    PROVE  BInv'
<1>1. ASSUME Build!ensure_cloud_template_validated \/ Build!LoseTemplate
      PROVE  BInv'
  BY <1>1, TemplateStep
<1>2. ASSUME NEW r \in Build!Requests,
             \/ Build!Operator(r) \/ Build!EditInputs(r)
             \/ Build!ExpireLease(r) \/ Build!BackoffOver(r)
      PROVE  BInv'
  BY <1>2, ApprovalStep, OperatorStep, TemplateStep DEF Build!Operator
<1>3. ASSUME NEW w \in Workers,
             Build!WorkerStep(w) \/ Build!dry_claim_check(w) \/ Build!Crash(w)
      PROVE  BInv'
  BY <1>3, PollSteps, ReconcileStep, ClaimJobStep, CheckApprovalStep, DryClaimStep, VerifyStep,
     MarkFailedStep, MarkFailedAgainStep, RollbackIntentStep, CloseRollbackStep,
     ReserveTenantStep, BuildStageStep, RemoveStep, DeleteTenantStep, MarkReadyStep, CrashStep
     DEF Build!WorkerStep
<1> QED  BY <1>1, <1>2, <1>3 DEF Build!Next

(* The invariant holds at the start.                                        *)
LEMMA BuildBegins ==
    ASSUME CloudInit
    PROVE  BInv
<1>1. /\ req = [r \in Build!Requests |-> Build!NoRow]
      /\ inst = [r \in Build!Requests |-> [status |-> "absent", verified |-> FALSE]]
      /\ wk = [w \in Workers |-> Build!Idle] /\ made = {}
      /\ count = [runs |-> 0, crashes |-> 0, edits |-> 0, faults |-> 0]
  BY DEF CloudInit, Build!Init
<1>2. /\ DOMAIN Build!NoRow = CFields /\ Build!NoRow.tenant = 0
      /\ DOMAIN Build!Idle = WFields /\ DOMAIN Build!Idle.mem = MFields
      /\ Build!Idle.r = 0 /\ Build!Idle.pc = "idle"
  BY DEF Build!NoRow, Build!NoRun, Build!Idle, CFields, WFields, MFields
<1>3. "idle" \notin AtJob \cup Building
  BY DEF AtJob, Building
<1>4. BShapes
  BY <1>1, <1>2 DEF BShapes, IFields, NFields
<1>5. MadeOk
  BY <1>1 DEF MadeOk
<1>6. \A w \in Workers : WorkerOk(w) /\ WorkerTidy(w)
  BY <1>1, <1>2, <1>3 DEF WorkerOk, WorkerTidy
<1>7. \A r \in Build!Requests : RequestOk(r)
  BY <1>1, <1>2 DEF RequestOk
<1> QED  BY <1>1, <1>2, <1>3, <1>4, <1>5, <1>6, <1>7 DEF BInv

(* BInv holds of every state, when a lease outlives its work.               *)
LEMMA BuildInvariant ==
    ASSUME ~Overlap
    PROVE  CloudSpec => []BInv
<1>1. CloudInit => BInv
  BY BuildBegins
<1>2. BInv /\ [CloudNext]_all => BInv'
  <2> SUFFICES ASSUME BInv, [CloudNext]_all
               PROVE  BInv'
    OBVIOUS
  <2>1. CASE Build!Next
    BY <2>1, BuildStep
  <2>2. CASE UNCHANGED buildVars
    BY <2>2, BuildStutter DEF buildVars, BInv, BShapes
  <2> QED  BY <2>1, <2>2 DEF CloudNext, all
<1>3. CloudSpec => CloudInit /\ [][CloudNext]_all
  BY PTL DEF CloudSpec
<1> QED  BY <1>1, <1>2, <1>3, PTL

(* Two workers never build the same request, for any number of workers,     *)
(* requests, crashes and retries (claim_next_real_cloud_job,                *)
(* reconcile_stale_cloud_jobs).                                             *)
THEOREM OneBuildsARequest ==
    ASSUME ~Overlap
    PROVE  CloudSpec => []OneExecutor
<1>1. BInv => OneExecutor
  <2>1. Build!Executing \cup Build!Recovery \subseteq AtJob
    BY DEF Build!Executing, Build!Recovery, AtJob, Building
  <2> QED  BY <2>1 DEF BInv, OneExecutor, Build!OneExecutor
<1> QED  BY <1>1, BuildInvariant, PTL

(* An instance that is open to its customer has its tenant, its database,   *)
(* its files and its container (execute_real_cloud_job, MarkReady), for any *)
(* number of workers and requests.                                          *)
THEOREM OpenedInstanceIsServed ==
    ASSUME ~Overlap
    PROVE  CloudSpec => []OpenIsServed
<1>1. BInv => OpenIsServed
  BY DEF BInv, RequestOk, OpenIsServed, Build!OpenIsServed, Build!can_open_odoo
<1> QED  BY <1>1, BuildInvariant, PTL

(* A job whose rollback is complete left nothing behind, unless a worker    *)
(* died or a call failed, for any number of workers and requests (rollback  *)
(* of execute_real_cloud_job).                                              *)
THEOREM RollbackNamesAllItMade ==
    ASSUME ~Overlap
    PROVE  CloudSpec => []RolledBackIsClean
<1>1. BInv => RolledBackIsClean
  <2> SUFFICES ASSUME BInv, \A w \in Workers : wk[w].r = 0, crashed = {}, count.faults = 0,
                      NEW x \in made
               PROVE  \E r \in Build!Requests : req[r].tenant = x[2] /\ req[r].status = "ready"
    BY DEF RolledBackIsClean, Build!RolledBackIsClean
  <2>1. Clean
    BY DEF Clean
  <2>2. PICK r \in Build!Requests : req[r].tenant = x[2]
    BY <2>1 DEF BInv, MadeOk
  <2>3. x[2] # 0
    BY DEF BInv, MadeOk
  <2>4. \A w \in Workers : wk[w].r # r
    BY DEF Build!Requests
  <2> QED  BY <2>1, <2>2, <2>3, <2>4 DEF BInv, RequestOk
<1> QED  BY <1>1, BuildInvariant, PTL

-------------------------------------------------------------------------------

(* The columns of a reservation ...                                         *)
RFields == {"state", "size", "node", "late", "checkout"}

(* ... and what a handler remembers.                                        *)
TFields == {"pc", "size", "seen", "node", "rows", "res", "com", "stale"}

(* The units that the rows S hold on node n when f is the table ...         *)
UnitsIn(f, n, S) == UNION {{r} \X (1 .. f[r].size) : r \in {s \in S : f[s].node = n}}

(* ... and their number.                                                    *)
Held(f, n, S) == Cardinality(UnitsIn(f, n, S))

(* Every row of f has a size.                                               *)
Sized(f) == \A r \in Reservations : f[r].size \in Nat

(* HeldOn counts the units of the table as it is, and as it will be.        *)
LEMMA HeldIs ==
    /\ \A n, S : HeldOn(n, S) = Held(rsv, n, S)
    /\ \A n, S : HeldOn(n, S)' = Held(rsv', n, S)
BY DEF HeldOn, Held, Units, UnitsIn

(* A unit belongs to a row on the node.                                     *)
LEMMA UnitsMember ==
    ASSUME NEW f, NEW n, NEW S, NEW u
    PROVE  u \in UnitsIn(f, n, S) <=>
             \E r \in S : f[r].node = n /\ u \in {r} \X (1 .. f[r].size)
BY DEF UnitsIn

(* The units are finitely many, so their number is a number.                *)
LEMMA UnitsFinite ==
    ASSUME NEW f, NEW n, NEW S, S \subseteq Reservations, Sized(f)
    PROVE  IsFiniteSet(UnitsIn(f, n, S)) /\ Held(f, n, S) \in Nat
<1> DEFINE Q == {s \in S : f[s].node = n}
           g == [r \in Q |-> {r} \X (1 .. f[r].size)]
           Z == {{r} \X (1 .. f[r].size) : r \in Q}
<1>1. IsFiniteSet(Reservations)
  BY FS_Interval, ReservationAssumption DEF Reservations
<1>2. IsFiniteSet(Q)
  BY <1>1, FS_Subset
<1>3. g \in Surjection(Q, Z)
  BY DEF Surjection
<1>4. IsFiniteSet(Z)
  BY <1>2, <1>3, FS_Surjection
<1>5. \A T \in Z : IsFiniteSet(T)
  <2> SUFFICES ASSUME NEW r \in Q
               PROVE  IsFiniteSet({r} \X (1 .. f[r].size))
    OBVIOUS
  <2>1. f[r].size \in Int /\ 1 \in Int
    BY DEF Sized
  <2>2. IsFiniteSet(1 .. f[r].size)
    BY <2>1, FS_Interval
  <2> QED  BY <2>2, FS_Singleton, FS_Product
<1>6. IsFiniteSet(UNION Z)
  BY <1>4, <1>5, FS_UNION
<1> QED  BY <1>6, FS_CardinalityType DEF Held, UnitsIn

(* Disjoint sets of rows hold the sum of what each holds.                   *)
LEMMA HeldJoin ==
    ASSUME NEW f, NEW n, NEW S, NEW T, S \subseteq Reservations, T \subseteq Reservations,
           S \cap T = {}, Sized(f)
    PROVE  Held(f, n, S \cup T) = Held(f, n, S) + Held(f, n, T)
<1>1. /\ IsFiniteSet(UnitsIn(f, n, S)) /\ IsFiniteSet(UnitsIn(f, n, T))
      /\ Held(f, n, S) \in Nat /\ Held(f, n, T) \in Nat
  BY UnitsFinite
<1>2. UnitsIn(f, n, S \cup T) = UnitsIn(f, n, S) \cup UnitsIn(f, n, T)
  BY UnitsMember
<1>3. UnitsIn(f, n, S) \cap UnitsIn(f, n, T) = {}
  BY UnitsMember
<1>4. Cardinality({}) = 0
  BY FS_EmptySet
<1>5. PICK X, Y : X = UnitsIn(f, n, S) /\ Y = UnitsIn(f, n, T)
  OBVIOUS
<1>6. IsFiniteSet(X) /\ IsFiniteSet(Y)
  BY <1>1, <1>5
<1>7. Cardinality(X \cup Y) = Cardinality(X) + Cardinality(Y) - Cardinality(X \cap Y)
  BY <1>6, FS_Union
<1>8. X \cap Y = {}
  BY <1>3, <1>5
<1>9. Cardinality(X \cup Y) = Cardinality(X) + Cardinality(Y) - 0
  BY <1>4, <1>7, <1>8
<1>10. Held(f, n, S \cup T) = Cardinality(X \cup Y)
  BY <1>2, <1>5 DEF Held
<1>11. Held(f, n, S) = Cardinality(X) /\ Held(f, n, T) = Cardinality(Y)
  BY <1>5 DEF Held
<1> QED  BY <1>1, <1>9, <1>10, <1>11

(* One row holds its size, on its node.                                     *)
LEMMA HeldOne ==
    ASSUME NEW f, NEW n, NEW r \in Reservations, Sized(f)
    PROVE  Held(f, n, {r}) = IF f[r].node = n THEN f[r].size ELSE 0
<1>1. f[r].size \in Nat
  BY DEF Sized
<1>2. CASE f[r].node = n
  <2>1. UnitsIn(f, n, {r}) = {r} \X (1 .. f[r].size)
    BY <1>2, UnitsMember
  <2>2. IsFiniteSet(1 .. f[r].size) /\ Cardinality(1 .. f[r].size) = f[r].size
    <3>1. PICK k \in Int : k = f[r].size /\ k >= 0
      BY <1>1
    <3>2. 1 \in Int
      OBVIOUS
    <3>3. IsFiniteSet(1 .. k) /\ Cardinality(1 .. k) = IF 1 > k THEN 0 ELSE k - 1 + 1
      BY <3>1, <3>2, FS_Interval
    <3> QED  BY <3>1, <3>3
  <2>3. IsFiniteSet({r}) /\ Cardinality({r}) = 1
    BY FS_Singleton, Zenon
  <2>4. PICK T : T = 1 .. f[r].size
    OBVIOUS
  <2>5. IsFiniteSet(T) /\ Cardinality(T) = f[r].size /\ UnitsIn(f, n, {r}) = {r} \X T
    BY <2>1, <2>2, <2>4
  <2>6. Cardinality({r} \X T) = Cardinality({r}) * Cardinality(T)
    BY <2>3, <2>5, FS_Product
  <2>7. Cardinality({r} \X T) = f[r].size
    BY <1>1, <2>3, <2>5, <2>6
  <2> QED  BY <1>2, <2>5, <2>7 DEF Held
<1>3. CASE f[r].node # n
  <2>1. UnitsIn(f, n, {r}) = {}
    BY <1>3, UnitsMember
  <2> QED  BY <1>3, <2>1, FS_EmptySet DEF Held
<1> QED  BY <1>2, <1>3

(* What rows hold depends on their node and their size only.                *)
LEMMA HeldSame ==
    ASSUME NEW f, NEW g, NEW n, NEW S,
           \A r \in S : f[r].node = g[r].node /\ f[r].size = g[r].size
    PROVE  Held(f, n, S) = Held(g, n, S)
<1>1. \A u : u \in UnitsIn(f, n, S) <=> u \in UnitsIn(g, n, S)
  BY UnitsMember
<1>2. UnitsIn(f, n, S) = UnitsIn(g, n, S)
  BY <1>1
<1> QED  BY <1>2 DEF Held

(* The max(0, x) of the code.                                               *)
LEMMA MaxZero ==
    ASSUME NEW x \in Int
    PROVE  Max({0, x}) = IF x >= 0 THEN x ELSE 0
BY DEF Max

(* A handler on one row has that row.                                       *)
LEMMA MineIs ==
    ASSUME NEW r \in Reservations, NEW h, thread[h].rows = {r}
    PROVE  Mine(h) = r
BY DEF Mine, Min, Reservations

(* The least of a set of numbers is one of them.                            *)
LEMMA LeastOf ==
    ASSUME NEW S, S # {}, S \subseteq Nat
    PROVE  Min(S) \in S
<1>1. PICK x \in S : \A y \in S : ~ (<<y, x>> \in OpToRel(<, Nat))
  BY NatLessThanWellFounded, WFMin
<1>2. \A y \in S : x <= y
  <2> TAKE y \in S
  <2>1. x \in Nat /\ y \in Nat /\ ~(y < x)
    BY <1>1 DEF OpToRel
  <2> QED  BY <2>1
<1> QED  BY <1>2 DEF Min

(* The requests that reserve, which the event loop serves one by one ...    *)
Reserving == {"lock", "reserve"}

(* ... those on one row ...                                                 *)
OnRow == {"bind", "expire", "confirm", "fail"}

(* ... and those that sweep.                                                *)
Sweeping == {"list", "sweep"}

(* What a handler holds, whatever the others do.                            *)
ThreadHolds(h) ==
    /\ thread[h].stale \subseteq Nodes
    /\ thread[h].pc \in {"idle"} \cup Reserving \cup OnRow \cup Sweeping
    /\ thread[h].pc = "idle" => thread[h].rows = {}
    /\ thread[h].pc \in Reserving =>
         /\ thread[h].size \in Nat /\ thread[h].node \in Nodes /\ thread[h].rows = {}
         /\ Reservations \ Inserted # {}
    /\ thread[h].pc \in {"reserve", "sweep"} => thread[h].res \in Nat
    /\ thread[h].pc \in Sweeping => thread[h].rows \subseteq Inserted /\ thread[h].node \in Nodes
    /\ thread[h].pc \in OnRow =>
         /\ \E r \in Inserted : thread[h].rows = {r} /\ thread[h].node = rsv[r].node
         /\ thread[h].res \in Nat /\ thread[h].com \in Nat

(* What a handler has read of a node that nobody has written since is still *)
(* so when it writes: the counters, the room it found and the states of the *)
(* rows.                                                                    *)
ThreadKnows(h) ==
    /\ thread[h].node \notin raced \cup thread[h].stale =>
         /\ thread[h].pc \in Reserving =>
              reserved[thread[h].node] + committed[thread[h].node] + thread[h].size <= Sellable
         /\ thread[h].pc \in {"reserve", "sweep"} => thread[h].res = reserved[thread[h].node]
         /\ thread[h].pc \in OnRow =>
              /\ thread[h].res = reserved[thread[h].node]
              /\ thread[h].com = committed[thread[h].node]
    /\ \A r \in thread[h].rows : rsv[r].node \notin raced \cup thread[h].stale =>
         /\ thread[h].pc \in Sweeping \cup {"bind", "expire"} => rsv[r].state \in ACTIVE_STATES
         /\ thread[h].pc \in OnRow => thread[h].seen = rsv[r].state
         /\ thread[h].pc = "confirm" => rsv[r].state = "checkout_bound"
         /\ thread[h].pc = "fail" => rsv[r].checkout = "pending"

(* The states a row can be in.                                              *)
Reached == {"draft", "reserved", "checkout_bound", "committed", "released", "expired"}

(* Every row, counter and handler has its columns.                          *)
RShapes ==
    /\ rsv = [r \in Reservations |-> rsv[r]] /\ thread = [h \in Handlers |-> thread[h]]
    /\ reserved = [n \in Nodes |-> reserved[n]] /\ committed = [n \in Nodes |-> committed[n]]
    /\ \A n \in Nodes : reserved[n] \in Nat /\ committed[n] \in Nat
    /\ \A h \in Handlers : DOMAIN thread[h] = TFields
    /\ raced \subseteq Nodes

(* A row has its columns, a state and, once it is inserted, a node.         *)
RowOk(r) ==
    /\ DOMAIN rsv[r] = RFields /\ rsv[r].size \in Nat /\ rsv[r].state \in Reached
    /\ rsv[r].state # "draft" => rsv[r].node \in Nodes
    /\ rsv[r].state = "draft" => rsv[r].checkout = "none"

(* The rows of a node that hold capacity, and those that are sold.          *)
ActiveOn(n)    == {r \in Active : rsv[r].node = n}
CommittedOn(n) == {r \in Committed : rsv[r].node = n}

(* The counters of a node are what its rows hold, and fit it.               *)
LedgerOk(n) ==
    /\ reserved[n] = Seeded + Held(rsv, n, ActiveOn(n)) /\ committed[n] = Held(rsv, n, CommittedOn(n))
    /\ Seeded + Held(rsv, n, ActiveOn(n) \cup CommittedOn(n)) <= Sellable

(* The inductive invariant of the reservations.                             *)
RInv ==
    /\ RShapes /\ \A r \in Reservations : RowOk(r)
    /\ \A n \in Nodes \ raced : LedgerOk(n)
    /\ PaidIsCommitted
    /\ \A h \in Handlers : ThreadHolds(h) /\ ThreadKnows(h)
    /\ \A g, h \in Handlers : thread[g].pc \in Reserving /\ thread[h].pc \in Reserving => g = h

(* Only the rows on a node hold units of it.                                *)
LEMMA HeldThere ==
    ASSUME NEW f, NEW n, NEW S, NEW T, T = {s \in S : f[s].node = n}
    PROVE  Held(f, n, T) = Held(f, n, S)
<1>1. \A u : u \in UnitsIn(f, n, S) <=> u \in UnitsIn(f, n, T)
  BY UnitsMember
<1>2. UnitsIn(f, n, S) = UnitsIn(f, n, T)
  BY <1>1
<1> QED  BY <1>2 DEF Held

(* The invariant is as strong as the properties of the counters.            *)
LEMMA LedgersAreExact == RInv => CountersExact /\ NotOversold
<1> SUFFICES ASSUME RInv, NEW n \in Nodes \ raced
             PROVE  /\ reserved[n] = Seeded + HeldOn(n, Active) /\ committed[n] = HeldOn(n, Committed)
                    /\ Seeded + HeldOn(n, Active \cup Committed) <= Sellable
  BY DEF CountersExact, NotOversold, FitsNode
<1>1. LedgerOk(n)
  BY DEF RInv
<1>2. ActiveOn(n) \cup CommittedOn(n) = {r \in Active \cup Committed : rsv[r].node = n}
  BY DEF ActiveOn, CommittedOn
<1>3. /\ Held(rsv, n, ActiveOn(n)) = Held(rsv, n, Active)
      /\ Held(rsv, n, CommittedOn(n)) = Held(rsv, n, Committed)
      /\ Held(rsv, n, ActiveOn(n) \cup CommittedOn(n)) = Held(rsv, n, Active \cup Committed)
  BY <1>2, HeldThere DEF ActiveOn, CommittedOn
<1> QED  BY <1>1, <1>3, HeldIs DEF LedgerOk

(* The rows have sizes.                                                     *)
LEMMA RowsSized ==
    ASSUME RInv
    PROVE  /\ Sized(rsv) /\ Seeded \in Nat /\ Sellable \in Nat
           /\ \A n : ActiveOn(n) \subseteq Reservations /\ CommittedOn(n) \subseteq Reservations
           /\ \A n : ActiveOn(n) \cap CommittedOn(n) = {}
BY ReservationAssumption
   DEF RInv, RowOk, Sized, ActiveOn, CommittedOn, Active, Committed, ACTIVE_STATES

(* What RInv says of the counters of a node that no stale copy was written  *)
(* over.                                                                    *)
LEMMA Ledger ==
    ASSUME RInv, NEW n \in Nodes \ raced
    PROVE  /\ reserved[n] = Seeded + Held(rsv, n, ActiveOn(n))
           /\ committed[n] = Held(rsv, n, CommittedOn(n))
           /\ reserved[n] \in Nat /\ committed[n] \in Nat /\ Seeded \in Nat /\ Sellable \in Nat
           /\ reserved[n] + committed[n] <= Sellable
<1>1. LedgerOk(n)
  BY DEF RInv
<1>2. PICK A, C : A = ActiveOn(n) /\ C = CommittedOn(n)
  OBVIOUS
<1>3. /\ Sized(rsv) /\ A \subseteq Reservations /\ C \subseteq Reservations /\ A \cap C = {}
      /\ Seeded \in Nat /\ Sellable \in Nat
  BY <1>2, RowsSized
<1>4. Held(rsv, n, A) \in Nat /\ Held(rsv, n, C) \in Nat
  BY <1>3, UnitsFinite
<1>5. Held(rsv, n, A \cup C) = Held(rsv, n, A) + Held(rsv, n, C)
  BY <1>3, HeldJoin
<1> QED  BY <1>1, <1>2, <1>3, <1>4, <1>5 DEF LedgerOk

(* Counters that move with the rows stay exact: the rows out leave          *)
(* reserved, the rows new enter it, and the rows sold enter committed.      *)
LEMMA LedgerKept ==
    ASSUME RInv, Sized(rsv'), NEW n \in Nodes \ raced,
           NEW out \in SUBSET ActiveOn(n), NEW new \in SUBSET Reservations, new \cap ActiveOn(n) = {},
           NEW sold \in SUBSET out,
           ActiveOn(n)' = (ActiveOn(n) \ out) \cup new, CommittedOn(n)' = CommittedOn(n) \cup sold,
           ActiveOn(n)' \cap CommittedOn(n)' = {},
           \A r \in ActiveOn(n) \cup CommittedOn(n) :
              rsv'[r].node = rsv[r].node /\ rsv'[r].size = rsv[r].size,
           reserved'[n] = reserved[n] - Held(rsv, n, out) + Held(rsv', n, new),
           committed'[n] = committed[n] + Held(rsv, n, sold),
           reserved'[n] + committed'[n] <= Sellable
    PROVE  LedgerOk(n)'
<1>1. PICK A, C, B, D : A = ActiveOn(n)' /\ C = CommittedOn(n)' /\ B = ActiveOn(n) /\ D = CommittedOn(n)
  OBVIOUS
<1>2. /\ B \subseteq Reservations /\ D \subseteq Reservations /\ B \cap D = {} /\ Sized(rsv)
  BY <1>1, RowsSized
<1>3. PICK stay : stay = B \ out
  OBVIOUS
<1>4. /\ stay \subseteq Reservations /\ out \subseteq Reservations /\ sold \subseteq Reservations
      /\ stay \cap out = {} /\ stay \cup out = B /\ stay \cap new = {}
      /\ A = stay \cup new /\ C = D \cup sold /\ D \cap sold = {}
      /\ A \subseteq Reservations /\ C \subseteq Reservations /\ A \cap C = {}
  BY <1>1, <1>2, <1>3
<1>5. Held(rsv, n, B) = Held(rsv, n, stay) + Held(rsv, n, out)
  BY <1>2, <1>4, HeldJoin
<1>6. Held(rsv', n, A) = Held(rsv', n, stay) + Held(rsv', n, new)
  BY <1>4, HeldJoin
<1>7. Held(rsv', n, C) = Held(rsv', n, D) + Held(rsv', n, sold)
  BY <1>2, <1>4, HeldJoin
<1>8. /\ Held(rsv', n, stay) = Held(rsv, n, stay) /\ Held(rsv', n, sold) = Held(rsv, n, sold)
      /\ Held(rsv', n, D) = Held(rsv, n, D)
  <2>1. /\ \A r \in stay : rsv'[r].node = rsv[r].node /\ rsv'[r].size = rsv[r].size
        /\ \A r \in sold : rsv'[r].node = rsv[r].node /\ rsv'[r].size = rsv[r].size
        /\ \A r \in D : rsv'[r].node = rsv[r].node /\ rsv'[r].size = rsv[r].size
    BY <1>1, <1>4
  <2> QED  BY <2>1, HeldSame
<1>9. Held(rsv', n, A \cup C) = Held(rsv', n, A) + Held(rsv', n, C)
  BY <1>4, HeldJoin
<1>10. /\ Held(rsv, n, stay) \in Nat /\ Held(rsv, n, out) \in Nat /\ Held(rsv, n, sold) \in Nat
       /\ Held(rsv', n, new) \in Nat /\ Held(rsv, n, D) \in Nat
  BY <1>2, <1>4, UnitsFinite
<1>11. /\ reserved[n] = Seeded + Held(rsv, n, B) /\ committed[n] = Held(rsv, n, D)
       /\ Seeded \in Nat /\ Sellable \in Nat
  BY <1>1, Ledger
<1>12. /\ reserved'[n] = Seeded + Held(rsv', n, A) /\ committed'[n] = Held(rsv', n, C)
       /\ Seeded + Held(rsv', n, A \cup C) <= Sellable
  BY <1>5, <1>6, <1>7, <1>8, <1>9, <1>10, <1>11
<1> QED  BY <1>1, <1>12 DEF LedgerOk

(* A node none of whose rows and counters moves keeps its ledger.           *)
LEMMA LedgerSame ==
    ASSUME RInv, NEW n \in Nodes \ raced, reserved'[n] = reserved[n], committed'[n] = committed[n],
           \A r \in Reservations : \/ rsv'[r].node # n /\ (rsv[r].node # n \/ rsv[r].state = "draft")
                                   \/ rsv'[r].node = rsv[r].node /\ rsv'[r].size = rsv[r].size
                                      /\ rsv'[r].state = rsv[r].state
    PROVE  LedgerOk(n)'
<1>1. ActiveOn(n)' = ActiveOn(n) /\ CommittedOn(n)' = CommittedOn(n)
  BY DEF ActiveOn, CommittedOn, Active, Committed, ACTIVE_STATES
<1>2. LedgerOk(n)
  BY DEF RInv
<1>3. \A S \in SUBSET (ActiveOn(n) \cup CommittedOn(n)) : Held(rsv', n, S) = Held(rsv, n, S)
  <2> SUFFICES ASSUME NEW S \in SUBSET (ActiveOn(n) \cup CommittedOn(n))
               PROVE  Held(rsv', n, S) = Held(rsv, n, S)
    OBVIOUS
  <2>1. \A r \in S : rsv'[r].node = rsv[r].node /\ rsv'[r].size = rsv[r].size
    BY DEF ActiveOn, CommittedOn, Active, Committed, ACTIVE_STATES
  <2> QED  BY <2>1, HeldSame
<1> QED  BY <1>1, <1>2, <1>3 DEF LedgerOk

(* What RInv says of one handler.                                           *)
LEMMA ThreadRecord ==
    ASSUME RInv, NEW h \in Handlers
    PROVE  /\ DOMAIN thread[h] = TFields /\ h \in DOMAIN thread
           /\ ThreadHolds(h) /\ ThreadKnows(h)
           /\ thread = [g \in Handlers |-> thread[g]]
           /\ DOMAIN Idle = TFields /\ Idle.pc = "idle" /\ Idle.stale = {} /\ Idle.rows = {}
<1>1. DOMAIN Idle = TFields /\ Idle.pc = "idle" /\ Idle.stale = {} /\ Idle.rows = {}
  BY DEF Idle, TFields
<1> QED  BY <1>1 DEF RInv, RShapes

(* An idle handler holds nothing.                                           *)
LEMMA IdleKnows ==
    ASSUME NEW h, thread'[h] = Idle
    PROVE  ThreadHolds(h)' /\ ThreadKnows(h)'
<1>1. Idle.pc = "idle" /\ Idle.stale = {} /\ Idle.rows = {}
  BY DEF Idle
<1> QED  BY <1>1 DEF ThreadHolds, ThreadKnows, Reserving, OnRow, Sweeping

(* A step that only moves a handler keeps RInv when the handler knows what  *)
(* it read.                                                                 *)
LEMMA ReadStep ==
    ASSUME RInv, NEW h \in Handlers, UNCHANGED <<reserved, committed, rsv, raced>>,
           NEW t, DOMAIN t = TFields, thread' = [thread EXCEPT ![h] = t],
           ThreadHolds(h)', ThreadKnows(h)',
           t.pc \in Reserving => thread[h].pc \in Reserving \/ EventLoopFree
    PROVE  RInv'
<1>1. Active' = Active /\ Committed' = Committed /\ Inserted' = Inserted
  BY DEF Active, Committed, Inserted
<1>2. /\ thread'[h] = t /\ \A g \in Handlers \ {h} : thread'[g] = thread[g]
      /\ thread' = [g \in Handlers |-> thread'[g]]
  BY ThreadRecord
<1>3. RShapes' /\ \A r \in Reservations : RowOk(r)'
  BY <1>2 DEF RInv, RShapes, RowOk
<1>4. PaidIsCommitted' /\ \A n \in Nodes \ raced' : LedgerOk(n)'
  BY <1>1 DEF RInv, PaidIsCommitted, LedgerOk, ActiveOn, CommittedOn
<1>5. \A g \in Handlers : ThreadHolds(g)' /\ ThreadKnows(g)'
  BY <1>1, <1>2 DEF RInv, ThreadHolds, ThreadKnows
<1>6. \A g, k \in Handlers : thread'[g].pc \in Reserving /\ thread'[k].pc \in Reserving => g = k
  BY <1>2 DEF RInv, EventLoopFree, Reserving
<1> QED  BY <1>3, <1>4, <1>5, <1>6 DEF RInv

(* A request that is refused writes nothing.                                *)
LEMMA DoneStep ==
    ASSUME RInv, NEW h \in Handlers, Done(h), UNCHANGED <<reserved, committed, rsv, raced>>
    PROVE  RInv'
<1>1. thread' = [thread EXCEPT ![h] = Idle] /\ thread'[h] = Idle
  BY ThreadRecord DEF Done
<1>2. ThreadHolds(h)' /\ ThreadKnows(h)'
  BY <1>1, IdleKnows
<1>3. PICK t : t = Idle
  OBVIOUS
<1>4. DOMAIN t = TFields /\ t.pc \notin Reserving /\ thread' = [thread EXCEPT ![h] = t]
  BY <1>1, <1>3, ThreadRecord DEF Reserving
<1> QED  BY <1>2, <1>4, ReadStep

(* A request writes only the nodes it has in hand, and moves no row between *)
(* nodes.                                                                   *)
Local(h) ==
    /\ \A n \in Nodes : ~InHand(h, n) => reserved'[n] = reserved[n] /\ committed'[n] = committed[n]
    /\ \A r \in Reservations : rsv'[r] = rsv[r] \/ InHand(h, rsv'[r].node)
    /\ \A r \in Inserted :
         rsv'[r].node = rsv[r].node /\ rsv'[r].size = rsv[r].size /\ rsv'[r].state # "draft"
    /\ Inserted' = Inserted \/ thread[h].pc = "reserve"

(* A handler that does not commit still holds what it held, and what it     *)
(* knows of the nodes that nobody has written since it read them.           *)
LEMMA OthersKnow ==
    ASSUME RInv, NEW h \in Handlers, Commits(h), Local(h), NEW g \in Handlers \ {h}
    PROVE  /\ DOMAIN thread'[g] = TFields /\ thread'[g].pc = thread[g].pc
           /\ ThreadHolds(g)' /\ ThreadKnows(g)'
<1>1. /\ DOMAIN thread[g] = TFields /\ ThreadHolds(g) /\ ThreadKnows(g)
  BY ThreadRecord
<1> DEFINE both == {n \in Nodes : InHand(h, n) /\ InHand(g, n)}
<1>2. thread'[g] = [thread[g] EXCEPT !.stale = @ \cup both]
  BY DEF Commits
<1>3. /\ DOMAIN thread'[g] = TFields /\ thread'[g].pc = thread[g].pc
      /\ thread'[g].size = thread[g].size /\ thread'[g].seen = thread[g].seen
      /\ thread'[g].node = thread[g].node /\ thread'[g].rows = thread[g].rows
      /\ thread'[g].res = thread[g].res /\ thread'[g].com = thread[g].com
      /\ thread'[g].stale = thread[g].stale \cup both
  BY <1>1, <1>2 DEF TFields
<1>4. raced \subseteq raced' /\ \A r \in Inserted : r \in Reservations /\ rsv[r].node \in Nodes
  BY DEF Commits, Inserted, RInv, RowOk
<1>5. /\ \A r \in Inserted : r \in Inserted' /\ rsv'[r].node = rsv[r].node
      /\ thread[g].pc \in Reserving => Inserted' = Inserted
  <2>1. \A r \in Inserted : r \in Inserted' /\ rsv'[r].node = rsv[r].node
    BY DEF Local, Inserted
  <2>2. ~(thread[g].pc \in Reserving /\ thread[h].pc = "reserve")
    BY DEF RInv, Reserving
  <2> QED  BY <2>1, <2>2 DEF Local
<1> HIDE DEF both
<1>6. ThreadHolds(g)'
  <2>1. both \subseteq Nodes
    BY DEF both
  <2>2. thread[g].pc \in OnRow =>
           \E r \in Inserted' : thread[g].rows = {r} /\ thread[g].node = rsv'[r].node
    BY <1>1, <1>5 DEF ThreadHolds
  <2> QED  BY <1>1, <1>3, <1>5, <2>1, <2>2 DEF ThreadHolds
<1>7. CASE thread[g].pc = "idle"
  BY <1>1, <1>3, <1>6, <1>7 DEF ThreadHolds, ThreadKnows, Reserving, OnRow, Sweeping
<1>8. CASE thread[g].pc # "idle"
  <2>1. \A n \in Nodes : InHand(g, n) /\ n \notin thread'[g].stale =>
           ~InHand(h, n) /\ n \notin thread[g].stale
    BY <1>3 DEF both
  <2>2. thread[g].node \in Nodes /\ thread[g].rows \subseteq Inserted
    BY <1>1, <1>4, <1>8 DEF ThreadHolds, Reserving, OnRow, Sweeping
  <2>3. thread[g].node \notin raced' \cup thread'[g].stale =>
           /\ thread[g].node \notin raced \cup thread[g].stale
           /\ reserved'[thread[g].node] = reserved[thread[g].node]
           /\ committed'[thread[g].node] = committed[thread[g].node]
    BY <1>4, <1>8, <2>1, <2>2 DEF InHand, Local
  <2>4. \A r \in thread[g].rows : rsv'[r].node \notin raced' \cup thread'[g].stale =>
           rsv[r].node \notin raced \cup thread[g].stale /\ rsv'[r] = rsv[r]
    <3> TAKE r \in thread[g].rows
    <3> HAVE rsv'[r].node \notin raced' \cup thread'[g].stale
    <3>1. r \in Inserted /\ r \in Reservations /\ rsv'[r].node = rsv[r].node /\ rsv[r].node \in Nodes
      BY <1>4, <1>5, <2>2
    <3>2. InHand(g, rsv[r].node)
      BY <1>8 DEF InHand
    <3>3. ~InHand(h, rsv[r].node) /\ rsv[r].node \notin thread[g].stale
      BY <2>1, <3>1, <3>2
    <3> QED  BY <1>4, <3>1, <3>3 DEF Local
  <2>5. ThreadKnows(g)'
    BY <1>1, <1>3, <2>3, <2>4 DEF ThreadKnows
  <2> QED  BY <1>3, <1>6, <2>5
<1> QED  BY <1>7, <1>8

(* A commit keeps RInv when its rows fit and the counters of its nodes      *)
(* follow them, as far as what it read was still so.                        *)
LEMMA WriteStep ==
    ASSUME RInv, NEW h \in Handlers, Commits(h), Local(h),
           rsv' = [r \in Reservations |-> rsv'[r]],
           reserved' = [n \in Nodes |-> reserved'[n]], committed' = [n \in Nodes |-> committed'[n]],
           \A n \in Nodes : reserved'[n] \in Nat /\ committed'[n] \in Nat,
           \A r \in Reservations : RowOk(r)',
           \A r \in Reservations : rsv'[r].node \notin raced' =>
              (rsv'[r].checkout = "paid" <=> rsv'[r].state = "committed"),
           \A n \in Nodes \ raced' : InHand(h, n) => LedgerOk(n)'
    PROVE  RInv'
<1>1. /\ thread'[h] = Idle /\ thread' = [g \in Handlers |-> thread'[g]]
      /\ raced \subseteq raced' /\ raced' \subseteq Nodes
  <2>1. raced \subseteq Nodes /\ thread[h].stale \subseteq Nodes
    BY DEF RInv, RShapes, ThreadHolds
  <2> QED  BY <2>1 DEF Commits
<1>2. ThreadHolds(h)' /\ ThreadKnows(h)' /\ DOMAIN thread'[h] = TFields /\ thread'[h].pc = "idle"
  BY <1>1, IdleKnows, ThreadRecord
<1>3. \A g \in Handlers : DOMAIN thread'[g] = TFields /\ ThreadHolds(g)' /\ ThreadKnows(g)'
  BY <1>2, OthersKnow
<1>4. \A g, k \in Handlers : thread'[g].pc \in Reserving /\ thread'[k].pc \in Reserving => g = k
  <2>1. \A g \in Handlers : thread'[g].pc \in Reserving => thread[g].pc \in Reserving
    BY <1>2, OthersKnow DEF Reserving
  <2> QED  BY <2>1 DEF RInv
<1>5. RShapes'
  BY <1>1, <1>3 DEF RShapes
<1>6. \A n \in Nodes \ raced' : LedgerOk(n)'
  <2> TAKE n \in Nodes \ raced'
  <2>1. CASE ~InHand(h, n)
    <3>1. \A r \in Reservations : \/ rsv'[r].node # n /\ (rsv[r].node # n \/ rsv[r].state = "draft")
                                  \/ rsv'[r].node = rsv[r].node /\ rsv'[r].size = rsv[r].size
                                     /\ rsv'[r].state = rsv[r].state
      <4> TAKE r \in Reservations
      <4>1. CASE rsv'[r] = rsv[r]
        BY <4>1
      <4>2. CASE rsv'[r] # rsv[r]
        <5>1. rsv'[r].node # n
          BY <2>1, <4>2 DEF Local
        <5>2. CASE r \in Inserted
          BY <5>1, <5>2 DEF Local
        <5>3. CASE r \notin Inserted
          BY <5>1, <5>3 DEF Inserted
        <5> QED  BY <5>2, <5>3
      <4> QED  BY <4>1, <4>2
    <3>2. n \in Nodes \ raced
      BY <1>1
    <3>3. reserved'[n] = reserved[n] /\ committed'[n] = committed[n]
      BY <2>1 DEF Local
    <3> QED  BY <3>1, <3>2, <3>3, LedgerSame
  <2> QED  BY <2>1
<1> QED  BY <1>3, <1>4, <1>5, <1>6 DEF RInv, PaidIsCommitted

(* What is left on a node.                                                  *)
LEMMA Room ==
    ASSUME NEW n \in Nodes, reserved[n] \in Nat, committed[n] \in Nat, Sellable \in Nat
    PROVE  available(n) = IF Sellable - reserved[n] - committed[n] >= 0
                          THEN Sellable - reserved[n] - committed[n] ELSE 0
BY MaxZero DEF available

(* The preferred node is one with room.                                     *)
LEMMA PreferredFits ==
    ASSUME RInv, NEW q \in Sizes, candidate_nodes(q) # {}
    PROVE  preferred_candidate(q) \in candidate_nodes(q)
<1> DEFINE K == candidate_nodes(q)
           S == {Sellable - available(n) : n \in K}
<1>1. \A n \in Nodes : available(n) \in Nat /\ available(n) <= Sellable
  BY Room, ReservationAssumption DEF RInv, RShapes
<1>2. S # {} /\ S \subseteq Nat /\ K \subseteq Nodes
  <2>1. K # {} /\ K \subseteq Nodes /\ Sellable \in Nat
    BY ReservationAssumption DEF candidate_nodes
  <2>2. \A n \in K : Sellable - available(n) \in Nat
    BY <1>1, <2>1
  <2> HIDE DEF K
  <2>3. S # {} /\ S \subseteq Nat
    BY <2>1, <2>2
  <2> QED  BY <2>1, <2>3
<1>3. PICK k \in K : \A n \in K : available(k) >= available(n)
  <2>1. PICK x \in S : \A y \in S : ~ (<<y, x>> \in OpToRel(<, Nat))
    BY <1>2, NatLessThanWellFounded, WFMin
  <2>2. PICK k \in K : x = Sellable - available(k)
    OBVIOUS
  <2>3. \A n \in K : available(k) >= available(n)
    <3> TAKE n \in K
    <3>1. x \in Nat /\ Sellable - available(n) \in Nat /\ ~(Sellable - available(n) < x)
      BY <1>2, <2>1 DEF OpToRel
    <3>2. available(n) \in Nat /\ available(k) \in Nat /\ Sellable \in Nat
      BY <1>1, <1>2, ReservationAssumption
    <3>3. ~(Sellable - available(n) < Sellable - available(k))
      BY <2>2, <3>1
    <3> HIDE DEF K, S
    <3> QED  BY <3>2, <3>3
  <2> QED  BY <2>3
<1> DEFINE T == {n \in K : available(n) = available(k)}
<1>4. T # {} /\ T \subseteq Nat
  BY <1>2, ReservationAssumption
<1>5. PICK m \in T : \A n \in T : m <= n
  <2>1. PICK x \in T : \A y \in T : ~ (<<y, x>> \in OpToRel(<, Nat))
    BY <1>4, NatLessThanWellFounded, WFMin
  <2>2. \A y \in T : x <= y
    <3> TAKE y \in T
    <3>1. x \in Nat /\ y \in Nat /\ ~(y < x)
      BY <1>4, <2>1 DEF OpToRel
    <3> QED  BY <3>1
  <2> QED  BY <2>2
<1>6. \A n \in K : available(m) > available(n) \/ (available(m) = available(n) /\ m <= n)
  <2> TAKE n \in K
  <2>1. available(m) = available(k) /\ available(k) >= available(n)
    BY <1>3, <1>5
  <2>2. CASE n \in T
    BY <1>5, <2>1, <2>2
  <2>3. CASE n \notin T
    BY <1>1, <1>2, <1>3, <2>1, <2>3
  <2> QED  BY <2>2, <2>3
<1>7. m \in K
  OBVIOUS
<1> HIDE DEF S, T
<1> QED  BY <1>6, <1>7 DEF preferred_candidate

(* A quote reads a node with room.                                          *)
LEMMA QuoteStep ==
    ASSUME RInv, NEW h \in Handlers, NEW q \in Sizes, Quote(h, q)
    PROVE  RInv'
<1> DEFINE t == [Idle EXCEPT !.pc = "lock", !.size = q, !.node = preferred_candidate(q)]
<1>1. PICK n : n = preferred_candidate(q)
  OBVIOUS
<1>2. /\ UNCHANGED <<reserved, committed, rsv, raced>> /\ thread' = [thread EXCEPT ![h] = t]
      /\ candidate_nodes(q) # {} /\ Cardinality(Inserted) < MaxReservations /\ EventLoopFree
  BY DEF Quote
<1>3. /\ DOMAIN t = TFields /\ t.pc = "lock" /\ t.size = q /\ t.node = n /\ t.rows = {}
      /\ t.stale = {}
  BY <1>1 DEF Idle, TFields
<1>4. n \in Nodes /\ q <= available(n) /\ q \in Nat \ {0}
  BY <1>1, <1>2, PreferredFits, ReservationAssumption DEF candidate_nodes
<1>5. reserved[n] + committed[n] + q <= Sellable
  <2>1. reserved[n] \in Nat /\ committed[n] \in Nat /\ Sellable \in Nat
    BY <1>4, ReservationAssumption DEF RInv, RShapes
  <2>2. PICK x \in Int : x = Sellable - reserved[n] - committed[n]
    BY <2>1
  <2>3. q <= (IF x >= 0 THEN x ELSE 0)
    BY <1>4, <2>1, <2>2, Room
  <2>4. q <= x
    BY <1>4, <2>2, <2>3
  <2> QED  BY <1>4, <2>1, <2>2, <2>4
<1>6. Reservations \ Inserted # {}
  <2>1. Cardinality(Reservations) = MaxReservations
    BY FS_Interval, ReservationAssumption DEF Reservations
  <2>2. Inserted # Reservations
    BY <1>2, <2>1, ReservationAssumption
  <2> QED  BY <2>2 DEF Inserted
<1> HIDE DEF t
<1>7. thread'[h] = t /\ Inserted' = Inserted
  BY <1>2, ThreadRecord DEF Inserted
<1>8. ThreadHolds(h)'
  BY <1>3, <1>4, <1>6, <1>7 DEF ThreadHolds, Reserving, OnRow, Sweeping
<1>9. ThreadKnows(h)'
  BY <1>2, <1>3, <1>5, <1>7 DEF ThreadKnows, Reserving, OnRow, Sweeping
<1> QED  BY <1>2, <1>3, <1>8, <1>9, ReadStep

(* The node is read again before the reservation.                           *)
LEMMA LockStep ==
    ASSUME RInv, NEW h \in Handlers, LockNode(h)
    PROVE  RInv'
<1>1. UNCHANGED <<reserved, committed, rsv, raced>> /\ thread[h].pc = "lock"
  BY DEF LockNode, At
<1>2. CASE Done(h)
  BY <1>1, <1>2, DoneStep
<1>3. CASE thread' = [thread EXCEPT ![h].pc = "reserve", ![h].res = reserved[thread[h].node]]
  <2> DEFINE t == [thread[h] EXCEPT !.pc = "reserve", !.res = reserved[thread[h].node]]
  <2>1. thread' = [thread EXCEPT ![h] = t]
    BY <1>3, ThreadRecord
  <2>2. /\ DOMAIN t = TFields /\ t.pc = "reserve" /\ t.size = thread[h].size
        /\ t.node = thread[h].node /\ t.res = reserved[thread[h].node]
        /\ t.rows = thread[h].rows /\ t.stale = thread[h].stale
    BY ThreadRecord DEF TFields
  <2> HIDE DEF t
  <2>3. thread'[h] = t /\ Inserted' = Inserted /\ ThreadHolds(h) /\ ThreadKnows(h)
    BY <1>1, <2>1, ThreadRecord DEF Inserted
  <2>4. reserved[thread[h].node] \in Nat
    BY <1>1, <2>3 DEF RInv, RShapes, ThreadHolds, Reserving
  <2>5. ThreadHolds(h)'
    BY <1>1, <2>2, <2>3, <2>4 DEF ThreadHolds, Reserving, OnRow, Sweeping
  <2>6. ThreadKnows(h)'
    BY <1>1, <2>2, <2>3 DEF ThreadKnows, ThreadHolds, Reserving, OnRow, Sweeping
  <2>7. thread[h].pc \in Reserving
    BY <1>1 DEF Reserving
  <2> QED  BY <1>1, <2>1, <2>2, <2>5, <2>6, <2>7, ReadStep
<1> QED  BY <1>2, <1>3 DEF LockNode

(* What a floored difference of numbers is.                                 *)
LEMMA LessIsNat ==
    ASSUME NEW x \in Nat, NEW q \in Nat
    PROVE  Less(x, q) \in Nat
BY MaxZero DEF Less

(* No rows hold nothing.                                                    *)
LEMMA HeldNone ==
    ASSUME NEW f, NEW n
    PROVE  Held(f, n, {}) = 0
<1>1. UnitsIn(f, n, {}) = {}
  BY UnitsMember
<1> QED  BY <1>1, FS_EmptySet DEF Held

(* What a change of one row leaves alone.                                   *)
LEMMA RowFrame ==
    ASSUME RInv, NEW r \in Reservations, NEW new, rsv' = [rsv EXCEPT ![r] = new]
    PROVE  /\ rsv' = [s \in Reservations |-> rsv'[s]] /\ rsv'[r] = new
           /\ \A s \in Reservations \ {r} : rsv'[s] = rsv[s]
BY DEF RInv, RShapes

(* A row that leaves reserved takes its units along, into committed if it   *)
(* was paid.                                                                *)
LEMMA RowLeaves ==
    ASSUME RInv, NEW r \in Reservations, NEW new, rsv' = [rsv EXCEPT ![r] = new],
           new.size = rsv[r].size, new.node = rsv[r].node,
           NEW k \in Nodes \ raced, k = rsv[r].node,
           rsv[r].state \in ACTIVE_STATES, new.state \in {"released", "expired", "committed"},
           reserved'[k] = Less(reserved[k], rsv[r].size),
           committed'[k] = IF new.state = "committed" THEN committed[k] + rsv[r].size ELSE committed[k]
    PROVE  LedgerOk(k)'
<1> DEFINE sold == IF new.state = "committed" THEN {r} ELSE {}
<1>1. rsv'[r] = new /\ \A s \in Reservations \ {r} : rsv'[s] = rsv[s]
  BY RowFrame
<1>2. r \in ActiveOn(k) /\ r \notin CommittedOn(k) /\ Sized(rsv) /\ rsv[r].size \in Nat
  BY RowsSized DEF ActiveOn, CommittedOn, Active, Committed, ACTIVE_STATES, Sized
<1>3. /\ ActiveOn(k)' = (ActiveOn(k) \ {r}) \cup {} /\ CommittedOn(k)' = CommittedOn(k) \cup sold
      /\ ActiveOn(k)' \cap CommittedOn(k)' = {}
  <2>1. ActiveOn(k)' = (ActiveOn(k) \ {r}) \cup {}
    BY <1>1 DEF ActiveOn, Active, ACTIVE_STATES
  <2>2. CommittedOn(k)' = CommittedOn(k) \cup sold
    BY <1>1, <1>2 DEF CommittedOn, Committed, ACTIVE_STATES
  <2>3. ActiveOn(k)' \cap CommittedOn(k)' = {}
    BY DEF ActiveOn, CommittedOn, Active, Committed, ACTIVE_STATES
  <2> QED  BY <2>1, <2>2, <2>3
<1>4. Sized(rsv')
  BY <1>1, <1>2 DEF Sized
<1>5. \A s \in ActiveOn(k) \cup CommittedOn(k) : rsv'[s].node = rsv[s].node /\ rsv'[s].size = rsv[s].size
  BY <1>1 DEF ActiveOn, CommittedOn, Active, Committed
<1>6. /\ Held(rsv', k, {}) = 0 /\ Held(rsv, k, {}) = 0 /\ Held(rsv, k, {r}) = rsv[r].size
  BY <1>2, HeldNone, HeldOne
<1>7. Held(rsv, k, ActiveOn(k)) = Held(rsv, k, ActiveOn(k) \ {r}) + Held(rsv, k, {r})
  <2>1. PICK S : S = ActiveOn(k) \ {r}
    OBVIOUS
  <2>2. /\ S \subseteq Reservations /\ {r} \subseteq Reservations /\ S \cap {r} = {}
        /\ S \cup {r} = ActiveOn(k)
    BY <1>2, <2>1, RowsSized
  <2> QED  BY <1>2, <2>1, <2>2, HeldJoin
<1>8. Held(rsv, k, ActiveOn(k) \ {r}) \in Nat
  <2>1. ActiveOn(k) \ {r} \subseteq Reservations
    BY RowsSized
  <2> QED  BY <1>2, <2>1, UnitsFinite
<1>9. /\ reserved[k] = Seeded + Held(rsv, k, ActiveOn(k)) /\ Seeded \in Nat /\ Sellable \in Nat
      /\ reserved[k] \in Nat /\ committed[k] \in Nat /\ reserved[k] + committed[k] <= Sellable
  BY Ledger
<1>10. reserved[k] - rsv[r].size \in Nat
  BY <1>2, <1>6, <1>7, <1>8, <1>9
<1>11. reserved'[k] = reserved[k] - rsv[r].size
  BY <1>2, <1>9, <1>10, MaxZero DEF Less
<1>12. /\ reserved'[k] = reserved[k] - Held(rsv, k, {r}) + Held(rsv', k, {})
       /\ committed'[k] = committed[k] + Held(rsv, k, sold)
       /\ reserved'[k] + committed'[k] <= Sellable
  BY <1>2, <1>6, <1>9, <1>11
<1>13. /\ {r} \in SUBSET ActiveOn(k) /\ sold \in SUBSET {r} /\ {} \in SUBSET Reservations
       /\ {} \cap ActiveOn(k) = {}
  BY <1>2
<1> HIDE DEF sold
<1> QED  BY <1>3, <1>4, <1>5, <1>12, <1>13, LedgerKept

(* A row keeps its place among those that hold, are sold or are neither.    *)
Stays(old, state) == state = old \/ (old \in ACTIVE_STATES /\ state \in ACTIVE_STATES)

(* A row that keeps its place keeps the ledger.                             *)
LEMMA RowKeeps ==
    ASSUME RInv, NEW r \in Reservations, NEW new, rsv' = [rsv EXCEPT ![r] = new],
           new.size = rsv[r].size, new.node = rsv[r].node,
           NEW k \in Nodes \ raced, k = rsv[r].node,
           Stays(rsv[r].state, new.state),
           reserved'[k] = reserved[k], committed'[k] = committed[k]
    PROVE  LedgerOk(k)'
<1>1. rsv'[r] = new /\ \A s \in Reservations \ {r} : rsv'[s] = rsv[s]
  BY RowFrame
<1>2. /\ ActiveOn(k)' = ActiveOn(k) /\ CommittedOn(k)' = CommittedOn(k)
  BY <1>1 DEF ActiveOn, CommittedOn, Active, Committed, ACTIVE_STATES, Stays
<1>3. \A S \in SUBSET Reservations : Held(rsv', k, S) = Held(rsv, k, S)
  <2> SUFFICES ASSUME NEW S \in SUBSET Reservations
               PROVE  Held(rsv', k, S) = Held(rsv, k, S)
    OBVIOUS
  <2>1. \A s \in S : rsv'[s].node = rsv[s].node /\ rsv'[s].size = rsv[s].size
    <3> TAKE s \in S
    <3>1. s \in Reservations
      OBVIOUS
    <3>2. CASE s = r
      BY <1>1, <3>2
    <3>3. CASE s # r
      BY <1>1, <3>1, <3>3
    <3> QED  BY <3>2, <3>3
  <2>2. PICK f, g : f = rsv' /\ g = rsv
    OBVIOUS
  <2>3. \A s \in S : f[s].node = g[s].node /\ f[s].size = g[s].size
    BY <2>1, <2>2
  <2>4. Held(f, k, S) = Held(g, k, S)
    BY <2>3, HeldSame
  <2> QED  BY <2>2, <2>4
<1>4. /\ ActiveOn(k) \in SUBSET Reservations /\ CommittedOn(k) \in SUBSET Reservations
      /\ ActiveOn(k) \cup CommittedOn(k) \in SUBSET Reservations
  BY RowsSized
<1>5. LedgerOk(k)
  BY DEF RInv
<1> QED  BY <1>2, <1>3, <1>4, <1>5 DEF LedgerOk

(* The counters a and c of node k follow row r to its new value.            *)
Follows(r, new, k, a, c) ==
    /\ new.checkout = "paid" <=> new.state = "committed"
    /\ \/ /\ Stays(rsv[r].state, new.state)
          /\ a = reserved[k] /\ c = committed[k]
       \/ /\ rsv[r].state \in ACTIVE_STATES
          /\ new.state \in {"released", "expired", "committed"}
          /\ a = Less(reserved[k], rsv[r].size)
          /\ c = IF new.state = "committed" THEN committed[k] + rsv[r].size ELSE committed[k]

(* The commit of a request on one row.                                      *)
LEMMA RowWrite ==
    ASSUME RInv, NEW h \in Handlers, Commits(h), thread[h].pc \in OnRow,
           NEW r, thread[h].rows = {r}, NEW k, k = rsv[r].node,
           NEW new, rsv' = [rsv EXCEPT ![r] = new], DOMAIN new = RFields,
           new.size = rsv[r].size, new.node = k, new.state \in Reached \ {"draft"},
           NEW a \in Nat, NEW c \in Nat,
           reserved' = [reserved EXCEPT ![k] = a], committed' = [committed EXCEPT ![k] = c],
           k \notin raced \cup thread[h].stale => Follows(r, new, k, a, c)
    PROVE  RInv'
<1>1. /\ r \in Inserted /\ r \in Reservations /\ thread[h].node = k /\ k \in Nodes
  <2>1. ThreadHolds(h)
    BY ThreadRecord
  <2>2. PICK s \in Inserted : thread[h].rows = {s} /\ thread[h].node = rsv[s].node
    BY <2>1 DEF ThreadHolds
  <2>3. s = r
    BY <2>2
  <2> QED  BY <2>2, <2>3 DEF Inserted, RInv, RowOk
<1>2. \A n : InHand(h, n) <=> n = k
  BY <1>1 DEF InHand, OnRow
<1>3. /\ rsv' = [s \in Reservations |-> rsv'[s]] /\ rsv'[r] = new
      /\ \A s \in Reservations \ {r} : rsv'[s] = rsv[s]
  BY <1>1, RowFrame
<1>4. /\ reserved' = [n \in Nodes |-> reserved'[n]] /\ committed' = [n \in Nodes |-> committed'[n]]
      /\ reserved'[k] = a /\ committed'[k] = c
      /\ \A n \in Nodes \ {k} : reserved'[n] = reserved[n] /\ committed'[n] = committed[n]
  BY <1>1 DEF RInv, RShapes
<1>5. \A n \in Nodes : reserved'[n] \in Nat /\ committed'[n] \in Nat
  BY <1>4 DEF RInv, RShapes
<1>6. \A s \in Reservations : RowOk(s)'
  <2>1. RowOk(r)'
    BY <1>1, <1>3 DEF RInv, RowOk
  <2> QED  BY <1>3, <2>1 DEF RInv, RowOk
<1>7. Inserted' = Inserted
  BY <1>1, <1>3 DEF Inserted
<1>8. Local(h)
  BY <1>1, <1>2, <1>3, <1>4, <1>7 DEF Local, Inserted
<1>9. raced' = raced \cup thread[h].stale
  BY DEF Commits
<1>10. \A s \in Reservations : rsv'[s].node \notin raced' =>
          (rsv'[s].checkout = "paid" <=> rsv'[s].state = "committed")
  BY <1>1, <1>3, <1>9 DEF RInv, PaidIsCommitted, Follows
<1>11. \A n \in Nodes \ raced' : InHand(h, n) => LedgerOk(n)'
  <2> SUFFICES ASSUME k \notin raced'
               PROVE  LedgerOk(k)'
    BY <1>2
  <2>1. k \in Nodes \ raced /\ k \notin raced \cup thread[h].stale
    BY <1>1, <1>9
  <2>2. CASE /\ Stays(rsv[r].state, new.state)
             /\ a = reserved[k] /\ c = committed[k]
    <3>1. reserved'[k] = reserved[k] /\ committed'[k] = committed[k]
      BY <1>4, <2>2
    <3>2. Stays(rsv[r].state, new.state)
      BY <2>2
    <3> QED  BY <1>1, <2>1, <3>1, <3>2, RowKeeps
  <2>3. CASE /\ rsv[r].state \in ACTIVE_STATES /\ new.state \in {"released", "expired", "committed"}
             /\ a = Less(reserved[k], rsv[r].size)
             /\ c = IF new.state = "committed" THEN committed[k] + rsv[r].size ELSE committed[k]
    BY <1>1, <1>4, <2>1, <2>3, RowLeaves
  <2> QED  BY <2>1, <2>2, <2>3 DEF Follows
<1> QED  BY <1>3, <1>4, <1>5, <1>6, <1>8, <1>10, <1>11, WriteStep

(* A reservation that runs out is still counted until it is swept.          *)
LEMMA ExpireStep ==
    ASSUME RInv, NEW r \in Reservations, Expire(r)
    PROVE  RInv'
<1> DEFINE new == [rsv[r] EXCEPT !.late = TRUE]
<1>1. /\ rsv' = [rsv EXCEPT ![r] = new] /\ UNCHANGED <<reserved, committed, thread, raced>>
  BY DEF Expire, RInv, RShapes
<1>2. /\ DOMAIN new = RFields /\ new.size = rsv[r].size /\ new.node = rsv[r].node
      /\ new.state = rsv[r].state /\ new.checkout = rsv[r].checkout
  BY DEF RInv, RowOk, RFields
<1> HIDE DEF new
<1>3. /\ rsv' = [s \in Reservations |-> rsv'[s]]
      /\ \A s \in Reservations :
           /\ DOMAIN rsv'[s] = RFields
           /\ rsv'[s].size = rsv[s].size /\ rsv'[s].node = rsv[s].node
           /\ rsv'[s].state = rsv[s].state /\ rsv'[s].checkout = rsv[s].checkout
  BY <1>1, <1>2, RowFrame DEF RInv, RowOk
<1>4. \A n \in Nodes \ raced' : LedgerOk(n)'
  BY <1>1, <1>3, LedgerSame
<1>5. PaidIsCommitted' /\ RShapes' /\ \A s \in Reservations : RowOk(s)'
  BY <1>1, <1>3 DEF RInv, PaidIsCommitted, RShapes, RowOk
<1>6. Inserted' = Inserted
  BY <1>3 DEF Inserted
<1>7. \A h \in Handlers : ThreadHolds(h)' /\ ThreadKnows(h)'
  <2> TAKE h \in Handlers
  <2>1. /\ ThreadHolds(h) /\ ThreadKnows(h)
        /\ \A s \in thread[h].rows : s \in Reservations
    BY DEF RInv, ThreadHolds, Inserted, Reserving, OnRow, Sweeping
  <2>2. ThreadHolds(h)'
    BY <1>1, <1>3, <1>6, <2>1 DEF ThreadHolds, Inserted
  <2>3. ThreadKnows(h)'
    BY <1>1, <1>3, <2>1 DEF ThreadKnows
  <2> QED  BY <2>2, <2>3
<1> QED  BY <1>1, <1>4, <1>5, <1>7 DEF RInv

(* The new row's units fit: the room was read with the counters the write   *)
(* adds to, unless it has been overtaken.                                   *)
LEMMA ReserveStep ==
    ASSUME RInv, NEW h \in Handlers, Reserve(h)
    PROVE  RInv'
<1>1. PICK r : r = Min(Reservations \ Inserted)
  OBVIOUS
<1>2. PICK n, q : n = thread[h].node /\ q = thread[h].size
  OBVIOUS
<1> DEFINE new == [NoRow EXCEPT !.state = "reserved", !.size = q, !.node = n]
<1>3. /\ thread[h].pc = "reserve" /\ Commits(h) /\ committed' = committed
      /\ reserved' = [reserved EXCEPT ![n] = thread[h].res + q] /\ rsv' = [rsv EXCEPT ![r] = new]
  BY <1>1, <1>2 DEF Reserve, At
<1>4. /\ q \in Nat /\ n \in Nodes /\ Reservations \ Inserted # {} /\ thread[h].res \in Nat
      /\ thread[h].rows = {}
      /\ n \notin raced \cup thread[h].stale =>
           /\ reserved[n] + committed[n] + q <= Sellable /\ thread[h].res = reserved[n]
  BY <1>2, <1>3, ThreadRecord DEF ThreadHolds, ThreadKnows, Reserving
<1>5. r \in Reservations \ Inserted
  <2>1. Reservations \ Inserted \subseteq Nat
    BY DEF Reservations
  <2> QED  BY <1>1, <1>4, <2>1, LeastOf
<1>6. /\ DOMAIN new = RFields /\ new.state = "reserved" /\ new.size = q /\ new.node = n
      /\ new.checkout = "none"
  BY DEF NoRow, RFields
<1> HIDE DEF new
<1>7. /\ rsv' = [s \in Reservations |-> rsv'[s]] /\ rsv'[r] = new
      /\ \A s \in Reservations \ {r} : rsv'[s] = rsv[s]
  BY <1>3, <1>5, RowFrame
<1>8. /\ reserved' = [k \in Nodes |-> reserved'[k]] /\ committed' = [k \in Nodes |-> committed'[k]]
      /\ reserved'[n] = thread[h].res + q
      /\ \A k \in Nodes \ {n} : reserved'[k] = reserved[k]
      /\ \A k \in Nodes : reserved'[k] \in Nat /\ committed'[k] \in Nat
  BY <1>3, <1>4 DEF RInv, RShapes
<1>9. \A m : InHand(h, m) <=> m = n
  BY <1>2, <1>3, <1>4 DEF InHand
<1>10. Local(h)
  BY <1>3, <1>5, <1>6, <1>7, <1>8, <1>9 DEF Local, Inserted
<1>11. \A s \in Reservations : RowOk(s)'
  <2>1. RowOk(r)'
    BY <1>4, <1>6, <1>7 DEF RowOk, Reached
  <2> QED  BY <1>7, <2>1 DEF RInv, RowOk
<1>12. raced' = raced \cup thread[h].stale
  BY <1>3 DEF Commits
<1>13. \A s \in Reservations : rsv'[s].node \notin raced' =>
          (rsv'[s].checkout = "paid" <=> rsv'[s].state = "committed")
  BY <1>6, <1>7, <1>12 DEF RInv, PaidIsCommitted
<1>14. \A k \in Nodes \ raced' : InHand(h, k) => LedgerOk(k)'
  <2> SUFFICES ASSUME n \notin raced'
               PROVE  LedgerOk(n)'
    BY <1>9
  <2>1. /\ n \in Nodes \ raced /\ reserved[n] + committed[n] + q <= Sellable
        /\ reserved'[n] = reserved[n] + q /\ committed'[n] = committed[n]
    BY <1>3, <1>4, <1>8, <1>12
  <2>2. Sized(rsv')
    BY <1>11 DEF RowOk, Sized
  <2>3. Held(rsv, n, {}) = 0 /\ Held(rsv', n, {r}) = q
    BY <1>5, <1>6, <1>7, <2>2, HeldNone, HeldOne
  <2>4. r \notin Active /\ r \notin Committed /\ r \in Reservations
    BY <1>5 DEF Inserted, Active, Committed, ACTIVE_STATES
  <2>5. /\ ActiveOn(n)' = (ActiveOn(n) \ {}) \cup {r} /\ CommittedOn(n)' = CommittedOn(n) \cup {}
        /\ {r} \cap ActiveOn(n) = {} /\ ActiveOn(n)' \cap CommittedOn(n)' = {}
    <3>1. ActiveOn(n)' = ActiveOn(n) \cup {r}
      BY <1>6, <1>7, <2>4 DEF ActiveOn, Active, ACTIVE_STATES
    <3>2. CommittedOn(n)' = CommittedOn(n)
      BY <1>6, <1>7, <2>4 DEF CommittedOn, Committed
    <3>3. {r} \cap ActiveOn(n) = {} /\ r \notin CommittedOn(n)
      BY <2>4 DEF ActiveOn, CommittedOn
    <3> QED  BY <3>1, <3>2, <3>3, RowsSized
  <2>6. \A s \in ActiveOn(n) \cup CommittedOn(n) :
           rsv'[s].node = rsv[s].node /\ rsv'[s].size = rsv[s].size
    BY <1>7, <2>4 DEF ActiveOn, CommittedOn, Active, Committed
  <2>7. /\ reserved'[n] = reserved[n] - Held(rsv, n, {}) + Held(rsv', n, {r})
        /\ committed'[n] = committed[n] + Held(rsv, n, {})
        /\ reserved'[n] + committed'[n] <= Sellable
    BY <1>4, <2>1, <2>3, Ledger
  <2>8. /\ {} \in SUBSET ActiveOn(n) /\ {r} \in SUBSET Reservations /\ {} \in SUBSET {}
    BY <2>4
  <2> QED  BY <2>1, <2>2, <2>5, <2>6, <2>7, <2>8, LedgerKept
<1> QED  BY <1>3, <1>7, <1>8, <1>10, <1>11, <1>13, <1>14, WriteStep

(* The sweep lists the rows and reads the counters of one.                  *)
LEMMA SweepReadStep ==
    ASSUME RInv, NEW h \in Handlers, SweepList(h) \/ SweepRead(h)
    PROVE  RInv'
<1>1. CASE SweepList(h)
  <2> DEFINE t == [Idle EXCEPT !.pc = "list", !.rows = Due, !.node = rsv[Min(Due)].node]
  <2>1. /\ UNCHANGED <<reserved, committed, rsv, raced>> /\ thread' = [thread EXCEPT ![h] = t]
        /\ Due # {}
    BY <1>1 DEF SweepList
  <2>2. /\ DOMAIN t = TFields /\ t.pc = "list" /\ t.rows = Due /\ t.node = rsv[Min(Due)].node
        /\ t.stale = {}
    BY DEF Idle, TFields
  <2> HIDE DEF t
  <2>3. thread'[h] = t /\ Inserted' = Inserted /\ Due \subseteq Active /\ Due \subseteq Inserted
    BY <2>1, ThreadRecord DEF Active, Due, Inserted, ACTIVE_STATES
  <2>4. Min(Due) \in Due
    <3>1. Due \subseteq Nat
      BY DEF Due, Active, Reservations
    <3> QED  BY <2>1, <3>1, LeastOf
  <2>5. rsv[Min(Due)].node \in Nodes
    BY <2>3, <2>4 DEF RInv, RowOk, Inserted
  <2>6. ThreadHolds(h)'
    BY <2>2, <2>3, <2>5 DEF ThreadHolds, Reserving, OnRow, Sweeping
  <2>7. ThreadKnows(h)'
    BY <2>1, <2>2, <2>3 DEF ThreadKnows, Active, Reserving, OnRow, Sweeping
  <2> QED  BY <2>1, <2>2, <2>6, <2>7, ReadStep DEF Reserving
<1>2. CASE SweepRead(h)
  <2> DEFINE t == [thread[h] EXCEPT !.pc = "sweep", !.res = reserved[thread[h].node]]
  <2>1. /\ UNCHANGED <<reserved, committed, rsv, raced>> /\ thread[h].pc = "list"
        /\ thread' = [thread EXCEPT ![h] = t]
    BY <1>2, ThreadRecord DEF SweepRead, At
  <2>2. /\ DOMAIN t = TFields /\ t.pc = "sweep" /\ t.rows = thread[h].rows
        /\ t.node = thread[h].node /\ t.res = reserved[thread[h].node]
        /\ t.stale = thread[h].stale
    BY ThreadRecord DEF TFields
  <2> HIDE DEF t
  <2>3. thread'[h] = t /\ Inserted' = Inserted /\ ThreadHolds(h) /\ ThreadKnows(h)
    BY <2>1, ThreadRecord DEF Inserted
  <2>4. reserved[thread[h].node] \in Nat
    BY <2>1, <2>3 DEF RInv, RShapes, ThreadHolds, Sweeping
  <2>5. ThreadHolds(h)'
    BY <2>1, <2>2, <2>3, <2>4 DEF ThreadHolds, Reserving, OnRow, Sweeping
  <2>6. ThreadKnows(h)'
    BY <2>1, <2>2, <2>3 DEF ThreadKnows, Reserving, OnRow, Sweeping
  <2> QED  BY <2>1, <2>2, <2>5, <2>6, ReadStep DEF Reserving
<1> QED  BY <1>1, <1>2

(* The sweep releases what ran out.                                         *)
LEMMA SweepWriteStep ==
    ASSUME RInv, NEW h \in Handlers, SweepWrite(h)
    PROVE  RInv'
<1>1. PICK rows : rows = thread[h].rows
  OBVIOUS
<1>2. /\ thread[h].pc = "sweep" /\ Commits(h) /\ committed' = committed
      /\ reserved' = [n \in Nodes |->
             Less(IF n = thread[h].node THEN thread[h].res ELSE reserved[n], HeldOn(n, rows))]
      /\ rsv' = [r \in Reservations |->
             IF r \in rows THEN [rsv[r] EXCEPT !.state = "expired"] ELSE rsv[r]]
  BY <1>1 DEF SweepWrite, At
<1>3. /\ rows \subseteq Inserted /\ rows \subseteq Reservations /\ thread[h].res \in Nat
      /\ ThreadKnows(h)
  BY <1>1, <1>2, ThreadRecord DEF ThreadHolds, Sweeping, Inserted
<1>4. /\ \A n \in Nodes : reserved[n] \in Nat /\ committed[n] \in Nat
      /\ \A s \in Reservations : RowOk(s)
      /\ committed = [k \in Nodes |-> committed[k]] /\ Sized(rsv)
  BY RowsSized DEF RInv, RShapes
<1>5. /\ rsv' = [s \in Reservations |-> rsv'[s]]
      /\ reserved' = [k \in Nodes |-> reserved'[k]] /\ committed' = [k \in Nodes |-> committed'[k]]
  BY <1>2, <1>4
<1>6. \A s \in Reservations :
         /\ DOMAIN rsv'[s] = RFields /\ rsv'[s].size = rsv[s].size /\ rsv'[s].node = rsv[s].node
         /\ rsv'[s].checkout = rsv[s].checkout
         /\ rsv'[s].state = IF s \in rows THEN "expired" ELSE rsv[s].state
         /\ s \notin rows => rsv'[s] = rsv[s]
  BY <1>2, <1>4 DEF RFields, RowOk
<1>7. raced' = raced \cup thread[h].stale
  BY <1>2 DEF Commits
<1>8. \A s \in rows : rsv[s].node \notin raced' => rsv[s].state \in ACTIVE_STATES
  BY <1>1, <1>2, <1>3, <1>7 DEF ThreadKnows, Sweeping
<1>9. \A n \in Nodes : /\ Held(rsv, n, rows) \in Nat
                       /\ reserved'[n] = Less(IF n = thread[h].node THEN thread[h].res ELSE reserved[n],
                                              Held(rsv, n, rows))
  BY <1>2, <1>3, <1>4, UnitsFinite, HeldIs
<1>10. \A n \in Nodes : reserved'[n] \in Nat /\ committed'[n] \in Nat
  <2> TAKE n \in Nodes
  <2>1. PICK x \in Nat : reserved'[n] = Less(x, Held(rsv, n, rows))
    BY <1>3, <1>4, <1>9
  <2>2. reserved'[n] \in Nat
    BY <1>9, <2>1, LessIsNat
  <2> QED  BY <1>2, <1>4, <2>2
<1>11. \A s \in Reservations : RowOk(s)'
  BY <1>3, <1>4, <1>6 DEF RowOk, Reached, Inserted
<1>12. \A s \in Reservations : rsv'[s].node \notin raced' =>
          (rsv'[s].checkout = "paid" <=> rsv'[s].state = "committed")
  <2> TAKE s \in Reservations
  <2> HAVE rsv'[s].node \notin raced'
  <2>1. rsv[s].checkout = "paid" <=> rsv[s].state = "committed"
    BY <1>6, <1>7 DEF RInv, PaidIsCommitted
  <2> QED  BY <1>6, <1>8, <2>1 DEF ACTIVE_STATES
<1>13. Inserted' = Inserted
  BY <1>3, <1>6 DEF Inserted
<1>14. Local(h)
  <2>1. \A n \in Nodes : ~InHand(h, n) => reserved'[n] = reserved[n]
    <3> TAKE n \in Nodes
    <3> HAVE ~InHand(h, n)
    <3>1. thread[h].node # n /\ \A s \in rows : rsv[s].node # n
      BY <1>1, <1>2 DEF InHand
    <3>2. {} = {s \in rows : rsv[s].node = n}
      BY <3>1
    <3>3. Held(rsv, n, rows) = 0
      BY <3>2, HeldThere, HeldNone
    <3>4. reserved'[n] = Less(reserved[n], 0)
      BY <1>9, <3>1, <3>3
    <3> QED  BY <1>4, <3>4, MaxZero DEF Less
  <2>2. \A s \in rows : InHand(h, rsv'[s].node)
    BY <1>1, <1>2, <1>3, <1>6 DEF InHand
  <2>3. \A s \in Inserted : s \in Reservations /\ rsv[s].state # "draft"
    BY DEF Inserted
  <2>4. \A s \in Reservations : rsv'[s] = rsv[s] \/ InHand(h, rsv'[s].node)
    BY <1>6, <2>2
  <2>5. \A s \in Inserted :
           rsv'[s].node = rsv[s].node /\ rsv'[s].size = rsv[s].size /\ rsv'[s].state # "draft"
    BY <1>6, <2>3
  <2> QED  BY <1>2, <1>13, <2>1, <2>4, <2>5 DEF Local
<1>15. \A n \in Nodes \ raced' : LedgerOk(n)'
  <2> TAKE n \in Nodes \ raced'
  <2>1. PICK out : out = {s \in rows : rsv[s].node = n}
    OBVIOUS
  <2>2. n \in Nodes \ raced /\ n \notin raced \cup thread[h].stale
    BY <1>7
  <2>3. /\ out \subseteq ActiveOn(n) /\ Held(rsv, n, out) = Held(rsv, n, rows)
    BY <1>3, <1>8, <2>1, HeldThere DEF ActiveOn, Active
  <2>4. thread[h].node = n => thread[h].res = reserved[n]
    BY <1>2, <1>3, <2>2 DEF ThreadKnows
  <2>5. PICK S : S = ActiveOn(n) \ out
    OBVIOUS
  <2>6. /\ S \subseteq Reservations /\ out \subseteq Reservations /\ S \cap out = {}
        /\ S \cup out = ActiveOn(n)
    BY <2>3, <2>5, RowsSized
  <2>7. Held(rsv, n, ActiveOn(n)) = Held(rsv, n, S) + Held(rsv, n, out)
    BY <1>4, <2>6, HeldJoin
  <2>8. Held(rsv, n, S) \in Nat /\ Held(rsv, n, out) \in Nat
    BY <1>4, <2>6, UnitsFinite
  <2>9. /\ reserved[n] = Seeded + Held(rsv, n, ActiveOn(n)) /\ Seeded \in Nat
        /\ reserved[n] \in Nat /\ committed[n] \in Nat /\ Sellable \in Nat
        /\ reserved[n] + committed[n] <= Sellable
    BY <2>2, Ledger
  <2>10. reserved'[n] = Less(reserved[n], Held(rsv, n, out))
    BY <1>9, <2>3, <2>4
  <2>11. Less(reserved[n], Held(rsv, n, out)) = reserved[n] - Held(rsv, n, out)
    BY <2>7, <2>8, <2>9, MaxZero DEF Less
  <2>12. Held(rsv, n, {}) = 0 /\ Held(rsv', n, {}) = 0
    BY HeldNone
  <2>13. /\ reserved'[n] = reserved[n] - Held(rsv, n, out) + Held(rsv', n, {})
         /\ committed'[n] = committed[n] + Held(rsv, n, {})
         /\ reserved'[n] + committed'[n] <= Sellable
    BY <1>2, <2>8, <2>9, <2>10, <2>11, <2>12
  <2>14. /\ ActiveOn(n)' = (ActiveOn(n) \ out) \cup {} /\ CommittedOn(n)' = CommittedOn(n) \cup {}
         /\ ActiveOn(n)' \cap CommittedOn(n)' = {}
    <3>1. ActiveOn(n)' = ActiveOn(n) \ out
      BY <1>6, <2>1 DEF ActiveOn, Active, ACTIVE_STATES
    <3>2. CommittedOn(n)' = CommittedOn(n)
      <4>1. \A s \in out : s \notin CommittedOn(n)
        BY <2>3, RowsSized
      <4> QED  BY <1>6, <2>1, <4>1 DEF CommittedOn, Committed
    <3> QED  BY <3>1, <3>2, RowsSized
  <2>15. \A s \in ActiveOn(n) \cup CommittedOn(n) :
            rsv'[s].node = rsv[s].node /\ rsv'[s].size = rsv[s].size
    BY <1>6, RowsSized
  <2>16. /\ Sized(rsv') /\ out \in SUBSET ActiveOn(n) /\ {} \in SUBSET Reservations
         /\ {} \in SUBSET out /\ {} \cap ActiveOn(n) = {}
    BY <1>11, <2>3 DEF RowOk, Sized
  <2> QED  BY <2>2, <2>13, <2>14, <2>15, <2>16, LedgerKept
<1> QED  BY <1>2, <1>5, <1>10, <1>11, <1>12, <1>14, <1>15, WriteStep

(* A checkout, a payment or its failure reads its row and its node.         *)
LEMMA ReadsStep ==
    ASSUME RInv, NEW h \in Handlers, NEW r \in Reservations,
           BindCheckout(h, r) \/ ConfirmPayment(h, r) \/ FailPayment(h, r)
    PROVE  RInv'
<1>1. PICK op \in OnRow :
         /\ Reads(h, op, r) /\ rsv[r].state # "draft"
         /\ op \in {"bind", "expire"} => rsv[r].state \in ACTIVE_STATES
         /\ op = "confirm" => rsv[r].state = "checkout_bound"
         /\ op = "fail" => rsv[r].checkout = "pending"
  <2>1. CASE BindCheckout(h, r)
    <3>1. Reads(h, IF rsv[r].late THEN "expire" ELSE "bind", r) /\ rsv[r].state \in ACTIVE_STATES
      BY <2>1 DEF BindCheckout, Active
    <3> QED  BY <3>1 DEF OnRow, ACTIVE_STATES
  <2>2. CASE ConfirmPayment(h, r)
    BY <2>2 DEF ConfirmPayment, OnRow
  <2>3. CASE FailPayment(h, r)
    BY <2>3 DEF FailPayment, OnRow, RInv, RowOk
  <2> QED  BY <2>1, <2>2, <2>3
<1> DEFINE t == [Idle EXCEPT !.pc = op, !.rows = {r}, !.seen = rsv[r].state, !.node = rsv[r].node,
                             !.res = reserved[rsv[r].node], !.com = committed[rsv[r].node]]
<1>2. UNCHANGED <<reserved, committed, rsv, raced>> /\ thread' = [thread EXCEPT ![h] = t]
  BY <1>1 DEF Reads
<1>3. /\ DOMAIN t = TFields /\ t.pc = op /\ t.rows = {r} /\ t.seen = rsv[r].state
      /\ t.node = rsv[r].node /\ t.res = reserved[rsv[r].node] /\ t.com = committed[rsv[r].node]
      /\ t.stale = {}
  BY DEF Idle, TFields
<1> HIDE DEF t
<1>4. thread'[h] = t /\ r \in Inserted /\ Inserted' = Inserted
  BY <1>1, <1>2, ThreadRecord DEF Inserted
<1>5. reserved[rsv[r].node] \in Nat /\ committed[rsv[r].node] \in Nat
  BY <1>1 DEF RInv, RShapes, RowOk
<1>6. op \notin Reserving /\ op \notin Sweeping /\ op \notin {"reserve", "sweep"} /\ op # "idle"
  BY <1>1 DEF OnRow, Reserving, Sweeping
<1>7. ThreadHolds(h)'
  BY <1>2, <1>3, <1>4, <1>5, <1>6 DEF ThreadHolds
<1>8. ThreadKnows(h)'
  BY <1>1, <1>2, <1>3, <1>4, <1>6 DEF ThreadKnows
<1> QED  BY <1>2, <1>3, <1>6, <1>7, <1>8, ReadStep

(* What a handler on one row knows of it.                                   *)
LEMMA Mines ==
    ASSUME RInv, NEW h \in Handlers, thread[h].pc \in OnRow
    PROVE  \E r \in Reservations :
             /\ Mine(h) = r /\ thread[h].rows = {r} /\ thread[h].node = rsv[r].node
             /\ thread[h].res \in Nat /\ thread[h].com \in Nat
             /\ DOMAIN rsv[r] = RFields /\ r \in DOMAIN rsv /\ rsv[r].size \in Nat
             /\ rsv[r].state \in Reached \ {"draft"}
             /\ reserved = [reserved EXCEPT ![rsv[r].node] = reserved[rsv[r].node]]
             /\ committed = [committed EXCEPT ![rsv[r].node] = committed[rsv[r].node]]
             /\ reserved[rsv[r].node] \in Nat /\ committed[rsv[r].node] \in Nat
             /\ rsv[r].node \notin raced \cup thread[h].stale =>
                  /\ thread[h].seen = rsv[r].state
                  /\ thread[h].res = reserved[rsv[r].node] /\ thread[h].com = committed[rsv[r].node]
                  /\ thread[h].pc \in {"bind", "expire"} => rsv[r].state \in ACTIVE_STATES
                  /\ thread[h].pc = "confirm" => rsv[r].state = "checkout_bound"
                  /\ thread[h].pc = "fail" => rsv[r].checkout = "pending"
                  /\ rsv[r].checkout = "paid" <=> rsv[r].state = "committed"
<1>1. ThreadHolds(h) /\ ThreadKnows(h)
  BY ThreadRecord
<1>2. PICK r \in Inserted : thread[h].rows = {r} /\ thread[h].node = rsv[r].node
  BY <1>1 DEF ThreadHolds
<1>3. r \in Reservations /\ rsv[r].state # "draft"
  BY <1>2 DEF Inserted
<1>4. Mine(h) = r
  BY <1>2, <1>3, MineIs
<1>5. /\ DOMAIN rsv[r] = RFields /\ r \in DOMAIN rsv /\ rsv[r].size \in Nat
      /\ rsv[r].state \in Reached \ {"draft"} /\ rsv[r].node \in Nodes
  BY <1>3 DEF RInv, RShapes, RowOk
<1>6. /\ reserved = [reserved EXCEPT ![rsv[r].node] = reserved[rsv[r].node]]
      /\ committed = [committed EXCEPT ![rsv[r].node] = committed[rsv[r].node]]
      /\ reserved[rsv[r].node] \in Nat /\ committed[rsv[r].node] \in Nat
  BY <1>5 DEF RInv, RShapes
<1>7. rsv[r].node \notin raced \cup thread[h].stale =>
         /\ thread[h].seen = rsv[r].state
         /\ thread[h].res = reserved[rsv[r].node] /\ thread[h].com = committed[rsv[r].node]
         /\ thread[h].pc \in {"bind", "expire"} => rsv[r].state \in ACTIVE_STATES
         /\ thread[h].pc = "confirm" => rsv[r].state = "checkout_bound"
         /\ thread[h].pc = "fail" => rsv[r].checkout = "pending"
         /\ rsv[r].checkout = "paid" <=> rsv[r].state = "committed"
  BY <1>1, <1>2, <1>3 DEF ThreadKnows, RInv, PaidIsCommitted
<1> QED  BY <1>1, <1>2, <1>3, <1>4, <1>5, <1>6, <1>7 DEF ThreadHolds

(* The checkout is bound to its reservation.                                *)
LEMMA BindWriteStep ==
    ASSUME RInv, NEW h \in Handlers, BindWrite(h)
    PROVE  RInv'
<1>0. thread[h].pc = "bind" /\ UNCHANGED <<reserved, committed>>
  BY DEF BindWrite, At
<1>1. thread[h].pc \in OnRow
  BY DEF BindWrite, At, OnRow
<1>2. PICK r \in Reservations :
         /\ Mine(h) = r /\ thread[h].rows = {r} /\ DOMAIN rsv[r] = RFields /\ r \in DOMAIN rsv
         /\ reserved = [reserved EXCEPT ![rsv[r].node] = reserved[rsv[r].node]]
         /\ committed = [committed EXCEPT ![rsv[r].node] = committed[rsv[r].node]]
         /\ reserved[rsv[r].node] \in Nat /\ committed[rsv[r].node] \in Nat
         /\ rsv[r].node \notin raced \cup thread[h].stale => rsv[r].state \in ACTIVE_STATES
  BY <1>0, <1>1, Mines
<1>3. CASE rsv[r].checkout = "none"
  <2> DEFINE new == [rsv[r] EXCEPT !.state = "checkout_bound", !.checkout = "pending"]
  <2>1. rsv' = [rsv EXCEPT ![r] = new] /\ Commits(h)
    BY <1>2, <1>3 DEF BindWrite
  <2>2. /\ DOMAIN new = RFields /\ new.size = rsv[r].size /\ new.node = rsv[r].node
        /\ new.state = "checkout_bound" /\ new.checkout = "pending"
    BY <1>2 DEF RFields
  <2> HIDE DEF new
  <2>3. /\ new.state \in Reached \ {"draft"} /\ ~(new.checkout = "paid") /\ ~(new.state = "committed")
        /\ new.state \in ACTIVE_STATES
    BY <2>2 DEF Reached, ACTIVE_STATES
  <2>4. PICK k, a, c : k = rsv[r].node /\ a = reserved[k] /\ c = committed[k]
    OBVIOUS
  <2>5. /\ a \in Nat /\ c \in Nat /\ new.node = k
        /\ reserved' = [reserved EXCEPT ![k] = a] /\ committed' = [committed EXCEPT ![k] = c]
        /\ k \notin raced \cup thread[h].stale => new.state \in ACTIVE_STATES /\ rsv[r].state \in ACTIVE_STATES
    BY <1>0, <1>2, <2>2, <2>3, <2>4
  <2>6. k \notin raced \cup thread[h].stale => Follows(r, new, k, a, c)
    BY <2>3, <2>4, <2>5 DEF Follows, Stays
  <2> QED  BY <1>1, <1>2, <2>1, <2>2, <2>3, <2>4, <2>5, <2>6, RowWrite
<1>4. CASE rsv[r].checkout # "none"
  <2>1. Done(h) /\ UNCHANGED <<reserved, committed, rsv, raced>>
    BY <1>0, <1>2, <1>4 DEF BindWrite
  <2> QED  BY <2>1, DoneStep
<1> QED  BY <1>3, <1>4

(* A checkout that comes too late expires its reservation.                  *)
LEMMA BindExpiresStep ==
    ASSUME RInv, NEW h \in Handlers, BindExpires(h)
    PROVE  RInv'
<1>1. thread[h].pc = "expire" /\ thread[h].pc \in OnRow
  BY DEF BindExpires, At, OnRow
<1>2. PICK r \in Reservations :
         /\ Mine(h) = r /\ thread[h].rows = {r} /\ thread[h].node = rsv[r].node
         /\ thread[h].res \in Nat
         /\ DOMAIN rsv[r] = RFields /\ r \in DOMAIN rsv /\ rsv[r].size \in Nat
         /\ committed = [committed EXCEPT ![rsv[r].node] = committed[rsv[r].node]]
         /\ committed[rsv[r].node] \in Nat
         /\ rsv[r].node \notin raced \cup thread[h].stale =>
              /\ thread[h].res = reserved[rsv[r].node] /\ rsv[r].state \in ACTIVE_STATES
              /\ rsv[r].checkout = "paid" <=> rsv[r].state = "committed"
  BY <1>1, Mines
<1> DEFINE new == [rsv[r] EXCEPT !.state = "expired"]
<1>3. PICK k, a, c : k = rsv[r].node /\ a = Less(thread[h].res, rsv[r].size) /\ c = committed[k]
  OBVIOUS
<1>4. /\ rsv' = [rsv EXCEPT ![r] = new] /\ Commits(h) /\ committed' = [committed EXCEPT ![k] = c]
      /\ reserved' = [reserved EXCEPT ![k] = a] /\ a \in Nat /\ c \in Nat
  BY <1>2, <1>3, LessIsNat DEF BindExpires
<1>5. /\ DOMAIN new = RFields /\ new.size = rsv[r].size /\ new.node = k
      /\ new.state = "expired" /\ new.checkout = rsv[r].checkout
  BY <1>2, <1>3 DEF RFields
<1> HIDE DEF new
<1>6. new.state \in Reached \ {"draft"} /\ new.state \in {"released", "expired", "committed"}
      /\ new.state # "committed"
  BY <1>5 DEF Reached
<1>7. k \notin raced \cup thread[h].stale => Follows(r, new, k, a, c)
  BY <1>2, <1>3, <1>5, <1>6 DEF ACTIVE_STATES, Follows
<1> QED  BY <1>1, <1>2, <1>3, <1>4, <1>5, <1>6, <1>7, RowWrite

(* A payment turns the reservation into a commitment.                       *)
LEMMA ConfirmWriteStep ==
    ASSUME RInv, NEW h \in Handlers, ConfirmWrite(h)
    PROVE  RInv'
<1>1. thread[h].pc = "confirm" /\ thread[h].pc \in OnRow
  BY DEF ConfirmWrite, At, OnRow
<1>2. PICK r \in Reservations :
         /\ Mine(h) = r /\ thread[h].rows = {r} /\ thread[h].node = rsv[r].node
         /\ thread[h].res \in Nat /\ thread[h].com \in Nat
         /\ DOMAIN rsv[r] = RFields /\ r \in DOMAIN rsv /\ rsv[r].size \in Nat
         /\ rsv[r].node \notin raced \cup thread[h].stale =>
              /\ thread[h].res = reserved[rsv[r].node] /\ thread[h].com = committed[rsv[r].node]
              /\ rsv[r].state = "checkout_bound"
  BY <1>1, Mines
<1> DEFINE new == [rsv[r] EXCEPT !.state = "committed", !.checkout = "paid"]
<1>3. PICK k, a, c : /\ k = rsv[r].node /\ a = Less(thread[h].res, rsv[r].size)
                     /\ c = thread[h].com + rsv[r].size
  OBVIOUS
<1>4. /\ rsv' = [rsv EXCEPT ![r] = new] /\ Commits(h) /\ committed' = [committed EXCEPT ![k] = c]
      /\ reserved' = [reserved EXCEPT ![k] = a] /\ a \in Nat /\ c \in Nat
  <2>1. a \in Nat /\ c \in Nat
    <3>1. thread[h].res \in Nat /\ thread[h].com \in Nat /\ rsv[r].size \in Nat
      BY <1>2
    <3>2. Less(thread[h].res, rsv[r].size) \in Nat
      BY <3>1, LessIsNat
    <3> QED  BY <1>3, <3>1, <3>2
  <2> QED  BY <1>2, <1>3, <2>1 DEF ConfirmWrite
<1>5. /\ DOMAIN new = RFields /\ new.size = rsv[r].size /\ new.node = k
      /\ new.state = "committed" /\ new.checkout = "paid"
  BY <1>2, <1>3 DEF RFields
<1> HIDE DEF new
<1>6. new.state \in Reached \ {"draft"} /\ new.state \in {"released", "expired", "committed"}
  BY <1>5 DEF Reached
<1>7. k \notin raced \cup thread[h].stale => Follows(r, new, k, a, c)
  BY <1>2, <1>3, <1>5 DEF ACTIVE_STATES, Follows
<1> QED  BY <1>1, <1>2, <1>3, <1>4, <1>5, <1>6, <1>7, RowWrite

(* A payment that fails gives the units back.                               *)
LEMMA FailWriteStep ==
    ASSUME RInv, NEW h \in Handlers, FailWrite(h)
    PROVE  RInv'
<1>0. thread[h].pc = "fail" /\ committed' = committed
  BY DEF FailWrite, At
<1>1. thread[h].pc \in OnRow /\ Commits(h)
  BY DEF FailWrite, At, OnRow
<1>2. PICK r \in Reservations :
         /\ Mine(h) = r /\ thread[h].rows = {r} /\ thread[h].node = rsv[r].node
         /\ thread[h].res \in Nat
         /\ DOMAIN rsv[r] = RFields /\ r \in DOMAIN rsv /\ rsv[r].size \in Nat
         /\ rsv[r].state \in Reached \ {"draft"}
         /\ reserved = [reserved EXCEPT ![rsv[r].node] = reserved[rsv[r].node]]
         /\ committed = [committed EXCEPT ![rsv[r].node] = committed[rsv[r].node]]
         /\ reserved[rsv[r].node] \in Nat /\ committed[rsv[r].node] \in Nat
         /\ rsv[r].node \notin raced \cup thread[h].stale =>
              /\ thread[h].res = reserved[rsv[r].node] /\ thread[h].seen = rsv[r].state
              /\ rsv[r].checkout = "pending"
              /\ rsv[r].checkout = "paid" <=> rsv[r].state = "committed"
  BY <1>0, <1>1, Mines
<1>3. PICK k, c : k = rsv[r].node /\ c = committed[k]
  OBVIOUS
<1>4. c \in Nat /\ committed' = [committed EXCEPT ![k] = c]
  BY <1>0, <1>2, <1>3
<1>5. CASE /\ thread[h].seen \in ACTIVE_STATES
           /\ reserved' = [reserved EXCEPT ![k] = Less(thread[h].res, rsv[r].size)]
           /\ rsv' = [rsv EXCEPT ![r].checkout = "failed", ![r].state = "released"]
  <2> DEFINE new == [rsv[r] EXCEPT !.checkout = "failed", !.state = "released"]
  <2>1. PICK a : a = Less(thread[h].res, rsv[r].size)
    OBVIOUS
  <2>2. rsv' = [rsv EXCEPT ![r] = new] /\ reserved' = [reserved EXCEPT ![k] = a] /\ a \in Nat
    BY <1>2, <1>5, <2>1, LessIsNat
  <2>3. /\ DOMAIN new = RFields /\ new.size = rsv[r].size /\ new.node = k
        /\ new.state = "released" /\ new.checkout = "failed"
    BY <1>2, <1>3 DEF RFields
  <2> HIDE DEF new
  <2>4. /\ new.state \in Reached \ {"draft"} /\ new.state \in {"released", "expired", "committed"}
        /\ new.state # "committed" /\ ~(new.checkout = "paid")
    BY <2>3 DEF Reached
  <2>5. k \notin raced \cup thread[h].stale => Follows(r, new, k, a, c)
    BY <1>2, <1>3, <1>5, <2>1, <2>4 DEF Follows, Stays
  <2> QED  BY <1>1, <1>2, <1>3, <1>4, <2>2, <2>3, <2>4, <2>5, RowWrite
<1>6. CASE reserved' = reserved /\ rsv' = [rsv EXCEPT ![r].checkout = "failed"]
  <2> DEFINE new == [rsv[r] EXCEPT !.checkout = "failed"]
  <2>1. PICK a : a = reserved[k]
    OBVIOUS
  <2>2. rsv' = [rsv EXCEPT ![r] = new] /\ reserved' = [reserved EXCEPT ![k] = a] /\ a \in Nat
    BY <1>2, <1>3, <1>6, <2>1
  <2>3. /\ DOMAIN new = RFields /\ new.size = rsv[r].size /\ new.node = k
        /\ new.state = rsv[r].state /\ new.checkout = "failed"
    BY <1>2, <1>3 DEF RFields
  <2> HIDE DEF new
  <2>4. new.state \in Reached \ {"draft"}
    BY <1>2, <2>3
  <2>5. k \notin raced \cup thread[h].stale => Follows(r, new, k, a, c)
    BY <1>2, <1>3, <2>1, <2>3 DEF Follows, Stays
  <2> QED  BY <1>1, <1>2, <1>3, <1>4, <2>1, <2>2, <2>3, <2>4, <2>5, RowWrite
<1>7. \/ /\ thread[h].seen \in ACTIVE_STATES
         /\ reserved' = [reserved EXCEPT ![k] = Less(thread[h].res, rsv[r].size)]
         /\ rsv' = [rsv EXCEPT ![r].checkout = "failed", ![r].state = "released"]
      \/ reserved' = reserved /\ rsv' = [rsv EXCEPT ![r].checkout = "failed"]
  BY <1>2, <1>3 DEF FailWrite
<1> QED  BY <1>5, <1>6, <1>7

(* The invariant holds at the start.                                        *)
LEMMA ReservationBegins ==
    ASSUME Init
    PROVE  RInv
<1>1. /\ reserved = [n \in Nodes |-> Seeded] /\ committed = [n \in Nodes |-> 0]
      /\ rsv = [r \in Reservations |-> NoRow] /\ thread = [h \in Handlers |-> Idle]
      /\ raced = {}
  BY DEF Init
<1>2. /\ DOMAIN NoRow = RFields /\ NoRow.state = "draft" /\ NoRow.size = 0
      /\ NoRow.checkout = "none" /\ DOMAIN Idle = TFields /\ Idle.pc = "idle"
      /\ Idle.stale = {} /\ Idle.rows = {}
  BY DEF NoRow, Idle, RFields, TFields
<1>3. Active = {} /\ Committed = {}
  BY <1>1, <1>2 DEF Active, Committed, ACTIVE_STATES
<1>4. \A n \in Nodes : LedgerOk(n)
  <2> TAKE n \in Nodes
  <2>1. ActiveOn(n) = {} /\ CommittedOn(n) = {} /\ {} \cup {} = {}
    BY <1>3 DEF ActiveOn, CommittedOn
  <2>2. Held(rsv, n, {}) = 0
    BY HeldNone
  <2>3. Seeded + 0 = Seeded /\ Seeded <= Sellable
    BY ReservationAssumption
  <2> QED  BY <1>1, <2>1, <2>2, <2>3 DEF LedgerOk
<1>5. RShapes /\ PaidIsCommitted /\ \A r \in Reservations : RowOk(r)
  BY <1>1, <1>2, ReservationAssumption DEF RShapes, PaidIsCommitted, RowOk, Reached
<1>6. \A h \in Handlers : ThreadHolds(h) /\ ThreadKnows(h)
  BY <1>1, <1>2 DEF ThreadHolds, ThreadKnows, Reserving, OnRow, Sweeping
<1>7. \A h \in Handlers : thread[h].pc \notin Reserving
  BY <1>1, <1>2 DEF Reserving
<1> QED  BY <1>4, <1>5, <1>6, <1>7 DEF RInv

(* Every step of the reservations keeps the invariant.                      *)
LEMMA ReservationStep ==
    ASSUME RInv, Next
    PROVE  RInv'
<1>1. ASSUME NEW r \in Reservations, Expire(r)
      PROVE  RInv'
  BY <1>1, ExpireStep
<1>2. ASSUME NEW h \in Handlers, Handle(h)
      PROVE  RInv'
  BY <1>2, QuoteStep, LockStep, ReserveStep, SweepReadStep, SweepWriteStep, ReadsStep,
     BindWriteStep, BindExpiresStep, ConfirmWriteStep, FailWriteStep DEF Handle
<1> QED  BY <1>1, <1>2 DEF Next

(* The invariant depends on the reservations' variables only.               *)
LEMMA ReservationStutter ==
    ASSUME RInv, UNCHANGED vars
    PROVE  RInv'
<1>1. Active' = Active /\ Committed' = Committed /\ Inserted' = Inserted
  BY DEF vars, Active, Committed, Inserted
<1>2. PaidIsCommitted' /\ \A n \in Nodes \ raced' : LedgerOk(n)'
  BY <1>1 DEF vars, RInv, PaidIsCommitted, LedgerOk, ActiveOn, CommittedOn
<1>3. RShapes' /\ \A r \in Reservations : RowOk(r)'
  BY DEF vars, RInv, RShapes, RowOk
<1>4. \A h \in Handlers : ThreadHolds(h)' /\ ThreadKnows(h)'
  BY <1>1 DEF vars, RInv, ThreadHolds, ThreadKnows
<1> QED  BY <1>2, <1>3, <1>4 DEF vars, RInv

(* RInv holds of every state.                                               *)
LEMMA ReservationInvariant == CloudSpec => []RInv
<1>1. CloudInit => RInv
  BY ReservationBegins DEF CloudInit
<1>2. RInv /\ [CloudNext]_all => RInv'
  <2> SUFFICES ASSUME RInv, [CloudNext]_all
               PROVE  RInv'
    OBVIOUS
  <2>1. CASE Next
    BY <2>1, ReservationStep
  <2>2. CASE UNCHANGED vars
    BY <2>2, ReservationStutter
  <2> QED  BY <2>1, <2>2 DEF CloudNext, all
<1>3. CloudSpec => CloudInit /\ [][CloudNext]_all
  BY PTL DEF CloudSpec
<1> QED  BY <1>1, <1>2, <1>3, PTL

(* The reserved and committed counters of a node are what its rows hold, to *)
(* the unit, for any number of nodes, rows, sizes and overlapping requests, *)
(* until a request writes the node that was overtaken on it: a lost update  *)
(* is the only way the counters drift (reserve_capacity, bind_checkout,     *)
(* confirm_payment, fail_payment, expire_reservation).                      *)
THEOREM CountersAreExact == CloudSpec => []CountersExact
<1> QED  BY ReservationInvariant, LedgersAreExact, PTL

(* A node never has more reserved and committed than it sells, for any      *)
(* number of nodes, rows, sizes and overlapping requests, until a request   *)
(* writes the node that was overtaken on it (reserve_capacity,              *)
(* candidate_nodes).                                                        *)
THEOREM CapacityIsNotOversold == CloudSpec => []NotOversold
<1> QED  BY ReservationInvariant, LedgersAreExact, PTL

(* A checkout is paid exactly when its reservation is committed, for any    *)
(* number of overlapping requests, until one writes the node that was       *)
(* overtaken on it (confirm_payment, fail_payment, expire_reservation).     *)
THEOREM PaidMeansCommitted == CloudSpec => []PaidIsCommitted
<1>1. RInv => PaidIsCommitted
  BY DEF RInv
<1> QED  BY <1>1, ReservationInvariant, PTL

-------------------------------------------------------------------------------

(* One supervised run at a time works on demo clones.                       *)
OneOperator == \A p, q \in Operators : p = q

(* The columns of a demo request ...                                        *)
DFields == {"status", "lease", "attempts", "due", "tenant", "instance", "trial", "grace",
            "retention", "terminated", "deleted"}

(* ... and what a worker or an operator remembers.                          *)
PFields == {"pc", "r", "made", "undo", "cleanup"}

(* Every row and every process has its columns, and a request has kinds of  *)
(* resources.                                                               *)
DShapes ==
    /\ row = [r \in Demo!Requests |-> row[r]] /\ res = [r \in Demo!Requests |-> res[r]]
    /\ left = [r \in Demo!Requests |-> left[r]]
    /\ proc = [p \in Demo!Processes |-> proc[p]]
    /\ \A r \in Demo!Requests : DOMAIN row[r] = DFields /\ res[r] \subseteq Demo!Kinds
    /\ \A p \in Demo!Processes : DOMAIN proc[p] = PFields

(* What the operator's step rests on: until there is a tenant, or when it is *)
(* about to go, the resources are those it remembers and those left behind; *)
(* and a demo that is activated has what serves it.                         *)
OperatorKnows(p) ==
    /\ proc[p].pc \in {"idle", "clone", "tenant", "activate", "failed", "undo", "remove",
                       "mark_deleted"}
    /\ proc[p].pc # "idle" => proc[p].r \in Demo!Requests
    /\ proc[p].pc = "idle" => proc[p].made = {}
    /\ proc[p].pc \in {"clone", "tenant"} => ~row[proc[p].r].terminated
    /\ proc[p].pc = "clone" => proc[p].made \subseteq res[proc[p].r]
    /\ proc[p].pc \in {"clone", "tenant", "failed"} /\ proc[p].r \notin demos =>
         res[proc[p].r] \subseteq left[proc[p].r] \cup proc[p].made
    /\ proc[p].pc = "tenant" => Demo!CloneKinds \subseteq res[proc[p].r]
    /\ proc[p].pc = "activate" => proc[p].r \in demos
    /\ proc[p].pc = "undo" /\ proc[p].r \notin demos =>
         res[proc[p].r] \subseteq left[proc[p].r] \cup proc[p].undo
    /\ proc[p].pc = "remove" => res[proc[p].r] \subseteq left[proc[p].r] \cup proc[p].undo
    /\ proc[p].pc = "mark_deleted" =>
         proc[p].r \notin demos /\ res[proc[p].r] \subseteq left[proc[p].r]
    /\ proc[p].pc # "idle" /\ proc[p].r \notin excused =>
         /\ proc[p].pc \in {"clone", "tenant", "failed", "undo"} => proc[p].r \notin demos
         /\ proc[p].pc = "activate" => Demo!CloneKinds \subseteq res[proc[p].r]

(* A request that nobody is on has a demo with its clone, or no demo and    *)
(* only what was left behind.                                               *)
DemoOk(r) ==
    /\ row[r].deleted => row[r].terminated /\ r \notin demos
    /\ (\A p \in Operators : proc[p].r # r \/ proc[p].pc = "idle") =>
         /\ r \in demos /\ r \notin excused => Demo!CloneKinds \subseteq res[r]
         /\ r \notin demos => res[r] \subseteq left[r]

(* The inductive invariant of the demo clones.                              *)
EInv ==
    /\ DShapes
    /\ \A w \in DemoWorkers : proc[w].pc \in {"idle", "claimed", "work"}
    /\ \A p \in Operators : OperatorKnows(p)
    /\ \A r \in Demo!Requests : DemoOk(r)

(* The workers and the operators are two sets.                              *)
LEMMA ProcessSets ==
    /\ Demo!Processes = DemoWorkers \cup Operators /\ DemoWorkers \cap Operators = {}
    /\ DOMAIN Demo!Idle = PFields /\ Demo!Idle.pc = "idle" /\ Demo!Idle.made = {}
    /\ Demo!CloneKinds \subseteq Demo!Kinds /\ "database" \in Demo!CloneKinds
BY CloudBounds DEF Demo!Processes, Demo!DemoAssumption, Demo!Idle, PFields, Demo!CloneKinds,
                   Demo!Kinds

(* No row's terminated and deleted marks change.                            *)
RowsTouched(r) ==
    /\ row' = [q \in Demo!Requests |-> row'[q]]
    /\ \A q \in Demo!Requests :
         /\ DOMAIN row'[q] = DFields
         /\ row'[q].terminated = row[q].terminated /\ row'[q].deleted = row[q].deleted

(* A step that only touches rows keeps EInv.                                *)
LEMMA RequestsMove ==
    ASSUME EInv, NEW r, RowsTouched(r), UNCHANGED <<demos, res, proc, excused, left>>
    PROVE  EInv'
<1>1. DShapes'
  BY DEF EInv, DShapes, RowsTouched
<1>2. \A p \in Operators : OperatorKnows(p)'
  <2> TAKE p \in Operators
  <2>1. OperatorKnows(p)
    BY DEF EInv
  <2> QED  BY <2>1 DEF OperatorKnows, RowsTouched
<1>3. \A q \in Demo!Requests : DemoOk(q)'
  BY DEF EInv, DemoOk, RowsTouched
<1> QED  BY <1>1, <1>2, <1>3 DEF EInv

(* A change of one row that leaves the marks alone touches it.              *)
LEMMA RowTouched ==
    ASSUME EInv, NEW r \in Demo!Requests, NEW new, row' = [row EXCEPT ![r] = new],
           DOMAIN new = DFields, new.terminated = row[r].terminated, new.deleted = row[r].deleted
    PROVE  RowsTouched(r)
BY DEF EInv, DShapes, RowsTouched

(* A confirmation, a lease or a back-off that runs out, and the             *)
(* reconciliation of stale jobs.                                            *)
LEMMA RequestSteps ==
    ASSUME EInv, NEW r \in Demo!Requests,
           \/ Demo!_demo_confirm_submit(r) \/ Demo!ExpireLease(r) \/ Demo!BackoffOver(r)
           \/ Demo!reconcile_stale_demo_clone_jobs(r)
    PROVE  EInv'
<1>1. DOMAIN row[r] = DFields /\ r \in DOMAIN row
  BY DEF EInv, DShapes
<1>2. UNCHANGED <<demos, res, proc, excused, left>>
  BY DEF Demo!_demo_confirm_submit, Demo!ExpireLease, Demo!BackoffOver,
         Demo!reconcile_stale_demo_clone_jobs
<1>3. PICK new : /\ row' = [row EXCEPT ![r] = new] /\ DOMAIN new = DFields
                 /\ new.terminated = row[r].terminated /\ new.deleted = row[r].deleted
  <2>1. CASE Demo!_demo_confirm_submit(r)
    <3> DEFINE n == [row[r] EXCEPT !.status = "queued"]
    <3>1. row' = [row EXCEPT ![r] = n]
      BY <1>1, <2>1 DEF Demo!_demo_confirm_submit, Demo!checkout_demo_clone
    <3>2. DOMAIN n = DFields /\ n.terminated = row[r].terminated /\ n.deleted = row[r].deleted
      BY <1>1 DEF DFields
    <3> HIDE DEF n
    <3> QED  BY <3>1, <3>2
  <2>2. CASE Demo!ExpireLease(r)
    <3> DEFINE n == [row[r] EXCEPT !.lease = "expired"]
    <3>1. row' = [row EXCEPT ![r] = n]
      BY <1>1, <2>2 DEF Demo!ExpireLease
    <3>2. DOMAIN n = DFields /\ n.terminated = row[r].terminated /\ n.deleted = row[r].deleted
      BY <1>1 DEF DFields
    <3> HIDE DEF n
    <3> QED  BY <3>1, <3>2
  <2>3. CASE Demo!BackoffOver(r)
    <3> DEFINE n == [row[r] EXCEPT !.due = "now"]
    <3>1. row' = [row EXCEPT ![r] = n]
      BY <1>1, <2>3 DEF Demo!BackoffOver
    <3>2. DOMAIN n = DFields /\ n.terminated = row[r].terminated /\ n.deleted = row[r].deleted
      BY <1>1 DEF DFields
    <3> HIDE DEF n
    <3> QED  BY <3>1, <3>2
  <2>4. CASE Demo!reconcile_stale_demo_clone_jobs(r)
    <3> DEFINE n == [row[r] EXCEPT !.status = "queued", !.lease = "none", !.due = "later"]
               m == [row[r] EXCEPT !.status = "failed", !.lease = "none"]
    <3>1. row' = [row EXCEPT ![r] = n] \/ row' = [row EXCEPT ![r] = m]
      BY <1>1, <2>4 DEF Demo!reconcile_stale_demo_clone_jobs
    <3>2. DOMAIN n = DFields /\ n.terminated = row[r].terminated /\ n.deleted = row[r].deleted
      BY <1>1 DEF DFields
    <3>3. DOMAIN m = DFields /\ m.terminated = row[r].terminated /\ m.deleted = row[r].deleted
      BY <1>1 DEF DFields
    <3> HIDE DEF n, m
    <3> QED  BY <3>1, <3>2, <3>3
  <2> QED  BY <2>1, <2>2, <2>3, <2>4
<1>4. RowsTouched(r)
  BY <1>3, RowTouched
<1> QED  BY <1>2, <1>4, RequestsMove

(* EInv depends on the demo part's variables only.                          *)
LEMMA OtherSteps ==
    ASSUME EInv, UNCHANGED <<row, demos, res, proc, excused, left>>
    PROVE  EInv'
BY DEF EInv, DShapes, OperatorKnows, DemoOk

(* A worker's step keeps EInv: workers make and remove nothing.             *)
LEMMA WorkerMoves ==
    ASSUME EInv, NEW w \in DemoWorkers, NEW r \in Demo!Requests, RowsTouched(r) \/ row' = row,
           UNCHANGED <<demos, res>>, excused \subseteq excused',
           \/ left' = left
           \/ /\ left' = [s \in Demo!Requests |-> left'[s]]
              /\ \A s \in Demo!Requests : left[s] \subseteq left'[s],
           NEW q, DOMAIN q = PFields, q.pc \in {"idle", "claimed", "work"},
           proc' = [proc EXCEPT ![w] = q]
    PROVE  EInv'
<1>1. RowsTouched(r)
  BY DEF EInv, DShapes, RowsTouched
<1>2. /\ proc' = [p \in Demo!Processes |-> proc'[p]] /\ proc'[w] = q
      /\ \A p \in Demo!Processes \ {w} : proc'[p] = proc[p]
      /\ \A p \in Operators : proc'[p] = proc[p] /\ p \in Demo!Processes /\ p # w
      /\ w \in Demo!Processes /\ DemoWorkers \subseteq Demo!Processes
  BY ProcessSets DEF EInv, DShapes
<1>3. DShapes'
  BY <1>1, <1>2 DEF EInv, DShapes, RowsTouched
<1>4. \A p \in Operators : OperatorKnows(p)'
  <2> TAKE p \in Operators
  <2>1. OperatorKnows(p) /\ proc'[p] = proc[p]
    BY <1>2 DEF EInv
  <2> QED  BY <1>1, <2>1 DEF OperatorKnows, RowsTouched
<1>5. \A s \in Demo!Requests : DemoOk(s)'
  BY <1>1, <1>2 DEF EInv, DemoOk, RowsTouched
<1>6. \A v \in DemoWorkers : proc'[v].pc \in {"idle", "claimed", "work"}
  BY <1>2 DEF EInv
<1> QED  BY <1>3, <1>4, <1>5, <1>6 DEF EInv

(* A step of the operator on one request keeps EInv when it keeps what      *)
(* concerns that request.                                                   *)
LEMMA OperatorMoves ==
    ASSUME EInv, OneOperator, NEW p \in Operators, NEW r \in Demo!Requests,
           row' = [s \in Demo!Requests |-> row'[s]], res' = [s \in Demo!Requests |-> res'[s]],
           \A s \in Demo!Requests : DOMAIN row'[s] = DFields, res'[r] \subseteq Demo!Kinds,
           \A s \in Demo!Requests \ {r} :
              row'[s] = row[s] /\ res'[s] = res[s] /\ left'[s] = left[s],
           left' = [s \in Demo!Requests |-> left'[s]],
           \A s \in Demo!Requests \ {r} : s \in demos' <=> s \in demos,
           excused \subseteq excused',
           NEW q, DOMAIN q = PFields, proc' = [proc EXCEPT ![p] = q],
           proc[p].pc = "idle" \/ proc[p].r = r, q.pc = "idle" \/ q.r = r,
           OperatorKnows(p)', DemoOk(r)'
    PROVE  EInv'
<1>1. /\ proc' = [o \in Demo!Processes |-> proc'[o]] /\ proc'[p] = q
      /\ \A o \in Demo!Processes \ {p} : proc'[o] = proc[o]
      /\ p \in Demo!Processes /\ DemoWorkers \subseteq Demo!Processes \ {p}
  BY ProcessSets DEF EInv, DShapes
<1>2. DShapes'
  BY <1>1 DEF EInv, DShapes
<1>3. \A s \in Demo!Requests \ {r} : DemoOk(s)'
  <2> TAKE s \in Demo!Requests \ {r}
  <2>1. DemoOk(s) /\ row'[s] = row[s] /\ res'[s] = res[s] /\ left'[s] = left[s] /\ (s \in demos' <=> s \in demos)
    BY DEF EInv
  <2>2. \A o \in Operators : o = p
    BY DEF OneOperator
  <2>3. \A o \in Operators : proc[o].r # s \/ proc[o].pc = "idle"
    BY <2>2
  <2> QED  BY <2>1, <2>3 DEF DemoOk
<1>4. \A o \in Operators : OperatorKnows(o)'
  BY DEF OneOperator
<1>5. \A v \in DemoWorkers : proc'[v].pc \in {"idle", "claimed", "work"}
  BY <1>1 DEF EInv
<1> QED  BY <1>2, <1>3, <1>4, <1>5 DEF EInv

(* A worker claims a request, and hands it to the clone or fails it.        *)
LEMMA WorkerSteps ==
    ASSUME EInv, NEW w \in DemoWorkers, Demo!WorkerStep(w)
    PROVE  EInv'
<1>1. DOMAIN proc[w] = PFields /\ w \in DOMAIN proc
  BY ProcessSets DEF EInv, DShapes
<1>2. ASSUME NEW r \in Demo!Requests, Demo!claim_next_demo_clone_job(w, r)
      PROVE  EInv'
  <2> DEFINE n == [row[r] EXCEPT !.status = "provisioning", !.lease = "live",
                                 !.attempts = row[r].attempts + 1]
             q == [proc[w] EXCEPT !.pc = "claimed", !.r = r]
  <2>1. DOMAIN row[r] = DFields /\ r \in DOMAIN row
    BY DEF EInv, DShapes
  <2>2. /\ row' = [row EXCEPT ![r] = n] /\ proc' = [proc EXCEPT ![w] = q]
        /\ UNCHANGED <<demos, res, excused, left>>
    BY <1>1, <1>2, <2>1 DEF Demo!claim_next_demo_clone_job
  <2>3. DOMAIN n = DFields /\ n.terminated = row[r].terminated /\ n.deleted = row[r].deleted
    BY <2>1 DEF DFields
  <2>4. DOMAIN q = PFields /\ q.pc = "claimed"
    BY <1>1 DEF PFields
  <2> HIDE DEF n, q
  <2>5. RowsTouched(r)
    BY <2>2, <2>3, RowTouched
  <2> QED  BY <2>2, <2>4, <2>5, WorkerMoves
<1>3. PICK r : r = proc[w].r
  OBVIOUS
<1>4. PICK z : z \in Demo!Requests
  BY CloudBounds DEF Demo!DemoAssumption, Demo!Requests
<1>5. \A n : row' = [row EXCEPT ![r] = n] /\ DOMAIN n = DFields
               /\ (r \in Demo!Requests => n.terminated = row[r].terminated /\ n.deleted = row[r].deleted)
             => RowsTouched(z)
  BY DEF EInv, DShapes, RowsTouched
<1>6. CASE Demo!CheckClaim(w)
  <2> DEFINE q == [proc[w] EXCEPT !.pc = "work"]
             n == [row[r] EXCEPT !.status = "queued", !.lease = "none",
                     !.attempts = IF row[r].attempts > 0 THEN row[r].attempts - 1 ELSE 0,
                     !.due = "parked"]
  <2>1. UNCHANGED <<demos, res, excused, left>>
    BY <1>6 DEF Demo!CheckClaim
  <2>2. DOMAIN q = PFields /\ q.pc = "work"
    BY <1>1 DEF PFields
  <2>3. \/ proc' = [proc EXCEPT ![w] = q] /\ row' = row
        \/ /\ proc' = [proc EXCEPT ![w] = Demo!Idle]
           /\ row' = [row EXCEPT ![r].status = "queued", ![r].lease = "none",
                                 ![r].attempts = IF @ > 0 THEN @ - 1 ELSE 0, ![r].due = "parked"]
    BY <1>1, <1>3, <1>6 DEF Demo!CheckClaim
  <2>4. CASE proc' = [proc EXCEPT ![w] = q] /\ row' = row
    <3> HIDE DEF q
    <3> QED  BY <1>4, <2>1, <2>2, <2>4, WorkerMoves
  <2>5. CASE /\ proc' = [proc EXCEPT ![w] = Demo!Idle]
             /\ row' = [row EXCEPT ![r].status = "queued", ![r].lease = "none",
                                   ![r].attempts = IF @ > 0 THEN @ - 1 ELSE 0, ![r].due = "parked"]
    <3>1. CASE r \in Demo!Requests
      <4>1. DOMAIN row[r] = DFields /\ r \in DOMAIN row
        BY <3>1 DEF EInv, DShapes
      <4>2. row' = [row EXCEPT ![r] = n]
        BY <2>5, <4>1
      <4>3. DOMAIN n = DFields /\ n.terminated = row[r].terminated /\ n.deleted = row[r].deleted
        BY <4>1 DEF DFields
      <4> HIDE DEF n
      <4>4. RowsTouched(z)
        BY <1>5, <4>2, <4>3
      <4> QED  BY <1>4, <2>1, <2>5, <4>4, ProcessSets, WorkerMoves
    <3>2. CASE r \notin Demo!Requests
      <4>1. row' = row
        BY <2>5, <3>2 DEF EInv, DShapes
      <4> QED  BY <1>4, <2>1, <2>5, <4>1, ProcessSets, WorkerMoves
    <3> QED  BY <3>1, <3>2
  <2> QED  BY <2>3, <2>4, <2>5
<1>7. CASE Demo!_execute_demo_clone_job_safe(w)
  <2> DEFINE n == [row[r] EXCEPT !.status = "failed"]
  <2>1. Demo!demo_request_eligibility_reasons(proc[w].r, "provisioning") # {}
    <3>1. "status_not_queued" \in Demo!demo_request_eligibility_reasons(proc[w].r, "provisioning")
      BY DEF Demo!demo_request_eligibility_reasons
    <3> QED  BY <3>1
  <2>2. /\ UNCHANGED <<demos, res, excused, left>> /\ proc' = [proc EXCEPT ![w] = Demo!Idle]
        /\ row' = [row EXCEPT ![r].status = "failed"]
    BY <1>3, <1>7, <2>1 DEF Demo!_execute_demo_clone_job_safe
  <2>3. CASE r \in Demo!Requests
    <3>1. DOMAIN row[r] = DFields /\ r \in DOMAIN row
      BY <2>3 DEF EInv, DShapes
    <3>2. row' = [row EXCEPT ![r] = n]
      BY <2>2, <3>1
    <3>3. DOMAIN n = DFields /\ n.terminated = row[r].terminated /\ n.deleted = row[r].deleted
      BY <3>1 DEF DFields
    <3> HIDE DEF n
    <3>4. RowsTouched(z)
      BY <1>5, <3>2, <3>3
    <3> QED  BY <1>4, <2>2, <3>4, ProcessSets, WorkerMoves
  <2>4. CASE r \notin Demo!Requests
    <3>1. row' = row
      BY <2>2, <2>4 DEF EInv, DShapes
    <3> QED  BY <1>4, <2>2, <3>1, ProcessSets, WorkerMoves
  <2> QED  BY <2>3, <2>4
<1> QED  BY <1>2, <1>6, <1>7 DEF Demo!WorkerStep

(* Only an operator clones.                                                 *)
LEMMA CloneByOperator ==
    ASSUME EInv, NEW p \in Demo!Processes, Demo!CloneStep(p)
    PROVE  p \in Operators
<1>1. proc[p].pc \in {"clone", "tenant", "failed", "undo"}
  BY DEF Demo!CloneStep, Demo!MakeNext, Demo!CreateUser, Demo!StepFails, Demo!ReserveTenant,
         Demo!MarkFailed, Demo!cleanup, Demo!MarkInstanceFailed
<1> QED  BY <1>1, ProcessSets DEF EInv

(* What EInv says of an operator.                                           *)
LEMMA AtProcess ==
    ASSUME EInv, NEW p \in Operators
    PROVE  /\ DOMAIN proc[p] = PFields /\ p \in DOMAIN proc /\ OperatorKnows(p)
           /\ row = [s \in Demo!Requests |-> row[s]] /\ res = [s \in Demo!Requests |-> res[s]]
           /\ left = [s \in Demo!Requests |-> left[s]]
           /\ \A s \in Demo!Requests : DOMAIN row[s] = DFields /\ DemoOk(s)
BY ProcessSets DEF EInv, DShapes

(* OperatorMoves, for a step that writes one row and its resources.         *)
LEMMA OperatorRow ==
    ASSUME EInv, OneOperator, NEW p \in Operators, NEW r \in Demo!Requests,
           proc[p].pc = "idle" \/ proc[p].r = r,
           NEW new, DOMAIN new = DFields, row' = [row EXCEPT ![r] = new],
           NEW made2, made2 \subseteq Demo!Kinds, res' = [res EXCEPT ![r] = made2],
           NEW left2, left' = [left EXCEPT ![r] = left2],
           \A s \in Demo!Requests \ {r} : s \in demos' <=> s \in demos,
           excused \subseteq excused',
           NEW q, DOMAIN q = PFields, proc' = [proc EXCEPT ![p] = q],
           q.pc = "idle" \/ q.r = r, OperatorKnows(p)', DemoOk(r)'
    PROVE  EInv'
<1>1. /\ row = [s \in Demo!Requests |-> row[s]] /\ res = [s \in Demo!Requests |-> res[s]]
      /\ left = [s \in Demo!Requests |-> left[s]]
      /\ \A s \in Demo!Requests : DOMAIN row[s] = DFields
  BY AtProcess
<1>2. /\ row' = [s \in Demo!Requests |-> row'[s]] /\ res' = [s \in Demo!Requests |-> res'[s]]
      /\ \A s \in Demo!Requests : DOMAIN row'[s] = DFields
      /\ left' = [s \in Demo!Requests |-> left'[s]]
      /\ \A s \in Demo!Requests \ {r} : row'[s] = row[s] /\ res'[s] = res[s] /\ left'[s] = left[s]
      /\ res'[r] \subseteq Demo!Kinds
  BY <1>1
<1> QED  BY <1>2, OperatorMoves

(* The operator p writes the row new and the resources made2 of the request *)
(* r, of which left2 are left behind, and remembers q.                      *)
Fresh(p, r, new, made2, left2, q) ==
    /\ proc[p].pc = "idle" \/ proc[p].r = r
    /\ DOMAIN new = DFields /\ row' = [row EXCEPT ![r] = new]
    /\ made2 \subseteq Demo!Kinds /\ res' = [res EXCEPT ![r] = made2]
    /\ left' = [left EXCEPT ![r] = left2]
    /\ \A s \in Demo!Requests \ {r} : s \in demos' <=> s \in demos
    /\ excused \subseteq excused'
    /\ DOMAIN q = PFields /\ proc' = [proc EXCEPT ![p] = q]
    /\ q.pc = "idle" \/ q.r = r

(* A deleted row is terminated, and has no demo.                            *)
RowStands(r, new) == new.deleted => new.terminated /\ r \notin demos'

(* The state after such a step.                                             *)
LEMMA FreshState ==
    ASSUME EInv, OneOperator, NEW p \in Operators, NEW r \in Demo!Requests,
           NEW new, NEW made2, NEW left2, NEW q,
           Fresh(p, r, new, made2, left2, q)
    PROVE  /\ row'[r] = new /\ res'[r] = made2 /\ left'[r] = left2 /\ proc'[p] = q
           /\ \A o \in Operators : o = p
BY AtProcess DEF Fresh, OneOperator

(* The operator is done with the request.                                   *)
LEMMA FreshEnds ==
    ASSUME EInv, OneOperator, NEW p \in Operators, NEW r \in Demo!Requests,
           NEW new, NEW made2, NEW left2, NEW q,
           Fresh(p, r, new, made2, left2, q), RowStands(r, new),
           q.pc = "idle", q.made = {},
           r \in demos' /\ r \notin excused' => Demo!CloneKinds \subseteq made2,
           r \notin demos' => made2 \subseteq left2
    PROVE  EInv'
<1>1. /\ row'[r] = new /\ res'[r] = made2 /\ left'[r] = left2 /\ proc'[p] = q
      /\ \A o \in Operators : o = p
  BY FreshState
<1>2. OperatorKnows(p)'
  BY <1>1 DEF OperatorKnows
<1>3. DemoOk(r)'
  BY <1>1 DEF DemoOk, RowStands
<1> QED  BY <1>2, <1>3, OperatorRow DEF Fresh

(* What the operator knows after such a step.                               *)
FreshKnows(r, new, made2, left2, q) ==
    /\ q.pc \in {"clone", "tenant", "activate", "failed", "undo", "remove", "mark_deleted"}
    /\ q.pc \in {"clone", "tenant"} => ~new.terminated
    /\ q.pc = "clone" => q.made \subseteq made2
    /\ q.pc \in {"clone", "tenant", "failed"} /\ r \notin demos' =>
         made2 \subseteq left2 \cup q.made
    /\ q.pc = "tenant" => Demo!CloneKinds \subseteq made2
    /\ q.pc = "activate" => r \in demos'
    /\ q.pc = "undo" /\ r \notin demos' => made2 \subseteq left2 \cup q.undo
    /\ q.pc = "remove" => made2 \subseteq left2 \cup q.undo
    /\ q.pc = "mark_deleted" => r \notin demos' /\ made2 \subseteq left2
    /\ r \notin excused' =>
         /\ q.pc \in {"clone", "tenant", "failed", "undo"} => r \notin demos'
         /\ q.pc = "activate" => Demo!CloneKinds \subseteq made2

(* The operator goes on with the request.                                   *)
LEMMA FreshGoes ==
    ASSUME EInv, OneOperator, NEW p \in Operators, NEW r \in Demo!Requests,
           NEW new, NEW made2, NEW left2, NEW q,
           Fresh(p, r, new, made2, left2, q), RowStands(r, new),
           q.r = r, FreshKnows(r, new, made2, left2, q)
    PROVE  EInv'
<1>1. /\ row'[r] = new /\ res'[r] = made2 /\ left'[r] = left2 /\ proc'[p] = q
      /\ \A o \in Operators : o = p
  BY FreshState
<1>2. q.pc # "idle"
  BY DEF FreshKnows
<1>3. OperatorKnows(p)'
  BY <1>1, <1>2 DEF OperatorKnows, FreshKnows
<1>4. DemoOk(r)'
  BY <1>1, <1>2 DEF DemoOk, RowStands
<1> QED  BY <1>3, <1>4, OperatorRow DEF Fresh

(* The request an operator is on.                                           *)
LEMMA Operating ==
    ASSUME EInv, NEW p \in Operators, proc[p].pc # "idle"
    PROVE  \E r \in Demo!Requests :
             /\ proc[p].r = r /\ DOMAIN row[r] = DFields /\ r \in DOMAIN row /\ r \in DOMAIN res
             /\ row = [row EXCEPT ![r] = row[r]] /\ res = [res EXCEPT ![r] = res[r]]
             /\ left = [left EXCEPT ![r] = left[r]] /\ r \in DOMAIN left
             /\ row[r].deleted => row[r].terminated /\ r \notin demos
             /\ res[r] \subseteq Demo!Kinds
<1>1. PICK r \in Demo!Requests : proc[p].r = r
  BY AtProcess DEF OperatorKnows
<1>2. DemoOk(r) /\ DShapes
  BY DEF EInv
<1>3. /\ DOMAIN row[r] = DFields /\ r \in DOMAIN row /\ r \in DOMAIN res /\ r \in DOMAIN left
      /\ row = [row EXCEPT ![r] = row[r]] /\ res = [res EXCEPT ![r] = res[r]]
      /\ left = [left EXCEPT ![r] = left[r]] /\ res[r] \subseteq Demo!Kinds
  BY <1>2 DEF DShapes
<1>4. row[r].deleted => row[r].terminated /\ r \notin demos
  BY <1>2 DEF DemoOk
<1> QED  BY <1>1, <1>3, <1>4, Zenon

(* The clone makes its next resource.                                       *)
LEMMA MakeNextStep ==
    ASSUME EInv, OneOperator, NEW p \in Operators, Demo!MakeNext(p)
    PROVE  EInv'
<1>1. proc[p].pc = "clone"
  BY DEF Demo!MakeNext
<1>2. PICK r \in Demo!Requests :
             /\ proc[p].r = r /\ DOMAIN row[r] = DFields /\ r \in DOMAIN row /\ r \in DOMAIN res
             /\ row = [row EXCEPT ![r] = row[r]] /\ res = [res EXCEPT ![r] = res[r]]
             /\ left = [left EXCEPT ![r] = left[r]] /\ r \in DOMAIN left
             /\ row[r].deleted => row[r].terminated /\ r \notin demos
             /\ res[r] \subseteq Demo!Kinds
  BY <1>1, Operating
<1>3. PICK k \in Demo!Kinds : k = Demo!NextKind(proc[p].made)
  BY DEF Demo!NextKind, Demo!Kinds
<1> DEFINE q == [proc[p] EXCEPT !.made = proc[p].made \cup {k}]
<1>4. /\ res' = [res EXCEPT ![r] = res[r] \cup {k}] /\ proc' = [proc EXCEPT ![p] = q]
      /\ left' = [left EXCEPT ![r] = left[r] \ {k}] /\ UNCHANGED <<row, demos, excused>>
  BY <1>2, <1>3, AtProcess DEF Demo!MakeNext
<1>5. DOMAIN q = PFields /\ q.r = r /\ q.pc = "clone" /\ q.made = proc[p].made \cup {k}
  BY <1>1, <1>2, AtProcess DEF PFields
<1> HIDE DEF q
<1>6. Fresh(p, r, row[r], res[r] \cup {k}, left[r] \ {k}, q) /\ RowStands(r, row[r])
  BY <1>2, <1>4, <1>5 DEF Fresh, RowStands
<1>7. FreshKnows(r, row[r], res[r] \cup {k}, left[r] \ {k}, q)
  BY <1>1, <1>2, <1>4, <1>5, AtProcess DEF OperatorKnows, FreshKnows
<1> QED  BY <1>5, <1>6, <1>7, FreshGoes

(* The clone has a user created, or a step of it fails, which may have made  *)
(* what the tracker does not know of.                                       *)
LEMMA ClonePcStep ==
    ASSUME EInv, OneOperator, NEW p \in Operators,
           Demo!CreateUser(p) \/ Demo!StepFails(p)
    PROVE  EInv'
<1>1. proc[p].pc = "clone" /\ UNCHANGED <<row, demos, excused>>
  BY DEF Demo!CreateUser, Demo!StepFails
<1>2. PICK r \in Demo!Requests :
             /\ proc[p].r = r /\ DOMAIN row[r] = DFields /\ r \in DOMAIN row /\ r \in DOMAIN res
             /\ row = [row EXCEPT ![r] = row[r]] /\ res = [res EXCEPT ![r] = res[r]]
             /\ left = [left EXCEPT ![r] = left[r]] /\ r \in DOMAIN left
             /\ row[r].deleted => row[r].terminated /\ r \notin demos
             /\ res[r] \subseteq Demo!Kinds
  BY <1>1, Operating
<1>3. PICK pc :
         /\ proc' = [proc EXCEPT ![p].pc = pc]
         /\ pc = "failed" \/ (pc = "tenant" /\ Demo!CloneKinds \subseteq proc[p].made)
  BY DEF Demo!CreateUser, Demo!StepFails
<1>3b. PICK m \in SUBSET Demo!Kinds :
         res' = [res EXCEPT ![r] = res[r] \cup m] /\ left' = [left EXCEPT ![r] = left[r] \cup m]
  <2>1. CASE UNCHANGED <<res, left>>
    <3>1. PICK m : m = {}
      OBVIOUS
    <3>2. res[r] \cup m = res[r] /\ left[r] \cup m = left[r] /\ m \in SUBSET Demo!Kinds
      BY <3>1
    <3>3. res' = [res EXCEPT ![r] = res[r] \cup m] /\ left' = [left EXCEPT ![r] = left[r] \cup m]
      BY <1>2, <2>1, <3>2
    <3> QED  BY <3>2, <3>3
  <2>2. CASE ~UNCHANGED <<res, left>>
    <3>1. PICK k : k = Demo!NextKind(proc[p].made)
      OBVIOUS
    <3>2. {k} \in SUBSET Demo!Kinds
      BY <3>1 DEF Demo!NextKind, Demo!Kinds
    <3>3. res' = [res EXCEPT ![r] = res[r] \cup {k}] /\ left' = [left EXCEPT ![r] = left[r] \cup {k}]
      BY <1>2, <2>2, <3>1 DEF Demo!CreateUser, Demo!StepFails
    <3> QED  BY <3>2, <3>3
  <2> QED  BY <2>1, <2>2
<1> DEFINE q == [proc[p] EXCEPT !.pc = pc]
<1>4. proc' = [proc EXCEPT ![p] = q]
  BY <1>3, AtProcess
<1>5. DOMAIN q = PFields /\ q.r = r /\ q.pc = pc /\ q.made = proc[p].made
  BY <1>1, <1>2, AtProcess DEF PFields
<1> HIDE DEF q
<1>6. Fresh(p, r, row[r], res[r] \cup m, left[r] \cup m, q) /\ RowStands(r, row[r])
  BY <1>1, <1>2, <1>3, <1>4, <1>5, <1>3b DEF Fresh, RowStands
<1>7. FreshKnows(r, row[r], res[r] \cup m, left[r] \cup m, q)
  BY <1>1, <1>2, <1>3, <1>5, <1>3b, AtProcess DEF OperatorKnows, FreshKnows
<1> QED  BY <1>5, <1>6, <1>7, FreshGoes

(* The demo's tenant is reserved once the clone is made.                    *)
LEMMA ReserveDemoStep ==
    ASSUME EInv, OneOperator, NEW p \in Operators, Demo!ReserveTenant(p)
    PROVE  EInv'
<1>1. proc[p].pc = "tenant" /\ UNCHANGED <<res, excused, left>>
  BY DEF Demo!ReserveTenant
<1>2. PICK r \in Demo!Requests :
             /\ proc[p].r = r /\ DOMAIN row[r] = DFields /\ r \in DOMAIN row /\ r \in DOMAIN res
             /\ row = [row EXCEPT ![r] = row[r]] /\ res = [res EXCEPT ![r] = res[r]]
             /\ left = [left EXCEPT ![r] = left[r]] /\ r \in DOMAIN left
             /\ row[r].deleted => row[r].terminated /\ r \notin demos
             /\ res[r] \subseteq Demo!Kinds
  BY <1>1, Operating
<1> DEFINE q == [proc[p] EXCEPT !.pc = "activate", !.made = {}]
           new == [row[r] EXCEPT !.tenant = TRUE]
<1>3. /\ demos' = demos \cup {r} /\ row' = [row EXCEPT ![r] = new]
      /\ proc' = [proc EXCEPT ![p] = q]
  BY <1>2, AtProcess DEF Demo!ReserveTenant
<1>4. DOMAIN q = PFields /\ q.r = r /\ q.pc = "activate"
  BY <1>1, <1>2, AtProcess DEF PFields
<1>5. /\ DOMAIN new = DFields /\ new.deleted = row[r].deleted
      /\ new.terminated = row[r].terminated
  BY <1>2 DEF DFields
<1> HIDE DEF q, new
<1>6. Fresh(p, r, new, res[r], left[r], q)
  BY <1>1, <1>2, <1>3, <1>4, <1>5 DEF Fresh
<1>7. RowStands(r, new)
  BY <1>1, <1>2, <1>5, AtProcess DEF RowStands, OperatorKnows
<1>8. FreshKnows(r, new, res[r], left[r], q)
  BY <1>1, <1>2, <1>3, <1>4, AtProcess DEF OperatorKnows, FreshKnows
<1> QED  BY <1>4, <1>6, <1>7, <1>8, FreshGoes

(* A clone that failed is written down.                                     *)
LEMMA MarkDemoFailedStep ==
    ASSUME EInv, OneOperator, NEW p \in Operators, Demo!MarkFailed(p)
    PROVE  EInv'
<1>1. proc[p].pc = "failed" /\ UNCHANGED <<demos, res, excused, left>>
  BY DEF Demo!MarkFailed
<1>2. PICK r \in Demo!Requests :
             /\ proc[p].r = r /\ DOMAIN row[r] = DFields /\ r \in DOMAIN row /\ r \in DOMAIN res
             /\ row = [row EXCEPT ![r] = row[r]] /\ res = [res EXCEPT ![r] = res[r]]
             /\ left = [left EXCEPT ![r] = left[r]] /\ r \in DOMAIN left
             /\ row[r].deleted => row[r].terminated /\ r \notin demos
             /\ res[r] \subseteq Demo!Kinds
  BY <1>1, Operating
<1> DEFINE q == [proc[p] EXCEPT !.pc = "undo", !.undo = proc[p].made]
           new == [row[r] EXCEPT !.status = "failed"]
<1>3. row' = [row EXCEPT ![r] = new] /\ proc' = [proc EXCEPT ![p] = q]
  BY <1>2, AtProcess DEF Demo!MarkFailed
<1>4. DOMAIN q = PFields /\ q.r = r /\ q.pc = "undo" /\ q.undo = proc[p].made
  BY <1>1, <1>2, AtProcess DEF PFields
<1>5. /\ DOMAIN new = DFields /\ new.deleted = row[r].deleted
      /\ new.terminated = row[r].terminated
  BY <1>2 DEF DFields
<1> HIDE DEF q, new
<1>6. Fresh(p, r, new, res[r], left[r], q) /\ RowStands(r, new)
  BY <1>1, <1>2, <1>3, <1>4, <1>5 DEF Fresh, RowStands
<1>7. FreshKnows(r, new, res[r], left[r], q)
  BY <1>1, <1>2, <1>4, AtProcess DEF OperatorKnows, FreshKnows
<1> QED  BY <1>4, <1>6, <1>7, FreshGoes

(* The rollback or the clean-up removes one resource, or cannot.            *)
LEMMA RemoveOneStep ==
    ASSUME EInv, OneOperator, NEW p \in Operators, proc[p].pc \in {"undo", "remove"},
           NEW k, Demo!RemoveOne(p, k)
    PROVE  EInv'
<1>1. PICK r \in Demo!Requests :
             /\ proc[p].r = r /\ DOMAIN row[r] = DFields /\ r \in DOMAIN row /\ r \in DOMAIN res
             /\ row = [row EXCEPT ![r] = row[r]] /\ res = [res EXCEPT ![r] = res[r]]
             /\ left = [left EXCEPT ![r] = left[r]] /\ r \in DOMAIN left
             /\ row[r].deleted => row[r].terminated /\ r \notin demos
             /\ res[r] \subseteq Demo!Kinds
  BY Operating
<1> DEFINE q == [proc[p] EXCEPT !.undo = proc[p].undo \ {k}]
<1>2. /\ proc' = [proc EXCEPT ![p] = q] /\ UNCHANGED <<row, demos, excused>>
      /\ \/ /\ res' = [res EXCEPT ![r] = res[r] \ {k}]
            /\ left' = [left EXCEPT ![r] = left[r] \ {k}]
         \/ res' = res /\ left' = [left EXCEPT ![r] = left[r] \cup ({k} \cap res[r])]
  BY <1>1, AtProcess DEF Demo!RemoveOne
<1>3. DOMAIN q = PFields /\ q.r = r /\ q.pc = proc[p].pc /\ q.undo = proc[p].undo \ {k}
  BY <1>1, AtProcess DEF PFields
<1> HIDE DEF q
<1>4. RowStands(r, row[r])
  BY <1>1, <1>2 DEF RowStands
<1>5. CASE /\ res' = [res EXCEPT ![r] = res[r] \ {k}]
           /\ left' = [left EXCEPT ![r] = left[r] \ {k}]
  <2>1. Fresh(p, r, row[r], res[r] \ {k}, left[r] \ {k}, q)
    BY <1>1, <1>2, <1>3, <1>5 DEF Fresh
  <2>2. FreshKnows(r, row[r], res[r] \ {k}, left[r] \ {k}, q)
    BY <1>1, <1>2, <1>3, AtProcess DEF OperatorKnows, FreshKnows
  <2> QED  BY <1>3, <1>4, <2>1, <2>2, FreshGoes
<1>6. CASE res' = res /\ left' = [left EXCEPT ![r] = left[r] \cup ({k} \cap res[r])]
  <2>1. Fresh(p, r, row[r], res[r], left[r] \cup ({k} \cap res[r]), q)
    BY <1>1, <1>2, <1>3, <1>6 DEF Fresh
  <2>2. FreshKnows(r, row[r], res[r], left[r] \cup ({k} \cap res[r]), q)
    BY <1>1, <1>2, <1>3, AtProcess DEF OperatorKnows, FreshKnows
  <2> QED  BY <1>3, <1>4, <2>1, <2>2, FreshGoes
<1> QED  BY <1>2, <1>5, <1>6

(* The instance of a failed clone is marked.                                *)
LEMMA InstanceFailedStep ==
    ASSUME EInv, OneOperator, NEW p \in Operators, Demo!MarkInstanceFailed(p)
    PROVE  EInv'
<1>1. proc[p].pc = "undo" /\ proc[p].undo = {} /\ UNCHANGED <<demos, res, excused, left>>
  BY DEF Demo!MarkInstanceFailed
<1>2. PICK r \in Demo!Requests :
             /\ proc[p].r = r /\ DOMAIN row[r] = DFields /\ r \in DOMAIN row /\ r \in DOMAIN res
             /\ row = [row EXCEPT ![r] = row[r]] /\ res = [res EXCEPT ![r] = res[r]]
             /\ left = [left EXCEPT ![r] = left[r]] /\ r \in DOMAIN left
             /\ row[r].deleted => row[r].terminated /\ r \notin demos
             /\ res[r] \subseteq Demo!Kinds
  BY <1>1, Operating
<1>3. PICK q : q = Demo!Idle
  OBVIOUS
<1> DEFINE new == [row[r] EXCEPT !.instance = "failed"]
<1>4. row' = [row EXCEPT ![r] = new] /\ proc' = [proc EXCEPT ![p] = q]
  BY <1>2, <1>3, AtProcess DEF Demo!MarkInstanceFailed
<1>5. DOMAIN q = PFields /\ q.pc = "idle" /\ q.made = {}
  BY <1>3, ProcessSets
<1>6. /\ DOMAIN new = DFields /\ new.deleted = row[r].deleted
      /\ new.terminated = row[r].terminated
  BY <1>2 DEF DFields
<1> HIDE DEF new
<1>7. Fresh(p, r, new, res[r], left[r], q) /\ RowStands(r, new)
  BY <1>1, <1>2, <1>4, <1>5, <1>6 DEF Fresh, RowStands
<1>8. /\ r \in demos' /\ r \notin excused' => Demo!CloneKinds \subseteq res[r]
      /\ r \notin demos' => res[r] \subseteq left[r]
  BY <1>1, <1>2, AtProcess DEF OperatorKnows
<1> QED  BY <1>5, <1>7, <1>8, FreshEnds

(* The request an operator starts on.                                       *)
LEMMA CallRow ==
    ASSUME EInv, NEW r \in Demo!Requests
    PROVE  /\ DOMAIN row[r] = DFields /\ r \in DOMAIN row /\ r \in DOMAIN res /\ DemoOk(r)
           /\ row = [row EXCEPT ![r] = row[r]] /\ res = [res EXCEPT ![r] = res[r]]
           /\ left = [left EXCEPT ![r] = left[r]] /\ r \in DOMAIN left
           /\ row[r].deleted => row[r].terminated /\ r \notin demos
           /\ res[r] \subseteq Demo!Kinds
BY DEF EInv, DShapes, DemoOk

(* execute_demo_clone_job starts on a request that is not terminated.       *)
LEMMA StartCloneStep ==
    ASSUME EInv, OneOperator, NEW p \in Operators, NEW r \in Demo!Requests,
           Demo!execute_demo_clone_job(p, r)
    PROVE  EInv'
<1> DEFINE q == [proc[p] EXCEPT !.pc = "clone", !.r = r]
<1>1. /\ proc[p].pc = "idle" /\ "database" \notin res[r]
      /\ Demo!demo_request_eligibility_reasons(r, row[r].status) = {}
      /\ UNCHANGED <<row, demos, res, excused, left>> /\ proc' = [proc EXCEPT ![p] = q]
  BY AtProcess DEF Demo!execute_demo_clone_job, Demo!FreeOperator
<1>2. ~row[r].terminated
  <2>1. ~Demo!InputsInOrder(r) => "inputs" \in Demo!demo_request_eligibility_reasons(r, row[r].status)
    BY DEF Demo!demo_request_eligibility_reasons
  <2>2. Demo!InputsInOrder(r)
    BY <1>1, <2>1
  <2> QED  BY <2>2 DEF Demo!InputsInOrder
<1>3. /\ DOMAIN q = PFields /\ q.r = r /\ q.pc = "clone" /\ q.made = {}
  BY <1>1, AtProcess DEF PFields, OperatorKnows
<1> HIDE DEF q
<1>4. \A o \in Operators : proc[o].r # r \/ proc[o].pc = "idle"
  BY <1>1 DEF OneOperator
<1>5. /\ r \notin excused => r \notin demos
      /\ r \notin demos => res[r] \subseteq left[r]
  BY <1>1, <1>4, CallRow, ProcessSets DEF DemoOk
<1>6. Fresh(p, r, row[r], res[r], left[r], q) /\ RowStands(r, row[r])
  BY <1>1, <1>3, CallRow DEF Fresh, RowStands
<1>7. FreshKnows(r, row[r], res[r], left[r], q)
  BY <1>1, <1>2, <1>3, <1>5 DEF FreshKnows
<1> QED  BY <1>3, <1>6, <1>7, FreshGoes

(* activate_demo_lifecycle launches a demo with its clone.                  *)
LEMMA ActivateStep ==
    ASSUME EInv, OneOperator, NEW p \in Operators, NEW r \in Demo!Requests,
           Demo!activate_demo_lifecycle(p, r)
    PROVE  EInv'
<1>1. PICK q : q = Demo!Idle
  OBVIOUS
<1>2. /\ (proc[p].pc = "activate" /\ proc[p].r = r) \/ proc[p].pc = "idle"
      /\ row' = Demo!Activated(r) /\ proc' = [proc EXCEPT ![p] = q]
      /\ UNCHANGED <<demos, res, excused, left>>
  BY <1>1 DEF Demo!activate_demo_lifecycle, Demo!FreeOperator
<1>3. PICK new : /\ row' = [row EXCEPT ![r] = new] /\ DOMAIN new = DFields
                 /\ new.deleted = row[r].deleted /\ new.terminated = row[r].terminated
  <2> DEFINE n == [row[r] EXCEPT
             !.trial = now + Demo!CLOUD_DEMO_TRIAL_DAYS,
             !.grace = now + Demo!CLOUD_DEMO_TRIAL_DAYS + Demo!CLOUD_DEMO_GRACE_DAYS,
             !.retention = now + Demo!CLOUD_DEMO_TRIAL_DAYS + Demo!CLOUD_DEMO_GRACE_DAYS
                               + Demo!CLOUD_DEMO_RETENTION_DAYS]
  <2>1. DOMAIN n = DFields /\ n.deleted = row[r].deleted /\ n.terminated = row[r].terminated
    BY CallRow DEF DFields
  <2>2. row' = row \/ row' = [row EXCEPT ![r] = n]
    BY <1>2, CallRow DEF Demo!Activated
  <2> HIDE DEF n
  <2>3. CASE row' = row
    BY <2>3, CallRow
  <2>4. CASE row' = [row EXCEPT ![r] = n]
    BY <2>1, <2>4
  <2> QED  BY <2>2, <2>3, <2>4
<1>4. DOMAIN q = PFields /\ q.pc = "idle" /\ q.made = {}
  BY <1>1, ProcessSets
<1>5. Fresh(p, r, new, res[r], left[r], q) /\ RowStands(r, new)
  BY <1>2, <1>3, <1>4, CallRow DEF Fresh, RowStands
<1>6. /\ r \in demos /\ r \notin excused => Demo!CloneKinds \subseteq res[r]
      /\ r \notin demos => res[r] \subseteq left[r]
  <2>1. CASE proc[p].pc = "activate" /\ proc[p].r = r
    BY <2>1, AtProcess DEF OperatorKnows
  <2>2. CASE proc[p].pc = "idle"
    <3>1. \A o \in Operators : proc[o].r # r \/ proc[o].pc = "idle"
      BY <2>2 DEF OneOperator
    <3> QED  BY <3>1, CallRow DEF DemoOk
  <2> QED  BY <1>2, <2>1, <2>2
<1>7. /\ r \in demos' /\ r \notin excused' => Demo!CloneKinds \subseteq res[r]
      /\ r \notin demos' => res[r] \subseteq left[r]
  BY <1>2, <1>6
<1> QED  BY <1>4, <1>5, <1>7, FreshEnds

(* rollback_demo_clone and execute_demo_cleanup start on what a request     *)
(* has.                                                                     *)
LEMMA StartRemovalStep ==
    ASSUME EInv, OneOperator, NEW p \in Operators, NEW r \in Demo!Requests,
           Demo!rollback_demo_clone(p, r) \/ Demo!execute_demo_cleanup(p, r)
    PROVE  EInv'
<1>1. /\ proc[p].pc = "idle" /\ UNCHANGED <<row, demos, res, excused, left>>
      /\ Demo!StartRemoval(p, r, FALSE) \/ Demo!StartRemoval(p, r, TRUE)
  BY DEF Demo!rollback_demo_clone, Demo!execute_demo_cleanup, Demo!FreeOperator
<1>2. PICK q : /\ proc' = [proc EXCEPT ![p] = q] /\ DOMAIN q = PFields /\ q.pc = "remove"
               /\ q.r = r /\ q.undo = Demo!Kinds
  <2>1. PICK after \in BOOLEAN : Demo!StartRemoval(p, r, after)
    BY <1>1
  <2> DEFINE q == [pc |-> "remove", r |-> r, made |-> {}, undo |-> Demo!Kinds, cleanup |-> after]
  <2>2. proc' = [proc EXCEPT ![p] = q]
    BY <2>1 DEF Demo!StartRemoval
  <2>3. DOMAIN q = PFields /\ q.pc = "remove" /\ q.r = r /\ q.undo = Demo!Kinds
    BY DEF PFields
  <2> HIDE DEF q
  <2> QED  BY <2>2, <2>3
<1>3. res[r] \subseteq Demo!Kinds
  BY CallRow
<1>4. Fresh(p, r, row[r], res[r], left[r], q) /\ RowStands(r, row[r])
  BY <1>1, <1>2, CallRow DEF Fresh, RowStands
<1>5. FreshKnows(r, row[r], res[r], left[r], q)
  BY <1>1, <1>2, <1>3 DEF FreshKnows
<1> QED  BY <1>2, <1>4, <1>5, FreshGoes

(* The demo's tenant is deleted after its resources.                        *)
LEMMA DeleteDemoStep ==
    ASSUME EInv, OneOperator, NEW p \in Operators, Demo!DeleteTenant(p)
    PROVE  EInv'
<1>1. proc[p].pc = "remove" /\ proc[p].undo = {} /\ UNCHANGED <<res, excused, left>>
  BY DEF Demo!DeleteTenant
<1>2. PICK r \in Demo!Requests :
             /\ proc[p].r = r /\ DOMAIN row[r] = DFields /\ r \in DOMAIN row /\ r \in DOMAIN res
             /\ row = [row EXCEPT ![r] = row[r]] /\ res = [res EXCEPT ![r] = res[r]]
             /\ left = [left EXCEPT ![r] = left[r]] /\ r \in DOMAIN left
             /\ row[r].deleted => row[r].terminated /\ r \notin demos
             /\ res[r] \subseteq Demo!Kinds
  BY <1>1, Operating
<1> DEFINE new == [row[r] EXCEPT !.tenant = FALSE]
           q == [proc[p] EXCEPT !.pc = "mark_deleted"]
<1>3. /\ demos' = demos \ {r} /\ row' = [row EXCEPT ![r] = new]
      /\ proc' = [proc EXCEPT ![p] = q] \/ proc' = [proc EXCEPT ![p] = Demo!Idle]
  BY <1>2, AtProcess DEF Demo!DeleteTenant
<1>4. /\ DOMAIN new = DFields /\ new.deleted = row[r].deleted
      /\ new.terminated = row[r].terminated
  BY <1>2 DEF DFields
<1>5. DOMAIN q = PFields /\ q.r = r /\ q.pc = "mark_deleted"
  BY <1>1, <1>2, AtProcess DEF PFields
<1> HIDE DEF new, q
<1>6. RowStands(r, new) /\ res[r] \subseteq left[r]
  BY <1>1, <1>2, <1>3, <1>4, AtProcess DEF RowStands, OperatorKnows
<1>7. CASE proc' = [proc EXCEPT ![p] = q]
  <2>1. Fresh(p, r, new, res[r], left[r], q)
    BY <1>1, <1>2, <1>3, <1>4, <1>5, <1>7 DEF Fresh
  <2>2. FreshKnows(r, new, res[r], left[r], q)
    BY <1>1, <1>3, <1>5, <1>6 DEF FreshKnows
  <2> QED  BY <1>5, <1>6, <2>1, <2>2, FreshGoes
<1>8. CASE proc' = [proc EXCEPT ![p] = Demo!Idle]
  <2>1. PICK i : i = Demo!Idle
    OBVIOUS
  <2>2. DOMAIN i = PFields /\ i.pc = "idle" /\ i.made = {}
    BY <2>1, ProcessSets
  <2>3. Fresh(p, r, new, res[r], left[r], i)
    BY <1>1, <1>2, <1>3, <1>4, <1>8, <2>1, <2>2 DEF Fresh
  <2>4. r \notin demos' /\ res[r] \subseteq left[r]
    BY <1>3, <1>6
  <2> QED  BY <1>6, <2>2, <2>3, <2>4, FreshEnds
<1> QED  BY <1>3, <1>7, <1>8

(* The row is marked as deleted.                                            *)
LEMMA MarkDeletedStep ==
    ASSUME EInv, OneOperator, NEW p \in Operators, Demo!MarkDeleted(p)
    PROVE  EInv'
<1>1. proc[p].pc = "mark_deleted" /\ UNCHANGED <<demos, res, excused, left>>
  BY DEF Demo!MarkDeleted
<1>2. PICK r \in Demo!Requests :
             /\ proc[p].r = r /\ DOMAIN row[r] = DFields /\ r \in DOMAIN row /\ r \in DOMAIN res
             /\ row = [row EXCEPT ![r] = row[r]] /\ res = [res EXCEPT ![r] = res[r]]
             /\ left = [left EXCEPT ![r] = left[r]] /\ r \in DOMAIN left
             /\ row[r].deleted => row[r].terminated /\ r \notin demos
             /\ res[r] \subseteq Demo!Kinds
  BY <1>1, Operating
<1>3. PICK q : q = Demo!Idle
  OBVIOUS
<1> DEFINE new == [row[r] EXCEPT !.deleted = TRUE, !.terminated = TRUE, !.instance = "deleted"]
<1>4. row' = [row EXCEPT ![r] = new] /\ proc' = [proc EXCEPT ![p] = q]
  BY <1>2, <1>3, AtProcess DEF Demo!MarkDeleted
<1>5. DOMAIN q = PFields /\ q.pc = "idle" /\ q.made = {}
  BY <1>3, ProcessSets
<1>6. DOMAIN new = DFields /\ new.terminated
  BY <1>2 DEF DFields
<1> HIDE DEF new
<1>7. r \notin demos /\ res[r] \subseteq left[r]
  BY <1>1, <1>2, AtProcess DEF OperatorKnows
<1>8. Fresh(p, r, new, res[r], left[r], q) /\ RowStands(r, new)
  BY <1>1, <1>2, <1>4, <1>5, <1>6, <1>7 DEF Fresh, RowStands
<1>9. r \notin demos' /\ res[r] \subseteq left[r]
  BY <1>1, <1>7
<1> QED  BY <1>5, <1>8, <1>9, FreshEnds

(* A process dies, which excuses its request.                               *)
LEMMA DemoCrashStep ==
    ASSUME EInv, OneOperator, NEW p \in Demo!Processes, Demo!Crash(p)
    PROVE  EInv'
<1>1. /\ proc[p].pc # "idle" /\ UNCHANGED <<row, demos, res>>
      /\ excused' = excused \cup {proc[p].r} /\ proc' = [proc EXCEPT ![p] = Demo!Idle]
  BY DEF Demo!Crash
<1>2. PICK q : q = Demo!Idle
  OBVIOUS
<1>3. DOMAIN q = PFields /\ q.pc = "idle" /\ q.made = {}
  BY <1>2, ProcessSets
<1>4. CASE p \in DemoWorkers
  <2>1. PICK z : z \in Demo!Requests
    BY CloudBounds DEF Demo!DemoAssumption, Demo!Requests
  <2>2. \/ left' = left
        \/ /\ left' = [s \in Demo!Requests |-> left'[s]]
           /\ \A s \in Demo!Requests : left[s] \subseteq left'[s]
    BY DEF Demo!Crash, EInv, DShapes
  <2> QED  BY <1>1, <1>2, <1>3, <1>4, <2>1, <2>2, WorkerMoves
<1>5. CASE p \in Operators
  <2>1. PICK r \in Demo!Requests :
             /\ proc[p].r = r /\ DOMAIN row[r] = DFields /\ r \in DOMAIN row /\ r \in DOMAIN res
             /\ row = [row EXCEPT ![r] = row[r]] /\ res = [res EXCEPT ![r] = res[r]]
             /\ left = [left EXCEPT ![r] = left[r]] /\ r \in DOMAIN left
             /\ row[r].deleted => row[r].terminated /\ r \notin demos
             /\ res[r] \subseteq Demo!Kinds
    BY <1>1, <1>5, Operating
  <2>2. PICK l : /\ left' = [left EXCEPT ![r] = l]
                 /\ l = IF r \in demos THEN left[r]
                         ELSE left[r] \cup ((proc[p].made \cup proc[p].undo) \cap res[r])
    BY <2>1 DEF Demo!Crash
  <2>3. Fresh(p, r, row[r], res[r], l, q) /\ RowStands(r, row[r])
    BY <1>1, <1>2, <1>3, <2>1, <2>2 DEF Fresh, RowStands
  <2>4. r \in excused'
    BY <1>1, <2>1
  <2>5. r \notin demos' => res[r] \subseteq l
    BY <1>1, <1>5, <2>1, <2>2, AtProcess DEF OperatorKnows
  <2> QED  BY <1>3, <1>5, <2>3, <2>4, <2>5, FreshEnds
<1> QED  BY <1>4, <1>5, ProcessSets

(* Every step of the demo lane keeps the invariant.                         *)
LEMMA DemoStep ==
    ASSUME EInv, OneOperator, Demo!Next
    PROVE  EInv'
<1>1. ASSUME NEW r \in Demo!Requests,
             \/ Demo!_demo_confirm_submit(r) \/ Demo!EditInputs(r) \/ Demo!ExpireLease(r)
             \/ Demo!BackoffOver(r) \/ Demo!reconcile_stale_demo_clone_jobs(r)
      PROVE  EInv'
  <2>1. CASE Demo!EditInputs(r)
    BY <2>1, OtherSteps DEF Demo!EditInputs
  <2> QED  BY <1>1, <2>1, RequestSteps
<1>2. ASSUME Demo!Tick
      PROVE  EInv'
  BY <1>2, OtherSteps DEF Demo!Tick
<1>3. ASSUME NEW w \in DemoWorkers, Demo!WorkerStep(w)
      PROVE  EInv'
  BY <1>3, WorkerSteps
<1>4. ASSUME NEW p \in Operators, Demo!OperatorStep(p)
      PROVE  EInv'
  <2>1. CASE Demo!RemoveResource(p)
    BY <2>1, RemoveOneStep DEF Demo!RemoveResource
  <2> QED  BY <1>4, <2>1, StartCloneStep, ActivateStep, StartRemovalStep, DeleteDemoStep,
              MarkDeletedStep DEF Demo!OperatorStep
<1>5. ASSUME NEW p \in Demo!Processes, Demo!CloneStep(p)
      PROVE  EInv'
  <2>1. p \in Operators
    BY <1>5, CloneByOperator
  <2>2. CASE Demo!cleanup(p)
    BY <2>1, <2>2, RemoveOneStep DEF Demo!cleanup
  <2> QED  BY <1>5, <2>1, <2>2, MakeNextStep, ClonePcStep, ReserveDemoStep,
              MarkDemoFailedStep, InstanceFailedStep DEF Demo!CloneStep
<1>6. ASSUME NEW p \in Demo!Processes, Demo!Crash(p)
      PROVE  EInv'
  BY <1>6, DemoCrashStep
<1> QED  BY <1>1, <1>2, <1>3, <1>4, <1>5, <1>6 DEF Demo!Next

(* The invariant holds at the start.                                        *)
LEMMA DemoBegins ==
    ASSUME CloudInit
    PROVE  EInv
<1>1. /\ row = [r \in Demo!Requests |-> Demo!NoRow] /\ demos = {}
      /\ res = [r \in Demo!Requests |-> {}] /\ left = [r \in Demo!Requests |-> {}]
      /\ proc = [p \in Demo!Processes |-> Demo!Idle]
  BY DEF CloudInit, Demo!Init
<1>2. DOMAIN Demo!NoRow = DFields /\ ~Demo!NoRow.deleted
  BY DEF Demo!NoRow, DFields
<1>3. DShapes
  BY <1>1, <1>2, ProcessSets DEF DShapes
<1>4. \A p \in Operators : OperatorKnows(p)
  BY <1>1, ProcessSets DEF OperatorKnows
<1>5. \A r \in Demo!Requests : DemoOk(r)
  BY <1>1, <1>2 DEF DemoOk
<1> QED  BY <1>1, <1>3, <1>4, <1>5, ProcessSets DEF EInv

(* EInv holds of every state, when one operator works.                      *)
LEMMA DemoInvariant ==
    ASSUME OneOperator
    PROVE  CloudSpec => []EInv
<1>1. CloudInit => EInv
  BY DemoBegins
<1>2. EInv /\ [CloudNext]_all => EInv'
  <2> SUFFICES ASSUME EInv, [CloudNext]_all
               PROVE  EInv'
    OBVIOUS
  <2>1. CASE Demo!Next
    BY <2>1, DemoStep
  <2>2. CASE UNCHANGED demoVars
    BY <2>2, OtherSteps DEF demoVars
  <2> QED  BY <2>1, <2>2 DEF CloudNext, all
<1>3. CloudSpec => CloudInit /\ [][CloudNext]_all
  BY PTL DEF CloudSpec
<1> QED  BY <1>1, <1>2, <1>3, PTL

(* A demo that is launched has its tenant and every part of its clone, for  *)
(* any number of requests and workers (activate_demo_lifecycle,             *)
(* execute_demo_clone_job).                                                 *)
THEOREM LaunchedDemoIsServed ==
    ASSUME OneOperator
    PROVE  CloudSpec => []LaunchIsServed
<1>1. EInv => LaunchIsServed
  <2> SUFFICES ASSUME EInv, NEW r \in Demo!Requests, Demo!can_launch(r), ~Demo!Busy(r),
                      r \notin excused
               PROVE  /\ r \in demos /\ Demo!CloneKinds \subseteq res[r]
                      /\ ~Demo!is_demo_access_expired(r) /\ ~row[r].deleted
    BY DEF LaunchIsServed, Demo!LaunchIsServed
  <2>1. Demo!get_demo_portal_status(r) = "active"
    BY DEF Demo!can_launch
  <2>2. /\ r \in demos /\ ~(now >= row[r].trial) /\ ~row[r].terminated
    BY <2>1 DEF Demo!get_demo_portal_status, Demo!_is_demo_subscription_active, Demo!InputsInOrder
  <2>3. \A p \in Operators : proc[p].r # r
    BY ProcessSets DEF Demo!Busy
  <2> QED  BY <2>2, <2>3, CallRow DEF DemoOk, Demo!is_demo_access_expired
<1> QED  BY <1>1, DemoInvariant, PTL

(* A request without a demo that nobody is on has no resource but what was  *)
(* left behind: what a step that raised had made before its flag was set,   *)
(* what a removal failed on and what a process that died had made; for any  *)
(* number of requests, workers, failures and crashes (_CleanupTracker,      *)
(* rollback_demo_clone, execute_demo_cleanup).                              *)
THEOREM UnservedDemoIsClean ==
    ASSUME OneOperator
    PROVE  CloudSpec => []UnservedIsClean
<1>1. EInv => UnservedIsClean
  <2> SUFFICES ASSUME EInv, NEW r \in Demo!Requests, r \notin demos, ~Demo!Busy(r)
               PROVE  res[r] \subseteq left[r]
    BY DEF UnservedIsClean, Demo!UnservedIsClean
  <2>1. \A p \in Operators : proc[p].r # r
    BY ProcessSets DEF Demo!Busy
  <2> QED  BY <2>1, CallRow DEF DemoOk
<1> QED  BY <1>1, DemoInvariant, PTL

===============================================================================
