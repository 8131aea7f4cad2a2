--------------------------- MODULE OperationsProofs ---------------------------
(***************************************************************************)
(* Proofs about the three parts MCOperations checks side by side, for any  *)
(* number of commits, deliveries, backups, restores, accounts, requests,   *)
(* faults and crashes.  WInv is inductive for the webhooks, BInv for       *)
(* backups and restores, UInv for the acceptance tenants.                  *)
(***************************************************************************)
EXTENDS MCOperations, FiniteSetTheorems, WellFoundedInduction, TLAPS

(* The rows create_build_record makes.                                      *)
WBuilds == [d : Hook!Deliveries, sha : Commits \cup {"none", "unsent"}, deleted : BOOLEAN]

(* The inductive invariant of the webhooks: a commit has at most one build  *)
(* that was not deleted.                                                    *)
WInv ==
    /\ sent \in [Hook!Deliveries -> Commits \cup {"none", "unsent"}]
    /\ handler \in [d : Hook!Deliveries \cup {0}, step : {"idle", "branch", "build", "record"}]
    /\ handler.step # "idle" => handler.d \in Hook!Deliveries
    /\ builds \subseteq WBuilds
    /\ \A b, c \in builds : ~b.deleted /\ ~c.deleted /\ b.sha = c.sha => b = c

(* Every webhook step keeps WInv: a build is made only for a commit that    *)
(* has none.                                                                *)
LEMMA WebhookStep ==
    ASSUME WInv, Hook!WNext
    PROVE  WInv'
<1>1. CASE UNCHANGED <<sent, builds, handler>>
  BY <1>1 DEF WInv
<1>2. ASSUME NEW c \in Commits \cup {"none"}, Hook!Push(c)
      PROVE  WInv'
  <2>1. sent' \in [Hook!Deliveries -> Commits \cup {"none", "unsent"}]
    BY <1>2 DEF WInv, Hook!Push
  <2>2. UNCHANGED <<builds, handler>>
    BY <1>2 DEF Hook!Push
  <2> QED  BY <2>1, <2>2 DEF WInv
<1>3. ASSUME UNCHANGED <<sent, builds>>,
             \/ handler' = Hook!NoHandler
             \/ \E d \in Hook!Deliveries : handler' = [d |-> d, step |-> "branch"]
             \/ handler.step = "branch" /\ handler' = [handler EXCEPT !.step = "build"]
      PROVE  WInv'
  BY <1>3 DEF WInv, Hook!NoHandler
<1>4. CASE Hook!create_build_record
  <2> DEFINE b == [d |-> handler.d, sha |-> sent[handler.d], deleted |-> FALSE]
  <2>1. /\ sent' = sent /\ handler.step = "build" /\ handler' = [handler EXCEPT !.step = "record"]
        /\ \/ builds' = builds
           \/ Hook!Existing(sent[handler.d]) = {} /\ builds' = builds \cup {b}
    BY <1>4 DEF Hook!create_build_record
  <2>2. handler'.d = handler.d /\ handler.d \in Hook!Deliveries
    BY <2>1 DEF WInv
  <2>3. b \in WBuilds /\ b.sha = sent[handler.d]
    BY <2>2 DEF WInv, WBuilds
  <2>4. CASE builds' = builds
    BY <2>1, <2>2, <2>4 DEF WInv
  <2>5. CASE Hook!Existing(sent[handler.d]) = {} /\ builds' = builds \cup {b}
    <3>1. \A c \in builds : c.deleted \/ c.sha # b.sha
      BY <2>3, <2>5 DEF Hook!Existing
    <3> HIDE DEF b
    <3>2. \A x, c \in builds' : ~x.deleted /\ ~c.deleted /\ x.sha = c.sha => x = c
      BY <2>5, <3>1 DEF WInv
    <3> QED  BY <2>1, <2>2, <2>3, <2>5, <3>2 DEF WInv
  <2> QED  BY <2>1, <2>4, <2>5
<1>5. ASSUME NEW b \in builds, Hook!DeleteBuild(b)
      PROVE  WInv'
  <2> DEFINE g == [b EXCEPT !.deleted = TRUE]
  <2>3. b \in WBuilds
    BY DEF WInv
  <2>1. g \in WBuilds /\ g.deleted
    BY <2>3, Zenon DEF WBuilds
  <2>2. builds' = (builds \ {b}) \cup {g} /\ UNCHANGED <<sent, handler>>
    BY <1>5 DEF Hook!DeleteBuild
  <2> HIDE DEF g
  <2> QED  BY <2>1, <2>2 DEF WInv
<1>6. ASSUME \/ \E d \in Hook!Deliveries : Hook!RecordDelivery(d)
             \/ Hook!DeactivateBranch \/ Hook!UpsertBranch \/ Hook!BuildRefused
             \/ Hook!process_github_webhook \/ Hook!Killed
      PROVE  WInv'
  BY <1>3, <1>6
     DEF Hook!RecordDelivery, Hook!DeactivateBranch, Hook!UpsertBranch, Hook!BuildRefused,
         Hook!process_github_webhook, Hook!Killed
<1>7. ASSUME \/ \E d \in Hook!Deliveries : Hook!Redeliver(d) \/ Hook!DuplicateDelivery(d)
             \/ Hook!install_project_webhook \/ Hook!disable_project_webhook \/ Hook!SaveHook
             \/ Hook!list_branches \/ Hook!sync_project_branches
      PROVE  WInv'
  BY <1>1, <1>7
     DEF Hook!Redeliver, Hook!DuplicateDelivery, Hook!install_project_webhook,
         Hook!disable_project_webhook, Hook!SaveHook, Hook!list_branches,
         Hook!sync_project_branches
<1> QED
  BY <1>2, <1>4, <1>5, <1>6, <1>7
     DEF Hook!WNext, Hook!HandlerStep, Hook!PageStep, Hook!NULL_SHA

(* A commit has one webhook build at a time, however deliveries are         *)
(* repeated, reordered or lost (create_build_record).                       *)
THEOREM CommitBuiltOnce == Spec => []OneBuildPerCommit
<1>1. Init => WInv
  BY DEF Init, Hook!WInit, Hook!NoHandler, WInv
<1>2. WInv /\ [Next]_all => WInv'
  <2>1. WInv /\ UNCHANGED hookVars => WInv'
    BY DEF WInv, hookVars
  <2> QED  BY <2>1, WebhookStep DEF Next, all
<1>3. WInv => OneBuildPerCommit
  <2> SUFFICES ASSUME WInv, NEW c \in Commits
               PROVE  Hook!Cardinality(Hook!Existing(c)) <= 1
    BY DEF OneBuildPerCommit, Hook!OneBuildPerCommit
  <2>1. Hook!Cardinality(Hook!Existing(c)) = Cardinality(Hook!Existing(c))
    BY DEF Hook!Cardinality, Cardinality
  <2>2. CASE Hook!Existing(c) = {}
    BY <2>1, <2>2, FS_EmptySet
  <2>3. ASSUME NEW b \in Hook!Existing(c)
        PROVE  Hook!Existing(c) = {b}
    BY <2>3 DEF Hook!Existing, WInv
  <2> QED  BY <2>1, <2>2, <2>3, FS_Singleton
<1> QED  BY <1>1, <1>2, <1>3, PTL DEF Spec

-------------------------------------------------------------------------------

(* The steps of the worker on a restore ...                                 *)
RSteps == {"manifest", "filestore", "role", "dump_in", "container", "health", "rollback", "restored"}

(* ... and on backups and their retention.                                  *)
BSteps == {"idle", "dump", "publish", "succeed", "schedule", "retention", "audit", "cleanup", "sweep"}

(* What the worker's position is taken from.                                *)
WRows == [step : RSteps \cup BSteps, b : Backup!Backups \cup {0}, r : Backup!Restores \cup {0}]

(* The rows of restore_jobs, with the tenant and subscription they made.    *)
RRows == [status : {"none", "queued", "restoring", "succeeded", "failed"},
          b : Backup!Backups \cup {0}, sub : {"none", "trial", "terminated"},
          tenant : {"none", "provisioning", "active", "failed"},
          rolledBack : {"none", "completed", "failed"}]

(* The types of what restores depend on.                                    *)
BTypes ==
    /\ restore \in [Backup!Restores -> RRows]
    /\ res \in [Backup!Restores -> SUBSET Backup!Resources]
    /\ worker \in WRows
    /\ req \in [kind : {"none", "backup", "restore"}, b : Backup!Backups \cup {0}]

(* A restore request that passed its checks finds a free row to insert.     *)
BRequest ==
    req.kind = "restore" => \E r \in Backup!Restores : restore[r].status = "none"

(* A restore that was not started has made nothing.                         *)
BUntouched ==
    \A r \in Backup!Restores :
        restore[r].status \in {"none", "queued"} =>
            res[r] = {} /\ restore[r].tenant = "none" /\ restore[r].rolledBack = "none"

(* What a restore has made when the worker comes to a step.                 *)
MadeBy(step) ==
    CASE step \in {"manifest", "filestore"} -> {}
      [] step = "role" -> {"filestore"}
      [] step \in {"dump_in", "container"} -> {"filestore", "role", "database"}
      [] OTHER -> Backup!Resources

(* The restore the worker is on is in progress, and has exactly what the    *)
(* steps before the current one made.                                       *)
BWorker ==
    worker.step \in RSteps =>
        /\ worker.r \in Backup!Restores
        /\ restore[worker.r].status \notin {"none", "queued"}
        /\ worker.step # "restored" =>
               /\ restore[worker.r].status = "restoring"
               /\ restore[worker.r].rolledBack = "none"
               /\ restore[worker.r].tenant
                     = IF worker.step = "manifest" THEN "none" ELSE "provisioning"
        /\ worker.step \notin {"rollback", "restored"} => res[worker.r] = MadeBy(worker.step)

(* The inductive invariant of backups and restores: a restore's success     *)
(* depends on the worker's position, not on what a crash before left.       *)
BInv == BTypes /\ BRequest /\ BUntouched /\ BWorker /\ RestoreIsWhole

(* The smallest of a set of rows is one of them.                            *)
LEMMA SmallestIsOne ==
    ASSUME NEW S, S \subseteq Nat, S # {}
    PROVE  Backup!Smallest(S) \in S
<1>1. PICK x \in S : \A y \in S : ~ (<<y, x>> \in OpToRel(<, Nat))
  BY NatLessThanWellFounded, WFMin
<1>2. \A y \in S : x <= y
  <2> TAKE y \in S
  <2>1. x \in Nat /\ y \in Nat /\ ~(y < x)
    BY <1>1 DEF OpToRel
  <2> QED  BY <2>1
<1> QED  BY <1>2 DEF Backup!Smallest

(* A step that leaves the restores alone keeps the invariant.               *)
LEMMA BackupQuiet ==
    ASSUME BInv, UNCHANGED <<restore, res, req>>, worker' \in WRows,
           worker' = worker \/ worker'.step \notin RSteps
    PROVE  BInv'
<1>1. BTypes' /\ BRequest' /\ BUntouched'
  BY DEF BInv, BTypes, BRequest, BUntouched
<1>2. BWorker'
  BY DEF BInv, BWorker
<1>3. RestoreIsWhole'
  BY DEF BInv, RestoreIsWhole, Backup!RestoreIsWhole
<1> QED  BY <1>1, <1>2, <1>3 DEF BInv

(* The worker's position after a step.                                      *)
LEMMA WorkerMoves ==
    ASSUME BTypes
    PROVE  /\ \A s \in RSteps \cup BSteps : /\ [worker EXCEPT !.step = s] \in WRows
                                            /\ [worker EXCEPT !.step = s].step = s
                                            /\ [worker EXCEPT !.step = s].r = worker.r
           /\ Backup!Idle \in WRows /\ Backup!Idle.step = "idle"
           /\ \A s \in BSteps, b \in Backup!Backups :
                  LET w == [Backup!Idle EXCEPT !.step = s, !.b = b]
                  IN w \in WRows /\ w.step = s
           /\ \A s \in RSteps, r \in Backup!Restores :
                  LET w == [Backup!Idle EXCEPT !.step = s, !.r = r]
                  IN w \in WRows /\ w.step = s /\ w.r = r
BY DEF BTypes, WRows, Backup!Idle, RSteps, BSteps

(* The backup claimed next is one of the backups.                           *)
LEMMA SmallestQueued ==
    ASSUME Backup!Queued # {}
    PROVE  Backup!Smallest(Backup!Queued) \in Backup!Backups
<1>1. Backup!Queued \subseteq Nat
  BY DEF Backup!Queued, Backup!Backups
<1> QED  BY <1>1, SmallestIsOne DEF Backup!Queued

(* The steps of a backup, its schedule and its retention do not touch a     *)
(* restore.                                                                 *)
LEMMA BackupStepKeeps ==
    ASSUME BInv, Backup!BackupStep \/ (\E p \in Backup!Sweepers : Backup!Sweep(p))
    PROVE  BInv'
<1>0. BTypes
  BY DEF BInv
<1>1. UNCHANGED <<restore, res, req>>
  BY DEF Backup!BackupStep, Backup!Sweep, Backup!claim_next_backup_job, Backup!ResolveFails, Backup!Dump,
     Backup!Publish, Backup!Succeed, Backup!update_schedule_after_backup, Backup!record_audit,
     Backup!_fail_backup, Backup!Cleanup, Backup!reconcile_stale_backup_jobs,
     Backup!StartRetention, Backup!RemoveFiles, Backup!apply_retention, Backup!EndRetention
<1>2. \/ worker' = worker
      \/ \E s \in BSteps : worker' = [worker EXCEPT !.step = s]
      \/ worker' = Backup!Idle
      \/ \E s \in BSteps, b \in Backup!Backups : worker' = [Backup!Idle EXCEPT !.step = s, !.b = b]
  <2>1. CASE Backup!claim_next_backup_job
    BY <2>1, SmallestQueued DEF Backup!claim_next_backup_job, BSteps
  <2>2. CASE \E b \in Backup!Backups : Backup!reconcile_stale_backup_jobs(b)
    BY <2>2 DEF Backup!reconcile_stale_backup_jobs, BSteps
  <2>3. CASE \E p \in Backup!Sweepers : Backup!Sweep(p)
    BY <2>3 DEF Backup!Sweep, Backup!StartRetention, Backup!RemoveFiles, Backup!apply_retention,
                Backup!EndRetention, BSteps
  <2>4. CASE Backup!ResolveFails \/ Backup!Cleanup \/ Backup!record_audit
    BY <2>4 DEF Backup!ResolveFails, Backup!Cleanup, Backup!record_audit
  <2>5. CASE Backup!Dump \/ Backup!Publish \/ Backup!_fail_backup
    BY <2>5 DEF Backup!Dump, Backup!Publish, Backup!_fail_backup, BSteps
  <2>6. CASE Backup!update_schedule_after_backup
    BY <2>6 DEF Backup!update_schedule_after_backup, BSteps
  <2>7. CASE Backup!Succeed
    BY <2>7 DEF Backup!Succeed, BSteps
  <2> QED
    BY <2>1, <2>2, <2>3, <2>4, <2>5, <2>6, <2>7 DEF Backup!BackupStep
<1>3. worker' \in WRows /\ (worker' = worker \/ worker'.step \in BSteps)
  <2>1. CASE worker' = worker
    BY <1>0, <2>1 DEF BTypes
  <2>2. ASSUME NEW s \in BSteps, worker' = [worker EXCEPT !.step = s]
        PROVE  worker' \in WRows /\ worker'.step \in BSteps
    <3>1. s \in RSteps \cup BSteps
      OBVIOUS
    <3> QED  BY <1>0, <2>2, <3>1, WorkerMoves
  <2>3. CASE worker' = Backup!Idle
    <3>1. "idle" \in BSteps
      BY DEF BSteps
    <3> QED  BY <1>0, <2>3, <3>1, WorkerMoves
  <2>4. ASSUME NEW s \in BSteps, NEW b \in Backup!Backups,
               worker' = [Backup!Idle EXCEPT !.step = s, !.b = b]
        PROVE  worker' \in WRows /\ worker'.step \in BSteps
    BY <1>0, <2>4, WorkerMoves
  <2> QED  BY <1>2, <2>1, <2>2, <2>3, <2>4
<1> QED  BY <1>1, <1>3, BackupQuiet DEF RSteps, BSteps

(* The checks of a request, and the insert of a backup.                     *)
LEMMA RequestStep ==
    ASSUME BInv, \/ Backup!CheckBackup \/ Backup!queue_backup
                 \/ \E b \in Backup!Backups : Backup!CheckRestore(b)
    PROVE  BInv'
<1>1. UNCHANGED <<restore, res, worker>>
  BY DEF Backup!CheckBackup, Backup!queue_backup, Backup!CheckRestore
<1>2. /\ req' \in [kind : {"none", "backup", "restore"}, b : Backup!Backups \cup {0}]
      /\ req'.kind = "restore" => \E r \in Backup!Restores : restore[r].status = "none"
  BY DEF Backup!CheckBackup, Backup!queue_backup, Backup!CheckRestore, Backup!NoReq
<1>3. BTypes' /\ BRequest' /\ BUntouched' /\ BWorker'
  BY <1>1, <1>2 DEF BInv, BTypes, BRequest, BUntouched, BWorker
<1>4. RestoreIsWhole'
  BY <1>1 DEF BInv, RestoreIsWhole, Backup!RestoreIsWhole
<1> QED  BY <1>3, <1>4 DEF BInv

(* queue_restore inserts a restore that has made nothing.                   *)
LEMMA QueueStep ==
    ASSUME BInv, Backup!queue_restore
    PROVE  BInv'
<1> DEFINE S == {r \in Backup!Restores : restore[r].status = "none"}
           r == Backup!Smallest(S)
           row == [restore[r] EXCEPT !.status = "queued", !.b = req.b]
<1>1. r \in Backup!Restores /\ restore[r].status = "none" /\ req.b \in Backup!Backups \cup {0}
  <2>1. S \subseteq Nat /\ S # {}
    BY DEF BInv, BRequest, Backup!queue_restore, Backup!Restores
  <2>2. r \in S
    BY <2>1, SmallestIsOne
  <2> QED  BY <2>2 DEF BInv, BTypes
<1>2. /\ restore' = [restore EXCEPT ![r].status = "queued", ![r].b = req.b]
      /\ req' = Backup!NoReq /\ UNCHANGED <<res, worker>>
  BY DEF Backup!queue_restore
<1> HIDE DEF r
<1>3. restore' = [restore EXCEPT ![r] = row]
  BY <1>1, <1>2 DEF BInv, BTypes
<1>4. /\ row \in RRows /\ row.status = "queued"
      /\ row.tenant = restore[r].tenant /\ row.rolledBack = restore[r].rolledBack
  BY <1>1 DEF BInv, BTypes, RRows
<1> HIDE DEF row
<1>5. /\ restore' \in [Backup!Restores -> RRows] /\ restore'[r] = row
      /\ \A q \in Backup!Restores \ {r} : restore'[q] = restore[q]
  BY <1>1, <1>3, <1>4 DEF BInv, BTypes
<1>6. BTypes' /\ BRequest'
  BY <1>2, <1>5 DEF BInv, BTypes, BRequest, Backup!NoReq
<1>7. BUntouched'
  BY <1>1, <1>2, <1>4, <1>5 DEF BInv, BUntouched
<1>8. BWorker'
  BY <1>1, <1>2, <1>4, <1>5 DEF BInv, BWorker
<1>9. RestoreIsWhole'
  BY <1>1, <1>2, <1>4, <1>5 DEF BInv, BUntouched, RestoreIsWhole, Backup!RestoreIsWhole
<1> QED  BY <1>6, <1>7, <1>8, <1>9 DEF BInv

(* The worker writes its restore's row, or its resources, and goes on. *)
LEMMA RestoreMoves ==
    ASSUME BInv, UNCHANGED req, NEW r \in Backup!Restores, NEW row \in RRows,
           NEW made \in SUBSET Backup!Resources,
           restore[r].status # "none", row.status \notin {"none", "queued"},
           restore' = [restore EXCEPT ![r] = row], res' = [res EXCEPT ![r] = made],
           worker' \in WRows, worker'.step \in RSteps => worker'.r = r,
           worker'.step \in RSteps \ {"restored"} =>
               /\ row.status = "restoring" /\ row.rolledBack = "none"
               /\ row.tenant = IF worker'.step = "manifest" THEN "none" ELSE "provisioning",
           worker'.step \in RSteps \ {"rollback", "restored"} => made = MadeBy(worker'.step),
           row.tenant = "active" => made = Backup!Resources,
           row.status = "succeeded" => row.tenant = "active",
           row.rolledBack = "completed" => made = {} /\ row.sub = "terminated"
    PROVE  BInv'
<1>1. /\ restore' \in [Backup!Restores -> RRows] /\ restore'[r] = row
      /\ \A q \in Backup!Restores \ {r} : restore'[q] = restore[q]
  BY DEF BInv, BTypes
<1>2. /\ res' \in [Backup!Restores -> SUBSET Backup!Resources] /\ res'[r] = made
      /\ \A q \in Backup!Restores \ {r} : res'[q] = res[q]
  BY DEF BInv, BTypes
<1>3. BTypes' /\ BRequest'
  BY <1>1, <1>2 DEF BInv, BTypes, BRequest
<1>4. BUntouched'
  BY <1>1, <1>2 DEF BInv, BUntouched
<1>5. BWorker'
  BY <1>1, <1>2 DEF BWorker
<1>6. RestoreIsWhole'
  BY <1>1, <1>2 DEF BInv, RestoreIsWhole, Backup!RestoreIsWhole
<1> QED  BY <1>3, <1>4, <1>5, <1>6 DEF BInv

(* Nothing is made before the filestore.                                    *)
LEMMA NothingMade == MadeBy("manifest") = {} /\ MadeBy("filestore") = {}
BY DEF MadeBy

(* claim_next_restore_job takes a restore that has made nothing.            *)
LEMMA ClaimStep ==
    ASSUME BInv, Backup!claim_next_restore_job
    PROVE  BInv'
<1> DEFINE S == {r \in Backup!Restores : restore[r].status = "queued"}
           r == Backup!Smallest(S)
           row == [restore[r] EXCEPT !.status = "restoring"]
<1>1. r \in Backup!Restores /\ restore[r].status = "queued" /\ restore[r] \in RRows
  <2>1. S \subseteq Nat /\ S # {}
    BY DEF Backup!claim_next_restore_job, Backup!Restores
  <2>2. r \in S
    BY <2>1, SmallestIsOne
  <2> QED  BY <2>2 DEF BInv, BTypes
<1>2. /\ restore' = [restore EXCEPT ![r] = row]
      /\ worker' = [Backup!Idle EXCEPT !.step = "manifest", !.r = r] /\ UNCHANGED <<res, req>>
  BY DEF Backup!claim_next_restore_job
<1> HIDE DEF r
<1>3. /\ row \in RRows /\ row.status = "restoring"
      /\ row.tenant = restore[r].tenant /\ row.rolledBack = restore[r].rolledBack
  BY <1>1 DEF RRows
<1> HIDE DEF row
<1>4. worker' \in WRows /\ worker'.step = "manifest" /\ worker'.r = r
  <2>1. "manifest" \in RSteps /\ BTypes
    BY DEF BInv, RSteps
  <2>2. [Backup!Idle EXCEPT !.step = "manifest", !.r = r] \in WRows
    BY <1>1, <2>1, WorkerMoves
  <2>3. /\ [Backup!Idle EXCEPT !.step = "manifest", !.r = r].step = "manifest"
        /\ [Backup!Idle EXCEPT !.step = "manifest", !.r = r].r = r
    BY DEF Backup!Idle
  <2> QED  BY <1>2, <2>2, <2>3
<1>5. res' = [res EXCEPT ![r] = {}] /\ res[r] = {}
      /\ restore[r].tenant = "none" /\ restore[r].rolledBack = "none"
  BY <1>1, <1>2 DEF BInv, BTypes, BUntouched
<1> QED  BY <1>1, <1>2, <1>3, <1>4, <1>5, NothingMade, RestoreMoves

(* What BInv says of the restore the worker is on.                          *)
LEMMA AtWork ==
    ASSUME BInv, worker.step \in RSteps
    PROVE  /\ worker.r \in Backup!Restores /\ restore[worker.r] \in RRows
           /\ res[worker.r] \in SUBSET Backup!Resources
           /\ restore = [restore EXCEPT ![worker.r] = restore[worker.r]]
           /\ res = [res EXCEPT ![worker.r] = res[worker.r]]
           /\ \A s \in RSteps \cup BSteps : /\ [worker EXCEPT !.step = s] \in WRows
                                            /\ [worker EXCEPT !.step = s].step = s
                                            /\ [worker EXCEPT !.step = s].r = worker.r
           /\ Backup!Idle \in WRows /\ Backup!Idle.step \notin RSteps
<1>1. worker.r \in Backup!Restores /\ restore[worker.r] \in RRows
      /\ res[worker.r] \in SUBSET Backup!Resources
  BY DEF BInv, BTypes, BWorker
<1>2. /\ restore = [restore EXCEPT ![worker.r] = restore[worker.r]]
      /\ res = [res EXCEPT ![worker.r] = res[worker.r]]
  BY <1>1 DEF BInv, BTypes
<1>3. "idle" \notin RSteps
  BY DEF RSteps
<1> QED  BY <1>1, <1>2, <1>3, WorkerMoves DEF BInv

(* A manifest that verifies: the tenant's row is made.                      *)
LEMMA ManifestStep ==
    ASSUME BInv, Backup!verify_backup_manifest
    PROVE  BInv'
<1> DEFINE r == worker.r
           row == [restore[r] EXCEPT !.sub = "trial", !.tenant = "provisioning"]
<1>1. /\ worker.step = "manifest" /\ UNCHANGED <<res, req>>
      /\ restore' = [restore EXCEPT ![r].sub = "trial", ![r].tenant = "provisioning"]
      /\ worker' = [worker EXCEPT !.step = "filestore"]
      /\ {"manifest", "filestore"} \subseteq RSteps
  BY DEF Backup!verify_backup_manifest, RSteps
<1>2. /\ r \in Backup!Restores /\ restore[r] \in RRows /\ res[r] = {}
      /\ restore[r].status = "restoring" /\ restore[r].rolledBack = "none"
      /\ res' = [res EXCEPT ![r] = {}]
      /\ worker' \in WRows /\ worker'.step = "filestore" /\ worker'.r = r
  BY <1>1, AtWork DEF BInv, BWorker, MadeBy
<1>3. restore' = [restore EXCEPT ![r] = row]
  BY <1>1, <1>2 DEF BInv, BTypes
<1>4. /\ row \in RRows /\ row.status = "restoring" /\ row.tenant = "provisioning"
      /\ row.rolledBack = "none"
  BY <1>2 DEF RRows
<1> HIDE DEF row, r
<1>5. /\ restore[r].status # "none" /\ row.status \notin {"none", "queued"} /\ UNCHANGED req
      /\ {} \in SUBSET Backup!Resources
      /\ MadeBy(worker'.step) = {}
  BY <1>1, <1>2, <1>4, NothingMade
<1> QED  BY <1>2, <1>3, <1>4, <1>5, RestoreMoves

(* The filestore, then the role and the database, the dump and the          *)
(* container: each step adds what MadeBy says.                              *)
LEMMA MakeStep ==
    ASSUME BInv, \/ Backup!_prepare_tenant_filestore \/ Backup!create_tenant_role
                 \/ Backup!_pg_restore \/ Backup!run_tenant_odoo_container
    PROVE  BInv'
<1> DEFINE r == worker.r
<1>1. PICK to \in {"role", "dump_in", "container", "health"} :
          /\ UNCHANGED <<restore, req>>
          /\ worker' = [worker EXCEPT !.step = to]
          /\ worker.step \in {"filestore", "role", "dump_in", "container"}
          /\ res' = [res EXCEPT ![r] = MadeBy(to)]
  <2>1. CASE Backup!_prepare_tenant_filestore
    <3>1. worker.step = "filestore" /\ res[r] \cup {"filestore"} = MadeBy("role")
      BY <2>1 DEF Backup!_prepare_tenant_filestore, Backup!Make, BInv, BWorker, MadeBy, RSteps
    <3> QED  BY <2>1, <3>1 DEF Backup!_prepare_tenant_filestore, Backup!Make
  <2>2. CASE Backup!create_tenant_role
    <3>1. worker.step = "role" /\ res[r] \cup {"role", "database"} = MadeBy("dump_in")
      BY <2>2 DEF Backup!create_tenant_role, Backup!Make, BInv, BWorker, MadeBy, RSteps
    <3> QED  BY <2>2, <3>1 DEF Backup!create_tenant_role, Backup!Make
  <2>3. CASE Backup!_pg_restore
    <3>1. worker.step = "dump_in" /\ res[r] = MadeBy("container")
      BY <2>3 DEF Backup!_pg_restore, BInv, BWorker, MadeBy, RSteps
    <3>2. res = [res EXCEPT ![r] = res[r]]
      BY <3>1, AtWork DEF RSteps
    <3> QED  BY <2>3, <3>1, <3>2 DEF Backup!_pg_restore
  <2>4. CASE Backup!run_tenant_odoo_container
    <3>1. worker.step = "container" /\ res[r] \cup {"container"} = MadeBy("health")
      BY <2>4 DEF Backup!run_tenant_odoo_container, Backup!Make, BInv, BWorker, MadeBy, RSteps,
                  Backup!Resources
    <3> QED  BY <2>4, <3>1 DEF Backup!run_tenant_odoo_container, Backup!Make
  <2> QED  BY <2>1, <2>2, <2>3, <2>4
<1>2. worker.step \in RSteps /\ to \in RSteps
  BY <1>1 DEF RSteps
<1>3. /\ r \in Backup!Restores /\ restore[r] \in RRows
      /\ restore[r].status = "restoring" /\ restore[r].rolledBack = "none"
      /\ restore[r].tenant = "provisioning"
      /\ restore' = [restore EXCEPT ![r] = restore[r]]
      /\ worker' \in WRows /\ worker'.step = to /\ worker'.r = r
  BY <1>1, <1>2, AtWork DEF BInv, BWorker
<1>4. MadeBy(to) \in SUBSET Backup!Resources
  BY DEF MadeBy, Backup!Resources
<1> QED  BY <1>1, <1>3, <1>4, RestoreMoves

(* execute_clone_restore succeeds when everything was made; then the audit. *)
LEMMA RestoredStep ==
    ASSUME BInv, Backup!execute_clone_restore
    PROVE  BInv'
<1> DEFINE r == worker.r
           row == [restore[r] EXCEPT !.tenant = "active", !.status = "succeeded"]
<1>1. /\ worker.step = "health" /\ UNCHANGED <<res, req>>
      /\ restore' = [restore EXCEPT ![r].tenant = "active", ![r].status = "succeeded"]
      /\ worker' = [worker EXCEPT !.step = "restored"]
      /\ {"health", "restored"} \subseteq RSteps
  BY DEF Backup!execute_clone_restore, RSteps
<1>2. /\ r \in Backup!Restores /\ restore[r] \in RRows /\ res[r] = Backup!Resources
      /\ restore[r].status = "restoring" /\ restore[r].rolledBack = "none"
      /\ res' = [res EXCEPT ![r] = Backup!Resources]
      /\ worker' \in WRows /\ worker'.step = "restored" /\ worker'.r = r
  BY <1>1, AtWork DEF BInv, BWorker, MadeBy
<1>3. restore' = [restore EXCEPT ![r] = row]
  BY <1>1, <1>2 DEF BInv, BTypes
<1>4. /\ row \in RRows /\ row.status = "succeeded" /\ row.tenant = "active"
      /\ row.rolledBack = "none"
  BY <1>2 DEF RRows
<1> HIDE DEF row, r
<1>5. /\ restore[r].status # "none" /\ row.status \notin {"none", "queued"} /\ UNCHANGED req
      /\ Backup!Resources \in SUBSET Backup!Resources
  BY <1>1, <1>2, <1>4
<1> QED  BY <1>2, <1>3, <1>4, <1>5, RestoreMoves

(* _fail_restore, without a rollback.                                       *)
LEMMA FailRestoreStep ==
    ASSUME BInv, Backup!_fail_restore
    PROVE  BInv'
<1> DEFINE r == worker.r
           row == [restore[r] EXCEPT !.status = "failed"]
<1>1. /\ worker.step \in {"manifest", "filestore", "restored"} /\ UNCHANGED <<res, req>>
      /\ restore' = [restore EXCEPT ![r].status = "failed"]
      /\ worker' = Backup!Idle
  BY DEF Backup!_fail_restore
<1>2. worker.step \in RSteps
  BY <1>1 DEF RSteps
<1>3. /\ r \in Backup!Restores /\ restore[r] \in RRows /\ res[r] \in SUBSET Backup!Resources
      /\ restore[r].status \notin {"none", "queued"}
      /\ res' = [res EXCEPT ![r] = res[r]]
      /\ worker' \in WRows /\ worker'.step \notin RSteps
  BY <1>1, <1>2, AtWork DEF BInv, BWorker
<1>4. restore' = [restore EXCEPT ![r] = row]
  BY <1>1, <1>3 DEF BInv, BTypes
<1>5. /\ row \in RRows /\ row.status = "failed" /\ row.tenant = restore[r].tenant
      /\ row.rolledBack = restore[r].rolledBack /\ row.sub = restore[r].sub
  BY <1>3 DEF RRows
<1>6. /\ restore[r].tenant = "active" => res[r] = Backup!Resources
      /\ restore[r].rolledBack = "completed" => res[r] = {} /\ restore[r].sub = "terminated"
  BY <1>3 DEF BInv, RestoreIsWhole, Backup!RestoreIsWhole
<1> HIDE DEF row, r
<1> QED  BY <1>1, <1>3, <1>4, <1>5, <1>6, RestoreMoves, ZenonT(60)

(* A step inside the try block raises: the rollback is next.                *)
LEMMA RaiseStep ==
    ASSUME BInv, Backup!RestoreRaises
    PROVE  BInv'
<1> DEFINE r == worker.r
<1>1. PICK made \in SUBSET Backup!Resources :
          /\ worker.step \in {"role", "dump_in", "container", "health"} /\ UNCHANGED <<restore, req>>
          /\ res' = [res EXCEPT ![r] = @ \cup made]
          /\ worker' = [worker EXCEPT !.step = "rollback"]
  BY DEF Backup!RestoreRaises, Backup!Resources
<1>2. worker.step \in RSteps /\ "rollback" \in RSteps
  BY <1>1 DEF RSteps
<1>3. /\ r \in Backup!Restores /\ restore[r] \in RRows /\ res[r] \cup made \in SUBSET Backup!Resources
      /\ restore[r].status = "restoring" /\ restore[r].rolledBack = "none"
      /\ restore[r].tenant = "provisioning"
      /\ restore' = [restore EXCEPT ![r] = restore[r]]
      /\ res' = [res EXCEPT ![r] = res[r] \cup made]
      /\ worker' \in WRows /\ worker'.step = "rollback" /\ worker'.r = r
  BY <1>1, <1>2, AtWork DEF BInv, BWorker
<1> QED  BY <1>1, <1>3, RestoreMoves

(* rollback_clone_restore: rolled back is completed only when nothing is    *)
(* left.                                                                    *)
LEMMA RollbackStep ==
    ASSUME BInv, Backup!rollback_clone_restore
    PROVE  BInv'
<1> DEFINE r == worker.r
<1>1. PICK remains \in SUBSET res[r] :
          /\ worker.step = "rollback" /\ UNCHANGED req
          /\ res' = [res EXCEPT ![r] = remains]
          /\ restore' = [restore EXCEPT ![r].status = "failed", ![r].tenant = "failed",
                                        ![r].sub = "terminated",
                                        ![r].rolledBack = IF remains = {} THEN "completed" ELSE "failed"]
          /\ worker' = Backup!Idle
  BY DEF Backup!rollback_clone_restore
<1> DEFINE undone == IF remains = {} THEN "completed" ELSE "failed"
           row == [restore[r] EXCEPT !.status = "failed", !.tenant = "failed",
                                     !.sub = "terminated", !.rolledBack = undone]
<1>2. worker.step \in RSteps
  BY <1>1 DEF RSteps
<1>3. /\ r \in Backup!Restores /\ restore[r] \in RRows /\ remains \in SUBSET Backup!Resources
      /\ restore[r].status = "restoring"
      /\ worker' \in WRows /\ worker'.step \notin RSteps
  BY <1>1, <1>2, AtWork DEF BInv, BWorker
<1>4. restore' = [restore EXCEPT ![r] = row]
  BY <1>1, <1>3 DEF BInv, BTypes
<1>5. undone \in {"completed", "failed"} /\ (undone = "completed" => remains = {})
  OBVIOUS
<1> HIDE DEF undone
<1>6. /\ row \in RRows /\ row.status = "failed" /\ row.tenant = "failed"
      /\ row.rolledBack = undone /\ row.sub = "terminated"
  BY <1>3, <1>5 DEF RRows
<1> HIDE DEF row, r
<1> QED  BY <1>1, <1>3, <1>4, <1>5, <1>6, RestoreMoves

(* A killed worker leaves its restore where it was; nobody takes it up.     *)
LEMMA WorkerDies ==
    ASSUME BInv, Backup!WorkerCrash
    PROVE  BInv'
<1>1. UNCHANGED <<restore, req>> /\ worker' = Backup!Idle
  BY DEF Backup!WorkerCrash
<1>2. CASE UNCHANGED res
  <2>1. worker' \in WRows /\ worker'.step \notin RSteps
    BY <1>1, WorkerMoves DEF BInv, RSteps
  <2> QED  BY <1>1, <1>2, <2>1, BackupQuiet
<1>3. ASSUME worker.step = "rollback", NEW remains \in SUBSET res[worker.r],
             res' = [res EXCEPT ![worker.r] = remains]
      PROVE  BInv'
  <2>1. worker.step \in RSteps
    BY <1>3 DEF RSteps
  <2>2. /\ worker.r \in Backup!Restores /\ restore[worker.r] \in RRows
        /\ remains \in SUBSET Backup!Resources
        /\ restore[worker.r].status = "restoring" /\ restore[worker.r].tenant = "provisioning"
        /\ restore[worker.r].rolledBack = "none"
        /\ restore' = [restore EXCEPT ![worker.r] = restore[worker.r]]
        /\ worker' \in WRows /\ worker'.step \notin RSteps
    BY <1>1, <1>3, <2>1, AtWork DEF BInv, BWorker
  <2> QED  BY <1>1, <1>3, <2>2, RestoreMoves
<1> QED  BY <1>2, <1>3 DEF Backup!WorkerCrash

(* The invariant depends on the backup part's variables only.               *)
LEMMA BackupStutter ==
    ASSUME BInv, UNCHANGED <<restore, res, req, worker>>
    PROVE  BInv'
<1>1. worker' \in WRows
  BY DEF BInv, BTypes
<1> QED  BY <1>1, BackupQuiet

(* Every step of the backup part keeps the invariant.                       *)
LEMMA BackupNext ==
    ASSUME BInv, Backup!Next
    PROVE  BInv'
<1>1. CASE Backup!execute_restore_job
  <2>1. UNCHANGED <<restore, res, req>> /\ worker' = Backup!Idle
    BY <1>1 DEF Backup!execute_restore_job
  <2>2. worker' \in WRows /\ worker'.step \notin RSteps
    BY <2>1, WorkerMoves DEF BInv, RSteps
  <2> QED  BY <2>1, <2>2, BackupQuiet
<1>2. CASE \/ Backup!measure_tenant_usage \/ Backup!DayPasses \/ Backup!WebCrash
           \/ Backup!process_due_scheduled_backups
  <2>1. UNCHANGED <<restore, res, req, worker>>
    BY <1>2 DEF Backup!measure_tenant_usage, Backup!DayPasses, Backup!WebCrash,
                Backup!process_due_scheduled_backups
  <2> QED  BY <2>1, BackupStutter
<1>3. {"worker", "operator"} \subseteq Backup!Sweepers
  BY DEF Backup!Sweepers
<1> QED
  BY <1>1, <1>2, <1>3, RequestStep, QueueStep, BackupStepKeeps, ClaimStep, ManifestStep, MakeStep,
     RestoredStep, FailRestoreStep, RaiseStep, RollbackStep, WorkerDies
     DEF Backup!Next, Backup!WorkerStep, Backup!RestoreStep

(* The invariant holds at the start.                                        *)
LEMMA BackupInit == Backup!Init => BInv
<1> SUFFICES ASSUME Backup!Init PROVE BInv
  OBVIOUS
<1>1. Backup!NoRestore \in RRows
  BY DEF Backup!NoRestore, RRows
<1>2. BTypes
  BY <1>1 DEF BTypes, Backup!Init, Backup!NoReq, Backup!Idle, WRows, BSteps
<1>3. BRequest /\ BWorker
  BY DEF BRequest, BWorker, Backup!Init, Backup!NoReq, Backup!Idle, RSteps
<1>4. BUntouched /\ RestoreIsWhole
  BY DEF BUntouched, RestoreIsWhole, Backup!RestoreIsWhole, Backup!Init, Backup!NoRestore
<1> QED  BY <1>2, <1>3, <1>4 DEF BInv

(* A restore succeeds whole and a rolled-back one leaves nothing, for any   *)
(* number of backups and restores, whatever fails or is killed              *)
(* (execute_clone_restore, rollback_clone_restore).                         *)
THEOREM RestoresAreWhole == Spec => []RestoreIsWhole
<1>1. Init => BInv
  BY BackupInit DEF Init
<1>2. BInv /\ [Next]_all => BInv'
  <2>1. BInv /\ UNCHANGED backupVars => BInv'
    BY BackupStutter DEF backupVars
  <2> QED  BY <2>1, BackupNext DEF Next, all
<1>3. BInv => RestoreIsWhole
  BY DEF BInv
<1> QED  BY <1>1, <1>2, <1>3, PTL DEF Spec

-------------------------------------------------------------------------------

(* The acceptance accounts.                                                 *)
Accounts == Uat!MANUAL_UAT_ACCOUNTS

(* The rows of the provisioning requests.                                   *)
URows == [id : Nat, status : {"none", "queued", "ready", "failed"},
          approved : BOOLEAN, tenant : BOOLEAN]

(* The steps of rollback_manual_uat_request ...                             *)
UndoSteps == {"undo container", "undo database", "undo role", "undo filestore", "undo rows",
              "undo tenant"}

(* ... and of provision_manual_uat_request after the reservation.           *)
BuildSteps == Uat!ProvisionSteps \cup {"verify"}

(* What a provisioner's position is taken from.                             *)
ARows == [step : {"idle", "reserve"} \cup BuildSteps \cup UndoSteps, a : Nat, id : Nat]

(* The steps of the operator's commands.                                    *)
CommandSteps == {"none", "database", "role", "container", "filestore", "rows", "user", "setup",
                 "subscription", "request", "instance", "approve", "next", "run", "ran", "running"}

(* What the operator's command is taken from.                               *)
ORows == [kind : {"idle", "seed", "accounts", "provision", "reset"}, a : Nat, step : CommandSteps]

(* The types of the acceptance part.                                        *)
UTypes ==
    /\ uReq \in [Accounts -> URows]
    /\ tenant \in [Accounts -> {"none", "provisioning", "active"}]
    /\ uRes \in [Accounts -> SUBSET Uat!Resources] /\ left \in [Accounts -> SUBSET Uat!Resources]
    /\ agent \in [Uat!Agents -> ARows]
    /\ op \in ORows
    /\ nextId \in Nat \ {0} /\ uCrashes \in Nat

(* A request that was not made has no status.                               *)
UIds == \A x \in Accounts : uReq[x].id = 0 => uReq[x].status = "none"

(* The command is on one of the accounts, the operator provisions only      *)
(* while --provision-all waits for it, and nobody provisions while --reset  *)
(* runs.                                                                    *)
UCommand ==
    /\ op.kind # "idle" => op.a \in Accounts
    /\ agent["operator"].step # "idle" => op.kind = "provision" /\ op.step = "running"
    /\ op.kind = "reset" => \A p \in Uat!Agents : agent[p].step = "idle"
    /\ op.kind = "reset" <=> op.step \in {"database", "role", "container", "filestore", "rows"}

(* The provisioner is past the reservation: it holds its account's tenant   *)
(* row.                                                                     *)
Holds(p) == agent[p].step \notin {"idle", "reserve"}

(* What exists of an account's resources when its provisioner comes to a    *)
(* step, besides what a removal that failed left behind; while it rolls     *)
(* back, at most this.                                                      *)
LeftAt(step) ==
    CASE step = "role" -> {}
      [] step = "database" -> {"role"}
      [] step = "filestore" -> {"role", "database"}
      [] step \in {"modules", "container"} -> {"role", "database", "filestore"}
      [] step = "undo database" -> {"role", "database", "filestore"}
      [] step = "undo role" -> {"role", "filestore"}
      [] step = "undo filestore" -> {"filestore"}
      [] step \in {"undo rows", "undo tenant"} -> {}
      [] OTHER -> Uat!Resources

(* An account's resources as they may be at a step of its provisioner.      *)
AtStep(had, lost, step) ==
    /\ had \subseteq LeftAt(step) \cup lost
    /\ step \in BuildSteps => LeftAt(step) \subseteq had

(* What a provisioner relies on: its request is still the one it read, its  *)
(* tenant is provisioning, and the resources of the steps before exist.     *)
UAgents ==
    \A p \in Uat!Agents :
        /\ agent[p].step # "idle" =>
               /\ agent[p].a \in Accounts
               /\ agent[p].id # 0 /\ uReq[agent[p].a].id = agent[p].id
        /\ Holds(p) =>
               /\ tenant[agent[p].a] = "provisioning"
               /\ AtStep(uRes[agent[p].a], left[agent[p].a], agent[p].step)

(* The unique database name keeps two provisioners off one account.         *)
UAlone ==
    \A p, q \in Uat!Agents : Holds(p) /\ Holds(q) /\ agent[p].a = agent[q].a => p = q

(* What a reset may still find when it comes to a step.                     *)
ResetLeft(step) ==
    CASE step = "database" -> Uat!Resources
      [] step = "role" -> {"role", "container", "filestore"}
      [] step = "container" -> {"container", "filestore"}
      [] step = "filestore" -> {"filestore"}
      [] OTHER -> {}

(* The reset goes through the resources of a linked tenant.                 *)
UReset ==
    op.kind = "reset" /\ uReq[op.a].tenant /\ tenant[op.a] # "none"
        => uRes[op.a] \subseteq ResetLeft(op.step) \cup left[op.a]

(* The inductive invariant of the acceptance tenants.                       *)
UInv == UTypes /\ UIds /\ UCommand /\ UAgents /\ UAlone /\ UReset /\ ReadyIsServed /\ NothingOrphaned

(* A provisioner's step: it changes only its own account and position, and  *)
(* leaves what LeftAt says.                                                 *)
LEMMA AgentMoves ==
    ASSUME UInv, NEW p \in Uat!Agents, NEW a \in Accounts,
           op.kind # "reset", op' \in ORows, op'.kind # "reset",
           op'.step \notin {"database", "role", "container", "filestore", "rows"},
           op'.kind # "idle" => op'.a \in Accounts,
           agent' \in [Uat!Agents -> ARows],
           \A q \in Uat!Agents \ {p} : agent'[q] = agent[q],
           agent'["operator"].step # "idle" => op'.kind = "provision" /\ op'.step = "running",
           uReq' \in [Accounts -> URows],
           \A x \in Accounts : /\ uReq'[x].id = uReq[x].id
                               /\ uReq[x].id = 0 => uReq'[x].status = uReq[x].status,
           tenant' \in [Accounts -> {"none", "provisioning", "active"}],
           uRes' \in [Accounts -> SUBSET Uat!Resources],
           left' \in [Accounts -> SUBSET Uat!Resources],
           \A x \in Accounts \ {a} :
               /\ tenant'[x] = tenant[x] /\ uRes'[x] = uRes[x] /\ left'[x] = left[x]
               /\ uReq'[x].status = "ready" =>
                      uReq[x].status = "ready" /\ (uReq'[x].tenant <=> uReq[x].tenant),
           \A q \in Uat!Agents \ {p} : Holds(q) => agent[q].a # a,
           uReq'[a].status = "ready" =>
               tenant'[a] = "active" /\ uReq'[a].tenant /\ (uRes'[a] = Uat!Resources \/ uCrashes > 0),
           tenant'[a] = "none" => uRes'[a] \subseteq left'[a],
           agent'[p].step # "idle" => /\ agent'[p].a = a /\ agent'[p].id # 0
                                      /\ uReq[a].id = agent'[p].id,
           Holds(p)' => tenant'[a] = "provisioning" /\ AtStep(uRes'[a], left'[a], agent'[p].step),
           nextId' = nextId, uCrashes' = uCrashes
    PROVE  UInv'
<1>1. UTypes'
  BY DEF UInv, UTypes
<1>7. UIds'
  BY DEF UInv, UIds
<1>2. UCommand' /\ UReset'
  BY DEF UInv, UCommand, UReset
<1>3. UAgents'
  <2> SUFFICES ASSUME NEW q \in Uat!Agents
               PROVE  /\ agent'[q].step # "idle" =>
                             /\ agent'[q].a \in Accounts
                             /\ agent'[q].id # 0 /\ uReq'[agent'[q].a].id = agent'[q].id
                      /\ Holds(q)' =>
                             /\ tenant'[agent'[q].a] = "provisioning"
                             /\ AtStep(uRes'[agent'[q].a], left'[agent'[q].a], agent'[q].step)
    BY DEF UAgents, AtStep, LeftAt
  <2>1. CASE q = p
    BY <2>1 DEF Holds
  <2>2. CASE q # p
    <3>1. agent'[q] = agent[q]
      BY <2>2
    <3>2. agent[q].step # "idle" =>
              /\ agent[q].a \in Accounts
              /\ agent[q].id # 0 /\ uReq'[agent[q].a].id = agent[q].id
      BY <2>2 DEF UInv, UAgents
    <3>3. ASSUME Holds(q)
          PROVE  /\ tenant'[agent[q].a] = "provisioning"
                 /\ AtStep(uRes'[agent[q].a], left'[agent[q].a], agent[q].step)
      <4>1. agent[q].a \in Accounts \ {a}
        BY <2>2, <3>2, <3>3 DEF Holds
      <4>2. /\ tenant'[agent[q].a] = tenant[agent[q].a] /\ uRes'[agent[q].a] = uRes[agent[q].a]
            /\ left'[agent[q].a] = left[agent[q].a]
        BY <4>1
      <4> QED  BY <3>3, <4>2 DEF UInv, UAgents
    <3> QED  BY <3>1, <3>2, <3>3 DEF Holds
  <2> QED  BY <2>1, <2>2
<1>4. UAlone'
  BY DEF UInv, UAlone, Holds
<1>5. ReadyIsServed'
  <2> SUFFICES ASSUME NEW x \in Accounts, uReq'[x].status = "ready"
               PROVE  /\ tenant'[x] = "active" /\ uReq'[x].tenant
                      /\ uRes'[x] = Uat!Resources \/ uCrashes > 0
    BY DEF ReadyIsServed, Uat!ReadyIsServed, Accounts
  <2>1. CASE x = a
    BY <2>1
  <2>2. CASE x # a
    BY <2>2 DEF UInv, ReadyIsServed, Uat!ReadyIsServed, Accounts
  <2> QED  BY <2>1, <2>2
<1>6. NothingOrphaned'
  BY DEF UInv, NothingOrphaned, Uat!NothingOrphaned, Accounts
<1> QED  BY <1>1, <1>2, <1>3, <1>4, <1>5, <1>6, <1>7 DEF UInv

(* A seeding step: requests are made or approved, nothing is built.         *)
LEMMA CommandMoves ==
    ASSUME UInv, UNCHANGED <<tenant, uRes, left, agent, uCrashes>>,
           op.kind # "reset", op' \in ORows, op'.kind # "reset",
           op'.step \notin {"database", "role", "container", "filestore", "rows"},
           op'.kind # "idle" => op'.a \in Accounts,
           agent["operator"].step = "idle",
           uReq' \in [Accounts -> URows],
           \A x \in Accounts :
               /\ uReq'[x].id = uReq[x].id \/ uReq[x].id = 0
               /\ uReq'[x].id = 0 => uReq'[x].status = uReq[x].status
               /\ uReq'[x].status = "ready" =>
                      uReq[x].status = "ready" /\ (uReq'[x].tenant <=> uReq[x].tenant),
           nextId' \in Nat \ {0}
    PROVE  UInv'
<1>1. UTypes'
  BY DEF UInv, UTypes
<1>6. UIds'
  BY DEF UInv, UIds
<1>2. UCommand' /\ UReset'
  BY DEF UInv, UCommand, UReset
<1>3. UAgents' /\ UAlone'
  BY DEF UInv, UAgents, UAlone, Holds
<1>4. ReadyIsServed'
  BY DEF UInv, ReadyIsServed, Uat!ReadyIsServed, Accounts
<1>5. NothingOrphaned'
  BY DEF UInv, NothingOrphaned, Uat!NothingOrphaned, Accounts
<1> QED  BY <1>1, <1>2, <1>3, <1>4, <1>5, <1>6 DEF UInv

(* A step of --reset, while no provisioner is at work.                      *)
LEMMA ResetMoves ==
    ASSUME UInv, UNCHANGED <<agent, uCrashes, nextId>>,
           \A p \in Uat!Agents : agent[p].step = "idle",
           op' \in ORows, op'.kind \in {"idle", "reset"},
           op'.kind = "reset" <=> op'.step \in {"database", "role", "container", "filestore", "rows"},
           op'.kind = "reset" => op'.a \in Accounts,
           uReq' \in [Accounts -> URows],
           tenant' \in [Accounts -> {"none", "provisioning", "active"}],
           uRes' \in [Accounts -> SUBSET Uat!Resources],
           left' \in [Accounts -> SUBSET Uat!Resources],
           UIds', UReset', ReadyIsServed', NothingOrphaned'
    PROVE  UInv'
<1>0. "operator" \in Uat!Agents
  BY DEF Uat!Agents
<1>1. UTypes'
  BY DEF UInv, UTypes
<1>2. UCommand'
  BY <1>0 DEF UInv, UCommand
<1>3. UAgents' /\ UAlone'
  BY DEF UInv, UAgents, UAlone, Holds
<1> QED  BY <1>1, <1>2, <1>3 DEF UInv

(* A killed process: its account keeps the tenant row that holds it.        *)
LEMMA CrashMoves ==
    ASSUME UInv, NEW p \in Uat!Agents, Uat!UCrash(p)
    PROVE  UInv'
<1>1. /\ UNCHANGED <<uReq, tenant, uRes, left, nextId>> /\ uCrashes' = uCrashes + 1
      /\ agent' = [agent EXCEPT ![p] = Uat!IdleAgent]
      /\ op' = IF p = "operator" THEN Uat!NoCommand ELSE op
  BY DEF Uat!UCrash
<1>2. /\ agent' \in [Uat!Agents -> ARows] /\ agent'[p].step = "idle"
      /\ \A q \in Uat!Agents \ {p} : agent'[q] = agent[q]
  BY <1>1 DEF UInv, UTypes, Uat!IdleAgent, ARows
<1>3. UTypes' /\ uCrashes' > 0
  BY <1>1, <1>2 DEF UInv, UTypes, Uat!NoCommand, ORows, CommandSteps
<1>4. UCommand'
  BY <1>1, <1>2 DEF UInv, UCommand, Uat!NoCommand, Uat!Agents
<1>5. UReset'
  BY <1>1 DEF UInv, UReset, Uat!NoCommand
<1>6. UAgents' /\ UAlone'
  BY <1>1, <1>2 DEF UInv, UAgents, UAlone, Holds
<1>8. UIds'
  BY <1>1 DEF UInv, UIds
<1>7. ReadyIsServed' /\ NothingOrphaned'
  BY <1>1, <1>3 DEF UInv, ReadyIsServed, Uat!ReadyIsServed, NothingOrphaned, Uat!NothingOrphaned
<1> QED  BY <1>3, <1>4, <1>5, <1>6, <1>7, <1>8 DEF UInv

(* A command starts; --reset waits for the worker to be idle.               *)
LEMMA CommandStarts ==
    ASSUME UInv, ~ResetOverlaps,
           NEW kind \in {"seed", "accounts", "provision", "reset"}, Uat!StartCommand(kind)
    PROVE  UInv'
<1>1. /\ op = Uat!NoCommand /\ op.kind = "idle"
      /\ UNCHANGED <<uReq, tenant, uRes, left, agent, nextId, uCrashes>>
      /\ op' = [kind |-> kind, a |-> 1, step |-> IF kind = "reset" THEN "database" ELSE "user"]
      /\ kind = "reset" => agent["worker"] = Uat!IdleAgent
  BY DEF Uat!StartCommand, Uat!NoCommand
<1>2. op' \in ORows /\ op'.kind = kind /\ op'.a = 1 /\ 1 \in Accounts
      /\ op'.step = IF kind = "reset" THEN "database" ELSE "user"
  BY <1>1, OperationsBounds DEF ORows, CommandSteps, Accounts, Uat!MANUAL_UAT_ACCOUNTS, Uat!UatAssumption
<1>3. agent["operator"].step = "idle" /\ uReq \in [Accounts -> URows] /\ nextId \in Nat \ {0}
  BY <1>1 DEF UInv, UCommand, UTypes
<1>4. CASE kind # "reset"
  BY <1>1, <1>2, <1>3, <1>4, CommandMoves
<1>5. CASE kind = "reset"
  <2>1. \A p \in Uat!Agents : agent[p].step = "idle"
    BY <1>1, <1>3, <1>5 DEF Uat!Agents, Uat!IdleAgent
  <2>2. /\ tenant \in [Accounts -> {"none", "provisioning", "active"}]
        /\ uRes \in [Accounts -> SUBSET Uat!Resources] /\ left \in [Accounts -> SUBSET Uat!Resources]
    BY DEF UInv, UTypes
  <2>3. ResetLeft("database") = Uat!Resources
    BY DEF ResetLeft
  <2>4. UReset'
    BY <1>1, <1>2, <1>5, <2>2, <2>3 DEF UReset
  <2>5. ReadyIsServed' /\ NothingOrphaned' /\ UIds'
    BY <1>1 DEF UInv, UIds, ReadyIsServed, Uat!ReadyIsServed, NothingOrphaned, Uat!NothingOrphaned
  <2> QED  BY <1>1, <1>2, <1>3, <1>5, <2>1, <2>2, <2>4, <2>5, ResetMoves
<1> QED  BY <1>4, <1>5

(* The command's record after one of its steps.                             *)
LEMMA CommandRow ==
    ASSUME UTypes
    PROVE  /\ \A s \in CommandSteps :
                  /\ [op EXCEPT !.step = s] \in ORows
                  /\ [op EXCEPT !.step = s].step = s
                  /\ [op EXCEPT !.step = s].kind = op.kind
                  /\ [op EXCEPT !.step = s].a = op.a
                  /\ \A a \in Nat : /\ [op EXCEPT !.a = a, !.step = s] \in ORows
                                    /\ [op EXCEPT !.a = a, !.step = s].step = s
                                    /\ [op EXCEPT !.a = a, !.step = s].kind = op.kind
                                    /\ [op EXCEPT !.a = a, !.step = s].a = a
           /\ Uat!NoCommand \in ORows /\ Uat!NoCommand.kind = "idle" /\ Uat!NoCommand.step = "none"
BY ZenonT(60) DEF UTypes, ORows, CommandSteps, Uat!NoCommand

(* The request rows the code writes.                                        *)
LEMMA RequestRows ==
    ASSUME NEW r \in URows
    PROVE  /\ \A b \in BOOLEAN : [r EXCEPT !.approved = b] \in URows
           /\ [r EXCEPT !.tenant = TRUE] \in URows
           /\ [r EXCEPT !.tenant = FALSE] \in URows
           /\ [r EXCEPT !.status = "failed"] \in URows
           /\ [r EXCEPT !.status = "ready", !.tenant = TRUE] \in URows
           /\ [r EXCEPT !.status = "queued", !.tenant = FALSE] \in URows
BY Zenon DEF URows

(* While a command seeds, its operator does not provision; the accounts it  *)
(* goes through.                                                            *)
LEMMA CommandIdles ==
    ASSUME UInv
    PROVE  /\ op.step # "running" => agent["operator"].step = "idle"
           /\ op.step \in {"user", "setup", "subscription", "request", "instance", "approve",
                           "next", "run", "ran", "running"} => op.kind # "reset"
           /\ op.kind \in {"seed", "provision", "accounts", "reset"} => op.a \in Accounts
           /\ Accounts \subseteq Nat
           /\ \A a \in Accounts : a < MaxAccounts => a + 1 \in Accounts
           /\ 1 \in Accounts
           /\ uReq \in [Accounts -> URows] /\ nextId \in Nat \ {0} /\ UTypes
<1>1. /\ Accounts \subseteq Nat /\ 1 \in Accounts
      /\ \A a \in Accounts : a < MaxAccounts => a + 1 \in Accounts
  BY OperationsBounds DEF Accounts, Uat!MANUAL_UAT_ACCOUNTS, Uat!UatAssumption
<1> QED  BY <1>1 DEF UInv, UCommand, UTypes

(* The seed's rows, each in a commit of its own.                            *)
LEMMA SeedRowStep ==
    ASSUME UInv, \/ Uat!_ensure_user \/ Uat!_ensure_setup
                 \/ Uat!EnsureSubscription \/ Uat!EnsureInstance
    PROVE  UInv'
<1>1. PICK s \in {"setup", "next", "subscription", "request", "approve"} :
          /\ op' = [op EXCEPT !.step = s]
          /\ op.step \in {"user", "setup", "subscription", "instance"}
          /\ op.kind \in {"seed", "provision", "accounts"}
          /\ UNCHANGED <<uReq, tenant, uRes, left, agent, nextId, uCrashes>>
  BY DEF Uat!_ensure_user, Uat!_ensure_setup, Uat!EnsureSubscription, Uat!EnsureInstance, Uat!Made
<1>2. op' \in ORows /\ op'.step = s /\ op'.kind = op.kind /\ op'.a = op.a
  <2>1. s \in CommandSteps /\ UTypes
    BY CommandIdles DEF CommandSteps
  <2> QED  BY <1>1, <2>1, CommandRow
<1> QED  BY <1>1, <1>2, CommandIdles, CommandMoves

(* The request is found or made.                                            *)
LEMMA SeedRequestStep ==
    ASSUME UInv, Uat!_ensure_subscription_and_request
    PROVE  UInv'
<1>1. /\ op' = [op EXCEPT !.step = "instance"] /\ op.step = "request"
      /\ op.kind \in {"seed", "provision"}
      /\ UNCHANGED <<tenant, uRes, left, agent, uCrashes>>
  BY DEF Uat!_ensure_subscription_and_request
<1>2. op' \in ORows /\ op'.step = "instance" /\ op'.kind = op.kind /\ op'.a = op.a
  <2>1. "instance" \in CommandSteps /\ UTypes
    BY CommandIdles DEF CommandSteps
  <2> QED  BY <1>1, <2>1, CommandRow
<1>3. CASE UNCHANGED <<uReq, nextId>>
  BY <1>1, <1>2, <1>3, CommandIdles, CommandMoves
<1>4. CASE /\ uReq[op.a].id = 0 /\ nextId' = nextId + 1
           /\ uReq' = [uReq EXCEPT ![op.a] = [Uat!NoRequest EXCEPT !.id = nextId, !.status = "queued"]]
  <2> DEFINE row == [Uat!NoRequest EXCEPT !.id = nextId, !.status = "queued"]
  <2>1. row \in URows /\ row.status = "queued" /\ row.id # 0 /\ uReq' = [uReq EXCEPT ![op.a] = row]
    BY <1>4, CommandIdles DEF URows, Uat!NoRequest
  <2> HIDE DEF row
  <2>0. op.a \in Accounts /\ uReq \in [Accounts -> URows]
    BY <1>1, CommandIdles
  <2>2. /\ uReq' \in [Accounts -> URows] /\ uReq'[op.a].status = "queued" /\ uReq'[op.a].id # 0
        /\ \A x \in Accounts \ {op.a} : uReq'[x] = uReq[x]
    BY <2>0, <2>1
  <2>4. \A x \in Accounts :
           /\ uReq'[x].id = uReq[x].id \/ uReq[x].id = 0
           /\ uReq'[x].id = 0 => uReq'[x].status = uReq[x].status
           /\ uReq'[x].status = "ready" =>
                  uReq[x].status = "ready" /\ (uReq'[x].tenant <=> uReq[x].tenant)
    BY <1>4, <2>0, <2>2
  <2>3. nextId' \in Nat \ {0}
    BY <1>4, CommandIdles
  <2> QED  BY <1>1, <1>2, <2>2, <2>3, <2>4, CommandIdles, CommandMoves
<1> QED  BY <1>3, <1>4 DEF Uat!_ensure_subscription_and_request

(* The seed approves the request.                                           *)
LEMMA ApproveStep ==
    ASSUME UInv, Uat!Approve
    PROVE  UInv'
<1> DEFINE b == uReq[op.a].approved \/ uReq[op.a].id # 0
           row == [uReq[op.a] EXCEPT !.approved = b]
<1>1. /\ op' = [op EXCEPT !.step = "next"] /\ op.step = "approve"
      /\ op.kind \in {"seed", "provision"}
      /\ uReq' = [uReq EXCEPT ![op.a] = row]
      /\ UNCHANGED <<tenant, uRes, left, agent, nextId, uCrashes>>
  BY DEF Uat!Approve
<1>2. op' \in ORows /\ op'.step = "next" /\ op'.kind = op.kind /\ op'.a = op.a
  <2>1. "next" \in CommandSteps /\ UTypes
    BY CommandIdles DEF CommandSteps
  <2> QED  BY <1>1, <2>1, CommandRow
<1>3. op.a \in Accounts /\ uReq[op.a] \in URows
  BY <1>1, CommandIdles
<1>4. b \in BOOLEAN
  BY Zenon
<1> HIDE DEF b
<1>5. row \in URows
  BY <1>3, <1>4, RequestRows
<1>6. /\ row.id = uReq[op.a].id /\ row.status = uReq[op.a].status
      /\ row.tenant = uReq[op.a].tenant
  BY <1>3 DEF URows
<1> HIDE DEF row
<1>7. /\ uReq' \in [Accounts -> URows]
      /\ \A x \in Accounts : /\ uReq'[x].id = uReq[x].id /\ uReq'[x].status = uReq[x].status
                             /\ uReq'[x].tenant = uReq[x].tenant
  BY <1>1, <1>3, <1>5, <1>6, CommandIdles
<1> QED  BY <1>1, <1>2, <1>7, CommandIdles, CommandMoves

(* The seed, or --provision-all, goes on to its next account.               *)
LEMMA SeedNextStep ==
    ASSUME UInv, Uat!seed_manual_uat \/ Uat!ProvisionNext
    PROVE  UInv'
<1>1. /\ op.step \in {"next", "ran"} /\ UNCHANGED <<uReq, tenant, uRes, left, agent, nextId, uCrashes>>
      /\ op.kind # "reset"
  BY CommandIdles DEF Uat!seed_manual_uat, Uat!ProvisionNext
<1>2. \/ op' = Uat!NoCommand
      \/ \E s \in {"user", "run"} :
            \/ op.a < MaxAccounts /\ op' = [op EXCEPT !.a = op.a + 1, !.step = s]
            \/ op' = [op EXCEPT !.a = 1, !.step = s]
  BY CommandIdles DEF Uat!seed_manual_uat, Uat!ProvisionNext, UTypes, ORows
<1>3. CASE op' = Uat!NoCommand
  <2>1. op' \in ORows /\ op'.kind = "idle" /\ op'.step = "none"
    BY <1>3, CommandIdles, CommandRow
  <2> QED  BY <1>1, <2>1, CommandIdles, CommandMoves
<1>4. ASSUME NEW s \in {"user", "run"},
             \/ op.a < MaxAccounts /\ op' = [op EXCEPT !.a = op.a + 1, !.step = s]
             \/ op' = [op EXCEPT !.a = 1, !.step = s]
      PROVE  UInv'
  <2>1. PICK a \in Nat : /\ op' = [op EXCEPT !.a = a, !.step = s]
                         /\ op.a \in Accounts => a \in Accounts
    <3>1. op.a \in Nat /\ op.a + 1 \in Nat
      BY CommandIdles DEF UTypes, ORows
    <3> QED  BY <1>4, <3>1, CommandIdles
  <2>2. op' \in ORows /\ op'.kind = op.kind /\ op'.a = a /\ op'.step = s
    <3>1. s \in CommandSteps /\ UTypes
      BY CommandIdles DEF CommandSteps
    <3> QED  BY <2>1, <3>1, CommandRow
  <2>3. op.kind # "idle" => op.a \in Accounts
    BY DEF UInv, UCommand
  <2> QED  BY <1>1, <2>1, <2>2, <2>3, CommandIdles, CommandMoves
<1> QED  BY <1>2, <1>3, <1>4

(* --reset removes one resource of a linked tenant.                         *)
LEMMA ResetRemovesStep ==
    ASSUME UInv, Uat!ResetRemoves
    PROVE  UInv'
<1>1. /\ op.kind = "reset" /\ op.step \in {"database", "role", "container", "filestore"}
      /\ op' = [op EXCEPT !.step = Uat!ResetAfter[op.step]]
      /\ UNCHANGED <<uReq, tenant, agent, nextId, uCrashes>>
  BY DEF Uat!ResetRemoves, Uat!ResetAfter
<1>2. /\ op.a \in Accounts /\ \A p \in Uat!Agents : agent[p].step = "idle"
      /\ uRes \in [Accounts -> SUBSET Uat!Resources] /\ left \in [Accounts -> SUBSET Uat!Resources]
      /\ tenant \in [Accounts -> {"none", "provisioning", "active"}]
  BY <1>1 DEF UInv, UCommand, UTypes
<1>11. op.step \in Uat!Resources
  BY <1>1 DEF Uat!Resources
<1>3. Uat!ResetAfter[op.step] \in {"role", "container", "filestore", "rows"}
  BY <1>1 DEF Uat!ResetAfter
<1>4. /\ op' \in ORows /\ op'.kind = "reset" /\ op'.a = op.a
      /\ op'.step = Uat!ResetAfter[op.step]
  <2>1. Uat!ResetAfter[op.step] \in CommandSteps /\ UTypes
    BY <1>3, CommandIdles DEF CommandSteps
  <2> QED  BY <1>1, <2>1, CommandRow
<1>5. /\ uRes' \in [Accounts -> SUBSET Uat!Resources] /\ left' \in [Accounts -> SUBSET Uat!Resources]
      /\ \A x \in Accounts : /\ uRes'[x] \subseteq uRes[x]
                             /\ x # op.a => uRes'[x] = uRes[x] /\ left'[x] = left[x]
      /\ uRes[op.a] \subseteq left[op.a] => uRes'[op.a] \subseteq left'[op.a]
      /\ uReq[op.a].tenant /\ tenant[op.a] # "none" =>
            \A r \in uRes'[op.a] : \/ r # op.step /\ (r \in left[op.a] => r \in left'[op.a])
                                  \/ r \in left'[op.a]
  <2>1. \/ uRes' = uRes /\ left' = left /\ ~(uReq[op.a].tenant /\ tenant[op.a] # "none")
        \/ /\ uRes' = [uRes EXCEPT ![op.a] = @ \ {op.step}]
           /\ left' = [left EXCEPT ![op.a] = @ \ {op.step}]
        \/ uRes' = uRes /\ left' = [left EXCEPT ![op.a] = @ \cup {op.step}]
    BY <1>1 DEF Uat!ResetRemoves
  <2> QED  BY <1>2, <1>11, <2>1
<1>6. \A r \in ResetLeft(op.step) : r = op.step \/ r \in ResetLeft(Uat!ResetAfter[op.step])
  BY <1>1 DEF ResetLeft, Uat!ResetAfter, Uat!Resources
<1>7. UReset'
  <2> SUFFICES ASSUME uReq[op.a].tenant, tenant[op.a] # "none", NEW r \in uRes'[op.a]
               PROVE  r \in ResetLeft(Uat!ResetAfter[op.step]) \/ r \in left'[op.a]
    BY <1>1, <1>4 DEF UReset, ResetLeft
  <2>1. r \in ResetLeft(op.step) \/ r \in left[op.a]
    BY <1>1, <1>2, <1>5 DEF UInv, UReset
  <2> QED  BY <1>5, <1>6, <2>1
<1>8. ReadyIsServed'
  BY <1>1, <1>4, <1>5 DEF UInv, ReadyIsServed, Uat!ReadyIsServed, Accounts
<1>10. UIds'
  BY <1>1 DEF UInv, UIds
<1>9. NothingOrphaned'
  BY <1>1, <1>5 DEF UInv, NothingOrphaned, Uat!NothingOrphaned, Accounts
<1> QED  BY <1>1, <1>2, <1>3, <1>4, <1>5, <1>7, <1>8, <1>9, <1>10, CommandIdles, ResetMoves

(* --reset removes the account's rows: a linked tenant has nothing left but *)
(* what could not be removed, and an unlinked one keeps its row.            *)
LEMMA ResetRowsStep ==
    ASSUME UInv, Uat!reset_manual_uat
    PROVE  UInv'
<1> DEFINE a == op.a
<1>1. /\ op.kind = "reset" /\ op.step = "rows"
      /\ tenant' = IF uReq[a].tenant THEN [tenant EXCEPT ![a] = "none"] ELSE tenant
      /\ uReq' = [uReq EXCEPT ![a] = Uat!NoRequest]
      /\ \/ a < MaxAccounts /\ op' = [op EXCEPT !.a = a + 1, !.step = "database"]
         \/ op' = Uat!NoCommand
      /\ UNCHANGED <<uRes, left, agent, nextId, uCrashes>>
  BY DEF Uat!reset_manual_uat
<1>2. /\ a \in Accounts /\ \A p \in Uat!Agents : agent[p].step = "idle"
      /\ uRes \in [Accounts -> SUBSET Uat!Resources] /\ uReq \in [Accounts -> URows]
      /\ left \in [Accounts -> SUBSET Uat!Resources]
      /\ tenant \in [Accounts -> {"none", "provisioning", "active"}]
  BY <1>1 DEF UInv, UCommand, UTypes
<1>3. Uat!NoRequest \in URows /\ Uat!NoRequest.status = "none"
  BY DEF Uat!NoRequest, URows
<1>4. /\ uReq' \in [Accounts -> URows] /\ uReq'[a].status = "none"
      /\ \A x \in Accounts \ {a} : uReq'[x] = uReq[x]
  BY <1>1, <1>2, <1>3
<1>5. /\ tenant' \in [Accounts -> {"none", "provisioning", "active"}]
      /\ \A x \in Accounts \ {a} : tenant'[x] = tenant[x]
      /\ tenant'[a] = tenant[a] \/ uReq[a].tenant
  BY <1>1, <1>2
<1>6. /\ op' \in ORows /\ op'.kind \in {"idle", "reset"}
      /\ op'.kind = "reset" => op'.a \in Accounts /\ op'.step = "database"
      /\ op'.kind # "reset" => op'.step = "none"
  <2>1. CASE op' = Uat!NoCommand
    BY <2>1, CommandIdles, CommandRow
  <2>2. CASE a < MaxAccounts /\ op' = [op EXCEPT !.a = a + 1, !.step = "database"]
    <3>0. "database" \in CommandSteps /\ UTypes
      BY CommandIdles DEF CommandSteps
    <3>1. a + 1 \in Accounts /\ a + 1 \in Nat
      BY <1>2, <2>2, CommandIdles
    <3> QED  BY <1>1, <2>2, <3>0, <3>1, CommandRow
  <2> QED  BY <1>1, <2>1, <2>2
<1>7. UReset'
  BY <1>1, <1>2, <1>6 DEF UReset, ResetLeft
<1>8. ReadyIsServed'
  BY <1>1, <1>4, <1>5 DEF UInv, ReadyIsServed, Uat!ReadyIsServed, Accounts
<1>10. UIds'
  BY <1>2, <1>4 DEF UInv, UIds
<1>9. NothingOrphaned'
  <2>1. ResetLeft("rows") = {}
    BY DEF ResetLeft
  <2>2. uReq[a].tenant => uRes[a] \subseteq left[a]
    BY <1>1, <1>2, <2>1 DEF UInv, UReset, NothingOrphaned, Uat!NothingOrphaned, Accounts
  <2> QED  BY <1>1, <1>5, <2>2 DEF UInv, NothingOrphaned, Uat!NothingOrphaned, Accounts
<1> QED  BY <1>1, <1>2, <1>4, <1>5, <1>6, <1>7, <1>8, <1>9, <1>10, ResetMoves

(* The smallest of a set of request ids is one of them.                     *)
LEMMA SmallestAccount ==
    ASSUME NEW S, S \subseteq Nat, S # {}
    PROVE  Uat!Least(S) \in S
<1>1. PICK x \in S : \A y \in S : ~ (<<y, x>> \in OpToRel(<, Nat))
  BY NatLessThanWellFounded, WFMin
<1>2. \A y \in S : x <= y
  <2> TAKE y \in S
  <2>1. x \in Nat /\ y \in Nat
    OBVIOUS
  <2>2. ~ (y < x)
    BY <1>1, <2>1 DEF OpToRel
  <2> QED  BY <2>1, <2>2
<1> QED  BY <1>2 DEF Uat!Least

(* The provisioner's record after one of its steps, with the types its      *)
(* steps need.                                                              *)
LEMMA AgentRows ==
    ASSUME UInv, NEW p \in Uat!Agents
    PROVE  /\ agent \in [Uat!Agents -> ARows] /\ agent[p] \in ARows
           /\ \A s \in BuildSteps \cup UndoSteps :
                  /\ [agent[p] EXCEPT !.step = s] \in ARows
                  /\ [agent[p] EXCEPT !.step = s].step = s
                  /\ [agent[p] EXCEPT !.step = s].a = agent[p].a
                  /\ [agent[p] EXCEPT !.step = s].id = agent[p].id
           /\ Uat!IdleAgent \in ARows /\ Uat!IdleAgent.step = "idle"
           /\ uReq \in [Accounts -> URows]
           /\ tenant \in [Accounts -> {"none", "provisioning", "active"}]
           /\ uRes \in [Accounts -> SUBSET Uat!Resources] /\ left \in [Accounts -> SUBSET Uat!Resources]
           /\ op \in ORows
BY DEF UInv, UTypes, ARows, Uat!IdleAgent

(* What UInv says of the account a provisioner is on.                       *)
LEMMA AgentHas ==
    ASSUME UInv, NEW p \in Uat!Agents, agent[p].step # "idle"
    PROVE  /\ agent[p].a \in Accounts /\ agent[p].id # 0 /\ uReq[agent[p].a].id = agent[p].id
           /\ Uat!Mine(p)
           /\ op.kind # "reset"
           /\ p = "operator" => op.kind = "provision" /\ op.step = "running"
           /\ Holds(p) =>
                  /\ tenant[agent[p].a] = "provisioning"
                  /\ AtStep(uRes[agent[p].a], left[agent[p].a], agent[p].step)
                  /\ \A q \in Uat!Agents \ {p} : Holds(q) => agent[q].a # agent[p].a
<1>1. \A q \in Uat!Agents \ {p} : Holds(p) /\ Holds(q) => agent[q].a # agent[p].a
  BY DEF UInv, UAlone
<1> QED  BY <1>1 DEF UInv, UAgents, UCommand, Uat!Mine

(* A provisioner's part ends: the command goes on, or died.                 *)
LEMMA EndsCommand ==
    ASSUME UInv, NEW p \in Uat!Agents, NEW broken \in BOOLEAN, agent[p].step # "idle",
           Uat!Ends(p, broken)
    PROVE  /\ op' \in ORows /\ op'.kind # "reset"
           /\ op'.step \notin {"database", "role", "container", "filestore", "rows"}
           /\ op'.kind # "idle" => op'.a \in Accounts
           /\ agent' \in [Uat!Agents -> ARows] /\ agent'[p].step = "idle"
           /\ \A q \in Uat!Agents \ {p} : agent'[q] = agent[q]
           /\ agent'["operator"].step # "idle" => op'.kind = "provision" /\ op'.step = "running"
<1>1. /\ agent' = [agent EXCEPT ![p] = Uat!IdleAgent]
      /\ p = "worker" => op' = op
      /\ p # "worker" => op' = Uat!NoCommand \/ op' = [op EXCEPT !.step = "ran"]
  BY DEF Uat!Ends
<1>2. /\ agent' \in [Uat!Agents -> ARows] /\ agent'[p].step = "idle"
      /\ \A q \in Uat!Agents \ {p} : agent'[q] = agent[q]
  BY <1>1, AgentRows
<1>3. /\ op.kind # "reset" /\ op \in ORows /\ UTypes /\ (op.kind # "idle" => op.a \in Accounts)
      /\ op.step \notin {"database", "role", "container", "filestore", "rows"}
      /\ agent["operator"].step # "idle" => op.kind = "provision" /\ op.step = "running"
  BY AgentHas DEF UInv, UCommand, UTypes
<1>4. p = "worker" \/ p = "operator"
  BY DEF Uat!Agents
<1>5. CASE p = "worker"
  BY <1>1, <1>2, <1>3, <1>5 DEF Uat!Agents
<1>6. CASE p = "operator"
  <2>1. "ran" \in CommandSteps
    BY DEF CommandSteps
  <2>2. \/ op' = Uat!NoCommand /\ op' \in ORows /\ op'.kind = "idle" /\ op'.step = "none"
        \/ op' \in ORows /\ op'.kind = op.kind /\ op'.a = op.a /\ op'.step = "ran"
    BY <1>1, <1>3, <1>6, <2>1, CommandRow, ZenonT(60)
  <2> QED  BY <1>2, <1>3, <1>6, <2>2
<1> QED  BY <1>4, <1>5, <1>6

(* A provisioner goes on to its next step.                                  *)
LEMMA StepMoves ==
    ASSUME UInv, NEW p \in Uat!Agents, agent[p].step # "idle", UNCHANGED op,
           NEW s \in BuildSteps \cup UndoSteps,
           agent' = [agent EXCEPT ![p].step = s]
    PROVE  /\ op' \in ORows /\ op'.kind # "reset"
           /\ op'.step \notin {"database", "role", "container", "filestore", "rows"}
           /\ op'.kind # "idle" => op'.a \in Accounts
           /\ agent' \in [Uat!Agents -> ARows]
           /\ agent'[p].step = s /\ agent'[p].a = agent[p].a /\ agent'[p].id = agent[p].id
           /\ \A q \in Uat!Agents \ {p} : agent'[q] = agent[q]
           /\ agent'["operator"].step # "idle" => op'.kind = "provision" /\ op'.step = "running"
<1> DEFINE row == [agent[p] EXCEPT !.step = s]
<1>1. row \in ARows /\ row.step = s /\ row.a = agent[p].a /\ row.id = agent[p].id
  BY AgentRows
<1>2. agent' = [agent EXCEPT ![p] = row]
  BY AgentRows
<1> HIDE DEF row
<1>3. /\ agent' \in [Uat!Agents -> ARows]
      /\ agent'[p].step = s /\ agent'[p].a = agent[p].a /\ agent'[p].id = agent[p].id
      /\ \A q \in Uat!Agents \ {p} : agent'[q] = agent[q]
  BY <1>1, <1>2, AgentRows
<1>4. /\ op.kind # "reset" /\ op \in ORows /\ (op.kind # "idle" => op.a \in Accounts)
      /\ op.step \notin {"database", "role", "container", "filestore", "rows"}
      /\ agent["operator"].step # "idle" => op.kind = "provision" /\ op.step = "running"
      /\ p = "operator" => op.kind = "provision" /\ op.step = "running"
  BY AgentHas DEF UInv, UCommand, UTypes
<1> QED  BY <1>3, <1>4 DEF Uat!Agents

(* A provisioner takes an account's request.                                *)
LEMMA AgentTakes ==
    ASSUME UInv, NEW p \in Uat!Agents, NEW a \in Accounts, op.kind # "reset",
           op' \in ORows, op'.kind # "reset",
           op'.step \notin {"database", "role", "container", "filestore", "rows"},
           op'.kind # "idle" => op'.a \in Accounts,
           p = "operator" => op'.kind = "provision" /\ op'.step = "running",
           p = "worker" => op' = op,
           agent[p].step = "idle", uReq[a].id # 0,
           agent' = [agent EXCEPT ![p] = [step |-> "reserve", a |-> a, id |-> uReq[a].id]],
           UNCHANGED <<uReq, tenant, uRes, left, nextId, uCrashes>>
    PROVE  UInv'
<1> DEFINE row == [step |-> "reserve", a |-> a, id |-> uReq[a].id]
<1>1. row \in ARows /\ row.step = "reserve" /\ row.a = a /\ row.id = uReq[a].id
  <2>1. a \in Nat /\ uReq[a] \in URows
    BY AgentRows, CommandIdles
  <2>2. uReq[a].id \in Nat
    BY <2>1 DEF URows
  <2> QED  BY <2>1, <2>2 DEF ARows
<1>2. agent' = [agent EXCEPT ![p] = row]
  OBVIOUS
<1> HIDE DEF row
<1>3. /\ agent' \in [Uat!Agents -> ARows] /\ agent'[p] = row
      /\ \A q \in Uat!Agents \ {p} : agent'[q] = agent[q]
  BY <1>1, <1>2, AgentRows
<1>4. UTypes' /\ UIds' /\ ReadyIsServed' /\ NothingOrphaned'
  BY <1>3 DEF UInv, UTypes, UIds, ReadyIsServed, Uat!ReadyIsServed, NothingOrphaned, Uat!NothingOrphaned
<1>5. UCommand' /\ UReset'
  BY <1>3 DEF UInv, UCommand, UReset, Uat!Agents
<1>6. UAgents' /\ UAlone'
  BY <1>1, <1>3 DEF UInv, UAgents, UAlone, Holds
<1> QED  BY <1>4, <1>5, <1>6 DEF UInv

(* The worker takes the eligible request with the smallest id.              *)
LEMMA ProcessOneStep ==
    ASSUME UInv, ~ResetOverlaps, Uat!process_one
    PROVE  UInv'
<1> DEFINE A == Uat!Allowed
           ids == {uReq[x].id : x \in A}
           a == CHOOSE x \in A : uReq[x].id = Uat!Least(ids)
           row == [step |-> "reserve", a |-> a, id |-> uReq[a].id]
<1>1. /\ agent["worker"] = Uat!IdleAgent /\ op.kind # "reset" /\ ids # {}
      /\ agent' = [agent EXCEPT !["worker"] = row]
      /\ UNCHANGED <<uReq, tenant, uRes, left, op, nextId, uCrashes>>
  BY DEF Uat!process_one, Uat!get_manual_uat_allow_list
<1>2. A \subseteq Accounts /\ uReq \in [Accounts -> URows]
  BY DEF Uat!Allowed, Accounts, UInv, UTypes
<1>3. ids \subseteq Nat
  BY <1>2 DEF URows
<1>4. Uat!Least(ids) \in ids
  BY <1>1, <1>3, SmallestAccount
<1>5. a \in A
  BY <1>4
<1> HIDE DEF a
<1>6. a \in Accounts /\ uReq[a].status = "queued" /\ uReq[a] \in URows
  BY <1>2, <1>5 DEF Uat!Allowed, Accounts
<1>7. uReq[a].id # 0
  BY <1>6 DEF UInv, UIds, Accounts
<1>8. row \in ARows /\ row.step = "reserve" /\ row.a = a /\ row.id = uReq[a].id
  BY <1>6 DEF ARows, URows, Accounts, Uat!MANUAL_UAT_ACCOUNTS
<1> HIDE DEF row, A
<1>9. /\ "worker" \in Uat!Agents
      /\ agent' \in [Uat!Agents -> ARows] /\ agent'["worker"] = row
      /\ \A q \in Uat!Agents \ {"worker"} : agent'[q] = agent[q]
  BY <1>1, <1>8 DEF UInv, UTypes, Uat!Agents
<1>10. /\ op \in ORows /\ op.step \notin {"database", "role", "container", "filestore", "rows"}
       /\ op.kind # "idle" => op.a \in Accounts
       /\ agent["worker"].step = "idle"
  BY <1>1 DEF UInv, UTypes, UCommand, Uat!IdleAgent
<1>11. agent' = [agent EXCEPT !["worker"] = [step |-> "reserve", a |-> a, id |-> uReq[a].id]]
  BY <1>1 DEF row
<1> QED  BY <1>1, <1>6, <1>7, <1>9, <1>10, <1>11, AgentTakes

(* What the operator's session has pending are rows, with the ids they had. *)
LEMMA FlushedRows ==
    ASSUME uReq \in [Accounts -> URows], NEW p
    PROVE  LET pending == IF p = "operator" THEN Uat!Flushed(uReq) ELSE uReq
           IN  /\ pending \in [Accounts -> URows]
               /\ \A x \in Accounts : \/ pending[x] = uReq[x]
                                      \/ /\ pending[x].id = uReq[x].id /\ uReq[x].id # 0
                                         /\ pending[x].status = "queued"
<1>1. \A x \in Accounts :
          LET row == [uReq[x] EXCEPT !.status = "queued", !.tenant = FALSE]
          IN  row \in URows /\ row.id = uReq[x].id /\ row.status = "queued"
  <2> TAKE x \in Accounts
  <2>1. uReq[x] \in URows
    OBVIOUS
  <2> QED  BY <2>1, RequestRows DEF URows
<1> QED  BY <1>1 DEF Uat!Flushed, Accounts

(* A provisioner that loses the reservation changes nothing.                *)
LEMMA EndsMoves ==
    ASSUME UInv, NEW p \in Uat!Agents, NEW broken \in BOOLEAN, agent[p].step # "idle",
           Uat!Ends(p, broken), UNCHANGED <<uReq, tenant, uRes, left, nextId, uCrashes>>
    PROVE  UInv'
<1>1. /\ op' \in ORows /\ op'.kind # "reset"
      /\ op'.step \notin {"database", "role", "container", "filestore", "rows"}
      /\ op'.kind # "idle" => op'.a \in Accounts
      /\ agent' \in [Uat!Agents -> ARows] /\ agent'[p].step = "idle"
      /\ \A q \in Uat!Agents \ {p} : agent'[q] = agent[q]
      /\ agent'["operator"].step # "idle" => op'.kind = "provision" /\ op'.step = "running"
  BY EndsCommand
<1>2. UTypes' /\ UIds'
  BY <1>1 DEF UInv, UTypes, UIds
<1>3. ReadyIsServed' /\ NothingOrphaned'
  BY <1>1, AgentHas
     DEF UInv, ReadyIsServed, Uat!ReadyIsServed, NothingOrphaned, Uat!NothingOrphaned
<1>4. UCommand' /\ UReset'
  BY <1>1 DEF UInv, UCommand, UReset
<1>5. UAgents' /\ UAlone'
  BY <1>1 DEF UInv, UAgents, UAlone, Holds
<1> QED  BY <1>2, <1>3, <1>4, <1>5 DEF UInv

(* --provision-all takes its current account's request, or passes it by.    *)
LEMMA ProvisionAllStep ==
    ASSUME UInv, Uat!ProvisionAll
    PROVE  UInv'
<1> DEFINE a == op.a
<1>1. /\ op.kind = "provision" /\ op.step = "run" /\ a \in Accounts
      /\ agent["operator"].step = "idle"
      /\ UNCHANGED <<uReq, tenant, uRes, left, nextId, uCrashes>>
  BY CommandIdles DEF Uat!ProvisionAll
<1>2. /\ "ran" \in CommandSteps /\ "running" \in CommandSteps /\ UTypes
      /\ "operator" \in Uat!Agents
  BY CommandIdles DEF CommandSteps, Uat!Agents
<1>3. \/ op' = [op EXCEPT !.step = "ran"] /\ agent' = agent
      \/ /\ op' = [op EXCEPT !.step = "running"] /\ Uat!_validate_manual_uat_gates(a)
         /\ agent' = [agent EXCEPT !["operator"] = [step |-> "reserve", a |-> a, id |-> uReq[a].id]]
  BY DEF Uat!ProvisionAll
<1>4. CASE op' = [op EXCEPT !.step = "ran"] /\ agent' = agent
  <2>1. op' \in ORows /\ op'.kind = "provision" /\ op'.a = a /\ op'.step = "ran"
    BY <1>1, <1>2, <1>4, CommandRow
  <2> QED  BY <1>1, <1>4, <2>1, CommandIdles, CommandMoves
<1>5. CASE /\ op' = [op EXCEPT !.step = "running"] /\ Uat!_validate_manual_uat_gates(a)
           /\ agent' = [agent EXCEPT !["operator"] = [step |-> "reserve", a |-> a, id |-> uReq[a].id]]
  <2>1. op' \in ORows /\ op'.kind = "provision" /\ op'.a = a /\ op'.step = "running"
    BY <1>1, <1>2, <1>5, CommandRow
  <2>2. uReq[a].id # 0
    BY <1>1, <1>5 DEF Uat!_validate_manual_uat_gates, UInv, UIds
  <2> HIDE DEF a
  <2> QED  BY <1>1, <1>2, <1>5, <2>1, <2>2, AgentTakes
<1> QED  BY <1>3, <1>4, <1>5

(* The tenant row is reserved: it was not there, so no other provisioner    *)
(* holds the account and nothing exists under its names.                    *)
LEMMA ReserveStep ==
    ASSUME UInv, NEW p \in Uat!Agents, Uat!ReserveTenant(p)
    PROVE  UInv'
<1> DEFINE a == agent[p].a
           pending == IF p = "operator" THEN Uat!Flushed(uReq) ELSE uReq
           row == [pending[a] EXCEPT !.tenant = TRUE]
<1>1. /\ agent[p].step = "reserve" /\ agent[p].step # "idle" /\ ~Holds(p)
      /\ UNCHANGED <<uRes, left, nextId, uCrashes>>
  BY DEF Uat!ReserveTenant, Holds
<1>2. /\ a \in Accounts /\ agent[p].id # 0 /\ uReq[a].id = agent[p].id
      /\ op.kind # "reset"
  BY <1>1, AgentHas
<1>3. /\ uReq \in [Accounts -> URows] /\ uRes \in [Accounts -> SUBSET Uat!Resources]
      /\ tenant \in [Accounts -> {"none", "provisioning", "active"}]
      /\ left \in [Accounts -> SUBSET Uat!Resources]
  BY AgentRows
<1>4. CASE Uat!Ends(p, TRUE) /\ UNCHANGED <<uReq, tenant>>
  BY <1>1, <1>4, EndsMoves
<1>5. CASE /\ tenant[a] = "none" /\ tenant' = [tenant EXCEPT ![a] = "provisioning"]
           /\ uReq' = [pending EXCEPT ![a].tenant = TRUE]
           /\ agent' = [agent EXCEPT ![p].step = "role"] /\ UNCHANGED op
  <2>1. /\ pending \in [Accounts -> URows]
        /\ \A x \in Accounts : \/ pending[x] = uReq[x]
                               \/ /\ pending[x].id = uReq[x].id /\ uReq[x].id # 0
                                  /\ pending[x].status = "queued"
    BY <1>3, FlushedRows
  <2> HIDE DEF pending
  <2>2. row \in URows /\ row.id = pending[a].id /\ row.status = pending[a].status
    <3>1. pending[a] \in URows
      BY <1>2, <2>1
    <3> QED  BY <3>1, RequestRows DEF URows
  <2>3. uReq' = [pending EXCEPT ![a] = row]
    BY <1>5
  <2> HIDE DEF row
  <2>4. /\ uReq' \in [Accounts -> URows] /\ uReq'[a] = row
        /\ \A x \in Accounts \ {a} : uReq'[x] = pending[x]
    BY <1>2, <2>1, <2>2, <2>3
  <2>5. \A x \in Accounts : /\ uReq'[x].id = uReq[x].id
                            /\ uReq[x].id = 0 => uReq'[x].status = uReq[x].status
    BY <1>2, <2>1, <2>2, <2>4
  <2>6. uReq[a].status # "ready" /\ uReq'[a].status # "ready"
    BY <1>2, <1>5, <2>1, <2>2, <2>4 DEF UInv, ReadyIsServed, Uat!ReadyIsServed, Accounts
  <2>7. /\ tenant' \in [Accounts -> {"none", "provisioning", "active"}]
        /\ tenant'[a] = "provisioning"
        /\ \A x \in Accounts \ {a} : tenant'[x] = tenant[x]
    BY <1>2, <1>3, <1>5
  <2>8. \A x \in Accounts \ {a} :
           /\ tenant'[x] = tenant[x] /\ uRes'[x] = uRes[x] /\ left'[x] = left[x]
           /\ uReq'[x].status = "ready" =>
                  uReq[x].status = "ready" /\ (uReq'[x].tenant <=> uReq[x].tenant)
    BY <1>1, <2>1, <2>4, <2>7
  <2>9. \A q \in Uat!Agents \ {p} : Holds(q) => agent[q].a # a
    BY <1>5 DEF UInv, UAgents
  <2>10. AtStep(uRes[a], left[a], "role")
    <3>1. uRes[a] \subseteq left[a]
      BY <1>2, <1>5 DEF UInv, NothingOrphaned, Uat!NothingOrphaned, Accounts
    <3> QED  BY <3>1 DEF AtStep, LeftAt
  <2>11. "role" \in BuildSteps \cup UndoSteps
    BY DEF BuildSteps, Uat!ProvisionSteps
  <2>12. /\ op' \in ORows /\ op'.kind # "reset"
         /\ op'.step \notin {"database", "role", "container", "filestore", "rows"}
         /\ op'.kind # "idle" => op'.a \in Accounts
         /\ agent' \in [Uat!Agents -> ARows]
         /\ agent'[p].step = "role" /\ agent'[p].a = a /\ agent'[p].id = agent[p].id
         /\ \A q \in Uat!Agents \ {p} : agent'[q] = agent[q]
         /\ agent'["operator"].step # "idle" => op'.kind = "provision" /\ op'.step = "running"
    BY <1>1, <1>5, <2>11, StepMoves
  <2>13. uRes' = uRes /\ left' = left /\ nextId' = nextId /\ uCrashes' = uCrashes
    BY <1>1
  <2>14. Holds(p)' => tenant'[a] = "provisioning" /\ AtStep(uRes'[a], left'[a], agent'[p].step)
    BY <2>7, <2>10, <2>12, <2>13
  <2>15. /\ agent'[p].step # "idle" => /\ agent'[p].a = a /\ agent'[p].id # 0
                                       /\ uReq[a].id = agent'[p].id
         /\ tenant'[a] = "none" => uRes'[a] \subseteq left'[a]
         /\ uRes' \in [Accounts -> SUBSET Uat!Resources]
         /\ left' \in [Accounts -> SUBSET Uat!Resources]
    BY <1>2, <1>3, <2>7, <2>12, <2>13
  <2> HIDE DEF a
  <2> QED  BY <2>13, <2>14, <2>15, <1>2, <2>4, <2>5, <2>6, <2>7, <2>8, <2>9, <2>10, <2>12, AgentMoves, ZenonT(60)
<1>6. \/ Uat!Ends(p, TRUE) /\ UNCHANGED <<uReq, tenant>>
      \/ /\ tenant[a] = "none" /\ tenant' = [tenant EXCEPT ![a] = "provisioning"]
         /\ uReq' = [pending EXCEPT ![a].tenant = TRUE]
         /\ agent' = [agent EXCEPT ![p].step = "role"] /\ UNCHANGED op
  BY DEF Uat!ReserveTenant
<1> QED  BY <1>4, <1>5, <1>6

(* A step of the provisioner that holds an account, in the form its actions *)
(* have.                                                                    *)
LEMMA BusyStep ==
    ASSUME UInv, NEW p \in Uat!Agents, Holds(p),
           uReq' \in [Accounts -> URows], tenant' \in [Accounts -> {"none", "provisioning", "active"}],
           uRes' \in [Accounts -> SUBSET Uat!Resources],
           left' \in [Accounts -> SUBSET Uat!Resources],
           \A x \in Accounts \ {agent[p].a} :
               /\ uReq'[x] = uReq[x] /\ tenant'[x] = tenant[x] /\ uRes'[x] = uRes[x]
               /\ left'[x] = left[x],
           uReq'[agent[p].a].id = uReq[agent[p].a].id,
           nextId' = nextId, uCrashes' = uCrashes,
           uReq'[agent[p].a].status = "ready" =>
               /\ tenant'[agent[p].a] = "active" /\ uReq'[agent[p].a].tenant
               /\ uRes'[agent[p].a] = Uat!Resources,
           \/ /\ \E broken \in BOOLEAN : Uat!Ends(p, broken)
              /\ tenant'[agent[p].a] = "none" => uRes'[agent[p].a] \subseteq left'[agent[p].a]
           \/ /\ UNCHANGED op /\ tenant' = tenant
              /\ \E s \in BuildSteps \cup UndoSteps :
                     /\ agent' = [agent EXCEPT ![p].step = s]
                     /\ AtStep(uRes'[agent[p].a], left'[agent[p].a], s)
    PROVE  UInv'
<1> DEFINE a == agent[p].a
<1>1. agent[p].step # "idle"
  BY DEF Holds
<1>2. /\ a \in Accounts /\ agent[p].id # 0 /\ uReq[a].id = agent[p].id /\ op.kind # "reset"
      /\ tenant[a] = "provisioning"
      /\ \A q \in Uat!Agents \ {p} : Holds(q) => agent[q].a # a
  BY <1>1, AgentHas
<1>3. \A x \in Accounts : /\ uReq'[x].id = uReq[x].id
                          /\ uReq[x].id = 0 => uReq'[x].status = uReq[x].status
  BY <1>2
<1>4. \A x \in Accounts \ {a} :
          /\ tenant'[x] = tenant[x] /\ uRes'[x] = uRes[x] /\ left'[x] = left[x]
          /\ uReq'[x].status = "ready" =>
                 uReq[x].status = "ready" /\ (uReq'[x].tenant <=> uReq[x].tenant)
  OBVIOUS
<1>5. uReq'[a].status = "ready" =>
          tenant'[a] = "active" /\ uReq'[a].tenant /\ (uRes'[a] = Uat!Resources \/ uCrashes > 0)
  OBVIOUS
<1>6. ASSUME NEW broken \in BOOLEAN, Uat!Ends(p, broken),
             tenant'[a] = "none" => uRes'[a] \subseteq left'[a]
      PROVE  UInv'
  <2>1. /\ op' \in ORows /\ op'.kind # "reset"
        /\ op'.step \notin {"database", "role", "container", "filestore", "rows"}
        /\ op'.kind # "idle" => op'.a \in Accounts
        /\ agent' \in [Uat!Agents -> ARows] /\ agent'[p].step = "idle"
        /\ \A q \in Uat!Agents \ {p} : agent'[q] = agent[q]
        /\ agent'["operator"].step # "idle" => op'.kind = "provision" /\ op'.step = "running"
    BY <1>1, <1>6, EndsCommand
  <2>2. ~Holds(p)'
    BY <2>1 DEF Holds
  <2> HIDE DEF a
  <2> QED  BY <1>2, <1>3, <1>4, <1>5, <1>6, <2>1, <2>2, AgentMoves
<1>7. ASSUME UNCHANGED op, tenant' = tenant, NEW s \in BuildSteps \cup UndoSteps,
             agent' = [agent EXCEPT ![p].step = s], AtStep(uRes'[a], left'[a], s)
      PROVE  UInv'
  <2>1. /\ op' \in ORows /\ op'.kind # "reset"
        /\ op'.step \notin {"database", "role", "container", "filestore", "rows"}
        /\ op'.kind # "idle" => op'.a \in Accounts
        /\ agent' \in [Uat!Agents -> ARows]
        /\ agent'[p].step = s /\ agent'[p].a = a /\ agent'[p].id = agent[p].id
        /\ \A q \in Uat!Agents \ {p} : agent'[q] = agent[q]
        /\ agent'["operator"].step # "idle" => op'.kind = "provision" /\ op'.step = "running"
    BY <1>1, <1>7, StepMoves
  <2>2. /\ Holds(p)' => tenant'[a] = "provisioning" /\ AtStep(uRes'[a], left'[a], agent'[p].step)
        /\ agent'[p].step # "idle" => /\ agent'[p].a = a /\ agent'[p].id # 0
                                      /\ uReq[a].id = agent'[p].id
        /\ tenant'[a] = "none" => uRes'[a] \subseteq left'[a]
    BY <1>2, <1>7, <2>1
  <2> HIDE DEF a
  <2> QED  BY <1>2, <1>3, <1>4, <1>5, <2>1, <2>2, AgentMoves
<1> QED  BY <1>6, <1>7

(* One step of the build adds its resource.                                 *)
LEMMA ProvisionStep ==
    ASSUME UInv, NEW p \in Uat!Agents, NEW step \in BuildSteps, NEW then \in BuildSteps,
           LeftAt(then) = LeftAt(step) \cup ({step} \cap Uat!Resources),
           Uat!Provision(p, step, then)
    PROVE  UInv'
<1> DEFINE a == agent[p].a
<1>1. /\ agent[p].step = step
      /\ uRes' = [uRes EXCEPT ![a] = @ \cup ({step} \cap Uat!Resources)]
      /\ left' = [left EXCEPT ![a] = @ \ {step}]
      /\ agent' = [agent EXCEPT ![p].step = then]
      /\ UNCHANGED <<uReq, tenant, op, nextId, uCrashes>>
  BY DEF Uat!Provision
<1>2. Holds(p) /\ agent[p].step # "idle"
  BY <1>1 DEF Holds, BuildSteps, Uat!ProvisionSteps
<1>3. /\ a \in Accounts /\ tenant[a] = "provisioning" /\ AtStep(uRes[a], left[a], step)
      /\ left \in [Accounts -> SUBSET Uat!Resources]
      /\ uReq \in [Accounts -> URows] /\ uRes \in [Accounts -> SUBSET Uat!Resources]
      /\ tenant \in [Accounts -> {"none", "provisioning", "active"}]
  BY <1>1, <1>2, AgentHas, AgentRows
<1>4. /\ uRes' \in [Accounts -> SUBSET Uat!Resources]
      /\ left' \in [Accounts -> SUBSET Uat!Resources]
      /\ uRes'[a] = uRes[a] \cup ({step} \cap Uat!Resources) /\ left'[a] = left[a] \ {step}
      /\ \A x \in Accounts \ {a} : uRes'[x] = uRes[x] /\ left'[x] = left[x]
  BY <1>1, <1>3
<1>6. AtStep(uRes'[a], left'[a], then)
  <2>1. uRes[a] \subseteq LeftAt(step) \cup left[a] /\ LeftAt(step) \subseteq uRes[a]
    BY <1>3 DEF AtStep
  <2>2. uRes[a] \subseteq Uat!Resources
    BY <1>3
  <2> QED  BY <1>4, <2>1, <2>2 DEF AtStep
<1>5. uReq[a].status # "ready"
  BY <1>3 DEF UInv, ReadyIsServed, Uat!ReadyIsServed, Accounts
<1> QED  BY <1>1, <1>2, <1>3, <1>4, <1>5, <1>6, BusyStep

(* The six steps of the build.                                              *)
LEMMA BuildStep ==
    ASSUME UInv, NEW p \in Uat!Agents,
           \/ Uat!create_tenant_role(p) \/ Uat!clone_database_from_template(p)
           \/ Uat!_prepare_filestore(p) \/ Uat!_install_package_modules(p)
           \/ Uat!StartContainer(p) \/ Uat!_init_odoo_company_and_user(p)
    PROVE  UInv'
<1>1. CASE Uat!create_tenant_role(p)
  <2>1. LeftAt("database") = LeftAt("role") \cup ({"role"} \cap Uat!Resources)
    BY DEF LeftAt, Uat!Resources
  <2> QED  BY <1>1, <2>1, ProvisionStep DEF Uat!create_tenant_role, BuildSteps, Uat!ProvisionSteps
<1>2. CASE Uat!clone_database_from_template(p)
  <2>1. LeftAt("filestore") = LeftAt("database") \cup ({"database"} \cap Uat!Resources)
    BY DEF LeftAt, Uat!Resources
  <2> QED  BY <1>2, <2>1, ProvisionStep
           DEF Uat!clone_database_from_template, BuildSteps, Uat!ProvisionSteps
<1>3. CASE Uat!_prepare_filestore(p)
  <2>1. LeftAt("modules") = LeftAt("filestore") \cup ({"filestore"} \cap Uat!Resources)
    BY DEF LeftAt, Uat!Resources
  <2> QED  BY <1>3, <2>1, ProvisionStep DEF Uat!_prepare_filestore, BuildSteps, Uat!ProvisionSteps
<1>4. CASE Uat!_install_package_modules(p)
  <2>1. LeftAt("container") = LeftAt("modules") \cup ({"modules"} \cap Uat!Resources)
    BY DEF LeftAt, Uat!Resources
  <2> QED  BY <1>4, <2>1, ProvisionStep
           DEF Uat!_install_package_modules, BuildSteps, Uat!ProvisionSteps
<1>5. CASE Uat!StartContainer(p)
  <2>1. LeftAt("company") = LeftAt("container") \cup ({"container"} \cap Uat!Resources)
    BY DEF LeftAt, Uat!Resources
  <2> QED  BY <1>5, <2>1, ProvisionStep DEF Uat!StartContainer, BuildSteps, Uat!ProvisionSteps
<1>6. CASE Uat!_init_odoo_company_and_user(p)
  <2>1. LeftAt("verify") = LeftAt("company") \cup ({"company"} \cap Uat!Resources)
    BY DEF LeftAt, Uat!Resources
  <2> QED  BY <1>6, <2>1, ProvisionStep
           DEF Uat!_init_odoo_company_and_user, BuildSteps, Uat!ProvisionSteps
<1> QED  BY <1>1, <1>2, <1>3, <1>4, <1>5, <1>6

(* The request is ready: the resources are all there.                       *)
LEMMA ReadyStep ==
    ASSUME UInv, NEW p \in Uat!Agents, Uat!MarkReady(p)
    PROVE  UInv'
<1> DEFINE a == agent[p].a
           row == [uReq[a] EXCEPT !.status = "ready", !.tenant = TRUE]
<1>1. /\ agent[p].step = "verify"
      /\ uReq' = [uReq EXCEPT ![a].status = "ready", ![a].tenant = TRUE]
      /\ tenant' = [tenant EXCEPT ![a] = "active"]
      /\ Uat!Ends(p, FALSE)
      /\ UNCHANGED <<uRes, left, nextId, uCrashes>>
  BY DEF Uat!MarkReady
<1>2. Holds(p) /\ agent[p].step # "idle" /\ "verify" \in BuildSteps
  BY <1>1 DEF Holds, BuildSteps
<1>3. LeftAt("verify") = Uat!Resources
  BY DEF LeftAt
<1>4. /\ a \in Accounts /\ AtStep(uRes[a], left[a], "verify")
      /\ left \in [Accounts -> SUBSET Uat!Resources]
      /\ uReq \in [Accounts -> URows] /\ uRes \in [Accounts -> SUBSET Uat!Resources]
      /\ tenant \in [Accounts -> {"none", "provisioning", "active"}]
  BY <1>1, <1>2, AgentHas, AgentRows
<1>9. uRes[a] = Uat!Resources
  BY <1>2, <1>3, <1>4 DEF AtStep
<1>5. uReq' = [uReq EXCEPT ![a] = row]
  BY <1>1, <1>4
<1>6. row \in URows /\ row.id = uReq[a].id /\ row.tenant
  <2>1. uReq[a] \in URows
    BY <1>4
  <2> QED  BY <2>1, RequestRows DEF URows
<1> HIDE DEF row
<1>7. /\ uReq' \in [Accounts -> URows] /\ uReq'[a] = row
      /\ \A x \in Accounts \ {a} : uReq'[x] = uReq[x]
  BY <1>4, <1>5, <1>6
<1>8. /\ tenant' \in [Accounts -> {"none", "provisioning", "active"}] /\ tenant'[a] = "active"
      /\ \A x \in Accounts \ {a} : tenant'[x] = tenant[x]
  BY <1>1, <1>4
<1> QED  BY <1>1, <1>2, <1>4, <1>6, <1>7, <1>8, <1>9, BusyStep

(* A step raises: the request failed, and the rollback finds the row it     *)
(* needs.                                                                   *)
LEMMA FailStep ==
    ASSUME UInv, NEW p \in Uat!Agents, Uat!ProvisionFails(p)
    PROVE  UInv'
<1> DEFINE a == agent[p].a
           row == [uReq[a] EXCEPT !.status = "failed"]
<1>1. /\ agent[p].step \in BuildSteps
      /\ Uat!Mine(p) /\ tenant[a] # "none" =>
             /\ uReq' = [uReq EXCEPT ![a].status = "failed"]
             /\ agent' = [agent EXCEPT ![p].step = "undo container"]
             /\ UNCHANGED op
      /\ UNCHANGED <<tenant, uRes, left, nextId, uCrashes>>
  BY DEF Uat!ProvisionFails, BuildSteps
<1>2. Holds(p) /\ agent[p].step # "idle"
  BY <1>1 DEF Holds, BuildSteps, Uat!ProvisionSteps
<1>3. /\ a \in Accounts /\ Uat!Mine(p) /\ tenant[a] = "provisioning"
      /\ left \in [Accounts -> SUBSET Uat!Resources]
      /\ uReq \in [Accounts -> URows] /\ uRes \in [Accounts -> SUBSET Uat!Resources]
      /\ tenant \in [Accounts -> {"none", "provisioning", "active"}]
  BY <1>1, <1>2, AgentHas, AgentRows
<1>4. /\ uReq' = [uReq EXCEPT ![a] = row]
      /\ agent' = [agent EXCEPT ![p].step = "undo container"] /\ UNCHANGED op
  BY <1>1, <1>3
<1>5. row \in URows /\ row.id = uReq[a].id /\ row.status = "failed"
  <2>1. uReq[a] \in URows
    BY <1>3
  <2> QED  BY <2>1, RequestRows DEF URows
<1> HIDE DEF row
<1>6. /\ uReq' \in [Accounts -> URows] /\ uReq'[a] = row
      /\ \A x \in Accounts \ {a} : uReq'[x] = uReq[x]
  BY <1>3, <1>4, <1>5
<1>7. /\ "undo container" \in UndoSteps /\ "undo container" \notin BuildSteps
      /\ LeftAt("undo container") = Uat!Resources
  BY DEF UndoSteps, BuildSteps, Uat!ProvisionSteps, LeftAt
<1>8. AtStep(uRes'[a], left'[a], "undo container")
  BY <1>1, <1>3, <1>7 DEF AtStep
<1> QED  BY <1>1, <1>2, <1>3, <1>4, <1>5, <1>6, <1>7, <1>8, BusyStep

(* The rollback removes one resource.                                       *)
LEMMA RemoveStep ==
    ASSUME UInv, NEW p \in Uat!Agents, NEW r \in Uat!Resources, Uat!Remove(p, r)
    PROVE  UInv'
<1> DEFINE a == agent[p].a
           s == Uat!UndoAfter[r]
<1>1. /\ agent[p].step = Uat!UndoStep[r]
      /\ \/ uRes' = [uRes EXCEPT ![a] = @ \ {r}] /\ left' = [left EXCEPT ![a] = @ \ {r}]
         \/ uRes' = uRes /\ left' = [left EXCEPT ![a] = @ \cup {r}]
      /\ agent' = [agent EXCEPT ![p].step = s]
      /\ UNCHANGED <<uReq, tenant, op, nextId, uCrashes>>
  BY DEF Uat!Remove
<1>2. /\ Uat!UndoStep[r] \in UndoSteps /\ s \in UndoSteps
      /\ \A x \in LeftAt(Uat!UndoStep[r]) : x = r \/ x \in LeftAt(s)
  <2>1. CASE r = "role"
    BY <2>1 DEF Uat!UndoStep, Uat!UndoAfter, UndoSteps, LeftAt
  <2>2. CASE r = "database"
    BY <2>2 DEF Uat!UndoStep, Uat!UndoAfter, UndoSteps, LeftAt
  <2>3. CASE r = "filestore"
    BY <2>3 DEF Uat!UndoStep, Uat!UndoAfter, UndoSteps, LeftAt
  <2>4. CASE r = "container"
    BY <2>4 DEF Uat!UndoStep, Uat!UndoAfter, Uat!Resources, UndoSteps, LeftAt
  <2> QED  BY <2>1, <2>2, <2>3, <2>4 DEF Uat!Resources
<1>3. Holds(p) /\ agent[p].step # "idle" /\ s \notin BuildSteps
  BY <1>1, <1>2 DEF Holds, UndoSteps, BuildSteps, Uat!ProvisionSteps
<1>4. /\ a \in Accounts /\ tenant[a] = "provisioning" /\ AtStep(uRes[a], left[a], agent[p].step)
      /\ left \in [Accounts -> SUBSET Uat!Resources]
      /\ uReq \in [Accounts -> URows] /\ uRes \in [Accounts -> SUBSET Uat!Resources]
      /\ tenant \in [Accounts -> {"none", "provisioning", "active"}]
  BY <1>3, AgentHas, AgentRows
<1>5. /\ uRes' \in [Accounts -> SUBSET Uat!Resources]
      /\ left' \in [Accounts -> SUBSET Uat!Resources]
      /\ \A x \in uRes'[a] : x \in uRes[a] /\ (x = r \/ x \in left[a] => x \in left'[a])
      /\ \A x \in Accounts \ {a} : uRes'[x] = uRes[x] /\ left'[x] = left[x]
  BY <1>1, <1>4
<1>6. uReq[a].status # "ready"
  BY <1>4 DEF UInv, ReadyIsServed, Uat!ReadyIsServed, Accounts
<1>7. AtStep(uRes'[a], left'[a], s)
  BY <1>1, <1>2, <1>3, <1>4, <1>5 DEF AtStep
<1> HIDE DEF s
<1> QED  BY <1>1, <1>2, <1>3, <1>4, <1>5, <1>6, <1>7, BusyStep

(* The rollback unlinks the request, then gives the tenant row up, when     *)
(* nothing is left but what it could not remove.                            *)
LEMMA RollbackRowsStep ==
    ASSUME UInv, NEW p \in Uat!Agents, Uat!rollback_manual_uat_request(p)
    PROVE  UInv'
<1> DEFINE a == agent[p].a
           row == [uReq[a] EXCEPT !.tenant = FALSE]
<1>1. agent[p].step \in {"undo rows", "undo tenant"} /\ UNCHANGED <<uRes, left, nextId, uCrashes>>
  BY DEF Uat!rollback_manual_uat_request
<1>2. Holds(p) /\ agent[p].step # "idle" /\ LeftAt(agent[p].step) = {}
  BY <1>1 DEF Holds, LeftAt
<1>3. /\ a \in Accounts /\ Uat!Mine(p) /\ tenant[a] = "provisioning"
      /\ AtStep(uRes[a], left[a], agent[p].step) /\ left \in [Accounts -> SUBSET Uat!Resources]
      /\ uReq \in [Accounts -> URows] /\ uRes \in [Accounts -> SUBSET Uat!Resources]
      /\ tenant \in [Accounts -> {"none", "provisioning", "active"}]
  BY <1>2, AgentHas, AgentRows
<1>7. uRes[a] \subseteq left[a]
  BY <1>2, <1>3 DEF AtStep
<1>4. uReq[a].status # "ready"
  BY <1>3 DEF UInv, ReadyIsServed, Uat!ReadyIsServed, Accounts
<1>5. CASE agent[p].step = "undo rows"
  <2>1. /\ uReq' = [uReq EXCEPT ![a] = row]
        /\ agent' = [agent EXCEPT ![p].step = "undo tenant"]
        /\ UNCHANGED <<tenant, op>>
    BY <1>3, <1>5 DEF Uat!rollback_manual_uat_request
  <2>2. row \in URows /\ row.id = uReq[a].id /\ row.status = uReq[a].status
    <3>1. uReq[a] \in URows
      BY <1>3
    <3> QED  BY <3>1, RequestRows DEF URows
  <2> HIDE DEF row
  <2>3. /\ uReq' \in [Accounts -> URows] /\ uReq'[a] = row
        /\ \A x \in Accounts \ {a} : uReq'[x] = uReq[x]
    BY <1>3, <2>1, <2>2
  <2>4. "undo tenant" \in UndoSteps /\ "undo tenant" \notin BuildSteps
    BY DEF UndoSteps, BuildSteps, Uat!ProvisionSteps
  <2>5. AtStep(uRes'[a], left'[a], "undo tenant")
    BY <1>1, <1>7, <2>4 DEF AtStep
  <2> QED  BY <1>1, <1>2, <1>3, <1>4, <2>1, <2>2, <2>3, <2>4, <2>5, BusyStep
<1>6. CASE agent[p].step = "undo tenant"
  <2>1. tenant' = [tenant EXCEPT ![a] = "none"] /\ Uat!Ends(p, FALSE) /\ uReq' = uReq
    BY <1>6 DEF Uat!rollback_manual_uat_request
  <2>2. /\ tenant' \in [Accounts -> {"none", "provisioning", "active"}]
        /\ \A x \in Accounts \ {a} : tenant'[x] = tenant[x]
    BY <1>3, <2>1
  <2>3. uRes'[a] \subseteq left'[a]
    BY <1>1, <1>7
  <2> QED  BY <1>1, <1>2, <1>3, <1>4, <2>1, <2>2, <2>3, BusyStep
<1> QED  BY <1>1, <1>5, <1>6

(* The invariant depends on the acceptance part's variables only.           *)
LEMMA UatStutter ==
    ASSUME UInv, UNCHANGED uatVars
    PROVE  UInv'
BY DEF UInv, UTypes, UIds, UCommand, UAgents, UAlone, UReset, Holds, uatVars,
       ReadyIsServed, Uat!ReadyIsServed, NothingOrphaned, Uat!NothingOrphaned

(* Every step of the acceptance part keeps the invariant.                   *)
LEMMA UatNext ==
    ASSUME UInv, ~ResetOverlaps, Uat!UNext
    PROVE  UInv'
<1>1. ASSUME NEW kind \in {"seed", "accounts", "provision", "reset"}, Uat!StartCommand(kind)
      PROVE  UInv'
  BY <1>1, CommandStarts
<1>2. CASE Uat!CommandStep
  BY <1>2, SeedRowStep, SeedRequestStep, ApproveStep, SeedNextStep, ProvisionAllStep,
     ResetRemovesStep, ResetRowsStep DEF Uat!CommandStep
<1>3. CASE Uat!process_one
  BY <1>3, ProcessOneStep
<1>4. ASSUME NEW p \in Uat!Agents, Uat!AgentStep(p)
      PROVE  UInv'
  BY <1>4, ReserveStep, BuildStep, ReadyStep, FailStep, RemoveStep, RollbackRowsStep
     DEF Uat!AgentStep
<1>5. ASSUME NEW p \in Uat!Agents, Uat!UCrash(p)
      PROVE  UInv'
  BY <1>5, CrashMoves
<1> QED  BY <1>1, <1>2, <1>3, <1>4, <1>5 DEF Uat!UNext

(* The invariant holds at the start.                                        *)
LEMMA UatInit ==
    ASSUME Uat!UInit
    PROVE  UInv
<1>1. /\ uReq = [a \in Accounts |-> Uat!NoRequest]
      /\ tenant = [a \in Accounts |-> "none"] /\ uRes = [a \in Accounts |-> {}]
      /\ left = [a \in Accounts |-> {}]
      /\ agent = [p \in Uat!Agents |-> Uat!IdleAgent]
      /\ op = Uat!NoCommand /\ nextId = 1 /\ uCrashes = 0
  BY DEF Uat!UInit, Accounts
<1>2. Uat!NoRequest \in URows /\ Uat!NoRequest.status = "none"
  BY DEF Uat!NoRequest, URows
<1>3. Uat!IdleAgent \in ARows /\ Uat!IdleAgent.step = "idle"
  BY DEF Uat!IdleAgent, ARows
<1>4. Uat!NoCommand \in ORows /\ Uat!NoCommand.kind = "idle" /\ Uat!NoCommand.step = "none"
  BY DEF Uat!NoCommand, ORows, CommandSteps
<1>5. UTypes /\ UIds
  BY <1>1, <1>2, <1>3, <1>4 DEF UTypes, UIds
<1>6. UCommand /\ UReset
  BY <1>1, <1>3, <1>4 DEF UCommand, UReset, Uat!Agents
<1>7. UAgents /\ UAlone
  BY <1>1, <1>3 DEF UAgents, UAlone, Holds
<1>8. ReadyIsServed /\ NothingOrphaned
  BY <1>1, <1>2 DEF ReadyIsServed, Uat!ReadyIsServed, NothingOrphaned, Uat!NothingOrphaned, Accounts
<1> QED  BY <1>5, <1>6, <1>7, <1>8 DEF UInv

(* UInv holds of every state, when --reset does not run beside a build.     *)
LEMMA UatInvariant ==
    ASSUME ~ResetOverlaps
    PROVE  Spec => []UInv
<1>1. Init => UInv
  BY UatInit DEF Init
<1>2. ASSUME UInv, [Next]_all
      PROVE  UInv'
  BY <1>2, UatNext, UatStutter DEF Next, all
<1> QED  BY <1>1, <1>2, PTL DEF Spec

(* A ready request has an active tenant of its own with all four resources, *)
(* or a reset started on it or was killed, for any number of accounts,      *)
(* requests, retries, faults and crashes (provision_manual_uat_request).    *)
THEOREM ReadyTenantIsServed ==
    ASSUME ~ResetOverlaps
    PROVE  Spec => []ReadyIsServed
<1>1. UInv => ReadyIsServed
  BY DEF UInv
<1> QED  BY <1>1, UatInvariant, PTL

(* What exists under an account's names has its tenant row or was left by a *)
(* removal that failed, whatever else failed or died, for any number of     *)
(* accounts, faults and crashes (rollback_manual_uat_request,               *)
(* reset_manual_uat).                                                       *)
THEOREM NothingIsOrphaned ==
    ASSUME ~ResetOverlaps
    PROVE  Spec => []NothingOrphaned
<1>1. UInv => NothingOrphaned
  BY DEF UInv
<1> QED  BY <1>1, UatInvariant, PTL

(* The worker and the operator never build one account at a time, although  *)
(* neither claims the request (provision_manual_uat_request).               *)
THEOREM ProvisionersStandApart ==
    ASSUME ~ResetOverlaps
    PROVE  Spec => []OneProvisioner
<1>1. UInv => OneProvisioner
  BY DEF UInv, UAlone, Holds, OneProvisioner, Uat!OneProvisioner
<1> QED  BY <1>1, UatInvariant, PTL

===============================================================================
