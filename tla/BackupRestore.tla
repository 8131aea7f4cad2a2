------------------------------ MODULE BackupRestore ------------------------------
(***************************************************************************)
(* Backups of one tenant, their retention, and restores into new tenants.  *)
(* Sources: backup_service, backup_scheduler, backup_retention,            *)
(* restore_service, restore_rollback, metering and quota services,         *)
(* api/backups, backup_worker_main.                                        *)
(*                                                                         *)
(* The single backup worker dumps, publishes, restores and sweeps; API     *)
(* requests queue work and may run the retention at the same time.  Days   *)
(* are the schedule's windows (frequency "daily") and what expiries are    *)
(* counted in; one may begin between any two steps.  A backup completes    *)
(* after every backup with a smaller id: the worker claims in that order.  *)
(***************************************************************************)
EXTENDS Integers, Sequences, FiniteSets

CONSTANTS
    MaxBackups,     \* bound: rows of tenant_backups
    MaxRestores,    \* bound: rows of restore_jobs
    MaxRetained,    \* max_retained_backups
    Quota,          \* backups the storage quota has room for
    LateFaults,     \* the audit after a success may raise too
    MaxTime,        \* bound: days
    MaxFaults,      \* bound: external steps that fail
    MaxCrashes      \* bound: processes killed

(* The retention keeps one backup at least, whatever the policy says.        *)
BackupAssumption == MaxBackups \in Nat /\ MaxRetained \in Nat \ {0}

VARIABLES
    backup,     \* tenant_backups
    files,      \* what is on disk for a backup
    next,       \* the policy's next_backup_at
    exceeded,   \* the tenant's quota_state is "exceeded"
    restore,    \* restore_jobs with the tenant and subscription they made
    res,        \* a restore's role, database, filestore and container
    req,        \* the API request between its checks and its insert
    ret,        \* the retention runs of the worker and of an operator
    straddled,  \* history: two of them worked on lists of different days
    worker, now, faults, crashes

vars == <<backup, files, next, exceeded, restore, res, req, ret, straddled, worker, now, faults,
          crashes>>

Backups == 1 .. MaxBackups
Restores == 1 .. MaxRestores
RetentionDays == 1
Sweepers == {"worker", "operator"}
Resources == {"role", "database", "filestore", "container"}

NoBackup == [status |-> "none", type |-> "manual", window |-> 0, expires |-> 0]
NoRestore == [status |-> "none", b |-> 0, sub |-> "none", tenant |-> "none", rolledBack |-> "none"]
NoReq == [kind |-> "none", b |-> 0]
NoSweep == [step |-> "idle", todo |-> <<>>, day |-> 0]
Idle == [step |-> "idle", b |-> 0, r |-> 0]

ACTIVE_BACKUP_STATUSES == {"queued", "running", "verifying", "cleanup_required"}
ACTIVE_RESTORE_STATUSES == {"queued", "restoring"}

Init ==
    /\ backup = [b \in Backups |-> NoBackup]
    /\ files = [b \in Backups |-> "none"]
    /\ next = 1                 \* initialize_policy_schedule
    /\ exceeded = FALSE
    /\ restore = [r \in Restores |-> NoRestore]
    /\ res = [r \in Restores |-> {}]
    /\ req = NoReq
    /\ ret = [p \in Sweepers |-> NoSweep] /\ straddled = FALSE
    /\ worker = Idle
    /\ now = 0 /\ faults = 0 /\ crashes = 0

Smallest(S) == CHOOSE x \in S : \A y \in S : x <= y
Succeeded == {b \in Backups : backup[b].status = "succeeded"}
Queued == {b \in Backups : backup[b].status = "queued"}
FreeRows == {b \in Backups : backup[b].status = "none"}

(* _tenant_busy: restores are looked up by their target, which is never the  *)
(* tenant whose backups these are.                                           *)
_tenant_busy == \E b \in Backups : backup[b].status \in ACTIVE_BACKUP_STATUSES

NewBackup(type) == [status |-> "queued", type |-> type, window |-> now,
                    expires |-> now + RetentionDays]

---------------------------------------------------------------------------
(* Requests. *)

(* queue_backup for a manual backup: the checks ... *)
CheckBackup ==
    /\ req = NoReq /\ FreeRows # {}
    /\ ~exceeded /\ ~_tenant_busy
    /\ req' = [kind |-> "backup", b |-> 0]
    /\ UNCHANGED <<backup, files, next, exceeded, restore, res, ret, straddled, worker, now,
                   faults, crashes>>

(* ... and the insert. *)
queue_backup ==
    /\ req.kind = "backup"
    /\ backup' = IF FreeRows = {} THEN backup
                 ELSE [backup EXCEPT ![Smallest(FreeRows)] = NewBackup("manual")]
    /\ req' = NoReq
    /\ UNCHANGED <<files, next, exceeded, restore, res, ret, straddled, worker, now, faults,
                   crashes>>

(* queue_restore: the checks ... *)
CheckRestore(b) ==
    /\ req = NoReq /\ \E r \in Restores : restore[r].status = "none"
    /\ backup[b].status = "succeeded" /\ ~_tenant_busy
    /\ ~ \E r \in Restores : restore[r].b = b /\ restore[r].status \in ACTIVE_RESTORE_STATUSES
    /\ req' = [kind |-> "restore", b |-> b]
    /\ UNCHANGED <<backup, files, next, exceeded, restore, res, ret, straddled, worker, now,
                   faults, crashes>>

(* ... and the insert. *)
queue_restore ==
    /\ req.kind = "restore"
    /\ LET r == Smallest({r \in Restores : restore[r].status = "none"})
       IN restore' = [restore EXCEPT ![r].status = "queued", ![r].b = req.b]
    /\ req' = NoReq
    /\ UNCHANGED <<backup, files, next, exceeded, res, ret, straddled, worker, now, faults,
                   crashes>>

(* The succeeded backups weigh more than the plan allows. *)
evaluate_tenant_quota == Cardinality(Succeeded) > Quota

measure_tenant_usage ==
    /\ exceeded' = evaluate_tenant_quota
    /\ exceeded' # exceeded
    /\ UNCHANGED <<backup, files, next, restore, res, req, ret, straddled, worker, now, faults,
                   crashes>>

---------------------------------------------------------------------------
(* The schedule, in the worker's loop. *)

(* A due policy whose tenant is not busy.  The window's backup exists: when  *)
(* it succeeded the policy moves on, when it was cleaned nothing happens     *)
(* (queue_backup returns that row).  It does not: it is queued.  A request   *)
(* may have passed its own checks before; its insert comes after.            *)
process_due_scheduled_backups ==
    /\ worker.step = "idle" /\ next <= now /\ ~_tenant_busy
    /\ LET existing == {b \in Backups : /\ backup[b].type = "scheduled"
                                        /\ backup[b].status # "none" /\ backup[b].window = now}
       IN \/ /\ existing # {} /\ existing \subseteq Succeeded
             /\ next' = now + 1 /\ UNCHANGED backup
          \/ /\ existing = {} /\ FreeRows # {}
             /\ backup' = [backup EXCEPT ![Smallest(FreeRows)] = NewBackup("scheduled")]
             /\ UNCHANGED next
    /\ UNCHANGED <<files, exceeded, restore, res, req, ret, straddled, worker, now, faults,
                   crashes>>

---------------------------------------------------------------------------
(* A backup. *)

claim_next_backup_job ==
    /\ worker.step = "idle" /\ Queued # {}
    /\ backup' = [backup EXCEPT ![Smallest(Queued)].status = "running"]
    /\ worker' = [Idle EXCEPT !.step = "dump", !.b = Smallest(Queued)]
    /\ UNCHANGED <<files, next, exceeded, restore, res, req, ret, straddled, now, faults,
                   crashes>>

(* The directories cannot be made: outside the try block, so the row stays   *)
(* running until it is stale.                                                *)
ResolveFails ==
    /\ worker.step = "dump" /\ faults < MaxFaults
    /\ faults' = faults + 1 /\ worker' = Idle
    /\ UNCHANGED <<backup, files, next, exceeded, restore, res, req, ret, straddled, now,
                   crashes>>

(* _run_pg_dump and _tar_filestore into the staging directory, then commit. *)
Dump ==
    /\ worker.step = "dump"
    /\ files' = [files EXCEPT ![worker.b] = "staging"]
    /\ backup' = [backup EXCEPT ![worker.b].status = "verifying"]
    /\ worker' = [worker EXCEPT !.step = "publish"]
    /\ UNCHANGED <<next, exceeded, restore, res, req, ret, straddled, now, faults, crashes>>

(* The files are moved one by one. *)
Publish ==
    /\ worker.step = "publish"
    /\ files' = [files EXCEPT ![worker.b] = "complete"]
    /\ worker' = [worker EXCEPT !.step = "succeed"]
    /\ UNCHANGED <<backup, next, exceeded, restore, res, req, ret, straddled, now, faults,
                   crashes>>

Succeed ==
    /\ worker.step = "succeed"
    /\ backup' = [backup EXCEPT ![worker.b].status = "succeeded"]
    /\ worker' = [worker EXCEPT !.step = IF backup[worker.b].type = "scheduled"
                                         THEN "schedule" ELSE "audit"]
    /\ UNCHANGED <<files, next, exceeded, restore, res, req, ret, straddled, now, faults,
                   crashes>>

(* A scheduled backup moves the policy on; then its retention runs. *)
update_schedule_after_backup ==
    /\ worker.step = "schedule"
    /\ next' = now + 1
    /\ worker' = [worker EXCEPT !.step = "retention"]
    /\ UNCHANGED <<backup, files, exceeded, restore, res, req, ret, straddled, now, faults,
                   crashes>>

record_audit ==
    /\ worker.step = "audit"
    /\ worker' = Idle
    /\ UNCHANGED <<backup, files, next, exceeded, restore, res, req, ret, straddled, now,
                   faults, crashes>>

(* _fail_backup commits cleanup_required; a scheduled one stays due. *)
_fail_backup ==
    /\ worker.step \in {"dump", "publish", "succeed"} \cup (IF LateFaults THEN {"audit"} ELSE {})
    /\ faults < MaxFaults /\ faults' = faults + 1
    /\ files' = [files EXCEPT ![worker.b] = IF @ = "none" THEN "staging" ELSE @]
    /\ backup' = [backup EXCEPT ![worker.b].status = "cleanup_required"]
    /\ next' = IF backup[worker.b].type = "scheduled" THEN now ELSE next
    /\ worker' = [worker EXCEPT !.step = "cleanup"]
    /\ UNCHANGED <<exceeded, restore, res, req, ret, straddled, now, crashes>>

(* Mutant: a job that died while it was verified is not stale. *)
ReconcileRunning(b) ==
    /\ worker.step = "idle" /\ backup[b].status = "running"
    /\ backup' = [backup EXCEPT ![b].status = "cleanup_required"]
    /\ next' = IF backup[b].type = "scheduled" THEN now ELSE next
    /\ worker' = [Idle EXCEPT !.step = "cleanup", !.b = b]
    /\ UNCHANGED <<files, exceeded, restore, res, req, ret, straddled, now, faults, crashes>>

(* Stale jobs: the worker that ran them died or gave up on them. *)
reconcile_stale_backup_jobs(b) ==
    /\ worker.step = "idle" /\ backup[b].status \in {"running", "verifying"}
    /\ backup' = [backup EXCEPT ![b].status = "cleanup_required"]
    /\ next' = IF backup[b].type = "scheduled" THEN now ELSE next
    /\ worker' = [Idle EXCEPT !.step = "cleanup", !.b = b]
    /\ UNCHANGED <<files, exceeded, restore, res, req, ret, straddled, now, faults, crashes>>

(* The removal succeeds, is refused (BackupStorageError), or an OSError      *)
(* leaves the row as it is.                                                  *)
Cleanup ==
    /\ worker.step = "cleanup"
    /\ \/ /\ files' = [files EXCEPT ![worker.b] = "none"]
          /\ backup' = [backup EXCEPT ![worker.b].status = "cleaned"]
          /\ UNCHANGED faults
       \/ /\ faults < MaxFaults /\ faults' = faults + 1
          /\ backup' = [backup EXCEPT ![worker.b].status = "cleanup_failed"]
          /\ UNCHANGED files
       \/ /\ faults < MaxFaults /\ faults' = faults + 1
          /\ UNCHANGED <<backup, files>>
    /\ worker' = Idle
    /\ UNCHANGED <<next, exceeded, restore, res, req, ret, straddled, now, crashes>>

---------------------------------------------------------------------------
(* Retention. *)

(* The elements of S, largest first: newest first. *)
Descending(S) == [i \in 1 .. Cardinality(S) |->
                    CHOOSE x \in S : Cardinality({y \in S : y > x}) = i - 1]

Newer(b) == {c \in Succeeded : c > b}

(* Mutant: nothing keeps the last one. *)
CandidatesAll ==
    LET expired == {b \in Succeeded : backup[b].expires < now}
        extras == {b \in Succeeded : Cardinality(Newer(b)) >= MaxRetained} \ expired
    IN Descending(expired) \o Descending(extras)

(* Expired ones, then the ones beyond the limit; when nothing would remain,  *)
(* the last of the list stays.                                               *)
retention_candidates ==
    LET expired == {b \in Succeeded : backup[b].expires < now}
        extras == {b \in Succeeded : Cardinality(Newer(b)) >= MaxRetained} \ expired
        delete == Descending(expired) \o Descending(extras)
    IN IF Len(delete) < Cardinality(Succeeded) \/ delete = <<>> THEN delete
       ELSE SubSeq(delete, 1, Len(delete) - 1)

(* The worker after a scheduled backup or in an idle loop, or an operator. *)
StartRetention(p) ==
    /\ ret[p].step = "idle"
    /\ p = "worker" => \/ worker.step = "retention"
                       \/ worker.step = "idle" /\ retention_candidates # <<>> /\ Queued = {}
                            /\ \A r \in Restores : restore[r].status # "queued"
    /\ p = "operator" => retention_candidates # <<>>
    /\ ret' = [ret EXCEPT ![p] = [step |-> "remove", todo |-> retention_candidates, day |-> now]]
    /\ straddled' = (straddled \/ \E q \in Sweepers : ret[q].step # "idle" /\ ret[q].day # now)
    /\ worker' = IF p = "worker" /\ worker.step = "idle" THEN [worker EXCEPT !.step = "sweep"]
                 ELSE worker
    /\ UNCHANGED <<backup, files, next, exceeded, restore, res, req, now, faults, crashes>>

(* safe_rmtree_backup_dir; a failure passes the backup by. *)
RemoveFiles(p) ==
    /\ ret[p].step = "remove" /\ ret[p].todo # <<>>
    /\ \/ /\ files' = [files EXCEPT ![Head(ret[p].todo)] = "none"]
          /\ ret' = [ret EXCEPT ![p].step = "commit"]
          /\ UNCHANGED faults
       \/ /\ faults < MaxFaults /\ faults' = faults + 1
          /\ ret' = [ret EXCEPT ![p].todo = Tail(@)]
          /\ UNCHANGED files
    /\ UNCHANGED <<backup, next, exceeded, restore, res, req, straddled, worker, now, crashes>>

(* The status is committed with the audit record. *)
apply_retention(p) ==
    /\ ret[p].step = "commit"
    /\ backup' = [backup EXCEPT ![Head(ret[p].todo)].status = "cleaned"]
    /\ ret' = [ret EXCEPT ![p].step = "remove", ![p].todo = Tail(@)]
    /\ UNCHANGED <<files, next, exceeded, restore, res, req, straddled, worker, now, faults,
                   crashes>>

EndRetention(p) ==
    /\ ret[p].step = "remove" /\ ret[p].todo = <<>>
    /\ ret' = [ret EXCEPT ![p] = NoSweep]
    /\ worker' = IF p = "operator" THEN worker
                 ELSE IF worker.step = "retention" THEN [worker EXCEPT !.step = "audit"] ELSE Idle
    /\ UNCHANGED <<backup, files, next, exceeded, restore, res, req, straddled, now, faults,
                   crashes>>

---------------------------------------------------------------------------
(* A restore into a new tenant. *)

claim_next_restore_job ==
    /\ worker.step = "idle" /\ Queued = {}
    /\ LET queued == {r \in Restores : restore[r].status = "queued"}
       IN /\ queued # {}
          /\ restore' = [restore EXCEPT ![Smallest(queued)].status = "restoring"]
          /\ worker' = [Idle EXCEPT !.step = "manifest", !.r = Smallest(queued)]
    /\ UNCHANGED <<backup, files, next, exceeded, res, req, ret, straddled, now, faults,
                   crashes>>

Source == restore[worker.r].b

(* verify_backup_manifest, then the subscription and the tenant's row. *)
verify_backup_manifest ==
    /\ worker.step = "manifest" /\ files[Source] = "complete"
    /\ restore' = [restore EXCEPT ![worker.r].sub = "trial", ![worker.r].tenant = "provisioning"]
    /\ worker' = [worker EXCEPT !.step = "filestore"]
    /\ UNCHANGED <<backup, files, next, exceeded, res, req, ret, straddled, now, faults,
                   crashes>>

(* _fail_restore without a rollback: no valid manifest, or the filestore,    *)
(* which is made outside the try block, cannot be made.                      *)
_fail_restore ==
    /\ \/ worker.step = "manifest" /\ files[Source] # "complete" /\ UNCHANGED faults
       \/ /\ worker.step = "filestore" \/ (LateFaults /\ worker.step = "restored")
          /\ faults < MaxFaults /\ faults' = faults + 1
    /\ restore' = [restore EXCEPT ![worker.r].status = "failed"]
    /\ worker' = Idle
    /\ UNCHANGED <<backup, files, next, exceeded, res, req, ret, straddled, now, crashes>>

(* A step makes resources and goes on; the restore of a trial's tenant       *)
(* (execute_platform_clone_restore) takes the same steps.                    *)
Make(step, made, then) ==
    /\ worker.step = step
    /\ res' = [res EXCEPT ![worker.r] = @ \cup made]
    /\ worker' = [worker EXCEPT !.step = then]
    /\ UNCHANGED <<backup, files, next, exceeded, restore, req, ret, straddled, now, faults,
                   crashes>>

_prepare_tenant_filestore == Make("filestore", {"filestore"}, "role")
create_tenant_role == Make("role", {"role", "database"}, "dump_in")

(* _pg_restore and _extract_filestore read the published files. *)
_pg_restore ==
    /\ worker.step = "dump_in" /\ files[Source] = "complete"
    /\ worker' = [worker EXCEPT !.step = "container"]
    /\ UNCHANGED <<backup, files, next, exceeded, restore, res, req, ret, straddled, now,
                   faults, crashes>>

run_tenant_odoo_container == Make("container", {"container"}, "health")

execute_clone_restore ==
    /\ worker.step = "health"
    /\ restore' = [restore EXCEPT ![worker.r].tenant = "active", ![worker.r].status = "succeeded"]
    /\ worker' = [worker EXCEPT !.step = "restored"]
    /\ UNCHANGED <<backup, files, next, exceeded, res, req, ret, straddled, now, faults,
                   crashes>>

(* The audit of execute_restore_job. *)
execute_restore_job ==
    /\ worker.step = "restored"
    /\ worker' = Idle
    /\ UNCHANGED <<backup, files, next, exceeded, restore, res, req, ret, straddled, now,
                   faults, crashes>>

(* A step inside the try block raises, or the dump is gone. *)
RestoreRaises ==
    /\ \/ worker.step = "dump_in" /\ files[Source] # "complete" /\ UNCHANGED faults
       \/ /\ worker.step \in {"role", "dump_in", "container", "health"}
          /\ faults < MaxFaults /\ faults' = faults + 1
    /\ \E made \in SUBSET (CASE worker.step = "role" -> {"role", "database"}
                             [] worker.step = "container" -> {"container"} [] OTHER -> {}) :
         /\ "database" \in made => "role" \in made
         /\ res' = [res EXCEPT ![worker.r] = @ \cup made]
    /\ worker' = [worker EXCEPT !.step = "rollback"]
    /\ UNCHANGED <<backup, files, next, exceeded, restore, req, ret, straddled, now, crashes>>

(* Mutant: the database is not dropped. *)
RollbackKeepsDatabase ==
    /\ worker.step = "rollback"
    /\ res' = [res EXCEPT ![worker.r] = @ \cap {"database"}]
    /\ restore' = [restore EXCEPT ![worker.r].status = "failed", ![worker.r].tenant = "failed",
                                  ![worker.r].sub = "terminated",
                                  ![worker.r].rolledBack = "completed"]
    /\ worker' = Idle
    /\ UNCHANGED <<backup, files, next, exceeded, req, ret, straddled, now, faults, crashes>>

(* rollback_clone_restore tries every removal; left are the ones that raise. *)
rollback_clone_restore ==
    /\ worker.step = "rollback"
    /\ \E left \in SUBSET res[worker.r] :
         /\ left # {} => faults < MaxFaults
         /\ {"role", "database"} \subseteq res[worker.r] /\ "database" \in left => "role" \in left
         /\ faults' = IF left = {} THEN faults ELSE faults + 1
         /\ res' = [res EXCEPT ![worker.r] = left]
         /\ restore' = [restore EXCEPT ![worker.r].status = "failed",
                                       ![worker.r].tenant = "failed",
                                       ![worker.r].sub = "terminated",
                                       ![worker.r].rolledBack =
                                           IF left = {} THEN "completed" ELSE "failed"]
    /\ worker' = Idle
    /\ UNCHANGED <<backup, files, next, exceeded, req, ret, straddled, now, crashes>>

---------------------------------------------------------------------------
(* The environment. *)

(* The clock passes midnight, whatever is going on. *)
DayPasses ==
    /\ now < MaxTime /\ now' = now + 1
    /\ UNCHANGED <<backup, files, next, exceeded, restore, res, req, ret, straddled, worker,
                   faults, crashes>>

(* The worker dies with its retention run; a publish may be half done and a  *)
(* rollback may have got anywhere.                                           *)
WorkerCrash ==
    /\ worker.step # "idle" /\ crashes < MaxCrashes
    /\ crashes' = crashes + 1
    /\ files' = IF worker.step = "publish" THEN [files EXCEPT ![worker.b] = "partial"] ELSE files
    /\ IF worker.step = "rollback"
       THEN \E left \in SUBSET res[worker.r] : res' = [res EXCEPT ![worker.r] = left]
       ELSE UNCHANGED res
    /\ worker' = Idle
    /\ ret' = [ret EXCEPT !["worker"] = NoSweep]
    /\ UNCHANGED <<backup, next, exceeded, restore, req, straddled, now, faults>>

(* The API process dies: an operator's retention run ends. *)
WebCrash ==
    /\ ret["operator"].step # "idle" /\ crashes < MaxCrashes
    /\ crashes' = crashes + 1
    /\ ret' = [ret EXCEPT !["operator"] = NoSweep]
    /\ UNCHANGED <<backup, files, next, exceeded, restore, res, req, straddled, worker, now,
                   faults>>

---------------------------------------------------------------------------

BackupStep ==
    \/ claim_next_backup_job \/ ResolveFails \/ Dump \/ Publish \/ Succeed
    \/ update_schedule_after_backup \/ record_audit \/ _fail_backup \/ Cleanup
    \/ \E b \in Backups : reconcile_stale_backup_jobs(b)

RestoreStep ==
    \/ claim_next_restore_job \/ verify_backup_manifest \/ _fail_restore
    \/ _prepare_tenant_filestore \/ create_tenant_role \/ _pg_restore
    \/ run_tenant_odoo_container \/ execute_clone_restore \/ execute_restore_job
    \/ RestoreRaises \/ rollback_clone_restore

Sweep(p) == StartRetention(p) \/ RemoveFiles(p) \/ apply_retention(p) \/ EndRetention(p)

WorkerStep == BackupStep \/ RestoreStep \/ Sweep("worker") \/ process_due_scheduled_backups

Next ==
    \/ CheckBackup \/ queue_backup
    \/ \E b \in Backups : CheckRestore(b)
    \/ queue_restore \/ measure_tenant_usage
    \/ WorkerStep
    \/ Sweep("operator")
    \/ DayPasses \/ WorkerCrash \/ WebCrash

Spec == Init /\ [][Next]_vars

(* The worker polls for ever. *)
Fairness == WF_vars(WorkerStep)

FairSpec == Spec /\ Fairness

---------------------------------------------------------------------------

TypeOK ==
    /\ backup \in [Backups -> [status : ACTIVE_BACKUP_STATUSES
                                          \cup {"none", "succeeded", "cleaned", "cleanup_failed"},
                               type : {"manual", "scheduled"}, window : 0 .. MaxTime,
                               expires : 0 .. MaxTime + RetentionDays]]
    /\ files \in [Backups -> {"none", "staging", "partial", "complete"}]
    /\ next \in 0 .. MaxTime + 1 /\ exceeded \in BOOLEAN
    /\ restore \in [Restores -> [status : ACTIVE_RESTORE_STATUSES \cup {"none", "succeeded", "failed"},
                                 b : 0 .. MaxBackups, sub : {"none", "trial", "terminated"},
                                 tenant : {"none", "provisioning", "active", "failed"},
                                 rolledBack : {"none", "completed", "failed"}]]
    /\ res \in [Restores -> SUBSET Resources]
    /\ worker.b \in 0 .. MaxBackups /\ worker.r \in 0 .. MaxRestores

(* A backup that is offered for restores has its files, unless the retention *)
(* was entitled to it: it had expired or enough newer ones had been made     *)
(* (execute_backup_job, apply_retention).  No failure, clean-up or crash     *)
(* takes the files of any other.                                             *)
SucceededIsRestorable ==
    \A b \in Succeeded : files[b] # "complete" =>
        \/ backup[b].expires < now
        \/ Cardinality({c \in Backups : c > b /\ backup[c].status \in {"succeeded", "cleaned"}})
              >= MaxRetained

(* There is a backup that can be restored. *)
HasGood == \E b \in Succeeded : files[b] = "complete"

(* Once there is a good backup there always is one: neither expiry, nor the  *)
(* limit, nor two retention runs at once, nor one that lasts for days remove *)
(* the last (retention_candidates), as long as no process dies and no run    *)
(* begins on a later day than one still under way.                           *)
GoodBackupKept == [][HasGood => HasGood' \/ crashes > 0 \/ straddled]_vars

(* The same without exception, which is what "Never delete ALL" and          *)
(* "last-known-good preservation" promise (backup_retention).                *)
LastKnownGoodKept == [][HasGood => HasGood']_vars

(* A restore succeeds with everything it made, and a rolled-back one leaves  *)
(* nothing (rollback_clone_restore).                                         *)
RestoreIsWhole ==
    \A r \in Restores :
        /\ restore[r].tenant = "active" => res[r] = Resources
        /\ restore[r].status = "succeeded" => restore[r].tenant = "active"
        /\ restore[r].rolledBack = "completed" => res[r] = {} /\ restore[r].sub = "terminated"

(* Every queued backup ends: it succeeds or is given up, through failures    *)
(* and crashes (reconcile_stale_backup_jobs).                                *)
BackupEnds ==
    \A b \in Backups : backup[b].status \in {"queued", "running", "verifying"}
        ~> backup[b].status \notin {"queued", "running", "verifying"}
===============================================================================
