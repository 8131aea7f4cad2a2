------------------------------ MODULE MCOperations ------------------------------
(* What runs beside the product lines, checked side by side: backups and     *)
(* restores (part "backup"), the manual acceptance tenants (part "uat") and  *)
(* GitHub's webhooks (part "webhook").  Only one part takes steps.           *)
EXTENDS Integers, Sequences, FiniteSets, TLC

CONSTANTS MaxBackups, MaxRestores, MaxRetained, Quota, LateFaults, MaxTime, MaxFaults, MaxCrashes,
          MaxAccounts, MaxRequests, MaxSuccess, MaxRuns, ResetOverlaps,
          Commits, MaxDeliveries, MaxRepeats, MaxRefusals, MaxKills, MaxPages

VARIABLES part,
          backup, files, next, exceeded, restore, res, req, ret, straddled, worker, now, faults,
          crashes,
          rows, uReq, tenant, uRes, left, agent, op, dirty, done, nextId, uFaults, uCrashes, runs,
          head, hook, known, sent, net, delivery, branch, builds, handler, page,
          repeats, refusals, kills, pages

Backup == INSTANCE BackupRestore
Uat    == INSTANCE ManualUat WITH req <- uReq, res <- uRes, faults <- uFaults, crashes <- uCrashes
Hook   == INSTANCE Webhook WITH row <- delivery

ASSUME OperationsBounds == Uat!UatAssumption /\ Backup!BackupAssumption

backupVars == <<backup, files, next, exceeded, restore, res, req, ret, straddled, worker, now,
                faults, crashes>>
uatVars    == <<rows, uReq, tenant, uRes, left, agent, op, dirty, done, nextId, uFaults, uCrashes,
                runs>>
hookVars   == <<head, hook, known, sent, net, delivery, branch, builds, handler, page,
                repeats, refusals, kills, pages>>
all        == <<part, backupVars, uatVars, hookVars>>

Init ==
    /\ part \in {"backup", "uat", "webhook"}
    /\ Backup!Init /\ Uat!UInit /\ Hook!WInit

BackupDoes(A) == part = "backup" /\ A /\ UNCHANGED <<part, uatVars, hookVars>>
HookDoes(A) == part = "webhook" /\ A /\ UNCHANGED <<part, backupVars, uatVars>>

Next ==
    \/ part = "backup" /\ Backup!Next /\ UNCHANGED <<part, uatVars, hookVars>>
    \/ part = "uat" /\ Uat!UNext /\ UNCHANGED <<part, backupVars, hookVars>>
    \/ part = "webhook" /\ Hook!WNext /\ UNCHANGED <<part, backupVars, uatVars>>

(* The backup worker polls and deliveries that arrived are handled. *)
Spec ==
    /\ Init /\ [][Next]_all
    /\ WF_all(BackupDoes(Backup!WorkerStep))
    /\ WF_all(HookDoes(Hook!HandlerStep))

(* There is always a backup to restore once there was one, unless a process  *)
(* died or two retention runs worked on lists of different days              *)
(* (retention_candidates, apply_retention).                                  *)
GoodBackupKept == [][Backup!HasGood => Backup!HasGood' \/ crashes > 0 \/ straddled]_all

(* A restore succeeds whole, a rolled-back one leaves nothing                *)
(* (rollback_clone_restore).                                                 *)
RestoreIsWhole == Backup!RestoreIsWhole

(* A queued backup ends (reconcile_stale_backup_jobs). *)
BackupEnds == part = "backup" => Backup!BackupEnds

(* A ready acceptance tenant is served (provision_manual_uat_request). *)
ReadyIsServed == Uat!ReadyIsServed

(* Nothing but what a removal failed on exists without the tenant row that   *)
(* lets it be removed (rollback_manual_uat_request, reset_manual_uat).       *)
NothingOrphaned == Uat!NothingOrphaned

(* No two processes build the same acceptance tenant                         *)
(* (provision_manual_uat_request).                                           *)
OneProvisioner == Uat!OneProvisioner

(* A commit has one webhook build at a time (create_build_record). *)
OneBuildPerCommit == Hook!OneBuildPerCommit

(* A delivered push is built (process_github_webhook). *)
PushIsBuilt == part = "webhook" => Hook!PushIsBuilt

================================================================================
