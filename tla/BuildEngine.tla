------------------------------ MODULE BuildEngine ------------------------------
(***************************************************************************)
(* The build engine of control-api: services/build_service.py with the     *)
(* port allocator and the endpoints of main.py that drive it.              *)
(*                                                                         *)
(* A build is a row of the SQLite table builds.  It is executed by a       *)
(* pipeline worker (a thread started when the row is claimed) while        *)
(* request handlers (threads of the web server) create, execute, cancel,   *)
(* stop, restart and delete builds.  Every thread works on an ORM copy of  *)
(* the row that it read earlier; a commit writes only the attributes the   *)
(* thread changed since.  A step of this module is one commit, one read    *)
(* that a later decision depends on, or one call of docker, git or         *)
(* Postgres.  project.status, logs, audit events and the transient init    *)
(* and password containers are left out: no decision reads them.           *)
(***************************************************************************)
EXTENDS Integers, FiniteSets

CONSTANTS
    MaxBuilds,      \* bound: rows that are ever inserted
    Projects,       \* the projects builds belong to
    PortMin,        \* settings.build_port_min
    PortMax,        \* settings.build_port_max
    MaxConcurrent,  \* settings.max_concurrent_builds
    Handlers,       \* bound: requests served at the same time
    Ops,            \* the kinds of request the users of a run issue
    MaxCrashes,     \* bound: crashes of the control-api process
    RemovalFaults   \* docker and Postgres may refuse to remove something

ASSUME BuildAssumption ==
    /\ MaxBuilds \in Nat
    /\ PortMin \in Nat \ {0} /\ PortMax \in Nat
    /\ MaxConcurrent \in Nat
    /\ MaxCrashes \in Nat
    /\ RemovalFaults \in BOOLEAN
    /\ Ops \subseteq {"create", "execute", "cancel", "stop", "restart", "delete"}
    /\ Handlers \cap (1 .. MaxBuilds) = {}

Builds == 1 .. MaxBuilds        \* primary keys, in the order of insertion
Ports  == PortMin .. PortMax
NoPort == 0                     \* Build.http_port IS NULL

EXECUTING_BUILD_STATUSES ==
    {"cloning", "building", "creating_database", "starting_odoo", "health_check"}

CANCELABLE_STATUSES ==
    EXECUTING_BUILD_STATUSES \cup {"queued", "cancel_requested"}

Statuses ==
    EXECUTING_BUILD_STATUSES \cup
    {"none", "queued", "running", "stopping", "stopped",
     "cancel_requested", "cancelled", "failed", "deleted"}

(* The columns of a row that guards read; "none" is a row not yet inserted. *)
Rows  == [status : Statuses, cancel : BOOLEAN, port : Ports \cup {NoPort}]
NoRow == [status |-> "none", cancel |-> FALSE, port |-> NoPort]

VARIABLES
    row,        \* the table builds
    project,    \* Build.project_id
    main,       \* the long-running Odoo container of each build
    databases,  \* builds whose Postgres database exists
    workspaces, \* builds whose checked-out workspace exists
    worker,     \* pipeline thread of each build: program counter, ORM copy
    req,        \* request handler threads
    lock,       \* rows picked by the holder of _enqueue_lock; {} when free
    up,         \* the control-api process is running
    touched,    \* history: builds an operator cancelled, deleted or restarted
    realloc,    \* history: builds that restart_build gave a new port
    crashes     \* crashes so far

vars == <<row, project, main, databases, workspaces, worker, req, lock, up,
          touched, realloc, crashes>>

resources == <<main, databases, workspaces>>
process   == <<up, crashes>>
history   == <<touched, realloc>>

------------------------------------------------------------------------------
(* Program counters.                                                       *)

(* Where a pipeline writes its next status, and what it does then. *)
WRITE_PCS  == {"toBuilding", "toDatabase", "toStarting", "toHealth", "toRunning"}
StatusOf   == [toBuilding |-> "building",
               toDatabase |-> "creating_database",
               toStarting |-> "starting_odoo",
               toHealth   |-> "health_check",
               toRunning  |-> "running"]
PcAfter    == [toBuilding |-> "install",
               toDatabase |-> "createdb",
               toStarting |-> "init",
               toHealth   |-> "health",
               toRunning  |-> "kick"]

(* A worker in one of these has not written its final status yet. *)
PIPELINE_PCS ==
    WRITE_PCS \cup
    {"start", "clone", "install", "createdb", "init", "password", "launch",
     "health", "failCleanup", "failWrite", "finCleanup", "finWrite"}
TAIL_PCS   == {"none", "kick1", "claim1", "kick", "claim"}
WorkerPcs  == PIPELINE_PCS \cup TAIL_PCS

(* A restart handler in one of these has written starting_odoo. *)
RESTART_PCS == {"relaunch", "toHealth", "health", "toRunning",
                "failCleanup", "failWrite"}
HandlerPcs  == RESTART_PCS \cup
               {"idle", "port", "insert", "enqueue", "write", "cleanup",
                "dockerStop", "stopped", "realloc", "resources", "kick", "claim"}

Workers  == [pc : WorkerPcs, seen : Rows]
Requests == [op : Ops \cup {"none"}, pc : HandlerPcs, build : Builds \cup {0},
             proj : Projects \cup {"none"}, number : Nat,
             port : Ports \cup {NoPort}, seen : Rows]

Idle == [op |-> "none", pc |-> "idle", build |-> 0, proj |-> "none",
         number |-> 0, port |-> NoPort, seen |-> NoRow]

NoWorker == [pc |-> "none", seen |-> NoRow]

------------------------------------------------------------------------------
(* The table and its readers.                                              *)

Inserted  == {b \in Builds : row[b].status # "none"}
Queued    == {b \in Builds : row[b].status = "queued"}
Executing == {b \in Builds : row[b].status \in EXECUTING_BUILD_STATUSES}

(* Rows are tombstoned, never removed, so the highest number is the count. *)
next_build_number(p) == Cardinality({b \in Inserted : project[b] = p}) + 1

active_ports ==
    {row[b].port : b \in {c \in Builds : row[c].status \notin {"deleted", "failed"}}}
        \ {NoPort}

(* Mutant: the range runs one port past build_port_max. *)
PortsPastMax == (PortMin .. PortMax + 1) \ active_ports

(* A port the table does not reserve; whether a bind succeeds on it is the *)
(* host's business, so any of them may be returned, and none may be free.  *)
allocate_port == Ports \ active_ports

(* Mutant: LIMIT is one too high. *)
FirstQueuedPlusOne(q, n) == {b \in q : Cardinality({c \in q : c <= b}) <= n + 1}

(* SELECT ... ORDER BY id LIMIT n *)
FirstQueued(q, n) == {b \in q : Cardinality({c \in q : c <= b}) <= n}

(* kick_queued_builds: what the free capacity admits, oldest first. *)
KickPicks == FirstQueued(Queued, MaxConcurrent - Cardinality(Executing))

(* Mutant: the enqueue does not count the executing builds. *)
EnqueueUncounted(b) == {b} \cap Queued

(* enqueue_build_execution: only this build, and only below capacity. *)
EnqueuePicks(b) ==
    IF Cardinality(Executing) < MaxConcurrent THEN {b} \cap Queued ELSE {}

------------------------------------------------------------------------------
(* The ORM.  A commit updates the attributes whose new value differs from  *)
(* the value the session loaded, and leaves the others as they are now.    *)

Merge(now, seen, new) == IF new # seen THEN new ELSE now

Flush(now, seen, new) ==
    [status |-> Merge(now.status, seen.status, new.status),
     cancel |-> Merge(now.cancel, seen.cancel, new.cancel),
     port   |-> Merge(now.port, seen.port, new.port)]

WithStatus(r, s) == [r EXCEPT !.status = s]
AsFailed(r)      == [r EXCEPT !.status = "failed", !.port = NoPort]
AsCancelled(r)   == [status |-> "cancelled", cancel |-> FALSE, port |-> NoPort]
AsDeleted(r)     == [r EXCEPT !.status = "deleted", !.port = NoPort]
AsCancelRequested(r) == [r EXCEPT !.status = "cancel_requested", !.cancel = TRUE]

------------------------------------------------------------------------------
(* Docker, for the long-running container of a build.                      *)

Absent   == [state |-> "absent", port |-> NoPort]
Exited   == [state |-> "exited", port |-> NoPort]
UpOn(p)  == [state |-> "up", port |-> p]
MainStates == [state : {"absent", "exited", "up"}, port : Ports \cup {NoPort}]

(* A published port that another container already holds. *)
PortBusy(b, p) == /\ p # NoPort
                  /\ \E c \in Builds \ {b} : main[c] = UpOn(p)

(* remove_build_container followed by _run_odoo, on the port of the copy.  *)
RunMain(b, p) == ~PortBusy(b, p) /\ main' = [main EXCEPT ![b] = UpOn(p)]

(* Removing a container; the callers carry on when docker refuses. *)
Remove(b) == \/ main' = [main EXCEPT ![b] = Absent]
             \/ RemovalFaults /\ UNCHANGED main

(* wait_odoo_healthy also probes the published port on the host, where any *)
(* container that answers is taken for this one.                           *)
AnswersHttp(b, p) == \/ main[b].state = "up"
                     \/ PortBusy(b, p)

------------------------------------------------------------------------------
(* Steps every thread shares.                                              *)

(* _set_status: flush the changed attributes and commit. *)
Commit(b, seen, new) == row' = [row EXCEPT ![b] = Flush(row[b], seen, new)]

(* The end of a claim: the picked rows become cloning and each gets a      *)
(* thread.  cancel_requested is set to the value the rows were read with,  *)
(* which writes nothing.                                                   *)
ClaimRows == row' = [b \in Builds |->
                 IF b \in lock THEN [row[b] EXCEPT !.status = "cloning"] ELSE row[b]]

Started == [pc |-> "start", seen |-> NoRow]

------------------------------------------------------------------------------
(* The pipeline: execute_build and _execute_build_pipeline.                *)

WorkerAt(b, pc) == worker[b].pc = pc

Goto(b, pc) == worker' = [worker EXCEPT ![b].pc = pc]

(* _check_cancel: refresh the copy, leave the pipeline when asked to. *)
CancelSeen(r) == r.cancel \/ r.status = "cancel_requested"

CheckCancel(b, pc) ==
    worker' = [worker EXCEPT ![b] =
        [pc |-> IF CancelSeen(row[b]) THEN "finCleanup" ELSE pc, seen |-> row[b]]]

Load(b) ==
    /\ WorkerAt(b, "start")
    /\ \/ /\ \/ row[b].status = "cancelled"
             \/ ~CancelSeen(row[b]) /\ row[b].status \in {"running", "deleted"}
          /\ worker' = [worker EXCEPT ![b] = [pc |-> "kick", seen |-> NoRow]]
          /\ UNCHANGED row
       \/ /\ row[b].status # "cancelled" /\ CancelSeen(row[b])
          /\ worker' = [worker EXCEPT ![b] = [pc |-> "finCleanup", seen |-> row[b]]]
          /\ UNCHANGED row
       \/ /\ ~CancelSeen(row[b])
          /\ row[b].status \notin {"cancelled", "running", "deleted"}
          /\ Commit(b, row[b], WithStatus(row[b], "cloning"))
          /\ worker' = [worker EXCEPT ![b] = [pc |-> "clone", seen |-> row'[b]]]
    /\ UNCHANGED <<project, resources, req, lock, process, history>>

Clone(b) ==
    /\ WorkerAt(b, "clone")
    /\ \/ workspaces' = workspaces \cup {b} /\ CheckCancel(b, "toBuilding")
       \/ UNCHANGED workspaces /\ Goto(b, "failCleanup")
    /\ UNCHANGED <<row, project, main, databases, req, lock, process, history>>

Install(b) ==
    /\ WorkerAt(b, "install")
    /\ CheckCancel(b, "toDatabase") \/ Goto(b, "failCleanup")
    /\ UNCHANGED <<row, project, resources, req, lock, process, history>>

CreateDatabase(b) ==
    /\ WorkerAt(b, "createdb")
    /\ \/ databases' = databases \cup {b} /\ CheckCancel(b, "toStarting")
       \/ UNCHANGED databases /\ Goto(b, "failCleanup")
    /\ UNCHANGED <<row, project, main, workspaces, req, lock, process, history>>

(* The init container: exit code 0; another exit code; or an exception of  *)
(* docker, after which cancellation is looked at before failing.           *)
InitModules(b) ==
    /\ WorkerAt(b, "init")
    /\ \/ b \in databases /\ CheckCancel(b, "password")
       \/ Goto(b, "failCleanup")
       \/ CheckCancel(b, "failCleanup")
    /\ UNCHANGED <<row, project, resources, req, lock, process, history>>

(* A failure to set the admin password is logged and ignored. *)
SetPassword(b) ==
    /\ WorkerAt(b, "password")
    /\ CheckCancel(b, "launch")
    /\ UNCHANGED <<row, project, resources, req, lock, process, history>>

Launch(b) ==
    /\ WorkerAt(b, "launch")
    /\ \/ RunMain(b, worker[b].seen.port) /\ CheckCancel(b, "toHealth")
       \/ Remove(b) /\ Goto(b, "failCleanup")
    /\ UNCHANGED <<row, project, databases, workspaces, req, lock, process, history>>

HealthCheck(b) ==
    /\ WorkerAt(b, "health")
    /\ \/ AnswersHttp(b, worker[b].seen.port) /\ CheckCancel(b, "toRunning")
       \/ Goto(b, "failCleanup")
    /\ UNCHANGED <<row, project, resources, req, lock, process, history>>

(* The _set_status between two phases; nothing is looked at again. *)
SetStatus(b) ==
    /\ worker[b].pc \in WRITE_PCS
    /\ Commit(b, worker[b].seen, WithStatus(worker[b].seen, StatusOf[worker[b].pc]))
    /\ worker' = [worker EXCEPT ![b] =
           [pc   |-> PcAfter[worker[b].pc],
            seen |-> IF WorkerAt(b, "toRunning") THEN NoRow ELSE row'[b]]]
    /\ UNCHANGED <<project, resources, req, lock, process, history>>

(* _fail and _finalize_cancelled: first the containers ... *)
CleanupContainers(b) ==
    /\ \/ WorkerAt(b, "failCleanup") /\ Goto(b, "failWrite")
       \/ WorkerAt(b, "finCleanup") /\ Goto(b, "finWrite")
    /\ Remove(b)
    /\ UNCHANGED <<row, project, databases, workspaces, req, lock, process, history>>

(* Mutant: the failing worker ends without writing the row. *)
WriteFinalNothing(b) ==
    /\ worker[b].pc \in {"failWrite", "finWrite"}
    /\ worker' = [worker EXCEPT ![b] = [pc |-> "kick1", seen |-> NoRow]]
    /\ UNCHANGED <<row, project, resources, req, lock, process, history>>

(* ... then the row, which gives up the port. *)
WriteFinal(b) ==
    /\ \/ /\ WorkerAt(b, "failWrite")
          /\ Commit(b, worker[b].seen, AsFailed(worker[b].seen))
       \/ /\ WorkerAt(b, "finWrite")
          /\ Commit(b, worker[b].seen, AsCancelled(worker[b].seen))
    /\ worker' = [worker EXCEPT ![b] = [pc |-> "kick1", seen |-> NoRow]]
    /\ UNCHANGED <<project, resources, req, lock, process, history>>

(* _fail and _finalize_cancelled kick the queue, and so does the finally   *)
(* clause of execute_build: pick under the lock, then commit and start.    *)
ClaimPc(pc) == IF pc = "kick1" THEN "claim1" ELSE "claim"
NextPc(pc)  == IF pc \in {"kick1", "claim1"} THEN "kick" ELSE "none"

(* Mutant: the worker ends without looking at the queue. *)
WorkerNoKick(b) ==
    /\ worker[b].pc \in {"kick1", "kick"}
    /\ Goto(b, NextPc(worker[b].pc))
    /\ UNCHANGED <<row, project, resources, req, lock, process, history>>

WorkerKick(b) ==
    /\ worker[b].pc \in {"kick1", "kick"}
    /\ lock = {}
    /\ lock' = KickPicks
    /\ Goto(b, IF KickPicks = {} THEN NextPc(worker[b].pc) ELSE ClaimPc(worker[b].pc))
    /\ UNCHANGED <<row, project, resources, req, process, history>>

WorkerClaim(b) ==
    /\ worker[b].pc \in {"claim1", "claim"}
    /\ ClaimRows
    /\ worker' = [c \in Builds |->
           IF c \in lock THEN Started
           ELSE IF c = b THEN [worker[b] EXCEPT !.pc = NextPc(worker[b].pc)]
           ELSE worker[c]]
    /\ lock' = {}
    /\ UNCHANGED <<project, resources, req, process, history>>

Worker(b) ==
    \/ Load(b) \/ Clone(b) \/ Install(b) \/ CreateDatabase(b) \/ InitModules(b)
    \/ SetPassword(b) \/ Launch(b) \/ HealthCheck(b) \/ SetStatus(b)
    \/ CleanupContainers(b) \/ WriteFinal(b) \/ WorkerKick(b) \/ WorkerClaim(b)

------------------------------------------------------------------------------
(* Request handlers.  A request that its guards turn down changes nothing  *)
(* and is not a step; one that is accepted holds the copy it loaded.       *)

HandlerAt(h, op, pc) == req[h].op = op /\ req[h].pc = pc

Proceed(h, pc)  == req' = [req EXCEPT ![h].pc = pc]
Respond(h)      == req' = [req EXCEPT ![h] = Idle]
Wrote(h, pc, r) == req' = [req EXCEPT ![h].pc = pc, ![h].seen = r]
ToKick(h)       == req' = [req EXCEPT ![h] = [Idle EXCEPT !.pc = "kick"]]
Touch(b)        == touched' = touched \cup {b} /\ UNCHANGED realloc

Accept(h, op, b, pc) ==
    /\ up /\ op \in Ops /\ req[h] = Idle
    /\ req' = [req EXCEPT ![h] =
           [Idle EXCEPT !.op = op, !.pc = pc, !.build = b, !.seen = row[b]]]
    /\ UNCHANGED <<row, project, resources, worker, lock, process, history>>

(* create_build_record, for a manual build, a rebuild or a push: the       *)
(* number is read first, the port second, and both are inserted last.      *)
Creating == {h \in Handlers : req[h].op = "create" /\ req[h].pc \in {"port", "insert"}}

CreateNumber(h, p) ==
    /\ up /\ "create" \in Ops /\ req[h] = Idle
    /\ Cardinality(Inserted) + Cardinality(Creating) < MaxBuilds
    /\ req' = [req EXCEPT ![h] =
           [Idle EXCEPT !.op = "create", !.pc = "port", !.proj = p,
                        !.number = next_build_number(p)]]
    /\ UNCHANGED <<row, project, resources, worker, lock, process, history>>

CreatePort(h) ==
    /\ HandlerAt(h, "create", "port")
    /\ \/ \E p \in allocate_port :
              req' = [req EXCEPT ![h].pc = "insert", ![h].port = p]
       \/ Respond(h)
    /\ UNCHANGED <<row, project, resources, worker, lock, process, history>>

(* INSERT: the row gets the next primary key. *)
Insert(h, b) ==
    /\ \A c \in Builds \ Inserted : b <= c
    /\ row' = [row EXCEPT ![b] =
           [status |-> "queued", cancel |-> FALSE, port |-> req[h].port]]
    /\ project' = [project EXCEPT ![b] = req[h].proj]
    /\ req' = [req EXCEPT ![h] =
           [Idle EXCEPT !.op = "create", !.pc = "enqueue", !.build = b]]

(* Mutant: no unique constraint on (project_id, build_number). *)
CreateAnyNumber(h) ==
    /\ HandlerAt(h, "create", "insert")
    /\ \E b \in Builds \ Inserted : Insert(h, b)
    /\ UNCHANGED <<resources, worker, lock, process, history>>

(* uq_project_build_number turns a number that was taken since into an     *)
(* IntegrityError, which fails the request.                                *)
CreateInsert(h) ==
    /\ HandlerAt(h, "create", "insert")
    /\ \/ /\ req[h].number = next_build_number(req[h].proj)
          /\ \E b \in Builds \ Inserted : Insert(h, b)
       \/ /\ req[h].number # next_build_number(req[h].proj)
          /\ Respond(h)
          /\ UNCHANGED <<row, project>>
    /\ UNCHANGED <<resources, worker, lock, process, history>>

(* POST /internal/builds/{id}/execute goes straight to the claim. *)
ExecuteBegin(h, b) == b \in Inserted /\ Accept(h, "execute", b, "enqueue")

Enqueue(h) ==
    /\ req[h].pc = "enqueue"
    /\ lock = {}
    /\ lock' = EnqueuePicks(req[h].build)
    /\ IF EnqueuePicks(req[h].build) = {} THEN Respond(h) ELSE Proceed(h, "claim")
    /\ UNCHANGED <<row, project, resources, worker, process, history>>

HandlerKick(h) ==
    /\ req[h].pc = "kick"
    /\ lock = {}
    /\ lock' = KickPicks
    /\ IF KickPicks = {} THEN Respond(h) ELSE Proceed(h, "claim")
    /\ UNCHANGED <<row, project, resources, worker, process, history>>

HandlerClaim(h) ==
    /\ req[h].pc = "claim"
    /\ ClaimRows
    /\ worker' = [c \in Builds |-> IF c \in lock THEN Started ELSE worker[c]]
    /\ lock' = {}
    /\ Respond(h)
    /\ UNCHANGED <<project, resources, process, history>>

(* cancel_build: a queued build is cancelled here, for the others a flag   *)
(* is left for the pipeline and the container is taken away from it.       *)
CancelBegin(h, b) ==
    row[b].status \in CANCELABLE_STATUSES /\ Accept(h, "cancel", b, "write")

CancelWrite(h) ==
    /\ HandlerAt(h, "cancel", "write")
    /\ LET b == req[h].build  seen == req[h].seen IN
       /\ \/ /\ seen.status = "queued"
             /\ Commit(b, seen, AsCancelled(seen))
             /\ ToKick(h)
          \/ /\ seen.status # "queued"
             /\ Commit(b, seen, AsCancelRequested(seen))
             /\ Proceed(h, "cleanup")
       /\ Touch(b)
    /\ UNCHANGED <<project, resources, worker, lock, process>>

CancelCleanup(h) ==
    /\ HandlerAt(h, "cancel", "cleanup")
    /\ Remove(req[h].build)
    /\ Respond(h)
    /\ UNCHANGED <<row, project, databases, workspaces, worker, lock, process, history>>

(* stop_build; an error of docker ends the request with the row stopping. *)
StopBegin(h, b) == row[b].status = "running" /\ Accept(h, "stop", b, "write")

StopWrite(h) ==
    /\ HandlerAt(h, "stop", "write")
    /\ LET b == req[h].build  seen == req[h].seen IN
       /\ Commit(b, seen, WithStatus(seen, "stopping"))
       /\ Wrote(h, "dockerStop", row'[b])
    /\ UNCHANGED <<project, resources, worker, lock, process, history>>

StopContainer(h) ==
    /\ HandlerAt(h, "stop", "dockerStop")
    /\ LET b == req[h].build IN
       \/ /\ main' = [main EXCEPT ![b] = IF @.state = "up" THEN Exited ELSE @]
          /\ Proceed(h, "stopped")
       \/ UNCHANGED main /\ Respond(h)
    /\ UNCHANGED <<row, project, databases, workspaces, worker, lock, process, history>>

StopWritten(h) ==
    /\ HandlerAt(h, "stop", "stopped")
    /\ Commit(req[h].build, req[h].seen, WithStatus(req[h].seen, "stopped"))
    /\ ToKick(h)
    /\ UNCHANGED <<project, resources, worker, lock, process, history>>

(* delete_build: containers, database and workspace, then the tombstone. *)
DeleteBegin(h, b) ==
    row[b].status \notin {"none", "deleted"} /\ Accept(h, "delete", b, "resources")

DeleteResources(h) ==
    /\ HandlerAt(h, "delete", "resources")
    /\ LET b == req[h].build IN
       /\ Remove(b)
       /\ \/ databases' = databases \ {b}
          \/ RemovalFaults /\ UNCHANGED databases
       /\ workspaces' = workspaces \ {b}
       /\ Touch(b)
    /\ Proceed(h, "write")
    /\ UNCHANGED <<row, project, worker, lock, process>>

DeleteWrite(h) ==
    /\ HandlerAt(h, "delete", "write")
    /\ Commit(req[h].build, req[h].seen, AsDeleted(req[h].seen))
    /\ ToKick(h)
    /\ UNCHANGED <<project, resources, worker, lock, process, history>>

------------------------------------------------------------------------------
(* restart_build: the pipeline from the launch on, run by the handler      *)
(* itself, outside the capacity check and without watching for cancel.     *)

RestartBegin(h, b) ==
    /\ row[b].status = "stopped" /\ b \in workspaces /\ b \in databases
    /\ Accept(h, "restart", b, IF row[b].port = NoPort THEN "realloc" ELSE "write")

RestartPort(h) ==
    /\ HandlerAt(h, "restart", "realloc")
    /\ LET b == req[h].build  seen == req[h].seen IN
       \/ \E p \in allocate_port :
             /\ Commit(b, seen, [seen EXCEPT !.port = p])
             /\ Wrote(h, "write", row'[b])
             /\ realloc' = realloc \cup {b} /\ UNCHANGED touched
       \/ Respond(h) /\ UNCHANGED <<row, history>>
    /\ UNCHANGED <<project, resources, worker, lock, process>>

RestartWrite(h) ==
    /\ HandlerAt(h, "restart", "write")
    /\ LET b == req[h].build  seen == req[h].seen IN
       \/ /\ b \in workspaces
          /\ Commit(b, seen, WithStatus(seen, "starting_odoo"))
          /\ Wrote(h, "relaunch", row'[b])
          /\ Touch(b)
       \/ b \notin workspaces /\ Respond(h) /\ UNCHANGED <<row, history>>
    /\ UNCHANGED <<project, resources, worker, lock, process>>

RestartLaunch(h) ==
    /\ HandlerAt(h, "restart", "relaunch")
    /\ LET b == req[h].build IN
       \/ RunMain(b, req[h].seen.port) /\ Proceed(h, "toHealth")
       \/ Remove(b) /\ Proceed(h, "failCleanup")
    /\ UNCHANGED <<row, project, databases, workspaces, worker, lock, process, history>>

RestartToHealth(h) ==
    /\ HandlerAt(h, "restart", "toHealth")
    /\ Commit(req[h].build, req[h].seen, WithStatus(req[h].seen, "health_check"))
    /\ Wrote(h, "health", row'[req[h].build])
    /\ UNCHANGED <<project, resources, worker, lock, process, history>>

RestartHealth(h) ==
    /\ HandlerAt(h, "restart", "health")
    /\ \/ AnswersHttp(req[h].build, req[h].seen.port) /\ Proceed(h, "toRunning")
       \/ Proceed(h, "failCleanup")
    /\ UNCHANGED <<row, project, resources, worker, lock, process, history>>

(* The restarted build runs; the queue is not looked at. *)
RestartToRunning(h) ==
    /\ HandlerAt(h, "restart", "toRunning")
    /\ Commit(req[h].build, req[h].seen, WithStatus(req[h].seen, "running"))
    /\ Respond(h)
    /\ UNCHANGED <<project, resources, worker, lock, process, history>>

RestartFailCleanup(h) ==
    /\ HandlerAt(h, "restart", "failCleanup")
    /\ Remove(req[h].build)
    /\ Proceed(h, "failWrite")
    /\ UNCHANGED <<row, project, databases, workspaces, worker, lock, process, history>>

RestartFailWrite(h) ==
    /\ HandlerAt(h, "restart", "failWrite")
    /\ Commit(req[h].build, req[h].seen, AsFailed(req[h].seen))
    /\ ToKick(h)
    /\ UNCHANGED <<project, resources, worker, lock, process, history>>

(* A user sends a request that is accepted. *)
Request(h) ==
    \/ \E p \in Projects : CreateNumber(h, p)
    \/ \E b \in Builds : \/ ExecuteBegin(h, b) \/ CancelBegin(h, b) \/ StopBegin(h, b)
                         \/ RestartBegin(h, b) \/ DeleteBegin(h, b)

(* The server works on a request it has accepted. *)
Serve(h) ==
    \/ CreatePort(h) \/ CreateInsert(h) \/ Enqueue(h) \/ HandlerKick(h) \/ HandlerClaim(h)
    \/ CancelWrite(h) \/ CancelCleanup(h)
    \/ StopWrite(h) \/ StopContainer(h) \/ StopWritten(h)
    \/ DeleteResources(h) \/ DeleteWrite(h)
    \/ RestartPort(h) \/ RestartWrite(h) \/ RestartLaunch(h) \/ RestartToHealth(h)
    \/ RestartHealth(h) \/ RestartToRunning(h) \/ RestartFailCleanup(h)
    \/ RestartFailWrite(h)

------------------------------------------------------------------------------
(* The process.  A crash loses every thread and may take containers with   *)
(* it (their restart policy is "no").                                      *)

Crash ==
    /\ up /\ crashes < MaxCrashes
    /\ up' = FALSE
    /\ crashes' = crashes + 1
    /\ worker' = [b \in Builds |-> NoWorker]
    /\ req' = [h \in Handlers |-> Idle]
    /\ lock' = {}
    /\ \E dead \in SUBSET {b \in Builds : main[b].state = "up"} :
          main' = [b \in Builds |-> IF b \in dead THEN Exited ELSE main[b]]
    /\ UNCHANGED <<row, project, databases, workspaces, history>>

Interrupted == {b \in Builds :
    row[b].status \in EXECUTING_BUILD_STATUSES \cup {"cancel_requested"}}

(* Running rows whose container the startup finds up, on a known port. *)
Reachable == {b \in Builds : /\ row[b].status = "running" /\ row[b].port # NoPort
                             /\ main[b].state = "up"}

(* Mutant: running rows are believed. *)
UnhealthyNone(healthy) == {}

(* Those of them that do not answer within the probe's 15 seconds fail too. *)
Unhealthy(healthy) == {b \in Builds : row[b].status = "running"} \ healthy

(* reconcile_builds_on_startup; the requests come after it. *)
Boot ==
    /\ ~up
    /\ \E healthy \in SUBSET Reachable :
       LET unhealthy == Unhealthy(healthy)
           picks     == FirstQueued(Queued, MaxConcurrent)
       IN  /\ row' = [b \in Builds |->
                  IF b \in Interrupted THEN [AsFailed(row[b]) EXCEPT !.cancel = FALSE]
                  ELSE IF b \in unhealthy THEN AsFailed(row[b])
                  ELSE IF b \in picks THEN WithStatus(row[b], "cloning")
                  ELSE row[b]]
           /\ worker' = [b \in Builds |-> IF b \in picks THEN Started ELSE worker[b]]
           /\ \E gone \in SUBSET (Interrupted \cup unhealthy) :
                 /\ gone = Interrupted \cup unhealthy \/ RemovalFaults
                 /\ main' = [b \in Builds |-> IF b \in gone THEN Absent ELSE main[b]]
    /\ up' = TRUE
    /\ UNCHANGED <<project, databases, workspaces, req, lock, history, crashes>>

------------------------------------------------------------------------------
Init ==
    /\ row = [b \in Builds |-> NoRow]
    /\ project = [b \in Builds |-> "none"]
    /\ main = [b \in Builds |-> Absent]
    /\ databases = {} /\ workspaces = {}
    /\ worker = [b \in Builds |-> NoWorker]
    /\ req = [h \in Handlers |-> Idle]
    /\ lock = {}
    /\ up = TRUE
    /\ touched = {} /\ realloc = {}
    /\ crashes = 0

Next ==
    \/ \E b \in Builds : Worker(b)
    \/ \E h \in Handlers : Request(h) \/ Serve(h)
    \/ Crash
    \/ Boot

Spec == Init /\ [][Next]_vars

(* Threads that were started run, and the supervisor restarts the process; *)
(* no user ever has to send a request.                                     *)
Fairness ==
    /\ \A b \in Builds : WF_vars(Worker(b))
    /\ \A h \in Handlers : WF_vars(Serve(h))
    /\ WF_vars(Boot)

FairSpec == Spec /\ Fairness

------------------------------------------------------------------------------
(* Properties.                                                             *)

(* The state of the engine stays within its types. *)
TypeOK ==
    /\ row \in [Builds -> Rows]
    /\ project \in [Builds -> Projects \cup {"none"}]
    /\ main \in [Builds -> MainStates]
    /\ databases \subseteq Builds /\ workspaces \subseteq Builds
    /\ worker \in [Builds -> Workers]
    /\ req \in [Handlers -> Requests]
    /\ lock \subseteq Builds
    /\ up \in BOOLEAN
    /\ touched \subseteq Builds /\ realloc \subseteq Builds
    /\ crashes \in 0 .. MaxCrashes

(* A restart of build b that has put the row back into an executing status. *)
Restarting(b) == \E h \in Handlers :
    req[h].op = "restart" /\ req[h].build = b /\ req[h].pc \in RESTART_PCS

(* A slot is never leaked: while the process is up, a row that counts      *)
(* against MAX_CONCURRENT_BUILDS has a thread that will still write its    *)
(* final status, however cancels, deletes, stops, restarts, failures and   *)
(* crashes interleave with the pipeline.                                   *)
ExecutingHasThread ==
    up => \A b \in Executing : worker[b].pc \in PIPELINE_PCS \/ Restarting(b)

(* Claims never admit more than MAX_CONCURRENT_BUILDS pipelines: executing *)
(* builds that no operator cancelled, deleted or restarted fit the limit,  *)
(* although the count is read before the claimed rows are written.         *)
ClaimsWithinCapacity ==
    Cardinality(Executing \ touched) <= MaxConcurrent

(* Two builds of one project never hold one port, although the port is     *)
(* read long before it is inserted: a concurrent insert makes the number   *)
(* stale too.  A port that restart_build allocated again is not covered.   *)
ProjectPortsDistinct ==
    \A b, c \in Builds :
        (/\ b # c /\ project[b] = project[c]
         /\ row[b].port # NoPort /\ row[b].port = row[c].port)
        => realloc \cap {b, c} # {}

(* A running build that no operator interfered with is served: its         *)
(* container is up on the port its row shows, after a reboot as well.      *)
RunningIsServed ==
    up => \A b \in Builds :
        row[b].status = "running" /\ b \notin touched => main[b] = UpOn(row[b].port)

(* Every queued build is claimed (or cancelled, or deleted) in the end:    *)
(* each thread that frees a slot kicks the queue.                          *)
QueuedStarts ==
    \A b \in Builds : (row[b].status = "queued") ~> (row[b].status # "queued")

(* The log line of cancel_build: "pipeline will finish as cancelled": when *)
(* the pipeline of a build with the flag set is over, it is cancelled.     *)
CancelFinishes ==
    up => \A b \in Builds :
        /\ row[b].cancel /\ worker[b].pc \in TAIL_PCS
        => row[b].status \in {"cancelled", "deleted"}
==============================================================================
