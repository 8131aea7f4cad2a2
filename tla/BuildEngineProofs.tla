--------------------------- MODULE BuildEngineProofs ---------------------------
(***************************************************************************)
(* Proofs about BuildEngine, for any number of builds, handlers, projects, *)
(* ports, slots and crashes, with and without refused removals.            *)
(***************************************************************************)
EXTENDS BuildEngine, FiniteSetTheorems, WellFoundedInduction, TLAPS

(* What a row may show while its pipeline has not ended. *)
Live == EXECUTING_BUILD_STATUSES \cup {"cancel_requested", "cancelled", "deleted"}

(* Without a process there are no threads. *)
DownIsQuiet ==
    ~up => /\ worker = [b \in Builds |-> NoWorker]
           /\ req = [h \in Handlers |-> Idle]
           /\ lock = {}

(* A pipeline that has not ended works on a row that is live, and so was   *)
(* the copy it holds: its final status differs from that of the copy, so   *)
(* the ORM does write it.                                                  *)
PipelineRow ==
    \A b \in Builds : worker[b].pc \in PIPELINE_PCS =>
        /\ row[b].status \in Live
        /\ b \notin lock
        /\ worker[b].pc # "start" => worker[b].seen.status \in Live

(* The one final write the ORM may skip finds the row out of the count. *)
SkippedCancel ==
    \A b \in Builds :
        (/\ worker[b].pc \in {"finCleanup", "finWrite"}
         /\ worker[b].seen.status = "cancelled")
        => row[b].status \notin EXECUTING_BUILD_STATUSES

(* A picked row has at most been cancelled or deleted since. *)
PickedRow == \A b \in lock : row[b].status \in {"queued", "cancelled", "deleted"}

(* b has left the queue for good. *)
Left(b) == row[b].status \notin {"none", "queued"} /\ b \notin lock

(* The pipeline of b is over for good. *)
Settled(b) == Left(b) /\ worker[b].pc \in TAIL_PCS

(* What a handler knows of the build it works on. *)
HandlerKnows ==
    \A h \in Handlers :
        /\ req[h].op \in {"cancel", "stop", "restart", "delete"}
               => req[h].build \in Builds /\ row[req[h].build].status # "none"
        /\ req[h].pc \in {"enqueue", "kick", "claim"}
               => req[h].op \in {"none", "create", "execute"}
        /\ req[h].op \in {"stop", "restart"} => Settled(req[h].build)
        /\ (/\ req[h].op = "cancel" /\ req[h].pc = "write"
            /\ req[h].seen.status # "queued")
               => Left(req[h].build)

(* The thread behind a counted row knows that the row is counted. *)
Backed(b) == \E h \in Handlers :
    /\ req[h].op = "restart" /\ req[h].build = b /\ req[h].pc \in RESTART_PCS
    /\ req[h].seen.status \in EXECUTING_BUILD_STATUSES

CountedIsBacked ==
    up => \A b \in Executing : worker[b].pc \in PIPELINE_PCS \/ Backed(b)

SlotInv ==
    /\ TypeOK /\ DownIsQuiet /\ PipelineRow /\ SkippedCancel /\ PickedRow
    /\ HandlerKnows /\ CountedIsBacked

------------------------------------------------------------------------------
(* Facts about the operators of the model.                                 *)

(* Rows of any build are of finitely many builds, so counts are naturals. *)
LEMMA CountIsNat ==
    ASSUME NEW S, S \subseteq Builds
    PROVE  Cardinality(S) \in Nat
<1>1. IsFiniteSet(Builds)
  BY BuildAssumption, FS_Interval DEF Builds
<1>2. IsFiniteSet(S)
  BY <1>1, FS_Subset
<1> QED  BY <1>2, FS_CardinalityType

(* A commit writes a row, and its status is the new one or the current one. *)
LEMMA FlushRow ==
    ASSUME NEW now \in Rows, NEW seen \in Rows, NEW new \in Rows
    PROVE  /\ Flush(now, seen, new) \in Rows
           /\ Flush(now, seen, new).status \in {now.status, new.status}
           /\ new.status # seen.status => Flush(now, seen, new).status = new.status
           /\ new.status = seen.status => Flush(now, seen, new).status = now.status
BY DEF Rows, Flush, Merge

(* Each value the engine writes into a row is a row with the status it is  *)
(* named for.                                                              *)
LEMMA NewRow ==
    ASSUME NEW r \in Rows
    PROVE  /\ \A s \in Statuses : /\ WithStatus(r, s) \in Rows
                                  /\ WithStatus(r, s).status = s
           /\ AsFailed(r) \in Rows /\ AsFailed(r).status = "failed"
           /\ AsCancelled(r) \in Rows /\ AsCancelled(r).status = "cancelled"
           /\ AsDeleted(r) \in Rows /\ AsDeleted(r).status = "deleted"
           /\ AsCancelRequested(r) \in Rows
           /\ AsCancelRequested(r).status = "cancel_requested"
BY DEF Rows, WithStatus, AsFailed, AsCancelled, AsDeleted, AsCancelRequested,
       Statuses, NoPort

(* The constants of the model are of their types. *)
LEMMA Constants ==
    /\ NoRow \in Rows
    /\ NoWorker \in Workers
    /\ Started \in Workers
    /\ Absent \in MainStates /\ Exited \in MainStates
    /\ \A p \in Ports \cup {NoPort} : UpOn(p) \in MainStates
BY DEF NoRow, Rows, Statuses, NoPort, NoWorker, Started, Workers, WorkerPcs, PIPELINE_PCS,
       TAIL_PCS, Absent, Exited, UpOn, MainStates

LEMMA IdleRequest == Idle \in Requests
BY Constants DEF Idle, Requests, HandlerPcs, RESTART_PCS, NoPort

(* Reserved ports are not handed out, and what is handed out is a port. *)
LEMMA AllocatedPort == allocate_port \subseteq Ports \ active_ports
BY DEF allocate_port

------------------------------------------------------------------------------
(* Type correctness.                                                       *)

LEMMA TypeInit == Init => TypeOK
BY BuildAssumption, Constants, IdleRequest DEF Init, TypeOK, Requests

(* The types, conjunct by conjunct, so that a step only cites what it uses. *)
LEMMA TypeWorker ==
    ASSUME TypeOK, NEW b \in Builds, Worker(b)
    PROVE  TypeOK'
<1> USE Constants DEF TypeOK
<1>0. /\ row[b] \in Rows /\ worker[b] \in Workers /\ worker[b].seen \in Rows
      /\ worker[b].seen.port \in Ports \cup {NoPort}
      /\ row \in [Builds -> Rows] /\ worker \in [Builds -> Workers]
  BY DEF Workers, Rows
<1>1. ASSUME NEW pc \in WorkerPcs, CheckCancel(b, pc) \/ Goto(b, pc)
      PROVE  worker' \in [Builds -> Workers]
  BY <1>0, <1>1 DEF CheckCancel, Goto, Workers, WorkerPcs, PIPELINE_PCS
<1>2. ASSUME NEW seen \in Rows, NEW new \in Rows, Commit(b, seen, new)
      PROVE  row' \in [Builds -> Rows]
  BY <1>0, <1>2, FlushRow DEF Commit
<1>3. Remove(b) => main' \in [Builds -> MainStates]
  BY DEF Remove
<1>4. CASE Load(b)
  <2>1. CASE Commit(b, row[b], WithStatus(row[b], "cloning"))
    <3>1. row' \in [Builds -> Rows]
      BY <1>0, <1>2, <2>1, NewRow DEF Statuses, EXECUTING_BUILD_STATUSES
    <3>2. worker' \in [Builds -> Workers]
      BY <1>4, <1>0, <3>1 DEF Load, Workers, WorkerPcs, PIPELINE_PCS, TAIL_PCS
    <3> QED  BY <3>1, <3>2, <1>4 DEF Load, resources, process, history
  <2>2. CASE UNCHANGED row
    <3>2. worker' \in [Builds -> Workers]
      BY <1>4, <1>0, <2>2 DEF Load, Workers, WorkerPcs, PIPELINE_PCS, TAIL_PCS
    <3> QED  BY <3>2, <2>2, <1>4 DEF Load, resources, process, history
  <2> QED  BY <2>1, <2>2, <1>4 DEF Load
<1>5. CASE Clone(b)
  <2>1. worker' \in [Builds -> Workers]
    BY <1>1, <1>5 DEF Clone, WorkerPcs, PIPELINE_PCS, WRITE_PCS
  <2> QED  BY <2>1, <1>5 DEF Clone, resources, process, history
<1>6. CASE Install(b)
  <2>1. worker' \in [Builds -> Workers]
    BY <1>1, <1>6 DEF Install, WorkerPcs, PIPELINE_PCS, WRITE_PCS
  <2> QED  BY <2>1, <1>6 DEF Install, resources, process, history
<1>7. CASE CreateDatabase(b)
  <2>1. worker' \in [Builds -> Workers]
    BY <1>1, <1>7 DEF CreateDatabase, WorkerPcs, PIPELINE_PCS, WRITE_PCS
  <2> QED  BY <2>1, <1>7 DEF CreateDatabase, resources, process, history
<1>8. CASE InitModules(b)
  <2>1. worker' \in [Builds -> Workers]
    BY <1>1, <1>8 DEF InitModules, WorkerPcs, PIPELINE_PCS, WRITE_PCS
  <2> QED  BY <2>1, <1>8 DEF InitModules, resources, process, history
<1>9. CASE SetPassword(b)
  <2>1. worker' \in [Builds -> Workers]
    BY <1>1, <1>9 DEF SetPassword, WorkerPcs, PIPELINE_PCS, WRITE_PCS
  <2> QED  BY <2>1, <1>9 DEF SetPassword, resources, process, history
<1>10. CASE Launch(b)
  <2>1. worker' \in [Builds -> Workers]
    BY <1>1, <1>10 DEF Launch, WorkerPcs, PIPELINE_PCS, WRITE_PCS
  <2>2. main' \in [Builds -> MainStates]
    BY <1>0, <1>3, <1>10 DEF Launch, RunMain
  <2> QED  BY <2>1, <2>2, <1>10 DEF Launch, process, history
<1>11. CASE HealthCheck(b)
  <2>1. worker' \in [Builds -> Workers]
    BY <1>1, <1>11 DEF HealthCheck, WorkerPcs, PIPELINE_PCS, WRITE_PCS
  <2> QED  BY <2>1, <1>11 DEF HealthCheck, resources, process, history
<1>12. CASE SetStatus(b)
  <2>1. StatusOf[worker[b].pc] \in Statuses /\ PcAfter[worker[b].pc] \in WorkerPcs
    BY <1>12 DEF SetStatus, WRITE_PCS, StatusOf, PcAfter, Statuses,
                 EXECUTING_BUILD_STATUSES, WorkerPcs, PIPELINE_PCS, TAIL_PCS
  <2>2. row' \in [Builds -> Rows]
    BY <1>0, <1>2, <2>1, <1>12, NewRow DEF SetStatus
  <2>3. worker' \in [Builds -> Workers]
    BY <1>0, <2>1, <2>2, <1>12 DEF SetStatus, Workers
  <2> QED  BY <2>2, <2>3, <1>12 DEF SetStatus, resources, process, history
<1>13. CASE CleanupContainers(b)
  <2>1. worker' \in [Builds -> Workers]
    BY <1>1, <1>13 DEF CleanupContainers, WorkerPcs, PIPELINE_PCS
  <2> QED  BY <2>1, <1>3, <1>13 DEF CleanupContainers, process, history
<1>14. CASE WriteFinal(b)
  <2>1. row' \in [Builds -> Rows]
    BY <1>0, <1>2, <1>14, NewRow DEF WriteFinal
  <2>2. worker' \in [Builds -> Workers]
    BY <1>0, <1>14 DEF WriteFinal, Workers, WorkerPcs, TAIL_PCS
  <2> QED  BY <2>1, <2>2, <1>14 DEF WriteFinal, resources, process, history
<1>15. CASE WorkerKick(b)
  <2>1. worker' \in [Builds -> Workers]
    BY <1>1, <1>15 DEF WorkerKick, NextPc, ClaimPc, WorkerPcs, TAIL_PCS
  <2>2. lock' \subseteq Builds
    BY <1>15 DEF WorkerKick, KickPicks, FirstQueued, Queued
  <2> QED  BY <2>1, <2>2, <1>15 DEF WorkerKick, resources, process, history
<1>16. CASE WorkerClaim(b)
  <2>1. row' \in [Builds -> Rows]
    BY <1>0, <1>16 DEF WorkerClaim, ClaimRows, Rows, Statuses, EXECUTING_BUILD_STATUSES
  <2>2. worker' \in [Builds -> Workers]
    BY <1>0, <1>16 DEF WorkerClaim, NextPc, Workers, WorkerPcs, TAIL_PCS
  <2> QED  BY <2>1, <2>2, <1>16 DEF WorkerClaim, resources, process, history
<1> QED
  BY <1>4, <1>5, <1>6, <1>7, <1>8, <1>9, <1>10, <1>11, <1>12, <1>13, <1>14,
     <1>15, <1>16 DEF Worker

LEMMA TypeRequest ==
    ASSUME TypeOK, NEW h \in Handlers, Request(h)
    PROVE  TypeOK'
<1> USE DEF TypeOK
<1>1. ASSUME NEW op, NEW b \in Builds, NEW pc \in HandlerPcs, Accept(h, op, b, pc)
      PROVE  TypeOK'
  <2>1. row[b] \in Rows
    OBVIOUS
  <2>2. req' \in [Handlers -> Requests]
    BY <1>1, <2>1, IdleRequest DEF Accept, Requests
  <2> QED  BY <1>1, <2>2 DEF Accept, resources, process, history
<1>2. CASE \E p \in Projects : CreateNumber(h, p)
  <2> PICK p \in Projects : CreateNumber(h, p)
    BY <1>2
  <2>1. next_build_number(p) \in Nat
    BY CountIsNat DEF next_build_number, Inserted
  <2>2. req' \in [Handlers -> Requests]
    BY <2>1, IdleRequest DEF CreateNumber, Requests, HandlerPcs
  <2> QED  BY <2>2 DEF CreateNumber, resources, process, history
<1>3. CASE \E b \in Builds : \/ ExecuteBegin(h, b) \/ CancelBegin(h, b) \/ StopBegin(h, b)
                             \/ RestartBegin(h, b) \/ DeleteBegin(h, b)
  BY <1>1, <1>3 DEF ExecuteBegin, CancelBegin, StopBegin, RestartBegin, DeleteBegin,
                    HandlerPcs
<1> QED  BY <1>2, <1>3 DEF Request

LEMMA TypeServe ==
    ASSUME TypeOK, HandlerKnows, NEW h \in Handlers, Serve(h)
    PROVE  TypeOK'
<1> USE Constants, IdleRequest DEF TypeOK
<1> DEFINE b == req[h].build
           seen == req[h].seen
<1>0. /\ req[h] \in Requests /\ seen \in Rows /\ req \in [Handlers -> Requests]
      /\ seen.port \in Ports \cup {NoPort} /\ row \in [Builds -> Rows]
  BY DEF Requests, Rows
<1>1. /\ \A pc \in HandlerPcs : Proceed(h, pc) => req' \in [Handlers -> Requests]
      /\ Respond(h) => req' \in [Handlers -> Requests]
      /\ ToKick(h) => req' \in [Handlers -> Requests]
  BY <1>0 DEF Proceed, Respond, ToKick, Requests, HandlerPcs
<1>2. ASSUME NEW pc \in HandlerPcs, NEW r \in Rows, Wrote(h, pc, r)
      PROVE  req' \in [Handlers -> Requests]
  BY <1>0, <1>2 DEF Wrote, Requests
<1>3. ASSUME NEW new \in Rows, b \in Builds, Commit(b, seen, new)
      PROVE  row' \in [Builds -> Rows] /\ row'[b] \in Rows
  BY <1>0, <1>3, FlushRow DEF Commit
<1>4. Remove(b) => main' \in [Builds -> MainStates]
  BY DEF Remove
<1>5. req[h].op \in {"cancel", "stop", "restart", "delete"} => b \in Builds
  BY DEF HandlerKnows
<1>6. b \in Builds /\ touched' = touched \cup {b} => touched' \subseteq Builds
  OBVIOUS
<1>7. \A s \in Statuses : WithStatus(seen, s) \in Rows
  BY <1>0, NewRow
<1> HIDE DEF b, seen
<1>10. CASE CreatePort(h)
  <2>1. req' \in [Handlers -> Requests]
    BY <1>0, <1>1, <1>10, AllocatedPort DEF CreatePort, Requests, HandlerPcs
  <2> QED  BY <2>1, <1>10 DEF CreatePort, resources, process, history
<1>11. CASE CreateInsert(h)
  <2>1. CASE Respond(h) /\ UNCHANGED <<row, project>>
    BY <1>1, <2>1, <1>11 DEF CreateInsert, resources, process, history
  <2>2. CASE \E c \in Builds \ Inserted : Insert(h, c)
    <3> PICK c \in Builds \ Inserted : Insert(h, c)
      BY <2>2
    <3>1. row' \in [Builds -> Rows]
      BY <1>0 DEF Insert, Rows, Statuses, Requests
    <3>2. project' \in [Builds -> Projects \cup {"none"}]
      BY <1>0 DEF Insert, Requests
    <3>3. "create" \in Ops
      BY <1>0, <1>11 DEF CreateInsert, HandlerAt, Requests
    <3>4. req' \in [Handlers -> Requests]
      BY <1>0, <3>3 DEF Insert, Requests, HandlerPcs
    <3> QED  BY <3>1, <3>2, <3>4, <1>11 DEF CreateInsert, resources, process, history
  <2> QED  BY <2>1, <2>2, <1>11 DEF CreateInsert
<1>12. CASE Enqueue(h)
  <2>1. req' \in [Handlers -> Requests]
    BY <1>1, <1>12 DEF Enqueue, HandlerPcs
  <2>2. lock' \subseteq Builds
    BY <1>12 DEF Enqueue, EnqueuePicks, Queued
  <2> QED  BY <2>1, <2>2, <1>12 DEF Enqueue, resources, process, history
<1>13. CASE HandlerKick(h)
  <2>1. req' \in [Handlers -> Requests]
    BY <1>1, <1>13 DEF HandlerKick, HandlerPcs
  <2>2. lock' \subseteq Builds
    BY <1>13 DEF HandlerKick, KickPicks, FirstQueued, Queued
  <2> QED  BY <2>1, <2>2, <1>13 DEF HandlerKick, resources, process, history
<1>14. CASE HandlerClaim(h)
  <2>1. row' \in [Builds -> Rows]
    BY <1>0, <1>14 DEF HandlerClaim, ClaimRows, Rows, Statuses, EXECUTING_BUILD_STATUSES
  <2>2. worker' \in [Builds -> Workers]
    BY <1>14 DEF HandlerClaim
  <2> QED  BY <1>1, <2>1, <2>2, <1>14 DEF HandlerClaim, resources, process, history
<1>15. CASE CancelWrite(h)
  <2>1. b \in Builds
    BY <1>5, <1>15 DEF CancelWrite, HandlerAt
  <2>2. row' \in [Builds -> Rows]
    BY <1>0, <1>3, <2>1, <1>15, NewRow DEF CancelWrite, b, seen
  <2>3. req' \in [Handlers -> Requests]
    BY <1>1, <1>15 DEF CancelWrite, HandlerPcs
  <2>4. touched' \subseteq Builds /\ realloc' \subseteq Builds
    BY <1>6, <2>1, <1>15 DEF CancelWrite, Touch, b
  <2> QED  BY <2>2, <2>3, <2>4, <1>15 DEF CancelWrite, resources, process
<1>16. CASE CancelCleanup(h)
  BY <1>1, <1>4, <1>16 DEF CancelCleanup, b, process, history
<1>17. CASE StopWrite(h)
  <2>1. b \in Builds
    BY <1>5, <1>17 DEF StopWrite, HandlerAt
  <2>2. row' \in [Builds -> Rows] /\ row'[b] \in Rows
    BY <1>3, <1>7, <2>1, <1>17 DEF StopWrite, b, seen, Statuses
  <2>3. req' \in [Handlers -> Requests]
    BY <1>2, <2>2, <1>17 DEF StopWrite, HandlerPcs, b
  <2> QED  BY <2>2, <2>3, <1>17 DEF StopWrite, resources, process, history
<1>18. CASE StopContainer(h)
  <2>1. req' \in [Handlers -> Requests]
    BY <1>1, <1>18 DEF StopContainer, HandlerPcs
  <2>2. main' \in [Builds -> MainStates]
    BY <1>18 DEF StopContainer
  <2> QED  BY <2>1, <2>2, <1>18 DEF StopContainer, process, history
<1>19. CASE StopWritten(h)
  <2>1. b \in Builds
    BY <1>5, <1>19 DEF StopWritten, HandlerAt
  <2>2. row' \in [Builds -> Rows]
    BY <1>3, <1>7, <2>1, <1>19 DEF StopWritten, b, seen, Statuses
  <2> QED  BY <1>1, <2>2, <1>19 DEF StopWritten, resources, process, history
<1>20. CASE DeleteResources(h)
  <2>1. b \in Builds
    BY <1>5, <1>20 DEF DeleteResources, HandlerAt
  <2>2. main' \in [Builds -> MainStates]
    BY <1>4, <1>20 DEF DeleteResources, b
  <2>3. databases' \subseteq Builds /\ workspaces' \subseteq Builds
    BY <1>20 DEF DeleteResources
  <2>4. touched' \subseteq Builds /\ realloc' \subseteq Builds
    BY <1>6, <2>1, <1>20 DEF DeleteResources, Touch, b
  <2>5. req' \in [Handlers -> Requests]
    BY <1>1, <1>20 DEF DeleteResources, HandlerPcs
  <2> QED  BY <2>2, <2>3, <2>4, <2>5, <1>20 DEF DeleteResources, process
<1>21. CASE DeleteWrite(h)
  <2>1. b \in Builds
    BY <1>5, <1>21 DEF DeleteWrite, HandlerAt
  <2>2. row' \in [Builds -> Rows]
    BY <1>0, <1>3, <2>1, <1>21, NewRow DEF DeleteWrite, b, seen
  <2> QED  BY <1>1, <2>2, <1>21 DEF DeleteWrite, resources, process, history
<1>22. CASE RestartPort(h)
  <2>1. b \in Builds
    BY <1>5, <1>22 DEF RestartPort, HandlerAt
  <2>2. CASE Respond(h) /\ UNCHANGED <<row, history>>
    BY <1>1, <2>2, <1>22 DEF RestartPort, resources, process, history
  <2>3. CASE \E p \in allocate_port : /\ Commit(b, seen, [seen EXCEPT !.port = p])
                                      /\ Wrote(h, "write", row'[b])
                                      /\ realloc' = realloc \cup {b} /\ UNCHANGED touched
    <3> PICK p \in allocate_port : /\ Commit(b, seen, [seen EXCEPT !.port = p])
                                   /\ Wrote(h, "write", row'[b])
                                   /\ realloc' = realloc \cup {b} /\ UNCHANGED touched
      BY <2>3
    <3>1. [seen EXCEPT !.port = p] \in Rows
      BY <1>0, AllocatedPort DEF Rows
    <3>2. row' \in [Builds -> Rows] /\ row'[b] \in Rows
      BY <1>3, <2>1, <3>1
    <3>3. req' \in [Handlers -> Requests]
      BY <1>2, <3>2 DEF HandlerPcs
    <3> QED  BY <2>1, <3>2, <3>3, <1>22 DEF RestartPort, resources, process
  <2> QED  BY <2>2, <2>3, <1>22 DEF RestartPort, b, seen
<1>23. CASE RestartWrite(h)
  <2>1. b \in Builds
    BY <1>5, <1>23 DEF RestartWrite, HandlerAt
  <2>2. CASE Respond(h) /\ UNCHANGED <<row, history>>
    BY <1>1, <2>2, <1>23 DEF RestartWrite, resources, process, history
  <2>3. CASE /\ Commit(b, seen, WithStatus(seen, "starting_odoo"))
             /\ Wrote(h, "relaunch", row'[b]) /\ Touch(b)
    <3>1. row' \in [Builds -> Rows] /\ row'[b] \in Rows
      BY <1>3, <1>7, <2>1, <2>3 DEF Statuses, EXECUTING_BUILD_STATUSES
    <3>2. req' \in [Handlers -> Requests]
      BY <1>2, <3>1, <2>3 DEF HandlerPcs, RESTART_PCS
    <3>3. touched' \subseteq Builds /\ realloc' \subseteq Builds
      BY <1>6, <2>1, <2>3 DEF Touch
    <3> QED  BY <3>1, <3>2, <3>3, <1>23 DEF RestartWrite, resources, process
  <2> QED  BY <2>2, <2>3, <1>23 DEF RestartWrite, b, seen
<1>24. CASE RestartLaunch(h)
  <2>1. req' \in [Handlers -> Requests]
    BY <1>1, <1>24 DEF RestartLaunch, HandlerPcs, RESTART_PCS
  <2>2. main' \in [Builds -> MainStates]
    BY <1>0, <1>4, <1>24 DEF RestartLaunch, RunMain, b, seen
  <2> QED  BY <2>1, <2>2, <1>24 DEF RestartLaunch, process, history
<1>25. CASE RestartToHealth(h)
  <2>1. b \in Builds
    BY <1>5, <1>25 DEF RestartToHealth, HandlerAt
  <2>2. row' \in [Builds -> Rows] /\ row'[b] \in Rows
    BY <1>3, <1>7, <2>1, <1>25
    DEF RestartToHealth, b, seen, Statuses, EXECUTING_BUILD_STATUSES
  <2>3. req' \in [Handlers -> Requests]
    BY <1>2, <2>2, <1>25 DEF RestartToHealth, HandlerPcs, RESTART_PCS, b
  <2> QED  BY <2>2, <2>3, <1>25 DEF RestartToHealth, resources, process, history
<1>26. CASE RestartHealth(h)
  <2>1. req' \in [Handlers -> Requests]
    BY <1>1, <1>26 DEF RestartHealth, HandlerPcs, RESTART_PCS
  <2> QED  BY <2>1, <1>26 DEF RestartHealth, resources, process, history
<1>27. CASE RestartToRunning(h)
  <2>1. b \in Builds
    BY <1>5, <1>27 DEF RestartToRunning, HandlerAt
  <2>2. row' \in [Builds -> Rows]
    BY <1>3, <1>7, <2>1, <1>27 DEF RestartToRunning, b, seen, Statuses
  <2> QED  BY <1>1, <2>2, <1>27 DEF RestartToRunning, resources, process, history
<1>28. CASE RestartFailCleanup(h)
  <2>1. req' \in [Handlers -> Requests]
    BY <1>1, <1>28 DEF RestartFailCleanup, HandlerPcs, RESTART_PCS
  <2> QED  BY <2>1, <1>4, <1>28 DEF RestartFailCleanup, b, process, history
<1>29. CASE RestartFailWrite(h)
  <2>1. b \in Builds
    BY <1>5, <1>29 DEF RestartFailWrite, HandlerAt
  <2>2. row' \in [Builds -> Rows]
    BY <1>0, <1>3, <2>1, <1>29, NewRow DEF RestartFailWrite, b, seen
  <2> QED  BY <1>1, <2>2, <1>29 DEF RestartFailWrite, resources, process, history
<1> QED
  BY <1>10, <1>11, <1>12, <1>13, <1>14, <1>15, <1>16, <1>17, <1>18, <1>19, <1>20,
     <1>21, <1>22, <1>23, <1>24, <1>25, <1>26, <1>27, <1>28, <1>29 DEF Serve

LEMMA TypeProcess ==
    ASSUME TypeOK, DownIsQuiet, Crash \/ Boot
    PROVE  TypeOK'
<1> USE Constants, IdleRequest DEF TypeOK
<1>1. CASE Crash
  <2>1. main' \in [Builds -> MainStates]
    BY <1>1 DEF Crash
  <2>2. crashes' \in 0 .. MaxCrashes
    BY <1>1, BuildAssumption DEF Crash
  <2>3. worker' \in [Builds -> Workers] /\ req' \in [Handlers -> Requests]
    BY <1>1 DEF Crash
  <2> QED  BY <2>1, <2>2, <2>3, <1>1 DEF Crash, history
<1>2. CASE Boot
  <2>1. row' \in [Builds -> Rows]
    <3>1. \A b \in Builds : /\ AsFailed(row[b]) \in Rows
                            /\ [AsFailed(row[b]) EXCEPT !.cancel = FALSE] \in Rows
                            /\ WithStatus(row[b], "cloning") \in Rows
      <4> TAKE b \in Builds
      <4>1. row[b] \in Rows /\ "cloning" \in Statuses
        BY DEF Statuses, EXECUTING_BUILD_STATUSES
      <4>2. AsFailed(row[b]) \in Rows /\ WithStatus(row[b], "cloning") \in Rows
        BY <4>1, NewRow
      <4>3. \A r \in Rows : [r EXCEPT !.cancel = FALSE] \in Rows
        BY DEF Rows
      <4> QED  BY <4>2, <4>3
    <3> QED  BY <1>2, <3>1 DEF Boot
  <2>2. worker' \in [Builds -> Workers] /\ main' \in [Builds -> MainStates]
    BY <1>2 DEF Boot
  <2> QED  BY <2>1, <2>2, <1>2 DEF Boot, history
<1> QED  BY <1>1, <1>2

------------------------------------------------------------------------------
(* The slot invariant.  One lemma for each kind of step, then one case for *)
(* each action.                                                            *)

LEMMA SlotInit == Init => SlotInv
<1> SUFFICES ASSUME Init PROVE SlotInv
  OBVIOUS
<1>1. TypeOK
  BY TypeInit
<1>2. DownIsQuiet /\ PickedRow
  BY DEF Init, DownIsQuiet, PickedRow
<1>3. PipelineRow /\ SkippedCancel
  BY DEF Init, PipelineRow, SkippedCancel, NoWorker, PIPELINE_PCS, WRITE_PCS
<1>4. HandlerKnows
  BY DEF Init, HandlerKnows, Idle
<1>5. CountedIsBacked
  BY DEF Init, CountedIsBacked, Executing, EXECUTING_BUILD_STATUSES, NoRow
<1> QED  BY <1>1, <1>2, <1>3, <1>4, <1>5 DEF SlotInv

(* Only a running process has threads that move. *)
LEMMA ThreadsNeedProcess ==
    ASSUME SlotInv
    PROVE  /\ \A b \in Builds : Worker(b) => up
           /\ \A h \in Handlers : Serve(h) => up
<1> USE DEF SlotInv, DownIsQuiet
<1>1. ASSUME NEW b \in Builds, Worker(b), ~up PROVE FALSE
  <2>1. worker[b].pc = "none"
    BY <1>1 DEF NoWorker
  <2> QED
    BY <1>1, <2>1 DEF Worker, Load, Clone, Install, CreateDatabase, InitModules,
       SetPassword, Launch, HealthCheck, SetStatus, CleanupContainers, WriteFinal,
       WorkerKick, WorkerClaim, WorkerAt, WRITE_PCS
<1>2. ASSUME NEW h \in Handlers, Serve(h), ~up PROVE FALSE
  <2>1. req[h].pc = "idle"
    BY <1>2 DEF Idle
  <2> QED
    BY <1>2, <2>1 DEF Serve, CreatePort, CreateInsert, Enqueue, HandlerKick,
       HandlerClaim, CancelWrite, CancelCleanup, StopWrite, StopContainer,
       StopWritten, DeleteResources, DeleteWrite, RestartPort, RestartWrite,
       RestartLaunch, RestartToHealth, RestartHealth, RestartToRunning,
       RestartFailCleanup, RestartFailWrite, HandlerAt
<1> QED  BY <1>1, <1>2

(* A pipeline goes on: it may have written a live status. *)
LEMMA PipelineAdvances ==
    ASSUME SlotInv, TypeOK', up, up', NEW b \in Builds,
           worker[b].pc \in PIPELINE_PCS,
           \A c \in Builds \ {b} : row'[c] = row[c] /\ worker'[c] = worker[c],
           UNCHANGED <<req, lock>>,
           row'[b].status \in Live,
           worker'[b].pc \in PIPELINE_PCS, worker'[b].seen.status \in Live,
           worker'[b].pc \in {"finCleanup", "finWrite"} /\ worker'[b].seen.status = "cancelled"
               => row'[b].status \notin EXECUTING_BUILD_STATUSES
    PROVE  SlotInv'
<1> USE DEF SlotInv
<1>1. DownIsQuiet'
  BY DEF DownIsQuiet
<1>2. PipelineRow'
  BY DEF PipelineRow
<1>3. SkippedCancel'
  BY DEF SkippedCancel
<1>4. PickedRow'
  BY DEF PickedRow, PipelineRow, TypeOK
<1>5. HandlerKnows'
  <2>1. \A c \in Builds : Left(c) => Left(c)'
    BY DEF Left, Live, EXECUTING_BUILD_STATUSES
  <2>2. \A c \in Builds : Settled(c) => Settled(c)'
    BY <2>1 DEF Settled, PIPELINE_PCS, TAIL_PCS, WRITE_PCS
  <2>3. \A c \in Builds : row[c].status # "none" => row'[c].status # "none"
    BY DEF Live, EXECUTING_BUILD_STATUSES
  <2> QED  BY <2>1, <2>2, <2>3 DEF HandlerKnows, TypeOK
<1>6. CountedIsBacked'
  BY DEF CountedIsBacked, Executing, Backed
<1> QED  BY <1>1, <1>2, <1>3, <1>4, <1>5, <1>6

(* A pipeline ends with a status that does not count. *)
LEMMA PipelineEnds ==
    ASSUME SlotInv, TypeOK', up, up', NEW b \in Builds,
           worker[b].pc \in PIPELINE_PCS,
           \A c \in Builds \ {b} : row'[c] = row[c] /\ worker'[c] = worker[c],
           UNCHANGED <<req, lock>>,
           row'[b].status \notin EXECUTING_BUILD_STATUSES \cup {"none", "queued"},
           worker'[b].pc \in TAIL_PCS
    PROVE  SlotInv'
<1> USE DEF SlotInv
<1>0. worker'[b].pc \notin PIPELINE_PCS
  BY DEF PIPELINE_PCS, TAIL_PCS, WRITE_PCS
<1>1. DownIsQuiet'
  BY DEF DownIsQuiet
<1>2. PipelineRow'
  BY <1>0 DEF PipelineRow
<1>3. SkippedCancel'
  BY DEF SkippedCancel
<1>4. PickedRow'
  BY DEF PickedRow, PipelineRow, TypeOK
<1>5. HandlerKnows'
  <2>1. \A c \in Builds : Left(c) => Left(c)'
    BY DEF Left
  <2>2. \A c \in Builds : Settled(c) => Settled(c)'
    BY <2>1 DEF Settled
  <2> QED  BY <2>1, <2>2 DEF HandlerKnows, TypeOK
<1>6. CountedIsBacked'
  BY DEF CountedIsBacked, Executing, Backed
<1> QED  BY <1>1, <1>2, <1>3, <1>4, <1>5, <1>6

(* A handler works on build b: it may write the row, unless the pipeline   *)
(* or the lock would mind, and it may stop backing b if the row no longer  *)
(* counts.                                                                 *)
LEMMA HandlerMoves ==
    ASSUME SlotInv, TypeOK', up, up', NEW h \in Handlers, NEW b \in Builds,
           \A c \in Builds \ {b} : row'[c] = row[c],
           \A g \in Handlers \ {h} : req'[g] = req[g],
           UNCHANGED <<worker, lock>>,
           \/ row'[b].status = row[b].status
           \/ row'[b].status \in {"cancelled", "deleted"} /\ row[b].status # "none"
           \/ row'[b].status = "cancel_requested" /\ Left(b)
           \/ row'[b].status \notin {"none", "queued"} /\ Settled(b)
           \/ row'[b].status = "queued" /\ row[b].status = "none",
           /\ req'[h].op \in {"cancel", "stop", "restart", "delete"}
                  => req'[h].build = b /\ row'[b].status # "none"
           /\ req'[h].pc \in {"enqueue", "kick", "claim"}
                  => req'[h].op \in {"none", "create", "execute"}
           /\ req'[h].op \in {"stop", "restart"} => req'[h].build = b /\ Settled(b)
           /\ (/\ req'[h].op = "cancel" /\ req'[h].pc = "write"
               /\ req'[h].seen.status # "queued") => req'[h].build = b /\ Left(b),
           \A c \in Builds : (/\ req[h].op = "restart" /\ req[h].build = c
                              /\ req[h].pc \in RESTART_PCS
                              /\ req[h].seen.status \in EXECUTING_BUILD_STATUSES)
                             => c = b,
           row'[b].status \in EXECUTING_BUILD_STATUSES =>
               \/ worker[b].pc \in PIPELINE_PCS
               \/ /\ req'[h].op = "restart" /\ req'[h].build = b
                  /\ req'[h].pc \in RESTART_PCS
                  /\ req'[h].seen.status \in EXECUTING_BUILD_STATUSES
               \/ /\ row[b].status \in EXECUTING_BUILD_STATUSES
                  /\ ~ (/\ req[h].op = "restart" /\ req[h].build = b
                        /\ req[h].pc \in RESTART_PCS
                        /\ req[h].seen.status \in EXECUTING_BUILD_STATUSES)
    PROVE  SlotInv'
<1> USE DEF SlotInv
<1>1. DownIsQuiet'
  BY DEF DownIsQuiet
<1>2. PipelineRow'
  BY DEF PipelineRow, Settled, Left, Live, PIPELINE_PCS, TAIL_PCS, WRITE_PCS,
         EXECUTING_BUILD_STATUSES
<1>3. SkippedCancel'
  BY DEF SkippedCancel, Settled, TAIL_PCS, EXECUTING_BUILD_STATUSES
<1>4. PickedRow'
  BY DEF PickedRow, Settled, Left, TypeOK
<1>5. HandlerKnows'
  <2>1. \A c \in Builds : Left(c) => Left(c)'
    BY DEF Left, Settled
  <2>2. \A c \in Builds : Settled(c) => Settled(c)'
    BY <2>1 DEF Settled
  <2> QED  BY <2>1, <2>2 DEF HandlerKnows, TypeOK, Settled, Left
<1>6. CountedIsBacked'
  <2> SUFFICES ASSUME NEW c \in Builds, row'[c].status \in EXECUTING_BUILD_STATUSES,
                      worker[c].pc \notin PIPELINE_PCS
               PROVE  Backed(c)'
    BY DEF CountedIsBacked, Executing
  <2>1. CASE c = b
    BY <2>1 DEF CountedIsBacked, Executing, Backed
  <2>2. CASE c # b
    BY <2>2 DEF CountedIsBacked, Executing, Backed
  <2> QED  BY <2>1, <2>2
<1> QED  BY <1>1, <1>2, <1>3, <1>4, <1>5, <1>6

(* The lock is taken with rows that are queued; threads only move between  *)
(* places that no part of the invariant looks at.                          *)
LEMMA LockTaken ==
    ASSUME SlotInv, TypeOK', up, up', UNCHANGED row, lock' \subseteq Queued,
           \A c \in Builds : /\ worker'[c].seen = worker[c].seen
                             /\ \/ worker'[c] = worker[c]
                                \/ {worker[c].pc, worker'[c].pc} \subseteq TAIL_PCS,
           \A g \in Handlers :
               req'[g] # req[g] => req'[g].op \in {"none", "create", "execute"}
                                   /\ req[g].pc \notin RESTART_PCS
    PROVE  SlotInv'
<1> USE DEF SlotInv
<1>0. \A c \in Builds : /\ worker'[c].pc \in PIPELINE_PCS <=> worker[c].pc \in PIPELINE_PCS
                        /\ worker[c].pc \in PIPELINE_PCS => worker'[c] = worker[c]
                        /\ worker[c].pc \in TAIL_PCS => worker'[c].pc \in TAIL_PCS
  BY DEF PIPELINE_PCS, TAIL_PCS, WRITE_PCS
<1>1. DownIsQuiet'
  BY DEF DownIsQuiet
<1>2. PipelineRow'
  BY <1>0 DEF PipelineRow, Queued, Live, EXECUTING_BUILD_STATUSES
<1>3. SkippedCancel'
  BY <1>0 DEF SkippedCancel, PIPELINE_PCS
<1>4. PickedRow'
  BY DEF PickedRow, Queued
<1>5. HandlerKnows'
  <2>1. \A c \in Builds : Left(c) => Left(c)'
    BY DEF Left, Queued
  <2>2. \A c \in Builds : Settled(c) => Settled(c)'
    BY <1>0, <2>1 DEF Settled
  <2> QED  BY <2>1, <2>2 DEF HandlerKnows, TypeOK
<1>6. CountedIsBacked'
  BY <1>0 DEF CountedIsBacked, Executing, Backed
<1> QED  BY <1>1, <1>2, <1>3, <1>4, <1>5, <1>6

(* The picked rows are claimed and their pipelines start. *)
LEMMA LockReleased ==
    ASSUME SlotInv, TypeOK', up, up', ClaimRows, lock' = {},
           \A c \in lock : worker'[c] = Started,
           \A c \in Builds \ lock :
               \/ worker'[c] = worker[c]
               \/ {worker[c].pc, worker'[c].pc} \subseteq TAIL_PCS,
           \A g \in Handlers :
               req'[g] # req[g] => req'[g].op = "none" /\ req[g].pc \notin RESTART_PCS
    PROVE  SlotInv'
<1> USE DEF SlotInv
<1>0. /\ \A c \in Builds \ lock :
             /\ worker'[c].pc \in PIPELINE_PCS <=> worker[c].pc \in PIPELINE_PCS
             /\ worker[c].pc \in PIPELINE_PCS => worker'[c] = worker[c]
             /\ worker[c].pc \in TAIL_PCS => worker'[c].pc \in TAIL_PCS
             /\ row'[c] = row[c]
      /\ \A c \in lock : /\ worker'[c].pc = "start"
                         /\ row'[c].status = "cloning"
  BY DEF PIPELINE_PCS, TAIL_PCS, WRITE_PCS, Started, ClaimRows, TypeOK, Rows
<1>1. DownIsQuiet'
  BY DEF DownIsQuiet
<1>2. PipelineRow'
  BY <1>0 DEF PipelineRow, Live, EXECUTING_BUILD_STATUSES
<1>3. SkippedCancel'
  BY <1>0 DEF SkippedCancel, PIPELINE_PCS
<1>4. PickedRow'
  BY DEF PickedRow
<1>5. HandlerKnows'
  <2>1. \A c \in Builds : Left(c) => Left(c)'
    BY <1>0 DEF Left
  <2>2. \A c \in Builds : Settled(c) => Settled(c)'
    BY <1>0, <2>1 DEF Settled, Left
  <2>3. \A c \in Builds : row[c].status # "none" => row'[c].status # "none"
    BY <1>0
  <2> QED  BY <2>1, <2>2, <2>3 DEF HandlerKnows, TypeOK
<1>6. CountedIsBacked'
  <2>1. \A c \in lock : worker'[c].pc \in PIPELINE_PCS
    BY <1>0 DEF PIPELINE_PCS
  <2> QED  BY <1>0, <2>1 DEF CountedIsBacked, Executing, Backed
<1> QED  BY <1>1, <1>2, <1>3, <1>4, <1>5, <1>6

LEMMA SlotWorker ==
    ASSUME SlotInv, NEW b \in Builds, Worker(b)
    PROVE  SlotInv'
<1>1. TypeOK' /\ up
  BY TypeWorker, ThreadsNeedProcess DEF SlotInv
<1>2. up' /\ UNCHANGED req
  BY <1>1 DEF Worker, Load, Clone, Install, CreateDatabase, InitModules,
       SetPassword, Launch, HealthCheck, SetStatus, CleanupContainers, WriteFinal,
       WorkerKick, WorkerClaim, process
<1>3. /\ row \in [Builds -> Rows] /\ worker \in [Builds -> Workers]
      /\ row[b] \in Rows /\ worker[b].seen \in Rows
  BY DEF SlotInv, TypeOK, Workers
<1>4. worker[b].pc \in PIPELINE_PCS => row[b].status \in Live
  BY DEF SlotInv, PipelineRow
<1>5. worker[b].pc \in PIPELINE_PCS \ {"start"} => worker[b].seen.status \in Live
  BY DEF SlotInv, PipelineRow
(* Reading the row again, or carrying on with the copy, without a write. *)
<1>6. ASSUME worker[b].pc \in PIPELINE_PCS \ {"start"}, UNCHANGED <<row, lock>>,
             NEW pc \in PIPELINE_PCS \ {"finCleanup", "finWrite"},
             CheckCancel(b, pc) \/ Goto(b, pc)
      PROVE  SlotInv'
  <2>1. /\ worker'[b].pc \in PIPELINE_PCS /\ worker'[b].seen.status \in Live
        /\ worker'[b].pc \in {"finCleanup", "finWrite"} => worker'[b].seen = row[b]
        /\ \A c \in Builds \ {b} : worker'[c] = worker[c]
    BY <1>3, <1>4, <1>5, <1>6 DEF CheckCancel, Goto, PIPELINE_PCS, Workers
  <2>2. worker'[b].pc \in {"finCleanup", "finWrite"} /\ worker'[b].seen.status = "cancelled"
          => row'[b].status \notin EXECUTING_BUILD_STATUSES
    BY <2>1, <1>6 DEF EXECUTING_BUILD_STATUSES
  <2> QED  BY <1>1, <1>2, <1>4, <1>6, <2>1, <2>2, PipelineAdvances
<1>10. CASE Load(b)
  <2>0. worker[b].pc \in PIPELINE_PCS /\ UNCHANGED lock
    BY <1>10 DEF Load, WorkerAt, PIPELINE_PCS
  <2>1. CASE /\ \/ row[b].status = "cancelled"
                \/ ~CancelSeen(row[b]) /\ row[b].status \in {"running", "deleted"}
             /\ worker' = [worker EXCEPT ![b] = [pc |-> "kick", seen |-> NoRow]]
             /\ UNCHANGED row
    <3>1. /\ worker'[b].pc \in TAIL_PCS
          /\ \A c \in Builds \ {b} : row'[c] = row[c] /\ worker'[c] = worker[c]
          /\ row'[b].status \notin EXECUTING_BUILD_STATUSES \cup {"none", "queued"}
      BY <1>3, <2>1 DEF TAIL_PCS, EXECUTING_BUILD_STATUSES
    <3> QED  BY <1>1, <1>2, <2>0, <3>1, PipelineEnds
  <2>2. CASE /\ row[b].status # "cancelled"
             /\ worker' = [worker EXCEPT ![b] = [pc |-> "finCleanup", seen |-> row[b]]]
             /\ UNCHANGED row
    <3>1. /\ worker'[b].pc \in PIPELINE_PCS /\ worker'[b].seen = row[b]
          /\ \A c \in Builds \ {b} : row'[c] = row[c] /\ worker'[c] = worker[c]
      BY <1>3, <2>2 DEF PIPELINE_PCS
    <3> QED  BY <1>1, <1>2, <1>4, <2>0, <2>2, <3>1, PipelineAdvances
  <2>3. CASE /\ Commit(b, row[b], WithStatus(row[b], "cloning"))
             /\ worker' = [worker EXCEPT ![b] = [pc |-> "clone", seen |-> row'[b]]]
    <3>1. row'[b].status \in Live /\ \A c \in Builds \ {b} : row'[c] = row[c]
      <4>1. WithStatus(row[b], "cloning") \in Rows /\ WithStatus(row[b], "cloning").status = "cloning"
        BY <1>3, NewRow DEF Statuses, EXECUTING_BUILD_STATUSES
      <4> QED  BY <1>3, <1>4, <2>0, <2>3, <4>1, FlushRow
               DEF Commit, Live, EXECUTING_BUILD_STATUSES
    <3>2. /\ worker'[b].pc = "clone" /\ worker'[b].seen.status = row'[b].status
          /\ \A c \in Builds \ {b} : worker'[c] = worker[c]
      BY <1>3, <2>3
    <3>3. worker'[b].pc \in PIPELINE_PCS /\ worker'[b].pc \notin {"finCleanup", "finWrite"}
      BY <3>2 DEF PIPELINE_PCS
    <3> QED  BY <1>1, <1>2, <2>0, <3>1, <3>2, <3>3, PipelineAdvances
  <2> QED  BY <1>10, <2>1, <2>2, <2>3 DEF Load
<1>11. CASE Clone(b)
  BY <1>6, <1>11 DEF Clone, WorkerAt, PIPELINE_PCS, WRITE_PCS
<1>12. CASE Install(b)
  BY <1>6, <1>12 DEF Install, WorkerAt, PIPELINE_PCS, WRITE_PCS
<1>13. CASE CreateDatabase(b)
  BY <1>6, <1>13 DEF CreateDatabase, WorkerAt, PIPELINE_PCS, WRITE_PCS
<1>14. CASE InitModules(b)
  BY <1>6, <1>14 DEF InitModules, WorkerAt, PIPELINE_PCS, WRITE_PCS
<1>15. CASE SetPassword(b)
  BY <1>6, <1>15 DEF SetPassword, WorkerAt, PIPELINE_PCS, WRITE_PCS
<1>16. CASE Launch(b)
  BY <1>6, <1>16 DEF Launch, WorkerAt, PIPELINE_PCS, WRITE_PCS
<1>17. CASE HealthCheck(b)
  BY <1>6, <1>17 DEF HealthCheck, WorkerAt, PIPELINE_PCS, WRITE_PCS
<1>18. CASE SetStatus(b)
  <2>0. /\ worker[b].pc \in PIPELINE_PCS \ {"start"} /\ UNCHANGED lock
        /\ worker[b].pc \in WRITE_PCS
    BY <1>18 DEF SetStatus, PIPELINE_PCS, WRITE_PCS
  <2> DEFINE s == StatusOf[worker[b].pc]
  <2>1. s \in Statuses /\ s # "none" /\ s # "queued"
    BY <2>0 DEF WRITE_PCS, StatusOf, Statuses, EXECUTING_BUILD_STATUSES
  <2>2. /\ row'[b].status \in {row[b].status, s}
        /\ s # worker[b].seen.status => row'[b].status = s
        /\ \A c \in Builds \ {b} : row'[c] = row[c]
    <3>1. WithStatus(worker[b].seen, s) \in Rows /\ WithStatus(worker[b].seen, s).status = s
      BY <1>3, <2>1, NewRow
    <3>2. Commit(b, worker[b].seen, WithStatus(worker[b].seen, s))
      BY <1>18 DEF SetStatus
    <3> HIDE DEF s
    <3> QED  BY <1>3, <3>1, <3>2, FlushRow DEF Commit
  <2>3. CASE worker[b].pc = "toRunning"
    <3>1. row'[b].status = "running"
      BY <1>5, <2>0, <2>2, <2>3 DEF StatusOf, Live, EXECUTING_BUILD_STATUSES
    <3>2. worker'[b].pc \in TAIL_PCS /\ \A c \in Builds \ {b} : worker'[c] = worker[c]
      BY <1>3, <1>18, <2>3 DEF SetStatus, PcAfter, TAIL_PCS
    <3>3. row'[b].status \notin EXECUTING_BUILD_STATUSES \cup {"none", "queued"}
      BY <3>1 DEF EXECUTING_BUILD_STATUSES
    <3> QED  BY <1>1, <1>2, <2>0, <2>2, <3>2, <3>3, PipelineEnds
  <2>4. CASE worker[b].pc # "toRunning"
    <3>1. s \in Live /\ PcAfter[worker[b].pc] \in {"install", "createdb", "init", "health"}
      BY <2>0, <2>4 DEF WRITE_PCS, StatusOf, PcAfter, Live, EXECUTING_BUILD_STATUSES
    <3>2. row'[b].status \in Live
      BY <1>4, <2>0, <2>2, <3>1
    <3>3. /\ worker'[b].pc = PcAfter[worker[b].pc] /\ worker'[b].seen = row'[b]
          /\ \A c \in Builds \ {b} : worker'[c] = worker[c]
      BY <1>3, <1>18, <2>4 DEF SetStatus, WorkerAt
    <3>4. worker'[b].pc \in PIPELINE_PCS /\ worker'[b].pc \notin {"finCleanup", "finWrite"}
      BY <3>1, <3>3 DEF PIPELINE_PCS
    <3> QED  BY <1>1, <1>2, <2>0, <2>2, <3>2, <3>3, <3>4, PipelineAdvances
  <2> QED  BY <2>3, <2>4
<1>19. CASE CleanupContainers(b)
  <2>1. /\ worker[b].pc \in {"failCleanup", "finCleanup"} /\ UNCHANGED <<row, lock>>
        /\ worker[b].pc = "failCleanup" => worker'[b].pc = "failWrite"
        /\ worker[b].pc = "finCleanup" => worker'[b].pc = "finWrite"
        /\ worker'[b].seen = worker[b].seen
        /\ \A c \in Builds \ {b} : worker'[c] = worker[c]
    BY <1>3, <1>19 DEF CleanupContainers, WorkerAt, Goto, Workers
  <2>2. worker[b].pc \in PIPELINE_PCS \ {"start"} /\ worker'[b].pc \in PIPELINE_PCS
    BY <2>1 DEF PIPELINE_PCS
  <2>3. worker'[b].pc \in {"finCleanup", "finWrite"} /\ worker'[b].seen.status = "cancelled"
          => row'[b].status \notin EXECUTING_BUILD_STATUSES
    BY <2>1 DEF SlotInv, SkippedCancel
  <2> QED  BY <1>1, <1>2, <1>4, <1>5, <2>1, <2>2, <2>3, PipelineAdvances
<1>20. CASE WriteFinal(b)
  <2>0. /\ worker[b].pc \in {"failWrite", "finWrite"} /\ UNCHANGED lock
        /\ worker[b].pc \in PIPELINE_PCS \ {"start"}
    BY <1>20 DEF WriteFinal, WorkerAt, PIPELINE_PCS
  <2>1. worker'[b].pc \in TAIL_PCS /\ \A c \in Builds \ {b} : worker'[c] = worker[c]
    BY <1>3, <1>20 DEF WriteFinal, TAIL_PCS
  <2>2. \A c \in Builds \ {b} : row'[c] = row[c]
    BY <1>3, <1>20 DEF WriteFinal, Commit
  <2>3. row'[b].status \notin EXECUTING_BUILD_STATUSES \cup {"none", "queued"}
    <3>1. CASE worker[b].pc = "failWrite"
      <4>1. Commit(b, worker[b].seen, AsFailed(worker[b].seen))
        BY <3>1, <1>20 DEF WriteFinal, WorkerAt
      <4>2. "failed" # worker[b].seen.status
        BY <1>5, <2>0 DEF Live, EXECUTING_BUILD_STATUSES
      <4>3. row'[b].status = "failed"
        BY <1>3, <4>1, <4>2, FlushRow, NewRow DEF Commit
      <4> QED  BY <4>3 DEF EXECUTING_BUILD_STATUSES
    <3>2. CASE worker[b].pc = "finWrite"
      <4>1. Commit(b, worker[b].seen, AsCancelled(worker[b].seen))
        BY <3>2, <1>20 DEF WriteFinal, WorkerAt
      <4>2. CASE worker[b].seen.status # "cancelled"
        <5>1. row'[b].status = "cancelled"
          BY <1>3, <4>1, <4>2, FlushRow, NewRow DEF Commit
        <5> QED  BY <5>1 DEF EXECUTING_BUILD_STATUSES
      <4>3. CASE worker[b].seen.status = "cancelled"
        <5>1. row'[b].status = row[b].status
          BY <1>3, <4>1, <4>3, FlushRow, NewRow DEF Commit
        <5>2. row[b].status \notin EXECUTING_BUILD_STATUSES
          BY <3>2, <4>3 DEF SlotInv, SkippedCancel
        <5> QED  BY <1>4, <2>0, <5>1, <5>2 DEF Live, EXECUTING_BUILD_STATUSES
      <4> QED  BY <4>2, <4>3
    <3> QED  BY <2>0, <3>1, <3>2
  <2> QED  BY <1>1, <1>2, <2>0, <2>1, <2>2, <2>3, PipelineEnds
<1>21. CASE WorkerKick(b)
  <2>1. UNCHANGED row /\ lock' \subseteq Queued
    BY <1>21 DEF WorkerKick, KickPicks, FirstQueued
  <2>2. /\ worker[b].pc \in TAIL_PCS /\ worker'[b].pc \in TAIL_PCS
        /\ worker'[b].seen = worker[b].seen
        /\ \A c \in Builds \ {b} : worker'[c] = worker[c]
    BY <1>3, <1>21 DEF WorkerKick, Goto, NextPc, ClaimPc, TAIL_PCS, Workers
  <2> QED  BY <1>1, <1>2, <2>1, <2>2, LockTaken
<1>22. CASE WorkerClaim(b)
  <2>1. /\ ClaimRows /\ lock' = {}
        /\ \A c \in Builds : c \in lock => worker'[c] = Started
        /\ \A c \in Builds \ lock : c # b => worker'[c] = worker[c]
        /\ b \notin lock => {worker[b].pc, worker'[b].pc} \subseteq TAIL_PCS
    BY <1>3, <1>22 DEF WorkerClaim, NextPc, TAIL_PCS, Workers
  <2>2. lock \subseteq Builds
    BY DEF SlotInv, TypeOK
  <2> QED  BY <1>1, <1>2, <2>1, <2>2, LockReleased
<1> QED
  BY <1>10, <1>11, <1>12, <1>13, <1>14, <1>15, <1>16, <1>17, <1>18, <1>19, <1>20,
     <1>21, <1>22 DEF Worker

(* A handler that is not behind a counted row ends, or works on no build. *)
LEMMA HandlerLeaves ==
    ASSUME SlotInv, TypeOK', up, up', NEW h \in Handlers,
           UNCHANGED <<row, worker, lock>>,
           \A g \in Handlers \ {h} : req'[g] = req[g],
           req'[h].op \in {"none", "create", "execute"},
           req[h].pc \notin RESTART_PCS \/ req[h].op # "restart"
    PROVE  SlotInv'
<1> USE DEF SlotInv
<1>1. DownIsQuiet' /\ PickedRow'
  BY DEF DownIsQuiet, PickedRow
<1>2. PipelineRow' /\ SkippedCancel'
  BY DEF PipelineRow, SkippedCancel
<1>3. HandlerKnows'
  BY DEF HandlerKnows, Settled, Left
<1>4. CountedIsBacked'
  BY DEF CountedIsBacked, Executing, Backed
<1> QED  BY <1>1, <1>2, <1>3, <1>4

LEMMA SlotRequest ==
    ASSUME SlotInv, NEW h \in Handlers, Request(h)
    PROVE  SlotInv'
<1>1. TypeOK' /\ up
  BY TypeRequest DEF SlotInv, Request, CreateNumber, ExecuteBegin, CancelBegin,
     StopBegin, RestartBegin, DeleteBegin, Accept
<1>2. up' /\ UNCHANGED <<row, worker, lock>>
  BY <1>1 DEF Request, CreateNumber, ExecuteBegin, CancelBegin, StopBegin,
     RestartBegin, DeleteBegin, Accept, process
<1>3. req \in [Handlers -> Requests] /\ row \in [Builds -> Rows]
  BY DEF SlotInv, TypeOK
<1>4. req[h].pc \notin RESTART_PCS /\ req[h].op = "none"
  <2>1. req[h] = Idle
    BY DEF Request, CreateNumber, ExecuteBegin, CancelBegin, StopBegin,
       RestartBegin, DeleteBegin, Accept
  <2> QED  BY <2>1 DEF Idle, RESTART_PCS
<1>5. CASE \E p \in Projects : CreateNumber(h, p)
  <2>1. /\ req'[h].op = "create"
        /\ \A g \in Handlers \ {h} : req'[g] = req[g]
    BY <1>3, <1>5 DEF CreateNumber, Idle
  <2> QED  BY <1>1, <1>2, <1>4, <2>1, HandlerLeaves
<1>6. ASSUME NEW op, NEW b \in Builds, NEW pc, Accept(h, op, b, pc),
             op \in {"stop", "restart"} => Settled(b),
             op = "cancel" /\ row[b].status # "queued" => Left(b),
             op \in {"cancel", "stop", "restart", "delete"} =>
                 row[b].status # "none" /\ pc \notin {"enqueue", "kick", "claim"},
             op \in {"cancel", "stop", "restart", "delete", "execute"}
      PROVE  SlotInv'
  <2>1. /\ req'[h].op = op /\ req'[h].build = b /\ req'[h].seen = row[b]
        /\ req'[h].pc = pc /\ \A g \in Handlers \ {h} : req'[g] = req[g]
    BY <1>3, <1>6 DEF Accept, Idle
  <2>2. row'[b].status \in EXECUTING_BUILD_STATUSES =>
            row[b].status \in EXECUTING_BUILD_STATUSES
    BY <1>2
  <2> QED  BY <1>1, <1>2, <1>4, <1>6, <2>1, <2>2, HandlerMoves
<1>7. ASSUME NEW b \in Builds,
             row[b].status \notin {"none", "queued", "cancelled", "deleted"}
      PROVE  Left(b)
  BY <1>7 DEF SlotInv, PickedRow, Left
<1>8. ASSUME NEW b \in Builds, row[b].status \in {"running", "stopped"}
      PROVE  Settled(b)
  <2>1. worker[b].pc \notin PIPELINE_PCS /\ worker[b].pc \in WorkerPcs
    BY <1>8 DEF SlotInv, PipelineRow, Live, EXECUTING_BUILD_STATUSES, TypeOK, Workers
  <2> QED  BY <1>7, <1>8, <2>1 DEF Settled, WorkerPcs
<1>9. ASSUME NEW b \in Builds, \/ ExecuteBegin(h, b) \/ CancelBegin(h, b)
                               \/ StopBegin(h, b) \/ RestartBegin(h, b)
                               \/ DeleteBegin(h, b)
      PROVE  SlotInv'
  <2>1. CASE ExecuteBegin(h, b)
    BY <1>6, <2>1 DEF ExecuteBegin, RESTART_PCS
  <2>2. CASE CancelBegin(h, b)
    <3>1. row[b].status # "queued" => Left(b)
      BY <1>7, <2>2 DEF CancelBegin, CANCELABLE_STATUSES, EXECUTING_BUILD_STATUSES
    <3> QED  BY <1>6, <2>2, <3>1 DEF CancelBegin, CANCELABLE_STATUSES,
         EXECUTING_BUILD_STATUSES
  <2>3. CASE StopBegin(h, b)
    BY <1>6, <1>8, <2>3 DEF StopBegin, RESTART_PCS
  <2>4. CASE RestartBegin(h, b)
    BY <1>6, <1>8, <2>4 DEF RestartBegin, RESTART_PCS
  <2>5. CASE DeleteBegin(h, b)
    BY <1>6, <2>5 DEF DeleteBegin, RESTART_PCS
  <2> QED  BY <1>9, <2>1, <2>2, <2>3, <2>4, <2>5
<1> QED  BY <1>5, <1>9 DEF Request

LEMMA SlotServe ==
    ASSUME SlotInv, NEW h \in Handlers, Serve(h)
    PROVE  SlotInv'
<1>1. TypeOK' /\ up
  BY TypeServe, ThreadsNeedProcess DEF SlotInv
<1>2. up'
  BY <1>1 DEF Serve, CreatePort, CreateInsert, Enqueue, HandlerKick, HandlerClaim,
     CancelWrite, CancelCleanup, StopWrite, StopContainer, StopWritten,
     DeleteResources, DeleteWrite, RestartPort, RestartWrite, RestartLaunch,
     RestartToHealth, RestartHealth, RestartToRunning, RestartFailCleanup,
     RestartFailWrite, process
<1>3. /\ req \in [Handlers -> Requests] /\ row \in [Builds -> Rows]
      /\ req[h].seen \in Rows /\ req' \in [Handlers -> Requests]
      /\ lock \subseteq Builds
  BY <1>1 DEF SlotInv, TypeOK, Requests
<1>4. /\ Respond(h) => /\ req'[h].op = "none"
                       /\ \A g \in Handlers \ {h} : req'[g] = req[g]
      /\ ToKick(h) => /\ req'[h].op = "none"
                      /\ \A g \in Handlers \ {h} : req'[g] = req[g]
      /\ \A pc : Proceed(h, pc) =>
             /\ req'[h].op = req[h].op /\ req'[h].build = req[h].build
             /\ req'[h].seen = req[h].seen /\ req'[h].pc = pc
             /\ \A g \in Handlers \ {h} : req'[g] = req[g]
      /\ \A pc, r : Wrote(h, pc, r) =>
             /\ req'[h].op = req[h].op /\ req'[h].build = req[h].build
             /\ req'[h].seen = r /\ req'[h].pc = pc
             /\ \A g \in Handlers \ {h} : req'[g] = req[g]
  BY <1>3 DEF Respond, ToKick, Proceed, Wrote, Idle, Requests
<1>5. ASSUME UNCHANGED <<row, worker, lock>>, Respond(h),
             req[h].op # "restart" \/ req[h].pc \notin RESTART_PCS
      PROVE  SlotInv'
  BY <1>1, <1>2, <1>4, <1>5, HandlerLeaves
<1>6. ASSUME NEW b \in Builds, NEW seen \in Rows, NEW new \in Rows,
             Commit(b, seen, new)
      PROVE  /\ \A c \in Builds \ {b} : row'[c] = row[c]
             /\ row'[b].status \in {row[b].status, new.status}
             /\ new.status # seen.status => row'[b].status = new.status
             /\ new.status = seen.status => row'[b].status = row[b].status
  BY <1>3, <1>6, FlushRow DEF Commit
<1>7. req[h].op \in {"cancel", "stop", "restart", "delete"} => req[h].build \in Builds
  BY DEF SlotInv, HandlerKnows
<1>8. req[h].op \in {"stop", "restart"} => Settled(req[h].build)
  BY DEF SlotInv, HandlerKnows
<1>9. \A s \in Statuses : /\ WithStatus(req[h].seen, s) \in Rows
                          /\ WithStatus(req[h].seen, s).status = s
  BY <1>3, NewRow
(* A step that only moves the handler, on one of the four operations. *)
<1>10. ASSUME req[h].op \in {"cancel", "stop", "restart", "delete"},
              UNCHANGED <<row, worker, lock>>,
              NEW pc, pc \notin {"enqueue", "kick", "claim"}, Proceed(h, pc),
              req[h].op = "cancel" => pc # "write",
              req[h].op = "restart" => (req[h].pc \in RESTART_PCS => pc \in RESTART_PCS)
       PROVE  SlotInv'
  <2> PICK b \in Builds : b = req[h].build
    BY <1>7, <1>10
  <2>1. /\ req'[h].op = req[h].op /\ req'[h].build = b
        /\ req'[h].seen = req[h].seen /\ req'[h].pc = pc
        /\ \A g \in Handlers \ {h} : req'[g] = req[g]
    BY <1>4, <1>10
  <2>2. row'[b] = row[b] /\ \A c \in Builds \ {b} : row'[c] = row[c]
    BY <1>10
  <2>3. req[h].op \in {"stop", "restart"} => Settled(b)
    BY <1>8
  <2>4. \A c \in Builds : req[h].build = c => c = b
    OBVIOUS
  <2>5. row[b].status # "none"
    BY <1>10 DEF SlotInv, HandlerKnows
  <2> QED  BY <1>1, <1>2, <1>10, <2>1, <2>2, <2>3, <2>4, <2>5, HandlerMoves
(* A write after which the handler no longer works on the build. *)
<1>11. ASSUME NEW b \in Builds, b = req[h].build, UNCHANGED <<worker, lock>>,
              \A c \in Builds \ {b} : row'[c] = row[c],
              ToKick(h) \/ Respond(h),
              \/ row'[b].status = row[b].status
                 /\ ~(req[h].op = "restart" /\ req[h].seen.status \in EXECUTING_BUILD_STATUSES)
              \/ row'[b].status \in {"cancelled", "deleted"} /\ row[b].status # "none"
              \/ row'[b].status \notin EXECUTING_BUILD_STATUSES \cup {"none", "queued"}
                 /\ Settled(b)
       PROVE  SlotInv'
  <2>1. req'[h].op = "none" /\ \A g \in Handlers \ {h} : req'[g] = req[g]
    BY <1>4, <1>11
  <2>2. row'[b].status \in EXECUTING_BUILD_STATUSES =>
          /\ row[b].status \in EXECUTING_BUILD_STATUSES
          /\ ~(req[h].op = "restart" /\ req[h].seen.status \in EXECUTING_BUILD_STATUSES)
    BY <1>11 DEF EXECUTING_BUILD_STATUSES
  <2>3. \A c \in Builds : req[h].build = c => c = b
    BY <1>11
  <2> QED  BY <1>1, <1>2, <1>11, <2>1, <2>2, <2>3, HandlerMoves
<1>20. CASE CreatePort(h)
  <2>1. /\ req[h].op = "create" /\ UNCHANGED <<row, worker, lock>>
        /\ req'[h].op \in {"none", "create"}
        /\ \A g \in Handlers \ {h} : req'[g] = req[g]
    BY <1>3, <1>20 DEF CreatePort, HandlerAt, Respond, Idle, Requests
  <2> QED  BY <1>1, <1>2, <2>1, HandlerLeaves
<1>21. CASE CreateInsert(h)
  <2>0. req[h].op = "create" /\ UNCHANGED <<worker, lock>>
    BY <1>21 DEF CreateInsert, HandlerAt
  <2>1. CASE Respond(h) /\ UNCHANGED <<row, project>>
    BY <1>5, <2>0, <2>1
  <2>2. CASE \E c \in Builds \ Inserted : Insert(h, c)
    <3> PICK b \in Builds \ Inserted : Insert(h, b)
      BY <2>2
    <3>1. /\ row'[b].status = "queued" /\ row[b].status = "none"
          /\ \A c \in Builds \ {b} : row'[c] = row[c]
      BY <1>3 DEF Insert, Inserted
    <3>2. /\ req'[h].op = "create"
          /\ \A g \in Handlers \ {h} : req'[g] = req[g]
      BY <1>3 DEF Insert, Idle
    <3>3. row'[b].status \notin EXECUTING_BUILD_STATUSES
      BY <3>1 DEF EXECUTING_BUILD_STATUSES
    <3> QED  BY <1>1, <1>2, <2>0, <3>1, <3>2, <3>3, HandlerMoves
  <2> QED  BY <1>21, <2>1, <2>2 DEF CreateInsert
<1>22. CASE Enqueue(h) \/ HandlerKick(h)
  <2>1. /\ UNCHANGED <<row, worker>> /\ lock' \subseteq Queued
        /\ req[h].pc \in {"enqueue", "kick"} /\ (Respond(h) \/ Proceed(h, "claim"))
    BY <1>22 DEF Enqueue, EnqueuePicks, HandlerKick, KickPicks, FirstQueued
  <2>2. req[h].op \in {"none", "create", "execute"} /\ req[h].pc \notin RESTART_PCS
    BY <2>1 DEF SlotInv, HandlerKnows, RESTART_PCS
  <2>3. \A g \in Handlers :
            req'[g] # req[g] => req'[g].op \in {"none", "create", "execute"}
                                /\ req[g].pc \notin RESTART_PCS
    BY <1>4, <2>1, <2>2
  <2>4. \A c \in Builds : worker'[c] = worker[c]
    BY <2>1
  <2> QED  BY <1>1, <1>2, <2>1, <2>3, <2>4, LockTaken
<1>23. CASE HandlerClaim(h)
  <2>1. /\ ClaimRows /\ lock' = {} /\ Respond(h) /\ req[h].pc \notin RESTART_PCS
        /\ \A c \in lock : worker'[c] = Started
        /\ \A c \in Builds \ lock : worker'[c] = worker[c]
    BY <1>3, <1>23 DEF HandlerClaim, RESTART_PCS
  <2>2. \A g \in Handlers :
            req'[g] # req[g] => req'[g].op = "none" /\ req[g].pc \notin RESTART_PCS
    BY <1>4, <2>1
  <2> QED  BY <1>1, <1>2, <2>1, <2>2, LockReleased
<1>24. CASE CancelWrite(h)
  <2>0. req[h].op = "cancel" /\ req[h].pc = "write" /\ UNCHANGED <<worker, lock>>
    BY <1>24 DEF CancelWrite, HandlerAt
  <2> PICK b \in Builds : b = req[h].build
    BY <1>7, <2>0
  <2>1. CASE req[h].seen.status = "queued"
    <3>1. Commit(b, req[h].seen, AsCancelled(req[h].seen)) /\ ToKick(h)
      BY <1>24, <2>1 DEF CancelWrite
    <3>2. /\ row'[b].status = "cancelled"
          /\ \A c \in Builds \ {b} : row'[c] = row[c]
      BY <1>3, <1>6, <2>1, <3>1, NewRow
    <3>3. row[b].status # "none"
      BY <2>0 DEF SlotInv, HandlerKnows
    <3> QED  BY <1>11, <2>0, <3>1, <3>2, <3>3
  <2>2. CASE req[h].seen.status # "queued"
    <3>1. Commit(b, req[h].seen, AsCancelRequested(req[h].seen)) /\ Proceed(h, "cleanup")
      BY <1>24, <2>2 DEF CancelWrite
    <3>2. /\ row'[b].status \in {row[b].status, "cancel_requested"}
          /\ \A c \in Builds \ {b} : row'[c] = row[c]
      BY <1>3, <1>6, <3>1, NewRow
    <3>3. Left(b)
      BY <2>0, <2>2 DEF SlotInv, HandlerKnows
    <3>4. /\ req'[h].op = "cancel" /\ req'[h].build = b /\ req'[h].pc = "cleanup"
          /\ \A g \in Handlers \ {h} : req'[g] = req[g]
      BY <1>4, <2>0, <3>1
    <3>5. row'[b].status \in EXECUTING_BUILD_STATUSES =>
              row[b].status \in EXECUTING_BUILD_STATUSES
      BY <3>2 DEF EXECUTING_BUILD_STATUSES
    <3>6. row'[b].status # "none"
      BY <3>2, <3>3 DEF Left
    <3> QED  BY <1>1, <1>2, <2>0, <3>2, <3>3, <3>4, <3>5, <3>6, HandlerMoves
  <2> QED  BY <2>1, <2>2
<1>25. CASE CancelCleanup(h)
  BY <1>5, <1>25 DEF CancelCleanup, HandlerAt
<1>26. CASE StopWrite(h) \/ StopWritten(h)
  <2>0. req[h].op = "stop" /\ UNCHANGED <<worker, lock>>
    BY <1>26 DEF StopWrite, StopWritten, HandlerAt
  <2> PICK b \in Builds : b = req[h].build
    BY <1>7, <2>0
  <2>1. Settled(b) /\ row[b].status \notin {"none", "queued"}
    BY <1>8, <2>0 DEF Settled, Left
  <2>2. CASE StopWritten(h)
    <3>1. Commit(b, req[h].seen, WithStatus(req[h].seen, "stopped")) /\ ToKick(h)
      BY <2>2 DEF StopWritten
    <3>2. /\ row'[b].status \in {row[b].status, "stopped"}
          /\ \A c \in Builds \ {b} : row'[c] = row[c]
      BY <1>3, <1>6, <1>9, <3>1 DEF Statuses
    <3> QED  BY <1>11, <2>0, <2>1, <3>1, <3>2 DEF EXECUTING_BUILD_STATUSES
  <2>3. CASE StopWrite(h)
    <3>1. /\ Commit(b, req[h].seen, WithStatus(req[h].seen, "stopping"))
          /\ Wrote(h, "dockerStop", row'[b])
      BY <2>3 DEF StopWrite
    <3>2. /\ row'[b].status \in {row[b].status, "stopping"}
          /\ \A c \in Builds \ {b} : row'[c] = row[c]
      BY <1>3, <1>6, <1>9, <3>1 DEF Statuses
    <3>3. /\ req'[h].op = "stop" /\ req'[h].build = b /\ req'[h].pc = "dockerStop"
          /\ \A g \in Handlers \ {h} : req'[g] = req[g]
      BY <1>4, <2>0, <3>1
    <3>4. row'[b].status \in EXECUTING_BUILD_STATUSES =>
              row[b].status \in EXECUTING_BUILD_STATUSES
      BY <3>2 DEF EXECUTING_BUILD_STATUSES
    <3> QED  BY <1>1, <1>2, <2>0, <2>1, <3>2, <3>3, <3>4, HandlerMoves
  <2> QED  BY <1>26, <2>2, <2>3
<1>27. CASE StopContainer(h)
  BY <1>5, <1>10, <1>27 DEF StopContainer, HandlerAt
<1>28. CASE DeleteResources(h)
  BY <1>10, <1>28 DEF DeleteResources, HandlerAt
<1>29. CASE DeleteWrite(h)
  <2>0. /\ req[h].op = "delete" /\ UNCHANGED <<worker, lock>> /\ ToKick(h)
        /\ Commit(req[h].build, req[h].seen, AsDeleted(req[h].seen))
    BY <1>29 DEF DeleteWrite, HandlerAt
  <2> PICK b \in Builds : b = req[h].build
    BY <1>7, <2>0
  <2>1. /\ row'[b].status \in {row[b].status, "deleted"}
        /\ \A c \in Builds \ {b} : row'[c] = row[c]
    BY <1>3, <1>6, <2>0, NewRow
  <2>2. row[b].status # "none"
    BY <2>0 DEF SlotInv, HandlerKnows
  <2> QED  BY <1>11, <2>0, <2>1, <2>2
<1>30. CASE RestartPort(h)
  <2>0. req[h].op = "restart" /\ req[h].pc \notin RESTART_PCS /\ UNCHANGED <<worker, lock>>
    BY <1>30 DEF RestartPort, HandlerAt, RESTART_PCS
  <2> PICK b \in Builds : b = req[h].build
    BY <1>7, <2>0
  <2>1. CASE Respond(h) /\ UNCHANGED <<row, history>>
    BY <1>5, <2>0, <2>1
  <2>2. CASE \E p \in allocate_port : /\ Commit(b, req[h].seen, [req[h].seen EXCEPT !.port = p])
                                      /\ Wrote(h, "write", row'[b])
    <3> PICK p \in allocate_port : /\ Commit(b, req[h].seen, [req[h].seen EXCEPT !.port = p])
                                   /\ Wrote(h, "write", row'[b])
      BY <2>2
    <3>1. /\ [req[h].seen EXCEPT !.port = p] \in Rows
          /\ [req[h].seen EXCEPT !.port = p].status = req[h].seen.status
      BY <1>3, AllocatedPort DEF Rows
    <3>2. /\ row'[b].status = row[b].status
          /\ \A c \in Builds \ {b} : row'[c] = row[c]
      BY <1>3, <1>6, <3>1
    <3>3. /\ req'[h].op = "restart" /\ req'[h].build = b /\ req'[h].pc = "write"
          /\ \A g \in Handlers \ {h} : req'[g] = req[g]
      BY <1>4, <2>0
    <3>4. Settled(b)
      BY <1>8, <2>0
    <3>5. row[b].status # "none"
      BY <3>4 DEF Settled, Left
    <3> QED  BY <1>1, <1>2, <2>0, <3>2, <3>3, <3>4, <3>5, HandlerMoves
  <2> QED  BY <1>30, <2>1, <2>2 DEF RestartPort
(* The writes of a restart that is going on: the copy shows what was written. *)
<1>31. ASSUME req[h].op = "restart", UNCHANGED <<worker, lock>>,
              NEW s \in EXECUTING_BUILD_STATUSES, NEW pc \in RESTART_PCS,
              Commit(req[h].build, req[h].seen, WithStatus(req[h].seen, s)),
              Wrote(h, pc, row'[req[h].build])
       PROVE  SlotInv'
  <2> PICK b \in Builds : b = req[h].build
    BY <1>7, <1>31
  <2>1. /\ row'[b].status \in {row[b].status, s}
        /\ \A c \in Builds \ {b} : row'[c] = row[c]
    <3>1. s \in Statuses
      BY DEF Statuses
    <3> QED  BY <1>3, <1>6, <1>9, <1>31, <3>1
  <2>2. /\ req'[h].op = "restart" /\ req'[h].build = b /\ req'[h].pc = pc
        /\ req'[h].seen = row'[b]
        /\ \A g \in Handlers \ {h} : req'[g] = req[g]
    BY <1>4, <1>31
  <2>3. Settled(b)
    BY <1>8, <1>31
  <2>4. s \notin {"none", "queued"} /\ row[b].status \notin {"none", "queued"}
    BY <2>3 DEF Settled, Left, EXECUTING_BUILD_STATUSES
  <2>5. pc \notin {"enqueue", "kick", "claim"}
    BY DEF RESTART_PCS
  <2>6. \A c \in Builds : req[h].build = c => c = b
    OBVIOUS
  <2> QED  BY <1>1, <1>2, <1>31, <2>1, <2>2, <2>3, <2>4, <2>5, <2>6, HandlerMoves
<1>32. CASE RestartWrite(h)
  <2>0. req[h].op = "restart" /\ req[h].pc \notin RESTART_PCS /\ UNCHANGED <<worker, lock>>
    BY <1>32 DEF RestartWrite, HandlerAt, RESTART_PCS
  <2>1. CASE Respond(h) /\ UNCHANGED <<row, history>>
    BY <1>5, <2>0, <2>1
  <2>2. CASE /\ Commit(req[h].build, req[h].seen, WithStatus(req[h].seen, "starting_odoo"))
             /\ Wrote(h, "relaunch", row'[req[h].build])
    BY <1>31, <2>0, <2>2 DEF EXECUTING_BUILD_STATUSES, RESTART_PCS
  <2> QED  BY <1>32, <2>1, <2>2 DEF RestartWrite
<1>33. CASE RestartToHealth(h)
  BY <1>31, <1>33 DEF RestartToHealth, HandlerAt, EXECUTING_BUILD_STATUSES, RESTART_PCS
<1>34. CASE RestartLaunch(h) \/ RestartHealth(h) \/ RestartFailCleanup(h)
  BY <1>10, <1>34 DEF RestartLaunch, RestartHealth, RestartFailCleanup, HandlerAt, RESTART_PCS
<1>35. CASE RestartToRunning(h) \/ RestartFailWrite(h)
  <2>0. req[h].op = "restart" /\ UNCHANGED <<worker, lock>> /\ (ToKick(h) \/ Respond(h))
    BY <1>35 DEF RestartToRunning, RestartFailWrite, HandlerAt
  <2> PICK b \in Builds : b = req[h].build
    BY <1>7, <2>0
  <2>1. Settled(b)
    BY <1>8, <2>0
  <2>2. PICK new \in Rows : /\ new.status \in {"running", "failed"}
                            /\ Commit(b, req[h].seen, new)
    BY <1>3, <1>9, <1>35, NewRow DEF RestartToRunning, RestartFailWrite, Statuses
  <2>3. /\ \A c \in Builds \ {b} : row'[c] = row[c]
        /\ \/ row'[b].status \in {"running", "failed"}
           \/ row'[b].status = row[b].status /\ req[h].seen.status \in {"running", "failed"}
    BY <1>3, <1>6, <2>2
  <2> QED  BY <1>11, <2>0, <2>1, <2>3 DEF EXECUTING_BUILD_STATUSES
<1> QED
  BY <1>20, <1>21, <1>22, <1>23, <1>24, <1>25, <1>26, <1>27, <1>28, <1>29, <1>30,
     <1>32, <1>33, <1>34, <1>35 DEF Serve

LEMMA SlotProcess ==
    ASSUME SlotInv, Crash \/ Boot
    PROVE  SlotInv'
<1>1. TypeOK'
  BY TypeProcess DEF SlotInv
<1>2. CASE Crash
  <2>1. /\ ~up' /\ lock' = {} /\ \A b \in Builds : worker'[b].pc = "none"
        /\ \A h \in Handlers : req'[h].op = "none" /\ req'[h].pc = "idle"
    BY <1>2 DEF Crash, NoWorker, Idle
  <2>2. DownIsQuiet'
    BY <1>2 DEF Crash, DownIsQuiet
  <2>3. PipelineRow' /\ SkippedCancel' /\ PickedRow' /\ HandlerKnows' /\ CountedIsBacked'
    BY <2>1 DEF PipelineRow, SkippedCancel, PickedRow, HandlerKnows, CountedIsBacked,
                PIPELINE_PCS, WRITE_PCS
  <2> QED  BY <1>1, <2>2, <2>3 DEF SlotInv
<1>3. CASE Boot
  <2>0. /\ up' /\ ~up /\ lock' = {}
        /\ \A h \in Handlers : req'[h].op = "none" /\ req'[h].pc = "idle"
        /\ \A b \in Builds : worker[b].pc = "none"
    BY <1>3 DEF Boot, SlotInv, DownIsQuiet, Idle, NoWorker
  <2>1. PICK healthy \in SUBSET Reachable :
          /\ row' = [b \in Builds |->
                 IF b \in Interrupted THEN [AsFailed(row[b]) EXCEPT !.cancel = FALSE]
                 ELSE IF b \in Unhealthy(healthy) THEN AsFailed(row[b])
                 ELSE IF b \in FirstQueued(Queued, MaxConcurrent)
                      THEN WithStatus(row[b], "cloning")
                 ELSE row[b]]
          /\ worker' = [b \in Builds |->
                 IF b \in FirstQueued(Queued, MaxConcurrent) THEN Started ELSE worker[b]]
    BY <1>3 DEF Boot
  <2>2. ASSUME NEW b \in Builds
        PROVE  IF b \in FirstQueued(Queued, MaxConcurrent)
               THEN row'[b].status = "cloning" /\ worker'[b].pc = "start"
               ELSE /\ row'[b].status \notin EXECUTING_BUILD_STATUSES
                    /\ worker'[b].pc = "none"
    <3>1. row[b] \in Rows
      BY DEF SlotInv, TypeOK
    <3>2. /\ AsFailed(row[b]).status = "failed" /\ AsFailed(row[b]) \in Rows
          /\ WithStatus(row[b], "cloning").status = "cloning"
      BY <3>1, NewRow DEF Statuses, EXECUTING_BUILD_STATUSES
    <3>3. \A r \in Rows : [r EXCEPT !.cancel = FALSE].status = r.status
      BY DEF Rows
    <3>4. CASE b \in Interrupted
      <4>1. b \notin FirstQueued(Queued, MaxConcurrent)
        BY <3>4 DEF Interrupted, FirstQueued, Queued, EXECUTING_BUILD_STATUSES
      <4>2. row'[b].status = "failed" /\ worker'[b].pc = "none"
        BY <2>0, <2>1, <3>2, <3>3, <3>4, <4>1
      <4> QED  BY <4>1, <4>2 DEF EXECUTING_BUILD_STATUSES
    <3>5. CASE b \notin Interrupted /\ b \in Unhealthy(healthy)
      <4>1. b \notin FirstQueued(Queued, MaxConcurrent)
        BY <3>5 DEF Unhealthy, FirstQueued, Queued
      <4>2. row'[b].status = "failed" /\ worker'[b].pc = "none"
        BY <2>0, <2>1, <3>2, <3>5, <4>1
      <4> QED  BY <4>1, <4>2 DEF EXECUTING_BUILD_STATUSES
    <3>6. CASE b \notin Interrupted /\ b \notin Unhealthy(healthy)
      <4>1. CASE b \in FirstQueued(Queued, MaxConcurrent)
        BY <2>1, <3>2, <3>6, <4>1 DEF Started
      <4>2. CASE b \notin FirstQueued(Queued, MaxConcurrent)
        BY <2>0, <2>1, <3>6, <4>2 DEF Interrupted
      <4> QED  BY <4>1, <4>2
    <3> QED  BY <3>4, <3>5, <3>6
  <2>3. DownIsQuiet' /\ PickedRow' /\ HandlerKnows'
    BY <2>0 DEF DownIsQuiet, PickedRow, HandlerKnows
  <2>4. PipelineRow' /\ SkippedCancel'
    BY <2>0, <2>2 DEF PipelineRow, SkippedCancel, PIPELINE_PCS, WRITE_PCS, Live,
                      EXECUTING_BUILD_STATUSES
  <2>5. CountedIsBacked'
    BY <2>2 DEF CountedIsBacked, Executing, PIPELINE_PCS
  <2> QED  BY <1>1, <2>3, <2>4, <2>5 DEF SlotInv
<1> QED  BY <1>2, <1>3

(* A step that changes nothing keeps everything. *)
LEMMA SlotStutter == SlotInv /\ UNCHANGED vars => SlotInv'
BY DEF vars, SlotInv, TypeOK, DownIsQuiet, PipelineRow, SkippedCancel, PickedRow,
       HandlerKnows, Settled, Left, CountedIsBacked, Executing, Backed

LEMMA SlotNext == SlotInv /\ [Next]_vars => SlotInv'
BY SlotWorker, SlotRequest, SlotServe, SlotProcess, SlotStutter DEF Next

------------------------------------------------------------------------------
(* The type invariant of the engine, for every instance. *)
THEOREM TypeCorrect == Spec => []TypeOK
<1>1. SlotInv => TypeOK
  BY DEF SlotInv
<1> QED  BY <1>1, SlotInit, SlotNext, PTL DEF Spec

(* No slot of MAX_CONCURRENT_BUILDS is ever leaked: while the process is   *)
(* up every row that count_executing_builds counts has a pipeline or a     *)
(* restart that will still write its final status.                         *)
THEOREM NoSlotLeaks == Spec => []ExecutingHasThread
<1>1. SlotInv => ExecutingHasThread
  BY DEF SlotInv, CountedIsBacked, Backed, ExecutingHasThread, Restarting
<1> QED  BY <1>1, SlotInit, SlotNext, PTL DEF Spec

------------------------------------------------------------------------------
(* What operators did, what is claimed, and what serves.                   *)

(* Whatever shows a cancellation or a deletion, and whoever is about to    *)
(* show one, is about a build that an operator touched.                    *)
ShowsCancel(b) ==
    \/ row[b].cancel \/ row[b].status \in {"cancel_requested", "cancelled", "deleted"}
    \/ worker[b].pc \in {"finCleanup", "finWrite"}

Interferes(h) ==
    \/ req[h].op = "cancel" /\ req[h].pc = "cleanup"
    \/ req[h].op = "delete" /\ req[h].pc = "write"
    \/ req[h].op = "restart" /\ req[h].pc \in RESTART_PCS

Marked ==
    /\ \A b \in Builds : ShowsCancel(b) => b \in touched
    /\ \A h \in Handlers : Interferes(h) => req[h].build \in touched

(* The slots taken: the rows that count, and those picked but not yet      *)
(* written; they fit the limit.                                            *)
Taken == (Executing \ touched) \cup lock
Fits  == Cardinality(Taken) <= MaxConcurrent

(* From its launch on a build that nobody touched has its container up on  *)
(* the port of its row, and its worker's copy has that port; a crash may   *)
(* leave a running row whose container is down.                            *)
Serves(b) ==
    /\ worker[b].pc \in {"launch", "toHealth", "health", "toRunning"} =>
         worker[b].seen.port = row[b].port
    /\ worker[b].pc \in {"toHealth", "health", "toRunning"} => main[b] = UpOn(row[b].port)
    /\ row[b].status = "running" => main[b] = UpOn(row[b].port) \/ (~up /\ main[b].state # "up")

Launched == \A b \in Builds \ touched : Serves(b)

(* A stop that has written the row, and a restart, are of a build that     *)
(* does not run any more.                                                  *)
Halts(h) ==
    /\ (req[h].op = "stop" /\ req[h].pc # "write") \/ req[h].op = "restart" =>
         req[h].build \in touched \/ row[req[h].build].status # "running"
    /\ req[h].op = "stop" /\ req[h].pc = "write" => req[h].seen.status = "running"

Halted == \A h \in Handlers : Halts(h)

ServeInv == Marked /\ Fits /\ Launched /\ Halted

(* A commit keeps a column that the thread did not change.                 *)
LEMMA FlushKeeps ==
    ASSUME NEW now \in Rows, NEW seen \in Rows, NEW new \in Rows
    PROVE  /\ new.cancel = seen.cancel => Flush(now, seen, new).cancel = now.cancel
           /\ ~new.cancel => (Flush(now, seen, new).cancel => now.cancel)
           /\ new.port = seen.port => Flush(now, seen, new).port = now.port
BY DEF Rows, Flush, Merge

(* Some builds are finitely many, and a part of them is at most as many.   *)
LEMMA FewerBuilds ==
    ASSUME NEW T, T \subseteq Builds
    PROVE  /\ IsFiniteSet(T) /\ Cardinality(T) \in Nat
           /\ \A S \in SUBSET T : IsFiniteSet(S) /\ Cardinality(S) \in Nat
                                /\ Cardinality(S) <= Cardinality(T)
<1>1. IsFiniteSet(Builds)
  BY BuildAssumption, FS_Interval DEF Builds
<1>2. IsFiniteSet(T) /\ Cardinality(T) \in Nat
  BY <1>1, FS_Subset, FS_CardinalityType
<1>3. ASSUME NEW S \in SUBSET T
      PROVE  IsFiniteSet(S) /\ Cardinality(S) \in Nat /\ Cardinality(S) <= Cardinality(T)
  BY <1>2, FS_Subset, FS_CardinalityType
<1> QED  BY <1>2, <1>3

(* The oldest n of some builds are at most n: none counts more than n up   *)
(* to the last of them.                                                    *)
LEMMA FirstFit ==
    ASSUME NEW q, q \subseteq Builds, NEW n \in Int
    PROVE  /\ FirstQueued(q, n) \subseteq q
           /\ n >= 0 => Cardinality(FirstQueued(q, n)) <= n
           /\ n < 0 => FirstQueued(q, n) = {}
<1> DEFINE S == FirstQueued(q, n)
           D == {k \in Nat : \E b \in S : k = MaxBuilds - b}
<1>1. S \subseteq q /\ S \subseteq Nat /\ \A b \in S : MaxBuilds - b \in Nat
  <2>1. S \subseteq q
    BY DEF FirstQueued
  <2>2. MaxBuilds \in Nat
    BY BuildAssumption
  <2> HIDE DEF S
  <2> QED  BY <2>1, <2>2 DEF Builds
<1>2. \A b \in S : Cardinality({c \in q : c <= b}) <= n
  BY DEF FirstQueued
<1>3. \A T \in SUBSET q : IsFiniteSet(T) /\ Cardinality(T) \in Nat
  BY FewerBuilds
<1>4. CASE S = {}
  BY <1>4, <1>1, FS_EmptySet
<1>5. CASE S # {}
  <2>1. D # {} /\ D \subseteq Nat
    BY <1>1, <1>5
  <2>2. PICK k \in D : \A i \in D : ~ (<<i, k>> \in OpToRel(<, Nat))
    BY <2>1, NatLessThanWellFounded, WFMin
  <2>3. PICK m \in S : k = MaxBuilds - m
    OBVIOUS
  <2>4. ASSUME NEW b \in S
        PROVE  b <= m
    <3>1. MaxBuilds - b \in D /\ MaxBuilds - b \in Nat /\ k \in Nat
      BY <1>1, <2>1
    <3>2. ~(MaxBuilds - b < k)
      BY <3>1, <2>2 DEF OpToRel
    <3> QED  BY <3>2, <2>3, <1>1, BuildAssumption
  <2>5. S \subseteq {c \in q : c <= m}
    BY <1>1, <2>4
  <2>6. Cardinality(S) <= Cardinality({c \in q : c <= m})
    <3>1. {c \in q : c <= m} \subseteq Builds
      OBVIOUS
    <3> QED  BY <2>5, <3>1, FewerBuilds
  <2>7. Cardinality(S) <= n /\ n >= 0
    BY <1>1, <1>2, <1>3, <2>3, <2>5, <2>6
  <2> QED  BY <1>1, <2>7
<1> QED  BY <1>4, <1>5

(* A pick under the lock fits beside what is executing.                    *)
LEMMA PicksFit ==
    ASSUME TypeOK, Fits, lock = {}, UNCHANGED <<row, touched>>,
           lock' = KickPicks \/ \E b : lock' = EnqueuePicks(b)
    PROVE  Fits'
<1> DEFINE n == Cardinality(Executing)
<1>1. /\ Executing \subseteq Builds /\ Queued \subseteq Builds /\ n \in Nat
      /\ Executing' = Executing /\ Taken' \subseteq Executing \cup lock'
      /\ MaxConcurrent \in Nat
  BY CountIsNat, BuildAssumption DEF Executing, Queued, Taken
<1>2. CASE lock' = {}
  BY <1>1, <1>2 DEF Fits, Taken
<1>3. CASE lock' # {}
  <2>1. /\ lock' \subseteq Builds /\ Cardinality(lock') \in Nat
        /\ n + Cardinality(lock') <= MaxConcurrent
    <3>1. CASE lock' = KickPicks
      BY <1>1, <1>3, <3>1, FirstFit, CountIsNat DEF KickPicks
    <3>2. CASE \E b : lock' = EnqueuePicks(b)
      <4>1. PICK b : lock' = {b} /\ b \in Queued /\ n < MaxConcurrent
        BY <1>3, <3>2 DEF EnqueuePicks
      <4>2. Cardinality({b}) = 1
        BY FS_Singleton
      <4> QED  BY <1>1, <4>1, <4>2
    <3> QED  BY <3>1, <3>2
  <2>2. IsFiniteSet(Executing) /\ IsFiniteSet(lock') /\ IsFiniteSet(Executing \cap lock')
    <3>1. Executing \cap lock' \subseteq Builds
      BY <1>1
    <3> QED  BY <1>1, <2>1, <3>1, FewerBuilds
  <2>3. Cardinality(Executing \cup lock') <= n + Cardinality(lock')
    <3>1. /\ Cardinality(Executing \cup lock')
               = n + Cardinality(lock') - Cardinality(Executing \cap lock')
          /\ Cardinality(Executing \cap lock') \in Nat
      BY <2>2, FS_Union, FS_CardinalityType
    <3> QED  BY <1>1, <2>1, <3>1
  <2>4. Cardinality(Taken') <= Cardinality(Executing \cup lock')
    BY <1>1, <2>1, FewerBuilds
  <2>5. Cardinality(Taken') \in Nat /\ Cardinality(Executing \cup lock') \in Nat
    <3>1. Executing \cup lock' \subseteq Builds /\ Taken' \subseteq Builds
      BY <1>1, <2>1
    <3> QED  BY <3>1, CountIsNat
  <2> QED  BY <1>1, <2>1, <2>3, <2>4, <2>5 DEF Fits
<1> QED  BY <1>2, <1>3

(* A step about one build keeps everything if it keeps it for that build   *)
(* and for the requests that move, takes no new slot, and lets a build run *)
(* only out of its own pipeline.                                           *)
LEMMA OneBuild ==
    ASSUME SlotInv, TypeOK', ServeInv, NEW b \in Builds,
           touched \subseteq touched', UNCHANGED <<lock, up>>,
           \A c \in Builds \ {b} : row'[c] = row[c] /\ main'[c] = main[c] /\ worker'[c] = worker[c],
           ShowsCancel(b)' => b \in touched',
           b \in Executing' => b \in Executing \/ b \in touched',
           b \notin touched' => Serves(b)',
           \A h \in Handlers : req'[h] = req[h] \/ ((Interferes(h)' => req'[h].build \in touched') /\ Halts(h)'),
           row'[b].status = "running" /\ b \notin touched' =>
               row[b].status = "running" \/ worker[b].pc \in PIPELINE_PCS
    PROVE  ServeInv'
<1>1. Marked'
  <2>1. ASSUME NEW c \in Builds, ShowsCancel(c)'
        PROVE  c \in touched'
    BY <2>1 DEF ServeInv, Marked, ShowsCancel
  <2>2. ASSUME NEW h \in Handlers, Interferes(h)'
        PROVE  req'[h].build \in touched'
    BY <2>2 DEF ServeInv, Marked, Interferes
  <2> QED  BY <2>1, <2>2 DEF Marked
<1>2. Fits'
  <2>1. Executing' \ touched' \subseteq Executing \ touched
    BY DEF Executing
  <2>2. Taken' \subseteq Taken /\ Taken \subseteq Builds /\ Taken' \subseteq Builds
    BY <2>1 DEF Taken, Executing, SlotInv, TypeOK
  <2> QED  BY <2>2, FewerBuilds, CountIsNat, BuildAssumption DEF Fits, ServeInv
<1>3. Launched'
  <2> SUFFICES ASSUME NEW c \in Builds \ touched'
               PROVE  Serves(c)'
    BY DEF Launched
  <2>1. CASE c = b
    BY <2>1
  <2>2. CASE c # b
    BY <2>2 DEF ServeInv, Launched, Serves
  <2> QED  BY <2>1, <2>2
<1>4. Halted'
  <2> SUFFICES ASSUME NEW h \in Handlers, req'[h] = req[h]
               PROVE  Halts(h)'
    BY DEF Halted
  <2>1. Halts(h)
    BY DEF ServeInv, Halted
  <2>2. CASE req[h].op \in {"stop", "restart"}
    <3>1. req[h].build \in Builds /\ worker[req[h].build].pc \notin PIPELINE_PCS
      <4>1. Settled(req[h].build) /\ req[h].build \in Builds
        BY <2>2 DEF SlotInv, HandlerKnows
      <4> QED  BY <4>1 DEF Settled, TAIL_PCS, PIPELINE_PCS, WRITE_PCS
    <3> QED  BY <2>1, <3>1 DEF Halts
  <2>3. CASE req[h].op \notin {"stop", "restart"}
    BY <2>3 DEF Halts
  <2> QED  BY <2>2, <2>3
<1> QED  BY <1>1, <1>2, <1>3, <1>4 DEF ServeInv

(* A step of requests only.                                                *)
LEMMA RequestsOnly ==
    ASSUME SlotInv, ServeInv, touched' = touched, UNCHANGED <<row, main, worker, lock, up>>,
           \A h \in Handlers : req'[h] = req[h] \/ ((Interferes(h)' => req'[h].build \in touched') /\ Halts(h)')
    PROVE  ServeInv'
<1>1. Marked'
  BY DEF ServeInv, Marked, ShowsCancel, Interferes
<1>2. Fits'
  BY DEF ServeInv, Fits, Taken, Executing
<1>3. Launched'
  BY DEF ServeInv, Launched, Serves
<1>4. Halted'
  BY DEF ServeInv, Halted, Halts
<1> QED  BY <1>1, <1>2, <1>3, <1>4 DEF ServeInv


(* A step that picks rows, and moves threads outside the pipelines.        *)
LEMMA Unmoved ==
    ASSUME SlotInv, ServeInv, Fits', UNCHANGED <<row, main, touched, up>>,
           \A c \in Builds : worker'[c] = worker[c] \/ worker'[c].pc \in TAIL_PCS,
           \A h \in Handlers : req'[h] = req[h] \/ ((Interferes(h)' => req'[h].build \in touched') /\ Halts(h)')
    PROVE  ServeInv'
<1>1. Marked'
  <2>1. ASSUME NEW c \in Builds, ShowsCancel(c)'
        PROVE  ShowsCancel(c)
    BY <2>1 DEF ShowsCancel, TAIL_PCS
  <2>2. ASSUME NEW h \in Handlers, Interferes(h)'
        PROVE  req'[h].build \in touched'
    BY <2>2 DEF ServeInv, Marked, Interferes
  <2> QED  BY <2>1, <2>2 DEF Marked, ServeInv
<1>2. Launched'
  <2> SUFFICES ASSUME NEW c \in Builds \ touched
               PROVE  Serves(c)'
    BY DEF Launched
  <2>1. Serves(c)
    BY DEF ServeInv, Launched
  <2> QED  BY <2>1 DEF Serves, TAIL_PCS
<1>3. Halted'
  BY DEF ServeInv, Halted, Halts
<1> QED  BY <1>1, <1>2, <1>3 DEF ServeInv

(* A claim turns picked rows into executing ones, slot for slot.           *)
LEMMA ClaimFits ==
    ASSUME SlotInv, ServeInv, ClaimRows, lock' = {}, UNCHANGED <<main, touched, up>>,
           \A c \in lock : worker'[c] = Started,
           \A c \in Builds \ lock : worker'[c] = worker[c] \/ worker'[c].pc \in TAIL_PCS,
           \A h \in Handlers : req'[h] = req[h] \/ ((Interferes(h)' => req'[h].build \in touched') /\ Halts(h)')
    PROVE  ServeInv'
<1>0. /\ lock \subseteq Builds /\ row \in [Builds -> Rows]
      /\ \A c \in lock : row'[c].status = "cloning" /\ row'[c].cancel = row[c].cancel
      /\ \A c \in Builds \ lock : row'[c] = row[c]
  BY DEF SlotInv, TypeOK, ClaimRows, Rows
<1>1. Marked'
  <2>1. ASSUME NEW c \in Builds, ShowsCancel(c)'
        PROVE  ShowsCancel(c)
    <3>1. CASE c \in lock
      BY <1>0, <2>1, <3>1 DEF ShowsCancel, Started
    <3>2. CASE c \notin lock
      BY <1>0, <2>1, <3>2 DEF ShowsCancel, TAIL_PCS
    <3> QED  BY <3>1, <3>2
  <2>2. ASSUME NEW h \in Handlers, Interferes(h)'
        PROVE  req'[h].build \in touched'
    BY <2>2 DEF ServeInv, Marked, Interferes
  <2> QED  BY <2>1, <2>2 DEF Marked, ServeInv
<1>2. Fits'
  <2>1. Taken' \subseteq Taken /\ Taken \subseteq Builds /\ Taken' \subseteq Builds
    BY <1>0 DEF Taken, Executing
  <2> QED  BY <2>1, FewerBuilds, BuildAssumption DEF Fits, ServeInv
<1>3. Launched'
  <2> SUFFICES ASSUME NEW c \in Builds \ touched
               PROVE  Serves(c)'
    BY DEF Launched
  <2>1. Serves(c)
    BY DEF ServeInv, Launched
  <2>2. CASE c \in lock
    BY <1>0, <2>2 DEF Serves, Started
  <2>3. CASE c \notin lock
    BY <1>0, <2>1, <2>3 DEF Serves, TAIL_PCS
  <2> QED  BY <2>2, <2>3
<1>4. Halted'
  <2> SUFFICES ASSUME NEW h \in Handlers, req'[h] = req[h]
               PROVE  Halts(h)'
    BY DEF Halted
  <2>1. Halts(h)
    BY DEF ServeInv, Halted
  <2>2. CASE req[h].op \in {"stop", "restart"}
    <3>1. req[h].build \in Builds \ lock
      BY <2>2 DEF SlotInv, HandlerKnows, Settled, Left
    <3> QED  BY <1>0, <2>1, <3>1 DEF Halts
  <2>3. CASE req[h].op \notin {"stop", "restart"}
    BY <2>3 DEF Halts
  <2> QED  BY <2>2, <2>3
<1> QED  BY <1>1, <1>2, <1>3, <1>4 DEF ServeInv


(* Every step of a pipeline keeps what is claimed and what serves.         *)
LEMMA ServeWorker ==
    ASSUME SlotInv, ServeInv, NEW b \in Builds, Worker(b)
    PROVE  ServeInv'
<1>1. TypeOK /\ TypeOK' /\ up
  BY TypeWorker, ThreadsNeedProcess DEF SlotInv
<1>2. /\ row[b] \in Rows /\ worker[b].seen \in Rows
      /\ row \in [Builds -> Rows] /\ worker \in [Builds -> Workers] /\ main \in [Builds -> MainStates]
  BY <1>1 DEF TypeOK, Workers
<1>3. up' /\ UNCHANGED <<req, touched>>
  BY <1>1 DEF Worker, Load, Clone, Install, CreateDatabase, InitModules,
       SetPassword, Launch, HealthCheck, SetStatus, CleanupContainers, WriteFinal,
       WorkerKick, WorkerClaim, process, history
<1>4. /\ ShowsCancel(b) => b \in touched
      /\ b \notin touched => Serves(b)
      /\ worker[b].pc \in PIPELINE_PCS => row[b].status \in Live
  BY DEF ServeInv, Marked, Launched, SlotInv, PipelineRow
(* Steps that leave the row and only move the worker. *)
<1>5. ASSUME UNCHANGED <<row, lock>>, worker[b].pc \in PIPELINE_PCS,
             \A c \in Builds \ {b} : main'[c] = main[c],
             NEW pc \in WorkerPcs, Goto(b, pc) \/ CheckCancel(b, pc),
             pc \notin {"finCleanup", "finWrite"} \/ b \in touched,
             pc = "launch" => CheckCancel(b, pc),
             pc \in {"toHealth", "health", "toRunning"} =>
                 CheckCancel(b, pc) /\ (b \notin touched => main'[b] = UpOn(row[b].port))
      PROVE  ServeInv'
  <2>1. \A c \in Builds \ {b} : row'[c] = row[c] /\ worker'[c] = worker[c]
    BY <1>2, <1>5 DEF Goto, CheckCancel
  <2>2. \/ worker'[b].pc = pc /\ (CheckCancel(b, pc) => worker'[b].seen = row[b])
        \/ worker'[b].pc = "finCleanup" /\ CancelSeen(row[b])
    <3>1. ASSUME CheckCancel(b, pc)
          PROVE  /\ worker'[b].pc = IF CancelSeen(row[b]) THEN "finCleanup" ELSE pc
                 /\ worker'[b].seen = row[b]
      BY <1>2, <3>1 DEF CheckCancel
    <3>2. Goto(b, pc) => worker'[b].pc = pc
      BY <1>2 DEF Goto, Workers
    <3> QED  BY <1>5, <3>1, <3>2
  <2>3. ShowsCancel(b)' => b \in touched'
    <3>1. CancelSeen(row[b]) => ShowsCancel(b)
      BY DEF ShowsCancel, CancelSeen
    <3>2. ShowsCancel(b)' => ShowsCancel(b) \/ worker'[b].pc \in {"finCleanup", "finWrite"}
      BY <1>5 DEF ShowsCancel
    <3> QED  BY <1>3, <1>4, <1>5, <2>2, <3>1, <3>2
  <2>4. b \notin touched' => Serves(b)'
    <3> SUFFICES ASSUME b \notin touched
                 PROVE  Serves(b)'
      BY <1>3
    <3>1. ~CancelSeen(row[b]) /\ worker'[b].pc = pc
      BY <1>4, <2>2 DEF ShowsCancel, CancelSeen
    <3>2. row'[b] = row[b] /\ row[b].status # "running"
      BY <1>4, <1>5 DEF Live, EXECUTING_BUILD_STATUSES
    <3> QED  BY <1>5, <2>2, <3>1, <3>2 DEF Serves
  <2>5. b \in Executing' => b \in Executing
    BY <1>5 DEF Executing
  <2> QED  BY <1>1, <1>3, <1>5, <2>1, <2>3, <2>4, <2>5, OneBuild
(* Steps that write the row and leave the containers. *)
<1>6. ASSUME UNCHANGED <<main, lock>>, worker[b].pc \in PIPELINE_PCS,
             NEW new \in Rows, NEW seen \in Rows, Commit(b, seen, new), NEW w \in Workers,
             worker' = [worker EXCEPT ![b] = w],
             w.pc \notin {"finCleanup", "finWrite", "launch", "toHealth", "toRunning"},
             w.pc = "health" => worker[b].pc = "toHealth" /\ w.seen = row'[b],
             new.cancel = seen.cancel \/ ~new.cancel,
             b \notin touched => new.status \notin {"cancel_requested", "cancelled", "deleted"},
             w.pc = "health" \/ new.status = "running" => new.port = seen.port,
             new.status = "running" => worker[b].pc = "toRunning"
      PROVE  ServeInv'
  <2>1. /\ row' = [row EXCEPT ![b] = Flush(row[b], seen, new)]
        /\ row'[b] = Flush(row[b], seen, new)
        /\ \A c \in Builds \ {b} : row'[c] = row[c] /\ worker'[c] = worker[c] /\ main'[c] = main[c]
        /\ worker'[b] = w
    BY <1>2, <1>6 DEF Commit
  <2>2. /\ row'[b].status \in {row[b].status, new.status}
        /\ row'[b].cancel => row[b].cancel
        /\ new.port = seen.port => row'[b].port = row[b].port
    <3>1. Flush(row[b], seen, new).status \in {row[b].status, new.status}
      BY <1>2, <1>6, FlushRow
    <3>2. row[b].cancel \in BOOLEAN /\ Flush(row[b], seen, new).cancel \in BOOLEAN
      BY <1>2, <1>6, FlushRow DEF Rows
    <3>3. /\ new.cancel = seen.cancel => Flush(row[b], seen, new).cancel = row[b].cancel
          /\ ~new.cancel => (Flush(row[b], seen, new).cancel => row[b].cancel)
          /\ new.port = seen.port => Flush(row[b], seen, new).port = row[b].port
      BY <1>2, <1>6, FlushKeeps
    <3> QED  BY <1>6, <2>1, <3>1, <3>2, <3>3
  <2>3. ShowsCancel(b)' => b \in touched'
    BY <1>3, <1>4, <1>6, <2>1, <2>2 DEF ShowsCancel
  <2>4. b \in Executing' => b \in Executing \/ b \in touched'
    <3>1. row[b].status \in EXECUTING_BUILD_STATUSES \/ b \in touched
      BY <1>4, <1>6 DEF ShowsCancel, Live
    <3> QED  BY <1>3, <3>1 DEF Executing
  <2>5. b \notin touched' => Serves(b)'
    <3> SUFFICES ASSUME b \notin touched
                 PROVE  Serves(b)'
      BY <1>3
    <3>1. Serves(b) /\ row[b].status # "running" /\ main'[b] = main[b]
      BY <1>4, <1>6 DEF Live, EXECUTING_BUILD_STATUSES
    <3>2. row'[b].status = "running" => main'[b] = UpOn(row'[b].port)
      BY <1>6, <2>2, <3>1 DEF Serves
    <3>3. w.pc = "health" => main'[b] = UpOn(row'[b].port)
      BY <1>6, <2>2, <3>1 DEF Serves
    <3> QED  BY <1>6, <2>1, <3>2, <3>3 DEF Serves
  <2> QED  BY <1>1, <1>3, <1>6, <2>1, <2>3, <2>4, <2>5, OneBuild
<1>10. CASE Load(b)
  <2>0. worker[b].pc \in PIPELINE_PCS
    BY <1>10 DEF Load, WorkerAt, PIPELINE_PCS
  <2>1. CASE Commit(b, row[b], WithStatus(row[b], "cloning")) /\ ~CancelSeen(row[b])
             /\ worker' = [worker EXCEPT ![b] = [pc |-> "clone", seen |-> row'[b]]]
    <3>1. WithStatus(row[b], "cloning") \in Rows /\ WithStatus(row[b], "cloning").status = "cloning"
          /\ WithStatus(row[b], "cloning").cancel = row[b].cancel
      BY <1>2, NewRow DEF Statuses, EXECUTING_BUILD_STATUSES, WithStatus, Rows
    <3>2. [pc |-> "clone", seen |-> row'[b]] \in Workers
      BY <1>1 DEF TypeOK, Workers, WorkerPcs, PIPELINE_PCS
    <3> QED  BY <1>2, <1>6, <1>10, <2>0, <2>1, <3>1, <3>2 DEF Load, resources
  <2>2. CASE UNCHANGED row /\ \/ worker' = [worker EXCEPT ![b] = [pc |-> "kick", seen |-> NoRow]]
                              \/ /\ worker' = [worker EXCEPT ![b] = [pc |-> "finCleanup", seen |-> row[b]]]
                                 /\ CancelSeen(row[b])
    <3>1. \A c \in Builds \ {b} : row'[c] = row[c] /\ main'[c] = main[c] /\ worker'[c] = worker[c]
      BY <1>2, <1>10, <2>2 DEF Load, resources
    <3>2. row'[b] = row[b] /\ main'[b] = main[b] /\ worker'[b].pc \in {"kick", "finCleanup"}
          /\ (worker'[b].pc = "finCleanup" => CancelSeen(row[b]))
      BY <1>2, <1>10, <2>2 DEF Load, resources
    <3>3. ShowsCancel(b)' => b \in touched'
      BY <1>3, <1>4, <3>2 DEF ShowsCancel, CancelSeen
    <3>4. b \notin touched' => Serves(b)'
      BY <1>1, <1>3, <1>4, <3>2 DEF Serves
    <3>5. b \in Executing' => b \in Executing
      BY <3>2 DEF Executing
    <3> QED  BY <1>1, <1>3, <1>10, <3>1, <3>2, <3>3, <3>4, <3>5, OneBuild DEF Load
  <2> QED  BY <1>10, <2>1, <2>2 DEF Load
<1>11. CASE Clone(b)
  <2>1. "toBuilding" \in WorkerPcs /\ "failCleanup" \in WorkerPcs /\ worker[b].pc \in PIPELINE_PCS
    BY <1>11 DEF Clone, WorkerAt, WorkerPcs, PIPELINE_PCS, WRITE_PCS
  <2> QED  BY <1>5, <1>11, <2>1 DEF Clone
<1>12. CASE Install(b)
  <2>1. "toDatabase" \in WorkerPcs /\ "failCleanup" \in WorkerPcs /\ worker[b].pc \in PIPELINE_PCS
    BY <1>12 DEF Install, WorkerAt, WorkerPcs, PIPELINE_PCS, WRITE_PCS
  <2> QED  BY <1>5, <1>12, <2>1 DEF Install, resources
<1>13. CASE CreateDatabase(b)
  <2>1. "toStarting" \in WorkerPcs /\ "failCleanup" \in WorkerPcs /\ worker[b].pc \in PIPELINE_PCS
    BY <1>13 DEF CreateDatabase, WorkerAt, WorkerPcs, PIPELINE_PCS, WRITE_PCS
  <2> QED  BY <1>5, <1>13, <2>1 DEF CreateDatabase
<1>14. CASE InitModules(b)
  <2>1. "password" \in WorkerPcs /\ "failCleanup" \in WorkerPcs /\ worker[b].pc \in PIPELINE_PCS
    BY <1>14 DEF InitModules, WorkerAt, WorkerPcs, PIPELINE_PCS, WRITE_PCS
  <2> QED  BY <1>5, <1>14, <2>1 DEF InitModules, resources
<1>15. CASE SetPassword(b)
  <2>1. "launch" \in WorkerPcs /\ worker[b].pc \in PIPELINE_PCS
    BY <1>15 DEF SetPassword, WorkerAt, WorkerPcs, PIPELINE_PCS, WRITE_PCS
  <2> QED  BY <1>5, <1>15, <2>1 DEF SetPassword, resources
<1>16. CASE Launch(b)
  <2>1. "toHealth" \in WorkerPcs /\ "failCleanup" \in WorkerPcs /\ worker[b].pc \in PIPELINE_PCS
    BY <1>16 DEF Launch, WorkerAt, WorkerPcs, PIPELINE_PCS, WRITE_PCS
  <2>2. CASE RunMain(b, worker[b].seen.port) /\ CheckCancel(b, "toHealth")
    <3>1. b \notin touched => worker[b].seen.port = row[b].port
      BY <1>4, <1>16 DEF Serves, Launch, WorkerAt
    <3>2. main'[b] = UpOn(worker[b].seen.port) /\ \A c \in Builds \ {b} : main'[c] = main[c]
      BY <1>2, <2>2 DEF RunMain
    <3> QED  BY <1>5, <1>16, <2>1, <2>2, <3>1, <3>2 DEF Launch
  <2>3. CASE Remove(b) /\ Goto(b, "failCleanup")
    <3>1. \A c \in Builds \ {b} : main'[c] = main[c]
      BY <1>2, <2>3 DEF Remove
    <3> QED  BY <1>5, <1>16, <2>1, <2>3, <3>1 DEF Launch
  <2> QED  BY <1>16, <2>2, <2>3 DEF Launch
<1>17. CASE HealthCheck(b)
  <2>1. "toRunning" \in WorkerPcs /\ "failCleanup" \in WorkerPcs /\ worker[b].pc \in PIPELINE_PCS
    BY <1>17 DEF HealthCheck, WorkerAt, WorkerPcs, PIPELINE_PCS, WRITE_PCS
  <2>2. b \notin touched => main[b] = UpOn(row[b].port)
    BY <1>4, <1>17 DEF Serves, HealthCheck, WorkerAt
  <2> QED  BY <1>5, <1>17, <2>1, <2>2 DEF HealthCheck, resources
<1>18. CASE SetStatus(b)
  <2> DEFINE s == StatusOf[worker[b].pc]
             w == [pc   |-> PcAfter[worker[b].pc],
                   seen |-> IF WorkerAt(b, "toRunning") THEN NoRow ELSE row'[b]]
  <2>1. /\ worker[b].pc \in PIPELINE_PCS /\ s \in Statuses
        /\ s \notin {"cancel_requested", "cancelled", "deleted"}
        /\ s = "running" => worker[b].pc = "toRunning"
        /\ PcAfter[worker[b].pc] \in WorkerPcs
        /\ PcAfter[worker[b].pc] \notin {"finCleanup", "finWrite", "launch", "toHealth", "toRunning"}
        /\ PcAfter[worker[b].pc] = "health" => worker[b].pc = "toHealth"
    BY <1>18 DEF SetStatus, WRITE_PCS, StatusOf, PcAfter, Statuses,
                 EXECUTING_BUILD_STATUSES, WorkerPcs, PIPELINE_PCS, TAIL_PCS
  <2>2. /\ WithStatus(worker[b].seen, s) \in Rows /\ WithStatus(worker[b].seen, s).status = s
        /\ WithStatus(worker[b].seen, s).cancel = worker[b].seen.cancel
        /\ WithStatus(worker[b].seen, s).port = worker[b].seen.port
    BY <1>2, <2>1, NewRow DEF WithStatus, Rows
  <2>3. w \in Workers /\ w.pc = PcAfter[worker[b].pc]
        /\ (worker[b].pc = "toHealth" => w.seen = row'[b])
    BY <1>1, <2>1, Constants DEF Workers, TypeOK, WorkerAt
  <2>4. Commit(b, worker[b].seen, WithStatus(worker[b].seen, s)) /\ worker' = [worker EXCEPT ![b] = w]
        /\ UNCHANGED <<main, lock>>
    BY <1>18 DEF SetStatus, resources
  <2> HIDE DEF s, w
  <2> QED  BY <1>2, <1>6, <2>1, <2>2, <2>3, <2>4
<1>19. CASE CleanupContainers(b)
  <2>1. worker[b].pc \in PIPELINE_PCS /\ "failWrite" \in WorkerPcs /\ "finWrite" \in WorkerPcs
    BY <1>19 DEF CleanupContainers, WorkerAt, WorkerPcs, PIPELINE_PCS
  <2>2. \A c \in Builds \ {b} : main'[c] = main[c]
    BY <1>2, <1>19 DEF CleanupContainers, Remove
  <2>3. WorkerAt(b, "finCleanup") => b \in touched
    BY <1>4 DEF WorkerAt, ShowsCancel
  <2> QED  BY <1>5, <1>19, <2>1, <2>2, <2>3 DEF CleanupContainers
<1>20. CASE WriteFinal(b)
  <2> DEFINE w == [pc |-> "kick1", seen |-> NoRow]
  <2>1. /\ worker[b].pc \in PIPELINE_PCS /\ w \in Workers /\ w.pc = "kick1"
        /\ worker' = [worker EXCEPT ![b] = w] /\ UNCHANGED <<main, lock>>
    BY <1>20, Constants DEF WriteFinal, WorkerAt, PIPELINE_PCS, Workers, WorkerPcs, TAIL_PCS, resources
  <2>2. /\ AsFailed(worker[b].seen) \in Rows /\ AsFailed(worker[b].seen).status = "failed"
        /\ AsFailed(worker[b].seen).cancel = worker[b].seen.cancel
        /\ AsCancelled(worker[b].seen) \in Rows /\ AsCancelled(worker[b].seen).status = "cancelled"
        /\ ~AsCancelled(worker[b].seen).cancel
    BY <1>2, NewRow DEF AsFailed, AsCancelled, Rows
  <2>3. WorkerAt(b, "finWrite") => b \in touched
    BY <1>4 DEF WorkerAt, ShowsCancel
  <2>4. \/ Commit(b, worker[b].seen, AsFailed(worker[b].seen))
        \/ b \in touched /\ Commit(b, worker[b].seen, AsCancelled(worker[b].seen))
    BY <1>20, <2>3 DEF WriteFinal
  <2> HIDE DEF w
  <2> QED  BY <1>2, <1>6, <2>1, <2>2, <2>4
<1>21. CASE WorkerKick(b)
  <2>1. Fits'
    BY <1>1, <1>3, <1>21, PicksFit DEF WorkerKick, ServeInv
  <2>2. /\ UNCHANGED <<row, main, up>>
        /\ \A c \in Builds : worker'[c] = worker[c] \/ worker'[c].pc \in TAIL_PCS
    BY <1>1, <1>2, <1>3, <1>21 DEF WorkerKick, Goto, resources, NextPc, ClaimPc, TAIL_PCS
  <2> QED  BY <1>3, <2>1, <2>2, Unmoved
<1>22. CASE WorkerClaim(b)
  <2>1. \A c \in Builds \ lock : worker'[c] = worker[c] \/ worker'[c].pc \in TAIL_PCS
    BY <1>2, <1>22 DEF WorkerClaim, NextPc, TAIL_PCS
  <2>2. /\ ClaimRows /\ lock' = {} /\ UNCHANGED main
        /\ \A c \in lock : worker'[c] = Started
    BY <1>1, <1>22 DEF WorkerClaim, resources, TypeOK
  <2> QED  BY <1>1, <1>3, <2>1, <2>2, ClaimFits
<1> QED
  BY <1>10, <1>11, <1>12, <1>13, <1>14, <1>15, <1>16, <1>17, <1>18, <1>19, <1>20,
     <1>21, <1>22 DEF Worker


(* A request that is accepted has only read.                               *)
LEMMA ServeRequest ==
    ASSUME SlotInv, ServeInv, NEW h \in Handlers, Request(h)
    PROVE  ServeInv'
<1>1. req \in [Handlers -> Requests] /\ UNCHANGED <<row, main, worker, lock, up, touched>>
  BY DEF SlotInv, TypeOK, Request, CreateNumber, ExecuteBegin, CancelBegin, StopBegin,
         RestartBegin, DeleteBegin, Accept, resources, process, history
<1>2. \A g \in Handlers \ {h} : req'[g] = req[g]
  BY <1>1 DEF Request, CreateNumber, ExecuteBegin, CancelBegin, StopBegin, RestartBegin,
              DeleteBegin, Accept
<1>3. ~Interferes(h)' /\ Halts(h)'
  <2>1. CASE \E p \in Projects : CreateNumber(h, p)
    <3>1. req'[h].op = "create"
      BY <1>1, <2>1 DEF CreateNumber, Idle
    <3> QED  BY <3>1 DEF Interferes, Halts
  <2>2. ASSUME NEW op, NEW b \in Builds, NEW pc, Accept(h, op, b, pc)
        PROVE  req'[h].op = op /\ req'[h].pc = pc /\ req'[h].build = b /\ req'[h].seen = row[b]
    BY <1>1, <2>2 DEF Accept, Idle
  <2>3. ASSUME NEW b \in Builds, ExecuteBegin(h, b)
        PROVE  ~Interferes(h)' /\ Halts(h)'
    BY <2>2, <2>3 DEF ExecuteBegin, Interferes, Halts
  <2>4. ASSUME NEW b \in Builds, CancelBegin(h, b)
        PROVE  ~Interferes(h)' /\ Halts(h)'
    BY <2>2, <2>4 DEF CancelBegin, Interferes, Halts
  <2>5. ASSUME NEW b \in Builds, StopBegin(h, b)
        PROVE  ~Interferes(h)' /\ Halts(h)'
    BY <2>2, <2>5 DEF StopBegin, Interferes, Halts
  <2>6. ASSUME NEW b \in Builds, DeleteBegin(h, b)
        PROVE  ~Interferes(h)' /\ Halts(h)'
    BY <2>2, <2>6 DEF DeleteBegin, Interferes, Halts
  <2>7. ASSUME NEW b \in Builds, RestartBegin(h, b)
        PROVE  ~Interferes(h)' /\ Halts(h)'
    <3>1. /\ req'[h].op = "restart" /\ req'[h].build = b /\ req'[h].pc \in {"realloc", "write"}
          /\ row'[b].status = "stopped"
      BY <1>1, <2>2, <2>7 DEF RestartBegin
    <3> QED  BY <3>1 DEF Interferes, Halts, RESTART_PCS
  <2> QED  BY <2>1, <2>3, <2>4, <2>5, <2>6, <2>7 DEF Request
<1> QED  BY <1>1, <1>2, <1>3, RequestsOnly

(* Neither is a request without a kind, or one that creates or executes.   *)
LEMMA Harmless ==
    ASSUME NEW h \in Handlers, req[h].op \in {"none", "create", "execute"}
    PROVE  ~Interferes(h) /\ Halts(h)
BY DEF Interferes, Halts

(* A handler's commit on its build, when the build's pipeline is over or   *)
(* an operator has touched it now.                                         *)
LEMMA HandlerWrites ==
    ASSUME SlotInv, ServeInv, TypeOK', NEW h \in Handlers, NEW b \in Builds, NEW new \in Rows,
           Commit(b, req[h].seen, new), UNCHANGED <<worker, lock, up>>,
           \A c \in Builds \ {b} : main'[c] = main[c], touched \subseteq touched',
           \A g \in Handlers \ {h} : req'[g] = req[g],
           Interferes(h)' => req'[h].build \in touched', Halts(h)',
           \/ b \in touched'
           \/ /\ Settled(b) /\ new.cancel = req[h].seen.cancel
              /\ new.status \notin {"cancel_requested", "cancelled", "deleted", "running"}
              /\ new.status \notin EXECUTING_BUILD_STATUSES \/ new.status = req[h].seen.status
              /\ row'[b].status # "running"
    PROVE  ServeInv'
<1> DEFINE seen == req[h].seen
<1>1. /\ row \in [Builds -> Rows] /\ row[b] \in Rows /\ seen \in Rows
  BY DEF SlotInv, TypeOK, Requests
<1>2. row'[b] = Flush(row[b], seen, new) /\ \A c \in Builds \ {b} : row'[c] = row[c]
  BY <1>1 DEF Commit
<1>3. /\ Flush(row[b], seen, new).status \in {row[b].status, new.status}
      /\ new.status = seen.status => Flush(row[b], seen, new).status = row[b].status
      /\ new.cancel = seen.cancel => Flush(row[b], seen, new).cancel = row[b].cancel
  <2> HIDE DEF seen
  <2>1. /\ Flush(row[b], seen, new).status \in {row[b].status, new.status}
        /\ new.status = seen.status => Flush(row[b], seen, new).status = row[b].status
    BY <1>1, FlushRow
  <2>2. new.cancel = seen.cancel => Flush(row[b], seen, new).cancel = row[b].cancel
    BY <1>1, FlushKeeps
  <2> QED  BY <2>1, <2>2
<1> HIDE DEF seen
<1>4. ShowsCancel(b)' => b \in touched'
  <2>1. ShowsCancel(b) => b \in touched
    BY DEF ServeInv, Marked
  <2> QED  BY <1>2, <1>3, <2>1 DEF ShowsCancel, seen
<1>5. b \in Executing' => b \in Executing \/ b \in touched'
  BY <1>2, <1>3 DEF Executing, seen
<1>6. b \notin touched' => Serves(b)' /\ row'[b].status # "running"
  <2> SUFFICES ASSUME b \notin touched'
               PROVE  Serves(b)' /\ row'[b].status # "running"
    OBVIOUS
  <2>1. row'[b].status # "running" /\ worker'[b].pc \in TAIL_PCS
    BY DEF Settled
  <2> QED  BY <2>1 DEF Serves, TAIL_PCS
<1> QED  BY <1>2, <1>4, <1>5, <1>6, OneBuild


(* Every step of a request keeps what is claimed and what serves.          *)
LEMMA ServeServe ==
    ASSUME SlotInv, ServeInv, NEW h \in Handlers, Serve(h)
    PROVE  ServeInv'
<1> DEFINE b == req[h].build
           seen == req[h].seen
<1>1. TypeOK /\ TypeOK' /\ up
  BY TypeServe, ThreadsNeedProcess DEF SlotInv
<1>2. /\ req[h] \in Requests /\ req \in [Handlers -> Requests] /\ seen \in Rows
      /\ row \in [Builds -> Rows] /\ main \in [Builds -> MainStates] /\ worker \in [Builds -> Workers]
      /\ touched \subseteq Builds
  BY <1>1 DEF TypeOK, Requests
<1>3. up'
  BY <1>1 DEF Serve, CreatePort, CreateInsert, Enqueue, HandlerKick, HandlerClaim,
     CancelWrite, CancelCleanup, StopWrite, StopContainer, StopWritten,
     DeleteResources, DeleteWrite, RestartPort, RestartWrite, RestartLaunch,
     RestartToHealth, RestartHealth, RestartToRunning, RestartFailCleanup,
     RestartFailWrite, process
<1>4. /\ Interferes(h) => b \in touched
      /\ Halts(h)
      /\ req[h].op \in {"cancel", "stop", "restart", "delete"} => b \in Builds
      /\ req[h].op \in {"stop", "restart"} => Settled(b)
  BY DEF ServeInv, Marked, Halted, SlotInv, HandlerKnows
<1>5. ASSUME Respond(h) \/ ToKick(h)
      PROVE  /\ \A g \in Handlers \ {h} : req'[g] = req[g]
             /\ ~Interferes(h)' /\ Halts(h)' /\ req'[h].op = "none"
  <2>1. req'[h].op = "none" /\ \A g \in Handlers \ {h} : req'[g] = req[g]
    BY <1>2, <1>5 DEF Respond, ToKick, Idle
  <2> QED  BY <2>1 DEF Interferes, Halts
<1>6. ASSUME NEW pc, Proceed(h, pc) \/ \E r : Wrote(h, pc, r)
      PROVE  /\ \A g \in Handlers \ {h} : req'[g] = req[g]
             /\ req'[h].op = req[h].op /\ req'[h].pc = pc /\ req'[h].build = b
             /\ Proceed(h, pc) => req'[h].seen = seen
  BY <1>2, <1>6 DEF Proceed, Wrote, Requests
<1>7. Remove(b) => \A c \in Builds \ {b} : main'[c] = main[c]
  BY <1>2 DEF Remove
<1>8. /\ \A s \in Statuses : /\ WithStatus(seen, s) \in Rows /\ WithStatus(seen, s).status = s
                             /\ WithStatus(seen, s).cancel = seen.cancel
      /\ AsFailed(seen) \in Rows /\ AsCancelled(seen) \in Rows /\ AsDeleted(seen) \in Rows
      /\ AsCancelRequested(seen) \in Rows
  BY <1>2, NewRow DEF WithStatus, Rows
(* Only a container of a touched build is changed, or none. *)
<1>9. ASSUME UNCHANGED <<row, worker, lock>>, b \in Builds, b \in touched',
             \A c \in Builds \ {b} : main'[c] = main[c], touched \subseteq touched',
             \A g \in Handlers \ {h} : req'[g] = req[g],
             Interferes(h)' => req'[h].build \in touched', Halts(h)'
      PROVE  ServeInv'
  <2>1. b \in Executing' => b \in Executing
    BY <1>9 DEF Executing
  <2> QED  BY <1>1, <1>3, <1>9, <2>1, OneBuild
<1> HIDE DEF b, seen
<1>10. CASE CreatePort(h)
  <2>1. /\ UNCHANGED <<row, main, worker, lock, up, touched>>
        /\ \A g \in Handlers \ {h} : req'[g] = req[g]
        /\ req'[h].op \in {"none", "create"}
    BY <1>1, <1>2, <1>3, <1>10
    DEF CreatePort, HandlerAt, Respond, Idle, resources, process, history, Requests
  <2>2. ~Interferes(h)' /\ Halts(h)'
    BY <2>1 DEF Interferes, Halts
  <2> QED  BY <2>1, <2>2, RequestsOnly
<1>11. CASE CreateInsert(h)
  <2>1. CASE Respond(h) /\ UNCHANGED <<row, project>>
    BY <1>1, <1>3, <1>5, <1>11, <2>1, RequestsOnly DEF CreateInsert, resources, history
  <2>2. CASE \E c \in Builds \ Inserted : Insert(h, c)
    <3> PICK c \in Builds \ Inserted : Insert(h, c)
      BY <2>2
    <3>1. /\ row'[c].status = "queued" /\ ~row'[c].cancel /\ row[c].status = "none"
          /\ \A d \in Builds \ {c} : row'[d] = row[d]
          /\ req'[h].op = "create" /\ \A g \in Handlers \ {h} : req'[g] = req[g]
      BY <1>2 DEF Insert, Inserted, Idle
    <3>2. UNCHANGED <<main, worker, lock, touched>>
      BY <1>11 DEF CreateInsert, resources, history
    <3>3. worker[c].pc \notin PIPELINE_PCS
      BY <3>1 DEF SlotInv, PipelineRow, Live, EXECUTING_BUILD_STATUSES
    <3>4. ~Interferes(h)' /\ Halts(h)'
      BY <3>1 DEF Interferes, Halts
    <3>5. ~ShowsCancel(c)' /\ c \notin Executing' /\ Serves(c)'
      BY <3>1, <3>2, <3>3 DEF ShowsCancel, Executing, Serves, PIPELINE_PCS, WRITE_PCS,
                              EXECUTING_BUILD_STATUSES
    <3> QED  BY <1>1, <1>3, <3>1, <3>2, <3>4, <3>5, OneBuild
  <2> QED  BY <1>11, <2>1, <2>2 DEF CreateInsert
<1>12. CASE Enqueue(h)
  <2>1. req[h].op \in {"none", "create", "execute"}
    BY <1>12 DEF Enqueue, SlotInv, HandlerKnows
  <2>2. /\ \A g \in Handlers \ {h} : req'[g] = req[g]
        /\ ~Interferes(h)' /\ Halts(h)'
    <3>1. \A g \in Handlers \ {h} : req'[g] = req[g]
      BY <1>5, <1>6, <1>12 DEF Enqueue
    <3>2. req'[h].op \in {"none", "create", "execute"}
      BY <1>5, <1>6, <1>12, <2>1 DEF Enqueue
    <3> QED  BY <3>1, <3>2 DEF Interferes, Halts
  <2>3. UNCHANGED <<row, main, worker, touched>> /\ Fits'
    BY <1>1, <1>12, PicksFit DEF Enqueue, ServeInv, resources, history
  <2> QED  BY <1>1, <1>3, <2>2, <2>3, Unmoved
<1>13. CASE HandlerKick(h)
  <2>1. req[h].op \in {"none", "create", "execute"}
    BY <1>13 DEF HandlerKick, SlotInv, HandlerKnows
  <2>2. /\ \A g \in Handlers \ {h} : req'[g] = req[g]
        /\ ~Interferes(h)' /\ Halts(h)'
    <3>1. \A g \in Handlers \ {h} : req'[g] = req[g]
      BY <1>5, <1>6, <1>13 DEF HandlerKick
    <3>2. req'[h].op \in {"none", "create", "execute"}
      BY <1>5, <1>6, <1>13, <2>1 DEF HandlerKick
    <3> QED  BY <3>1, <3>2 DEF Interferes, Halts
  <2>3. UNCHANGED <<row, main, worker, touched>> /\ Fits'
    BY <1>1, <1>13, PicksFit DEF HandlerKick, ServeInv, resources, history
  <2> QED  BY <1>1, <1>3, <2>2, <2>3, Unmoved
<1>14. CASE HandlerClaim(h)
  <2>1. /\ ClaimRows /\ lock' = {} /\ UNCHANGED <<main, touched>>
        /\ \A c \in lock : worker'[c] = Started
        /\ \A c \in Builds \ lock : worker'[c] = worker[c]
    BY <1>1, <1>14 DEF HandlerClaim, resources, history, TypeOK
  <2> QED  BY <1>1, <1>3, <1>5, <1>14, <2>1, ClaimFits DEF HandlerClaim
<1>15. CASE CancelWrite(h)
  <2>1. b \in Builds /\ touched' = touched \cup {b} /\ UNCHANGED <<main, worker, lock>>
    BY <1>4, <1>15 DEF CancelWrite, HandlerAt, Touch, b, resources
  <2>2. CASE Commit(b, seen, AsCancelled(seen)) /\ ToKick(h)
    BY <1>1, <1>3, <1>5, <1>8, <2>1, <2>2, HandlerWrites DEF seen
  <2>3. CASE Commit(b, seen, AsCancelRequested(seen)) /\ Proceed(h, "cleanup")
    <3>1. /\ \A g \in Handlers \ {h} : req'[g] = req[g]
          /\ req'[h].op = "cancel" /\ req'[h].build = b
      BY <1>6, <1>15, <2>3 DEF CancelWrite, HandlerAt
    <3>2. Halts(h)'
      BY <3>1 DEF Halts
    <3> QED  BY <1>1, <1>3, <1>8, <2>1, <2>3, <3>1, <3>2, HandlerWrites DEF seen
  <2> QED  BY <1>15, <2>2, <2>3 DEF CancelWrite, b, seen
<1>16. CASE CancelCleanup(h)
  <2>1. b \in Builds /\ b \in touched
    BY <1>4, <1>16 DEF CancelCleanup, HandlerAt, Interferes
  <2> QED  BY <1>5, <1>7, <1>9, <1>16, <2>1 DEF CancelCleanup, history, b
<1>17. CASE StopWrite(h)
  <2>1. /\ b \in Builds /\ Settled(b) /\ UNCHANGED <<main, worker, lock, touched>>
        /\ seen.status = "running" /\ Commit(b, seen, WithStatus(seen, "stopping"))
        /\ Wrote(h, "dockerStop", row'[b])
    BY <1>4, <1>17 DEF StopWrite, HandlerAt, Halts, resources, history, b, seen
  <2>2. row'[b].status = "stopping"
    <3>1. WithStatus(seen, "stopping") \in Rows /\ WithStatus(seen, "stopping").status = "stopping"
      BY <1>8 DEF Statuses
    <3>2. Flush(row[b], seen, WithStatus(seen, "stopping")).status = "stopping"
      BY <1>2, <2>1, <3>1, FlushRow
    <3> QED  BY <1>2, <2>1, <3>2 DEF Commit
  <2>3. /\ \A g \in Handlers \ {h} : req'[g] = req[g]
        /\ req'[h].op = "stop" /\ req'[h].pc = "dockerStop" /\ req'[h].build = b
    BY <1>6, <1>17, <2>1 DEF StopWrite, HandlerAt
  <2>4. ~Interferes(h)' /\ Halts(h)'
    BY <2>2, <2>3 DEF Interferes, Halts
  <2>5. "stopping" \in Statuses /\ "stopping" \notin EXECUTING_BUILD_STATUSES
    BY DEF Statuses, EXECUTING_BUILD_STATUSES
  <2> QED  BY <1>1, <1>3, <1>8, <2>1, <2>2, <2>3, <2>4, <2>5, HandlerWrites DEF seen
<1>18. CASE StopContainer(h)
  <2>1. /\ b \in Builds /\ Settled(b) /\ UNCHANGED <<row, worker, lock, touched>>
        /\ b \in touched \/ row[b].status # "running"
        /\ \A c \in Builds \ {b} : main'[c] = main[c]
    BY <1>2, <1>4, <1>18 DEF StopContainer, HandlerAt, Halts, history, b
  <2>2. /\ \A g \in Handlers \ {h} : req'[g] = req[g]
        /\ ~Interferes(h)' /\ Halts(h)'
    <3>1. CASE Respond(h)
      BY <1>5, <3>1
    <3>2. CASE Proceed(h, "stopped")
      <4>1. req'[h].op = "stop" /\ req'[h].pc = "stopped" /\ req'[h].build = b
        BY <1>6, <1>18, <3>2 DEF StopContainer, HandlerAt
      <4> QED  BY <1>6, <2>1, <3>2, <4>1 DEF Interferes, Halts
    <3> QED  BY <1>18, <3>1, <3>2 DEF StopContainer
  <2>3. PICK d \in Builds : d = b
    BY <2>1
  <2>4. row'[d] = row[d] /\ worker'[d] = worker[d] /\ worker[d].pc \in TAIL_PCS
    BY <2>1, <2>3 DEF Settled
  <2>5. ShowsCancel(d)' => d \in touched'
    <3>1. ShowsCancel(d)' => ShowsCancel(d)
      BY <2>4 DEF ShowsCancel
    <3> QED  BY <2>1, <3>1 DEF ServeInv, Marked
  <2>6. d \in Executing' => d \in Executing
    BY <2>4 DEF Executing
  <2>7. d \notin touched' => Serves(d)'
    BY <2>1, <2>3, <2>4 DEF Serves, TAIL_PCS
  <2>8. /\ \A c \in Builds \ {d} : row'[c] = row[c] /\ main'[c] = main[c] /\ worker'[c] = worker[c]
        /\ touched' = touched /\ lock' = lock
    BY <2>1, <2>3
  <2> QED  BY <1>1, <1>3, <2>2, <2>4, <2>5, <2>6, <2>7, <2>8, OneBuild
<1>19. CASE StopWritten(h)
  <2>1. /\ b \in Builds /\ Settled(b) /\ UNCHANGED <<main, worker, lock, touched>>
        /\ b \in touched \/ row[b].status # "running"
        /\ Commit(b, seen, WithStatus(seen, "stopped")) /\ ToKick(h)
    BY <1>4, <1>19 DEF StopWritten, HandlerAt, Halts, resources, history, b, seen
  <2>2. "stopped" \in Statuses /\ "stopped" \notin EXECUTING_BUILD_STATUSES
    BY DEF Statuses, EXECUTING_BUILD_STATUSES
  <2>3. row'[b].status \in {row[b].status, "stopped"}
    BY <1>2, <1>8, <2>1, <2>2, FlushRow DEF Commit
  <2> QED  BY <1>1, <1>3, <1>5, <1>8, <2>1, <2>2, <2>3, HandlerWrites DEF seen
<1>20. CASE DeleteResources(h)
  <2>1. b \in Builds /\ touched' = touched \cup {b} /\ UNCHANGED <<row, worker, lock>>
    BY <1>4, <1>20 DEF DeleteResources, HandlerAt, Touch, b
  <2>2. /\ \A g \in Handlers \ {h} : req'[g] = req[g]
        /\ req'[h].op = "delete" /\ req'[h].build = b
    BY <1>6, <1>20 DEF DeleteResources, HandlerAt
  <2>3. Halts(h)'
    BY <2>2 DEF Halts
  <2> QED  BY <1>7, <1>9, <1>20, <2>1, <2>2, <2>3 DEF DeleteResources, b
<1>21. CASE DeleteWrite(h)
  <2>1. b \in Builds /\ b \in touched /\ UNCHANGED <<main, worker, lock, touched>>
    BY <1>4, <1>21 DEF DeleteWrite, HandlerAt, Interferes, resources, history
  <2> QED  BY <1>1, <1>3, <1>5, <1>8, <1>21, <2>1, HandlerWrites DEF DeleteWrite, b, seen

<1>22. CASE RestartPort(h)
  <2>1. /\ b \in Builds /\ Settled(b) /\ UNCHANGED <<main, worker, lock>>
        /\ b \in touched \/ row[b].status # "running"
        /\ req[h].op = "restart"
    BY <1>4, <1>22 DEF RestartPort, HandlerAt, Halts, resources, b
  <2>2. CASE Respond(h) /\ UNCHANGED <<row, history>>
    BY <1>1, <1>3, <1>5, <2>1, <2>2, RequestsOnly DEF history
  <2>3. ASSUME NEW p \in allocate_port, Commit(b, seen, [seen EXCEPT !.port = p]),
               Wrote(h, "write", row'[b]), UNCHANGED touched
        PROVE  ServeInv'
    <3>1. /\ [seen EXCEPT !.port = p] \in Rows
          /\ [seen EXCEPT !.port = p].status = seen.status
          /\ [seen EXCEPT !.port = p].cancel = seen.cancel
      BY <1>2, <2>3, AllocatedPort DEF Rows
    <3>2. PICK d \in Builds : d = b
      BY <2>1
    <3>3. row'[d].status = row[d].status /\ row'[d].cancel = row[d].cancel
      <4> DEFINE new == [seen EXCEPT !.port = p]
      <4>1. row[d] \in Rows /\ row'[d] = Flush(row[d], seen, new)
        BY <1>2, <2>3, <3>2 DEF Commit
      <4>2. new \in Rows /\ new.status = seen.status /\ new.cancel = seen.cancel
        BY <3>1
      <4> HIDE DEF new
      <4>3. Flush(row[d], seen, new).status = row[d].status
        BY <1>2, <4>1, <4>2, FlushRow
      <4>4. Flush(row[d], seen, new).cancel = row[d].cancel
        BY <1>2, <4>1, <4>2, FlushKeeps
      <4> QED  BY <4>1, <4>3, <4>4
    <3>4. /\ \A g \in Handlers \ {h} : req'[g] = req[g]
          /\ ~Interferes(h)' /\ Halts(h)'
      <4>1. /\ \A g \in Handlers \ {h} : req'[g] = req[g]
            /\ req'[h].op = "restart" /\ req'[h].pc = "write" /\ req'[h].build = d
        BY <1>6, <2>1, <2>3, <3>2
      <4> QED  BY <2>1, <2>3, <3>2, <3>3, <4>1 DEF Interferes, Halts, RESTART_PCS
    <3>5. worker'[d] = worker[d] /\ worker[d].pc \in TAIL_PCS
      BY <2>1, <3>2 DEF Settled
    <3>6. ShowsCancel(d)' => d \in touched'
      <4>1. ShowsCancel(d)' => ShowsCancel(d)
        BY <3>3, <3>5 DEF ShowsCancel
      <4> QED  BY <2>1, <2>3, <4>1 DEF ServeInv, Marked
    <3>7. d \in Executing' => d \in Executing
      BY <3>3 DEF Executing
    <3>8. d \notin touched' => Serves(d)'
      BY <2>1, <2>3, <3>2, <3>3, <3>5 DEF Serves, TAIL_PCS
    <3>9. /\ \A c \in Builds \ {d} : row'[c] = row[c] /\ main'[c] = main[c] /\ worker'[c] = worker[c]
          /\ touched' = touched /\ lock' = lock
      BY <1>2, <2>1, <2>3, <3>2 DEF Commit
    <3> QED  BY <1>1, <1>3, <3>3, <3>4, <3>5, <3>6, <3>7, <3>8, <3>9, OneBuild
  <2> QED  BY <1>22, <2>2, <2>3 DEF RestartPort, b, seen
<1>23. CASE RestartWrite(h)
  <2>1. b \in Builds /\ UNCHANGED <<main, worker, lock>> /\ req[h].op = "restart"
    BY <1>4, <1>23 DEF RestartWrite, HandlerAt, resources
  <2>2. CASE Respond(h) /\ UNCHANGED <<row, history>>
    BY <1>1, <1>3, <1>5, <2>1, <2>2, RequestsOnly DEF history
  <2>3. CASE /\ Commit(b, seen, WithStatus(seen, "starting_odoo"))
             /\ Wrote(h, "relaunch", row'[b]) /\ Touch(b)
    <3>1. /\ \A g \in Handlers \ {h} : req'[g] = req[g]
          /\ req'[h].op = "restart" /\ req'[h].build = b /\ touched' = touched \cup {b}
      BY <1>6, <2>1, <2>3 DEF Touch
    <3>2. Halts(h)' /\ "starting_odoo" \in Statuses
      BY <3>1 DEF Halts, Statuses, EXECUTING_BUILD_STATUSES
    <3> QED  BY <1>1, <1>3, <1>8, <2>1, <2>3, <3>1, <3>2, HandlerWrites DEF seen
  <2> QED  BY <1>23, <2>2, <2>3 DEF RestartWrite, b, seen
(* From here on the restarted build is touched. *)
<1>24. ASSUME HandlerAt(h, "restart", req[h].pc), req[h].pc \in RESTART_PCS
       PROVE  b \in Builds /\ b \in touched
  BY <1>4, <1>24 DEF HandlerAt, Interferes
<1>25. ASSUME req[h].op = "restart", b \in touched', NEW pc, Proceed(h, pc) \/ \E r : Wrote(h, pc, r)
       PROVE  /\ \A g \in Handlers \ {h} : req'[g] = req[g]
              /\ (Interferes(h)' => req'[h].build \in touched') /\ Halts(h)'
  BY <1>6, <1>25 DEF Interferes, Halts
<1>26. CASE RestartLaunch(h)
  <2>1. b \in Builds /\ b \in touched /\ UNCHANGED <<row, worker, lock, touched>> /\ req[h].op = "restart"
    BY <1>24, <1>26 DEF RestartLaunch, HandlerAt, RESTART_PCS, history
  <2>2. \A c \in Builds \ {b} : main'[c] = main[c]
    BY <1>2, <1>7, <1>26 DEF RestartLaunch, RunMain, b
  <2>3. \E pc : Proceed(h, pc)
    BY <1>26 DEF RestartLaunch
  <2> QED  BY <1>9, <1>25, <2>1, <2>2, <2>3
<1>27. CASE RestartToHealth(h)
  <2>1. /\ b \in Builds /\ b \in touched /\ UNCHANGED <<main, worker, lock, touched>> /\ req[h].op = "restart"
        /\ Commit(b, seen, WithStatus(seen, "health_check")) /\ Wrote(h, "health", row'[b])
    BY <1>24, <1>27 DEF RestartToHealth, HandlerAt, RESTART_PCS, history, resources, b, seen
  <2>2. "health_check" \in Statuses
    BY DEF Statuses, EXECUTING_BUILD_STATUSES
  <2>3. /\ \A g \in Handlers \ {h} : req'[g] = req[g]
        /\ (Interferes(h)' => req'[h].build \in touched') /\ Halts(h)'
    BY <1>25, <2>1
  <2> QED  BY <1>1, <1>3, <1>8, <2>1, <2>2, <2>3, HandlerWrites DEF seen
<1>28. CASE RestartHealth(h)
  <2>1. /\ b \in Builds /\ b \in touched /\ UNCHANGED <<row, main, worker, lock, touched>>
        /\ req[h].op = "restart" /\ \E pc : Proceed(h, pc)
    BY <1>24, <1>28 DEF RestartHealth, HandlerAt, RESTART_PCS, history, resources
  <2> QED  BY <1>9, <1>25, <2>1
<1>29. CASE RestartToRunning(h)
  <2>1. /\ b \in Builds /\ b \in touched /\ UNCHANGED <<main, worker, lock, touched>>
        /\ Commit(b, seen, WithStatus(seen, "running")) /\ Respond(h)
    BY <1>24, <1>29 DEF RestartToRunning, HandlerAt, RESTART_PCS, history, resources, b, seen
  <2>2. "running" \in Statuses
    BY DEF Statuses
  <2> QED  BY <1>1, <1>3, <1>5, <1>8, <2>1, <2>2, HandlerWrites DEF seen
<1>30. CASE RestartFailCleanup(h)
  <2>1. /\ b \in Builds /\ b \in touched /\ UNCHANGED <<row, worker, lock, touched>> /\ req[h].op = "restart"
        /\ Remove(b) /\ Proceed(h, "failWrite")
    BY <1>24, <1>30 DEF RestartFailCleanup, HandlerAt, RESTART_PCS, history, b
  <2> QED  BY <1>7, <1>9, <1>25, <2>1
<1>31. CASE RestartFailWrite(h)
  <2>1. /\ b \in Builds /\ b \in touched /\ UNCHANGED <<main, worker, lock, touched>>
        /\ Commit(b, seen, AsFailed(seen)) /\ ToKick(h)
    BY <1>24, <1>31 DEF RestartFailWrite, HandlerAt, RESTART_PCS, history, resources, b, seen
  <2> QED  BY <1>1, <1>3, <1>5, <1>8, <2>1, HandlerWrites DEF seen
<1> QED
  BY <1>10, <1>11, <1>12, <1>13, <1>14, <1>15, <1>16, <1>17, <1>18, <1>19, <1>20, <1>21,
     <1>22, <1>23, <1>26, <1>27, <1>28, <1>29, <1>30, <1>31 DEF Serve

(* A crash loses the threads and perhaps containers; the start-up fails     *)
(* what was interrupted or does not answer and claims into empty slots.    *)
LEMMA ServeProcess ==
    ASSUME SlotInv, ServeInv, Crash \/ Boot
    PROVE  ServeInv'
<1>1. TypeOK /\ row \in [Builds -> Rows] /\ main \in [Builds -> MainStates]
  BY DEF SlotInv, TypeOK
<1>2. CASE Crash
  <2>1. /\ ~up' /\ lock' = {} /\ UNCHANGED <<row, touched>>
        /\ \A b \in Builds : worker'[b].pc = "none"
        /\ \A b \in Builds : main'[b] = main[b] \/ main'[b] = Exited
        /\ \A h \in Handlers : req'[h].op = "none"
        /\ up
    BY <1>2 DEF Crash, NoWorker, Idle, history
  <2>2. Marked'
    BY <2>1 DEF ServeInv, Marked, ShowsCancel, Interferes
  <2>3. Fits'
    <3>1. Taken' \subseteq Taken /\ Taken \subseteq Builds /\ Taken' \subseteq Builds
      BY <1>1, <2>1 DEF Taken, Executing, TypeOK
    <3> QED  BY <3>1, FewerBuilds, BuildAssumption DEF Fits, ServeInv
  <2>4. Launched'
    <3> SUFFICES ASSUME NEW b \in Builds \ touched
                 PROVE  Serves(b)'
      BY <2>1 DEF Launched
    <3>1. row[b].status = "running" => main[b] = UpOn(row[b].port)
      BY <2>1 DEF ServeInv, Launched, Serves
    <3> QED  BY <2>1, <3>1 DEF Serves, Exited
  <2>5. Halted'
    BY <2>1 DEF Halted, Halts
  <2> QED  BY <2>2, <2>3, <2>4, <2>5 DEF ServeInv
<1>3. CASE Boot
  <2>0. PICK healthy \in SUBSET Reachable :
            LET unhealthy == Unhealthy(healthy)
                picks     == FirstQueued(Queued, MaxConcurrent)
            IN  /\ row' = [b \in Builds |->
                       IF b \in Interrupted THEN [AsFailed(row[b]) EXCEPT !.cancel = FALSE]
                       ELSE IF b \in unhealthy THEN AsFailed(row[b])
                       ELSE IF b \in picks THEN WithStatus(row[b], "cloning")
                       ELSE row[b]]
                /\ worker' = [b \in Builds |-> IF b \in picks THEN Started ELSE worker[b]]
                /\ \E gone \in SUBSET (Interrupted \cup unhealthy) :
                      /\ gone = Interrupted \cup unhealthy \/ RemovalFaults
                      /\ main' = [b \in Builds |-> IF b \in gone THEN Absent ELSE main[b]]
    BY <1>3 DEF Boot
  <2> DEFINE picks == FirstQueued(Queued, MaxConcurrent)
  <2>1. /\ ~up /\ up' /\ lock = {} /\ UNCHANGED <<req, lock, touched>>
        /\ \A b \in Builds : worker[b].pc = "none"
        /\ \A h \in Handlers : req[h].op = "none"
    BY <1>3 DEF Boot, history, SlotInv, DownIsQuiet, NoWorker, Idle
  <2>2. /\ picks \subseteq Queued /\ Queued \subseteq Builds
        /\ Cardinality(picks) <= MaxConcurrent
    <3>1. Queued \subseteq Builds /\ MaxConcurrent \in Nat /\ MaxConcurrent \in Int /\ MaxConcurrent >= 0
      BY BuildAssumption DEF Queued
    <3> QED  BY <3>1, FirstFit
  <2>3. ASSUME NEW b \in Builds
        PROVE  \/ /\ b \in Interrupted \cup Unhealthy(healthy)
                  /\ row'[b].status = "failed" /\ (row'[b].cancel => row[b].cancel)
               \/ /\ b \in picks /\ b \notin Unhealthy(healthy)
                  /\ row'[b].status = "cloning" /\ row'[b].cancel = row[b].cancel
               \/ /\ b \notin Interrupted \cup Unhealthy(healthy) /\ b \notin picks
                  /\ row'[b] = row[b] /\ main'[b] = main[b]
    <3>1. row[b] \in Rows
      BY <1>1
    <3> HIDE DEF picks
    <3> QED  BY <1>1, <2>0, <3>1 DEF AsFailed, WithStatus, Rows, picks
  <2>4. ASSUME NEW b \in Builds
        PROVE  worker'[b].pc \in {"none", "start"}
    BY <2>0, <2>1 DEF Started
  <2>5. Marked'
    <3>1. ASSUME NEW b \in Builds, ShowsCancel(b)'
          PROVE  ShowsCancel(b)
      BY <2>3, <2>4, <3>1 DEF ShowsCancel
    <3> QED  BY <2>1, <3>1 DEF ServeInv, Marked, Interferes
  <2>6. Fits'
    <3>1. Executing' \subseteq picks
      <4> SUFFICES ASSUME NEW b \in Executing'
                   PROVE  b \in picks
        OBVIOUS
      <4> HIDE DEF picks
      <4>1. b \in Builds /\ row'[b].status \in EXECUTING_BUILD_STATUSES
        BY DEF Executing
      <4> QED  BY <2>3, <4>1 DEF Interrupted, EXECUTING_BUILD_STATUSES
    <3>2. Taken' \subseteq picks /\ picks \subseteq Builds
      BY <2>1, <2>2, <3>1 DEF Taken
    <3> HIDE DEF picks
    <3> QED  BY <2>2, <3>2, FewerBuilds, BuildAssumption DEF Fits
  <2>7. Launched'
    <3> SUFFICES ASSUME NEW b \in Builds \ touched
                 PROVE  Serves(b)'
      BY <2>1 DEF Launched
    <3>1. row[b].status = "running" => main[b] = UpOn(row[b].port) \/ main[b].state # "up"
      BY DEF ServeInv, Launched, Serves
    <3>2. row'[b].status = "running" => main'[b] = UpOn(row'[b].port)
      <4> SUFFICES ASSUME row'[b].status = "running"
                   PROVE  main'[b] = UpOn(row'[b].port)
        OBVIOUS
      <4>1. b \notin Unhealthy(healthy) /\ row'[b] = row[b] /\ main'[b] = main[b]
        BY <2>3
      <4>2. main[b].state = "up"
        BY <4>1 DEF Unhealthy, Reachable
      <4> QED  BY <3>1, <4>1, <4>2
    <3> QED  BY <2>4, <3>2 DEF Serves
  <2>8. Halted'
    BY <2>1 DEF Halted, Halts
  <2> QED  BY <2>5, <2>6, <2>7, <2>8 DEF ServeInv
<1> QED  BY <1>2, <1>3

(* A step that changes nothing keeps what is claimed and what serves.       *)
LEMMA ServeStutter == ServeInv /\ UNCHANGED vars => ServeInv'
BY DEF vars, resources, process, history, ServeInv, Marked, ShowsCancel, Interferes, Fits, Taken, Executing,
       Launched, Serves, Halted, Halts

(* At first nothing is claimed, and nothing serves.                         *)
LEMMA ServeInit == Init => ServeInv
<1> SUFFICES ASSUME Init
             PROVE  ServeInv
  OBVIOUS
<1>1. Taken = {}
  BY DEF Init, NoRow, Taken, Executing, EXECUTING_BUILD_STATUSES
<1>2. Fits
  BY <1>1, FS_EmptySet, BuildAssumption DEF Fits
<1> QED  BY <1>2 DEF Init, NoRow, NoWorker, Idle, ServeInv, Marked, ShowsCancel, Interferes,
                     Launched, Serves, Halted, Halts

(* What is claimed and what serves is kept, beside the slots.               *)
LEMMA ServeInvariant == Spec => [](SlotInv /\ ServeInv)
<1>1. SlotInv /\ ServeInv /\ [Next]_vars => ServeInv'
  BY ServeWorker, ServeRequest, ServeServe, ServeProcess, ServeStutter DEF Next
<1> QED  BY <1>1, SlotInit, ServeInit, SlotNext, PTL DEF Spec

(* Claims never admit more builds than MAX_CONCURRENT_BUILDS: those that    *)
(* execute and that no operator cancelled, deleted or restarted fit it,     *)
(* although a pick is counted before it is written (kick_queued_builds,     *)
(* enqueue_build_execution).                                                *)
THEOREM ClaimsFit == Spec => []ClaimsWithinCapacity
<1>1. SlotInv /\ ServeInv => ClaimsWithinCapacity
  <2> SUFFICES ASSUME SlotInv, ServeInv
               PROVE  ClaimsWithinCapacity
    OBVIOUS
  <2>1. Executing \ touched \subseteq Taken /\ Taken \subseteq Builds
    BY DEF Taken, Executing, SlotInv, TypeOK
  <2> QED  BY <2>1, FewerBuilds, BuildAssumption DEF Fits, ServeInv, ClaimsWithinCapacity
<1> QED  BY <1>1, ServeInvariant, PTL

(* A running build that no operator touched has its container up on its     *)
(* port, after a reboot as well (execute_build, stop_build,                 *)
(* reconcile_builds_on_startup).                                            *)
THEOREM RunningBuildIsServed == Spec => []RunningIsServed
<1>1. ServeInv => RunningIsServed
  BY DEF ServeInv, Launched, Serves, RunningIsServed
<1> QED  BY <1>1, ServeInvariant, PTL
==============================================================================
