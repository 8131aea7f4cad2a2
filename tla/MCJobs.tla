--------------------------------- MODULE MCJobs ---------------------------------
(* Operators at work on the two job engines, checked side by side: tenant    *)
(* provisioning (part "provisioning") and the builds (part "builds").  Only  *)
(* one part takes steps, safety only: handlers, keys and projects are        *)
(* interchangeable.                                                          *)
EXTENDS TenantProvisioning, TLC

CONSTANTS MaxBuilds, Projects, PortMin, PortMax, MaxConcurrent, BuildOps, MaxBuildCrashes,
          RemovalFaults

VARIABLES part,
          row, project, main, buildDatabases, workspaces, worker, req, lock, up, touched,
          realloc, buildCrashes

Build == INSTANCE BuildEngine WITH Ops <- BuildOps, MaxCrashes <- MaxBuildCrashes,
             databases <- buildDatabases, crashes <- buildCrashes

buildVars == <<row, project, main, buildDatabases, workspaces, worker, req, lock, up, touched,
               realloc, buildCrashes>>
all == <<part, vars, buildVars>>

BothInit == part \in {"provisioning", "builds"} /\ Init /\ Build!Init

OneNext ==
    \/ part = "provisioning" /\ Next /\ UNCHANGED <<part, buildVars>>
    \/ part = "builds" /\ Build!Next /\ UNCHANGED <<part, vars>>

BothSpec == BothInit /\ [][OneNext]_all

Symmetry ==
    Permutations(Handlers) \cup Permutations(Keys) \cup Permutations(Projects)

(* A build that executes has a thread that will end it (_run_build_thread). *)
ExecutingHasThread == Build!ExecutingHasThread

(* A running build has its container and its port (execute_build_pipeline,  *)
(* reconcile_builds_on_startup).                                            *)
RunningIsServed == Build!RunningIsServed
==============================================================================
