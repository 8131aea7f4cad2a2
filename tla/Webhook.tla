-------------------------------- MODULE Webhook --------------------------------
(***************************************************************************)
(* GitHub pushes: the webhook of a project, its deliveries, the branch row *)
(* and the builds they ask for.  Sources: webhook_service,                 *)
(* webhook_install_service, branch_service, project_service,               *)
(* github_service, build_service.create_build_record, main.                *)
(*                                                                         *)
(* The webhook handler is a coroutine that never waits once it has the     *)
(* body, so deliveries are handled one at a time; the pages that enable    *)
(* the hook, list the branches or delete a build run in threads beside it. *)
(* GitHub (external) sends a delivery once, in any order, and again when   *)
(* its user presses "redeliver".                                           *)
(***************************************************************************)
EXTENDS Integers, FiniteSets

CONSTANTS
    Commits,        \* commits of the branch
    MaxDeliveries,  \* bound: pushes
    MaxRepeats,     \* bound: redeliveries
    MaxRefusals,    \* bound: creations refused (subscription, ports)
    MaxKills,       \* bound: server processes killed
    MaxPages        \* bound: enable, disable, synchronize and delete requests

VARIABLES
    head,       \* the branch's commit on GitHub, "none" when it is deleted
    hook,       \* GitHub has the project's hook
    known,      \* the project row: github_webhook_id set, github_webhook_active
    sent,       \* the commit each delivery carries
    net,        \* deliveries on their way
    row,        \* webhook_deliveries: status by delivery
    branch,     \* the branch row
    builds,     \* builds with trigger "webhook": commit and whether deleted
    handler,    \* the delivery being handled and the step it is at
    page,       \* a page between its call to GitHub and its commit
    repeats, refusals, kills, pages

wvars == <<head, hook, known, sent, net, row, branch, builds, handler, page,
           repeats, refusals, kills, pages>>

Deliveries == 1 .. MaxDeliveries
NoHandler == [d |-> 0, step |-> "idle"]
NoPage == [kind |-> "none", seen |-> "none"]
NoBranch == [exists |-> FALSE, sha |-> "none", active |-> FALSE]
NULL_SHA == "none"

WInit ==
    /\ head = NULL_SHA /\ hook = FALSE
    /\ known = [id |-> FALSE, active |-> FALSE]
    /\ sent = [d \in Deliveries |-> "unsent"]
    /\ net = {} /\ row = [d \in Deliveries |-> "none"]
    /\ branch = NoBranch
    /\ builds = {}
    /\ handler = NoHandler /\ page = NoPage
    /\ repeats = 0 /\ refusals = 0 /\ kills = 0 /\ pages = 0

---------------------------------------------------------------------------
(* GitHub. *)

(* A push moves, makes or deletes the branch; with a hook it is delivered. *)
Push(c) ==
    /\ c # head
    /\ \E d \in Deliveries : sent[d] = "unsent"
    /\ LET d == CHOOSE d \in Deliveries : sent[d] = "unsent" /\ \A e \in Deliveries : e < d => sent[e] # "unsent"
       IN /\ sent' = [sent EXCEPT ![d] = c]
          /\ net' = IF hook THEN net \cup {d} ELSE net
    /\ head' = c
    /\ UNCHANGED <<hook, known, row, branch, builds, handler, page, repeats, refusals, kills, pages>>

Redeliver(d) ==
    /\ repeats < MaxRepeats /\ hook /\ sent[d] # "unsent" /\ d \notin net
    /\ net' = net \cup {d} /\ repeats' = repeats + 1
    /\ UNCHANGED <<head, hook, known, sent, row, branch, builds, handler, page, refusals, kills, pages>>

---------------------------------------------------------------------------
(* The handler. *)

(* A known delivery is answered "duplicate", whatever became of it. *)
DuplicateDelivery(d) ==
    /\ handler = NoHandler /\ d \in net /\ row[d] # "none"
    /\ net' = net \ {d}
    /\ UNCHANGED <<head, hook, known, sent, row, branch, builds, handler, page, repeats, refusals, kills, pages>>

(* A new one is recorded and committed first. *)
RecordDelivery(d) ==
    /\ handler = NoHandler /\ d \in net /\ row[d] = "none"
    /\ net' = net \ {d}
    /\ row' = [row EXCEPT ![d] = "received"]
    /\ handler' = [d |-> d, step |-> "branch"]
    /\ UNCHANGED <<head, hook, known, sent, branch, builds, page, repeats, refusals, kills, pages>>

(* The branch was deleted: the row is deactivated, the delivery processed.   *)
DeactivateBranch ==
    /\ handler.step = "branch" /\ sent[handler.d] = NULL_SHA
    /\ branch' = IF branch.exists THEN [branch EXCEPT !.active = FALSE] ELSE branch
    /\ row' = [row EXCEPT ![handler.d] = "branch_deleted"]
    /\ handler' = NoHandler
    /\ UNCHANGED <<head, hook, known, sent, net, builds, page, repeats, refusals, kills, pages>>

(* Mutant: a branch that already has the commit ends the delivery. *)
UpsertUnlessKnown ==
    /\ handler.step = "branch" /\ sent[handler.d] # NULL_SHA
    /\ branch' = [exists |-> TRUE, sha |-> sent[handler.d], active |-> TRUE]
    /\ handler' = IF branch.sha = sent[handler.d] THEN NoHandler ELSE [handler EXCEPT !.step = "build"]
    /\ UNCHANGED <<head, hook, known, sent, net, row, builds, page, repeats, refusals, kills, pages>>

(* The branch takes the delivery's commit, newer or not. *)
UpsertBranch ==
    /\ handler.step = "branch" /\ sent[handler.d] # NULL_SHA
    /\ branch' = [exists |-> TRUE, sha |-> sent[handler.d], active |-> TRUE]
    /\ handler' = [handler EXCEPT !.step = "build"]
    /\ UNCHANGED <<head, hook, known, sent, net, row, builds, page, repeats, refusals, kills, pages>>

Existing(c) == {b \in builds : b.sha = c /\ ~b.deleted}

(* Mutant: a commit is built again for every delivery. *)
CreateAlways ==
    /\ handler.step = "build"
    /\ builds' = builds \cup {[d |-> handler.d, sha |-> sent[handler.d], deleted |-> FALSE]}
    /\ handler' = [handler EXCEPT !.step = "record"]
    /\ UNCHANGED <<head, hook, known, sent, net, row, branch, page, repeats, refusals, kills, pages>>

(* create_build_record: a commit the webhook already built is reused. *)
create_build_record ==
    /\ handler.step = "build"
    /\ builds' = IF Existing(sent[handler.d]) # {} THEN builds
                 ELSE builds \cup {[d |-> handler.d, sha |-> sent[handler.d], deleted |-> FALSE]}
    /\ handler' = [handler EXCEPT !.step = "record"]
    /\ UNCHANGED <<head, hook, known, sent, net, row, branch, page, repeats, refusals, kills, pages>>

(* The creation is refused: the delivery keeps the error. *)
BuildRefused ==
    /\ handler.step = "build" /\ refusals < MaxRefusals
    /\ row' = [row EXCEPT ![handler.d] = "error"]
    /\ handler' = NoHandler /\ refusals' = refusals + 1
    /\ UNCHANGED <<head, hook, known, sent, net, branch, builds, page, repeats, kills, pages>>

process_github_webhook ==
    /\ handler.step = "record"
    /\ row' = [row EXCEPT ![handler.d] = "processed"]
    /\ handler' = NoHandler
    /\ UNCHANGED <<head, hook, known, sent, net, branch, builds, page, repeats, refusals, kills, pages>>

(* The server is killed (or a step raises): the row stays where it is. *)
Killed ==
    /\ kills < MaxKills
    /\ handler # NoHandler \/ page # NoPage
    /\ kills' = kills + 1 /\ handler' = NoHandler /\ page' = NoPage
    /\ UNCHANGED <<head, hook, known, sent, net, row, branch, builds, repeats, refusals, pages>>

---------------------------------------------------------------------------
(* Pages: each calls GitHub, then commits what it saw or did there. *)

Page(kind) == page = NoPage /\ pages < MaxPages /\ pages' = pages + 1 /\ page' = [kind |-> kind, seen |-> head]

(* install_project_webhook: the hook with our address is adopted, or one is made. *)
install_project_webhook ==
    /\ Page("enable") /\ hook' = TRUE
    /\ UNCHANGED <<head, known, sent, net, row, branch, builds, handler, repeats, refusals, kills>>

(* disable_project_webhook: GitHub may refuse; the row is deactivated anyway. *)
disable_project_webhook ==
    /\ known.id /\ Page("disable") /\ hook' \in {FALSE, hook}
    /\ UNCHANGED <<head, known, sent, net, row, branch, builds, handler, repeats, refusals, kills>>

SaveHook ==
    /\ page.kind \in {"enable", "disable"}
    /\ known' = [id |-> TRUE, active |-> page.kind = "enable"]
    /\ page' = NoPage
    /\ UNCHANGED <<head, hook, sent, net, row, branch, builds, handler, repeats, refusals, kills, pages>>

(* sync_project_branches: GitHub's branches are listed ... *)
list_branches ==
    /\ Page("sync")
    /\ UNCHANGED <<head, hook, known, sent, net, row, branch, builds, handler, repeats, refusals, kills>>

(* ... and the rows, read afterwards, made to agree with the list. *)
sync_project_branches ==
    /\ page.kind = "sync"
    /\ branch' = IF page.seen # NULL_SHA THEN [exists |-> TRUE, sha |-> page.seen, active |-> TRUE]
                 ELSE IF branch.exists THEN [branch EXCEPT !.active = FALSE] ELSE branch
    /\ page' = NoPage
    /\ UNCHANGED <<head, hook, known, sent, net, row, builds, handler, repeats, refusals, kills, pages>>

(* A build of the webhook is deleted by its owner. *)
DeleteBuild(b) ==
    /\ pages < MaxPages /\ pages' = pages + 1
    /\ ~b.deleted
    /\ builds' = (builds \ {b}) \cup {[b EXCEPT !.deleted = TRUE]}
    /\ UNCHANGED <<head, hook, known, sent, net, row, branch, handler, page, repeats, refusals, kills>>

---------------------------------------------------------------------------
HandlerStep ==
    \/ \E d \in Deliveries : DuplicateDelivery(d) \/ RecordDelivery(d)
    \/ DeactivateBranch \/ UpsertBranch
    \/ create_build_record \/ BuildRefused \/ process_github_webhook

PageStep == SaveHook \/ sync_project_branches

WNext ==
    \/ \E c \in Commits \cup {NULL_SHA} : Push(c)
    \/ \E d \in Deliveries : Redeliver(d)
    \/ HandlerStep \/ PageStep
    \/ install_project_webhook \/ disable_project_webhook \/ list_branches
    \/ \E b \in builds : DeleteBuild(b)
    \/ Killed

WSpec == WInit /\ [][WNext]_wvars

(* Deliveries that arrived are handled. *)
WFairness == WF_wvars(HandlerStep)

WFairSpec == WSpec /\ WFairness

---------------------------------------------------------------------------
WTypeOK ==
    /\ head \in Commits \cup {NULL_SHA} /\ hook \in BOOLEAN
    /\ net \subseteq Deliveries
    /\ row \in [Deliveries -> {"none", "received", "processed", "branch_deleted", "error"}]
    /\ handler \in [d : 0 .. MaxDeliveries, step : {"idle", "branch", "build", "record"}]

(* A commit the webhook was told of has one build at a time, however often   *)
(* its deliveries were repeated, reordered or cut short by a restart.        *)
OneBuildPerCommit ==
    \A c \in Commits : Cardinality(Existing(c)) <= 1

(* A delivery marked processed led to a build of its commit: one that is     *)
(* there, or one its owner deleted since.                                    *)
ProcessedIsBuilt ==
    \A d \in Deliveries : row[d] = "processed" => \E b \in builds : b.sha = sent[d]

(* A push GitHub delivers is built, or its deletion recorded, unless the     *)
(* creation was refused or the server died on the way.                       *)
PushIsBuilt ==
    \A d \in Deliveries :
        d \in net ~> (row[d] \in {"processed", "branch_deleted"} \/ refusals > 0 \/ kills > 0)

================================================================================
