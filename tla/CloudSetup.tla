------------------------------ MODULE CloudSetup ------------------------------
(***************************************************************************)
(* Helpers ERP Cloud, from choosing a plan to the order: the draft set-up, *)
(* the configure form, the confirm page and checkout_demo.  Sources:       *)
(* cloud_setup_service, cloud_checkout_service, cloud_pricing_service and  *)
(* the handlers of api/cloud.py.                                           *)
(*                                                                         *)
(* POST handlers are coroutines that never await between two commits: the  *)
(* event loop (Loop) runs one at a time.  GET handlers and the Google      *)
(* callback are plain functions on threads (Readers), and save_plan is     *)
(* reachable from them too, so their commits fall between a POST's.  A     *)
(* session works on the copy it loaded and writes the columns it changed.  *)
(***************************************************************************)
EXTENDS Integers, FiniteSets

CONSTANTS
    Users,      \* signed-in customers
    Readers,    \* request threads
    MaxSetups,  \* bound: rows of cloud_setup_selections
    MaxKeys,    \* bound: idempotency keys handed out
    MaxPosts,   \* bound: configure forms posted
    MaxPlans    \* bound: plans chosen

(* What the proofs take for granted of the bounds. *)
SetupAssumption == MaxSetups \in Nat

Loop   == "loop"
Procs  == Readers \cup {Loop}
Setups == 1 .. MaxSetups
Keys   == 1 .. MaxKeys

(* The catalogue: a trial for one user and a paid plan for two; an add-on   *)
(* that costs money and fits only the package that is not the default.      *)
Plans      == {"trial", "pro"}
Packages   == {"standard", "hms"}
Default    == "standard"
Subdomains == {"a", "b"}
None       == "none"
max_users  == [p \in Plans |-> IF p = "trial" THEN 1 ELSE 2]
included_users == 1

addon_compatible(package)   == package = "hms"
addon_allowed_for_plan(plan) == plan # "trial"

(* users 0 is a null column. *)
Rows == [status : {"absent", "draft", "awaiting_checkout", "submitted"},
         user : Users \cup {None}, plan : Plans \cup {None},
         package : Packages \cup {None}, users : 0 .. 2,
         sub : Subdomains \cup {None}, addon : BOOLEAN]
Absent == [status |-> "absent", user |-> None, plan |-> None, package |-> None,
           users |-> 0, sub |-> None, addon |-> FALSE]
Forms  == [package : Packages, users : 1 .. 2, sub : Subdomains, addon : BOOLEAN]
Orders == [setup : Setups, user : Users, plan : Plans, package : Packages,
           users : 0 .. 2, sub : Subdomains, addon : BOOLEAN]
NoForm  == [package |-> None, users |-> 0, sub |-> None, addon |-> FALSE]
NoOrder == [setup |-> 0]
Idle    == [pc |-> "idle", u |-> None, i |-> 0, copy |-> Absent,
            form |-> NoForm, plan |-> None, intent |-> FALSE, key |-> 0]

VARIABLES
    setup,    \* rows of cloud_setup_selections
    order,    \* orders with subscription, request and instance, by key
    owner,    \* user each key was handed to
    session,  \* key in each user's session cookie
    proc,     \* the handlers under way
    posts, plans    \* used up of their bounds

vars == <<setup, order, owner, session, proc, posts, plans>>

Init ==
    /\ setup = [i \in Setups |-> Absent]
    /\ order = [k \in Keys |-> NoOrder]
    /\ owner = [k \in Keys |-> None]
    /\ session = [u \in Users |-> 0]
    /\ proc = [p \in Procs |-> Idle]
    /\ posts = 0 /\ plans = 0

-----------------------------------------------------------------------------
Open(i) == setup[i].status \in {"draft", "awaiting_checkout"}

(* The latest open set-up of a user, 0 when there is none. *)
find_active_draft(u) ==
    LET mine == {i \in Setups : Open(i) /\ setup[i].user = u}
    IN  IF mine = {} THEN 0 ELSE CHOOSE i \in mine : \A j \in mine : j <= i

Fresh == {i \in Setups : /\ setup[i].status = "absent"
                         /\ \A j \in Setups : setup[j].status = "absent" => i <= j}

is_confirm_ready(c) ==
    c.plan # None /\ c.package # None /\ c.sub # None /\ c.users >= 1

(* Columns that differ from the loaded copy are written, the others kept. *)
Flush(i, copy, new) ==
    [setup EXCEPT ![i] = [f \in DOMAIN new |->
                            IF new[f] # copy[f] THEN new[f] ELSE @[f]]]

CapUsers(users, plan) ==
    IF users = 0 THEN included_users
    ELSE IF users > max_users[plan] THEN max_users[plan] ELSE users

normalize_selection_for_plan(c, plan) ==
    LET package == IF c.package = None THEN Default ELSE c.package
        new == [c EXCEPT !.plan = plan, !.package = package,
                         !.users = CapUsers(c.users, plan),
                         !.addon = c.addon /\ addon_compatible(package)
                                           /\ addon_allowed_for_plan(plan)]
    IN  IF is_confirm_ready(new) THEN [new EXCEPT !.status = "awaiting_checkout"]
        ELSE new

(* A step of process p that ends with its handler, or loads a copy. *)
Done(p)       == proc' = [proc EXCEPT ![p] = Idle]
Loaded(p, i, pc) == proc' = [proc EXCEPT ![p].pc = pc, ![p].i = i,
                                         ![p].copy = setup'[i]]

-----------------------------------------------------------------------------
(* Choosing a plan.  The select and, when it finds nothing, the insert are   *)
(* separate steps of a thread: nothing keeps a user from two open set-ups.   *)
FindDraft(p, u, plan, intent) ==
    LET i == find_active_draft(u) IN
    /\ proc[p].pc = "idle" /\ plans < MaxPlans
    /\ plans' = plans + 1
    /\ proc' = [proc EXCEPT ![p] = [Idle EXCEPT
                  !.pc = IF i = 0 THEN "insert" ELSE "plan", !.u = u, !.i = i,
                  !.copy = IF i = 0 THEN Absent ELSE setup[i],
                  !.plan = plan, !.intent = intent]]
    /\ UNCHANGED <<setup, order, owner, session, posts>>

(* The set-up page with a plan in its address: a GET that writes. *)
cloud_setup_get(p, u, plan) == p # Loop /\ FindDraft(p, u, plan, FALSE)

cloud_setup_plan_post(p, u, plan) == p = Loop /\ FindDraft(p, u, plan, FALSE)

(* Every sign-in, on the loop or in the Google callback: the plan, and with  *)
(* a paid plan the package, that the visitor chose before.                   *)
post_auth_destination(p, u, plan) == FindDraft(p, u, plan, plan = "pro")

get_or_create_draft_setup(p) ==
    /\ proc[p].pc = "insert"
    /\ \E i \in Fresh :
         /\ setup' = [setup EXCEPT ![i].status = "draft", ![i].user = proc[p].u]
         /\ Loaded(p, i, "plan")
    /\ UNCHANGED <<order, owner, session, posts, plans>>

save_plan(p) ==
    LET i == proc[p].i IN
    /\ proc[p].pc = "plan"
    /\ setup' = Flush(i, proc[p].copy,
                      normalize_selection_for_plan(proc[p].copy, proc[p].plan))
    /\ IF proc[p].intent THEN Loaded(p, i, "intent") ELSE Done(p)
    /\ UNCHANGED <<order, owner, session, posts, plans>>

(* save_package on a loaded copy: incompatible add-ons go with the commit. *)
WithPackage(c, package) ==
    [c EXCEPT !.package = package, !.addon = c.addon /\ addon_compatible(package)]

apply_build_intent_to_setup(p) ==
    LET i == proc[p].i IN
    /\ proc[p].pc = "intent"
    /\ \E package \in Packages :
         setup' = Flush(i, proc[p].copy, WithPackage(proc[p].copy, package))
    /\ Done(p)
    /\ UNCHANGED <<order, owner, session, posts, plans>>

-----------------------------------------------------------------------------
(* The configure form.                                                      *)

cloud_setup_post(u, form) ==
    LET i == find_active_draft(u) IN
    /\ proc[Loop].pc = "idle" /\ posts < MaxPosts
    /\ i # 0 /\ setup[i].plan # None
    /\ posts' = posts + 1
    /\ proc' = [proc EXCEPT ![Loop] = [Idle EXCEPT !.pc = "package", !.u = u,
                  !.i = i, !.copy = setup[i], !.form = form]]
    /\ UNCHANGED <<setup, order, owner, session, plans>>

(* Committed before the form is validated. *)
save_package ==
    LET i == proc[Loop].i IN
    /\ proc[Loop].pc = "package"
    /\ setup' = Flush(i, proc[Loop].copy,
                      WithPackage(proc[Loop].copy, proc[Loop].form.package))
    /\ Loaded(Loop, i, "fields")
    /\ UNCHANGED <<order, owner, session, posts, plans>>

(* Mutant: only addresses of instances count. *)
TakenByInstance(sub, i) == \E k \in Keys : order[k] # NoOrder /\ order[k].sub = sub

subdomain_taken(sub, i) ==
    \/ \E j \in Setups \ {i} : setup[j].status # "absent" /\ setup[j].sub = sub
    \/ \E k \in Keys : order[k] # NoOrder /\ order[k].sub = sub

(* The plan is the one of the loaded copy. *)
ValidConfigure(i, copy, form) ==
    /\ ~subdomain_taken(form.sub, i)
    /\ form.users <= max_users[copy.plan]
    /\ form.addon => addon_allowed_for_plan(copy.plan) /\ addon_compatible(copy.package)

save_configure ==
    LET i == proc[Loop].i
        copy == proc[Loop].copy
        form == proc[Loop].form IN
    /\ proc[Loop].pc = "fields"
    /\ IF ValidConfigure(i, copy, form)
       THEN LET new == [copy EXCEPT !.sub = form.sub, !.users = form.users] IN
            /\ setup' = Flush(i, copy, new)
            /\ proc' = [proc EXCEPT ![Loop].pc = "addons", ![Loop].copy = new,
                                    ![Loop].plan = copy.plan]
       ELSE setup' = setup /\ Done(Loop)
    /\ UNCHANGED <<order, owner, session, posts, plans>>

save_addons ==
    LET i == proc[Loop].i
        copy == proc[Loop].copy IN
    /\ proc[Loop].pc = "addons"
    /\ setup' = Flush(i, copy, [copy EXCEPT !.addon = proc[Loop].form.addon])
    /\ Loaded(Loop, i, "finish")
    /\ UNCHANGED <<order, owner, session, posts, plans>>

(* Normalised for the plan of the form, even when a thread changed it since. *)
FinishConfigure ==
    LET i == proc[Loop].i
        copy == proc[Loop].copy
        new == normalize_selection_for_plan(copy, proc[Loop].plan) IN
    /\ proc[Loop].pc = "finish"
    /\ setup' = Flush(i, copy, [new EXCEPT !.status =
                        IF is_confirm_ready(new) THEN "awaiting_checkout" ELSE "draft"])
    /\ Done(Loop)
    /\ UNCHANGED <<order, owner, session, posts, plans>>

-----------------------------------------------------------------------------
(* Confirm and checkout.                                                    *)

(* Mutant: the price is worked out without looking at the plan's limits. *)
PriceOnly(c) == TRUE

calculate_cloud_price(c) == c.users <= max_users[c.plan]

review_snapshot(c) == is_confirm_ready(c) /\ calculate_cloud_price(c)

(* The confirm page hands out the session's key, or a new one. *)
cloud_setup_confirm_get(u) ==
    LET i == find_active_draft(u) IN
    /\ i # 0 /\ review_snapshot(setup[i]) /\ session[u] = 0
    /\ \E k \in Keys : /\ owner[k] = None
                       /\ \A j \in Keys : owner[j] = None => k <= j
                       /\ owner' = [owner EXCEPT ![k] = u]
                       /\ session' = [session EXCEPT ![u] = k]
    /\ UNCHANGED <<setup, order, proc, posts, plans>>

(* The page, or an older one in another tab, posts its key; without an open  *)
(* set-up the handler only redirects to the order of the key.                *)
_confirm_submit(u, k) ==
    LET i == find_active_draft(u) IN
    /\ proc[Loop].pc = "idle" /\ owner[k] = u /\ i # 0
    /\ proc' = [proc EXCEPT ![Loop] = [Idle EXCEPT !.pc = "checkout", !.u = u,
                  !.i = i, !.copy = setup[i], !.key = k]]
    /\ UNCHANGED <<setup, order, owner, session, posts, plans>>

(* UNIQUE requested_subdomain of cloud_instances. *)
InstanceFree(sub) == \A k \in Keys : order[k] # NoOrder => order[k].sub # sub

(* A known key replays its order; otherwise order, subscription, request and *)
(* instance are inserted, and the set-up submitted, in one commit.           *)
checkout_demo ==
    LET i == proc[Loop].i
        c == proc[Loop].copy
        k == proc[Loop].key
        u == proc[Loop].u IN
    /\ proc[Loop].pc = "checkout"
    /\ \/ order[k] # NoOrder /\ UNCHANGED <<setup, order>>
          /\ session' = [session EXCEPT ![u] = 0]
       \/ /\ order[k] = NoOrder /\ review_snapshot(c) /\ InstanceFree(c.sub)
          /\ order' = [order EXCEPT ![k] =
                [setup |-> i, user |-> u, plan |-> c.plan, package |-> c.package,
                 users |-> c.users, sub |-> c.sub, addon |-> c.addon]]
          /\ setup' = Flush(i, c, [c EXCEPT !.status = "submitted"])
          /\ session' = [session EXCEPT ![u] = 0]
       \/ /\ order[k] = NoOrder /\ ~(review_snapshot(c) /\ InstanceFree(c.sub))
          /\ UNCHANGED <<setup, order, session>>
    /\ Done(Loop)
    /\ UNCHANGED <<owner, posts, plans>>

Next ==
    \/ \E p \in Procs, u \in Users, plan \in Plans :
         \/ cloud_setup_get(p, u, plan)
         \/ cloud_setup_plan_post(p, u, plan)
         \/ post_auth_destination(p, u, plan)
    \/ \E p \in Procs : \/ get_or_create_draft_setup(p)
                        \/ save_plan(p)
                        \/ apply_build_intent_to_setup(p)
    \/ \E u \in Users, form \in Forms : cloud_setup_post(u, form)
    \/ save_package
    \/ save_configure
    \/ save_addons
    \/ FinishConfigure
    \/ \E u \in Users : cloud_setup_confirm_get(u)
    \/ \E u \in Users, k \in Keys : _confirm_submit(u, k)
    \/ checkout_demo

Spec == Init /\ [][Next]_vars

-----------------------------------------------------------------------------
(* Every variable holds a value of its type. *)
TypeOK ==
    /\ setup \in [Setups -> Rows]
    /\ \A k \in Keys : order[k] = NoOrder \/ order[k] \in Orders
    /\ owner \in [Keys -> Users \cup {None}]
    /\ session \in [Users -> 0 .. MaxKeys]
    /\ \A p \in Procs : proc[p].i \in 0 .. MaxSetups /\ proc[p].copy \in Rows
    /\ posts \in 0 .. MaxPosts /\ plans \in 0 .. MaxPlans

(* Two set-ups never ask for the same workspace address, submitted ones      *)
(* included: subdomain_taken and the write are separate statements, and only *)
(* the event loop's serial POSTs keep two customers apart.                   *)
SubdomainsDistinct ==
    \A i, j \in Setups : i # j /\ setup[i].sub # None => setup[i].sub # setup[j].sub

(* An order never holds more users than its plan allows, whatever a plan     *)
(* change did to the row between the configure form and the confirmation.    *)
OrderWithinPlan ==
    \A k \in Keys : order[k] # NoOrder => order[k].users <= max_users[order[k].plan]

===============================================================================
