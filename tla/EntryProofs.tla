----------------------------- MODULE EntryProofs ------------------------------
(***************************************************************************)
(* Proofs about the three ways in that MCEntry checks side by side, for    *)
(* any number of customers, tabs, set-ups, accounts, browsers, workers and *)
(* demo sessions.  SInv is inductive for the set-up and the order, AInv    *)
(* for the accounts, DInv for Quick Demo, whose steps are then shown to be *)
(* steps of DemoSession.                                                   *)
(***************************************************************************)
EXTENDS MCEntry, FiniteSetTheorems, WellFoundedInduction, TLAPS

(* The columns of a set-up ...                                              *)
Fields == {"status", "user", "plan", "package", "users", "sub", "addon"}

(* ... and what a handler remembers.                                        *)
Parts == {"pc", "u", "i", "copy", "form", "plan", "intent", "key"}

(* A value with the columns of a set-up.                                    *)
SRow(r) == r = [f \in Fields |-> r[f]]

(* A value with the parts of a handler.                                     *)
SProc(q) == q = [f \in Parts |-> q[f]]

(* The steps of a handler that works on a loaded set-up.                    *)
Busy == {"plan", "intent", "package", "fields", "addons", "finish", "checkout"}

(* The inductive invariant of the set-ups: a handler works on a row that    *)
(* was inserted, and a row that was not has no address, so whoever tests an *)
(* address sees every row that holds one.                                   *)
SInv ==
    /\ setup = [i \in Setup!Setups |-> setup[i]]
    /\ order = [k \in Setup!Keys |-> order[k]]
    /\ proc = [p \in Setup!Procs |-> proc[p]]
    /\ \A i \in Setup!Setups : /\ SRow(setup[i])
                               /\ setup[i].status = "absent" => setup[i].sub = "none"
    /\ \A p \in Setup!Procs :
         /\ SProc(proc[p])
         /\ proc[p].pc \in Busy => /\ proc[p].i \in Setup!Setups
                                   /\ setup[proc[p].i].status # "absent"
                                   /\ SRow(proc[p].copy)
    /\ SubdomainsDistinct
    /\ OrderWithinPlan

(* Writing the changed columns of a loaded copy changes one row: a column   *)
(* the handler did not touch keeps what another handler wrote.              *)
LEMMA FlushedRow ==
    ASSUME SInv, NEW i \in Setup!Setups, NEW c, NEW new, SRow(new),
           setup' = Setup!Flush(i, c, new)
    PROVE  /\ setup' = [j \in Setup!Setups |-> setup'[j]]
           /\ \A j \in Setup!Setups \ {i} : setup'[j] = setup[j]
           /\ SRow(setup'[i])
           /\ setup'[i].sub = IF new.sub # c.sub THEN new.sub ELSE setup[i].sub
           /\ setup'[i].status = IF new.status # c.status THEN new.status ELSE setup[i].status
<1> DEFINE r == [f \in DOMAIN new |-> IF new[f] # c[f] THEN new[f] ELSE setup[i][f]]
<1>1. setup' = [setup EXCEPT ![i] = r]
  BY DEF Setup!Flush
<1>2. DOMAIN new = Fields
  BY DEF SRow
<1>3. SRow(r)
  BY <1>2 DEF SRow
<1>4. "sub" \in DOMAIN new /\ "status" \in DOMAIN new
  BY <1>2 DEF Fields
<1>5. /\ r.sub = IF new.sub # c.sub THEN new.sub ELSE setup[i].sub
      /\ r.status = IF new.status # c.status THEN new.status ELSE setup[i].status
  BY <1>4
<1>6. setup = [j \in Setup!Setups |-> setup[j]]
  BY DEF SInv
<1> HIDE DEF r
<1>7. setup'[i] = r /\ \A j \in Setup!Setups \ {i} : setup'[j] = setup[j]
  BY <1>1, <1>6
<1>8. setup' = [j \in Setup!Setups |-> setup'[j]]
  BY <1>1, <1>6
<1> QED  BY <1>3, <1>5, <1>7, <1>8

(* A step that changes one row, and the handler that does, keeps SInv when  *)
(* the address it writes is no other row's.                                 *)
LEMMA RowMoves ==
    ASSUME SInv, NEW p \in Setup!Procs, NEW i \in Setup!Setups,
           setup' = [j \in Setup!Setups |-> setup'[j]],
           \A j \in Setup!Setups \ {i} : setup'[j] = setup[j],
           SRow(setup'[i]),
           setup[i].status # "absent" => setup'[i].status # "absent",
           setup'[i].sub = "none" \/ setup'[i].status # "absent",
           \/ setup'[i].sub \in {setup[i].sub, "none"}
           \/ \A j \in Setup!Setups \ {i} : setup[j].sub # setup'[i].sub,
           NEW q, SProc(q), proc' = [proc EXCEPT ![p] = q],
           q.pc \in Busy => q.i = i /\ setup'[i].status # "absent" /\ SRow(q.copy),
           order' = [k \in Setup!Keys |-> order'[k]], OrderWithinPlan'
    PROVE  SInv'
<1>1. proc' = [r \in Setup!Procs |-> proc'[r]] /\ proc'[p] = q
      /\ \A r \in Setup!Procs \ {p} : proc'[r] = proc[r]
  BY DEF SInv
<1>2. \A j \in Setup!Setups : /\ SRow(setup'[j])
                              /\ setup'[j].status = "absent" => setup'[j].sub = "none"
  BY DEF SInv
<1>3. \A j \in Setup!Setups : setup[j].status # "absent" => setup'[j].status # "absent"
  OBVIOUS
<1>4. ASSUME NEW r \in Setup!Procs
      PROVE  /\ SProc(proc'[r])
             /\ proc'[r].pc \in Busy => /\ proc'[r].i \in Setup!Setups
                                        /\ setup'[proc'[r].i].status # "absent"
                                        /\ SRow(proc'[r].copy)
  <2>1. CASE r = p
    BY <1>1, <2>1
  <2>2. CASE r # p
    BY <1>1, <1>3, <2>2 DEF SInv
  <2> QED  BY <2>1, <2>2
<1>5. SubdomainsDistinct'
  <2> SUFFICES ASSUME NEW j \in Setup!Setups, NEW k \in Setup!Setups, j # k, setup'[j].sub # "none"
               PROVE  setup'[j].sub # setup'[k].sub
    BY DEF SubdomainsDistinct, Setup!SubdomainsDistinct, Setup!None
  <2>1. \A x, y \in Setup!Setups : x # y /\ setup[x].sub # "none" => setup[x].sub # setup[y].sub
    BY DEF SInv, SubdomainsDistinct, Setup!SubdomainsDistinct, Setup!None
  <2>2. CASE j = i
    BY <2>1, <2>2
  <2>3. CASE k = i
    BY <2>1, <2>3
  <2>4. CASE j # i /\ k # i
    BY <2>1, <2>4
  <2> QED  BY <2>2, <2>3, <2>4
<1> QED  BY <1>1, <1>2, <1>4, <1>5 DEF SInv

(* A step that only moves a handler keeps SInv.                             *)
LEMMA ProcMoves ==
    ASSUME SInv, NEW p \in Setup!Procs, UNCHANGED <<setup, order>>,
           NEW q, SProc(q), proc' = [proc EXCEPT ![p] = q],
           q.pc \in Busy => /\ q.i \in Setup!Setups /\ setup[q.i].status # "absent"
                            /\ SRow(q.copy)
    PROVE  SInv'
<1>1. proc' = [r \in Setup!Procs |-> proc'[r]] /\ proc'[p] = q
      /\ \A r \in Setup!Procs \ {p} : proc'[r] = proc[r]
  BY DEF SInv
<1>2. ASSUME NEW r \in Setup!Procs
      PROVE  /\ SProc(proc'[r])
             /\ proc'[r].pc \in Busy => /\ proc'[r].i \in Setup!Setups
                                        /\ setup[proc'[r].i].status # "absent"
                                        /\ SRow(proc'[r].copy)
  <2>1. CASE r = p
    BY <1>1, <2>1
  <2>2. CASE r # p
    BY <1>1, <2>2 DEF SInv
  <2> QED  BY <2>1, <2>2
<1>3. SubdomainsDistinct' /\ OrderWithinPlan'
  BY DEF SInv, SubdomainsDistinct, Setup!SubdomainsDistinct, OrderWithinPlan,
         Setup!OrderWithinPlan
<1> QED  BY <1>1, <1>2, <1>3 DEF SInv

(* A write of the changed columns keeps SInv: a status is never cleared,    *)
(* and the address stays or is no other row's.                              *)
LEMMA FlushMoves ==
    ASSUME SInv, NEW p \in Setup!Procs, proc[p].pc \in Busy,
           NEW new, SRow(new), setup' = Setup!Flush(proc[p].i, proc[p].copy, new),
           new.status = proc[p].copy.status \/ new.status # "absent",
           \/ new.sub = proc[p].copy.sub
           \/ \A j \in Setup!Setups \ {proc[p].i} : setup[j].sub # new.sub,
           NEW q, SProc(q), proc' = [proc EXCEPT ![p] = q],
           q.pc \in Busy => /\ q.i = proc[p].i
                            /\ SRow(setup'[proc[p].i]) => SRow(q.copy),
           order' = [k \in Setup!Keys |-> order'[k]], OrderWithinPlan'
    PROVE  SInv'
<1> DEFINE i == proc[p].i
           c == proc[p].copy
<1>1. i \in Setup!Setups /\ setup[i].status # "absent" /\ SRow(c)
  BY DEF SInv
<1>2. /\ setup' = [j \in Setup!Setups |-> setup'[j]]
      /\ \A j \in Setup!Setups \ {i} : setup'[j] = setup[j]
      /\ SRow(setup'[i])
      /\ setup'[i].sub = IF new.sub # c.sub THEN new.sub ELSE setup[i].sub
      /\ setup'[i].status = IF new.status # c.status THEN new.status ELSE setup[i].status
  BY <1>1, FlushedRow
<1>3. setup'[i].status # "absent"
  BY <1>1, <1>2
<1>4. \/ setup'[i].sub \in {setup[i].sub, "none"}
      \/ \A j \in Setup!Setups \ {i} : setup[j].sub # setup'[i].sub
  BY <1>2
<1>5. q.pc \in Busy => q.i = i /\ SRow(q.copy)
  BY <1>2
<1> HIDE DEF i
<1> QED  BY <1>1, <1>2, <1>3, <1>4, <1>5, RowMoves

(* find_active_draft returns a row that was inserted: the largest of a set  *)
(* of row ids is one of them.                                               *)
LEMMA DraftFound ==
    ASSUME NEW u, Setup!find_active_draft(u) # 0
    PROVE  /\ Setup!find_active_draft(u) \in Setup!Setups
           /\ setup[Setup!find_active_draft(u)].status # "absent"
<1> DEFINE mine == {i \in Setup!Setups : Setup!Open(i) /\ setup[i].user = u}
           left == {MaxSetups - i : i \in mine}
<1>1. MaxSetups \in Nat
  BY EntryBounds DEF Setup!SetupAssumption
<1>2. mine # {} /\ mine \subseteq 1 .. MaxSetups
  BY DEF Setup!find_active_draft, Setup!Setups
<1>3. left \subseteq Nat /\ left # {}
  BY <1>1, <1>2
<1>4. PICK x \in left : \A y \in left : ~ (<<y, x>> \in OpToRel(<, Nat))
  BY <1>3, NatLessThanWellFounded, WFMin
<1>5. PICK i \in mine : x = MaxSetups - i
  BY <1>4
<1>6. \A j \in mine : j <= i
  <2> TAKE j \in mine
  <2>1. MaxSetups - j \in left /\ MaxSetups - j \in Nat /\ x \in Nat
    BY <1>3, <1>4
  <2>2. ~(MaxSetups - j < x)
    BY <1>4, <2>1 DEF OpToRel
  <2>3. j \in Int /\ i \in Int
    BY <1>2
  <2> HIDE DEF mine, left
  <2> QED  BY <1>1, <1>5, <2>2, <2>3
<1>7. Setup!find_active_draft(u) = CHOOSE k \in mine : \A j \in mine : j <= k
  BY <1>2 DEF Setup!find_active_draft
<1>8. Setup!find_active_draft(u) \in mine
  <2> HIDE DEF mine
  <2> QED  BY <1>6, <1>7
<1> QED  BY <1>8 DEF Setup!Open

(* A handler that ended has the parts of a handler.                         *)
LEMMA IdleRow ==
    /\ SProc(Setup!Idle) /\ Setup!Idle.pc = "idle" /\ Setup!Idle.pc \notin Busy
    /\ SRow(Setup!Absent)
BY DEF SProc, SRow, Setup!Idle, Setup!Absent, Busy, Parts, Fields

(* FlushMoves, for a step that ends its handler ...                         *)
LEMMA DoneMoves ==
    ASSUME SInv, NEW p \in Setup!Procs, proc[p].pc \in Busy, Setup!Done(p),
           NEW new, SRow(new), setup' = Setup!Flush(proc[p].i, proc[p].copy, new),
           new.status = proc[p].copy.status \/ new.status # "absent",
           \/ new.sub = proc[p].copy.sub
           \/ \A j \in Setup!Setups \ {proc[p].i} : setup[j].sub # new.sub,
           order' = [k \in Setup!Keys |-> order'[k]], OrderWithinPlan'
    PROVE  SInv'
<1>1. proc' = [proc EXCEPT ![p] = Setup!Idle]
  BY DEF Setup!Done
<1> QED  BY <1>1, IdleRow, FlushMoves

(* ... and for one that loads the row it wrote.                             *)
LEMMA LoadedMoves ==
    ASSUME SInv, NEW p \in Setup!Procs, proc[p].pc \in Busy, NEW pc,
           Setup!Loaded(p, proc[p].i, pc),
           NEW new, SRow(new), setup' = Setup!Flush(proc[p].i, proc[p].copy, new),
           new.status = proc[p].copy.status \/ new.status # "absent",
           \/ new.sub = proc[p].copy.sub
           \/ \A j \in Setup!Setups \ {proc[p].i} : setup[j].sub # new.sub,
           order' = [k \in Setup!Keys |-> order'[k]], OrderWithinPlan'
    PROVE  SInv'
<1> DEFINE q == [proc[p] EXCEPT !.pc = pc, !.i = proc[p].i, !.copy = setup'[proc[p].i]]
<1>1. SProc(proc[p])
  BY DEF SInv
<1>2. DOMAIN proc[p] = Parts
  BY <1>1 DEF SProc
<1>3. SProc(q)
  BY <1>2 DEF SProc
<1>4. q.i = proc[p].i /\ q.copy = setup'[proc[p].i]
  BY <1>2 DEF Parts
<1>5. proc' = [proc EXCEPT ![p] = q]
  BY DEF Setup!Loaded
<1> HIDE DEF q
<1> QED  BY <1>3, <1>4, <1>5, FlushMoves

(* A step that leaves the orders alone keeps what SInv says of them.        *)
LEMMA KeepsOrders ==
    ASSUME SInv, order' = order
    PROVE  order' = [k \in Setup!Keys |-> order'[k]] /\ OrderWithinPlan'
BY DEF SInv, OrderWithinPlan, Setup!OrderWithinPlan

(* The select of get_or_create_draft_setup.                                 *)
LEMMA FindDraftStep ==
    ASSUME SInv, NEW p \in Setup!Procs, NEW u, NEW plan, NEW intent,
           Setup!FindDraft(p, u, plan, intent)
    PROVE  SInv'
<1> DEFINE i == Setup!find_active_draft(u)
           q == [Setup!Idle EXCEPT
                  !.pc = IF i = 0 THEN "insert" ELSE "plan", !.u = u, !.i = i,
                  !.copy = IF i = 0 THEN Setup!Absent ELSE setup[i],
                  !.plan = plan, !.intent = intent]
<1>1. proc' = [proc EXCEPT ![p] = q] /\ UNCHANGED <<setup, order>>
  BY DEF Setup!FindDraft
<1>2. SProc(q)
  BY IdleRow DEF SProc
<1>3. /\ q.pc = IF i = 0 THEN "insert" ELSE "plan"
      /\ q.i = i /\ (i # 0 => q.copy = setup[i])
  BY DEF Setup!Idle
<1>4. q.pc \in Busy => q.i \in Setup!Setups /\ setup[q.i].status # "absent" /\ SRow(q.copy)
  <2>1. q.pc \in Busy => i # 0
    BY <1>3 DEF Busy
  <2>2. i # 0 => i \in Setup!Setups /\ setup[i].status # "absent"
    BY DraftFound
  <2> HIDE DEF i, q
  <2> QED  BY <1>3, <2>1, <2>2 DEF SInv
<1> HIDE DEF q
<1> QED  BY <1>1, <1>2, <1>4, ProcMoves

(* The configure form arrives.                                              *)
LEMMA PostStep ==
    ASSUME SInv, NEW u, NEW form, Setup!cloud_setup_post(u, form)
    PROVE  SInv'
<1> DEFINE i == Setup!find_active_draft(u)
           q == [Setup!Idle EXCEPT !.pc = "package", !.u = u, !.i = i, !.copy = setup[i],
                  !.form = form]
<1>1. proc' = [proc EXCEPT ![Setup!Loop] = q] /\ UNCHANGED <<setup, order>> /\ i # 0
  BY DEF Setup!cloud_setup_post
<1>2. SProc(q)
  BY IdleRow DEF SProc
<1>3. q.i = i /\ q.copy = setup[i]
  BY DEF Setup!Idle
<1>4. q.i \in Setup!Setups /\ setup[q.i].status # "absent" /\ SRow(q.copy)
  <2>1. i \in Setup!Setups /\ setup[i].status # "absent"
    BY <1>1, DraftFound
  <2> HIDE DEF i, q
  <2> QED  BY <1>3, <2>1 DEF SInv
<1>5. Setup!Loop \in Setup!Procs
  BY DEF Setup!Procs
<1> HIDE DEF q
<1> QED  BY <1>1, <1>2, <1>4, <1>5, ProcMoves

(* The confirm page is posted.                                              *)
LEMMA SubmitStep ==
    ASSUME SInv, NEW u, NEW k, Setup!_confirm_submit(u, k)
    PROVE  SInv'
<1> DEFINE i == Setup!find_active_draft(u)
           q == [Setup!Idle EXCEPT !.pc = "checkout", !.u = u, !.i = i, !.copy = setup[i],
                  !.key = k]
<1>1. proc' = [proc EXCEPT ![Setup!Loop] = q] /\ UNCHANGED <<setup, order>> /\ i # 0
  BY DEF Setup!_confirm_submit
<1>2. SProc(q)
  BY IdleRow DEF SProc
<1>3. q.i = i /\ q.copy = setup[i]
  BY DEF Setup!Idle
<1>4. q.i \in Setup!Setups /\ setup[q.i].status # "absent" /\ SRow(q.copy)
  <2>1. i \in Setup!Setups /\ setup[i].status # "absent"
    BY <1>1, DraftFound
  <2> HIDE DEF i, q
  <2> QED  BY <1>3, <2>1 DEF SInv
<1>5. Setup!Loop \in Setup!Procs
  BY DEF Setup!Procs
<1> HIDE DEF q
<1> QED  BY <1>1, <1>2, <1>4, <1>5, ProcMoves

(* The insert of get_or_create_draft_setup: the new row has no address.     *)
LEMMA DraftInserted ==
    ASSUME SInv, NEW p \in Setup!Procs, Setup!get_or_create_draft_setup(p)
    PROVE  SInv'
<1>1. PICK i \in Setup!Fresh :
        /\ setup' = [setup EXCEPT ![i].status = "draft", ![i].user = proc[p].u]
        /\ proc' = [proc EXCEPT ![p].pc = "plan", ![p].i = i, ![p].copy = setup'[i]]
        /\ order' = order
  BY DEF Setup!get_or_create_draft_setup, Setup!Loaded
<1>2. i \in Setup!Setups /\ setup[i].status = "absent" /\ setup[i].sub = "none" /\ SRow(setup[i])
  BY DEF Setup!Fresh, SInv
<1> DEFINE r == [setup[i] EXCEPT !.status = "draft", !.user = proc[p].u]
           q == [proc[p] EXCEPT !.pc = "plan", !.i = i, !.copy = setup'[i]]
<1>3. /\ setup = [j \in Setup!Setups |-> setup[j]] /\ i \in DOMAIN setup
      /\ p \in DOMAIN proc
  BY <1>2 DEF SInv
<1>9. setup' = [setup EXCEPT ![i] = r]
  BY <1>1, <1>3
<1>10. proc' = [proc EXCEPT ![p] = q]
  BY <1>1, <1>3
<1>4. DOMAIN setup[i] = Fields
  BY <1>2 DEF SRow
<1>5. SRow(r) /\ r.status = "draft" /\ r.sub = "none"
  BY <1>2, <1>4 DEF SRow, Fields
<1>6. DOMAIN proc[p] = Parts
  BY DEF SInv, SProc
<1>7. SProc(q) /\ q.i = i /\ q.copy = setup'[i]
  BY <1>6 DEF SProc, Parts
<1> HIDE DEF r, q
<1>8. /\ setup' = [j \in Setup!Setups |-> setup'[j]] /\ setup'[i] = r
      /\ \A j \in Setup!Setups \ {i} : setup'[j] = setup[j]
  BY <1>2, <1>3, <1>9
<1> QED  BY <1>1, <1>2, <1>9, <1>10, <1>5, <1>7, <1>8, KeepsOrders, RowMoves, ZenonT(60)

(* normalize_selection_for_plan keeps the address, and never clears the     *)
(* status.                                                                  *)
LEMMA Normalized ==
    ASSUME NEW c, SRow(c), NEW plan
    PROVE  LET new == Setup!normalize_selection_for_plan(c, plan)
           IN  /\ SRow(new) /\ new.sub = c.sub
               /\ new.status = c.status \/ new.status = "awaiting_checkout"
<1> DEFINE package == IF c.package = Setup!None THEN Setup!Default ELSE c.package
           capped == Setup!CapUsers(c.users, plan)
           addon == c.addon /\ Setup!addon_compatible(package) /\ Setup!addon_allowed_for_plan(plan)
           new == [c EXCEPT !.plan = plan, !.package = package, !.users = capped, !.addon = addon]
<1>1. Setup!normalize_selection_for_plan(c, plan)
        = IF Setup!is_confirm_ready(new) THEN [new EXCEPT !.status = "awaiting_checkout"] ELSE new
  BY DEF Setup!normalize_selection_for_plan
<1>2. DOMAIN c = Fields
  BY DEF SRow
<1> HIDE DEF package, capped, addon
<1>3. SRow(new) /\ new.sub = c.sub /\ new.status = c.status
  BY <1>2 DEF SRow, Fields
<1> HIDE DEF new
<1>4. DOMAIN new = Fields
  BY <1>3 DEF SRow
<1>5. /\ SRow([new EXCEPT !.status = "awaiting_checkout"])
      /\ [new EXCEPT !.status = "awaiting_checkout"].status = "awaiting_checkout"
      /\ [new EXCEPT !.status = "awaiting_checkout"].sub = new.sub
  BY <1>4 DEF SRow, Fields
<1> QED  BY <1>1, <1>3, <1>5

(* So does save_package.                                                    *)
LEMMA Packaged ==
    ASSUME NEW c, SRow(c), NEW package
    PROVE  LET new == Setup!WithPackage(c, package)
           IN  SRow(new) /\ new.sub = c.sub /\ new.status = c.status
<1>1. DOMAIN c = Fields
  BY DEF SRow
<1> DEFINE addon == c.addon /\ Setup!addon_compatible(package)
           new == [c EXCEPT !.package = package, !.addon = addon]
<1>2. Setup!WithPackage(c, package) = new
  BY DEF Setup!WithPackage
<1> HIDE DEF addon
<1>3. SRow(new) /\ new.sub = c.sub /\ new.status = c.status
  BY <1>1 DEF SRow, Fields
<1> QED  BY <1>2, <1>3

(* A handler's copy has the columns of a set-up.                            *)
LEMMA AtWorkOn ==
    ASSUME SInv, NEW p \in Setup!Procs, proc[p].pc \in Busy
    PROVE  SRow(proc[p].copy) /\ DOMAIN proc[p].copy = Fields
BY DEF SInv, SRow

(* save_plan, from a thread or the loop, writes no address.                 *)
LEMMA SavePlanStep ==
    ASSUME SInv, NEW p \in Setup!Procs, Setup!save_plan(p)
    PROVE  SInv'
<1> DEFINE new == Setup!normalize_selection_for_plan(proc[p].copy, proc[p].plan)
<1>1. /\ proc[p].pc = "plan" /\ setup' = Setup!Flush(proc[p].i, proc[p].copy, new)
      /\ Setup!Loaded(p, proc[p].i, "intent") \/ Setup!Done(p)
      /\ order' = order
  BY DEF Setup!save_plan
<1>2. proc[p].pc \in Busy
  BY <1>1 DEF Busy
<1>3. /\ SRow(new) /\ new.sub = proc[p].copy.sub
      /\ new.status = proc[p].copy.status \/ new.status # "absent"
  BY <1>2, AtWorkOn, Normalized
<1> HIDE DEF new
<1> QED  BY <1>1, <1>2, <1>3, KeepsOrders, DoneMoves, LoadedMoves

(* apply_build_intent_to_setup writes no address.                           *)
LEMMA IntentStep ==
    ASSUME SInv, NEW p \in Setup!Procs, Setup!apply_build_intent_to_setup(p)
    PROVE  SInv'
<1>1. PICK package \in Setup!Packages :
        setup' = Setup!Flush(proc[p].i, proc[p].copy, Setup!WithPackage(proc[p].copy, package))
  BY DEF Setup!apply_build_intent_to_setup
<1>2. proc[p].pc = "intent" /\ Setup!Done(p) /\ order' = order
  BY DEF Setup!apply_build_intent_to_setup
<1>3. proc[p].pc \in Busy
  BY <1>2 DEF Busy
<1> DEFINE new == Setup!WithPackage(proc[p].copy, package)
<1>4. SRow(new) /\ new.sub = proc[p].copy.sub /\ new.status = proc[p].copy.status
  BY <1>3, AtWorkOn, Packaged
<1>5. setup' = Setup!Flush(proc[p].i, proc[p].copy, new)
  BY <1>1
<1> HIDE DEF new
<1> QED  BY <1>2, <1>3, <1>4, <1>5, KeepsOrders, DoneMoves

(* save_package writes no address.                                          *)
LEMMA SavePackageStep ==
    ASSUME SInv, Setup!save_package
    PROVE  SInv'
<1> DEFINE p == Setup!Loop
           new == Setup!WithPackage(proc[p].copy, proc[p].form.package)
<1>1. /\ proc[p].pc = "package" /\ setup' = Setup!Flush(proc[p].i, proc[p].copy, new)
      /\ Setup!Loaded(p, proc[p].i, "fields") /\ order' = order
  BY DEF Setup!save_package
<1>2. proc[p].pc \in Busy /\ p \in Setup!Procs
  BY <1>1 DEF Busy, Setup!Procs
<1>3. SRow(new) /\ new.sub = proc[p].copy.sub /\ new.status = proc[p].copy.status
  BY <1>2, AtWorkOn, Packaged
<1> HIDE DEF new, p
<1> QED  BY <1>1, <1>2, <1>3, KeepsOrders, LoadedMoves

(* save_configure tests the address against every other row before it       *)
(* writes it, and no step in between belongs to another POST.               *)
LEMMA SaveConfigureStep ==
    ASSUME SInv, Setup!save_configure
    PROVE  SInv'
<1> DEFINE p == Setup!Loop
           i == proc[p].i
           c == proc[p].copy
           form == proc[p].form
<1>1. proc[p].pc = "fields" /\ order' = order
  BY DEF Setup!save_configure
<1>2. proc[p].pc \in Busy /\ p \in Setup!Procs
  BY <1>1 DEF Busy, Setup!Procs
<1>3. CASE Setup!ValidConfigure(i, c, form)
  <2> DEFINE new == [c EXCEPT !.sub = form.sub, !.users = form.users]
             q == [proc[p] EXCEPT !.pc = "addons", !.copy = new, !.plan = c.plan]
  <2>1. /\ setup' = Setup!Flush(i, c, new)
        /\ proc' = [proc EXCEPT ![p].pc = "addons", ![p].copy = new, ![p].plan = c.plan]
    BY <1>3 DEF Setup!save_configure
  <2>2. SRow(new) /\ new.sub = form.sub /\ new.status = c.status
    <3>1. DOMAIN c = Fields
      BY <1>2, AtWorkOn
    <3>2. DOMAIN new = Fields
      BY <3>1
    <3> QED  BY <3>1, <3>2 DEF SRow, Fields
  <2>3. \A j \in Setup!Setups \ {i} : setup[j].sub # form.sub \/ form.sub = "none"
    BY <1>3 DEF Setup!ValidConfigure, Setup!subdomain_taken, SInv
  <2>4. SProc(proc[p])
    BY <1>2 DEF SInv
  <2>5. DOMAIN proc[p] = Parts
    BY <2>4 DEF SProc
  <2> HIDE DEF new
  <2>6. SProc(q) /\ q.i = i /\ q.copy = new
    BY <2>5 DEF SProc, Parts
  <2>7. p \in DOMAIN proc
    BY <1>2 DEF SInv
  <2>8. proc' = [proc EXCEPT ![p] = q]
    BY <2>1, <2>7
  <2> HIDE DEF q
  <2>9. i \in Setup!Setups /\ setup[i].status # "absent" /\ SRow(c)
    BY <1>2 DEF SInv
  <2>10. /\ setup' = [j \in Setup!Setups |-> setup'[j]]
         /\ \A j \in Setup!Setups \ {i} : setup'[j] = setup[j]
         /\ SRow(setup'[i])
         /\ setup'[i].sub = IF new.sub # c.sub THEN new.sub ELSE setup[i].sub
         /\ setup'[i].status = IF new.status # c.status THEN new.status ELSE setup[i].status
    BY <2>1, <2>2, <2>9, FlushedRow
  <2>11. setup'[i].status # "absent"
    BY <2>2, <2>9, <2>10
  <2>12. \/ setup'[i].sub \in {setup[i].sub, "none"}
         \/ \A j \in Setup!Setups \ {i} : setup[j].sub # setup'[i].sub
    BY <2>2, <2>3, <2>10
  <2> HIDE DEF i, c, p
  <2> QED  BY <1>1, <1>2, <2>2, <2>6, <2>8, <2>9, <2>10, <2>11, <2>12, KeepsOrders, RowMoves
<1>4. CASE ~Setup!ValidConfigure(i, c, form)
  <2>1. setup' = setup /\ proc' = [proc EXCEPT ![p] = Setup!Idle]
    BY <1>4 DEF Setup!save_configure, Setup!Done
  <2> QED  BY <1>1, <1>2, <2>1, IdleRow, ProcMoves
<1> QED  BY <1>3, <1>4

(* save_addons writes no address.                                           *)
LEMMA SaveAddonsStep ==
    ASSUME SInv, Setup!save_addons
    PROVE  SInv'
<1> DEFINE p == Setup!Loop
           addon == proc[p].form.addon
           new == [proc[p].copy EXCEPT !.addon = addon]
<1>1. /\ proc[p].pc = "addons" /\ setup' = Setup!Flush(proc[p].i, proc[p].copy, new)
      /\ Setup!Loaded(p, proc[p].i, "finish") /\ order' = order
  BY DEF Setup!save_addons
<1>2. proc[p].pc \in Busy /\ p \in Setup!Procs
  BY <1>1 DEF Busy, Setup!Procs
<1> HIDE DEF addon
<1>3. SRow(new) /\ new.sub = proc[p].copy.sub /\ new.status = proc[p].copy.status
  <2>1. DOMAIN proc[p].copy = Fields
    BY <1>2, AtWorkOn
  <2> QED  BY <2>1 DEF SRow, Fields
<1> HIDE DEF new, p
<1> QED  BY <1>1, <1>2, <1>3, KeepsOrders, LoadedMoves

(* The end of the configure form writes no address.                         *)
LEMMA FinishStep ==
    ASSUME SInv, Setup!FinishConfigure
    PROVE  SInv'
<1> DEFINE p == Setup!Loop
           n == Setup!normalize_selection_for_plan(proc[p].copy, proc[p].plan)
           status == IF Setup!is_confirm_ready(n) THEN "awaiting_checkout" ELSE "draft"
           new == [n EXCEPT !.status = status]
<1>1. /\ proc[p].pc = "finish" /\ setup' = Setup!Flush(proc[p].i, proc[p].copy, new)
      /\ Setup!Done(p) /\ order' = order
  BY DEF Setup!FinishConfigure
<1>2. proc[p].pc \in Busy /\ p \in Setup!Procs
  BY <1>1 DEF Busy, Setup!Procs
<1>3. SRow(n) /\ n.sub = proc[p].copy.sub
  BY <1>2, AtWorkOn, Normalized
<1>4. status # "absent"
  OBVIOUS
<1> HIDE DEF status, n
<1>5. SRow(new) /\ new.sub = n.sub /\ new.status = status
  <2>1. DOMAIN n = Fields
    BY <1>3 DEF SRow
  <2> QED  BY <2>1 DEF SRow, Fields
<1> HIDE DEF new, p
<1> QED  BY <1>1, <1>2, <1>3, <1>4, <1>5, KeepsOrders, DoneMoves

(* checkout_demo takes the order from the copy whose price it worked out.   *)
LEMMA CheckoutStep ==
    ASSUME SInv, Setup!checkout_demo
    PROVE  SInv'
<1> DEFINE p == Setup!Loop
           c == proc[p].copy
           k == proc[p].key
           new == [c EXCEPT !.status = "submitted"]
<1>1. proc[p].pc = "checkout" /\ Setup!Done(p)
  BY DEF Setup!checkout_demo
<1>2. proc[p].pc \in Busy /\ p \in Setup!Procs
  BY <1>1 DEF Busy, Setup!Procs
<1>3. CASE UNCHANGED <<setup, order>>
  <2>1. proc' = [proc EXCEPT ![p] = Setup!Idle]
    BY <1>1 DEF Setup!Done
  <2> QED  BY <1>2, <1>3, <2>1, IdleRow, ProcMoves
<1>4. CASE ~UNCHANGED <<setup, order>>
  <2>1. /\ Setup!review_snapshot(c) /\ setup' = Setup!Flush(proc[p].i, c, new)
        /\ order' = [order EXCEPT ![k] =
              [setup |-> proc[p].i, user |-> proc[p].u, plan |-> c.plan, package |-> c.package,
               users |-> c.users, sub |-> c.sub, addon |-> c.addon]]
    BY <1>4 DEF Setup!checkout_demo
  <2>2. SRow(new) /\ new.sub = c.sub /\ new.status = "submitted"
    <3>1. DOMAIN c = Fields
      BY <1>2, AtWorkOn
    <3> QED  BY <3>1 DEF SRow, Fields
  <2>3. c.users <= Setup!max_users[c.plan]
    BY <2>1 DEF Setup!review_snapshot, Setup!calculate_cloud_price
  <2>4. order' = [j \in Setup!Keys |-> order'[j]] /\ OrderWithinPlan'
    BY <2>1, <2>3 DEF SInv, OrderWithinPlan, Setup!OrderWithinPlan
  <2> HIDE DEF new, c, p
  <2>5. new.status # "absent"
    BY <2>2
  <2>6. setup' = Setup!Flush(proc[p].i, proc[p].copy, new) /\ new.sub = proc[p].copy.sub
    BY <2>1, <2>2 DEF c
  <2> QED  BY <1>1, <1>2, <2>2, <2>4, <2>5, <2>6, DoneMoves
<1> QED  BY <1>3, <1>4

(* The invariant depends on the set-ups, the orders and the handlers.       *)
LEMMA SetupStutter ==
    ASSUME SInv, UNCHANGED <<setup, order, proc>>
    PROVE  SInv'
BY DEF SInv, SubdomainsDistinct, Setup!SubdomainsDistinct, OrderWithinPlan,
       Setup!OrderWithinPlan

(* Every step of the set-up part keeps the invariant.                       *)
LEMMA SetupNext ==
    ASSUME SInv, Setup!Next
    PROVE  SInv'
<1>1. ASSUME NEW p \in Setup!Procs, NEW u \in Users, NEW plan \in Setup!Plans,
             \/ Setup!cloud_setup_get(p, u, plan)
             \/ Setup!cloud_setup_plan_post(p, u, plan)
             \/ Setup!post_auth_destination(p, u, plan)
      PROVE  SInv'
  <2>1. \E intent \in {FALSE, plan = "pro"} : Setup!FindDraft(p, u, plan, intent)
    BY <1>1 DEF Setup!cloud_setup_get, Setup!cloud_setup_plan_post, Setup!post_auth_destination
  <2> QED  BY <2>1, FindDraftStep
<1>2. ASSUME NEW p \in Setup!Procs,
             \/ Setup!get_or_create_draft_setup(p)
             \/ Setup!save_plan(p)
             \/ Setup!apply_build_intent_to_setup(p)
      PROVE  SInv'
  BY <1>2, DraftInserted, SavePlanStep, IntentStep
<1>3. ASSUME NEW u \in Users, NEW form \in Setup!Forms, Setup!cloud_setup_post(u, form)
      PROVE  SInv'
  BY <1>3, PostStep
<1>4. ASSUME NEW u \in Users, Setup!cloud_setup_confirm_get(u)
      PROVE  SInv'
  <2>1. UNCHANGED <<setup, order, proc>>
    BY <1>4 DEF Setup!cloud_setup_confirm_get
  <2> QED  BY <2>1, SetupStutter
<1>5. ASSUME NEW u \in Users, NEW k \in Setup!Keys, Setup!_confirm_submit(u, k)
      PROVE  SInv'
  BY <1>5, SubmitStep
<1> QED  BY <1>1, <1>2, <1>3, <1>4, <1>5, SavePackageStep, SaveConfigureStep, SaveAddonsStep,
            FinishStep, CheckoutStep DEF Setup!Next

(* The invariant holds at the start.                                        *)
LEMMA SetupInit ==
    ASSUME Setup!Init
    PROVE  SInv
<1>1. \A i \in Setup!Setups : setup[i] = Setup!Absent
  BY DEF Setup!Init
<1>2. SubdomainsDistinct /\ OrderWithinPlan
  BY DEF Setup!Init, SubdomainsDistinct, Setup!SubdomainsDistinct, OrderWithinPlan,
         Setup!OrderWithinPlan, Setup!Absent
<1>3. Setup!Absent.sub = "none"
  BY DEF Setup!Absent, Setup!None
<1> QED  BY <1>1, <1>2, <1>3, IdleRow DEF Setup!Init, SInv

(* SInv holds of every state.                                               *)
LEMMA SetupInvariant == Spec => []SInv
<1>1. Init => SInv
  BY SetupInit DEF Init
<1>2. ASSUME SInv, [Next]_<<part, setupVars, accountsVars, demoVars>>
      PROVE  SInv'
  <2>1. CASE Setup!Next
    BY <1>2, <2>1, SetupNext
  <2>2. CASE UNCHANGED setupVars
    BY <1>2, <2>2, SetupStutter DEF setupVars
  <2> QED  BY <1>2, <2>1, <2>2 DEF Next
<1> QED  BY <1>1, <1>2, PTL DEF Spec

(* Two set-ups never ask for the same workspace address, for any number of  *)
(* customers, request threads and rows (subdomain_taken, save_configure).   *)
THEOREM AddressesAreDistinct == Spec => []SubdomainsDistinct
<1>1. SInv => SubdomainsDistinct
  BY DEF SInv
<1> QED  BY <1>1, SetupInvariant, PTL

(* An order never holds more users than its plan allows, whatever other     *)
(* tabs changed before the confirmation (review_snapshot, checkout_demo).   *)
THEOREM OrdersAreWithinPlan == Spec => []OrderWithinPlan
<1>1. SInv => OrderWithinPlan
  BY DEF SInv
<1> QED  BY <1>1, SetupInvariant, PTL

-------------------------------------------------------------------------------

(* The rows of users.                                                       *)
AUsers == [email : Emails, password : BOOLEAN, github : BOOLEAN,
           auth_provider : {"email", "google", "github", "both"}]

(* The first n ids hold a row each, and no row has both a password and a    *)
(* GitHub account.                                                          *)
Numbered(u, n) == u \in [1 .. n -> {r \in AUsers : ~(r.password /\ r.github)}]

(* What a browser's request remembers.                                      *)
AFlows == [pc : {"idle", "register", "lookup", "link", "create"},
           s : Subjects \cup {"none"}, e : Emails \cup {"none"}, u : Nat]

(* The inductive invariant of the accounts: an account that is to be linked *)
(* has a password, so no GitHub sign-in changes its e-mail before the link  *)
(* is written.                                                              *)
AInv ==
    /\ \E n \in Nat : Numbered(users, n)
    /\ \A s \in Subjects : identity[s] # 0 => identity[s] \in DOMAIN users
    /\ DOMAIN identity = Subjects /\ DOMAIN first = Subjects
    /\ flow \in [Browsers -> AFlows]
    /\ \A b \in Browsers :
           /\ flow[b].pc = "register" => flow[b].e \in Emails
           /\ flow[b].pc \in {"lookup", "link", "create"} => flow[b].e \in Emails /\ flow[b].s \in Subjects
           /\ flow[b].pc = "link" => flow[b].u \in DOMAIN users /\ users[flow[b].u].password
    /\ IdentityIsOwn

(* A new user gets the next id.                                             *)
LEMMA NewIdIsNext ==
    ASSUME NEW n \in Nat, DOMAIN users = 1 .. n
    PROVE  Accounts!NewId = n + 1
<1>1. Cardinality(1 .. n) = n
  BY FS_Interval
<1>2. Accounts!Cardinality(DOMAIN users) = Cardinality(DOMAIN users)
  BY DEF Accounts!Cardinality, Cardinality
<1> QED  BY <1>1, <1>2 DEF Accounts!NewId

(* What a request remembers after its steps.                                *)
LEMMA FlowRow ==
    ASSUME NEW b \in Browsers, AInv
    PROVE  /\ flow \in [Browsers -> AFlows] /\ flow[b] \in AFlows
           /\ [flow[b] EXCEPT !.pc = "create"] \in AFlows
           /\ \A u \in Nat : [flow[b] EXCEPT !.pc = "link", !.u = u] \in AFlows
           /\ Accounts!Idle \in AFlows /\ Accounts!Idle.pc = "idle"
BY DEF AInv, AFlows, Accounts!Idle, Accounts!None

(* A step that only moves a browser's request keeps AInv.                   *)
LEMMA FlowMoves ==
    ASSUME AInv, NEW b \in Browsers, UNCHANGED <<users, identity, first>>,
           NEW new \in AFlows, flow' = [flow EXCEPT ![b] = new],
           new.pc = "register" => new.e \in Emails,
           new.pc \in {"lookup", "link", "create"} => new.e \in Emails /\ new.s \in Subjects,
           new.pc = "link" => new.u \in DOMAIN users /\ users[new.u].password
    PROVE  AInv'
<1>1. flow' \in [Browsers -> AFlows] /\ flow'[b] = new /\ \A c \in Browsers \ {b} : flow'[c] = flow[c]
  BY DEF AInv
<1>2. IdentityIsOwn'
  BY DEF AInv, IdentityIsOwn, Accounts!IdentityIsOwn
<1>3. \A c \in Browsers :
         /\ flow'[c].pc = "register" => flow'[c].e \in Emails
         /\ flow'[c].pc \in {"lookup", "link", "create"}
                => flow'[c].e \in Emails /\ flow'[c].s \in Subjects
         /\ flow'[c].pc = "link" => flow'[c].u \in DOMAIN users /\ users[flow'[c].u].password
  BY <1>1 DEF AInv
<1> QED  BY <1>1, <1>2, <1>3 DEF AInv

(* So does one that ends it.                                                *)
LEMMA FlowEnds ==
    ASSUME AInv, NEW b \in Browsers, UNCHANGED <<users, identity, first>>,
           flow' = flow \/ flow' = [flow EXCEPT ![b] = Accounts!Idle]
    PROVE  AInv'
<1>1. CASE flow' = [flow EXCEPT ![b] = Accounts!Idle]
  BY <1>1, FlowRow, FlowMoves
<1>2. CASE flow' = flow
  BY <1>2 DEF AInv, IdentityIsOwn, Accounts!IdentityIsOwn
<1> QED  BY <1>1, <1>2

(* A change of a user's row keeps AInv when it leaves the password and, on  *)
(* an account that GitHub did not make, the e-mail.                         *)
LEMMA UserChanges ==
    ASSUME AInv, NEW b \in Browsers, UNCHANGED <<identity, first>>,
           NEW i \in DOMAIN users, NEW r \in AUsers, users' = [users EXCEPT ![i] = r],
           r.password = users[i].password, r.github = users[i].github,
           r.email = users[i].email \/ users[i].github,
           flow' = [flow EXCEPT ![b] = Accounts!Idle]
    PROVE  AInv'
<1>1. PICK n \in Nat : Numbered(users, n)
  BY DEF AInv
<1>2. /\ DOMAIN users' = DOMAIN users /\ users'[i] = r
      /\ \A j \in DOMAIN users \ {i} : users'[j] = users[j]
  BY <1>1 DEF Numbered
<1>3. ~(users[i].password /\ users[i].github)
  BY <1>1 DEF Numbered
<1>4. Numbered(users', n)
  BY <1>1, <1>3 DEF Numbered
<1>5. /\ flow' \in [Browsers -> AFlows] /\ flow'[b].pc = "idle"
      /\ \A c \in Browsers \ {b} : flow'[c] = flow[c]
  BY FlowRow
<1>6. \A j \in DOMAIN users : users'[j].password = users[j].password
  BY <1>2
<1>7. \A c \in Browsers :
         /\ flow'[c].pc = "register" => flow'[c].e \in Emails
         /\ flow'[c].pc \in {"lookup", "link", "create"}
                => flow'[c].e \in Emails /\ flow'[c].s \in Subjects
         /\ flow'[c].pc = "link" => flow'[c].u \in DOMAIN users' /\ users'[flow'[c].u].password
  <2> TAKE c \in Browsers
  <2>1. CASE c = b
    BY <1>5, <2>1
  <2>2. CASE c # b
    BY <1>2, <1>5, <1>6, <2>2 DEF AInv
  <2> QED  BY <2>1, <2>2
<1>8. IdentityIsOwn'
  <2> SUFFICES ASSUME NEW s \in Subjects, identity[s] # 0
               PROVE  /\ users'[identity[s]].email = first[s]
                      /\ users'[identity[s]].password \/ ~users'[identity[s]].github
    BY DEF IdentityIsOwn, Accounts!IdentityIsOwn
  <2>1. /\ identity[s] \in DOMAIN users /\ users[identity[s]].email = first[s]
        /\ users[identity[s]].password \/ ~users[identity[s]].github
    BY DEF AInv, IdentityIsOwn, Accounts!IdentityIsOwn
  <2> QED  BY <1>2, <1>3, <2>1
<1>9. \A s \in Subjects : identity'[s] # 0 => identity'[s] \in DOMAIN users'
  BY <1>2 DEF AInv
<1> QED  BY <1>4, <1>5, <1>7, <1>8, <1>9 DEF AInv

(* An insert keeps AInv, with the identity that comes with it.              *)
LEMMA UserInserted ==
    ASSUME AInv, NEW b \in Browsers, NEW r \in AUsers, ~(r.password /\ r.github),
           Accounts!Insert(r), flow' = [flow EXCEPT ![b] = Accounts!Idle],
           \/ UNCHANGED <<identity, first>>
           \/ \E s \in Subjects : /\ ~r.github
                                  /\ identity' = [identity EXCEPT ![s] = Accounts!NewId]
                                  /\ first' = [first EXCEPT ![s] = r.email]
    PROVE  AInv'
<1> DEFINE id == Accounts!NewId
<1>1. PICK n \in Nat : Numbered(users, n)
  BY DEF AInv
<1>2. id = n + 1 /\ DOMAIN users = 1 .. n
  BY <1>1, NewIdIsNext DEF Numbered
<1>3. users' = [i \in DOMAIN users \cup {id} |-> IF i = id THEN r ELSE users[i]]
  BY DEF Accounts!Insert
<1> HIDE DEF id
<1>4. /\ DOMAIN users' = DOMAIN users \cup {id} /\ users'[id] = r /\ id # 0
      /\ \A i \in DOMAIN users : users'[i] = users[i]
  BY <1>2, <1>3
<1>5. Numbered(users', n + 1)
  <2>1. DOMAIN users \cup {id} = 1 .. (n + 1)
    BY <1>2
  <2> QED  BY <1>1, <1>2, <1>3, <2>1 DEF Numbered
<1>6. /\ flow' \in [Browsers -> AFlows] /\ flow'[b].pc = "idle"
      /\ \A c \in Browsers \ {b} : flow'[c] = flow[c]
  BY FlowRow
<1>7. \A c \in Browsers :
         /\ flow'[c].pc = "register" => flow'[c].e \in Emails
         /\ flow'[c].pc \in {"lookup", "link", "create"}
                => flow'[c].e \in Emails /\ flow'[c].s \in Subjects
         /\ flow'[c].pc = "link" => flow'[c].u \in DOMAIN users' /\ users'[flow'[c].u].password
  <2> TAKE c \in Browsers
  <2>1. CASE c = b
    BY <1>6, <2>1
  <2>2. CASE c # b
    BY <1>4, <1>6, <2>2 DEF AInv
  <2> QED  BY <2>1, <2>2
<1>8. ASSUME UNCHANGED <<identity, first>>
      PROVE  AInv'
  <2>1. IdentityIsOwn'
    BY <1>4, <1>8 DEF AInv, IdentityIsOwn, Accounts!IdentityIsOwn
  <2>2. \A s \in Subjects : identity'[s] # 0 => identity'[s] \in DOMAIN users'
    BY <1>4, <1>8 DEF AInv
  <2> QED  BY <1>5, <1>6, <1>7, <1>8, <2>1, <2>2 DEF AInv
<1>9. ASSUME NEW s \in Subjects, ~r.github,
             identity' = [identity EXCEPT ![s] = id], first' = [first EXCEPT ![s] = r.email]
      PROVE  AInv'
  <2>1. /\ DOMAIN identity' = Subjects /\ DOMAIN first' = Subjects
        /\ identity'[s] = id /\ first'[s] = r.email
        /\ \A t \in Subjects \ {s} : identity'[t] = identity[t] /\ first'[t] = first[t]
    BY <1>9 DEF AInv
  <2>2. IdentityIsOwn'
    BY <1>4, <1>9, <2>1 DEF AInv, IdentityIsOwn, Accounts!IdentityIsOwn
  <2>3. \A t \in Subjects : identity'[t] # 0 => identity'[t] \in DOMAIN users'
    BY <1>4, <2>1 DEF AInv
  <2> QED  BY <1>5, <1>6, <1>7, <2>1, <2>2, <2>3 DEF AInv
<1> QED  BY <1>8, <1>9 DEF id

(* The account found by an e-mail has that e-mail: the smallest of a set of *)
(* ids is one of them.                                                      *)
LEMMA FirstByEmail ==
    ASSUME AInv, NEW e, Accounts!ByEmail(e) # 0
    PROVE  /\ Accounts!ByEmail(e) \in DOMAIN users
           /\ users[Accounts!ByEmail(e)].email = e
           /\ Accounts!ByEmail(e) \in Nat
<1> DEFINE O == Accounts!Owners(e)
<1>1. PICK n \in Nat : Numbered(users, n)
  BY DEF AInv
<1>2. O \subseteq Nat /\ O # {}
  BY <1>1 DEF Numbered, Accounts!Owners, Accounts!ByEmail
<1>3. PICK i \in O : \A j \in O : ~ (<<j, i>> \in OpToRel(<, Nat))
  BY <1>2, NatLessThanWellFounded, WFMin
<1>4. \A j \in O : i <= j
  <2> TAKE j \in O
  <2>1. i \in Nat /\ j \in Nat /\ ~(j < i)
    BY <1>2, <1>3 DEF OpToRel
  <2> QED  BY <2>1
<1> HIDE DEF O
<1>5. Accounts!ByEmail(e) \in O
  BY <1>2, <1>4 DEF Accounts!ByEmail, O
<1> QED  BY <1>2, <1>5 DEF O, Accounts!Owners

(* The steps that change no row: a registration is checked, a browser signs *)
(* out or goes to Google and back.                                          *)
LEMMA RegisterSteps ==
    ASSUME AInv, NEW b \in Browsers,
           \/ Accounts!WindowOver(b)
           \/ \E e \in Emails : Accounts!register_cloud_customer(b, e)
           \/ Accounts!logout_user(b) \/ Accounts!cloud_google_auth_start(b)
           \/ Accounts!cloud_google_auth_callback(b)
    PROVE  AInv'
<1>1. UNCHANGED <<users, identity, first>>
  BY DEF Accounts!WindowOver, Accounts!register_cloud_customer, Accounts!logout_user,
         Accounts!cloud_google_auth_start, Accounts!cloud_google_auth_callback
<1>2. \/ flow' = flow
      \/ \E e \in Emails :
            flow' = [flow EXCEPT ![b] = [Accounts!Idle EXCEPT !.pc = "register", !.e = e]]
      \/ \E s \in Subjects, m \in Emails :
            flow' = [flow EXCEPT ![b] = [Accounts!Idle EXCEPT !.pc = "lookup", !.s = s, !.e = m]]
  BY DEF Accounts!WindowOver, Accounts!register_cloud_customer, Accounts!logout_user,
         Accounts!cloud_google_auth_start, Accounts!cloud_google_auth_callback
<1>3. CASE flow' = flow
  BY <1>1, <1>3, FlowEnds
<1>4. ASSUME NEW e \in Emails,
             flow' = [flow EXCEPT ![b] = [Accounts!Idle EXCEPT !.pc = "register", !.e = e]]
      PROVE  AInv'
  <2> DEFINE new == [Accounts!Idle EXCEPT !.pc = "register", !.e = e]
  <2>1. new \in AFlows /\ new.pc = "register" /\ new.e = e
    BY DEF AFlows, Accounts!Idle, Accounts!None
  <2>2. flow' = [flow EXCEPT ![b] = new]
    BY <1>4
  <2> HIDE DEF new
  <2> QED  BY <1>1, <2>1, <2>2, FlowMoves
<1>5. ASSUME NEW s \in Subjects, NEW m \in Emails,
             flow' = [flow EXCEPT ![b] = [Accounts!Idle EXCEPT !.pc = "lookup", !.s = s, !.e = m]]
      PROVE  AInv'
  <2> DEFINE new == [Accounts!Idle EXCEPT !.pc = "lookup", !.s = s, !.e = m]
  <2>1. new \in AFlows /\ new.pc = "lookup" /\ new.e = m /\ new.s = s
    BY DEF AFlows, Accounts!Idle, Accounts!None
  <2>2. flow' = [flow EXCEPT ![b] = new]
    BY <1>5
  <2> HIDE DEF new
  <2> QED  BY <1>1, <2>1, <2>2, FlowMoves
<1> QED  BY <1>2, <1>3, <1>4, <1>5

(* register_cloud_customer inserts an account with a password.              *)
LEMMA InsertCustomerStep ==
    ASSUME AInv, NEW b \in Browsers, Accounts!InsertCustomer(b)
    PROVE  AInv'
<1> DEFINE r == [email |-> flow[b].e, password |-> TRUE, github |-> FALSE, auth_provider |-> "email"]
<1>1. /\ flow[b].pc = "register" /\ Accounts!Insert(r)
      /\ flow' = [flow EXCEPT ![b] = Accounts!Idle] /\ UNCHANGED <<identity, first>>
  BY DEF Accounts!InsertCustomer, Accounts!login_user
<1>2. r \in AUsers /\ ~(r.password /\ r.github)
  BY <1>1 DEF AInv, AUsers
<1> HIDE DEF r
<1> QED  BY <1>1, <1>2, UserInserted

(* A sign-in with a password may turn a GitHub account into one of both     *)
(* kinds.                                                                   *)
LEMMA LoginStep ==
    ASSUME AInv, NEW b \in Browsers, NEW e \in Emails, Accounts!cloud_login_post(b, e)
    PROVE  AInv'
<1> DEFINE i == Accounts!ByEmail(e)
           r == [users[i] EXCEPT !.auth_provider = IF @ = "github" THEN "both" ELSE @]
<1>1. /\ i # 0 /\ users' = [users EXCEPT ![i].auth_provider = IF @ = "github" THEN "both" ELSE @]
      /\ flow' = [flow EXCEPT ![b] = Accounts!Idle] /\ UNCHANGED <<identity, first>>
  BY DEF Accounts!cloud_login_post, Accounts!authenticate_cloud_customer, Accounts!login_user
<1>2. i \in DOMAIN users
  BY <1>1, FirstByEmail
<1>3. users[i] \in AUsers
  BY <1>2 DEF AInv, Numbered
<1>4. users' = [users EXCEPT ![i] = r]
  BY <1>1
<1> HIDE DEF i
<1>5. r \in AUsers
  BY <1>3 DEF AUsers
<1>6. r.password = users[i].password /\ r.github = users[i].github /\ r.email = users[i].email
  BY <1>3 DEF AUsers
<1> HIDE DEF r
<1> QED  BY <1>1, <1>2, <1>4, <1>5, <1>6, UserChanges

(* authenticate_google_customer looks the identity up, then the e-mail.     *)
LEMMA LookupStep ==
    ASSUME AInv, NEW b \in Browsers, Accounts!authenticate_google_customer(b)
    PROVE  AInv'
<1> DEFINE i == Accounts!ByEmail(flow[b].e)
<1>1. /\ flow[b].pc = "lookup" /\ UNCHANGED <<users, identity, first>>
      /\ \/ flow' = [flow EXCEPT ![b] = Accounts!Idle]
         \/ flow' = [flow EXCEPT ![b].pc = "create"]
         \/ /\ i # 0 /\ users[i].password
            /\ flow' = [flow EXCEPT ![b].pc = "link", ![b].u = i]
  BY DEF Accounts!authenticate_google_customer, Accounts!login_user, Accounts!Refuse,
         Accounts!MayLink
<1>2. flow[b].e \in Emails /\ flow[b].s \in Subjects /\ flow \in [Browsers -> AFlows]
  BY <1>1 DEF AInv
<1>3. CASE flow' = [flow EXCEPT ![b] = Accounts!Idle]
  BY <1>1, <1>3, FlowEnds
<1>4. CASE flow' = [flow EXCEPT ![b].pc = "create"]
  <2> DEFINE new == [flow[b] EXCEPT !.pc = "create"]
  <2>1. new \in AFlows /\ new.pc = "create" /\ new.e = flow[b].e /\ new.s = flow[b].s
    BY FlowRow DEF AFlows
  <2>2. flow' = [flow EXCEPT ![b] = new]
    BY <1>2, <1>4
  <2> HIDE DEF new
  <2> QED  BY <1>1, <1>2, <2>1, <2>2, FlowMoves
<1>5. CASE /\ i # 0 /\ users[i].password
           /\ flow' = [flow EXCEPT ![b].pc = "link", ![b].u = i]
  <2> DEFINE new == [flow[b] EXCEPT !.pc = "link", !.u = i]
  <2>1. i \in DOMAIN users /\ i \in Nat
    BY <1>5, FirstByEmail
  <2>2. flow' = [flow EXCEPT ![b] = new]
    BY <1>2, <1>5
  <2>3. users[i].password
    BY <1>5
  <2> HIDE DEF i
  <2>4. new \in AFlows /\ new.pc = "link" /\ new.e = flow[b].e /\ new.s = flow[b].s /\ new.u = i
    BY <2>1, FlowRow DEF AFlows
  <2> HIDE DEF new
  <2> QED  BY <1>1, <1>2, <2>1, <2>2, <2>3, <2>4, FlowMoves
<1> QED  BY <1>1, <1>3, <1>4, <1>5

(* link_provider_identity: the account still has the e-mail Google          *)
(* verified.                                                                *)
LEMMA LinkStep ==
    ASSUME AInv, NEW b \in Browsers, Accounts!link_provider_identity(b)
    PROVE  AInv'
<1> DEFINE s == flow[b].s
           u == flow[b].u
<1>1. /\ flow[b].pc = "link" /\ users' = users /\ flow' = [flow EXCEPT ![b] = Accounts!Idle]
      /\ \/ UNCHANGED <<identity, first>>
         \/ /\ Accounts!ByEmail(flow[b].e) = u
            /\ identity' = [identity EXCEPT ![s] = u]
            /\ first' = [first EXCEPT ![s] = flow[b].e]
  BY DEF Accounts!link_provider_identity, Accounts!login_user, Accounts!Refuse
<1>2. s \in Subjects /\ u \in DOMAIN users /\ users[u].password
  BY <1>1 DEF AInv
<1>3. CASE UNCHANGED <<identity, first>>
  BY <1>1, <1>3, FlowEnds
<1>4. CASE /\ Accounts!ByEmail(flow[b].e) = u
           /\ identity' = [identity EXCEPT ![s] = u] /\ first' = [first EXCEPT ![s] = flow[b].e]
  <2>1. u # 0
    BY <1>2 DEF AInv, Numbered
  <2>2. users[u].email = flow[b].e
    BY <1>4, <2>1, FirstByEmail
  <2>3. /\ DOMAIN identity' = Subjects /\ DOMAIN first' = Subjects
        /\ identity'[s] = u /\ first'[s] = flow[b].e
        /\ \A t \in Subjects \ {s} : identity'[t] = identity[t] /\ first'[t] = first[t]
    BY <1>2, <1>4 DEF AInv
  <2>4. IdentityIsOwn'
    BY <1>1, <1>2, <2>2, <2>3 DEF AInv, IdentityIsOwn, Accounts!IdentityIsOwn
  <2>5. \A t \in Subjects : identity'[t] # 0 => identity'[t] \in DOMAIN users
    BY <1>2, <2>3 DEF AInv
  <2>6. /\ flow' \in [Browsers -> AFlows] /\ flow'[b].pc = "idle"
        /\ \A c \in Browsers \ {b} : flow'[c] = flow[c]
    BY <1>1, FlowRow
  <2>7. \A c \in Browsers :
           /\ flow'[c].pc = "register" => flow'[c].e \in Emails
           /\ flow'[c].pc \in {"lookup", "link", "create"}
                  => flow'[c].e \in Emails /\ flow'[c].s \in Subjects
           /\ flow'[c].pc = "link" => flow'[c].u \in DOMAIN users /\ users[flow'[c].u].password
    <3> TAKE c \in Browsers
    <3>1. CASE c = b
      BY <2>6, <3>1
    <3>2. CASE c # b
      BY <2>6, <3>2 DEF AInv
    <3> QED  BY <3>1, <3>2
  <2> QED  BY <1>1, <2>3, <2>4, <2>5, <2>6, <2>7 DEF AInv
<1> QED  BY <1>1, <1>3, <1>4

(* A Google customer without an account gets one, and its identity, in one  *)
(* commit.                                                                  *)
LEMMA CreateStep ==
    ASSUME AInv, NEW b \in Browsers, Accounts!CreateGoogleCustomer(b)
    PROVE  AInv'
<1> DEFINE s == flow[b].s
           r == [email |-> flow[b].e, password |-> FALSE, github |-> FALSE,
                 auth_provider |-> "google"]
<1>1. /\ flow[b].pc = "create" /\ flow' = [flow EXCEPT ![b] = Accounts!Idle]
      /\ \/ UNCHANGED <<users, identity, first>>
         \/ /\ Accounts!Insert(r) /\ identity' = [identity EXCEPT ![s] = Accounts!NewId]
            /\ first' = [first EXCEPT ![s] = flow[b].e]
  BY DEF Accounts!CreateGoogleCustomer, Accounts!login_user
<1>2. r \in AUsers /\ ~r.github /\ r.email = flow[b].e /\ s \in Subjects
  BY <1>1 DEF AInv, AUsers
<1> HIDE DEF r, s
<1>3. CASE UNCHANGED <<users, identity, first>>
  BY <1>1, <1>3, FlowEnds
<1>4. CASE /\ Accounts!Insert(r) /\ identity' = [identity EXCEPT ![s] = Accounts!NewId]
           /\ first' = [first EXCEPT ![s] = flow[b].e]
  <2>1. first' = [first EXCEPT ![s] = r.email]
    BY <1>2, <1>4
  <2> QED  BY <1>1, <1>2, <1>4, <2>1, UserInserted
<1> QED  BY <1>1, <1>3, <1>4

(* A GitHub sign-in inserts an account or changes the e-mail of one that    *)
(* GitHub made.                                                             *)
LEMMA GithubStep ==
    ASSUME AInv, NEW b \in Browsers, NEW e \in Emails, Accounts!github_oauth_callback(b, e)
    PROVE  AInv'
<1> DEFINE r == [email |-> e, password |-> FALSE, github |-> TRUE, auth_provider |-> "github"]
<1>1. /\ flow' = [flow EXCEPT ![b] = Accounts!Idle] /\ UNCHANGED <<identity, first>>
      /\ \/ Accounts!Insert(r)
         \/ \E i \in DOMAIN users : users[i].github /\ users' = [users EXCEPT ![i].email = e]
  BY DEF Accounts!github_oauth_callback, Accounts!upsert_github_user, Accounts!login_user
<1>2. r \in AUsers /\ ~r.password
  BY DEF AUsers
<1> HIDE DEF r
<1>3. CASE Accounts!Insert(r)
  BY <1>1, <1>2, <1>3, UserInserted
<1>4. ASSUME NEW i \in DOMAIN users, users[i].github, users' = [users EXCEPT ![i].email = e]
      PROVE  AInv'
  <2> DEFINE n == [users[i] EXCEPT !.email = e]
  <2>1. users[i] \in AUsers
    BY DEF AInv, Numbered
  <2>2. n \in AUsers /\ n.password = users[i].password /\ n.github = users[i].github
    BY <2>1 DEF AUsers
  <2>3. users' = [users EXCEPT ![i] = n]
    BY <1>4
  <2> HIDE DEF n
  <2> QED  BY <1>1, <1>4, <2>2, <2>3, UserChanges
<1> QED  BY <1>1, <1>3, <1>4

(* Every step of the accounts part keeps the invariant.                     *)
LEMMA AccountsNext ==
    ASSUME AInv, Accounts!Next
    PROVE  AInv'
<1>1. ASSUME NEW b \in Browsers,
             \/ Accounts!WindowOver(b)
             \/ \E e \in Emails : Accounts!register_cloud_customer(b, e)
             \/ Accounts!logout_user(b)
             \/ Accounts!cloud_google_auth_start(b)
             \/ Accounts!cloud_google_auth_callback(b)
      PROVE  AInv'
  BY <1>1, RegisterSteps
<1>2. ASSUME NEW b \in Browsers, Accounts!InsertCustomer(b)
      PROVE  AInv'
  BY <1>2, InsertCustomerStep
<1>3. ASSUME NEW b \in Browsers, NEW e \in Emails, Accounts!cloud_login_post(b, e)
      PROVE  AInv'
  BY <1>3, LoginStep
<1>4. ASSUME NEW b \in Browsers, Accounts!authenticate_google_customer(b)
      PROVE  AInv'
  BY <1>4, LookupStep
<1>5. ASSUME NEW b \in Browsers, Accounts!link_provider_identity(b)
      PROVE  AInv'
  BY <1>5, LinkStep
<1>6. ASSUME NEW b \in Browsers, Accounts!CreateGoogleCustomer(b)
      PROVE  AInv'
  BY <1>6, CreateStep
<1>7. ASSUME NEW b \in Browsers, NEW e \in Emails, Accounts!github_oauth_callback(b, e)
      PROVE  AInv'
  BY <1>7, GithubStep
<1> QED  BY <1>1, <1>2, <1>3, <1>4, <1>5, <1>6, <1>7 DEF Accounts!Next

(* The invariant depends on the accounts part's variables only.             *)
LEMMA AccountsStutter ==
    ASSUME AInv, UNCHANGED accountsVars
    PROVE  AInv'
BY DEF AInv, IdentityIsOwn, Accounts!IdentityIsOwn, accountsVars

(* The invariant holds at the start.                                        *)
LEMMA AccountsInit ==
    ASSUME Accounts!Init
    PROVE  AInv
<1>1. Numbered(users, 0)
  BY DEF Accounts!Init, Numbered
<1>2. flow \in [Browsers -> AFlows] /\ \A b \in Browsers : flow[b].pc = "idle"
  BY DEF Accounts!Init, AFlows, Accounts!Idle, Accounts!None
<1> QED  BY <1>1, <1>2 DEF AInv, Accounts!Init, IdentityIsOwn, Accounts!IdentityIsOwn

(* A Google account opens only an account of the e-mail Google verified,    *)
(* for any number of users, browsers and sign-ins                           *)
(* (authenticate_google_customer, link_provider_identity).                  *)
THEOREM IdentitiesAreOwn == Spec => []IdentityIsOwn
<1>1. Init => AInv
  BY AccountsInit DEF Init
<1>2. ASSUME AInv, [Next]_<<part, setupVars, accountsVars, demoVars>>
      PROVE  AInv'
  BY <1>2, AccountsNext, AccountsStutter DEF Next
<1>3. AInv => IdentityIsOwn
  BY DEF AInv
<1> QED  BY <1>1, <1>2, <1>3, PTL DEF Spec

-------------------------------------------------------------------------------

(* The rows of demo_sessions.                                               *)
DRows == [state : {"none", "provisioning", "active", "expired", "cleaning", "deleted", "failed"},
          at : Nat, owner : Browsers \cup {"none"}, slot : Demo!Slots \cup {0},
          claimed_by : Workers \cup {"none"}, token : Nat, leased : BOOLEAN]

(* What a worker remembers of the session it claimed.                       *)
DWorkers == [step : {"idle", "run", "advance", "raised", "renew", "fail", "clear"},
             s : Demo!Sessions \cup {0}, at : Nat, token : Nat]

(* The requests that choose a slot.                                         *)
DReqs == [Browsers -> [step : {"idle", "insert"}, occupied : SUBSET (Demo!Slots)]]

(* Every variable holds a value of its type.                                *)
DTypes ==
    /\ row \in [Demo!Sessions -> DRows]
    /\ worker \in [Workers -> DWorkers]
    /\ req \in DReqs
    /\ reader \in Demo!Sessions \cup {0} /\ tokens \in Nat

(* A claim's token was handed out once.                                     *)
DTokens ==
    /\ \A w \in Workers : worker[w].step # "idle" =>
           worker[w].s \in Demo!Sessions /\ worker[w].token \in 1 .. tokens
    /\ \A v, w \in Workers :
           worker[v].step # "idle" /\ worker[w].step # "idle" /\ worker[v].token = worker[w].token
               => v = w

(* The state of a row that is about to be written without a test: nothing   *)
(* moved it since it was read.                                              *)
DWrites ==
    /\ reader # 0 => row[reader].state = "active"
    /\ \A w \in Workers : worker[w].step = "fail" =>
           row[worker[w].s].state = "provisioning" /\ row[worker[w].s].token = worker[w].token
    /\ \A w \in Workers : worker[w].step = "clear" =>
           row[worker[w].s].state \notin {"none", "provisioning"}

(* The inductive invariant of Quick Demo.                                   *)
DInv == DTypes /\ DTokens /\ DWrites

(* The step changes nothing that DemoSession speaks of.                     *)
Still ==
    \A s \in Demo!Sessions : row'[s].state = row[s].state /\ row'[s].slot = row[s].slot

(* Such a step is a stutter of DemoSession.                                 *)
LEMMA PromiseStutters ==
    ASSUME Still
    PROVE  UNCHANGED Demo!Promise!vars
<1>1. /\ [s \in Demo!Sessions |-> row'[s].state] = [s \in Demo!Sessions |-> row[s].state]
      /\ [s \in Demo!Sessions |-> row'[s].slot] = [s \in Demo!Sessions |-> row[s].slot]
  BY DEF Still
<1> QED  BY <1>1 DEF Demo!Promise!vars

(* A change of one session's state is a step of DemoSession when its order  *)
(* of states has it.                                                        *)
LEMMA PromiseAdvances ==
    ASSUME NEW s \in Demo!Sessions, Demo!Promise!Leads(row[s].state, row'[s].state),
           row'[s].slot = row[s].slot,
           \A t \in Demo!Sessions \ {s} : row'[t] = row[t]
    PROVE  Demo!Promise!Next
<1>1. PICK to \in Demo!Promise!Stages : to = row'[s].state
  BY DEF Demo!Promise!Leads, Demo!Promise!Stages
<1>2. Demo!Promise!Advance(s, to)
  <2> DEFINE stage == [t \in Demo!Sessions |-> row[t].state]
             slot == [t \in Demo!Sessions |-> row[t].slot]
  <2>1. stage[s] = row[s].state
    OBVIOUS
  <2>2. stage' = [stage EXCEPT ![s] = to]
    BY <1>1
  <2>3. slot' = slot
    OBVIOUS
  <2> HIDE DEF slot
  <2> QED  BY <1>1, <2>1, <2>2, <2>3 DEF Demo!Promise!Advance, slot
<1> QED  BY <1>2 DEF Demo!Promise!Next

(* A new session in a slot that no session holds is one, too.               *)
LEMMA PromiseOpens ==
    ASSUME NEW s \in Demo!Sessions, NEW k \in Demo!Slots, row[s].state = "none",
           \A t \in Demo!Sessions : row[t].slot # k,
           row'[s].state = "provisioning", row'[s].slot = k,
           \A t \in Demo!Sessions \ {s} : row'[t] = row[t]
    PROVE  Demo!Promise!Next
<1>1. Demo!Promise!Open(s, k)
  <2> DEFINE stage == [t \in Demo!Sessions |-> row[t].state]
             slot == [t \in Demo!Sessions |-> row[t].slot]
  <2>1. stage[s] = "none"
    OBVIOUS
  <2>2. \A t \in Demo!Sessions : slot[t] # k
    OBVIOUS
  <2>3. stage' = [stage EXCEPT ![s] = "provisioning"]
    OBVIOUS
  <2>4. slot' = [slot EXCEPT ![s] = k]
    OBVIOUS
  <2> QED  BY <2>1, <2>2, <2>3, <2>4 DEF Demo!Promise!Open
<1> QED  BY <1>1 DEF Demo!Promise!Next

(* So is a cleaned session that gives its slot up.                          *)
LEMMA PromiseDeletes ==
    ASSUME NEW s \in Demo!Sessions, row[s].state = "cleaning",
           row'[s].state = "deleted", row'[s].slot = 0,
           \A t \in Demo!Sessions \ {s} : row'[t] = row[t]
    PROVE  Demo!Promise!Next
<1>1. Demo!Promise!Delete(s)
  <2> DEFINE stage == [t \in Demo!Sessions |-> row[t].state]
             slot == [t \in Demo!Sessions |-> row[t].slot]
  <2>1. stage[s] = "cleaning"
    OBVIOUS
  <2>2. stage' = [stage EXCEPT ![s] = "deleted"]
    OBVIOUS
  <2>3. slot' = [slot EXCEPT ![s] = 0]
    OBVIOUS
  <2> QED  BY <2>1, <2>2, <2>3 DEF Demo!Promise!Delete
<1> QED  BY <1>1 DEF Demo!Promise!Next

(* The order of the states, spelt out.                                      *)
LEMMA RowStates ==
    ASSUME NEW r \in DRows
    PROVE  /\ \A st \in {"active", "expired", "cleaning", "failed"} :
                  LET new == [r EXCEPT !.state = st]
                  IN  new \in DRows /\ new.state = st /\ new.slot = r.slot
           /\ LET new == [r EXCEPT !.state = "deleted", !.slot = 0]
              IN  new \in DRows /\ new.state = "deleted" /\ new.slot = 0
           /\ LET new == [r EXCEPT !.leased = FALSE]
              IN  /\ new \in DRows /\ new.state = r.state /\ new.slot = r.slot
                  /\ new.token = r.token
BY DEF DRows

(* A step that only moves a worker keeps the invariant and is a stutter.    *)
LEMMA WorkerOnly ==
    ASSUME DInv, NEW w \in Workers, NEW new \in DWorkers,
           worker' = [worker EXCEPT ![w] = new],
           UNCHANGED <<row, req, reader, tokens>>,
           new.step # "idle" => /\ worker[w].step # "idle"
                                /\ new.s = worker[w].s /\ new.token = worker[w].token,
           new.step = "fail" => /\ row[new.s].state = "provisioning"
                                /\ row[new.s].token = new.token,
           new.step # "clear"
    PROVE  DInv' /\ Still
<1>1. worker'[w] = new /\ \A v \in Workers \ {w} : worker'[v] = worker[v]
  BY DEF DInv, DTypes
<1>2. DTypes'
  BY DEF DInv, DTypes
<1>3. DTokens'
  BY <1>1 DEF DInv, DTokens
<1>4. DWrites'
  BY <1>1 DEF DInv, DWrites
<1> QED  BY <1>2, <1>3, <1>4 DEF DInv, Still

(* A step that changes one row keeps the invariant when no worker is about  *)
(* to write it.                                                             *)
LEMMA RowOnly ==
    ASSUME DInv, NEW s \in Demo!Sessions, NEW r \in DRows,
           row' = [row EXCEPT ![s] = r], UNCHANGED <<worker, tokens>>,
           req' \in DReqs,
           reader' \in {0, reader}, reader' = s => r.state = "active",
           \A w \in Workers : worker[w].step = "fail" /\ worker[w].s = s
               => r.state = "provisioning" /\ r.token = row[s].token,
           row[s].state \in {"none", "provisioning"} \/ r.state \notin {"none", "provisioning"}
    PROVE  DInv'
<1>1. row'[s] = r /\ \A t \in Demo!Sessions \ {s} : row'[t] = row[t]
  BY DEF DInv, DTypes
<1>2. DTypes'
  BY DEF DInv, DTypes
<1>3. DTokens'
  BY DEF DInv, DTokens
<1>4. DWrites'
  <2>1. reader' # 0 => row'[reader'].state = "active"
    BY <1>1 DEF DInv, DWrites, DTypes
  <2>2. \A w \in Workers : worker[w].step = "fail" =>
           row'[worker[w].s].state = "provisioning" /\ row'[worker[w].s].token = worker[w].token
    BY <1>1 DEF DInv, DWrites, DTokens
  <2>3. \A w \in Workers : worker[w].step = "clear" =>
           row'[worker[w].s].state \notin {"none", "provisioning"}
    BY <1>1 DEF DInv, DWrites, DTokens
  <2> QED  BY <2>1, <2>2, <2>3 DEF DWrites
<1> QED  BY <1>2, <1>3, <1>4 DEF DInv

(* A worker's step that writes its session's row.                           *)
LEMMA WorkerWrites ==
    ASSUME DInv, NEW w \in Workers, NEW s \in Demo!Sessions, NEW r \in DRows, NEW new \in DWorkers,
           row' = [row EXCEPT ![s] = r], worker' = [worker EXCEPT ![w] = new],
           UNCHANGED <<req, reader>>, tokens' \in Nat, tokens <= tokens',
           new.step # "idle" =>
               /\ new.s = s /\ new.token \in 1 .. tokens'
               /\ \/ new.token = worker[w].token /\ worker[w].step # "idle"
                  \/ new.token > tokens,
           new.step # "fail",
           new.step = "clear" => r.state \notin {"none", "provisioning"},
           reader = s => r.state = "active",
           \A v \in Workers : v # w /\ worker[v].step = "fail" => worker[v].s # s,
           row[s].state \in {"none", "provisioning"} \/ r.state \notin {"none", "provisioning"}
    PROVE  DInv'
<1>1. /\ row'[s] = r /\ \A t \in Demo!Sessions \ {s} : row'[t] = row[t]
      /\ worker'[w] = new /\ \A v \in Workers \ {w} : worker'[v] = worker[v]
  BY DEF DInv, DTypes
<1>2. DTypes'
  BY DEF DInv, DTypes
<1>3. DTokens'
  <2>1. \A v \in Workers : worker'[v].step # "idle" =>
           worker'[v].s \in Demo!Sessions /\ worker'[v].token \in 1 .. tokens'
    BY <1>1 DEF DInv, DTokens, DTypes
  <2>2. ASSUME NEW u \in Workers, NEW v \in Workers, worker'[u].step # "idle",
               worker'[v].step # "idle", worker'[u].token = worker'[v].token
        PROVE  u = v
    <3>1. \A x \in Workers \ {w} : worker[x].step # "idle" =>
             worker[x].token \in 1 .. tokens
      BY DEF DInv, DTokens
    <3>2. \A x \in Workers \ {w} : worker[x].step # "idle" /\ new.step # "idle"
             => worker[x].token # new.token
      BY <3>1 DEF DInv, DTokens, DTypes
    <3> QED  BY <1>1, <2>2, <3>2 DEF DInv, DTokens
  <2> QED  BY <2>1, <2>2 DEF DTokens
<1>4. DWrites'
  <2>1. reader' # 0 => row'[reader'].state = "active"
    BY <1>1 DEF DInv, DWrites, DTypes
  <2>2. ASSUME NEW v \in Workers, worker'[v].step = "fail"
        PROVE  row'[worker'[v].s].state = "provisioning" /\ row'[worker'[v].s].token = worker'[v].token
    <3>1. v # w /\ worker'[v] = worker[v] /\ worker[v].s \in Demo!Sessions \ {s}
      BY <1>1, <2>2 DEF DInv, DTokens
    <3> QED  BY <1>1, <2>2, <3>1 DEF DInv, DWrites
  <2>3. ASSUME NEW v \in Workers, worker'[v].step = "clear"
        PROVE  row'[worker'[v].s].state \notin {"none", "provisioning"}
    BY <1>1, <2>3 DEF DInv, DWrites, DTokens
  <2> QED  BY <2>1, <2>2, <2>3 DEF DWrites
<1> QED  BY <1>2, <1>3, <1>4 DEF DInv

(* The smallest of a set of ids is one of them.                             *)
LEMMA SmallestInSet ==
    ASSUME NEW S, S \subseteq Nat, S # {}
    PROVE  Demo!Smallest(S) \in S
<1>1. PICK x \in S : \A y \in S : ~ (<<y, x>> \in OpToRel(<, Nat))
  BY NatLessThanWellFounded, WFMin
<1>2. \A y \in S : x <= y
  <2> TAKE y \in S
  <2>1. x \in Nat /\ y \in Nat /\ ~(y < x)
    BY <1>1 DEF OpToRel
  <2> QED  BY <2>1
<1> QED  BY <1>2 DEF Demo!Smallest

(* A step that leaves rows and workers alone.                               *)
LEMMA DemoQuietStep ==
    ASSUME DInv, UNCHANGED <<row, worker, tokens>>,
           req' \in DReqs,
           reader' = reader \/ (reader' \in Demo!Sessions /\ row[reader'].state = "active")
    PROVE  DInv' /\ Still
BY DEF DInv, DTypes, DTokens, DWrites, Still

(* A session's insert: the unique slot keeps two off one slot.              *)
LEMMA InsertStep ==
    ASSUME DInv, NEW s \in Demo!Free, NEW k \in Demo!Slots,
           NEW new \in DRows, new.state = "provisioning", new.slot = k,
           \A t \in Demo!Sessions : row[t].slot # k,
           row' = [row EXCEPT ![s] = new],
           req' \in DReqs,
           UNCHANGED <<worker, reader, tokens>>
    PROVE  DInv' /\ Demo!Promise!Next
<1>1. s \in Demo!Sessions /\ row[s].state = "none" /\ s # 0
  BY DEF Demo!Free, Demo!Sessions
<1>4. row \in [Demo!Sessions -> DRows] /\ reader \in Demo!Sessions \cup {0}
  BY DEF DInv, DTypes
<1>5. reader' \in {0, reader} /\ reader' # s
  BY <1>1 DEF DInv, DWrites
<1>6. \A w \in Workers : ~(worker[w].step = "fail" /\ worker[w].s = s)
  BY <1>1 DEF DInv, DWrites
<1>7. DInv'
  <2>1. UNCHANGED <<worker, tokens>>
    OBVIOUS
  <2>2. reader' = s => new.state = "active"
    BY <1>5
  <2>3. \A w \in Workers : worker[w].step = "fail" /\ worker[w].s = s
            => new.state = "provisioning" /\ new.token = row[s].token
    BY <1>6, Zenon
  <2>4. row[s].state \in {"none", "provisioning"} \/ new.state \notin {"none", "provisioning"}
    BY <1>1
  <2> QED  BY <1>1, <1>5, <2>1, <2>2, <2>3, <2>4, RowOnly
<1>8. row'[s] = new /\ \A t \in Demo!Sessions \ {s} : row'[t] = row[t]
  BY <1>1, <1>4
<1>9. row'[s].state = "provisioning" /\ row'[s].slot = k
  BY <1>8
<1> QED  BY <1>1, <1>7, <1>8, <1>9, PromiseOpens

(* create_session, and the visitor's requests for clean-up.                 *)
LEMMA DemoRequestStep ==
    ASSUME DInv, NEW b \in Browsers, Demo!ReadSlots(b) \/ Demo!create_session(b)
    PROVE  DInv' /\ (Demo!Promise!Next \/ Still)
<1> DEFINE Reqs == [step : {"idle", "insert"}, occupied : SUBSET (Demo!Slots)]
<1>0. req \in DReqs /\ req \in [Browsers -> Reqs] /\ row \in [Demo!Sessions -> DRows]
  BY DEF DInv, DTypes, DReqs
<1>1. CASE Demo!ReadSlots(b)
  <2> DEFINE seen == {row[s].slot : s \in {s \in Demo!Sessions : row[s].slot # 0}}
             new == [step |-> "insert", occupied |-> seen]
  <2>1. /\ req' = [req EXCEPT ![b] = new] /\ UNCHANGED <<row, worker, reader, tokens>>
    BY <1>1 DEF Demo!ReadSlots
  <2>2. seen \subseteq Demo!Slots
    BY <1>0 DEF DRows
  <2> HIDE DEF seen
  <2>3. new \in Reqs
    BY <2>2
  <2> HIDE DEF new
  <2>4. req' \in DReqs
    BY <1>0, <2>1, <2>3 DEF DReqs
  <2> QED  BY <2>1, <2>4, DemoQuietStep
<1>2. CASE Demo!create_session(b)
  <2> DEFINE left == Demo!Slots \ req[b].occupied
             k == Demo!Smallest(left)
             s == Demo!Smallest(Demo!Free)
             new == [Demo!NoRow EXCEPT !.state = "provisioning", !.owner = b, !.slot = k]
  <2>1. UNCHANGED <<worker, reader, tokens>>
    BY <1>2 DEF Demo!create_session
  <2>2. Demo!NoReq \in Reqs
    BY DEF Demo!NoReq
  <2>3. req[b] \in Reqs
    BY <1>0
  <2>4. left # {} => k \in left /\ k \in Demo!Slots /\ k # 0
    <3>1. left \subseteq Nat \ {0}
      BY DEF Demo!Slots
    <3>2. left # {} => k \in left
      BY <3>1, SmallestInSet
    <3> QED  BY <3>1, <3>2
  <2>5. \/ UNCHANGED row /\ req' = [req EXCEPT ![b] = Demo!NoReq]
        \/ UNCHANGED row /\ left # {} /\ req' = [req EXCEPT ![b].occupied = @ \cup {k}]
        \/ /\ left # {} /\ Demo!Free # {} /\ \A t \in Demo!Sessions : row[t].slot # k
           /\ row' = [row EXCEPT ![s] = new] /\ req' = [req EXCEPT ![b] = Demo!NoReq]
    BY <1>2 DEF Demo!create_session
  <2> HIDE DEF k
  <2>6. req' \in DReqs
    <3>1. CASE req' = [req EXCEPT ![b] = Demo!NoReq]
      BY <1>0, <2>2, <3>1 DEF DReqs
    <3>2. CASE left # {} /\ req' = [req EXCEPT ![b].occupied = @ \cup {k}]
      <4> DEFINE r == [req[b] EXCEPT !.occupied = @ \cup {k}]
      <4>1. r \in Reqs
        BY <2>3, <2>4, <3>2
      <4>2. req' = [req EXCEPT ![b] = r]
        BY <1>0, <3>2
      <4> HIDE DEF r
      <4> QED  BY <1>0, <4>1, <4>2 DEF DReqs
    <3> QED  BY <2>5, <3>1, <3>2
  <2> HIDE DEF s
  <2>7. CASE UNCHANGED row
    BY <2>1, <2>6, <2>7, DemoQuietStep
  <2>8. CASE /\ left # {} /\ Demo!Free # {} /\ \A t \in Demo!Sessions : row[t].slot # k
             /\ row' = [row EXCEPT ![s] = new]
    <3>1. s \in Demo!Free
      <4>1. Demo!Free \subseteq Nat
        BY DEF Demo!Free, Demo!Sessions
      <4> QED  BY <2>8, <4>1, SmallestInSet DEF s
    <3>2. new \in DRows /\ new.state = "provisioning" /\ new.slot = k
      BY <2>4, <2>8 DEF DRows, Demo!NoRow
    <3> HIDE DEF left, new
    <3> QED  BY <3>2, <2>1, <2>4, <2>6, <2>8, <3>1, InsertStep
  <2> QED  BY <2>5, <2>7, <2>8
<1> QED  BY <1>1, <1>2

(* A page that finds its session past its time.                             *)
LEMMA ReaderStep ==
    ASSUME DInv, ~StaleWrites,
           \/ \E s \in Demo!Sessions : Demo!status_context(s)
           \/ Demo!expire_if_due
    PROVE  DInv' /\ (Demo!Promise!Next \/ Still)
<1>0. /\ row \in [Demo!Sessions -> DRows] /\ reader \in Demo!Sessions \cup {0}
      /\ req \in DReqs
  BY DEF DInv, DTypes
<1>1. ASSUME NEW s \in Demo!Sessions, Demo!status_context(s)
      PROVE  DInv' /\ Still
  <2>1. /\ UNCHANGED <<row, worker, tokens>> /\ req' = req
        /\ reader' \in Demo!Sessions /\ row[reader'].state = "active"
    BY <1>1 DEF Demo!status_context
  <2> QED  BY <1>0, <2>1, DemoQuietStep
<1>2. CASE Demo!expire_if_due
  <2> DEFINE s == reader
             new == [row[s] EXCEPT !.state = "expired"]
  <2>1. /\ row' = [row EXCEPT ![s].state = "expired"] /\ s # 0
        /\ reader' = 0 /\ UNCHANGED <<worker, tokens, req>>
    BY <1>2 DEF Demo!expire_if_due
  <2>2. s \in Demo!Sessions /\ row[s] \in DRows /\ row[s].state = "active"
    BY <1>0, <2>1 DEF DInv, DWrites
  <2>3. new \in DRows /\ new.state = "expired" /\ new.slot = row[s].slot
    BY <2>2, RowStates
  <2>4. row' = [row EXCEPT ![s] = new]
    BY <2>1
  <2> HIDE DEF new
  <2>5. \A w \in Workers : ~(worker[w].step = "fail" /\ worker[w].s = s)
    BY <2>2 DEF DInv, DWrites
  <2>6. reader' \in {0, reader} /\ reader' # s
    BY <2>1
  <2>7. DInv'
    <3>1. UNCHANGED <<worker, tokens>> /\ req' = req
      BY <2>1
    <3>2. reader' = s => new.state = "active"
      BY <2>6
    <3>3. \A w \in Workers : worker[w].step = "fail" /\ worker[w].s = s
              => new.state = "provisioning" /\ new.token = row[s].token
      BY <2>5, Zenon
    <3>4. row[s].state \in {"none", "provisioning"} \/ new.state \notin {"none", "provisioning"}
      BY <2>3
    <3> HIDE DEF s
    <3> QED  BY <1>0, <2>2, <2>3, <2>4, <2>6, <3>1, <3>2, <3>3, <3>4, RowOnly, ZenonT(60)
  <2>8. row'[s] = new /\ \A t \in Demo!Sessions \ {s} : row'[t] = row[t]
    BY <1>0, <2>2, <2>4
  <2>9. Demo!Promise!Leads(row[s].state, row'[s].state) /\ row'[s].slot = row[s].slot
    BY <2>2, <2>3, <2>8 DEF Demo!Promise!Leads
  <2> HIDE DEF s
  <2> QED  BY <2>2, <2>7, <2>8, <2>9, PromiseAdvances
<1> QED  BY <1>1, <1>2

(* A lease that runs out changes nothing DemoSession speaks of.             *)
LEMMA LeaseStep ==
    ASSUME DInv, NEW s \in Demo!Sessions, Demo!LeaseExpires(s)
    PROVE  DInv' /\ Still
<1> DEFINE new == [row[s] EXCEPT !.leased = FALSE]
<1>1. /\ row' = [row EXCEPT ![s].leased = FALSE]
      /\ reader' = reader /\ UNCHANGED <<worker, tokens>> /\ req' = req
  BY DEF Demo!LeaseExpires
<1>2. /\ row \in [Demo!Sessions -> DRows] /\ reader \in Demo!Sessions \cup {0}
      /\ req \in DReqs
  BY DEF DInv, DTypes
<1>3. /\ new \in DRows /\ new.state = row[s].state /\ new.slot = row[s].slot
      /\ new.token = row[s].token
  BY <1>2, RowStates
<1>4. row' = [row EXCEPT ![s] = new]
  BY <1>1
<1> HIDE DEF new
<1>5. /\ reader' = s => new.state = "active"
      /\ \A w \in Workers : worker[w].step = "fail" /\ worker[w].s = s
             => new.state = "provisioning" /\ new.token = row[s].token
  BY <1>1, <1>3 DEF DInv, DWrites, Demo!Sessions
<1>6. DInv'
  <2>1. reader' \in {0, reader} /\ req' \in DReqs /\ UNCHANGED <<worker, tokens>>
    BY <1>1, <1>2
  <2>2. row[s].state \in {"none", "provisioning"} \/ new.state \notin {"none", "provisioning"}
    BY <1>3
  <2> QED  BY <1>3, <1>4, <1>5, <2>1, <2>2, RowOnly, ZenonT(60)
<1>7. Still
  BY <1>2, <1>3, <1>4 DEF Still
<1> QED  BY <1>6, <1>7

(* request_cleanup and the expiry of sessions.                              *)
LEMMA CleanupStep ==
    ASSUME DInv, ~StaleWrites, NEW s \in Demo!Sessions,
           Demo!request_cleanup(s) \/ Demo!finish_cleanup(s)
    PROVE  DInv' /\ Demo!Promise!Next
<1>0. /\ row \in [Demo!Sessions -> DRows] /\ reader \in Demo!Sessions \cup {0}
      /\ req \in DReqs
      /\ s # 0
  BY DEF DInv, DTypes, Demo!Sessions
<1>1. reader' = reader /\ UNCHANGED <<worker, tokens>> /\ req' = req
  BY DEF Demo!request_cleanup, Demo!finish_cleanup
<1>2. row[s].state \in {"expired", "failed", "cleaning"}
  BY DEF Demo!request_cleanup, Demo!finish_cleanup
<1>3. reader' # s /\ \A w \in Workers : ~(worker[w].step = "fail" /\ worker[w].s = s)
  BY <1>0, <1>1, <1>2 DEF DInv, DWrites
<1>4. ASSUME NEW new \in DRows, row' = [row EXCEPT ![s] = new],
             new.state \notin {"none", "provisioning"}
      PROVE  DInv'
  BY <1>0, <1>1, <1>3, <1>4, RowOnly
<1>5. CASE Demo!request_cleanup(s)
  <2> DEFINE new == [row[s] EXCEPT !.state = "cleaning"]
  <2>1. /\ row' = [row EXCEPT ![s].state = "cleaning"]
        /\ row[s].state \in {"expired", "failed"}
    BY <1>5 DEF Demo!request_cleanup
  <2>2. new \in DRows /\ new.state = "cleaning" /\ new.slot = row[s].slot
    BY <1>0, RowStates
  <2>3. row' = [row EXCEPT ![s] = new]
    BY <2>1
  <2> HIDE DEF new
  <2>4. DInv'
    BY <1>4, <2>2, <2>3
  <2>5. row'[s] = new /\ \A t \in Demo!Sessions \ {s} : row'[t] = row[t]
    BY <1>0, <2>3
  <2>6. Demo!Promise!Leads(row[s].state, row'[s].state) /\ row'[s].slot = row[s].slot
    BY <2>1, <2>2, <2>5 DEF Demo!Promise!Leads
  <2> QED  BY <2>4, <2>5, <2>6, PromiseAdvances
<1>6. CASE Demo!finish_cleanup(s)
  <2> DEFINE new == [row[s] EXCEPT !.state = "deleted", !.slot = 0]
  <2>1. /\ row' = [row EXCEPT ![s].state = "deleted", ![s].slot = 0]
        /\ row[s].state = "cleaning"
    BY <1>6 DEF Demo!finish_cleanup
  <2>2. new \in DRows /\ new.state = "deleted" /\ new.slot = 0
    BY <1>0, RowStates
  <2>3. row' = [row EXCEPT ![s] = new]
    BY <1>0, <2>1
  <2> HIDE DEF new
  <2>4. DInv'
    BY <1>4, <2>2, <2>3
  <2>5. row'[s] = new /\ \A t \in Demo!Sessions \ {s} : row'[t] = row[t]
    BY <1>0, <2>3
  <2>6. row'[s].state = "deleted" /\ row'[s].slot = 0
    BY <2>2, <2>5
  <2> QED  BY <2>1, <2>4, <2>5, <2>6, PromiseDeletes
<1> QED  BY <1>5, <1>6

(* What a worker remembers after its steps.                                 *)
LEMMA WorkerRow ==
    ASSUME DInv, NEW w \in Workers
    PROVE  /\ \A st \in {"run", "advance", "raised", "renew", "fail", "clear"} :
                  LET new == [worker[w] EXCEPT !.step = st]
                  IN  /\ new \in DWorkers /\ new.step = st
                      /\ new.s = worker[w].s /\ new.token = worker[w].token
           /\ \A st \in {"renew", "clear"}, at \in Nat :
                  LET new == [worker[w] EXCEPT !.step = st, !.at = at]
                  IN  /\ new \in DWorkers /\ new.step = st
                      /\ new.s = worker[w].s /\ new.token = worker[w].token
           /\ Demo!Idle \in DWorkers /\ Demo!Idle.step = "idle"
           /\ worker \in [Workers -> DWorkers] /\ worker[w] \in DWorkers
           /\ row \in [Demo!Sessions -> DRows] /\ reader \in Demo!Sessions \cup {0} /\ tokens \in Nat
           /\ worker[w].step # "idle" =>
                  /\ worker[w].s \in Demo!Sessions /\ row[worker[w].s] \in DRows
                  /\ worker[w].token \in 1 .. tokens
BY DEF DInv, DTypes, DTokens, DWorkers, Demo!Idle

(* What DInv says of the session a worker is on.                            *)
LEMMA WorkerReads ==
    ASSUME DInv, NEW w \in Workers,
           \/ Demo!_fake_step(w) \/ Demo!renew_lease(w) \/ Demo!RefreshAfterError(w)
           \/ Demo!WorkerCrash(w)
    PROVE  DInv' /\ Still
<1>1. UNCHANGED <<row, req, reader, tokens>> /\ worker[w].step # "idle"
  BY DEF Demo!_fake_step, Demo!renew_lease, Demo!RefreshAfterError, Demo!WorkerCrash
<1>2. \/ worker' = [worker EXCEPT ![w] = Demo!Idle]
      \/ \E st \in {"run", "advance", "raised"} :
            worker' = [worker EXCEPT ![w] = [worker[w] EXCEPT !.step = st]]
      \/ /\ worker' = [worker EXCEPT ![w] = [worker[w] EXCEPT !.step = "fail"]]
         /\ Demo!Holds(w) /\ row[worker[w].s].state = "provisioning"
  <2>1. CASE Demo!_fake_step(w)
    <3>1. PICK st \in {"advance", "raised"} : worker' = [worker EXCEPT ![w].step = st]
      BY <2>1 DEF Demo!_fake_step
    <3>2. st \in {"run", "advance", "raised"} /\ worker \in [Workers -> DWorkers]
      BY WorkerRow
    <3>3. worker' = [worker EXCEPT ![w] = [worker[w] EXCEPT !.step = st]]
      BY <3>1, <3>2
    <3> QED  BY <3>2, <3>3
  <2>2. CASE Demo!renew_lease(w)
    BY <2>2, WorkerRow DEF Demo!renew_lease
  <2>3. CASE Demo!RefreshAfterError(w)
    BY <2>3, WorkerRow DEF Demo!RefreshAfterError
  <2>4. CASE Demo!WorkerCrash(w)
    BY <2>4 DEF Demo!WorkerCrash
  <2> QED  BY <2>1, <2>2, <2>3, <2>4
<1>3. CASE worker' = [worker EXCEPT ![w] = Demo!Idle]
  <2>1. Demo!Idle \in DWorkers /\ Demo!Idle.step = "idle"
    BY WorkerRow
  <2> QED  BY <1>1, <1>3, <2>1, WorkerOnly
<1>4. ASSUME NEW st \in {"run", "advance", "raised"},
             worker' = [worker EXCEPT ![w] = [worker[w] EXCEPT !.step = st]]
      PROVE  DInv' /\ Still
  <2> DEFINE new == [worker[w] EXCEPT !.step = st]
  <2>1. st \in {"run", "advance", "raised", "renew", "fail", "clear"}
    OBVIOUS
  <2>2. /\ new \in DWorkers /\ new.step = st
        /\ new.s = worker[w].s /\ new.token = worker[w].token
    BY <2>1, WorkerRow
  <2>3. worker' = [worker EXCEPT ![w] = new]
    BY <1>4
  <2> HIDE DEF new
  <2> QED  BY <1>1, <2>2, <2>3, WorkerOnly
<1>5. CASE /\ worker' = [worker EXCEPT ![w] = [worker[w] EXCEPT !.step = "fail"]]
           /\ Demo!Holds(w) /\ row[worker[w].s].state = "provisioning"
  <2> DEFINE new == [worker[w] EXCEPT !.step = "fail"]
  <2>2. /\ new \in DWorkers /\ new.step = "fail"
        /\ new.s = worker[w].s /\ new.token = worker[w].token
    BY WorkerRow
  <2>3. worker' = [worker EXCEPT ![w] = new]
    BY <1>5
  <2> HIDE DEF new
  <2>4. row[new.s].state = "provisioning" /\ row[new.s].token = new.token
    BY <1>5, <2>2 DEF Demo!Holds
  <2> QED  BY <1>1, <2>2, <2>3, <2>4, WorkerOnly
<1> QED  BY <1>2, <1>3, <1>4, <1>5

(* A worker claims a session with a token of its own.                       *)
LEMMA ClaimSessionStep ==
    ASSUME DInv, ~StaleWrites, NEW w \in Workers, NEW s \in Demo!Sessions, Demo!claim(w, s)
    PROVE  DInv' /\ Still
<1> DEFINE r == [row[s] EXCEPT !.claimed_by = w, !.token = tokens', !.leased = TRUE]
           new == [step |-> "run", s |-> s, at |-> row[s].at, token |-> tokens']
<1>1. /\ worker[w].step = "idle" /\ tokens' = tokens + 1 /\ row[s].state = "provisioning"
      /\ row' = [row EXCEPT ![s].claimed_by = w, ![s].token = tokens', ![s].leased = TRUE]
      /\ worker' = [worker EXCEPT ![w] = new]
      /\ UNCHANGED <<req, reader>>
      /\ reader # s /\ \A v \in Workers : ~(worker[v].step = "fail" /\ worker[v].s = s)
  BY DEF Demo!claim, Demo!Undisturbed
<1>2. row \in [Demo!Sessions -> DRows] /\ tokens \in Nat /\ row[s] \in DRows
  BY WorkerRow
<1>3. tokens' \in Nat /\ tokens <= tokens' /\ tokens' \in 1 .. tokens' /\ tokens' > tokens
  BY <1>1, <1>2
<1>4. r \in DRows /\ r.state = "provisioning" /\ r.slot = row[s].slot
  BY <1>1, <1>2, <1>3 DEF DRows
<1>5. new \in DWorkers /\ new.step = "run" /\ new.s = s /\ new.token = tokens'
  BY <1>2, <1>3 DEF DRows, DWorkers
<1>6. row' = [row EXCEPT ![s] = r]
  BY <1>1, <1>2
<1> HIDE DEF r, new
<1>7. row[s].state \in {"none", "provisioning"} \/ r.state \notin {"none", "provisioning"}
  BY <1>1
<1>8. /\ new.step # "idle" =>
             /\ new.s = s /\ new.token \in 1 .. tokens'
             /\ \/ new.token = worker[w].token /\ worker[w].step # "idle"
                \/ new.token > tokens
      /\ new.step # "fail" /\ new.step # "clear"
      /\ reader = s => r.state = "active"
      /\ \A v \in Workers : v # w /\ worker[v].step = "fail" => worker[v].s # s
  BY <1>1, <1>3, <1>5
<1>9. DInv'
  <2>1. UNCHANGED <<req, reader>> /\ worker' = [worker EXCEPT ![w] = new]
    BY <1>1
  <2>2. new.step = "clear" => r.state \notin {"none", "provisioning"}
    BY <1>8
  <2>3. reader = s => r.state = "active"
    BY <1>8
  <2>4. \A v \in Workers : v # w /\ worker[v].step = "fail" => worker[v].s # s
    BY <1>8
  <2> QED  BY <1>3, <1>4, <1>5, <1>6, <1>7, <1>8, <2>1, <2>2, <2>3, <2>4, WorkerWrites
<1>10. Still
  BY <1>1, <1>2, <1>4, <1>6 DEF Still
<1> QED  BY <1>9, <1>10

(* Only one worker's token is the row's.                                    *)
LEMMA HolderAlone ==
    ASSUME DInv, NEW w \in Workers, worker[w].step # "idle",
           \/ row[worker[w].s].token = worker[w].token
           \/ row[worker[w].s].state # "provisioning"
    PROVE  \A v \in Workers : v # w /\ worker[v].step = "fail" => worker[v].s # worker[w].s
BY DEF DInv, DTokens, DWrites

(* _advance, its failure and its renewal: with the fence, a worker whose    *)
(* claim was taken writes nothing.                                          *)
LEMMA AdvanceSessionStep ==
    ASSUME DInv, NEW w \in Workers, Demo!_advance(w)
    PROVE  DInv' /\ (Demo!Promise!Next \/ Still)
<1> DEFINE s == worker[w].s
           last == worker[w].at = Steps - 1
<1>1. worker[w].step = "advance" /\ UNCHANGED <<req, reader, tokens>>
  BY DEF Demo!_advance
<1>2. /\ row \in [Demo!Sessions -> DRows] /\ s \in Demo!Sessions /\ row[s] \in DRows
      /\ worker[w].token \in 1 .. tokens /\ worker \in [Workers -> DWorkers] /\ tokens \in Nat
  BY <1>1, WorkerRow
<1>3. CASE worker' = [worker EXCEPT ![w].step = "raised"] /\ UNCHANGED row
  <2> DEFINE new == [worker[w] EXCEPT !.step = "raised"]
  <2>1. /\ new \in DWorkers /\ new.step = "raised"
        /\ new.s = worker[w].s /\ new.token = worker[w].token
    BY WorkerRow
  <2>2. worker' = [worker EXCEPT ![w] = new]
    BY <1>2, <1>3
  <2> HIDE DEF new
  <2>3. UNCHANGED <<row, req, reader, tokens>> /\ worker[w].step # "idle"
    BY <1>1, <1>3
  <2> QED  BY <2>1, <2>2, <2>3, WorkerOnly
<1>4. ASSUME Demo!Holds(w), row[s].state = "provisioning",
             NEW r \in DRows, row' = [row EXCEPT ![s] = r], r.slot = row[s].slot,
             r.state \in {"provisioning", "active"},
             NEW new \in DWorkers, worker' = [worker EXCEPT ![w] = new],
             new.s = s, new.token = worker[w].token,
             new.step = "renew" \/ (new.step = "clear" /\ r.state = "active")
      PROVE  DInv' /\ (Demo!Promise!Next \/ Still)
  <2>1. reader # s
    BY <1>2, <1>4 DEF DInv, DWrites, Demo!Sessions
  <2>2. \A v \in Workers : v # w /\ worker[v].step = "fail" => worker[v].s # s
    BY <1>1, <1>4, HolderAlone DEF Demo!Holds
  <2>3. /\ tokens' \in Nat /\ tokens <= tokens'
        /\ new.step # "idle" =>
               /\ new.s = s /\ new.token \in 1 .. tokens'
               /\ \/ new.token = worker[w].token /\ worker[w].step # "idle"
                  \/ new.token > tokens
    BY <1>1, <1>2, <1>4
  <2>4. /\ new.step # "fail"
        /\ new.step = "clear" => r.state \notin {"none", "provisioning"}
        /\ reader = s => r.state = "active"
        /\ row[s].state \in {"none", "provisioning"} \/ r.state \notin {"none", "provisioning"}
    BY <1>4, <2>1
  <2>5. UNCHANGED <<req, reader>>
    BY <1>1
  <2> HIDE DEF s
  <2>6. DInv'
    BY <1>2, <1>4, <2>2, <2>3, <2>4, <2>5, WorkerWrites
  <2>7. row'[s] = r /\ \A t \in Demo!Sessions \ {s} : row'[t] = row[t]
    BY <1>2, <1>4
  <2>8. CASE r.state = "active"
    <3>1. Demo!Promise!Leads(row[s].state, row'[s].state) /\ row'[s].slot = row[s].slot
      BY <1>4, <2>7, <2>8 DEF Demo!Promise!Leads
    <3> QED  BY <1>2, <2>6, <2>7, <3>1, PromiseAdvances
  <2>9. CASE r.state = "provisioning"
    BY <1>4, <2>6, <2>7, <2>9 DEF Still
  <2> QED  BY <1>4, <2>8, <2>9
<1>5. CASE /\ Demo!Holds(w) /\ row[s].state = "provisioning"
           /\ row' = [row EXCEPT ![s].state = IF last THEN "active" ELSE @,
                                 ![s].at = IF last THEN @ ELSE @ + 1]
           /\ worker' = [worker EXCEPT ![w].step = IF last THEN "clear" ELSE "renew",
                                       ![w].at = row'[s].at]
  <2> DEFINE r == [row[s] EXCEPT !.state = IF last THEN "active" ELSE @,
                                 !.at = IF last THEN @ ELSE @ + 1]
             new == [worker[w] EXCEPT !.step = IF last THEN "clear" ELSE "renew", !.at = r.at]
  <2>1. /\ r \in DRows /\ r.slot = row[s].slot
        /\ r.state = IF last THEN "active" ELSE "provisioning"
    <3>1. CASE last
      BY <1>2, <1>5, <3>1 DEF DRows
    <3>2. CASE ~last
      BY <1>2, <1>5, <3>2 DEF DRows
    <3> QED  BY <3>1, <3>2
  <2>2. row' = [row EXCEPT ![s] = r]
    BY <1>2, <1>5
  <2> HIDE DEF r
  <2>3. row'[s] = r /\ r.at \in Nat
    BY <1>2, <2>1, <2>2 DEF DRows
  <2>4. worker' = [worker EXCEPT ![w] = new]
    <3>1. worker' = [worker EXCEPT ![w] = [worker[w] EXCEPT
                         !.step = IF last THEN "clear" ELSE "renew", !.at = row'[s].at]]
      <4>1. worker' = [worker EXCEPT ![w].step = IF last THEN "clear" ELSE "renew",
                                     ![w].at = row'[s].at]
        BY <1>5
      <4> HIDE DEF last, s
      <4> QED  BY <1>2, <4>1
    <3> QED  BY <2>3, <3>1
  <2>5. /\ new \in DWorkers /\ new.s = s /\ new.token = worker[w].token
        /\ new.step = IF last THEN "clear" ELSE "renew"
    <3> HIDE DEF s, last
    <3>3. r.at \in Nat
      BY <2>3
    <3>1. CASE last
      <4> DEFINE n == [worker[w] EXCEPT !.step = "clear", !.at = r.at]
      <4>1. new = n
        BY <3>1
      <4>2. /\ n \in DWorkers /\ n.step = "clear"
            /\ n.s = worker[w].s /\ n.token = worker[w].token
        BY <3>3, WorkerRow
      <4> HIDE DEF new, n
      <4> QED  BY <3>1, <4>1, <4>2 DEF s
    <3>2. CASE ~last
      <4> DEFINE n == [worker[w] EXCEPT !.step = "renew", !.at = r.at]
      <4>1. new = n
        BY <3>2
      <4>2. /\ n \in DWorkers /\ n.step = "renew"
            /\ n.s = worker[w].s /\ n.token = worker[w].token
        BY <3>3, WorkerRow
      <4> HIDE DEF new, n
      <4> QED  BY <3>2, <4>1, <4>2 DEF s
    <3> QED  BY <3>1, <3>2
  <2> HIDE DEF new, s, last
  <2> QED  BY <1>4, <1>5, <2>1, <2>2, <2>4, <2>5
<1> QED  BY <1>3, <1>5 DEF Demo!_advance

(* The row after a clean-up step.                                           *)
LEMMA ClearedRow ==
    ASSUME NEW r \in DRows
    PROVE  /\ LET new == [r EXCEPT !.claimed_by = "none", !.token = 0, !.leased = FALSE]
              IN  new \in DRows /\ new.state = r.state /\ new.slot = r.slot
           /\ LET new == [r EXCEPT !.state = "failed", !.claimed_by = "none", !.token = 0,
                                   !.leased = FALSE]
              IN  new \in DRows /\ new.state = "failed" /\ new.slot = r.slot
BY DEF DRows

(* The worker's last step on a session.                                     *)
LEMMA ReleaseSessionStep ==
    ASSUME DInv, NEW w \in Workers, Demo!FailSession(w) \/ Demo!run_fake_or_runtime(w)
    PROVE  DInv' /\ (Demo!Promise!Next \/ Still)
<1> DEFINE s == worker[w].s
<1>1. /\ worker[w].step \in {"fail", "clear"} /\ worker[w].step # "idle"
      /\ UNCHANGED <<req, reader, tokens>>
      /\ worker' = [worker EXCEPT ![w] = Demo!Idle]
  BY DEF Demo!FailSession, Demo!run_fake_or_runtime
<1>2. /\ row \in [Demo!Sessions -> DRows] /\ s \in Demo!Sessions /\ row[s] \in DRows
      /\ tokens \in Nat /\ Demo!Idle \in DWorkers /\ Demo!Idle.step = "idle" /\ s # 0
  <2>1. /\ row \in [Demo!Sessions -> DRows] /\ s \in Demo!Sessions /\ row[s] \in DRows
        /\ tokens \in Nat /\ Demo!Idle \in DWorkers /\ Demo!Idle.step = "idle"
    BY <1>1, WorkerRow
  <2> QED  BY <2>1 DEF Demo!Sessions
<1>3. /\ worker[w].step = "fail" => row[s].state = "provisioning" /\ row[s].token = worker[w].token
      /\ worker[w].step = "clear" => row[s].state \notin {"none", "provisioning"}
      /\ reader = s => row[s].state = "active"
  BY <1>2 DEF DInv, DWrites
<1>4. \A v \in Workers : v # w /\ worker[v].step = "fail" => worker[v].s # s
  BY <1>1, <1>3, HolderAlone
<1>5. ASSUME NEW r \in DRows, row' = [row EXCEPT ![s] = r], reader = s => r.state = "active",
             row[s].state \in {"none", "provisioning"} \/ r.state \notin {"none", "provisioning"}
      PROVE  DInv'
  <2>1. /\ tokens' \in Nat /\ tokens <= tokens' /\ UNCHANGED <<req, reader>>
        /\ Demo!Idle.step # "fail" /\ Demo!Idle.step # "clear"
    BY <1>1, <1>2
  <2> HIDE DEF s
  <2> QED  BY <1>1, <1>2, <1>4, <1>5, <2>1, WorkerWrites
<1>6. CASE Demo!FailSession(w)
  <2> DEFINE r == [row[s] EXCEPT !.state = "failed", !.claimed_by = "none", !.token = 0,
                                 !.leased = FALSE]
  <2>1. /\ row' = [row EXCEPT ![s].state = "failed", ![s].claimed_by = "none", ![s].token = 0,
                              ![s].leased = FALSE]
        /\ row[s].state = "provisioning"
    BY <1>3, <1>6 DEF Demo!FailSession
  <2>2. r \in DRows /\ r.state = "failed" /\ r.slot = row[s].slot
    BY <1>2, ClearedRow
  <2>3. row' = [row EXCEPT ![s] = r]
    BY <1>2, <2>1
  <2> HIDE DEF r
  <2>4. DInv'
    BY <1>3, <1>5, <2>1, <2>2, <2>3
  <2>5. row'[s] = r /\ \A t \in Demo!Sessions \ {s} : row'[t] = row[t]
    BY <1>2, <2>3
  <2>6. Demo!Promise!Leads(row[s].state, row'[s].state) /\ row'[s].slot = row[s].slot
    BY <2>1, <2>2, <2>5 DEF Demo!Promise!Leads
  <2> HIDE DEF s
  <2> QED  BY <1>2, <2>4, <2>5, <2>6, PromiseAdvances
<1>7. CASE Demo!run_fake_or_runtime(w)
  <2> DEFINE r == [row[s] EXCEPT !.claimed_by = "none", !.token = 0, !.leased = FALSE]
  <2>1. row' = [row EXCEPT ![s].claimed_by = "none", ![s].token = 0, ![s].leased = FALSE]
    BY <1>7 DEF Demo!run_fake_or_runtime
  <2>2. r \in DRows /\ r.state = row[s].state /\ r.slot = row[s].slot
    BY <1>2, ClearedRow
  <2>3. row' = [row EXCEPT ![s] = r]
    BY <1>2, <2>1
  <2> HIDE DEF r
  <2>4. DInv'
    BY <1>3, <1>5, <2>2, <2>3
  <2>5. Still
    BY <1>2, <2>2, <2>3 DEF Still
  <2> QED  BY <2>4, <2>5
<1> QED  BY <1>6, <1>7

(* The invariant depends on the demo part's variables only.                 *)
LEMMA DemoStutter ==
    ASSUME DInv, UNCHANGED demoVars
    PROVE  DInv' /\ Still
BY DEF DInv, DTypes, DTokens, DWrites, Still, demoVars

(* Every step of Quick Demo keeps the invariant and is a step or a stutter  *)
(* of DemoSession.                                                          *)
LEMMA DemoNext ==
    ASSUME DInv, ~StaleWrites, Demo!Next
    PROVE  DInv' /\ (Demo!Promise!Next \/ Still)
<1>1. ASSUME NEW w \in Workers, Demo!WorkerStep(w) \/ Demo!WorkerCrash(w)
      PROVE  DInv' /\ (Demo!Promise!Next \/ Still)
  BY <1>1, ClaimSessionStep, WorkerReads, AdvanceSessionStep, ReleaseSessionStep
     DEF Demo!WorkerStep
<1>2. ASSUME NEW s \in Demo!Sessions, \/ Demo!status_context(s) \/ Demo!LeaseExpires(s)
                                      \/ Demo!request_cleanup(s) \/ Demo!finish_cleanup(s)
      PROVE  DInv' /\ (Demo!Promise!Next \/ Still)
  BY <1>2, ReaderStep, LeaseStep, CleanupStep
<1> QED  BY <1>1, <1>2, DemoRequestStep, ReaderStep DEF Demo!Next

(* The invariant holds at the start, and DemoSession starts there.          *)
LEMMA DemoInit ==
    ASSUME Demo!Init
    PROVE  DInv /\ Demo!Promise!Init
<1>1. Demo!NoRow \in DRows /\ Demo!NoRow.state = "none" /\ Demo!NoRow.slot = 0
  BY DEF Demo!NoRow, DRows
<1>2. Demo!Idle \in DWorkers /\ Demo!Idle.step = "idle"
  BY DEF Demo!Idle, DWorkers
<1>3. Demo!NoReq \in [step : {"idle", "insert"}, occupied : SUBSET (Demo!Slots)]
  BY DEF Demo!NoReq
<1>4. DInv
  BY <1>1, <1>2, <1>3 DEF Demo!Init, DInv, DTypes, DReqs, DTokens, DWrites
<1>5. Demo!Promise!Init
  BY DEF Demo!Init, Demo!Promise!Init, Demo!NoRow
<1> QED  BY <1>4, <1>5

(* Quick Demo implements DemoSession: a session's state follows its order,  *)
(* and no two sessions hold a slot, for any number of visitors, workers and *)
(* sessions, when a worker writes only what it still holds (create_session, *)
(* _advance, request_cleanup).                                              *)
THEOREM PromiseIsKept ==
    ASSUME ~StaleWrites
    PROVE  Spec => KeepsPromise
<1>1. Init => DInv /\ Demo!Promise!Init
  BY DemoInit DEF Init
<1>2. ASSUME DInv, [Next]_<<part, setupVars, accountsVars, demoVars>>
      PROVE  DInv' /\ [Demo!Promise!Next]_(Demo!Promise!vars)
  <2>1. DInv' /\ (Demo!Promise!Next \/ Still)
    <3>1. CASE Demo!Next
      BY <1>2, <3>1, DemoNext
    <3>2. CASE UNCHANGED demoVars
      BY <1>2, <3>2, DemoStutter
    <3> QED  BY <1>2, <3>1, <3>2 DEF Next
  <2> QED  BY <2>1, PromiseStutters
<1>3. KeepsPromise <=> (Demo!Promise!Init /\ [][Demo!Promise!Next]_(Demo!Promise!vars))
  BY DEF KeepsPromise, Demo!KeepsPromise, Demo!Promise!Spec
<1> QED  BY <1>1, <1>2, <1>3, PTL DEF Spec

===============================================================================
