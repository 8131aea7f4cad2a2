--------------------------- MODULE ComputeReservation ---------------------------
(***************************************************************************)
(* Helper Compute reservations: services/helper_compute/reservation.py     *)
(* with the two handlers of api/cloud.py that drive it.                    *)
(*                                                                         *)
(* A reservation holds capacity of a node between the choice of resources  *)
(* and the payment.  The counters reserved and committed of a node are     *)
(* columns that a request reads into an ORM copy, changes and writes back; *)
(* SQLite's write lock is taken by the first flush, so what was read       *)
(* before it may be stale.  A step is one such read, or the writes from    *)
(* the first flush to the commit.  The POST handler runs on the event loop *)
(* and is serial; the GET handler runs in the thread pool and sweeps       *)
(* expired reservations.  vcpu, ram_gb and storage_gb go through the same  *)
(* checks and updates, so one size stands for the three.                   *)
(***************************************************************************)
EXTENDS Integers, FiniteSets, FiniteSetsExt

CONSTANTS
    MaxReservations,    \* bound: reservations ever made
    Nodes,              \* node ids, ordered like their names
    Sellable,           \* total - reserve - allocated, of every node
    Seeded,             \* reserved counter the nodes were seeded with
    Sizes,              \* sizes the customers ask for
    Handlers,           \* bound: requests served at the same time
    Ops                 \* the kinds of request of a run

ASSUME ReservationAssumption ==
    /\ MaxReservations \in Nat /\ Sellable \in Nat /\ Seeded \in 0 .. Sellable
    /\ Nodes \subseteq Nat /\ Sizes \subseteq Nat \ {0}
    /\ Ops \subseteq {"reserve", "sweep", "bind", "confirm", "fail"}

Reservations == 1 .. MaxReservations
None         == 0               \* no reservation, or no node

ACTIVE_STATES   == {"reserved", "checkout_bound"}
TERMINAL_STATES == {"committed", "released", "expired", "cancelled"}

HC_RESERVATION_TRANSITIONS ==
    [draft          |-> {"reserved", "cancelled"},
     reserved       |-> {"checkout_bound", "released", "expired", "cancelled"},
     checkout_bound |-> {"committed", "released", "expired", "cancelled"},
     committed |-> {}, released |-> {}, expired |-> {}, cancelled |-> {}]

States == ACTIVE_STATES \cup TERMINAL_STATES \cup {"draft"}

(* "draft" is a row not yet inserted; late: expires_at has passed. *)
Rows == [state : States, size : Sizes \cup {0}, node : Nodes \cup {None},
         late : BOOLEAN, checkout : {"none", "pending", "paid", "failed"}]
NoRow == [state |-> "draft", size |-> 0, node |-> None, late |-> FALSE,
          checkout |-> "none"]

VARIABLES
    reserved,   \* reserved counter of each node
    committed,  \* committed counter of each node
    rsv,        \* the reservations with their checkouts
    thread,     \* request handlers
    raced       \* history: nodes written by a request that had been overtaken

vars == <<reserved, committed, rsv, thread, raced>>

Threads == [pc : {"idle", "lock", "reserve", "list", "sweep", "bind", "expire",
                  "confirm", "fail"},
            size : Sizes \cup {0}, seen : States,
            node : Nodes \cup {None}, rows : SUBSET Reservations,
            res : Int, com : Int,
            stale : SUBSET Nodes]   \* history: nodes written since it read them
Idle == [pc |-> "idle", size |-> 0, seen |-> "draft", node |-> None,
         rows |-> {}, res |-> 0, com |-> 0, stale |-> {}]

------------------------------------------------------------------------------
Inserted == {r \in Reservations : rsv[r].state # "draft"}
Active   == {r \in Reservations : rsv[r].state \in ACTIVE_STATES}

(* The capacity that reservations S hold on node n, counted unit by unit. *)
Units(r)     == {r} \X (1 .. rsv[r].size)
HeldOn(n, S) == Cardinality(UNION {Units(r) : r \in {s \in S : rsv[s].node = n}})

(* Mutant: what was sold is not counted. *)
availableUncommitted(n) == Max({0, Sellable - reserved[n]})

available(n) == Max({0, Sellable - reserved[n] - committed[n]})

candidate_nodes(q) == {n \in Nodes : q <= available(n)}

(* Most available first, ties by node id. *)
preferred_candidate(q) ==
    CHOOSE n \in candidate_nodes(q) : \A k \in candidate_nodes(q) :
        available(n) > available(k) \/ (available(n) = available(k) /\ n <= k)

(* A floor of zero hides what was released twice. *)
Less(counter, q) == Max({0, counter - q})

At(h, pc) == thread[h].pc = pc
Done(h)   == thread' = [thread EXCEPT ![h] = Idle]

(* A request works on the nodes of the rows it has read. *)
InHand(h, n) ==
    /\ thread[h].pc # "idle"
    /\ thread[h].node = n \/ \E r \in thread[h].rows : rsv[r].node = n

(* The commit that ends a request overtakes the others on its nodes. *)
Commits(h) ==
    /\ thread' = [g \in Handlers |->
           IF g = h THEN Idle
           ELSE [thread[g] EXCEPT !.stale = @ \cup {n \in Nodes : InHand(h, n) /\ InHand(g, n)}]]
    /\ raced' = raced \cup thread[h].stale

------------------------------------------------------------------------------
(* POST /cloud/build/resources: create_quote and reserve_capacity.  The    *)
(* call that should release the session's earlier reservation passes a     *)
(* keyword-only argument by position; the error is swallowed and nothing   *)
(* is released.                                                            *)

EventLoopFree == \A h \in Handlers : thread[h].pc \notin {"lock", "reserve"}

Quote(h, q) ==
    /\ "reserve" \in Ops /\ At(h, "idle") /\ EventLoopFree
    /\ Cardinality(Inserted) < MaxReservations
    /\ candidate_nodes(q) # {}
    /\ thread' = [thread EXCEPT ![h] =
           [Idle EXCEPT !.pc = "lock", !.size = q, !.node = preferred_candidate(q)]]
    /\ UNCHANGED <<reserved, committed, rsv, raced>>

(* The node row is loaded and checked again, without its committed part. *)
LockNode(h) ==
    /\ At(h, "lock")
    /\ LET now == reserved[thread[h].node] IN
       IF thread[h].size <= Max({0, Sellable - now})
       THEN thread' = [thread EXCEPT ![h].pc = "reserve", ![h].res = now]
       ELSE Done(h)
    /\ UNCHANGED <<reserved, committed, rsv, raced>>

Reserve(h) ==
    /\ At(h, "reserve")
    /\ LET r == Min(Reservations \ Inserted)  t == thread[h] IN
       /\ reserved' = [reserved EXCEPT ![t.node] = t.res + t.size]
       /\ rsv' = [rsv EXCEPT ![r] =
              [NoRow EXCEPT !.state = "reserved", !.size = t.size, !.node = t.node]]
    /\ Commits(h)
    /\ UNCHANGED committed

------------------------------------------------------------------------------
(* GET /cloud/build/resources: sweep_expired_reservations.  All due rows   *)
(* are loaded; expire_reservation works on these copies, and the node of   *)
(* the first is read before anything is locked.                            *)

Due == {r \in Active : rsv[r].late}

SweepList(h) ==
    /\ "sweep" \in Ops /\ At(h, "idle") /\ Due # {}
    /\ thread' = [thread EXCEPT ![h] =
           [Idle EXCEPT !.pc = "list", !.rows = Due, !.node = rsv[Min(Due)].node]]
    /\ UNCHANGED <<reserved, committed, rsv, raced>>

SweepRead(h) ==
    /\ At(h, "list")
    /\ thread' = [thread EXCEPT ![h].pc = "sweep", ![h].res = reserved[thread[h].node]]
    /\ UNCHANGED <<reserved, committed, rsv, raced>>

SweepWrite(h) ==
    /\ At(h, "sweep")
    /\ LET t == thread[h] IN
       /\ reserved' = [n \in Nodes |->
              Less(IF n = t.node THEN t.res ELSE reserved[n], HeldOn(n, t.rows))]
       /\ rsv' = [r \in Reservations |->
              IF r \in t.rows THEN [rsv[r] EXCEPT !.state = "expired"] ELSE rsv[r]]
    /\ Commits(h)
    /\ UNCHANGED committed

------------------------------------------------------------------------------
(* The checkout contract: bind_checkout, confirm_payment, fail_payment.    *)

(* What a request has read before it writes. *)
Reads(h, op, r) ==
    /\ At(h, "idle")
    /\ thread' = [thread EXCEPT ![h] =
           [Idle EXCEPT !.pc = op, !.rows = {r}, !.seen = rsv[r].state, !.node = rsv[r].node,
                        !.res = reserved[rsv[r].node], !.com = committed[rsv[r].node]]]
    /\ UNCHANGED <<reserved, committed, rsv, raced>>

Mine(h) == Min(thread[h].rows)

BindCheckout(h, r) ==
    /\ "bind" \in Ops /\ r \in Active /\ (rsv[r].late \/ rsv[r].checkout = "none")
    /\ Reads(h, IF rsv[r].late THEN "expire" ELSE "bind", r)

(* uq_hc_checkout_reservation refuses a second checkout. *)
BindWrite(h) ==
    /\ At(h, "bind")
    /\ IF rsv[Mine(h)].checkout = "none"
       THEN /\ rsv' = [rsv EXCEPT ![Mine(h)].state = "checkout_bound",
                                  ![Mine(h)].checkout = "pending"]
            /\ Commits(h)
       ELSE Done(h) /\ UNCHANGED <<rsv, raced>>
    /\ UNCHANGED <<reserved, committed>>

(* A checkout that comes too late expires its reservation. *)
BindExpires(h) ==
    /\ At(h, "expire")
    /\ LET r == Mine(h)  t == thread[h] IN
       /\ reserved' = [reserved EXCEPT ![t.node] = Less(t.res, rsv[r].size)]
       /\ rsv' = [rsv EXCEPT ![r].state = "expired"]
    /\ Commits(h)
    /\ UNCHANGED committed

(* A payment that arrives late is accepted until the sweep has been there. *)
ConfirmPayment(h, r) ==
    /\ "confirm" \in Ops
    /\ rsv[r].checkout = "pending" /\ rsv[r].state = "checkout_bound"
    /\ Reads(h, "confirm", r)

(* Mutant: the reserved part is kept. *)
ConfirmKeepsReserved(h) ==
    /\ At(h, "confirm")
    /\ LET r == Mine(h)  t == thread[h] IN
       /\ committed' = [committed EXCEPT ![t.node] = t.com + rsv[r].size]
       /\ rsv' = [rsv EXCEPT ![r].state = "committed", ![r].checkout = "paid"]
    /\ Commits(h)
    /\ UNCHANGED reserved

ConfirmWrite(h) ==
    /\ At(h, "confirm")
    /\ LET r == Mine(h)  t == thread[h] IN
       /\ reserved' = [reserved EXCEPT ![t.node] = Less(t.res, rsv[r].size)]
       /\ committed' = [committed EXCEPT ![t.node] = t.com + rsv[r].size]
       /\ rsv' = [rsv EXCEPT ![r].state = "committed", ![r].checkout = "paid"]
    /\ Commits(h)

(* Mutant: a checkout that was paid can still fail. *)
FailPaymentPaid(h, r) ==
    "fail" \in Ops /\ rsv[r].checkout \in {"pending", "paid"} /\ Reads(h, "fail", r)

FailPayment(h, r) ==
    "fail" \in Ops /\ rsv[r].checkout = "pending" /\ Reads(h, "fail", r)

(* Mutant: release_reservation does not look at the state. *)
FailReleasesAlways(h) ==
    /\ At(h, "fail")
    /\ LET r == Mine(h)  t == thread[h] IN
       /\ reserved' = [reserved EXCEPT ![t.node] = Less(t.res, rsv[r].size)]
       /\ rsv' = [rsv EXCEPT ![r].checkout = "failed", ![r].state = "released"]
    /\ Commits(h)
    /\ UNCHANGED committed

(* Mutant: the reason of the release becomes the state. *)
FailWritesReason(h) ==
    /\ At(h, "fail")
    /\ rsv' = [rsv EXCEPT ![Mine(h)].checkout = "failed", ![Mine(h)].state = "payment_failed"]
    /\ Commits(h)
    /\ UNCHANGED <<reserved, committed>>

(* release_reservation is a no-op in a terminal state. *)
FailWrite(h) ==
    /\ At(h, "fail")
    /\ LET r == Mine(h)  t == thread[h] IN
       \/ /\ t.seen \in ACTIVE_STATES
          /\ reserved' = [reserved EXCEPT ![t.node] = Less(t.res, rsv[r].size)]
          /\ rsv' = [rsv EXCEPT ![r].checkout = "failed", ![r].state = "released"]
       \/ /\ t.seen \in TERMINAL_STATES
          /\ rsv' = [rsv EXCEPT ![r].checkout = "failed"]
          /\ UNCHANGED reserved
    /\ Commits(h)
    /\ UNCHANGED committed

------------------------------------------------------------------------------
Expire(r) ==
    /\ rsv[r].state \in ACTIVE_STATES /\ ~rsv[r].late
    /\ rsv' = [rsv EXCEPT ![r].late = TRUE]
    /\ UNCHANGED <<reserved, committed, thread, raced>>

Init ==
    /\ reserved = [n \in Nodes |-> Seeded] /\ committed = [n \in Nodes |-> 0]
    /\ rsv = [r \in Reservations |-> NoRow]
    /\ thread = [h \in Handlers |-> Idle]
    /\ raced = {}

Handle(h) ==
    \/ \E q \in Sizes : Quote(h, q)
    \/ LockNode(h) \/ Reserve(h)
    \/ SweepList(h) \/ SweepRead(h) \/ SweepWrite(h)
    \/ \E r \in Reservations : BindCheckout(h, r) \/ ConfirmPayment(h, r) \/ FailPayment(h, r)
    \/ BindWrite(h) \/ BindExpires(h) \/ ConfirmWrite(h) \/ FailWrite(h)

Next == (\E h \in Handlers : Handle(h)) \/ (\E r \in Reservations : Expire(r))

Spec == Init /\ [][Next]_vars

------------------------------------------------------------------------------
(* Properties.                                                             *)

(* The reservations stay within their types. *)
TypeOK ==
    /\ reserved \in [Nodes -> Nat] /\ committed \in [Nodes -> Nat]
    /\ rsv \in [Reservations -> Rows]
    /\ thread \in [Handlers -> Threads]
    /\ raced \subseteq Nodes

Committed == {r \in Reservations : rsv[r].state = "committed"}

(* The counters of a node are exactly what its reservations hold until a     *)
(* request writes what it read before another's commit: each path out of a   *)
(* hold gives back what the way in took, once, and requests that overlap on  *)
(* different nodes do not disturb each other (reserve_capacity,              *)
(* expire_reservation, release_reservation, confirm_payment).                *)
CountersExact ==
    \A n \in Nodes \ raced : /\ reserved[n] = Seeded + HeldOn(n, Active)
                             /\ committed[n] = HeldOn(n, Committed)

(* What is held and sold on a node fits it. *)
FitsNode(n) == Seeded + HeldOn(n, Active \cup Committed) <= Sellable

(* Held and sold capacity fit the node until a request writes what it read   *)
(* before another's commit, although the second check of reserve_capacity    *)
(* leaves out what was sold (create_quote, reserve_capacity).                *)
NotOversold == \A n \in Nodes \ raced : FitsNode(n)

(* The docstring of reserve_capacity: its update of the reserved counters is *)
(* atomic and conditional, and prevents overselling.                         *)
NeverOversold == \A n \in Nodes : FitsNode(n)

(* A checkout that was paid has its capacity committed, and only then, until *)
(* a request writes what it read before another's commit (confirm_payment,   *)
(* fail_payment).                                                            *)
PaidIsCommitted ==
    \A r \in Reservations : rsv[r].node \notin raced =>
        (rsv[r].checkout = "paid" <=> rsv[r].state = "committed")

(* States change only along HC_RESERVATION_TRANSITIONS: what is terminal   *)
(* stays, although release, expiry and binding do not consult the table.   *)
LegalTransitions ==
    [][\A r \in Reservations :
          rsv'[r].state # rsv[r].state =>
              rsv'[r].state \in HC_RESERVATION_TRANSITIONS[rsv[r].state]]_vars
==============================================================================
