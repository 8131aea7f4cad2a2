-------------------------------- MODULE QuickDemo --------------------------------
(***************************************************************************)
(* Quick Demo sessions: created by browsers, provisioned by leased         *)
(* workers, expired by whoever looks at them, cleaned up.  Sources:        *)
(* quick_demo_service, quick_demo_contracts, quick_demo_fake_adapter,      *)
(* api/quick_demo.                                                         *)
(*                                                                         *)
(* The provisioning states differ only in the runtime call that leads to   *)
(* them: `at` counts them.  A lease (5 minutes) may run out at any time.   *)
(* StaleWrites lets it, and a clean-up, fall between a read and the        *)
(* unconditional write that follows it within one request.                 *)
(***************************************************************************)
EXTENDS Integers, FiniteSets

CONSTANTS
    MaxSessions,    \* bound: rows of quick_demo_sessions
    MaxSlots,       \* quick_demo_max_active_sessions
    Browsers,       \* owners: a user in a browser
    Workers,
    Steps,          \* provisioning states (seven in the code)
    StaleWrites,
    MaxClaims,      \* bound: lease tokens issued
    MaxLooks        \* bound: looks at a session that find it due

VARIABLES
    row,        \* quick_demo_sessions
    req,        \* a browser's POST: the slots it saw occupied
    worker,     \* a worker: its session, its copy of the state, its token
    reader,     \* the session a status request found due, or 0
    tokens, looks

vars == <<row, req, worker, reader, tokens, looks>>

Sessions == 1 .. MaxSessions
Slots == 1 .. MaxSlots

NoRow == [state |-> "none", at |-> 0, owner |-> "none", slot |-> 0,
          claimed_by |-> "none", token |-> 0, leased |-> FALSE]
NoReq == [step |-> "idle", occupied |-> {}]
Idle == [step |-> "idle", s |-> 0, at |-> 0, token |-> 0]

Init ==
    /\ row = [s \in Sessions |-> NoRow]
    /\ req = [b \in Browsers |-> NoReq]
    /\ worker = [w \in Workers |-> Idle]
    /\ reader = 0
    /\ tokens = 0 /\ looks = 0

Free == {s \in Sessions : row[s].state = "none"}
Smallest(S) == CHOOSE x \in S : \A y \in S : x <= y
Ended == {"expired", "cleaning", "deleted", "failed"}

---------------------------------------------------------------------------
(* Requests. *)

(* create_session: the owner has no live session; read the occupied slots. *)
ReadSlots(b) ==
    /\ req[b].step = "idle" /\ Free # {}
    /\ \A s \in Sessions : row[s].owner = b => row[s].state \in Ended
    /\ req' = [req EXCEPT ![b] = [step |-> "insert",
                 occupied |-> {row[s].slot : s \in {s \in Sessions : row[s].slot # 0}}]]
    /\ UNCHANGED <<row, worker, reader, tokens, looks>>

(* Try the next slot it believes free.  The unique constraint decides; a     *)
(* loser goes on to another, and without any left the request is refused.    *)
create_session(b) ==
    /\ req[b].step = "insert"
    /\ LET left == Slots \ req[b].occupied
           k == Smallest(left)
       IN IF left = {} \/ Free = {}
          THEN req' = [req EXCEPT ![b] = NoReq] /\ UNCHANGED row
          ELSE IF \E s \in Sessions : row[s].slot = k
          THEN req' = [req EXCEPT ![b].occupied = @ \cup {k}] /\ UNCHANGED row
          ELSE /\ row' = [row EXCEPT ![Smallest(Free)] =
                            [NoRow EXCEPT !.state = "provisioning", !.owner = b, !.slot = k]]
               /\ req' = [req EXCEPT ![b] = NoReq]
    /\ UNCHANGED <<worker, reader, tokens, looks>>

(* A status or open request reads an active session that is due ... *)
status_context(s) ==
    /\ reader = 0 /\ looks < MaxLooks
    /\ row[s].state = "active"
    /\ reader' = s /\ looks' = looks + 1
    /\ UNCHANGED <<row, req, worker, tokens>>

(* ... and writes expired, whatever the row says by then. *)
expire_if_due ==
    /\ reader # 0
    /\ row' = [row EXCEPT ![reader].state = "expired"]
    /\ reader' = 0
    /\ UNCHANGED <<req, worker, tokens, looks>>

---------------------------------------------------------------------------
(* A worker. *)

(* Nobody is between a read and an unconditional write of the session. *)
Undisturbed(s) == StaleWrites \/ (reader # s /\ \A w \in Workers :
                                    ~(worker[w].step = "fail" /\ worker[w].s = s))

claim(w, s) ==
    /\ worker[w].step = "idle" /\ tokens < MaxClaims /\ Undisturbed(s)
    /\ row[s].state = "provisioning" /\ ~row[s].leased
    /\ tokens' = tokens + 1
    /\ row' = [row EXCEPT ![s].claimed_by = w, ![s].token = tokens', ![s].leased = TRUE]
    /\ worker' = [worker EXCEPT ![w] = [step |-> "run", s |-> s, at |-> row[s].at,
                                        token |-> tokens']]
    /\ UNCHANGED <<req, reader, looks>>

Holds(w) == /\ row[worker[w].s].claimed_by = w
            /\ row[worker[w].s].token = worker[w].token

(* _fake_step: the runtime's call works, or raises. *)
_fake_step(w) ==
    /\ worker[w].step = "run"
    /\ \E then \in {"advance", "raised"} : worker' = [worker EXCEPT ![w].step = then]
    /\ UNCHANGED <<row, req, reader, tokens, looks>>

(* Mutant: the lease and the state are not part of the update's condition. *)
AdvanceUnguarded(w) ==
    /\ worker[w].step = "advance"
    /\ LET s == worker[w].s
           last == worker[w].at = Steps - 1
       IN /\ row' = [row EXCEPT ![s].state = IF last THEN "active" ELSE @,
                                ![s].at = IF last THEN @ ELSE worker[w].at + 1]
          /\ worker' = [worker EXCEPT ![w].step = IF last THEN "clear" ELSE "renew",
                                      ![w].at = row'[s].at]
    /\ UNCHANGED <<req, reader, tokens, looks>>

(* _advance: one conditional update on the copy's state, the holder, the     *)
(* token and a lease that has not run out.                                   *)
_advance(w) ==
    /\ worker[w].step = "advance"
    /\ LET s == worker[w].s
           held == /\ Holds(w) /\ row[s].leased
                   /\ row[s].state = "provisioning" /\ row[s].at = worker[w].at
           last == worker[w].at = Steps - 1
       IN IF ~held
          THEN worker' = [worker EXCEPT ![w].step = "raised"] /\ UNCHANGED row
          ELSE /\ row' = [row EXCEPT ![s].state = IF last THEN "active" ELSE @,
                                     ![s].at = IF last THEN @ ELSE @ + 1]
               /\ worker' = [worker EXCEPT ![w].step = IF last THEN "clear" ELSE "renew",
                                           ![w].at = row'[s].at]
    /\ UNCHANGED <<req, reader, tokens, looks>>

renew_lease(w) ==
    /\ worker[w].step = "renew"
    /\ worker' = [worker EXCEPT ![w].step = IF Holds(w) /\ row[worker[w].s].leased
                                            THEN "run" ELSE "raised"]
    /\ UNCHANGED <<row, req, reader, tokens, looks>>

(* The exception handler reads the row again; a worker that lost the session *)
(* leaves it alone ...                                                       *)
RefreshAfterError(w) ==
    /\ worker[w].step = "raised"
    /\ worker' = [worker EXCEPT ![w] =
                    IF Holds(w) /\ row[worker[w].s].state = "provisioning"
                    THEN [@ EXCEPT !.step = "fail"] ELSE Idle]
    /\ UNCHANGED <<row, req, reader, tokens, looks>>

(* ... and the holder writes failed, without a condition. *)
FailSession(w) ==
    /\ worker[w].step = "fail"
    /\ row' = [row EXCEPT ![worker[w].s].state = "failed", ![worker[w].s].claimed_by = "none",
                          ![worker[w].s].token = 0, ![worker[w].s].leased = FALSE]
    /\ worker' = [worker EXCEPT ![w] = Idle]
    /\ UNCHANGED <<req, reader, tokens, looks>>

(* The end of run_fake_or_runtime clears the lease, without a condition. *)
run_fake_or_runtime(w) ==
    /\ worker[w].step = "clear"
    /\ row' = [row EXCEPT ![worker[w].s].claimed_by = "none", ![worker[w].s].token = 0,
                          ![worker[w].s].leased = FALSE]
    /\ worker' = [worker EXCEPT ![w] = Idle]
    /\ UNCHANGED <<req, reader, tokens, looks>>

WorkerCrash(w) ==
    /\ worker[w].step # "idle"
    /\ worker' = [worker EXCEPT ![w] = Idle]
    /\ UNCHANGED <<row, req, reader, tokens, looks>>

LeaseExpires(s) ==
    /\ row[s].leased
    /\ row' = [row EXCEPT ![s].leased = FALSE]
    /\ UNCHANGED <<req, worker, reader, tokens, looks>>

---------------------------------------------------------------------------
(* Clean-up. *)

request_cleanup(s) ==
    /\ Undisturbed(s) /\ row[s].state \in {"expired", "failed"}
    /\ row' = [row EXCEPT ![s].state = "cleaning"]
    /\ UNCHANGED <<req, worker, reader, tokens, looks>>

(* cleanup_owned_artifacts, then deleted and the slot back in one commit. *)
finish_cleanup(s) ==
    /\ row[s].state = "cleaning"
    /\ row' = [row EXCEPT ![s].state = "deleted", ![s].slot = 0]
    /\ UNCHANGED <<req, worker, reader, tokens, looks>>

---------------------------------------------------------------------------

WorkerStep(w) ==
    \/ \E s \in Sessions : claim(w, s)
    \/ _fake_step(w) \/ _advance(w) \/ renew_lease(w) \/ RefreshAfterError(w)
    \/ FailSession(w) \/ run_fake_or_runtime(w)

Next ==
    \/ \E b \in Browsers : ReadSlots(b) \/ create_session(b)
    \/ \E s \in Sessions : \/ status_context(s) \/ LeaseExpires(s)
                           \/ request_cleanup(s) \/ finish_cleanup(s)
    \/ expire_if_due
    \/ \E w \in Workers : WorkerStep(w) \/ WorkerCrash(w)

Spec == Init /\ [][Next]_vars

---------------------------------------------------------------------------

TypeOK ==
    /\ row \in [Sessions -> [state : {"none", "provisioning", "active"} \cup Ended,
                             at : 0 .. Steps - 1, owner : Browsers \cup {"none"},
                             slot : 0 .. MaxSlots, claimed_by : Workers \cup {"none"},
                             token : 0 .. MaxClaims, leased : BOOLEAN]]
    /\ reader \in 0 .. MaxSessions
    /\ \A w \in Workers : worker[w].s \in 0 .. MaxSessions /\ worker[w].at \in 0 .. Steps - 1
    /\ \A b \in Browsers : req[b].occupied \subseteq Slots

(* The promise of a session, kept by leased workers, concurrent requests and *)
(* clean-ups (create_session, _advance, request_cleanup).                    *)
Promise == INSTANCE DemoSession WITH
              stage <- [s \in Sessions |-> row[s].state],
              slot <- [s \in Sessions |-> row[s].slot]
KeepsPromise == Promise!Spec
===============================================================================
