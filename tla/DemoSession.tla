------------------------------- MODULE DemoSession -------------------------------
(***************************************************************************)
(* What the Quick Demo promises of a session: it holds a runtime slot of   *)
(* its own from its request until its artifacts are deleted, it is served  *)
(* once, and it never comes back from an end.  Who provisions it, under    *)
(* which lease and after how many crashes is not part of the promise.      *)
(***************************************************************************)
EXTENDS Integers

CONSTANTS Sessions, Slots

VARIABLES
    stage,      \* where each session is
    slot        \* its runtime slot, 0 when it has none

vars == <<stage, slot>>

Stages == {"none", "provisioning", "active", "expired", "failed", "cleaning", "deleted"}

Init ==
    /\ stage = [s \in Sessions |-> "none"]
    /\ slot = [s \in Sessions |-> 0]

(* A request gets a slot nobody holds. *)
Open(s, k) ==
    /\ stage[s] = "none" /\ \A t \in Sessions : slot[t] # k
    /\ stage' = [stage EXCEPT ![s] = "provisioning"]
    /\ slot' = [slot EXCEPT ![s] = k]

Leads(from, to) ==
    <<from, to>> \in {<<"provisioning", "active">>, <<"provisioning", "failed">>,
                      <<"active", "expired">>, <<"expired", "cleaning">>,
                      <<"failed", "cleaning">>}

Advance(s, to) ==
    /\ Leads(stage[s], to)
    /\ stage' = [stage EXCEPT ![s] = to]
    /\ UNCHANGED slot

(* Only the deletion gives the slot back. *)
Delete(s) ==
    /\ stage[s] = "cleaning"
    /\ stage' = [stage EXCEPT ![s] = "deleted"]
    /\ slot' = [slot EXCEPT ![s] = 0]

Next ==
    \E s \in Sessions :
        \/ \E k \in Slots : Open(s, k)
        \/ \E to \in Stages : Advance(s, to)
        \/ Delete(s)

Spec == Init /\ [][Next]_vars
===============================================================================
