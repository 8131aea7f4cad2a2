-------------------------------- MODULE MCEntry --------------------------------
(* The ways in, checked side by side: a customer's accounts (part            *)
(* "accounts"), the set-up that becomes an order (part "setup") and the      *)
(* Quick Demo sessions of visitors (part "demo").  They share no state but   *)
(* the signed-in user, so only one takes steps.                              *)
EXTENDS Integers, TLC

CONSTANTS Users, Readers, MaxSetups, MaxKeys, MaxPosts, MaxPlans,
          Emails, Subjects, Browsers, MaxUsers, MaxGithub, _LOGIN_MAX_ATTEMPTS,
          MaxSessions, MaxSlots, Workers, Steps, StaleWrites, MaxClaims, MaxLooks

VARIABLES part, setup, order, owner, session, proc, posts, plans,
          users, identity, first, txn, flow, attempts, signedIn,
          row, req, worker, reader, tokens, looks

Setup    == INSTANCE CloudSetup
Accounts == INSTANCE CloudAccounts
Demo     == INSTANCE QuickDemo

ASSUME EntryBounds == Setup!SetupAssumption

setupVars    == <<setup, order, owner, session, proc, posts, plans>>
accountsVars == <<users, identity, first, txn, flow, attempts, signedIn>>
demoVars     == <<row, req, worker, reader, tokens, looks>>

Init == part \in {"setup", "accounts", "demo"} /\ Setup!Init /\ Accounts!Init /\ Demo!Init

Next ==
    \/ part = "setup" /\ Setup!Next /\ UNCHANGED <<part, accountsVars, demoVars>>
    \/ part = "accounts" /\ Accounts!Next /\ UNCHANGED <<part, setupVars, demoVars>>
    \/ part = "demo" /\ Demo!Next /\ UNCHANGED <<part, setupVars, accountsVars>>

Spec == Init /\ [][Next]_<<part, setupVars, accountsVars, demoVars>>

Symmetry == Permutations(Users) \cup Permutations(Emails) \cup Permutations(Workers)
              \cup Permutations(Subjects) \cup Permutations(Browsers)

(* Two set-ups never ask for the same workspace address (subdomain_taken). *)
SubdomainsDistinct == Setup!SubdomainsDistinct

(* An order never holds more users than its plan allows (review_snapshot). *)
OrderWithinPlan == Setup!OrderWithinPlan

(* A Google account opens only an account of the e-mail Google verified      *)
(* (authenticate_google_customer).                                           *)
IdentityIsOwn == Accounts!IdentityIsOwn

(* Quick Demo keeps the promise of DemoSession (create_session, _advance,    *)
(* request_cleanup).                                                         *)
KeepsPromise == Demo!KeepsPromise

================================================================================
