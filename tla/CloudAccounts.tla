----------------------------- MODULE CloudAccounts -----------------------------
(***************************************************************************)
(* Signing in: an e-mail and password account (register, login), a Google  *)
(* account (the OpenID callback) and a GitHub developer account meet in    *)
(* one users table, whose e-mail is indexed but not unique.  Sources:      *)
(* cloud_auth_service, cloud_google_oauth, auth/session, the handlers of   *)
(* api/cloud.py and main.py, upsert_github_user.                           *)
(*                                                                         *)
(* register and login are POSTs, one at a time on the event loop; the two  *)
(* callbacks run on threads and leave time between lookup and insert.      *)
(***************************************************************************)
EXTENDS Integers, FiniteSets

CONSTANTS
    Emails,       \* e-mail addresses
    Subjects,     \* Google accounts
    Browsers,     \* sessions, each with its cookie
    MaxUsers,     \* bound: rows of users
    MaxGithub,    \* bound: GitHub sign-ins
    _LOGIN_MAX_ATTEMPTS   \* attempts a client has per window

Ids   == 1 .. MaxUsers
Row   == [email : Emails, password : BOOLEAN, github : BOOLEAN,
          auth_provider : {"email", "google", "github", "both"}]
None  == "none"

(* provider_identities: the user of each Google subject, 0 when there is none. *)
Identities == [Subjects -> {0} \cup Ids]

VARIABLES
    users,      \* rows of users, by id; a function on the ids in use
    identity,   \* provider_identities: user of each Google subject, 0 when none
    first,      \* history: the verified e-mail a subject was linked with
    txn,        \* OAuth transaction (state, nonce, verifier) in each cookie
    flow,       \* what each browser's request is doing
    attempts,   \* sign-in attempts of each browser's client in the window
    signedIn    \* user each browser is signed in as, 0 for none

vars == <<users, identity, first, txn, flow, attempts, signedIn>>

Idle == [pc |-> "idle", s |-> None, e |-> None, u |-> 0]

Init ==
    /\ users = [i \in {} |-> None]
    /\ identity = [s \in Subjects |-> 0]
    /\ first = [s \in Subjects |-> None]
    /\ txn = [b \in Browsers |-> FALSE]
    /\ flow = [b \in Browsers |-> Idle]
    /\ attempts = [b \in Browsers |-> 0]
    /\ signedIn = [b \in Browsers |-> 0]

-----------------------------------------------------------------------------
Owners(e) == {i \in DOMAIN users : users[i].email = e}

(* db.scalar takes the first of several rows. *)
ByEmail(e) == IF Owners(e) = {} THEN 0
              ELSE CHOOSE i \in Owners(e) : \A j \in Owners(e) : i <= j

NewId == Cardinality(DOMAIN users) + 1

Insert(row) ==
    /\ NewId \in Ids
    /\ users' = [i \in DOMAIN users \cup {NewId} |->
                   IF i = NewId THEN row ELSE users[i]]

(* Signing in replaces the session, an unfinished transaction included. *)
login_user(b, u) ==
    /\ signedIn' = [signedIn EXCEPT ![b] = u]
    /\ flow' = [flow EXCEPT ![b] = Idle]
    /\ txn' = [txn EXCEPT ![b] = FALSE]

Refuse(b) == flow' = [flow EXCEPT ![b] = Idle] /\ UNCHANGED <<signedIn, txn>>

(* The window of the rate limit passes. *)
WindowOver(b) ==
    /\ attempts[b] > 0
    /\ attempts' = [attempts EXCEPT ![b] = 0]
    /\ UNCHANGED <<users, identity, first, txn, flow, signedIn>>

(* Mutant: one attempt more than the limit. *)
RateLimitOffByOne(b) ==
    /\ attempts[b] <= _LOGIN_MAX_ATTEMPTS
    /\ attempts' = [attempts EXCEPT ![b] = @ + 1]

(* Refused attempts are not counted. *)
_rate_limit(b) ==
    /\ attempts[b] < _LOGIN_MAX_ATTEMPTS
    /\ attempts' = [attempts EXCEPT ![b] = @ + 1]

-----------------------------------------------------------------------------
(* Lookup, hashing of the password and insert: the event loop is held, but a *)
(* callback's commit may fall between lookup and insert.                     *)
LoopFree == \A b \in Browsers : flow[b].pc # "register"

register_cloud_customer(b, e) ==
    /\ flow[b].pc = "idle" /\ LoopFree /\ _rate_limit(b)
    /\ IF ByEmail(e) # 0
       THEN UNCHANGED flow
       ELSE flow' = [flow EXCEPT ![b] = [Idle EXCEPT !.pc = "register", !.e = e]]
    /\ UNCHANGED <<users, identity, first, txn, signedIn>>

InsertCustomer(b) ==
    /\ flow[b].pc = "register"
    /\ Insert([email |-> flow[b].e, password |-> TRUE, github |-> FALSE,
               auth_provider |-> "email"])
    /\ login_user(b, NewId)
    /\ UNCHANGED <<identity, first, attempts>>

(* The right password of the first account with this e-mail. *)
authenticate_cloud_customer(u) ==
    /\ u # 0 /\ users[u].password
    /\ users' = [users EXCEPT ![u].auth_provider =
                   IF @ = "github" THEN "both" ELSE @]

cloud_login_post(b, e) ==
    /\ flow[b].pc = "idle" /\ LoopFree /\ _rate_limit(b)
    /\ authenticate_cloud_customer(ByEmail(e))
    /\ login_user(b, ByEmail(e))
    /\ UNCHANGED <<identity, first>>

logout_user(b) ==
    /\ flow[b].pc = "idle" /\ signedIn[b] # 0
    /\ signedIn' = [signedIn EXCEPT ![b] = 0]
    /\ txn' = [txn EXCEPT ![b] = FALSE]
    /\ UNCHANGED <<users, identity, first, flow, attempts>>

-----------------------------------------------------------------------------
(* Google: the transaction in the cookie is spent by the callback whether or *)
(* not it succeeds.                                                          *)
set_google_oauth_transaction(b) == txn' = [txn EXCEPT ![b] = TRUE]
pop_google_oauth_transaction(b) == txn' = [txn EXCEPT ![b] = FALSE]

cloud_google_auth_start(b) ==
    /\ flow[b].pc = "idle" /\ ~txn[b]
    /\ set_google_oauth_transaction(b)
    /\ UNCHANGED <<users, identity, first, flow, attempts, signedIn>>

(* The callback with the claims (subject, verified e-mail) of an ID token    *)
(* whose signature, audience, expiry and nonce hold; or a refused one.       *)
cloud_google_auth_callback(b) ==
    /\ flow[b].pc = "idle" /\ txn[b]
    /\ pop_google_oauth_transaction(b)
    /\ \/ \E s \in Subjects, e \in Emails :
            flow' = [flow EXCEPT ![b] = [Idle EXCEPT !.pc = "lookup", !.s = s, !.e = e]]
       \/ UNCHANGED flow
    /\ UNCHANGED <<users, identity, first, attempts, signedIn>>

LinkedElsewhere(u, s) == \E t \in Subjects \ {s} : identity[t] = u

(* Mutant: any account with the verified e-mail is linked. *)
LinksAnyAccount(u, s) == ~LinkedElsewhere(u, s)

(* Only an account with a password is linked by its e-mail. *)
MayLink(u, s) == users[u].password /\ ~LinkedElsewhere(u, s)

(* An identity signs in; an account with a password is to be linked; any     *)
(* other account with this e-mail refuses; otherwise an account is to be     *)
(* created.                                                                  *)
authenticate_google_customer(b) ==
    LET s == flow[b].s
        u == ByEmail(flow[b].e) IN
    /\ flow[b].pc = "lookup"
    /\ IF identity[s] # 0 THEN login_user(b, identity[s])
       ELSE IF u = 0
            THEN flow' = [flow EXCEPT ![b].pc = "create"] /\ UNCHANGED <<signedIn, txn>>
       ELSE IF MayLink(u, s)
            THEN /\ flow' = [flow EXCEPT ![b].pc = "link", ![b].u = u]
                 /\ UNCHANGED <<signedIn, txn>>
       ELSE Refuse(b)
    /\ UNCHANGED <<users, identity, first, attempts>>

(* UNIQUE (provider, subject) refuses the second of two inserts. *)
link_provider_identity(b) ==
    LET s == flow[b].s
        u == flow[b].u IN
    /\ flow[b].pc = "link"
    /\ IF identity[s] # 0
       THEN /\ IF identity[s] = u THEN login_user(b, u) ELSE Refuse(b)
            /\ UNCHANGED <<identity, first>>
       ELSE IF ByEmail(flow[b].e) # u
            THEN Refuse(b) /\ UNCHANGED <<identity, first>>
       ELSE /\ identity' = [identity EXCEPT ![s] = u]
            /\ first' = [first EXCEPT ![s] = flow[b].e]
            /\ login_user(b, u)
    /\ UNCHANGED <<users, attempts>>

(* User and identity in one commit; the loser of a race signs in as the      *)
(* winner's user.                                                            *)
CreateGoogleCustomer(b) ==
    LET s == flow[b].s IN
    /\ flow[b].pc = "create"
    /\ IF identity[s] # 0
       THEN login_user(b, identity[s]) /\ UNCHANGED <<users, identity, first>>
       ELSE /\ Insert([email |-> flow[b].e, password |-> FALSE, github |-> FALSE,
                       auth_provider |-> "google"])
            /\ identity' = [identity EXCEPT ![s] = NewId]
            /\ first' = [first EXCEPT ![s] = flow[b].e]
            /\ login_user(b, NewId)
    /\ UNCHANGED attempts

(* A GitHub account is found by its id, or inserted, and takes the e-mail of *)
(* the profile.                                                              *)
upsert_github_user(b, e) ==
    LET github == {i \in DOMAIN users : users[i].github} IN
    /\ \/ /\ Cardinality(github) < MaxGithub
          /\ Insert([email |-> e, password |-> FALSE, github |-> TRUE,
                     auth_provider |-> "github"])
          /\ login_user(b, NewId)
       \/ \E i \in github : /\ users' = [users EXCEPT ![i].email = e]
                             /\ login_user(b, i)
    /\ UNCHANGED <<identity, first, attempts>>

github_oauth_callback(b, e) == flow[b].pc = "idle" /\ upsert_github_user(b, e)

Next ==
    \E b \in Browsers :
       \/ WindowOver(b)
       \/ \E e \in Emails : register_cloud_customer(b, e)
       \/ InsertCustomer(b)
       \/ \E e \in Emails : cloud_login_post(b, e)
       \/ logout_user(b)
       \/ cloud_google_auth_start(b)
       \/ cloud_google_auth_callback(b)
       \/ authenticate_google_customer(b)
       \/ link_provider_identity(b)
       \/ CreateGoogleCustomer(b)
       \/ \E e \in Emails : github_oauth_callback(b, e)

Spec == Init /\ [][Next]_vars

-----------------------------------------------------------------------------
(* Every variable holds a value of its type, and a browser is signed in as a *)
(* user that exists.                                                         *)
TypeOK ==
    /\ DOMAIN users \subseteq Ids /\ \A i \in DOMAIN users : users[i] \in Row
    /\ identity \in Identities
    /\ \A s \in Subjects : identity[s] \in {0} \cup DOMAIN users
    /\ first \in [Subjects -> Emails \cup {None}]
    /\ txn \in [Browsers -> BOOLEAN]
    /\ \A b \in Browsers :
         flow[b].pc \in {"idle", "register", "lookup", "link", "create"}
    /\ attempts \in [Browsers -> 0 .. _LOGIN_MAX_ATTEMPTS]
    /\ signedIn \in [Browsers -> {0} \cup DOMAIN users]

(* A Google account opens only an account of the e-mail Google verified when *)
(* the two were linked, and never one that only GitHub signs in to.          *)
IdentityIsOwn ==
    \A s \in Subjects : identity[s] # 0 =>
        /\ users[identity[s]].email = first[s]
        /\ users[identity[s]].password \/ ~users[identity[s]].github

(* The docstring of authenticate_google_customer: no second account for an   *)
(* e-mail that belongs to an account with a password.                        *)
OneAccountPerEmail ==
    \A i, j \in DOMAIN users :
        /\ i # j /\ users[i].email = users[j].email
        /\ users[i].password /\ users[j].auth_provider = "google"
        => FALSE

===============================================================================
