------------------------------ MODULE Sessions ------------------------------
(***************************************************************************)
(* Authentication: the key set that verifies a sign-in's token (package    *)
(* auth/google), the account a sign-in provisions and the principal of a   *)
(* request (package auth), and the sessions in Redis (package              *)
(* auth/session), which concurrent requests read, extend and delete.       *)
(*                                                                         *)
(* A request takes a step per query or call.  Time is a number of ticks.   *)
(***************************************************************************)
EXTENDS Integers, FiniteSets

CONSTANTS
    None,
    Requests,     \* the requests that may arrive
    Seeded,       \* the accounts an operator has created: [id, subject, email]
    Identities,   \* the Google accounts: [subject, email]
    Allowed,      \* the emails that match the allowlist
    Kids,         \* the key ids that Google may publish
    MaxUsers,     \* bound on the accounts
    Idle, Max,    \* how long a session lives unused, and at most
    MaxAge, MinRefetch,
    LastTick      \* bound on the time

(* The accounts there may be. *)
Accounts ==
    [id      : {u.id : u \in Seeded} \cup Requests,
     subject : {u.subject : u \in Seeded} \cup {i.subject : i \in Identities},
     email   : {u.email : u \in Seeded} \cup {i.email : i \in Identities}]

ASSUME SessionsAssumption ==
    /\ Seeded \subseteq Accounts
    /\ \A i \in Identities : i.subject # None
    /\ Idle \in Nat \ {0} /\ Max \in Nat /\ Max >= Idle
    /\ MaxAge \in Nat \ {0} /\ MinRefetch \in Nat
    /\ LastTick \in Nat

VARIABLES
    now,
    published,    \* the key Google signs with
    retired,      \* history: when each key was last published
    keyset,       \* [keys, fresh, fetched, lock]
    users,        \* the accounts: [id, subject, email]
    store,        \* the session each request created: [user, created, expires]
    reqs,         \* where each request is
    ended,        \* history: the sessions that a sign-out ended
    revived,      \* history: those that a request in flight then wrote back
    lost          \* history: an account was deleted, or bound to another subject

vars == <<now, published, retired, keyset, users, store, reqs, ended, revived, lost>>

Fresh == [pc |-> "idle", id |-> None, kid |-> None, user |-> None, sess |-> None, val |-> None,
          out |-> FALSE, at |-> 0, since |-> 0, again |-> FALSE]

Init ==
    /\ now = 0
    /\ published \in Kids
    /\ retired = [k \in Kids |-> None]
    /\ keyset = [keys |-> {}, fresh |-> 0, fetched |-> 0 - MinRefetch, lock |-> None]
    /\ users = Seeded
    /\ store = [r \in Requests |-> None]
    /\ reqs = [r \in Requests |-> Fresh]
    /\ ended = {}
    /\ revived = {}
    /\ lost = FALSE

(* Request r ends, with nothing left to remember but how. *)
End(r, pc) == reqs' = [reqs EXCEPT ![r] = [Fresh EXCEPT !.pc = pc]]

-----------------------------------------------------------------------------
(* SignIn: the token's key, the account and the session. *)

SignIn(r, id, kid) ==
    /\ reqs[r].pc = "idle"
    /\ reqs' = [reqs EXCEPT ![r].pc = "key", ![r].id = id, ![r].kid = kid]
    /\ UNCHANGED <<now, published, retired, keyset, users, store, ended, revived, lost>>

\* Mutant: a key in the set serves although the set is stale.
Serves_Stale(kid) == kid \in keyset.keys

(* Whether the cached key serves the token. *)
Serves(kid) == kid \in keyset.keys /\ now < keyset.fresh

(* Whether an unknown key is refused without a fetch. *)
Recent == now < keyset.fresh /\ now - keyset.fetched < MinRefetch

(* The lock is held across the fetch, so requests wait rather than fetch   *)
(* in parallel.                                                            *)
key(r) ==
    /\ reqs[r].pc = "key"
    /\ keyset.lock = None
    /\ \/ /\ Serves(reqs[r].kid)
          /\ reqs' = [reqs EXCEPT ![r].pc = "subject", ![r].at = now]
          /\ UNCHANGED keyset
       \/ /\ ~Serves(reqs[r].kid) /\ Recent
          /\ reqs' = [reqs EXCEPT ![r] = [Fresh EXCEPT !.pc = "unknown_key", !.at = now,
                                           !.since = keyset.fetched, !.out = reqs[r].kid = published]]
          /\ UNCHANGED keyset
       \/ /\ ~Serves(reqs[r].kid) /\ ~Recent
          /\ reqs' = [reqs EXCEPT ![r].pc = "fetch", ![r].since = now]
          /\ keyset' = [keyset EXCEPT !.fetched = now, !.lock = r]
    /\ UNCHANGED <<now, published, retired, users, store, ended, revived, lost>>

(* The answer holds the published key, and is fresh from the moment the    *)
(* fetch began.                                                            *)
fetch(r) ==
    /\ reqs[r].pc = "fetch"
    /\ \/ /\ keyset' = [keyset EXCEPT !.keys = {published}, !.fresh = reqs[r].since + MaxAge, !.lock = None]
          /\ IF reqs[r].kid = published
                THEN reqs' = [reqs EXCEPT ![r].pc = "subject", ![r].at = now, ![r].since = 0]
                ELSE End(r, "unknown_key")
       \/ /\ keyset' = [keyset EXCEPT !.lock = None]
          /\ End(r, "refused")
    /\ UNCHANGED <<now, published, retired, users, store, ended, revived, lost>>

(* The account of the sign-in is user. *)
Found(r, user) == reqs' = [reqs EXCEPT ![r] = [Fresh EXCEPT !.pc = "session", !.user = user]]

(* lookup: by Google subject, else by email, which binds the subject. *)
GetUserByGoogleSubject(r) ==
    /\ reqs[r].pc = "subject"
    /\ LET found == {u \in users : u.subject = reqs[r].id.subject} IN
        \/ \E u \in found : Found(r, u.id)
        \/ found = {} /\ reqs' = [reqs EXCEPT ![r].pc = "email", ![r].kid = None, ![r].at = 0]
    /\ UNCHANGED <<now, published, retired, keyset, users, store, ended, revived, lost>>

(* Where a lookup that finds no account leads. *)
NotFound(r) ==
    IF reqs[r].again THEN End(r, "no_account")
    ELSE IF reqs[r].id.email \in Allowed THEN reqs' = [reqs EXCEPT ![r].pc = "create", ![r].user = None]
    ELSE End(r, "refused")

GetUserByEmail(r) ==
    /\ reqs[r].pc = "email"
    /\ LET found == {u \in users : u.email = reqs[r].id.email} IN
        \/ \E u \in found : reqs' = [reqs EXCEPT ![r].pc = "bind", ![r].user = u.id]
        \/ found = {} /\ NotFound(r)
    /\ UNCHANGED <<now, published, retired, keyset, users, store, ended, revived, lost>>

(* The account's row takes the subject, whatever it had, unless another    *)
(* account has it.  A row that is gone reads as no account found.          *)
BindGoogleSubject(r) ==
    /\ reqs[r].pc = "bind"
    /\ LET subject == reqs[r].id.subject
           row == {u \in users : u.id = reqs[r].user}
           taken == \E u \in users \ row : u.subject = subject
       IN  \/ /\ row # {} /\ ~taken
              /\ users' = (users \ row) \cup {[u EXCEPT !.subject = subject] : u \in row}
              /\ lost' = (lost \/ \E u \in row : u.subject \notin {None, subject})
              /\ Found(r, reqs[r].user)
           \/ /\ row # {} /\ taken
              /\ End(r, "refused")
              /\ UNCHANGED <<users, lost>>
           \/ /\ row = {}
              /\ NotFound(r)
              /\ UNCHANGED <<users, lost>>
    /\ UNCHANGED <<now, published, retired, keyset, store, ended, revived>>

(* A sign-in of the same identity may have created the account since, so a *)
(* conflict looks it up again.                                             *)
CreateUser(r) ==
    /\ reqs[r].pc = "create"
    /\ LET id == reqs[r].id
           taken == \E u \in users : u.subject = id.subject \/ u.email = id.email
       IN  \/ /\ ~taken /\ Cardinality(users) < MaxUsers
              /\ users' = users \cup {[id |-> r, subject |-> id.subject, email |-> id.email]}
              /\ Found(r, r)
           \/ /\ taken
              /\ reqs' = [reqs EXCEPT ![r].pc = "subject", ![r].again = TRUE]
              /\ UNCHANGED users
    /\ UNCHANGED <<now, published, retired, keyset, store, ended, revived, lost>>

Create(r) ==
    /\ reqs[r].pc = "session"
    /\ store' = [store EXCEPT ![r] = [user |-> reqs[r].user, created |-> now, expires |-> now + Idle]]
    /\ End(r, "signed_in")
    /\ UNCHANGED <<now, published, retired, keyset, users, ended, revived, lost>>

-----------------------------------------------------------------------------
(* Authenticate, which every other request passes, and SignOut. *)

(* Get reads the record of session s, which some request created. *)
Get(r, s) ==
    /\ reqs[r].pc = "idle"
    /\ reqs[s].pc = "signed_in"
    /\ \/ store[s] = None /\ End(r, "refused")
       \/ /\ store[s] # None
          /\ reqs' = [reqs EXCEPT ![r].pc = "got", ![r].sess = s, ![r].val = store[s], ![r].out = s \in ended]
    /\ UNCHANGED <<now, published, retired, keyset, users, store, ended, revived, lost>>

Earlier(a, b) == IF a < b THEN a ELSE b

(* Get deletes an expired session, or extends it by what it read. *)
Extend(r) ==
    /\ reqs[r].pc = "got"
    /\ LET val == reqs[r].val
           limit == val.created + Max
           exp == Earlier(now + Idle, limit)
           s == reqs[r].sess
       IN  \/ /\ now >= limit \/ now >= val.expires
              /\ store' = [store EXCEPT ![s] = None]
              /\ End(r, "refused")
              /\ UNCHANGED revived
           \/ /\ now < limit /\ now < val.expires
              /\ store' = IF exp > val.expires THEN [store EXCEPT ![s] = [val EXCEPT !.expires = exp]] ELSE store
              /\ revived' = IF exp > val.expires /\ s \in ended /\ ~reqs[r].out THEN revived \cup {s} ELSE revived
              /\ reqs' = [reqs EXCEPT ![r].pc = "user", ![r].at = now]
    /\ UNCHANGED <<now, published, retired, keyset, users, ended, lost>>

(* The user is read on every request.  The session of a user who is gone   *)
(* is deleted.                                                             *)
Authenticate(r) ==
    /\ reqs[r].pc = "user"
    /\ \/ /\ \E u \in users : u.id = reqs[r].val.user
          /\ reqs' = [reqs EXCEPT ![r].pc = "served"]
          /\ UNCHANGED store
       \/ /\ \A u \in users : u.id # reqs[r].val.user
          /\ store' = [store EXCEPT ![reqs[r].sess] = None]
          /\ End(r, "refused")
    /\ UNCHANGED <<now, published, retired, keyset, users, ended, revived, lost>>

\* Mutant: only the cookie is expired.
Delete_Cookie(s) == store' = store

Delete(s) == store' = [store EXCEPT ![s] = None]

(* The request that was served is a sign-out. *)
SignOut(r) ==
    /\ reqs[r].pc = "served"
    /\ Delete(reqs[r].sess)
    /\ End(r, "signed_out")
    /\ ended' = ended \cup {reqs[r].sess}
    /\ UNCHANGED <<now, published, retired, keyset, users, revived, lost>>

-----------------------------------------------------------------------------
(* What happens beside the requests. *)

Tick ==
    /\ now < LastTick
    /\ now' = now + 1
    /\ UNCHANGED <<published, retired, keyset, users, store, reqs, ended, revived, lost>>

(* Redis drops a record whose time to live has passed. *)
Expire(s) ==
    /\ store[s] # None
    /\ now >= store[s].expires
    /\ store' = [store EXCEPT ![s] = None]
    /\ UNCHANGED <<now, published, retired, keyset, users, reqs, ended, revived, lost>>

(* Google publishes another key. *)
Rotate ==
    /\ \E k \in Kids \ {published} :
        /\ retired[k] = None
        /\ published' = k
        /\ retired' = [retired EXCEPT ![published] = now]
    /\ UNCHANGED <<now, keyset, users, store, reqs, ended, revived, lost>>

(* An operator deletes an account, while none was lost: a bound. *)
RemoveUser(u) ==
    /\ ~lost
    /\ users' = users \ {u}
    /\ lost' = TRUE
    /\ UNCHANGED <<now, published, retired, keyset, store, reqs, ended, revived>>

Next ==
    \/ \E r \in Requests :
        \/ \E id \in Identities, kid \in Kids : SignIn(r, id, kid)
        \/ key(r)
        \/ fetch(r)
        \/ GetUserByGoogleSubject(r)
        \/ GetUserByEmail(r)
        \/ BindGoogleSubject(r)
        \/ CreateUser(r)
        \/ Create(r)
        \/ \E s \in Requests : Get(r, s)
        \/ Extend(r)
        \/ Authenticate(r)
        \/ SignOut(r)
        \/ Expire(r)
    \/ Tick
    \/ Rotate
    \/ \E u \in users : RemoveUser(u)

Spec == Init /\ [][Next]_vars

-----------------------------------------------------------------------------
(* Properties *)

(* A sign-out ends the session for every request that comes after it,      *)
(* unless a request that had read the session before the sign-out wrote it *)
(* back after it (session.go Get and Delete); and no session, written back *)
(* or not, serves a request Max after it was created.                      *)
SessionsEnd ==
    /\ \A s \in ended : store[s] # None => s \in revived
    /\ \A r \in Requests : reqs[r].pc \in {"user", "served"} =>
        /\ reqs[r].at < reqs[r].val.created + Max
        /\ reqs[r].out => reqs[r].sess \in revived

(* A token is accepted only while its key was published less than MaxAge   *)
(* before, however often sign-ins refetch, wait for each other or fail; a  *)
(* published key is refused as unknown only within MinRefetch of the last  *)
(* fetch (jwks.go key and fetch); and a sign-in that loses the race to     *)
(* create an account finds the winner's (authenticator.go provision),      *)
(* unless an account was deleted or bound to another subject.              *)
SignInsExplained ==
    \A r \in Requests :
        /\ (reqs[r].pc = "subject" /\ ~reqs[r].again) =>
            (retired[reqs[r].kid] = None \/ reqs[r].at - retired[reqs[r].kid] < MaxAge)
        /\ (reqs[r].pc = "unknown_key" /\ reqs[r].out) => reqs[r].at - reqs[r].since < MinRefetch
        /\ reqs[r].pc = "no_account" => lost
=============================================================================
