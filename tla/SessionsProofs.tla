--------------------------- MODULE SessionsProofs ---------------------------
(***************************************************************************)
(* Proofs about Sessions, for any requests, accounts, identities and keys, *)
(* and for every idle time, lifetime and refetch interval.  IInv is        *)
(* inductive, and gives that sign-outs and lifetimes end sessions and that *)
(* every sign-in is explained.                                             *)
(***************************************************************************)
EXTENDS Sessions, TLAPS

-----------------------------------------------------------------------------
(* The inductive invariant *)

UserIds == {u.id : u \in Seeded} \cup Requests \cup {None}

SessionRecords == [user : UserIds, created : Nat, expires : Int]

PCs == {"idle", "key", "fetch", "subject", "email", "bind", "create", "session", "got", "user",
        "served", "signed_in", "signed_out", "refused", "unknown_key", "no_account"}

(* Where a request is while it signs in, and while it uses a session. *)
SigningIn == {"key", "fetch", "subject", "email", "bind", "create"}

UsingSession == {"got", "user", "served"}

RequestRecords ==
    [pc : PCs, id : Identities \cup {None}, kid : Kids \cup {None}, user : UserIds,
     sess : Requests \cup {None}, val : SessionRecords \cup {None}, out : BOOLEAN, at : Nat,
     since : Int, again : BOOLEAN]

StateTyped ==
    /\ now \in Nat
    /\ published \in Kids
    /\ retired \in [Kids -> Nat \cup {None}]
    /\ keyset \in [keys : SUBSET Kids, fresh : Int, fetched : Int, lock : Requests \cup {None}]
    /\ users \subseteq Accounts
    /\ store \in [Requests -> SessionRecords \cup {None}]
    /\ lost \in BOOLEAN

Typed == StateTyped /\ reqs \in [Requests -> RequestRecords]

SignedIn == {s \in Requests : reqs[s].pc = "signed_in"}

(* The key set is stale before a key in it has been withdrawn for MaxAge. *)
KeysAreFresh ==
    /\ keyset.fetched <= now
    /\ keyset.fresh <= now + MaxAge
    /\ retired[published] = None
    /\ \A k \in keyset.keys : retired[k] = None \/ keyset.fresh - retired[k] <= MaxAge

(* Only what a sign-in created has ended, and it is stored only where it   *)
(* was written back.                                                       *)
EndedAreRevived == \A s \in ended : s \in SignedIn /\ (store[s] # None => s \in revived)

(* The parts below are about a request x. *)

(* A sign-in has an identity, and a key until it has been accepted.  It    *)
(* has not looked for an account before that.                              *)
HasIdentity(x) ==
    /\ x.pc \in {"idle", "key", "fetch"} => ~x.again
    /\ x.pc \in SigningIn => x.id \in Identities
    /\ x.pc \in {"key", "fetch"} \/ (x.pc = "subject" /\ ~x.again) => x.kid \in Kids

(* A request is not stamped with a time to come. *)
InThePast(x) == x.at <= now /\ x.since <= now

(* A request uses a session that a sign-in created, in time; one that had  *)
(* ended before only where it was written back.                            *)
UsesSession(x) ==
    x.pc \in UsingSession =>
        /\ x.val \in SessionRecords
        /\ x.sess \in SignedIn
        /\ x.out => x.sess \in revived
        /\ x.pc # "got" => x.at < x.val.created + Max

KeyExplained(x) ==
    /\ x.pc = "subject" /\ ~x.again => retired[x.kid] = None \/ x.at - retired[x.kid] < MaxAge
    /\ x.pc = "unknown_key" /\ x.out => x.at - x.since < MinRefetch

(* While no account was lost, the account that a second lookup is after,   *)
(* or that a lookup has found, is there.                                   *)
AccountThere(x) ==
    lost \/ /\ x.pc = "subject" /\ x.again =>
                \E u \in users : u.subject = x.id.subject \/ u.email = x.id.email
            /\ x.pc = "email" /\ x.again => \E u \in users : u.email = x.id.email
            /\ x.pc = "bind" => \E u \in users : u.id = x.user
            /\ x.pc # "no_account"

RequestOK(x) == HasIdentity(x) /\ InThePast(x) /\ UsesSession(x) /\ KeyExplained(x) /\ AccountThere(x)

IInv == Typed /\ KeysAreFresh /\ EndedAreRevived /\ \A r \in Requests : RequestOK(reqs[r])

-----------------------------------------------------------------------------
(* The steps *)

USE SessionsAssumption DEF SigningIn, UsingSession

(* What the fields of a request hold. *)
LEMMA RequestFields ==
    ASSUME NEW x \in RequestRecords
    PROVE  /\ x.pc \in PCs /\ x.id \in Identities \cup {None} /\ x.kid \in Kids \cup {None}
           /\ x.user \in UserIds /\ x.sess \in Requests \cup {None}
           /\ x.val \in SessionRecords \cup {None} /\ x.out \in BOOLEAN
           /\ x.at \in Nat /\ x.since \in Int /\ x.again \in BOOLEAN
  BY DEF RequestRecords

(* A request that has remembered nothing. *)
LEMMA FreshRequest ==
    /\ Fresh \in RequestRecords
    /\ Fresh.pc = "idle" /\ Fresh.at = 0 /\ Fresh.since = 0
    /\ ~Fresh.out /\ ~Fresh.again
<1>1. None \in UserIds BY DEF UserIds
<1>2. "idle" \in PCs BY DEF PCs
<1>3. Fresh \in RequestRecords BY <1>1, <1>2 DEF RequestRecords, Fresh
<1>4. Fresh.pc = "idle" /\ Fresh.at = 0 /\ Fresh.since = 0 BY DEF Fresh
<1>5. ~Fresh.out /\ ~Fresh.again BY DEF Fresh
<1> QED BY <1>3, <1>4, <1>5

(* A request that has ended needs nothing of the state, but for one that   *)
(* found no account, which takes a lost account to explain.                *)
LEMMA EndedRequest ==
    ASSUME now \in Nat,
           NEW p \in {"signed_in", "signed_out", "refused", "unknown_key", "no_account"},
           p = "no_account" => lost
    PROVE  [Fresh EXCEPT !.pc = p] \in RequestRecords /\ RequestOK([Fresh EXCEPT !.pc = p])
<1> DEFINE x == [Fresh EXCEPT !.pc = p]
<1>1. p \in PCs BY DEF PCs
<1>2. x \in RequestRecords BY <1>1, FreshRequest DEF RequestRecords
<1>3. x.pc = p /\ x.at = Fresh.at /\ x.since = Fresh.since /\ x.again = Fresh.again
  BY FreshRequest DEF RequestRecords
<1>4. x.out = Fresh.out BY FreshRequest DEF RequestRecords
<1> HIDE DEF x
<1>5. HasIdentity(x) BY <1>3 DEF HasIdentity
<1>11. x.at = 0 /\ x.since = 0 BY <1>3, FreshRequest
<1>6. InThePast(x) BY <1>11 DEF InThePast
<1>7. UsesSession(x) BY <1>3 DEF UsesSession
<1>8. KeyExplained(x) BY <1>3, <1>4, FreshRequest DEF KeyExplained
<1>9. AccountThere(x) BY <1>3 DEF AccountThere
<1>10. RequestOK(x) BY <1>5, <1>6, <1>7, <1>8, <1>9 DEF RequestOK
<1> QED BY <1>2, <1>10 DEF x

(* What every step grants the requests it does not move: time goes on, a   *)
(* key is withdrawn at the present, what was written back stays so, and    *)
(* accounts stay, with their email and a subject they had, unless one is   *)
(* lost.                                                                   *)
Onwards ==
    /\ now' >= now
    /\ \A k \in Kids : retired'[k] \in {retired[k], now}
    /\ revived \subseteq revived'
    /\ lost => lost'
    /\ \/ lost'
       \/ \A u \in users : \E v \in users' :
            v.id = u.id /\ v.email = u.email /\ (u.subject # None => v.subject = u.subject)

(* A request stays explained in a step that does not move it. *)
LEMMA OthersOK ==
    ASSUME StateTyped, StateTyped', Onwards, SignedIn \subseteq SignedIn',
           NEW x \in RequestRecords, RequestOK(x)
    PROVE  RequestOK(x)'
<1>1. x.at \in Nat /\ x.since \in Int BY RequestFields
<1>2. HasIdentity(x)' BY DEF RequestOK, HasIdentity
<1>3. InThePast(x)' BY <1>1 DEF RequestOK, InThePast, Onwards, StateTyped
<1>4. UsesSession(x)' BY DEF RequestOK, UsesSession, Onwards
<1>5. KeyExplained(x)'
  <2> SUFFICES ASSUME x.pc = "subject", ~x.again, retired'[x.kid] # None
               PROVE  x.at - retired'[x.kid] < MaxAge
    BY DEF RequestOK, KeyExplained
  <2>1. x.kid \in Kids BY DEF RequestOK, HasIdentity
  <2>2. CASE retired'[x.kid] = retired[x.kid] BY <2>2 DEF RequestOK, KeyExplained
  <2>3. CASE retired'[x.kid] = now BY <1>1, <2>3 DEF RequestOK, InThePast, StateTyped
  <2> QED BY <2>1, <2>2, <2>3 DEF Onwards
<1>6. AccountThere(x)'
  <2> SUFFICES ASSUME ~lost' PROVE AccountThere(x)' BY DEF AccountThere
  <2>1. ~lost /\ \A u \in users : \E v \in users' :
            v.id = u.id /\ v.email = u.email /\ (u.subject # None => v.subject = u.subject)
    BY DEF Onwards
  <2>2. x.pc = "subject" => x.id.subject # None BY DEF RequestOK, HasIdentity
  <2>3. AccountThere(x) BY DEF RequestOK
  <2>4. x.pc = "subject" /\ x.again => \E v \in users' : v.subject = x.id.subject \/ v.email = x.id.email
    <3> SUFFICES ASSUME x.pc = "subject", x.again
                 PROVE  \E v \in users' : v.subject = x.id.subject \/ v.email = x.id.email
      OBVIOUS
    <3>1. PICK u \in users : u.subject = x.id.subject \/ u.email = x.id.email
      BY <2>1, <2>3 DEF AccountThere
    <3>2. PICK v \in users' : v.id = u.id /\ v.email = u.email /\ (u.subject # None => v.subject = u.subject)
      BY <2>1
    <3> QED BY <3>1, <3>2, <2>2
  <2>5. x.pc = "email" /\ x.again => \E v \in users' : v.email = x.id.email
    BY <2>1, <2>3 DEF AccountThere
  <2>6. x.pc = "bind" => \E v \in users' : v.id = x.user
    BY <2>1, <2>3 DEF AccountThere
  <2>7. x.pc # "no_account" BY <2>1, <2>3 DEF AccountThere
  <2> QED BY <2>4, <2>5, <2>6, <2>7 DEF AccountThere
<1> QED BY <1>2, <1>3, <1>4, <1>5, <1>6 DEF RequestOK

(* A session that has ended was created by a sign-in, and is stored only   *)
(* where it was written back, after the step too.                          *)
EndedStay == \A s \in ended' : s \in SignedIn /\ (store'[s] # None => s \in revived')

(* The step moves request r to x. *)
Moved(r, x) == reqs' = [q \in Requests |-> IF q = r THEN x ELSE reqs[q]]

(* A step that moves one request, which is not one that has signed in, has *)
(* only that request to answer for.                                        *)
LEMMA Moves ==
    ASSUME IInv, StateTyped', Onwards, KeysAreFresh', EndedStay,
           NEW r \in Requests, reqs[r].pc # "signed_in",
           NEW x \in RequestRecords, Moved(r, x), RequestOK(x)
    PROVE  IInv'
<1>1. reqs' \in [Requests -> RequestRecords] BY DEF IInv, Typed, Moved
<1>2. SignedIn \subseteq SignedIn' BY DEF SignedIn, Moved
<1>3. EndedAreRevived' BY <1>2 DEF EndedAreRevived, EndedStay
<1>4. \A q \in Requests : RequestOK(reqs[q])'
  <2> SUFFICES ASSUME NEW q \in Requests PROVE RequestOK(reqs[q])' OBVIOUS
  <2>1. \E y \in RequestRecords : y = reqs'[q] /\ RequestOK(y) BY DEF IInv, Typed, Moved
  <2>2. PICK y \in RequestRecords : y = reqs'[q] /\ RequestOK(y) BY <2>1
  <2>3. RequestOK(y)' BY <1>2, <2>2, OthersOK DEF IInv, Typed
  <2> QED BY <2>2, <2>3 DEF RequestOK, HasIdentity, InThePast, UsesSession, KeyExplained, AccountThere
<1> QED BY <1>1, <1>3, <1>4 DEF IInv, Typed

(* A step that moves no request. *)
LEMMA Stays ==
    ASSUME IInv, StateTyped', Onwards, KeysAreFresh', EndedStay, reqs' = reqs
    PROVE  IInv'
<1>1. SignedIn \subseteq SignedIn' BY DEF SignedIn
<1>2. EndedAreRevived' BY <1>1 DEF EndedAreRevived, EndedStay
<1>3. \A q \in Requests : RequestOK(reqs[q])'
  <2> SUFFICES ASSUME NEW q \in Requests PROVE RequestOK(reqs[q])' OBVIOUS
  <2>1. PICK y \in RequestRecords : y = reqs[q] /\ y = reqs'[q] /\ RequestOK(y) BY DEF IInv, Typed
  <2>2. RequestOK(y)' BY <1>1, <2>1, OthersOK DEF IInv, Typed
  <2> QED BY <2>1, <2>2 DEF RequestOK, HasIdentity, InThePast, UsesSession, KeyExplained, AccountThere
<1> QED BY <1>2, <1>3 DEF IInv, Typed

(* A step that changes nothing but where a request is. *)
LEMMA OnlyMoves ==
    ASSUME IInv, UNCHANGED <<now, published, retired, keyset, users, store, ended, revived, lost>>,
           NEW r \in Requests, reqs[r].pc # "signed_in",
           NEW x \in RequestRecords, Moved(r, x), RequestOK(x)
    PROVE  IInv'
<1>1. StateTyped' BY DEF IInv, Typed, StateTyped
<1>2. Onwards
  <2>3. now \in Nat BY DEF IInv, Typed, StateTyped
  <2>1. now' >= now BY <2>3
  <2>2. \A u \in users : \E v \in users' :
            v.id = u.id /\ v.email = u.email /\ (u.subject # None => v.subject = u.subject)
    OBVIOUS
  <2> QED BY <2>1, <2>2 DEF Onwards
<1>3. KeysAreFresh' BY DEF IInv, KeysAreFresh
<1>4. EndedStay BY DEF IInv, EndedAreRevived, EndedStay
<1> QED BY <1>1, <1>2, <1>3, <1>4, Moves

(* A request that ends. *)
LEMMA EndMoves ==
    ASSUME Typed, NEW r \in Requests, NEW p, End(r, p)
    PROVE  Moved(r, [Fresh EXCEPT !.pc = p])
  BY DEF End, Moved, Typed

(* The account of the request has been found. *)
LEMMA FoundMoves ==
    ASSUME Typed, NEW r \in Requests, NEW user \in UserIds, Found(r, user)
    PROVE  \E x \in RequestRecords : Moved(r, x) /\ RequestOK(x)
<1> DEFINE x == [Fresh EXCEPT !.pc = "session", !.user = user]
<1>1. Moved(r, x) BY DEF Found, Moved, Typed
<1>2. "session" \in PCs BY DEF PCs
<1>3. x \in RequestRecords BY <1>2, FreshRequest DEF RequestRecords
<1>4. x.pc = "session" /\ x.at = Fresh.at /\ x.since = Fresh.since BY FreshRequest DEF RequestRecords
<1> HIDE DEF x
<1>5. now \in Nat BY DEF Typed, StateTyped
<1>6. RequestOK(x) BY <1>4, <1>5, FreshRequest
      DEF RequestOK, HasIdentity, InThePast, UsesSession, KeyExplained, AccountThere
<1> QED BY <1>1, <1>3, <1>6

(* A sign-in arrives with a token (google.go:85-118). *)
LEMMA SignInIInv ==
    ASSUME IInv, NEW r \in Requests, NEW id \in Identities, NEW kid \in Kids, SignIn(r, id, kid)
    PROVE  IInv'
<1> DEFINE x == [reqs[r] EXCEPT !.pc = "key", !.id = id, !.kid = kid]
<1>1. Typed /\ RequestOK(reqs[r]) /\ reqs[r] \in RequestRecords BY DEF IInv, Typed
<1>2. Moved(r, x) BY <1>1 DEF SignIn, Moved, Typed
<1>3. "key" \in PCs BY DEF PCs
<1>4. x \in RequestRecords BY <1>1, <1>3 DEF RequestRecords
<1>5. x.pc = "key" /\ x.id = id /\ x.kid = kid /\ x.at = reqs[r].at /\ x.since = reqs[r].since
      /\ x.again = reqs[r].again
  BY <1>1 DEF RequestRecords
<1> HIDE DEF x
<1>6. RequestOK(x) BY <1>1, <1>5
      DEF SignIn, RequestOK, HasIdentity, InThePast, UsesSession, KeyExplained, AccountThere
<1> QED BY <1>2, <1>4, <1>6, OnlyMoves DEF SignIn

(* The key of the token is served, refused or fetched (jwks.go:44-61). *)
LEMMA keyIInv ==
    ASSUME IInv, NEW r \in Requests, key(r)
    PROVE  IInv'
<1> DEFINE y == reqs[r]
<1>1. Typed /\ RequestOK(y) /\ y \in RequestRecords BY DEF IInv, Typed
<1>2. now \in Nat /\ now \in Int /\ keyset.fetched \in Int /\ keyset.fresh \in Int /\ keyset.keys \subseteq Kids
      /\ retired \in [Kids -> Nat \cup {None}]
  BY <1>1 DEF Typed, StateTyped
<1>3. "subject" \in PCs /\ "unknown_key" \in PCs /\ "fetch" \in PCs BY DEF PCs
<1>4. ASSUME Serves(y.kid), reqs' = [reqs EXCEPT ![r].pc = "subject", ![r].at = now], UNCHANGED keyset
      PROVE  IInv'
  <2> DEFINE x == [y EXCEPT !.pc = "subject", !.at = now]
  <2>1. Moved(r, x) BY <1>1, <1>4 DEF Moved, Typed
  <2>2. x \in RequestRecords BY <1>1, <1>2, <1>3 DEF RequestRecords
  <2>3. x.pc = "subject" /\ x.at = now /\ x.since = y.since /\ x.id = y.id /\ x.kid = y.kid
        /\ x.again = y.again
    BY <1>1 DEF RequestRecords
  <2> HIDE DEF x
  <2>4. HasIdentity(x) /\ InThePast(x) /\ UsesSession(x) /\ AccountThere(x)
    BY <1>1, <1>2, <2>3 DEF key, RequestOK, HasIdentity, InThePast, UsesSession, AccountThere
  <2>5. KeyExplained(x)
    BY <1>2, <1>4, <2>3 DEF KeyExplained, Serves, IInv, KeysAreFresh
  <2> QED BY <1>4, <2>1, <2>2, <2>4, <2>5, OnlyMoves DEF key, RequestOK
<1>5. ASSUME Recent, UNCHANGED keyset,
             reqs' = [reqs EXCEPT ![r] = [Fresh EXCEPT !.pc = "unknown_key", !.at = now,
                                           !.since = keyset.fetched, !.out = y.kid = published]]
      PROVE  IInv'
  <2> DEFINE x == [Fresh EXCEPT !.pc = "unknown_key", !.at = now, !.since = keyset.fetched,
                                !.out = y.kid = published]
  <2>1. Moved(r, x) BY <1>1, <1>5 DEF Moved, Typed
  <2>2. ASSUME NEW b \in BOOLEAN
        PROVE  [Fresh EXCEPT !.pc = "unknown_key", !.at = now, !.since = keyset.fetched, !.out = b]
                  \in RequestRecords
    BY <1>2, <1>3, FreshRequest DEF RequestRecords
  <2>3. x \in RequestRecords BY <2>2
  <2>4. x.pc = "unknown_key" /\ x.at = now /\ x.since = keyset.fetched
    BY FreshRequest DEF RequestRecords
  <2> HIDE DEF x
  <2>5. RequestOK(x)
    BY <1>2, <1>5, <2>4 DEF Recent, IInv, KeysAreFresh,
       RequestOK, HasIdentity, InThePast, UsesSession, KeyExplained, AccountThere
  <2> QED BY <1>5, <2>1, <2>3, <2>5, OnlyMoves DEF key
<1>6. ASSUME reqs' = [reqs EXCEPT ![r].pc = "fetch", ![r].since = now],
             keyset' = [keyset EXCEPT !.fetched = now, !.lock = r]
      PROVE  IInv'
  <2> DEFINE x == [y EXCEPT !.pc = "fetch", !.since = now]
  <2>1. Moved(r, x) BY <1>1, <1>6 DEF Moved, Typed
  <2>2. x \in RequestRecords BY <1>1, <1>2, <1>3 DEF RequestRecords
  <2>3. x.pc = "fetch" /\ x.at = y.at /\ x.since = now /\ x.id = y.id /\ x.kid = y.kid
        /\ x.again = y.again
    BY <1>1 DEF RequestRecords
  <2> HIDE DEF x
  <2>4. RequestOK(x) BY <1>1, <1>2, <2>3
        DEF key, RequestOK, HasIdentity, InThePast, UsesSession, KeyExplained, AccountThere
  <2>5. StateTyped'
    <3>1. keyset' \in [keys : SUBSET Kids, fresh : Int, fetched : Int, lock : Requests \cup {None}]
      BY <1>1, <1>2, <1>6 DEF Typed, StateTyped
    <3> QED BY <1>1, <3>1 DEF key, Typed, StateTyped
  <2>6. Onwards BY <1>2 DEF key, Onwards
  <2>7. KeysAreFresh'
    <3>1. keyset'.fetched = now /\ keyset'.fresh = keyset.fresh /\ keyset'.keys = keyset.keys
      BY <1>1, <1>6 DEF Typed, StateTyped
    <3> QED BY <1>2, <3>1 DEF key, IInv, KeysAreFresh
  <2>8. EndedStay BY DEF key, IInv, EndedAreRevived, EndedStay
  <2> QED BY <2>1, <2>2, <2>4, <2>5, <2>6, <2>7, <2>8, Moves DEF key
<1> QED BY <1>4, <1>5, <1>6 DEF key

(* The fetch of the keys answers or fails (jwks.go:63-131). *)
LEMMA fetchIInv ==
    ASSUME IInv, NEW r \in Requests, fetch(r)
    PROVE  IInv'
<1> DEFINE y == reqs[r]
<1>1. Typed /\ RequestOK(y) /\ y \in RequestRecords BY DEF IInv, Typed
<1>2. now \in Nat /\ y.since \in Int /\ y.since <= now
      /\ keyset \in [keys : SUBSET Kids, fresh : Int, fetched : Int, lock : Requests \cup {None}]
  BY <1>1, RequestFields DEF Typed, StateTyped, RequestOK, InThePast
<1>3. Onwards BY <1>2 DEF fetch, Onwards
<1>4. EndedStay BY DEF fetch, IInv, EndedAreRevived, EndedStay
<1>5. ASSUME keyset' = [keyset EXCEPT !.keys = {published}, !.fresh = y.since + MaxAge, !.lock = None]
      PROVE  StateTyped' /\ KeysAreFresh'
  <2>1. keyset' \in [keys : SUBSET Kids, fresh : Int, fetched : Int, lock : Requests \cup {None}]
    <3>1. {published} \in SUBSET Kids BY <1>1 DEF Typed, StateTyped
    <3>2. y.since + MaxAge \in Int BY <1>2
    <3> QED BY <1>2, <1>5, <3>1, <3>2
  <2>2. keyset'.keys = {published} /\ keyset'.fresh = y.since + MaxAge /\ keyset'.fetched = keyset.fetched
    BY <1>2, <1>5
  <2>3. StateTyped' BY <1>1, <2>1 DEF fetch, Typed, StateTyped
  <2>4. KeysAreFresh' BY <1>2, <2>2 DEF fetch, IInv, KeysAreFresh
  <2> QED BY <2>3, <2>4
<1>6. ASSUME keyset' = [keyset EXCEPT !.lock = None]
      PROVE  StateTyped' /\ KeysAreFresh'
  <2>1. keyset' \in [keys : SUBSET Kids, fresh : Int, fetched : Int, lock : Requests \cup {None}]
    BY <1>2, <1>6
  <2>2. keyset'.keys = keyset.keys /\ keyset'.fresh = keyset.fresh /\ keyset'.fetched = keyset.fetched
    BY <1>2, <1>6
  <2>3. StateTyped' BY <1>1, <2>1 DEF fetch, Typed, StateTyped
  <2>4. KeysAreFresh' BY <1>2, <2>2 DEF fetch, IInv, KeysAreFresh
  <2> QED BY <2>3, <2>4
<1>7. ASSUME StateTyped', KeysAreFresh', y.kid = published,
             reqs' = [reqs EXCEPT ![r].pc = "subject", ![r].at = now, ![r].since = 0]
      PROVE  IInv'
  <2> DEFINE x == [y EXCEPT !.pc = "subject", !.at = now, !.since = 0]
  <2>1. Moved(r, x) BY <1>1, <1>7 DEF Moved, Typed
  <2>2. "subject" \in PCs BY DEF PCs
  <2>3. ASSUME NEW n \in Nat, NEW i \in Int
        PROVE  [y EXCEPT !.pc = "subject", !.at = n, !.since = i] \in RequestRecords
    BY <1>1, <2>2 DEF RequestRecords
  <2>7. 0 \in Int OBVIOUS
  <2>6. x \in RequestRecords BY <1>2, <2>3, <2>7, Zenon
  <2>4. x.pc = "subject" /\ x.at = now /\ x.since = 0 /\ x.id = y.id /\ x.kid = y.kid
        /\ x.again = y.again
    BY <1>1 DEF RequestRecords
  <2> HIDE DEF x
  <2>5. RequestOK(x) BY <1>1, <1>2, <1>7, <2>4
        DEF fetch, RequestOK, HasIdentity, InThePast, UsesSession, KeyExplained, AccountThere,
            IInv, KeysAreFresh
  <2> QED BY <1>3, <1>4, <1>7, <2>1, <2>5, <2>6, Moves DEF fetch
<1>8. ASSUME NEW p \in {"unknown_key", "refused"}, StateTyped', KeysAreFresh', End(r, p)
      PROVE  IInv'
  <2>1. Moved(r, [Fresh EXCEPT !.pc = p]) BY <1>1, <1>8, EndMoves
  <2>2. [Fresh EXCEPT !.pc = p] \in RequestRecords /\ RequestOK([Fresh EXCEPT !.pc = p])
    BY <1>2, EndedRequest
  <2> QED BY <1>3, <1>4, <1>8, <2>1, <2>2, Moves DEF fetch
<1> QED BY <1>5, <1>6, <1>7, <1>8 DEF fetch

(* The lookup by subject (authenticator.go:128-153). *)
LEMMA GetUserByGoogleSubjectIInv ==
    ASSUME IInv, NEW r \in Requests, GetUserByGoogleSubject(r)
    PROVE  IInv'
<1> DEFINE y == reqs[r]
<1>1. Typed /\ RequestOK(y) /\ y \in RequestRecords BY DEF IInv, Typed
<1>2. now \in Nat /\ users \subseteq Accounts BY <1>1 DEF Typed, StateTyped
<1>3. ASSUME NEW u \in users, Found(r, u.id)
      PROVE  IInv'
  <2>1. u.id \in UserIds BY <1>2 DEF Accounts, UserIds
  <2> QED BY <1>1, <1>3, <2>1, FoundMoves, OnlyMoves DEF GetUserByGoogleSubject
<1>4. ASSUME {u \in users : u.subject = y.id.subject} = {},
             reqs' = [reqs EXCEPT ![r].pc = "email", ![r].kid = None, ![r].at = 0]
      PROVE  IInv'
  <2> DEFINE x == [y EXCEPT !.pc = "email", !.kid = None, !.at = 0]
  <2>1. Moved(r, x) BY <1>1, <1>4 DEF Moved, Typed
  <2>2. "email" \in PCs BY DEF PCs
  <2>3. x \in RequestRecords BY <1>1, <2>2 DEF RequestRecords
  <2>4. x.pc = "email" /\ x.at = 0 /\ x.since = y.since /\ x.id = y.id /\ x.again = y.again
    BY <1>1 DEF RequestRecords
  <2> HIDE DEF x
  <2>5. HasIdentity(x) /\ InThePast(x) /\ UsesSession(x) /\ KeyExplained(x) BY <1>1, <1>2, <2>4
    DEF GetUserByGoogleSubject, RequestOK, HasIdentity, InThePast, UsesSession, KeyExplained
  <2>6. AccountThere(x) BY <1>1, <1>4, <2>4 DEF GetUserByGoogleSubject, RequestOK, AccountThere
  <2> QED BY <2>1, <2>3, <2>5, <2>6, OnlyMoves DEF GetUserByGoogleSubject, RequestOK
<1> QED BY <1>3, <1>4 DEF GetUserByGoogleSubject

(* A lookup that finds no account: a second one only where one was lost. *)
LEMMA NotFoundIInv ==
    ASSUME IInv, NEW r \in Requests, reqs[r].pc \in {"email", "bind"}, NotFound(r),
           reqs[r].again => lost,
           UNCHANGED <<now, published, retired, keyset, users, store, ended, revived, lost>>
    PROVE  IInv'
<1> DEFINE y == reqs[r]
<1>1. Typed /\ RequestOK(y) /\ y \in RequestRecords BY DEF IInv, Typed
<1>2. now \in Nat BY <1>1 DEF Typed, StateTyped
<1>3. ASSUME NEW p \in {"no_account", "refused"}, p = "no_account" => lost, End(r, p)
      PROVE  IInv'
  <2>1. Moved(r, [Fresh EXCEPT !.pc = p]) BY <1>1, <1>3, EndMoves
  <2>2. [Fresh EXCEPT !.pc = p] \in RequestRecords /\ RequestOK([Fresh EXCEPT !.pc = p])
    BY <1>2, <1>3, EndedRequest
  <2> QED BY <2>1, <2>2, OnlyMoves
<1>4. ASSUME reqs' = [reqs EXCEPT ![r].pc = "create", ![r].user = None]
      PROVE  IInv'
  <2> DEFINE x == [y EXCEPT !.pc = "create", !.user = None]
  <2>1. Moved(r, x) BY <1>1, <1>4 DEF Moved, Typed
  <2>2. "create" \in PCs /\ None \in UserIds BY DEF PCs, UserIds
  <2>3. x \in RequestRecords BY <1>1, <2>2 DEF RequestRecords
  <2>4. x.pc = "create" /\ x.at = y.at /\ x.since = y.since /\ x.id = y.id
    BY <1>1 DEF RequestRecords
  <2> HIDE DEF x
  <2>5. RequestOK(x) BY <1>1, <2>4
        DEF RequestOK, HasIdentity, InThePast, UsesSession, KeyExplained, AccountThere
  <2> QED BY <2>1, <2>3, <2>5, OnlyMoves
<1> QED BY <1>3, <1>4 DEF NotFound

(* The lookup by email (authenticator.go:128-153). *)
LEMMA GetUserByEmailIInv ==
    ASSUME IInv, NEW r \in Requests, GetUserByEmail(r)
    PROVE  IInv'
<1> DEFINE y == reqs[r]
<1>1. Typed /\ RequestOK(y) /\ y \in RequestRecords BY DEF IInv, Typed
<1>2. now \in Nat /\ users \subseteq Accounts BY <1>1 DEF Typed, StateTyped
<1>3. ASSUME NEW u \in users, reqs' = [reqs EXCEPT ![r].pc = "bind", ![r].user = u.id]
      PROVE  IInv'
  <2> DEFINE x == [y EXCEPT !.pc = "bind", !.user = u.id]
  <2>1. Moved(r, x) BY <1>1, <1>3 DEF Moved, Typed
  <2>2. "bind" \in PCs BY DEF PCs
  <2>3. u.id \in UserIds BY <1>2 DEF Accounts, UserIds
  <2>4. x \in RequestRecords BY <1>1, <2>2, <2>3 DEF RequestRecords
  <2>5. x.pc = "bind" /\ x.at = y.at /\ x.since = y.since /\ x.id = y.id /\ x.user = u.id
    BY <1>1 DEF RequestRecords
  <2> HIDE DEF x
  <2>6. HasIdentity(x) /\ InThePast(x) /\ UsesSession(x) /\ KeyExplained(x) BY <1>1, <2>5
    DEF GetUserByEmail, RequestOK, HasIdentity, InThePast, UsesSession, KeyExplained
  <2>7. AccountThere(x) BY <2>5 DEF AccountThere
  <2> QED BY <2>1, <2>4, <2>6, <2>7, OnlyMoves DEF GetUserByEmail, RequestOK
<1>4. ASSUME {u \in users : u.email = y.id.email} = {}, NotFound(r)
      PROVE  IInv'
  <2>1. y.again => lost BY <1>1, <1>4 DEF GetUserByEmail, RequestOK, AccountThere
  <2> QED BY <1>4, <2>1, NotFoundIInv DEF GetUserByEmail
<1> QED BY <1>3, <1>4 DEF GetUserByEmail

(* An account takes the subject (authenticator.go:128-153). *)
LEMMA BindGoogleSubjectIInv ==
    ASSUME IInv, NEW r \in Requests, BindGoogleSubject(r)
    PROVE  IInv'
<1> DEFINE y == reqs[r]
           row == {u \in users : u.id = y.user}
           subject == y.id.subject
<1>1. Typed /\ RequestOK(y) /\ y \in RequestRecords BY DEF IInv, Typed
<1>2. now \in Nat /\ users \subseteq Accounts /\ y.user \in UserIds
  BY <1>1, RequestFields DEF Typed, StateTyped
<1>3. ASSUME users' = (users \ row) \cup {[u EXCEPT !.subject = subject] : u \in row},
             lost' = (lost \/ \E u \in row : u.subject \notin {None, subject}),
             Found(r, y.user)
      PROVE  IInv'
  <2>1. y.id \in Identities BY <1>1 DEF BindGoogleSubject, RequestOK, HasIdentity
  <2>2. \A u \in row : /\ [u EXCEPT !.subject = subject] \in Accounts
                       /\ [u EXCEPT !.subject = subject].id = u.id
                       /\ [u EXCEPT !.subject = subject].email = u.email
                       /\ [u EXCEPT !.subject = subject].subject = subject
    BY <1>2, <2>1 DEF Accounts
  <2>3. StateTyped'
    <3>1. users' \subseteq Accounts BY <1>2, <1>3, <2>2
    <3> QED BY <1>1, <1>3, <3>1 DEF BindGoogleSubject, Typed, StateTyped
  <2>4. Onwards
    <3>1. now' >= now BY <1>2 DEF BindGoogleSubject
    <3>2. lost => lost' BY <1>3
    <3>3. ASSUME ~lost', NEW u \in users
          PROVE  \E v \in users' :
                   v.id = u.id /\ v.email = u.email /\ (u.subject # None => v.subject = u.subject)
      <4>1. CASE u \notin row BY <1>3, <4>1
      <4>2. CASE u \in row
        <5>1. u.subject \in {None, subject} BY <1>3, <3>3, <4>2
        <5>2. [u EXCEPT !.subject = subject] \in users' BY <1>3, <4>2
        <5> QED BY <2>2, <4>2, <5>1, <5>2
      <4> QED BY <4>1, <4>2
    <3> QED BY <3>1, <3>2, <3>3 DEF BindGoogleSubject, Onwards
  <2>5. KeysAreFresh' BY DEF BindGoogleSubject, IInv, KeysAreFresh
  <2>6. EndedStay BY DEF BindGoogleSubject, IInv, EndedAreRevived, EndedStay
  <2> QED BY <1>1, <1>2, <1>3, <2>3, <2>4, <2>5, <2>6, FoundMoves, Moves DEF BindGoogleSubject
<1>4. ASSUME End(r, "refused"), UNCHANGED <<users, lost>>
      PROVE  IInv'
  <2>1. Moved(r, [Fresh EXCEPT !.pc = "refused"]) BY <1>1, <1>4, EndMoves
  <2>2. [Fresh EXCEPT !.pc = "refused"] \in RequestRecords /\ RequestOK([Fresh EXCEPT !.pc = "refused"])
    BY <1>2, EndedRequest
  <2> QED BY <1>4, <2>1, <2>2, OnlyMoves DEF BindGoogleSubject
<1>5. ASSUME row = {}, NotFound(r), UNCHANGED <<users, lost>>
      PROVE  IInv'
  <2>1. lost BY <1>1, <1>5 DEF BindGoogleSubject, RequestOK, AccountThere
  <2> QED BY <1>5, <2>1, NotFoundIInv DEF BindGoogleSubject
<1> QED BY <1>3, <1>4, <1>5 DEF BindGoogleSubject

(* An account is created, or looked up again (authenticator.go:97-126). *)
LEMMA CreateUserIInv ==
    ASSUME IInv, NEW r \in Requests, CreateUser(r)
    PROVE  IInv'
<1> DEFINE y == reqs[r]
<1>1. Typed /\ RequestOK(y) /\ y \in RequestRecords BY DEF IInv, Typed
<1>2. now \in Nat /\ users \subseteq Accounts BY <1>1 DEF Typed, StateTyped
<1>3. y.id \in Identities BY <1>1 DEF CreateUser, RequestOK, HasIdentity
<1>4. ASSUME users' = users \cup {[id |-> r, subject |-> y.id.subject, email |-> y.id.email]},
             Found(r, r)
      PROVE  IInv'
  <2>1. users' \subseteq Accounts BY <1>2, <1>3, <1>4 DEF Accounts
  <2>2. StateTyped' BY <1>1, <2>1 DEF CreateUser, Typed, StateTyped
  <2>3. Onwards BY <1>2, <1>4 DEF CreateUser, Onwards
  <2>4. KeysAreFresh' BY DEF CreateUser, IInv, KeysAreFresh
  <2>5. EndedStay BY DEF CreateUser, IInv, EndedAreRevived, EndedStay
  <2>6. r \in UserIds BY DEF UserIds
  <2> QED BY <1>1, <1>4, <2>2, <2>3, <2>4, <2>5, <2>6, FoundMoves, Moves DEF CreateUser
<1>5. ASSUME \E u \in users : u.subject = y.id.subject \/ u.email = y.id.email, UNCHANGED users,
             reqs' = [reqs EXCEPT ![r].pc = "subject", ![r].again = TRUE]
      PROVE  IInv'
  <2> DEFINE x == [y EXCEPT !.pc = "subject", !.again = TRUE]
  <2>1. Moved(r, x) BY <1>1, <1>5 DEF Moved, Typed
  <2>2. "subject" \in PCs BY DEF PCs
  <2>3. x \in RequestRecords BY <1>1, <2>2 DEF RequestRecords
  <2>4. x.pc = "subject" /\ x.at = y.at /\ x.since = y.since /\ x.id = y.id BY <1>1 DEF RequestRecords
  <2>5. x.again BY <1>1 DEF RequestRecords
  <2> HIDE DEF x
  <2>6. HasIdentity(x) /\ InThePast(x) /\ UsesSession(x) /\ KeyExplained(x) BY <1>1, <1>3, <2>4, <2>5
    DEF CreateUser, RequestOK, HasIdentity, InThePast, UsesSession, KeyExplained
  <2>7. AccountThere(x) BY <1>5, <2>4 DEF AccountThere
  <2> QED BY <1>5, <2>1, <2>3, <2>6, <2>7, OnlyMoves DEF CreateUser, RequestOK
<1> QED BY <1>4, <1>5 DEF CreateUser

(* The session is created: nobody can have ended it (session.go:59-67). *)
LEMMA CreateIInv ==
    ASSUME IInv, NEW r \in Requests, Create(r)
    PROVE  IInv'
<1>1. Typed BY DEF IInv
<1>2. now \in Nat /\ reqs[r].user \in UserIds /\ store \in [Requests -> SessionRecords \cup {None}]
  BY <1>1, RequestFields DEF Typed, StateTyped
<1>3. Moved(r, [Fresh EXCEPT !.pc = "signed_in"]) BY <1>1, EndMoves DEF Create
<1>4. [Fresh EXCEPT !.pc = "signed_in"] \in RequestRecords /\ RequestOK([Fresh EXCEPT !.pc = "signed_in"])
  BY <1>2, EndedRequest
<1>5. StateTyped'
  <2>1. now + Idle \in Int BY <1>2
  <2>2. [user |-> reqs[r].user, created |-> now, expires |-> now + Idle] \in SessionRecords
    BY <1>2, <2>1 DEF SessionRecords
  <2>3. store' \in [Requests -> SessionRecords \cup {None}] BY <1>2, <2>2 DEF Create
  <2> QED BY <1>1, <2>3 DEF Create, Typed, StateTyped
<1>6. Onwards BY <1>2 DEF Create, Onwards
<1>7. KeysAreFresh' BY DEF Create, IInv, KeysAreFresh
<1>8. EndedStay BY <1>2 DEF Create, IInv, EndedAreRevived, EndedStay, SignedIn
<1> QED BY <1>3, <1>4, <1>5, <1>6, <1>7, <1>8, Moves DEF Create

(* A request reads a session (session.go:69-84). *)
LEMMA GetIInv ==
    ASSUME IInv, NEW r \in Requests, NEW s \in Requests, Get(r, s)
    PROVE  IInv'
<1> DEFINE y == reqs[r]
<1>1. Typed /\ RequestOK(y) /\ y \in RequestRecords BY DEF IInv, Typed
<1>2. now \in Nat /\ store[s] \in SessionRecords \cup {None} BY <1>1 DEF Typed, StateTyped
<1>3. ASSUME End(r, "refused")
      PROVE  IInv'
  <2>1. Moved(r, [Fresh EXCEPT !.pc = "refused"]) BY <1>1, <1>3, EndMoves
  <2>2. [Fresh EXCEPT !.pc = "refused"] \in RequestRecords /\ RequestOK([Fresh EXCEPT !.pc = "refused"])
    BY <1>2, EndedRequest
  <2> QED BY <2>1, <2>2, OnlyMoves DEF Get
<1>4. ASSUME store[s] # None,
             reqs' = [reqs EXCEPT ![r].pc = "got", ![r].sess = s, ![r].val = store[s], ![r].out = s \in ended]
      PROVE  IInv'
  <2> DEFINE x == [y EXCEPT !.pc = "got", !.sess = s, !.val = store[s], !.out = s \in ended]
  <2>1. Moved(r, x) BY <1>1, <1>4 DEF Moved, Typed
  <2>2. "got" \in PCs BY DEF PCs
  <2>3. ASSUME NEW b \in BOOLEAN
        PROVE  [y EXCEPT !.pc = "got", !.sess = s, !.val = store[s], !.out = b] \in RequestRecords
    BY <1>1, <1>2, <2>2 DEF RequestRecords
  <2>9. (s \in ended) \in BOOLEAN OBVIOUS
  <2>4. x \in RequestRecords BY <2>3, <2>9, Zenon
  <2>5. x.pc = "got" /\ x.sess = s /\ x.val = store[s] /\ x.at = y.at /\ x.since = y.since
    BY <1>1 DEF RequestRecords
  <2>6. x.out <=> s \in ended BY <1>1 DEF RequestRecords
  <2> HIDE DEF x
  <2>7. HasIdentity(x) /\ InThePast(x) /\ KeyExplained(x) /\ AccountThere(x) BY <1>1, <2>5
    DEF RequestOK, HasIdentity, InThePast, KeyExplained, AccountThere
  <2>8. UsesSession(x) BY <1>2, <1>4, <2>5, <2>6
    DEF Get, UsesSession, SignedIn, IInv, EndedAreRevived
  <2> QED BY <2>1, <2>4, <2>7, <2>8, OnlyMoves DEF Get, RequestOK
<1> QED BY <1>3, <1>4 DEF Get

(* A session is deleted, and the request that used it ends. *)
LEMMA DeletesIInv ==
    ASSUME IInv, NEW r \in Requests, reqs[r].pc \in UsingSession,
           NEW p \in {"refused", "signed_out"}, End(r, p),
           store' = [store EXCEPT ![reqs[r].sess] = None],
           ended' \subseteq ended \cup {reqs[r].sess},
           UNCHANGED <<now, published, retired, keyset, users, revived, lost>>
    PROVE  IInv'
<1>1. Typed /\ RequestOK(reqs[r]) BY DEF IInv, Typed
<1>2. now \in Nat /\ store \in [Requests -> SessionRecords \cup {None}] BY <1>1 DEF Typed, StateTyped
<1>3. reqs[r].sess \in SignedIn BY <1>1 DEF RequestOK, UsesSession
<1>4. Moved(r, [Fresh EXCEPT !.pc = p]) BY <1>1, EndMoves
<1>5. [Fresh EXCEPT !.pc = p] \in RequestRecords /\ RequestOK([Fresh EXCEPT !.pc = p])
  BY <1>2, EndedRequest
<1>6. StateTyped' BY <1>1, <1>2 DEF Typed, StateTyped
<1>7. Onwards BY <1>2 DEF Onwards
<1>8. KeysAreFresh' BY DEF IInv, KeysAreFresh
<1>9. EndedStay BY <1>2, <1>3 DEF IInv, EndedAreRevived, EndedStay, SignedIn
<1> QED BY <1>4, <1>5, <1>6, <1>7, <1>8, <1>9, Moves

(* It deletes the session or writes back what it read (session.go:85-123). *)
LEMMA ExtendIInv ==
    ASSUME IInv, NEW r \in Requests, Extend(r)
    PROVE  IInv'
<1> DEFINE y == reqs[r]
           limit == y.val.created + Max
           exp == Earlier(now + Idle, limit)
           writes == exp > y.val.expires
<1>1. Typed /\ RequestOK(y) /\ y \in RequestRecords BY DEF IInv, Typed
<1>2. now \in Nat /\ store \in [Requests -> SessionRecords \cup {None}] BY <1>1 DEF Typed, StateTyped
<1>3. y.pc = "got" /\ y.val \in SessionRecords /\ y.sess \in SignedIn /\ (y.out => y.sess \in revived)
  BY <1>1 DEF Extend, RequestOK, UsesSession
<1>4. ASSUME store' = [store EXCEPT ![y.sess] = None], End(r, "refused"), UNCHANGED revived
      PROVE  IInv'
  BY <1>3, <1>4, DeletesIInv DEF Extend
<1>5. ASSUME now < limit,
             store' = IF writes THEN [store EXCEPT ![y.sess] = [y.val EXCEPT !.expires = exp]] ELSE store,
             revived' = IF writes /\ y.sess \in ended /\ ~y.out THEN revived \cup {y.sess} ELSE revived,
             reqs' = [reqs EXCEPT ![r].pc = "user", ![r].at = now]
      PROVE  IInv'
  <2> DEFINE x == [y EXCEPT !.pc = "user", !.at = now]
  <2>1. Moved(r, x) BY <1>1, <1>5 DEF Moved, Typed
  <2>2. "user" \in PCs BY DEF PCs
  <2>3. x \in RequestRecords BY <1>1, <1>2, <2>2 DEF RequestRecords
  <2>4. x.pc = "user" /\ x.at = now /\ x.since = y.since /\ x.sess = y.sess /\ x.val = y.val
    BY <1>1 DEF RequestRecords
  <2>5. x.out = y.out BY <1>1 DEF RequestRecords
  <2> HIDE DEF x
  <2>6. HasIdentity(x) /\ InThePast(x) /\ KeyExplained(x) /\ AccountThere(x) BY <1>1, <1>2, <2>4
    DEF RequestOK, HasIdentity, InThePast, KeyExplained, AccountThere
  <2>7. UsesSession(x) BY <1>3, <1>5, <2>4, <2>5 DEF UsesSession
  <2>8. StateTyped'
    <3>1. exp \in Int BY <1>2, <1>3 DEF Earlier, SessionRecords
    <3> HIDE DEF exp
    <3>2. [y.val EXCEPT !.expires = exp] \in SessionRecords BY <1>3, <3>1 DEF SessionRecords
    <3>3. store' \in [Requests -> SessionRecords \cup {None}] BY <1>2, <1>5, <3>2
    <3> QED BY <1>1, <3>3 DEF Extend, Typed, StateTyped
  <2>9. Onwards BY <1>2, <1>5 DEF Extend, Onwards
  <2>10. KeysAreFresh' BY DEF Extend, IInv, KeysAreFresh
  <2>11. EndedStay
    <3> HIDE DEF exp
    <3> SUFFICES ASSUME NEW s \in ended PROVE s \in SignedIn /\ (store'[s] # None => s \in revived')
      BY DEF Extend, EndedStay
    <3>1. s \in SignedIn /\ s \in Requests /\ (store[s] # None => s \in revived)
      BY DEF IInv, EndedAreRevived, SignedIn
    <3>2. CASE s = y.sess /\ writes BY <1>3, <1>5, <3>1, <3>2
    <3>3. CASE s # y.sess \/ ~writes BY <1>2, <1>5, <3>1, <3>3
    <3> QED BY <3>2, <3>3
  <2> QED BY <1>3, <2>1, <2>3, <2>6, <2>7, <2>8, <2>9, <2>10, <2>11, Moves DEF RequestOK
<1> QED BY <1>4, <1>5 DEF Extend

(* It reads the user of the session (authenticator.go:54-86). *)
LEMMA AuthenticateIInv ==
    ASSUME IInv, NEW r \in Requests, Authenticate(r)
    PROVE  IInv'
<1> DEFINE y == reqs[r]
<1>1. Typed /\ RequestOK(y) /\ y \in RequestRecords BY DEF IInv, Typed
<1>2. ASSUME reqs' = [reqs EXCEPT ![r].pc = "served"], UNCHANGED store
      PROVE  IInv'
  <2> DEFINE x == [y EXCEPT !.pc = "served"]
  <2>1. Moved(r, x) BY <1>1, <1>2 DEF Moved, Typed
  <2>2. "served" \in PCs BY DEF PCs
  <2>3. x \in RequestRecords BY <1>1, <2>2 DEF RequestRecords
  <2>4. x.pc = "served" /\ x.at = y.at /\ x.since = y.since /\ x.sess = y.sess /\ x.val = y.val
    BY <1>1 DEF RequestRecords
  <2>5. x.out = y.out BY <1>1 DEF RequestRecords
  <2> HIDE DEF x
  <2>6. RequestOK(x) BY <1>1, <2>4, <2>5
        DEF Authenticate, RequestOK, HasIdentity, InThePast, UsesSession, KeyExplained, AccountThere
  <2> QED BY <1>2, <2>1, <2>3, <2>6, OnlyMoves DEF Authenticate
<1>3. ASSUME store' = [store EXCEPT ![y.sess] = None], End(r, "refused")
      PROVE  IInv'
  BY <1>3, DeletesIInv DEF Authenticate
<1> QED BY <1>2, <1>3 DEF Authenticate

(* It ends the session (authenticator.go:88-95). *)
LEMMA SignOutIInv ==
    ASSUME IInv, NEW r \in Requests, SignOut(r)
    PROVE  IInv'
  BY DeletesIInv DEF SignOut, Delete

(* Time goes on. *)
LEMMA TickIInv ==
    ASSUME IInv, Tick
    PROVE  IInv'
<1>1. now \in Nat /\ now' \in Nat /\ now' >= now BY DEF IInv, Typed, StateTyped, Tick
<1>2. StateTyped' BY <1>1 DEF IInv, Typed, StateTyped, Tick
<1>3. Onwards BY <1>1 DEF Tick, Onwards
<1>4. keyset.fetched \in Int /\ keyset.fresh \in Int BY DEF IInv, Typed, StateTyped
<1>5. KeysAreFresh' BY <1>1, <1>4 DEF Tick, IInv, KeysAreFresh
<1>6. EndedStay BY DEF Tick, IInv, EndedAreRevived, EndedStay
<1> QED BY <1>2, <1>3, <1>5, <1>6, Stays DEF Tick

(* A record outlives its time in Redis. *)
LEMMA ExpireIInv ==
    ASSUME IInv, NEW s \in Requests, Expire(s)
    PROVE  IInv'
<1>1. now \in Nat /\ store \in [Requests -> SessionRecords \cup {None}] BY DEF IInv, Typed, StateTyped
<1>2. StateTyped' BY <1>1 DEF IInv, Typed, StateTyped, Expire
<1>3. Onwards BY <1>1 DEF Expire, Onwards
<1>4. KeysAreFresh' BY DEF Expire, IInv, KeysAreFresh
<1>5. EndedStay BY <1>1 DEF Expire, IInv, EndedAreRevived, EndedStay, SignedIn
<1> QED BY <1>2, <1>3, <1>4, <1>5, Stays DEF Expire

(* Google publishes another key: the set is stale within MaxAge of it. *)
LEMMA RotateIInv ==
    ASSUME IInv, Rotate
    PROVE  IInv'
<1>1. now \in Nat /\ published \in Kids /\ retired \in [Kids -> Nat \cup {None}]
      /\ keyset.fetched \in Int /\ keyset.fresh \in Int /\ keyset.keys \subseteq Kids
  BY DEF IInv, Typed, StateTyped
<1>2. PICK k \in Kids \ {published} : /\ retired[k] = None
                                     /\ published' = k
                                     /\ retired' = [retired EXCEPT ![published] = now]
  BY DEF Rotate
<1>3. StateTyped' BY <1>1, <1>2 DEF IInv, Typed, StateTyped, Rotate
<1>4. Onwards BY <1>1, <1>2 DEF Rotate, Onwards
<1>5. KeysAreFresh' BY <1>1, <1>2 DEF Rotate, IInv, KeysAreFresh
<1>6. EndedStay BY DEF Rotate, IInv, EndedAreRevived, EndedStay
<1> QED BY <1>3, <1>4, <1>5, <1>6, Stays DEF Rotate

(* An operator deletes an account. *)
LEMMA RemoveUserIInv ==
    ASSUME IInv, NEW u \in users, RemoveUser(u)
    PROVE  IInv'
<1>1. now \in Nat BY DEF IInv, Typed, StateTyped
<1>2. StateTyped' BY DEF IInv, Typed, StateTyped, RemoveUser
<1>3. Onwards BY <1>1 DEF RemoveUser, Onwards
<1>4. KeysAreFresh' BY DEF RemoveUser, IInv, KeysAreFresh
<1>5. EndedStay BY DEF RemoveUser, IInv, EndedAreRevived, EndedStay
<1> QED BY <1>2, <1>3, <1>4, <1>5, Stays DEF RemoveUser

(* Nobody has signed in. *)
LEMMA InitIInv ==
    ASSUME Init
    PROVE  IInv
<1>1. StateTyped
  <2>1. 0 - MinRefetch \in Int OBVIOUS
  <2>2. keyset \in [keys : SUBSET Kids, fresh : Int, fetched : Int, lock : Requests \cup {None}]
    BY <2>1 DEF Init
  <2> QED BY <2>2 DEF Init, StateTyped
<1>2. Typed BY <1>1, FreshRequest DEF Init, Typed
<1>3. KeysAreFresh BY DEF Init, KeysAreFresh
<1>4. EndedAreRevived BY DEF Init, EndedAreRevived
<1>5. RequestOK(Fresh)
  BY FreshRequest DEF Init, RequestOK, HasIdentity, InThePast, UsesSession, KeyExplained, AccountThere
<1> QED BY <1>2, <1>3, <1>4, <1>5 DEF Init, IInv

-----------------------------------------------------------------------------
(* The theorems *)

(* IInv is inductive: it holds of every state that requests, sign-ins,     *)
(* operators, Google and time lead to.                                     *)
THEOREM SessionsInductive == Spec => []IInv
<1>1. Init => IInv BY InitIInv
<1>2. IInv /\ [Next]_vars => IInv'
  <2> SUFFICES ASSUME IInv, [Next]_vars PROVE IInv' OBVIOUS
  <2>1. ASSUME NEW r \in Requests, NEW id \in Identities, NEW kid \in Kids, SignIn(r, id, kid) PROVE IInv'
    BY <2>1, SignInIInv
  <2>2. ASSUME NEW r \in Requests, key(r) PROVE IInv' BY <2>2, keyIInv
  <2>3. ASSUME NEW r \in Requests, fetch(r) PROVE IInv' BY <2>3, fetchIInv
  <2>4. ASSUME NEW r \in Requests, GetUserByGoogleSubject(r) PROVE IInv'
    BY <2>4, GetUserByGoogleSubjectIInv
  <2>5. ASSUME NEW r \in Requests, GetUserByEmail(r) PROVE IInv' BY <2>5, GetUserByEmailIInv
  <2>6. ASSUME NEW r \in Requests, BindGoogleSubject(r) PROVE IInv' BY <2>6, BindGoogleSubjectIInv
  <2>7. ASSUME NEW r \in Requests, CreateUser(r) PROVE IInv' BY <2>7, CreateUserIInv
  <2>8. ASSUME NEW r \in Requests, Create(r) PROVE IInv' BY <2>8, CreateIInv
  <2>9. ASSUME NEW r \in Requests, NEW s \in Requests, Get(r, s) PROVE IInv' BY <2>9, GetIInv
  <2>10. ASSUME NEW r \in Requests, Extend(r) PROVE IInv' BY <2>10, ExtendIInv
  <2>11. ASSUME NEW r \in Requests, Authenticate(r) PROVE IInv' BY <2>11, AuthenticateIInv
  <2>12. ASSUME NEW r \in Requests, SignOut(r) PROVE IInv' BY <2>12, SignOutIInv
  <2>13. ASSUME NEW r \in Requests, Expire(r) PROVE IInv' BY <2>13, ExpireIInv
  <2>14. CASE Tick BY <2>14, TickIInv
  <2>15. CASE Rotate BY <2>15, RotateIInv
  <2>16. ASSUME NEW u \in users, RemoveUser(u) PROVE IInv' BY <2>16, RemoveUserIInv
  <2>17. CASE UNCHANGED vars
    <3>1. StateTyped' BY <2>17 DEF IInv, Typed, StateTyped, vars
    <3>2. now \in Nat BY DEF IInv, Typed, StateTyped
    <3>3. Onwards BY <2>17, <3>2 DEF Onwards, vars
    <3>4. KeysAreFresh' BY <2>17 DEF IInv, KeysAreFresh, vars
    <3>5. EndedStay BY <2>17 DEF IInv, EndedAreRevived, EndedStay, vars
    <3> QED BY <2>17, <3>1, <3>3, <3>4, <3>5, Stays DEF vars
  <2> QED BY <2>1, <2>2, <2>3, <2>4, <2>5, <2>6, <2>7, <2>8, <2>9, <2>10, <2>11, <2>12, <2>13, <2>14,
             <2>15, <2>16, <2>17 DEF Next
<1> QED BY <1>1, <1>2, PTL DEF Spec

(* A sign-out ends a session for every request after it, but for a record  *)
(* that a request in flight writes back, and no record serves past Max     *)
(* (session.go Get and Delete), however requests interleave.               *)
THEOREM SessionsAreEnded == Spec => []SessionsEnd
<1>1. IInv => SessionsEnd
  <2> SUFFICES ASSUME IInv PROVE SessionsEnd OBVIOUS
  <2>1. \A s \in ended : store[s] # None => s \in revived BY DEF IInv, EndedAreRevived
  <2>2. \A r \in Requests : UsesSession(reqs[r]) BY DEF IInv, RequestOK
  <2> QED BY <2>1, <2>2 DEF SessionsEnd, UsesSession
<1> QED BY <1>1, SessionsInductive, PTL

(* A token is accepted only by a key published less than MaxAge before, a  *)
(* published key is refused only within MinRefetch of a fetch (jwks.go key *)
(* and fetch), and the loser of a race to create an account finds it       *)
(* (authenticator.go provision), unless an account was lost.               *)
THEOREM SignInsAreExplained == Spec => []SignInsExplained
<1>1. IInv => SignInsExplained
  <2> SUFFICES ASSUME IInv PROVE SignInsExplained OBVIOUS
  <2>1. \A r \in Requests : KeyExplained(reqs[r]) /\ AccountThere(reqs[r]) BY DEF IInv, RequestOK
  <2> QED BY <2>1 DEF SignInsExplained, KeyExplained, AccountThere
<1> QED BY <1>1, SessionsInductive, PTL
=============================================================================
