------------------------------- MODULE Ingest -------------------------------
(***************************************************************************)
(* Statements, and what follows them: an upload is validated, its stated   *)
(* keys are recorded and resolved, its period is replaced and the user's   *)
(* unresolved keys are grouped anew in one transaction, and the identifier *)
(* facts its resolution wrote replay every user's keys that state them.    *)
(* Administrators replay keys and users confirm candidates meanwhile, and  *)
(* the process may restart.                                                *)
(*                                                                         *)
(* A resolution is what Resolve allows one to do, without its instruments: *)
(* a key is left as it was, fixed, or dated through its ticker, some       *)
(* tickers get facts that name an instrument and others facts that say     *)
(* they name nothing; both kinds are followed up.  The order of runs is    *)
(* that of their creation; the lanes and the states of runs are Runner's.  *)
(***************************************************************************)
EXTENDS Claims

CONSTANTS Keys,        \* the stated keys
          Key,         \* what each states: [user, ids]
          Uploads,     \* the uploads users may make
          Upload,      \* what each is: [user, broker, from, before, rows,
                       \* splits], a row being [day, key]
          Today,
          CashRefused,     \* the cash keys the reference data does not hold
          MayTell,     \* the tickers an answer to a key may carry
          MayLack,     \* those of its tickers a datasource may not know
          MaxStmts,    \* bound: statements in all
          MaxOthers,   \* bound: replays, confirmations and failures in all
          MaxChain     \* bound: the listings open beneath a run while a
                       \* ticker may be reported unknown

ASSUME KeysAssumption == IsFiniteSet(Keys) /\ \A k \in Keys : IsFiniteSet(Key[k].ids)

\* An upload states keys of its user.
ASSUME UploadsAssumption ==
    \A u \in Uploads :
        /\ Len(Upload[u].rows) \in Nat /\ DOMAIN Upload[u].rows = 1..Len(Upload[u].rows)
        /\ Len(Upload[u].splits) \in Nat /\ DOMAIN Upload[u].splits = 1..Len(Upload[u].splits)
        /\ \A k \in {r.key : r \in Range(Upload[u].rows)} \cup Range(Upload[u].splits) :
              k \in Keys /\ Key[k].user = Upload[u].user

ASSUME TellsAssumption == \A k \in Keys : NoTicker \notin MayTell[k] \cup MayLack[k]

VARIABLES rows,     \* stated_keys: [id, assoc, arbiter, group] of each key
          txns,     \* txns: [stmt, user, broker, day, key]
          runs,     \* the runs, and the statements: [kind, up, state, settled]
          work,     \* what the goroutine of each run is doing
          facts,    \* the tickers with validity
          unavailable, \* resolution_keys: the keys last left unavailable
          keyLock,  \* the run that holds each user's key lock
          faults,   \* how often something failed
          excused   \* history: keys a follow-up could not reach

vars == <<rows, txns, runs, work, facts, unavailable, keyLock, faults, excused>>

Absent == [id |-> 0, assoc |-> "none", arbiter |-> "none", group |-> 0]
Gone == [step |-> "gone", user |-> "none", keys |-> {}, todo |-> <<>>, known |-> {}, told |-> {},
         frames |-> <<>>, groupable |-> {}]
Free == 0
Users == {Key[k].user : k \in Keys} \cup {Upload[u].user : u \in Uploads}
Runs == DOMAIN runs
Stmts == {p \in Runs : runs[p].kind = "stmt"}
Others == Cardinality(Runs \ Stmts) + faults
Up(p) == Upload[runs[p].up]

-----------------------------------------------------------------------------
(* Validating an upload *)

\* A key is refused when it states nothing, two values of an exclusive type,
\* or a description of another broker.
keyOf(broker, ids) ==
    /\ ids # {}
    /\ \A p, q \in ids : p.type = q.type /\ p.dom = q.dom /\ Exclusive(p) => p = q
    /\ \A p \in ids : p.type = "brokerdesc" => p.dom = broker

validate(up, r) == /\ keyOf(up.broker, Key[r.key].ids)
                   /\ up.from <= r.day /\ r.day < up.before
                   /\ r.day <= Today

ValidRows(up) == At(up.rows, {n \in DOMAIN up.rows : validate(up, up.rows[n])})

\* The keys of an upload, by first appearance: those of its valid rows, and
\* of its splits.
Stated == [u \in Uploads |->
    [n \in DOMAIN ValidRows(Upload[u]) |-> ValidRows(Upload[u])[n].key] \o Upload[u].splits]

Readable(up) == up.from < up.before /\ \A k \in Range(up.splits) : keyOf(up.broker, Key[k].ids)

\* A key stated before keeps its row, another takes the next id.
Upserted(db, k) == IF db[k].id # 0 THEN db ELSE [db EXCEPT ![k].id = Max({db[j].id : j \in Keys}) + 1]

\* The stored rows with those of ks added.
UpsertStatedKeys(db, ks) ==
    LET d[n \in 0..Len(ks)] == IF n = 0 THEN db ELSE Upserted(d[n - 1], ks[n]) IN d[Len(ks)]

\* Keys to resolve, each once, with whether it is read as dated.
ToResolve(db, ks) ==
    LET once == At(ks, {n \in DOMAIN ks : \A m \in 1..(n - 1) : ks[m] # ks[n]})
    IN  [n \in DOMAIN once |-> <<once[n], db[once[n]].assoc = "dated">>]

\* A statement leaves its keys that are fixed as they are.
Unresolved(db, ks) == ToResolve(db, At(ks, {n \in DOMAIN ks : db[ks[n]].assoc # "fixed"}))

\* A new run is queued; todo are the keys it will resolve, as read now.
Queue(kind, up, user, todo) ==
    /\ runs' = Append(runs, [kind |-> kind, up |-> up, state |-> "pending", settled |-> FALSE])
    /\ work' = Append(work, [Gone EXCEPT !.step = "queued", !.user = user, !.todo = todo, !.keys = {t[1] : t \in Range(todo)}])

\* Each upload is made at most once.
Create(u) ==
    /\ Cardinality(Stmts) < MaxStmts /\ \A p \in Stmts : runs[p].up # u
    /\ Readable(Upload[u])
    /\ rows' = UpsertStatedKeys(rows, Stated[u])
    /\ Queue("stmt", u, Upload[u].user, Unresolved(rows', Stated[u]))
    /\ UNCHANGED <<txns, facts, unavailable, keyLock, faults, excused>>

-----------------------------------------------------------------------------
(* Starting a replay or a confirmation *)

\* The keys ks in the order of their ids.
InOrder(ks) ==
    LET last == Max({0} \cup {rows[k].id : k \in ks})
        upTo[n \in 0..last] == IF n = 0 THEN <<>>
                               ELSE IF \E k \in ks : rows[k].id = n
                                    THEN Append(upTo[n - 1], CHOOSE k \in ks : rows[k].id = n) ELSE upTo[n - 1]
    IN  upTo[last]
HasTxn(k) == \E x \in txns : x.key = k

\* The keys of a statement that a scope selects, as the administrator's
\* request reads them.
Unavailable(s) == {k \in Range(Stated[runs[s].up]) : HasTxn(k) /\ k \in unavailable}
UncoveredBy(s) == {k \in Range(Stated[runs[s].up]) : HasTxn(k) /\ rows[k].arbiter # "user" /\ rows[k].assoc # "dated"}

StartReplay ==
    /\ Others < MaxOthers
    /\ \E s \in Stmts : \E ks \in {Unavailable(s), UncoveredBy(s)} \ {{}} :
          Queue("replay", runs[s].up, Up(s).user, ToResolve(rows, InOrder(ks)))
    /\ UNCHANGED <<rows, txns, facts, unavailable, keyLock, faults, excused>>

\* A confirmation reads its key as not associated, and runs at once.
StartConfirm ==
    /\ Others < MaxOthers
    /\ \E k \in Keys :
          /\ rows[k].id # 0 /\ rows[k].assoc = "none"
          /\ runs' = Append(runs, [kind |-> "confirm", up |-> CHOOSE u \in Uploads : TRUE,
                                   state |-> "running", settled |-> FALSE])
          /\ work' = Append(work, [Gone EXCEPT !.step = "confirm", !.user = Key[k].user, !.keys = {k}])
    /\ UNCHANGED <<rows, txns, facts, unavailable, keyLock, faults, excused>>

\* Mutant: a run waits only for the runs before it that still wait.
Earlier_Started(p) == {q \in 1..(p - 1) : /\ work[q].step = "queued" /\ runs[q].kind = runs[p].kind
                                          /\ Up(q).user = Up(p).user
                                          /\ runs[p].kind = "stmt" => Up(q).broker = Up(p).broker}


\* The runs before p in its lane that have not ended.
Earlier(p) == {q \in 1..(p - 1) : /\ work[q].step # "gone" /\ runs[q].kind = runs[p].kind
                                  /\ Up(q).user = Up(p).user
                                  /\ runs[p].kind = "stmt" => Up(q).broker = Up(p).broker}

-----------------------------------------------------------------------------
(* Resolving *)

States(k, t) == t \in MarketTickers(Key[k].ids)

\* A resolution starts: it reads which of the keys w has to do the facts
\* already date.
Reads(w) == [w EXCEPT !.step = IF w.todo = <<>> THEN "lock" ELSE "write", !.told = {},
                      !.known = {k \in w.keys : datedTicker(Key[k]) \in facts}]

\* A queued run begins, and its resolution with it.
Begin(p) == /\ work[p].step = "queued" /\ Earlier(p) = {}
            /\ runs' = [runs EXCEPT ![p].state = "running"]
            /\ work' = [work EXCEPT ![p] = Reads(@)]
            /\ UNCHANGED <<rows, txns, facts, unavailable, keyLock, faults, excused>>

\* What resolving a key, read as dated or not, may come to: told are the
\* tickers it writes facts of that name an instrument, lacked those it writes
\* that a datasource knows nothing of.  A key that is dated, or that the facts
\* date, is asked about only through a lookup of its own ticker on a past day;
\* so may a key that is left unresolved, besides what it was asked.
Outcomes(k, dated, known) ==
    LET own == {datedTicker(Key[k])}
        found(assoc, arbiter, told) ==
            [outcome |-> "matched", assoc |-> assoc, arbiter |-> arbiter, told |-> told, lacked |-> {}]
        left(outcome, told) == [found("none", "none", told) EXCEPT !.outcome = outcome]
        lookups == {{}, MayTell[k] \cap own}
        answered == IF dated THEN {left("matched", told) : told \in lookups}
                    ELSE IF known THEN {found("dated", "stated", told) : told \in lookups}
                    ELSE {left(o, told) : o \in {"unrecognised", "unavailable"}, told \in lookups} \cup
                         {found(IF own # {NoTicker} THEN "dated" ELSE "fixed", "datasource", told) :
                            told \in {{}, MayTell[k]}}
    IN  IF k \in CashRefused THEN {left("rejected", {})}
        ELSE IF statesCurrency(Key[k]) THEN {found("fixed", "stated", {})}
        ELSE {[o EXCEPT !.lacked = lacked] : o \in answered,
                lacked \in {{}, IF dated \/ known THEN MayLack[k] \cap own ELSE MayLack[k]}}

\* A key the user arbitrated is skipped; a fixed key leaves its group.
SetAssociation(row, assoc, arbiter) ==
    IF assoc = "none" \/ row.arbiter = "user" THEN row
    ELSE [row EXCEPT !.assoc = assoc, !.arbiter = arbiter, !.group = IF assoc = "fixed" THEN 0 ELSE @]

\* Resolutions of a key that overlap count in the order of their writes.
recordResolution(k, outcome) ==
    unavailable' = IF outcome = "unavailable" THEN unavailable \cup {k} ELSE unavailable \ {k}

\* Each key is written in a transaction of its own.  A ticker reported unknown
\* is told like one that got a name, and what the facts say of it stands: a
\* datasource's word that a ticker names nothing ends no name before it.
WriteOutcome(p, k, o) ==
    /\ rows' = [rows EXCEPT ![k] = SetAssociation(@, o.assoc, o.arbiter)]
    /\ facts' = facts \cup o.told
    /\ recordResolution(k, o.outcome)
    /\ work' = [work EXCEPT ![p].todo = Tail(@), ![p].told = @ \cup o.told \cup o.lacked,
                            ![p].step = IF Len(work[p].todo) = 1 THEN "lock" ELSE "write"]
    /\ UNCHANGED <<txns, runs, keyLock, faults, excused>>

WriteKey(p) ==
    /\ work[p].step = "write"
    /\ LET k == Head(work[p].todo)[1]
       IN  \E o \in Outcomes(k, Head(work[p].todo)[2], k \in work[p].known) :
              /\ o.lacked = {} \/ Len(work[p].frames) < MaxChain
              /\ WriteOutcome(p, k, o)

\* The keys that only a follow-up of p would still reach.
Awaiting(p) == {k \in Keys : \/ \E n \in DOMAIN work[p].todo : work[p].todo[n][1] = k
                             \/ \E t \in work[p].told : States(k, t)
                             \/ \E n \in DOMAIN work[p].frames :
                                   \/ k \in work[p].frames[n].listed
                                   \/ \E t \in work[p].frames[n].tickers : States(k, t)}

\* A run that fails never follows the facts it wrote.  A statement or a
\* replay an administrator started ends; a follow-up's failure is logged and
\* the follow-ups it is beneath go on.
Fails(p) ==
    /\ Others < MaxOthers
    /\ faults' = faults + 1
    /\ IF work[p].frames = <<>>
       THEN /\ runs' = [runs EXCEPT ![p].state = "failed"]
            /\ work' = [work EXCEPT ![p] = Gone]
       ELSE /\ work' = [work EXCEPT ![p].step = "follow", ![p].keys = {}, ![p].known = {}, ![p].todo = <<>>, ![p].told = {}, ![p].groupable = {}]
            /\ UNCHANGED runs

\* A key's write fails, or recording the facts once the keys are written.
FailResolution(p) ==
    /\ work[p].step \in {"write", "lock"}
    /\ Fails(p)
    /\ excused' = excused \cup Awaiting(p)
    /\ UNCHANGED <<rows, txns, facts, unavailable, keyLock>>

\* The user takes a candidate, or the answers no longer offer it.
WriteConfirmed(p) ==
    /\ work[p].step = "confirm"
    /\ \E k \in work[p].keys : \E told \in {{}, MayTell[k]}, lacked \in {{}, MayLack[k]} :
          /\ rows' = [rows EXCEPT ![k] = SetAssociation(@, "fixed", "user")]
          /\ facts' = facts \cup told
          /\ recordResolution(k, "matched")
          /\ work' = [work EXCEPT ![p].step = "follow", ![p].keys = {},
                                      ![p].frames = <<[except |-> {k}, tickers |-> told \cup lacked, listed |-> {}, picked |-> {}]>>]
    /\ runs' = [runs EXCEPT ![p].state = "completed"]
    /\ UNCHANGED <<txns, keyLock, faults, excused>>

RefuseConfirm(p) == /\ work[p].step = "confirm"
                    /\ runs' = [runs EXCEPT ![p].state = "failed"]
                    /\ work' = [work EXCEPT ![p] = Gone]
                    /\ UNCHANGED <<rows, txns, facts, unavailable, keyLock, faults, excused>>

-----------------------------------------------------------------------------
(* Writing the statement, and grouping *)

Joining(id) == Traits[id.type].domain = "global" \/ id.dom # ""

find(parent, k) == LET root[j \in Keys] == IF parent[j] = j THEN j ELSE root[parent[j]] IN root[k]

\* Mutant: the keys are joined without their roots.
union_NoRoots(parent, a, b) == IF rows[a].id < rows[b].id THEN [parent EXCEPT ![b] = a] ELSE [parent EXCEPT ![a] = b]

\* The components of a and b are joined, under the earlier root.
union(parent, a, b) ==
    LET ra == find(parent, a)
        rb == find(parent, b)
    IN  IF rows[ra].id < rows[rb].id THEN [parent EXCEPT ![rb] = ra] ELSE [parent EXCEPT ![ra] = rb]

\* An identifier stated before joins the key with the first that stated it.
join(s, id, k) == IF id \in DOMAIN s.first THEN [s EXCEPT !.parent = union(@, s.first[id], k)]
                  ELSE [s EXCEPT !.first = [i \in DOMAIN s.first \cup {id} |-> IF i = id THEN k ELSE s.first[i]]]

\* The identifiers of a key in turn, and the keys in turn.
joinKey(s0, k) ==
    LET ids == SetToSeq({i \in Key[k].ids : Joining(i)})
        s[n \in 0..Len(ids)] == IF n = 0 THEN s0 ELSE join(s[n - 1], ids[n], k)
    IN  s[Len(ids)]
joinKeys(ks) ==
    LET s[n \in 0..Len(ks)] == IF n = 0 THEN [parent |-> [k \in Keys |-> k], first |-> <<>>]
                               ELSE joinKey(s[n - 1], ks[n])
    IN  s[Len(ks)]

\* The group of each key: the id of the earliest key it is joined with.
of(parent, ks) == [k \in ks |-> rows[find(parent, k)].id]

\* The rows of a statement that are accepted: a key read with no instrument
\* when it was uploaded is rejected when its resolution rejected it.
AcceptedRows == [u \in Uploads |-> {r \in Range(Upload[u].rows) : validate(Upload[u], r) /\ r.key \notin CashRefused}]
Accepted(p) == {[stmt |-> p, user |-> Up(p).user, broker |-> Up(p).broker, day |-> r.day, key |-> r.key] :
                  r \in AcceptedRows[runs[p].up]}

DeleteTxns(p) == {x \in txns : /\ x.user = Up(p).user /\ x.broker = Up(p).broker
                               /\ Up(p).from <= x.day /\ x.day < Up(p).before}

\* A statement's resolution is done, none of its follow-ups has begun.
Writing(p) == runs[p].kind = "stmt" /\ work[p].frames = <<>>

\* The transactions once p's transaction commits.
Written(p) == IF Writing(p) THEN (txns \ DeleteTxns(p)) \cup Accepted(p) ELSE txns

\* Mutant: the keys to group are listed before the rows are written.
ListGroupableKeys_Before(p) == {k \in Keys : /\ Key[k].user = work[p].user /\ rows[k].assoc # "fixed"
                                             /\ \E x \in txns : x.key = k}

ListGroupableKeys(p) == {k \in Keys : /\ Key[k].user = work[p].user /\ rows[k].assoc # "fixed"
                                      /\ \E x \in Written(p) : x.key = k}

LockUserKeys(p) ==
    /\ work[p].step = "lock" /\ keyLock[work[p].user] = Free
    /\ keyLock' = [keyLock EXCEPT ![work[p].user] = p]
    /\ work' = [work EXCEPT ![p].step = "locked", ![p].groupable = ListGroupableKeys(p)]
    /\ UNCHANGED <<rows, txns, runs, facts, unavailable, faults, excused>>

\* Every group of the user is set anew; a key fixed since is skipped.
Regroup(db, user, groups) == [k \in Keys |->
    IF Key[k].user # user THEN db[k]
    ELSE [db[k] EXCEPT !.group = IF k \in DOMAIN groups /\ db[k].assoc # "fixed" THEN groups[k] ELSE 0]]

\* A key with neither a transaction nor a link to a statement is deleted.
SweepStatedKeys(db, user, written) == [k \in Keys |->
    IF /\ Key[k].user = user
       /\ \A x \in written : x.key # k
       /\ \A s \in Stmts : k \notin Range(Stated[runs[s].up])
    THEN Absent ELSE db[k]]

\* A listing that is followed up in full has nothing left to do once the
\* replay beneath it returns.
Pending(frames) == IF frames # <<>> /\ Head(frames).listed = {} /\ Head(frames).tickers = {} THEN Tail(frames) ELSE frames

\* The transaction commits: the period is replaced, the groups are set and,
\* for a statement, the run completes.  The follow-ups come next.
Commit(p) ==
    /\ work[p].step = "locked"
    /\ txns' = Written(p)
    /\ \E order \in {InOrder(work[p].groupable)} : \E parent \in {joinKeys(order).parent} :
          LET grouped == Regroup(rows, work[p].user, of(parent, work[p].groupable))
          IN  rows' = IF Writing(p) THEN SweepStatedKeys(grouped, work[p].user, Written(p)) ELSE grouped
    /\ runs' = IF work[p].frames = <<>> THEN [runs EXCEPT ![p].state = "completed"] ELSE runs
    /\ keyLock' = [keyLock EXCEPT ![work[p].user] = Free]
    /\ work' = [work EXCEPT ![p].step = "follow", ![p].keys = {}, ![p].known = {}, ![p].told = {}, ![p].groupable = {},
                   ![p].frames = <<[except |-> work[p].keys, tickers |-> work[p].told,
                                    listed |-> {}, picked |-> {}]>> \o Pending(@)]
    /\ UNCHANGED <<facts, unavailable, faults, excused>>

FailWrite(p) ==
    /\ work[p].step = "locked"
    /\ keyLock' = [keyLock EXCEPT ![work[p].user] = Free]
    /\ Fails(p)
    /\ excused' = excused \cup Awaiting(p)
    /\ UNCHANGED <<rows, txns, facts, unavailable>>

-----------------------------------------------------------------------------
(* Following new facts *)

\* Mutant: only the keys last left unavailable are replayed.
ListUnassociatedKeysStating_Unavailable(t, f) ==
    {k \in Keys : /\ rows[k].id # 0 /\ States(k, t) /\ rows[k].assoc = "none" /\ k \notin f.except /\ HasTxn(k)
                  /\ k \in unavailable}

\* Every user's keys that are not associated, have a transaction and state
\* the ticker at a venue of its market, except those the run resolved.
ListUnassociatedKeysStating(t, f) ==
    {k \in Keys : rows[k].id # 0 /\ States(k, t) /\ rows[k].assoc = "none" /\ k \notin f.except /\ HasTxn(k)}

\* The keys some run has read and not yet written the transactions of.
InFlight == UNION {work[q].keys : q \in {r \in Runs : work[r].step \in {"write", "lock", "locked"}}}

\* The listing being followed up.
Top(p) == Head(work[p].frames)

replayFacts(p) ==
    /\ work[p].step = "follow" /\ work[p].frames # <<>>
    /\ LET f == Top(p)
       IN  /\ f.listed = {}
           /\ \E t \in f.tickers :
                 /\ work' = [work EXCEPT ![p].frames[1] =
                                [f EXCEPT !.tickers = @ \ {t}, !.listed = ListUnassociatedKeysStating(t, f) \ f.picked,
                                          !.picked = @ \cup ListUnassociatedKeysStating(t, f)]]
                 /\ excused' = excused \cup {k \in f.except \cup InFlight : States(k, t)}
    /\ UNCHANGED <<rows, txns, runs, facts, unavailable, keyLock, faults>>

\* A probe or a listing fails: it is logged, and the next ticker follows.
FailListing(p) ==
    /\ Others < MaxOthers /\ faults' = faults + 1 /\ work[p].step = "follow" /\ work[p].frames # <<>>
    /\ \E t \in Top(p).tickers :
          /\ Top(p).listed = {}
          /\ work' = [work EXCEPT ![p].frames[1] = [Top(p) EXCEPT !.tickers = @ \ {t}]]
          /\ excused' = excused \cup {k \in Keys : States(k, t)}
    /\ UNCHANGED <<rows, txns, runs, facts, unavailable, keyLock>>

\* The listed keys of one user are replayed, beneath p.
replayKeys(p) ==
    /\ work[p].step = "follow" /\ work[p].frames # <<>>
    /\ \E u \in {Key[k].user : k \in Top(p).listed} :
          LET ks == {k \in Top(p).listed : Key[k].user = u}
          IN  work' = [work EXCEPT ![p] = Reads([@ EXCEPT !.user = u, !.keys = ks, !.todo = ToResolve(rows, InOrder(ks)),
                                                         !.frames[1] = [Top(p) EXCEPT !.listed = @ \ ks]])]
    /\ UNCHANGED <<rows, txns, runs, facts, unavailable, keyLock, faults, excused>>

\* A listing is followed up in full: the one above it goes on, or the run
\* ends; a statement still has to be settled.
FollowedUp(p) ==
    /\ work[p].step = "follow"
    /\ Top(p).listed = {} /\ Top(p).tickers = {}
    /\ work' = [work EXCEPT ![p] = IF Len(work[p].frames) > 1 THEN [work[p] EXCEPT !.frames = Tail(@)]
                                   ELSE IF runs[p].kind = "stmt" THEN [work[p] EXCEPT !.step = "settle"] ELSE Gone]
    /\ UNCHANGED <<rows, txns, runs, facts, unavailable, keyLock, faults, excused>>

SettleStmt(p) == /\ work[p].step = "settle"
                 /\ runs' = [runs EXCEPT ![p].settled = TRUE]
                 /\ work' = [work EXCEPT ![p] = Gone]
                 /\ UNCHANGED <<rows, txns, facts, unavailable, keyLock, faults, excused>>

\* Settling fails; the run is completed already, and stays so.
FailSettle(p) == /\ Others < MaxOthers /\ faults' = faults + 1 /\ work[p].step = "settle"
                 /\ work' = [work EXCEPT ![p] = Gone]
                 /\ UNCHANGED <<rows, txns, runs, facts, unavailable, keyLock, excused>>

\* The process stops and boots: what was under way is lost, every run that
\* has not ended is interrupted and every statement is settled.
Restart ==
    /\ Others < MaxOthers /\ \E p \in Runs : work[p].step # "gone"
    /\ faults' = faults + 1
    /\ work' = [p \in Runs |-> Gone]
    /\ keyLock' = [u \in Users |-> Free]
    /\ runs' = [p \in Runs |-> [runs[p] EXCEPT
                  !.state = IF @ \in {"pending", "running"} THEN "interrupted" ELSE @,
                  !.settled = runs[p].kind = "stmt"]]
    /\ excused' = excused \cup UNION {Awaiting(p) : p \in Runs}
    /\ UNCHANGED <<rows, txns, facts, unavailable>>
-----------------------------------------------------------------------------

Init == /\ rows = [k \in Keys |-> Absent]
        /\ txns = {}
        /\ runs = <<>>
        /\ work = <<>>
        /\ facts = {}
        /\ unavailable = {}
        /\ keyLock = [u \in Users |-> Free]
        /\ faults = 0
        /\ excused = {}

\* A step of the goroutine of a run.
Step(p) == \/ Begin(p) \/ WriteKey(p) \/ FailResolution(p)
           \/ WriteConfirmed(p) \/ RefuseConfirm(p) \/ LockUserKeys(p) \/ Commit(p) \/ FailWrite(p)
           \/ replayFacts(p) \/ FailListing(p) \/ replayKeys(p) \/ FollowedUp(p) \/ SettleStmt(p) \/ FailSettle(p)

Next == \/ \E u \in Uploads : Create(u)
        \/ StartReplay \/ StartConfirm
        \/ \E p \in Runs : Step(p)
        \/ Restart

\* While a goroutine has a step to take, some goroutine takes one.
Fairness == WF_vars(\E p \in Runs : Step(p))

Spec == Init /\ [][Next]_vars /\ Fairness
-----------------------------------------------------------------------------
(* Properties *)

Covering(u, b, d) == {p \in Stmts : /\ Up(p).user = u /\ Up(p).broker = b /\ runs[p].state = "completed"
                                    /\ Up(p).from <= d /\ d < Up(p).before}

\* The transactions of a day at a broker are those that the last statement
\* uploaded for it states, of those written, however long each resolution took
\* (write.go, write; the lane of stmt.go, Create).
LastUploadWins ==
    \A a \in {<<Upload[u].user, Upload[u].broker>> : u \in Uploads} : \A d \in 1..Today :
        LET on == {x \in txns : x.user = a[1] /\ x.broker = a[2] /\ x.day = d}
            by == Covering(a[1], a[2], d)
        IN  on = IF by = {} THEN {} ELSE {x \in Accepted(Max(by)) : x.day = d}

\* A key with a transaction has an instrument or a group, so a holding counts
\* it: no dated key is left outside the groups, which would fail the list of
\* the user's holdings (holding.go, groups: "so this is a defect").
EveryHoldingCounted == \A k \in Keys : HasTxn(k) => rows[k].id # 0 /\ (rows[k].assoc = "fixed" \/ rows[k].group # 0)

\* Two keys of a user state one joining identifier.
Share(j, k) == Key[j].user = Key[k].user /\ \E id \in Key[j].ids \cap Key[k].ids : Joining(id)

\* The keys k shares a joining identifier with, transitively: those in every
\* set that holds k and, with a key, those it shares one with.
Connected == [k \in Keys |->
    {j \in Keys : \A S \in SUBSET Keys : k \in S /\ (\A i \in S : \A l \in Keys : Share(i, l) => l \in S) => j \in S}]

\* Two grouped keys that share a joining identifier share their group, and
\* keys of one group are connected through identifiers, whatever was fixed or
\* regrouped in between (group.go, of and Regroup).
GroupsFollowIdentifiers ==
    \A j, k \in {i \in Keys : rows[i].group # 0} :
        /\ Share(j, k) => rows[j].group = rows[k].group
        /\ rows[j].group = rows[k].group => k \in Connected[j]

\* Once nothing runs, a key held that states a ticker with validity is
\* associated: the follow-ups reached it, unless one failed or was cut off, or
\* the key was itself being resolved when they listed the keys (replayrun.go,
\* replayFacts).
FactsReachKeys ==
    (\A p \in Runs : work[p].step = "gone") =>
        \A k \in Keys \ excused : HasTxn(k) /\ datedTicker(Key[k]) \in facts => rows[k].assoc # "none"

Live(p) == \/ runs[p].state \in {"pending", "running"}
           \/ runs[p].state = "completed" /\ ~runs[p].settled

\* A resolution reports a ticker that no facts name an instrument by.
ReportsUnknown(p) == work'[p].told \ (work[p].told \cup facts') # {}

Stopped == \A p \in Stmts : Live(p) => runs[p].state = "completed" /\ work[p].step = "gone"


\* Every statement stops being live, unless settling it failed: "the chain of
\* replays ends" (replayrun.go, work).  The code does not keep it: two keys
\* that state a ticker a datasource does not know replay each other for ever.
StmtStops == <>[]Stopped
=============================================================================
