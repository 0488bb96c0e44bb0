----------------------------- MODULE FactWrites -----------------------------
(***************************************************************************)
(* Concurrent writers of identifier facts: Record (answers of              *)
(* datasources), a resolution that may merge two instruments, identifier   *)
(* attestations and their withdrawal, and the batched rebuild that follows *)
(* a reorder of the datasources.  Each write is one Read Committed         *)
(* transaction.  Every statement is a step of its own where another        *)
(* transaction may fall in between; what a transaction wrote is seen by    *)
(* others when it commits.                                                 *)
(*                                                                         *)
(* A ticker, an instrument and an identifier are numbers, in id order.  A  *)
(* fact says ticker t names instrument i from day n on.  What a derivation *)
(* yields is kept as what it was made from: the facts of the ticker and    *)
(* the precedence order.  One market.                                      *)
(***************************************************************************)
EXTENDS Integers, FiniteSets, FiniteSetsExt

CONSTANTS Tickers,      \* ticker ids
          Instrs,       \* instrument ids
          Identifiers,  \* stable identifiers
          OwnerAtStart, \* the instrument each identifier is stored on
          Stated,       \* the sets of identifiers an answer states
          FactsAtStart, \* facts some of which are stored at the start
          Writers,      \* bound: writes; the number is the day of its fact
          Rebuilder,    \* the rebuild ticker validity run
          Kinds,        \* the kinds of write that writers make
          Batch,        \* tickers per transaction of the rebuild
          MaxOrders,    \* bound: reorders
          Tries         \* attempts of a transaction

Fact == [t : Tickers, i : Instrs \cup {0}, n : Nat, attested : BOOLEAN]

ASSUME FactWritesAssumption ==
    /\ Tickers \subseteq Nat \ {0} /\ Instrs \subseteq Nat \ {0} /\ Identifiers \subseteq Nat \ {0}
    /\ IsFiniteSet(Tickers) /\ IsFiniteSet(Instrs) /\ IsFiniteSet(Identifiers)
    /\ OwnerAtStart \in [Identifiers -> Instrs]
    /\ \A s \in Stated : s # {} /\ s \subseteq Identifiers /\ Cardinality(s) <= 2
    /\ FactsAtStart \subseteq Fact
    /\ Writers \subseteq Nat /\ Rebuilder \notin Writers
    /\ Kinds \subseteq {"record", "resolve", "attest", "withdraw"}
    /\ Batch \in Nat \ {0} /\ MaxOrders \in Nat /\ Tries \in Nat \ {0}

VARIABLES created,    \* tickers: the rows that exist
          facts,      \* identifier_assertions
          owner,      \* identifiers: the instrument of each
          live,       \* instrs: the rows that exist
          order,      \* datasources: the precedence order in force, by number
          validity,   \* ticker_validity: what each ticker's rows were derived from
          names,      \* resolved_tickers: the row of each instrument
          tx,         \* the transaction of each process
          asked,      \* rebuilds started and not yet running
          caughtUp,   \* history: the order in force as the last full rebuild began
          overlooked, \* history: tickers the survivor of a merge held, moved unlocked
          adrift      \* history: instruments whose facts a write changed unlocked

history == <<caughtUp, overlooked, adrift>>
vars == <<created, facts, owner, live, order, validity, names, tx, asked, history>>
db == <<created, facts, owner, live, order, validity, names>>

Procs == Writers \cup {Rebuilder}
None == 0
Never == 99
NoName == [t |-> None, last |-> None, end |-> None]
NoOp == [kind |-> "none", ids |-> {}, t |-> None, i |-> None, n |-> None]
Idle == [step |-> "idle", op |-> NoOp, tries |-> 1, todo |-> {}, got |-> {}, i |-> None,
         loser |-> None, held |-> {}, add |-> {}, del |-> {}, pairs |-> {}, read |-> {},
         order |-> 0, after |-> None, began |-> 0]

-----------------------------------------------------------------------------
(* What a transaction sees and holds *)

View(w) == (facts \ tx[w].del) \cup tx[w].add
TickersOf(F, I) == {f.t : f \in {g \in F : g.i \in I}}
LockedTickers(w) == {l[2] : l \in {x \in tx[w].got : x[1] = "ticker"}}
Running(w) == tx[w].step \notin {"idle", "done", "failed"}

\* The instrument rows a transaction has deleted, and those its rows refer to.
Gone(w) == IF tx[w].step \in {"check", "write", "pairs", "instrs", "read", "commit"}
           THEN {tx[w].loser} \ {None} ELSE {}
Refers(w) == {f.i : f \in tx[w].add}
             \cup (IF tx[w].loser # None /\ (Gone(w) # {} \/ tx[w].step = "delete") THEN {tx[w].i} ELSE {})

Locks(class, S) == {<<class, x>> : x \in S}

\* Mutant: only the rebuild locks in order, writers as they meet them.
NextLock_AsMet(w) == CHOOSE l \in tx[w].todo :
    \A m \in tx[w].todo : IF w = Rebuilder THEN l[2] <= m[2] ELSE l[2] >= m[2]

\* Locks of one kind are taken in one order, whatever the caller's.
NextLock(w) == CHOOSE l \in tx[w].todo : \A m \in tx[w].todo : l[2] <= m[2]

Holders(l) == {v \in Procs : l \in tx[v].got}

-----------------------------------------------------------------------------
(* tickervalidity: what facts imply *)

\* The days of an instrument's facts by ticker, and those of other instruments on
\* its tickers: what resolveNames has of it.
Dated(F) == {<<f.t, f.n>> : f \in F}
Own(i, F) == Dated({f \in F : f.i = i})
Rivals(i, F) == Dated({f \in F : f.i # i /\ f.t \in TickersOf(F, {i})})
Days(P, t) == {p[2] : p \in {q \in P : q[1] = t}}

\* The ticker that names an instrument last, and until when: the row that
\* resolveNames gives.
NameFrom(own, rivals) ==
    LET Last(t) == Max(Days(own, t))
        End(t) == LET later == {n \in Days(rivals, t) : n > Last(t)}
                  IN IF later = {} THEN Never ELSE Min(later)
        Before(t, u) == \/ End(t) > End(u)
                        \/ End(t) = End(u) /\ Last(t) > Last(u)
                        \/ End(t) = End(u) /\ Last(t) = Last(u) /\ t < u
        ts == {p[1] : p \in own}
        best == CHOOSE t \in ts : \A u \in ts \ {t} : Before(t, u)
    IN IF ts = {} THEN NoName ELSE [t |-> best, last |-> Last(best), end |-> End(best)]

Resolve(i, F) == NameFrom(Own(i, F), Rivals(i, F))

FactsOf(t, F) == {f \in F : f.t = t}
Derived(t, F, o) == [facts |-> FactsOf(t, F), order |-> o]
Named(i, F, o) == [row |-> Resolve(i, F), order |-> o]

Init == /\ \E F \in SUBSET FactsAtStart :
              /\ facts = F
              /\ created = {f.t : f \in F}
              /\ validity = [t \in Tickers |-> Derived(t, F, 0)]
              /\ names = [i \in Instrs |-> Named(i, F, 0)]
        /\ owner = OwnerAtStart /\ live = Instrs
        /\ order = 0 /\ asked = 0 /\ caughtUp = 0 /\ overlooked = {} /\ adrift = {}
        /\ tx = [w \in Procs |-> Idle]

-----------------------------------------------------------------------------
(* Steps of a transaction *)

\* The step after the last lock of a phase.
AfterLocks(t) ==
    CASE t.step = "ids"     -> IF t.op.kind = "record" THEN "tickers" ELSE "find"
      [] t.step = "tickers" -> IF t.op.kind = "record" THEN "find"
                               ELSE IF t.op.kind = "rebuild" THEN "pairs"
                               ELSE IF t.loser # None THEN "held" ELSE "write"
      [] t.step = "instrs"  -> "read"

\* A transaction with nothing left to lock moves on.
Proceed(t) == IF t.step \in {"ids", "tickers", "instrs"} /\ t.todo = {}
              THEN LET s == AfterLocks(t)
                   IN [t EXCEPT !.step = s, !.todo = IF s = "tickers" THEN {<<"ticker", t.op.t>>} ELSE {}]
              ELSE t

Set(w, t) == tx' = [tx EXCEPT ![w] = Proceed(t)]

\* The transaction of an operation as it begins: advisory locks of identifiers
\* first, ticker rows where the operation states none.
Begun(op) == [Idle EXCEPT !.op = op, !.i = op.i,
                          !.step = IF op.ids # {} THEN "ids" ELSE "tickers",
                          !.todo = IF op.ids # {} THEN Locks("identifier", op.ids)
                                   ELSE Locks("ticker", {op.t})]

Ended(w, how) == [Idle EXCEPT !.step = how, !.op = tx[w].op]

\* The next batch of a rebuild: the first tickers after the last one rebuilt.
NextBatch(after) ==
    LET rest == {t \in created : t > after}
    IN {t \in rest : Cardinality({u \in rest : u < t}) < Batch}

RebuildFrom(after, began) ==
    [Idle EXCEPT !.op = [NoOp EXCEPT !.kind = "rebuild"], !.step = "tickers", !.began = began,
                 !.after = after, !.todo = Locks("ticker", NextBatch(after))]

\* A failure another transaction caused runs the write again, up to Tries times.
Retried(w) ==
    IF tx[w].tries >= Tries THEN Ended(w, "failed")
    ELSE [(IF w = Rebuilder THEN RebuildFrom(tx[w].after, tx[w].began) ELSE Begun(tx[w].op))
             EXCEPT !.tries = tx[w].tries + 1]

\* The ticker rows are created and committed before the transaction begins.
StartRecord(w, ids, t) ==
    /\ tx[w].step = "idle"
    /\ created' = created \cup {t}
    /\ Set(w, Begun([kind |-> "record", ids |-> ids, t |-> t, i |-> None, n |-> w]))
    /\ UNCHANGED <<facts, owner, live, order, validity, names, asked, history>>

StartResolve(w, ids, t) ==
    /\ tx[w].step = "idle"
    /\ created' = created \cup {t}
    /\ Set(w, Begun([kind |-> "resolve", ids |-> ids, t |-> t, i |-> None, n |-> w]))
    /\ UNCHANGED <<facts, owner, live, order, validity, names, asked, history>>

\* An administrator attests a stored instrument, or that the ticker names nothing.
StartAttest(w, t, i) ==
    /\ tx[w].step = "idle" /\ i \in live \cup {None}
    /\ created' = created \cup {t}
    /\ Set(w, Begun([kind |-> "attest", ids |-> {}, t |-> t, i |-> i, n |-> w]))
    /\ UNCHANGED <<facts, owner, live, order, validity, names, asked, history>>

StartWithdraw(w, f) ==
    /\ tx[w].step = "idle" /\ f.attested
    /\ Set(w, Begun([kind |-> "withdraw", ids |-> {}, t |-> f.t, i |-> None, n |-> f.n]))
    /\ UNCHANGED <<db, asked, history>>

\* An advisory lock or a ticker row, once no other transaction holds it.
TakeLock(w) ==
    /\ tx[w].step \in {"ids", "tickers", "instrs"}
    /\ Holders(NextLock(w)) = {}
    /\ Set(w, [tx[w] EXCEPT !.got = @ \cup {NextLock(w)}, !.todo = @ \ {NextLock(w)}])
    /\ UNCHANGED <<db, asked, history>>

\* Record reads the owner of its first identifier under all its locks.
FindInstr(w) ==
    /\ tx[w].step = "find" /\ tx[w].op.kind = "record"
    /\ Set(w, [tx[w] EXCEPT !.i = owner[Min(tx[w].op.ids)], !.step = "write"])
    /\ UNCHANGED <<db, asked, history>>

\* A resolution reads its target before it locks tickers: the one instrument its
\* identifiers name; or of two, either where they contradict, or the earlier, with
\* the later to be merged into it, whose tickers are listed to be locked too.
FindTarget(w) ==
    LET found == {owner[x] : x \in tx[w].op.ids} IN
    /\ tx[w].step = "find" /\ tx[w].op.kind = "resolve"
    /\ \E target \in found, loser \in found \cup {None} :
          /\ loser # None => target < loser
          /\ Set(w, [tx[w] EXCEPT !.i = target, !.loser = loser, !.step = "tickers",
                        !.todo = Locks("ticker", {tx[w].op.t} \cup TickersOf(facts, {loser} \ {None}))])
    /\ UNCHANGED <<db, asked, history>>

\* The tickers the survivor of a merge already has.
ListHeld(w) ==
    /\ tx[w].step = "held"
    /\ Set(w, [tx[w] EXCEPT !.held = TickersOf(facts, {tx[w].i}), !.step = "relink"])
    /\ UNCHANGED <<db, asked, history>>

\* The fold: identifiers and assertions of the loser become the survivor's.  An
\* UPDATE waits for the transaction that last wrote a row, and for one deleting
\* the row it refers to.
Others(w) == Procs \ {w}
RowsBusy(w, F) == {v \in Others(w) : tx[v].del \cap F # {}}
Deleting(w, I) == {v \in Others(w) : Gone(v) \cap I # {}}
Referring(w, I) == {v \in Others(w) : Refers(v) \cap I # {}}
Folding(w) == {v \in Others(w) : tx[v].loser = tx[w].loser /\ (Gone(v) # {} \/ tx[v].step = "delete")}
OfLoser(w) == {f \in facts : f.i = tx[w].loser}

Relink(w) ==
    LET rows == OfLoser(w)
    IN /\ tx[w].step = "relink"
       /\ RowsBusy(w, rows) \cup Deleting(w, {tx[w].i}) \cup Folding(w) = {}
       /\ Set(w, IF tx[w].i \notin live THEN Ended(w, "failed")
                 ELSE [tx[w] EXCEPT !.del = rows, !.add = {[f EXCEPT !.i = tx[w].i] : f \in rows},
                                    !.step = "delete"])
       /\ UNCHANGED <<db, asked, history>>

\* The loser's row goes once nothing uncommitted refers to it; an assertion that
\* still does is a foreign key violation, which Tx does not run again.
DeleteInstr(w) ==
    /\ tx[w].step = "delete"
    /\ Referring(w, {tx[w].loser}) = {}
    /\ Set(w, IF \E f \in View(w) : f.i = tx[w].loser THEN Ended(w, "failed")
              ELSE [tx[w] EXCEPT !.step = "check"])
    /\ UNCHANGED <<db, asked, history>>

\* Mutant: the merge trusts the list of tickers it locked.
Known_Unchecked(w) == Tickers

\* The tickers a merge may find on the survivor afterwards.
Known(w) == tx[w].held \cup LockedTickers(w)

CheckMoved(w) ==
    /\ tx[w].step = "check"
    /\ Set(w, IF TickersOf(View(w), {tx[w].i}) \subseteq Known(w)
              THEN [tx[w] EXCEPT !.step = "write"] ELSE Retried(w))
    /\ UNCHANGED <<db, asked, history>>

\* The write of the fact itself, or of its withdrawal.
Assert(w) ==
    LET op == tx[w].op
        fact == [t |-> op.t, i |-> tx[w].i, n |-> op.n, attested |-> op.kind = "attest"]
    IN /\ tx[w].step = "write" /\ op.kind # "withdraw"
       /\ Deleting(w, {fact.i}) = {}
       /\ Set(w, IF fact.i \notin live \cup {None} THEN Ended(w, "failed")
                 ELSE [tx[w] EXCEPT !.add = @ \cup {fact}, !.step = "pairs"])
       /\ UNCHANGED <<db, asked, history>>

\* A resolution may assert nothing after all: its class contradicts the target's,
\* or no claim holds.  What it locked is rebuilt nevertheless.
Decline(w) ==
    /\ tx[w].step = "write" /\ tx[w].op.kind = "resolve"
    /\ Set(w, [tx[w] EXCEPT !.step = "pairs"])
    /\ UNCHANGED <<db, asked, history>>

Withdrawn(w) == {f \in facts : f.t = tx[w].op.t /\ f.n = tx[w].op.n}

DeleteAssertion(w) ==
    /\ tx[w].step = "write" /\ tx[w].op.kind = "withdraw"
    /\ RowsBusy(w, Withdrawn(w)) = {}
    /\ Set(w, IF Withdrawn(w) = {} THEN Ended(w, "failed")
              ELSE [tx[w] EXCEPT !.del = Withdrawn(w), !.step = "pairs"])
    /\ UNCHANGED <<db, asked, history>>

-----------------------------------------------------------------------------
(* Rebuild *)

\* The instruments whose names the locked tickers' facts or rows touch.
Touched(w) ==
    {f.i : f \in {g \in View(w) : g.t \in LockedTickers(w) /\ g.i # None}}
    \cup {i \in live \ Gone(w) : names[i].row.t \in LockedTickers(w)}

\* Mutant: a rebuild does not lock the instruments whose names it rewrites.
InstrLocks_None(I) == {}

InstrLocks(I) == Locks("instr", I)

ListPairs(w) ==
    /\ tx[w].step = "pairs"
    /\ Set(w, [tx[w] EXCEPT !.pairs = Touched(w), !.todo = InstrLocks(Touched(w)), !.step = "instrs"])
    /\ UNCHANGED <<db, asked, history>>

\* The facts and the precedence in force, read under every lock.
ReadFacts(w) ==
    /\ tx[w].step = "read"
    /\ Set(w, [tx[w] EXCEPT !.read = View(w), !.order = order, !.step = "commit"])
    /\ UNCHANGED <<db, asked, history>>

\* The instruments the rebuilt rows refer to.
Written(w) == {f.i : f \in {g \in tx[w].read : g.t \in LockedTickers(w) /\ g.i # None}}
              \cup {i \in tx[w].pairs : Resolve(i, tx[w].read) # NoName}

\* Mutant: a full batch is taken for the last.
LastBatch_AtMost(n) == n <= Batch

LastBatch(n) == n < Batch

\* The loser's identifiers become the survivor's.
Relinked(w) == [x \in Identifiers |-> IF owner[x] \in Gone(w) THEN tx[w].i ELSE owner[x]]

\* The instruments whose facts it changed without the lock that keeps their names:
\* a withdrawal took a fact of one it had not listed, or a merge moved to the
\* survivor a fact of a ticker it had not locked.
Unlocked(w) == ({f.i : f \in tx[w].del} \ tx[w].pairs)
               \cup {f.i : f \in {g \in tx[w].add : g.t \notin LockedTickers(w)}}

\* The rebuilt rows are written and the transaction commits.  Rows of a deleted
\* instrument go with it.
Commit(w) ==
    LET locked == LockedTickers(w)
        last == LastBatch(Cardinality(locked))
        moved == TickersOf(tx[w].del, {tx[w].loser})
    IN /\ tx[w].step = "commit"
       /\ Deleting(w, Written(w)) = {}
       /\ Written(w) \subseteq live \ Gone(w)
       /\ facts' = View(w)
       /\ live' = live \ Gone(w)
       /\ owner' = Relinked(w)
       /\ validity' = [t \in Tickers |->
              IF t \in locked THEN Derived(t, tx[w].read, tx[w].order)
              ELSE [validity[t] EXCEPT !.facts = {f \in @ : f.i \notin Gone(w)}]]
       /\ names' = [i \in Instrs |->
              IF i \in Gone(w) THEN [names[i] EXCEPT !.row = NoName]
              ELSE IF i \in tx[w].pairs THEN Named(i, tx[w].read, tx[w].order) ELSE names[i]]
       /\ overlooked' = (overlooked \cup (moved \cap tx[w].held)) \ locked
       /\ adrift' = adrift \cup Unlocked(w)
       /\ Set(w, IF w # Rebuilder THEN Ended(w, "done")
                 ELSE IF last THEN Idle ELSE RebuildFrom(Max(locked), tx[w].began))
       /\ caughtUp' = IF w = Rebuilder /\ last THEN tx[w].began ELSE caughtUp
       /\ UNCHANGED <<created, order, asked>>

\* A row that refers to an instrument a merge has deleted is a foreign key
\* violation.
CommitFails(w) ==
    /\ tx[w].step = "commit"
    /\ Deleting(w, Written(w)) = {}
    /\ ~(Written(w) \subseteq live \ Gone(w))
    /\ Set(w, Ended(w, "failed"))
    /\ UNCHANGED <<db, asked, history>>

\* An administrator reorders the datasources and starts a rebuild.
Reorder ==
    /\ order < MaxOrders
    /\ order' = order + 1 /\ asked' = asked + 1
    /\ UNCHANGED <<created, facts, owner, live, validity, names, tx, history>>

\* Rebuilds share a lane, so one begins when the one before has ended.
StartRebuild ==
    /\ asked > 0 /\ ~Running(Rebuilder)
    /\ asked' = asked - 1
    /\ Set(Rebuilder, RebuildFrom(None, order))
    /\ UNCHANGED <<db, history>>

-----------------------------------------------------------------------------
(* Waiting *)

\* Whom a transaction waits for: the holder of its next lock, or the writer of
\* a row its statement or its reference needs.
LockWaits(w) == IF tx[w].todo = {} THEN {} ELSE Holders(NextLock(w))
RowWaits(w) ==
    CASE tx[w].step = "relink" -> RowsBusy(w, OfLoser(w)) \cup Deleting(w, {tx[w].i}) \cup Folding(w)
      [] tx[w].step = "delete" -> Referring(w, {tx[w].loser})
      [] tx[w].step = "write"  -> IF tx[w].op.kind = "withdraw" THEN RowsBusy(w, Withdrawn(w))
                                  ELSE Deleting(w, {tx[w].i})
      [] tx[w].step = "commit" -> Deleting(w, Written(w))
      [] OTHER                 -> {}

\* Postgres ends a cycle of waits by failing one of its transactions.
DeadlockVictim(w) ==
    /\ \E C \in SUBSET Procs : w \in C /\ \A v \in C : (LockWaits(v) \cup RowWaits(v)) \cap C # {}
    /\ Set(w, Retried(w))
    /\ UNCHANGED <<db, asked, history>>

Step(w) == \/ TakeLock(w) \/ FindInstr(w) \/ FindTarget(w) \/ ListHeld(w) \/ Relink(w) \/ DeleteInstr(w) \/ CheckMoved(w)
           \/ Assert(w) \/ Decline(w) \/ DeleteAssertion(w) \/ ListPairs(w) \/ ReadFacts(w) \/ Commit(w)
           \/ CommitFails(w) \/ DeadlockVictim(w)

\* Every write and every rebuild has ended.
Quiet == /\ \A w \in Writers : ~Running(w)
         /\ ~Running(Rebuilder) /\ asked = 0 /\ order = MaxOrders
         /\ UNCHANGED vars

Next == \/ \E w \in Procs : Step(w)
        \/ \E w \in Writers, s \in Stated, t \in Tickers : "record" \in Kinds /\ StartRecord(w, s, t)
        \/ \E w \in Writers, s \in Stated, t \in Tickers : "resolve" \in Kinds /\ StartResolve(w, s, t)
        \/ \E w \in Writers, t \in Tickers, i \in Instrs \cup {None} : "attest" \in Kinds /\ StartAttest(w, t, i)
        \/ \E w \in Writers : "withdraw" \in Kinds /\ \E f \in facts : StartWithdraw(w, f)
        \/ Reorder
        \/ StartRebuild
        \/ Quiet

Spec == Init /\ [][Next]_vars

-----------------------------------------------------------------------------
(* Properties *)

\* A lock has one holder, stored facts name stored instruments on stored tickers,
\* and so does every identifier.
TypeOK == /\ \A w, v \in Procs : w # v => tx[w].got \cap tx[v].got = {}
          /\ \A f \in facts : f.i \in live \cup {None} /\ f.t \in created
          /\ \A x \in Identifiers : owner[x] \in live
          /\ \A w \in Procs : tx[w].tries \in 1..Tries
          /\ order \in 0..MaxOrders /\ asked \in 0..MaxOrders /\ caughtUp \in 0..order

\* Each ticker's stored validity is derived from all of its facts in every
\* committed state (tickervalidity.go, "Each write of facts rebuilds the ticker
\* validity of the tickers it wrote ... before it commits").
ValidityInStep == \A t \in Tickers : validity[t].facts = FactsOf(t, facts)

\* It is out of step at most for a ticker the survivor of a merge already had,
\* asserted for the loser after the merge listed the loser's tickers: every other
\* moved ticker is locked and rebuilt, or checkMoved runs the merge again.
OnlyHeldTickersFallBehind ==
    \A t \in Tickers \ overlooked : validity[t].facts = FactsOf(t, facts)

\* The name stored for an instrument is the one all committed facts give it
\* (tickervalidity.go: "A second writer of one of the tickers, or of another ticker
\* of one of the instruments, waits until the first commits").
NamesFollow(i) == names[i].row = Resolve(i, facts)

\* It is out of step at most for an instrument a withdrawal took a fact of after
\* another ticker had come to name it, or a merge moved a fact to on a ticker that it
\* had not locked: whichever other writers of its tickers overlapped, they locked it
\* (resolved.go Rebuild, LockInstrs).
NamesInStep == \A i \in live \ adrift : NamesFollow(i)

\* Once a rebuild that began under an order has finished, no stored derivation is
\* older than that order, although writers that read the old order were running, but
\* the name of an instrument whose facts were changed unlocked
\* (rebuildtickervalidity.go rebuild, tickers.go Get).
OrderCatchesUp ==
    /\ \A t \in Tickers : FactsOf(t, facts) # {} => validity[t].order >= caughtUp
    /\ \A i \in live \ adrift : TickersOf(facts, {i}) # {} => names[i].order >= caughtUp

\* Writers never wait in a circle for identifier, ticker and instrument locks
\* (tickervalidity.go, "each write of facts takes its locks in one order").
LocksInOrder ==
    \A C \in SUBSET Procs : C # {} => \E w \in C : LockWaits(w) \cap C = {}
=============================================================================
