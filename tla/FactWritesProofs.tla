-------------------------- MODULE FactWritesProofs --------------------------
(***************************************************************************)
(* Proofs about FactWrites, for every set of tickers, instruments,         *)
(* identifiers and writers: locks are never waited for in a circle; the    *)
(* stored validity of a ticker and the stored name of an instrument follow *)
(* from the facts, but in the cases that FactWrites names; and a rebuild   *)
(* that ends has caught every row up with the order it began under.        *)
(*                                                                         *)
(* None is inductive.  That nobody waits in a circle rests on what each    *)
(* transaction holds while it waits: locks of an earlier class, or of the  *)
(* same class and below.  That validity is in step rests on what holds     *)
(* from a statement of a transaction to its commit while others commit:    *)
(* the rows it deletes are its own, nobody refers to the instrument it     *)
(* deletes, and what it read of a ticker it has locked is what the ticker  *)
(* has, unless the read names an instrument deleted since, which fails the *)
(* commit.  That names are in step rests on the second round of locks:     *)
(* from its read to its commit a transaction has locked every instrument   *)
(* its tickers name, so nobody else writes a name it derives.  That a      *)
(* rebuild catches up rests on its batches: a ticker that is not in a      *)
(* batch to come has been derived since the rebuild began, and so has      *)
(* every name it gives.                                                    *)
(***************************************************************************)
EXTENDS FactWrites, FiniteSetTheorems, WellFoundedInduction, TLAPS

Steps == {"idle", "ids", "tickers", "find", "held", "relink", "delete", "check", "write",
          "pairs", "instrs", "read", "commit", "done", "failed"}
Waiting == {"ids", "tickers", "instrs"}
Writing == {"pairs", "instrs", "read", "commit"}
Folded == {"check", "write"} \cup Writing
OpKinds == {"none", "record", "resolve", "attest", "withdraw", "rebuild"}
OfWriters == {"record", "resolve", "attest", "withdraw"}

IdLocks == Locks("identifier", Identifiers)
TickerLocks == Locks("ticker", Tickers)
LocksOfInstrs == Locks("instr", Instrs)
LockSet == IdLocks \cup TickerLocks \cup LocksOfInstrs

OpSet == [kind : OpKinds, ids : SUBSET Identifiers, t : Tickers \cup {None}, i : Instrs \cup {None}, n : Nat]

TxSet == [step : Steps, op : OpSet, tries : Nat, todo : SUBSET LockSet, got : SUBSET LockSet,
          i : Instrs \cup {None}, loser : Instrs \cup {None}, held : SUBSET Tickers,
          add : SUBSET Fact, del : SUBSET Fact, pairs : SUBSET Instrs, read : SUBSET Fact,
          order : Nat, after : Nat, began : Nat]

Typed ==
    /\ created \subseteq Tickers
    /\ facts \subseteq Fact
    /\ owner \in [Identifiers -> Instrs]
    /\ live \subseteq Instrs
    /\ order \in Nat
    /\ asked \in Nat
    /\ validity \in [Tickers -> [facts : SUBSET Fact, order : Nat]]
    /\ tx \in [Procs -> TxSet]

-----------------------------------------------------------------------------
(* What a transaction holds *)

Rank(class) == IF class = "identifier" THEN 0 ELSE IF class = "ticker" THEN 1 ELSE 2

(* Lock g comes before lock l in the one order of all locks. *)
Below(g, l) == \/ Rank(g[1]) < Rank(l[1])
               \/ Rank(g[1]) = Rank(l[1]) /\ g[2] < l[2]

LockOK(t) ==
    /\ t.step \notin Waiting => t.todo = {}
    /\ t.step = "ids" => t.todo \subseteq IdLocks /\ t.got \subseteq IdLocks
    /\ t.step = "find" /\ t.op.kind = "resolve" => t.got \subseteq IdLocks
    /\ t.step = "tickers" => t.todo \subseteq TickerLocks
    /\ t.step = "instrs" => t.todo \subseteq LocksOfInstrs
    /\ t.step \notin {"instrs", "read", "commit"} => t.got \subseteq IdLocks \cup TickerLocks
    /\ t.step \in {"idle", "done", "failed"} => t.got = {}
    /\ \A g \in t.got, l \in t.todo : Below(g, l)

(* What its operation is, and that it has locked its own ticker. *)
OpOK(t) ==
    /\ t.step \notin {"idle", "done", "failed"} => t.op.kind # "none"
    /\ t.step \in {"ids", "find"} => t.op.kind \in {"record", "resolve"}
    /\ t.op.kind \in OfWriters => (t.op.kind \in {"record", "resolve"} <=> t.op.ids # {})
    /\ t.step = "write" => t.op.kind \in OfWriters
    /\ t.step \in {"held", "relink", "delete", "check"} => t.loser # None
    /\ t.loser # None => t.op.kind = "resolve" /\ t.i \in Instrs /\ t.i # t.loser
    /\ t.op.kind \in OfWriters => t.op.t \in Tickers
    /\ t.step = "tickers" /\ t.op.kind \in OfWriters => <<"ticker", t.op.t>> \in t.got \cup t.todo
    /\ t.step \in {"held", "relink", "delete"} \cup Folded /\ t.op.kind \in OfWriters => <<"ticker", t.op.t>> \in t.got
    /\ t.step = "find" /\ t.op.kind = "record" => <<"ticker", t.op.t>> \in t.got

(* The rows it has written: its own fact, or those a merge moves, all of    *)
(* them of tickers it has locked or the survivor held.                      *)
RowsOK(t) ==
    /\ t.step \notin {"delete"} \cup Folded => t.add = {} /\ t.del = {}
    /\ \A g \in t.del : \/ t.loser # None /\ g.i = t.loser
                        \/ t.loser = None /\ t.op.kind = "withdraw" /\ g.t = t.op.t
    /\ \A f \in t.add : \/ t.step \in Writing /\ t.op.kind \in OfWriters /\ f.t = t.op.t /\ f.i = t.i
                        \/ t.loser # None /\ \E g \in t.del : f = [g EXCEPT !.i = t.i]
    /\ t.loser # None => \A g \in t.del : [g EXCEPT !.i = t.i] \in t.add
    /\ t.loser # None /\ t.step \in {"write"} \cup Writing =>
          \A f \in t.add : f.t \in t.held \/ <<"ticker", f.t>> \in t.got

TxOK(t) == t \in TxSet /\ LockOK(t) /\ OpOK(t) /\ RowsOK(t)

(* A transaction that waits has a lock to wait for. *)
Settled(t) == t.step \in Waiting => t.todo # {}

-----------------------------------------------------------------------------
(* What holds of it while others commit *)

ViewOf(t, F) == (F \ t.del) \cup t.add

(* A merge that has deleted its loser sees no fact of it. *)
FoldOK(t, F) == t.loser # None /\ t.step \in Folded => \A f \in ViewOf(t, F) : f.i # t.loser

(* What was read of a locked ticker is what it has, or names an instrument  *)
(* that is gone.                                                            *)
ReadOK(t, F, L) ==
    t.step = "commit" =>
        \A k \in Tickers : <<"ticker", k>> \in t.got =>
            \/ FactsOf(k, t.read) = FactsOf(k, ViewOf(t, F))
            \/ \E f \in t.read : f.t = k /\ f.i \notin L \cup {None}

(* Two transactions hold no lock and delete no row in common, and the other *)
(* writes nothing that refers to an instrument the one has deleted.         *)
Apart(t, u) ==
    /\ t.got \cap u.got = {}
    /\ t.del \cap u.del = {}
    /\ t.loser # None /\ t.step \in Folded => \A f \in u.add : f.i # t.loser

Alone(t) == TxOK(t) /\ Settled(t) /\ t.del \subseteq facts /\ FoldOK(t, facts) /\ ReadOK(t, facts, live)

(* Only the rebuild run rebuilds without a write. *)
KindsOK == \A w \in Procs : w # Rebuilder => tx[w].op.kind # "rebuild"

IInv ==
    /\ Typed
    /\ KindsOK
    /\ \A w \in Procs : Alone(tx[w])
    /\ \A w, v \in Procs : w # v => Apart(tx[w], tx[v])
    /\ OnlyHeldTickersFallBehind
-----------------------------------------------------------------------------
(* Numbers and locks *)

(* A set of numbers has a least one: the smallest id, by which locks are   *)
(* ordered.                                                                *)
LEMMA LeastOf == ASSUME NEW T \in SUBSET Nat, T # {}
                 PROVE  \E m \in T : \A k \in T : m <= k
<1>1. PICK m \in T : \A y \in T : ~(<<y, m>> \in OpToRel(<, Nat))
  BY NatLessThanWellFounded, WFMin
<1>2. ASSUME NEW y \in T PROVE m <= y
  <2>1. y \in Nat /\ m \in Nat
    OBVIOUS
  <2>2. ASSUME y < m PROVE <<y, m>> \in OpToRel(<, Nat)
    BY <2>1, <2>2 DEF OpToRel
  <2>3. ~(y < m)
    BY <1>1, <2>2, Zenon
  <2> QED
    BY <2>1, <2>3
<1> QED
  BY <1>2

(* A finite set of numbers is bounded: the ids that exist, and so the locks. *)
LEMMA FiniteBounded == ASSUME NEW S \in SUBSET Nat, IsFiniteSet(S)
                       PROVE  \E b \in Nat : \A x \in S : x < b
<1> DEFINE Unbounded(U) == \A b \in Nat : \E x \in U : ~(x < b)
           Sizes == {n \in Nat : \E U \in SUBSET Nat : IsFiniteSet(U) /\ Cardinality(U) = n /\ Unbounded(U)}
<1>1. SUFFICES ASSUME Sizes # {} PROVE FALSE
  <2>1. Cardinality(S) \in Nat
    BY FS_CardinalityType
  <2> QED
    BY <1>1, <2>1
<1>2. PICK n \in Sizes : \A k \in Sizes : n <= k
  BY <1>1, LeastOf
<1>3. PICK U \in SUBSET Nat : IsFiniteSet(U) /\ Cardinality(U) = n /\ Unbounded(U)
  BY <1>2
<1>4. PICK x \in U : TRUE
  BY <1>3
<1>5. IsFiniteSet(U \ {x}) /\ Cardinality(U \ {x}) = n - 1
  BY <1>3, <1>4, FS_RemoveElement
<1>6. Cardinality(U \ {x}) \in Nat
  BY <1>5, FS_CardinalityType
<1>7. n \in Nat /\ n - 1 \in Nat
  BY <1>2, <1>5, <1>6
<1>8. n - 1 \notin Sizes
  <2> HIDE DEF Sizes
  <2> QED
    BY <1>2, <1>7
<1>9. ~Unbounded(U \ {x})
  BY <1>5, <1>7, <1>8
<1>10. PICK b \in Nat : \A y \in U \ {x} : y < b
  BY <1>9
<1>11. x \in Nat /\ b + x + 1 \in Nat
  BY <1>3, <1>4
<1>12. \A y \in U : y < b + x + 1
  <2>1. ASSUME NEW y \in U PROVE y < b + x + 1
    <3>1. y \in Nat /\ (y = x \/ y < b)
      BY <1>10
    <3> QED
      BY <1>11, <3>1
  <2> QED
    BY <2>1
<1>13. PICK y \in U : ~(y < b + x + 1)
  BY <1>3, <1>11
<1> QED
  BY <1>12, <1>13

(* So it has a greatest one: the last ticker of a batch. *)
LEMMA MaxIsIn == ASSUME NEW S \in SUBSET Nat, IsFiniteSet(S), S # {} PROVE Max(S) \in S
<1>1. PICK b \in Nat : \A x \in S : x < b
  BY FiniteBounded
<1> DEFINE T == {k \in Nat : \E x \in S : k = b - x}
<1>2. T # {} /\ T \in SUBSET Nat
  <2>1. PICK x \in S : TRUE
    OBVIOUS
  <2>2. b - x \in Nat
    BY <1>1, <2>1
  <2> QED
    BY <2>1, <2>2
<1>3. PICK m \in T : \A k \in T : m <= k
  BY <1>2, LeastOf
<1>4. PICK x \in S : m = b - x
  BY <1>3
<1>5. \A y \in S : b - y \in T
  BY <1>1
<1>6. \A y \in S : x >= y
  BY <1>1, <1>3, <1>4, <1>5
<1> QED
  BY <1>4, <1>6 DEF Max

(* The smallest of an answer's identifiers is one of them. *)
LEMMA MinIsIn == ASSUME NEW S \in SUBSET Nat, S # {} PROVE Min(S) \in S
BY LeastOf DEF Min

(* Locks of the three classes differ, and each names what it locks. *)
LEMMA LockClasses ==
    /\ \A l \in IdLocks : l = <<"identifier", l[2]>> /\ l[1] = "identifier" /\ l[2] \in Identifiers
    /\ \A l \in TickerLocks : l = <<"ticker", l[2]>> /\ l[1] = "ticker" /\ l[2] \in Tickers
    /\ \A l \in LocksOfInstrs : l = <<"instr", l[2]>> /\ l[1] = "instr" /\ l[2] \in Instrs
BY DEF IdLocks, TickerLocks, LocksOfInstrs, Locks

(* The next lock is one to be taken, and no other to be taken comes before  *)
(* it: all of them are of one class.                                        *)
LEMMA NextIsLeast ==
    ASSUME NEW w, NEW t, tx[w] = t, TxOK(t), t.todo # {}
    PROVE  /\ NextLock(w) \in t.todo
           /\ \A m \in t.todo : m = NextLock(w) \/ Below(NextLock(w), m)
<1> USE FactWritesAssumption
<1> DEFINE T == {l[2] : l \in t.todo}
<1>1. t.todo \subseteq LockSet /\ (t.todo \subseteq IdLocks \/ t.todo \subseteq TickerLocks \/ t.todo \subseteq LocksOfInstrs)
  BY DEF TxOK, TxSet, LockOK, Waiting
<1>2. \A l \in t.todo : l[2] \in Nat /\ l = <<l[1], l[2]>> /\ \A m \in t.todo : l[1] = m[1]
  BY <1>1, LockClasses
<1>3. T \in SUBSET Nat /\ T # {}
  BY <1>2
<1>4. PICK n \in T : \A k \in T : n <= k
  BY <1>3, LeastOf
<1>5. PICK l \in t.todo : l[2] = n
  BY <1>4
<1>6. \A m \in t.todo : l[2] <= m[2]
  BY <1>4, <1>5
<1>7. NextLock(w) \in t.todo /\ \A m \in t.todo : NextLock(w)[2] <= m[2]
  BY <1>5, <1>6 DEF NextLock
<1>8. ASSUME NEW m \in t.todo PROVE m = NextLock(w) \/ Below(NextLock(w), m)
  BY <1>2, <1>7 DEF Below, Rank
<1> QED
  BY <1>7, <1>8

-----------------------------------------------------------------------------
(* Steps of a transaction *)

(* A transaction that has its last lock moves on with what it holds: a step *)
(* of a phase of locks never skips what the phase is for.                   *)
LEMMA ProceedOK ==
    ASSUME NEW t, TxOK(t), NEW p, p = Proceed(t)
    PROVE  /\ TxOK(p) /\ Settled(p)
           /\ p.got = t.got /\ p.add = t.add /\ p.del = t.del /\ p.loser = t.loser /\ p.read = t.read /\ p.op = t.op
           /\ p.step = "commit" <=> t.step = "commit"
           /\ p.loser # None => (p.step \in Folded <=> t.step \in Folded)
<1> USE FactWritesAssumption
<1>0. t \in TxSet /\ t.op \in OpSet
  BY DEF TxOK, TxSet
<1>1. CASE ~(t.step \in Waiting /\ t.todo = {})
  <2>1. p = t
    BY <1>1 DEF Proceed, Waiting
  <2> QED
    BY <1>1, <2>1 DEF Settled, TxOK
<1>2. CASE t.step \in Waiting /\ t.todo = {}
  <2> DEFINE s == AfterLocks(t)
             d == IF s = "tickers" THEN {<<"ticker", t.op.t>>} ELSE {}
  <2>1. p = [t EXCEPT !.step = s, !.todo = d]
    BY <1>2 DEF Proceed, Waiting
  <2>2. /\ t.step = "ids" /\ t.op.kind = "record" => s = "tickers"
        /\ t.step = "ids" /\ t.op.kind # "record" => s = "find"
        /\ t.step = "tickers" /\ t.op.kind = "record" => s = "find"
        /\ t.step = "tickers" /\ t.op.kind = "rebuild" => s = "pairs"
        /\ t.step = "tickers" /\ t.op.kind \notin {"record", "rebuild"} /\ t.loser # None => s = "held"
        /\ t.step = "tickers" /\ t.op.kind \notin {"record", "rebuild"} /\ t.loser = None => s = "write"
        /\ t.step = "instrs" => s = "read"
    BY DEF AfterLocks
  <2>3. s \in Steps
    BY <1>2, <2>2 DEF Steps, Waiting
  <2>4. s = "tickers" => t.step = "ids" /\ t.op.kind = "record" /\ t.op.t \in Tickers
    BY <1>2, <2>2 DEF TxOK, OpOK, OfWriters, Waiting
  <2>5. d \in SUBSET LockSet
    BY <2>4 DEF LockSet, TickerLocks, Locks
  <2>6. /\ p \in TxSet
        /\ p.step = s /\ p.todo = d
        /\ p.got = t.got /\ p.add = t.add /\ p.del = t.del /\ p.loser = t.loser /\ p.read = t.read
        /\ p.op = t.op /\ p.i = t.i /\ p.held = t.held
    BY ZenonT(60), <1>0, <2>1, <2>3, <2>5 DEF TxSet
  <2>7. /\ s = "tickers" <=> d # {}
        /\ s = "tickers" => d \subseteq TickerLocks /\ d = {<<"ticker", t.op.t>>}
    BY <2>4 DEF TickerLocks, Locks
  <2> HIDE DEF s, d
  <2>8. LockOK(p)
    <3>1. \A g \in t.got, l \in d : Below(g, l)
      <4>1. SUFFICES ASSUME s = "tickers" PROVE \A g \in t.got, l \in d : Below(g, l)
        BY <2>7
      <4>2. t.got \subseteq IdLocks /\ d \subseteq TickerLocks
        BY <2>4, <2>7, <4>1 DEF TxOK, LockOK
      <4> QED
        BY <4>2, LockClasses DEF Below, Rank
    <3>2. t.step \in {"ids", "tickers"} => t.got \subseteq IdLocks \cup TickerLocks
      BY DEF TxOK, LockOK
    <3>3. t.step = "ids" => t.got \subseteq IdLocks
      BY DEF TxOK, LockOK
    <3>4. \/ t.step \in {"ids", "tickers"} /\ s \in {"tickers", "find", "held", "pairs", "write"}
          \/ t.step = "instrs" /\ s = "read"
      BY <1>2, <2>2 DEF Waiting
    <3>5. s = "find" /\ t.op.kind = "resolve" => t.step = "ids"
      BY <2>2, <3>4
    <3> QED
      BY <2>6, <2>7, <3>1, <3>2, <3>3, <3>4, <3>5 DEF LockOK, Waiting
  <2>9. OpOK(p)
    <3>1. CASE t.step = "ids"
      <4>1. OpOK(t)
        BY DEF TxOK
      <4>2. t.op.kind \in {"record", "resolve"} /\ s \in {"tickers", "find"} /\ (s = "find" => t.op.kind = "resolve")
        BY <2>2, <3>1, <4>1 DEF OpOK
      <4> QED
        BY <2>6, <2>7, <4>1, <4>2 DEF OpOK, OfWriters, Folded, Writing
    <3>2. CASE t.step = "tickers"
      <4>1. OpOK(t) /\ t.todo = {}
        BY <1>2 DEF TxOK
      <4>2. /\ s \in {"find", "pairs", "held", "write"}
            /\ s = "find" <=> t.op.kind = "record"
            /\ s = "pairs" <=> t.op.kind = "rebuild"
            /\ s = "held" => t.loser # None
        BY <2>2, <3>2
      <4>3. t.op.kind \in OpKinds
        BY <1>0 DEF OpSet
      <4>4. t.op.kind \in OfWriters => t.op.t \in Tickers /\ <<"ticker", t.op.t>> \in t.got
        BY <3>2, <4>1 DEF OpOK
      <4>5. t.op.kind # "none"
        BY <3>2, <4>1 DEF OpOK
      <4>6. s = "write" => t.op.kind \in OfWriters
        BY <4>2, <4>3, <4>5 DEF OpKinds, OfWriters
      <4>7. s = "find" => t.op.kind = "record" /\ t.op.kind \in OfWriters
        BY <4>2 DEF OfWriters
      <4>8. t.loser # None => t.op.kind = "resolve" /\ t.i \in Instrs /\ t.i # t.loser
        BY <4>1 DEF OpOK
      <4>9. t.op.kind \in OfWriters => (t.op.kind \in {"record", "resolve"} <=> t.op.ids # {})
        BY <4>1 DEF OpOK
      <4> QED
        BY <2>6, <4>2, <4>4, <4>5, <4>6, <4>7, <4>8, <4>9 DEF OpOK
    <3>3. CASE t.step = "instrs"
      <4>1. OpOK(t) /\ s = "read"
        BY <2>2, <3>3 DEF TxOK
      <4> QED
        BY <2>6, <2>7, <3>3, <4>1 DEF OpOK, Folded, Writing
    <3> QED
      BY <1>2, <3>1, <3>2, <3>3 DEF Waiting
  <2>10. RowsOK(p)
    <3>1. t.loser # None => t.op.kind = "resolve"
      BY DEF TxOK, OpOK
    <3>2. t.step \in {"ids", "tickers"} => t.add = {} /\ t.del = {}
      BY DEF TxOK, RowsOK, Folded, Writing
    <3>3. t.step = "instrs" => s = "read"
      BY <2>2
    <3>4. CASE t.step \in {"ids", "tickers"}
      BY <2>6, <3>2, <3>4 DEF RowsOK
    <3>5. CASE t.step = "instrs"
      BY <2>6, <3>3, <3>5 DEF TxOK, RowsOK, Folded, Writing
    <3> QED
      BY <1>2, <3>4, <3>5 DEF Waiting
  <2>11. p.step = "commit" <=> t.step = "commit"
    BY <1>2, <2>2, <2>6 DEF Waiting
  <2>12. p.loser # None => (p.step \in Folded <=> t.step \in Folded)
    BY <1>2, <2>2, <2>6 DEF Waiting, TxOK, OpOK, Folded, Writing
  <2>13. Settled(p)
    BY <1>2, <2>2, <2>6, <2>7 DEF Settled, Waiting
  <2> QED
    BY <2>6, <2>8, <2>9, <2>10, <2>11, <2>12, <2>13 DEF TxOK
<1> QED
  BY <1>1, <1>2

(* A statement of one transaction keeps the invariant when what it holds    *)
(* afterwards is in order and apart from what every other one holds.        *)
LEMMA Moves ==
    ASSUME IInv, NEW w \in Procs, NEW t, TxOK(t), Set(w, t),
           UNCHANGED <<facts, owner, live, order, validity, overlooked>>,
           created' \subseteq Tickers, asked' \in Nat,
           t.del \subseteq facts, FoldOK(t, facts), ReadOK(t, facts, live),
           w # Rebuilder => t.op.kind # "rebuild",
           \A v \in Procs \ {w} : Apart(t, tx[v]) /\ Apart(tx[v], t)
    PROVE  IInv'
<1> DEFINE p == Proceed(t)
<1>1. /\ TxOK(p) /\ Settled(p)
      /\ p.got = t.got /\ p.add = t.add /\ p.del = t.del /\ p.loser = t.loser /\ p.read = t.read /\ p.op = t.op
      /\ p.step = "commit" <=> t.step = "commit"
      /\ p.loser # None => (p.step \in Folded <=> t.step \in Folded)
  BY ProceedOK
<1>2. tx' = [tx EXCEPT ![w] = p]
  BY DEF Set
<1> HIDE DEF p
<1>3. tx \in [Procs -> TxSet] /\ p \in TxSet
  BY <1>1 DEF IInv, Typed, TxOK
<1>4. tx' \in [Procs -> TxSet] /\ tx'[w] = p /\ \A v \in Procs \ {w} : tx'[v] = tx[v]
  BY <1>2, <1>3
<1>5. Typed'
  BY <1>4 DEF IInv, Typed
<1>6. Alone(p)
  <2>1. ViewOf(p, facts) = ViewOf(t, facts)
    BY <1>1 DEF ViewOf
  <2>2. FoldOK(p, facts)
    BY <1>1, <2>1 DEF FoldOK
  <2>3. ReadOK(p, facts, live)
    BY <1>1, <2>1 DEF ReadOK
  <2> QED
    BY <1>1, <2>2, <2>3 DEF Alone
<1>7. \A v \in Procs \ {w} : Apart(p, tx[v]) /\ Apart(tx[v], p)
  BY <1>1 DEF Apart
<1>8. ASSUME NEW v \in Procs PROVE Alone(tx[v])'
  <2>1. Alone(tx'[v])
    <3>1. CASE v = w
      BY <1>4, <1>6, <3>1
    <3>2. CASE v # w
      BY <1>4, <3>2 DEF IInv
    <3> QED
      BY <3>1, <3>2
  <2> QED
    BY <2>1 DEF Alone
<1>9. ASSUME NEW v \in Procs, NEW u \in Procs, v # u PROVE Apart(tx[v], tx[u])'
  <2>1. Apart(tx'[v], tx'[u])
    <3>1. CASE v = w
      BY <1>4, <1>7, <1>9, <3>1
    <3>2. CASE u = w
      BY <1>4, <1>7, <1>9, <3>2
    <3>3. CASE v # w /\ u # w
      BY <1>4, <1>9, <3>3 DEF IInv
    <3> QED
      BY <3>1, <3>2, <3>3
  <2> QED
    BY <2>1 DEF Apart
<1>10. OnlyHeldTickersFallBehind'
  BY DEF IInv, OnlyHeldTickersFallBehind, FactsOf
<1>11. KindsOK'
  BY <1>1, <1>4 DEF IInv, KindsOK
<1> QED
  BY <1>5, <1>8, <1>9, <1>10, <1>11 DEF IInv

(* A transaction that has not begun to lock, or that has ended, holds and   *)
(* has written nothing.                                                     *)
Fresh(t) == t.got = {} /\ t.del = {} /\ t.add = {} /\ t.step \notin Folded

(* Beginning, ending and running a write again keep the invariant.          *)
LEMMA FreshIInv ==
    ASSUME IInv, NEW w \in Procs, NEW t, TxOK(t), Fresh(t), Set(w, t),
           UNCHANGED <<facts, owner, live, order, validity, overlooked>>,
           created' \subseteq Tickers, asked' \in Nat, w # Rebuilder => t.op.kind # "rebuild"
    PROVE  IInv'
<1>1. t.del \subseteq facts /\ FoldOK(t, facts) /\ ReadOK(t, facts, live)
  BY DEF Fresh, FoldOK, ReadOK, Folded, Writing
<1>2. \A v \in Procs \ {w} : Apart(t, tx[v]) /\ Apart(tx[v], t)
  BY DEF Fresh, Apart
<1> QED
  BY <1>1, <1>2, Moves

(* A statement that writes no row and takes no lock.                        *)
LEMMA LocalIInv ==
    ASSUME IInv, NEW w \in Procs, NEW t, TxOK(t), Set(w, t),
           UNCHANGED <<facts, owner, live, order, validity, overlooked>>,
           created' \subseteq Tickers, asked' \in Nat,
           t.op = tx[w].op, t.got = tx[w].got, t.add = tx[w].add, t.del = tx[w].del, t.loser = tx[w].loser,
           t.loser # None => (t.step \in Folded <=> tx[w].step \in Folded),
           ReadOK(t, facts, live)
    PROVE  IInv'
<1>1. Alone(tx[w]) /\ \A v \in Procs \ {w} : Apart(tx[w], tx[v]) /\ Apart(tx[v], tx[w])
  BY DEF IInv
<1>2. t.del \subseteq facts /\ FoldOK(t, facts) /\ (w # Rebuilder => t.op.kind # "rebuild")
  BY <1>1 DEF Alone, FoldOK, ViewOf, IInv, KindsOK
<1>3. \A v \in Procs \ {w} : Apart(t, tx[v]) /\ Apart(tx[v], t)
  BY <1>1 DEF Apart
<1> QED
  BY <1>2, <1>3, Moves

-----------------------------------------------------------------------------
(* Transactions as they begin and end *)

(* A process without a transaction holds nothing.                           *)
LEMMA IdleOK == TxOK(Idle) /\ Fresh(Idle)
<1>1. Idle \in TxSet
  BY DEF Idle, NoOp, TxSet, OpSet, Steps, OpKinds, None
<1>2. LockOK(Idle)
  BY DEF Idle, LockOK, Waiting
<1>3. OpOK(Idle)
  BY DEF Idle, NoOp, OpOK, OfWriters, Folded, Writing
<1>4. RowsOK(Idle)
  BY DEF Idle, NoOp, RowsOK
<1>5. Fresh(Idle)
  BY DEF Idle, Fresh, Folded, Writing
<1> QED
  BY <1>1, <1>2, <1>3, <1>4, <1>5 DEF TxOK

(* The operations that writers begin. *)
WriterOp(op) == /\ op \in OpSet /\ op.kind \in OfWriters /\ op.t \in Tickers
                /\ op.kind \in {"record", "resolve"} <=> op.ids # {}

(* A write begins with the advisory locks of its identifiers, or with its   *)
(* ticker's row.                                                            *)
LEMMA BegunOK ==
    ASSUME NEW op, WriterOp(op), NEW b, b = Begun(op)
    PROVE  TxOK(b) /\ Fresh(b) /\ b.op = op
<1> USE FactWritesAssumption
<1> DEFINE s == IF op.ids # {} THEN "ids" ELSE "tickers"
           d == IF op.ids # {} THEN Locks("identifier", op.ids) ELSE Locks("ticker", {op.t})
<1>1. /\ s \in {"ids", "tickers"}
      /\ s = "ids" => op.kind \in {"record", "resolve"} /\ d \subseteq IdLocks
      /\ s = "tickers" => d \subseteq TickerLocks /\ <<"ticker", op.t>> \in d
      /\ s = "ids" <=> op.ids # {}
  BY DEF WriterOp, OpSet, IdLocks, TickerLocks, Locks
<1>2. b = [Idle EXCEPT !.op = op, !.i = op.i, !.step = s, !.todo = d]
  BY DEF Begun
<1> HIDE DEF s, d
<1>3. /\ b.step = s /\ b.op = op /\ b.todo = d
      /\ b.got = {} /\ b.loser = None /\ b.add = {} /\ b.del = {}
  BY <1>2 DEF Idle
<1>4. b \in TxSet
  <2>1. Idle \in TxSet
    BY IdleOK DEF TxOK
  <2>2. s \in Steps /\ d \in SUBSET LockSet /\ op \in OpSet /\ op.i \in Instrs \cup {None}
    BY <1>1 DEF Steps, LockSet, WriterOp, OpSet
  <2> QED
    BY ZenonT(60), <1>2, <2>1, <2>2 DEF TxSet
<1>5. LockOK(b)
  BY <1>1, <1>3 DEF LockOK, Waiting
<1>6. OpOK(b)
  BY <1>1, <1>3 DEF OpOK, OfWriters, Folded, Writing, WriterOp
<1>7. RowsOK(b)
  BY <1>3 DEF RowsOK
<1>8. Fresh(b)
  BY <1>1, <1>3 DEF Fresh, Folded, Writing
<1> QED
  BY <1>3, <1>4, <1>5, <1>6, <1>7, <1>8 DEF TxOK

(* The number of an attempt changes nothing else.                           *)
LEMMA TriesOK ==
    ASSUME NEW t, TxOK(t), Fresh(t), NEW n \in Nat, NEW b, b = [t EXCEPT !.tries = n]
    PROVE  TxOK(b) /\ Fresh(b) /\ b.op = t.op
<1>1. /\ b \in TxSet
      /\ b.step = t.step /\ b.op = t.op /\ b.todo = t.todo /\ b.got = t.got /\ b.i = t.i /\ b.loser = t.loser
      /\ b.held = t.held /\ b.add = t.add /\ b.del = t.del
  BY DEF TxOK, TxSet
<1>2. LockOK(b) /\ OpOK(b) /\ RowsOK(b)
  BY <1>1 DEF TxOK, LockOK, OpOK, RowsOK
<1> QED
  BY <1>1, <1>2 DEF TxOK, Fresh

(* A batch of the rebuild begins with the rows of its tickers.              *)
LEMMA RebuildOK ==
    ASSUME created \subseteq Tickers, NEW after \in Nat, NEW began \in Nat, NEW b, b = RebuildFrom(after, began)
    PROVE  TxOK(b) /\ Fresh(b)
<1> USE FactWritesAssumption
<1> DEFINE d == Locks("ticker", NextBatch(after))
           op == [NoOp EXCEPT !.kind = "rebuild"]
<1>1. d \subseteq TickerLocks
  BY DEF NextBatch, TickerLocks, Locks
<1>2. op \in OpSet /\ op.kind = "rebuild"
  BY DEF NoOp, OpSet, OpKinds, None
<1>3. b = [Idle EXCEPT !.op = op, !.step = "tickers", !.began = began, !.after = after, !.todo = d]
  BY DEF RebuildFrom
<1> HIDE DEF d, op
<1>4. /\ b.step = "tickers" /\ b.op = op /\ b.todo = d
      /\ b.got = {} /\ b.loser = None /\ b.add = {} /\ b.del = {}
  BY <1>3 DEF Idle
<1>5. b \in TxSet
  <2>1. Idle \in TxSet
    BY IdleOK DEF TxOK
  <2>2. "tickers" \in Steps /\ d \in SUBSET LockSet
    BY <1>1 DEF Steps, LockSet
  <2>3. PICK c : c = [Idle EXCEPT !.op = op, !.step = "tickers", !.began = began]
    OBVIOUS
  <2>4. c \in TxSet
    BY <1>2, <2>1, <2>2, <2>3 DEF TxSet
  <2>5. b = [c EXCEPT !.after = after, !.todo = d]
    BY <1>3, <2>3 DEF Idle
  <2> QED
    BY <2>2, <2>4, <2>5 DEF TxSet
<1>6. LockOK(b)
  BY <1>1, <1>4 DEF LockOK, Waiting
<1>7. OpOK(b)
  BY <1>2, <1>4 DEF OpOK, OfWriters, Folded, Writing
<1>8. RowsOK(b)
  BY <1>4 DEF RowsOK
<1>9. Fresh(b)
  BY <1>4 DEF Fresh, Folded, Writing
<1> QED
  BY <1>5, <1>6, <1>7, <1>8, <1>9 DEF TxOK

(* A transaction that ends, well or not, releases what it held.             *)
LEMMA EndedOK ==
    ASSUME IInv, NEW w \in Procs, NEW how \in {"done", "failed"}, NEW b, b = Ended(w, how)
    PROVE  TxOK(b) /\ Fresh(b) /\ b.op = tx[w].op
<1>1. tx[w].op \in OpSet /\ OpOK(tx[w])
  BY DEF IInv, Typed, TxSet, Alone, TxOK
<1>2. b = [Idle EXCEPT !.step = how, !.op = tx[w].op]
  BY DEF Ended
<1>3. /\ b.step = how /\ b.op = tx[w].op /\ b.todo = {}
      /\ b.got = {} /\ b.loser = None /\ b.add = {} /\ b.del = {}
  BY <1>2 DEF Idle
<1>4. b \in TxSet
  <2>1. Idle \in TxSet
    BY IdleOK DEF TxOK
  <2> QED
    BY <1>1, <1>2, <2>1 DEF TxSet, Steps
<1>5. LockOK(b)
  BY <1>3 DEF LockOK
<1>6. OpOK(b)
  BY <1>1, <1>3 DEF OpOK, OfWriters, Folded, Writing
<1>7. RowsOK(b)
  BY <1>3 DEF RowsOK
<1>8. Fresh(b)
  BY <1>3 DEF Fresh, Folded, Writing
<1> QED
  BY <1>3, <1>4, <1>5, <1>6, <1>7, <1>8 DEF TxOK

(* A transaction that is run again begins as it did (Tx).                   *)
LEMMA RetriedOK ==
    ASSUME IInv, NEW w \in Procs, tx[w].step \notin {"idle", "done", "failed"}, NEW b, b = Retried(w)
    PROVE  TxOK(b) /\ Fresh(b) /\ (w # Rebuilder => b.op.kind # "rebuild")
<1>1. tx[w] \in TxSet /\ OpOK(tx[w]) /\ (w # Rebuilder => tx[w].op.kind # "rebuild")
  BY DEF IInv, Typed, KindsOK, Alone, TxOK
<1>2. tx[w].tries + 1 \in Nat /\ tx[w].after \in Nat /\ tx[w].began \in Nat /\ tx[w].op \in OpSet /\ tx[w].op.kind \in OpKinds
  BY <1>1 DEF TxSet, OpSet
<1>3. CASE tx[w].tries >= Tries
  <2>1. b = Ended(w, "failed")
    BY <1>3 DEF Retried
  <2> QED
    BY <1>1, <2>1, EndedOK
<1>4. CASE ~(tx[w].tries >= Tries)
  <2>1. PICK c : c = IF w = Rebuilder THEN RebuildFrom(tx[w].after, tx[w].began) ELSE Begun(tx[w].op)
    OBVIOUS
  <2>2. b = [c EXCEPT !.tries = tx[w].tries + 1]
    BY <1>4, <2>1 DEF Retried
  <2>3. CASE w = Rebuilder
    <3>1. TxOK(c) /\ Fresh(c)
      BY <1>2, <2>1, <2>3, RebuildOK DEF IInv, Typed
    <3> QED
      BY <1>2, <2>2, <2>3, <3>1, TriesOK
  <2>4. CASE w # Rebuilder
    <3>1. tx[w].op.kind \in OfWriters
      BY <1>1, <1>2, <2>4 DEF OpOK, OpKinds, OfWriters
    <3>2. WriterOp(tx[w].op)
      BY <1>1, <1>2, <3>1 DEF WriterOp, OpOK
    <3>3. TxOK(c) /\ Fresh(c) /\ c.op = tx[w].op
      BY <2>1, <2>4, <3>2, BegunOK
    <3>4. TxOK(b) /\ Fresh(b) /\ b.op = c.op
      BY <1>2, <2>2, <3>3, TriesOK
    <3> QED
      BY <1>1, <2>4, <3>3, <3>4
  <2> QED
    BY <2>3, <2>4
<1> QED
  BY <1>3, <1>4

-----------------------------------------------------------------------------
(* Beginning *)

(* A write that begins keeps the invariant; it has created its ticker's row *)
(* before.                                                                  *)
LEMMA BeginIInv ==
    ASSUME IInv, NEW w \in Procs, w # Rebuilder, NEW op, WriterOp(op), Set(w, Begun(op)),
           UNCHANGED <<facts, owner, live, order, validity, overlooked, asked>>, created' \subseteq Tickers
    PROVE  IInv'
<1>1. PICK b : b = Begun(op)
  OBVIOUS
<1>2. TxOK(b) /\ Fresh(b) /\ b.op = op
  BY <1>1, BegunOK
<1>3. b.op.kind # "rebuild" /\ Set(w, b) /\ asked' \in Nat
  BY <1>1, <1>2 DEF WriterOp, OfWriters, IInv, Typed
<1> QED
  BY <1>2, <1>3, FreshIInv

(* Every kind of write begins so (recordFacts, Resolver.write, Start and    *)
(* Withdraw of attestidentifier).                                           *)
LEMMA StartsIInv ==
    ASSUME IInv, NEW w \in Writers,
           \/ \E s \in Stated, t \in Tickers : StartRecord(w, s, t)
           \/ \E s \in Stated, t \in Tickers : StartResolve(w, s, t)
           \/ \E t \in Tickers, i \in Instrs \cup {None} : StartAttest(w, t, i)
           \/ \E f \in facts : StartWithdraw(w, f)
    PROVE  IInv'
<1> USE FactWritesAssumption
<1>0. w \in Procs /\ w # Rebuilder /\ w \in Nat /\ created \subseteq Tickers /\ facts \subseteq Fact
  BY DEF Procs, IInv, Typed
<1>1. ASSUME NEW s \in Stated, NEW t \in Tickers, StartRecord(w, s, t) PROVE IInv'
  <2> DEFINE op == [kind |-> "record", ids |-> s, t |-> t, i |-> None, n |-> w]
  <2>1. WriterOp(op)
    BY <1>0 DEF WriterOp, OpSet, OpKinds, OfWriters
  <2>2. Set(w, Begun(op)) /\ created' \subseteq Tickers /\ UNCHANGED <<facts, owner, live, order, validity, overlooked, asked>>
    BY <1>0, <1>1 DEF StartRecord, history
  <2> HIDE DEF op
  <2> QED
    BY <1>0, <2>1, <2>2, BeginIInv
<1>2. ASSUME NEW s \in Stated, NEW t \in Tickers, StartResolve(w, s, t) PROVE IInv'
  <2> DEFINE op == [kind |-> "resolve", ids |-> s, t |-> t, i |-> None, n |-> w]
  <2>1. WriterOp(op)
    BY <1>0 DEF WriterOp, OpSet, OpKinds, OfWriters
  <2>2. Set(w, Begun(op)) /\ created' \subseteq Tickers /\ UNCHANGED <<facts, owner, live, order, validity, overlooked, asked>>
    BY <1>0, <1>2 DEF StartResolve, history
  <2> HIDE DEF op
  <2> QED
    BY <1>0, <2>1, <2>2, BeginIInv
<1>3. ASSUME NEW t \in Tickers, NEW i \in Instrs \cup {None}, StartAttest(w, t, i) PROVE IInv'
  <2> DEFINE op == [kind |-> "attest", ids |-> {}, t |-> t, i |-> i, n |-> w]
  <2>1. WriterOp(op)
    BY <1>0 DEF WriterOp, OpSet, OpKinds, OfWriters
  <2>2. Set(w, Begun(op)) /\ created' \subseteq Tickers /\ UNCHANGED <<facts, owner, live, order, validity, overlooked, asked>>
    BY <1>0, <1>3 DEF StartAttest, history
  <2> HIDE DEF op
  <2> QED
    BY <1>0, <2>1, <2>2, BeginIInv
<1>4. ASSUME NEW f \in facts, StartWithdraw(w, f) PROVE IInv'
  <2> DEFINE op == [kind |-> "withdraw", ids |-> {}, t |-> f.t, i |-> None, n |-> f.n]
  <2>1. f.t \in Tickers /\ f.n \in Nat
    BY <1>0 DEF Fact
  <2>2. WriterOp(op)
    BY <2>1 DEF WriterOp, OpSet, OpKinds, OfWriters
  <2>3. Set(w, Begun(op)) /\ created' \subseteq Tickers /\ UNCHANGED <<facts, owner, live, order, validity, overlooked, asked>>
    BY <1>0, <1>4 DEF StartWithdraw, history, db
  <2> HIDE DEF op
  <2> QED
    BY <1>0, <2>2, <2>3, BeginIInv
<1> QED
  BY <1>1, <1>2, <1>3, <1>4

(* So does the rebuild run.                                                 *)
LEMMA StartRebuildIInv == ASSUME IInv, StartRebuild PROVE IInv'
<1>1. PICK b : b = RebuildFrom(None, order)
  OBVIOUS
<1>3. None \in Nat /\ order \in Nat /\ created \subseteq Tickers
  BY DEF None, IInv, Typed
<1>4. TxOK(b) /\ Fresh(b)
  BY <1>1, <1>3, RebuildOK
<1>5. Rebuilder \in Procs /\ Set(Rebuilder, b) /\ UNCHANGED <<facts, owner, live, order, validity, overlooked>> /\ created' \subseteq Tickers
  BY <1>1, <1>3 DEF StartRebuild, Procs, db, history
<1>6. asked' \in Nat
  BY DEF StartRebuild, IInv, Typed
<1> QED
  BY <1>4, <1>5, <1>6, FreshIInv

(* A reorder changes the order alone.                                       *)
LEMMA ReorderIInv == ASSUME IInv, Reorder PROVE IInv'
<1>1. /\ UNCHANGED <<created, facts, owner, live, validity, tx, overlooked>>
      /\ order' \in Nat /\ asked' \in Nat
  BY DEF Reorder, history, IInv, Typed
<1> QED
  BY <1>1 DEF IInv, Typed, KindsOK, Alone, OnlyHeldTickersFallBehind

(* A step that changes nothing here.                                        *)
LEMMA UnchangedIInv == ASSUME IInv, UNCHANGED vars PROVE IInv'
BY DEF vars, history, IInv, Typed, KindsOK, Alone, OnlyHeldTickersFallBehind

-----------------------------------------------------------------------------
(* Statements *)

(* What the invariant says of one transaction.                              *)
LEMMA OwnTx ==
    ASSUME IInv, NEW w \in Procs
    PROVE  /\ Alone(tx[w]) /\ TxOK(tx[w]) /\ tx[w] \in TxSet /\ tx[w].op \in OpSet
           /\ \A v \in Procs \ {w} : Alone(tx[v]) /\ Apart(tx[w], tx[v]) /\ Apart(tx[v], tx[w])
           /\ w # Rebuilder => tx[w].op.kind # "rebuild"
BY DEF IInv, Alone, TxOK, TxSet, KindsOK

(* What a statement that only changes its transaction leaves alone.         *)
Inside == UNCHANGED <<db, asked, history>>

(* It keeps all but the transaction itself.                                 *)
LEMMA InsideKeeps ==
    ASSUME IInv, Inside
    PROVE  /\ UNCHANGED <<facts, owner, live, order, validity, overlooked>>
           /\ created' \subseteq Tickers /\ asked' \in Nat
BY DEF Inside, db, history, IInv, Typed

(* A lock that nobody holds is taken in the one order of all locks          *)
(* (lockNames, LockTickers).                                                *)
LEMMA TakeLockIInv == ASSUME IInv, NEW w \in Procs, TakeLock(w) PROVE IInv'
<1>1. PICK x : x = tx[w]
  OBVIOUS
<1>2. PICK l : l = NextLock(w)
  OBVIOUS
<1>3. PICK t : t = [x EXCEPT !.got = x.got \cup {l}, !.todo = x.todo \ {l}]
  OBVIOUS
<1>4. x.step \in Waiting /\ Holders(l) = {} /\ Set(w, t) /\ Inside
  BY <1>1, <1>2, <1>3 DEF TakeLock, Waiting, Inside
<1>5. /\ Alone(x) /\ TxOK(x) /\ x \in TxSet
      /\ \A v \in Procs \ {w} : Apart(x, tx[v]) /\ Apart(tx[v], x)
      /\ w # Rebuilder => x.op.kind # "rebuild"
  BY <1>1, OwnTx
<1>6. l \in x.todo /\ \A m \in x.todo : m = l \/ Below(l, m)
  BY <1>1, <1>2, <1>4, <1>5, NextIsLeast DEF Alone, Settled
<1>7. /\ t \in TxSet
      /\ t.got = x.got \cup {l} /\ t.todo = x.todo \ {l}
      /\ t.step = x.step /\ t.op = x.op /\ t.i = x.i /\ t.loser = x.loser
      /\ t.held = x.held /\ t.add = x.add /\ t.del = x.del /\ t.read = x.read
  <2>1. x.got \cup {l} \in SUBSET LockSet /\ x.todo \ {l} \in SUBSET LockSet
    BY <1>5, <1>6 DEF TxSet
  <2> QED
    BY <1>3, <1>5, <2>1 DEF TxSet
<1>8. LockOK(t)
  <2>1. LockOK(x)
    BY <1>5 DEF TxOK
  <2>2. \A g \in t.got, m \in t.todo : Below(g, m)
    BY <1>6, <1>7, <2>1 DEF LockOK
  <2>3. x.step = "ids" => l \in IdLocks
    BY <1>6, <2>1 DEF LockOK
  <2>4. x.step \in {"ids", "tickers"} => l \in IdLocks \cup TickerLocks
    BY <1>6, <2>1 DEF LockOK
  <2> QED
    BY <1>4, <1>7, <2>1, <2>2, <2>3, <2>4 DEF LockOK, Waiting
<1>9. OpOK(t)
  BY <1>4, <1>5, <1>6, <1>7 DEF TxOK, OpOK, Waiting
<1>10. RowsOK(t)
  BY <1>5, <1>7 DEF TxOK, RowsOK
<1>11. TxOK(t)
  BY <1>7, <1>8, <1>9, <1>10 DEF TxOK
<1>12. t.del \subseteq facts /\ FoldOK(t, facts) /\ ReadOK(t, facts, live)
  BY <1>4, <1>5, <1>7 DEF Alone, FoldOK, ReadOK, ViewOf, Waiting
<1>13. \A v \in Procs \ {w} : Apart(t, tx[v]) /\ Apart(tx[v], t)
  BY <1>4, <1>5, <1>7 DEF Apart, Holders
<1> QED
  BY <1>4, <1>5, <1>7, <1>11, <1>12, <1>13, InsideKeeps, Moves

(* A statement that only reads, on the way to the next step: it may set     *)
(* what it read, the next step and, at that step, the locks to take.        *)
LEMMA ReadsOn ==
    ASSUME IInv, NEW w \in Procs, Inside, NEW x, x = tx[w], NEW t, t \in TxSet, Set(w, t),
           t.op = x.op, t.got = x.got, t.add = x.add, t.del = x.del,
           LockOK(t), OpOK(t), RowsOK(t), ReadOK(t, facts, live),
           t.loser = x.loser, t.loser # None => (t.step \in Folded <=> x.step \in Folded)
    PROVE  IInv'
<1>1. TxOK(t)
  BY DEF TxOK
<1> QED
  BY <1>1, InsideKeeps, LocalIInv

(* Record reads the owner of its identifier.                                *)
LEMMA FindInstrIInv == ASSUME IInv, NEW w \in Procs, FindInstr(w) PROVE IInv'
<1> USE FactWritesAssumption
<1>1. PICK x : x = tx[w]
  OBVIOUS
<1>2. PICK i : i = owner[Min(x.op.ids)]
  OBVIOUS
<1>3. PICK t : t = [x EXCEPT !.i = i, !.step = "write"]
  OBVIOUS
<1>4. x.step = "find" /\ x.op.kind = "record" /\ Set(w, t) /\ Inside
  BY <1>1, <1>2, <1>3 DEF FindInstr, Inside
<1>5. TxOK(x) /\ x \in TxSet /\ x.op \in OpSet
  BY <1>1, OwnTx
<1>6. x.op.ids # {} /\ x.op.ids \subseteq Identifiers
  BY <1>4, <1>5 DEF TxOK, OpOK, OfWriters, OpSet
<1>7. i \in Instrs
  <2>1. Min(x.op.ids) \in x.op.ids
    BY <1>6, MinIsIn
  <2> QED
    BY <1>2, <1>6, <2>1 DEF IInv, Typed
<1>8. /\ t \in TxSet
      /\ t.i = i /\ t.step = "write"
      /\ t.got = x.got /\ t.todo = x.todo /\ t.op = x.op /\ t.loser = x.loser
      /\ t.held = x.held /\ t.add = x.add /\ t.del = x.del
  BY <1>3, <1>5, <1>7 DEF TxSet, Steps
<1>9. x.loser = None /\ x.add = {} /\ x.del = {}
  BY <1>4, <1>5 DEF TxOK, OpOK, RowsOK, Folded, Writing
<1>10. LockOK(t)
  BY <1>4, <1>5, <1>8 DEF TxOK, LockOK, Waiting
<1>11. OpOK(t)
  BY <1>4, <1>5, <1>8, <1>9 DEF TxOK, OpOK, OfWriters, Folded, Writing
<1>12. RowsOK(t)
  BY <1>8, <1>9 DEF RowsOK
<1>13. ReadOK(t, facts, live)
  BY <1>8 DEF ReadOK
<1> QED
  BY ZenonT(60), <1>1, <1>4, <1>8, <1>9, <1>10, <1>11, <1>12, <1>13, ReadsOn

(* The tickers of some instruments are tickers.                             *)
LEMMA TickersTyped == ASSUME NEW F, F \subseteq Fact, NEW I PROVE TickersOf(F, I) \subseteq Tickers
BY DEF TickersOf, Fact

(* A resolution that has found its target has still to lock its tickers.    *)
LEMMA FindTargetIInv == ASSUME IInv, NEW w \in Procs, FindTarget(w) PROVE IInv'
<1> USE FactWritesAssumption
<1>1. PICK x : x = tx[w]
  OBVIOUS
<1>2. PICK found : found = {owner[y] : y \in x.op.ids}
  OBVIOUS
<1>3. x.step = "find" /\ x.op.kind = "resolve" /\ Inside
  BY <1>1 DEF FindTarget, Inside
<1>4. PICK target \in found, loser \in found \cup {None} :
          /\ loser # None => target < loser
          /\ Set(w, [x EXCEPT !.i = target, !.loser = loser, !.step = "tickers",
                        !.todo = Locks("ticker", {x.op.t} \cup TickersOf(facts, {loser} \ {None}))])
  BY <1>1, <1>2 DEF FindTarget
<1>5. PICK d : d = Locks("ticker", {x.op.t} \cup TickersOf(facts, {loser} \ {None}))
  OBVIOUS
<1>6. PICK t : t = [x EXCEPT !.i = target, !.loser = loser, !.step = "tickers", !.todo = d]
  OBVIOUS
<1>7. Set(w, t)
  BY <1>4, <1>5, <1>6
<1>8. /\ Alone(x) /\ TxOK(x) /\ x \in TxSet /\ x.op \in OpSet
      /\ \A v \in Procs \ {w} : Apart(x, tx[v]) /\ Apart(tx[v], x)
      /\ w # Rebuilder => x.op.kind # "rebuild"
  BY <1>1, OwnTx
<1>9. found \subseteq Instrs
  <2>1. owner \in [Identifiers -> Instrs] /\ x.op.ids \subseteq Identifiers
    BY <1>8 DEF OpSet, IInv, Typed
  <2> QED
    BY <1>2, <2>1
<1>10. target \in Instrs /\ loser \in Instrs \cup {None} /\ (loser # None => target # loser)
  BY <1>4, <1>9
<1>11. x.op.t \in Tickers /\ d \subseteq TickerLocks /\ <<"ticker", x.op.t>> \in d
  <2>1. x.op.t \in Tickers
    BY <1>3, <1>8 DEF TxOK, OpOK, OfWriters
  <2>2. TickersOf(facts, {loser} \ {None}) \subseteq Tickers
    BY TickersTyped DEF IInv, Typed
  <2> QED
    BY <1>5, <2>1, <2>2 DEF TickerLocks, Locks
<1>12. /\ t \in TxSet
       /\ t.i = target /\ t.loser = loser /\ t.step = "tickers" /\ t.todo = d
       /\ t.got = x.got /\ t.op = x.op /\ t.add = x.add /\ t.del = x.del
  <2>1. d \in SUBSET LockSet
    BY <1>11 DEF LockSet
  <2> QED
    BY <1>6, <1>8, <1>10, <2>1 DEF TxSet, Steps
<1>13. x.add = {} /\ x.del = {} /\ x.got \subseteq IdLocks
  BY <1>3, <1>8 DEF TxOK, RowsOK, LockOK, Folded, Writing
<1>14. LockOK(t)
  <2>1. \A g \in x.got, l \in d : Below(g, l)
    BY <1>11, <1>13, LockClasses DEF Below, Rank
  <2> QED
    BY <1>11, <1>12, <1>13, <2>1 DEF LockOK, Waiting
<1>15. OpOK(t)
  BY <1>3, <1>8, <1>10, <1>11, <1>12 DEF TxOK, OpOK, OfWriters, Folded, Writing
<1>16. RowsOK(t)
  BY <1>12, <1>13 DEF RowsOK, Folded, Writing
<1>17. TxOK(t)
  BY <1>12, <1>14, <1>15, <1>16 DEF TxOK
<1>18. t.del \subseteq facts /\ FoldOK(t, facts) /\ ReadOK(t, facts, live)
  BY <1>12, <1>13 DEF FoldOK, ReadOK, Folded, Writing
<1>19. \A v \in Procs \ {w} : Apart(t, tx[v]) /\ Apart(tx[v], t)
  BY <1>8, <1>12 DEF Apart, Folded, Writing
<1> QED
  BY <1>3, <1>7, <1>8, <1>12, <1>17, <1>18, <1>19, InsideKeeps, Moves

(* The merge lists the tickers its survivor holds.                          *)
LEMMA ListHeldIInv == ASSUME IInv, NEW w \in Procs, ListHeld(w) PROVE IInv'
<1>1. PICK x : x = tx[w]
  OBVIOUS
<1>2. PICK h : h = TickersOf(facts, {x.i})
  OBVIOUS
<1>3. PICK t : t = [x EXCEPT !.held = h, !.step = "relink"]
  OBVIOUS
<1>4. x.step = "held" /\ Set(w, t) /\ Inside
  BY <1>1, <1>2, <1>3 DEF ListHeld, Inside
<1>5. TxOK(x) /\ x \in TxSet
  BY <1>1, OwnTx
<1>6. h \in SUBSET Tickers
  BY <1>2, TickersTyped DEF IInv, Typed
<1>7. /\ t \in TxSet
      /\ t.held = h /\ t.step = "relink"
      /\ t.got = x.got /\ t.todo = x.todo /\ t.op = x.op /\ t.loser = x.loser /\ t.i = x.i
      /\ t.add = x.add /\ t.del = x.del
  BY <1>3, <1>5, <1>6 DEF TxSet, Steps
<1>8. x.add = {} /\ x.del = {}
  BY <1>4, <1>5 DEF TxOK, RowsOK, Folded, Writing
<1>9. LockOK(t)
  BY <1>4, <1>5, <1>7 DEF TxOK, LockOK, Waiting
<1>10. OpOK(t)
  BY <1>4, <1>5, <1>7 DEF TxOK, OpOK, OfWriters, Folded, Writing
<1>11. RowsOK(t)
  BY <1>7, <1>8 DEF RowsOK, Folded, Writing
<1>12. ReadOK(t, facts, live)
  BY <1>7 DEF ReadOK
<1> QED
  BY <1>1, <1>4, <1>7, <1>9, <1>10, <1>11, <1>12, ReadsOn DEF Folded, Writing

(* A statement that fails ends its transaction, or runs it again.           *)
LEMMA EndsIInv ==
    ASSUME IInv, NEW w \in Procs, Inside, tx[w].step \notin {"idle", "done", "failed"},
           NEW t, t = Ended(w, "failed") \/ t = Retried(w), Set(w, t)
    PROVE  IInv'
<1>1. TxOK(t) /\ Fresh(t) /\ (w # Rebuilder => t.op.kind # "rebuild")
  BY EndedOK, RetriedOK, OwnTx
<1> QED
  BY <1>1, InsideKeeps, FreshIInv

(* The fold moves the loser's rows once no other transaction deletes one of *)
(* them, or the survivor (fold, RelinkIdentifierAssertions).                *)
LEMMA RelinkIInv == ASSUME IInv, NEW w \in Procs, Relink(w) PROVE IInv'
<1> USE FactWritesAssumption
<1>1. PICK x : x = tx[w]
  OBVIOUS
<1>2. PICK rows : rows = OfLoser(w)
  OBVIOUS
<1>3. PICK moved : moved = {[f EXCEPT !.i = x.i] : f \in rows}
  OBVIOUS
<1>4. PICK t : t = [x EXCEPT !.del = rows, !.add = moved, !.step = "delete"]
  OBVIOUS
<1>5. /\ x.step = "relink" /\ Inside
      /\ RowsBusy(w, rows) = {} /\ Deleting(w, {x.i}) = {}
      /\ Set(w, IF x.i \notin live THEN Ended(w, "failed") ELSE t)
  BY ZenonT(60), <1>1, <1>2, <1>3, <1>4 DEF Relink, Inside
<1>6. CASE x.i \notin live
  BY <1>1, <1>5, <1>6, EndsIInv
<1>7. CASE x.i \in live
  <2>1. Set(w, t)
    BY <1>5, <1>7
  <2>2. /\ Alone(x) /\ TxOK(x) /\ x \in TxSet
        /\ \A v \in Procs \ {w} : Alone(tx[v]) /\ Apart(x, tx[v]) /\ Apart(tx[v], x)
        /\ w # Rebuilder => x.op.kind # "rebuild"
    BY <1>1, OwnTx
  <2>3. rows \subseteq facts /\ facts \subseteq Fact /\ \A f \in rows : f.i = x.loser
    BY <1>1, <1>2 DEF OfLoser, IInv, Typed
  <2>4. x.loser # None /\ x.i \in Instrs /\ x.i # x.loser /\ x.op.kind = "resolve"
    BY <1>5, <2>2 DEF TxOK, OpOK
  <2>5. /\ moved \subseteq Fact
        /\ \A f \in moved : f.i = x.i /\ \E g \in rows : f = [g EXCEPT !.i = x.i]
    <3>1. ASSUME NEW g \in rows PROVE [g EXCEPT !.i = x.i] \in Fact /\ [g EXCEPT !.i = x.i].i = x.i
      BY <2>3, <2>4 DEF Fact
    <3>2. ASSUME NEW f \in moved PROVE f \in Fact /\ f.i = x.i /\ \E g \in rows : f = [g EXCEPT !.i = x.i]
      <4>1. PICK g \in rows : f = [g EXCEPT !.i = x.i]
        BY <1>3
      <4> QED
        BY <3>1, <4>1
    <3> QED
      BY <3>2
  <2>6. /\ t \in TxSet
        /\ t.del = rows /\ t.add = moved /\ t.step = "delete"
        /\ t.got = x.got /\ t.todo = x.todo /\ t.op = x.op /\ t.loser = x.loser /\ t.i = x.i
    <3>1. rows \in SUBSET Fact /\ moved \in SUBSET Fact
      BY <2>3, <2>5
    <3> QED
      BY <1>4, <2>2, <3>1 DEF TxSet, Steps
  <2>7. LockOK(t)
    BY <1>5, <2>2, <2>6 DEF TxOK, LockOK, Waiting
  <2>8. OpOK(t)
    BY <1>5, <2>2, <2>6 DEF TxOK, OpOK, OfWriters, Folded, Writing
  <2>9. RowsOK(t)
    <3>1. \A g \in rows : [g EXCEPT !.i = x.i] \in moved
      BY <1>3
    <3> QED
      BY <2>3, <2>4, <2>5, <2>6, <3>1 DEF RowsOK, Writing
  <2>10. TxOK(t)
    BY <2>6, <2>7, <2>8, <2>9 DEF TxOK
  <2>11. t.del \subseteq facts /\ FoldOK(t, facts) /\ ReadOK(t, facts, live)
    BY <2>3, <2>6 DEF FoldOK, ReadOK, Folded, Writing
  <2>12. ASSUME NEW v \in Procs \ {w} PROVE Apart(t, tx[v]) /\ Apart(tx[v], t)
    <3>1. rows \cap tx[v].del = {}
      BY <1>5 DEF RowsBusy, Others
    <3>2. tx[v].loser # None /\ tx[v].step \in Folded => tx[v].loser # x.i
      BY <1>5 DEF Deleting, Others, Gone, Folded, Writing
    <3>3. tx[v].loser # None /\ tx[v].step \in Folded => \A f \in moved : f.i # tx[v].loser
      BY <2>5, <3>2
    <3>4. Apart(x, tx[v]) /\ Apart(tx[v], x)
      BY <2>2
    <3>5. Apart(t, tx[v])
      BY <2>6, <3>1, <3>4 DEF Apart, Folded, Writing
    <3>6. Apart(tx[v], t)
      BY <2>6, <3>1, <3>3, <3>4 DEF Apart
    <3> QED
      BY <3>5, <3>6
  <2> QED
    BY <1>5, <2>1, <2>2, <2>6, <2>10, <2>11, <2>12, InsideKeeps, Moves
<1> QED
  BY <1>6, <1>7

(* A transaction that only moves to its next step, outside the locks.       *)
LEMMA StepOn ==
    ASSUME NEW x, x \in TxSet, NEW s \in Steps, NEW t, t = [x EXCEPT !.step = s]
    PROVE  /\ t \in TxSet /\ t.step = s
           /\ t.got = x.got /\ t.todo = x.todo /\ t.op = x.op /\ t.loser = x.loser /\ t.i = x.i
           /\ t.held = x.held /\ t.add = x.add /\ t.del = x.del /\ t.read = x.read /\ t.pairs = x.pairs
BY DEF TxSet

(* The loser is deleted once nothing refers to it (DeleteInstr).            *)
LEMMA DeleteInstrIInv == ASSUME IInv, NEW w \in Procs, DeleteInstr(w) PROVE IInv'
<1>1. PICK x : x = tx[w]
  OBVIOUS
<1>2. PICK t : t = [x EXCEPT !.step = "check"]
  OBVIOUS
<1>3. /\ x.step = "delete" /\ Inside
      /\ Referring(w, {x.loser}) = {}
      /\ Set(w, IF \E f \in View(w) : f.i = x.loser THEN Ended(w, "failed") ELSE t)
  BY <1>1, <1>2 DEF DeleteInstr, Inside
<1>4. CASE \E f \in View(w) : f.i = x.loser
  BY <1>1, <1>3, <1>4, EndsIInv
<1>5. CASE ~ \E f \in View(w) : f.i = x.loser
  <2>1. Set(w, t)
    BY <1>3, <1>5
  <2>2. /\ Alone(x) /\ TxOK(x) /\ x \in TxSet
        /\ \A v \in Procs \ {w} : Alone(tx[v]) /\ Apart(x, tx[v]) /\ Apart(tx[v], x)
        /\ w # Rebuilder => x.op.kind # "rebuild"
    BY <1>1, OwnTx
  <2>3. /\ t \in TxSet /\ t.step = "check"
        /\ t.got = x.got /\ t.todo = x.todo /\ t.op = x.op /\ t.loser = x.loser /\ t.i = x.i
        /\ t.held = x.held /\ t.add = x.add /\ t.del = x.del
    BY <1>2, <2>2, StepOn DEF Steps
  <2>4. LockOK(t)
    BY <1>3, <2>2, <2>3 DEF TxOK, LockOK, Waiting
  <2>5. OpOK(t)
    BY <1>3, <2>2, <2>3 DEF TxOK, OpOK, OfWriters, Folded, Writing
  <2>6. RowsOK(t)
    BY <1>3, <2>2, <2>3 DEF TxOK, RowsOK, Folded, Writing
  <2>7. TxOK(t)
    BY <2>3, <2>4, <2>5, <2>6 DEF TxOK
  <2>8. t.del \subseteq facts
    BY <2>2, <2>3 DEF Alone
  <2>9. FoldOK(t, facts)
    BY <1>1, <1>5, <2>3 DEF FoldOK, ViewOf, View
  <2>10. ReadOK(t, facts, live)
    BY <2>3 DEF ReadOK
  <2>11. ASSUME NEW v \in Procs \ {w} PROVE Apart(t, tx[v]) /\ Apart(tx[v], t)
    <3>1. \A f \in tx[v].add : f.i # x.loser
      BY <1>3 DEF Referring, Others, Refers
    <3> QED
      BY <2>2, <2>3, <3>1 DEF Apart
  <2> QED
    BY <1>3, <2>1, <2>2, <2>3, <2>7, <2>8, <2>9, <2>10, <2>11, InsideKeeps, Moves
<1> QED
  BY <1>4, <1>5

(* The merge goes on when every ticker of the survivor was locked or held   *)
(* before, and is run again otherwise (checkMoved).                         *)
LEMMA CheckMovedIInv == ASSUME IInv, NEW w \in Procs, CheckMoved(w) PROVE IInv'
<1>1. PICK x : x = tx[w]
  OBVIOUS
<1>2. PICK t : t = [x EXCEPT !.step = "write"]
  OBVIOUS
<1>3. /\ x.step = "check" /\ Inside
      /\ Set(w, IF TickersOf(View(w), {x.i}) \subseteq Known(w) THEN t ELSE Retried(w))
  BY <1>1, <1>2 DEF CheckMoved, Inside
<1>4. CASE ~(TickersOf(View(w), {x.i}) \subseteq Known(w))
  BY <1>1, <1>3, <1>4, EndsIInv
<1>5. CASE TickersOf(View(w), {x.i}) \subseteq Known(w)
  <2>1. Set(w, t)
    BY <1>3, <1>5
  <2>2. Alone(x) /\ TxOK(x) /\ x \in TxSet
    BY <1>1, OwnTx
  <2>3. /\ t \in TxSet /\ t.step = "write"
        /\ t.got = x.got /\ t.todo = x.todo /\ t.op = x.op /\ t.loser = x.loser /\ t.i = x.i
        /\ t.held = x.held /\ t.add = x.add /\ t.del = x.del
    BY <1>2, <2>2, StepOn DEF Steps
  <2>4. LockOK(t)
    BY <1>3, <2>2, <2>3 DEF TxOK, LockOK, Waiting
  <2>5. OpOK(t)
    BY <1>3, <2>2, <2>3 DEF TxOK, OpOK, OfWriters, Folded, Writing
  <2>6. RowsOK(t)
    <3>1. RowsOK(x) /\ x.loser # None
      BY <1>3, <2>2 DEF TxOK, OpOK
    <3>2. \A f \in x.add : \E g \in x.del : f = [g EXCEPT !.i = x.i]
      BY <1>3, <3>1 DEF RowsOK, Writing
    <3>3. ASSUME NEW f \in x.add PROVE f.t \in x.held \/ <<"ticker", f.t>> \in x.got
      <4>1. f.i = x.i /\ f.t \in Tickers
        <5>1. PICK g \in x.del : f = [g EXCEPT !.i = x.i]
          BY <3>2
        <5>2. g \in Fact
          BY <2>2 DEF TxSet
        <5>3. f \in Fact
          BY <2>2 DEF TxSet
        <5> QED
          BY <5>1, <5>2, <5>3 DEF Fact
      <4>2. f \in View(w)
        BY <1>1 DEF View
      <4>3. f.t \in Known(w)
        BY <1>5, <4>1, <4>2 DEF TickersOf
      <4>4. CASE f.t \in LockedTickers(w)
        <5>1. PICK l \in x.got : l[1] = "ticker" /\ l[2] = f.t
          BY <1>1, <4>4 DEF LockedTickers
        <5>2. l = <<"ticker", f.t>>
          BY <2>2, <5>1, LockClasses DEF TxSet, LockSet
        <5> QED
          BY <5>1, <5>2
      <4> QED
        BY <1>1, <4>3, <4>4 DEF Known
    <3> QED
      BY <2>3, <3>1, <3>2, <3>3 DEF RowsOK, Folded, Writing
  <2>7. ReadOK(t, facts, live)
    BY <2>3 DEF ReadOK
  <2> QED
    BY <1>1, <1>3, <2>1, <2>3, <2>4, <2>5, <2>6, <2>7, ReadsOn DEF Folded, Writing
<1> QED
  BY <1>4, <1>5

(* A fact is written for an instrument nobody is deleting (assertFact).     *)
LEMMA AssertIInv == ASSUME IInv, NEW w \in Procs, Assert(w) PROVE IInv'
<1> USE FactWritesAssumption
<1>1. PICK x : x = tx[w]
  OBVIOUS
<1>2. PICK fact : fact = [t |-> x.op.t, i |-> x.i, n |-> x.op.n, attested |-> x.op.kind = "attest"]
  OBVIOUS
<1>3. PICK t : t = [x EXCEPT !.add = x.add \cup {fact}, !.step = "pairs"]
  OBVIOUS
<1>4. fact.i = x.i /\ fact.t = x.op.t
  BY <1>2
<1>5. /\ x.step = "write" /\ x.op.kind # "withdraw" /\ Inside
      /\ Deleting(w, {x.i}) = {}
      /\ Set(w, IF x.i \notin live \cup {None} THEN Ended(w, "failed") ELSE t)
  BY <1>1, <1>2, <1>3, <1>4 DEF Assert, Inside
<1>6. CASE x.i \notin live \cup {None}
  BY <1>1, <1>5, <1>6, EndsIInv
<1>7. CASE x.i \in live \cup {None}
  <2>1. Set(w, t)
    BY <1>5, <1>7
  <2>2. /\ Alone(x) /\ TxOK(x) /\ x \in TxSet /\ x.op \in OpSet
        /\ \A v \in Procs \ {w} : Alone(tx[v]) /\ Apart(x, tx[v]) /\ Apart(tx[v], x)
        /\ w # Rebuilder => x.op.kind # "rebuild"
    BY <1>1, OwnTx
  <2>3. x.op.kind \in OfWriters /\ x.op.t \in Tickers /\ <<"ticker", x.op.t>> \in x.got
    BY <1>5, <2>2 DEF TxOK, OpOK, Folded
  <2>4. fact \in Fact
    <3>1. x.op.n \in Nat /\ x.i \in Instrs \cup {0}
      BY <2>2 DEF OpSet, TxSet, None
    <3>2. (x.op.kind = "attest") \in BOOLEAN
      OBVIOUS
    <3> QED
      BY <1>2, <2>3, <3>1, <3>2, Zenon DEF Fact
  <2>5. /\ t \in TxSet /\ t.step = "pairs" /\ t.add = x.add \cup {fact}
        /\ t.got = x.got /\ t.todo = x.todo /\ t.op = x.op /\ t.loser = x.loser /\ t.i = x.i
        /\ t.held = x.held /\ t.del = x.del
    BY <1>3, <2>2, <2>4 DEF TxSet, Steps
  <2>6. LockOK(t)
    BY <1>5, <2>2, <2>5 DEF TxOK, LockOK, Waiting
  <2>7. OpOK(t)
    BY <1>5, <2>2, <2>5 DEF TxOK, OpOK, OfWriters, Folded, Writing
  <2>8. RowsOK(t)
    BY <1>4, <1>5, <2>2, <2>3, <2>5 DEF TxOK, RowsOK, Folded, Writing
  <2>9. TxOK(t)
    BY <2>5, <2>6, <2>7, <2>8 DEF TxOK
  <2>10. t.del \subseteq facts
    BY <2>2, <2>5 DEF Alone
  <2>11. FoldOK(t, facts)
    <3>1. x.loser # None => x.i # x.loser
      BY <2>2 DEF TxOK, OpOK
    <3> QED
      BY <1>4, <1>5, <2>2, <2>5, <3>1 DEF Alone, FoldOK, ViewOf, Folded
  <2>12. ReadOK(t, facts, live)
    BY <2>5 DEF ReadOK
  <2>13. ASSUME NEW v \in Procs \ {w} PROVE Apart(t, tx[v]) /\ Apart(tx[v], t)
    <3>1. tx[v].loser # None /\ tx[v].step \in Folded => tx[v].loser # x.i
      BY <1>5 DEF Deleting, Others, Gone, Folded, Writing
    <3>2. Apart(x, tx[v]) /\ Apart(tx[v], x)
      BY <2>2
    <3>3. Apart(t, tx[v])
      BY <1>5, <2>5, <3>2 DEF Apart, Folded
    <3>4. Apart(tx[v], t)
      BY <1>4, <2>5, <3>1, <3>2 DEF Apart
    <3> QED
      BY <3>3, <3>4
  <2> QED
    BY <1>5, <2>1, <2>2, <2>5, <2>9, <2>10, <2>11, <2>12, <2>13, InsideKeeps, Moves
<1> QED
  BY <1>6, <1>7

(* A resolution that asserts nothing goes on to rebuild.                    *)
LEMMA DeclineIInv == ASSUME IInv, NEW w \in Procs, Decline(w) PROVE IInv'
<1>1. PICK x : x = tx[w]
  OBVIOUS
<1>2. PICK t : t = [x EXCEPT !.step = "pairs"]
  OBVIOUS
<1>3. x.step = "write" /\ Set(w, t) /\ Inside
  BY <1>1, <1>2 DEF Decline, Inside
<1>4. TxOK(x) /\ x \in TxSet
  BY <1>1, OwnTx
<1>5. /\ t \in TxSet /\ t.step = "pairs"
      /\ t.got = x.got /\ t.todo = x.todo /\ t.op = x.op /\ t.loser = x.loser /\ t.i = x.i
      /\ t.held = x.held /\ t.add = x.add /\ t.del = x.del
  BY <1>2, <1>4, StepOn DEF Steps
<1>6. LockOK(t)
  BY <1>3, <1>4, <1>5 DEF TxOK, LockOK, Waiting
<1>7. OpOK(t)
  BY <1>3, <1>4, <1>5 DEF TxOK, OpOK, OfWriters, Folded, Writing
<1>8. RowsOK(t)
  BY <1>3, <1>4, <1>5 DEF TxOK, RowsOK, Folded, Writing
<1>9. ReadOK(t, facts, live)
  BY <1>5 DEF ReadOK
<1> QED
  BY <1>1, <1>3, <1>5, <1>6, <1>7, <1>8, <1>9, ReadsOn DEF Folded, Writing

(* A withdrawal deletes its row once no other transaction has               *)
(* (DeleteAttestedAssertion).                                               *)
LEMMA DeleteAssertionIInv == ASSUME IInv, NEW w \in Procs, DeleteAssertion(w) PROVE IInv'
<1>1. PICK x : x = tx[w]
  OBVIOUS
<1>2. PICK rows : rows = Withdrawn(w)
  OBVIOUS
<1>3. PICK t : t = [x EXCEPT !.del = rows, !.step = "pairs"]
  OBVIOUS
<1>4. /\ x.step = "write" /\ x.op.kind = "withdraw" /\ Inside
      /\ RowsBusy(w, rows) = {}
      /\ Set(w, IF rows = {} THEN Ended(w, "failed") ELSE t)
  BY <1>1, <1>2, <1>3 DEF DeleteAssertion, Inside
<1>5. CASE rows = {}
  BY <1>1, <1>4, <1>5, EndsIInv
<1>6. CASE rows # {}
  <2>1. Set(w, t)
    BY <1>4, <1>6
  <2>2. /\ Alone(x) /\ TxOK(x) /\ x \in TxSet
        /\ \A v \in Procs \ {w} : Alone(tx[v]) /\ Apart(x, tx[v]) /\ Apart(tx[v], x)
        /\ w # Rebuilder => x.op.kind # "rebuild"
    BY <1>1, OwnTx
  <2>3. rows \subseteq facts /\ facts \subseteq Fact /\ \A f \in rows : f.t = x.op.t
    BY <1>1, <1>2 DEF Withdrawn, IInv, Typed
  <2>4. x.loser = None
    BY <1>4, <2>2 DEF TxOK, OpOK
  <2>5. x.add = {}
    BY <1>4, <2>2, <2>4 DEF TxOK, RowsOK, Writing
  <2>6. /\ t \in TxSet /\ t.step = "pairs" /\ t.del = rows
        /\ t.got = x.got /\ t.todo = x.todo /\ t.op = x.op /\ t.loser = x.loser /\ t.i = x.i
        /\ t.held = x.held /\ t.add = x.add
    <3>1. rows \in SUBSET Fact
      BY <2>3
    <3> QED
      BY <1>3, <2>2, <3>1 DEF TxSet, Steps
  <2>7. LockOK(t)
    BY <1>4, <2>2, <2>6 DEF TxOK, LockOK, Waiting
  <2>8. OpOK(t)
    BY <1>4, <2>2, <2>6 DEF TxOK, OpOK, OfWriters, Folded, Writing
  <2>9. RowsOK(t)
    BY <1>4, <2>3, <2>4, <2>5, <2>6 DEF RowsOK, Folded, Writing
  <2>10. TxOK(t)
    BY <2>6, <2>7, <2>8, <2>9 DEF TxOK
  <2>11. t.del \subseteq facts /\ FoldOK(t, facts) /\ ReadOK(t, facts, live)
    BY <2>3, <2>4, <2>6 DEF FoldOK, ReadOK
  <2>12. ASSUME NEW v \in Procs \ {w} PROVE Apart(t, tx[v]) /\ Apart(tx[v], t)
    <3>1. rows \cap tx[v].del = {}
      BY <1>4 DEF RowsBusy, Others
    <3> QED
      BY <2>2, <2>4, <2>6, <3>1 DEF Apart
  <2> QED
    BY <1>4, <2>1, <2>2, <2>6, <2>10, <2>11, <2>12, InsideKeeps, Moves
<1> QED
  BY <1>5, <1>6

(* What a transaction sees are facts.                                       *)
LEMMA ViewTyped == ASSUME IInv, NEW w \in Procs PROVE View(w) \subseteq Fact /\ View(w) = ViewOf(tx[w], facts)
<1>1. tx[w] \in TxSet /\ facts \subseteq Fact
  BY DEF IInv, Typed
<1> QED
  BY <1>1 DEF View, ViewOf, TxSet

(* The rebuild lists the instruments it locks (ListResolvePairs).           *)
LEMMA ListPairsIInv == ASSUME IInv, NEW w \in Procs, ListPairs(w) PROVE IInv'
<1> USE FactWritesAssumption
<1>1. PICK x : x = tx[w]
  OBVIOUS
<1>2. PICK I : I = Touched(w)
  OBVIOUS
<1>3. PICK d : d = InstrLocks(I)
  OBVIOUS
<1>4. PICK t : t = [x EXCEPT !.pairs = I, !.todo = d, !.step = "instrs"]
  OBVIOUS
<1>5. x.step = "pairs" /\ Set(w, t) /\ Inside
  BY <1>1, <1>2, <1>3, <1>4 DEF ListPairs, Inside
<1>6. TxOK(x) /\ x \in TxSet
  BY <1>1, OwnTx
<1>7. I \subseteq Instrs
  <2>1. live \subseteq Instrs
    BY DEF IInv, Typed
  <2>2. \A f \in View(w) : f.i \in Instrs \cup {None}
    BY ViewTyped DEF Fact, None
  <2> QED
    BY <1>2, <2>1, <2>2 DEF Touched
<1>8. d \subseteq LocksOfInstrs
  BY <1>3, <1>7 DEF InstrLocks, LocksOfInstrs, Locks
<1>9. /\ t \in TxSet /\ t.step = "instrs" /\ t.todo = d
      /\ t.got = x.got /\ t.op = x.op /\ t.loser = x.loser /\ t.i = x.i
      /\ t.held = x.held /\ t.add = x.add /\ t.del = x.del
  <2>1. d \in SUBSET LockSet /\ I \in SUBSET Instrs
    BY <1>7, <1>8 DEF LockSet
  <2> QED
    BY <1>4, <1>6, <2>1 DEF TxSet, Steps
<1>10. LockOK(t)
  <2>1. x.got \subseteq IdLocks \cup TickerLocks
    BY <1>5, <1>6 DEF TxOK, LockOK
  <2>2. \A g \in x.got, l \in d : Below(g, l)
    BY <1>8, <2>1, LockClasses DEF Below, Rank
  <2> QED
    BY <1>8, <1>9, <2>2 DEF LockOK, Waiting
<1>11. OpOK(t)
  BY <1>5, <1>6, <1>9 DEF TxOK, OpOK, OfWriters, Folded, Writing
<1>12. RowsOK(t)
  BY <1>5, <1>6, <1>9 DEF TxOK, RowsOK, Folded, Writing
<1>13. ReadOK(t, facts, live)
  BY <1>9 DEF ReadOK
<1> QED
  BY <1>1, <1>5, <1>9, <1>10, <1>11, <1>12, <1>13, ReadsOn DEF Folded, Writing

(* The facts are read under every lock (readTickers).                       *)
LEMMA ReadFactsIInv == ASSUME IInv, NEW w \in Procs, ReadFacts(w) PROVE IInv'
<1>1. PICK x : x = tx[w]
  OBVIOUS
<1>2. PICK F : F = View(w)
  OBVIOUS
<1>3. PICK t : t = [x EXCEPT !.read = F, !.order = order, !.step = "commit"]
  OBVIOUS
<1>4. x.step = "read" /\ Set(w, t) /\ Inside
  BY <1>1, <1>2, <1>3 DEF ReadFacts, Inside
<1>5. TxOK(x) /\ x \in TxSet
  BY <1>1, OwnTx
<1>6. F \in SUBSET Fact /\ F = ViewOf(x, facts) /\ order \in Nat
  BY <1>1, <1>2, ViewTyped DEF IInv, Typed
<1>7. /\ t \in TxSet /\ t.step = "commit" /\ t.read = F
      /\ t.got = x.got /\ t.todo = x.todo /\ t.op = x.op /\ t.loser = x.loser /\ t.i = x.i
      /\ t.held = x.held /\ t.add = x.add /\ t.del = x.del
  BY <1>3, <1>5, <1>6 DEF TxSet, Steps
<1>8. LockOK(t)
  BY <1>4, <1>5, <1>7 DEF TxOK, LockOK, Waiting
<1>9. OpOK(t)
  BY <1>4, <1>5, <1>7 DEF TxOK, OpOK, OfWriters, Folded, Writing
<1>10. RowsOK(t)
  BY <1>4, <1>5, <1>7 DEF TxOK, RowsOK, Folded, Writing
<1>11. ReadOK(t, facts, live)
  BY <1>6, <1>7 DEF ReadOK, ViewOf
<1> QED
  BY <1>1, <1>4, <1>7, <1>8, <1>9, <1>10, <1>11, ReadsOn DEF Folded, Writing

(* A commit that fails, or a deadlock that Postgres ends, undoes all of it. *)
LEMMA FailsIInv == ASSUME IInv, NEW w \in Procs, CommitFails(w) \/ DeadlockVictim(w) PROVE IInv'
<1>1. CASE CommitFails(w)
  BY <1>1, EndsIInv DEF CommitFails, Inside
<1>2. CASE DeadlockVictim(w)
  <2>1. PICK C \in SUBSET Procs : w \in C /\ \A v \in C : (LockWaits(v) \cup RowWaits(v)) \cap C # {}
    BY <1>2 DEF DeadlockVictim
  <2>2. LockWaits(w) \cup RowWaits(w) # {}
    BY <2>1
  <2>3. LockOK(tx[w])
    BY OwnTx DEF TxOK
  <2>4. tx[w].step \in {"idle", "done", "failed"} => tx[w].todo = {}
    BY <2>3 DEF LockOK, Waiting
  <2>5. tx[w].step \notin {"idle", "done", "failed"}
    BY <2>2, <2>4 DEF LockWaits, RowWaits
  <2> QED
    BY <1>2, <2>5, EndsIInv DEF DeadlockVictim, Inside
<1> QED
  BY <1>1, <1>2

-----------------------------------------------------------------------------
(* Commit *)

(* The instrument that a committing merge deletes.                          *)
LEMMA GoneAtCommit ==
    ASSUME IInv, NEW w \in Procs, tx[w].step = "commit"
    PROVE  /\ Gone(w) = {tx[w].loser} \ {None}
           /\ tx[w].loser # None => tx[w].i \in Instrs /\ tx[w].i # tx[w].loser
<1>1. OpOK(tx[w])
  BY OwnTx DEF TxOK
<1> QED
  BY <1>1 DEF Gone, OpOK

(* The tickers that a transaction has locked.                               *)
LEMMA LockedIs ==
    ASSUME IInv, NEW w \in Procs
    PROVE  /\ LockedTickers(w) \subseteq Tickers
           /\ \A k \in Tickers : k \in LockedTickers(w) <=> <<"ticker", k>> \in tx[w].got
<1>1. tx[w].got \subseteq LockSet
  BY OwnTx DEF TxSet
<1>2. ASSUME NEW k \in LockedTickers(w) PROVE k \in Tickers /\ <<"ticker", k>> \in tx[w].got
  <2>1. PICK l \in tx[w].got : l[1] = "ticker" /\ l[2] = k
    BY <1>2 DEF LockedTickers
  <2>2. l \in TickerLocks
    BY <1>1, <2>1, LockClasses DEF LockSet
  <2> QED
    BY <2>1, <2>2, LockClasses
<1>3. ASSUME NEW k \in Tickers, <<"ticker", k>> \in tx[w].got PROVE k \in LockedTickers(w)
  <2>1. <<"ticker", k>>[1] = "ticker" /\ <<"ticker", k>>[2] = k
    OBVIOUS
  <2> QED
    BY <1>3, <2>1 DEF LockedTickers
<1> QED
  BY <1>2, <1>3

(* What a commit does to the facts of a ticker that another transaction has *)
(* locked: nothing, or it moves one of a deleted instrument.                *)
LEMMA CommitElsewhere ==
    ASSUME IInv, NEW w \in Procs, tx[w].step = "commit", NEW v \in Procs \ {w},
           NEW k \in Tickers, <<"ticker", k>> \in tx[v].got,
           NEW F, F = ViewOf(tx[w], facts)
    PROVE  \/ FactsOf(k, F) = FactsOf(k, facts)
           \/ \E f \in tx[w].del : f.t = k /\ f.i = tx[w].loser /\ tx[w].loser # None
<1>1. PICK x : x = tx[w]
  OBVIOUS
<1>2. x \in TxSet /\ RowsOK(x) /\ OpOK(x) /\ Apart(x, tx[v])
  BY <1>1, OwnTx DEF TxOK
<1>3. <<"ticker", k>> \notin x.got
  BY <1>2 DEF Apart
<1>4. x.op.kind \in OfWriters => x.op.t # k
  BY <1>1, <1>2, <1>3 DEF OpOK, Folded, Writing
<1>5. SUFFICES ASSUME \A f \in x.del : ~(f.t = k /\ f.i = x.loser /\ x.loser # None)
               PROVE  FactsOf(k, F) = FactsOf(k, facts)
  BY <1>1
<1>6. \A f \in x.del : f.t # k
  BY <1>2, <1>4, <1>5 DEF RowsOK, OfWriters
<1>7. ASSUME NEW f \in x.add PROVE f.t # k
  <2>1. CASE x.op.kind \in OfWriters /\ f.t = x.op.t
    BY <1>4, <2>1
  <2>2. CASE \E g \in x.del : f = [g EXCEPT !.i = x.i]
    <3>1. PICK g \in x.del : f = [g EXCEPT !.i = x.i]
      BY <2>2
    <3>2. g \in Fact
      BY <1>2 DEF TxSet
    <3>3. f.t = g.t
      BY <3>1, <3>2 DEF Fact
    <3> QED
      BY <1>6, <3>3
  <2> QED
    BY <1>2, <2>1, <2>2 DEF RowsOK
<1> QED
  BY <1>1, <1>6, <1>7 DEF FactsOf, ViewOf

(* What holds of every other transaction still does after a commit.         *)
LEMMA CommitOthers ==
    ASSUME IInv, NEW w \in Procs, tx[w].step = "commit", NEW v \in Procs \ {w},
           NEW F, F = ViewOf(tx[w], facts), NEW L, L = live \ Gone(w)
    PROVE  tx[v].del \subseteq F /\ FoldOK(tx[v], F) /\ ReadOK(tx[v], F, L)
<1>1. PICK x : x = tx[w]
  OBVIOUS
<1>2. PICK u : u = tx[v]
  OBVIOUS
<1>3. Alone(x) /\ Alone(u) /\ Apart(x, u) /\ Apart(u, x)
  BY <1>1, <1>2, OwnTx
<1>4. u.del \subseteq F
  BY <1>1, <1>3 DEF Alone, Apart, ViewOf
<1>5. FoldOK(u, F)
  <2>1. SUFFICES ASSUME u.loser # None, u.step \in Folded, NEW f \in ViewOf(u, F) PROVE f.i # u.loser
    BY DEF FoldOK
  <2>2. \/ f \in ViewOf(u, facts)
        \/ f \in x.add
    BY <1>1 DEF ViewOf
  <2> QED
    BY <1>3, <2>1, <2>2 DEF Alone, Apart, FoldOK
<1>6. ReadOK(u, F, L)
  <2>1. SUFFICES ASSUME u.step = "commit", NEW k \in Tickers, <<"ticker", k>> \in u.got
                 PROVE  \/ FactsOf(k, u.read) = FactsOf(k, ViewOf(u, F))
                        \/ \E f \in u.read : f.t = k /\ f.i \notin L \cup {None}
    BY DEF ReadOK
  <2>2. \/ FactsOf(k, u.read) = FactsOf(k, ViewOf(u, facts))
        \/ \E f \in u.read : f.t = k /\ f.i \notin live \cup {None}
    BY <1>3, <2>1 DEF Alone, ReadOK
  <2>3. CASE \E f \in u.read : f.t = k /\ f.i \notin live \cup {None}
    BY <2>3
  <2>4. CASE FactsOf(k, u.read) = FactsOf(k, ViewOf(u, facts))
    <3>1. CASE FactsOf(k, F) = FactsOf(k, facts)
      <4>1. FactsOf(k, ViewOf(u, F)) = FactsOf(k, ViewOf(u, facts))
        BY <3>1 DEF FactsOf, ViewOf
      <4> QED
        BY <2>4, <4>1
    <3>2. CASE \E f \in x.del : f.t = k /\ f.i = x.loser /\ x.loser # None
      <4>1. PICK f \in x.del : f.t = k /\ f.i = x.loser /\ x.loser # None
        BY <3>2
      <4>2. f \in facts /\ f \notin u.del
        BY <1>3, <4>1 DEF Alone, Apart
      <4>3. f \in FactsOf(k, ViewOf(u, facts))
        BY <4>1, <4>2 DEF FactsOf, ViewOf
      <4>4. f \in u.read
        BY <2>4, <4>3 DEF FactsOf
      <4>5. f.i \notin L \cup {None}
        BY <1>1, <4>1, GoneAtCommit
      <4> QED
        BY <4>1, <4>4, <4>5
    <3> QED
      BY <1>1, <1>2, <2>1, <3>1, <3>2, CommitElsewhere
  <2> QED
    BY <2>2, <2>3, <2>4
<1> QED
  BY <1>2, <1>4, <1>5, <1>6

(* A ticker's stored validity after a commit: derived anew from what was    *)
(* read where the ticker is locked, and otherwise rid of the deleted        *)
(* instrument, which its facts are too.                                     *)
LEMMA CommitValid ==
    ASSUME IInv, NEW w \in Procs, Commit(w), NEW k \in Tickers \ overlooked'
    PROVE  validity'[k].facts = FactsOf(k, facts')
<1>1. PICK x : x = tx[w]
  OBVIOUS
<1>2. PICK F : F = ViewOf(x, facts)
  OBVIOUS
<1>3. /\ x.step = "commit" /\ facts' = F
      /\ Written(w) \subseteq live \ Gone(w)
      /\ overlooked' = (overlooked \cup (TickersOf(x.del, {x.loser}) \cap x.held)) \ LockedTickers(w)
      /\ validity' = [t \in Tickers |->
              IF t \in LockedTickers(w) THEN Derived(t, x.read, x.order)
              ELSE [validity[t] EXCEPT !.facts = {f \in @ : f.i \notin Gone(w)}]]
  BY <1>1, <1>2, ViewTyped DEF Commit
<1>4. Alone(x) /\ x \in TxSet /\ RowsOK(x) /\ OpOK(x)
  BY <1>1, OwnTx DEF TxOK
<1>5. CASE k \in LockedTickers(w)
  <2>1. validity'[k].facts = FactsOf(k, x.read)
    BY <1>3, <1>5 DEF Derived
  <2>2. <<"ticker", k>> \in x.got
    BY <1>1, <1>5, LockedIs
  <2>3. \A f \in x.read : f.t = k => f.i \in live \cup {None}
    <3>1. ASSUME NEW f \in x.read, f.t = k, f.i # None PROVE f.i \in live
      <4>1. f.i \in Written(w)
        BY <1>1, <1>5, <3>1 DEF Written
      <4> QED
        BY <1>3, <4>1
    <3> QED
      BY <3>1
  <2>4. FactsOf(k, x.read) = FactsOf(k, F)
    BY <1>2, <1>3, <1>4, <2>2, <2>3 DEF Alone, ReadOK
  <2> QED
    BY <1>3, <2>1, <2>4
<1>6. CASE k \notin LockedTickers(w)
  <2>1. <<"ticker", k>> \notin x.got
    BY <1>1, <1>6, LockedIs
  <2>2. validity[k].facts = FactsOf(k, facts)
    BY <1>3, <1>6 DEF IInv, OnlyHeldTickersFallBehind
  <2>3. validity'[k].facts = {f \in FactsOf(k, facts) : f.i \notin Gone(w)}
    BY <1>3, <1>6, <2>2 DEF IInv, Typed
  <2>4. x.op.kind \in OfWriters => x.op.t # k
    BY <1>3, <1>4, <2>1 DEF OpOK, Folded, Writing
  <2>5. ASSUME NEW f \in x.del PROVE f.t # k
    <3>1. CASE x.loser = None
      BY <1>4, <2>4, <3>1 DEF RowsOK, OfWriters
    <3>2. CASE x.loser # None /\ f.i = x.loser /\ f.t = k
      <4>1. [f EXCEPT !.i = x.i] \in x.add /\ f \in Fact
        BY <1>4, <3>2 DEF RowsOK, TxSet
      <4>2. [f EXCEPT !.i = x.i].t = k
        BY <3>2, <4>1 DEF Fact
      <4>3. k \in x.held
        BY <1>3, <1>4, <2>1, <3>2, <4>1, <4>2 DEF RowsOK, Writing
      <4>4. k \in TickersOf(x.del, {x.loser})
        BY <3>2 DEF TickersOf
      <4> QED
        BY <1>3, <1>6, <4>3, <4>4
    <3> QED
      BY <1>4, <3>1, <3>2 DEF RowsOK
  <2>6. ASSUME NEW f \in x.add PROVE f.t # k
    <3>1. CASE x.op.kind \in OfWriters /\ f.t = x.op.t
      BY <2>4, <3>1
    <3>2. CASE \E g \in x.del : f = [g EXCEPT !.i = x.i]
      <4>1. PICK g \in x.del : f = [g EXCEPT !.i = x.i]
        BY <3>2
      <4>2. g \in Fact
        BY <1>4 DEF TxSet
      <4>3. f.t = g.t
        BY <4>1, <4>2 DEF Fact
      <4> QED
        BY <2>5, <4>3
    <3> QED
      BY <1>4, <3>1, <3>2 DEF RowsOK
  <2>7. FactsOf(k, F) = FactsOf(k, facts)
    BY <1>2, <2>5, <2>6 DEF FactsOf, ViewOf
  <2>8. \A f \in FactsOf(k, facts) : f.i \notin Gone(w)
    <3>1. ASSUME NEW f \in FactsOf(k, facts), f.i \in Gone(w) PROVE FALSE
      <4>1. x.loser # None /\ f.i = x.loser
        BY <1>1, <1>3, <3>1, GoneAtCommit
      <4>2. f \in F
        BY <2>7, <3>1 DEF FactsOf
      <4> QED
        BY <1>2, <1>3, <1>4, <4>1, <4>2 DEF Alone, FoldOK, Folded, Writing
    <3> QED
      BY <3>1
  <2> QED
    BY <1>3, <2>3, <2>7, <2>8
<1> QED
  BY <1>5, <1>6

(* A committed write is done; the rebuild goes on with the tickers after    *)
(* its batch, or is done.                                                   *)
LEMMA CommitEnds ==
    ASSUME IInv, NEW w \in Procs, NEW t,
           t = IF w # Rebuilder THEN Ended(w, "done")
               ELSE IF LastBatch(Cardinality(LockedTickers(w))) THEN Idle
               ELSE RebuildFrom(Max(LockedTickers(w)), tx[w].began)
    PROVE  TxOK(t) /\ Fresh(t) /\ (w # Rebuilder => t.op.kind # "rebuild")
<1> USE FactWritesAssumption
<1>1. CASE w # Rebuilder
  BY <1>1, EndedOK, OwnTx
<1>2. CASE w = Rebuilder /\ LastBatch(Cardinality(LockedTickers(w)))
  BY <1>2, IdleOK
<1>3. CASE w = Rebuilder /\ ~LastBatch(Cardinality(LockedTickers(w)))
  <2>1. PICK T : T = LockedTickers(w)
    OBVIOUS
  <2>2. T \subseteq Tickers
    BY <2>1, LockedIs
  <2>3. IsFiniteSet(T) /\ T \in SUBSET Nat
    BY <2>2, FS_Subset
  <2>4. T # {}
    <3>1. Cardinality({}) = 0
      BY FS_EmptySet
    <3> QED
      BY <1>3, <2>1, <3>1 DEF LastBatch
  <2>5. Max(T) \in Nat
    BY <2>3, <2>4, MaxIsIn
  <2>6. tx[w].began \in Nat /\ created \subseteq Tickers
    BY OwnTx DEF TxSet, IInv, Typed
  <2>7. PICK m \in Nat : m = Max(T)
    BY <2>5
  <2>8. PICK b \in Nat : b = tx[w].began
    BY <2>6
  <2>9. t = RebuildFrom(m, b)
    BY <1>3, <2>1, <2>7, <2>8
  <2> QED
    BY <1>3, <2>6, <2>9, RebuildOK
<1> QED
  BY <1>1, <1>2, <1>3

(* What is stored stays typed over a commit.                                *)
LEMMA CommitTyped ==
    ASSUME IInv, NEW w \in Procs, Commit(w)
    PROVE  /\ created' \subseteq Tickers /\ facts' \subseteq Fact /\ owner' \in [Identifiers -> Instrs]
           /\ live' \subseteq Instrs /\ order' \in Nat /\ asked' \in Nat
           /\ validity' \in [Tickers -> [facts : SUBSET Fact, order : Nat]]
<1>1. PICK x : x = tx[w]
  OBVIOUS
<1>2. x.step = "commit" /\ x \in TxSet
  BY <1>1, OwnTx DEF Commit
<1>3. created' \subseteq Tickers /\ order' \in Nat /\ asked' \in Nat /\ live' \subseteq Instrs
  BY DEF Commit, IInv, Typed
<1>4. facts' \subseteq Fact
  BY ViewTyped DEF Commit
<1>5. owner' \in [Identifiers -> Instrs]
  <2>1. owner' = [y \in Identifiers |-> IF owner[y] \in Gone(w) THEN x.i ELSE owner[y]]
    BY <1>1 DEF Commit, Relinked
  <2>2. ASSUME NEW y \in Identifiers, owner[y] \in Gone(w) PROVE x.i \in Instrs
    BY <1>1, <1>2, <2>2, GoneAtCommit
  <2>3. owner \in [Identifiers -> Instrs]
    BY DEF IInv, Typed
  <2> QED
    BY <2>1, <2>2, <2>3
<1>6. validity' \in [Tickers -> [facts : SUBSET Fact, order : Nat]]
  <2>1. validity' = [t \in Tickers |->
              IF t \in LockedTickers(w) THEN Derived(t, x.read, x.order)
              ELSE [validity[t] EXCEPT !.facts = {f \in @ : f.i \notin Gone(w)}]]
    BY <1>1 DEF Commit
  <2>2. ASSUME NEW t \in Tickers
        PROVE  /\ Derived(t, x.read, x.order) \in [facts : SUBSET Fact, order : Nat]
               /\ [validity[t] EXCEPT !.facts = {f \in @ : f.i \notin Gone(w)}] \in [facts : SUBSET Fact, order : Nat]
    <3>1. FactsOf(t, x.read) \in SUBSET Fact /\ x.order \in Nat
      BY <1>2 DEF TxSet, FactsOf
    <3>2. validity[t] \in [facts : SUBSET Fact, order : Nat]
      BY DEF IInv, Typed
    <3> QED
      BY <3>1, <3>2 DEF Derived
  <2> QED
    BY <2>1, <2>2
<1> QED
  BY <1>3, <1>4, <1>5, <1>6

(* A commit keeps the invariant.                                            *)
LEMMA CommitIInv == ASSUME IInv, NEW w \in Procs, Commit(w) PROVE IInv'
<1>1. PICK t : t = IF w # Rebuilder THEN Ended(w, "done")
                   ELSE IF LastBatch(Cardinality(LockedTickers(w))) THEN Idle
                   ELSE RebuildFrom(Max(LockedTickers(w)), tx[w].began)
  OBVIOUS
<1>2. TxOK(t) /\ Fresh(t) /\ (w # Rebuilder => t.op.kind # "rebuild")
  BY <1>1, CommitEnds
<1>3. PICK p : p = Proceed(t)
  OBVIOUS
<1>4. tx' = [tx EXCEPT ![w] = p] /\ tx[w].step = "commit"
  BY <1>1, <1>3 DEF Commit, Set
<1>5. /\ TxOK(p) /\ Settled(p) /\ p.got = {} /\ p.add = {} /\ p.del = {} /\ p.op = t.op
      /\ p.step # "commit"
      /\ p.loser # None => p.step \notin Folded
  <2>1. t.step \notin Folded /\ t.step # "commit" /\ t.got = {} /\ t.add = {} /\ t.del = {}
    BY <1>2 DEF Fresh, Folded, Writing
  <2> QED
    BY <1>2, <1>3, <2>1, ProceedOK
<1>6. /\ tx' \in [Procs -> TxSet] /\ tx'[w] = p /\ \A v \in Procs \ {w} : tx'[v] = tx[v]
  BY <1>4, <1>5 DEF IInv, Typed, TxOK
<1>7. PICK F : F = ViewOf(tx[w], facts)
  OBVIOUS
<1>8. PICK L : L = live \ Gone(w)
  OBVIOUS
<1>9. facts' = F /\ live' = L
  BY <1>7, <1>8, ViewTyped DEF Commit
<1>10. Typed'
  BY <1>6, CommitTyped DEF Typed
<1>11. KindsOK'
  BY <1>2, <1>5, <1>6 DEF IInv, KindsOK
<1>12. ASSUME NEW v \in Procs PROVE Alone(tx[v])'
  <2>1. TxOK(tx'[v]) /\ Settled(tx'[v]) /\ tx'[v].del \subseteq F /\ FoldOK(tx'[v], F) /\ ReadOK(tx'[v], F, L)
    <3>1. CASE v = w
      BY <1>5, <1>6, <3>1 DEF FoldOK, ReadOK
    <3>2. CASE v # w
      <4>1. tx'[v] = tx[v] /\ TxOK(tx[v]) /\ Settled(tx[v])
        BY <1>6, <3>2 DEF IInv, Alone
      <4> QED
        BY SMTT(30), <1>4, <1>7, <1>8, <3>2, <4>1, CommitOthers
    <3> QED
      BY <3>1, <3>2
  <2> QED
    BY <1>9, <2>1 DEF Alone
<1>13. ASSUME NEW v \in Procs, NEW u \in Procs, v # u PROVE Apart(tx[v], tx[u])'
  <2>1. Apart(tx'[v], tx'[u])
    <3>1. CASE v = w
      BY <1>5, <1>6, <1>13, <3>1 DEF Apart
    <3>2. CASE u = w
      BY <1>5, <1>6, <1>13, <3>2 DEF Apart
    <3>3. CASE v # w /\ u # w
      BY <1>6, <1>13, <3>3 DEF IInv
    <3> QED
      BY <3>1, <3>2, <3>3
  <2> QED
    BY <2>1 DEF Apart
<1>14. OnlyHeldTickersFallBehind'
  BY CommitValid DEF OnlyHeldTickersFallBehind
<1> QED
  BY <1>10, <1>11, <1>12, <1>13, <1>14 DEF IInv

-----------------------------------------------------------------------------
(* The theorems *)

(* At the start the stored validity is derived from the stored facts and no *)
(* transaction is open.                                                     *)
LEMMA InitIInv == ASSUME Init PROVE IInv
<1> USE FactWritesAssumption
<1>1. PICK F \in SUBSET FactsAtStart :
          facts = F /\ created = {f.t : f \in F} /\ validity = [t \in Tickers |-> Derived(t, F, 0)]
  BY DEF Init
<1>2. F \subseteq Fact
  BY <1>1
<1>3. tx = [w \in Procs |-> Idle]
  BY DEF Init
<1>4. Idle \in TxSet /\ TxOK(Idle)
  BY IdleOK DEF TxOK
<1>5. Typed
  <2>1. created \subseteq Tickers
    BY <1>1, <1>2 DEF Fact
  <2>2. \A t \in Tickers : Derived(t, F, 0) \in [facts : SUBSET Fact, order : Nat]
    BY <1>2 DEF Derived, FactsOf
  <2>3. owner \in [Identifiers -> Instrs] /\ live \subseteq Instrs /\ order \in Nat /\ asked \in Nat
    BY DEF Init
  <2> QED
    BY <1>1, <1>2, <1>3, <1>4, <2>1, <2>2, <2>3 DEF Typed
<1>6. KindsOK
  BY <1>3 DEF KindsOK, Idle, NoOp
<1>7. \A w \in Procs : Alone(tx[w])
  <2>1. Alone(Idle)
    BY <1>4 DEF Alone, Settled, FoldOK, ReadOK, Idle, Waiting
  <2> QED
    BY <1>3, <2>1
<1>8. \A w, v \in Procs : Apart(tx[w], tx[v])
  <2>1. Apart(Idle, Idle)
    BY DEF Apart, Idle
  <2> QED
    BY <1>3, <2>1
<1>9. OnlyHeldTickersFallBehind
  BY <1>1 DEF OnlyHeldTickersFallBehind, Derived
<1> QED
  BY <1>5, <1>6, <1>7, <1>8, <1>9 DEF IInv

(* Every step of every process keeps the invariant.                         *)
LEMMA NextIInv == ASSUME IInv, [Next]_vars PROVE IInv'
<1>1. CASE UNCHANGED vars
  BY <1>1, UnchangedIInv
<1>2. ASSUME NEW w \in Procs, Step(w) PROVE IInv'
  BY <1>2, TakeLockIInv, FindInstrIInv, FindTargetIInv, ListHeldIInv, RelinkIInv, DeleteInstrIInv,
     CheckMovedIInv, AssertIInv, DeclineIInv, DeleteAssertionIInv, ListPairsIInv, ReadFactsIInv,
     CommitIInv, FailsIInv DEF Step
<1>3. ASSUME NEW w \in Writers,
             \/ \E s \in Stated, t \in Tickers : StartRecord(w, s, t)
             \/ \E s \in Stated, t \in Tickers : StartResolve(w, s, t)
             \/ \E t \in Tickers, i \in Instrs \cup {None} : StartAttest(w, t, i)
             \/ \E f \in facts : StartWithdraw(w, f)
      PROVE  IInv'
  BY <1>3, StartsIInv
<1>4. CASE Reorder
  BY <1>4, ReorderIInv
<1>5. CASE StartRebuild
  BY <1>5, StartRebuildIInv
<1>6. CASE Quiet
  BY <1>6, UnchangedIInv DEF Quiet
<1> QED
  BY <1>1, <1>2, <1>3, <1>4, <1>5, <1>6 DEF Next

(* The invariant holds in every state, for any number of writers: what each *)
(* transaction holds is in the one order, its rows are its own, and what it *)
(* read is current or refers to what is gone.                               *)
THEOREM FactWritesInductive == Spec => []IInv
<1>1. Init => IInv
  BY InitIInv
<1>2. IInv /\ [Next]_vars => IInv'
  BY NextIInv
<1> QED
  BY <1>1, <1>2, PTL DEF Spec

(* The stored validity of a ticker follows from all of its committed facts, *)
(* whatever writers, merges and rebuilds overlapped, but for a ticker that  *)
(* the survivor of a merge held (Rebuild, checkMoved).                      *)
THEOREM ValidityFollowsFacts == Spec => []OnlyHeldTickersFallBehind
<1>1. IInv => OnlyHeldTickersFallBehind
  BY DEF IInv
<1> QED
  BY <1>1, FactWritesInductive, PTL

(* A lock's place in the one order of all locks, b being above every id. *)
Place(l, b) == IF l[1] = "identifier" THEN l[2] ELSE IF l[1] = "ticker" THEN b + l[2] ELSE b + b + l[2]

(* One waiting transaction of any set waits for none of the set: the one    *)
(* whose next lock comes last.                                              *)
LEMMA NoCircle == ASSUME IInv PROVE LocksInOrder
<1> USE FactWritesAssumption
<1>1. SUFFICES ASSUME NEW C \in SUBSET Procs, C # {}, \A w \in C : LockWaits(w) \cap C # {} PROVE FALSE
  BY DEF LocksInOrder
<1>2. PICK b \in Nat : \A y \in Tickers \cup Instrs \cup Identifiers : y < b
  <2>1. IsFiniteSet(Tickers \cup Instrs \cup Identifiers)
    BY FS_Union
  <2> QED
    BY <2>1, FiniteBounded
<1>3. ASSUME NEW l \in LockSet PROVE Place(l, b) \in Nat /\ Place(l, b) < b + b + b
  <2>1. l[2] \in Nat /\ l[2] < b
    BY <1>2, LockClasses DEF LockSet
  <2> QED
    BY <2>1 DEF Place
<1>4. ASSUME NEW g \in LockSet, NEW l \in LockSet, Below(g, l) PROVE Place(g, b) < Place(l, b)
  <2>1. g[2] \in Nat /\ g[2] < b /\ l[2] \in Nat /\ l[2] < b
    BY <1>2, LockClasses DEF LockSet
  <2>2. g[1] \in {"identifier", "ticker", "instr"} /\ l[1] \in {"identifier", "ticker", "instr"}
    BY LockClasses DEF LockSet
  <2> QED
    BY <1>4, <2>1, <2>2 DEF Below, Rank, Place
<1>5. ASSUME NEW w \in C
      PROVE  /\ NextLock(w) \in tx[w].todo /\ NextLock(w) \in LockSet
             /\ \E v \in C : NextLock(w) \in tx[v].got
  <2>1. tx[w].todo # {} /\ Holders(NextLock(w)) \cap C # {}
    BY <1>1 DEF LockWaits
  <2>2. TxOK(tx[w]) /\ tx[w] \in TxSet
    BY OwnTx
  <2>3. NextLock(w) \in tx[w].todo
    BY <2>1, <2>2, NextIsLeast
  <2> QED
    BY <2>1, <2>2, <2>3 DEF TxSet, Holders
<1> DEFINE T == {n \in Nat : \E w \in C : n = b + b + b - Place(NextLock(w), b)}
<1>6. \A w \in C : b + b + b - Place(NextLock(w), b) \in T
  BY <1>3, <1>5
<1>7. T # {} /\ T \in SUBSET Nat
  BY <1>1, <1>6
<1>8. PICK m \in T : \A k \in T : m <= k
  BY <1>7, LeastOf
<1>9. PICK w \in C : m = b + b + b - Place(NextLock(w), b)
  BY <1>8
<1>10. PICK v \in C : NextLock(w) \in tx[v].got
  BY <1>5
<1>11. Below(NextLock(w), NextLock(v))
  BY <1>5, <1>10, OwnTx DEF TxOK, LockOK
<1>12. Place(NextLock(w), b) < Place(NextLock(v), b)
  BY <1>4, <1>5, <1>11
<1>13. m <= b + b + b - Place(NextLock(v), b)
  BY <1>6, <1>8
<1> HIDE DEF T
<1> QED
  BY <1>3, <1>5, <1>9, <1>12, <1>13

(* No set of writers waits in a circle for identifier, ticker and           *)
(* instrument locks (the order that tickervalidity.go states).              *)
THEOREM NoLockCycles == Spec => []LocksInOrder
<1>1. IInv => LocksInOrder
  BY NoCircle
<1> QED
  BY <1>1, FactWritesInductive, PTL

-----------------------------------------------------------------------------
(* Names *)

(* The steps at which a transaction has listed the instruments it locks. *)
Listed == {"instrs", "read", "commit"}

(* It has locked what it listed, or waits to. *)
PairLocks(t) == t.step \in Listed => Locks("instr", t.pairs) \subseteq t.got \cup t.todo

(* It listed every instrument that a ticker it has locked names. *)
PairsListed(t, F, L, A) ==
    t.step \in Listed =>
        \A f \in ViewOf(t, F) : <<"ticker", f.t>> \in t.got /\ f.i \in L \ A => f.i \in t.pairs

(* The instruments it gives a fact of a ticker it has not locked. *)
Loose(t) == {f.i : f \in {g \in t.add : <<"ticker", g.t>> \notin t.got}}

SameNaming(i, F, G) == Own(i, F) = Own(i, G) /\ Rivals(i, F) = Rivals(i, G)

(* What it read of an instrument it has locked is what names it still. *)
NamesRead(t, F, L, A) ==
    t.step = "commit" =>
        \A i \in t.pairs : i \in L /\ i \notin A /\ i \notin Loose(t) => SameNaming(i, t.read, ViewOf(t, F))

(* A withdrawal takes facts of its day and leaves none, whoever a merge     *)
(* moves it to.                                                             *)
Taken(t, F) ==
    t.step \in Writing /\ t.op.kind = "withdraw" =>
        /\ \A f \in ViewOf(t, F) : f.t = t.op.t => f.n # t.op.n
        /\ \A g \in t.del : g.n = t.op.n

NameOK(t, F, L, A) == PairLocks(t) /\ PairsListed(t, F, L, A) /\ NamesRead(t, F, L, A) /\ Taken(t, F)

NInv ==
    /\ \A w \in Procs : NameOK(tx[w], facts, live, adrift)
    /\ NamesInStep

(* The fields of a transaction. *)
Fields == {"step", "op", "tries", "todo", "got", "i", "loser", "held", "add", "del", "pairs", "read", "order",
           "after", "began"}
IsTx(t) == t = [k \in Fields |-> t[k]]

(* A transaction has them. *)
LEMMA TxHasFields == ASSUME NEW t, t \in TxSet PROVE IsTx(t)
BY DEF IsTx, TxSet, Fields

(* Moving on from a phase of locks changes neither what a transaction has   *)
(* listed nor what it has read.                                             *)
LEMMA ProceedNames ==
    ASSUME NEW t, IsTx(t), NEW p, p = Proceed(t)
    PROVE  /\ p.got = t.got /\ p.add = t.add /\ p.del = t.del /\ p.op = t.op /\ p.pairs = t.pairs /\ p.read = t.read
           /\ t.todo \subseteq p.todo
           /\ p.step \in Listed <=> t.step \in Listed
           /\ p.step = "commit" <=> t.step = "commit"
           /\ p.step \in Writing /\ p.op.kind = "withdraw" => t.step \in Writing
<1>1. CASE ~(t.step \in Waiting /\ t.todo = {})
  <2>1. p = t
    BY <1>1 DEF Proceed, Waiting
  <2> QED
    BY <2>1
<1>2. CASE t.step \in Waiting /\ t.todo = {}
  <2> DEFINE s == AfterLocks(t)
             d == IF s = "tickers" THEN {<<"ticker", t.op.t>>} ELSE {}
  <2>1. p = [t EXCEPT !.step = s, !.todo = d]
    BY <1>2 DEF Proceed, Waiting
  <2>2. /\ t.step = "ids" => s \in {"tickers", "find"}
        /\ t.step = "tickers" => s \in {"find", "held", "write", "pairs"} /\ (s = "pairs" => t.op.kind = "rebuild")
        /\ t.step = "instrs" => s = "read"
    BY DEF AfterLocks
  <2> HIDE DEF s, d
  <2>3. /\ p.step = s
        /\ p.got = t.got /\ p.add = t.add /\ p.del = t.del /\ p.op = t.op /\ p.pairs = t.pairs /\ p.read = t.read
    BY <2>1 DEF IsTx, Fields
  <2> QED
    BY <1>2, <2>2, <2>3 DEF Waiting, Listed, Writing
<1> QED
  BY <1>1, <1>2

(* A statement that changes no stored row keeps the invariant if it keeps   *)
(* what holds of its own transaction.                                       *)
LEMMA NameMoves ==
    ASSUME IInv, NInv, NEW w \in Procs, NEW t, IsTx(t), Set(w, t),
           UNCHANGED <<facts, live, names, adrift>>, NameOK(t, facts, live, adrift)
    PROVE  NInv'
<1>1. PICK p : p = Proceed(t)
  OBVIOUS
<1>2. tx' = [tx EXCEPT ![w] = p]
  BY <1>1 DEF Set
<1>3. tx'[w] = p /\ \A v \in Procs \ {w} : tx'[v] = tx[v]
  BY <1>2 DEF IInv, Typed
<1>4. /\ p.got = t.got /\ p.add = t.add /\ p.del = t.del /\ p.op = t.op /\ p.pairs = t.pairs /\ p.read = t.read
      /\ t.todo \subseteq p.todo
      /\ p.step \in Listed <=> t.step \in Listed
      /\ p.step = "commit" <=> t.step = "commit"
      /\ p.step \in Writing /\ p.op.kind = "withdraw" => t.step \in Writing
  BY <1>1, ProceedNames
<1>5. ViewOf(p, facts) = ViewOf(t, facts) /\ Loose(p) = Loose(t)
  BY <1>4 DEF ViewOf, Loose
<1>6. PairLocks(p)
  BY <1>4 DEF NameOK, PairLocks
<1>7. PairsListed(p, facts, live, adrift)
  BY <1>4, <1>5 DEF NameOK, PairsListed
<1>8. NamesRead(p, facts, live, adrift)
  BY <1>4, <1>5 DEF NameOK, NamesRead
<1>9. Taken(p, facts)
  BY <1>4, <1>5 DEF NameOK, Taken
<1>10. ASSUME NEW v \in Procs PROVE NameOK(tx[v], facts, live, adrift)'
  <2>1. NameOK(tx'[v], facts, live, adrift)
    <3>1. CASE v = w
      BY <1>3, <1>6, <1>7, <1>8, <1>9, <3>1 DEF NameOK
    <3>2. CASE v # w
      BY <1>3, <3>2 DEF NInv
    <3> QED
      BY <3>1, <3>2
  <2> QED
    BY <2>1 DEF NameOK
<1>11. NamesInStep'
  BY DEF NInv, NamesInStep, NamesFollow
<1> QED
  BY <1>10, <1>11 DEF NInv

(* So do the statements before a transaction has written its rows, and the  *)
(* ones that end it.                                                        *)
LEMMA EarlyMoves ==
    ASSUME IInv, NInv, NEW w \in Procs, NEW t, IsTx(t), Set(w, t),
           UNCHANGED <<facts, live, names, adrift>>, t.step \notin Writing
    PROVE  NInv'
<1>1. NameOK(t, facts, live, adrift)
  BY DEF NameOK, PairLocks, PairsListed, NamesRead, Taken, Listed, Writing
<1> QED
  BY <1>1, NameMoves

(* A statement inside a transaction leaves the stored rows alone.           *)
LEMMA InsideNames == ASSUME Inside PROVE UNCHANGED <<facts, live, names, adrift>>
BY DEF Inside, db, history

(* A transaction that begins, ends or is run again has written nothing.     *)
LEMMA FreshNames ==
    ASSUME IInv, NInv, NEW w \in Procs, NEW t, TxOK(t), Fresh(t), Set(w, t),
           UNCHANGED <<facts, live, names, adrift>>
    PROVE  NInv'
<1>1. IsTx(t) /\ t.step \notin Writing
  BY TxHasFields DEF TxOK, Fresh, Folded
<1> QED
  BY <1>1, EarlyMoves

(* A transaction that fails, or is run again.                               *)
LEMMA EndsNames ==
    ASSUME IInv, NInv, NEW w \in Procs, Inside,
           \/ Set(w, Ended(w, "failed"))
           \/ tx[w].step \notin {"idle", "done", "failed"} /\ Set(w, Retried(w))
    PROVE  NInv'
<1>1. CASE Set(w, Ended(w, "failed"))
  <2>1. PICK b : b = Ended(w, "failed")
    OBVIOUS
  <2>2. TxOK(b) /\ Fresh(b) /\ Set(w, b)
    BY <1>1, <2>1, EndedOK
  <2> QED
    BY <2>2, FreshNames, InsideNames
<1>2. CASE tx[w].step \notin {"idle", "done", "failed"} /\ Set(w, Retried(w))
  <2>1. PICK b : b = Retried(w)
    OBVIOUS
  <2>2. TxOK(b) /\ Fresh(b) /\ Set(w, b)
    BY <1>2, <2>1, RetriedOK
  <2> QED
    BY <2>2, FreshNames, InsideNames
<1> QED
  BY <1>1, <1>2

(* Every kind of write begins with nothing written.                         *)
LEMMA StartsNames ==
    ASSUME IInv, NInv, NEW w \in Writers,
           \/ \E s \in Stated, t \in Tickers : StartRecord(w, s, t)
           \/ \E s \in Stated, t \in Tickers : StartResolve(w, s, t)
           \/ \E t \in Tickers, i \in Instrs \cup {None} : StartAttest(w, t, i)
           \/ \E f \in facts : StartWithdraw(w, f)
    PROVE  NInv'
<1> USE FactWritesAssumption
<1>1. w \in Procs /\ w \in Nat /\ facts \subseteq Fact /\ UNCHANGED <<facts, live, names, adrift>>
  BY DEF Procs, IInv, Typed, StartRecord, StartResolve, StartAttest, StartWithdraw, history, db
<1>2. PICK op : WriterOp(op) /\ Set(w, Begun(op))
  <2>1. ASSUME NEW s \in Stated, NEW t \in Tickers, NEW kind \in {"record", "resolve"}
        PROVE  WriterOp([kind |-> kind, ids |-> s, t |-> t, i |-> None, n |-> w])
    BY <1>1 DEF WriterOp, OpSet, OpKinds, OfWriters
  <2>2. ASSUME NEW t \in Tickers, NEW i \in Instrs \cup {None}
        PROVE  WriterOp([kind |-> "attest", ids |-> {}, t |-> t, i |-> i, n |-> w])
    BY <1>1 DEF WriterOp, OpSet, OpKinds, OfWriters
  <2>3. ASSUME NEW f \in facts
        PROVE  WriterOp([kind |-> "withdraw", ids |-> {}, t |-> f.t, i |-> None, n |-> f.n])
    <3>1. f.t \in Tickers /\ f.n \in Nat
      BY <1>1 DEF Fact
    <3> QED
      BY <3>1 DEF WriterOp, OpSet, OpKinds, OfWriters
  <2>4. CASE \E s \in Stated, t \in Tickers : StartRecord(w, s, t)
    BY <2>1, <2>4 DEF StartRecord
  <2>5. CASE \E s \in Stated, t \in Tickers : StartResolve(w, s, t)
    BY <2>1, <2>5 DEF StartResolve
  <2>6. CASE \E t \in Tickers, i \in Instrs \cup {None} : StartAttest(w, t, i)
    BY <2>2, <2>6 DEF StartAttest
  <2>7. CASE \E f \in facts : StartWithdraw(w, f)
    BY <2>3, <2>7 DEF StartWithdraw
  <2> QED
    BY <2>4, <2>5, <2>6, <2>7
<1>3. PICK b : b = Begun(op)
  OBVIOUS
<1>4. TxOK(b) /\ Fresh(b) /\ Set(w, b)
  BY <1>2, <1>3, BegunOK
<1> QED
  BY <1>1, <1>4, FreshNames

(* So does the rebuild run.                                                 *)
LEMMA StartRebuildNames == ASSUME IInv, NInv, StartRebuild PROVE NInv'
<1>1. PICK b : b = RebuildFrom(None, order)
  OBVIOUS
<1>2. None \in Nat /\ order \in Nat /\ created \subseteq Tickers
  BY DEF None, IInv, Typed
<1>3. TxOK(b) /\ Fresh(b)
  BY <1>1, <1>2, RebuildOK
<1>4. Rebuilder \in Procs /\ Set(Rebuilder, b) /\ UNCHANGED <<facts, live, names, adrift>>
  BY <1>1 DEF StartRebuild, Procs, db, history
<1> QED
  BY <1>3, <1>4, FreshNames

(* A lock taken is one of those listed, and no ticker is locked any more    *)
(* once they are.                                                           *)
LEMMA TakeLockNames == ASSUME IInv, NInv, NEW w \in Procs, TakeLock(w) PROVE NInv'
<1>1. PICK x : x = tx[w]
  OBVIOUS
<1>2. PICK l : l = NextLock(w)
  OBVIOUS
<1>3. PICK t : t = [x EXCEPT !.got = x.got \cup {l}, !.todo = x.todo \ {l}]
  OBVIOUS
<1>4. x.step \in Waiting /\ Set(w, t) /\ Inside
  BY <1>1, <1>2, <1>3 DEF TakeLock, Waiting, Inside
<1>5. Alone(x) /\ TxOK(x) /\ IsTx(x) /\ NameOK(x, facts, live, adrift)
  BY <1>1, OwnTx, TxHasFields DEF NInv
<1>6. /\ IsTx(t)
      /\ t.got = x.got \cup {l} /\ t.todo = x.todo \ {l} /\ t.step = x.step /\ t.op = x.op
      /\ t.add = x.add /\ t.del = x.del /\ t.pairs = x.pairs
  BY <1>3, <1>5 DEF IsTx, Fields
<1>7. CASE x.step # "instrs"
  BY <1>4, <1>6, <1>7, EarlyMoves, InsideNames DEF Waiting, Writing
<1>8. CASE x.step = "instrs"
  <2>1. l \in x.todo
    BY <1>1, <1>2, <1>4, <1>5, NextIsLeast DEF Alone, Settled
  <2>2. l \in LocksOfInstrs
    BY <1>5, <1>8, <2>1 DEF TxOK, LockOK
  <2>3. \A k : l # <<"ticker", k>>
    BY <2>2, LockClasses
  <2>4. ViewOf(t, facts) = ViewOf(x, facts)
    BY <1>6 DEF ViewOf
  <2>5. PairLocks(t)
    BY <1>5, <1>6, <2>1 DEF NameOK, PairLocks
  <2>6. PairsListed(t, facts, live, adrift)
    BY <1>5, <1>6, <2>3, <2>4 DEF NameOK, PairsListed
  <2>7. NamesRead(t, facts, live, adrift)
    BY <1>6, <1>8 DEF NamesRead
  <2>8. Taken(t, facts)
    BY <1>5, <1>6, <2>4 DEF NameOK, Taken
  <2> QED
    BY <1>4, <1>6, <2>5, <2>6, <2>7, <2>8, NameMoves, InsideNames DEF NameOK
<1> QED
  BY <1>7, <1>8

(* The statements by which a transaction finds its instrument, and a merge  *)
(* its survivor, and moves the rows.                                        *)
LEMMA FindNames ==
    ASSUME IInv, NInv, NEW w \in Procs,
           FindInstr(w) \/ FindTarget(w) \/ ListHeld(w) \/ Relink(w) \/ DeleteInstr(w) \/ CheckMoved(w)
    PROVE  NInv'
<1>1. PICK x : x = tx[w]
  OBVIOUS
<1>2. IsTx(x)
  BY <1>1, OwnTx, TxHasFields
<1>3. CASE FindInstr(w)
  <2>1. PICK t : t = [x EXCEPT !.i = owner[Min(x.op.ids)], !.step = "write"]
    OBVIOUS
  <2>2. IsTx(t) /\ t.step \notin Writing
    BY <1>2, <2>1 DEF IsTx, Fields, Writing
  <2>3. Set(w, t) /\ Inside
    BY <1>1, <1>3, <2>1 DEF FindInstr, Inside
  <2> QED
    BY <2>2, <2>3, EarlyMoves, InsideNames
<1>4. CASE FindTarget(w)
  <2>1. PICK i, l, d : Set(w, [x EXCEPT !.i = i, !.loser = l, !.step = "tickers", !.todo = d])
    BY <1>1, <1>4 DEF FindTarget
  <2>2. PICK t : t = [x EXCEPT !.i = i, !.loser = l, !.step = "tickers", !.todo = d]
    OBVIOUS
  <2>3. IsTx(t) /\ t.step \notin Writing
    BY <1>2, <2>2 DEF IsTx, Fields, Writing
  <2>4. Set(w, t) /\ Inside
    BY <1>4, <2>1, <2>2 DEF FindTarget, Inside
  <2> QED
    BY <2>3, <2>4, EarlyMoves, InsideNames
<1>5. CASE ListHeld(w)
  <2>1. PICK t : t = [x EXCEPT !.held = TickersOf(facts, {x.i}), !.step = "relink"]
    OBVIOUS
  <2>2. IsTx(t) /\ t.step \notin Writing
    BY <1>2, <2>1 DEF IsTx, Fields, Writing
  <2>3. Set(w, t) /\ Inside
    BY <1>1, <1>5, <2>1 DEF ListHeld, Inside
  <2> QED
    BY <2>2, <2>3, EarlyMoves, InsideNames
<1>6. CASE Relink(w)
  <2>1. PICK m : m = {[f EXCEPT !.i = x.i] : f \in OfLoser(w)}
    OBVIOUS
  <2>2. PICK t : t = [x EXCEPT !.del = OfLoser(w), !.add = m, !.step = "delete"]
    OBVIOUS
  <2>3. IsTx(t) /\ t.step \notin Writing
    BY <1>2, <2>2 DEF IsTx, Fields, Writing
  <2>4. (Set(w, t) \/ Set(w, Ended(w, "failed"))) /\ Inside
    BY <1>1, <1>6, <2>1, <2>2 DEF Relink, Inside
  <2> QED
    BY <2>3, <2>4, EarlyMoves, InsideNames, EndsNames
<1>7. CASE DeleteInstr(w)
  <2>1. PICK t : t = [x EXCEPT !.step = "check"]
    OBVIOUS
  <2>2. IsTx(t) /\ t.step \notin Writing
    BY <1>2, <2>1 DEF IsTx, Fields, Writing
  <2>3. (Set(w, t) \/ Set(w, Ended(w, "failed"))) /\ Inside
    BY <1>1, <1>7, <2>1 DEF DeleteInstr, Inside
  <2> QED
    BY <2>2, <2>3, EarlyMoves, InsideNames, EndsNames
<1>8. CASE CheckMoved(w)
  <2>1. PICK t : t = [x EXCEPT !.step = "write"]
    OBVIOUS
  <2>2. IsTx(t) /\ t.step \notin Writing
    BY <1>2, <2>1 DEF IsTx, Fields, Writing
  <2>3. (Set(w, t) \/ Set(w, Retried(w))) /\ Inside /\ x.step = "check"
    BY <1>1, <1>8, <2>1 DEF CheckMoved, Inside
  <2> QED
    BY <1>1, <2>2, <2>3, EarlyMoves, InsideNames, EndsNames
<1> QED
  BY <1>3, <1>4, <1>5, <1>6, <1>7, <1>8

(* A fact written, or none.                                                 *)
LEMMA AssertNames == ASSUME IInv, NInv, NEW w \in Procs, Assert(w) \/ Decline(w) PROVE NInv'
<1>1. PICK x : x = tx[w]
  OBVIOUS
<1>2. IsTx(x) /\ x.step = "write"
  BY <1>1, OwnTx, TxHasFields DEF Assert, Decline
<1>3. ASSUME NEW t, IsTx(t), t.step = "pairs", t.op.kind # "withdraw" PROVE NameOK(t, facts, live, adrift)
  BY <1>3 DEF NameOK, PairLocks, PairsListed, NamesRead, Taken, Listed
<1>4. CASE Assert(w)
  <2>1. PICK a : a = x.add \cup {[t |-> x.op.t, i |-> x.i, n |-> x.op.n, attested |-> x.op.kind = "attest"]}
    OBVIOUS
  <2>2. PICK t : t = [x EXCEPT !.add = a, !.step = "pairs"]
    OBVIOUS
  <2>3. x.op.kind # "withdraw" /\ Inside /\ (Set(w, Ended(w, "failed")) \/ Set(w, t))
    BY <1>1, <1>4, <2>1, <2>2 DEF Assert, Inside
  <2>4. IsTx(t) /\ t.step = "pairs" /\ t.op = x.op
    BY <1>2, <2>2 DEF IsTx, Fields
  <2> QED
    BY <1>3, <2>3, <2>4, NameMoves, InsideNames, EndsNames
<1>5. CASE Decline(w)
  <2>1. PICK t : t = [x EXCEPT !.step = "pairs"]
    OBVIOUS
  <2>2. x.op.kind = "resolve" /\ Inside /\ Set(w, t)
    BY <1>1, <1>5, <2>1 DEF Decline, Inside
  <2>3. IsTx(t) /\ t.step = "pairs" /\ t.op = x.op
    BY <1>2, <2>1 DEF IsTx, Fields
  <2> QED
    BY <1>3, <2>2, <2>3, NameMoves, InsideNames
<1> QED
  BY <1>4, <1>5

(* A withdrawal takes every fact of its day (DeleteAttestedAssertion).      *)
LEMMA DeleteAssertionNames == ASSUME IInv, NInv, NEW w \in Procs, DeleteAssertion(w) PROVE NInv'
<1>1. PICK x : x = tx[w]
  OBVIOUS
<1>2. PICK rows : rows = Withdrawn(w)
  OBVIOUS
<1>3. PICK t : t = [x EXCEPT !.del = rows, !.step = "pairs"]
  OBVIOUS
<1>4. /\ x.step = "write" /\ x.op.kind = "withdraw" /\ Inside
      /\ Set(w, Ended(w, "failed")) \/ Set(w, t)
  BY <1>1, <1>2, <1>3 DEF DeleteAssertion, Inside
<1>5. TxOK(x) /\ IsTx(x)
  BY <1>1, OwnTx, TxHasFields
<1>6. IsTx(t) /\ t.step = "pairs" /\ t.del = rows /\ t.add = x.add /\ t.op = x.op
  BY <1>3, <1>5 DEF IsTx, Fields
<1>7. x.add = {}
  BY <1>4, <1>5 DEF TxOK, OpOK, RowsOK, Writing
<1>8. Taken(t, facts)
  BY <1>1, <1>2, <1>6, <1>7 DEF Taken, ViewOf, Withdrawn
<1>9. NameOK(t, facts, live, adrift)
  BY <1>6, <1>8 DEF NameOK, PairLocks, PairsListed, NamesRead, Listed
<1> QED
  BY <1>4, <1>6, <1>9, NameMoves, InsideNames, EndsNames

(* The rebuild lists every instrument that a ticker it has locked names     *)
(* (ListResolvePairs).                                                      *)
LEMMA ListPairsNames == ASSUME IInv, NInv, NEW w \in Procs, ListPairs(w) PROVE NInv'
<1> USE FactWritesAssumption
<1>1. PICK x : x = tx[w]
  OBVIOUS
<1>2. PICK I : I = Touched(w)
  OBVIOUS
<1>3. PICK t : t = [x EXCEPT !.pairs = I, !.todo = InstrLocks(I), !.step = "instrs"]
  OBVIOUS
<1>4. x.step = "pairs" /\ Set(w, t) /\ Inside
  BY <1>1, <1>2, <1>3 DEF ListPairs, Inside
<1>5. IsTx(x) /\ NameOK(x, facts, live, adrift)
  BY <1>1, OwnTx, TxHasFields DEF NInv
<1>6. /\ IsTx(t) /\ t.step = "instrs" /\ t.pairs = I /\ t.todo = InstrLocks(I)
      /\ t.got = x.got /\ t.add = x.add /\ t.del = x.del /\ t.op = x.op
  BY <1>3, <1>5 DEF IsTx, Fields
<1>7. ViewOf(t, facts) = View(w) /\ ViewOf(t, facts) = ViewOf(x, facts)
  BY <1>1, <1>6 DEF ViewOf, View
<1>8. PairLocks(t)
  BY <1>6 DEF PairLocks, InstrLocks
<1>9. PairsListed(t, facts, live, adrift)
  <2>1. SUFFICES ASSUME NEW f \in View(w), <<"ticker", f.t>> \in x.got, f.i \in live PROVE f.i \in I
    BY <1>6, <1>7 DEF PairsListed
  <2>2. f.t \in LockedTickers(w)
    BY <1>1, <2>1, ViewTyped, LockedIs DEF Fact
  <2>3. f.i # None
    BY <2>1 DEF IInv, Typed, None
  <2> QED
    BY <1>2, <2>1, <2>2, <2>3 DEF Touched
<1>10. NamesRead(t, facts, live, adrift) /\ Taken(t, facts)
  BY <1>4, <1>5, <1>6, <1>7 DEF NamesRead, NameOK, Taken, Writing
<1> QED
  BY <1>4, <1>6, <1>8, <1>9, <1>10, NameMoves, InsideNames DEF NameOK

(* What is read is what the transaction sees.                               *)
LEMMA ReadFactsNames == ASSUME IInv, NInv, NEW w \in Procs, ReadFacts(w) PROVE NInv'
<1>1. PICK x : x = tx[w]
  OBVIOUS
<1>2. PICK F : F = View(w)
  OBVIOUS
<1>3. PICK t : t = [x EXCEPT !.read = F, !.order = order, !.step = "commit"]
  OBVIOUS
<1>4. x.step = "read" /\ Set(w, t) /\ Inside
  BY <1>1, <1>2, <1>3 DEF ReadFacts, Inside
<1>5. IsTx(x) /\ NameOK(x, facts, live, adrift)
  BY <1>1, OwnTx, TxHasFields DEF NInv
<1>6. /\ IsTx(t) /\ t.step = "commit" /\ t.read = F /\ t.pairs = x.pairs
      /\ t.got = x.got /\ t.todo = x.todo /\ t.add = x.add /\ t.del = x.del /\ t.op = x.op
  BY <1>3, <1>5 DEF IsTx, Fields
<1>7. ViewOf(t, facts) = F /\ ViewOf(t, facts) = ViewOf(x, facts)
  BY <1>1, <1>2, <1>6 DEF ViewOf, View
<1>8. PairLocks(t)
  BY <1>4, <1>5, <1>6 DEF NameOK, PairLocks, Listed
<1>9. PairsListed(t, facts, live, adrift)
  BY <1>4, <1>5, <1>6, <1>7 DEF NameOK, PairsListed, Listed
<1>10. NamesRead(t, facts, live, adrift)
  BY <1>6, <1>7 DEF NamesRead, SameNaming
<1>11. Taken(t, facts)
  BY <1>4, <1>5, <1>6, <1>7 DEF NameOK, Taken, Writing
<1> QED
  BY <1>4, <1>6, <1>8, <1>9, <1>10, <1>11, NameMoves, InsideNames DEF NameOK

(* A commit that fails, or a deadlock that Postgres ends.                   *)
LEMMA FailsNames == ASSUME IInv, NInv, NEW w \in Procs, CommitFails(w) \/ DeadlockVictim(w) PROVE NInv'
<1>1. CASE CommitFails(w)
  BY <1>1, EndsNames DEF CommitFails, Inside
<1>2. CASE DeadlockVictim(w)
  <2>1. LockWaits(w) \cup RowWaits(w) # {}
    BY <1>2 DEF DeadlockVictim
  <2>2. LockOK(tx[w])
    BY OwnTx DEF TxOK
  <2>3. tx[w].step \in {"idle", "done", "failed"} => tx[w].todo = {}
    BY <2>2 DEF LockOK, Waiting
  <2>4. tx[w].step \notin {"idle", "done", "failed"}
    BY <2>1, <2>3 DEF LockWaits, RowWaits
  <2> QED
    BY <1>2, <2>4, EndsNames DEF DeadlockVictim, Inside
<1> QED
  BY <1>1, <1>2

(* The rows a committing transaction has of a ticker that it has not locked *)
(* are the ones its merge moves.                                            *)
LEMMA LooseRows ==
    ASSUME IInv, NEW w \in Procs, tx[w].step = "commit", NEW x, x = tx[w]
    PROVE  /\ \A g \in x.del : <<"ticker", g.t>> \notin x.got =>
                 x.loser # None /\ g.i = x.loser /\ [g EXCEPT !.i = x.i] \in x.add
           /\ \A f \in x.add : <<"ticker", f.t>> \notin x.got =>
                 x.loser # None /\ \E g \in x.del : f = [g EXCEPT !.i = x.i]
           /\ x.del \subseteq facts
           /\ \A g \in x.del : /\ [g EXCEPT !.i = x.i].i = x.i
                               /\ [g EXCEPT !.i = x.i].t = g.t /\ [g EXCEPT !.i = x.i].n = g.n
<1>1. x \in TxSet /\ OpOK(x) /\ RowsOK(x) /\ x.del \subseteq facts
  BY OwnTx DEF TxOK, Alone
<1>2. x.op.kind \in OfWriters => <<"ticker", x.op.t>> \in x.got
  BY <1>1 DEF OpOK, Folded, Writing
<1>3. ASSUME NEW g \in x.del, <<"ticker", g.t>> \notin x.got
      PROVE  x.loser # None /\ g.i = x.loser /\ [g EXCEPT !.i = x.i] \in x.add
  BY <1>1, <1>2, <1>3 DEF RowsOK, OfWriters
<1>4. ASSUME NEW f \in x.add, <<"ticker", f.t>> \notin x.got
      PROVE  x.loser # None /\ \E g \in x.del : f = [g EXCEPT !.i = x.i]
  BY <1>1, <1>2, <1>4 DEF RowsOK
<1>5. ASSUME NEW g \in x.del
      PROVE  /\ [g EXCEPT !.i = x.i].i = x.i
             /\ [g EXCEPT !.i = x.i].t = g.t /\ [g EXCEPT !.i = x.i].n = g.n
  <2>1. g \in Fact
    BY <1>1 DEF TxSet
  <2> QED
    BY <2>1 DEF Fact
<1> QED
  BY <1>1, <1>3, <1>4, <1>5

(* The instruments a commit sets adrift.                                    *)
LEMMA UnlockedIs ==
    ASSUME IInv, NEW w \in Procs, NEW x, x = tx[w]
    PROVE  /\ \A g \in x.del : g.i \in x.pairs \/ g.i \in Unlocked(w)
           /\ \A f \in x.add : <<"ticker", f.t>> \in x.got \/ f.i \in Unlocked(w)
           /\ Loose(x) \subseteq Unlocked(w)
<1>1. x.add \subseteq Fact
  BY OwnTx DEF TxSet
<1>2. \A f \in x.add : f.t \in LockedTickers(w) <=> <<"ticker", f.t>> \in x.got
  BY <1>1, LockedIs DEF Fact
<1> QED
  BY <1>2 DEF Unlocked, Loose

(* A commit that has not listed an instrument, and does not set it adrift,  *)
(* changes nothing that names it, whichever rows D of others are deleted    *)
(* and B written on top.                                                    *)
LEMMA CommitNaming ==
    ASSUME IInv, NInv, NEW w \in Procs, tx[w].step = "commit", NEW x, x = tx[w],
           NEW i \in live \ Gone(w), i \notin adrift, i \notin Unlocked(w), i \notin x.pairs,
           NEW F, F = ViewOf(x, facts),
           NEW D, NEW B, D \cap x.del = {},
           \A f \in B : f.i = i => <<"ticker", f.t>> \notin x.got,
           \A g \in x.del : <<"ticker", g.t>> \notin x.got => [g EXCEPT !.i = x.i] \notin D
    PROVE  SameNaming(i, (facts \ D) \cup B, (F \ D) \cup B)
<1>1. \A f \in F : <<"ticker", f.t>> \in x.got => f.i # i
  <2>1. PairsListed(x, facts, live, adrift)
    BY DEF NInv, NameOK
  <2> QED
    BY <2>1 DEF PairsListed, Listed
<1>2. /\ \A g \in x.del : <<"ticker", g.t>> \notin x.got =>
             x.loser # None /\ g.i = x.loser /\ [g EXCEPT !.i = x.i] \in x.add
      /\ \A f \in x.add : <<"ticker", f.t>> \notin x.got =>
             x.loser # None /\ \E g \in x.del : f = [g EXCEPT !.i = x.i]
      /\ x.del \subseteq facts
      /\ \A g \in x.del : /\ [g EXCEPT !.i = x.i].i = x.i
                          /\ [g EXCEPT !.i = x.i].t = g.t /\ [g EXCEPT !.i = x.i].n = g.n
  BY LooseRows
<1>3. \A f \in x.add : f \in F /\ f.i # i
  BY <1>1, UnlockedIs DEF ViewOf
<1>4. \A g \in x.del : g.i # i
  BY UnlockedIs
<1>5. x.loser # i
  BY GoneAtCommit, FactWritesAssumption DEF IInv, Typed, None
<1> DEFINE G == (facts \ D) \cup B
           H == (F \ D) \cup B
<1>6. \A f : f.i = i => (f \in G <=> f \in H)
  BY <1>3, <1>4 DEF ViewOf
<1>7. {f \in G : f.i = i} = {f \in H : f.i = i}
  <2> HIDE DEF G, H
  <2> QED
    BY <1>6
<1>8. Own(i, G) = Own(i, H)
  <2> HIDE DEF G, H
  <2> QED
    BY <1>7 DEF Own
<1>9. TickersOf(G, {i}) = TickersOf(H, {i})
  <2> HIDE DEF G, H
  <2>1. {f \in G : f.i \in {i}} = {f \in H : f.i \in {i}}
    BY <1>6
  <2> QED
    BY <2>1 DEF TickersOf
<1>10. PICK T : T = TickersOf(G, {i})
  OBVIOUS
<1>11. \A k \in T : <<"ticker", k>> \notin x.got
  <2>1. SUFFICES ASSUME NEW f \in G, f.i = i PROVE <<"ticker", f.t>> \notin x.got
    <3> HIDE DEF G
    <3> QED
      BY <1>10, <2>1 DEF TickersOf
  <2>2. CASE f \in B
    BY <2>1, <2>2
  <2>3. CASE f \in facts
    BY <1>1, <1>4, <2>1, <2>3 DEF ViewOf
  <2> QED
    BY <2>1, <2>2, <2>3
<1>12. ASSUME NEW f \in G, f.i # i, f.t \in T PROVE \E h \in H : h.i # i /\ h.t = f.t /\ h.n = f.n
  <2>1. CASE f \in x.del /\ f \notin B
    <3>1. <<"ticker", f.t>> \notin x.got
      BY <1>11, <1>12
    <3>2. PICK m : m = [f EXCEPT !.i = x.i]
      OBVIOUS
    <3>3. m \in x.add /\ m \notin D /\ m.t = f.t /\ m.n = f.n
      BY <1>2, <2>1, <3>1, <3>2
    <3>4. m \in H /\ m.i # i
      BY <1>3, <3>3
    <3> QED
      BY <3>3, <3>4
  <2>2. CASE f \in B \/ f \notin x.del
    <3>1. f \in H
      BY <1>12, <2>2 DEF ViewOf
    <3> QED
      BY <1>12, <3>1
  <2> QED
    BY <2>1, <2>2
<1>13. ASSUME NEW h \in H, h.i # i, h.t \in T PROVE \E f \in G : f.i # i /\ f.t = h.t /\ f.n = h.n
  <2>1. CASE h \in x.add
    <3>1. PICK g \in x.del : h = [g EXCEPT !.i = x.i]
      BY <1>2, <1>11, <1>13, <2>1
    <3>2. g.t = h.t /\ g.n = h.n
      BY <1>2, <3>1
    <3>3. g \in G /\ g.i = x.loser
      BY <1>2, <1>11, <1>13, <3>2
    <3> QED
      BY <1>5, <3>2, <3>3
  <2>2. CASE h \notin x.add
    <3>1. h \in G
      BY <1>13, <2>2 DEF ViewOf
    <3> QED
      BY <1>13, <3>1
  <2> QED
    BY <2>1, <2>2
<1>14. Rivals(i, G) = Rivals(i, H)
  <2> HIDE DEF G, H
  <2>1. Rivals(i, G) = {<<f.t, f.n>> : f \in {g \in G : g.i # i /\ g.t \in T}}
    BY <1>10 DEF Rivals, Dated
  <2>2. Rivals(i, H) = {<<f.t, f.n>> : f \in {g \in H : g.i # i /\ g.t \in T}}
    BY <1>9, <1>10 DEF Rivals, Dated
  <2>3. ASSUME NEW p \in Rivals(i, G) PROVE p \in Rivals(i, H)
    <3>1. PICK f \in G : f.i # i /\ f.t \in T /\ p = <<f.t, f.n>>
      BY <2>1
    <3>2. PICK h \in H : h.i # i /\ h.t = f.t /\ h.n = f.n
      BY <1>12, <3>1
    <3> QED
      BY <2>2, <3>1, <3>2
  <2>4. ASSUME NEW p \in Rivals(i, H) PROVE p \in Rivals(i, G)
    <3>1. PICK h \in H : h.i # i /\ h.t \in T /\ p = <<h.t, h.n>>
      BY <2>2
    <3>2. PICK f \in G : f.i # i /\ f.t = h.t /\ f.n = h.n
      BY <1>13, <3>1
    <3> QED
      BY <2>1, <3>1, <3>2
  <2> QED
    BY <2>3, <2>4
<1> QED
  BY <1>8, <1>14 DEF SameNaming

(* A transaction at its commit holds the lock of every instrument it        *)
(* listed.                                                                  *)
LEMMA PairsHeld ==
    ASSUME IInv, NInv, NEW w \in Procs, tx[w].step = "commit", NEW i \in tx[w].pairs
    PROVE  <<"instr", i>> \in tx[w].got
<1>1. LockOK(tx[w]) /\ PairLocks(tx[w])
  BY OwnTx DEF TxOK, NInv, NameOK
<1>2. tx[w].todo = {}
  BY <1>1 DEF LockOK, Waiting
<1>3. <<"instr", i>> \in Locks("instr", tx[w].pairs)
  BY DEF Locks
<1> QED
  BY <1>1, <1>2, <1>3 DEF PairLocks, Listed

(* What holds of the names another transaction is about to write still does *)
(* after a commit.                                                          *)
LEMMA CommitOthersNames ==
    ASSUME IInv, NInv, NEW w \in Procs, tx[w].step = "commit", NEW v \in Procs \ {w},
           NEW F, F = ViewOf(tx[w], facts), NEW L, L = live \ Gone(w), NEW A, A = adrift \cup Unlocked(w)
    PROVE  NameOK(tx[v], F, L, A)
<1>1. PICK x : x = tx[w]
  OBVIOUS
<1>2. PICK u : u = tx[v]
  OBVIOUS
<1>3. /\ Alone(x) /\ Alone(u) /\ Apart(x, u) /\ Apart(u, x) /\ NameOK(u, facts, live, adrift)
      /\ OpOK(u) /\ RowsOK(u)
  BY <1>1, <1>2, OwnTx DEF NInv, TxOK
<1>4. /\ \A g \in x.del : <<"ticker", g.t>> \notin x.got =>
             x.loser # None /\ g.i = x.loser /\ [g EXCEPT !.i = x.i] \in x.add
      /\ \A f \in x.add : <<"ticker", f.t>> \notin x.got =>
             x.loser # None /\ \E g \in x.del : f = [g EXCEPT !.i = x.i]
      /\ x.del \subseteq facts
      /\ \A g \in x.del : /\ [g EXCEPT !.i = x.i].i = x.i
                          /\ [g EXCEPT !.i = x.i].t = g.t /\ [g EXCEPT !.i = x.i].n = g.n
  BY <1>1, LooseRows
<1>5. \A f \in ViewOf(u, F) : f \in ViewOf(u, facts) \/ f \in x.add
  BY <1>1 DEF ViewOf
<1>6. PairLocks(u)
  BY <1>3 DEF NameOK
<1>7. PairsListed(u, F, L, A)
  <2>1. SUFFICES ASSUME u.step \in Listed, NEW f \in ViewOf(u, F), <<"ticker", f.t>> \in u.got, f.i \in L \ A
                 PROVE  f.i \in u.pairs
    BY DEF PairsListed
  <2>2. CASE f \in ViewOf(u, facts)
    BY <1>3, <2>1, <2>2 DEF NameOK, PairsListed
  <2>3. CASE f \in x.add
    <3>1. <<"ticker", f.t>> \notin x.got
      BY <1>3, <2>1 DEF Apart
    <3> QED
      BY <1>1, <2>1, <2>3, <3>1, UnlockedIs
  <2> QED
    BY <1>5, <2>1, <2>2, <2>3
<1>8. Taken(u, F)
  <2>1. SUFFICES ASSUME u.step \in Writing, u.op.kind = "withdraw", NEW f \in ViewOf(u, F),
                        f.t = u.op.t, f.n = u.op.n
                 PROVE  FALSE
    BY <1>3 DEF NameOK, Taken
  <2>2. \A g \in ViewOf(u, facts) : ~(g.t = u.op.t /\ g.n = u.op.n)
    BY <1>3, <2>1 DEF NameOK, Taken
  <2>3. f \in x.add
    BY <1>5, <2>1, <2>2
  <2>4. <<"ticker", f.t>> \notin x.got
    BY <1>3, <2>1 DEF OpOK, OfWriters, Folded, Apart
  <2>5. PICK g \in x.del : f = [g EXCEPT !.i = x.i]
    BY <1>4, <2>3, <2>4
  <2>6. g.t = u.op.t /\ g.n = u.op.n
    BY <1>4, <2>1, <2>5
  <2>7. g \in ViewOf(u, facts)
    BY <1>3, <1>4 DEF ViewOf, Apart
  <2> QED
    BY <2>2, <2>6, <2>7
<1>9. NamesRead(u, F, L, A)
  <2>1. SUFFICES ASSUME u.step = "commit", NEW i \in u.pairs, i \in L, i \notin A, i \notin Loose(u)
                 PROVE  SameNaming(i, u.read, ViewOf(u, F))
    BY DEF NamesRead
  <2>2. SameNaming(i, u.read, ViewOf(u, facts))
    BY <1>3, <2>1 DEF NameOK, NamesRead
  <2>3. i \notin x.pairs
    <3>1. <<"instr", i>> \in u.got
      BY <1>2, <2>1, PairsHeld
    <3>2. i \in x.pairs => <<"instr", i>> \in x.got
      BY <1>1, PairsHeld
    <3> QED
      BY <1>3, <3>1, <3>2 DEF Apart
  <2>4. u.del \cap x.del = {}
    BY <1>3 DEF Apart
  <2>5. ASSUME NEW f \in u.add, f.i = i PROVE <<"ticker", f.t>> \notin x.got
    <3>1. <<"ticker", f.t>> \in u.got
      BY <2>1, <2>5 DEF Loose
    <3> QED
      BY <1>3, <3>1 DEF Apart
  <2>6. ASSUME NEW g \in x.del, <<"ticker", g.t>> \notin x.got, [g EXCEPT !.i = x.i] \in u.del PROVE FALSE
    <3>1. PICK m : m = [g EXCEPT !.i = x.i]
      OBVIOUS
    <3>2. m \in x.add /\ m \in u.del /\ m.t = g.t /\ m.n = g.n
      BY <1>4, <2>6, <3>1
    <3>3. ~(u.loser # None /\ m.i = u.loser)
      BY <1>3, <2>1, <3>2 DEF Apart, Folded, Writing
    <3>4. u.op.kind = "withdraw" /\ m.t = u.op.t
      BY <1>3, <3>2, <3>3 DEF RowsOK
    <3>5. m.n = u.op.n /\ \A f \in ViewOf(u, facts) : f.t = u.op.t => f.n # u.op.n
      BY <1>3, <2>1, <3>2, <3>4 DEF NameOK, Taken, Writing
    <3>6. g \in ViewOf(u, facts)
      BY <1>4, <2>4 DEF ViewOf
    <3> QED
      BY <3>2, <3>4, <3>5, <3>6
  <2>7. SameNaming(i, (facts \ u.del) \cup u.add, (F \ u.del) \cup u.add)
    BY <1>1, <2>1, <2>3, <2>4, <2>5, <2>6, CommitNaming
  <2> QED
    BY <2>2, <2>7 DEF SameNaming, ViewOf
<1> QED
  BY <1>2, <1>6, <1>7, <1>8, <1>9 DEF NameOK

(* The names a commit writes are those its facts give, and it writes all    *)
(* that its facts change.                                                   *)
LEMMA CommitNamesFollow ==
    ASSUME IInv, NInv, NEW w \in Procs, Commit(w), NEW i \in live' \ adrift'
    PROVE  names'[i].row = Resolve(i, facts')
<1>1. PICK x : x = tx[w]
  OBVIOUS
<1>2. PICK F : F = ViewOf(x, facts)
  OBVIOUS
<1>3. /\ x.step = "commit" /\ facts' = F /\ live' = live \ Gone(w) /\ adrift' = adrift \cup Unlocked(w)
      /\ names' = [j \in Instrs |->
              IF j \in Gone(w) THEN [names[j] EXCEPT !.row = NoName]
              ELSE IF j \in x.pairs THEN Named(j, x.read, x.order) ELSE names[j]]
  BY <1>1, <1>2, ViewTyped DEF Commit
<1>4. i \in Instrs /\ i \in live /\ i \notin Gone(w) /\ i \notin adrift /\ i \notin Unlocked(w)
  BY <1>3 DEF IInv, Typed
<1>5. CASE i \in x.pairs
  <2>1. names'[i] = Named(i, x.read, x.order)
    BY <1>3, <1>4, <1>5
  <2>2. names'[i].row = Resolve(i, x.read)
    BY <2>1 DEF Named
  <2>3. SameNaming(i, x.read, F)
    <3>1. NamesRead(x, facts, live, adrift)
      BY <1>1 DEF NInv, NameOK
    <3>2. i \notin Loose(x)
      BY <1>1, <1>4, UnlockedIs
    <3> QED
      BY <1>2, <1>3, <1>4, <1>5, <3>1, <3>2 DEF NamesRead
  <2> QED
    BY <1>3, <2>2, <2>3 DEF SameNaming, Resolve
<1>6. CASE i \notin x.pairs
  <2>1. names'[i] = names[i]
    BY <1>3, <1>4, <1>6
  <2>2. names[i].row = Resolve(i, facts)
    BY <1>4 DEF NInv, NamesInStep, NamesFollow
  <2>3. SameNaming(i, (facts \ {}) \cup {}, (F \ {}) \cup {})
    BY ZenonT(60), <1>1, <1>2, <1>3, <1>4, <1>6, CommitNaming
  <2>4. SameNaming(i, facts, F)
    <3>1. (facts \ {}) \cup {} = facts /\ (F \ {}) \cup {} = F
      OBVIOUS
    <3> QED
      BY <2>3, <3>1
  <2> QED
    BY <1>3, <2>1, <2>2, <2>4 DEF SameNaming, Resolve
<1> QED
  BY <1>5, <1>6

(* A commit keeps the names in step.                                        *)
LEMMA CommitNames == ASSUME IInv, NInv, NEW w \in Procs, Commit(w) PROVE NInv'
<1>1. PICK t : t = IF w # Rebuilder THEN Ended(w, "done")
                   ELSE IF LastBatch(Cardinality(LockedTickers(w))) THEN Idle
                   ELSE RebuildFrom(Max(LockedTickers(w)), tx[w].began)
  OBVIOUS
<1>2. TxOK(t) /\ Fresh(t)
  BY <1>1, CommitEnds
<1>3. PICK p : p = Proceed(t)
  OBVIOUS
<1>4. tx' = [tx EXCEPT ![w] = p] /\ tx[w].step = "commit"
  BY <1>1, <1>3 DEF Commit, Set
<1>5. tx'[w] = p /\ \A v \in Procs \ {w} : tx'[v] = tx[v]
  BY <1>4 DEF IInv, Typed
<1>6. /\ p.step \notin Listed
      /\ ~(p.step \in Writing /\ p.op.kind = "withdraw")
  <2>1. IsTx(t) /\ t.step \notin Writing /\ t.step \notin Listed
    BY <1>2, TxHasFields DEF TxOK, Fresh, Folded, Writing, Listed
  <2> QED
    BY <1>3, <2>1, ProceedNames
<1>7. PICK F : F = ViewOf(tx[w], facts)
  OBVIOUS
<1>8. PICK L : L = live \ Gone(w)
  OBVIOUS
<1>9. PICK A : A = adrift \cup Unlocked(w)
  OBVIOUS
<1>10. facts' = F /\ live' = L /\ adrift' = A
  BY <1>7, <1>8, <1>9, ViewTyped DEF Commit
<1>11. ASSUME NEW v \in Procs PROVE NameOK(tx[v], facts, live, adrift)'
  <2>1. NameOK(tx'[v], F, L, A)
    <3>1. CASE v = w
      BY <1>5, <1>6, <3>1 DEF NameOK, PairLocks, PairsListed, NamesRead, Taken, Listed
    <3>2. CASE v # w
      BY <1>4, <1>5, <1>7, <1>8, <1>9, <3>2, CommitOthersNames
    <3> QED
      BY <3>1, <3>2
  <2> QED
    BY <1>10, <2>1 DEF NameOK
<1>12. NamesInStep'
  BY CommitNamesFollow DEF NamesInStep, NamesFollow
<1> QED
  BY <1>11, <1>12 DEF NInv

(* At the start every name is what the stored facts give.                   *)
LEMMA InitNames == ASSUME Init PROVE NInv
<1>1. PICK F : facts = F /\ names = [i \in Instrs |-> Named(i, F, 0)]
  BY DEF Init
<1>2. tx = [w \in Procs |-> Idle] /\ live = Instrs
  BY DEF Init
<1>3. NamesInStep
  BY <1>1, <1>2 DEF NamesInStep, NamesFollow, Named
<1>4. NameOK(Idle, facts, live, adrift)
  BY DEF NameOK, PairLocks, PairsListed, NamesRead, Taken, Listed, Writing, Idle
<1> QED
  BY <1>2, <1>3, <1>4 DEF NInv

(* Every step of every process keeps the names in step.                     *)
LEMMA NextNames == ASSUME IInv, NInv, [Next]_vars PROVE NInv'
<1>1. CASE UNCHANGED vars
  BY <1>1 DEF vars, history, NInv, NamesInStep, NamesFollow
<1>2. ASSUME NEW w \in Procs, Step(w) PROVE NInv'
  BY <1>2, TakeLockNames, FindNames, AssertNames, DeleteAssertionNames, ListPairsNames, ReadFactsNames,
     CommitNames, FailsNames DEF Step
<1>3. ASSUME NEW w \in Writers,
             \/ \E s \in Stated, t \in Tickers : StartRecord(w, s, t)
             \/ \E s \in Stated, t \in Tickers : StartResolve(w, s, t)
             \/ \E t \in Tickers, i \in Instrs \cup {None} : StartAttest(w, t, i)
             \/ \E f \in facts : StartWithdraw(w, f)
      PROVE  NInv'
  BY <1>3, StartsNames
<1>4. CASE Reorder
  BY <1>4 DEF Reorder, history, NInv, NamesInStep, NamesFollow
<1>5. CASE StartRebuild
  BY <1>5, StartRebuildNames
<1>6. CASE Quiet
  BY <1>6 DEF Quiet, vars, history, NInv, NamesInStep, NamesFollow
<1> QED
  BY <1>1, <1>2, <1>3, <1>4, <1>5, <1>6 DEF Next

(* The name stored for an instrument is the one all committed facts give    *)
(* it, whatever writers, merges and rebuilds overlapped, but for an         *)
(* instrument that a withdrawal or a merge wrote a fact of unlocked         *)
(* (Rebuild, LockInstrs).                                                   *)
THEOREM NamesFollowFacts == Spec => []NamesInStep
<1>1. Init => NInv
  BY InitNames
<1>2. IInv /\ NInv /\ [Next]_vars => NInv'
  BY NextNames
<1>3. NInv => NamesInStep
  BY DEF NInv
<1> QED
  BY <1>1, <1>2, <1>3, FactWritesInductive, PTL DEF Spec

-----------------------------------------------------------------------------
(* Orders *)

(* What is stored of a ticker, and what is about to be, is of order b or    *)
(* later: its rows, and the names of the instruments it names.              *)
Since(k, b) ==
    /\ FactsOf(k, facts) # {} => validity[k].order >= b
    /\ \A w \in Procs : tx[w].step = "commit" /\ <<"ticker", k>> \in tx[w].got => tx[w].order >= b
    /\ \A f \in facts : f.t = k /\ f.i \in live \ adrift =>
          /\ names[f.i].order >= b
          /\ \A w \in Procs : tx[w].step = "commit" /\ f.i \in tx[w].pairs => tx[w].order >= b

(* A ticker that has facts, or that a transaction locks, has its row. *)
RowsExist ==
    /\ \A f \in facts : f.t \in created
    /\ \A w \in Procs, k \in Tickers : <<"ticker", k>> \in tx[w].got \cup tx[w].todo => k \in created
    /\ \A w \in Procs : tx[w].op.kind \in OfWriters => tx[w].op.t \in created

Over(t) == t.step \in {"idle", "done", "failed"}

(* The tickers of the rebuild's batch, and those it will not come to any    *)
(* more once the batch is done.                                             *)
BatchOf(t) == {k \in Tickers : <<"ticker", k>> \in t.got \cup t.todo}
Behind(k, t) == k <= t.after \/ Cardinality(BatchOf(t)) < Batch \/ \E m \in BatchOf(t) : k < m

(* Those it has been past are of its order or later. *)
RebuildOn(r) ==
    /\ r.op.kind = "rebuild"
    /\ r.began <= order
    /\ \A m \in BatchOf(r) : m > r.after
    /\ \A k \in Tickers \ BatchOf(r) : Behind(k, r) => Since(k, r.began)

OInv ==
    /\ RowsExist
    /\ caughtUp \in Nat /\ caughtUp <= order
    /\ \A k \in Tickers : Since(k, caughtUp)
    /\ ~Over(tx[Rebuilder]) => RebuildOn(tx[Rebuilder])
    /\ tx[Rebuilder].step = "commit" => tx[Rebuilder].order >= tx[Rebuilder].began

(* A batch is made of the first tickers after the last one rebuilt: one     *)
(* that it leaves out, and that nothing after it will come to, has no row.  *)
LEMMA BatchIsFirst ==
    ASSUME created \subseteq Tickers, NEW after \in Nat, NEW N, N = NextBatch(after),
           NEW k \in Tickers \ N, k > after, Cardinality(N) < Batch \/ \E m \in N : k < m
    PROVE  k \notin created
<1> USE FactWritesAssumption
<1>1. SUFFICES ASSUME k \in created PROVE FALSE
  OBVIOUS
<1> DEFINE rest == {t \in created : t > after}
           Under(t) == {u \in rest : u < t}
<1>2. N = {t \in rest : Cardinality(Under(t)) < Batch}
  BY DEF NextBatch
<1>3. rest \subseteq Tickers /\ rest \subseteq Nat /\ k \in rest
  BY <1>1
<1>4. IsFiniteSet(rest)
  BY <1>3, FS_Subset
<1>5. \A t \in rest : IsFiniteSet(Under(t)) /\ Cardinality(Under(t)) \in Nat
  <2>1. ASSUME NEW t \in rest PROVE IsFiniteSet(Under(t)) /\ Cardinality(Under(t)) \in Nat
    <3>1. Under(t) \subseteq rest
      OBVIOUS
    <3> HIDE DEF Under, rest
    <3> QED
      BY <1>4, <3>1, FS_Subset, FS_CardinalityType
  <2> QED
    BY <2>1
<1>6. IsFiniteSet(N) /\ Cardinality(N) \in Nat /\ N \subseteq rest
  <2>1. N \subseteq rest
    BY <1>2
  <2> HIDE DEF rest
  <2> QED
    BY <1>4, <2>1, FS_Subset, FS_CardinalityType
<1>7. CASE \E m \in N : k < m
  <2>1. PICK m \in N : k < m
    BY <1>7
  <2>2. m \in rest /\ Cardinality(Under(m)) < Batch
    BY <1>2
  <2>3. Under(k) \subseteq Under(m)
    BY <1>3, <2>1, <2>2
  <2> HIDE DEF Under
  <2>4. Cardinality(Under(k)) <= Cardinality(Under(m))
    BY <1>5, <2>2, <2>3, FS_Subset
  <2>5. Cardinality(Under(k)) < Batch
    <3> HIDE DEF rest
    <3> QED
      BY <1>3, <1>5, <2>2, <2>4
  <2> QED
    BY <1>2, <1>3, <2>5
<1>8. CASE Cardinality(N) < Batch
  <2>1. rest \ N # {} /\ rest \ N \in SUBSET Nat
    BY <1>3
  <2>2. PICK j \in rest \ N : \A u \in rest \ N : j <= u
    BY <2>1, LeastOf
  <2>3. Under(j) \subseteq N
    BY <1>3, <2>2
  <2> HIDE DEF Under
  <2>4. Cardinality(Under(j)) <= Cardinality(N)
    BY <1>6, <2>3, FS_Subset
  <2>5. Cardinality(Under(j)) < Batch
    <3> HIDE DEF rest
    <3> QED
      BY <1>5, <1>6, <1>8, <2>2, <2>4
  <2> QED
    BY <1>2, <2>2, <2>5
<1> QED
  BY <1>7, <1>8

(* Nothing is stored of a ticker without a row, so nothing old is.          *)
LEMMA NoRowSince == ASSUME IInv, RowsExist, NEW k \in Tickers, k \notin created, NEW b PROVE Since(k, b)
BY DEF Since, RowsExist, FactsOf

(* What moving on from a phase of locks does to them.                       *)
LEMMA ProceedOrders ==
    ASSUME NEW t, IsTx(t), NEW p, p = Proceed(t)
    PROVE  /\ p.got = t.got /\ p.op = t.op /\ p.after = t.after /\ p.began = t.began /\ p.order = t.order
           /\ p.step = "commit" <=> t.step = "commit"
           /\ Over(p) <=> Over(t)
           /\ \/ p.todo = t.todo
              \/ p.todo = {<<"ticker", t.op.t>>} /\ t.op.kind = "record" /\ t.todo = {}
<1>1. CASE ~(t.step \in Waiting /\ t.todo = {})
  <2>1. p = t
    BY <1>1 DEF Proceed, Waiting
  <2> QED
    BY <2>1
<1>2. CASE t.step \in Waiting /\ t.todo = {}
  <2> DEFINE s == AfterLocks(t)
             d == IF s = "tickers" THEN {<<"ticker", t.op.t>>} ELSE {}
  <2>1. p = [t EXCEPT !.step = s, !.todo = d]
    BY <1>2 DEF Proceed, Waiting
  <2>2. /\ s \in {"tickers", "find", "held", "write", "pairs", "read"}
        /\ s = "tickers" => t.op.kind = "record"
    BY <1>2 DEF AfterLocks, Waiting
  <2>3. d = {} \/ (d = {<<"ticker", t.op.t>>} /\ s = "tickers")
    OBVIOUS
  <2> HIDE DEF s, d
  <2>4. /\ p.step = s /\ p.todo = d
        /\ p.got = t.got /\ p.op = t.op /\ p.after = t.after /\ p.began = t.began /\ p.order = t.order
    BY <2>1 DEF IsTx, Fields
  <2> QED
    BY <1>2, <2>2, <2>3, <2>4 DEF Waiting, Over
<1> QED
  BY <1>1, <1>2

(* Nothing grows older by a statement of one transaction, which reads the   *)
(* order in force if it reads one.                                          *)
LEMMA SinceStays ==
    ASSUME NEW w \in Procs, NEW p, tx'[w] = p, \A v \in Procs \ {w} : tx'[v] = tx[v],
           UNCHANGED <<facts, live, names, adrift, validity>>,
           NEW b \in Nat, b <= order, order \in Nat, p.step = "commit" => p.order \in Nat /\ p.order >= order,
           NEW k \in Tickers, Since(k, b)
    PROVE  Since(k, b)'
<1>1. ASSUME NEW v \in Procs, tx'[v].step = "commit"
      PROVE  tx'[v].order >= b \/ tx'[v] = tx[v]
  BY <1>1
<1>2. FactsOf(k, facts)' # {} => validity'[k].order >= b
  BY DEF Since, FactsOf
<1>3. \A v \in Procs : tx'[v].step = "commit" /\ <<"ticker", k>> \in tx'[v].got => tx'[v].order >= b
  BY <1>1 DEF Since
<1>4. ASSUME NEW f \in facts, f.t = k, f.i \in live \ adrift
      PROVE  /\ names[f.i].order >= b
             /\ \A v \in Procs : tx'[v].step = "commit" /\ f.i \in tx'[v].pairs => tx'[v].order >= b
  BY <1>1, <1>4 DEF Since
<1> QED
  BY <1>2, <1>3, <1>4 DEF Since

(* What a transaction may lock. *)
Lockable(t, C) ==
    /\ \A k \in Tickers : <<"ticker", k>> \in t.got \cup t.todo => k \in C
    /\ t.op.kind \in OfWriters => t.op.t \in C

(* A statement that changes no stored row keeps the invariant if it locks   *)
(* rows that exist, reads the order in force, and leaves no ticker behind.  *)
LEMMA OrderMoves ==
    ASSUME IInv, OInv, NEW w \in Procs, NEW t, IsTx(t), Set(w, t),
           UNCHANGED <<facts, live, names, adrift, validity, order, caughtUp>>, created \subseteq created',
           t.step = "commit" => t.order \in Nat /\ t.order >= order,
           Lockable(t, created'),
           w = Rebuilder => t.began \in Nat /\ (Over(t) \/ RebuildOn(t))
    PROVE  OInv'
<1> USE FactWritesAssumption
<1>1. PICK p : p = Proceed(t)
  OBVIOUS
<1>2. tx'[w] = p /\ \A v \in Procs \ {w} : tx'[v] = tx[v]
  BY <1>1 DEF Set, IInv, Typed
<1>3. /\ p.got = t.got /\ p.op = t.op /\ p.after = t.after /\ p.began = t.began /\ p.order = t.order
      /\ p.step = "commit" <=> t.step = "commit"
      /\ Over(p) <=> Over(t)
      /\ \/ p.todo = t.todo
         \/ p.todo = {<<"ticker", t.op.t>>} /\ t.op.kind = "record" /\ t.todo = {}
  BY <1>1, ProceedOrders
<1>4. order \in Nat /\ order' = order /\ caughtUp' = caughtUp /\ facts' = facts
  BY DEF IInv, Typed
<1>5. ASSUME NEW b \in Nat, b <= order, NEW k \in Tickers, Since(k, b) PROVE Since(k, b)'
  <2>1. p.step = "commit" => p.order \in Nat /\ p.order >= order
    BY <1>3
  <2> QED
    BY <1>2, <1>4, <1>5, <2>1, SinceStays
<1>6. Lockable(p, created')
  <2>1. \A k \in Tickers : <<"ticker", k>> \in p.got \cup p.todo => k \in created'
    <3>1. ASSUME NEW k, <<"ticker", k>> = <<"ticker", t.op.t>> PROVE k = t.op.t
      BY <3>1
    <3> QED
      BY <1>3, <3>1 DEF Lockable, OfWriters
  <2> QED
    BY <1>3, <2>1 DEF Lockable
<1>7. RowsExist'
  <2>1. \A f \in facts : f.t \in created'
    BY DEF OInv, RowsExist
  <2>2. ASSUME NEW v \in Procs PROVE Lockable(tx'[v], created')
    <3>1. CASE v = w
      BY <1>2, <1>6, <3>1
    <3>2. CASE v # w
      BY <1>2, <3>2 DEF OInv, RowsExist, Lockable
    <3> QED
      BY <3>1, <3>2
  <2> QED
    BY <1>4, <2>1, <2>2 DEF RowsExist, Lockable
<1>8. (\A k \in Tickers : Since(k, caughtUp))'
  <2>1. PICK c \in Nat : c = caughtUp
    BY DEF OInv
  <2>2. \A k \in Tickers : Since(k, c)'
    BY <1>5, <2>1 DEF OInv
  <2> QED
    BY <1>4, <2>1, <2>2
<1>9. ASSUME NEW r, RebuildOn(r), r.began \in Nat PROVE RebuildOn(r)'
  <2>1. PICK b \in Nat : b = r.began
    BY <1>9
  <2>2. ASSUME NEW k \in Tickers \ BatchOf(r), Behind(k, r) PROVE Since(k, b)'
    BY <1>5, <1>9, <2>1, <2>2 DEF RebuildOn
  <2> QED
    BY <1>4, <1>9, <2>1, <2>2 DEF RebuildOn
<1>10. CASE w # Rebuilder
  <2>1. tx'[Rebuilder] = tx[Rebuilder] /\ tx[Rebuilder].began \in Nat
    BY <1>2, <1>10, OwnTx DEF Procs, TxSet
  <2>2. PICK r : r = tx[Rebuilder]
    OBVIOUS
  <2>3. ~Over(r) => RebuildOn(r)'
    BY <1>9, <2>1, <2>2 DEF OInv
  <2>4. (~Over(tx[Rebuilder]) => RebuildOn(tx[Rebuilder]))'
    BY <2>1, <2>2, <2>3
  <2> QED
    BY <1>4, <1>7, <1>8, <2>1, <2>4 DEF OInv
<1>11. CASE w = Rebuilder
  <2>1. ~Over(t) => BatchOf(p) = BatchOf(t)
    BY <1>3, <1>11 DEF RebuildOn, BatchOf
  <2>2. ~Over(p) => RebuildOn(p)
    <3>1. SUFFICES ASSUME ~Over(p) PROVE RebuildOn(p)
      OBVIOUS
    <3>2. RebuildOn(t) /\ BatchOf(p) = BatchOf(t)
      BY <1>3, <1>11, <2>1, <3>1
    <3>3. \A k : Behind(k, p) <=> Behind(k, t)
      BY <1>3, <3>2 DEF Behind
    <3> QED
      BY <1>3, <3>2, <3>3 DEF RebuildOn
  <2>3. (~Over(tx[Rebuilder]) => RebuildOn(tx[Rebuilder]))'
    BY <1>2, <1>3, <1>9, <1>11, <2>2
  <2>4. p.step = "commit" => p.order >= p.began
    <3>1. SUFFICES ASSUME p.step = "commit" PROVE p.order >= p.began
      OBVIOUS
    <3>2. RebuildOn(t) /\ t.order \in Nat /\ t.order >= order /\ t.began \in Nat
      BY <1>3, <1>11, <3>1 DEF Over
    <3> QED
      BY <1>3, <1>4, <3>2 DEF RebuildOn
  <2> QED
    BY <1>2, <1>4, <1>7, <1>8, <1>11, <2>3, <2>4 DEF OInv
<1> QED
  BY <1>10, <1>11

(* A statement that locks no further ticker.                                *)
LEMMA SameTickers ==
    ASSUME IInv, OInv, NEW w \in Procs, NEW x, x = tx[w], NEW t, IsTx(t), Set(w, t), Inside,
           ~Over(x), t.op = x.op, t.after = x.after, t.began = x.began,
           \A k : <<"ticker", k>> \in t.got \cup t.todo <=> <<"ticker", k>> \in x.got \cup x.todo,
           t.step = "commit" => t.order = order
    PROVE  OInv'
<1>1. /\ UNCHANGED <<facts, live, names, adrift, validity, order, caughtUp>> /\ created \subseteq created'
      /\ order \in Nat /\ x.began \in Nat
  BY OwnTx DEF Inside, db, history, IInv, Typed, TxSet
<1>2. Lockable(t, created')
  BY <1>1 DEF Lockable, OInv, RowsExist
<1>3. w = Rebuilder => RebuildOn(t)
  <2>1. SUFFICES ASSUME w = Rebuilder PROVE RebuildOn(t)
    OBVIOUS
  <2>2. RebuildOn(x)
    BY <2>1 DEF OInv
  <2>3. BatchOf(t) = BatchOf(x)
    BY DEF BatchOf
  <2>4. \A k : Behind(k, t) <=> Behind(k, x)
    BY <2>3 DEF Behind
  <2> QED
    BY <2>2, <2>3, <2>4 DEF RebuildOn
<1> QED
  BY <1>1, <1>2, <1>3, OrderMoves

(* A batch begins with the locks of its tickers, and leaves out no ticker   *)
(* with a row that it will not come to.                                     *)
LEMMA BatchLists ==
    ASSUME created \subseteq Tickers, NEW after \in Nat, NEW began \in Nat, NEW r, r = RebuildFrom(after, began)
    PROVE  /\ IsTx(r) /\ r.op.kind = "rebuild" /\ r.began = began /\ r.after = after /\ r.step = "tickers"
           /\ Lockable(r, created)
           /\ \A m \in BatchOf(r) : m > after
           /\ \A k \in Tickers \ BatchOf(r) : Behind(k, r) => k <= after \/ k \notin created
<1> USE FactWritesAssumption
<1>1. PICK N : N = NextBatch(after)
  OBVIOUS
<1>2. N \subseteq created /\ \A m \in N : m > after
  BY <1>1 DEF NextBatch
<1>3. PICK op : op = [NoOp EXCEPT !.kind = "rebuild"]
  OBVIOUS
<1>4. op.kind = "rebuild"
  BY <1>3 DEF NoOp
<1>5. r = [Idle EXCEPT !.op = op, !.step = "tickers", !.began = began,
                       !.after = after, !.todo = Locks("ticker", N)]
  BY <1>1, <1>3 DEF RebuildFrom
<1>6. /\ IsTx(r) /\ r.op = op /\ r.step = "tickers" /\ r.began = began /\ r.after = after
      /\ r.todo = Locks("ticker", N) /\ r.got = {}
  <2>1. IsTx(Idle) /\ Idle.got = {}
    BY DEF Idle, IsTx, Fields
  <2>2. PICK c : c = [Idle EXCEPT !.op = op, !.step = "tickers", !.began = began]
    OBVIOUS
  <2>3. IsTx(c) /\ c.op = op /\ c.step = "tickers" /\ c.began = began /\ c.got = {}
    BY <2>1, <2>2 DEF IsTx, Fields
  <2>4. r = [c EXCEPT !.after = after, !.todo = Locks("ticker", N)]
    BY <1>5, <2>2 DEF Idle
  <2> QED
    BY <2>3, <2>4 DEF IsTx, Fields
<1>7. \A k : <<"ticker", k>> \in Locks("ticker", N) <=> k \in N
  BY DEF Locks
<1>8. BatchOf(r) = N
  <2>1. r.got \cup r.todo = Locks("ticker", N)
    BY <1>6
  <2>2. BatchOf(r) = {k \in Tickers : k \in N}
    BY <1>7, <2>1 DEF BatchOf
  <2> QED
    BY <1>2, <2>2
<1>9. ASSUME NEW k \in Tickers \ N, Behind(k, r), ~(k <= after) PROVE k \notin created
  <2>1. k > after
    BY <1>9
  <2>2. Cardinality(N) < Batch \/ \E m \in N : k < m
    BY <1>6, <1>8, <1>9 DEF Behind
  <2> QED
    BY <1>1, <2>1, <2>2, BatchIsFirst
<1>10. Lockable(r, created)
  BY <1>2, <1>4, <1>6, <1>7 DEF Lockable, OfWriters
<1> QED
  BY <1>2, <1>4, <1>6, <1>8, <1>9, <1>10

(* A batch of a rebuild that has been past every ticker up to the last.     *)
LEMMA BatchBegins ==
    ASSUME IInv, RowsExist, NEW after \in Nat, NEW began \in Nat, began <= order,
           \A k \in Tickers : k <= after => Since(k, began),
           NEW r, r = RebuildFrom(after, began)
    PROVE  /\ IsTx(r) /\ r.began = began /\ r.step = "tickers" /\ Lockable(r, created) /\ RebuildOn(r)
<1>1. /\ IsTx(r) /\ r.op.kind = "rebuild" /\ r.began = began /\ r.after = after /\ r.step = "tickers"
      /\ Lockable(r, created)
      /\ \A m \in BatchOf(r) : m > after
      /\ \A k \in Tickers \ BatchOf(r) : Behind(k, r) => k <= after \/ k \notin created
  BY BatchLists DEF IInv, Typed
<1>2. \A k \in Tickers \ BatchOf(r) : Behind(k, r) => Since(k, began)
  BY <1>1, NoRowSince
<1> QED
  BY <1>1, <1>2 DEF RebuildOn

(* The number of an attempt changes nothing of it.                          *)
LEMMA TriesOrders ==
    ASSUME NEW t, IsTx(t), NEW n, NEW b, b = [t EXCEPT !.tries = n], NEW C
    PROVE  /\ IsTx(b) /\ b.step = t.step /\ b.began = t.began
           /\ Lockable(t, C) => Lockable(b, C)
           /\ RebuildOn(t) => RebuildOn(b)
<1>1. /\ IsTx(b) /\ b.step = t.step /\ b.op = t.op /\ b.got = t.got /\ b.todo = t.todo
      /\ b.after = t.after /\ b.began = t.began
  BY DEF IsTx, Fields
<1>2. BatchOf(b) = BatchOf(t)
  BY <1>1 DEF BatchOf
<1>3. \A k : Behind(k, b) <=> Behind(k, t)
  BY <1>1, <1>2 DEF Behind
<1>4. Lockable(t, C) => Lockable(b, C)
  BY <1>1 DEF Lockable
<1>5. RebuildOn(t) => RebuildOn(b)
  BY <1>1, <1>2, <1>3 DEF RebuildOn
<1> QED
  BY <1>1, <1>4, <1>5

(* A write begins with locks on rows that exist.                            *)
LEMMA BegunLocks ==
    ASSUME NEW op, op.kind \in OfWriters, NEW C, op.t \in C, NEW b, b = Begun(op)
    PROVE  IsTx(b) /\ b.step # "commit" /\ Lockable(b, C)
<1> DEFINE s == IF op.ids # {} THEN "ids" ELSE "tickers"
           d == IF op.ids # {} THEN Locks("identifier", op.ids) ELSE Locks("ticker", {op.t})
<1>1. s # "commit" /\ \A k : <<"ticker", k>> \in d => k = op.t
  BY DEF Locks
<1>2. b = [Idle EXCEPT !.op = op, !.i = op.i, !.step = s, !.todo = d]
  BY DEF Begun
<1> HIDE DEF s, d
<1>3. IsTx(b) /\ b.step = s /\ b.todo = d /\ b.got = {} /\ b.op = op
  <2>1. IsTx(Idle) /\ Idle.got = {}
    BY DEF Idle, IsTx, Fields
  <2> QED
    BY <1>2, <2>1 DEF IsTx, Fields
<1> QED
  BY <1>1, <1>3 DEF Lockable

(* A transaction that ends holds no lock.                                   *)
LEMMA EndedLocks ==
    ASSUME RowsExist, NEW w \in Procs, NEW how \in {"done", "failed"}, NEW b, b = Ended(w, how)
    PROVE  IsTx(b) /\ Over(b) /\ b.step # "commit" /\ b.began = 0 /\ Lockable(b, created)
<1>1. IsTx(Idle) /\ Idle.got = {} /\ Idle.todo = {} /\ Idle.began = 0
  BY DEF Idle, IsTx, Fields
<1>2. b = [Idle EXCEPT !.step = how, !.op = tx[w].op]
  BY DEF Ended
<1>3. IsTx(b) /\ b.step = how /\ b.op = tx[w].op /\ b.got = {} /\ b.todo = {} /\ b.began = 0
  BY <1>1, <1>2 DEF IsTx, Fields
<1> QED
  BY <1>3 DEF Over, Lockable, RowsExist

(* A transaction that fails, or is run again: the rebuild from the ticker   *)
(* it had come to.                                                          *)
LEMMA EndsOrders ==
    ASSUME IInv, OInv, NEW w \in Procs, Inside,
           \/ Set(w, Ended(w, "failed"))
           \/ ~Over(tx[w]) /\ Set(w, Retried(w))
    PROVE  OInv'
<1> USE FactWritesAssumption
<1>1. /\ UNCHANGED <<facts, live, names, adrift, validity, order, caughtUp, created>>
      /\ RowsExist
  BY DEF Inside, db, history, OInv
<1>2. CASE Set(w, Ended(w, "failed"))
  <2>1. PICK b : b = Ended(w, "failed")
    OBVIOUS
  <2>2. IsTx(b) /\ Over(b) /\ b.step # "commit" /\ b.began = 0 /\ Lockable(b, created)
    BY <1>1, <2>1, EndedLocks
  <2> QED
    BY <1>1, <1>2, <2>1, <2>2, OrderMoves
<1>3. CASE ~Over(tx[w]) /\ Set(w, Retried(w)) /\ ~(tx[w].tries >= Tries)
  <2>1. PICK x : x = tx[w]
    OBVIOUS
  <2>2. PICK n : n = x.tries + 1
    OBVIOUS
  <2>3. x \in TxSet /\ x.after \in Nat /\ x.began \in Nat /\ OpOK(x) /\ x.op \in OpSet
    BY <2>1, OwnTx DEF TxOK, TxSet
  <2>4. CASE w = Rebuilder
    <3>1. PICK after \in Nat, began \in Nat : after = x.after /\ began = x.began
      BY <2>3
    <3>2. PICK a, b : a = RebuildFrom(after, began) /\ b = [a EXCEPT !.tries = n]
      OBVIOUS
    <3>3. Set(w, b)
      BY <1>3, <2>1, <2>2, <2>4, <3>1, <3>2 DEF Retried
    <3>4. RebuildOn(x)
      BY <1>3, <2>1, <2>4 DEF OInv
    <3>5. ASSUME NEW k \in Tickers, k <= x.after PROVE Since(k, x.began)
      <4>1. k \notin BatchOf(x)
        BY <2>3, <3>4, <3>5 DEF RebuildOn, BatchOf
      <4> QED
        BY <3>4, <3>5, <4>1 DEF RebuildOn, Behind
    <3>6. began <= order /\ \A k \in Tickers : k <= after => Since(k, began)
      BY <3>1, <3>4, <3>5 DEF RebuildOn
    <3>7. IsTx(a) /\ a.began = began /\ a.step = "tickers" /\ Lockable(a, created) /\ RebuildOn(a)
      BY <1>1, <3>2, <3>6, BatchBegins
    <3>8. IsTx(b) /\ b.began = began /\ b.step = "tickers" /\ Lockable(b, created) /\ RebuildOn(b)
      BY <3>2, <3>7, TriesOrders
    <3> QED
      BY <1>1, <3>3, <3>8, OrderMoves
  <2>5. CASE w # Rebuilder
    <3>1. PICK a, b : a = Begun(x.op) /\ b = [a EXCEPT !.tries = n]
      OBVIOUS
    <3>2. Set(w, b)
      BY <1>3, <2>1, <2>2, <2>5, <3>1 DEF Retried
    <3>3. x.op.kind \in OfWriters
      BY <1>3, <2>1, <2>3, <2>5, OwnTx DEF Over, OpOK, OpSet, OpKinds, OfWriters
    <3>4. x.op.t \in created
      BY <1>1, <2>1, <3>3 DEF RowsExist
    <3>5. IsTx(b) /\ b.step # "commit" /\ Lockable(b, created)
      <4>1. IsTx(a) /\ a.step # "commit" /\ Lockable(a, created)
        BY <3>1, <3>3, <3>4, BegunLocks
      <4> QED
        BY <3>1, <4>1, TriesOrders
    <3> QED
      BY <1>1, <2>5, <3>2, <3>5, OrderMoves
  <2> QED
    BY <2>4, <2>5
<1>4. CASE ~Over(tx[w]) /\ Set(w, Retried(w)) /\ tx[w].tries >= Tries
  <2>1. Set(w, Ended(w, "failed"))
    BY <1>4 DEF Retried
  <2> QED
    BY <1>2, <2>1
<1> QED
  BY <1>2, <1>3, <1>4

(* A write begins once its ticker's row exists.                             *)
LEMMA StartsOrders ==
    ASSUME IInv, OInv, NEW w \in Writers,
           \/ \E s \in Stated, t \in Tickers : StartRecord(w, s, t)
           \/ \E s \in Stated, t \in Tickers : StartResolve(w, s, t)
           \/ \E t \in Tickers, i \in Instrs \cup {None} : StartAttest(w, t, i)
           \/ \E f \in facts : StartWithdraw(w, f)
    PROVE  OInv'
<1> USE FactWritesAssumption
<1>1. /\ w \in Procs /\ w # Rebuilder /\ created \subseteq created'
      /\ UNCHANGED <<facts, live, names, adrift, validity, order, caughtUp>>
  BY DEF Procs, StartRecord, StartResolve, StartAttest, StartWithdraw, history, db
<1>2. PICK op : op.kind \in OfWriters /\ op.t \in created' /\ Set(w, Begun(op))
  <2>1. CASE \E s \in Stated, t \in Tickers : StartRecord(w, s, t)
    BY <2>1 DEF StartRecord, OfWriters
  <2>2. CASE \E s \in Stated, t \in Tickers : StartResolve(w, s, t)
    BY <2>2 DEF StartResolve, OfWriters
  <2>3. CASE \E t \in Tickers, i \in Instrs \cup {None} : StartAttest(w, t, i)
    BY <2>3 DEF StartAttest, OfWriters
  <2>4. CASE \E f \in facts : StartWithdraw(w, f)
    <3>1. PICK f \in facts : StartWithdraw(w, f)
      BY <2>4
    <3>2. f.t \in created'
      BY <1>1 DEF OInv, RowsExist
    <3> QED
      BY <3>1, <3>2 DEF StartWithdraw, OfWriters
  <2> QED
    BY <2>1, <2>2, <2>3, <2>4
<1>3. PICK b : b = Begun(op)
  OBVIOUS
<1>4. IsTx(b) /\ b.step # "commit" /\ Lockable(b, created')
  BY <1>2, <1>3, BegunLocks
<1> QED
  BY <1>1, <1>2, <1>3, <1>4, OrderMoves

(* A rebuild begins with every ticker that has a row before it.             *)
LEMMA StartRebuildOrders == ASSUME IInv, OInv, StartRebuild PROVE OInv'
<1> USE FactWritesAssumption
<1>1. PICK b : b = RebuildFrom(None, order)
  OBVIOUS
<1>2. /\ Rebuilder \in Procs /\ Set(Rebuilder, b)
      /\ UNCHANGED <<facts, live, names, adrift, validity, order, caughtUp, created>>
  BY <1>1 DEF StartRebuild, Procs, db, history
<1>3. None \in Nat /\ order \in Nat /\ RowsExist /\ \A k \in Tickers : ~(k <= None)
  BY DEF None, IInv, Typed, OInv
<1>4. PICK after \in Nat, began \in Nat : after = None /\ began = order
  BY <1>3
<1>5. IsTx(b) /\ b.began = began /\ b.step = "tickers" /\ Lockable(b, created) /\ RebuildOn(b)
  BY <1>1, <1>3, <1>4, BatchBegins
<1> QED
  BY <1>2, <1>5, OrderMoves

(* A reorder makes no stored derivation older than it was.                  *)
LEMMA ReorderOrders == ASSUME IInv, OInv, Reorder PROVE OInv'
<1>1. /\ order \in Nat /\ order' = order + 1
      /\ UNCHANGED <<created, facts, live, validity, names, tx, caughtUp, adrift>>
  BY DEF Reorder, history, IInv, Typed
<1>2. Rebuilder \in Procs /\ tx[Rebuilder].began \in Nat
  BY OwnTx DEF Procs, TxSet
<1>3. ASSUME NEW k, NEW b PROVE Since(k, b)' <=> Since(k, b)
  BY <1>1 DEF Since, FactsOf
<1>4. RowsExist'
  BY <1>1 DEF OInv, RowsExist
<1>5. PICK c : c = caughtUp
  OBVIOUS
<1>6. c \in Nat /\ c <= order + 1 /\ \A k \in Tickers : Since(k, c)'
  BY <1>1, <1>3, <1>5 DEF OInv
<1>7. PICK r : r = tx[Rebuilder]
  OBVIOUS
<1>8. ~Over(r) => RebuildOn(r)'
  <2>1. SUFFICES ASSUME ~Over(r) PROVE RebuildOn(r)'
    OBVIOUS
  <2>2. PICK b : b = r.began
    OBVIOUS
  <2>3. RebuildOn(r) /\ b \in Nat
    BY <1>2, <1>7, <2>1, <2>2 DEF OInv
  <2>4. \A k \in Tickers \ BatchOf(r) : Behind(k, r) => Since(k, b)'
    BY <1>3, <2>2, <2>3 DEF RebuildOn
  <2>5. b <= order + 1
    BY <1>1, <2>2, <2>3 DEF RebuildOn
  <2> QED
    BY <1>1, <2>2, <2>3, <2>4, <2>5 DEF RebuildOn
<1> QED
  BY <1>1, <1>4, <1>5, <1>6, <1>7, <1>8 DEF OInv

(* The statements of a transaction before its commit: only a resolution     *)
(* lists further tickers, those of the instrument it merges, which have     *)
(* facts.                                                                   *)
LEMMA StatementOrders ==
    ASSUME IInv, OInv, NEW w \in Procs,
           \/ TakeLock(w) \/ FindInstr(w) \/ FindTarget(w) \/ ListHeld(w) \/ Relink(w) \/ DeleteInstr(w)
           \/ CheckMoved(w) \/ Assert(w) \/ Decline(w) \/ DeleteAssertion(w) \/ ListPairs(w) \/ ReadFacts(w)
           \/ CommitFails(w) \/ DeadlockVictim(w)
    PROVE  OInv'
<1>1. PICK x : x = tx[w]
  OBVIOUS
<1>2. IsTx(x) /\ LockOK(x) /\ Alone(x) /\ TxOK(x)
  BY <1>1, OwnTx, TxHasFields DEF TxOK
<1>3. CASE TakeLock(w)
  <2>1. PICK l : l = NextLock(w)
    OBVIOUS
  <2>2. PICK t : t = [x EXCEPT !.got = x.got \cup {l}, !.todo = x.todo \ {l}]
    OBVIOUS
  <2>3. x.step \in Waiting /\ Set(w, t) /\ Inside
    BY <1>1, <1>3, <2>1, <2>2 DEF TakeLock, Waiting, Inside
  <2>4. l \in x.todo
    BY <1>1, <1>2, <2>1, <2>3, NextIsLeast DEF Alone, Settled
  <2>5. /\ IsTx(t) /\ t.step = x.step /\ t.op = x.op /\ t.after = x.after /\ t.began = x.began
        /\ t.got = x.got \cup {l} /\ t.todo = x.todo \ {l}
    BY <1>2, <2>2 DEF IsTx, Fields
  <2>6. \A k : <<"ticker", k>> \in t.got \cup t.todo <=> <<"ticker", k>> \in x.got \cup x.todo
    BY <2>4, <2>5
  <2> QED
    BY <1>1, <2>3, <2>5, <2>6, SameTickers DEF Waiting, Over
<1>4. CASE FindInstr(w)
  <2>1. PICK t : t = [x EXCEPT !.i = owner[Min(x.op.ids)], !.step = "write"]
    OBVIOUS
  <2>2. Set(w, t) /\ Inside /\ x.step = "find"
    BY <1>1, <1>4, <2>1 DEF FindInstr, Inside
  <2>3. /\ IsTx(t) /\ t.step = "write" /\ t.op = x.op /\ t.after = x.after /\ t.began = x.began
        /\ t.got = x.got /\ t.todo = x.todo
    BY <1>2, <2>1 DEF IsTx, Fields
  <2> QED
    BY <1>1, <2>2, <2>3, SameTickers DEF Over
<1>5. CASE FindTarget(w)
  <2>1. x.step = "find" /\ x.op.kind = "resolve" /\ Inside
    BY <1>1, <1>5 DEF FindTarget, Inside
  <2>2. PICK i, l : Set(w, [x EXCEPT !.i = i, !.loser = l, !.step = "tickers",
                        !.todo = Locks("ticker", {x.op.t} \cup TickersOf(facts, {l} \ {None}))])
    BY <1>1, <1>5 DEF FindTarget
  <2>3. PICK d : d = Locks("ticker", {x.op.t} \cup TickersOf(facts, {l} \ {None}))
    OBVIOUS
  <2>4. PICK t : t = [x EXCEPT !.i = i, !.loser = l, !.step = "tickers", !.todo = d]
    OBVIOUS
  <2>5. Set(w, t)
    BY <2>2, <2>3, <2>4
  <2>6. /\ IsTx(t) /\ t.step = "tickers" /\ t.op = x.op /\ t.got = x.got /\ t.todo = d
    BY <1>2, <2>4 DEF IsTx, Fields
  <2>7. w # Rebuilder
    BY <1>1, <2>1 DEF OInv, Over, RebuildOn
  <2>8. RowsExist /\ UNCHANGED <<facts, live, names, adrift, validity, order, caughtUp, created>>
    BY <2>1 DEF OInv, Inside, db, history
  <2>9. x.op.t \in created /\ TickersOf(facts, {l} \ {None}) \subseteq created
    BY <1>1, <2>1, <2>8 DEF RowsExist, OfWriters, TickersOf
  <2>10. \A k : <<"ticker", k>> \in d => k \in created
    BY <2>3, <2>9 DEF Locks
  <2>11. Lockable(t, created')
    BY <1>1, <2>6, <2>8, <2>10 DEF Lockable, RowsExist
  <2> QED
    BY <2>5, <2>6, <2>7, <2>8, <2>11, OrderMoves
<1>6. CASE ListHeld(w)
  <2>1. PICK t : t = [x EXCEPT !.held = TickersOf(facts, {x.i}), !.step = "relink"]
    OBVIOUS
  <2>2. Set(w, t) /\ Inside /\ x.step = "held"
    BY <1>1, <1>6, <2>1 DEF ListHeld, Inside
  <2>3. /\ IsTx(t) /\ t.step = "relink" /\ t.op = x.op /\ t.after = x.after /\ t.began = x.began
        /\ t.got = x.got /\ t.todo = x.todo
    BY <1>2, <2>1 DEF IsTx, Fields
  <2> QED
    BY <1>1, <2>2, <2>3, SameTickers DEF Over
<1>7. CASE Relink(w)
  <2>1. PICK m : m = {[f EXCEPT !.i = x.i] : f \in OfLoser(w)}
    OBVIOUS
  <2>2. PICK t : t = [x EXCEPT !.del = OfLoser(w), !.add = m, !.step = "delete"]
    OBVIOUS
  <2>3. (Set(w, t) \/ Set(w, Ended(w, "failed"))) /\ Inside /\ x.step = "relink"
    BY <1>1, <1>7, <2>1, <2>2 DEF Relink, Inside
  <2>4. /\ IsTx(t) /\ t.step = "delete" /\ t.op = x.op /\ t.after = x.after /\ t.began = x.began
        /\ t.got = x.got /\ t.todo = x.todo
    BY <1>2, <2>2 DEF IsTx, Fields
  <2> QED
    BY <1>1, <2>3, <2>4, SameTickers, EndsOrders DEF Over
<1>8. CASE DeleteInstr(w)
  <2>1. PICK t : t = [x EXCEPT !.step = "check"]
    OBVIOUS
  <2>2. (Set(w, t) \/ Set(w, Ended(w, "failed"))) /\ Inside /\ x.step = "delete"
    BY <1>1, <1>8, <2>1 DEF DeleteInstr, Inside
  <2>3. /\ IsTx(t) /\ t.step = "check" /\ t.op = x.op /\ t.after = x.after /\ t.began = x.began
        /\ t.got = x.got /\ t.todo = x.todo
    BY <1>2, <2>1 DEF IsTx, Fields
  <2> QED
    BY <1>1, <2>2, <2>3, SameTickers, EndsOrders DEF Over
<1>9. CASE CheckMoved(w)
  <2>1. PICK t : t = [x EXCEPT !.step = "write"]
    OBVIOUS
  <2>2. (Set(w, t) \/ Set(w, Retried(w))) /\ Inside /\ x.step = "check"
    BY <1>1, <1>9, <2>1 DEF CheckMoved, Inside
  <2>3. /\ IsTx(t) /\ t.step = "write" /\ t.op = x.op /\ t.after = x.after /\ t.began = x.began
        /\ t.got = x.got /\ t.todo = x.todo
    BY <1>2, <2>1 DEF IsTx, Fields
  <2> QED
    BY <1>1, <2>2, <2>3, SameTickers, EndsOrders DEF Over
<1>10. CASE Assert(w)
  <2>1. PICK a : a = x.add \cup {[t |-> x.op.t, i |-> x.i, n |-> x.op.n, attested |-> x.op.kind = "attest"]}
    OBVIOUS
  <2>2. PICK t : t = [x EXCEPT !.add = a, !.step = "pairs"]
    OBVIOUS
  <2>3. (Set(w, t) \/ Set(w, Ended(w, "failed"))) /\ Inside /\ x.step = "write"
    BY <1>1, <1>10, <2>1, <2>2 DEF Assert, Inside
  <2>4. /\ IsTx(t) /\ t.step = "pairs" /\ t.op = x.op /\ t.after = x.after /\ t.began = x.began
        /\ t.got = x.got /\ t.todo = x.todo
    BY <1>2, <2>2 DEF IsTx, Fields
  <2> QED
    BY <1>1, <2>3, <2>4, SameTickers, EndsOrders DEF Over
<1>11. CASE Decline(w)
  <2>1. PICK t : t = [x EXCEPT !.step = "pairs"]
    OBVIOUS
  <2>2. Set(w, t) /\ Inside /\ x.step = "write"
    BY <1>1, <1>11, <2>1 DEF Decline, Inside
  <2>3. /\ IsTx(t) /\ t.step = "pairs" /\ t.op = x.op /\ t.after = x.after /\ t.began = x.began
        /\ t.got = x.got /\ t.todo = x.todo
    BY <1>2, <2>1 DEF IsTx, Fields
  <2> QED
    BY <1>1, <2>2, <2>3, SameTickers DEF Over
<1>12. CASE DeleteAssertion(w)
  <2>1. PICK t : t = [x EXCEPT !.del = Withdrawn(w), !.step = "pairs"]
    OBVIOUS
  <2>2. (Set(w, t) \/ Set(w, Ended(w, "failed"))) /\ Inside /\ x.step = "write"
    BY <1>1, <1>12, <2>1 DEF DeleteAssertion, Inside
  <2>3. /\ IsTx(t) /\ t.step = "pairs" /\ t.op = x.op /\ t.after = x.after /\ t.began = x.began
        /\ t.got = x.got /\ t.todo = x.todo
    BY <1>2, <2>1 DEF IsTx, Fields
  <2> QED
    BY <1>1, <2>2, <2>3, SameTickers, EndsOrders DEF Over
<1>13. CASE ListPairs(w)
  <2>1. PICK d : d = InstrLocks(Touched(w))
    OBVIOUS
  <2>2. PICK t : t = [x EXCEPT !.pairs = Touched(w), !.todo = d, !.step = "instrs"]
    OBVIOUS
  <2>3. Set(w, t) /\ Inside /\ x.step = "pairs"
    BY <1>1, <1>13, <2>1, <2>2 DEF ListPairs, Inside
  <2>4. /\ IsTx(t) /\ t.step = "instrs" /\ t.op = x.op /\ t.after = x.after /\ t.began = x.began
        /\ t.got = x.got /\ t.todo = d
    BY <1>2, <2>2 DEF IsTx, Fields
  <2>5. x.todo = {} /\ \A k : <<"ticker", k>> \notin d
    BY <1>2, <2>1, <2>3 DEF LockOK, Waiting, InstrLocks, Locks
  <2> QED
    BY <1>1, <2>3, <2>4, <2>5, SameTickers DEF Over
<1>14. CASE ReadFacts(w)
  <2>1. PICK t : t = [x EXCEPT !.read = View(w), !.order = order, !.step = "commit"]
    OBVIOUS
  <2>2. Set(w, t) /\ Inside /\ x.step = "read"
    BY <1>1, <1>14, <2>1 DEF ReadFacts, Inside
  <2>3. /\ IsTx(t) /\ t.order = order /\ t.op = x.op /\ t.after = x.after /\ t.began = x.began
        /\ t.got = x.got /\ t.todo = x.todo
    BY <1>2, <2>1 DEF IsTx, Fields
  <2> QED
    BY <1>1, <2>2, <2>3, SameTickers DEF Over
<1>15. CASE CommitFails(w)
  BY <1>15, EndsOrders DEF CommitFails, Inside
<1>16. CASE DeadlockVictim(w)
  <2>1. LockWaits(w) \cup RowWaits(w) # {}
    BY <1>16 DEF DeadlockVictim
  <2>2. Over(x) => x.todo = {}
    BY <1>2 DEF LockOK, Waiting, Over
  <2>3. ~Over(tx[w])
    BY <1>1, <2>1, <2>2 DEF LockWaits, RowWaits, Over
  <2> QED
    BY <1>16, <2>3, EndsOrders DEF DeadlockVictim, Inside
<1> QED
  BY <1>3, <1>4, <1>5, <1>6, <1>7, <1>8, <1>9, <1>10, <1>11, <1>12, <1>13, <1>14, <1>15, <1>16

(* What a commit writes.                                                    *)
LEMMA CommitRows ==
    ASSUME IInv, NEW w \in Procs, Commit(w), NEW x, x = tx[w]
    PROVE  /\ x.step = "commit" /\ facts' = ViewOf(x, facts) /\ live' = live \ Gone(w)
           /\ adrift' = adrift \cup Unlocked(w)
           /\ \A k \in Tickers : validity'[k].order =
                 IF <<"ticker", k>> \in x.got THEN x.order ELSE validity[k].order
           /\ \A i \in live' : names'[i].order = IF i \in x.pairs THEN x.order ELSE names[i].order
<1>1. /\ x.step = "commit" /\ facts' = ViewOf(x, facts) /\ live' = live \ Gone(w)
      /\ adrift' = adrift \cup Unlocked(w)
      /\ validity' = [t \in Tickers |->
              IF t \in LockedTickers(w) THEN Derived(t, x.read, x.order)
              ELSE [validity[t] EXCEPT !.facts = {f \in @ : f.i \notin Gone(w)}]]
      /\ names' = [j \in Instrs |->
              IF j \in Gone(w) THEN [names[j] EXCEPT !.row = NoName]
              ELSE IF j \in x.pairs THEN Named(j, x.read, x.order) ELSE names[j]]
  BY ViewTyped DEF Commit
<1>2. ASSUME NEW k \in Tickers
      PROVE  validity'[k].order = IF <<"ticker", k>> \in x.got THEN x.order ELSE validity[k].order
  <2>1. k \in LockedTickers(w) <=> <<"ticker", k>> \in x.got
    BY LockedIs
  <2>2. validity[k] \in [facts : SUBSET Fact, order : Nat]
    BY DEF IInv, Typed
  <2>3. CASE k \in LockedTickers(w)
    BY <1>1, <2>1, <2>3 DEF Derived
  <2>4. CASE k \notin LockedTickers(w)
    <3>1. PICK V : V = {f \in validity[k].facts : f.i \notin Gone(w)}
      OBVIOUS
    <3>2. validity'[k] = [validity[k] EXCEPT !.facts = V]
      BY <1>1, <2>4, <3>1
    <3>3. validity'[k].order = validity[k].order
      BY <2>2, <3>2
    <3> QED
      BY <2>1, <2>4, <3>3
  <2> QED
    BY <2>3, <2>4
<1>3. ASSUME NEW i \in live' PROVE names'[i].order = IF i \in x.pairs THEN x.order ELSE names[i].order
  <2>1. i \in Instrs /\ i \notin Gone(w)
    BY <1>1 DEF IInv, Typed
  <2> QED
    BY <1>1, <2>1 DEF Named
<1> QED
  BY <1>1, <1>2, <1>3

(* A fact of an instrument that a commit does not set adrift was there, or  *)
(* the commit has locked its ticker and listed the instrument.              *)
LEMMA CommitFact ==
    ASSUME IInv, NInv, NEW w \in Procs, Commit(w), NEW x, x = tx[w], NEW f \in facts', f.i \in live' \ adrift'
    PROVE  /\ f.i \in live \ adrift
           /\ f \in facts \/ (<<"ticker", f.t>> \in x.got /\ f.i \in x.pairs)
<1>1. /\ x.step = "commit" /\ facts' = ViewOf(x, facts) /\ live' = live \ Gone(w)
      /\ adrift' = adrift \cup Unlocked(w)
  BY CommitRows
<1>2. f.i \in live \ adrift /\ f.i \notin Unlocked(w)
  BY <1>1
<1>3. CASE f \notin facts
  <2>1. f \in x.add
    BY <1>1, <1>3 DEF ViewOf
  <2>2. <<"ticker", f.t>> \in x.got
    BY <1>2, <2>1, UnlockedIs
  <2>3. PairsListed(x, facts, live, adrift)
    BY DEF NInv, NameOK
  <2> QED
    BY <1>1, <1>2, <2>2, <2>3 DEF PairsListed, Listed
<1> QED
  BY <1>2, <1>3

(* Nothing grows older by a commit: what it writes of a ticker or an        *)
(* instrument, it read under its lock.                                      *)
LEMMA CommitSince ==
    ASSUME IInv, NInv, NEW w \in Procs, Commit(w), tx'[w].step # "commit", \A v \in Procs \ {w} : tx'[v] = tx[v],
           NEW b \in Nat, NEW k \in Tickers, Since(k, b)
    PROVE  Since(k, b)'
<1>1. PICK x : x = tx[w]
  OBVIOUS
<1>2. /\ x.step = "commit" /\ facts' = ViewOf(x, facts) /\ live' = live \ Gone(w)
      /\ \A i \in live' : names'[i].order = IF i \in x.pairs THEN x.order ELSE names[i].order
      /\ validity'[k].order = IF <<"ticker", k>> \in x.got THEN x.order ELSE validity[k].order
  BY <1>1, CommitRows
<1>3. <<"ticker", k>> \in x.got => x.order >= b
  BY <1>1, <1>2 DEF Since
<1>4. FactsOf(k, facts)' # {} => validity'[k].order >= b
  <2>1. CASE <<"ticker", k>> \in x.got
    BY <1>2, <1>3, <2>1
  <2>2. CASE <<"ticker", k>> \notin x.got /\ FactsOf(k, facts)' # {}
    <3>1. PICK f \in ViewOf(x, facts) : f.t = k
      BY <1>2, <2>2 DEF FactsOf
    <3>2. \E g \in facts : g.t = k
      <4>1. CASE f \in facts
        BY <3>1, <4>1
      <4>2. CASE f \in x.add
        <5>1. PICK g \in x.del : f = [g EXCEPT !.i = x.i]
          BY <1>1, <1>2, <2>2, <3>1, <4>2, LooseRows
        <5>2. g \in facts /\ g.t = f.t
          BY <1>1, <1>2, <5>1, LooseRows
        <5> QED
          BY <3>1, <5>2
      <4> QED
        BY <3>1, <4>1, <4>2 DEF ViewOf
    <3>3. FactsOf(k, facts) # {}
      BY <3>2 DEF FactsOf
    <3> QED
      BY <1>2, <2>2, <3>3 DEF Since
  <2> QED
    BY <2>1, <2>2
<1>5. \A v \in Procs : tx'[v].step = "commit" /\ <<"ticker", k>> \in tx'[v].got => tx'[v].order >= b
  BY DEF Since
<1>6. ASSUME NEW f \in facts', f.t = k, f.i \in live' \ adrift'
      PROVE  /\ names'[f.i].order >= b
             /\ \A v \in Procs : tx'[v].step = "commit" /\ f.i \in tx'[v].pairs => tx'[v].order >= b
  <2>1. /\ f.i \in live \ adrift
        /\ f \in facts \/ (<<"ticker", k>> \in x.got /\ f.i \in x.pairs)
    BY <1>1, <1>6, CommitFact
  <2>2. names'[f.i].order = IF f.i \in x.pairs THEN x.order ELSE names[f.i].order
    BY <1>2, <1>6
  <2>3. CASE f \in facts
    <3>1. /\ names[f.i].order >= b
          /\ \A v \in Procs : tx[v].step = "commit" /\ f.i \in tx[v].pairs => tx[v].order >= b
      BY <1>6, <2>1, <2>3 DEF Since
    <3>2. f.i \in x.pairs => x.order >= b
      BY <1>1, <1>2, <3>1
    <3> QED
      BY <2>2, <3>1, <3>2
  <2>4. CASE <<"ticker", k>> \in x.got /\ f.i \in x.pairs
    <3>1. names'[f.i].order >= b
      BY <1>3, <2>2, <2>4
    <3>2. ASSUME NEW v \in Procs, tx'[v].step = "commit", f.i \in tx'[v].pairs PROVE FALSE
      <4>1. v # w /\ tx'[v] = tx[v]
        BY <3>2
      <4>2. <<"instr", f.i>> \in tx[v].got
        BY <3>2, <4>1, PairsHeld
      <4>3. <<"instr", f.i>> \in x.got
        BY <1>1, <1>2, <2>4, PairsHeld
      <4> QED
        BY <1>1, <4>1, <4>2, <4>3, OwnTx DEF Apart
    <3> QED
      BY <3>1, <3>2
  <2> QED
    BY <2>1, <2>3, <2>4
<1> QED
  BY <1>4, <1>5, <1>6 DEF Since

(* The tickers of a batch are of the rebuild's order when it commits, and   *)
(* so are the names of the instruments they name: whoever was about to      *)
(* write those waits for their locks, and reads anew.                       *)
LEMMA CommitRebuilt ==
    ASSUME IInv, NInv, NEW w \in Procs, Commit(w), tx'[w].step # "commit", \A v \in Procs \ {w} : tx'[v] = tx[v],
           NEW x, x = tx[w], x.op.kind = "rebuild", NEW b \in Nat, x.order >= b,
           NEW k \in Tickers, <<"ticker", k>> \in x.got
    PROVE  Since(k, b)'
<1>1. /\ x.step = "commit" /\ facts' = ViewOf(x, facts) /\ live' = live \ Gone(w)
      /\ adrift' = adrift \cup Unlocked(w)
      /\ \A i \in live' : names'[i].order = IF i \in x.pairs THEN x.order ELSE names[i].order
      /\ validity'[k].order = IF <<"ticker", k>> \in x.got THEN x.order ELSE validity[k].order
  BY CommitRows
<1>2. ASSUME NEW v \in Procs, tx'[v].step = "commit" PROVE v # w /\ tx'[v] = tx[v] /\ tx[v].got \cap x.got = {}
  BY <1>2, OwnTx DEF Apart
<1>3. \A v \in Procs : tx'[v].step = "commit" /\ <<"ticker", k>> \in tx'[v].got => tx'[v].order >= b
  BY <1>2
<1>4. ASSUME NEW f \in facts', f.t = k, f.i \in live' \ adrift'
      PROVE  /\ names'[f.i].order >= b
             /\ \A v \in Procs : tx'[v].step = "commit" /\ f.i \in tx'[v].pairs => tx'[v].order >= b
  <2>1. f.i \in live \ adrift /\ f \in ViewOf(x, facts)
    BY <1>1, <1>4
  <2>2. f.i \in x.pairs
    <3>1. PairsListed(x, facts, live, adrift)
      BY DEF NInv, NameOK
    <3> QED
      BY <1>1, <1>4, <2>1, <3>1 DEF PairsListed, Listed
  <2>3. <<"instr", f.i>> \in x.got
    BY <1>1, <2>2, PairsHeld
  <2>4. ASSUME NEW v \in Procs, tx'[v].step = "commit", f.i \in tx'[v].pairs PROVE FALSE
    <3>1. tx'[v] = tx[v] /\ tx[v].got \cap x.got = {}
      BY <1>2, <2>4
    <3>2. <<"instr", f.i>> \in tx[v].got
      BY <2>4, <3>1, PairsHeld
    <3> QED
      BY <2>3, <3>1, <3>2
  <2> QED
    BY <1>1, <1>4, <2>2, <2>4
<1> QED
  BY <1>1, <1>3, <1>4 DEF Since

(* The tickers a commit writes facts of have their rows.                    *)
LEMMA CommitExist ==
    ASSUME IInv, RowsExist, NEW w \in Procs, tx[w].step = "commit", NEW f \in ViewOf(tx[w], facts)
    PROVE  f.t \in created
<1>1. PICK x : x = tx[w]
  OBVIOUS
<1>2. CASE f \in facts
  BY <1>2 DEF RowsExist
<1>3. CASE f \in x.add /\ <<"ticker", f.t>> \in x.got
  <2>1. f.t \in Tickers
    BY <1>1, <1>3, OwnTx DEF TxSet, Fact
  <2> QED
    BY <1>1, <1>3, <2>1 DEF RowsExist
<1>4. CASE f \in x.add /\ <<"ticker", f.t>> \notin x.got
  <2>1. PICK g \in x.del : f = [g EXCEPT !.i = x.i]
    BY <1>1, <1>4, LooseRows
  <2>2. g \in facts /\ g.t = f.t
    BY <1>1, <2>1, LooseRows
  <2> QED
    BY <2>2 DEF RowsExist
<1> QED
  BY <1>1, <1>2, <1>3, <1>4 DEF ViewOf

(* A commit of a batch leaves every ticker up to its last one at the        *)
(* rebuild's order, and the last commit all of them.                        *)
LEMMA CommitBatch ==
    ASSUME IInv, NInv, OInv, Commit(Rebuilder), tx'[Rebuilder].step # "commit",
           \A v \in Procs \ {Rebuilder} : tx'[v] = tx[v],
           NEW x, x = tx[Rebuilder], NEW b \in Nat, b = x.began, NEW k \in Tickers,
           \/ LastBatch(Cardinality(LockedTickers(Rebuilder)))
           \/ LockedTickers(Rebuilder) # {} /\ k <= Max(LockedTickers(Rebuilder))
    PROVE  Since(k, b)' /\ b <= order
<1> USE FactWritesAssumption
<1>1. Rebuilder \in Procs /\ x.step = "commit" /\ ~Over(x)
  BY DEF Procs, Commit, Over
<1>2. RebuildOn(x) /\ x.order >= b /\ x.todo = {}
  <2>1. LockOK(x)
    BY <1>1, OwnTx DEF TxOK
  <2>2. x.todo = {}
    BY <1>1, <2>1 DEF LockOK, Waiting
  <2> QED
    BY <1>1, <2>2 DEF OInv
<1>3. PICK T : T = LockedTickers(Rebuilder)
  OBVIOUS
<1>4. T \subseteq Tickers /\ \A m \in Tickers : m \in T <=> <<"ticker", m>> \in x.got
  BY <1>1, <1>3, LockedIs
<1>5. BatchOf(x) = T
  BY <1>2, <1>4 DEF BatchOf
<1>6. CASE k \in T
  BY <1>1, <1>2, <1>4, <1>6, CommitRebuilt DEF RebuildOn
<1>7. CASE k \notin T
  <2>1. Behind(k, x)
    <3>1. CASE LastBatch(Cardinality(T))
      BY <1>5, <3>1 DEF Behind, LastBatch
    <3>2. CASE T # {} /\ k <= Max(T)
      <4>1. IsFiniteSet(T) /\ T \in SUBSET Nat
        BY <1>4, FS_Subset
      <4>2. Max(T) \in T
        BY <3>2, <4>1, MaxIsIn
      <4>3. PICK m \in T : m = Max(T)
        BY <4>2
      <4>4. k < m
        BY <1>7, <3>2, <4>1, <4>3
      <4> QED
        BY <1>5, <4>4 DEF Behind
    <3> QED
      BY <1>3, <3>1, <3>2
  <2>2. Since(k, b)
    BY <1>2, <1>5, <1>7, <2>1 DEF RebuildOn
  <2> QED
    BY <1>1, <1>2, <2>2, CommitSince DEF RebuildOn
<1> QED
  BY <1>6, <1>7

(* A commit keeps what is stored at the orders it had.                      *)
LEMMA CommitOrders == ASSUME IInv, NInv, OInv, NEW w \in Procs, Commit(w) PROVE OInv'
<1> USE FactWritesAssumption
<1>1. PICK t : t = IF w # Rebuilder THEN Ended(w, "done")
                   ELSE IF LastBatch(Cardinality(LockedTickers(w))) THEN Idle
                   ELSE RebuildFrom(Max(LockedTickers(w)), tx[w].began)
  OBVIOUS
<1>2. TxOK(t) /\ Fresh(t) /\ IsTx(t)
  BY <1>1, CommitEnds, TxHasFields DEF TxOK
<1>3. PICK p : p = Proceed(t)
  OBVIOUS
<1>4. tx'[w] = p /\ \A v \in Procs \ {w} : tx'[v] = tx[v]
  BY <1>1, <1>3 DEF Commit, Set, IInv, Typed
<1>5. /\ p.got = t.got /\ p.op = t.op /\ p.after = t.after /\ p.began = t.began
      /\ p.step = "commit" <=> t.step = "commit"
      /\ Over(p) <=> Over(t)
      /\ \/ p.todo = t.todo
         \/ p.todo = {<<"ticker", t.op.t>>} /\ t.op.kind = "record" /\ t.todo = {}
  BY <1>2, <1>3, ProceedOrders
<1>6. p.step # "commit" /\ tx[w].step = "commit"
  BY <1>2, <1>5 DEF Fresh, Folded, Writing, Commit
<1>7. /\ order \in Nat /\ order' = order /\ created' = created /\ created \subseteq Tickers /\ RowsExist
      /\ facts' = ViewOf(tx[w], facts) /\ Rebuilder \in Procs
  BY ViewTyped DEF Commit, IInv, Typed, OInv, Procs
<1>8. ASSUME NEW b \in Nat, NEW k \in Tickers, Since(k, b) PROVE Since(k, b)'
  BY <1>4, <1>6, <1>8, CommitSince
<1>9. CASE w # Rebuilder
  <2>1. Lockable(t, created)
    BY <1>1, <1>7, <1>9, EndedLocks
  <2>2. Lockable(p, created)
    <3>1. ASSUME NEW k, <<"ticker", k>> = <<"ticker", t.op.t>> PROVE k = t.op.t
      BY <3>1
    <3> QED
      BY <1>5, <2>1, <3>1 DEF Lockable, OfWriters
  <2>3. RowsExist'
    <3>1. \A f \in facts' : f.t \in created'
      BY <1>6, <1>7, CommitExist
    <3>2. ASSUME NEW v \in Procs PROVE Lockable(tx'[v], created')
      BY <1>4, <1>7, <2>2 DEF RowsExist, Lockable
    <3> QED
      BY <3>1, <3>2 DEF RowsExist, Lockable
  <2>4. PICK c \in Nat : c = caughtUp
    BY DEF OInv
  <2>5. caughtUp' = c
    BY <1>9, <2>4 DEF Commit
  <2>6. \A k \in Tickers : Since(k, c)'
    BY <1>8, <2>4 DEF OInv
  <2>7. PICK r : r = tx[Rebuilder]
    OBVIOUS
  <2>8. tx'[Rebuilder] = r /\ r.began \in Nat
    BY <1>4, <1>7, <1>9, <2>7, OwnTx DEF TxSet
  <2>9. ~Over(r) => RebuildOn(r)'
    <3>1. SUFFICES ASSUME ~Over(r) PROVE RebuildOn(r)'
      OBVIOUS
    <3>2. PICK b \in Nat : b = r.began
      BY <2>8
    <3>3. RebuildOn(r)
      BY <2>7, <3>1 DEF OInv
    <3>4. \A k \in Tickers \ BatchOf(r) : Behind(k, r) => Since(k, b)'
      BY <1>8, <3>2, <3>3 DEF RebuildOn
    <3> QED
      BY <1>7, <3>2, <3>3, <3>4 DEF RebuildOn
  <2> QED
    BY <1>7, <2>3, <2>4, <2>5, <2>6, <2>7, <2>8, <2>9 DEF OInv
<1>10. CASE w = Rebuilder
  <2>1. PICK x : x = tx[w]
    OBVIOUS
  <2>2. PICK b \in Nat : b = x.began
    BY <2>1, OwnTx DEF TxSet
  <2>3. PICK T : T = LockedTickers(w)
    OBVIOUS
  <2>4. ASSUME NEW k \in Tickers, LastBatch(Cardinality(T)) \/ (T # {} /\ k <= Max(T))
        PROVE  Since(k, b)' /\ b <= order
    BY <1>4, <1>6, <1>10, <2>1, <2>2, <2>3, <2>4, CommitBatch
  <2>5. b <= order
    <3>1. RebuildOn(x)
      BY <1>6, <1>10, <2>1 DEF OInv, Over
    <3> QED
      BY <2>2, <3>1 DEF RebuildOn
  <2>6. ASSUME Lockable(p, created) PROVE RowsExist'
    <3>1. \A f \in facts' : f.t \in created'
      BY <1>6, <1>7, CommitExist
    <3>2. ASSUME NEW v \in Procs PROVE Lockable(tx'[v], created')
      BY <1>4, <1>7, <2>6 DEF RowsExist, Lockable
    <3> QED
      BY <3>1, <3>2 DEF RowsExist, Lockable
  <2>7. CASE LastBatch(Cardinality(T))
    <3>1. t = Idle /\ caughtUp' = b
      BY <1>1, <1>10, <2>1, <2>2, <2>3, <2>7 DEF Commit
    <3>2. Over(p) /\ Lockable(p, created)
      BY <1>5, <3>1 DEF Idle, NoOp, Over, Lockable, OfWriters
    <3>3. RowsExist'
      BY <2>6, <3>2
    <3>4. \A k \in Tickers : Since(k, b)'
      BY <2>4, <2>7
    <3> QED
      BY <1>4, <1>6, <1>7, <1>10, <2>5, <3>1, <3>2, <3>3, <3>4 DEF OInv
  <2>8. CASE ~LastBatch(Cardinality(T))
    <3>1. T # {} /\ IsFiniteSet(T) /\ T \in SUBSET Nat
      <4>1. T \subseteq Tickers
        BY <2>3, LockedIs
      <4>2. Cardinality({}) = 0
        BY FS_EmptySet
      <4>3. T # {}
        <5> SUFFICES ASSUME T = {} PROVE FALSE
          OBVIOUS
        <5>1. Cardinality(T) = 0
          BY <4>2, Zenon
        <5>2. LastBatch(0)
          BY DEF LastBatch
        <5> QED
          BY <2>8, <5>1, <5>2, Zenon
      <4>4. IsFiniteSet(T) /\ T \in SUBSET Nat
        BY <4>1, FS_Subset
      <4> QED
        BY <4>3, <4>4
    <3>2. PICK after \in Nat : after = Max(T)
      BY <3>1, MaxIsIn
    <3>3. t = RebuildFrom(after, b)
      BY <1>1, <1>10, <2>1, <2>2, <2>3, <2>8, <3>2
    <3>4. /\ IsTx(t) /\ t.op.kind = "rebuild" /\ t.began = b /\ t.after = after /\ t.step = "tickers"
          /\ Lockable(t, created)
          /\ \A m \in BatchOf(t) : m > after
          /\ \A k \in Tickers \ BatchOf(t) : Behind(k, t) => k <= after \/ k \notin created
      BY SMTT(30), <1>7, <3>3, BatchLists
    <3>5. p.todo = t.todo /\ BatchOf(p) = BatchOf(t)
      BY <1>5, <3>4 DEF BatchOf
    <3>6. \A k : Behind(k, p) <=> Behind(k, t)
      BY <1>5, <3>5 DEF Behind
    <3>7. RowsExist'
      <4>1. Lockable(p, created)
        BY <1>5, <3>4, <3>5 DEF Lockable
      <4> QED
        BY <2>6, <4>1
    <3>8. ASSUME NEW k \in Tickers \ BatchOf(p), Behind(k, p) PROVE Since(k, b)'
      <4>1. CASE k <= after
        BY <2>4, <3>1, <3>2, <4>1
      <4>2. CASE k \notin created
        BY <1>7, <3>7, <4>2 DEF RowsExist, Since, FactsOf
      <4> QED
        BY <3>4, <3>5, <3>6, <3>8, <4>1, <4>2
    <3>9. RebuildOn(p)'
      BY <1>5, <1>7, <2>5, <3>4, <3>5, <3>8 DEF RebuildOn
    <3>10. PICK c \in Nat : c = caughtUp
      BY DEF OInv
    <3>11. caughtUp' = c
      BY <1>10, <2>3, <2>8, <3>10 DEF Commit
    <3>12. \A k \in Tickers : Since(k, c)'
      BY <1>8, <3>10 DEF OInv
    <3> QED
      BY <1>4, <1>6, <1>7, <1>10, <3>7, <3>9, <3>10, <3>11, <3>12 DEF OInv
  <2> QED
    BY <2>7, <2>8
<1> QED
  BY <1>9, <1>10

(* At the start every row was derived under the order in force.             *)
LEMMA InitOrders == ASSUME Init PROVE OInv
<1> USE FactWritesAssumption
<1>1. PICK F \in SUBSET FactsAtStart :
          /\ facts = F /\ created = {f.t : f \in F}
          /\ validity = [t \in Tickers |-> Derived(t, F, 0)] /\ names = [i \in Instrs |-> Named(i, F, 0)]
  BY DEF Init
<1>2. tx = [w \in Procs |-> Idle] /\ live = Instrs /\ order = 0 /\ caughtUp = 0 /\ Rebuilder \in Procs
  BY DEF Init, Procs
<1>3. Idle.step = "idle" /\ Idle.got = {} /\ Idle.todo = {} /\ Idle.op.kind = "none"
  BY DEF Idle, NoOp
<1>4. RowsExist
  BY <1>1, <1>2, <1>3 DEF RowsExist, OfWriters
<1>5. ASSUME NEW k \in Tickers PROVE Since(k, 0)
  <2>1. validity[k].order = 0
    BY <1>1 DEF Derived
  <2>2. \A i \in Instrs : names[i].order = 0
    BY <1>1 DEF Named
  <2>3. \A w \in Procs : tx[w].step = "idle"
    BY <1>2, <1>3
  <2>4. \A w \in Procs : ~(tx[w].step = "commit")
    BY <2>3
  <2>5. \A f \in facts : f.i \in live \ adrift => names[f.i].order >= 0
    <3> SUFFICES ASSUME NEW f \in facts, f.i \in live \ adrift PROVE names[f.i].order >= 0
      OBVIOUS
    <3>1. f.i \in Instrs
      BY <1>2
    <3>2. names[f.i].order = 0
      BY <2>2, <3>1, Zenon
    <3> QED
      BY <3>2
  <2>6. validity[k].order >= 0
    BY <2>1
  <2> QED
    BY <2>4, <2>5, <2>6 DEF Since
<1> QED
  BY <1>2, <1>3, <1>4, <1>5 DEF OInv, Over

(* Every step of every process keeps it.                                    *)
LEMMA NextOrders == ASSUME IInv, NInv, OInv, [Next]_vars PROVE OInv'
<1>1. CASE UNCHANGED vars
  BY <1>1 DEF vars, history, OInv, RowsExist, Since, RebuildOn, FactsOf
<1>2. ASSUME NEW w \in Procs, Step(w) PROVE OInv'
  BY <1>2, StatementOrders, CommitOrders DEF Step
<1>3. ASSUME NEW w \in Writers,
             \/ \E s \in Stated, t \in Tickers : StartRecord(w, s, t)
             \/ \E s \in Stated, t \in Tickers : StartResolve(w, s, t)
             \/ \E t \in Tickers, i \in Instrs \cup {None} : StartAttest(w, t, i)
             \/ \E f \in facts : StartWithdraw(w, f)
      PROVE  OInv'
  BY <1>3, StartsOrders
<1>4. CASE Reorder
  BY <1>4, ReorderOrders
<1>5. CASE StartRebuild
  BY <1>5, StartRebuildOrders
<1>6. CASE Quiet
  BY <1>1, <1>6 DEF Quiet
<1> QED
  BY <1>1, <1>2, <1>3, <1>4, <1>5, <1>6 DEF Next

(* If all that is stored of every ticker is of an order, so is all that is  *)
(* stored.                                                                  *)
LEMMA SinceCatchesUp == ASSUME IInv, OInv PROVE OrderCatchesUp
<1>1. \A t \in Tickers : FactsOf(t, facts) # {} => validity[t].order >= caughtUp
  BY DEF OInv, Since
<1>2. ASSUME NEW i \in live \ adrift, TickersOf(facts, {i}) # {} PROVE names[i].order >= caughtUp
  <2>1. PICK f \in facts : f.i = i
    BY <1>2 DEF TickersOf
  <2>2. f.t \in Tickers
    BY DEF IInv, Typed, Fact
  <2>3. PICK k \in Tickers : k = f.t
    BY <2>2
  <2>4. Since(k, caughtUp)
    BY DEF OInv
  <2> QED
    BY <2>1, <2>3, <2>4 DEF Since
<1> QED
  BY <1>1, <1>2 DEF OrderCatchesUp

(* Once a rebuild has finished, nothing stored is older than the order it   *)
(* began under, whatever writers that read an earlier order were running    *)
(* and whatever tickers were created meanwhile, but for the names of an     *)
(* instrument whose facts were changed unlocked (Service.rebuild,           *)
(* LockBatch).                                                              *)
THEOREM RebuildsCatchUp == Spec => []OrderCatchesUp
<1>1. Init => NInv /\ OInv
  BY InitNames, InitOrders
<1>2. IInv /\ NInv /\ OInv /\ [Next]_vars => (NInv /\ OInv)'
  BY NextNames, NextOrders
<1>3. IInv /\ OInv => OrderCatchesUp
  BY SinceCatchesUp
<1> QED
  BY <1>1, <1>2, <1>3, FactWritesInductive, PTL DEF Spec
=============================================================================
