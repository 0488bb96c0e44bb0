---------------------------- MODULE IngestProofs -----------------------------
(***************************************************************************)
(* Proofs about Ingest, for any users, brokers, keys and uploads: the      *)
(* transactions of a day at a broker are those of the last statement       *)
(* uploaded for it, of those written; every key with a transaction has an  *)
(* instrument or a group; groups follow the identifiers keys share; and    *)
(* the facts that resolutions write reach the keys that state them.        *)
(*                                                                         *)
(* LastUploadWins is not inductive: a statement that commits replaces its  *)
(* period, which is right only while no later statement of its lane has    *)
(* written.  The invariant adds that: while a statement has not ended,     *)
(* every later one of its lane is queued (LanesWait), and a statement is   *)
(* recorded as completed by the write of its transactions and stays so     *)
(* (WorkOK), whatever its follow-ups come to.                              *)
(*                                                                         *)
(* For holdings and groups it adds the books (Books: rows, ids, and what   *)
(* every run holds) and what the key lock gives (Held: the keys listed     *)
(* under the lock cover what will be written until the commit).  For the   *)
(* follow-ups it adds that a key which facts date and which is not         *)
(* associated is still ahead of some run, in the tickers it told, in a     *)
(* listing or in what it is to write (Reach).                              *)
(***************************************************************************)
EXTENDS Ingest, SequenceTheorems, FiniteSetTheorems, WellFoundedInduction, TLAPS

IsSeq(s) == \E S : s \in Seq(S)

IsRun(z) == z = [kind |-> z.kind, up |-> z.up, state |-> z.state, settled |-> z.settled]
IsWork(x) == x = [step |-> x.step, user |-> x.user, keys |-> x.keys, todo |-> x.todo, known |-> x.known,
                  told |-> x.told, frames |-> x.frames, groupable |-> x.groupable]

\* What the goroutine of one run does, x, agrees with the run's row, z.
WorkOK(x, z) ==
    /\ IsWork(x) /\ IsRun(z) /\ IsSeq(x.frames)
    /\ z.kind = "stmt" => z.up \in Uploads
    /\ x.step = "queued" => x.frames = <<>> /\ z.state = "pending"
    /\ x.step \in {"write", "lock", "locked"} /\ x.frames = <<>> => z.state # "completed"
    /\ x.step = "confirm" => z.kind # "stmt"

Shaped == /\ IsSeq(runs) /\ IsSeq(work) /\ DOMAIN work = DOMAIN runs
          /\ \A p \in Runs : WorkOK(work[p], runs[p])

SameLane(p, q) == Up(q).user = Up(p).user /\ Up(q).broker = Up(p).broker

\* While a statement has not ended, the later ones of its lane wait.
LanesWait == \A p, q \in Stmts : q < p /\ SameLane(p, q) /\ work[q].step # "gone" => work[p].step = "queued"

\* The inductive invariant.
IInv == Shaped /\ LanesWait /\ LastUploadWins

-----------------------------------------------------------------------------
(* Sequences *)

(* The numbers of runs are naturals. *)
LEMMA SeqDomain == ASSUME NEW s, IsSeq(s) PROVE DOMAIN s = 1..Len(s) /\ Len(s) \in Nat
BY LenProperties DEF IsSeq

(* Replacing one element of a sequence. *)
LEMMA SeqReplace ==
    ASSUME NEW s, IsSeq(s), NEW p \in DOMAIN s, NEW e
    PROVE  /\ IsSeq([s EXCEPT ![p] = e]) /\ DOMAIN [s EXCEPT ![p] = e] = DOMAIN s
           /\ [s EXCEPT ![p] = e][p] = e
           /\ \A q \in DOMAIN s : q # p => [s EXCEPT ![p] = e][q] = s[q]
<1>1. PICK S : s \in Seq(S)
  BY DEF IsSeq
<1>2. PICK T : T = S \cup {e}
  OBVIOUS
<1>3. s \in Seq(T) /\ e \in T
  BY <1>1, <1>2, SeqMonotonic
<1>4. p \in 1..Len(s)
  BY <1>1, LenProperties
<1>5. [s EXCEPT ![p] = e] \in Seq(T)
  BY <1>3, <1>4, ExceptSeq
<1> QED
  BY <1>5 DEF IsSeq

(* A new run takes the next number, and the others keep theirs. *)
LEMMA SeqAppend ==
    ASSUME NEW s, IsSeq(s), NEW e
    PROVE  /\ IsSeq(Append(s, e)) /\ DOMAIN Append(s, e) = 1..(Len(s) + 1)
           /\ Append(s, e)[Len(s) + 1] = e
           /\ \A q \in DOMAIN s : Append(s, e)[q] = s[q]
<1>1. PICK S : s \in Seq(S)
  BY DEF IsSeq
<1>2. PICK T : T = S \cup {e}
  OBVIOUS
<1>3. s \in Seq(T) /\ e \in T
  BY <1>1, <1>2, SeqMonotonic
<1>4. /\ Append(s, e) \in Seq(T)
      /\ Len(Append(s, e)) = Len(s) + 1
      /\ \A i \in 1..Len(s) : Append(s, e)[i] = s[i]
      /\ Append(s, e)[Len(s) + 1] = e
  BY <1>3, AppendProperties
<1>5. DOMAIN Append(s, e) = 1..(Len(s) + 1) /\ DOMAIN s = 1..Len(s)
  BY <1>1, <1>4, LenProperties
<1> QED
  BY <1>4, <1>5 DEF IsSeq

(* A function on the numbers of runs is a sequence. *)
LEMMA SeqOver ==
    ASSUME NEW s, IsSeq(s), NEW f, NEW S, f \in [DOMAIN s -> S]
    PROVE  IsSeq(f)
<1>1. DOMAIN s = 1..Len(s) /\ Len(s) \in Nat
  BY SeqDomain
<1>2. f \in Seq(S)
  BY <1>1, SeqDef
<1> QED
  BY <1>2 DEF IsSeq

-----------------------------------------------------------------------------
(* The last upload *)

(* The numbers of runs that are statements are naturals. *)
LEMMA StmtsAre == ASSUME Shaped PROVE Stmts \subseteq Runs /\ Runs \subseteq Nat
BY SeqDomain DEF Shaped, Stmts, Runs

(* A set of numbers has a least one.                                        *)
LEMMA LeastOf == ASSUME NEW T \in SUBSET Nat, T # {}
                 PROVE  \E m \in T : \A k \in T : m <= k
<1>1. PICK m \in T : \A y \in T : ~(<<y, m>> \in OpToRel(<, Nat))
  BY NatLessThanWellFounded, WFMin
<1>2. ASSUME NEW y \in T PROVE m <= y
  <2>1. y \in Nat /\ m \in Nat
    OBVIOUS
  <2>2. ASSUME y < m PROVE <<y, m>> \in OpToRel(<, Nat)
    BY <2>1, <2>2 DEF OpToRel
  <2>3. ~(y < m)
    BY <1>1, <2>2, Zenon
  <2> QED
    BY <2>1, <2>3
<1> QED
  BY <1>2

(* Some of the runs have a latest one. *)
LEMMA LatestOf ==
    ASSUME NEW n \in Nat, NEW S \in SUBSET (1..n), S # {}
    PROVE  Max(S) \in S
<1>1. PICK T : T = {n - x : x \in S}
  OBVIOUS
<1>2. T \in SUBSET Nat /\ T # {}
  <2>1. ASSUME NEW k \in T PROVE k \in Nat
    <3>1. PICK x \in S : k = n - x
      BY <1>1
    <3>2. x \in 1..n
      OBVIOUS
    <3> QED
      BY <3>1, <3>2
  <2> QED
    BY <1>1, <2>1
<1>3. PICK m \in T : \A k \in T : m <= k
  BY <1>2, LeastOf
<1>4. PICK x \in S : m = n - x
  BY <1>1, <1>3
<1>5. ASSUME NEW y \in S PROVE x >= y
  <2>1. n - y \in T
    BY <1>1
  <2>2. n - x <= n - y
    BY <1>3, <1>4, <2>1
  <2>3. x \in Nat /\ y \in Nat
    OBVIOUS
  <2> QED
    BY <2>2, <2>3
<1> QED
  BY <1>4, <1>5 DEF Max

\* The transactions of day d of user u at broker b.
On(u, b, d) == {x \in txns : x.user = u /\ x.broker = b /\ x.day = d}

\* They are those of the last statement written that covers the day.
Wins(u, b, d) == On(u, b, d) = IF Covering(u, b, d) = {} THEN {}
                               ELSE {x \in Accepted(Max(Covering(u, b, d))) : x.day = d}

Lanes == {<<Upload[u].user, Upload[u].broker>> : u \in Uploads}

(* LastUploadWins says so of every day. *)
LEMMA WinsEverywhere == LastUploadWins <=> \A a \in Lanes : \A d \in 1..Today : Wins(a[1], a[2], d)
BY DEF LastUploadWins, Wins, On, Lanes

(* A step that writes no transaction and completes no statement, nor takes  *)
(* back one that completed, leaves the last upload in place.                *)
LEMMA WinsKept ==
    ASSUME Shaped, LastUploadWins, txns' = txns,
           \A p \in Stmts : p \in Stmts' /\ runs'[p].up = runs[p].up,
           \A p \in Stmts' : runs'[p].state = "completed" <=> (p \in Stmts /\ runs[p].state = "completed")
    PROVE  LastUploadWins'
<1>1. ASSUME NEW u, NEW b, NEW d PROVE Covering(u, b, d)' = Covering(u, b, d)
  BY DEF Covering, Up
<1>2. ASSUME NEW p \in Stmts PROVE Accepted(p)' = Accepted(p)
  BY DEF Accepted, Up
<1>3. ASSUME NEW u, NEW b, NEW d, Wins(u, b, d) PROVE Wins(u, b, d)'
  <2>1. PICK by : by = Covering(u, b, d)
    OBVIOUS
  <2>2. On(u, b, d)' = On(u, b, d)
    BY DEF On
  <2>3. CASE by = {}
    BY <1>1, <1>3, <2>1, <2>2, <2>3 DEF Wins
  <2>4. CASE by # {}
    <3>1. PICK m : m = Max(by)
      OBVIOUS
    <3>2. m \in by
      <4>1. PICK n : n = Len(runs)
        OBVIOUS
      <4>2. DOMAIN runs = 1..n /\ n \in Nat
        BY <4>1, SeqDomain DEF Shaped
      <4>3. by \in SUBSET (1..n)
        BY <2>1, <4>2 DEF Covering, Stmts, Runs
      <4> QED
        BY <2>4, <3>1, <4>2, <4>3, LatestOf
    <3>3. m \in Stmts
      BY <2>1, <3>2 DEF Covering
    <3>4. On(u, b, d) = {x \in Accepted(m) : x.day = d}
      BY <1>3, <2>1, <2>4, <3>1 DEF Wins
    <3>5. Accepted(m)' = Accepted(m)
      BY <1>2, <3>3
    <3>6. On(u, b, d)' = {x \in Accepted(m)' : x.day = d}
      BY <2>2, <3>4, <3>5
    <3>7. Covering(u, b, d)' = by
      BY <1>1, <2>1
    <3> QED
      BY <2>4, <3>1, <3>6, <3>7 DEF Wins
  <2> QED
    BY <2>3, <2>4
<1>4. \A a \in Lanes : \A d \in 1..Today : Wins(a[1], a[2], d)
  BY WinsEverywhere
<1>5. \A a \in Lanes : \A d \in 1..Today : Wins(a[1], a[2], d)'
  BY <1>3, <1>4
<1>6. (\A a \in Lanes : \A d \in 1..Today : Wins(a[1], a[2], d))'
  BY <1>5 DEF Lanes
<1>7. (LastUploadWins <=> \A a \in Lanes : \A d \in 1..Today : Wins(a[1], a[2], d))'
  BY WinsEverywhere, PTL
<1> QED
  BY <1>6, <1>7

(* The write of a statement replaces its period: no later statement of its  *)
(* lane has written, so it is the last for each of its days (write.go,      *)
(* write).                                                                  *)
LEMMA WinsWritten ==
    ASSUME Shaped, LanesWait, LastUploadWins, NEW p \in Stmts, work[p].step = "locked",
           txns' = (txns \ DeleteTxns(p)) \cup Accepted(p),
           \A q \in Stmts : q \in Stmts' /\ runs'[q].up = runs[q].up,
           \A q \in Stmts' : q \in Stmts /\ (runs'[q].state = "completed" <=> (q = p \/ runs[q].state = "completed"))
    PROVE  LastUploadWins'
<1>1. p \in Runs /\ p \in Nat /\ runs[p].up \in Uploads
  BY StmtsAre DEF Shaped, WorkOK, Stmts
<1>2. PICK up : up = Upload[runs[p].up]
  OBVIOUS
<1>3. PICK acc : acc = Accepted(p)
  OBVIOUS
<1>4. ASSUME NEW x \in acc
      PROVE  x.user = up.user /\ x.broker = up.broker /\ up.from <= x.day /\ x.day < up.before
  <2>1. PICK r \in AcceptedRows[runs[p].up] :
           x = [stmt |-> p, user |-> up.user, broker |-> up.broker, day |-> r.day, key |-> r.key]
    BY <1>2, <1>3, <1>4 DEF Accepted, Up
  <2>2. validate(up, r)
    BY <1>1, <1>2, <2>1 DEF AcceptedRows
  <2>3. up.from <= r.day /\ r.day < up.before
    BY <2>2 DEF validate
  <2> QED
    BY <2>1, <2>3
<1>5. DeleteTxns(p) = {x \in txns : x.user = up.user /\ x.broker = up.broker /\ up.from <= x.day /\ x.day < up.before}
  BY <1>2 DEF DeleteTxns, Up
<1>6. ASSUME NEW q \in Stmts PROVE Accepted(q)' = Accepted(q) /\ Up(q)' = Up(q)
  BY DEF Accepted, Up
<1>7. ASSUME NEW q \in Stmts, runs[q].state = "completed", SameLane(q, p) PROVE q <= p
  <2>1. q \in Runs /\ q \in Nat
    BY StmtsAre
  <2>2. work[q].step # "queued"
    BY <1>7, <2>1 DEF Shaped, WorkOK
  <2>3. ~(p < q)
    BY <1>7, <2>2 DEF LanesWait
  <2> QED
    BY <1>1, <2>1, <2>3
<1>8. ASSUME NEW u, NEW b, NEW d, Wins(u, b, d) PROVE Wins(u, b, d)'
  <2>1. PICK by : by = Covering(u, b, d)
    OBVIOUS
  \* a day the statement covers
  <2>2. CASE up.user = u /\ up.broker = b /\ up.from <= d /\ d < up.before
    <3>1. p \in Covering(u, b, d)'
      BY <1>2, <2>2 DEF Covering, Up
    <3>2. ASSUME NEW q \in Covering(u, b, d)' PROVE q <= p
      <4>1. q \in Stmts /\ (q = p \/ runs[q].state = "completed") /\ Up(q).user = u /\ Up(q).broker = b
        BY <1>6, <3>2 DEF Covering
      <4>2. SameLane(q, p)
        BY <1>2, <2>2, <4>1 DEF SameLane, Up
      <4> QED
        BY <1>1, <1>7, <4>1, <4>2
    <3>3. PICK C : C = Covering(u, b, d)'
      OBVIOUS
    <3>4. C \subseteq Nat
      BY <3>3, StmtsAre DEF Covering
    <3>5. Max(C) = p
      BY <1>1, <3>1, <3>2, <3>3, <3>4 DEF Max
    <3>6. On(u, b, d)' = {x \in acc : x.day = d}
      BY <1>3, <1>4, <1>5, <2>2 DEF On
    <3>7. Accepted(p)' = acc
      BY <1>3, <1>6
    <3> QED
      BY <3>1, <3>3, <3>5, <3>6, <3>7 DEF Wins
  \* any other
  <2>3. CASE ~(up.user = u /\ up.broker = b /\ up.from <= d /\ d < up.before)
    <3>1. On(u, b, d)' = On(u, b, d)
      BY <1>3, <1>4, <1>5, <2>3 DEF On
    <3>2. Covering(u, b, d)' = by
      BY <1>2, <1>6, <2>1, <2>3 DEF Covering, Up
    <3>3. CASE by = {}
      BY <1>8, <2>1, <3>1, <3>2, <3>3 DEF Wins
    <3>4. CASE by # {}
      <4>1. PICK m : m = Max(by)
        OBVIOUS
      <4>2. m \in by
        <5>1. PICK n : n = Len(runs)
          OBVIOUS
        <5>2. DOMAIN runs = 1..n /\ n \in Nat
          BY <5>1, SeqDomain DEF Shaped
        <5>3. by \in SUBSET (1..n)
          BY <2>1, <5>2 DEF Covering, Stmts, Runs
        <5> QED
          BY <3>4, <4>1, <5>2, <5>3, LatestOf
      <4>3. m \in Stmts
        BY <2>1, <4>2 DEF Covering
      <4>4. On(u, b, d) = {x \in Accepted(m) : x.day = d}
        BY <1>8, <2>1, <3>4, <4>1 DEF Wins
      <4>5. On(u, b, d)' = {x \in Accepted(m)' : x.day = d}
        BY <1>6, <3>1, <4>3, <4>4
      <4> QED
        BY <3>2, <3>4, <4>1, <4>5 DEF Wins
    <3> QED
      BY <3>3, <3>4
  <2> QED
    BY <2>2, <2>3
<1>9. \A a \in Lanes : \A d \in 1..Today : Wins(a[1], a[2], d)
  BY WinsEverywhere
<1>10. \A a \in Lanes : \A d \in 1..Today : Wins(a[1], a[2], d)'
  BY <1>8, <1>9
<1>11. (\A a \in Lanes : \A d \in 1..Today : Wins(a[1], a[2], d))'
  BY <1>10 DEF Lanes
<1>12. (LastUploadWins <=> \A a \in Lanes : \A d \in 1..Today : Wins(a[1], a[2], d))'
  BY WinsEverywhere, PTL
<1> QED
  BY <1>11, <1>12

-----------------------------------------------------------------------------
(* Steps *)

(* A goroutine that takes a step has its lane to itself, so the lanes still *)
(* wait after it, whatever it does to its own run (run.go, lanes; stmt.go,  *)
(* Create).                                                                 *)
LEMMA StepShapes ==
    ASSUME Shaped, LanesWait, NEW p \in Runs, NEW y, NEW z, WorkOK(y, z),
           work' = [work EXCEPT ![p] = y], runs' = [runs EXCEPT ![p] = z],
           z.kind = runs[p].kind, z.up = runs[p].up, work[p].step # "gone",
           work[p].step = "queued" => Earlier(p) = {}
    PROVE  /\ Shaped' /\ LanesWait' /\ Stmts' = Stmts
           /\ \A q \in Runs : q # p => runs'[q] = runs[q]
           /\ runs'[p] = z
<1>1. /\ IsSeq(runs') /\ DOMAIN runs' = DOMAIN runs /\ runs'[p] = z
      /\ \A q \in Runs : q # p => runs'[q] = runs[q]
  BY SeqReplace DEF Shaped, Runs
<1>2. /\ IsSeq(work') /\ DOMAIN work' = DOMAIN work /\ work'[p] = y
      /\ \A q \in Runs : q # p => work'[q] = work[q]
  BY SeqReplace DEF Shaped, Runs
<1>3. Shaped'
  BY <1>1, <1>2 DEF Shaped, Runs
<1>4. Runs' = Runs /\ Stmts' = Stmts
  BY <1>1 DEF Runs, Stmts
<1>5. \A q \in Runs : Up(q)' = Up(q)
  BY <1>1 DEF Up
<1>6. Runs \subseteq Nat /\ DOMAIN runs = Runs /\ Stmts \subseteq Runs /\ \A n \in Runs : n >= 1
  BY SeqDomain DEF Shaped, Runs, Stmts
<1>7. ASSUME NEW q \in Stmts, p \in Stmts, q < p, SameLane(p, q) PROVE work[q].step = "gone"
  <2>1. CASE work[p].step = "queued"
    <3>1. q \in 1..(p - 1)
      BY <1>6, <1>7
    <3>2. runs[q].kind = "stmt" /\ runs[p].kind = "stmt"
      BY <1>7 DEF Stmts
    <3> QED
      BY <1>7, <2>1, <3>1, <3>2 DEF Earlier, SameLane
  <2>2. CASE work[p].step # "queued"
    BY <1>7, <2>2 DEF LanesWait
  <2> QED
    BY <2>1, <2>2
<1>8. ASSUME NEW a \in Stmts, NEW q \in Stmts, q < a, SameLane(a, q), work'[q].step # "gone"
      PROVE  work'[a].step = "queued"
  <2>1. a \in Runs /\ q \in Runs /\ a # q
    BY <1>6, <1>8
  <2>2. work[q].step # "gone"
    BY <1>2, <1>8, <2>1
  <2>3. a # p
    BY <1>7, <1>8, <2>2
  <2>4. work[a].step = "queued"
    BY <1>8, <2>2 DEF LanesWait
  <2> QED
    BY <1>2, <2>1, <2>3, <2>4
<1>9. LanesWait'
  <2>1. \A a, q \in Stmts : SameLane(a, q)' <=> SameLane(a, q)
    BY <1>5, <1>6 DEF SameLane
  <2> QED
    BY <1>4, <1>8, <2>1 DEF LanesWait
<1> QED
  BY <1>1, <1>3, <1>4, <1>9

(* A step that writes no transaction and completes no statement. *)
LEMMA StepKeeps ==
    ASSUME IInv, NEW p \in Runs, NEW y, NEW z, WorkOK(y, z),
           work' = [work EXCEPT ![p] = y], runs' = [runs EXCEPT ![p] = z], txns' = txns,
           z.kind = runs[p].kind, z.up = runs[p].up, work[p].step # "gone",
           work[p].step = "queued" => Earlier(p) = {},
           z.kind = "stmt" => (z.state = "completed" <=> runs[p].state = "completed")
    PROVE  IInv'
<1>1. /\ Shaped' /\ LanesWait' /\ Stmts' = Stmts
      /\ \A q \in Runs : q # p => runs'[q] = runs[q]
      /\ runs'[p] = z
  BY StepShapes DEF IInv
<1>2. Stmts \subseteq Runs /\ \A q \in Stmts : runs[q].kind = "stmt"
  BY DEF Stmts
<1>3. \A q \in Stmts : runs'[q].up = runs[q].up
  BY <1>1, <1>2
<1>4. \A q \in Stmts : runs'[q].state = "completed" <=> runs[q].state = "completed"
  BY <1>1, <1>2
<1>5. LastUploadWins'
  BY <1>1, <1>3, <1>4, WinsKept DEF IInv
<1> QED
  BY <1>1, <1>5 DEF IInv

(* A step that leaves the rows of runs as they are. *)
LEMMA WorkKeeps ==
    ASSUME IInv, NEW p \in Runs, NEW y, WorkOK(y, runs[p]),
           work' = [work EXCEPT ![p] = y], runs' = runs, txns' = txns, work[p].step \notin {"gone", "queued"}
    PROVE  IInv'
<1>1. PICK z : z = runs[p]
  OBVIOUS
<1>2. runs' = [runs EXCEPT ![p] = z]
  <2>1. PICK S : runs \in Seq(S)
    BY DEF IInv, Shaped, IsSeq
  <2>2. runs \in [DOMAIN runs -> S]
    BY <2>1, LenProperties
  <2> QED
    BY <1>1, <2>2
<1> QED
  BY <1>1, <1>2, StepKeeps

(* The run p is a row and a goroutine that agree. *)
LEMMA AtWork == ASSUME IInv, NEW p \in Runs PROVE WorkOK(work[p], runs[p]) /\ p \in DOMAIN work /\ p \in DOMAIN runs
BY DEF IInv, Shaped, Runs

(* What is left of a run that ended. *)
LEMMA GoneIs == IsWork(Gone) /\ IsSeq(Gone.frames) /\ Gone.step = "gone" /\ Gone.frames = <<>>
<1>1. PICK g : g = Gone
  OBVIOUS
<1>2. IsWork(g) /\ g.step = "gone" /\ g.frames = <<>>
  BY <1>1 DEF Gone, IsWork
<1>3. IsSeq(<<>>)
  BY EmptySeq DEF IsSeq
<1> QED
  BY <1>1, <1>2, <1>3

(* A goroutine that ends may do so with any row that keeps its state as to  *)
(* completion.                                                              *)
LEMMA EndKeeps ==
    ASSUME IInv, NEW p \in Runs, NEW z, IsRun(z),
           work' = [work EXCEPT ![p] = Gone], runs' = [runs EXCEPT ![p] = z], txns' = txns,
           z.kind = runs[p].kind, z.up = runs[p].up, work[p].step \notin {"gone", "queued"},
           z.kind = "stmt" => (z.state = "completed" <=> runs[p].state = "completed")
    PROVE  IInv'
<1>1. PICK g : g = Gone
  OBVIOUS
<1>2. IsWork(g) /\ IsSeq(g.frames) /\ g.step = "gone"
  BY <1>1, GoneIs
<1>3. WorkOK(work[p], runs[p])
  BY AtWork
<1>4. WorkOK(g, z)
  BY <1>2, <1>3 DEF WorkOK
<1>5. work' = [work EXCEPT ![p] = g]
  BY <1>1
<1> QED
  BY <1>4, <1>5, StepKeeps

(* A queued run begins: its lane is empty before it. *)
LEMMA BeginKeeps == ASSUME IInv, NEW p \in Runs, Begin(p) PROVE IInv'
<1>0. WorkOK(work[p], runs[p]) /\ p \in DOMAIN work /\ p \in DOMAIN runs
  BY AtWork
<1>1. PICK x, z0 : x = work[p] /\ z0 = runs[p]
  OBVIOUS
<1>2. PICK z : z = [z0 EXCEPT !.state = "running"]
  OBVIOUS
<1>3. PICK step, known : /\ step = IF x.todo = <<>> THEN "lock" ELSE "write"
                         /\ known = {k \in x.keys : datedTicker(Key[k]) \in facts}
  OBVIOUS
<1>4. PICK y : y = [x EXCEPT !.step = step, !.told = {}, !.known = known]
  OBVIOUS
<1>5. /\ work' = [work EXCEPT ![p] = y] /\ runs' = [runs EXCEPT ![p] = z] /\ txns' = txns
      /\ x.step = "queued" /\ Earlier(p) = {}
  BY <1>0, <1>1, <1>2, <1>3, <1>4 DEF Begin, Reads
<1>6. IsWork(y) /\ y.step = step /\ y.frames = x.frames
  BY <1>0, <1>1, <1>4 DEF WorkOK, IsWork
<1>7. IsRun(z) /\ z.kind = z0.kind /\ z.up = z0.up /\ z.state = "running"
  BY <1>0, <1>1, <1>2 DEF WorkOK, IsRun
<1>8. WorkOK(y, z)
  BY <1>0, <1>1, <1>3, <1>6, <1>7 DEF WorkOK
<1>9. z0.state # "completed"
  BY <1>0, <1>1, <1>5 DEF WorkOK
<1> QED
  BY <1>1, <1>5, <1>7, <1>8, <1>9, StepKeeps

(* Each key is written in a transaction of its own, before the statement's. *)
LEMMA WriteKeyKeeps == ASSUME IInv, NEW p \in Runs, WriteKey(p) PROVE IInv'
<1>0. WorkOK(work[p], runs[p]) /\ p \in DOMAIN work
  BY AtWork
<1>1. PICK x : x = work[p]
  OBVIOUS
<1>2. PICK told, step : /\ step = IF Len(x.todo) = 1 THEN "lock" ELSE "write"
                        /\ work' = [work EXCEPT ![p].todo = Tail(@), ![p].told = @ \cup told, ![p].step = step]
  <2>1. PICK k, o : WriteOutcome(p, k, o)
    BY Zenon DEF WriteKey
  <2>2. PICK step : step = IF Len(x.todo) = 1 THEN "lock" ELSE "write"
    OBVIOUS
  <2>3. work' = [work EXCEPT ![p].todo = Tail(@), ![p].told = @ \cup o.told \cup o.lacked, ![p].step = step]
    BY <1>1, <2>1, <2>2, Zenon DEF WriteOutcome
  <2>4. work' = [work EXCEPT ![p].todo = Tail(@), ![p].told = @ \cup (o.told \cup o.lacked), ![p].step = step]
    BY <2>3
  <2> QED
    BY <2>2, <2>4
<1>3. PICK y : y = [x EXCEPT !.todo = Tail(x.todo), !.told = x.told \cup told, !.step = step]
  OBVIOUS
<1>4. work' = [work EXCEPT ![p] = y]
  BY <1>0, <1>1, <1>2, <1>3
<1>5. IsWork(y) /\ y.step = step /\ y.frames = x.frames
  BY <1>0, <1>1, <1>3 DEF WorkOK, IsWork
<1>6. runs' = runs /\ txns' = txns /\ x.step = "write"
  BY <1>1, Zenon DEF WriteKey, WriteOutcome
<1>7. WorkOK(y, runs[p])
  BY <1>0, <1>1, <1>2, <1>5, <1>6 DEF WorkOK
<1> QED
  BY <1>1, <1>4, <1>6, <1>7, WorkKeeps

(* A run fails before its write, or a follow-up fails after it: no          *)
(* statement that completed is taken back (stmt.go, work).                  *)
LEMMA FailsKeeps ==
    ASSUME IInv, NEW p \in Runs, Fails(p), work[p].step \in {"write", "lock", "locked"}, txns' = txns
    PROVE  IInv'
<1>0. WorkOK(work[p], runs[p]) /\ p \in DOMAIN work /\ p \in DOMAIN runs
  BY AtWork
<1>1. PICK x, z0 : x = work[p] /\ z0 = runs[p]
  OBVIOUS
<1>2. CASE x.frames = <<>>
  <2>1. PICK z : z = [z0 EXCEPT !.state = "failed"]
    OBVIOUS
  <2>2. runs' = [runs EXCEPT ![p] = z] /\ work' = [work EXCEPT ![p] = Gone]
    BY <1>0, <1>1, <1>2, <2>1 DEF Fails
  <2>3. IsRun(z) /\ z.kind = z0.kind /\ z.up = z0.up /\ z.state = "failed"
    BY <1>0, <1>1, <2>1 DEF WorkOK, IsRun
  <2>4. z0.state # "completed"
    BY <1>0, <1>1, <1>2 DEF WorkOK
  <2> QED
    BY <1>1, <2>2, <2>3, <2>4, EndKeeps
<1>3. CASE x.frames # <<>>
  <2>1. PICK y0 : y0 = [x EXCEPT !.step = "follow", !.keys = {}, !.known = {}]
    OBVIOUS
  <2>2. PICK y : y = [y0 EXCEPT !.todo = <<>>, !.told = {}, !.groupable = {}]
    OBVIOUS
  <2>3. IsWork(y0) /\ y0.step = "follow" /\ y0.frames = x.frames
    BY <1>0, <1>1, <2>1 DEF WorkOK, IsWork
  <2>4. IsWork(y) /\ y.step = "follow" /\ y.frames = x.frames
    BY <2>2, <2>3 DEF IsWork
  <2>5. work' = [work EXCEPT ![p].step = "follow", ![p].keys = {}, ![p].known = {}, ![p].todo = <<>>,
                             ![p].told = {}, ![p].groupable = {}]
    BY <1>1, <1>3 DEF Fails
  <2>6. work' = [work EXCEPT ![p] = y]
    BY <1>0, <1>1, <2>1, <2>2, <2>5
  <2>7. runs' = runs
    BY <1>1, <1>3 DEF Fails
  <2>8. WorkOK(y, runs[p])
    BY <1>0, <1>1, <2>4 DEF WorkOK
  <2> QED
    BY <2>6, <2>7, <2>8, WorkKeeps
<1> QED
  BY <1>2, <1>3

(* A confirmation is no statement, however it ends (candidates.go, Confirm). *)
LEMMA ConfirmKeeps == ASSUME IInv, NEW p \in Runs, WriteConfirmed(p) \/ RefuseConfirm(p) PROVE IInv'
<1>0. WorkOK(work[p], runs[p]) /\ p \in DOMAIN work /\ p \in DOMAIN runs
  BY AtWork
<1>1. PICK x, z0 : x = work[p] /\ z0 = runs[p]
  OBVIOUS
<1>2. x.step = "confirm" /\ z0.kind # "stmt"
  BY <1>0, <1>1 DEF WriteConfirmed, RefuseConfirm, WorkOK
<1>3. CASE RefuseConfirm(p)
  <2>1. PICK z : z = [z0 EXCEPT !.state = "failed"]
    OBVIOUS
  <2>2. runs' = [runs EXCEPT ![p] = z] /\ work' = [work EXCEPT ![p] = Gone] /\ txns' = txns
    BY <1>0, <1>1, <1>3, <2>1 DEF RefuseConfirm
  <2>3. IsRun(z) /\ z.kind = z0.kind /\ z.up = z0.up
    BY <1>0, <1>1, <2>1 DEF WorkOK, IsRun
  <2> QED
    BY <1>1, <1>2, <2>2, <2>3, EndKeeps
<1>4. CASE WriteConfirmed(p)
  <2>1. PICK z : z = [z0 EXCEPT !.state = "completed"]
    OBVIOUS
  <2>2. PICK k, told, lacked :
           work' = [work EXCEPT ![p].step = "follow", ![p].keys = {},
                                ![p].frames = <<[except |-> {k}, tickers |-> told \cup lacked, listed |-> {}, picked |-> {}]>>]
    BY <1>4, Zenon DEF WriteConfirmed
  <2>3. PICK e : e = [except |-> {k}, tickers |-> told \cup lacked, listed |-> {}, picked |-> {}]
    OBVIOUS
  <2>4. PICK y : y = [x EXCEPT !.step = "follow", !.keys = {}, !.frames = <<e>>]
    OBVIOUS
  <2>5. work' = [work EXCEPT ![p] = y]
    BY <1>0, <1>1, <2>2, <2>3, <2>4
  <2>6. IsWork(y) /\ y.step = "follow" /\ y.frames = <<e>>
    BY <1>0, <1>1, <2>4 DEF WorkOK, IsWork
  <2>7. runs' = [runs EXCEPT ![p] = z] /\ txns' = txns
    BY <1>0, <1>1, <1>4, <2>1 DEF WriteConfirmed
  <2>8. IsRun(z) /\ z.kind = z0.kind /\ z.up = z0.up
    BY <1>0, <1>1, <2>1 DEF WorkOK, IsRun
  <2>9. IsSeq(<<e>>)
    <3>1. <<e>> \in Seq({e})
      OBVIOUS
    <3> QED
      BY <3>1 DEF IsSeq
  <2>10. WorkOK(y, z)
    BY <1>2, <2>6, <2>8, <2>9 DEF WorkOK
  <2> QED
    BY <1>1, <1>2, <2>5, <2>7, <2>8, <2>10, StepKeeps
<1> QED
  BY <1>3, <1>4

(* The key lock of the user is taken. *)
LEMMA LockKeeps == ASSUME IInv, NEW p \in Runs, LockUserKeys(p) PROVE IInv'
<1>0. WorkOK(work[p], runs[p]) /\ p \in DOMAIN work
  BY AtWork
<1>1. PICK x, ks : x = work[p] /\ ks = ListGroupableKeys(p)
  OBVIOUS
<1>2. PICK y : y = [x EXCEPT !.step = "locked", !.groupable = ks]
  OBVIOUS
<1>3. work' = [work EXCEPT ![p] = y]
  BY <1>0, <1>1, <1>2 DEF LockUserKeys
<1>4. IsWork(y) /\ y.step = "locked" /\ y.frames = x.frames
  BY <1>0, <1>1, <1>2 DEF WorkOK, IsWork
<1>5. runs' = runs /\ txns' = txns /\ x.step = "lock"
  BY <1>1 DEF LockUserKeys
<1>6. WorkOK(y, runs[p])
  BY <1>0, <1>1, <1>4, <1>5 DEF WorkOK
<1> QED
  BY <1>1, <1>3, <1>5, <1>6, WorkKeeps

(* The listings that are still pending. *)
LEMMA PendingIs ==
    ASSUME NEW f, IsSeq(f)
    PROVE  IsSeq(Pending(f)) /\ (Pending(f) = f \/ (f # <<>> /\ f[1].listed = {} /\ f[1].tickers = {} /\ Pending(f) = Tail(f)))
<1>1. PICK S : f \in Seq(S)
  BY DEF IsSeq
<1>2. CASE f # <<>> /\ Head(f).listed = {} /\ Head(f).tickers = {}
  <2>1. Pending(f) = Tail(f) /\ Tail(f) \in Seq(S) /\ Head(f) = f[1]
    BY <1>1, <1>2 DEF Pending
  <2> QED
    BY <1>2, <2>1 DEF IsSeq
<1>3. CASE ~(f # <<>> /\ Head(f).listed = {} /\ Head(f).tickers = {})
  BY <1>3 DEF Pending
<1> QED
  BY <1>2, <1>3

(* The transaction commits: a statement replaces its period and completes,  *)
(* and what it is to follow up is noted (write.go, write; stmt.go, work).   *)
LEMMA CommitKeeps == ASSUME IInv, NEW p \in Runs, Commit(p) PROVE IInv'
<1>0. WorkOK(work[p], runs[p]) /\ p \in DOMAIN work /\ p \in DOMAIN runs
  BY AtWork
<1>1. PICK x, z0, e :
         /\ x = work[p] /\ z0 = runs[p]
         /\ e = [except |-> work[p].keys, tickers |-> work[p].told, listed |-> {}, picked |-> {}]
  OBVIOUS
<1>a. PICK f : f = Pending(x.frames)
  OBVIOUS
<1>2. PICK g : g = <<e>> \o f
  OBVIOUS
<1>3. IsSeq(g) /\ g # <<>>
  <2>1. PICK S : f \in Seq(S)
    BY <1>0, <1>1, <1>a, PendingIs DEF WorkOK, IsSeq
  <2>2. PICK T : T = S \cup {e}
    OBVIOUS
  <2>3. f \in Seq(T) /\ <<e>> \in Seq(T) /\ Len(<<e>>) = 1
    BY <2>1, <2>2, SeqMonotonic
  <2>4. g \in Seq(T) /\ Len(g) = 1 + Len(f)
    BY <1>2, <2>3, ConcatProperties
  <2>5. Len(f) \in Nat
    BY <2>3, LenProperties
  <2>6. g # <<>>
    BY <2>4, <2>5, EmptySeq
  <2> QED
    BY <2>4, <2>6 DEF IsSeq
<1>4. PICK y0 : y0 = [x EXCEPT !.step = "follow", !.keys = {}, !.known = {}]
  OBVIOUS
<1>5. PICK y : y = [y0 EXCEPT !.told = {}, !.groupable = {}, !.frames = g]
  OBVIOUS
<1>6. IsWork(y0) /\ y0.step = "follow" /\ y0.frames = x.frames
  BY <1>0, <1>1, <1>4 DEF WorkOK, IsWork
<1>7. IsWork(y) /\ y.step = "follow" /\ y.frames = g
  BY <1>5, <1>6 DEF IsWork
<1>8. work' = [work EXCEPT ![p] = y]
  <2>1. work' = [work EXCEPT ![p].step = "follow", ![p].keys = {}, ![p].known = {}, ![p].told = {}, ![p].groupable = {},
                             ![p].frames = <<e>> \o Pending(@)]
    BY <1>1 DEF Commit
  <2> QED
    BY <1>0, <1>1, <1>a, <1>2, <1>4, <1>5, <1>6, <2>1 DEF IsWork
<1>9. x.step = "locked" /\ txns' = Written(p)
  BY <1>1 DEF Commit
<1>10. PICK z : z = IF x.frames = <<>> THEN [z0 EXCEPT !.state = "completed"] ELSE z0
  OBVIOUS
<1>11. runs' = [runs EXCEPT ![p] = z]
  <2>1. CASE x.frames = <<>>
    BY <1>0, <1>1, <1>10, <2>1 DEF Commit
  <2>2. CASE x.frames # <<>>
    <3>1. PICK S : runs \in Seq(S)
      BY DEF IInv, Shaped, IsSeq
    <3>2. runs \in [DOMAIN runs -> S]
      BY <3>1, LenProperties
    <3>3. runs' = runs
      BY <1>1, <2>2 DEF Commit
    <3> QED
      BY <1>1, <1>10, <2>2, <3>2, <3>3
  <2> QED
    BY <2>1, <2>2
<1>12. IsRun(z) /\ z.kind = z0.kind /\ z.up = z0.up /\ z.state = (IF x.frames = <<>> THEN "completed" ELSE z0.state)
  BY <1>0, <1>1, <1>10 DEF WorkOK, IsRun
<1>13. WorkOK(y, z)
  BY <1>0, <1>1, <1>3, <1>7, <1>12 DEF WorkOK
<1>14. CASE Writing(p)
  <2>1. x.frames = <<>> /\ z0.kind = "stmt" /\ p \in Stmts
    BY <1>1, <1>14 DEF Writing, Stmts
  <2>2. txns' = (txns \ DeleteTxns(p)) \cup Accepted(p)
    BY <1>9, <1>14 DEF Written
  <2>3. /\ Shaped' /\ LanesWait' /\ Stmts' = Stmts
        /\ \A q \in Runs : q # p => runs'[q] = runs[q]
        /\ runs'[p] = z
    BY <1>1, <1>8, <1>9, <1>11, <1>12, <1>13, StepShapes DEF IInv
  <2>4. Stmts \subseteq Runs
    BY DEF Stmts
  <2>5. /\ \A q \in Stmts : q \in Stmts' /\ runs'[q].up = runs[q].up
        /\ \A q \in Stmts' : q \in Stmts /\ (runs'[q].state = "completed" <=> (q = p \/ runs[q].state = "completed"))
    BY <1>1, <1>12, <2>1, <2>3, <2>4
  <2>6. LastUploadWins'
    BY <1>1, <1>9, <2>1, <2>2, <2>5, WinsWritten DEF IInv
  <2> QED
    BY <2>3, <2>6 DEF IInv
<1>15. CASE ~Writing(p)
  <2>1. txns' = txns
    BY <1>9, <1>15 DEF Written
  <2>2. z.kind = "stmt" => z.state = z0.state
    BY <1>1, <1>12, <1>15 DEF Writing
  <2> QED
    BY <1>1, <1>8, <1>9, <1>11, <1>12, <1>13, <2>1, <2>2, StepKeeps
<1> QED
  BY <1>14, <1>15

(* A follow-up changes what is left to follow, and nothing of the run       *)
(* (replayrun.go, replayFacts).                                             *)
LEMMA FollowKeeps ==
    ASSUME IInv, NEW p \in Runs, work[p].step = "follow", work[p].frames # <<>>, NEW e,
           work' = [work EXCEPT ![p].frames[1] = e], runs' = runs, txns' = txns
    PROVE  IInv'
<1>0. WorkOK(work[p], runs[p]) /\ p \in DOMAIN work
  BY AtWork
<1>1. PICK x : x = work[p]
  OBVIOUS
<1>2. PICK g : g = [x.frames EXCEPT ![1] = e]
  OBVIOUS
<1>3. IsSeq(x.frames)
  BY <1>0, <1>1 DEF WorkOK
<1>4. 1 \in DOMAIN x.frames
  <2>1. PICK S : x.frames \in Seq(S)
    BY <1>3 DEF IsSeq
  <2>2. Len(x.frames) \in Nat \ {0} /\ DOMAIN x.frames = 1..Len(x.frames)
    BY <1>1, <2>1, EmptySeq, LenProperties
  <2> QED
    BY <2>2
<1>5. IsSeq(g) /\ DOMAIN g = DOMAIN x.frames
  BY <1>2, <1>3, <1>4, SeqReplace
<1>6. PICK y : y = [x EXCEPT !.frames = g]
  OBVIOUS
<1>7. work' = [work EXCEPT ![p] = y]
  BY <1>0, <1>1, <1>2, <1>6
<1>8. IsWork(y) /\ y.step = x.step /\ y.frames = g
  BY <1>0, <1>1, <1>6 DEF WorkOK, IsWork
<1>9. WorkOK(y, runs[p])
  BY <1>0, <1>1, <1>5, <1>8 DEF WorkOK
<1> QED
  BY <1>7, <1>9, WorkKeeps

(* The keys that state a ticker are listed, or listing them fails. *)
LEMMA ListKeeps == ASSUME IInv, NEW p \in Runs, replayFacts(p) \/ FailListing(p) PROVE IInv'
<1>1. /\ work[p].step = "follow" /\ work[p].frames # <<>> /\ runs' = runs /\ txns' = txns
      /\ \E e : work' = [work EXCEPT ![p].frames[1] = e]
  <2>1. CASE replayFacts(p)
    <3>1. PICK f, t : work' = [work EXCEPT ![p].frames[1] =
                         [f EXCEPT !.tickers = @ \ {t}, !.listed = ListUnassociatedKeysStating(t, f) \ f.picked,
                                   !.picked = @ \cup ListUnassociatedKeysStating(t, f)]]
      BY <2>1, Zenon DEF replayFacts
    <3> QED
      BY <2>1, <3>1 DEF replayFacts
  <2>2. CASE FailListing(p)
    <3>1. PICK f, t : work' = [work EXCEPT ![p].frames[1] = [f EXCEPT !.tickers = @ \ {t}]]
      BY <2>2, Zenon DEF FailListing
    <3> QED
      BY <2>2, <3>1 DEF FailListing
  <2> QED
    BY <2>1, <2>2
<1> QED
  BY <1>1, FollowKeeps

(* Listed keys are replayed beneath a run that has written. *)
LEMMA ReplayKeysKeeps == ASSUME IInv, NEW p \in Runs, replayKeys(p) PROVE IInv'
<1>0. WorkOK(work[p], runs[p]) /\ p \in DOMAIN work
  BY AtWork
<1>1. PICK x : x = work[p]
  OBVIOUS
<1>2. PICK u, ks, todo, e :
         work' = [work EXCEPT ![p] = Reads([x EXCEPT !.user = u, !.keys = ks, !.todo = todo, !.frames[1] = e])]
  <2>1. PICK u, ks, f : work' = [work EXCEPT ![p] =
                        Reads([@ EXCEPT !.user = u, !.keys = ks, !.todo = ToResolve(rows, InOrder(ks)),
                                        !.frames[1] = [f EXCEPT !.listed = @ \ ks]])]
    BY Zenon DEF replayKeys
  <2>2. PICK todo, e : todo = ToResolve(rows, InOrder(ks)) /\ e = [f EXCEPT !.listed = @ \ ks]
    OBVIOUS
  <2>3. work' = [work EXCEPT ![p] = Reads([work[p] EXCEPT !.user = u, !.keys = ks, !.todo = todo, !.frames[1] = e])]
    BY <1>0, <2>1, <2>2
  <2> QED
    BY <1>1, <2>3
<1>3. PICK g : g = [x.frames EXCEPT ![1] = e]
  OBVIOUS
<1>4. PICK x1 : x1 = [x EXCEPT !.user = u, !.keys = ks, !.todo = todo, !.frames = g]
  OBVIOUS
<1>5. x1 = [x EXCEPT !.user = u, !.keys = ks, !.todo = todo, !.frames[1] = e]
  BY <1>0, <1>1, <1>3, <1>4 DEF WorkOK, IsWork
<1>6. PICK step, known : /\ step = IF x1.todo = <<>> THEN "lock" ELSE "write"
                         /\ known = {k \in x1.keys : datedTicker(Key[k]) \in facts}
  OBVIOUS
<1>7. PICK y : y = [x1 EXCEPT !.step = step, !.told = {}, !.known = known]
  OBVIOUS
<1>8. work' = [work EXCEPT ![p] = y]
  <2>1. Reads(x1) = y
    BY <1>6, <1>7 DEF Reads
  <2> QED
    BY <1>2, <1>5, <2>1
<1>9. IsWork(x1) /\ x1.frames = g
  BY <1>0, <1>1, <1>4 DEF WorkOK, IsWork
<1>10. IsWork(y) /\ y.step = step /\ y.frames = g
  BY <1>7, <1>9 DEF IsWork
<1>11. x.step = "follow" /\ x.frames # <<>> /\ runs' = runs /\ txns' = txns
  BY <1>1 DEF replayKeys
<1>12. IsSeq(g) /\ g # <<>>
  <2>1. PICK S : x.frames \in Seq(S)
    BY <1>0, <1>1 DEF WorkOK, IsSeq
  <2>2. Len(x.frames) \in Nat \ {0} /\ DOMAIN x.frames = 1..Len(x.frames)
    BY <1>11, <2>1, EmptySeq, LenProperties
  <2>3. IsSeq(x.frames) /\ 1 \in DOMAIN x.frames
    BY <2>1, <2>2 DEF IsSeq
  <2>4. IsSeq(g) /\ 1 \in DOMAIN g
    BY <1>3, <2>3, SeqReplace
  <2> QED
    BY <2>4
<1>13. WorkOK(y, runs[p])
  BY <1>0, <1>1, <1>6, <1>10, <1>12 DEF WorkOK
<1> QED
  BY <1>1, <1>8, <1>11, <1>13, WorkKeeps

(* A listing is followed up in full. *)
LEMMA FollowedUpKeeps == ASSUME IInv, NEW p \in Runs, FollowedUp(p) PROVE IInv'
<1>0. WorkOK(work[p], runs[p]) /\ p \in DOMAIN work
  BY AtWork
<1>1. PICK x : x = work[p]
  OBVIOUS
<1>2. x.step = "follow" /\ runs' = runs /\ txns' = txns
  BY <1>1 DEF FollowedUp
<1>3. PICK y : y = IF Len(x.frames) > 1 THEN [x EXCEPT !.frames = Tail(@)]
                   ELSE IF runs[p].kind = "stmt" THEN [x EXCEPT !.step = "settle"] ELSE Gone
  OBVIOUS
<1>4. work' = [work EXCEPT ![p] = y]
  BY <1>1, <1>3, Zenon DEF FollowedUp
<1>5. IsWork(y) /\ IsSeq(y.frames) /\ y.step \in {"follow", "settle", "gone"}
  <2>1. CASE Len(x.frames) > 1
    <3>1. PICK S : x.frames \in Seq(S)
      BY <1>0, <1>1 DEF WorkOK, IsSeq
    <3>2. PICK g : g = Tail(x.frames)
      OBVIOUS
    <3>3. x.frames # <<>>
      BY <2>1, EmptySeq
    <3>4. IsSeq(g)
      BY <3>1, <3>2, <3>3, HeadTailProperties DEF IsSeq
    <3>5. y = [x EXCEPT !.frames = g]
      BY <1>3, <2>1, <3>2
    <3> QED
      BY <1>0, <1>1, <1>2, <3>4, <3>5 DEF WorkOK, IsWork
  <2>2. CASE ~(Len(x.frames) > 1) /\ runs[p].kind = "stmt"
    <3>1. y = [x EXCEPT !.step = "settle"]
      BY <1>3, <2>2
    <3> QED
      BY <1>0, <1>1, <3>1 DEF WorkOK, IsWork
  <2>3. CASE ~(Len(x.frames) > 1) /\ runs[p].kind # "stmt"
    <3>1. y = Gone
      BY <1>3, <2>3
    <3> QED
      BY <3>1, GoneIs
  <2> QED
    BY <2>1, <2>2, <2>3
<1>6. WorkOK(y, runs[p])
  BY <1>0, <1>5 DEF WorkOK
<1> QED
  BY <1>1, <1>2, <1>4, <1>6, WorkKeeps

(* A statement is settled, or settling it fails: it stays completed         *)
(* (stmt.go, settle).                                                       *)
LEMMA SettleKeeps == ASSUME IInv, NEW p \in Runs, SettleStmt(p) \/ FailSettle(p) PROVE IInv'
<1>0. WorkOK(work[p], runs[p]) /\ p \in DOMAIN work /\ p \in DOMAIN runs
  BY AtWork
<1>1. PICK z0 : z0 = runs[p]
  OBVIOUS
<1>2. CASE SettleStmt(p)
  <2>1. PICK z : z = [z0 EXCEPT !.settled = TRUE]
    OBVIOUS
  <2>2. runs' = [runs EXCEPT ![p] = z] /\ work' = [work EXCEPT ![p] = Gone] /\ txns' = txns /\ work[p].step = "settle"
    BY <1>0, <1>1, <1>2, <2>1 DEF SettleStmt
  <2>3. IsRun(z) /\ z.kind = z0.kind /\ z.up = z0.up /\ z.state = z0.state
    BY <1>0, <1>1, <2>1 DEF WorkOK, IsRun
  <2> QED
    BY <1>1, <2>2, <2>3, EndKeeps
<1>3. CASE FailSettle(p)
  <2>1. PICK g : g = Gone
    OBVIOUS
  <2>2. IsWork(g) /\ IsSeq(g.frames) /\ g.step = "gone"
    BY <2>1, GoneIs
  <2>3. work' = [work EXCEPT ![p] = g] /\ runs' = runs /\ txns' = txns /\ work[p].step = "settle"
    BY <1>3, <2>1 DEF FailSettle
  <2>4. WorkOK(g, runs[p])
    BY <1>0, <2>2 DEF WorkOK
  <2> QED
    BY <2>3, <2>4, WorkKeeps
<1> QED
  BY <1>2, <1>3

(* A run is added at the end, queued or running: the lanes before it are as *)
(* they were, and a statement waits (stmt.go, Create).                      *)
LEMMA AddKeeps ==
    ASSUME IInv, NEW y, NEW z, WorkOK(y, z), runs' = Append(runs, z), work' = Append(work, y), txns' = txns,
           z.kind = "stmt" => y.step = "queued"
    PROVE  IInv'
<1>1. PICK n : n = Len(runs)
  OBVIOUS
<1>2. n \in Nat /\ DOMAIN runs = 1..n /\ DOMAIN work = 1..n /\ Len(work) = n
  <2>1. DOMAIN runs = 1..n /\ n \in Nat /\ DOMAIN work = 1..Len(work) /\ Len(work) \in Nat
    BY <1>1, SeqDomain DEF IInv, Shaped
  <2> QED
    BY <2>1 DEF IInv, Shaped
<1>3. /\ IsSeq(runs') /\ DOMAIN runs' = 1..(n + 1) /\ runs'[n + 1] = z
      /\ \A q \in 1..n : runs'[q] = runs[q]
  BY <1>1, <1>2, SeqAppend DEF IInv, Shaped
<1>4. /\ IsSeq(work') /\ DOMAIN work' = 1..(n + 1) /\ work'[n + 1] = y
      /\ \A q \in 1..n : work'[q] = work[q]
  BY <1>2, SeqAppend DEF IInv, Shaped
<1>5. \A q \in 1..(n + 1) : q \in 1..n \/ q = n + 1
  BY <1>2
<1>6. Shaped'
  BY <1>2, <1>3, <1>4, <1>5 DEF IInv, Shaped, Runs
<1>7. Stmts \subseteq 1..n /\ Stmts \subseteq Stmts' /\ Stmts' \subseteq Stmts \cup {n + 1} /\ (n + 1 \in Stmts' => z.kind = "stmt")
  BY <1>2, <1>3, <1>5 DEF Stmts, Runs
<1>8. \A q \in Stmts : runs'[q] = runs[q] /\ Up(q)' = Up(q) /\ work'[q] = work[q]
  BY <1>3, <1>4, <1>7 DEF Up
<1>9. ASSUME NEW p \in Stmts', NEW q \in Stmts', q < p, SameLane(p, q)', work'[q].step # "gone"
      PROVE  work'[p].step = "queued"
  <2>1. CASE p = n + 1
    BY <1>4, <1>7, <2>1
  <2>2. CASE p # n + 1
    <3>1. p \in Stmts /\ p \in 1..n
      BY <1>7, <2>2
    <3>2. q # n + 1
      BY <1>2, <1>9, <3>1
    <3>3. q \in Stmts
      BY <1>7, <3>2
    <3>4. SameLane(p, q) /\ work[q].step # "gone"
      BY <1>8, <1>9, <3>1, <3>3 DEF SameLane
    <3> QED
      BY <1>8, <1>9, <3>1, <3>3, <3>4 DEF IInv, LanesWait
  <2> QED
    BY <2>1, <2>2
<1>10. LanesWait'
  BY <1>9 DEF LanesWait
<1>11. n + 1 \in Stmts' => z.state # "completed"
  BY <1>7 DEF WorkOK
<1>12. n + 1 \notin Stmts
  BY <1>2, <1>7
<1>13. LastUploadWins'
  BY <1>3, <1>7, <1>8, <1>11, <1>12, WinsKept DEF IInv
<1> QED
  BY <1>6, <1>10, <1>13 DEF IInv

(* A statement or a replay is queued. *)
LEMMA QueueKeeps ==
    ASSUME IInv, NEW kind, NEW up, NEW user, NEW todo, Queue(kind, up, user, todo), txns' = txns,
           kind = "stmt" => up \in Uploads
    PROVE  IInv'
<1>1. PICK g, ks : g = Gone /\ ks = {t[1] : t \in Range(todo)}
  OBVIOUS
<1>2. IsWork(g) /\ IsSeq(g.frames) /\ g.frames = <<>>
  BY <1>1, GoneIs
<1>3. PICK y : y = [g EXCEPT !.step = "queued", !.user = user, !.todo = todo, !.keys = ks]
  OBVIOUS
<1>4. PICK z : z = [kind |-> kind, up |-> up, state |-> "pending", settled |-> FALSE]
  OBVIOUS
<1>5. runs' = Append(runs, z) /\ work' = Append(work, y)
  BY <1>1, <1>3, <1>4 DEF Queue
<1>6. IsWork(y) /\ y.step = "queued" /\ y.frames = <<>> /\ IsSeq(y.frames)
  BY <1>2, <1>3 DEF IsWork
<1>7. IsRun(z) /\ z.kind = kind /\ z.up = up /\ z.state = "pending"
  BY <1>4 DEF IsRun
<1>8. WorkOK(y, z)
  BY <1>6, <1>7 DEF WorkOK
<1> QED
  BY <1>5, <1>6, <1>8, AddKeeps

(* A user uploads a statement (stmt.go, Create). *)
LEMMA CreateKeeps == ASSUME IInv, NEW u \in Uploads, Create(u) PROVE IInv'
<1>1. PICK user, todo : user = Upload[u].user /\ todo = Unresolved(rows', Stated[u])
  OBVIOUS
<1>2. Queue("stmt", u, user, todo) /\ txns' = txns
  BY <1>1 DEF Create
<1> QED
  BY <1>2, QueueKeeps

(* An administrator starts a replay (replayrun.go, ReplayKeys). *)
LEMMA StartReplayKeeps == ASSUME IInv, StartReplay PROVE IInv'
<1>1. PICK up, user, todo : Queue("replay", up, user, todo)
  BY Zenon DEF StartReplay
<1>2. txns' = txns
  BY DEF StartReplay
<1> QED
  BY <1>1, <1>2, QueueKeeps

(* A user starts a confirmation, which runs at once (candidates.go, Confirm). *)
LEMMA StartConfirmKeeps == ASSUME IInv, StartConfirm PROVE IInv'
<1>1. PICK k, g, up : g = Gone /\ up = (CHOOSE u \in Uploads : TRUE)
                      /\ runs' = Append(runs, [kind |-> "confirm", up |-> up, state |-> "running", settled |-> FALSE])
                      /\ work' = Append(work, [g EXCEPT !.step = "confirm", !.user = Key[k].user, !.keys = {k}])
  BY Zenon DEF StartConfirm
<1>2. IsWork(g) /\ IsSeq(g.frames) /\ g.frames = <<>>
  BY <1>1, GoneIs
<1>3. PICK y : y = [g EXCEPT !.step = "confirm", !.user = Key[k].user, !.keys = {k}]
  OBVIOUS
<1>4. PICK z : z = [kind |-> "confirm", up |-> up, state |-> "running", settled |-> FALSE]
  OBVIOUS
<1>5. runs' = Append(runs, z) /\ work' = Append(work, y)
  BY <1>1, <1>3, <1>4
<1>6. IsWork(y) /\ y.step = "confirm" /\ IsSeq(y.frames)
  BY <1>2, <1>3 DEF IsWork
<1>7. IsRun(z) /\ z.kind = "confirm"
  BY <1>4 DEF IsRun
<1>8. WorkOK(y, z)
  BY <1>6, <1>7 DEF WorkOK
<1>9. txns' = txns
  BY DEF StartConfirm
<1> QED
  BY <1>5, <1>7, <1>8, <1>9, AddKeeps

(* A restart interrupts what had not ended, and no statement that completed *)
(* (run.go, InterruptActive; stmt.go, Interrupt).                           *)
LEMMA RestartKeeps == ASSUME IInv, Restart PROVE IInv'
<1>1. PICK g : g = Gone
  OBVIOUS
<1>2. IsWork(g) /\ IsSeq(g.frames) /\ g.step = "gone"
  BY <1>1, GoneIs
<1>3. txns' = txns /\ work' = [p \in Runs |-> g]
  BY <1>1 DEF Restart
<1>4. DOMAIN runs' = Runs
  BY DEF Restart
<1>5. ASSUME NEW p \in Runs
      PROVE  /\ IsRun(runs'[p]) /\ runs'[p].kind = runs[p].kind /\ runs'[p].up = runs[p].up
             /\ runs'[p].state = "completed" <=> runs[p].state = "completed"
  <2>1. PICK z0, s : z0 = runs[p] /\ s = IF z0.state \in {"pending", "running"} THEN "interrupted" ELSE z0.state
    OBVIOUS
  <2>2. IsRun(z0)
    BY <2>1, AtWork DEF WorkOK
  <2>3. runs'[p] = [z0 EXCEPT !.state = s, !.settled = (z0.kind = "stmt")]
    BY <2>1, <2>2 DEF Restart, IsRun
  <2> QED
    BY <2>1, <2>2, <2>3 DEF IsRun
<1>6. IsSeq(runs') /\ IsSeq(work')
  <2>1. PICK f, h : f = runs' /\ h = work'
    OBVIOUS
  <2>2. DOMAIN f = Runs /\ f \in [Runs -> {f[p] : p \in Runs}]
    BY <1>4, <2>1 DEF Restart
  <2>3. h \in [Runs -> {g}]
    BY <1>3, <2>1
  <2>4. IsSeq(f)
    BY <2>2, SeqOver DEF Runs, IInv, Shaped
  <2>5. IsSeq(h)
    BY <2>3, SeqOver DEF Runs, IInv, Shaped
  <2> QED
    BY <2>1, <2>4, <2>5
<1>7. Shaped'
  <2>1. ASSUME NEW p \in Runs PROVE WorkOK(work'[p], runs'[p])
    <3>1. work'[p] = g
      BY <1>3
    <3>2. WorkOK(work[p], runs[p])
      BY AtWork
    <3> QED
      BY <1>2, <1>5, <3>1, <3>2 DEF WorkOK
  <2>2. DOMAIN work' = Runs
    BY <1>3
  <2> QED
    BY <1>4, <1>6, <2>1, <2>2 DEF Shaped, Runs
<1>8. Stmts' = Stmts
  BY <1>4, <1>5 DEF Stmts, Runs
<1>9. LanesWait'
  BY <1>2, <1>3, <1>8 DEF LanesWait, Stmts
<1>10. Stmts \subseteq Runs
  BY DEF Stmts
<1>11. LastUploadWins'
  BY <1>3, <1>5, <1>8, <1>10, WinsKept DEF IInv
<1> QED
  BY <1>7, <1>9, <1>11 DEF IInv

(* Every step keeps the invariant. *)
LEMMA NextKeeps == ASSUME IInv, [Next]_vars PROVE IInv'
<1>1. CASE UNCHANGED vars
  <2>1. runs' = runs /\ work' = work /\ txns' = txns
    BY <1>1 DEF vars
  <2>2. Shaped'
    BY <2>1 DEF IInv, Shaped, Runs
  <2>3. Stmts' = Stmts
    BY <2>1 DEF Stmts, Runs
  <2>4. LanesWait'
    BY <2>1, <2>3 DEF IInv, LanesWait, SameLane, Up
  <2>5. LastUploadWins'
    BY <2>1, <2>3, WinsKept DEF IInv
  <2> QED
    BY <2>2, <2>4, <2>5 DEF IInv
<1>2. ASSUME NEW p \in Runs, Step(p) PROVE IInv'
  <2>1. CASE FailResolution(p)
    BY <2>1, FailsKeeps DEF FailResolution
  <2>2. CASE FailWrite(p)
    BY <2>2, FailsKeeps DEF FailWrite
  <2> QED
    BY <1>2, <2>1, <2>2, BeginKeeps, WriteKeyKeeps, ConfirmKeeps, LockKeeps, CommitKeeps, ListKeeps, ReplayKeysKeeps,
       FollowedUpKeeps, SettleKeeps DEF Step
<1> QED
  BY <1>1, <1>2, CreateKeeps, StartReplayKeeps, StartConfirmKeeps, RestartKeeps DEF Next

(* The inductive invariant holds of every behaviour: while a statement has  *)
(* not ended the later ones of its lane wait, and the rows of runs agree    *)
(* with what their goroutines do, through failures and restarts (run.go,    *)
(* lanes; stmt.go, work).                                                   *)
THEOREM IngestInductive == Spec => []IInv
<1>1. Init => IInv
  <2> SUFFICES ASSUME Init PROVE IInv
    OBVIOUS
  <2>1. Runs = {} /\ Stmts = {}
    BY EmptySeq DEF Init, Runs, Stmts
  <2>2. IsSeq(<<>>)
    BY EmptySeq DEF IsSeq
  <2>3. Shaped
    BY <2>1, <2>2 DEF Init, Shaped
  <2>4. LanesWait
    BY <2>1 DEF LanesWait
  <2>5. LastUploadWins
    BY <2>1 DEF Init, LastUploadWins, Covering
  <2> QED
    BY <2>3, <2>4, <2>5 DEF IInv
<1>2. IInv /\ [Next]_vars => IInv'
  BY NextKeeps
<1> QED
  BY <1>1, <1>2, PTL DEF Spec

(* Whatever resolutions, follow-ups, failures and restarts lie between, the *)
(* transactions of a day at a broker are those that the last statement      *)
(* uploaded for it states, of those written (write.go, write).              *)
THEOREM LastUploadsWin == Spec => []LastUploadWins
<1>1. IInv => LastUploadWins
  BY DEF IInv
<1> QED
  BY <1>1, IngestInductive, PTL
-----------------------------------------------------------------------------
(* Lists of keys *)

\* s is a list, by its length and its positions.
IsList(s) == Len(s) \in Nat /\ DOMAIN s = 1..Len(s)

(* Appending adds one element at the end. *)
LEMMA Appended ==
    ASSUME NEW s, IsList(s), NEW x
    PROVE  /\ IsList(Append(s, x)) /\ Len(Append(s, x)) = Len(s) + 1
           /\ \A n \in DOMAIN s : Append(s, x)[n] = s[n]
           /\ Append(s, x)[Len(s) + 1] = x
BY DEF IsList

(* The empty list. *)
LEMMA NoElements == IsList(<< >>) /\ Len(<< >>) = 0 /\ DOMAIN << >> = {}
BY DEF IsList

(* The list without its head. *)
LEMMA TailIs ==
    ASSUME NEW s, IsList(s), s # <<>>
    PROVE  /\ IsList(Tail(s)) /\ 1 \in DOMAIN s /\ Head(s) = s[1] /\ Len(Tail(s)) = Len(s) - 1
           /\ \A n \in DOMAIN Tail(s) : n + 1 \in DOMAIN s /\ Tail(s)[n] = s[n + 1]
           /\ \A n \in DOMAIN s : n # 1 => n - 1 \in DOMAIN Tail(s) /\ Tail(s)[n - 1] = s[n]
BY DEF IsList

\* The list u holds the elements of s at those of the positions P up to n.
Keeps(u, s, P, n) == /\ IsList(u)
                     /\ \A k \in DOMAIN u : \E m \in P \cap DOMAIN s : u[k] = s[m]
                     /\ \A m \in P \cap (1..n) : \E k \in DOMAIN u : u[k] = s[m]

(* One more position is looked at. *)
LEMMA KeepsNext ==
    ASSUME NEW u, NEW s, NEW P, NEW n \in Nat, n + 1 \in DOMAIN s, Keeps(u, s, P, n)
    PROVE  Keeps(IF n + 1 \in P THEN Append(u, s[n + 1]) ELSE u, s, P, n + 1)
<1>1. \A m \in P \cap (1..(n + 1)) : m \in P \cap (1..n) \/ m = n + 1
  OBVIOUS
<1>2. CASE n + 1 \in P
  <2>1. PICK v : v = Append(u, s[n + 1])
    OBVIOUS
  <2>2. /\ IsList(v) /\ DOMAIN u = 1..Len(u) /\ DOMAIN v = 1..(Len(u) + 1) /\ Len(u) \in Nat
        /\ \A k \in DOMAIN u : v[k] = u[k]
        /\ v[Len(u) + 1] = s[n + 1]
    BY <2>1, Appended DEF Keeps, IsList
  <2>3. \A k \in DOMAIN v : k \in DOMAIN u \/ k = Len(u) + 1
    BY <2>2
  <2>4. \A k \in DOMAIN v : \E m \in P \cap DOMAIN s : v[k] = s[m]
    BY <1>2, <2>2, <2>3 DEF Keeps
  <2>5. Len(u) + 1 \in DOMAIN v /\ DOMAIN u \subseteq DOMAIN v
    BY <2>2
  <2>6. \A m \in P \cap (1..(n + 1)) : \E k \in DOMAIN v : v[k] = s[m]
    BY <1>1, <2>2, <2>5 DEF Keeps
  <2>7. Keeps(v, s, P, n + 1)
    BY <2>2, <2>4, <2>6 DEF Keeps
  <2> QED
    BY <1>2, <2>1, <2>7
<1>3. CASE n + 1 \notin P
  BY <1>1, <1>3 DEF Keeps
<1> QED
  BY <1>2, <1>3

(* The elements of s at the positions P, all of them and no others. *)
LEMMA AtIs == ASSUME NEW s, IsList(s), NEW P PROVE Keeps(At(s, P), s, P, Len(s))
<1>1. PICK N \in Nat : N = Len(s) /\ DOMAIN s = 1..N
  BY DEF IsList
<1> DEFINE G(g, n) == g = [m \in 0..n |-> IF m = 0 THEN <<>> ELSE IF m \in P THEN Append(g[m - 1], s[m]) ELSE g[m - 1]]
<1> HIDE DEF G
<1>2. \E g : G(g, N)
  <2>1. PICK B : B = {n \in 0..N : ~\E g : G(g, n)}
    OBVIOUS
  <2>2. SUFFICES ASSUME B # {} PROVE FALSE
    BY <2>1
  <2>3. B \in SUBSET Nat
    BY <2>1
  <2>4. PICK n \in B : \A k \in B : n <= k
    BY <2>2, <2>3, LeastOf
  <2>5. n # 0
    <3>1. PICK g : g = [m \in 0..0 |-> <<>>]
      OBVIOUS
    <3>2. G(g, 0)
      BY <3>1 DEF G
    <3> QED
      BY <2>1, <3>2
  <2>6. n - 1 \in 0..N /\ n - 1 \notin B /\ n \in 1..N
    BY <2>1, <2>4, <2>5
  <2>7. PICK g : G(g, n - 1)
    BY <2>1, <2>6
  <2>8. PICK x : x = IF n \in P THEN Append(g[n - 1], s[n]) ELSE g[n - 1]
    OBVIOUS
  <2>9. PICK h : h = [m \in 0..n |-> IF m = n THEN x ELSE g[m]]
    OBVIOUS
  <2>10. G(h, n)
    <3>1. \A m \in 0..(n - 1) : h[m] = g[m]
      BY <2>6, <2>9
    <3>2. \A m \in 0..(n - 1) : g[m] = IF m = 0 THEN <<>> ELSE IF m \in P THEN Append(g[m - 1], s[m]) ELSE g[m - 1]
      BY <2>7 DEF G
    <3>3. ASSUME NEW m \in 0..n PROVE h[m] = IF m = 0 THEN <<>> ELSE IF m \in P THEN Append(h[m - 1], s[m])
          ELSE h[m - 1]
      <4>1. CASE m = n
        BY <2>5, <2>6, <2>8, <2>9, <3>1, <4>1
      <4>2. CASE m # n
        BY <2>6, <3>1, <3>2, <4>2
      <4> QED
        BY <4>1, <4>2
    <3> QED
      BY <2>9, <3>3 DEF G
  <2> QED
    BY <2>1, <2>4, <2>10
<1>3. PICK v : G(v, N) /\ At(s, P) = v[N]
  <2>1. PICK v : v = CHOOSE g : G(g, N)
    OBVIOUS
  <2>2. G(v, N)
    BY <1>2, <2>1
  <2>3. At(s, P) = v[N]
    BY <1>1, <2>1, Zenon DEF At, G
  <2> QED
    BY <2>2, <2>3
<1>4. \A n \in 0..N : v[n] = IF n = 0 THEN <<>> ELSE IF n \in P THEN Append(v[n - 1], s[n]) ELSE v[n - 1]
  BY <1>3 DEF G
<1>5. v[0] = <<>> /\ \A n \in 1..N : v[n] = IF n \in P THEN Append(v[n - 1], s[n]) ELSE v[n - 1]
  BY <1>4
<1>6. ASSUME NEW n \in 1..N, Keeps(v[n - 1], s, P, n - 1) PROVE Keeps(v[n], s, P, n)
  <2>1. PICK j : j = n - 1 /\ j \in Nat /\ j + 1 = n /\ j + 1 \in DOMAIN s
    BY <1>1
  <2>2. Keeps(IF j + 1 \in P THEN Append(v[j], s[j + 1]) ELSE v[j], s, P, j + 1)
    BY <1>6, <2>1, KeepsNext
  <2>3. v[n] = IF n \in P THEN Append(v[n - 1], s[n]) ELSE v[n - 1]
    BY <1>5
  <2> QED
    BY <2>1, <2>2, <2>3
<1>7. \A n \in 0..N : Keeps(v[n], s, P, n)
  <2>1. PICK B : B = {n \in 0..N : ~Keeps(v[n], s, P, n)}
    OBVIOUS
  <2>2. SUFFICES ASSUME B # {} PROVE FALSE
    BY <2>1
  <2>3. B \in SUBSET Nat
    BY <2>1
  <2>4. PICK n \in B : \A k \in B : n <= k
    BY <2>2, <2>3, LeastOf
  <2>5. Keeps(v[0], s, P, 0)
    BY <1>5, NoElements DEF Keeps
  <2>6. n \in 1..N /\ n - 1 \in 0..N /\ n - 1 \notin B
    BY <2>1, <2>4, <2>5
  <2>7. Keeps(v[n - 1], s, P, n - 1)
    BY <2>1, <2>6
  <2>8. Keeps(v[n], s, P, n)
    BY <1>6, <2>6, <2>7
  <2> QED
    BY <2>1, <2>4, <2>8
<1> QED
  BY <1>1, <1>3, <1>7

-----------------------------------------------------------------------------
(* The stated keys *)

IsRow(r) == r = [id |-> r.id, assoc |-> r.assoc, arbiter |-> r.arbiter, group |-> r.group]

\* What is stored of key k, as r: an association the user confirmed is fixed,
\* and only a key that is not dated is fixed otherwise.
RowOK(k, r) ==
    /\ IsRow(r) /\ r.id \in Nat
    /\ r.id = 0 => r.assoc = "none"
    /\ r.arbiter = "user" => r.assoc = "fixed"
    /\ r.assoc = "fixed" => r.arbiter = "user" \/ statesCurrency(Key[k]) \/ datedTicker(Key[k]) = NoTicker

\* Every key that is stored has an id of its own.
RowsOK(db) == /\ db = [k \in Keys |-> db[k]] /\ \A k \in Keys : RowOK(k, db[k])
              /\ \A j, k \in Keys : j # k /\ db[j].id # 0 => db[j].id # db[k].id

(* A finite set of numbers that are listed is bounded. *)
LEMMA Bounded ==
    ASSUME NEW K, IsFiniteSet(K), NEW f, \A k \in K : f[k] \in Nat
    PROVE  \E B \in Nat : \A k \in K : f[k] <= B
<1>0. PICK N \in Nat : ExistsBijection(1..N, K)
  BY FS_CardinalityType
<1>1. PICK b : b \in Bijection(1..N, K)
  BY <1>0 DEF ExistsBijection
<1>2. (\A i \in 1..N : b[i] \in K) /\ \A k \in K : \E i \in 1..N : b[i] = k
  BY <1>1 DEF Bijection, Injection, Surjection
<1> DEFINE Low(n) == \E B \in Nat : \A i \in 1..n : f[b[i]] <= B
<1>3. Low(0)
  <2>1. \A i \in 1..0 : f[b[i]] <= 0
    OBVIOUS
  <2> QED
    BY <2>1
<1>4. ASSUME NEW n \in 1..N, Low(n - 1) PROVE Low(n)
  <2>1. PICK B \in Nat : \A i \in 1..(n - 1) : f[b[i]] <= B
    BY <1>4
  <2>2. PICK c \in Nat : c = f[b[n]]
    BY <1>2
  <2>3. PICK C \in Nat : B <= C /\ c <= C
    OBVIOUS
  <2>4. ASSUME NEW i \in 1..n PROVE f[b[i]] <= C
    <3>1. CASE i = n
      BY <2>2, <2>3, <3>1
    <3>2. CASE i # n
      <4>1. i \in 1..(n - 1) /\ i \in 1..N
        BY <3>2
      <4>2. f[b[i]] \in Nat /\ f[b[i]] <= B
        BY <1>2, <2>1, <4>1
      <4> QED
        BY <2>3, <4>2
    <3> QED
      BY <3>1, <3>2
  <2> QED
    BY <2>4
<1> HIDE DEF Low
<1>5. \A n \in 0..N : Low(n)
  <2>1. PICK A : A = {n \in 0..N : ~Low(n)}
    OBVIOUS
  <2>2. SUFFICES ASSUME A # {} PROVE FALSE
    BY <2>1
  <2>3. A \in SUBSET Nat
    BY <2>1
  <2>4. PICK n \in A : \A k \in A : n <= k
    BY <2>2, <2>3, LeastOf
  <2>5. n \in 1..N /\ n - 1 \in 0..N /\ n - 1 \notin A
    BY <1>3, <2>1, <2>4
  <2> QED
    BY <1>4, <2>1, <2>4, <2>5
<1>6. PICK B \in Nat : \A i \in 1..N : f[b[i]] <= B
  BY <1>5 DEF Low
<1> QED
  BY <1>2, <1>6

(* Some numbers below a bound have a greatest. *)
LEMMA GreatestOf ==
    ASSUME NEW S \in SUBSET Nat, S # {}, NEW B \in Nat, \A x \in S : x <= B
    PROVE  Max(S) \in S /\ \A x \in S : x <= Max(S)
<1>1. PICK T : T = {B - x : x \in S}
  OBVIOUS
<1>2. T \in SUBSET Nat /\ T # {}
  <2>1. \A x \in S : B - x \in Nat
    OBVIOUS
  <2> QED
    BY <1>1, <2>1
<1>3. PICK m \in T : \A k \in T : m <= k
  BY <1>2, LeastOf
<1>4. PICK x \in S : m = B - x
  BY <1>1, <1>3
<1>5. ASSUME NEW y \in S PROVE x >= y
  <2>1. B - y \in T
    BY <1>1
  <2>2. B - x <= B - y
    BY <1>3, <1>4, <2>1
  <2>3. x \in Nat /\ y \in Nat
    OBVIOUS
  <2> QED
    BY <2>2, <2>3
<1>6. Max(S) = CHOOSE z \in S : \A y \in S : z >= y
  BY DEF Max
<1>7. Max(S) \in S /\ \A y \in S : Max(S) >= y
  BY <1>4, <1>5, <1>6
<1> QED
  BY <1>7

(* The greatest id of the stored rows. *)
LEMMA LastId ==
    ASSUME NEW db, RowsOK(db), NEW K, K \subseteq Keys
    PROVE  LET last == Max({0} \cup {db[k].id : k \in K})
           IN  last \in Nat /\ \A k \in K : db[k].id <= last
<1>1. PICK f : f = [k \in Keys |-> db[k].id]
  OBVIOUS
<1>2. \A k \in Keys : f[k] \in Nat
  BY <1>1 DEF RowsOK, RowOK
<1>3. PICK B \in Nat : \A k \in Keys : f[k] <= B
  BY <1>2, Bounded, KeysAssumption
<1>4. PICK S : S = {0} \cup {db[k].id : k \in K}
  OBVIOUS
<1>5. S \in SUBSET Nat /\ S # {} /\ \A x \in S : x <= B
  BY <1>1, <1>2, <1>3, <1>4
<1>6. Max(S) \in S /\ \A x \in S : x <= Max(S)
  BY <1>5, GreatestOf
<1> QED
  BY <1>4, <1>5, <1>6

\* The rows d are those of db, with ids for more keys: those for which Q.
More(db, d, Q) ==
    /\ RowsOK(d)
    /\ \A k \in Keys : d[k].assoc = db[k].assoc /\ d[k].arbiter = db[k].arbiter /\ d[k].group = db[k].group
    /\ \A k \in Keys : db[k].id # 0 => d[k].id = db[k].id
    /\ \A k \in Keys : d[k].id # 0 <=> db[k].id # 0 \/ k \in Q

(* A key stated before keeps its row, another is added (stmt.go, Create;    *)
(* UpsertStatedKeys).                                                       *)
LEMMA UpsertedIs ==
    ASSUME NEW db, RowsOK(db), NEW k \in Keys
    PROVE  More(db, Upserted(db, k), {k})
<1>1. CASE db[k].id # 0
  BY <1>1 DEF Upserted, More
<1>2. CASE db[k].id = 0
  <2>1. PICK S : S = {db[j].id : j \in Keys}
    OBVIOUS
  <2>2. PICK f : f = [j \in Keys |-> db[j].id]
    OBVIOUS
  <2>3. \A j \in Keys : f[j] \in Nat
    BY <2>2 DEF RowsOK, RowOK
  <2>4. PICK B \in Nat : \A j \in Keys : f[j] <= B
    BY <2>3, Bounded, KeysAssumption
  <2>5. S \in SUBSET Nat /\ S # {} /\ \A x \in S : x <= B
    BY <2>1, <2>2, <2>3, <2>4
  <2>6. PICK m \in Nat : m = Max(S) /\ \A x \in S : x <= m
    BY <2>5, GreatestOf
  <2>7. PICK r0, r : r0 = db[k] /\ r = [r0 EXCEPT !.id = m + 1]
    OBVIOUS
  <2>8. PICK d : d = [db EXCEPT ![k] = r]
    OBVIOUS
  <2>9. d = Upserted(db, k)
    BY <1>2, <2>1, <2>6, <2>7, <2>8 DEF Upserted, RowsOK
  <2>10. RowOK(k, r0)
    BY <2>7 DEF RowsOK
  <2>11. IsRow(r) /\ r.id = m + 1 /\ r.assoc = r0.assoc /\ r.arbiter = r0.arbiter /\ r.group = r0.group
    BY <2>7, <2>10 DEF RowOK, IsRow
  <2>12. RowOK(k, r)
    BY <2>10, <2>11 DEF RowOK
  <2>13. d = [j \in Keys |-> d[j]] /\ d[k] = r /\ \A j \in Keys : j # k => d[j] = db[j]
    BY <2>8 DEF RowsOK
  <2>14. \A j \in Keys : db[j].id \in Nat /\ db[j].id <= m
    BY <2>1, <2>5, <2>6
  <2>15. \A i, j \in Keys : i # j /\ d[i].id # 0 => d[i].id # d[j].id
    <3>1. \A j \in Keys : j # k => d[j].id \in Nat /\ d[j].id <= m
      BY <2>13, <2>14
    <3>2. \A j \in Keys : j # k => d[j].id # m + 1
      BY <3>1
    <3>3. \A i, j \in Keys : i # j /\ db[i].id # 0 => db[i].id # db[j].id
      BY DEF RowsOK
    <3> QED
      BY <2>11, <2>13, <3>2, <3>3
  <2>16. RowsOK(d)
    BY <2>12, <2>13, <2>15 DEF RowsOK
  <2>17. m + 1 # 0
    BY <2>6
  <2>18. More(db, d, {k})
    BY <1>2, <2>7, <2>11, <2>13, <2>16, <2>17 DEF More
  <2> QED
    BY <2>9, <2>18
<1> QED
  BY <1>1, <1>2

\* The first n keys of ks have been added.
Added(db, d, ks, n) == More(db, d, {ks[i] : i \in 1..n})

(* Each key of ks is stored, and no other is added (UpsertStatedKeys). *)
LEMMA UpsertIs ==
    ASSUME NEW db, RowsOK(db), NEW ks, IsList(ks), \A n \in DOMAIN ks : ks[n] \in Keys
    PROVE  Added(db, UpsertStatedKeys(db, ks), ks, Len(ks))
<1>1. PICK N \in Nat : N = Len(ks) /\ DOMAIN ks = 1..N
  BY DEF IsList
<1> DEFINE G(g, n) == g = [m \in 0..n |-> IF m = 0 THEN db ELSE Upserted(g[m - 1], ks[m])]
<1> HIDE DEF G
<1>2. \E g : G(g, N)
  <2>1. PICK B : B = {n \in 0..N : ~\E g : G(g, n)}
    OBVIOUS
  <2>2. SUFFICES ASSUME B # {} PROVE FALSE
    BY <2>1
  <2>3. B \in SUBSET Nat
    BY <2>1
  <2>4. PICK n \in B : \A k \in B : n <= k
    BY <2>2, <2>3, LeastOf
  <2>5. n # 0
    <3>1. PICK g : g = [m \in 0..0 |-> db]
      OBVIOUS
    <3>2. G(g, 0)
      BY <3>1 DEF G
    <3> QED
      BY <2>1, <3>2
  <2>6. n - 1 \in 0..N /\ n - 1 \notin B /\ n \in 1..N
    BY <2>1, <2>4, <2>5
  <2>7. PICK g : G(g, n - 1)
    BY <2>1, <2>6
  <2>8. PICK x : x = Upserted(g[n - 1], ks[n])
    OBVIOUS
  <2>9. PICK h : h = [m \in 0..n |-> IF m = n THEN x ELSE g[m]]
    OBVIOUS
  <2>10. G(h, n)
    <3>1. \A m \in 0..(n - 1) : h[m] = g[m]
      BY <2>6, <2>9
    <3>2. \A m \in 0..(n - 1) : g[m] = IF m = 0 THEN db ELSE Upserted(g[m - 1], ks[m])
      BY <2>7 DEF G
    <3>3. ASSUME NEW m \in 0..n PROVE h[m] = IF m = 0 THEN db ELSE Upserted(h[m - 1], ks[m])
      <4>1. CASE m = n
        BY <2>5, <2>6, <2>8, <2>9, <3>1, <4>1
      <4>2. CASE m # n
        BY <2>6, <3>1, <3>2, <4>2
      <4> QED
        BY <4>1, <4>2
    <3> QED
      BY <2>9, <3>3 DEF G
  <2> QED
    BY <2>1, <2>4, <2>10
<1>3. PICK v : G(v, N) /\ UpsertStatedKeys(db, ks) = v[N]
  <2>1. PICK v : v = CHOOSE g : G(g, N)
    OBVIOUS
  <2>2. G(v, N)
    BY <1>2, <2>1
  <2>3. UpsertStatedKeys(db, ks) = v[N]
    BY <1>1, <2>1, Zenon DEF UpsertStatedKeys, G
  <2> QED
    BY <2>2, <2>3
<1>4. \A n \in 0..N : v[n] = IF n = 0 THEN db ELSE Upserted(v[n - 1], ks[n])
  BY <1>3 DEF G
<1>5. v[0] = db /\ \A n \in 1..N : v[n] = Upserted(v[n - 1], ks[n])
  BY <1>4
<1>6. ASSUME NEW n \in 1..N, Added(db, v[n - 1], ks, n - 1) PROVE Added(db, v[n], ks, n)
  <2>1. PICK d, k : d = v[n - 1] /\ k = ks[n] /\ k \in Keys
    BY <1>1
  <2>2. v[n] = Upserted(d, k) /\ More(db, d, {ks[i] : i \in 1..(n - 1)})
    BY <1>5, <1>6, <2>1 DEF Added
  <2>3. More(d, Upserted(d, k), {k})
    BY <2>1, <2>2, UpsertedIs DEF More
  <2>4. \A j : j \in {ks[i] : i \in 1..n} <=> j \in {ks[i] : i \in 1..(n - 1)} \/ j = k
    <3>1. \A i \in 1..n : i \in 1..(n - 1) \/ i = n
      BY <1>1
    <3>2. n \in 1..n /\ 1..(n - 1) \subseteq 1..n
      BY <1>1
    <3> QED
      BY <2>1, <3>1, <3>2
  <2> QED
    BY <2>2, <2>3, <2>4 DEF More, Added
<1>7. \A n \in 0..N : Added(db, v[n], ks, n)
  <2>1. PICK B : B = {n \in 0..N : ~Added(db, v[n], ks, n)}
    OBVIOUS
  <2>2. SUFFICES ASSUME B # {} PROVE FALSE
    BY <2>1
  <2>3. B \in SUBSET Nat
    BY <2>1
  <2>4. PICK n \in B : \A k \in B : n <= k
    BY <2>2, <2>3, LeastOf
  <2>5. Added(db, v[0], ks, 0)
    BY <1>5 DEF More, Added
  <2>6. n \in 1..N /\ n - 1 \in 0..N /\ n - 1 \notin B
    BY <2>1, <2>4, <2>5
  <2>7. Added(db, v[n - 1], ks, n - 1)
    BY <2>1, <2>6
  <2>8. Added(db, v[n], ks, n)
    BY <1>6, <2>6, <2>7
  <2> QED
    BY <2>1, <2>4, <2>8
<1> QED
  BY <1>1, <1>3, <1>7

\* The list todo names every key of ks once read in db, and no others.
Reading(todo, db, ks) ==
    /\ IsList(todo)
    /\ \A n \in DOMAIN todo : \E m \in DOMAIN ks : todo[n] = <<ks[m], db[ks[m]].assoc = "dated">>
    /\ \A m \in DOMAIN ks : \E n \in DOMAIN todo : todo[n] = <<ks[m], db[ks[m]].assoc = "dated">>

(* Keys that are stated several times are resolved, once (resolve.go). *)
LEMMA ToResolveIs ==
    ASSUME NEW db, NEW ks, IsList(ks)
    PROVE  Reading(ToResolve(db, ks), db, ks)
<1>1. PICK P, once : /\ P = {n \in DOMAIN ks : \A m \in 1..(n - 1) : ks[m] # ks[n]}
                     /\ once = At(ks, P)
  OBVIOUS
<1>2. Keeps(once, ks, P, Len(ks)) /\ DOMAIN ks = 1..Len(ks) /\ Len(ks) \in Nat
  BY <1>1, AtIs DEF IsList
<1>3. PICK todo : todo = [n \in DOMAIN once |-> <<once[n], db[once[n]].assoc = "dated">>]
  OBVIOUS
<1>4. todo = ToResolve(db, ks)
  BY <1>1, <1>3 DEF ToResolve
<1>5. IsList(todo) /\ DOMAIN todo = DOMAIN once
  BY <1>2, <1>3 DEF Keeps, IsList
<1>6. \A n \in DOMAIN todo : \E m \in DOMAIN ks : todo[n] = <<ks[m], db[ks[m]].assoc = "dated">>
  BY <1>2, <1>3, <1>5 DEF Keeps
<1>7. ASSUME NEW m \in DOMAIN ks PROVE \E n \in DOMAIN todo : todo[n] = <<ks[m], db[ks[m]].assoc = "dated">>
  <2>1. PICK T : T = {i \in DOMAIN ks : ks[i] = ks[m]}
    OBVIOUS
  <2>2. T \in SUBSET Nat /\ T # {}
    BY <1>2, <2>1
  <2>3. PICK i \in T : \A j \in T : i <= j
    BY <2>2, LeastOf
  <2>4. i \in P
    <3>1. \A j \in 1..(i - 1) : j \in DOMAIN ks /\ ~(i <= j)
      BY <1>2, <2>1
    <3> QED
      BY <1>1, <2>1, <2>3, <3>1
  <2>5. i \in P \cap (1..Len(ks)) /\ ks[i] = ks[m]
    BY <1>2, <2>1, <2>4
  <2>6. PICK n \in DOMAIN once : once[n] = ks[m]
    BY <1>2, <2>5 DEF Keeps
  <2> QED
    BY <1>3, <1>5, <2>6
<1> QED
  BY <1>4, <1>5, <1>6, <1>7 DEF Reading

(* A statement resolves the keys that are not fixed (stmt.go, prepare). *)
LEMMA UnresolvedIs ==
    ASSUME NEW db, NEW ks, IsList(ks)
    PROVE  \E us : /\ Reading(Unresolved(db, ks), db, us) /\ IsList(us)
                   /\ \A n \in DOMAIN us : \E m \in DOMAIN ks : us[n] = ks[m]
                   /\ \A m \in DOMAIN ks : db[ks[m]].assoc # "fixed" => \E n \in DOMAIN us : us[n] = ks[m]
<1>1. PICK P, us : P = {n \in DOMAIN ks : db[ks[n]].assoc # "fixed"} /\ us = At(ks, P)
  OBVIOUS
<1>2. Keeps(us, ks, P, Len(ks)) /\ DOMAIN ks = 1..Len(ks)
  BY <1>1, AtIs DEF IsList
<1>3. Unresolved(db, ks) = ToResolve(db, us)
  BY <1>1, Zenon DEF Unresolved
<1>4. Reading(Unresolved(db, ks), db, us)
  BY <1>2, <1>3, ToResolveIs DEF Keeps
<1> QED
  BY <1>1, <1>2, <1>4 DEF Keeps

\* The list u holds the keys of ks with ids up to n.
Lists(u, ks, n) == /\ IsList(u) /\ \A k \in DOMAIN u : u[k] \in ks
                   /\ \A k \in ks : rows[k].id \in 1..n => \E i \in DOMAIN u : u[i] = k

(* One more id is looked at. *)
LEMMA ListsNext ==
    ASSUME RowsOK(rows), NEW ks, ks \subseteq Keys, NEW u, NEW n \in Nat, n # 0, Lists(u, ks, n - 1)
    PROVE  Lists(IF \E k \in ks : rows[k].id = n THEN Append(u, CHOOSE k \in ks : rows[k].id = n) ELSE u, ks, n)
<1>1. \A k \in ks : rows[k].id \in 1..n => rows[k].id \in 1..(n - 1) \/ rows[k].id = n
  OBVIOUS
<1>2. CASE \E k \in ks : rows[k].id = n
  <2>1. PICK c : c = CHOOSE k \in ks : rows[k].id = n
    OBVIOUS
  <2>2. c \in ks /\ rows[c].id = n
    BY <1>2, <2>1
  <2>3. \A k \in ks : rows[k].id = n => k = c
    BY <2>2 DEF RowsOK
  <2>4. PICK v : v = Append(u, c)
    OBVIOUS
  <2>5. /\ IsList(v) /\ DOMAIN u = 1..Len(u) /\ DOMAIN v = 1..(Len(u) + 1) /\ Len(u) \in Nat
        /\ \A k \in DOMAIN u : v[k] = u[k]
        /\ v[Len(u) + 1] = c
    BY <2>4, Appended DEF Lists, IsList
  <2>6. /\ \A k \in DOMAIN v : k \in DOMAIN u \/ k = Len(u) + 1
        /\ Len(u) + 1 \in DOMAIN v /\ DOMAIN u \subseteq DOMAIN v
    BY <2>5
  <2>7. \A k \in DOMAIN v : v[k] \in ks
    BY <2>2, <2>5, <2>6 DEF Lists
  <2>8. \A k \in ks : rows[k].id \in 1..n => \E i \in DOMAIN v : v[i] = k
    BY <1>1, <2>3, <2>5, <2>6 DEF Lists
  <2>9. Lists(v, ks, n)
    BY <2>5, <2>7, <2>8 DEF Lists
  <2> QED
    BY <1>2, <2>1, <2>4, <2>9
<1>3. CASE ~\E k \in ks : rows[k].id = n
  BY <1>1, <1>3 DEF Lists
<1> QED
  BY <1>2, <1>3

(* The stored keys of ks in the order of their ids are all of them. *)
LEMMA InOrderIs ==
    ASSUME RowsOK(rows), NEW ks, ks \subseteq Keys, \A k \in ks : rows[k].id # 0
    PROVE  /\ IsList(InOrder(ks)) /\ \A n \in DOMAIN InOrder(ks) : InOrder(ks)[n] \in ks
           /\ \A k \in ks : \E n \in DOMAIN InOrder(ks) : InOrder(ks)[n] = k
<1>0. PICK N \in Nat : N = Max({0} \cup {rows[k].id : k \in ks}) /\ \A k \in ks : rows[k].id <= N
  BY LastId
<1>1. \A k \in ks : rows[k].id \in 1..N
  <2>1. \A k \in ks : rows[k].id \in Nat
    BY DEF RowsOK, RowOK
  <2>2. ASSUME NEW k \in ks PROVE rows[k].id \in 1..N
    <3>1. PICK i \in Nat : i = rows[k].id
      BY <2>1
    <3>2. i # 0 /\ i <= N
      BY <1>0, <3>1
    <3> QED
      BY <3>1, <3>2
  <2> QED
    BY <2>2
<1> DEFINE G(g, n) == g = [m \in 0..n |-> IF m = 0 THEN <<>>
      ELSE IF \E k \in ks : rows[k].id = m THEN Append(g[m - 1], CHOOSE k \in ks : rows[k].id = m) ELSE g[m - 1]]
<1> HIDE DEF G
<1>2. \E g : G(g, N)
  <2>1. PICK B : B = {n \in 0..N : ~\E g : G(g, n)}
    OBVIOUS
  <2>2. SUFFICES ASSUME B # {} PROVE FALSE
    BY <2>1
  <2>3. B \in SUBSET Nat
    BY <2>1
  <2>4. PICK n \in B : \A k \in B : n <= k
    BY <2>2, <2>3, LeastOf
  <2>5. n # 0
    <3>1. PICK g : g = [m \in 0..0 |-> <<>>]
      OBVIOUS
    <3>2. G(g, 0)
      BY <3>1 DEF G
    <3> QED
      BY <2>1, <3>2
  <2>6. n - 1 \in 0..N /\ n - 1 \notin B /\ n \in 1..N
    BY <2>1, <2>4, <2>5
  <2>7. PICK g : G(g, n - 1)
    BY <2>1, <2>6
  <2>8. PICK x : x = IF \E k \in ks : rows[k].id = n THEN Append(g[n - 1], CHOOSE k \in ks : rows[k].id = n)
        ELSE g[n - 1]
    OBVIOUS
  <2>9. PICK h : h = [m \in 0..n |-> IF m = n THEN x ELSE g[m]]
    OBVIOUS
  <2>10. G(h, n)
    <3>1. \A m \in 0..(n - 1) : h[m] = g[m]
      BY <2>6, <2>9
    <3>2. \A m \in 0..(n - 1) : g[m] = IF m = 0 THEN <<>>
          ELSE IF \E k \in ks : rows[k].id = m THEN Append(g[m - 1], CHOOSE k \in ks : rows[k].id = m) ELSE g[m - 1]
      BY <2>7 DEF G
    <3>3. ASSUME NEW m \in 0..n PROVE h[m] = IF m = 0 THEN <<>>
          ELSE IF \E k \in ks : rows[k].id = m THEN Append(h[m - 1], CHOOSE k \in ks : rows[k].id = m) ELSE h[m - 1]
      <4>1. CASE m = n
        BY <2>5, <2>6, <2>8, <2>9, <3>1, <4>1
      <4>2. CASE m # n
        BY <2>6, <3>1, <3>2, <4>2
      <4> QED
        BY <4>1, <4>2
    <3> QED
      BY <2>9, <3>3 DEF G
  <2> QED
    BY <2>1, <2>4, <2>10
<1>3. PICK v : G(v, N) /\ InOrder(ks) = v[N]
  <2>1. PICK v : v = CHOOSE g : G(g, N)
    OBVIOUS
  <2>2. G(v, N)
    BY <1>2, <2>1
  <2>3. InOrder(ks) = v[N]
    BY <1>0, <2>1, Zenon DEF InOrder, G
  <2> QED
    BY <2>2, <2>3
<1>4. \A n \in 0..N : v[n] = IF n = 0 THEN <<>>
      ELSE IF \E k \in ks : rows[k].id = n THEN Append(v[n - 1], CHOOSE k \in ks : rows[k].id = n) ELSE v[n - 1]
  BY <1>3 DEF G
<1>5. v[0] = <<>> /\ \A n \in 1..N : v[n] = IF \E k \in ks : rows[k].id = n THEN Append(v[n - 1], CHOOSE k \in ks : rows[k].id = n) ELSE v[n - 1]
  BY <1>4
<1>6. ASSUME NEW n \in 1..N, Lists(v[n - 1], ks, n - 1) PROVE Lists(v[n], ks, n)
  <2>1. PICK u : u = v[n - 1]
    OBVIOUS
  <2>2. n \in Nat /\ n # 0 /\ Lists(u, ks, n - 1)
    BY <1>1, <1>6, <2>1
  <2>3. Lists(IF \E k \in ks : rows[k].id = n THEN Append(u, CHOOSE k \in ks : rows[k].id = n) ELSE u, ks, n)
    BY <2>2, ListsNext
  <2>4. v[n] = IF \E k \in ks : rows[k].id = n THEN Append(u, CHOOSE k \in ks : rows[k].id = n) ELSE u
    BY <1>5, <2>1
  <2> QED
    BY <2>3, <2>4
<1>7. \A n \in 0..N : Lists(v[n], ks, n)
  <2>1. PICK B : B = {n \in 0..N : ~Lists(v[n], ks, n)}
    OBVIOUS
  <2>2. SUFFICES ASSUME B # {} PROVE FALSE
    BY <2>1
  <2>3. B \in SUBSET Nat
    BY <2>1
  <2>4. PICK n \in B : \A k \in B : n <= k
    BY <2>2, <2>3, LeastOf
  <2>5. Lists(v[0], ks, 0)
    BY <1>5, NoElements DEF Lists
  <2>6. n \in 1..N /\ n - 1 \in 0..N /\ n - 1 \notin B
    BY <2>1, <2>4, <2>5
  <2>7. Lists(v[n - 1], ks, n - 1)
    BY <2>1, <2>6
  <2>8. Lists(v[n], ks, n)
    BY <1>6, <2>6, <2>7
  <2> QED
    BY <2>1, <2>4, <2>8
<1>8. Lists(v[N], ks, N)
  BY <1>1, <1>7
<1> QED
  BY <1>1, <1>3, <1>8 DEF Lists


(* What an upload states: keys of its user, among them those of its         *)
(* accepted rows (stmt.go, validate).                                       *)
LEMMA StatedIs ==
    ASSUME NEW u \in Uploads
    PROVE  /\ IsList(Stated[u])
           /\ \A n \in DOMAIN Stated[u] : Stated[u][n] \in Keys /\ Key[Stated[u][n]].user = Upload[u].user
           /\ \A r \in AcceptedRows[u] : r.key \notin CashRefused /\ \E n \in DOMAIN Stated[u] : Stated[u][n] = r.key
<1>1. PICK up : up = Upload[u]
  OBVIOUS
<1>2. PICK R, S : R = up.rows /\ S = up.splits
  OBVIOUS
<1>3. /\ IsList(R) /\ IsList(S)
      /\ \A n \in DOMAIN R : R[n].key \in Keys /\ Key[R[n].key].user = up.user
      /\ \A n \in DOMAIN S : S[n] \in Keys /\ Key[S[n]].user = up.user
  BY <1>1, <1>2, UploadsAssumption DEF IsList, Range
<1>4. PICK P, V : P = {n \in DOMAIN R : validate(up, R[n])} /\ V = At(R, P)
  OBVIOUS
<1>5. Keeps(V, R, P, Len(R)) /\ DOMAIN R = 1..Len(R)
  BY <1>3, <1>4, AtIs DEF IsList
<1>6. PICK K : K = [n \in DOMAIN V |-> V[n].key]
  OBVIOUS
<1>7. IsList(K) /\ DOMAIN K = DOMAIN V
  BY <1>5, <1>6 DEF Keeps, IsList
<1>8. V = ValidRows(up)
  BY <1>2, <1>4 DEF ValidRows
<1>9. Stated[u] = K \o S
  BY <1>1, <1>2, <1>6, <1>8 DEF Stated
<1>10. PICK A : A = K \o S
  OBVIOUS
<1>11. /\ IsList(A)
       /\ \A n \in DOMAIN A : (\E k \in DOMAIN K : A[n] = K[k]) \/ \E k \in DOMAIN S : A[n] = S[k]
       /\ \A k \in DOMAIN K : k \in DOMAIN A /\ A[k] = K[k]
  BY <1>3, <1>7, <1>10 DEF IsList
<1>12. \A n \in DOMAIN K : \E m \in DOMAIN R : K[n] = R[m].key
  BY <1>5, <1>6, <1>7 DEF Keeps
<1>13. \A n \in DOMAIN A : A[n] \in Keys /\ Key[A[n]].user = up.user
  BY <1>3, <1>11, <1>12
<1>14. ASSUME NEW r \in AcceptedRows[u] PROVE r.key \notin CashRefused /\ \E n \in DOMAIN A : A[n] = r.key
  <2>1. r \in Range(R) /\ validate(up, r) /\ r.key \notin CashRefused
    BY <1>1, <1>2, <1>14 DEF AcceptedRows
  <2>2. PICK m \in DOMAIN R : R[m] = r
    BY <2>1 DEF Range
  <2>3. m \in P \cap (1..Len(R))
    BY <1>4, <1>5, <2>1, <2>2
  <2>4. PICK n \in DOMAIN V : V[n] = r
    BY <1>5, <2>2, <2>3 DEF Keeps
  <2>5. K[n] = r.key
    BY <1>6, <2>4
  <2> QED
    BY <1>7, <1>11, <2>1, <2>4, <2>5
<1> QED
  BY <1>1, <1>9, <1>10, <1>11, <1>13, <1>14

-----------------------------------------------------------------------------
(* Groups *)

\* A set of keys that holds all that share a joining identifier with one in it.
Closed(S) == \A i \in S : \A l \in Keys : Share(i, l) => l \in S

(* What is connected with k is in every closed set that holds it. *)
LEMMA ConnectedIs ==
    ASSUME NEW j \in Keys, NEW k \in Keys
    PROVE  j \in Connected[k] <=> \A S \in SUBSET Keys : k \in S /\ Closed(S) => j \in S
BY DEF Connected, Closed

(* Connected keys are connected both ways. *)
LEMMA ConnectedBack ==
    ASSUME NEW j \in Keys, NEW k \in Keys, j \in Connected[k]
    PROVE  k \in Connected[j]
<1>1. SUFFICES ASSUME NEW S \in SUBSET Keys, j \in S, Closed(S), k \notin S PROVE FALSE
  BY ConnectedIs
<1>2. PICK T : T = Keys \ S
  OBVIOUS
<1>3. \A i, l \in Keys : Share(i, l) => Share(l, i)
  BY DEF Share
<1>4. Closed(T)
  BY <1>1, <1>2, <1>3 DEF Closed
<1> QED
  BY <1>1, <1>2, <1>4, ConnectedIs

(* Keys connected to connected keys. *)
LEMMA ConnectedOn ==
    ASSUME NEW i \in Keys, NEW j \in Keys, NEW k \in Keys, i \in Connected[j], j \in Connected[k]
    PROVE  i \in Connected[k]
BY ConnectedIs

(* A key is connected with itself and with those it shares one with. *)
LEMMA ConnectedFirst ==
    ASSUME NEW k \in Keys
    PROVE  k \in Connected[k] /\ \A j \in Keys : Share(k, j) => j \in Connected[k]
<1>1. k \in Connected[k]
  BY ConnectedIs
<1>2. ASSUME NEW j \in Keys, Share(k, j) PROVE j \in Connected[k]
  BY <1>2, ConnectedIs DEF Closed
<1> QED
  BY <1>1, <1>2

\* A parent of each key, among the keys ks: an earlier key that it is
\* connected with, or itself.
Forest(p, ks) ==
    /\ p = [k \in Keys |-> p[k]]
    /\ \A k \in Keys : /\ p[k] \in Keys /\ (p[k] = k \/ rows[p[k]].id < rows[k].id)
                       /\ k \in Connected[p[k]]
                       /\ k \in ks => p[k] \in ks
                       /\ k \notin ks => p[k] = k

(* The recursion of find ends, since the ids of parents decrease (group.go, *)
(* find).                                                                   *)
LEMMA FindIs ==
    ASSUME RowsOK(rows), NEW ks, NEW p, Forest(p, ks), NEW k \in Keys
    PROVE  find(p, k) = IF p[k] = k THEN k ELSE find(p, p[k])
<1>1. PICK B \in Nat : \A j \in Keys : rows[j].id <= B
  BY LastId
<1>2. \A j \in Keys : rows[j].id \in Nat /\ p[j] \in Keys /\ (p[j] = j \/ rows[p[j]].id < rows[j].id)
  BY DEF RowsOK, RowOK, Forest
<1> DEFINE G(f) == f = [j \in Keys |-> IF p[j] = j THEN j ELSE f[p[j]]]
<1> DEFINE H(f, n) == \A j \in Keys : rows[j].id <= n => f[j] = IF p[j] = j THEN j ELSE f[p[j]]
<1> HIDE DEF G, H
<1>3. \A n \in 0..B : \E f : H(f, n)
  <2>1. PICK A : A = {n \in 0..B : ~\E f : H(f, n)}
    OBVIOUS
  <2>2. SUFFICES ASSUME A # {} PROVE FALSE
    BY <2>1
  <2>3. A \in SUBSET Nat
    BY <2>1
  <2>4. PICK n \in A : \A m \in A : n <= m
    BY <2>2, <2>3, LeastOf
  <2>5. n \in 0..B
    BY <2>1
  <2>6. PICK f : \A j \in Keys : rows[j].id < n => f[j] = IF p[j] = j THEN j ELSE f[p[j]]
    <3>1. CASE n = 0
      <4>1. \A j \in Keys : ~(rows[j].id < n)
        BY <1>2, <3>1
      <4> QED
        BY <4>1
    <3>2. CASE n # 0
      <4>1. n - 1 \in 0..B /\ n - 1 \notin A
        BY <2>4, <2>5, <3>2
      <4>2. PICK f : H(f, n - 1)
        BY <2>1, <4>1
      <4>3. \A j \in Keys : rows[j].id < n => rows[j].id <= n - 1
        BY <1>2, <2>5
      <4> QED
        BY <4>2, <4>3 DEF H
    <3> QED
      BY <3>1, <3>2
  <2>7. PICK h : h = [j \in Keys |-> IF rows[j].id < n THEN f[j] ELSE IF p[j] = j THEN j ELSE f[p[j]]]
    OBVIOUS
  <2>8. ASSUME NEW j \in Keys, rows[j].id <= n PROVE h[j] = IF p[j] = j THEN j ELSE h[p[j]]
    <3>1. h[j] = IF p[j] = j THEN j ELSE f[p[j]]
      BY <2>6, <2>7
    <3>2. CASE p[j] = j
      BY <3>1, <3>2
    <3>3. CASE p[j] # j
      <4>1. PICK i \in Keys : i = p[j] /\ rows[i].id < rows[j].id
        BY <1>2, <3>3
      <4>2. rows[i].id < n
        BY <1>2, <2>5, <2>8, <4>1
      <4>3. h[i] = f[i]
        BY <2>7, <4>2
      <4> QED
        BY <3>1, <3>3, <4>1, <4>3
    <3> QED
      BY <3>2, <3>3
  <2>9. H(h, n)
    BY <2>8 DEF H
  <2> QED
    BY <2>1, <2>9
<1>4. \E f : G(f)
  <2>1. PICK f : H(f, B)
    BY <1>3
  <2>2. PICK g : g = [j \in Keys |-> f[j]]
    OBVIOUS
  <2>3. \A j \in Keys : f[j] = IF p[j] = j THEN j ELSE f[p[j]]
    BY <1>1, <2>1 DEF H
  <2>4. \A j \in Keys : g[j] = IF p[j] = j THEN j ELSE g[p[j]]
    BY <1>2, <2>2, <2>3
  <2>5. G(g)
    BY <2>2, <2>4 DEF G
  <2> QED
    BY <2>5
<1>5. PICK root : root = CHOOSE f : G(f)
  OBVIOUS
<1>6. G(root)
  BY <1>4, <1>5
<1>7. \A j : find(p, j) = root[j]
  BY <1>5, Zenon DEF find, G
<1>8. \A j \in Keys : root[j] = IF p[j] = j THEN j ELSE root[p[j]]
  BY <1>6 DEF G
<1> QED
  BY <1>7, <1>8

\* r is the root of k.
RootIs(p, ks, k, r) == r \in Keys /\ p[r] = r /\ k \in Connected[r] /\ (k \in ks => r \in ks)

(* find leads to a root (group.go, find). *)
LEMMA RootOf ==
    ASSUME RowsOK(rows), NEW ks, NEW p, Forest(p, ks), NEW k \in Keys
    PROVE  RootIs(p, ks, k, find(p, k))
<1>1. PICK T : T = {n \in Nat : \E j \in Keys : rows[j].id = n /\ ~RootIs(p, ks, j, find(p, j))}
  OBVIOUS
<1>2. \A j \in Keys : rows[j].id \in Nat
  BY DEF RowsOK, RowOK
<1>3. SUFFICES ASSUME T # {} PROVE FALSE
  BY <1>1, <1>2
<1>4. T \in SUBSET Nat
  BY <1>1
<1>5. PICK n \in T : \A m \in T : n <= m
  BY <1>3, <1>4, LeastOf
<1>6. PICK j \in Keys : rows[j].id = n /\ ~RootIs(p, ks, j, find(p, j))
  BY <1>1
<1>7. /\ p[j] \in Keys /\ (p[j] = j \/ rows[p[j]].id < rows[j].id) /\ j \in Connected[p[j]]
      /\ j \in ks => p[j] \in ks
  BY DEF Forest
<1>8. find(p, j) = IF p[j] = j THEN j ELSE find(p, p[j])
  BY FindIs
<1>9. CASE p[j] = j
  BY <1>6, <1>7, <1>8, <1>9 DEF RootIs
<1>10. CASE p[j] # j
  <2>1. PICK i \in Keys : i = p[j]
    BY <1>7
  <2>2. rows[i].id \in Nat /\ rows[i].id < n /\ n \in Nat
    BY <1>2, <1>4, <1>6, <1>7, <1>10, <2>1
  <2>3. rows[i].id \notin T
    BY <1>5, <2>2
  <2>4. RootIs(p, ks, i, find(p, i))
    BY <1>1, <2>2, <2>3
  <2>5. PICK r : r = find(p, i)
    OBVIOUS
  <2>6. r \in Keys /\ i \in Connected[r] /\ j \in Connected[i]
    BY <1>7, <2>1, <2>4, <2>5 DEF RootIs
  <2>7. j \in Connected[r]
    BY <2>6, ConnectedOn
  <2>8. RootIs(p, ks, j, r)
    BY <1>7, <2>1, <2>4, <2>5, <2>7 DEF RootIs
  <2> QED
    BY <1>6, <1>8, <1>10, <2>1, <2>5, <2>8
<1> QED
  BY <1>9, <1>10

\* The roots w and l of connected keys, w the earlier.
Links(p, w, l) == p[w] = w /\ p[l] = l /\ (w = l \/ rows[w].id < rows[l].id) /\ l \in Connected[w]

Beneath(p, w, l) == [p EXCEPT ![l] = w]

(* A root is put beneath another: the keys of its component find that one,  *)
(* and every other key finds what it did.                                   *)
LEMMA LinkIs ==
    ASSUME RowsOK(rows), NEW ks, ks \subseteq Keys, NEW p, Forest(p, ks), NEW w \in ks, NEW l \in ks,
           Links(p, w, l), NEW q, q = Beneath(p, w, l)
    PROVE  Forest(q, ks) /\ \A k \in Keys : find(q, k) = IF find(p, k) = l THEN w ELSE find(p, k)
<1>0. p[w] = w /\ p[l] = l /\ (w = l \/ rows[w].id < rows[l].id) /\ l \in Connected[w]
  BY DEF Links
<1>1. q = [k \in Keys |-> q[k]] /\ q[l] = w /\ \A k \in Keys : k # l => q[k] = p[k]
  BY DEF Forest, Beneath
<1>2. \A k \in Keys : /\ p[k] \in Keys /\ (p[k] = k \/ rows[p[k]].id < rows[k].id)
                      /\ k \in Connected[p[k]]
                      /\ k \in ks => p[k] \in ks
                      /\ k \notin ks => p[k] = k
  BY DEF Forest
<1>3. ASSUME NEW k \in Keys
      PROVE  /\ q[k] \in Keys /\ (q[k] = k \/ rows[q[k]].id < rows[k].id)
             /\ k \in Connected[q[k]]
             /\ k \in ks => q[k] \in ks
             /\ k \notin ks => q[k] = k
  <2>1. CASE k = l
    BY <1>0, <1>1, <2>1
  <2>2. CASE k # l
    BY <1>1, <1>2, <2>2
  <2> QED
    BY <2>1, <2>2
<1>4. Forest(q, ks)
  BY <1>1, <1>3 DEF Forest
<1>5. \A k \in Keys : find(p, k) = IF p[k] = k THEN k ELSE find(p, p[k])
  BY FindIs
<1>6. \A k \in Keys : find(q, k) = IF q[k] = k THEN k ELSE find(q, q[k])
  BY <1>4, FindIs
<1>7. find(p, w) = w /\ find(p, l) = l
  BY <1>0, <1>5
<1>8. find(q, w) = w /\ find(q, l) = w
  <2>1. q[w] = w
    BY <1>0, <1>1
  <2>2. find(q, w) = w
    BY <1>6, <2>1
  <2>3. find(q, l) = IF q[l] = l THEN l ELSE find(q, q[l])
    BY <1>6
  <2> QED
    BY <1>1, <2>2, <2>3
<1> DEFINE As(k) == find(q, k) = IF find(p, k) = l THEN w ELSE find(p, k)
<1>9. As(w) /\ As(l)
  BY <1>7, <1>8
<1>10. ASSUME NEW j \in Keys, p[j] # j => As(p[j]) PROVE As(j)
  <2>1. CASE j = l
    BY <1>9, <2>1
  <2>2. CASE j # l
    <3>1. q[j] = p[j]
      BY <1>1, <2>2
    <3>2. CASE p[j] = j
      <4>1. find(p, j) = j
        BY <1>5, <3>2
      <4>2. find(q, j) = j
        BY <1>6, <3>1, <3>2
      <4> QED
        BY <2>2, <4>1, <4>2
    <3>3. CASE p[j] # j
      <4>1. find(p, j) = find(p, p[j])
        BY <1>5, <3>3
      <4>2. find(q, j) = find(q, p[j])
        BY <1>6, <3>1, <3>3
      <4> QED
        BY <1>10, <3>3, <4>1, <4>2
    <3> QED
      BY <3>2, <3>3
  <2> QED
    BY <2>1, <2>2
<1> HIDE DEF As
<1>11. \A k \in Keys : As(k)
  <2>1. PICK T : T = {n \in Nat : \E j \in Keys : rows[j].id = n /\ ~As(j)}
    OBVIOUS
  <2>2. \A j \in Keys : rows[j].id \in Nat
    BY DEF RowsOK, RowOK
  <2>3. SUFFICES ASSUME T # {} PROVE FALSE
    BY <2>1, <2>2
  <2>4. T \in SUBSET Nat
    BY <2>1
  <2>5. PICK n \in T : \A m \in T : n <= m
    BY <2>3, <2>4, LeastOf
  <2>6. PICK j \in Keys : rows[j].id = n /\ ~As(j)
    BY <2>1
  <2>7. p[j] # j
    BY <1>10, <2>6
  <2>8. PICK i \in Keys : i = p[j] /\ rows[i].id < rows[j].id
    BY <1>2, <2>7
  <2>9. rows[i].id \in Nat /\ rows[i].id < n /\ n \in Nat
    BY <2>2, <2>4, <2>6, <2>8
  <2>10. rows[i].id \notin T
    BY <2>5, <2>9
  <2>11. As(i)
    BY <2>1, <2>9, <2>10
  <2> QED
    BY <1>10, <2>6, <2>8, <2>11
<1> QED
  BY <1>4, <1>11 DEF As

\* What q finds for two keys is the same whenever what p found was.
Coarser(p, q) == \A j, k \in Keys : find(p, j) = find(p, k) => find(q, j) = find(q, k)

(* Two connected keys are joined (group.go, union). *)
LEMMA UnionIs ==
    ASSUME RowsOK(rows), NEW ks, ks \subseteq Keys, \A k \in ks : rows[k].id # 0, NEW p, Forest(p, ks),
           NEW a \in ks, NEW b \in ks, b \in Connected[a]
    PROVE  /\ Forest(union(p, a, b), ks) /\ Coarser(p, union(p, a, b))
           /\ find(union(p, a, b), a) = find(union(p, a, b), b)
<1>1. PICK ra, rb : ra = find(p, a) /\ rb = find(p, b)
  OBVIOUS
<1>2. RootIs(p, ks, a, ra) /\ RootIs(p, ks, b, rb)
  BY <1>1, RootOf
<1>3. /\ ra \in ks /\ rb \in ks /\ ra \in Keys /\ rb \in Keys /\ a \in Keys /\ b \in Keys
      /\ p[ra] = ra /\ p[rb] = rb /\ a \in Connected[ra] /\ b \in Connected[rb]
  BY <1>2 DEF RootIs
<1>4. rb \in Connected[ra] /\ ra \in Connected[rb]
  <2>1. b \in Connected[ra]
    BY <1>3, ConnectedOn
  <2>2. rb \in Connected[b]
    BY <1>3, ConnectedBack
  <2>3. rb \in Connected[ra]
    BY <1>3, <2>1, <2>2, ConnectedOn
  <2> QED
    BY <1>3, <2>3, ConnectedBack
<1>5. rows[ra].id \in Nat /\ rows[rb].id \in Nat /\ (ra # rb => rows[ra].id # rows[rb].id)
  BY <1>3 DEF RowsOK, RowOK
<1>6. CASE rows[ra].id < rows[rb].id
  <2>1. PICK q : q = Beneath(p, ra, rb)
    OBVIOUS
  <2>2. union(p, a, b) = q
    BY <1>1, <1>6, <2>1 DEF union, Beneath
  <2>3. Forest(q, ks) /\ \A k \in Keys : find(q, k) = IF find(p, k) = rb THEN ra ELSE find(p, k)
    <3>1. Links(p, ra, rb)
      BY <1>3, <1>4, <1>6 DEF Links
    <3> QED
      BY <1>3, <2>1, <3>1, LinkIs
  <2>4. Coarser(p, q)
    BY <2>3 DEF Coarser
  <2>5. find(q, a) = find(q, b)
    BY <1>1, <1>3, <2>3
  <2> QED
    BY <2>2, <2>3, <2>4, <2>5
<1>7. CASE ~(rows[ra].id < rows[rb].id)
  <2>1. PICK q : q = Beneath(p, rb, ra)
    OBVIOUS
  <2>2. union(p, a, b) = q
    BY <1>1, <1>7, <2>1 DEF union, Beneath
  <2>3. rb = ra \/ rows[rb].id < rows[ra].id
    BY <1>5, <1>7
  <2>4. Forest(q, ks) /\ \A k \in Keys : find(q, k) = IF find(p, k) = ra THEN rb ELSE find(p, k)
    <3>1. Links(p, rb, ra)
      BY <1>3, <1>4, <2>3 DEF Links
    <3> QED
      BY <1>3, <2>1, <3>1, LinkIs
  <2>5. Coarser(p, q)
    BY <2>4 DEF Coarser
  <2>6. find(q, a) = find(q, b)
    BY <1>1, <1>3, <2>4
  <2> QED
    BY <2>2, <2>4, <2>5, <2>6
<1> QED
  BY <1>6, <1>7

\* The keys ks of one user are being joined, s being what of has built.
Grouping(s, ks) ==
    /\ s = [parent |-> s.parent, first |-> s.first] /\ Forest(s.parent, ks)
    /\ \A i \in DOMAIN s.first : s.first[i] \in ks /\ i \in Key[s.first[i]].ids /\ Joining(i)

\* The key k is joined with the first that stated id.
Joined(s, id, k) == id \in DOMAIN s.first /\ find(s.parent, k) = find(s.parent, s.first[id])

\* What was joined in s is joined in t.
Further(s, t, ks) == \A i : \A k \in ks : Joined(s, i, k) => Joined(t, i, k)

\* Stored keys of one user.
OfOneUser(ks) == /\ ks \subseteq Keys /\ \A k \in ks : rows[k].id # 0
                 /\ \A j, k \in ks : Key[j].user = Key[k].user

(* A key is joined with the first that stated one of its identifiers        *)
(* (group.go, of).                                                          *)
LEMMA JoinIs ==
    ASSUME RowsOK(rows), NEW ks, OfOneUser(ks), NEW s, Grouping(s, ks),
           NEW k \in ks, NEW id \in Key[k].ids, Joining(id)
    PROVE  Grouping(join(s, id, k), ks) /\ Further(s, join(s, id, k), ks) /\ Joined(join(s, id, k), id, k)
<1>0. ks \subseteq Keys /\ k \in Keys
  BY DEF OfOneUser
<1>1. PICK p, f : p = s.parent /\ f = s.first
  OBVIOUS
<1>2. s = [parent |-> p, first |-> f] /\ Forest(p, ks) /\ \A i \in DOMAIN f : f[i] \in ks /\ i \in Key[f[i]].ids /\ Joining(i)
  BY <1>1 DEF Grouping
<1>3. CASE id \in DOMAIN f
  <2>1. PICK a \in ks : a = f[id] /\ id \in Key[a].ids
    BY <1>2, <1>3
  <2>2. a \in Keys /\ Share(a, k)
    BY <2>1, <1>0 DEF OfOneUser, Share
  <2>3. k \in Connected[a]
    BY <1>0, <2>2, ConnectedFirst
  <2>4. PICK q : q = union(p, a, k)
    OBVIOUS
  <2>5. Forest(q, ks) /\ Coarser(p, q) /\ find(q, a) = find(q, k)
    BY <1>2, <2>3, <2>4, UnionIs DEF OfOneUser
  <2>6. PICK t : t = [parent |-> q, first |-> f]
    OBVIOUS
  <2>7. join(s, id, k) = t
    BY <1>2, <1>3, <2>1, <2>4, <2>6 DEF join
  <2>8. t.parent = q /\ t.first = f
    BY <2>6
  <2>9. Grouping(t, ks)
    BY <1>2, <2>5, <2>6, <2>8 DEF Grouping
  <2>10. Joined(t, id, k)
    BY <1>3, <2>1, <2>5, <2>8 DEF Joined
  <2>11. ASSUME NEW i, NEW j \in ks, Joined(s, i, j) PROVE Joined(t, i, j)
    <3>1. i \in DOMAIN f /\ f[i] \in Keys /\ j \in Keys /\ find(p, j) = find(p, f[i])
      BY <1>0, <1>1, <1>2, <2>11 DEF Joined
    <3> QED
      BY <2>5, <2>8, <3>1 DEF Joined, Coarser
  <2>12. Further(s, t, ks)
    BY <2>11 DEF Further
  <2> QED
    BY <2>7, <2>9, <2>10, <2>12
<1>4. CASE id \notin DOMAIN f
  <2>1. PICK g : g = [i \in DOMAIN f \cup {id} |-> IF i = id THEN k ELSE f[i]]
    OBVIOUS
  <2>2. PICK t : t = [parent |-> p, first |-> g]
    OBVIOUS
  <2>3. join(s, id, k) = t
    BY <1>2, <1>4, <2>1, <2>2 DEF join
  <2>4. t.parent = p /\ t.first = g
    BY <2>2
  <2>5. DOMAIN g = DOMAIN f \cup {id} /\ g[id] = k /\ \A i \in DOMAIN f : g[i] = f[i]
    BY <1>4, <2>1
  <2>6. Grouping(t, ks)
    BY <1>2, <2>2, <2>4, <2>5 DEF Grouping
  <2>7. Joined(t, id, k)
    BY <2>4, <2>5 DEF Joined
  <2>8. Further(s, t, ks)
    BY <1>1, <2>4, <2>5 DEF Further, Joined
  <2> QED
    BY <2>3, <2>6, <2>7, <2>8
<1> QED
  BY <1>1, <1>3, <1>4

(* A finite set as a list. *)
LEMMA SetToSeqIs ==
    ASSUME NEW S, IsFiniteSet(S)
    PROVE  /\ IsList(SetToSeq(S)) /\ \A n \in DOMAIN SetToSeq(S) : SetToSeq(S)[n] \in S
           /\ \A x \in S : \E n \in DOMAIN SetToSeq(S) : SetToSeq(S)[n] = x
<1>1. PICK N \in Nat : N = Cardinality(S)
  BY FS_CardinalityType
<1>2. PICK f : f = SetToSeq(S)
  OBVIOUS
<1>3. f \in [1..N -> S] /\ IsInjective(f)
  <2>1. PICK b : b \in Bijection(1..N, S)
    BY <1>1, FS_CardinalityType DEF ExistsBijection
  <2>2. b \in [1..N -> S] /\ IsInjective(b)
    BY <2>1 DEF Bijection, Injection, IsInjective
  <2>3. f = CHOOSE g \in [1..N -> S] : IsInjective(g)
    BY <1>1, <1>2 DEF SetToSeq
  <2> QED
    BY <2>2, <2>3
<1>4. DOMAIN f = 1..N
  BY <1>3
<1>5. f \in Injection(1..N, S)
  BY <1>3, <1>4 DEF Injection, IsInjective
<1>6. Cardinality(1..N) = N
  BY FS_Interval
<1>7. f \in Surjection(1..N, S)
  BY <1>1, <1>5, <1>6, FS_Injection
<1>8. \A x \in S : \E n \in 1..N : f[n] = x
  BY <1>7 DEF Surjection
<1>9. Len(f) = N
  BY <1>3
<1> QED
  BY <1>2, <1>3, <1>4, <1>8, <1>9 DEF IsList

\* From s, the first n of the identifiers ids of key k are joined in t.
Along(s, t, ks, k, ids, n) ==
    Grouping(t, ks) /\ Further(s, t, ks) /\ \A m \in 1..n : Joined(t, ids[m], k)

\* From s, every joining identifier of key k is joined in t.
KeyJoined(s, t, ks, k) ==
    Grouping(t, ks) /\ Further(s, t, ks) /\ \A i \in Key[k].ids : Joining(i) => Joined(t, i, k)

(* The identifiers of a key in turn (group.go, of). *)
LEMMA JoinKeyIs ==
    ASSUME RowsOK(rows), NEW ks, OfOneUser(ks), NEW s, Grouping(s, ks), NEW k \in ks
    PROVE  KeyJoined(s, joinKey(s, k), ks, k)
<1>0. PICK S, ids : S = {i \in Key[k].ids : Joining(i)} /\ ids = SetToSeq(S)
  OBVIOUS
<1>a. IsFiniteSet(S)
  <2>1. IsFiniteSet(Key[k].ids) /\ S \in SUBSET Key[k].ids
    BY <1>0, KeysAssumption DEF OfOneUser
  <2> QED
    BY <2>1, FS_Subset
<1>b. IsList(ids) /\ (\A n \in DOMAIN ids : ids[n] \in S) /\ \A i \in S : \E n \in DOMAIN ids : ids[n] = i
  BY <1>0, <1>a, SetToSeqIs
<1>1. PICK N \in Nat : N = Len(ids) /\ DOMAIN ids = 1..N
  BY <1>b DEF IsList
<1> DEFINE G(g, n) == g = [m \in 0..n |-> IF m = 0 THEN s ELSE join(g[m - 1], ids[m], k)]
<1> HIDE DEF G
<1>2. \E g : G(g, N)
  <2>1. PICK B : B = {n \in 0..N : ~\E g : G(g, n)}
    OBVIOUS
  <2>2. SUFFICES ASSUME B # {} PROVE FALSE
    BY <2>1
  <2>3. B \in SUBSET Nat
    BY <2>1
  <2>4. PICK n \in B : \A i \in B : n <= i
    BY <2>2, <2>3, LeastOf
  <2>5. n # 0
    <3>1. PICK g : g = [m \in 0..0 |-> s]
      OBVIOUS
    <3>2. G(g, 0)
      BY <3>1 DEF G
    <3> QED
      BY <2>1, <3>2
  <2>6. n - 1 \in 0..N /\ n - 1 \notin B /\ n \in 1..N
    BY <2>1, <2>4, <2>5
  <2>7. PICK g : G(g, n - 1)
    BY <2>1, <2>6
  <2>8. PICK x : x = join(g[n - 1], ids[n], k)
    OBVIOUS
  <2>9. PICK h : h = [m \in 0..n |-> IF m = n THEN x ELSE g[m]]
    OBVIOUS
  <2>10. G(h, n)
    <3>1. \A m \in 0..(n - 1) : h[m] = g[m]
      BY <2>6, <2>9
    <3>2. \A m \in 0..(n - 1) : g[m] = IF m = 0 THEN s ELSE join(g[m - 1], ids[m], k)
      BY <2>7 DEF G
    <3>3. ASSUME NEW m \in 0..n PROVE h[m] = IF m = 0 THEN s ELSE join(h[m - 1], ids[m], k)
      <4>1. CASE m = n
        BY <2>5, <2>6, <2>8, <2>9, <3>1, <4>1
      <4>2. CASE m # n
        BY <2>6, <3>1, <3>2, <4>2
      <4> QED
        BY <4>1, <4>2
    <3> QED
      BY <2>9, <3>3 DEF G
  <2> QED
    BY <2>1, <2>4, <2>10
<1>3. PICK v : G(v, N) /\ joinKey(s, k) = v[N]
  <2>1. PICK v : v = CHOOSE g : G(g, N)
    OBVIOUS
  <2>2. G(v, N)
    BY <1>2, <2>1
  <2>3. joinKey(s, k) = v[N]
    BY <1>0, <1>1, <2>1, Zenon DEF joinKey, G
  <2> QED
    BY <2>2, <2>3
<1>4. \A n \in 0..N : v[n] = IF n = 0 THEN s ELSE join(v[n - 1], ids[n], k)
  BY <1>3 DEF G
<1>5. v[0] = s /\ \A n \in 1..N : v[n] = join(v[n - 1], ids[n], k)
  BY <1>4
<1>6. ASSUME NEW n \in 1..N, Along(s, v[n - 1], ks, k, ids, n - 1) PROVE Along(s, v[n], ks, k, ids, n)
  <2>1. PICK t, i : t = v[n - 1] /\ i = ids[n] /\ i \in Key[k].ids /\ Joining(i)
    BY <1>0, <1>b, <1>1
  <2>2. v[n] = join(t, i, k) /\ Along(s, t, ks, k, ids, n - 1)
    BY <1>5, <1>6, <2>1
  <2>3. PICK u : u = v[n]
    OBVIOUS
  <2>4. Grouping(u, ks) /\ Further(t, u, ks) /\ Joined(u, i, k)
    BY <2>1, <2>2, <2>3, JoinIs DEF Along
  <2>5. \A m \in 1..n : m \in 1..(n - 1) \/ m = n
    BY <1>1
  <2>6. \A m \in 1..n : Joined(u, ids[m], k)
    BY <2>1, <2>2, <2>4, <2>5 DEF Along, Further
  <2>7. Further(s, u, ks)
    BY <2>2, <2>4 DEF Along, Further
  <2> QED
    BY <2>3, <2>4, <2>6, <2>7 DEF Along
<1>7. \A n \in 0..N : Along(s, v[n], ks, k, ids, n)
  <2>1. PICK B : B = {n \in 0..N : ~Along(s, v[n], ks, k, ids, n)}
    OBVIOUS
  <2>2. SUFFICES ASSUME B # {} PROVE FALSE
    BY <2>1
  <2>3. B \in SUBSET Nat
    BY <2>1
  <2>4. PICK n \in B : \A i \in B : n <= i
    BY <2>2, <2>3, LeastOf
  <2>5. Along(s, v[0], ks, k, ids, 0)
    BY <1>5 DEF Along, Further
  <2>6. n \in 1..N /\ n - 1 \in 0..N /\ n - 1 \notin B
    BY <2>1, <2>4, <2>5
  <2>7. Along(s, v[n - 1], ks, k, ids, n - 1)
    BY <2>1, <2>6
  <2>8. Along(s, v[n], ks, k, ids, n)
    BY <1>6, <2>6, <2>7
  <2> QED
    BY <2>1, <2>4, <2>8
<1>8. Along(s, v[N], ks, k, ids, N)
  BY <1>1, <1>7
<1>9. \A i \in Key[k].ids : Joining(i) => \E m \in 1..N : ids[m] = i
  BY <1>0, <1>b, <1>1
<1>10. KeyJoined(s, v[N], ks, k)
  BY <1>8, <1>9 DEF Along, KeyJoined
<1> QED
  BY <1>3, <1>10


\* The first n of the keys of list l are joined in t.
Through(t, ks, l, n) ==
    Grouping(t, ks) /\ \A m \in 1..n : \A i \in Key[l[m]].ids : Joining(i) => Joined(t, i, l[m])

(* The keys in turn. *)
LEMMA JoinKeysIs ==
    ASSUME RowsOK(rows), NEW ks, OfOneUser(ks), NEW l, IsList(l), \A n \in DOMAIN l : l[n] \in ks
    PROVE  Through(joinKeys(l), ks, l, Len(l))
<1>1. PICK N \in Nat : N = Len(l) /\ DOMAIN l = 1..N
  BY DEF IsList
<1>a. PICK s0 : s0 = [parent |-> [k \in Keys |-> k], first |-> <<>>] /\ Grouping(s0, ks)
  <2>1. PICK p : p = [k \in Keys |-> k]
    OBVIOUS
  <2>2. Forest(p, ks)
    BY <2>1, ConnectedFirst DEF Forest, OfOneUser
  <2>3. PICK s0 : s0 = [parent |-> p, first |-> <<>>]
    OBVIOUS
  <2>4. s0.parent = p /\ s0.first = <<>>
    BY <2>3
  <2>5. Grouping(s0, ks)
    BY <2>2, <2>3, <2>4, NoElements DEF Grouping
  <2> QED
    BY <2>1, <2>3, <2>5
<1> DEFINE G(g, n) == g = [m \in 0..n |-> IF m = 0 THEN [parent |-> [k \in Keys |-> k], first |-> <<>>]
      ELSE joinKey(g[m - 1], l[m])]
<1> HIDE DEF G
<1>2. \E g : G(g, N)
  <2>1. PICK B : B = {n \in 0..N : ~\E g : G(g, n)}
    OBVIOUS
  <2>2. SUFFICES ASSUME B # {} PROVE FALSE
    BY <2>1
  <2>3. B \in SUBSET Nat
    BY <2>1
  <2>4. PICK n \in B : \A k \in B : n <= k
    BY <2>2, <2>3, LeastOf
  <2>5. n # 0
    <3>1. PICK g : g = [m \in 0..0 |-> [parent |-> [k \in Keys |-> k], first |-> <<>>]]
      OBVIOUS
    <3>2. G(g, 0)
      BY <3>1 DEF G
    <3> QED
      BY <2>1, <3>2
  <2>6. n - 1 \in 0..N /\ n - 1 \notin B /\ n \in 1..N
    BY <2>1, <2>4, <2>5
  <2>7. PICK g : G(g, n - 1)
    BY <2>1, <2>6
  <2>8. PICK x : x = joinKey(g[n - 1], l[n])
    OBVIOUS
  <2>9. PICK h : h = [m \in 0..n |-> IF m = n THEN x ELSE g[m]]
    OBVIOUS
  <2>10. G(h, n)
    <3>1. \A m \in 0..(n - 1) : h[m] = g[m]
      BY <2>6, <2>9
    <3>2. \A m \in 0..(n - 1) : g[m] = IF m = 0 THEN [parent |-> [k \in Keys |-> k], first |-> <<>>]
          ELSE joinKey(g[m - 1], l[m])
      BY <2>7 DEF G
    <3>3. ASSUME NEW m \in 0..n PROVE h[m] = IF m = 0 THEN [parent |-> [k \in Keys |-> k], first |-> <<>>]
          ELSE joinKey(h[m - 1], l[m])
      <4>1. CASE m = n
        BY <2>5, <2>6, <2>8, <2>9, <3>1, <4>1
      <4>2. CASE m # n
        BY <2>6, <3>1, <3>2, <4>2
      <4> QED
        BY <4>1, <4>2
    <3> QED
      BY <2>9, <3>3 DEF G
  <2> QED
    BY <2>1, <2>4, <2>10
<1>3. PICK v : G(v, N) /\ joinKeys(l) = v[N]
  <2>1. PICK v : v = CHOOSE g : G(g, N)
    OBVIOUS
  <2>2. G(v, N)
    BY <1>2, <2>1
  <2>3. joinKeys(l) = v[N]
    BY <1>1, <2>1, Zenon DEF joinKeys, G
  <2> QED
    BY <2>2, <2>3
<1>4. \A n \in 0..N : v[n] = IF n = 0 THEN [parent |-> [k \in Keys |-> k], first |-> <<>>] ELSE joinKey(v[n - 1], l[n])
  BY <1>3 DEF G
<1>5. v[0] = [parent |-> [k \in Keys |-> k], first |-> <<>>] /\ \A n \in 1..N : v[n] = joinKey(v[n - 1], l[n])
  BY <1>4
<1>6. ASSUME NEW n \in 1..N, Through(v[n - 1], ks, l, n - 1) PROVE Through(v[n], ks, l, n)
  <2>1. PICK t, k : t = v[n - 1] /\ k = l[n] /\ k \in ks
    BY <1>1
  <2>2. v[n] = joinKey(t, k) /\ Through(t, ks, l, n - 1)
    BY <1>5, <1>6, <2>1
  <2>3. PICK u : u = v[n]
    OBVIOUS
  <2>4. KeyJoined(t, u, ks, k)
    BY <2>1, <2>2, <2>3, JoinKeyIs DEF Through
  <2>5. \A m \in 1..n : m \in 1..(n - 1) \/ m = n
    BY <1>1
  <2>6. \A m \in 1..(n - 1) : l[m] \in ks
    BY <1>1
  <2>7. \A m \in 1..n : \A i \in Key[l[m]].ids : Joining(i) => Joined(u, i, l[m])
    BY <2>1, <2>2, <2>4, <2>5, <2>6 DEF Through, KeyJoined, Further
  <2> QED
    BY <2>3, <2>4, <2>7 DEF Through, KeyJoined
<1>7. \A n \in 0..N : Through(v[n], ks, l, n)
  <2>1. PICK B : B = {n \in 0..N : ~Through(v[n], ks, l, n)}
    OBVIOUS
  <2>2. SUFFICES ASSUME B # {} PROVE FALSE
    BY <2>1
  <2>3. B \in SUBSET Nat
    BY <2>1
  <2>4. PICK n \in B : \A k \in B : n <= k
    BY <2>2, <2>3, LeastOf
  <2>5. Through(v[0], ks, l, 0)
    BY <1>5, <1>a DEF Through
  <2>6. n \in 1..N /\ n - 1 \in 0..N /\ n - 1 \notin B
    BY <2>1, <2>4, <2>5
  <2>7. Through(v[n - 1], ks, l, n - 1)
    BY <2>1, <2>6
  <2>8. Through(v[n], ks, l, n)
    BY <1>6, <2>6, <2>7
  <2> QED
    BY <2>1, <2>4, <2>8
<1> QED
  BY <1>1, <1>3, <1>7


\* The groups of the keys ks.
GroupsOf(ks) == of(joinKeys(InOrder(ks)).parent, ks)

(* The group of a key is the id of a key of ks that it is connected with,   *)
(* and two that share a joining identifier have one group (group.go, of).   *)
LEMMA OfIs ==
    ASSUME RowsOK(rows), NEW ks, OfOneUser(ks)
    PROVE  /\ \A k \in ks : \E r \in ks : GroupsOf(ks)[k] = rows[r].id /\ k \in Connected[r]
           /\ \A j, k \in ks : Share(j, k) => GroupsOf(ks)[j] = GroupsOf(ks)[k]
<1>1. PICK l : l = InOrder(ks)
  OBVIOUS
<1>2. IsList(l) /\ (\A n \in DOMAIN l : l[n] \in ks) /\ \A k \in ks : \E n \in DOMAIN l : l[n] = k
  BY <1>1, InOrderIs DEF OfOneUser
<1>3. PICK t : t = joinKeys(l)
  OBVIOUS
<1>4. Through(t, ks, l, Len(l)) /\ DOMAIN l = 1..Len(l)
  BY <1>2, <1>3, JoinKeysIs DEF IsList
<1>5. PICK p : p = t.parent
  OBVIOUS
<1>6. \A k \in ks : GroupsOf(ks)[k] = rows[find(p, k)].id
  BY <1>1, <1>3, <1>5 DEF GroupsOf, of
<1>7. Forest(p, ks)
  BY <1>4, <1>5 DEF Through, Grouping
<1>8. ASSUME NEW k \in ks PROVE \E r \in ks : GroupsOf(ks)[k] = rows[r].id /\ k \in Connected[r]
  <2>1. RootIs(p, ks, k, find(p, k))
    BY <1>7, RootOf DEF OfOneUser
  <2> QED
    BY <1>6, <2>1 DEF RootIs
<1>9. ASSUME NEW j \in ks, NEW k \in ks, Share(j, k) PROVE GroupsOf(ks)[j] = GroupsOf(ks)[k]
  <2>1. PICK i \in Key[j].ids \cap Key[k].ids : Joining(i)
    BY <1>9 DEF Share
  <2>2. Joined(t, i, j) /\ Joined(t, i, k)
    BY <1>2, <1>4, <2>1 DEF Through
  <2>3. find(p, j) = find(p, k)
    BY <1>5, <2>2 DEF Joined
  <2> QED
    BY <1>6, <2>3
<1> QED
  BY <1>8, <1>9

-----------------------------------------------------------------------------
(* What each step does to the work of its run *)

\* The goroutine of run p goes on with y, the others with what they had.
Becomes(p, y) == work'[p] = y /\ \A q \in Runs : q # p => work'[q] = work[q]

\* The runs are those there were, of the same kinds and uploads.
SameRuns == Runs' = Runs /\ \A q \in Runs : runs'[q].kind = runs[q].kind /\ runs'[q].up = runs[q].up

(* A step of a goroutine adds no run, and changes none but in its state. *)
LEMMA RunsKept == ASSUME IInv, NEW p \in Runs, Step(p) PROVE SameRuns
<1>0. WorkOK(work[p], runs[p]) /\ p \in DOMAIN runs
  BY AtWork
<1>1. PICK z0 : z0 = runs[p]
  OBVIOUS
<1>2. IsRun(z0)
  BY <1>0, <1>1 DEF WorkOK
<1>3. ASSUME runs' = runs PROVE SameRuns
  BY <1>3 DEF SameRuns, Runs
<1>4. ASSUME NEW s, runs' = [runs EXCEPT ![p].state = s] PROVE SameRuns
  <2>1. PICK z : z = [z0 EXCEPT !.state = s]
    OBVIOUS
  <2>2. runs' = [runs EXCEPT ![p] = z]
    BY <1>0, <1>1, <1>4, <2>1
  <2>3. z.kind = z0.kind /\ z.up = z0.up
    BY <1>2, <2>1 DEF IsRun
  <2> QED
    BY <1>0, <1>1, <2>2, <2>3 DEF SameRuns, Runs
<1>5. ASSUME runs' = [runs EXCEPT ![p].settled = TRUE] PROVE SameRuns
  <2>1. PICK z : z = [z0 EXCEPT !.settled = TRUE]
    OBVIOUS
  <2>2. runs' = [runs EXCEPT ![p] = z]
    BY <1>0, <1>1, <1>5, <2>1
  <2>3. z.kind = z0.kind /\ z.up = z0.up
    BY <1>2, <2>1 DEF IsRun
  <2> QED
    BY <1>0, <1>1, <2>2, <2>3 DEF SameRuns, Runs
<1>6. ASSUME Fails(p) PROVE SameRuns
  <2>1. runs' = runs \/ runs' = [runs EXCEPT ![p].state = "failed"]
    BY <1>6, Zenon DEF Fails
  <2> QED
    BY <1>3, <1>4, <2>1
<1>7. ASSUME FailResolution(p) \/ FailWrite(p) PROVE SameRuns
  BY <1>6, <1>7, Zenon DEF FailResolution, FailWrite
<1>8. ASSUME Begin(p) \/ WriteConfirmed(p) \/ RefuseConfirm(p) PROVE SameRuns
  BY <1>4, <1>8, Zenon DEF Begin, WriteConfirmed, RefuseConfirm
<1>9. ASSUME Commit(p) PROVE SameRuns
  <2>1. runs' = runs \/ runs' = [runs EXCEPT ![p].state = "completed"]
    BY <1>9, Zenon DEF Commit
  <2> QED
    BY <1>3, <1>4, <2>1
<1>10. ASSUME SettleStmt(p) PROVE SameRuns
  BY <1>5, <1>10, Zenon DEF SettleStmt
<1>11. ASSUME WriteKey(p) \/ LockUserKeys(p) \/ replayFacts(p) \/ FailListing(p) \/ replayKeys(p) \/ FollowedUp(p) \/ FailSettle(p)
       PROVE  SameRuns
  <2>1. runs' = runs
    BY <1>11, Zenon DEF WriteKey, WriteOutcome, LockUserKeys, replayFacts, FailListing, replayKeys, FollowedUp, FailSettle
  <2> QED
    BY <1>3, <2>1
<1> QED
  BY <1>7, <1>8, <1>9, <1>10, <1>11, Zenon DEF Step

(* A restart leaves every run of its kind and upload. *)
LEMMA RestartRuns == ASSUME IInv, Restart PROVE SameRuns
<1>1. ASSUME NEW p \in Runs PROVE runs'[p].kind = runs[p].kind /\ runs'[p].up = runs[p].up
  <2>1. PICK z0, s : z0 = runs[p] /\ s = IF z0.state \in {"pending", "running"} THEN "interrupted" ELSE z0.state
    OBVIOUS
  <2>2. IsRun(z0)
    BY <2>1, AtWork DEF WorkOK
  <2>3. runs'[p] = [z0 EXCEPT !.state = s, !.settled = (z0.kind = "stmt")]
    BY <2>1, <2>2 DEF Restart, IsRun
  <2> QED
    BY <2>1, <2>2, <2>3 DEF IsRun
<1>2. Runs' = Runs
  BY DEF Restart, Runs
<1> QED
  BY <1>1, <1>2 DEF SameRuns

(* One run's work is replaced. *)
LEMMA BecomesIs ==
    ASSUME IInv, NEW p \in Runs, NEW y, work' = [work EXCEPT ![p] = y]
    PROVE  Becomes(p, y)
BY AtWork DEF Becomes, IInv, Shaped, Runs


(* A resolution starts. *)
LEMMA ReadsIs ==
    ASSUME NEW x, IsWork(x), NEW y, y = Reads(x)
    PROVE  /\ y.step = (IF x.todo = <<>> THEN "lock" ELSE "write")
           /\ y.user = x.user /\ y.keys = x.keys /\ y.todo = x.todo /\ y.told = {} /\ y.frames = x.frames
           /\ y.known = {k \in x.keys : datedTicker(Key[k]) \in facts}
<1>1. PICK step, known : /\ step = IF x.todo = <<>> THEN "lock" ELSE "write"
                         /\ known = {k \in x.keys : datedTicker(Key[k]) \in facts}
  OBVIOUS
<1>2. y = [x EXCEPT !.step = step, !.told = {}, !.known = known]
  BY <1>1 DEF Reads
<1> QED
  BY <1>1, <1>2 DEF IsWork

\* The run p begins, as y.
Begins(p, y) ==
    /\ Becomes(p, y)
    /\ y.step = (IF work[p].todo = <<>> THEN "lock" ELSE "write")
    /\ y.user = work[p].user /\ y.keys = work[p].keys /\ y.todo = work[p].todo /\ y.told = {}
    /\ y.frames = work[p].frames
    /\ y.known = {k \in work[p].keys : datedTicker(Key[k]) \in facts}

(* A queued run begins. *)
LEMMA BeginIs ==
    ASSUME IInv, NEW p \in Runs, Begin(p)
    PROVE  \E y : Begins(p, y)
<1>0. IsWork(work[p]) /\ p \in DOMAIN work
  BY AtWork DEF WorkOK
<1>1. PICK x, y : x = work[p] /\ y = Reads(x)
  OBVIOUS
<1>2. work' = [work EXCEPT ![p] = y]
  BY <1>0, <1>1 DEF Begin
<1>3. Becomes(p, y)
  BY <1>2, BecomesIs
<1>4. /\ y.step = (IF x.todo = <<>> THEN "lock" ELSE "write")
      /\ y.user = x.user /\ y.keys = x.keys /\ y.todo = x.todo /\ y.told = {} /\ y.frames = x.frames
      /\ y.known = {k \in x.keys : datedTicker(Key[k]) \in facts}
  BY <1>0, <1>1, ReadsIs
<1>5. Begins(p, y)
  BY <1>1, <1>3, <1>4, Zenon DEF Begins
<1> QED
  BY <1>5

\* The run p goes on with y, having resolved key k with outcome o.
Resolves(p, y, k, o) ==
    /\ k = Head(work[p].todo)[1] /\ o \in Outcomes(k, Head(work[p].todo)[2], k \in work[p].known)
    /\ rows' = [rows EXCEPT ![k] = SetAssociation(rows[k], o.assoc, o.arbiter)] /\ facts' = facts \cup o.told
    /\ Becomes(p, y)
    /\ y.step = (IF Len(work[p].todo) = 1 THEN "lock" ELSE "write")
    /\ y.user = work[p].user /\ y.keys = work[p].keys /\ y.todo = Tail(work[p].todo)
    /\ y.told = work[p].told \cup (o.told \cup o.lacked) /\ y.frames = work[p].frames /\ y.known = work[p].known

(* A key is written. *)
LEMMA WriteKeyIs ==
    ASSUME IInv, NEW p \in Runs, WriteKey(p)
    PROVE  \E y, k, o : Resolves(p, y, k, o)
<1>0. IsWork(work[p]) /\ p \in DOMAIN work
  BY AtWork DEF WorkOK
<1>1. PICK x : x = work[p]
  OBVIOUS
<1>2. PICK k, step : k = Head(x.todo)[1] /\ step = IF Len(x.todo) = 1 THEN "lock" ELSE "write"
  OBVIOUS
<1>3. PICK o : /\ o \in Outcomes(k, Head(x.todo)[2], k \in x.known)
               /\ rows' = [rows EXCEPT ![k] = SetAssociation(@, o.assoc, o.arbiter)]
               /\ facts' = facts \cup o.told
               /\ work' = [work EXCEPT ![p].todo = Tail(@), ![p].told = @ \cup o.told \cup o.lacked, ![p].step = step]
  BY <1>1, <1>2, Zenon DEF WriteKey, WriteOutcome
<1>4. PICK told : told = o.told \cup o.lacked
  OBVIOUS
<1>5. PICK y : y = [x EXCEPT !.todo = Tail(x.todo), !.told = x.told \cup told, !.step = step]
  OBVIOUS
<1>6. work' = [work EXCEPT ![p].todo = Tail(@), ![p].told = @ \cup told, ![p].step = step]
  BY <1>3, <1>4
<1>7. work' = [work EXCEPT ![p] = y]
  BY <1>0, <1>1, <1>5, <1>6
<1>8. Becomes(p, y)
  BY <1>7, BecomesIs
<1>9. /\ y.step = step /\ y.user = x.user /\ y.keys = x.keys /\ y.todo = Tail(x.todo) /\ y.told = x.told \cup told
      /\ y.frames = x.frames /\ y.known = x.known
  BY <1>0, <1>1, <1>5 DEF IsWork
<1>10. rows' = [rows EXCEPT ![k] = SetAssociation(rows[k], o.assoc, o.arbiter)]
  BY <1>3, Zenon
<1>11. Resolves(p, y, k, o)
  <2>1. k = Head(work[p].todo)[1] /\ o \in Outcomes(k, Head(work[p].todo)[2], k \in work[p].known)
    BY <1>1, <1>2, <1>3, Zenon
  <2> QED
    BY <1>1, <1>2, <1>3, <1>4, <1>8, <1>9, <1>10, <2>1, Zenon DEF Resolves
<1> QED
  BY <1>11

\* A follow-up that failed goes on with the listings it is beneath.
Unwound(x, y) == /\ x.frames = <<>> => y.step = "gone" /\ y.frames = <<>>
                 /\ x.frames # <<>> => y.step = "follow" /\ y.frames = x.frames
                 /\ y.keys = {} /\ y.known = {} /\ y.todo = <<>> /\ y.told = {}

(* A run fails, or a follow-up beneath it. *)
LEMMA FailsIs ==
    ASSUME IInv, NEW p \in Runs, Fails(p)
    PROVE  \E y : Becomes(p, y) /\ Unwound(work[p], y)
<1>0. IsWork(work[p]) /\ p \in DOMAIN work
  BY AtWork DEF WorkOK
<1>1. PICK x : x = work[p]
  OBVIOUS
<1>2. CASE x.frames = <<>>
  <2>1. PICK y : y = Gone
    OBVIOUS
  <2>2. work' = [work EXCEPT ![p] = y]
    BY <1>1, <1>2, <2>1 DEF Fails
  <2>3. y.step = "gone" /\ y.frames = <<>> /\ y.keys = {} /\ y.known = {} /\ y.todo = <<>> /\ y.told = {}
    BY <2>1 DEF Gone
  <2> QED
    BY <1>1, <1>2, <2>2, <2>3, BecomesIs DEF Unwound
<1>3. CASE x.frames # <<>>
  <2>1. PICK y0 : y0 = [x EXCEPT !.step = "follow", !.keys = {}, !.known = {}]
    OBVIOUS
  <2>2. PICK y : y = [y0 EXCEPT !.todo = <<>>, !.told = {}, !.groupable = {}]
    OBVIOUS
  <2>3. IsWork(y0) /\ y0.step = "follow" /\ y0.frames = x.frames /\ y0.keys = {} /\ y0.known = {}
    BY <1>0, <1>1, <2>1 DEF IsWork
  <2>4. y.step = "follow" /\ y.frames = x.frames /\ y.keys = {} /\ y.known = {} /\ y.todo = <<>> /\ y.told = {}
    BY <2>2, <2>3 DEF IsWork
  <2>5. work' = [work EXCEPT ![p].step = "follow", ![p].keys = {}, ![p].known = {}, ![p].todo = <<>>,
                             ![p].told = {}, ![p].groupable = {}]
    BY <1>1, <1>3 DEF Fails
  <2>6. work' = [work EXCEPT ![p] = y]
    BY <1>0, <1>1, <2>1, <2>2, <2>5
  <2> QED
    BY <1>1, <1>3, <2>4, <2>6, BecomesIs DEF Unwound
<1> QED
  BY <1>2, <1>3

\* The run p goes on with y, having fixed key k and told of tickers, of which
\* those in told got facts that name an instrument.
Confirms(p, y, k, told, tickers) ==
    /\ k \in work[p].keys /\ told \in {{}, MayTell[k]} /\ told \subseteq tickers
    /\ rows' = [rows EXCEPT ![k] = SetAssociation(rows[k], "fixed", "user")] /\ facts' = facts \cup told
    /\ Becomes(p, y) /\ y.step = "follow" /\ y.keys = {} /\ y.todo = work[p].todo /\ y.known = work[p].known
    /\ y.frames = <<[except |-> {k}, tickers |-> tickers, listed |-> {}, picked |-> {}]>>

(* A candidate is confirmed. *)
LEMMA WriteConfirmedIs ==
    ASSUME IInv, NEW p \in Runs, WriteConfirmed(p)
    PROVE  \E y, k, told, tickers : Confirms(p, y, k, told, tickers)
<1>0. IsWork(work[p]) /\ p \in DOMAIN work
  BY AtWork DEF WorkOK
<1>1. PICK x : x = work[p]
  OBVIOUS
<1>2. PICK k, told, lacked :
                     /\ k \in work[p].keys /\ told \in {{}, MayTell[k]}
                     /\ rows' = [rows EXCEPT ![k] = SetAssociation(@, "fixed", "user")]
                     /\ facts' = facts \cup told
                     /\ work' = [work EXCEPT ![p].step = "follow", ![p].keys = {},
                                 ![p].frames = <<[except |-> {k}, tickers |-> told \cup lacked, listed |-> {}, picked |-> {}]>>]
  BY Zenon DEF WriteConfirmed
<1>a. PICK tickers : tickers = told \cup lacked
  OBVIOUS
<1>b. told \subseteq tickers
  BY <1>a
<1>3. PICK e : e = [except |-> {k}, tickers |-> tickers, listed |-> {}, picked |-> {}]
  OBVIOUS
<1>4. PICK y : y = [x EXCEPT !.step = "follow", !.keys = {}, !.frames = <<e>>]
  OBVIOUS
<1>5. work' = [work EXCEPT ![p] = y]
  BY <1>0, <1>1, <1>2, <1>a, <1>3, <1>4
<1>6. y.step = "follow" /\ y.keys = {} /\ y.todo = x.todo /\ y.known = x.known /\ y.frames = <<e>>
  BY <1>0, <1>1, <1>4 DEF IsWork
<1>7. rows' = [rows EXCEPT ![k] = SetAssociation(rows[k], "fixed", "user")]
  BY <1>2, Zenon
<1>8. Becomes(p, y)
  BY <1>5, BecomesIs
<1>9. Confirms(p, y, k, told, tickers)
  BY <1>1, <1>2, <1>b, <1>3, <1>6, <1>7, <1>8, Zenon DEF Confirms
<1> QED
  BY <1>9

\* The run p goes on with y, having taken the lock.
Locks(p, y) ==
    /\ Becomes(p, y) /\ y.step = "locked" /\ y.groupable = ListGroupableKeys(p)
    /\ y.user = work[p].user /\ y.keys = work[p].keys /\ y.todo = work[p].todo
    /\ y.told = work[p].told /\ y.frames = work[p].frames /\ y.known = work[p].known

(* The key lock is taken. *)
LEMMA LockIs ==
    ASSUME IInv, NEW p \in Runs, LockUserKeys(p)
    PROVE  \E y : Locks(p, y)
<1>0. IsWork(work[p]) /\ p \in DOMAIN work
  BY AtWork DEF WorkOK
<1>1. PICK x, ks : x = work[p] /\ ks = ListGroupableKeys(p)
  OBVIOUS
<1>2. PICK y : y = [x EXCEPT !.step = "locked", !.groupable = ks]
  OBVIOUS
<1>3. work' = [work EXCEPT ![p] = y]
  BY <1>0, <1>1, <1>2 DEF LockUserKeys
<1>4. /\ y.step = "locked" /\ y.groupable = ks /\ y.user = x.user /\ y.keys = x.keys /\ y.todo = x.todo
      /\ y.told = x.told /\ y.frames = x.frames /\ y.known = x.known
  BY <1>0, <1>1, <1>2 DEF IsWork
<1>5. Becomes(p, y)
  BY <1>3, BecomesIs
<1>6. Locks(p, y)
  BY <1>1, <1>4, <1>5, Zenon DEF Locks
<1> QED
  BY <1>6

\* The run p goes on with y, to follow up what it told.
Commits(p, y) ==
    /\ Becomes(p, y) /\ y.step = "follow" /\ y.keys = {} /\ y.todo = work[p].todo /\ y.known = {}
    /\ y.frames = <<[except |-> work[p].keys, tickers |-> work[p].told, listed |-> {}, picked |-> {}]>>
                  \o Pending(work[p].frames)

(* The transaction commits. *)
LEMMA CommitIs ==
    ASSUME IInv, NEW p \in Runs, Commit(p)
    PROVE  \E y : Commits(p, y)
<1>0. IsWork(work[p]) /\ p \in DOMAIN work
  BY AtWork DEF WorkOK
<1>1. PICK x, e : x = work[p] /\ e = [except |-> work[p].keys, tickers |-> work[p].told, listed |-> {}, picked |-> {}]
  OBVIOUS
<1>a. PICK f : f = Pending(x.frames)
  OBVIOUS
<1>2. PICK g : g = <<e>> \o f
  OBVIOUS
<1>4. PICK y0 : y0 = [x EXCEPT !.step = "follow", !.keys = {}, !.known = {}]
  OBVIOUS
<1>5. PICK y : y = [y0 EXCEPT !.told = {}, !.groupable = {}, !.frames = g]
  OBVIOUS
<1>6. IsWork(y0) /\ y0.step = "follow" /\ y0.keys = {} /\ y0.known = {} /\ y0.todo = x.todo /\ y0.frames = x.frames
  BY <1>0, <1>1, <1>4 DEF IsWork
<1>7. y.step = "follow" /\ y.keys = {} /\ y.known = {} /\ y.todo = x.todo /\ y.frames = g
  BY <1>5, <1>6 DEF IsWork
<1>8. work' = [work EXCEPT ![p] = y]
  <2>1. work' = [work EXCEPT ![p].step = "follow", ![p].keys = {}, ![p].known = {}, ![p].told = {}, ![p].groupable = {},
                             ![p].frames = <<e>> \o Pending(@)]
    BY <1>1 DEF Commit
  <2> QED
    BY <1>0, <1>1, <1>a, <1>2, <1>4, <1>5, <1>6, <2>1 DEF IsWork
<1>9. Becomes(p, y)
  BY <1>8, BecomesIs
<1>10. Commits(p, y)
  BY <1>1, <1>a, <1>2, <1>7, <1>9, Zenon DEF Commits
<1> QED
  BY <1>10

\* The run p goes on with its first listing as e, at the step s.
Relists(p, y, e) == /\ Becomes(p, y)
                    /\ y.step = work[p].step /\ y.keys = work[p].keys /\ y.todo = work[p].todo /\ y.known = work[p].known
                    /\ y.told = work[p].told /\ y.frames = [work[p].frames EXCEPT ![1] = e]

(* The first listing is replaced. *)
LEMMA RelistsIs ==
    ASSUME IInv, NEW p \in Runs, NEW e, work' = [work EXCEPT ![p].frames[1] = e]
    PROVE  \E y : Relists(p, y, e)
<1>0. IsWork(work[p]) /\ p \in DOMAIN work
  BY AtWork DEF WorkOK
<1>1. PICK x : x = work[p]
  OBVIOUS
<1>2. PICK g : g = [x.frames EXCEPT ![1] = e]
  OBVIOUS
<1>6. PICK y : y = [x EXCEPT !.frames = g]
  OBVIOUS
<1>7. work' = [work EXCEPT ![p] = y]
  BY <1>0, <1>1, <1>2, <1>6
<1>8. y.step = x.step /\ y.keys = x.keys /\ y.todo = x.todo /\ y.known = x.known /\ y.told = x.told /\ y.frames = g
  BY <1>0, <1>1, <1>6 DEF IsWork
<1> QED
  BY <1>1, <1>2, <1>7, <1>8, BecomesIs DEF Relists

\* The run p goes on with y, having listed the keys L that state ticker t.
ListsKeys(p, y, t, f, L) ==
    /\ f = Top(p) /\ f.listed = {} /\ t \in f.tickers /\ L = ListUnassociatedKeysStating(t, f)
    /\ excused' = excused \cup {k \in f.except \cup InFlight : States(k, t)}
    /\ Relists(p, y, [f EXCEPT !.tickers = @ \ {t}, !.listed = L \ f.picked, !.picked = @ \cup L])

(* Keys are listed. *)
LEMMA ListIs ==
    ASSUME IInv, NEW p \in Runs, replayFacts(p)
    PROVE  \E y, t, f, L : ListsKeys(p, y, t, f, L)
<1>1. PICK f : f = Top(p)
  OBVIOUS
<1>2. PICK t : /\ t \in f.tickers /\ f.listed = {}
               /\ work' = [work EXCEPT ![p].frames[1] =
                                [f EXCEPT !.tickers = @ \ {t}, !.listed = ListUnassociatedKeysStating(t, f) \ f.picked,
                                          !.picked = @ \cup ListUnassociatedKeysStating(t, f)]]
               /\ excused' = excused \cup {k \in f.except \cup InFlight : States(k, t)}
  BY <1>1, Zenon DEF replayFacts
<1>3. PICK L : L = ListUnassociatedKeysStating(t, f)
  OBVIOUS
<1>4. PICK e : e = [f EXCEPT !.tickers = @ \ {t}, !.listed = L \ f.picked, !.picked = @ \cup L]
  OBVIOUS
<1>5. work' = [work EXCEPT ![p].frames[1] = e]
  BY <1>2, <1>3, <1>4
<1>6. PICK y : Relists(p, y, e)
  BY <1>5, RelistsIs
<1>7. ListsKeys(p, y, t, f, L)
  BY <1>1, <1>2, <1>3, <1>4, <1>6, Zenon DEF ListsKeys
<1> QED
  BY <1>7

\* The run p goes on with y, not having listed the keys that state t.
ListsNone(p, y, t, f) ==
    /\ f = Top(p) /\ f.listed = {} /\ t \in f.tickers
    /\ excused' = excused \cup {k \in Keys : States(k, t)}
    /\ Relists(p, y, [f EXCEPT !.tickers = @ \ {t}])

(* Listing them fails. *)
LEMMA FailListingIs ==
    ASSUME IInv, NEW p \in Runs, FailListing(p)
    PROVE  \E y, t, f : ListsNone(p, y, t, f)
<1>1. PICK f : f = Top(p)
  OBVIOUS
<1>2. PICK t : /\ t \in f.tickers /\ f.listed = {}
               /\ work' = [work EXCEPT ![p].frames[1] = [f EXCEPT !.tickers = @ \ {t}]]
               /\ excused' = excused \cup {k \in Keys : States(k, t)}
  BY <1>1, Zenon DEF FailListing
<1>4. PICK e : e = [f EXCEPT !.tickers = @ \ {t}]
  OBVIOUS
<1>5. work' = [work EXCEPT ![p].frames[1] = e]
  BY <1>2, <1>4
<1>6. PICK y : Relists(p, y, e)
  BY <1>5, RelistsIs
<1>7. ListsNone(p, y, t, f)
  BY <1>1, <1>2, <1>4, <1>6, Zenon DEF ListsNone
<1> QED
  BY <1>7

\* The run p goes on with y, a replay of the keys ks of user u that the
\* listing f of p holds.
Replays(p, y, u, f, ks) ==
    /\ f = Top(p) /\ u \in {Key[k].user : k \in f.listed} /\ ks = {k \in f.listed : Key[k].user = u}
    /\ Becomes(p, y) /\ y.todo = ToResolve(rows, InOrder(ks)) /\ y.step = (IF y.todo = <<>> THEN "lock" ELSE "write")
    /\ y.user = u /\ y.keys = ks /\ y.told = {}
    /\ y.frames = [work[p].frames EXCEPT ![1] = [f EXCEPT !.listed = @ \ ks]]
    /\ y.known = {k \in ks : datedTicker(Key[k]) \in facts}

(* The listed keys of one user are replayed. *)
LEMMA ReplayKeysIs ==
    ASSUME IInv, NEW p \in Runs, replayKeys(p)
    PROVE  \E y, u, f, ks : Replays(p, y, u, f, ks)
<1>0. IsWork(work[p]) /\ p \in DOMAIN work
  BY AtWork DEF WorkOK
<1>1. PICK x, f : x = work[p] /\ f = Top(p)
  OBVIOUS
<1>2. PICK u, ks : /\ u \in {Key[k].user : k \in f.listed} /\ ks = {k \in f.listed : Key[k].user = u}
                   /\ work' = [work EXCEPT ![p] = Reads([@ EXCEPT !.user = u, !.keys = ks, !.todo = ToResolve(rows, InOrder(ks)),
                                        !.frames[1] = [f EXCEPT !.listed = @ \ ks]])]
  BY <1>1, Zenon DEF replayKeys
<1>3. PICK todo, e : todo = ToResolve(rows, InOrder(ks)) /\ e = [f EXCEPT !.listed = @ \ ks]
  OBVIOUS
<1>4. work' = [work EXCEPT ![p] = Reads([work[p] EXCEPT !.user = u, !.keys = ks, !.todo = todo, !.frames[1] = e])]
  BY <1>0, <1>2, <1>3
<1>5. PICK g : g = [x.frames EXCEPT ![1] = e]
  OBVIOUS
<1>6. PICK x1 : x1 = [x EXCEPT !.user = u, !.keys = ks, !.todo = todo, !.frames = g]
  OBVIOUS
<1>7. x1 = [x EXCEPT !.user = u, !.keys = ks, !.todo = todo, !.frames[1] = e]
  BY <1>0, <1>1, <1>5, <1>6 DEF IsWork
<1>8. IsWork(x1) /\ x1.frames = g /\ x1.user = u /\ x1.keys = ks /\ x1.todo = todo
  BY <1>0, <1>1, <1>6 DEF IsWork
<1>9. PICK y : y = Reads(x1)
  OBVIOUS
<1>10. work' = [work EXCEPT ![p] = y]
  BY <1>1, <1>4, <1>7, <1>9
<1>11. Becomes(p, y)
  BY <1>10, BecomesIs
<1>12. /\ y.step = (IF x1.todo = <<>> THEN "lock" ELSE "write")
       /\ y.user = x1.user /\ y.keys = x1.keys /\ y.todo = x1.todo /\ y.told = {} /\ y.frames = x1.frames
       /\ y.known = {k \in x1.keys : datedTicker(Key[k]) \in facts}
  BY <1>8, <1>9, ReadsIs
<1>13. Replays(p, y, u, f, ks)
  BY <1>1, <1>2, <1>3, <1>5, <1>8, <1>11, <1>12, Zenon DEF Replays
<1> QED
  BY <1>13

\* The run p goes on with y, its first listing done.
Pops(p, y) ==
    /\ Becomes(p, y)
    /\ \/ /\ Len(work[p].frames) > 1 /\ y.step = "follow" /\ y.frames = Tail(work[p].frames)
          /\ y.keys = work[p].keys /\ y.todo = work[p].todo /\ y.known = work[p].known
       \/ /\ ~(Len(work[p].frames) > 1) /\ y.step = "settle" /\ y.frames = work[p].frames
          /\ y.keys = work[p].keys /\ y.todo = work[p].todo /\ y.known = work[p].known
       \/ ~(Len(work[p].frames) > 1) /\ y = Gone

(* A listing is followed up in full. *)
LEMMA FollowedUpIs ==
    ASSUME IInv, NEW p \in Runs, FollowedUp(p)
    PROVE  \E y : Pops(p, y)
<1>0. IsWork(work[p]) /\ p \in DOMAIN work
  BY AtWork DEF WorkOK
<1>1. PICK x : x = work[p]
  OBVIOUS
<1>3. PICK y : y = IF Len(x.frames) > 1 THEN [x EXCEPT !.frames = Tail(@)]
                   ELSE IF runs[p].kind = "stmt" THEN [x EXCEPT !.step = "settle"] ELSE Gone
  OBVIOUS
<1>4. work' = [work EXCEPT ![p] = y]
  BY <1>1, <1>3, Zenon DEF FollowedUp
<1>5. x.step = "follow"
  BY <1>1 DEF FollowedUp
<1>6. CASE Len(x.frames) > 1
  <2>1. PICK g : g = Tail(x.frames)
    OBVIOUS
  <2>2. y = [x EXCEPT !.frames = g]
    BY <1>3, <1>6, <2>1
  <2>3. y.step = x.step /\ y.frames = g /\ y.keys = x.keys /\ y.todo = x.todo /\ y.known = x.known
    BY <1>0, <1>1, <2>2 DEF IsWork
  <2> QED
    BY <1>1, <1>4, <1>5, <1>6, <2>1, <2>3, BecomesIs DEF Pops
<1>7. CASE ~(Len(x.frames) > 1) /\ runs[p].kind = "stmt"
  <2>1. y = [x EXCEPT !.step = "settle"]
    BY <1>3, <1>7
  <2>2. y.step = "settle" /\ y.frames = x.frames /\ y.keys = x.keys /\ y.todo = x.todo /\ y.known = x.known
    BY <1>0, <1>1, <2>1 DEF IsWork
  <2> QED
    BY <1>1, <1>4, <1>7, <2>2, BecomesIs DEF Pops
<1>8. CASE ~(Len(x.frames) > 1) /\ runs[p].kind # "stmt"
  <2>1. y = Gone
    BY <1>3, <1>8
  <2> QED
    BY <1>1, <1>4, <1>8, <2>1, BecomesIs DEF Pops
<1> QED
  BY <1>6, <1>7, <1>8

(* A run ends. *)
LEMMA EndIs ==
    ASSUME IInv, NEW p \in Runs, RefuseConfirm(p) \/ SettleStmt(p) \/ FailSettle(p)
    PROVE  Becomes(p, Gone) /\ work[p].step \in {"confirm", "settle"}
<1>1. PICK y : y = Gone
  OBVIOUS
<1>2. work' = [work EXCEPT ![p] = y] /\ work[p].step \in {"confirm", "settle"}
  BY <1>1 DEF RefuseConfirm, SettleStmt, FailSettle
<1> QED
  BY <1>1, <1>2, BecomesIs

-----------------------------------------------------------------------------
(* What the rows go through *)

\* From rows d to rows e no key loses its id, its association, or its
\* instrument.
Onward(d, e) == \A k \in Keys : /\ d[k].id # 0 => e[k].id = d[k].id
                                /\ d[k].assoc # "none" => e[k].assoc # "none"
                                /\ d[k].assoc = "fixed" => e[k].assoc = "fixed"

SameIds(d, e) == \A k \in Keys : e[k].id = d[k].id

\* A key leaves its group only when it is fixed.
GroupsLeft(d, e) == \A k \in Keys : e[k].group = d[k].group \/ (e[k].group = 0 /\ e[k].assoc = "fixed")

\* What a resolution may write of key k: an association with arbiter b.
MayWrite(k, a, b) == /\ a \in {"none", "fixed", "dated"}
                     /\ a = "fixed" => b = "user" \/ statesCurrency(Key[k]) \/ datedTicker(Key[k]) = NoTicker
                     /\ a = "dated" => ~statesCurrency(Key[k]) /\ datedTicker(Key[k]) # NoTicker
                     /\ b = "user" => a = "fixed"

(* What resolving a key may come to (resolve.go). *)
LEMMA OutcomeIs ==
    ASSUME NEW k, NEW dated, NEW known, known => datedTicker(Key[k]) # NoTicker, NEW o \in Outcomes(k, dated, known)
    PROVE  /\ MayWrite(k, o.assoc, o.arbiter) /\ o.told \subseteq MayTell[k]
           /\ k \notin CashRefused /\ ~dated /\ known => o.assoc # "none"
           /\ k \notin CashRefused /\ statesCurrency(Key[k]) => o.assoc = "fixed"
<1>1. CASE k \in CashRefused
  <2>1. o.assoc = "none" /\ o.arbiter = "none" /\ o.told = {}
    BY <1>1 DEF Outcomes
  <2> QED
    BY <1>1, <2>1 DEF MayWrite
<1>2. CASE k \notin CashRefused /\ statesCurrency(Key[k])
  <2>1. o.assoc = "fixed" /\ o.arbiter = "stated" /\ o.told = {}
    BY <1>2 DEF Outcomes
  <2> QED
    BY <1>2, <2>1 DEF MayWrite
<1>3. CASE k \notin CashRefused /\ ~statesCurrency(Key[k])
  <2>1. PICK a, own : a = (IF own # {NoTicker} THEN "dated" ELSE "fixed") /\ own = {datedTicker(Key[k])}
    OBVIOUS
  <2>2. PICK lookups : lookups = {{}, MayTell[k] \cap own}
    OBVIOUS
  <2>3. \/ dated /\ o.assoc = "none" /\ o.arbiter = "none" /\ o.told \in lookups
        \/ ~dated /\ known /\ o.assoc = "dated" /\ o.arbiter = "stated" /\ o.told \in lookups
        \/ ~dated /\ ~known /\ o.assoc = "none" /\ o.arbiter = "none" /\ o.told \in lookups
        \/ ~dated /\ ~known /\ o.assoc = a /\ o.arbiter = "datasource" /\ o.told \in {{}, MayTell[k]}
    BY <1>3, <2>1, <2>2 DEF Outcomes
  <2>4. o.told \subseteq MayTell[k]
    BY <2>2, <2>3
  <2>5. own # {NoTicker} <=> datedTicker(Key[k]) # NoTicker
    BY <2>1
  <2> QED
    BY <1>3, <2>1, <2>3, <2>4, <2>5 DEF MayWrite
<1> QED
  BY <1>1, <1>2, <1>3

(* A key the user arbitrated is skipped, another is associated              *)
(* (SetAssociation).                                                        *)
LEMMA WrittenRow ==
    ASSUME NEW k, NEW row, RowOK(k, row), row.id # 0, NEW a, NEW b, MayWrite(k, a, b),
           NEW r, r = SetAssociation(row, a, b)
    PROVE  /\ RowOK(k, r) /\ r.id = row.id
           /\ (row.assoc # "none" => r.assoc # "none") /\ (row.assoc = "fixed" => r.assoc = "fixed")
           /\ (a # "none" => r.assoc # "none")
           /\ r.group = row.group \/ (r.group = 0 /\ r.assoc = "fixed")
<1>1. CASE a = "none" \/ row.arbiter = "user"
  BY <1>1 DEF SetAssociation, RowOK
<1>2. CASE ~(a = "none" \/ row.arbiter = "user")
  <2>1. PICK g : g = IF a = "fixed" THEN 0 ELSE row.group
    OBVIOUS
  <2>2. r = [row EXCEPT !.assoc = a, !.arbiter = b, !.group = g]
    BY <1>2, <2>1 DEF SetAssociation
  <2>3. IsRow(row)
    BY DEF RowOK
  <2>4. IsRow(r) /\ r.id = row.id /\ r.assoc = a /\ r.arbiter = b /\ r.group = g
    BY <2>2, <2>3 DEF IsRow
  <2>5. row.assoc = "fixed" => a # "dated"
    BY <1>2 DEF RowOK, MayWrite
  <2> QED
    BY <1>2, <2>1, <2>4, <2>5 DEF RowOK, MayWrite
<1> QED
  BY <1>1, <1>2

(* The rows with one of them written. *)
LEMMA WrittenRows ==
    ASSUME NEW d, RowsOK(d), NEW k \in Keys, d[k].id # 0, NEW a, NEW b, MayWrite(k, a, b),
           NEW e, e = [d EXCEPT ![k] = SetAssociation(d[k], a, b)]
    PROVE  RowsOK(e) /\ Onward(d, e) /\ SameIds(d, e) /\ GroupsLeft(d, e) /\ (a # "none" => e[k].assoc # "none")
<1>1. PICK row, r : row = d[k] /\ r = SetAssociation(row, a, b)
  OBVIOUS
<1>2. e = [d EXCEPT ![k] = r]
  BY <1>1
<1>3. RowOK(k, row) /\ row.id # 0
  BY <1>1 DEF RowsOK
<1>4. /\ RowOK(k, r) /\ r.id = row.id
      /\ (row.assoc # "none" => r.assoc # "none") /\ (row.assoc = "fixed" => r.assoc = "fixed")
      /\ (a # "none" => r.assoc # "none")
      /\ r.group = row.group \/ (r.group = 0 /\ r.assoc = "fixed")
  BY <1>1, <1>3, WrittenRow
<1>5. e = [j \in Keys |-> e[j]] /\ e[k] = r /\ \A j \in Keys : j # k => e[j] = d[j]
  BY <1>2 DEF RowsOK
<1>6. SameIds(d, e)
  BY <1>1, <1>4, <1>5 DEF SameIds
<1>7. RowsOK(e)
  <2>1. \A j \in Keys : RowOK(j, e[j])
    BY <1>4, <1>5 DEF RowsOK
  <2>2. \A i, j \in Keys : i # j /\ e[i].id # 0 => e[i].id # e[j].id
    BY <1>6 DEF RowsOK, SameIds
  <2> QED
    BY <1>5, <2>1, <2>2 DEF RowsOK
<1>8. Onward(d, e)
  BY <1>1, <1>4, <1>5 DEF Onward
<1>9. GroupsLeft(d, e)
  BY <1>1, <1>4, <1>5 DEF GroupsLeft
<1> QED
  BY <1>4, <1>5, <1>6, <1>7, <1>8, <1>9

\* A statement states key k.
StatedBy(k) == \E s \in Stmts : \E n \in DOMAIN Stated[runs[s].up] : Stated[runs[s].up][n] = k

\* The keys stored are those some statement states: none is ever swept.
Stored == \A k \in Keys : rows[k].id # 0 <=> StatedBy(k)

\* From d to e the keys of the user are regrouped as ks are, no other is.
Regrouped(d, e, user, ks) ==
    /\ \A k \in Keys : e[k].assoc = d[k].assoc
    /\ \A k \in Keys : Key[k].user # user => e[k].group = d[k].group
    /\ \A k \in Keys : Key[k].user = user /\ k \in ks /\ d[k].assoc # "fixed" => e[k].group = GroupsOf(ks)[k]
    /\ \A k \in Keys : Key[k].user = user /\ ~(k \in ks /\ d[k].assoc # "fixed") => e[k].group = 0

(* The groups of a user are set anew (group.go, Regroup). *)
LEMMA RegroupIs ==
    ASSUME RowsOK(rows), NEW user, NEW ks, NEW e, e = Regroup(rows, user, GroupsOf(ks))
    PROVE  RowsOK(e) /\ SameIds(rows, e) /\ Regrouped(rows, e, user, ks)
<1>0. PICK groups : groups = GroupsOf(ks)
  OBVIOUS
<1>a. DOMAIN groups = ks /\ e = Regroup(rows, user, groups)
  BY <1>0 DEF GroupsOf, of
<1>1. ASSUME NEW k \in Keys
      PROVE  /\ RowOK(k, e[k]) /\ e[k].id = rows[k].id /\ e[k].assoc = rows[k].assoc
             /\ Key[k].user # user => e[k].group = rows[k].group
             /\ Key[k].user = user /\ k \in ks /\ rows[k].assoc # "fixed" => e[k].group = GroupsOf(ks)[k]
             /\ Key[k].user = user /\ ~(k \in ks /\ rows[k].assoc # "fixed") => e[k].group = 0
  <2>1. PICK row, g : row = rows[k] /\ g = IF k \in ks /\ rows[k].assoc # "fixed" THEN groups[k] ELSE 0
    OBVIOUS
  <2>2. RowOK(k, row)
    BY <2>1 DEF RowsOK
  <2>3. CASE Key[k].user # user
    <3>1. e[k] = row
      BY <1>a, <2>1, <2>3 DEF Regroup
    <3> QED
      BY <2>1, <2>2, <2>3, <3>1
  <2>4. CASE Key[k].user = user
    <3>1. e[k] = [row EXCEPT !.group = g]
      BY <1>a, <2>1, <2>4 DEF Regroup
    <3>2. IsRow(row)
      BY <2>2 DEF RowOK
    <3>3. IsRow(e[k]) /\ e[k].id = row.id /\ e[k].assoc = row.assoc /\ e[k].arbiter = row.arbiter /\ e[k].group = g
      BY <3>1, <3>2 DEF IsRow
    <3>4. RowOK(k, e[k])
      BY <2>2, <3>3 DEF RowOK
    <3> QED
      BY <1>0, <2>1, <2>4, <3>3, <3>4
  <2> QED
    BY <2>3, <2>4
<1>2. e = [k \in Keys |-> e[k]]
  BY <1>a DEF Regroup
<1>3. SameIds(rows, e)
  BY <1>1 DEF SameIds
<1>4. \A i, j \in Keys : i # j /\ e[i].id # 0 => e[i].id # e[j].id
  BY <1>3 DEF RowsOK, SameIds
<1>5. RowsOK(e)
  BY <1>1, <1>2, <1>4 DEF RowsOK
<1>6. Regrouped(rows, e, user, ks)
  BY <1>1 DEF Regrouped
<1> QED
  BY <1>3, <1>5, <1>6

(* A sweep takes no key that a statement states, so none that is stored     *)
(* (SweepStatedKeys).                                                       *)
LEMMA SweepIs ==
    ASSUME RowsOK(rows), Stored, NEW user, NEW ks, NEW g, RowsOK(g), SameIds(rows, g), Regrouped(rows, g, user, ks),
           \A k \in ks : k \in Keys => rows[k].id # 0,
           NEW w, NEW e, e = SweepStatedKeys(g, user, w)
    PROVE  RowsOK(e) /\ SameIds(rows, e) /\ Regrouped(rows, e, user, ks)
<1>0. PICK a : a = Absent
  OBVIOUS
<1>a. IsRow(a) /\ a.id = 0 /\ a.assoc = "none" /\ a.arbiter = "none" /\ a.group = 0
  BY <1>0 DEF Absent, IsRow
<1>1. ASSUME NEW k \in Keys PROVE e[k] = g[k] \/ (e[k] = a /\ rows[k].id = 0 /\ Key[k].user = user)
  <2>1. e[k] = IF /\ Key[k].user = user /\ \A x \in w : x.key # k
                  /\ \A s \in Stmts : k \notin Range(Stated[runs[s].up])
               THEN a ELSE g[k]
    BY <1>0, Zenon DEF SweepStatedKeys
  <2>2. CASE Key[k].user = user /\ \A s \in Stmts : k \notin Range(Stated[runs[s].up])
    <3>1. ~StatedBy(k)
      BY <2>2 DEF StatedBy, Range
    <3> QED
      BY <2>1, <2>2, <3>1 DEF Stored
  <2>3. CASE ~(Key[k].user = user /\ \A s \in Stmts : k \notin Range(Stated[runs[s].up]))
    BY <2>1, <2>3
  <2> QED
    BY <2>2, <2>3
<1>2. e = [k \in Keys |-> e[k]]
  BY DEF SweepStatedKeys
<1>3. SameIds(rows, e)
  BY <1>a, <1>1 DEF SameIds
<1>4. \A k \in Keys : RowOK(k, e[k])
  <2>1. \A k \in Keys : RowOK(k, a)
    BY <1>a DEF RowOK
  <2> QED
    BY <1>1, <2>1 DEF RowsOK
<1>5. \A i, j \in Keys : i # j /\ e[i].id # 0 => e[i].id # e[j].id
  BY <1>3 DEF RowsOK, SameIds
<1>6. RowsOK(e)
  BY <1>2, <1>4, <1>5 DEF RowsOK
<1>7. \A k \in Keys : rows[k].id = 0 => rows[k].assoc = "none"
  BY DEF RowsOK, RowOK
<1>8. ASSUME NEW k \in Keys
      PROVE  /\ e[k].assoc = rows[k].assoc
             /\ Key[k].user # user => e[k].group = rows[k].group
             /\ Key[k].user = user /\ k \in ks /\ rows[k].assoc # "fixed" => e[k].group = GroupsOf(ks)[k]
             /\ Key[k].user = user /\ ~(k \in ks /\ rows[k].assoc # "fixed") => e[k].group = 0
  <2>1. CASE e[k] = g[k]
    BY <2>1 DEF Regrouped
  <2>2. CASE e[k] = a /\ rows[k].id = 0 /\ Key[k].user = user
    BY <1>a, <1>7, <2>2
  <2> QED
    BY <1>1, <2>1, <2>2
<1>9. Regrouped(rows, e, user, ks)
  BY <1>8 DEF Regrouped
<1> QED
  BY <1>3, <1>6, <1>9

-----------------------------------------------------------------------------
(* The books: rows, transactions, and what the runs hold *)

Busy == {"write", "lock", "locked"}

IsFrame(f) == f = [except |-> f.except, tickers |-> f.tickers, listed |-> f.listed, picked |-> f.picked]

\* The keys a run is to resolve are among its keys; those read as dated are
\* associated.
TodoOK(v, db) ==
    /\ IsList(v.todo)
    /\ \A n \in DOMAIN v.todo : v.todo[n][1] \in v.keys /\ (v.todo[n][2] => db[v.todo[n][1]].assoc # "none")
    /\ v.step = "write" => v.todo # <<>>
    /\ v.step \notin {"queued", "write"} => DOMAIN v.todo = {}
    /\ v.step = "queued" => \A k \in v.keys : \E n \in DOMAIN v.todo : v.todo[n][1] = k

\* The keys a run lists are stored.
FramesOK(v, db) ==
    /\ IsList(v.frames)
    /\ v.step = "follow" => v.frames # <<>>
    /\ \A n \in DOMAIN v.frames : IsFrame(v.frames[n]) /\ \A k \in v.frames[n].listed : k \in Keys /\ db[k].id # 0

\* The run z holds v while the rows are db: a statement that has not written
\* holds the keys it states, but those that are associated.
HoldsOK(v, z, db) ==
    /\ TodoOK(v, db) /\ FramesOK(v, db)
    /\ v.keys \subseteq Keys /\ \A k \in v.keys : db[k].id # 0
    /\ \A k \in v.known : datedTicker(Key[k]) # NoTicker
    /\ v.step \in Busy \cup {"queued"} => v.user \in Users
    /\ z.kind = "stmt" /\ v.frames = <<>> /\ v.step \in Busy \cup {"queued"} =>
          /\ v.user = Upload[z.up].user
          /\ \A n \in DOMAIN Stated[z.up] : Stated[z.up][n] \in v.keys \/ db[Stated[z.up][n]].assoc # "none"

\* Every transaction is of a row some statement had accepted.
TxnsStated == \A z \in txns : \E s \in Stmts : z \in Accepted(s)

Books == RowsOK(rows) /\ Stored /\ TxnsStated /\ NoTicker \notin facts /\ \A p \in Runs : HoldsOK(work[p], runs[p], rows)

(* What a run holds, it still holds when the rows go on. *)
LEMMA HoldsOn ==
    ASSUME NEW v, NEW z, NEW d, NEW e, HoldsOK(v, z, d), Onward(d, e),
           z.kind = "stmt" => z.up \in Uploads
    PROVE  HoldsOK(v, z, e)
<1>1. TodoOK(v, e)
  BY DEF HoldsOK, TodoOK, Onward
<1>2. FramesOK(v, e)
  BY DEF HoldsOK, FramesOK, Onward
<1>3. ASSUME z.kind = "stmt", v.frames = <<>>, v.step \in Busy \cup {"queued"}
      PROVE  \A n \in DOMAIN Stated[z.up] : Stated[z.up][n] \in v.keys \/ e[Stated[z.up][n]].assoc # "none"
  <2>1. \A n \in DOMAIN Stated[z.up] : Stated[z.up][n] \in Keys
    BY <1>3, StatedIs
  <2> QED
    BY <1>3, <2>1 DEF HoldsOK, Onward
<1>4. v.keys \subseteq Keys /\ \A k \in v.keys : e[k].id # 0
  BY DEF HoldsOK, Onward
<1> QED
  BY <1>1, <1>2, <1>3, <1>4 DEF HoldsOK

(* With the same runs, the same keys are stated and the same rows accepted. *)
LEMMA SameStated ==
    ASSUME IInv, SameRuns
    PROVE  /\ Stmts' = Stmts /\ \A k \in Keys : StatedBy(k)' <=> StatedBy(k)
           /\ \A s \in Stmts : Accepted(s)' = Accepted(s)
<1>1. Stmts' = Stmts /\ \A s \in Stmts : runs'[s].up = runs[s].up
  BY DEF SameRuns, Stmts
<1>2. \A k \in Keys : StatedBy(k)' <=> StatedBy(k)
  BY <1>1 DEF StatedBy
<1>3. \A s \in Stmts : Accepted(s)' = Accepted(s)
  BY <1>1 DEF Accepted, Up
<1> QED
  BY <1>1, <1>2, <1>3

(* A step of one run keeps the books when it keeps its own. *)
LEMMA BooksStep ==
    ASSUME IInv, Books, SameRuns, NEW p \in Runs, NEW y, Becomes(p, y),
           RowsOK(rows'), Onward(rows, rows'), SameIds(rows, rows'), HoldsOK(y, runs[p], rows'),
           NoTicker \notin facts', \A z \in txns' : z \in txns \/ \E s \in Stmts : z \in Accepted(s)
    PROVE  Books'
<1>1. /\ Stmts' = Stmts /\ \A k \in Keys : StatedBy(k)' <=> StatedBy(k)
      /\ \A s \in Stmts : Accepted(s)' = Accepted(s)
  BY SameStated
<1>2. Stored'
  BY <1>1 DEF Books, Stored, SameIds
<1>3. TxnsStated'
  BY <1>1 DEF Books, TxnsStated
<1>4. ASSUME NEW q \in Runs PROVE HoldsOK(work'[q], runs'[q], rows')
  <2>1. PICK v, z : v = work'[q] /\ z = runs[q]
    OBVIOUS
  <2>2. HoldsOK(v, z, rows')
    <3>1. CASE q = p
      BY <2>1, <3>1 DEF Becomes
    <3>2. CASE q # p
      <4>1. v = work[q]
        BY <2>1, <3>2 DEF Becomes
      <4>2. HoldsOK(v, z, rows) /\ (z.kind = "stmt" => z.up \in Uploads)
        BY <2>1, <4>1, AtWork DEF Books, WorkOK
      <4> QED
        BY <4>2, HoldsOn
    <3> QED
      BY <3>1, <3>2
  <2>3. runs'[q].kind = z.kind /\ runs'[q].up = z.up
    BY <2>1 DEF SameRuns
  <2> QED
    BY <2>1, <2>2, <2>3 DEF HoldsOK
<1>5. \A q \in Runs' : HoldsOK(work'[q], runs'[q], rows')
  BY <1>4 DEF SameRuns
<1> QED
  BY <1>2, <1>3, <1>5 DEF Books

(* A step that leaves the rows and the transactions. *)
LEMMA BooksWork ==
    ASSUME IInv, Books, SameRuns, NEW p \in Runs, NEW y, Becomes(p, y), HoldsOK(y, runs[p], rows),
           rows' = rows, txns' = txns, facts' = facts
    PROVE  Books'
<1>1. RowsOK(rows') /\ Onward(rows, rows') /\ SameIds(rows, rows') /\ HoldsOK(y, runs[p], rows')
  BY DEF Books, Onward, SameIds
<1> QED
  BY <1>1, BooksStep DEF Books

(* The work of a run that has ended holds nothing. *)
LEMMA GoneHolds == ASSUME NEW z, NEW db PROVE HoldsOK(Gone, z, db)
<1>1. PICK g : g = Gone
  OBVIOUS
<1>2. g.step = "gone" /\ g.keys = {} /\ g.todo = <<>> /\ g.known = {} /\ g.frames = <<>>
  BY <1>1 DEF Gone
<1>3. TodoOK(g, db) /\ FramesOK(g, db)
  BY <1>2, NoElements DEF TodoOK, FramesOK
<1>4. HoldsOK(g, z, db)
  BY <1>2, <1>3 DEF HoldsOK, Busy
<1> QED
  BY <1>1, <1>4

(* A run that begins holds what it was queued with, and reads which of its  *)
(* keys the facts date (resolve.go).                                        *)
LEMMA BeginBooks == ASSUME IInv, Books, NEW p \in Runs, Begin(p) PROVE Books'
<1>0. PICK y : Begins(p, y)
  BY BeginIs
<1>1. /\ Becomes(p, y)
      /\ y.step = (IF work[p].todo = <<>> THEN "lock" ELSE "write")
      /\ y.user = work[p].user /\ y.keys = work[p].keys /\ y.todo = work[p].todo /\ y.told = {}
      /\ y.frames = work[p].frames
      /\ y.known = {k \in work[p].keys : datedTicker(Key[k]) \in facts}
  BY <1>0, Zenon DEF Begins
<1>2. PICK x, z : x = work[p] /\ z = runs[p]
  OBVIOUS
<1>3. HoldsOK(x, z, rows) /\ x.step = "queued" /\ NoTicker \notin facts
  BY <1>2 DEF Books, Begin
<1>4. y.step \in {"lock", "write"} /\ (y.step = "write" <=> y.todo # <<>>)
  BY <1>1
<1>5. TodoOK(y, rows)
  BY <1>1, <1>2, <1>3, <1>4, NoElements DEF TodoOK, HoldsOK
<1>6. FramesOK(y, rows)
  BY <1>1, <1>2, <1>3, <1>4 DEF FramesOK, HoldsOK
<1>7. \A k \in y.known : datedTicker(Key[k]) # NoTicker
  BY <1>1, <1>3
<1>8. HoldsOK(y, z, rows)
  BY <1>1, <1>2, <1>3, <1>4, <1>5, <1>6, <1>7 DEF HoldsOK, Busy
<1>9. SameRuns
  BY RunsKept DEF Step
<1> QED
  BY <1>1, <1>2, <1>8, <1>9, BooksWork DEF Begin

(* A key's resolution is written in a transaction of its own: the row keeps *)
(* its id, and leaves its group only when it is fixed (SetAssociation).     *)
LEMMA WriteKeyBooks ==
    ASSUME IInv, Books, NEW p \in Runs, WriteKey(p)
    PROVE  Books' /\ Onward(rows, rows') /\ GroupsLeft(rows, rows')
<1>1. PICK y, k, o : Resolves(p, y, k, o)
  BY WriteKeyIs
<1>2. PICK x, z, h : x = work[p] /\ z = runs[p] /\ h = Head(x.todo)
  OBVIOUS
<1>0. x.step = "write" /\ txns' = txns
  BY <1>2, Zenon DEF WriteKey, WriteOutcome
<1>3. HoldsOK(x, z, rows) /\ x.step = "write" /\ NoTicker \notin facts /\ RowsOK(rows) /\ txns' = txns
  BY <1>0, <1>2 DEF Books
<1>4. IsList(x.todo) /\ x.todo # <<>>
  BY <1>3 DEF HoldsOK, TodoOK
<1>5. /\ IsList(Tail(x.todo)) /\ 1 \in DOMAIN x.todo /\ h = x.todo[1] /\ Len(Tail(x.todo)) = Len(x.todo) - 1
      /\ \A n \in DOMAIN Tail(x.todo) : n + 1 \in DOMAIN x.todo /\ Tail(x.todo)[n] = x.todo[n + 1]
  BY <1>2, <1>4, TailIs
<1>6. k = h[1] /\ k \in x.keys /\ k \in Keys /\ rows[k].id # 0
  <2>1. k = h[1]
    BY <1>1, <1>2, Zenon DEF Resolves
  <2>2. k \in x.keys
    BY <1>3, <1>5, <2>1 DEF HoldsOK, TodoOK
  <2>3. k \in Keys /\ rows[k].id # 0
    BY <1>3, <2>2 DEF HoldsOK
  <2> QED
    BY <2>1, <2>2, <2>3
<1>7. o \in Outcomes(k, h[2], k \in x.known) /\ (k \in x.known => datedTicker(Key[k]) # NoTicker)
  BY <1>1, <1>2, <1>3, Zenon DEF Resolves, HoldsOK
<1>8. MayWrite(k, o.assoc, o.arbiter) /\ o.told \subseteq MayTell[k]
  BY <1>7, OutcomeIs
<1>9. rows' = [rows EXCEPT ![k] = SetAssociation(rows[k], o.assoc, o.arbiter)]
  BY <1>1, Zenon DEF Resolves
<1>10. RowsOK(rows') /\ Onward(rows, rows') /\ SameIds(rows, rows') /\ GroupsLeft(rows, rows')
  BY <1>3, <1>6, <1>8, <1>9, WrittenRows
<1>11. NoTicker \notin facts'
  BY <1>1, <1>3, <1>6, <1>8, TellsAssumption DEF Resolves
<1>12. HoldsOK(x, z, rows')
  BY <1>2, <1>3, <1>10, HoldsOn, AtWork DEF WorkOK
<1>13. /\ y.step = (IF Len(x.todo) = 1 THEN "lock" ELSE "write") /\ Becomes(p, y)
       /\ y.user = x.user /\ y.keys = x.keys /\ y.todo = Tail(x.todo)
       /\ y.frames = x.frames /\ y.known = x.known
  BY <1>1, <1>2, Zenon DEF Resolves
<1>14. TodoOK(y, rows')
  <2>1. Len(x.todo) \in Nat /\ (y.step = "write" => Len(Tail(x.todo)) # 0)
    BY <1>4, <1>5, <1>13 DEF IsList
  <2>2. y.step = "write" => y.todo # <<>>
    BY <1>13, <2>1, NoElements
  <2>3. y.step # "write" => DOMAIN y.todo = {}
    BY <1>5, <1>13 DEF IsList
  <2> QED
    BY <1>5, <1>12, <1>13, <2>2, <2>3 DEF TodoOK, HoldsOK
<1>15. FramesOK(y, rows')
  BY <1>12, <1>13 DEF FramesOK, HoldsOK
<1>16. HoldsOK(y, z, rows')
  BY <1>3, <1>12, <1>13, <1>14, <1>15 DEF HoldsOK, Busy
<1>17. SameRuns
  BY RunsKept DEF Step
<1> QED
  BY <1>2, <1>3, <1>10, <1>11, <1>13, <1>16, <1>17, BooksStep

(* A run that fails drops its keys; its follow-ups' listings stay           *)
(* (replayrun.go).                                                          *)
LEMMA FailsBooks ==
    ASSUME IInv, Books, SameRuns, NEW p \in Runs, Fails(p), rows' = rows, txns' = txns, facts' = facts
    PROVE  Books'
<1>1. PICK y : Becomes(p, y) /\ Unwound(work[p], y)
  BY FailsIs
<1>2. PICK x, z : x = work[p] /\ z = runs[p]
  OBVIOUS
<1>3. HoldsOK(x, z, rows)
  BY <1>2 DEF Books
<1>4. TodoOK(y, rows)
  BY <1>1, NoElements DEF TodoOK, Unwound
<1>5. FramesOK(y, rows)
  BY <1>1, <1>2, <1>3, NoElements DEF FramesOK, Unwound, HoldsOK
<1>6. y.step \in {"gone", "follow"}
  BY <1>1 DEF Unwound
<1>7. HoldsOK(y, z, rows)
  BY <1>1, <1>4, <1>5, <1>6 DEF HoldsOK, Unwound, Busy
<1> QED
  BY <1>1, <1>2, <1>7, BooksWork

(* A candidate is confirmed: the key is fixed, and the tickers told of are  *)
(* to be followed (candidates.go, Confirm).                                 *)
LEMMA WriteConfirmedBooks ==
    ASSUME IInv, Books, NEW p \in Runs, WriteConfirmed(p)
    PROVE  Books' /\ Onward(rows, rows') /\ GroupsLeft(rows, rows')
<1>1. PICK y, k, told, tickers : Confirms(p, y, k, told, tickers)
  BY WriteConfirmedIs
<1>2. PICK x, z, e : x = work[p] /\ z = runs[p] /\ e = [except |-> {k}, tickers |-> tickers, listed |-> {}, picked |-> {}]
  OBVIOUS
<1>3. HoldsOK(x, z, rows) /\ x.step = "confirm" /\ NoTicker \notin facts /\ RowsOK(rows) /\ txns' = txns
  BY <1>2 DEF Books, WriteConfirmed
<1>4. k \in x.keys /\ k \in Keys /\ rows[k].id # 0
  BY <1>1, <1>2, <1>3 DEF Confirms, HoldsOK
<1>5. MayWrite(k, "fixed", "user")
  BY DEF MayWrite
<1>6. rows' = [rows EXCEPT ![k] = SetAssociation(rows[k], "fixed", "user")]
  BY <1>1, Zenon DEF Confirms
<1>7. RowsOK(rows') /\ Onward(rows, rows') /\ SameIds(rows, rows') /\ GroupsLeft(rows, rows')
  BY <1>3, <1>4, <1>5, <1>6, WrittenRows
<1>8. NoTicker \notin facts'
  <2>1. facts' = facts \cup told /\ (told = {} \/ told = MayTell[k])
    BY <1>1, Zenon DEF Confirms
  <2> QED
    BY <1>3, <1>4, <2>1, TellsAssumption
<1>9. HoldsOK(x, z, rows')
  BY <1>2, <1>3, <1>7, HoldsOn, AtWork DEF WorkOK
<1>10. Becomes(p, y) /\ y.step = "follow" /\ y.keys = {} /\ y.todo = x.todo /\ y.known = x.known /\ y.frames = <<e>>
  BY <1>1, <1>2, Zenon DEF Confirms
<1>11. FramesOK(y, rows')
  <2>1. IsList(<<e>>) /\ DOMAIN <<e>> = {1} /\ <<e>>[1] = e /\ <<e>> # <<>>
    BY DEF IsList
  <2>2. IsFrame(e) /\ e.listed = {}
    BY <1>2 DEF IsFrame
  <2> QED
    BY <1>10, <2>1, <2>2 DEF FramesOK
<1>12. TodoOK(y, rows')
  BY <1>3, <1>9, <1>10 DEF TodoOK, HoldsOK
<1>13. HoldsOK(y, z, rows')
  BY <1>9, <1>10, <1>11, <1>12 DEF HoldsOK, Busy
<1>14. SameRuns
  BY RunsKept DEF Step
<1> QED
  BY <1>2, <1>3, <1>7, <1>8, <1>10, <1>13, <1>14, BooksStep

(* Taking the key lock changes no row (group.go, Regroup). *)
LEMMA LockBooks == ASSUME IInv, Books, NEW p \in Runs, LockUserKeys(p) PROVE Books'
<1>1. PICK y : Locks(p, y)
  BY LockIs
<1>2. PICK x, z : x = work[p] /\ z = runs[p]
  OBVIOUS
<1>3. HoldsOK(x, z, rows) /\ x.step = "lock"
  BY <1>2 DEF Books, LockUserKeys
<1>4. /\ Becomes(p, y) /\ y.step = "locked" /\ y.user = x.user /\ y.keys = x.keys /\ y.todo = x.todo
      /\ y.frames = x.frames /\ y.known = x.known
  BY <1>1, <1>2 DEF Locks
<1>5. TodoOK(y, rows) /\ FramesOK(y, rows)
  BY <1>3, <1>4 DEF TodoOK, FramesOK, HoldsOK
<1>6. HoldsOK(y, z, rows)
  BY <1>3, <1>4, <1>5 DEF HoldsOK, Busy
<1>7. SameRuns
  BY RunsKept DEF Step
<1> QED
  BY <1>2, <1>4, <1>6, <1>7, BooksWork DEF LockUserKeys

\* The keys that p is to group are stored keys of its user.
MayGroup(p) == \A k \in work[p].groupable : k \in Keys /\ Key[k].user = work[p].user /\ rows[k].id # 0

(* A statement's transaction replaces its period, regroups the user's keys  *)
(* and sweeps no key that is stored (write.go, write).                      *)
LEMMA CommitBooks ==
    ASSUME IInv, Books, NEW p \in Runs, Commit(p), MayGroup(p)
    PROVE  /\ Books' /\ Onward(rows, rows') /\ SameIds(rows, rows')
           /\ Regrouped(rows, rows', work[p].user, work[p].groupable)
<1>1. PICK y : Commits(p, y)
  BY CommitIs
<1>2. PICK x, z, e : /\ x = work[p] /\ z = runs[p]
                     /\ e = [except |-> work[p].keys, tickers |-> work[p].told, listed |-> {}, picked |-> {}]
  OBVIOUS
<1>3. HoldsOK(x, z, rows) /\ x.step = "locked" /\ RowsOK(rows) /\ Stored /\ facts' = facts
  BY <1>2 DEF Books, Commit
<1>4. PICK g, user, ks : user = x.user /\ ks = x.groupable /\ g = Regroup(rows, user, GroupsOf(ks))
  OBVIOUS
<1>5. RowsOK(g) /\ SameIds(rows, g) /\ Regrouped(rows, g, user, ks)
  BY <1>3, <1>4, RegroupIs
<1>6. \A k \in ks : k \in Keys => rows[k].id # 0
  BY <1>2, <1>4 DEF MayGroup
<1>7. rows' = g \/ rows' = SweepStatedKeys(g, user, Written(p))
  BY <1>2, <1>4, Zenon DEF Commit, GroupsOf
<1>8. RowsOK(rows') /\ SameIds(rows, rows') /\ Regrouped(rows, rows', user, ks)
  BY <1>3, <1>5, <1>6, <1>7, SweepIs
<1>9. Onward(rows, rows')
  BY <1>8 DEF Onward, SameIds, Regrouped
<1>10. \A t \in txns' : t \in txns \/ \E s \in Stmts : t \in Accepted(s)
  <2>1. txns' = Written(p)
    BY DEF Commit
  <2>2. CASE Writing(p)
    <3>1. p \in Stmts
      BY <2>2 DEF Writing, Stmts
    <3> QED
      BY <2>1, <2>2, <3>1 DEF Written
  <2>3. CASE ~Writing(p)
    BY <2>1, <2>3 DEF Written
  <2> QED
    BY <2>2, <2>3
<1>11. HoldsOK(x, z, rows')
  BY <1>2, <1>3, <1>9, HoldsOn, AtWork DEF WorkOK
<1>a. PICK f : f = Pending(x.frames)
  OBVIOUS
<1>12. Becomes(p, y) /\ y.step = "follow" /\ y.keys = {} /\ y.todo = x.todo /\ y.known = {} /\ y.frames = <<e>> \o f
  BY <1>1, <1>2, <1>a, Zenon DEF Commits
<1>13. FramesOK(y, rows')
  <2>a. IsList(x.frames) /\ \A n \in DOMAIN x.frames : IsFrame(x.frames[n]) /\ \A k \in x.frames[n].listed : k \in Keys /\ rows'[k].id # 0
    BY <1>11 DEF HoldsOK, FramesOK
  <2>b. f = x.frames \/ (x.frames # <<>> /\ f = Tail(x.frames))
    BY <1>a DEF Pending
  <2>1. IsList(f) /\ \A n \in DOMAIN f : IsFrame(f[n]) /\ \A k \in f[n].listed : k \in Keys /\ rows'[k].id # 0
    <3>1. CASE f = x.frames
      BY <2>a, <3>1
    <3>2. CASE x.frames # <<>> /\ f = Tail(x.frames)
      <4>1. IsList(f) /\ \A n \in DOMAIN f : n + 1 \in DOMAIN x.frames /\ f[n] = x.frames[n + 1]
        BY <2>a, <3>2, TailIs
      <4> QED
        BY <2>a, <4>1
    <3> QED
      BY <2>b, <3>1, <3>2
  <2>2. PICK h : h = <<e>> \o f
    OBVIOUS
  <2>3. /\ IsList(h) /\ h[1] = e /\ 1 \in DOMAIN h
        /\ \A n \in DOMAIN h : n # 1 => n - 1 \in DOMAIN f /\ h[n] = f[n - 1]
    BY <2>1, <2>2 DEF IsList
  <2>4. h # <<>>
    BY <2>3, NoElements
  <2>5. IsFrame(e) /\ e.listed = {}
    BY <1>2 DEF IsFrame
  <2>6. ASSUME NEW n \in DOMAIN h PROVE IsFrame(h[n]) /\ \A k \in h[n].listed : k \in Keys /\ rows'[k].id # 0
    <3>1. CASE n = 1
      BY <2>3, <2>5, <3>1
    <3>2. CASE n # 1
      <4>1. PICK m \in DOMAIN f : h[n] = f[m]
        BY <2>3, <3>2
      <4> QED
        BY <2>1, <4>1
    <3> QED
      BY <3>1, <3>2
  <2> QED
    BY <1>12, <2>2, <2>3, <2>4, <2>6 DEF FramesOK
<1>14. TodoOK(y, rows')
  BY <1>3, <1>11, <1>12 DEF TodoOK, HoldsOK
<1>15. HoldsOK(y, z, rows')
  BY <1>12, <1>13, <1>14 DEF HoldsOK, Busy
<1>16. SameRuns
  BY RunsKept DEF Step
<1>17. Books'
  BY <1>2, <1>3, <1>8, <1>9, <1>10, <1>12, <1>15, <1>16, BooksStep DEF Books
<1> QED
  BY <1>2, <1>4, <1>8, <1>9, <1>17

(* The first listing is replaced by one that lists stored keys. *)
LEMMA Relisted ==
    ASSUME NEW fs, IsList(fs), fs # <<>>, \A n \in DOMAIN fs : IsFrame(fs[n]) /\ \A k \in fs[n].listed : k \in Keys /\ rows[k].id # 0,
           NEW e, IsFrame(e), \A k \in e.listed : k \in Keys /\ rows[k].id # 0
    PROVE  LET g == [fs EXCEPT ![1] = e]
           IN  /\ IsList(g) /\ g # <<>> /\ DOMAIN g = DOMAIN fs /\ 1 \in DOMAIN fs /\ g[1] = e
               /\ \A n \in DOMAIN fs : n # 1 => g[n] = fs[n]
               /\ \A n \in DOMAIN g : IsFrame(g[n]) /\ \A k \in g[n].listed : k \in Keys /\ rows[k].id # 0
<1>1. PICK g : g = [fs EXCEPT ![1] = e]
  OBVIOUS
<1>2. 1 \in DOMAIN fs
  BY TailIs
<1>3. DOMAIN g = DOMAIN fs /\ g[1] = e /\ \A n \in DOMAIN fs : n # 1 => g[n] = fs[n]
  BY <1>1, <1>2
<1>4. IsList(g)
  BY <1>1, <1>3 DEF IsList
<1>5. g # <<>>
  BY <1>2, <1>3, NoElements
<1> QED
  BY <1>1, <1>2, <1>3, <1>4, <1>5

(* The listing being followed up. *)
LEMMA TopIs ==
    ASSUME Books, NEW p \in Runs, work[p].step = "follow"
    PROVE  /\ IsList(work[p].frames) /\ work[p].frames # <<>> /\ 1 \in DOMAIN work[p].frames /\ Top(p) = work[p].frames[1]
           /\ IsFrame(Top(p)) /\ \A k \in Top(p).listed : k \in Keys /\ rows[k].id # 0
<1>1. PICK x : x = work[p]
  OBVIOUS
<1>2. HoldsOK(x, runs[p], rows)
  BY <1>1 DEF Books
<1>3. FramesOK(x, rows) /\ x.step = "follow"
  BY <1>1, <1>2 DEF HoldsOK
<1>4. IsList(x.frames) /\ x.frames # <<>>
  BY <1>3 DEF FramesOK
<1>5. 1 \in DOMAIN x.frames /\ Head(x.frames) = x.frames[1]
  BY <1>4, TailIs
<1>6. Top(p) = x.frames[1]
  BY <1>1, <1>5 DEF Top
<1> QED
  BY <1>1, <1>3, <1>4, <1>5, <1>6 DEF FramesOK

(* A listing changes, to one that lists stored keys. *)
LEMMA RelistBooks ==
    ASSUME IInv, Books, SameRuns, NEW p \in Runs, work[p].step = "follow", NEW y, NEW e, Relists(p, y, e),
           IsFrame(e), \A k \in e.listed : k \in Keys /\ rows[k].id # 0,
           rows' = rows, txns' = txns, facts' = facts
    PROVE  Books'
<1>1. PICK x, z : x = work[p] /\ z = runs[p]
  OBVIOUS
<1>2. HoldsOK(x, z, rows)
  BY <1>1 DEF Books
<1>3. /\ Becomes(p, y) /\ y.step = x.step /\ y.keys = x.keys /\ y.todo = x.todo /\ y.known = x.known
      /\ y.frames = [x.frames EXCEPT ![1] = e]
  BY <1>1 DEF Relists
<1>4. TodoOK(y, rows)
  BY <1>2, <1>3 DEF TodoOK, HoldsOK
<1>5. FramesOK(y, rows)
  <2>1. PICK fs : fs = x.frames
    OBVIOUS
  <2>2. IsList(fs) /\ fs # <<>> /\ \A n \in DOMAIN fs : IsFrame(fs[n]) /\ \A k \in fs[n].listed : k \in Keys /\ rows[k].id # 0
    BY <1>1, <1>2, <2>1 DEF FramesOK, HoldsOK
  <2>3. PICK g : g = [fs EXCEPT ![1] = e]
    OBVIOUS
  <2>4. IsList(g) /\ g # <<>> /\ \A n \in DOMAIN g : IsFrame(g[n]) /\ \A k \in g[n].listed : k \in Keys /\ rows[k].id # 0
    BY <2>2, <2>3, Relisted
  <2> QED
    BY <1>3, <2>1, <2>3, <2>4 DEF FramesOK
<1>6. HoldsOK(y, z, rows)
  BY <1>1, <1>2, <1>3, <1>4, <1>5 DEF HoldsOK, Busy
<1> QED
  BY <1>1, <1>3, <1>6, BooksWork

(* The keys a follow-up lists are stored (replayrun.go, replayFacts). *)
LEMMA ListBooks == ASSUME IInv, Books, NEW p \in Runs, replayFacts(p) PROVE Books'
<1>1. PICK y, t, f, L : ListsKeys(p, y, t, f, L)
  BY ListIs
<1>2. PICK e : e = [f EXCEPT !.tickers = @ \ {t}, !.listed = L \ f.picked, !.picked = @ \cup L]
  OBVIOUS
<1>3. f = Top(p) /\ L = ListUnassociatedKeysStating(t, f) /\ Relists(p, y, e)
  BY <1>1, <1>2, Zenon DEF ListsKeys
<1>4. work[p].step = "follow" /\ rows' = rows /\ txns' = txns /\ facts' = facts
  BY DEF replayFacts
<1>5. IsFrame(f)
  BY <1>3, <1>4, TopIs
<1>6. IsFrame(e) /\ e.listed = L \ f.picked
  BY <1>2, <1>5 DEF IsFrame
<1>7. \A k \in L : k \in Keys /\ rows[k].id # 0
  BY <1>3 DEF ListUnassociatedKeysStating
<1>8. SameRuns
  BY RunsKept DEF Step
<1> QED
  BY <1>3, <1>4, <1>6, <1>7, <1>8, RelistBooks

(* A listing that fails lists none (replayrun.go, replayFacts). *)
LEMMA FailListingBooks == ASSUME IInv, Books, NEW p \in Runs, FailListing(p) PROVE Books'
<1>1. PICK y, t, f : ListsNone(p, y, t, f)
  BY FailListingIs
<1>2. PICK e : e = [f EXCEPT !.tickers = @ \ {t}]
  OBVIOUS
<1>3. f = Top(p) /\ Relists(p, y, e) /\ f.listed = {}
  BY <1>1, <1>2, Zenon DEF ListsNone
<1>4. work[p].step = "follow" /\ rows' = rows /\ txns' = txns /\ facts' = facts
  BY DEF FailListing
<1>5. IsFrame(f)
  BY <1>3, <1>4, TopIs
<1>6. IsFrame(e) /\ e.listed = {}
  BY <1>2, <1>3, <1>5 DEF IsFrame
<1>8. SameRuns
  BY RunsKept DEF Step
<1> QED
  BY <1>3, <1>4, <1>6, <1>8, RelistBooks

(* The keys to resolve of the keys ks of stored rows. *)
LEMMA ToResolveOrdered ==
    ASSUME RowsOK(rows), NEW ks, ks \subseteq Keys, \A k \in ks : rows[k].id # 0,
           NEW todo, todo = ToResolve(rows, InOrder(ks))
    PROVE  /\ IsList(todo)
           /\ \A n \in DOMAIN todo : todo[n][1] \in ks /\ (todo[n][2] => rows[todo[n][1]].assoc # "none")
           /\ \A k \in ks : \E n \in DOMAIN todo : todo[n][1] = k
<1>1. PICK l : l = InOrder(ks)
  OBVIOUS
<1>2. IsList(l) /\ (\A n \in DOMAIN l : l[n] \in ks) /\ \A k \in ks : \E n \in DOMAIN l : l[n] = k
  BY <1>1, InOrderIs
<1>3. Reading(todo, rows, l)
  BY <1>1, <1>2, ToResolveIs
<1>4. ASSUME NEW n \in DOMAIN todo PROVE todo[n][1] \in ks /\ (todo[n][2] => rows[todo[n][1]].assoc # "none")
  <2>1. PICK m \in DOMAIN l : todo[n] = <<l[m], rows[l[m]].assoc = "dated">>
    BY <1>3 DEF Reading
  <2>2. todo[n][1] = l[m] /\ (todo[n][2] => rows[l[m]].assoc = "dated")
    <3>1. PICK b : b = (rows[l[m]].assoc = "dated")
      OBVIOUS
    <3>2. todo[n] = <<l[m], b>>
      BY <2>1, <3>1
    <3>3. todo[n][1] = l[m] /\ todo[n][2] = b
      BY <3>2
    <3> QED
      BY <3>1, <3>3
  <2> QED
    BY <1>2, <2>2
<1>5. ASSUME NEW k \in ks PROVE \E n \in DOMAIN todo : todo[n][1] = k
  <2>1. PICK m \in DOMAIN l : l[m] = k
    BY <1>2
  <2>2. PICK n \in DOMAIN todo : todo[n] = <<l[m], rows[l[m]].assoc = "dated">>
    BY <1>3 DEF Reading
  <2> QED
    BY <2>1, <2>2
<1> QED
  BY <1>3, <1>4, <1>5 DEF Reading

(* The listed keys of one user are taken up, each to be resolved once       *)
(* (replayrun.go, replayKeys).                                              *)
LEMMA ReplayKeysBooks == ASSUME IInv, Books, NEW p \in Runs, replayKeys(p) PROVE Books'
<1>1. PICK y, u, f, ks : Replays(p, y, u, f, ks)
  BY ReplayKeysIs
<1>2. PICK x, z, e : x = work[p] /\ z = runs[p] /\ e = [f EXCEPT !.listed = @ \ ks]
  OBVIOUS
<1>3. /\ HoldsOK(x, z, rows) /\ x.step = "follow" /\ RowsOK(rows) /\ NoTicker \notin facts
      /\ rows' = rows /\ txns' = txns /\ facts' = facts
  BY <1>2 DEF Books, replayKeys
<1>4. /\ f = Top(p) /\ u \in {Key[k].user : k \in f.listed} /\ ks = {k \in f.listed : Key[k].user = u}
      /\ Becomes(p, y) /\ y.todo = ToResolve(rows, InOrder(ks)) /\ y.step = (IF y.todo = <<>> THEN "lock" ELSE "write")
      /\ y.user = u /\ y.keys = ks /\ y.told = {}
      /\ y.frames = [x.frames EXCEPT ![1] = e]
      /\ y.known = {k \in ks : datedTicker(Key[k]) \in facts}
  BY <1>1, <1>2, Zenon DEF Replays
<1>5. IsFrame(f) /\ (\A k \in f.listed : k \in Keys /\ rows[k].id # 0) /\ IsList(x.frames) /\ x.frames # <<>>
  BY <1>2, <1>3, <1>4, TopIs
<1>6. ks \subseteq Keys /\ (\A k \in ks : rows[k].id # 0) /\ u \in Users
  BY <1>4, <1>5 DEF Users
<1>7. /\ IsList(y.todo)
      /\ \A n \in DOMAIN y.todo : y.todo[n][1] \in ks /\ (y.todo[n][2] => rows[y.todo[n][1]].assoc # "none")
      /\ \A k \in ks : \E n \in DOMAIN y.todo : y.todo[n][1] = k
  <2>1. PICK todo : todo = y.todo
    OBVIOUS
  <2>2. todo = ToResolve(rows, InOrder(ks))
    BY <1>4, <2>1
  <2> QED
    BY <1>3, <1>6, <2>1, <2>2, ToResolveOrdered
<1>8. TodoOK(y, rows)
  BY <1>4, <1>7, NoElements DEF TodoOK
<1>9. FramesOK(y, rows)
  <2>1. PICK fs, g : fs = x.frames /\ g = [fs EXCEPT ![1] = e]
    OBVIOUS
  <2>2. IsList(fs) /\ fs # <<>> /\ \A n \in DOMAIN fs : IsFrame(fs[n]) /\ \A k \in fs[n].listed : k \in Keys /\ rows[k].id # 0
    BY <1>3, <1>5, <2>1 DEF FramesOK, HoldsOK
  <2>3. IsFrame(e) /\ e.listed = f.listed \ ks
    BY <1>2, <1>5 DEF IsFrame
  <2>4. \A k \in e.listed : k \in Keys /\ rows[k].id # 0
    BY <1>5, <2>3
  <2>5. IsList(g) /\ g # <<>> /\ \A n \in DOMAIN g : IsFrame(g[n]) /\ \A k \in g[n].listed : k \in Keys /\ rows[k].id # 0
    BY <2>1, <2>2, <2>3, <2>4, Relisted
  <2> QED
    BY <1>4, <2>1, <2>5 DEF FramesOK
<1>10. \A k \in y.known : datedTicker(Key[k]) # NoTicker
  BY <1>3, <1>4
<1>11. y.frames # <<>>
  <2>1. 1 \in DOMAIN x.frames
    BY <1>5, TailIs
  <2>2. 1 \in DOMAIN y.frames
    BY <1>4, <2>1
  <2> QED
    BY <2>2, NoElements
<1>12. HoldsOK(y, z, rows)
  BY <1>4, <1>6, <1>8, <1>9, <1>10, <1>11 DEF HoldsOK
<1>13. SameRuns
  BY RunsKept DEF Step
<1> QED
  BY <1>2, <1>3, <1>4, <1>12, <1>13, BooksWork

(* A listing that is followed up gives way to the one above it              *)
(* (replayrun.go, replayFacts).                                             *)
LEMMA FollowedUpBooks == ASSUME IInv, Books, NEW p \in Runs, FollowedUp(p) PROVE Books'
<1>1. PICK y : Pops(p, y)
  BY FollowedUpIs
<1>2. PICK x, z : x = work[p] /\ z = runs[p]
  OBVIOUS
<1>3. HoldsOK(x, z, rows) /\ x.step = "follow" /\ rows' = rows /\ txns' = txns /\ facts' = facts
  BY <1>2 DEF Books, FollowedUp
<1>4. HoldsOK(y, z, rows)
  <2>1. CASE y = Gone
    BY <2>1, GoneHolds
  <2>2. CASE y.step = "settle" /\ y.frames = x.frames /\ y.keys = x.keys /\ y.todo = x.todo /\ y.known = x.known
    <3>1. TodoOK(y, rows) /\ FramesOK(y, rows)
      BY <1>3, <2>2 DEF TodoOK, FramesOK, HoldsOK
    <3> QED
      BY <1>3, <2>2, <3>1 DEF HoldsOK, Busy
  <2>3. CASE /\ Len(x.frames) > 1 /\ y.step = "follow" /\ y.frames = Tail(x.frames)
             /\ y.keys = x.keys /\ y.todo = x.todo /\ y.known = x.known
    <3>1. TodoOK(y, rows)
      BY <1>3, <2>3 DEF TodoOK, HoldsOK
    <3>2. IsList(x.frames) /\ x.frames # <<>>
      BY <1>3 DEF HoldsOK, FramesOK
    <3>3. /\ IsList(Tail(x.frames)) /\ Len(Tail(x.frames)) = Len(x.frames) - 1
          /\ \A n \in DOMAIN Tail(x.frames) : n + 1 \in DOMAIN x.frames /\ Tail(x.frames)[n] = x.frames[n + 1]
      BY <3>2, TailIs
    <3>4. Len(Tail(x.frames)) # 0
      <4>1. PICK l \in Nat : l = Len(x.frames)
        BY <3>2 DEF IsList
      <4>2. l > 1
        BY <2>3, <4>1
      <4>3. PICK m \in Nat : m = l - 1 /\ m # 0
        BY <4>2
      <4> QED
        BY <3>3, <4>1, <4>3
    <3>5. y.frames # <<>>
      BY <2>3, <3>4, NoElements
    <3>6. FramesOK(y, rows)
      BY <1>3, <2>3, <3>3, <3>5 DEF FramesOK, HoldsOK
    <3> QED
      BY <1>3, <2>3, <3>1, <3>6 DEF HoldsOK, Busy
  <2> QED
    BY <1>1, <1>2, <2>1, <2>2, <2>3 DEF Pops
<1>5. SameRuns
  BY RunsKept DEF Step
<1>6. Becomes(p, y)
  BY <1>1 DEF Pops
<1> QED
  BY <1>2, <1>3, <1>4, <1>5, <1>6, BooksWork

(* A run that ends holds nothing (stmt.go, work; candidates.go, Confirm). *)
LEMMA EndBooks == ASSUME IInv, Books, NEW p \in Runs, RefuseConfirm(p) \/ SettleStmt(p) \/ FailSettle(p) PROVE Books'
<1>1. Becomes(p, Gone) /\ HoldsOK(Gone, runs[p], rows)
  BY EndIs, GoneHolds
<1>2. SameRuns
  BY RunsKept DEF Step
<1>3. rows' = rows /\ txns' = txns /\ facts' = facts
  BY DEF RefuseConfirm, SettleStmt, FailSettle
<1> QED
  BY <1>1, <1>2, <1>3, BooksWork

\* A run is added after the others, as z, that does y.
Adds(y, z) ==
    LET n == Len(runs) + 1
    IN  /\ n \notin Runs /\ n \in Nat /\ Runs' = Runs \cup {n} /\ runs'[n] = z /\ work'[n] = y
        /\ \A q \in Runs : runs'[q] = runs[q] /\ work'[q] = work[q]

(* A run is added. *)
LEMMA AddsIs ==
    ASSUME IInv, NEW y, NEW z, runs' = Append(runs, z), work' = Append(work, y)
    PROVE  Adds(y, z)
<1>1. PICK n : n = Len(runs)
  OBVIOUS
<1>2. n \in Nat /\ DOMAIN runs = 1..n /\ DOMAIN work = 1..n /\ Len(work) = n
  <2>1. DOMAIN runs = 1..n /\ n \in Nat /\ DOMAIN work = 1..Len(work) /\ Len(work) \in Nat
    BY <1>1, SeqDomain DEF IInv, Shaped
  <2> QED
    BY <2>1 DEF IInv, Shaped
<1>3. DOMAIN runs' = 1..(n + 1) /\ runs'[n + 1] = z /\ \A q \in 1..n : runs'[q] = runs[q]
  BY <1>1, <1>2, SeqAppend DEF IInv, Shaped
<1>4. work'[n + 1] = y /\ \A q \in 1..n : work'[q] = work[q]
  BY <1>2, SeqAppend DEF IInv, Shaped
<1>5. 1..(n + 1) = 1..n \cup {n + 1} /\ n + 1 \notin 1..n /\ n + 1 \in Nat
  BY <1>2
<1> QED
  BY <1>1, <1>2, <1>3, <1>4, <1>5 DEF Adds, Runs

(* The statements, what they state and accept, with a run added. *)
LEMMA AddsStated ==
    ASSUME IInv, NEW y, NEW z, Adds(y, z)
    PROVE  /\ Stmts \subseteq Stmts' /\ \A s \in Stmts : Accepted(s)' = Accepted(s) /\ runs'[s] = runs[s]
           /\ \A k : StatedBy(k)' <=> StatedBy(k) \/ (z.kind = "stmt" /\ \E n \in DOMAIN Stated[z.up] : Stated[z.up][n] = k)
<1>1. PICK n : /\ n \notin Runs /\ Runs' = Runs \cup {n} /\ runs'[n] = z
               /\ \A q \in Runs : runs'[q] = runs[q]
  BY DEF Adds
<1>2. \A s : s \in Stmts' <=> s \in Stmts \/ (s = n /\ z.kind = "stmt")
  BY <1>1 DEF Stmts
<1>3. \A s \in Stmts : runs'[s] = runs[s]
  BY <1>1 DEF Stmts
<1>4. \A s \in Stmts : Accepted(s)' = Accepted(s)
  BY <1>3 DEF Accepted, Up
<1>5. \A k : StatedBy(k)' <=> StatedBy(k) \/ (z.kind = "stmt" /\ \E m \in DOMAIN Stated[z.up] : Stated[z.up][m] = k)
  BY <1>1, <1>2, <1>3 DEF StatedBy
<1> QED
  BY <1>2, <1>3, <1>4, <1>5

(* A run is added that holds stored keys. *)
LEMMA BooksAdd ==
    ASSUME IInv, Books, NEW y, NEW z, Adds(y, z), HoldsOK(y, z, rows'), RowsOK(rows'), Onward(rows, rows'), Stored',
           txns' = txns, facts' = facts
    PROVE  Books'
<1>1. TxnsStated'
  BY AddsStated DEF Books, TxnsStated
<1>2. PICK n : /\ Runs' = Runs \cup {n} /\ runs'[n] = z /\ work'[n] = y
               /\ \A q \in Runs : runs'[q] = runs[q] /\ work'[q] = work[q]
  BY DEF Adds
<1>3. ASSUME NEW q \in Runs' PROVE HoldsOK(work'[q], runs'[q], rows')
  <2>1. CASE q = n
    BY <1>2, <2>1
  <2>2. CASE q # n
    <3>1. q \in Runs /\ runs'[q] = runs[q] /\ work'[q] = work[q]
      BY <1>2, <2>2
    <3>2. PICK v, r : v = work[q] /\ r = runs[q]
      OBVIOUS
    <3>3. HoldsOK(v, r, rows) /\ (r.kind = "stmt" => r.up \in Uploads)
      BY <3>1, <3>2, AtWork DEF Books, WorkOK
    <3>4. HoldsOK(v, r, rows')
      BY <3>3, HoldsOn
    <3> QED
      BY <3>1, <3>2, <3>4
  <2> QED
    BY <2>1, <2>2
<1> QED
  BY <1>1, <1>3 DEF Books

\* The run z is queued, with y.
Queued(kind, up, user, todo, y, z) ==
    /\ Adds(y, z) /\ z.kind = kind /\ z.up = up
    /\ y.step = "queued" /\ y.user = user /\ y.todo = todo /\ y.told = {} /\ y.known = {} /\ y.frames = <<>>
    /\ \A k : k \in y.keys <=> \E n \in DOMAIN todo : todo[n][1] = k

(* A statement or a replay is queued. *)
LEMMA QueueIs ==
    ASSUME IInv, NEW kind, NEW up, NEW user, NEW todo, Queue(kind, up, user, todo)
    PROVE  \E y, z : Queued(kind, up, user, todo, y, z)
<1>1. PICK g, ks : g = Gone /\ ks = {t[1] : t \in Range(todo)}
  OBVIOUS
<1>2. IsWork(g) /\ g.frames = <<>> /\ g.told = {} /\ g.known = {}
  BY <1>1, GoneIs DEF Gone
<1>3. PICK y : y = [g EXCEPT !.step = "queued", !.user = user, !.todo = todo, !.keys = ks]
  OBVIOUS
<1>4. PICK z : z = [kind |-> kind, up |-> up, state |-> "pending", settled |-> FALSE]
  OBVIOUS
<1>5. runs' = Append(runs, z) /\ work' = Append(work, y)
  BY <1>1, <1>3, <1>4 DEF Queue
<1>6. /\ y.step = "queued" /\ y.user = user /\ y.todo = todo /\ y.told = {} /\ y.known = {} /\ y.frames = <<>>
      /\ y.keys = ks
  BY <1>2, <1>3 DEF IsWork
<1>7. z.kind = kind /\ z.up = up
  BY <1>4
<1>8. \A k : k \in ks <=> \E n \in DOMAIN todo : todo[n][1] = k
  BY <1>1 DEF Range
<1>9. Adds(y, z)
  BY <1>5, AddsIs
<1>10. Queued(kind, up, user, todo, y, z)
  BY <1>6, <1>7, <1>8, <1>9 DEF Queued
<1> QED
  BY <1>10

(* What a queued run holds. *)
LEMMA QueuedHolds ==
    ASSUME NEW kind, NEW up, NEW user \in Users, NEW todo, NEW y, NEW z, Queued(kind, up, user, todo, y, z), NEW db,
           IsList(todo), \A n \in DOMAIN todo : /\ todo[n][1] \in Keys /\ db[todo[n][1]].id # 0
                                                /\ todo[n][2] => db[todo[n][1]].assoc # "none",
           kind = "stmt" => /\ user = Upload[up].user
                            /\ \A n \in DOMAIN Stated[up] :
                                  db[Stated[up][n]].assoc # "none" \/ \E m \in DOMAIN todo : todo[m][1] = Stated[up][n]
    PROVE  HoldsOK(y, z, db)
<1>1. /\ z.kind = kind /\ z.up = up
      /\ y.step = "queued" /\ y.user = user /\ y.todo = todo /\ y.known = {} /\ y.frames = <<>>
      /\ \A k : k \in y.keys <=> \E n \in DOMAIN todo : todo[n][1] = k
  BY DEF Queued
<1>2. TodoOK(y, db)
  BY <1>1 DEF TodoOK
<1>3. FramesOK(y, db)
  BY <1>1, NoElements DEF FramesOK
<1>4. y.keys \subseteq Keys /\ \A k \in y.keys : db[k].id # 0
  BY <1>1
<1> QED
  BY <1>1, <1>2, <1>3, <1>4 DEF HoldsOK

(* An upload stores the keys it states that were not, and leaves the others *)
(* and every group as they are (stmt.go, Create; UpsertStatedKeys).         *)
LEMMA CreateBooks ==
    ASSUME IInv, Books, NEW u \in Uploads, Create(u)
    PROVE  Books' /\ Onward(rows, rows') /\ \A k \in Keys : rows'[k].group = rows[k].group /\ rows'[k].assoc = rows[k].assoc
<1>1. PICK ks, user, todo : ks = Stated[u] /\ user = Upload[u].user /\ todo = Unresolved(rows', ks)
  OBVIOUS
<1>2. Queue("stmt", u, user, todo) /\ txns' = txns /\ facts' = facts /\ rows' = UpsertStatedKeys(rows, ks)
  BY <1>1 DEF Create
<1>3. PICK y, z : Queued("stmt", u, user, todo, y, z)
  BY <1>2, QueueIs
<1>4. IsList(ks) /\ \A n \in DOMAIN ks : ks[n] \in Keys
  BY <1>1, StatedIs
<1>5. PICK K : K = {ks[i] : i \in 1..Len(ks)}
  OBVIOUS
<1>6. More(rows, rows', K)
  BY <1>2, <1>4, <1>5, UpsertIs DEF Added, Books
<1>7. \A k : k \in K <=> \E n \in DOMAIN ks : ks[n] = k
  BY <1>4, <1>5 DEF IsList
<1>8. RowsOK(rows') /\ Onward(rows, rows') /\ \A k \in Keys : rows'[k].group = rows[k].group /\ rows'[k].assoc = rows[k].assoc
  BY <1>6 DEF More, Onward
<1>9. Adds(y, z) /\ z.kind = "stmt" /\ z.up = u
  BY <1>3 DEF Queued
<1>10. Stored'
  <2>1. \A k : StatedBy(k)' <=> StatedBy(k) \/ \E n \in DOMAIN ks : ks[n] = k
    BY <1>1, <1>9, AddsStated
  <2>2. \A k \in Keys : rows'[k].id # 0 <=> rows[k].id # 0 \/ k \in K
    BY <1>6 DEF More
  <2> QED
    BY <1>7, <2>1, <2>2 DEF Stored, Books
<1>11. HoldsOK(y, z, rows')
  <2>1. PICK db : db = rows'
    OBVIOUS
  <2>2. PICK us : /\ Reading(todo, db, us) /\ IsList(us)
                  /\ \A n \in DOMAIN us : \E m \in DOMAIN ks : us[n] = ks[m]
                  /\ \A m \in DOMAIN ks : db[ks[m]].assoc # "fixed" => \E n \in DOMAIN us : us[n] = ks[m]
    BY <1>1, <1>4, <2>1, UnresolvedIs
  <2>3. \A n \in DOMAIN us : us[n] \in Keys /\ db[us[n]].id # 0
    BY <1>4, <1>6, <1>7, <2>1, <2>2 DEF More
  <2>4. ASSUME NEW n \in DOMAIN todo
        PROVE  todo[n][1] \in Keys /\ db[todo[n][1]].id # 0 /\ (todo[n][2] => db[todo[n][1]].assoc # "none")
    <3>1. PICK m \in DOMAIN us : todo[n] = <<us[m], db[us[m]].assoc = "dated">>
      BY <2>2 DEF Reading
    <3>2. PICK b : b = (db[us[m]].assoc = "dated")
      OBVIOUS
    <3>3. todo[n] = <<us[m], b>>
      BY <3>1, <3>2
    <3>4. todo[n][1] = us[m] /\ todo[n][2] = b
      BY <3>3
    <3> QED
      BY <2>3, <3>2, <3>4
  <2>5. ASSUME NEW n \in DOMAIN ks PROVE db[ks[n]].assoc # "none" \/ \E m \in DOMAIN todo : todo[m][1] = ks[n]
    <3>1. CASE db[ks[n]].assoc = "fixed"
      BY <3>1
    <3>2. CASE db[ks[n]].assoc # "fixed"
      <4>1. PICK i \in DOMAIN us : us[i] = ks[n]
        BY <2>2, <3>2
      <4>2. PICK m \in DOMAIN todo : todo[m] = <<us[i], db[us[i]].assoc = "dated">>
        BY <2>2 DEF Reading
      <4> QED
        BY <4>1, <4>2
    <3> QED
      BY <3>1, <3>2
  <2>6. user \in Users /\ user = Upload[u].user /\ IsList(todo)
    BY <1>1, <2>2 DEF Users, Reading
  <2> QED
    BY <1>1, <1>3, <2>1, <2>4, <2>5, <2>6, QueuedHolds
<1> QED
  BY <1>2, <1>8, <1>9, <1>10, <1>11, BooksAdd

(* A run that is no statement is added. *)
LEMMA BooksOther ==
    ASSUME IInv, Books, NEW y, NEW z, Adds(y, z), z.kind # "stmt", HoldsOK(y, z, rows), rows' = rows, txns' = txns, facts' = facts
    PROVE  Books'
<1>1. RowsOK(rows') /\ Onward(rows, rows') /\ HoldsOK(y, z, rows')
  BY DEF Books, Onward
<1>2. Stored'
  BY AddsStated DEF Stored, Books
<1> QED
  BY <1>1, <1>2, BooksAdd

(* A replay is queued with keys its statement states (replayrun.go,         *)
(* prepare).                                                                *)
LEMMA StartReplayBooks ==
    ASSUME IInv, Books, StartReplay
    PROVE  Books' /\ \E up, user, todo, y, z : Queued("replay", up, user, todo, y, z)
<1>1. PICK s, ks : /\ s \in Stmts /\ ks \in {Unavailable(s), UncoveredBy(s)}
                   /\ Queue("replay", runs[s].up, Up(s).user, ToResolve(rows, InOrder(ks)))
  BY Zenon DEF StartReplay
<1>2. PICK up, user, todo : up = runs[s].up /\ user = Up(s).user /\ todo = ToResolve(rows, InOrder(ks))
  OBVIOUS
<1>3. PICK y, z : Queued("replay", up, user, todo, y, z)
  BY <1>1, <1>2, QueueIs
<1>4. up \in Uploads
  BY <1>1, <1>2, AtWork DEF WorkOK, Stmts
<1>5. \A k \in ks : \E n \in DOMAIN Stated[up] : Stated[up][n] = k
  BY <1>1, <1>2 DEF Unavailable, UncoveredBy, Range
<1>6. \A k \in ks : k \in Keys /\ StatedBy(k)
  BY <1>1, <1>2, <1>4, <1>5, StatedIs DEF StatedBy
<1>7. ks \subseteq Keys /\ \A k \in ks : rows[k].id # 0
  BY <1>6 DEF Books, Stored
<1>8. /\ IsList(todo)
      /\ \A n \in DOMAIN todo : todo[n][1] \in ks /\ (todo[n][2] => rows[todo[n][1]].assoc # "none")
  BY <1>2, <1>7, ToResolveOrdered DEF Books
<1>9. \A n \in DOMAIN todo : todo[n][1] \in Keys /\ rows[todo[n][1]].id # 0 /\ (todo[n][2] => rows[todo[n][1]].assoc # "none")
  BY <1>7, <1>8
<1>10. user \in Users
  BY <1>2, <1>4 DEF Up, Users
<1>11. HoldsOK(y, z, rows)
  BY <1>3, <1>8, <1>9, <1>10, QueuedHolds
<1>12. Adds(y, z) /\ z.kind = "replay"
  BY <1>3 DEF Queued
<1>13. rows' = rows /\ txns' = txns /\ facts' = facts
  BY DEF StartReplay
<1>14. Books'
  BY <1>11, <1>12, <1>13, BooksOther
<1> QED
  BY <1>3, <1>14

\* A confirmation is added.
Starts(y, z) == Adds(y, z) /\ z.kind = "confirm" /\ y.step = "confirm"

(* A confirmation starts with one stored key (candidates.go, Confirm). *)
LEMMA StartConfirmBooks ==
    ASSUME IInv, Books, StartConfirm
    PROVE  Books' /\ \E y, z : Starts(y, z)
<1>1. PICK k \in Keys : /\ rows[k].id # 0
                        /\ runs' = Append(runs, [kind |-> "confirm", up |-> CHOOSE u \in Uploads : TRUE, state |-> "running", settled |-> FALSE])
                        /\ work' = Append(work, [Gone EXCEPT !.step = "confirm", !.user = Key[k].user, !.keys = {k}])
  BY Zenon DEF StartConfirm
<1>2. PICK g, up : g = Gone /\ up = (CHOOSE u \in Uploads : TRUE)
  OBVIOUS
<1>3. PICK y : y = [g EXCEPT !.step = "confirm", !.user = Key[k].user, !.keys = {k}]
  OBVIOUS
<1>4. PICK z : z = [kind |-> "confirm", up |-> up, state |-> "running", settled |-> FALSE]
  OBVIOUS
<1>5. runs' = Append(runs, z) /\ work' = Append(work, y)
  BY <1>1, <1>2, <1>3, <1>4
<1>6. IsWork(g) /\ g.frames = <<>> /\ g.known = {} /\ g.todo = <<>>
  BY <1>2, GoneIs DEF Gone
<1>7. y.step = "confirm" /\ y.keys = {k} /\ y.frames = <<>> /\ y.known = {} /\ y.todo = <<>>
  BY <1>3, <1>6 DEF IsWork
<1>8. TodoOK(y, rows) /\ FramesOK(y, rows)
  BY <1>7, NoElements DEF TodoOK, FramesOK
<1>9. HoldsOK(y, z, rows)
  BY <1>1, <1>7, <1>8 DEF HoldsOK, Busy
<1>10. Adds(y, z) /\ z.kind = "confirm"
  BY <1>4, <1>5, AddsIs
<1>11. rows' = rows /\ txns' = txns /\ facts' = facts
  BY DEF StartConfirm
<1>12. Books'
  BY <1>9, <1>10, <1>11, BooksOther
<1> QED
  BY <1>7, <1>10, <1>12 DEF Starts

(* A restart loses what was under way and no row (run.go, Sweep). *)
LEMMA RestartBooks == ASSUME IInv, Books, Restart PROVE Books'
<1>1. SameRuns
  BY RestartRuns
<1>2. /\ Stmts' = Stmts /\ \A k \in Keys : StatedBy(k)' <=> StatedBy(k)
      /\ \A s \in Stmts : Accepted(s)' = Accepted(s)
  BY <1>1, SameStated
<1>3. rows' = rows /\ txns' = txns /\ facts' = facts /\ work' = [p \in Runs |-> Gone]
  BY DEF Restart
<1>4. \A p \in Runs' : HoldsOK(work'[p], runs'[p], rows')
  <2>1. \A p \in Runs' : work'[p] = Gone
    BY <1>1, <1>3 DEF SameRuns
  <2> QED
    BY <2>1, GoneHolds
<1> QED
  BY <1>2, <1>3, <1>4 DEF Books, Stored, TxnsStated

-----------------------------------------------------------------------------
(* Locks and groups *)

\* A run that has the key lock of its user is the one the lock names.
LockOK == /\ keyLock = [u \in Users |-> keyLock[u]]
          /\ \A p \in Runs : work[p].step = "locked" => keyLock[work[p].user] = p

\* Every key that will have a transaction once p commits is in its list, or
\* has an instrument.
Covers(p) == \A k \in Keys : Key[k].user = work[p].user /\ (\E z \in Written(p) : z.key = k)
                                => k \in work[p].groupable \/ rows[k].assoc = "fixed"

GroupableOK == \A p \in Runs : work[p].step = "locked" => MayGroup(p) /\ Covers(p)

\* A group is named by the id of a key that its keys are connected with, and
\* grouped keys that share a joining identifier are in one.
GroupsOK == /\ \A k \in Keys : rows[k].group # 0 => \E r \in Keys : rows[r].id = rows[k].group /\ k \in Connected[r]
            /\ \A j, k \in Keys : rows[j].group # 0 /\ rows[k].group # 0 /\ Share(j, k) => rows[j].group = rows[k].group

Held == LockOK /\ GroupableOK /\ EveryHoldingCounted /\ GroupsOK

(* What a run would write, when others step. *)
LEMMA WrittenKept ==
    ASSUME IInv, NEW q \in Runs, runs'[q].kind = runs[q].kind, runs'[q].up = runs[q].up, work'[q] = work[q], txns' = txns
    PROVE  Written(q)' = Written(q)
<1>1. Up(q)' = Up(q) /\ (Writing(q)' <=> Writing(q)) /\ Accepted(q)' = Accepted(q)
  BY DEF Up, Writing, Accepted
<1>2. DeleteTxns(q)' = DeleteTxns(q)
  BY <1>1 DEF DeleteTxns
<1> QED
  BY <1>1, <1>2 DEF Written

(* The list of a run still covers, when the rows go on. *)
LEMMA CoversOn ==
    ASSUME NEW q, MayGroup(q), Covers(q), work'[q] = work[q], Onward(rows, rows'),
           \A k \in Keys : Key[k].user = work[q].user /\ (\E z \in Written(q)' : z.key = k) => \E z \in Written(q) : z.key = k
    PROVE  MayGroup(q)' /\ Covers(q)'
<1>1. MayGroup(q)'
  BY DEF MayGroup, Onward
<1>2. Covers(q)'
  BY DEF Covers, Onward
<1> QED
  BY <1>1, <1>2

(* Two runs do not have the key lock of one user. *)
LEMMA OneHolds ==
    ASSUME LockOK, NEW p \in Runs, NEW q \in Runs, work[p].step = "locked", work[q].step = "locked", p # q
    PROVE  work[p].user # work[q].user
BY DEF LockOK

(* Groups and counted holdings, when the keys that leave their group are    *)
(* fixed and no transaction is written.                                     *)
LEMMA GroupsOn ==
    ASSUME EveryHoldingCounted, GroupsOK, RowsOK(rows), Onward(rows, rows'), GroupsLeft(rows, rows'), txns' = txns
    PROVE  EveryHoldingCounted' /\ GroupsOK'
<1>1. EveryHoldingCounted'
  BY DEF EveryHoldingCounted, HasTxn, Onward, GroupsLeft
<1>2. ASSUME NEW k \in Keys, rows'[k].group # 0 PROVE \E r \in Keys : rows'[r].id = rows'[k].group /\ k \in Connected[r]
  <2>1. rows'[k].group = rows[k].group
    BY <1>2 DEF GroupsLeft
  <2>2. PICK r \in Keys : rows[r].id = rows[k].group /\ k \in Connected[r]
    BY <1>2, <2>1 DEF GroupsOK
  <2>3. rows'[r].id = rows[r].id
    BY <1>2, <2>1, <2>2 DEF Onward
  <2> QED
    BY <2>1, <2>2, <2>3
<1>3. ASSUME NEW j \in Keys, NEW k \in Keys, rows'[j].group # 0, rows'[k].group # 0, Share(j, k)
      PROVE  rows'[j].group = rows'[k].group
  BY <1>3 DEF GroupsLeft, GroupsOK
<1>4. GroupsOK'
  <2>1. \A j, k \in Keys : Share(j, k)' <=> Share(j, k)
    BY DEF Share
  <2>2. \A k \in Keys : Connected[k]' = Connected[k]
    BY DEF Connected, Share
  <2> QED
    BY <1>2, <1>3, <2>1, <2>2 DEF GroupsOK
<1> QED
  BY <1>1, <1>4

(* A step of a run that does not take the lock. *)
LEMMA HeldStep ==
    ASSUME IInv, Books, Held, SameRuns, NEW p \in Runs, NEW y, Becomes(p, y), y.step # "locked",
           Onward(rows, rows'), GroupsLeft(rows, rows'), txns' = txns,
           keyLock' = keyLock \/ (work[p].step = "locked" /\ keyLock' = [keyLock EXCEPT ![work[p].user] = Free])
    PROVE  Held'
<1>1. ASSUME NEW q \in Runs, work'[q].step = "locked" PROVE q # p /\ work'[q] = work[q] /\ work[q].step = "locked"
  BY <1>1 DEF Becomes
<1>2. ASSUME NEW q \in Runs, work'[q].step = "locked" PROVE keyLock'[work'[q].user] = q /\ MayGroup(q)' /\ Covers(q)'
  <2>1. q # p /\ work'[q] = work[q] /\ work[q].step = "locked"
    BY <1>1, <1>2
  <2>2. keyLock[work[q].user] = q
    BY <2>1 DEF Held, LockOK
  <2>3. keyLock'[work[q].user] = keyLock[work[q].user]
    <3>1. CASE keyLock' = keyLock
      BY <3>1
    <3>2. CASE work[p].step = "locked" /\ keyLock' = [keyLock EXCEPT ![work[p].user] = Free]
      <4>1. work[q].user # work[p].user
        BY <2>1, <3>2, OneHolds DEF Held
      <4> QED
        BY <3>2, <4>1
    <3> QED
      BY <3>1, <3>2
  <2>4. Written(q)' = Written(q)
    BY <2>1, WrittenKept DEF SameRuns
  <2>5. MayGroup(q) /\ Covers(q)
    BY <2>1 DEF Held, GroupableOK
  <2>6. MayGroup(q)' /\ Covers(q)'
    BY <2>1, <2>4, <2>5, CoversOn
  <2> QED
    BY <2>1, <2>2, <2>3, <2>6
<1>3. keyLock' = [u \in Users |-> keyLock'[u]]
  <2>1. keyLock = [u \in Users |-> keyLock[u]]
    BY DEF Held, LockOK
  <2> QED
    BY <2>1
<1>4. LockOK' /\ GroupableOK'
  BY <1>2, <1>3 DEF LockOK, GroupableOK, SameRuns
<1>5. EveryHoldingCounted' /\ GroupsOK'
  BY GroupsOn DEF Held, Books
<1> QED
  BY <1>4, <1>5 DEF Held

(* A run is added. *)
LEMMA HeldAdd ==
    ASSUME IInv, Books, Held, NEW y, NEW z, Adds(y, z), y.step # "locked",
           Onward(rows, rows'), \A k \in Keys : rows'[k].group = rows[k].group, txns' = txns, keyLock' = keyLock
    PROVE  Held'
<1>1. PICK n : /\ Runs' = Runs \cup {n} /\ work'[n] = y
               /\ \A q \in Runs : runs'[q] = runs[q] /\ work'[q] = work[q]
  BY DEF Adds
<1>2. ASSUME NEW q \in Runs', work'[q].step = "locked" PROVE keyLock'[work'[q].user] = q /\ MayGroup(q)' /\ Covers(q)'
  <2>1. q \in Runs /\ runs'[q] = runs[q] /\ work'[q] = work[q]
    BY <1>1, <1>2
  <2>2. Written(q)' = Written(q)
    BY <2>1, WrittenKept
  <2>3. keyLock[work[q].user] = q /\ MayGroup(q) /\ Covers(q)
    BY <1>2, <2>1 DEF Held, LockOK, GroupableOK
  <2>4. MayGroup(q)' /\ Covers(q)'
    BY <2>1, <2>2, <2>3, CoversOn
  <2> QED
    BY <2>1, <2>3, <2>4
<1>3. LockOK' /\ GroupableOK'
  BY <1>2 DEF LockOK, GroupableOK, Held
<1>4. GroupsLeft(rows, rows')
  BY DEF GroupsLeft
<1>5. EveryHoldingCounted' /\ GroupsOK'
  BY <1>4, GroupsOn DEF Held, Books
<1> QED
  BY <1>3, <1>5 DEF Held

(* The keys of transactions are stored, those of the rows a statement       *)
(* accepts are its user's.                                                  *)
LEMMA AcceptedIs ==
    ASSUME IInv, Books, NEW s \in Stmts, NEW z \in Accepted(s)
    PROVE  /\ z.key \in Keys /\ rows[z.key].id # 0 /\ Key[z.key].user = Up(s).user /\ z.key \notin CashRefused
           /\ \E n \in DOMAIN Stated[runs[s].up] : Stated[runs[s].up][n] = z.key
<1>1. PICK u : u = runs[s].up /\ u \in Uploads
  BY AtWork DEF Stmts, WorkOK
<1>2. PICK r \in AcceptedRows[u] : z = [stmt |-> s, user |-> Up(s).user, broker |-> Up(s).broker, day |-> r.day, key |-> r.key]
  BY <1>1 DEF Accepted
<1>3. z.key = r.key
  BY <1>2
<1>4. r.key \notin CashRefused /\ \E n \in DOMAIN Stated[u] : Stated[u][n] = r.key
  BY <1>1, <1>2, StatedIs
<1>5. PICK n \in DOMAIN Stated[u] : Stated[u][n] = r.key
  BY <1>4
<1>6. r.key \in Keys /\ Key[r.key].user = Upload[u].user
  BY <1>1, <1>5, StatedIs
<1>7. StatedBy(r.key)
  BY <1>1, <1>5 DEF StatedBy
<1>8. rows[r.key].id # 0
  BY <1>6, <1>7 DEF Books, Stored
<1> QED
  BY <1>1, <1>3, <1>4, <1>6, <1>8 DEF Up

(* What will be written is of stored keys. *)
LEMMA WrittenIs ==
    ASSUME IInv, Books, NEW p \in Runs, NEW z \in Written(p)
    PROVE  /\ z.key \in Keys /\ rows[z.key].id # 0 /\ z.key \notin CashRefused
           /\ z \in txns \/ (Writing(p) /\ p \in Stmts /\ z \in Accepted(p))
<1>1. z \in txns \/ (Writing(p) /\ z \in Accepted(p))
  BY DEF Written
<1>2. Writing(p) => p \in Stmts
  BY DEF Writing, Stmts
<1>3. z \in txns => \E s \in Stmts : z \in Accepted(s)
  BY DEF Books, TxnsStated
<1> QED
  BY <1>1, <1>2, <1>3, AcceptedIs

(* The keys are listed under the lock, with the transactions about to be    *)
(* written in view, so none of the user's is missing (group.go, Regroup;    *)
(* ListGroupableKeys).                                                      *)
LEMMA LockHeld == ASSUME IInv, Books, Held, NEW p \in Runs, LockUserKeys(p) PROVE Held'
<1>1. PICK y : Locks(p, y)
  BY LockIs
<1>2. /\ Becomes(p, y) /\ y.step = "locked" /\ y.user = work[p].user /\ y.frames = work[p].frames
      /\ y.groupable = ListGroupableKeys(p)
  BY <1>1 DEF Locks
<1>3. /\ work[p].step = "lock" /\ keyLock[work[p].user] = Free /\ keyLock' = [keyLock EXCEPT ![work[p].user] = p]
      /\ rows' = rows /\ txns' = txns /\ runs' = runs
  BY DEF LockUserKeys
<1>4. SameRuns
  BY RunsKept DEF Step
<1>5. work[p].user \in Users
  <2>1. HoldsOK(work[p], runs[p], rows)
    BY DEF Books
  <2> QED
    BY <1>3, <2>1 DEF HoldsOK, Busy
<1>6. keyLock = [u \in Users |-> keyLock[u]]
  BY DEF Held, LockOK
<1>7. keyLock' = [u \in Users |-> keyLock'[u]] /\ keyLock'[work[p].user] = p
  BY <1>3, <1>5, <1>6
<1>8. Runs \subseteq Nat /\ \A q \in Runs : q # 0
  BY SeqDomain DEF IInv, Shaped, Runs
<1>9. ASSUME NEW q \in Runs, q # p, work'[q].step = "locked"
      PROVE keyLock'[work'[q].user] = q /\ MayGroup(q)' /\ Covers(q)'
  <2>1. work'[q] = work[q]
    BY <1>2, <1>9 DEF Becomes
  <2>2. keyLock[work[q].user] = q /\ MayGroup(q) /\ Covers(q)
    BY <1>9, <2>1 DEF Held, LockOK, GroupableOK
  <2>3. work[q].user # work[p].user
    BY <1>3, <1>8, <2>2 DEF Free
  <2>4. keyLock'[work[q].user] = q
    BY <1>3, <2>2, <2>3
  <2>5. Written(q)' = Written(q)
    BY <1>3, <2>1, WrittenKept
  <2>6. Onward(rows, rows')
    BY <1>3 DEF Onward
  <2>7. MayGroup(q)' /\ Covers(q)'
    BY <2>1, <2>2, <2>5, <2>6, CoversOn
  <2> QED
    BY <2>1, <2>4, <2>7
<1>10. keyLock'[work'[p].user] = p
  BY <1>2, <1>7 DEF Becomes
<1>11. Written(p)' = Written(p)
  <2>1. work'[p].frames = work[p].frames
    BY <1>2 DEF Becomes
  <2>2. Up(p)' = Up(p) /\ (Writing(p)' <=> Writing(p)) /\ Accepted(p)' = Accepted(p)
    BY <1>3, <2>1 DEF Up, Writing, Accepted
  <2>3. DeleteTxns(p)' = DeleteTxns(p)
    BY <1>3, <2>2 DEF DeleteTxns
  <2> QED
    BY <1>3, <2>2, <2>3 DEF Written
<1>12. MayGroup(p)'
  <2>1. \A k \in ListGroupableKeys(p) : k \in Keys /\ Key[k].user = work[p].user /\ \E z \in Written(p) : z.key = k
    BY DEF ListGroupableKeys
  <2>2. \A k \in ListGroupableKeys(p) : rows[k].id # 0
    BY <2>1, WrittenIs
  <2> QED
    BY <1>2, <1>3, <2>1, <2>2 DEF MayGroup, Becomes
<1>13. Covers(p)'
  <2>1. \A k \in Keys : Key[k].user = work[p].user /\ (\E z \in Written(p) : z.key = k) =>
                           k \in ListGroupableKeys(p) \/ rows[k].assoc = "fixed"
    BY DEF ListGroupableKeys
  <2> QED
    BY <1>2, <1>3, <1>11, <2>1 DEF Covers, Becomes
<1>14. LockOK' /\ GroupableOK'
  BY <1>4, <1>7, <1>9, <1>10, <1>12, <1>13 DEF LockOK, GroupableOK, SameRuns
<1>15. EveryHoldingCounted' /\ GroupsOK'
  <2>1. Onward(rows, rows') /\ GroupsLeft(rows, rows')
    BY <1>3 DEF Onward, GroupsLeft
  <2> QED
    BY <1>3, <2>1, GroupsOn DEF Held, Books
<1> QED
  BY <1>14, <1>15 DEF Held

(* When the transaction commits, the keys of the user are grouped anew from *)
(* the list made under the lock; no other run has written the user's keys   *)
(* since (group.go, Regroup; write.go, write).                              *)
LEMMA CommitHeld == ASSUME IInv, Books, Held, NEW p \in Runs, Commit(p) PROVE Held' /\ Books'
<1>1. PICK y : Commits(p, y)
  BY CommitIs
<1>2. PICK user, ks : user = work[p].user /\ ks = work[p].groupable
  OBVIOUS
<1>3. /\ work[p].step = "locked" /\ keyLock' = [keyLock EXCEPT ![user] = Free] /\ txns' = Written(p)
      /\ Becomes(p, y) /\ y.step = "follow"
  BY <1>1, <1>2 DEF Commit, Commits
<1>4. MayGroup(p) /\ Covers(p)
  BY <1>3 DEF Held, GroupableOK
<1>5. Books' /\ Onward(rows, rows') /\ SameIds(rows, rows') /\ Regrouped(rows, rows', user, ks)
  BY <1>2, <1>4, CommitBooks
<1>6. SameRuns
  BY RunsKept DEF Step
<1>7. Writing(p) => user = Up(p).user
  <2>1. HoldsOK(work[p], runs[p], rows)
    BY DEF Books
  <2> QED
    BY <1>2, <1>3, <2>1 DEF HoldsOK, Busy, Writing, Up
\* The transactions written are of the user's keys.
<1>8. ASSUME NEW z \in txns' PROVE z.key \in Keys /\ rows[z.key].id # 0 /\ (z \in txns \/ Key[z.key].user = user)
  <2>1. /\ z.key \in Keys /\ rows[z.key].id # 0
        /\ z \in txns \/ (Writing(p) /\ p \in Stmts /\ z \in Accepted(p))
    BY <1>3, <1>8, WrittenIs
  <2> QED
    BY <1>7, <2>1, AcceptedIs
<1>9. ASSUME NEW q \in Runs, work'[q].step = "locked" PROVE keyLock'[work'[q].user] = q /\ MayGroup(q)' /\ Covers(q)'
  <2>1. q # p /\ work'[q] = work[q] /\ work[q].step = "locked"
    BY <1>3, <1>9 DEF Becomes
  <2>2. work[q].user # user
    BY <1>2, <1>3, <2>1, OneHolds DEF Held
  <2>3. keyLock[work[q].user] = q /\ MayGroup(q) /\ Covers(q)
    BY <2>1 DEF Held, LockOK, GroupableOK
  <2>4. keyLock'[work[q].user] = q
    BY <1>3, <2>2, <2>3
  <2>5. Up(q)' = Up(q) /\ (Writing(q)' <=> Writing(q)) /\ Accepted(q)' = Accepted(q)
    BY <1>6, <2>1 DEF Up, Writing, Accepted, SameRuns
  <2>6. ASSUME NEW k \in Keys, Key[k].user = work[q].user, NEW z \in Written(q)', z.key = k
        PROVE  z \in Written(q)
    <3>1. CASE Writing(q)
      <4>1. z \in Accepted(q) \/ (z \in txns' /\ z \notin DeleteTxns(q)')
        BY <2>5, <2>6, <3>1 DEF Written
      <4>2. CASE z \in Accepted(q)
        BY <3>1, <4>2 DEF Written
      <4>3. CASE z \in txns' /\ z \notin DeleteTxns(q)'
        <5>1. z \in txns
          BY <1>8, <2>2, <2>6, <4>3
        <5>2. z \notin DeleteTxns(q)
          BY <2>5, <4>3 DEF DeleteTxns
        <5> QED
          BY <3>1, <5>1, <5>2 DEF Written
      <4> QED
        BY <4>1, <4>2, <4>3
    <3>2. CASE ~Writing(q)
      <4>1. z \in txns'
        BY <2>5, <2>6, <3>2 DEF Written
      <4>2. z \in txns
        BY <1>8, <2>2, <2>6, <4>1
      <4> QED
        BY <3>2, <4>2 DEF Written
    <3> QED
      BY <3>1, <3>2
  <2>7. \A k \in Keys : Key[k].user = work[q].user /\ (\E z \in Written(q)' : z.key = k) => \E z \in Written(q) : z.key = k
    BY <2>6
  <2>8. MayGroup(q)' /\ Covers(q)'
    BY <1>5, <2>1, <2>3, <2>7, CoversOn
  <2> QED
    BY <2>1, <2>4, <2>8
<1>10. keyLock' = [u \in Users |-> keyLock'[u]]
  <2>1. keyLock = [u \in Users |-> keyLock[u]]
    BY DEF Held, LockOK
  <2> QED
    BY <1>3, <2>1
<1>11. LockOK' /\ GroupableOK'
  BY <1>6, <1>9, <1>10 DEF LockOK, GroupableOK, SameRuns
<1>12. OfOneUser(ks)
  BY <1>2, <1>4 DEF MayGroup, OfOneUser
<1>13. /\ \A k \in ks : \E r \in ks : GroupsOf(ks)[k] = rows[r].id /\ k \in Connected[r]
       /\ \A j, k \in ks : Share(j, k) => GroupsOf(ks)[j] = GroupsOf(ks)[k]
  BY <1>12, OfIs DEF Books
<1>14. ks \subseteq Keys /\ \A k \in ks : rows[k].id # 0
  BY <1>12 DEF OfOneUser
<1>15. EveryHoldingCounted'
  <2>1. ASSUME NEW k \in Keys, NEW z \in txns', z.key = k
        PROVE rows'[k].id # 0 /\ (rows'[k].assoc = "fixed" \/ rows'[k].group # 0)
    <3>1. rows'[k].id # 0 /\ rows'[k].assoc = rows[k].assoc
      BY <1>5, <1>8, <2>1 DEF SameIds, Regrouped
    <3>2. CASE Key[k].user = user
      <4>1. k \in ks \/ rows[k].assoc = "fixed"
        BY <1>2, <1>3, <1>4, <2>1, <3>2 DEF Covers
      <4>2. CASE rows[k].assoc # "fixed"
        <5>1. rows'[k].group = GroupsOf(ks)[k]
          BY <1>5, <3>2, <4>1, <4>2 DEF Regrouped
        <5> QED
          BY <1>13, <1>14, <3>1, <4>1, <4>2, <5>1
      <4> QED
        BY <3>1, <4>2
    <3>3. CASE Key[k].user # user
      <4>1. z \in txns
        BY <1>8, <2>1, <3>3
      <4>2. rows[k].assoc = "fixed" \/ rows[k].group # 0
        BY <2>1, <4>1 DEF Held, EveryHoldingCounted, HasTxn
      <4>3. rows'[k].group = rows[k].group
        BY <1>5, <3>3 DEF Regrouped
      <4> QED
        BY <3>1, <4>2, <4>3
    <3> QED
      BY <3>2, <3>3
  <2> QED
    BY <2>1 DEF EveryHoldingCounted, HasTxn
<1>16. ASSUME NEW k \in Keys, rows'[k].group # 0
       PROVE  /\ \E r \in Keys : rows'[r].id = rows'[k].group /\ k \in Connected[r]
              /\ Key[k].user = user => k \in ks /\ rows'[k].group = GroupsOf(ks)[k]
  <2>1. CASE Key[k].user = user
    <3>1. k \in ks /\ rows'[k].group = GroupsOf(ks)[k]
      BY <1>5, <1>16, <2>1 DEF Regrouped
    <3>2. PICK r \in ks : GroupsOf(ks)[k] = rows[r].id /\ k \in Connected[r]
      BY <1>13, <3>1
    <3> QED
      BY <1>5, <1>14, <3>1, <3>2 DEF SameIds
  <2>2. CASE Key[k].user # user
    <3>1. rows'[k].group = rows[k].group
      BY <1>5, <2>2 DEF Regrouped
    <3>2. PICK r \in Keys : rows[r].id = rows[k].group /\ k \in Connected[r]
      BY <1>16, <3>1 DEF Held, GroupsOK
    <3> QED
      BY <1>5, <2>2, <3>1, <3>2 DEF SameIds
  <2> QED
    BY <2>1, <2>2
<1>17. ASSUME NEW j \in Keys, NEW k \in Keys, rows'[j].group # 0, rows'[k].group # 0, Share(j, k)
       PROVE  rows'[j].group = rows'[k].group
  <2>1. Key[j].user = Key[k].user
    BY <1>17 DEF Share
  <2>2. CASE Key[k].user = user
    BY <1>13, <1>16, <1>17, <2>1, <2>2
  <2>3. CASE Key[k].user # user
    <3>1. rows'[j].group = rows[j].group /\ rows'[k].group = rows[k].group
      BY <1>5, <2>1, <2>3 DEF Regrouped
    <3> QED
      BY <1>17, <3>1 DEF Held, GroupsOK
  <2> QED
    BY <2>2, <2>3
<1>18. GroupsOK'
  <2>1. \A j, k \in Keys : Share(j, k)' <=> Share(j, k)
    BY DEF Share
  <2>2. \A k \in Keys : Connected[k]' = Connected[k]
    BY DEF Connected, Share
  <2> QED
    BY <1>16, <1>17, <2>1, <2>2 DEF GroupsOK
<1> QED
  BY <1>5, <1>11, <1>15, <1>18 DEF Held

(* A restart releases every lock, with the transaction that held it. *)
LEMMA RestartHeld == ASSUME IInv, Books, Held, Restart PROVE Held'
<1>1. /\ rows' = rows /\ txns' = txns /\ work' = [p \in Runs |-> Gone] /\ keyLock' = [u \in Users |-> Free]
      /\ Runs' = Runs
  BY DEF Restart, Runs
<1>2. \A p \in Runs : work'[p].step # "locked"
  BY <1>1, GoneIs
<1>3. LockOK' /\ GroupableOK'
  BY <1>1, <1>2 DEF LockOK, GroupableOK
<1>4. Onward(rows, rows') /\ GroupsLeft(rows, rows')
  BY <1>1 DEF Onward, GroupsLeft
<1> QED
  BY <1>1, <1>3, <1>4, GroupsOn DEF Held, Books

(* A step of a run that leaves the rows, the transactions and the locks. *)
LEMMA HeldWork ==
    ASSUME IInv, Books, Held, SameRuns, NEW p \in Runs, NEW y, Becomes(p, y), y.step # "locked",
           rows' = rows, txns' = txns, keyLock' = keyLock
    PROVE  Held'
<1>1. Onward(rows, rows') /\ GroupsLeft(rows, rows')
  BY DEF Onward, GroupsLeft
<1> QED
  BY <1>1, HeldStep

(* A run that fails holds no lock from then on. *)
LEMMA FailsHeld ==
    ASSUME IInv, Books, Held, SameRuns, NEW p \in Runs, FailResolution(p) \/ FailWrite(p)
    PROVE  Books' /\ Held'
<1>1. Fails(p) /\ rows' = rows /\ txns' = txns /\ facts' = facts
  BY Zenon DEF FailResolution, FailWrite
<1>2. keyLock' = keyLock \/ (work[p].step = "locked" /\ keyLock' = [keyLock EXCEPT ![work[p].user] = Free])
  BY Zenon DEF FailResolution, FailWrite
<1>3. PICK y : Becomes(p, y) /\ Unwound(work[p], y)
  BY <1>1, FailsIs
<1>4. y.step # "locked"
  BY <1>3 DEF Unwound
<1>5. Onward(rows, rows') /\ GroupsLeft(rows, rows')
  BY <1>1 DEF Onward, GroupsLeft
<1>6. Held'
  BY <1>1, <1>2, <1>3, <1>4, <1>5, HeldStep
<1>7. Books'
  BY <1>1, FailsBooks
<1> QED
  BY <1>6, <1>7

(* A step of a goroutine keeps the books, the locks and the groups. *)
LEMMA StepHeld == ASSUME IInv, Books, Held, NEW p \in Runs, Step(p) PROVE Books' /\ Held'
<1>0. SameRuns
  BY RunsKept
<1>1. CASE Begin(p)
  <2>1. PICK y : Begins(p, y)
    BY <1>1, BeginIs
  <2>2. Becomes(p, y) /\ y.step = (IF work[p].todo = <<>> THEN "lock" ELSE "write")
    BY <2>1, Zenon DEF Begins
  <2>3. y.step # "locked" /\ rows' = rows /\ txns' = txns /\ keyLock' = keyLock
    BY <1>1, <2>2 DEF Begin
  <2> QED
    BY <1>0, <1>1, <2>2, <2>3, HeldWork, BeginBooks
<1>2. CASE WriteKey(p)
  <2>1. PICK y, k, o : Resolves(p, y, k, o)
    BY <1>2, WriteKeyIs
  <2>2. Becomes(p, y) /\ y.step = (IF Len(work[p].todo) = 1 THEN "lock" ELSE "write")
    BY <2>1, Zenon DEF Resolves
  <2>a. txns' = txns /\ keyLock' = keyLock
    BY <1>2, Zenon DEF WriteKey, WriteOutcome
  <2>3. y.step # "locked" /\ txns' = txns /\ keyLock' = keyLock
    BY <2>2, <2>a
  <2>4. Books' /\ Onward(rows, rows') /\ GroupsLeft(rows, rows')
    BY <1>2, WriteKeyBooks
  <2> QED
    BY <1>0, <2>2, <2>3, <2>4, HeldStep
<1>3. CASE FailResolution(p) \/ FailWrite(p)
  BY <1>0, <1>3, FailsHeld
<1>4. CASE WriteConfirmed(p)
  <2>1. PICK y, k, told, tickers : Confirms(p, y, k, told, tickers)
    BY <1>4, WriteConfirmedIs
  <2>2. Becomes(p, y) /\ y.step = "follow"
    BY <2>1, Zenon DEF Confirms
  <2>3. y.step # "locked" /\ txns' = txns /\ keyLock' = keyLock
    BY <1>4, <2>2 DEF WriteConfirmed
  <2>4. Books' /\ Onward(rows, rows') /\ GroupsLeft(rows, rows')
    BY <1>4, WriteConfirmedBooks
  <2> QED
    BY <1>0, <2>2, <2>3, <2>4, HeldStep
<1>5. CASE RefuseConfirm(p) \/ SettleStmt(p) \/ FailSettle(p)
  <2>1. PICK y : y = Gone
    OBVIOUS
  <2>2. Becomes(p, y) /\ y.step # "locked"
    BY <1>5, <2>1, EndIs, GoneIs
  <2>3. rows' = rows /\ txns' = txns /\ keyLock' = keyLock
    BY <1>5 DEF RefuseConfirm, SettleStmt, FailSettle
  <2> QED
    BY <1>0, <1>5, <2>2, <2>3, HeldWork, EndBooks
<1>6. CASE LockUserKeys(p)
  BY <1>6, LockHeld, LockBooks
<1>7. CASE Commit(p)
  BY <1>7, CommitHeld
<1>8. CASE replayFacts(p)
  <2>1. PICK y, t, f, L : ListsKeys(p, y, t, f, L)
    BY <1>8, ListIs
  <2>2. PICK e : Relists(p, y, e)
    BY <2>1, Zenon DEF ListsKeys
  <2>3. Becomes(p, y) /\ y.step # "locked" /\ rows' = rows /\ txns' = txns /\ keyLock' = keyLock
    BY <1>8, <2>2 DEF Relists, replayFacts
  <2> QED
    BY <1>0, <1>8, <2>3, HeldWork, ListBooks
<1>9. CASE FailListing(p)
  <2>1. PICK y, t, f : ListsNone(p, y, t, f)
    BY <1>9, FailListingIs
  <2>2. PICK e : Relists(p, y, e)
    BY <2>1, Zenon DEF ListsNone
  <2>3. Becomes(p, y) /\ y.step # "locked" /\ rows' = rows /\ txns' = txns /\ keyLock' = keyLock
    BY <1>9, <2>2 DEF Relists, FailListing
  <2> QED
    BY <1>0, <1>9, <2>3, HeldWork, FailListingBooks
<1>10. CASE replayKeys(p)
  <2>1. PICK y, u, f, ks : Replays(p, y, u, f, ks)
    BY <1>10, ReplayKeysIs
  <2>2. Becomes(p, y) /\ y.step = (IF y.todo = <<>> THEN "lock" ELSE "write")
    BY <2>1, Zenon DEF Replays
  <2>3. y.step # "locked" /\ rows' = rows /\ txns' = txns /\ keyLock' = keyLock
    BY <1>10, <2>2 DEF replayKeys
  <2> QED
    BY <1>0, <1>10, <2>2, <2>3, HeldWork, ReplayKeysBooks
<1>11. CASE FollowedUp(p)
  <2>1. PICK y : Pops(p, y)
    BY <1>11, FollowedUpIs
  <2>2. Becomes(p, y) /\ (y.step \in {"follow", "settle"} \/ y = Gone)
    BY <2>1 DEF Pops
  <2>3. y.step # "locked"
    BY <2>2, GoneIs
  <2>4. rows' = rows /\ txns' = txns /\ keyLock' = keyLock
    BY <1>11 DEF FollowedUp
  <2> QED
    BY <1>0, <1>11, <2>2, <2>3, <2>4, HeldWork, FollowedUpBooks
<1> QED
  BY <1>1, <1>2, <1>3, <1>4, <1>5, <1>6, <1>7, <1>8, <1>9, <1>10, <1>11, Zenon DEF Step

(* Every step does. *)
LEMMA NextHeld == ASSUME IInv, Books, Held, [Next]_vars PROVE Books' /\ Held'
<1>1. CASE UNCHANGED vars
  <2>1. /\ runs' = runs /\ work' = work /\ txns' = txns /\ rows' = rows /\ facts' = facts /\ keyLock' = keyLock
        /\ Runs' = Runs
    BY <1>1 DEF vars, Runs
  <2>2. SameRuns
    BY <2>1 DEF SameRuns
  <2>3. /\ Stmts' = Stmts /\ \A k \in Keys : StatedBy(k)' <=> StatedBy(k)
        /\ \A s \in Stmts : Accepted(s)' = Accepted(s)
    BY <2>2, SameStated
  <2>4. Books'
    BY <2>1, <2>3 DEF Books, Stored, TxnsStated
  <2>5. Onward(rows, rows') /\ GroupsLeft(rows, rows')
    BY <2>1 DEF Onward, GroupsLeft
  <2>6. EveryHoldingCounted' /\ GroupsOK'
    BY <2>1, <2>5, GroupsOn DEF Held, Books
  <2>7. ASSUME NEW q \in Runs, work[q].step = "locked" PROVE MayGroup(q)' /\ Covers(q)'
    <3>1. Written(q)' = Written(q)
      BY <2>1, WrittenKept
    <3>2. MayGroup(q) /\ Covers(q)
      BY <2>7 DEF Held, GroupableOK
    <3> QED
      BY <2>1, <2>5, <3>1, <3>2, CoversOn
  <2>8. LockOK' /\ GroupableOK'
    BY <2>1, <2>7 DEF Held, LockOK, GroupableOK
  <2> QED
    BY <2>4, <2>6, <2>8 DEF Held
<1>2. ASSUME NEW u \in Uploads, Create(u) PROVE Books' /\ Held'
  <2>1. Books' /\ Onward(rows, rows') /\ \A k \in Keys : rows'[k].group = rows[k].group
    BY <1>2, CreateBooks
  <2>2. PICK todo, user : Queue("stmt", u, user, todo)
    BY <1>2 DEF Create
  <2>3. PICK y, z : Queued("stmt", u, user, todo, y, z)
    BY <2>2, QueueIs
  <2>4. Adds(y, z) /\ y.step # "locked" /\ txns' = txns /\ keyLock' = keyLock
    BY <1>2, <2>3 DEF Create, Queued
  <2> QED
    BY <2>1, <2>4, HeldAdd
<1>3. CASE StartReplay
  <2>1. Books'
    BY <1>3, StartReplayBooks
  <2>2. PICK up, user, todo, y, z : Queued("replay", up, user, todo, y, z)
    BY <1>3, StartReplayBooks
  <2>3. Adds(y, z) /\ y.step # "locked" /\ rows' = rows /\ txns' = txns /\ keyLock' = keyLock
    BY <1>3, <2>2 DEF StartReplay, Queued
  <2>4. Onward(rows, rows')
    BY <2>3 DEF Onward
  <2> QED
    BY <2>1, <2>3, <2>4, HeldAdd
<1>4. CASE StartConfirm
  <2>1. Books'
    BY <1>4, StartConfirmBooks
  <2>2. PICK y, z : Starts(y, z)
    BY <1>4, StartConfirmBooks
  <2>3. Adds(y, z) /\ y.step # "locked" /\ rows' = rows /\ txns' = txns /\ keyLock' = keyLock
    BY <1>4, <2>2 DEF StartConfirm, Starts
  <2>4. Onward(rows, rows')
    BY <2>3 DEF Onward
  <2> QED
    BY <2>1, <2>3, <2>4, HeldAdd
<1> QED
  BY <1>1, <1>2, <1>3, <1>4, StepHeld, RestartBooks, RestartHeld DEF Next

(* The books, locks and groups of every behaviour: a run that writes has    *)
(* the key lock of its user, the keys it listed under the lock cover the    *)
(* transactions it writes, and groups are of connected keys (group.go,      *)
(* Regroup; write.go, write).                                               *)
THEOREM IngestHeld == Spec => [](IInv /\ Books /\ Held)
<1>1. Init => Books /\ Held
  <2> SUFFICES ASSUME Init PROVE Books /\ Held
    OBVIOUS
  <2>1. Runs = {} /\ Stmts = {} /\ txns = {} /\ facts = {}
    BY EmptySeq DEF Init, Runs, Stmts
  <2>2. PICK a : a = Absent
    OBVIOUS
  <2>3. IsRow(a) /\ a.id = 0 /\ a.assoc = "none" /\ a.arbiter = "none" /\ a.group = 0
    BY <2>2 DEF Absent, IsRow
  <2>4. rows = [k \in Keys |-> a]
    BY <2>2 DEF Init
  <2>5. \A k \in Keys : RowOK(k, a)
    BY <2>3 DEF RowOK
  <2>6. RowsOK(rows)
    BY <2>3, <2>4, <2>5 DEF RowsOK
  <2>7. Stored
    BY <2>1, <2>3, <2>4 DEF Stored, StatedBy
  <2>8. Books
    BY <2>1, <2>6, <2>7 DEF Books, TxnsStated
  <2>9. LockOK /\ GroupableOK
    BY <2>1 DEF Init, LockOK, GroupableOK
  <2>10. EveryHoldingCounted
    BY <2>1 DEF EveryHoldingCounted, HasTxn
  <2>11. GroupsOK
    BY <2>3, <2>4 DEF GroupsOK
  <2> QED
    BY <2>8, <2>9, <2>10, <2>11 DEF Held
<1>2. IInv /\ Books /\ Held /\ [Next]_vars => Books' /\ Held'
  BY NextHeld
<1> QED
  BY <1>1, <1>2, IngestInductive, PTL DEF Spec

(* Whatever is resolved, confirmed, fails or is regrouped meanwhile, a key  *)
(* with a transaction has an instrument or a group, so that the list of the *)
(* user's holdings counts it (holding.go, groups).                          *)
THEOREM HoldingsCounted == Spec => []EveryHoldingCounted
<1>1. Held => EveryHoldingCounted
  BY DEF Held
<1> QED
  BY <1>1, IngestHeld, PTL

(* Grouped keys that share a joining identifier share their group, and the  *)
(* keys of one group are connected through identifiers (group.go, of and    *)
(* Regroup).                                                                *)
THEOREM GroupsFollow == Spec => []GroupsFollowIdentifiers
<1>1. Books /\ Held => GroupsFollowIdentifiers
  <2> SUFFICES ASSUME Books, Held, NEW j \in Keys, NEW k \in Keys, rows[j].group # 0, rows[k].group # 0
               PROVE  /\ Share(j, k) => rows[j].group = rows[k].group
                      /\ rows[j].group = rows[k].group => k \in Connected[j]
    BY DEF GroupsFollowIdentifiers
  <2>1. Share(j, k) => rows[j].group = rows[k].group
    BY DEF Held, GroupsOK
  <2>2. ASSUME rows[j].group = rows[k].group PROVE k \in Connected[j]
    <3>1. PICK r \in Keys : rows[r].id = rows[j].group /\ j \in Connected[r]
      BY DEF Held, GroupsOK
    <3>2. PICK s \in Keys : rows[s].id = rows[k].group /\ k \in Connected[s]
      BY DEF Held, GroupsOK
    <3>3. r = s
      BY <2>2, <3>1, <3>2 DEF Books, RowsOK
    <3>4. r \in Connected[j]
      BY <3>1, ConnectedBack
    <3> QED
      BY <3>2, <3>3, <3>4, ConnectedOn
  <2> QED
    BY <2>1, <2>2
<1> QED
  BY <1>1, IngestHeld, PTL

-----------------------------------------------------------------------------
(* What the follow-ups still reach *)

\* The run at work v will still come to key k: its follow-up is to list the
\* keys that state what it told, has listed it, or is to write it and knows
\* the fact.
Reached(v, k) ==
    \/ v.step \in Busy /\ datedTicker(Key[k]) \in v.told
    \/ /\ v.step \in Busy \cup {"follow"}
       /\ \E n \in DOMAIN v.frames : \/ datedTicker(Key[k]) \in v.frames[n].tickers /\ k \notin v.frames[n].picked
                                     \/ k \in v.frames[n].listed
    \/ v.step = "write" /\ k \in v.known /\ \E n \in DOMAIN v.todo : v.todo[n][1] = k /\ ~v.todo[n][2]

\* The key k is held, or about to be, and facts date it, but it is not
\* associated.
Needs(k) == /\ k \notin excused /\ k \notin CashRefused
            /\ HasTxn(k) \/ k \in InFlight
            /\ datedTicker(Key[k]) \in facts /\ rows[k].assoc = "none"

Reach == \A k \in Keys : Needs(k) => \E p \in Runs : Reached(work[p], k)

(* A key that facts date states their ticker (datedTicker). *)
LEMMA StatesDated == ASSUME NEW k \in Keys, NoTicker \notin facts, datedTicker(Key[k]) \in facts
      PROVE States(k, datedTicker(Key[k]))
<1>1. PICK key : key = Key[k]
  OBVIOUS
<1>2. PICK ts : ts = MarketTickers(key.ids)
  OBVIOUS
<1>3. datedTicker(key) # NoTicker
  BY <1>1
<1>4. ts # {} /\ datedTicker(key) = CHOOSE t \in ts : TRUE
  BY <1>2, <1>3 DEF datedTicker
<1>5. datedTicker(key) \in ts
  BY <1>4
<1> QED
  BY <1>1, <1>2, <1>5 DEF States

(* The keys a run will still come to are those its failure excuses. *)
LEMMA ReachedAwaits ==
    ASSUME Books, NEW p \in Runs, NEW k \in Keys, datedTicker(Key[k]) \in facts, Reached(work[p], k)
    PROVE  k \in Awaiting(p)
<1>1. PICK x, D : x = work[p] /\ D = datedTicker(Key[k])
  OBVIOUS
<1>2. States(k, D)
  BY <1>1, StatesDated DEF Books
<1>3. \/ D \in x.told
      \/ \E n \in DOMAIN x.frames : D \in x.frames[n].tickers \/ k \in x.frames[n].listed
      \/ \E n \in DOMAIN x.todo : x.todo[n][1] = k
  BY <1>1 DEF Reached
<1> QED
  BY <1>1, <1>2, <1>3 DEF Awaiting

(* The keys in flight after a step of one run. *)
LEMMA FlightIs ==
    ASSUME SameRuns, NEW p \in Runs, NEW y, Becomes(p, y), NEW k \in InFlight'
    PROVE  k \in InFlight \/ (k \in y.keys /\ y.step \in Busy)
<1>1. PICK q \in Runs' : work'[q].step \in Busy /\ k \in work'[q].keys
  BY DEF InFlight, Busy
<1>2. q \in Runs
  BY <1>1 DEF SameRuns
<1>3. CASE q = p
  BY <1>1, <1>3 DEF Becomes
<1>4. CASE q # p
  <2>1. work'[q] = work[q]
    BY <1>2, <1>4 DEF Becomes
  <2> QED
    BY <1>1, <1>2, <2>1 DEF InFlight, Busy
<1> QED
  BY <1>3, <1>4

(* The keys of a run at work are in flight. *)
LEMMA AtFlight == ASSUME NEW p \in Runs, work[p].step \in Busy, NEW k \in work[p].keys PROVE k \in InFlight
BY DEF InFlight, Busy

(* A step of one run, which still reaches what it did, and what now needs it. *)
LEMMA ReachStep ==
    ASSUME Reach, SameRuns, NEW p \in Runs, NEW y, Becomes(p, y),
           \A k \in Keys : Needs(k)' => Reached(y, k) \/ (Needs(k) /\ ~Reached(work[p], k))
    PROVE  Reach'
<1>1. ASSUME NEW k \in Keys, Needs(k)' PROVE \E q \in Runs : Reached(work'[q], k)
  <2>1. CASE Reached(y, k)
    BY <2>1 DEF Becomes
  <2>2. CASE Needs(k) /\ ~Reached(work[p], k)
    <3>1. PICK q \in Runs : Reached(work[q], k)
      BY <2>2 DEF Reach
    <3>2. q # p
      BY <2>2, <3>1
    <3>3. work'[q] = work[q]
      BY <3>2 DEF Becomes
    <3> QED
      BY <3>1, <3>3
  <2> QED
    BY <1>1, <2>1, <2>2
<1> QED
  BY <1>1 DEF Reach, SameRuns

(* A step that has nobody in flight, writes no transaction and no fact.    *)
LEMMA NeedsKept ==
    ASSUME SameRuns, NEW p \in Runs, NEW y, Becomes(p, y), NEW k \in Keys, Needs(k)',
           k \in y.keys /\ y.step \in Busy => k \in InFlight,
           Onward(rows, rows'), txns' = txns, excused \subseteq excused', datedTicker(Key[k]) \in facts
    PROVE  Needs(k)
<1>1. k \notin excused /\ k \notin CashRefused
  BY DEF Needs
<1>2. HasTxn(k) \/ k \in InFlight
  BY FlightIs DEF Needs, HasTxn
<1>3. rows[k].assoc = "none"
  BY DEF Needs, Onward
<1> QED
  BY <1>1, <1>2, <1>3 DEF Needs

(* A run that begins knows which of its keys the facts date, and has all of *)
(* them to write.                                                           *)
LEMMA BeginReach == ASSUME IInv, Books, Reach, NEW p \in Runs, Begin(p) PROVE Reach'
<1>1. PICK y : Begins(p, y)
  BY BeginIs
<1>2. PICK x : x = work[p]
  OBVIOUS
<1>3. /\ Becomes(p, y) /\ y.step = (IF x.todo = <<>> THEN "lock" ELSE "write") /\ y.keys = x.keys /\ y.todo = x.todo
      /\ y.known = {k \in x.keys : datedTicker(Key[k]) \in facts}
  BY <1>1, <1>2, Zenon DEF Begins
<1>4. x.step = "queued" /\ rows' = rows /\ txns' = txns /\ facts' = facts /\ excused' = excused
  BY <1>2 DEF Begin
<1>5. TodoOK(x, rows)
  BY <1>2 DEF Books, HoldsOK
<1>6. SameRuns
  BY RunsKept DEF Step
<1>7. ASSUME NEW k \in Keys, Needs(k)' PROVE Reached(y, k) \/ (Needs(k) /\ ~Reached(x, k))
  <2>1. rows[k].assoc = "none" /\ datedTicker(Key[k]) \in facts
    BY <1>4, <1>7 DEF Needs
  <2>2. ~Reached(x, k)
    BY <1>4 DEF Reached, Busy
  <2>3. CASE k \in y.keys
    <3>1. PICK n \in DOMAIN x.todo : x.todo[n][1] = k
      BY <1>3, <1>4, <1>5, <2>3 DEF TodoOK
    <3>2. ~x.todo[n][2]
      BY <1>5, <2>1, <3>1 DEF TodoOK
    <3>3. x.todo # <<>>
      BY <3>1, NoElements
    <3>4. y.step = "write" /\ k \in y.known
      BY <1>3, <2>1, <2>3, <3>3
    <3> QED
      BY <1>3, <3>1, <3>2, <3>4 DEF Reached
  <2>4. CASE k \notin y.keys
    <3>1. Onward(rows, rows')
      BY <1>4 DEF Onward
    <3>2. Needs(k)
      BY <1>3, <1>4, <1>6, <1>7, <2>1, <2>4, <3>1, NeedsKept
    <3> QED
      BY <2>2, <3>2
  <2> QED
    BY <2>3, <2>4
<1> QED
  BY <1>2, <1>3, <1>6, <1>7, ReachStep

(* A key that was not dated and is known to be is associated (resolve.go). *)
LEMMA OutcomeKnown ==
    ASSUME NEW k, k \notin CashRefused, NEW dated, ~dated, NEW known, known, NEW o \in Outcomes(k, dated, known)
    PROVE  o.assoc # "none"
<1>1. CASE statesCurrency(Key[k])
  <2>1. o.assoc = "fixed"
    BY <1>1 DEF Outcomes
  <2> QED
    BY <2>1
<1>2. CASE ~statesCurrency(Key[k])
  <2>1. o.assoc = "dated"
    BY <1>2 DEF Outcomes
  <2> QED
    BY <2>1
<1> QED
  BY <1>1, <1>2

(* A key that was known to be dated is associated when it is written, and   *)
(* the tickers an answer tells of are kept to be followed.                  *)
LEMMA WriteKeyReach == ASSUME IInv, Books, Reach, NEW p \in Runs, WriteKey(p) PROVE Reach'
<1>1. PICK y, kk, o : Resolves(p, y, kk, o)
  BY WriteKeyIs
<1>2. PICK x, h : x = work[p] /\ h = Head(x.todo)
  OBVIOUS
<1>3. /\ Becomes(p, y) /\ y.step = (IF Len(x.todo) = 1 THEN "lock" ELSE "write") /\ y.keys = x.keys /\ y.todo = Tail(x.todo)
      /\ y.told = x.told \cup (o.told \cup o.lacked) /\ y.frames = x.frames /\ y.known = x.known /\ facts' = facts \cup o.told
  BY <1>1, <1>2, Zenon DEF Resolves
<1>4. x.step = "write" /\ txns' = txns /\ excused' = excused
  BY <1>2, Zenon DEF WriteKey, WriteOutcome
<1>5. TodoOK(x, rows) /\ RowsOK(rows) /\ HoldsOK(x, runs[p], rows)
  BY <1>2 DEF Books, HoldsOK
<1>6. SameRuns
  BY RunsKept DEF Step
<1>7. Onward(rows, rows')
  BY WriteKeyBooks
<1>8. IsList(x.todo) /\ x.todo # <<>>
  BY <1>4, <1>5 DEF TodoOK
<1>9. /\ 1 \in DOMAIN x.todo /\ h = x.todo[1]
      /\ \A n \in DOMAIN x.todo : n # 1 => n - 1 \in DOMAIN Tail(x.todo) /\ Tail(x.todo)[n - 1] = x.todo[n]
  BY <1>2, <1>8, TailIs
<1>10. y.step \in Busy
  BY <1>3 DEF Busy
<1>11. ASSUME NEW k \in Keys, Needs(k)' PROVE Reached(y, k) \/ (Needs(k) /\ ~Reached(x, k))
  <2>1. PICK D : D = datedTicker(Key[k])
    OBVIOUS
  <2>2. CASE D \in o.told
    BY <1>3, <1>10, <2>1, <2>2 DEF Reached
  <2>3. CASE D \notin o.told
    <3>1. D \in facts /\ rows'[k].assoc = "none" /\ k \notin CashRefused
      BY <1>3, <1>11, <2>1, <2>3 DEF Needs
    <3>2. k \in y.keys => k \in InFlight
      BY <1>2, <1>3, <1>4, AtFlight DEF Busy
    <3>3. Needs(k)
      BY <1>3, <1>4, <1>6, <1>7, <1>11, <2>1, <3>1, <3>2, NeedsKept
    <3>4. CASE D \in x.told
      BY <1>3, <1>10, <2>1, <3>4 DEF Reached
    <3>5. CASE \E n \in DOMAIN x.frames : (D \in x.frames[n].tickers /\ k \notin x.frames[n].picked) \/ k \in x.frames[n].listed
      BY <1>3, <1>10, <2>1, <3>5 DEF Reached
    <3>6. ASSUME k \in x.known, NEW n \in DOMAIN x.todo, x.todo[n][1] = k, ~x.todo[n][2] PROVE Reached(y, k)
      <4>1. n # 1
        <5>1. SUFFICES ASSUME n = 1 PROVE FALSE
          OBVIOUS
        <5>2. h[1] = k /\ ~h[2] /\ kk = k
          BY <1>1, <1>2, <1>9, <3>6, <5>1 DEF Resolves
        <5>3. PICK dated, known : dated = h[2] /\ known = (k \in x.known)
          OBVIOUS
        <5>4. o \in Outcomes(k, dated, known)
          BY <1>1, <1>2, <5>2, <5>3, Zenon DEF Resolves
        <5>5. datedTicker(Key[k]) # NoTicker /\ known /\ ~dated
          BY <1>5, <3>6, <5>2, <5>3 DEF HoldsOK
        <5>6. MayWrite(k, o.assoc, o.arbiter) /\ o.assoc # "none"
          <6>1. MayWrite(k, o.assoc, o.arbiter)
            BY <5>4, <5>5, OutcomeIs
          <6>2. o.assoc # "none"
            BY <3>1, <5>4, <5>5, OutcomeKnown
          <6> QED
            BY <6>1, <6>2
        <5>a. PICK a, b : a = o.assoc /\ b = o.arbiter
          OBVIOUS
        <5>7. rows' = [rows EXCEPT ![k] = SetAssociation(rows[k], a, b)]
          BY <1>1, <5>2, <5>a, Zenon DEF Resolves
        <5>8. rows[k].id # 0
          BY <1>5, <1>9, <5>1, <3>6 DEF HoldsOK, TodoOK
        <5>9. rows'[k].assoc # "none"
          BY <1>5, <5>6, <5>a, <5>7, <5>8, WrittenRows
        <5> QED
          BY <3>1, <5>9
      <4>2. PICK m \in DOMAIN Tail(x.todo) : Tail(x.todo)[m] = x.todo[n]
        BY <1>9, <4>1
      <4>3. Len(x.todo) # 1
        <5>1. PICK l \in Nat : l = Len(x.todo) /\ DOMAIN x.todo = 1..l
          BY <1>8 DEF IsList
        <5>2. n \in 1..l
          BY <3>6, <5>1
        <5>3. l # 1
          BY <4>1, <5>2
        <5> QED
          BY <5>1, <5>3
      <4> QED
        BY <1>3, <3>6, <4>2, <4>3 DEF Reached
    <3> QED
      BY <2>1, <3>3, <3>4, <3>5, <3>6 DEF Reached
  <2> QED
    BY <2>2, <2>3
<1> QED
  BY <1>2, <1>3, <1>6, <1>11, ReachStep

(* What a run that fails would still have come to is excused, and nothing   *)
(* else.                                                                    *)
LEMMA FailsReach ==
    ASSUME IInv, Books, Reach, NEW p \in Runs, FailResolution(p) \/ FailWrite(p)
    PROVE  Reach'
<1>1. /\ Fails(p) /\ rows' = rows /\ txns' = txns /\ facts' = facts /\ excused' = excused \cup Awaiting(p)
  BY Zenon DEF FailResolution, FailWrite
<1>2. PICK y : Becomes(p, y) /\ Unwound(work[p], y)
  BY <1>1, FailsIs
<1>3. SameRuns
  BY RunsKept DEF Step
<1>4. Onward(rows, rows')
  BY <1>1 DEF Onward
<1>5. y.keys = {}
  BY <1>2 DEF Unwound
<1>6. ASSUME NEW k \in Keys, Needs(k)' PROVE Needs(k) /\ ~Reached(work[p], k)
  <2>1. datedTicker(Key[k]) \in facts /\ k \notin Awaiting(p)
    BY <1>1, <1>6 DEF Needs
  <2>2. Needs(k)
    BY <1>1, <1>2, <1>3, <1>4, <1>5, <1>6, <2>1, NeedsKept
  <2> QED
    BY <2>1, <2>2, ReachedAwaits
<1> QED
  BY <1>2, <1>3, <1>6, ReachStep

(* The tickers told of at a confirmation are followed by its own run. *)
LEMMA WriteConfirmedReach == ASSUME IInv, Books, Reach, NEW p \in Runs, WriteConfirmed(p) PROVE Reach'
<1>1. PICK y, kk, told, tickers : Confirms(p, y, kk, told, tickers)
  BY WriteConfirmedIs
<1>2. PICK x, e : x = work[p] /\ e = [except |-> {kk}, tickers |-> tickers, listed |-> {}, picked |-> {}]
  OBVIOUS
<1>3. Becomes(p, y) /\ y.step = "follow" /\ y.keys = {} /\ y.frames = <<e>> /\ facts' = facts \cup told
      /\ told \subseteq tickers
  BY <1>1, <1>2, Zenon DEF Confirms
<1>4. x.step = "confirm" /\ txns' = txns /\ excused' = excused
  BY <1>2 DEF WriteConfirmed
<1>5. SameRuns
  BY RunsKept DEF Step
<1>6. Onward(rows, rows')
  BY WriteConfirmedBooks
<1>7. 1 \in DOMAIN y.frames /\ y.frames[1] = e /\ e.tickers = tickers /\ e.picked = {}
  BY <1>2, <1>3
<1>8. ASSUME NEW k \in Keys, Needs(k)' PROVE Reached(y, k) \/ (Needs(k) /\ ~Reached(x, k))
  <2>1. CASE datedTicker(Key[k]) \in told
    BY <1>3, <1>7, <2>1 DEF Reached
  <2>2. CASE datedTicker(Key[k]) \notin told
    <3>1. datedTicker(Key[k]) \in facts
      BY <1>3, <1>8, <2>2 DEF Needs
    <3>2. Needs(k)
      BY <1>3, <1>4, <1>5, <1>6, <1>8, <3>1, NeedsKept
    <3>3. ~Reached(x, k)
      BY <1>4 DEF Reached, Busy
    <3> QED
      BY <3>2, <3>3
  <2> QED
    BY <2>1, <2>2
<1> QED
  BY <1>2, <1>3, <1>5, <1>8, ReachStep

(* A run at the lock will still follow what it told. *)
LEMMA LockReach == ASSUME IInv, Books, Reach, NEW p \in Runs, LockUserKeys(p) PROVE Reach'
<1>1. PICK y : Locks(p, y)
  BY LockIs
<1>2. PICK x : x = work[p]
  OBVIOUS
<1>3. Becomes(p, y) /\ y.step = "locked" /\ y.keys = x.keys /\ y.told = x.told /\ y.frames = x.frames
  BY <1>1, <1>2 DEF Locks
<1>4. x.step = "lock" /\ rows' = rows /\ txns' = txns /\ facts' = facts /\ excused' = excused
  BY <1>2 DEF LockUserKeys
<1>5. SameRuns
  BY RunsKept DEF Step
<1>6. Onward(rows, rows')
  BY <1>4 DEF Onward
<1>7. ASSUME NEW k \in Keys, Needs(k)' PROVE Reached(y, k) \/ (Needs(k) /\ ~Reached(x, k))
  <2>1. datedTicker(Key[k]) \in facts
    BY <1>4, <1>7 DEF Needs
  <2>2. k \in y.keys => k \in InFlight
    BY <1>2, <1>3, <1>4, AtFlight DEF Busy
  <2>3. Needs(k)
    BY <1>3, <1>4, <1>5, <1>6, <1>7, <2>1, <2>2, NeedsKept
  <2>4. Reached(x, k) => Reached(y, k)
    BY <1>3, <1>4 DEF Reached, Busy
  <2> QED
    BY <2>3, <2>4
<1> QED
  BY <1>2, <1>3, <1>5, <1>7, ReachStep

(* A key whose transactions are written was in flight, or is associated;    *)
(* what the run told is the first listing to follow.                        *)
LEMMA CommitReach == ASSUME IInv, Books, Held, Reach, NEW p \in Runs, Commit(p) PROVE Reach'
<1>1. PICK y : Commits(p, y)
  BY CommitIs
<1>2. PICK x, e, g : /\ x = work[p] /\ g = x.frames
                     /\ e = [except |-> work[p].keys, tickers |-> work[p].told, listed |-> {}, picked |-> {}]
  OBVIOUS
<1>a. PICK f : f = Pending(g)
  OBVIOUS
<1>3. Becomes(p, y) /\ y.step = "follow" /\ y.keys = {} /\ y.frames = <<e>> \o f
  BY <1>1, <1>2, <1>a, Zenon DEF Commits
<1>4. x.step = "locked" /\ txns' = Written(p) /\ facts' = facts /\ excused' = excused
  BY <1>2 DEF Commit
<1>5. SameRuns
  BY RunsKept DEF Step
<1>6. HoldsOK(x, runs[p], rows) /\ IsList(g)
  BY <1>2 DEF Books, HoldsOK, FramesOK
<1>b. f = g \/ (g # <<>> /\ Head(g).listed = {} /\ Head(g).tickers = {} /\ f = Tail(g))
  BY <1>a DEF Pending
<1>c. IsList(f) /\ \A n \in DOMAIN g : (n = 1 /\ g[n].listed = {} /\ g[n].tickers = {}) \/ \E m \in DOMAIN f : f[m] = g[n]
  <2>1. CASE f = g
    BY <1>6, <2>1
  <2>2. CASE g # <<>> /\ Head(g).listed = {} /\ Head(g).tickers = {} /\ f = Tail(g)
    <3>1. /\ IsList(f) /\ Head(g) = g[1]
          /\ \A n \in DOMAIN g : n # 1 => n - 1 \in DOMAIN f /\ f[n - 1] = g[n]
      BY <1>6, <2>2, TailIs
    <3> QED
      BY <2>2, <3>1
  <2> QED
    BY <1>b, <2>1, <2>2
<1>d. \A n \in DOMAIN f : n + 1 \in DOMAIN y.frames /\ y.frames[n + 1] = f[n]
  BY <1>3, <1>c DEF IsList
<1>7. 1 \in DOMAIN y.frames /\ y.frames[1] = e
  BY <1>3, <1>c DEF IsList
<1>8. \A k \in Keys : rows'[k].assoc = rows[k].assoc
  <2>1. MayGroup(p)
    BY <1>2, <1>4 DEF Held, GroupableOK
  <2>2. PICK user, ks : user = work[p].user /\ ks = work[p].groupable
    OBVIOUS
  <2>3. Regrouped(rows, rows', user, ks)
    BY <2>1, <2>2, CommitBooks
  <2> QED
    BY <2>3 DEF Regrouped
<1>9. ASSUME NEW k \in Keys, Needs(k)' PROVE Reached(y, k) \/ (Needs(k) /\ ~Reached(x, k))
  <2>1. datedTicker(Key[k]) \in facts /\ rows[k].assoc = "none" /\ k \notin CashRefused /\ k \notin excused
    BY <1>4, <1>8, <1>9 DEF Needs
  <2>2. HasTxn(k) \/ k \in InFlight
    <3>1. CASE k \in InFlight'
      BY <1>3, <1>5, <3>1, FlightIs
    <3>2. CASE k \notin InFlight'
      <4>1. PICK z \in Written(p) : z.key = k
        BY <1>4, <1>9, <3>2 DEF Needs, HasTxn
      <4>2. CASE z \in txns
        BY <4>1, <4>2 DEF HasTxn
      <4>3. CASE Writing(p) /\ p \in Stmts /\ z \in Accepted(p)
        <5>1. PICK n \in DOMAIN Stated[runs[p].up] : Stated[runs[p].up][n] = k
          BY <4>1, <4>3, AcceptedIs
        <5>2. runs[p].kind = "stmt" /\ x.frames = <<>> /\ x.step \in Busy
          BY <1>2, <1>4, <4>3 DEF Writing, Busy
        <5>3. k \in x.keys
          BY <1>6, <2>1, <5>1, <5>2 DEF HoldsOK
        <5> QED
          BY <1>2, <5>2, <5>3, AtFlight
      <4> QED
        BY <4>1, <4>2, <4>3, WrittenIs
    <3> QED
      BY <3>1, <3>2
  <2>3. Needs(k)
    BY <2>1, <2>2 DEF Needs
  <2>4. CASE datedTicker(Key[k]) \in x.told
    <3>1. datedTicker(Key[k]) \in e.tickers /\ k \notin e.picked
      BY <1>2, <2>4
    <3> QED
      BY <1>3, <1>7, <3>1 DEF Reached
  <2>5. ASSUME NEW n \in DOMAIN g, (datedTicker(Key[k]) \in g[n].tickers /\ k \notin g[n].picked) \/ k \in g[n].listed
        PROVE  Reached(y, k)
    <3>0. PICK i \in DOMAIN f : f[i] = g[n]
      BY <1>c, <2>5
    <3>1. PICK m \in DOMAIN y.frames : y.frames[m] = g[n]
      BY <1>d, <3>0
    <3> QED
      BY <1>3, <2>5, <3>1 DEF Reached
  <2>6. x.step # "write"
    BY <1>4
  <2> QED
    BY <1>2, <2>3, <2>4, <2>5, <2>6 DEF Reached
<1> QED
  BY <1>2, <1>3, <1>5, <1>9, ReachStep

(* A listing changes: what the others reach is kept, and what it reached. *)
LEMMA RelistReach ==
    ASSUME IInv, Books, Reach, SameRuns, NEW p \in Runs, work[p].step = "follow", NEW y, NEW f, f = Top(p), NEW e, Relists(p, y, e),
           rows' = rows, txns' = txns, facts' = facts, excused \subseteq excused',
           \A k \in Keys : Needs(k) /\ Needs(k)' /\ ((datedTicker(Key[k]) \in f.tickers /\ k \notin f.picked) \/ k \in f.listed)
                              => (datedTicker(Key[k]) \in e.tickers /\ k \notin e.picked) \/ k \in e.listed
    PROVE  Reach'
<1>1. PICK x, g : x = work[p] /\ g = work[p].frames
  OBVIOUS
<1>2. Becomes(p, y) /\ y.step = "follow" /\ y.frames = [g EXCEPT ![1] = e]
  BY <1>1 DEF Relists
<1>3. IsList(g) /\ 1 \in DOMAIN g /\ f = g[1]
  BY <1>1, TopIs
<1>4. DOMAIN y.frames = DOMAIN g /\ y.frames[1] = e /\ \A n \in DOMAIN g : n # 1 => y.frames[n] = g[n]
  BY <1>2, <1>3
<1>5. Onward(rows, rows')
  BY DEF Onward
<1>6. ASSUME NEW k \in Keys, Needs(k)' PROVE Reached(y, k) \/ (Needs(k) /\ ~Reached(x, k))
  <2>1. datedTicker(Key[k]) \in facts
    BY <1>6 DEF Needs
  <2>2. y.step \notin Busy
    BY <1>2 DEF Busy
  <2>3. Needs(k)
    BY <1>2, <1>5, <1>6, <2>1, <2>2, NeedsKept
  <2>4. ASSUME NEW n \in DOMAIN g, (datedTicker(Key[k]) \in g[n].tickers /\ k \notin g[n].picked) \/ k \in g[n].listed
        PROVE  Reached(y, k)
    <3>1. CASE n = 1
      <4>1. (datedTicker(Key[k]) \in e.tickers /\ k \notin e.picked) \/ k \in e.listed
        BY <1>3, <1>6, <2>3, <2>4, <3>1
      <4> QED
        BY <1>2, <1>3, <1>4, <4>1 DEF Reached
    <3>2. CASE n # 1
      BY <1>2, <1>4, <2>4, <3>2 DEF Reached
    <3> QED
      BY <3>1, <3>2
  <2>5. x.step = "follow"
    BY <1>1
  <2> QED
    BY <1>1, <2>3, <2>4, <2>5 DEF Reached, Busy
<1> QED
  BY <1>1, <1>2, <1>6, ReachStep

(* A key that states the ticker is listed, unless it was excepted or in     *)
(* flight, and then it is excused (replayrun.go, replayFacts).              *)
LEMMA ListReach == ASSUME IInv, Books, Reach, NEW p \in Runs, replayFacts(p) PROVE Reach'
<1>1. PICK y, t, f, L : ListsKeys(p, y, t, f, L)
  BY ListIs
<1>2. PICK e : e = [f EXCEPT !.tickers = @ \ {t}, !.listed = L \ f.picked, !.picked = @ \cup L]
  OBVIOUS
<1>3. /\ f = Top(p) /\ f.listed = {} /\ L = ListUnassociatedKeysStating(t, f) /\ Relists(p, y, e)
      /\ excused' = excused \cup {k \in f.except \cup InFlight : States(k, t)}
  BY <1>1, <1>2, Zenon DEF ListsKeys
<1>4. work[p].step = "follow" /\ rows' = rows /\ txns' = txns /\ facts' = facts
  BY DEF replayFacts
<1>5. IsFrame(f)
  BY <1>3, <1>4, TopIs
<1>6. e.tickers = f.tickers \ {t} /\ e.listed = L \ f.picked /\ e.picked = f.picked \cup L
  BY <1>2, <1>5 DEF IsFrame
<1>7. SameRuns
  BY RunsKept DEF Step
<1>8. ASSUME NEW k \in Keys, Needs(k), Needs(k)', (datedTicker(Key[k]) \in f.tickers /\ k \notin f.picked) \/ k \in f.listed
      PROVE  (datedTicker(Key[k]) \in e.tickers /\ k \notin e.picked) \/ k \in e.listed
  <2>1. datedTicker(Key[k]) \in f.tickers /\ k \notin f.picked
    BY <1>3, <1>8
  <2>2. CASE k \in L
    BY <1>6, <2>1, <2>2
  <2>3. CASE k \notin L /\ datedTicker(Key[k]) # t
    BY <1>6, <2>1, <2>3
  <2>4. CASE k \notin L /\ datedTicker(Key[k]) = t
    <3>1. States(k, t)
      BY <1>8, <2>4, StatesDated DEF Needs, Books
    <3>2. k \notin excused'
      BY <1>8 DEF Needs
    <3>3. k \notin f.except /\ k \notin InFlight
      BY <1>3, <3>1, <3>2
    <3>4. HasTxn(k) /\ rows[k].assoc = "none"
      BY <1>8, <3>3 DEF Needs
    <3>5. rows[k].id # 0
      <4>1. PICK z \in txns : z.key = k
        BY <3>4 DEF HasTxn
      <4>2. PICK s \in Stmts : z \in Accepted(s)
        BY <4>1 DEF Books, TxnsStated
      <4> QED
        BY <4>1, <4>2, AcceptedIs
    <3>6. k \in L
      BY <1>3, <3>1, <3>3, <3>4, <3>5 DEF ListUnassociatedKeysStating
    <3> QED
      BY <2>4, <3>6
  <2> QED
    BY <2>2, <2>3, <2>4
<1>9. excused \subseteq excused'
  BY <1>3
<1> QED
  BY <1>3, <1>4, <1>7, <1>8, <1>9, RelistReach

(* A listing that fails excuses the keys that state its ticker. *)
LEMMA FailListingReach == ASSUME IInv, Books, Reach, NEW p \in Runs, FailListing(p) PROVE Reach'
<1>1. PICK y, t, f : ListsNone(p, y, t, f)
  BY FailListingIs
<1>2. PICK e : e = [f EXCEPT !.tickers = @ \ {t}]
  OBVIOUS
<1>3. f = Top(p) /\ f.listed = {} /\ Relists(p, y, e) /\ excused' = excused \cup {k \in Keys : States(k, t)}
  BY <1>1, <1>2, Zenon DEF ListsNone
<1>4. work[p].step = "follow" /\ rows' = rows /\ txns' = txns /\ facts' = facts
  BY DEF FailListing
<1>5. IsFrame(f)
  BY <1>3, <1>4, TopIs
<1>6. e.tickers = f.tickers \ {t} /\ e.listed = {} /\ e.picked = f.picked
  BY <1>2, <1>3, <1>5 DEF IsFrame
<1>7. SameRuns
  BY RunsKept DEF Step
<1>8. ASSUME NEW k \in Keys, Needs(k), Needs(k)', (datedTicker(Key[k]) \in f.tickers /\ k \notin f.picked) \/ k \in f.listed
      PROVE  datedTicker(Key[k]) \in e.tickers /\ k \notin e.picked
  <2>1. datedTicker(Key[k]) \in f.tickers /\ k \notin f.picked
    BY <1>3, <1>8
  <2>2. States(k, datedTicker(Key[k]))
    BY <1>8, StatesDated DEF Needs, Books
  <2>3. k \notin excused'
    BY <1>8 DEF Needs
  <2>4. datedTicker(Key[k]) # t
    BY <1>3, <2>2, <2>3
  <2> QED
    BY <1>6, <2>1, <2>4
<1>9. excused \subseteq excused'
  BY <1>3
<1> QED
  BY <1>3, <1>4, <1>7, <1>8, <1>9, RelistReach

(* The listed keys taken up are to be written, known to be dated; the       *)
(* others stay listed.                                                      *)
LEMMA ReplayKeysReach == ASSUME IInv, Books, Reach, NEW p \in Runs, replayKeys(p) PROVE Reach'
<1>1. PICK y, u, f, ks : Replays(p, y, u, f, ks)
  BY ReplayKeysIs
<1>2. PICK x, g, e : x = work[p] /\ g = work[p].frames /\ e = [f EXCEPT !.listed = @ \ ks]
  OBVIOUS
<1>3. /\ x.step = "follow" /\ RowsOK(rows) /\ rows' = rows /\ txns' = txns /\ facts' = facts /\ excused' = excused
  BY <1>2 DEF Books, replayKeys
<1>4. /\ f = Top(p) /\ ks = {k \in f.listed : Key[k].user = u}
      /\ Becomes(p, y) /\ y.todo = ToResolve(rows, InOrder(ks)) /\ y.step = (IF y.todo = <<>> THEN "lock" ELSE "write")
      /\ y.keys = ks /\ y.frames = [g EXCEPT ![1] = e]
      /\ y.known = {k \in ks : datedTicker(Key[k]) \in facts}
  BY <1>1, <1>2, Zenon DEF Replays
<1>5. IsFrame(f) /\ (\A k \in f.listed : k \in Keys /\ rows[k].id # 0) /\ IsList(g) /\ 1 \in DOMAIN g /\ f = g[1]
  BY <1>2, <1>3, <1>4, TopIs
<1>6. e.tickers = f.tickers /\ e.picked = f.picked /\ e.listed = f.listed \ ks
  BY <1>2, <1>5 DEF IsFrame
<1>7. DOMAIN y.frames = DOMAIN g /\ y.frames[1] = e /\ \A n \in DOMAIN g : n # 1 => y.frames[n] = g[n]
  BY <1>4, <1>5
<1>8. PICK todo : todo = ToResolve(rows, InOrder(ks)) /\ y.todo = todo
  BY <1>4
<1>9. /\ \A n \in DOMAIN todo : todo[n][1] \in ks /\ (todo[n][2] => rows[todo[n][1]].assoc # "none")
      /\ \A k \in ks : \E n \in DOMAIN todo : todo[n][1] = k
  <2>1. ks \subseteq Keys /\ \A k \in ks : rows[k].id # 0
    BY <1>4, <1>5
  <2> QED
    BY <1>3, <1>8, <2>1, ToResolveOrdered
<1>10. SameRuns
  BY RunsKept DEF Step
<1>11. Onward(rows, rows')
  BY <1>3 DEF Onward
<1>12. y.step \in Busy
  BY <1>4 DEF Busy
<1>13. ASSUME NEW k \in Keys, Needs(k)' PROVE Reached(y, k) \/ (Needs(k) /\ ~Reached(x, k))
  <2>1. datedTicker(Key[k]) \in facts /\ rows[k].assoc = "none"
    BY <1>3, <1>13 DEF Needs
  <2>2. CASE k \in ks
    <3>1. PICK n \in DOMAIN todo : todo[n][1] = k
      BY <1>9, <2>2
    <3>2. ~todo[n][2]
      BY <1>9, <2>1, <3>1
    <3>3. todo # <<>>
      BY <3>1, NoElements
    <3>4. y.step = "write" /\ k \in y.known
      BY <1>4, <1>8, <2>1, <2>2, <3>3
    <3> QED
      BY <1>8, <3>1, <3>2, <3>4 DEF Reached
  <2>3. CASE k \notin ks
    <3>1. Needs(k)
      BY <1>3, <1>4, <1>10, <1>11, <1>13, <2>1, <2>3, NeedsKept
    <3>2. ASSUME NEW n \in DOMAIN g, (datedTicker(Key[k]) \in g[n].tickers /\ k \notin g[n].picked) \/ k \in g[n].listed
          PROVE  Reached(y, k)
      <4>1. (datedTicker(Key[k]) \in y.frames[n].tickers /\ k \notin y.frames[n].picked) \/ k \in y.frames[n].listed
        <5>1. CASE n = 1
          BY <1>5, <1>6, <1>7, <2>3, <3>2, <5>1
        <5>2. CASE n # 1
          BY <1>7, <3>2, <5>2
        <5> QED
          BY <5>1, <5>2
      <4> QED
        BY <1>7, <1>12, <4>1 DEF Reached
    <3> QED
      BY <1>2, <1>3, <3>1, <3>2 DEF Reached, Busy
  <2> QED
    BY <2>2, <2>3
<1> QED
  BY <1>2, <1>4, <1>10, <1>13, ReachStep

(* A listing gives way only when it has no ticker and no key left. *)
LEMMA FollowedUpReach == ASSUME IInv, Books, Reach, NEW p \in Runs, FollowedUp(p) PROVE Reach'
<1>1. PICK y : Pops(p, y)
  BY FollowedUpIs
<1>2. PICK x, g : x = work[p] /\ g = work[p].frames
  OBVIOUS
<1>3. /\ x.step = "follow" /\ rows' = rows /\ txns' = txns /\ facts' = facts /\ excused' = excused
      /\ Top(p).listed = {} /\ Top(p).tickers = {}
  BY <1>2 DEF FollowedUp
<1>4. IsList(g) /\ g # <<>> /\ 1 \in DOMAIN g /\ g[1].listed = {} /\ g[1].tickers = {}
  BY <1>2, <1>3, TopIs
<1>5. SameRuns
  BY RunsKept DEF Step
<1>6. Onward(rows, rows')
  BY <1>3 DEF Onward
<1>7. Becomes(p, y) /\ y.step \notin Busy
  <2>1. Becomes(p, y) /\ (y.step \in {"follow", "settle"} \/ y = Gone)
    BY <1>1 DEF Pops
  <2> QED
    BY <2>1, GoneIs DEF Busy
<1>8. ASSUME NEW k \in Keys, Needs(k)' PROVE Reached(y, k) \/ (Needs(k) /\ ~Reached(x, k))
  <2>1. datedTicker(Key[k]) \in facts
    BY <1>3, <1>8 DEF Needs
  <2>2. Needs(k)
    BY <1>3, <1>5, <1>6, <1>7, <1>8, <2>1, NeedsKept
  <2>3. ASSUME NEW n \in DOMAIN g, (datedTicker(Key[k]) \in g[n].tickers /\ k \notin g[n].picked) \/ k \in g[n].listed
        PROVE  Reached(y, k)
    <3>1. n # 1
      BY <1>4, <2>3
    <3>2. PICK l \in Nat : l = Len(g) /\ DOMAIN g = 1..l
      BY <1>4 DEF IsList
    <3>3. n \in 1..l
      BY <2>3, <3>2
    <3>4. l > 1
      BY <3>1, <3>3
    <3>5. y.step = "follow" /\ y.frames = Tail(g)
      <4>1. Len(work[p].frames) > 1
        BY <1>2, <3>2, <3>4
      <4> QED
        BY <1>1, <1>2, <4>1 DEF Pops
    <3>6. PICK m \in DOMAIN Tail(g) : Tail(g)[m] = g[n]
      BY <1>4, <2>3, <3>1, TailIs
    <3> QED
      BY <2>3, <3>5, <3>6 DEF Reached
  <2> QED
    BY <1>2, <1>3, <2>2, <2>3 DEF Reached, Busy
<1> QED
  BY <1>2, <1>5, <1>7, <1>8, ReachStep

(* A run that ends follows nothing. *)
LEMMA EndReach ==
    ASSUME IInv, Books, Reach, NEW p \in Runs, RefuseConfirm(p) \/ SettleStmt(p) \/ FailSettle(p)
    PROVE  Reach'
<1>1. PICK y : y = Gone
  OBVIOUS
<1>2. Becomes(p, y) /\ work[p].step \in {"confirm", "settle"} /\ y.step = "gone"
  BY <1>1, EndIs, GoneIs
<1>3. SameRuns
  BY RunsKept DEF Step
<1>4. rows' = rows /\ txns' = txns /\ facts' = facts /\ excused' = excused
  BY DEF RefuseConfirm, SettleStmt, FailSettle
<1>5. Onward(rows, rows')
  BY <1>4 DEF Onward
<1>6. ASSUME NEW k \in Keys, Needs(k)' PROVE Needs(k) /\ ~Reached(work[p], k)
  <2>1. datedTicker(Key[k]) \in facts /\ y.step \notin Busy
    BY <1>2, <1>4, <1>6 DEF Needs, Busy
  <2>2. Needs(k)
    BY <1>2, <1>3, <1>4, <1>5, <1>6, <2>1, NeedsKept
  <2>3. ~Reached(work[p], k)
    BY <1>2 DEF Reached, Busy
  <2> QED
    BY <2>2, <2>3
<1> QED
  BY <1>2, <1>3, <1>6, ReachStep

(* A run is added, that resolves nothing yet. *)
LEMMA AddReach ==
    ASSUME Reach, NEW y, NEW z, Adds(y, z), y.step \notin Busy, \A k \in Keys : rows'[k].assoc = rows[k].assoc,
           txns' = txns, facts' = facts, excused' = excused
    PROVE  Reach'
<1>1. PICK n : Runs' = Runs \cup {n} /\ work'[n] = y /\ \A q \in Runs : work'[q] = work[q]
  BY DEF Adds
<1>2. ASSUME NEW k \in Keys, Needs(k)' PROVE \E q \in Runs' : Reached(work'[q], k)
  <2>1. k \in InFlight' => k \in InFlight
    <3>1. SUFFICES ASSUME k \in InFlight' PROVE k \in InFlight
      OBVIOUS
    <3>2. PICK q \in Runs' : work'[q].step \in Busy /\ k \in work'[q].keys
      BY <3>1 DEF InFlight, Busy
    <3>3. q \in Runs /\ work'[q] = work[q]
      BY <1>1, <3>2
    <3> QED
      BY <3>2, <3>3, AtFlight
  <2>2. Needs(k)
    BY <1>2, <2>1 DEF Needs, HasTxn
  <2>3. PICK q \in Runs : Reached(work[q], k)
    BY <2>2 DEF Reach
  <2> QED
    BY <1>1, <2>3
<1> QED
  BY <1>2 DEF Reach

(* A restart excuses what every run would still have come to. *)
LEMMA RestartReach == ASSUME IInv, Books, Reach, Restart PROVE Reach'
<1>1. /\ rows' = rows /\ txns' = txns /\ facts' = facts /\ work' = [p \in Runs |-> Gone]
      /\ excused' = excused \cup UNION {Awaiting(p) : p \in Runs} /\ Runs' = Runs
  BY DEF Restart, Runs
<1>2. ASSUME NEW k \in Keys, Needs(k)' PROVE FALSE
  <2>1. k \notin InFlight'
    <3>1. \A q \in Runs' : work'[q].step \notin Busy
      BY <1>1, GoneIs DEF Busy
    <3> QED
      BY <3>1 DEF InFlight, Busy
  <2>2. Needs(k)
    BY <1>1, <1>2, <2>1 DEF Needs, HasTxn
  <2>3. PICK p \in Runs : Reached(work[p], k)
    BY <2>2 DEF Reach
  <2>4. k \in Awaiting(p)
    BY <2>2, <2>3, ReachedAwaits DEF Needs
  <2> QED
    BY <1>1, <1>2, <2>4 DEF Needs
<1> QED
  BY <1>2 DEF Reach

(* Every step leaves what needs it reached. *)
LEMMA NextReach == ASSUME IInv, Books, Held, Reach, [Next]_vars PROVE Reach'
<1>1. CASE UNCHANGED vars
  <2>1. /\ work' = work /\ txns' = txns /\ rows' = rows /\ facts' = facts /\ excused' = excused /\ Runs' = Runs
    BY <1>1 DEF vars, Runs
  <2>2. InFlight' = InFlight
    BY <2>1 DEF InFlight
  <2>3. \A k \in Keys : Needs(k)' <=> Needs(k)
    BY <2>1, <2>2 DEF Needs, HasTxn
  <2> QED
    BY <2>1, <2>3 DEF Reach
<1>2. ASSUME NEW p \in Runs, Step(p) PROVE Reach'
  BY <1>2, BeginReach, WriteKeyReach, FailsReach, WriteConfirmedReach, LockReach, CommitReach, ListReach, FailListingReach,
     ReplayKeysReach, FollowedUpReach, EndReach DEF Step
<1>3. ASSUME NEW u \in Uploads, Create(u) PROVE Reach'
  <2>1. \A k \in Keys : rows'[k].assoc = rows[k].assoc
    BY <1>3, CreateBooks
  <2>2. PICK todo, user : Queue("stmt", u, user, todo)
    BY <1>3 DEF Create
  <2>3. PICK y, z : Queued("stmt", u, user, todo, y, z)
    BY <2>2, QueueIs
  <2>4. Adds(y, z) /\ y.step \notin Busy /\ txns' = txns /\ facts' = facts /\ excused' = excused
    BY <1>3, <2>3 DEF Create, Queued, Busy
  <2> QED
    BY <2>1, <2>4, AddReach
<1>4. CASE StartReplay
  <2>1. PICK up, user, todo, y, z : Queued("replay", up, user, todo, y, z)
    BY <1>4, StartReplayBooks
  <2>2. Adds(y, z) /\ y.step \notin Busy /\ rows' = rows /\ txns' = txns /\ facts' = facts /\ excused' = excused
    BY <1>4, <2>1 DEF StartReplay, Queued, Busy
  <2> QED
    BY <2>2, AddReach
<1>5. CASE StartConfirm
  <2>1. PICK y, z : Starts(y, z)
    BY <1>5, StartConfirmBooks
  <2>2. Adds(y, z) /\ y.step \notin Busy /\ rows' = rows /\ txns' = txns /\ facts' = facts /\ excused' = excused
    BY <1>5, <2>1 DEF StartConfirm, Starts, Busy
  <2> QED
    BY <2>2, AddReach
<1> QED
  BY <1>1, <1>2, <1>3, <1>4, <1>5, RestartReach DEF Next

(* Once nothing runs, a key held that states a ticker with validity is      *)
(* associated, unless a follow-up failed or was cut off, or the key was     *)
(* being resolved when the follow-ups listed the keys (replayrun.go,        *)
(* replayFacts).                                                            *)
THEOREM FactsReach == Spec => []FactsReachKeys
<1>1. Init => Reach
  <2> SUFFICES ASSUME Init PROVE Reach
    OBVIOUS
  <2>1. facts = {}
    BY DEF Init
  <2> QED
    BY <2>1 DEF Reach, Needs
<1>2. IInv /\ Books /\ Held /\ Reach /\ [Next]_vars => Reach'
  BY NextReach
<1>3. IInv /\ Books /\ Reach => FactsReachKeys
  <2> SUFFICES ASSUME IInv, Books, Reach, \A p \in Runs : work[p].step = "gone",
                      NEW k \in Keys, k \notin excused, HasTxn(k), datedTicker(Key[k]) \in facts, rows[k].assoc = "none"
               PROVE  FALSE
    BY DEF FactsReachKeys
  <2>1. k \notin CashRefused
    <3>1. PICK z \in txns : z.key = k
      BY DEF HasTxn
    <3>2. PICK s \in Stmts : z \in Accepted(s)
      BY <3>1 DEF Books, TxnsStated
    <3> QED
      BY <3>1, <3>2, AcceptedIs
  <2>2. PICK p \in Runs : Reached(work[p], k)
    BY <2>1 DEF Reach, Needs
  <2> QED
    BY <2>2 DEF Reached, Busy
<1> QED
  BY <1>1, <1>2, <1>3, IngestHeld, PTL DEF Spec
=============================================================================
