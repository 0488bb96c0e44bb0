----------------------------- MODULE FetchProofs -----------------------------
(***************************************************************************)
(* Proofs about Fetch, for any fetches, identifiers and requests, and for  *)
(* every batch size and number of tries.  IInv is inductive, and gives the *)
(* four safety properties of the fetch framework.                          *)
(***************************************************************************)
EXTENDS Fetch, FiniteSetTheorems, WellFoundedInduction, TLAPS

-----------------------------------------------------------------------------
(* The inductive invariant *)

\* Where a fetch is once it has read the cache, until it returns.
Sending == {"check", "wait", "store", "record"}

LocalTyped ==
    /\ pc \in [Fetches -> PCs]
    /\ reqs \in [Fetches -> Seq(Ids \cup {Unserved})]
    /\ fresh \in [Fetches -> BOOLEAN]
    /\ blocked \in [Fetches -> SUBSET Scopes]
    /\ out \in [Fetches -> Seq(Outcomes)]
    /\ attempts \in [Fetches -> Seq(Nat)]
    /\ batch \in [Fetches -> Seq(Nat)]
    /\ pos \in [Fetches -> Nat]
    /\ attempt \in [Fetches -> Nat]
    /\ pending \in [Fetches -> SUBSET (Scopes \X Nat)]

SharedTyped ==
    /\ paused \in BOOLEAN
    /\ late \in [Fetches -> Nat]
    /\ open \in [Scopes -> Keys \cup {NoKey}]

Typed == LocalTyped /\ SharedTyped

\* What outcome v of a request says of the calls n it cost.
Costs(f, v, n) == /\ v \in {"none", "not_served", "cached", "blocked"} => n = 0
                  /\ v \in {"served", "permanent"} => n > 0
                  /\ v = "cached" => ~fresh[f]

\* There is an outcome and a count of calls for each request, which fit, and a
\* request that is declined is not sent.
Counts(f) == /\ Len(out[f]) = Len(reqs[f]) /\ Len(attempts[f]) = Len(reqs[f])
             /\ \A i \in 1..Len(reqs[f]) : /\ Costs(f, out[f][i], attempts[f][i])
                                           /\ reqs[f][i] = Unserved => out[f][i] = "not_served"

\* The batch names requests, each once.
BatchSound(f) == /\ \A p \in 1..Len(batch[f]) : batch[f][p] \in 1..Len(reqs[f])
                 /\ \A p, q \in 1..Len(batch[f]) : batch[f][p] = batch[f][q] => p = q

\* Chunks end at a multiple of the batch size, the last one where it may.
Aligned(f) == /\ pos[f] <= Len(batch[f])
              /\ pos[f] = Len(batch[f]) <=> pc[f] \in {"store", "record"}
              /\ pos[f] = Len(batch[f]) \/ (\E k \in 0..pos[f] : pos[f] = k * Batch)

\* What is not decided is what the batch has left.
LeftToSend(f) == \A i \in 1..Len(reqs[f]) :
                   out[f][i] = "none" <=> \E p \in (pos[f] + 1)..Len(batch[f]) : batch[f][p] = i

\* A block to write is the fetch's own already, for a request handled before,
\* which failed permanently and was sent as the block's scope.
PendingEarned(f) == \A b \in pending[f] :
                      /\ b[1] \in blocked[f]
                      /\ \E p \in 1..pos[f] : batch[f][p] = b[2]
                      /\ out[f][b[2]] = "permanent"
                      /\ b[1] \in {Everything, reqs[f][b[2]]}

\* SuppressesLaterChunks, of one fetch: P are its blocks, B its batch, handled up
\* to position n, R its requests and O their outcomes.
BlockedFrom(P, B, n, R, O) ==
    \A b \in P, p, q \in 1..Len(B) :
        B[p] = b[2] /\ ChunkOf(p) < ChunkOf(q) /\ q <= n /\ Covered({b[1]}, R[B[q]]) => O[B[q]] = "blocked"
Suppresses(f) == BlockedFrom(pending[f], batch[f], pos[f], reqs[f], out[f])

\* A fetch that has read the cache.
SendingOK(f) == /\ Counts(f) /\ BatchSound(f) /\ Aligned(f) /\ LeftToSend(f)
                /\ PendingEarned(f) /\ Suppresses(f)
                /\ pc[f] = "wait" => Send(f) # {}

\* A fetch that has not, or that has returned.
QuietOK(f) == /\ pending[f] = {}
              /\ pc[f] \in {"idle", "read"} => pos[f] = 0 /\ attempt[f] = 0
              /\ pc[f] = "read" => /\ Counts(f)
                                   /\ \A i \in 1..Len(reqs[f]) : out[f][i] \in {"none", "not_served"}

FetchOK(f) == IF pc[f] \in Sending THEN SendingOK(f) ELSE QuietOK(f)

\* A pause finds the calls that were past its check, one of each fetch.
LateOK(f) == IF paused THEN late[f] <= 1 /\ (pc[f] = "wait" => late[f] = 0) ELSE late[f] = 0

IInv == /\ Typed
        /\ \A f \in Fetches : FetchOK(f) /\ LateOK(f)
        /\ BlocksAreEarned

-----------------------------------------------------------------------------
(* Numbers *)

\* A set of numbers has a least one.
LEMMA LeastOf == ASSUME NEW T \in SUBSET Nat, T # {}
                 PROVE  \E m \in T : \A n \in T : m <= n
<1>1. PICK x \in T : \A y \in T : ~(<<y, x>> \in OpToRel(<, Nat)) BY NatLessThanWellFounded, WFMin
<1>2. ASSUME NEW y \in T PROVE x <= y
  <2>1. y \in Nat /\ x \in Nat OBVIOUS
  <2>2. ASSUME y < x PROVE <<y, x>> \in OpToRel(<, Nat) BY <2>1, <2>2 DEF OpToRel
  <2>3. ~(y < x) BY <1>1, <2>2, Zenon
  <2> QED BY <2>1, <2>3
<1> QED BY <1>2

\* A function on 1..n is a sequence of length n.
LEMMA AsSequence == ASSUME NEW S, NEW n \in Nat, NEW s, s = [i \in 1..n |-> s[i]], \A i \in 1..n : s[i] \in S
                    PROVE  s \in Seq(S) /\ Len(s) = n
<1>1. s \in [1..n -> S] OBVIOUS
<1>2. s \in Seq(S) BY <1>1
<1>3. DOMAIN s = 1..n OBVIOUS
<1>4. Len(s) = n BY <1>2, <1>3
<1> QED BY <1>2, <1>4

\* The positions of one chunk have one number, and those before it none above it.
LEMMA ChunkNumbers ==
  ASSUME NEW k \in Nat, NEW p \in Nat, NEW q \in Nat, p >= 1, q >= 1
  PROVE  /\ (Batch = 0 \/ (k * Batch < p /\ p <= k * Batch + Batch /\ k * Batch < q /\ q <= k * Batch + Batch))
              => ChunkOf(p) = ChunkOf(q)
         /\ p <= q => ChunkOf(p) <= ChunkOf(q)
         /\ ChunkOf(p) \in Nat
<1> DEFINE a == p - 1  c == q - 1
<1>1. a \in Nat /\ c \in Nat OBVIOUS
<1>2. CASE Batch = 0 BY <1>2 DEF ChunkOf
<1>3. CASE Batch # 0
  <2>1. Batch \in Nat \ {0} BY <1>3, FetchAssumption
  <2>2. ASSUME NEW n \in Nat, k * Batch <= n, n < k * Batch + Batch PROVE n \div Batch = k
    BY <2>1, <2>2
  <2>3. ASSUME NEW n \in Nat, NEW m \in Nat, n <= m PROVE n \div Batch <= m \div Batch
    BY <2>1, <2>3
  <2>4. k * Batch \in Nat BY <2>1
  <2>5. ASSUME k * Batch < p, p <= k * Batch + Batch, k * Batch < q, q <= k * Batch + Batch
        PROVE  ChunkOf(p) = ChunkOf(q)
    <3>1. k * Batch <= a /\ a < k * Batch + Batch BY <2>1, <2>4, <2>5
    <3>2. k * Batch <= c /\ c < k * Batch + Batch BY <2>1, <2>4, <2>5
    <3>3. a \div Batch = k BY <1>1, <2>2, <3>1
    <3>4. c \div Batch = k BY <1>1, <2>2, <3>2
    <3> QED BY <1>3, <3>3, <3>4 DEF ChunkOf
  <2>6. ASSUME p <= q PROVE ChunkOf(p) <= ChunkOf(q)
    <3>1. a <= c BY <2>6
    <3>2. a \div Batch <= c \div Batch BY <1>1, <2>3, <3>1
    <3> QED BY <1>3, <3>2 DEF ChunkOf
  <2>7. ChunkOf(p) \in Nat
    <3>1. a \div Batch \in Nat BY <1>1, <2>1
    <3> QED BY <1>3, <3>1 DEF ChunkOf
  <2> QED BY <1>3, <2>5, <2>6, <2>7
<1> QED BY <1>2, <1>3

-----------------------------------------------------------------------------
(* Steps that leave a fetch alone, and the end of a chunk *)

\* A step leaves what fetch g keeps alone.
Same(g) == /\ pc'[g] = pc[g] /\ reqs'[g] = reqs[g] /\ fresh'[g] = fresh[g]
           /\ blocked'[g] = blocked[g] /\ out'[g] = out[g] /\ attempts'[g] = attempts[g]
           /\ batch'[g] = batch[g] /\ pos'[g] = pos[g] /\ attempt'[g] = attempt[g]
           /\ pending'[g] = pending[g]

\* Such a fetch stays as it was.
LEMMA SameOK == ASSUME NEW g \in Fetches, Same(g), FetchOK(g)
                PROVE  FetchOK(g)'
<1>1. CASE pc[g] \in Sending
  <2>1. SendingOK(g) BY <1>1 DEF FetchOK
  <2>2. Counts(g)' BY <2>1 DEF SendingOK, Counts, Costs, Same
  <2>3. BatchSound(g)' BY <2>1 DEF SendingOK, BatchSound, Same
  <2>4. Aligned(g)' BY <2>1 DEF SendingOK, Aligned, Same
  <2>5. LeftToSend(g)' BY <2>1 DEF SendingOK, LeftToSend, Same
  <2>6. PendingEarned(g)' BY <2>1 DEF SendingOK, PendingEarned, Same
  <2>7. Suppresses(g)'
    <3>1. Suppresses(g) BY <2>1 DEF SendingOK
    <3> QED BY <3>1 DEF Suppresses, Same
  <2>8. pc'[g] = "wait" => Send(g)' # {}
    BY <2>1 DEF SendingOK, Same, Send, Chunk, ChunkEnd, Covered
  <2>9. SendingOK(g)' BY <2>2, <2>3, <2>4, <2>5, <2>6, <2>7, <2>8 DEF SendingOK
  <2> QED BY <1>1, <2>9 DEF FetchOK, Same
<1>2. CASE pc[g] \notin Sending
  <2>1. QuietOK(g) BY <1>2 DEF FetchOK
  <2>2. QuietOK(g)' BY <2>1 DEF QuietOK, Same, Counts, Costs
  <2> QED BY <1>2, <2>2 DEF FetchOK, Same
<1> QED BY <1>1, <1>2

\* Where the chunk of a fetch that is sending ends, and which positions it holds.
LEMMA ChunkBounds ==
  ASSUME LocalTyped, NEW f \in Fetches, SendingOK(f), pc[f] \in {"check", "wait"}
  PROVE  /\ ChunkEnd(f, pos[f]) \in (pos[f] + 1)..Len(batch[f])
         /\ ChunkEnd(f, pos[f]) = Len(batch[f]) \/ ChunkEnd(f, pos[f]) = pos[f] + Batch
         /\ Batch = 0 \/ ChunkEnd(f, pos[f]) <= pos[f] + Batch
         /\ \A p \in 1..Len(batch[f]) : batch[f][p] \in Chunk(f) <=> p \in (pos[f] + 1)..ChunkEnd(f, pos[f])
         /\ Chunk(f) \subseteq 1..Len(reqs[f])
         /\ \A i \in Chunk(f) : out[f][i] = "none" /\ attempts[f][i] = 0
<1> DEFINE e == ChunkEnd(f, pos[f])
<1>1. Batch \in Nat /\ pos[f] \in Nat /\ Len(batch[f]) \in Nat /\ pos[f] < Len(batch[f])
  BY FetchAssumption DEF LocalTyped, SendingOK, Aligned
<1>2. e \in (pos[f] + 1)..Len(batch[f]) /\ (e = Len(batch[f]) \/ e = pos[f] + Batch)
      /\ (Batch = 0 \/ e <= pos[f] + Batch)
  BY <1>1 DEF ChunkEnd
<1> HIDE DEF e
<1>3. Chunk(f) = {batch[f][p] : p \in (pos[f] + 1)..e} BY DEF Chunk, e
<1>4. \A p \in 1..Len(batch[f]) : batch[f][p] \in Chunk(f) <=> p \in (pos[f] + 1)..e
  <2> SUFFICES ASSUME NEW p \in 1..Len(batch[f])
               PROVE  batch[f][p] \in Chunk(f) <=> p \in (pos[f] + 1)..e
    OBVIOUS
  <2>1. ASSUME batch[f][p] \in Chunk(f) PROVE p \in (pos[f] + 1)..e
    <3>1. PICK q \in (pos[f] + 1)..e : batch[f][q] = batch[f][p] BY <1>3, <2>1
    <3>2. q \in 1..Len(batch[f]) BY <1>1, <1>2
    <3>3. q = p BY <3>1, <3>2 DEF SendingOK, BatchSound
    <3> QED BY <3>3
  <2> QED BY <1>3, <2>1
<1>5. ASSUME NEW i \in Chunk(f)
      PROVE  i \in 1..Len(reqs[f]) /\ out[f][i] = "none" /\ attempts[f][i] = 0
  <2>1. PICK p \in (pos[f] + 1)..e : batch[f][p] = i BY <1>3
  <2>2. p \in 1..Len(batch[f]) /\ p \in (pos[f] + 1)..Len(batch[f]) BY <1>1, <1>2
  <2>3. i \in 1..Len(reqs[f]) BY <2>1, <2>2 DEF SendingOK, BatchSound
  <2>4. out[f][i] = "none" BY <2>1, <2>2, <2>3 DEF SendingOK, LeftToSend
  <2>5. attempts[f][i] = 0 BY <2>3, <2>4 DEF SendingOK, Counts, Costs
  <2> QED BY <2>3, <2>4, <2>5
<1> QED BY <1>2, <1>4, <1>5 DEF e

\* A chunk that ends (fetch.go:164-182): o are outcomes of what it sent, which n
\* calls explain, and blocks are scopes of what failed permanently.
LEMMA ChunkEndsOK ==
  ASSUME LocalTyped, NEW f \in Fetches, FetchOK(f), pc[f] \in {"check", "wait"},
         NEW o, DOMAIN o = Send(f), NEW n \in Nat, NEW blocks \in SUBSET (Scopes \X Nat),
         \A i \in Send(f) : /\ o[i] \in {"served", "temporary", "permanent"}
                            /\ o[i] # "temporary" => n > 0,
         \A b \in blocks : b[2] \in Send(f) /\ o[b[2]] = "permanent" /\ b[1] \in {Everything, reqs[f][b[2]]},
         ChunkEnds(f, o, n, blocks)
  PROVE  LocalTyped' /\ FetchOK(f)' /\ pc'[f] \in {"check", "store"} /\ (\A g \in Fetches \ {f} : Same(g))
<1> DEFINE e == ChunkEnd(f, pos[f])
           N == Len(reqs[f])
           M == Len(batch[f])
<1>1. SendingOK(f) BY DEF FetchOK, Sending
<1>2. /\ e \in (pos[f] + 1)..M
      /\ e = M \/ e = pos[f] + Batch
      /\ Batch = 0 \/ e <= pos[f] + Batch
      /\ \A p \in 1..M : batch[f][p] \in Chunk(f) <=> p \in (pos[f] + 1)..e
      /\ Chunk(f) \subseteq 1..N
      /\ \A i \in Chunk(f) : out[f][i] = "none" /\ attempts[f][i] = 0
  BY <1>1, ChunkBounds
<1>3. Batch \in Nat /\ pos[f] \in Nat /\ M \in Nat /\ N \in Nat /\ Send(f) \subseteq Chunk(f)
      /\ DOMAIN out[f] = 1..N /\ reqs[f] \in Seq(Ids \cup {Unserved}) /\ batch[f] \in Seq(Nat)
  BY <1>1, FetchAssumption DEF LocalTyped, Send, SendingOK, Counts
<1> HIDE DEF e
<1>4. /\ reqs' = reqs /\ fresh' = fresh /\ batch' = batch
      /\ pos'[f] = e /\ pos' \in [Fetches -> Nat]
      /\ attempt' \in [Fetches -> Nat]
      /\ pc'[f] = IF e = M THEN "store" ELSE "check"
      /\ pc' \in [Fetches -> PCs]
  BY <1>2, <1>3 DEF ChunkEnds, LocalTyped, e, PCs
<1>5. /\ blocked'[f] = blocked[f] \cup {b[1] : b \in blocks} /\ blocked' \in [Fetches -> SUBSET Scopes]
      /\ pending'[f] = pending[f] \cup blocks /\ pending' \in [Fetches -> SUBSET (Scopes \X Nat)]
  BY DEF ChunkEnds, LocalTyped, Suppressed
<1>6. \A i \in 1..N : out'[f][i] = IF i \in Send(f) THEN o[i] ELSE IF i \in Chunk(f) THEN "blocked" ELSE out[f][i]
  BY <1>3 DEF ChunkEnds, LocalTyped
<1>7. \A i \in 1..N : attempts'[f][i] = IF i \in Send(f) THEN n ELSE attempts[f][i]
  BY <1>3 DEF ChunkEnds, LocalTyped
<1>8. out'[f] \in Seq(Outcomes) /\ Len(out'[f]) = N
  <2> DEFINE s == [i \in 1..N |-> IF i \in Send(f) THEN o[i] ELSE IF i \in Chunk(f) THEN "blocked" ELSE out[f][i]]
  <2>1. out'[f] = s BY <1>3 DEF ChunkEnds, LocalTyped
  <2>2. \A i \in 1..N : s[i] \in Outcomes BY <1>3 DEF LocalTyped, Outcomes
  <2> HIDE DEF s
  <2>3. s = [i \in 1..N |-> s[i]] BY DEF s
  <2>4. N \in Nat BY <1>3
  <2> HIDE DEF N
  <2>5. s \in Seq(Outcomes) /\ Len(s) = N BY <2>2, <2>3, <2>4, AsSequence
  <2> QED BY <2>1, <2>5
<1>9. attempts'[f] \in Seq(Nat) /\ Len(attempts'[f]) = N
  <2> DEFINE s == [i \in 1..N |-> IF i \in Send(f) THEN n ELSE attempts[f][i]]
  <2>1. attempts'[f] = s BY <1>3 DEF ChunkEnds, LocalTyped
  <2>2. \A i \in 1..N : s[i] \in Nat BY <1>1, <1>3 DEF LocalTyped, SendingOK, Counts
  <2> HIDE DEF s
  <2>3. s = [i \in 1..N |-> s[i]] BY DEF s
  <2>4. N \in Nat BY <1>3
  <2> HIDE DEF N
  <2>5. s \in Seq(Nat) /\ Len(s) = N BY <2>2, <2>3, <2>4, AsSequence
  <2> QED BY <2>1, <2>5
<1>10. \A g \in Fetches \ {f} : Same(g) BY DEF ChunkEnds, LocalTyped, Same
<1>11. LocalTyped'
  <2>1. out' \in [Fetches -> Seq(Outcomes)]
    <3>1. out' = [g \in Fetches |-> out'[g]] BY DEF ChunkEnds, LocalTyped
    <3>2. \A g \in Fetches : out'[g] \in Seq(Outcomes) BY <1>8, <1>10 DEF LocalTyped, Same
    <3> QED BY <3>1, <3>2
  <2>2. attempts' \in [Fetches -> Seq(Nat)]
    <3>1. attempts' = [g \in Fetches |-> attempts'[g]] BY DEF ChunkEnds, LocalTyped
    <3>2. \A g \in Fetches : attempts'[g] \in Seq(Nat) BY <1>9, <1>10 DEF LocalTyped, Same
    <3> QED BY <3>1, <3>2
  <2> QED BY <1>4, <1>5, <2>1, <2>2 DEF LocalTyped
<1>12. Counts(f)'
  <2> SUFFICES ASSUME NEW i \in 1..N
               PROVE  Costs(f, out[f][i], attempts[f][i])' /\ (reqs[f][i] = Unserved => out'[f][i] = "not_served")
    BY <1>4, <1>8, <1>9 DEF Counts
  <2>1. Costs(f, out[f][i], attempts[f][i]) /\ (reqs[f][i] = Unserved => out[f][i] = "not_served")
    BY <1>1 DEF SendingOK, Counts
  <2>2. CASE i \in Send(f) BY <1>2, <1>3, <1>4, <1>6, <1>7, <2>1, <2>2 DEF Costs
  <2>3. CASE i \in Chunk(f) \ Send(f) BY <1>2, <1>4, <1>6, <1>7, <2>1, <2>3 DEF Costs
  <2>4. CASE i \notin Chunk(f) BY <1>3, <1>4, <1>6, <1>7, <2>1, <2>4 DEF Costs
  <2> QED BY <2>2, <2>3, <2>4
<1>13. BatchSound(f)' BY <1>1, <1>4 DEF SendingOK, BatchSound
<1>14. Aligned(f)'
  <2>1. e = M \/ \E k \in 0..e : e = k * Batch
    <3> SUFFICES ASSUME e # M PROVE \E k \in 0..e : e = k * Batch OBVIOUS
    <3>1. e = pos[f] + Batch /\ Batch # 0 /\ pos[f] # M /\ e \in Nat BY <1>2, <1>3
    <3>2. PICK k \in 0..pos[f] : pos[f] = k * Batch BY <1>1, <3>1 DEF SendingOK, Aligned
    <3>3. e = (k + 1) * Batch BY <1>3, <3>1, <3>2
    <3>4. k + 1 \in 0..e BY <1>3, <3>1
    <3> QED BY <3>3, <3>4
  <2> QED BY <1>2, <1>3, <1>4, <2>1 DEF Aligned
<1>15. LeftToSend(f)'
  <2> SUFFICES ASSUME NEW i \in 1..N
               PROVE  out'[f][i] = "none" <=> \E p \in (e + 1)..M : batch[f][p] = i
    BY <1>4 DEF LeftToSend
  <2>1. out[f][i] = "none" <=> \E p \in (pos[f] + 1)..M : batch[f][p] = i BY <1>1 DEF SendingOK, LeftToSend
  <2>2. CASE i \in Chunk(f)
    <3>1. out'[f][i] # "none" BY <1>6, <2>2
    <3>2. ASSUME NEW p \in (e + 1)..M PROVE batch[f][p] # i
      <4>1. p \in 1..M /\ p \notin (pos[f] + 1)..e BY <1>2, <1>3
      <4>2. batch[f][p] \notin Chunk(f) BY <1>2, <4>1
      <4> QED BY <2>2, <4>2
    <3> QED BY <3>1, <3>2
  <2>3. CASE i \notin Chunk(f)
    <3>1. out'[f][i] = out[f][i] BY <1>3, <1>6, <2>3
    <3>2. ASSUME NEW p \in (pos[f] + 1)..M, batch[f][p] = i PROVE p \in (e + 1)..M
      BY <1>2, <1>3, <2>3, <3>2
    <3>3. (e + 1)..M \subseteq (pos[f] + 1)..M BY <1>2, <1>3
    <3> QED BY <2>1, <3>1, <3>2, <3>3
  <2> QED BY <2>2, <2>3
\* An outcome that is decided stays.
<1>16. ASSUME NEW p \in 1..pos[f] PROVE batch[f][p] \in 1..N /\ batch[f][p] \notin Chunk(f)
                                         /\ out'[f][batch[f][p]] = out[f][batch[f][p]]
  <2>1. p \in 1..M /\ p \notin (pos[f] + 1)..e BY <1>2, <1>3
  <2>2. batch[f][p] \in 1..N BY <1>1, <2>1 DEF SendingOK, BatchSound
  <2>3. batch[f][p] \notin Chunk(f) BY <1>2, <2>1
  <2> QED BY <1>3, <1>6, <2>2, <2>3
<1>17. PendingEarned(f)'
  <2> SUFFICES ASSUME NEW b \in pending[f] \cup blocks
               PROVE  /\ b[1] \in blocked'[f]
                      /\ \E p \in 1..e : batch[f][p] = b[2]
                      /\ out'[f][b[2]] = "permanent"
                      /\ b[1] \in {Everything, reqs[f][b[2]]}
    BY <1>4, <1>5 DEF PendingEarned
  <2>1. CASE b \in pending[f]
    <3>1. /\ b[1] \in blocked[f] /\ out[f][b[2]] = "permanent" /\ b[1] \in {Everything, reqs[f][b[2]]}
          /\ \E p \in 1..pos[f] : batch[f][p] = b[2]
      BY <1>1, <2>1 DEF SendingOK, PendingEarned
    <3>2. PICK p \in 1..pos[f] : batch[f][p] = b[2] BY <3>1
    <3>3. p \in 1..e BY <1>2, <1>3
    <3>4. out'[f][b[2]] = "permanent" BY <1>16, <3>1, <3>2
    <3> QED BY <1>5, <3>1, <3>2, <3>3, <3>4
  <2>2. CASE b \in blocks
    <3>1. b[2] \in Send(f) /\ o[b[2]] = "permanent" /\ b[1] \in {Everything, reqs[f][b[2]]} BY <2>2
    <3>2. PICK p \in (pos[f] + 1)..e : batch[f][p] = b[2] BY <1>3, <3>1 DEF Chunk, e
    <3>3. p \in 1..e BY <1>2, <1>3
    <3>4. out'[f][b[2]] = "permanent" BY <1>2, <1>3, <1>6, <3>1
    <3> QED BY <1>5, <2>2, <3>1, <3>2, <3>3, <3>4
  <2> QED BY <2>1, <2>2
<1>18. Suppresses(f)'
  <2> SUFFICES BlockedFrom(pending[f] \cup blocks, batch[f], e, reqs[f], out'[f])
    BY <1>4, <1>5 DEF Suppresses
  <2> SUFFICES ASSUME NEW b \in pending[f] \cup blocks, NEW p \in 1..M, NEW q \in 1..M,
                      batch[f][p] = b[2], ChunkOf(p) < ChunkOf(q), q <= e,
                      Covered({b[1]}, reqs[f][batch[f][q]])
               PROVE  out'[f][batch[f][q]] = "blocked"
    BY DEF BlockedFrom
  <2>1. CASE b \in pending[f] /\ q <= pos[f]
    <3>1. out[f][batch[f][q]] = "blocked" BY <1>1, <2>1 DEF SendingOK, Suppresses, BlockedFrom
    <3>2. q \in 1..pos[f] BY <1>3, <2>1
    <3> QED BY <1>16, <3>1, <3>2
  <2>2. CASE b \in pending[f] /\ ~(q <= pos[f])
    <3>1. q \in (pos[f] + 1)..e BY <1>2, <1>3, <2>2
    <3>2. batch[f][q] \in Chunk(f) BY <1>2, <3>1
    <3>3. b[1] \in blocked[f] BY <1>1, <2>2 DEF SendingOK, PendingEarned
    <3>4. batch[f][q] \notin Send(f) BY <3>3 DEF Send, Covered
    <3> QED BY <1>2, <1>6, <3>2, <3>4
  <2>3. CASE b \in blocks
    <3>1. batch[f][p] \in Chunk(f) BY <1>3, <2>3
    <3>2. p \in (pos[f] + 1)..e BY <1>2, <3>1
    <3>3. p >= 1 /\ q >= 1 /\ p \in Nat /\ q \in Nat BY <1>3
    <3>4. pos[f] # M BY <1>2, <1>3
    <3>5. PICK k \in 0..pos[f] : pos[f] = k * Batch BY <1>1, <3>4 DEF SendingOK, Aligned
    <3>6. k \in Nat BY <1>3
    <3>8. ChunkOf(p) \in Nat /\ ChunkOf(q) \in Nat BY <3>3, <3>6, ChunkNumbers
    <3>7. ChunkOf(q) <= ChunkOf(p)
      <4>1. CASE q <= p BY <3>3, <3>6, <4>1, ChunkNumbers
      <4>2. CASE ~(q <= p)
        <5>1. Batch = 0 \/ (k * Batch < p /\ p <= k * Batch + Batch /\ k * Batch < q /\ q <= k * Batch + Batch)
          BY <1>2, <1>3, <3>2, <3>5, <4>2
        <5>2. ChunkOf(p) = ChunkOf(q) BY <3>3, <3>6, <5>1, ChunkNumbers
        <5> QED BY <3>8, <5>2
      <4> QED BY <4>1, <4>2
    <3> QED BY <3>7, <3>8
  <2> QED BY <2>1, <2>2, <2>3
<1>19. SendingOK(f)' BY <1>4, <1>12, <1>13, <1>14, <1>15, <1>17, <1>18 DEF SendingOK
<1>20. FetchOK(f)' BY <1>4, <1>19 DEF FetchOK, Sending
<1> QED BY <1>4, <1>10, <1>11, <1>20

-----------------------------------------------------------------------------
(* The steps of a fetch *)

\* A step of a fetch that is not recorded yet leaves the blocks and what earned
\* them alone.
LEMMA KeepsBlocks ==
  ASSUME IInv, NEW f \in Fetches, pc[f] # "done", \A g \in Fetches \ {f} : Same(g),
         open' = open, reports' = reports
  PROVE  BlocksAreEarned'
<1> SUFFICES ASSUME NEW s \in Scopes, open[s] # NoKey
             PROVE  /\ pc'[open[s][1]] = "done" /\ open[s][2] \in DOMAIN out'[open[s][1]]
                    /\ out'[open[s][1]][open[s][2]] = "permanent"
                    /\ s \in {Everything, reqs'[open[s][1]][open[s][2]]}
  BY DEF IInv, BlocksAreEarned
<1>1. open[s][1] \in Fetches BY DEF IInv, Typed, SharedTyped, Keys
<1>2. /\ pc[open[s][1]] = "done" /\ open[s][2] \in DOMAIN out[open[s][1]]
      /\ out[open[s][1]][open[s][2]] = "permanent"
      /\ s \in {Everything, reqs[open[s][1]][open[s][2]]}
  BY DEF IInv, BlocksAreEarned
<1>3. Same(open[s][1]) BY <1>1, <1>2
<1> QED BY <1>2, <1>3 DEF Same

\* A step of a fetch that makes no call, and does not go on to one while the
\* datasource is paused, keeps what the pause admits.
LEMMA KeepsLate ==
  ASSUME IInv, NEW f \in Fetches, \A g \in Fetches \ {f} : Same(g), paused' = paused,
         late' = late \/ late' = [late EXCEPT ![f] = 0], pc'[f] = "wait" => ~paused
  PROVE  \A g \in Fetches : LateOK(g)'
<1> SUFFICES ASSUME NEW g \in Fetches PROVE LateOK(g)' OBVIOUS
<1>1. LateOK(g) /\ late \in [Fetches -> Nat] BY DEF IInv, Typed, SharedTyped
<1>2. CASE g = f BY <1>1, <1>2 DEF LateOK
<1>3. CASE g # f BY <1>1, <1>3 DEF LateOK, Same
<1> QED BY <1>2, <1>3

\* A step of one fetch.
LEMMA FetchSteps ==
  ASSUME IInv, NEW f \in Fetches, LocalTyped', SharedTyped', FetchOK(f)',
         \A g \in Fetches \ {f} : Same(g), \A g \in Fetches : LateOK(g)', BlocksAreEarned'
  PROVE  IInv'
<1> SUFFICES ASSUME NEW g \in Fetches PROVE FetchOK(g)' BY DEF IInv, Typed
<1>1. CASE g = f BY <1>1
<1>2. CASE g # f BY <1>2, SameOK DEF IInv
<1> QED BY <1>1, <1>2

\* A step of one fetch that shares nothing, and is not on its way to a call
\* while the datasource is paused.
LEMMA LocalSteps ==
  ASSUME IInv, NEW f \in Fetches, LocalTyped', FetchOK(f)', \A g \in Fetches \ {f} : Same(g),
         pc[f] # "done", pc'[f] = "wait" => ~paused, UNCHANGED <<paused, late, open, reports>>
  PROVE  IInv'
<1>1. SharedTyped' BY DEF IInv, Typed, SharedTyped
<1>2. \A g \in Fetches : LateOK(g)' BY KeepsLate
<1>3. BlocksAreEarned' BY KeepsBlocks
<1> QED BY <1>1, <1>2, <1>3, FetchSteps

\* CreateFetch, ListOpenBlocks and Serves (fetch.go:114-148).
LEMMA BeginIInv == ASSUME IInv, NEW f \in Fetches, Begin(f) PROVE IInv'
<1>1. LocalTyped /\ QuietOK(f) BY DEF IInv, Typed, Begin, FetchOK, Sending
<1>2. PICK q \in Requests, fr \in BOOLEAN :
        /\ reqs' = [reqs EXCEPT ![f] = q]
        /\ fresh' = [fresh EXCEPT ![f] = fr]
        /\ out' = [out EXCEPT ![f] = [i \in DOMAIN q |-> IF q[i] = Unserved THEN "not_served" ELSE "none"]]
        /\ attempts' = [attempts EXCEPT ![f] = [i \in DOMAIN q |-> 0]]
  BY DEF Begin
<1>3. q \in Seq(Ids \cup {Unserved}) /\ Len(q) \in Nat /\ DOMAIN q = 1..Len(q) BY FetchAssumption
<1> DEFINE o == [i \in 1..Len(q) |-> IF q[i] = Unserved THEN "not_served" ELSE "none"]
           a == [i \in 1..Len(q) |-> 0]
<1>4. /\ o \in Seq(Outcomes) /\ Len(o) = Len(q)
      /\ \A i \in 1..Len(q) : o[i] \in {"none", "not_served"} /\ (q[i] = Unserved => o[i] = "not_served")
      /\ a \in Seq(Nat) /\ Len(a) = Len(q) /\ \A i \in 1..Len(q) : a[i] = 0
  BY <1>3 DEF Outcomes
<1>5. out' = [out EXCEPT ![f] = o] /\ attempts' = [attempts EXCEPT ![f] = a] BY <1>2, <1>3
<1> HIDE DEF o, a
<1>6. LocalTyped'
  <2>1. reqs' \in [Fetches -> Seq(Ids \cup {Unserved})] /\ fresh' \in [Fetches -> BOOLEAN]
    BY <1>1, <1>2, <1>3 DEF LocalTyped
  <2>2. out' \in [Fetches -> Seq(Outcomes)] BY <1>1, <1>4, <1>5 DEF LocalTyped
  <2>3. attempts' \in [Fetches -> Seq(Nat)] BY <1>1, <1>4, <1>5 DEF LocalTyped
  <2> QED BY <1>1, <2>1, <2>2, <2>3 DEF LocalTyped, Begin, PCs
<1>7. /\ reqs'[f] = q /\ out'[f] = o /\ attempts'[f] = a /\ pc'[f] = "read"
      /\ pos'[f] = pos[f] /\ attempt'[f] = attempt[f] /\ pending'[f] = pending[f]
  BY <1>1, <1>2, <1>5 DEF LocalTyped, Begin
<1>8. \A g \in Fetches \ {f} : Same(g) BY <1>1, <1>2 DEF LocalTyped, Begin, Same
<1>9. Counts(f)' BY <1>4, <1>7 DEF Counts, Costs
<1>10. QuietOK(f)' BY <1>1, <1>4, <1>7, <1>9 DEF QuietOK, Begin
<1>11. FetchOK(f)' BY <1>7, <1>10 DEF FetchOK, Sending
<1> QED BY <1>6, <1>7, <1>8, <1>11, LocalSteps DEF Begin, shared

\* readCache and the batch (fetch.go:149-162).
LEMMA ReadCacheIInv == ASSUME IInv, NEW f \in Fetches, ReadCache(f) PROVE IInv'
<1> DEFINE o == [i \in DOMAIN reqs[f] |-> Triage(f, i)]
           left == {i \in DOMAIN o : o[i] = "none"}
           N == Len(reqs[f])
<1>1. LocalTyped /\ QuietOK(f) /\ Counts(f) /\ pc[f] = "read"
  BY DEF IInv, Typed, ReadCache, FetchOK, Sending, QuietOK
<1>2. PICK b \in [1..Cardinality(left) -> left] : Lists(b, left) /\ batch' = [batch EXCEPT ![f] = b]
  BY DEF ReadCache
<1>3. /\ out' = [out EXCEPT ![f] = o]
      /\ pc' = [pc EXCEPT ![f] = IF left = {} THEN "store" ELSE "check"]
      /\ UNCHANGED <<reqs, fresh, blocked, attempts, pos, attempt, pending, shared>>
  BY DEF ReadCache
<1>4. N \in Nat /\ DOMAIN reqs[f] = 1..N /\ DOMAIN o = 1..N BY <1>1 DEF LocalTyped
<1>5. \A i \in 1..N : /\ o[i] \in {"none", "not_served", "cached", "blocked"}
                      /\ o[i] = "cached" => ~fresh[f]
                      /\ reqs[f][i] = Unserved => o[i] = "not_served"
  <2> SUFFICES ASSUME NEW i \in 1..N
               PROVE  /\ o[i] \in {"none", "not_served", "cached", "blocked"}
                      /\ o[i] = "cached" => ~fresh[f]
                      /\ reqs[f][i] = Unserved => o[i] = "not_served"
    OBVIOUS
  <2>1. out[f][i] \in {"none", "not_served"} /\ (reqs[f][i] = Unserved => out[f][i] = "not_served")
    BY <1>1 DEF QuietOK, Counts
  <2>2. o[i] = Triage(f, i) BY <1>4
  <2> QED BY <2>1, <2>2 DEF Triage
<1>6. o \in Seq(Outcomes) /\ Len(o) = N
  <2>1. \A i \in 1..N : o[i] \in Outcomes BY <1>5 DEF Outcomes
  <2>2. o = [i \in 1..N |-> o[i]] BY <1>4
  <2> HIDE DEF o
  <2> QED BY <1>4, <2>1, <2>2, AsSequence
<1> HIDE DEF o
<1>7. left \subseteq 1..N /\ left = {i \in 1..N : o[i] = "none"} BY <1>4
<1>8. Cardinality(left) \in Nat
  <2>1. IsFiniteSet(1..N) BY <1>4, FS_Interval
  <2>2. IsFiniteSet(left) BY <1>7, <2>1, FS_Subset
  <2> QED BY <2>2, FS_CardinalityType
<1>9. b \in Seq(Nat) /\ Len(b) = Cardinality(left)
  <2>1. \A p \in 1..Cardinality(left) : b[p] \in Nat BY <1>4, <1>7
  <2>2. b = [p \in 1..Cardinality(left) |-> b[p]] OBVIOUS
  <2> HIDE DEF left
  <2> QED BY <1>8, <2>1, <2>2, AsSequence
<1>10. DOMAIN b = 1..Len(b) /\ Len(b) \in Nat BY <1>9
<1> HIDE DEF left
<1>11. LocalTyped' BY <1>1, <1>2, <1>3, <1>6, <1>9 DEF LocalTyped, PCs
<1>12. \A g \in Fetches \ {f} : Same(g) BY <1>1, <1>2, <1>3 DEF LocalTyped, Same
<1>13. /\ reqs'[f] = reqs[f] /\ out'[f] = o /\ attempts'[f] = attempts[f] /\ batch'[f] = b
       /\ fresh'[f] = fresh[f] /\ pos'[f] = 0 /\ pending'[f] = {}
       /\ pc'[f] = IF left = {} THEN "store" ELSE "check"
  BY <1>1, <1>2, <1>3 DEF LocalTyped, QuietOK
<1>14. /\ \A p \in 1..Len(b) : b[p] \in left
       /\ \A i \in left : \E p \in 1..Len(b) : b[p] = i
       /\ \A p, q \in 1..Len(b) : p < q => b[p] < b[q]
  BY <1>2, <1>10 DEF Lists
<1>15. Counts(f)'
  <2>1. \A i \in 1..N : attempts[f][i] = 0 BY <1>1 DEF QuietOK, Counts, Costs
  <2> QED BY <1>1, <1>5, <1>6, <1>13, <2>1 DEF Counts, Costs
<1>16. BatchSound(f)'
  <2>1. \A p, q \in 1..Len(b) : b[p] = b[q] => p = q
    <3> SUFFICES ASSUME NEW p \in 1..Len(b), NEW q \in 1..Len(b), b[p] = b[q] PROVE p = q OBVIOUS
    <3>1. b[p] \in Nat /\ b[q] \in Nat BY <1>9
    <3>2. ~(p < q) /\ ~(q < p) BY <1>14, <3>1
    <3> QED BY <1>10, <3>2
  <2> QED BY <1>7, <1>13, <1>14, <2>1 DEF BatchSound
<1>17. Aligned(f)'
  <2>1. left = {} <=> Len(b) = 0
    <3>1. ASSUME left = {} PROVE Len(b) = 0
      <4>1. 1 \notin 1..Len(b) BY <1>14, <3>1
      <4> QED BY <1>10, <4>1
    <3>2. ASSUME Len(b) = 0 PROVE left = {} BY <1>14, <3>2
    <3> QED BY <3>1, <3>2
  <2>2. 0 = 0 * Batch BY FetchAssumption
  <2>3. 0 \in 0..0 OBVIOUS
  <2> QED BY <1>10, <1>13, <2>1, <2>2, <2>3 DEF Aligned
<1>18. LeftToSend(f)'
  <2>1. 0 + 1 = 1 OBVIOUS
  <2> SUFFICES ASSUME NEW i \in 1..N
               PROVE  o[i] = "none" <=> \E p \in 1..Len(b) : b[p] = i
    BY <1>7, <1>13, <2>1 DEF LeftToSend
  <2> QED BY <1>7, <1>14
<1>19. PendingEarned(f)' /\ Suppresses(f)' BY <1>13 DEF PendingEarned, Suppresses, BlockedFrom
<1>20. SendingOK(f)' BY <1>13, <1>15, <1>16, <1>17, <1>18, <1>19 DEF SendingOK
<1>21. FetchOK(f)' BY <1>13, <1>20 DEF FetchOK, Sending
<1> QED BY <1>1, <1>3, <1>11, <1>12, <1>13, <1>21, LocalSteps DEF shared

\* A fetch that moves on within a chunk, or from the cache to its record.
LEMMA MovesOn ==
  ASSUME LocalTyped, NEW f \in Fetches, FetchOK(f), NEW p, pc' = [pc EXCEPT ![f] = p],
         \/ pc[f] \in {"check", "wait"} /\ p \in {"check", "wait"}
         \/ pc[f] = "store" /\ p = "record",
         p = "wait" => Send(f) # {}, attempt' \in [Fetches -> Nat],
         \A g \in Fetches \ {f} : attempt'[g] = attempt[g],
         UNCHANGED <<reqs, fresh, blocked, out, attempts, batch, pos, pending>>
  PROVE  LocalTyped' /\ FetchOK(f)' /\ pc'[f] = p /\ (\A g \in Fetches \ {f} : Same(g))
<1>1. LocalTyped' BY DEF LocalTyped, PCs
<1>2. pc'[f] = p BY DEF LocalTyped
<1>3. \A g \in Fetches \ {f} : Same(g) BY DEF LocalTyped, Same
<1>4. SendingOK(f) BY DEF FetchOK, Sending
<1>5. Counts(f)' /\ BatchSound(f)' /\ LeftToSend(f)' /\ PendingEarned(f)'
  BY <1>4 DEF SendingOK, Counts, Costs, BatchSound, LeftToSend, PendingEarned
<1>6. Aligned(f)' BY <1>2, <1>4 DEF SendingOK, Aligned
<1>7. Suppresses(f)'
  <2>1. Suppresses(f) BY <1>4 DEF SendingOK
  <2> QED BY <2>1 DEF Suppresses
<1>8. Send(f)' = Send(f) BY DEF Send, Chunk, ChunkEnd, Covered
<1>9. SendingOK(f)' BY <1>2, <1>5, <1>6, <1>7, <1>8 DEF SendingOK
<1>10. FetchOK(f)' BY <1>2, <1>9 DEF FetchOK, Sending
<1> QED BY <1>1, <1>2, <1>3, <1>10

\* A chunk all of whose requests are suppressed (fetch.go:176-178).
LEMMA SkipChunkIInv == ASSUME IInv, NEW f \in Fetches, SkipChunk(f) PROVE IInv'
<1>1. LocalTyped /\ FetchOK(f) /\ pc[f] = "check" /\ Send(f) = {} /\ ChunkEnds(f, <<>>, 0, {})
  BY DEF IInv, Typed, SkipChunk
<1>2. DOMAIN <<>> = Send(f) /\ 0 \in Nat BY <1>1
<1>3. LocalTyped' /\ FetchOK(f)' /\ pc'[f] \in {"check", "store"} /\ (\A g \in Fetches \ {f} : Same(g))
  BY <1>1, <1>2, ChunkEndsOK
<1> QED BY <1>1, <1>3, LocalSteps DEF SkipChunk, shared

\* A chunk whose requests fail temporarily, with the calls made so far.
LEMMA GivesUp ==
  ASSUME IInv, NEW f \in Fetches, pc[f] \in {"check", "wait"},
         ChunkEnds(f, [i \in Send(f) |-> "temporary"], attempt[f], {}), UNCHANGED shared
  PROVE  IInv'
<1> DEFINE o == [i \in Send(f) |-> "temporary"]
<1>1. LocalTyped /\ FetchOK(f) /\ attempt[f] \in Nat BY DEF IInv, Typed, LocalTyped
<1>2. DOMAIN o = Send(f) /\ \A i \in Send(f) : o[i] = "temporary" OBVIOUS
<1>3. ChunkEnds(f, o, attempt[f], {}) OBVIOUS
<1> HIDE DEF o
<1>4. LocalTyped' /\ FetchOK(f)' /\ pc'[f] \in {"check", "store"} /\ (\A g \in Fetches \ {f} : Same(g))
  BY <1>1, <1>2, <1>3, ChunkEndsOK
<1> QED BY <1>1, <1>4, LocalSteps DEF shared

\* The pause check (request.go:28-38).
LEMMA CheckPauseIInv == ASSUME IInv, NEW f \in Fetches, CheckPause(f) PROVE IInv'
<1>1. LocalTyped /\ FetchOK(f) /\ pc[f] = "check" /\ Send(f) # {} BY DEF IInv, Typed, CheckPause
<1>2. CASE ChunkEnds(f, [i \in Send(f) |-> "temporary"], attempt[f], {})
  BY <1>1, <1>2, GivesUp DEF CheckPause
<1>3. ASSUME ~paused, pc' = [pc EXCEPT ![f] = "wait"],
             UNCHANGED <<reqs, fresh, blocked, out, attempts, batch, pos, attempt, pending>>
      PROVE  IInv'
  <2>1. attempt' \in [Fetches -> Nat] /\ \A g \in Fetches \ {f} : attempt'[g] = attempt[g]
    BY <1>1, <1>3 DEF LocalTyped
  <2>2. LocalTyped' /\ FetchOK(f)' /\ pc'[f] = "wait" /\ (\A g \in Fetches \ {f} : Same(g))
    BY <1>1, <1>3, <2>1, MovesOn
  <2> QED BY <1>1, <1>3, <2>2, LocalSteps DEF CheckPause, shared
<1> QED BY <1>2, <1>3 DEF CheckPause

\* A wait that gives up (request.go:72-82).
LEMMA WaitFailsIInv == ASSUME IInv, NEW f \in Fetches, WaitFails(f) PROVE IInv'
  BY GivesUp DEF WaitFails

\* A call in flight takes the one place a pause leaves its fetch.
LEMMA CallLate ==
  ASSUME IInv, NEW f \in Fetches, pc[f] = "wait", late' = Counted(f), pc'[f] # "wait",
         paused => paused', paused' \in BOOLEAN, \A g \in Fetches \ {f} : Same(g)
  PROVE  late' \in [Fetches -> Nat] /\ \A g \in Fetches : LateOK(g)'
<1>1. late \in [Fetches -> Nat] /\ \A g \in Fetches : LateOK(g) BY DEF IInv, Typed, SharedTyped
<1>2. late' \in [Fetches -> Nat] BY <1>1 DEF Counted
<1>3. ASSUME NEW g \in Fetches PROVE LateOK(g)'
  <2>1. CASE paused /\ g = f BY <1>1, <2>1 DEF LateOK, Counted
  <2>2. CASE paused /\ g # f BY <1>1, <2>2 DEF LateOK, Counted, Same
  <2>3. CASE ~paused BY <1>1, <2>3 DEF LateOK, Counted
  <2> QED BY <2>1, <2>2, <2>3
<1> QED BY <1>2, <1>3

\* A request of the chunk was served by the integration, so it has a scope.
LEMMA SendScopes ==
  ASSUME LocalTyped, NEW f \in Fetches, FetchOK(f), pc[f] = "wait"
  PROVE  /\ Send(f) # {} /\ Send(f) \subseteq Nat
         /\ \A i \in Send(f) : reqs[f][i] \in Ids
<1>1. SendingOK(f) BY DEF FetchOK, Sending
<1>2. Chunk(f) \subseteq 1..Len(reqs[f]) /\ \A i \in Chunk(f) : out[f][i] = "none" BY <1>1, ChunkBounds
<1>3. Send(f) \subseteq Chunk(f) BY DEF Send
<1>4. Send(f) # {} BY <1>1 DEF SendingOK
<1>5. ASSUME NEW i \in Send(f) PROVE i \in Nat /\ reqs[f][i] \in Ids
  <2>1. i \in 1..Len(reqs[f]) /\ out[f][i] = "none" BY <1>2, <1>3
  <2>2. reqs[f][i] # Unserved BY <1>1, <2>1 DEF SendingOK, Counts
  <2>3. reqs[f] \in Seq(Ids \cup {Unserved}) BY DEF LocalTyped
  <2> QED BY <2>1, <2>2, <2>3
<1> QED BY <1>4, <1>5

\* The blocks a failed call earns name what the call carried (fetch.go:318-361).
LEMMA EarnedBlocks ==
  ASSUME LocalTyped, NEW f \in Fetches, FetchOK(f), pc[f] = "wait", NEW fail \in Failures
  PROVE  /\ Earned(f, fail) \in SUBSET (Scopes \X Nat)
         /\ \A b \in Earned(f, fail) : /\ b[2] \in Send(f) /\ b[1] \in {Everything, reqs[f][b[2]]}
                                        /\ ~fail.temporary
<1>1. Send(f) # {} /\ Send(f) \subseteq Nat /\ \A i \in Send(f) : reqs[f][i] \in Ids BY SendScopes
<1>2. CASE fail.temporary \/ fail.scope = "request"
  <2>1. Earned(f, fail) = {} BY <1>2 DEF Earned, Failures
  <2> QED BY <2>1
<1>3. CASE ~fail.temporary /\ fail.scope = "datasource"
  <2> DEFINE first == CHOOSE i \in Send(f) : \A j \in Send(f) : i <= j
  <2>1. \E i \in Send(f) : \A j \in Send(f) : i <= j BY <1>1, LeastOf
  <2>2. first \in Send(f) BY <2>1
  <2>3. Earned(f, fail) = {<<Everything, first>>} BY <1>3 DEF Earned
  <2> HIDE DEF first
  <2>4. Everything \in Scopes /\ first \in Nat BY <1>1, <2>2 DEF Scopes
  <2> QED BY <1>3, <2>2, <2>3, <2>4
<1>4. CASE ~fail.temporary /\ fail.scope \notin {"request", "datasource"}
  <2>1. Earned(f, fail) = IdBlocks(f, Send(f)) BY <1>4 DEF Earned
  <2>2. \A i \in Send(f) : reqs[f][i] \in Scopes BY <1>1 DEF Scopes
  <2>3. IdBlocks(f, Send(f)) = {<<reqs[f][i], i>> : i \in Send(f)} BY DEF IdBlocks
  <2> QED BY <1>1, <1>4, <2>1, <2>2, <2>3
<1> QED BY <1>2, <1>3, <1>4

\* The call and its answer, failures and retries (request.go:30-70, fetch.go:275-316).
LEMMA CallIInv == ASSUME IInv, NEW f \in Fetches, Call(f) PROVE IInv'
<1>1. LocalTyped /\ SharedTyped /\ FetchOK(f) /\ pc[f] = "wait" /\ attempt[f] \in Nat /\ attempt[f] + 1 \in Nat
  BY SMTT(30) DEF IInv, Typed, LocalTyped, Call
<1>2. Send(f) # {} /\ Send(f) \subseteq Nat /\ \A i \in Send(f) : reqs[f][i] \in Ids BY <1>1, SendScopes
<1>3. attempt[f] + 1 > 0 BY <1>1
<1> DEFINE Done == LocalTyped' /\ FetchOK(f)' /\ pc'[f] # "wait" /\ (\A g \in Fetches \ {f} : Same(g))
<1>4. ASSUME Done, paused => paused', paused' \in BOOLEAN PROVE IInv'
  <2>1. late' \in [Fetches -> Nat] /\ \A g \in Fetches : LateOK(g)' BY <1>1, <1>4, CallLate DEF Call
  <2>2. SharedTyped' BY <1>1, <1>4, <2>1 DEF SharedTyped, Call
  <2>3. BlocksAreEarned' BY <1>1, <1>4, KeepsBlocks DEF Call
  <2> QED BY <1>4, <2>1, <2>2, <2>3, FetchSteps
<1>5. ASSUME Answered(f) PROVE IInv'
  <2>1. PICK resp \in [Send(f) -> {"served", "temporary", "identifier", "terms"}] :
          /\ ChunkEnds(f, [i \in Send(f) |-> IF resp[i] \in {"served", "temporary"} THEN resp[i] ELSE "permanent"],
                       attempt[f] + 1, IdBlocks(f, {i \in Send(f) : resp[i] = "identifier"}))
          /\ UNCHANGED paused
    BY <1>5 DEF Answered
  <2> DEFINE o == [i \in Send(f) |-> IF resp[i] \in {"served", "temporary"} THEN resp[i] ELSE "permanent"]
             blocks == IdBlocks(f, {i \in Send(f) : resp[i] = "identifier"})
  <2>2. DOMAIN o = Send(f) /\ \A i \in Send(f) : o[i] \in {"served", "temporary", "permanent"} OBVIOUS
  <2>3. blocks \in SUBSET (Scopes \X Nat) BY <1>2 DEF IdBlocks, Scopes
  <2>4. \A b \in blocks : b[2] \in Send(f) /\ o[b[2]] = "permanent" /\ b[1] \in {Everything, reqs[f][b[2]]}
    BY DEF IdBlocks
  <2>5. ChunkEnds(f, o, attempt[f] + 1, blocks) BY <2>1
  <2> HIDE DEF o, blocks
  <2>6. LocalTyped' /\ FetchOK(f)' /\ pc'[f] \in {"check", "store"} /\ (\A g \in Fetches \ {f} : Same(g))
    BY <1>1, <1>3, <2>2, <2>3, <2>4, <2>5, ChunkEndsOK
  <2> QED BY <1>1, <1>4, <2>1, <2>6 DEF SharedTyped
<1>6. ASSUME Refused(f) PROVE IInv'
  <2>1. PICK fail \in Failures :
          /\ \/ /\ attempt' = [attempt EXCEPT ![f] = Calls(@)]
                /\ pc' = [pc EXCEPT ![f] = RetryFrom]
                /\ UNCHANGED <<reqs, fresh, blocked, out, attempts, batch, pos, pending>>
             \/ ChunkEnds(f, [i \in Send(f) |-> IF fail.temporary THEN "temporary" ELSE "permanent"],
                          attempt[f] + 1, Earned(f, fail))
          /\ paused' = (paused \/ (fail.temporary /\ fail.scope = "datasource" /\ fail.after))
    BY <1>6 DEF Refused
  <2>2. (paused => paused') /\ paused' \in BOOLEAN BY <2>1
  <2>3. ASSUME attempt' = [attempt EXCEPT ![f] = Calls(@)], pc' = [pc EXCEPT ![f] = RetryFrom],
               UNCHANGED <<reqs, fresh, blocked, out, attempts, batch, pos, pending>>
        PROVE  Done
    <3>1. attempt' \in [Fetches -> Nat] /\ \A g \in Fetches \ {f} : attempt'[g] = attempt[g]
      BY <1>1, <2>3 DEF LocalTyped, Calls
    <3>2. pc' = [pc EXCEPT ![f] = "check"] BY <2>3 DEF RetryFrom
    <3>3. LocalTyped' /\ FetchOK(f)' /\ pc'[f] = "check" /\ (\A g \in Fetches \ {f} : Same(g))
      BY <1>1, <2>3, <3>1, <3>2, MovesOn
    <3> QED BY <3>3
  <2>4. ASSUME ChunkEnds(f, [i \in Send(f) |-> IF fail.temporary THEN "temporary" ELSE "permanent"],
                         attempt[f] + 1, Earned(f, fail))
        PROVE  Done
    <3> DEFINE o == [i \in Send(f) |-> IF fail.temporary THEN "temporary" ELSE "permanent"]
    <3>1. DOMAIN o = Send(f) /\ \A i \in Send(f) : o[i] \in {"served", "temporary", "permanent"} OBVIOUS
    <3>2. Earned(f, fail) \in SUBSET (Scopes \X Nat) BY <1>1, EarnedBlocks
    <3>3. \A b \in Earned(f, fail) :
            b[2] \in Send(f) /\ o[b[2]] = "permanent" /\ b[1] \in {Everything, reqs[f][b[2]]}
      BY <1>1, EarnedBlocks
    <3>4. ChunkEnds(f, o, attempt[f] + 1, Earned(f, fail)) BY <2>4
    <3> HIDE DEF o
    <3>5. LocalTyped' /\ FetchOK(f)' /\ pc'[f] \in {"check", "store"} /\ (\A g \in Fetches \ {f} : Same(g))
      BY <1>1, <1>3, <3>1, <3>2, <3>3, <3>4, ChunkEndsOK
    <3> QED BY <3>5
  <2> QED BY <1>4, <2>1, <2>2, <2>3, <2>4
<1> QED BY <1>5, <1>6 DEF Call

\* fetchRun returns.
LEMMA ReturnsOK ==
  ASSUME IInv, NEW f \in Fetches, NEW p \in {"done", "failed"}, Returns(f, p)
  PROVE  /\ LocalTyped' /\ FetchOK(f)' /\ pc'[f] = p /\ (\A g \in Fetches \ {f} : Same(g))
         /\ late' = [late EXCEPT ![f] = 0] /\ late' \in [Fetches -> Nat]
<1>1. LocalTyped /\ SharedTyped BY DEF IInv, Typed
<1>2. \A g \in Fetches \ {f} : Same(g) BY <1>1 DEF LocalTyped, Returns, Same
<1>3. late' = [late EXCEPT ![f] = 0] /\ late' \in [Fetches -> Nat] BY <1>1 DEF SharedTyped, Returns
<1>4. pc'[f] = p /\ pending'[f] = {} BY <1>1 DEF LocalTyped, Returns
<1>5. <<>> \in Seq(Ids \cup {Unserved}) /\ <<>> \in Seq(Outcomes) /\ <<>> \in Seq(Nat) OBVIOUS
<1>6. LocalTyped'
  <2>1. reqs' \in [Fetches -> Seq(Ids \cup {Unserved})] /\ out' \in [Fetches -> Seq(Outcomes)]
    BY <1>1, <1>5 DEF LocalTyped, Returns
  <2>2. attempts' \in [Fetches -> Seq(Nat)] /\ batch' \in [Fetches -> Seq(Nat)]
    BY <1>1, <1>5 DEF LocalTyped, Returns
  <2> QED BY <1>1, <2>1, <2>2 DEF LocalTyped, Returns, PCs
<1>7. FetchOK(f)' BY <1>4 DEF FetchOK, Sending, QuietOK
<1> QED BY <1>2, <1>3, <1>4, <1>6, <1>7

\* A fetch returns without having recorded anything.
LEMMA ReturnsIInv ==
  ASSUME IInv, NEW f \in Fetches, pc[f] # "done", Returns(f, "failed"), UNCHANGED <<paused, open, reports>>
  PROVE  IInv'
<1>1. /\ LocalTyped' /\ FetchOK(f)' /\ pc'[f] = "failed" /\ (\A g \in Fetches \ {f} : Same(g))
      /\ late' = [late EXCEPT ![f] = 0] /\ late' \in [Fetches -> Nat]
  BY ReturnsOK
<1>2. SharedTyped' BY <1>1 DEF IInv, Typed, SharedTyped
<1>3. \A g \in Fetches : LateOK(g)' BY <1>1, KeepsLate
<1>4. BlocksAreEarned' BY <1>1, KeepsBlocks
<1> QED BY <1>1, <1>2, <1>3, <1>4, FetchSteps

\* writeCache (fetch.go:254-273).
LEMMA WriteCacheIInv == ASSUME IInv, NEW f \in Fetches, WriteCache(f) PROVE IInv'
<1>1. LocalTyped /\ FetchOK(f) /\ pc[f] = "store" BY DEF IInv, Typed, WriteCache
<1>2. ASSUME pc' = [pc EXCEPT ![f] = "record"],
             UNCHANGED <<reqs, fresh, blocked, out, attempts, batch, pos, attempt, pending, late>>
      PROVE  IInv'
  <2>1. attempt' \in [Fetches -> Nat] /\ \A g \in Fetches \ {f} : attempt'[g] = attempt[g]
    BY <1>1, <1>2 DEF LocalTyped
  <2>2. LocalTyped' /\ FetchOK(f)' /\ pc'[f] = "record" /\ (\A g \in Fetches \ {f} : Same(g))
    BY <1>1, <1>2, <2>1, MovesOn
  <2> QED BY <1>1, <1>2, <2>2, LocalSteps DEF WriteCache
<1>3. CASE Returns(f, "failed") BY <1>1, <1>3, ReturnsIInv DEF WriteCache
<1> QED BY <1>2, <1>3 DEF WriteCache

\* A fetch that fails (fetch.go:99-112).
LEMMA AbortIInv == ASSUME IInv, NEW f \in Fetches, Abort(f) PROVE IInv'
  BY ReturnsIInv DEF Abort

\* The recording transaction (fetch.go:183-204).
LEMMA RecordIInv == ASSUME IInv, NEW f \in Fetches, Record(f) PROVE IInv'
<1> DEFINE key(s) == <<f, CHOOSE i \in DOMAIN out[f] : /\ <<s, i>> \in pending[f]
                                                       /\ \A j \in 1..(i - 1) : <<s, j>> \notin pending[f]>>
           new == {s \in {b[1] : b \in pending[f]} : open[s] = NoKey}
<1>1. LocalTyped /\ SharedTyped /\ SendingOK(f) /\ BlocksAreEarned /\ pc[f] = "record"
  BY DEF IInv, Typed, FetchOK, Sending, Record
<1>2. /\ open' = [s \in Scopes |-> IF s \in new THEN key(s) ELSE open[s]]
      /\ reports' = reports \cup {<<s, key(s)>> : s \in new}
      /\ Returns(f, "done") /\ UNCHANGED paused
  BY DEF Record, Reported
<1>3. /\ LocalTyped' /\ FetchOK(f)' /\ pc'[f] = "done" /\ (\A g \in Fetches \ {f} : Same(g))
      /\ late' = [late EXCEPT ![f] = 0] /\ late' \in [Fetches -> Nat]
  BY <1>2, ReturnsOK
<1>4. reqs' = reqs /\ out' = out BY <1>2 DEF Returns
<1>5. ASSUME NEW s \in new
      PROVE  \E i \in Nat : /\ key(s) = <<f, i>> /\ i \in DOMAIN out[f] /\ out[f][i] = "permanent"
                            /\ s \in {Everything, reqs[f][i]}
  <2> DEFINE T == {i \in DOMAIN out[f] : <<s, i>> \in pending[f]}
             First(i) == <<s, i>> \in pending[f] /\ \A j \in 1..(i - 1) : <<s, j>> \notin pending[f]
  <2>1. DOMAIN out[f] = 1..Len(reqs[f]) /\ Len(reqs[f]) \in Nat BY <1>1 DEF LocalTyped, SendingOK, Counts
  <2>2. T # {}
    <3>1. PICK b \in pending[f] : b[1] = s OBVIOUS
    <3>2. b = <<s, b[2]>> BY <1>1, <3>1 DEF LocalTyped
    <3>3. PICK p \in 1..pos[f] : batch[f][p] = b[2] BY <1>1 DEF SendingOK, PendingEarned
    <3>4. p \in 1..Len(batch[f]) BY <1>1 DEF LocalTyped, SendingOK, Aligned
    <3>5. b[2] \in 1..Len(reqs[f]) BY <1>1, <3>3, <3>4 DEF SendingOK, BatchSound
    <3> QED BY <2>1, <3>2, <3>5
  <2>3. T \in SUBSET Nat BY <2>1
  <2>4. PICK m \in T : \A n \in T : m <= n BY <2>2, <2>3, LeastOf
  <2>5. First(m)
    <3>1. ASSUME NEW j \in 1..(m - 1), <<s, j>> \in pending[f] PROVE FALSE
      <4>1. j \in DOMAIN out[f] /\ ~(m <= j) /\ m \in Nat BY <2>1, <2>3
      <4> QED BY <2>4, <3>1, <4>1
    <3> QED BY <3>1
  <2>6. \E i \in DOMAIN out[f] : First(i) BY <2>5
  <2> DEFINE i == CHOOSE i \in DOMAIN out[f] : First(i)
  <2>7. i \in DOMAIN out[f] /\ First(i) BY <2>6
  <2>8. key(s) = <<f, i>> OBVIOUS
  <2> HIDE DEF i
  <2>9. <<s, i>> \in pending[f] BY <2>7
  <2>10. out[f][i] = "permanent" /\ s \in {Everything, reqs[f][i]}
    BY <1>1, <2>9 DEF SendingOK, PendingEarned
  <2> QED BY <2>1, <2>7, <2>8, <2>10
<1>6. new \subseteq Scopes BY <1>1 DEF LocalTyped
<1> HIDE DEF key, new
<1>7. \A s \in new : key(s) \in Keys /\ key(s) # NoKey BY <1>5, FetchAssumption DEF Keys
<1>8. SharedTyped' BY <1>1, <1>2, <1>3, <1>7 DEF SharedTyped
<1>9. \A g \in Fetches : LateOK(g)' BY <1>2, <1>3, KeepsLate
<1>10. BlocksAreEarned'
  <2>1. ASSUME NEW s \in Scopes, open'[s] # NoKey
        PROVE  /\ pc'[open'[s][1]] = "done" /\ open'[s][2] \in DOMAIN out[open'[s][1]]
               /\ out[open'[s][1]][open'[s][2]] = "permanent"
               /\ s \in {Everything, reqs[open'[s][1]][open'[s][2]]}
    <3>1. CASE s \in new
      <4>1. open'[s] = key(s) BY <1>2, <3>1
      <4>2. PICK i \in Nat : /\ key(s) = <<f, i>> /\ i \in DOMAIN out[f] /\ out[f][i] = "permanent"
                             /\ s \in {Everything, reqs[f][i]}
        BY <1>5, <3>1
      <4> QED BY <1>3, <4>1, <4>2
    <3>2. CASE s \notin new
      <4>1. open'[s] = open[s] /\ open[s] # NoKey BY <1>2, <2>1, <3>2
      <4>2. open[s][1] \in Fetches BY <1>1, <4>1 DEF SharedTyped, Keys
      <4>3. /\ pc[open[s][1]] = "done" /\ open[s][2] \in DOMAIN out[open[s][1]]
            /\ out[open[s][1]][open[s][2]] = "permanent"
            /\ s \in {Everything, reqs[open[s][1]][open[s][2]]}
        BY <1>1, <4>1 DEF BlocksAreEarned
      <4>4. Same(open[s][1]) BY <1>1, <1>3, <4>2, <4>3
      <4> QED BY <4>1, <4>3, <4>4 DEF Same
    <3> QED BY <3>1, <3>2
  <2>2. reports' = {<<s, open'[s]>> : s \in {x \in Scopes : open'[x] # NoKey}}
    <3>1. reports = {<<s, open[s]>> : s \in {x \in Scopes : open[x] # NoKey}} BY <1>1 DEF BlocksAreEarned
    <3>2. \A s \in new : open[s] = NoKey BY DEF new
    <3>3. \A s \in Scopes : open'[s] = IF s \in new THEN key(s) ELSE open[s] BY <1>2
    <3> QED BY <1>2, <1>6, <1>7, <3>1, <3>2, <3>3
  <2> QED BY <1>4, <2>1, <2>2 DEF BlocksAreEarned
<1> QED BY <1>3, <1>8, <1>9, <1>10, FetchSteps

-----------------------------------------------------------------------------
(* Beside the fetches, and the invariant *)

\* A step that leaves every fetch alone.
LEMMA AllSame ==
  ASSUME IInv, UNCHANGED local
  PROVE  LocalTyped' /\ \A g \in Fetches : Same(g) /\ FetchOK(g)'
<1>1. \A g \in Fetches : Same(g) BY DEF local, Same
<1>2. LocalTyped' BY DEF IInv, Typed, LocalTyped, local
<1> QED BY <1>1, <1>2, SameOK DEF IInv

\* A block is cleared with its finding (datasources.sql ClearDatasourceBlock).
LEMMA ClearBlockIInv == ASSUME IInv, NEW s \in Scopes, ClearBlock(s) PROVE IInv'
<1>1. LocalTyped' /\ \A g \in Fetches : Same(g) /\ FetchOK(g)' BY AllSame DEF ClearBlock
<1>2. open' = [open EXCEPT ![s] = NoKey] /\ reports' = {r \in reports : r # <<s, open[s]>>} /\ open[s] # NoKey
  BY DEF ClearBlock
<1>3. SharedTyped' BY <1>2 DEF IInv, Typed, SharedTyped, ClearBlock
<1>4. \A g \in Fetches : LateOK(g)' BY DEF IInv, LateOK, ClearBlock, local
<1>5. \A x \in Scopes : open'[x] = IF x = s THEN NoKey ELSE open[x] BY <1>2 DEF IInv, Typed, SharedTyped
<1>6. reports' = {<<x, open'[x]>> : x \in {y \in Scopes : open'[y] # NoKey}}
  <2>1. reports = {<<x, open[x]>> : x \in {y \in Scopes : open[y] # NoKey}} BY DEF IInv, BlocksAreEarned
  <2>2. ASSUME NEW r PROVE r \in reports' <=> \E x \in Scopes : open'[x] # NoKey /\ r = <<x, open'[x]>>
    <3>1. r \in reports' <=> r \in reports /\ r # <<s, open[s]>> BY <1>2
    <3>2. r \in reports <=> \E x \in Scopes : open[x] # NoKey /\ r = <<x, open[x]>> BY <2>1
    <3> QED BY <1>5, <3>1, <3>2
  <2> QED BY <2>2
<1>7. BlocksAreEarned'
  <2>1. UNCHANGED <<pc, out, reqs>> BY DEF ClearBlock, local
  <2>2. ASSUME NEW x \in Scopes, open'[x] # NoKey
        PROVE  /\ pc[open'[x][1]] = "done" /\ open'[x][2] \in DOMAIN out[open'[x][1]]
               /\ out[open'[x][1]][open'[x][2]] = "permanent"
               /\ x \in {Everything, reqs[open'[x][1]][open'[x][2]]}
    BY <1>5, <2>2 DEF IInv, BlocksAreEarned
  <2> QED BY <1>6, <2>1, <2>2 DEF BlocksAreEarned
<1> QED BY <1>1, <1>3, <1>4, <1>7 DEF IInv, Typed

\* Steps that change neither a fetch nor a block.
LEMMA QuietIInv ==
  ASSUME IInv, UNCHANGED <<local, open, reports>>, SharedTyped', \A g \in Fetches : LateOK(g)'
  PROVE  IInv'
<1>1. LocalTyped' /\ \A g \in Fetches : Same(g) /\ FetchOK(g)' BY AllSame
<1>2. BlocksAreEarned' BY DEF IInv, BlocksAreEarned, local
<1> QED BY <1>1, <1>2 DEF IInv, Typed

\* The pause is over (registry.go:67-86).
LEMMA PauseEndsIInv == ASSUME IInv, PauseEnds PROVE IInv'
<1>1. SharedTyped' BY DEF IInv, Typed, SharedTyped, PauseEnds
<1>2. \A g \in Fetches : LateOK(g)' BY DEF LateOK, PauseEnds
<1> QED BY <1>1, <1>2, QuietIInv DEF PauseEnds

\* A step that leaves the pause and its count alone too.
LEMMA UnchangedIInv ==
  ASSUME IInv, UNCHANGED <<local, paused, late, open, reports>>
  PROVE  IInv'
<1>1. SharedTyped' BY DEF IInv, Typed, SharedTyped
<1>2. \A g \in Fetches : LateOK(g)' BY DEF IInv, LateOK, local
<1> QED BY <1>1, <1>2, QuietIInv

\* No fetch has begun.
LEMMA InitIInv == ASSUME Init PROVE IInv
<1>1. <<>> \in Seq(Ids \cup {Unserved}) /\ <<>> \in Seq(Outcomes) /\ <<>> \in Seq(Nat) OBVIOUS
<1>2. Typed BY <1>1 DEF Init, Typed, LocalTyped, SharedTyped, PCs
<1>3. \A f \in Fetches : FetchOK(f) /\ LateOK(f) BY DEF Init, FetchOK, Sending, QuietOK, LateOK
<1>4. BlocksAreEarned BY DEF Init, BlocksAreEarned
<1> QED BY <1>2, <1>3, <1>4 DEF IInv

\* IInv is inductive: it holds however fetches interleave, calls fail, pauses come
\* and go and administrators clear blocks.
THEOREM FetchInductive == Spec => []IInv
<1>1. Init => IInv BY InitIInv
<1>2. IInv /\ [Next]_vars => IInv'
  <2> SUFFICES ASSUME IInv, [Next]_vars PROVE IInv' OBVIOUS
  <2>1. ASSUME NEW f \in Fetches, Begin(f) PROVE IInv' BY <2>1, BeginIInv
  <2>2. ASSUME NEW f \in Fetches, ReadCache(f) PROVE IInv' BY <2>2, ReadCacheIInv
  <2>3. ASSUME NEW f \in Fetches, SkipChunk(f) PROVE IInv' BY <2>3, SkipChunkIInv
  <2>4. ASSUME NEW f \in Fetches, CheckPause(f) PROVE IInv' BY <2>4, CheckPauseIInv
  <2>5. ASSUME NEW f \in Fetches, Call(f) PROVE IInv' BY <2>5, CallIInv
  <2>6. ASSUME NEW f \in Fetches, WriteCache(f) PROVE IInv' BY <2>6, WriteCacheIInv
  <2>7. ASSUME NEW f \in Fetches, Record(f) PROVE IInv' BY <2>7, RecordIInv
  <2>8. ASSUME NEW f \in Fetches, WaitFails(f) PROVE IInv' BY <2>8, WaitFailsIInv
  <2>9. ASSUME NEW f \in Fetches, Abort(f) PROVE IInv' BY <2>9, AbortIInv
  <2>10. ASSUME NEW s \in Scopes, ClearBlock(s) PROVE IInv' BY <2>10, ClearBlockIInv
  <2>11. CASE PauseEnds BY <2>11, PauseEndsIInv
  <2>12. ASSUME NEW id \in Ids, CacheExpires(id) PROVE IInv' BY <2>12, UnchangedIInv DEF CacheExpires
  <2>13. CASE UNCHANGED vars BY <2>13, UnchangedIInv DEF vars, shared
  <2> QED BY <2>1, <2>2, <2>3, <2>4, <2>5, <2>6, <2>7, <2>8, <2>9, <2>10, <2>11, <2>12, <2>13 DEF Next, Step
<1> QED BY <1>1, <1>2, PTL DEF Spec

-----------------------------------------------------------------------------
(* The theorems *)

\* Every key a fetch records has an outcome that its calls explain
\* (fetch.go:130-204), for every batch size and number of tries.
THEOREM OutcomesAreExplained == Spec => []OutcomesExplained
<1>1. IInv => OutcomesExplained
  <2> SUFFICES ASSUME IInv, NEW f \in Fetches, pc[f] \in {"store", "record"}, NEW i \in DOMAIN reqs[f]
               PROVE  /\ out[f][i] # "none"
                      /\ out[f][i] \in {"not_served", "cached", "blocked"} => attempts[f][i] = 0
                      /\ out[f][i] \in {"served", "permanent"} => attempts[f][i] > 0
                      /\ out[f][i] = "cached" => ~fresh[f]
    BY DEF OutcomesExplained
  <2>1. SendingOK(f) BY DEF IInv, FetchOK, Sending
  <2>2. i \in 1..Len(reqs[f]) BY DEF IInv, Typed, LocalTyped
  <2>3. (pos[f] + 1)..Len(batch[f]) = {} BY <2>1 DEF IInv, Typed, LocalTyped, SendingOK, Aligned
  <2>4. out[f][i] # "none" BY <2>1, <2>2, <2>3 DEF SendingOK, LeftToSend
  <2>5. Costs(f, out[f][i], attempts[f][i]) BY <2>1, <2>2 DEF SendingOK, Counts
  <2> QED BY <2>4, <2>5 DEF Costs
<1> QED BY <1>1, FetchInductive, PTL

\* A block that a chunk earns suppresses what the later chunks would send
\* (fetch.go:164-182), for every batch size.
THEOREM LaterChunksAreSuppressed == Spec => []SuppressesLaterChunks
<1>1. IInv => SuppressesLaterChunks
  <2> SUFFICES ASSUME IInv, NEW f \in Fetches, NEW b \in pending[f],
                      NEW p \in 1..Len(batch[f]), NEW q \in 1..Len(batch[f]),
                      batch[f][p] = b[2], ChunkOf(p) < ChunkOf(q), q <= pos[f],
                      Covered({b[1]}, reqs[f][batch[f][q]])
               PROVE  out[f][batch[f][q]] = "blocked"
    BY DEF SuppressesLaterChunks
  <2>1. SendingOK(f) BY DEF IInv, FetchOK, QuietOK
  <2> QED BY <2>1 DEF SendingOK, Suppresses, BlockedFrom
<1> QED BY <1>1, FetchInductive, PTL

\* Every open block was earned by a recorded permanent failure, and has exactly
\* one finding (fetch.go:187-202, 330-342).
THEOREM OpenBlocksAreEarned == Spec => []BlocksAreEarned
<1>1. IInv => BlocksAreEarned BY DEF IInv
<1> QED BY <1>1, FetchInductive, PTL

\* A pause admits one call of each fetch, the one past its check
\* (request.go:31, 50-53).
THEOREM PausesHold == Spec => []PauseAdmitsCallInFlight
<1>1. IInv => PauseAdmitsCallInFlight
  <2> SUFFICES ASSUME IInv, NEW f \in Fetches PROVE late[f] <= 1 BY DEF PauseAdmitsCallInFlight
  <2>1. LateOK(f) /\ late[f] \in Nat BY DEF IInv, Typed, SharedTyped
  <2> QED BY <2>1 DEF LateOK
<1> QED BY <1>1, FetchInductive, PTL
=============================================================================
