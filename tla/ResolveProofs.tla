---------------------------- MODULE ResolveProofs ----------------------------
(***************************************************************************)
(* Proofs about Resolve, for any keys, answers, datasources and stored     *)
(* instruments, and any number of resolutions: resolutions that race for   *)
(* an identifier write one instrument, what refers to an instrument refers *)
(* to a stored one, a user's choice stands, and a write by itself gives no *)
(* instrument two values of an exclusive type.                             *)
(*                                                                         *)
(* The argument about a choice: the claims chosen are among those given by *)
(* the answers, and each fits those chosen before it, so the claims        *)
(* attached agree two by two and with the instrument they are attached to.  The folds over the   *)
(* answers are recursive functions; what holds along them is shown by a    *)
(* least counterexample.                                                   *)
(*                                                                         *)
(* The argument about a write: the instrument findWriteTarget names is     *)
(* stored and is not among those it merges away, a merge joins no two that *)
(* conflict, and every identifier the first choice attaches was looked up. *)
(* The instrument written carries at least what it and the merged ones     *)
(* carried; so every reference that Relinked moves finds what it found     *)
(* before.                                                                 *)
(***************************************************************************)
EXTENDS Resolve, WellFoundedInduction, FiniteSetTheorems, TLAPS

IsRun(x) == x = [step |-> x.step, kind |-> x.kind, key |-> x.key, pick |-> x.pick, outcome |-> x.outcome,
                 dating |-> x.dating, fromFacts |-> x.fromFacts, fks |-> x.fks, held |-> x.held,
                 heldIDs |-> x.heldIDs, why |-> x.why]
IsAssociation(a) == a = [instr |-> a.instr, via |-> a.via, ticker |-> a.ticker, arbiter |-> a.arbiter]

Shaped == /\ run = [r \in Runs |-> run[r]] /\ \A r \in Runs : IsRun(run[r])
          /\ assoc = [k \in Keys |-> assoc[k]] /\ \A k \in Keys : IsAssociation(assoc[k])
          /\ \A i \in DOMAIN instrs : Instr(instrs[i])

\* Every stored instrument was created, so a new one's number is not taken.
Numbered == /\ created \in Nat
            /\ DOMAIN instrs \subseteq Instrs /\ DOMAIN instrs \subseteq 1..created

-----------------------------------------------------------------------------
(* Least elements *)

(* A set of numbers has a least one: the earliest instrument of a merge.   *)
LEMMA LeastOf == ASSUME NEW T \in SUBSET Nat, T # {}
                 PROVE  \E m \in T : \A k \in T : m <= k
<1>1. PICK m \in T : \A y \in T : ~(<<y, m>> \in OpToRel(<, Nat))
  BY NatLessThanWellFounded, WFMin
<1>2. ASSUME NEW y \in T PROVE m <= y
  <2>1. y \in Nat /\ m \in Nat
    OBVIOUS
  <2>2. ASSUME y < m PROVE <<y, m>> \in OpToRel(<, Nat)
    BY <2>1, <2>2 DEF OpToRel
  <2>3. ~(y < m)
    BY <1>1, <2>2, Zenon
  <2> QED
    BY <2>1, <2>3
<1> QED
  BY <1>2

(* The earliest of some instruments is one of them (merge.go, merge). *)
LEMMA MinIsIn == ASSUME NEW S \in SUBSET Nat, S # {} PROVE Min(S) \in S
BY LeastOf DEF Min

(* Whatever identifiers are compared, the strongest is one of them: their  *)
(* strengths are numbers (merge.go, refuse; writer.go, identityVia).       *)
LEMMA StrongestIsIn == ASSUME NEW ids, ids # {} PROVE Strongest(ids) \in ids
<1>1. \A id : Strength(id) \in Nat
  BY DEF Strength
<1>2. PICK T : T = {Strength(id) : id \in ids}
  OBVIOUS
<1>3. T \in SUBSET Nat /\ T # {}
  BY <1>1, <1>2
<1>4. PICK m \in T : \A k \in T : m <= k
  BY <1>3, LeastOf
<1>5. PICK id \in ids : m = Strength(id)
  BY <1>2, <1>4
<1>6. \A o \in ids : Strength(id) <= Strength(o)
  BY <1>2, <1>4, <1>5
<1> QED
  BY <1>5, <1>6 DEF Strongest

-----------------------------------------------------------------------------
(* Sequences *)

\* s is a sequence.
IsSeq(s) == Len(s) \in Nat /\ DOMAIN s = 1..Len(s)

(* Appending adds one element at the end. *)
LEMMA Appended ==
    ASSUME NEW s, IsSeq(s), NEW x
    PROVE  /\ IsSeq(Append(s, x)) /\ Len(Append(s, x)) = Len(s) + 1
           /\ \A n \in DOMAIN s : Append(s, x)[n] = s[n]
           /\ Append(s, x)[Len(s) + 1] = x
BY DEF IsSeq

(* The empty sequence. *)
LEMMA NoElements == IsSeq(<< >>) /\ Len(<< >>) = 0 /\ DOMAIN << >> = {}
BY DEF IsSeq

(* Two sequences, one after the other, hold the elements of both. *)
LEMMA Joined ==
    ASSUME NEW s, NEW u, IsSeq(s), IsSeq(u)
    PROVE  /\ IsSeq(s \o u)
           /\ \A n \in DOMAIN (s \o u) :
                 (\E k \in DOMAIN s : (s \o u)[n] = s[k]) \/ \E k \in DOMAIN u : (s \o u)[n] = u[k]
BY DEF IsSeq

(* A sequence that is not empty has a head and a tail. *)
LEMMA TailIs ==
    ASSUME NEW s, IsSeq(s), s # <<>>
    PROVE  /\ IsSeq(Tail(s)) /\ 1 \in DOMAIN s /\ Head(s) = s[1]
           /\ \A n \in DOMAIN Tail(s) : n + 1 \in DOMAIN s /\ Tail(s)[n] = s[n + 1]
BY DEF IsSeq
(* The elements of s at some positions are a sequence of elements of s. *)
LEMMA AtIs ==
    ASSUME NEW s, IsSeq(s), NEW P
    PROVE  IsSeq(At(s, P)) /\ \A n \in DOMAIN At(s, P) : \E m \in P \cap DOMAIN s : At(s, P)[n] = s[m]
<1>1. PICK N \in Nat : N = Len(s) /\ DOMAIN s = 1..N
  BY DEF IsSeq
<1> DEFINE G(g, n) == g = [m \in 0..n |-> IF m = 0 THEN <<>>
                                          ELSE IF m \in P THEN Append(g[m - 1], s[m]) ELSE g[m - 1]]
<1> HIDE DEF G
<1>2. \E g : G(g, N)
  <2>1. PICK B : B = {n \in 0..N : ~\E g : G(g, n)}
    OBVIOUS
  <2>2. SUFFICES ASSUME B # {} PROVE FALSE
    BY <2>1
  <2>3. B \in SUBSET Nat
    BY <2>1
  <2>4. PICK n \in B : \A k \in B : n <= k
    BY <2>2, <2>3, LeastOf
  <2>5. n # 0
    <3>1. PICK g : g = [m \in 0..0 |-> <<>>]
      OBVIOUS
    <3>2. G(g, 0)
      BY <3>1 DEF G
    <3> QED
      BY <2>1, <3>2
  <2>6. n - 1 \in 0..N /\ n - 1 \notin B /\ n \in 1..N
    BY <2>1, <2>4, <2>5
  <2>7. PICK g : G(g, n - 1)
    BY <2>1, <2>6
  <2>8. PICK x : x = IF n \in P THEN Append(g[n - 1], s[n]) ELSE g[n - 1]
    OBVIOUS
  <2>9. PICK h : h = [m \in 0..n |-> IF m = n THEN x ELSE g[m]]
    OBVIOUS
  <2>10. G(h, n)
    <3>1. \A m \in 0..(n - 1) : h[m] = g[m]
      BY <2>6, <2>9
    <3>2. \A m \in 0..(n - 1) : g[m] = IF m = 0 THEN <<>> ELSE IF m \in P THEN Append(g[m - 1], s[m]) ELSE g[m - 1]
      BY <2>7 DEF G
    <3>3. ASSUME NEW m \in 0..n
          PROVE  h[m] = IF m = 0 THEN <<>> ELSE IF m \in P THEN Append(h[m - 1], s[m]) ELSE h[m - 1]
      <4>1. CASE m = n
        BY <2>5, <2>6, <2>8, <2>9, <3>1, <4>1
      <4>2. CASE m # n
        BY <2>6, <3>1, <3>2, <4>2
      <4> QED
        BY <4>1, <4>2
    <3> QED
      BY <2>9, <3>3 DEF G
  <2> QED
    BY <2>1, <2>4, <2>10
<1>3. PICK kept : G(kept, N) /\ At(s, P) = kept[N]
  <2>1. PICK kept : kept = CHOOSE g : G(g, N)
    OBVIOUS
  <2>2. G(kept, N)
    BY <1>2, <2>1
  <2>3. At(s, P) = kept[N]
    BY <1>1, <2>1, Zenon DEF At, G
  <2> QED
    BY <2>2, <2>3
<1>4. \A n \in 0..N : kept[n] = IF n = 0 THEN <<>> ELSE IF n \in P THEN Append(kept[n - 1], s[n]) ELSE kept[n - 1]
  BY <1>3 DEF G
<1>5. kept[0] = <<>>
  BY <1>4
<1>6. \A n \in 1..N : kept[n] = IF n \in P THEN Append(kept[n - 1], s[n]) ELSE kept[n - 1]
  BY <1>4
<1> DEFINE Ok(u) == IsSeq(u) /\ \A k \in DOMAIN u : \E m \in P \cap DOMAIN s : u[k] = s[m]
<1>7. ASSUME NEW n \in 1..N, Ok(kept[n - 1]) PROVE Ok(kept[n])
  <2>1. CASE n \in P
    <3>1. PICK u : u = kept[n - 1]
      OBVIOUS
    <3>2. kept[n] = Append(u, s[n])
      BY <1>6, <2>1, <3>1
    <3>3. IsSeq(u) /\ \A k \in DOMAIN u : \E m \in P \cap DOMAIN s : u[k] = s[m]
      BY <1>7, <3>1
    <3>4. n \in P \cap DOMAIN s
      BY <1>1, <2>1
    <3>5. DOMAIN u = 1..Len(u) /\ DOMAIN Append(u, s[n]) = 1..(Len(u) + 1)
      BY <3>3, Appended DEF IsSeq
    <3> QED
      BY <3>2, <3>3, <3>4, <3>5, Appended DEF IsSeq
  <2>2. CASE n \notin P
    BY <1>6, <1>7, <2>2
  <2> QED
    BY <2>1, <2>2
<1>8. Ok(kept[0])
  BY <1>5, NoElements
<1> HIDE DEF Ok
<1>9. \A n \in 0..N : Ok(kept[n])
  <2>1. SUFFICES ASSUME NEW B, B = {n \in 0..N : ~Ok(kept[n])}, B # {} PROVE FALSE
    OBVIOUS
  <2>2. PICK n \in B : \A k \in B : n <= k
    BY <2>1, LeastOf
  <2> QED
    BY <1>7, <1>8, <2>1, <2>2
<1>10. Ok(kept[N])
  BY <1>9
<1> QED
  BY <1>3, <1>10 DEF Ok

-----------------------------------------------------------------------------
(* The claims of answers *)

\* A claim among those given, whose identifiers stand at their own level.
Sound(Given, c) ==
    /\ c \in Given
    /\ \A id \in c.ids : Grain(id) = "instr"
    /\ \A f \in DOMAIN c.listings : \A id \in c.listings[f] : Grain(id) # "instr"

SoundSeq(Given, cs) == IsSeq(cs) /\ \A n \in DOMAIN cs : Sound(Given, cs[n])

(* Claims kept of a sequence of sound ones are a sequence of sound ones. *)
LEMMA AtSound == ASSUME NEW Given, NEW cs, SoundSeq(Given, cs), NEW P PROVE SoundSeq(Given, At(cs, P))
<1>1. IsSeq(cs) /\ \A n \in DOMAIN cs : Sound(Given, cs[n])
  BY DEF SoundSeq
<1>2. IsSeq(At(cs, P)) /\ \A n \in DOMAIN At(cs, P) : \E m \in P \cap DOMAIN cs : At(cs, P)[n] = cs[m]
  BY <1>1, AtIs
<1> QED
  BY <1>1, <1>2 DEF SoundSeq

(* The claims of an answer are sound (claim.go, claims). *)
LEMMA ClaimsSound ==
    ASSUME NEW Given, NEW fk, IsFiniteSet(DOMAIN fk.listings),
           Range(claims(fk)) \subseteq Given
    PROVE  SoundSeq(Given, claims(fk))
<1>1. PICK parts : parts = {partition(fk, i) : i \in DOMAIN fk.listings}
  OBVIOUS
<1>2. Cardinality(parts) \in Nat
  <2>1. IsFiniteSet(parts)
    <3>1. PICK D : D = DOMAIN fk.listings
      OBVIOUS
    <3>2. PICK g : g = [i \in D |-> partition(fk, i)]
      OBVIOUS
    <3>3. parts = {g[i] : i \in D}
      BY <1>1, <3>1, <3>2
    <3>4. g \in Surjection(D, parts)
      BY <3>2, <3>3 DEF Surjection
    <3> QED
      BY <3>1, <3>4, FS_Surjection
  <2> QED
    BY <2>1, FS_CardinalityType
<1>3. PICK N \in Nat : N = Cardinality(parts)
  BY <1>2
<1>4. PICK part : part = [n \in 1..N |-> SetToSortSeq(parts, LAMBDA a, b : Min(a) < Min(b))[n]]
  BY Zenon
<1>5. claims(fk) = [n \in 1..N |-> ClaimOf(fk, part[n])]
  <2>1. claims(fk) = [n \in 1..N |-> ClaimOf(fk, SetToSortSeq(parts, LAMBDA a, b : Min(a) < Min(b))[n])]
    BY <1>1, <1>3, Zenon DEF claims
  <2>2. \A n \in 1..N : part[n] = SetToSortSeq(parts, LAMBDA a, b : Min(a) < Min(b))[n]
    BY <1>4, Zenon
  <2> QED
    BY <2>1, <2>2, Zenon
<1>6. PICK cs : cs = claims(fk)
  OBVIOUS
<1>7. IsSeq(cs) /\ DOMAIN cs = 1..N
  BY <1>3, <1>5, <1>6 DEF IsSeq
<1>8. ASSUME NEW n \in DOMAIN cs PROVE Sound(Given, cs[n])
  <2>1. PICK c : c = cs[n]
    OBVIOUS
  <2>2. PICK P : c = ClaimOf(fk, P)
    BY <1>5, <1>6, <1>7, <2>1
  <2>3. c \in Range(claims(fk))
    BY <1>6, <2>1 DEF Range
  <2>4. \A id \in c.ids : Grain(id) = "instr"
    BY <2>2 DEF ClaimOf, Strict, InstrIDs
  <2>5. ASSUME NEW f \in DOMAIN c.listings, NEW id \in c.listings[f] PROVE Grain(id) # "instr"
    <3>1. PICK ls : ls = fk.listings
      OBVIOUS
    <3>2. c.listings = [g \in {ls[j].fam : j \in P} |->
                          UNION {ls[j].ids \ InstrIDs(ls[j]) : j \in {k \in P : ls[k].fam = g}}]
      BY <2>2, <3>1 DEF ClaimOf
    <3>3. PICK j \in P : id \in ls[j].ids \ InstrIDs(ls[j])
      BY <2>5, <3>2
    <3> QED
      BY <3>3 DEF InstrIDs
  <2> QED
    BY <2>1, <2>3, <2>4, <2>5 DEF Sound
<1> QED
  BY <1>6, <1>7, <1>8 DEF SoundSeq

(* The claims of some answers are sound. *)
LEMMA AnswersSound ==
    ASSUME NEW fks, \A n \in DOMAIN fks : IsFiniteSet(DOMAIN fks[n].listings)
    PROVE  \A n \in DOMAIN fks : SoundSeq(ClaimsOf(fks), claims(fks[n]))
<1>1. PICK Given : Given = ClaimsOf(fks)
  OBVIOUS
<1>2. SUFFICES ASSUME NEW n \in DOMAIN fks PROVE SoundSeq(Given, claims(fks[n]))
  BY <1>1
<1>3. PICK fk : fk = fks[n]
  OBVIOUS
<1>4. Range(claims(fk)) \subseteq Given
  BY <1>1, <1>3 DEF ClaimsOf
<1> QED
  BY <1>3, <1>4, ClaimsSound

(* The best ranked claim of some is one of them: ranks are the claims that   *)
(* carry what was sent, then how much each confirms (choose.go, bestClaim).  *)
LEMMA BestIsIn ==
    ASSUME NEW cs, IsSeq(cs), cs # <<>>, NEW key, IsFiniteSet(key.ids)
    PROVE  \E n \in DOMAIN cs : Best(cs, key) = cs[n]
<1>1. PICK B \in Nat : \A c : confirms(c, key) \in 0..B
  <2>1. PICK K \in Nat : K = Cardinality(key.ids)
    BY FS_CardinalityType
  <2>2. ASSUME NEW c PROVE confirms(c, key) \in 0..(K + 1)
    <3>1. PICK S : S = AllIDs(c) \cap key.ids
      OBVIOUS
    <3>2. S \subseteq key.ids
      BY <3>1
    <3>3. IsFiniteSet(S) /\ Cardinality(S) <= Cardinality(key.ids)
      BY <3>2, FS_Subset
    <3>4. Cardinality(S) \in Nat
      BY <3>3, FS_CardinalityType
    <3>5. confirms(c, key) = Cardinality(S) + (IF key.fam # NoFamily /\ key.fam \in DOMAIN c.listings THEN 1 ELSE 0)
      BY <3>1 DEF confirms
    <3>6. PICK s \in Nat : s = Cardinality(S) /\ s <= K
      BY <2>1, <3>3, <3>4
    <3>7. confirms(c, key) = s + (IF key.fam # NoFamily /\ key.fam \in DOMAIN c.listings THEN 1 ELSE 0)
      BY <3>5, <3>6
    <3> QED
      BY <3>6, <3>7
  <2> QED
    BY <2>2
<1>2. 1 \in DOMAIN cs /\ DOMAIN cs \subseteq Nat
  BY TailIs DEF IsSeq
<1>3. PICK D : D = IF \E n \in DOMAIN cs : named(cs[n]) THEN {n \in DOMAIN cs : named(cs[n])} ELSE DOMAIN cs
  OBVIOUS
<1>4. D # {} /\ D \subseteq DOMAIN cs
  BY <1>2, <1>3
<1>5. PICK T : T = {B - confirms(cs[n], key) : n \in D}
  OBVIOUS
<1>6. T \in SUBSET Nat /\ T # {}
  BY <1>1, <1>4, <1>5
<1>7. PICK l \in T : \A k \in T : l <= k
  BY <1>6, LeastOf
<1>8. PICK n \in D : l = B - confirms(cs[n], key)
  BY <1>5, <1>7
<1>9. ASSUME NEW m \in D PROVE confirms(cs[m], key) <= confirms(cs[n], key)
  <2>1. B - confirms(cs[n], key) <= B - confirms(cs[m], key)
    BY <1>5, <1>7, <1>8, <1>9
  <2>2. confirms(cs[n], key) \in Int /\ confirms(cs[m], key) \in Int
    BY <1>1
  <2> QED
    BY <2>1, <2>2
<1>10. ASSUME NEW m \in DOMAIN cs PROVE ~Before(cs[m], cs[n], key)
  <2>1. CASE named(cs[m]) # named(cs[n])
    <3>1. ~named(cs[m])
      <4>1. CASE \E k \in DOMAIN cs : named(cs[k])
        <5>1. named(cs[n])
          BY <1>3, <1>8, <4>1
        <5> QED
          BY <2>1, <5>1 DEF named
      <4>2. CASE ~\E k \in DOMAIN cs : named(cs[k])
        BY <1>10, <4>2
      <4> QED
        BY <4>1, <4>2
    <3> QED
      BY <2>1, <3>1 DEF Before
  <2>2. CASE named(cs[m]) = named(cs[n])
    <3>1. m \in D
      BY <1>3, <1>8, <1>10, <2>2
    <3>2. confirms(cs[m], key) <= confirms(cs[n], key)
      BY <1>9, <3>1
    <3>3. confirms(cs[n], key) \in Int /\ confirms(cs[m], key) \in Int
      BY <1>1
    <3> QED
      BY <2>2, <3>2, <3>3 DEF Before
  <2> QED
    BY <2>1, <2>2
<1>11. PICK S : S = {x \in DOMAIN cs : \A m \in DOMAIN cs : ~Before(cs[m], cs[x], key)}
  OBVIOUS
<1>12. S \in SUBSET Nat /\ S # {} /\ S \subseteq DOMAIN cs
  BY <1>2, <1>4, <1>10, <1>11
<1>13. Min(S) \in S
  BY <1>12, MinIsIn
<1>14. Best(cs, key) = cs[Min(S)]
  BY <1>11, Zenon DEF Best
<1> QED
  BY <1>12, <1>13, <1>14

-----------------------------------------------------------------------------
(* Verdicts *)

IsVerdict(v) == v = [winner |-> v.winner, refused |-> v.refused, attached |-> v.attached, offered |-> v.offered,
                     chosen |-> v.chosen]

\* The claims a verdict attaches are sound, and each agrees with the
\* instrument they are attached to (known) and with every one before it.
Agrees(Given, v, known) ==
    /\ IsVerdict(v) /\ SoundSeq(Given, v.attached) /\ IsSeq(v.chosen)
    /\ known # NoClaim => known \in Range(v.chosen) /\ \A n \in DOMAIN v.attached : ~inconsistent(v.attached[n], known)
    /\ \A n \in DOMAIN v.attached : v.attached[n] \in Range(v.chosen)
    /\ \A m, n \in DOMAIN v.attached : m < n => ~inconsistent(v.attached[n], v.attached[m])

(* A claim that is not rejected by what is chosen may join it (choose.go,    *)
(* rejects).                                                                 *)
LEMMA JoinAgrees ==
    ASSUME NEW Given, NEW v, NEW known, Agrees(Given, v, known), NEW c, Sound(Given, c), ~rejects(c, v.chosen),
           NEW w, IsVerdict(w), w.attached = Append(v.attached, c), w.chosen = Append(v.chosen, c)
    PROVE  Agrees(Given, w, known)
<1>1. PICK a, b, x, y : /\ a = v.attached /\ b = w.attached /\ x = v.chosen /\ y = w.chosen
                        /\ b = Append(a, c) /\ y = Append(x, c)
  OBVIOUS
<1>2. /\ IsSeq(a) /\ \A n \in DOMAIN a : Sound(Given, a[n]) /\ a[n] \in Range(x)
      /\ IsSeq(x)
      /\ known # NoClaim => known \in Range(x) /\ \A n \in DOMAIN a : ~inconsistent(a[n], known)
      /\ \A m, n \in DOMAIN a : m < n => ~inconsistent(a[n], a[m])
  BY <1>1 DEF Agrees, SoundSeq
<1>3. /\ IsSeq(b) /\ Len(b) = Len(a) + 1 /\ b[Len(a) + 1] = c
      /\ \A n \in DOMAIN a : b[n] = a[n]
  BY <1>1, <1>2, Appended
<1>4. /\ IsSeq(y) /\ Len(y) = Len(x) + 1 /\ y[Len(x) + 1] = c
      /\ \A n \in DOMAIN x : y[n] = x[n]
  BY <1>1, <1>2, Appended
<1>5. DOMAIN b = DOMAIN a \cup {Len(a) + 1} /\ \A n \in DOMAIN a : n < Len(a) + 1 /\ n \in Nat
  BY <1>2, <1>3 DEF IsSeq
<1>6. DOMAIN y = DOMAIN x \cup {Len(x) + 1}
  BY <1>2, <1>4 DEF IsSeq
<1>7. Range(x) \subseteq Range(y) /\ c \in Range(y)
  BY <1>4, <1>6 DEF Range
<1>8. \A u \in Range(x) : ~inconsistent(c, u)
  BY <1>1 DEF rejects, Range
<1>9. Len(a) \in Nat
  BY <1>2 DEF IsSeq
<1>10. SoundSeq(Given, b)
  BY <1>2, <1>3, <1>5 DEF SoundSeq
<1>11. \A n \in DOMAIN b : b[n] \in Range(y)
  BY <1>2, <1>3, <1>5, <1>7
<1>12. ASSUME known # NoClaim PROVE known \in Range(y) /\ \A n \in DOMAIN b : ~inconsistent(b[n], known)
  BY <1>2, <1>3, <1>5, <1>7, <1>8, <1>12
<1>13. ASSUME NEW m \in DOMAIN b, NEW n \in DOMAIN b, m < n PROVE ~inconsistent(b[n], b[m])
  <2>1. CASE n \in DOMAIN a
    <3>1. m \in DOMAIN a
      BY <1>5, <1>9, <1>13, <2>1
    <3> QED
      BY <1>2, <1>3, <1>13, <2>1, <3>1
  <2>2. CASE n = Len(a) + 1
    <3>1. m \in DOMAIN a
      BY <1>5, <1>9, <1>13, <2>2
    <3>2. b[n] = c /\ b[m] = a[m] /\ a[m] \in Range(x)
      BY <1>2, <1>3, <2>2, <3>1
    <3> QED
      BY <1>8, <3>2
  <2> QED
    BY <1>5, <2>1, <2>2
<1> QED
  BY <1>1, <1>4, <1>10, <1>11, <1>12, <1>13 DEF Agrees

(* The claims of an answer that survive are claims of it. *)
LEMMA SurvivorsSound ==
    ASSUME NEW Given, NEW fk, NEW cs, SoundSeq(Given, cs), NEW key, NEW confirmed, NEW chosen
    PROVE  /\ SoundSeq(Given, Survivors(fk, cs, key, confirmed)) /\ SoundSeq(Given, Ambiguous(fk, cs, key, confirmed))
           /\ SoundSeq(Given, Fitting(cs, chosen))
           /\ \A n \in DOMAIN Fitting(cs, chosen) : ~rejects(Fitting(cs, chosen)[n], chosen)
<1>1. SoundSeq(Given, Survivors(fk, cs, key, confirmed))
  BY AtSound DEF Survivors
<1>2. SoundSeq(Given, Ambiguous(fk, cs, key, confirmed))
  BY AtSound DEF Ambiguous
<1>3. PICK P : P = {n \in DOMAIN cs : ~rejects(cs[n], chosen)}
  OBVIOUS
<1>4. Fitting(cs, chosen) = At(cs, P)
  BY <1>3 DEF Fitting
<1>5. IsSeq(cs)
  BY DEF SoundSeq
<1>6. \A n \in DOMAIN At(cs, P) : \E m \in P \cap DOMAIN cs : At(cs, P)[n] = cs[m]
  BY <1>5, AtIs
<1>7. \A n \in DOMAIN At(cs, P) : ~rejects(At(cs, P)[n], chosen)
  BY <1>3, <1>6
<1> QED
  BY <1>1, <1>2, <1>4, <1>7, AtSound

(* An answer's part in a verdict keeps its claims in agreement (choose.go,   *)
(* bestClaim).                                                               *)
LEMMA BestClaimAgrees ==
    ASSUME NEW Given, NEW v, NEW known, Agrees(Given, v, known), NEW fk, SoundSeq(Given, claims(fk)), NEW key, IsFiniteSet(key.ids)
    PROVE  Agrees(Given, bestClaim(v, fk, key), known)
<1>1. CASE fk.sent = NoId
  BY <1>1 DEF bestClaim
<1>2. CASE fk.sent # NoId
  <2>1. PICK cs, fit, und, off, w :
           /\ cs = claims(fk) /\ fit = Fitting(Survivors(fk, cs, key, FALSE), v.chosen)
           /\ und = Undecided(fk, cs, v.chosen, fit)
           /\ off = Append(v.offered, Ambiguous(fk, cs, key, FALSE) \o (IF und THEN fit ELSE <<>>))
           /\ w = bestClaim(v, fk, key)
    OBVIOUS
  <2>2. w = BestClaim(v, fk, key, fit, cs)
    BY <1>2, <2>1, Zenon DEF bestClaim
  <2>3. SoundSeq(Given, fit) /\ \A n \in DOMAIN fit : ~rejects(fit[n], v.chosen)
    <3>1. SoundSeq(Given, Survivors(fk, cs, key, FALSE))
      BY <2>1, SurvivorsSound
    <3> QED
      BY <2>1, <3>1, SurvivorsSound
  <2>4. CASE fit = <<>> \/ und
    <3>1. w = [v EXCEPT !.offered = off]
      BY <2>1, <2>2, <2>4 DEF BestClaim
    <3>2. IsVerdict(w) /\ w.attached = v.attached /\ w.chosen = v.chosen
      BY <3>1 DEF Agrees, IsVerdict
    <3> QED
      BY <2>1, <3>2 DEF Agrees
  <2>5. CASE ~(fit = <<>> \/ und)
    <3>1. PICK best : best = Best(fit, key)
      OBVIOUS
    <3>2. PICK win : win = IF v.winner = NoClaim THEN best ELSE v.winner
      OBVIOUS
    <3>3. w = [v EXCEPT !.offered = off, !.attached = Append(@, best), !.chosen = Append(@, best),
                        !.winner = IF @ = NoClaim THEN best ELSE @]
      BY <2>1, <2>2, <2>5, <3>1, Zenon DEF BestClaim
    <3>4. IsVerdict(w) /\ w.attached = Append(v.attached, best) /\ w.chosen = Append(v.chosen, best)
      BY <3>3 DEF Agrees, IsVerdict
    <3>5. IsSeq(fit)
      BY <2>3 DEF SoundSeq
    <3>6. PICK n \in DOMAIN fit : best = fit[n]
      BY <2>5, <3>1, <3>5, BestIsIn
    <3>7. Sound(Given, best) /\ ~rejects(best, v.chosen)
      BY <2>3, <3>6 DEF SoundSeq
    <3>8. Agrees(Given, w, known)
      BY <3>4, <3>7, JoinAgrees
    <3> QED
      BY <2>1, <3>8
  <2> QED
    BY <2>4, <2>5
<1> QED
  BY <1>1, <1>2

(* A verdict on the answers in turn keeps its claims in agreement: the       *)
(* recursion over the answers is defined, and each step keeps them so        *)
(* (choose.go, choose).                                                      *)
LEMMA VerdictsAgree ==
    ASSUME NEW Given, NEW v0, NEW known, Agrees(Given, v0, known), NEW fks, IsSeq(fks), NEW key, IsFiniteSet(key.ids),
           \A n \in DOMAIN fks : SoundSeq(Given, claims(fks[n]))
    PROVE  Agrees(Given, Verdicts(v0, fks, key), known)
<1>1. PICK N \in Nat : N = Len(fks) /\ DOMAIN fks = 1..N
  BY DEF IsSeq
<1> DEFINE G(g, n) == g = [m \in 0..n |-> IF m = 0 THEN v0 ELSE bestClaim(g[m - 1], fks[m], key)]
<1> HIDE DEF G
<1>2. \E g : G(g, N)
  <2>1. PICK B : B = {n \in 0..N : ~\E g : G(g, n)}
    OBVIOUS
  <2>2. SUFFICES ASSUME B # {} PROVE FALSE
    BY <2>1
  <2>3. B \in SUBSET Nat
    BY <2>1
  <2>4. PICK n \in B : \A k \in B : n <= k
    BY <2>2, <2>3, LeastOf
  <2>5. n # 0
    <3>1. PICK g : g = [m \in 0..0 |-> v0]
      OBVIOUS
    <3>2. G(g, 0)
      BY <3>1 DEF G
    <3> QED
      BY <2>1, <3>2
  <2>6. n - 1 \in 0..N /\ n - 1 \notin B /\ n \in 1..N
    BY <2>1, <2>4, <2>5
  <2>7. PICK g : G(g, n - 1)
    BY <2>1, <2>6
  <2>8. PICK x : x = bestClaim(g[n - 1], fks[n], key)
    OBVIOUS
  <2>9. PICK h : h = [m \in 0..n |-> IF m = n THEN x ELSE g[m]]
    OBVIOUS
  <2>10. G(h, n)
    <3>1. \A m \in 0..(n - 1) : h[m] = g[m]
      BY <2>6, <2>9
    <3>2. \A m \in 0..(n - 1) : g[m] = IF m = 0 THEN v0 ELSE bestClaim(g[m - 1], fks[m], key)
      BY <2>7 DEF G
    <3>3. ASSUME NEW m \in 0..n PROVE h[m] = IF m = 0 THEN v0 ELSE bestClaim(h[m - 1], fks[m], key)
      <4>1. CASE m = n
        BY <2>5, <2>6, <2>8, <2>9, <3>1, <4>1
      <4>2. CASE m # n
        BY <2>6, <3>1, <3>2, <4>2
      <4> QED
        BY <4>1, <4>2
    <3> QED
      BY <2>9, <3>3 DEF G
  <2> QED
    BY <2>1, <2>4, <2>10
<1>3. PICK v : G(v, N) /\ Verdicts(v0, fks, key) = v[N]
  <2>1. PICK v : v = CHOOSE g : G(g, N)
    OBVIOUS
  <2>2. G(v, N)
    BY <1>2, <2>1
  <2>3. Verdicts(v0, fks, key) = v[N]
    BY <1>1, <2>1, Zenon DEF Verdicts, G
  <2> QED
    BY <2>2, <2>3
<1>4. \A n \in 0..N : v[n] = IF n = 0 THEN v0 ELSE bestClaim(v[n - 1], fks[n], key)
  BY <1>3 DEF G
<1>5. v[0] = v0 /\ \A n \in 1..N : v[n] = bestClaim(v[n - 1], fks[n], key)
  BY <1>4
<1>6. ASSUME NEW n \in 1..N, Agrees(Given, v[n - 1], known) PROVE Agrees(Given, v[n], known)
  BY <1>1, <1>5, <1>6, BestClaimAgrees
<1>7. \A n \in 0..N : Agrees(Given, v[n], known)
  <2>1. PICK B : B = {n \in 0..N : ~Agrees(Given, v[n], known)}
    OBVIOUS
  <2>2. SUFFICES ASSUME B # {} PROVE FALSE
    BY <2>1
  <2>3. B \in SUBSET Nat
    BY <2>1
  <2>4. PICK n \in B : \A k \in B : n <= k
    BY <2>2, <2>3, LeastOf
  <2>5. Agrees(Given, v[0], known)
    BY <1>5
  <2>6. n \in 1..N /\ n - 1 \in 0..N /\ n - 1 \notin B
    BY <2>1, <2>4, <2>5
  <2>7. Agrees(Given, v[n - 1], known)
    BY <2>1, <2>6
  <2>8. Agrees(Given, v[n], known)
    BY <1>6, <2>6, <2>7
  <2> QED
    BY <2>1, <2>4, <2>8
<1> QED
  BY <1>1, <1>3, <1>7

(* So does a verdict on the members of the user's choice (choose.go,         *)
(* choose).                                                                  *)
LEMMA MembersAgree ==
    ASSUME NEW Given, NEW v0, NEW known, Agrees(Given, v0, known), NEW ms, SoundSeq(Given, ms)
    PROVE  Agrees(Given, MemberVerdicts(v0, ms), known)
<1>1. PICK N \in Nat : N = Len(ms) /\ DOMAIN ms = 1..N
  BY DEF SoundSeq, IsSeq
<1> DEFINE G(g, n) == g = [m \in 0..n |-> IF m = 0 THEN v0 ELSE chooseMember(g[m - 1], ms[m])]
<1> HIDE DEF G
<1>2. \E g : G(g, N)
  <2>1. PICK B : B = {n \in 0..N : ~\E g : G(g, n)}
    OBVIOUS
  <2>2. SUFFICES ASSUME B # {} PROVE FALSE
    BY <2>1
  <2>3. B \in SUBSET Nat
    BY <2>1
  <2>4. PICK n \in B : \A k \in B : n <= k
    BY <2>2, <2>3, LeastOf
  <2>5. n # 0
    <3>1. PICK g : g = [m \in 0..0 |-> v0]
      OBVIOUS
    <3>2. G(g, 0)
      BY <3>1 DEF G
    <3> QED
      BY <2>1, <3>2
  <2>6. n - 1 \in 0..N /\ n - 1 \notin B /\ n \in 1..N
    BY <2>1, <2>4, <2>5
  <2>7. PICK g : G(g, n - 1)
    BY <2>1, <2>6
  <2>8. PICK x : x = chooseMember(g[n - 1], ms[n])
    OBVIOUS
  <2>9. PICK h : h = [m \in 0..n |-> IF m = n THEN x ELSE g[m]]
    OBVIOUS
  <2>10. G(h, n)
    <3>1. \A m \in 0..(n - 1) : h[m] = g[m]
      BY <2>6, <2>9
    <3>2. \A m \in 0..(n - 1) : g[m] = IF m = 0 THEN v0 ELSE chooseMember(g[m - 1], ms[m])
      BY <2>7 DEF G
    <3>3. ASSUME NEW m \in 0..n PROVE h[m] = IF m = 0 THEN v0 ELSE chooseMember(h[m - 1], ms[m])
      <4>1. CASE m = n
        BY <2>5, <2>6, <2>8, <2>9, <3>1, <4>1
      <4>2. CASE m # n
        BY <2>6, <3>1, <3>2, <4>2
      <4> QED
        BY <4>1, <4>2
    <3> QED
      BY <2>9, <3>3 DEF G
  <2> QED
    BY <2>1, <2>4, <2>10
<1>3. PICK v : G(v, N) /\ MemberVerdicts(v0, ms) = v[N]
  <2>1. PICK v : v = CHOOSE g : G(g, N)
    OBVIOUS
  <2>2. G(v, N)
    BY <1>2, <2>1
  <2>3. MemberVerdicts(v0, ms) = v[N]
    BY <1>1, <2>1, Zenon DEF MemberVerdicts, G
  <2> QED
    BY <2>2, <2>3
<1>4. \A n \in 0..N : v[n] = IF n = 0 THEN v0 ELSE chooseMember(v[n - 1], ms[n])
  BY <1>3 DEF G
<1>5. v[0] = v0 /\ \A n \in 1..N : v[n] = chooseMember(v[n - 1], ms[n])
  BY <1>4
<1>6. ASSUME NEW n \in 1..N, Agrees(Given, v[n - 1], known) PROVE Agrees(Given, v[n], known)
  <2>1. PICK u, c, w : u = v[n - 1] /\ c = ms[n] /\ w = v[n]
    OBVIOUS
  <2>2. w = chooseMember(u, c) /\ Agrees(Given, u, known) /\ Sound(Given, c)
    BY <1>1, <1>5, <1>6, <2>1 DEF SoundSeq
  <2>3. CASE rejects(c, u.chosen)
    BY <2>1, <2>2, <2>3 DEF chooseMember
  <2>4. CASE ~rejects(c, u.chosen)
    <3>1. w = [u EXCEPT !.attached = Append(@, c), !.chosen = Append(@, c)]
      BY <2>2, <2>4, Zenon DEF chooseMember
    <3>2. IsVerdict(w) /\ w.attached = Append(u.attached, c) /\ w.chosen = Append(u.chosen, c)
      BY <2>2, <3>1 DEF Agrees, IsVerdict
    <3>3. Agrees(Given, w, known)
      BY <2>2, <2>4, <3>2, JoinAgrees
    <3> QED
      BY <2>1, <3>3
  <2> QED
    BY <2>3, <2>4
<1>7. \A n \in 0..N : Agrees(Given, v[n], known)
  <2>1. PICK B : B = {n \in 0..N : ~Agrees(Given, v[n], known)}
    OBVIOUS
  <2>2. SUFFICES ASSUME B # {} PROVE FALSE
    BY <2>1
  <2>3. B \in SUBSET Nat
    BY <2>1
  <2>4. PICK n \in B : \A k \in B : n <= k
    BY <2>2, <2>3, LeastOf
  <2>5. Agrees(Given, v[0], known)
    BY <1>5
  <2>6. n \in 1..N /\ n - 1 \in 0..N /\ n - 1 \notin B
    BY <2>1, <2>4, <2>5
  <2>7. Agrees(Given, v[n - 1], known)
    BY <2>1, <2>6
  <2>8. Agrees(Given, v[n], known)
    BY <1>6, <2>6, <2>7
  <2> QED
    BY <2>1, <2>4, <2>8
<1> QED
  BY <1>1, <1>3, <1>7

(* Whatever the answers, the stored instrument and the user's choice, the    *)
(* claims that choose attaches agree with one another and with the           *)
(* instrument (choose.go, choose).                                           *)
LEMMA ChooseAgrees ==
    ASSUME NEW Given, NEW key, IsFiniteSet(key.ids), NEW fks, IsSeq(fks), \A n \in DOMAIN fks : SoundSeq(Given, claims(fks[n])),
           NEW known, NEW choice, SoundSeq(Given, choice)
    PROVE  Agrees(Given, choose(key, fks, known, choice), known)
<1>1. PICK v0 : v0 = Verdict(known)
  OBVIOUS
<1>2. IsVerdict(v0) /\ v0.attached = <<>> /\ v0.chosen = IF known = NoClaim THEN <<>> ELSE <<known>>
  BY <1>1 DEF Verdict, IsVerdict
<1>3. IsSeq(v0.chosen) /\ (known # NoClaim => known \in Range(v0.chosen))
  <2>1. CASE known = NoClaim
    BY <1>2, <2>1, NoElements
  <2>2. CASE known # NoClaim
    <3>1. v0.chosen = <<known>> /\ IsSeq(<<known>>) /\ DOMAIN <<known>> = {1} /\ <<known>>[1] = known
      BY <1>2, <2>2 DEF IsSeq
    <3> QED
      BY <2>2, <3>1 DEF Range
  <2> QED
    BY <2>1, <2>2
<1>4. Agrees(Given, v0, known)
  BY <1>2, <1>3, NoElements DEF Agrees, SoundSeq
<1>5. PICK v : v = choose(key, fks, known, choice)
  OBVIOUS
<1>6. CASE choice = <<>>
  BY <1>1, <1>4, <1>6, VerdictsAgree DEF choose
<1>7. CASE choice # <<>> /\ Refused(key, known, Head(choice))
  <2>1. v = [v0 EXCEPT !.refused = TRUE]
    BY <1>1, <1>5, <1>7 DEF choose
  <2>2. IsVerdict(v) /\ v.attached = v0.attached /\ v.chosen = v0.chosen
    BY <1>2, <2>1 DEF IsVerdict
  <2>3. Agrees(Given, v, known)
    BY <1>4, <2>2 DEF Agrees
  <2> QED
    BY <1>5, <2>3
<1>8. CASE choice # <<>> /\ ~Refused(key, known, Head(choice))
  <2>1. PICK head, w, ms : head = Head(choice) /\ w = Led(v0, head) /\ ms = Tail(choice)
    OBVIOUS
  <2>2. v = MemberVerdicts(w, ms)
    BY <1>1, <1>5, <1>8, <2>1, Zenon DEF choose
  <2>3. /\ IsSeq(choice) /\ IsSeq(ms) /\ 1 \in DOMAIN choice /\ head = choice[1]
        /\ \A n \in DOMAIN ms : n + 1 \in DOMAIN choice /\ ms[n] = choice[n + 1]
    BY <1>8, <2>1, TailIs DEF SoundSeq
  <2>4. Sound(Given, head) /\ SoundSeq(Given, ms)
    BY <2>3 DEF SoundSeq
  <2>5. w = [v0 EXCEPT !.attached = <<head>>, !.chosen = Append(@, head), !.winner = IF @ = NoClaim THEN head ELSE @]
    BY <2>1, Zenon DEF Led
  <2>6. IsVerdict(w) /\ w.attached = <<head>> /\ w.chosen = Append(v0.chosen, head)
    BY <1>2, <2>5 DEF IsVerdict
  <2>7. PICK a, x, y : a = w.attached /\ x = v0.chosen /\ y = w.chosen
    OBVIOUS
  <2>8. SoundSeq(Given, a) /\ DOMAIN a = {1} /\ a[1] = head
    BY <2>4, <2>6, <2>7 DEF SoundSeq, IsSeq
  <2>9. IsSeq(y) /\ head \in Range(y) /\ Range(x) \subseteq Range(y)
    <3>1. IsSeq(x) /\ y = Append(x, head)
      BY <1>3, <2>6, <2>7
    <3>2. /\ IsSeq(y) /\ Len(y) = Len(x) + 1 /\ y[Len(x) + 1] = head
          /\ \A n \in DOMAIN x : y[n] = x[n]
      BY <3>1, Appended
    <3>3. DOMAIN y = DOMAIN x \cup {Len(x) + 1}
      BY <3>1, <3>2 DEF IsSeq
    <3> QED
      BY <3>2, <3>3 DEF Range
  <2>10. known # NoClaim => ~inconsistent(head, known)
    BY <1>8, <2>1 DEF Refused
  <2>11. Agrees(Given, w, known)
    BY <1>3, <2>6, <2>7, <2>8, <2>9, <2>10 DEF Agrees
  <2> QED
    BY <1>5, <2>2, <2>4, <2>11, MembersAgree
<1> QED
  BY <1>6, <1>7, <1>8

-----------------------------------------------------------------------------
(* Offering *)

SoundAlternatives(Given, out) == IsSeq(out) /\ \A n \in DOMAIN out : SoundSeq(Given, out[n])

(* Gathering one answer's claims puts them where they belong and makes none  *)
(* up (choose.go, gatherConsistentClaims).                                   *)
LEMMA GatherNextSound ==
    ASSUME NEW Given, NEW out, SoundAlternatives(Given, out), NEW group, SoundSeq(Given, group), NEW key, IsFiniteSet(key.ids)
    PROVE  SoundAlternatives(Given, GatherNext(out, group, key))
<1>1. PICK joined, alone, a, b :
         /\ joined = {Best(Fitting(group, out[n]), key) : n \in {m \in DOMAIN out : Fitting(group, out[m]) # <<>>}}
         /\ alone = At(group, {n \in DOMAIN group : group[n] \notin joined})
         /\ a = [n \in DOMAIN out |-> IF Fitting(group, out[n]) = <<>> THEN out[n]
                                      ELSE Append(out[n], Best(Fitting(group, out[n]), key))]
         /\ b = [n \in DOMAIN alone |-> <<alone[n]>>]
  OBVIOUS
<1>2. GatherNext(out, group, key) = a \o b
  BY <1>1, Zenon DEF GatherNext
<1>3. SoundSeq(Given, alone)
  BY <1>1, AtSound
<1>4. SoundAlternatives(Given, b)
  <2>1. IsSeq(b)
    BY <1>1, <1>3 DEF SoundSeq, IsSeq
  <2>2. ASSUME NEW n \in DOMAIN b PROVE SoundSeq(Given, b[n])
    <3>1. PICK c : c = alone[n]
      OBVIOUS
    <3>2. b[n] = <<c>> /\ Sound(Given, c)
      BY <1>1, <1>3, <2>2, <3>1 DEF SoundSeq
    <3>3. IsSeq(<<c>>) /\ DOMAIN <<c>> = {1} /\ <<c>>[1] = c
      BY DEF IsSeq
    <3> QED
      BY <3>2, <3>3 DEF SoundSeq
  <2> QED
    BY <2>1, <2>2 DEF SoundAlternatives
<1>5. SoundAlternatives(Given, a)
  <2>1. IsSeq(a)
    BY <1>1 DEF SoundAlternatives, IsSeq
  <2>2. ASSUME NEW n \in DOMAIN a PROVE SoundSeq(Given, a[n])
    <3>1. PICK o, fit : o = out[n] /\ fit = Fitting(group, o)
      OBVIOUS
    <3>2. SoundSeq(Given, o) /\ SoundSeq(Given, fit)
      BY <1>1, <2>2, <3>1, SurvivorsSound DEF SoundAlternatives
    <3>3. CASE fit = <<>>
      <4>1. a[n] = o
        BY <1>1, <2>2, <3>1, <3>3
      <4> QED
        BY <3>2, <4>1
    <3>4. CASE fit # <<>>
      <4>1. PICK c : c = Best(fit, key)
        OBVIOUS
      <4>2. IsSeq(fit) /\ IsSeq(o)
        BY <3>2 DEF SoundSeq
      <4>3. PICK k \in DOMAIN fit : c = fit[k]
        BY <3>4, <4>1, <4>2, BestIsIn
      <4>4. Sound(Given, c)
        BY <3>2, <4>3 DEF SoundSeq
      <4>5. a[n] = Append(o, c)
        BY <1>1, <2>2, <3>1, <3>4, <4>1
      <4>6. /\ IsSeq(a[n]) /\ Len(a[n]) = Len(o) + 1 /\ a[n][Len(o) + 1] = c
            /\ \A m \in DOMAIN o : a[n][m] = o[m]
        BY <4>2, <4>5, Appended
      <4>7. DOMAIN a[n] = DOMAIN o \cup {Len(o) + 1}
        BY <4>2, <4>6 DEF IsSeq
      <4> QED
        BY <3>2, <4>4, <4>6, <4>7 DEF SoundSeq
    <3> QED
      BY <3>3, <3>4
  <2> QED
    BY <2>1, <2>2 DEF SoundAlternatives
<1>6. PICK o : o = a \o b
  OBVIOUS
<1>7. /\ IsSeq(o)
      /\ \A n \in DOMAIN o : (\E k \in DOMAIN a : o[n] = a[k]) \/ \E k \in DOMAIN b : o[n] = b[k]
  BY <1>4, <1>5, <1>6, Joined DEF SoundAlternatives
<1>8. SoundAlternatives(Given, o)
  BY <1>4, <1>5, <1>7 DEF SoundAlternatives
<1> QED
  BY <1>2, <1>6, <1>8

(* The alternatives gathered from groups of sound claims are made of them. *)
LEMMA GatherSound ==
    ASSUME NEW Given, NEW groups, SoundAlternatives(Given, groups), NEW key, IsFiniteSet(key.ids)
    PROVE  SoundAlternatives(Given, gatherConsistentClaims(groups, key))
<1>1. PICK N \in Nat : N = Len(groups) /\ DOMAIN groups = 1..N
  BY DEF SoundAlternatives, IsSeq
<1> DEFINE G(g, n) == g = [m \in 0..n |-> IF m = 0 THEN <<>> ELSE GatherNext(g[m - 1], groups[m], key)]
<1> HIDE DEF G
<1>2. \E g : G(g, N)
  <2>1. PICK B : B = {n \in 0..N : ~\E g : G(g, n)}
    OBVIOUS
  <2>2. SUFFICES ASSUME B # {} PROVE FALSE
    BY <2>1
  <2>3. B \in SUBSET Nat
    BY <2>1
  <2>4. PICK n \in B : \A k \in B : n <= k
    BY <2>2, <2>3, LeastOf
  <2>5. n # 0
    <3>1. PICK g : g = [m \in 0..0 |-> <<>>]
      OBVIOUS
    <3>2. G(g, 0)
      BY <3>1 DEF G
    <3> QED
      BY <2>1, <3>2
  <2>6. n - 1 \in 0..N /\ n - 1 \notin B /\ n \in 1..N
    BY <2>1, <2>4, <2>5
  <2>7. PICK g : G(g, n - 1)
    BY <2>1, <2>6
  <2>8. PICK x : x = GatherNext(g[n - 1], groups[n], key)
    OBVIOUS
  <2>9. PICK h : h = [m \in 0..n |-> IF m = n THEN x ELSE g[m]]
    OBVIOUS
  <2>10. G(h, n)
    <3>1. \A m \in 0..(n - 1) : h[m] = g[m]
      BY <2>6, <2>9
    <3>2. \A m \in 0..(n - 1) : g[m] = IF m = 0 THEN <<>> ELSE GatherNext(g[m - 1], groups[m], key)
      BY <2>7 DEF G
    <3>3. ASSUME NEW m \in 0..n PROVE h[m] = IF m = 0 THEN <<>> ELSE GatherNext(h[m - 1], groups[m], key)
      <4>1. CASE m = n
        BY <2>5, <2>6, <2>8, <2>9, <3>1, <4>1
      <4>2. CASE m # n
        BY <2>6, <3>1, <3>2, <4>2
      <4> QED
        BY <4>1, <4>2
    <3> QED
      BY <2>9, <3>3 DEF G
  <2> QED
    BY <2>1, <2>4, <2>10
<1>3. PICK v : G(v, N) /\ gatherConsistentClaims(groups, key) = v[N]
  <2>1. PICK v : v = CHOOSE g : G(g, N)
    OBVIOUS
  <2>2. G(v, N)
    BY <1>2, <2>1
  <2>3. gatherConsistentClaims(groups, key) = v[N]
    BY <1>1, <2>1, Zenon DEF gatherConsistentClaims, G
  <2> QED
    BY <2>2, <2>3
<1>4. \A n \in 0..N : v[n] = IF n = 0 THEN <<>> ELSE GatherNext(v[n - 1], groups[n], key)
  BY <1>3 DEF G
<1>5. v[0] = <<>> /\ \A n \in 1..N : v[n] = GatherNext(v[n - 1], groups[n], key)
  BY <1>4
<1>6. ASSUME NEW n \in 1..N, SoundAlternatives(Given, v[n - 1]) PROVE SoundAlternatives(Given, v[n])
  <2>1. SoundSeq(Given, groups[n])
    BY <1>1 DEF SoundAlternatives
  <2> QED
    BY <1>5, <1>6, <2>1, GatherNextSound
<1>7. \A n \in 0..N : SoundAlternatives(Given, v[n])
  <2>1. PICK B : B = {n \in 0..N : ~SoundAlternatives(Given, v[n])}
    OBVIOUS
  <2>2. SUFFICES ASSUME B # {} PROVE FALSE
    BY <2>1
  <2>3. B \in SUBSET Nat
    BY <2>1
  <2>4. PICK n \in B : \A k \in B : n <= k
    BY <2>2, <2>3, LeastOf
  <2>5. SoundAlternatives(Given, v[0])
    BY <1>5, NoElements DEF SoundAlternatives
  <2>6. n \in 1..N /\ n - 1 \in 0..N /\ n - 1 \notin B
    BY <2>1, <2>4, <2>5
  <2>7. SoundAlternatives(Given, v[n - 1])
    BY <2>1, <2>6
  <2>8. SoundAlternatives(Given, v[n])
    BY <1>6, <2>6, <2>7
  <2> QED
    BY <2>1, <2>4, <2>8
<1> QED
  BY <1>1, <1>3, <1>7

(* What the user may choose from is made of claims of the answers            *)
(* (candidate.go, offeredClaims and findUserChoice).                         *)
LEMMA UserChoiceSound ==
    ASSUME NEW Given, NEW key, IsFiniteSet(key.ids), NEW fks, IsSeq(fks), \A n \in DOMAIN fks : SoundSeq(Given, claims(fks[n])), NEW pick
    PROVE  SoundSeq(Given, findUserChoice(Alternatives(key, fks), pick).claims)
<1>1. PICK served, groups, alts :
         /\ served = At(fks, {n \in DOMAIN fks : fks[n].outcome = "served"})
         /\ groups = offeredClaims(key, fks) /\ alts = gatherConsistentClaims(groups, key)
  OBVIOUS
<1>2. groups = [n \in DOMAIN served |-> Ambiguous(served[n], claims(served[n]), key, FALSE)
                                        \o Survivors(served[n], claims(served[n]), key, FALSE)]
  BY <1>1, Zenon DEF offeredClaims
<1>3. IsSeq(served) /\ \A n \in DOMAIN served : \E m \in DOMAIN fks : served[n] = fks[m]
  <2>1. PICK P : served = At(fks, P)
    BY <1>1
  <2> QED
    BY <2>1, AtIs
<1>4. IsSeq(groups) /\ DOMAIN groups = DOMAIN served
  BY <1>2, <1>3 DEF IsSeq
<1>5. ASSUME NEW n \in DOMAIN groups PROVE SoundSeq(Given, groups[n])
  <2>1. PICK fk, cs, a, b : /\ fk = served[n] /\ cs = claims(fk)
                            /\ a = Ambiguous(fk, cs, key, FALSE) /\ b = Survivors(fk, cs, key, FALSE)
    OBVIOUS
  <2>2. groups[n] = a \o b
    BY <1>2, <1>4, <2>1
  <2>3. SoundSeq(Given, cs)
    BY <1>3, <1>4, <2>1
  <2>4. SoundSeq(Given, a) /\ SoundSeq(Given, b)
    BY <2>1, <2>3, SurvivorsSound
  <2>5. PICK o : o = a \o b
    OBVIOUS
  <2>6. /\ IsSeq(o)
        /\ \A m \in DOMAIN o : (\E k \in DOMAIN a : o[m] = a[k]) \/ \E k \in DOMAIN b : o[m] = b[k]
    BY <2>4, <2>5, Joined DEF SoundSeq
  <2>7. SoundSeq(Given, o)
    BY <2>4, <2>6 DEF SoundSeq
  <2> QED
    BY <2>2, <2>5, <2>7
<1>6. SoundAlternatives(Given, alts)
  BY <1>1, <1>4, <1>5, GatherSound DEF SoundAlternatives
<1>7. PICK S, a : S = Picked(alts, pick) /\ a = alts[Min(S)]
  OBVIOUS
<1>8. PICK x : x = findUserChoice(alts, pick)
  OBVIOUS
<1>9. CASE S = {} \/ ~Confirmable(a)
  <2>1. x = [claims |-> <<>>, via |-> NoId]
    BY <1>7, <1>8, <1>9 DEF findUserChoice, NoChoice
  <2>2. SoundSeq(Given, x.claims)
    BY <2>1, NoElements DEF SoundSeq
  <2> QED
    BY <1>1, <1>8, <2>2 DEF Alternatives
<1>10. CASE ~(S = {} \/ ~Confirmable(a))
  <2>1. x.claims = a
    <3>1. PICK via : via = IF Stable(pick.id) THEN pick.id ELSE StrongestStable(Head(a))
      OBVIOUS
    <3>2. x = [claims |-> a, via |-> via]
      BY <1>7, <1>8, <1>10, <3>1, Zenon DEF findUserChoice
    <3> QED
      BY <3>2
  <2>2. S \subseteq DOMAIN alts
    BY <1>7 DEF Picked
  <2>3. DOMAIN alts \subseteq Nat
    BY <1>6 DEF SoundAlternatives, IsSeq
  <2>4. S \in SUBSET Nat /\ S # {}
    BY <1>10, <2>2, <2>3
  <2>5. Min(S) \in DOMAIN alts
    BY <2>2, <2>4, MinIsIn
  <2>6. SoundSeq(Given, a)
    BY <1>6, <1>7, <2>5 DEF SoundAlternatives
  <2> QED
    BY <1>1, <1>8, <2>1, <2>6 DEF Alternatives
<1> QED
  BY <1>9, <1>10

-----------------------------------------------------------------------------
(* The inductive invariant *)

\* Different instruments carry different identifiers.
Distinct(d) == \A i, j \in DOMAIN d : i # j => Carried(d[i]) \cap Carried(d[j]) = {}

\* A resolution holds answers of finitely many listings, and writes a stated key.
SoundRun(x) == /\ IsSeq(x.fks) /\ \A n \in DOMAIN x.fks : IsFiniteSet(DOMAIN x.fks[n].listings)
               /\ x.step = "write" => x.key \in Keys
SoundRuns == \A r \in Runs : SoundRun(run[r])

IInv == /\ Shaped /\ Numbered /\ Distinct(instrs) /\ SoundRuns
        /\ NothingDangles /\ RacesWriteOneInstrument

\* A step gives no instrument two values where those it was made of and the
\* claims of the answers had none.
OneStep ==
    \A i \in DOMAIN instrs' :
        /\ \A r \in Runs : run'[r] # run[r] => \A c \in ClaimsOf(run[r].fks) : AgreesWithItself(c)
        /\ \A j \in Live : Carried(instrs[j]) \subseteq Carried(instrs'[i]) => OneValue(instrs[j])
        => OneValue(instrs'[i])

-----------------------------------------------------------------------------
(* The instrument a resolution writes *)

\* t names a stored instrument, or a new one, and merges away others.
Merges(t) == /\ t.gone \subseteq DOMAIN instrs /\ t.instr \notin t.gone
             /\ t.instr = None \/ t.instr \in DOMAIN instrs
             /\ t.instr = None => t.gone = {}

(* The instrument a refused merge keeps is a stored one (merge.go, refuse). *)
LEMMA KeptIsStored ==
    ASSUME NEW key, NEW M, M \subseteq DOMAIN instrs, M # {}, DOMAIN instrs \subseteq Nat
    PROVE  Kept(instrs, key, M) \in DOMAIN instrs
<1>1. PICK ids : ids = {id \in LookupIDs(GlobalAndDescriptionIDs(key)) : findInstrsByIdentifier(instrs, {id}) \cap M # {}}
  OBVIOUS
<1>2. CASE ids = {}
  <2>1. Kept(instrs, key, M) = Min(M)
    BY <1>1, <1>2 DEF Kept
  <2>2. M \in SUBSET Nat
    OBVIOUS
  <2> QED
    BY <2>1, <2>2, MinIsIn
<1>3. CASE ids # {}
  <2>1. PICK s : s = Strongest(ids)
    OBVIOUS
  <2>2. PICK F : F = findInstrsByIdentifier(instrs, {s})
    OBVIOUS
  <2>3. s \in ids
    BY <1>3, <2>1, StrongestIsIn
  <2>4. F # {} /\ F \subseteq DOMAIN instrs
    BY <1>1, <2>2, <2>3 DEF findInstrsByIdentifier
  <2>5. F \in SUBSET Nat
    BY <2>4
  <2>6. Min(F) \in DOMAIN instrs
    BY <2>4, <2>5, MinIsIn
  <2> QED
    BY <1>1, <1>3, <2>1, <2>2, <2>6 DEF Kept
<1> QED
  BY <1>2, <1>3

(* findWriteTarget names an instrument that is stored and stays, or none    *)
(* (target.go, findWriteTarget).                                            *)
LEMMA TargetStays ==
    ASSUME NEW key, NEW M, M \subseteq DOMAIN instrs, DOMAIN instrs \subseteq Instrs
    PROVE  Merges(findWriteTarget(instrs, key, M))
<1> USE InstrsAssumption
<1>0. DOMAIN instrs \subseteq Nat /\ None \notin DOMAIN instrs /\ M \in SUBSET Nat
  BY DEF Instrs, None
<1>1. CASE M = {}
  BY <1>1 DEF findWriteTarget, Merges
<1>2. CASE M # {}
  <2>1. Min(M) \in M
    BY <1>0, <1>2, MinIsIn
  <2>2. Kept(instrs, key, M) \in DOMAIN instrs
    BY <1>0, <1>2, KeptIsStored
  <2>3. PICK m : m = Min(M)
    OBVIOUS
  <2>4. PICK k : k = Kept(instrs, key, M)
    OBVIOUS
  <2>5. PICK t : t = findWriteTarget(instrs, key, M)
    OBVIOUS
  <2>6. \/ t.instr = m /\ t.gone = {}
        \/ t.instr = k /\ t.gone = {}
        \/ t.instr = m /\ t.gone = M \ {m}
    <3>1. CASE Cardinality(M) = 1
      BY <1>2, <2>3, <2>5, <3>1 DEF findWriteTarget
    <3>2. CASE Cardinality(M) # 1 /\ mergeConflict(instrs, M)
      BY <1>2, <2>4, <2>5, <3>2 DEF findWriteTarget
    <3>3. CASE Cardinality(M) # 1 /\ ~mergeConflict(instrs, M)
      BY <1>2, <2>3, <2>5, <3>3 DEF findWriteTarget
    <3> QED
      BY <3>1, <3>2, <3>3
  <2>7. m \in DOMAIN instrs /\ k \in DOMAIN instrs /\ m # None /\ k # None
    BY <1>0, <2>1, <2>2, <2>3, <2>4
  <2> QED
    BY <2>5, <2>6, <2>7 DEF Merges
<1> QED
  BY <1>1, <1>2

(* Every instrument that carries an identifier looked up is written, merged  *)
(* into the one written, or has its identifiers taken; and no two merged     *)
(* ones contradict each other (target.go, findWriteTarget; merge.go, merge). *)
LEMMA TargetCovers ==
    ASSUME NEW key, NEW M, M \subseteq DOMAIN instrs, DOMAIN instrs \subseteq Instrs,
           NEW t, t = findWriteTarget(instrs, key, M)
    PROVE  /\ \A j \in M : j = t.instr \/ j \in t.gone \/ Carried(instrs[j]) \subseteq t.taken
           /\ t.gone # {} => t.gone \cup {t.instr} \subseteq M /\ ~mergeConflict(instrs, M)
<1> USE InstrsAssumption
<1>1. DOMAIN instrs \subseteq Nat /\ M \in SUBSET Nat
  BY DEF Instrs
<1>2. CASE M = {}
  BY <1>2 DEF findWriteTarget
<1>3. CASE M # {} /\ Cardinality(M) = 1
  <2>1. IsFiniteSet(1..MaxInstrs)
    BY FS_Interval
  <2>2. M \subseteq 1..MaxInstrs
    BY DEF Instrs
  <2>3. IsFiniteSet(M)
    BY <2>1, <2>2, FS_Subset
  <2>4. PICK x : M = {x}
    BY <1>3, <2>3, FS_Singleton
  <2>5. Min(M) = x
    BY <1>1, <1>3, <2>4, MinIsIn
  <2>6. t.instr = x /\ t.gone = {}
    BY <1>3, <2>5 DEF findWriteTarget
  <2> QED
    BY <2>4, <2>6
<1>4. CASE M # {} /\ Cardinality(M) # 1 /\ mergeConflict(instrs, M)
  <2>1. PICK k : k = Kept(instrs, key, M)
    OBVIOUS
  <2>2. t.instr = k /\ t.gone = {} /\ t.taken = UNION {Carried(instrs[i]) : i \in M \ {k}}
    BY <1>4, <2>1 DEF findWriteTarget
  <2> QED
    BY <2>2
<1>5. CASE M # {} /\ Cardinality(M) # 1 /\ ~mergeConflict(instrs, M)
  <2>1. PICK m : m = Min(M)
    OBVIOUS
  <2>2. m \in M
    BY <1>1, <1>5, <2>1, MinIsIn
  <2>3. t.instr = m /\ t.gone = M \ {m}
    BY <1>5, <2>1 DEF findWriteTarget
  <2> QED
    BY <1>5, <2>2, <2>3
<1> QED
  BY <1>2, <1>3, <1>4, <1>5

\* What instruments d keep of the stored ones once t's are merged away: each
\* that stays, and the survivor for each that goes, carries what was carried.
Grows(d, t) ==
    /\ \A j \in DOMAIN instrs \ t.gone : j \in DOMAIN d /\ Carried(instrs[j]) \subseteq Carried(d[j])
    /\ \A j \in t.gone : t.instr \in DOMAIN d /\ Carried(instrs[j]) \subseteq Carried(d[t.instr])

\* The stored instruments d are what was stored but for the merged ones, and i.
Stores(d, t, i) ==
    /\ DOMAIN d \cap t.gone = {}
    /\ \A j \in DOMAIN d : Instr(d[j]) /\ (j \in DOMAIN instrs \/ (j = i /\ i # None))

\* The instrument t names and those it merges away have one value each.
Ones(t) == \A j \in DOMAIN instrs : j \in t.gone \cup {t.instr} => OneValue(instrs[j])

\* Each instrument of d is as it was, or is the one written, with one value if
\* what it was made of had and the claims given have.
KeepsOne(Given, d, t) ==
    \A j \in DOMAIN d :
        \/ j \in DOMAIN instrs /\ d[j] = instrs[j]
        \/ /\ t.instr \in {j, None}
           /\ (\A c \in Given : AgreesWithItself(c)) /\ Ones(t) => OneValue(d[j])

(* An instrument that carries more rows carries more identifiers. *)
LEMMA MoreRows == ASSUME NEW i, NEW j, i.ids \subseteq j.ids PROVE Carried(i) \subseteq Carried(j)
BY DEF Carried

\* In d each instrument that stays is as it was, but for the survivor, which
\* took the losers' listings and identifiers.
Folded(d, t) ==
    /\ DOMAIN d = DOMAIN instrs \ t.gone
    /\ \A j \in DOMAIN d : j # t.instr => d[j] = instrs[j]
    /\ t.instr \in DOMAIN d =>
          /\ d[t.instr] = [class |-> d[t.instr].class, fams |-> d[t.instr].fams, ids |-> d[t.instr].ids,
                           ref |-> d[t.instr].ref]
          /\ d[t.instr].fams = instrs[t.instr].fams \cup UNION {instrs[l].fams : l \in t.gone}
          /\ d[t.instr].ids = instrs[t.instr].ids \cup UNION {instrs[l].ids : l \in t.gone}

(* The instruments after a merge (merge.go, fold). *)
LEMMA FoldIs ==
    ASSUME NEW t, \A i \in DOMAIN instrs : Instr(instrs[i]), NEW d, d = fold(instrs, t)
    PROVE  Folded(d, t)
<1>1. DOMAIN d = DOMAIN instrs \ t.gone
  BY DEF fold
<1>2. ASSUME NEW j \in DOMAIN d, j # t.instr PROVE d[j] = instrs[j]
  BY <1>1, <1>2 DEF fold
<1>3. ASSUME t.instr \in DOMAIN d
      PROVE  /\ d[t.instr] = [class |-> d[t.instr].class, fams |-> d[t.instr].fams, ids |-> d[t.instr].ids,
                              ref |-> d[t.instr].ref]
             /\ d[t.instr].fams = instrs[t.instr].fams \cup UNION {instrs[l].fams : l \in t.gone}
             /\ d[t.instr].ids = instrs[t.instr].ids \cup UNION {instrs[l].ids : l \in t.gone}
  <2>1. PICK x : x = instrs[t.instr]
    OBVIOUS
  <2>2. x = [class |-> x.class, fams |-> x.fams, ids |-> x.ids, ref |-> x.ref]
    BY <1>1, <1>3, <2>1 DEF Instr
  <2>3. PICK F, I : /\ F = UNION {instrs[l].fams : l \in t.gone}
                    /\ I = UNION {instrs[l].ids : l \in t.gone}
    OBVIOUS
  <2>4. d[t.instr] = [x EXCEPT !.fams = @ \cup F, !.ids = @ \cup I]
    BY <1>1, <1>3, <2>1, <2>3 DEF fold
  <2> QED
    BY <2>1, <2>2, <2>3, <2>4
<1> QED
  BY <1>1, <1>2, <1>3, Zenon DEF Folded

(* A merge loses no identifier. *)
LEMMA FoldKeeps ==
    ASSUME NEW t, Merges(t), \A i \in DOMAIN instrs : Instr(instrs[i])
    PROVE  /\ Grows(fold(instrs, t), t)
           /\ DOMAIN fold(instrs, t) = DOMAIN instrs \ t.gone
           /\ \A i \in DOMAIN fold(instrs, t) : Instr(fold(instrs, t)[i])
<1>1. PICK d : d = fold(instrs, t)
  OBVIOUS
<1>2. /\ DOMAIN d = DOMAIN instrs \ t.gone
      /\ \A j \in DOMAIN d : j # t.instr => d[j] = instrs[j]
      /\ t.instr \in DOMAIN d =>
            /\ d[t.instr] = [class |-> d[t.instr].class, fams |-> d[t.instr].fams, ids |-> d[t.instr].ids,
                             ref |-> d[t.instr].ref]
            /\ d[t.instr].fams = instrs[t.instr].fams \cup UNION {instrs[l].fams : l \in t.gone}
            /\ d[t.instr].ids = instrs[t.instr].ids \cup UNION {instrs[l].ids : l \in t.gone}
  <2>1. Folded(d, t)
    BY <1>1, FoldIs
  <2> QED
    BY <2>1, Zenon DEF Folded
<1>3. ASSUME NEW j \in DOMAIN d PROVE Instr(d[j]) /\ instrs[j].ids \subseteq d[j].ids
  <2>1. CASE j # t.instr
    BY <1>2, <1>3, <2>1
  <2>2. CASE j = t.instr
    <3>1. PICK y : y = d[j]
      OBVIOUS
    <3>2. /\ y = [class |-> y.class, fams |-> y.fams, ids |-> y.ids, ref |-> y.ref]
          /\ y.fams = instrs[j].fams \cup UNION {instrs[l].fams : l \in t.gone}
          /\ y.ids = instrs[j].ids \cup UNION {instrs[l].ids : l \in t.gone}
      BY <1>2, <1>3, <2>2, <3>1
    <3>3. ASSUME NEW p \in y.ids PROVE p = <<p[1], p[2]>> /\ p[2] \in y.fams \cup {NoFamily}
      <4>1. PICK l \in t.gone \cup {j} : p \in instrs[l].ids
        BY <3>2, <3>3
      <4>2. l \in DOMAIN instrs
        BY <1>2, <1>3 DEF Merges
      <4>3. p = <<p[1], p[2]>> /\ p[2] \in instrs[l].fams \cup {NoFamily}
        BY <4>1, <4>2 DEF Instr
      <4>4. instrs[l].fams \subseteq y.fams
        BY <3>2, <4>1
      <4> QED
        BY <4>3, <4>4
    <3>4. Instr(y)
      BY <3>2, <3>3 DEF Instr
    <3> QED
      BY <3>1, <3>2, <3>4
  <2> QED
    BY <2>1, <2>2
<1>4. ASSUME NEW j \in t.gone PROVE t.instr \in DOMAIN d /\ instrs[j].ids \subseteq d[t.instr].ids
  <2>1. t.instr \in DOMAIN d
    BY <1>2, <1>4 DEF Merges
  <2> QED
    BY <1>2, <1>4, <2>1
<1>5. Grows(d, t)
  <2>1. ASSUME NEW j \in DOMAIN instrs \ t.gone
        PROVE  j \in DOMAIN d /\ Carried(instrs[j]) \subseteq Carried(d[j])
    BY <1>2, <1>3, MoreRows
  <2>2. ASSUME NEW j \in t.gone
        PROVE  t.instr \in DOMAIN d /\ Carried(instrs[j]) \subseteq Carried(d[t.instr])
    BY <1>4, MoreRows
  <2> QED
    BY <2>1, <2>2 DEF Grows
<1> QED
  BY <1>1, <1>2, <1>3, <1>5

(* A merge that is not refused gives no instrument two values of a type, and *)
(* leaves identifiers distinct (merge.go, mergeConflict and fold).           *)
LEMMA FoldOneValue ==
    ASSUME NEW t, Merges(t), \A i \in DOMAIN instrs : Instr(instrs[i]), Distinct(instrs),
           NEW M, t.gone # {} => t.gone \cup {t.instr} \subseteq M /\ ~mergeConflict(instrs, M),
           NEW d, d = fold(instrs, t)
    PROVE  Distinct(d) /\ (t.instr \in DOMAIN d /\ Ones(t) => OneValue(d[t.instr]))
<1>1. /\ DOMAIN d = DOMAIN instrs \ t.gone
      /\ \A j \in DOMAIN d : j # t.instr => d[j] = instrs[j]
      /\ t.instr \in DOMAIN d => d[t.instr].ids = instrs[t.instr].ids \cup UNION {instrs[l].ids : l \in t.gone}
  <2>1. Folded(d, t)
    BY FoldIs
  <2> QED
    BY <2>1, Zenon DEF Folded
\* where a row of d was stored
<1>2. ASSUME NEW j \in DOMAIN d, NEW p \in d[j].ids
      PROVE  \E l \in DOMAIN instrs : p \in instrs[l].ids /\ Relinked(l, t) = j
  <2>1. CASE p \in instrs[j].ids
    <3>1. j \in DOMAIN instrs /\ Relinked(j, t) = j
      BY <1>1, <1>2 DEF Relinked
    <3> QED
      BY <2>1, <3>1
  <2>2. CASE p \notin instrs[j].ids
    <3>1. j = t.instr
      BY <1>1, <1>2, <2>2
    <3>2. PICK l \in t.gone : p \in instrs[l].ids
      BY <1>1, <1>2, <2>2, <3>1
    <3>3. l \in DOMAIN instrs /\ Relinked(l, t) = j
      BY <3>1, <3>2 DEF Merges, Relinked
    <3> QED
      BY <3>2, <3>3
  <2> QED
    BY <2>1, <2>2
<1>3. Distinct(d)
  <2>1. SUFFICES ASSUME NEW i \in DOMAIN d, NEW j \in DOMAIN d, NEW id \in Carried(d[i]) \cap Carried(d[j])
                 PROVE  i = j
    BY DEF Distinct
  <2>2. PICK p \in d[i].ids : p[1] = id
    BY <2>1 DEF Carried
  <2>3. PICK q \in d[j].ids : q[1] = id
    BY <2>1 DEF Carried
  <2>4. PICK k \in DOMAIN instrs : p \in instrs[k].ids /\ Relinked(k, t) = i
    BY <1>2
  <2>5. PICK l \in DOMAIN instrs : q \in instrs[l].ids /\ Relinked(l, t) = j
    BY <1>2
  <2>6. id \in Carried(instrs[k]) /\ id \in Carried(instrs[l])
    BY <2>2, <2>3, <2>4, <2>5 DEF Carried
  <2>7. k = l
    BY <2>6 DEF Distinct
  <2> QED
    BY <2>4, <2>5, <2>7
<1>4. ASSUME NEW j \in DOMAIN d, j = t.instr, Ones(t) PROVE OneValue(d[j])
  <2>1. SUFFICES ASSUME NEW p \in d[j].ids, NEW q \in d[j].ids, p[2] = q[2], p[1].type = q[1].type,
                        p[1].dom = q[1].dom, Exclusive(p[1])
                 PROVE  p = q
    BY DEF OneValue
  <2>2. PICK k \in DOMAIN instrs : p \in instrs[k].ids /\ Relinked(k, t) = j
    BY <1>2, <1>4
  <2>3. PICK l \in DOMAIN instrs : q \in instrs[l].ids /\ Relinked(l, t) = j
    BY <1>2, <1>4
  <2>4. CASE k = l
    <3>1. k \in t.gone \cup {t.instr}
      BY <1>4, <2>2 DEF Relinked
    <3>2. OneValue(instrs[k])
      BY <1>4, <2>2, <3>1 DEF Ones
    <3> QED
      BY <2>1, <2>2, <2>3, <2>4, <3>2 DEF OneValue
  <2>5. CASE k # l
    <3>1. k \in t.gone \/ l \in t.gone
      BY <2>2, <2>3, <2>5 DEF Relinked
    <3>2. k \in M /\ l \in M /\ ~mergeConflict(instrs, M)
      <4>1. k \in t.gone \cup {t.instr}
        BY <2>2, <2>3, <2>5 DEF Relinked
      <4>2. l \in t.gone \cup {t.instr}
        BY <2>2, <2>3, <2>5 DEF Relinked
      <4> QED
        BY <3>1, <4>1, <4>2
    <3> QED
      BY <2>1, <2>2, <2>3, <2>5, <3>2 DEF mergeConflict
  <2> QED
    BY <2>4, <2>5
<1> QED
  BY <1>3, <1>4

\* Claim or instrument a carries id where family f's identifiers stand.
CarriesAt(a, id, f) == IF f = NoFamily THEN id \in a.ids ELSE f \in DOMAIN a.listings /\ id \in a.listings[f]

(* A claim's rows are its identifiers, each where it stands (writer.go,      *)
(* identify).                                                                *)
LEMMA StorableIs ==
    ASSUME NEW c, NEW q \in Storable(c)
    PROVE  /\ q = <<q[1], q[2]>> /\ q[1] \in LookupIDs(AllIDs(c)) /\ CarriesAt(c, q[1], q[2])
           /\ q[2] \in (DOMAIN c.listings \ {NoFamily}) \cup {NoFamily}
<1>1. CASE q \in {<<id, NoFamily>> : id \in LookupIDs(c.ids)}
  <2>1. PICK id \in LookupIDs(c.ids) : q = <<id, NoFamily>>
    BY <1>1
  <2>2. id \in LookupIDs(AllIDs(c)) /\ id \in c.ids
    BY <2>1 DEF LookupIDs, AllIDs
  <2> QED
    BY <2>1, <2>2 DEF CarriesAt
<1>2. CASE q \in UNION {{<<id, f>> : id \in LookupIDs(c.listings[f])} : f \in DOMAIN c.listings \ {NoFamily}}
  <2>1. PICK f \in DOMAIN c.listings \ {NoFamily} : q \in {<<id, f>> : id \in LookupIDs(c.listings[f])}
    BY <1>2
  <2>2. PICK id \in LookupIDs(c.listings[f]) : q = <<id, f>>
    BY <2>1
  <2>3. id \in LookupIDs(AllIDs(c)) /\ id \in c.listings[f]
    BY <2>2 DEF LookupIDs, AllIDs, Range
  <2> QED
    BY <2>2, <2>3 DEF CarriesAt
<1> QED
  BY <1>1, <1>2 DEF Storable

(* A claim that does not contradict a claim carries its value of a type      *)
(* where both carry one (claim.go, contradicts).                             *)
LEMMA RowsAgree ==
    ASSUME NEW Given, NEW c, Sound(Given, c), AgreesWithItself(c), NEW q \in Storable(c), NEW a, NEW id,
           CarriesAt(a, id, q[2]), ~inconsistent(c, a),
           id.type = q[1].type, id.dom = q[1].dom, Exclusive(id)
    PROVE  q[1] = id
<1>1. PICK x, f : x = q[1] /\ f = q[2]
  OBVIOUS
<1>2. CarriesAt(c, x, f)
  BY <1>1, StorableIs
<1>3. Grain(id) = Grain(x) /\ id.type = x.type /\ id.dom = x.dom /\ CarriesAt(a, id, f)
  BY <1>1 DEF Grain
<1>4. CASE f = NoFamily
  <2>1. x \in c.ids /\ id \in a.ids
    BY <1>2, <1>3, <1>4 DEF CarriesAt
  <2>2. ~contradicts(c, id, NoFamily)
    BY <2>1 DEF inconsistent
  <2>3. Grain(id) = "instr"
    BY <1>3, <2>1 DEF Sound
  <2>4. id \in c.ids
    BY <1>3, <2>1, <2>2, <2>3 DEF contradicts
  <2>5. x \in Standing(c, NoFamily) /\ id \in Standing(c, NoFamily)
    BY <2>1, <2>4 DEF Standing
  <2> QED
    BY <1>1, <1>3, <2>5 DEF AgreesWithItself
<1>5. CASE f # NoFamily
  <2>1. f \in DOMAIN c.listings /\ x \in c.listings[f] /\ f \in DOMAIN a.listings /\ id \in a.listings[f]
    BY <1>2, <1>3, <1>5 DEF CarriesAt
  <2>2. ~contradicts(c, id, f)
    BY <2>1 DEF inconsistent
  <2>3. Grain(id) # "instr"
    BY <1>3, <2>1 DEF Sound
  <2>4. PICK pool : pool = UNION {c.listings[g] : g \in {h \in DOMAIN c.listings : f = NoFamily \/ h \in {f, NoFamily}}}
    OBVIOUS
  <2>5. x \in pool /\ pool \subseteq Standing(c, f)
    BY <1>5, <2>1, <2>4 DEF Standing
  <2>6. PICK same : same = {h \in pool : h.type = id.type /\ h.dom = id.dom}
    OBVIOUS
  <2>7. ~(Exclusive(id) /\ same # {} /\ id \notin same)
    BY <2>2, <2>3, <2>4, <2>6 DEF contradicts
  <2>8. id \in pool
    BY <1>3, <2>5, <2>6, <2>7
  <2> QED
    BY <1>1, <1>3, <2>1, <2>5, <2>8 DEF AgreesWithItself
<1> QED
  BY <1>4, <1>5

(* Attaching claims takes nothing from an instrument, and adds rows of the   *)
(* claims, of identifiers neither it nor a refused merge holds (writer.go,   *)
(* attach).                                                                  *)
LEMMA AttachKeeps ==
    ASSUME NEW i, NEW attached, IsSeq(attached), NEW taken, Instr(i), NEW w, w = attach(i, attached, taken)
    PROVE  /\ Instr(w) /\ i.ids \subseteq w.ids
           /\ \A p \in w.ids \ i.ids : p[1] \notin Carried(i) \cup taken /\ \E n \in DOMAIN attached : p \in Storable(attached[n])
<1> DEFINE F == UNION {DOMAIN c.listings \ {NoFamily} : c \in Range(attached)}
           O == (UNION {{p[1] : p \in Storable(c)} : c \in Range(attached)}) \ (Carried(i) \cup taken)
           I == {FirstRow(attached, id) : id \in O}
<1>1. w = [i EXCEPT !.fams = @ \cup F, !.ids = @ \cup I]
  BY Zenon DEF attach
<1> HIDE DEF F, O, I
<1>2. /\ w = [class |-> w.class, fams |-> w.fams, ids |-> w.ids, ref |-> w.ref]
      /\ w.fams = i.fams \cup F /\ w.ids = i.ids \cup I
  BY <1>1 DEF Instr
<1>3. ASSUME NEW p \in I
      PROVE  p[1] \notin Carried(i) \cup taken /\ \E n \in DOMAIN attached : p \in Storable(attached[n])
  <2>1. PICK id \in O : p = FirstRow(attached, id)
    BY <1>3 DEF I
  <2>2. PICK S : S = {m \in DOMAIN attached : \E x \in Storable(attached[m]) : x[1] = id}
    OBVIOUS
  <2>3. S # {}
    <3>1. PICK c \in Range(attached) : id \in {x[1] : x \in Storable(c)}
      BY <2>1 DEF O
    <3>2. PICK m \in DOMAIN attached : attached[m] = c
      BY <3>1 DEF Range
    <3> QED
      BY <2>2, <3>1, <3>2
  <2>4. S \in SUBSET Nat
    BY <2>2 DEF IsSeq
  <2>5. PICK n : n = Min(S)
    OBVIOUS
  <2>6. n \in S
    BY <2>3, <2>4, <2>5, MinIsIn
  <2>7. p = CHOOSE x \in Storable(attached[n]) : x[1] = id
    BY <2>1, <2>2, <2>5, Zenon DEF FirstRow
  <2>8. \E x \in Storable(attached[n]) : x[1] = id
    BY <2>2, <2>6
  <2>9. p \in Storable(attached[n]) /\ p[1] = id
    BY <2>7, <2>8
  <2>10. n \in DOMAIN attached /\ id \notin Carried(i) \cup taken
    <3>1. id \notin Carried(i) \cup taken
      BY <2>1 DEF O
    <3> QED
      BY <2>2, <2>6, <3>1
  <2> QED
    BY <2>9, <2>10
<1>4. ASSUME NEW p \in w.ids PROVE p = <<p[1], p[2]>> /\ p[2] \in w.fams \cup {NoFamily}
  <2>1. CASE p \in i.ids
    BY <1>2, <2>1 DEF Instr
  <2>2. CASE p \in I
    <3>1. PICK n \in DOMAIN attached : p \in Storable(attached[n])
      BY <1>3, <2>2
    <3>2. PICK c : c = attached[n]
      OBVIOUS
    <3>3. p = <<p[1], p[2]>> /\ p[2] \in (DOMAIN c.listings \ {NoFamily}) \cup {NoFamily}
      BY <3>1, <3>2, StorableIs
    <3>4. DOMAIN c.listings \ {NoFamily} \subseteq F
      BY <3>2 DEF F, Range
    <3> QED
      BY <1>2, <3>3, <3>4
  <2> QED
    BY <1>2, <1>4, <2>1, <2>2
<1>5. Instr(w)
  BY <1>2, <1>4 DEF Instr
<1> QED
  BY <1>2, <1>3, <1>5

(* Claims that agree with an instrument and with one another give it no two  *)
(* values of a type (choose.go, rejects; writer.go, attach).                 *)
LEMMA AttachOneValue ==
    ASSUME NEW Given, \A c \in Given : AgreesWithItself(c),
           NEW i, Instr(i), OneValue(i), NEW v, NEW known, Agrees(Given, v, known), i.ids = {} \/ known = DbClaim(i),
           NEW P, NEW attached, attached = At(v.attached, P), NEW taken, NEW w, w = attach(i, attached, taken)
    PROVE  OneValue(w)
<1>1. PICK a : a = v.attached
  OBVIOUS
<1>2. /\ IsSeq(a) /\ \A n \in DOMAIN a : Sound(Given, a[n]) /\ AgreesWithItself(a[n])
      /\ known # NoClaim => \A n \in DOMAIN a : ~inconsistent(a[n], known)
      /\ \A m, n \in DOMAIN a : m < n => ~inconsistent(a[n], a[m])
  BY <1>1 DEF Agrees, SoundSeq, Sound
<1>3. IsSeq(attached) /\ \A n \in DOMAIN attached : \E m \in P \cap DOMAIN a : attached[n] = a[m]
  BY <1>1, <1>2, AtIs
<1>4. \A p \in w.ids \ i.ids : \E n \in DOMAIN attached : p \in Storable(attached[n])
  BY <1>3, AttachKeeps
<1>5. \A p \in w.ids \ i.ids : \E m \in DOMAIN a : p \in Storable(a[m])
  BY <1>3, <1>4
\* a new row against one that was there
<1>6. ASSUME NEW p \in i.ids, NEW q \in w.ids \ i.ids, p[2] = q[2], p[1].type = q[1].type, p[1].dom = q[1].dom,
             Exclusive(p[1])
      PROVE  p[1] = q[1]
  <2>1. PICK m \in DOMAIN a : q \in Storable(a[m])
    BY <1>5, <1>6
  <2>2. known = DbClaim(i)
    BY <1>6
  <2>3. CarriesAt(known, p[1], p[2])
    <3>1. p[2] \in i.fams \cup {NoFamily}
      BY <1>6 DEF Instr
    <3>2. CASE p[2] = NoFamily
      <4>1. p[1] \in known.ids
        BY <1>6, <2>2, <3>2 DEF DbClaim
      <4> QED
        BY <3>2, <4>1 DEF CarriesAt
    <3>3. CASE p[2] # NoFamily
      <4>1. p[2] \in i.fams
        BY <3>1, <3>3
      <4>2. p[2] \in DOMAIN known.listings /\ p[1] \in known.listings[p[2]]
        BY <1>6, <2>2, <4>1 DEF DbClaim
      <4> QED
        BY <3>3, <4>2 DEF CarriesAt
    <3> QED
      BY <3>2, <3>3
  <2>4. known # NoClaim
    <3>1. NoClaim.ids = {} /\ DOMAIN NoClaim.listings = {}
      BY NoElements DEF NoClaim
    <3> QED
      BY <2>3, <3>1 DEF CarriesAt
  <2>5. Sound(Given, a[m]) /\ AgreesWithItself(a[m]) /\ ~inconsistent(a[m], known)
    BY <1>2, <2>1, <2>4
  <2>6. CarriesAt(known, p[1], q[2])
    BY <1>6, <2>3
  <2> QED
    BY <1>6, <2>1, <2>5, <2>6, RowsAgree
\* two new rows
<1>7. ASSUME NEW p \in w.ids \ i.ids, NEW q \in w.ids \ i.ids, p[2] = q[2], p[1].type = q[1].type,
             p[1].dom = q[1].dom, Exclusive(p[1])
      PROVE  p[1] = q[1]
  <2>1. PICK m \in DOMAIN a : p \in Storable(a[m])
    BY <1>5, <1>7
  <2>2. PICK n \in DOMAIN a : q \in Storable(a[n])
    BY <1>5, <1>7
  <2>3. PICK c, d : c = a[m] /\ d = a[n]
    OBVIOUS
  <2>4. /\ Sound(Given, c) /\ Sound(Given, d) /\ AgreesWithItself(c) /\ AgreesWithItself(d)
        /\ CarriesAt(c, p[1], q[2]) /\ CarriesAt(d, q[1], p[2]) /\ Exclusive(q[1])
    <3>1. CarriesAt(c, p[1], p[2]) /\ CarriesAt(d, q[1], q[2])
      BY <2>1, <2>2, <2>3, StorableIs
    <3>2. Exclusive(q[1])
      BY <1>7 DEF Exclusive
    <3> QED
      BY <1>2, <1>7, <2>1, <2>2, <2>3, <3>1, <3>2
  <2>5. CASE m = n
    <3>1. CASE p[2] = NoFamily
      <4>1. p[1] \in Standing(c, NoFamily) /\ q[1] \in Standing(c, NoFamily)
        BY <1>7, <2>3, <2>4, <2>5, <3>1 DEF CarriesAt, Standing
      <4> QED
        BY <1>7, <2>4, <4>1 DEF AgreesWithItself
    <3>2. CASE p[2] # NoFamily
      <4>1. PICK f : f = p[2] /\ f = q[2]
        BY <1>7
      <4>2. f \in DOMAIN c.listings /\ p[1] \in c.listings[f] /\ q[1] \in c.listings[f]
        BY <2>3, <2>4, <2>5, <3>2, <4>1 DEF CarriesAt
      <4>3. p[1] \in Standing(c, f) /\ q[1] \in Standing(c, f)
        BY <4>2 DEF Standing
      <4> QED
        BY <1>7, <2>4, <4>2, <4>3 DEF AgreesWithItself
    <3> QED
      BY <3>1, <3>2
  <2>6. CASE m < n
    <3>1. ~inconsistent(d, c)
      BY <1>2, <2>3, <2>6
    <3> QED
      BY <1>7, <2>2, <2>3, <2>4, <3>1, RowsAgree
  <2>7. CASE n < m
    <3>1. ~inconsistent(c, d)
      BY <1>2, <2>3, <2>7
    <3> QED
      BY <1>7, <2>1, <2>3, <2>4, <3>1, RowsAgree
  <2>8. m \in Nat /\ n \in Nat
    BY <1>2 DEF IsSeq
  <2> QED
    BY <2>5, <2>6, <2>7, <2>8
<1>8. Instr(w)
  BY <1>3, AttachKeeps
<1>9. SUFFICES ASSUME NEW p \in w.ids, NEW q \in w.ids, p[2] = q[2], p[1].type = q[1].type,
                      p[1].dom = q[1].dom, Exclusive(p[1])
               PROVE  p = q
  BY DEF OneValue
<1>10. p[1] = q[1]
  <2>1. CASE p \in i.ids /\ q \in i.ids
    BY <1>9, <2>1 DEF OneValue
  <2>2. CASE p \in i.ids /\ q \notin i.ids
    BY <1>6, <1>9, <2>2
  <2>3. CASE p \notin i.ids /\ q \in i.ids
    <3>1. Exclusive(q[1])
      BY <1>9 DEF Exclusive
    <3> QED
      BY <1>6, <1>9, <2>3, <3>1
  <2>4. CASE p \notin i.ids /\ q \notin i.ids
    BY <1>7, <1>9, <2>4
  <2> QED
    BY <2>1, <2>2, <2>3, <2>4
<1>11. p = <<p[1], p[2]>> /\ q = <<q[1], q[2]>>
  BY <1>8, <1>9 DEF Instr
<1> QED
  BY <1>9, <1>10, <1>11

\* The instrument that t or the creation of a new one leads to.
Chosen(t) == IF t.instr # None THEN t.instr ELSE Created

\* w is the instrument written: it keeps what it had, and what it has more are
\* identifiers of the claims attached.
Written(Given, f, t, attached, w) ==
    /\ Instr(w) /\ (Chosen(t) \in DOMAIN f => f[Chosen(t)].ids \subseteq w.ids)
    /\ (\A c \in Given : AgreesWithItself(c)) /\ Ones(t) => OneValue(w)
    /\ \A id \in Carried(w) :
          \/ Chosen(t) \in DOMAIN f /\ id \in Carried(f[Chosen(t)])
          \/ id \notin t.taken /\ \E n \in DOMAIN attached : id \in LookupIDs(AllIDs(attached[n]))

\* f are the stored instruments after t's merge.
AfterMerge(f, t) ==
    /\ DOMAIN f = DOMAIN instrs \ t.gone /\ \A j \in DOMAIN f : Instr(f[j])
    /\ t.instr \in DOMAIN f /\ Ones(t) => OneValue(f[t.instr])

(* The instrument written is a stored one that took claims, or a new one:    *)
(* it keeps what it had, carries one value of a type, and what it has more   *)
(* are identifiers of the claims (write.go, writeInstr).                     *)
LEMMA WrittenKeeps ==
    ASSUME NEW Given, NEW t, Merges(t), Numbered, NEW f, AfterMerge(f, t),
           NEW v, NEW known, Agrees(Given, v, known), t.instr # None => known = DbClaim(f[t.instr]),
           NEW P, NEW attached, attached = At(v.attached, P),
           NEW w, w = attach(writeInstr(f, t, v), attached, t.taken)
    PROVE  Written(Given, f, t, attached, w)
<1>0. /\ DOMAIN f = DOMAIN instrs \ t.gone /\ \A j \in DOMAIN f : Instr(f[j])
      /\ t.instr \in DOMAIN f /\ Ones(t) => OneValue(f[t.instr])
  BY DEF AfterMerge
<1>1. PICK b : b = writeInstr(f, t, v)
  OBVIOUS
<1>2. /\ Instr(b) /\ (Ones(t) => OneValue(b)) /\ (Chosen(t) \in DOMAIN f => b = f[Chosen(t)])
      /\ Chosen(t) \in DOMAIN f \/ b.ids = {}
      /\ b.ids = {} \/ known = DbClaim(b)
  <2>1. CASE t.instr # None
    <3>1. t.instr \in DOMAIN f
      BY <1>0, <2>1 DEF Merges
    <3>2. b = f[t.instr] /\ Chosen(t) = t.instr
      BY <1>1, <2>1 DEF writeInstr, Chosen
    <3> QED
      BY <1>0, <2>1, <3>1, <3>2
  <2>2. CASE t.instr = None
    <3>1. Chosen(t) = created + 1 /\ Chosen(t) \notin DOMAIN f
      BY <1>0, <2>2 DEF Created, Numbered, Chosen
    <3>2. b = [class |-> v.winner.class, fams |-> {}, ids |-> {}, ref |-> FALSE]
      BY <1>1, <2>2 DEF writeInstr
    <3>3. Instr(b) /\ OneValue(b) /\ b.ids = {}
      BY <3>2 DEF Instr, OneValue
    <3> QED
      BY <3>1, <3>3
  <2> QED
    BY <2>1, <2>2
<1>3. IsSeq(attached)
  BY AtIs DEF Agrees, SoundSeq
<1>4. w = attach(b, attached, t.taken)
  BY <1>1
<1>5. /\ Instr(w) /\ b.ids \subseteq w.ids
      /\ \A p \in w.ids \ b.ids :
            p[1] \notin Carried(b) \cup t.taken /\ \E n \in DOMAIN attached : p \in Storable(attached[n])
  BY <1>2, <1>3, <1>4, AttachKeeps
<1>6. ASSUME \A c \in Given : AgreesWithItself(c), Ones(t) PROVE OneValue(w)
  BY <1>2, <1>4, <1>6, AttachOneValue
<1>7. ASSUME NEW id \in Carried(w), ~(Chosen(t) \in DOMAIN f /\ id \in Carried(f[Chosen(t)]))
      PROVE  id \notin t.taken /\ \E n \in DOMAIN attached : id \in LookupIDs(AllIDs(attached[n]))
  <2>1. PICK p \in w.ids : p[1] = id
    BY <1>7 DEF Carried
  <2>2. p \notin b.ids
    <3>1. CASE Chosen(t) \in DOMAIN f
      BY <1>2, <1>7, <2>1, <3>1 DEF Carried
    <3>2. CASE Chosen(t) \notin DOMAIN f
      BY <1>2, <3>2
    <3> QED
      BY <3>1, <3>2
  <2>3. PICK n \in DOMAIN attached : p \in Storable(attached[n])
    BY <1>5, <2>1, <2>2
  <2>4. id \in LookupIDs(AllIDs(attached[n]))
    BY <2>1, <2>3, StorableIs
  <2>5. id \notin t.taken
    BY <1>5, <2>1, <2>2
  <2> QED
    BY <2>4, <2>5
<1>8. Chosen(t) \in DOMAIN f => f[Chosen(t)].ids \subseteq w.ids
  BY <1>2, <1>5
<1> QED
  BY <1>5, <1>6, <1>7, <1>8 DEF Written

(* The instruments with one written keep what they had. *)
LEMMA WriteKeeps ==
    ASSUME NEW t, Merges(t), Numbered, \A j \in DOMAIN instrs : Instr(instrs[j]),
           NEW f, f = fold(instrs, t), NEW i, i = Chosen(t), NEW Given,
           NEW w, Instr(w), (\A c \in Given : AgreesWithItself(c)) /\ Ones(t) => OneValue(w), i \in DOMAIN f => f[i].ids \subseteq w.ids,
           NEW d, DOMAIN d = DOMAIN f \cup {i}, d[i] = w, \A j \in DOMAIN f \ {i} : d[j] = f[j]
    PROVE  Grows(d, t) /\ Stores(d, t, i) /\ KeepsOne(Given, d, t)
<1>1. /\ Grows(f, t) /\ DOMAIN f = DOMAIN instrs \ t.gone
      /\ \A j \in DOMAIN f : Instr(f[j])
  BY FoldKeeps
<1>2. ASSUME NEW j \in DOMAIN f PROVE j \in DOMAIN d /\ Carried(f[j]) \subseteq Carried(d[j])
  BY MoreRows
<1>3. Grows(d, t)
  BY <1>1, <1>2 DEF Grows
<1>4. i # None /\ i \notin t.gone
  <2>1. CASE t.instr # None
    BY <2>1 DEF Merges, Chosen
  <2>2. CASE t.instr = None
    BY <2>2 DEF Merges, Chosen, Created, Numbered, None
  <2> QED
    BY <2>1, <2>2
<1>5. Stores(d, t, i)
  BY <1>1, <1>4 DEF Stores
<1>6. KeepsOne(Given, d, t)
  <2>1. ASSUME NEW j \in DOMAIN d, j # i PROVE j \in DOMAIN instrs /\ d[j] = instrs[j]
    <3>1. Folded(f, t)
      BY FoldIs
    <3>2. j # t.instr
      BY <1>1, <2>1 DEF Chosen, Numbered, Instrs, None
    <3> QED
      BY <1>1, <2>1, <3>1, <3>2 DEF Folded
  <2>2. t.instr \in {i, None}
    BY DEF Chosen
  <2> QED
    BY <2>1, <2>2 DEF KeepsOne
<1> QED
  BY <1>3, <1>5, <1>6

(* The unique index refuses a write only on an identifier of a claim that    *)
(* the first choice did not attach: an identifier of a claim it attached is  *)
(* the winner's or a stable one joins it to the winner, and was looked up,   *)
(* or dropHeld looked it up (target.go, findWriteTarget and dropHeld).       *)
LEMMA CollidesLate ==
    ASSUME Numbered, Distinct(instrs), \A j \in DOMAIN instrs : Instr(instrs[j]),
           NEW key, NEW first, IsSeq(first.attached),
           NEW M, M = findInstrsByIdentifier(instrs, TargetIDs(key, first)),
           NEW t, t = findWriteTarget(instrs, key, M), Merges(t), NEW f, f = fold(instrs, t), Distinct(f),
           NEW v, IsSeq(v.attached), NEW attached, attached = dropHeld(f, v.attached, first.winner, t.instr),
           NEW i, i = Chosen(t), NEW w,
           \A id \in Carried(w) :
              \/ i \in DOMAIN f /\ id \in Carried(f[i])
              \/ id \notin t.taken /\ \E n \in DOMAIN attached : id \in LookupIDs(AllIDs(attached[n])),
           NEW d, DOMAIN d = DOMAIN f \cup {i}, d[i] = w, \A j \in DOMAIN f \ {i} : d[j] = f[j]
    PROVE  /\ CollisionOf(Collisions(d, i), first, attached) # "collision"
           /\ Collisions(d, i) = {} => Distinct(d)
<1> USE InstrsAssumption
<1>1. DOMAIN instrs \subseteq Instrs /\ M \subseteq DOMAIN instrs /\ None \notin DOMAIN instrs
  BY DEF Numbered, findInstrsByIdentifier, Instrs, None
<1>2. \A j \in M : j = t.instr \/ j \in t.gone \/ Carried(instrs[j]) \subseteq t.taken
  BY <1>1, TargetCovers
<1>3. DOMAIN f = DOMAIN instrs \ t.gone /\ \A j \in DOMAIN f : j # t.instr => f[j] = instrs[j]
  <2>1. Folded(f, t)
    BY FoldIs
  <2> QED
    BY <2>1, Zenon DEF Folded
<1>4. PICK K : /\ K = {n \in DOMAIN v.attached :
                      \/ /\ first.winner # NoClaim
                         /\ v.attached[n] = first.winner \/ sharesStable(v.attached[n], first.winner)
                      \/ findInstrsByIdentifier(f, LookupIDs(AllIDs(v.attached[n]))) \subseteq {t.instr}}
               /\ attached = At(v.attached, K)
  BY Zenon DEF dropHeld
<1>5. ASSUME NEW id \in Collisions(d, i)
      PROVE  \E c \in Range(attached) \ Range(first.attached) : id \in AllIDs(c)
  <2>1. PICK j \in DOMAIN f : j # i /\ id \in Carried(f[j])
    <3>1. id \in Carried(d[i]) /\ findInstrsByIdentifier(d, {id}) # {i}
      BY <1>5 DEF Collisions
    <3>2. i \in findInstrsByIdentifier(d, {id})
      BY <3>1 DEF findInstrsByIdentifier
    <3>3. PICK S : S = findInstrsByIdentifier(d, {id})
      OBVIOUS
    <3>4. PICK j \in S : j # i
      <4>1. i \in S /\ S # {i}
        BY <3>1, <3>2, <3>3
      <4> QED
        BY <4>1
    <3>5. j \in DOMAIN d /\ id \in Carried(d[j])
      BY <3>3, <3>4 DEF findInstrsByIdentifier
    <3> QED
      BY <3>4, <3>5
  <2>2. ~(i \in DOMAIN f /\ id \in Carried(f[i]))
    BY <2>1 DEF Distinct
  <2>3. id \in Carried(w)
    BY <1>5 DEF Collisions
  <2>4. PICK n \in DOMAIN attached : id \notin t.taken /\ id \in LookupIDs(AllIDs(attached[n]))
    BY <2>2, <2>3
  <2>5. PICK c : c = attached[n]
    OBVIOUS
  <2>6. PICK m \in K : c = v.attached[m]
    <3>1. PICK a : a = v.attached
      OBVIOUS
    <3>2. attached = At(a, K) /\ IsSeq(a)
      BY <1>4, <3>1
    <3>3. \E m \in K \cap DOMAIN a : attached[n] = a[m]
      BY <2>4, <3>2, AtIs
    <3> QED
      BY <2>5, <3>1, <3>3
  <2>7. j # t.instr /\ f[j] = instrs[j]
    <3>1. j # t.instr
      BY <1>1, <1>3, <2>1 DEF Chosen
    <3> QED
      BY <1>3, <2>1, <3>1
  <2>8. c \notin Range(first.attached)
    <3>1. SUFFICES ASSUME c \in Range(first.attached) PROVE FALSE
      OBVIOUS
    <3>2. CASE findInstrsByIdentifier(f, LookupIDs(AllIDs(c))) \subseteq {t.instr}
      <4>1. j \in findInstrsByIdentifier(f, LookupIDs(AllIDs(c)))
        BY <2>1, <2>4, <2>5 DEF findInstrsByIdentifier
      <4> QED
        BY <2>7, <3>2, <4>1
    <3>3. CASE c = first.winner \/ sharesStable(c, first.winner)
      <4>1. PICK k \in DOMAIN first.attached : first.attached[k] = c
        BY <3>1 DEF Range
      <4>2. PICK T : T = {q \in DOMAIN first.attached : \/ first.attached[q] = first.winner
                                                        \/ sharesStable(first.attached[q], first.winner)}
        OBVIOUS
      <4>3. k \in T
        BY <3>3, <4>1, <4>2
      <4>4. TargetIDs(key, first) = LookupIDs(GlobalAndDescriptionIDs(key)) \cup
                                    UNION {LookupIDs(AllIDs(first.attached[q])) : q \in T}
        BY <4>2, Zenon DEF TargetIDs
      <4>5. id \in TargetIDs(key, first)
        BY <2>4, <2>5, <4>1, <4>3, <4>4
      <4>6. j \in M
        BY <1>3, <2>1, <2>7, <4>5 DEF findInstrsByIdentifier
      <4> QED
        BY <1>2, <1>3, <2>1, <2>4, <2>7, <4>6
    <3> QED
      BY <1>4, <2>6, <3>2, <3>3
  <2>9. c \in Range(attached) /\ id \in AllIDs(c)
    BY <2>4, <2>5 DEF Range, LookupIDs
  <2> QED
    BY <2>8, <2>9
<1>6. CollisionOf(Collisions(d, i), first, attached) # "collision"
  <2>1. Collisions(d, i) \subseteq UNION {AllIDs(c) : c \in Range(attached) \ Range(first.attached)}
    BY <1>5
  <2> QED
    BY <2>1 DEF CollisionOf
<1>7. ASSUME Collisions(d, i) = {} PROVE Distinct(d)
  <2>1. ASSUME NEW j \in DOMAIN f, j # i PROVE Carried(d[i]) \cap Carried(d[j]) = {}
    <3>1. SUFFICES ASSUME NEW id \in Carried(d[i]), id \in Carried(d[j]) PROVE FALSE
      OBVIOUS
    <3>2. j \in findInstrsByIdentifier(d, {id})
      BY <2>1, <3>1 DEF findInstrsByIdentifier
    <3>3. id \in Collisions(d, i)
      BY <2>1, <3>1, <3>2 DEF Collisions
    <3> QED
      BY <1>7, <3>3
  <2>2. ASSUME NEW j \in DOMAIN d, NEW k \in DOMAIN d, j # k PROVE Carried(d[j]) \cap Carried(d[k]) = {}
    <3>1. CASE j = i
      BY <2>1, <2>2, <3>1
    <3>2. CASE k = i
      BY <2>1, <2>2, <3>2
    <3>3. CASE j # i /\ k # i
      BY <2>2, <3>3 DEF Distinct
    <3> QED
      BY <3>1, <3>2, <3>3
  <2> QED
    BY <2>2 DEF Distinct
<1> QED
  BY <1>6, <1>7

-----------------------------------------------------------------------------
(* Transactions *)

\* What a step may do to an association the user confirmed.
UserStep == \A k \in Keys : assoc[k].arbiter = "user" =>
                \/ assoc'[k] = assoc[k]
                \/ /\ assoc[k].instr \notin DOMAIN instrs'
                   /\ assoc'[k] = [assoc[k] EXCEPT !.instr = assoc'[k].instr]

\* as are the associations, but for keys the user did not arbitrate that now
\* have a dated association or one with instrument i through what it carries.
Reassociates(as, d, i) ==
    \A k \in Keys : \/ as[k] = assoc[k]
                    \/ /\ assoc[k].arbiter # "user" /\ IsAssociation(as[k])
                       /\ \/ as[k].instr = None
                          \/ as[k].instr = i /\ i \in DOMAIN d /\ as[k].via \in Carried(d[i])

(* An association is written as given, or not at all (txns.sql,             *)
(* SetStatedKeyAssociation and SetStatedKeyDatedAssociation).               *)
LEMMA Reassociated ==
    ASSUME Shaped, NEW k, NEW d, NEW i, NEW via, NEW t, NEW arbiter
    PROVE  /\ i \in DOMAIN d /\ via \in Carried(d[i]) => Reassociates(SetFixed(assoc, k, i, via, arbiter), d, i)
           /\ Reassociates(writeDated(assoc, k, t, arbiter), d, i)
           /\ Reassociates(assoc, d, i)
<1>1. ASSUME NEW l \in Keys, NEW new
      PROVE  \/ SetAssociation(assoc, k, new)[l] = assoc[l]
             \/ assoc[l].arbiter # "user" /\ SetAssociation(assoc, k, new)[l] = new
  <2>1. CASE assoc[k].arbiter = "user"
    BY <2>1 DEF SetAssociation
  <2>2. CASE assoc[k].arbiter # "user"
    <3>1. SetAssociation(assoc, k, new) = [assoc EXCEPT ![k] = new]
      BY <2>2 DEF SetAssociation
    <3>2. l \in DOMAIN assoc
      BY DEF Shaped
    <3> QED
      BY <2>2, <3>1, <3>2
  <2> QED
    BY <2>1, <2>2
<1>2. PICK a : a = [instr |-> i, via |-> via, ticker |-> NoTicker, arbiter |-> arbiter]
  OBVIOUS
<1>3. PICK b : b = [instr |-> None, via |-> NoId, ticker |-> t, arbiter |-> arbiter]
  OBVIOUS
<1>4. IsAssociation(a) /\ a.instr = i /\ a.via = via /\ IsAssociation(b) /\ b.instr = None
  BY <1>2, <1>3 DEF IsAssociation
<1>5. SetFixed(assoc, k, i, via, arbiter) = SetAssociation(assoc, k, a)
  BY <1>2 DEF SetFixed
<1>6. writeDated(assoc, k, t, arbiter) = SetAssociation(assoc, k, b)
  BY <1>3 DEF writeDated
<1>7. ASSUME i \in DOMAIN d, via \in Carried(d[i]) PROVE Reassociates(SetFixed(assoc, k, i, via, arbiter), d, i)
  BY <1>1, <1>4, <1>5, <1>7 DEF Reassociates
<1>8. Reassociates(writeDated(assoc, k, t, arbiter), d, i)
  BY <1>1, <1>4, <1>6 DEF Reassociates
<1>9. Reassociates(assoc, d, i)
  BY DEF Reassociates
<1> QED
  BY <1>7, <1>8, <1>9

(* A transaction that commits leaves nothing dangling and no user's choice  *)
(* changed but by its merge (write.go, writeDecision; merge.go, fold).      *)
LEMMA CommitKeeps ==
    ASSUME IInv, NEW r \in Runs, NEW d, NEW t, NEW as, NEW i, NEW attached, NEW outcome,
           Merges(t), Grows(d, t), Stores(d, t, i), Distinct(d), Reassociates(as, d, i),
           run[r].step = "write", KeepsOne(ClaimsOf(run[r].fks), d, t),
           i = None \/ (i \in DOMAIN d /\ i \in Instrs /\ (i \in DOMAIN instrs \/ i = Created)),
           Commit(r, d, t, as, i, attached, outcome)
    PROVE  IInv' /\ UserStep /\ OneStep
<1> USE InstrsAssumption
<1>1. PICK new : new = recordUnknown(run[r].fks) \cup AttachedFacts(attached, i)
  OBVIOUS
<1>2. PICK cov : cov = IF i = None THEN {} ELSE recordIdentityCoverage(run[r].fks, attached, i)
  OBVIOUS
<1>3. /\ instrs' = d
      /\ created' = IF i = Created THEN i ELSE created
      /\ assoc' = [k \in Keys |-> [as[k] EXCEPT !.instr = Relinked(@, t)]]
      /\ covered' = {<<Relinked(p[1], t), p[2]>> : p \in covered} \cup cov
      /\ facts' = {<<p[1], Relinked(p[2], t)>> : p \in facts} \cup {<<f.t, f.i>> : f \in new}
      /\ run' = [run EXCEPT ![r].step = "record", ![r].outcome = outcome, ![r].fks = <<>>]
      /\ enabled' = enabled
  BY <1>1, <1>2 DEF Commit
<1>4. \A f \in new : f.i \in {None, i}
  <2>1. ASSUME NEW f \in recordUnknown(run[r].fks) PROVE f.i = None
    <3>1. PICK fks : fks = run[r].fks
      OBVIOUS
    <3>2. PICK S : S = {{[src |-> fks[n].src, t |-> u, i |-> None] : u \in MarketTickers({fks[n].sent})} :
                          n \in {m \in Served(fks) : fks[m].unknown}}
      OBVIOUS
    <3>3. f \in UNION S
      <4>1. f \in recordUnknown(fks)
        BY <3>1
      <4>2. recordUnknown(fks) = UNION S
        BY <3>2, Zenon DEF recordUnknown
      <4> QED
        BY <4>1, <4>2
    <3>4. PICK T \in S : f \in T
      BY <3>3
    <3>5. PICK n : T = {[src |-> fks[n].src, t |-> u, i |-> None] : u \in MarketTickers({fks[n].sent})}
      BY <3>2, <3>4
    <3> QED
      BY <3>4, <3>5
  <2>2. ASSUME NEW f \in AttachedFacts(attached, i) PROVE f.i = i
    BY DEF AttachedFacts
  <2> QED
    BY <1>1, <2>1, <2>2
<1>5. \A c \in cov : c[1] = i /\ i # None
  BY <1>2 DEF recordIdentityCoverage
<1>6. None \notin DOMAIN instrs /\ None \notin t.gone
  BY DEF IInv, Numbered, Instrs, None, Merges
\* what referred to a stored instrument refers to a stored one
<1>7. ASSUME NEW j \in DOMAIN instrs
      PROVE  /\ Relinked(j, t) \in DOMAIN d /\ Carried(instrs[j]) \subseteq Carried(d[Relinked(j, t)])
             /\ j \notin DOMAIN d \/ Relinked(j, t) = j
  BY DEF Relinked, Grows, Stores
<1>8. Relinked(None, t) = None
  BY <1>6 DEF Relinked
<1>9. \A f \in facts' : f[2] \in DOMAIN d \cup {None}
  <2>1. ASSUME NEW p \in facts PROVE Relinked(p[2], t) \in DOMAIN d \cup {None}
    BY <1>7, <1>8 DEF IInv, NothingDangles, Live
  <2>2. ASSUME NEW f \in new PROVE f.i \in DOMAIN d \cup {None}
    BY <1>4
  <2> QED
    BY <1>3, <2>1, <2>2
<1>10. \A c \in covered' : c[1] \in DOMAIN d
  <2>1. ASSUME NEW p \in covered PROVE Relinked(p[1], t) \in DOMAIN d
    BY <1>7 DEF IInv, NothingDangles, Live
  <2> QED
    BY <1>3, <1>5, <2>1
<1>11. ASSUME NEW k \in Keys
       PROVE  /\ IsAssociation(assoc'[k])
              /\ assoc'[k].instr # None =>
                    assoc'[k].instr \in DOMAIN d /\ assoc'[k].via \in Carried(d[assoc'[k].instr])
              /\ assoc[k].arbiter = "user" => \/ assoc'[k] = assoc[k]
                                              \/ /\ assoc[k].instr \notin DOMAIN d
                                                 /\ assoc'[k] = [assoc[k] EXCEPT !.instr = assoc'[k].instr]
  <2>1. PICK a : a = as[k]
    OBVIOUS
  <2>2. PICK n : n = Relinked(a.instr, t)
    OBVIOUS
  <2>3. assoc'[k] = [a EXCEPT !.instr = n]
    BY <1>3, <2>1, <2>2
  <2>4. IsAssociation(a)
    BY <2>1 DEF Reassociates, IInv, Shaped
  <2>5. IsAssociation(assoc'[k]) /\ assoc'[k].instr = n /\ assoc'[k].via = a.via
    BY <2>3, <2>4 DEF IsAssociation
  <2>6. CASE as[k] = assoc[k]
    <3>1. CASE a.instr = None
      <4>1. n = None
        BY <1>8, <2>2, <3>1
      <4>2. assoc'[k] = a
        BY <2>3, <2>4, <3>1, <4>1 DEF IsAssociation
      <4> QED
        BY <2>1, <2>5, <2>6, <4>1, <4>2
    <3>2. CASE a.instr # None
      <4>1. a.instr \in DOMAIN instrs /\ a.via \in Carried(instrs[a.instr])
        BY <2>1, <2>6, <3>2 DEF IInv, NothingDangles, Live
      <4>2. n \in DOMAIN d /\ a.via \in Carried(d[n]) /\ (a.instr \notin DOMAIN d \/ n = a.instr)
        BY <1>7, <2>2, <4>1
      <4>3. n = a.instr => assoc'[k] = a
        BY <2>3, <2>4 DEF IsAssociation
      <4> QED
        BY <2>1, <2>3, <2>5, <2>6, <4>2, <4>3
    <3> QED
      BY <3>1, <3>2
  <2>7. CASE as[k] # assoc[k]
    <3>1. assoc[k].arbiter # "user"
      BY <2>7 DEF Reassociates
    <3>2. a.instr = None \/ (a.instr = i /\ i \in DOMAIN d /\ a.via \in Carried(d[i]))
      BY <2>1, <2>7 DEF Reassociates
    <3>3. n = a.instr
      BY <1>6, <2>2, <3>2 DEF Relinked, Stores
    <3> QED
      BY <2>5, <3>1, <3>2, <3>3
  <2> QED
    BY <2>6, <2>7
<1>12. NothingDangles'
  BY <1>3, <1>9, <1>10, <1>11 DEF NothingDangles, Live
<1>13. Numbered'
  <2>1. created' \in Nat /\ created <= created' /\ (i = Created => created' = i)
    BY <1>3 DEF IInv, Numbered, Created
  <2>2. ASSUME NEW j \in DOMAIN d PROVE j \in Instrs /\ j \in 1..created'
    <3>1. CASE j \in DOMAIN instrs
      BY <2>1, <3>1 DEF IInv, Numbered
    <3>2. CASE j \notin DOMAIN instrs
      <4>1. j = i
        BY <3>2 DEF Stores
      <4>2. i # None
        BY <3>2 DEF Stores
      <4>3. i = Created /\ i \in Instrs
        BY <3>2, <4>1, <4>2
      <4> QED
        BY <2>1, <4>1, <4>3 DEF IInv, Numbered, Created
    <3> QED
      BY <3>1, <3>2
  <2> QED
    BY <1>3, <2>1, <2>2 DEF Numbered
<1>14. PICK x : x = run[r]
  OBVIOUS
<1>15. PICK y : y = [x EXCEPT !.step = "record", !.outcome = outcome, !.fks = <<>>]
  OBVIOUS
<1>16. run' = [run EXCEPT ![r] = y]
  BY <1>3, <1>14, <1>15 DEF IInv, Shaped
<1>17. IsRun(x)
  BY <1>14 DEF IInv, Shaped
<1>18. IsRun(y) /\ y.step = "record" /\ y.fks = <<>> /\ y.why = x.why
  BY <1>15, <1>17 DEF IsRun
<1>19. /\ run' = [q \in Runs |-> run'[q]] /\ run'[r] = y
       /\ \A q \in Runs : q # r => run'[q] = run[q]
  BY <1>16 DEF IInv, Shaped
<1>20. \A q \in Runs : IsRun(run'[q])
  BY <1>18, <1>19 DEF IInv, Shaped
<1>21. Shaped'
  BY <1>3, <1>11, <1>19, <1>20 DEF Shaped, Stores
<1>22. OneStep
  <2>1. SUFFICES ASSUME NEW j \in DOMAIN d, \A c \in ClaimsOf(run[r].fks) : AgreesWithItself(c),
                        \A l \in DOMAIN instrs : Carried(instrs[l]) \subseteq Carried(d[j]) => OneValue(instrs[l])
                 PROVE  OneValue(d[j])
    <3>1. run'[r] # run[r]
      BY <1>18, <1>19
    <3> QED
      BY <1>3, <3>1, Zenon DEF OneStep, Live
  <2>2. CASE j \in DOMAIN instrs /\ d[j] = instrs[j]
    BY <2>1, <2>2
  <2>3. CASE ~(j \in DOMAIN instrs /\ d[j] = instrs[j])
    <3>1. /\ t.instr \in {j, None}
          /\ (\A c \in ClaimsOf(run[r].fks) : AgreesWithItself(c)) /\ Ones(t) => OneValue(d[j])
      BY <2>1, <2>3, Zenon DEF KeepsOne
    <3>2. Ones(t)
      <4>1. SUFFICES ASSUME NEW l \in DOMAIN instrs, l \in t.gone \cup {t.instr} PROVE OneValue(instrs[l])
        BY DEF Ones
      <4>2. t.instr = j
        BY <1>6, <3>1, <4>1 DEF Merges
      <4>3. Carried(instrs[l]) \subseteq Carried(d[j])
        BY <4>1, <4>2 DEF Grows, Merges
      <4> QED
        BY <2>1, <4>3
    <3> QED
      BY <2>1, <3>1, <3>2
  <2> QED
    BY <2>2, <2>3
<1>23. UserStep
  BY <1>3, <1>11 DEF UserStep
<1>24. SoundRuns'
  <2>1. SoundRun(y)
    BY <1>18, NoElements DEF SoundRun
  <2> QED
    BY <1>19, <2>1 DEF IInv, SoundRuns
<1>25. RacesWriteOneInstrument'
  BY <1>14, <1>18, <1>19 DEF IInv, RacesWriteOneInstrument
<1>26. Distinct(instrs)'
  BY <1>3
<1> QED
  BY <1>12, <1>13, <1>21, <1>22, <1>23, <1>24, <1>25, <1>26 DEF IInv

(* A step that only moves its resolution, and adds facts of stored          *)
(* instruments, leaves the rest as it was.                                  *)
LEMMA MoveKeeps ==
    ASSUME IInv, NEW r \in Runs, NEW y, IsRun(y), run' = [run EXCEPT ![r] = y],
           UNCHANGED <<instrs, created, assoc, covered, enabled>>,
           \A f \in facts' : f \in facts \/ f[2] \in Live \cup {None},
           SoundRun(y), y.why # "collision"
    PROVE  IInv' /\ UserStep /\ OneStep
<1>1. /\ run' = [q \in Runs |-> run'[q]] /\ run'[r] = y
      /\ \A q \in Runs : q # r => run'[q] = run[q]
  BY DEF IInv, Shaped
<1>2. Shaped'
  BY <1>1 DEF IInv, Shaped
<1>3. OneStep
  BY DEF OneStep, Live
<1>4. NothingDangles'
  BY DEF IInv, NothingDangles, Live
<1>5. Numbered'
  BY DEF IInv, Numbered
<1>6. UserStep
  BY DEF UserStep
<1>7. SoundRuns'
  BY <1>1 DEF IInv, SoundRuns
<1>8. RacesWriteOneInstrument'
  BY <1>1 DEF IInv, RacesWriteOneInstrument
<1>9. Distinct(instrs)'
  BY DEF IInv
<1> QED
  BY <1>2, <1>3, <1>4, <1>5, <1>6, <1>7, <1>8, <1>9 DEF IInv

(* What remains of a resolution that ended. *)
LEMMA EndedIs ==
    ASSUME NEW r, NEW step, NEW why
    PROVE  /\ IsRun(Ended(r, step, why)) /\ Ended(r, step, why).step = step /\ Ended(r, step, why).why = why
           /\ step # "write" => SoundRun(Ended(r, step, why))
<1>1. PICK b : b = Idle
  OBVIOUS
<1>2. IsRun(b) /\ b.fks = <<>>
  BY <1>1 DEF Idle, IsRun
<1>3. PICK kind : kind = run[r].kind
  OBVIOUS
<1>4. PICK y : y = [b EXCEPT !.step = step, !.kind = kind, !.why = why]
  OBVIOUS
<1>5. y = Ended(r, step, why)
  BY <1>1, <1>3, <1>4, Zenon DEF Ended
<1>6. IsRun(y) /\ y.step = step /\ y.why = why /\ y.fks = <<>>
  BY <1>2, <1>4 DEF IsRun
<1>7. step # "write" => SoundRun(y)
  BY <1>6, NoElements DEF SoundRun
<1> QED
  BY <1>5, <1>6, <1>7

(* A transaction that fails writes nothing (tx.go, Tx). *)
LEMMA FailKeeps == ASSUME IInv, NEW r \in Runs, NEW why, why # "collision", Fail(r, why) PROVE IInv' /\ UserStep /\ OneStep
<1>1. PICK y : y = Ended(r, "failed", why)
  OBVIOUS
<1>2. IsRun(y) /\ y.step = "failed" /\ y.why = why /\ SoundRun(y)
  BY <1>1, EndedIs
<1>3. run' = [run EXCEPT ![r] = y] /\ facts' = facts /\ UNCHANGED <<instrs, created, assoc, covered, enabled>>
  BY <1>1 DEF Fail
<1> QED
  BY <1>2, <1>3, MoveKeeps

(* The key is associated through an identifier the instrument written       *)
(* carries, dated, or left, or the transaction fails (write.go,             *)
(* associateKey).                                                           *)
LEMMA AssociateKeeps ==
    ASSUME IInv, NEW r \in Runs, NEW key, NEW first, NEW d, NEW t, NEW i, NEW v, NEW attached, NEW choice,
           Merges(t), Grows(d, t), Stores(d, t, i), i \in DOMAIN d, i \in Instrs,
           run[r].step = "write", KeepsOne(ClaimsOf(run[r].fks), d, t),
           i \in DOMAIN instrs \/ i = Created, associate(r, key, first, d, t, i, v, attached, choice),
           CollisionOf(Collisions(d, i), first, attached) # "collision", Collisions(d, i) = {} => Distinct(d)
    PROVE  IInv' /\ UserStep /\ OneStep
<1>1. PICK k, via, arbiter :
         /\ k = run[r].key /\ via = identityVia(key, d[i])
         /\ arbiter = IF choice.claims # <<>> THEN "user" ELSE IF v.winner.fk = NoKey THEN "stated" ELSE "datasource"
  OBVIOUS
<1>2. ASSUME via # NoId PROVE via \in Carried(d[i])
  <2>1. PICK ids : ids = GlobalAndDescriptionIDs(key) \cap Carried(d[i])
    OBVIOUS
  <2>2. ids # {} /\ via = Strongest(ids)
    BY <1>1, <1>2, <2>1 DEF identityVia
  <2>3. via \in ids
    BY <2>2, StrongestIsIn
  <2> QED
    BY <2>1, <2>3
<1>3. \/ Fail(r, CollisionOf(Collisions(d, i), first, attached))
      \/ Fail(r, "no_candidate")
      \/ via \in Carried(d[i]) /\ Commit(r, d, t, SetFixed(assoc, k, i, via, arbiter), i, attached, "matched")
      \/ /\ choice.via \in Carried(d[i])
         /\ Commit(r, d, t, SetFixed(assoc, k, i, choice.via, arbiter), i, attached, "matched")
      \/ Commit(r, d, t, writeDated(assoc, k, run[r].dating, arbiter), i, attached, "matched")
      \/ Commit(r, d, t, assoc, i, attached, "unrecognised")
  BY <1>1, <1>2, Zenon DEF associate
<1>4. Shaped
  BY DEF IInv
<1>5. CASE Fail(r, CollisionOf(Collisions(d, i), first, attached)) \/ Fail(r, "no_candidate")
  BY <1>5, FailKeeps
<1>6. CASE Collisions(d, i) # {}
  <2>1. Fail(r, CollisionOf(Collisions(d, i), first, attached))
    BY <1>6, Zenon DEF associate
  <2> QED
    BY <2>1, FailKeeps
<1>7. SUFFICES ASSUME Distinct(d) PROVE IInv' /\ UserStep /\ OneStep
  BY <1>6
<1>8. CASE /\ via \in Carried(d[i])
           /\ Commit(r, d, t, SetFixed(assoc, k, i, via, arbiter), i, attached, "matched")
  <2>1. Reassociates(SetFixed(assoc, k, i, via, arbiter), d, i)
    BY <1>4, <1>8, Reassociated
  <2> QED
    BY <1>8, <1>7, <2>1, CommitKeeps
<1>9. CASE /\ choice.via \in Carried(d[i])
           /\ Commit(r, d, t, SetFixed(assoc, k, i, choice.via, arbiter), i, attached, "matched")
  <2>1. Reassociates(SetFixed(assoc, k, i, choice.via, arbiter), d, i)
    BY <1>4, <1>9, Reassociated
  <2> QED
    BY <1>9, <1>7, <2>1, CommitKeeps
<1>10. CASE Commit(r, d, t, writeDated(assoc, k, run[r].dating, arbiter), i, attached, "matched")
  <2>1. Reassociates(writeDated(assoc, k, run[r].dating, arbiter), d, i)
    BY <1>4, Reassociated
  <2> QED
    BY <1>10, <1>7, <2>1, CommitKeeps
<1>11. CASE Commit(r, d, t, assoc, i, attached, "unrecognised")
  <2>1. Reassociates(assoc, d, i)
    BY <1>4, Reassociated
  <2> QED
    BY <1>11, <1>7, <2>1, CommitKeeps
<1> QED
  BY <1>3, <1>5, <1>8, <1>9, <1>10, <1>11

(* A transaction that writes no instrument commits its merge alone          *)
(* (write.go, decide and writeDecision).                                    *)
LEMMA MergeAloneKeeps ==
    ASSUME IInv, NEW r \in Runs, run[r].step = "write", NEW t, Merges(t), NEW M,
           t.gone # {} => t.gone \cup {t.instr} \subseteq M /\ ~mergeConflict(instrs, M), NEW outcome,
           Commit(r, fold(instrs, t), t, assoc, None, <<>>, outcome)
    PROVE  IInv' /\ UserStep /\ OneStep
<1>1. (\A i \in DOMAIN instrs : Instr(instrs[i])) /\ Distinct(instrs)
  BY DEF IInv, Shaped
<1>2. PICK d : d = fold(instrs, t)
  OBVIOUS
<1>3. Grows(d, t) /\ DOMAIN d = DOMAIN instrs \ t.gone /\ \A i \in DOMAIN d : Instr(d[i])
  BY <1>1, <1>2, FoldKeeps
<1>4. Distinct(d) /\ (t.instr \in DOMAIN d /\ Ones(t) => OneValue(d[t.instr]))
  BY <1>1, <1>2, FoldOneValue
<1>5. Stores(d, t, None) /\ KeepsOne(ClaimsOf(run[r].fks), d, t)
  <2>1. Folded(d, t)
    BY <1>1, <1>2, FoldIs
  <2>2. \A j \in DOMAIN d : j # t.instr => j \in DOMAIN instrs /\ d[j] = instrs[j]
    BY <2>1, Zenon DEF Folded
  <2>3. Stores(d, t, None)
    BY <1>3 DEF Stores
  <2> QED
    BY <1>4, <2>2, <2>3 DEF KeepsOne
<1>6. Reassociates(assoc, d, None)
  BY DEF Reassociates
<1>7. Commit(r, d, t, assoc, None, <<>>, outcome)
  BY <1>2
<1> QED
  BY <1>3, <1>4, <1>5, <1>6, <1>7, CommitKeeps

(* The transaction of a resolution, whatever its answers and whichever      *)
(* instruments they lead to (write.go, decide).                             *)
LEMMA DecideKeeps ==
    ASSUME IInv, NEW r \in Runs, run[r].step = "write", NEW key, IsFiniteSet(key.ids),
           NEW choice, SoundSeq(ClaimsOf(run[r].fks), choice.claims),
           NEW first, first = choose(key, run[r].fks, NoClaim, choice.claims), decide(r, key, first, choice)
    PROVE  IInv' /\ UserStep /\ OneStep
<1>0. /\ DOMAIN instrs \subseteq Instrs /\ \A i \in DOMAIN instrs : Instr(instrs[i])
      /\ Numbered /\ Distinct(instrs)
  BY DEF IInv, Shaped, Numbered
<1>1. CASE first.refused
  BY <1>1, FailKeeps DEF decide
<1>2. CASE ~first.refused
  <2>1. PICK M : M = findInstrsByIdentifier(instrs, TargetIDs(key, first))
    OBVIOUS
  <2>2. PICK t : t = findWriteTarget(instrs, key, M)
    OBVIOUS
  <2>3. M \subseteq DOMAIN instrs
    BY <2>1 DEF findInstrsByIdentifier
  <2>4. Merges(t)
    BY <1>0, <2>2, <2>3, TargetStays
  <2>5. t.gone # {} => t.gone \cup {t.instr} \subseteq M /\ ~mergeConflict(instrs, M)
    BY <1>0, <2>2, <2>3, TargetCovers
  <2>6. PICK f : f = fold(instrs, t)
    OBVIOUS
  <2>7. /\ DOMAIN f = DOMAIN instrs \ t.gone /\ Distinct(f)
        /\ \A j \in DOMAIN f : Instr(f[j])
        /\ t.instr \in DOMAIN f /\ Ones(t) => OneValue(f[t.instr])
    <3>1. DOMAIN f = DOMAIN instrs \ t.gone /\ \A j \in DOMAIN f : Instr(f[j])
      BY <1>0, <2>4, <2>6, FoldKeeps
    <3>2. Distinct(f) /\ (t.instr \in DOMAIN f /\ Ones(t) => OneValue(f[t.instr]))
      BY <1>0, <2>4, <2>5, <2>6, FoldOneValue
    <3> QED
      BY <3>1, <3>2
  <2>8. PICK fks, Given : fks = run[r].fks /\ Given = ClaimsOf(run[r].fks)
    OBVIOUS
  <2>9. IsSeq(fks) /\ (\A n \in DOMAIN fks : SoundSeq(Given, claims(fks[n]))) /\ SoundSeq(Given, choice.claims)
    <3>1. SoundRun(run[r])
      BY DEF IInv, SoundRuns
    <3>2. IsSeq(fks) /\ \A n \in DOMAIN fks : IsFiniteSet(DOMAIN fks[n].listings)
      BY <2>8, <3>1 DEF SoundRun
    <3> QED
      BY <2>8, <3>2, AnswersSound
  <2>10. \A k : Agrees(Given, choose(key, fks, k, choice.claims), k)
    BY <2>9, ChooseAgrees
  <2>11. Agrees(Given, first, NoClaim)
    BY <2>8, <2>10
  <2>12. PICK v, known : /\ decideOn(r, key, first, f, t, v, choice) /\ Agrees(Given, v, known)
                         /\ t.instr # None => known = DbClaim(f[t.instr])
    <3>1. decideTarget(r, key, first, t, choice)
      BY <1>2, <2>1, <2>2, Zenon DEF decide
    <3>2. CASE t.instr = None
      <4>1. decideOn(r, key, first, f, t, first, choice)
        BY <2>6, <3>1, <3>2, Zenon DEF decideTarget
      <4> QED
        BY <2>11, <3>2, <4>1
    <3>3. CASE t.instr # None
      <4>1. PICK known : known = DbClaim(f[t.instr])
        OBVIOUS
      <4>2. decideOn(r, key, first, f, t, choose(key, fks, known, choice.claims), choice)
        BY <2>6, <2>8, <3>1, <3>3, <4>1, Zenon DEF decideTarget
      <4> QED
        BY <2>10, <4>1, <4>2
    <3> QED
      BY <3>2, <3>3
  <2>13. CASE Commit(r, f, t, assoc, None, <<>>, "unrecognised")
    BY <2>4, <2>5, <2>6, <2>13, MergeAloneKeeps
  <2>14. CASE Fail(r, "no_candidate")
    BY <2>14, FailKeeps
  <2>15. ASSUME NEW attached, attached = dropHeld(f, v.attached, first.winner, t.instr),
                writeDecision(r, key, first, f, t, v, attached, choice)
         PROVE  IInv' /\ UserStep /\ OneStep
    <3>1. CASE v.winner = NoClaim
      <4>1. Commit(r, f, t, assoc, None, <<>>, unresolved(run[r].fks))
        BY <2>15, <3>1 DEF writeDecision
      <4> QED
        BY <2>4, <2>5, <2>6, <4>1, MergeAloneKeeps
    <3>2. CASE v.winner # NoClaim
      <4>1. PICK i : i = Chosen(t)
        OBVIOUS
      <4>2. PICK w : w = attach(writeInstr(f, t, v), attached, t.taken)
        OBVIOUS
      <4>3. PICK d : d = [j \in DOMAIN f \cup {i} |-> IF j = i THEN w ELSE f[j]]
        OBVIOUS
      <4>4. i \in Instrs /\ associate(r, key, first, d, t, i, v, attached, choice)
        BY <2>15, <3>2, <4>1, <4>2, <4>3 DEF writeDecision, Chosen
      <4>5. DOMAIN d = DOMAIN f \cup {i} /\ d[i] = w /\ \A j \in DOMAIN f \ {i} : d[j] = f[j]
        BY <4>3
      <4>6. PICK P : attached = At(v.attached, P)
        BY <2>15, Zenon DEF dropHeld
      <4>7. /\ Instr(w) /\ (i \in DOMAIN f => f[i].ids \subseteq w.ids)
            /\ (\A c \in Given : AgreesWithItself(c)) /\ Ones(t) => OneValue(w)
            /\ \A id \in Carried(w) :
                  \/ i \in DOMAIN f /\ id \in Carried(f[i])
                  \/ id \notin t.taken /\ \E n \in DOMAIN attached : id \in LookupIDs(AllIDs(attached[n]))
        <5>1. AfterMerge(f, t)
          BY <2>7 DEF AfterMerge
        <5>2. Written(Given, f, t, attached, w)
          BY <1>0, <2>4, <2>12, <4>2, <4>6, <5>1, WrittenKeeps
        <5> QED
          BY <4>1, <5>2 DEF Written
      <4>8. Grows(d, t) /\ Stores(d, t, i) /\ KeepsOne(Given, d, t)
        BY <1>0, <2>4, <2>6, <2>7, <4>1, <4>5, <4>7, WriteKeeps
      <4>9. /\ CollisionOf(Collisions(d, i), first, attached) # "collision"
            /\ Collisions(d, i) = {} => Distinct(d)
        <5>1. IsSeq(first.attached) /\ IsSeq(v.attached)
          BY <2>11, <2>12 DEF Agrees, SoundSeq
        <5>2. Numbered /\ Distinct(instrs) /\ \A j \in DOMAIN instrs : Instr(instrs[j])
          BY <1>0
        <5>3. Distinct(f) /\ attached = dropHeld(f, v.attached, first.winner, t.instr)
          BY <2>7, <2>15
        <5>4. \A id \in Carried(w) :
                \/ i \in DOMAIN f /\ id \in Carried(f[i])
                \/ id \notin t.taken /\ \E n \in DOMAIN attached : id \in LookupIDs(AllIDs(attached[n]))
          BY <4>7
        <5> QED
          BY <2>1, <2>2, <2>4, <2>6, <4>1, <4>5, <5>1, <5>2, <5>3, <5>4, CollidesLate, SMTT(60)
      <4>10. i \in DOMAIN d /\ (i \in DOMAIN instrs \/ i = Created)
        BY <2>4, <4>1, <4>3 DEF Merges, Chosen
      <4> QED
        BY <2>4, <2>8, <4>4, <4>8, <4>9, <4>10, AssociateKeeps
    <3> QED
      BY <3>1, <3>2
  <2> QED
    BY <2>12, <2>13, <2>14, <2>15, Zenon DEF decideOn
<1> QED
  BY <1>1, <1>2

(* A resolution's transaction is on a stated key, with the answers it holds. *)
LEMMA RunReads ==
    ASSUME IInv, NEW r \in Runs, run[r].step = "write", NEW key, key = Key[run[r].key]
    PROVE  /\ IsFiniteSet(key.ids) /\ IsSeq(run[r].fks)
           /\ \A n \in DOMAIN run[r].fks : SoundSeq(ClaimsOf(run[r].fks), claims(run[r].fks[n]))
<1>1. SoundRun(run[r])
  BY DEF IInv, SoundRuns
<1>2. IsFiniteSet(key.ids)
  BY <1>1, KeysAssumption DEF SoundRun
<1>3. PICK fks : fks = run[r].fks
  OBVIOUS
<1>4. IsSeq(fks) /\ \A n \in DOMAIN fks : IsFiniteSet(DOMAIN fks[n].listings)
  BY <1>1, <1>3 DEF SoundRun
<1> QED
  BY <1>2, <1>3, <1>4, AnswersSound

-----------------------------------------------------------------------------
(* The other steps *)

(* The answers to the datasources asked are answers of theirs (identity.go,  *)
(* fetchResolutionIdentities).                                               *)
LEMMA FetchedSound ==
    ASSUME NEW k \in Keys, NEW P, NEW fks \in fetchResolutionIdentities(At(Sources, P), k)
    PROVE  IsSeq(fks) /\ \A n \in DOMAIN fks : IsFiniteSet(DOMAIN fks[n].listings)
<1>1. PICK asked : asked = At(Sources, P)
  OBVIOUS
<1>2. IsSeq(Sources)
  BY SourcesAssumption DEF IsSeq
<1>3. IsSeq(asked) /\ \A n \in DOMAIN asked : \E m \in P \cap DOMAIN Sources : asked[n] = Sources[m]
  BY <1>1, <1>2, AtIs
<1>4. PICK A : A = UNION {Answers[k][s] : s \in Range(asked)}
  OBVIOUS
<1>5. fks \in [DOMAIN asked -> A]
  BY <1>1, <1>4, Zenon DEF fetchResolutionIdentities
<1>6. PICK N \in Nat : DOMAIN asked = 1..N
  BY <1>3 DEF IsSeq
<1>7. IsSeq(fks)
  BY <1>5, <1>6 DEF IsSeq
<1>8. ASSUME NEW n \in DOMAIN fks PROVE IsFiniteSet(DOMAIN fks[n].listings)
  <2>1. fks[n] \in A
    BY <1>5, <1>8
  <2>2. PICK s \in Range(asked) : fks[n] \in Answers[k][s]
    BY <1>4, <2>1
  <2>3. s \in Range(Sources)
    BY <1>3, <2>2 DEF Range
  <2>4. PICK fk : fk = fks[n]
    OBVIOUS
  <2>5. IsFiniteSet(DOMAIN fk.listings)
    BY <2>2, <2>3, <2>4, AnswersAssumption
  <2> QED
    BY <2>4, <2>5
<1> QED
  BY <1>7, <1>8

(* A resolution that begins writes nothing (resolve.go, prepare). *)
LEMMA PrepareKeeps ==
    ASSUME IInv, NEW r \in Runs, NEW kind, NEW k \in Keys, NEW pick, prepare(r, kind, k, pick)
    PROVE  IInv' /\ UserStep /\ OneStep
<1>1. PICK p, fks :
         /\ fks \in fetchResolutionIdentities(Asked(p), k)
         /\ run' = [run EXCEPT ![r] = [Idle EXCEPT !.step = "write", !.kind = kind, !.key = k, !.pick = pick, !.fks = fks,
                                         !.outcome = p.outcome, !.dating = p.dating, !.fromFacts = p.fromFacts]]
  BY Zenon DEF prepare
<1>2. PICK b : b = Idle
  OBVIOUS
<1>3. IsRun(b) /\ b.why = "none"
  BY <1>2 DEF Idle, IsRun
<1>4. PICK y : y = [b EXCEPT !.step = "write", !.kind = kind, !.key = k, !.pick = pick, !.fks = fks,
                             !.outcome = p.outcome, !.dating = p.dating, !.fromFacts = p.fromFacts]
  OBVIOUS
<1>5. run' = [run EXCEPT ![r] = y]
  BY <1>1, <1>2, <1>4, Zenon
<1>6. IsRun(y) /\ y.step = "write" /\ y.why = "none" /\ y.fks = fks /\ y.key = k
  BY <1>3, <1>4 DEF IsRun
<1>7. UNCHANGED <<instrs, created, assoc, covered, enabled>> /\ facts' = facts
  BY Zenon DEF prepare
<1>8. SoundRun(y)
  <2>1. PICK P : fks \in fetchResolutionIdentities(At(Sources, P), k)
    BY <1>1, Zenon DEF Asked
  <2>2. IsSeq(fks) /\ \A n \in DOMAIN fks : IsFiniteSet(DOMAIN fks[n].listings)
    BY <2>1, FetchedSound
  <2> QED
    BY <1>6, <2>2 DEF SoundRun
<1> QED
  BY <1>5, <1>6, <1>7, <1>8, MoveKeeps

(* A reassertion that begins writes nothing (reassert_tickers.go, readHeld). *)
LEMMA StartReassertKeeps ==
    ASSUME IInv, NEW r \in Runs, StartReassert(r)
    PROVE  IInv' /\ UserStep /\ OneStep
<1>1. PICK k, P, fks, t, i, ids :
         /\ k \in Keys
         /\ fks \in fetchResolutionIdentities(At(Sources, P), k)
         /\ run' = [run EXCEPT ![r] = [Idle EXCEPT !.step = "write", !.kind = "reassert", !.key = k, !.fks = fks,
                                         !.dating = t, !.held = i, !.heldIDs = ids]]
  <2>1. PICK k \in Keys, i \in Live \cup {None} :
           \E fks \in fetchResolutionIdentities(At(Sources, {n \in DOMAIN Sources : Sources[n] \in enabled}), k) :
             run' = [run EXCEPT ![r] = [Idle EXCEPT !.step = "write", !.kind = "reassert", !.key = k, !.fks = fks,
                                           !.dating = assoc[k].ticker, !.held = i,
                                           !.heldIDs = IF i = None THEN {} ELSE Carried(instrs[i])]]
    BY Zenon DEF StartReassert
  <2>2. PICK P, fks, t, ids :
           /\ P = {n \in DOMAIN Sources : Sources[n] \in enabled}
           /\ fks \in fetchResolutionIdentities(At(Sources, P), k)
           /\ t = assoc[k].ticker /\ ids = IF i = None THEN {} ELSE Carried(instrs[i])
           /\ run' = [run EXCEPT ![r] = [Idle EXCEPT !.step = "write", !.kind = "reassert", !.key = k, !.fks = fks,
                                              !.dating = assoc[k].ticker, !.held = i,
                                              !.heldIDs = IF i = None THEN {} ELSE Carried(instrs[i])]]
    BY <2>1, Zenon
  <2> QED
    BY <2>2, Zenon
<1>2. PICK b : b = Idle
  OBVIOUS
<1>3. IsRun(b) /\ b.why = "none"
  BY <1>2 DEF Idle, IsRun
<1>4. PICK y : y = [b EXCEPT !.step = "write", !.kind = "reassert", !.key = k, !.fks = fks,
                             !.dating = t, !.held = i, !.heldIDs = ids]
  OBVIOUS
<1>5. run' = [run EXCEPT ![r] = y]
  BY <1>1, <1>2, <1>4, Zenon
<1>6. IsRun(y) /\ y.step = "write" /\ y.why = "none" /\ y.fks = fks /\ y.key = k
  BY <1>3, <1>4 DEF IsRun
<1>7. UNCHANGED <<instrs, created, assoc, covered, enabled>> /\ facts' = facts
  BY Zenon DEF StartReassert
<1>8. SoundRun(y)
  <2>1. IsSeq(fks) /\ \A n \in DOMAIN fks : IsFiniteSet(DOMAIN fks[n].listings)
    BY <1>1, FetchedSound
  <2> QED
    BY <1>1, <1>6, <2>1 DEF SoundRun
<1> QED
  BY <1>5, <1>6, <1>7, <1>8, MoveKeeps

(* A key the database settled is at most dated, and not if the user         *)
(* arbitrated it meanwhile (write.go, write).                               *)
LEMMA WriteSettledKeeps ==
    ASSUME IInv, NEW r \in Runs, WriteSettled(r)
    PROVE  IInv' /\ UserStep /\ OneStep
<1>1. \/ assoc' = writeDated(assoc, run[r].key, run[r].dating, "stated")
      \/ assoc' = assoc
  BY DEF WriteSettled
<1>2. UNCHANGED <<instrs, created, covered, facts, enabled>>
  BY DEF WriteSettled
<1>3. Shaped
  BY DEF IInv
<1>4. Reassociates(assoc', instrs, None)
  BY <1>1, <1>3, Reassociated
<1>5. assoc' = [k \in Keys |-> assoc'[k]]
  BY <1>1, <1>3 DEF writeDated, SetAssociation, Shaped
<1>6. ASSUME NEW k \in Keys
      PROVE  /\ IsAssociation(assoc'[k])
             /\ assoc'[k].instr # None =>
                   assoc'[k].instr \in DOMAIN instrs /\ assoc'[k].via \in Carried(instrs[assoc'[k].instr])
             /\ assoc[k].arbiter = "user" => assoc'[k] = assoc[k]
  BY <1>4 DEF Reassociates, IInv, Shaped, NothingDangles, Live
<1>7. PICK x : x = run[r]
  OBVIOUS
<1>8. PICK y : y = [x EXCEPT !.step = "record", !.fks = <<>>]
  OBVIOUS
<1>9. run' = [run EXCEPT ![r] = y]
  BY <1>7, <1>8 DEF WriteSettled, IInv, Shaped
<1>10. IsRun(y) /\ y.step = "record" /\ y.fks = <<>> /\ y.why = x.why
  <2>1. IsRun(x)
    BY <1>7 DEF IInv, Shaped
  <2> QED
    BY <1>8, <2>1 DEF IsRun
<1>11. /\ run' = [q \in Runs |-> run'[q]] /\ run'[r] = y
       /\ \A q \in Runs : q # r => run'[q] = run[q]
  BY <1>9 DEF IInv, Shaped
<1>12. Shaped'
  BY <1>2, <1>5, <1>6, <1>10, <1>11 DEF IInv, Shaped
<1>13. OneStep
  BY <1>2 DEF OneStep, Live
<1>14. NothingDangles'
  BY <1>2, <1>6 DEF IInv, NothingDangles, Live
<1>15. Numbered'
  BY <1>2 DEF IInv, Numbered
<1>16. UserStep
  BY <1>6 DEF UserStep
<1>17. SoundRuns'
  <2>1. SoundRun(y)
    BY <1>10, NoElements DEF SoundRun
  <2> QED
    BY <1>11, <2>1 DEF IInv, SoundRuns
<1>18. RacesWriteOneInstrument'
  BY <1>7, <1>10, <1>11 DEF IInv, RacesWriteOneInstrument
<1>19. Distinct(instrs)'
  BY <1>2 DEF IInv
<1> QED
  BY <1>12, <1>13, <1>14, <1>15, <1>16, <1>17, <1>18, <1>19 DEF IInv

(* A confirmation is the transaction of a resolution with the user's        *)
(* choice, or fails (candidate.go, Confirm).                                *)
LEMMA WriteConfirmedKeeps ==
    ASSUME IInv, NEW r \in Runs, WriteConfirmed(r)
    PROVE  IInv' /\ UserStep /\ OneStep
<1>1. PICK key, choice : key = Key[run[r].key] /\ choice = findUserChoice(Alternatives(key, run[r].fks), run[r].pick)
  OBVIOUS
<1>2. run[r].step = "write"
  BY DEF WriteConfirmed
<1>3. \/ Fail(r, "no_candidate")
      \/ decide(r, key, choose(key, run[r].fks, NoClaim, choice.claims), choice)
  BY <1>1, Zenon DEF WriteConfirmed, Confirm
<1>4. IsFiniteSet(key.ids) /\ SoundSeq(ClaimsOf(run[r].fks), choice.claims)
  <2>1. PICK fks, pick, Given : fks = run[r].fks /\ pick = run[r].pick /\ Given = ClaimsOf(run[r].fks)
    OBVIOUS
  <2>2. IsFiniteSet(key.ids) /\ IsSeq(fks) /\ \A n \in DOMAIN fks : SoundSeq(Given, claims(fks[n]))
    BY <1>1, <1>2, <2>1, RunReads
  <2>3. choice = findUserChoice(Alternatives(key, fks), pick)
    BY <1>1, <2>1
  <2> QED
    BY <2>1, <2>2, <2>3, UserChoiceSound
<1> QED
  BY <1>2, <1>3, <1>4, FailKeeps, DecideKeeps

(* A reassertion names stored instruments or nothing, or fails              *)
(* (reassert_tickers.go, ReassertTickers).                                  *)
LEMMA WriteReassertedKeeps ==
    ASSUME IInv, NEW r \in Runs, WriteReasserted(r)
    PROVE  IInv' /\ UserStep /\ OneStep
<1>1. CASE Fail(r, "merged_away")
  BY <1>1, FailKeeps
<1>2. CASE ~Fail(r, "merged_away")
  <2>1. PICK new :
          /\ new \subseteq Live \cup {None}
          /\ facts' = facts \cup {<<run[r].dating, i>> : i \in new}
          /\ run' = [run EXCEPT ![r] = Ended(r, "done", "none")]
          /\ UNCHANGED <<instrs, created, assoc, covered, enabled>>
    <3>1. PICK new : new = UNION {assertHeld(run[r].fks[n], run[r].dating, run[r].held, run[r].heldIDs) :
                                    n \in DOMAIN run[r].fks}
      OBVIOUS
    <3>2. IF new \subseteq Live \cup {None}
          THEN /\ facts' = facts \cup {<<run[r].dating, i>> : i \in new}
               /\ run' = [run EXCEPT ![r] = Ended(r, "done", "none")]
               /\ UNCHANGED <<instrs, created, assoc, covered, enabled, started, offers>>
          ELSE Fail(r, "merged_away")
      BY <3>1, Zenon DEF WriteReasserted
    <3> QED
      BY <1>2, <3>2
  <2>2. PICK y : y = Ended(r, "done", "none")
    OBVIOUS
  <2>3. IsRun(y) /\ y.why = "none" /\ SoundRun(y)
    BY <2>2, EndedIs
  <2>4. \A f \in facts' : f \in facts \/ f[2] \in Live \cup {None}
    BY <2>1
  <2>5. run' = [run EXCEPT ![r] = y]
    BY <2>1, <2>2
  <2> QED
    BY <2>1, <2>3, <2>4, <2>5, MoveKeeps
<1> QED
  BY <1>1, <1>2

(* When a run ends, the facts recorded name stored instruments or nothing,  *)
(* whether or not the recording fails (dated.go, recordIdentifierFacts).    *)
LEMMA RecordKeeps ==
    ASSUME IInv, NEW r \in Runs, recordIdentifierFacts(r)
    PROVE  IInv' /\ UserStep /\ OneStep
<1>1. PICK step, why : run' = [run EXCEPT ![r] = Ended(r, step, why)] /\ step # "write" /\ why # "collision"
  BY Zenon DEF recordIdentifierFacts
<1>2. PICK y : y = Ended(r, step, why)
  OBVIOUS
<1>3. IsRun(y) /\ y.why = why /\ SoundRun(y)
  BY <1>1, <1>2, EndedIs
<1>4. PICK new : new \subseteq Live \cup {None} /\ facts' = facts \cup {<<run[r].dating, i>> : i \in new}
  <2>1. PICK new \in {{}} \cup (IF run[r].dating = NoTicker THEN {} ELSE {{i} : i \in Live \cup {None}}) :
          facts' = facts \cup {<<run[r].dating, i>> : i \in new}
    BY Zenon DEF recordIdentifierFacts
  <2>2. new \subseteq Live \cup {None}
    OBVIOUS
  <2> QED
    BY <2>1, <2>2
<1>5. \A f \in facts' : f \in facts \/ f[2] \in Live \cup {None}
  BY <1>4
<1>6. run' = [run EXCEPT ![r] = y]
  BY <1>1, <1>2
<1>7. UNCHANGED <<instrs, created, assoc, covered, enabled>>
  BY DEF recordIdentifierFacts
<1> QED
  BY <1>1, <1>3, <1>5, <1>6, <1>7, MoveKeeps

(* Every step keeps the invariant, leaves a user's choice standing, and     *)
(* gives no instrument two values.                                         *)
LEMMA NextKeeps == ASSUME IInv, [Next]_vars PROVE IInv' /\ UserStep /\ OneStep
<1>1. ASSUME UNCHANGED vars PROVE IInv' /\ UserStep /\ OneStep
  BY <1>1 DEF vars, IInv, Shaped, Numbered, NothingDangles, Live, UserStep,
              OneStep, SoundRuns, RacesWriteOneInstrument
<1>2. ASSUME Disable PROVE IInv' /\ UserStep /\ OneStep
  <2>1. UNCHANGED <<instrs, created, assoc, covered, facts, run>> /\ enabled' \subseteq enabled
    BY <1>2 DEF Disable
  <2> QED
    BY <2>1 DEF IInv, Shaped, Numbered, NothingDangles, Live, UserStep,
                OneStep, SoundRuns, RacesWriteOneInstrument
<1>3. ASSUME NEW r \in Runs, StartResolve(r) \/ StartCandidates(r) \/ StartConfirm(r) PROVE IInv' /\ UserStep /\ OneStep
  <2>1. \E kind, pick : \E k \in Keys : prepare(r, kind, k, pick)
    BY <1>3, Zenon DEF StartResolve, StartCandidates, StartConfirm
  <2> QED
    BY <2>1, PrepareKeeps
<1>4. ASSUME NEW r \in Runs, WriteResolved(r) PROVE IInv' /\ UserStep /\ OneStep
  <2>1. PICK key, choice : key = Key[run[r].key] /\ choice = NoChoice
    OBVIOUS
  <2>2. choice.claims = <<>> /\ SoundSeq(ClaimsOf(run[r].fks), <<>>)
    BY <2>1, NoElements DEF NoChoice, SoundSeq
  <2>3. run[r].step = "write" /\ decide(r, key, choose(key, run[r].fks, NoClaim, <<>>), choice)
    BY <1>4, <2>1, Zenon DEF WriteResolved
  <2>4. IsFiniteSet(key.ids)
    BY <1>4, <2>1, <2>3, RunReads
  <2> QED
    BY <1>4, <2>2, <2>3, <2>4, DecideKeeps
<1>5. ASSUME NEW r \in Runs, ShowCandidates(r) PROVE IInv' /\ UserStep /\ OneStep
  <2>1. PICK y : y = Ended(r, "done", "none")
    OBVIOUS
  <2>2. IsRun(y) /\ y.why = "none" /\ SoundRun(y)
    BY <2>1, EndedIs
  <2>3. run' = [run EXCEPT ![r] = y] /\ facts' = facts /\ UNCHANGED <<instrs, created, assoc, covered, enabled>>
    BY <1>5, <2>1 DEF ShowCandidates
  <2> QED
    BY <2>2, <2>3, MoveKeeps
<1> QED
  BY <1>1, <1>2, <1>3, <1>4, <1>5, StartReassertKeeps, WriteSettledKeeps, WriteConfirmedKeeps,
     WriteReassertedKeeps, RecordKeeps DEF Next

-----------------------------------------------------------------------------
(* Theorems *)

(* IInv holds in every state, whatever resolutions, confirmations and       *)
(* reassertions overlap and whichever merges they make.                     *)
THEOREM ResolveInductive == Spec => []IInv
<1>1. Init => IInv
  <2> SUFFICES ASSUME Init PROVE IInv
    OBVIOUS
  <2> USE InstrsAssumption DEF Init
  <2>1. Shaped
    <3>1. PICK b : b = Idle
      OBVIOUS
    <3>2. IsRun(b)
      BY <3>1 DEF Idle, IsRun
    <3>3. IsAssociation(Unassociated)
      BY DEF Unassociated, IsAssociation
    <3> QED
      BY <3>1, <3>2, <3>3 DEF Shaped
  <2>2. Numbered
    BY DEF Numbered, Instrs
  <2>3. NothingDangles
    BY DEF NothingDangles, Unassociated
  <2>5. SoundRuns /\ RacesWriteOneInstrument
    <3>1. PICK b : b = Idle
      OBVIOUS
    <3>2. b.step = "idle" /\ b.why = "none" /\ b.fks = <<>>
      BY <3>1 DEF Idle
    <3>3. SoundRun(b)
      BY <3>2, NoElements DEF SoundRun
    <3> QED
      BY <3>1, <3>2, <3>3 DEF SoundRuns, RacesWriteOneInstrument
  <2>6. Distinct(instrs)
    BY DEF Distinct
  <2> QED
    BY <2>1, <2>2, <2>3, <2>5, <2>6 DEF IInv
<1>2. IInv /\ [Next]_vars => IInv'
  BY NextKeeps
<1> QED
  BY <1>1, <1>2, PTL DEF Spec

(* Resolutions that race for one identifier write one instrument: no write   *)
(* fails on the unique index for an identifier it looked up (resolve.go,     *)
(* Resolve; target.go, findWriteTarget and dropHeld).                        *)
THEOREM RacesAreWon == Spec => []RacesWriteOneInstrument
<1>1. IInv => RacesWriteOneInstrument
  BY DEF IInv
<1> QED
  BY <1>1, ResolveInductive, PTL

(* After every merge, what refers to an instrument refers to a stored one,  *)
(* and a fixed key's instrument carries the identifier it is associated     *)
(* through (merge.go, fold; writer.go, associate).                          *)
THEOREM ReferencesAreKept == Spec => []NothingDangles
<1>1. IInv => NothingDangles
  BY DEF IInv
<1> QED
  BY <1>1, ResolveInductive, PTL

(* No step changes an association the user confirmed, but a merge that      *)
(* moves it to the survivor (txns.sql, the guard of both association        *)
(* updates).                                                                *)
THEOREM UserChoicesStand == Spec => UserChoiceStands
<1>1. IInv /\ [Next]_vars => [UserStep]_vars
  BY NextKeeps
<1>2. [UserStep]_vars => [\A k \in Keys : assoc[k].arbiter = "user" =>
          \/ assoc'[k] = assoc[k]
          \/ /\ assoc[k].instr \notin DOMAIN instrs'
             /\ assoc'[k] = [assoc[k] EXCEPT !.instr = assoc'[k].instr]]_vars
  BY Zenon DEF UserStep
<1> QED
  BY <1>1, <1>2, ResolveInductive, PTL DEF Spec, UserChoiceStands

(* A write by itself, whatever it merges and whatever changed in the        *)
(* database since its answers came, gives no instrument two values of an    *)
(* exclusive type, where the instruments it is made of had no two and no    *)
(* claim of the answers carries two (choose.go, rejects; merge.go,          *)
(* mergeConflict).                                                          *)
THEOREM WritesAgree == Spec => WritesKeepOneValue
<1>1. IInv /\ [Next]_vars => [OneStep]_vars
  BY NextKeeps
<1>2. [OneStep]_vars => [\A i \in DOMAIN instrs' :
          /\ \A r \in Runs : run'[r] # run[r] => \A c \in ClaimsOf(run[r].fks) : AgreesWithItself(c)
          /\ \A j \in Live : Carried(instrs[j]) \subseteq Carried(instrs'[i]) => OneValue(instrs[j])
          => OneValue(instrs'[i])]_vars
  BY Zenon DEF OneStep
<1> QED
  BY <1>1, <1>2, ResolveInductive, PTL DEF Spec, WritesKeepOneValue
=============================================================================
