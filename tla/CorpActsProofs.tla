--------------------------- MODULE CorpActsProofs ---------------------------
(***************************************************************************)
(* Proofs about CorpActs, for every set of users, statements, tickers,     *)
(* sources, reports and fetches: what is stored for a ticker is what its   *)
(* source answered last, a listing marks a holding adjusted only over days *)
(* that are known or whose answer was Torn, and what may turn it           *)
(* provisional again.                                                      *)
(*                                                                         *)
(* Neither invariant needs a long strengthening: the stored answer is      *)
(* compared with the moment of the one that is recorded, in the same       *)
(* transaction, and a listing's actions with the coverage now stored.      *)
(* That no fetch shortens what another one covered does: a request is      *)
(* chosen long before its answer is recorded, and the answer may be one    *)
(* that the cache gave to a request of an earlier day.  So the invariant   *)
(* also says how far back each request that waits reaches, and which       *)
(* request each answer that waits belongs to.                              *)
(***************************************************************************)
EXTENDS CorpActs, FiniteSetTheorems, SequenceTheorems, WellFoundedInduction, TLAPS

Txns == [user : Users, key : Instrs \cup Tickers, asAt : Days]

Reqs == [ticker : Tickers, period : SUBSET Int, users : SUBSET Users]

Seens == [txns : SUBSET Txns, validity : Namings, today : Days]

Parts == [reqs : SUBSET Reqs, seen : Seens]

(* The instrument that transaction x named in what was seen. *)
SeenInstr(seen, x) == IF x.key \in Tickers THEN seen.validity[x.key][x.asAt] ELSE x.key

(* A request ends on the day it was chosen. *)
EndsThen(q, seen) == \A d \in q.period : d <= seen.today

(* It reaches back to every transaction of an instrument that its ticker   *)
(* named since.                                                            *)
ReachesBack(q, seen) ==
    \A x \in seen.txns, d \in Days :
        /\ SeenInstr(seen, x) # None
        /\ MarketOf[q.ticker] = Home[SeenInstr(seen, x)]
        /\ seen.validity[q.ticker][d] = SeenInstr(seen, x)
        /\ x.asAt < d
        /\ d <= seen.today
        => d \in q.period

PartOK(p) ==
    /\ IsFiniteSet(p.reqs)
    /\ \A q \in p.reqs : EndsThen(q, p.seen) /\ ReachesBack(q, p.seen)

(* The parts that a fetch may hold on day `day`. *)
GoodParts(day) == {p \in Parts : p.seen.today <= day /\ PartOK(p)}

(* An answer covers the period it was asked for or nothing, and no day     *)
(* after the one on which it was given.                                    *)
CallOK(k) ==
    /\ k.coverage \in {{}, k.period}
    /\ \A d \in k.coverage : d <= k.day
    /\ IsFiniteSet(k.acts)

FetchSet == [parts : Seq(GoodParts(today)), fresh : BOOLEAN, keys : (SUBSET calls) \cup {None}]

BaseTyped ==
    /\ today \in Days
    /\ txns \in SUBSET Txns
    /\ validity \in Namings
    /\ source \in [Markets -> Sources \cup {None}]
    /\ enabled \in SUBSET Sources

StoreTyped ==
    /\ calls \in SUBSET Given
    /\ IsFiniteSet(calls)
    /\ answers \in [Sources \X Tickers -> Answers \cup {None}]
    /\ told \in [Sources \X Tickers -> calls \cup {None}]

RowsFinite == \A c \in Sources \X Tickers : answers[c] # None => IsFiniteSet(answers[c].rows)

StoreOK ==
    /\ StoreTyped
    /\ \A k \in calls : CallOK(k)
    /\ RowsFinite
    /\ LatestAnswerStands

(* Every answer that waits to be recorded is one to a request of the       *)
(* fetch's part.                                                           *)
KeysAnswer(x) ==
    x.keys # None =>
        \A k \in x.keys :
            /\ x.parts # <<>>
            /\ \E q \in Head(x.parts).reqs : q.ticker = k.ticker /\ q.period = k.period

FetchesOK ==
    /\ fetches \in [Fetches -> FetchSet]
    /\ \A f \in Fetches : KeysAnswer(fetches[f])

(* A listing is a record, and the days it read are days. *)
ListOK ==
    /\ list = [step |-> list.step, holds |-> list.holds, naming |-> list.naming, read |-> list.read]
    /\ \A h \in list.holds : h.asAt \in Days

(* The inductive invariant. *)
IInv == BaseTyped /\ StoreOK /\ FetchesOK /\ ListOK

-----------------------------------------------------------------------------
(* Numbers and finite sets *)

\* Min, of a set of days, is the first of them (heldFrom and requests take it).
LEMMA MinIsLeast == ASSUME NEW T \in SUBSET Nat, T # {}
                    PROVE  Min(T) \in T /\ \A n \in T : Min(T) <= n
<1>1. PICK x \in T : \A y \in T : ~(<<y, x>> \in OpToRel(<, Nat)) BY NatLessThanWellFounded, WFMin
<1>2. ASSUME NEW y \in T PROVE x <= y
  <2>1. y \in Nat /\ x \in Nat OBVIOUS
  <2>2. ASSUME y < x PROVE <<y, x>> \in OpToRel(<, Nat) BY <2>1, <2>2 DEF OpToRel
  <2>3. ~(y < x) BY <1>1, <2>2, Zenon
  <2> QED BY <2>1, <2>3
<1> QED BY <1>2 DEF Min

\* The image of a finite set is finite.
LEMMA FiniteImage ==
  ASSUME NEW S, NEW T, NEW g \in [S -> T], IsFiniteSet(S), \A y \in T : \E x \in S : g[x] = y
  PROVE  IsFiniteSet(T)
<1>1. g \in Surjection(S, T) BY DEF Surjection
<1> QED BY <1>1, FS_Surjection

-----------------------------------------------------------------------------
(* Recording an answer *)

\* Judging an answer's actions leaves as many, and they are actions (judged).
LEMMA JudgedActs ==
  ASSUME NEW acts \in SUBSET Acts
  PROVE  judged(acts) \in SUBSET Acts /\ (IsFiniteSet(acts) => IsFiniteSet(judged(acts)))
<1> DEFINE j(a) == [a EXCEPT !.handled = @ /\ restatesShares(a.ratio)]
           g == [a \in acts |-> j(a)]
<1>1. ASSUME NEW a \in acts PROVE j(a) \in Acts
  <2>1. (a.handled /\ restatesShares(a.ratio)) \in BOOLEAN OBVIOUS
  <2>2. ASSUME NEW b \in BOOLEAN PROVE [a EXCEPT !.handled = b] \in Acts BY DEF Acts
  <2> QED BY <2>1, <2>2, Zenon
<1>2. judged(acts) = {j(a) : a \in acts} BY DEF judged
<1> HIDE DEF j
<1>3. g \in [acts -> judged(acts)] /\ \A y \in judged(acts) : \E x \in acts : g[x] = y BY <1>2
<1>4. judged(acts) \in SUBSET Acts BY <1>1, <1>2
<1> HIDE DEF g
<1> QED BY <1>3, <1>4, FiniteImage

FindingsOK(rows) == \A r \in rows : (r.finding = "open") = (r.decision = None /\ ~r.handled)

\* Merging an answer leaves exactly its actions, keeps the findings in step and
\* stays finite (merge).
LEMMA MergeActs ==
  ASSUME NEW rows \in SUBSET Rows, NEW acts \in SUBSET Acts, FindingsOK(rows)
  PROVE  /\ merge(rows, acts) \in SUBSET Rows
         /\ {Stored(r) : r \in merge(rows, acts)} = acts
         /\ FindingsOK(merge(rows, acts))
         /\ (IsFiniteSet(rows) /\ IsFiniteSet(acts)) => IsFiniteSet(merge(rows, acts))
<1> DEFINE row(a) == [ex |-> a.ex, ratio |-> a.ratio, handled |-> a.handled, decision |-> None,
                      finding |-> IF a.handled THEN "none" ELSE "open"]
           kept == {r \in rows : Stored(r) \in acts}
           added == acts \ {Stored(r) : r \in rows}
           new == {row(a) : a \in added}
           g == [a \in added |-> row(a)]
<1>1. merge(rows, acts) = kept \cup new BY DEF merge
<1>2. ASSUME NEW a \in acts
      PROVE  /\ row(a) \in Rows /\ Stored(row(a)) = a
             /\ (row(a).finding = "open") = (row(a).decision = None /\ ~row(a).handled)
  BY DEF Acts, Rows, Stored
<1> HIDE DEF row
<1>3. new \in SUBSET Rows /\ {Stored(r) : r \in new} = added /\ FindingsOK(new) BY <1>2 DEF FindingsOK
<1>4. kept \in SUBSET Rows /\ {Stored(r) : r \in kept} = acts \cap {Stored(r) : r \in rows} /\ FindingsOK(kept)
  BY DEF FindingsOK
<1>5. g \in [added -> new] /\ \A y \in new : \E x \in added : g[x] = y OBVIOUS
<1>6. kept \subseteq rows /\ added \subseteq acts OBVIOUS
<1> HIDE DEF kept, new, g
<1>7. {Stored(r) : r \in kept \cup new} = acts BY <1>3, <1>4
<1> HIDE DEF added
<1>8. ASSUME IsFiniteSet(rows), IsFiniteSet(acts) PROVE IsFiniteSet(kept \cup new)
  <2>1. IsFiniteSet(kept) /\ IsFiniteSet(added) BY <1>6, <1>8, FS_Subset
  <2>2. IsFiniteSet(new) BY <1>5, <2>1, FiniteImage
  <2> QED BY <2>1, <2>2, FS_Union
<1>9. FindingsOK(kept \cup new) /\ kept \cup new \in SUBSET Rows BY <1>3, <1>4 DEF FindingsOK
<1> QED BY <1>1, <1>7, <1>8, <1>9

-----------------------------------------------------------------------------
(* What a fetch asks for *)

\* A request reaches from the first of the holdings to the day it is chosen
\* (requests, heldFrom and ListHeldInstrs).
LEMMA RequestsReach ==
  ASSUME BaseTyped, NEW kept
  PROVE  /\ Seen \in Seens
         /\ requests(kept) \in SUBSET Reqs
         /\ IsFiniteSet(requests(kept))
         /\ \A q \in requests(kept) : EndsThen(q, Seen) /\ ReachesBack(q, Seen)
<1> DEFINE ts == {u \in Tickers : NamedBy(u) \cap kept # {}}
           req(t) == [ticker |-> t, period |-> Min({heldFrom(i) : i \in NamedBy(t)})..today,
                      users |-> {x.user : x \in UNION {Held(i) : i \in NamedBy(t)}}]
           g == [t \in ts |-> req(t)]
<1>1. today \in Days /\ txns \in SUBSET Txns /\ validity \in Namings /\ Days \subseteq Nat
  BY CorpActsAssumption DEF BaseTyped, Days
<1>2. Seen \in Seens BY <1>1 DEF Seen, Seens
<1>3. requests(kept) = {req(t) : t \in ts} BY DEF requests
<1>4. ASSUME NEW i, Held(i) # {}
      PROVE  heldFrom(i) \in Nat /\ \A x \in Held(i) : heldFrom(i) <= x.asAt
  <2> DEFINE T == {x.asAt : x \in Held(i)}
  <2>1. T \in SUBSET Nat /\ T # {} BY <1>1, <1>4 DEF Held, Txns
  <2>2. heldFrom(i) = Min(T) BY DEF heldFrom
  <2>3. \A x \in Held(i) : x.asAt \in T OBVIOUS
  <2> HIDE DEF T
  <2>4. Min(T) \in T /\ \A n \in T : Min(T) <= n BY <2>1, MinIsLeast
  <2> QED BY <2>1, <2>2, <2>3, <2>4
<1>5. ASSUME NEW t \in ts
      PROVE  /\ req(t) \in Reqs /\ EndsThen(req(t), Seen) /\ ReachesBack(req(t), Seen)
  <2> DEFINE M == {heldFrom(i) : i \in NamedBy(t)}
             users == {x.user : x \in UNION {Held(i) : i \in NamedBy(t)}}
  <2>1. \A i \in NamedBy(t) : Held(i) # {} BY DEF NamedBy, ListHeldInstrs
  <2>2. NamedBy(t) # {} /\ t \in Tickers OBVIOUS
  <2>3. M \in SUBSET Nat /\ M # {} BY <1>4, <2>1, <2>2
  <2>4. Min(M) \in Nat /\ \A n \in M : Min(M) <= n
    <3> HIDE DEF M
    <3> QED BY <2>3, MinIsLeast
  <2>5. users \subseteq Users BY <1>1 DEF Held, Txns
  <2>6. req(t) = [ticker |-> t, period |-> Min(M)..today, users |-> users] OBVIOUS
  <2>7. \A i \in NamedBy(t) : heldFrom(i) \in M OBVIOUS
  <2> HIDE DEF M, users, req, ts
  <2>8. req(t) \in Reqs
    <3>1. Min(M)..today \in SUBSET Int BY <1>1, <2>4
    <3> QED BY <2>2, <2>5, <2>6, <3>1 DEF Reqs
  <2>9. EndsThen(req(t), Seen) BY <1>1, <2>4, <2>6 DEF EndsThen, Seen
  <2>10. ReachesBack(req(t), Seen)
    <3> SUFFICES ASSUME NEW x \in txns, NEW d \in Days,
                        SeenInstr(Seen, x) # None,
                        MarketOf[t] = Home[SeenInstr(Seen, x)],
                        validity[t][d] = SeenInstr(Seen, x),
                        x.asAt < d, d <= today
                 PROVE  d \in Min(M)..today
      BY <2>6 DEF ReachesBack, Seen
    <3> DEFINE i == SeenInstr(Seen, x)
    <3>1. i = InstrOn(x.key, x.asAt) BY DEF SeenInstr, InstrOn, Seen
    <3>2. x \in Held(i) BY <3>1 DEF Held
    <3>3. i \in Instrs BY <1>1, <2>2, CorpActsAssumption
    <3>4. i \in ListHeldInstrs(None) BY <3>2, <3>3 DEF ListHeldInstrs
    <3>5. heldFrom(i) \in Nat /\ heldFrom(i) <= x.asAt BY <1>4, <3>2
    <3>6. x.asAt \in Nat /\ d \in Nat BY <1>1 DEF Txns
    <3>7. d \in heldFrom(i)..today BY <1>1, <3>5, <3>6
    <3>8. overlaps(t, i, heldFrom(i)) BY <3>7 DEF overlaps
    <3>9. i \in NamedBy(t) BY <3>4, <3>8 DEF NamedBy
    <3>10. Min(M) <= heldFrom(i) BY <2>4, <2>7, <3>9
    <3> QED BY <1>1, <2>4, <3>5, <3>6, <3>10
  <2> QED BY <2>8, <2>9, <2>10
<1> HIDE DEF req
<1>6. g \in [ts -> requests(kept)] /\ \A q \in requests(kept) : \E t \in ts : g[t] = q BY <1>3
<1>7. ts \subseteq Tickers OBVIOUS
<1> HIDE DEF g, ts
<1>8. IsFiniteSet(ts) BY <1>7, FS_Subset, CorpActsAssumption
<1>9. IsFiniteSet(requests(kept)) BY <1>6, <1>8, FiniteImage
<1> QED BY <1>2, <1>3, <1>5, <1>9

\* The parts of a fetch that starts now are good ones (beneath and Start).
LEMMA PartsGood ==
  ASSUME BaseTyped, NEW kept, NEW asks \in SUBSET requests(kept)
  PROVE  Part(asks) \in GoodParts(today)
<1>1. /\ Seen \in Seens /\ asks \in SUBSET Reqs /\ IsFiniteSet(asks)
      /\ \A q \in asks : EndsThen(q, Seen) /\ ReachesBack(q, Seen)
  BY RequestsReach, FS_Subset
<1>2. Part(asks) \in Parts /\ Part(asks).reqs = asks /\ Part(asks).seen = Seen
  BY <1>1 DEF Part, Parts
<1>3. Seen.today <= today BY CorpActsAssumption DEF Seen, BaseTyped, Days
<1> QED BY <1>1, <1>2, <1>3 DEF GoodParts, PartOK

-----------------------------------------------------------------------------
(* The steps *)

\* The store is as it was where no answer is given, recorded or decided.
LEMMA StoreKept == ASSUME StoreOK, UNCHANGED <<calls, answers, told>> PROVE StoreOK'
BY DEF StoreOK, StoreTyped, CallOK, RowsFinite, LatestAnswerStands

\* A step that moves one fetch.
LEMMA FetchSteps ==
  ASSUME FetchesOK, NEW f \in Fetches, NEW x \in FetchSet, KeysAnswer(x),
         fetches' = [fetches EXCEPT ![f] = x], UNCHANGED <<today, calls>>
  PROVE  FetchesOK'
<1>1. FetchSet' = FetchSet BY DEF FetchSet, GoodParts
<1>2. fetches' \in [Fetches -> FetchSet] BY DEF FetchesOK
<1>3. \A g \in Fetches : fetches'[g] = IF g = f THEN x ELSE fetches[g] BY DEF FetchesOK
<1>4. \A g \in Fetches : KeysAnswer(fetches'[g]) BY <1>3 DEF FetchesOK
<1> QED BY <1>1, <1>2, <1>4 DEF FetchesOK

\* More days and more answers leave the fetches good.
LEMMA FetchesGrow ==
  ASSUME BaseTyped, FetchesOK, UNCHANGED fetches, calls \subseteq calls', today <= today', today' \in Days
  PROVE  FetchesOK'
<1>1. \A p \in Parts : p.seen.today \in Nat BY CorpActsAssumption DEF Parts, Seens, Days
<1>2. today \in Nat /\ today' \in Nat BY CorpActsAssumption DEF BaseTyped, Days
<1>3. GoodParts(today) \subseteq GoodParts(today') BY <1>1, <1>2 DEF GoodParts
<1>4. ASSUME NEW s \in Seq(GoodParts(today)) PROVE s \in Seq(GoodParts(today'))
  <2>1. s \in [1..Len(s) -> GoodParts(today)] /\ Len(s) \in Nat OBVIOUS
  <2>2. s \in [1..Len(s) -> GoodParts(today')] BY <1>3, <2>1
  <2> QED BY <2>1, <2>2
<1>5. FetchSet \subseteq FetchSet' BY <1>4 DEF FetchSet
<1>6. fetches' \in [Fetches -> FetchSet'] BY <1>5 DEF FetchesOK
<1> QED BY <1>6 DEF FetchesOK

\* A fetch starts (FetchHeld and Start).
LEMMA StartIInv ==
  ASSUME IInv, NEW f \in Fetches, NEW x \in FetchSet, x.keys = None, fetches' = [fetches EXCEPT ![f] = x],
         UNCHANGED <<today, txns, validity, source, enabled, calls, answers, list, told>>
  PROVE  IInv'
<1>1. KeysAnswer(x) BY DEF KeysAnswer
<1>2. BaseTyped' BY DEF IInv, BaseTyped
<1>3. StoreOK' BY StoreKept DEF IInv
<1>4. FetchesOK' BY <1>1, FetchSteps DEF IInv
<1>5. ListOK' BY DEF IInv, ListOK
<1> QED BY <1>2, <1>3, <1>4, <1>5 DEF IInv

\* What a statement's user or new facts select is fetched (FetchHeld).
LEMMA FetchHeldIInv ==
  ASSUME IInv, NEW f \in Fetches, NEW runUser, NEW user, NEW written, FetchHeld(f, runUser, user, written)
  PROVE  IInv'
<1> DEFINE kept == selected(user, written)
           asks == requests(kept)
           own == {a \in asks : runUser = None \/ a.users = {runUser}}
           p == IF own = {} THEN <<>> ELSE <<Part(own)>>
           q == IF own = asks THEN <<>> ELSE <<Part(asks \ own)>>
<1>1. BaseTyped BY DEF IInv
<1>2. Part(own) \in GoodParts(today) /\ Part(asks \ own) \in GoodParts(today) BY <1>1, PartsGood
<1>3. p \in Seq(GoodParts(today)) /\ q \in Seq(GoodParts(today)) BY <1>2
<1>4. beneath(runUser, asks) = p \o q BY DEF beneath
<1>5. fetches' = [fetches EXCEPT ![f] = [Idle EXCEPT !.parts = beneath(runUser, asks)]] BY DEF FetchHeld
<1>6. UNCHANGED <<today, txns, validity, source, enabled, calls, answers, list, told>> BY DEF FetchHeld
<1> HIDE DEF asks, own, p, q
<1>7. beneath(runUser, asks) \in Seq(GoodParts(today)) BY <1>3, <1>4, ConcatProperties
<1> DEFINE x == [Idle EXCEPT !.parts = beneath(runUser, asks)]
<1>8. x \in FetchSet /\ x.keys = None BY <1>7 DEF Idle, FetchSet
<1>9. fetches' = [fetches EXCEPT ![f] = x] BY <1>5
<1> HIDE DEF x
<1> QED BY <1>6, <1>8, <1>9, StartIInv

\* An administrator's refresh (Start).
LEMMA RefreshIInv == ASSUME IInv, NEW f \in Fetches, Start(f) PROVE IInv'
<1> DEFINE asks == requests(ListHeldInstrs(None))
<1>1. BaseTyped BY DEF IInv
<1>2. Part(asks) \in GoodParts(today) BY <1>1, PartsGood
<1>3. <<Part(asks)>> \in Seq(GoodParts(today)) BY <1>2
<1> DEFINE x == [Idle EXCEPT !.parts = <<Part(asks)>>, !.fresh = TRUE]
<1>4. x \in FetchSet /\ x.keys = None BY <1>3 DEF Idle, FetchSet
<1>5. fetches' = [fetches EXCEPT ![f] = x] BY DEF Start
<1>6. UNCHANGED <<today, txns, validity, source, enabled, calls, answers, list, told>> BY DEF Start
<1> HIDE DEF x
<1> QED BY <1>4, <1>5, <1>6, StartIInv

\* A fetch's next part starts over (Rest, with which EndPart ends a part).
LEMMA RestIInv ==
  ASSUME IInv, NEW f \in Fetches, fetches[f].parts # <<>>, fetches' = [fetches EXCEPT ![f] = Rest(f)],
         UNCHANGED <<today, txns, validity, source, enabled, calls, answers, list, told>>
  PROVE  IInv'
<1>1. fetches[f] \in FetchSet BY DEF IInv, FetchesOK
<1>2. Tail(fetches[f].parts) \in Seq(GoodParts(today)) BY <1>1, HeadTailProperties DEF FetchSet
<1>3. Rest(f) \in FetchSet BY <1>1, <1>2 DEF Rest, Ended, Idle, FetchSet
<1>4. KeysAnswer(Rest(f)) BY <1>1, <1>2 DEF Rest, Ended, Idle, KeysAnswer, FetchSet
<1>5. BaseTyped' BY DEF IInv, BaseTyped
<1>6. StoreOK' BY StoreKept DEF IInv
<1>7. FetchesOK' BY <1>3, <1>4, FetchSteps DEF IInv
<1>8. ListOK' BY DEF IInv, ListOK
<1> QED BY <1>5, <1>6, <1>7, <1>8 DEF IInv

\* What a source answers to a request of the fetch's part (bySource and Respond).
LEMMA RespondGood ==
  ASSUME IInv, NEW p \in GoodParts(today), NEW q \in bySource(p.reqs), NEW acts \in Reports \cup {None}
  PROVE  /\ Respond(q, acts) \in Given /\ CallOK(Respond(q, acts))
         /\ Respond(q, acts).ticker = q.ticker /\ Respond(q, acts).period = q.period
<1> DEFINE act(a) == [ex |-> a.ex, ratio |-> a.ratio, handled |-> q.source \in Handles]
           given == IF acts = None THEN {} ELSE {act(a) : a \in acts}
           cover == IF acts = None THEN {} ELSE q.period
           ats == {k.at : k \in calls}
           at == Cardinality(ats) + 1
           g == [k \in calls |-> k.at]
           h == [a \in acts |-> act(a)]
<1>1. today \in Days /\ Days \subseteq Nat /\ calls \in SUBSET Given /\ IsFiniteSet(calls)
  BY CorpActsAssumption DEF IInv, BaseTyped, StoreOK, StoreTyped, Days
<1>2. PICK r \in p.reqs : q = [source |-> source[MarketOf[r.ticker]], ticker |-> r.ticker, period |-> r.period]
                          /\ source[MarketOf[r.ticker]] \in enabled
  BY DEF bySource
<1>3. r \in Reqs /\ p.seen.today <= today /\ p.seen.today \in Nat /\ EndsThen(r, p.seen)
  BY <1>1 DEF GoodParts, Parts, PartOK, Seens
<1>4. q.source \in Sources /\ q.ticker \in Tickers /\ q.period \in SUBSET Int
  BY <1>2, <1>3 DEF Reqs, IInv, BaseTyped
<1>5. at \in Nat
  <2>1. g \in [calls -> ats] /\ \A y \in ats : \E k \in calls : g[k] = y OBVIOUS
  <2> HIDE DEF g, ats
  <2>2. IsFiniteSet(ats) BY <1>1, <2>1, FiniteImage
  <2> QED BY <2>2, FS_CardinalityType
<1>6. given \in SUBSET Acts /\ IsFiniteSet(given)
  <2>1. CASE acts = None BY <2>1, FS_EmptySet
  <2>2. CASE acts # None
    <3>1. acts \subseteq [ex : Int, ratio : Ratios] /\ IsFiniteSet(acts) BY <2>2, CorpActsAssumption
    <3>2. ASSUME NEW a \in acts PROVE act(a) \in Acts
      <4>1. (q.source \in Handles) \in BOOLEAN OBVIOUS
      <4>2. ASSUME NEW b \in BOOLEAN PROVE [ex |-> a.ex, ratio |-> a.ratio, handled |-> b] \in Acts
        BY <3>1 DEF Acts
      <4> QED BY <4>1, <4>2, Zenon
    <3>3. given = {act(a) : a \in acts} BY <2>2
    <3> HIDE DEF act
    <3>4. h \in [acts -> given] /\ \A y \in given : \E a \in acts : h[a] = y BY <3>3
    <3>5. given \in SUBSET Acts BY <3>2, <3>3
    <3> HIDE DEF h, given
    <3> QED BY <3>1, <3>4, <3>5, FiniteImage
  <2> QED BY <2>1, <2>2
<1>7. cover \in {{}, q.period} /\ cover \in SUBSET Int /\ \A d \in cover : d <= today
  BY <1>1, <1>2, <1>3, <1>4 DEF EndsThen
<1>8. Respond(q, acts) = [source |-> q.source, ticker |-> q.ticker, period |-> q.period, at |-> at, day |-> today,
                          coverage |-> cover, acts |-> given]
  BY DEF Respond
<1> HIDE DEF at, cover, given
<1> QED BY <1>1, <1>4, <1>5, <1>6, <1>7, <1>8 DEF Given, CallOK

\* The fetch asks the sources and reads the cache (Ask).
LEMMA AskIInv == ASSUME IInv, NEW f \in Fetches, Ask(f) PROVE IInv'
<1> DEFINE p == Head(fetches[f].parts)
           asked == bySource(p.reqs)
<1>1. fetches[f] \in FetchSet /\ fetches[f].parts # <<>> BY DEF Ask, IInv, FetchesOK
<1>2. p \in GoodParts(today) BY <1>1, HeadTailProperties DEF FetchSet
<1> HIDE DEF p
<1> DEFINE does(called, acts, hits) ==
         LET new == {Respond(q, acts[q]) : q \in called} IN
         /\ fetches[f].fresh => hits = {}
         /\ \A k, l \in hits : k.ticker = l.ticker => k = l
         /\ Cardinality(calls) + Cardinality(new) <= MaxCalls
         /\ calls' = calls \cup new
         /\ fetches' = [fetches EXCEPT ![f].keys = new \cup hits]
<1>3. PICK called \in SUBSET asked : \E acts \in [called -> Reports \cup {None}],
                                     hits \in SUBSET UNION {Cached(q) : q \in asked \ called} :
                                        does(called, acts, hits)
  BY DEF Ask, p
<1>4. PICK acts \in [called -> Reports \cup {None}], hits \in SUBSET UNION {Cached(q) : q \in asked \ called} :
         does(called, acts, hits)
  <2> HIDE DEF asked, does
  <2> QED BY <1>3
<1> DEFINE new == {Respond(q, acts[q]) : q \in called}
           x == [fetches[f] EXCEPT !.keys = new \cup hits]
<1>5. calls' = calls \cup new /\ fetches' = [fetches EXCEPT ![f] = x] BY <1>4
<1>6. UNCHANGED <<today, txns, validity, source, enabled, answers, list, told>> BY DEF Ask
<1>7. \A q \in asked : \E r \in p.reqs : r.ticker = q.ticker /\ r.period = q.period BY DEF bySource
<1>8. \A q \in called : /\ Respond(q, acts[q]) \in Given /\ CallOK(Respond(q, acts[q]))
                         /\ Respond(q, acts[q]).ticker = q.ticker /\ Respond(q, acts[q]).period = q.period
  <2> HIDE DEF asked
  <2> TAKE q \in called
  <2>1. acts[q] \in Reports \cup {None} /\ q \in bySource(p.reqs) BY DEF asked
  <2> QED BY <1>2, <2>1, RespondGood
<1>9. IsFiniteSet(new)
  <2> DEFINE rs == {r \in p.reqs : source[MarketOf[r.ticker]] \in enabled}
             g == [r \in rs |-> [source |-> source[MarketOf[r.ticker]], ticker |-> r.ticker, period |-> r.period]]
             h == [q \in called |-> Respond(q, acts[q])]
  <2>1. g \in [rs -> asked] /\ \A q \in asked : \E r \in rs : g[r] = q BY DEF bySource
  <2>2. rs \subseteq p.reqs OBVIOUS
  <2>3. h \in [called -> new] /\ \A y \in new : \E q \in called : h[q] = y OBVIOUS
  <2> HIDE DEF rs, g, h, asked, new
  <2>4. IsFiniteSet(rs) BY <1>2, <2>2, FS_Subset DEF GoodParts, PartOK
  <2>5. IsFiniteSet(asked) BY <2>1, <2>4, FiniteImage
  <2>6. IsFiniteSet(called) BY <2>5, FS_Subset
  <2> QED BY <2>3, <2>6, FiniteImage
<1>10. /\ new \in SUBSET Given /\ \A k \in new : CallOK(k)
       /\ \A k \in new : \E r \in p.reqs : r.ticker = k.ticker /\ r.period = k.period
  BY <1>7, <1>8
<1>11. hits \in SUBSET calls /\ \A k \in hits : \E r \in p.reqs : r.ticker = k.ticker /\ r.period = k.period
  BY <1>7 DEF Cached
<1> HIDE DEF new, asked
<1>12. StoreOK'
  <2>1. calls' \in SUBSET Given /\ \A k \in calls' : CallOK(k) BY <1>5, <1>10 DEF IInv, StoreOK, StoreTyped
  <2>2. IsFiniteSet(calls') BY <1>5, <1>9, FS_Union DEF IInv, StoreOK, StoreTyped
  <2>3. answers' \in [Sources \X Tickers -> Answers \cup {None}] /\ told' \in [Sources \X Tickers -> calls' \cup {None}]
    BY <1>5, <1>6 DEF IInv, StoreOK, StoreTyped
  <2>4. RowsFinite' /\ LatestAnswerStands' BY <1>6 DEF IInv, StoreOK, RowsFinite, LatestAnswerStands
  <2> QED BY <2>1, <2>2, <2>3, <2>4 DEF StoreOK, StoreTyped
<1>13. FetchesOK'
  <2>1. FetchSet \subseteq FetchSet' BY <1>5, <1>6 DEF FetchSet, GoodParts
  <2>2. x \in FetchSet' BY <1>1, <1>5, <1>6, <1>11 DEF FetchSet, GoodParts
  <2>3. x.parts = fetches[f].parts /\ x.keys = new \cup hits BY <1>1 DEF FetchSet
  <2>4. KeysAnswer(x) BY <1>1, <1>10, <1>11, <2>3 DEF KeysAnswer, p
  <2> HIDE DEF x
  <2>5. fetches' \in [Fetches -> FetchSet'] BY <1>5, <2>1, <2>2 DEF IInv, FetchesOK
  <2>6. \A g \in Fetches : KeysAnswer(fetches'[g]) BY <1>5, <2>4 DEF IInv, FetchesOK
  <2> QED BY <2>5, <2>6 DEF FetchesOK
<1>14. BaseTyped' /\ ListOK' BY <1>6 DEF IInv, BaseTyped, ListOK
<1> QED BY <1>12, <1>13, <1>14 DEF IInv

(* What LatestAnswerStands says of one source and ticker. *)
LatestAt(a, w) ==
    /\ (a = None) = (w = None)
    /\ a # None =>
        /\ a.at = w.at
        /\ a.coverage \subseteq w.coverage
        /\ {Stored(r) : r \in a.rows} = judged(w.acts)
        /\ FindingsOK(a.rows)

\* LatestAnswerStands, told cell by cell.
LEMMA LatestByCell == ASSUME LatestAnswerStands, NEW c \in Sources \X Tickers PROVE LatestAt(answers[c], told[c])
<1>1. PICK s \in Sources, t \in Tickers : c = <<s, t>> OBVIOUS
<1>2. LatestAt(answers[<<s, t>>], told[<<s, t>>]) BY DEF LatestAnswerStands, LatestAt, FindingsOK
<1> QED BY <1>1, <1>2

\* Cell by cell after a step.
LEMMA LatestNext ==
  ASSUME \A c \in Sources \X Tickers : LatestAt(answers'[c], told'[c])
  PROVE  LatestAnswerStands'
<1>1. \A s \in Sources, t \in Tickers : LatestAt(answers'[<<s, t>>], told'[<<s, t>>]) OBVIOUS
<1> QED BY <1>1 DEF LatestAnswerStands, LatestAt, FindingsOK

\* What one recorded answer leaves in its cell (writeAnswer).
LEMMA WriteAnswerGood ==
  ASSUME NEW a \in Answers \cup {None}, NEW w, NEW k \in Given, CallOK(k), LatestAt(a, w),
         a # None => IsFiniteSet(a.rows)
  PROVE  /\ writeAnswer(a, k) \in Answers
         /\ IsFiniteSet(writeAnswer(a, k).rows)
         /\ LatestAt(writeAnswer(a, k), IF w # None /\ w.at > k.at THEN w ELSE k)
<1>0. None \notin Answers /\ k # None BY CorpActsAssumption
<1>1. CASE later(a, k)
  <2>1. a # None /\ w # None /\ w.at > k.at BY <1>1 DEF later, LatestAt
  <2>2. writeAnswer(a, k) = a BY <1>1 DEF writeAnswer
  <2> QED BY <2>1, <2>2
<1>2. CASE ~later(a, k)
  <2> DEFINE rows == IF a = None THEN {} ELSE a.rows
             acts == judged(k.acts)
             cover == covered(k.coverage, k.day)
             b == writeAnswer(a, k)
  <2>1. ~(w # None /\ w.at > k.at) BY <1>2 DEF later, LatestAt
  <2>2. b = [at |-> k.at, coverage |-> cover, rows |-> merge(rows, acts)] BY <1>2 DEF writeAnswer
  <2>3. rows \in SUBSET Rows /\ FindingsOK(rows) /\ IsFiniteSet(rows)
    BY FS_EmptySet DEF Answers, LatestAt, FindingsOK
  <2>4. acts \in SUBSET Acts /\ IsFiniteSet(acts)
    <3>1. k.acts \in SUBSET Acts /\ IsFiniteSet(k.acts) BY DEF Given, CallOK
    <3> QED BY <3>1, JudgedActs
  <2>5. cover \in SUBSET k.coverage BY DEF covered
  <2> HIDE DEF rows, acts, cover
  <2> DEFINE m == merge(rows, acts)
  <2>6. /\ m \in SUBSET Rows /\ {Stored(r) : r \in m} = acts /\ FindingsOK(m) /\ IsFiniteSet(m)
    BY <2>3, <2>4, MergeActs
  <2> HIDE DEF m
  <2>7. b = [at |-> k.at, coverage |-> cover, rows |-> m] BY <2>2 DEF m
  <2> HIDE DEF b
  <2>8. k.at \in Nat /\ k.coverage \in SUBSET Int BY DEF Given
  <2>9. b \in Answers BY <2>5, <2>6, <2>7, <2>8 DEF Answers
  <2>10. b.rows = m /\ b.at = k.at /\ b.coverage = cover BY <2>7
  <2>11. b # None BY <1>0, <2>9
  <2>12. LatestAt(b, k) BY <1>0, <2>5, <2>6, <2>10, <2>11 DEF LatestAt, acts
  <2> QED BY <2>1, <2>6, <2>9, <2>10, <2>12 DEF b
<1> QED BY <1>1, <1>2

\* An answer is recorded (Record).
LEMMA RecordIInv ==
  ASSUME IInv, NEW f \in Fetches, fetches[f].keys # None, NEW k \in fetches[f].keys, Record(f, k)
  PROVE  IInv'
<1> DEFINE c == <<k.source, k.ticker>>
           x == [fetches[f] EXCEPT !.keys = @ \ {k}]
           w == IF told[c] # None /\ told[c].at > k.at THEN told[c] ELSE k
           b == writeAnswer(answers[c], k)
<1>1. fetches[f] \in FetchSet BY DEF IInv, FetchesOK
<1>2. k \in calls /\ k \in Given /\ CallOK(k) BY <1>1 DEF FetchSet, IInv, StoreOK, StoreTyped
<1>3. c \in Sources \X Tickers BY <1>2 DEF Given
<1>4. StoreTyped /\ \A d \in Sources \X Tickers : LatestAt(answers[d], told[d]) BY LatestByCell DEF IInv, StoreOK
<1>5. answers[c] \in Answers \cup {None} /\ (answers[c] # None => IsFiniteSet(answers[c].rows)) /\ LatestAt(answers[c], told[c])
  BY <1>3, <1>4 DEF IInv, StoreOK, RowsFinite, StoreTyped
<1>6. answers' = [answers EXCEPT ![c] = b] /\ told' = [told EXCEPT ![c] = w] BY DEF Record
<1>7. fetches' = [fetches EXCEPT ![f] = x] BY DEF Record
<1>8. UNCHANGED <<today, txns, validity, source, enabled, calls, list>> BY DEF Record
<1>9. b \in Answers /\ IsFiniteSet(b.rows) /\ LatestAt(b, w)
  <2> HIDE DEF c
  <2> QED BY <1>2, <1>5, WriteAnswerGood
<1>10. w \in calls \cup {None} BY <1>2, <1>3, <1>4 DEF StoreTyped
<1> HIDE DEF c, b, w
<1>11. StoreOK'
  <2>1. StoreTyped' BY <1>3, <1>4, <1>6, <1>8, <1>9, <1>10 DEF StoreTyped
  <2>2. \A d \in Sources \X Tickers : answers'[d] = IF d = c THEN b ELSE answers[d] BY <1>4, <1>6 DEF StoreTyped
  <2>3. \A d \in Sources \X Tickers : told'[d] = IF d = c THEN w ELSE told[d] BY <1>4, <1>6 DEF StoreTyped
  <2>4. RowsFinite' BY <1>9, <2>2 DEF IInv, StoreOK, RowsFinite
  <2>5. LatestAnswerStands' BY <1>4, <1>9, <2>2, <2>3, LatestNext
  <2>6. \A j \in calls' : CallOK(j) BY <1>8 DEF IInv, StoreOK
  <2> QED BY <2>1, <2>4, <2>5, <2>6 DEF StoreOK
<1>12. x \in FetchSet BY <1>1, <1>2 DEF FetchSet
<1>13. x.parts = fetches[f].parts /\ x.keys = fetches[f].keys \ {k} BY <1>1 DEF FetchSet
<1>14. KeysAnswer(fetches[f]) BY DEF IInv, FetchesOK
<1> HIDE DEF x
<1>15. KeysAnswer(x) BY <1>13, <1>14 DEF KeysAnswer
<1>16. FetchesOK' BY <1>7, <1>8, <1>12, <1>15, FetchSteps DEF IInv
<1>17. BaseTyped' /\ ListOK' BY <1>8 DEF IInv, BaseTyped, ListOK
<1> QED BY <1>11, <1>16, <1>17 DEF IInv

\* A decision keeps the row's action and clears its finding (Decided).
LEMMA DecidedRow ==
  ASSUME NEW r \in Rows, NEW d \in Decisions, (r.finding = "open") = (r.decision = None /\ ~r.handled)
  PROVE  LET e == Decided(r, d) IN
         /\ e \in Rows /\ Stored(e) = Stored(r) /\ e.decision = d
         /\ (e.finding = "open") = (e.decision = None /\ ~e.handled)
<1>1. d # None /\ d \in Decisions \cup {None} BY CorpActsAssumption
<1> DEFINE n == IF r.finding = "open" THEN "cleared" ELSE r.finding
<1>2. n \in {"none", "open", "cleared"} /\ n # "open" BY DEF Rows
<1>3. Decided(r, d) = [r EXCEPT !.decision = d, !.finding = n] BY DEF Decided, Rows
<1> HIDE DEF n
<1>4. Decided(r, d) \in Rows BY <1>1, <1>2, <1>3 DEF Rows
<1> DEFINE e == Decided(r, d)
<1>5. e.ex = r.ex /\ e.ratio = r.ratio /\ e.handled = r.handled /\ e.decision = d /\ e.finding = n BY <1>3 DEF Rows
<1> HIDE DEF e
<1>6. Stored(e) = Stored(r) BY <1>5 DEF Stored
<1> QED BY <1>1, <1>2, <1>4, <1>5, <1>6 DEF e

\* An administrator decides an action (DecideCorpAct).
LEMMA DecideIInv ==
  ASSUME IInv, NEW s \in Sources, NEW t \in Tickers, NEW d \in Decisions, answers[<<s, t>>] # None,
         NEW r \in answers[<<s, t>>].rows, DecideCorpAct(s, t, r, d)
  PROVE  IInv'
<1> DEFINE c == <<s, t>>
           a == answers[c]
           e == Decided(r, d)
           rows == (a.rows \ {r}) \cup {e}
           b == [a EXCEPT !.rows = rows]
<1>1. c \in Sources \X Tickers OBVIOUS
<1> HIDE DEF c
<1>2. StoreTyped /\ \A i \in Sources \X Tickers : LatestAt(answers[i], told[i]) BY LatestByCell DEF IInv, StoreOK
<1>3. a \in Answers /\ IsFiniteSet(a.rows) /\ LatestAt(a, told[c]) /\ a # None
  BY <1>1, <1>2 DEF IInv, StoreOK, RowsFinite, StoreTyped, c
<1>4. answers' = [answers EXCEPT ![c] = b] BY DEF DecideCorpAct, c
<1>5. UNCHANGED <<today, txns, validity, source, enabled, calls, fetches, list, told>> BY DEF DecideCorpAct
<1>6. r \in Rows /\ r \in a.rows /\ FindingsOK(a.rows) BY <1>3 DEF Answers, LatestAt, c
<1> HIDE DEF a
<1>7. /\ e \in Rows /\ Stored(e) = Stored(r) /\ (e.finding = "open") = (e.decision = None /\ ~e.handled)
  BY <1>6, DecidedRow DEF FindingsOK
<1> HIDE DEF e
<1>8. rows \in SUBSET Rows /\ FindingsOK(rows) /\ {Stored(i) : i \in rows} = {Stored(i) : i \in a.rows}
  BY <1>3, <1>6, <1>7 DEF Answers, FindingsOK
<1>9. IsFiniteSet(rows)
  <2>1. a.rows \ {r} \subseteq a.rows OBVIOUS
  <2>2. IsFiniteSet(a.rows \ {r}) BY <1>3, <2>1, FS_Subset
  <2> QED BY <2>2, FS_AddElement
<1> HIDE DEF rows
<1>10. b \in Answers /\ b.rows = rows /\ b.at = a.at /\ b.coverage = a.coverage BY <1>3, <1>8 DEF Answers
<1> HIDE DEF b
<1>11. b # None BY <1>10, CorpActsAssumption
<1>12. LatestAt(b, told[c]) BY <1>3, <1>8, <1>10, <1>11 DEF LatestAt
<1>13. StoreOK'
  <2>1. StoreTyped' BY <1>1, <1>2, <1>4, <1>5, <1>10 DEF StoreTyped
  <2>2. \A i \in Sources \X Tickers : answers'[i] = IF i = c THEN b ELSE answers[i] BY <1>2, <1>4 DEF StoreTyped
  <2>3. RowsFinite' BY <1>9, <1>10, <2>2 DEF IInv, StoreOK, RowsFinite
  <2>5. LatestAnswerStands' BY <1>2, <1>5, <1>12, <2>2, LatestNext
  <2>6. \A j \in calls' : CallOK(j) BY <1>5 DEF IInv, StoreOK
  <2> QED BY <2>1, <2>3, <2>5, <2>6 DEF StoreOK
<1>14. FetchesOK' BY <1>5 DEF IInv, FetchesOK, FetchSet, GoodParts
<1>15. BaseTyped' /\ ListOK' BY <1>5 DEF IInv, BaseTyped, ListOK
<1> QED BY <1>13, <1>14, <1>15 DEF IInv

\* Statements, attributions, settings and midnight leave the store and the fetches good.
LEMMA BesideIInv ==
  ASSUME IInv, UNCHANGED <<calls, answers, told, fetches, list>>,
         \/ \E u \in Uploads : WriteStmt(u)
         \/ Attribute
         \/ \E s \in Sources : SetEnabled(s)
         \/ \E m \in Markets : SetSource(m)
         \/ Midnight
  PROVE  IInv'
<1>1. StoreOK' BY StoreKept DEF IInv
<1>2. today \in Days /\ Days \subseteq Nat BY CorpActsAssumption DEF IInv, BaseTyped, Days
<1>3. today' \in Days /\ today <= today'
  BY <1>2, CorpActsAssumption DEF WriteStmt, Attribute, SetEnabled, SetSource, Midnight, Days
<1>4. FetchesOK' BY <1>3, FetchesGrow DEF IInv
<1>5. txns' \in SUBSET Txns
  <2>1. CASE \E u \in Uploads : WriteStmt(u)
    <3>1. PICK u \in Uploads : WriteStmt(u) BY <2>1
    <3>2. u.user \in Users /\ u.txns \subseteq [key : Instrs \cup Tickers, asAt : Days] BY CorpActsAssumption
    <3>3. {[user |-> u.user, key |-> x.key, asAt |-> x.asAt] : x \in u.txns} \subseteq Txns BY <3>2 DEF Txns
    <3> QED BY <3>1, <3>3 DEF WriteStmt, IInv, BaseTyped
  <2> QED BY <2>1 DEF Attribute, SetEnabled, SetSource, Midnight, IInv, BaseTyped
<1>6. validity' \in Namings BY DEF WriteStmt, Attribute, SetEnabled, SetSource, Midnight, IInv, BaseTyped
<1>7. source' \in [Markets -> Sources \cup {None}]
  BY DEF WriteStmt, Attribute, SetEnabled, SetSource, Midnight, IInv, BaseTyped
<1>8. enabled' \in SUBSET Sources BY DEF WriteStmt, Attribute, SetEnabled, SetSource, Midnight, IInv, BaseTyped
<1>9. ListOK' BY DEF IInv, ListOK
<1> QED BY <1>1, <1>3, <1>4, <1>5, <1>6, <1>7, <1>8, <1>9 DEF IInv, BaseTyped

\* A listing reads, and changes nothing else (ListHoldings).
LEMMA ListIInv ==
  ASSUME IInv, UNCHANGED <<today, txns, validity, source, enabled, calls, answers, told, fetches>>,
         \/ \E u \in Users : ListHoldingKeys(u)
         \/ LoadNaming \/ ListCorpActAnswers \/ ListCorpActs
         \/ UNCHANGED list
  PROVE  IInv'
<1>1. StoreOK' BY StoreKept DEF IInv
<1>2. FetchesOK' /\ BaseTyped' BY DEF IInv, FetchesOK, FetchSet, GoodParts, BaseTyped
<1>3. ListOK'
  <2>1. CASE \E u \in Users : ListHoldingKeys(u)
    <3>1. PICK u \in Users : ListHoldingKeys(u) BY <2>1
    <3> DEFINE own == {y \in txns : y.user = u /\ InstrOn(y.key, y.asAt) # None}
               holds == {[instr |-> InstrOn(x.key, x.asAt), asAt |-> x.asAt] : x \in own}
    <3>2. \A x \in own : x.asAt \in Days BY DEF IInv, BaseTyped, Txns
    <3>3. \A h \in holds : h.asAt \in Days
      <4> HIDE DEF own
      <4> QED BY <3>2
    <3>4. list' = [Unlisted EXCEPT !.step = "naming", !.holds = holds] BY <3>1 DEF ListHoldingKeys
    <3> HIDE DEF holds
    <3>5. list' = [step |-> "naming", holds |-> holds, naming |-> None, read |-> None] BY <3>4 DEF Unlisted
    <3> QED BY <3>3, <3>5 DEF ListOK
  <2>2. CASE LoadNaming \/ ListCorpActAnswers
    <3>1. PICK l : l = list /\ l = [step |-> l.step, holds |-> l.holds, naming |-> l.naming, read |-> l.read]
      BY DEF IInv, ListOK
    <3>2. PICK rd : rd = [t \in Tickers |-> AnswerOf(t)] OBVIOUS
    <3>3. \/ list' = [l EXCEPT !.step = "answers", !.naming = validity]
          \/ list' = [l EXCEPT !.step = "acts", !.read = rd]
      BY <2>2, <3>1, <3>2 DEF LoadNaming, ListCorpActAnswers
    <3>4. \/ list' = [step |-> "answers", holds |-> l.holds, naming |-> validity, read |-> l.read]
          \/ list' = [step |-> "acts", holds |-> l.holds, naming |-> l.naming, read |-> rd]
      BY <3>1, <3>3
    <3> QED BY <3>1, <3>4 DEF IInv, ListOK
  <2>3. CASE ListCorpActs
    <3>1. list' = [step |-> "none", holds |-> {}, naming |-> None, read |-> None] BY <2>3 DEF ListCorpActs, Unlisted
    <3> QED BY <3>1 DEF ListOK
  <2>4. CASE UNCHANGED list BY <2>4 DEF IInv, ListOK
  <2> QED BY <2>1, <2>2, <2>3, <2>4
<1> QED BY <1>1, <1>2, <1>3 DEF IInv

\* The first state.
LEMMA InitIInv == ASSUME Init PROVE IInv
<1>1. BaseTyped BY CorpActsAssumption DEF Init, BaseTyped
<1>2. StoreOK
  <2>1. IsFiniteSet(calls) BY FS_EmptySet DEF Init
  <2>2. answers = [c \in Sources \X Tickers |-> None] /\ told = answers /\ calls = {} BY DEF Init
  <2>3. LatestAnswerStands /\ RowsFinite BY <2>2 DEF LatestAnswerStands, RowsFinite
  <2> QED BY <2>1, <2>2, <2>3 DEF StoreOK, StoreTyped
<1>3. FetchesOK
  <2>1. Idle \in FetchSet /\ KeysAnswer(Idle) BY DEF Idle, FetchSet, KeysAnswer
  <2> QED BY <2>1 DEF Init, FetchesOK
<1>4. ListOK BY DEF Init, ListOK, Unlisted
<1> QED BY <1>1, <1>2, <1>3, <1>4 DEF IInv

\* Every step, one case for each action of Next.
LEMMA NextIInv == ASSUME IInv, [Next]_vars PROVE IInv'
<1>1. ASSUME NEW f \in Fetches, NEW u \in Users \cup {None}, NEW v \in {u, None}, NEW w \in SUBSET Tickers,
             FetchHeld(f, u, v, w)
      PROVE  IInv'
  BY <1>1, FetchHeldIInv
<1>2. ASSUME \/ \E u \in Users : ListHoldingKeys(u)
             \/ LoadNaming \/ ListCorpActAnswers \/ ListCorpActs
      PROVE  IInv'
  <2>1. UNCHANGED <<today, txns, validity, source, enabled, calls, answers, told, fetches>>
    BY <1>2 DEF ListHoldingKeys, LoadNaming, ListCorpActAnswers, ListCorpActs
  <2> QED BY <1>2, <2>1, ListIInv
<1>3. ASSUME NEW f \in Fetches, Start(f) PROVE IInv' BY <1>3, RefreshIInv
<1>4. ASSUME NEW f \in Fetches, Ask(f) PROVE IInv' BY <1>4, AskIInv
<1>5. ASSUME NEW f \in Fetches, fetches[f].keys # None, NEW k \in fetches[f].keys, Record(f, k) PROVE IInv'
  BY <1>5, RecordIInv
<1>6. ASSUME NEW f \in Fetches, EndPart(f) PROVE IInv' BY <1>6, RestIInv DEF EndPart
<1>7. ASSUME \/ \E u \in Uploads : WriteStmt(u)
             \/ Attribute
             \/ \E s \in Sources : SetEnabled(s)
             \/ \E m \in Markets : SetSource(m)
             \/ Midnight
      PROVE  IInv'
  <2>1. UNCHANGED <<calls, answers, told, fetches, list>> BY <1>7 DEF WriteStmt, Attribute, SetEnabled, SetSource, Midnight
  <2> QED BY <1>7, <2>1, BesideIInv
<1>8. ASSUME NEW s \in Sources, NEW t \in Tickers, NEW d \in Decisions, answers[<<s, t>>] # None,
             NEW r \in answers[<<s, t>>].rows, DecideCorpAct(s, t, r, d)
      PROVE  IInv'
  BY <1>8, DecideIInv
<1>9. CASE UNCHANGED vars
  <2>1. UNCHANGED <<today, txns, validity, source, enabled, calls, answers, told, fetches, list>> BY <1>9 DEF vars
  <2> QED BY <2>1, ListIInv
<1> QED BY <1>1, <1>2, <1>3, <1>4, <1>5, <1>6, <1>7, <1>8, <1>9 DEF Next

\* The inductive invariant holds of every behaviour.
THEOREM CorpActsInductive == Spec => []IInv
<1>1. Init => IInv BY InitIInv
<1>2. IInv /\ [Next]_vars => IInv' BY NextIInv
<1> QED BY <1>1, <1>2, PTL DEF Spec

\* Whatever the order in which fetches record and whatever the cache repeats, what is stored for
\* a ticker is what its source answered last (writeAnswer, merge, DecideCorpAct).
THEOREM LastAnswersStand == Spec => []LatestAnswerStands
<1>1. IInv => LatestAnswerStands BY DEF IInv, StoreOK
<1> QED BY <1>1, CorpActsInductive, PTL

-----------------------------------------------------------------------------
(* Reading the actions *)

(* What is read for a ticker is the stored answer of its market's source,  *)
(* or nothing.                                                             *)
HasAnswer(c) == c \in Sources \X Tickers /\ answers[c] # None

(* The stored answer that ticker t's market reads. *)
CellOf(t) == <<source[MarketOf[t]], t>>

ReadsOne ==
    \A t \in Tickers :
        \/ ~HasAnswer(CellOf(t)) /\ RowsOf(t) = {} /\ CoverageOf(t) = {}
        \/ /\ HasAnswer(CellOf(t))
           /\ RowsOf(t) = answers[CellOf(t)].rows
           /\ CoverageOf(t) = answers[CellOf(t)].coverage

\* One stored answer is read.
LEMMA ReadOne == IInv => ReadsOne
<1> SUFFICES ASSUME IInv, NEW t \in Tickers
             PROVE  \/ ~HasAnswer(CellOf(t)) /\ RowsOf(t) = {} /\ CoverageOf(t) = {}
                    \/ /\ HasAnswer(CellOf(t))
                       /\ RowsOf(t) = answers[CellOf(t)].rows
                       /\ CoverageOf(t) = answers[CellOf(t)].coverage
  BY DEF ReadsOne
<1> DEFINE s == source[MarketOf[t]]
           stored == StoredOf(t)
<1>1. s \in Sources \cup {None} BY DEF IInv, BaseTyped, Markets
<1>2. RowsOf(t) = UNION {a.rows : a \in stored} /\ CoverageOf(t) = UNION {a.coverage : a \in stored}
  BY DEF RowsOf, CoverageOf
<1>3. CASE s = None \/ answers[<<s, t>>] = None
  <2>1. stored = {} BY <1>3 DEF StoredOf
  <2>2. ~HasAnswer(<<s, t>>) BY <1>3, CorpActsAssumption DEF HasAnswer
  <2> HIDE DEF stored
  <2> QED BY <1>2, <2>1, <2>2 DEF CellOf
<1>4. CASE s # None /\ answers[<<s, t>>] # None
  <2>1. stored = {answers[<<s, t>>]} BY <1>4 DEF StoredOf
  <2>2. <<s, t>> \in Sources \X Tickers BY <1>1, <1>4
  <2> HIDE DEF stored, s
  <2>3. RowsOf(t) = answers[<<s, t>>].rows BY <1>2, <2>1
  <2>4. CoverageOf(t) = answers[<<s, t>>].coverage BY <1>2, <2>1
  <2> QED BY <1>4, <2>2, <2>3, <2>4 DEF s, HasAnswer, CellOf
<1> QED BY <1>3, <1>4

\* An instrument has finitely many actions, of what is read (Attributed).
LEMMA AttributedFinite ==
  ASSUME NEW i, NEW v, \A t \in Tickers : IsFiniteSet(v.rows[t]) PROVE IsFiniteSet(Attributed(i, v))
<1> DEFINE at(t) == {r \in v.rows[t] : r.ex \in Days /\ v.naming[t][r.ex] = i}
           sets == {at(t) : t \in HomeTickers(i)}
           g == [t \in HomeTickers(i) |-> at(t)]
<1>1. Attributed(i, v) = UNION sets BY DEF Attributed
<1>2. g \in [HomeTickers(i) -> sets] /\ \A y \in sets : \E t \in HomeTickers(i) : g[t] = y OBVIOUS
<1>3. HomeTickers(i) \subseteq Tickers BY DEF HomeTickers
<1>4. ASSUME NEW t \in HomeTickers(i) PROVE IsFiniteSet(at(t))
  <2>1. IsFiniteSet(v.rows[t]) BY <1>3
  <2>2. at(t) \subseteq v.rows[t] OBVIOUS
  <2> HIDE DEF at
  <2> QED BY <2>1, <2>2, FS_Subset
<1> HIDE DEF at
<1>5. \A y \in sets : IsFiniteSet(y) BY <1>4
<1> HIDE DEF sets, g
<1>6. IsFiniteSet(HomeTickers(i)) BY <1>3, FS_Subset, CorpActsAssumption
<1>7. IsFiniteSet(sets) BY <1>2, <1>6, FiniteImage
<1> QED BY <1>1, <1>5, <1>7, FS_UNION

\* An action that restates is not of unknown effect, so that two rows of one day and ratio that
\* restate are counted as one (Same).
LEMMA SameWhenRestating ==
  ASSUME NEW r, NEW q, Restates(r), Restates(q), r.ex = q.ex, r.ratio = q.ratio
  PROVE  Same(r) = Same(q)
<1>1. None \notin Decisions BY CorpActsAssumption
<1>2. ~Unknown(r) /\ ~Unknown(q) BY <1>1 DEF Unknown, Restates, Decisions
<1>3. Restates(r) = Restates(q) /\ Unknown(r) = Unknown(q) BY <1>2 DEF Unknown, Restates
<1> QED BY <1>3, Zenon DEF Same

\* The days over which an instrument's actions are known, of what is read (Calendars).
LEMMA CalendarDays ==
  ASSUME NEW i, NEW v, NEW d
  PROVE  d \in Calendars(i, v).coverage
            <=> /\ \E t \in HomeTickers(i) : d \in Read(t, v) /\ v.naming[t][d] = i
                /\ d \notin UnknownDays(Attributed(i, v))
<1> DEFINE own(t) == {e \in Read(t, v) : v.naming[t][e] = i}
           named == UNION {own(t) : t \in HomeTickers(i)}
           acts == {Same(r) : r \in Attributed(i, v)}
<1>1. Calendars(i, v) = [acts |-> acts, coverage |-> named \ UnknownDays(Attributed(i, v))] BY Zenon DEF Calendars
<1>2. d \in named <=> \E t \in HomeTickers(i) : d \in Read(t, v) /\ v.naming[t][d] = i OBVIOUS
<1> HIDE DEF acts, named
<1>3. Calendars(i, v).coverage = named \ UnknownDays(Attributed(i, v)) BY <1>1
<1> QED BY <1>2, <1>3

\* On a day, the actions that Factor applies are as many as the ratios of the rows that restate
\* (Same, Calendars and Factor).
LEMMA CountedOnce ==
  ASSUME NEW i, NEW v, NEW asAt \in Days, NEW d \in (asAt + 1)..today, today \in Days,
         IsFiniteSet(Attributed(i, v)), NEW rows, rows = {r \in Attributed(i, v) : r.ex = d}
  PROVE  Cardinality({a \in Factor(Calendars(i, v), asAt).acts : a.ex = d})
            = Cardinality({r.ratio : r \in {e \in rows : Restates(e)}})
<1> DEFINE cal == Calendars(i, v)
           R == {e \in rows : Restates(e)}
           A == {Same(r) : r \in R}
           B == {r.ratio : r \in R}
<1>1. {a \in Factor(cal, asAt).acts : a.ex = d} = A
  <2>1. cal.acts = {Same(r) : r \in Attributed(i, v)} BY DEF Calendars
  <2>2. \A r : Same(r).ex = r.ex /\ (Same(r).restates <=> Restates(r)) BY DEF Same
  <2>3. Factor(cal, asAt).acts = {a \in cal.acts : a.restates /\ a.ex \in (asAt + 1)..today} BY DEF Factor
  <2> HIDE DEF cal
  <2> QED BY <2>1, <2>2, <2>3
<1>2. Cardinality(A) = Cardinality(B)
  <2> DEFINE g == [a \in A |-> a.ratio]
             h == [r \in R |-> Same(r)]
  <2>1. R \subseteq Attributed(i, v) /\ \A r \in R : r.ex = d /\ Restates(r) OBVIOUS
  <2> HIDE DEF R
  <2>2. h \in [R -> A] /\ \A a \in A : \E r \in R : h[r] = a OBVIOUS
  <2>3. \A r : Same(r).ratio = r.ratio BY DEF Same
  <2>4. g \in [A -> B] /\ \A b \in B : \E a \in A : g[a] = b BY <2>3
  <2>5. ASSUME NEW a \in A, NEW b \in A, g[a] = g[b] PROVE a = b
    <3>1. PICK r \in R : a = Same(r) OBVIOUS
    <3>2. PICK q \in R : b = Same(q) OBVIOUS
    <3>3. r.ratio = q.ratio BY <2>3, <2>5, <3>1, <3>2
    <3> QED BY <2>1, <3>1, <3>2, <3>3, SameWhenRestating
  <2> HIDE DEF h, A, B, g
  <2>6. IsFiniteSet(A)
    <3>1. IsFiniteSet(R) BY <2>1, FS_Subset
    <3> QED BY <2>2, <3>1, FiniteImage
  <2>7. g \in Bijection(A, B) BY <2>4, <2>5 DEF Bijection, Injection, Surjection, IsInjective
  <2>8. ExistsBijection(A, B) BY <2>7 DEF ExistsBijection
  <2> QED BY <2>6, <2>8, FS_Bijection
<1> QED BY <1>1, <1>2

\* A listing marks adjusted only what is known, in every state of the invariant in which it may
\* read the actions (Read, Calendars and Factor).
LEMMA AdjustedFromIInv == ASSUME IInv PROVE AdjustedIsKnown
<1> SUFFICES ASSUME list.step = "acts", NEW h \in list.holds, restate(h).covered, NEW d \in (h.asAt + 1)..today,
                    \A t \in {u \in HomeTickers(h.instr) : list.naming[u][d] = h.instr} : ~Torn(t)
             PROVE  LET naming == {t \in HomeTickers(h.instr) : list.naming[t][d] = h.instr}
                        rows == {r \in UNION {RowsOf(t) : t \in naming} : r.ex = d}
                    IN  /\ \E t \in naming : d \in CoverageOf(t)
                        /\ \A r \in rows : ~Unknown(r)
                        /\ Cardinality({a \in restate(h).acts : a.ex = d})
                            = Cardinality({r.ratio : r \in {e \in rows : Restates(e)}})
  BY DEF AdjustedIsKnown
<1> DEFINE naming == {t \in HomeTickers(h.instr) : list.naming[t][d] = h.instr}
           rows == {r \in UNION {RowsOf(t) : t \in naming} : r.ex = d}
<1>0. PICK v : v = Listed OBVIOUS
<1>1. today \in Days /\ h.asAt \in Days /\ Days \subseteq Nat /\ d \in Days
  <2>1. today \in Days /\ h.asAt \in Days /\ Days \subseteq Nat
    BY CorpActsAssumption DEF IInv, BaseTyped, ListOK, Days
  <2> QED BY <2>1, CorpActsAssumption DEF Days
<1>2. PICK i : i = h.instr OBVIOUS
<1>3. \A t \in HomeTickers(i) : t \in Tickers BY DEF HomeTickers
<1>4. /\ v.naming = list.naming
      /\ \A t \in Tickers : /\ v.coverage[t] = list.read[t].coverage
                             /\ v.rows[t] = IF AnswerOf(t).source = list.read[t].source THEN RowsOf(t) ELSE {}
  BY <1>0 DEF Listed, View
<1>5. d \in Calendars(i, v).coverage BY <1>0, <1>2 DEF restate, Factor
<1>6. \A t \in naming : v.rows[t] = RowsOf(t) /\ v.coverage[t] \subseteq CoverageOf(t)
  <2>1. \A t \in naming : ~Torn(t) /\ t \in Tickers BY <1>2, <1>3
  <2>2. \A t \in naming : AnswerOf(t).source = list.read[t].source /\ list.read[t].coverage \subseteq CoverageOf(t)
    BY <2>1 DEF Torn, AnswerOf
  <2> QED BY <1>4, <2>1, <2>2
<1>7. rows = {r \in Attributed(i, v) : r.ex = d}
  <2>1. \A t : t \in naming <=> t \in HomeTickers(i) /\ v.naming[t][d] = i BY <1>2, <1>4
  <2> HIDE DEF naming
  <2> QED BY <1>1, <1>6, <2>1 DEF Attributed
<1>8. \A r \in rows : ~Unknown(r)
  <2>1. d \notin UnknownDays(Attributed(i, v)) BY <1>5, CalendarDays
  <2> HIDE DEF rows
  <2> QED BY <1>7, <2>1 DEF UnknownDays
<1>9. \E t \in naming : d \in CoverageOf(t)
  <2>1. PICK t \in HomeTickers(i) : d \in Read(t, v) /\ v.naming[t][d] = i BY <1>5, CalendarDays
  <2>2. t \in naming /\ d \in v.coverage[t] BY <1>2, <1>4, <2>1 DEF Read
  <2> HIDE DEF naming
  <2> QED BY <1>6, <2>2
<1>10. IsFiniteSet(Attributed(i, v))
  <2>1. \A t \in Tickers : IsFiniteSet(RowsOf(t))
    BY ReadOne, FS_EmptySet DEF ReadsOne, HasAnswer, IInv, StoreOK, RowsFinite
  <2>2. \A t \in Tickers : IsFiniteSet(v.rows[t]) BY <1>4, <2>1, FS_EmptySet
  <2> QED BY <2>2, AttributedFinite
<1>11. restate(h) = Factor(Calendars(i, v), h.asAt) BY <1>0, <1>2 DEF restate
<1>12. PICK rs : rs = rows OBVIOUS
<1>13. PICK asAt \in Days : asAt = h.asAt BY <1>1
<1>14. rs = {r \in Attributed(i, v) : r.ex = d} /\ d \in (asAt + 1)..today BY <1>7, <1>12, <1>13
<1>15. Cardinality({a \in Factor(Calendars(i, v), asAt).acts : a.ex = d})
          = Cardinality({r.ratio : r \in {e \in rs : Restates(e)}})
  BY <1>1, <1>10, <1>14, CountedOnce
<1> QED BY <1>8, <1>9, <1>11, <1>12, <1>13, <1>15

\* A list of holdings, read one statement at a time beside every other request, marks adjusted
\* only what is known on each day since, unless an answer changed between its statements (Read,
\* Calendars, Factor and ListHoldings).
THEOREM AdjustedHoldingsAreKnown == Spec => []AdjustedIsKnown
BY AdjustedFromIInv, CorpActsInductive, PTL

-----------------------------------------------------------------------------
(* What turns an adjusted holding provisional *)

(* The days that the stored answers cover, by instrument. *)
KnownDays ==
    \A i, d : d \in Calendars(i, Now).coverage
                <=> /\ \E t \in HomeTickers(i) :
                        d \in CoverageOf(t) /\ d \notin UnknownDays(RowsOf(t)) /\ validity[t][d] = i
                    /\ ~\E t \in HomeTickers(i) : \E r \in RowsOf(t) :
                        Unknown(r) /\ r.ex = d /\ d \in Days /\ validity[t][d] = i

\* CalendarDays, of what is stored.
LEMMA CalendarsKnown == KnownDays
<1> SUFFICES ASSUME NEW i, NEW d
             PROVE  d \in Calendars(i, Now).coverage
                <=> /\ \E t \in HomeTickers(i) :
                        d \in CoverageOf(t) /\ d \notin UnknownDays(RowsOf(t)) /\ validity[t][d] = i
                    /\ ~\E t \in HomeTickers(i) : \E r \in RowsOf(t) :
                        Unknown(r) /\ r.ex = d /\ d \in Days /\ validity[t][d] = i
  BY DEF KnownDays
<1>0. PICK v : v = Now OBVIOUS
<1>1. \A t \in HomeTickers(i) : t \in Tickers BY DEF HomeTickers
<1>2. /\ v.naming = validity
      /\ \A t \in Tickers : v.coverage[t] = CoverageOf(t) /\ v.rows[t] = RowsOf(t)
  BY <1>0 DEF Now, View
<1>3. d \in Calendars(i, v).coverage
            <=> /\ \E t \in HomeTickers(i) : d \in Read(t, v) /\ v.naming[t][d] = i
                /\ d \notin UnknownDays(Attributed(i, v))
  BY CalendarDays
<1>4. \A t \in HomeTickers(i) : d \in Read(t, v) <=> d \in CoverageOf(t) /\ d \notin UnknownDays(RowsOf(t))
  BY <1>1, <1>2 DEF Read
<1>5. \A r : r \in Attributed(i, v) <=> \E t \in HomeTickers(i) : r \in RowsOf(t) /\ r.ex \in Days /\ validity[t][r.ex] = i
  BY <1>1, <1>2 DEF Attributed
<1>6. d \in UnknownDays(Attributed(i, v)) <=> \E r \in Attributed(i, v) : Unknown(r) /\ r.ex = d BY DEF UnknownDays
<1>7. d \in UnknownDays(Attributed(i, v))
        <=> \E t \in HomeTickers(i) : \E r \in RowsOf(t) : Unknown(r) /\ r.ex = d /\ d \in Days /\ validity[t][d] = i
  BY <1>5, <1>6
<1> QED BY <1>0, <1>2, <1>3, <1>4, <1>7

\* One stored answer is read after a step too.
LEMMA ReadsAfter == IInv' => ReadsOne'
BY ReadOne, PTL

\* CalendarDays after a step.
LEMMA KnownAfter == KnownDays'
BY CalendarsKnown, PTL

\* A transaction stays adjusted when no stored answer gets a day of unknown effect and none
\* loses a day of the transaction's (Calendars and Factor, read after the step).
LEMMA StaysAdjusted ==
  ASSUME IInv, IInv', UNCHANGED <<today, validity, source>>, NEW x, Adjusted(x),
         \A c \in Sources \X Tickers : answers'[c] # None =>
            \A r \in answers'[c].rows : Unknown(r) =>
                answers[c] # None /\ r.ex \in UnknownDays(answers[c].rows),
         \A t \in HomeTickers(InstrOn(x.key, x.asAt)), d \in (x.asAt + 1)..today :
            /\ HasAnswer(CellOf(t))
            /\ d \in answers[CellOf(t)].coverage
            /\ validity[t][d] = InstrOn(x.key, x.asAt)
            => answers'[CellOf(t)] # None /\ d \in answers'[CellOf(t)].coverage
  PROVE  Adjusted(x)'
<1>0. PICK i : i = InstrOn(x.key, x.asAt) OBVIOUS
<1>1. InstrOn(x.key, x.asAt)' = i /\ i # None BY <1>0 DEF InstrOn, Adjusted
<1>2. (x.asAt + 1)..today \subseteq Calendars(i, Now).coverage BY <1>0 DEF Adjusted, Factor
<1>3. ASSUME NEW d \in (x.asAt + 1)..today PROVE d \in Calendars(i, Now)'.coverage
  <2>1. /\ \E t \in HomeTickers(i) :
            d \in CoverageOf(t) /\ d \notin UnknownDays(RowsOf(t)) /\ validity[t][d] = i
        /\ ~\E t \in HomeTickers(i) : \E r \in RowsOf(t) :
            Unknown(r) /\ r.ex = d /\ d \in Days /\ validity[t][d] = i
    BY <1>2, <1>3, CalendarsKnown DEF KnownDays
  <2>2. PICK t \in HomeTickers(i) : d \in CoverageOf(t) /\ d \notin UnknownDays(RowsOf(t)) /\ validity[t][d] = i
    BY <2>1
  <2>3. \A u \in HomeTickers(i) : u \in Tickers BY DEF HomeTickers
  <2>4. HasAnswer(CellOf(t)) /\ d \in answers[CellOf(t)].coverage /\ d \notin UnknownDays(answers[CellOf(t)].rows)
    BY <2>2, <2>3, ReadOne DEF ReadsOne
  <2>5. answers'[CellOf(t)] # None /\ d \in answers'[CellOf(t)].coverage BY <1>0, <1>3, <2>2, <2>4
  <2>6. d \notin UnknownDays(answers'[CellOf(t)].rows) BY <2>4, <2>5 DEF HasAnswer, UnknownDays
  <2>7. d \in CoverageOf(t)' /\ d \notin UnknownDays(RowsOf(t)')
    <3>1. HasAnswer(CellOf(t))' /\ CellOf(t)' = CellOf(t) BY <2>4, <2>5 DEF HasAnswer, CellOf
    <3>2. CoverageOf(t)' = answers'[CellOf(t)].coverage /\ RowsOf(t)' = answers'[CellOf(t)].rows
      BY <2>3, <3>1, ReadsAfter DEF ReadsOne
    <3> QED BY <2>5, <2>6, <3>2
  <2>8. ASSUME NEW u \in HomeTickers(i), NEW r \in RowsOf(u)', Unknown(r), r.ex = d, d \in Days, validity[u][d] = i
        PROVE  FALSE
    <3>2. HasAnswer(CellOf(u))' /\ r \in (answers[CellOf(u)])'.rows BY <2>3, <2>8, ReadsAfter DEF ReadsOne
    <3>3. CellOf(u)' = CellOf(u) BY DEF CellOf
    <3>4. HasAnswer(CellOf(u)) /\ d \in UnknownDays(answers[CellOf(u)].rows) BY <2>8, <3>2, <3>3 DEF HasAnswer
    <3>5. PICK e \in answers[CellOf(u)].rows : Unknown(e) /\ e.ex = d BY <3>4 DEF UnknownDays
    <3>6. e \in RowsOf(u) BY <2>3, <3>4, ReadOne DEF ReadsOne
    <3> QED BY <2>1, <2>8, <3>5, <3>6
  <2>9. HomeTickers(i)' = HomeTickers(i) /\ validity' = validity BY DEF HomeTickers
  <2>10. /\ \E u \in HomeTickers(i) : d \in CoverageOf(u)' /\ d \notin UnknownDays(RowsOf(u)') /\ validity'[u][d] = i
         /\ ~\E u \in HomeTickers(i) : \E r \in RowsOf(u)' : Unknown(r) /\ r.ex = d /\ d \in Days /\ validity'[u][d] = i
    BY <2>2, <2>7, <2>8, <2>9
  <2> QED BY <2>9, <2>10, KnownAfter DEF KnownDays
<1> QED BY <1>1, <1>3 DEF Adjusted, Factor

\* An answer that does not uncover a transaction leaves no day of it out (Record).
LEMMA RecordCovers ==
  ASSUME IInv, NEW f \in Fetches, fetches[f].keys # None, NEW k \in fetches[f].keys,
         NEW x \in txns, ~Uncovers(f, k, x), InstrOn(x.key, x.asAt) # None,
         k.ticker \in HomeTickers(InstrOn(x.key, x.asAt)),
         NEW d \in (x.asAt + 1)..today, validity[k.ticker][d] = InstrOn(x.key, x.asAt)
  PROVE  d \in covered(k.coverage, k.day)
<1> DEFINE p == Head(fetches[f].parts)
           seen == p.seen
<1>1. fetches[f] \in FetchSet /\ KeysAnswer(fetches[f]) BY DEF IInv, FetchesOK
<1>2. fetches[f].parts # <<>> /\ k \in calls /\ CallOK(k)
  BY <1>1 DEF KeysAnswer, FetchSet, IInv, StoreOK
<1>3. PICK q \in p.reqs : q.ticker = k.ticker /\ q.period = k.period BY <1>1 DEF KeysAnswer
<1>4. p \in GoodParts(today) BY <1>1, <1>2, HeadTailProperties DEF FetchSet
<1>5. x \in seen.txns /\ seen.validity = validity /\ seen.today = today /\ k.coverage # {} BY DEF Uncovers, Stale
<1> HIDE DEF p
<1>6. ReachesBack(q, seen) BY <1>4 DEF GoodParts, PartOK
<1>7. k.coverage = q.period BY <1>2, <1>3, <1>5 DEF CallOK
<1>8. SeenInstr(seen, x) = InstrOn(x.key, x.asAt) BY <1>5 DEF SeenInstr, InstrOn
<1>9. MarketOf[q.ticker] = Home[SeenInstr(seen, x)] BY <1>3, <1>8 DEF HomeTickers
<1>10. today \in Days /\ x.asAt \in Days /\ Days \subseteq Nat
  BY CorpActsAssumption DEF IInv, BaseTyped, Txns, Days
<1>11. d \in Days /\ x.asAt < d /\ d <= today BY <1>10, CorpActsAssumption DEF Days
<1>12. d \in q.period BY <1>3, <1>5, <1>6, <1>8, <1>9, <1>11 DEF ReachesBack
<1> QED BY <1>2, <1>7, <1>12 DEF CallOK, covered

\* An answer that does not uncover a transaction adds no action of unknown effect (merge).
LEMMA RecordKnows ==
  ASSUME NEW rows, NEW acts \in SUBSET Acts,
         \A a \in acts : a.handled \/ a \in {Stored(r) : r \in rows},
         NEW r \in merge(rows, acts), Unknown(r)
  PROVE  r \in rows
<1> DEFINE row(a) == [ex |-> a.ex, ratio |-> a.ratio, handled |-> a.handled, decision |-> None,
                      finding |-> IF a.handled THEN "none" ELSE "open"]
           added == acts \ {Stored(e) : e \in rows}
<1>1. r \in rows \/ \E a \in added : r = row(a) BY DEF merge
<1>2. ASSUME NEW a \in added, r = row(a) PROVE FALSE
  <2>1. a.handled OBVIOUS
  <2>2. r.decision = None /\ r.handled = a.handled BY <1>2
  <2>3. None # "other" BY CorpActsAssumption DEF Decisions
  <2> QED BY <2>1, <2>2, <2>3 DEF Unknown
<1> QED BY <1>1, <1>2

\* A recorded answer turns provisional only what it uncovers (Record).
LEMMA RecordKeeps ==
  ASSUME IInv, IInv', NEW f \in Fetches, fetches[f].keys # None, NEW k \in fetches[f].keys, Record(f, k),
         NEW x \in txns, Adjusted(x), ~Uncovers(f, k, x)
  PROVE  Adjusted(x)'
<1> DEFINE c == <<k.source, k.ticker>>
           old == answers[c]
           new == writeAnswer(old, k)
<1>1. UNCHANGED <<today, validity, source>> BY DEF Record
<1>2. fetches[f] \in FetchSet BY DEF IInv, FetchesOK
<1>3. k \in Given BY <1>2 DEF FetchSet, IInv, StoreOK, StoreTyped
<1>4. c \in Sources \X Tickers BY <1>3 DEF Given
<1>5. \A e \in Sources \X Tickers : answers'[e] = IF e = c THEN new ELSE answers[e]
  BY <1>4 DEF Record, IInv, StoreOK, StoreTyped
<1>6. CASE later(old, k)
  <2>1. new = old BY <1>6 DEF writeAnswer
  <2>2. \A e \in Sources \X Tickers : answers'[e] = answers[e] BY <1>5, <2>1
  <2>3. \A t \in Tickers : HasAnswer(CellOf(t)) => CellOf(t) \in Sources \X Tickers BY DEF HasAnswer
  <2>4. \A t \in HomeTickers(InstrOn(x.key, x.asAt)) : t \in Tickers BY DEF HomeTickers
  <2> HIDE DEF c, old, new
  <2> QED BY <1>1, <2>2, <2>3, <2>4, StaysAdjusted DEF HasAnswer, UnknownDays
<1>7. CASE ~later(old, k)
  <2> DEFINE rows == IF old = None THEN {} ELSE old.rows
             acts == judged(k.acts)
  <2>1. new = [at |-> k.at, coverage |-> covered(k.coverage, k.day), rows |-> merge(rows, acts)]
    BY <1>7 DEF writeAnswer
  <2>2. acts \in SUBSET Acts BY <1>3, JudgedActs DEF Given
  <2>3. \A a \in acts : a.handled \/ a \in {Stored(r) : r \in rows} BY DEF Uncovers
  <2> HIDE DEF acts, rows
  <2>4. new.rows = merge(rows, acts) /\ new.coverage = covered(k.coverage, k.day) BY <2>1
  <2> HIDE DEF new
  <2>5. ASSUME NEW r \in new.rows, Unknown(r) PROVE old # None /\ r.ex \in UnknownDays(old.rows)
    <3>1. r \in rows BY <2>2, <2>3, <2>4, <2>5, RecordKnows
    <3> QED BY <2>5, <3>1 DEF rows, UnknownDays
  <2>6. \A e \in Sources \X Tickers : answers'[e] # None =>
            \A r \in answers'[e].rows : Unknown(r) =>
                answers[e] # None /\ r.ex \in UnknownDays(answers[e].rows)
    BY <1>5, <2>5 DEF UnknownDays
  <2>7. new # None
    <3>1. new \in Answers
      <4>1. old \in Answers \cup {None} /\ (old # None => IsFiniteSet(old.rows)) /\ LatestAt(old, told[c]) /\ CallOK(k)
        BY <1>2, <1>4, LatestByCell DEF IInv, StoreOK, StoreTyped, RowsFinite, FetchSet
      <4> HIDE DEF old, c
      <4> QED BY <1>3, <4>1, WriteAnswerGood DEF new
    <3> QED BY <3>1, CorpActsAssumption
  <2>8. ASSUME NEW t \in HomeTickers(InstrOn(x.key, x.asAt)), NEW d \in (x.asAt + 1)..today,
               HasAnswer(CellOf(t)), d \in answers[CellOf(t)].coverage, validity[t][d] = InstrOn(x.key, x.asAt)
        PROVE  answers'[CellOf(t)] # None /\ d \in answers'[CellOf(t)].coverage
    <3>1. CASE CellOf(t) = c
      <4>1. t = k.ticker BY <3>1 DEF CellOf
      <4>2. InstrOn(x.key, x.asAt) # None BY DEF Adjusted
      <4>3. d \in covered(k.coverage, k.day) BY <2>8, <4>1, <4>2, RecordCovers
      <4> QED BY <1>4, <1>5, <2>4, <2>7, <3>1, <4>3
    <3>2. CASE CellOf(t) # c BY <1>5, <2>8, <3>2 DEF HasAnswer
    <3> QED BY <3>1, <3>2
  <2> QED BY <1>1, <2>6, <2>8, StaysAdjusted
<1> QED BY <1>6, <1>7

\* A decision that the system can apply leaves what is adjusted adjusted (DecideCorpAct).
LEMMA DecideKeeps ==
  ASSUME IInv, IInv', NEW s \in Sources, NEW t \in Tickers, NEW d \in Decisions, answers[<<s, t>>] # None,
         NEW r \in answers[<<s, t>>].rows, DecideCorpAct(s, t, r, d), NEW x \in txns, Adjusted(x), d # "other"
  PROVE  Adjusted(x)'
<1> DEFINE c == <<s, t>>
           a == answers[c]
           e == Decided(r, d)
           b == [a EXCEPT !.rows = (@ \ {r}) \cup {e}]
<1>1. UNCHANGED <<today, validity, source>> BY DEF DecideCorpAct
<1>2. c \in Sources \X Tickers /\ a # None OBVIOUS
<1>3. a \in Answers /\ FindingsOK(a.rows)
  BY <1>2, LatestByCell DEF IInv, StoreOK, StoreTyped, LatestAt
<1>4. e.decision = d BY <1>3, DecidedRow DEF Answers, FindingsOK
<1>5. \A i \in Sources \X Tickers : answers'[i] = IF i = c THEN b ELSE answers[i]
  BY DEF DecideCorpAct, IInv, StoreOK, StoreTyped
<1>6. b.coverage = a.coverage /\ b.rows = (a.rows \ {r}) \cup {e} BY <1>3 DEF Answers
<1>7. b # None
  <2>1. told[c] # None BY <1>2 DEF IInv, StoreOK, LatestAnswerStands
  <2>2. told' = told BY DEF DecideCorpAct
  <2>3. (answers'[c] = None) = (told'[c] = None) BY DEF IInv, StoreOK, LatestAnswerStands
  <2>4. answers'[c] = b BY <1>2, <1>5
  <2> QED BY <2>1, <2>2, <2>3, <2>4
<1>8. ~Unknown(e) BY <1>4, CorpActsAssumption DEF Unknown
<1> HIDE DEF a, b, c, e
<1>9. \A i \in Sources \X Tickers : answers'[i] # None =>
          \A q \in answers'[i].rows : Unknown(q) => answers[i] # None /\ q.ex \in UnknownDays(answers[i].rows)
  BY <1>2, <1>5, <1>6, <1>8 DEF UnknownDays, a
<1>10. ASSUME NEW u \in Tickers, HasAnswer(CellOf(u))
       PROVE  answers'[CellOf(u)] # None /\ answers'[CellOf(u)].coverage = answers[CellOf(u)].coverage
  BY <1>5, <1>6, <1>7, <1>10 DEF HasAnswer, a
<1>11. \A u \in HomeTickers(InstrOn(x.key, x.asAt)) : u \in Tickers BY DEF HomeTickers
<1> QED BY <1>1, <1>9, <1>10, <1>11, StaysAdjusted

\* A step turns an adjusted transaction provisional only for one of the reasons that the property
\* lists.
LEMMA StepUncovers ==
  ASSUME IInv, IInv', [Next]_vars, NEW x \in txns \cap txns', Adjusted(x), ~Adjusted(x)'
  PROVE  \/ today' # today \/ validity' # validity \/ source' # source
         \/ \E s \in Sources, t \in Tickers :
             /\ answers'[<<s, t>>] # answers[<<s, t>>]
             /\ \/ \E r \in answers'[<<s, t>>].rows : r.decision = "other"
                \/ \E f \in Fetches : /\ fetches[f].keys \notin {None, {}}
                                       /\ \E k \in fetches[f].keys \ fetches'[f].keys : Uncovers(f, k, x)
<1> DEFINE Reason ==
             \E s \in Sources, t \in Tickers :
                /\ answers'[<<s, t>>] # answers[<<s, t>>]
                /\ \/ \E r \in answers'[<<s, t>>].rows : r.decision = "other"
                   \/ \E f \in Fetches : /\ fetches[f].keys \notin {None, {}}
                                          /\ \E k \in fetches[f].keys \ fetches'[f].keys : Uncovers(f, k, x)
<1> SUFFICES ASSUME UNCHANGED <<today, validity, source>> PROVE Reason OBVIOUS
<1>1. ASSUME \A c \in Sources \X Tickers : answers'[c] = answers[c] PROVE FALSE
  <2>1. \A t \in Tickers : HasAnswer(CellOf(t)) => CellOf(t) \in Sources \X Tickers BY DEF HasAnswer
  <2>2. \A t \in HomeTickers(InstrOn(x.key, x.asAt)) : t \in Tickers BY DEF HomeTickers
  <2> HIDE DEF Reason
  <2> QED BY <1>1, <2>1, <2>2, StaysAdjusted DEF HasAnswer, UnknownDays
<1>2. ASSUME NEW f \in Fetches, fetches[f].keys # None, NEW k \in fetches[f].keys, Record(f, k) PROVE Reason
  <2> DEFINE s == k.source
             t == k.ticker
  <2>1. fetches[f] \in FetchSet BY DEF IInv, FetchesOK
  <2>2. s \in Sources /\ t \in Tickers BY <1>2, <2>1 DEF FetchSet, IInv, StoreOK, StoreTyped, Given
  <2>3. fetches'[f].keys = fetches[f].keys \ {k} BY <1>2, <2>1 DEF Record, IInv, FetchesOK, FetchSet
  <2>4. Uncovers(f, k, x) BY <1>2, RecordKeeps
  <2>5. answers'[<<s, t>>] # answers[<<s, t>>]
    <3>1. \A c \in Sources \X Tickers : c # <<s, t>> => answers'[c] = answers[c]
      BY <1>2 DEF Record, IInv, StoreOK, StoreTyped
    <3> HIDE DEF Reason, s, t
    <3> QED BY <1>1, <3>1
  <2>6. fetches[f].keys \notin {None, {}} /\ k \in fetches[f].keys \ fetches'[f].keys BY <1>2, <2>3
  <2> QED BY <2>2, <2>4, <2>5, <2>6
<1>3. ASSUME NEW s \in Sources, NEW t \in Tickers, NEW d \in Decisions, answers[<<s, t>>] # None,
             NEW r \in answers[<<s, t>>].rows, DecideCorpAct(s, t, r, d)
      PROVE  Reason
  <2> DEFINE a == answers[<<s, t>>]
             e == Decided(r, d)
  <2>1. d = "other" BY <1>3, DecideKeeps
  <2>2. <<s, t>> \in Sources \X Tickers OBVIOUS
  <2>3. a \in Answers /\ FindingsOK(a.rows) BY <1>3, <2>2, LatestByCell DEF IInv, StoreOK, StoreTyped, LatestAt
  <2>4. e.decision = d BY <2>3, DecidedRow DEF Answers, FindingsOK
  <2>5. answers'[<<s, t>>] = [a EXCEPT !.rows = (@ \ {r}) \cup {e}]
    BY <1>3, <2>2 DEF DecideCorpAct, IInv, StoreOK, StoreTyped
  <2>6. answers'[<<s, t>>].rows = (a.rows \ {r}) \cup {e} BY <2>3, <2>5 DEF Answers
  <2>7. r.decision # d BY <1>3 DEF DecideCorpAct
  <2> HIDE DEF e
  <2>8. answers'[<<s, t>>].rows # a.rows BY <2>4, <2>6, <2>7
  <2>9. \E q \in answers'[<<s, t>>].rows : q.decision = "other" BY <2>1, <2>4, <2>6
  <2> QED BY <2>8, <2>9
<1>4. ASSUME answers' = answers PROVE Reason BY <1>1, <1>4
<1>5. CASE UNCHANGED vars BY <1>4, <1>5 DEF vars
<1>6. ASSUME NEW f \in Fetches,
             \/ \E u \in Users \cup {None} : \E v \in {u, None}, w \in SUBSET Tickers : FetchHeld(f, u, v, w)
             \/ Start(f) \/ Ask(f) \/ EndPart(f)
      PROVE  answers' = answers
  BY <1>6 DEF FetchHeld, Start, Ask, EndPart
<1>7. ASSUME \/ \E u \in Uploads : WriteStmt(u)
             \/ Attribute
             \/ \E s \in Sources : SetEnabled(s)
             \/ \E m \in Markets : SetSource(m)
             \/ Midnight
             \/ \E u \in Users : ListHoldingKeys(u)
             \/ LoadNaming \/ ListCorpActAnswers \/ ListCorpActs
      PROVE  answers' = answers
  BY <1>7 DEF WriteStmt, Attribute, SetEnabled, SetSource, Midnight,
              ListHoldingKeys, LoadNaming, ListCorpActAnswers, ListCorpActs
<1> HIDE DEF Reason
<1> QED BY <1>2, <1>3, <1>4, <1>5, <1>6, <1>7 DEF Next

\* An adjusted transaction turns provisional only on a new day, by a new attribution or source, by
\* a decision the system cannot apply, or by an answer that uncovers it: no other user's fetch and
\* no refetch does it (requests, writeAnswer and merge).
THEOREM OnlyThatUncovers == Spec => NothingElseUncovers
<1>1. ASSUME IInv, IInv', [Next]_vars
      PROVE  [\A x \in txns \cap txns' : (Adjusted(x) /\ ~Adjusted(x)') =>
        \/ today' # today \/ validity' # validity \/ source' # source
        \/ \E s \in Sources, t \in Tickers :
            /\ answers'[<<s, t>>] # answers[<<s, t>>]
            /\ \/ \E r \in answers'[<<s, t>>].rows : r.decision = "other"
               \/ \E f \in Fetches : /\ fetches[f].keys \notin {None, {}}
                                      /\ \E k \in fetches[f].keys \ fetches'[f].keys : Uncovers(f, k, x)]_vars
  BY <1>1, StepUncovers
<1> QED BY <1>1, CorpActsInductive, PTL DEF Spec, NothingElseUncovers
=============================================================================
