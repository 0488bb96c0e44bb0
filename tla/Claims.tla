------------------------------- MODULE Claims -------------------------------
(***************************************************************************)
(* How a resolution reads its answers: identifiers and their traits, the   *)
(* claims an answer makes, when a claim contradicts or corroborates        *)
(* another, and which claims a resolution attaches or offers.              *)
(*                                                                         *)
(* A fetch key is [src, outcome, sent, filtered, listings, limited,        *)
(* unknown, day]: its datasource, how the fetch ended, the identifier      *)
(* sent, the identifiers the answer was filtered by, its listings (each    *)
(* [class, fam, ids]) and the day of the answer.  A claim is the fetch key *)
(* that made it with the class, the instrument's identifiers and the       *)
(* identifiers of each currency family's listing.  A claim of the          *)
(* database has no fetch key.  Identifiers of a level are a set: their     *)
(* order only breaks ties between equally strong ones.                     *)
(***************************************************************************)
EXTENDS Naturals, Sequences, FiniteSets, SequencesExt, FiniteSetsExt

CONSTANT Market  \* the market each venue belongs to

\* The elements of s at the positions P, in order.
At(s, P) ==
    LET kept[n \in 0..Len(s)] == IF n = 0 THEN <<>>
                                 ELSE IF n \in P THEN Append(kept[n - 1], s[n]) ELSE kept[n - 1]
    IN  kept[Len(s)]

NoFamily == "none"
NoId == [type |-> "none", dom |-> "", val |-> ""]
NoKey == [src |-> "database"]
NoClaim == [fk |-> NoKey, class |-> "none", ids |-> {}, listings |-> <<>>]

-----------------------------------------------------------------------------
(* types *)

\* identifier_type_traits: whose domain, the level named, whether it is
\* stable, and whether a second value contradicts the first.
Traits == [isin       |-> [domain |-> "global", grain |-> "instr",   stable |-> TRUE,  exclusive |-> TRUE],
           shareclass |-> [domain |-> "global", grain |-> "instr",   stable |-> TRUE,  exclusive |-> TRUE],
           sedol      |-> [domain |-> "global", grain |-> "listing", stable |-> TRUE,  exclusive |-> TRUE],
           composite  |-> [domain |-> "global", grain |-> "listing", stable |-> TRUE,  exclusive |-> FALSE],
           ticker     |-> [domain |-> "venue",  grain |-> "listing", stable |-> FALSE, exclusive |-> TRUE],
           currency   |-> [domain |-> "global", grain |-> "instr",   stable |-> TRUE,  exclusive |-> TRUE],
           brokerdesc |-> [domain |-> "issuer", grain |-> "instr",   stable |-> FALSE, exclusive |-> FALSE]]

IsGlobal(id) == \/ Traits[id.type].domain = "global"
                \/ Traits[id.type].domain = "venue" /\ id.dom # ""
Grain(id) == Traits[id.type].grain
Stable(id) == Traits[id.type].stable
Exclusive(id) == Traits[id.type].exclusive
Ticker(id) == id.type = "ticker"
Strength(id) == (IF Traits[id.type].domain = "issuer" THEN 4 ELSE 0)
                + (IF Stable(id) THEN 0 ELSE 2) + (IF Grain(id) = "listing" THEN 1 ELSE 0)

\* The ticker of one market an identifier spells, if it is one at a venue.
MarketTickers(ids) == {<<Market[id.dom], id.val>> : id \in {x \in ids : Ticker(x) /\ x.dom # ""}}

NoTicker == <<"", "">>
statesCurrency(key) == \E id \in key.ids : id.type = "currency"

\* The ticker a key may be dated through: it states no stable global
\* identifier, and a ticker at a venue.
datedTicker(key) ==
    LET ts == MarketTickers(key.ids)
    IN  IF ts = {} \/ (\E id \in key.ids : Stable(id) /\ IsGlobal(id)) THEN NoTicker ELSE CHOOSE t \in ts : TRUE

Parents == [cash |-> "unknown", security |-> "unknown", equity |-> "security", stock |-> "equity",
            etf |-> "equity", fixedincome |-> "security"]
Classes == DOMAIN Parents \cup {"unknown"}
Above[c \in Classes] == {c} \cup (IF c = "unknown" THEN {} ELSE Above[Parents[c]])
Disjoint(a, b) == a \notin Above[b] /\ b \notin Above[a]

AllIDs(c) == c.ids \cup UNION Range(c.listings)

Strongest(ids) == CHOOSE id \in ids : \A o \in ids : Strength(id) <= Strength(o)
StrongestStable(c) == Strongest({id \in AllIDs(c) : Stable(id)})
Confirmable(a) == \E id \in AllIDs(Head(a)) : Stable(id)

-----------------------------------------------------------------------------
(* The claims an answer makes *)

Strict(fk) == {id \in fk.filtered : Grain(id) = "instr"}

InstrIDs(l) == {id \in l.ids : Grain(id) = "instr"}

\* The listings of fk that name one instrument with listing i: all of them
\* under a filter on an instrument, else those joined by shared identifiers.
partition(fk, i) ==
    LET near(S) == {j \in DOMAIN fk.listings :
                      \E k \in S : Strict(fk) # {} \/ j = k
                                   \/ InstrIDs(fk.listings[j]) \cap InstrIDs(fk.listings[k]) # {}}
    IN  FoldLeft(LAMBDA S, l : near(S), {i}, fk.listings)

\* The class of the first listing that knows it.
ClassOf(ls, P) ==
    LET known == {j \in P : ls[j].class # "unknown"}
    IN  ls[Min(IF known = {} THEN P ELSE known)].class

ClaimOf(fk, P) ==
    [fk |-> fk, class |-> ClassOf(fk.listings, P),
     ids |-> Strict(fk) \cup UNION {InstrIDs(fk.listings[j]) : j \in P},
     listings |-> [f \in {fk.listings[j].fam : j \in P} |->
                     UNION {fk.listings[j].ids \ InstrIDs(fk.listings[j]) : j \in {k \in P : fk.listings[k].fam = f}}]]

claims(fk) ==
    LET parts == {partition(fk, i) : i \in DOMAIN fk.listings}
    IN  [n \in 1..Cardinality(parts) |-> ClaimOf(fk, SetToSortSeq(parts, LAMBDA a, b : Min(a) < Min(b))[n])]

named(c) == c.fk # NoKey /\ c.fk.sent \in AllIDs(c)

-----------------------------------------------------------------------------
(* Contradiction and corroboration *)

\* Claim c carries other values of id's type and domain, and not id, where
\* id would stand: on the instrument, or on the listings that may be fam's.
contradicts(c, id, fam) ==
    LET pool == IF Grain(id) = "instr" THEN c.ids
                ELSE UNION {c.listings[f] : f \in {g \in DOMAIN c.listings : fam = NoFamily \/ g \in {fam, NoFamily}}}
        same == {h \in pool : h.type = id.type /\ h.dom = id.dom}
    IN  Exclusive(id) /\ same # {} /\ id \notin same

\* What the key states contradicts claim c.
against(c, key) ==
    \/ /\ ~c.fk.limited /\ key.fam # NoFamily
       /\ DOMAIN c.listings # {} /\ DOMAIN c.listings \cap {key.fam, NoFamily} = {}
    \/ key.class # "none" /\ Disjoint(c.class, key.class)
    \/ \E id \in key.ids : contradicts(c, id, key.fam)

inconsistent(c, a) ==
    \/ Disjoint(c.class, a.class)
    \/ \E id \in a.ids : contradicts(c, id, NoFamily)
    \/ \E f \in DOMAIN a.listings : \E id \in a.listings[f] : contradicts(c, id, f)

sharesStable(c, a) == \E id \in AllIDs(c) \cap AllIDs(a) : Stable(id)

sameDayTicker(c, a) == /\ NoKey \notin {c.fk, a.fk} /\ c.fk.day = a.fk.day
                       /\ MarketTickers(AllIDs(c)) \cap MarketTickers(AllIDs(a)) # {}

corroborates(c, a) == sharesStable(c, a) \/ sameDayTicker(c, a)

confirms(c, key) == Cardinality(AllIDs(c) \cap key.ids)
                    + (IF key.fam # NoFamily /\ key.fam \in DOMAIN c.listings THEN 1 ELSE 0)

-----------------------------------------------------------------------------
(* Choosing *)

\* A claim is refused when it contradicts a claim chosen before it, or does
\* not corroborate the first.
rejects(c, chosen) ==
    \/ \E n \in DOMAIN chosen : inconsistent(c, chosen[n])
    \/ chosen # <<>> /\ ~corroborates(c, chosen[1])

\* Whether a ranks before b: the one that carries the identifier sent, then
\* the one that confirms more of what the key states.
Before(a, b, key) == IF named(a) # named(b) THEN named(a) ELSE confirms(a, key) > confirms(b, key)

\* The first of the best ranked claims.
Best(cs, key) == cs[Min({n \in DOMAIN cs : \A m \in DOMAIN cs : ~Before(cs[m], cs[n], key)})]

\* An answer filtered by the bare ticker may name the instrument under
\* another venue, when no claim carries the ticker sent.
fallback(fk, cs) == /\ IsGlobal(fk.sent) /\ Ticker(fk.sent)
                    /\ \A n \in DOMAIN cs : ~named(cs[n])
                    /\ [fk.sent EXCEPT !.dom = ""] \in fk.filtered

\* The claims of an answer that may be chosen, and those the user may be
\* offered: every claim of an answer to an ambiguous identifier.
Survivors(fk, cs, key, confirmed) ==
    At(cs, {n \in DOMAIN cs : /\ ~against(cs[n], key)
                             /\ IF IsGlobal(fk.sent) THEN named(cs[n]) \/ fallback(fk, cs) ELSE confirmed})
Ambiguous(fk, cs, key, confirmed) ==
    At(cs, {n \in DOMAIN cs : ~against(cs[n], key) /\ ~IsGlobal(fk.sent) /\ ~confirmed})

Undecided(fk, cs, chosen, survivors) == fallback(fk, cs) /\ chosen = <<>> /\ Len(survivors) > 1

\* One fetch key's part in a verdict without the user's choice: the best
\* surviving claim is attached, and a fallback that leaves several is offered.
BestClaim(v, fk, key, survivors, cs) ==
    LET undecided == Undecided(fk, cs, v.chosen, survivors)
        best == Best(survivors, key)
        offered == Append(v.offered, Ambiguous(fk, cs, key, FALSE) \o (IF undecided THEN survivors ELSE <<>>))
    IN  IF survivors = <<>> \/ undecided THEN [v EXCEPT !.offered = offered]
        ELSE [v EXCEPT !.offered = offered, !.attached = Append(@, best), !.chosen = Append(@, best),
                       !.winner = IF @ = NoClaim THEN best ELSE @]

\* The claims of cs that fit what is chosen.
Fitting(cs, chosen) == At(cs, {n \in DOMAIN cs : ~rejects(cs[n], chosen)})

bestClaim(v, fk, key) ==
    IF fk.sent = NoId THEN v
    ELSE BestClaim(v, fk, key, Fitting(Survivors(fk, claims(fk), key, FALSE), v.chosen), claims(fk))

\* The claims of the user's choice stand for their fetch keys, after its head.
chooseMember(v, m) == IF rejects(m, v.chosen) THEN v
                      ELSE [v EXCEPT !.attached = Append(@, m), !.chosen = Append(@, m)]

Refused(key, known, head) == against(head, key) \/ (known # NoClaim /\ inconsistent(head, known))

Verdict(known) == [winner |-> known, refused |-> FALSE, attached |-> <<>>, offered |-> <<>>,
                   chosen |-> IF known = NoClaim THEN <<>> ELSE <<known>>]

\* The verdict on each of fks in turn, and on each member of a choice.
Verdicts(v0, fks, key) ==
    LET v[n \in 0..Len(fks)] == IF n = 0 THEN v0 ELSE bestClaim(v[n - 1], fks[n], key) IN v[Len(fks)]
MemberVerdicts(v0, ms) ==
    LET v[n \in 0..Len(ms)] == IF n = 0 THEN v0 ELSE chooseMember(v[n - 1], ms[n]) IN v[Len(ms)]

\* The user's choice leads with its head.
Led(v, head) == [v EXCEPT !.attached = <<head>>, !.chosen = Append(@, head), !.winner = IF @ = NoClaim THEN head ELSE @]

\* What a resolution attaches, given the instrument it writes (known) and the
\* claims the user chose (choice, empty without one), in precedence order.
choose(key, fks, known, choice) ==
    IF choice = <<>> THEN Verdicts(Verdict(known), fks, key)
    ELSE IF Refused(key, known, Head(choice)) THEN [Verdict(known) EXCEPT !.refused = TRUE]
    ELSE MemberVerdicts(Led(Verdict(known), Head(choice)), Tail(choice))

\* Each alternative gathered so far takes the best claim of the next answer
\* that it does not reject; claims no alternative took start their own.
GatherNext(out, group, key) ==
    LET joined == {Best(Fitting(group, out[n]), key) : n \in {m \in DOMAIN out : Fitting(group, out[m]) # <<>>}}
        alone == At(group, {n \in DOMAIN group : group[n] \notin joined})
    IN  [n \in DOMAIN out |-> IF Fitting(group, out[n]) = <<>> THEN out[n]
                              ELSE Append(out[n], Best(Fitting(group, out[n]), key))]
        \o [n \in DOMAIN alone |-> <<alone[n]>>]

gatherConsistentClaims(groups, key) ==
    LET out[n \in 0..Len(groups)] == IF n = 0 THEN <<>> ELSE GatherNext(out[n - 1], groups[n], key)
    IN  out[Len(groups)]

\* The claims the user is offered, answer by answer.
offeredClaims(key, fks) ==
    LET served == At(fks, {n \in DOMAIN fks : fks[n].outcome = "served"})
    IN  [n \in DOMAIN served |-> Ambiguous(served[n], claims(served[n]), key, FALSE)
                                 \o Survivors(served[n], claims(served[n]), key, FALSE)]
=============================================================================
