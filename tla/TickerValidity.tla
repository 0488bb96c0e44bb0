--------------------------- MODULE TickerValidity ---------------------------
(***************************************************************************)
(* What one ticker names on each day: package tickervalidity               *)
(* (server/internal/identity/tickervalidity).  Facts of the ticker arrive  *)
(* as answers of datasources and as identifier attestations; every write   *)
(* rebuilds the stored ranges from all the facts in its transaction.  The  *)
(* operators down to derive follow derive.go, and the rule they are held   *)
(* to is stated day by day, from the package's account of it.              *)
(*                                                                         *)
(* A day is a number.  A nil bound of a range is Always or Forever, which  *)
(* lie outside every day a fact names.  An instrument is a number, ordered *)
(* as instrument ids are, and Nothing is the nil instrument.  The moment   *)
(* and the id of an answer are one number, since only their order counts.  *)
(***************************************************************************)
EXTENDS Integers, Sequences, SequencesExt, FiniteSetsExt

CONSTANTS LastDay,       \* bound: today, the last day a fact names
          Window,        \* the first day a ticker history answers for
          Instrs,        \* instruments
          Datasources,   \* datasources that answer
          EventSource,   \* the identifier event source of the ticker's market
          Administrator, \* stands for every identifier attestation
          Precedence,    \* the precedence of each datasource
          MaxAnswers     \* bound: answers and attestations

Nothing == 0
Always  == 0
Forever == LastDay + 2
Days    == 1..LastDay
Bounds  == 1..(LastDay + 1)

ASSUME TickerValidityAssumption ==
    /\ LastDay \in Nat /\ Window \in Days /\ MaxAnswers \in Nat
    /\ Instrs \subseteq Nat \ {Nothing}
    /\ EventSource \in Datasources /\ Administrator \notin Datasources
    /\ Precedence \in [Datasources -> Nat]
    /\ \A d, e \in Datasources : d # e => Precedence[d] # Precedence[e]

VARIABLES rows,     \* identifier_assertions: the ticker's assertions
          coverage, \* identifier_assertion_coverage: its periods, with their source
          validity, \* ticker_validity: the stored ranges, in order
          answers   \* the answers given so far

vars == <<rows, coverage, validity, answers>>

-----------------------------------------------------------------------------
(* types/period.go *)

Period(f, b) == [from |-> f, before |-> b]
Periods == {p \in [from : Days, before : Bounds] : p.from < p.before}
NoPeriod == Period(0, 0)
Holds(p, d) == p.from <= d /\ d < p.before
AnyContains(ps, d) == \E i \in DOMAIN ps : Holds(ps[i], d)

\* The days of a set of periods as disjoint periods in order, joining those that
\* overlap or meet.
Union(P) ==
    LET Longest(d) == Max({p.before : p \in {q \in P : q.from = d}})
        Step(out, d) ==
            IF \A p \in P : p.from # d THEN out
            ELSE IF out # <<>> /\ d <= Last(out).before
            THEN [out EXCEPT ![Len(out)].before = Max({@, Longest(d)})]
            ELSE Append(out, Period(d, Longest(d)))
    IN FoldLeft(Step, <<>>, [d \in Days |-> d])

-----------------------------------------------------------------------------
(* tickervalidity.go: sources *)

Attested(a) == a.src = Administrator

Standing(s) == CASE s = Administrator -> 2
                 [] s = EventSource   -> 1
                 [] OTHER             -> 0

Outranks(s, o) == \/ Standing(s) > Standing(o)
                  \/ /\ Standing(s) = Standing(o)
                     /\ s \in Datasources
                     /\ Precedence[s] < Precedence[o]

\* Assertions of one source compete by the moment of their answers.
Newer(a, b) == a.ans > b.ans

\* store.go: edges and coverage count only from the market's event source.
Facts(as, cs) ==
    [assertions |-> {[a EXCEPT !.edgeFrom = @ /\ a.src = EventSource,
                               !.edgeBefore = @ /\ a.src = EventSource] : a \in as},
     coverage   |-> {Period(c.from, c.before) : c \in {x \in cs : x.src = EventSource}}]

-----------------------------------------------------------------------------
(* derive.go: what later answers leave *)

Edges(a) == {[at |-> d, by |-> a] : d \in {x \in {a.from, a.before} :
                                              \/ x = a.from /\ a.edgeFrom
                                              \/ x = a.before /\ a.edgeBefore}}

\* The pieces of an assertion outside the disjoint periods taken.
Clip(a, taken) ==
    LET Piece(f, b) ==
            IF f >= b THEN {}
            ELSE {[a EXCEPT !.from = f, !.before = b, !.edgeFrom = @ /\ f = a.from,
                            !.edgeBefore = @ /\ b = a.before]}
        Step(s, t) ==
            IF t.before <= s.from \/ t.from >= a.before THEN s
            ELSE [from |-> t.before, out |-> s.out \cup Piece(s.from, t.from)]
        s == FoldLeft(Step, [from |-> a.from, out |-> {}], taken)
    IN s.out \cup Piece(s.from, a.before)

Reach(a) == {Period(a.from, a.before)} \cup (IF a.asked.from < a.asked.before THEN {a.asked} ELSE {})

\* The days later answers of its source take from an assertion.
Later(a, as) == Union(UNION {Reach(b) : b \in {x \in as : x.src = a.src /\ Newer(x, a)}})

\* The edges of an assertion later answers leave: those on which one side stands.
Kept(a, taken) == {e \in Edges(a) : ~(AnyContains(taken, e.at - 1) /\ AnyContains(taken, e.at))}

Left(a, taken) == [pieces |-> Clip(a, taken), edges |-> Kept(a, taken)]

Current(as) == LET left == {Left(a, Later(a, as)) : a \in as}
               IN [assertions |-> UNION {l.pieces : l \in left}, edges |-> UNION {l.edges : l \in left}]

-----------------------------------------------------------------------------
(* derive.go: the winner of each day *)

\* Whether attestations on either side of an edge name one instrument.
Overruled(e, as) ==
    LET c == e.at
        End(x) == Min({x.before, c})
        Start(x) == Max({x.from, c})
        before == {x \in as : Attested(x) /\ x.from < c}
        after  == {x \in as : Attested(x) /\ x.before > c}
    IN \E x \in before, y \in after :
          /\ \A z \in before : End(z) <= End(x)
          /\ \A z \in after : Start(y) <= Start(z)
          /\ x.instr # Nothing /\ x.instr = y.instr

\* A negative assertion counts only after a positive one: of its own source for
\* a datasource, of anyone for an administrator.
Counts(a, as) == \/ a.instr # Nothing
                 \/ \E p \in as : /\ p.instr # Nothing /\ p.from < a.from
                                  /\ Attested(a) \/ p.src = a.src

Better(a, b) == CASE Outranks(a.src, b.src) -> TRUE
                  [] Outranks(b.src, a.src) -> FALSE
                  [] OTHER -> a.instr # Nothing /\ (b.instr = Nothing \/ a.instr < b.instr)

Best(held) == CHOOSE a \in held : \A b \in held : ~Better(b, a)

InOrder(S) == SelectSeq([d \in Bounds |-> d], LAMBDA d : d \in S)

\* Mutant: a loser is reported on a day an attestation wins too.
Disagree_AttestedDays(dis, slot, best, held) ==
    dis \cup {[from |-> slot.from, before |-> slot.before, winner |-> best, loser |-> a] :
                 a \in {x \in held : ~Attested(x) /\ x.instr # best.instr}}

\* The disagreements once a run of days, slot, is won by best among held.
Disagree(dis, slot, best, held) ==
    LET losers == {a \in held : ~Attested(best) /\ ~Attested(a) /\ a.instr # best.instr}
        Pair(x) == <<x.winner, x.loser>>
        grown == {x \in dis : /\ x.winner = best /\ x.loser \in losers /\ x.before = slot.from
                              /\ \A y \in dis : Pair(y) = Pair(x) => x.from <= y.from}
    IN (dis \ grown) \cup {[x EXCEPT !.before = slot.before] : x \in grown}
       \cup {[from |-> slot.from, before |-> slot.before, winner |-> best, loser |-> a] :
                 a \in {l \in losers : \A x \in grown : x.loser # l}}

\* The winners and the disagreements s once best of held wins the days of slot: its
\* run grows unless an edge falls where they meet.
Win(s, slot, best, held, cut) ==
    LET grows == /\ s.ws # <<>> /\ Last(s.ws).by = best
                 /\ Last(s.ws).before = slot.from /\ slot.from \notin cut
    IN [ws |-> IF grows THEN [s.ws EXCEPT ![Len(s.ws)].before = slot.before]
               ELSE Append(s.ws, [from |-> slot.from, before |-> slot.before,
                                  instr |-> best.instr, by |-> best]),
        dis |-> Disagree(s.dis, slot, best, held)]

Contest(s, slot, held, cut) == IF held = {} THEN s ELSE Win(s, slot, Best(held), held, cut)

ContestAll(counted, cut, bounds) ==
    LET Step(s, k) == Contest(s, Period(bounds[k], bounds[k + 1]),
                              {a \in counted : Holds(a, bounds[k])}, cut)
    IN FoldLeft(Step, [ws |-> <<>>, dis |-> {}], [k \in 1..(Len(bounds) - 1) |-> k])

\* One winner per run of days a counting assertion holds, in order, broken at
\* every edge; and the datasources' assertions that lost a day to another thing.
Winners(as, es) ==
    LET counted == {a \in as : Counts(a, as)}
        cut == {e.at : e \in es}
    IN ContestAll(counted, cut, InOrder(cut \cup {a.from : a \in counted}
                                            \cup {a.before : a \in counted}))

-----------------------------------------------------------------------------
(* derive.go: the ranges between cuts *)

\* Consecutive winners that name one thing.
Spans(ws) ==
    LET Step(out, w) ==
            IF out # <<>> /\ Last(out).instr = w.instr
            THEN [out EXCEPT ![Len(out)].before = w.before]
            ELSE Append(out, [instr |-> w.instr, from |-> w.from, before |-> w.before])
    IN FoldLeft(Step, <<>>, ws)

\* Mutant: forward looks at the last day of the range, not the day after it.
Forward_LastDay(d, limit, cover) ==
    LET Step(x, p) == IF Holds(p, x - 1) THEN p.before ELSE x
    IN Min({limit, FoldLeft(Step, d, cover)})

\* The ends of a confirmed range extend through covered days, up to a limit.
Forward(d, limit, cover) ==
    LET Step(x, p) == IF Holds(p, x) THEN p.before ELSE x
    IN Min({limit, FoldLeft(Step, d, cover)})

Back(d, limit, cover) ==
    LET Step(p, x) == IF Holds(p, x - 1) THEN p.from ELSE x
    IN Max({limit, FoldRight(Step, cover, d)})

Interval(f, b, i, v) == [from |-> f, before |-> b, instr |-> i, validity |-> v]

\* A span that names nothing has no range.
RangesOf(r, ivs) == IF r.instr = Nothing THEN <<>> ELSE ivs

\* Mutant: an instrument keeps no days past its last assertion.
NextFloor_AfterSpan(r, ceil) == r.before

\* How far back the next span may extend: an instrument keeps the days up to the
\* next assertion, a retirement the days after it.
NextFloor(r, ceil) == IF r.instr = Nothing THEN r.before ELSE ceil

\* The ranges of span r, confirmed from..to: provisional after it, and before it
\* where it is the first between its cuts.
Ranges(r, first, floor, from, to, ceil) ==
    RangesOf(r, (IF first /\ floor < from
                 THEN <<Interval(floor, from, r.instr, "provisional")>> ELSE <<>>)
                \o <<Interval(from, to, r.instr, "confirmed")>>
                \o (IF to < ceil THEN <<Interval(to, ceil, r.instr, "provisional")>> ELSE <<>>))

\* The days on which the change from span r to the next may have happened.
Change(r, to, ceil) == [from |-> IF r.instr = Nothing THEN r.before ELSE to, before |-> ceil + 1]

SegmentStep(s, ss, k, ceil, from, to) ==
    [floor |-> NextFloor(ss[k], ceil),
     out |-> s.out \o Ranges(ss[k], k = 1, s.floor, from, to, ceil),
     inferred |-> s.inferred \cup (IF k < Len(ss) THEN {Change(ss[k], to, ceil)} ELSE {})]

\* The ranges of the spans between two cuts, and the changes they imply.
Segment(ss, start, end, cover) ==
    LET Ceil(k) == IF k < Len(ss) THEN ss[k + 1].from ELSE end
        Step(s, k) == SegmentStep(s, ss, k, Ceil(k), Back(ss[k].from, s.floor, cover),
                                  Forward(ss[k].before, Ceil(k), cover))
    IN FoldLeft(Step, [floor |-> start, out |-> <<>>, inferred |-> {}], [k \in 1..Len(ss) |-> k])

\* Ranges that meet and agree become one.
Join(ivs) ==
    LET Step(out, iv) ==
            IF /\ out # <<>> /\ Last(out).before = iv.from
               /\ Last(out).instr = iv.instr /\ Last(out).validity = iv.validity
            THEN [out EXCEPT ![Len(out)].before = iv.before]
            ELSE Append(out, iv)
    IN FoldLeft(Step, <<>>, ivs)

\* Inferred changes whose possible days one covered period holds in full.
Missed(inferred, cover) ==
    {c \in inferred : \E i \in DOMAIN cover : cover[i].from <= c.from /\ c.before <= cover[i].before}

\* The segments between consecutive cuts, each from the winners that begin in it.
Segments(ws, cuts, cover) ==
    LET Between(k) == SelectSeq(ws, LAMBDA w : cuts[k] <= w.from /\ w.from < cuts[k + 1])
        Add(s, seg) == [out |-> s.out \o seg.out, inferred |-> s.inferred \cup seg.inferred]
        Step(s, k) == Add(s, Segment(Spans(Between(k)), cuts[k], cuts[k + 1], cover))
    IN FoldLeft(Step, [out |-> <<>>, inferred |-> {}], [k \in 1..(Len(cuts) - 1) |-> k])

Cuts(cur) == <<Always>> \o InOrder({e.at : e \in {x \in cur.edges : ~Overruled(x, cur.assertions)}})
                        \o <<Forever>>

Derivation(cur, won, segs, cover) ==
    [intervals |-> Join(segs.out), disagreements |-> won.dis,
     missed |-> Missed(segs.inferred, cover), edges |-> cur.edges]

DeriveFrom(cur, won, cover) == Derivation(cur, won, Segments(won.ws, Cuts(cur), cover), cover)
DeriveCurrent(cur, cover) == DeriveFrom(cur, Winners(cur.assertions, cur.edges), cover)
Derive(f) == DeriveCurrent(Current(f.assertions), Union(f.coverage))

-----------------------------------------------------------------------------
(* record.go, attestidentifier.go: the writes *)

Assertion(p, i, ef, eb, s, n, asked) ==
    [from |-> p.from, before |-> p.before, instr |-> i, edgeFrom |-> ef, edgeBefore |-> eb,
     src |-> s, ans |-> n, asked |-> asked]

Init == rows = {} /\ coverage = {} /\ validity = <<>> /\ answers = {}

\* Every write rebuilds the ticker from all of its facts before it commits.
Rebuild == validity' = Derive(Facts(rows', coverage')).intervals

\* An answer's moment is the call's, so a cached answer written now may be older
\* than what is stored.
Answered(n) == n \notin answers /\ answers' = answers \cup {n}

\* An entity's ticker history: the ticker over the days it named the entity, an
\* edge at each rename, and coverage of the days asked for.  The assertion is
\* skipped where the entity's identifiers give no instrument.
RecordHistory(s, p, renamed, i, n) ==
    LET asked == Period(Window, LastDay + 1)
        a == Assertion(p, i, renamed \/ p.from > Window, p.before <= LastDay, s, n, asked)
        c == Period(Max({p.from, Window}), p.before)
    IN /\ Answered(n)
       /\ rows' = rows \cup (IF i = Nothing THEN {} ELSE {a})
       /\ coverage' = coverage \cup (IF c.from < c.before
                                     THEN {[from |-> c.from, before |-> c.before, src |-> s]} ELSE {})
       /\ Rebuild

\* A lookup of one day, or what a datasource named on the day it answered.  The
\* period a lookup asks for is its one day, so it reaches no further.
RecordDay(s, d, i, n) ==
    /\ Answered(n)
    /\ rows' = rows \cup {Assertion(Period(d, d + 1), i, FALSE, FALSE, s, n, NoPeriod)}
    /\ coverage' = coverage
    /\ Rebuild

Attest(p, i, n) ==
    /\ Answered(n)
    /\ rows' = rows \cup {Assertion(p, i, FALSE, FALSE, Administrator, n, NoPeriod)}
    /\ coverage' = coverage
    /\ Rebuild

Withdraw(a) ==
    /\ a \in rows /\ Attested(a)
    /\ rows' = rows \ {a}
    /\ UNCHANGED <<coverage, answers>>
    /\ Rebuild

Next == \/ \E p \in Periods, r \in BOOLEAN, i \in Instrs \cup {Nothing}, n \in 1..MaxAnswers :
              RecordHistory(EventSource, p, r, i, n)
        \/ \E s \in Datasources, d \in Days, i \in Instrs \cup {Nothing}, n \in 1..MaxAnswers :
              RecordDay(s, d, i, n)
        \/ \E p \in Periods, i \in Instrs \cup {Nothing}, n \in 1..MaxAnswers : Attest(p, i, n)
        \/ \E a \in rows : Withdraw(a)

Spec == Init /\ [][Next]_vars

-----------------------------------------------------------------------------
(* The rule, day by day, as the package comment of tickervalidity.go states it *)

Silent == -1
FactsNow == Facts(rows, coverage)
Asserted == FactsNow.assertions

\* A later answer of its source reaches the day.
ReplacedOn(a, d) == \E b \in Asserted : /\ b.src = a.src /\ b.ans > a.ans
                                        /\ \E p \in Reach(b) : Holds(p, d)
StandsOn(a, d) == Holds(a, d) /\ ~ReplacedOn(a, d)

\* The first of the unbroken days up to d on which an assertion stands.
BeganBy(a, d) == Min({x \in 1..d : \A y \in x..d : StandsOn(a, y)})

Contenders(d) ==
    {a \in Asserted :
        /\ StandsOn(a, d)
        /\ a.instr = Nothing =>
              \E p \in Asserted, x \in 1..(BeganBy(a, d) - 1) :
                 p.instr # Nothing /\ StandsOn(p, x) /\ (Attested(a) \/ p.src = a.src)}

\* The contenders of the highest standing, then of the lowest precedence number.
Leaders(C) == LET top == {a \in C : \A b \in C : Standing(b.src) <= Standing(a.src)}
              IN {a \in top : \A b \in top : Attested(a) \/ Precedence[a.src] <= Precedence[b.src]}

\* What wins each day: an instrument, Nothing, or Silent where no assertion does.
WonOn == [d \in Days |->
             LET C == Contenders(d)
                 named == {a.instr : a \in Leaders(C)} \ {Nothing}
             IN IF C = {} THEN Silent ELSE IF named = {} THEN Nothing ELSE Min(named)]

\* Attestations of one instrument on the nearest attested days either side.
Bracketed(c) ==
    LET On(x) == {a.instr : a \in {y \in Asserted : Attested(y) /\ StandsOn(y, x)}}
        attested == {x \in Days : On(x) # {}}
        before == {x \in attested : x < c}
        after == {x \in attested : x >= c}
    IN /\ before # {} /\ after # {}
       /\ On(Max(before)) = On(Min(after)) /\ Nothing \notin On(Max(before))

CutAt(c) == /\ \E a \in Asserted : /\ (a.edgeFrom /\ a.from = c) \/ (a.edgeBefore /\ a.before = c)
                                   /\ ~(ReplacedOn(a, c - 1) /\ ReplacedOn(a, c))
            /\ ~Bracketed(c)

\* What the ticker names on each day, one day before every fact to one after, from
\* what wins each day, where a change is known, and the days covered.
RuleFrom(won, cut, covered) ==
    LET Covered(x, y) == x..y \subseteq covered
        On(d) ==
            LET earlier == {x \in Days : x < d /\ won[x] # Silent /\ cut \cap ((x + 1)..d) = {}}
                later == {x \in Days : d < x /\ won[x] # Silent /\ cut \cap ((d + 1)..x) = {}}
                prior == IF earlier = {} THEN Silent ELSE won[Max(earlier)]
                next == IF later = {} THEN Silent ELSE won[Min(later)]
                firm == \/ d \in Days /\ won[d] # Silent
                        \/ prior \in Instrs /\ (next = prior \/ Covered(Max(earlier) + 1, d))
                        \/ prior \notin Instrs /\ next \in Instrs /\ Covered(d, Min(later) - 1)
                named == IF d \in Days /\ won[d] # Silent THEN won[d]
                         ELSE IF prior \in Instrs THEN prior
                         ELSE IF prior = Silent \/ firm THEN next ELSE Nothing
            IN IF named \in Instrs
               THEN {[instr |-> named, validity |-> IF firm THEN "confirmed" ELSE "provisional"]}
               ELSE {}
    IN [d \in 0..(LastDay + 1) |-> On(d)]

Rule == RuleFrom(WonOn, {c \in Bounds : CutAt(c)},
                 UNION {p.from..(p.before - 1) : p \in FactsNow.coverage})

NamedOn(ivs, d) == {[instr |-> ivs[k].instr, validity |-> ivs[k].validity] :
                        k \in {j \in DOMAIN ivs : Holds(ivs[j], d)}}

-----------------------------------------------------------------------------
(* Properties *)

\* The stored facts and ranges are well formed.
TypeOK == /\ \A a \in rows : /\ Period(a.from, a.before) \in Periods
                             /\ a.instr \in Instrs \cup {Nothing}
                             /\ a.src \in Datasources \cup {Administrator}
                             /\ a.ans \in answers
          /\ \A c \in coverage : Period(c.from, c.before) \in Periods /\ c.src \in Datasources
          /\ \A k \in DOMAIN validity : validity[k].instr \in Instrs
          /\ answers \subseteq 1..MaxAnswers

\* The ranges satisfy the table's constraints, or the rebuild would fail and with
\* it every write of the ticker's facts: none is empty, no two share a day
\* (010_ticker_validity.sql), and no two that meet say the same (derive.go join).
RangesStorable ==
    \A j \in DOMAIN validity :
        /\ validity[j].from < validity[j].before
        /\ j > 1 => LET p == validity[j - 1] IN
              /\ p.before <= validity[j].from
              /\ p.before = validity[j].from =>
                    p.instr # validity[j].instr \/ p.validity # validity[j].validity

\* The stored ranges can be stored, and give each day the instrument and the
\* firmness the package's rule gives it: who wins the day, what later answers and
\* overruled edges leave, brackets, coverage, cuts, retirements and grey zones
\* (derive.go derive).
FollowsTheRule == RangesStorable /\ [d \in 0..(LastDay + 1) |-> NamedOn(validity, d)] = Rule

\* The disagreements reported are, day by day, the datasources' contenders that
\* name something other than the winner, and none on a day an attestation wins.
DisagreementsByDay ==
    LET found == Derive(FactsNow).disagreements
        won == WonOn
    IN \A d \in Days :
        LET C == Contenders(d) IN
        {<<x.winner.instr, x.loser.instr, x.loser.src>> : x \in {y \in found : Holds(y, d)}}
          = {<<won[d], a.instr, a.src>> :
                a \in {x \in C : x.instr # won[d] /\ \A y \in C : ~Attested(y)}}

\* The days a ticker already named keep their instrument when a datasource asserts
\* something else on a later day: the earlier instrument keeps the days between
\* (tickervalidity.go, "before and after the later assertion arrives").
GreyZoneStands ==
    [][\A a \in rows' \ rows :
          (/\ coverage' = coverage /\ ~Attested(a) /\ a.asked = NoPeriod
           /\ \A b \in rows : b.before <= a.from)
          => \A d \in 0..(a.from - 1) :
                NamedOn(validity, d) # {} =>
                   {x.instr : x \in NamedOn(validity', d)} = {x.instr : x \in NamedOn(validity, d)}]_vars

=============================================================================
