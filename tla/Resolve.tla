------------------------------ MODULE Resolve -------------------------------
(***************************************************************************)
(* Resolutions of stated keys that run side by side: each reads the        *)
(* database, asks the datasources, and writes its key in one transaction   *)
(* against a database the others have changed since.  A user confirms a    *)
(* candidate the same way, a datasource is disabled between an answer and  *)
(* its write, and held tickers are reasserted.                             *)
(*                                                                         *)
(* An instrument is [class, fams, ids, ref]: its listings' families, its   *)
(* identifiers each with the family of its listing, and whether it is      *)
(* reference data.  Instruments are numbered in the order of their         *)
(* creation, and no number is used again, as no uuid is.  A fact says a    *)
(* market's ticker names an instrument, or nothing (None); the days facts  *)
(* hold on are TickerValidity's subject and the locks of a write           *)
(* FactWrites'.  One resolution is one key of a run.                       *)
(*                                                                         *)
(* A write is one step.  In the code it is a Read Committed transaction    *)
(* that locks the identifiers stated and answered, so two writes that      *)
(* share one of those take turns and the step is what the code does.  Two  *)
(* that meet at one instrument through different identifiers overlap in    *)
(* the code and not here: nothing is claimed of what the two together add. *)
(***************************************************************************)
EXTENDS Claims

CONSTANTS Keys,        \* the stated keys
          Key,         \* what each states: [ids, class, fam]
          Sources,     \* the datasources, in precedence order
          Answers,     \* Answers[key][source]: what the source may answer
          Runs,        \* bound: resolutions at once
          MaxRuns,     \* bound: resolutions in all
          MayDisable,  \* the datasources that may be disabled
          MaxInstrs,   \* bound: instruments created
          InstrsAtStart \* the instruments stored at the start

\* The identifiers of claim c that may stand on the instrument, or on fam's
\* listing: a listing whose currency is not known may be any family's.
Standing(c, fam) == c.ids \cup UNION {c.listings[f] : f \in DOMAIN c.listings \cap {fam, NoFamily}}

ASSUME SourcesAssumption == Len(Sources) \in Nat /\ DOMAIN Sources = 1..Len(Sources)
ASSUME KeysAssumption == \A k \in Keys : IsFiniteSet(Key[k].ids)

ASSUME AnswersAssumption ==
    \A k \in Keys : \A s \in Range(Sources) : \A fk \in Answers[k][s] : IsFiniteSet(DOMAIN fk.listings)

\* Claim c carries no two values of one exclusive type where one may stand.
\* Nothing in the code refuses a datasource's claim that does.
AgreesWithItself(c) ==
    \A f \in DOMAIN c.listings \cup {NoFamily} : \A p, q \in Standing(c, f) :
        p.type = q.type /\ p.dom = q.dom /\ Exclusive(p) => p = q

\* The claims of answers fks.
ClaimsOf(fks) == UNION {Range(claims(fks[n])) : n \in DOMAIN fks}

Instrs == 1..MaxInstrs
Carried(i) == {p[1] : p \in i.ids}

\* A stored instrument's identifiers stand on it or on one of its listings.
Instr(i) == /\ i = [class |-> i.class, fams |-> i.fams, ids |-> i.ids, ref |-> i.ref]
            /\ \A p \in i.ids : p = <<p[1], p[2]>> /\ p[2] \in i.fams \cup {NoFamily}

\* No two values of an exclusive type in one domain on instrument i itself or
\* on one of its listings.  The seeded cash instruments carry several codes.
OneValue(i) ==
    \A p, q \in i.ids :
        p[2] = q[2] /\ p[1].type = q[1].type /\ p[1].dom = q[1].dom /\ Exclusive(p[1]) => p = q

ASSUME InstrsAssumption ==
    /\ MaxInstrs \in Nat
    /\ Len(InstrsAtStart) \in 0..MaxInstrs /\ DOMAIN InstrsAtStart = 1..Len(InstrsAtStart)
    /\ \A i \in DOMAIN InstrsAtStart : Instr(InstrsAtStart[i])
    /\ \A i, j \in DOMAIN InstrsAtStart :
          i # j => Carried(InstrsAtStart[i]) \cap Carried(InstrsAtStart[j]) = {}

VARIABLES instrs,   \* instrs, listings and identifiers: the stored instruments by number
          created,  \* how many instruments were ever created
          assoc,    \* stated_keys: [instr, via, ticker, arbiter] of each key
          covered,  \* identity_coverage: pairs of instrument and datasource
          facts,    \* identifier_assertions: pairs of ticker and instrument
          enabled,  \* the enabled datasources
          run,      \* the resolutions under way, and how the last ones ended
          started,  \* how many have started
          offers    \* the picks the last search for candidates offered, by key

vars == <<instrs, created, assoc, covered, facts, enabled, run, started, offers>>

None == 0
NoPick == [src |-> "none", id |-> NoId]
Unassociated == [instr |-> None, via |-> NoId, ticker |-> NoTicker, arbiter |-> "none"]
Idle == [step |-> "idle", kind |-> "none", key |-> CHOOSE k \in Keys : TRUE, pick |-> NoPick,
         outcome |-> "none", dating |-> NoTicker, fromFacts |-> FALSE, fks |-> <<>>, held |-> None, heldIDs |-> {},
         why |-> "none"]

Live == DOMAIN instrs
LookupIDs(ids) == {id \in ids : ~Ticker(id)}
GlobalAndDescriptionIDs(key) == {id \in key.ids : IsGlobal(id) \/ id.type = "brokerdesc"}

\* The instruments that carry one of ids.
findInstrsByIdentifier(db, ids) == {i \in DOMAIN db : Carried(db[i]) \cap ids # {}}

classConflict(key, class) == key.class # "none" /\ Disjoint(key.class, class)
statesBareTicker(key) == \E id \in key.ids : Ticker(id) /\ id.dom = ""

-----------------------------------------------------------------------------
(* Preparing: what the database knows of the key *)

Matched(key) == findInstrsByIdentifier(instrs, LookupIDs(GlobalAndDescriptionIDs(key)))

\* The key's instrument and, where the database alone settles it, its outcome.
match(key) ==
    LET hits == Matched(key)
    IN  IF Cardinality(hits) > 1 THEN [known |-> None, outcome |-> "unrecognised"]
        ELSE IF hits = {} THEN
            [known |-> None, outcome |-> IF (\E id \in key.ids : IsGlobal(id)) \/ statesBareTicker(key)
                                         THEN "none" ELSE "unrecognised"]
        ELSE [known |-> Min(hits), outcome |-> IF classConflict(key, instrs[Min(hits)].class)
                                               THEN "unrecognised" ELSE "none"]

findResolutionCurrency(key) ==
    LET hits == findInstrsByIdentifier(instrs, {id \in key.ids : id.type = "currency"})
        i == Min(hits)
    IN  IF \/ hits = {}
           \/ classConflict(key, instrs[i].class)
           \/ key.fam # NoFamily /\ key.fam \notin instrs[i].fams
        THEN [known |-> None, outcome |-> "rejected"] ELSE [known |-> i, outcome |-> "none"]

findResolutionInstr(key) == IF statesCurrency(key) THEN findResolutionCurrency(key) ELSE match(key)

\* Facts that name an instrument make intervals, unless facts that name
\* nothing overrule them.
MayHaveIntervals(t) == \E i \in Live : <<t, i>> \in facts
MayHaveNone(t) == ~MayHaveIntervals(t) \/ <<t, None>> \in facts

\* What prepare reads: k is the key's row as the caller read it.
Prepared(k, key, hit, dates) ==
    LET t == IF ~dates \/ hit.outcome # "none" THEN NoTicker
             ELSE IF k.ticker # NoTicker THEN k.ticker ELSE datedTicker(key)
        plain == [known |-> hit.known, outcome |-> hit.outcome, dating |-> t, fromFacts |-> FALSE]
        found == [known |-> hit.known, outcome |-> "matched", dating |-> t, fromFacts |-> k.ticker = NoTicker]
    IN  IF t = NoTicker THEN {plain}
        ELSE IF k.ticker # NoTicker THEN {found}
        ELSE IF hit.known # None THEN {plain}
        ELSE (IF MayHaveIntervals(t) THEN {found} ELSE {}) \cup (IF MayHaveNone(t) THEN {plain} ELSE {})

\* Reference data is covered by every datasource.
CoveredBy(i) == IF i = None THEN {} ELSE {s \in Range(Sources) : instrs[i].ref \/ <<i, s>> \in covered}

\* Every enabled datasource that has not answered for the known instrument is
\* asked, all at once; nothing the database holds is read in between.
Asked(p) == At(Sources, {n \in DOMAIN Sources : p.outcome = "none" /\ Sources[n] \in enabled \ CoveredBy(p.known)})

fetchResolutionIdentities(asked, k) ==
    {a \in [DOMAIN asked -> UNION {Answers[k][s] : s \in Range(asked)}] : \A n \in DOMAIN asked : a[n].src = asked[n]}

prepare(r, kind, k, pick) ==
    /\ run[r].step \in {"idle", "done", "failed"} /\ started < MaxRuns
    /\ started' = started + 1
    /\ \E p \in Prepared(assoc[k], Key[k], findResolutionInstr(Key[k]), kind = "resolve") :
       \E fks \in fetchResolutionIdentities(Asked(p), k) :
          run' = [run EXCEPT ![r] = [Idle EXCEPT !.step = "write", !.kind = kind, !.key = k, !.pick = pick, !.fks = fks,
                                         !.outcome = p.outcome, !.dating = p.dating, !.fromFacts = p.fromFacts]]
    /\ UNCHANGED <<instrs, created, assoc, covered, facts, enabled, offers>>

StartResolve(r) == \E k \in Keys : prepare(r, "resolve", k, NoPick)

\* A search for candidates, or a confirmation of one, of a key the caller
\* read as not associated.
StartCandidates(r) == \E k \in Keys : assoc[k] = Unassociated /\ prepare(r, "candidates", k, NoPick)
StartConfirm(r) == \E k \in Keys : /\ assoc[k] = Unassociated
                                   /\ \E p \in offers[k] : prepare(r, "confirm", k, p)

\* A reassertion of a held ticker reads the instrument the ticker names now,
\* and asks every datasource.
StartReassert(r) ==
    /\ run[r].step \in {"idle", "done", "failed"} /\ started < MaxRuns
    /\ started' = started + 1
    /\ \E k \in Keys : \E i \in Live \cup {None} :
          /\ assoc[k].ticker # NoTicker
          /\ IF i = None THEN MayHaveNone(assoc[k].ticker) ELSE <<assoc[k].ticker, i>> \in facts
          /\ \E fks \in fetchResolutionIdentities(At(Sources, {n \in DOMAIN Sources : Sources[n] \in enabled}), k) :
                run' = [run EXCEPT ![r] = [Idle EXCEPT !.step = "write", !.kind = "reassert", !.key = k, !.fks = fks,
                                               !.dating = assoc[k].ticker, !.held = i,
                                               !.heldIDs = IF i = None THEN {} ELSE Carried(instrs[i])]]
    /\ UNCHANGED <<instrs, created, assoc, covered, facts, enabled, offers>>

-----------------------------------------------------------------------------
(* Writing: pure parts *)

Served(fks) == {n \in DOMAIN fks : fks[n].outcome = "served"}

\* The identifiers that decide the instrument to write: those stated, and
\* those of the winner and of the attached claims a stable identifier joins
\* to it.
TargetIDs(key, v) == LookupIDs(GlobalAndDescriptionIDs(key)) \cup
    UNION {LookupIDs(AllIDs(v.attached[n])) :
             n \in {m \in DOMAIN v.attached : v.attached[m] = v.winner \/ sharesStable(v.attached[m], v.winner)}}

\* Mutant: only classes are compared.
mergeConflict_ClassesOnly(db, M) == \E i, j \in M : Disjoint(db[i].class, db[j].class)

\* Two instruments each carry a value of one exclusive type in one domain
\* and family, or their classes have no instrument in common.
mergeConflict(db, M) ==
    \E i, j \in M :
        /\ i # j
        /\ \/ Disjoint(db[i].class, db[j].class)
           \/ \E p \in db[i].ids, q \in db[j].ids :
                 Exclusive(p[1]) /\ p[1].type = q[1].type /\ p[1].dom = q[1].dom /\ p[2] = q[2]

\* A refused merge writes the instrument of the strongest stated identifier,
\* else the earliest.
Kept(db, key, M) ==
    LET ids == {id \in LookupIDs(GlobalAndDescriptionIDs(key)) : findInstrsByIdentifier(db, {id}) \cap M # {}}
    IN  IF ids = {} THEN Min(M) ELSE Min(findInstrsByIdentifier(db, {Strongest(ids)}))

findWriteTarget(db, key, M) ==
    IF M = {} THEN [instr |-> None, gone |-> {}, taken |-> {}]
    ELSE IF Cardinality(M) = 1 THEN [instr |-> Min(M), gone |-> {}, taken |-> {}]
    ELSE IF mergeConflict(db, M)
         THEN [instr |-> Kept(db, key, M), gone |-> {},
               taken |-> UNION {Carried(db[i]) : i \in M \ {Kept(db, key, M)}}]
    ELSE [instr |-> Min(M), gone |-> M \ {Min(M)}, taken |-> {}]

\* The survivor of a merge takes the losers' listings and identifiers.
fold(db, t) == [i \in DOMAIN db \ t.gone |->
    IF i = t.instr THEN [db[i] EXCEPT !.fams = @ \cup UNION {db[j].fams : j \in t.gone},
                                      !.ids = @ \cup UNION {db[j].ids : j \in t.gone}]
    ELSE db[i]]

\* Mutant: what refers to a loser is left as it was.
Relinked_Left(i, t) == i

Relinked(i, t) == IF i \in t.gone THEN t.instr ELSE i

DbClaim(i) == [fk |-> NoKey, class |-> i.class, ids |-> {p[1] : p \in {q \in i.ids : q[2] = NoFamily}},
               listings |-> [f \in i.fams |-> {p[1] : p \in {q \in i.ids : q[2] = f}}]]

\* Mutant: such claims are kept.
dropHeld_Kept(db, attached, chooser, i) == attached

\* Attached claims that only a ticker joins to the first winner are dropped
\* when one of their identifiers identifies another instrument.
dropHeld(db, attached, chooser, i) ==
    At(attached, {n \in DOMAIN attached :
        \/ chooser # NoClaim /\ (attached[n] = chooser \/ sharesStable(attached[n], chooser))
        \/ findInstrsByIdentifier(db, LookupIDs(AllIDs(attached[n]))) \subseteq {i}})

\* The identifiers of a claim that are stored, each with its listing's family.
Storable(c) == {<<id, NoFamily>> : id \in LookupIDs(c.ids)} \cup
               UNION {{<<id, f>> : id \in LookupIDs(c.listings[f])} : f \in DOMAIN c.listings \ {NoFamily}}

\* The row of an identifier several claims may carry: the first claim's.
FirstRow(attached, id) ==
    LET n == Min({m \in DOMAIN attached : \E p \in Storable(attached[m]) : p[1] = id})
    IN  CHOOSE p \in Storable(attached[n]) : p[1] = id

\* The claims are attached in turn, each adding what the instrument lacks.
attach(i, attached, taken) ==
    LET offered == UNION {{p[1] : p \in Storable(c)} : c \in Range(attached)}
    IN  [i EXCEPT !.fams = @ \cup UNION {DOMAIN c.listings \ {NoFamily} : c \in Range(attached)},
                  !.ids = @ \cup {FirstRow(attached, id) : id \in offered \ (Carried(i) \cup taken)}]

\* The unique index on identifiers refuses a second row of one identifier.
Collisions(db, i) == {id \in Carried(db[i]) : findInstrsByIdentifier(db, {id}) # {i}}

\* Why the transaction failed: on an identifier of a claim that only the
\* choice against the stored instrument attached, or of one looked up.
CollisionOf(ids, first, attached) ==
    IF ids \subseteq UNION {AllIDs(c) : c \in Range(attached) \ Range(first.attached)} THEN "late_claim" ELSE "collision"

\* The identifier a key is associated through: the strongest it states.
identityVia(key, i) ==
    LET ids == GlobalAndDescriptionIDs(key) \cap Carried(i) IN IF ids = {} THEN NoId ELSE Strongest(ids)

\* Mutant: the update overwrites an association the user arbitrated.
SetAssociation_AnyArbiter(as, k, new) == [as EXCEPT ![k] = new]

\* Both updates of an association skip a key the user arbitrated.
SetAssociation(as, k, new) == IF as[k].arbiter = "user" THEN as ELSE [as EXCEPT ![k] = new]

SetFixed(as, k, i, via, arbiter) ==
    SetAssociation(as, k, [instr |-> i, via |-> via, ticker |-> NoTicker, arbiter |-> arbiter])
writeDated(as, k, t, arbiter) ==
    SetAssociation(as, k, [instr |-> None, via |-> NoId, ticker |-> t, arbiter |-> arbiter])

\* Datasources that answered that they know nothing of the ticker sent.
recordUnknown(fks) == UNION {{[src |-> fks[n].src, t |-> t, i |-> None] : t \in MarketTickers({fks[n].sent})} :
                               n \in {m \in Served(fks) : fks[m].unknown}}

AttachedFacts(attached, i) == UNION {{[src |-> attached[n].fk.src, t |-> t, i |-> i] :
                                        t \in MarketTickers(AllIDs(attached[n]))} : n \in DOMAIN attached}

\* Covered: a datasource whose claim was attached, or that listed nothing.
recordIdentityCoverage(fks, attached, i) ==
    {<<i, fks[n].src>> : n \in {m \in Served(fks) :
        fks[m].listings = <<>> \/ \E a \in DOMAIN attached : attached[a].fk = fks[m]}}

unresolved(fks) == IF \E n \in DOMAIN fks : fks[n].outcome \in {"blocked", "failed"}
                   THEN "unavailable" ELSE "unrecognised"
-----------------------------------------------------------------------------
(* Writing: the transaction of a resolution *)

\* What remains of a resolution that ended.
Ended(r, step, why) == [Idle EXCEPT !.step = step, !.kind = run[r].kind, !.why = why]

Fail(r, why) == /\ run' = [run EXCEPT ![r] = Ended(r, "failed", why)]
                /\ UNCHANGED <<instrs, created, assoc, covered, facts, enabled, started, offers>>

\* The database alone settled the key.
WriteSettled(r) ==
    /\ run[r].step = "write" /\ run[r].kind = "resolve" /\ run[r].outcome # "none"
    /\ assoc' = IF run[r].fromFacts THEN writeDated(assoc, run[r].key, run[r].dating, "stated") ELSE assoc
    /\ run' = [run EXCEPT ![r].step = "record", ![r].fks = <<>>]
    /\ UNCHANGED <<instrs, created, covered, facts, enabled, started, offers>>

Created == created + 1

\* A transaction that commits: db are the instruments, t the merge it made,
\* as the associations, i the instrument written (None where none was).
Commit(r, db, t, as, i, attached, outcome) ==
    LET new == recordUnknown(run[r].fks) \cup AttachedFacts(attached, i)
        cov == IF i = None THEN {} ELSE recordIdentityCoverage(run[r].fks, attached, i)
    IN  /\ instrs' = db
        /\ created' = IF i = Created THEN i ELSE created
        /\ assoc' = [k \in Keys |-> [as[k] EXCEPT !.instr = Relinked(@, t)]]
        /\ covered' = {<<Relinked(p[1], t), p[2]>> : p \in covered} \cup cov
        /\ facts' = {<<p[1], Relinked(p[2], t)>> : p \in facts} \cup {<<f.t, f.i>> : f \in new}
        /\ run' = [run EXCEPT ![r].step = "record", ![r].outcome = outcome, ![r].fks = <<>>]
        /\ UNCHANGED <<enabled, started, offers>>

\* db holds the instrument i as written; choice is the user's, with its via.
associate(r, key, first, db, t, i, v, attached, choice) ==
    LET k == run[r].key
        via == identityVia(key, db[i])
        arbiter == IF choice.claims # <<>> THEN "user" ELSE IF v.winner.fk = NoKey THEN "stated" ELSE "datasource"
    IN  IF Collisions(db, i) # {} THEN Fail(r, CollisionOf(Collisions(db, i), first, attached))
        ELSE IF via # NoId
             THEN Commit(r, db, t, SetFixed(assoc, k, i, via, arbiter), i, attached, "matched")
        ELSE IF choice.claims # <<>>
             THEN IF choice.via \in Carried(db[i])
                  THEN Commit(r, db, t, SetFixed(assoc, k, i, choice.via, arbiter), i, attached, "matched")
                  ELSE Fail(r, "no_candidate")
        ELSE IF run[r].dating # NoTicker
             THEN Commit(r, db, t, writeDated(assoc, k, run[r].dating, arbiter), i, attached, "matched")
        ELSE Commit(r, db, t, assoc, i, attached, "unrecognised")

\* The instrument as it stands before the claims are attached.
writeInstr(db, t, v) == IF t.instr # None THEN db[t.instr]
                        ELSE [class |-> v.winner.class, fams |-> {}, ids |-> {}, ref |-> FALSE]

\* v is the verdict given the instrument written, attached what dropHeld kept.
writeDecision(r, key, first, db, t, v, attached, choice) ==
    IF v.winner = NoClaim THEN Commit(r, db, t, assoc, None, <<>>, unresolved(run[r].fks))
    ELSE LET i == IF t.instr # None THEN t.instr ELSE Created
             written == attach(writeInstr(db, t, v), attached, t.taken)
         IN  /\ i \in Instrs
             /\ associate(r, key, first, [j \in DOMAIN db \cup {i} |-> IF j = i THEN written ELSE db[j]],
                          t, i, v, attached, choice)

\* first is the verdict before the instrument is known, t the instrument to
\* write, db the instruments after its merge.
decideOn(r, key, first, db, t, v, choice) ==
    IF t.instr # None /\ classConflict(key, db[t.instr].class)
    THEN Commit(r, db, t, assoc, None, <<>>, "unrecognised")
    ELSE IF v.refused THEN Fail(r, "no_candidate")
    ELSE writeDecision(r, key, first, db, t, v, dropHeld(db, v.attached, first.winner, t.instr), choice)

decideTarget(r, key, first, t, choice) ==
    LET db == fold(instrs, t)
    IN  decideOn(r, key, first, db, t,
                 IF t.instr = None THEN first ELSE choose(key, run[r].fks, DbClaim(db[t.instr]), choice.claims), choice)

decide(r, key, first, choice) ==
    IF first.refused THEN Fail(r, "no_candidate")
    ELSE decideTarget(r, key, first,
                      findWriteTarget(instrs, key, findInstrsByIdentifier(instrs, TargetIDs(key, first))), choice)

NoChoice == [claims |-> <<>>, via |-> NoId]

WriteResolved(r) ==
    /\ run[r].step = "write" /\ run[r].kind = "resolve" /\ run[r].outcome = "none"
    /\ decide(r, Key[run[r].key], choose(Key[run[r].key], run[r].fks, NoClaim, <<>>), NoChoice)

\* The alternative the user picked, among what the answers offer now.
Picked(alts, pick) == {n \in DOMAIN alts : Head(alts[n]).fk.src = pick.src /\ pick.id \in AllIDs(Head(alts[n]))}

findUserChoice(alts, pick) ==
    LET a == alts[Min(Picked(alts, pick))]
    IN  IF Picked(alts, pick) = {} \/ ~Confirmable(a) THEN NoChoice
        ELSE [claims |-> a, via |-> IF Stable(pick.id) THEN pick.id ELSE StrongestStable(Head(a))]

Confirm(r, key, choice) ==
    IF choice = NoChoice THEN Fail(r, "no_candidate")
    ELSE decide(r, key, choose(key, run[r].fks, NoClaim, choice.claims), choice)

Alternatives(key, fks) == gatherConsistentClaims(offeredClaims(key, fks), key)

WriteConfirmed(r) ==
    /\ run[r].step = "write" /\ run[r].kind = "confirm"
    /\ IF run[r].outcome # "none" THEN Fail(r, "no_candidate")
       ELSE Confirm(r, Key[run[r].key], findUserChoice(Alternatives(Key[run[r].key], run[r].fks), run[r].pick))

\* A search for candidates writes nothing but findings.
ShowCandidates(r) ==
    /\ run[r].step = "write" /\ run[r].kind = "candidates"
    /\ offers' = [offers EXCEPT ![run[r].key] =
                    UNION {{[src |-> Head(a).fk.src, id |-> id] : id \in AllIDs(Head(a))} :
                             a \in {b \in Range(Alternatives(Key[run[r].key], run[r].fks)) : Confirmable(b)}}]
    /\ run' = [run EXCEPT ![r] = Ended(r, "done", "none")]
    /\ UNCHANGED <<instrs, created, assoc, covered, facts, enabled, started>>

-----------------------------------------------------------------------------
(* Identifier facts *)

\* What an answer asserts of held ticker t: nothing, that it names nothing,
\* the instrument read at the start where the listing shares an identifier,
\* else the stored instrument of a stable identifier of the listing.
assertHeld(fk, t, held, heldIDs) ==
    LET ls == {n \in DOMAIN fk.listings : t \in MarketTickers(fk.listings[n].ids)}
        l == fk.listings[Min(ls)]
        stored == findInstrsByIdentifier(instrs, {id \in l.ids : Stable(id)})
    IN  IF fk.outcome # "served" THEN {}
        ELSE IF fk.unknown THEN {None}
        ELSE IF ls = {} THEN {}
        ELSE IF held # None /\ l.ids \cap heldIDs # {} THEN {held}
        ELSE IF stored = {} THEN {} ELSE {Min(stored)}

\* The answers of a reassertion are written in one transaction, which fails
\* on an instrument a merge has deleted.
WriteReasserted(r) ==
    /\ run[r].step = "write" /\ run[r].kind = "reassert"
    /\ LET said(n) == assertHeld(run[r].fks[n], run[r].dating, run[r].held, run[r].heldIDs)
           new == UNION {said(n) : n \in DOMAIN run[r].fks}
       IN  IF new \subseteq Live \cup {None}
           THEN /\ facts' = facts \cup {<<run[r].dating, i>> : i \in new}
                /\ run' = [run EXCEPT ![r] = Ended(r, "done", "none")]
                /\ UNCHANGED <<instrs, created, assoc, covered, enabled, started, offers>>
           ELSE Fail(r, "merged_away")

\* The facts fetched for a dated key are recorded after every key is
\* written; that transaction's own steps are those of FactWrites.  It, or the
\* write of the conflicts it completes, may fail: the keys stay written.
recordIdentifierFacts(r) ==
    /\ run[r].step = "record"
    /\ \E new \in {{}} \cup (IF run[r].dating = NoTicker THEN {} ELSE {{i} : i \in Live \cup {None}}) :
          facts' = facts \cup {<<run[r].dating, i>> : i \in new}
    /\ \/ run' = [run EXCEPT ![r] = Ended(r, "done", "none")]
       \/ run' = [run EXCEPT ![r] = Ended(r, "failed", "unrecorded")]
    /\ UNCHANGED <<instrs, created, assoc, covered, enabled, started, offers>>

Disable == /\ \E s \in enabled \cap MayDisable : enabled' = enabled \ {s}
           /\ UNCHANGED <<instrs, created, assoc, covered, facts, run, started, offers>>

-----------------------------------------------------------------------------

Init == /\ instrs = InstrsAtStart /\ created = Len(InstrsAtStart)
        /\ assoc = [k \in Keys |-> Unassociated]
        /\ covered = {}
        /\ facts = {}
        /\ enabled = Range(Sources)
        /\ run = [r \in Runs |-> Idle]
        /\ started = 0
        /\ offers = [k \in Keys |-> {}]

Next == \/ \E r \in Runs : \/ StartResolve(r) \/ StartCandidates(r) \/ StartConfirm(r) \/ StartReassert(r)
                           \/ WriteSettled(r) \/ WriteResolved(r) \/ WriteConfirmed(r) \/ ShowCandidates(r)
                           \/ WriteReasserted(r) \/ recordIdentifierFacts(r)
        \/ Disable

Spec == Init /\ [][Next]_vars
-----------------------------------------------------------------------------
(* Properties *)

\* A write, merge or creation gives no instrument two values of an exclusive
\* type in one domain, on itself or on one listing, when the instruments it
\* was made of had no two and each claim of the answers carries no two: every
\* claim written agrees with what was there and with the other claims, also
\* where the write merges instruments first and where the database changed
\* after the answers came (choose.go, rejects; merge.go, mergeConflict).  It
\* is about one write: two that meet at one instrument through different
\* identifiers are not serialised by the code's locks.
WritesKeepOneValue ==
    [][\A i \in DOMAIN instrs' :
          /\ \A r \in Runs : run'[r] # run[r] => \A c \in ClaimsOf(run[r].fks) : AgreesWithItself(c)
          /\ \A j \in Live : Carried(instrs[j]) \subseteq Carried(instrs'[i]) => OneValue(instrs[j])
          => OneValue(instrs'[i])]_vars

\* Resolutions that race for one identifier write one instrument: no write
\* fails on the unique index for an identifier it looked up (resolve.go: "Two
\* runs stating one key produce one instrument, however they interleave").
RacesWriteOneInstrument == \A r \in Runs : run[r].why # "collision"

\* No write fails on the unique index at all (target.go, dropHeld).
NeverCollides == \A r \in Runs : run[r].why \notin {"collision", "late_claim"}

\* What refers to an instrument refers to a stored one after every merge, and
\* a fixed key's instrument carries the identifier it is associated through
\* (merge.go, fold; writer.go, associate).
NothingDangles ==
    /\ \A k \in Keys : assoc[k].instr # None =>
          assoc[k].instr \in Live /\ assoc[k].via \in Carried(instrs[assoc[k].instr])
    /\ \A f \in facts : f[2] \in Live \cup {None}
    /\ \A c \in covered : c[1] \in Live

\* An association the user confirmed stands: no resolution prepared before or
\* after it changes it, only a merge moves it (txns.sql, the guard of both
\* association updates).
UserChoiceStands ==
    [][\A k \in Keys : assoc[k].arbiter = "user" =>
          \/ assoc'[k] = assoc[k]
          \/ /\ assoc[k].instr \notin DOMAIN instrs'
             /\ assoc'[k] = [assoc[k] EXCEPT !.instr = assoc'[k].instr]]_vars
=============================================================================
