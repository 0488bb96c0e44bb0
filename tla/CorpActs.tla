------------------------------ MODULE CorpActs ------------------------------
(***************************************************************************)
(* Corporate actions: which tickers a fetch asks about and for how long    *)
(* (package run/refreshcorpacts), how the answers of concurrent fetches    *)
(* are recorded and judged (package corpact), an administrator's decision  *)
(* on an action, and the list of holdings (package service/holding), which *)
(* restates them by a calendar it reads in several statements, outside a   *)
(* transaction.                                                            *)
(*                                                                         *)
(* A statement's follow-up, new identifier facts and an administrator's    *)
(* refresh all fetch, at the same time, and the requests of a fetch are    *)
(* chosen before its answers are given and recorded.  A day is a number.   *)
(* A period, an interval of ticker validity and a coverage are sets of     *)
(* days.  An answer holds each action once.  The moment of an answer is    *)
(* the number of the call that gave it.                                    *)
(***************************************************************************)
EXTENDS Integers, Sequences, FiniteSets, FiniteSetsExt

CONSTANTS
    None,         \* no source, no user, no instrument, no answer
    Users,
    Uploads,      \* the statements: [user, txns], txns of [key, asAt]
    Instrs, Tickers, Sources,
    Handles,      \* the sources that type their actions
    MarketOf,     \* the market of each ticker
    Home,         \* the market of each instrument's primary venues, or None
    Namings,      \* the ticker validities: [Tickers -> [Days -> Instrs \cup {None}]]
    Reports,      \* the sets of actions [ex, ratio] that a source may report
    Fetches,      \* the fetches that may run
    FirstSource,  \* the source every market names at first
    FirstToday, LastDay,
    MaxShareTerm,
    MaxCalls, MaxChanges \* bounds on the calls and on what happens beside the fetches

Days == 1..LastDay

Markets == {MarketOf[t] : t \in Tickers}

Decisions == {"split", "reverse_split", "stock_dividend", "spin_off_price_factor", "rights_issue", "other"}

Ratios == [from : Nat \ {0}, to : Nat \ {0}]

(* The actions as a source types them, the rows as they are stored, the    *)
(* answers as the sources give them and as they are stored.                *)
Acts == [ex : Int, ratio : Ratios, handled : BOOLEAN]

Rows == [ex : Int, ratio : Ratios, handled : BOOLEAN, decision : Decisions \cup {None},
         finding : {"none", "open", "cleared"}]

Given == [source : Sources, ticker : Tickers, period : SUBSET Int, at : Nat, day : Days,
          coverage : SUBSET Int, acts : SUBSET Acts]

Answers == [at : Nat, coverage : SUBSET Int, rows : SUBSET Rows]

ASSUME CorpActsAssumption ==
    /\ Handles \subseteq Sources
    /\ Home \in [Instrs -> Markets \cup {None}]
    /\ Namings \subseteq [Tickers -> [Days -> Instrs \cup {None}]]
    /\ FirstSource \in Sources
    /\ LastDay \in Nat
    /\ FirstToday \in Days
    /\ Instrs \cap Tickers = {}
    /\ IsFiniteSet(Tickers)
    /\ \A u \in Uploads : u.user \in Users /\ u.txns \subseteq [key : Instrs \cup Tickers, asAt : Days]
    /\ \A R \in Reports : R \subseteq [ex : Int, ratio : Ratios] /\ IsFiniteSet(R)
    /\ None \notin Users \cup Instrs \cup Sources \cup Decisions \cup Given \cup Answers

VARIABLES
    today,
    txns,         \* the transactions: [user, key, asAt]
    validity,     \* what each ticker names on each day
    source,       \* the corporate actions source each market names, or None
    enabled,      \* the sources that are enabled
    calls,        \* every answer a source gave, which the cache may repeat
    answers,      \* the stored answer of each source for each ticker
    fetches,      \* what each fetch is doing
    list,         \* what a request that lists the holdings is doing
    changes,      \* how many decisions, settings, attributions and midnights there were
    told          \* history: the last given of the answers that came to be recorded

vars == <<today, txns, validity, source, enabled, calls, answers, fetches, list, changes, told>>

Idle == [parts |-> <<>>, fresh |-> FALSE, keys |-> None]

Ended == [Idle EXCEPT !.keys = {}]

Unlisted == [step |-> "none", holds |-> {}, naming |-> None, read |-> None]

Init ==
    /\ today = FirstToday
    /\ txns = {}
    /\ validity \in Namings
    /\ source = [m \in Markets |-> FirstSource]
    /\ enabled = Sources
    /\ calls = {}
    /\ answers = [c \in Sources \X Tickers |-> None]
    /\ fetches = [f \in Fetches |-> Idle]
    /\ list = Unlisted
    /\ changes = 0
    /\ told = answers

-----------------------------------------------------------------------------
(* What a fetch asks for. *)

(* The instrument a key names on a day: a fixed key's own, or what the     *)
(* ticker of a dated key names then.                                       *)
InstrOn(key, day) == IF key \in Tickers THEN validity[key][day] ELSE key

(* The transactions that name instrument i. *)
Held(i) == {x \in txns : InstrOn(x.key, x.asAt) = i}

ListHeldInstrs(user) ==
    {i \in Instrs : \E x \in Held(i) : user \in {x.user, None}}

\* Mutant: the period of a request starts at the last of the holdings.
heldFrom_Latest(i) == Max({x.asAt : x \in Held(i)})

heldFrom(i) == Min({x.asAt : x \in Held(i)})

overlaps(t, i, from) == \E d \in from..today : validity[t][d] = i

(* The held instruments that ticker t named over their holding, at the     *)
(* market of t.                                                            *)
NamedBy(t) ==
    {i \in ListHeldInstrs(None) : MarketOf[t] = Home[i] /\ overlaps(t, i, heldFrom(i))}

requests(kept) ==
    LET named == [t \in Tickers |-> NamedBy(t)] IN
    {[ticker |-> t,
      period |-> Min({heldFrom(i) : i \in named[t]})..today,
      users |-> {x.user : x \in UNION {Held(i) : i \in named[t]}}] :
        t \in {u \in Tickers : named[u] \cap kept # {}}}

(* The instruments that the scope selects: those the user holds, and those *)
(* a ticker of the new identifier facts names on any day.                  *)
selected(user, written) ==
    (IF user = None THEN {} ELSE ListHeldInstrs(user))
        \cup ({validity[t][d] : t \in written, d \in Days} \ {None})

(* What a request was chosen from, for the properties. *)
Seen == [txns |-> txns, validity |-> validity, today |-> today]

Part(asks) == [reqs |-> asks, seen |-> Seen]

(* Beneath a run of user `runUser`, a ticker that another user also holds  *)
(* goes beneath a system child.                                            *)
beneath(runUser, asks) ==
    LET own == {a \in asks : runUser = None \/ a.users = {runUser}} IN
    (IF own = {} THEN <<>> ELSE <<Part(own)>>)
        \o (IF own = asks THEN <<>> ELSE <<Part(asks \ own)>>)

(* Beneath a run of `runUser`, the scope selects what is fetched: a        *)
(* statement's user, the tickers with new facts, or both.                  *)
FetchHeld(f, runUser, user, written) ==
    /\ fetches[f] = Idle
    /\ LET asks == requests(selected(user, written)) IN
        /\ asks # {}
        /\ fetches' = [fetches EXCEPT ![f] = [Idle EXCEPT !.parts = beneath(runUser, asks)]]
    /\ UNCHANGED <<today, txns, validity, source, enabled, calls, answers, list, changes, told>>

(* An administrator's refresh waits in its lane with the requests it chose *)
(* when it started, and skips the cache.                                   *)
Start(f) ==
    /\ fetches[f] = Idle
    /\ LET asks == requests(ListHeldInstrs(None)) IN
        /\ asks # {}
        /\ fetches' = [fetches EXCEPT ![f] = [Idle EXCEPT !.parts = <<Part(asks)>>, !.fresh = TRUE]]
    /\ UNCHANGED <<today, txns, validity, source, enabled, calls, answers, list, changes, told>>

-----------------------------------------------------------------------------
(* The call, and what a source answers. *)

bySource(reqs) ==
    {[source |-> source[MarketOf[q.ticker]], ticker |-> q.ticker, period |-> q.period] :
        q \in {r \in reqs : source[MarketOf[r.ticker]] \in enabled}}

(* A source that knows the symbol covers the period with every action it   *)
(* holds.  Only the source's own types say that an action restates shares. *)
Respond(q, acts) ==
    [source |-> q.source, ticker |-> q.ticker, period |-> q.period,
     at |-> Cardinality({k.at : k \in calls}) + 1, day |-> today,
     coverage |-> IF acts = None THEN {} ELSE q.period,
     acts |-> IF acts = None THEN {}
              ELSE {[ex |-> a.ex, ratio |-> a.ratio, handled |-> q.source \in Handles] : a \in acts}]

(* What the cache may hold for a request: two calls write it in any order. *)
Cached(q) == {k \in calls : k.source = q.source /\ k.ticker = q.ticker /\ k.period = q.period}

(* The fetch reads the sources and asks them.  A request is answered by    *)
(* the cache or by a call, or is not served.                               *)
Ask(f) ==
    /\ fetches[f].parts # <<>>
    /\ fetches[f].keys = None
    /\ fetches[f].fresh => \A g \in Fetches : fetches[g].fresh => fetches[g].keys = None
    /\ LET asked == bySource(Head(fetches[f].parts).reqs) IN
        \E called \in SUBSET asked :
        \E acts \in [called -> Reports \cup {None}], hits \in SUBSET UNION {Cached(q) : q \in asked \ called} :
            LET new == {Respond(q, acts[q]) : q \in called} IN
            /\ fetches[f].fresh => hits = {}
            /\ \A k, l \in hits : k.ticker = l.ticker => k = l
            /\ Cardinality(calls) + Cardinality(new) <= MaxCalls
            /\ calls' = calls \cup new
            /\ fetches' = [fetches EXCEPT ![f].keys = new \cup hits]
    /\ UNCHANGED <<today, txns, validity, source, enabled, answers, list, changes, told>>

-----------------------------------------------------------------------------
(* Recording an answer. *)

Gcd(a, b) == Max({d \in 1..Min({a, b}) : a % d = 0 /\ b % d = 0})

restatesShares(r) == Min({r.from, r.to}) \div Gcd(r.from, r.to) <= MaxShareTerm

judged(acts) == {[a EXCEPT !.handled = @ /\ restatesShares(a.ratio)] : a \in acts}

covered(coverage, day) == {d \in coverage : d <= day}

Stored(row) == [ex |-> row.ex, ratio |-> row.ratio, handled |-> row.handled]

(* A row that a reported action equals keeps its decision and its finding. *)
merge(rows, acts) ==
    LET kept == {r \in rows : Stored(r) \in acts}
        added == acts \ {Stored(r) : r \in rows}
    IN  kept \cup {[ex |-> a.ex, ratio |-> a.ratio, handled |-> a.handled, decision |-> None,
                    finding |-> IF a.handled THEN "none" ELSE "open"] : a \in added}

\* Mutant: the answer that is recorded last wins.
later_Never(stored, k) == FALSE

later(stored, k) == stored # None /\ stored.at > k.at

writeAnswer(stored, k) ==
    IF later(stored, k) THEN stored
    ELSE [at |-> k.at, coverage |-> covered(k.coverage, k.day),
          rows |-> merge(IF stored = None THEN {} ELSE stored.rows, judged(k.acts))]

(* The served answers are recorded in turn, each in its own transaction. *)
Record(f, k) ==
    /\ answers' = [answers EXCEPT ![<<k.source, k.ticker>>] = writeAnswer(@, k)]
    /\ fetches' = [fetches EXCEPT ![f].keys = @ \ {k}]
    /\ told' = [told EXCEPT ![<<k.source, k.ticker>>] = IF @ # None /\ @.at > k.at THEN @ ELSE k]
    /\ UNCHANGED <<today, txns, validity, source, enabled, calls, list, changes>>

(* The next part of a fetch, or none. *)
Rest(f) ==
    LET parts == Tail(fetches[f].parts) IN
    IF parts = <<>> THEN Ended ELSE [fetches[f] EXCEPT !.parts = parts, !.keys = None]

(* A part ends when its answers are recorded, or when a write fails, and   *)
(* then the remaining ones are not.  A source that fails leaves nothing to *)
(* record, as one that serves nothing.                                     *)
EndPart(f) ==
    /\ fetches[f].parts # <<>>
    /\ fetches[f].keys # None
    /\ fetches' = [fetches EXCEPT ![f] = Rest(f)]
    /\ UNCHANGED <<today, txns, validity, source, enabled, calls, answers, list, changes, told>>

-----------------------------------------------------------------------------
(* Reading the actions. *)

Restates(row) ==
    \/ row.decision \in {"split", "reverse_split", "stock_dividend"}
    \/ row.decision = None /\ row.handled

Unknown(row) ==
    \/ row.decision = None /\ ~row.handled
    \/ row.decision = "other"

Fits(decision, r) ==
    /\ decision \in {"split", "stock_dividend"} => r.to > r.from
    /\ decision = "reverse_split" => r.to < r.from

UnknownDays(rows) == {r.ex : r \in {e \in rows : Unknown(e)}}

(* The stored answer of the source of the ticker's market, if there is one. *)
StoredOf(t) == {answers[<<s, t>>] : s \in {source[MarketOf[t]]} \ {None}} \ {None}

RowsOf(t) == UNION {a.rows : a \in StoredOf(t)}

CoverageOf(t) == UNION {a.coverage : a \in StoredOf(t)}

(* A calendar is built from what each ticker named, covered and reported,  *)
(* as far as it was read.                                                  *)
View(naming, coverage, rows) == [naming |-> naming, coverage |-> coverage, rows |-> rows]

(* The coverage that is read for a ticker: less the day of each unknown    *)
(* action.                                                                 *)
Read(t, v) == v.coverage[t] \ UnknownDays(v.rows[t])

(* The tickers of the instrument's market. *)
HomeTickers(i) == {t \in Tickers : MarketOf[t] = Home[i]}

(* The rows that apply to instrument i: those of a ticker that named it    *)
(* on the ex-date.                                                         *)
Attributed(i, v) ==
    UNION {{r \in v.rows[t] : r.ex \in Days /\ v.naming[t][r.ex] = i} : t \in HomeTickers(i)}

(* An action two tickers report alike is counted once. *)
Same(row) == [ex |-> row.ex, ratio |-> row.ratio, restates |-> Restates(row), unknown |-> Unknown(row)]

\* Mutant: only the ticker that reported an unknown action loses its day.
Calendars_PerTicker(i, v) ==
    [acts |-> {Same(r) : r \in Attributed(i, v)},
     coverage |-> UNION {{d \in Read(t, v) : v.naming[t][d] = i} : t \in HomeTickers(i)}]

Calendars(i, v) ==
    [acts |-> {Same(r) : r \in Attributed(i, v)},
     coverage |-> (UNION {{d \in Read(t, v) : v.naming[t][d] = i} : t \in HomeTickers(i)})
                    \ UnknownDays(Attributed(i, v))]

(* What restates a quantity as at asAt to today, and whether every day     *)
(* since is covered.                                                       *)
Factor(cal, asAt) ==
    [acts |-> {a \in cal.acts : a.restates /\ a.ex \in (asAt + 1)..today},
     covered |-> (asAt + 1)..today \subseteq cal.coverage]

(* What the database warrants now: a holding of the instrument is adjusted *)
(* as far as transaction x goes.                                           *)
Now == View(validity, [t \in Tickers |-> CoverageOf(t)], [t \in Tickers |-> RowsOf(t)])

Adjusted(x) ==
    /\ InstrOn(x.key, x.asAt) # None
    /\ Factor(Calendars(InstrOn(x.key, x.asAt), Now), x.asAt).covered

-----------------------------------------------------------------------------
(* Listing a user's holdings, one statement at a time. *)

(* The user's keys, with the instrument they name on each day. *)
ListHoldingKeys(user) ==
    LET holds == {[instr |-> InstrOn(x.key, x.asAt), asAt |-> x.asAt] :
                    x \in {y \in txns : y.user = user /\ InstrOn(y.key, y.asAt) # None}}
    IN  /\ list.step = "none"
        /\ holds # {}
        /\ list' = [Unlisted EXCEPT !.step = "naming", !.holds = holds]
        /\ UNCHANGED <<today, txns, validity, source, enabled, calls, answers, fetches, changes, told>>

(* The ticker validity of the tickers that name the instruments. *)
LoadNaming ==
    /\ list.step = "naming"
    /\ list' = [list EXCEPT !.step = "answers", !.naming = validity]
    /\ UNCHANGED <<today, txns, validity, source, enabled, calls, answers, fetches, changes, told>>

(* Whose answer is stored for a ticker, and what it covers. *)
AnswerOf(t) ==
    [source |-> IF StoredOf(t) = {} THEN None ELSE source[MarketOf[t]], coverage |-> CoverageOf(t)]

ListCorpActAnswers ==
    /\ list.step = "answers"
    /\ list' = [list EXCEPT !.step = "acts", !.read = [t \in Tickers |-> AnswerOf(t)]]
    /\ UNCHANGED <<today, txns, validity, source, enabled, calls, answers, fetches, changes, told>>

(* The actions that are read belong to the answer that was read, or are    *)
(* left out.                                                               *)
Listed ==
    View(list.naming, [t \in Tickers |-> list.read[t].coverage],
         [t \in Tickers |-> IF AnswerOf(t).source = list.read[t].source THEN RowsOf(t) ELSE {}])

restate(h) == Factor(Calendars(h.instr, Listed), h.asAt)

(* The actions are read, and the answer to the request marks as adjusted   *)
(* the holdings whose restate is covered.                                  *)
ListCorpActs ==
    /\ list.step = "acts"
    /\ list' = Unlisted
    /\ UNCHANGED <<today, txns, validity, source, enabled, calls, answers, fetches, changes, told>>

-----------------------------------------------------------------------------
(* What happens beside the fetches. *)

Change == changes < MaxChanges /\ changes' = changes + 1

(* A statement replaces what its user's earlier one said. *)
WriteStmt(u) ==
    LET by(x) == x.user = u.user
        said == {[user |-> u.user, key |-> x.key, asAt |-> x.asAt] : x \in u.txns}
    IN  /\ \E x \in said : x \notin txns
        /\ txns' = {x \in txns : ~by(x)} \cup said
        /\ UNCHANGED <<today, validity, source, enabled, calls, answers, fetches, list, changes, told>>

(* A rebuild of the ticker validity moves an attribution. *)
Attribute ==
    /\ Change
    /\ validity' \in Namings \ {validity}
    /\ UNCHANGED <<today, txns, source, enabled, calls, answers, fetches, list, told>>

(* An administrator disables or enables a source.  Its stored answers are  *)
(* still read.                                                             *)
SetEnabled(s) ==
    /\ Change
    /\ enabled' = IF s \in enabled THEN enabled \ {s} ELSE enabled \cup {s}
    /\ UNCHANGED <<today, txns, validity, source, calls, answers, fetches, list, told>>

(* The market's row names another source, or none. *)
SetSource(m) ==
    /\ Change
    /\ \E s \in (Sources \cup {None}) \ {source[m]} : source' = [source EXCEPT ![m] = s]
    /\ UNCHANGED <<today, txns, validity, enabled, calls, answers, fetches, list, told>>

(* An administrator decides an action, which clears the finding that names *)
(* it.                                                                     *)
Decided(r, d) == [r EXCEPT !.decision = d, !.finding = IF @ = "open" THEN "cleared" ELSE @]

DecideCorpAct(s, t, r, d) ==
    /\ Fits(d, r.ratio)
    /\ r.decision # d
    /\ Change
    /\ answers' = [answers EXCEPT ![<<s, t>>].rows = (@ \ {r}) \cup {Decided(r, d)}]
    /\ UNCHANGED <<today, txns, validity, source, enabled, calls, fetches, list, told>>

Midnight ==
    /\ today < LastDay
    /\ Change
    /\ today' = today + 1
    /\ UNCHANGED <<txns, validity, source, enabled, calls, answers, fetches, list, told>>

Next ==
    \/ \E f \in Fetches :
        \/ \E u \in Users \cup {None} : \E v \in {u, None}, w \in SUBSET Tickers : FetchHeld(f, u, v, w)
        \/ Start(f)
        \/ Ask(f)
        \/ fetches[f].keys # None /\ \E k \in fetches[f].keys : Record(f, k)
        \/ EndPart(f)
    \/ \E u \in Users : ListHoldingKeys(u)
    \/ LoadNaming
    \/ ListCorpActAnswers
    \/ ListCorpActs
    \/ \E u \in Uploads : WriteStmt(u)
    \/ Attribute
    \/ \E s \in Sources : SetEnabled(s)
    \/ \E m \in Markets : SetSource(m)
    \/ \E s \in Sources, t \in Tickers : \E d \in Decisions :
        answers[<<s, t>>] # None /\ \E r \in answers[<<s, t>>].rows : DecideCorpAct(s, t, r, d)
    \/ Midnight

Spec == Init /\ [][Next]_vars

-----------------------------------------------------------------------------
(* Properties *)

(* Whatever the order in which concurrent fetches record, and whatever the *)
(* cache repeats, what is stored is the answer the source gave last, with  *)
(* the coverage and the actions of that answer alone; and a finding stands *)
(* open against exactly the unhandled actions nobody decided (writeAnswer, *)
(* merge and DecideCorpAct).                                               *)
LatestAnswerStands ==
    \A s \in Sources, t \in Tickers :
        /\ (answers[<<s, t>>] = None) = (told[<<s, t>>] = None)
        /\ answers[<<s, t>>] # None =>
            /\ answers[<<s, t>>].at = told[<<s, t>>].at
            /\ answers[<<s, t>>].coverage \subseteq told[<<s, t>>].coverage
            /\ {Stored(r) : r \in answers[<<s, t>>].rows} = judged(told[<<s, t>>].acts)
            /\ \A r \in answers[<<s, t>>].rows : (r.finding = "open") = (r.decision = None /\ ~r.handled)

(* Between the statements of a listing the answer for ticker t changed: it *)
(* is another source's, or covers less.                                    *)
Torn(t) ==
    \/ AnswerOf(t).source # list.read[t].source
    \/ ~(list.read[t].coverage \subseteq AnswerOf(t).coverage)

(* At whatever moment it reads the actions, a list of holdings marks one   *)
(* adjusted only when, on each day since, a ticker that named the          *)
(* instrument is covered by the stored answer of the market's source, no   *)
(* ticker's stored action of unknown effect falls there, and each action   *)
(* is counted once although two tickers report it; except on the days of a *)
(* ticker whose answer is Torn, where the coverage of one answer is paired *)
(* with the actions of another (Read, Calendars and Factor, which the      *)
(* handler ListHoldings calls).                                            *)
AdjustedIsKnown ==
    list.step = "acts" =>
        \A h \in list.holds : restate(h).covered =>
            \A d \in (h.asAt + 1)..today :
                LET naming == {t \in HomeTickers(h.instr) : list.naming[t][d] = h.instr}
                    rows == {r \in UNION {RowsOf(t) : t \in naming} : r.ex = d}
                IN  (\A t \in naming : ~Torn(t)) =>
                        /\ \E t \in naming : d \in CoverageOf(t)
                        /\ \A r \in rows : ~Unknown(r)
                        /\ Cardinality({a \in restate(h).acts : a.ex = d})
                            = Cardinality({r.ratio : r \in {e \in rows : Restates(e)}})

(* The requests that a step may not have foreseen: those chosen before the *)
(* transaction was written, or the day or the attribution changed.         *)
Stale(f, x) ==
    LET seen == Head(fetches[f].parts).seen IN
    x \notin seen.txns \/ seen.validity # validity \/ seen.today # today

(* An answer leaves an adjusted transaction uncovered when it lacks        *)
(* coverage, adds an action of unknown effect, or was asked for too early. *)
Uncovers(f, k, x) ==
    \/ Stale(f, x)
    \/ k.coverage = {}
    \/ \E a \in judged(k.acts) : 
        /\ ~a.handled
        /\ answers[<<k.source, k.ticker>>] = None \/ a \notin {Stored(r) : r \in answers[<<k.source, k.ticker>>].rows}

(* An adjusted transaction turns provisional only on a new day, by a new   *)
(* attribution or source, by a decision the system cannot apply, or by an  *)
(* answer that Uncovers it: never because another user's fetch asked for a *)
(* shorter period, and never because a refetch forgot a decision           *)
(* (requests, writeAnswer and merge).                                      *)
NothingElseUncovers ==
    [][\A x \in txns \cap txns' : (Adjusted(x) /\ ~Adjusted(x)') =>
        \/ today' # today \/ validity' # validity \/ source' # source
        \/ \E s \in Sources, t \in Tickers :
            /\ answers'[<<s, t>>] # answers[<<s, t>>]
            /\ \/ \E r \in answers'[<<s, t>>].rows : r.decision = "other"
               \/ \E f \in Fetches : /\ fetches[f].keys \notin {None, {}}
                                      /\ \E k \in fetches[f].keys \ fetches'[f].keys : Uncovers(f, k, x)
    ]_vars
=============================================================================
