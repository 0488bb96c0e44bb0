----------------------------- MODULE MCCorpActs -----------------------------
(* Two users, one instrument, two tickers of its market that may name it   *)
(* on the same day, and two sources.                                       *)
EXTENDS CorpActs, TLC

CONSTANTS u1, u2, i1, t1, t2, typed, untyped

MCUploads ==
    {[user |-> u1, txns |-> {[key |-> t1, asAt |-> 3]}],
     [user |-> u2, txns |-> {[key |-> i1, asAt |-> 1]}]}

MCMarketOf == [t \in Tickers |-> "US"]

MCHome == [i \in Instrs |-> "US"]

(* The first ticker alone, or the two over one common day. *)
MCNamings ==
    {[t \in Tickers |-> [d \in Days |-> IF t = t1 THEN i1 ELSE None]],
     [t \in Tickers |-> [d \in Days |-> IF (t = t1) = (d < 3) \/ d = 2 THEN i1 ELSE None]]}

Split == [ex |-> 2, ratio |-> [from |-> 1, to |-> 2]]

PriceFactor == [ex |-> 2, ratio |-> [from |-> 3, to |-> 4]]

(* The fetches are alike. *)
MCSymmetry == Permutations(Fetches)

MCReports == {{Split}, {PriceFactor}}
=============================================================================
