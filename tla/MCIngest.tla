------------------------------ MODULE MCIngest ------------------------------
(* Ingest with two users and two brokers.  The keys of the first user share  *)
(* an ISIN and a ticker, so that the key stating both joins the others.       *)
EXTENDS Ingest

Id(type, dom, val) == [type |-> type, dom |-> dom, val |-> val]
x == Id("isin", "", "x")
t == Id("ticker", "XNAS", "AAA")
tn == Id("ticker", "XNYS", "AAA")
usd == Id("currency", "", "usd")

MCMarket == [XNAS |-> "us", XNYS |-> "us"]
MCKey == [isin |-> [user |-> "u", ids |-> {x}],
          tick |-> [user |-> "u", ids |-> {t}],
          both |-> [user |-> "u", ids |-> {x, t}],
          cash |-> [user |-> "v", ids |-> {usd}],
          other |-> [user |-> "v", ids |-> {tn}]]
AAA(ks) == [k \in DOMAIN MCKey |-> IF k \in ks THEN {<<"us", "AAA">>} ELSE {}]
MCMayTell == AAA({"tick"})
MCMayLack == AAA({"both"})
MCMayLackTwo == AAA({"tick", "both"})
Row(d, k) == [day |-> d, key |-> k]
Uploaded(u, b, from, before, rs) == [user |-> u, broker |-> b, from |-> from, before |-> before, rows |-> rs, splits |-> <<>>]
MCUpload ==
    [first |-> Uploaded("u", "A", 1, 3, <<Row(1, "isin"), Row(1, "tick"), Row(2, "isin")>>),
     second |-> Uploaded("u", "A", 2, 3, <<Row(2, "both")>>),
     theirs |-> [Uploaded("v", "B", 1, 2, <<Row(1, "other"), Row(1, "cash"), Row(2, "other")>>) EXCEPT !.splits = <<"other">>]]
=============================================================================
