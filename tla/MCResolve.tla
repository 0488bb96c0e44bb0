------------------------------ MODULE MCResolve ------------------------------
(* Resolve with two datasources, one venue per market, and keys that state  *)
(* an ISIN, a ticker, both, a bare ticker with a description, and cash.      *)
EXTENDS Resolve

Id(type, dom, val) == [type |-> type, dom |-> dom, val |-> val]
x1 == Id("isin", "", "x1")
x2 == Id("isin", "", "x2")
f1 == Id("shareclass", "", "f1")
f2 == Id("shareclass", "", "f2")
s1 == Id("sedol", "", "s1")
t1 == Id("ticker", "XNAS", "AAA")
b1 == Id("ticker", "", "AAA")
d1 == Id("brokerdesc", "broker", "d1")
usd == Id("currency", "", "usd")
usx == Id("currency", "", "usx")
s2 == Id("sedol", "", "s2")

MCMarket == [XNAS |-> "us", XNYS |-> "us"]
MCSources == <<"A", "B">>
MCKey == [isin |-> [ids |-> {x1}, class |-> "none", fam |-> "usd"],
          tick |-> [ids |-> {t1}, class |-> "stock", fam |-> "usd"],
          bare |-> [ids |-> {b1, d1}, class |-> "none", fam |-> NoFamily],
          cash |-> [ids |-> {usd}, class |-> "none", fam |-> "usd"]]
MCInstrs ==
  <<[class |-> "cash", fams |-> {"usd"}, ids |-> {<<usd, NoFamily>>, <<usx, NoFamily>>}, ref |-> TRUE],
    [class |-> "unknown", fams |-> {"usd"}, ids |-> {<<s1, "usd">>}, ref |-> FALSE],
    [class |-> "equity", fams |-> {"usd"}, ids |-> {<<x1, NoFamily>>, <<f1, NoFamily>>}, ref |-> FALSE]>>

Listing(ids) == [class |-> "equity", fam |-> "usd", ids |-> ids]
Answer(src, sent, filtered, ls) ==
    [src |-> src, outcome |-> "served", sent |-> sent, filtered |-> filtered, listings |-> ls,
     limited |-> src = "B", unknown |-> FALSE, day |-> 1]
NotKnown(src, sent) == [Answer(src, sent, {}, <<>>) EXCEPT !.unknown = TRUE]
Failed(src) == [Answer(src, NoId, {}, <<>>) EXCEPT !.outcome = "failed"]

MCAnswers ==
  [isin |-> [A |-> {Answer("A", x1, {}, <<Listing({x1, t1})>>), Failed("A")},
             B |-> {Answer("B", x1, {x1}, <<Listing({f1, t1}), Listing({f1, s1})>>),
                    Answer("B", x1, {x1}, <<Listing({f2})>>)}],
   tick |-> [A |-> {Answer("A", t1, {}, <<Listing({x1, t1})>>), Answer("A", t1, {}, <<Listing({x2, t1})>>), NotKnown("A", t1)},
             B |-> {Answer("B", t1, {t1}, <<Listing({f1, t1})>>),
                    Answer("B", t1, {t1}, <<Listing({f2, t1}), Listing({x1, s1, t1})>>)}],
   bare |-> [A |-> {Answer("A", b1, {b1}, <<Listing({x1, t1}), Listing({x2})>>)},
             B |-> {Answer("B", b1, {b1}, <<Listing({f1, t1, s1, s2})>>), Failed("B")}],
   cash |-> [A |-> {}, B |-> {}]]
MCSymmetry == Permutations(Runs)
=============================================================================
