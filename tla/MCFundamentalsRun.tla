------------------------- MODULE MCFundamentalsRun --------------------------
(* Instances of FundamentalsRun for TLC.                                    *)
EXTENDS FundamentalsRun, MCFilings

MCFloors == {1, 3}
MCShards == {{"s1", "s2"}}

Fresh == [old |-> {}, rows |-> NoRows, asset |-> NoState]
\* A version 1 state: one document each, the second left without a row.
FromV1 == [old  |-> {n \in Notice : n.at <= 2},
           rows |-> [k \in Key |-> IF k = "r1" THEN "d1" ELSE NoDoc],
           asset |-> [NewState EXCEPT !.version = 1,
                        !.done = [k \in DedupKey |->
                                    IF k.doc \in {"d1", "d2"} THEN "Unknown" ELSE "No"]]]
MCSeeds == {Fresh, FromV1}
FreshOnly == {Fresh}

\* What RowsDoAdvance supposes, true of the filings of fundamentals_safety.
ASSUME Notice = MCNotice => ListedOnce

\* One filing.
OneNotice == {Notice_("q1", "standalone", 1, "d1")}

\* One issuer, whose consolidated document is listed under the annual and the
\* quarterly filing; its revision under the annual one alone.
SharedSymbol == {"s1"}
SharedShards == {SharedSymbol}
SharedFiling == {"mc", "mq"}
SharedRank == ("mc" :> 1 @@ "mq" :> 2)
SharedSymbolOf == ("mc" :> "s1" @@ "mq" :> "s1")
SharedDoc == {"d1", "d2"}
SharedNotice == {Notice_("mc", "consolidated", 1, "d1"),
                 Notice_("mq", "consolidated", 1, "d1"),
                 Notice_("mc", "consolidated", 2, "d2")}
SharedKey == {"r1"}
SharedOwnerOf == [k \in SharedKey |-> "s1"]
SharedKeyOf == [d \in SharedDoc |-> "r1"]
SharedSeeds ==
  {[old |-> {n \in Notice : n.doc = "d1"}, rows |-> NoRows, asset |-> NoState]}
SharedVerdict == [d \in SharedDoc |-> "Published"]
=============================================================================
