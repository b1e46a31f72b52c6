------------------------------ MODULE MCFilings ------------------------------
(* A small exchange for FundamentalsRun: two issuers, of which one revises  *)
(* its quarter and the other's document does not parse.                     *)
EXTENDS TLC

Notice_(f, b, t, d) == [filing |-> f, basis |-> b, at |-> t, doc |-> d]

MCSymbol == {"s1", "s2"}
MCFiling == {"q1", "q2"}
MCRank == ("q1" :> 1 @@ "q2" :> 2)
MCSymbolOf == ("q1" :> "s1" @@ "q2" :> "s2")
MCDoc == {"d1", "d2", "d3"}
MCNotice == {Notice_("q1", "standalone", 1, "d1"),
             Notice_("q2", "consolidated", 2, "d2"),
             Notice_("q1", "standalone", 3, "d3")}
MCKey == {"r1", "r2"}
MCOwnerOf == ("r1" :> "s1" @@ "r2" :> "s2")
MCKeyOf == ("d1" :> "r1" @@ "d2" :> "r2" @@ "d3" :> "r1")
MCVerdict == ("d1" :> "Published" @@ "d2" :> "ParseError" @@ "d3" :> "Published")
=============================================================================
