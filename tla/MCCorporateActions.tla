------------------------- MODULE MCCorporateActions -------------------------
(***************************************************************************)
(* Values for CorporateActions: a's share is split on day 3 and lists      *)
(* again, under a new ISIN, on day 4; b's dividend, listed for day 4, is   *)
(* moved to day 5; c becomes d on day 4, its ex-date; a's second bonus,    *)
(* for day 6, is in NSE's API on day 4 and then withdrawn.  Day 5 is no    *)
(* session.  Days 1-3 are one month and year.  One window ends ahead of    *)
(* today, the other ahead of it and, later, behind.                        *)
(***************************************************************************)
EXTENDS CorporateActions, TLC

MCDay == 1..6
MCSessions == MCDay \ {5}
MCMonth == [d \in MCDay |-> IF d <= 3 THEN 1 ELSE 2]
Share(sym, isin, first, last) == [sym |-> sym, isin |-> isin, first |-> first, last |-> last]
MCVersions ==
  {Share("a", "old", 1, 2), Share("a", "new", 4, 6), Share("b", "ib", 1, 6),
   Share("c", "ic", 1, 3), Share("d", "ic", 4, 6)}
Row(sym, ex, purpose, from, to, isin) ==
  [sym |-> sym, board |-> "main", ex |-> ex, purpose |-> purpose, from |-> from, to |-> to,
   isin |-> isin]
MCClosures ==
  {Row("a", 3, "FVSPLT", 1, 2, None), Row("b", 4, "DIV", 1, 2, None),
   Row("b", 5, "AGM/DIV", 3, 4, None), Row("c", 4, "BONUS", 2, 3, None),
   Row("a", 6, "BONUS", 3, 4, None), Row("a", 4, "BONUS", 2, 2, None)}
MCApi ==
  {Row("a", 3, "Face Value Split", 3, 6, "old"), Row("b", 5, "Meeting/Dividend", 4, 6, "ib"),
   Row("d", 4, "Bonus issue", 4, 6, "ic"), Row("a", 6, "Bonus issue", 4, 4, "new"),
   Row("b", 1, "Dividend", 1, 6, "ib")}
MCAsked == {<<1, 4>>, <<3, 6>>, <<6, 3>>}
MCKinds ==
  [FVSPLT |-> <<"split">>, DIV |-> <<"dividend">>, BONUS |-> <<"bonus">>, Dividend |-> <<"dividend">>]
   @@ ("AGM/DIV" :> <<"other", "dividend">>)
   @@ ("Face Value Split" :> <<"split">>) @@ ("Meeting/Dividend" :> <<"other", "dividend">>)
   @@ ("Bonus issue" :> <<"bonus">>)
=============================================================================
