----------------------------- MODULE MCDailyRun -----------------------------
(***************************************************************************)
(* Values for DailyRun.  Two listings trade in one series; a third, in a   *)
(* series too small to be gated, is listed on day 4.  Day 2 is a holiday   *)
(* of both venues.  The year turns between days 3 and 4.                   *)
(* One missing row of the series passes the loose gate, two do not.        *)
(***************************************************************************)
EXTENDS DailyRun

MCDay == 1..4
MCVersion == {"a", "b", "n"}
MCOpenDays == [nse |-> {1, 3, 4}, bse |-> {1, 3, 4}]
MCTraded ==
  [nse |-> <<{"a", "b"}, {}, {"a", "b"}, {"a", "b", "n"}>>,
   bse |-> <<{"a", "b"}, {}, {"a"}, {"a", "b", "n"}>>]
MCSeries == [v \in MCVersion |-> IF v = "n" THEN "SM" ELSE "EQ"]
MCYear == <<1, 1, 1, 2>>
MCLegacy == [NoSessions EXCEPT ![1] = {"a"}]
OldList == [nse |-> Book([NoSessions EXCEPT ![1] = {"a", "b"}]),
            bse |-> Book([NoSessions EXCEPT ![1] = {"a", "b"}])]
MCSeeded == {OldList}
MCArchive == {<<"nse", 1>>, <<"bse", 1>>, <<"bse", 3>>}
=============================================================================
