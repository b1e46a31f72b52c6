----------------------------- MODULE MCSchedules -----------------------------
(***************************************************************************)
(* The history of corporate actions of MCCorporateActions; and what two    *)
(* schedules bring about in the end, under the fairness of each: the       *)
(* ladder of the daily run, with two listings, of which NSE lists the      *)
(* second on day 3, and a BSE list that a run may find too far behind to   *)
(* catch up, and the evening runs of the fundamentals producer over        *)
(* MCFilings.  `which` names the one that moves in a behaviour; nothing of *)
(* the code relates them but the publish lock.                             *)
(***************************************************************************)
EXTENDS MCCorporateActions, MCFilings

CONSTANTS NoDoc, NoState

VARIABLES
  which,
  date, posted, live, run, local, store, disk, cache, reported, failures,
  listed, attached, served, horizon, rows, asset, dead, pc, from, left, symbol, seen,
  st, base, found, queue, good, bad, missed

dailyVars == <<date, posted, live, run, local, store, disk, cache, reported, failures>>
producerVars ==
  <<listed, attached, served, horizon, rows, asset, dead, pc, from, left, symbol, seen,
    st, base, found, queue, good, bad, missed>>
allVars == <<which, vars, dailyVars, producerVars>>

TheDay == 1..3
TheVersion == {"a", "b"}
MCOpenDays == [nse |-> {1, 3}, bse |-> TheDay]
MCTraded == [nse |-> <<{"a"}, {}, {"a", "b"}>>, bse |-> <<{"a"}, {"a"}, {"a", "b"}>>]

L == INSTANCE InstrumentList
       WITH Day <- TheDay, Version <- TheVersion, MaxNewPercent <- 60, ActiveWindow <- 2
OnDay(days, traded) == [d \in TheDay |-> IF d \in days THEN traded ELSE {}]
Old == [list |-> L!VersionsIn(OnDay({1}, {"a"})), seen |-> OnDay({1}, {"a"})]

D == INSTANCE DailyRun
       WITH Day <- TheDay, Version <- TheVersion, OpenDays <- MCOpenDays, Traded <- MCTraded,
            Legacy <- OnDay({}, {}), Archive <- {<<"bse", 1>>},
            Seeded <- {[nse |-> Old, bse |-> Old]},
            Series <- [v \in TheVersion |-> "EQ"], Year <- <<1, 1, 2>>,
            MaxNewPercent <- 60, ActiveWindow <- 2, CatchupDays <- 2, TrailingDays <- 2,
            BackfillDays <- 3, MinRows <- 1, MaxRows <- 4, MinForGate <- 2, LargeMean <- 4,
            Tight <- 15, Loose <- 50, Shortfall <- 15, Unit <- 2, BseSeedDays <- 1,
            BseMaxCatchup <- 1, MaxFaults <- 1, today <- date, faults <- failures

\* From nothing, with the daily window alone.
Fresh == [old |-> {}, rows |-> [k \in MCKey |-> NoDoc], asset |-> NoState]
F == INSTANCE FundamentalsRun
       WITH Symbol <- MCSymbol, Filing <- MCFiling, Rank <- MCRank, SymbolOf <- MCSymbolOf,
            Doc <- MCDoc, Notice <- MCNotice, Key <- MCKey, OwnerOf <- MCOwnerOf,
            KeyOf <- MCKeyOf, Verdict <- MCVerdict, Floors <- {}, Shards <- {},
            Seeds <- {Fresh}, MaxFaults <- 1, faults <- dead

Actions(A) == which = "actions" /\ A /\ UNCHANGED <<which, dailyVars, producerVars>>
Daily(A) == which = "daily" /\ A /\ UNCHANGED <<which, vars, producerVars>>
Evening(A) == which = "fundamentals" /\ A /\ UNCHANGED <<which, vars, dailyVars>>

MCInit == which \in {"actions", "daily", "fundamentals"} /\ Init /\ D!Init /\ F!Init
MCNext == Actions(Next) \/ Daily(D!Next) \/ Evening(F!Next)
MCSpec ==
  /\ MCInit /\ [][MCNext]_allVars
  /\ WF_allVars(Daily(D!StepOfRun)) /\ WF_allVars(Daily(D!NextDay))
  /\ SF_allVars(Daily(D!StartDaily("runner", date)))
  /\ WF_allVars(Evening(F!RunStep)) /\ SF_allVars(Evening(F!BeginWindow))

\* The liveness of the two schedules, as DailyRun and FundamentalsRun state it.
NewestSessionLands == D!NewestSessionLands
DueFilingLands == F!DueFilingLands
=============================================================================
