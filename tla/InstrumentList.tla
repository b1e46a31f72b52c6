--------------------------- MODULE InstrumentList ---------------------------
(***************************************************************************)
(* The instrument lists of builders.py: instruments_all (NSE) and          *)
(* bse_instruments_all (BSE).  A list has a row for every version of a     *)
(* listing ever sighted: (instrument_key, symbol, series) on NSE,          *)
(* (scrip_code, isin, symbol, group) on BSE.  A row keeps the first and    *)
(* the last session the version traded in.  Its other columns (NSE's token *)
(* and ISIN, BSE's name) are those of one session, `as_of`.  Days are      *)
(* numbers; 0 is no day.                                                   *)
(***************************************************************************)
EXTENDS Integers, FiniteSets, FiniteSetsExt

CONSTANTS
  Version,       \* listing versions
  Day,           \* 1 .. the last day modelled
  MaxNewPercent, \* REFERENCE_PRIOR_MAX_NEW_SHARE
  ActiveWindow   \* _ACTIVE_WINDOW

Unlisted == [first |-> 0, last |-> 0, as_of |-> 0]
Row == [first: Day \cup {0}, last: Day \cup {0}, as_of: Day \cup {0}]

Listed(list) == {v \in Version : list[v] # Unlisted}
Newest(list) == IF Listed(list) = {} THEN 0 ELSE Max({list[v].last : v \in Listed(list)})

\* The list of the sessions in a store, oldest first; sessions[d] is what traded on d.
VersionsIn(sessions) ==
  [v \in Version |->
     LET days == {d \in Day : v \in sessions[d]}
     IN  IF days = {} THEN Unlisted ELSE [first |-> Min(days), last |-> Max(days), as_of |-> Max(days)]]

\* Mutant: the name is that of the rows read last.
ReadLastAsOf(old, new) == new.as_of

\* _bse_versions: the name is that of the latest sighting.
LatestAsOf(old, new) == IF new.last >= old.last THEN new.as_of ELSE old.as_of
\* _merge_versions: the token and ISIN are those of the rows appended last.
FreshAsOf(old, new) == new.as_of

AsOf(venue, old, new) ==
  IF venue = "bse" THEN LatestAsOf(old, new) ELSE FreshAsOf(old, new)

Merge(venue, prior, fresh) ==
  [v \in Version |->
     CASE prior[v] = Unlisted -> fresh[v]
       [] fresh[v] = Unlisted -> prior[v]
       [] OTHER -> [first |-> Min({prior[v].first, fresh[v].first}),
                    last  |-> Max({prior[v].last, fresh[v].last}),
                    as_of |-> AsOf(venue, prior[v], fresh[v])]]

\* A prior that lacks this much of what the run read is broken, not behind.
LacksTooMany(prior, fresh) ==
  100 * Cardinality(Listed(fresh) \ Listed(prior))
    > MaxNewPercent * Cardinality(Listed(fresh))

(***************************************************************************)
(* Sessions of a venue: the days it is open.                               *)
(***************************************************************************)
SessionsBefore(open, d) == {e \in open : e < d}
PreviousTradingDay(open, d) ==
  IF SessionsBefore(open, d) = {} THEN 0 ELSE Max(SessionsBefore(open, d))

\* The n sessions that end at `end`, or at the session before it.
TradingDaysBack(open, end, n) ==
  {d \in open : d <= end /\ Cardinality({e \in open : d < e /\ e <= end}) < n}

Active(list, open) ==
  {v \in Listed(list) : list[v].last \in TradingDaysBack(open, Newest(list), ActiveWindow)}
=============================================================================
