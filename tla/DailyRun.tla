------------------------------ MODULE DailyRun ------------------------------
(***************************************************************************)
(* One `daily` run after another: the catch-up window over NSE's archive,  *)
(* the two instrument lists merged from what it fetched, and the alerts.   *)
(* The publish protocol itself is SharedRelease; here a publish is one     *)
(* step, because the runs are in its concurrency group.                    *)
(*                                                                         *)
(* A run on a GitHub runner starts with an empty price store, which nobody *)
(* publishes; an operator's laptop keeps its own from run to run, may fill *)
(* it with `backfill` or `rebuild-day`, and then publishes from it.        *)
(***************************************************************************)
EXTENDS InstrumentList

CONSTANTS
  Traded,        \* [Venue -> [Day -> SUBSET Version]]: what trades on a session
  OpenDays,      \* [Venue -> SUBSET Day]: its sessions (market_calendar.json)
  Legacy,        \* the sessions of the price files left on a release
  Archive,       \* the <<venue, session>> posted before the modelled runs
  Seeded,        \* the instrument lists a history may start from
  Series,        \* [Version -> series]
  Year,          \* [Day -> year], the partition of the store
  CatchupDays, TrailingDays, BackfillDays,   \* CATCHUP_WINDOW_DAYS, _TRAILING_DAYS
  MinRows, MaxRows,                          \* ROWCOUNT_ABS_RANGE
  MinForGate, LargeMean, Tight, Loose,       \* SERIES_*, ROWCOUNT_DEVIATION*
  Shortfall,                                 \* COMPLETENESS_SHORTFALL, in percent
  Unit,          \* a common multiple of 1 .. TrailingDays: means are in units of 1/Unit
  BseSeedDays, BseMaxCatchup,
  MaxFaults

VARIABLES
  today,    \* the day the runs are made on
  posted,   \* the <<venue, session>> the exchanges have posted
  live,     \* the published lists
  run,      \* the run in progress
  local,    \* its copy of the lists
  store,    \* its price store: [Day -> rows]
  disk,     \* the price store of the operator's laptop between its runs
  cache,    \* the ReadCache: a year's rows, or NotCached
  reported, \* the sessions that the last run's alert, or its console, named
  faults

Venue == {"nse", "bse"}

\* A published list, with the sightings that went into it (a history variable).
Book(seen) == [list |-> VersionsIn(seen), seen |-> seen]
Lists == [Venue -> [list: [Version -> Row], seen: [Day -> SUBSET Version]]]

\* Every sighting is of a day on which the version traded.
Real(sessions, venue) == \A d \in Day : sessions[d] \subseteq Traded[venue][d]

\* A session is a day on which listings trade, and its file names them: a BSE
\* file without rows is no session.  The lists to start from are rebuilds.
DailyAssumptions ==
  /\ Day \subseteq Nat \ {0} /\ IsFiniteSet(Day) /\ 1 \in Day /\ IsFiniteSet(Version)
  /\ OpenDays \in [Venue -> SUBSET Day] /\ Traded \in [Venue -> [Day -> SUBSET Version]]
  /\ \A d \in OpenDays["bse"] : Traded["bse"][d] # {}
  /\ Legacy \in [Day -> SUBSET Version] /\ Real(Legacy, "nse") /\ Archive \subseteq Venue \X Day
  /\ \A lists \in Seeded : lists \in Lists /\ \A v \in Venue :
       lists[v] = Book(lists[v].seen) /\ Real(lists[v].seen, v)
  /\ CatchupDays \in Nat \ {0} /\ BackfillDays \in Nat /\ MaxFaults \in Nat
ASSUME ConstantsAreRight == DailyAssumptions

vars == <<today, posted, live, run, local, store, disk, cache, reported, faults>>

Idle == [pc |-> "idle", host |-> "runner", days |-> {}, target |-> 0,
         failed |-> {}, status |-> "none", others |-> {}]

NoSessions == [d \in Day |-> {}]
Empty == [v \in Venue |-> Book(NoSessions)]
Union(s, t) == [d \in Day |-> s[d] \cup t[d]]
NotCached == <<>>
NothingCached == [y \in {Year[d] : d \in Day} |-> NotCached]

Ok == {"success", "skipped_holiday", "skipped_idempotent", "not_yet"}
Publishable == {"success", "skipped_idempotent"}

Runs ==
  [pc: {"fetch", "reference", "bse", "decide", "surface"},
   host: {"runner", "laptop", "backfill", "rebuild", "bse backfill"},
   days: SUBSET Day, target: Day, failed: SUBSET Day,
   status: Ok \cup {"none", "failed"}, others: SUBSET (Ok \cup {"failed"})]

\* Types; and a run that has its target behind it has the status of it: the
\* window always has the target (the assertion in cli.py's daily).
TypeOK ==
  /\ today \in Day /\ posted \subseteq Venue \X Day /\ faults \in 0..MaxFaults
  /\ live \in Lists /\ local \in Lists
  /\ run \in Runs \cup {Idle} /\ reported \subseteq Day
  /\ run # Idle /\ run.target \notin run.days => run.status # "none"
  /\ store \in [Day -> SUBSET Version] /\ disk \in [Day -> SUBSET Version]
  /\ DOMAIN cache = {Year[d] : d \in Day}

Init ==
  /\ today = 1 /\ posted = Archive /\ faults = 0 /\ reported = {}
  /\ live \in Seeded /\ local = Empty
  /\ run = Idle /\ store = NoSessions /\ disk = NoSessions /\ cache = NothingCached

-----------------------------------------------------------------------------
(* The store.  Reads go through the run's cache, one entry per year file.  *)

Slice(y) == [d \in {e \in Day : Year[e] = y} |-> store[d]]
Read(d) == IF cache[Year[d]] = NotCached THEN store[d] ELSE cache[Year[d]][d]
HasDay(d) == Read(d) # {}
CachedFrom(c, days) ==
  [y \in DOMAIN c |-> IF c[y] = NotCached /\ \E d \in days : Year[d] = y
                      THEN Slice(y) ELSE c[y]]

Count(rows, s) == Cardinality({v \in rows : Series[v] = s})
SeriesOf(rows) == {Series[v] : v \in rows}

\* Trailing counts per series: only the days on which the series appeared.
TrailingWindow(d) ==
  TradingDaysBack(OpenDays["nse"], PreviousTradingDay(OpenDays["nse"], d), TrailingDays)
TrailingOf(d) == {e \in TrailingWindow(d) : HasDay(e)}
Appeared(d, s) == {e \in TrailingOf(d) : s \in SeriesOf(Read(e))}
Mean(d, s) ==
  (MapThenSumSet(LAMBDA e : Count(Read(e), s), Appeared(d, s)) * Unit)
    \div Cardinality(Appeared(d, s))
TrailingSeries(d) == UNION {SeriesOf(Read(e)) : e \in TrailingOf(d)}

\* A stored day is compared within its own regime: the series it shares with
\* the trailing days.
IsComplete(d) ==
  LET shared == SeriesOf(Read(d)) \cap TrailingSeries(d)
      mean   == MapThenSumSet(LAMBDA s : Mean(d, s), shared)
      stored == MapThenSumSet(LAMBDA s : Count(Read(d), s), shared)
  IN  100 * stored * Unit >= (100 - Shortfall) * mean

\* What a run of day d has read before it fetches.
Consulted(d) == {d} \cup IF HasDay(d) THEN TrailingWindow(d) ELSE {}

\* check_rowcount_by_series
Tolerance(mean) == IF mean >= LargeMean * Unit THEN Tight ELSE Loose
Abs(n) == IF n < 0 THEN -n ELSE n
CountsPass(d, rows) ==
  /\ Cardinality(rows) \in MinRows..MaxRows
  /\ \A s \in TrailingSeries(d) :
       LET mean == Mean(d, s) IN
       mean >= MinForGate * Unit =>
         /\ s \in SeriesOf(rows)
         /\ 100 * Abs(Count(rows, s) * Unit - mean) <= Tolerance(mean) * mean

\* append_day merges the rows into the year as the run read it and replaces the
\* file; the year leaves the cache.
Appended(day, rows) ==
  [d \in Day |-> IF Year[d] = Year[day] THEN Read(d) \cup IF d = day THEN rows ELSE {}
                 ELSE store[d]]
\* Mutant: the year stays in the cache as it was read.
StillCached(day) == CachedFrom(cache, {day} \cup TrailingWindow(day))

Invalidated(day) == [CachedFrom(cache, TrailingWindow(day)) EXCEPT ![Year[day]] = NotCached]

-----------------------------------------------------------------------------
(* run_daily for one day of the window.                                    *)

\* What a source has of session d: the exchange all of it, a broker only the
\* listings it is asked for, those active on the published list.
Whole(d) ==
  Traded["nse"][d] \cap
    (IF run.host = "rebuild" THEN Active(local["nse"].list, OpenDays["nse"]) ELSE Version)
Served(d) == IF run.host = "rebuild" THEN Whole(d) # {} ELSE <<"nse", d>> \in posted

\* What a fetch of session d may bring: the rows, the day they are dated, and
\* those that survive the quarantine.  Each defect counts as a fault.
Frames(d) == [rows: SUBSET Whole(d) \ {{}}, date: OpenDays["nse"]]
Full(d) == [rows |-> Whole(d), date |-> d]
Defects(f, clean, d) ==
  Cardinality({x \in {<<"rows", f.rows # Whole(d)>>, <<"date", f.date # d>>,
                      <<"quarantine", clean # f.rows>>} : x[2]})

\* Mutant: a run on a holiday has the window of a session.
AlwaysBack(target) == TradingDaysBack(OpenDays["nse"], target, CatchupDays)

Window(target) ==
  IF target \in OpenDays["nse"]
  THEN TradingDaysBack(OpenDays["nse"], target, CatchupDays) ELSE {target}

\* Mutant: the failures of the other days of the window are dropped.
ReportTargetOnly(d, status) ==
  run' = [run EXCEPT !.days = @ \ {d}, !.status = IF d = run.target THEN status ELSE @]

\* The day's status is the run's if it is the target, and else a window
\* failure if it failed.
Report(d, status) ==
  run' = [run EXCEPT
            !.days = @ \ {d},
            !.status = IF d = run.target THEN status ELSE @,
            !.failed = IF d # run.target /\ status = "failed" THEN @ \cup {d} ELSE @]

Fault == faults < MaxFaults /\ faults' = faults + 1
RunUnchanged == UNCHANGED <<today, posted, live, local, disk, reported>>
Turn(d) == run.pc = "fetch" /\ run.days # {} /\ d = Min(run.days)

SkipHoliday(d) ==
  /\ Turn(d) /\ d \notin OpenDays["nse"]
  /\ Report(d, "skipped_holiday")
  /\ RunUnchanged /\ UNCHANGED <<store, cache, faults>>

AlreadyComplete(d) == HasDay(d) /\ IsComplete(d)
SkipStored(d) ==
  /\ Turn(d) /\ d \in OpenDays["nse"] /\ AlreadyComplete(d)
  /\ Report(d, "skipped_idempotent")
  /\ cache' = CachedFrom(cache, Consulted(d))
  /\ RunUnchanged /\ UNCHANGED <<store, faults>>

\* A 404 is lateness for the target, and a hole for any other day.
FetchAbsent(d) ==
  /\ Turn(d) /\ d \in OpenDays["nse"] /\ ~AlreadyComplete(d)
  /\ <<"nse", d>> \notin posted /\ run.host # "rebuild"
  /\ Report(d, IF d = run.target THEN "not_yet" ELSE "failed")
  /\ cache' = CachedFrom(cache, Consulted(d))
  /\ RunUnchanged /\ UNCHANGED <<store, faults>>

\* All sources exhausted, or the write of the year file failed; a broker that
\* has nothing of the day is exhausted too.
FetchFails(d) ==
  /\ Turn(d) /\ d \in OpenDays["nse"] /\ ~AlreadyComplete(d)
  /\ IF run.host = "rebuild" /\ ~Served(d) THEN UNCHANGED faults ELSE Fault
  /\ Report(d, "failed")
  /\ \E read \in {{}, TrailingWindow(d)} : cache' = CachedFrom(cache, Consulted(d) \cup read)
  /\ RunUnchanged /\ UNCHANGED store

\* Mutant: no wrong-date guard.
AnyDateAccepted(d, f) == CountsPass(d, f.rows)

Accepted(d, f) == f.date = d /\ CountsPass(d, f.rows)

\* A frame was served: the gates, the quarantine and the append.
Ingest(d, f, clean) ==
  /\ Turn(d) /\ d \in OpenDays["nse"] /\ ~AlreadyComplete(d)
  /\ Served(d)
  /\ faults' = faults + Defects(f, clean, d) /\ faults' <= MaxFaults
  /\ IF Accepted(d, f) /\ clean # {}
     THEN /\ store' = Appended(f.date, clean) /\ cache' = Invalidated(f.date)
          /\ Report(d, "success")
     ELSE /\ cache' = CachedFrom(cache, Consulted(d) \cup IF f.date = d THEN TrailingWindow(d) ELSE {})
          /\ UNCHANGED store
          /\ Report(d, "failed")
  /\ RunUnchanged

\* The rows are in the store and write_delta failed; nobody reads
\* the deltas of a dataset that is not published, so only the status is modelled.
IngestWithoutDelta(d) ==
  /\ Turn(d) /\ d \in OpenDays["nse"] /\ ~AlreadyComplete(d)
  /\ Served(d) /\ Accepted(d, Full(d)) /\ Fault
  /\ store' = Appended(d, Full(d).rows) /\ cache' = Invalidated(d)
  /\ Report(d, "failed")
  /\ RunUnchanged

FetchDay(d) ==
  \/ SkipHoliday(d) \/ SkipStored(d) \/ FetchAbsent(d) \/ FetchFails(d)
  \/ \E f \in Frames(d) : \E clean \in SUBSET f.rows : Ingest(d, f, clean)
  \/ IngestWithoutDelta(d)

-----------------------------------------------------------------------------
(* Runs.                                                                   *)

Begin(host, target, days) ==
  /\ run = Idle
  /\ run' = [Idle EXCEPT !.pc = "fetch", !.host = host, !.target = target, !.days = days]
  /\ local' = live                               \* sync
  /\ store' = IF host = "runner" THEN NoSessions ELSE disk
  /\ reported' = {}
  /\ UNCHANGED <<today, posted, live, disk, cache, faults>>

\* What a run leaves: the laptop keeps its store; what it synced is synced
\* again by the next run, and a runner keeps nothing.
Ended ==
  /\ run' = Idle /\ local' = Empty /\ store' = NoSessions /\ cache' = NothingCached
  /\ disk' = IF run.host = "runner" THEN disk ELSE store

\* A rung of the ladder, a dispatch with a date, or an operator.
StartDaily(host, target) == target <= today /\ Begin(host, target, Window(target))

\* `backfill`: the same days through run_daily, without builders or publish.
StartBackfill ==
  LET days == TradingDaysBack(OpenDays["nse"], today, BackfillDays)
  IN  days # {} /\ Begin("backfill", Max(days), days)

\* `bootstrap_reference_from`: the list is rebuilt from the price files before
\* the ingest; the prior is merged in.
BootstrapAndStart ==
  /\ run = Idle /\ \E d \in Day : Legacy[d] # {}
  /\ run' = [Idle EXCEPT !.pc = "fetch", !.target = today, !.days = Window(today)]
  /\ local' = [live EXCEPT
                 !["nse"] = [list |-> Merge("nse", @.list, VersionsIn(Legacy)),
                             seen |-> Union(@.seen, Legacy)]]
  /\ reported' = {}
  /\ UNCHANGED <<today, posted, live, store, disk, cache, faults>>

\* `rebuild-day`: the same gates over the rows a broker has for the listings
\* that are active on the published list.
StartRebuild(d) == d <= today /\ Listed(live["nse"].list) # {} /\ Begin("rebuild", d, {d})

\* Phase 2 only when the primary is healthy; otherwise exit 1, and the job is red.
FetchedAll ==
  /\ run.pc = "fetch" /\ run.days = {}
  /\ IF run.host \in {"runner", "laptop"} /\ run.status \in Ok
     THEN /\ run' = [run EXCEPT !.pc = "reference"] /\ cache' = NothingCached
          /\ UNCHANGED <<local, store, disk, reported>>
     ELSE Ended /\ reported' = run.failed \cup {run.target}
  /\ UNCHANGED <<today, posted, live, faults>>

Built(venue, prior, sessions) ==
  [list |-> Merge(venue, prior.list, VersionsIn(sessions)), seen |-> Union(prior.seen, sessions)]

ReferenceRefused ==
  \/ Listed(local["nse"].list) = {}
  \/ store # NoSessions /\ LacksTooMany(local["nse"].list, VersionsIn(store))

\* Mutant: a run without a prior builds the list from its own sessions.
BuildFromSessions ==
  /\ run.pc = "reference"
  /\ run' = [run EXCEPT !.pc = "bse"]
  /\ local' = [local EXCEPT !["nse"] = Book(store)]
  /\ UNCHANGED <<today, posted, live, store, disk, cache, reported, faults>>

BuildReference ==
  /\ run.pc = "reference"
  /\ IF ReferenceRefused
     THEN run' = [run EXCEPT !.pc = "bse", !.others = @ \cup {"failed"}] /\ UNCHANGED local
     ELSE /\ run' = [run EXCEPT !.pc = "bse"]
          /\ local' = [local EXCEPT !["nse"] = Built("nse", @, store)]
  /\ UNCHANGED <<today, posted, live, store, disk, cache, reported, faults>>

\* Mutant: only the session of the run is read.
TargetOnly == {run.target}

\* build_bse_reference reads the sessions after the list's newest, oldest
\* first, up to the first it cannot read; `stop` is that one, or Never.
Never == Max(Day) + 1
BseDays ==
  IF Listed(local["bse"].list) = {}
  THEN TradingDaysBack(OpenDays["bse"], run.target, BseSeedDays)
  ELSE {d \in OpenDays["bse"] : Newest(local["bse"].list) < d /\ d <= run.target}
TooFarBehind == Listed(local["bse"].list) # {} /\ Cardinality(BseDays) > BseMaxCatchup

NotPosted(d) == <<"bse", d>> \notin posted
ReadUpTo(days, stop) ==
  /\ stop \in days \cup {Never}
  /\ \A d \in days : d < stop => ~NotPosted(d)
  /\ IF stop = Never \/ NotPosted(stop) THEN UNCHANGED faults ELSE Fault

BseMerged(read) ==
  LET sessions == [d \in Day |-> IF d \in read THEN Traded["bse"][d] ELSE {}] IN
  IF \/ read = {}
     \/ /\ Listed(local["bse"].list) # {}
        /\ LacksTooMany(local["bse"].list, VersionsIn(sessions))
  THEN local["bse"]
  ELSE Built("bse", local["bse"], sessions)

BuildBse(stop) ==
  LET read == {d \in BseDays : d < stop}
      built == BseMerged(read)
      merged == read = {} \/ built # local["bse"]
      status == IF BseDays = {} THEN "skipped_idempotent"
                ELSE IF ~merged THEN "failed"
                ELSE IF stop = Never THEN "success"
                ELSE IF stop = run.target /\ NotPosted(stop) THEN "not_yet" ELSE "failed"
  IN
  /\ run.pc = "bse"
  /\ IF run.target \notin OpenDays["bse"] \/ TooFarBehind
     THEN /\ stop = Never /\ UNCHANGED <<local, faults>>
          /\ run' = [run EXCEPT !.pc = "decide",
                       !.others = IF TooFarBehind /\ run.target \in OpenDays["bse"]
                                  THEN @ \cup {"failed"} ELSE @]
     ELSE /\ ReadUpTo(BseDays, stop)
          /\ local' = [local EXCEPT !["bse"] = built]
          /\ run' = [run EXCEPT !.pc = "decide", !.others = @ \cup {status}]
  /\ UNCHANGED <<today, posted, live, store, disk, cache, reported>>

\* `backfill-bse-instruments --days n`, then a publish: days that BSE did not
\* post are skipped, and a day that cannot be read ends it.
BackfillBse(n, stop) ==
  LET days == TradingDaysBack(OpenDays["bse"], today, n)
      read == {d \in days : d < stop /\ ~NotPosted(d)}
      sessions == [d \in Day |-> IF d \in read THEN Traded["bse"][d] ELSE {}]
      prior == live["bse"]
  IN
  /\ run = Idle /\ Fault
  /\ stop \in days \cup {Never} /\ read # {}
  /\ Listed(prior.list) = {} \/ ~LacksTooMany(prior.list, VersionsIn(sessions))
  /\ local' = [live EXCEPT !["bse"] = Built("bse", prior, sessions)]
  /\ run' = [Idle EXCEPT !.pc = "decide", !.host = "bse backfill",
                         !.target = today, !.status = "success"]
  /\ store' = disk /\ reported' = {}
  /\ UNCHANGED <<today, posted, live, disk, cache>>

\* Mutant: the live list must be outgrown.
GuardsPassIfMore ==
  /\ Listed(local["nse"].list) # {}
  /\ Cardinality(Listed(local["bse"].list)) > Cardinality(Listed(live["bse"].list))

\* The publish guards that look at the content: a primary with rows, no list
\* with fewer rows than the live one, no older latest_trading_date.
Coverage(b) == [v \in Venue |-> Cardinality(Listed(b[v].list))]
GuardsPass ==
  /\ Listed(local["nse"].list) # {}
  /\ \A v \in Venue : Coverage(local)[v] >= Coverage(live)[v]
  /\ Newest(local["nse"].list) >= Newest(live["nse"].list)

Decide ==
  /\ run.pc = "decide"
  /\ IF run.status \in Publishable /\ ~GuardsPass
     THEN /\ Ended /\ UNCHANGED live
          /\ reported' = run.failed \cup {run.target}
     ELSE /\ live' = IF run.status \in Publishable THEN local ELSE live
          /\ run' = [run EXCEPT !.pc = "surface"]
          /\ UNCHANGED <<local, store, disk, cache, reported>>
  /\ UNCHANGED <<today, posted, faults>>

\* The alert steps after the publish.  On a runner the window failures are
\* named only when the target succeeded; the last rung also names a target
\* that never came.
Surface(lastRung) ==
  /\ run.pc = "surface" /\ Ended
  /\ reported' =
       (IF run.host = "laptop" \/ run.status = "success" THEN run.failed ELSE {})
       \cup (IF lastRung /\ run.status = "not_yet" THEN {run.target} ELSE {})
  /\ UNCHANGED <<today, posted, live, faults>>

\* The job is killed, or a step of it fails; its alert step still runs.
Die ==
  /\ run # Idle /\ Fault /\ Ended
  /\ reported' = run.failed \cup {run.target}
  /\ UNCHANGED <<today, posted, live>>

Post(v, d) ==
  /\ d \in OpenDays[v] /\ d <= today /\ posted' = posted \cup {<<v, d>>}
  /\ UNCHANGED <<today, live, run, local, store, disk, cache, reported, faults>>
NextDay ==
  /\ today + 1 \in Day /\ run = Idle /\ today' = today + 1
  /\ UNCHANGED <<posted, live, run, local, store, disk, cache, reported, faults>>

StepOfRun ==
  \/ \E d \in Day : FetchDay(d)
  \/ FetchedAll \/ BuildReference \/ Decide
  \/ \E stop \in Day \cup {Never} : BuildBse(stop)
  \/ \E lastRung \in BOOLEAN : Surface(lastRung)

Next ==
  \/ StepOfRun \/ Die \/ NextDay \/ BootstrapAndStart
  \/ \E host \in {"runner", "laptop"}, d \in Day : StartDaily(host, d)
  \/ StartBackfill
  \/ \E d \in Day : StartRebuild(d)
  \/ \E n \in 1..BackfillDays, stop \in Day \cup {Never} : BackfillBse(n, stop)
  \/ \E v \in Venue, d \in Day : Post(v, d)

Spec == Init /\ [][Next]_vars

\* A started job goes on, and the ladder keeps coming.
FairSpec ==
  Spec /\ WF_vars(StepOfRun) /\ WF_vars(NextDay) /\ SF_vars(StartDaily("runner", today))

-----------------------------------------------------------------------------
(* Properties.                                                             *)

\* The incremental lists are what a rebuild from every session ever merged
\* would give (builders.py: "same rows as the old rebuild from the whole price
\* history"), however the windows of the runs overlapped.  For NSE this is
\* said of the sightings only: an --date in the past puts the ISIN and token of
\* its session back (builders.py's merge lets the run win).
Span(list) == [v \in Version |-> <<list[v].first, list[v].last>>]
ListsAreRebuilds ==
  /\ Span(live["nse"].list) = Span(VersionsIn(live["nse"].seen))
  /\ live["bse"].list = VersionsIn(live["bse"].seen)

\* No list and no store has a sighting of a version on a day it did not trade:
\* a file dated another day never reaches a session.
SightingsAreReal ==
  /\ \A v \in Venue : Real(live[v].seen, v)
  /\ Real(store, "nse") /\ Real(disk, "nse")

\* A read through the run's cache is what the disk holds.
CacheIsCurrent == \A y \in DOMAIN cache : cache[y] \in {NotCached, Slice(y)}

\* The content guards of publish are a backstop: merged lists only grow, so no
\* run of this pipeline is ever refused by them once there is a list.
GuardsNeverRefuse ==
  run.pc = "decide" /\ Listed(live["nse"].list) # {} => GuardsPass

\* A daily run moves the newest session of the BSE list only over sessions it
\* merged, so a session that could not be read is read by a later run.
BseNeverSkipsASession ==
  [][run.pc = "bse" /\ local'["bse"] # local["bse"] /\ Listed(local["bse"].list) # {} =>
       \A d \in OpenDays["bse"] :
         Newest(local["bse"].list) < d /\ d <= Newest(local'["bse"].list)
           => local'["bse"].seen[d] # {}]_vars

\* After a run whose target landed, every session of its window is in the
\* published list or has been named to somebody; a reference build that
\* refused is itself red.
WindowIsAccountedFor ==
  [][run.pc = "surface" /\ run.host \in {"runner", "laptop"} /\ run.status = "success" /\ "failed" \notin run.others /\ run' = Idle =>
       \A d \in Window(run.target) \cap OpenDays["nse"] :
         live["nse"].seen[d] # {} \/ d \in reported']_vars

\* Once the exchange has posted the last session, the published list gets to it.
LastDay == Max(Day)
NewestSessionLands ==
  (today = LastDay /\ <<"nse", LastDay>> \in posted /\ Listed(live["nse"].list) # {})
    ~> Newest(live["nse"].list) = LastDay
=============================================================================
