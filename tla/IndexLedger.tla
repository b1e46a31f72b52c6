----------------------------- MODULE IndexLedger -----------------------------
(***************************************************************************)
(* The index constituents (builders.build_index_constituents): who is in   *)
(* an index, from NSE's list of it, and when, from NSE's press releases.   *)
(* NSE's list may lag a change it has announced, or show it early.         *)
(***************************************************************************)
EXTENDS IndexAnnouncements

CONSTANTS
  Index, Stock,      \* catalogued indices; symbols
  Isin,              \* [Stock -> issuer]: a renamed stock keeps its ISIN
  Membership,        \* [Index -> [Day -> SUBSET Stock]]: what NSE decided
  Lag, Lead,         \* how far a served list may be from the day it is served on
  Master,            \* the symbols of the instrument list
  MinRows, MinMembers, ShrinkFloor,  \* CONSTITUENTS_*, the floor in percent
  StaleSessions

VARIABLES
  today,
  list,     \* index_constituents_all.parquet: per index its rows
  shown,    \* history: the day whose membership the rows were read from, 0 if cut short
  last      \* the status of the last run

ledgerVars == <<today, list, shown, last>>

\* The first day is a session.
DaysAreNumbered ==
  /\ Max(Day) \in Nat \ {0} /\ Day = 1..Max(Day) /\ Sessions \subseteq Day /\ 1 \in Sessions
\* MIN_MEMBERS is positive, and "" is no symbol.
ListsAreOfStocks ==
  /\ IsFiniteSet(Stock) /\ "" \notin Stock /\ Master \subseteq Stock
  /\ Membership \in [Index -> [Day -> SUBSET Stock]]
  /\ MinMembers \in Nat \ {0} /\ Lag \in Nat /\ Lead \in Nat /\ GraceDays \in Nat
\* A row without a date makes no change: it is an orphan; and the changes of a
\* release are numbered.
ChangesAreDated ==
  \A s \in Sessions : \A read \in Readings[s] :
    /\ IsFiniteSet(read.changes)
    /\ \A c \in read.changes :
         c.eff \in Nat /\ c.announced \in 0..Human /\ c.ref \in Nat /\ c.seq \in Nat
    /\ \A c, d \in read.changes : c.ref = d.ref /\ c.seq = d.seq => c = d
LedgerAssumptions == DaysAreNumbered /\ ListsAreOfStocks /\ ChangesAreDated
ASSUME LedgerConstants == LedgerAssumptions

NotListed == [members |-> {}, date |-> 0, eff |-> 0, ref |-> 0]
Listed(l) == {i \in Index : l[i].members # {}}
NeverRan == [status |-> "none", session |-> 0, complete |-> FALSE]

LedgerTypeOK ==
  /\ today \in Day
  /\ list \in [Index -> [members: SUBSET Stock, date: Day \cup {0},
                         eff: Day \cup {0}, ref: Nat]]
  /\ shown \in [Index -> Day \cup {0}]
  /\ last.status \in {"none", "success", "skipped_idempotent", "failed"}
  /\ last.session \in Sessions \cup {0} /\ last.complete \in BOOLEAN

LedgerInit ==
  /\ today = Min(Sessions) /\ list = [i \in Index |-> NotListed]
  /\ shown = [i \in Index |-> 0] /\ last = NeverRan

SessionOnOrBefore(d) == Max({s \in Sessions : s <= d})
SessionsAfter(day, session) == Cardinality({s \in Sessions : day < s /\ s <= session})
Stale(l, session) ==
  {i \in Listed(l) : SessionsAfter(l[i].date, session) > StaleSessions}

-----------------------------------------------------------------------------
(* NSE's lists.  A basket is a set of symbols; {} is one that no host      *)
(* served or whose payload the parser refused.                             *)

Shows(d) == {e \in Day : d - Lag <= e /\ e <= d + Lead}
\* A payload cut short has some of the rows.
Truncated(basket) == {b \in SUBSET basket : b # basket /\ Cardinality(b) >= MinMembers}

\* The shrink guard.
Held(i, basket) ==
  \/ Cardinality(basket) < MinMembers
  \/ 100 * Cardinality(basket) < ShrinkFloor * Cardinality(list[i].members)

\* Nothing usable at all: the whole fetch failed, or too few rows.
NothingRead(baskets) == Cardinality(UNION {{i} \X baskets[i] : i \in Index}) < MinRows

Usable(baskets) ==
  IF NothingRead(baskets) THEN {} ELSE {i \in Index : ~Held(i, baskets[i])}

\* Mutant: the rows are stamped with the day they will be used on.
CarriedUndated(baskets, session) ==
  [i \in Index |-> IF i \in Usable(baskets)
                   THEN [list[i] EXCEPT !.members = baskets[i], !.date = session + 1]
                   ELSE list[i]]

\* What is read this run replaces the index's rows; the others are carried,
\* with the session they were read at.
Carried(baskets, session) ==
  LET usable == Usable(baskets)
  IN  [i \in Index |-> IF i \in usable
                       THEN [list[i] EXCEPT !.members = baskets[i], !.date = session]
                       ELSE list[i]]

-----------------------------------------------------------------------------
(* NSE's announced changes.                                                *)

\* The order of a stock's changes: by effective date, then by announcement.
Rank(c) == <<c.eff, c.announced, c.ref, c.seq>>
Before(c, d) ==
  \E n \in 1..4 : Rank(c)[n] < Rank(d)[n] /\ \A k \in 1..(n - 1) : Rank(c)[k] = Rank(d)[k]
LastOf(cs) == CHOOSE c \in cs : \A d \in cs \ {c} : Before(d, c)
FirstOf(cs) == CHOOSE c \in cs : \A d \in cs \ {c} : Before(c, d)

\* Inside the grace window, with a plausible date.
Timely(c, session) ==
  /\ c.eff >= session - GraceDays
  /\ c.announced # Human => c.eff <= c.announced + LookbackDays
InWindow(changes, l, session) == {c \in changes : Timely(c, session) /\ c.index \in Listed(l)}

\* A change is about a symbol, or about a company whose symbol the lists know.
Who(c) == <<c.index, c.symbol, IF c.symbol = "" THEN c.company ELSE "">>
SymbolOf(who, l) ==
  IF who[2] # "" THEN who[2]
  ELSE LET known == {s \in l[who[1]].members : Isin[s] = who[3]}
           prior == {s \in list[who[1]].members : Isin[s] = who[3]}
       IN  IF known # {} THEN CHOOSE s \in known : TRUE
           ELSE IF prior # {} THEN CHOOSE s \in prior : TRUE ELSE ""

Past(cs, session) == {c \in cs : c.eff <= session}

\* Mutant: with future changes only, the first of them is applied already.
WantedEarly(cs, session) ==
  IF Past(cs, session) # {} THEN LastOf(Past(cs, session)).action = INCLUDE
                            ELSE FirstOf(cs).action = INCLUDE

\* The last change in force decides; before the first, its opposite.
Wanted(cs, session) ==
  IF Past(cs, session) # {} THEN LastOf(Past(cs, session)).action = INCLUDE
                            ELSE FirstOf(cs).action # INCLUDE

\* _apply_announcements on the list l: what is added and dropped, as <<group,
\* symbol>> where a group is the changes of one stock in one index.
Ledger(l, changes, session) ==
  LET window    == InWindow(changes, l, session)
      groups    == {Who(c) : c \in window}
      member(g) == Wanted({c \in window : Who(c) = g}, session)
      symbol(g) == SymbolOf(g, l)
      listed    == (UNION {l[i].members \cup list[i].members : i \in Index}) \cup Master
      absent    == {g \in groups : symbol(g) \notin l[g[1]].members}
      wanted    == {g \in absent : member(g)}
      add       == {g \in wanted : symbol(g) \in listed}
      drop      == {g \in groups \ absent : ~member(g)}
  IN  [add        |-> {<<g, symbol(g)>> : g \in add},
       drop       |-> {<<g, symbol(g)>> : g \in drop},
       unresolved |-> wanted \ add,
       in_force   |-> [i \in Index |-> {c \in Past(window, session) : c.index = i}]]
Symbols(pairs, i) == {p[2] : p \in {q \in pairs : q[1][1] = i}}

\* The change in force names the list's date; an index without one remembers.
Announced(cs) ==
  CHOOSE c \in cs : \A d \in cs : d.eff < c.eff \/ (d.eff = c.eff /\ d.announced <= c.announced)
Corrected(l, ledger) ==
  [i \in Index |->
     LET members == (l[i].members \ Symbols(ledger.drop, i)) \cup Symbols(ledger.add, i)
         force   == ledger.in_force[i]
     IN  IF members = {} THEN NotListed
         ELSE IF force = {} THEN [l[i] EXCEPT !.members = members]
         ELSE [members |-> members, date |-> l[i].date,
               eff |-> Announced(force).eff, ref |-> Announced(force).ref]]

\* Two rows of one ISIN in one index, among those kept and those added.
Duplicates(l, ledger) ==
  \E i \in Index :
    LET kept  == l[i].members \ Symbols(ledger.drop, i)
        added == {b \in ledger.add : b[1][1] = i}
    IN  \/ \E s, t \in kept : s # t /\ Isin[s] = Isin[t]
        \/ \E a \in added : \E s \in kept : Isin[s] = Isin[a[2]]
        \/ \E a, b \in added : a # b /\ Isin[a[2]] = Isin[b[2]]

-----------------------------------------------------------------------------
(* One run.                                                                *)

Status(status, session, complete) ==
  last' = [status |-> status, session |-> session, complete |-> complete]

\* A run of a session older than the published one keeps the list.
BackDated(target) ==
  LET session == SessionOnOrBefore(target) IN
  /\ \E i \in Listed(list) : list[i].date > session
  /\ Status("skipped_idempotent", session, FALSE)
  /\ UNCHANGED <<today, list, shown>>

\* Mutant: an older day is built like any other.
NeverBackDated(target) == TRUE

NotBackDated(target) ==
  \A i \in Listed(list) : list[i].date <= SessionOnOrBefore(target)

\* A fetch that brings nothing usable leaves no list to start from.
FirstRunFails(target, baskets) ==
  /\ NotBackDated(target) /\ NothingRead(baskets) /\ Listed(list) = {}
  /\ Status("failed", SessionOnOrBefore(target), FALSE)
  /\ UNCHANGED <<today, list, shown>>

\* Mutant: staleness is not looked at when the file is kept.
KeepQuietly(session, unparsed) ==
  /\ Status("skipped_idempotent", session, FALSE)
  /\ UNCHANGED <<today, list, shown>>

\* Nothing read and nothing announced to apply: the file stays, loudly if stale.
Keep(session, unparsed) ==
  /\ Status(IF Stale(list, session) # {} \/ unparsed # {} THEN "failed"
            ELSE "skipped_idempotent", session, FALSE)
  /\ UNCHANGED <<today, list, shown>>

\* Duplicate keys: the file stays.
KeepForDuplicates(session) ==
  /\ Status(IF Listed(list) # {} THEN "skipped_idempotent" ELSE "failed", session, FALSE)
  /\ UNCHANGED <<today, list, shown>>

Write(session, l, ledger, unparsed, from, complete) ==
  /\ list' = Corrected(l, ledger)
  /\ shown' = from
  /\ Status(IF Stale(list', session) # {} \/ unparsed # {} THEN "failed" ELSE "success",
            session, complete)
  /\ UNCHANGED today

Build(target, baskets, from, read) ==
  LET session == SessionOnOrBefore(target)
      base    == Carried(baskets, session)
      ledger  == Ledger(base, read.changes, session)
  IN  /\ NotBackDated(target)
      /\ NothingRead(baskets) => Listed(list) # {}
      /\ IF NothingRead(baskets) /\ ledger.add = {} /\ ledger.drop = {}
         THEN Keep(session, read.unparsed)
         ELSE IF Duplicates(base, ledger)
         THEN KeepForDuplicates(session)
         ELSE Write(session, base, ledger, read.unparsed,
                    [i \in Index |-> IF i \in Usable(baskets) THEN from[i] ELSE shown[i]],
                    ~read.unavailable /\ read.unparsed = {} /\ ledger.unresolved = {})

\* What NSE may serve on a day, as <<the day shown, basket>> per index: the lists
\* of a day near it, or nothing, or one index cut short or not at all.
Fetches ==
  LET whole(e) == [i \in Index |-> <<e, Membership[i][e]>>]
      short(i) == {<<0, b>> : b \in {{}} \cup Truncated(Membership[i][today])}
  IN  {whole(e) : e \in Shows(today)} \cup {[i \in Index |-> <<0, {}>>]}
        \cup UNION {{[whole(today) EXCEPT ![i] = cut] : cut \in short(i)} : i \in Index}

Baskets(served) == [i \in Index |-> served[i][2]]
DaysShown(served) == [i \in Index |-> served[i][1]]

Run(target) ==
  \/ BackDated(target)
  \/ \E served \in Fetches : FirstRunFails(target, Baskets(served))
  \/ \E read \in Readings[SessionOnOrBefore(target)], served \in Fetches :
       Build(target, Baskets(served), DaysShown(served), read)

NextDay == today < Max(Day) /\ today' = today + 1 /\ UNCHANGED <<list, shown, last>>

LedgerNext == NextDay \/ \E target \in {today, today - 1} \ {0} : Run(target)
LedgerSpec == LedgerInit /\ [][LedgerNext]_ledgerVars

-----------------------------------------------------------------------------
Issuers(members) == {Isin[s] : s \in members}

\* After a run that read every release it should, an index that NSE served
\* within the grace window has exactly the members NSE announced for the
\* session: a change its list lags is applied, one shown early is held back,
\* and an index carried through an outage changes on the date.  A list cut
\* short, or stamped with an older session, is not one NSE served.
\* (_apply_announcements: "Make each announced change decide membership".)
ListIsAnnounced ==
  last.complete =>
    \A i \in Listed(list) :
      /\ Min({shown[i], list[i].date}) >= last.session - GraceDays - 1
      /\ shown[i] \in 1..(list[i].date + Lead)
      => Issuers(list[i].members) = Issuers(Membership[i][last.session])

\* Never silently stale: when the run of the published session or of a later one
\* is not red, no index was read more than StaleSessions ago.  (_stale_indices.)
\* It holds for a grace window no longer than that limit, which the code's is
\* not: a file kept for a duplicate key is not looked at for its age.
NeverSilentlyStale ==
  /\ last.status \notin {"none", "failed"}
  /\ \A i \in Listed(list) : list[i].date <= last.session
  => Stale(list, last.session) = {}

\* The changes of a stock have it in the index at a session: the last one in force
\* includes it, or all are still ahead and the first one takes it out.
HaveItIn(cs, session) ==
  \E c \in cs :
    \/ /\ c.action = INCLUDE /\ c.eff <= session
       /\ \A d \in cs \ {c} : d.eff > session \/ Before(d, c)
    \/ /\ c.action # INCLUDE /\ c.eff > session
       /\ \A d \in cs \ {c} : Before(c, d)

\* The stocks that the changes in the window take out of an index.
Names(c, stock) == IF c.symbol = "" THEN c.company = Isin[stock] ELSE c.symbol = stock
TakenOut(i, read, session) ==
  {x \in Stock : \E c \in read.changes :
     /\ Timely(c, session) /\ c.index = i /\ Names(c, x)
     /\ ~HaveItIn({d \in read.changes : Timely(d, session) /\ Who(d) = Who(c)}, session)}

\* A run never moves an index back to an older session, and no index goes because
\* NSE serves a part of it, or nothing, or because a run is back-dated: it goes
\* when the announcements take out every member it had, or as many stocks as a
\* list must have.
IndicesAreKept ==
  [][\A i \in Listed(list) :
       IF i \in Listed(list') THEN list'[i].date >= list[i].date
       ELSE \E read \in Readings[last'.session] :
              LET out == TakenOut(i, read, last'.session)
              IN  list[i].members \subseteq out \/ Cardinality(out) >= MinMembers]_ledgerVars

-----------------------------------------------------------------------------
(* Circumstances under which the first two hold for any history of NSE's.  *)

\* No issuer has two symbols, and no two changes of an index name a stock
\* differently.
OneNamePerIssuer ==
  /\ \A s, t \in Stock : Isin[s] = Isin[t] => s = t
  /\ \A s \in Sessions : \A read \in Readings[s] : \A c, d \in read.changes, x \in Stock :
       c.index = d.index /\ Names(c, x) /\ Names(d, x) => Who(c) = Who(d)

\* NSE does as it announced.  What every release together says of a stock at a
\* session is so.  A stock of which they say nothing is since the days before the
\* window, and for as long as NSE's lists may lead, where it is at the session;
\* and what a part of the releases said of it, at a session since then or at the
\* next one, is true at this one.
About(i, x, read, session) ==
  {c \in read.changes : Timely(c, session) /\ c.index = i /\ Names(c, x)}
NseDoesAsAnnounced ==
  \A s \in Sessions, i \in Index, x \in Stock : \A read \in Readings[s] :
    ~read.unavailable /\ read.unparsed = {} =>
      LET said  == About(i, x, read, s)
          is(d) == x \in Membership[i][d]
          since == {d \in Day : d >= s - GraceDays - 1}
      IN  IF said # {} THEN (HaveItIn(said, s) <=> is(s))
          ELSE /\ \A d \in since : d <= s + Lead => (is(d) <=> is(s))
               /\ \A t \in Sessions \cap since : (\A u \in Sessions : u <= s \/ u >= t) =>
                    \A other \in Readings[t] :
                      LET part == About(i, x, other, t)
                      IN  part # {} => (HaveItIn(part, t) <=> is(s))
=============================================================================
