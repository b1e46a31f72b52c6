-------------------------- MODULE CorporateActions --------------------------
(***************************************************************************)
(* The history of NSE's corporate actions                                  *)
(* (corporate_actions_history.py): every action with the ISIN that traded  *)
(* on its ex-date, which the daily run feeds from book-closure files and   *)
(* an operator tops up from NSE's API.                                     *)
(*                                                                         *)
(* A purpose is a name; what the classifier reads in it is a constant.     *)
(***************************************************************************)
EXTENDS Integers, FiniteSets, FiniteSetsExt

CONSTANTS
  Day, Sessions,  \* 1 .. the last day modelled; NSE's sessions among them
  Month, Year,    \* [Day -> its month, and the year of its file]
  Versions,       \* the equity versions: [sym, isin, first, last]
  Closures, Api,  \* NSE's rows, [sym, board, ex, purpose, from, to, isin]: in the
                  \* bundles of the sessions, or the API's answers, from .. to
  Kinds,          \* [purpose -> the kinds its parts name] (classify)
  None,           \* no ISIN
  Asked,          \* <<from, to>>: what operators ask for, ahead of today or behind
  WholeMonth,     \* the days of a window that is a whole month (28)
  RelistedWithin, CatchupDays, MinDrop, DropShare, MaxFaults

VARIABLES
  today,
  files,      \* ca_history_{YYYY}.parquet: [year -> rows], {} for no file
  read,       \* history: the sessions whose bundle a daily run has read
  lacked,     \* history: the API's rows that an answer in use was cut short of
  faults

vars == <<today, files, read, lacked, faults>>

Years == {Year[d] : d \in Day}
Table(f) == UNION {f[y] : y \in Years}
LastDay == Max(Day)

\* A book-closure file prints no ISIN.
CorporateActionsAssumptions ==
  /\ LastDay \in Nat \ {0} /\ Day = 1..LastDay
  /\ Sessions \in (SUBSET Day) \ {{}} /\ CatchupDays \in Nat \ {0} /\ MaxFaults \in Nat
  /\ \A v \in Versions :
       /\ v = [sym |-> v.sym, isin |-> v.isin, first |-> v.first, last |-> v.last]
       /\ v.first \in Day /\ v.last \in Day /\ v.isin # None
  /\ \A p \in DOMAIN Kinds : DOMAIN Kinds[p] \subseteq Nat /\ DOMAIN Kinds[p] # {}
  /\ \A b \in Closures \cup Api :
       b.ex \in Day /\ b.from \in Day /\ b.to \in Day /\ b.purpose \in DOMAIN Kinds
  /\ \A b \in Closures : b.isin = None
  /\ Asked \subseteq Day \X Day
ASSUME ConstantsAreRight == CorporateActionsAssumptions

Isins == {v.isin : v \in Versions} \cup {a.isin : a \in Api} \cup {None}
Rows ==
  [source: {"api", "book"}, sym: {b.sym : b \in Closures \cup Api},
   board: {b.board : b \in Closures \cup Api}, ex: Day, purpose: DOMAIN Kinds, part: Nat,
   kind: UNION {{k[n] : n \in DOMAIN k} : k \in {Kinds[p] : p \in DOMAIN Kinds}},
   isin: Isins, isin_nse: Isins, seen: Day]

\* A row is in the file of its ex-date's year, and is a part of its purpose.
TypeOK ==
  /\ today \in Day /\ faults \in 0..MaxFaults /\ read \subseteq Sessions /\ lacked \subseteq Api
  /\ files \in [Years -> SUBSET Rows]
  /\ \A y \in Years : \A r \in files[y] :
       /\ Year[r.ex] = y
       /\ r.part \in DOMAIN Kinds[r.purpose] /\ r.kind = Kinds[r.purpose][r.part]

Init ==
  /\ today = Min(Sessions) /\ files = [y \in Years |-> {}] /\ read = {} /\ lacked = {}
  /\ faults = 0

-----------------------------------------------------------------------------
(* What NSE serves.                                                        *)

Bundle(day) == {b \in Closures : b.from <= day /\ day <= b.to}
\* The API lists a day or so ahead of the ex-date.
Answer(day, start, end) ==
  {a \in Api : a.from <= day /\ day <= a.to /\ start <= a.ex /\ a.ex <= end}

\* The n sessions up to a day.
SessionsTo(day, n) ==
  {s \in Sessions : s <= day /\ Cardinality({t \in Sessions : s < t /\ t <= day}) < n}

\* Bundles that cannot be fetched or parsed: none, or, one fault, one of them.
Missing(days) ==
  {{}} \cup (IF faults < MaxFaults THEN {{d} : d \in days} ELSE {})

-----------------------------------------------------------------------------
(* ISINs (InstrumentList).                                                 *)

\* The list after the session `latest`, from a price history that starts at `from`.
InstrumentList(latest, from) ==
  {[v EXCEPT !.first = Max({@, from}), !.last = Min({@, latest})] :
     v \in {u \in Versions : u.first <= latest /\ u.last >= from}}

Over(v, day) == v.first <= day /\ day <= v.last
TheOnly(S) == IF Cardinality(S) = 1 THEN CHOOSE x \in S : TRUE ELSE None

\* The ISIN listed under the symbol on the ex-date; NSE's own settles a tie or
\* stands in for an unknown symbol; failing both, the share that lists next.
IsinOf(sym, ex, printed, list) ==
  LET day    == Min({ex, Max({v.last : v \in list})})
      found  == {v.isin : v \in {u \in list : u.sym = sym /\ Over(u, day)}}
      later  == {v \in list : v.sym = sym /\ day < v.first /\ v.first <= day + RelistedWithin}
      next   == {v.isin : v \in {u \in later : \A w \in later : u.first <= w.first}}
      stands == \/ printed \in found
                \/ found = {} /\ \E v \in list : v.isin = printed /\ Over(v, day)
  IN  IF Cardinality(found) = 1 THEN TheOnly(found)
      ELSE IF printed # None /\ stands THEN printed
      ELSE IF found = {} THEN TheOnly(next) ELSE None

\* A row the list cannot resolve keeps the ISIN it has.
Resolved(r, list) ==
  LET isin == IsinOf(r.sym, r.ex, r.isin_nse, list)
  IN  IF isin = None THEN r ELSE [r EXCEPT !.isin = isin]
ResolveIsins(rows, list) == {Resolved(r, list) : r \in rows}

-----------------------------------------------------------------------------
(* The table.                                                              *)

\* One row for each action a purpose names.
Expand(raw, source, seen) ==
  UNION {{[source |-> source, sym |-> a.sym, board |-> a.board, ex |-> a.ex,
           purpose |-> a.purpose, part |-> n, kind |-> Kinds[a.purpose][n],
           isin |-> None, isin_nse |-> a.isin, seen |-> seen] :
            n \in DOMAIN Kinds[a.purpose]} : a \in raw}

RowKey(r) == <<r.source, r.sym, r.ex, r.purpose, r.part>>
SameAction(r, s) ==
  /\ r.ex = s.ex /\ r.kind = s.kind
  /\ r.sym = s.sym \/ (r.isin # None /\ r.isin = s.isin)
IsListed(r, rows) == \E s \in rows : SameAction(r, s)
FromApi(rows) == {r \in rows : r.source = "api"}
FromBook(rows) == {r \in rows : r.source = "book"}

\* One row of each key.
Distinct(rows) == {CHOOSE s \in rows : RowKey(s) = RowKey(r) : r \in rows}

\* What `fresh` adds: an API row is never a repeat, a book-closure row of an
\* action in the table is.
Added(prior, fresh) == {r \in Distinct(fresh) : ~(r.source = "book" /\ IsListed(r, prior))}

\* Mutant: a book-closure row stays beside the API's row of its action.
MergeBoth(prior, fresh) == prior \cup Added(prior, fresh)

\* A book-closure row of an action the API lists gives way.
Merge(prior, fresh) ==
  LET out == prior \cup Added(prior, fresh)
  IN  FromApi(out) \cup {r \in FromBook(out) : ~IsListed(r, FromApi(out))}

\* Mutant: a row is filed under the year it was first seen.
WriteYearsBySeen(table) ==
  files' = [y \in Years |-> LET rows == {r \in table : Year[r.seen] = y}
                            IN  IF rows = {} THEN files[y] ELSE rows]

\* The years that have rows are written; a file whose rows all went stays.
WriteYears(table) ==
  files' = [y \in Years |-> LET rows == {r \in table : Year[r.ex] = y}
                            IN  IF rows = {} THEN files[y] ELSE rows]

-----------------------------------------------------------------------------
(* The daily run.                                                          *)

\* A table once the bundles of some days, up to each day, are in it.
TableAfter(rows, list, days) ==
  LET table[d \in 0..LastDay] ==
        IF d = 0 THEN rows
        ELSE IF d \in days
             THEN Merge(table[d - 1], ResolveIsins(Expand(Bundle(d), "book", d), list))
        ELSE table[d - 1]
  IN  table

\* Mutant: the rows of earlier runs keep the ISIN of their day.
DailyTableFresh(list, days) == TableAfter(Table(files), list, days)[LastDay]

DailyTable(list, days) == TableAfter(ResolveIsins(Table(files), list), list, days)[LastDay]

\* Without a history, on a holiday, without the instrument list or the day's own
\* bundle, every file stays as it is.
BuildHistory(latest, from) ==
  LET days == SessionsTo(today, CatchupDays) IN
  /\ Table(files) # {} /\ today \in Sessions
  /\ \E missing \in Missing(days \ {today}) :
       /\ WriteYears(DailyTable(InstrumentList(latest, from), days \ missing))
       /\ read' = read \cup (days \ missing)
       /\ faults' = faults + Cardinality(missing) + (IF from > 1 THEN 1 ELSE 0)
       /\ faults' <= MaxFaults
  /\ UNCHANGED <<today, lacked>>

-----------------------------------------------------------------------------
(* The operator's backfill and top-up, from NSE's API.                     *)

\* --from after --to is refused.
Windows == {w \in Asked : w[1] <= w[2]}

Expected(start, end) == {r \in Table(files) : start <= r.ex /\ r.ex <= end}

\* A month of the main board that passed with no action at all is a broken answer.
MonthIsBroken(raw, start, end) ==
  \E m \in {Month[d] : d \in start..end} :
    LET window == {d \in start..end : Month[d] = m}
    IN  /\ Cardinality(window) >= WholeMonth /\ \A d \in window : d < today
        /\ \A a \in raw : ~(a.ex \in window /\ a.board = "main")

\* A month that would lose more than a twentieth, or more than 3 rows, of what
\* the API once listed is a truncated one.
Shrinks(fresh, start, end) ==
  \E m \in {Month[d] : d \in start..end} :
    LET held   == Cardinality({r \in FromApi(Expected(start, end)) : Month[r.ex] = m})
        listed == Cardinality({r \in fresh : Month[r.ex] = m})
    IN  held - listed > Max({MinDrop, held \div DropShare})

\* Mutant: passed book-closure rows stay.
RetiredNoBook(start, end) == FromApi(Expected(start, end))

\* Mutant: the window's book closures go, those ahead with those that passed.
RetiredAhead(start, end) == Expected(start, end)

\* The rows a window answers for: the API's, and the book closures that passed.
Retired(start, end) ==
  FromApi(Expected(start, end)) \cup {r \in FromBook(Expected(start, end)) : r.ex < today}

\* A row the API repeats keeps its first sighting.
SeenBefore(r, start, end) ==
  LET same == {h \in FromApi(Expected(start, end)) : RowKey(h) = RowKey(r)}
  IN  IF same = {} THEN r ELSE [r EXCEPT !.seen = (CHOOSE h \in same : TRUE).seen]

\* An answer without `cut`; a broken or shrunken one changes nothing.
TopUp(start, end, cut, latest, from) ==
  LET raw   == Answer(today, start, end) \ cut
      fresh == Expand(raw, "api", today)
      list  == InstrumentList(latest, from)
  IN  /\ UNCHANGED <<today, read>> /\ lacked' = lacked \cup cut
      /\ faults' = faults + (IF cut = {} THEN 0 ELSE 1) + (IF from > 1 THEN 1 ELSE 0)
      /\ faults' <= MaxFaults
      /\ ~MonthIsBroken(raw, start, end) /\ ~Shrinks(fresh, start, end)
      /\ WriteYears(Merge(ResolveIsins(Table(files) \ Retired(start, end), list),
                          ResolveIsins({SeenBefore(r, start, end) : r \in fresh}, list)))

\* NSE answers in full, or, one fault, without a row or at all.
Cuts(start, end) ==
  LET raw == Answer(today, start, end) IN {{}} \cup {{a} : a \in raw} \cup {raw}

NextDay == today < LastDay /\ today' = today + 1 /\ UNCHANGED <<files, read, lacked, faults>>

\* The list has the session of the day or, when that failed, the one before; one
\* rebuilt from fewer price files starts later.
Lists == {l \in (Sessions \cap {today, today - 1}) \X {1, today} :
            l[2] = 1 \/ faults < MaxFaults}

Next ==
  \/ NextDay
  \/ \E l \in Lists : BuildHistory(l[1], l[2])
  \/ \E l \in Lists, w \in Windows :
       \E cut \in Cuts(w[1], w[2]) : TopUp(w[1], w[2], cut, l[1], l[2])

Spec == Init /\ [][Next]_vars

-----------------------------------------------------------------------------
\* One row per action: no key twice, and no book-closure row beside the API's row
\* of the same action, even one under the company's later symbol.
\* ("a book-closure row gives way to an API row for the same action".)
OneRowPerAction ==
  \A r, s \in Table(files) : r # s => RowKey(r) # RowKey(s) /\ ~(r.source # s.source /\ SameAction(r, s))

\* The symbols of one share: those that the versions, and the API, join by an ISIN.
Symbols == {n.sym : n \in Versions \cup Closures \cup Api}
Names == {[sym |-> n.sym, isin |-> n.isin] : n \in Versions \cup {a \in Api : a.isin # None}}
Families ==
  {S \in SUBSET Symbols : \A n, m \in Names : n.sym \in S /\ n.isin = m.isin => m.sym \in S}
SameShare(sym, other) == \A S \in Families : sym \in S => other \in S

\* An action that has not passed and that a run has read in a bundle is in the
\* history, under its symbol or another of the same share, whatever windows,
\* behind or ahead, top-ups fetch.  The API's row takes its place once a window
\* lists it, so it can go when NSE withdraws that row, or when an answer is cut
\* short of it by no more than the tolerance, and in no other way.
\* ("A book-closure row whose ex-date is still ahead stays.")
IsKnown(rows, b, kind) ==
  \E r \in rows : r.ex = b.ex /\ r.kind = kind /\ SameShare(b.sym, r.sym)
IsGivenUp(b, kind) ==
  \E a \in Api :
    /\ a.to < today \/ a \in lacked
    /\ a.ex = b.ex /\ SameShare(b.sym, a.sym)
    /\ \E n \in DOMAIN Kinds[a.purpose] : Kinds[a.purpose][n] = kind
UpcomingIsKnown ==
  \A s \in read : \A b \in Bundle(s) :
    b.ex >= today => \A n \in DOMAIN Kinds[b.purpose] :
      IsKnown(Table(files), b, Kinds[b.purpose][n]) \/ IsGivenUp(b, Kinds[b.purpose][n])

\* The API's answer, whole or cut short within the tolerance, is the record of its
\* window: of the API's rows in it, and of the actions of it that passed, the
\* history then has those of the answer and no other, in every year the answer has
\* an action of (the file of a year that loses its last row stays).
\* (backfill_corporate_actions_history: "Within the window the API is the record".)
Replaced(rows, start, end) ==
  {r \in rows : start <= r.ex /\ r.ex <= end /\ (r.source = "api" \/ r.ex < today)}
TopUpIsTheRecord ==
  [][\A w \in Windows, l \in Lists : \A cut \in Cuts(w[1], w[2]) :
       TopUp(w[1], w[2], cut, l[1], l[2]) =>
         LET raw == Answer(today, w[1], w[2]) \ cut
         IN  \A y \in {Year[a.ex] : a \in raw} :
               {RowKey(r) : r \in Replaced(files'[y], w[1], w[2])} =
               {RowKey(r) : r \in {t \in Expand(raw, "api", today) : Year[t.ex] = y}}]_vars

\* After a daily run on the day's list, a row has the ISIN that traded under its
\* symbol on its ex-date, when one did: also a row first written before that day.
IsinsFollowTheList ==
  [][BuildHistory(today, 1) =>
       \A r \in Table(files'), v \in Versions :
         /\ v.sym = r.sym /\ Over(v, r.ex) /\ r.ex <= today
         /\ \A w \in Versions : w.sym = r.sym /\ Over(w, r.ex) => w.isin = v.isin
         => r.isin = v.isin]_vars

\* A row does not lose the ISIN it has.  (resolve_isins: "must not erase what an
\* earlier one established"; RUNBOOK.)
IsinsAreKept ==
  [][\A r \in Table(files), s \in Table(files') :
       RowKey(r) = RowKey(s) /\ r.isin # None => s.isin # None]_vars
=============================================================================
