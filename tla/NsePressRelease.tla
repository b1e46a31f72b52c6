--------------------------- MODULE NsePressRelease ---------------------------
(***************************************************************************)
(* What the producer reads in one of NSE Indices' press releases           *)
(* (sources/nse_index_announcements.py).  A release is its record on the   *)
(* index page and the lines of its PDF that carry meaning, each a record   *)
(* with a `kind`: the regular expressions that tell the kinds apart, and   *)
(* the text of a name, are not modelled.  0 stands for no date, "" for no  *)
(* index or no symbol, and days are numbers.                               *)
(***************************************************************************)
EXTENDS Integers, Sequences, SequencesExt, FiniteSets

INCLUDE == "include"
EXCLUDE == "exclude"

\* One company enters or leaves one index; `symbol` is "" when the release
\* names only the company.
Change(release, seq, eff, index, action, symbol, company) ==
  [ref |-> release.ref, seq |-> seq, announced |-> release.announced, eff |-> eff,
   index |-> index, action |-> action, symbol |-> symbol, company |-> company]

\* Where the reader is in a release.
AtStart(release) ==
  [index |-> release.index, action |-> "", table |-> "none", eff |-> release.wef,
   section |-> 0, changes |-> <<>>, rows |-> <<>>, orphans |-> 0, unchanged |-> FALSE]

Heading(at, index) ==
  [at EXCEPT !.index = index, !.action = "", !.table = "none", !.section = Len(at.changes)]
Entry(release, at, index, action, symbol, company) ==
  Change(release, Len(at.changes) + 1, at.eff, index, action, symbol, company)

\* A row of a company table, in the section, action and date it stands under;
\* with one of them missing it is an orphan and the release unread.
CompanyRow(release, at, line) ==
  IF at.index = "" \/ at.action = "" \/ at.eff = 0
  THEN [at EXCEPT !.orphans = @ + 1]
  ELSE [at EXCEPT !.changes =
          Append(@, Entry(release, at, at.index, at.action, line.symbol, line.company))]

\* "The above changes are also applicable to ...": the section again, for each
\* index named.
AlsoApplicable(release, at, line) ==
  LET section == SelectSeq(SubSeq(at.changes, at.section + 1, Len(at.changes)),
                           LAMBDA c : c.index = at.index)
      copies  == FlattenSeq([n \in 1..Len(line.indices) |->
                   [k \in 1..Len(section) |-> [section[k] EXCEPT !.index = line.indices[n]]]])
      offset  == Len(at.changes)
  IN  [at EXCEPT !.table = "none",
         !.changes = @ \o [k \in 1..Len(copies) |-> [copies[k] EXCEPT !.seq = offset + k]]]

Line(release, at, line) ==
  CASE line.kind = "effective" -> [at EXCEPT !.eff = line.day]
    [] line.kind = "no changes" -> [at EXCEPT !.unchanged = TRUE]
    [] line.kind = "section" -> Heading(at, line.index)
    [] line.kind = "letter" -> Heading(at, IF line.index = "" THEN release.index ELSE line.index)
    [] line.kind = "note" -> [at EXCEPT !.table = "none"]
    [] line.kind = "action" -> [at EXCEPT !.action = line.action, !.table = "none"]
    [] line.kind \in {"companies", "indices"} -> [at EXCEPT !.table = line.kind]
    [] line.kind = "also" /\ at.index # "" -> AlsoApplicable(release, at, line)
    [] line.kind = "company" /\ at.table = "companies" -> CompanyRow(release, at, line)
    [] line.kind = "index" /\ at.table = "indices" -> [at EXCEPT !.rows = Append(@, line.index)]
    [] OTHER -> at

\* One company out of every index of a table: the release's title names it.
CompanyExclusion(release, at) ==
  IF release.company = "" \/ at.eff = 0
  THEN [at EXCEPT !.orphans = @ + Len(at.rows)]
  ELSE [at EXCEPT !.changes = @ \o [k \in 1..Len(at.rows) |->
          Change(release, Len(at.changes) + k, at.eff, at.rows[k], EXCLUDE, "", release.company)]]

\* What one release says: its changes, the dates it revises, and whether a
\* layout read it.
Parsed(release) ==
  LET at   == FoldLeft(LAMBDA a, l : Line(release, a, l), AtStart(release), release.lines)
      done == CompanyExclusion(release, at)
  IN  [changes |-> done.changes, revisions |-> release.revisions,
       unparsed |-> \/ done.orphans > 0
                    \/ done.changes = <<>> /\ release.revisions = <<>> /\ ~done.unchanged]

\* select_releases: those that can still matter to the session's list.
Selected(releases, session, grace, lookback) ==
  SelectSeq(releases, LAMBDA r :
    /\ r.announced <= session /\ r.announced >= session - lookback
    /\ r.wef # 0 => r.wef >= session - grace)
=============================================================================
