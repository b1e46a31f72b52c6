------------------------- MODULE IndexAnnouncements --------------------------
(***************************************************************************)
(* What a build of the index constituents may read of NSE's announcements: *)
(* the selected press releases, of which some may be out of reach, with    *)
(* what a human wrote down of those no layout reads.                       *)
(***************************************************************************)
EXTENDS NsePressRelease, FiniteSetsExt

CONSTANTS
  Day, Sessions,     \* 1 .. the last day modelled; NSE's sessions among them
  Releases,          \* the press-release page, newest first
  Overrides,         \* seeds/index_change_overrides.csv, in order
  GraceDays, LookbackDays

\* A human's reading beats the parsed text for the same date.
Human == Max(Day) + 1

Reading == [r \in ToSet(Releases) |-> Parsed(r)]

\* Of the releases selected for a session one is out of reach, or not a PDF, or
\* the whole page is out of reach: as <<out of reach, not a PDF>>.
Deliveries(page) ==
  {<<{}, {}>>, <<ToSet(page), {}>>}
    \cup UNION {{<<{r}, {}>>, <<{}, {r}>>} : r \in ToSet(page)}

\* What a run reads; a payload that is not a PDF counts as unread by every layout.
Announcements(page, missing, garbled) ==
  LET whole == SelectSeq(page, LAMBDA r : r \notin missing \cup garbled)
  IN  [changes     |-> UNION {ToSet(Reading[r].changes) : r \in ToSet(whole)},
       revisions   |-> FlattenSeq([n \in 1..Len(whole) |-> Reading[whole[n]].revisions]),
       unparsed    |-> {r.ref : r \in garbled \cup {q \in ToSet(whole) : Reading[q].unparsed}},
       unavailable |-> missing # {}]

Cancels(o, c) ==
  /\ o.action = "cancel" /\ c.ref = o.ref
  /\ o.index \in {"", c.index} /\ o.symbol \in {"", c.symbol}

Revised(changes, rev) ==
  {IF c.symbol = rev.symbol /\ c.action = rev.action /\ c.eff = rev.old
        /\ rev.index \in {"", c.index}
   THEN [c EXCEPT !.eff = rev.new] ELSE c : c \in changes}

\* _with_overrides: cancelled changes out, the seed's own in, dates revised.
WithOverrides(ann) ==
  LET kept == {c \in ann.changes : \A n \in DOMAIN Overrides : ~Cancels(Overrides[n], c)}
      own  == {LET o == Overrides[n] IN
               [ref |-> o.ref, seq |-> 100000 + n, announced |-> Human, eff |-> o.eff,
                index |-> o.index, action |-> o.action, symbol |-> o.symbol, company |-> ""] :
               n \in {k \in DOMAIN Overrides :
                        Overrides[k].action \in {INCLUDE, EXCLUDE} /\ Overrides[k].eff # 0}}
  IN  [changes  |-> FoldLeft(Revised, kept \cup own, ann.revisions),
       unparsed |-> ann.unparsed \ {Overrides[n].ref : n \in DOMAIN Overrides},
       unavailable |-> ann.unavailable]

\* What the runs for a session may read.
Readings ==
  [s \in Sessions |->
     LET page == Selected(Releases, s, GraceDays, LookbackDays)
     IN  {WithOverrides(Announcements(page, d[1], d[2])) : d \in Deliveries(page)}]
=============================================================================
