--------------------------- MODULE MCIndexScenario ---------------------------
(***************************************************************************)
(* A history for IndexLedger: a review (release 1, layouts with sections), *)
(* of which release 3 postpones one inclusion; a company that leaves every *)
(* index (2); a release that no layout reads, read by the overrides (4);   *)
(* and one with a typing error in its date (5).  Day 3 is no session; on   *)
(* it f becomes g, whom the overrides still call f.                        *)
(***************************************************************************)
EXTENDS NsePressRelease

Lines(kind) == [kind |-> kind]
Row(s) == [kind |-> "company", symbol |-> s, company |-> s]
Action(a) == [kind |-> "action", action |-> a]
Release(ref, announced, wef, company, lines, revisions) ==
  [ref |-> ref, announced |-> announced, wef |-> wef, index |-> "", company |-> company,
   lines |-> lines, revisions |-> revisions]
Section(i) == [kind |-> "section", index |-> i]

Review == Release(1, 1, 0, "",
  << [kind |-> "effective", day |-> 2],
     Section("fifty"), Action(EXCLUDE), Lines("companies"), Row("b"),
     Action(INCLUDE), Lines("companies"), Row("e"),
     Section("bank"), Row("b"), Lines("no changes") >>, <<>>)
Departure == Release(2, 1, 4, "d",
  << [kind |-> "effective", day |-> 4], Lines("indices"),
     [kind |-> "index", index |-> "fifty"], [kind |-> "index", index |-> "bank"] >>, <<>>)
Postponed == Release(3, 1, 0, "", <<>>,
  << [symbol |-> "e", action |-> INCLUDE, index |-> "fifty", old |-> 2, new |-> 4] >>)
Scan == Release(4, 1, 0, "", <<Lines("companies"), Row("f")>>, <<>>)
Mistyped == Release(5, 1, 0, "",
  << [kind |-> "effective", day |-> 9], Section("bank"),
     Action(EXCLUDE), Lines("companies"), Row("a") >>, <<>>)

MCIndex == {"fifty", "bank"}
MCStock == {"a", "b", "c", "d", "e", "f", "g"}
MCIsin == [s \in MCStock |-> IF s = "g" THEN "f" ELSE s]
MCDay == 1..4
MCSessions == MCDay \ {3}
MCReleases == <<Postponed, Scan, Departure, Mistyped, Review>>
MCOverrides == << [ref |-> 4, index |-> "bank", symbol |-> "f", action |-> INCLUDE, eff |-> 2] >>
MCMembership ==
  [i \in MCIndex |-> [d \in MCDay |->
     IF i = "fifty"
     THEN {"a", "c"} \cup (IF d < 2 THEN {"b"} ELSE {})
                     \cup (IF d < 4 THEN {"d"} ELSE {"e"})
     ELSE {"c"} \cup (IF d < 4 THEN {"d"} ELSE {})
                \cup (IF d < 2 THEN {} ELSE IF d < 3 THEN {"f"} ELSE {"g"})]]
=============================================================================
