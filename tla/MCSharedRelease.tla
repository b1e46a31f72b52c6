-------------------------- MODULE MCSharedRelease ---------------------------
(***************************************************************************)
(* Values for SharedRelease.  One registry (`reference`, `fundamentals`),  *)
(* a dataset of a sibling producer (`calls`) and a retired one (`ohlc`).   *)
(* Content 1 is the seed; 2 is a later, larger file; 3 is as late as 2 but *)
(* no larger than 1, so replacing 2 by it is a shrink.                     *)
(***************************************************************************)
EXTENDS SharedRelease

CONSTANTS daily, fundamentals, laptop

MCDataset == {"reference", "fundamentals", "calls", "ohlc"}
MCContent == 1..3
MCRowsOf == <<1, 2, 1>>
MCDateOf == <<1, 2, 2>>

Ours == {"reference", "fundamentals"}
MCOwned == [r \in Runner |-> Ours]
MCWrites ==
  [r \in Runner |->
     CASE r = daily -> {"reference"}
       [] r = fundamentals -> {"fundamentals"}
       [] r = laptop -> {"reference"}]
MCPrimary == [r \in Runner |-> "reference"]
MCRetires == [r \in Runner |-> {"ohlc"}]

Plain(c) == [base |-> c, deltas |-> {}]
SeedManifest ==
  [gen  |-> 1,
   date |-> 1,
   ds   |-> [d \in MCDataset |->
               CASE d = "calls" -> [base |-> 1, deltas |-> {2}]
                 [] d = "fundamentals" -> [base |-> 1, deltas |-> {3}]
                 [] OTHER -> Plain(1)]]
NoSeed == {NoManifest}
OneSeed == {SeedManifest}
AnySeed == NoSeed \cup OneSeed

\* Left behind by a run that died before its flip, and a file the sibling
\* indexes somewhere else.
MCStrays == {Base("reference", 2), Base("calls", 3)}
NoStrays == {}
=============================================================================
