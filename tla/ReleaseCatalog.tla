--------------------------- MODULE ReleaseCatalog ---------------------------
(***************************************************************************)
(* What the rolling `data-latest` release promises its clients, with no    *)
(* uploads, locks or crashes in sight: a catalog of datasets that changes  *)
(* in single steps, each step the publish of one producer, which touches   *)
(* only the datasets that producer builds and never takes data away.       *)
(* SharedRelease is the protocol that has to implement it.                 *)
(***************************************************************************)
EXTENDS Integers

CONSTANTS
  Dataset,      \* dataset names a manifest can list
  Content,      \* what a data file can hold (its sha256 names it)
  NoEntry,      \* the dataset is not listed
  Runner,       \* producers
  Writes,       \* Writes[r]: the datasets the job of r builds
  Retires,      \* Retires[r]: names the registry of r drops from the manifest
  MayShrink,    \* datasets whose row count may fall on any publish
  AllowShrink,  \* producers run with --allow-shrink
  RowsOf        \* RowsOf[c]: the rows of content c

VARIABLES
  catalog,      \* the entry each dataset is served from
  latest        \* the manifest's latest_trading_date

\* What a manifest says of one dataset: its baseline file and its deltas.
Entry == [base : Content, deltas : SUBSET Content]
EntryOrNone == Entry \cup {NoEntry}

\* A producer changes what it builds and drops what it retired, nothing else.
StaysInLane(r) ==
  \A d \in Dataset :
    catalog'[d] # catalog[d] => d \in Writes[r] \/ (d \in Retires[r] /\ catalog'[d] = NoEntry)

\* A dataset once served stays served, with no fewer rows than before.
KeepsCoverage(r) ==
  /\ \A d \in Writes[r] :
       catalog[d] # NoEntry =>
         /\ catalog'[d] # NoEntry
         /\ \/ d \in MayShrink
            \/ r \in AllowShrink
            \/ RowsOf[catalog[d].base] <= RowsOf[catalog'[d].base]
  /\ latest <= latest'

Publish(r) ==
  /\ catalog' \in [Dataset -> EntryOrNone]
  /\ latest' \in Nat
  /\ StaysInLane(r)
  /\ KeepsCoverage(r)

Init ==
  /\ catalog \in [Dataset -> EntryOrNone]
  /\ latest \in Nat

Next == \E r \in Runner : Publish(r)

Spec == Init /\ [][Next]_<<catalog, latest>>
=============================================================================
