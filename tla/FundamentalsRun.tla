-------------------------- MODULE FundamentalsRun ---------------------------
(***************************************************************************)
(* The fundamentals producer: discover result filings on the exchange,     *)
(* fetch and parse one document per filing, merge its row into the         *)
(* published parquet, and remember in fundamentals_state.json what was     *)
(* done.  The parquet goes out with a publish, the state file with a call  *)
(* of its own after it, so the two can part company on the release.        *)
(*                                                                         *)
(* Runs come one after the other (the concurrency group of SharedRelease); *)
(* each starts on a fresh disk.  The exchange moves on between any two     *)
(* steps of a run.                                                         *)
(*                                                                         *)
(* Abstractions.  A notice is one row of the exchange's list; its document *)
(* is attached later, and may be served later still.  What the parser and  *)
(* the gates make of a document is a constant of the document, and it      *)
(* yields one row.  Every symbol here is in the covered universe.  A       *)
(* publish is one step: SharedRelease is about what happens inside it.     *)
(***************************************************************************)
EXTENDS Integers, FiniteSets

CONSTANTS
  Symbol,       \* instrument keys
  Filing,       \* filing keys (issuer, period tag)
  Rank,         \* Rank[f]: place of f in a BTreeMap of filing keys
  SymbolOf,     \* SymbolOf[f]: the issuer
  Doc,          \* documents (instance locators)
  Notice,       \* rows of the exchange's list: [filing, basis, at, doc]
  Key,          \* keys of parquet rows
  OwnerOf,      \* OwnerOf[k]: the symbol of a row
  KeyOf,        \* KeyOf[d]: the row a document is about
  Verdict,      \* Verdict[d]: what processing the bytes of d comes to
  Floors,       \* --backfill-from values in use
  Shards,       \* the shards of the universe
  Seeds,        \* where to start from: [old, rows, asset], old being notices
                \* whose documents are out
  NoDoc, NoState,
  MaxFaults     \* bound: failed calls and killed jobs in a behaviour

Basis == {"consolidated", "standalone", "other"}
\* Outcome, with the verdicts that follow from a document's own bytes first.
Verdicts == {"Published", "SkippedUnclassified", "IdentityMismatch", "ParseError", "GateBlocked"}
Outcome == Verdicts \cup {"InstanceUnavailable"}
HardFailure == {"IdentityMismatch", "ParseError"}

\* dedup_key: a revised document makes a new key, a new timestamp does not.
KeyOfNotice(n) == [filing |-> n.filing, basis |-> n.basis, doc |-> n.doc]
DedupKey == {KeyOfNotice(n) : n \in Notice}

\* BackfillMark.  `docs` and `filings` are not in the code: they record what
\* the scan behind the mark chose to process, and which filings it saw.
NoEra == -1
Mark == [from : Nat \cup {NoEra}, docs : SUBSET Doc, filings : SUBSET Filing]
NoMark == [from |-> NoEra, docs |-> {}, filings |-> {}]

\* ProducerState.  "No" is a key not processed; "Unknown" one of a version 1
\* file, which kept no outcomes.
State == [version : {1, 2},
          done    : [DedupKey -> Outcome \cup {"No", "Unknown"}],
          pending : SUBSET Filing,
          mark    : [Symbol -> Mark]]
NewState == [version |-> 2,
             done    |-> [k \in DedupKey |-> "No"],
             pending |-> {},
             mark    |-> [s \in Symbol |-> NoMark]]

Rows == [Key -> Doc \cup {NoDoc}]
NoRows == [k \in Key |-> NoDoc]

ASSUME Filings == /\ Rank \in [Filing -> Nat]
                  /\ SymbolOf \in [Filing -> Symbol]
                  /\ \A f, g \in Filing : Rank[f] = Rank[g] => f = g
ASSUME Documents == /\ NoDoc \notin Doc
                    /\ OwnerOf \in [Key -> Symbol]
                    /\ KeyOf \in [Doc -> Key]
                    /\ Verdict \in [Doc -> Verdicts]
ASSUME Notices ==
  /\ Notice \subseteq [filing : Filing, basis : Basis, at : Nat, doc : Doc]
  /\ \A n \in Notice : OwnerOf[KeyOf[n.doc]] = SymbolOf[n.filing]
ASSUME Backfills == Floors \subseteq Nat /\ Shards \subseteq SUBSET Symbol
ASSUME Starts ==
  /\ NoState \notin State
  /\ Seeds \subseteq [old : SUBSET Notice, rows : Rows, asset : State \cup {NoState}]
  /\ \A seed \in Seeds : seed.asset # NoState =>
       /\ seed.asset.mark = [s \in Symbol |-> NoMark]
       /\ \A k \in DedupKey :
            seed.asset.done[k] = "Published" => seed.rows[KeyOf[k.doc]] # NoDoc
ASSUME FaultBound == MaxFaults \in Nat

VARIABLES
  listed,       \* notices the exchange lists
  attached,     \* those whose document's name has appeared
  served,       \* documents the exchange serves
  horizon,      \* notices before it are out of the daily window
  rows,         \* fundamentals parquet of the live manifest
  asset,        \* fundamentals_state.json on the release, or NoState
  faults,
  pc,
  from,         \* era floor of a backfill, NoEra in a window run
  left,         \* symbols of the shard still to look at
  symbol,       \* {the symbol being scanned}
  seen,         \* what its scan chose and saw: [docs, filings]
  st,           \* the producer's state in memory, then on its disk
  base,         \* parquet rows the run started from
  found,        \* rows it produced; the last one for a key counts
  queue,        \* notices selected, still to fetch
  good,         \* some selected filing did not hard-fail
  bad,          \* symbols of those that did
  missed        \* a fetch failed since the symbol's scan

exchange == <<listed, attached, served, horizon>>
release  == <<rows, asset>>
shard    == <<from, left>>
scan     == <<symbol, seen, queue, missed>>
results  == <<found, good, bad>>
work     == <<shard, scan, results, st, base>>
vars     == <<exchange, release, faults, pc, work>>

NothingSeen == [docs |-> {}, filings |-> {}]

-----------------------------------------------------------------------------
\* select_documents

Newest(N) == {n \in N : \A m \in N : m.at <= n.at}

\* Every list of notices is finite.
ASSUME NewestExists == \A N \in SUBSET Notice : N # {} => Newest(N) # {}

OfBasis(N, b) == {n \in N : n.basis = b}

\* The document to fetch for a filing: consolidated, else standalone, newest.
Pick(N) ==
  LET choices == IF OfBasis(N, "consolidated") # {} THEN Newest(OfBasis(N, "consolidated"))
                 ELSE IF OfBasis(N, "standalone") # {} THEN Newest(OfBasis(N, "standalone"))
                 ELSE N
  IN CHOOSE n \in choices : TRUE

FilingsIn(N) == {n.filing : n \in N}
InFiling(N, f) == {n \in N : n.filing = f}

\* Mutant: a filing broadcast without a document is selected all the same.
ChosenUnattached(N) == {Pick(InFiling(N, f)) : f \in FilingsIn(N)}

\* Mutant: an older document of a filing is as good as the newest.
AnyChosen(N) ==
  {CHOOSE n \in InFiling(N \cap attached, f) :
     \A m \in InFiling(N \cap attached, f) : n.at <= m.at : f \in FilingsIn(N \cap attached)}

\* One notice per filing with a document; the rest of the filings wait.
Chosen(N) == {Pick(InFiling(N \cap attached, f)) : f \in FilingsIn(N \cap attached)}
Waiting(N) == FilingsIn(N) \ FilingsIn(N \cap attached)

\* A document two filings name is fetched for the first of them only.
Distinct(C) == {n \in C : \A m \in C : m.doc = n.doc => Rank[n.filing] <= Rank[m.filing]}

ToFetch(N, s) == {n \in Distinct(Chosen(N)) : s.done[KeyOfNotice(n)] = "No"}

\* pending_xml after the selection.
WithPending(N, s) ==
  [s EXCEPT !.pending = (@ \ FilingsIn(Chosen(N))) \cup Waiting(N)]

-----------------------------------------------------------------------------
Init ==
  /\ \E seed \in Seeds :
       /\ listed = seed.old /\ attached = seed.old
       /\ served = {n.doc : n \in seed.old}
       /\ rows = seed.rows /\ asset = seed.asset
  /\ horizon = 0
  /\ faults = 0
  /\ pc = "idle"
  /\ from = NoEra /\ left = {} /\ symbol = {} /\ seen = NothingSeen
  /\ st = NewState /\ base = NoRows /\ found = NoRows
  /\ queue = {} /\ good = FALSE /\ bad = {} /\ missed = FALSE

Goto(where) == pc' = where

Fault == faults < MaxFaults /\ faults' = faults + 1

\* A job ends and its disk with it.
Cleared ==
  /\ pc' = "idle"
  /\ from' = NoEra /\ left' = {} /\ symbol' = {} /\ seen' = NothingSeen
  /\ st' = NewState /\ base' = NoRows /\ found' = NoRows
  /\ queue' = {} /\ good' = FALSE /\ bad' = {} /\ missed' = FALSE

-----------------------------------------------------------------------------
\* The exchange.  Its list is in order of broadcast.

List ==
  /\ \E n \in Notice \ listed :
       /\ \A m \in Notice : m.at < n.at => m \in listed
       /\ listed' = listed \cup {n}
  /\ UNCHANGED <<attached, served, horizon, release, faults, pc, work>>

Attach ==
  /\ \E n \in listed \ attached : attached' = attached \cup {n}
  /\ UNCHANGED <<listed, served, horizon, release, faults, pc, work>>

Serve ==
  /\ \E n \in attached : n.doc \notin served /\ served' = served \cup {n.doc}
  /\ UNCHANGED <<listed, attached, horizon, release, faults, pc, work>>

\* Days pass, and the oldest notices drop out of the window.
Age ==
  /\ \E n \in listed : n.at >= horizon /\ horizon' = n.at + 1
  /\ UNCHANGED <<listed, attached, served, release, faults, pc, work>>

InWindow == {n \in listed : n.at >= horizon}

-----------------------------------------------------------------------------
\* The workflows: sync, then download the state, then run the producer.

BeginWindow ==
  /\ pc = "idle"
  /\ base' = rows
  /\ Goto("state")
  /\ UNCHANGED <<exchange, release, faults, shard, scan, results, st>>

BeginBackfill ==
  /\ pc = "idle"
  /\ \E f \in Floors, S \in Shards : from' = f /\ left' = S
  /\ base' = rows
  /\ Goto("state")
  /\ UNCHANGED <<exchange, release, faults, scan, results, st>>

\* migrate: a version 1 state forgets the symbols without published rows.
HasRows(s) == \E k \in Key : OwnerOf[k] = s /\ base[k] # NoDoc

Migrated(s) ==
  IF s.version = 2 THEN s
  ELSE [s EXCEPT
          !.version = 2,
          !.done = [k \in DedupKey |-> IF HasRows(SymbolOf[k.filing]) THEN @[k] ELSE "No"]]

\* A missing state file is a first run, and so is one that fails to download.
LoadState ==
  /\ pc = "state"
  /\ \/ asset = NoState /\ UNCHANGED <<st, faults>>
     \/ asset # NoState /\ st' = Migrated(asset) /\ UNCHANGED faults
     \/ asset # NoState /\ Fault /\ UNCHANGED st
  /\ Goto(IF from = NoEra THEN "discover" ELSE "symbols")
  /\ UNCHANGED <<exchange, release, shard, scan, results, base>>

\* A window run lists the whole market; nothing at all in season is an outage.
Discover ==
  /\ pc = "discover"
  /\ \/ /\ st' = WithPending(InWindow, st)
        /\ queue' = ToFetch(InWindow, st)
        /\ Goto("process")
        /\ UNCHANGED <<shard, symbol, seen, missed, results, base>>
     \/ /\ InWindow = {}
        /\ Cleared
  /\ UNCHANGED <<exchange, release, faults>>

\* Backfill, symbol by symbol, in any order.  A symbol marked at this floor or
\* an older one costs nothing.
Unfinished(s) == st.mark[s].from = NoEra \/ st.mark[s].from > from

SkipMarked ==
  /\ pc = "symbols"
  /\ \E s \in left :
       /\ ~Unfinished(s)
       /\ left' = left \ {s}
  /\ UNCHANGED <<exchange, release, faults, pc, from, scan, results, st, base>>

BudgetStop ==
  /\ pc = "symbols"
  /\ \E s \in left : Unfinished(s)
  /\ left' = {}
  /\ UNCHANGED <<exchange, release, faults, pc, from, scan, results, st, base>>

HistoryFails ==
  /\ pc = "symbols"
  /\ Fault
  /\ \E s \in left : Unfinished(s) /\ left' = left \ {s}
  /\ UNCHANGED <<exchange, release, pc, from, scan, results, st, base>>

Era(s) == {n \in listed : SymbolOf[n.filing] = s /\ n.at >= from}

ScanSymbol ==
  /\ pc = "symbols"
  /\ \E s \in left :
       /\ Unfinished(s)
       /\ left' = left \ {s}
       /\ symbol' = {s}
       /\ seen' = [docs    |-> {n.doc : n \in Distinct(Chosen(Era(s)))},
                   filings |-> FilingsIn(Era(s))]
       /\ st' = WithPending(Era(s), st)
       /\ queue' = ToFetch(Era(s), st)
  /\ missed' = FALSE
  /\ Goto("process")
  /\ UNCHANGED <<exchange, release, faults, from, results, base>>

-----------------------------------------------------------------------------
\* process_filing, in the order of the filing keys.

First(n) == n \in queue /\ \A m \in queue : Rank[n.filing] <= Rank[m.filing]

Recorded(n, outcome) == [st EXCEPT !.done[KeyOfNotice(n)] = outcome]

\* Bytes arrive: their verdict is recorded, a good one leaves its row.
Fetched(n) ==
  LET v == Verdict[n.doc]
      s == SymbolOf[n.filing]
  IN /\ n.doc \in served
     /\ st' = Recorded(n, v)
     /\ found' = IF v = "Published" THEN [found EXCEPT ![KeyOf[n.doc]] = n.doc] ELSE found
     /\ IF v \in HardFailure THEN bad' = bad \cup {s} /\ UNCHANGED good
                             ELSE good' = TRUE /\ UNCHANGED bad
     /\ UNCHANGED <<faults, missed>>

\* Mutant: a document that is not there (yet) counts as processed.
NotThereRecorded(n) ==
  /\ n.doc \notin served
  /\ st' = Recorded(n, "InstanceUnavailable")
  /\ good' = TRUE
  /\ UNCHANGED <<faults, found, bad, missed>>

\* HTTP 404: final for a backfill, a fetch error like any other for a window.
NotThere(n) ==
  /\ n.doc \notin served
  /\ IF from # NoEra
     THEN /\ st' = Recorded(n, "InstanceUnavailable")
          /\ good' = TRUE
          /\ UNCHANGED <<bad, missed>>
     ELSE /\ bad' = bad \cup {SymbolOf[n.filing]}
          /\ missed' = TRUE
          /\ UNCHANGED <<st, good>>
  /\ UNCHANGED <<faults, found>>

\* Mutant: a failed fetch does not keep a symbol from its mark.
FetchErrorForgotten(n) ==
  /\ Fault
  /\ bad' = bad \cup {SymbolOf[n.filing]}
  /\ UNCHANGED <<st, found, good, missed>>

\* A transient error: not recorded, so the next run tries again.
FetchError(n) ==
  /\ Fault
  /\ bad' = bad \cup {SymbolOf[n.filing]}
  /\ missed' = TRUE
  /\ UNCHANGED <<st, found, good>>

Process ==
  /\ pc = "process"
  /\ \E n \in queue :
       /\ First(n)
       /\ Fetched(n) \/ NotThere(n) \/ FetchError(n)
       /\ queue' = queue \ {n}
  /\ UNCHANGED <<exchange, release, pc, shard, symbol, seen, base>>

\* The symbol is done when nothing transient failed.
SymbolDone ==
  /\ pc = "process"
  /\ queue = {}
  /\ st' = IF missed THEN st
           ELSE [st EXCEPT !.mark = [s \in Symbol |->
                  IF s \in symbol
                  THEN [from |-> from, docs |-> seen.docs, filings |-> seen.filings]
                  ELSE @[s]]]
  /\ symbol' = {}
  /\ seen' = NothingSeen
  /\ Goto(IF from = NoEra THEN "finish" ELSE "symbols")
  /\ UNCHANGED <<exchange, release, faults, shard, queue, missed, results, base>>

ShardDone ==
  /\ pc = "symbols"
  /\ left = {}
  /\ Goto("finish")
  /\ UNCHANGED <<exchange, release, faults, work>>

-----------------------------------------------------------------------------
\* merge_rows: existing rows stay unless a row of the same key replaces them.
Merged == [k \in Key |-> IF found[k] # NoDoc THEN found[k] ELSE base[k]]

\* The tripwire: every selected filing hard-failed, nothing is saved.
Tripped == bad # {} /\ ~good

Trip ==
  /\ pc = "finish"
  /\ Tripped
  /\ Goto("red")
  /\ UNCHANGED <<exchange, release, faults, work>>

\* Mutant: the state goes out when the producer is done, before the publish.
StateFirst ==
  /\ pc = "finish"
  /\ ~Tripped
  /\ asset' = st
  /\ Goto(IF Merged # base THEN "publish" ELSE "upload")
  /\ UNCHANGED <<exchange, rows, faults, work>>

\* Otherwise the parquet is written if a row changed, and then the state.
Finish ==
  /\ pc = "finish"
  /\ ~Tripped
  /\ Goto(IF Merged # base THEN "publish" ELSE "upload")
  /\ UNCHANGED <<exchange, release, faults, work>>

Publish ==
  /\ pc = "publish"
  /\ rows' = Merged
  /\ Goto("upload")
  /\ UNCHANGED <<exchange, asset, faults, work>>

\* A publish that fails, before its flip or after it, ends the job.
PublishFails ==
  /\ pc = "publish"
  /\ Fault
  /\ rows' \in {rows, Merged}
  /\ Cleared
  /\ UNCHANGED <<exchange, asset>>

\* gh release upload --clobber deletes the old asset first.
DeleteState ==
  /\ pc = "upload"
  /\ asset' = NoState
  /\ Goto("reupload")
  /\ UNCHANGED <<exchange, rows, faults, work>>

UploadState ==
  /\ pc = "reupload"
  /\ asset' = st
  /\ Cleared
  /\ UNCHANGED <<exchange, rows, faults>>

EndRed ==
  /\ pc = "red"
  /\ Cleared
  /\ UNCHANGED <<exchange, release, faults>>

\* The job is killed or another of its calls fails.
Die ==
  /\ pc \notin {"idle", "red"}
  /\ Fault
  /\ Cleared
  /\ UNCHANGED <<exchange, release>>

-----------------------------------------------------------------------------
RunStep ==
  \/ LoadState \/ Discover
  \/ SkipMarked \/ BudgetStop \/ HistoryFails \/ ScanSymbol
  \/ Process \/ SymbolDone \/ ShardDone
  \/ Trip \/ Finish \/ Publish \/ PublishFails
  \/ DeleteState \/ UploadState \/ EndRed

Exchange == List \/ Attach \/ Serve \/ Age

Next == BeginWindow \/ BeginBackfill \/ RunStep \/ Die \/ Exchange

Spec == Init /\ [][Next]_vars

\* A started job goes on to its end, and the evening cron is served again and
\* again, whatever else the concurrency group admits in between.
FairSpec == Spec /\ WF_vars(RunStep) /\ SF_vars(BeginWindow)


-----------------------------------------------------------------------------
Steps == {"idle", "state", "discover", "symbols", "process", "finish", "red",
          "publish", "upload", "reupload"}

\* What is selected has a document: a filing known from its PDF alone is never
\* processed (the PENDING rule of select_documents).
TypeOK ==
  /\ listed \subseteq Notice /\ attached \subseteq listed
  /\ served \subseteq {n.doc : n \in attached}
  /\ horizon \in Nat
  /\ rows \in Rows /\ base \in Rows /\ found \in Rows
  /\ asset \in State \cup {NoState} /\ st \in State
  /\ faults \in 0..MaxFaults
  /\ pc \in Steps
  /\ from \in Nat \cup {NoEra}
  /\ left \subseteq Symbol /\ symbol \subseteq Symbol /\ bad \subseteq Symbol
  /\ seen \in [docs : SUBSET Doc, filings : SUBSET Filing]
  /\ queue \subseteq attached
  /\ good \in BOOLEAN /\ missed \in BOOLEAN

\* "State can never claim work the published parquet doesn't have"
\* (publish.py:53-55): a document the state on the release calls published has
\* a row in the published parquet, whatever was killed, lost or failed between
\* the two uploads.
Claims(s, r) ==
  \A k \in DedupKey : s.done[k] = "Published" => r[KeyOf[k.doc]] # NoDoc

StateClaimsOnlyPublishedRows == asset # NoState => Claims(asset, rows)

\* A mark lets later backfills skip its symbol, so each document its scan chose
\* has an outcome on record beside it (the fetch_errors_before comparison).
HasOutcome(s, i, d) ==
  \E k \in DedupKey : k.doc = d /\ SymbolOf[k.filing] = i /\ s.done[k] # "No"
Covered(s) == \A i \in Symbol : \A d \in s.mark[i].docs : HasOutcome(s, i, d)

MarkCoversDocuments == asset # NoState => Covered(asset)

\* The inductive invariant behind the two: what a run has in memory is true of
\* the rows it is about to publish, then of the rows that are published, and a
\* document of the symbol being scanned is on record, queued, or missed.
RunInvariant ==
  /\ pc \in {"idle", "state"} => st = NewState /\ found = NoRows
  /\ pc \in {"state", "discover", "symbols", "process", "finish", "publish"} => base = rows
  /\ pc \in {"state", "discover", "symbols", "process", "finish", "publish"} => Claims(st, Merged)
  /\ pc \in {"upload", "reupload"} => Claims(st, rows)
  /\ StateClaimsOnlyPublishedRows
  /\ Covered(st) /\ st.version = 2
  /\ MarkCoversDocuments
  /\ pc # "process" => symbol = {}
  /\ pc = "process" =>
       \A i \in symbol : \A d \in seen.docs :
         \/ missed
         \/ HasOutcome(st, i, d)
         \/ \E n \in queue : n.doc = d /\ SymbolOf[n.filing] = i
  /\ asset # NoState /\ asset.version = 1 => \A i \in Symbol : asset.mark[i].docs = {}

\* Document d was issued to replace e.
Revises(d, e) ==
  \E n, m \in Notice : /\ n.doc = d /\ m.doc = e
                       /\ n.filing = m.filing /\ n.basis = m.basis /\ n.at > m.at

\* A published row is never dropped and never goes back to a document that was
\* revised, however often the state is lost and filings are fetched again:
\* "safe to delete: a stateless run ... changes nothing" (RUNBOOK.md:1201-1203).
RowsOnlyAdvance ==
  [][\A k \in Key : rows[k] # NoDoc => rows'[k] # NoDoc /\ ~Revises(rows[k], rows'[k])]_vars

\* It holds where a document is listed once, under a basis; the run
\* fundamentals_shared_document has one that is listed twice.
ListedOnce ==
  /\ \A n, m \in Notice : n.doc = m.doc => n = m
  /\ \A n \in Notice : n.basis # "other"
  /\ \A seed \in Seeds, k \in Key :
       seed.rows[k] # NoDoc => \E n \in seed.old : n.doc = seed.rows[k]

\* The inductive invariant behind it: rows are of documents whose names were out,
\* and what a run has found, or is to fetch, is revised by no row it started from.
OutWith(r) == \A k \in Key : r[k] # NoDoc => \E n \in attached : n.doc = r[k]
AdvanceInvariant ==
  /\ OutWith(rows) /\ OutWith(found)
  /\ pc \in {"state", "discover", "symbols", "process", "finish", "publish"} =>
       \A k \in Key : base[k] # NoDoc /\ found[k] # NoDoc => ~Revises(base[k], found[k])
  /\ pc = "process" =>
       \A n \in queue, k \in Key : base[k] # NoDoc => ~Revises(base[k], n.doc)

\* The document of n is what the daily window should yield for its filing.
Due(n) == /\ n \in Distinct(Chosen(InWindow))
          /\ n.doc \in served
          /\ Verdict[n.doc] = "Published"

\* A filing whose document is out and parses is published sooner or later, if
\* it stays in the daily window: failures on the way are retried, never taken
\* for an answer.
DueFilingLands ==
  \A n \in Notice :
    []<>(Due(n) => rows[KeyOf[n.doc]] # NoDoc /\ ~Revises(n.doc, rows[KeyOf[n.doc]]))

-----------------------------------------------------------------------------
(* What the documents of the repository say and the code does not do.       *)

\* "existing rows never dropped; restatements replace in place" (RUNBOOK.md:
\* 1241-1242): once a document is on record as published, the row is not that
\* of a document it revises.
RestatementsReplace ==
  asset # NoState =>
    \A k \in DedupKey : asset.done[k] = "Published" => ~Revises(k.doc, rows[KeyOf[k.doc]])
=============================================================================
