----------------------- MODULE ClassificationRegistry -----------------------
(***************************************************************************)
(* The sector classification of the active NSE listings: the registry that *)
(* the collector advances a few Screener pages at a time, and the sector   *)
(* artifact that is built from it behind the publication guards.           *)
(*                                                                         *)
(* A collection runs in the publish lock and publishes as its last step:   *)
(* nothing else happens while a campaign of batches runs, and one that     *)
(* dies leaves the release as it was.  Dates are kept relative to today:   *)
(* the days until a retry, and whether an audit was tried this quarter.  A *)
(* classification stands for its four tiers.                               *)
(***************************************************************************)
EXTENDS Integers, Sequences, FiniteSets

CONSTANTS
  Listing, Rank,  \* the listings, and the place of each in NSE's list
  Class, None,    \* classifications
  Sector,         \* [Class -> sector]
  Seed,           \* [listing -> its classification in the committed seed, or None]
  Page,           \* [listing -> what its Screener page says]
  Late, Leaves, Renames,  \* the listings that come later, may leave, may change symbol
  Unreadable,     \* the pages that may fail or be blocked
  RetryDelays,    \* _RETRY_DELAYS, in days
  BatchSize, MaxBatches,                \* per request and per quarterly campaign
  BootstrapSize, MinOverlap,            \* _valid_snapshot, percent
  MinCoverage, MaxChanged, MinDiversity,  \* decide_publication, percent
  MaxFaults

VARIABLES
  listed,     \* [listing -> times renamed, or Gone]: the exchange
  registry,   \* classification_registry_all.parquet
  artifact,   \* sector_industry_all.parquet: [listing -> <<class, symbol>> or None]
  campaign,   \* the collection that runs, or Idle
  built,      \* the status of the last build
  faults

vars == <<listed, registry, artifact, campaign, built, faults>>

Gone == -1
Symbol == 0..1
Budget == Len(RetryDelays)
Modes == {"daily", "baseline", "quarterly"}
Idle == [mode |-> "idle"]
Campaigns == [mode: Modes, snapshot: SUBSET Listing, asked: SUBSET Listing,
              again: SUBSET Listing, left: 0..MaxBatches]
NoEntry == [status |-> "none"]
Entries == [status: {"classified", "pending", "inactive"}, symbol: Symbol,
            class: Class \cup {None}, backlog: BOOLEAN, absent: 0..2,
            retry: Nat, attempts: 0..(Budget + 1), deferred: BOOLEAN, audited: BOOLEAN]
Entry(status, symbol, class, backlog) ==
  [status |-> status, symbol |-> symbol, class |-> class, backlog |-> backlog, absent |-> 0,
   retry |-> 0, attempts |-> 0, deferred |-> FALSE, audited |-> FALSE]

\* Every delay is of a day at least; each quarterly campaign asks for something.
ClassificationAssumptions ==
  /\ IsFiniteSet(Listing) /\ Rank \in [Listing -> Nat]
  /\ \A i, j \in Listing : Rank[i] = Rank[j] => i = j
  /\ None \notin Class \cup (Class \X Symbol) /\ Page \in [Listing -> Class]
  /\ Seed \in [Listing -> Class \cup {None}] /\ Unreadable \subseteq Listing
  /\ RetryDelays \in Seq(Nat \ {0}) /\ MaxBatches \in Nat \ {0} /\ MaxFaults \in Nat
ASSUME ConstantsAreRight == ClassificationAssumptions

TypeOK ==
  /\ listed \in [Listing -> Symbol \cup {Gone}]
  /\ registry \in [Listing -> Entries \cup {NoEntry}]
  /\ artifact \in [Listing -> (Class \X Symbol) \cup {None}]
  /\ campaign \in Campaigns \cup {Idle}
  /\ faults \in 0..MaxFaults
  /\ built \in {"none", "success", "skipped_idempotent", "failed"}

Known(r) == {i \in Listing : r[i] # NoEntry}
Active(r) == {i \in Known(r) : r[i].status # "inactive"}
Classified(r) == {i \in Active(r) : r[i].class # None}
Published(a) == {i \in Listing : a[i] # None}

Init ==
  /\ listed = [i \in Listing |-> IF i \in Late THEN Gone ELSE 0]
  /\ registry = [i \in Listing |-> NoEntry] /\ artifact = [i \in Listing |-> None]
  /\ campaign = Idle /\ built = "none" /\ faults = 0

-----------------------------------------------------------------------------
(* run_incremental_collection.                                             *)

\* A snapshot is the listings it has, with the symbols of the day.
ValidSnapshot(snapshot, r) ==
  LET overlap == Cardinality(snapshot \cap Active(r)) IN
  /\ snapshot # {}
  /\ \/ Active(r) = {}
     \/ Cardinality(Active(r)) < BootstrapSize /\ overlap > 0
     \/ /\ Cardinality(Active(r)) >= BootstrapSize
        /\ 100 * overlap >= MinOverlap * Cardinality(Active(r))

DueRetry(e, mode) ==
  e.status = "pending" /\ (mode = "baseline" \/ (~e.backlog /\ ~e.deferred /\ e.retry = 0))

\* Mutant: the quarterly audit asks for new and due listings only.
DueUnaudited(i, r, mode) ==
  LET e == r[i] IN
  e = NoEntry \/ e.status = "inactive" \/ e.symbol # listed[i] \/ DueRetry(e, mode)

Due(i, r, mode) ==
  LET e == r[i] IN
  \/ e = NoEntry \/ e.status = "inactive" \/ e.symbol # listed[i]
  \/ DueRetry(e, mode) \/ (mode = "quarterly" /\ ~e.audited)

\* Mutant: an absent listing loses its symbol.
ReconciledAll(i, snapshot, r, backlog) ==
  LET e == r[i] IN
  IF i \in snapshot /\ e = NoEntry THEN Entry("pending", listed[i], None, backlog)
  ELSE IF e = NoEntry THEN NoEntry
  ELSE IF i \in snapshot
       THEN [e EXCEPT !.symbol = listed[i], !.absent = 0,
                      !.status = IF e.class # None THEN "classified" ELSE "pending"]
       ELSE [e EXCEPT !.symbol = listed[i], !.absent = IF @ = 2 THEN 2 ELSE @ + 1,
                      !.status = IF e.absent >= 1 THEN "inactive" ELSE @]

\* Every entry after the snapshot: one on it is active again, one that is not
\* becomes inactive on its second absence.
Reconciled(i, snapshot, r, backlog) ==
  LET e == r[i] IN
  IF i \in snapshot
  THEN IF e = NoEntry THEN Entry("pending", listed[i], None, backlog)
       ELSE [e EXCEPT !.symbol = listed[i], !.absent = 0,
                      !.status = IF e.class # None THEN "classified" ELSE "pending"]
  ELSE IF e = NoEntry THEN NoEntry
       ELSE [e EXCEPT !.absent = IF @ = 2 THEN 2 ELSE @ + 1,
                      !.status = IF e.absent >= 1 THEN "inactive" ELSE @]

\* The first of those due, in NSE's order.
Candidates(snapshot, r, mode) ==
  LET due == {i \in snapshot : Due(i, r, mode)}
  IN  {i \in due : Cardinality({j \in due : Rank[j] < Rank[i]}) < BatchSize}

Observed(e, class, mode) ==
  [e EXCEPT !.status = "classified", !.class = class, !.backlog = FALSE, !.retry = 0,
            !.attempts = 0, !.audited = @ \/ mode = "quarterly"]

\* Mutant: a failed audit leaves the entry to the next batch.
UnreadAgain(e, mode) == [e EXCEPT !.status = "pending", !.backlog = FALSE, !.retry = 1]

\* An unreadable page keeps the last known good, and is tried again after each
\* of the delays; then it waits for an audit.
Unread(e, mode) ==
  LET attempts == IF e.attempts > Budget THEN e.attempts ELSE e.attempts + 1 IN
  [e EXCEPT !.status = "pending", !.backlog = FALSE, !.audited = @ \/ mode = "quarterly",
            !.attempts = attempts, !.deferred = attempts > Budget,
            !.retry = IF attempts > Budget THEN 0 ELSE RetryDelays[attempts]]

\* Every page of a batch is read but `page`, which cannot be read, or is refused:
\* then the batch stops there.
AllRead == [page |-> None, answer |-> "read"]
Asked(batch, reply) ==
  {i \in batch : reply.answer = "blocked" => Rank[i] <= Rank[reply.page]}

Collected(batch, r, reply, mode) ==
  [i \in Listing |->
     IF i \notin Asked(batch, reply) \/ (i = reply.page /\ reply.answer = "blocked") THEN r[i]
     ELSE IF i = reply.page THEN Unread(r[i], mode) ELSE Observed(r[i], Page[i], mode)]

\* A manual batch first marks what was never tried as backlog.
Marked(r, mode) ==
  [i \in Listing |->
     IF /\ mode = "baseline" /\ r[i] # NoEntry /\ r[i].status = "pending"
        /\ r[i].class = None /\ r[i].attempts = 0 /\ r[i].retry = 0
     THEN [r[i] EXCEPT !.backlog = TRUE] ELSE r[i]]

-----------------------------------------------------------------------------
(* build_sector_industry, from the registry a run leaves.                  *)

\* Mutant: a renamed listing keeps its row.
RecordsByClass(r) ==
  [i \in Classified(r) |->
     IF artifact[i] # None /\ artifact[i][1] = r[i].class THEN artifact[i]
     ELSE <<r[i].class, r[i].symbol>>]

Records(r) == [i \in Classified(r) |-> <<r[i].class, r[i].symbol>>]

\* Mutant: a row without an active listing goes.
OverlaidActive(records) ==
  [i \in Listing |-> IF i \in DOMAIN records THEN records[i] ELSE None]

\* What would be published: the registry's rows over those the artifact has.
Overlaid(records) ==
  [i \in Listing |-> IF i \in DOMAIN records THEN records[i] ELSE artifact[i]]

SectorsOf(a) == {Sector[a[i][1]] : i \in Published(a)}
Reclassified(out) ==
  {i \in Published(artifact) \cap Published(out) : out[i][1] # artifact[i][1]}

\* decide_publication
Approved(r, out) ==
  /\ 100 * Cardinality(Classified(r)) >= MinCoverage * Cardinality(Active(r))
  /\ Published(artifact) # {} =>
       /\ 100 * Cardinality(Published(out)) >= MinCoverage * Cardinality(Published(artifact))
       /\ 100 * Cardinality(SectorsOf(out)) >= MinDiversity * Cardinality(SectorsOf(artifact))
       /\ 100 * Cardinality(Reclassified(out)) <= MaxChanged * Cardinality(Published(artifact))

\* An artifact that would have fewer rows is not even considered.
Build(r) ==
  LET out == Overlaid(Records(r)) IN
  /\ built' = IF Classified(r) = {}
              THEN IF Published(artifact) = {} THEN "failed" ELSE "skipped_idempotent"
              ELSE IF \/ Cardinality(Published(out)) < Cardinality(Published(artifact))
                      \/ out = artifact
                   THEN "skipped_idempotent"
              ELSE IF Approved(r, out) THEN "success" ELSE "failed"
  /\ artifact' = IF built' = "success" THEN out ELSE artifact

-----------------------------------------------------------------------------
(* The runs.                                                               *)

Trading == {i \in Listing : listed[i] # Gone}
\* What NSE's list has of them: all, or, one fault, less.
Snapshots == IF faults < MaxFaults THEN SUBSET Trading ELSE {Trading}
Replies ==
  {AllRead} \cup (IF faults < MaxFaults
                  THEN [page: Unreadable, answer: {"unread", "blocked"}] ELSE {})

\* One NSE list for all the batches of a campaign; daily mode needs a baseline.
StartCollection(mode) ==
  /\ campaign = Idle
  /\ mode = "daily" => Known(registry) # {}
  /\ \E snapshot \in Snapshots :
       /\ faults' = faults + IF snapshot = Trading THEN 0 ELSE 1
       /\ campaign' = [mode |-> mode, snapshot |-> snapshot, asked |-> {}, again |-> {},
                       left |-> IF mode = "quarterly" THEN MaxBatches ELSE 1]
  /\ UNCHANGED <<listed, registry, artifact, built>>

\* A snapshot that is not plausible beside the registry ends the collection.
RefuseSnapshot ==
  /\ campaign # Idle /\ campaign.left > 0
  /\ ~ValidSnapshot(campaign.snapshot, registry)
  /\ campaign' = Idle /\ built' = "failed"
  /\ UNCHANGED <<listed, registry, artifact, faults>>

\* run_approved_baseline: the registry against the snapshot, then the pages due.
CollectBatch(mode) ==
  LET before  == Marked(registry, mode)
      backlog == mode = "baseline" \/ Known(registry) = {}
      merged  == [i \in Listing |-> Reconciled(i, campaign.snapshot, before, backlog)]
      batch   == Candidates(campaign.snapshot, before, mode)
  IN  /\ campaign.mode = mode /\ campaign.left > 0
      /\ ValidSnapshot(campaign.snapshot, registry)
      /\ \E reply \in Replies :
           /\ reply = AllRead \/ reply.page \in batch
           /\ faults' = faults + IF reply = AllRead THEN 0 ELSE 1
           /\ registry' = Collected(batch, merged, reply, mode)
           /\ campaign' = [campaign EXCEPT
                !.asked = @ \cup Asked(batch, reply),
                !.again = @ \cup (campaign.asked \cap Asked(batch, reply)),
                !.left = IF batch = {} \/ reply.answer = "blocked" THEN 0 ELSE @ - 1]
      /\ UNCHANGED <<listed, artifact, built>>

FinishCollection ==
  /\ campaign # Idle /\ campaign.left = 0
  /\ campaign' = Idle
  /\ Build(registry)
  /\ UNCHANGED <<listed, registry, faults>>

\* data-daily builds the artifact too; the first build takes the seed for the
\* registry.
DailyBuild ==
  LET r == IF Known(registry) # {} THEN registry
           ELSE [i \in Listing |-> IF Seed[i] = None THEN NoEntry
                                   ELSE Entry("classified", 0, Seed[i], FALSE)]
  IN  /\ campaign = Idle
      /\ registry' = r /\ Build(r)
      /\ UNCHANGED <<listed, campaign, faults>>

NextDay ==
  /\ campaign = Idle
  /\ registry' = [i \in Listing |->
       IF registry[i] = NoEntry \/ registry[i].retry = 0 THEN registry[i]
       ELSE [registry[i] EXCEPT !.retry = @ - 1]]
  /\ UNCHANGED <<listed, artifact, campaign, built, faults>>

NextQuarter ==
  /\ campaign = Idle
  /\ registry' = [i \in Listing |->
       IF registry[i] = NoEntry THEN NoEntry ELSE [registry[i] EXCEPT !.audited = FALSE]]
  /\ UNCHANGED <<listed, artifact, campaign, built, faults>>

\* The exchange: a listing comes, leaves for good, or changes its symbol.
List(i) == listed[i] = Gone /\ registry[i] = NoEntry /\ listed' = [listed EXCEPT ![i] = 0]
Delist(i) == listed[i] # Gone /\ i \in Leaves /\ listed' = [listed EXCEPT ![i] = Gone]
Rename(i) == listed[i] = 0 /\ i \in Renames /\ listed' = [listed EXCEPT ![i] = 1]
Exchange ==
  /\ campaign = Idle
  /\ \E i \in Listing : List(i) \/ Delist(i) \/ Rename(i)
  /\ UNCHANGED <<registry, artifact, campaign, built, faults>>

Next ==
  \/ \E mode \in Modes : StartCollection(mode) \/ CollectBatch(mode)
  \/ RefuseSnapshot \/ FinishCollection \/ DailyBuild \/ NextDay \/ NextQuarter \/ Exchange

Spec == Init /\ [][Next]_vars
\* The two crons, data-daily and the calendar go on.
FairSpec ==
  /\ Spec /\ SF_vars(StartCollection("daily")) /\ SF_vars(StartCollection("quarterly"))
  /\ WF_vars(\E mode \in Modes : CollectBatch(mode)) /\ WF_vars(FinishCollection)
  /\ WF_vars(RefuseSnapshot)
  /\ SF_vars(DailyBuild) /\ SF_vars(NextDay) /\ SF_vars(NextQuarter)

-----------------------------------------------------------------------------
\* After a build that did not fail, the artifact has every active listing the
\* registry knows, as it knows it and under its symbol of the day.
\* (The content guard and the overlay of build_sector_industry.)
ArtifactFollowsRegistry ==
  campaign = Idle /\ built \in {"success", "skipped_idempotent"} =>
    \A i \in Classified(registry) : artifact[i] = <<registry[i].class, registry[i].symbol>>

\* A campaign of many batches asks for no page twice, whatever its pages
\* answer, so it ends.  (cmd_classification_collect's loop.)
AskedOnce == campaign # Idle => campaign.again = {}

\* A day that NSE's list leaves listings out of, which a campaign of many batches
\* counts as many absences, costs them their place among the active listings and
\* nothing else: no class that the registry knows and no row of the artifact goes,
\* in this step or any other.  (apply_observation and append_observations.)
HasClass(r, i) == r[i] # NoEntry /\ r[i].class # None
ClassesStay == \A i \in Listing : HasClass(registry, i) => HasClass(registry', i)
RowsStay == \A i \in Listing : artifact[i] # None => artifact'[i] # None
NothingIsForgotten == [][ClassesStay /\ RowsStay]_vars

\* Every listing that stays is in the artifact in the end, past failed and
\* blocked pages, the retry budget and the baseline backlog, unless NSE's whole
\* list is refused for good.
EveryListingIsPublished ==
  \A i \in Listing :
    <>[](listed[i] # Gone) /\ []<>ValidSnapshot(Trading, registry) => <>(artifact[i] # None)
=============================================================================
