# A verified model of the data pipeline

The repository builds the reference datasets of a market scanner and publishes
them into one rolling GitHub release, `data-latest`. Python (`pipeline/`) and
Rust (`fundamentals/`) producers run as GitHub Actions workflows, or on an
operator's machine; desktop clients poll the release. These modules model the
parts of it whose correctness depends on order, failure and concurrency, check
them with TLC and prove the central results with TLAPS.

## The system

| Component | State it keeps | Operations | What is hard about it | What makes it correct |
|---|---|---|---|---|
| publish protocol (`publish.py`, `manifest.py`) | release assets, `manifest.json`, `synced_manifest.json` | build manifest, guard (CAS, no-shrink), carry forward, upload, flip, verify, collect garbage | several producers, a crash between any two calls, stale reads | the readable manifest is always complete; a publish touches only its own datasets and loses nothing |
| sync (`sync.py`) | local store, synced state | download and verify all, then materialize all | crash in the second phase | a store is never published as something it is not |
| release access (`release.py`) | none | the `gh` calls | every call can fail; `--clobber` is delete, then upload | an absent release is never confused with an outage |
| concurrency group (the four publishing workflows) | who runs | enter, leave | operators and sibling repositories are outside it | runs do not interleave |
| fundamentals producer (`fundamentals-producer/`) | `fundamentals_state.json`, parquet | discover filings, fetch, parse, gate, merge, save | state and rows are published in two calls; budget stops; pending filings; permanent and transient errors | state never claims rows the release does not have; no filing is lost |
| snapshots, restore (`snapshot.py`, `restore.py`) | monthly releases | create, prune, restore | takes no lock; partial snapshots | a kept snapshot is complete; pruning keeps the newest |
| daily run (`cli.py`, `daily_update.py`, `backfill.py`, `bootstrap.py`) | store, status files | fetch a catch-up window, then derived builders; backfill; rebuild a day | idempotence, partial window failures, publish gate | a healthy target day is published, a hole is alerted |
| store (`store.py`) | year files, delta files | append day, write delta, cached reads | crash between files; stale cache | what was appended is read back; one row per key |
| reference builders (`builders.py`, `corporate_actions_history.py`) | accumulating lists | merge today's file into the synced list; decide index membership from lists and announcements; fold corporate actions of two sources | wrong or partial upstream files, sources that disagree, a source that lags | history is never rewritten by one bad day; what is stale is loud |
| exchange sources (`sources/`, `fetch.py`) | none | fetch and parse files, press releases, API answers | wrong day, part of a file, 404 against outage | what is taken for an answer is one |
| classification registry (`sources/classification_*.py`, `screener_collector.py`) | registry, observations | reconcile, pick a batch, collect, publish | retries, deferral, limits across runs | every symbol is eventually classified |
| calendar, freshness (`calendar.py`, `freshness.py`) | holidays | trading-day arithmetic | weekends, special sessions | equals its definition by days |

Interactions: workflows call `sync`, a builder, then `publish` in sequence on a
fresh runner; all producers share the release and nothing else; the
fundamentals workflows keep one more mutable asset, the producer's state, next
to the manifest. Parsers of exchange files and XBRL are conversions without
state and are outside the scope of a state model.

## Modules

| Module | Models | Code |
|---|---|---|
| `ReleaseCatalog` | the promise to clients: a catalog that changes one publish at a time, in its producer's lane, losing no data | - |
| `SharedRelease` | the protocol: runs of several producers, call by call, on one release | `publish.py`, `sync.py`, `manifest.py`, `release.py`, workflows |
| `FundamentalsRun` | the fundamentals producer: both kinds of run, its state file, the two uploads | `pipeline.rs`, `state.rs`, `source.rs`, workflows |
| `InstrumentList` | operators: a list of listing versions, its merge, sessions of a calendar | `builders.py`, `calendar.py` |
| `DailyRun` | one `daily` run after another: the window, the gates, the two instrument lists, the alerts | `cli.py`, `daily_update.py`, `store.py`, `validate.py`, `fetch.py`, `builders.py`, `data-daily.yml` |
| `NsePressRelease` | operators: what is read in an index press release, which releases are read | `sources/nse_index_announcements.py` |
| `IndexAnnouncements` | operators: what a build may read of NSE's announcements, with a human's overrides | `builders.py` |
| `IndexLedger` | who is in an index: NSE's lists, corrected by NSE's announcements | `builders.py`, `sources/nse_constituents.py` |
| `ClassificationRegistry` | the sector registry, its collector and the artifact built from it | `sources/nse_universe.py`, `sources/classification_*.py`, `screener_collector.py`, `builders.py` |
| `CorporateActions` | the history of corporate actions from two sources | `corporate_actions_history.py`, `sources/nse_ca_history.py` |
| `Snapshots` | monthly snapshots, pruning, restore, next to publishes | `snapshot.py`, `restore.py`, `cli.py`, `data-snapshot.yml` |
| `SharedReleaseProofs`, `SharedReleaseRaceProofs`, `FundamentalsRunProofs`, `DailyRunProofs`, `IndexLedgerProofs`, `ClassificationProofs`, `CorporateActionsProofs`, `SnapshotsProofs` | theorems about the module they are named for | |
| `MC*` | values of the constants for TLC; `MCLedgerAndSnapshots` and `MCSchedules` put two and three machines side by side | |

How they compose: `SharedRelease` implements `ReleaseCatalog` (refinement,
proved). `DailyRun` is built on `InstrumentList`, `IndexLedger` on
`IndexAnnouncements` and that on `NsePressRelease`. In `FundamentalsRun`, `DailyRun`, `ClassificationRegistry`
and `IndexLedger` a publish is one step, which is what `SharedRelease` shows of
a publish inside the concurrency group. `Snapshots` has the publishes it
competes with as two steps, the flip and the collection, since it takes no lock.

### SharedRelease

State of the release: `exists`, `assets`, `old` (assets past `GC_GRACE`), `live`
(`manifest.json`). State of a run `r`: `pc`, `synced` (`synced_manifest.json`),
`store` (what its local files would put in a manifest), `seen`, `listed`
(`existing`), `new` (the manifest being published), `todo` (the rest of the
loop it is in). `lock` is the concurrency group. `Locked` is the set of
producers inside the group: the four workflows; an operator's machine is in
`Persistent`, keeps `store` and `synced` between runs, may skip the sync, and is
in reality not in `Locked`.

| Action | Code |
|---|---|
| `Start`, `End` | workflow start and end; a hosted runner's disk disappears with it |
| `SyncNothing`, `SyncManifest`, `SyncNoManifest`, `SyncFile`, `SyncDone`, `SyncTorn` | `sync_store`: no release, phase 1, fail-closed exit, phase 2, phase 2 interrupted |
| `SkipSync` | an operator publishes without a new sync |
| `Produce`, `Quiet` | the job's own work; `publish_dataset` up to `build_manifest`, or a run with nothing to publish |
| `OpenRelease`, `ListAssets`, `Admit`, `Refuse` | create, list, read the live manifest, guards, carries |
| `Upload`, `Flip`, `Verify` | the upload loop, the replacement of `manifest.json`, `_verify` |
| `GcList`, `GcStep`, `Finish` | `_gc` one deletion at a time, and the new synced baseline |
| `Fail`, `GraceElapses` | a failed call or a killed job; an asset outliving the grace period |

What is abstracted: a dataset's year files are one baseline file. A content
stands for a file's bytes, with a row count and a newest date (`RowsOf`,
`DateOf`), which is all the guards look at, and a content-addressed name is the
pair of dataset and content. Each `gh` call is one step. `Produce` leaves any
content at all in the datasets the job builds, a missing file included, so the
no-shrink guard has something to catch. Delta files appear in a store only for
producers in `DeltaWriter`; no dataset the repository publishes today writes
deltas, but the carry-forward code handles them and so does the model.

Properties:

- `ManifestComplete`: the docstring of `publish.py` and the tests'
  `assert_release_consistent`, at every moment rather than after a run.
- `UploadsNeverClash`: leftovers of a crashed run do not wedge the next one.
- `RefusedOnlyForItsData`: inside the group the CAS never fires.
- `ReplacesOnlyWhatItSynced`: the compare-and-swap is atomic.
- `OnlyOwnDeadAssetsCollected`: garbage collection deletes nothing named and
  nothing foreign.
- `BuildsOnWhatItRead`: even outside the group and after a sync torn by a
  crash, what an admitted run did not build is what it read.
- `ImplementsCatalog`: refinement of `ReleaseCatalog`.
- `AdmittedRunCompletes`: a run past the guards publishes, when nothing fails
  any more, past leftovers and failed deletions.
- `PublishInvariant`, `HostedRunInvariant`, `LaneInvariant`: the inductive
  invariants of the proofs; they are in no run, because they are proved.

### FundamentalsRun

One run at a time (the concurrency group is the matter of `SharedRelease`, and
so is what happens inside a publish, which is one step here), on a fresh disk,
while the exchange moves on: notices are listed, documents attached to them and
later served, and the daily window leaves old notices behind.

On the release: `rows` (the parquet of the live manifest) and `asset`
(`fundamentals_state.json`). Of the run: `st` (`ProducerState`), `base`
(`existing`), `found` (`new_rows`), `queue` (`to_fetch`), `good` and `bad` (the
counts behind the tripwire), `missed` (`fetch_errors` against
`fetch_errors_before`), `from` and `left` of a backfill.

| Action | Code |
|---|---|
| `BeginWindow`, `BeginBackfill`, `LoadState` | the two workflows up to the producer; `load` and `migrate`; a failed download of the state counts as a first run |
| `Discover` | a window run: discovery, `select_documents` |
| `SkipMarked`, `BudgetStop`, `HistoryFails`, `ScanSymbol`, `SymbolDone`, `ShardDone` | a backfill, symbol by symbol |
| `Process` with `Fetched`, `NotThere`, `FetchError` | `process_filing` on one document |
| `Trip`, `Finish`, `Publish`, `PublishFails` | the all-failed tripwire, `merge_rows` and save, the publish step |
| `DeleteState`, `UploadState` | `gh release upload --clobber` of the state |
| `Die`, `EndRed` | a killed job or a failed step; a red one |
| `List`, `Attach`, `Serve`, `Age` | the exchange |

Abstracted: what the parser, the identity check and the gates make of a
document is a constant of the document (`Verdict`), and a document is about one
row (a fourth-quarter document makes an annual row as well). Every symbol is in
the covered universe. Era floors and broadcast times are the same numbers. A
backfill takes its symbols in any order. Two fields of a mark (`docs`,
`filings`) are not in the code; they record what its scan saw, for
`MarkCoversDocuments`.

- `StateClaimsOnlyPublishedRows`: what `publish.py` and both workflows give as
  the reason for the order of the two uploads.
- `MarkCoversDocuments`: no later backfill skips a document on a mark that was
  set in spite of a failed fetch.
- `RowsOnlyAdvance`: losing the state costs fetches, never a row or a revision,
  where a document is listed once and under a basis (`ListedOnce`).
- `DueFilingLands`: a filing that parses and stays in the window is published.
- `RunInvariant`, `AdvanceInvariant`: the inductive invariants of the first three;
  they are in no run, because they are proved.

### InstrumentList and DailyRun

State: the calendar (`today`, `posted`: which venue has posted which session),
the published lists (`live`), the run with its window (`run`), its copy of the
lists (`local`), its price store (`store`, and `disk`, the operator's store
between runs), the `ReadCache` by year (`cache`), and whom the last run named
(`reported`). A published list carries the sightings that went into it, which
only the properties read.

| Action | Code |
|---|---|
| `StartDaily`, `StartBackfill`, `StartRebuild`, `BootstrapAndStart` | `daily` with its window; `backfill`; `rebuild-day`; the one-off bootstrap from price files |
| `SkipHoliday`, `SkipStored`, `FetchAbsent`, `FetchFails` | `run_daily` up to the fetch, the completeness test of a stored day included |
| `Ingest`, `IngestWithoutDelta` | the wrong-date guard, the row counts per series, the quarantine, `append_day` through the cache; a write that fails after it |
| `FetchedAll` | exit 1, or phase 2 |
| `BuildReference`, `BuildBse`, `BackfillBse` | the NSE and the BSE list; BSE's reads day after day from its newest session up to the first it cannot have |
| `Decide`, `Surface`, `Die` | the workflow's decision, the content guards of publish, the alert steps, a killed job |
| `Post`, `NextDay` | the exchanges and the clock |

- `ListsAreRebuilds`: however the windows of the runs overlapped, the lists are
  what a rebuild from every session merged would give. Of NSE's list this is
  said of the sightings alone: a run for an earlier date puts that session's
  token and ISIN back (`FreshAsOf`).
- `SightingsAreReal`: a file of another day never reaches a session.
- `CacheIsCurrent`: a read through the cache is what the disk holds.
- `GuardsNeverRefuse`: merged lists only grow, so publish's content guards
  never stop this pipeline once there is a list.
- `BseNeverSkipsASession`: the BSE list never advances over a session it has
  not merged.
- `WindowIsAccountedFor`: after a run whose target landed, every session of its
  window is in the list or was named in an alert.
- `NewestSessionLands`: while the ladder's rungs come, the last session posted
  gets into the published list.

A row is a listing version that traded that day; prices are left out, because
no gate that is modelled reads them. The other builders of phase 2 count as one
status among `run.others`.

### NsePressRelease, IndexAnnouncements and IndexLedger

State: `list` (`index_constituents_all.parquet`: per index the members, the
session they were read at, the change in force), the status of the last run, and
`shown`, the day whose membership the rows were read from (for the properties).
A press release is a sequence of lines; `Parsed` is `parse_release_text` with
its three layouts, line by line, and `Selected` is `select_releases`. A run
(`Run`) is one of `BackDated`, `FirstRunFails`, `Keep`, `KeepForDuplicates` and
`Write`, over what NSE may serve that day (`Fetches`: a list of a day near it,
one index cut short or missing, nothing) and the releases a run may get
(`Deliveries`, read with the overrides into `Readings`: one out of reach, one that is no PDF, the page out of reach).
`Ledger` is `_apply_announcements`.

- `ListIsAnnounced`: after a run that read every release, an index served within
  the grace window has exactly the issuers NSE announced for the session, though
  its list lags, runs ahead or is not there.
- `NeverSilentlyStale`: a run that is not red has no index older than the limit.
  It holds for a grace window no longer than the limit, and fails for the code's
  ten days against three sessions (run `ledger_rename`).
- `IndicesAreKept`: no run moves an index back to an older session, and no index
  goes because NSE serves a part of it, or nothing, or because a run is
  back-dated: it goes when the announcements take out every member it had, or as
  many stocks as a list must have. (No floor bounds what announcements may leave
  of a list.)
- `LedgerAssumptions`, `OneNamePerIssuer` and `NseDoesAsAnnounced` are what the
  proofs assume; `MCLedgerAndSnapshots` evaluates all three on the scenario
  without its rename.

### ClassificationRegistry

State: `listed` (the exchange), `registry` (`RegistryEntry` per listing),
`artifact` (the published sectors), `campaign` (a collection between its first
and its last batch) and the status of the last build. Dates are relative: days
until a retry, audited this quarter or not.

| Action | Code |
|---|---|
| `StartCollection`, `CollectBatch`, `RefuseSnapshot`, `FinishCollection` | `cmd_classification_collect`; `run_approved_baseline` and `run_incremental_collection`: valid snapshot, reconciliation, absences, candidates, batch limit, observations, retries |
| `DailyBuild` | data-daily's `build_sector_industry`, bootstrapping from the seed; `FinishCollection` builds too |
| `NextDay`, `NextQuarter`, `Exchange` | calendar; listings come, go and change their symbols |

- `ArtifactFollowsRegistry`: after a build that did not fail, every classified
  active listing is in the artifact as the registry has it, under today's symbol.
- `AskedOnce`: a campaign asks for no page twice, so its loop ends.
- `NothingIsForgotten`: no step loses a class once read or a sector once
  published, though an unreadable page makes an entry pending again, and a
  campaign of many batches counts one day's absence many times and turns
  listings inactive by it. The guard on the number of rows alone would not see a
  row go when another one comes.
- `EveryListingIsPublished`: a listing that stays is in the artifact in the end,
  past failed and blocked pages, exhausted retries and the backlog.

Left out of `build_sector_industry` are the corners in which it keeps every file
because an input is damaged (an unreadable registry, seed or artifact, a seed too
short): no step of the model damages a file.

### CorporateActions

State: `files` (`ca_history_{YYYY}.parquet`), the sessions whose bundle a run
has read, the day. `BuildHistory` is the daily fold of book-closure bundles over
the table, `TopUp` the operator's window from NSE's API; both end in
`write_years`. `IsinOf` is `InstrumentList.isin`, `Merge` the two-source merge
with its `drop_duplicates`, `TableAfter` the loop over the bundles. `Windows` are what
an operator may give as `--from` and `--to`, ahead of today or behind it; the
default, today, is one of them on its day. `lacked` records which rows accepted
answers were cut short of, for `UpcomingIsKnown` alone.

- `OneRowPerAction`: no key twice, and no book-closure row beside the API's row
  of the same action, under an old symbol either.
- `UpcomingIsKnown`: an action read in a bundle stays until its ex-date has
  passed, under its symbol or another one of its share, whatever windows are
  topped up. A book-closure row ahead is spared, also in a window that reaches
  past today (`Retired`); but where such a window finds the API's row, that row
  takes its place and is then the API's to take away. So an action may go that
  NSE listed and withdrew, or that an accepted answer was cut short of: the
  tolerance of the shrink guard lets three rows of a month, or a twentieth, go
  (`IsGivenUp`). Both happen in the run; nothing else takes an action away.
- `TopUpIsTheRecord`: after any answer that was accepted, whole or cut short
  within the tolerance, the API's rows in its window, and whatever passed in it,
  are those of the answer and no others, in every year the answer has an action
  of. (A year whose rows are all retired keeps its file.)
- `IsinsFollowTheList`: after a daily run on the day's list a row has the ISIN
  that alone traded under its symbol on its ex-date, also when it was first
  written before.
- `IsinsAreKept`: violated (run `history_isins`).

### Snapshots

State: `data-latest` (`live`, `assets`), the snapshot tags, the jobs, one
restore and its target directories. A snapshot job is `Snapshot`, `Download`,
`CheckTag`, `Create`, `Upload` (the manifest first), `ListTags`, `Delete`; a
restore is `Restore`, `Verify`, `Materialize`, `Clear` (RUNBOOK's remedy);
`FailJob` and `FailRestore` may come anywhere; `Flip`, `Collect` and `NextMonth`
go on meanwhile.

- `RecoveryPointsSurvive`: a complete snapshot never changes and is deleted only
  when `keep` newer tags exist, though two jobs prune by stale lists.
- `OnlyAFailureCostsAMonth`: a partial tag, which is refused for ever and counts
  among the kept, takes a failure; no other job, publish or collection makes one.
- `RestoreIsAllOrNothing`: a restore has all baselines of one manifest, or none,
  from a partial or pruned tag too; only a failure in its second phase tears it.

## Runs

| Run | Shows |
|---|---|
| `locked` | data-daily and fundamentals-daily in the group, one failure or crash anywhere, three builds: the release is always consistent, and the catalog is implemented |
| `operator` | an operator who takes turns with fundamentals-daily, may skip the sync and passes `--allow-shrink`: a sync torn by a crash is never built on, the guards still protect the catalog; the liveness property |
| `unlocked_gc` | violation: outside the group one run's garbage collection breaks the other's manifest |
| `fundamentals_safety` | window runs and backfills at two era floors, from nothing or from a version 1 state: the safety properties of `FundamentalsRun` |
| `fundamentals_fresh_404` | violation: with backfills, `DueFilingLands` fails |
| `fundamentals_shared_document` | violation: a revision loses against the document it revises |
| `daily_safety` | daily runs on a runner and a laptop, backfills, rebuilt days, a bootstrap: the safety properties of `DailyRun` |
| `ledger_and_snapshots` | `IndexLedger` over a review, a departure, a postponed inclusion, a release only a human reads, a mistyped one and a rename; and `Snapshots` |
| `ledger_rename` | violation: a rename in the grace window freezes every index in green runs |
| `classification` | `ClassificationRegistry`: its safety properties, that nothing read or published is forgotten, and that every listing is published in the end |
| `schedules` | `CorporateActions`; and what two schedules bring about: `DueFilingLands` with the evening runs alone, `NewestSessionLands` with the ladder |
| `history_isins` | violation: a top-up erases an ISIN |

`ledger_and_snapshots` holds two machines and `schedules` three, which share
nothing but, in the code, the publish lock. A variable `which` chooses at the
start the one that moves; the others stay in their initial states, so the state
space is the sum and not the product, and nothing is lost: none reads what
another writes.

Bounds of `SharedRelease`: two producers, because every hazard here is between a
run and one other; a registry of two datasets, one dataset of a sibling producer
with deltas and one retired dataset, so that each of the four ways a dataset is
treated occurs. Three contents: the seed, a later larger file, and one as late
but smaller, so that the no-shrink guard both passes and refuses. Three builds
let a run publish on top of another's publish and then return to a content
whose asset is still there. One failure or crash anywhere (`MaxFaults = 1`) is
enough to leave a partial publish for the next run. `Strays` are files left on
the release by earlier crashes, one of them the very file a run will want to
upload. The release starts empty or seeded.

`FundamentalsRun`: two issuers, so that one filing's failure meets another's
success; one issuer revises its quarter, the other's document does not parse;
two era floors, so that a mark is both honoured and deepened. One fault or kill
is enough for every partial outcome (state deleted and not uploaded, rows
published and state not, state not downloaded), and the runs go on for ever.
The violating runs have one issuer and no fault at all.

`DailyRun`: three sessions, a holiday between them and a window of two, so that
windows overlap, span the holiday, miss a session and cross the turn of the year (two year files, two cache entries);
three listing versions, two in a series large enough for the count gate and one
that is not and comes on the last day; one fault, which may be a missing row, a
wrong date, a quarantined row, an outage, a failed write or a kill. A missing
row passes the loose gate and two do not. For the ladder the middle day is a
holiday of NSE and not of BSE.

`IndexLedger`: two indices, four days of which one is no session, seven symbols
of six issuers, NSE's lists at most one day late or early or cut short at any
place that leaves the fewest rows a list must have, a grace of one day,
equal to the stale limit in `ledger_and_snapshots` and above it in
`ledger_rename`. The runs are for today or for yesterday. `Snapshots`: three
months of which two are kept, two jobs at once, a manifest of two datasets that
is replaced once, restores of the first month (the one that is pruned), one
fault.

`ClassificationRegistry`: three listings, one that leaves, one that is renamed
and has the page that fails, one that comes late; batches of one, campaigns of
three, one retry delay, and two faults, so that the retry budget is exhausted.
`CorporateActions`: six days in two months, one of which is no session; a split
with a new ISIN, a dividend whose date moves, a rename on an ex-date, a bonus that
NSE's API lists ahead and then withdraws, and an action that only the API has; one
missing bundle, cut answer or shortened instrument list. Of the windows one ends
on day 4 and one on day 6, so each of them ends ahead of some runs, and the first
behind others; a third is the wrong way round, which is refused. A whole month is
three days instead of 28, so that a month without an action is met.

Fairness. `FundamentalsRun`: a started job goes on (`WF` of its steps), and the
evening schedule is served again and again whatever is dispatched by hand
(`SF` of `BeginWindow`: another run may hold the group each time it comes up).
`DailyRun`: likewise `WF` of a run's steps and of the calendar, `SF` of a rung of
the ladder for today. `ClassificationRegistry`: `SF` of the two crons, of
data-daily's build and of the calendar, which a collection in progress disables
for a while; `WF` of a collection's steps. Nothing is assumed of the exchanges:
what is required of them is in the property.

`SharedRelease` (`FairSpec`): weak fairness of each run's next step other than a
failure. GitHub runs the steps of a started job one after the other and kills
the job at its `timeout-minutes`; `End` follows every outcome. Nothing is
assumed about when runs start, whether a grace period elapses, or that a lock
is ever granted.

Deadlock is not checked in the runs of `IndexLedger`, `Snapshots` and
`CorporateActions` (`schedules` and `history_isins` among them): their modelled
calendars end (the last day, the last month),
and then nothing need happen.

## Proofs

`SharedReleaseProofs` proves for every set of producers, datasets and contents:

- `TypeCorrectness`, with no assumption on the lock.
- Under `Runner \subseteq Locked` (every producer in the group, as in all four
  workflows): `PublishIsSafe`, `ManifestAlwaysComplete`, `UploadsAlwaysFresh`,
  `SwapIsAtomic`, `OnlyTheDeadAreCollected`.
- For hosted runners (`Runner \ Persistent`, or no `Persistent` runner):
  `HostedRuns`, `RefusedForDataOnly`, `HostedRunsStayInLane` and the refinement
  `RefinesCatalog`.

The argument. Inside the group only the holder of the lock is active, so what
it listed and read remains true. `ManifestComplete` is not inductive: the flip
preserves it only because everything the new manifest names is on the release
or still queued, which in turn needs the listing to be what is there, which
needs the lock; and a deletion preserves it because what is queued for deletion
is not named by the manifest now live. `PublishInvariant` is these facts
together. The refinement needs more: at the flip, the new catalog must differ
from the old one only in the run's lane. `HostedRunInvariant` says what the run
synced is what is live, `LaneInvariant` that what it did not build is still the
baseline of the live manifest, and that after the guards and carries the
manifest may replace the live one (`MayPublish`).

`SharedReleaseRaceProofs` proves what remains with no lock at all, for any runs,
hosted or not, and any faults: `RaceIsSafe`, and from it `AdmittedRunRebases`,
that an admitted run's manifest has, of what the run did not build, the
baselines of the manifest it read. The compare-and-swap compares `generated_at`
only, so the argument is about numbers. `Numbered`: a manifest that is still to
be flipped has a number nobody else knows. `KnownByNumber`: whoever knows the
number of the live manifest knows that manifest, and a store whose synced state
has that number holds what the manifest names. A torn sync keeps an old number,
and the flip that follows takes the number of a manifest no store was synced
from, so the old store is refused and not built on. `BuildsOnWhatItRead` by
itself is not inductive: that the guard accepts says something only through
these two.

`FundamentalsRunProofs` proves, for any exchange, any documents and verdicts,
any number of faults and any mix of runs: `TypeCorrectness`,
`RunIsConsistent`, and from it `StateNeverAhead`, `MarksAreEarned` and
`RowsAreNeverDropped`. `StateClaimsOnlyPublishedRows` alone is not inductive:
that the uploaded state is covered by the rows depends on what the run had in
memory. `RunInvariant` says that until the publish the memory is covered by the
merge of the run's base with its finds, that the base is what is published, and
that after it the memory is covered by what is published; and for marks, that
every document of the symbol being scanned is on record, queued or missed. The
proofs assume of the constants that a feed is finite (`NewestExists`), that
a document is about its issuer's row, and that the state a history starts from
is itself honest (`Starts`).

`RowsDoAdvance` proves `RowsOnlyAdvance` under `ListedOnce`: no two notices name
the same document, each says its basis, and the rows a history starts from are
of documents that are out. A window and an era are both closed upward: a filing's
later notices are in them too. So what a scan selects is the newest of its
filing and basis of all that is out (`SelectedIsNewest`), and a published row is
of something that was out when it was selected. `AdvanceInvariant` keeps this for
the queue and the finds of a run against its base, while the exchange moves on
and attaches documents that revise what is queued. Without the first
condition it is false (run `fundamentals_shared_document`); without the second
the code takes any document of the filing, not the newest. That
the filings of `fundamentals_safety` meet the hypothesis is an `ASSUME` of
`MCFundamentalsRun`.

`SnapshotsProofs` proves the properties of `Snapshots`, for any months,
manifests and assets, any number of jobs and of faults: `TypeCorrectness`,
`PointsSurvive`, `FailuresCostMonths` and `RestoresAreWhole`. None of the
properties is inductive by itself, since a job's list of tags to prune may be
old and its upload takes many steps. `SnapshotInvariant` says what makes both
harmless: a tag has one job at it until its snapshot is whole, and what is on
the tag and what that job still has to upload are together what the manifest
names; a tag on a list has `keep` newer ones, however old the list; and since
no job outlives the month after its own (its timeout is twenty minutes), a tag
with two newer ones is no job's. Deleting one tag off a list therefore never
takes from what another job uploads, and whatever counts the deleted tag among
its newer ones has the deleted one's newer tags too. `LossInvariant` counts:
only a failure of a job adds to the tags that nobody will complete.
`RestoreInvariant` says what a restore has verified and what it has placed. The
proofs assume `SnapshotAssumptions`: at least two snapshots are kept (the code
keeps six), a manifest has one baseline per dataset. With one snapshot kept the
argument fails where it says so: the month before the current one could then be
pruned while its job still uploads.

`DailyRunProofs` proves the safety properties of `DailyRun`, for any calendar,
prices and window, any number of faults and any mix of daily runs, backfills and
rebuilt days: `DailyInvariantHolds`, and from it `TypesHold`,
`ListsStayRebuilds`, `SightingsStayReal`, `CacheStaysCurrent`,
`GuardsNeverDoRefuse`, `BseSkipsNoSession`, `WindowsAreAccountedFor`, and
`PublishedSightingsStay`, that no run takes a sighting out of a published list.
That a list is a rebuild is inductive only together with what feeds it: the
store holds of each session what traded then, the cache what the disk holds
(`CacheInvariant`), and the dates in a list are exactly those of its sightings.
The core is a fact of `InstrumentList`: merging a session into a rebuild of some
sessions gives the rebuild of those sessions and the new one, whatever their
order, because the merge keeps the earliest and the latest sighting. The
accounts of a window (`Accounts`) say of a run in progress which sessions of its
window are stored, absent or failed. The proofs assume what `DailyAssumptions`
says: BSE lists something on each of its sessions, since a file below `min_rows`
stops the build; the price files a bootstrap reads and the lists a history
starts from are real and are rebuilds; a window has at least one session.

`ClassificationProofs` proves, for any listings, pages, quarters, batch and
campaign sizes and any number of faults: `InvariantHolds`, `TypesHold`,
`ArtifactFollows`, `NothingIsAskedTwice` and `NothingForgotten`. `AskedOnce` is a statement about a
history and not inductive: that the next batch has no listing of an earlier one
depends on what the earlier one left behind. `CampaignInvariant` says it: a
listing that was asked in this campaign is settled, which is to say audited this
quarter and classified, or waiting for a retry that lies at least a day ahead,
or deferred past its retry budget; and a settled listing is not due. A manual
campaign has one batch only. The proofs assume that a retry delay is at least a
day, that there are finitely many listings and that a missing class is not a class.

`CorporateActionsProofs` proves the safety properties of `CorporateActions`, for
any bundles, answers, calendars and instrument lists and any number of faults:
`InvariantHolds`, `TypesHold`, `ActionsAreOne`, `UpcomingStays`, `IsinsFollow`,
`TopUpsAreTheRecord`. `OneRowPerAction` alone is not inductive. A top-up must
not add an API row whose key the table has, which holds because it first retires
every API row of its window, and its answer has no row outside. And resolving ISINs anew can make two rows the
same action that were not: the merge that follows drops the book-closure row of
such a pair, but `UpcomingIsKnown` then needs its action to survive under
another symbol, so the invariant says that a book-closure row's ISIN is one that
a share of its symbol has, by the versions or by the API (`Named`). A window that
reaches past today may put API rows ahead, and a later answer may be without
them; so `Knows` says of every action read in a bundle that it is in the history
or that the API gave it up, and `Answered` that every API row is one the API has
listed by then: an answer without it is either cut short of it or comes after NSE
withdrew it. A key determines its action (`KeysAreActions`). The
daily fold is a recursive function over the days; that every bundle of the fold
is in its result is an induction over data, which is done here without an
induction theorem: among the days where the claim fails there would be a least
(`LeastNatural`, from the well-foundedness of `<`). The proofs assume that days
are `1..LastDay`, that a purpose names at least one kind, and that a book-closure
row prints no ISIN.

`IndexLedgerProofs` proves the properties of `IndexLedger` for any indices, lists
and changes read, any lag and lead of NSE's lists and any order of runs and days:
`LedgerTypesHold` and `IndicesStay` with no assumption but the types of the
constants (`LedgerAssumptions`: changes carry dates and are numbered within their
release), `StalenessIsLoud` where no issuer has two names (`OneNamePerIssuer`;
`ledger_rename` shows it is needed), and `AnnouncementsDecide` where NSE moreover
does as it announced (`NseDoesAsAnnounced`). The last is said of NSE in its own
terms (`HaveItIn`: the last change in force has happened, and before the first its
opposite holds), and that `Wanted` computes just that is a lemma (`WantedIs`),
which needs the changes of a stock to have a last and a first one: a least
counterexample among finite sets, by cardinality (`LastExists`).
`ListIsAnnounced` is not inductive, for a list is carried from run to run while
changes come into and go out of sight. `Explained` is what a list keeps: of each
stock it says what NSE's list of that day said, or what the changes read at a
session since then said. `NseDoesAsAnnounced` then closes the gap to the session
of a complete run. What a press release parses to is a fold over its lines and
no part of the argument: the theorems hold for whatever changes are read.

Model-checked only: liveness, which the prover does not do; and the refinement
with an operator's persistent disk (run `operator`), whose invariant has to
relate an old store to the manifest it was synced from.

## What the model says about the code

Each of the first five is a run.

1. `_gc` takes for referenced what its own manifest names, not what the live one
   does: outside the group it can delete an asset of the manifest that ends up
   live (`unlocked_gc`), which `publish.py` promises never happens. On the way
   both publishes pass `check_cas`, which is check-then-act; the commands
   RUNBOOK gives an operator take no lock.
2. A backfill takes every HTTP 404 for final, also that of a filing broadcast
   today, whose document "can genuinely lag"; the evening runs then skip the
   filing as processed (`fundamentals_fresh_404`).
3. `merge_rows` lets the last document of a run win, and filings are taken in
   the order of their keys. When an annual and a quarterly filing share a
   document and the annual one is revised, the same run fetches the old document
   again under the quarterly filing's key, after the revision, and the old
   figures stay (`fundamentals_shared_document`).
4. An announced inclusion under a stock's old symbol, next to the new symbol in
   NSE's list, makes a duplicate key, and the whole constituents file is kept as
   `skipped_idempotent` for as long as the change is in the grace window, beyond
   the limit after which the code promises to be red (`ledger_rename`).
5. A top-up replaces the API's rows of its window and carries over their first
   sighting and not their ISIN, so a row that today's list cannot resolve loses
   what an earlier one established (`history_isins`).

Smaller things the models show and no run is spent on:

- A first publish that dies after creating the release leaves a release without
  a manifest, and `sync` fails on it for ever (`OpenRelease`, `SyncNoManifest`),
  where RUNBOOK says there is nothing to clean up.
- A filing that does not parse and is alone in the window trips every run before
  the outcome is saved (`Trip` precedes `Finish`): it is fetched again, and the
  run is red, until another filing joins it. And a symbol is marked while a
  filing of it is pending, where `state.rs` says every era filing had its
  outcome recorded (`SymbolDone` looks at fetch errors only).
- `daily --date` in the past puts an older token and ISIN back in
  `instruments_all` until the next run (`FreshAsOf`).
- Reconciliation sets an entry with a last known good to classified and takes
  its new symbol whether or not the batch limit lets its page be asked, so a
  pending retry and a rename can be forgotten until the next audit
  (`Reconciled`). A quarterly campaign reconciles once per batch against one
  snapshot, so a listing missing from it counts as absent as many times.
- `write_years` writes the years that have rows: a year whose rows are all
  retired keeps its file (`WriteYears`).

## Not modelled

- Parsing of exchange files and XBRL, the arithmetic of the fundamentals gates,
  column conversion, schemas, HTTP, pacing, formatting: conversions and I/O
  without protocol state. A press release is an exception, because which of its
  lines carries which change decides membership.
- The builders of the CAS list, the freeze limits, the market calendar, the
  recent corporate actions and the special pre-open list: each a fetch behind
  guards of the shape `IndexLedger` and `CorporateActions` have.
- The one pending run a concurrency group keeps, which a third replaces: a run
  that never starts changes nothing.
- `gh upload --clobber` of `manifest.json` as a delete and an upload (it is
  split for the producer's state), an upload cut short and left in the listing,
  and the page size of `list_releases`.
- `check-freshness`, the monitor, keepalive, holidays and CI workflows, and the
  maintenance scripts: nothing in a run reads back what they do.

## Next

1. The refinement of `ReleaseCatalog` for persistent disks.
2. The recovery after a restore: older rows under the producer's newer state.
