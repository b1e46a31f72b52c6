--------------------------- MODULE SharedRelease ----------------------------
(***************************************************************************)
(* The publish protocol of the rolling `data-latest` release.              *)
(*                                                                         *)
(* Several producers (data-daily, fundamentals-daily, sector-refresh, an   *)
(* operator's machine) run  sync -> build -> publish  against one GitHub   *)
(* release.  Data assets are content-addressed and never overwritten;      *)
(* `manifest.json` is the one mutable asset and is replaced last.  Each    *)
(* action below is one call a producer makes on the release, with the      *)
(* local computation up to its next call.                                  *)
(*                                                                         *)
(* Abstractions.  A dataset's year files are one baseline file.  A file's  *)
(* content is a value c with RowsOf[c] rows and newest date DateOf[c].     *)
(* An upload happens entirely or not at all, and so does the replacement   *)
(* of manifest.json.  Status files and quarantine files, which no manifest *)
(* references, are left out: their failure is a Fail before the flip.      *)
(***************************************************************************)
EXTENDS Integers, FiniteSets

CONSTANTS
  Dataset,      \* dataset names a manifest can list
  Content,      \* contents a data file can have
  RowsOf,       \* RowsOf[c]: rows in a file of content c
  DateOf,       \* DateOf[c]: newest `date` in a file of content c
  Runner,       \* producers that publish into the release
  Owned,        \* Owned[r]: dataset names of r's registry
  Writes,       \* Writes[r]: the owned datasets the job of r builds
  Primary,      \* Primary[r]: the first of r's published specs
  Retires,      \* Retires[r]: names r's registry has retired
  MayShrink,    \* datasets whose spec says rows_may_shrink
  AllowShrink,  \* runners started with --allow-shrink
  DeltaWriter,  \* runners whose local store holds delta files
  Locked,       \* runners inside the workflows' concurrency group
  Persistent,   \* runners whose disk outlives the run (an operator's machine)
  Seeds,        \* manifests the release may start from (NoManifest: no release)
  Strays,       \* files that may lie on the release without being listed
  NoEntry, NoManifest, Free,
  MaxPublish,   \* bound: builds in a behaviour
  MaxFaults     \* bound: injected failures in a behaviour

Entry == [base : Content, deltas : SUBSET Content]
EntryOrNone == Entry \cup {NoEntry}
Manifest == [gen : Nat, date : Nat, ds : [Dataset -> EntryOrNone]]

\* A data asset's name fixes its bytes: manifest.asset_name is stem.sha8.ext.
Asset == [ds : Dataset, kind : {"base", "delta"}, content : Content]
Base(d, c)  == [ds |-> d, kind |-> "base",  content |-> c]
Delta(d, c) == [ds |-> d, kind |-> "delta", content |-> c]

ASSUME RowsAndDates == RowsOf \in [Content -> Nat] /\ DateOf \in [Content -> Nat]
ASSUME Registries ==
  /\ Owned \in [Runner -> SUBSET Dataset]
  /\ Writes \in [Runner -> SUBSET Dataset]
  /\ Retires \in [Runner -> SUBSET Dataset]
  /\ Primary \in [Runner -> Dataset]
  /\ \A r \in Runner :
       Writes[r] \subseteq Owned[r] /\ Primary[r] \in Owned[r] /\ Retires[r] \cap Owned[r] = {}
ASSUME Sentinels ==
  /\ NoEntry \notin Entry
  /\ NoManifest \notin Manifest
  /\ Free \notin Runner
ASSUME Seeding ==
  /\ Seeds \subseteq Manifest \cup {NoManifest}
  /\ \A m \in Seeds : m # NoManifest => m.gen = 1
  /\ Strays \subseteq Asset
ASSUME Bounds == MaxPublish \in Nat /\ MaxFaults \in Nat

VARIABLES
  exists,       \* the release exists
  assets,       \* data assets on it
  old,          \* those uploaded more than GC_GRACE ago
  live,         \* its manifest.json, or NoManifest
  lock,         \* holder of the concurrency group `data-pipeline-publish`
  gens,         \* newest generated_at handed out
  faults,       \* failures so far
  pc,           \* pc[r]: where the run of r stands
  synced,       \* synced[r]: generated_at in r's synced_manifest.json
  store,        \* store[r]: what r's local store would build into a manifest
  seen,         \* seen[r]: the manifest r downloaded last
  listed,       \* listed[r]: r's listing of the release (`existing`)
  new,          \* new[r]: the manifest r is publishing
  todo          \* todo[r]: files still to download, upload or delete

shared == <<exists, assets, old, live>>
local  == <<synced, store, seen, listed, new, todo>>
vars   == <<exists, assets, old, live, lock, gens, faults, pc, local>>

-----------------------------------------------------------------------------
\* Manifests

EntryAssets(d, e) ==
  IF e = NoEntry THEN {} ELSE {Base(d, e.base)} \cup {Delta(d, c) : c \in e.deltas}

EntriesOf(m) == IF m = NoManifest THEN [d \in Dataset |-> NoEntry] ELSE m.ds

\* Every data asset the manifest m points a client at.
Refs(m) == UNION {EntryAssets(d, EntriesOf(m)[d]) : d \in Dataset}

\* generated_at, with 0 for JSON null.
GenOf(m) == IF m = NoManifest THEN 0 ELSE m.gen
DateIn(m) == IF m = NoManifest THEN 0 ELSE m.date

NeverSynced == -1            \* no synced_manifest.json on disk
EmptyStore == [d \in Dataset |-> NoEntry]
NoListing == [files |-> {}, manifest |-> FALSE]

\* build_manifest: only the datasets of r's registry, from r's store.
BuiltManifest(r, st, g) ==
  [gen  |-> g,
   date |-> DateOf[st[Primary[r]].base],
   ds   |-> [d \in Dataset |-> IF d \in Owned[r] THEN st[d] ELSE NoEntry]]

\* check_cas
LiveIsSynced(r, m) == synced[r] = GenOf(m)

\* check_no_shrink
Shrinks(r, n, m) ==
  /\ m # NoManifest
  /\ \/ \E d \in Owned[r] :
          /\ m.ds[d] # NoEntry
          /\ \/ n.ds[d] = NoEntry
             \/ /\ d \notin MayShrink
                /\ r \notin AllowShrink
                /\ RowsOf[n.ds[d].base] < RowsOf[m.ds[d].base]
     \/ n.date < m.date

\* Mutant: a runner without delta files erases the live window.
DeltasForgotten(d, e, was, names) == e

\* carry_forward_deltas, for a dataset this run built without delta files.
CarriedDeltas(d, e, was, names) ==
  IF e = NoEntry \/ was = NoEntry THEN e
  ELSE IF e.deltas # {} THEN e
  ELSE [e EXCEPT !.deltas = {c \in was.deltas : Delta(d, c) \in names}]

\* Mutant: publish rewrites the whole manifest from its own registry.
ForeignForgotten(r, d, was, names) == NoEntry

\* carry_forward_foreign_datasets: verbatim, whole, and only if still there.
CarriedForeign(r, d, was, names) ==
  IF d \notin Retires[r] /\ EntryAssets(d, was) \subseteq names THEN was ELSE NoEntry

Carried(r, n, m, names) ==
  [n EXCEPT !.ds = [d \in Dataset |->
     IF d \in Owned[r] THEN CarriedDeltas(d, n.ds[d], EntriesOf(m)[d], names)
                       ELSE CarriedForeign(r, d, EntriesOf(m)[d], names)]]

OwnRefs(r, m) == {a \in Refs(m) : a.ds \in Owned[r]}

-----------------------------------------------------------------------------
PC == {"idle", "started", "sync", "work", "open", "list", "read", "upload",
       "verify", "collect", "gc", "done", "refused", "failed"}
Active(r) == pc[r] # "idle"
\* Pcs at which a call can fail or the job can be killed.
Killable == PC \ {"idle", "done", "refused", "failed"}

Init ==
  /\ live \in Seeds
  /\ exists = (live # NoManifest)
  /\ \E S \in SUBSET Strays : assets = IF exists THEN Refs(live) \cup S ELSE {}
  /\ old \in {{}, assets}
  /\ lock = Free
  /\ gens = GenOf(live)
  /\ faults = 0
  /\ pc = [r \in Runner |-> "idle"]
  /\ synced = [r \in Runner |-> NeverSynced]
  /\ store = [r \in Runner |-> EmptyStore]
  /\ seen = [r \in Runner |-> NoManifest]
  /\ listed = [r \in Runner |-> NoListing]
  /\ new = [r \in Runner |-> NoManifest]
  /\ todo = [r \in Runner |-> {}]

Goto(r, where) == pc' = [pc EXCEPT ![r] = where]

-----------------------------------------------------------------------------
\* Mutant: a workflow without its concurrency group.
StartOutsideTheGroup(r) ==
  /\ pc[r] = "idle"
  /\ Goto(r, "started")
  /\ UNCHANGED <<shared, lock, gens, faults, local>>

\* A run begins: a workflow enters the concurrency group first.
Start(r) ==
  /\ pc[r] = "idle"
  /\ IF r \in Locked THEN lock = Free /\ lock' = r ELSE UNCHANGED lock
  /\ Goto(r, "started")
  /\ UNCHANGED <<shared, gens, faults, local>>

\* sync_store finds no release: nothing to download, generated_at is null.
SyncNothing(r) ==
  /\ pc[r] = "started"
  /\ ~exists
  /\ synced' = [synced EXCEPT ![r] = 0]
  /\ Goto(r, "work")
  /\ UNCHANGED <<shared, lock, gens, faults, store, seen, listed, new, todo>>

\* sync_store downloads manifest.json.
SyncManifest(r) ==
  /\ pc[r] = "started"
  /\ exists
  /\ live # NoManifest
  /\ seen' = [seen EXCEPT ![r] = live]
  /\ todo' = [todo EXCEPT ![r] = {a \in OwnRefs(r, live) : a.kind = "base"}]
  /\ Goto(r, "sync")
  /\ UNCHANGED <<shared, lock, gens, faults, synced, store, listed, new>>

\* Fail-closed: the release is there and its manifest is not.
SyncNoManifest(r) ==
  /\ pc[r] = "started"
  /\ exists
  /\ live = NoManifest
  /\ Goto(r, "failed")
  /\ UNCHANGED <<shared, lock, gens, faults, local>>

\* sync_store, phase 1: download and verify one baseline.
SyncFile(r) ==
  /\ pc[r] = "sync"
  /\ \E a \in todo[r] :
       \/ /\ a \in assets
          /\ todo' = [todo EXCEPT ![r] = @ \ {a}]
          /\ UNCHANGED pc
       \/ /\ a \notin assets
          /\ Goto(r, "failed")
          /\ UNCHANGED todo
  /\ UNCHANGED <<shared, lock, gens, faults, synced, store, seen, listed, new>>

\* What phase 2 leaves in the store when the files of the datasets D landed.
Materialized(r, D) ==
  [d \in Dataset |->
     IF d \in D /\ d \in Owned[r] /\ seen[r].ds[d] # NoEntry
     THEN [base |-> seen[r].ds[d].base,
           deltas |-> IF store[r][d] = NoEntry THEN {} ELSE store[r][d].deltas]
     ELSE store[r][d]]

\* Mutant: sync ends without writing the synced state.
SyncUnrecorded(r) ==
  /\ pc[r] = "sync"
  /\ todo[r] = {}
  /\ store' = [store EXCEPT ![r] = Materialized(r, Dataset)]
  /\ Goto(r, "work")
  /\ UNCHANGED <<shared, lock, gens, faults, synced, seen, listed, new, todo>>

\* Phase 2: put every verified file in place, then write the synced state.
SyncDone(r) ==
  /\ pc[r] = "sync"
  /\ todo[r] = {}
  /\ store' = [store EXCEPT ![r] = Materialized(r, Dataset)]
  /\ synced' = [synced EXCEPT ![r] = seen[r].gen]
  /\ Goto(r, "work")
  /\ UNCHANGED <<shared, lock, gens, faults, seen, listed, new, todo>>

\* Mutant: phase 2 records the new synced state before it replaces the files.
SyncTornButRecorded(r) ==
  /\ pc[r] = "sync"
  /\ todo[r] = {}
  /\ faults < MaxFaults
  /\ faults' = faults + 1
  /\ \E D \in SUBSET Dataset : store' = [store EXCEPT ![r] = Materialized(r, D)]
  /\ synced' = [synced EXCEPT ![r] = seen[r].gen]
  /\ Goto(r, "failed")
  /\ UNCHANGED <<shared, lock, gens, seen, listed, new, todo>>

\* A crash inside phase 2: some files in place, the old synced state kept.
SyncTorn(r) ==
  /\ pc[r] = "sync"
  /\ todo[r] = {}
  /\ faults < MaxFaults
  /\ faults' = faults + 1
  /\ \E D \in SUBSET Dataset : store' = [store EXCEPT ![r] = Materialized(r, D)]
  /\ Goto(r, "failed")
  /\ UNCHANGED <<shared, lock, gens, synced, seen, listed, new, todo>>

\* An operator goes straight to work on the store the last run left.
SkipSync(r) ==
  /\ pc[r] = "started"
  /\ r \in Persistent
  /\ Goto(r, "work")
  /\ UNCHANGED <<shared, lock, gens, faults, local>>

-----------------------------------------------------------------------------
\* What the job of r may leave in its store for a dataset it builds.  NoEntry
\* is a file lost on the way; the guards below are there to catch it.
LocalEntries(r) ==
  [base : Content, deltas : IF r \in DeltaWriter THEN SUBSET Content ELSE {{}}] \cup {NoEntry}

\* The job builds its datasets; publish_dataset then refuses an empty primary
\* or builds the manifest to publish.
Produce(r) ==
  /\ pc[r] = "work"
  /\ gens < MaxPublish
  /\ \E built \in [Writes[r] -> LocalEntries(r)] :
       LET st == [d \in Dataset |-> IF d \in Writes[r] THEN built[d] ELSE store[r][d]]
       IN /\ store' = [store EXCEPT ![r] = st]
          /\ IF st[Primary[r]] = NoEntry
             THEN Goto(r, "refused") /\ UNCHANGED <<gens, new>>
             ELSE /\ gens' = gens + 1
                  /\ new' = [new EXCEPT ![r] = BuiltManifest(r, st, gens + 1)]
                  /\ Goto(r, "open")
  /\ UNCHANGED <<shared, lock, faults, synced, seen, listed, todo>>

\* A quiet day, or a failed build: the workflow ends without publishing.
Quiet(r) ==
  /\ pc[r] = "work"
  /\ Goto(r, "done")
  /\ UNCHANGED <<shared, lock, gens, faults, local>>

OpenRelease(r) ==
  /\ pc[r] = "open"
  /\ exists' = TRUE
  /\ Goto(r, "list")
  /\ UNCHANGED <<assets, old, live, lock, gens, faults, local>>

ListAssets(r) ==
  /\ pc[r] = "list"
  /\ listed' = [listed EXCEPT ![r] = [files |-> assets, manifest |-> live # NoManifest]]
  /\ Goto(r, "read")
  /\ UNCHANGED <<shared, lock, gens, faults, synced, store, seen, new, todo>>

\* _read_live_manifest: absent only if the listing did not name it.
LiveRead(r) == IF listed[r].manifest THEN live ELSE NoManifest

Admissible(r) ==
  /\ synced[r] # NeverSynced
  /\ LiveIsSynced(r, LiveRead(r))
  /\ ~Shrinks(r, new[r], LiveRead(r))

\* Mutant: every asset is uploaded, also those an earlier run left there.
AdmitReuploading(r) ==
  /\ pc[r] = "read"
  /\ Admissible(r)
  /\ LET m == Carried(r, new[r], LiveRead(r), listed[r].files)
     IN /\ new' = [new EXCEPT ![r] = m]
        /\ todo' = [todo EXCEPT ![r] = OwnRefs(r, m)]
  /\ seen' = [seen EXCEPT ![r] = LiveRead(r)]
  /\ Goto(r, "upload")
  /\ UNCHANGED <<shared, lock, gens, faults, synced, store, listed>>

\* The guards pass: carry forward what r does not build, queue the uploads.
Admit(r) ==
  /\ pc[r] = "read"
  /\ Admissible(r)
  /\ LET m == Carried(r, new[r], LiveRead(r), listed[r].files)
     IN /\ new' = [new EXCEPT ![r] = m]
        /\ todo' = [todo EXCEPT ![r] = OwnRefs(r, m) \ listed[r].files]
  /\ seen' = [seen EXCEPT ![r] = LiveRead(r)]
  /\ Goto(r, "upload")
  /\ UNCHANGED <<shared, lock, gens, faults, synced, store, listed>>

Refuse(r) ==
  /\ pc[r] = "read"
  /\ ~Admissible(r)
  /\ seen' = [seen EXCEPT ![r] = LiveRead(r)]
  /\ Goto(r, "refused")
  /\ UNCHANGED <<shared, lock, gens, faults, synced, store, listed, new, todo>>

\* Upload one data asset, without --clobber: a name already there is an error.
Upload(r) ==
  /\ pc[r] = "upload"
  /\ \E a \in todo[r] :
       \/ /\ a \notin assets
          /\ assets' = assets \cup {a}
          /\ todo' = [todo EXCEPT ![r] = @ \ {a}]
          /\ UNCHANGED pc
       \/ /\ a \in assets
          /\ Goto(r, "failed")
          /\ UNCHANGED <<assets, todo>>
  /\ UNCHANGED <<exists, old, live, lock, gens, faults, synced, store, seen, listed, new>>

\* Mutant: the manifest may be replaced before its assets are uploaded.
FlipBeforeUploads(r) ==
  /\ pc[r] = "upload"
  /\ live' = new[r]
  /\ Goto(r, "verify")
  /\ UNCHANGED <<exists, assets, old, lock, gens, faults, local>>

\* THE FLIP: replace manifest.json, strictly last.
Flip(r) ==
  /\ pc[r] = "upload"
  /\ todo[r] = {}
  /\ live' = new[r]
  /\ Goto(r, "verify")
  /\ UNCHANGED <<exists, assets, old, lock, gens, faults, local>>

\* _verify: the manifest just published is live and one asset it names (the
\* smallest) downloads.  Otherwise the run fails and nothing is rolled back.
Verify(r) ==
  /\ pc[r] = "verify"
  /\ \E a \in Refs(new[r]) :
       IF live = new[r] /\ a \in assets THEN Goto(r, "collect") ELSE Goto(r, "failed")
  /\ UNCHANGED <<shared, lock, gens, faults, local>>

\* Mutant: unreferenced by our manifest is taken for dead (before owns_asset).
GcListForeign(r) ==
  /\ pc[r] = "collect"
  /\ todo' = [todo EXCEPT ![r] = {a \in assets : a \in old /\ a \notin Refs(new[r])}]
  /\ Goto(r, "gc")
  /\ UNCHANGED <<shared, lock, gens, faults, synced, store, seen, listed, new>>

\* _gc lists the release: ours, unreferenced by our manifest, past the grace.
GcList(r) ==
  /\ pc[r] = "collect"
  /\ todo' = [todo EXCEPT ![r] =
                {a \in assets : a \in old /\ a.ds \in Owned[r] /\ a \notin Refs(new[r])}]
  /\ Goto(r, "gc")
  /\ UNCHANGED <<shared, lock, gens, faults, synced, store, seen, listed, new>>

\* Mutant: a deleted asset's age is still on record.
GcStepKeepsAge(r) ==
  /\ pc[r] = "gc"
  /\ \E a \in todo[r] :
       /\ todo' = [todo EXCEPT ![r] = @ \ {a}]
       /\ assets' = assets \ {a}
  /\ UNCHANGED <<exists, old, live, lock, gens, faults, pc, synced, store, seen, listed, new>>

\* Listing or deleting may fail in _gc: the error is printed and swallowed.
GcStep(r) ==
  /\ pc[r] = "gc"
  /\ \E a \in todo[r] :
       /\ todo' = [todo EXCEPT ![r] = @ \ {a}]
       /\ \/ assets' = assets \ {a} /\ old' = old \ {a}
          \/ UNCHANGED <<assets, old>>
  /\ UNCHANGED <<exists, live, lock, gens, faults, pc, synced, store, seen, listed, new>>

\* Our publish is now the synced baseline.
Finish(r) ==
  /\ pc[r] = "gc"
  /\ todo[r] = {}
  /\ synced' = [synced EXCEPT ![r] = new[r].gen]
  /\ Goto(r, "done")
  /\ UNCHANGED <<shared, lock, gens, faults, store, seen, listed, new, todo>>

\* The job ends, whatever its outcome; a hosted runner's disk goes with it.
End(r) ==
  /\ pc[r] \in {"done", "refused", "failed"}
  /\ Goto(r, "idle")
  /\ lock' = IF lock = r THEN Free ELSE lock
  /\ IF r \in Persistent
     THEN UNCHANGED <<synced, store>>
     ELSE /\ synced' = [synced EXCEPT ![r] = NeverSynced]
          /\ store' = [store EXCEPT ![r] = EmptyStore]
  /\ seen' = [seen EXCEPT ![r] = NoManifest]
  /\ listed' = [listed EXCEPT ![r] = NoListing]
  /\ new' = [new EXCEPT ![r] = NoManifest]
  /\ todo' = [todo EXCEPT ![r] = {}]
  /\ UNCHANGED <<shared, gens, faults>>

-----------------------------------------------------------------------------
\* A call raises ReleaseError, or the job is killed, at any point of a run.
Fail(r) ==
  /\ pc[r] \in Killable
  /\ faults < MaxFaults
  /\ faults' = faults + 1
  /\ Goto(r, "failed")
  /\ UNCHANGED <<shared, lock, gens, local>>

\* GC_GRACE goes by between runs: everything on the release is past it.
GraceElapses ==
  /\ \A r \in Runner : ~Active(r)
  /\ old # assets
  /\ old' = assets
  /\ UNCHANGED <<exists, assets, live, lock, gens, faults, pc, local>>

\* What a run does by itself once started.
Step(r) ==
  \/ SyncNothing(r) \/ SyncManifest(r) \/ SyncNoManifest(r) \/ SyncFile(r) \/ SyncDone(r)
  \/ SkipSync(r) \/ Produce(r) \/ Quiet(r)
  \/ OpenRelease(r) \/ ListAssets(r) \/ Admit(r) \/ Refuse(r)
  \/ Upload(r) \/ Flip(r) \/ Verify(r) \/ GcList(r) \/ GcStep(r) \/ Finish(r) \/ End(r)

Next ==
  \/ \E r \in Runner : Start(r) \/ Step(r) \/ SyncTorn(r) \/ Fail(r)
  \/ GraceElapses

Spec == Init /\ [][Next]_vars

\* A started run goes on: GitHub runs a job's steps one after the other and
\* kills a job at its timeout, and an operator's command runs to its end.
FairSpec == Spec /\ \A r \in Runner : WF_vars(Step(r))
-----------------------------------------------------------------------------
\* Properties

\* Every variable stays in its type (one type invariant for the protocol).
TypeOK ==
  /\ exists \in BOOLEAN
  /\ assets \subseteq Asset
  /\ old \subseteq assets
  /\ live \in Manifest \cup {NoManifest}
  /\ lock \in Runner \cup {Free}
  /\ gens \in Nat
  /\ faults \in Nat
  /\ pc \in [Runner -> PC]
  /\ synced \in [Runner -> Int]
  /\ store \in [Runner -> [Dataset -> EntryOrNone]]
  /\ seen \in [Runner -> Manifest \cup {NoManifest}]
  /\ listed \in [Runner -> [files : SUBSET Asset, manifest : BOOLEAN]]
  /\ new \in [Runner -> Manifest \cup {NoManifest}]
  /\ todo \in [Runner -> SUBSET Asset]

\* publish.py's opening promise, and tests/fakes.py assert_release_consistent:
\* whatever manifest is readable, every asset it names is on the release,
\* after any crash of any run and any garbage collection.
ManifestComplete == live # NoManifest => Refs(live) \subseteq assets

\* What earlier, interrupted runs left on the release never blocks a later
\* one: an upload, made without --clobber, never meets its own name.
UploadsNeverClash ==
  \A r \in Runner : pc[r] = "upload" => todo[r] \cap assets = {}

\* A hosted run that held the lock from its sync on is turned away only for
\* what its own store holds, never because the release moved under it.
RefusedOnlyForItsData ==
  \A r \in (Runner \cap Locked) \ Persistent :
    pc[r] = "refused" => new[r] = NoManifest \/ Shrinks(r, new[r], live)

\* Why these hold inside the lock, step by step: only the holder of the lock is
\* active, so its listing and what it read of the release stay true; whatever
\* the manifest being published names is on the release or still queued; and
\* what garbage collection is about to delete is ours and not named by the
\* manifest now live.
PublishInvariant ==
  /\ ManifestComplete
  /\ UploadsNeverClash
  /\ \A r \in Runner :
       /\ Active(r) => lock = r
       /\ pc[r] = "read" =>
            /\ listed[r].files = assets
            /\ listed[r].manifest = (live # NoManifest)
       /\ pc[r] = "upload" =>
            /\ Refs(new[r]) \subseteq assets \cup todo[r]
            /\ synced[r] = GenOf(live)
       /\ pc[r] \in {"collect", "gc"} => live = new[r]
       /\ pc[r] = "gc" => \A a \in todo[r] : a.ds \in Owned[r] /\ a \notin Refs(live)

\* The same for a run without a past: what it synced is what is live until it
\* flips, and it has no manifest before it has built one.
HostedRunInvariant ==
  \A r \in Runner \ Persistent :
    /\ pc[r] \in {"idle", "started"} => synced[r] = NeverSynced
    /\ pc[r] \in {"idle", "started", "sync", "work"} => new[r] = NoManifest
    /\ pc[r] = "sync" => seen[r] = live
    /\ pc[r] \in {"work", "open", "list", "read"} => synced[r] = GenOf(live)
    /\ pc[r] = "refused" => new[r] = NoManifest \/ Shrinks(r, new[r], live)

\* And what such a run carries from its sync to its flip: of the datasets its
\* job does not build, exactly the baselines now live; of the manifest it is
\* about to flip, only changes a publish of r may make to the live catalog.
SyncedLane(r, entries) ==
  \A d \in Owned[r] \ Writes[r] :
    entries[d] = IF EntriesOf(live)[d] = NoEntry THEN NoEntry
                 ELSE [base |-> EntriesOf(live)[d].base, deltas |-> {}]

MayPublish(r, was, n) ==
  /\ \A d \in Dataset :
       n.ds[d] # EntriesOf(was)[d] =>
         d \in Writes[r] \/ (d \in Retires[r] /\ n.ds[d] = NoEntry)
  /\ \A d \in Writes[r] :
       EntriesOf(was)[d] # NoEntry =>
         /\ n.ds[d] # NoEntry
         /\ \/ d \in MayShrink
            \/ r \in AllowShrink
            \/ RowsOf[EntriesOf(was)[d].base] <= RowsOf[n.ds[d].base]
  /\ DateIn(was) <= n.date

LaneInvariant ==
  \A r \in Runner \ Persistent :
    /\ pc[r] \in {"idle", "started", "sync"} => store[r] = EmptyStore
    /\ pc[r] = "work" => SyncedLane(r, store[r])
    /\ pc[r] \in {"open", "list", "read"} => SyncedLane(r, new[r].ds)
    /\ pc[r] = "upload" => MayPublish(r, live, new[r])

\* With or without the lock, after any crash, even inside a sync: a run that
\* passes the guards rebuilt only its own datasets on top of the manifest it
\* read, so the rest of what it publishes is that manifest's.
BuildsOnWhatItRead ==
  \A r \in Runner :
    pc[r] = "upload" =>
      \A d \in Owned[r] \ Writes[r] :
        EntriesOf(seen[r])[d] # NoEntry =>
          /\ new[r].ds[d] # NoEntry
          /\ new[r].ds[d].base = EntriesOf(seen[r])[d].base

\* The compare-and-swap means what it says: a manifest only ever replaces the
\* one its run synced.
ReplacesOnlyWhatItSynced ==
  [][\A r \in Runner :
       pc[r] = "upload" /\ pc'[r] = "verify" => synced[r] = GenOf(live)]_vars

\* An asset leaves the release only once no manifest points a client at it,
\* and only at the hands of a run whose registry claims it: what another
\* producer keeps there under an index of its own stays.
OnlyOwnDeadAssetsCollected ==
  [][\A a \in assets \ assets' :
       /\ a \notin Refs(live)
       /\ \E r \in Runner : pc[r] = "gc" /\ a.ds \in Owned[r]]_vars

\* The protocol is a release whose catalog changes one publish at a time.
Catalog == INSTANCE ReleaseCatalog WITH catalog <- EntriesOf(live), latest <- DateIn(live)
ImplementsCatalog == Catalog!Spec

\* A run past the guards publishes, if nothing fails any more: its manifest
\* goes live, verifies, and becomes its synced state.
AdmittedRunCompletes ==
  \A r \in Runner : (pc[r] = "upload" /\ faults = MaxFaults) ~> pc[r] = "done"
=============================================================================
