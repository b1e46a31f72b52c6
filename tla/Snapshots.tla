------------------------------ MODULE Snapshots -------------------------------
(***************************************************************************)
(* Monthly snapshots of the release, their retention, and the restore of   *)
(* one.  None of it takes the publish lock: while a job copies what it     *)
(* read, manifests are flipped and the assets they leave are collected; an *)
(* operator may dispatch a second job; and a tag may be pruned while it is *)
(* being restored.  A call of gh is one step; it may fail, and a job or a  *)
(* restore may be killed between two.                                      *)
(***************************************************************************)
EXTENDS Integers, FiniteSets, FiniteSetsExt

CONSTANTS
  Published,    \* the manifests of data-latest, one after the other: their assets
  KeepNewest,   \* prune_snapshots(keep): at least 2, so that no job at work has an old tag
  Month,        \* bound: the months, 1..n
  Job,          \* snapshot jobs that may run at the same time
  Restored,     \* bound: the tags somebody restores
  None,
  MaxFaults     \* bound: injected failures

\* An asset is one file of a dataset: [ds, kind, content].
Baselines(m) == {a \in Published[m] : a.kind = "base"}

\* What the constants are: the months and the manifests are numbered from 1, a
\* manifest names a baseline, and one per dataset; two snapshots at
\* least are kept.
Asset == UNION {Published[m] : m \in DOMAIN Published}
SnapshotAssumptions ==
  /\ Month \subseteq Nat \ {0} /\ IsFiniteSet(Month) /\ 1 \in Month
  /\ DOMAIN Published \subseteq Nat \ {0} /\ 1 \in DOMAIN Published
  /\ \A m \in DOMAIN Published :
       /\ Baselines(m) # {}
       /\ \A a, b \in Baselines(m) : a.ds = b.ds => a = b
  /\ KeepNewest \in Nat /\ KeepNewest >= 2
  /\ Restored \subseteq Month \cup {0}
  /\ None \notin Nat /\ None \notin [manifest: Nat \cup {None}, assets: SUBSET Asset]
  /\ MaxFaults \in Nat
ASSUME ConstantsAreRight == SnapshotAssumptions

\* Files are taken in the order of the manifest, whatever that is.
NextOf(todo) == CHOOSE a \in todo : TRUE

VARIABLES
  month,
  live,         \* which manifest data-latest has
  assets,       \* what lies on data-latest
  tags,         \* tags[t]: the release data-snapshot-t, or None
  job,          \* job[j]: where the snapshot job j stands
  restore,      \* where restore-from-snapshot stands
  target,       \* target[t]: the baselines in the restore directory of t
  faults        \* failures so far

snapshotVars == <<tags, job>>
restoreVars == <<restore, target>>
vars == <<month, live, assets, tags, job, restore, target, faults>>

Latest == 0                  \* `--tag data-latest`
At(t) == IF t = Latest THEN [manifest |-> live, assets |-> assets] ELSE tags[t]

Idle == [pc |-> "idle", tag |-> Latest, manifest |-> None, todo |-> {}, got |-> {}]
Created == [manifest |-> None, assets |-> {}]

Init ==
  /\ month = 1
  /\ live = 1
  /\ assets = Published[1]
  /\ tags = [t \in Month |-> None]
  /\ job = [j \in Job |-> Idle]
  /\ restore = Idle
  /\ target = [t \in Restored |-> {}]
  /\ faults = 0

-----------------------------------------------------------------------------
\* The producers flip the next manifest, and collect what it no longer names.
Flip ==
  /\ live + 1 \in DOMAIN Published
  /\ live' = live + 1
  /\ assets' = assets \cup Published[live + 1]
  /\ UNCHANGED <<month, snapshotVars, restoreVars, faults>>

Collect ==
  /\ assets # Published[live]
  /\ assets' = Published[live]
  /\ UNCHANGED <<month, live, snapshotVars, restoreVars, faults>>

\* A job is killed after twenty minutes: none outlives the month after its own.
NextMonth ==
  /\ month + 1 \in Month
  /\ \A j \in Job : job[j] = Idle \/ job[j].tag = month
  /\ month' = month + 1
  /\ UNCHANGED <<live, assets, snapshotVars, restoreVars, faults>>

-----------------------------------------------------------------------------
Goto(j, pc, todo) == job' = [job EXCEPT ![j] = [@ EXCEPT !.pc = pc, !.todo = todo]]
Fetched(r, a) == [r EXCEPT !.todo = @ \ {a}, !.got = @ \cup {a}]
Ends(j) == job' = [job EXCEPT ![j] = Idle]

\* `pipeline snapshot`: the month is read from the clock, the manifest downloaded.
Snapshot(j) ==
  /\ job[j] = Idle
  /\ job' = [job EXCEPT ![j] =
       [pc |-> "download", tag |-> month, manifest |-> live, todo |-> Published[live], got |-> {}]]
  /\ UNCHANGED <<month, live, assets, tags, restoreVars, faults>>

\* Mutant: an asset that is gone is left out of the snapshot.
DownloadWhatIsThere(j) ==
  /\ job[j].pc = "download"
  /\ job[j].todo # {}
  /\ LET a == NextOf(job[j].todo)
     IN  IF a \in assets THEN job' = [job EXCEPT ![j] = Fetched(@, a)]
                         ELSE Goto(j, "download", job[j].todo \ {a})
  /\ UNCHANGED <<month, live, assets, tags, restoreVars, faults>>

\* Download and verify one asset the manifest names: it may be gone by now.
Download(j) ==
  /\ job[j].pc = "download"
  /\ job[j].todo # {}
  /\ LET a == NextOf(job[j].todo)
     IN  IF a \in assets THEN job' = [job EXCEPT ![j] = Fetched(@, a)] ELSE Ends(j)
  /\ UNCHANGED <<month, live, assets, tags, restoreVars, faults>>

\* A month that has its tag is refused.
CheckTag(j) ==
  /\ job[j].pc = "download"
  /\ job[j].todo = {}
  /\ IF tags[job[j].tag] # None THEN Ends(j) ELSE Goto(j, "create", {})
  /\ UNCHANGED <<month, live, assets, tags, restoreVars, faults>>

\* gh release create, which fails on a tag another job made meanwhile.
Create(j) ==
  /\ job[j].pc = "create"
  /\ IF tags[job[j].tag] # None
     THEN Ends(j) /\ UNCHANGED tags
     ELSE /\ Goto(j, "upload", job[j].got)
          /\ tags' = [tags EXCEPT ![job[j].tag] = Created]
  /\ UNCHANGED <<month, live, assets, restoreVars, faults>>

\* The manifest is uploaded first, then file after file.
Upload(j) ==
  /\ job[j].pc = "upload"
  /\ tags[job[j].tag] # None
  /\ IF tags[job[j].tag].manifest = None
     THEN /\ tags' = [tags EXCEPT ![job[j].tag].manifest = job[j].manifest]
          /\ UNCHANGED job
     ELSE /\ job[j].todo # {}
          /\ LET a == NextOf(job[j].todo)
             IN  /\ tags' = [tags EXCEPT ![job[j].tag].assets = @ \cup {a}]
                 /\ Goto(j, "upload", job[j].todo \ {a})
  /\ UNCHANGED <<month, live, assets, restoreVars, faults>>

Tags == {t \in Month : tags[t] # None}

\* Mutant: keep is one less than it says.
KeepOneLess(T) == {t \in T : Cardinality({u \in T : u > t}) + 1 >= KeepNewest}

\* Every snapshot tag but the newest `keep`.
ToDelete(T) == {t \in T : Cardinality({u \in T : u > t}) >= KeepNewest}

\* prune_snapshots, once the new snapshot is complete: list the releases, then
\* delete one after the other; a tag already gone is skipped.
ListTags(j) ==
  /\ job[j].pc = "upload"
  /\ job[j].todo = {}
  /\ Goto(j, "prune", ToDelete(Tags))
  /\ UNCHANGED <<month, live, assets, tags, restoreVars, faults>>

Delete(j) ==
  /\ job[j].pc = "prune"
  /\ IF job[j].todo = {} THEN Ends(j) /\ UNCHANGED tags
     ELSE LET t == Min(job[j].todo)
          IN  Goto(j, "prune", job[j].todo \ {t}) /\ tags' = [tags EXCEPT ![t] = None]
  /\ UNCHANGED <<month, live, assets, restoreVars, faults>>

\* A call fails, or the job is killed: `snapshot` exits 1 and nothing is undone.
FailJob(j) ==
  /\ job[j] # Idle
  /\ faults < MaxFaults
  /\ faults' = faults + 1
  /\ Ends(j)
  /\ UNCHANGED <<month, live, assets, tags, restoreVars>>

-----------------------------------------------------------------------------
\* `restore-from-snapshot --tag t`, into the directory of that tag.
Restore(t) ==
  /\ restore = Idle
  /\ At(t) # None
  /\ At(t).manifest # None
  /\ restore' = [pc |-> "verify", tag |-> t, manifest |-> At(t).manifest,
                 todo |-> Baselines(At(t).manifest), got |-> {}]
  /\ UNCHANGED <<month, live, assets, snapshotVars, target, faults>>

Place(t, a) == target' = [target EXCEPT ![t] = {b \in @ : b.ds # a.ds} \cup {a}]

\* Mutant: a file is put in place as soon as it has verified.
VerifyAndPlace ==
  /\ restore.pc = "verify"
  /\ restore.todo # {}
  /\ LET a == NextOf(restore.todo) IN
       IF At(restore.tag) # None /\ a \in At(restore.tag).assets
       THEN restore' = Fetched(restore, a) /\ Place(restore.tag, a)
       ELSE restore' = Idle /\ UNCHANGED target
  /\ UNCHANGED <<month, live, assets, snapshotVars, faults>>

\* Phase 1: download and verify one baseline; a missing one ends the restore.
Verify ==
  /\ restore.pc = "verify"
  /\ restore.todo # {}
  /\ LET a == NextOf(restore.todo) IN
       restore' = IF At(restore.tag) # None /\ a \in At(restore.tag).assets
                  THEN Fetched(restore, a)
                  ELSE Idle
  /\ UNCHANGED <<month, live, assets, snapshotVars, target, faults>>

\* Phase 2: put the verified files in place, one by one.
Materialize ==
  \/ /\ restore.pc = "verify" /\ restore.todo = {}
     /\ restore' = [restore EXCEPT !.pc = "place", !.todo = restore.got]
     /\ UNCHANGED <<month, live, assets, snapshotVars, target, faults>>
  \/ /\ restore.pc = "place"
     /\ LET a == NextOf(restore.todo) IN
          /\ Place(restore.tag, a)
          /\ restore' = IF restore.todo = {a} THEN Idle ELSE [restore EXCEPT !.todo = @ \ {a}]
     /\ UNCHANGED <<month, live, assets, snapshotVars, faults>>

\* A failure in phase 2 leaves the directory as it is and says so.
FailRestore ==
  /\ restore.pc \in {"verify", "place"}
  /\ faults < MaxFaults
  /\ faults' = faults + 1
  /\ restore' = IF restore.pc = "place" THEN [restore EXCEPT !.pc = "torn"] ELSE Idle
  /\ UNCHANGED <<month, live, assets, snapshotVars, target>>

\* "delete the partial target and re-run"
Clear ==
  /\ restore.pc = "torn"
  /\ target' = [target EXCEPT ![restore.tag] = {}]
  /\ restore' = Idle
  /\ UNCHANGED <<month, live, assets, snapshotVars, faults>>

Next ==
  \/ Flip \/ Collect \/ NextMonth
  \/ \E j \in Job :
       \/ Snapshot(j) \/ Download(j) \/ CheckTag(j) \/ Create(j)
       \/ Upload(j) \/ ListTags(j) \/ Delete(j) \/ FailJob(j)
  \/ \E t \in Restored : Restore(t)
  \/ Verify \/ Materialize \/ FailRestore \/ Clear

Spec == Init /\ [][Next]_vars

-----------------------------------------------------------------------------
\* Every variable stays in its type.
TypeOK ==
  /\ month \in Month /\ live \in DOMAIN Published
  /\ assets \subseteq UNION {Published[m] : m \in 1..live}
  /\ \A t \in Tags : tags[t].manifest \in (1..live) \cup {None} /\ t <= month
  /\ \A j \in Job : job[j].pc \in {"idle", "download", "create", "upload", "prune"}
  /\ restore.pc \in {"idle", "verify", "place", "torn"}
  /\ faults \in 0..MaxFaults

\* A recovery point: a manifest that was live, with everything it names.
Whole(t) ==
  tags[t] # None /\ tags[t].manifest # None /\ tags[t].assets = Published[tags[t].manifest]

\* A recovery point never changes, and it goes only when `keep` newer snapshots
\* have been taken, whoever prunes and however stale the list he prunes by.
\* (snapshot.py: "a snapshot, once created, must never change".)
RecoveryPointsSurvive ==
  [][\A t \in Month : Whole(t) =>
       \/ tags'[t] = tags[t]
       \/ tags'[t] = None /\ Cardinality({u \in Tags : u > t}) >= KeepNewest]_vars

\* A month is lost for good (its tag is refused a second time, and counts among
\* the kept ones) only to a failure: never to another job, to a publish or to
\* garbage collection while the snapshot copies.
OnlyAFailureCostsAMonth ==
  Cardinality({t \in Tags : ~Whole(t) /\ \A j \in Job : ~(job[j].pc = "upload" /\ job[j].tag = t)})
    <= faults

\* A restore lands all baselines of a manifest that was live, or none: also from
\* a partial tag, a tag pruned under it, or a release that moves on.  Only what
\* failed in phase 2 is torn, until the operator clears it.
RestoreIsAllOrNothing ==
  \A t \in Restored :
    \/ restore.tag = t /\ restore.pc \in {"place", "torn"}
    \/ target[t] = {}
    \/ \E m \in 1..live : Baselines(m) \subseteq target[t]
=============================================================================
