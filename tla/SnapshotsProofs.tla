-------------------------- MODULE SnapshotsProofs --------------------------
(***************************************************************************)
(* Theorems about Snapshots, for any months, manifests and jobs.  A tag    *)
(* belongs to the job that made it until its snapshot is whole, since no   *)
(* job has a tag old enough to be pruned; and what is on a list of tags to *)
(* prune still has `keep` newer ones, however old the list.                *)
(***************************************************************************)
EXTENDS Snapshots, FiniteSetTheorems, WellFoundedInduction, TLAPS

Release == [manifest: Nat \cup {None}, assets: SUBSET Asset]
Work == [pc: {"idle", "download", "create", "upload", "prune"}, tag: Month \cup {Latest},
         manifest: Nat \cup {None}, todo: SUBSET (Asset \cup Month), got: SUBSET Asset]
Restoring == [pc: {"idle", "verify", "place", "torn"}, tag: Month \cup {Latest},
              manifest: Nat \cup {None}, todo: SUBSET Asset, got: SUBSET Asset]

TypeInv ==
  /\ month \in Month /\ live \in DOMAIN Published
  /\ assets \subseteq UNION {Published[m] : m \in 1..live}
  /\ tags \in [Month -> Release \cup {None}]
  /\ \A t \in Tags : t <= month /\ tags[t].manifest \in (1..live \cap DOMAIN Published) \cup {None}
  /\ job \in [Job -> Work]
  /\ restore \in Restoring
  /\ target \in [Restored -> SUBSET Asset]
  /\ faults \in 0..MaxFaults

\* The tags that are newer than t.
Newer(t) == {u \in Tags : u > t}

\* What a job has done and has still to do, in each phase.
Working(j) ==
  /\ job[j].pc = "idle" => job[j] = Idle
  /\ job[j].pc # "idle" =>
       /\ job[j].tag \in Month /\ job[j].tag <= month /\ month <= job[j].tag + 1
       /\ job[j].manifest \in 1..live \cap DOMAIN Published
  /\ job[j].pc = "download" => job[j].got \cup job[j].todo = Published[job[j].manifest]
  /\ job[j].pc = "create" => job[j].got = Published[job[j].manifest]

\* A tag whose upload is on has one job at it, and what that job read.
Uploading(j) ==
  job[j].pc = "upload" =>
    /\ tags[job[j].tag] # None
    /\ tags[job[j].tag].manifest \in {None, job[j].manifest}
    /\ tags[job[j].tag].manifest = None => job[j].todo # {}
    /\ tags[job[j].tag].assets \cup job[j].todo = Published[job[j].manifest]
    /\ \A k \in Job : k # j /\ job[k].pc = "upload" => job[k].tag # job[j].tag

\* A list of tags to prune may be old; what is on it has enough newer ones, and
\* is older than any job's tag.
Pruning(j) ==
  job[j].pc = "prune" =>
    /\ job[j].todo \subseteq Month
    /\ \A t \in job[j].todo : t + 1 < month /\ Cardinality(Newer(t)) >= KeepNewest

SnapshotInvariant ==
  /\ TypeInv
  /\ \A j \in Job : Working(j) /\ Uploading(j) /\ Pruning(j)
\* What a restore has verified and placed.
RestoreInvariant ==
  /\ restore.pc = "idle" => restore = Idle
  /\ restore.pc # "idle" =>
       restore.tag \in Restored /\ restore.manifest \in 1..live \cap DOMAIN Published
  /\ restore.pc = "verify" => restore.got \cup restore.todo = Baselines(restore.manifest)
  /\ restore.pc = "place" =>
       /\ restore.got = Baselines(restore.manifest)
       /\ restore.todo \subseteq restore.got /\ restore.todo # {}
       /\ restore.got \ restore.todo \subseteq target[restore.tag]
  /\ RestoreIsAllOrNothing
-----------------------------------------------------------------------------
LEMMA NextOfIsIn ==
  ASSUME NEW S, S # {} PROVE NextOf(S) \in S
BY DEF NextOf

\* The order of the months.
Before == {p \in Nat \X Nat : p[1] < p[2]}

LEMMA OldestIsIn ==
  ASSUME NEW S, S \subseteq Nat, S # {} PROVE Min(S) \in S
<1>1. \E x \in S : \A y \in S : <<y, x>> \notin Before
  <2>1. Before = OpToRel(<, Nat)
    BY DEF OpToRel, Before
  <2>2. IsWellFoundedOn(Before, Nat)
    BY <2>1, NatLessThanWellFounded
  <2> QED BY <2>2, WFMin
<1>2. \E x \in S : \A y \in S : x <= y
  <2>1. PICK x \in S : \A y \in S : <<y, x>> \notin Before
    BY <1>1
  <2>2. ASSUME NEW y \in S PROVE x <= y
    <3>1. x \in Nat /\ y \in Nat /\ <<y, x>> \notin Before
      BY <2>1
    <3>2. <<y, x>> \in Before <=> y < x
      BY <3>1 DEF Before
    <3> QED BY <3>1, <3>2
  <2> QED BY <2>2
<1> QED BY <1>2 DEF Min

\* The tags are finitely many.
LEMMA NewerIsFinite ==
  ASSUME SnapshotAssumptions, NEW t
  PROVE  /\ IsFiniteSet(Newer(t))
         /\ Cardinality(Newer(t)) \in Nat
<1>1. IsFiniteSet(Month) /\ Newer(t) \in SUBSET Month
  BY DEF SnapshotAssumptions, Newer, Tags
<1> QED BY <1>1, FS_Subset, FS_CardinalityType

LEMMA MoreIsMore ==
  ASSUME SnapshotAssumptions, NEW S \in SUBSET Month, NEW T \in SUBSET S
  PROVE  Cardinality(S) \in Nat /\ Cardinality(T) \in Nat /\ Cardinality(T) <= Cardinality(S)
<1>1. IsFiniteSet(Month)
  BY DEF SnapshotAssumptions
<1>2. IsFiniteSet(S)
  BY <1>1, FS_Subset
<1> QED BY <1>2, FS_Subset, FS_CardinalityType

\* What has two newer tags is older than last month's.
LEMMA PrunedIsOld ==
  ASSUME SnapshotAssumptions, TypeInv, NEW t \in Month,
         Cardinality(Newer(t)) >= KeepNewest
  PROVE  t + 1 < month
<1> SUFFICES ASSUME ~(t + 1 < month) PROVE FALSE
  OBVIOUS
<1>1. t \in Nat /\ month \in Nat /\ KeepNewest >= 2 /\ KeepNewest \in Nat
  BY DEF SnapshotAssumptions, TypeInv
<1>2. Newer(t) \in SUBSET {month}
  <2>1. \A u \in Newer(t) : u \in Nat /\ u > t /\ u <= month
    BY DEF Newer, Tags, TypeInv, SnapshotAssumptions
  <2> QED BY <1>1, <2>1
<1>3. IsFiniteSet({month}) /\ Cardinality({month}) = 1
  BY FS_Singleton
<1>4. Cardinality(Newer(t)) <= 1
  BY <1>2, <1>3, FS_Subset
<1> QED BY <1>1, <1>4, NewerIsFinite

\* The invariant at the start.
LEMMA SnapshotsInit == SnapshotAssumptions /\ Init => SnapshotInvariant
<1> SUFFICES ASSUME SnapshotAssumptions, Init PROVE SnapshotInvariant
  OBVIOUS
<1>1. TypeInv
  BY DEF SnapshotAssumptions, Init, TypeInv, Tags, Work, Restoring, Idle, Latest, Asset, Release
<1>2. \A j \in Job : job[j] = Idle
  BY DEF Init
<1>3. ASSUME NEW j \in Job PROVE Working(j) /\ Uploading(j) /\ Pruning(j)
  <2>1. job[j] = Idle /\ job[j].pc = "idle"
    BY <1>2, <1>3 DEF Idle
  <2> QED BY <2>1 DEF Working, Uploading, Pruning
<1> QED BY <1>1, <1>3 DEF SnapshotInvariant

-----------------------------------------------------------------------------
LEMMA LiveIsPublished ==
  ASSUME SnapshotAssumptions, TypeInv
  PROVE  /\ month \in Month /\ month \in Nat
         /\ live \in Nat /\ live \in 1..live \cap DOMAIN Published
<1>1. month \in Month /\ live \in DOMAIN Published
  BY DEF TypeInv
<1>2. month \in Nat /\ live \in Nat \ {0}
  BY <1>1 DEF SnapshotAssumptions
<1>3. live \in 1..live
  BY <1>2
<1> QED BY <1>1, <1>2, <1>3

\* The steps of the producers and of the calendar.
LEMMA AroundKeeps ==
  ASSUME SnapshotAssumptions, SnapshotInvariant, Flip \/ Collect \/ NextMonth
  PROVE  SnapshotInvariant'
<1>1. UNCHANGED <<tags, job, restore, target, faults>> /\ Tags' = Tags
  BY DEF Flip, Collect, NextMonth, snapshotVars, restoreVars, Tags
<1>2. live' \in DOMAIN Published /\ 1..live \subseteq 1..live' /\ live <= live' /\ live \in Nat
  BY DEF Flip, Collect, NextMonth, SnapshotInvariant, TypeInv, SnapshotAssumptions
<1>3. month' \in Month /\ month' \in Nat /\ month \in Nat /\ month <= month' /\ month' <= month + 1
  BY DEF Flip, Collect, NextMonth, SnapshotInvariant, TypeInv, SnapshotAssumptions
<1>4. assets' \subseteq UNION {Published[m] : m \in 1..live'}
  <2>1. CASE Flip
    BY <1>2, <2>1 DEF Flip, SnapshotInvariant, TypeInv, SnapshotAssumptions
  <2>2. CASE Collect
    BY <1>2, <2>2 DEF Collect, SnapshotInvariant, TypeInv, SnapshotAssumptions
  <2>3. CASE NextMonth
    BY <2>3 DEF NextMonth, SnapshotInvariant, TypeInv
  <2> QED BY <2>1, <2>2, <2>3
<1>5. \A t \in Tags : t \in Nat
  BY DEF Tags, SnapshotAssumptions
<1>6. TypeInv'
  BY <1>1, <1>2, <1>3, <1>4, <1>5 DEF SnapshotInvariant, TypeInv
<1>7. ASSUME NEW j \in Job PROVE (Working(j) /\ Uploading(j) /\ Pruning(j))'
  <2>1. Working(j)'
    <3>1. Working(j) /\ (job[j].pc # "idle" => job[j].tag \in Nat)
      BY DEF SnapshotInvariant, Working, SnapshotAssumptions
    <3>2. job[j].pc # "idle" => month' <= job[j].tag + 1
      <4>1. CASE NextMonth
        BY <1>3, <3>1, <4>1 DEF NextMonth, Idle
      <4>2. CASE UNCHANGED month
        BY <3>1, <4>2 DEF Working
      <4> QED BY <4>1, <4>2 DEF Flip, Collect
    <3>3. job[j].pc # "idle" => job[j].tag <= month'
      BY <1>3, <3>1 DEF Working
    <3> QED BY <1>1, <1>2, <3>1, <3>2, <3>3 DEF Working
  <2>2. Uploading(j)'
    BY <1>1 DEF SnapshotInvariant, Uploading
  <2>3. Pruning(j)'
    <3>1. \A t : Newer(t)' = Newer(t)
      BY <1>1 DEF Newer
    <3>2. ASSUME job[j].pc = "prune", NEW t \in job[j].todo PROVE t + 1 < month'
      <4>1. t \in Month /\ t + 1 < month
        BY <3>2 DEF SnapshotInvariant, Pruning
      <4>2. t \in Nat
        BY <4>1 DEF SnapshotAssumptions
      <4> QED BY <1>3, <4>1, <4>2
    <3> QED BY <1>1, <3>1, <3>2 DEF SnapshotInvariant, Pruning
  <2> QED BY <2>1, <2>2, <2>3
<1> QED BY <1>6, <1>7 DEF SnapshotInvariant

\* A step of one job that leaves the tags alone leaves the other jobs right.
LEMMA OtherJobsKept ==
  ASSUME SnapshotInvariant, NEW j \in Job, NEW r \in Work,
         job' = [job EXCEPT ![j] = r], UNCHANGED <<month, live, assets, tags, restore, target>>,
         faults' \in 0..MaxFaults,
         r.pc = "upload" => job[j].pc = "upload" /\ r.tag = job[j].tag
  PROVE  /\ TypeInv' /\ job'[j] = r /\ Tags' = Tags
         /\ \A k \in Job : k # j => (Working(k) /\ Uploading(k) /\ Pruning(k))'
<1>1. job \in [Job -> Work] /\ job'[j] = r /\ Tags' = Tags
  BY DEF SnapshotInvariant, TypeInv, Tags
<1>2. TypeInv'
  BY <1>1 DEF SnapshotInvariant, TypeInv
<1>3. ASSUME NEW k \in Job, k # j PROVE (Working(k) /\ Uploading(k) /\ Pruning(k))'
  <2>1. job'[k] = job[k]
    BY <1>1, <1>3
  <2>2. Working(k)'
    BY <2>1 DEF SnapshotInvariant, Working
  <2>3. Uploading(k)'
    <3>1. \A i \in Job : job'[i].pc = "upload" => job[i].pc = "upload" /\ job'[i].tag = job[i].tag
      BY <1>1
    <3> QED BY <2>1, <3>1 DEF SnapshotInvariant, Uploading
  <2>4. Pruning(k)'
    <3>1. \A t : Newer(t)' = Newer(t)
      BY <1>1 DEF Newer
    <3> QED BY <2>1, <3>1 DEF SnapshotInvariant, Pruning
  <2> QED BY <2>2, <2>3, <2>4
<1> QED BY <1>1, <1>2, <1>3

\* A job that ends.
LEMMA EndKeeps ==
  ASSUME SnapshotAssumptions, SnapshotInvariant, NEW j \in Job, Ends(j),
         UNCHANGED <<month, live, assets, tags, restore, target>>, faults' \in 0..MaxFaults
  PROVE  SnapshotInvariant'
<1>1. Idle \in Work /\ Idle.pc = "idle"
  BY DEF Idle, Work
<1>2. job' = [job EXCEPT ![j] = Idle]
  BY DEF Ends
<1>3. /\ TypeInv' /\ job'[j] = Idle
      /\ \A k \in Job : k # j => (Working(k) /\ Uploading(k) /\ Pruning(k))'
  BY <1>1, <1>2, OtherJobsKept
<1>4. (Working(j) /\ Uploading(j) /\ Pruning(j))'
  BY <1>1, <1>3 DEF Working, Uploading, Pruning
<1> QED BY <1>3, <1>4 DEF SnapshotInvariant

LEMMA SnapshotKeeps ==
  ASSUME SnapshotAssumptions, SnapshotInvariant, NEW j \in Job, Snapshot(j)
  PROVE  SnapshotInvariant'
<1> DEFINE r == [pc |-> "download", tag |-> month, manifest |-> live,
                 todo |-> Published[live], got |-> {}]
<1>1. month \in Month /\ live \in 1..live \cap DOMAIN Published /\ month \in Nat /\ live \in Nat
  BY LiveIsPublished DEF SnapshotInvariant
<1>2. r \in Work
  BY <1>1 DEF Work, Asset
<1>3. job' = [job EXCEPT ![j] = r] /\ UNCHANGED <<month, live, assets, tags, restore, target, faults>>
  BY DEF Snapshot, restoreVars
<1>4. faults' \in 0..MaxFaults
  BY <1>3 DEF SnapshotInvariant, TypeInv
<1>5. r.pc = "download" /\ r.tag = month /\ r.manifest = live /\ r.todo = Published[live] /\ r.got = {}
  OBVIOUS
<1> HIDE DEF r
<1>6. /\ TypeInv' /\ job'[j] = r
      /\ \A k \in Job : k # j => (Working(k) /\ Uploading(k) /\ Pruning(k))'
  BY <1>2, <1>3, <1>4, <1>5, OtherJobsKept
<1>7. (Working(j) /\ Uploading(j) /\ Pruning(j))'
  BY <1>1, <1>3, <1>5, <1>6 DEF Working, Uploading, Pruning
<1> QED BY <1>6, <1>7 DEF SnapshotInvariant

LEMMA DownloadKeeps ==
  ASSUME SnapshotAssumptions, SnapshotInvariant, NEW j \in Job, Download(j)
  PROVE  SnapshotInvariant'
<1> DEFINE a == NextOf(job[j].todo)
           r == Fetched(job[j], a)
<1>1. UNCHANGED <<month, live, assets, tags, restore, target, faults>>
  BY DEF Download, restoreVars
<1>2. faults' \in 0..MaxFaults /\ job[j] \in Work /\ Working(j)
  BY <1>1 DEF SnapshotInvariant, TypeInv
<1>3. CASE Ends(j)
  BY <1>1, <1>2, <1>3, EndKeeps
<1>4. CASE job' = [job EXCEPT ![j] = r]
  <2>1. a \in job[j].todo
    BY NextOfIsIn DEF Download
  <2>2. job[j].pc = "download"
    BY DEF Download
  <2>3. job[j].got \cup job[j].todo = Published[job[j].manifest] /\ job[j].manifest \in DOMAIN Published
    BY <1>2, <2>2 DEF Working
  <2>4. a \in Asset
    BY <2>1, <2>3 DEF Asset
  <2>5. r \in Work /\ r.pc = "download" /\ r.tag = job[j].tag /\ r.manifest = job[j].manifest
        /\ r.got = job[j].got \cup {a} /\ r.todo = job[j].todo \ {a}
    BY <1>2, <2>2, <2>4 DEF Fetched, Work
  <2>6. r.got \cup r.todo = Published[r.manifest]
    BY <2>1, <2>3, <2>5
  <2> HIDE DEF r
  <2>7. /\ TypeInv' /\ job'[j] = r
        /\ \A k \in Job : k # j => (Working(k) /\ Uploading(k) /\ Pruning(k))'
    BY <1>1, <1>2, <1>4, <2>5, OtherJobsKept
  <2>8. (Working(j) /\ Uploading(j) /\ Pruning(j))'
    BY <1>1, <1>2, <2>2, <2>5, <2>6, <2>7 DEF Working, Uploading, Pruning
  <2> QED BY <2>7, <2>8 DEF SnapshotInvariant
<1> QED BY <1>3, <1>4 DEF Download

LEMMA CheckTagKeeps ==
  ASSUME SnapshotAssumptions, SnapshotInvariant, NEW j \in Job, CheckTag(j)
  PROVE  SnapshotInvariant'
<1> DEFINE r == [job[j] EXCEPT !.pc = "create", !.todo = {}]
<1>1. UNCHANGED <<month, live, assets, tags, restore, target, faults>>
  BY DEF CheckTag, restoreVars
<1>2. faults' \in 0..MaxFaults /\ job[j] \in Work /\ Working(j)
  BY <1>1 DEF SnapshotInvariant, TypeInv
<1>3. CASE Ends(j)
  BY <1>1, <1>2, <1>3, EndKeeps
<1>4. CASE job' = [job EXCEPT ![j] = r]
  <2>1. job[j].pc = "download" /\ job[j].todo = {}
    BY DEF CheckTag
  <2>2. job[j].got = Published[job[j].manifest]
    BY <1>2, <2>1 DEF Working
  <2>3. r \in Work /\ r.pc = "create" /\ r.tag = job[j].tag /\ r.manifest = job[j].manifest
        /\ r.got = job[j].got
    BY <1>2 DEF Work
  <2> HIDE DEF r
  <2>4. /\ TypeInv' /\ job'[j] = r
        /\ \A k \in Job : k # j => (Working(k) /\ Uploading(k) /\ Pruning(k))'
    BY <1>1, <1>2, <1>4, <2>3, OtherJobsKept
  <2>5. (Working(j) /\ Uploading(j) /\ Pruning(j))'
    BY <1>1, <1>2, <2>1, <2>2, <2>3, <2>4 DEF Working, Uploading, Pruning
  <2> QED BY <2>4, <2>5 DEF SnapshotInvariant
<1> QED BY <1>3, <1>4 DEF CheckTag, Goto

\* A list of tags is made once the upload is whole: all of them are old.
LEMMA ListTagsKeeps ==
  ASSUME SnapshotAssumptions, SnapshotInvariant, NEW j \in Job, ListTags(j)
  PROVE  SnapshotInvariant'
<1> DEFINE r == [job[j] EXCEPT !.pc = "prune", !.todo = ToDelete(Tags)]
<1>1. UNCHANGED <<month, live, assets, tags, restore, target, faults>>
  BY DEF ListTags, restoreVars
<1>2. faults' \in 0..MaxFaults /\ job[j] \in Work /\ Working(j) /\ job[j].pc = "upload"
  BY <1>1 DEF SnapshotInvariant, TypeInv, ListTags
<1>3. ToDelete(Tags) \subseteq Month /\ \A t \in ToDelete(Tags) : Cardinality(Newer(t)) >= KeepNewest
  BY DEF ToDelete, Tags, Newer
<1>4. r \in Work /\ r.pc = "prune" /\ r.tag = job[j].tag /\ r.manifest = job[j].manifest
      /\ r.todo = ToDelete(Tags)
  BY <1>2, <1>3 DEF Work
<1>5. job' = [job EXCEPT ![j] = r]
  BY DEF ListTags, Goto
<1> HIDE DEF r
<1>6. /\ TypeInv' /\ job'[j] = r /\ Tags' = Tags
      /\ \A k \in Job : k # j => (Working(k) /\ Uploading(k) /\ Pruning(k))'
  BY <1>1, <1>2, <1>4, <1>5, OtherJobsKept
<1>7. Working(j)' /\ Uploading(j)'
  BY <1>1, <1>2, <1>4, <1>6 DEF Working, Uploading
<1>8. Pruning(j)'
  <2>1. \A t \in r.todo : t \in Month /\ Cardinality(Newer(t)') >= KeepNewest
    BY <1>3, <1>4, <1>6 DEF Newer
  <2>2. \A t \in r.todo : t + 1 < month
    BY <1>3, <1>4, PrunedIsOld DEF SnapshotInvariant
  <2> QED BY <1>1, <1>4, <1>6, <2>1, <2>2 DEF Pruning
<1> QED BY <1>6, <1>7, <1>8 DEF SnapshotInvariant

LEMMA FailJobKeeps ==
  ASSUME SnapshotAssumptions, SnapshotInvariant, NEW j \in Job, FailJob(j)
  PROVE  SnapshotInvariant'
<1>1. UNCHANGED <<month, live, assets, tags, restore, target>> /\ Ends(j)
  BY DEF FailJob, restoreVars
<1>2. faults' \in 0..MaxFaults
  BY DEF FailJob, SnapshotInvariant, TypeInv, SnapshotAssumptions
<1> QED BY <1>1, <1>2, EndKeeps

\* A tag that is made is nobody else's.
LEMMA CreateKeeps ==
  ASSUME SnapshotAssumptions, SnapshotInvariant, NEW j \in Job, Create(j)
  PROVE  SnapshotInvariant'
<1> DEFINE tag == job[j].tag
<1>1. UNCHANGED <<month, live, assets, restore, target, faults>> /\ faults' \in 0..MaxFaults
  BY DEF Create, restoreVars, SnapshotInvariant, TypeInv
<1>2. CASE tags[tag] # None
  BY <1>1, <1>2, EndKeeps DEF Create
<1>3. CASE tags[tag] = None
  <2> DEFINE r == [job[j] EXCEPT !.pc = "upload", !.todo = job[j].got]
  <2>1. /\ job' = [job EXCEPT ![j] = r] /\ tags' = [tags EXCEPT ![tag] = Created]
        /\ job[j].pc = "create"
    BY <1>3 DEF Create, Goto
  <2>2. /\ tags \in [Month -> Release \cup {None}] /\ job \in [Job -> Work] /\ job[j] \in Work
        /\ Working(j) /\ None \notin Release /\ TypeInv
    BY DEF SnapshotInvariant, TypeInv, SnapshotAssumptions, Release
  <2>3. /\ tag \in Month /\ tag <= month /\ job[j].manifest \in 1..live \cap DOMAIN Published
        /\ month <= tag + 1 /\ job[j].got = Published[job[j].manifest]
    BY <2>1, <2>2 DEF Working
  <2>4. Created \in Release /\ Created # None /\ Created.manifest = None /\ Created.assets = {}
    BY <2>2 DEF Created, Release
  <2>5. tags'[tag] = Created /\ \A t \in Month : t # tag => tags'[t] = tags[t]
    BY <2>1, <2>2, <2>3
  <2>6. Tags' = Tags \cup {tag} /\ tags' \in [Month -> Release \cup {None}]
    BY <2>1, <2>2, <2>3, <2>4, <2>5 DEF Tags
  <2>7. /\ r \in Work /\ r.pc = "upload" /\ r.tag = tag /\ r.manifest = job[j].manifest
        /\ r.todo = job[j].got
    BY <2>2 DEF Work
  <2> HIDE DEF r
  <2>8. job'[j] = r /\ job' \in [Job -> Work] /\ \A k \in Job : k # j => job'[k] = job[k]
    BY <2>1, <2>2, <2>7
  <2>9. TypeInv'
    <3>1. \A t \in Tags' : t <= month' /\ tags'[t].manifest \in (1..live' \cap DOMAIN Published) \cup {None}
      BY <1>1, <2>2, <2>3, <2>4, <2>5, <2>6 DEF TypeInv, Tags
    <3> QED BY <1>1, <2>2, <2>6, <2>8, <3>1 DEF TypeInv
  <2>10. ASSUME NEW k \in Job PROVE Working(k)'
    <3>1. CASE k # j
      BY <1>1, <2>8, <3>1 DEF SnapshotInvariant, Working
    <3>2. CASE k = j
      BY <1>1, <2>3, <2>7, <2>8, <3>2 DEF Working
    <3> QED BY <3>1, <3>2
  <2>11. ASSUME NEW k \in Job PROVE Uploading(k)'
    <3>1. \A i \in Job : i # j /\ job[i].pc = "upload" => job[i].tag # tag /\ job[i].tag \in Month
      BY <1>3 DEF SnapshotInvariant, Uploading, Working
    <3>2. CASE k # j
      <4>1. Uploading(k) /\ job'[k] = job[k]
        BY <2>8, <3>2 DEF SnapshotInvariant
      <4>2. job[k].pc = "upload" => tags'[job[k].tag] = tags[job[k].tag]
        BY <2>5, <3>1, <3>2
      <4> QED BY <2>7, <2>8, <3>1, <3>2, <4>1, <4>2 DEF Uploading
    <3>3. CASE k = j
      <4>1. Published[job[j].manifest] # {}
        BY <2>3 DEF SnapshotAssumptions, Baselines
      <4> QED BY <2>3, <2>4, <2>5, <2>7, <2>8, <3>1, <3>3, <4>1 DEF Uploading
    <3> QED BY <3>2, <3>3
  <2>12. ASSUME NEW k \in Job PROVE Pruning(k)'
    <3>1. CASE k # j
      <4>1. Pruning(k) /\ job'[k] = job[k]
        BY <2>8, <3>1 DEF SnapshotInvariant
      <4>2. \A t : Newer(t) \subseteq Newer(t)' /\ Newer(t)' \subseteq Month
        BY <2>3, <2>6 DEF Newer, Tags
      <4>3. \A t : Cardinality(Newer(t)) >= KeepNewest => Cardinality(Newer(t)') >= KeepNewest
        BY <4>2, MoreIsMore DEF SnapshotAssumptions
      <4> QED BY <1>1, <4>1, <4>3 DEF Pruning
    <3>2. CASE k = j
      BY <2>7, <2>8, <3>2 DEF Pruning
    <3> QED BY <3>1, <3>2
  <2> QED BY <2>9, <2>10, <2>11, <2>12 DEF SnapshotInvariant
<1> QED BY <1>2, <1>3

\* What an upload leaves of its tag: the manifest, and one file more.
LEMMA UploadStep ==
  ASSUME SnapshotAssumptions, SnapshotInvariant, NEW j \in Job, Upload(j)
  PROVE  /\ job[j].pc = "upload" /\ job[j].tag \in Month
         /\ tags[job[j].tag] \in Release /\ tags'[job[j].tag] \in Release /\ None \notin Release
         /\ \A t \in Month : t # job[j].tag => tags'[t] = tags[t]
         /\ tags' \in [Month -> Release \cup {None}] /\ Tags' = Tags
         /\ job' \in [Job -> Work] /\ \A k \in Job : k # j => job'[k] = job[k]
         /\ job'[j].pc = "upload" /\ job'[j].tag = job[j].tag /\ job'[j].manifest = job[j].manifest
         /\ tags'[job[j].tag].manifest = job[j].manifest
         /\ tags'[job[j].tag].assets \cup job'[j].todo = Published[job[j].manifest]
         /\ tags[job[j].tag].assets \subseteq tags'[job[j].tag].assets
         /\ tags[job[j].tag].manifest # None => tags'[job[j].tag].assets \subseteq Published[job[j].manifest]
<1> DEFINE tag == job[j].tag
           a == NextOf(job[j].todo)
<1>1. /\ tags \in [Month -> Release \cup {None}] /\ job \in [Job -> Work] /\ job[j] \in Work
      /\ Working(j) /\ Uploading(j) /\ None \notin Release
  BY DEF SnapshotInvariant, TypeInv, SnapshotAssumptions, Release
<1>2. /\ tag \in Month /\ tags[tag] # None /\ tags[tag] \in Release /\ job[j].pc = "upload"
      /\ job[j].manifest \in DOMAIN Published /\ job[j].manifest \in Nat
      /\ tags[tag].manifest \in {None, job[j].manifest}
      /\ tags[tag].assets \cup job[j].todo = Published[job[j].manifest]
  BY <1>1 DEF Upload, Working, Uploading, SnapshotAssumptions
<1>3. CASE tags[tag].manifest = None
  <2>1. tags' = [tags EXCEPT ![tag].manifest = job[j].manifest] /\ job' = job
    BY <1>3 DEF Upload
  <2>2. /\ tags'[tag] = [tags[tag] EXCEPT !.manifest = job[j].manifest]
        /\ \A t \in Month : t # tag => tags'[t] = tags[t]
    BY <1>1, <1>2, <2>1
  <2>3. /\ tags'[tag] \in Release /\ tags'[tag].manifest = job[j].manifest
        /\ tags'[tag].assets = tags[tag].assets
    BY <1>2, <2>2 DEF Release
  <2>4. tags' \in [Month -> Release \cup {None}] /\ Tags' = Tags
    BY <1>1, <1>2, <2>1, <2>2, <2>3 DEF Tags
  <2> QED BY <1>1, <1>2, <1>3, <2>1, <2>2, <2>3, <2>4
<1>4. CASE tags[tag].manifest # None
  <2>1. /\ tags' = [tags EXCEPT ![tag].assets = @ \cup {a}] /\ job[j].todo # {}
        /\ job' = [job EXCEPT ![j] = [@ EXCEPT !.pc = "upload", !.todo = job[j].todo \ {a}]]
    BY <1>4 DEF Upload, Goto
  <2>2. a \in job[j].todo
    BY <2>1, NextOfIsIn
  <2>3. a \in Asset
    BY <1>2, <2>2 DEF Asset
  <2> HIDE DEF a
  <2>4. /\ tags'[tag] = [tags[tag] EXCEPT !.assets = @ \cup {a}]
        /\ \A t \in Month : t # tag => tags'[t] = tags[t]
    BY <1>1, <1>2, <2>1
  <2>5. /\ tags'[tag] \in Release /\ tags'[tag].manifest = tags[tag].manifest
        /\ tags'[tag].assets = tags[tag].assets \cup {a}
    BY <1>2, <2>3, <2>4 DEF Release
  <2>6. tags' \in [Month -> Release \cup {None}] /\ Tags' = Tags
    BY <1>1, <1>2, <2>1, <2>4, <2>5 DEF Tags
  <2>7. /\ job'[j] = [job[j] EXCEPT !.pc = "upload", !.todo = job[j].todo \ {a}]
        /\ \A k \in Job : k # j => job'[k] = job[k]
    BY <1>1, <2>1
  <2>8. /\ job'[j] \in Work /\ job'[j].pc = "upload" /\ job'[j].tag = tag
        /\ job'[j].manifest = job[j].manifest /\ job'[j].todo = job[j].todo \ {a}
    BY <1>1, <2>7 DEF Work
  <2>9. job' \in [Job -> Work]
    BY <1>1, <2>1, <2>7, <2>8
  <2>10. tags'[tag].assets \cup job'[j].todo = Published[job[j].manifest]
         /\ tags'[tag].assets \subseteq Published[job[j].manifest]
    BY <1>2, <2>2, <2>5, <2>8
  <2> QED BY <1>1, <1>2, <1>4, <2>4, <2>5, <2>6, <2>7, <2>8, <2>9, <2>10
<1> QED BY <1>3, <1>4

LEMMA UploadKeeps ==
  ASSUME SnapshotAssumptions, SnapshotInvariant, NEW j \in Job, Upload(j)
  PROVE  SnapshotInvariant'
<1>1. UNCHANGED <<month, live, assets, restore, target, faults>>
  BY DEF Upload, restoreVars
<1>2. /\ job[j].pc = "upload" /\ job[j].tag \in Month
      /\ \A t \in Month : t # job[j].tag => tags'[t] = tags[t]
      /\ tags'[job[j].tag] \in Release /\ None \notin Release
      /\ tags' \in [Month -> Release \cup {None}] /\ Tags' = Tags
      /\ job' \in [Job -> Work] /\ \A k \in Job : k # j => job'[k] = job[k]
      /\ job'[j].pc = "upload" /\ job'[j].tag = job[j].tag /\ job'[j].manifest = job[j].manifest
      /\ tags'[job[j].tag].manifest = job[j].manifest
      /\ tags'[job[j].tag].assets \cup job'[j].todo = Published[job[j].manifest]
  BY UploadStep
<1>3. Working(j) /\ job[j].manifest \in 1..live \cap DOMAIN Published /\ job[j].manifest # None
  BY <1>2 DEF SnapshotInvariant, Working, SnapshotAssumptions
<1>4. TypeInv'
  <2>1. \A t \in Tags' : t <= month' /\ tags'[t].manifest \in (1..live' \cap DOMAIN Published) \cup {None}
    BY <1>1, <1>2, <1>3 DEF SnapshotInvariant, TypeInv, Tags
  <2> QED BY <1>1, <1>2, <2>1 DEF SnapshotInvariant, TypeInv
<1>5. ASSUME NEW k \in Job PROVE Working(k)'
  <2>1. CASE k # j
    BY <1>1, <1>2, <2>1 DEF SnapshotInvariant, Working
  <2>2. CASE k = j
    BY <1>1, <1>2, <1>3, <2>2 DEF Working
  <2> QED BY <2>1, <2>2
<1>6. ASSUME NEW k \in Job PROVE Uploading(k)'
  <2>1. \A i \in Job : (job'[i].pc = "upload") = (job[i].pc = "upload") /\ job'[i].tag = job[i].tag
    BY <1>2
  <2>2. CASE k # j
    <3>1. Uploading(k) /\ job'[k] = job[k]
      BY <1>2, <2>2 DEF SnapshotInvariant
    <3>2. job[k].pc = "upload" => tags'[job[k].tag] = tags[job[k].tag]
      BY <1>2, <2>2 DEF SnapshotInvariant, Uploading, Working
    <3> QED BY <2>1, <2>2, <3>1, <3>2 DEF Uploading
  <2>3. CASE k = j
    <3>1. \A i \in Job : i # j /\ job[i].pc = "upload" => job[i].tag # job[j].tag
      BY <1>2 DEF SnapshotInvariant, Uploading
    <3> QED BY <1>2, <1>3, <2>1, <2>3, <3>1 DEF Uploading
  <2> QED BY <2>2, <2>3
<1>7. ASSUME NEW k \in Job PROVE Pruning(k)'
  <2>1. CASE k # j
    <3>1. \A t : Newer(t)' = Newer(t)
      BY <1>2 DEF Newer
    <3> QED BY <1>1, <1>2, <2>1, <3>1 DEF SnapshotInvariant, Pruning
  <2>2. CASE k = j
    BY <1>2, <2>2 DEF Pruning
  <2> QED BY <2>1, <2>2
<1> QED BY <1>4, <1>5, <1>6, <1>7 DEF SnapshotInvariant

\* A tag is deleted off a list that may be old: it is older than any job's, and
\* what is on other lists keeps the newer tags that the deleted one had.
LEMMA DeleteKeeps ==
  ASSUME SnapshotAssumptions, SnapshotInvariant, NEW j \in Job, Delete(j)
  PROVE  SnapshotInvariant'
<1>1. UNCHANGED <<month, live, assets, restore, target, faults>> /\ faults' \in 0..MaxFaults
  BY DEF Delete, restoreVars, SnapshotInvariant, TypeInv
<1>2. CASE job[j].todo = {}
  BY <1>1, <1>2, EndKeeps DEF Delete
<1>3. CASE job[j].todo # {}
  <2> DEFINE t == Min(job[j].todo)
             r == [job[j] EXCEPT !.pc = "prune", !.todo = job[j].todo \ {t}]
  <2>1. /\ job' = [job EXCEPT ![j] = r] /\ tags' = [tags EXCEPT ![t] = None]
        /\ job[j].pc = "prune"
    BY <1>3 DEF Delete, Goto
  <2>2. /\ tags \in [Month -> Release \cup {None}] /\ job \in [Job -> Work] /\ job[j] \in Work
        /\ Working(j) /\ Pruning(j) /\ TypeInv
    BY DEF SnapshotInvariant, TypeInv
  <2>3. job[j].todo \subseteq Month /\ Month \subseteq Nat
    BY <2>1, <2>2 DEF Pruning, SnapshotAssumptions
  <2>4. t \in job[j].todo
    BY <1>3, <2>3, OldestIsIn
  <2>5. t \in Month /\ t \in Nat /\ t + 1 < month /\ Cardinality(Newer(t)) >= KeepNewest
    BY <2>1, <2>2, <2>3, <2>4 DEF Pruning
  <2>6. /\ r \in Work /\ r.pc = "prune" /\ r.tag = job[j].tag /\ r.manifest = job[j].manifest
        /\ r.todo \subseteq job[j].todo
    BY <2>2 DEF Work
  <2> HIDE DEF t, r
  <2>7. tags'[t] = None /\ (\A u \in Month : u # t => tags'[u] = tags[u]) /\ Tags' = Tags \ {t}
        /\ tags' \in [Month -> Release \cup {None}]
    BY <2>1, <2>2, <2>5 DEF Tags
  <2>8. job'[j] = r /\ job' \in [Job -> Work] /\ \A k \in Job : k # j => job'[k] = job[k]
    BY <2>1, <2>2, <2>6
  <2>9. TypeInv'
    <3>1. \A u \in Tags' : u <= month' /\ tags'[u].manifest \in (1..live' \cap DOMAIN Published) \cup {None}
      BY <1>1, <2>2, <2>7 DEF TypeInv, Tags
    <3> QED BY <1>1, <2>2, <2>7, <2>8, <3>1 DEF TypeInv
  <2>10. ASSUME NEW k \in Job PROVE Working(k)'
    <3>1. CASE k # j
      BY <1>1, <2>8, <3>1 DEF SnapshotInvariant, Working
    <3>2. CASE k = j
      BY <1>1, <2>1, <2>2, <2>6, <2>8, <3>2 DEF Working
    <3> QED BY <3>1, <3>2
  <2>11. ASSUME NEW k \in Job PROVE Uploading(k)'
    <3>1. CASE k # j
      <4>1. Uploading(k) /\ Working(k) /\ job'[k] = job[k]
        BY <2>8, <3>1 DEF SnapshotInvariant
      <4>2. ASSUME job[k].pc = "upload" PROVE job[k].tag \in Month /\ job[k].tag # t
        <5>1. job[k].tag \in Month /\ month <= job[k].tag + 1
          BY <4>1, <4>2 DEF Working
        <5>2. job[k].tag \in Nat /\ month \in Nat
          BY <2>3, <5>1, LiveIsPublished, <2>2
        <5> QED BY <2>5, <5>1, <5>2
      <4>3. job[k].pc = "upload" => tags'[job[k].tag] = tags[job[k].tag]
        BY <2>7, <4>2
      <4>4. \A i \in Job : job'[i].pc = "upload" => job[i].pc = "upload" /\ job'[i].tag = job[i].tag
        BY <2>6, <2>8
      <4> QED BY <4>1, <4>3, <4>4 DEF Uploading
    <3>2. CASE k = j
      BY <2>6, <2>8, <3>2 DEF Uploading
    <3> QED BY <3>1, <3>2
  <2>12. ASSUME NEW u \in Month, Cardinality(Newer(u)) >= KeepNewest
         PROVE  Cardinality(Newer(u)') >= KeepNewest
    <3>1. u \in Nat /\ KeepNewest \in Nat /\ Newer(u)' \in SUBSET Month
      BY <2>3, <2>12 DEF SnapshotAssumptions, Newer, Tags
    <3>2. CASE t > u
      <4>1. \A v \in Newer(t) : v \in Nat
        BY <2>3 DEF Newer, Tags
      <4>2. Newer(t) \in SUBSET Newer(u)'
        BY <2>5, <2>7, <3>1, <3>2, <4>1 DEF Newer
      <4> QED BY <2>5, <3>1, <4>2, MoreIsMore
    <3>3. CASE ~(t > u)
      <4>1. Newer(u)' = Newer(u)
        BY <2>7, <3>3 DEF Newer
      <4> QED BY <2>12, <4>1
    <3> QED BY <3>2, <3>3
  <2>13. ASSUME NEW k \in Job PROVE Pruning(k)'
    <3>1. CASE k # j
      BY <1>1, <2>8, <2>12, <3>1 DEF SnapshotInvariant, Pruning
    <3>2. CASE k = j
      BY <1>1, <2>1, <2>2, <2>3, <2>6, <2>8, <2>12, <3>2 DEF Pruning
    <3> QED BY <3>1, <3>2
  <2> QED BY <2>9, <2>10, <2>11, <2>13 DEF SnapshotInvariant
<1> QED BY <1>2, <1>3

-----------------------------------------------------------------------------
\* The steps of a restore.
RestoreStep == (\E t \in Restored : Restore(t)) \/ Verify \/ Materialize \/ FailRestore \/ Clear

\* A step of a restore that types the restore and its directories.
LEMMA RestoreLeavesJobs ==
  ASSUME SnapshotInvariant, UNCHANGED <<month, live, assets, tags, job>>,
         restore' \in Restoring, target' \in [Restored -> SUBSET Asset], faults' \in 0..MaxFaults
  PROVE  SnapshotInvariant'
<1>1. Tags' = Tags
  BY DEF Tags
<1>2. TypeInv'
  BY <1>1 DEF SnapshotInvariant, TypeInv
<1>3. ASSUME NEW j \in Job PROVE (Working(j) /\ Uploading(j) /\ Pruning(j))'
  <2>1. \A t : Newer(t)' = Newer(t)
    BY <1>1 DEF Newer
  <2> QED BY <2>1 DEF SnapshotInvariant, Working, Uploading, Pruning
<1> QED BY <1>2, <1>3 DEF SnapshotInvariant

\* A file put in place takes the place of its dataset's, and of no other's.
LEMMA PlaceKeeps ==
  ASSUME SnapshotAssumptions, NEW m \in DOMAIN Published, NEW a \in Baselines(m),
         NEW done, done \subseteq Baselines(m), NEW T, done \subseteq T
  PROVE  done \cup {a} \subseteq {b \in T : b.ds # a.ds} \cup {a}
BY DEF SnapshotAssumptions

LEMMA RestoreKeepsTypes ==
  ASSUME SnapshotAssumptions, SnapshotInvariant, RestoreInvariant, RestoreStep
  PROVE  SnapshotInvariant' /\ UNCHANGED <<month, live, assets, tags, job>>
<1>1. UNCHANGED <<month, live, assets, tags, job>>
  BY DEF RestoreStep, Restore, Verify, Materialize, FailRestore, Clear, snapshotVars
<1>2. restore \in Restoring /\ target \in [Restored -> SUBSET Asset] /\ faults \in 0..MaxFaults
  BY DEF SnapshotInvariant, TypeInv
<1>3. Idle \in Restoring
  BY DEF Idle, Restoring, Latest
<1>4. \A m \in DOMAIN Published : Baselines(m) \subseteq Asset
  BY DEF Baselines, Asset
<1>5. restore' \in Restoring
  <2>1. ASSUME NEW t \in Restored, Restore(t) PROVE restore' \in Restoring
    <3>1. At(t).manifest \in 1..live \cap DOMAIN Published
      <4>1. CASE t = Latest
        BY <4>1, LiveIsPublished DEF At, SnapshotInvariant
      <4>2. CASE t # Latest
        <5>1. t \in Tags
          BY <2>1, <4>2 DEF Restore, At, Tags, SnapshotAssumptions, Latest
        <5> QED BY <2>1, <4>2, <5>1 DEF Restore, At, SnapshotInvariant, TypeInv
      <4> QED BY <4>1, <4>2
    <3>2. At(t).manifest \in Nat /\ Baselines(At(t).manifest) \subseteq Asset /\ t \in Month \cup {Latest}
      BY <1>4, <3>1 DEF SnapshotAssumptions, Latest
    <3> QED BY <2>1, <3>2 DEF Restore, Restoring
  <2>2. CASE Verify
    <3>1. NextOf(restore.todo) \in Asset
      BY <1>2, <2>2, NextOfIsIn DEF Verify, Restoring
    <3> QED BY <1>2, <1>3, <2>2, <3>1 DEF Verify, Fetched, Restoring
  <2>3. CASE Materialize
    BY <1>2, <1>3, <2>3 DEF Materialize, Restoring
  <2>4. CASE FailRestore
    BY <1>2, <1>3, <2>4 DEF FailRestore, Restoring
  <2>5. CASE Clear
    BY <1>3, <2>5 DEF Clear
  <2> QED BY <2>1, <2>2, <2>3, <2>4, <2>5 DEF RestoreStep
<1>6. target' \in [Restored -> SUBSET Asset]
  <2>1. CASE Materialize
    <3>1. CASE restore.pc = "verify"
      BY <1>2, <2>1, <3>1 DEF Materialize
    <3>2. CASE restore.pc # "verify"
      <4>1. NextOf(restore.todo) \in Asset
        BY <1>2, <2>1, <3>2, NextOfIsIn DEF Materialize, Restoring, RestoreInvariant
      <4>2. restore.tag \in Restored
        BY <2>1, <3>2 DEF Materialize, RestoreInvariant
      <4> QED BY <1>2, <2>1, <3>2, <4>1, <4>2 DEF Materialize, Place
    <3> QED BY <3>1, <3>2
  <2>2. CASE Clear
    BY <1>2, <2>2 DEF Clear
  <2> QED BY <1>2, <2>1, <2>2 DEF RestoreStep, Restore, Verify, FailRestore
<1>7. faults' \in 0..MaxFaults
  BY <1>2 DEF RestoreStep, Restore, Verify, Materialize, FailRestore, Clear, SnapshotAssumptions
<1> QED BY <1>1, <1>5, <1>6, <1>7, RestoreLeavesJobs

\* The others leave the restore alone, and the manifests only grow.
LEMMA OthersKeepRestore ==
  ASSUME SnapshotAssumptions, SnapshotInvariant, RestoreInvariant, UNCHANGED <<restore, target>>,
         live' = live \/ live' = live + 1
  PROVE  RestoreInvariant'
<1>1. 1..live \subseteq 1..live'
  <2>1. live \in Nat
    BY LiveIsPublished DEF SnapshotInvariant
  <2> QED BY <2>1
<1>2. RestoreIsAllOrNothing'
  BY <1>1 DEF RestoreInvariant, RestoreIsAllOrNothing
<1> QED BY <1>1, <1>2 DEF RestoreInvariant

LEMMA RestoreBegins ==
  ASSUME SnapshotAssumptions, SnapshotInvariant, RestoreInvariant, NEW t \in Restored, Restore(t)
  PROVE  RestoreInvariant'
<1>1. UNCHANGED <<live, target>> /\ restore = Idle
  BY DEF Restore
<1>2. At(t).manifest \in 1..live \cap DOMAIN Published
  <2>1. CASE t = Latest
    BY <2>1, LiveIsPublished DEF At, SnapshotInvariant
  <2>2. CASE t # Latest
    <3>1. t \in Tags
      BY <2>2 DEF Restore, At, Tags, SnapshotAssumptions, Latest
    <3> QED BY <2>2, <3>1 DEF Restore, At, SnapshotInvariant, TypeInv
  <2> QED BY <2>1, <2>2
<1>3. /\ restore'.pc = "verify" /\ restore'.tag = t /\ restore'.manifest = At(t).manifest
      /\ restore'.todo = Baselines(At(t).manifest) /\ restore'.got = {}
  BY DEF Restore
<1>4. RestoreIsAllOrNothing'
  BY <1>1 DEF RestoreInvariant, RestoreIsAllOrNothing, Idle
<1> QED BY <1>1, <1>2, <1>3, <1>4 DEF RestoreInvariant

LEMMA VerifyKeeps ==
  ASSUME SnapshotAssumptions, SnapshotInvariant, RestoreInvariant, Verify
  PROVE  RestoreInvariant'
<1> DEFINE a == NextOf(restore.todo)
<1>1. /\ UNCHANGED <<live, target>> /\ restore.pc = "verify" /\ restore \in Restoring
      /\ restore' = Idle \/ restore' = Fetched(restore, a)
  BY DEF Verify, SnapshotInvariant, TypeInv
<1>2. a \in restore.todo
  BY NextOfIsIn DEF Verify
<1> HIDE DEF a
<1>3. CASE restore' = Idle
  <2>1. restore'.pc = "idle"
    BY <1>3 DEF Idle
  <2>2. RestoreIsAllOrNothing'
    BY <1>1 DEF RestoreInvariant, RestoreIsAllOrNothing
  <2> QED BY <1>3, <2>1, <2>2 DEF RestoreInvariant
<1>4. CASE restore' = Fetched(restore, a)
  <2>1. /\ restore'.pc = "verify" /\ restore'.tag = restore.tag /\ restore'.manifest = restore.manifest
        /\ restore'.got = restore.got \cup {a} /\ restore'.todo = restore.todo \ {a}
    BY <1>1, <1>4 DEF Fetched, Restoring
  <2>2. restore'.got \cup restore'.todo = Baselines(restore.manifest)
    BY <1>1, <1>2, <2>1 DEF RestoreInvariant
  <2>3. RestoreIsAllOrNothing'
    BY <1>1 DEF RestoreInvariant, RestoreIsAllOrNothing
  <2> QED BY <1>1, <2>1, <2>2, <2>3 DEF RestoreInvariant
<1> QED BY <1>1, <1>3, <1>4

\* The last file placed makes the directory whole.
LEMMA MaterializeKeeps ==
  ASSUME SnapshotAssumptions, SnapshotInvariant, RestoreInvariant, Materialize
  PROVE  RestoreInvariant'
<1>1. restore \in Restoring /\ target \in [Restored -> SUBSET Asset] /\ live' = live
  BY DEF SnapshotInvariant, TypeInv, Materialize
<1>2. CASE restore.pc = "verify"
  <2>1. /\ UNCHANGED target /\ restore.todo = {}
        /\ restore' = [restore EXCEPT !.pc = "place", !.todo = restore.got]
    BY <1>2 DEF Materialize
  <2>2. /\ restore'.pc = "place" /\ restore'.tag = restore.tag /\ restore'.manifest = restore.manifest
        /\ restore'.got = restore.got /\ restore'.todo = restore.got
    BY <1>1, <2>1 DEF Restoring
  <2>3. restore.got = Baselines(restore.manifest) /\ Baselines(restore.manifest) # {}
    BY <1>2, <2>1 DEF RestoreInvariant, SnapshotAssumptions
  <2>4. RestoreIsAllOrNothing'
    BY <1>1, <1>2, <2>1, <2>2 DEF RestoreInvariant, RestoreIsAllOrNothing
  <2> QED BY <1>1, <1>2, <2>1, <2>2, <2>3, <2>4 DEF RestoreInvariant
<1>3. CASE restore.pc = "place"
  <2> DEFINE a == NextOf(restore.todo)
             t == restore.tag
             m == restore.manifest
             T == target'[t]
  <2>1. /\ target' = [target EXCEPT ![t] = {b \in @ : b.ds # a.ds} \cup {a}]
        /\ restore' = IF restore.todo = {a} THEN Idle ELSE [restore EXCEPT !.todo = @ \ {a}]
    BY <1>3 DEF Materialize, Place
  <2>2. /\ t \in Restored /\ m \in 1..live \cap DOMAIN Published /\ restore.got = Baselines(m)
        /\ restore.todo \subseteq restore.got /\ restore.todo # {}
        /\ restore.got \ restore.todo \subseteq target[t]
    BY <1>3 DEF RestoreInvariant
  <2>3. a \in restore.todo /\ a \in Baselines(m)
    BY <2>2, NextOfIsIn
  <2> HIDE DEF a, t, m
  <2>4. target'[t] = {b \in target[t] : b.ds # a.ds} \cup {a}
        /\ \A u \in Restored : u # t => target'[u] = target[u]
    BY <1>1, <2>1, <2>2
  <2>5. (Baselines(m) \ restore.todo) \cup {a} \subseteq target'[t]
    BY <2>2, <2>3, <2>4, PlaceKeeps
  <2>6. \A u \in Restored : u # t =>
          target'[u] = {} \/ \E n \in 1..live : Baselines(n) \subseteq target'[u]
    BY <1>3, <2>4 DEF RestoreInvariant, RestoreIsAllOrNothing, t
  <2>7. CASE restore.todo = {a}
    <3>1. restore' = Idle /\ restore'.pc = "idle"
      BY <2>1, <2>7 DEF Idle
    <3>2. Baselines(m) \subseteq target'[t] /\ m \in 1..live
      BY <2>2, <2>5, <2>7
    <3>3. RestoreIsAllOrNothing'
      BY <1>1, <2>6, <3>2 DEF RestoreIsAllOrNothing
    <3> QED BY <3>1, <3>3 DEF RestoreInvariant
  <2>8. CASE restore.todo # {a}
    <3>1. restore' = [restore EXCEPT !.todo = @ \ {a}]
      BY <2>1, <2>8
    <3>2. /\ restore'.pc = "place" /\ restore'.tag = t /\ restore'.manifest = m
          /\ restore'.got = restore.got /\ restore'.todo = restore.todo \ {a}
      BY <1>1, <1>3, <3>1 DEF Restoring, t, m
    <3>3. restore'.todo # {} /\ restore'.todo \subseteq restore'.got
      BY <2>2, <2>3, <2>8, <3>2
    <3>4. restore'.got \ restore'.todo \subseteq target'[t]
      BY <2>2, <2>5, <3>2
    <3>5. RestoreIsAllOrNothing'
      BY <1>1, <2>6, <3>2 DEF RestoreIsAllOrNothing
    <3> QED BY <1>1, <2>2, <3>2, <3>3, <3>4, <3>5 DEF RestoreInvariant
  <2> QED BY <2>7, <2>8
<1> QED BY <1>2, <1>3 DEF Materialize

\* A failure in the first phase leaves the directory as it was; what is torn in
\* the second is empty once it is cleared.
LEMMA FailAndClearKeep ==
  ASSUME SnapshotAssumptions, SnapshotInvariant, RestoreInvariant, FailRestore \/ Clear
  PROVE  RestoreInvariant'
<1>1. /\ restore \in Restoring /\ target \in [Restored -> SUBSET Asset] /\ live' = live
      /\ restore.pc # "idle" /\ restore.tag \in Restored
  BY DEF FailRestore, Clear, SnapshotInvariant, TypeInv, RestoreInvariant
<1>2. CASE FailRestore /\ restore.pc = "place"
  <2>1. /\ UNCHANGED target /\ restore'.pc = "torn" /\ restore'.tag = restore.tag
        /\ restore'.manifest = restore.manifest
    BY <1>1, <1>2 DEF FailRestore, Restoring
  <2>2. RestoreIsAllOrNothing'
    BY <1>1, <1>2, <2>1 DEF RestoreInvariant, RestoreIsAllOrNothing
  <2> QED BY <1>1, <2>1, <2>2 DEF RestoreInvariant
<1>3. CASE FailRestore /\ restore.pc = "verify"
  <2>1. UNCHANGED target /\ restore' = Idle /\ restore'.pc = "idle"
    BY <1>3 DEF FailRestore, Idle
  <2>2. RestoreIsAllOrNothing'
    BY <1>1, <1>3, <2>1 DEF RestoreInvariant, RestoreIsAllOrNothing
  <2> QED BY <2>1, <2>2 DEF RestoreInvariant
<1>4. CASE Clear
  <2>1. /\ target' = [target EXCEPT ![restore.tag] = {}] /\ restore' = Idle /\ restore'.pc = "idle"
    BY <1>4 DEF Clear, Idle
  <2>2. \A u \in Restored : u # restore.tag => target'[u] = target[u]
    BY <1>1, <2>1
  <2>3. target'[restore.tag] = {}
    BY <1>1, <2>1
  <2>4. RestoreIsAllOrNothing'
    BY <1>1, <2>2, <2>3 DEF RestoreInvariant, RestoreIsAllOrNothing
  <2> QED BY <2>1, <2>4 DEF RestoreInvariant
<1> QED BY <1>2, <1>3, <1>4 DEF FailRestore

-----------------------------------------------------------------------------
\* The steps that are not of a restore.
JobStep(j) ==
  \/ Snapshot(j) \/ Download(j) \/ CheckTag(j) \/ Create(j)
  \/ Upload(j) \/ ListTags(j) \/ Delete(j) \/ FailJob(j)

LEMMA NextSteps ==
  ASSUME [Next]_vars
  PROVE  \/ Flip \/ Collect \/ NextMonth
         \/ \E j \in Job : JobStep(j)
         \/ RestoreStep
         \/ UNCHANGED vars
BY DEF Next, JobStep, RestoreStep

LEMMA JobStepKeeps ==
  ASSUME SnapshotAssumptions, SnapshotInvariant, RestoreInvariant, NEW j \in Job, JobStep(j)
  PROVE  SnapshotInvariant' /\ RestoreInvariant'
<1>1. SnapshotInvariant'
  BY SnapshotKeeps, DownloadKeeps, CheckTagKeeps, CreateKeeps, UploadKeeps, ListTagsKeeps,
     DeleteKeeps, FailJobKeeps DEF JobStep
<1>2. UNCHANGED <<restore, target, live>>
  BY DEF JobStep, Snapshot, Download, CheckTag, Create, Upload, ListTags, Delete, FailJob, restoreVars
<1>3. RestoreInvariant'
  BY <1>2, OthersKeepRestore
<1> QED BY <1>1, <1>3

LEMMA StepKeeps ==
  ASSUME SnapshotAssumptions, SnapshotInvariant, RestoreInvariant, [Next]_vars
  PROVE  SnapshotInvariant' /\ RestoreInvariant'
<1>1. CASE Flip \/ Collect \/ NextMonth
  <2>1. UNCHANGED <<restore, target>> /\ (live' = live \/ live' = live + 1)
    BY <1>1 DEF Flip, Collect, NextMonth, restoreVars
  <2> QED BY <1>1, <2>1, AroundKeeps, OthersKeepRestore
<1>2. ASSUME NEW j \in Job, JobStep(j) PROVE SnapshotInvariant' /\ RestoreInvariant'
  BY <1>2, JobStepKeeps
<1>3. CASE RestoreStep
  <2>1. SnapshotInvariant'
    BY <1>3, RestoreKeepsTypes
  <2>2. RestoreInvariant'
    BY <1>3, RestoreBegins, VerifyKeeps, MaterializeKeeps, FailAndClearKeep DEF RestoreStep
  <2> QED BY <2>1, <2>2
<1>4. CASE UNCHANGED vars
  <2>1. restore \in Restoring /\ target \in [Restored -> SUBSET Asset] /\ faults \in 0..MaxFaults
    BY DEF SnapshotInvariant, TypeInv
  <2>2. SnapshotInvariant'
    BY <1>4, <2>1, RestoreLeavesJobs DEF vars
  <2>3. RestoreInvariant'
    BY <1>4, OthersKeepRestore DEF vars
  <2> QED BY <2>2, <2>3
<1> QED BY <1>1, <1>2, <1>3, <1>4, NextSteps

\* A recovery point is left alone, or deleted off a list.
LEMMA PointSurvives ==
  ASSUME SnapshotAssumptions, SnapshotInvariant, [Next]_vars, NEW t \in Month, Whole(t)
  PROVE  \/ tags'[t] = tags[t]
         \/ tags'[t] = None /\ Cardinality({u \in Tags : u > t}) >= KeepNewest
<1>1. tags \in [Month -> Release \cup {None}] /\ tags[t] \in Release /\ tags[t] # None
      /\ tags[t].manifest # None /\ tags[t].assets = Published[tags[t].manifest]
  BY DEF SnapshotInvariant, TypeInv, Whole
<1>2. ASSUME NEW j \in Job, Create(j) PROVE tags'[t] = tags[t]
  <2>1. CASE tags[job[j].tag] # None
    BY <1>2, <2>1 DEF Create
  <2>2. CASE tags[job[j].tag] = None
    BY <1>1, <1>2, <2>2 DEF Create
  <2> QED BY <2>1, <2>2
<1>3. ASSUME NEW j \in Job, Upload(j) PROVE tags'[t] = tags[t]
  <2>1. CASE t # job[j].tag
    BY <1>3, <2>1, UploadStep
  <2>2. CASE t = job[j].tag
    <3>1. tags[t].manifest = job[j].manifest
      BY <1>1, <1>3, <2>2, UploadStep DEF SnapshotInvariant, Uploading
    <3>2. tags'[t] \in Release /\ tags'[t].manifest = tags[t].manifest /\ tags'[t].assets = tags[t].assets
      BY <1>1, <1>3, <2>2, <3>1, UploadStep
    <3> QED BY <1>1, <3>2 DEF Release
  <2> QED BY <2>1, <2>2
<1>4. ASSUME NEW j \in Job, Delete(j)
      PROVE  tags'[t] = tags[t] \/ (tags'[t] = None /\ Cardinality(Newer(t)) >= KeepNewest)
  <2>1. CASE job[j].todo = {}
    BY <1>4, <2>1 DEF Delete
  <2>2. CASE job[j].todo # {}
    <3>1. job[j].todo \subseteq Month /\ Pruning(j) /\ job[j].pc = "prune"
      BY <1>4 DEF Delete, SnapshotInvariant, Pruning
    <3>2. Min(job[j].todo) \in job[j].todo
      BY <2>2, <3>1, OldestIsIn DEF SnapshotAssumptions
    <3>3. tags' = [tags EXCEPT ![Min(job[j].todo)] = None]
      BY <1>4, <2>2 DEF Delete
    <3> HIDE DEF Min
    <3>4. CASE t = Min(job[j].todo)
      BY <1>1, <3>1, <3>2, <3>3, <3>4 DEF Pruning
    <3>5. CASE t # Min(job[j].todo)
      BY <1>1, <3>3, <3>5
    <3> QED BY <3>4, <3>5
  <2> QED BY <2>1, <2>2
<1>5. \/ UNCHANGED tags
      \/ \E j \in Job : Create(j) \/ Upload(j) \/ Delete(j)
  BY NextSteps DEF JobStep, RestoreStep, Flip, Collect, NextMonth, Snapshot, Download, CheckTag,
     ListTags, FailJob, Restore, Verify, Materialize, FailRestore, Clear, snapshotVars, vars
<1> QED BY <1>2, <1>3, <1>4, <1>5 DEF Newer

-----------------------------------------------------------------------------
\* The tags that are not whole, and that no job is at.
Lost == {t \in Tags : ~Whole(t) /\ \A j \in Job : ~(job[j].pc = "upload" /\ job[j].tag = t)}

LossInvariant == Cardinality(Lost) <= faults

\* A step counts at most one failure.
LEMMA StepIsCounted ==
  ASSUME SnapshotInvariant, [Next]_vars
  PROVE  faults \in Nat /\ faults' \in Nat /\ faults' >= faults
<1>1. faults \in Nat
  BY DEF SnapshotInvariant, TypeInv
<1>2. faults' = faults \/ faults' = faults + 1
  <2>1. CASE Flip \/ Collect \/ NextMonth
    BY <2>1 DEF Flip, Collect, NextMonth
  <2>2. ASSUME NEW j \in Job, JobStep(j) PROVE faults' = faults \/ faults' = faults + 1
    BY <2>2 DEF JobStep, Snapshot, Download, CheckTag, Create, Upload, ListTags, Delete, FailJob
  <2>3. CASE RestoreStep
    BY <2>3 DEF RestoreStep, Restore, Verify, Materialize, FailRestore, Clear
  <2>4. CASE UNCHANGED vars
    BY <2>4 DEF vars
  <2> QED BY <2>1, <2>2, <2>3, <2>4, NextSteps
<1> QED BY <1>1, <1>2

\* No tag can be lost by a step that is not a failure of a job.
LEMMA NoneIsLost ==
  ASSUME SnapshotAssumptions, SnapshotInvariant, [Next]_vars,
         ~(\E j \in Job : FailJob(j))
  PROVE  Lost' \subseteq Lost /\ faults' >= faults
<1>1. job \in [Job -> Work] /\ tags \in [Month -> Release \cup {None}] /\ None \notin Release
      /\ faults \in Nat
  BY DEF SnapshotInvariant, TypeInv, SnapshotAssumptions, Release
<1>2. faults' >= faults
  BY StepIsCounted
<1>3. CASE UNCHANGED <<tags, job>>
  <2>1. Tags' = Tags /\ \A t : Whole(t)' = Whole(t)
    BY <1>3 DEF Tags, Whole
  <2> QED BY <1>2, <1>3, <2>1 DEF Lost
<1>4. ASSUME NEW j \in Job, UNCHANGED tags, job[j].pc # "upload",
             \A k \in Job : k # j => job'[k] = job[k]
      PROVE  Lost' \subseteq Lost
  BY <1>4 DEF Lost, Tags, Whole
<1>5. ASSUME NEW j \in Job PROVE /\ \A r : job' = [job EXCEPT ![j] = r] => \A k \in Job : k # j => job'[k] = job[k]
                                 /\ Ends(j) => \A k \in Job : k # j => job'[k] = job[k]
                                 /\ \A pc, todo : Goto(j, pc, todo) => \A k \in Job : k # j => job'[k] = job[k]
  BY <1>1 DEF Ends, Goto
<1>6. ASSUME NEW j \in Job, Snapshot(j) \/ Download(j) \/ CheckTag(j) PROVE Lost' \subseteq Lost
  <2>1. UNCHANGED tags /\ job[j].pc # "upload"
    BY <1>6 DEF Snapshot, Download, CheckTag, Idle
  <2>2. \A k \in Job : k # j => job'[k] = job[k]
    BY <1>1, <1>5, <1>6 DEF Snapshot, Download, CheckTag
  <2> QED BY <1>4, <2>1, <2>2
<1>7. ASSUME NEW j \in Job, Create(j) PROVE Lost' \subseteq Lost
  <2> DEFINE tag == job[j].tag
  <2>1. job[j].pc = "create"
    BY <1>7 DEF Create
  <2>2. CASE tags[tag] # None
    BY <1>4, <1>5, <1>7, <2>1, <2>2 DEF Create
  <2>3. CASE tags[tag] = None
    <3>1. /\ tags' = [tags EXCEPT ![tag] = Created]
          /\ job' = [job EXCEPT ![j] = [@ EXCEPT !.pc = "upload", !.todo = job[j].got]]
      BY <1>7, <2>3 DEF Create, Goto
    <3>2. \A t \in Month : t # tag => tags'[t] = tags[t]
      BY <1>1, <3>1
    <3>3. job'[j] = [job[j] EXCEPT !.pc = "upload", !.todo = job[j].got]
          /\ \A k \in Job : k # j => job'[k] = job[k]
      BY <1>1, <3>1
    <3>4. job'[j].pc = "upload" /\ job'[j].tag = tag
      BY <1>1, <3>3 DEF Work
    <3>5. tag \notin Lost'
      BY <3>4 DEF Lost
    <3> QED BY <2>1, <3>2, <3>3, <3>5 DEF Lost, Tags, Whole
  <2> QED BY <2>2, <2>3
<1>8. ASSUME NEW j \in Job, Upload(j) PROVE Lost' \subseteq Lost
  <2>1. /\ \A t \in Month : t # job[j].tag => tags'[t] = tags[t]
        /\ \A k \in Job : k # j => job'[k] = job[k]
        /\ job'[j].pc = "upload" /\ job'[j].tag = job[j].tag
    BY <1>8, UploadStep
  <2>2. job[j].tag \notin Lost'
    BY <2>1 DEF Lost
  <2> QED BY <2>1, <2>2 DEF Lost, Tags, Whole
<1>9. ASSUME NEW j \in Job, ListTags(j) PROVE Lost' \subseteq Lost
  <2>1. UNCHANGED tags /\ job[j].pc = "upload" /\ job[j].todo = {}
        /\ \A k \in Job : k # j => job'[k] = job[k]
    BY <1>5, <1>9 DEF ListTags
  <2>2. Uploading(j) /\ Working(j)
    BY DEF SnapshotInvariant
  <2>3. tags[job[j].tag].manifest = job[j].manifest /\ job[j].manifest \in Nat
    BY <2>1, <2>2 DEF Uploading, Working, SnapshotAssumptions
  <2>4. Whole(job[j].tag)
    BY <2>1, <2>2, <2>3 DEF Uploading, Whole, SnapshotAssumptions
  <2>5. job[j].tag \notin Lost'
    BY <2>1, <2>4 DEF Lost, Whole
  <2> QED BY <2>1, <2>5 DEF Lost, Tags, Whole
<1>10. ASSUME NEW j \in Job, Delete(j) PROVE Lost' \subseteq Lost
  <2>1. job[j].pc = "prune" /\ \A k \in Job : k # j => job'[k] = job[k]
    BY <1>5, <1>10 DEF Delete
  <2>2. CASE job[j].todo = {}
    BY <1>4, <1>10, <2>1, <2>2 DEF Delete
  <2>3. CASE job[j].todo # {}
    <3>1. tags' = [tags EXCEPT ![Min(job[j].todo)] = None]
      BY <1>10, <2>3 DEF Delete
    <3>2. \A t \in Month : tags'[t] = None \/ tags'[t] = tags[t]
      BY <1>1, <3>1
    <3> QED BY <2>1, <3>2 DEF Lost, Tags, Whole
  <2> QED BY <2>2, <2>3
<1>11. \/ UNCHANGED <<tags, job>>
       \/ \E j \in Job : \/ Snapshot(j) \/ Download(j) \/ CheckTag(j)
                         \/ Create(j) \/ Upload(j) \/ ListTags(j) \/ Delete(j)
  BY NextSteps DEF JobStep, RestoreStep, Flip, Collect, NextMonth, Restore, Verify, Materialize,
     FailRestore, Clear, snapshotVars, vars
<1> QED BY <1>2, <1>3, <1>6, <1>7, <1>8, <1>9, <1>10, <1>11

\* A failure of a job loses the tag it was at, if any.
LEMMA FailureLosesOne ==
  ASSUME SnapshotAssumptions, SnapshotInvariant, NEW j \in Job, FailJob(j)
  PROVE  Lost' \subseteq Lost \cup {job[j].tag} /\ faults' = faults + 1
<1>1. job \in [Job -> Work] /\ UNCHANGED tags /\ job' = [job EXCEPT ![j] = Idle]
  BY DEF SnapshotInvariant, TypeInv, FailJob, Ends
<1>2. \A k \in Job : k # j => job'[k] = job[k]
  BY <1>1
<1> QED BY <1>1, <1>2 DEF FailJob, Lost, Tags, Whole

LEMMA LossesKept ==
  ASSUME SnapshotAssumptions, SnapshotInvariant, LossInvariant, [Next]_vars
  PROVE  LossInvariant'
<1>1. Lost \in SUBSET Month /\ Lost' \in SUBSET Month /\ faults \in Nat /\ IsFiniteSet(Month)
  BY DEF Lost, Tags, SnapshotInvariant, TypeInv, SnapshotAssumptions
<1>2. CASE ~(\E j \in Job : FailJob(j))
  <2>1. Lost' \in SUBSET Lost /\ faults' >= faults
    BY <1>2, NoneIsLost
  <2>2. Cardinality(Lost') <= Cardinality(Lost) /\ Cardinality(Lost) \in Nat /\ Cardinality(Lost') \in Nat
    BY <1>1, <2>1, MoreIsMore
  <2>3. faults' \in Nat
    BY StepIsCounted
  <2> QED BY <1>1, <2>1, <2>2, <2>3 DEF LossInvariant
<1>3. ASSUME NEW j \in Job, FailJob(j) PROVE LossInvariant'
  <2>1. Lost' \subseteq Lost \cup {job[j].tag} /\ faults' = faults + 1
    BY <1>3, FailureLosesOne
  <2>2. IsFiniteSet(Lost) /\ Cardinality(Lost) \in Nat
    BY <1>1, FS_Subset, FS_CardinalityType
  <2>3. /\ IsFiniteSet(Lost \cup {job[j].tag})
        /\ Cardinality(Lost \cup {job[j].tag}) <= Cardinality(Lost) + 1
    BY <2>2, FS_AddElement
  <2>4. Cardinality(Lost') <= Cardinality(Lost \cup {job[j].tag})
    BY <2>1, <2>3, FS_Subset
  <2>5. Cardinality(Lost') \in Nat /\ Cardinality(Lost \cup {job[j].tag}) \in Nat
    BY <1>1, <2>3, FS_Subset, FS_CardinalityType
  <2> QED BY <1>1, <2>1, <2>2, <2>3, <2>4, <2>5 DEF LossInvariant
<1> QED BY <1>2, <1>3

-----------------------------------------------------------------------------
Invariant == SnapshotInvariant /\ RestoreInvariant /\ LossInvariant

LEMMA InvariantInit == SnapshotAssumptions /\ Init => Invariant
<1> SUFFICES ASSUME SnapshotAssumptions, Init PROVE Invariant
  OBVIOUS
<1>1. SnapshotInvariant
  BY SnapshotsInit
<1>2. restore = Idle /\ restore.pc = "idle" /\ \A t \in Restored : target[t] = {}
  BY DEF Init, Idle
<1>3. RestoreInvariant
  BY <1>2 DEF RestoreInvariant, RestoreIsAllOrNothing
<1>4. Lost = {} /\ faults = 0
  BY DEF Init, Lost, Tags
<1>5. LossInvariant
  BY <1>4, FS_EmptySet DEF LossInvariant
<1> QED BY <1>1, <1>3, <1>5 DEF Invariant

LEMMA InvariantStep == SnapshotAssumptions /\ Invariant /\ [Next]_vars => Invariant'
BY StepKeeps, LossesKept DEF Invariant

\* Invariant holds of every state that a behaviour reaches.
LEMMA Inductive == Spec => []Invariant
<1>1. Init => Invariant
  BY ConstantsAreRight, InvariantInit
<1>2. Invariant /\ [Next]_vars => Invariant'
  BY ConstantsAreRight, InvariantStep
<1> QED BY <1>1, <1>2, PTL DEF Spec

\* Every variable stays in its type: no tag is of a month to come, and the manifest
\* on a tag was live once (snapshot.py, restore.py).
THEOREM TypeCorrectness == Spec => []TypeOK
<1>1. Invariant => TypeOK
  <2> SUFFICES ASSUME Invariant PROVE TypeOK
    OBVIOUS
  <2>1. TypeInv /\ \A j \in Job : job[j] \in Work
    BY DEF Invariant, SnapshotInvariant, TypeInv
  <2> QED BY <2>1 DEF TypeInv, TypeOK, Work, Restoring
<1> QED BY <1>1, Inductive, PTL

\* A snapshot that was completed is never changed, and it is deleted only while
\* `keep` newer tags exist, whoever prunes by whatever list (prune_snapshots).
THEOREM PointsSurvive == Spec => RecoveryPointsSurvive
<1>1. Invariant /\ [Next]_vars =>
        [\A t \in Month : Whole(t) =>
           \/ tags'[t] = tags[t]
           \/ tags'[t] = None /\ Cardinality({u \in Tags : u > t}) >= KeepNewest]_vars
  BY ConstantsAreRight, PointSurvives DEF Invariant
<1> QED BY <1>1, Inductive, PTL DEF Spec, RecoveryPointsSurvive

\* There are never more lost months than failures: neither a second job, nor a
\* publish, nor garbage collection leaves a tag that is not whole (snapshot).
THEOREM FailuresCostMonths == Spec => []OnlyAFailureCostsAMonth
<1>1. Invariant => OnlyAFailureCostsAMonth
  BY DEF Invariant, LossInvariant, Lost, OnlyAFailureCostsAMonth
<1> QED BY <1>1, Inductive, PTL

\* A restore directory holds all baselines of a manifest that was live, or it is
\* empty, or the restore into it is at work or has said that it failed
\* (restore_from_snapshot).
THEOREM RestoresAreWhole == Spec => []RestoreIsAllOrNothing
<1>1. Invariant => RestoreIsAllOrNothing
  BY DEF Invariant, RestoreInvariant
<1> QED BY <1>1, Inductive, PTL
=============================================================================
