----------------------- MODULE SharedReleaseProofs --------------------------
(***************************************************************************)
(* Proofs about SharedRelease, for every registry, store and number of     *)
(* producers.  First the lemmas on manifests, then type correctness (of    *)
(* every run, locked or not), then what the concurrency group guarantees.  *)
(***************************************************************************)
EXTENDS SharedRelease, TLAPS

ManifestOrNone == Manifest \cup {NoManifest}
StoreType == [Dataset -> EntryOrNone]

-----------------------------------------------------------------------------
\* Manifests

\* The assets of an entry are assets of its dataset.
LEMMA EntryAssetsType ==
  ASSUME NEW d \in Dataset, NEW e \in EntryOrNone
  PROVE  EntryAssets(d, e) \subseteq Asset /\ \A a \in EntryAssets(d, e) : a.ds = d
<1>1. CASE e = NoEntry
  BY <1>1 DEF EntryAssets
<1>2. CASE e \in Entry
  BY <1>2 DEF EntryAssets, Entry, Asset, Base, Delta
<1> QED BY <1>1, <1>2 DEF EntryOrNone

\* A manifest's entries, or the empty catalog when there is none.
LEMMA EntriesOfType ==
  ASSUME NEW m \in ManifestOrNone
  PROVE  EntriesOf(m) \in StoreType
BY DEF ManifestOrNone, EntriesOf, StoreType, Manifest, EntryOrNone

\* What a manifest names are assets, each under the entry of its dataset.
LEMMA RefsType ==
  ASSUME NEW m \in ManifestOrNone
  PROVE  /\ Refs(m) \subseteq Asset
         /\ \A a \in Refs(m) : a \in EntryAssets(a.ds, EntriesOf(m)[a.ds])
<1>1. \A d \in Dataset : EntriesOf(m)[d] \in EntryOrNone
  BY EntriesOfType DEF StoreType
<1>2. ASSUME NEW a \in Refs(m)
      PROVE  a \in Asset /\ a \in EntryAssets(a.ds, EntriesOf(m)[a.ds])
  <2>1. PICK d \in Dataset : a \in EntryAssets(d, EntriesOf(m)[d])
    BY <1>2 DEF Refs
  <2>2. a \in Asset /\ a.ds = d
    BY <1>1, <2>1, EntryAssetsType
  <2> QED BY <2>1, <2>2
<1> QED BY <1>2

\* generated_at of a manifest is a number, and 0 when there is none.
LEMMA GenOfType ==
  ASSUME NEW m \in ManifestOrNone
  PROVE  GenOf(m) \in Nat
BY DEF ManifestOrNone, GenOf, Manifest

\* build_manifest makes a manifest of any store that holds the primary.
LEMMA BuiltManifestType ==
  ASSUME NEW r \in Runner, NEW st \in StoreType, NEW g \in Nat, st[Primary[r]] # NoEntry
  PROVE  BuiltManifest(r, st, g) \in Manifest
<1>1. Primary[r] \in Dataset
  BY Registries
<1>2. st[Primary[r]] \in Entry
  BY <1>1 DEF StoreType, EntryOrNone
<1>3. DateOf[st[Primary[r]].base] \in Nat
  BY <1>2, RowsAndDates DEF Entry
<1>4. [d \in Dataset |-> IF d \in Owned[r] THEN st[d] ELSE NoEntry] \in StoreType
  BY DEF StoreType, EntryOrNone
<1> QED BY <1>3, <1>4 DEF BuiltManifest, Manifest, StoreType

\* Carrying deltas or a foreign entry forward makes an entry again.
LEMMA CarriedEntryType ==
  ASSUME NEW r \in Runner, NEW d \in Dataset, NEW names,
         NEW e \in EntryOrNone, NEW was \in EntryOrNone
  PROVE  /\ CarriedDeltas(d, e, was, names) \in EntryOrNone
         /\ CarriedForeign(r, d, was, names) \in EntryOrNone
<1>1. CarriedForeign(r, d, was, names) \in EntryOrNone
  BY DEF CarriedForeign, EntryOrNone
<1>2. CASE e = NoEntry \/ was = NoEntry \/ e.deltas # {}
  BY <1>1, <1>2 DEF CarriedDeltas
<1>3. CASE e \in Entry /\ was \in Entry
  <2>1. {c \in was.deltas : Delta(d, c) \in names} \in SUBSET Content
    BY <1>3 DEF Entry
  <2>2. [e EXCEPT !.deltas = {c \in was.deltas : Delta(d, c) \in names}] \in Entry
    BY <1>3, <2>1 DEF Entry
  <2> QED BY <1>1, <1>3, <2>2 DEF CarriedDeltas, EntryOrNone
<1> QED BY <1>2, <1>3 DEF EntryOrNone

\* The two carry-forwards make a manifest of a manifest, dataset by dataset.
LEMMA CarriedType ==
  ASSUME NEW r \in Runner, NEW n \in Manifest, NEW m \in ManifestOrNone, NEW names
  PROVE  /\ Carried(r, n, m, names) \in Manifest
         /\ Carried(r, n, m, names).date = n.date
         /\ \A d \in Owned[r] :
              Carried(r, n, m, names).ds[d] = CarriedDeltas(d, n.ds[d], EntriesOf(m)[d], names)
         /\ \A d \in Dataset \ Owned[r] :
              Carried(r, n, m, names).ds[d] = CarriedForeign(r, d, EntriesOf(m)[d], names)
<1> DEFINE ds == [d \in Dataset |->
                    IF d \in Owned[r] THEN CarriedDeltas(d, n.ds[d], EntriesOf(m)[d], names)
                                      ELSE CarriedForeign(r, d, EntriesOf(m)[d], names)]
<1>1. \A d \in Dataset : n.ds[d] \in EntryOrNone /\ EntriesOf(m)[d] \in EntryOrNone
  BY EntriesOfType DEF StoreType, Manifest
<1>2. ds \in StoreType
  BY <1>1, CarriedEntryType DEF StoreType
<1>3. Carried(r, n, m, names) = [n EXCEPT !.ds = ds]
  BY DEF Carried
<1> HIDE DEF ds
<1>4. /\ Carried(r, n, m, names) \in Manifest
      /\ Carried(r, n, m, names).date = n.date
      /\ Carried(r, n, m, names).ds = ds
  BY <1>2, <1>3 DEF Manifest, StoreType
<1>5. Owned[r] \subseteq Dataset
  BY Registries
<1> QED BY <1>4, <1>5 DEF ds

\* Materializing files of a manifest in a store makes a store.
LEMMA MaterializedType ==
  ASSUME NEW r \in Runner, store[r] \in StoreType, seen[r] \in Manifest, NEW D
  PROVE  Materialized(r, D) \in StoreType
<1>1. ASSUME NEW d \in Dataset, seen[r].ds[d] # NoEntry
      PROVE  [base |-> seen[r].ds[d].base,
              deltas |-> IF store[r][d] = NoEntry THEN {} ELSE store[r][d].deltas] \in Entry
  <2>1. seen[r].ds[d] \in Entry
    BY <1>1 DEF Manifest, EntryOrNone
  <2>2. store[r][d] = NoEntry \/ store[r][d] \in Entry
    BY DEF StoreType, EntryOrNone
  <2> QED BY <2>1, <2>2 DEF Entry
<1> QED BY <1>1 DEF Materialized, StoreType, EntryOrNone
-----------------------------------------------------------------------------
\* Type correctness, with or without the lock

\* TypeOK is not inductive: a sync has a manifest at hand, and so has a publish
\* from the moment it has built one.  And a manifest lies on a release.
HasManifest == {"open", "list", "read", "upload", "verify", "collect", "gc"}
TypeInv ==
  /\ TypeOK
  /\ live # NoManifest => exists
  /\ \A r \in Runner :
       /\ pc[r] \in {"list", "read", "upload"} => exists
       /\ pc[r] = "sync" => seen[r] # NoManifest
       /\ pc[r] \in HasManifest => new[r] # NoManifest

LEMMA TypeInit == Init => TypeInv
<1> SUFFICES ASSUME Init PROVE TypeInv
  OBVIOUS
<1>1. live \in ManifestOrNone
  BY Seeding DEF Init, ManifestOrNone
<1>2. assets \subseteq Asset /\ old \subseteq assets
  BY <1>1, RefsType, Seeding DEF Init
<1>3. GenOf(live) \in Nat
  BY <1>1, GenOfType
<1>4. store \in [Runner -> [Dataset -> EntryOrNone]]
  BY DEF Init, EmptyStore, EntryOrNone
<1>5. listed \in [Runner -> [files : SUBSET Asset, manifest : BOOLEAN]]
  BY DEF Init, NoListing
<1>6. exists \in BOOLEAN /\ lock \in Runner \cup {Free} /\ faults \in Nat
      /\ pc \in [Runner -> PC] /\ synced \in [Runner -> Int]
  BY DEF Init, PC, NeverSynced
<1>7. /\ seen \in [Runner -> Manifest \cup {NoManifest}]
      /\ new \in [Runner -> Manifest \cup {NoManifest}]
      /\ todo \in [Runner -> SUBSET Asset]
  BY DEF Init
<1> QED BY <1>1, <1>2, <1>3, <1>4, <1>5, <1>6, <1>7 DEF TypeInv, TypeOK, Init, ManifestOrNone, HasManifest

LEMMA TypeStep == TypeInv /\ [Next]_vars => TypeInv'
<1> SUFFICES ASSUME TypeInv, [Next]_vars PROVE TypeInv'
  OBVIOUS
<1> USE DEF HasManifest, PC
<1>1. ASSUME NEW r \in Runner, Start(r) PROVE TypeInv'
  BY <1>1 DEF TypeInv, TypeOK, Start, Goto, shared, local
<1>2. ASSUME NEW r \in Runner, SyncNothing(r) PROVE TypeInv'
  BY <1>2 DEF TypeInv, TypeOK, SyncNothing, Goto, shared
<1>3. ASSUME NEW r \in Runner, SyncManifest(r) PROVE TypeInv'
  <2>1. {a \in OwnRefs(r, live) : a.kind = "base"} \subseteq Asset
    BY RefsType DEF TypeInv, TypeOK, OwnRefs, ManifestOrNone
  <2> QED BY <1>3, <2>1 DEF TypeInv, TypeOK, SyncManifest, Goto, shared
<1>4. ASSUME NEW r \in Runner, SyncNoManifest(r) PROVE TypeInv'
  BY <1>4 DEF TypeInv, TypeOK, SyncNoManifest, Goto, shared, local
<1>5. ASSUME NEW r \in Runner, SyncFile(r) PROVE TypeInv'
  BY <1>5 DEF TypeInv, TypeOK, SyncFile, Goto, shared
<1>6. ASSUME NEW r \in Runner, SyncDone(r) PROVE TypeInv'
  <2>1. seen[r] \in Manifest /\ store[r] \in StoreType
    BY <1>6 DEF TypeInv, TypeOK, SyncDone, StoreType
  <2>2. Materialized(r, Dataset) \in StoreType
    BY <2>1, MaterializedType
  <2>3. seen[r].gen \in Int
    BY <2>1 DEF Manifest
  <2> QED BY <1>6, <2>2, <2>3 DEF TypeInv, TypeOK, SyncDone, Goto, shared, StoreType
<1>7. ASSUME NEW r \in Runner, SyncTorn(r) PROVE TypeInv'
  <2>1. PICK D \in SUBSET Dataset : store' = [store EXCEPT ![r] = Materialized(r, D)]
    BY <1>7 DEF SyncTorn
  <2>2. Materialized(r, D) \in StoreType
    BY <1>7, MaterializedType DEF TypeInv, TypeOK, SyncTorn, StoreType
  <2> QED BY <1>7, <2>1, <2>2 DEF TypeInv, TypeOK, SyncTorn, Goto, shared, StoreType
<1>8. ASSUME NEW r \in Runner, SkipSync(r) PROVE TypeInv'
  BY <1>8 DEF TypeInv, TypeOK, SkipSync, Goto, shared, local
<1>9. ASSUME NEW r \in Runner, Produce(r) PROVE TypeInv'
  <2>1. PICK built \in [Writes[r] -> LocalEntries(r)] :
          LET st == [d \in Dataset |-> IF d \in Writes[r] THEN built[d] ELSE store[r][d]]
          IN /\ store' = [store EXCEPT ![r] = st]
             /\ IF st[Primary[r]] = NoEntry
                THEN Goto(r, "refused") /\ UNCHANGED <<gens, new>>
                ELSE /\ gens' = gens + 1
                     /\ new' = [new EXCEPT ![r] = BuiltManifest(r, st, gens + 1)]
                     /\ Goto(r, "open")
    BY <1>9 DEF Produce
  <2> DEFINE st == [d \in Dataset |-> IF d \in Writes[r] THEN built[d] ELSE store[r][d]]
  <2>2. LocalEntries(r) \subseteq EntryOrNone
    BY DEF LocalEntries, EntryOrNone, Entry
  <2>3. st \in StoreType
    BY <2>2 DEF TypeInv, TypeOK, StoreType
  <2>4. gens + 1 \in Nat
    BY DEF TypeInv, TypeOK
  <2> HIDE DEF st
  <2>5. CASE st[Primary[r]] = NoEntry
    BY <1>9, <2>1, <2>3, <2>5 DEF TypeInv, TypeOK, Produce, Goto, shared, StoreType, st
  <2>6. CASE st[Primary[r]] # NoEntry
    <3>1. BuiltManifest(r, st, gens + 1) \in Manifest
      BY <2>3, <2>4, <2>6, BuiltManifestType
    <3>2. /\ store' = [store EXCEPT ![r] = st]
          /\ gens' = gens + 1
          /\ new' = [new EXCEPT ![r] = BuiltManifest(r, st, gens + 1)]
          /\ Goto(r, "open")
      BY <2>1, <2>6 DEF st
    <3> QED BY <1>9, <2>3, <2>4, <3>1, <3>2, Sentinels
            DEF TypeInv, TypeOK, Produce, Goto, shared, StoreType
  <2> QED BY <2>5, <2>6
<1>10. ASSUME NEW r \in Runner, Quiet(r) PROVE TypeInv'
  BY <1>10 DEF TypeInv, TypeOK, Quiet, Goto, shared, local
<1>11. ASSUME NEW r \in Runner, OpenRelease(r) PROVE TypeInv'
  BY <1>11 DEF TypeInv, TypeOK, OpenRelease, Goto, local
<1>12. ASSUME NEW r \in Runner, ListAssets(r) PROVE TypeInv'
  BY <1>12 DEF TypeInv, TypeOK, ListAssets, Goto, shared
<1>13. ASSUME NEW r \in Runner, Admit(r) PROVE TypeInv'
  <2> DEFINE m == Carried(r, new[r], LiveRead(r), listed[r].files)
  <2>1. LiveRead(r) \in ManifestOrNone
    BY DEF TypeInv, TypeOK, LiveRead, ManifestOrNone
  <2>2. new[r] \in Manifest
    BY <1>13 DEF TypeInv, TypeOK, Admit
  <2>3. m \in Manifest
    BY <2>1, <2>2, CarriedType
  <2>4. OwnRefs(r, m) \ listed[r].files \subseteq Asset
    BY <2>3, RefsType DEF OwnRefs, ManifestOrNone
  <2>5. /\ new' = [new EXCEPT ![r] = m]
        /\ todo' = [todo EXCEPT ![r] = OwnRefs(r, m) \ listed[r].files]
    BY <1>13 DEF Admit
  <2> HIDE DEF m
  <2> QED BY <1>13, <2>1, <2>3, <2>4, <2>5, Sentinels
          DEF TypeInv, TypeOK, Admit, Goto, shared, ManifestOrNone
<1>14. ASSUME NEW r \in Runner, Refuse(r) PROVE TypeInv'
  <2>1. LiveRead(r) \in ManifestOrNone
    BY DEF TypeInv, TypeOK, LiveRead, ManifestOrNone
  <2> QED BY <1>14, <2>1 DEF TypeInv, TypeOK, Refuse, Goto, shared, ManifestOrNone
<1>15. ASSUME NEW r \in Runner, Upload(r) PROVE TypeInv'
  BY <1>15 DEF TypeInv, TypeOK, Upload, Goto
<1>16. ASSUME NEW r \in Runner, Flip(r) PROVE TypeInv'
  BY <1>16 DEF TypeInv, TypeOK, Flip, Goto, local
<1>17. ASSUME NEW r \in Runner, Verify(r) PROVE TypeInv'
  BY <1>17 DEF TypeInv, TypeOK, Verify, Goto, shared, local
<1>18. ASSUME NEW r \in Runner, GcList(r) PROVE TypeInv'
  <2>1. {a \in assets : a \in old /\ a.ds \in Owned[r] /\ a \notin Refs(new[r])} \subseteq Asset
    BY DEF TypeInv, TypeOK
  <2> QED BY <1>18, <2>1 DEF TypeInv, TypeOK, GcList, Goto, shared
<1>19. ASSUME NEW r \in Runner, GcStep(r) PROVE TypeInv'
  BY <1>19 DEF TypeInv, TypeOK, GcStep
<1>20. ASSUME NEW r \in Runner, Finish(r) PROVE TypeInv'
  <2>1. new[r].gen \in Int
    BY <1>20 DEF TypeInv, TypeOK, Finish, Manifest
  <2> QED BY <1>20, <2>1 DEF TypeInv, TypeOK, Finish, Goto, shared
<1>21. ASSUME NEW r \in Runner, End(r) PROVE TypeInv'
  <2>1. EmptyStore \in [Dataset -> EntryOrNone]
    BY DEF EmptyStore, EntryOrNone
  <2>2. NoListing \in [files : SUBSET Asset, manifest : BOOLEAN]
    BY DEF NoListing
  <2>3. /\ store' \in [Runner -> [Dataset -> EntryOrNone]]
        /\ synced' \in [Runner -> Int]
    <3>1. CASE r \in Persistent
      BY <1>21, <3>1 DEF TypeInv, TypeOK, End
    <3>2. CASE r \notin Persistent
      BY <1>21, <2>1, <3>2 DEF TypeInv, TypeOK, End, NeverSynced
    <3> QED BY <3>1, <3>2
  <2> QED BY <1>21, <2>2, <2>3 DEF TypeInv, TypeOK, End, Goto, shared
<1>22. ASSUME NEW r \in Runner, Fail(r) PROVE TypeInv'
  BY <1>22 DEF TypeInv, TypeOK, Fail, Goto, shared, local
<1>23. CASE GraceElapses
  BY <1>23 DEF TypeInv, TypeOK, GraceElapses, local
<1>24. CASE UNCHANGED vars
  BY <1>24 DEF TypeInv, TypeOK, vars, local
<1> QED
  BY <1>1, <1>2, <1>3, <1>4, <1>5, <1>6, <1>7, <1>8, <1>9, <1>10, <1>11, <1>12, <1>13, <1>14,
     <1>15, <1>16, <1>17, <1>18, <1>19, <1>20, <1>21, <1>22, <1>23, <1>24
  DEF Next, Step

\* Type correctness of every run, under no assumption on the lock: sync_store,
\* the builders and publish_dataset only ever make well-formed manifests.
THEOREM TypeCorrect == Spec => []TypeInv
BY TypeInit, TypeStep, PTL DEF Spec

THEOREM TypeCorrectness == Spec => []TypeOK
<1>1. TypeInv => TypeOK
  BY DEF TypeInv
<1> QED BY <1>1, TypeCorrect, PTL

-----------------------------------------------------------------------------
\* Inside the concurrency group

\* The lock makes the holder the only active run.
LEMMA OnlyHolderActive ==
  ASSUME PublishInvariant, NEW r \in Runner, Active(r)
  PROVE  lock = r /\ \A s \in Runner \ {r} : pc[s] = "idle"
BY DEF PublishInvariant, Active

\* What an admitted manifest names is on the release or queued for upload: the
\* foreign entries are carried only whole, and ours are queued unless listed.
LEMMA AdmittedRefs ==
  ASSUME NEW r \in Runner, NEW n \in Manifest, NEW m \in ManifestOrNone, NEW names
  PROVE  Refs(Carried(r, n, m, names))
           \subseteq names \cup (OwnRefs(r, Carried(r, n, m, names)) \ names)
<1> DEFINE c == Carried(r, n, m, names)
<1>1. c \in Manifest /\ \A d \in Dataset \ Owned[r] : c.ds[d] = CarriedForeign(r, d, EntriesOf(m)[d], names)
  BY CarriedType
<1> HIDE DEF c
<1>2. ASSUME NEW a \in Refs(c), a.ds \notin Owned[r] PROVE a \in names
  <2>1. a \in Asset /\ a \in EntryAssets(a.ds, EntriesOf(c)[a.ds])
    BY <1>1, <1>2, RefsType DEF ManifestOrNone
  <2>2. a.ds \in Dataset
    BY <2>1 DEF Asset
  <2>3. EntriesOf(c)[a.ds] = CarriedForeign(r, a.ds, EntriesOf(m)[a.ds], names)
    BY <1>1, <1>2, <2>2, Sentinels DEF EntriesOf
  <2> QED BY <2>1, <2>3 DEF CarriedForeign, EntryAssets
<1>3. Refs(c) \subseteq names \cup (OwnRefs(r, c) \ names)
  BY <1>2 DEF OwnRefs
<1> QED BY <1>3 DEF c

LEMMA PublishInit == Init => PublishInvariant
<1> SUFFICES ASSUME Init PROVE PublishInvariant
  OBVIOUS
<1>1. ManifestComplete
  BY DEF Init, ManifestComplete
<1> QED BY <1>1 DEF Init, PublishInvariant, UploadsNeverClash, Active

\* Only the active run moves, and it holds the lock.
LEMMA PublishStep ==
  ASSUME Runner \subseteq Locked, TypeInv, PublishInvariant, [Next]_vars
  PROVE  PublishInvariant'
<1> USE DEF PublishInvariant, ManifestComplete, UploadsNeverClash, Active
<1>1. ASSUME NEW r \in Runner, Start(r) PROVE PublishInvariant'
  <2>1. \A s \in Runner : pc[s] = "idle"
    BY <1>1, Sentinels DEF Start
  <2> QED BY <1>1, <2>1 DEF Start, Goto, shared, local, TypeInv, TypeOK
<1>2. ASSUME NEW r \in Runner, Step(r) \/ SyncTorn(r) \/ Fail(r) PROVE PublishInvariant'
  <2>1. pc[r] # "idle"
    BY <1>2 DEF Step, SyncTorn, Fail, SyncNothing, SyncManifest, SyncNoManifest, SyncFile, SyncDone,
       SkipSync, Produce, Quiet, OpenRelease, ListAssets, Admit, Refuse, Upload, Flip, Verify,
       GcList, GcStep, Finish, End, Killable
  <2>2. lock = r /\ \A s \in Runner \ {r} : pc[s] = "idle"
    BY <2>1, OnlyHolderActive
  <2> USE DEF Goto, shared, local, TypeInv, TypeOK, PC
  <2>3. CASE SyncNothing(r)
    BY <2>2, <2>3 DEF SyncNothing
  <2>4. CASE SyncManifest(r)
    BY <2>2, <2>4 DEF SyncManifest
  <2>5. CASE SyncNoManifest(r)
    BY <2>2, <2>5 DEF SyncNoManifest
  <2>6. CASE SyncFile(r)
    BY <2>2, <2>6 DEF SyncFile
  <2>7. CASE SyncDone(r)
    BY <2>2, <2>7 DEF SyncDone
  <2>8. CASE SyncTorn(r)
    BY <2>2, <2>8 DEF SyncTorn
  <2>9. CASE SkipSync(r)
    BY <2>2, <2>9 DEF SkipSync
  <2>10. CASE Produce(r)
    <3>1. pc' = [pc EXCEPT ![r] = "refused"] \/ pc' = [pc EXCEPT ![r] = "open"]
      BY <2>10 DEF Produce
    <3> QED BY <2>2, <2>10, <3>1 DEF Produce
  <2>11. CASE Quiet(r)
    BY <2>2, <2>11 DEF Quiet
  <2>12. CASE OpenRelease(r)
    BY <2>2, <2>12 DEF OpenRelease
  <2>13. CASE ListAssets(r)
    BY <2>2, <2>13 DEF ListAssets
  <2>14. CASE Admit(r)
    <3> DEFINE m == Carried(r, new[r], LiveRead(r), listed[r].files)
    <3>1. /\ new' = [new EXCEPT ![r] = m]
          /\ todo' = [todo EXCEPT ![r] = OwnRefs(r, m) \ listed[r].files]
          /\ pc' = [pc EXCEPT ![r] = "upload"]
      BY <2>14 DEF Admit
    <3>2. LiveRead(r) = live /\ listed[r].files = assets
      BY <2>14 DEF Admit, LiveRead
    <3>3. Refs(m) \subseteq assets \cup (OwnRefs(r, m) \ assets)
      <4>1. new[r] \in Manifest /\ live \in ManifestOrNone
        BY <2>14 DEF Admit, ManifestOrNone, HasManifest
      <4> QED BY <3>2, <4>1, AdmittedRefs
    <3>4. synced[r] = GenOf(live)
      BY <2>14, <3>2 DEF Admit, Admissible, LiveIsSynced
    <3> HIDE DEF m
    <3> QED BY <2>2, <2>14, <3>1, <3>2, <3>3, <3>4 DEF Admit
  <2>15. CASE Refuse(r)
    BY <2>2, <2>15 DEF Refuse
  <2>16. CASE Upload(r)
    <3>1. PICK a \in todo[r] :
            \/ /\ a \notin assets
               /\ assets' = assets \cup {a}
               /\ todo' = [todo EXCEPT ![r] = @ \ {a}]
               /\ UNCHANGED pc
            \/ /\ a \in assets
               /\ Goto(r, "failed")
               /\ UNCHANGED <<assets, todo>>
      BY <2>16 DEF Upload
    <3>2. a \notin assets
      BY <2>16 DEF Upload
    <3>3. /\ assets' = assets \cup {a}
          /\ todo' = [todo EXCEPT ![r] = @ \ {a}]
          /\ UNCHANGED <<pc, live, lock, synced, new, listed>>
      BY <2>16, <3>1, <3>2 DEF Upload
    <3>4. ManifestComplete'
      BY <3>3
    <3>5. UploadsNeverClash'
      BY <2>2, <2>16, <3>3 DEF Upload
    <3>6. Refs(new[r]) \subseteq assets' \cup todo'[r] /\ synced[r] = GenOf(live)
      BY <2>16, <3>3 DEF Upload
    <3> QED BY <2>2, <2>16, <3>3, <3>4, <3>5, <3>6 DEF Upload
  <2>17. CASE Flip(r)
    BY <2>2, <2>17 DEF Flip
  <2>18. CASE Verify(r)
    <3>1. \/ live = new[r] /\ pc' = [pc EXCEPT ![r] = "collect"]
          \/ pc' = [pc EXCEPT ![r] = "failed"]
      BY <2>18 DEF Verify
    <3>2. UNCHANGED <<assets, live, lock, synced, new, listed, todo>>
      BY <2>18 DEF Verify
    <3> QED BY <2>2, <2>18, <3>1, <3>2 DEF Verify
  <2>19. CASE GcList(r)
    BY <2>2, <2>19 DEF GcList
  <2>20. CASE GcStep(r)
    BY <2>2, <2>20 DEF GcStep
  <2>21. CASE Finish(r)
    BY <2>2, <2>21 DEF Finish
  <2>22. CASE End(r)
    BY <2>2, <2>22 DEF End
  <2>23. CASE Fail(r)
    BY <2>2, <2>23 DEF Fail
  <2> QED
    BY <1>2, <2>3, <2>4, <2>5, <2>6, <2>7, <2>8, <2>9, <2>10, <2>11, <2>12, <2>13, <2>14, <2>15,
       <2>16, <2>17, <2>18, <2>19, <2>20, <2>21, <2>22, <2>23
    DEF Step
<1>3. CASE GraceElapses
  BY <1>3 DEF GraceElapses, local
<1>4. CASE UNCHANGED vars
  BY <1>4 DEF vars, local
<1> QED BY <1>1, <1>2, <1>3, <1>4 DEF Next

\* publish.py's promise, for every number of producers: if all of them hold the
\* lock for their whole run, whatever manifest is readable names only assets
\* that are there, and no upload meets its own name.
THEOREM PublishIsSafe ==
  ASSUME Runner \subseteq Locked
  PROVE  Spec => []PublishInvariant
<1>1. TypeInv /\ PublishInvariant /\ [Next]_vars => PublishInvariant'
  BY PublishStep
<1> QED BY <1>1, PublishInit, TypeCorrect, PTL DEF Spec

THEOREM ManifestAlwaysComplete ==
  ASSUME Runner \subseteq Locked
  PROVE  Spec => []ManifestComplete
<1>1. PublishInvariant => ManifestComplete
  BY DEF PublishInvariant
<1> QED BY <1>1, PublishIsSafe, PTL

THEOREM UploadsAlwaysFresh ==
  ASSUME Runner \subseteq Locked
  PROVE  Spec => []UploadsNeverClash
<1>1. PublishInvariant => UploadsNeverClash
  BY DEF PublishInvariant
<1> QED BY <1>1, PublishIsSafe, PTL

\* The compare-and-swap of check_cas is still true when the manifest is
\* replaced, many uploads later.
THEOREM SwapIsAtomic ==
  ASSUME Runner \subseteq Locked
  PROVE  Spec => ReplacesOnlyWhatItSynced
<1>1. PublishInvariant =>
        \A r \in Runner : pc[r] = "upload" /\ pc'[r] = "verify" => synced[r] = GenOf(live)
  BY DEF PublishInvariant
<1> QED BY <1>1, PublishIsSafe, PTL DEF ReplacesOnlyWhatItSynced

\* Only _gc deletes, and only what its invariant lets it.
LEMMA CollectStep ==
  ASSUME TypeInv, PublishInvariant, [Next]_vars, NEW a \in assets \ assets'
  PROVE  a \notin Refs(live) /\ \E r \in Runner : pc[r] = "gc" /\ a.ds \in Owned[r]
<1>1. PICK r \in Runner : GcStep(r)
  BY DEF Next, Step, vars, shared, local, Start, SyncNothing, SyncManifest, SyncNoManifest, SyncFile,
     SyncDone, SyncTorn, SkipSync, Produce, Quiet, OpenRelease, ListAssets, Admit, Refuse, Upload,
     Flip, Verify, GcList, Finish, End, Fail, GraceElapses
<1>2. a \in todo[r] /\ pc[r] = "gc"
  BY <1>1 DEF GcStep
<1> QED BY <1>2 DEF PublishInvariant

THEOREM OnlyTheDeadAreCollected ==
  ASSUME Runner \subseteq Locked
  PROVE  Spec => OnlyOwnDeadAssetsCollected
<1>1. TypeInv /\ PublishInvariant /\ [Next]_vars =>
        \A a \in assets \ assets' :
          /\ a \notin Refs(live)
          /\ \E r \in Runner : pc[r] = "gc" /\ a.ds \in Owned[r]
  BY CollectStep
<1> QED BY <1>1, PublishIsSafe, TypeCorrect, PTL DEF OnlyOwnDeadAssetsCollected, Spec

-----------------------------------------------------------------------------
\* Runs without a past

LEMMA HostedInit == Init => HostedRunInvariant
<1> SUFFICES ASSUME Init, NEW r \in Runner
             PROVE  pc[r] = "idle" /\ synced[r] = NeverSynced /\ new[r] = NoManifest
  BY DEF HostedRunInvariant
<1> QED BY DEF Init

\* A run that starts with an empty disk: what it synced stays what is live.
LEMMA HostedStep ==
  ASSUME Runner \subseteq Locked, TypeInv, PublishInvariant, HostedRunInvariant, [Next]_vars
  PROVE  HostedRunInvariant'
<1> USE DEF HostedRunInvariant, TypeInv, TypeOK, PC, Goto, shared, local
<1>1. ASSUME NEW r \in Runner, Start(r) PROVE HostedRunInvariant'
  <2>1. \A s \in Runner : pc[s] = "idle"
    BY <1>1, Sentinels DEF Start, PublishInvariant, Active
  <2> QED BY <1>1, <2>1 DEF Start
<1>2. ASSUME NEW r \in Runner, Step(r) \/ SyncTorn(r) \/ Fail(r) PROVE HostedRunInvariant'
  <2>1. pc[r] # "idle"
    BY <1>2 DEF Step, SyncTorn, Fail, SyncNothing, SyncManifest, SyncNoManifest, SyncFile, SyncDone,
       SkipSync, Produce, Quiet, OpenRelease, ListAssets, Admit, Refuse, Upload, Flip, Verify,
       GcList, GcStep, Finish, End, Killable
  <2>2. \A s \in Runner \ {r} : pc[s] = "idle"
    BY <2>1, OnlyHolderActive DEF Active
  <2>3. CASE SyncNothing(r)
    BY <2>2, <2>3 DEF SyncNothing, GenOf
  <2>4. CASE SyncManifest(r)
    BY <2>2, <2>4 DEF SyncManifest
  <2>5. CASE SyncNoManifest(r)
    BY <2>2, <2>5 DEF SyncNoManifest
  <2>6. CASE SyncFile(r)
    BY <2>2, <2>6 DEF SyncFile
  <2>7. CASE SyncDone(r)
    BY <2>2, <2>7 DEF SyncDone, GenOf
  <2>8. CASE SyncTorn(r)
    BY <2>2, <2>8 DEF SyncTorn
  <2>9. CASE SkipSync(r)
    BY <2>2, <2>9 DEF SkipSync
  <2>10. CASE Produce(r)
    <3>1. \/ pc' = [pc EXCEPT ![r] = "refused"] /\ UNCHANGED new
          \/ pc' = [pc EXCEPT ![r] = "open"]
      BY <2>10 DEF Produce
    <3>2. UNCHANGED <<live, synced, seen>> /\ \A s \in Runner \ {r} : new'[s] = new[s]
      BY <2>10 DEF Produce
    <3> QED BY <2>2, <2>10, <3>1, <3>2 DEF Produce
  <2>11. CASE Quiet(r)
    BY <2>2, <2>11 DEF Quiet
  <2>12. CASE OpenRelease(r)
    BY <2>2, <2>12 DEF OpenRelease
  <2>13. CASE ListAssets(r)
    BY <2>2, <2>13 DEF ListAssets
  <2>14. CASE Admit(r)
    BY <2>2, <2>14 DEF Admit
  <2>15. CASE Refuse(r)
    <3>1. LiveRead(r) = live
      BY <2>15 DEF Refuse, LiveRead, PublishInvariant
    <3>2. ASSUME r \notin Persistent PROVE Shrinks(r, new[r], live)
      <4>1. synced[r] = GenOf(live) /\ GenOf(live) \in Nat
        BY <2>15, <3>2, GenOfType DEF Refuse, ManifestOrNone
      <4> QED BY <2>15, <3>1, <4>1 DEF Refuse, Admissible, LiveIsSynced, NeverSynced
    <3> QED BY <2>2, <2>15, <3>2 DEF Refuse
  <2>16. CASE Upload(r)
    BY <2>2, <2>16 DEF Upload
  <2>17. CASE Flip(r)
    BY <2>2, <2>17 DEF Flip
  <2>18. CASE Verify(r)
    BY <2>2, <2>18 DEF Verify
  <2>19. CASE GcList(r)
    BY <2>2, <2>19 DEF GcList
  <2>20. CASE GcStep(r)
    BY <2>2, <2>20 DEF GcStep
  <2>21. CASE Finish(r)
    BY <2>2, <2>21 DEF Finish
  <2>22. CASE End(r)
    BY <2>2, <2>22 DEF End
  <2>23. CASE Fail(r)
    BY <2>2, <2>23 DEF Fail
  <2> QED
    BY <1>2, <2>3, <2>4, <2>5, <2>6, <2>7, <2>8, <2>9, <2>10, <2>11, <2>12, <2>13, <2>14,
       <2>15, <2>16, <2>17, <2>18, <2>19, <2>20, <2>21, <2>22, <2>23
    DEF Step
<1>3. CASE GraceElapses
  BY <1>3 DEF GraceElapses
<1>4. CASE UNCHANGED vars
  BY <1>4 DEF vars
<1> QED BY <1>1, <1>2, <1>3, <1>4 DEF Next

THEOREM HostedRuns ==
  ASSUME Runner \subseteq Locked
  PROVE  Spec => []HostedRunInvariant
<1>1. TypeInv /\ PublishInvariant /\ HostedRunInvariant /\ [Next]_vars => HostedRunInvariant'
  BY HostedStep
<1> QED BY <1>1, HostedInit, PublishIsSafe, TypeCorrect, PTL DEF Spec

\* A hosted run is never turned away because the release moved under it.
THEOREM RefusedForDataOnly ==
  ASSUME Runner \subseteq Locked
  PROVE  Spec => []RefusedOnlyForItsData
<1>1. HostedRunInvariant => RefusedOnlyForItsData
  BY DEF HostedRunInvariant, RefusedOnlyForItsData
<1> QED BY <1>1, HostedRuns, PTL

-----------------------------------------------------------------------------
\* The protocol implements the catalog

\* What the guards let through and the carries complete is a legal change of
\* the live catalog: check_no_shrink judges what the job builds, the carries
\* bring back the rest, whole, because the live manifest is complete.
LEMMA AdmittedMayPublish ==
  ASSUME NEW r \in Runner, NEW n \in Manifest, live \in ManifestOrNone,
         SyncedLane(r, n.ds), ManifestComplete, ~Shrinks(r, n, live)
  PROVE  MayPublish(r, live, Carried(r, n, live, assets))
<1> DEFINE c == Carried(r, n, live, assets)
<1>1. /\ c \in Manifest
      /\ c.date = n.date
      /\ \A d \in Owned[r] : c.ds[d] = CarriedDeltas(d, n.ds[d], EntriesOf(live)[d], assets)
      /\ \A d \in Dataset \ Owned[r] : c.ds[d] = CarriedForeign(r, d, EntriesOf(live)[d], assets)
  BY CarriedType
<1> HIDE DEF c
<1>2. Writes[r] \subseteq Owned[r] /\ Owned[r] \subseteq Dataset
  BY Registries
<1>3. \A d \in Dataset : EntriesOf(live)[d] \in EntryOrNone /\ n.ds[d] \in EntryOrNone
  BY EntriesOfType DEF StoreType, Manifest
<1>4. \A d \in Dataset : EntryAssets(d, EntriesOf(live)[d]) \subseteq assets
  <2>1. CASE live = NoManifest
    BY <2>1 DEF EntriesOf, EntryAssets
  <2>2. CASE live # NoManifest
    BY <2>2 DEF ManifestComplete, Refs
  <2> QED BY <2>1, <2>2
<1>5. ASSUME NEW d \in Dataset \ Writes[r]
      PROVE  c.ds[d] = EntriesOf(live)[d] \/ (d \in Retires[r] /\ c.ds[d] = NoEntry)
  <2> DEFINE was == EntriesOf(live)[d]
  <2>1. CASE d \notin Owned[r]
    BY <1>1, <1>4, <2>1 DEF CarriedForeign
  <2>2. CASE d \in Owned[r] /\ was = NoEntry
    BY <1>1, <2>2 DEF SyncedLane, CarriedDeltas
  <2>3. CASE d \in Owned[r] /\ was # NoEntry
    <3>1. was \in Entry
      BY <1>3, <2>3 DEF EntryOrNone
    <3>2. n.ds[d] = [base |-> was.base, deltas |-> {}]
      BY <2>3 DEF SyncedLane
    <3>3. n.ds[d] # NoEntry
      BY <3>1, <3>2, Sentinels DEF Entry
    <3> DEFINE kept == {x \in was.deltas : Delta(d, x) \in assets}
    <3>4. kept = was.deltas
      BY <1>4, <2>3 DEF EntryAssets
    <3>5. CarriedDeltas(d, n.ds[d], was, assets) = [n.ds[d] EXCEPT !.deltas = was.deltas]
      <4>1. n.ds[d].deltas = {}
        BY <3>2
      <4>2. CarriedDeltas(d, n.ds[d], was, assets) = [n.ds[d] EXCEPT !.deltas = kept]
        BY <2>3, <3>3, <4>1 DEF CarriedDeltas
      <4> HIDE DEF kept
      <4> QED BY <3>4, <4>2
    <3>6. [n.ds[d] EXCEPT !.deltas = was.deltas] = was
      BY <3>1, <3>2 DEF Entry
    <3> QED BY <1>1, <2>3, <3>5, <3>6
  <2> QED BY <2>1, <2>2, <2>3
<1>6. ASSUME NEW d \in Writes[r], EntriesOf(live)[d] # NoEntry
      PROVE  /\ c.ds[d] # NoEntry
             /\ \/ d \in MayShrink
                \/ r \in AllowShrink
                \/ RowsOf[EntriesOf(live)[d].base] <= RowsOf[c.ds[d].base]
  <2> DEFINE was == EntriesOf(live)[d]
  <2>1. d \in Owned[r] /\ d \in Dataset
    BY <1>2
  <2>2. live # NoManifest /\ was = live.ds[d]
    BY <1>6, <2>1 DEF EntriesOf
  <2>3. n.ds[d] # NoEntry
    BY <1>6, <2>1, <2>2 DEF Shrinks
  <2>4. n.ds[d] \in Entry /\ was \in Entry
    BY <1>3, <1>6, <2>1, <2>3 DEF EntryOrNone
  <2>5. c.ds[d] \in Entry /\ c.ds[d].base = n.ds[d].base
    <3>1. CASE n.ds[d].deltas # {}
      BY <1>1, <1>6, <2>1, <2>3, <2>4, <3>1 DEF CarriedDeltas
    <3>2. CASE n.ds[d].deltas = {}
      <4> DEFINE kept == {x \in was.deltas : Delta(d, x) \in assets}
      <4>1. kept \in SUBSET Content
        BY <2>4 DEF Entry
      <4>2. c.ds[d] = [n.ds[d] EXCEPT !.deltas = kept]
        BY <1>1, <1>6, <2>1, <2>3, <3>2 DEF CarriedDeltas
      <4> HIDE DEF kept
      <4> QED BY <2>4, <4>1, <4>2 DEF Entry
    <3> QED BY <3>1, <3>2
  <2>6. \/ d \in MayShrink
        \/ r \in AllowShrink
        \/ ~(RowsOf[n.ds[d].base] < RowsOf[was.base])
    BY <1>6, <2>1, <2>2 DEF Shrinks
  <2>7. RowsOf[n.ds[d].base] \in Nat /\ RowsOf[was.base] \in Nat
    BY <2>4, RowsAndDates DEF Entry
  <2>8. c.ds[d] # NoEntry
    BY <2>5, Sentinels
  <2> QED BY <2>5, <2>6, <2>7, <2>8
<1>7. DateIn(live) <= c.date
  BY <1>1 DEF DateIn, Shrinks, Manifest, ManifestOrNone
<1>8. MayPublish(r, live, c)
  BY <1>5, <1>6, <1>7 DEF MayPublish
<1> QED BY <1>8 DEF c

\* A fresh store that took in the whole manifest holds the live baselines.
LEMMA SyncedFilesAreLive ==
  ASSUME NEW r \in Runner, live \in Manifest, seen[r] = live, store[r] = EmptyStore
  PROVE  SyncedLane(r, Materialized(r, Dataset))
<1>1. Owned[r] \subseteq Dataset /\ live # NoManifest
  BY Registries, Sentinels
<1> QED BY <1>1 DEF SyncedLane, Materialized, EntriesOf, EmptyStore

LEMMA LaneInit == Init => LaneInvariant
<1> SUFFICES ASSUME Init, NEW r \in Runner
             PROVE  pc[r] = "idle" /\ store[r] = EmptyStore
  BY DEF LaneInvariant
<1> QED BY DEF Init

\* A hosted run carries exactly the live baselines from its sync to its guards.
LEMMA LaneStep ==
  ASSUME Runner \subseteq Locked, TypeInv, PublishInvariant, HostedRunInvariant, LaneInvariant,
         [Next]_vars
  PROVE  LaneInvariant'
<1> USE DEF LaneInvariant, TypeInv, TypeOK, PC, Goto, shared, local
<1>1. ASSUME NEW r \in Runner, Start(r) PROVE LaneInvariant'
  <2>1. \A s \in Runner : pc[s] = "idle"
    BY <1>1, Sentinels DEF Start, PublishInvariant, Active
  <2> QED BY <1>1, <2>1 DEF Start
<1>2. ASSUME NEW r \in Runner, Step(r) \/ SyncTorn(r) \/ Fail(r) PROVE LaneInvariant'
  <2>1. pc[r] # "idle"
    BY <1>2 DEF Step, SyncTorn, Fail, SyncNothing, SyncManifest, SyncNoManifest, SyncFile, SyncDone,
       SkipSync, Produce, Quiet, OpenRelease, ListAssets, Admit, Refuse, Upload, Flip, Verify,
       GcList, GcStep, Finish, End, Killable
  <2>2. \A s \in Runner \ {r} : pc[s] = "idle"
    BY <2>1, OnlyHolderActive DEF Active
  <2>3. CASE SyncNothing(r)
    <3>1. live = NoManifest
      BY <2>3 DEF SyncNothing
    <3>2. ASSUME r \notin Persistent PROVE SyncedLane(r, store[r])
      BY <2>3, <3>1, <3>2, Registries DEF SyncNothing, SyncedLane, EntriesOf, EmptyStore
    <3> QED BY <2>2, <2>3, <3>2 DEF SyncNothing, SyncedLane
  <2>4. CASE SyncManifest(r)
    BY <2>2, <2>4 DEF SyncManifest
  <2>5. CASE SyncNoManifest(r)
    BY <2>2, <2>5 DEF SyncNoManifest
  <2>6. CASE SyncFile(r)
    BY <2>2, <2>6 DEF SyncFile
  <2>7. CASE SyncDone(r)
    <3>1. ASSUME r \notin Persistent PROVE SyncedLane(r, Materialized(r, Dataset))
      <4>1. seen[r] = live /\ store[r] = EmptyStore /\ live \in Manifest
        BY <2>7, <3>1 DEF SyncDone, HostedRunInvariant
      <4> QED BY <4>1, SyncedFilesAreLive
    <3>2. /\ store' = [store EXCEPT ![r] = Materialized(r, Dataset)]
          /\ pc' = [pc EXCEPT ![r] = "work"]
          /\ UNCHANGED live
      BY <2>7 DEF SyncDone
    <3>3. ASSUME r \notin Persistent PROVE SyncedLane(r, store[r])'
      BY <3>1, <3>2, <3>3 DEF SyncedLane
    <3> QED BY <2>2, <3>2, <3>3
  <2>8. CASE SyncTorn(r)
    <3>1. pc' = [pc EXCEPT ![r] = "failed"] /\ \A s \in Runner \ {r} : store'[s] = store[s]
      BY <2>8 DEF SyncTorn
    <3> QED BY <2>2, <3>1
  <2>9. CASE SkipSync(r)
    <3>1. r \in Persistent /\ pc' = [pc EXCEPT ![r] = "work"] /\ UNCHANGED <<store, live, new>>
      BY <2>9 DEF SkipSync
    <3> QED BY <2>2, <3>1
  <2>10. CASE Produce(r)
    <3>1. PICK built \in [Writes[r] -> LocalEntries(r)] :
            LET st == [d \in Dataset |-> IF d \in Writes[r] THEN built[d] ELSE store[r][d]]
            IN /\ store' = [store EXCEPT ![r] = st]
               /\ IF st[Primary[r]] = NoEntry
                  THEN Goto(r, "refused") /\ UNCHANGED <<gens, new>>
                  ELSE /\ gens' = gens + 1
                       /\ new' = [new EXCEPT ![r] = BuiltManifest(r, st, gens + 1)]
                       /\ Goto(r, "open")
      BY <2>10 DEF Produce
    <3> DEFINE st == [d \in Dataset |-> IF d \in Writes[r] THEN built[d] ELSE store[r][d]]
    <3>2. \A d \in Owned[r] \ Writes[r] : st[d] = store[r][d] /\ BuiltManifest(r, st, gens + 1).ds[d] = st[d]
      BY Registries DEF BuiltManifest
    <3>3. store' = [store EXCEPT ![r] = st]
      BY <3>1
    <3> HIDE DEF st
    <3>4. \/ pc' = [pc EXCEPT ![r] = "refused"]
          \/ pc' = [pc EXCEPT ![r] = "open"] /\ new' = [new EXCEPT ![r] = BuiltManifest(r, st, gens + 1)]
      BY <3>1 DEF st
    <3>5. ASSUME r \notin Persistent
          PROVE  SyncedLane(r, BuiltManifest(r, st, gens + 1).ds)
      <4>1. SyncedLane(r, store[r])
        BY <2>10, <3>5 DEF Produce
      <4> QED BY <3>2, <4>1 DEF SyncedLane
    <3>6. UNCHANGED live
      BY <2>10 DEF Produce
    <3>7. ASSUME r \notin Persistent, pc'[r] = "open" PROVE SyncedLane(r, new[r].ds)'
      <4>1. new'[r] = BuiltManifest(r, st, gens + 1)
        BY <3>4, <3>7
      <4> QED BY <3>5, <3>6, <3>7, <4>1 DEF SyncedLane
    <3> QED BY <2>2, <3>3, <3>4, <3>7
  <2>11. CASE Quiet(r)
    BY <2>2, <2>11 DEF Quiet
  <2>12. CASE OpenRelease(r)
    <3>1. pc' = [pc EXCEPT ![r] = "list"] /\ UNCHANGED <<store, live, new>>
      BY <2>12 DEF OpenRelease
    <3>2. ASSUME r \notin Persistent PROVE SyncedLane(r, new[r].ds)'
      <4>1. SyncedLane(r, new[r].ds)
        BY <2>12, <3>2 DEF OpenRelease
      <4> QED BY <3>1, <4>1 DEF SyncedLane
    <3> QED BY <2>2, <3>1, <3>2
  <2>13. CASE ListAssets(r)
    <3>1. pc' = [pc EXCEPT ![r] = "read"] /\ UNCHANGED <<store, live, new>>
      BY <2>13 DEF ListAssets
    <3>2. ASSUME r \notin Persistent PROVE SyncedLane(r, new[r].ds)'
      <4>1. SyncedLane(r, new[r].ds)
        BY <2>13, <3>2 DEF ListAssets
      <4> QED BY <3>1, <4>1 DEF SyncedLane
    <3> QED BY <2>2, <3>1, <3>2
  <2>14. CASE Admit(r)
    <3>1. LiveRead(r) = live /\ listed[r].files = assets
      BY <2>14 DEF Admit, LiveRead, PublishInvariant
    <3>2. ASSUME r \notin Persistent
          PROVE  MayPublish(r, live, Carried(r, new[r], live, assets))
      <4>1. new[r] \in Manifest /\ live \in ManifestOrNone
        BY <2>14 DEF Admit, ManifestOrNone, HasManifest
      <4>2. SyncedLane(r, new[r].ds) /\ ~Shrinks(r, new[r], live)
        BY <2>14, <3>1, <3>2 DEF Admit, Admissible
      <4>3. ManifestComplete
        BY DEF PublishInvariant
      <4> QED BY <4>1, <4>2, <4>3, AdmittedMayPublish
    <3>3. /\ pc' = [pc EXCEPT ![r] = "upload"]
          /\ new' = [new EXCEPT ![r] = Carried(r, new[r], live, assets)]
          /\ UNCHANGED <<store, live>>
      BY <2>14, <3>1 DEF Admit
    <3>4. ASSUME r \notin Persistent PROVE MayPublish(r, live, new[r])'
      BY <3>2, <3>3, <3>4 DEF MayPublish
    <3> QED BY <2>2, <3>3, <3>4
  <2>15. CASE Refuse(r)
    BY <2>2, <2>15 DEF Refuse
  <2>16. CASE Upload(r)
    <3>1. /\ pc' = pc \/ pc' = [pc EXCEPT ![r] = "failed"]
          /\ UNCHANGED <<store, live, new>>
      BY <2>16 DEF Upload
    <3>2. ASSUME r \notin Persistent PROVE MayPublish(r, live, new[r])'
      BY <2>16, <3>1, <3>2 DEF Upload, MayPublish
    <3> QED BY <2>2, <2>16, <3>1, <3>2 DEF Upload
  <2>17. CASE Flip(r)
    BY <2>2, <2>17 DEF Flip
  <2>18. CASE Verify(r)
    BY <2>2, <2>18 DEF Verify
  <2>19. CASE GcList(r)
    BY <2>2, <2>19 DEF GcList
  <2>20. CASE GcStep(r)
    BY <2>2, <2>20 DEF GcStep
  <2>21. CASE Finish(r)
    BY <2>2, <2>21 DEF Finish
  <2>22. CASE End(r)
    BY <2>2, <2>22 DEF End
  <2>23. CASE Fail(r)
    BY <2>2, <2>23 DEF Fail
  <2> QED
    BY <1>2, <2>3, <2>4, <2>5, <2>6, <2>7, <2>8, <2>9, <2>10, <2>11, <2>12, <2>13, <2>14,
       <2>15, <2>16, <2>17, <2>18, <2>19, <2>20, <2>21, <2>22, <2>23
    DEF Step
<1>3. CASE GraceElapses
  BY <1>3 DEF GraceElapses, SyncedLane, MayPublish
<1>4. CASE UNCHANGED vars
  BY <1>4 DEF vars, SyncedLane, MayPublish
<1> QED BY <1>1, <1>2, <1>3, <1>4 DEF Next

THEOREM HostedRunsStayInLane ==
  ASSUME Runner \subseteq Locked
  PROVE  Spec => []LaneInvariant
<1>1. TypeInv /\ PublishInvariant /\ HostedRunInvariant /\ LaneInvariant /\ [Next]_vars
        => LaneInvariant'
  BY LaneStep
<1> QED BY <1>1, LaneInit, HostedRuns, PublishIsSafe, TypeCorrect, PTL DEF Spec

\* Any release one may start from is a catalog.
LEMMA CatalogInit == Init => Catalog!Init
<1> SUFFICES ASSUME Init PROVE Catalog!Init
  OBVIOUS
<1>1. live \in ManifestOrNone
  BY Seeding DEF Init, ManifestOrNone
<1>2. EntriesOf(live) \in [Dataset -> Catalog!EntryOrNone]
  BY <1>1, EntriesOfType DEF StoreType, EntryOrNone, Entry, Catalog!EntryOrNone, Catalog!Entry
<1>3. DateIn(live) \in Nat
  BY <1>1 DEF DateIn, Manifest, ManifestOrNone
<1> QED BY <1>2, <1>3 DEF Catalog!Init

\* A flip is one Publish of the catalog; every other step leaves it alone.
LEMMA CatalogStep ==
  ASSUME Runner \cap Persistent = {}, TypeInv, LaneInvariant, [Next]_vars
  PROVE  Catalog!Next \/ UNCHANGED <<EntriesOf(live), DateIn(live)>>
<1>1. CASE UNCHANGED live
  BY <1>1
<1>2. CASE live' # live
  <2>1. PICK r \in Runner : Flip(r)
    BY <1>2 DEF Next, Step, vars, shared, local, Start, SyncNothing, SyncManifest, SyncNoManifest,
       SyncFile, SyncDone, SyncTorn, SkipSync, Produce, Quiet, OpenRelease, ListAssets, Admit,
       Refuse, Upload, Verify, GcList, GcStep, Finish, End, Fail, GraceElapses
  <2>2. live' = new[r] /\ new[r] \in Manifest
    BY <2>1 DEF Flip, TypeInv, TypeOK, HasManifest
  <2>3. MayPublish(r, live, new[r])
    BY <2>1 DEF Flip, LaneInvariant
  <2>4. EntriesOf(live)' = new[r].ds /\ DateIn(live)' = new[r].date
    BY <2>2, Sentinels DEF EntriesOf, DateIn
  <2>5. /\ EntriesOf(live)' \in [Dataset -> Catalog!EntryOrNone]
        /\ DateIn(live)' \in Nat
    BY <2>2, <2>4 DEF Manifest, EntryOrNone, Entry, Catalog!EntryOrNone, Catalog!Entry
  <2>6. Catalog!StaysInLane(r) /\ Catalog!KeepsCoverage(r)
    BY <2>3, <2>4 DEF MayPublish, Catalog!StaysInLane, Catalog!KeepsCoverage
  <2> QED BY <2>5, <2>6 DEF Catalog!Next, Catalog!Publish
<1> QED BY <1>1, <1>2

\* The protocol of the hosted workflows implements the abstract catalog: seen
\* by a client, every publish is one atomic change of the datasets its job
\* builds, which loses neither a dataset, nor rows, nor days.
THEOREM RefinesCatalog ==
  ASSUME Runner \subseteq Locked, Runner \cap Persistent = {}
  PROVE  Spec => ImplementsCatalog
<1>1. TypeInv /\ LaneInvariant /\ [Next]_vars
        => Catalog!Next \/ UNCHANGED <<EntriesOf(live), DateIn(live)>>
  BY CatalogStep
<1> QED BY <1>1, CatalogInit, HostedRunsStayInLane, TypeCorrect, PTL
        DEF Spec, ImplementsCatalog, Catalog!Spec
=============================================================================
