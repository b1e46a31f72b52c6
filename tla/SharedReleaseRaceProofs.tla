---------------------- MODULE SharedReleaseRaceProofs ----------------------
(***************************************************************************)
(* What is left of the protocol without the concurrency group: an admitted *)
(* run is a rebase on the manifest it read.  The compare-and-swap compares *)
(* generated_at only, so the argument is about numbers: a manifest has one *)
(* of its own, is flipped once, and a store whose synced state has the     *)
(* number of the live manifest holds what that manifest names.             *)
(***************************************************************************)
EXTENDS SharedReleaseProofs

\* A manifest that is built and not yet flipped, and one that is built.
Pending == {"open", "list", "read", "upload"}
Flipped == {"verify", "collect", "gc"}

\* The store of r holds what m names of the datasets its job does not build.
Agrees(r, m) ==
  \A d \in Owned[r] \ Writes[r] :
    m.ds[d] # NoEntry => store[r][d] # NoEntry /\ store[r][d].base = m.ds[d].base

\* What r publishes of its own is what its store holds.
FromStore(r) ==
  \A d \in Owned[r] \ Writes[r] :
    /\ (new[r].ds[d] = NoEntry) = (store[r][d] = NoEntry)
    /\ new[r].ds[d] # NoEntry => new[r].ds[d].base = store[r][d].base

\* No manifest that is still to be flipped shares its number.
Numbered ==
  /\ live # NoManifest => live.gen \in 1..gens
  /\ \A r \in Runner :
       /\ synced[r] <= gens
       /\ seen[r] # NoManifest => seen[r].gen \in 1..gens
       /\ new[r] # NoManifest => new[r].gen \in 1..gens
  /\ \A q \in Runner : pc[q] \in Pending =>
       /\ live # NoManifest => live.gen # new[q].gen
       /\ \A r \in Runner :
            /\ synced[r] # new[q].gen
            /\ seen[r] # NoManifest => seen[r].gen # new[q].gen
            /\ r # q /\ new[r] # NoManifest => new[r].gen # new[q].gen

\* The number of the live manifest stands for it.
KnownByNumber ==
  live # NoManifest =>
    \A r \in Runner :
      /\ pc[r] = "sync" /\ (seen[r].gen = live.gen \/ synced[r] = live.gen) => seen[r] = live
      /\ pc[r] \in Flipped /\ new[r].gen = live.gen => new[r] = live
      /\ synced[r] = live.gen => Agrees(r, live)

RaceInvariant ==
  /\ TypeInv
  /\ Numbered
  /\ KnownByNumber
  /\ \A r \in Runner : pc[r] \in Pending \cup Flipped => FromStore(r)
  /\ BuildsOnWhatItRead
-----------------------------------------------------------------------------
\* Carrying deltas forward keeps the baseline, and the number of the manifest.
LEMMA CarriedKeepsBase ==
  ASSUME NEW d, NEW e \in EntryOrNone, NEW was \in EntryOrNone, NEW names
  PROVE  /\ (CarriedDeltas(d, e, was, names) = NoEntry) = (e = NoEntry)
         /\ e # NoEntry => CarriedDeltas(d, e, was, names).base = e.base
<1>1. CASE e = NoEntry \/ was = NoEntry \/ e.deltas # {}
  BY <1>1 DEF CarriedDeltas
<1>2. CASE e \in Entry /\ was \in Entry /\ e.deltas = {}
  <2>1. {c \in was.deltas : Delta(d, c) \in names} \in SUBSET Content
    BY <1>2 DEF Entry
  <2> DEFINE kept == [e EXCEPT !.deltas = {c \in was.deltas : Delta(d, c) \in names}]
  <2>2. kept \in Entry /\ kept.base = e.base
    BY <1>2, <2>1 DEF Entry
  <2>3. e # NoEntry /\ was # NoEntry
    BY <1>2, Sentinels
  <2>4. CarriedDeltas(d, e, was, names) = kept
    BY <1>2, <2>3 DEF CarriedDeltas
  <2> QED BY <2>2, <2>3, <2>4, Sentinels
<1> QED BY <1>1, <1>2 DEF EntryOrNone

LEMMA CarriedKeepsGen ==
  ASSUME NEW r \in Runner, NEW n \in Manifest, NEW m, NEW names
  PROVE  Carried(r, n, m, names).gen = n.gen
BY DEF Carried, Manifest

LEMMA RaceInit == Init => RaceInvariant
<1> SUFFICES ASSUME Init PROVE RaceInvariant
  OBVIOUS
<1>1. TypeInv
  BY TypeInit
<1>2. live # NoManifest => live.gen = 1 /\ gens = 1
  BY Seeding DEF Init, GenOf
<1>3. gens \in Nat
  BY <1>1 DEF TypeInv, TypeOK
<1> QED BY <1>1, <1>2, <1>3
        DEF Init, RaceInvariant, Numbered, KnownByNumber, BuildsOnWhatItRead, Pending, Flipped, NeverSynced

\* A step that moves no manifest, store or synced state, and takes a run no
\* further than it was, keeps the invariant.
LEMMA RaceKept ==
  ASSUME RaceInvariant, TypeInv',
         UNCHANGED <<live, gens, synced, store, seen, new>>,
         \A q \in Runner :
           /\ pc'[q] = "sync" => pc[q] = "sync"
           /\ pc'[q] = "upload" => pc[q] = "upload"
           /\ pc'[q] \in Pending => pc[q] \in Pending
           /\ pc'[q] \in Flipped => pc[q] \in Flipped
  PROVE  RaceInvariant'
<1>1. Numbered'
  BY DEF RaceInvariant, Numbered
<1>2. KnownByNumber'
  BY DEF RaceInvariant, KnownByNumber, Agrees
<1>3. (\A r \in Runner : pc[r] \in Pending \cup Flipped => FromStore(r))'
  BY DEF RaceInvariant, FromStore
<1>4. BuildsOnWhatItRead'
  BY DEF RaceInvariant, BuildsOnWhatItRead, EntriesOf
<1> QED BY <1>1, <1>2, <1>3, <1>4 DEF RaceInvariant

-----------------------------------------------------------------------------
\* The steps that do move them, one lemma each.

\* A sync has the live manifest at hand.
LEMMA RaceSyncManifest ==
  ASSUME RaceInvariant, TypeInv', NEW r \in Runner, SyncManifest(r)
  PROVE  RaceInvariant'
<1> USE DEF RaceInvariant, Goto, shared, Pending, Flipped
<1>1. /\ pc' = [pc EXCEPT ![r] = "sync"]
      /\ seen' = [seen EXCEPT ![r] = live]
      /\ UNCHANGED <<live, gens, synced, store, new>>
      /\ live # NoManifest
  BY DEF SyncManifest
<1>2. pc \in [Runner -> PC] /\ seen \in [Runner -> Manifest \cup {NoManifest}]
  BY DEF TypeInv, TypeOK
<1>3. \A q \in Runner : q # r => pc'[q] = pc[q] /\ seen'[q] = seen[q]
  BY <1>1, <1>2
<1>4. pc'[r] = "sync" /\ seen'[r] = live
  BY <1>1, <1>2
<1>5. Numbered'
  BY <1>1, <1>3, <1>4 DEF Numbered
<1>6. KnownByNumber'
  BY <1>1, <1>3, <1>4 DEF KnownByNumber, Agrees
<1>7. (\A q \in Runner : pc[q] \in Pending \cup Flipped => FromStore(q))'
  BY <1>1, <1>3, <1>4 DEF FromStore
<1>8. BuildsOnWhatItRead'
  BY <1>1, <1>3, <1>4 DEF BuildsOnWhatItRead, EntriesOf
<1> QED BY <1>5, <1>6, <1>7, <1>8

\* With nothing to sync, the synced number is 0, which no manifest has.
LEMMA RaceSyncNothing ==
  ASSUME RaceInvariant, TypeInv', NEW r \in Runner, SyncNothing(r)
  PROVE  RaceInvariant'
<1> USE DEF RaceInvariant, Goto, shared, Pending, Flipped
<1>1. /\ pc' = [pc EXCEPT ![r] = "work"]
      /\ synced' = [synced EXCEPT ![r] = 0]
      /\ UNCHANGED <<live, gens, store, seen, new>>
  BY DEF SyncNothing
<1>2. pc \in [Runner -> PC] /\ synced \in [Runner -> Int] /\ gens \in Nat
  BY DEF TypeInv, TypeOK
<1>3. \A q \in Runner : q # r => pc'[q] = pc[q] /\ synced'[q] = synced[q]
  BY <1>1, <1>2
<1>4. pc'[r] = "work" /\ synced'[r] = 0
  BY <1>1, <1>2
<1>5. \A q \in Runner : pc[q] \in Pending => new[q].gen \in 1..gens
  BY DEF Numbered, TypeInv, HasManifest
<1>6. Numbered'
  BY <1>1, <1>2, <1>3, <1>4, <1>5 DEF Numbered
<1>7. KnownByNumber'
  <2>1. live # NoManifest => live.gen # 0
    BY DEF Numbered
  <2> QED BY <1>1, <1>3, <1>4, <2>1 DEF KnownByNumber, Agrees
<1>8. (\A q \in Runner : pc[q] \in Pending \cup Flipped => FromStore(q))'
  BY <1>1, <1>3, <1>4 DEF FromStore
<1>9. BuildsOnWhatItRead'
  BY <1>1, <1>3, <1>4 DEF BuildsOnWhatItRead, EntriesOf
<1> QED BY <1>6, <1>7, <1>8, <1>9

\* What phase 2 puts in place, in the order it likes, is the manifest at hand:
\* a store that agreed with it still does, and after the last file any does.
LEMMA MaterializedAgrees ==
  ASSUME NEW r \in Runner, NEW D, seen[r] \in Manifest, store[r] \in StoreType,
         Agrees(r, seen[r]) \/ Dataset \subseteq D
  PROVE  \A d \in Owned[r] \ Writes[r] :
           seen[r].ds[d] # NoEntry =>
             /\ Materialized(r, D)[d] # NoEntry
             /\ Materialized(r, D)[d].base = seen[r].ds[d].base
<1> SUFFICES ASSUME NEW d \in Owned[r] \ Writes[r], seen[r].ds[d] # NoEntry
             PROVE  /\ Materialized(r, D)[d] # NoEntry
                    /\ Materialized(r, D)[d].base = seen[r].ds[d].base
  OBVIOUS
<1>1. d \in Dataset /\ d \in Owned[r]
  BY Registries
<1>2. CASE d \in D
  <2> DEFINE e == [base |-> seen[r].ds[d].base,
                   deltas |-> IF store[r][d] = NoEntry THEN {} ELSE store[r][d].deltas]
  <2>1. Materialized(r, D)[d] = e
    BY <1>1, <1>2 DEF Materialized
  <2>2. e \in Entry
    <3>1. seen[r].ds[d] \in Entry
      BY <1>1 DEF Manifest, EntryOrNone
    <3>2. store[r][d] = NoEntry \/ store[r][d] \in Entry
      BY <1>1 DEF StoreType, EntryOrNone
    <3> QED BY <3>1, <3>2 DEF Entry
  <2>3. e.base = seen[r].ds[d].base
    OBVIOUS
  <2> HIDE DEF e
  <2> QED BY <2>1, <2>2, <2>3, Sentinels
<1>3. CASE d \notin D
  <2>1. Materialized(r, D)[d] = store[r][d]
    BY <1>1, <1>3 DEF Materialized
  <2> QED BY <1>1, <1>3, <2>1 DEF Agrees
<1> QED BY <1>2, <1>3

LEMMA RaceSyncDone ==
  ASSUME RaceInvariant, TypeInv', NEW r \in Runner, SyncDone(r)
  PROVE  RaceInvariant'
<1> USE DEF RaceInvariant, Goto, shared, Pending, Flipped
<1>1. /\ pc[r] = "sync"
      /\ pc' = [pc EXCEPT ![r] = "work"]
      /\ synced' = [synced EXCEPT ![r] = seen[r].gen]
      /\ store' = [store EXCEPT ![r] = Materialized(r, Dataset)]
      /\ UNCHANGED <<live, gens, seen, new>>
  BY DEF SyncDone
<1>2. /\ pc \in [Runner -> PC] /\ synced \in [Runner -> Int] /\ gens \in Nat
      /\ store \in [Runner -> StoreType] /\ seen[r] \in Manifest
  BY <1>1 DEF TypeInv, TypeOK, StoreType
<1>3. \A q \in Runner : q # r => pc'[q] = pc[q] /\ synced'[q] = synced[q] /\ store'[q] = store[q]
  BY <1>1, <1>2
<1>4. pc'[r] = "work" /\ synced'[r] = seen[r].gen /\ store'[r] = Materialized(r, Dataset)
  BY <1>1, <1>2
<1>5. seen[r] # NoManifest
  BY <1>1 DEF TypeInv
<1>6. Numbered'
  BY <1>1, <1>2, <1>3, <1>4, <1>5 DEF Numbered
<1>7. KnownByNumber'
  <2>1. ASSUME live # NoManifest, seen[r].gen = live.gen PROVE Agrees(r, live)'
    <3>1. seen[r] = live
      BY <1>1, <2>1 DEF KnownByNumber
    <3> QED BY <1>1, <1>2, <1>4, <3>1, MaterializedAgrees DEF Agrees
  <2> QED BY <1>1, <1>3, <1>4, <2>1 DEF KnownByNumber, Agrees
<1>8. (\A q \in Runner : pc[q] \in Pending \cup Flipped => FromStore(q))'
  BY <1>1, <1>3, <1>4 DEF FromStore
<1>9. BuildsOnWhatItRead'
  BY <1>1, <1>3, <1>4 DEF BuildsOnWhatItRead, EntriesOf
<1> QED BY <1>6, <1>7, <1>8, <1>9

\* A torn sync leaves the old number over files of two manifests: if that is
\* the live number, the two are one.
LEMMA RaceSyncTorn ==
  ASSUME RaceInvariant, TypeInv', NEW r \in Runner, SyncTorn(r)
  PROVE  RaceInvariant'
<1> USE DEF RaceInvariant, Goto, shared, Pending, Flipped
<1>1. PICK D \in SUBSET Dataset : store' = [store EXCEPT ![r] = Materialized(r, D)]
  BY DEF SyncTorn
<1>2. /\ pc[r] = "sync"
      /\ pc' = [pc EXCEPT ![r] = "failed"]
      /\ UNCHANGED <<live, gens, synced, seen, new>>
  BY DEF SyncTorn
<1>3. /\ pc \in [Runner -> PC] /\ store \in [Runner -> StoreType] /\ seen[r] \in Manifest
  BY <1>2 DEF TypeInv, TypeOK, StoreType
<1>4. \A q \in Runner : q # r => pc'[q] = pc[q] /\ store'[q] = store[q]
  BY <1>1, <1>2, <1>3
<1>5. pc'[r] = "failed" /\ store'[r] = Materialized(r, D)
  BY <1>1, <1>2, <1>3
<1>6. Numbered'
  BY <1>2, <1>4, <1>5 DEF Numbered
<1>7. KnownByNumber'
  <2>1. ASSUME live # NoManifest, synced[r] = live.gen PROVE Agrees(r, live)'
    <3>1. seen[r] = live /\ Agrees(r, live)
      BY <1>2, <2>1 DEF KnownByNumber
    <3> QED BY <1>2, <1>3, <1>5, <3>1, MaterializedAgrees DEF Agrees
  <2> QED BY <1>2, <1>4, <1>5, <2>1 DEF KnownByNumber, Agrees
<1>8. (\A q \in Runner : pc[q] \in Pending \cup Flipped => FromStore(q))'
  BY <1>2, <1>4, <1>5 DEF FromStore
<1>9. BuildsOnWhatItRead'
  BY <1>2, <1>4, <1>5 DEF BuildsOnWhatItRead, EntriesOf
<1> QED BY <1>6, <1>7, <1>8, <1>9

\* A build takes a number of its own, and touches only what its job builds.
LEMMA RaceProduce ==
  ASSUME RaceInvariant, TypeInv', NEW r \in Runner, Produce(r)
  PROVE  RaceInvariant'
<1> USE DEF RaceInvariant, Goto, shared, Pending, Flipped
<1>1. PICK built \in [Writes[r] -> LocalEntries(r)] :
        LET st == [d \in Dataset |-> IF d \in Writes[r] THEN built[d] ELSE store[r][d]]
        IN /\ store' = [store EXCEPT ![r] = st]
           /\ IF st[Primary[r]] = NoEntry
              THEN Goto(r, "refused") /\ UNCHANGED <<gens, new>>
              ELSE /\ gens' = gens + 1
                   /\ new' = [new EXCEPT ![r] = BuiltManifest(r, st, gens + 1)]
                   /\ Goto(r, "open")
  BY DEF Produce
<1> DEFINE st == [d \in Dataset |-> IF d \in Writes[r] THEN built[d] ELSE store[r][d]]
<1>2. /\ pc \in [Runner -> PC] /\ gens \in Nat /\ store \in [Runner -> StoreType]
      /\ new \in [Runner -> Manifest \cup {NoManifest}]
      /\ pc[r] = "work" /\ UNCHANGED <<live, synced, seen>>
  BY DEF TypeInv, TypeOK, StoreType, Produce
<1>3. \A d \in Owned[r] \ Writes[r] : d \in Dataset /\ st[d] = store[r][d]
  BY Registries
<1>4. /\ store' = [store EXCEPT ![r] = st]
      /\ \/ pc' = [pc EXCEPT ![r] = "refused"] /\ UNCHANGED <<gens, new>>
         \/ /\ gens' = gens + 1
            /\ new' = [new EXCEPT ![r] = BuiltManifest(r, st, gens + 1)]
            /\ pc' = [pc EXCEPT ![r] = "open"]
  BY <1>1
<1>5. /\ BuiltManifest(r, st, gens + 1).gen = gens + 1
      /\ \A d \in Owned[r] \ Writes[r] : BuiltManifest(r, st, gens + 1).ds[d] = st[d]
  BY <1>3 DEF BuiltManifest
<1> DEFINE built_ == BuiltManifest(r, st, gens + 1)
<1> HIDE DEF st, built_
<1>6. \A q \in Runner : q # r => pc'[q] = pc[q] /\ store'[q] = store[q] /\ new'[q] = new[q]
  BY <1>2, <1>4
<1>7. /\ store'[r] = st
      /\ \/ pc'[r] = "refused" /\ UNCHANGED <<gens, new>>
         \/ pc'[r] = "open" /\ gens' = gens + 1 /\ new'[r] = built_
  BY <1>2, <1>4 DEF built_
<1>8. built_.gen = gens + 1 /\ \A d \in Owned[r] \ Writes[r] : built_.ds[d] = store'[r][d]
  BY <1>5, <1>7 DEF built_
<1>9. Numbered'
  <2>1. \A q \in Runner : pc[q] \in Pending => new[q].gen \in 1..gens
    BY DEF Numbered, TypeInv, HasManifest
  <2>2. \A q \in Runner : synced[q] \in Int
    BY DEF TypeInv, TypeOK
  <2>3. CASE pc'[r] = "refused" /\ UNCHANGED <<gens, new>>
    BY <1>2, <1>6, <2>3 DEF Numbered
  <2>4. CASE pc'[r] = "open" /\ gens' = gens + 1 /\ new'[r] = built_
    BY <1>2, <1>6, <1>8, <2>1, <2>2, <2>4 DEF Numbered
  <2> QED BY <1>7, <2>3, <2>4
<1>10. KnownByNumber'
  <2>1. \A d \in Owned[r] \ Writes[r] : store'[r][d] = store[r][d]
    BY <1>3, <1>7
  <2> QED BY <1>2, <1>6, <1>7, <2>1 DEF KnownByNumber, Agrees
<1>11. (\A q \in Runner : pc[q] \in Pending \cup Flipped => FromStore(q))'
  BY <1>6, <1>7, <1>8 DEF FromStore
<1>12. BuildsOnWhatItRead'
  BY <1>2, <1>6, <1>7 DEF BuildsOnWhatItRead, EntriesOf
<1> QED BY <1>9, <1>10, <1>11, <1>12

\* The guards let a run through on its number alone: that number stands for the
\* manifest read, the store for what that manifest names.
LEMMA RaceAdmit ==
  ASSUME RaceInvariant, TypeInv', NEW r \in Runner, Admit(r)
  PROVE  RaceInvariant'
<1> USE DEF RaceInvariant, Goto, shared, Pending, Flipped
<1> DEFINE m == Carried(r, new[r], LiveRead(r), listed[r].files)
<1>1. /\ pc[r] = "read"
      /\ pc' = [pc EXCEPT ![r] = "upload"]
      /\ new' = [new EXCEPT ![r] = m]
      /\ seen' = [seen EXCEPT ![r] = LiveRead(r)]
      /\ UNCHANGED <<live, gens, synced, store>>
      /\ synced[r] = GenOf(LiveRead(r))
  BY DEF Admit, Admissible, LiveIsSynced
<1>2. /\ pc \in [Runner -> PC] /\ new \in [Runner -> Manifest \cup {NoManifest}]
      /\ seen \in [Runner -> Manifest \cup {NoManifest}]
      /\ new[r] \in Manifest /\ LiveRead(r) \in ManifestOrNone
  BY <1>1 DEF TypeInv, TypeOK, HasManifest, LiveRead, ManifestOrNone
<1>3. m.gen = new[r].gen
  BY <1>2, CarriedKeepsGen
<1>4. \A d \in Owned[r] \ Writes[r] :
        /\ (m.ds[d] = NoEntry) = (new[r].ds[d] = NoEntry)
        /\ new[r].ds[d] # NoEntry => m.ds[d].base = new[r].ds[d].base
  <2> SUFFICES ASSUME NEW d \in Owned[r] \ Writes[r]
               PROVE  /\ (m.ds[d] = NoEntry) = (new[r].ds[d] = NoEntry)
                      /\ new[r].ds[d] # NoEntry => m.ds[d].base = new[r].ds[d].base
    OBVIOUS
  <2>1. m.ds[d] = CarriedDeltas(d, new[r].ds[d], EntriesOf(LiveRead(r))[d], listed[r].files)
    BY <1>2, CarriedType
  <2>2. new[r].ds[d] \in EntryOrNone /\ EntriesOf(LiveRead(r))[d] \in EntryOrNone
    BY <1>2, EntriesOfType, Registries DEF Manifest, StoreType
  <2> HIDE DEF m
  <2> QED BY <2>1, <2>2, CarriedKeepsBase
<1> HIDE DEF m
<1>5. \A q \in Runner : q # r => pc'[q] = pc[q] /\ new'[q] = new[q] /\ seen'[q] = seen[q]
  BY <1>1, <1>2
<1>6. pc'[r] = "upload" /\ new'[r] = m /\ seen'[r] = LiveRead(r)
  BY <1>1, <1>2
<1>7. LiveRead(r) # NoManifest => LiveRead(r) = live
  BY DEF LiveRead
<1>8. Numbered'
  <2>1. new[r] # NoManifest /\ \A q \in Runner : pc'[q] \in Pending => pc[q] \in Pending
    BY <1>1, <1>2, <1>5, <1>6, Sentinels
  <2>2. /\ \A q \in Runner : new'[q] # NoManifest => new[q] # NoManifest /\ new'[q].gen = new[q].gen
        /\ \A q \in Runner : pc[q] \in Pending => new'[q].gen = new[q].gen
    BY <1>3, <1>5, <1>6, <2>1
  <2>3. \A q \in Runner :
          seen'[q] # NoManifest =>
            \/ seen[q] # NoManifest /\ seen'[q] = seen[q]
            \/ live # NoManifest /\ seen'[q] = live
    BY <1>5, <1>6, <1>7
  <2> QED BY <1>1, <2>1, <2>2, <2>3 DEF Numbered
<1>9. KnownByNumber'
  BY <1>1, <1>5, <1>6 DEF KnownByNumber, Agrees
<1>10. FromStore(r)'
  BY <1>1, <1>4, <1>6 DEF FromStore
<1>11. (\A q \in Runner : pc[q] \in Pending \cup Flipped => FromStore(q))'
  BY <1>1, <1>5, <1>10 DEF FromStore
<1>12. \A d \in Owned[r] \ Writes[r] :
         EntriesOf(LiveRead(r))[d] # NoEntry =>
           m.ds[d] # NoEntry /\ m.ds[d].base = EntriesOf(LiveRead(r))[d].base
  <2> SUFFICES ASSUME NEW d \in Owned[r] \ Writes[r], EntriesOf(LiveRead(r))[d] # NoEntry
               PROVE  m.ds[d] # NoEntry /\ m.ds[d].base = EntriesOf(LiveRead(r))[d].base
    OBVIOUS
  <2>1. d \in Dataset
    BY Registries
  <2>2. LiveRead(r) = live /\ live # NoManifest
    BY <1>7, <2>1 DEF EntriesOf
  <2>3. Agrees(r, live)
    BY <1>1, <2>2 DEF KnownByNumber, GenOf
  <2>4. store[r][d] # NoEntry /\ store[r][d].base = live.ds[d].base
    BY <2>2, <2>3 DEF Agrees, EntriesOf
  <2> QED BY <1>1, <1>4, <2>2, <2>4 DEF FromStore, EntriesOf
<1>13. BuildsOnWhatItRead'
  BY <1>1, <1>5, <1>6, <1>12 DEF BuildsOnWhatItRead, EntriesOf
<1> QED BY <1>8, <1>9, <1>11, <1>13

LEMMA RaceRefuse ==
  ASSUME RaceInvariant, TypeInv', NEW r \in Runner, Refuse(r)
  PROVE  RaceInvariant'
<1> USE DEF RaceInvariant, Goto, shared, Pending, Flipped
<1>1. /\ pc' = [pc EXCEPT ![r] = "refused"]
      /\ seen' = [seen EXCEPT ![r] = LiveRead(r)]
      /\ UNCHANGED <<live, gens, synced, store, new>>
  BY DEF Refuse
<1>2. pc \in [Runner -> PC] /\ seen \in [Runner -> Manifest \cup {NoManifest}]
  BY DEF TypeInv, TypeOK
<1>3. \A q \in Runner : q # r => pc'[q] = pc[q] /\ seen'[q] = seen[q]
  BY <1>1, <1>2
<1>4. pc'[r] = "refused" /\ seen'[r] = LiveRead(r)
  BY <1>1, <1>2
<1>5. LiveRead(r) # NoManifest => LiveRead(r) = live
  BY DEF LiveRead
<1>6. Numbered'
  BY <1>1, <1>3, <1>4, <1>5 DEF Numbered
<1>7. KnownByNumber'
  BY <1>1, <1>3, <1>4 DEF KnownByNumber, Agrees
<1>8. (\A q \in Runner : pc[q] \in Pending \cup Flipped => FromStore(q))'
  BY <1>1, <1>3, <1>4 DEF FromStore
<1>9. BuildsOnWhatItRead'
  BY <1>1, <1>3, <1>4 DEF BuildsOnWhatItRead, EntriesOf
<1> QED BY <1>6, <1>7, <1>8, <1>9

\* The manifest that goes live has a number nobody knew.
LEMMA RaceFlip ==
  ASSUME RaceInvariant, TypeInv', NEW r \in Runner, Flip(r)
  PROVE  RaceInvariant'
<1> USE DEF RaceInvariant, Goto, shared, local, Pending, Flipped
<1>1. /\ pc[r] = "upload"
      /\ pc' = [pc EXCEPT ![r] = "verify"]
      /\ live' = new[r]
      /\ UNCHANGED <<gens, synced, store, seen, new>>
  BY DEF Flip
<1>2. pc \in [Runner -> PC] /\ new[r] # NoManifest
  BY <1>1 DEF TypeInv, TypeOK, HasManifest
<1>3. \A q \in Runner : q # r => pc'[q] = pc[q]
  BY <1>1, <1>2
<1>4. pc'[r] = "verify"
  BY <1>1, <1>2
<1>5. \A q \in Runner : pc[q] \in {"verify", "collect", "gc"} => new[q] # NoManifest
  BY DEF TypeInv, HasManifest
<1>6. \A q \in Runner : pc[q] = "sync" => seen[q] # NoManifest
  BY DEF TypeInv
<1>7. /\ new[r].gen \in 1..gens
      /\ \A q \in Runner :
           /\ synced[q] # new[r].gen
           /\ seen[q] # NoManifest => seen[q].gen # new[r].gen
           /\ q # r /\ new[q] # NoManifest => new[q].gen # new[r].gen
  BY <1>1, <1>2 DEF Numbered
<1>8. \A q \in Runner : pc'[q] \in Pending => q # r /\ pc[q] \in Pending
  BY <1>3, <1>4
<1>9. Numbered'
  BY <1>1, <1>2, <1>7, <1>8 DEF Numbered
<1>10. KnownByNumber'
  BY <1>1, <1>3, <1>4, <1>5, <1>6, <1>7 DEF KnownByNumber, Agrees
<1>11. (\A q \in Runner : pc[q] \in Pending \cup Flipped => FromStore(q))'
  BY <1>1, <1>3, <1>4 DEF FromStore
<1>12. BuildsOnWhatItRead'
  BY <1>1, <1>3, <1>4 DEF BuildsOnWhatItRead, EntriesOf
<1> QED BY <1>9, <1>10, <1>11, <1>12

\* What a run published becomes its synced state, and its store holds it.
LEMMA RaceFinish ==
  ASSUME RaceInvariant, TypeInv', NEW r \in Runner, Finish(r)
  PROVE  RaceInvariant'
<1> USE DEF RaceInvariant, Goto, shared, Pending, Flipped
<1>1. /\ pc[r] = "gc"
      /\ pc' = [pc EXCEPT ![r] = "done"]
      /\ synced' = [synced EXCEPT ![r] = new[r].gen]
      /\ UNCHANGED <<live, gens, store, seen, new>>
  BY DEF Finish
<1>2. pc \in [Runner -> PC] /\ synced \in [Runner -> Int] /\ gens \in Nat /\ new[r] # NoManifest
  BY <1>1 DEF TypeInv, TypeOK, HasManifest
<1>3. \A q \in Runner : q # r => pc'[q] = pc[q] /\ synced'[q] = synced[q]
  BY <1>1, <1>2
<1>4. pc'[r] = "done" /\ synced'[r] = new[r].gen
  BY <1>1, <1>2
<1>5. Numbered'
  BY <1>1, <1>2, <1>3, <1>4 DEF Numbered
<1>6. KnownByNumber'
  <2>1. ASSUME live # NoManifest, new[r].gen = live.gen PROVE Agrees(r, live)
    <3>1. new[r] = live
      BY <1>1, <2>1 DEF KnownByNumber
    <3> QED BY <1>1, <3>1 DEF Agrees, FromStore
  <2> QED BY <1>1, <1>3, <1>4, <2>1 DEF KnownByNumber, Agrees
<1>7. (\A q \in Runner : pc[q] \in Pending \cup Flipped => FromStore(q))'
  BY <1>1, <1>3, <1>4 DEF FromStore
<1>8. BuildsOnWhatItRead'
  BY <1>1, <1>3, <1>4 DEF BuildsOnWhatItRead, EntriesOf
<1> QED BY <1>5, <1>6, <1>7, <1>8

\* A hosted disk is wiped with its number; an operator keeps both.
LEMMA RaceEnd ==
  ASSUME RaceInvariant, TypeInv', NEW r \in Runner, End(r)
  PROVE  RaceInvariant'
<1> USE DEF RaceInvariant, Goto, shared, Pending, Flipped
<1>1. /\ pc' = [pc EXCEPT ![r] = "idle"]
      /\ seen' = [seen EXCEPT ![r] = NoManifest]
      /\ new' = [new EXCEPT ![r] = NoManifest]
      /\ \/ UNCHANGED <<synced, store>>
         \/ /\ synced' = [synced EXCEPT ![r] = NeverSynced]
            /\ store' = [store EXCEPT ![r] = EmptyStore]
      /\ UNCHANGED <<live, gens>>
  BY DEF End
<1>2. /\ pc \in [Runner -> PC] /\ gens \in Nat /\ synced \in [Runner -> Int]
      /\ seen \in [Runner -> Manifest \cup {NoManifest}]
      /\ new \in [Runner -> Manifest \cup {NoManifest}]
      /\ store \in [Runner -> StoreType]
  BY DEF TypeInv, TypeOK, StoreType
<1>3. \A q \in Runner : q # r =>
        /\ pc'[q] = pc[q] /\ seen'[q] = seen[q] /\ new'[q] = new[q]
        /\ synced'[q] = synced[q] /\ store'[q] = store[q]
  BY <1>1, <1>2
<1>4. /\ pc'[r] = "idle" /\ seen'[r] = NoManifest /\ new'[r] = NoManifest
      /\ \/ synced'[r] = synced[r] /\ store'[r] = store[r]
         \/ synced'[r] = -1
  BY <1>1, <1>2 DEF NeverSynced
<1>5. \A q \in Runner : pc[q] \in Pending => new[q].gen \in 1..gens
  BY DEF Numbered, TypeInv, HasManifest
<1>6. Numbered'
  BY <1>1, <1>2, <1>3, <1>4, <1>5 DEF Numbered
<1>7. KnownByNumber'
  <2>1. live # NoManifest => live.gen # -1
    BY DEF Numbered
  <2> QED BY <1>1, <1>3, <1>4, <2>1 DEF KnownByNumber, Agrees
<1>8. (\A q \in Runner : pc[q] \in Pending \cup Flipped => FromStore(q))'
  BY <1>3, <1>4 DEF FromStore
<1>9. BuildsOnWhatItRead'
  BY <1>3, <1>4 DEF BuildsOnWhatItRead, EntriesOf
<1> QED BY <1>6, <1>7, <1>8, <1>9

-----------------------------------------------------------------------------
LEMMA RaceStep == RaceInvariant /\ [Next]_vars => RaceInvariant'
<1> SUFFICES ASSUME RaceInvariant, [Next]_vars PROVE RaceInvariant'
  OBVIOUS
<1>1. TypeInv /\ TypeInv'
  BY TypeStep DEF RaceInvariant
<1>2. pc \in [Runner -> PC]
  BY <1>1 DEF TypeInv, TypeOK
<1> USE DEF Goto, shared, local, Pending, Flipped
<1>3. ASSUME NEW r \in Runner, Start(r) PROVE RaceInvariant'
  BY <1>1, <1>2, <1>3, RaceKept DEF Start
<1>4. ASSUME NEW r \in Runner, Step(r) PROVE RaceInvariant'
  <2>1. CASE SyncNothing(r)
    BY <1>1, <2>1, RaceSyncNothing
  <2>2. CASE SyncManifest(r)
    BY <1>1, <2>2, RaceSyncManifest
  <2>3. CASE SyncNoManifest(r)
    BY <1>1, <1>2, <2>3, RaceKept DEF SyncNoManifest
  <2>4. CASE SyncFile(r)
    <3>1. \A q \in Runner : pc'[q] = pc[q] \/ pc'[q] = "failed"
      BY <1>2, <2>4 DEF SyncFile
    <3> QED BY <1>1, <2>4, <3>1, RaceKept DEF SyncFile
  <2>5. CASE SyncDone(r)
    BY <1>1, <2>5, RaceSyncDone
  <2>6. CASE SkipSync(r)
    BY <1>1, <1>2, <2>6, RaceKept DEF SkipSync
  <2>7. CASE Produce(r)
    BY <1>1, <2>7, RaceProduce
  <2>8. CASE Quiet(r)
    BY <1>1, <1>2, <2>8, RaceKept DEF Quiet
  <2>9. CASE OpenRelease(r)
    BY <1>1, <1>2, <2>9, RaceKept DEF OpenRelease
  <2>10. CASE ListAssets(r)
    BY <1>1, <1>2, <2>10, RaceKept DEF ListAssets
  <2>11. CASE Admit(r)
    BY <1>1, <2>11, RaceAdmit
  <2>12. CASE Refuse(r)
    BY <1>1, <2>12, RaceRefuse
  <2>13. CASE Upload(r)
    <3>1. \A q \in Runner : pc'[q] = pc[q] \/ pc'[q] = "failed"
      BY <1>2, <2>13 DEF Upload
    <3> QED BY <1>1, <2>13, <3>1, RaceKept DEF Upload
  <2>14. CASE Flip(r)
    BY <1>1, <2>14, RaceFlip
  <2>15. CASE Verify(r)
    <3>1. \A q \in Runner : pc'[q] = pc[q] \/ pc'[q] = "failed" \/ (pc[q] = "verify" /\ pc'[q] = "collect")
      BY <1>2, <2>15 DEF Verify
    <3> QED BY <1>1, <2>15, <3>1, RaceKept DEF Verify
  <2>16. CASE GcList(r)
    BY <1>1, <1>2, <2>16, RaceKept DEF GcList
  <2>17. CASE GcStep(r)
    BY <1>1, <2>17, RaceKept DEF GcStep
  <2>18. CASE Finish(r)
    BY <1>1, <2>18, RaceFinish
  <2>19. CASE End(r)
    BY <1>1, <2>19, RaceEnd
  <2> QED
    BY <1>4, <2>1, <2>2, <2>3, <2>4, <2>5, <2>6, <2>7, <2>8, <2>9, <2>10, <2>11, <2>12, <2>13,
       <2>14, <2>15, <2>16, <2>17, <2>18, <2>19
    DEF Step
<1>5. ASSUME NEW r \in Runner, SyncTorn(r) PROVE RaceInvariant'
  BY <1>1, <1>5, RaceSyncTorn
<1>6. ASSUME NEW r \in Runner, Fail(r) PROVE RaceInvariant'
  BY <1>1, <1>2, <1>6, RaceKept DEF Fail
<1>7. CASE GraceElapses
  BY <1>1, <1>7, RaceKept DEF GraceElapses
<1>8. CASE UNCHANGED vars
  BY <1>1, <1>8, RaceKept DEF vars
<1> QED BY <1>3, <1>4, <1>5, <1>6, <1>7, <1>8 DEF Next

\* The inductive invariant of the race, for any runs in or out of the group.
THEOREM RaceIsSafe == Spec => []RaceInvariant
BY RaceInit, RaceStep, PTL DEF Spec

\* check_cas looks once, at a number, and publish_dataset goes on for many
\* calls: what it admits is still, of every dataset the job does not build,
\* the baseline of the manifest it read, whoever else publishes and wherever
\* an earlier sync was cut short.
THEOREM AdmittedRunRebases == Spec => []BuildsOnWhatItRead
<1>1. RaceInvariant => BuildsOnWhatItRead
  BY DEF RaceInvariant
<1> QED BY <1>1, RaceIsSafe, PTL
=============================================================================
