----------------------- MODULE FundamentalsRunProofs ------------------------
(***************************************************************************)
(* Proofs about FundamentalsRun, for any exchange, any documents, any      *)
(* number of failures and any mix of window runs and backfills: its types, *)
(* that the state on the release never claims what the published rows do   *)
(* not have, that a backfill mark covers what its scan chose, and that a   *)
(* published row never disappears.                                         *)
(***************************************************************************)
EXTENDS FundamentalsRun, TLAPS

-----------------------------------------------------------------------------
\* What the operators of a run return

\* The document selected for a filing is one of the filing's.
LEMMA PickType ==
  ASSUME NEW N \in SUBSET Notice, N # {} PROVE Pick(N) \in N
<1>1. ASSUME NEW M \in SUBSET N, M # {} PROVE Newest(M) # {} /\ Newest(M) \subseteq M
  BY <1>1, NewestExists DEF Newest
<1>2. \A b : OfBasis(N, b) \in SUBSET N
  BY DEF OfBasis
<1> DEFINE choices == IF OfBasis(N, "consolidated") # {} THEN Newest(OfBasis(N, "consolidated"))
                      ELSE IF OfBasis(N, "standalone") # {} THEN Newest(OfBasis(N, "standalone"))
                      ELSE N
<1>3. choices # {} /\ choices \subseteq N
  BY <1>1, <1>2
<1>4. Pick(N) = CHOOSE n \in choices : TRUE
  BY DEF Pick
<1> HIDE DEF choices
<1> QED BY <1>3, <1>4

\* Only notices with a document are selected.
LEMMA ChosenType ==
  ASSUME NEW N \in SUBSET Notice PROVE Chosen(N) \subseteq N \cap attached
<1> SUFFICES ASSUME NEW f \in FilingsIn(N \cap attached)
             PROVE  Pick(InFiling(N \cap attached, f)) \in N \cap attached
  BY DEF Chosen
<1>1. InFiling(N \cap attached, f) \in SUBSET Notice /\ InFiling(N \cap attached, f) # {}
  BY DEF InFiling, FilingsIn
<1>2. Pick(InFiling(N \cap attached, f)) \in InFiling(N \cap attached, f)
  BY <1>1, PickType
<1> QED BY <1>2 DEF InFiling

LEMMA ToFetchType ==
  ASSUME NEW N \in SUBSET Notice, NEW s
  PROVE  /\ Distinct(Chosen(N)) \subseteq N \cap attached
         /\ ToFetch(N, s) \subseteq Distinct(Chosen(N))
BY ChosenType DEF Distinct, ToFetch

LEMMA NoticeType ==
  ASSUME NEW n \in Notice
  PROVE  /\ n.filing \in Filing /\ n.doc \in Doc /\ n.at \in Nat
         /\ SymbolOf[n.filing] \in Symbol /\ KeyOf[n.doc] \in Key
         /\ Verdict[n.doc] \in Verdicts
         /\ KeyOfNotice(n) \in DedupKey
         /\ KeyOfNotice(n).doc = n.doc /\ KeyOfNotice(n).filing = n.filing
BY Notices, Filings, Documents DEF KeyOfNotice, DedupKey

LEMMA DedupKeyType ==
  ASSUME NEW k \in DedupKey
  PROVE  k.doc \in Doc /\ k.filing \in Filing /\ KeyOf[k.doc] \in Key
BY NoticeType DEF DedupKey

LEMMA NewStateType ==
  /\ NewState \in State /\ NewState.version = 2
  /\ \A k \in DedupKey : NewState.done[k] = "No"
  /\ \A s \in Symbol : NewState.mark[s].docs = {}
BY DEF NewState, State, NoMark, Mark, NoEra

LEMMA WithPendingType ==
  ASSUME NEW N \in SUBSET Notice, NEW s \in State
  PROVE  /\ WithPending(N, s) \in State
         /\ WithPending(N, s).done = s.done
         /\ WithPending(N, s).mark = s.mark
         /\ WithPending(N, s).version = s.version
<1>1. FilingsIn(N) \subseteq Filing
  BY NoticeType DEF FilingsIn
<1>2. (s.pending \ FilingsIn(Chosen(N))) \cup Waiting(N) \in SUBSET Filing
  BY <1>1 DEF Waiting, State
<1> QED BY <1>2 DEF WithPending, State

LEMMA RecordedType ==
  ASSUME st \in State, NEW n \in Notice, NEW o \in Outcome
  PROVE  /\ Recorded(n, o) \in State
         /\ Recorded(n, o).done = [st.done EXCEPT ![KeyOfNotice(n)] = o]
         /\ Recorded(n, o).mark = st.mark
         /\ Recorded(n, o).version = st.version
<1>1. [st.done EXCEPT ![KeyOfNotice(n)] = o] \in [DedupKey -> Outcome \cup {"No", "Unknown"}]
  BY NoticeType DEF State
<1> QED BY <1>1 DEF Recorded, State

LEMMA MigratedType ==
  ASSUME NEW s \in State
  PROVE  /\ Migrated(s) \in State
         /\ \A k \in DedupKey : Migrated(s).done[k] \in {s.done[k], "No"}
         /\ Migrated(s).mark = s.mark
         /\ Migrated(s).version = 2
         /\ s.version # 1 => Migrated(s) = s
<1> DEFINE kept == [k \in DedupKey |-> IF HasRows(SymbolOf[k.filing]) THEN s.done[k] ELSE "No"]
<1>1. kept \in [DedupKey -> Outcome \cup {"No", "Unknown"}]
  BY DEF State
<1>2. \A k \in DedupKey : kept[k] \in {s.done[k], "No"}
  OBVIOUS
<1>3. s.version = 2 \/ Migrated(s) = [s EXCEPT !.version = 2, !.done = kept]
  BY DEF Migrated
<1> HIDE DEF kept
<1>4. CASE s.version = 2
  BY <1>4 DEF Migrated, State
<1>5. CASE s.version # 2
  BY <1>1, <1>2, <1>3, <1>5 DEF State
<1> QED BY <1>4, <1>5

\* A row of the base or a row found makes a row of the merge.
LEMMA MergedType ==
  ASSUME base \in Rows, found \in Rows
  PROVE  /\ Merged \in Rows
         /\ \A k \in Key : base[k] # NoDoc \/ found[k] # NoDoc <=> Merged[k] # NoDoc
BY Documents DEF Merged, Rows

-----------------------------------------------------------------------------
\* Type correctness

LEMMA TypeInit == Init => TypeOK
<1> SUFFICES ASSUME Init PROVE TypeOK
  OBVIOUS
<1>1. PICK seed \in Seeds : /\ listed = seed.old /\ attached = seed.old
                            /\ served = {n.doc : n \in seed.old}
                            /\ rows = seed.rows /\ asset = seed.asset
  BY DEF Init
<1>2. seed.old \subseteq Notice /\ seed.rows \in Rows /\ seed.asset \in State \cup {NoState}
  BY Starts
<1>3. NoRows \in Rows
  BY DEF NoRows, Rows
<1>4. /\ listed \subseteq Notice /\ attached \subseteq listed
      /\ served \subseteq {n.doc : n \in attached}
      /\ rows \in Rows /\ asset \in State \cup {NoState}
  BY <1>1, <1>2
<1>5. faults \in 0..MaxFaults
  BY FaultBound DEF Init
<1>6. base \in Rows /\ found \in Rows /\ st \in State
  BY <1>3, NewStateType DEF Init
<1>7. seen \in [docs : SUBSET Doc, filings : SUBSET Filing]
  BY DEF Init, NothingSeen
<1>8. /\ horizon \in Nat /\ pc \in Steps /\ from \in Nat \cup {NoEra}
      /\ left \subseteq Symbol /\ symbol \subseteq Symbol /\ bad \subseteq Symbol
      /\ queue \subseteq attached /\ good \in BOOLEAN /\ missed \in BOOLEAN
  BY DEF Init, Steps
<1> QED BY <1>4, <1>5, <1>6, <1>7, <1>8 DEF TypeOK

\* A job that ends leaves a fresh disk to the next.
LEMMA ClearedType ==
  ASSUME Cleared
  PROVE  /\ base' \in Rows /\ found' \in Rows /\ st' \in State
         /\ pc' \in Steps /\ from' \in Nat \cup {NoEra}
         /\ left' \subseteq Symbol /\ symbol' \subseteq Symbol /\ bad' \subseteq Symbol
         /\ seen' \in [docs : SUBSET Doc, filings : SUBSET Filing]
         /\ queue' = {} /\ good' \in BOOLEAN /\ missed' \in BOOLEAN
<1>1. NoRows \in Rows
  BY DEF NoRows, Rows
<1> QED BY <1>1, NewStateType DEF Cleared, NothingSeen, Steps

LEMMA FaultType ==
  ASSUME faults \in 0..MaxFaults, Fault PROVE faults' \in 0..MaxFaults
BY FaultBound DEF Fault

\* One step of process_filing.
LEMMA ProcessType ==
  ASSUME TypeOK, NEW n \in queue, Fetched(n) \/ NotThere(n) \/ FetchError(n)
  PROVE  /\ st' \in State /\ found' \in Rows /\ faults' \in 0..MaxFaults
         /\ good' \in BOOLEAN /\ missed' \in BOOLEAN /\ bad' \subseteq Symbol
<1>1. n \in Notice /\ st \in State /\ found \in Rows /\ faults \in 0..MaxFaults
      /\ good \in BOOLEAN /\ missed \in BOOLEAN /\ bad \subseteq Symbol
  BY DEF TypeOK
<1>2. CASE Fetched(n)
  <2>1. st' \in State
    BY <1>1, <1>2, RecordedType, NoticeType DEF Fetched, Outcome
  <2>2. found' \in Rows
    BY <1>1, <1>2, NoticeType DEF Fetched, Rows
  <2>3. faults' = faults /\ missed' = missed /\ good' \in {good, TRUE}
    BY <1>2 DEF Fetched
  <2>4. bad' \subseteq Symbol
    BY <1>1, <1>2, NoticeType DEF Fetched
  <2> QED BY <1>1, <2>1, <2>2, <2>3, <2>4
<1>3. CASE NotThere(n)
  <2>1. st' \in State
    BY <1>1, <1>3, RecordedType DEF NotThere, Outcome
  <2>2. found' = found /\ faults' = faults /\ missed' \in {missed, TRUE} /\ good' \in {good, TRUE}
    BY <1>3 DEF NotThere
  <2>3. bad' \subseteq Symbol
    BY <1>1, <1>3, NoticeType DEF NotThere
  <2> QED BY <1>1, <2>1, <2>2, <2>3
<1>4. CASE FetchError(n)
  <2>1. faults' \in 0..MaxFaults
    BY <1>1, <1>4, FaultType DEF FetchError
  <2>2. bad' \subseteq Symbol
    BY <1>1, <1>4, NoticeType DEF FetchError
  <2> QED BY <1>1, <1>4, <2>1, <2>2 DEF FetchError
<1> QED BY <1>2, <1>3, <1>4

LEMMA TypeNext == TypeOK /\ [Next]_vars => TypeOK'
<1> SUFFICES ASSUME TypeOK, [Next]_vars PROVE TypeOK'
  OBVIOUS
<1> USE DEF TypeOK, exchange, release, shard, scan, results, work, Goto, Steps
<1>1. CASE List
  BY <1>1 DEF List
<1>2. CASE Attach
  BY <1>2 DEF Attach
<1>3. CASE Serve
  BY <1>3 DEF Serve
<1>4. CASE Age
  BY <1>4, NoticeType DEF Age
<1>5. CASE BeginWindow
  BY <1>5 DEF BeginWindow
<1>6. CASE BeginBackfill
  BY <1>6, Backfills DEF BeginBackfill
<1>7. CASE LoadState
  <2>1. st' \in State
    BY <1>7, MigratedType DEF LoadState
  <2>2. faults' \in 0..MaxFaults
    BY <1>7, FaultType DEF LoadState
  <2> QED BY <1>7, <2>1, <2>2 DEF LoadState
<1>8. CASE Discover
  <2>1. InWindow \in SUBSET Notice
    BY DEF InWindow
  <2>2. CASE InWindow = {} /\ Cleared
    BY <1>8, <2>2, ClearedType DEF Discover
  <2>3. CASE ~(InWindow = {} /\ Cleared)
    <3>1. st' = WithPending(InWindow, st) /\ queue' = ToFetch(InWindow, st)
      BY <1>8, <2>3 DEF Discover
    <3>2. st' \in State /\ queue' \subseteq attached
      BY <2>1, <3>1, WithPendingType, ToFetchType
    <3> QED BY <1>8, <2>3, <3>2 DEF Discover
  <2> QED BY <2>2, <2>3
<1>9. CASE SkipMarked
  BY <1>9 DEF SkipMarked
<1>10. CASE BudgetStop
  BY <1>10 DEF BudgetStop
<1>11. CASE HistoryFails
  BY <1>11, FaultType DEF HistoryFails
<1>12. CASE ScanSymbol
  <2>1. PICK s \in left :
          /\ left' = left \ {s}
          /\ symbol' = {s}
          /\ seen' = [docs    |-> {n.doc : n \in Distinct(Chosen(Era(s)))},
                      filings |-> FilingsIn(Era(s))]
          /\ st' = WithPending(Era(s), st)
          /\ queue' = ToFetch(Era(s), st)
    BY <1>12 DEF ScanSymbol
  <2>2. Era(s) \in SUBSET Notice
    BY DEF Era
  <2>3. st' \in State /\ queue' \subseteq attached
    BY <2>1, <2>2, WithPendingType, ToFetchType
  <2>4. seen' \in [docs : SUBSET Doc, filings : SUBSET Filing]
    BY <2>1, <2>2, ToFetchType, NoticeType DEF FilingsIn
  <2> QED BY <1>12, <2>1, <2>3, <2>4 DEF ScanSymbol
<1>13. CASE Process
  <2>1. PICK n \in queue : /\ Fetched(n) \/ NotThere(n) \/ FetchError(n)
                           /\ queue' = queue \ {n}
    BY <1>13 DEF Process
  <2>2. /\ st' \in State /\ found' \in Rows /\ faults' \in 0..MaxFaults
        /\ good' \in BOOLEAN /\ missed' \in BOOLEAN /\ bad' \subseteq Symbol
    BY <2>1, ProcessType
  <2> QED BY <1>13, <2>1, <2>2 DEF Process
<1>14. CASE SymbolDone
  <2>1. [from |-> from, docs |-> seen.docs, filings |-> seen.filings] \in Mark
    BY DEF Mark
  <2> DEFINE mark == [s \in Symbol |->
                        IF s \in symbol
                        THEN [from |-> from, docs |-> seen.docs, filings |-> seen.filings]
                        ELSE st.mark[s]]
  <2>2. mark \in [Symbol -> Mark]
    BY <2>1 DEF State
  <2>3. st' = st \/ st' = [st EXCEPT !.mark = mark]
    BY <1>14 DEF SymbolDone
  <2> HIDE DEF mark
  <2>4. st' \in State
    BY <2>2, <2>3 DEF State
  <2> QED BY <1>14, <2>4 DEF SymbolDone, NothingSeen
<1>15. CASE ShardDone
  BY <1>15 DEF ShardDone
<1>16. CASE Trip
  BY <1>16 DEF Trip
<1>17. CASE Finish
  BY <1>17 DEF Finish
<1>18. CASE Publish
  BY <1>18, MergedType DEF Publish
<1>19. CASE PublishFails
  <2>1. rows' \in Rows
    BY <1>19, MergedType DEF PublishFails
  <2> QED BY <1>19, <2>1, ClearedType, FaultType DEF PublishFails
<1>20. CASE DeleteState
  BY <1>20 DEF DeleteState
<1>21. CASE UploadState
  BY <1>21, ClearedType DEF UploadState
<1>22. CASE EndRed
  BY <1>22, ClearedType DEF EndRed
<1>23. CASE Die
  BY <1>23, ClearedType, FaultType DEF Die
<1>24. CASE UNCHANGED vars
  BY <1>24 DEF vars
<1> QED
  BY <1>1, <1>2, <1>3, <1>4, <1>5, <1>6, <1>7, <1>8, <1>9, <1>10, <1>11, <1>12, <1>13,
     <1>14, <1>15, <1>16, <1>17, <1>18, <1>19, <1>20, <1>21, <1>22, <1>23, <1>24
     DEF Next, RunStep, Exchange

\* Every variable keeps its type, and nothing without a document is queued.
THEOREM TypeCorrectness == Spec => []TypeOK
BY TypeInit, TypeNext, PTL DEF Spec

-----------------------------------------------------------------------------
\* The state never runs ahead of the rows

\* A state whose outcomes are a part of another's claims no more than it.
LEMMA ClaimsLess ==
  ASSUME NEW s, NEW t, NEW q, NEW r, Claims(s, q),
         \A k \in DedupKey : t.done[k] = "Published" => s.done[k] = "Published",
         \A k \in Key : q[k] # NoDoc => r[k] # NoDoc
  PROVE  Claims(t, r)
BY DedupKeyType DEF Claims

\* With the same marks and outcomes for the same documents, a state stays covered.
LEMMA CoveredMore ==
  ASSUME NEW s, NEW t, Covered(s), t.mark = s.mark,
         \A k \in DedupKey : s.done[k] # "No" => t.done[k] # "No"
  PROVE  Covered(t)
BY DEF Covered, HasOutcome

LEMMA NothingClaimed ==
  /\ \A r : Claims(NewState, r)
  /\ Covered(NewState)
BY NewStateType DEF Claims, Covered

LEMMA InitRun == Init => RunInvariant
<1> SUFFICES ASSUME Init PROVE RunInvariant
  OBVIOUS
<1>1. PICK seed \in Seeds : rows = seed.rows /\ asset = seed.asset
  BY DEF Init
<1>2. pc = "idle" /\ st = NewState /\ found = NoRows /\ symbol = {}
  BY DEF Init
<1>3. ASSUME asset # NoState
      PROVE  /\ Claims(asset, rows) /\ Covered(asset)
             /\ \A i \in Symbol : asset.mark[i].docs = {}
  <2>1. asset.mark = [s \in Symbol |-> NoMark]
    BY <1>1, <1>3, Starts
  <2>2. Claims(asset, rows)
    BY <1>1, <1>3, Starts DEF Claims
  <2>3. \A i \in Symbol : asset.mark[i].docs = {}
    BY <2>1 DEF NoMark
  <2> QED BY <2>2, <2>3 DEF Covered
<1> QED BY <1>2, <1>3, NothingClaimed, NewStateType
     DEF RunInvariant, StateClaimsOnlyPublishedRows, MarkCoversDocuments

\* A job that ends, leaving the release as it was or with the rows it merged.
LEMMA ClearedRun ==
  ASSUME RunInvariant, Cleared, asset' = asset,
         \A k \in Key : rows[k] # NoDoc => rows'[k] # NoDoc
  PROVE  RunInvariant'
<1>1. /\ pc' = "idle" /\ st' = NewState /\ found' = NoRows /\ symbol' = {}
  BY DEF Cleared
<1>2. asset # NoState => Claims(asset, rows')
  BY ClaimsLess DEF RunInvariant, StateClaimsOnlyPublishedRows
<1> QED BY <1>1, <1>2, NothingClaimed, NewStateType
     DEF RunInvariant, StateClaimsOnlyPublishedRows, MarkCoversDocuments

\* A step that leaves the merge as it was.
LEMMA MergedSame ==
  ASSUME found' = found, base' = base PROVE Merged' = Merged
BY DEF Merged

\* Every published row is a row of the merge.
LEMMA MergedKeeps ==
  ASSUME TypeOK, base = rows
  PROVE  \A k \in Key : rows[k] # NoDoc => Merged[k] # NoDoc
BY MergedType DEF TypeOK

\* Loading the state: what it claims is published, and so in the merge.
LEMMA LoadStateRun == TypeOK /\ RunInvariant /\ LoadState => RunInvariant'
<1> SUFFICES ASSUME TypeOK, RunInvariant, LoadState PROVE RunInvariant'
  OBVIOUS
<1>1. /\ pc = "state" /\ pc' \in {"discover", "symbols"}
      /\ UNCHANGED <<rows, asset, base, found, symbol, seen, queue, missed>>
      /\ st' = st \/ (asset # NoState /\ st' = Migrated(asset))
  BY DEF LoadState, release, shard, scan, results, Goto
<1>2. base = rows /\ symbol = {} /\ Merged' = Merged
  BY <1>1, MergedSame DEF RunInvariant
<1>3. Claims(st', Merged') /\ Covered(st') /\ st'.version = 2
  <2>1. CASE st' = st
    BY <1>1, <1>2, <2>1 DEF RunInvariant
  <2>2. CASE asset # NoState /\ st' = Migrated(asset)
    <3>1. asset \in State /\ Claims(asset, rows) /\ Covered(asset)
          /\ (asset.version = 1 => \A i \in Symbol : asset.mark[i].docs = {})
      BY <2>2 DEF TypeOK, RunInvariant, StateClaimsOnlyPublishedRows, MarkCoversDocuments
    <3>2. Claims(Migrated(asset), Merged)
      <4>1. \A k \in DedupKey : Migrated(asset).done[k] = "Published" => asset.done[k] = "Published"
        BY <3>1, MigratedType
      <4> QED BY <1>2, <3>1, <4>1, ClaimsLess, MergedKeeps
    <3>3. Covered(Migrated(asset)) /\ Migrated(asset).version = 2
      <4>1. CASE asset.version = 1
        BY <3>1, <4>1, MigratedType DEF Covered
      <4>2. CASE asset.version # 1
        BY <3>1, <4>2, MigratedType
      <4> QED BY <4>1, <4>2
    <3> QED BY <1>2, <2>2, <3>2, <3>3
  <2> QED BY <1>1, <2>1, <2>2
<1> QED BY <1>1, <1>2, <1>3
     DEF RunInvariant, StateClaimsOnlyPublishedRows, MarkCoversDocuments

\* A selection: each document chosen is on record or in the queue.
LEMMA ScanSymbolRun == TypeOK /\ RunInvariant /\ ScanSymbol => RunInvariant'
<1> SUFFICES ASSUME TypeOK, RunInvariant, ScanSymbol PROVE RunInvariant'
  OBVIOUS
<1>1. PICK s \in left :
        /\ symbol' = {s}
        /\ seen' = [docs    |-> {n.doc : n \in Distinct(Chosen(Era(s)))},
                    filings |-> FilingsIn(Era(s))]
        /\ st' = WithPending(Era(s), st)
        /\ queue' = ToFetch(Era(s), st)
  BY DEF ScanSymbol
<1>2. /\ pc = "symbols" /\ pc' = "process"
      /\ UNCHANGED <<rows, asset, base, found>>
  BY DEF ScanSymbol, release, results, Goto
<1>3. Era(s) \in SUBSET Notice /\ st \in State
  BY DEF Era, TypeOK
<1>4. st'.done = st.done /\ st'.mark = st.mark /\ st'.version = st.version
  BY <1>1, <1>3, WithPendingType
<1>5. Claims(st', Merged') /\ Covered(st') /\ st'.version = 2
  <2>1. Merged' = Merged
    BY <1>2, MergedSame
  <2>2. Claims(st', Merged)
    BY <1>2, <1>4, ClaimsLess DEF RunInvariant
  <2>3. Covered(st')
    BY <1>4, CoveredMore DEF RunInvariant
  <2> QED BY <1>4, <2>1, <2>2, <2>3 DEF RunInvariant
<1>6. ASSUME NEW d \in seen'.docs
      PROVE  HasOutcome(st', s, d) \/ \E n \in queue' : n.doc = d /\ SymbolOf[n.filing] = s
  <2>1. PICK n \in Distinct(Chosen(Era(s))) : n.doc = d
    BY <1>1, <1>6
  <2>2. n \in Notice /\ SymbolOf[n.filing] = s
    BY <1>3, <2>1, ToFetchType DEF Era
  <2>3. CASE st.done[KeyOfNotice(n)] = "No"
    BY <1>1, <2>1, <2>2, <2>3 DEF ToFetch
  <2>4. CASE st.done[KeyOfNotice(n)] # "No"
    BY <1>4, <2>1, <2>2, <2>4, NoticeType DEF HasOutcome
  <2> QED BY <2>3, <2>4
<1> QED BY <1>1, <1>2, <1>5, <1>6
     DEF RunInvariant, StateClaimsOnlyPublishedRows, MarkCoversDocuments

\* The window's selection, which belongs to no symbol.
LEMMA DiscoverRun == TypeOK /\ RunInvariant /\ Discover => RunInvariant'
<1> SUFFICES ASSUME TypeOK, RunInvariant, Discover PROVE RunInvariant'
  OBVIOUS
<1>1. pc = "discover" /\ UNCHANGED <<rows, asset>>
  BY DEF Discover, release
<1>2. CASE Cleared
  BY <1>1, <1>2, ClearedRun
<1>3. CASE ~Cleared
  <2>1. /\ st' = WithPending(InWindow, st) /\ pc' = "process"
        /\ UNCHANGED <<symbol, base, found>>
    BY <1>3 DEF Discover, results, Goto
  <2>2. st'.done = st.done /\ st'.mark = st.mark /\ st'.version = st.version
    BY <2>1, WithPendingType DEF TypeOK, InWindow
  <2>3. Claims(st', Merged') /\ Covered(st')
    BY <1>1, <2>1, <2>2, MergedSame, ClaimsLess, CoveredMore DEF RunInvariant
  <2> QED BY <1>1, <2>1, <2>2, <2>3
       DEF RunInvariant, StateClaimsOnlyPublishedRows, MarkCoversDocuments
<1> QED BY <1>2, <1>3

\* An outcome on record: the row is there if it says so, and no outcome is lost.
LEMMA RecordedRun ==
  ASSUME TypeOK, RunInvariant, pc = "process", NEW n \in queue, NEW o \in Outcome,
         st' = Recorded(n, o), base' = base,
         IF o = "Published" THEN found' = [found EXCEPT ![KeyOf[n.doc]] = n.doc]
                            ELSE found' = found
  PROVE  /\ Claims(st', Merged') /\ Covered(st') /\ st'.version = 2
         /\ \A i \in Symbol, d \in Doc : HasOutcome(st, i, d) => HasOutcome(st', i, d)
         /\ HasOutcome(st', SymbolOf[n.filing], n.doc)
<1>1. n \in Notice /\ st \in State /\ found \in Rows /\ base \in Rows
  BY DEF TypeOK
<1>2. st'.done = [st.done EXCEPT ![KeyOfNotice(n)] = o] /\ st'.mark = st.mark
      /\ st'.version = st.version
  BY <1>1, RecordedType
<1>3. st.done \in [DedupKey -> Outcome \cup {"No", "Unknown"}] /\ o # "No"
  BY <1>1 DEF State, Outcome, Verdicts
<1>4. \A k \in DedupKey : st.done[k] # "No" => st'.done[k] # "No"
  BY <1>2, <1>3
<1>5. Covered(st') /\ st'.version = 2
  BY <1>2, <1>4, CoveredMore DEF RunInvariant
<1>6. \A i \in Symbol, d \in Doc : HasOutcome(st, i, d) => HasOutcome(st', i, d)
  BY <1>4 DEF HasOutcome
<1>7. HasOutcome(st', SymbolOf[n.filing], n.doc)
  <2>1. st'.done[KeyOfNotice(n)] = o
    BY <1>1, <1>2, <1>3, NoticeType
  <2> QED BY <1>1, <1>3, <2>1, NoticeType DEF HasOutcome
<1>8. Claims(st', Merged')
  <2>1. found' \in Rows /\ base' \in Rows
    BY <1>1, NoticeType DEF Rows
  <2>2. \A k \in Key : Merged[k] # NoDoc => Merged'[k] # NoDoc
    <3>1. \A k \in Key : found[k] # NoDoc => found'[k] # NoDoc
      BY <1>1, NoticeType, Documents DEF Rows
    <3> QED BY <3>1 DEF Merged
  <2>3. ASSUME NEW k \in DedupKey, st'.done[k] = "Published"
        PROVE  Merged'[KeyOf[k.doc]] # NoDoc
    <3>1. CASE st.done[k] = "Published"
      BY <2>2, <3>1, DedupKeyType DEF RunInvariant, Claims
    <3>2. CASE st.done[k] # "Published"
      <4>1. k = KeyOfNotice(n) /\ o = "Published"
        BY <1>2, <1>3, <2>3, <3>2
      <4>2. k.doc = n.doc /\ n.doc \in Doc /\ KeyOf[n.doc] \in Key
        BY <1>1, <4>1, NoticeType
      <4>3. found'[KeyOf[n.doc]] = n.doc
        BY <1>1, <4>1, <4>2 DEF Rows
      <4> QED BY <4>2, <4>3, Documents DEF Merged
    <3> QED BY <3>1, <3>2
  <2> QED BY <2>3 DEF Claims
<1> QED BY <1>5, <1>6, <1>7, <1>8

LEMMA ProcessRun == TypeOK /\ RunInvariant /\ Process => RunInvariant'
<1> SUFFICES ASSUME TypeOK, RunInvariant, Process PROVE RunInvariant'
  OBVIOUS
<1>1. PICK n \in queue : /\ Fetched(n) \/ NotThere(n) \/ FetchError(n)
                         /\ queue' = queue \ {n}
  BY DEF Process
<1>2. /\ pc = "process" /\ pc' = "process"
      /\ UNCHANGED <<rows, asset, base, symbol, seen>>
  BY DEF Process, release
<1>3. n \in Notice /\ seen.docs \subseteq Doc /\ symbol \subseteq Symbol
  BY DEF TypeOK
<1>4. missed => missed'
  BY <1>1 DEF Fetched, NotThere, FetchError
<1> DEFINE Accounted(i, d) == \/ missed
                              \/ HasOutcome(st, i, d)
                              \/ \E m \in queue : m.doc = d /\ SymbolOf[m.filing] = i
<1>5. \A i \in symbol : \A d \in seen.docs : Accounted(i, d)
  BY <1>2 DEF RunInvariant
<1>6. CASE st' = st /\ found' = found /\ missed'
  BY <1>2, <1>6, MergedSame DEF RunInvariant, StateClaimsOnlyPublishedRows, MarkCoversDocuments
<1>7. CASE \E o \in Outcome : /\ st' = Recorded(n, o)
                              /\ IF o = "Published"
                                 THEN found' = [found EXCEPT ![KeyOf[n.doc]] = n.doc]
                                 ELSE found' = found
  <2>1. /\ Claims(st', Merged') /\ Covered(st') /\ st'.version = 2
        /\ \A i \in Symbol, d \in Doc : HasOutcome(st, i, d) => HasOutcome(st', i, d)
        /\ HasOutcome(st', SymbolOf[n.filing], n.doc)
    BY <1>2, <1>7, RecordedRun
  <2>2. ASSUME NEW i \in symbol, NEW d \in seen.docs
        PROVE  Accounted(i, d)'
    <3>1. CASE missed
      BY <1>4, <3>1
    <3>2. CASE HasOutcome(st, i, d)
      BY <1>3, <2>1, <3>2
    <3>3. CASE \E m \in queue : m.doc = d /\ SymbolOf[m.filing] = i
      BY <1>1, <2>1, <3>3
    <3> QED BY <1>5, <3>1, <3>2, <3>3
  <2> QED BY <1>2, <2>1, <2>2
       DEF RunInvariant, StateClaimsOnlyPublishedRows, MarkCoversDocuments
<1>8. CASE Fetched(n)
  <2>1. Verdict[n.doc] \in Outcome
    BY <1>3, NoticeType DEF Outcome
  <2>2. st' = Recorded(n, Verdict[n.doc])
    BY <1>8 DEF Fetched
  <2>3. IF Verdict[n.doc] = "Published" THEN found' = [found EXCEPT ![KeyOf[n.doc]] = n.doc]
                                        ELSE found' = found
    BY <1>8 DEF Fetched
  <2> QED BY <1>7, <2>1, <2>2, <2>3
<1>9. CASE NotThere(n)
  <2>1. CASE from # NoEra
    <3>1. st' = Recorded(n, "InstanceUnavailable") /\ found' = found
      BY <1>9, <2>1 DEF NotThere
    <3> QED BY <1>7, <3>1 DEF Outcome
  <2>2. CASE from = NoEra
    BY <1>6, <1>9, <2>2 DEF NotThere
  <2> QED BY <2>1, <2>2
<1>10. CASE FetchError(n)
  BY <1>6, <1>10 DEF FetchError
<1> QED BY <1>1, <1>8, <1>9, <1>10

\* Marking a symbol: nothing missed, nothing queued, so all of it on record.
LEMMA SymbolDoneRun == TypeOK /\ RunInvariant /\ SymbolDone => RunInvariant'
<1> SUFFICES ASSUME TypeOK, RunInvariant, SymbolDone PROVE RunInvariant'
  OBVIOUS
<1>1. /\ pc = "process" /\ pc' \in {"finish", "symbols"} /\ queue = {} /\ symbol' = {}
      /\ UNCHANGED <<rows, asset, base, found>>
  BY DEF SymbolDone, release, results, Goto
<1>2. Merged' = Merged
  BY <1>1, MergedSame
<1> DEFINE mark == [s \in Symbol |->
                      IF s \in symbol
                      THEN [from |-> from, docs |-> seen.docs, filings |-> seen.filings]
                      ELSE st.mark[s]]
<1>3. CASE missed
  BY <1>1, <1>2, <1>3
     DEF SymbolDone, RunInvariant, StateClaimsOnlyPublishedRows, MarkCoversDocuments
<1>4. CASE ~missed
  <2>1. st' = [st EXCEPT !.mark = mark]
    BY <1>4 DEF SymbolDone
  <2>2. \A s \in Symbol : mark[s].docs = IF s \in symbol THEN seen.docs ELSE st.mark[s].docs
    OBVIOUS
  <2> HIDE DEF mark
  <2>3. st'.done = st.done /\ st'.mark = mark /\ st'.version = st.version
    BY <2>1 DEF TypeOK, State
  <2>4. \A i \in symbol : \A d \in seen.docs : HasOutcome(st, i, d)
    BY <1>1, <1>4 DEF RunInvariant
  <2>5. \A i \in Symbol : \A d : HasOutcome(st, i, d) => HasOutcome(st', i, d)
    BY <2>3 DEF HasOutcome
  <2>6. Covered(st')
    BY <2>2, <2>3, <2>4, <2>5 DEF RunInvariant, Covered
  <2>7. Claims(st', Merged')
    BY <1>1, <1>2, <2>3, ClaimsLess DEF RunInvariant
  <2> QED BY <1>1, <2>3, <2>6, <2>7
       DEF RunInvariant, StateClaimsOnlyPublishedRows, MarkCoversDocuments
<1> QED BY <1>3, <1>4

LEMMA RunNext == TypeOK /\ RunInvariant /\ [Next]_vars => RunInvariant'
<1> SUFFICES ASSUME TypeOK, RunInvariant, [Next]_vars PROVE RunInvariant'
  OBVIOUS
<1> USE DEF exchange, release, shard, scan, results, work, Goto
<1>1. ASSUME UNCHANGED <<rows, asset, st, base, found, symbol>>,
             \/ pc' = pc /\ UNCHANGED <<seen, queue, missed>>
             \/ pc = "symbols" /\ pc' = "finish"
             \/ pc = "upload" /\ pc' = "reupload"
             \/ pc = "finish" /\ pc' \in {"red", "publish"}
             \/ pc = "finish" /\ pc' = "upload" /\ Merged = base
      PROVE  RunInvariant'
  BY <1>1, MergedSame
     DEF RunInvariant, StateClaimsOnlyPublishedRows, MarkCoversDocuments
<1>2. CASE Exchange
  BY <1>1, <1>2 DEF Exchange, List, Attach, Serve, Age
<1>3. CASE BeginWindow \/ BeginBackfill
  <2>1. pc = "idle" /\ pc' = "state" /\ base' = rows
        /\ UNCHANGED <<rows, asset, st, found, symbol>>
    BY <1>3 DEF BeginWindow, BeginBackfill
  <2> QED BY <2>1, NothingClaimed
       DEF RunInvariant, StateClaimsOnlyPublishedRows, MarkCoversDocuments
<1>4. CASE SkipMarked \/ BudgetStop \/ HistoryFails \/ ShardDone
  BY <1>1, <1>4 DEF SkipMarked, BudgetStop, HistoryFails, ShardDone
<1>5. CASE Trip \/ Finish
  BY <1>1, <1>5 DEF Trip, Finish
<1>6. CASE Publish
  <2>1. pc = "publish" /\ pc' = "upload" /\ rows' = Merged /\ base = rows
        /\ UNCHANGED <<asset, st, symbol>>
    BY <1>6 DEF Publish, RunInvariant
  <2>2. asset # NoState => Claims(asset, rows')
    BY <2>1, MergedKeeps, ClaimsLess DEF RunInvariant, StateClaimsOnlyPublishedRows
  <2> QED BY <2>1, <2>2
       DEF RunInvariant, StateClaimsOnlyPublishedRows, MarkCoversDocuments
<1>7. CASE PublishFails
  <2>1. base = rows /\ rows' \in {rows, Merged} /\ Cleared /\ asset' = asset
    BY <1>7 DEF PublishFails, RunInvariant
  <2> QED BY <2>1, MergedKeeps, ClearedRun
<1>8. CASE DeleteState
  BY <1>8 DEF DeleteState, RunInvariant, StateClaimsOnlyPublishedRows, MarkCoversDocuments
<1>9. CASE UploadState
  <2>1. /\ pc' = "idle" /\ st' = NewState /\ found' = NoRows /\ symbol' = {}
        /\ pc = "reupload" /\ asset' = st /\ rows' = rows
    BY <1>9 DEF UploadState, Cleared
  <2> QED BY <2>1, NothingClaimed, NewStateType
       DEF RunInvariant, StateClaimsOnlyPublishedRows, MarkCoversDocuments
<1>10. CASE EndRed \/ Die
  BY <1>10, ClearedRun DEF EndRed, Die
<1>11. CASE UNCHANGED vars
  BY <1>1, <1>11 DEF vars
<1> QED
  BY <1>2, <1>3, <1>4, <1>5, <1>6, <1>7, <1>8, <1>9, <1>10, <1>11,
     LoadStateRun, DiscoverRun, ScanSymbolRun, ProcessRun, SymbolDoneRun
     DEF Next, RunStep

\* What a run remembers is true of the rows it publishes or has published.
THEOREM RunIsConsistent == Spec => []RunInvariant
<1>1. Init => TypeOK /\ RunInvariant
  BY TypeInit, InitRun
<1>2. TypeOK /\ RunInvariant /\ [Next]_vars => (TypeOK /\ RunInvariant)'
  BY TypeNext, RunNext
<1> QED BY <1>1, <1>2, PTL DEF Spec

\* The state on the release never claims work the published rows do not have,
\* wherever a run is killed and whatever the exchange does meanwhile.
THEOREM StateNeverAhead == Spec => []StateClaimsOnlyPublishedRows
<1>1. RunInvariant => StateClaimsOnlyPublishedRows
  BY DEF RunInvariant
<1> QED BY <1>1, RunIsConsistent, PTL

\* A mark on the release stands for documents that all have an outcome there.
THEOREM MarksAreEarned == Spec => []MarkCoversDocuments
<1>1. RunInvariant => MarkCoversDocuments
  BY DEF RunInvariant
<1> QED BY <1>1, RunIsConsistent, PTL

\* A published row never disappears (the structural guarantee of merge_rows).
THEOREM RowsAreNeverDropped ==
  Spec => [][\A k \in Key : rows[k] # NoDoc => rows'[k] # NoDoc]_vars
<1>1. TypeOK /\ RunInvariant /\ [Next]_vars
        => [\A k \in Key : rows[k] # NoDoc => rows'[k] # NoDoc]_vars
  <2> SUFFICES ASSUME TypeOK, RunInvariant, Next, rows' # rows
               PROVE  \A k \in Key : rows[k] # NoDoc => rows'[k] # NoDoc
    OBVIOUS
  <2>1. pc = "publish" /\ rows' = Merged
    BY DEF Next, RunStep, Exchange, exchange, release, List, Attach, Serve, Age,
           BeginWindow, BeginBackfill, LoadState, Discover, SkipMarked, BudgetStop,
           HistoryFails, ScanSymbol, Process, SymbolDone, ShardDone, Trip, Finish,
           Publish, PublishFails, DeleteState, UploadState, EndRed, Die
  <2> QED BY <2>1, MergedKeeps DEF RunInvariant
<1> QED BY <1>1, TypeCorrectness, RunIsConsistent, PTL DEF Spec

-----------------------------------------------------------------------------
\* Revised documents

\* What is picked is the newest of its basis.
LEMMA PickIsNewest ==
  ASSUME NEW N \in SUBSET Notice, N # {}, \A n \in N : n.basis # "other",
         NEW n \in N, n.basis = Pick(N).basis
  PROVE  n.at <= Pick(N).at
<1>1. ASSUME NEW M \in SUBSET N, M # {} PROVE Newest(M) # {} /\ Newest(M) \subseteq M
  BY <1>1, NewestExists DEF Newest
<1>2. \A b : OfBasis(N, b) \in SUBSET N /\ \A m \in OfBasis(N, b) : m.basis = b
  BY DEF OfBasis
<1>3. n \in OfBasis(N, n.basis) /\ n.basis \in {"consolidated", "standalone"}
  BY Notices DEF OfBasis, Basis
<1>4. CASE OfBasis(N, "consolidated") # {}
  <2>1. Pick(N) \in Newest(OfBasis(N, "consolidated"))
    BY <1>1, <1>2, <1>4 DEF Pick
  <2>2. n \in OfBasis(N, "consolidated")
    BY <1>1, <1>2, <1>3, <1>4, <2>1
  <2> QED BY <2>1, <2>2 DEF Newest
<1>5. CASE OfBasis(N, "consolidated") = {}
  <2>1. n \in OfBasis(N, "standalone")
    BY <1>3, <1>5
  <2>2. Pick(N) \in Newest(OfBasis(N, "standalone"))
    BY <1>1, <1>2, <1>5, <2>1 DEF Pick
  <2> QED BY <2>1, <2>2 DEF Newest
<1> QED BY <1>4, <1>5

LEMMA ChosenIsNewest ==
  ASSUME ListedOnce, NEW N \in SUBSET Notice, NEW m \in Chosen(N),
         NEW n \in N \cap attached, n.filing = m.filing, n.basis = m.basis
  PROVE  n.at <= m.at
<1>1. PICK f \in FilingsIn(N \cap attached) : m = Pick(InFiling(N \cap attached, f))
  BY DEF Chosen
<1> DEFINE M == InFiling(N \cap attached, f)
<1>2. M \in SUBSET Notice /\ M # {} /\ \A q \in M : q.filing = f /\ q.basis # "other"
  BY DEF InFiling, FilingsIn, ListedOnce
<1>3. m \in M
  BY <1>1, <1>2, PickType
<1>4. n \in M
  BY <1>2, <1>3 DEF InFiling
<1> QED BY <1>1, <1>2, <1>4, PickIsNewest

\* No row revises a document that a scan selects.
LEMMA SelectedIsNewest ==
  ASSUME ListedOnce, TypeOK, OutWith(rows), NEW N \in SUBSET listed,
         \A m \in N : \A n \in listed : n.filing = m.filing /\ n.at > m.at => n \in N,
         NEW s, NEW m \in ToFetch(N, s), NEW k \in Key, rows[k] # NoDoc
  PROVE  ~Revises(rows[k], m.doc)
<1> SUFFICES ASSUME NEW n \in Notice, NEW p \in Notice, n.doc = rows[k], p.doc = m.doc,
                    n.filing = p.filing, n.basis = p.basis, n.at > p.at
             PROVE  FALSE
  BY DEF Revises
<1>1. N \in SUBSET Notice
  BY DEF TypeOK
<1>2. m \in Chosen(N) /\ m \in N /\ m \in Notice
  BY <1>1, ToFetchType DEF ToFetch, Distinct
<1>3. p = m
  BY <1>2 DEF ListedOnce
<1>4. n \in attached
  BY DEF OutWith, ListedOnce, TypeOK
<1>5. n \in N \cap attached
  BY <1>2, <1>3, <1>4 DEF TypeOK
<1>6. n.at <= m.at
  BY <1>1, <1>2, <1>3, <1>5, ChosenIsNewest
<1> QED BY <1>3, <1>6, NoticeType

LEMMA AdvanceInit == ListedOnce /\ Init => AdvanceInvariant
<1> SUFFICES ASSUME ListedOnce, Init PROVE AdvanceInvariant
  OBVIOUS
<1>1. OutWith(rows)
  BY DEF Init, OutWith, ListedOnce
<1>2. OutWith(found) /\ pc = "idle"
  BY DEF Init, OutWith, NoRows
<1> QED BY <1>1, <1>2 DEF AdvanceInvariant

\* A publish puts no revised document back.
LEMMA PublishAdvances ==
  ASSUME ListedOnce, TypeOK, AdvanceInvariant, pc = "publish", base = rows
  PROVE  /\ OutWith(Merged)
         /\ \A k \in Key : rows[k] # NoDoc => Merged[k] # NoDoc /\ ~Revises(rows[k], Merged[k])
<1>1. \A k \in Key : Merged[k] = IF found[k] # NoDoc THEN found[k] ELSE rows[k]
  BY DEF Merged
<1>2. \A d : ~Revises(d, d)
  BY NoticeType DEF Revises, ListedOnce
<1> QED BY <1>1, <1>2 DEF AdvanceInvariant, OutWith

LEMMA AdvanceNext ==
  ListedOnce /\ TypeOK /\ RunInvariant /\ AdvanceInvariant /\ [Next]_vars => AdvanceInvariant'
<1> SUFFICES ASSUME ListedOnce, TypeOK, RunInvariant, AdvanceInvariant, [Next]_vars
             PROVE  AdvanceInvariant'
  OBVIOUS
<1> USE DEF exchange, release, shard, scan, results, work, Goto
<1>1. ASSUME UNCHANGED <<rows, found, base, queue>>, attached \subseteq attached',
             \/ pc' = pc
             \/ /\ pc' \notin {"state", "process"}
                /\ pc \in {"state", "discover", "symbols", "process", "finish", "publish"}
             \/ pc' \in {"red", "reupload"}
      PROVE  AdvanceInvariant'
  <2>1. OutWith(rows)' /\ OutWith(found)'
    BY <1>1 DEF AdvanceInvariant, OutWith
  <2>2. CASE pc' = pc
    BY <1>1, <2>1, <2>2 DEF AdvanceInvariant
  <2>3. CASE /\ pc' \notin {"state", "process"}
             /\ pc \in {"state", "discover", "symbols", "process", "finish", "publish"}
    BY <1>1, <2>1, <2>3 DEF AdvanceInvariant
  <2>4. CASE pc' \in {"red", "reupload"}
    BY <1>1, <2>1, <2>4 DEF AdvanceInvariant
  <2> QED BY <1>1, <2>2, <2>3, <2>4
<1>2. ASSUME Cleared, OutWith(rows)' PROVE AdvanceInvariant'
  BY <1>2 DEF Cleared, AdvanceInvariant, OutWith, NoRows
<1>3. CASE Exchange
  BY <1>1, <1>3 DEF Exchange, List, Attach, Serve, Age
<1>4. CASE BeginWindow \/ BeginBackfill
  <2>1. found = NoRows /\ pc' = "state" /\ UNCHANGED <<rows, found, attached>>
    BY <1>4 DEF BeginWindow, BeginBackfill, RunInvariant
  <2> QED BY <2>1 DEF AdvanceInvariant, OutWith, NoRows
<1>5. CASE LoadState \/ SkipMarked \/ BudgetStop \/ HistoryFails \/ ShardDone \/ SymbolDone
  BY <1>1, <1>5 DEF LoadState, SkipMarked, BudgetStop, HistoryFails, ShardDone, SymbolDone
<1>6. CASE Trip \/ Finish \/ DeleteState
  BY <1>1, <1>6 DEF Trip, Finish, DeleteState
<1>7. ASSUME NEW N \in SUBSET listed,
             \A m \in N : \A n \in listed : n.filing = m.filing /\ n.at > m.at => n \in N,
             queue' = ToFetch(N, st), pc \in {"discover", "symbols"}, pc' = "process",
             UNCHANGED <<rows, base, found, attached>>
      PROVE  AdvanceInvariant'
  <2>1. base = rows
    BY <1>7 DEF RunInvariant
  <2>2. \A n \in queue', k \in Key : base[k] # NoDoc => ~Revises(base[k], n.doc)
    BY <1>7, <2>1, SelectedIsNewest DEF AdvanceInvariant
  <2> QED BY <1>7, <2>2 DEF AdvanceInvariant, OutWith
<1>8. CASE Discover
  <2>1. CASE InWindow = {} /\ Cleared
    BY <1>2, <1>8, <2>1 DEF Discover, AdvanceInvariant, OutWith
  <2>2. CASE ~(InWindow = {} /\ Cleared)
    <3>1. /\ queue' = ToFetch(InWindow, st) /\ pc = "discover" /\ pc' = "process"
          /\ UNCHANGED <<rows, base, found, attached>>
      BY <1>8, <2>2 DEF Discover
    <3>2. /\ InWindow \in SUBSET listed
          /\ \A m \in InWindow : \A n \in listed :
               n.filing = m.filing /\ n.at > m.at => n \in InWindow
      BY NoticeType DEF InWindow, TypeOK
    <3> QED BY <1>7, <3>1, <3>2
  <2> QED BY <2>1, <2>2
<1>9. CASE ScanSymbol
  <2>1. PICK s \in left : queue' = ToFetch(Era(s), st)
    BY <1>9 DEF ScanSymbol
  <2>2. /\ Era(s) \in SUBSET listed
        /\ \A m \in Era(s) : \A n \in listed :
             n.filing = m.filing /\ n.at > m.at => n \in Era(s)
    BY NoticeType DEF Era, TypeOK, NoEra
  <2>3. pc = "symbols" /\ pc' = "process" /\ UNCHANGED <<rows, base, found, attached>>
    BY <1>9 DEF ScanSymbol
  <2> QED BY <1>7, <2>1, <2>2, <2>3
<1>10. CASE Process
  <2>1. PICK n \in queue : /\ Fetched(n) \/ NotThere(n) \/ FetchError(n)
                           /\ queue' = queue \ {n}
    BY <1>10 DEF Process
  <2>2. pc = "process" /\ pc' = pc /\ UNCHANGED <<rows, base, attached>>
    BY <1>10 DEF Process
  <2>3. found' = found \/ found' = [found EXCEPT ![KeyOf[n.doc]] = n.doc]
    BY <2>1 DEF Fetched, NotThere, FetchError
  <2>4. n \in attached /\ KeyOf[n.doc] \in Key /\ found \in Rows
    BY NoticeType DEF TypeOK
  <2>5. \A k \in Key : found'[k] \in {found[k], n.doc}
    BY <2>3, <2>4 DEF Rows
  <2>6. OutWith(found)'
    BY <2>2, <2>4, <2>5 DEF AdvanceInvariant, OutWith
  <2>7. \A k \in Key : base[k] # NoDoc /\ found'[k] # NoDoc => ~Revises(base[k], found'[k])
    BY <2>2, <2>5 DEF AdvanceInvariant
  <2> QED BY <2>1, <2>2, <2>6, <2>7 DEF AdvanceInvariant, OutWith
<1>11. CASE Publish
  <2>1. pc = "publish" /\ base = rows /\ rows' = Merged /\ pc' = "upload"
        /\ UNCHANGED <<found, attached>>
    BY <1>11 DEF Publish, RunInvariant
  <2>2. OutWith(rows)' /\ OutWith(found)'
    BY <2>1, PublishAdvances DEF OutWith, AdvanceInvariant
  <2> QED BY <2>1, <2>2 DEF AdvanceInvariant
<1>12. CASE PublishFails
  <2>1. pc = "publish" /\ base = rows /\ rows' \in {rows, Merged} /\ attached' = attached
    BY <1>12 DEF PublishFails, RunInvariant
  <2>2. OutWith(rows)'
    BY <2>1, PublishAdvances DEF OutWith, AdvanceInvariant
  <2> QED BY <1>2, <1>12, <2>2 DEF PublishFails
<1>13. CASE UploadState \/ EndRed \/ Die
  BY <1>2, <1>13 DEF UploadState, EndRed, Die, AdvanceInvariant, OutWith
<1>14. CASE UNCHANGED vars
  BY <1>1, <1>14 DEF vars
<1> QED
  BY <1>3, <1>4, <1>5, <1>6, <1>8, <1>9, <1>10, <1>11, <1>12, <1>13, <1>14 DEF Next, RunStep

\* Where a document is listed once, no published row goes, or goes back to a document
\* that was revised, however often the state is lost and old filings fetched again.
THEOREM RowsDoAdvance ==
  ASSUME ListedOnce PROVE Spec => RowsOnlyAdvance
<1>1. Init => AdvanceInvariant
  BY AdvanceInit
<1>2. TypeOK /\ RunInvariant /\ AdvanceInvariant /\ [Next]_vars => AdvanceInvariant'
  BY AdvanceNext
<1>3. TypeOK /\ RunInvariant /\ AdvanceInvariant /\ [Next]_vars
        => [\A k \in Key : rows[k] # NoDoc => rows'[k] # NoDoc /\ ~Revises(rows[k], rows'[k])]_vars
  <2> SUFFICES ASSUME TypeOK, RunInvariant, AdvanceInvariant, [Next]_vars, UNCHANGED vars \/ Next
               PROVE  \A k \in Key : rows[k] # NoDoc =>
                        rows'[k] # NoDoc /\ ~Revises(rows[k], rows'[k])
    OBVIOUS
  <2>1. CASE rows' = rows
    <3>1. \A d : ~Revises(d, d)
      BY NoticeType DEF Revises, ListedOnce
    <3> QED BY <2>1, <3>1
  <2>2. CASE rows' # rows
    <3>1. pc = "publish" /\ rows' = Merged
      BY <2>2 DEF vars, Next, RunStep, Exchange, exchange, release, List, Attach, Serve, Age,
           BeginWindow, BeginBackfill, LoadState, Discover, SkipMarked, BudgetStop,
           HistoryFails, ScanSymbol, Process, SymbolDone, ShardDone, Trip, Finish,
           Publish, PublishFails, DeleteState, UploadState, EndRed, Die
    <3> QED BY <3>1, PublishAdvances DEF RunInvariant
  <2> QED BY <2>1, <2>2
<1> QED BY <1>1, <1>2, <1>3, TypeCorrectness, RunIsConsistent, PTL DEF Spec, RowsOnlyAdvance
=============================================================================
