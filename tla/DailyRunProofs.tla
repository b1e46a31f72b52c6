--------------------------- MODULE DailyRunProofs ---------------------------
(***************************************************************************)
(* Theorems about DailyRun, for any calendar, sessions, years and windows, *)
(* and whatever counts the row-count gate and the completeness check see.  *)
(* A list is determined by the sightings merged into it, so the argument   *)
(* is about sightings: a run only adds to those it synced, it adds what    *)
(* its store has, and what its store has was traded.                       *)
(***************************************************************************)
EXTENDS DailyRun, FiniteSetTheorems, WellFoundedInduction, TLAPS

\* The days on which a version was sighted.
Sighted(seen, v) == {d \in Day : v \in seen[d]}

\* A list whose spans are those of its sightings, whatever its as_of.
Rebuilt(b) ==
  \A v \in Version :
    /\ Sighted(b.seen, v) = {} => b.list[v] = Unlisted
    /\ Sighted(b.seen, v) # {} =>
         b.list[v].first = Min(Sighted(b.seen, v)) /\ b.list[v].last = Max(Sighted(b.seen, v))

\* The NSE list is a rebuild but for as_of, the BSE list is one.
Rebuilds(lists) == Rebuilt(lists["nse"]) /\ lists["bse"].list = VersionsIn(lists["bse"].seen)

Grown(lists, prior) == \A v \in Venue, d \in Day : prior[v].seen[d] \subseteq lists[v].seen[d]

\* Day d of a window: it failed, or it is in the store; or the run is not a success.
Covered(d) ==
  d \in run.failed \/ store[d] # {} \/ (d = run.target /\ run.status # "success")

\* A run that will name its failures, up to its publish and after it.
Accounts ==
  run # Idle /\ run.host \in {"runner", "laptop"} =>
    /\ run.pc # "surface" => \A d \in (Window(run.target) \cap OpenDays["nse"]) \ run.days : Covered(d)
    /\ run.pc # "fetch" => run.days = {}
    /\ run.pc \in {"bse", "decide"} /\ "failed" \notin run.others =>
         \A d \in Day : store[d] \subseteq local["nse"].seen[d]
    /\ run.pc = "surface" /\ run.status = "success" /\ "failed" \notin run.others =>
         \A d \in Window(run.target) \cap OpenDays["nse"] :
           d \in run.failed \/ live["nse"].seen[d] # {}

ListInvariant ==
  /\ Rebuilds(live) /\ Rebuilds(local)
  /\ run # Idle => Grown(local, live)
SightingInvariant ==
  /\ \A v \in Venue : Real(live[v].seen, v) /\ Real(local[v].seen, v)
  /\ Real(store, "nse") /\ Real(disk, "nse")
CacheInvariant == CacheIsCurrent /\ (run = Idle => cache = NothingCached)

DailyInvariant == TypeOK /\ ListInvariant /\ SightingInvariant /\ CacheInvariant /\ Accounts

-----------------------------------------------------------------------------
(* Least and greatest days.                                                *)

Before == {p \in Nat \X Nat : p[1] < p[2]}

LEMMA MinIsLeast ==
  ASSUME NEW S \in SUBSET Nat, S # {}
  PROVE  Min(S) \in S /\ \A x \in S : Min(S) <= x
<1>1. \E x \in S : \A y \in S : <<y, x>> \notin Before
  <2>1. Before = OpToRel(<, Nat)
    BY DEF OpToRel, Before
  <2> QED BY <2>1, NatLessThanWellFounded, WFMin
<1>2. \E x \in S : \A y \in S : x <= y
  <2>1. PICK x \in S : \A y \in S : <<y, x>> \notin Before
    BY <1>1
  <2>2. ASSUME NEW y \in S PROVE x <= y
    <3>1. x \in Nat /\ y \in Nat /\ (<<y, x>> \in Before <=> y < x)
      BY DEF Before
    <3> QED BY <2>1, <3>1
  <2> QED BY <2>2
<1> QED BY <1>2 DEF Min

\* A finite set without a greatest element would have a smaller such subset.
LEMMA MaxIsGreatest ==
  ASSUME NEW S \in SUBSET Nat, S # {}, IsFiniteSet(S)
  PROVE  Max(S) \in S /\ \A x \in S : x <= Max(S)
<1> DEFINE Topped(T) == \E x \in T : \A y \in T : y <= x
           Bad == {T \in SUBSET S : T # {} /\ ~Topped(T)}
<1>1. Bad = {}
  <2> SUFFICES ASSUME Bad # {} PROVE FALSE
    OBVIOUS
  <2>1. \E T \in Bad : \A U \in Bad : <<U, T>> \notin StrictSubsetOrdering(S)
    <3>1. Bad \subseteq FiniteSubsetsOf(S)
      BY FS_FiniteSubsetsOfFinite
    <3>2. IsWellFoundedOn(StrictSubsetOrdering(S), FiniteSubsetsOf(S))
      BY FS_StrictSubsetOrderingWellFounded
    <3> HIDE DEF Bad
    <3> QED BY <3>1, <3>2, WFMin
  <2>2. PICK T \in Bad : \A U \in Bad : <<U, T>> \notin StrictSubsetOrdering(S)
    BY <2>1
  <2>3. PICK x \in T : TRUE
    OBVIOUS
  <2>4. Topped(T \ {x}) \/ T \ {x} = {}
    <3>1. T \ {x} \in SUBSET S /\ T \in SUBSET S /\ T \ {x} # T
      BY <2>3
    <3>2. <<T \ {x}, T>> \in StrictSubsetOrdering(S)
      BY <3>1 DEF StrictSubsetOrdering
    <3> QED BY <2>2, <3>1, <3>2
  <2>5. Topped(T)
    <3>1. x \in Nat /\ T \subseteq Nat
      BY <2>3
    <3>2. CASE T \ {x} = {}
      BY <3>1, <3>2, <2>3
    <3>3. CASE Topped(T \ {x})
      <4>1. PICK m \in T \ {x} : \A y \in T \ {x} : y <= m
        BY <3>3
      <4>2. CASE m <= x
        <5>1. \A y \in T : y <= x
          BY <3>1, <4>1, <4>2
        <5> QED BY <2>3, <5>1
      <4>3. CASE ~(m <= x)
        <5>1. \A y \in T : y <= m
          BY <3>1, <4>1, <4>3
        <5> QED BY <4>1, <5>1
      <4> QED BY <4>2, <4>3
    <3> QED BY <2>4, <3>2, <3>3
  <2> QED BY <2>5
<1>2. Topped(S)
  BY <1>1
<1> QED BY <1>2 DEF Max

-----------------------------------------------------------------------------
(* A list is determined by its sightings.                                  *)

LEMMA DaysAreFinite ==
  ASSUME DailyAssumptions, NEW S \in SUBSET Day
  PROVE  /\ S \in SUBSET Nat /\ IsFiniteSet(S) /\ 0 \notin S
         /\ S # {} => /\ Min(S) \in S /\ Max(S) \in S
                      /\ \A x \in S : Min(S) <= x /\ x <= Max(S)
<1>1. S \in SUBSET Nat /\ 0 \notin S
  BY DEF DailyAssumptions
<1>2. IsFiniteSet(S)
  BY FS_Subset DEF DailyAssumptions
<1> QED BY <1>1, <1>2, MinIsLeast, MaxIsGreatest

LEMMA SightedDays ==
  ASSUME DailyAssumptions, NEW seen, NEW v
  PROVE  /\ Sighted(seen, v) \in SUBSET Day
         /\ Sighted(seen, v) # {} =>
              /\ Min(Sighted(seen, v)) \in Sighted(seen, v) /\ Min(Sighted(seen, v)) \in Day
              /\ Max(Sighted(seen, v)) \in Sighted(seen, v) /\ Max(Sighted(seen, v)) \in Day
              /\ \A x \in Sighted(seen, v) : Min(Sighted(seen, v)) <= x /\ x <= Max(Sighted(seen, v))
<1>1. Sighted(seen, v) \in SUBSET Day
  BY DEF Sighted
<1> QED BY <1>1, DaysAreFinite

\* The list of a store is a rebuild, and has the types of one.
LEMMA VersionsInIsRebuilt ==
  ASSUME DailyAssumptions, NEW seen
  PROVE  /\ VersionsIn(seen) \in [Version -> Row]
         /\ Rebuilt(Book(seen))
         /\ \A v \in Version :
              VersionsIn(seen)[v] =
                IF Sighted(seen, v) = {} THEN Unlisted
                ELSE [first |-> Min(Sighted(seen, v)), last |-> Max(Sighted(seen, v)),
                      as_of |-> Max(Sighted(seen, v))]
<1>1. \A v \in Version :
        VersionsIn(seen)[v] =
                IF Sighted(seen, v) = {} THEN Unlisted
                ELSE [first |-> Min(Sighted(seen, v)), last |-> Max(Sighted(seen, v)),
                      as_of |-> Max(Sighted(seen, v))]
  BY DEF VersionsIn, Sighted
<1>2. \A v \in Version : VersionsIn(seen)[v] \in Row
  <2> SUFFICES ASSUME NEW v \in Version PROVE VersionsIn(seen)[v] \in Row
    OBVIOUS
  <2> DEFINE first == Min(Sighted(seen, v))  last == Max(Sighted(seen, v))
  <2>1. Sighted(seen, v) # {} => first \in Day /\ last \in Day
    BY SightedDays
  <2>2. VersionsIn(seen)[v] = IF Sighted(seen, v) = {} THEN Unlisted
                              ELSE [first |-> first, last |-> last, as_of |-> last]
    BY <1>1
  <2> HIDE DEF first, last
  <2> QED BY <2>1, <2>2 DEF Row, Unlisted
<1>3. VersionsIn(seen) \in [Version -> Row]
  BY <1>2 DEF VersionsIn
<1>4. Rebuilt(Book(seen))
  <2>1. Book(seen).list = VersionsIn(seen) /\ Book(seen).seen = seen
    BY DEF Book
  <2> SUFFICES ASSUME NEW v \in Version
               PROVE  /\ Sighted(seen, v) = {} => VersionsIn(seen)[v] = Unlisted
                      /\ Sighted(seen, v) # {} =>
                           /\ VersionsIn(seen)[v].first = Min(Sighted(seen, v))
                           /\ VersionsIn(seen)[v].last = Max(Sighted(seen, v))
    BY <2>1 DEF Rebuilt
  <2> DEFINE first == Min(Sighted(seen, v))  last == Max(Sighted(seen, v))
  <2>2. VersionsIn(seen)[v] = IF Sighted(seen, v) = {} THEN Unlisted
                              ELSE [first |-> first, last |-> last, as_of |-> last]
    BY <1>1
  <2>3. Sighted(seen, v) # {} => VersionsIn(seen)[v].first = first /\ VersionsIn(seen)[v].last = last
    <3> HIDE DEF first, last
    <3> QED BY <2>2
  <2> QED BY <2>2, <2>3
<1> QED BY <1>1, <1>3, <1>4

\* The sightings of two stores put together.
LEMMA UnionIsBoth ==
  ASSUME NEW s \in [Day -> SUBSET Version], NEW t \in [Day -> SUBSET Version]
  PROVE  /\ Union(s, t) \in [Day -> SUBSET Version]
         /\ \A d \in Day : Union(s, t)[d] = s[d] \cup t[d]
         /\ \A v : Sighted(Union(s, t), v) = Sighted(s, v) \cup Sighted(t, v)
BY DEF Union, Sighted

\* The least and the greatest day of two sets are those of the two.
LEMMA ExtremesOfBoth ==
  ASSUME DailyAssumptions, NEW S \in SUBSET Day, NEW T \in SUBSET Day, S # {}, T # {}
  PROVE  /\ Min({Min(S), Min(T)}) = Min(S \cup T)
         /\ Max({Max(S), Max(T)}) = Max(S \cup T)
         /\ (IF Max(T) >= Max(S) THEN Max(T) ELSE Max(S)) = Max(S \cup T)
<1> DEFINE a == Min(S)  b == Min(T)  c == Min(S \cup T)
           p == Max(S)  q == Max(T)  r == Max(S \cup T)
           low == Min({a, b})  high == Max({p, q})
<1>1. /\ a \in S /\ p \in S /\ \A x \in S : a <= x /\ x <= p
      /\ b \in T /\ q \in T /\ \A x \in T : b <= x /\ x <= q
  BY DaysAreFinite
<1>2. c \in S \cup T /\ r \in S \cup T /\ \A x \in S \cup T : c <= x /\ x <= r
  <2>1. S \cup T \in SUBSET Day /\ S \cup T # {}
    OBVIOUS
  <2> QED BY <2>1, DaysAreFinite
<1>3. low \in {a, b} /\ low <= a /\ low <= b
  <2>1. {a, b} \in SUBSET Day /\ {a, b} # {}
    BY <1>1
  <2> QED BY <2>1, DaysAreFinite
<1>4. high \in {p, q} /\ p <= high /\ q <= high
  <2>1. {p, q} \in SUBSET Day /\ {p, q} # {}
    BY <1>1
  <2> QED BY <2>1, DaysAreFinite
<1>5. Day \subseteq Nat
  BY DEF DailyAssumptions
<1> HIDE DEF a, b, c, p, q, r, low, high
<1>6. low = c /\ high = r /\ (IF q >= p THEN q ELSE p) = r
  BY <1>1, <1>2, <1>3, <1>4, <1>5
<1> QED BY <1>6 DEF a, b, c, p, q, r, low, high

\* A merge of a rebuild and a store's list is the rebuild of both, and on BSE
\* its as_of too.
LEMMA MergeIsRebuilt ==
  ASSUME DailyAssumptions, NEW venue,
         NEW prior \in [list: [Version -> Row], seen: [Day -> SUBSET Version]], Rebuilt(prior),
         NEW t \in [Day -> SUBSET Version],
         NEW b, b = [list |-> Merge(venue, prior.list, VersionsIn(t)), seen |-> Union(prior.seen, t)]
  PROVE  /\ b \in [list: [Version -> Row], seen: [Day -> SUBSET Version]]
         /\ Rebuilt(b)
         /\ venue = "bse" /\ prior.list = VersionsIn(prior.seen) => b.list = VersionsIn(b.seen)
<1> DEFINE s == prior.seen  old == prior.list  new == VersionsIn(t)
           m == Merge(venue, old, new)  u == Union(s, t)
<1>1. /\ s \in [Day -> SUBSET Version] /\ old \in [Version -> Row] /\ new \in [Version -> Row]
      /\ u \in [Day -> SUBSET Version]
      /\ \A v : Sighted(u, v) = Sighted(s, v) \cup Sighted(t, v)
  BY VersionsInIsRebuilt, UnionIsBoth
<1>2. ASSUME NEW v \in Version
      PROVE  /\ m[v] \in Row
             /\ Sighted(u, v) = {} => m[v] = Unlisted
             /\ Sighted(u, v) # {} => m[v].first = Min(Sighted(u, v)) /\ m[v].last = Max(Sighted(u, v))
             /\ venue = "bse" /\ old = VersionsIn(s) => m[v] = VersionsIn(u)[v]
  <2> DEFINE S == Sighted(s, v)  T == Sighted(t, v)  U == Sighted(u, v)
             first == Min({old[v].first, new[v].first})  last == Max({old[v].last, new[v].last})
  <2>1. m[v] = IF old[v] = Unlisted THEN new[v]
               ELSE IF new[v] = Unlisted THEN old[v]
               ELSE [first |-> first, last |-> last, as_of |-> AsOf(venue, old[v], new[v])]
    BY DEF Merge
  <2>2. S \in SUBSET Day /\ T \in SUBSET Day /\ U = S \cup T
    BY <1>1 DEF Sighted
  <2>3. /\ S = {} => old[v] = Unlisted
        /\ S # {} => old[v].first = Min(S) /\ old[v].last = Max(S) /\ old[v] # Unlisted
    <3>1. S # {} => Min(S) \in Day /\ 0 \notin Day
      BY <2>2, DaysAreFinite
    <3> QED BY <3>1 DEF Rebuilt, Unlisted
  <2>4. /\ T = {} => new[v] = Unlisted
        /\ T # {} => new[v] = [first |-> Min(T), last |-> Max(T), as_of |-> Max(T)] /\ new[v] # Unlisted
    <3>1. T # {} => Min(T) \in Day /\ 0 \notin Day
      BY <2>2, DaysAreFinite
    <3> QED BY <3>1, VersionsInIsRebuilt DEF Unlisted
  <2>5. /\ U = {} => VersionsIn(u)[v] = Unlisted
        /\ U # {} => VersionsIn(u)[v] = [first |-> Min(U), last |-> Max(U), as_of |-> Max(U)]
    BY VersionsInIsRebuilt
  <2>6. /\ S = {} => VersionsIn(s)[v] = Unlisted
        /\ S # {} => VersionsIn(s)[v] = [first |-> Min(S), last |-> Max(S), as_of |-> Max(S)]
    BY VersionsInIsRebuilt
  <2>7. old[v] \in Row /\ new[v] \in Row
    BY <1>1
  <2> SUFFICES /\ m[v] \in Row
               /\ U = {} => m[v] = Unlisted
               /\ U # {} => m[v].first = Min(U) /\ m[v].last = Max(U)
               /\ venue = "bse" /\ old = VersionsIn(s) => m[v] = VersionsIn(u)[v]
    OBVIOUS
  <2> HIDE DEF S, T, U, s, old, new, m, u
  <2>8. CASE S = {}
    BY <2>1, <2>2, <2>3, <2>4, <2>5, <2>7, <2>8
  <2>9. CASE S # {} /\ T = {}
    BY <2>1, <2>2, <2>3, <2>4, <2>5, <2>6, <2>7, <2>9
  <2>10. CASE S # {} /\ T # {}
    <3>1. /\ first = Min(U) /\ last = Max(U)
          /\ (IF Max(T) >= Max(S) THEN Max(T) ELSE Max(S)) = Max(U)
      <4>1. /\ old[v].first = Min(S) /\ old[v].last = Max(S)
            /\ new[v].first = Min(T) /\ new[v].last = Max(T)
        BY <2>3, <2>4, <2>10
      <4> QED BY <2>2, <2>10, <4>1, ExtremesOfBoth
    <3>2. first \in Day /\ last \in Day
      <4>1. U \in SUBSET Day /\ U # {}
        BY <2>2, <2>10
      <4> QED BY <3>1, <4>1, DaysAreFinite
    <3> HIDE DEF first, last
    <3>3. m[v] = [first |-> first, last |-> last, as_of |-> AsOf(venue, old[v], new[v])]
      BY <2>1, <2>3, <2>4, <2>10
    <3>4. AsOf(venue, old[v], new[v]) \in {old[v].as_of, new[v].as_of}
      BY DEF AsOf, LatestAsOf, FreshAsOf
    <3>5. AsOf(venue, old[v], new[v]) \in Day \cup {0}
      BY <2>7, <3>4 DEF Row
    <3>6. m[v] \in Row
      BY <3>2, <3>3, <3>5 DEF Row
    <3>7. ASSUME venue = "bse", old = VersionsIn(s)
          PROVE  AsOf(venue, old[v], new[v]) = Max(U)
      <4>1. AsOf(venue, old[v], new[v]) = IF new[v].last >= old[v].last THEN new[v].as_of ELSE old[v].as_of
        BY <3>7 DEF AsOf, LatestAsOf
      <4>2. new[v].last = Max(T) /\ new[v].as_of = Max(T) /\ old[v].last = Max(S) /\ old[v].as_of = Max(S)
        BY <2>4, <2>6, <2>10, <3>7
      <4> QED BY <3>1, <4>1, <4>2
    <3>8. U # {}
      BY <2>2, <2>10
    <3> QED BY <2>5, <3>1, <3>3, <3>6, <3>7, <3>8
  <2> QED BY <2>8, <2>9, <2>10
<1>3. m \in [Version -> Row]
  BY <1>2 DEF Merge
<1>4. venue = "bse" /\ old = VersionsIn(s) => m = VersionsIn(u)
  <2>1. VersionsIn(u) \in [Version -> Row]
    BY VersionsInIsRebuilt
  <2> HIDE DEF m, u, old, s
  <2> QED BY <1>2, <1>3, <2>1
<1>5. \A v \in Version :
        /\ Sighted(u, v) = {} => m[v] = Unlisted
        /\ Sighted(u, v) # {} => m[v].first = Min(Sighted(u, v)) /\ m[v].last = Max(Sighted(u, v))
  BY <1>2
<1> HIDE DEF m, u, old, s
<1>6. Rebuilt([list |-> m, seen |-> u])
  BY <1>5 DEF Rebuilt
<1>7. [list |-> m, seen |-> u] \in [list: [Version -> Row], seen: [Day -> SUBSET Version]]
  BY <1>1, <1>3
<1>8. b = [list |-> m, seen |-> u]
  BY DEF m, u, old, s
<1> QED BY <1>4, <1>6, <1>7, <1>8 DEF old, s

\* What is listed was sighted, and the newest session is the last sighting.
LEMMA NewestIsSeen ==
  ASSUME DailyAssumptions,
         NEW b \in [list: [Version -> Row], seen: [Day -> SUBSET Version]], Rebuilt(b)
  PROVE  /\ Newest(b.list) \in Nat
         /\ Listed(b.list) = {v \in Version : Sighted(b.seen, v) # {}}
         /\ Listed(b.list) = {} => Newest(b.list) = 0
         /\ Listed(b.list) # {} => Newest(b.list) \in Day /\ b.seen[Newest(b.list)] # {}
         /\ \A d \in Day : b.seen[d] # {} => d <= Newest(b.list)
<1>1. ASSUME NEW v \in Version, Sighted(b.seen, v) # {}
      PROVE  /\ b.list[v] # Unlisted /\ b.list[v].last \in Sighted(b.seen, v)
             /\ \A d \in Sighted(b.seen, v) : d <= b.list[v].last
  <2>1. b.list[v].first = Min(Sighted(b.seen, v)) /\ b.list[v].last = Max(Sighted(b.seen, v))
    BY <1>1 DEF Rebuilt
  <2>2. Min(Sighted(b.seen, v)) # 0
    BY <1>1, SightedDays, DaysAreFinite
  <2> QED BY <1>1, <2>1, <2>2, SightedDays DEF Unlisted
<1>2. Listed(b.list) = {v \in Version : Sighted(b.seen, v) # {}}
  BY <1>1 DEF Listed, Rebuilt
<1> DEFINE L == Listed(b.list)  lasts == {b.list[v].last : v \in L}
<1>3. ASSUME NEW v \in L
      PROVE  /\ b.list[v].last \in Day /\ v \in b.seen[b.list[v].last]
             /\ \A d \in Day : v \in b.seen[d] => d <= b.list[v].last
  BY <1>1, <1>2 DEF Sighted
<1>4. Day \subseteq Nat
  BY DEF DailyAssumptions
<1>5. CASE L = {}
  <2>1. \A d \in Day : b.seen[d] = {}
    BY <1>2, <1>5 DEF Sighted
  <2> QED BY <1>2, <1>5, <2>1 DEF Newest
<1>6. CASE L # {}
  <2>1. Newest(b.list) = Max(lasts)
    BY <1>6 DEF Newest
  <2>2. lasts \in SUBSET Day /\ lasts # {}
    BY <1>3, <1>6
  <2> DEFINE top == Max(lasts)
  <2>3. top \in lasts /\ \A x \in lasts : x <= top
    BY <2>2, DaysAreFinite
  <2> HIDE DEF top
  <2>4. top \in Day /\ b.seen[top] # {}
    BY <1>3, <2>2, <2>3
  <2>5. ASSUME NEW d \in Day, b.seen[d] # {} PROVE d <= top
    <3>1. PICK v \in Version : v \in b.seen[d]
      BY <2>5
    <3>2. v \in L
      BY <1>2, <3>1 DEF Sighted
    <3>3. d <= b.list[v].last /\ b.list[v].last <= top
      BY <1>3, <2>3, <3>1, <3>2
    <3>4. d \in Nat /\ b.list[v].last \in Nat /\ top \in Nat
      BY <1>3, <2>4, <3>2 DEF DailyAssumptions
    <3> QED BY <3>3, <3>4
  <2>6. Newest(b.list) = top
    BY <2>1 DEF top
  <2> QED BY <1>2, <1>4, <1>6, <2>4, <2>5, <2>6
<1> QED BY <1>5, <1>6

\* A list with more sightings has no fewer rows and no older newest session.
LEMMA GrownIsMore ==
  ASSUME DailyAssumptions,
         NEW a \in [list: [Version -> Row], seen: [Day -> SUBSET Version]], Rebuilt(a),
         NEW b \in [list: [Version -> Row], seen: [Day -> SUBSET Version]], Rebuilt(b),
         \A d \in Day : a.seen[d] \subseteq b.seen[d]
  PROVE  /\ Listed(a.list) \subseteq Listed(b.list)
         /\ Cardinality(Listed(b.list)) >= Cardinality(Listed(a.list))
         /\ Newest(b.list) >= Newest(a.list)
<1>1. Listed(a.list) \subseteq Listed(b.list)
  <2>1. \A v \in Version : Sighted(a.seen, v) \subseteq Sighted(b.seen, v)
    BY DEF Sighted
  <2>2. Listed(a.list) = {v \in Version : Sighted(a.seen, v) # {}}
    BY NewestIsSeen
  <2>3. Listed(b.list) = {v \in Version : Sighted(b.seen, v) # {}}
    BY NewestIsSeen
  <2> QED BY <2>1, <2>2, <2>3
<1>2. IsFiniteSet(Listed(b.list))
  <2>1. IsFiniteSet(Version) /\ Listed(b.list) \in SUBSET Version
    BY DEF DailyAssumptions, Listed
  <2> QED BY <2>1, FS_Subset
<1>3. Cardinality(Listed(b.list)) >= Cardinality(Listed(a.list))
  <2>1. Cardinality(Listed(a.list)) <= Cardinality(Listed(b.list))
    BY <1>1, <1>2, FS_Subset
  <2>2. Cardinality(Listed(a.list)) \in Nat /\ Cardinality(Listed(b.list)) \in Nat
    BY <1>1, <1>2, FS_Subset, FS_CardinalityType
  <2> QED BY <2>1, <2>2
<1>4. Newest(b.list) >= Newest(a.list)
  <2>1. Newest(a.list) = 0 \/ (Newest(a.list) \in Day /\ a.seen[Newest(a.list)] # {})
    BY NewestIsSeen
  <2>2. Newest(b.list) \in Nat /\ Newest(a.list) \in Nat
    BY NewestIsSeen
  <2>3. CASE Newest(a.list) = 0
    BY <2>2, <2>3
  <2>4. CASE Newest(a.list) \in Day /\ a.seen[Newest(a.list)] # {}
    <3>1. b.seen[Newest(a.list)] # {}
      BY <2>4
    <3>2. Newest(a.list) <= Newest(b.list)
      BY <2>4, <3>1, NewestIsSeen
    <3> QED BY <2>2, <3>2
  <2> QED BY <2>1, <2>3, <2>4
<1> QED BY <1>1, <1>3, <1>4

-----------------------------------------------------------------------------
(* The store and its cache.                                                *)

LEMMA ReadIsStore ==
  ASSUME TypeOK, CacheIsCurrent, NEW d \in Day
  PROVE  Read(d) = store[d]
<1>1. cache[Year[d]] = NotCached \/ cache[Year[d]] = Slice(Year[d])
  BY DEF TypeOK, CacheIsCurrent
<1>2. Slice(Year[d])[d] = store[d]
  BY DEF Slice
<1> QED BY <1>1, <1>2 DEF Read

\* A read puts in the cache what the store holds.
LEMMA CachingKeeps ==
  ASSUME TypeOK, CacheIsCurrent, NEW days
  PROVE  /\ DOMAIN CachedFrom(cache, days) = DOMAIN cache
         /\ \A y \in DOMAIN cache : CachedFrom(cache, days)[y] \in {NotCached, Slice(y)}
BY DEF CacheIsCurrent, CachedFrom

LEMMA ReadingStep ==
  ASSUME TypeOK, CacheIsCurrent, NEW days, cache' = CachedFrom(cache, days), store' = store
  PROVE  CacheIsCurrent' /\ DOMAIN cache' = DOMAIN cache
<1>1. \A y : Slice(y)' = Slice(y)
  BY DEF Slice
<1> QED BY <1>1, CachingKeeps DEF CacheIsCurrent

\* An append replaces a year that leaves the cache; a day's rows are added.
LEMMA AppendStep ==
  ASSUME TypeOK, CacheIsCurrent, Real(store, "nse"), NEW d \in Day,
         NEW rows \in SUBSET Version, rows \subseteq Traded["nse"][d],
         store' = Appended(d, rows), cache' = Invalidated(d)
  PROVE  /\ CacheIsCurrent' /\ DOMAIN cache' = DOMAIN cache
         /\ store' \in [Day -> SUBSET Version] /\ Real(store', "nse")
         /\ rows \subseteq store'[d] /\ \A e \in Day : store[e] \subseteq store'[e]
<1>1. \A e \in Day : store'[e] = IF e = d THEN store[d] \cup rows ELSE store[e]
  BY ReadIsStore DEF Appended
<1>2. store' \in [Day -> SUBSET Version]
  <2>1. \A e \in Day : store'[e] \in SUBSET Version
    BY <1>1 DEF TypeOK
  <2> QED BY <2>1 DEF Appended
<1>3. DOMAIN cache' = DOMAIN cache
  BY CachingKeeps DEF Invalidated
<1>4. ASSUME NEW y \in DOMAIN cache PROVE cache'[y] \in {NotCached, Slice(y)'}
  <2>1. CASE y = Year[d]
    BY <1>4, <2>1, CachingKeeps DEF Invalidated
  <2>2. CASE y # Year[d]
    <3>1. Slice(y)' = Slice(y)
      <4>1. \A e \in {x \in Day : Year[x] = y} : store'[e] = store[e]
        BY <1>1, <2>2
      <4> QED BY <4>1 DEF Slice
    <3> QED BY <1>4, <2>2, <3>1, CachingKeeps DEF Invalidated
  <2> QED BY <2>1, <2>2
<1>5. CacheIsCurrent'
  BY <1>3, <1>4 DEF CacheIsCurrent
<1> QED BY <1>1, <1>2, <1>3, <1>5 DEF Real

-----------------------------------------------------------------------------
(* What the steps of a run do.                                             *)

\* A day of the window: its status is reported, and the store only grows.
FetchStep(d) ==
  /\ run \in Runs /\ run' \in Runs /\ run.pc = "fetch" /\ run'.pc = "fetch"
  /\ run'.host = run.host /\ run'.target = run.target /\ run'.others = run.others
  /\ d \in run.days /\ run'.days = run.days \ {d}
  /\ d = run.target => run'.status # "none"
  /\ d # run.target => run'.status = run.status
  /\ run.failed \subseteq run'.failed
  /\ d \in OpenDays["nse"] =>
       d \in run'.failed \/ store'[d] # {} \/ (d = run.target /\ run'.status # "success")
  /\ store' \in [Day -> SUBSET Version] /\ Real(store', "nse")
  /\ \A e \in Day : store[e] \subseteq store'[e]
  /\ CacheIsCurrent' /\ DOMAIN cache' = DOMAIN cache
  /\ faults' \in 0..MaxFaults
  /\ UNCHANGED <<today, posted, live, local, disk, reported>>

LEMMA TurnIsADay ==
  ASSUME DailyAssumptions, TypeOK, NEW d, Turn(d) PROVE d \in run.days
<1>1. run.days \in SUBSET Day
  <2>1. run # Idle
    BY DEF Turn, Idle
  <2>2. run \in Runs
    BY <2>1 DEF TypeOK
  <2> QED BY <2>2 DEF Runs
<1>2. d = Min(run.days) /\ run.days # {}
  BY DEF Turn
<1> QED BY <1>1, <1>2, DaysAreFinite

LEMMA ReportStep ==
  ASSUME TypeOK, NEW d \in Day, Turn(d), NEW status \in Ok \cup {"failed"}, Report(d, status)
  PROVE  /\ run \in Runs /\ run' \in Runs /\ run.pc = "fetch" /\ run'.pc = "fetch"
         /\ run'.host = run.host /\ run'.target = run.target /\ run'.others = run.others
         /\ run'.days = run.days \ {d}
         /\ run'.status = IF d = run.target THEN status ELSE run.status
         /\ run'.failed = IF d # run.target /\ status = "failed" THEN run.failed \cup {d} ELSE run.failed
<1>1. run \in Runs /\ run.pc = "fetch"
  BY DEF TypeOK, Turn, Idle
<1> DEFINE r == [run EXCEPT
                   !.days = @ \ {d},
                   !.status = IF d = run.target THEN status ELSE @,
                   !.failed = IF d # run.target /\ status = "failed" THEN @ \cup {d} ELSE @]
<1>2. run' = r
  BY DEF Report
<1>3. /\ r \in Runs /\ r.pc = run.pc /\ r.host = run.host /\ r.target = run.target
      /\ r.others = run.others /\ r.days = run.days \ {d}
      /\ r.status = IF d = run.target THEN status ELSE run.status
      /\ r.failed = IF d # run.target /\ status = "failed" THEN run.failed \cup {d} ELSE run.failed
  BY <1>1 DEF Runs
<1> HIDE DEF r
<1> QED BY <1>1, <1>2, <1>3

LEMMA DefectsAreCounted ==
  ASSUME NEW f, NEW clean, NEW d PROVE Defects(f, clean, d) \in Nat
<1> DEFINE three == {<<"rows", f.rows # Whole(d)>>, <<"date", f.date # d>>, <<"quarantine", clean # f.rows>>}
           found == {x \in three : x[2]}
<1>1. IsFiniteSet(three)
  <2>1. /\ IsFiniteSet({<<"rows", f.rows # Whole(d)>>})
        /\ IsFiniteSet({<<"date", f.date # d>>})
        /\ IsFiniteSet({<<"quarantine", clean # f.rows>>})
    BY FS_Singleton
  <2>2. IsFiniteSet({<<"rows", f.rows # Whole(d)>>} \cup {<<"date", f.date # d>>}
                      \cup {<<"quarantine", clean # f.rows>>})
    BY <2>1, FS_Union
  <2>3. three = {<<"rows", f.rows # Whole(d)>>} \cup {<<"date", f.date # d>>}
                      \cup {<<"quarantine", clean # f.rows>>}
    OBVIOUS
  <2> QED BY <2>2, <2>3
<1>2. found \in SUBSET three
  OBVIOUS
<1>3. Cardinality(found) \in Nat
  BY <1>1, <1>2, FS_Subset, FS_CardinalityType
<1> QED BY <1>3 DEF Defects

LEMMA SkippingStep ==
  ASSUME DailyAssumptions, TypeOK, SightingInvariant, CacheIsCurrent, NEW d \in Day,
         SkipHoliday(d) \/ SkipStored(d)
  PROVE  FetchStep(d)
<1>1. Turn(d) /\ store' = store /\ faults' = faults /\ RunUnchanged
  BY DEF SkipHoliday, SkipStored
<1>2. d \in run.days
  BY <1>1, TurnIsADay
<1>3. CASE SkipHoliday(d)
  <2>1. Report(d, "skipped_holiday") /\ d \notin OpenDays["nse"] /\ cache' = cache
    BY <1>3 DEF SkipHoliday
  <2>2. CacheIsCurrent'
    <3>1. \A y : Slice(y)' = Slice(y)
      BY <1>1 DEF Slice
    <3> QED BY <2>1, <3>1 DEF CacheIsCurrent
  <2>3. "skipped_holiday" \in Ok \cup {"failed"}
    BY DEF Ok
  <2> QED BY <1>1, <1>2, <2>1, <2>2, <2>3, ReportStep DEF FetchStep, RunUnchanged, TypeOK, SightingInvariant
<1>4. CASE SkipStored(d)
  <2>1. Report(d, "skipped_idempotent") /\ HasDay(d) /\ cache' = CachedFrom(cache, Consulted(d))
    BY <1>4 DEF SkipStored, AlreadyComplete
  <2>2. store'[d] # {}
    BY <1>1, <2>1, ReadIsStore DEF HasDay
  <2>3. "skipped_idempotent" \in Ok \cup {"failed"}
    BY DEF Ok
  <2>4. CacheIsCurrent' /\ DOMAIN cache' = DOMAIN cache
    BY <1>1, <2>1, ReadingStep
  <2> QED BY <1>1, <1>2, <2>1, <2>2, <2>3, <2>4, ReportStep DEF FetchStep, RunUnchanged, TypeOK, SightingInvariant
<1> QED BY <1>3, <1>4

\* A fault of the run: there are no more than MaxFaults.
LEMMA FaultsAreBounded ==
  ASSUME DailyAssumptions, TypeOK PROVE Fault => faults' \in 0..MaxFaults
BY DEF DailyAssumptions, TypeOK, Fault

LEMMA MissingStep ==
  ASSUME DailyAssumptions, TypeOK, SightingInvariant, CacheIsCurrent, NEW d \in Day,
         FetchAbsent(d) \/ FetchFails(d)
  PROVE  FetchStep(d)
<1>1. Turn(d) /\ store' = store /\ RunUnchanged
  BY DEF FetchAbsent, FetchFails
<1>2. d \in run.days
  BY <1>1, TurnIsADay
<1>3. faults' \in 0..MaxFaults
  BY FaultsAreBounded DEF FetchAbsent, FetchFails, TypeOK
<1>4. PICK days : cache' = CachedFrom(cache, days)
  BY DEF FetchAbsent, FetchFails
<1>5. CacheIsCurrent' /\ DOMAIN cache' = DOMAIN cache
  BY <1>1, <1>4, ReadingStep
<1>6. PICK status \in {"failed", "not_yet"} : Report(d, status) /\ (status = "not_yet" => d = run.target)
  BY DEF FetchAbsent, FetchFails
<1>7. status \in Ok \cup {"failed"} /\ status # "success" /\ status # "none"
  BY DEF Ok
<1>8. run.failed \subseteq run'.failed /\ (d \in run'.failed \/ (d = run.target /\ run'.status # "success"))
  BY <1>1, <1>6, <1>7, ReportStep
<1> QED BY <1>1, <1>2, <1>3, <1>5, <1>6, <1>7, <1>8, ReportStep DEF FetchStep, RunUnchanged, TypeOK, SightingInvariant

LEMMA IngestStep ==
  ASSUME DailyAssumptions, TypeOK, SightingInvariant, CacheIsCurrent, NEW d \in Day,
         NEW f \in Frames(d), NEW clean \in SUBSET f.rows, Ingest(d, f, clean)
  PROVE  FetchStep(d)
<1>1. Turn(d) /\ RunUnchanged /\ faults' = faults + Defects(f, clean, d) /\ faults' <= MaxFaults
  BY DEF Ingest
<1>2. d \in run.days
  BY <1>1, TurnIsADay
<1>3. faults' \in 0..MaxFaults
  BY <1>1, DefectsAreCounted DEF TypeOK, DailyAssumptions
<1>4. clean \subseteq Traded["nse"][d] /\ clean \in SUBSET Version
  BY DEF Frames, Whole, DailyAssumptions, Venue
<1>5. CASE Accepted(d, f) /\ clean # {}
  <2>1. Report(d, "success") /\ store' = Appended(d, clean) /\ cache' = Invalidated(d)
    BY <1>5 DEF Ingest, Accepted
  <2>2. /\ CacheIsCurrent' /\ DOMAIN cache' = DOMAIN cache
        /\ store' \in [Day -> SUBSET Version] /\ Real(store', "nse")
        /\ clean \subseteq store'[d] /\ \A e \in Day : store[e] \subseteq store'[e]
    BY <1>4, <2>1, AppendStep DEF SightingInvariant
  <2>3. "success" \in Ok \cup {"failed"}
    BY DEF Ok
  <2> QED BY <1>1, <1>2, <1>3, <1>5, <2>1, <2>2, <2>3, ReportStep DEF FetchStep, RunUnchanged
<1>6. CASE ~(Accepted(d, f) /\ clean # {})
  <2>1. Report(d, "failed") /\ store' = store
    BY <1>6 DEF Ingest
  <2>2. PICK days : cache' = CachedFrom(cache, days)
    BY <1>6 DEF Ingest
  <2>3. CacheIsCurrent' /\ DOMAIN cache' = DOMAIN cache
    BY <2>1, <2>2, ReadingStep
  <2> QED BY <1>1, <1>2, <1>3, <2>1, <2>3, ReportStep DEF FetchStep, RunUnchanged, TypeOK, SightingInvariant
<1> QED BY <1>5, <1>6

LEMMA DeltaLostStep ==
  ASSUME DailyAssumptions, TypeOK, SightingInvariant, CacheIsCurrent, NEW d \in Day,
         IngestWithoutDelta(d)
  PROVE  FetchStep(d)
<1>1. /\ Turn(d) /\ RunUnchanged /\ Report(d, "failed")
      /\ store' = Appended(d, Whole(d)) /\ cache' = Invalidated(d)
  BY DEF IngestWithoutDelta, Full
<1>2. d \in run.days
  BY <1>1, TurnIsADay
<1>3. faults' \in 0..MaxFaults
  BY FaultsAreBounded DEF IngestWithoutDelta
<1>4. Whole(d) \subseteq Traded["nse"][d] /\ Whole(d) \in SUBSET Version
  BY DEF Whole, DailyAssumptions, Venue
<1>5. /\ CacheIsCurrent' /\ DOMAIN cache' = DOMAIN cache
      /\ store' \in [Day -> SUBSET Version] /\ Real(store', "nse")
      /\ \A e \in Day : store[e] \subseteq store'[e]
  BY <1>1, <1>4, AppendStep DEF SightingInvariant
<1> QED BY <1>1, <1>2, <1>3, <1>5, ReportStep DEF FetchStep, RunUnchanged

LEMMA FetchDayStep ==
  ASSUME DailyAssumptions, TypeOK, SightingInvariant, CacheIsCurrent, NEW d \in Day, FetchDay(d)
  PROVE  FetchStep(d)
BY SkippingStep, MissingStep, IngestStep, DeltaLostStep DEF FetchDay

-----------------------------------------------------------------------------
(* The invariant is inductive.                                             *)

LEMMA FetchKeeps ==
  ASSUME DailyAssumptions, DailyInvariant, NEW d \in Day, FetchDay(d)
  PROVE  DailyInvariant'
<1>1. TypeOK /\ ListInvariant /\ SightingInvariant /\ CacheInvariant /\ Accounts
  BY DEF DailyInvariant
<1>2. FetchStep(d)
  BY <1>1, FetchDayStep DEF CacheInvariant
<1>3. run # Idle /\ run' # Idle
  BY <1>2 DEF FetchStep, Idle
<1>4. TypeOK'
  <2>1. run'.target \notin run'.days => run'.status # "none"
    BY <1>1, <1>2, <1>3 DEF TypeOK, FetchStep
  <2> QED BY <1>1, <1>2, <1>3, <2>1 DEF TypeOK, FetchStep
<1>5. ListInvariant'
  <2>1. live' = live /\ local' = local
    BY <1>2 DEF FetchStep
  <2> QED BY <1>1, <1>3, <2>1 DEF ListInvariant
<1>6. SightingInvariant'
  BY <1>1, <1>2 DEF SightingInvariant, FetchStep
<1>7. CacheInvariant'
  BY <1>2, <1>3 DEF CacheInvariant, FetchStep
<1>8. Accounts'
  <2> SUFFICES ASSUME run.host \in {"runner", "laptop"},
                      NEW e \in (Window(run.target) \cap OpenDays["nse"]) \ run'.days
               PROVE  Covered(e)'
    BY <1>2, <1>3 DEF Accounts, FetchStep
  <2>1. e \in Day
    BY DEF DailyAssumptions, Venue
  <2>2. CASE e = d
    BY <1>2, <2>2 DEF FetchStep, Covered
  <2>3. CASE e # d
    <3>1. Covered(e)
      BY <1>1, <1>2, <1>3, <2>3 DEF Accounts, FetchStep
    <3>2. store[e] \subseteq store'[e] /\ run.failed \subseteq run'.failed /\ run'.target = run.target
      BY <1>2, <2>1 DEF FetchStep
    <3>3. e = run.target => run'.status = run.status
      BY <1>2, <2>3 DEF FetchStep
    <3> QED BY <3>1, <3>2, <3>3 DEF Covered
  <2> QED BY <2>2, <2>3
<1> QED BY <1>4, <1>5, <1>6, <1>7, <1>8 DEF DailyInvariant

LEMMA EmptyIsRebuilt ==
  ASSUME DailyAssumptions
  PROVE  /\ NoSessions \in [Day -> SUBSET Version] /\ \A v \in Venue : Real(NoSessions, v)
         /\ Empty \in Lists /\ Rebuilds(Empty) /\ \A v \in Venue : Real(Empty[v].seen, v)
<1>1. NoSessions \in [Day -> SUBSET Version] /\ \A v \in Venue : Real(NoSessions, v)
  BY DEF NoSessions, Real
<1>2. VersionsIn(NoSessions) \in [Version -> Row] /\ Rebuilt(Book(NoSessions))
  BY VersionsInIsRebuilt
<1>3. \A v \in Venue : Empty[v] = Book(NoSessions)
  BY DEF Empty
<1>4. Book(NoSessions).list = VersionsIn(NoSessions) /\ Book(NoSessions).seen = NoSessions
  BY DEF Book
<1>5. Empty \in Lists
  BY <1>1, <1>2 DEF Empty, Lists, Book
<1>6. Rebuilds(Empty)
  BY <1>2, <1>3, <1>4 DEF Rebuilds, Venue
<1> QED BY <1>1, <1>3, <1>4, <1>5, <1>6

\* Where a run ends: nothing of it is left but the laptop's store.
LEMMA EndedKeeps ==
  ASSUME DailyAssumptions, DailyInvariant, Ended, UNCHANGED <<today, posted, live>>,
         faults' \in 0..MaxFaults, reported' \subseteq Day
  PROVE  DailyInvariant'
<1>1. TypeOK /\ ListInvariant /\ SightingInvariant /\ CacheInvariant
  BY DEF DailyInvariant
<1>2. /\ run' = Idle /\ local' = Empty /\ store' = NoSessions /\ cache' = NothingCached
      /\ disk' = disk \/ disk' = store
  BY DEF Ended
<1>3. TypeOK'
  <2>1. DOMAIN cache' = {Year[d] : d \in Day}
    BY <1>2 DEF NothingCached
  <2> QED BY <1>1, <1>2, <2>1, EmptyIsRebuilt DEF TypeOK
<1>4. ListInvariant'
  BY <1>1, <1>2, EmptyIsRebuilt DEF ListInvariant
<1>5. SightingInvariant'
  BY <1>1, <1>2, EmptyIsRebuilt DEF SightingInvariant, Venue
<1>6. CacheInvariant'
  <2>1. \A y \in DOMAIN cache' : cache'[y] = NotCached
    BY <1>2 DEF NothingCached
  <2> QED BY <1>2, <2>1 DEF CacheInvariant, CacheIsCurrent
<1>7. Accounts'
  BY <1>2 DEF Accounts
<1> QED BY <1>3, <1>4, <1>5, <1>6, <1>7 DEF DailyInvariant

LEMMA RunIsARun ==
  ASSUME TypeOK, run # Idle PROVE run \in Runs /\ run.target \in Day /\ run.failed \subseteq Day
<1>1. run \in Runs
  BY DEF TypeOK
<1> QED BY <1>1 DEF Runs

LEMMA DieKeeps == DailyAssumptions /\ DailyInvariant /\ Die => DailyInvariant'
<1> SUFFICES ASSUME DailyAssumptions, DailyInvariant, Die PROVE DailyInvariant'
  OBVIOUS
<1>1. TypeOK
  BY DEF DailyInvariant
<1>2. reported' \subseteq Day
  BY <1>1, RunIsARun DEF Die
<1>3. faults' \in 0..MaxFaults
  BY <1>1, FaultsAreBounded DEF Die
<1> QED BY <1>2, <1>3, EndedKeeps DEF Die

LEMMA SurfaceKeeps ==
  ASSUME DailyAssumptions, DailyInvariant, NEW lastRung \in BOOLEAN, Surface(lastRung)
  PROVE  DailyInvariant'
<1>1. TypeOK
  BY DEF DailyInvariant
<1>2. run # Idle
  BY DEF Surface, Idle
<1>3. reported' \subseteq Day
  BY <1>1, <1>2, RunIsARun DEF Surface
<1>4. faults' \in 0..MaxFaults
  BY <1>1 DEF Surface, TypeOK
<1> QED BY <1>3, <1>4, EndedKeeps DEF Surface

\* A run synced what is live.
LEMMA BeginKeeps ==
  ASSUME DailyAssumptions, DailyInvariant,
         NEW host \in {"runner", "laptop", "backfill", "rebuild"}, NEW days \in SUBSET Day,
         NEW start \in days, Begin(host, start, days),
         host \in {"runner", "laptop"} => days = Window(start)
  PROVE  DailyInvariant'
<1>1. TypeOK /\ ListInvariant /\ SightingInvariant /\ CacheInvariant
  BY DEF DailyInvariant
<1> DEFINE r == [Idle EXCEPT !.pc = "fetch", !.host = host, !.target = start, !.days = days]
<1>2. r \in Runs /\ r.pc = "fetch" /\ r.host = host /\ r.target = start /\ r.days = days
  BY DEF Runs, Idle
<1>3. /\ run = Idle /\ run' = r /\ local' = live /\ live' = live /\ cache' = cache
      /\ disk' = disk /\ reported' = {} /\ store' \in {NoSessions, disk}
      /\ UNCHANGED <<today, posted, faults>>
  BY DEF Begin
<1> HIDE DEF r
<1>4. r # Idle
  BY <1>2 DEF Idle
<1>5. TypeOK'
  BY <1>1, <1>2, <1>3, <1>4, EmptyIsRebuilt DEF TypeOK
<1>6. ListInvariant'
  BY <1>1, <1>3, <1>4 DEF ListInvariant, Grown
<1>7. SightingInvariant'
  BY <1>1, <1>3, EmptyIsRebuilt DEF SightingInvariant, Venue
<1>8. CacheInvariant'
  <2>1. cache' = NothingCached
    BY <1>1, <1>3 DEF CacheInvariant
  <2>2. \A y \in DOMAIN cache' : cache'[y] = NotCached
    BY <2>1 DEF NothingCached
  <2> QED BY <2>1, <2>2 DEF CacheInvariant, CacheIsCurrent
<1>9. Accounts'
  BY <1>2, <1>3 DEF Accounts
<1> QED BY <1>5, <1>6, <1>7, <1>8, <1>9 DEF DailyInvariant

\* The window of a run has its target.
LEMMA WindowHasTarget ==
  ASSUME DailyAssumptions, NEW d \in Day
  PROVE  Window(d) \in SUBSET Day /\ d \in Window(d)
<1>1. OpenDays["nse"] \in SUBSET Day /\ d \in Nat /\ CatchupDays \in Nat \ {0}
  BY DEF DailyAssumptions, Venue
<1>2. CASE d \in OpenDays["nse"]
  <2>1. {e \in OpenDays["nse"] : d < e /\ e <= d} = {}
    <3>1. \A e \in OpenDays["nse"] : e \in Nat
      BY <1>1 DEF DailyAssumptions
    <3> QED BY <1>1, <3>1
  <2>2. Cardinality({e \in OpenDays["nse"] : d < e /\ e <= d}) < CatchupDays
    BY <1>1, <2>1, FS_EmptySet
  <2> QED BY <1>1, <1>2, <2>2 DEF Window, TradingDaysBack
<1>3. CASE d \notin OpenDays["nse"]
  BY <1>3 DEF Window
<1> QED BY <1>2, <1>3

LEMMA StartKeeps ==
  ASSUME DailyAssumptions, DailyInvariant,
         \/ \E host \in {"runner", "laptop"}, d \in Day : StartDaily(host, d)
         \/ StartBackfill
         \/ \E d \in Day : StartRebuild(d)
  PROVE  DailyInvariant'
<1>1. CASE \E host \in {"runner", "laptop"}, d \in Day : StartDaily(host, d)
  BY <1>1, WindowHasTarget, BeginKeeps DEF StartDaily
<1>2. CASE StartBackfill
  <2> DEFINE days == TradingDaysBack(OpenDays["nse"], today, BackfillDays)
  <2>1. days \in SUBSET Day
    BY DEF TradingDaysBack, DailyAssumptions, Venue
  <2>2. days # {} /\ Begin("backfill", Max(days), days)
    BY <1>2 DEF StartBackfill
  <2> HIDE DEF days
  <2>3. Max(days) \in days
    BY <2>1, <2>2, DaysAreFinite
  <2> QED BY <2>1, <2>2, <2>3, BeginKeeps
<1>3. CASE \E d \in Day : StartRebuild(d)
  <2>1. PICK d \in Day : Begin("rebuild", d, {d})
    BY <1>3 DEF StartRebuild
  <2>2. {d} \in SUBSET Day /\ d \in {d}
    OBVIOUS
  <2> QED BY <2>1, <2>2, BeginKeeps
<1> QED BY <1>1, <1>2, <1>3

\* A list built from a prior and a store's sessions.
LEMMA BuiltIsRebuilt ==
  ASSUME DailyAssumptions, NEW venue \in Venue,
         NEW prior \in [list: [Version -> Row], seen: [Day -> SUBSET Version]],
         Rebuilt(prior), Real(prior.seen, venue),
         NEW t \in [Day -> SUBSET Version], Real(t, venue)
  PROVE  /\ Built(venue, prior, t) \in [list: [Version -> Row], seen: [Day -> SUBSET Version]]
         /\ Rebuilt(Built(venue, prior, t))
         /\ venue = "bse" /\ prior.list = VersionsIn(prior.seen)
              => Built(venue, prior, t).list = VersionsIn(Built(venue, prior, t).seen)
         /\ Built(venue, prior, t).seen = Union(prior.seen, t)
         /\ Real(Built(venue, prior, t).seen, venue)
         /\ \A d \in Day : /\ Built(venue, prior, t).seen[d] = prior.seen[d] \cup t[d]
                           /\ prior.seen[d] \subseteq Built(venue, prior, t).seen[d]
<1> DEFINE b == [list |-> Merge(venue, prior.list, VersionsIn(t)), seen |-> Union(prior.seen, t)]
<1>1. /\ b \in [list: [Version -> Row], seen: [Day -> SUBSET Version]] /\ Rebuilt(b)
      /\ venue = "bse" /\ prior.list = VersionsIn(prior.seen) => b.list = VersionsIn(b.seen)
  BY MergeIsRebuilt
<1>2. Built(venue, prior, t) = b /\ b.seen = Union(prior.seen, t)
  BY DEF Built
<1> HIDE DEF b
<1>3. prior.seen \in [Day -> SUBSET Version]
  OBVIOUS
<1>4. \A d \in Day : Union(prior.seen, t)[d] = prior.seen[d] \cup t[d]
  BY <1>3, UnionIsBoth
<1> QED BY <1>1, <1>2, <1>4 DEF Real

\* A rebuild on BSE is a rebuild.
LEMMA BseIsRebuilt ==
  ASSUME DailyAssumptions, NEW b \in [list: [Version -> Row], seen: [Day -> SUBSET Version]],
         b.list = VersionsIn(b.seen)
  PROVE  Rebuilt(b)
<1>1. b = Book(b.seen)
  BY DEF Book
<1> QED BY <1>1, VersionsInIsRebuilt

\* One venue's list is replaced by one with more sightings.
LEMMA ReplacedList ==
  ASSUME DailyAssumptions, NEW lists \in Lists, Rebuilds(lists), \A v \in Venue : Real(lists[v].seen, v),
         NEW venue \in Venue, NEW t \in [Day -> SUBSET Version], Real(t, venue),
         NEW b, b = Built(venue, lists[venue], t),
         NEW after, b \in [list: [Version -> Row], seen: [Day -> SUBSET Version]] => after \in Lists,
         after[venue] = b, \A v \in Venue : v # venue => after[v] = lists[v]
  PROVE  /\ after \in Lists /\ Rebuilds(after) /\ \A v \in Venue : Real(after[v].seen, v)
         /\ Grown(after, lists)
         /\ after[venue].seen = Union(lists[venue].seen, t)
         /\ \A v \in Venue : v # venue => after[v] = lists[v]
<1>1. lists[venue] \in [list: [Version -> Row], seen: [Day -> SUBSET Version]]
  BY DEF Lists
<1>2. Rebuilt(lists[venue])
  BY <1>1, BseIsRebuilt DEF Rebuilds, Venue
<1>3. /\ b \in [list: [Version -> Row], seen: [Day -> SUBSET Version]] /\ Rebuilt(b)
      /\ venue = "bse" /\ lists[venue].list = VersionsIn(lists[venue].seen) => b.list = VersionsIn(b.seen)
      /\ b.seen = Union(lists[venue].seen, t) /\ Real(b.seen, venue)
      /\ \A d \in Day : lists[venue].seen[d] \subseteq b.seen[d]
  BY <1>1, <1>2, BuiltIsRebuilt
<1>4. after \in Lists
  BY <1>3
<1>5. Rebuilds(after)
  BY <1>3 DEF Rebuilds, Venue
<1>6. \A v \in Venue : Real(after[v].seen, v)
  BY <1>3
<1>7. Grown(after, lists)
  BY <1>3 DEF Grown
<1> QED BY <1>3, <1>4, <1>5, <1>6, <1>7

LEMMA BootstrapKeeps == DailyAssumptions /\ DailyInvariant /\ BootstrapAndStart => DailyInvariant'
<1> SUFFICES ASSUME DailyAssumptions, DailyInvariant, BootstrapAndStart PROVE DailyInvariant'
  OBVIOUS
<1>1. TypeOK /\ ListInvariant /\ SightingInvariant /\ CacheInvariant
  BY DEF DailyInvariant
<1> DEFINE r == [Idle EXCEPT !.pc = "fetch", !.target = today, !.days = Window(today)]
<1>2. today \in Day /\ Window(today) \in SUBSET Day /\ today \in Window(today)
  BY <1>1, WindowHasTarget DEF TypeOK
<1>3. r \in Runs /\ r.pc = "fetch" /\ r.target = today /\ r.days = Window(today)
  BY <1>2 DEF Runs, Idle
<1>4. /\ run = Idle /\ run' = r /\ live' = live /\ reported' = {}
      /\ UNCHANGED <<today, posted, store, disk, cache, faults>>
  BY DEF BootstrapAndStart
<1>5. local' = [live EXCEPT !["nse"] = Built("nse", live["nse"], Legacy)]
  BY DEF BootstrapAndStart, Built
<1> HIDE DEF r
<1>6. r # Idle
  BY <1>3 DEF Idle
<1>7. /\ local' \in Lists /\ Rebuilds(local') /\ \A v \in Venue : Real(local'[v].seen, v)
      /\ Grown(local', live)
  <2>1. Legacy \in [Day -> SUBSET Version] /\ Real(Legacy, "nse") /\ "nse" \in Venue
    BY DEF DailyAssumptions, Venue
  <2>2. live \in Lists /\ Rebuilds(live) /\ Grown(live, live) /\ \A v \in Venue : Real(live[v].seen, v)
    BY <1>1 DEF TypeOK, ListInvariant, SightingInvariant, Grown
  <2> DEFINE b == Built("nse", live["nse"], Legacy)
  <2>3. /\ local'["nse"] = b /\ \A v \in Venue : v # "nse" => local'[v] = live[v]
        /\ b \in [list: [Version -> Row], seen: [Day -> SUBSET Version]] => local' \in Lists
    BY <1>5, <2>1, <2>2 DEF Lists
  <2> QED BY <2>1, <2>2, <2>3, ReplacedList
<1>8. TypeOK'
  BY <1>1, <1>2, <1>3, <1>4, <1>6, <1>7 DEF TypeOK
<1>9. ListInvariant'
  BY <1>1, <1>4, <1>7 DEF ListInvariant
<1>10. SightingInvariant'
  BY <1>1, <1>4, <1>7 DEF SightingInvariant
<1>11. CacheInvariant'
  <2>1. \A y : Slice(y)' = Slice(y)
    BY <1>4 DEF Slice
  <2> QED BY <1>1, <1>4, <1>6, <2>1 DEF CacheInvariant, CacheIsCurrent
<1>12. Accounts'
  BY <1>3, <1>4 DEF Accounts
<1> QED BY <1>8, <1>9, <1>10, <1>11, <1>12 DEF DailyInvariant

LEMMA FetchedKeeps == DailyAssumptions /\ DailyInvariant /\ FetchedAll => DailyInvariant'
<1> SUFFICES ASSUME DailyAssumptions, DailyInvariant, FetchedAll PROVE DailyInvariant'
  OBVIOUS
<1>1. TypeOK /\ ListInvariant /\ SightingInvariant /\ CacheInvariant /\ Accounts
  BY DEF DailyInvariant
<1>2. run.pc = "fetch" /\ run.days = {} /\ UNCHANGED <<today, posted, live, faults>> /\ run # Idle
  BY DEF FetchedAll, Idle
<1>3. run \in Runs /\ run.target \in Day /\ run.failed \subseteq Day
  BY <1>1, <1>2, RunIsARun
<1>4. CASE run.host \in {"runner", "laptop"} /\ run.status \in Ok
  <2> DEFINE r == [run EXCEPT !.pc = "reference"]
  <2>1. /\ run' = r /\ cache' = NothingCached /\ UNCHANGED <<local, store, disk, reported>>
    BY <1>4 DEF FetchedAll
  <2>2. /\ r \in Runs /\ r.pc = "reference" /\ r.host = run.host /\ r.target = run.target
        /\ r.days = run.days /\ r.failed = run.failed /\ r.status = run.status
    BY <1>3 DEF Runs
  <2> HIDE DEF r
  <2>3. r # Idle
    BY <2>2 DEF Idle
  <2>4. TypeOK'
    <3>1. DOMAIN cache' = {Year[d] : d \in Day}
      BY <2>1 DEF NothingCached
    <3> QED BY <1>1, <1>2, <2>1, <2>2, <2>3, <3>1 DEF TypeOK
  <2>5. ListInvariant'
    BY <1>1, <1>2, <2>1 DEF ListInvariant
  <2>6. SightingInvariant'
    BY <1>1, <1>2, <2>1 DEF SightingInvariant
  <2>7. CacheInvariant'
    <3>1. \A y \in DOMAIN cache' : cache'[y] = NotCached
      BY <2>1 DEF NothingCached
    <3> QED BY <2>1, <3>1 DEF CacheInvariant, CacheIsCurrent
  <2>8. Accounts'
    BY <1>1, <1>2, <2>1, <2>2 DEF Accounts, Covered
  <2> QED BY <2>4, <2>5, <2>6, <2>7, <2>8 DEF DailyInvariant
<1>5. CASE ~(run.host \in {"runner", "laptop"} /\ run.status \in Ok)
  <2>1. Ended /\ reported' \subseteq Day
    BY <1>3, <1>5 DEF FetchedAll
  <2>2. faults' \in 0..MaxFaults
    BY <1>1, <1>2 DEF TypeOK
  <2> QED BY <1>2, <2>1, <2>2, EndedKeeps
<1> QED BY <1>4, <1>5

LEMMA ReferenceKeeps == DailyAssumptions /\ DailyInvariant /\ BuildReference => DailyInvariant'
<1> SUFFICES ASSUME DailyAssumptions, DailyInvariant, BuildReference PROVE DailyInvariant'
  OBVIOUS
<1>1. TypeOK /\ ListInvariant /\ SightingInvariant /\ CacheInvariant /\ Accounts
  BY DEF DailyInvariant
<1>2. /\ run.pc = "reference" /\ run # Idle
      /\ UNCHANGED <<today, posted, live, store, disk, cache, reported, faults>>
  BY DEF BuildReference, Idle
<1>3. run \in Runs
  BY <1>1, <1>2, RunIsARun
<1>4. /\ run' \in Runs /\ run'.pc = "bse" /\ run'.host = run.host /\ run'.target = run.target
      /\ run'.days = run.days /\ run'.failed = run.failed /\ run'.status = run.status
      /\ "failed" \in run'.others \/ local' = [local EXCEPT !["nse"] = Built("nse", @, store)]
      /\ local' = local \/ local' = [local EXCEPT !["nse"] = Built("nse", @, store)]
  <2>1. CASE ReferenceRefused
    <3> DEFINE r == [run EXCEPT !.pc = "bse", !.others = @ \cup {"failed"}]
    <3>1. run' = r /\ local' = local
      BY <2>1 DEF BuildReference
    <3>2. /\ r \in Runs /\ r.pc = "bse" /\ r.host = run.host /\ r.target = run.target
          /\ r.days = run.days /\ r.failed = run.failed /\ r.status = run.status /\ "failed" \in r.others
      BY <1>3 DEF Runs
    <3> HIDE DEF r
    <3> QED BY <3>1, <3>2
  <2>2. CASE ~ReferenceRefused
    <3> DEFINE r == [run EXCEPT !.pc = "bse"]
    <3>1. run' = r /\ local' = [local EXCEPT !["nse"] = Built("nse", @, store)]
      BY <2>2 DEF BuildReference
    <3>2. /\ r \in Runs /\ r.pc = "bse" /\ r.host = run.host /\ r.target = run.target
          /\ r.days = run.days /\ r.failed = run.failed /\ r.status = run.status
      BY <1>3 DEF Runs
    <3> HIDE DEF r
    <3> QED BY <3>1, <3>2
  <2> QED BY <2>1, <2>2
<1>5. run' # Idle
  BY <1>4 DEF Idle
<1>6. /\ local' \in Lists /\ Rebuilds(local') /\ \A v \in Venue : Real(local'[v].seen, v)
      /\ Grown(local', live)
      /\ "failed" \in run'.others \/ \A d \in Day : store[d] \subseteq local'["nse"].seen[d]
  <2>1. /\ local \in Lists /\ Rebuilds(local) /\ Grown(local, live) /\ live \in Lists
        /\ \A v \in Venue : Real(local[v].seen, v)
        /\ store \in [Day -> SUBSET Version] /\ Real(store, "nse") /\ "nse" \in Venue
    BY <1>1, <1>2 DEF TypeOK, ListInvariant, SightingInvariant, Venue
  <2>2. CASE local' = local /\ "failed" \in run'.others
    BY <2>1, <2>2
  <2>3. CASE local' = [local EXCEPT !["nse"] = Built("nse", local["nse"], store)]
    <3> DEFINE b == Built("nse", local["nse"], store)  after == [local EXCEPT !["nse"] = b]
    <3>0. /\ after["nse"] = b /\ \A v \in Venue : v # "nse" => after[v] = local[v]
          /\ b \in [list: [Version -> Row], seen: [Day -> SUBSET Version]] => after \in Lists
      BY <2>1 DEF Lists
    <3>1. /\ after \in Lists /\ Rebuilds(after) /\ \A v \in Venue : Real(after[v].seen, v)
          /\ Grown(after, local) /\ after["nse"].seen = Union(local["nse"].seen, store)
      <4> HIDE DEF after
      <4> QED BY <2>1, <3>0, ReplacedList
    <3>2. \A d \in Day : store[d] \subseteq Union(local["nse"].seen, store)[d]
      BY DEF Union
    <3> HIDE DEF after
    <3>3. local' = after
      BY <2>3 DEF after
    <3>4. Grown(after, live)
      BY <2>1, <3>1 DEF Grown
    <3> QED BY <3>1, <3>2, <3>3, <3>4
  <2> QED BY <1>4, <2>2, <2>3
<1>7. TypeOK'
  BY <1>1, <1>2, <1>4, <1>5, <1>6 DEF TypeOK
<1>8. ListInvariant'
  BY <1>1, <1>2, <1>6 DEF ListInvariant
<1>9. SightingInvariant'
  BY <1>1, <1>2, <1>6 DEF SightingInvariant
<1>10. CacheInvariant'
  <2>1. \A y : Slice(y)' = Slice(y)
    BY <1>2 DEF Slice
  <2> QED BY <1>1, <1>2, <1>5, <2>1 DEF CacheInvariant, CacheIsCurrent
<1>11. Accounts'
  BY <1>1, <1>2, <1>4, <1>6 DEF Accounts, Covered
<1> QED BY <1>7, <1>8, <1>9, <1>10, <1>11 DEF DailyInvariant

\* What a run reads of BSE was traded.
BseSessions(read) == [d \in Day |-> IF d \in read THEN Traded["bse"][d] ELSE {}]

LEMMA BseSessionsAreReal ==
  ASSUME DailyAssumptions, NEW read
  PROVE  BseSessions(read) \in [Day -> SUBSET Version] /\ Real(BseSessions(read), "bse")
BY DEF DailyAssumptions, Venue, BseSessions, Real

\* The BSE list after a build.
LEMMA BseBuilt ==
  ASSUME DailyAssumptions, DailyInvariant, NEW stop, BuildBse(stop)
  PROVE  /\ run \in Runs /\ run.pc = "bse" /\ run # Idle
         /\ run' \in Runs /\ run'.pc = "decide" /\ run'.host = run.host /\ run'.target = run.target
         /\ run'.days = run.days /\ run'.failed = run.failed /\ run'.status = run.status
         /\ run.others \subseteq run'.others
         /\ faults' \in 0..MaxFaults
         /\ UNCHANGED <<today, posted, live, store, disk, cache, reported>>
         /\ \/ local' = local
            \/ local' = [local EXCEPT !["bse"] =
                            Built("bse", local["bse"], BseSessions({d \in BseDays : d < stop}))]
<1>1. TypeOK
  BY DEF DailyInvariant
<1>2. run.pc = "bse" /\ run # Idle /\ UNCHANGED <<today, posted, live, store, disk, cache, reported>>
  BY DEF BuildBse, Idle
<1>3. run \in Runs
  BY <1>1, <1>2, RunIsARun
<1>4. ASSUME NEW added \in SUBSET (Ok \cup {"failed"}),
             run' = [run EXCEPT !.pc = "decide", !.others = @ \cup added]
      PROVE  /\ run' \in Runs /\ run'.pc = "decide" /\ run'.host = run.host /\ run'.target = run.target
             /\ run'.days = run.days /\ run'.failed = run.failed /\ run'.status = run.status
             /\ run.others \subseteq run'.others
  <2> DEFINE r == [run EXCEPT !.pc = "decide", !.others = @ \cup added]
  <2>1. /\ r \in Runs /\ r.pc = "decide" /\ r.host = run.host /\ r.target = run.target
        /\ r.days = run.days /\ r.failed = run.failed /\ r.status = run.status
        /\ run.others \subseteq r.others
    BY <1>3 DEF Runs
  <2> HIDE DEF r
  <2> QED BY <1>4, <2>1 DEF r
<1>5. CASE run.target \notin OpenDays["bse"] \/ TooFarBehind
  <2> DEFINE added == IF TooFarBehind /\ run.target \in OpenDays["bse"] THEN {"failed"} ELSE {}
  <2>1. local' = local /\ faults' = faults
    BY <1>5 DEF BuildBse
  <2>2. run' = [run EXCEPT !.pc = "decide", !.others = @ \cup added]
    <3>1. run' = [run EXCEPT !.pc = "decide",
                    !.others = IF TooFarBehind /\ run.target \in OpenDays["bse"]
                               THEN @ \cup {"failed"} ELSE @]
      BY <1>5 DEF BuildBse
    <3> QED BY <3>1
  <2>3. added \in SUBSET (Ok \cup {"failed"})
    OBVIOUS
  <2> HIDE DEF added
  <2> QED BY <1>1, <1>2, <1>3, <1>4, <2>1, <2>2, <2>3 DEF TypeOK
<1>6. CASE ~(run.target \notin OpenDays["bse"] \/ TooFarBehind)
  <2> DEFINE read == {d \in BseDays : d < stop}
             merged == read = {} \/ BseMerged(read) # local["bse"]
             status == IF BseDays = {} THEN "skipped_idempotent"
                       ELSE IF ~merged THEN "failed"
                       ELSE IF stop = Never THEN "success"
                       ELSE IF stop = run.target /\ NotPosted(stop) THEN "not_yet" ELSE "failed"
  <2>1. /\ ReadUpTo(BseDays, stop) /\ local' = [local EXCEPT !["bse"] = BseMerged(read)]
        /\ run' = [run EXCEPT !.pc = "decide", !.others = @ \cup {status}]
    BY <1>6 DEF BuildBse
  <2>2. {status} \in SUBSET (Ok \cup {"failed"})
    BY DEF Ok
  <2>3. faults' \in 0..MaxFaults
    BY <1>1, <2>1, FaultsAreBounded DEF ReadUpTo, TypeOK
  <2>4. BseMerged(read) = local["bse"] \/ BseMerged(read) = Built("bse", local["bse"], BseSessions(read))
    BY DEF BseMerged, BseSessions
  <2> HIDE DEF status, read
  <2>5. \/ local' = local
        \/ local' = [local EXCEPT !["bse"] = Built("bse", local["bse"], BseSessions(read))]
    <3>1. [local EXCEPT !["bse"] = local["bse"]] = local
      BY <1>1 DEF TypeOK, Lists
    <3> QED BY <2>1, <2>4, <3>1
  <2> QED BY <1>2, <1>3, <1>4, <2>1, <2>2, <2>3, <2>5 DEF read
<1> QED BY <1>5, <1>6

LEMMA BseKeeps ==
  ASSUME DailyAssumptions, DailyInvariant, NEW stop, BuildBse(stop)
  PROVE  DailyInvariant'
<1>1. TypeOK /\ ListInvariant /\ SightingInvariant /\ CacheInvariant /\ Accounts
  BY DEF DailyInvariant
<1> DEFINE sessions == BseSessions({d \in BseDays : d < stop})
<1>2. /\ run \in Runs /\ run.pc = "bse" /\ run # Idle
      /\ run' \in Runs /\ run'.pc = "decide" /\ run'.host = run.host /\ run'.target = run.target
      /\ run'.days = run.days /\ run'.failed = run.failed /\ run'.status = run.status
      /\ run.others \subseteq run'.others
      /\ faults' \in 0..MaxFaults
      /\ UNCHANGED <<today, posted, live, store, disk, cache, reported>>
      /\ local' = local \/ local' = [local EXCEPT !["bse"] = Built("bse", local["bse"], sessions)]
  BY BseBuilt
<1>3. run' # Idle
  BY <1>2 DEF Idle
<1>4. sessions \in [Day -> SUBSET Version] /\ Real(sessions, "bse")
  BY BseSessionsAreReal
<1> HIDE DEF sessions
<1>5. /\ local' \in Lists /\ Rebuilds(local') /\ \A v \in Venue : Real(local'[v].seen, v)
      /\ Grown(local', live) /\ local'["nse"] = local["nse"]
  <2>1. /\ local \in Lists /\ Rebuilds(local) /\ Grown(local, live) /\ live \in Lists
        /\ "bse" \in Venue /\ "nse" \in Venue /\ \A v \in Venue : Real(local[v].seen, v)
    BY <1>1, <1>2 DEF TypeOK, ListInvariant, SightingInvariant, Venue
  <2>2. CASE local' = local
    BY <2>1, <2>2
  <2>3. CASE local' = [local EXCEPT !["bse"] = Built("bse", local["bse"], sessions)]
    <3> DEFINE b == Built("bse", local["bse"], sessions)  after == [local EXCEPT !["bse"] = b]
    <3>0. /\ after["bse"] = b /\ \A v \in Venue : v # "bse" => after[v] = local[v]
          /\ b \in [list: [Version -> Row], seen: [Day -> SUBSET Version]] => after \in Lists
      BY <2>1 DEF Lists
    <3>1. /\ after \in Lists /\ Rebuilds(after) /\ \A v \in Venue : Real(after[v].seen, v)
          /\ Grown(after, local) /\ \A v \in Venue : v # "bse" => after[v] = local[v]
      <4> HIDE DEF after
      <4> QED BY <1>4, <2>1, <3>0, ReplacedList
    <3> HIDE DEF after
    <3>2. local' = after
      BY <2>3 DEF after
    <3>3. Grown(after, live)
      BY <2>1, <3>1 DEF Grown
    <3> QED BY <2>1, <3>1, <3>2, <3>3
  <2> QED BY <1>2, <2>2, <2>3
<1>6. TypeOK'
  BY <1>1, <1>2, <1>3, <1>5 DEF TypeOK
<1>7. ListInvariant'
  BY <1>1, <1>2, <1>5 DEF ListInvariant
<1>8. SightingInvariant'
  BY <1>1, <1>2, <1>5 DEF SightingInvariant
<1>9. CacheInvariant'
  <2>1. \A y : Slice(y)' = Slice(y)
    BY <1>2 DEF Slice
  <2> QED BY <1>1, <1>2, <1>3, <2>1 DEF CacheInvariant, CacheIsCurrent
<1>10. Accounts'
  BY <1>1, <1>2, <1>5 DEF Accounts, Covered
<1> QED BY <1>6, <1>7, <1>8, <1>9, <1>10 DEF DailyInvariant

LEMMA BackfillKeeps ==
  ASSUME DailyAssumptions, DailyInvariant, NEW n, NEW stop, BackfillBse(n, stop)
  PROVE  DailyInvariant'
<1>1. TypeOK /\ ListInvariant /\ SightingInvariant /\ CacheInvariant
  BY DEF DailyInvariant
<1> DEFINE days == TradingDaysBack(OpenDays["bse"], today, n)
           sessions == BseSessions({d \in days : d < stop /\ ~NotPosted(d)})
           b == Built("bse", live["bse"], sessions)
           r == [Idle EXCEPT !.pc = "decide", !.host = "bse backfill", !.target = today, !.status = "success"]
<1>2. /\ run = Idle /\ run' = r /\ Fault /\ store' = disk /\ reported' = {}
      /\ local' = [live EXCEPT !["bse"] = b]
      /\ UNCHANGED <<today, posted, live, disk, cache>>
  BY DEF BackfillBse, BseSessions
<1>3. /\ r \in Runs /\ r.pc = "decide" /\ r.host = "bse backfill" /\ r.status = "success"
  <2>1. today \in Day /\ "success" \in Ok
    BY <1>1 DEF TypeOK, Ok
  <2> QED BY <2>1 DEF Runs, Idle
<1>4. sessions \in [Day -> SUBSET Version] /\ Real(sessions, "bse")
  BY BseSessionsAreReal
<1> HIDE DEF r, sessions
<1>5. r # Idle
  <2>1. Idle.pc = "idle"
    BY DEF Idle
  <2> QED BY <1>3, <2>1
<1>6. /\ local' \in Lists /\ Rebuilds(local') /\ \A v \in Venue : Real(local'[v].seen, v)
      /\ Grown(local', live)
  <2>1. live \in Lists /\ Rebuilds(live) /\ "bse" \in Venue /\ \A v \in Venue : Real(live[v].seen, v)
    BY <1>1 DEF TypeOK, ListInvariant, SightingInvariant, Venue
  <2>2. /\ local'["bse"] = b /\ \A v \in Venue : v # "bse" => local'[v] = live[v]
        /\ b \in [list: [Version -> Row], seen: [Day -> SUBSET Version]] => local' \in Lists
    BY <1>2, <2>1 DEF Lists
  <2> QED BY <1>4, <2>1, <2>2, ReplacedList
<1> HIDE DEF b
<1>7. TypeOK'
  <2>1. faults' \in 0..MaxFaults
    BY <1>1, <1>2, FaultsAreBounded
  <2> QED BY <1>1, <1>2, <1>3, <1>5, <1>6, <2>1 DEF TypeOK
<1>8. ListInvariant'
  BY <1>1, <1>2, <1>6 DEF ListInvariant
<1>9. SightingInvariant'
  BY <1>1, <1>2, <1>6 DEF SightingInvariant
<1>10. CacheInvariant'
  <2>1. cache' = NothingCached
    BY <1>1, <1>2 DEF CacheInvariant
  <2>2. \A y \in DOMAIN cache' : cache'[y] = NotCached
    BY <2>1 DEF NothingCached
  <2> QED BY <2>1, <2>2 DEF CacheInvariant, CacheIsCurrent
<1>11. Accounts'
  BY <1>2, <1>3 DEF Accounts
<1> QED BY <1>7, <1>8, <1>9, <1>10, <1>11 DEF DailyInvariant

LEMMA DecideKeeps == DailyAssumptions /\ DailyInvariant /\ Decide => DailyInvariant'
<1> SUFFICES ASSUME DailyAssumptions, DailyInvariant, Decide PROVE DailyInvariant'
  OBVIOUS
<1>1. TypeOK /\ ListInvariant /\ SightingInvariant /\ CacheInvariant /\ Accounts
  BY DEF DailyInvariant
<1>2. run.pc = "decide" /\ run # Idle /\ UNCHANGED <<today, posted, faults>>
  BY DEF Decide, Idle
<1>3. run \in Runs /\ run.target \in Day /\ run.failed \subseteq Day
  BY <1>1, <1>2, RunIsARun
<1>4. CASE run.status \in Publishable /\ ~GuardsPass
  <2>1. Ended /\ live' = live /\ reported' \subseteq Day
    BY <1>3, <1>4 DEF Decide
  <2>2. faults' \in 0..MaxFaults
    BY <1>1, <1>2 DEF TypeOK
  <2> QED BY <1>2, <2>1, <2>2, EndedKeeps
<1>5. CASE ~(run.status \in Publishable /\ ~GuardsPass)
  <2> DEFINE r == [run EXCEPT !.pc = "surface"]
  <2>1. /\ run' = r /\ UNCHANGED <<local, store, disk, cache, reported>>
        /\ live' = IF run.status \in Publishable THEN local ELSE live
    BY <1>5 DEF Decide
  <2>2. /\ r \in Runs /\ r.pc = "surface" /\ r.host = run.host /\ r.target = run.target
        /\ r.days = run.days /\ r.failed = run.failed /\ r.status = run.status /\ r.others = run.others
    BY <1>3 DEF Runs
  <2> HIDE DEF r
  <2>3. r # Idle
    BY <2>2 DEF Idle
  <2>4. TypeOK'
    BY <1>1, <1>2, <2>1, <2>2, <2>3 DEF TypeOK
  <2>5. ListInvariant'
    BY <1>1, <1>2, <2>1 DEF ListInvariant, Grown
  <2>6. SightingInvariant'
    BY <1>1, <2>1 DEF SightingInvariant
  <2>7. CacheInvariant'
    <3>1. \A y : Slice(y)' = Slice(y)
      BY <2>1 DEF Slice
    <3> QED BY <1>1, <2>1, <2>3, <3>1 DEF CacheInvariant, CacheIsCurrent
  <2>8. Accounts'
    <3> SUFFICES ASSUME run.host \in {"runner", "laptop"}
                 PROVE  /\ run'.days = {}
                        /\ run.status = "success" /\ "failed" \notin run.others =>
                             \A d \in Window(run.target) \cap OpenDays["nse"] :
                               d \in run.failed \/ live'["nse"].seen[d] # {}
      BY <2>1, <2>2 DEF Accounts
    <3>1. run.days = {}
      BY <1>1, <1>2 DEF Accounts
    <3>2. ASSUME run.status = "success", "failed" \notin run.others,
                 NEW d \in Window(run.target) \cap OpenDays["nse"]
          PROVE  d \in run.failed \/ live'["nse"].seen[d] # {}
      <4>1. Covered(d) /\ d \in Day
        BY <1>1, <1>2, <3>1, <3>2 DEF Accounts, DailyAssumptions, Venue
      <4>2. d \in run.failed \/ store[d] # {}
        BY <3>2, <4>1 DEF Covered
      <4>3. store[d] \subseteq local["nse"].seen[d]
        BY <1>1, <1>2, <3>2, <4>1 DEF Accounts
      <4>4. live' = local
        BY <2>1, <3>2 DEF Publishable
      <4> QED BY <4>2, <4>3, <4>4
    <3> QED BY <2>2, <2>1, <3>1, <3>2
  <2> QED BY <2>4, <2>5, <2>6, <2>7, <2>8 DEF DailyInvariant
<1> QED BY <1>4, <1>5

\* The exchange and the clock.
LEMMA WorldKeeps ==
  ASSUME DailyAssumptions, DailyInvariant,
         NextDay \/ \E v \in Venue, d \in Day : Post(v, d)
  PROVE  DailyInvariant'
<1>1. TypeOK /\ ListInvariant /\ SightingInvariant /\ CacheInvariant /\ Accounts
  BY DEF DailyInvariant
<1>2. /\ UNCHANGED <<live, run, local, store, disk, cache, reported, faults>>
      /\ today' \in Day /\ posted' \subseteq Venue \X Day
  BY <1>1 DEF NextDay, Post, TypeOK
<1>3. CacheInvariant'
  <2>1. \A y : Slice(y)' = Slice(y)
    BY <1>2 DEF Slice
  <2> QED BY <1>1, <1>2, <2>1 DEF CacheInvariant, CacheIsCurrent
<1> QED BY <1>1, <1>2, <1>3 DEF DailyInvariant, TypeOK, ListInvariant, SightingInvariant, Accounts, Covered

LEMMA StutterKeeps == DailyInvariant /\ UNCHANGED vars => DailyInvariant'
<1> SUFFICES ASSUME DailyInvariant, UNCHANGED vars PROVE DailyInvariant'
  OBVIOUS
<1>1. UNCHANGED <<today, posted, live, run, local, store, disk, cache, reported, faults>>
  BY DEF vars
<1>2. \A y : Slice(y)' = Slice(y)
  BY <1>1 DEF Slice
<1> QED BY <1>1, <1>2 DEF DailyInvariant, TypeOK, ListInvariant, SightingInvariant, CacheInvariant,
                          CacheIsCurrent, Accounts, Covered

LEMMA DailyInit == DailyAssumptions /\ Init => DailyInvariant
<1> SUFFICES ASSUME DailyAssumptions, Init PROVE DailyInvariant
  OBVIOUS
<1>1. /\ today = 1 /\ posted = Archive /\ faults = 0 /\ reported = {} /\ live \in Seeded /\ local = Empty
      /\ run = Idle /\ store = NoSessions /\ disk = NoSessions /\ cache = NothingCached
  BY DEF Init
<1>2. live \in Lists /\ \A v \in Venue : live[v] = Book(live[v].seen) /\ Real(live[v].seen, v)
  BY <1>1 DEF DailyAssumptions
<1>3. Rebuilds(live)
  <2>1. live["nse"] = Book(live["nse"].seen) /\ live["bse"] = Book(live["bse"].seen)
    BY <1>2 DEF Venue
  <2>2. Rebuilt(live["nse"])
    BY <2>1, VersionsInIsRebuilt
  <2>3. live["bse"].list = VersionsIn(live["bse"].seen)
    <3>1. Book(live["bse"].seen).list = VersionsIn(live["bse"].seen)
      BY DEF Book
    <3> QED BY <2>1, <3>1
  <2> QED BY <2>2, <2>3 DEF Rebuilds
<1>4. TypeOK
  <2>1. DOMAIN cache = {Year[d] : d \in Day}
    BY <1>1 DEF NothingCached
  <2> QED BY <1>1, <1>2, <2>1, EmptyIsRebuilt DEF TypeOK, DailyAssumptions
<1>5. ListInvariant
  BY <1>1, <1>3, EmptyIsRebuilt DEF ListInvariant
<1>6. SightingInvariant
  BY <1>1, <1>2, EmptyIsRebuilt DEF SightingInvariant, Venue
<1>7. CacheInvariant
  <2>1. \A y \in DOMAIN cache : cache[y] = NotCached
    BY <1>1 DEF NothingCached
  <2> QED BY <1>1, <2>1 DEF CacheInvariant, CacheIsCurrent
<1>8. Accounts
  BY <1>1 DEF Accounts
<1> QED BY <1>4, <1>5, <1>6, <1>7, <1>8 DEF DailyInvariant

LEMMA DailyStep == DailyAssumptions /\ DailyInvariant /\ [Next]_vars => DailyInvariant'
BY FetchKeeps, FetchedKeeps, ReferenceKeeps, BseKeeps, DecideKeeps, SurfaceKeeps, DieKeeps,
   StartKeeps, BootstrapKeeps, BackfillKeeps, WorldKeeps, StutterKeeps DEF Next, StepOfRun

\* The invariant of every behaviour.
THEOREM DailyInvariantHolds == Spec => []DailyInvariant
<1>1. Init => DailyInvariant
  BY DailyInit, ConstantsAreRight
<1>2. DailyInvariant /\ [Next]_vars => DailyInvariant'
  BY DailyStep, ConstantsAreRight
<1> QED BY <1>1, <1>2, PTL DEF Spec

-----------------------------------------------------------------------------
(* Theorems.                                                               *)

\* Every variable keeps its type, and a run that has its target behind it has
\* the status of it: the assertion after the loop of `daily` never fails.
THEOREM TypesHold == Spec => []TypeOK
<1>1. DailyInvariant => TypeOK
  BY DEF DailyInvariant
<1> QED BY <1>1, DailyInvariantHolds, PTL

\* The incremental NSE and BSE lists are those of a rebuild from every session
\* ever merged, whatever windows, bootstraps and backfills they came from.
THEOREM ListsStayRebuilds == Spec => []ListsAreRebuilds
<1>1. ASSUME DailyInvariant PROVE ListsAreRebuilds
  <2>1. /\ live \in Lists /\ Rebuilt(live["nse"])
        /\ live["bse"].list = VersionsIn(live["bse"].seen)
    BY <1>1 DEF DailyInvariant, TypeOK, ListInvariant, Rebuilds
  <2> DEFINE seen == live["nse"].seen  list == live["nse"].list
  <2>2. ASSUME NEW v \in Version
        PROVE  list[v].first = VersionsIn(seen)[v].first /\ list[v].last = VersionsIn(seen)[v].last
    <3> DEFINE first == Min(Sighted(seen, v))  last == Max(Sighted(seen, v))
    <3>1. VersionsIn(seen)[v] = IF Sighted(seen, v) = {} THEN Unlisted
                                ELSE [first |-> first, last |-> last, as_of |-> last]
      BY VersionsInIsRebuilt, ConstantsAreRight
    <3>2. /\ Sighted(seen, v) = {} => list[v] = Unlisted
          /\ Sighted(seen, v) # {} => list[v].first = first /\ list[v].last = last
      BY <2>1 DEF Rebuilt
    <3> HIDE DEF first, last, seen, list
    <3> QED BY <3>1, <3>2
  <2>3. Span(list) = Span(VersionsIn(seen))
    BY <2>2 DEF Span
  <2> QED BY <2>1, <2>3 DEF ListsAreRebuilds
<1> QED BY <1>1, DailyInvariantHolds, PTL

\* No list and no store ever has a version on a day it did not trade: the
\* wrong-date guard is enough, whatever a source serves under a day's name.
THEOREM SightingsStayReal == Spec => []SightingsAreReal
<1>1. DailyInvariant => SightingsAreReal
  BY DEF DailyInvariant, SightingInvariant, SightingsAreReal
<1> QED BY <1>1, DailyInvariantHolds, PTL

\* Whatever the years of the window, a run never reads a year as it was before
\* its own append.
THEOREM CacheStaysCurrent == Spec => []CacheIsCurrent
<1>1. DailyInvariant => CacheIsCurrent
  BY DEF DailyInvariant, CacheInvariant
<1> QED BY <1>1, DailyInvariantHolds, PTL

\* Once there is a list, no run is refused by the content guards of publish.
THEOREM GuardsNeverDoRefuse == Spec => []GuardsNeverRefuse
<1>1. ASSUME DailyInvariant PROVE GuardsNeverRefuse
  <2> SUFFICES ASSUME run.pc = "decide", Listed(live["nse"].list) # {} PROVE GuardsPass
    BY DEF GuardsNeverRefuse
  <2>1. /\ live \in Lists /\ local \in Lists /\ Rebuilds(live) /\ Rebuilds(local) /\ Grown(local, live)
    BY <1>1 DEF DailyInvariant, TypeOK, ListInvariant, Idle
  <2>2. ASSUME NEW v \in Venue
        PROVE  /\ Listed(live[v].list) \subseteq Listed(local[v].list)
               /\ Cardinality(Listed(local[v].list)) >= Cardinality(Listed(live[v].list))
               /\ Newest(local[v].list) >= Newest(live[v].list)
    <3>1. /\ live[v] \in [list: [Version -> Row], seen: [Day -> SUBSET Version]]
          /\ local[v] \in [list: [Version -> Row], seen: [Day -> SUBSET Version]]
      BY <2>1 DEF Lists
    <3>2. Rebuilt(live[v]) /\ Rebuilt(local[v])
      BY <2>1, <3>1, BseIsRebuilt, ConstantsAreRight DEF Rebuilds, Venue
    <3>3. \A d \in Day : live[v].seen[d] \subseteq local[v].seen[d]
      BY <2>1 DEF Grown
    <3> QED BY <3>1, <3>2, <3>3, GrownIsMore, ConstantsAreRight
  <2> QED BY <2>2 DEF GuardsPass, Coverage, Venue
<1> QED BY <1>1, DailyInvariantHolds, PTL

\* A daily run moves the newest session of the BSE list only over sessions that
\* it merged: the first that cannot be read stops it.
THEOREM BseSkipsNoSession == Spec => BseNeverSkipsASession
<1> DEFINE Moved == run.pc = "bse" /\ local'["bse"] # local["bse"] /\ Listed(local["bse"].list) # {}
           Merged(d) == Newest(local["bse"].list) < d /\ d <= Newest(local'["bse"].list)
                          => local'["bse"].seen[d] # {}
<1>1. ASSUME DailyInvariant, DailyInvariant', [Next]_vars, Moved, NEW d \in OpenDays["bse"]
      PROVE  Merged(d)
  <2>1. DailyAssumptions
    BY ConstantsAreRight
  <2>2. run # Idle /\ local' # local
    BY <1>1 DEF Idle
  <2>3. d \in Day /\ d \in Nat /\ Day \subseteq Nat /\ 0 \notin Day
    BY <2>1 DEF DailyAssumptions, Venue
  <2>4. ASSUME local' = Empty PROVE Merged(d)
    <3>1. Empty["bse"].list = VersionsIn(NoSessions)
      BY DEF Empty, Book, Venue
    <3>2. \A v \in Version : Sighted(NoSessions, v) = {}
      BY DEF Sighted, NoSessions
    <3>3. Listed(Empty["bse"].list) = {}
      BY <2>1, <3>1, <3>2, VersionsInIsRebuilt DEF Listed
    <3>4. Newest(local'["bse"].list) = 0
      BY <2>4, <3>3 DEF Newest
    <3> QED BY <2>3, <3>4
  <2>5. CASE \E stop \in Day \cup {Never} : BuildBse(stop)
    <3>1. PICK stop : BuildBse(stop)
      BY <2>5
    <3> DEFINE read == {e \in BseDays : e < stop}  sessions == BseSessions(read)
               old == local["bse"]  new == local'["bse"]
    <3>2. /\ run \in Runs /\ local' = [local EXCEPT !["bse"] = Built("bse", old, sessions)]
      BY <1>1, <2>1, <2>2, <3>1, BseBuilt
    <3>3. /\ old \in [list: [Version -> Row], seen: [Day -> SUBSET Version]] /\ Rebuilt(old)
          /\ new \in [list: [Version -> Row], seen: [Day -> SUBSET Version]] /\ Rebuilt(new)
          /\ Real(old.seen, "bse") /\ old.seen \in [Day -> SUBSET Version]
      <4>1. "bse" \in Venue
        BY DEF Venue
      <4>2. /\ local \in Lists /\ local["bse"].list = VersionsIn(local["bse"].seen)
            /\ local' \in Lists /\ local'["bse"].list = VersionsIn(local'["bse"].seen)
            /\ Real(local["bse"].seen, "bse")
        BY <1>1, <4>1 DEF DailyInvariant, TypeOK, ListInvariant, Rebuilds, SightingInvariant
      <4>3. /\ old \in [list: [Version -> Row], seen: [Day -> SUBSET Version]]
            /\ new \in [list: [Version -> Row], seen: [Day -> SUBSET Version]]
        BY <4>1, <4>2 DEF Lists
      <4> QED BY <2>1, <4>2, <4>3, BseIsRebuilt
    <3>4. \A e \in Day : new.seen[e] = old.seen[e] \cup sessions[e]
      <4>1. sessions \in [Day -> SUBSET Version]
        BY <2>1, BseSessionsAreReal
      <4>2. local \in Lists /\ "bse" \in Venue
        BY <1>1 DEF DailyInvariant, TypeOK, Venue
      <4>3. new = Built("bse", old, sessions)
        BY <3>2, <4>2 DEF Lists
      <4> HIDE DEF new, old, sessions
      <4>4. new.seen = Union(old.seen, sessions)
        BY <4>3 DEF Built
      <4> QED BY <3>3, <4>1, <4>4, UnionIsBoth
    <3>5. BseDays = {e \in OpenDays["bse"] : Newest(old.list) < e /\ e <= run.target}
      BY <1>1 DEF BseDays
    <3>6. SUFFICES ASSUME Newest(old.list) < d, d <= Newest(new.list)
                   PROVE  new.seen[d] # {}
      OBVIOUS
    <3>7. stop \in BseDays \cup {Never}
      <4>1. ReadUpTo(BseDays, stop) \/ local' = local
        BY <3>1 DEF BuildBse
      <4> QED BY <2>2, <4>1 DEF ReadUpTo
    <3> DEFINE top == Newest(new.list)
    <3>8. top \in Day /\ new.seen[top] # {}
      <4>1. top \in Day \cup {0} /\ (top # 0 => new.seen[top] # {})
        BY <2>1, <2>3, <3>3, NewestIsSeen
      <4>2. top # 0
        BY <2>3, <3>6
      <4> QED BY <4>1, <4>2
    <3>9. old.seen[top] = {}
      <4>1. old.seen[top] # {} => top <= Newest(old.list)
        BY <2>1, <3>3, <3>8, NewestIsSeen
      <4>2. Newest(old.list) \in Nat
        BY <2>1, <3>3, NewestIsSeen
      <4>3. top \in Nat
        BY <2>3, <3>8
      <4> QED BY <2>3, <3>6, <4>1, <4>2, <4>3
    <3>10. sessions[top] # {}
      BY <3>4, <3>8, <3>9
    <3>11. top \in read
      BY <3>8, <3>10 DEF BseSessions
    <3>12. d \in read
      <4>1. top < stop /\ top <= run.target /\ top \in Nat
        BY <2>3, <3>5, <3>8, <3>11
      <4>2. run.target \in Nat
        BY <2>3, <3>2 DEF Runs
      <4>3. stop \in Int
        <5>1. Day \in SUBSET Day /\ Day # {}
          BY <2>3
        <5>2. Max(Day) \in Day
          BY <2>1, <5>1, DaysAreFinite
        <5>3. BseDays \subseteq Day
          BY <2>1, <3>5 DEF DailyAssumptions, Venue
        <5> QED BY <2>3, <3>7, <5>2, <5>3 DEF Never
      <4>4. d <= run.target /\ d < stop
        BY <2>3, <3>6, <4>1, <4>2, <4>3
      <4> QED BY <3>5, <3>6, <4>4
    <3>13. sessions[d] # {}
      <4>1. Traded["bse"][d] # {}
        BY <2>1 DEF DailyAssumptions
      <4> QED BY <2>3, <3>12, <4>1 DEF BseSessions
    <3> QED BY <2>3, <3>4, <3>13
  <2>6. \/ local' = Empty
        \/ \E stop \in Day \cup {Never} : BuildBse(stop)
    BY <1>1, <2>2 DEF Next, StepOfRun, vars, FetchDay, SkipHoliday, SkipStored, FetchAbsent, FetchFails,
       Ingest, IngestWithoutDelta, RunUnchanged, Turn, FetchedAll, BuildReference, Decide, Surface, Die, Ended,
       NextDay, BootstrapAndStart, StartDaily, StartBackfill, StartRebuild, Begin, BackfillBse, Post
  <2> QED BY <2>4, <2>5, <2>6
<1>2. DailyInvariant /\ DailyInvariant' /\ [Next]_vars =>
        [Moved => \A d \in OpenDays["bse"] : Merged(d)]_vars
  BY <1>1
<1> QED BY <1>2, DailyInvariantHolds, PTL DEF Spec, BseNeverSkipsASession

\* After a run of the ladder or of an operator whose target landed and whose
\* builders did not fail, each session of its window is on the published list
\* or was named.
THEOREM WindowsAreAccountedFor == Spec => WindowIsAccountedFor
<1> DEFINE Through == /\ run.pc = "surface" /\ run.host \in {"runner", "laptop"}
                      /\ run.status = "success" /\ "failed" \notin run.others /\ run' = Idle
           Named(d) == live["nse"].seen[d] # {} \/ d \in reported'
<1>1. ASSUME DailyInvariant, [Next]_vars, Through, NEW d \in Window(run.target) \cap OpenDays["nse"]
      PROVE  Named(d)
  <2>1. run # Idle
    BY <1>1 DEF Idle
  <2>2. d \in run.failed \/ live["nse"].seen[d] # {}
    BY <1>1, <2>1 DEF DailyInvariant, Accounts
  <2>3. run' # run
    BY <1>1, <2>1
  <2>4. Die \/ \E lastRung \in BOOLEAN : Surface(lastRung)
    BY <1>1, <2>1, <2>3 DEF Next, StepOfRun, vars, FetchDay, SkipHoliday, SkipStored, FetchAbsent, FetchFails,
       Ingest, IngestWithoutDelta, Turn, FetchedAll, BuildReference, Decide, BuildBse,
       NextDay, BootstrapAndStart, StartDaily, StartBackfill, StartRebuild, Begin, BackfillBse, Post
  <2>5. run.failed \subseteq reported'
    BY <1>1, <2>4 DEF Die, Surface
  <2> QED BY <2>2, <2>5
<1>2. DailyInvariant /\ [Next]_vars =>
        [Through => \A d \in Window(run.target) \cap OpenDays["nse"] : Named(d)]_vars
  BY <1>1
<1> QED BY <1>2, DailyInvariantHolds, PTL DEF Spec, WindowIsAccountedFor

\* No publish of any run, of whatever day, host or backfill, takes a sighting
\* off a published list.
THEOREM PublishedSightingsStay ==
  Spec => [][\A v \in Venue, d \in Day : live[v].seen[d] \subseteq live'[v].seen[d]]_vars
<1> DEFINE Kept == \A v \in Venue, d \in Day : live[v].seen[d] \subseteq live'[v].seen[d]
<1>1. ASSUME DailyInvariant, [Next]_vars PROVE Kept
  <2>1. CASE Decide
    <3>1. run # Idle
      BY <2>1 DEF Decide, Idle
    <3>2. Grown(local, live)
      BY <1>1, <3>1 DEF DailyInvariant, ListInvariant
    <3>3. live' = local \/ live' = live
      BY <2>1 DEF Decide
    <3> QED BY <3>2, <3>3 DEF Grown
  <2>2. CASE ~Decide
    <3>1. live' = live
      BY <1>1, <2>2 DEF Next, StepOfRun, vars, FetchDay, SkipHoliday, SkipStored, FetchAbsent, FetchFails,
         Ingest, IngestWithoutDelta, RunUnchanged, FetchedAll, BuildReference, BuildBse, Surface, Die,
         NextDay, BootstrapAndStart, StartDaily, StartBackfill, StartRebuild, Begin, BackfillBse, Post
    <3> QED BY <3>1
  <2> QED BY <2>1, <2>2
<1>2. DailyInvariant /\ [Next]_vars => [Kept]_vars
  BY <1>1
<1> QED BY <1>2, DailyInvariantHolds, PTL DEF Spec
=============================================================================
