----------------------- MODULE CorporateActionsProofs -----------------------
(***************************************************************************)
(* Proofs about CorporateActions, for any bundles and answers, any         *)
(* instrument lists and calendars, and any number of faults.               *)
(***************************************************************************)
EXTENDS CorporateActions, FiniteSetTheorems, WellFoundedInduction, TLAPS

\* A row is a part of its purpose, and its ISIN is one that a version or the API has
\* under its symbol.
Named(sym, isin) == isin # None => \E n \in Names : n.sym = sym /\ n.isin = isin
IsSound(r) ==
  /\ r \in Rows /\ r.part \in DOMAIN Kinds[r.purpose] /\ r.kind = Kinds[r.purpose][r.part]
  /\ r.source = "book" => r.isin_nse = None
  /\ Named(r.sym, r.isin) /\ Named(r.sym, r.isin_nse)
AreSound(t) == \A r \in t : IsSound(r)
OneOfEachKey(t) == \A r, s \in t : RowKey(r) = RowKey(s) => r = s
NoRival(t) == \A r, s \in t : r.source # s.source => ~SameAction(r, s)
IsResolved(r, list) ==
  LET isin == IsinOf(r.sym, r.ex, r.isin_nse, list) IN isin # None => r.isin = isin
\* Rows that differ in their ISIN or sighting alone.
SameRow(r, s) ==
  /\ r.source = s.source /\ r.sym = s.sym /\ r.ex = s.ex /\ r.purpose = s.purpose
  /\ r.part = s.part /\ r.kind = s.kind

-----------------------------------------------------------------------------
(* Numbers, and a table built day after day.                               *)

LEMMA LeastNatural ==
  ASSUME NEW T \in SUBSET Nat, T # {} PROVE \E x \in T : \A y \in T : x <= y
<1> DEFINE R == {ss \in Nat \X Nat : ss[1] < ss[2]}
<1>1. IsWellFoundedOn(R, Nat)
  BY NatLessThanWellFounded DEF OpToRel
<1> HIDE DEF R
<1>2. PICK x \in T : \A y \in T : ~(<<y, x>> \in R)
  BY <1>1, WFMin
<1>3. ASSUME NEW y \in T PROVE x <= y
  <2>1. x \in Nat /\ y \in Nat /\ ~(<<y, x>> \in R)
    BY <1>2
  <2> QED BY <2>1 DEF R
<1> QED BY <1>3

LEMMA GreatestNatural ==
  ASSUME NEW n \in Nat, NEW T \in SUBSET (0..n), T # {}
  PROVE  Max(T) \in T /\ \A y \in T : Max(T) >= y
<1> DEFINE D == {n - x : x \in T}
<1>1. D \in SUBSET Nat /\ D # {}
  <2>1. \A x \in T : n - x \in Nat
    OBVIOUS
  <2>2. D \subseteq Nat
    BY <2>1
  <2>3. PICK x : x \in T
    OBVIOUS
  <2>4. n - x \in D
    BY <2>3
  <2> QED BY <2>2, <2>4
<1>2. PICK d \in D : \A e \in D : d <= e
  BY <1>1, LeastNatural
<1>3. \E x \in T : \A y \in T : x >= y
  BY <1>2
<1> QED BY <1>3 DEF Max

LEMMA MaxOfTwo ==
  ASSUME NEW a \in Nat, NEW b \in Nat
  PROVE  Max({a, b}) = (IF a >= b THEN a ELSE b) /\ Min({a, b}) = (IF a <= b THEN a ELSE b)
BY DEF Max, Min

LEMMA DayByDay ==
  ASSUME NEW n \in Nat, NEW S, 0 \in S, \A d \in 0..n : d \in S /\ d # n => d + 1 \in S
  PROVE  \A d \in 0..n : d \in S
<1> SUFFICES ASSUME {d \in 0..n : d \notin S} # {} PROVE FALSE
  OBVIOUS
<1>1. PICK x \in {d \in 0..n : d \notin S} : \A y \in {d \in 0..n : d \notin S} : x <= y
  <2>1. {d \in 0..n : d \notin S} \in SUBSET Nat
    OBVIOUS
  <2> QED BY <2>1, LeastNatural
<1>2. x # 0 /\ x - 1 \in 0..n /\ x - 1 # n
  BY <1>1
<1>3. x - 1 \in S
  BY <1>1, <1>2
<1> QED BY <1>1, <1>2, <1>3

\* The recursion over the days defines the table after each of them.
LEMMA TableAfterDays ==
  ASSUME LastDay \in Nat, NEW rows, NEW list, NEW days
  PROVE  /\ TableAfter(rows, list, days)[0] = rows
         /\ \A d \in 1..LastDay : TableAfter(rows, list, days)[d] =
              IF d \in days
              THEN Merge(TableAfter(rows, list, days)[d - 1],
                         ResolveIsins(Expand(Bundle(d), "book", d), list))
              ELSE TableAfter(rows, list, days)[d - 1]
<1> DEFINE G(t, d) == IF d \in days
                      THEN Merge(t, ResolveIsins(Expand(Bundle(d), "book", d), list)) ELSE t
           S == {n \in 0..LastDay :
                  \E f : f = [d \in 0..n |-> IF d = 0 THEN rows ELSE G(f[d - 1], d)]}
           table == TableAfter(rows, list, days)
<1>1. table = CHOOSE f : f = [d \in 0..LastDay |-> IF d = 0 THEN rows ELSE G(f[d - 1], d)]
  BY DEF TableAfter
<1> HIDE DEF G, table
<1>2. 0 \in S
  <2>1. [d \in 0..0 |-> rows] =
        [d \in 0..0 |-> IF d = 0 THEN rows ELSE G([e \in 0..0 |-> rows][d - 1], d)]
    OBVIOUS
  <2> DEFINE f == [d \in 0..0 |-> rows]
  <2>2. f = [d \in 0..0 |-> IF d = 0 THEN rows ELSE G(f[d - 1], d)]
    BY <2>1
  <2> HIDE DEF f
  <2> QED BY <2>2
<1>3. ASSUME NEW n \in 0..LastDay, n \in S, n # LastDay PROVE n + 1 \in S
  <2>1. PICK f : f = [d \in 0..n |-> IF d = 0 THEN rows ELSE G(f[d - 1], d)]
    BY <1>3
  <2> DEFINE g == [d \in 0..(n + 1) |-> IF d = n + 1 THEN G(f[n], n + 1) ELSE f[d]]
  <2>2. ASSUME NEW d \in 0..(n + 1) PROVE g[d] = IF d = 0 THEN rows ELSE G(g[d - 1], d)
    <3>1. CASE d = n + 1
      <4>1. g[d - 1] = f[n] /\ d - 1 = n /\ d # 0
        BY <3>1
      <4> QED BY <3>1, <4>1
    <3>2. CASE d # n + 1
      <4>1. d \in 0..n /\ g[d] = f[d]
        BY <3>2
      <4>2. d # 0 => g[d - 1] = f[d - 1]
        BY <4>1
      <4>3. f[d] = IF d = 0 THEN rows ELSE G(f[d - 1], d)
        BY <2>1, <4>1
      <4> QED BY <4>1, <4>2, <4>3
    <3> QED BY <3>1, <3>2
  <2>3. g = [d \in 0..(n + 1) |-> g[d]]
    OBVIOUS
  <2> HIDE DEF g
  <2>4. g = [d \in 0..(n + 1) |-> IF d = 0 THEN rows ELSE G(g[d - 1], d)]
    BY <2>2, <2>3
  <2> QED BY <1>3, <2>4
<1>4. LastDay \in S
  <2> HIDE DEF S
  <2> QED BY <1>2, <1>3, DayByDay
<1>5. table = [d \in 0..LastDay |-> IF d = 0 THEN rows ELSE G(table[d - 1], d)]
  BY <1>1, <1>4
<1>6. table[0] = rows /\ \A d \in 1..LastDay : table[d] = G(table[d - 1], d)
  BY <1>5
<1> QED BY <1>6 DEF G, table

-----------------------------------------------------------------------------
(* The operators of the table.                                             *)

\* The shares of an instrument list are the versions'.
LEMMA ListedShares ==
  ASSUME CorporateActionsAssumptions, NEW latest, NEW from, NEW u \in InstrumentList(latest, from)
  PROVE  \E n \in Names : n.sym = u.sym /\ n.isin = u.isin
<1>1. PICK v \in Versions :
        u = [v EXCEPT !.first = Max({v.first, from}), !.last = Min({v.last, latest})]
  BY DEF InstrumentList
<1>2. v = [sym |-> v.sym, isin |-> v.isin, first |-> v.first, last |-> v.last]
  BY DEF CorporateActionsAssumptions
<1>3. u.sym = v.sym /\ u.isin = v.isin
  BY <1>1, <1>2
<1> DEFINE n == [sym |-> v.sym, isin |-> v.isin]
<1>4. n \in Names
  BY DEF Names
<1>5. n.sym = u.sym /\ n.isin = u.isin
  BY <1>3
<1> QED BY <1>4, <1>5

\* Names have the ISINs of the rows.
LEMMA NamedIsins ==
  ASSUME NEW sym, NEW isin, isin # None, Named(sym, isin)
  PROVE  isin \in Isins
BY DEF Named, Names, Isins

LEMMA OnlyOneIsIn ==
  ASSUME NEW S, TheOnly(S) # None PROVE TheOnly(S) \in S
<1>1. Cardinality(S) = 1 /\ TheOnly(S) = CHOOSE x \in S : TRUE
  BY DEF TheOnly
<1>2. S # {}
  BY <1>1, FS_EmptySet
<1> QED BY <1>1, <1>2

\* The ISIN of a row is one listed under its symbol, or the one NSE printed.
LEMMA IsinIsListed ==
  ASSUME NEW sym, NEW ex, NEW printed, NEW list, NEW isin, isin = IsinOf(sym, ex, printed, list)
  PROVE  isin = None \/ isin = printed \/ \E u \in list : u.sym = sym /\ u.isin = isin
<1> DEFINE day == Min({ex, Max({v.last : v \in list})})
           found == {v.isin : v \in {u \in list : u.sym = sym /\ Over(u, day)}}
           later == {v \in list : v.sym = sym /\ day < v.first /\ v.first <= day + RelistedWithin}
           next == {v.isin : v \in {u \in later : \A w \in later : u.first <= w.first}}
<1>1. isin \in {TheOnly(found), printed, TheOnly(next), None}
  BY DEF IsinOf
<1>2. \A x \in found \cup next : \E u \in list : u.sym = sym /\ u.isin = x
  OBVIOUS
<1> HIDE DEF found, next
<1> QED BY <1>1, <1>2, OnlyOneIsIn

LEMMA ResolvedRow ==
  ASSUME CorporateActionsAssumptions, NEW latest, NEW from, NEW list,
         list = InstrumentList(latest, from), NEW r, IsSound(r), NEW s, s = Resolved(r, list)
  PROVE  IsSound(s) /\ SameRow(r, s) /\ RowKey(s) = RowKey(r) /\ IsResolved(s, list)
<1> DEFINE isin == IsinOf(r.sym, r.ex, r.isin_nse, list)
<1>0. s = IF isin = None THEN r ELSE [r EXCEPT !.isin = isin]
  BY DEF Resolved
<1>1. CASE isin = None
  <2>1. s = r
    BY <1>0, <1>1
  <2> QED BY <1>1, <2>1 DEF SameRow, IsResolved
<1>2. CASE isin # None
  <2>1. r \in Rows
    BY DEF IsSound
  <2>2. isin = r.isin_nse \/ \E n \in Names : n.sym = r.sym /\ n.isin = isin
    BY <1>2, IsinIsListed, ListedShares
  <2> HIDE DEF isin
  <2>3. Named(r.sym, isin) /\ isin \in Isins
    <3>1. Named(r.sym, isin)
      BY <2>2 DEF IsSound, Named
    <3> QED BY <1>2, <3>1, NamedIsins
  <2>4. s = [r EXCEPT !.isin = isin]
    BY <1>0, <1>2
  <2>5. s \in Rows
    BY <2>1, <2>3, <2>4 DEF Rows
  <2>6. /\ s.isin = isin /\ s.source = r.source /\ s.sym = r.sym /\ s.ex = r.ex
        /\ s.purpose = r.purpose /\ s.part = r.part /\ s.kind = r.kind
        /\ s.isin_nse = r.isin_nse
    BY <2>1, <2>4 DEF Rows
  <2>8. IsSound(s)
    BY <2>3, <2>5, <2>6 DEF IsSound
  <2>9. IsResolved(s, list)
    BY <2>6 DEF IsResolved, isin
  <2> QED BY <2>6, <2>8, <2>9 DEF SameRow, RowKey
<1> QED BY <1>1, <1>2

\* Resolving changes ISINs and nothing else.
LEMMA ResolvedRows ==
  ASSUME CorporateActionsAssumptions, NEW latest, NEW from, NEW t, AreSound(t), NEW list,
         list = InstrumentList(latest, from), NEW after, after = ResolveIsins(t, list)
  PROVE  /\ AreSound(after) /\ \A r \in after : IsResolved(r, list)
         /\ OneOfEachKey(t) => OneOfEachKey(after)
         /\ \A r \in t : \E s \in after : SameRow(r, s)
         /\ \A s \in after : \E r \in t : SameRow(r, s)
<1>1. after = {Resolved(r, list) : r \in t}
  BY DEF ResolveIsins
<1>2. ASSUME NEW r \in t
      PROVE  /\ IsSound(Resolved(r, list)) /\ SameRow(r, Resolved(r, list))
             /\ RowKey(Resolved(r, list)) = RowKey(r) /\ IsResolved(Resolved(r, list), list)
  BY ResolvedRow DEF AreSound
<1>3. AreSound(after) /\ \A r \in after : IsResolved(r, list)
  BY <1>1, <1>2 DEF AreSound
<1>4. OneOfEachKey(t) => OneOfEachKey(after)
  BY <1>1, <1>2 DEF OneOfEachKey
<1> QED BY <1>1, <1>2, <1>3, <1>4

AreOf(rows, source, seen, raw) ==
  \A r \in rows :
    /\ r.source = source /\ r.seen = seen
    /\ \E a \in raw : r.ex = a.ex /\ r.sym = a.sym /\ r.purpose = a.purpose
Covers(rows, raw) ==
  \A a \in raw : \A n \in DOMAIN Kinds[a.purpose] : \E r \in rows :
    r.ex = a.ex /\ r.sym = a.sym /\ r.kind = Kinds[a.purpose][n]

\* What a purpose expands to is sound, and of each action of it there is a row.
LEMMA ExpandedRows ==
  ASSUME CorporateActionsAssumptions, NEW source \in {"api", "book"}, NEW raw,
         raw \subseteq Closures \cup Api, source = "book" => raw \subseteq Closures, NEW seen \in Day,
         NEW rows, rows = Expand(raw, source, seen)
  PROVE  AreSound(rows) /\ AreOf(rows, source, seen, raw) /\ Covers(rows, raw)
<1> DEFINE Row(a, n) == [source |-> source, sym |-> a.sym, board |-> a.board, ex |-> a.ex,
                         purpose |-> a.purpose, part |-> n, kind |-> Kinds[a.purpose][n],
                         isin |-> None, isin_nse |-> a.isin, seen |-> seen]
<1>1. rows = UNION {{Row(a, n) : n \in DOMAIN Kinds[a.purpose]} : a \in raw}
  BY DEF Expand
<1>2. \A a \in raw : a \in Closures \cup Api
  OBVIOUS
<1>3. ASSUME NEW a \in raw, NEW n \in DOMAIN Kinds[a.purpose], NEW r, r = Row(a, n)
      PROVE  /\ IsSound(r) /\ r.source = source /\ r.seen = seen /\ r.ex = a.ex /\ r.sym = a.sym
             /\ r.kind = Kinds[a.purpose][n] /\ r.purpose = a.purpose
  <2>1. /\ r.source = source /\ r.sym = a.sym /\ r.board = a.board /\ r.ex = a.ex
        /\ r.purpose = a.purpose /\ r.part = n /\ r.kind = Kinds[a.purpose][n] /\ r.isin = None
        /\ r.isin_nse = a.isin /\ r.seen = seen
    BY <1>3
  <2>2. a.ex \in Day /\ a.purpose \in DOMAIN Kinds /\ n \in Nat
    BY <1>2 DEF CorporateActionsAssumptions
  <2>3. a.isin \in Isins /\ None \in Isins /\ (source = "book" => a.isin = None)
    BY DEF CorporateActionsAssumptions, Isins
  <2>4. a.sym \in {b.sym : b \in Closures \cup Api} /\ a.board \in {b.board : b \in Closures \cup Api}
    BY <1>2
  <2> DEFINE kinds == UNION {{k[m] : m \in DOMAIN k} : k \in {Kinds[p] : p \in DOMAIN Kinds}}
  <2>5. Kinds[a.purpose][n] \in kinds
    BY <2>2
  <2> HIDE DEF kinds
  <2>6. r \in Rows
    BY <1>3, <2>2, <2>3, <2>4, <2>5 DEF Rows, kinds
  <2>7. Named(a.sym, a.isin)
    <3> SUFFICES ASSUME a.isin # None PROVE \E m \in Names : m.sym = a.sym /\ m.isin = a.isin
      BY DEF Named
    <3> DEFINE m == [sym |-> a.sym, isin |-> a.isin]
    <3>1. a \in {q \in Api : q.isin # None}
      BY <1>2 DEF CorporateActionsAssumptions
    <3>2. m \in Names
      BY <3>1 DEF Names
    <3>3. m.sym = a.sym /\ m.isin = a.isin
      OBVIOUS
    <3> QED BY <3>2, <3>3
  <2> QED BY <2>1, <2>3, <2>6, <2>7 DEF IsSound, Named
<1> HIDE DEF Row
<1>4. ASSUME NEW r \in rows
      PROVE  /\ IsSound(r) /\ r.source = source /\ r.seen = seen
             /\ \E a \in raw : r.ex = a.ex /\ r.sym = a.sym /\ r.purpose = a.purpose
  <2>1. PICK a \in raw : \E n \in DOMAIN Kinds[a.purpose] : r = Row(a, n)
    BY <1>1
  <2> QED BY <1>3, <2>1
<1>5. ASSUME NEW a \in raw, NEW n \in DOMAIN Kinds[a.purpose]
      PROVE  \E r \in rows : r.ex = a.ex /\ r.sym = a.sym /\ r.kind = Kinds[a.purpose][n]
  <2>1. Row(a, n) \in rows
    BY <1>1
  <2> QED BY <1>3, <2>1
<1> QED BY <1>4, <1>5 DEF AreSound, AreOf, Covers

LEMMA DistinctRows ==
  ASSUME NEW t
  PROVE  /\ Distinct(t) \subseteq t /\ OneOfEachKey(Distinct(t))
         /\ \A r \in t : \E s \in Distinct(t) : RowKey(s) = RowKey(r)
<1> DEFINE First(r) == CHOOSE s \in t : RowKey(s) = RowKey(r)
<1>1. Distinct(t) = {First(r) : r \in t}
  BY DEF Distinct
<1>2. \A r \in t : First(r) \in t /\ RowKey(First(r)) = RowKey(r)
  OBVIOUS
<1>3. \A r, s \in t : RowKey(r) = RowKey(s) => First(r) = First(s)
  OBVIOUS
<1> HIDE DEF First
<1>4. OneOfEachKey(Distinct(t))
  BY <1>1, <1>2, <1>3 DEF OneOfEachKey
<1> QED BY <1>1, <1>2, <1>4

\* Sound rows of one key are of one action.
LEMMA KeysAreActions ==
  ASSUME NEW r, NEW s, IsSound(r), IsSound(s), RowKey(r) = RowKey(s)
  PROVE  /\ r.source = s.source /\ r.sym = s.sym /\ r.ex = s.ex /\ r.purpose = s.purpose
         /\ r.part = s.part /\ r.kind = s.kind /\ SameAction(r, s)
BY DEF RowKey, SameAction, IsSound

\* A merge leaves one row of each key, and no book-closure row beside the API's.
LEMMA MergedRows ==
  ASSUME NEW prior, NEW fresh, AreSound(prior), AreSound(fresh), OneOfEachKey(prior),
         \A r \in fresh : r.source = "api" => \A s \in prior : RowKey(r) # RowKey(s),
         NEW after, after = Merge(prior, fresh)
  PROVE  /\ after \subseteq prior \cup fresh /\ AreSound(after)
         /\ OneOfEachKey(after) /\ NoRival(after)
<1> DEFINE out == prior \cup Added(prior, fresh)
<1>1. after = FromApi(out) \cup {r \in FromBook(out) : ~IsListed(r, FromApi(out))}
  BY DEF Merge
<1>2. \A r \in Added(prior, fresh) : r \in fresh /\ (r.source = "book" => ~IsListed(r, prior))
  BY DistinctRows DEF Added
<1>3. OneOfEachKey(out)
  <2>1. ASSUME NEW r \in Added(prior, fresh), NEW s \in prior PROVE RowKey(r) # RowKey(s)
    <3> SUFFICES ASSUME RowKey(r) = RowKey(s) PROVE FALSE
      OBVIOUS
    <3>1. IsSound(r) /\ IsSound(s)
      BY <1>2 DEF AreSound
    <3>2. SameAction(r, s)
      BY <3>1, KeysAreActions
    <3>3. r.source = "api" \/ r.source = "book"
      BY <3>1 DEF IsSound, Rows
    <3> QED BY <1>2, <3>2, <3>3 DEF IsListed
  <2>2. OneOfEachKey(Added(prior, fresh))
    BY DistinctRows DEF OneOfEachKey, Added
  <2> QED BY <2>1, <2>2 DEF OneOfEachKey
<1>4. out \subseteq prior \cup fresh
  BY <1>2
<1> HIDE DEF out
<1>5. after \subseteq out
  BY <1>1 DEF FromApi, FromBook
<1>6. AreSound(after)
  BY <1>4, <1>5 DEF AreSound
<1>7. OneOfEachKey(after)
  BY <1>3, <1>5 DEF OneOfEachKey
<1>8. NoRival(after)
  <2>1. ASSUME NEW r \in after, NEW s \in after, r.source = "book", s.source # "book"
        PROVE  ~SameAction(r, s) /\ ~SameAction(s, r)
    <3>1. s.source = "api"
      BY <1>6, <2>1 DEF AreSound, IsSound, Rows
    <3>2. s \in FromApi(out) /\ ~IsListed(r, FromApi(out))
      BY <1>1, <1>5, <2>1, <3>1 DEF FromApi
    <3>3. ~SameAction(r, s)
      BY <3>2 DEF IsListed
    <3> QED BY <3>3 DEF SameAction
  <2>2. \A r \in after : r.source \in {"api", "book"}
    BY <1>6 DEF AreSound, IsSound, Rows
  <2> QED BY <2>1, <2>2 DEF NoRival
<1> QED BY <1>4, <1>5, <1>6, <1>7, <1>8

\* The symbols of one action are of one share, and being of one share is transitive.
LEMMA SharesJoin ==
  /\ \A sym, other, third :
       SameShare(sym, other) /\ SameShare(other, third) => SameShare(sym, third)
  /\ \A r, s : IsSound(r) /\ IsSound(s) /\ SameAction(r, s) => SameShare(r.sym, s.sym)
<1>1. ASSUME NEW r, NEW s, IsSound(r), IsSound(s), SameAction(r, s)
      PROVE  SameShare(r.sym, s.sym)
  <2>1. CASE r.sym = s.sym
    BY <2>1 DEF SameShare
  <2>2. CASE r.sym # s.sym
    <3>1. r.isin # None /\ r.isin = s.isin
      BY <1>1, <2>2 DEF SameAction
    <3>2. PICK n \in Names : n.sym = r.sym /\ n.isin = r.isin
      BY <1>1, <3>1 DEF IsSound, Named
    <3>3. PICK m \in Names : m.sym = s.sym /\ m.isin = r.isin
      BY <1>1, <3>1 DEF IsSound, Named
    <3>4. \A S \in Families : n.sym \in S => m.sym \in S
      BY <3>2, <3>3 DEF Families
    <3> QED BY <3>2, <3>3, <3>4 DEF SameShare
  <2> QED BY <2>1, <2>2
<1> QED BY <1>1 DEF SameShare

\* What a merge keeps: the API's rows, of each row of the table one of its ex-date,
\* and every action of the table and of the new rows.
LEMMA MergeKeeps ==
  ASSUME NEW prior, NEW fresh, AreSound(prior), AreSound(fresh),
         NEW after, after = Merge(prior, fresh)
  PROVE  /\ \A r \in prior \cup Distinct(fresh) : r.source = "api" => r \in after
         /\ \A r \in prior : \E s \in after : s.ex = r.ex
         /\ \A b, kind : IsKnown(prior, b, kind) \/ IsKnown(fresh, b, kind) =>
              IsKnown(after, b, kind)
<1> DEFINE out == prior \cup Added(prior, fresh)
           Stands(r) == \E s \in after :
                          s.ex = r.ex /\ s.kind = r.kind /\ SameShare(r.sym, s.sym)
<1>1. after = FromApi(out) \cup {r \in FromBook(out) : ~IsListed(r, FromApi(out))}
  BY DEF Merge
<1>2. Distinct(fresh) \subseteq fresh
  BY DistinctRows
<1>3. out \subseteq prior \cup fresh
  BY <1>2 DEF Added
<1>4. \A r \in out : r.source \in {"api", "book"} /\ IsSound(r)
  BY <1>3 DEF AreSound, IsSound, Rows
<1> USE DEF FromApi, FromBook
<1>5. ASSUME NEW r \in prior \cup Distinct(fresh), r.source = "api" PROVE r \in after
  BY <1>1, <1>5 DEF Added
<1>6. ASSUME NEW r \in prior PROVE \E s \in after : s.ex = r.ex
  BY <1>1, <1>4 DEF IsListed, SameAction
<1>7. ASSUME NEW r \in out PROVE Stands(r)
  <2>1. CASE r \in after
    BY <2>1 DEF SameShare
  <2>2. CASE r \notin after
    <3>1. PICK s \in FromApi(out) : SameAction(r, s)
      BY <1>1, <1>4, <2>2 DEF IsListed
    <3>2. s \in after /\ SameShare(r.sym, s.sym)
      BY <1>1, <1>4, <3>1, SharesJoin
    <3>3. s.ex = r.ex /\ s.kind = r.kind
      BY <3>1 DEF SameAction
    <3> QED BY <3>2, <3>3
  <2> QED BY <2>1, <2>2
<1>8. ASSUME NEW r \in fresh PROVE Stands(r)
  <2>1. PICK d \in Distinct(fresh) : RowKey(d) = RowKey(r)
    BY DistinctRows
  <2>2. IsSound(d) /\ IsSound(r)
    BY <1>2, <2>1 DEF AreSound
  <2>3. r.sym = d.sym /\ r.ex = d.ex /\ r.kind = d.kind
    BY <2>1, <2>2, KeysAreActions
  <2>4. CASE d \in Added(prior, fresh)
    <3>1. Stands(d)
      BY <1>7, <2>4
    <3> QED BY <2>3, <3>1
  <2>5. CASE d \notin Added(prior, fresh)
    <3>1. PICK p \in prior : SameAction(d, p)
      BY <2>1, <2>5 DEF Added, IsListed
    <3>2. Stands(p) /\ SameShare(d.sym, p.sym)
      <4>1. IsSound(p)
        BY <3>1 DEF AreSound
      <4> QED BY <1>7, <2>2, <3>1, <4>1, SharesJoin
    <3>3. p.ex = d.ex /\ p.kind = d.kind
      BY <3>1 DEF SameAction
    <3>4. PICK s \in after : s.ex = p.ex /\ s.kind = p.kind /\ SameShare(p.sym, s.sym)
      BY <3>2
    <3>5. SameShare(d.sym, s.sym)
      BY <3>2, <3>4, SharesJoin
    <3> QED BY <2>3, <3>3, <3>4, <3>5
  <2> QED BY <2>4, <2>5
<1>9. ASSUME NEW b, NEW kind, IsKnown(prior, b, kind) \/ IsKnown(fresh, b, kind)
      PROVE  IsKnown(after, b, kind)
  <2>1. PICK r \in prior \cup fresh : r.ex = b.ex /\ r.kind = kind /\ SameShare(b.sym, r.sym)
    BY <1>9 DEF IsKnown
  <2>2. Stands(r)
    BY <1>7, <1>8
  <2>3. PICK s \in after : s.ex = r.ex /\ s.kind = r.kind /\ SameShare(r.sym, s.sym)
    BY <2>2
  <2>4. SameShare(b.sym, s.sym)
    BY <2>1, <2>3, SharesJoin
  <2> QED BY <2>1, <2>3, <2>4 DEF IsKnown
<1> QED BY <1>5, <1>6, <1>9

-----------------------------------------------------------------------------
(* The invariant.                                                          *)

\* A row of the API's is one it has listed.
Answered(t) ==
  \A r \in t : r.source = "api" => \E a \in Api :
    a.from <= today /\ a.sym = r.sym /\ a.ex = r.ex /\ a.purpose = r.purpose
\* The table has what a session's bundle lists ahead, unless the API took it back.
Knows(t, s) ==
  \A b \in Bundle(s) :
    b.ex >= today => \A n \in DOMAIN Kinds[b.purpose] :
      IsKnown(t, b, Kinds[b.purpose][n]) \/ IsGivenUp(b, Kinds[b.purpose][n])

ActionsInvariant ==
  /\ TypeOK /\ AreSound(Table(files)) /\ OneOfEachKey(Table(files)) /\ NoRival(Table(files))
  /\ Answered(Table(files)) /\ \A s \in read : Knows(Table(files), s)

\* The same of a table that a step writes, after it.
WillKnow(t, s) ==
  \A b \in Bundle(s) :
    b.ex >= today => \A n \in DOMAIN Kinds[b.purpose] :
      IsKnown(t, b, Kinds[b.purpose][n]) \/ IsGivenUp(b, Kinds[b.purpose][n])'

LEMMA SameRowsAreAnswered ==
  ASSUME NEW t, NEW u, Answered(t), \A s \in u : \E r \in t : SameRow(r, s)
  PROVE  Answered(u)
<1>1. ASSUME NEW s \in u, s.source = "api"
      PROVE  \E a \in Api : a.from <= today /\ a.sym = s.sym /\ a.ex = s.ex /\ a.purpose = s.purpose
  <2>1. PICK r \in t : SameRow(r, s)
    OBVIOUS
  <2>2. r.source = "api" /\ r.sym = s.sym /\ r.ex = s.ex /\ r.purpose = s.purpose
    BY <1>1, <2>1 DEF SameRow
  <2> QED BY <2>2 DEF Answered
<1> QED BY <1>1 DEF Answered

\* What is written: the rows of the table, and the year files that it has no row of.
LEMMA WrittenYears ==
  ASSUME CorporateActionsAssumptions, TypeOK, AreSound(Table(files)), NEW table,
         AreSound(table), WriteYears(table)
  PROVE  /\ files' \in [Years -> SUBSET Rows]
         /\ \A y \in Years : \A r \in files'[y] : Year[r.ex] = y
         /\ \A y \in Years :
              \/ files'[y] = {r \in table : Year[r.ex] = y}
              \/ {r \in table : Year[r.ex] = y} = {} /\ files'[y] = files[y]
         /\ table \subseteq Table(files') /\ AreSound(Table(files'))
         /\ \A r, s \in Table(files') : r.ex = s.ex =>
              (r \in table /\ s \in table) \/ (r \in Table(files) /\ s \in Table(files))
<1> DEFINE Of(y) == {r \in table : Year[r.ex] = y}
<1>1. files' = [y \in Years |-> IF Of(y) = {} THEN files[y] ELSE Of(y)]
  BY DEF WriteYears
<1>2. \A r \in table : r \in Rows /\ Year[r.ex] \in Years
  BY DEF AreSound, IsSound, Rows, Years
<1>3. \A y \in Years : files'[y] = Of(y) \/ (Of(y) = {} /\ files'[y] = files[y])
  BY <1>1
<1>4. \A y \in Years : Of(y) \in SUBSET Rows /\ files[y] \in SUBSET Rows
  BY <1>2 DEF TypeOK
<1>5. files' \in [Years -> SUBSET Rows]
  <2> HIDE DEF Of
  <2> QED BY <1>1, <1>4
<1>6. \A y \in Years : \A r \in files'[y] : Year[r.ex] = y
  BY <1>3 DEF TypeOK
<1>7. table \subseteq Table(files')
  <2>1. ASSUME NEW r \in table PROVE r \in Table(files')
    <3>1. r \in Of(Year[r.ex]) /\ Year[r.ex] \in Years
      BY <1>2
    <3>2. r \in files'[Year[r.ex]]
      BY <1>3, <3>1
    <3> QED BY <3>1, <3>2 DEF Table
  <2> QED BY <2>1
<1>8. \A y \in Years : files[y] \subseteq Table(files)
  BY DEF Table
<1>9. AreSound(Table(files'))
  <2>1. ASSUME NEW r \in Table(files') PROVE r \in table \/ r \in Table(files)
    BY <1>3, <1>8 DEF Table
  <2> QED BY <2>1 DEF AreSound
<1>10. ASSUME NEW r \in Table(files'), NEW s \in Table(files'), r.ex = s.ex
       PROVE  (r \in table /\ s \in table) \/ (r \in Table(files) /\ s \in Table(files))
  <2>1. PICK y \in Years : r \in files'[y]
    BY DEF Table
  <2>2. PICK z \in Years : s \in files'[z]
    BY DEF Table
  <2>3. y = z
    BY <1>6, <1>10, <2>1, <2>2
  <2> QED BY <1>3, <1>8, <2>1, <2>2, <2>3
<1> QED BY <1>3, <1>5, <1>6, <1>7, <1>9, <1>10

\* A table with one row of each action stays one when it is written.
LEMMA WrittenTable ==
  ASSUME CorporateActionsAssumptions, ActionsInvariant, NEW table, AreSound(table),
         OneOfEachKey(table), NoRival(table), Answered(table), WriteYears(table),
         faults' \in 0..MaxFaults, today' = today, read' \subseteq Sessions, lacked' \subseteq Api,
         \A s \in read' : WillKnow(table, s)
  PROVE  ActionsInvariant'
<1> DEFINE t == Table(files)  u == Table(files')
<1>1. TypeOK /\ AreSound(t)
  BY DEF ActionsInvariant
<1>2. /\ files' \in [Years -> SUBSET Rows]
      /\ \A y \in Years : \A r \in files'[y] : Year[r.ex] = y
      /\ table \subseteq u /\ AreSound(u)
      /\ \A r, s \in u : r.ex = s.ex => (r \in table /\ s \in table) \/ (r \in t /\ s \in t)
  BY <1>1, WrittenYears
<1>3. \A y \in Years : files'[y] \subseteq u
  BY DEF Table
<1>4. TypeOK'
  BY <1>1, <1>2, <1>3 DEF TypeOK, AreSound, IsSound
<1>5. OneOfEachKey(t) /\ NoRival(t) /\ Answered(t)
  BY DEF ActionsInvariant
<1> HIDE DEF t, u
<1>6. OneOfEachKey(u)
  <2>1. ASSUME NEW r \in u, NEW s \in u, RowKey(r) = RowKey(s) PROVE r = s
    <3>1. IsSound(r) /\ IsSound(s)
      BY <1>2 DEF AreSound
    <3>2. r.ex = s.ex
      BY <2>1, <3>1, KeysAreActions
    <3> QED BY <1>2, <1>5, <2>1, <3>2 DEF OneOfEachKey
  <2> QED BY <2>1 DEF OneOfEachKey
<1>7. NoRival(u)
  BY <1>2, <1>5 DEF NoRival, SameAction
<1>8. Answered(u)
  BY <1>2, <1>5 DEF Answered
<1>9. \A s \in read' : WillKnow(u, s)
  BY <1>2 DEF WillKnow, IsKnown
<1>10. Answered(Table(files))'
  BY <1>8 DEF Answered, u
<1>11. \A s \in read' : Knows(Table(files), s)'
  BY <1>9 DEF WillKnow, Knows, IsKnown, IsGivenUp, Bundle, u
<1>12. (AreSound(Table(files)) /\ OneOfEachKey(Table(files)) /\ NoRival(Table(files)))'
  BY <1>2, <1>6, <1>7 DEF AreSound, IsSound, OneOfEachKey, NoRival, u
<1> QED BY <1>4, <1>10, <1>11, <1>12 DEF ActionsInvariant

-----------------------------------------------------------------------------
(* The daily run.                                                          *)

\* What holds of the table after each day's bundle.
DailyState(t, list) ==
  /\ AreSound(t) /\ OneOfEachKey(t) /\ Answered(t) /\ \A r \in t : IsResolved(r, list)
  /\ \A r \in Table(files) : \E s \in t : s.ex = r.ex

LEMMA ResolvedTable ==
  ASSUME CorporateActionsAssumptions, ActionsInvariant, NEW latest, NEW from, NEW list,
         list = InstrumentList(latest, from), NEW t, t = ResolveIsins(Table(files), list)
  PROVE  DailyState(t, list) /\ \A s \in read : Knows(t, s)
<1> DEFINE u == Table(files)
<1>1. AreSound(u) /\ OneOfEachKey(u) /\ Answered(u) /\ \A s \in read : Knows(u, s)
  BY DEF ActionsInvariant
<1> HIDE DEF u
<1>2. t = ResolveIsins(u, list)
  BY DEF u
<1>3. /\ AreSound(t) /\ OneOfEachKey(t) /\ \A r \in t : IsResolved(r, list)
      /\ \A r \in u : \E s \in t : SameRow(r, s)
      /\ \A s \in t : \E r \in u : SameRow(r, s)
  BY <1>1, <1>2, ResolvedRows
<1>4. Answered(t)
  BY <1>1, <1>3, SameRowsAreAnswered
<1>5. \A r \in u : \E s \in t : s.ex = r.ex
  BY <1>3 DEF SameRow
<1>6. ASSUME NEW s \in read PROVE Knows(t, s)
  <2>1. \A b, kind : IsKnown(u, b, kind) => IsKnown(t, b, kind)
    BY <1>3 DEF IsKnown, SameRow
  <2> QED BY <1>1, <1>6, <2>1 DEF Knows
<1> QED BY <1>3, <1>4, <1>5, <1>6 DEF DailyState, u

\* The table after a bundle is in it.
LEMMA BundleMerged ==
  ASSUME CorporateActionsAssumptions, NEW latest, NEW from, NEW list,
         list = InstrumentList(latest, from), NEW day \in Day, NEW t, DailyState(t, list),
         NEW fresh, fresh = ResolveIsins(Expand(Bundle(day), "book", day), list),
         NEW after, after = Merge(t, fresh)
  PROVE  /\ DailyState(after, list) /\ NoRival(after) /\ Knows(after, day)
         /\ \A s : Knows(t, s) => Knows(after, s)
<1> DEFINE raw == Expand(Bundle(day), "book", day)
<1>1. AreSound(raw) /\ AreOf(raw, "book", day, Bundle(day)) /\ Covers(raw, Bundle(day))
  <2>1. Bundle(day) \subseteq Closures
    BY DEF Bundle
  <2> QED BY <2>1, ExpandedRows
<1> HIDE DEF raw
<1>2. fresh = ResolveIsins(raw, list)
  BY DEF raw
<1>3. /\ AreSound(fresh) /\ \A r \in fresh : IsResolved(r, list)
      /\ \A r \in raw : \E s \in fresh : SameRow(r, s)
      /\ \A s \in fresh : \E r \in raw : SameRow(r, s)
  BY <1>1, <1>2, ResolvedRows
<1>4. \A r \in fresh : r.source = "book"
  BY <1>1, <1>3 DEF SameRow, AreOf
<1>5. AreSound(t) /\ OneOfEachKey(t) /\ Answered(t)
  BY DEF DailyState
<1>6. /\ after \subseteq t \cup fresh /\ AreSound(after) /\ OneOfEachKey(after)
      /\ NoRival(after)
  BY <1>3, <1>4, <1>5, MergedRows
<1>7. \A r \in after : IsResolved(r, list)
  BY <1>3, <1>6 DEF DailyState
<1>8. Answered(after)
  BY <1>4, <1>5, <1>6 DEF Answered
<1>9. /\ \A r \in t : \E s \in after : s.ex = r.ex
      /\ \A b, kind : IsKnown(t, b, kind) \/ IsKnown(fresh, b, kind) => IsKnown(after, b, kind)
  BY <1>3, <1>5, MergeKeeps
<1>10. \A s : Knows(t, s) => Knows(after, s)
  BY <1>9 DEF Knows
<1>11. Knows(after, day)
  <2>1. ASSUME NEW b \in Bundle(day), NEW n \in DOMAIN Kinds[b.purpose]
        PROVE  IsKnown(after, b, Kinds[b.purpose][n])
    <3>1. PICK e \in fresh : e.ex = b.ex /\ e.sym = b.sym /\ e.kind = Kinds[b.purpose][n]
      BY <1>1, <1>3 DEF SameRow, Covers
    <3>2. IsKnown(fresh, b, Kinds[b.purpose][n])
      BY <3>1 DEF IsKnown, SameShare
    <3> QED BY <1>9, <3>2
  <2> QED BY <2>1 DEF Knows
<1>12. DailyState(after, list)
  BY <1>6, <1>7, <1>8, <1>9 DEF DailyState
<1> QED BY <1>6, <1>10, <1>11, <1>12

\* The table a daily run writes has what the table before knew and what each of
\* its bundles lists.
LEMMA DailyTableHolds ==
  ASSUME CorporateActionsAssumptions, ActionsInvariant, NEW latest, NEW from, NEW list,
         list = InstrumentList(latest, from), NEW days \in SUBSET Day, days # {},
         NEW table, table = DailyTable(list, days)
  PROVE  /\ DailyState(table, list) /\ NoRival(table)
         /\ \A s \in read \cup days : Knows(table, s)
<1> DEFINE rows == ResolveIsins(Table(files), list)
           after == TableAfter(rows, list, days)
           S == {d \in 0..LastDay :
                  /\ DailyState(after[d], list)
                  /\ \A s \in read : Knows(after[d], s)
                  /\ \A s \in days : s <= d => NoRival(after[d]) /\ Knows(after[d], s)}
<1>1. LastDay \in Nat /\ Day = 1..LastDay
  BY DEF CorporateActionsAssumptions
<1>2. DailyState(rows, list) /\ \A s \in read : Knows(rows, s)
  BY ResolvedTable
<1> HIDE DEF rows
<1>3. /\ after[0] = rows
      /\ \A d \in 1..LastDay : after[d] =
           IF d \in days
           THEN Merge(after[d - 1], ResolveIsins(Expand(Bundle(d), "book", d), list))
           ELSE after[d - 1]
  BY <1>1, TableAfterDays
<1> HIDE DEF after
<1>4. 0 \in S
  BY <1>1, <1>2, <1>3
<1>5. ASSUME NEW d \in 0..LastDay, d \in S, d # LastDay PROVE d + 1 \in S
  <2>1. d + 1 \in 1..LastDay /\ (d + 1) - 1 = d
    BY <1>1, <1>5
  <2>2. /\ DailyState(after[d], list) /\ \A s \in read : Knows(after[d], s)
        /\ \A s \in days : s <= d => NoRival(after[d]) /\ Knows(after[d], s)
    BY <1>5
  <2>3. CASE d + 1 \in days
    <3>1. after[d + 1] =
            Merge(after[d], ResolveIsins(Expand(Bundle(d + 1), "book", d + 1), list))
      BY <1>3, <2>1, <2>3
    <3>2. /\ DailyState(after[d + 1], list) /\ NoRival(after[d + 1])
          /\ Knows(after[d + 1], d + 1)
          /\ \A s : Knows(after[d], s) => Knows(after[d + 1], s)
      BY <1>1, <2>1, <2>2, <3>1, BundleMerged
    <3>3. \A s \in days : s <= d + 1 => s <= d \/ s = d + 1
      BY <1>1
    <3> QED BY <1>1, <2>1, <2>2, <3>2, <3>3
  <2>4. CASE d + 1 \notin days
    <3>1. after[d + 1] = after[d]
      BY <1>3, <2>1, <2>4
    <3>2. \A s \in days : s <= d + 1 => s <= d
      BY <1>1, <2>4
    <3> QED BY <1>1, <2>1, <2>2, <3>1, <3>2
  <2> QED BY <2>3, <2>4
<1>6. LastDay \in S
  <2> HIDE DEF S
  <2>1. \A d \in 0..LastDay : d \in S /\ d # LastDay => d + 1 \in S
    BY <1>5
  <2>2. \A d \in 0..LastDay : d \in S
    BY <1>1, <1>4, <2>1, DayByDay
  <2> QED BY <1>1, <2>2
<1>7. table = after[LastDay]
  BY DEF DailyTable, after, rows
<1>8. \A s \in days : s <= LastDay
  BY <1>1
<1> QED BY <1>6, <1>7, <1>8

\* A run reads the day's own bundle, and others of sessions that passed.
LEMMA DaysOfARun ==
  ASSUME CorporateActionsAssumptions, TypeOK, today \in Sessions,
         NEW days, days = SessionsTo(today, CatchupDays), NEW missing \in Missing(days \ {today})
  PROVE  /\ today \in days \ missing /\ days \subseteq Sessions
         /\ Cardinality(missing) \in 0..1 /\ (Cardinality(missing) = 1 => faults < MaxFaults)
<1>1. {t \in Sessions : today < t /\ t <= today} = {}
  BY DEF CorporateActionsAssumptions, TypeOK
<1>2. today \in days /\ days \subseteq Sessions
  <2>1. Cardinality({t \in Sessions : today < t /\ t <= today}) = 0
    BY <1>1, FS_EmptySet
  <2>2. 0 < CatchupDays /\ today <= today
    BY DEF CorporateActionsAssumptions, TypeOK
  <2> QED BY <2>1, <2>2 DEF SessionsTo
<1>3. missing = {} \/ (faults < MaxFaults /\ \E d \in days \ {today} : missing = {d})
  BY DEF Missing
<1> QED BY <1>2, <1>3, FS_EmptySet, FS_Singleton

LEMMA BuildHistoryKeeps ==
  ASSUME CorporateActionsAssumptions, ActionsInvariant, NEW latest, NEW from,
         BuildHistory(latest, from)
  PROVE  ActionsInvariant'
<1> DEFINE list == InstrumentList(latest, from)
           days == SessionsTo(today, CatchupDays)
<1>1. today \in Sessions /\ today' = today /\ lacked' = lacked
  BY DEF BuildHistory
<1>2. PICK missing \in Missing(days \ {today}) :
        /\ WriteYears(DailyTable(list, days \ missing))
        /\ read' = read \cup (days \ missing)
        /\ faults' = faults + Cardinality(missing) + (IF from > 1 THEN 1 ELSE 0)
        /\ faults' <= MaxFaults
  BY DEF BuildHistory
<1>3. TypeOK
  BY DEF ActionsInvariant
<1>4. today \in days \ missing /\ days \subseteq Sessions /\ Cardinality(missing) \in 0..1
  BY <1>1, <1>3, DaysOfARun
<1>5. days \ missing \in SUBSET Day /\ days \ missing # {}
  BY <1>4 DEF CorporateActionsAssumptions
<1> DEFINE table == DailyTable(list, days \ missing)
<1>6. /\ DailyState(table, list) /\ NoRival(table)
      /\ \A s \in read \cup (days \ missing) : Knows(table, s)
  BY <1>5, DailyTableHolds
<1> HIDE DEF table
<1>7. AreSound(table) /\ OneOfEachKey(table) /\ Answered(table)
  BY <1>6 DEF DailyState
<1>8. read' \subseteq Sessions /\ faults' \in 0..MaxFaults /\ lacked' \subseteq Api
  BY <1>1, <1>2, <1>3, <1>4 DEF TypeOK, CorporateActionsAssumptions
<1>9. WriteYears(table) /\ \A s \in read' : Knows(table, s)
  BY <1>2, <1>6 DEF table
<1>10. \A s \in read' : WillKnow(table, s)
  <2>1. \A b, kind : IsGivenUp(b, kind) => IsGivenUp(b, kind)'
    BY <1>1 DEF IsGivenUp
  <2> QED BY <1>9, <2>1 DEF Knows, WillKnow
<1> QED BY <1>1, <1>6, <1>7, <1>8, <1>9, <1>10, WrittenTable

-----------------------------------------------------------------------------
(* The top-up.                                                             *)

\* Every row's key is a key of the others.
KeysAreIn(rows, others) == \A r \in rows : \E s \in others : RowKey(s) = RowKey(r)

\* The rows of an answer, as they go into the table: the API's, of its window.
LEMMA AnswerRows ==
  ASSUME CorporateActionsAssumptions, TypeOK, AreSound(Table(files)), NEW start, NEW end,
         NEW latest, NEW from, NEW list, list = InstrumentList(latest, from),
         NEW raw \in SUBSET Answer(today, start, end), NEW fresh, fresh = Expand(raw, "api", today),
         NEW rows, rows = ResolveIsins({SeenBefore(r, start, end) : r \in fresh}, list)
  PROVE  /\ AreSound(fresh) /\ AreSound(rows) /\ Covers(fresh, raw)
         /\ \A r \in rows : r.source = "api" /\ start <= r.ex /\ r.ex <= end
         /\ Answered(rows)
         /\ \A b, kind : IsKnown(fresh, b, kind) => IsKnown(rows, b, kind)
         /\ KeysAreIn(fresh, rows) /\ KeysAreIn(rows, fresh)
<1>1. AreSound(fresh) /\ AreOf(fresh, "api", today, raw) /\ Covers(fresh, raw)
  <2>1. raw \subseteq Api /\ today \in Day
    BY DEF Answer, TypeOK
  <2> QED BY <2>1, ExpandedRows
<1> DEFINE again == {SeenBefore(r, start, end) : r \in fresh}
<1>2. ASSUME NEW r \in fresh, NEW s, s = SeenBefore(r, start, end)
      PROVE  IsSound(s) /\ SameRow(r, s)
  <2>1. IsSound(r)
    BY <1>1 DEF AreSound
  <2> DEFINE same == {h \in FromApi(Expected(start, end)) : RowKey(h) = RowKey(r)}
  <2>2. CASE same = {}
    <3>1. s = r
      BY <1>2, <2>2 DEF SeenBefore
    <3> QED BY <2>1, <3>1 DEF SameRow
  <2>3. CASE same # {}
    <3>1. PICK h \in same : s = [r EXCEPT !.seen = h.seen]
      BY <1>2, <2>3 DEF SeenBefore
    <3>2. h \in Rows
      BY <3>1 DEF FromApi, Expected, AreSound, IsSound
    <3>3. r \in Rows
      BY <2>1 DEF IsSound
    <3>4. s \in Rows
      BY <3>1, <3>2, <3>3 DEF Rows
    <3>5. /\ s.source = r.source /\ s.sym = r.sym /\ s.ex = r.ex /\ s.purpose = r.purpose
          /\ s.part = r.part /\ s.kind = r.kind /\ s.isin_nse = r.isin_nse /\ s.isin = r.isin
      BY <3>1, <3>3 DEF Rows
    <3> QED BY <2>1, <3>4, <3>5 DEF IsSound, SameRow
  <2> QED BY <2>2, <2>3
<1>3. \A s \in again : IsSound(s) /\ \E r \in fresh : SameRow(r, s)
  BY <1>2
<1>4. \A r \in fresh : \E s \in again : SameRow(r, s)
  BY <1>2
<1> HIDE DEF again
<1>5. /\ AreSound(rows)
      /\ \A r \in again : \E s \in rows : SameRow(r, s)
      /\ \A s \in rows : \E r \in again : SameRow(r, s)
  <2>1. rows = ResolveIsins(again, list) /\ AreSound(again)
    BY <1>3 DEF again, AreSound
  <2> QED BY <2>1, ResolvedRows
<1>6. \A r \in fresh : \E s \in rows : SameRow(r, s)
  BY <1>4, <1>5 DEF SameRow
<1>7. \A s \in rows : \E r \in fresh : SameRow(r, s)
  BY <1>3, <1>5 DEF SameRow
<1>8. \A r \in fresh : r.source = "api" /\ start <= r.ex /\ r.ex <= end
  BY <1>1 DEF AreOf, Answer
<1>9. \A r \in rows : r.source = "api" /\ start <= r.ex /\ r.ex <= end
  BY <1>7, <1>8 DEF SameRow
<1>10. \A r, s : SameRow(r, s) => RowKey(s) = RowKey(r)
  BY DEF SameRow, RowKey
<1>11. KeysAreIn(fresh, rows) /\ KeysAreIn(rows, fresh)
  BY <1>6, <1>7, <1>10 DEF KeysAreIn
<1>12. Answered(rows)
  <2>1. Answered(fresh)
    BY <1>1 DEF Answered, AreOf, Answer
  <2> QED BY <1>7, <2>1, SameRowsAreAnswered
<1>13. ASSUME NEW b, NEW kind, IsKnown(fresh, b, kind) PROVE IsKnown(rows, b, kind)
  <2>1. PICK r \in fresh : r.ex = b.ex /\ r.kind = kind /\ SameShare(b.sym, r.sym)
    BY <1>13 DEF IsKnown
  <2>2. PICK s \in rows : SameRow(r, s)
    BY <1>6
  <2> QED BY <2>1, <2>2 DEF IsKnown, SameRow
<1> QED BY <1>1, <1>5, <1>9, <1>11, <1>12, <1>13

\* The rows an answer leaves in the table: none of the API's in its window, none in
\* it that passed, and all the others.
LEMMA KeptRows ==
  ASSUME CorporateActionsAssumptions, ActionsInvariant, NEW start, NEW end,
         NEW latest, NEW from, NEW list, list = InstrumentList(latest, from),
         NEW kept, kept = ResolveIsins(Table(files) \ Retired(start, end), list)
  PROVE  /\ AreSound(kept) /\ OneOfEachKey(kept) /\ Answered(kept)
         /\ Replaced(kept, start, end) = {}
         /\ \A r \in Table(files) \ Replaced(Table(files), start, end) :
              \E s \in kept : SameRow(r, s)
<1> DEFINE t == Table(files)  rest == t \ Retired(start, end)
<1>1. AreSound(t) /\ OneOfEachKey(t) /\ Answered(t)
  BY DEF ActionsInvariant
<1>2. \A r \in t : r.source \in {"api", "book"}
  BY <1>1 DEF AreSound, IsSound, Rows
<1> HIDE DEF t
<1>3. rest = t \ Replaced(t, start, end)
  BY <1>2 DEF Retired, Expected, FromApi, FromBook, Replaced, t
<1>4. AreSound(rest) /\ OneOfEachKey(rest) /\ Answered(rest)
  BY <1>1, <1>3 DEF AreSound, OneOfEachKey, Answered
<1>5. kept = ResolveIsins(rest, list)
  BY DEF t
<1> HIDE DEF rest
<1>6. /\ AreSound(kept) /\ OneOfEachKey(kept)
      /\ \A r \in rest : \E s \in kept : SameRow(r, s)
      /\ \A s \in kept : \E r \in rest : SameRow(r, s)
  BY <1>4, <1>5, ResolvedRows
<1>7. ASSUME NEW s \in Replaced(kept, start, end) PROVE FALSE
  <2>1. PICK r \in rest : SameRow(r, s)
    BY <1>6 DEF Replaced
  <2>2. r \in Replaced(t, start, end)
    BY <1>3, <2>1 DEF SameRow, Replaced
  <2> QED BY <1>3, <2>2
<1>8. Answered(kept)
  BY <1>4, <1>6, SameRowsAreAnswered
<1>9. \A r \in t \ Replaced(t, start, end) : \E s \in kept : SameRow(r, s)
  BY <1>3, <1>6
<1> QED BY <1>6, <1>7, <1>8, <1>9 DEF t

\* A row of the API's that a window answers for and that has not passed: NSE lists its
\* action in the answer, or has withdrawn it, or the answer was cut short of it.
LEMMA ListedAgain ==
  ASSUME CorporateActionsAssumptions, TypeOK, NEW start, NEW end, NEW cut, NEW raw,
         raw = Answer(today, start, end) \ cut, NEW fresh, Covers(fresh, raw),
         NEW r, IsSound(r), NEW a \in Api, a.from <= today, a.sym = r.sym, a.ex = r.ex,
         a.purpose = r.purpose, start <= r.ex, r.ex <= end,
         NEW b, b.ex = r.ex, SameShare(b.sym, r.sym), today' = today, lacked' = lacked \cup cut
  PROVE  IsKnown(fresh, b, r.kind) \/ IsGivenUp(b, r.kind)'
<1>1. r.part \in DOMAIN Kinds[a.purpose] /\ Kinds[a.purpose][r.part] = r.kind
  BY DEF IsSound
<1>2. CASE a \in raw
  <2>1. PICK f \in fresh : f.ex = a.ex /\ f.sym = a.sym /\ f.kind = r.kind
    BY <1>1, <1>2 DEF Covers
  <2> QED BY <2>1 DEF IsKnown
<1>3. CASE a.to < today \/ a \in cut
  BY <1>1, <1>3 DEF IsGivenUp
<1>4. CASE a \notin raw /\ ~(a.to < today)
  <2>1. today \in Nat /\ a.to \in Nat
    BY DEF TypeOK, CorporateActionsAssumptions
  <2>2. a \in Answer(today, start, end)
    BY <1>4, <2>1 DEF Answer
  <2> QED BY <1>3, <1>4, <2>2
<1> QED BY <1>2, <1>3, <1>4

LEMMA TopUpKeeps ==
  ASSUME CorporateActionsAssumptions, ActionsInvariant, NEW start, NEW end,
         NEW cut \in Cuts(start, end), NEW latest, NEW from, TopUp(start, end, cut, latest, from)
  PROVE  ActionsInvariant'
<1> DEFINE raw == Answer(today, start, end) \ cut
           fresh == Expand(raw, "api", today)
           list == InstrumentList(latest, from)
           kept == ResolveIsins(Table(files) \ Retired(start, end), list)
           rows == ResolveIsins({SeenBefore(r, start, end) : r \in fresh}, list)
           table == Merge(kept, rows)
<1>1. /\ WriteYears(table) /\ UNCHANGED <<today, read>> /\ faults' <= MaxFaults
      /\ lacked' = lacked \cup cut
      /\ faults' = faults + (IF cut = {} THEN 0 ELSE 1) + (IF from > 1 THEN 1 ELSE 0)
  BY DEF TopUp
<1>2. TypeOK /\ AreSound(Table(files))
  BY DEF ActionsInvariant
<1>3. /\ AreSound(rows) /\ Covers(fresh, raw) /\ Answered(rows)
      /\ \A r \in rows : r.source = "api" /\ start <= r.ex /\ r.ex <= end
      /\ \A b, kind : IsKnown(fresh, b, kind) => IsKnown(rows, b, kind)
  <2>1. raw \in SUBSET Answer(today, start, end)
    OBVIOUS
  <2> HIDE DEF raw
  <2> QED BY <1>2, <2>1, AnswerRows
<1>4. /\ AreSound(kept) /\ OneOfEachKey(kept) /\ Answered(kept)
      /\ Replaced(kept, start, end) = {}
      /\ \A r \in Table(files) \ Replaced(Table(files), start, end) :
           \E s \in kept : SameRow(r, s)
  BY KeptRows
<1> HIDE DEF kept, rows, fresh
<1>5. \A r \in rows : r.source = "api" => \A s \in kept : RowKey(r) # RowKey(s)
  <2>1. ASSUME NEW r \in rows, NEW s \in kept, RowKey(r) = RowKey(s) PROVE FALSE
    <3>1. IsSound(r) /\ IsSound(s)
      BY <1>3, <1>4, <2>1 DEF AreSound
    <3>2. r.source = s.source /\ r.ex = s.ex
      BY <2>1, <3>1, KeysAreActions
    <3> QED BY <1>3, <1>4, <2>1, <3>2 DEF Replaced
  <2> QED BY <2>1
<1>6. /\ table \subseteq kept \cup rows /\ AreSound(table) /\ OneOfEachKey(table)
      /\ NoRival(table)
  BY <1>3, <1>4, <1>5, MergedRows
<1>7. Answered(table)
  BY <1>3, <1>4, <1>6 DEF Answered
<1>8. \A b, kind : IsKnown(kept, b, kind) \/ IsKnown(rows, b, kind) => IsKnown(table, b, kind)
  BY <1>3, <1>4, MergeKeeps
<1> HIDE DEF table, list
<1>9. ASSUME NEW s \in read' PROVE WillKnow(table, s)
  <2>1. ASSUME NEW b \in Bundle(s), b.ex >= today, NEW n \in DOMAIN Kinds[b.purpose],
               NEW kind, kind = Kinds[b.purpose][n]
        PROVE  IsKnown(table, b, kind) \/ IsGivenUp(b, kind)'
    <3>1. IsKnown(Table(files), b, kind) \/ IsGivenUp(b, kind)
      BY <1>1, <2>1 DEF ActionsInvariant, Knows
    <3>2. CASE IsGivenUp(b, kind)
      BY <1>1, <3>2 DEF IsGivenUp
    <3>3. CASE IsKnown(Table(files), b, kind)
      <4>1. PICK r \in Table(files) : r.ex = b.ex /\ r.kind = kind /\ SameShare(b.sym, r.sym)
        BY <3>3 DEF IsKnown
      <4>2. CASE r \notin Replaced(Table(files), start, end)
        <5>1. PICK q \in kept : SameRow(r, q)
          BY <1>4, <4>2
        <5>2. IsKnown(kept, b, kind)
          BY <4>1, <5>1 DEF IsKnown, SameRow
        <5> QED BY <1>8, <5>2
      <4>3. CASE r \in Replaced(Table(files), start, end)
        <5>1. IsSound(r) /\ b.ex \in Nat /\ today \in Nat
          BY <1>2, <2>1, <4>1 DEF AreSound, Bundle, TypeOK, CorporateActionsAssumptions
        <5>2. r.source = "api" /\ start <= r.ex /\ r.ex <= end
          BY <2>1, <4>1, <4>3, <5>1 DEF Replaced
        <5>3. PICK a \in Api :
                a.from <= today /\ a.sym = r.sym /\ a.ex = r.ex /\ a.purpose = r.purpose
          BY <5>2 DEF ActionsInvariant, Answered
        <5>4. IsKnown(fresh, b, kind) \/ IsGivenUp(b, kind)'
          BY <1>1, <1>2, <1>3, <4>1, <5>1, <5>2, <5>3, ListedAgain
        <5> QED BY <1>3, <1>8, <5>4
      <4> QED BY <4>2, <4>3
    <3> QED BY <3>1, <3>2, <3>3
  <2> QED BY <1>1, <2>1 DEF WillKnow
<1>10. faults' \in 0..MaxFaults /\ read' \subseteq Sessions /\ lacked' \subseteq Api
  <2>1. cut \subseteq Api
    BY DEF Cuts, Answer
  <2> QED BY <1>1, <1>2, <2>1 DEF TypeOK, CorporateActionsAssumptions
<1> QED BY <1>1, <1>6, <1>7, <1>9, <1>10, WrittenTable

-----------------------------------------------------------------------------
(* The theorems.                                                           *)

LEMMA InitHolds == CorporateActionsAssumptions /\ Init => ActionsInvariant
<1> SUFFICES ASSUME CorporateActionsAssumptions, Init PROVE ActionsInvariant
  OBVIOUS
<1>1. Min(Sessions) \in Sessions
  <2>1. Sessions \in SUBSET Nat /\ Sessions # {}
    BY DEF CorporateActionsAssumptions
  <2>2. \E x \in Sessions : \A y \in Sessions : x <= y
    BY <2>1, LeastNatural
  <2> QED BY <2>2 DEF Min
<1>2. files = [y \in Years |-> {}] /\ read = {} /\ lacked = {} /\ faults = 0
      /\ today = Min(Sessions)
  BY DEF Init
<1>3. TypeOK
  BY <1>1, <1>2 DEF TypeOK, CorporateActionsAssumptions
<1>4. Table(files) = {}
  BY <1>2 DEF Table
<1> QED BY <1>2, <1>3, <1>4 DEF ActionsInvariant, AreSound, OneOfEachKey, NoRival, Answered

LEMMA StepKeeps ==
  CorporateActionsAssumptions /\ ActionsInvariant /\ [Next]_vars => ActionsInvariant'
<1> SUFFICES ASSUME CorporateActionsAssumptions, ActionsInvariant, [Next]_vars
             PROVE  ActionsInvariant'
  OBVIOUS
<1>1. CASE NextDay
  <2>1. today' = today + 1 /\ today < LastDay /\ UNCHANGED <<files, read, lacked, faults>>
    BY <1>1 DEF NextDay
  <2>2. TypeOK' /\ today \in Nat
    BY <2>1 DEF ActionsInvariant, TypeOK, CorporateActionsAssumptions
  <2>3. \A n \in Day : n >= today' => n >= today
    BY <2>1, <2>2 DEF CorporateActionsAssumptions
  <2>4. \A a \in Api : (a.from <= today => a.from <= today') /\ (a.to < today => a.to < today')
    BY <2>1, <2>2 DEF CorporateActionsAssumptions
  <2>5. Answered(Table(files))'
    BY <2>1, <2>4 DEF ActionsInvariant, Answered, Table
  <2>6. ASSUME NEW s \in read' PROVE Knows(Table(files), s)'
    <3>1. Knows(Table(files), s)
      BY <2>1, <2>6 DEF ActionsInvariant
    <3>2. \A b \in Bundle(s) : b.ex >= today' => b.ex >= today
      BY <2>3 DEF Bundle, CorporateActionsAssumptions
    <3>3. \A b, kind : IsGivenUp(b, kind) => IsGivenUp(b, kind)'
      BY <2>1, <2>4 DEF IsGivenUp
    <3>4. \A b, kind : IsKnown(Table(files), b, kind) => IsKnown(Table(files), b, kind)'
      BY <2>1 DEF IsKnown, Table
    <3> QED BY <3>1, <3>2, <3>3, <3>4 DEF Knows, Bundle
  <2>7. (AreSound(Table(files)) /\ OneOfEachKey(Table(files)) /\ NoRival(Table(files)))'
    BY <2>1 DEF ActionsInvariant, AreSound, OneOfEachKey, NoRival, Table, IsSound
  <2> QED BY <2>2, <2>5, <2>6, <2>7 DEF ActionsInvariant
<1>2. ASSUME NEW l \in Lists, BuildHistory(l[1], l[2]) PROVE ActionsInvariant'
  BY <1>2, BuildHistoryKeeps
<1>3. ASSUME NEW l \in Lists, NEW w \in Windows, NEW cut \in Cuts(w[1], w[2]),
             TopUp(w[1], w[2], cut, l[1], l[2])
      PROVE  ActionsInvariant'
  BY <1>3, TopUpKeeps
<1>4. CASE UNCHANGED vars
  <2>1. UNCHANGED <<today, files, read, lacked, faults>>
    BY <1>4 DEF vars
  <2> QED BY <2>1 DEF ActionsInvariant, TypeOK, AreSound, IsSound, OneOfEachKey, NoRival,
             Answered, Knows, IsKnown, IsGivenUp, Table
<1> QED BY <1>1, <1>2, <1>3, <1>4 DEF Next

\* The inductive invariant: types, sound rows of different keys and actions, the
\* API's among them rows that it has listed, and the actions ahead that the bundles
\* listed, but for those the API took back.
THEOREM InvariantHolds == Spec => []ActionsInvariant
<1>1. Init => ActionsInvariant
  BY InitHolds, ConstantsAreRight
<1>2. ActionsInvariant /\ [Next]_vars => ActionsInvariant'
  BY StepKeeps, ConstantsAreRight
<1> QED BY <1>1, <1>2, PTL DEF Spec

\* Every row is a part of its purpose and in the file of its ex-date's year.
THEOREM TypesHold == Spec => []TypeOK
<1>1. ActionsInvariant => TypeOK
  BY DEF ActionsInvariant
<1> QED BY <1>1, InvariantHolds, PTL

\* The history has one row per action, whatever the sources repeat, reword or list
\* under a later symbol, and in whatever order the two writers run (merge).
THEOREM ActionsAreOne == Spec => []OneRowPerAction
<1>1. ActionsInvariant => OneRowPerAction
  BY DEF ActionsInvariant, OneRowPerAction, OneOfEachKey, NoRival
<1> QED BY <1>1, InvariantHolds, PTL

\* What a bundle that was read lists ahead is in the history until it has passed,
\* whatever windows top-ups ask for, unless NSE withdrew it from the API or the API's
\* answer was cut short of it (_retire_window, merge).
THEOREM UpcomingStays == Spec => []UpcomingIsKnown
<1>1. ActionsInvariant => UpcomingIsKnown
  BY DEF ActionsInvariant, UpcomingIsKnown, Knows
<1> QED BY <1>1, InvariantHolds, PTL

LEMMA VersionsOfTheDay ==
  ASSUME CorporateActionsAssumptions, today \in Day, NEW list, list = InstrumentList(today, 1)
  PROVE  /\ \A x \in list : \E u \in Versions :
              /\ x.sym = u.sym /\ x.isin = u.isin /\ x.first = u.first
              /\ x.last = IF u.last <= today THEN u.last ELSE today
         /\ \A u \in Versions : u.first <= today => \E x \in list :
              /\ x.sym = u.sym /\ x.isin = u.isin /\ x.first = u.first
              /\ x.last = IF u.last <= today THEN u.last ELSE today
<1> DEFINE Cut(u) == [u EXCEPT !.first = Max({u.first, 1}), !.last = Min({u.last, today})]
<1>1. list = {Cut(u) : u \in {w \in Versions : w.first <= today /\ w.last >= 1}}
  BY DEF InstrumentList
<1>2. ASSUME NEW u \in Versions
      PROVE  /\ Cut(u).sym = u.sym /\ Cut(u).isin = u.isin /\ Cut(u).first = u.first
             /\ Cut(u).last = (IF u.last <= today THEN u.last ELSE today) /\ u.last >= 1
  <2>1. /\ u = [sym |-> u.sym, isin |-> u.isin, first |-> u.first, last |-> u.last]
        /\ u.first \in Nat /\ u.first >= 1 /\ u.last \in Nat /\ u.last >= 1 /\ today \in Nat
    BY DEF CorporateActionsAssumptions
  <2>2. Max({u.first, 1}) = u.first /\ Min({u.last, today}) = IF u.last <= today THEN u.last ELSE today
    BY <2>1, MaxOfTwo
  <2> QED BY <2>1, <2>2
<1> HIDE DEF Cut
<1> QED BY <1>1, <1>2

\* The list of the day has the one ISIN that traded under a symbol on a day.
LEMMA SoleIsin ==
  ASSUME CorporateActionsAssumptions, today \in Day, NEW list, list = InstrumentList(today, 1),
         NEW v \in Versions, NEW ex \in Day, ex <= today, Over(v, ex), NEW printed,
         \A w \in Versions : w.sym = v.sym /\ Over(w, ex) => w.isin = v.isin
  PROVE  IsinOf(v.sym, ex, printed, list) = v.isin
<1> DEFINE T == {x.last : x \in list}
           day == Min({ex, Max(T)})
           found == {x.isin : x \in {u \in list : u.sym = v.sym /\ Over(u, day)}}
<1>1. today \in Nat /\ ex \in Nat /\ \A u \in Versions : u.first \in Nat /\ u.last \in Nat
  BY DEF CorporateActionsAssumptions
<1>2. PICK x \in list :
        /\ x.sym = v.sym /\ x.isin = v.isin /\ x.first = v.first
        /\ x.last = IF v.last <= today THEN v.last ELSE today
  BY <1>1, VersionsOfTheDay DEF Over
<1>3. T \in SUBSET (0..today) /\ x.last \in T
  <2>1. \A y \in list : y.last \in 0..today
    BY <1>1, VersionsOfTheDay
  <2> QED BY <2>1
<1>4. Max(T) \in Nat /\ Max(T) >= ex
  <2>1. Max(T) \in T /\ Max(T) >= x.last
    <3> HIDE DEF T
    <3> QED BY <1>1, <1>3, GreatestNatural
  <2> QED BY <1>1, <1>2, <1>3, <2>1 DEF Over
<1>5. day = ex
  <2> HIDE DEF T
  <2> QED BY <1>1, <1>4, MaxOfTwo
<1>6. found = {v.isin}
  <2> HIDE DEF day
  <2>1. x.isin \in found
    BY <1>1, <1>2, <1>5 DEF Over
  <2>2. ASSUME NEW y \in list, y.sym = v.sym, Over(y, day) PROVE y.isin = v.isin
    <3>1. PICK u \in Versions :
            /\ y.sym = u.sym /\ y.isin = u.isin /\ y.first = u.first
            /\ y.last = IF u.last <= today THEN u.last ELSE today
      BY VersionsOfTheDay
    <3>2. Over(u, ex)
      BY <1>1, <1>5, <2>2, <3>1 DEF Over
    <3> QED BY <2>2, <3>1, <3>2
  <2> QED BY <1>2, <2>1, <2>2
<1>7. Cardinality(found) = 1 /\ TheOnly(found) = v.isin
  <2> HIDE DEF found
  <2>1. Cardinality(found) = 1
    BY <1>6, FS_Singleton
  <2> QED BY <1>6, <2>1 DEF TheOnly
<1>8. IsinOf(v.sym, ex, printed, list) =
        IF Cardinality(found) = 1 THEN TheOnly(found)
        ELSE IsinOf(v.sym, ex, printed, list)
  BY DEF IsinOf
<1> QED BY <1>7, <1>8

\* After a daily run on the day's list every row, old or new, has the ISIN that
\* traded under its symbol on its ex-date, when one alone did (resolve_isins).
THEOREM IsinsFollow == Spec => IsinsFollowTheList
<1> DEFINE Follows ==
      BuildHistory(today, 1) =>
        \A r \in Table(files'), v \in Versions :
          /\ v.sym = r.sym /\ Over(v, r.ex) /\ r.ex <= today
          /\ \A w \in Versions : w.sym = r.sym /\ Over(w, r.ex) => w.isin = v.isin
          => r.isin = v.isin
<1>1. ASSUME ActionsInvariant, BuildHistory(today, 1), NEW r \in Table(files'),
             NEW v \in Versions, v.sym = r.sym, Over(v, r.ex), r.ex <= today,
             \A w \in Versions : w.sym = r.sym /\ Over(w, r.ex) => w.isin = v.isin
      PROVE  r.isin = v.isin
  <2> DEFINE list == InstrumentList(today, 1)
             days == SessionsTo(today, CatchupDays)
  <2>1. today \in Sessions /\ TypeOK /\ CorporateActionsAssumptions /\ AreSound(Table(files))
    BY <1>1, ConstantsAreRight DEF BuildHistory, ActionsInvariant
  <2>2. PICK missing \in Missing(days \ {today}) : WriteYears(DailyTable(list, days \ missing))
    BY <1>1 DEF BuildHistory
  <2>3. today \in days \ missing /\ days \subseteq Sessions
    BY <2>1, DaysOfARun
  <2>4. days \ missing \in SUBSET Day /\ days \ missing # {}
    BY <2>1, <2>3 DEF CorporateActionsAssumptions
  <2> DEFINE table == DailyTable(list, days \ missing)
  <2>5. DailyState(table, list)
    BY <1>1, <2>1, <2>4, DailyTableHolds
  <2> HIDE DEF table
  <2>6. /\ AreSound(table) /\ \A s \in table : IsResolved(s, list)
        /\ \A q \in Table(files) : \E s \in table : s.ex = q.ex
    BY <2>5 DEF DailyState
  <2>7. r \in table
    <3>1. PICK y \in Years : r \in files'[y]
      BY DEF Table
    <3>2. \/ files'[y] = {s \in table : Year[s.ex] = y}
          \/ {s \in table : Year[s.ex] = y} = {} /\ files'[y] = files[y]
      BY <2>1, <2>2, <2>6, WrittenYears DEF table
    <3>3. ASSUME {s \in table : Year[s.ex] = y} = {}, r \in files[y] PROVE FALSE
      <4>1. r \in Table(files) /\ Year[r.ex] = y
        BY <2>1, <3>3 DEF Table, TypeOK
      <4> QED BY <2>6, <3>3, <4>1
    <3> QED BY <3>1, <3>2, <3>3
  <2>8. r.ex \in Day
    BY <2>6, <2>7 DEF AreSound, IsSound, Rows
  <2>9. IsinOf(v.sym, r.ex, r.isin_nse, list) = v.isin
    BY <1>1, <2>1, <2>8, SoleIsin DEF TypeOK
  <2>10. v.isin # None
    BY <2>1 DEF CorporateActionsAssumptions
  <2> QED BY <1>1, <2>6, <2>7, <2>9, <2>10 DEF IsResolved
<1>2. ActionsInvariant /\ [Next]_vars => [Follows]_vars
  BY <1>1
<1> QED BY <1>2, InvariantHolds, PTL DEF Spec, IsinsFollowTheList

\* An answer in use, whole or cut short, leaves in its window, of the API's rows and of
\* what passed, its own and no other, in every year that it has an action of
\* (_retire_window, merge).
THEOREM TopUpsAreTheRecord == Spec => TopUpIsTheRecord
<1> DEFINE Own(raw, y) == {RowKey(r) : r \in {t \in Expand(raw, "api", today) : Year[t.ex] = y}}
           Records ==
             \A w \in Windows, l \in Lists : \A cut \in Cuts(w[1], w[2]) :
               TopUp(w[1], w[2], cut, l[1], l[2]) =>
                 LET raw == Answer(today, w[1], w[2]) \ cut
                 IN  \A y \in {Year[a.ex] : a \in raw} :
                       {RowKey(r) : r \in Replaced(files'[y], w[1], w[2])} = Own(raw, y)
<1>1. ASSUME ActionsInvariant, NEW start, NEW end, NEW cut, NEW latest, NEW from,
             TopUp(start, end, cut, latest, from),
             NEW y \in {Year[a.ex] : a \in Answer(today, start, end) \ cut}
      PROVE  {RowKey(r) : r \in Replaced(files'[y], start, end)}
             = Own(Answer(today, start, end) \ cut, y)
  <2> DEFINE raw == Answer(today, start, end) \ cut
             fresh == Expand(raw, "api", today)
             list == InstrumentList(latest, from)
             kept == ResolveIsins(Table(files) \ Retired(start, end), list)
             rows == ResolveIsins({SeenBefore(r, start, end) : r \in fresh}, list)
             table == Merge(kept, rows)
  <2>1. WriteYears(table)
    BY <1>1 DEF TopUp
  <2>2. TypeOK /\ AreSound(Table(files)) /\ CorporateActionsAssumptions
    BY <1>1, ConstantsAreRight DEF ActionsInvariant
  <2>3. /\ AreSound(rows) /\ Covers(fresh, raw) /\ AreSound(fresh)
        /\ \A r \in rows : r.source = "api" /\ start <= r.ex /\ r.ex <= end
        /\ KeysAreIn(fresh, rows) /\ KeysAreIn(rows, fresh)
    <3>1. /\ raw \in SUBSET Answer(today, start, end) /\ fresh = Expand(raw, "api", today)
          /\ list = InstrumentList(latest, from)
          /\ rows = ResolveIsins({SeenBefore(r, start, end) : r \in fresh}, list)
      OBVIOUS
    <3> HIDE DEF raw, fresh, list, rows
    <3>2. AreSound(rows) /\ Covers(fresh, raw) /\ AreSound(fresh)
      BY <2>2, <3>1, AnswerRows
    <3>3. \A r \in rows : r.source = "api" /\ start <= r.ex /\ r.ex <= end
      BY <2>2, <3>1, AnswerRows
    <3>4. KeysAreIn(fresh, rows) /\ KeysAreIn(rows, fresh)
      BY <2>2, <3>1, AnswerRows
    <3> QED BY <3>2, <3>3, <3>4
  <2>4. AreSound(kept) /\ Replaced(kept, start, end) = {}
    BY <1>1, <2>2, KeptRows
  <2> HIDE DEF fresh, kept, rows, raw
  <2>5. \A r \in Distinct(rows) : r \in table
    BY <2>3, <2>4, DistinctRows, MergeKeeps
  <2>6. table \subseteq kept \cup rows /\ AreSound(table)
    BY <2>3, <2>4, DistinctRows DEF Merge, Added, FromApi, FromBook, AreSound
  <2> HIDE DEF table
  <2>7. ASSUME NEW r \in fresh
        PROVE  \E s \in table :
                 /\ RowKey(s) = RowKey(r) /\ s.ex = r.ex
                 /\ s.source = "api" /\ start <= s.ex /\ s.ex <= end
    <3>1. PICK s \in Distinct(rows) : RowKey(s) = RowKey(r)
      BY <2>3, DistinctRows DEF KeysAreIn
    <3>2. s \in table /\ s \in rows /\ IsSound(s) /\ IsSound(r)
      BY <2>3, <2>5, <2>6, DistinctRows DEF AreSound
    <3> QED BY <2>3, <3>1, <3>2, KeysAreActions
  <2>8. ASSUME NEW s \in Replaced(table, start, end)
        PROVE  \E r \in fresh : RowKey(s) = RowKey(r) /\ s.ex = r.ex
    <3>1. s \in rows
      BY <2>4, <2>6 DEF Replaced
    <3>2. PICK r \in fresh : RowKey(s) = RowKey(r)
      BY <2>3, <3>1 DEF KeysAreIn
    <3>3. IsSound(s) /\ IsSound(r)
      BY <2>3, <3>1 DEF AreSound
    <3> QED BY <3>2, <3>3, KeysAreActions
  <2>9. y \in Years /\ \E s \in table : Year[s.ex] = y
    <3>1. PICK a \in raw : y = Year[a.ex]
      BY DEF raw
    <3>2. a.ex \in Day /\ DOMAIN Kinds[a.purpose] # {}
      BY <2>2, <3>1 DEF CorporateActionsAssumptions, raw, Answer
    <3>3. PICK r \in fresh : r.ex = a.ex
      BY <2>3, <3>1, <3>2 DEF Covers
    <3> QED BY <2>7, <3>1, <3>2, <3>3 DEF Years
  <2>10. files'[y] = {r \in table : Year[r.ex] = y}
    BY <2>1, <2>2, <2>6, <2>9, WrittenYears
  <2>11. {RowKey(r) : r \in Replaced(files'[y], start, end)} =
         {RowKey(r) : r \in {t \in fresh : Year[t.ex] = y}}
    BY <2>7, <2>8, <2>10 DEF Replaced
  <2> QED BY <2>11 DEF fresh, raw
<1> HIDE DEF Own
<1>2. ASSUME ActionsInvariant PROVE Records
  <2>1. ASSUME NEW w \in Windows, NEW l \in Lists, NEW cut \in Cuts(w[1], w[2]),
               TopUp(w[1], w[2], cut, l[1], l[2]),
               NEW y \in {Year[a.ex] : a \in Answer(today, w[1], w[2]) \ cut}
        PROVE  {RowKey(r) : r \in Replaced(files'[y], w[1], w[2])}
               = Own(Answer(today, w[1], w[2]) \ cut, y)
    BY <1>1, <1>2, <2>1
  <2> QED BY <2>1
<1>3. ActionsInvariant /\ [Next]_vars => [Records]_vars
  BY <1>2
<1> USE DEF Own
<1> QED BY <1>3, InvariantHolds, PTL DEF Spec, TopUpIsTheRecord
=============================================================================
