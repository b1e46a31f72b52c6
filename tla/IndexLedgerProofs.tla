-------------------------- MODULE IndexLedgerProofs --------------------------
(***************************************************************************)
(* Proofs about IndexLedger, for any indices, lists and releases.          *)
(***************************************************************************)
EXTENDS IndexLedger, FiniteSetTheorems, WellFoundedInduction, TLAPS

-----------------------------------------------------------------------------
(* Sessions, and the change that names the date.                           *)

LEMMA LeastNumber ==
  ASSUME NEW T \in SUBSET Nat, T # {} PROVE \E x \in T : \A y \in T : x <= y
<1> DEFINE R == {ss \in Nat \X Nat : ss[1] < ss[2]}
<1>1. IsWellFoundedOn(R, Nat)
  BY NatLessThanWellFounded DEF OpToRel
<1> HIDE DEF R
<1>2. PICK x \in T : \A y \in T : ~(<<y, x>> \in R)
  BY <1>1, WFMin
<1>3. ASSUME NEW y \in T PROVE x <= y
  <2>1. x \in Nat /\ y \in Nat /\ ~(<<y, x>> \in R)
    BY <1>2
  <2> QED BY <2>1 DEF R
<1> QED BY <1>3

LEMMA GreatestNumber ==
  ASSUME NEW n \in Nat, NEW T \in SUBSET (0..n), T # {}
  PROVE  \E x \in T : \A y \in T : y <= x
<1> DEFINE D == {n - x : x \in T}
<1>1. D \in SUBSET Nat /\ D # {}
  <2>1. \A x \in T : n - x \in Nat
    OBVIOUS
  <2> QED BY <2>1
<1> HIDE DEF D
<1>2. PICK d \in D : \A c \in D : d <= c
  BY <1>1, LeastNumber
<1>3. PICK x \in T : d = n - x
  BY DEF D
<1>4. ASSUME NEW y \in T PROVE y <= x
  <2>1. n - y \in D
    BY DEF D
  <2>2. n - x <= n - y
    BY <1>2, <1>3, <2>1
  <2> QED BY <1>3, <2>2
<1> QED BY <1>4

LEMMA MaxIsGreatest ==
  ASSUME NEW n \in Nat, NEW T \in SUBSET (0..n), T # {}
  PROVE  Max(T) \in T /\ \A y \in T : y <= Max(T)
<1>1. PICK x \in T : \A y \in T : y <= x
  BY GreatestNumber
<1> QED BY <1>1 DEF Max

\* The days and sessions are there: the first day is one.
LEMMA Calendar ==
  ASSUME DaysAreNumbered
  PROVE  /\ Max(Day) \in Nat /\ Day \in SUBSET Nat /\ 1 \in Day /\ Min(Sessions) = 1
         /\ \A d \in Day : 1 <= d /\ d <= Max(Day)
         /\ \A d \in Nat : 1 <= d /\ d <= Max(Day) => d \in Day
<1>1. \A d \in Sessions : 1 <= d
  BY DEF DaysAreNumbered
<1>2. Min(Sessions) = 1
  <2>1. \A x \in Sessions : (\A y \in Sessions : x <= y) => x = 1
    BY <1>1 DEF DaysAreNumbered
  <2>2. 1 \in Sessions /\ \A y \in Sessions : 1 <= y
    BY <1>1 DEF DaysAreNumbered
  <2> QED BY <2>1, <2>2 DEF Min
<1> QED BY <1>2 DEF DaysAreNumbered

LEMMA DaysAreNaturals ==
  ASSUME DaysAreNumbered
  PROVE  /\ \A d \in Day \cup {0} : d \in Nat
         /\ \A s \in Sessions : s \in Nat /\ s \in Day
  BY DEF DaysAreNumbered

LEMMA SessionBefore ==
  ASSUME DaysAreNumbered, NEW d \in Day
  PROVE  /\ SessionOnOrBefore(d) \in Sessions /\ SessionOnOrBefore(d) <= d
         /\ \A s \in Sessions : s <= d => s <= SessionOnOrBefore(d)
<1> DEFINE T == {s \in Sessions : s <= d}
<1>1. d \in Nat /\ 1 <= d
  BY Calendar
<1>2. T \in SUBSET (0..d) /\ 1 \in T
  <2>1. \A s \in Sessions : s \in Nat
    BY DEF DaysAreNumbered
  <2>2. 1 \in Sessions
    BY DEF DaysAreNumbered
  <2> QED BY <1>1, <2>1, <2>2
<1>3. Max(T) \in T /\ \A y \in T : y <= Max(T)
  BY <1>1, <1>2, MaxIsGreatest
<1> QED BY <1>3 DEF SessionOnOrBefore

-----------------------------------------------------------------------------
(* The order of the changes.                                               *)

\* A finite set that a relation orders has a last element.
LEMMA LastExists ==
  ASSUME NEW S, IsFiniteSet(S), S # {}, NEW R,
         \A x, y \in S : x = y \/ <<x, y>> \in R \/ <<y, x>> \in R,
         \A x, y, z \in S : <<x, y>> \in R /\ <<y, z>> \in R => <<x, z>> \in R
  PROVE  \E c \in S : \A d \in S \ {c} : <<d, c>> \in R
<1> DEFINE HasLast(T) == \E c \in T : \A d \in T \ {c} : <<d, c>> \in R
           Bad == {T \in SUBSET S : T # {} /\ ~HasLast(T)}
           Sizes == {Cardinality(T) : T \in Bad}
<1> SUFFICES ASSUME Bad # {} PROVE FALSE
  OBVIOUS
<1>1. \A T \in SUBSET S : IsFiniteSet(T) /\ Cardinality(T) \in Nat
  BY FS_Subset, FS_CardinalityType
<1>2. Sizes \in SUBSET Nat /\ Sizes # {}
  <2> HIDE DEF Bad
  <2>1. Bad \subseteq SUBSET S
    BY DEF Bad
  <2> QED BY <1>1, <2>1
<1>3. PICK n \in Sizes : \A m \in Sizes : n <= m
  <2> HIDE DEF Sizes
  <2> QED BY <1>2, LeastNumber
<1>4. PICK T \in Bad : Cardinality(T) = n
  OBVIOUS
<1>5. PICK x \in T : TRUE
  OBVIOUS
<1> DEFINE U == T \ {x}
<1>6. U \in SUBSET S /\ Cardinality(U) < n /\ n \in Nat
  <2>1. IsFiniteSet(T) /\ Cardinality(T) \in Nat
    BY <1>1
  <2>2. IsFiniteSet(U) /\ Cardinality(U) = Cardinality(T) - 1
    BY <2>1, FS_RemoveElement
  <2> QED BY <1>4, <2>1, <2>2
<1>7. U \notin Bad
  <2> HIDE DEF Bad, U
  <2>1. U \in Bad => Cardinality(U) \in Sizes
    OBVIOUS
  <2> HIDE DEF Sizes
  <2> QED BY <1>1, <1>3, <1>6, <2>1
<1>8. CASE U = {}
  BY <1>8
<1>9. CASE HasLast(U)
  <2>1. PICK c \in U : \A d \in U \ {c} : <<d, c>> \in R
    BY <1>9
  <2>2. CASE <<x, c>> \in R
    BY <2>1, <2>2
  <2>3. CASE <<c, x>> \in R
    <3>1. \A d \in T \ {x} : d \in S /\ c \in S /\ x \in S /\ (d = c \/ <<d, c>> \in R)
      BY <2>1
    <3>2. \A d \in T \ {x} : <<d, x>> \in R
      BY <2>3, <3>1
    <3> QED BY <3>2
  <2> QED BY <2>1, <2>2, <2>3
<1> QED BY <1>6, <1>7, <1>8, <1>9

Numbered(cs) ==
  /\ IsFiniteSet(cs)
  /\ \A c \in cs : c.eff \in Nat /\ c.announced \in Nat /\ c.ref \in Nat /\ c.seq \in Nat
  /\ \A c, d \in cs : c.ref = d.ref /\ c.seq = d.seq => c = d

LEMMA ChangesAreNumbered ==
  ASSUME LedgerAssumptions, NEW session \in Sessions, NEW read \in Readings[session],
         NEW cs \in SUBSET read.changes
  PROVE  Numbered(cs)
<1>1. \A n \in 0..Human : n \in Nat
  OBVIOUS
<1> QED BY <1>1, FS_Subset DEF LedgerAssumptions, ChangesAreDated, Numbered

LEMMA BeforeIs ==
  ASSUME NEW c, NEW d
  PROVE  Before(c, d) <=>
           \/ c.eff < d.eff
           \/ c.eff = d.eff /\ c.announced < d.announced
           \/ c.eff = d.eff /\ c.announced = d.announced /\ c.ref < d.ref
           \/ c.eff = d.eff /\ c.announced = d.announced /\ c.ref = d.ref /\ c.seq < d.seq
<1> DEFINE P(n) == Rank(c)[n] < Rank(d)[n] /\ \A k \in 1..(n - 1) : Rank(c)[k] = Rank(d)[k]
<1>1. Before(c, d) <=> P(1) \/ P(2) \/ P(3) \/ P(4)
  <2>1. 1..4 = {1, 2, 3, 4}
    OBVIOUS
  <2>2. Before(c, d) <=> \E n \in {1, 2, 3, 4} : P(n)
    BY <2>1 DEF Before
  <2> HIDE DEF P
  <2> QED BY <2>2
<1>2. P(1) <=> c.eff < d.eff
  BY DEF Rank
<1>3. P(2) <=> c.eff = d.eff /\ c.announced < d.announced
  BY DEF Rank
<1>4. P(3) <=> c.eff = d.eff /\ c.announced = d.announced /\ c.ref < d.ref
  BY DEF Rank
<1>5. P(4) <=> c.eff = d.eff /\ c.announced = d.announced /\ c.ref = d.ref /\ c.seq < d.seq
  BY DEF Rank
<1> HIDE DEF P
<1> QED BY <1>1, <1>2, <1>3, <1>4, <1>5

LEMMA BeforeOrders ==
  ASSUME NEW cs, Numbered(cs)
  PROVE  /\ \A c, d \in cs : c = d \/ Before(c, d) \/ Before(d, c)
         /\ \A c, d \in cs : Before(c, d) => ~Before(d, c) /\ c # d
         /\ \A c, d, e \in cs : Before(c, d) /\ Before(d, e) => Before(c, e)
BY BeforeIs DEF Numbered

LEMMA LastAndFirst ==
  ASSUME NEW cs, Numbered(cs), cs # {}
  PROVE  /\ LastOf(cs) \in cs /\ \A d \in cs \ {LastOf(cs)} : Before(d, LastOf(cs))
         /\ FirstOf(cs) \in cs /\ \A d \in cs \ {FirstOf(cs)} : Before(FirstOf(cs), d)
<1> DEFINE R == {p \in cs \X cs : Before(p[1], p[2])}
           Q == {p \in cs \X cs : Before(p[2], p[1])}
<1>1. \A c, d \in cs : /\ <<c, d>> \in R <=> Before(c, d)
                       /\ <<c, d>> \in Q <=> Before(d, c)
  OBVIOUS
<1> HIDE DEF R, Q
<1>2. \E c \in cs : \A d \in cs \ {c} : <<d, c>> \in R
  BY <1>1, BeforeOrders, LastExists DEF Numbered
<1>3. \E c \in cs : \A d \in cs \ {c} : <<d, c>> \in Q
  BY <1>1, BeforeOrders, LastExists DEF Numbered
<1>4. \E c \in cs : \A d \in cs \ {c} : Before(d, c)
  BY <1>1, <1>2
<1>5. \E c \in cs : \A d \in cs \ {c} : Before(c, d)
  BY <1>1, <1>3
<1>6. LastOf(cs) \in cs /\ \A d \in cs \ {LastOf(cs)} : Before(d, LastOf(cs))
  BY <1>4 DEF LastOf
<1>7. FirstOf(cs) \in cs /\ \A d \in cs \ {FirstOf(cs)} : Before(FirstOf(cs), d)
  BY <1>5 DEF FirstOf
<1> QED BY <1>6, <1>7

\* _apply_announcements wants what the changes say.
LEMMA WantedIs ==
  ASSUME NEW cs, Numbered(cs), cs # {}, NEW session \in Nat
  PROVE  Wanted(cs, session) <=> HaveItIn(cs, session)
<1> DEFINE past == Past(cs, session)
<1>1. /\ \A c \in past : c \in cs /\ c.eff <= session
      /\ \A c \in cs \ past : c.eff > session
  BY DEF Past, Numbered
<1>2. CASE past # {}
  <2> DEFINE last_ == LastOf(past)
  <2>1. last_ \in past /\ \A d \in past \ {last_} : Before(d, last_)
    <3>1. Numbered(past)
      BY <1>1, FS_Subset DEF Numbered
    <3> QED BY <1>2, <3>1, LastAndFirst
  <2>2. Wanted(cs, session) <=> last_.action = INCLUDE
    BY <1>2 DEF Wanted
  <2> HIDE DEF last_, past
  <2>3. last_.action = INCLUDE => HaveItIn(cs, session)
    BY <1>1, <2>1 DEF HaveItIn
  <2>4. ASSUME NEW c \in cs, c.action = INCLUDE, c.eff <= session,
               \A d \in cs \ {c} : d.eff > session \/ Before(d, c)
        PROVE  c = last_
    <3>1. c \in past /\ ~(last_.eff > session)
      BY <1>1, <2>1, <2>4 DEF Numbered
    <3>2. c # last_ => Before(last_, c) /\ Before(c, last_)
      BY <1>1, <2>1, <2>4, <3>1
    <3> QED BY <1>1, <2>1, <3>2, BeforeOrders
  <2>5. ASSUME NEW c \in cs, c.eff > session, \A d \in cs \ {c} : Before(c, d) PROVE FALSE
    <3>1. c # last_ /\ last_ \in cs /\ last_.eff <= session
      BY <1>1, <2>1, <2>5 DEF Numbered
    <3>2. Before(c, last_)
      BY <2>5, <3>1
    <3> QED BY <2>5, <3>1, <3>2, BeforeIs DEF Numbered
  <2> QED BY <2>2, <2>3, <2>4, <2>5 DEF HaveItIn
<1>3. CASE past = {}
  <2> DEFINE first == FirstOf(cs)
  <2>1. first \in cs /\ \A d \in cs \ {first} : Before(first, d)
    BY LastAndFirst
  <2>2. Wanted(cs, session) <=> first.action # INCLUDE
    BY <1>3 DEF Wanted
  <2>3. \A c \in cs : c.eff > session /\ ~(c.eff <= session)
    BY <1>1, <1>3 DEF Numbered
  <2> HIDE DEF first, past
  <2>4. first.action # INCLUDE => HaveItIn(cs, session)
    BY <2>1, <2>3 DEF HaveItIn
  <2>5. ASSUME NEW c \in cs, \A d \in cs \ {c} : Before(c, d) PROVE c = first
    BY <2>1, <2>5, BeforeOrders
  <2> QED BY <2>2, <2>3, <2>4, <2>5 DEF HaveItIn
<1> QED BY <1>2, <1>3

-----------------------------------------------------------------------------
(* What the announced changes do to a list.                                *)

IndexList ==
  [Index -> [members: SUBSET Stock, date: Day \cup {0}, eff: Day \cup {0}, ref: Nat]]
ListedStocks(l) == (UNION {l[i].members \cup list[i].members : i \in Index}) \cup Master
Group(c, changes, l, session) == {d \in InWindow(changes, l, session) : Who(d) = Who(c)}

\* What is added and dropped, change by change.
MovesByChange(ledger, l, changes, session) ==
  /\ \A i, x : x \in Symbols(ledger.add, i) <=>
       \E c \in InWindow(changes, l, session) :
         /\ c.index = i /\ SymbolOf(Who(c), l) = x /\ x \notin l[i].members
         /\ Wanted(Group(c, changes, l, session), session) /\ x \in ListedStocks(l)
  /\ \A i, x : x \in Symbols(ledger.drop, i) <=>
       \E c \in InWindow(changes, l, session) :
         /\ c.index = i /\ SymbolOf(Who(c), l) = x /\ x \in l[i].members
         /\ ~Wanted(Group(c, changes, l, session), session)
  /\ \A c \in InWindow(changes, l, session) :
       /\ SymbolOf(Who(c), l) \notin l[c.index].members
       /\ SymbolOf(Who(c), l) \notin ListedStocks(l)
       /\ Wanted(Group(c, changes, l, session), session)
       => ledger.unresolved # {}

LEMMA LedgerMoves ==
  ASSUME NEW l, NEW changes, NEW session
  PROVE  MovesByChange(Ledger(l, changes, session), l, changes, session)
<1> DEFINE ledger == Ledger(l, changes, session)
<1> DEFINE window == InWindow(changes, l, session)
           absent(c) == SymbolOf(Who(c), l) \notin l[c.index].members
           wanted(c) == Wanted(Group(c, changes, l, session), session)
           known(c) == SymbolOf(Who(c), l) \in ListedStocks(l)
           pair(c) == <<Who(c), SymbolOf(Who(c), l)>>
<1>1. \A c : Who(c)[1] = c.index
  BY DEF Who
<1>2. /\ ledger.add = {pair(c) : c \in {d \in window : absent(d) /\ wanted(d) /\ known(d)}}
      /\ ledger.drop = {pair(c) : c \in {d \in window : ~absent(d) /\ ~wanted(d)}}
      /\ ledger.unresolved = {Who(c) : c \in {d \in window : absent(d) /\ wanted(d) /\ ~known(d)}}
  BY <1>1 DEF Ledger, Group, ListedStocks
<1> HIDE DEF ledger
<1>3. \A c : pair(c)[1][1] = c.index /\ pair(c)[2] = SymbolOf(Who(c), l)
  BY <1>1
<1> HIDE DEF pair, window
<1>4. ASSUME NEW i, NEW x
      PROVE  x \in Symbols(ledger.add, i) <=>
               \E c \in window : /\ c.index = i /\ SymbolOf(Who(c), l) = x
                                /\ absent(c) /\ wanted(c) /\ known(c)
  <2>1. x \in Symbols(ledger.add, i) <=> \E p \in ledger.add : p[1][1] = i /\ p[2] = x
    BY DEF Symbols
  <2>2. (\E p \in ledger.add : p[1][1] = i /\ p[2] = x) <=>
        \E c \in window : /\ absent(c) /\ wanted(c) /\ known(c)
                         /\ pair(c)[1][1] = i /\ pair(c)[2] = x
    <3> HIDE DEF absent, wanted, known
    <3> QED BY <1>2
  <2> QED BY <1>3, <2>1, <2>2
<1>5. ASSUME NEW i, NEW x
      PROVE  x \in Symbols(ledger.drop, i) <=>
               \E c \in window : /\ c.index = i /\ SymbolOf(Who(c), l) = x
                                /\ ~absent(c) /\ ~wanted(c)
  <2>1. x \in Symbols(ledger.drop, i) <=> \E p \in ledger.drop : p[1][1] = i /\ p[2] = x
    BY DEF Symbols
  <2>2. (\E p \in ledger.drop : p[1][1] = i /\ p[2] = x) <=>
        \E c \in window : ~absent(c) /\ ~wanted(c) /\ pair(c)[1][1] = i /\ pair(c)[2] = x
    <3> HIDE DEF absent, wanted
    <3> QED BY <1>2
  <2> QED BY <1>3, <2>1, <2>2
<1>6. ASSUME NEW c \in window, absent(c), wanted(c), ~known(c) PROVE ledger.unresolved # {}
  <2> HIDE DEF absent, wanted, known
  <2> QED BY <1>2, <1>6
<1>7. \A i, x : x \in Symbols(ledger.add, i) <=>
                 \E c \in window :
                   /\ c.index = i /\ SymbolOf(Who(c), l) = x /\ x \notin l[i].members
                   /\ Wanted(Group(c, changes, l, session), session) /\ x \in ListedStocks(l)
  BY <1>4
<1>8. \A i, x : x \in Symbols(ledger.drop, i) <=>
                 \E c \in window :
                   /\ c.index = i /\ SymbolOf(Who(c), l) = x /\ x \in l[i].members
                   /\ ~Wanted(Group(c, changes, l, session), session)
  BY <1>5
<1> QED BY <1>6, <1>7, <1>8 DEF window, ledger, MovesByChange

\* The symbol of a change is that of a stock it names.
LEMMA SymbolIsNamed ==
  ASSUME ListsAreOfStocks, NEW l, NEW c, NEW x \in Stock, x = SymbolOf(Who(c), l)
  PROVE  Names(c, x)
<1>1. x # "" /\ Who(c)[1] = c.index /\ Who(c)[2] = c.symbol
  BY DEF ListsAreOfStocks, Who
<1>2. CASE c.symbol # ""
  BY <1>1, <1>2 DEF SymbolOf, Names
<1>3. CASE c.symbol = ""
  <2> DEFINE known == {s \in l[c.index].members : Isin[s] = c.company}
             prior == {s \in list[c.index].members : Isin[s] = c.company}
  <2>1. Who(c)[3] = c.company
    BY <1>3 DEF Who
  <2>2. x \in known \/ x \in prior
    BY <1>1, <1>3, <2>1 DEF SymbolOf
  <2> QED BY <1>3, <2>2 DEF Names
<1> QED BY <1>2, <1>3

\* With one name for an issuer, a change of a stock has that stock's symbol or, of
\* a company that no list has, none.
LEMMA SymbolOfStock ==
  ASSUME ListsAreOfStocks, OneNamePerIssuer, NEW l, NEW c, NEW x \in Stock, Names(c, x),
         l[c.index].members \subseteq Stock, list[c.index].members \subseteq Stock
  PROVE  /\ SymbolOf(Who(c), l) \in {x, ""}
         /\ x \in l[c.index].members => SymbolOf(Who(c), l) = x
<1>1. Who(c)[1] = c.index /\ Who(c)[2] = c.symbol
  BY DEF Who
<1>2. CASE c.symbol # ""
  BY <1>1, <1>2 DEF SymbolOf, Names
<1>3. CASE c.symbol = ""
  <2> DEFINE known == {s \in l[c.index].members : Isin[s] = c.company}
             prior == {s \in list[c.index].members : Isin[s] = c.company}
  <2>1. Who(c)[3] = c.company /\ c.company = Isin[x]
    BY <1>3 DEF Who, Names
  <2>2. \A s \in known \cup prior : s = x
    BY <2>1 DEF OneNamePerIssuer
  <2>3. /\ known # {} => SymbolOf(Who(c), l) \in known
        /\ known = {} => SymbolOf(Who(c), l) \in prior \cup {""}
    BY <1>1, <1>3, <2>1 DEF SymbolOf
  <2>4. x \in l[c.index].members => x \in known
    BY <2>1
  <2> HIDE DEF known, prior
  <2> QED BY <2>2, <2>3, <2>4
<1> QED BY <1>2, <1>3

LEMMA AddedAreListed ==
  ASSUME ListsAreOfStocks, list \in IndexList, NEW l \in IndexList, NEW changes, NEW session,
         NEW ledger, ledger = Ledger(l, changes, session), NEW i, NEW x \in Symbols(ledger.add, i)
  PROVE  x \in Stock /\ i \in Listed(l)
<1>1. PICK c \in InWindow(changes, l, session) : c.index = i /\ x \in ListedStocks(l)
  <2>1. MovesByChange(ledger, l, changes, session)
    BY LedgerMoves
  <2> QED BY <2>1 DEF MovesByChange
<1>2. ListedStocks(l) \subseteq Stock
  BY DEF ListedStocks, IndexList, ListsAreOfStocks
<1> QED BY <1>1, <1>2 DEF InWindow

\* What is dropped has been announced to leave.
LEMMA DroppedAreTakenOut ==
  ASSUME LedgerAssumptions, NEW l \in IndexList,
         NEW session \in Sessions, NEW read \in Readings[session],
         NEW ledger, ledger = Ledger(l, read.changes, session),
         NEW i \in Index, NEW x \in Symbols(ledger.drop, i)
  PROVE  x \in l[i].members /\ x \in TakenOut(i, read, session)
<1>1. PICK c \in InWindow(read.changes, l, session) :
        /\ c.index = i /\ SymbolOf(Who(c), l) = x /\ x \in l[i].members
        /\ ~Wanted(Group(c, read.changes, l, session), session)
  <2>1. MovesByChange(ledger, l, read.changes, session)
    BY LedgerMoves
  <2> QED BY <2>1 DEF MovesByChange
<1>2. x \in Stock
  BY <1>1 DEF IndexList
<1>3. Names(c, x)
  BY <1>1, <1>2, SymbolIsNamed DEF LedgerAssumptions
<1>4. Group(c, read.changes, l, session) =
        {d \in read.changes : Timely(d, session) /\ Who(d) = Who(c)}
  <2>1. \A d : Who(d) = Who(c) => d.index = c.index
    BY DEF Who
  <2> QED BY <1>1, <2>1 DEF Group, InWindow
<1>5. ~HaveItIn(Group(c, read.changes, l, session), session)
  <2>1. Group(c, read.changes, l, session) \in SUBSET read.changes
    BY <1>4
  <2>2. c \in Group(c, read.changes, l, session)
    BY <1>1 DEF Group
  <2>3. session \in Nat
    BY DaysAreNaturals DEF LedgerAssumptions
  <2> QED BY <1>1, <2>1, <2>2, <2>3, ChangesAreNumbered, WantedIs
<1> QED BY <1>1, <1>2, <1>3, <1>4, <1>5 DEF TakenOut, InWindow

\* A change of a stock decides, and without one the stock stays where it is; a
\* stock that cannot be added leaves its change unresolved.
LEMMA LedgerDecides ==
  ASSUME ListsAreOfStocks, OneNamePerIssuer, list \in IndexList, NEW l \in IndexList,
         NEW session \in Sessions, NEW read \in Readings[session],
         NEW ledger, ledger = Ledger(l, read.changes, session), NEW i \in Listed(l),
         NEW x \in Stock, NEW said, said = About(i, x, read, session),
         NEW members,
         members = (l[i].members \ Symbols(ledger.drop, i)) \cup Symbols(ledger.add, i)
  PROVE  \/ (x \in members <=> x \in l[i].members) /\ (said # {} => ledger.unresolved # {})
         \/ said # {} /\ (x \in members <=> Wanted(said, session))
<1> DEFINE window == InWindow(read.changes, l, session)
<1>1. i \in Index /\ l[i].members \subseteq Stock /\ list[i].members \subseteq Stock
  BY DEF Listed, IndexList
<1>2. \A c : c \in said <=> c \in window /\ c.index = i /\ Names(c, x)
  BY DEF About, InWindow
<1>3. \A c, d \in said : Who(c) = Who(d)
  BY <1>2 DEF OneNamePerIssuer, InWindow
<1>4. ASSUME NEW c \in said PROVE Group(c, read.changes, l, session) = said
  <2>1. ASSUME NEW d \in window, Who(d) = Who(c) PROVE d \in said
    <3>1. d.index = c.index /\ d.symbol = c.symbol /\ (c.symbol = "" => d.company = c.company)
      BY <2>1 DEF Who
    <3> QED BY <1>2, <1>4, <2>1, <3>1 DEF Names
  <2> QED BY <1>2, <1>3, <1>4, <2>1 DEF Group
<1>5. ASSUME NEW c \in window, c.index = i, SymbolOf(Who(c), l) = x PROVE c \in said
  BY <1>2, <1>5, SymbolIsNamed
<1>6. /\ x \in Symbols(ledger.add, i) <=>
           \E c \in window :
             /\ c.index = i /\ SymbolOf(Who(c), l) = x /\ x \notin l[i].members
             /\ Wanted(Group(c, read.changes, l, session), session) /\ x \in ListedStocks(l)
      /\ x \in Symbols(ledger.drop, i) <=>
           \E c \in window :
             /\ c.index = i /\ SymbolOf(Who(c), l) = x /\ x \in l[i].members
             /\ ~Wanted(Group(c, read.changes, l, session), session)
      /\ \A c \in window :
           /\ SymbolOf(Who(c), l) \notin l[c.index].members
           /\ SymbolOf(Who(c), l) \notin ListedStocks(l)
           /\ Wanted(Group(c, read.changes, l, session), session)
           => ledger.unresolved # {}
  <2>1. MovesByChange(ledger, l, read.changes, session)
    BY LedgerMoves
  <2> QED BY <2>1 DEF MovesByChange
<1>7. /\ x \in Symbols(ledger.add, i) =>
           said # {} /\ x \notin l[i].members /\ Wanted(said, session)
      /\ x \in Symbols(ledger.drop, i) =>
           said # {} /\ x \in l[i].members /\ ~Wanted(said, session)
  BY <1>4, <1>5, <1>6
<1>8. CASE said = {}
  BY <1>7, <1>8
<1>9. CASE said # {}
  <2>1. PICK c \in said : TRUE
    BY <1>9
  <2>2. c \in window /\ c.index = i /\ Names(c, x) /\ Group(c, read.changes, l, session) = said
    BY <1>2, <1>4
  <2>3. /\ SymbolOf(Who(c), l) \in {x, ""}
        /\ x \in l[i].members => SymbolOf(Who(c), l) = x
    BY <1>1, <2>2, SymbolOfStock
  <2>4. CASE Wanted(said, session)
    <3>1. CASE x \in l[i].members
      BY <1>7, <1>9, <2>4, <3>1
    <3>2. CASE x \notin l[i].members
      <4>1. SymbolOf(Who(c), l) \notin l[i].members
        BY <1>1, <2>3, <3>2 DEF ListsAreOfStocks
      <4>2. CASE SymbolOf(Who(c), l) \in ListedStocks(l)
        <5>1. "" \notin ListedStocks(l)
          BY DEF ListedStocks, IndexList, ListsAreOfStocks
        <5>2. x \in Symbols(ledger.add, i)
          BY <1>6, <2>2, <2>3, <2>4, <3>2, <4>2, <5>1
        <5> QED BY <1>9, <2>4, <5>2
      <4>3. CASE SymbolOf(Who(c), l) \notin ListedStocks(l)
        <5>1. ledger.unresolved # {}
          BY <1>6, <2>2, <2>4, <4>1, <4>3
        <5> QED BY <1>7, <1>9, <2>4, <3>2, <5>1
      <4> QED BY <4>2, <4>3
    <3> QED BY <3>1, <3>2
  <2>5. CASE ~Wanted(said, session)
    <3>1. x \in l[i].members => x \in Symbols(ledger.drop, i)
      BY <1>6, <2>2, <2>3, <2>5
    <3>2. x \notin members
      BY <1>7, <2>5, <3>1
    <3> QED BY <1>9, <2>5, <3>2
  <2> QED BY <2>4, <2>5
<1> QED BY <1>8, <1>9

\* The change in force that dates a list is one of them.
LEMMA AnnouncedIsOne ==
  ASSUME DaysAreNumbered, NEW n \in Nat, NEW cs, cs # {},
         \A c \in cs : c.eff \in 0..n /\ c.announced \in 0..Human
  PROVE  Announced(cs) \in cs
<1>1. Human \in Nat
  BY Calendar DEF Human
<1> DEFINE Effs == {c.eff : c \in cs}
<1>2. Effs \in SUBSET (0..n) /\ Effs # {}
  OBVIOUS
<1> HIDE DEF Effs
<1>3. PICK e \in Effs : \A f \in Effs : f <= e
  BY <1>2, GreatestNumber
<1> DEFINE Latest == {c \in cs : c.eff = e}
           Days == {c.announced : c \in Latest}
<1>4. Latest # {} /\ Latest \subseteq cs
  BY DEF Effs
<1>5. Days \in SUBSET (0..Human) /\ Days # {}
  <2> HIDE DEF Latest
  <2> QED BY <1>4
<1> HIDE DEF Days
<1>6. PICK a \in Days : \A b \in Days : b <= a
  BY <1>1, <1>5, GreatestNumber
<1>7. PICK c \in Latest : c.announced = a
  BY DEF Days
<1>8. ASSUME NEW d \in cs PROVE d.eff < c.eff \/ (d.eff = c.eff /\ d.announced <= c.announced)
  <2>1. d.eff <= e /\ d.eff \in Nat /\ e \in Nat
    BY <1>2, <1>3 DEF Effs
  <2>2. d.eff = e => d.announced <= a
    BY <1>6 DEF Days
  <2> QED BY <1>7, <2>1, <2>2
<1>9. \A c1 \in cs : (\A d \in cs : \/ d.eff < c1.eff
                                    \/ d.eff = c1.eff /\ d.announced <= c1.announced)
        => Announced(cs) \in cs
  BY DEF Announced
<1>10. c \in cs
  BY <1>7
<1> QED BY <1>8, <1>9, <1>10

-----------------------------------------------------------------------------
(* What a run writes.                                                      *)

After(l, ledger, i) == (l[i].members \ Symbols(ledger.drop, i)) \cup Symbols(ledger.add, i)

LEMMA ServedLists ==
  ASSUME LedgerAssumptions, today \in Day, NEW served \in Fetches, NEW i \in Index
  PROVE  /\ Baskets(served)[i] \in SUBSET Stock /\ DaysShown(served)[i] \in Day \cup {0}
         /\ DaysShown(served)[i] # 0 => Baskets(served)[i] = Membership[i][DaysShown(served)[i]]
<1>1. \A e \in Day : e # 0 /\ Membership[i][e] \in SUBSET Stock
  <2>1. \A e \in Day : e # 0
    BY Calendar DEF LedgerAssumptions
  <2>2. Membership \in [Index -> [Day -> SUBSET Stock]]
    BY DEF LedgerAssumptions, ListsAreOfStocks
  <2> QED BY <2>1, <2>2
<1>2. Shows(today) \subseteq Day
  BY DEF Shows
<1> DEFINE whole(e) == [j \in Index |-> <<e, Membership[j][e]>>]
           short(j) == {<<0, b>> : b \in {{}} \cup Truncated(Membership[j][today])}
<1>3. \/ \E e \in Day : served[i] = <<e, Membership[i][e]>>
      \/ served[i] = <<0, {}>>
      \/ \E b \in SUBSET Membership[i][today] : served[i] = <<0, b>>
  <2>1. \/ \E e \in Shows(today) : served = whole(e)
        \/ served = [j \in Index |-> <<0, {}>>]
        \/ \E j \in Index : \E cut \in short(j) : served = [whole(today) EXCEPT ![j] = cut]
    BY DEF Fetches
  <2>2. CASE \E e \in Shows(today) : served = whole(e)
    BY <1>2, <2>2
  <2>3. CASE served = [j \in Index |-> <<0, {}>>]
    BY <2>3
  <2>4. ASSUME NEW j \in Index, NEW cut \in short(j), served = [whole(today) EXCEPT ![j] = cut]
        PROVE  \/ served[i] = <<today, Membership[i][today]>>
               \/ \E b \in SUBSET Membership[i][today] : served[i] = <<0, b>>
    <3>1. PICK b \in SUBSET Membership[j][today] : cut = <<0, b>>
      BY DEF Truncated
    <3> QED BY <2>4, <3>1
  <2> QED BY <2>1, <2>2, <2>3, <2>4
<1>4. Baskets(served)[i] = served[i][2] /\ DaysShown(served)[i] = served[i][1]
  BY DEF Baskets, DaysShown
<1> QED BY <1>1, <1>3, <1>4

LEMMA CarriedList ==
  ASSUME list \in IndexList, NEW session \in Day, NEW baskets,
         \A i \in Index : baskets[i] \in SUBSET Stock, NEW l, l = Carried(baskets, session)
  PROVE  /\ l \in IndexList
         /\ \A i \in Usable(baskets) : l[i].members = baskets[i] /\ l[i].date = session
         /\ \A i \in Index \ Usable(baskets) : l[i] = list[i]
<1> DEFINE row(i) == [list[i] EXCEPT !.members = baskets[i], !.date = session]
<1>1. l = [i \in Index |-> IF i \in Usable(baskets) THEN row(i) ELSE list[i]]
  BY DEF Carried
<1>2. ASSUME NEW i \in Index
      PROVE  /\ row(i) \in [members: SUBSET Stock, date: Day \cup {0}, eff: Day \cup {0}, ref: Nat]
             /\ row(i).members = baskets[i] /\ row(i).date = session
  BY DEF IndexList
<1>3. Usable(baskets) \subseteq Index
  BY DEF Usable
<1> HIDE DEF row
<1> QED BY <1>1, <1>2, <1>3 DEF IndexList

LEMMA CorrectedList ==
  ASSUME LedgerAssumptions, list \in IndexList, NEW l \in IndexList, NEW session \in Sessions,
         NEW read \in Readings[session], NEW ledger, ledger = Ledger(l, read.changes, session),
         NEW new, new = Corrected(l, ledger)
  PROVE  /\ new \in IndexList
         /\ \A i \in Index : new[i].members = After(l, ledger, i)
         /\ \A i \in Listed(new) : i \in Listed(l) /\ new[i].date = l[i].date
<1>1. ASSUME NEW i \in Index
      PROVE  /\ new[i] \in [members: SUBSET Stock, date: Day \cup {0}, eff: Day \cup {0}, ref: Nat]
             /\ new[i].members = After(l, ledger, i)
             /\ new[i].members # {} => i \in Listed(l) /\ new[i].date = l[i].date
  <2> DEFINE members == After(l, ledger, i)
             force == ledger.in_force[i]
  <2>1. new[i] = IF members = {} THEN NotListed
                 ELSE IF force = {} THEN [l[i] EXCEPT !.members = members]
                 ELSE [members |-> members, date |-> l[i].date,
                       eff |-> Announced(force).eff, ref |-> Announced(force).ref]
    BY DEF Corrected, After
  <2>2. members \in SUBSET Stock /\ (members # {} => i \in Listed(l))
    <3>1. l[i].members \in SUBSET Stock /\ (l[i].members # {} => i \in Listed(l))
      BY DEF IndexList, Listed
    <3>2. \A x \in Symbols(ledger.add, i) : x \in Stock /\ i \in Listed(l)
      BY AddedAreListed DEF LedgerAssumptions
    <3> QED BY <3>1, <3>2 DEF After
  <2>3. ASSUME force # {} PROVE Announced(force).eff \in Day \cup {0} /\ Announced(force).ref \in Nat
    <3>1. force = {c \in Past(InWindow(read.changes, l, session), session) : c.index = i}
      BY DEF Ledger
    <3>2. \A c \in force : c \in read.changes /\ c.eff <= session
      BY <3>1 DEF Past, InWindow
    <3>3. session \in Nat /\ session \in Day
      BY Calendar DEF LedgerAssumptions, DaysAreNumbered
    <3>4. \A c \in force : c.eff \in 0..session /\ c.announced \in 0..Human /\ c.ref \in Nat
      BY <3>2, <3>3 DEF LedgerAssumptions, ChangesAreDated
    <3> HIDE DEF force
    <3>5. Announced(force) \in force
      BY <2>3, <3>3, <3>4, AnnouncedIsOne DEF LedgerAssumptions
    <3>6. 0..session \subseteq Day \cup {0}
      BY <3>3, Calendar DEF LedgerAssumptions
    <3> QED BY <3>4, <3>5, <3>6
  <2>4. l[i] \in [members: SUBSET Stock, date: Day \cup {0}, eff: Day \cup {0}, ref: Nat]
    BY DEF IndexList
  <2> DEFINE Rows == [members: SUBSET Stock, date: Day \cup {0}, eff: Day \cup {0}, ref: Nat]
  <2> SUFFICES /\ new[i] \in Rows
               /\ new[i].members = members
               /\ new[i].members # {} => i \in Listed(l) /\ new[i].date = l[i].date
    OBVIOUS
  <2> HIDE DEF members, force
  <2>5. CASE members = {}
    <3>1. new[i] = NotListed
      BY <2>1, <2>5
    <3>2. NotListed \in Rows /\ NotListed.members = {}
      BY DEF NotListed
    <3> QED BY <2>5, <3>1, <3>2
  <2>6. CASE members # {} /\ force = {}
    <3> DEFINE row == [l[i] EXCEPT !.members = members]
    <3>1. new[i] = row
      BY <2>1, <2>6
    <3>2. row \in Rows /\ row.members = members /\ row.date = l[i].date
      BY <2>2, <2>4
    <3> HIDE DEF row
    <3> QED BY <2>2, <3>1, <3>2
  <2>7. CASE members # {} /\ force # {}
    <3> DEFINE row == [members |-> members, date |-> l[i].date,
                       eff |-> Announced(force).eff, ref |-> Announced(force).ref]
    <3>1. new[i] = row
      BY <2>1, <2>7
    <3>2. row \in Rows /\ row.members = members /\ row.date = l[i].date
      BY <2>2, <2>3, <2>4, <2>7
    <3> HIDE DEF row
    <3> QED BY <2>2, <3>1, <3>2
  <2> QED BY <2>5, <2>6, <2>7
<1>2. new = [i \in Index |-> new[i]]
  BY DEF Corrected
<1> QED BY <1>1, <1>2 DEF IndexList, Listed

LEMMA AddedPairs ==
  ASSUME NEW l, NEW changes, NEW session, NEW ledger, ledger = Ledger(l, changes, session),
         NEW p \in ledger.add
  PROVE  /\ \E c \in InWindow(changes, l, session) :
              p = <<Who(c), SymbolOf(Who(c), l)>> /\ p[2] \notin l[c.index].members
         /\ p = <<p[1], p[2]>>
<1> DEFINE window == InWindow(changes, l, session)
           absent(c) == SymbolOf(Who(c), l) \notin l[c.index].members
           wanted(c) == Wanted(Group(c, changes, l, session), session)
           known(c) == SymbolOf(Who(c), l) \in ListedStocks(l)
           pair(c) == <<Who(c), SymbolOf(Who(c), l)>>
<1>1. \A c : Who(c)[1] = c.index
  BY DEF Who
<1>2. ledger.add = {pair(c) : c \in {d \in window : absent(d) /\ wanted(d) /\ known(d)}}
  BY <1>1 DEF Ledger, Group, ListedStocks
<1> HIDE DEF wanted, known, window
<1>3. PICK c \in window : absent(c) /\ p = pair(c)
  BY <1>2
<1> QED BY <1>3 DEF window

\* With one name for an issuer no list has two rows of one.
LEMMA NoDuplicates ==
  ASSUME ListsAreOfStocks, OneNamePerIssuer, list \in IndexList, NEW l \in IndexList,
         NEW session \in Sessions, NEW read \in Readings[session],
         NEW ledger, ledger = Ledger(l, read.changes, session)
  PROVE  ~Duplicates(l, ledger)
<1>1. \A s, t \in Stock : Isin[s] = Isin[t] => s = t
  BY DEF OneNamePerIssuer
<1>2. /\ \A p \in ledger.add : \E c \in InWindow(read.changes, l, session) :
           p = <<Who(c), SymbolOf(Who(c), l)>> /\ p[2] \notin l[c.index].members
      /\ \A p \in ledger.add : p = <<p[1], p[2]>>
  BY AddedPairs
<1>3. ASSUME NEW i \in Index, NEW a \in ledger.add, a[1][1] = i
      PROVE  /\ a[2] \in Stock /\ a[2] \notin l[i].members
             /\ \E c \in read.changes : c.index = i /\ Names(c, a[2]) /\ a[1] = Who(c)
  <2>1. a[2] \in Symbols(ledger.add, i)
    BY <1>3 DEF Symbols
  <2>2. a[2] \in Stock
    BY <2>1, AddedAreListed
  <2>3. PICK c \in InWindow(read.changes, l, session) :
          a = <<Who(c), SymbolOf(Who(c), l)>> /\ a[2] \notin l[c.index].members
    BY <1>2
  <2>4. a[1] = Who(c) /\ a[2] = SymbolOf(Who(c), l) /\ Who(c)[1] = c.index
    BY <2>3 DEF Who
  <2>5. c.index = i
    BY <1>3, <2>4
  <2> QED BY <2>2, <2>3, <2>4, <2>5, SymbolIsNamed DEF InWindow
<1>4. ASSUME NEW i \in Index, NEW a \in ledger.add, NEW b \in ledger.add,
             a[1][1] = i, b[1][1] = i, Isin[a[2]] = Isin[b[2]]
      PROVE  a = b
  <2>1. a[2] = b[2]
    BY <1>1, <1>3, <1>4
  <2>2. a[1] = b[1]
    BY <1>3, <1>4, <2>1 DEF OneNamePerIssuer
  <2> QED BY <1>2, <2>1, <2>2
<1>5. \A i \in Index : l[i].members \subseteq Stock
  BY DEF IndexList
<1> QED BY <1>1, <1>3, <1>4, <1>5 DEF Duplicates

-----------------------------------------------------------------------------
(* What a run does.                                                        *)

\* The runs that write nothing.
KeepsTheList(session, status) ==
  UNCHANGED <<list, shown>> /\ last' = [status |-> status, session |-> session, complete |-> FALSE]

\* The run that writes the list l with the ledger's changes.
Writes(session, served, read, l, ledger, status, complete) ==
  /\ l = Carried(Baskets(served), session) /\ ledger = Ledger(l, read.changes, session)
  /\ list' = Corrected(l, ledger)
  /\ shown' = [i \in Index |-> IF i \in Usable(Baskets(served)) THEN DaysShown(served)[i]
                                                               ELSE shown[i]]
  /\ status \in {"success", "failed"} /\ (status = "success" => Stale(list', session) = {})
  /\ complete \in BOOLEAN
  /\ complete => ~read.unavailable /\ read.unparsed = {} /\ ledger.unresolved = {}
  /\ last' = [status |-> status, session |-> session, complete |-> complete]

\* A run keeps the list, because it is back-dated, for a duplicate, or because there
\* is nothing to write (and then it is red or the list is not stale), or it writes.
RunResult(session) ==
  \/ KeepsTheList(session, "failed")
  \/ /\ KeepsTheList(session, "skipped_idempotent")
     /\ \/ \E i \in Listed(list) : list[i].date > session
        \/ Stale(list, session) = {}
        \/ \E read \in Readings[session], l \in IndexList :
             Duplicates(l, Ledger(l, read.changes, session))
  \/ /\ \A i \in Listed(list) : list[i].date <= session
     /\ \E served \in Fetches, read \in Readings[session] : \E l, ledger, status, complete :
          Writes(session, served, read, l, ledger, status, complete)

LEMMA BuildDoes ==
  ASSUME LedgerAssumptions, list \in IndexList, today \in Day, NEW target \in Day,
         NEW session \in Sessions, session = SessionOnOrBefore(target),
         NEW served \in Fetches, NEW read \in Readings[session],
         Build(target, Baskets(served), DaysShown(served), read)
  PROVE  today' = today /\ RunResult(session)
<1> DEFINE l == Carried(Baskets(served), session)
           ledger == Ledger(l, read.changes, session)
           complete == ~read.unavailable /\ read.unparsed = {} /\ ledger.unresolved = {}
<1>1. l \in IndexList
  <2>1. session \in Day /\ \A i \in Index : Baskets(served)[i] \in SUBSET Stock
    BY ServedLists DEF LedgerAssumptions, DaysAreNumbered
  <2> QED BY <2>1, CarriedList
<1>2. /\ NotBackDated(target)
      /\ \/ Keep(session, read.unparsed)
         \/ Duplicates(l, ledger) /\ KeepForDuplicates(session)
         \/ Write(session, l, ledger, read.unparsed,
                  [i \in Index |-> IF i \in Usable(Baskets(served)) THEN DaysShown(served)[i]
                                                                   ELSE shown[i]], complete)
  BY DEF Build
<1>3. \A i \in Listed(list) : list[i].date <= session
  BY <1>2 DEF NotBackDated
<1> HIDE DEF l
<1>4. CASE Keep(session, read.unparsed)
  <2>1. UNCHANGED <<today, list, shown>>
    BY <1>4 DEF Keep
  <2>2. CASE Stale(list, session) # {} \/ read.unparsed # {}
    BY <1>4, <2>1, <2>2 DEF Keep, Status, KeepsTheList, RunResult
  <2>3. CASE ~(Stale(list, session) # {} \/ read.unparsed # {})
    BY <1>4, <2>1, <2>3 DEF Keep, Status, KeepsTheList, RunResult
  <2> QED BY <2>2, <2>3
<1>5. CASE Duplicates(l, ledger) /\ KeepForDuplicates(session)
  <2>1. UNCHANGED <<today, list, shown>>
    BY <1>5 DEF KeepForDuplicates
  <2>2. \/ KeepsTheList(session, "failed")
        \/ KeepsTheList(session, "skipped_idempotent")
    BY <1>5, <2>1 DEF KeepForDuplicates, Status, KeepsTheList
  <2>3. \E r \in Readings[session], m \in IndexList :
          Duplicates(m, Ledger(m, r.changes, session))
    BY <1>1, <1>5
  <2> QED BY <2>1, <2>2, <2>3 DEF RunResult
<1>6. CASE Write(session, l, ledger, read.unparsed,
                 [i \in Index |-> IF i \in Usable(Baskets(served)) THEN DaysShown(served)[i]
                                                                  ELSE shown[i]], complete)
  <2>1. complete \in BOOLEAN
    OBVIOUS
  <2> DEFINE bad == Stale(list', session) # {} \/ read.unparsed # {}
             status == IF bad THEN "failed" ELSE "success"
  <2>2. last' = [status |-> status, session |-> session, complete |-> complete]
    BY <1>6 DEF Write, Status
  <2>3. status \in {"success", "failed"} /\ (status = "success" => Stale(list', session) = {})
    OBVIOUS
  <2>4. complete => ~read.unavailable /\ read.unparsed = {} /\ ledger.unresolved = {}
    OBVIOUS
  <2> HIDE DEF status, complete
  <2>5. Writes(session, served, read, l, ledger, status, complete)
    BY <1>6, <2>1, <2>2, <2>3, <2>4 DEF Write, Writes, l
  <2>6. \E st, co : Writes(session, served, read, l, ledger, st, co)
    BY <2>5
  <2> QED BY <1>3, <1>6, <2>6 DEF Write, RunResult
<1> QED BY <1>2, <1>4, <1>5, <1>6

LEMMA RunDoes ==
  ASSUME LedgerAssumptions, list \in IndexList, today \in Day,
         NEW target \in {today, today - 1} \ {0}, Run(target)
  PROVE  /\ today' = today /\ target \in Day /\ SessionOnOrBefore(target) \in Sessions
         /\ RunResult(SessionOnOrBefore(target))
<1> DEFINE session == SessionOnOrBefore(target)
<1>1. target \in Day
  BY Calendar DEF LedgerAssumptions
<1>2. session \in Sessions
  BY <1>1, SessionBefore DEF LedgerAssumptions
<1>3. CASE BackDated(target)
  BY <1>1, <1>2, <1>3 DEF BackDated, Status, KeepsTheList, RunResult
<1>4. CASE \E served \in Fetches : FirstRunFails(target, Baskets(served))
  BY <1>1, <1>2, <1>4 DEF FirstRunFails, Status, KeepsTheList, RunResult
<1>5. CASE \E read \in Readings[session], served \in Fetches :
             Build(target, Baskets(served), DaysShown(served), read)
  <2> HIDE DEF session
  <2>1. PICK read \in Readings[session], served \in Fetches :
          Build(target, Baskets(served), DaysShown(served), read)
    BY <1>5
  <2> QED BY <1>1, <1>2, <2>1, BuildDoes DEF session
<1> QED BY <1>3, <1>4, <1>5 DEF Run

\* What a writing run leaves, index by index.
LEMMA WrittenList ==
  ASSUME LedgerAssumptions, list \in IndexList, shown \in [Index -> Day \cup {0}], today \in Day,
         NEW session \in Sessions, NEW served \in Fetches, NEW read \in Readings[session],
         NEW l, NEW ledger, NEW status, NEW complete,
         Writes(session, served, read, l, ledger, status, complete)
  PROVE  /\ l \in IndexList /\ list' \in IndexList /\ shown' \in [Index -> Day \cup {0}]
         /\ \A i \in Index : list'[i].members = After(l, ledger, i)
         /\ \A i \in Listed(list') : i \in Listed(l) /\ list'[i].date = l[i].date
         /\ \A i \in Index \ Usable(Baskets(served)) : l[i] = list[i] /\ shown'[i] = shown[i]
         /\ \A i \in Usable(Baskets(served)) :
              /\ i \in Index /\ ~Held(i, Baskets(served)[i])
              /\ l[i].members = Baskets(served)[i] /\ l[i].date = session
              /\ shown'[i] = DaysShown(served)[i]
<1>1. session \in Day
  BY DEF LedgerAssumptions, DaysAreNumbered
<1>2. \A i \in Index : /\ Baskets(served)[i] \in SUBSET Stock
                       /\ DaysShown(served)[i] \in Day \cup {0}
  BY ServedLists
<1>3. /\ l \in IndexList
      /\ \A i \in Usable(Baskets(served)) :
           l[i].members = Baskets(served)[i] /\ l[i].date = session
      /\ \A i \in Index \ Usable(Baskets(served)) : l[i] = list[i]
  BY <1>1, <1>2, CarriedList DEF Writes
<1>4. /\ list' \in IndexList
      /\ \A i \in Index : list'[i].members = After(l, ledger, i)
      /\ \A i \in Listed(list') : i \in Listed(l) /\ list'[i].date = l[i].date
  BY <1>3, CorrectedList DEF Writes
<1>5. \A i \in Usable(Baskets(served)) : i \in Index /\ ~Held(i, Baskets(served)[i])
  BY DEF Usable
<1>6. shown' = [i \in Index |-> IF i \in Usable(Baskets(served)) THEN DaysShown(served)[i]
                                                                ELSE shown[i]]
  BY DEF Writes
<1>7. shown' \in [Index -> Day \cup {0}]
  BY <1>2, <1>6
<1> QED BY <1>3, <1>4, <1>5, <1>6, <1>7

-----------------------------------------------------------------------------
(* The types.                                                              *)

LEMMA TypesAreKept ==
  ASSUME LedgerAssumptions, LedgerTypeOK, [LedgerNext]_ledgerVars PROVE LedgerTypeOK'
<1>1. list \in IndexList /\ shown \in [Index -> Day \cup {0}] /\ today \in Day
  BY DEF LedgerTypeOK, IndexList
<1>2. CASE UNCHANGED ledgerVars
  BY <1>2 DEF ledgerVars, LedgerTypeOK
<1>3. CASE NextDay
  <2>1. today + 1 \in Day
    BY <1>1, <1>3, Calendar DEF NextDay, LedgerAssumptions
  <2> QED BY <1>3, <2>1 DEF NextDay, LedgerTypeOK
<1>4. ASSUME NEW target \in {today, today - 1} \ {0}, Run(target) PROVE LedgerTypeOK'
  <2> DEFINE session == SessionOnOrBefore(target)
  <2>1. today' = today /\ session \in Sessions /\ RunResult(session)
    BY <1>1, <1>4, RunDoes
  <2> HIDE DEF session
  <2>2. ASSUME NEW status \in {"skipped_idempotent", "failed"}, KeepsTheList(session, status)
        PROVE  LedgerTypeOK'
    <3>1. last'.status = status /\ last'.session = session /\ last'.complete = FALSE
      BY <2>2 DEF KeepsTheList
    <3> QED BY <2>1, <2>2, <3>1 DEF KeepsTheList, LedgerTypeOK
  <2>3. ASSUME NEW served \in Fetches, NEW read \in Readings[session], NEW l, NEW ledger,
               NEW status, NEW complete,
               Writes(session, served, read, l, ledger, status, complete)
        PROVE  LedgerTypeOK'
    <3>1. list' \in IndexList /\ shown' \in [Index -> Day \cup {0}]
      BY <1>1, <2>1, <2>3, WrittenList
    <3>2. /\ last'.status = status /\ last'.session = session /\ last'.complete = complete
          /\ status \in {"success", "failed"} /\ complete \in BOOLEAN
      BY <2>3 DEF Writes
    <3> QED BY <1>1, <2>1, <3>1, <3>2 DEF LedgerTypeOK, IndexList
  <2> QED BY <2>1, <2>2, <2>3 DEF RunResult
<1> QED BY <1>2, <1>3, <1>4 DEF LedgerNext

\* A list has stocks, with the session it was read at and the change in force.
THEOREM LedgerTypesHold == LedgerSpec => []LedgerTypeOK
<1>1. LedgerInit => LedgerTypeOK
  <2>1. Min(Sessions) \in Day
    BY LedgerConstants, Calendar DEF LedgerAssumptions
  <2> QED BY <2>1 DEF LedgerInit, LedgerTypeOK, NotListed, NeverRan
<1>2. LedgerTypeOK /\ [LedgerNext]_ledgerVars => LedgerTypeOK'
  BY LedgerConstants, TypesAreKept
<1> QED BY <1>1, <1>2, PTL DEF LedgerSpec

-----------------------------------------------------------------------------
(* An index stays.                                                         *)

\* A run that writes moves no index back, and loses one only to announcements.
LEMMA WritingKeepsIndices ==
  ASSUME LedgerAssumptions, LedgerTypeOK, NEW session \in Sessions, NEW served \in Fetches,
         NEW read \in Readings[session], NEW l, NEW ledger, NEW status, NEW complete,
         Writes(session, served, read, l, ledger, status, complete),
         NEW i \in Listed(list), list[i].date <= session
  PROVE  IF i \in Listed(list') THEN list'[i].date >= list[i].date
         ELSE \/ list[i].members \subseteq TakenOut(i, read, session)
              \/ Cardinality(TakenOut(i, read, session)) >= MinMembers
<1>1. list \in IndexList /\ shown \in [Index -> Day \cup {0}] /\ today \in Day
  BY DEF LedgerTypeOK, IndexList
<1>2. i \in Index /\ session \in Nat /\ list[i].date \in Nat
  <2>1. i \in Index /\ list[i].date \in Day \cup {0}
    BY <1>1 DEF Listed, IndexList
  <2>2. Day \in SUBSET Nat /\ Sessions \subseteq Day
    BY Calendar DEF LedgerAssumptions, DaysAreNumbered
  <2> QED BY <2>1, <2>2
<1>3. /\ l \in IndexList
      /\ \A j \in Index : list'[j].members = After(l, ledger, j)
      /\ \A j \in Listed(list') : list'[j].date = l[j].date
      /\ \A j \in Index \ Usable(Baskets(served)) : l[j] = list[j]
      /\ \A j \in Usable(Baskets(served)) :
           /\ ~Held(j, Baskets(served)[j])
           /\ l[j].members = Baskets(served)[j] /\ l[j].date = session
  BY <1>1, WrittenList
<1>4. CASE i \in Listed(list')
  <2>1. l[i].date = session \/ l[i].date = list[i].date
    BY <1>2, <1>3
  <2> QED BY <1>2, <1>3, <1>4, <2>1
<1>5. CASE i \notin Listed(list')
  <2>1. After(l, ledger, i) = {}
    BY <1>2, <1>3, <1>5 DEF Listed
  <2>2. l[i].members \subseteq Symbols(ledger.drop, i)
    BY <2>1 DEF After
  <2>3. l[i].members \subseteq TakenOut(i, read, session)
    <3>1. ledger = Ledger(l, read.changes, session)
      BY DEF Writes
    <3> QED BY <1>2, <1>3, <2>2, <3>1, DroppedAreTakenOut DEF LedgerAssumptions
  <2>4. CASE i \in Usable(Baskets(served))
    <3>1. Cardinality(l[i].members) >= MinMembers
      <4>1. ~(Cardinality(Baskets(served)[i]) < MinMembers)
        BY <1>3, <2>4 DEF Held
      <4>2. IsFiniteSet(l[i].members)
        BY <1>2, <1>3, FS_Subset DEF IndexList, LedgerAssumptions, ListsAreOfStocks
      <4>3. Cardinality(l[i].members) \in Nat /\ MinMembers \in Nat
        BY <4>2, FS_CardinalityType DEF LedgerAssumptions, ListsAreOfStocks
      <4> QED BY <1>3, <2>4, <4>1, <4>3
    <3>2. IsFiniteSet(TakenOut(i, read, session))
      BY FS_Subset DEF TakenOut, LedgerAssumptions, ListsAreOfStocks
    <3>3. /\ IsFiniteSet(l[i].members)
          /\ Cardinality(l[i].members) <= Cardinality(TakenOut(i, read, session))
      BY <2>3, <3>2, FS_Subset
    <3>4. /\ Cardinality(l[i].members) \in Nat /\ MinMembers \in Nat
          /\ Cardinality(TakenOut(i, read, session)) \in Nat
      BY <3>2, <3>3, FS_CardinalityType DEF LedgerAssumptions, ListsAreOfStocks
    <3>5. Cardinality(TakenOut(i, read, session)) >= MinMembers
      BY <3>1, <3>3, <3>4
    <3> QED BY <1>5, <3>5
  <2>5. CASE i \notin Usable(Baskets(served))
    BY <1>2, <1>3, <1>5, <2>3, <2>5
  <2> QED BY <2>4, <2>5
<1> QED BY <1>4, <1>5

\* No list goes back to an older session, and an index goes only when what NSE
\* announced takes its members out, for any lists and announcements.
THEOREM IndicesStay == LedgerSpec => IndicesAreKept
<1> DEFINE Kept(i) ==
      IF i \in Listed(list') THEN list'[i].date >= list[i].date
      ELSE \E read \in Readings[last'.session] :
             LET out == TakenOut(i, read, last'.session)
             IN  list[i].members \subseteq out \/ Cardinality(out) >= MinMembers
<1>1. ASSUME LedgerTypeOK, LedgerNext, NEW i \in Listed(list) PROVE Kept(i)
  <2>1. list \in IndexList /\ shown \in [Index -> Day \cup {0}] /\ today \in Day
    BY <1>1 DEF LedgerTypeOK, IndexList
  <2>2. ASSUME list' = list PROVE Kept(i)
    <3>1. list[i].date \in Nat
      BY <2>1, LedgerConstants, Calendar DEF LedgerAssumptions, Listed, IndexList
    <3> QED BY <2>2, <3>1
  <2>3. ASSUME NEW target \in {today, today - 1} \ {0}, Run(target), list' # list PROVE Kept(i)
    <3> DEFINE session == SessionOnOrBefore(target)
    <3>1. session \in Sessions /\ RunResult(session)
      BY <2>1, <2>3, RunDoes, LedgerConstants
    <3> HIDE DEF session
    <3>2. list[i].date <= session
      BY <2>3, <3>1 DEF RunResult, KeepsTheList
    <3>3. PICK served \in Fetches, read \in Readings[session] :
            \E l, ledger, status, complete :
              Writes(session, served, read, l, ledger, status, complete)
      BY <2>3, <3>1 DEF RunResult, KeepsTheList
    <3>4. PICK l, ledger, status, complete :
            Writes(session, served, read, l, ledger, status, complete)
      BY <3>3
    <3>5. last'.session = session
      BY <3>4 DEF Writes
    <3>6. IF i \in Listed(list') THEN list'[i].date >= list[i].date
          ELSE \/ list[i].members \subseteq TakenOut(i, read, session)
               \/ Cardinality(TakenOut(i, read, session)) >= MinMembers
      BY <1>1, <3>1, <3>2, <3>4, WritingKeepsIndices, LedgerConstants
    <3> QED BY <3>5, <3>6
  <2> QED BY <1>1, <2>2, <2>3 DEF LedgerNext, NextDay
<1>2. LedgerTypeOK /\ [LedgerNext]_ledgerVars => [\A i \in Listed(list) : Kept(i)]_ledgerVars
  BY <1>1
<1> QED BY <1>2, LedgerTypesHold, PTL DEF LedgerSpec, IndicesAreKept

-----------------------------------------------------------------------------
(* A stale list is red.                                                    *)

\* Where no issuer has two names nothing is kept for a duplicate, and a run of the
\* published session, or of a later one, that is not red leaves no stale list.
THEOREM StalenessIsLoud ==
  ASSUME OneNamePerIssuer PROVE LedgerSpec => []NeverSilentlyStale
<1>1. LedgerInit => NeverSilentlyStale
  BY DEF LedgerInit, NeverSilentlyStale, NeverRan
<1>2. LedgerTypeOK /\ NeverSilentlyStale /\ [LedgerNext]_ledgerVars => NeverSilentlyStale'
  <2> SUFFICES ASSUME LedgerTypeOK, NeverSilentlyStale, [LedgerNext]_ledgerVars
               PROVE  NeverSilentlyStale'
    OBVIOUS
  <2>1. list \in IndexList /\ today \in Day
    BY DEF LedgerTypeOK, IndexList
  <2>2. CASE UNCHANGED <<list, last>>
    BY <2>2 DEF NeverSilentlyStale, Stale, Listed
  <2>3. ASSUME NEW target \in {today, today - 1} \ {0}, Run(target) PROVE NeverSilentlyStale'
    <3> DEFINE session == SessionOnOrBefore(target)
    <3>1. session \in Sessions /\ RunResult(session)
      BY <2>1, <2>3, RunDoes, LedgerConstants
    <3> HIDE DEF session
    <3>2. CASE KeepsTheList(session, "failed")
      BY <3>2 DEF KeepsTheList, NeverSilentlyStale
    <3>3. ASSUME KeepsTheList(session, "skipped_idempotent"),
                 \E i \in Listed(list) : list[i].date > session
          PROVE  NeverSilentlyStale'
      <4>1. list' = list /\ last'.session = session
        BY <3>3 DEF KeepsTheList
      <4>2. PICK i \in Listed(list) : list[i].date > session
        BY <3>3
      <4>3. list[i].date \in Nat /\ session \in Nat
        <5>1. list[i].date \in Day \cup {0}
          BY <2>1, <4>2 DEF Listed, IndexList
        <5> QED BY <3>1, <5>1, DaysAreNaturals, LedgerConstants DEF LedgerAssumptions
      <4>4. ~(list'[i].date <= last'.session) /\ i \in Listed(list')
        BY <4>1, <4>2, <4>3
      <4> QED BY <4>4 DEF NeverSilentlyStale
    <3>4. ASSUME KeepsTheList(session, "skipped_idempotent"), Stale(list, session) = {}
          PROVE  NeverSilentlyStale'
      BY <3>4 DEF KeepsTheList, NeverSilentlyStale
    <3>5. ASSUME NEW read \in Readings[session], NEW l \in IndexList,
                 Duplicates(l, Ledger(l, read.changes, session))
          PROVE  FALSE
      BY <2>1, <3>1, <3>5, NoDuplicates, LedgerConstants DEF LedgerAssumptions
    <3>6. ASSUME NEW served \in Fetches, NEW read \in Readings[session], NEW l, NEW ledger,
                 NEW status, NEW complete,
                 Writes(session, served, read, l, ledger, status, complete)
          PROVE  NeverSilentlyStale'
      <4>1. /\ last'.status = status /\ last'.session = session
            /\ status \in {"success", "failed"}
            /\ status = "success" => Stale(list', session) = {}
        BY <3>6 DEF Writes
      <4> QED BY <4>1 DEF NeverSilentlyStale
    <3> QED BY <3>1, <3>2, <3>3, <3>4, <3>5, <3>6 DEF RunResult
  <2> QED BY <2>2, <2>3 DEF LedgerNext, NextDay, ledgerVars
<1> QED BY <1>1, <1>2, LedgerTypesHold, PTL DEF LedgerSpec

-----------------------------------------------------------------------------
(* What NSE announced decides.                                             *)

\* Of each stock a list says what NSE's list of that day said, or what the
\* changes read at a session since then say.
Said(i, x, members, read, session) ==
  /\ About(i, x, read, session) # {}
  /\ x \in members <=> Wanted(About(i, x, read, session), session)
SaidSince(i, x, row, day) ==
  \E t \in Sessions : \E other \in Readings[t] :
    row.date <= t /\ t <= day /\ Said(i, x, row.members, other, t)
Explained ==
  \A i \in Listed(list) : shown[i] # 0 =>
    \A x \in Stock :
      \/ x \in list[i].members <=> x \in Membership[i][shown[i]]
      \/ SaidSince(i, x, list[i], today)

\* What a writing run leaves of a stock.
LEMMA WrittenIsExplained ==
  ASSUME LedgerAssumptions, OneNamePerIssuer, LedgerTypeOK, Explained,
         NEW session \in Sessions, session <= today, today' = today,
         \A i \in Listed(list) : list[i].date <= session,
         NEW served \in Fetches, NEW read \in Readings[session], NEW l, NEW ledger,
         NEW status, NEW complete,
         Writes(session, served, read, l, ledger, status, complete),
         NEW i \in Listed(list'), shown'[i] # 0, NEW x \in Stock
  PROVE  /\ i \in Index /\ shown'[i] \in Day /\ list'[i].date <= session
         /\ \/ Said(i, x, list'[i].members, read, session)
            \/ /\ complete => About(i, x, read, session) = {}
               /\ \/ x \in list'[i].members <=> x \in Membership[i][shown'[i]]
                  \/ SaidSince(i, x, list'[i], today)
<1> DEFINE said == About(i, x, read, session)
<1>1. list \in IndexList /\ shown \in [Index -> Day \cup {0}] /\ today \in Day
  BY DEF LedgerTypeOK, IndexList
<1>2. /\ l \in IndexList /\ shown' \in [Index -> Day \cup {0}]
      /\ \A j \in Index : list'[j].members = After(l, ledger, j)
      /\ \A j \in Listed(list') : j \in Listed(l) /\ list'[j].date = l[j].date
      /\ \A j \in Index \ Usable(Baskets(served)) : l[j] = list[j] /\ shown'[j] = shown[j]
      /\ \A j \in Usable(Baskets(served)) :
           /\ l[j].members = Baskets(served)[j] /\ l[j].date = session
           /\ shown'[j] = DaysShown(served)[j]
  BY <1>1, WrittenList
<1>3. i \in Index /\ i \in Listed(l) /\ list'[i].date = l[i].date /\ shown'[i] \in Day
  BY <1>2 DEF Listed
<1>4. session \in Nat
  BY Calendar DEF LedgerAssumptions, DaysAreNumbered
<1>5. /\ ledger = Ledger(l, read.changes, session)
      /\ complete => ledger.unresolved = {}
  BY DEF Writes
<1>6. \/ (x \in list'[i].members <=> x \in l[i].members) /\ (said # {} => ledger.unresolved # {})
      \/ said # {} /\ (x \in list'[i].members <=> Wanted(said, session))
  <2> DEFINE members == (l[i].members \ Symbols(ledger.drop, i)) \cup Symbols(ledger.add, i)
  <2>1. list'[i].members = members
    BY <1>2, <1>3 DEF After
  <2>2. ListsAreOfStocks
    BY DEF LedgerAssumptions
  <2> HIDE DEF members, said
  <2>3. members = (l[i].members \ Symbols(ledger.drop, i)) \cup Symbols(ledger.add, i)
        /\ said = About(i, x, read, session)
    BY DEF members, said
  <2>4. \/ (x \in members <=> x \in l[i].members) /\ (said # {} => ledger.unresolved # {})
        \/ said # {} /\ (x \in members <=> Wanted(said, session))
    BY <1>1, <1>2, <1>3, <1>5, <2>2, <2>3, LedgerDecides
  <2> QED BY <2>1, <2>4
<1>7. CASE i \in Usable(Baskets(served))
  <2>1. l[i].members = Membership[i][shown'[i]] /\ list'[i].date = session
    BY <1>1, <1>2, <1>3, <1>7, ServedLists
  <2> QED BY <1>3, <1>4, <1>5, <1>6, <2>1 DEF Said
<1>8. CASE i \notin Usable(Baskets(served))
  <2>1. l[i] = list[i] /\ shown'[i] = shown[i] /\ i \in Listed(list)
    BY <1>2, <1>3, <1>8 DEF Listed
  <2>2. list'[i].date <= session /\ list'[i].date = list[i].date
    BY <1>3, <2>1
  <2>3. \/ x \in list[i].members <=> x \in Membership[i][shown[i]]
        \/ SaidSince(i, x, list[i], today)
    BY <2>1 DEF Explained
  <2>4. CASE x \in list'[i].members <=> x \in l[i].members
    <3>1. SaidSince(i, x, list[i], today) => SaidSince(i, x, list'[i], today)
      BY <2>1, <2>2, <2>4 DEF SaidSince, Said
    <3> QED BY <1>3, <1>5, <1>6, <2>1, <2>2, <2>3, <2>4, <3>1 DEF Said
  <2> QED BY <1>3, <1>6, <2>2, <2>4 DEF Said
<1> QED BY <1>7, <1>8

LEMMA LeastOfTwo ==
  ASSUME NEW m \in Int, NEW n \in Int
  PROVE  Min({m, n}) \in {m, n} /\ Min({m, n}) <= m /\ Min({m, n}) <= n
<1>1. \E a \in {m, n} : \A b \in {m, n} : a <= b
  OBVIOUS
<1> QED BY <1>1 DEF Min

\* In the circumstances named, a run that read everything leaves each list as NSE
\* decided it.
LEMMA CompleteIsAsDecided ==
  ASSUME LedgerAssumptions, OneNamePerIssuer, NseDoesAsAnnounced, LedgerTypeOK, Explained,
         NEW target \in {today, today - 1} \ {0}, target \in Day,
         NEW session, session = SessionOnOrBefore(target), today' = today,
         \A i \in Listed(list) : list[i].date <= session,
         NEW served \in Fetches, NEW read \in Readings[session], NEW l, NEW ledger,
         NEW status, Writes(session, served, read, l, ledger, status, TRUE),
         NEW i \in Listed(list'), shown'[i] # 0,
         shown'[i] >= session - GraceDays - 1, list'[i].date >= session - GraceDays - 1,
         shown'[i] <= list'[i].date + Lead,
         NEW x \in Stock
  PROVE  x \in list'[i].members <=> x \in Membership[i][session]
<1>1. /\ session \in Sessions /\ session <= target
      /\ \A u \in Sessions : u <= target => u <= session
  BY SessionBefore DEF LedgerAssumptions
<1>2. /\ today \in Day /\ Day \in SUBSET Nat /\ Sessions \subseteq Day
      /\ GraceDays \in Nat /\ Lead \in Nat /\ target \in Nat
  BY Calendar DEF LedgerTypeOK, LedgerAssumptions, DaysAreNumbered, ListsAreOfStocks
<1>3. session <= today
  BY <1>1, <1>2
<1> DEFINE said == About(i, x, read, session)
           is(d) == x \in Membership[i][d]
           since == {d \in Day : d >= session - GraceDays - 1}
<1>4. /\ i \in Index /\ shown'[i] \in Day /\ list'[i].date <= session
      /\ \/ Said(i, x, list'[i].members, read, session)
         \/ /\ TRUE => said = {}
            /\ \/ x \in list'[i].members <=> is(shown'[i])
               \/ SaidSince(i, x, list'[i], today)
  BY <1>1, <1>3, WrittenIsExplained
<1>5. ~read.unavailable /\ read.unparsed = {}
  BY DEF Writes
<1>6. IF said # {} THEN (Wanted(said, session) <=> is(session))
      ELSE /\ \A d \in since : d <= session + Lead => (is(d) <=> is(session))
           /\ \A t \in Sessions \cap since : (\A u \in Sessions : u <= session \/ u >= t) =>
                \A other \in Readings[t] :
                  LET part == About(i, x, other, t)
                  IN  part # {} => (Wanted(part, t) <=> is(session))
  <2>1. ASSUME NEW t \in Sessions, NEW other \in Readings[t], About(i, x, other, t) # {}
        PROVE  Wanted(About(i, x, other, t), t) <=> HaveItIn(About(i, x, other, t), t)
    <3> DEFINE part == About(i, x, other, t)
    <3>1. part \in SUBSET other.changes
      BY DEF About
    <3>2. t \in Nat
      BY DaysAreNaturals DEF LedgerAssumptions
    <3> HIDE DEF part
    <3>3. part # {} => (Wanted(part, t) <=> HaveItIn(part, t))
      BY <3>1, <3>2, ChangesAreNumbered, WantedIs
    <3> QED BY <2>1, <3>3 DEF part
  <2>2. IF said # {} THEN (HaveItIn(said, session) <=> is(session))
        ELSE /\ \A d \in since : d <= session + Lead => (is(d) <=> is(session))
             /\ \A t \in Sessions \cap since : (\A u \in Sessions : u <= session \/ u >= t) =>
                  \A other \in Readings[t] :
                    LET part == About(i, x, other, t)
                    IN  part # {} => (HaveItIn(part, t) <=> is(session))
    BY <1>1, <1>4, <1>5 DEF NseDoesAsAnnounced
  <2>3. CASE said # {}
    BY <1>1, <2>1, <2>2, <2>3
  <2>4. CASE said = {}
    <3> HIDE DEF is, since
    <3> QED BY <2>1, <2>2, <2>4
  <2> QED BY <2>3, <2>4
<1>7. list'[i].date \in Nat
  <2>1. list' \in IndexList
    <3>1. list \in IndexList /\ shown \in [Index -> Day \cup {0}]
      BY DEF LedgerTypeOK, IndexList
    <3> QED BY <1>1, <1>2, <3>1, WrittenList
  <2>2. i \in Index
    BY <1>4
  <2> HIDE DEF said, is, since
  <2>3. list'[i].date \in Day \cup {0}
    BY <2>1, <2>2 DEF IndexList
  <2>4. \A d \in Day : d \in Nat
    BY <1>2
  <2> HIDE DEF IndexList
  <2> QED BY <2>3, <2>4
<1>8. shown'[i] \in since /\ shown'[i] <= session + Lead
  <2>1. shown'[i] \in Nat /\ session \in Nat
    BY <1>1, <1>2, <1>4
  <2>2. shown'[i] \in since
    BY <1>4
  <2> QED BY <1>2, <1>4, <1>7, <2>1, <2>2
<1>9. ASSUME NEW t \in Sessions, list'[i].date <= t, t <= today
      PROVE  t \in Sessions \cap since /\ \A u \in Sessions : u <= session \/ u >= t
  <2>1. t \in since
    BY <1>1, <1>2, <1>7, <1>9
  <2>2. \A u \in Sessions : u <= target \/ u >= today
    BY <1>2
  <2>3. \A u \in Sessions : u <= session \/ u >= t
    BY <1>1, <1>2, <1>9, <2>2
  <2> QED BY <2>1, <2>3
<1>10. CASE said # {}
  <2>1. x \in list'[i].members <=> Wanted(said, session)
    BY <1>4, <1>10 DEF Said
  <2> QED BY <1>6, <1>10, <2>1
<1> HIDE DEF is, since, said
<1>11. CASE said = {}
  <2>1. CASE x \in list'[i].members <=> is(shown'[i])
    <3>1. is(shown'[i]) <=> is(session)
      BY <1>6, <1>8, <1>11
    <3> QED BY <2>1, <3>1 DEF is
  <2>2. ASSUME NEW t \in Sessions, NEW other \in Readings[t],
               list'[i].date <= t, t <= today, Said(i, x, list'[i].members, other, t)
        PROVE  x \in list'[i].members <=> x \in Membership[i][session]
    <3>1. Wanted(About(i, x, other, t), t) <=> is(session)
      BY <1>6, <1>9, <1>11, <2>2 DEF Said
    <3> QED BY <2>2, <3>1 DEF is, Said
  <2>3. \/ x \in list'[i].members <=> is(shown'[i])
        \/ SaidSince(i, x, list'[i], today)
    BY <1>4, <1>11 DEF Said, said
  <2> QED BY <2>1, <2>2, <2>3 DEF SaidSince
<1> QED BY <1>10, <1>11

LEMMA AnnouncedIsKept ==
  ASSUME LedgerAssumptions, OneNamePerIssuer, NseDoesAsAnnounced
  PROVE  LedgerTypeOK /\ Explained /\ ListIsAnnounced /\ [LedgerNext]_ledgerVars
           => Explained' /\ ListIsAnnounced'
<1> SUFFICES ASSUME LedgerTypeOK, Explained, ListIsAnnounced, [LedgerNext]_ledgerVars
             PROVE  Explained' /\ ListIsAnnounced'
  OBVIOUS
<1>1. list \in IndexList /\ shown \in [Index -> Day \cup {0}] /\ today \in Day
  BY DEF LedgerTypeOK, IndexList
<1>2. today \in Nat /\ GraceDays \in Nat /\ Sessions \subseteq Nat /\ Day \subseteq Nat
  BY <1>1, Calendar DEF LedgerAssumptions, DaysAreNumbered, ListsAreOfStocks
<1>3. ASSUME UNCHANGED <<list, shown>>, today' \in Nat, today <= today' PROVE Explained'
  <2> SUFFICES ASSUME NEW i \in Listed(list), shown[i] # 0, NEW x \in Stock
               PROVE  \/ x \in list[i].members <=> x \in Membership[i][shown[i]]
                      \/ SaidSince(i, x, list[i], today')
    BY <1>3 DEF Explained, Listed
  <2>1. \/ x \in list[i].members <=> x \in Membership[i][shown[i]]
        \/ SaidSince(i, x, list[i], today)
    BY DEF Explained
  <2>2. \A t \in Sessions : t <= today => t <= today'
    BY <1>2, <1>3
  <2>3. SaidSince(i, x, list[i], today) => SaidSince(i, x, list[i], today')
    BY <2>2 DEF SaidSince
  <2> QED BY <2>1, <2>3
<1>4. CASE UNCHANGED <<list, shown, last>> /\ today' \in {today, today + 1}
  BY <1>2, <1>3, <1>4 DEF ListIsAnnounced, Listed
<1>5. ASSUME NEW target \in {today, today - 1} \ {0}, Run(target)
      PROVE  Explained' /\ ListIsAnnounced'
  <2> DEFINE session == SessionOnOrBefore(target)
  <2>1. today' = today /\ target \in Day /\ session \in Sessions /\ RunResult(session)
    BY <1>1, <1>5, RunDoes
  <2>2. session <= today
    <3>1. session <= target
      BY <2>1, SessionBefore DEF LedgerAssumptions
    <3>2. session \in Nat /\ target \in Nat
      BY <2>1, DaysAreNaturals DEF LedgerAssumptions
    <3> HIDE DEF session
    <3> QED BY <1>2, <2>1, <3>1, <3>2
  <2> HIDE DEF session
  <2>3. ASSUME NEW status, KeepsTheList(session, status)
        PROVE  Explained' /\ ListIsAnnounced'
    <3>1. UNCHANGED <<list, shown>> /\ last'.complete = FALSE
      BY <2>3 DEF KeepsTheList
    <3> QED BY <1>2, <1>3, <2>1, <3>1 DEF ListIsAnnounced
  <2>4. ASSUME \A i \in Listed(list) : list[i].date <= session,
               NEW served \in Fetches, NEW read \in Readings[session], NEW l, NEW ledger,
               NEW status, NEW complete,
               Writes(session, served, read, l, ledger, status, complete)
        PROVE  Explained' /\ ListIsAnnounced'
    <3>1. Explained'
      <4> SUFFICES ASSUME NEW i \in Listed(list'), shown'[i] # 0, NEW x \in Stock
                   PROVE  \/ x \in list'[i].members <=> x \in Membership[i][shown'[i]]
                          \/ SaidSince(i, x, list'[i], today)
        BY <2>1 DEF Explained, Listed
      <4>1. /\ list'[i].date <= session
            /\ \/ Said(i, x, list'[i].members, read, session)
               \/ x \in list'[i].members <=> x \in Membership[i][shown'[i]]
               \/ SaidSince(i, x, list'[i], today)
        BY <2>1, <2>2, <2>4, WrittenIsExplained
      <4>2. Said(i, x, list'[i].members, read, session) => SaidSince(i, x, list'[i], today)
        BY <2>1, <2>2, <4>1 DEF SaidSince
      <4> QED BY <4>1, <4>2
    <3>2. ListIsAnnounced'
      <4>1. last'.complete = complete /\ last'.session = session
        BY <2>4 DEF Writes
      <4> SUFFICES ASSUME complete, NEW i \in Listed(list'),
                          Min({shown'[i], list'[i].date}) >= session - GraceDays - 1,
                          shown'[i] \in 1..(list'[i].date + Lead)
                   PROVE  list'[i].members = Membership[i][session]
        BY <4>1 DEF ListIsAnnounced, Listed, Issuers
      <4>2. /\ i \in Index /\ list' \in IndexList /\ list'[i].date \in Nat
            /\ shown'[i] \in Nat /\ shown'[i] # 0 /\ shown'[i] <= list'[i].date + Lead
        <5>1. list' \in IndexList /\ i \in Index
          BY <1>1, <2>1, <2>4, WrittenList DEF Listed
        <5>2. list'[i].date \in Day \cup {0}
          BY <5>1 DEF IndexList
        <5>3. list'[i].date \in Nat /\ Lead \in Nat
          BY <5>2, DaysAreNaturals DEF LedgerAssumptions, ListsAreOfStocks
        <5> QED BY <5>1, <5>3
      <4>3. shown'[i] >= session - GraceDays - 1 /\ list'[i].date >= session - GraceDays - 1
        <5> DEFINE m == shown'[i]
                   n == list'[i].date
        <5>1. m \in Int /\ n \in Int
          BY <4>2
        <5> HIDE DEF m, n
        <5>2. Min({m, n}) \in {m, n} /\ Min({m, n}) <= m /\ Min({m, n}) <= n
          BY <5>1, LeastOfTwo
        <5>3. session - GraceDays - 1 \in Int
          <6>1. session \in Nat
            BY <2>1, DaysAreNaturals DEF LedgerAssumptions
          <6> QED BY <1>2, <6>1
        <5>4. Min({m, n}) >= session - GraceDays - 1
          BY DEF m, n
        <5>5. m >= session - GraceDays - 1 /\ n >= session - GraceDays - 1
          BY <5>1, <5>2, <5>3, <5>4
        <5> QED BY <5>5 DEF m, n
      <4>4. complete = TRUE
        BY <2>4 DEF Writes
      <4>5. \A x \in Stock : x \in list'[i].members <=> x \in Membership[i][session]
        BY <2>1, <2>4, <4>2, <4>3, <4>4, CompleteIsAsDecided DEF session
      <4>6. list'[i].members \subseteq Stock /\ Membership[i][session] \subseteq Stock
        BY <2>1, <4>2 DEF IndexList, LedgerAssumptions, DaysAreNumbered, ListsAreOfStocks
      <4> QED BY <4>5, <4>6
    <3> QED BY <3>1, <3>2
  <2> QED BY <2>1, <2>3, <2>4 DEF RunResult
<1> QED BY <1>2, <1>4, <1>5 DEF LedgerNext, NextDay, ledgerVars

\* Where no issuer has two names and NSE does as it announced, whatever its lists
\* show, early, late or cut short, in any order of runs and days: a run that read
\* every release leaves in each index, that was read within the window, exactly the
\* issuers NSE decided.
THEOREM AnnouncementsDecide ==
  ASSUME OneNamePerIssuer, NseDoesAsAnnounced
  PROVE  LedgerSpec => []ListIsAnnounced
<1>1. LedgerInit => Explained /\ ListIsAnnounced
  <2>1. LedgerInit => Listed(list) = {} /\ last.complete = FALSE
    BY DEF LedgerInit, NeverRan, NotListed, Listed
  <2> QED BY <2>1 DEF Explained, ListIsAnnounced
<1>2. LedgerTypeOK /\ Explained /\ ListIsAnnounced /\ [LedgerNext]_ledgerVars
        => Explained' /\ ListIsAnnounced'
  BY LedgerConstants, AnnouncedIsKept
<1> QED BY <1>1, <1>2, LedgerTypesHold, PTL DEF LedgerSpec
=============================================================================
