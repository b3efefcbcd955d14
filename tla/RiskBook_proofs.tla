-------------------------- MODULE RiskBook_proofs --------------------------
(***************************************************************************)
(* Proofs about RiskBook, for every number of symbols and positions, every *)
(* limit, every market and every worth of the account: the gross cap, the  *)
(* risk budget of an entry and the equity it is sized with.                *)
(***************************************************************************)
EXTENDS RiskBook, FiniteSetTheorems, TLAPS

-----------------------------------------------------------------------------
(* Sums over a finite set, by induction over its subsets *)

LEMMA SmallestSet ==
  ASSUME NEW S, IsFiniteSet(S), NEW T, T \subseteq SUBSET S, T # {}
  PROVE  \E m \in T : \A t \in T : t \subseteq m => t = m
<1> DEFINE R == StrictSubsetOrdering(S)
<1>1. IsWellFoundedOn(R, FiniteSubsetsOf(S)) BY FS_StrictSubsetOrderingWellFounded
<1>2. T \subseteq FiniteSubsetsOf(S) BY FS_FiniteSubsetsOfFinite
<1>3. \A t, m \in SUBSET S : t \subseteq m /\ t # m => <<t, m>> \in R
  BY DEF StrictSubsetOrdering
<1> HIDE DEF R
<1>4. PICK m \in T : \A t \in T : ~(<<t, m>> \in R) BY <1>1, <1>2, WFMin
<1> QED BY <1>3, <1>4

\* The element that a fold takes out of s.
First(s) == CHOOSE x \in s : TRUE

LEMMA FirstIn == ASSUME NEW s, s # {} PROVE First(s) \in s
BY DEF First

\* f is the sum of g over each subset of S, its elements taken out one by one.
Adds(g, S, f) ==
  f = [s \in SUBSET S |-> IF s = {} THEN 0 ELSE g[First(s)] + f[s \ {First(s)}]]

Sums(g, S, f) == g \in [S -> Int] /\ f \in [SUBSET S -> Int] /\ Adds(g, S, f)

\* The subsets of at most n elements, and the sums over them.
UpToSize(S, n) == {s \in SUBSET S : Cardinality(s) <= n}
AddsUpTo(g, S, n, f) ==
  /\ f \in [UpToSize(S, n) -> Int]
  /\ \A s \in UpToSize(S, n) : f[s] = IF s = {} THEN 0 ELSE g[First(s)] + f[s \ {First(s)}]

LEMMA FirstSums ==
  ASSUME NEW S, IsFiniteSet(S), NEW g \in [S -> Int]
  PROVE  \E f : AddsUpTo(g, S, 0, f)
<1> DEFINE f == [s \in UpToSize(S, 0) |-> 0]
<1>1. \A s \in UpToSize(S, 0) : s = {}
  BY FS_Subset, FS_CardinalityType, FS_EmptySet DEF UpToSize
<1>2. AddsUpTo(g, S, 0, f) BY <1>1 DEF AddsUpTo
<1> QED BY <1>2

LEMMA NextSums ==
  ASSUME NEW S, IsFiniteSet(S), NEW g \in [S -> Int], NEW n \in Nat,
         NEW f, AddsUpTo(g, S, n, f)
  PROVE  \E k : AddsUpTo(g, S, n + 1, k)
<1> DEFINE Value(s) == IF s = {} THEN 0 ELSE g[First(s)] + f[s \ {First(s)}]
           k == [s \in UpToSize(S, n + 1) |-> Value(s)]
<1>1. ASSUME NEW s \in UpToSize(S, n + 1), s # {}
      PROVE  s \ {First(s)} \in UpToSize(S, n) /\ First(s) \in S
  <2>1. First(s) \in s BY <1>1, FirstIn
  <2>2. s \in SUBSET S /\ IsFiniteSet(s) /\ Cardinality(s) <= n + 1
    BY FS_Subset DEF UpToSize
  <2>3. Cardinality(s \ {First(s)}) = Cardinality(s) - 1 BY <2>1, <2>2, FS_RemoveElement
  <2>4. Cardinality(s) \in Nat BY <2>2, FS_CardinalityType
  <2> QED BY <2>1, <2>2, <2>3, <2>4 DEF UpToSize
<1>2. f \in [UpToSize(S, n) -> Int] BY DEF AddsUpTo
<1>3. \A s \in UpToSize(S, n + 1) : Value(s) \in Int BY <1>1, <1>2
<1>4. ASSUME NEW s \in UpToSize(S, n) PROVE s \in UpToSize(S, n + 1) /\ Value(s) = f[s]
  <2>1. s \in SUBSET S /\ Cardinality(s) \in Nat /\ Cardinality(s) <= n
    BY FS_Subset, FS_CardinalityType DEF UpToSize
  <2> QED BY <2>1 DEF UpToSize, AddsUpTo
<1>5. ASSUME NEW s \in UpToSize(S, n + 1), s # {}
      PROVE  k[s] = g[First(s)] + k[s \ {First(s)}]
  BY <1>1, <1>4, <1>5
<1>6. k \in [UpToSize(S, n + 1) -> Int] BY <1>3
<1>7. \A s \in UpToSize(S, n + 1) : s = {} => k[s] = 0 OBVIOUS
<1> HIDE DEF k
<1> QED BY <1>5, <1>6, <1>7 DEF AddsUpTo

LEMMA SumsExist ==
  ASSUME NEW S, IsFiniteSet(S), NEW g \in [S -> Int]
  PROVE  \E f : f \in [SUBSET S -> Int] /\ Adds(g, S, f)
<1> DEFINE N == Cardinality(S)
           Bad == {s \in SUBSET S : ~ \E f : AddsUpTo(g, S, Cardinality(s), f)}
<1>1. Bad = {}
  <2> SUFFICES ASSUME Bad # {} PROVE FALSE OBVIOUS
  <2>1. PICK m \in Bad : \A t \in Bad : t \subseteq m => t = m
    <3>1. Bad \subseteq SUBSET S OBVIOUS
    <3> HIDE DEF Bad
    <3> QED BY <3>1, SmallestSet
  <2>2. m \in SUBSET S /\ IsFiniteSet(m) /\ Cardinality(m) \in Nat
    BY FS_Subset, FS_CardinalityType
  <2>3. m # {} BY FS_EmptySet, FirstSums
  <2>4. First(m) \in m BY <2>3, FirstIn
  <2>5. Cardinality(m \ {First(m)}) = Cardinality(m) - 1 /\ Cardinality(m) > 0
    BY <2>2, <2>3, <2>4, FS_RemoveElement, FS_EmptySet
  <2>6. m \ {First(m)} \notin Bad BY <2>1, <2>4
  <2>7. PICK f : AddsUpTo(g, S, Cardinality(m) - 1, f) BY <2>2, <2>5, <2>6
  <2>8. Cardinality(m) - 1 \in Nat /\ (Cardinality(m) - 1) + 1 = Cardinality(m)
    BY <2>2, <2>5
  <2>9. \E k : AddsUpTo(g, S, (Cardinality(m) - 1) + 1, k) BY <2>7, <2>8, NextSums
  <2> QED BY <2>8, <2>9
<1>2. PICK f : AddsUpTo(g, S, N, f) BY <1>1
<1>3. UpToSize(S, N) = SUBSET S BY FS_Subset DEF UpToSize
<1>4. f \in [SUBSET S -> Int] BY <1>2, <1>3 DEF AddsUpTo
<1>5. \A s \in SUBSET S : f[s] = IF s = {} THEN 0 ELSE g[First(s)] + f[s \ {First(s)}]
  BY <1>2, <1>3 DEF AddsUpTo
<1>6. Adds(g, S, f) BY <1>4, <1>5 DEF Adds
<1> QED BY <1>4, <1>6

\* Whatever they are part of, the same addends have the same sum.
LEMMA SumsAgree ==
  ASSUME NEW S, NEW g, NEW f, Adds(g, S, f),
         NEW T, NEW h, NEW k, Adds(h, T, k),
         NEW r, IsFiniteSet(r), r \subseteq S, r \subseteq T, \A x \in r : g[x] = h[x]
  PROVE  f[r] = k[r]
<1> DEFINE Bad == {s \in SUBSET r : f[s] # k[s]}
<1> SUFFICES ASSUME Bad # {} PROVE FALSE OBVIOUS
<1>1. PICK m \in Bad : \A t \in Bad : t \subseteq m => t = m
  <2>1. Bad \subseteq SUBSET r OBVIOUS
  <2> HIDE DEF Bad
  <2> QED BY <2>1, SmallestSet
<1>2. m # {} BY DEF Adds
<1>3. First(m) \in m BY <1>2, FirstIn
<1>4. f[m \ {First(m)}] = k[m \ {First(m)}] BY <1>1, <1>3
<1>5. f[m] = g[First(m)] + f[m \ {First(m)}] BY <1>2 DEF Adds
<1>6. k[m] = h[First(m)] + k[m \ {First(m)}] BY <1>2 DEF Adds
<1> QED BY <1>3, <1>4, <1>5, <1>6

\* It does not matter which element is taken out first.
LEMMA AnyFirst ==
  ASSUME NEW S, IsFiniteSet(S), NEW g, NEW f, Sums(g, S, f), NEW y \in S
  PROVE  f[S] = g[y] + f[S \ {y}]
<1>0. g \in [S -> Int] /\ f \in [SUBSET S -> Int] /\ Adds(g, S, f) BY DEF Sums
<1> DEFINE Bad == {s \in SUBSET S : \E x \in s : f[s] # g[x] + f[s \ {x}]}
<1> USE <1>0
<1> SUFFICES ASSUME Bad # {} PROVE FALSE OBVIOUS
<1>1. PICK m \in Bad : \A s \in Bad : s \subseteq m => s = m
  <2>1. Bad \subseteq SUBSET S OBVIOUS
  <2> HIDE DEF Bad
  <2> QED BY <2>1, SmallestSet
<1>2. PICK x \in m : f[m] # g[x] + f[m \ {x}] OBVIOUS
<1> DEFINE c == First(m)
<1>3. c \in m BY <1>2, FirstIn
<1> HIDE DEF c
<1>4. f[m] = g[c] + f[m \ {c}] BY <1>2 DEF Adds, c
<1>5. c # x BY <1>2, <1>4
<1>6. f[m \ {c}] = g[x] + f[(m \ {c}) \ {x}]
  <2>1. m \ {c} \notin Bad /\ x \in m \ {c} BY <1>1, <1>2, <1>3, <1>5
  <2>2. m \ {c} \in SUBSET S OBVIOUS
  <2> QED BY <2>1, <2>2
<1>7. f[m \ {x}] = g[c] + f[(m \ {x}) \ {c}]
  <2>1. m \ {x} \notin Bad /\ c \in m \ {x} BY <1>1, <1>2, <1>3, <1>5
  <2> QED BY <2>1
<1>8. (m \ {c}) \ {x} = (m \ {x}) \ {c} OBVIOUS
<1>9. g[c] \in Int /\ g[x] \in Int /\ f[(m \ {c}) \ {x}] \in Int BY <1>2, <1>3
<1>10. f[m] = g[c] + (g[x] + f[(m \ {c}) \ {x}]) BY <1>4, <1>6
<1>11. f[m \ {x}] = g[c] + f[(m \ {c}) \ {x}] BY <1>7, <1>8
<1>12. \A i, j, n \in Int : i + (j + n) = j + (i + n) OBVIOUS
<1>13. f[m] = g[x] + (g[c] + f[(m \ {c}) \ {x}]) BY <1>9, <1>10, <1>12
<1> QED BY <1>2, <1>11, <1>13

-----------------------------------------------------------------------------
(* The notional of the book *)

NotionalOf(b, S) == MapThenSumSet(LAMBDA s : b[s].notional, S)

LEMMA NotionalIsSum ==
  ASSUME NEW S, IsFiniteSet(S), NEW b, \A s \in S : b[s].notional \in Int
  PROVE  \E k : /\ k \in [SUBSET S -> Int]
                /\ Adds([x \in S |-> b[x].notional], S, k)
                /\ NotionalOf(b, S) = k[S]
<1> DEFINE g == [x \in S |-> b[x].notional]
           Iter(k) == k = [s \in SUBSET S |-> IF s = {} THEN 0
                                              ELSE LET x == CHOOSE x \in s : TRUE
                                                   IN  b[x].notional + k[s \ {x}]]
<1>1. ASSUME NEW k PROVE Iter(k) <=> Adds(g, S, k)
  <2>1. \A s \in SUBSET S : s # {} => g[First(s)] = b[First(s)].notional BY FirstIn
  <2> QED BY <2>1 DEF Adds, First
<1>2. NotionalOf(b, S) = (CHOOSE k : Iter(k))[S]
  BY DEF NotionalOf, MapThenSumSet, MapThenFoldSet
<1>3. g \in [S -> Int] OBVIOUS
<1> HIDE DEF Iter, g
<1>4. PICK f : f \in [SUBSET S -> Int] /\ Adds(g, S, f) BY <1>3, SumsExist
<1>5. Iter(CHOOSE k : Iter(k)) BY <1>1, <1>4
<1> DEFINE k == CHOOSE k : Iter(k)
<1>6. Adds(g, S, k) BY <1>1, <1>5
<1> HIDE DEF k
<1>7. \A s \in SUBSET S : k[s] = f[s]
  <2> TAKE s \in SUBSET S
  <2>1. IsFiniteSet(s) BY FS_Subset
  <2> QED BY <1>4, <1>6, <2>1, SumsAgree
<1>8. k \in [SUBSET S -> Int]
  <2>1. k = [s \in SUBSET S |-> k[s]] BY <1>6 DEF Adds
  <2> QED BY <1>4, <1>7, <2>1
<1> QED BY <1>2, <1>6, <1>8 DEF k, g

LEMMA NotionalType ==
  ASSUME NEW S, IsFiniteSet(S), NEW b, \A s \in S : b[s].notional \in Int
  PROVE  NotionalOf(b, S) \in Int
<1>1. PICK k : k \in [SUBSET S -> Int] /\ NotionalOf(b, S) = k[S] BY NotionalIsSum
<1> QED BY <1>1

LEMMA NotionalNat ==
  ASSUME NEW S, IsFiniteSet(S), NEW b, \A s \in S : b[s].notional \in Nat
  PROVE  NotionalOf(b, S) \in Nat
<1> DEFINE g == [y \in S |-> b[y].notional]
<1>1. \A s \in S : b[s].notional \in Int OBVIOUS
<1>2. PICK f : f \in [SUBSET S -> Int] /\ Adds(g, S, f) /\ NotionalOf(b, S) = f[S]
  BY <1>1, NotionalIsSum
<1> DEFINE Bad == {s \in SUBSET S : f[s] \notin Nat}
<1> SUFFICES ASSUME Bad # {} PROVE FALSE BY <1>2
<1>3. PICK m \in Bad : \A t \in Bad : t \subseteq m => t = m
  <2>1. Bad \subseteq SUBSET S OBVIOUS
  <2> HIDE DEF Bad
  <2> QED BY <2>1, SmallestSet
<1>4. m # {} BY <1>2 DEF Adds
<1>5. First(m) \in m BY <1>4, FirstIn
<1>6. f[m \ {First(m)}] \in Nat BY <1>3, <1>5
<1>7. f[m] = g[First(m)] + f[m \ {First(m)}] BY <1>2, <1>4 DEF Adds
<1>8. g[First(m)] \in Nat BY <1>5
<1> QED BY <1>6, <1>7, <1>8

\* A new position adds its notional.
LEMMA NotionalGrows ==
  ASSUME NEW S, IsFiniteSet(S), NEW x, x \notin S,
         NEW b, \A s \in S : b[s].notional \in Int,
         NEW c, c[x].notional \in Int, \A s \in S : c[s] = b[s]
  PROVE  NotionalOf(c, S \cup {x}) = c[x].notional + NotionalOf(b, S)
<1> DEFINE T == S \cup {x}
           g == [y \in S |-> b[y].notional]
           h == [y \in T |-> c[y].notional]
<1>1. IsFiniteSet(T) BY FS_AddElement
<1>2. PICK f : f \in [SUBSET S -> Int] /\ Adds(g, S, f) /\ NotionalOf(b, S) = f[S]
  BY NotionalIsSum
<1>3. \A y \in T : c[y].notional \in Int OBVIOUS
<1>4. PICK k : k \in [SUBSET T -> Int] /\ Adds(h, T, k) /\ NotionalOf(c, T) = k[T]
  <2> HIDE DEF T
  <2> QED BY <1>1, <1>3, NotionalIsSum
<1>5. h \in [T -> Int] BY <1>3
<1>6. k[T] = h[x] + k[T \ {x}]
  <2>1. x \in T /\ T \in SUBSET T OBVIOUS
  <2> HIDE DEF T, h
  <2>2. Sums(h, T, k) BY <1>4, <1>5 DEF Sums
  <2>3. k[T] = h[x] + k[T \ {x}] BY <1>1, <2>1, <2>2, AnyFirst
  <2> QED BY <2>3
<1>7. T \ {x} = S /\ S \subseteq T OBVIOUS
<1>8. \A y \in S : h[y] = g[y] OBVIOUS
<1>9. k[S] = f[S]
  <2> HIDE DEF T, h, g
  <2> QED BY <1>2, <1>4, <1>7, <1>8, SumsAgree
<1>10. h[x] = c[x].notional OBVIOUS
<1> QED BY <1>2, <1>4, <1>6, <1>7, <1>9, <1>10

-----------------------------------------------------------------------------
(* The inductive invariant *)

Position == [side : {"none", "long", "short"}, notional : Nat, stop : Nat]

\* The variables, without the bounds of TypeOK.
Types ==
  /\ worth \in Worths
  /\ last \in [equity : Nat, source : Sources \cup {"none"}, age : Nat]
  /\ peak \in [Sources -> Nat]
  /\ carried \in Int
  /\ tripped \in BOOLEAN
  /\ reported \in Nat
  /\ cycle \in [pc : {"idle", "gates", "scan"}, equity : Nat, left : SUBSET Symbols]
  /\ book \in [Symbols -> Position]
  /\ IsFiniteSet(Held)

\* What an exchange snapshot says was reported to the cycle that wrote it, at the gates the
\* cycle's equity is that of the newest snapshot, and past them it was reported: no refresh
\* comes in between.
Trust ==
  /\ last.source = "exchange" => last.equity <= reported
  /\ cycle.pc = "gates" => cycle.equity = last.equity /\ last.source # "none"
  /\ cycle.pc = "scan" => cycle.equity <= reported

RiskInv == Types /\ Trust

-----------------------------------------------------------------------------
(* Arithmetic of shares *)

LEMMA Division ==
  ASSUME NEW a \in Nat, NEW d \in Nat \ {0}
  PROVE  a \div d \in Nat /\ d * (a \div d) <= a
OBVIOUS

LEMMA ProductType == ASSUME NEW a \in Nat, NEW b \in Nat PROVE a * b \in Nat
OBVIOUS

LEMMA ProductGrows ==
  ASSUME NEW a \in Nat, NEW b \in Nat, NEW c \in Nat, a <= b
  PROVE  a * c <= b * c /\ c * a <= c * b
OBVIOUS

LEMMA PercentType ==
  ASSUME NEW p \in Nat, NEW x \in Nat
  PROVE  Percent(p, x) \in Nat /\ 100 * Percent(p, x) <= p * x
BY ProductType, Division DEF Percent

LEMMA PercentOfZero == ASSUME NEW p \in Nat PROVE Percent(p, 0) = 0
BY DEF Percent

LEMMA PercentLess ==
  ASSUME NEW p \in Nat, NEW x \in Nat, p <= 100
  PROVE  Percent(p, x) <= x
<1>1. p * x <= 100 * x BY ProductGrows
<1>2. 100 * Percent(p, x) <= p * x /\ Percent(p, x) \in Nat BY PercentType
<1>3. p * x \in Nat BY ProductType
<1> QED BY <1>1, <1>2, <1>3

LEMMA PercentGrows ==
  ASSUME NEW p \in Nat, NEW x \in Nat, NEW y \in Nat, x <= y
  PROVE  Percent(p, x) <= Percent(p, y)
<1>1. p * x <= p * y BY ProductGrows
<1>2. p * x \in Nat /\ p * y \in Nat BY ProductType
<1>3. \A a, b \in Nat : a <= b => a \div 100 <= b \div 100 OBVIOUS
<1> QED BY <1>1, <1>2, <1>3 DEF Percent

LEMMA Limits ==
  /\ MaxOpen \in Nat /\ Capital \in Nat /\ Gross \in Nat /\ Net \in Nat /\ MaxRisk \in Nat
  /\ DayLoss \in Nat /\ Floor \in Nat /\ AtrMultiplier \in Nat \ {0} /\ RewardRisk \in Nat
  /\ VolTarget \in Nat /\ Fallback \in Nat /\ MaxAge \in Nat
BY LimitsAssumption, AtrsAssumption

-----------------------------------------------------------------------------
(* The multipliers *)

LEMMA KellyType == ASSUME NEW f \in Edges PROVE KellyScale(f) \in Nat
<1>1. f \in Int BY EdgesAssumption
<1>2. CASE f = None BY <1>2 DEF KellyScale, None
<1>3. CASE f < 0 /\ f # None BY <1>3, <1>1 DEF KellyScale, None
<1>4. CASE f >= 0 BY <1>4, <1>1 DEF KellyScale, None, Clamp, Most, Least
<1> QED BY <1>1, <1>2, <1>3, <1>4

LEMMA VolType == ASSUME NEW atr \in Atrs PROVE VolMultiplier(atr) \in Nat
<1>1. (100 * VolTarget) \div atr \in Nat
  <2>1. atr \in Nat \ {0} /\ 100 * VolTarget \in Nat BY AtrsAssumption, Limits
  <2> QED BY <2>1, Division
<1> QED BY <1>1 DEF VolMultiplier, Clamp, Most, Least

LEMMA ScaleType ==
  ASSUME NEW side \in {"long", "short"}, NEW market \in Markets
  PROVE  Scale(side, market) \in Nat
<1>1. market \in MarketType BY MarketsAssumption
<1>2. /\ market.rate \in Int /\ market.imbalance \in Int /\ market.drift \in Nat
      /\ market.vol \in Nat /\ market.regime \in Nat
  BY <1>1 DEF MarketType
<1>3. HealthMultiplier(market) \in Nat
  <2>1. CASE market.drift <= 30 BY <2>1, <1>2 DEF HealthMultiplier
  <2>2. CASE market.drift \in 31..50 BY <2>2, <1>2 DEF HealthMultiplier
  <2>3. CASE market.drift \in 51..70 BY <2>3, <1>2 DEF HealthMultiplier
  <2>4. CASE market.drift > 70 BY <2>4, <1>2 DEF HealthMultiplier
  <2> QED BY <1>2, <2>1, <2>2, <2>3, <2>4
<1>4. FundingMultiplier(side, market) \in Nat
  <2> DEFINE collects == -Signed(side, market.rate)
  <2>1. collects \in Int BY <1>2 DEF Signed
  <2> HIDE DEF collects
  <2>2. CASE collects < -5 BY <2>2 DEF FundingMultiplier, collects
  <2>3. CASE ~(collects < -5) /\ collects <= 5 BY <2>3 DEF FundingMultiplier, collects
  <2>4. CASE ~(collects < -5) /\ ~(collects <= 5)
    <3> DEFINE gain == Least(20 * (collects - 5), 100)
    <3>1. gain \in Nat BY <2>1, <2>4 DEF Least
    <3> HIDE DEF gain
    <3>2. Percent(25, gain) \in Nat BY <3>1, PercentType
    <3>3. FundingMultiplier(side, market) = 100 + Percent(25, gain)
      BY <2>4 DEF FundingMultiplier, collects, gain
    <3> QED BY <3>2, <3>3
  <2> QED BY <2>2, <2>3, <2>4
<1>5. ImbalanceMultiplier(side, market) \in Nat BY DEF ImbalanceMultiplier
<1>6. PortfolioMultiplier(market) \in Nat
  <2>1. CASE market.vol = 0 BY <2>1 DEF PortfolioMultiplier
  <2>2. CASE market.vol # 0
    <3>1. 200 \div market.vol \in Nat BY <1>2, <2>2, Division
    <3> QED BY <2>2, <3>1 DEF PortfolioMultiplier, Clamp, Most, Least
  <2> QED BY <2>1, <2>2
<1> DEFINE data == IF market.degraded THEN 50 ELSE 100
           quality == Percent(data, Percent(HealthMultiplier(market), market.regime))
           micro == Percent(FundingMultiplier(side, market), ImbalanceMultiplier(side, market))
<1>7. data \in Nat OBVIOUS
<1>8. quality \in Nat
  <2>1. Percent(HealthMultiplier(market), market.regime) \in Nat BY <1>2, <1>3, PercentType
  <2> HIDE DEF data
  <2> QED BY <1>7, <2>1, PercentType
<1>9. micro \in Nat BY <1>4, <1>5, PercentType
<1>10. Scale(side, market) = Percent(quality, Percent(micro, PortfolioMultiplier(market)))
  BY DEF Scale
<1> HIDE DEF quality, micro
<1>11. Percent(micro, PortfolioMultiplier(market)) \in Nat BY <1>6, <1>9, PercentType
<1> QED BY <1>8, <1>10, <1>11, PercentType

LEMMA DrawdownType ==
  ASSUME Types
  PROVE  DrawdownMultiplier \in Nat
<1>1. LatestEquity \in Nat /\ Peak \in Nat BY Limits DEF Types, LatestEquity, Peak, Sources, Most
<1>2. Drawdown \in Int
  <2>1. Most(Peak, 1) \in Nat \ {0} BY <1>1 DEF Most
  <2>2. 100 * (Peak - LatestEquity) \in Int BY <1>1
  <2>3. \A a \in Int, d \in Nat \ {0} : a \div d \in Int OBVIOUS
  <2> QED BY <2>1, <2>2, <2>3 DEF Drawdown
<1>3. CASE Drawdown <= 0 BY <1>3 DEF DrawdownMultiplier
<1>4. CASE ~(Drawdown <= 0)
  <2> DEFINE share == (100 * Drawdown) \div MaxDrawdown
  <2>1. share \in Nat
    <3>1. 100 * Drawdown \in Nat /\ MaxDrawdown \in Nat \ {0} BY <1>2, <1>4, WorthsAssumption
    <3> QED BY <3>1, Division
  <2>2. DrawdownMultiplier = Most(Floor, Least(100 - share, 100))
    BY <1>4 DEF DrawdownMultiplier
  <2> HIDE DEF share
  <2> QED BY <2>1, <2>2, Limits DEF Most, Least
<1> QED BY <1>3, <1>4

-----------------------------------------------------------------------------
(* The size of an entry *)

LEMMA BookTypes ==
  ASSUME Types
  PROVE  OpenNotional \in Int /\ Cap \in Nat /\ Budget \in Nat /\ Headroom \in Int
<1>1. OpenNotional \in Int
  <2>1. IsFiniteSet(Held) /\ \A s \in Held : book[s].notional \in Int
    BY DEF Types, Held, Position
  <2>2. OpenNotional = NotionalOf(book, Held) BY DEF OpenNotional, NotionalOf
  <2>3. NotionalOf(book, Held) \in Int BY <2>1, NotionalType
  <2> QED BY <2>2, <2>3
<1>2. cycle.equity \in Nat BY DEF Types
<1>3. Cap \in Nat /\ Budget \in Nat /\ Percent(Gross, cycle.equity) \in Nat
  BY <1>2, Limits, PercentType DEF Cap, Budget
<1> QED BY <1>1, <1>3 DEF Headroom

LEMMA ClampType ==
  ASSUME Types, NEW n \in Nat
  PROVE  /\ ClampGross(n) \in Nat /\ ClampGross(n) <= n
         /\ Headroom > 0 => ClampGross(n) <= Headroom
BY BookTypes DEF ClampGross, Least

LEMMA RiskSizedType ==
  ASSUME Types, NEW stop \in Nat \ {0}
  PROVE  /\ (100 * Budget) \div stop \in Nat
         /\ stop * ((100 * Budget) \div stop) <= 100 * Budget
         /\ RiskSized(stop) \in Nat /\ RiskSized(stop) <= Cap
<1>1. 100 * Budget \in Nat /\ Cap \in Nat BY BookTypes
<1>2. (100 * Budget) \div stop \in Nat /\ stop * ((100 * Budget) \div stop) <= 100 * Budget
  BY <1>1, Division
<1> HIDE DEF Budget, Cap
<1> QED BY <1>1, <1>2 DEF RiskSized, Least

\* What the risk manager approves loses at most the risk budget at its stop, and is nothing
\* when the cap is.
LEMMA QuantityBound ==
  ASSUME Types, NEW atr \in Atrs, NEW f \in Edges
  PROVE  /\ Quantity(atr, f) \in Nat
         /\ Quantity(atr, f) * (atr * AtrMultiplier) <= 100 * Budget
         /\ Cap = 0 => Quantity(atr, f) = 0
<1> DEFINE stop == atr * AtrMultiplier
           sized == Percent(VolMultiplier(atr), RiskSized(stop))
           scaled == Percent(KellyScale(f), sized)
           limit == (100 * Budget) \div stop
<1>1. stop \in Nat \ {0}
  <2>1. \A a, b \in Nat \ {0} : a * b \in Nat \ {0} OBVIOUS
  <2> QED BY <2>1, AtrsAssumption, Limits
<1>2. Quantity(atr, f) = Least(ClampGross(scaled), limit) BY DEF Quantity
<1> HIDE DEF stop
<1>3. limit \in Nat /\ stop * limit <= 100 * Budget BY <1>1, RiskSizedType
<1>4. RiskSized(stop) \in Nat /\ RiskSized(stop) <= Cap BY <1>1, RiskSizedType
<1> HIDE DEF limit
<1>5. sized \in Nat BY <1>4, VolType, PercentType
<1>6. scaled \in Nat
  <2> HIDE DEF sized
  <2> QED BY <1>5, KellyType, PercentType
<1>7. ClampGross(scaled) \in Nat /\ ClampGross(scaled) <= scaled
  <2> HIDE DEF scaled
  <2> QED BY <1>6, ClampType
<1>8. Quantity(atr, f) \in Nat /\ Quantity(atr, f) <= limit
      /\ Quantity(atr, f) <= ClampGross(scaled)
  <2> HIDE DEF scaled
  <2> QED BY <1>2, <1>3, <1>7 DEF Least
<1>9. Quantity(atr, f) * stop <= 100 * Budget
  <2>1. Quantity(atr, f) * stop <= limit * stop BY <1>1, <1>3, <1>8, ProductGrows
  <2>2. limit * stop = stop * limit BY <1>1, <1>3
  <2>3. Quantity(atr, f) * stop \in Nat /\ limit * stop \in Nat BY <1>1, <1>3, <1>8, ProductType
  <2>4. 100 * Budget \in Nat BY BookTypes
  <2> QED BY <1>3, <2>1, <2>2, <2>3, <2>4
<1>10. Cap = 0 => Quantity(atr, f) = 0
  <2> SUFFICES ASSUME Cap = 0 PROVE Quantity(atr, f) = 0 OBVIOUS
  <2>1. RiskSized(stop) = 0 BY <1>4
  <2>2. sized = 0 BY <2>1, VolType, PercentOfZero
  <2>3. scaled = 0 BY <2>2, KellyType, PercentOfZero
  <2> HIDE DEF scaled
  <2> QED BY <1>7, <1>8, <2>3
<1> QED BY <1>8, <1>9, <1>10 DEF stop

\* The size of an order: within the headroom, within the scaled approval.
LEMMA FinalBound ==
  ASSUME Types, NEW atr \in Atrs, NEW f \in Edges, NEW scale \in Nat
  PROVE  /\ FinalQuantity(atr, f, scale) \in Nat
         /\ Headroom > 0 => FinalQuantity(atr, f, scale) <= Headroom
         /\ Cap = 0 => FinalQuantity(atr, f, scale) = 0
         /\ 100 * FinalQuantity(atr, f, scale)
              <= Percent(scale, DrawdownMultiplier) * Quantity(atr, f)
<1> DEFINE q == Quantity(atr, f)
           m == Percent(scale, DrawdownMultiplier)
           n == Percent(m, q)
<1>1. FinalQuantity(atr, f, scale) = ClampGross(n) BY DEF FinalQuantity
<1>2. q \in Nat /\ (Cap = 0 => q = 0) BY QuantityBound
<1>3. DrawdownMultiplier \in Nat BY DrawdownType
<1>4. m \in Nat BY <1>3, PercentType
<1> HIDE DEF q, m
<1>6. n \in Nat /\ 100 * n <= m * q BY <1>2, <1>4, PercentType
<1>7. Cap = 0 => n = 0 BY <1>2, <1>4, PercentOfZero
<1> HIDE DEF n
<1>8. /\ ClampGross(n) \in Nat /\ ClampGross(n) <= n
      /\ Headroom > 0 => ClampGross(n) <= Headroom
  BY <1>6, ClampType
<1>9. 100 * ClampGross(n) <= m * q
  <2>1. m * q \in Nat BY <1>2, <1>4, ProductType
  <2> QED BY <1>6, <1>8, <2>1
<1>10. Cap = 0 => ClampGross(n) = 0 BY <1>7, <1>8
<1> QED BY <1>1, <1>8, <1>9, <1>10 DEF q, m

-----------------------------------------------------------------------------
(* An entry *)

LEMMA EntryBound ==
  ASSUME Types, NEW s \in Symbols, NEW side \in {"long", "short"}, NEW trend \in BOOLEAN,
         NEW atr \in Atrs, NEW f \in Edges, NEW market \in Markets,
         Enter(s, side, trend, atr, f, market)
  PROVE  /\ book' = [book EXCEPT ![s] = book'[s]]
         /\ book'[s] \in Position /\ book'[s].side = side
         /\ book'[s].notional \in Nat \ {0} /\ book'[s].notional <= Headroom
         /\ book'[s].notional * book'[s].stop <= Budget * Applied(side, market)
<1> DEFINE scale == Applied(side, market)
           n == FinalQuantity(atr, f, Scale(side, market))
           stop == atr * AtrMultiplier
<1>1. book' = [book EXCEPT ![s] = [side |-> side, notional |-> n, stop |-> stop]]
  BY DEF Enter
<1>2. book'[s] = [side |-> side, notional |-> n, stop |-> stop] BY <1>1 DEF Types
<1>3. n > 0 BY DEF Enter
<1>4. scale \in Nat BY ScaleType, DrawdownType, PercentType DEF Applied
<1>5. stop \in Nat BY AtrsAssumption, Limits, ProductType
<1> HIDE DEF stop, scale
<1>6. /\ n \in Nat /\ (Headroom > 0 => n <= Headroom) /\ (Cap = 0 => n = 0)
      /\ 100 * n <= scale * Quantity(atr, f)
  BY ScaleType, FinalBound DEF scale, Applied
<1> HIDE DEF n
<1>7. n <= Headroom
  <2>1. Headroom \in Int /\ Cap \in Nat /\ OpenNotional \in Int BY BookTypes
  <2>2. OpenNotional + Cap <= Percent(Gross, cycle.equity)
    BY DEF Enter, ApproveEntry, ExposureAllows
  <2>3. Percent(Gross, cycle.equity) \in Nat BY Limits, PercentType DEF Types
  <2>4. Cap <= Headroom
    <3> HIDE DEF Cap
    <3> QED BY <2>1, <2>2, <2>3 DEF Headroom
  <2>5. Cap # 0 BY <1>3, <1>6
  <2> QED BY <1>6, <2>1, <2>4, <2>5
<1>8. n * stop <= Budget * scale
  <2> DEFINE q == Quantity(atr, f)
  <2>1. q \in Nat /\ q * stop <= 100 * Budget /\ Budget \in Nat
    BY QuantityBound, BookTypes DEF stop
  <2> HIDE DEF q, Budget
  <2>2. 100 * n <= scale * q BY <1>6 DEF q
  <2>3. scale * q \in Nat /\ q * stop \in Nat /\ n * stop \in Nat /\ Budget * scale \in Nat
    BY <1>4, <1>5, <1>6, <2>1, ProductType
  <2>4. (100 * n) * stop <= (scale * q) * stop BY <1>5, <1>6, <2>2, <2>3, ProductGrows
  <2>5. scale * (q * stop) <= scale * (100 * Budget) BY <1>4, <2>1, <2>3, ProductGrows
  <2>6. (100 * n) * stop = 100 * (n * stop) BY <1>5, <1>6
  <2>7. (scale * q) * stop = scale * (q * stop) BY <1>4, <1>5, <2>1
  <2>8. scale * (100 * Budget) = 100 * (Budget * scale) BY <1>4, <2>1
  <2>9. \A a, b, c \in Nat : 100 * a <= c /\ c <= 100 * b => a <= b OBVIOUS
  <2>10. 100 * (n * stop) <= scale * (q * stop) BY <2>4, <2>6, <2>7
  <2>11. scale * (q * stop) <= 100 * (Budget * scale) BY <2>5, <2>8
  <2>12. scale * (q * stop) \in Nat BY <1>4, <2>3, ProductType
  <2> QED BY <2>3, <2>9, <2>10, <2>11, <2>12
<1>9. [side |-> side, notional |-> n, stop |-> stop] \in Position BY <1>5, <1>6 DEF Position
<1>10. book' = [book EXCEPT ![s] = book'[s]] BY <1>1, <1>2
<1>11. book'[s].side = side /\ book'[s].notional = n /\ book'[s].stop = stop BY <1>2
<1>12. book'[s].notional \in Nat \ {0} /\ book'[s].notional <= Headroom
  BY <1>3, <1>6, <1>7, <1>11
<1>13. book'[s].notional * book'[s].stop <= Budget * Applied(side, market)
  BY <1>8, <1>11 DEF scale
<1> QED BY <1>2, <1>9, <1>10, <1>11, <1>12, <1>13

\* After an entry the book is within the cap of the cycle's equity.
LEMMA EntryWithinGross ==
  ASSUME Types, NEW s \in Symbols, NEW side \in {"long", "short"}, NEW trend \in BOOLEAN,
         NEW atr \in Atrs, NEW f \in Edges, NEW market \in Markets,
         Enter(s, side, trend, atr, f, market)
  PROVE  /\ Held' = Held \cup {s} /\ IsFiniteSet(Held')
         /\ OpenNotional' <= Percent(Gross, cycle.equity)
<1>1. /\ book' = [book EXCEPT ![s] = book'[s]]
      /\ book'[s] \in Position /\ book'[s].side = side
      /\ book'[s].notional \in Nat \ {0} /\ book'[s].notional <= Headroom
  BY EntryBound
<1>2. s \notin Held BY DEF Enter, Held
<1>3. book'[s] # Flat BY <1>1 DEF Flat
<1>4. \A t \in Symbols : t # s => book'[t] = book[t] BY <1>1 DEF Types
<1>5. Held' = Held \cup {s} BY <1>2, <1>3, <1>4 DEF Held
<1>6. IsFiniteSet(Held) /\ \A t \in Held : book[t].notional \in Int
  BY DEF Types, Held, Position
<1>7. \A t \in Held : book'[t] = book[t] BY <1>2, <1>4 DEF Held
<1>8. book'[s].notional \in Int BY <1>1
<1>9. NotionalOf(book', Held \cup {s}) = book'[s].notional + NotionalOf(book, Held)
  BY <1>2, <1>6, <1>7, <1>8, NotionalGrows
<1>10. OpenNotional = NotionalOf(book, Held) BY DEF OpenNotional, NotionalOf
<1>11. (OpenNotional = NotionalOf(book, Held))' BY DEF OpenNotional, NotionalOf
<1>12. OpenNotional' = book'[s].notional + OpenNotional BY <1>5, <1>9, <1>10, <1>11
<1>13. OpenNotional \in Int /\ Percent(Gross, cycle.equity) \in Nat
  BY BookTypes, Limits, PercentType DEF Types
<1>14. OpenNotional' <= Percent(Gross, cycle.equity)
  BY <1>1, <1>12, <1>13 DEF Headroom
<1>15. IsFiniteSet(Held') BY <1>5, <1>6, FS_AddElement
<1> QED BY <1>5, <1>14, <1>15

\* A step that opens a position is an entry of that symbol, by a cycle past its gates.
LEMMA OnlyEntries ==
  ASSUME Types, [Next]_vars, NEW s \in Symbols, Entered(s)
  PROVE  /\ cycle.pc = "scan"
         /\ \E side \in {"long", "short"}, trend \in BOOLEAN, atr \in Atrs, f \in Edges,
               market \in Markets : Enter(s, side, trend, atr, f, market)
<1>1. book[s] = Flat /\ book'[s] # Flat BY DEF Entered
<1>2. \A t \in Symbols : ~Close(t)
  <2> SUFFICES ASSUME NEW t \in Symbols, Close(t) PROVE FALSE OBVIOUS
  <2>1. book' = [book EXCEPT ![t] = Flat] BY DEF Close
  <2> QED BY <1>1, <2>1 DEF Types
<1>3. book' # book BY <1>1
<1>4. PICK t \in Symbols, side \in {"long", "short"}, trend \in BOOLEAN, atr \in Atrs,
           f \in Edges, market \in Markets : Enter(t, side, trend, atr, f, market)
  BY <1>2, <1>3 DEF Next, vars, Refresh, Trip, Gates, Rest, Skip, Move, Tick, Midnight, Reset
<1>5. book' = [book EXCEPT ![t] = book'[t]] BY <1>4, EntryBound
<1>6. t = s BY <1>1, <1>5 DEF Types
<1> QED BY <1>4, <1>6 DEF Enter

-----------------------------------------------------------------------------
(* The invariant is inductive *)

LEMMA RiskInit == Init => RiskInv
<1> SUFFICES ASSUME Init PROVE RiskInv OBVIOUS
<1>1. Held = {} BY DEF Init, Held
<1>2. IsFiniteSet(Held) BY <1>1, FS_EmptySet
<1>3. book \in [Symbols -> Position] BY DEF Init, Position, Flat
<1>4. last \in [equity : Nat, source : Sources \cup {"none"}, age : Nat]
  BY DEF Init
<1>5. peak \in [Sources -> Nat] BY DEF Init, Sources
<1>6. cycle \in [pc : {"idle", "gates", "scan"}, equity : Nat, left : SUBSET Symbols]
  BY DEF Init
<1>7. worth \in Worths /\ carried \in Int /\ tripped \in BOOLEAN /\ reported \in Nat
  <2>1. None \in Int BY DEF None
  <2>2. worth \in Worths /\ carried = None /\ tripped = FALSE /\ reported = 0 BY DEF Init
  <2> QED BY <2>1, <2>2
<1>8. Types BY <1>2, <1>3, <1>4, <1>5, <1>6, <1>7 DEF Types
<1> QED BY <1>8 DEF Init, RiskInv, Trust

LEMMA FetchedType ==
  ASSUME Types, NEW fails \in BOOLEAN,
         NEW unpriced \in {0} \cup (IF Held = {} THEN {} ELSE Unpriced)
  PROVE  /\ Fetched(fails, unpriced) \in [equity : Nat, source : Sources, age : Nat]
         /\ Fetched(fails, unpriced).age = 0
         /\ fails => /\ Fetched(fails, unpriced).source = "fallback"
                     /\ Fetched(fails, unpriced).equity \in {Fallback, last.equity}
         /\ ~fails => /\ Fetched(fails, unpriced).source = "exchange"
                      /\ Fetched(fails, unpriced).equity <= worth
<1>1. worth \in Nat BY WorthsAssumption DEF Types
<1>2. unpriced \in 0..worth BY <1>1, UnpricedAssumption DEF Types
<1>3. Copied \in Nat /\ Copied \in {Fallback, last.equity} BY Limits DEF Types, Copied
<1>4. CASE fails BY <1>3, <1>4 DEF Fetched, Snapshot, Sources
<1>5. CASE ~fails
  <2>1. worth - unpriced \in Nat /\ worth - unpriced <= worth BY <1>1, <1>2
  <2> QED BY <1>5, <2>1 DEF Fetched, Snapshot, Sources
<1> QED BY <1>4, <1>5

LEMMA RefreshStep == ASSUME RiskInv, Refresh PROVE RiskInv'
<1> USE DEF RiskInv
<1>1. PICK fails \in BOOLEAN, unpriced \in {0} \cup (IF Held = {} THEN {} ELSE Unpriced) :
        LET snap == Fetched(fails, unpriced) IN
        /\ last' = snap
        /\ peak' = [peak EXCEPT ![snap.source] = Most(@, snap.equity)]
        /\ carried' = IF carried = None THEN snap.equity ELSE carried
        /\ reported' = IF fails THEN 0 ELSE worth
        /\ cycle' = [pc |-> "gates", equity |-> snap.equity, left |-> {}]
  BY DEF Refresh
<1>2. UNCHANGED <<worth, tripped, book>> BY DEF Refresh
<1> DEFINE snap == Fetched(fails, unpriced)
<1>3. /\ snap \in [equity : Nat, source : Sources, age : Nat]
      /\ fails => snap.source = "fallback"
      /\ ~fails => snap.source = "exchange" /\ snap.equity <= worth
  BY FetchedType
<1>4. /\ last' = snap
      /\ peak' = [peak EXCEPT ![snap.source] = Most(@, snap.equity)]
      /\ carried' = IF carried = None THEN snap.equity ELSE carried
      /\ reported' = IF fails THEN 0 ELSE worth
      /\ cycle' = [pc |-> "gates", equity |-> snap.equity, left |-> {}]
  BY <1>1
<1> HIDE DEF snap
<1>5. worth \in Nat /\ reported \in Nat BY WorthsAssumption DEF Types
<1>6. reported' \in Nat /\ (~fails => reported' = worth) BY <1>4, <1>5
<1>7. peak' \in [Sources -> Nat] BY <1>3, <1>4 DEF Types, Most
<1>8. Held' = Held BY <1>2 DEF Held
<1>9. Types' BY <1>2, <1>3, <1>4, <1>6, <1>7, <1>8 DEF Types
<1>10. last'.source = "exchange" => last'.equity <= reported'
  <2>1. snap.equity \in Nat BY <1>3
  <2> QED BY <1>3, <1>4, <1>5, <1>6, <2>1
<1>11. cycle'.pc = "gates" /\ cycle'.equity = last'.equity /\ last'.source # "none"
  BY <1>3, <1>4 DEF Sources
<1> QED BY <1>9, <1>10, <1>11 DEF Trust

LEMMA GateSteps == ASSUME RiskInv, Trip \/ Gates \/ Rest PROVE RiskInv'
<1> USE DEF RiskInv
<1>1. Held' = Held BY DEF Trip, Gates, Rest, Held
<1>2. Types'
  <2>1. cycle' \in [pc : {"idle", "gates", "scan"}, equity : Nat, left : SUBSET Symbols]
    <3>1. CASE Trip \/ Rest BY <3>1 DEF Trip, Rest, Types
    <3>2. CASE Gates
      <4>1. cycle' = [cycle EXCEPT !.pc = "scan", !.left = Symbols] BY <3>2 DEF Gates
      <4> QED BY <4>1 DEF Types
    <3> QED BY <3>1, <3>2
  <2>2. tripped' \in BOOLEAN BY DEF Trip, Gates, Rest, Types
  <2>3. UNCHANGED <<worth, last, peak, carried, book, reported>> BY DEF Trip, Gates, Rest
  <2> QED BY <1>1, <2>1, <2>2, <2>3 DEF Types
<1>3. CASE Trip \/ Rest BY <1>2, <1>3 DEF Trip, Rest, Trust
<1>4. CASE Gates
  <2>1. last.source \in {"exchange"} BY <1>4 DEF Gates, Trustworthy, Types, Trust, Sources
  <2>2. cycle' = [cycle EXCEPT !.pc = "scan", !.left = Symbols] BY <1>4 DEF Gates
  <2>3. cycle'.pc = "scan" /\ cycle'.equity = cycle.equity BY <2>2 DEF Types
  <2>4. cycle.equity <= reported BY <1>4, <2>1 DEF Gates, Trust
  <2> QED BY <1>2, <1>4, <2>1, <2>3, <2>4 DEF Gates, Trust
<1> QED BY <1>3, <1>4

LEMMA EnterStep ==
  ASSUME RiskInv, NEW s \in Symbols, NEW side \in {"long", "short"}, NEW trend \in BOOLEAN,
         NEW atr \in Atrs, NEW f \in Edges, NEW market \in Markets,
         Enter(s, side, trend, atr, f, market)
  PROVE  RiskInv'
<1> USE DEF RiskInv
<1>1. book' = [book EXCEPT ![s] = book'[s]] /\ book'[s] \in Position BY EntryBound
<1>2. book' \in [Symbols -> Position] BY <1>1 DEF Types
<1>3. IsFiniteSet(Held') BY EntryWithinGross
<1>4. Types' BY <1>2, <1>3 DEF Enter, Types
<1> QED BY <1>4 DEF Enter, Trust, Types

LEMMA BookSteps ==
  ASSUME RiskInv, NEW s \in Symbols, Skip(s) \/ Close(s)
  PROVE  RiskInv'
<1> USE DEF RiskInv
<1>1. CASE Skip(s)
  <2>1. Held' = Held BY <1>1 DEF Skip, Held
  <2> QED BY <1>1, <2>1 DEF Skip, Types, Trust
<1>2. CASE Close(s)
  <2>1. book' \in [Symbols -> Position] BY <1>2 DEF Close, Types, Position, Flat
  <2>2. Held' \subseteq Held BY <1>2 DEF Close, Held, Types
  <2>3. IsFiniteSet(Held') BY <2>2, FS_Subset DEF Types
  <2> QED BY <1>2, <2>1, <2>3 DEF Close, Types, Trust
<1> QED BY <1>1, <1>2

LEMMA OtherSteps == ASSUME RiskInv, Move \/ Tick \/ Midnight \/ Reset PROVE RiskInv'
<1> USE DEF RiskInv
<1>1. CASE Move \/ Reset
  <2>1. Held' = Held BY <1>1 DEF Move, Reset, Held
  <2> QED BY <1>1, <2>1 DEF Move, Reset, Types, Trust
<1>2. CASE Tick
  <2>1. Held' = Held BY <1>2 DEF Tick, Held
  <2>2. last' = [last EXCEPT !.age = @ + 1] BY <1>2 DEF Tick
  <2>3. last' \in [equity : Nat, source : Sources \cup {"none"}, age : Nat]
    BY <2>2 DEF Types
  <2>4. last'.equity = last.equity /\ last'.source = last.source BY <2>2 DEF Types
  <2> QED BY <1>2, <2>1, <2>3, <2>4 DEF Tick, Types, Trust
<1>3. CASE Midnight
  <2>1. Held' = Held BY <1>3 DEF Midnight, Held
  <2> QED BY <1>3, <2>1 DEF Midnight, Types, Trust
<1> QED BY <1>1, <1>2, <1>3

LEMMA RiskForward == RiskInv /\ [Next]_vars => RiskInv'
<1> SUFFICES ASSUME RiskInv, [Next]_vars PROVE RiskInv' OBVIOUS
<1>1. CASE Refresh BY <1>1, RefreshStep
<1>2. CASE Trip \/ Gates \/ Rest BY <1>2, GateSteps
<1>3. ASSUME NEW s \in Symbols, NEW side \in {"long", "short"}, NEW trend \in BOOLEAN,
             NEW atr \in Atrs, NEW f \in Edges, NEW market \in Markets,
             Enter(s, side, trend, atr, f, market)
      PROVE  RiskInv'
  BY <1>3, EnterStep
<1>4. ASSUME NEW s \in Symbols, Skip(s) \/ Close(s) PROVE RiskInv' BY <1>4, BookSteps
<1>5. CASE Move \/ Tick \/ Midnight \/ Reset BY <1>5, OtherSteps
<1>6. CASE UNCHANGED vars
  <2>1. Held' = Held BY <1>6 DEF vars, Held
  <2> QED BY <1>6, <2>1 DEF vars, RiskInv, Types, Trust
<1> QED BY <1>1, <1>2, <1>3, <1>4, <1>5, <1>6 DEF Next

-----------------------------------------------------------------------------
(* The theorems *)

\* The inductive invariant of run_cycle's sizing: the types, and that the equity the gates
\* let through was reported by the exchange.
THEOREM RiskHolds == Spec => []RiskInv
BY RiskInit, RiskForward, PTL DEF Spec

\* GrossCapped (services/trading_engine.py _approve_risk_and_size): whatever the multipliers
\* and the positions opened before it in the cycle, an entry leaves the whole book within
\* max_total_exposure_pct of the equity it was sized with.
THEOREM CapHolds == Spec => GrossCapped
<1>1. RiskInv /\ [Next]_vars =>
        [\A s \in Symbols : Entered(s) => OpenNotional' <= Percent(Gross, cycle.equity)]_vars
  <2> SUFFICES ASSUME RiskInv, [Next]_vars, NEW s \in Symbols, Entered(s)
               PROVE  OpenNotional' <= Percent(Gross, cycle.equity)
    OBVIOUS
  <2>1. PICK side \in {"long", "short"}, trend \in BOOLEAN, atr \in Atrs, f \in Edges,
             market \in Markets : Enter(s, side, trend, atr, f, market)
    BY OnlyEntries DEF RiskInv
  <2> QED BY <2>1, EntryWithinGross DEF RiskInv
<1> QED BY <1>1, RiskHolds, PTL DEF Spec, GrossCapped

\* A finite set of integers has a greatest member.
LEMMA GreatestOf ==
  ASSUME NEW S, IsFiniteSet(S), S \subseteq Int, S # {}
  PROVE  Max(S) \in S /\ \A y \in S : y <= Max(S)
<1> DEFINE Above(x) == {y \in S : y > x}
           Tails == {Above(x) : x \in S}
<1>1. PICK m \in Tails : \A t \in Tails : t \subseteq m => t = m
  <2>1. Tails \subseteq SUBSET S OBVIOUS
  <2>2. Tails # {} OBVIOUS
  <2> HIDE DEF Tails
  <2>3. IsFiniteSet(S) OBVIOUS
  <2> QED BY ONLY <2>1, <2>2, <2>3, SmallestSet
<1>2. PICK x \in S : m = Above(x) OBVIOUS
<1>3. ASSUME NEW y \in S, y > x PROVE FALSE
  <2>1. Above(y) \in Tails OBVIOUS
  <2>2. Above(y) \subseteq m
    <3>1. \A a, b, c \in Int : a > b /\ b > c => a > c OBVIOUS
    <3>2. x \in Int /\ y \in Int OBVIOUS
    <3>3. ASSUME NEW z \in S, z > y PROVE z > x BY <1>3, <3>1, <3>2, <3>3
    <3> QED BY <1>2, <3>3
  <2>3. Above(y) = m BY <1>1, <2>1, <2>2
  <2>4. y \in m /\ y \notin Above(y) BY <1>2, <1>3
  <2> QED BY <2>3, <2>4
<1>4. \A y \in S : x >= y BY <1>3
<1> QED BY <1>2, <1>4 DEF Max

\* RiskKept (services/risk/manager.py approve_entry, trading_engine.py _approve_risk_and_size):
\* an entry loses at its stop at most the risk budget of the cycle's equity, times the
\* multiplier found for it, whatever the volatility, the track record and the market.
THEOREM BudgetHolds == Spec => RiskKept
<1>1. RiskInv /\ [Next]_vars =>
        [\A s \in Symbols : Entered(s) =>
           \A side \in {"long", "short"}, trend \in BOOLEAN, atr \in Atrs, f \in Edges,
              market \in Markets :
             Enter(s, side, trend, atr, f, market) =>
               book'[s].notional * book'[s].stop <= Budget * Applied(side, market)]_vars
  BY EntryBound DEF RiskInv
<1> QED BY <1>1, RiskHolds, PTL DEF Spec, RiskKept

\* TrustedEquity (workers/scheduler.py:216): no entry is sized with more than the exchange
\* reported to its own cycle; neither the copy nor the placeholder of a failed fetch gets
\* past the gates.
THEOREM EquityHolds == Spec => TrustedEquity
<1>1. RiskInv /\ [Next]_vars =>
        [\A s \in Symbols : Entered(s) => cycle.equity <= reported]_vars
  BY OnlyEntries DEF RiskInv, Trust
<1> QED BY <1>1, RiskHolds, PTL DEF Spec, TrustedEquity

\* TypeOK: the bounds of the types, and the one on a position, which the placeholder equity
\* would break, for an account that has a greatest worth.
Bounded == RiskInv /\ TypeOK

LEMMA Tops ==
  ASSUME IsFiniteSet(Worths), worth \in Worths
  PROVE  /\ Max(Worths) \in Nat /\ \A w \in Worths : w <= Max(Worths) /\ w \in Equities
         /\ Fallback \in Equities /\ 0 \in Equities
<1>1. Worths \subseteq Int /\ Worths # {} BY WorthsAssumption
<1>2. Max(Worths) \in Worths /\ \A w \in Worths : w <= Max(Worths) BY <1>1, GreatestOf
<1>3. Max(Worths) \in Nat /\ Fallback \in Nat BY <1>2, WorthsAssumption, Limits
<1> HIDE DEF Max
<1> QED BY <1>2, <1>3, WorthsAssumption DEF Equities, Most

LEMMA BoundedInit == IsFiniteSet(Worths) /\ Init => Bounded
<1> SUFFICES ASSUME IsFiniteSet(Worths), Init PROVE Bounded OBVIOUS
<1>1. worth \in Worths BY DEF Init
<1>2. 0 \in Equities BY <1>1, Tops
<1>3. MaxAge \in Nat BY Limits
<1>4. last \in [equity: Equities, source: Sources \cup {"none"}, age: 0..MaxAge + 1]
  BY <1>2, <1>3 DEF Init
<1>5. peak \in [Sources -> Equities] BY <1>2 DEF Init, Sources
<1>6. cycle \in [pc: {"idle", "gates", "scan"}, equity: Equities, left: SUBSET Symbols]
  BY <1>2 DEF Init
<1>7. Held = {} BY DEF Init, Held
<1>8. carried = None /\ tripped = FALSE /\ reported = 0 BY DEF Init
<1> QED BY <1>1, <1>4, <1>5, <1>6, <1>7, <1>8, RiskInit DEF Bounded, TypeOK

LEMMA BoundedRefresh ==
  ASSUME IsFiniteSet(Worths), Bounded, Refresh
  PROVE  TypeOK'
<1> USE DEF Bounded
<1>1. PICK fails \in BOOLEAN, unpriced \in {0} \cup (IF Held = {} THEN {} ELSE Unpriced) :
        LET snap == Fetched(fails, unpriced) IN
        /\ last' = snap
        /\ peak' = [peak EXCEPT ![snap.source] = Most(@, snap.equity)]
        /\ carried' = IF carried = None THEN snap.equity ELSE carried
        /\ reported' = IF fails THEN 0 ELSE worth
        /\ cycle' = [pc |-> "gates", equity |-> snap.equity, left |-> {}]
  BY DEF Refresh
<1>2. UNCHANGED <<worth, tripped, book>> BY DEF Refresh
<1> DEFINE snap == Fetched(fails, unpriced)
<1>3. /\ snap \in [equity : Nat, source : Sources, age : Nat] /\ snap.age = 0
      /\ fails => snap.equity \in {Fallback, last.equity}
      /\ ~fails => snap.equity <= worth
  BY FetchedType DEF RiskInv
<1>4. /\ last' = snap
      /\ peak' = [peak EXCEPT ![snap.source] = Most(@, snap.equity)]
      /\ carried' = IF carried = None THEN snap.equity ELSE carried
      /\ reported' = IF fails THEN 0 ELSE worth
      /\ cycle' = [pc |-> "gates", equity |-> snap.equity, left |-> {}]
  BY <1>1
<1> HIDE DEF snap
<1>5. /\ worth \in Worths /\ worth \in Nat /\ reported \in Worths \cup {0} /\ reported \in Nat
      /\ MaxAge \in Nat
  BY WorthsAssumption, Limits DEF TypeOK
<1>6. Max(Worths) \in Nat /\ worth <= Max(Worths) /\ worth \in Equities /\ Fallback \in Equities
  BY <1>5, Tops
<1>7. snap.equity \in Equities
  <2>1. CASE fails BY <1>3, <1>6, <2>1 DEF TypeOK
  <2>2. CASE ~fails
    <3>1. snap.equity \in Nat /\ snap.equity <= worth BY <1>3, <2>2
    <3>2. \A n \in Nat : n <= worth => n \in Equities
      <4>1. Fallback \in Nat BY Limits
      <4> HIDE DEF Max
      <4> QED BY <1>5, <1>6, <4>1 DEF Equities, Most
    <3> QED BY <3>1, <3>2
  <2> QED BY <2>1, <2>2
<1>8. last' \in [equity: Equities, source: Sources \cup {"none"}, age: 0..MaxAge + 1]
  BY <1>3, <1>4, <1>5, <1>7
<1>9. peak' \in [Sources -> Equities]
  <2>1. peak \in [Sources -> Equities] /\ snap.source \in Sources BY <1>3 DEF TypeOK
  <2>2. Most(peak[snap.source], snap.equity) \in Equities BY <1>7, <2>1 DEF Most
  <2> HIDE DEF Equities
  <2> QED BY <1>4, <2>1, <2>2
<1>10. reported' \in Worths \cup {0} BY <1>4, <1>5
<1>11. cycle' \in [pc: {"idle", "gates", "scan"}, equity: Equities, left: SUBSET Symbols]
  BY <1>4, <1>7
<1>12. carried' \in Equities \cup {None} BY <1>4, <1>7 DEF TypeOK
<1>13. Held' = Held BY <1>2 DEF Held
<1> QED BY <1>2, <1>8, <1>9, <1>10, <1>11, <1>12, <1>13 DEF TypeOK

LEMMA BoundedEnter ==
  ASSUME IsFiniteSet(Worths), Bounded, NEW s \in Symbols, NEW side \in {"long", "short"},
         NEW trend \in BOOLEAN, NEW atr \in Atrs, NEW f \in Edges, NEW market \in Markets,
         Enter(s, side, trend, atr, f, market)
  PROVE  TypeOK'
<1> USE DEF Bounded
<1>1. /\ book' = [book EXCEPT ![s] = book'[s]]
      /\ book'[s].notional \in Nat \ {0} /\ book'[s].notional <= Headroom
  BY EntryBound DEF RiskInv
<1>2. Held' = Held \cup {s} BY EntryWithinGross DEF RiskInv
<1>3. OpenNotional \in Nat
  <2>1. IsFiniteSet(Held) /\ \A t \in Held : book[t].notional \in Nat
    BY DEF RiskInv, Types, Held, Position
  <2>2. OpenNotional = NotionalOf(book, Held) BY DEF OpenNotional, NotionalOf
  <2> QED BY <2>1, <2>2, NotionalNat
<1>4. cycle.equity <= Max(Worths) /\ cycle.equity \in Nat /\ Max(Worths) \in Nat
  <2>1. cycle.equity <= reported /\ cycle.equity \in Nat /\ reported \in Nat
    BY DEF RiskInv, Trust, Types, Enter
  <2>2. reported \in Worths \cup {0} /\ worth \in Worths BY DEF TypeOK
  <2>3. Max(Worths) \in Nat /\ \A w \in Worths : w <= Max(Worths) BY <2>2, Tops
  <2> HIDE DEF Max
  <2> QED BY <2>1, <2>2, <2>3
<1>5. Percent(Gross, cycle.equity) <= Percent(Gross, Max(Worths))
      /\ Percent(Gross, cycle.equity) \in Nat /\ Percent(Gross, Max(Worths)) \in Nat
  BY <1>4, Limits, PercentGrows, PercentType
<1>6. book'[s].notional \in 1..Percent(Gross, Max(Worths))
  BY <1>1, <1>3, <1>5 DEF Headroom
<1>7. ASSUME NEW t \in Held' PROVE book'[t].notional \in 1..Percent(Gross, Max(Worths))
  <2>1. CASE t = s BY <2>1, <1>6
  <2>2. CASE t # s
    <3>1. t \in Held /\ t \in Symbols BY <1>2, <1>7, <2>2 DEF Held
    <3>2. book'[t] = book[t] BY <1>1, <2>2, <3>1 DEF RiskInv, Types
    <3> QED BY <3>1, <3>2 DEF TypeOK
  <2> QED BY <2>1, <2>2
<1>8. cycle' \in [pc: {"idle", "gates", "scan"}, equity: Equities, left: SUBSET Symbols]
  <2>1. cycle' = [cycle EXCEPT !.left = @ \ {s}] BY DEF Enter
  <2> QED BY <2>1 DEF TypeOK
<1>9. UNCHANGED <<worth, last, peak, carried, tripped, reported>> BY DEF Enter
<1> QED BY <1>7, <1>8, <1>9 DEF TypeOK

LEMMA BoundedOthers ==
  ASSUME IsFiniteSet(Worths), Bounded, NEW s,
         \/ Trip \/ Gates \/ Rest \/ Move \/ Tick \/ Midnight \/ Reset \/ UNCHANGED vars
         \/ s \in Symbols /\ (Skip(s) \/ Close(s))
  PROVE  TypeOK'
<1> USE DEF Bounded
<1>1. CASE Trip \/ Rest
  <2>1. Held' = Held BY <1>1 DEF Trip, Rest, Held
  <2>2. 0 \in Equities BY Tops DEF TypeOK
  <2>3. cycle' = [pc |-> "idle", equity |-> 0, left |-> {}] BY <1>1 DEF Trip, Rest
  <2>4. cycle' \in [pc: {"idle", "gates", "scan"}, equity: Equities, left: SUBSET Symbols]
    BY <2>2, <2>3
  <2>5. tripped' \in BOOLEAN BY <1>1 DEF Trip, Rest, TypeOK
  <2>6. UNCHANGED <<worth, last, peak, carried, book, reported>> BY <1>1 DEF Trip, Rest
  <2> QED BY <2>1, <2>4, <2>5, <2>6 DEF TypeOK
<1>2. CASE Gates
  <2>1. Held' = Held BY <1>2 DEF Gates, Held
  <2>2. cycle' = [cycle EXCEPT !.pc = "scan", !.left = Symbols] BY <1>2 DEF Gates
  <2> QED BY <1>2, <2>1, <2>2 DEF Gates, TypeOK
<1>3. CASE Move \/ Reset \/ Midnight \/ UNCHANGED vars
  <2>1. Held' = Held BY <1>3 DEF Move, Reset, Midnight, vars, Held
  <2> QED BY <1>3, <2>1 DEF Move, Reset, Midnight, vars, TypeOK
<1>4. CASE Tick
  <2>1. Held' = Held BY <1>4 DEF Tick, Held
  <2>2. last' = [last EXCEPT !.age = @ + 1] /\ last.age <= MaxAge BY <1>4 DEF Tick
  <2>3. MaxAge \in Nat BY Limits
  <2>4. last' \in [equity: Equities, source: Sources \cup {"none"}, age: 0..MaxAge + 1]
    BY <2>2, <2>3 DEF TypeOK
  <2> QED BY <1>4, <2>1, <2>4 DEF Tick, TypeOK
<1>5. CASE s \in Symbols /\ Skip(s)
  <2>1. Held' = Held BY <1>5 DEF Skip, Held
  <2>2. cycle' = [cycle EXCEPT !.left = @ \ {s}] BY <1>5 DEF Skip
  <2> QED BY <1>5, <2>1, <2>2 DEF Skip, TypeOK
<1>6. CASE s \in Symbols /\ Close(s)
  <2>1. book' = [book EXCEPT ![s] = Flat] BY <1>6 DEF Close
  <2>2. \A t \in Held' : t \in Held /\ book'[t] = book[t]
    BY <2>1 DEF Held, RiskInv, Types
  <2> QED BY <1>6, <2>2 DEF Close, TypeOK
<1> QED BY <1>1, <1>2, <1>3, <1>4, <1>5, <1>6

\* TypeOK (models/account.py, models/trading.py): the account, the snapshots, the cycle
\* and the book keep their types; peak and snapshots stay among the balances there are.
THEOREM TypeCorrect ==
  ASSUME IsFiniteSet(Worths)
  PROVE  Spec => []TypeOK
<1>1. Init => Bounded BY BoundedInit
<1>2. Bounded /\ [Next]_vars => Bounded'
  <2> SUFFICES ASSUME Bounded, [Next]_vars PROVE Bounded' OBVIOUS
  <2>1. RiskInv' BY RiskForward DEF Bounded
  <2> SUFFICES TypeOK' BY <2>1 DEF Bounded
  <2>2. CASE Refresh BY <2>2, BoundedRefresh
  <2>3. ASSUME NEW s \in Symbols, NEW side \in {"long", "short"}, NEW trend \in BOOLEAN,
               NEW atr \in Atrs, NEW f \in Edges, NEW market \in Markets,
               Enter(s, side, trend, atr, f, market)
        PROVE  TypeOK'
    BY <2>3, BoundedEnter
  <2>4. CASE Trip \/ Gates \/ Rest \/ Move \/ Tick \/ Midnight \/ Reset \/ UNCHANGED vars
    BY <2>4, BoundedOthers
  <2>5. ASSUME NEW s \in Symbols, Skip(s) \/ Close(s) PROVE TypeOK' BY <2>5, BoundedOthers
  <2> QED BY <2>2, <2>3, <2>4, <2>5 DEF Next
<1> QED BY <1>1, <1>2, PTL DEF Spec, Bounded
=============================================================================
