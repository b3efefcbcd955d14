-------------------------- MODULE EntryOrder_proofs --------------------------
(***************************************************************************)
(* Proofs about EntryOrder, for any plans, fills, polls and faults: what   *)
(* an entry may commit, what its row claims, and how many steps it takes.  *)
(***************************************************************************)
EXTENDS EntryOrder, SequenceTheorems, WellFoundedInduction, TLAPS

\* A market order is not answered with an empty fill: _filled_base_qty takes one for a
\* fill that was not reported, and records what was asked for.
MarketsFill == "none" \notin Fills

-----------------------------------------------------------------------------
(* Sums of sequences, by induction over their prefixes *)

LEMMA LeastOf ==
  ASSUME NEW T, T \subseteq Nat, T # {}
  PROVE  \E x \in T : \A y \in T : x <= y
<1> DEFINE R == {ss \in Nat \X Nat : ss[1] < ss[2]}
<1>1. IsWellFoundedOn(OpToRel(<, Nat), Nat) BY NatLessThanWellFounded
<1>2. OpToRel(<, Nat) = R BY DEF OpToRel
<1>3. IsWellFoundedOn(R, Nat) BY <1>1, <1>2
<1>4. \A x, y \in Nat : x < y => <<x, y>> \in R OBVIOUS
<1> HIDE DEF R
<1>5. PICK x \in T : \A y \in T : ~(<<y, x>> \in R) BY <1>3, WFMin
<1>6. ASSUME NEW y \in T PROVE x <= y
  <2>1. x \in Nat /\ y \in Nat /\ ~(<<y, x>> \in R) BY <1>5
  <2>2. ~(y < x) BY <1>4, <2>1
  <2> QED BY <2>1, <2>2
<1> QED BY <1>6

\* What holds of 0 and of the next number holds of all up to n.
LEMMA UpTo ==
  ASSUME NEW n \in Nat, NEW Good, 0 \in Good, \A k \in 1..n : k - 1 \in Good => k \in Good
  PROVE  0..n \subseteq Good
<1> DEFINE Bad == {k \in 0..n : k \notin Good}
<1> SUFFICES ASSUME Bad # {} PROVE FALSE OBVIOUS
<1>1. Bad \subseteq Nat OBVIOUS
<1>2. PICK k \in Bad : \A j \in Bad : k <= j
  <2> HIDE DEF Bad
  <2> QED BY <1>1, LeastOf
<1>3. k \in 1..n /\ k \notin Good OBVIOUS
<1>4. k - 1 \notin Bad
  <2>1. ~(k <= k - 1) BY <1>3
  <2> HIDE DEF Bad
  <2> QED BY <1>2, <2>1
<1>5. k - 1 \in Good BY <1>3, <1>4
<1> QED BY <1>3, <1>5

\* The sums of the prefixes of q up to the n-th.
Sums(q, n, f) ==
  /\ f \in [0..n -> Nat]
  /\ f[0] = 0
  /\ \A k \in 1..n : f[k] = f[k - 1] + q[k]

LEMMA SumsExist ==
  ASSUME NEW q \in Seq(Nat)
  PROVE  \E f : Sums(q, Len(q), f)
<1> DEFINE n == Len(q)
           Good == {k \in 0..n : \E f : Sums(q, k, f)}
<1>1. n \in Nat /\ \A k \in 1..n : q[k] \in Nat BY LenProperties
<1> HIDE DEF n
<1>2. 0 \in Good
  <2> DEFINE f == [k \in 0..0 |-> 0]
  <2>1. Sums(q, 0, f) BY DEF Sums
  <2> QED BY <1>1, <2>1
<1>3. ASSUME NEW k \in 1..n, k - 1 \in Good PROVE k \in Good
  <2>1. PICK f : Sums(q, k - 1, f) BY <1>3
  <2> DEFINE g == [i \in 0..k |-> IF i < k THEN f[i] ELSE f[k - 1] + q[k]]
  <2>2. /\ f \in [0..k - 1 -> Nat] /\ f[0] = 0
        /\ \A i \in 1..k - 1 : f[i] = f[i - 1] + q[i]
    BY <2>1 DEF Sums
  <2>3. f[k - 1] \in Nat /\ q[k] \in Nat BY <1>1, <2>2
  <2>4. g \in [0..k -> Nat] BY <2>2, <2>3
  <2>5. g[0] = 0 BY <2>2
  <2>6. \A i \in 1..k : g[i] = g[i - 1] + q[i] BY <2>2
  <2> HIDE DEF g
  <2>7. Sums(q, k, g) BY <2>4, <2>5, <2>6 DEF Sums
  <2>8. k \in 0..n BY <1>1
  <2> QED BY <2>7, <2>8
<1> HIDE DEF Good
<1>4. 0..n \subseteq Good BY <1>1, <1>2, <1>3, UpTo
<1>5. n \in Good BY <1>1, <1>4
<1> QED BY <1>5 DEF Good, n

LEMMA SumsAgree ==
  ASSUME NEW q, NEW n \in Nat, NEW f, NEW g, Sums(q, n, f), DOMAIN g = 0..n,
         g[0] = 0, \A k \in 1..n : g[k] = g[k - 1] + q[k]
  PROVE  g[n] = f[n]
<1> DEFINE Good == {k \in 0..n : g[k] = f[k]}
<1>1. 0 \in Good BY DEF Sums
<1>2. \A k \in 1..n : k - 1 \in Good => k \in Good BY DEF Sums
<1> HIDE DEF Good
<1>3. 0..n \subseteq Good BY <1>1, <1>2, UpTo
<1>4. n \in Good BY <1>3
<1> QED BY <1>4 DEF Good

\* Total is the last of the sums.
LEMMA TotalIs ==
  ASSUME NEW q \in Seq(Nat), NEW f, Sums(q, Len(q), f)
  PROVE  Total(q) = f[Len(q)]
<1> DEFINE n == Len(q)
           Term(g, k) == IF k = 0 THEN 0 ELSE g[k - 1] + q[k]
           sum == CHOOSE g : g = [k \in 0..n |-> Term(g, k)]
<1>1. n \in Nat BY LenProperties
<1>2. f = [k \in 0..n |-> Term(f, k)]
  <2>1. f = [k \in 0..n |-> f[k]] BY DEF Sums
  <2>2. \A k \in 0..n : f[k] = Term(f, k) BY <1>1 DEF Sums
  <2> HIDE DEF Term
  <2> QED BY <2>1, <2>2
<1>3. sum = [k \in 0..n |-> Term(sum, k)]
  <2> HIDE DEF n, Term
  <2> QED BY <1>2
<1> HIDE DEF sum
<1>4. DOMAIN sum = 0..n /\ \A k \in 0..n : sum[k] = Term(sum, k)
  <2> HIDE DEF Term
  <2> QED BY <1>3
<1>5. sum[0] = 0 /\ \A k \in 1..n : sum[k] = sum[k - 1] + q[k] BY <1>1, <1>4
<1>6. sum[n] = f[n]
  <2> HIDE DEF n, Term
  <2>1. Sums(q, n, f) BY DEF n
  <2>2. DOMAIN sum = 0..n BY <1>4
  <2> QED BY <1>1, <1>5, <2>1, <2>2, SumsAgree
<1>7. Total(q) = sum[n] BY DEF Total, sum
<1> QED BY <1>6, <1>7

LEMMA TotalNat ==
  ASSUME NEW q \in Seq(Nat)
  PROVE  Total(q) \in Nat /\ \E f : Sums(q, Len(q), f) /\ Total(q) = f[Len(q)]
<1>1. PICK f : Sums(q, Len(q), f) BY SumsExist
<1>2. Total(q) = f[Len(q)] BY <1>1, TotalIs
<1>3. Len(q) \in Nat BY LenProperties
<1>4. f[Len(q)] \in Nat BY <1>1, <1>3 DEF Sums
<1> QED BY <1>1, <1>2, <1>4

LEMMA TotalEmpty == Total(<<>>) = 0
<1>1. <<>> \in Seq(Nat) /\ Len(<<>>) = 0 OBVIOUS
<1>2. PICK f : Sums(<<>>, 0, f) /\ Total(<<>>) = f[0] BY <1>1, TotalNat
<1> QED BY <1>2 DEF Sums

\* One more number.
LEMMA TotalGrows ==
  ASSUME NEW q \in Seq(Nat), NEW r \in Seq(Nat), Len(r) = Len(q) + 1,
         \A k \in 1..Len(q) : r[k] = q[k]
  PROVE  Total(r) = Total(q) + r[Len(r)]
<1> DEFINE n == Len(q)
<1>1. n \in Nat /\ \A k \in 1..n + 1 : r[k] \in Nat BY LenProperties
<1>2. PICK f : Sums(q, n, f) /\ Total(q) = f[n] BY TotalNat
<1> HIDE DEF n
<1> DEFINE g == [k \in 0..n + 1 |-> IF k <= n THEN f[k] ELSE f[n] + r[n + 1]]
<1>3. /\ f \in [0..n -> Nat] /\ f[0] = 0
      /\ \A k \in 1..n : f[k] = f[k - 1] + r[k]
  BY <1>2 DEF Sums, n
<1>4. f[n] \in Nat /\ r[n + 1] \in Nat BY <1>1, <1>3
<1>5. g \in [0..n + 1 -> Nat]
  <2>1. ASSUME NEW k \in 0..n + 1 PROVE g[k] \in Nat
    <3>1. CASE k <= n
      <4>1. k \in 0..n /\ g[k] = f[k] BY <1>1, <3>1
      <4> QED BY <1>3, <4>1
    <3>2. CASE ~(k <= n) BY <1>1, <1>4, <3>2
    <3> QED BY <3>1, <3>2
  <2> QED BY <2>1
<1>6. g[0] = 0 BY <1>1, <1>3
<1>7. ASSUME NEW k \in 1..n + 1 PROVE g[k] = g[k - 1] + r[k]
  <2>1. k - 1 \in 0..n /\ g[k - 1] = f[k - 1] BY <1>1
  <2>2. CASE k <= n
    <3>1. k \in 1..n /\ g[k] = f[k] BY <1>1, <2>2
    <3>2. f[k] = f[k - 1] + r[k] BY <1>3, <3>1
    <3> QED BY <2>1, <3>1, <3>2
  <2>3. CASE ~(k <= n)
    <3>1. k = n + 1 BY <1>1, <2>3
    <3>2. g[k] = f[n] + r[k] /\ k - 1 = n BY <1>1, <3>1
    <3> QED BY <2>1, <3>2
  <2> QED BY <2>2, <2>3
<1>8. g[n + 1] = f[n] + r[n + 1] BY <1>1
<1> HIDE DEF g
<1>9. Sums(r, n + 1, g)
  <2>1. n + 1 - 1 = n BY <1>1
  <2> QED BY <1>5, <1>6, <1>7 DEF Sums
<1>10. Total(r) = g[n + 1] BY <1>9, TotalIs DEF n
<1> QED BY <1>2, <1>8, <1>10 DEF n

\* The sums of the larger are the larger.
LEMMA AddMonotone ==
  ASSUME NEW a \in Nat, NEW b \in Nat, NEW c \in Nat, NEW d \in Nat, a <= c, b <= d
  PROVE  a + b <= c + d
OBVIOUS

\* Number by number, the sum is as large.
LEMMA TotalMonotone ==
  ASSUME NEW q \in Seq(Nat), NEW r \in Seq(Nat), Len(q) <= Len(r),
         \A k \in 1..Len(q) : q[k] <= r[k]
  PROVE  Total(q) <= Total(r)
<1> DEFINE n == Len(q)
           m == Len(r)
<1>1. n \in Nat /\ m \in Nat /\ n <= m /\ (\A k \in 1..n : q[k] \in Nat) /\ \A k \in 1..m : r[k] \in Nat
  BY LenProperties
<1>2. PICK f : Sums(q, n, f) /\ Total(q) = f[n] BY TotalNat
<1>3. PICK g : Sums(r, m, g) /\ Total(r) = g[m] BY TotalNat
<1>4. \A k \in 1..n : q[k] <= r[k] OBVIOUS
<1> HIDE DEF n, m
<1>5. /\ f \in [0..n -> Nat] /\ f[0] = 0 /\ \A k \in 1..n : f[k] = f[k - 1] + q[k]
      /\ g \in [0..m -> Nat] /\ g[0] = 0 /\ \A k \in 1..m : g[k] = g[k - 1] + r[k]
  BY <1>2, <1>3 DEF Sums
<1> DEFINE Good == {k \in 0..m : IF k <= n THEN f[k] <= g[k] ELSE f[n] <= g[k]}
<1>6. 0 \in Good BY <1>1, <1>5
<1>7. ASSUME NEW k \in 1..m, k - 1 \in Good PROVE k \in Good
  <2>1. k \in 0..m /\ k - 1 \in 0..m /\ g[k] = g[k - 1] + r[k] /\ g[k - 1] \in Nat /\ r[k] \in Nat BY <1>1, <1>5
  <2>2. CASE k <= n
    <3>1. k \in 1..n /\ k - 1 \in 0..n /\ f[k] = f[k - 1] + q[k] /\ f[k - 1] \in Nat /\ q[k] \in Nat
      BY <1>1, <1>5, <2>1, <2>2
    <3>2. f[k - 1] <= g[k - 1] BY <1>7, <3>1, <2>2
    <3>3. q[k] <= r[k] BY <1>4, <3>1
    <3>4. f[k - 1] + q[k] <= g[k - 1] + r[k] BY <2>1, <3>1, <3>2, <3>3, AddMonotone
    <3>5. f[k] <= g[k] BY <2>1, <3>1, <3>4
    <3> QED BY <2>1, <2>2, <3>5
  <2>3. CASE ~(k <= n)
    <3>1. f[n] \in Nat BY <1>1, <1>5
    <3>2. f[n] <= g[k - 1]
      <4>1. CASE k - 1 <= n
        <5>1. k - 1 = n BY <1>1, <2>1, <2>3, <4>1
        <5> QED BY <1>7, <5>1
      <4>2. CASE ~(k - 1 <= n) BY <1>7, <4>2
      <4> QED BY <4>1, <4>2
    <3>3. f[n] <= g[k] BY <2>1, <3>1, <3>2
    <3> QED BY <2>1, <2>3, <3>3
  <2> QED BY <2>2, <2>3
<1> HIDE DEF Good
<1>8. 0..m \subseteq Good BY <1>1, <1>6, <1>7, UpTo
<1>9. m \in Good BY <1>1, <1>8
<1>10. f[n] <= g[m]
  <2>1. CASE m <= n
    <3>1. m = n BY <1>1, <2>1
    <3> QED BY <1>9, <2>1, <3>1 DEF Good
  <2>2. CASE ~(m <= n) BY <1>9, <2>2 DEF Good
  <2> QED BY <2>1, <2>2
<1> QED BY <1>2, <1>3, <1>10

\* One number is replaced.
LEMMA TotalReplaced ==
  ASSUME NEW q \in Seq(Nat), NEW r \in Seq(Nat), Len(q) = Len(r), NEW i \in 1..Len(q),
         \A k \in 1..Len(q) : k # i => q[k] = r[k]
  PROVE  Total(q) - q[i] = Total(r) - r[i]
<1> DEFINE n == Len(q)
<1>1. n \in Nat /\ \A k \in 1..n : q[k] \in Nat /\ r[k] \in Nat BY LenProperties
<1>2. PICK f : Sums(q, n, f) /\ Total(q) = f[n] BY TotalNat
<1>3. PICK g : Sums(r, n, g) /\ Total(r) = g[n] BY TotalNat
<1>4. \A k \in 1..n : k # i => q[k] = r[k] OBVIOUS
<1>5. i \in 1..n OBVIOUS
<1> HIDE DEF n
<1>6. /\ f \in [0..n -> Nat] /\ f[0] = 0 /\ \A k \in 1..n : f[k] = f[k - 1] + q[k]
      /\ g \in [0..n -> Nat] /\ g[0] = 0 /\ \A k \in 1..n : g[k] = g[k - 1] + r[k]
  BY <1>2, <1>3 DEF Sums
<1> DEFINE Good == {k \in 0..n : IF k < i THEN f[k] = g[k] ELSE f[k] - q[i] = g[k] - r[i]}
<1>7. 0 \in Good BY <1>1, <1>5, <1>6
<1>8. ASSUME NEW k \in 1..n, k - 1 \in Good PROVE k \in Good
  <2>1. /\ k \in 0..n /\ k - 1 \in 0..n
        /\ g[k] = g[k - 1] + r[k] /\ g[k - 1] \in Nat /\ r[k] \in Nat
        /\ f[k] = f[k - 1] + q[k] /\ f[k - 1] \in Nat /\ q[k] \in Nat
        /\ q[i] \in Nat /\ r[i] \in Nat
    <3>1. k \in 0..n /\ k - 1 \in 0..n BY <1>1
    <3>2. f[k] = f[k - 1] + q[k] /\ g[k] = g[k - 1] + r[k] BY <1>6
    <3>3. f[k - 1] \in Nat /\ g[k - 1] \in Nat BY <1>6, <3>1
    <3> QED BY <1>1, <1>5, <3>1, <3>2, <3>3
  <2>2. CASE k < i
    <3>1. f[k - 1] = g[k - 1] BY <1>5, <1>8, <2>1, <2>2
    <3>2. q[k] = r[k] BY <1>4, <2>2
    <3> QED BY <2>1, <2>2, <3>1, <3>2
  <2>3. CASE k = i
    <3>1. f[k - 1] = g[k - 1] BY <1>5, <1>8, <2>1, <2>3
    <3> QED BY <2>1, <2>3, <3>1
  <2>4. CASE k > i
    <3>1. f[k - 1] - q[i] = g[k - 1] - r[i]
      <4>1. ~(k - 1 < i) BY <1>5, <2>4
      <4> QED BY <1>8, <4>1
    <3>2. q[k] = r[k] BY <1>4, <1>5, <2>4
    <3>3. f[k] - q[i] = g[k] - r[i]
      <4>1. PICK a, b, c, d, x \in Nat :
              a = f[k - 1] /\ b = g[k - 1] /\ c = q[i] /\ d = r[i] /\ x = q[k]
        BY <2>1
      <4>2. f[k] = a + x /\ g[k] = b + x BY <2>1, <3>2, <4>1
      <4>3. a - c = b - d BY <3>1, <4>1
      <4>4. (a + x) - c = (b + x) - d BY <4>3
      <4> QED BY <4>1, <4>2, <4>4
    <3> QED BY <1>5, <2>1, <2>4, <3>3
  <2> QED BY <1>5, <2>2, <2>3, <2>4
<1> HIDE DEF Good
<1>9. 0..n \subseteq Good BY <1>1, <1>7, <1>8, UpTo
<1>10. n \in Good BY <1>1, <1>9
<1>11. f[n] - q[i] = g[n] - r[i] BY <1>1, <1>5, <1>10 DEF Good
<1> QED BY <1>2, <1>3, <1>11

-----------------------------------------------------------------------------
(* What orders fill and are worth, and what the children are to buy *)

Fillings(b) == [k \in DOMAIN b |-> b[k].filled]
Worths(b) == [k \in DOMAIN b |-> Worth(b[k])]

\* What the first n children of the plan p are to buy.
Planned(p, n) == Total([k \in 1..n |-> p[k]])

LEMMA FunctionIsSeq ==
  ASSUME NEW S, NEW n \in Nat, NEW q \in [1..n -> S]
  PROVE  q \in Seq(S) /\ Len(q) = n
BY SeqDef, LenProperties

LEMMA WorthNat == \A o \in OrderType : Worth(o) \in Nat /\ o.filled \in Nat /\ o.qty \in Nat
BY DEF OrderType, Worth

LEMMA Measured ==
  ASSUME NEW b \in Seq(OrderType)
  PROVE  /\ Len(b) \in Nat /\ DOMAIN b = 1..Len(b) /\ \A k \in 1..Len(b) : b[k] \in OrderType
         /\ Fillings(b) \in Seq(Nat) /\ Len(Fillings(b)) = Len(b)
         /\ Worths(b) \in Seq(Nat) /\ Len(Worths(b)) = Len(b)
         /\ \A k \in 1..Len(b) : Fillings(b)[k] = b[k].filled /\ Worths(b)[k] = Worth(b[k])
<1>1. Len(b) \in Nat /\ DOMAIN b = 1..Len(b) /\ \A k \in 1..Len(b) : b[k] \in OrderType
  BY LenProperties, ElementOfSeq
<1>2. Fillings(b) \in [1..Len(b) -> Nat] BY <1>1, WorthNat DEF Fillings
<1>3. Worths(b) \in [1..Len(b) -> Nat] BY <1>1, WorthNat DEF Worths
<1>4. \A k \in 1..Len(b) : Fillings(b)[k] = b[k].filled /\ Worths(b)[k] = Worth(b[k])
  BY <1>1 DEF Fillings, Worths
<1> QED BY <1>1, <1>2, <1>3, <1>4, FunctionIsSeq

\* The three quantities of the model.
LEMMA Quantities ==
  /\ Committed = Total(Worths(book))
  /\ Bought = Total(Fillings(book))
  /\ Reported = Total(Fillings(answers))
BY DEF Committed, Bought, Reported, Worths, Fillings

LEMMA QuantitiesAfter ==
  /\ Committed' = Total(Worths(book'))
  /\ Bought' = Total(Fillings(book'))
  /\ Reported' = Total(Fillings(answers'))
BY DEF Committed, Bought, Reported, Worths, Fillings

\* One more order.
LEMMA Grown ==
  ASSUME NEW b \in Seq(OrderType), NEW c \in Seq(OrderType), Len(c) = Len(b) + 1,
         \A k \in 1..Len(b) : c[k] = b[k]
  PROVE  /\ Total(Fillings(c)) = Total(Fillings(b)) + c[Len(c)].filled
         /\ Total(Worths(c)) = Total(Worths(b)) + Worth(c[Len(c)])
<1>1. /\ Len(b) \in Nat /\ Fillings(b) \in Seq(Nat) /\ Len(Fillings(b)) = Len(b)
      /\ Worths(b) \in Seq(Nat) /\ Len(Worths(b)) = Len(b)
      /\ \A k \in 1..Len(b) : Fillings(b)[k] = b[k].filled /\ Worths(b)[k] = Worth(b[k])
  BY Measured
<1>2. /\ Fillings(c) \in Seq(Nat) /\ Len(Fillings(c)) = Len(c)
      /\ Worths(c) \in Seq(Nat) /\ Len(Worths(c)) = Len(c)
      /\ \A k \in 1..Len(c) : Fillings(c)[k] = c[k].filled /\ Worths(c)[k] = Worth(c[k])
  BY Measured
<1>3. Len(c) \in 1..Len(c) /\ \A k \in 1..Len(b) : k \in 1..Len(c) BY <1>1
<1>4. /\ Len(Fillings(c)) = Len(Fillings(b)) + 1 /\ Fillings(c)[Len(Fillings(c))] = c[Len(c)].filled
      /\ \A k \in 1..Len(Fillings(b)) : Fillings(c)[k] = Fillings(b)[k]
  BY <1>1, <1>2, <1>3
<1>5. /\ Len(Worths(c)) = Len(Worths(b)) + 1 /\ Worths(c)[Len(Worths(c))] = Worth(c[Len(c)])
      /\ \A k \in 1..Len(Worths(b)) : Worths(c)[k] = Worths(b)[k]
  BY <1>1, <1>2, <1>3
<1>6. Total(Fillings(c)) = Total(Fillings(b)) + c[Len(c)].filled BY <1>1, <1>2, <1>4, TotalGrows
<1>7. Total(Worths(c)) = Total(Worths(b)) + Worth(c[Len(c)]) BY <1>1, <1>2, <1>5, TotalGrows
<1> QED BY <1>6, <1>7

\* One order changes.
LEMMA Changed ==
  ASSUME NEW b \in Seq(OrderType), NEW c \in Seq(OrderType), Len(c) = Len(b),
         NEW i \in 1..Len(b), \A k \in 1..Len(b) : k # i => c[k] = b[k]
  PROVE  /\ Total(Fillings(c)) = Total(Fillings(b)) - b[i].filled + c[i].filled
         /\ Total(Worths(c)) = Total(Worths(b)) - Worth(b[i]) + Worth(c[i])
<1>1. c[i] \in OrderType BY Measured
<1>2. /\ Fillings(b) \in Seq(Nat) /\ Len(Fillings(b)) = Len(b)
      /\ Worths(b) \in Seq(Nat) /\ Len(Worths(b)) = Len(b)
      /\ \A k \in 1..Len(b) : Fillings(b)[k] = b[k].filled /\ Worths(b)[k] = Worth(b[k])
  BY Measured
<1>9. /\ Fillings(c) \in Seq(Nat) /\ Len(Fillings(c)) = Len(b)
      /\ Worths(c) \in Seq(Nat) /\ Len(Worths(c)) = Len(b)
      /\ \A k \in 1..Len(b) : Fillings(c)[k] = c[k].filled /\ Worths(c)[k] = Worth(c[k])
  BY Measured
<1>3. /\ Fillings(b) \in Seq(Nat) /\ Fillings(c) \in Seq(Nat)
      /\ Len(Fillings(b)) = Len(Fillings(c)) /\ i \in 1..Len(Fillings(b))
      /\ \A k \in 1..Len(Fillings(b)) : k # i => Fillings(b)[k] = Fillings(c)[k]
      /\ Fillings(b)[i] = b[i].filled /\ Fillings(c)[i] = c[i].filled
  BY <1>2, <1>9
<1>4. /\ Worths(b) \in Seq(Nat) /\ Worths(c) \in Seq(Nat)
      /\ Len(Worths(b)) = Len(Worths(c)) /\ i \in 1..Len(Worths(b))
      /\ \A k \in 1..Len(Worths(b)) : k # i => Worths(b)[k] = Worths(c)[k]
      /\ Worths(b)[i] = Worth(b[i]) /\ Worths(c)[i] = Worth(c[i])
  BY <1>2, <1>9
<1>5. \A x, y, f, g \in Nat : x - f = y - g => y = x - f + g OBVIOUS
<1>6. b[i] \in OrderType BY Measured
<1>7. Total(Fillings(c)) = Total(Fillings(b)) - b[i].filled + c[i].filled
  <2>1. Total(Fillings(b)) - b[i].filled = Total(Fillings(c)) - c[i].filled BY <1>3, TotalReplaced
  <2>2. /\ Total(Fillings(b)) \in Nat /\ Total(Fillings(c)) \in Nat
        /\ b[i].filled \in Nat /\ c[i].filled \in Nat
    BY <1>1, <1>3, <1>6, TotalNat, WorthNat
  <2> QED BY <1>5, <2>1, <2>2
<1>8. Total(Worths(c)) = Total(Worths(b)) - Worth(b[i]) + Worth(c[i])
  <2>1. Total(Worths(b)) - Worth(b[i]) = Total(Worths(c)) - Worth(c[i]) BY <1>4, TotalReplaced
  <2>2. /\ Total(Worths(b)) \in Nat /\ Total(Worths(c)) \in Nat
        /\ Worth(b[i]) \in Nat /\ Worth(c[i]) \in Nat
    BY <1>1, <1>4, <1>6, TotalNat, WorthNat
  <2> QED BY <1>5, <2>1, <2>2
<1> QED BY <1>7, <1>8

\* An order is worth no more than all of them.
LEMMA Counted ==
  ASSUME NEW b \in Seq(OrderType), NEW i \in 1..Len(b)
  PROVE  b[i].filled <= Total(Fillings(b)) /\ Worth(b[i]) <= Total(Worths(b))
<1>1. Failed \in OrderType /\ Failed.filled = 0 /\ Worth(Failed) = 0 BY DEF Failed, OrderType, Worth
<1>2. PICK o \in OrderType : o.filled = 0 /\ Worth(o) = 0 BY <1>1
<1> DEFINE c == [b EXCEPT ![i] = o]
<1>3. /\ c \in Seq(OrderType) /\ Len(c) = Len(b)
      /\ c[i] = o /\ \A k \in 1..Len(b) : k # i => c[k] = b[k]
  BY Measured, ExceptSeq
<1> HIDE DEF c
<1>4. /\ c \in Seq(OrderType)
      /\ Total(Fillings(c)) = Total(Fillings(b)) - b[i].filled + 0
      /\ Total(Worths(c)) = Total(Worths(b)) - Worth(b[i]) + 0
  BY <1>2, <1>3, Changed
<1>5. /\ Total(Fillings(b)) \in Nat /\ Total(Fillings(c)) \in Nat
      /\ Total(Worths(b)) \in Nat /\ Total(Worths(c)) \in Nat
  BY <1>4, Measured, TotalNat
<1>6. b[i].filled \in Nat /\ Worth(b[i]) \in Nat BY Measured, WorthNat
<1>7. \A x, y, f \in Nat : y = x - f + 0 => f <= x OBVIOUS
<1> QED BY <1>4, <1>5, <1>6, <1>7

LEMMA FilledIsWorth ==
  ASSUME NEW b \in Seq(OrderType), \A k \in 1..Len(b) : b[k].filled <= b[k].qty
  PROVE  Total(Fillings(b)) <= Total(Worths(b))
<1>1. \A k \in 1..Len(b) : b[k].filled <= Worth(b[k]) BY Measured, WorthNat DEF Worth
<1>2. /\ Len(Fillings(b)) \in Nat /\ Len(Fillings(b)) <= Len(Worths(b))
      /\ \A k \in 1..Len(Fillings(b)) : Fillings(b)[k] <= Worths(b)[k]
  BY <1>1, Measured
<1> QED BY <1>2, Measured, TotalMonotone

LEMMA NothingRests ==
  ASSUME NEW b \in Seq(OrderType), \A k \in 1..Len(b) : ~b[k].live
  PROVE  Total(Fillings(b)) = Total(Worths(b))
<1>1. Fillings(b) = Worths(b) BY Measured DEF Fillings, Worths, Worth
<1> QED BY <1>1

\* The plan's sums.
LEMMA PlannedSums ==
  ASSUME NEW p \in Plans
  PROVE  /\ p \in Seq(Nat \ {0}) /\ p \in Seq(Nat) /\ Len(p) \in Nat \ {0}
         /\ Planned(p, 0) = 0 /\ Planned(p, Len(p)) = Total(p)
         /\ \A n \in 0..Len(p) : Planned(p, n) \in Nat /\ Planned(p, n) <= Total(p)
         /\ \A n \in 1..Len(p) : p[n] \in Nat \ {0} /\ Planned(p, n) = Planned(p, n - 1) + p[n]
<1>1. p \in Seq(Nat \ {0}) /\ p # <<>> BY PlansAssumption
<1>2. Len(p) \in Nat /\ DOMAIN p = 1..Len(p) /\ p = [k \in 1..Len(p) |-> p[k]] /\ Len(p) # 0
  BY <1>1, LenProperties, EmptySeq
<1>3. \A k \in 1..Len(p) : p[k] \in Nat \ {0} BY <1>1, ElementOfSeq
<1> DEFINE q(n) == [k \in 1..n |-> p[k]]
<1>4. ASSUME NEW n \in 0..Len(p)
      PROVE  n \in Nat /\ q(n) \in Seq(Nat) /\ Len(q(n)) = n /\ \A k \in 1..n : q(n)[k] = p[k]
  <2>1. n \in Nat /\ q(n) \in [1..n -> Nat] BY <1>2, <1>3
  <2> QED BY <2>1, FunctionIsSeq
<1>5. p = q(Len(p)) BY <1>2
<1>6. p \in Seq(Nat)
  <2>1. Len(p) \in 0..Len(p) BY <1>2
  <2> HIDE DEF q
  <2> QED BY <1>4, <1>5, <2>1
<1>7. \A n : Planned(p, n) = Total(q(n)) BY DEF Planned
<1>8. Planned(p, 0) = 0
  <2>1. q(0) = <<>> BY <1>2, <1>4, EmptySeq
  <2> HIDE DEF q
  <2> QED BY <1>7, <2>1, TotalEmpty
<1> HIDE DEF q
<1>9. Planned(p, Len(p)) = Total(p) BY <1>5, <1>7
<1>10. ASSUME NEW n \in 0..Len(p) PROVE Planned(p, n) \in Nat /\ Planned(p, n) <= Total(p)
  <2>1. q(n) \in Seq(Nat) /\ Len(q(n)) = n /\ n <= Len(p) /\ \A k \in 1..Len(q(n)) : q(n)[k] = p[k]
    BY <1>2, <1>4
  <2>2. \A k \in 1..Len(q(n)) : q(n)[k] <= p[k] BY <1>2, <1>3, <2>1
  <2>3. Total(q(n)) \in Nat /\ Total(q(n)) <= Total(p) BY <1>6, <2>1, <2>2, TotalNat, TotalMonotone
  <2> QED BY <1>7, <2>3
<1>11. ASSUME NEW n \in 1..Len(p) PROVE Planned(p, n) = Planned(p, n - 1) + p[n]
  <2>1. n \in 0..Len(p) /\ n - 1 \in 0..Len(p) /\ n = (n - 1) + 1 BY <1>2
  <2>2. /\ q(n) \in Seq(Nat) /\ Len(q(n)) = n /\ q(n - 1) \in Seq(Nat) /\ Len(q(n - 1)) = n - 1
        /\ \A k \in 1..n : q(n)[k] = p[k]
        /\ \A k \in 1..n - 1 : q(n - 1)[k] = p[k]
    BY <1>4, <2>1
  <2>3. \A k \in 1..n - 1 : k \in 1..n BY <2>1
  <2>6. \A k \in 1..Len(q(n - 1)) : q(n)[k] = q(n - 1)[k] BY <2>2, <2>3
  <2>4. Total(q(n)) = Total(q(n - 1)) + q(n)[Len(q(n))] BY <2>1, <2>2, <2>6, TotalGrows
  <2>5. n \in 1..n BY <2>1
  <2> QED BY <1>7, <2>2, <2>4, <2>5
<1> QED BY <1>1, <1>2, <1>3, <1>6, <1>8, <1>9, <1>10, <1>11

-----------------------------------------------------------------------------
(* The invariant *)

Working == e.pc \in {"poll", "cancel", "status"}

\* A fault is noted with its child.
Seen == [fault: Faults, child: 1..Len(plan)]

BookSound(b) ==
  /\ b \in Seq(OrderType)
  /\ \A k \in 1..Len(b) : b[k].filled <= b[k].qty /\ (b[k].live => b[k].filled < b[k].qty)

\* The orders a child may have placed by now: each call sends its order three times at most.
Placed(pc, n) == CASE pc = "place" -> n
                   [] pc \in {"poll", "cancel", "status"} -> 3
                   [] pc = "submit" -> 3 + n
                   [] OTHER -> 6

PlanInv ==
  /\ plan \in Plans /\ mode \in Modes
  /\ e \in [pc: PC, child: Nat, order: Nat, qty: Nat, polls: Nat, sends: Nat]
  /\ e.child \in 1..Len(plan) /\ e.polls <= MaxPolls /\ e.sends < Attempts
  /\ e.order <= Len(book) /\ e.qty <= Child
  /\ e.pc = "submit" => e.qty > 0
  /\ seen \in Seq(Seen) /\ Len(seen) <= MaxFaults

\* The order that is worked is for the child, and rests until it is filled or cancelled.
BookedInv ==
  /\ BookSound(book)
  /\ Len(book) <= 6 * (e.child - 1) + Placed(e.pc, e.sends)
  /\ Working => e.order \in 1..Len(book) /\ Current.qty = Child
  /\ e.pc \in {"poll", "cancel"} => Current.live \/ Current.filled = Current.qty

\* The answers report fills the account has.
AnswersInv ==
  /\ answers \in Seq(OrderType)
  /\ Len(answers) <= Len(plan)
  /\ e.pc # "done" => Len(answers) = IF e.pc = "finish" THEN Len(plan) ELSE e.child - 1
  /\ e.pc = "finish" => e.child = Len(plan)
  /\ \A k \in 1..Len(answers) : answers[k].filled <= plan[k]
  /\ Reported + (IF Working THEN Current.filled ELSE 0) <= Bought

\* What is still to be ordered for the child that is worked.
Due == IF e.pc = "submit" THEN e.qty ELSE 0

\* Beside what its faults account for, a child commits what it is to buy.
KeptInv ==
  /\ e.pc = "place" => Committed <= Planned(plan, e.child - 1) + Excess
  /\ e.pc = "status" => ~Current.live /\ Committed <= Planned(plan, e.child - 1) + Current.filled + Excess
  /\ Committed + Due <= Planned(plan, e.child) + Excess

\* An order that shows no fill when it is recorded rests, or its predecessor has bought.
RowInv ==
  /\ row \in Nat
  /\ row > 0 => e.pc = "done" /\ row <= Wanted /\ (MarketsFill => row <= Committed)
  /\ e.pc = "submit" => Committed + e.qty >= Child
  /\ e.pc = "finish" /\ ~Split /\ Reported = 0 /\ MarketsFill => Committed >= Wanted

\* Market orders do not rest, and what they bought is what their answers report.
MarketInv ==
  mode = "market" =>
    /\ ~Working
    /\ \A k \in 1..Len(book) : ~book[k].live
    /\ ~Unanswered /\ e.pc # "done" => Reported = Bought
    /\ ~Unanswered /\ e.pc = "done" /\ MarketsFill => row = Bought

OrderInv ==
  PlanInv /\ BookedInv /\ AnswersInv /\ KeptInv /\ RowInv /\ MarketInv

-----------------------------------------------------------------------------
(* Where an action leaves the entry *)

LEMMA BookNumbers ==
  ASSUME NEW b, BookSound(b)
  PROVE  /\ Total(Worths(b)) \in Nat /\ Total(Fillings(b)) \in Nat
         /\ Total(Fillings(b)) <= Total(Worths(b))
<1>1. b \in Seq(OrderType) /\ \A k \in 1..Len(b) : b[k].filled <= b[k].qty BY DEF BookSound
<1>2. Worths(b) \in Seq(Nat) /\ Fillings(b) \in Seq(Nat) BY <1>1, Measured
<1> QED BY <1>1, <1>2, TotalNat, FilledIsWorth

\* What the faults of a sequence cost under the plan p.
Costs(p, q) == [k \in DOMAIN q |-> IF q[k].fault \in Costly THEN p[q[k].child] ELSE 0]

LEMMA CostsNat ==
  ASSUME NEW p \in Plans, NEW q \in Seq([fault: Faults, child: 1..Len(p)])
  PROVE  /\ Costs(p, q) \in Seq(Nat) /\ Len(Costs(p, q)) = Len(q) /\ Len(q) \in Nat
         /\ \A k \in 1..Len(q) : Costs(p, q)[k] = IF q[k].fault \in Costly THEN p[q[k].child] ELSE 0
<1>1. Len(q) \in Nat /\ DOMAIN q = 1..Len(q) BY LenProperties
<1>2. \A k \in 1..Len(q) : q[k] \in [fault: Faults, child: 1..Len(p)] BY ElementOfSeq
<1>3. \A n \in 1..Len(p) : p[n] \in Nat BY PlannedSums
<1>4. \A k \in 1..Len(q) : q[k].child \in 1..Len(p) BY <1>2
<1>5. \A k \in 1..Len(q) : p[q[k].child] \in Nat BY <1>3, <1>4
<1>6. Costs(p, q) \in [1..Len(q) -> Nat] BY <1>1, <1>5 DEF Costs
<1>7. \A k \in 1..Len(q) : Costs(p, q)[k] = IF q[k].fault \in Costly THEN p[q[k].child] ELSE 0
  BY <1>1 DEF Costs
<1> QED BY <1>1, <1>6, <1>7, FunctionIsSeq

LEMMA ExcessIs ==
  /\ Excess = Total(Costs(plan, seen))
  /\ Excess' = Total(Costs(plan', seen'))
BY DEF Excess, Costs, Cost

LEMMA ExcessNat == ASSUME PlanInv PROVE Excess \in Nat
BY CostsNat, TotalNat, ExcessIs DEF PlanInv, Seen

LEMMA ChildNumbers ==
  ASSUME PlanInv
  PROVE  /\ e.child \in Nat \ {0} /\ Len(plan) \in Nat \ {0} /\ e.child <= Len(plan)
         /\ Child \in Nat \ {0} /\ Wanted \in Nat /\ Excess \in Nat
         /\ Planned(plan, e.child - 1) \in Nat /\ Planned(plan, e.child) \in Nat
         /\ Planned(plan, e.child) = Planned(plan, e.child - 1) + Child
         /\ Planned(plan, e.child) <= Wanted
         /\ e.child = Len(plan) => Planned(plan, e.child) = Wanted
<1>1. plan \in Plans /\ e.child \in 1..Len(plan) BY DEF PlanInv
<1>2. Len(plan) \in Nat \ {0} BY <1>1, PlannedSums
<1>3. e.child - 1 \in 0..Len(plan) /\ e.child \in 0..Len(plan) BY <1>1, <1>2
<1>4. plan[e.child] \in Nat \ {0} /\ Planned(plan, e.child) = Planned(plan, e.child - 1) + plan[e.child]
  BY <1>1, PlannedSums
<1>5. /\ Planned(plan, e.child - 1) \in Nat /\ Planned(plan, e.child) \in Nat
      /\ Planned(plan, e.child) <= Total(plan)
  BY <1>1, <1>3, PlannedSums
<1>6. plan \in Seq(Nat) /\ Planned(plan, Len(plan)) = Total(plan) BY <1>1, PlannedSums
<1>7. Total(plan) \in Nat BY <1>6, TotalNat
<1> QED BY <1>1, <1>2, <1>4, <1>5, <1>6, <1>7, ExcessNat DEF Child, Wanted

LEMMA Numbers ==
  ASSUME PlanInv, BookedInv, AnswersInv
  PROVE  /\ Committed \in Nat /\ Bought \in Nat /\ Reported \in Nat
         /\ Bought <= Committed /\ Reported <= Wanted /\ Reported <= Bought
<1>1. Committed \in Nat /\ Bought \in Nat /\ Bought <= Committed
  BY BookNumbers, Quantities DEF BookedInv
<1>2. Fillings(answers) \in Seq(Nat) /\ Len(Fillings(answers)) = Len(answers) /\ Len(answers) \in Nat
      /\ \A k \in 1..Len(answers) : Fillings(answers)[k] = answers[k].filled
  BY Measured DEF AnswersInv
<1>3. Reported \in Nat BY <1>2, TotalNat, Quantities
<1>4. Reported <= Wanted
  <2>1. plan \in Seq(Nat) BY PlannedSums DEF PlanInv
  <2>2. \A k \in 1..Len(answers) : answers[k].filled <= plan[k] BY DEF AnswersInv
  <2>3. Len(Fillings(answers)) <= Len(plan) /\ \A k \in 1..Len(Fillings(answers)) : Fillings(answers)[k] <= plan[k]
    BY <1>2, <2>2 DEF AnswersInv
  <2> QED BY <1>2, <2>1, <2>3, TotalMonotone, Quantities DEF Wanted
<1>5. Reported <= Bought
  <2>1. Reported + (IF Working THEN Current.filled ELSE 0) <= Bought BY DEF AnswersInv
  <2>2. CASE Working
    <3>1. book \in Seq(OrderType) /\ e.order \in 1..Len(book) BY <2>2 DEF BookedInv, BookSound
    <3>2. Current.filled \in Nat BY <3>1, Measured, WorthNat DEF Current
    <3> QED BY <1>1, <1>3, <2>1, <2>2, <3>2
  <2>3. CASE ~Working BY <1>1, <1>3, <2>1, <2>3
  <2> QED BY <2>2, <2>3
<1> QED BY <1>1, <1>3, <1>4, <1>5

\* What no step changes, or lets grow.
GoesOn ==
  /\ UNCHANGED <<plan, mode>>
  /\ seen' \in Seq(Seen) /\ Len(seen') <= MaxFaults
  /\ Excess' \in Nat /\ Excess <= Excess'
  /\ Unanswered => Unanswered'

LEMMA SeenStays ==
  ASSUME PlanInv, UNCHANGED <<plan, mode, seen>>
  PROVE  GoesOn /\ Excess' = Excess /\ (Unanswered' <=> Unanswered)
<1>1. Excess' = Excess BY ExcessIs
<1>2. Unanswered' <=> Unanswered BY DEF Unanswered, Happened
<1>3. Excess \in Nat BY ExcessNat
<1> QED BY <1>1, <1>2, <1>3 DEF PlanInv, GoesOn

\* A fault that may cost the child's quantity, or one that may not.
LEMMA SeenGrows ==
  ASSUME PlanInv, UNCHANGED <<plan, mode>>, NEW f, Fault(f)
  PROVE  /\ GoesOn /\ Happened(f)'
         /\ Excess' = Excess + (IF f \in Costly THEN Child ELSE 0)
<1> DEFINE s == [fault |-> f, child |-> e.child]
<1>1. seen \in Seq(Seen) /\ f \in Faults /\ Len(seen) < MaxFaults /\ seen' = Append(seen, s)
  BY DEF PlanInv, Fault
<1>2. MaxFaults \in Nat BY NumbersAssumption
<1>3. Len(seen) \in Nat /\ DOMAIN seen = 1..Len(seen) BY <1>1, LenProperties
<1>4. s \in Seen /\ s.fault = f /\ s.child = e.child BY <1>1 DEF Seen, PlanInv
<1> HIDE DEF s
<1>5. /\ seen' \in Seq(Seen) /\ Len(seen') = Len(seen) + 1
      /\ seen'[Len(seen) + 1] = s /\ \A k \in 1..Len(seen) : seen'[k] = seen[k]
  BY <1>1, <1>4, AppendProperties
<1>6. DOMAIN seen' = 1..Len(seen) + 1 BY <1>5, LenProperties
<1>7. \A g : Happened(g) => Happened(g)'
  BY <1>3, <1>5, <1>6 DEF Happened
<1>8. Happened(f)'
  <2>1. Len(seen) + 1 \in DOMAIN seen' /\ seen'[Len(seen) + 1].fault = f BY <1>3, <1>4, <1>5, <1>6
  <2> QED BY <2>1 DEF Happened
<1>9. Unanswered => Unanswered'
  <2>1. (Happened("lost") => Happened("lost")') /\ (Happened("resend") => Happened("resend")') BY <1>7
  <2> QED BY <2>1 DEF Unanswered
<1>10. Len(seen') <= MaxFaults BY <1>1, <1>2, <1>3, <1>5
<1>11. Excess' = Excess + (IF f \in Costly THEN Child ELSE 0)
  <2>1. plan \in Plans /\ plan' = plan BY DEF PlanInv
  <2>2. /\ Costs(plan, seen) \in Seq(Nat) /\ Len(Costs(plan, seen)) = Len(seen)
        /\ \A k \in 1..Len(seen) : Costs(plan, seen)[k] = IF seen[k].fault \in Costly THEN plan[seen[k].child] ELSE 0
    BY <1>1, <2>1, CostsNat DEF Seen
  <2>3. /\ Costs(plan, seen') \in Seq(Nat) /\ Len(Costs(plan, seen')) = Len(seen')
        /\ \A k \in 1..Len(seen') : Costs(plan, seen')[k] = IF seen'[k].fault \in Costly THEN plan[seen'[k].child] ELSE 0
    BY <1>5, <2>1, CostsNat DEF Seen
  <2>4. \A k \in 1..Len(seen) : Costs(plan, seen')[k] = Costs(plan, seen)[k]
    <3>1. \A k \in 1..Len(seen) : k \in 1..Len(seen') BY <1>3, <1>5
    <3> QED BY <1>5, <2>2, <2>3, <3>1
  <2>5. Len(seen') \in 1..Len(seen') /\ seen'[Len(seen')] = s BY <1>3, <1>5
  <2>6. Costs(plan, seen')[Len(seen')] = IF f \in Costly THEN Child ELSE 0
    BY <1>4, <2>3, <2>5 DEF Child
  <2>7. Total(Costs(plan, seen')) = Total(Costs(plan, seen)) + Costs(plan, seen')[Len(seen')]
    <3>1. /\ Len(Costs(plan, seen')) = Len(Costs(plan, seen)) + 1
          /\ \A k \in 1..Len(Costs(plan, seen)) : Costs(plan, seen')[k] = Costs(plan, seen)[k]
      BY <1>5, <2>2, <2>3, <2>4
    <3>2. Len(Costs(plan, seen')) = Len(seen') BY <2>3
    <3>3. Costs(plan, seen) \in Seq(Nat) /\ Costs(plan, seen') \in Seq(Nat) BY <2>2, <2>3
    <3> QED BY <3>1, <3>2, <3>3, TotalGrows
  <2> QED BY <2>1, <2>6, <2>7, ExcessIs
<1>12. Excess \in Nat /\ Child \in Nat BY ExcessNat, PlannedSums DEF PlanInv, Child
<1>13. Excess' \in Nat /\ Excess <= Excess' BY <1>11, <1>12
<1> QED BY <1>5, <1>8, <1>9, <1>10, <1>11, <1>13 DEF GoesOn

\* What every landing needs of the book that an action leaves.
Lands(b, bought) ==
  /\ GoesOn /\ row' = row
  /\ book' = b /\ BookSound(b) /\ Len(book) <= Len(b)
  /\ mode = "market" => (\A k \in 1..Len(b) : ~b[k].live) /\ (~Unanswered' => Bought' = Bought + bought)

\* The child returns an order.
LEMMA Returned ==
  ASSUME OrderInv, e.pc \notin {"finish", "done"}, NEW order \in OrderType, order.filled <= Child,
         NEW b, Lands(b, order.filled), Return(order), Len(b) <= 6 * e.child,
         Committed' <= Planned(plan, e.child) + Excess',
         Reported + order.filled <= Bought',
         ~Split /\ order.filled = 0 /\ MarketsFill => Committed' >= Wanted
  PROVE  OrderInv'
<1> DEFINE P == Planned(plan, e.child)
<1>1. /\ e.child \in Nat \ {0} /\ Len(plan) \in Nat \ {0} /\ e.child <= Len(plan)
      /\ Child \in Nat \ {0} /\ Wanted \in Nat /\ P \in Nat /\ P <= Wanted
      /\ e.child = Len(plan) => P = Wanted
  BY ChildNumbers DEF OrderInv
<1>2. Committed \in Nat /\ Bought \in Nat /\ Reported \in Nat /\ Reported <= Wanted
  BY Numbers DEF OrderInv
<1>3. /\ plan' = plan /\ mode' = mode /\ row' = row /\ book' = b
      /\ seen' \in Seq(Seen) /\ Len(seen') <= MaxFaults
      /\ Excess' \in Nat /\ (Unanswered => Unanswered')
      /\ BookSound(b) /\ Len(book) <= Len(b)
  BY DEF Lands, GoesOn
<1>4. Committed' \in Nat /\ Bought' \in Nat /\ Bought' <= Committed' BY <1>3, BookNumbers, QuantitiesAfter
<1>5. answers \in Seq(OrderType) /\ Len(answers) = e.child - 1 BY DEF OrderInv, AnswersInv
<1>6. answers' = Append(answers, order) BY DEF Return
<1>7. /\ answers' \in Seq(OrderType) /\ Len(answers') = e.child /\ answers'[e.child] = order
      /\ \A k \in 1..e.child - 1 : answers'[k] = answers[k]
  BY <1>1, <1>5, <1>6, AppendProperties
<1>8. Reported' = Reported + order.filled
  <2>1. Len(answers') = Len(answers) + 1 BY <1>1, <1>5, <1>7
  <2> QED BY <1>5, <1>7, <2>1, Grown, Quantities, QuantitiesAfter
<1>9. order.filled \in Nat BY WorthNat
<1>10. \/ /\ e.child < Len(plan)
          /\ e' = [pc |-> "place", child |-> e.child + 1, order |-> NoOrder, qty |-> 0, polls |-> 0, sends |-> 0]
       \/ e.child = Len(plan) /\ e' = [e EXCEPT !.pc = "finish"]
  BY <1>1 DEF Return
<1>11. e \in [pc: PC, child: Nat, order: Nat, qty: Nat, polls: Nat, sends: Nat] /\ e.polls <= MaxPolls
       /\ e.order <= Len(book) /\ e.qty <= Child /\ e.sends < Attempts
  BY DEF OrderInv, PlanInv
<1>12. /\ e' \in [pc: PC, child: Nat, order: Nat, qty: Nat, polls: Nat, sends: Nat]
       /\ e'.polls <= MaxPolls /\ e'.sends < Attempts /\ e'.order <= Len(b)
  <2>1. MaxPolls \in Nat /\ 0 < Attempts BY NumbersAssumption DEF Attempts
  <2>2. Len(b) \in Nat /\ Len(book) <= Len(b) /\ Len(book) \in Nat
    BY <1>3, Measured DEF BookSound, OrderInv, BookedInv
  <2>3. CASE e' = [pc |-> "place", child |-> e.child + 1, order |-> NoOrder, qty |-> 0, polls |-> 0, sends |-> 0]
    BY <1>1, <2>1, <2>2, <2>3 DEF NoOrder, PC
  <2>4. CASE e' = [e EXCEPT !.pc = "finish"]
    <3>1. e'.order = e.order /\ e'.polls = e.polls /\ e'.sends = e.sends /\ e' \in [pc: PC, child: Nat, order: Nat, qty: Nat, polls: Nat, sends: Nat]
      BY <1>11, <2>4 DEF PC
    <3> QED BY <1>11, <2>2, <3>1
  <2> QED BY <1>10, <2>3, <2>4
<1>13. \/ e.child < Len(plan) /\ e'.pc = "place" /\ e'.child = e.child + 1 /\ e'.qty = 0 /\ e'.sends = 0
       \/ e.child = Len(plan) /\ e'.pc = "finish" /\ e'.child = e.child /\ e'.qty = e.qty
  BY <1>10, <1>11
<1>14. e'.child \in 1..Len(plan) BY <1>1, <1>13
<1>15. plan[e'.child] \in Nat \ {0} BY <1>14, PlannedSums DEF OrderInv, PlanInv
<1>16. ~Working' /\ Due' = 0 BY <1>13 DEF Working, Due
<1>17. P <= Planned(plan, e'.child) /\ Planned(plan, e'.child) \in Nat
       /\ (e'.pc = "place" => Planned(plan, e'.child - 1) = P)
  <2>1. plan \in Plans BY DEF OrderInv, PlanInv
  <2>2. CASE e'.child = e.child /\ e'.pc = "finish" BY <1>1, <2>2
  <2>3. CASE e'.child = e.child + 1
    <3>1. e'.child - 1 = e.child BY <1>1, <2>3
    <3>2. Planned(plan, e'.child) = Planned(plan, e'.child - 1) + plan[e'.child]
      BY <1>14, <2>1, PlannedSums
    <3> QED BY <1>1, <1>15, <3>1, <3>2
  <2> QED BY <1>13, <2>2, <2>3
<1> HIDE DEF P
<1>20. PlanInv'
  <2>1. e'.qty <= plan[e'.child]
    <3>1. CASE e'.qty = 0 BY <1>15, <3>1
    <3>2. CASE e'.child = e.child /\ e'.qty = e.qty BY <1>11, <3>2 DEF Child
    <3> QED BY <1>13, <3>1, <3>2
  <2>2. plan \in Plans /\ mode \in Modes BY DEF OrderInv, PlanInv
  <2> QED BY <1>3, <1>12, <1>13, <1>14, <2>1, <2>2 DEF PlanInv, Child, Seen
<1>21. BookedInv'
  <2>1. Len(b) <= 6 * e.child OBVIOUS
  <2>2. Len(b) \in Nat BY <1>3, Measured DEF BookSound
  <2>3. Len(b) <= 6 * (e'.child - 1) + Placed(e'.pc, e'.sends) BY <1>1, <1>13, <2>1, <2>2 DEF Placed
  <2> QED BY <1>3, <1>13, <1>16, <2>3 DEF BookedInv
<1>22. AnswersInv'
  <2>1. \A k \in 1..Len(answers') : answers'[k].filled <= plan[k]
    <3>1. \A k \in 1..e.child - 1 : answers[k].filled <= plan[k] BY <1>5 DEF OrderInv, AnswersInv
    <3>2. answers'[e.child].filled <= plan[e.child] BY <1>7 DEF Child
    <3> QED BY <1>1, <1>7, <3>1, <3>2
  <2>2. Reported' <= Bought' BY <1>8
  <2>3. Reported' + 0 <= Bought' BY <1>2, <1>8, <1>9, <2>2
  <2> QED BY <1>1, <1>3, <1>7, <1>13, <1>16, <2>1, <2>3 DEF AnswersInv
<1>23. KeptInv'
  <2>1. Committed' <= P + Excess' BY DEF P
  <2>2. e'.pc = "place" => Committed' <= Planned(plan, e'.child - 1) + Excess' BY <1>17, <2>1
  <2>3. Committed' + 0 <= Planned(plan, e'.child) + Excess'
    <3>1. \A c, d, t, x \in Nat : c <= d + x /\ d <= t => c + 0 <= t + x OBVIOUS
    <3> QED BY <1>1, <1>3, <1>4, <1>17, <2>1, <3>1
  <2> QED BY <1>3, <1>13, <1>16, <2>2, <2>3 DEF KeptInv
<1>25. RowInv'
  <2>1. row = 0 BY DEF OrderInv, RowInv
  <2>2. Split' = Split /\ Wanted' = Wanted BY <1>3 DEF Split, Wanted
  <2>3. Reported' = 0 => order.filled = 0 BY <1>2, <1>8, <1>9
  <2>4. e'.pc \in {"place", "finish"} BY <1>13
  <2> HIDE DEF MarketsFill
  <2>5. ~Split /\ Reported' = 0 /\ MarketsFill => Committed' >= Wanted BY <2>3
  <2> QED BY <1>3, <2>1, <2>2, <2>4, <2>5 DEF RowInv, MarketsFill
<1>26. MarketInv'
  <2>1. ASSUME mode = "market", ~Unanswered' PROVE Reported' = Bought'
    <3>1. Bought' = Bought + order.filled BY <2>1 DEF Lands
    <3>2. ~Unanswered BY <1>3, <2>1
    <3>3. Reported = Bought BY <2>1, <3>2 DEF OrderInv, MarketInv
    <3> QED BY <1>8, <3>1, <3>3
  <2>2. mode = "market" => \A k \in 1..Len(b) : ~b[k].live BY DEF Lands
  <2>3. e'.pc \in {"place", "finish"} BY <1>13
  <2> QED BY <1>3, <1>16, <2>1, <2>2, <2>3 DEF MarketInv
<1> QED BY <1>20, <1>21, <1>22, <1>23, <1>25, <1>26 DEF OrderInv

LEMMA NothingReported == ASSUME answers = <<>> PROVE Reported = 0
<1>1. <<>> \in Seq(OrderType) /\ Len(<<>>) = 0 OBVIOUS
<1>2. Fillings(<<>>) = <<>> BY DEF Fillings
<1> QED BY <1>2, Quantities, TotalEmpty

\* The child raises.
LEMMA Raised ==
  ASSUME OrderInv, e.pc \notin {"finish", "done"}, NEW b, Lands(b, 0), Raise, Len(b) <= 6 * e.child,
         Committed' <= Planned(plan, e.child) + Excess',
         Reported <= Bought'
  PROVE  OrderInv'
<1>1. Failed \in OrderType /\ Failed.filled = 0 BY DEF Failed, OrderType
<1>2. Reported \in Nat /\ Bought \in Nat BY Numbers DEF OrderInv
<1>3. Child \in Nat \ {0} /\ e.child \in Nat \ {0} /\ Len(plan) \in Nat \ {0} /\ e.child <= Len(plan)
  BY ChildNumbers DEF OrderInv
<1>4. CASE Split
  <2>1. Return(Failed) BY <1>4 DEF Raise
  <2>2. Reported + Failed.filled <= Bought' /\ Failed.filled <= Child BY <1>1, <1>2, <1>3
  <2>3. Lands(b, Failed.filled) BY <1>1
  <2> QED BY <1>1, <1>4, <2>1, <2>2, <2>3, Returned
<1>5. CASE ~Split
  <2>1. e' = [e EXCEPT !.pc = "done"] /\ answers' = answers BY <1>5 DEF Raise
  <2>2. /\ plan' = plan /\ mode' = mode /\ row' = row /\ book' = b
        /\ seen' \in Seq(Seen) /\ Len(seen') <= MaxFaults
        /\ Excess' \in Nat /\ (Unanswered => Unanswered')
        /\ BookSound(b) /\ Len(book) <= Len(b)
    BY DEF Lands, GoesOn
  <2>3. Committed' \in Nat /\ Bought' \in Nat /\ Bought' <= Committed'
    BY <2>2, BookNumbers, QuantitiesAfter
  <2>4. Reported' = Reported BY <2>1, Quantities, QuantitiesAfter
  <2>5. /\ e \in [pc: PC, child: Nat, order: Nat, qty: Nat, polls: Nat, sends: Nat] /\ e.polls <= MaxPolls
        /\ e.sends < Attempts /\ e.order <= Len(book) /\ e.qty <= plan[e.child] /\ e.child \in 1..Len(plan)
    BY DEF OrderInv, PlanInv, Child
  <2>6. /\ e' \in [pc: PC, child: Nat, order: Nat, qty: Nat, polls: Nat, sends: Nat] /\ e'.pc = "done"
        /\ e'.child = e.child /\ e'.order = e.order /\ e'.qty = e.qty /\ e'.polls = e.polls
        /\ e'.sends = e.sends
    BY <2>1, <2>5 DEF PC
  <2>7. ~Working' /\ Due' = 0 BY <2>6 DEF Working, Due
  <2>8. Len(b) \in Nat /\ Len(book) \in Nat BY <2>2, Measured DEF BookSound, OrderInv, BookedInv
  <2>9. PlanInv'
    <3>1. plan \in Plans /\ mode \in Modes BY DEF OrderInv, PlanInv
    <3>2. e'.order <= Len(b) BY <2>2, <2>5, <2>6, <2>8
    <3> QED BY <2>2, <2>5, <2>6, <3>1, <3>2 DEF PlanInv, Child, Seen
  <2>10. BookedInv'
    <3>1. Len(b) <= 6 * (e'.child - 1) + Placed(e'.pc, e'.sends) BY <1>3, <2>6, <2>8 DEF Placed
    <3> QED BY <2>2, <2>6, <2>7, <3>1 DEF BookedInv
  <2>11. AnswersInv'
    <3>1. answers \in Seq(OrderType) /\ Len(answers) <= Len(plan)
          /\ \A k \in 1..Len(answers) : answers[k].filled <= plan[k]
      BY DEF OrderInv, AnswersInv
    <3>2. Reported' + 0 <= Bought' BY <1>2, <2>4
    <3> QED BY <2>1, <2>2, <2>6, <2>7, <3>1, <3>2 DEF AnswersInv
  <2>12. KeptInv' BY <2>2, <2>3, <2>6, <2>7 DEF KeptInv
  <2>14. row = 0 BY DEF OrderInv, RowInv
  <2>15. RowInv' BY <2>2, <2>6, <2>14 DEF RowInv
  <2>16. MarketInv'
    <3>1. ASSUME mode = "market", ~Unanswered' PROVE Bought' = 0
      <4>1. Bought' = Bought BY <1>2, <3>1 DEF Lands
      <4>2. ~Unanswered BY <2>2, <3>1
      <4>3. Reported = Bought BY <3>1, <4>2 DEF OrderInv, MarketInv
      <4>4. e.child = 1 BY <1>3, <1>5 DEF Split
      <4>5. answers \in Seq(OrderType) /\ Len(answers) = 0 BY <4>4 DEF OrderInv, AnswersInv
      <4>6. answers = <<>> BY <4>5, EmptySeq
      <4> QED BY <4>1, <4>3, <4>6, NothingReported
    <3>2. mode = "market" => \A k \in 1..Len(b) : ~b[k].live BY DEF Lands
    <3> QED BY <2>2, <2>6, <2>7, <2>14, <3>1, <3>2 DEF MarketInv
  <2> QED BY <2>9, <2>10, <2>11, <2>12, <2>15, <2>16 DEF OrderInv
<1> QED BY <1>4, <1>5

\* The child, or what is left of it, is submitted.
LEMMA Submitted ==
  ASSUME OrderInv, e.pc \in {"place", "cancel", "status"}, NEW q \in 1..Child, NEW b, Lands(b, 0),
         e' = Submit(q), answers' = answers, Len(b) <= 6 * (e.child - 1) + 3,
         Committed' + q <= Planned(plan, e.child) + Excess',
         Committed' + q >= Child, Reported <= Bought'
  PROVE  OrderInv'
<1>1. Reported \in Nat /\ Bought \in Nat BY Numbers DEF OrderInv
<1>2. Child \in Nat \ {0} /\ e.child \in Nat \ {0} /\ Len(plan) \in Nat \ {0} /\ e.child <= Len(plan)
  BY ChildNumbers DEF OrderInv
<1>3. /\ plan' = plan /\ mode' = mode /\ row' = row /\ book' = b
      /\ seen' \in Seq(Seen) /\ Len(seen') <= MaxFaults
      /\ Excess' \in Nat /\ (Unanswered => Unanswered')
      /\ BookSound(b) /\ Len(book) <= Len(b)
  BY DEF Lands, GoesOn
<1>4. Committed' \in Nat /\ Bought' \in Nat BY <1>3, BookNumbers, QuantitiesAfter
<1>5. Reported' = Reported BY Quantities, QuantitiesAfter
<1>6. /\ e \in [pc: PC, child: Nat, order: Nat, qty: Nat, polls: Nat, sends: Nat] /\ e.polls <= MaxPolls
      /\ e.order <= Len(book) /\ e.child \in 1..Len(plan)
  BY DEF OrderInv, PlanInv
<1>7. /\ e' \in [pc: PC, child: Nat, order: Nat, qty: Nat, polls: Nat, sends: Nat] /\ e'.pc = "submit"
      /\ e'.child = e.child /\ e'.order = e.order /\ e'.qty = q /\ e'.polls = e.polls /\ e'.sends = 0
  <2>1. q \in Nat BY <1>2
  <2>2. e' = [e EXCEPT !.pc = "submit", !.qty = q, !.sends = 0] BY DEF Submit
  <2>3. "submit" \in PC BY DEF PC
  <2>4. 0 \in Nat OBVIOUS
  <2> QED BY <1>6, <2>1, <2>2, <2>3, <2>4
<1>8. ~Working' /\ Due' = q BY <1>7 DEF Working, Due
<1>9. Len(b) \in Nat /\ Len(book) \in Nat BY <1>3, Measured DEF BookSound, OrderInv, BookedInv
<1>10. Child' = Child BY <1>3, <1>7 DEF Child
<1>11. PlanInv'
  <2>1. plan \in Plans /\ mode \in Modes BY DEF OrderInv, PlanInv
  <2>2. e'.order <= Len(b) BY <1>3, <1>6, <1>7, <1>9
  <2>3. e'.qty <= Child' /\ e'.qty > 0 BY <1>2, <1>7, <1>10
  <2> QED BY <1>3, <1>6, <1>7, <2>1, <2>2, <2>3 DEF PlanInv, Seen, Attempts
<1>12. BookedInv'
  <2>1. Len(b) <= 6 * (e'.child - 1) + Placed(e'.pc, e'.sends) BY <1>2, <1>7, <1>9 DEF Placed
  <2> QED BY <1>3, <1>7, <1>8, <2>1 DEF BookedInv
<1>13. AnswersInv'
  <2>1. answers \in Seq(OrderType) /\ Len(answers) <= Len(plan) /\ Len(answers) = e.child - 1
        /\ \A k \in 1..Len(answers) : answers[k].filled <= plan[k]
    BY DEF OrderInv, AnswersInv
  <2>2. Reported' + 0 <= Bought' BY <1>1, <1>5
  <2> QED BY <1>3, <1>7, <1>8, <2>1, <2>2 DEF AnswersInv
<1>14. KeptInv' BY <1>3, <1>7, <1>8 DEF KeptInv
<1>16. RowInv'
  <2>1. row = 0 BY DEF OrderInv, RowInv
  <2> QED BY <1>3, <1>7, <1>10, <2>1 DEF RowInv
<1>17. MarketInv'
  <2>1. ASSUME mode = "market", ~Unanswered' PROVE Reported' = Bought'
    <3>1. Bought' = Bought BY <1>1, <2>1 DEF Lands
    <3>2. ~Unanswered BY <1>3, <2>1
    <3>3. Reported = Bought BY <2>1, <3>2 DEF OrderInv, MarketInv
    <3> QED BY <1>5, <3>1, <3>3
  <2>2. mode = "market" => \A k \in 1..Len(b) : ~b[k].live BY DEF Lands
  <2> QED BY <1>3, <1>7, <1>8, <2>1, <2>2 DEF MarketInv
<1> QED BY <1>11, <1>12, <1>13, <1>14, <1>16, <1>17 DEF OrderInv

-----------------------------------------------------------------------------
(* What an action does to the book *)

LEMMA BookStays ==
  ASSUME OrderInv, UNCHANGED <<plan, mode, book, row>>, GoesOn
  PROVE  /\ Lands(book, 0) /\ Committed' = Committed /\ Bought' = Bought
         /\ book' = book /\ Len(book) <= 6 * (e.child - 1) + Placed(e.pc, e.sends)
<1>1. BookSound(book) /\ book' = book /\ Len(book) \in Nat /\ Len(book) <= 6 * (e.child - 1) + Placed(e.pc, e.sends)
  BY Measured DEF OrderInv, BookedInv, BookSound
<1>2. Committed' = Committed /\ Bought' = Bought BY <1>1, Quantities, QuantitiesAfter
<1>3. mode = "market" => \A k \in 1..Len(book) : ~book[k].live BY DEF OrderInv, MarketInv
<1>4. Bought \in Nat BY Numbers DEF OrderInv
<1> QED BY <1>1, <1>2, <1>3, <1>4 DEF Lands

LEMMA BookGrows ==
  ASSUME OrderInv, NEW o \in OrderType, book' = Append(book, o),
         o.filled <= o.qty, o.live => o.filled < o.qty
  PROVE  /\ BookSound(book') /\ Len(book') = Len(book) + 1 /\ Len(book) \in Nat
         /\ book'[Len(book) + 1] = o /\ \A k \in 1..Len(book) : book'[k] = book[k]
         /\ Committed' = Committed + Worth(o) /\ Bought' = Bought + o.filled
<1>1. BookSound(book) BY DEF OrderInv, BookedInv
<1>2. book \in Seq(OrderType) /\ Len(book) \in Nat BY <1>1, LenProperties DEF BookSound
<1>3. /\ book' \in Seq(OrderType) /\ Len(book') = Len(book) + 1
      /\ book'[Len(book) + 1] = o /\ \A k \in 1..Len(book) : book'[k] = book[k]
  BY <1>2, AppendProperties
<1>4. \A k \in 1..Len(book') : k \in 1..Len(book) \/ k = Len(book) + 1 BY <1>2, <1>3
<1>5. BookSound(book') BY <1>1, <1>3, <1>4 DEF BookSound
<1>6. book'[Len(book')] = o BY <1>3
<1>7. Committed' = Committed + Worth(o) /\ Bought' = Bought + o.filled
  BY <1>2, <1>3, <1>6, Grown, Quantities, QuantitiesAfter
<1> QED BY <1>2, <1>3, <1>5, <1>7

LEMMA BookChanges ==
  ASSUME OrderInv, NEW i \in 1..Len(book), NEW o \in OrderType, book' = [book EXCEPT ![i] = o],
         o.filled <= o.qty, o.live => o.filled < o.qty
  PROVE  /\ BookSound(book') /\ Len(book') = Len(book) /\ Len(book) \in Nat
         /\ book'[i] = o /\ \A k \in 1..Len(book) : k # i => book'[k] = book[k]
         /\ Committed' = Committed - Worth(book[i]) + Worth(o)
         /\ Bought' = Bought - book[i].filled + o.filled
<1>1. BookSound(book) BY DEF OrderInv, BookedInv
<1>2. book \in Seq(OrderType) /\ Len(book) \in Nat /\ DOMAIN book = 1..Len(book)
  BY <1>1, LenProperties DEF BookSound
<1>3. /\ book' \in Seq(OrderType) /\ Len(book') = Len(book)
      /\ book'[i] = o /\ \A k \in 1..Len(book) : k # i => book'[k] = book[k]
  BY <1>2, ExceptSeq
<1>4. BookSound(book') BY <1>1, <1>3 DEF BookSound
<1>5. /\ Committed' = Committed - Worth(book[i]) + Worth(book'[i])
      /\ Bought' = Bought - book[i].filled + book'[i].filled
  BY <1>2, <1>3, Changed, Quantities, QuantitiesAfter
<1> QED BY <1>2, <1>3, <1>4, <1>5

\* The order a limit places.
LEMMA LimitOrder ==
  ASSUME NEW q \in Nat \ {0}
  PROVE  LET o == Order("limit", q, 0)
         IN  /\ o \in OrderType /\ o.filled = 0 /\ o.qty = q /\ o.live /\ Worth(o) = q
BY DEF Order, OrderType, Worth

LEMMA MarketOrder ==
  ASSUME NEW q \in Nat, NEW f \in 0..q
  PROVE  LET o == Order("market", q, f)
         IN  /\ o \in OrderType /\ o.filled = f /\ o.qty = q /\ ~o.live /\ Worth(o) = f
<1>1. f \in Nat /\ f <= q OBVIOUS
<1> QED BY <1>1 DEF Order, OrderType, Worth

-----------------------------------------------------------------------------
(* The actions that land elsewhere *)

\* Before a child's last order there is room for one more.
LEMMA Room ==
  ASSUME NEW n \in Nat, NEW c \in Nat \ {0}, NEW k \in 0..5, n <= 6 * (c - 1) + k
  PROVE  n <= 6 * c /\ n + 1 <= 6 * c /\ (k <= 2 => n <= 6 * (c - 1) + 3)
OBVIOUS

\* The numbers of the child that is placed.
LEMMA PlacedNumbers ==
  ASSUME OrderInv, e.pc = "place"
  PROVE  /\ Committed <= Planned(plan, e.child - 1) + Excess
         /\ Committed \in Nat /\ Bought \in Nat /\ Reported \in Nat /\ Reported <= Bought
         /\ Planned(plan, e.child - 1) \in Nat /\ Child \in Nat \ {0} /\ e.child \in Nat \ {0}
         /\ Planned(plan, e.child) = Planned(plan, e.child - 1) + Child
         /\ Excess \in Nat /\ Placed(e.pc, e.sends) = e.sends /\ e.sends \in 0..2
         /\ Len(book) \in Nat /\ Len(book) <= 6 * (e.child - 1) + 3
         /\ Len(book) + 1 <= 6 * e.child /\ Len(book) <= 6 * e.child
<1>1. Placed(e.pc, e.sends) = e.sends BY DEF Placed
<1>2. e.sends \in 0..2 BY DEF OrderInv, PlanInv, Attempts
<1>3. Committed <= Planned(plan, e.child - 1) + Excess BY DEF OrderInv, KeptInv
<1>4. e.child \in Nat \ {0} BY ChildNumbers DEF OrderInv
<1>5. Len(book) \in Nat /\ Len(book) <= 6 * (e.child - 1) + e.sends
  BY <1>1, Measured DEF OrderInv, BookedInv, BookSound
<1>6. e.sends \in 0..5 /\ e.sends <= 2 BY <1>2
<1>7. /\ Len(book) <= 6 * e.child /\ Len(book) + 1 <= 6 * e.child
      /\ Len(book) <= 6 * (e.child - 1) + 3
  BY <1>4, <1>5, <1>6, Room
<1> QED BY <1>1, <1>2, <1>3, <1>5, <1>7, Numbers, ChildNumbers DEF OrderInv

LEMMA DirectKeeps == ASSUME OrderInv, Direct PROVE OrderInv'
<1>1. e.pc = "place" /\ e' = Submit(Child) /\ UNCHANGED <<plan, mode, answers, book, row, seen>>
  BY DEF Direct, At
<1>2. GoesOn /\ Excess' = Excess BY <1>1, SeenStays DEF OrderInv
<1>3. Lands(book, 0) /\ Committed' = Committed /\ Bought' = Bought
      /\ Len(book) <= 6 * (e.child - 1) + Placed(e.pc, e.sends)
  BY <1>1, <1>2, BookStays
<1>4. Child \in 1..Child /\ Len(book) \in Nat /\ Len(book) <= 6 * (e.child - 1) + 3
  BY <1>1, PlacedNumbers
<1>5. /\ Committed' + Child <= Planned(plan, e.child) + Excess'
      /\ Committed' + Child >= Child /\ Reported <= Bought'
  BY <1>1, <1>2, <1>3, PlacedNumbers
<1> QED BY <1>1, <1>3, <1>4, <1>5, Submitted

LEMMA LimitFallsBackKeeps == ASSUME OrderInv, LimitFallsBack PROVE OrderInv'
<1>1. e.pc = "place" /\ e' = Submit(Child) /\ UNCHANGED <<plan, mode, answers, book, row>>
  BY DEF LimitFallsBack, At
<1>2. GoesOn /\ Excess' = Excess
  <2>1. CASE UNCHANGED seen BY <1>1, <2>1, SeenStays DEF OrderInv
  <2>2. CASE Fault("noid") 
    <3>1. GoesOn /\ Excess' = Excess + 0 BY <1>1, <2>2, SeenGrows DEF OrderInv, Costly
    <3> QED BY <3>1, ExcessNat DEF OrderInv
  <2> QED BY <2>1, <2>2 DEF LimitFallsBack
<1>3. Lands(book, 0) /\ Committed' = Committed /\ Bought' = Bought
      /\ Len(book) <= 6 * (e.child - 1) + Placed(e.pc, e.sends)
  BY <1>1, <1>2, BookStays
<1>4. Child \in 1..Child /\ Len(book) \in Nat /\ Len(book) <= 6 * (e.child - 1) + 3
  BY <1>1, PlacedNumbers
<1>5. /\ Committed' + Child <= Planned(plan, e.child) + Excess'
      /\ Committed' + Child >= Child /\ Reported <= Bought'
  BY <1>1, <1>2, <1>3, PlacedNumbers
<1> QED BY <1>1, <1>3, <1>4, <1>5, Submitted

LEMMA LimitRaisesKeeps == ASSUME OrderInv, LimitRaises PROVE OrderInv'
<1>1. e.pc = "place" /\ mode = "adaptive" /\ Raise /\ UNCHANGED <<plan, mode, row>>
  BY DEF LimitRaises, At
<1> DEFINE o == Order("limit", Child, 0)
<1>2. o \in OrderType /\ o.filled = 0 /\ o.qty = Child /\ o.live /\ Worth(o) = Child
  BY <1>1, PlacedNumbers, LimitOrder
<1> HIDE DEF o
<1>3. CASE Fault("reject") /\ UNCHANGED book
  <2>1. GoesOn BY <1>1, <1>3, SeenGrows DEF OrderInv
  <2>2. Excess \in Nat /\ Excess' \in Nat /\ Excess <= Excess' BY <2>1, ExcessNat DEF GoesOn, OrderInv
  <2>3. Lands(book, 0) /\ Committed' = Committed /\ Bought' = Bought
        /\ Len(book) <= 6 * (e.child - 1) + Placed(e.pc, e.sends)
    BY <1>1, <1>3, <2>1, BookStays
  <2>4. Len(book) \in Nat /\ Len(book) <= 6 * e.child
    BY <1>1, PlacedNumbers
  <2>5. /\ Committed' <= Planned(plan, e.child) + Excess'
        /\ Reported <= Bought'
    BY <1>1, <2>2, <2>3, PlacedNumbers
  <2> QED BY <1>1, <2>3, <2>4, <2>5, Raised
<1>4. CASE Fault("lost") /\ book' = Append(book, o)
  <2>1. GoesOn BY <1>1, <1>4, SeenGrows DEF OrderInv
  <2>2. Excess \in Nat /\ Excess' \in Nat /\ Excess <= Excess' BY <2>1, ExcessNat DEF GoesOn, OrderInv
  <2>3. /\ BookSound(book') /\ Len(book') = Len(book) + 1 /\ Len(book) \in Nat
        /\ Committed' = Committed + Worth(o) /\ Bought' = Bought + o.filled
    BY <1>2, <1>4, PlacedNumbers, <1>1, BookGrows
  <2>4. Lands(book', 0)
    BY <1>1, <2>1, <2>3 DEF Lands
  <2>5. Len(book') <= 6 * e.child
    BY <1>1, <2>3, PlacedNumbers
  <2>6. /\ Committed' <= Planned(plan, e.child) + Excess'
        /\ Reported <= Bought'
    BY <1>1, <1>2, <2>2, <2>3, PlacedNumbers
  <2> QED BY <1>1, <2>4, <2>5, <2>6, Raised
<1> QED BY <1>3, <1>4 DEF LimitRaises, o

\* The limit rests: its poll begins.
LEMMA PlaceLimitKeeps == ASSUME OrderInv, PlaceLimit PROVE OrderInv'
<1> DEFINE o == Order("limit", Child, 0)
<1>1. /\ e.pc = "place" /\ mode = "adaptive" /\ book' = Append(book, o)
      /\ e' = [e EXCEPT !.pc = "poll", !.order = Len(book) + 1, !.sends = 0]
      /\ UNCHANGED <<plan, mode, answers, row, seen>>
  BY DEF PlaceLimit, At
<1>2. o \in OrderType /\ o.filled = 0 /\ o.qty = Child /\ o.live /\ Worth(o) = Child
  BY <1>1, PlacedNumbers, LimitOrder
<1> HIDE DEF o
<1>3. GoesOn /\ Excess' = Excess BY <1>1, SeenStays DEF OrderInv
<1>4. /\ BookSound(book') /\ Len(book') = Len(book) + 1 /\ Len(book) \in Nat
      /\ book'[Len(book) + 1] = o
      /\ Committed' = Committed + Worth(o) /\ Bought' = Bought + o.filled
  BY <1>1, <1>2, PlacedNumbers, BookGrows
<1>5. Reported' = Reported BY <1>1, Quantities, QuantitiesAfter
<1>6. /\ e \in [pc: PC, child: Nat, order: Nat, qty: Nat, polls: Nat, sends: Nat] /\ e.polls <= MaxPolls
      /\ e.child \in 1..Len(plan) /\ e.qty <= Child
      /\ plan \in Plans /\ mode \in Modes /\ seen \in Seq(Seen) /\ Len(seen) <= MaxFaults
  BY DEF OrderInv, PlanInv
<1>7. /\ e' \in [pc: PC, child: Nat, order: Nat, qty: Nat, polls: Nat, sends: Nat] /\ e'.pc = "poll"
      /\ e'.child = e.child /\ e'.order = Len(book) + 1 /\ e'.qty = e.qty /\ e'.polls = e.polls
      /\ e'.sends = 0
  <2>1. "poll" \in PC /\ Len(book) + 1 \in Nat BY <1>4 DEF PC
  <2> QED BY <1>1, <1>6, <2>1
<1>8. Child' = Child /\ Current' = o BY <1>1, <1>4, <1>7 DEF Child, Current
<1>9. Working' /\ Due' = 0 BY <1>7 DEF Working, Due
<1>10. PlanInv'
  <2>1. e'.order <= Len(book') BY <1>4, <1>7
  <2> QED BY <1>1, <1>6, <1>7, <1>8, <2>1 DEF PlanInv, Seen, Attempts
<1>11. BookedInv'
  <2>1. Len(book) <= 6 * (e.child - 1) + Placed(e.pc, e.sends) BY DEF OrderInv, BookedInv
  <2>2. /\ Placed(e.pc, e.sends) <= 2 /\ Placed(e.pc, e.sends) \in Nat
        /\ Placed(e'.pc, e'.sends) = 3 /\ e.child \in Nat
    <3>1. Placed(e.pc, e.sends) = e.sends /\ e.sends \in 0..2 /\ e.child \in Nat BY <1>1, PlacedNumbers
    <3>2. Placed(e'.pc, e'.sends) = 3 BY <1>7 DEF Placed
    <3> QED BY <3>1, <3>2
  <2>3. Len(book') <= 6 * (e'.child - 1) + Placed(e'.pc, e'.sends) BY <1>4, <1>7, <2>1, <2>2
  <2>4. e'.order \in 1..Len(book') BY <1>4, <1>7
  <2> QED BY <1>2, <1>4, <1>8, <2>3, <2>4 DEF BookedInv
<1>12. AnswersInv'
  <2>1. answers \in Seq(OrderType) /\ Len(answers) <= Len(plan) /\ Len(answers) = e.child - 1
        /\ \A k \in 1..Len(answers) : answers[k].filled <= plan[k]
    BY <1>1 DEF OrderInv, AnswersInv
  <2>2. Reported' + Current'.filled <= Bought' BY <1>1, <1>2, <1>4, <1>5, <1>8, PlacedNumbers
  <2> QED BY <1>1, <1>7, <1>9, <2>1, <2>2 DEF AnswersInv
<1>13. Committed' = Committed + Child BY <1>2, <1>4
<1>14. KeptInv'
  <2>1. Committed' + 0 <= Planned(plan, e.child) + Excess' BY <1>1, <1>3, <1>13, PlacedNumbers
  <2> QED BY <1>1, <1>7, <1>9, <2>1 DEF KeptInv
<1>16. RowInv'
  <2>1. row = 0 BY <1>1 DEF OrderInv, RowInv
  <2> QED BY <1>1, <1>7, <2>1 DEF RowInv
<1>17. MarketInv' BY <1>1 DEF MarketInv
<1> QED BY <1>10, <1>11, <1>12, <1>14, <1>16, <1>17 DEF OrderInv

\* What holds while the order of a child is worked.
LEMMA WorkedNumbers ==
  ASSUME OrderInv, Working
  PROVE  /\ e.order \in 1..Len(book) /\ Current \in OrderType /\ Current.qty = Child
         /\ Current.filled \in Nat /\ Current.filled <= Child
         /\ (Current.live => Current.filled < Child) /\ Current.filled <= Committed
         /\ Reported + Current.filled <= Bought
         /\ Committed <= Planned(plan, e.child) + Excess
         /\ Committed \in Nat /\ Bought \in Nat /\ Reported \in Nat /\ Reported <= Bought
         /\ Planned(plan, e.child - 1) \in Nat /\ Child \in Nat \ {0} /\ e.child \in Nat \ {0}
         /\ Planned(plan, e.child) = Planned(plan, e.child - 1) + Child
         /\ Excess \in Nat
         /\ Placed(e.pc, e.sends) = 3 /\ mode # "market" /\ e.pc \notin {"place", "submit", "finish", "done"}
<1>1. e.order \in 1..Len(book) /\ Current.qty = Child /\ BookSound(book) BY DEF OrderInv, BookedInv
<1>2. book \in Seq(OrderType) BY <1>1 DEF BookSound
<1>3. Current \in OrderType /\ Current.filled \in Nat BY <1>1, <1>2, Measured, WorthNat DEF Current
<1>4. Current.filled <= Current.qty /\ (Current.live => Current.filled < Current.qty)
  BY <1>1 DEF BookSound, Current
<1>5. Current.filled <= Bought
  <2>1. Current.filled <= Total(Fillings(book)) BY <1>1, <1>2, Counted DEF Current
  <2> QED BY <2>1, Quantities
<1>6. e.pc \in {"poll", "cancel", "status"} BY DEF Working
<1>7. Placed(e.pc, e.sends) = 3 BY <1>6 DEF Placed
<1>8. Due = 0 BY <1>6 DEF Due
<1>9. Committed \in Nat /\ Bought \in Nat /\ Bought <= Committed BY Numbers DEF OrderInv
<1>11. Committed <= Planned(plan, e.child) + Excess BY <1>8, <1>9 DEF OrderInv, KeptInv
<1>12. Reported + Current.filled <= Bought BY DEF OrderInv, AnswersInv
<1>13. mode # "market" BY DEF OrderInv, MarketInv
<1>14. Current.filled <= Committed BY <1>3, <1>5, <1>9
<1> QED BY <1>1, <1>3, <1>4, <1>6, <1>7, <1>9, <1>11, <1>12, <1>13, <1>14, Numbers, ChildNumbers
        DEF OrderInv

LEMMA PollFilledKeeps == ASSUME OrderInv, PollFilled PROVE OrderInv'
<1>1. e.pc = "poll" /\ Unfilled(e.order) = 0 /\ Return(Current) /\ UNCHANGED <<plan, mode, book, row, seen>>
  BY DEF PollFilled, At
<1>2. Working BY <1>1 DEF Working
<1>3. GoesOn /\ Excess' = Excess BY <1>1, SeenStays DEF OrderInv
<1>4. Current.filled = Child
  <2>1. Current.qty - Current.filled = 0 BY <1>1 DEF Unfilled, Current
  <2> QED BY <1>2, <2>1, WorkedNumbers
<1>5. BookSound(book) /\ book' = book /\ Committed' = Committed /\ Bought' = Bought
  BY <1>1, Quantities, QuantitiesAfter DEF OrderInv, BookedInv
<1>6. Len(book) \in Nat /\ Len(book) <= 6 * (e.child - 1) + 3
  BY <1>2, <1>5, WorkedNumbers, Measured DEF OrderInv, BookedInv, BookSound
<1>7. Lands(book, Current.filled) BY <1>1, <1>2, <1>3, <1>5, <1>6, WorkedNumbers DEF Lands
<1>8. /\ Committed' <= Planned(plan, e.child) + Excess'
      /\ Reported + Current.filled <= Bought' /\ Current.filled # 0
      /\ Len(book) <= 6 * e.child /\ Current \in OrderType /\ Current.filled <= Child
  <2>1. /\ Current \in OrderType /\ Current.filled = Child /\ Child \in Nat \ {0} /\ e.child \in Nat \ {0}
        /\ Committed \in Nat /\ Planned(plan, e.child - 1) \in Nat
        /\ Planned(plan, e.child) = Planned(plan, e.child - 1) + Child
    BY <1>2, <1>4, WorkedNumbers
  <2>2. (Committed <= Planned(plan, e.child) + Excess) /\ Reported + Current.filled <= Bought
    BY <1>2, WorkedNumbers
  <2>4. Len(book) <= 6 * e.child BY <1>6, <2>1
  <2> QED BY <1>3, <1>5, <2>1, <2>2, <2>4
<1> QED BY <1>1, <1>7, <1>8, Returned

LEMMA StatusKeeps == ASSUME OrderInv, Status PROVE OrderInv'
<1>1. e.pc = "status" /\ UNCHANGED <<plan, mode, book, row, seen>> BY DEF Status, At
<1>2. Working BY <1>1 DEF Working
<1>3. GoesOn /\ Excess' = Excess BY <1>1, SeenStays DEF OrderInv
<1>4. BookSound(book) /\ book' = book /\ Committed' = Committed /\ Bought' = Bought
  BY <1>1, Quantities, QuantitiesAfter DEF OrderInv, BookedInv
<1>5. Len(book) \in Nat /\ Len(book) <= 6 * (e.child - 1) + 3
  BY <1>2, <1>4, WorkedNumbers, Measured DEF OrderInv, BookedInv, BookSound
<1>6. /\ Committed' <= Planned(plan, e.child - 1) + Current.filled + Excess'
  <2>1. Committed <= Planned(plan, e.child - 1) + Current.filled + Excess BY <1>1 DEF OrderInv, KeptInv
  <2> QED BY <1>3, <1>4, <2>1
<1>7. CASE Return(Current) /\ Current.filled = Child
  <2>1. Lands(book, Current.filled) BY <1>1, <1>2, <1>3, <1>4, <1>5, WorkedNumbers DEF Lands
  <2>2. /\ Committed' <= Planned(plan, e.child) + Excess'
        /\ Reported + Current.filled <= Bought' /\ Current.filled # 0
        /\ Len(book) <= 6 * e.child /\ Current \in OrderType /\ Current.filled <= Child
    <3>1. /\ Current \in OrderType /\ Current.filled = Child /\ Child \in Nat \ {0} /\ e.child \in Nat \ {0}
          /\ Planned(plan, e.child - 1) \in Nat /\ Committed' \in Nat /\ Excess' \in Nat
          /\ Planned(plan, e.child) = Planned(plan, e.child - 1) + Child
      BY <1>2, <1>3, <1>4, <1>7, WorkedNumbers
    <3>2. Reported + Current.filled <= Bought' BY <1>2, <1>4, WorkedNumbers
    <3>4. Committed' <= Planned(plan, e.child) + Excess' BY <1>6, <3>1
    <3>5. Len(book) <= 6 * e.child BY <1>5, <3>1
    <3> QED BY <3>1, <3>2, <3>4, <3>5
  <2> QED BY <1>1, <1>7, <2>1, <2>2, Returned
<1>8. ASSUME NEW q \in 1..Child, q = Child - Current.filled, e' = Submit(q), answers' = answers
      PROVE  OrderInv'
  <2>1. Lands(book, 0) BY <1>1, <1>3, BookStays
  <2>2. /\ Committed' + q <= Planned(plan, e.child) + Excess'
        /\ Committed' + q >= Child /\ Reported <= Bought'
    <3>1. /\ Current.filled \in Nat /\ Child \in Nat /\ q \in Nat /\ q = Child - Current.filled
          /\ Committed' \in Nat /\ Committed' >= Current.filled /\ Reported <= Bought'
          /\ Planned(plan, e.child - 1) \in Nat /\ Excess' \in Nat
          /\ Planned(plan, e.child) = Planned(plan, e.child - 1) + Child
      BY <1>2, <1>3, <1>4, <1>8, WorkedNumbers
    <3>3. Committed' + q <= Planned(plan, e.child) + Excess' BY <1>6, <3>1
    <3>4. Committed' + q >= Child BY <3>1
    <3> QED BY <3>1, <3>3, <3>4
  <2> QED BY <1>1, <1>5, <1>8, <2>1, <2>2, Submitted
<1>9. Remainder(Current.filled) = Child - Current.filled BY DEF Remainder
<1>10. CASE Remainder(Current.filled) <= 0
  <2>1. Return(Current) BY <1>10 DEF Status
  <2>2. Current.filled = Child BY <1>2, <1>9, <1>10, WorkedNumbers
  <2> QED BY <1>7, <2>1, <2>2
<1>11. CASE ~(Remainder(Current.filled) <= 0)
  <2>1. e' = Submit(Remainder(Current.filled)) /\ answers' = answers BY <1>11 DEF Status
  <2>2. Current.filled \in Nat /\ Current.filled <= Child /\ Child \in Nat BY <1>2, WorkedNumbers
  <2>3. Child - Current.filled \in 1..Child BY <1>9, <1>11, <2>2
  <2> QED BY <1>8, <1>9, <2>1, <2>3
<1> QED BY <1>10, <1>11

LEMMA StatusRaisesKeeps == ASSUME OrderInv, StatusRaises PROVE OrderInv'
<1>1. /\ e.pc = "status" /\ Fault("status") /\ e' = Submit(Child)
      /\ UNCHANGED <<plan, mode, answers, book, row>>
  BY DEF StatusRaises, At
<1>2. Working BY <1>1 DEF Working
<1>3. GoesOn /\ Excess' = Excess + Child BY <1>1, SeenGrows DEF OrderInv, Costly
<1>5. Lands(book, 0) /\ Committed' = Committed /\ Bought' = Bought
      /\ Len(book) <= 6 * (e.child - 1) + Placed(e.pc, e.sends)
  BY <1>1, <1>3, BookStays
<1>6. /\ Child \in Nat \ {0} /\ Committed' \in Nat /\ Reported <= Bought' /\ Excess \in Nat
      /\ Committed' <= Planned(plan, e.child) + Excess
      /\ Planned(plan, e.child - 1) \in Nat /\ Planned(plan, e.child) = Planned(plan, e.child - 1) + Child
      /\ Len(book) <= 6 * (e.child - 1) + 3
  BY <1>2, <1>5, WorkedNumbers
<1>7. Committed' + Child <= Planned(plan, e.child) + Excess' BY <1>3, <1>6
<1>8. Committed' \in Nat /\ Child \in Nat /\ Child >= 1 BY <1>6
<1>9. Committed' + Child >= Child
  <2>1. \A c, d \in Nat : c + d >= d OBVIOUS
  <2> QED BY <1>8, <2>1
<1>10. Child \in 1..Child BY <1>8
<1> QED BY <1>1, <1>5, <1>6, <1>7, <1>9, <1>10, Submitted

\* The order that is worked stays so: a poll, its end, or the cancel.
LEMMA Worked ==
  ASSUME OrderInv, Working, NEW pc \in {"poll", "cancel", "status"}, NEW n \in 0..MaxPolls,
         e' = [e EXCEPT !.pc = pc, !.polls = n], GoesOn, UNCHANGED <<answers, row>>,
         BookSound(book'), Len(book') = Len(book),
         Current' \in OrderType, Current'.qty = Current.qty, Current'.filled = Current.filled,
         pc # "status" => Current'.live \/ Current'.filled = Current'.qty,
         Bought' = Bought, Committed' <= Committed,
         pc = "status" => ~Current'.live /\ Committed' <= Planned(plan, e.child - 1) + Current.filled + Excess'
  PROVE  OrderInv'
<1>1. /\ e.order \in 1..Len(book) /\ Current.qty = Child /\ Current.filled \in Nat
      /\ Reported + Current.filled <= Bought /\ Excess \in Nat
      /\ Committed <= Planned(plan, e.child) + Excess
      /\ Committed \in Nat /\ Bought \in Nat /\ Reported \in Nat
      /\ Planned(plan, e.child - 1) \in Nat /\ Child \in Nat \ {0} /\ e.child \in Nat \ {0}
      /\ Planned(plan, e.child) = Planned(plan, e.child - 1) + Child
      /\ Placed(e.pc, e.sends) = 3 /\ mode # "market" /\ e.pc \notin {"place", "submit", "finish", "done"}
  BY WorkedNumbers
<1>2. plan' = plan /\ mode' = mode /\ seen' \in Seq(Seen) /\ Len(seen') <= MaxFaults
      /\ Excess' \in Nat /\ Excess <= Excess'
  BY DEF GoesOn
<1>3. Committed' \in Nat BY BookNumbers, QuantitiesAfter
<1>4. Reported' = Reported BY Quantities, QuantitiesAfter
<1>5. /\ e \in [pc: PC, child: Nat, order: Nat, qty: Nat, polls: Nat, sends: Nat]
      /\ e.child \in 1..Len(plan) /\ e.order <= Len(book) /\ e.qty <= Child /\ e.sends < Attempts
      /\ plan \in Plans /\ mode \in Modes
  BY DEF OrderInv, PlanInv
<1>6. /\ e' \in [pc: PC, child: Nat, order: Nat, qty: Nat, polls: Nat, sends: Nat] /\ e'.pc = pc
      /\ e'.child = e.child /\ e'.order = e.order /\ e'.qty = e.qty /\ e'.polls = n
      /\ e'.sends = e.sends
  <2>1. pc \in PC /\ n \in Nat BY NumbersAssumption DEF PC
  <2> QED BY <1>5, <2>1
<1>7. Child' = Child BY <1>2, <1>6 DEF Child
<1>8. Working' /\ Due' = 0 BY <1>6 DEF Working, Due
<1>9. Placed(pc, e.sends) = 3 BY DEF Placed
<1>10. PlanInv'
  <2>1. n \in Nat /\ n <= MaxPolls BY NumbersAssumption
  <2> QED BY <1>2, <1>5, <1>6, <1>7, <2>1 DEF PlanInv, Seen
<1>11. BookedInv'
  <2>1. Len(book) <= 6 * (e.child - 1) + Placed(e.pc, e.sends) BY DEF OrderInv, BookedInv
  <2>2. Len(book') <= 6 * (e'.child - 1) + Placed(e'.pc, e'.sends) BY <1>1, <1>6, <1>9, <2>1
  <2> QED BY <1>1, <1>6, <1>7, <2>2 DEF BookedInv
<1>12. AnswersInv'
  <2>1. answers \in Seq(OrderType) /\ Len(answers) <= Len(plan) /\ Len(answers) = e.child - 1
        /\ \A k \in 1..Len(answers) : answers[k].filled <= plan[k]
    BY <1>1 DEF OrderInv, AnswersInv
  <2>2. Reported' + Current'.filled <= Bought' BY <1>1, <1>4
  <2> QED BY <1>2, <1>6, <1>8, <2>1, <2>2 DEF AnswersInv
<1>13. KeptInv'
  <2>1. Committed' + 0 <= Planned(plan, e.child) + Excess' BY <1>1, <1>2, <1>3
  <2> QED BY <1>2, <1>6, <1>8, <2>1 DEF KeptInv
<1>15. RowInv'
  <2>1. row = 0 BY <1>1 DEF OrderInv, RowInv
  <2> QED BY <1>6, <2>1 DEF RowInv
<1>16. MarketInv' BY <1>1, <1>2 DEF MarketInv
<1> QED BY <1>10, <1>11, <1>12, <1>13, <1>15, <1>16 DEF OrderInv

LEMMA PollKeeps == ASSUME OrderInv, PollAgain \/ PollEnds PROVE OrderInv'
<1>1. PICK pc \in {"poll", "cancel"}, n \in 0..MaxPolls : e' = [e EXCEPT !.pc = pc, !.polls = n]
  <2>1. e \in [pc: PC, child: Nat, order: Nat, qty: Nat, polls: Nat, sends: Nat] /\ e.polls <= MaxPolls /\ MaxPolls \in Nat
    BY NumbersAssumption DEF OrderInv, PlanInv
  <2>2. CASE PollAgain
    <3>1. e.pc = "poll" /\ e.polls < MaxPolls /\ e' = [e EXCEPT !.polls = e.polls + 1]
      BY <2>2 DEF PollAgain, At
    <3>2. e.polls + 1 \in 0..MaxPolls BY <2>1, <3>1
    <3>3. e' = [e EXCEPT !.pc = "poll", !.polls = e.polls + 1] BY <2>1, <3>1
    <3> QED BY <3>2, <3>3
  <2>3. CASE PollEnds
    <3>1. e' = [e EXCEPT !.pc = "cancel"] BY <2>3 DEF PollEnds
    <3>2. e.polls \in 0..MaxPolls BY <2>1
    <3>3. e' = [e EXCEPT !.pc = "cancel", !.polls = e.polls] BY <2>1, <3>1
    <3> QED BY <3>2, <3>3
  <2> QED BY <2>2, <2>3
<1>2. e.pc = "poll" /\ UNCHANGED <<plan, mode, answers, book, row>> BY DEF PollAgain, PollEnds, At
<1>3. Working BY <1>2 DEF Working
<1>4. GoesOn
  <2>1. UNCHANGED seen \/ Fault("poll") BY DEF PollAgain, PollEnds
  <2> QED BY <1>2, <2>1, SeenStays, SeenGrows DEF OrderInv
<1>5. e \in [pc: PC, child: Nat, order: Nat, qty: Nat, polls: Nat, sends: Nat] BY DEF OrderInv, PlanInv
<1>6. Current' = Current
  <2>1. e'.order = e.order BY <1>1, <1>5
  <2> QED BY <1>2, <2>1 DEF Current
<1>7. BookSound(book) /\ Committed' = Committed /\ Bought' = Bought /\ Committed \in Nat
  BY <1>2, Quantities, QuantitiesAfter, Numbers DEF OrderInv, BookedInv
<1>8. Current \in OrderType /\ (Current.live \/ Current.filled = Current.qty)
  BY <1>2, <1>3, WorkedNumbers DEF OrderInv, BookedInv
<1>9. /\ BookSound(book') /\ Len(book') = Len(book) /\ Committed' <= Committed
      /\ Current' \in OrderType /\ Current'.qty = Current.qty /\ Current'.filled = Current.filled
      /\ (Current'.live \/ Current'.filled = Current'.qty)
  BY <1>2, <1>6, <1>7, <1>8
<1>10. pc \in {"poll", "cancel", "status"} /\ pc # "status" BY <1>1
<1> QED BY <1>1, <1>2, <1>3, <1>4, <1>7, <1>9, <1>10, Worked

\* What a cancel does to the book.
LEMMA Cancelled ==
  ASSUME OrderInv, e.pc = "cancel", book' = [book EXCEPT ![e.order].live = FALSE]
  PROVE  LET o == [Current EXCEPT !.live = FALSE]
         IN  /\ o \in OrderType /\ o.qty = Current.qty /\ o.filled = Current.filled /\ ~o.live
             /\ BookSound(book') /\ Len(book') = Len(book) /\ book'[e.order] = o
             /\ Bought' = Bought /\ Committed' <= Committed
             /\ Committed' <= Planned(plan, e.child - 1) + Current.filled + Excess
<1> DEFINE o == [Current EXCEPT !.live = FALSE]
<1>1. Working BY DEF Working
<1>2. e.order \in 1..Len(book) /\ Current \in OrderType /\ book[e.order] = Current
  BY <1>1, WorkedNumbers DEF Current
<1>3. o \in OrderType /\ o.qty = Current.qty /\ o.filled = Current.filled /\ ~o.live
  BY <1>2 DEF OrderType
<1>4. book' = [book EXCEPT ![e.order] = o] BY <1>2
<1> HIDE DEF o
<1>5. o.filled <= o.qty BY <1>1, <1>3, WorkedNumbers
<1>6. /\ BookSound(book') /\ Len(book') = Len(book) /\ book'[e.order] = o
      /\ Committed' = Committed - Worth(Current) + Worth(o)
      /\ Bought' = Bought - Current.filled + o.filled
  BY <1>2, <1>3, <1>4, <1>5, BookChanges
<1>7. Worth(o) = Current.filled BY <1>3 DEF Worth
<1>8. Current.live \/ Current.filled = Child
  BY <1>1, WorkedNumbers DEF OrderInv, BookedInv
<1>9. Worth(Current) = Child BY <1>1, <1>8, WorkedNumbers DEF Worth
<1>10. /\ Committed \in Nat /\ Bought \in Nat /\ Child \in Nat /\ Current.filled \in Nat /\ Current.filled <= Child
       /\ Planned(plan, e.child - 1) \in Nat /\ Planned(plan, e.child) = Planned(plan, e.child - 1) + Child
       /\ Committed <= Planned(plan, e.child) + Excess /\ Excess \in Nat
  BY <1>1, WorkedNumbers
<1>11. Bought' = Bought BY <1>3, <1>6, <1>10
<1>12. Committed' = Committed - Child + Current.filled BY <1>6, <1>7, <1>9
<1>13. Committed' <= Committed BY <1>10, <1>12
<1>14. Committed' <= Planned(plan, e.child - 1) + Current.filled + Excess BY <1>10, <1>12
<1> QED BY <1>3, <1>6, <1>11, <1>13, <1>14 DEF o

LEMMA CancelKeeps == ASSUME OrderInv, Cancel PROVE OrderInv'
<1>1. /\ e.pc = "cancel" /\ book' = [book EXCEPT ![e.order].live = FALSE] /\ e' = [e EXCEPT !.pc = "status"]
      /\ UNCHANGED <<plan, mode, answers, row, seen>>
  BY DEF Cancel, At
<1>2. PICK o : /\ o \in OrderType /\ o.qty = Current.qty /\ o.filled = Current.filled /\ ~o.live
               /\ BookSound(book') /\ Len(book') = Len(book) /\ book'[e.order] = o
               /\ Bought' = Bought /\ Committed' <= Committed
               /\ Committed' <= Planned(plan, e.child - 1) + Current.filled + Excess
  BY <1>1, Cancelled
<1>3. GoesOn /\ Excess' = Excess BY <1>1, SeenStays DEF OrderInv
<1>4. Working BY <1>1 DEF Working
<1>5. e \in [pc: PC, child: Nat, order: Nat, qty: Nat, polls: Nat, sends: Nat] /\ e.polls \in 0..MaxPolls
  BY NumbersAssumption DEF OrderInv, PlanInv
<1>6. e' = [e EXCEPT !.pc = "status", !.polls = e.polls] BY <1>1, <1>5
<1>7. Current' = o
  <2>1. e'.order = e.order BY <1>1, <1>5
  <2> QED BY <1>2, <2>1 DEF Current
<1> QED BY <1>1, <1>2, <1>3, <1>4, <1>5, <1>6, <1>7, Worked

LEMMA CancelRaisesKeeps == ASSUME OrderInv, CancelRaises PROVE OrderInv'
<1>1. e.pc = "cancel" /\ e' = Submit(Child) /\ UNCHANGED <<plan, mode, answers, row>> BY DEF CancelRaises, At
<1>2. Working BY <1>1 DEF Working
<1>3. /\ Child \in Nat \ {0} /\ Committed \in Nat /\ Reported <= Bought /\ mode # "market"
      /\ Planned(plan, e.child - 1) \in Nat /\ Planned(plan, e.child) = Planned(plan, e.child - 1) + Child
      /\ Placed(e.pc, e.sends) = 3 /\ Excess \in Nat /\ Committed <= Planned(plan, e.child) + Excess
  BY <1>2, WorkedNumbers
<1>4. BookSound(book) /\ Len(book) <= 6 * (e.child - 1) + 3 /\ Len(book) \in Nat
  BY <1>3, Measured DEF OrderInv, BookedInv, BookSound
<1>5. ASSUME BookSound(book'), Len(book') = Len(book), Committed' <= Committed, Bought' = Bought, GoesOn,
             Excess' = Excess + Child
      PROVE  OrderInv'
  <2>1. Committed' \in Nat BY <1>5, BookNumbers, QuantitiesAfter
  <2>2. Lands(book', 0) BY <1>1, <1>3, <1>4, <1>5 DEF Lands
  <2>3. Committed' + Child <= Planned(plan, e.child) + Excess' BY <1>3, <1>5, <2>1
  <2>4. Child >= 1 /\ Child \in 1..Child BY <1>3
  <2>5. Committed' + Child >= Child
    <3>1. \A c, d \in Nat : c + d >= d OBVIOUS
    <3> QED BY <1>3, <2>1, <3>1
  <2>6. Len(book') <= 6 * (e.child - 1) + 3 /\ Reported <= Bought' BY <1>3, <1>4, <1>5
  <2> QED BY <1>1, <1>5, <2>2, <2>3, <2>4, <2>5, <2>6, Submitted
<1>6. CASE Fault("cancel") /\ UNCHANGED book
  <2>1. GoesOn /\ Excess' = Excess + Child BY <1>1, <1>6, SeenGrows DEF OrderInv, Costly
  <2>3. Committed' = Committed /\ Bought' = Bought BY <1>6, Quantities, QuantitiesAfter
  <2> QED BY <1>3, <1>4, <1>5, <1>6, <2>1, <2>3
<1>7. CASE Fault("cancelled") /\ book' = [book EXCEPT ![e.order].live = FALSE]
  <2>1. GoesOn /\ Excess' = Excess + Child BY <1>1, <1>7, SeenGrows DEF OrderInv, Costly
  <2>3. BookSound(book') /\ Len(book') = Len(book) /\ Bought' = Bought /\ Committed' <= Committed
    BY <1>1, <1>7, Cancelled
  <2> QED BY <1>5, <2>1, <2>3
<1> QED BY <1>6, <1>7 DEF CancelRaises

\* The numbers of what is submitted.
LEMMA SubmitNumbers ==
  ASSUME OrderInv, e.pc = "submit"
  PROVE  /\ e.qty \in Nat \ {0} /\ e.qty <= Child /\ Committed + e.qty >= Child
         /\ Committed + e.qty <= Planned(plan, e.child) + Excess
         /\ Committed \in Nat /\ Bought \in Nat /\ Reported \in Nat /\ Reported <= Bought
         /\ Child \in Nat \ {0} /\ e.child \in Nat \ {0} /\ Planned(plan, e.child) \in Nat
         /\ Excess \in Nat /\ Len(book) \in Nat /\ Len(book) + 1 <= 6 * e.child /\ Len(book) <= 6 * e.child
<1>1. e.qty \in Nat \ {0} /\ e.qty <= Child BY DEF OrderInv, PlanInv
<1>2. Due = e.qty /\ Placed(e.pc, e.sends) = 3 + e.sends /\ e.sends \in 0..2
  BY DEF Due, Placed, OrderInv, PlanInv, Attempts
<1>3. Len(book) \in Nat /\ Len(book) + 1 <= 6 * e.child /\ Len(book) <= 6 * e.child
  <2>1. Len(book) <= 6 * (e.child - 1) + Placed(e.pc, e.sends) /\ e.child \in Nat BY DEF OrderInv, BookedInv, PlanInv
  <2>2. Len(book) \in Nat BY Measured DEF OrderInv, BookedInv, BookSound
  <2>3. e.child \in Nat \ {0} BY ChildNumbers DEF OrderInv
  <2>4. 3 + e.sends \in 0..5 BY <1>2
  <2>5. Len(book) <= 6 * (e.child - 1) + (3 + e.sends) BY <1>2, <2>1
  <2> QED BY <2>2, <2>3, <2>4, <2>5, Room
<1>4. Committed + e.qty >= Child BY DEF OrderInv, RowInv
<1>5. /\ Committed + e.qty <= Planned(plan, e.child) + Excess
  BY <1>2 DEF OrderInv, KeptInv
<1> QED BY <1>1, <1>2, <1>3, <1>4, <1>5, Numbers, ChildNumbers DEF OrderInv

\* What is left of them when the pending quantity is not sent.
LEMMA UnsentNumbers ==
  ASSUME OrderInv, e.pc = "submit"
  PROVE  /\ Committed <= Planned(plan, e.child) + Excess
         /\ Reported <= Bought /\ Len(book) <= 6 * e.child
<1>1. /\ e.qty \in Nat /\ Committed \in Nat /\ Planned(plan, e.child) \in Nat
      /\ Len(book) <= 6 * e.child /\ Excess \in Nat
      /\ Reported <= Bought
  BY SubmitNumbers
<1>2. /\ Committed + e.qty <= Planned(plan, e.child) + Excess
  BY SubmitNumbers
<1>4. Committed <= Planned(plan, e.child) + Excess BY <1>1, <1>2
<1>5. Len(book) <= 6 * e.child BY <1>1
<1> QED BY <1>1, <1>4, <1>5

\* The orders submit_one may send.
LEMMA SentOrders ==
  ASSUME NEW order \in Sent, e.qty \in Nat \ {0}
  PROVE  /\ order \in OrderType /\ order.qty = e.qty /\ order.filled <= e.qty
         /\ (order.live => order.filled < order.qty) /\ Worth(order) \in Nat /\ Worth(order) <= e.qty
         /\ (mode = "market" => ~order.live /\ (MarketsFill => order.filled > 0))
         /\ (mode # "market" => Worth(order) = e.qty)
<1>1. CASE mode = "market"
  <2>1. PICK f \in Filled(e.qty) : order = Order("market", e.qty, f) BY <1>1 DEF Sent
  <2>2. f \in 0..e.qty /\ (MarketsFill => f > 0) BY <2>1 DEF Filled, MarketsFill
  <2>3. f \in Nat /\ f <= e.qty /\ e.qty \in Nat BY <2>2
  <2>4. order \in OrderType /\ order.filled = f /\ order.qty = e.qty /\ ~order.live /\ Worth(order) = f
    BY <2>1, <2>2, <2>3, MarketOrder
  <2> QED BY <1>1, <2>2, <2>3, <2>4
<1>2. CASE mode # "market"
  <2>1. order = Order("limit", e.qty, 0) BY <1>2 DEF Sent
  <2>2. order \in OrderType /\ order.filled = 0 /\ order.qty = e.qty /\ order.live /\ Worth(order) = e.qty
    BY <2>1, LimitOrder
  <2> QED BY <1>2, <2>2
<1> QED BY <1>1, <1>2

LEMMA SubmitSmallKeeps == ASSUME OrderInv, SubmitSmall PROVE OrderInv'
<1>1. e.pc = "submit" /\ Raise /\ UNCHANGED <<plan, mode, book, row, seen>> BY DEF SubmitSmall, At
<1>2. GoesOn /\ Excess' = Excess BY <1>1, SeenStays DEF OrderInv
<1>3. Lands(book, 0) /\ Committed' = Committed /\ Bought' = Bought BY <1>1, <1>2, BookStays
<1>4. /\ Committed' <= Planned(plan, e.child) + Excess'
      /\ Reported <= Bought' /\ Len(book) <= 6 * e.child
  BY <1>1, <1>2, <1>3, UnsentNumbers
<1> QED BY <1>1, <1>3, <1>4, Raised

LEMMA SubmitOneKeeps == ASSUME OrderInv, SubmitOne PROVE OrderInv'
<1>1. e.pc = "submit" /\ UNCHANGED <<plan, mode, row, seen>> BY DEF SubmitOne, At
<1>2. PICK order \in Sent : book' = Append(book, order) /\ Return(order) BY DEF SubmitOne
<1>3. e.qty \in Nat \ {0} BY <1>1, SubmitNumbers
<1>4. /\ order \in OrderType /\ order.qty = e.qty /\ order.filled <= e.qty /\ order.filled \in Nat
      /\ (order.live => order.filled < order.qty) /\ Worth(order) \in Nat /\ Worth(order) <= e.qty
      /\ (mode = "market" => ~order.live /\ (MarketsFill => order.filled > 0))
      /\ (mode # "market" => Worth(order) = e.qty)
  BY <1>2, <1>3, SentOrders, WorthNat
<1>5. GoesOn /\ Excess' = Excess BY <1>1, SeenStays DEF OrderInv
<1>6. /\ BookSound(book') /\ Len(book') = Len(book) + 1 /\ Len(book) \in Nat
      /\ book'[Len(book) + 1] = order /\ \A k \in 1..Len(book) : book'[k] = book[k]
      /\ Committed' = Committed + Worth(order) /\ Bought' = Bought + order.filled
  BY <1>2, <1>4, BookGrows
<1>7. mode = "market" => \A k \in 1..Len(book') : ~book'[k].live
  <2>1. \A k \in 1..Len(book') : k \in 1..Len(book) \/ k = Len(book) + 1 BY <1>6
  <2> QED BY <1>4, <1>6, <2>1 DEF OrderInv, MarketInv
<1>8. Lands(book', order.filled) BY <1>1, <1>5, <1>6, <1>7 DEF Lands
<1>9. /\ Committed' <= Planned(plan, e.child) + Excess'
      /\ Reported + order.filled <= Bought' /\ Len(book') <= 6 * e.child /\ order.filled <= Child
  <2>1. \A x, w, q, m \in Nat : w <= q /\ x + q <= m => x + w <= m OBVIOUS
  <2>3. Committed + Worth(order) <= Planned(plan, e.child) + Excess
    <3>1. Planned(plan, e.child) + Excess \in Nat BY <1>1, SubmitNumbers
    <3> QED BY <1>1, <1>3, <1>4, <2>1, <3>1, SubmitNumbers
  <2>4. Reported + order.filled <= Bought + order.filled BY <1>1, <1>4, SubmitNumbers
  <2>5. Len(book') <= 6 * e.child BY <1>1, <1>6, SubmitNumbers
  <2>6. order.filled <= Child BY <1>1, <1>3, <1>4, SubmitNumbers
  <2> QED BY <1>5, <1>6, <2>3, <2>4, <2>5, <2>6
<1>10. ASSUME ~Split, order.filled = 0, MarketsFill PROVE Committed' >= Wanted
  <2>1. Worth(order) = e.qty BY <1>4, <1>10
  <2>2. Len(plan) \in Nat \ {0} /\ e.child \in Nat \ {0} /\ e.child <= Len(plan)
    BY ChildNumbers DEF OrderInv
  <2>5. ~(Len(plan) > 1) BY <1>10 DEF Split
  <2>6. Len(plan) = 1
    <3>1. \A n \in Nat \ {0} : ~(n > 1) => n = 1 OBVIOUS
    <3> QED BY <2>2, <2>5, <3>1
  <2>7. e.child = 1 BY <2>2, <2>6
  <2>3. e.child = Len(plan) /\ e.child = 1 BY <2>6, <2>7
  <2>4. Wanted = Child
    <3>1. /\ Planned(plan, 1) = Wanted /\ Planned(plan, 1) = Planned(plan, 0) + Child
      BY <2>3, ChildNumbers DEF OrderInv
    <3>2. Planned(plan, 0) = 0 BY PlannedSums DEF OrderInv, PlanInv
    <3> QED BY <1>1, <3>1, <3>2, SubmitNumbers
  <2> QED BY <1>1, <1>6, <2>1, <2>4, SubmitNumbers
<1> QED BY <1>1, <1>2, <1>4, <1>8, <1>9, <1>10, Returned

LEMMA SubmitRaisesKeeps == ASSUME OrderInv, SubmitRaises PROVE OrderInv'
<1>1. e.pc = "submit" /\ Raise /\ UNCHANGED <<plan, mode, row>> BY DEF SubmitRaises, At
<1>2. CASE Fault("reject") /\ UNCHANGED book
  <2>1. GoesOn BY <1>1, <1>2, SeenGrows DEF OrderInv
  <2>2. Excess \in Nat /\ Excess' \in Nat /\ Excess <= Excess' BY <2>1, ExcessNat DEF GoesOn, OrderInv
  <2>3. Lands(book, 0) /\ Committed' = Committed /\ Bought' = Bought BY <1>1, <1>2, <2>1, BookStays
  <2>4. /\ Committed' <= Planned(plan, e.child) + Excess'
        /\ Reported <= Bought' /\ Len(book) <= 6 * e.child
    <3>1. Committed <= Planned(plan, e.child) + Excess /\ Reported <= Bought /\ Len(book) <= 6 * e.child
      BY <1>1, UnsentNumbers
    <3>2. Committed \in Nat /\ Planned(plan, e.child) \in Nat BY <1>1, SubmitNumbers
    <3>3. Committed <= Planned(plan, e.child) + Excess' BY <2>2, <3>1, <3>2
    <3> QED BY <2>3, <3>1, <3>3
  <2> QED BY <1>1, <2>3, <2>4, Raised
<1>3. CASE Fault("lost") /\ \E order \in Sent : book' = Append(book, order)
  <2>1. GoesOn BY <1>1, <1>3, SeenGrows DEF OrderInv
  <2>2. Excess \in Nat /\ Excess' \in Nat /\ Excess <= Excess' BY <2>1, ExcessNat DEF GoesOn, OrderInv
  <2>3. PICK order \in Sent : book' = Append(book, order) BY <1>3
  <2>4. e.qty \in Nat \ {0} BY <1>1, SubmitNumbers
  <2>5. /\ order \in OrderType /\ order.qty = e.qty /\ order.filled <= e.qty /\ order.filled \in Nat
        /\ (order.live => order.filled < order.qty) /\ Worth(order) \in Nat /\ Worth(order) <= e.qty
        /\ (mode = "market" => ~order.live)
    BY <2>3, <2>4, SentOrders, WorthNat
  <2>6. /\ BookSound(book') /\ Len(book') = Len(book) + 1 /\ Len(book) \in Nat
        /\ book'[Len(book) + 1] = order /\ \A k \in 1..Len(book) : book'[k] = book[k]
        /\ Committed' = Committed + Worth(order) /\ Bought' = Bought + order.filled
    BY <2>3, <2>5, BookGrows
  <2>7. mode = "market" => \A k \in 1..Len(book') : ~book'[k].live
    <3>1. \A k \in 1..Len(book') : k \in 1..Len(book) \/ k = Len(book) + 1 BY <2>6
    <3> QED BY <2>5, <2>6, <3>1 DEF OrderInv, MarketInv
  <2>10. Unanswered'
    <3>1. Happened("lost")' BY <1>1, <1>3, SeenGrows DEF OrderInv
    <3> QED BY <3>1 DEF Unanswered
  <2>8. Lands(book', 0) BY <1>1, <2>1, <2>6, <2>7, <2>10 DEF Lands
  <2>9. /\ Committed' <= Planned(plan, e.child) + Excess'
        /\ Reported <= Bought' /\ Len(book') <= 6 * e.child
    <3>1. \A x, w, q, m \in Nat : w <= q /\ x + q <= m => x + w <= m OBVIOUS
    <3>3. Committed + Worth(order) <= Planned(plan, e.child) + Excess
      <4>1. Planned(plan, e.child) + Excess \in Nat BY <1>1, SubmitNumbers
      <4> QED BY <1>1, <2>4, <2>5, <3>1, <4>1, SubmitNumbers
    <3>6. Committed + Worth(order) <= Planned(plan, e.child) + Excess'
      BY <1>1, <2>2, <2>5, <3>3, SubmitNumbers
    <3>4. Reported <= Bought + order.filled BY <1>1, <2>5, SubmitNumbers
    <3>5. Len(book') <= 6 * e.child BY <1>1, <2>6, SubmitNumbers
    <3> QED BY <2>6, <3>4, <3>5, <3>6
  <2> QED BY <1>1, <2>8, <2>9, Raised
<1> QED BY <1>2, <1>3 DEF SubmitRaises

-----------------------------------------------------------------------------
(* The client's re-send *)

\* The entry stays where it is; the order is bought once more, and the excess says so.
LEMMA ResentKeeps == ASSUME OrderInv, Resent PROVE OrderInv'
<1>1. /\ e.sends < Attempts - 1 /\ Fault("resend") /\ e' = [e EXCEPT !.sends = e.sends + 1]
      /\ UNCHANGED <<plan, mode, answers, row>> /\ e.pc \in {"place", "submit"}
  BY DEF Resent, At
<1>2. /\ e.child \in Nat \ {0} /\ Child \in Nat \ {0} /\ Excess \in Nat
      /\ Planned(plan, e.child - 1) \in Nat /\ Planned(plan, e.child) \in Nat
  BY ChildNumbers DEF OrderInv
<1>3. GoesOn /\ Happened("resend")' /\ Excess' = Excess + Child
  BY <1>1, SeenGrows DEF OrderInv, Costly
<1>4. Unanswered' BY <1>3 DEF Unanswered
<1>5. PICK o \in OrderType :
        /\ book' = Append(book, o) /\ o.filled <= o.qty /\ (o.live => o.filled < o.qty)
        /\ Worth(o) \in Nat /\ o.filled \in Nat /\ Worth(o) <= Child
        /\ (mode = "market" => ~o.live)
  <2>1. CASE e.pc = "place"
    <3> DEFINE o == Order("limit", Child, 0)
    <3>1. mode = "adaptive" /\ book' = Append(book, o) BY <2>1 DEF Resent, At
    <3>2. o \in OrderType /\ o.filled = 0 /\ o.qty = Child /\ o.live /\ Worth(o) = Child
      BY <1>2, LimitOrder
    <3> HIDE DEF o
    <3> QED BY <1>2, <3>1, <3>2
  <2>2. CASE e.pc = "submit"
    <3>1. PICK o \in Sent : book' = Append(book, o) BY <2>2 DEF Resent, At
    <3>2. e.qty \in Nat \ {0} /\ e.qty <= Child BY <2>2, SubmitNumbers
    <3>3. /\ o \in OrderType /\ o.qty = e.qty /\ o.filled <= e.qty
          /\ (o.live => o.filled < o.qty) /\ Worth(o) \in Nat /\ Worth(o) <= e.qty
          /\ (mode = "market" => ~o.live)
      BY <3>1, <3>2, SentOrders
    <3>4. o.filled \in Nat BY <3>3, WorthNat
    <3>5. Worth(o) <= Child BY <1>2, <3>2, <3>3
    <3> QED BY <3>1, <3>3, <3>4, <3>5
  <2> QED BY <1>1, <2>1, <2>2
<1>6. /\ BookSound(book') /\ Len(book') = Len(book) + 1 /\ Len(book) \in Nat
      /\ book'[Len(book) + 1] = o /\ \A k \in 1..Len(book) : book'[k] = book[k]
      /\ Committed' = Committed + Worth(o) /\ Bought' = Bought + o.filled
  BY <1>5, BookGrows
<1>7. Reported' = Reported BY <1>1, Quantities, QuantitiesAfter
<1>8. Committed \in Nat /\ Bought \in Nat /\ Reported \in Nat /\ Reported <= Bought
  BY Numbers DEF OrderInv
<1>9. /\ e \in [pc: PC, child: Nat, order: Nat, qty: Nat, polls: Nat, sends: Nat]
      /\ e.child \in 1..Len(plan) /\ e.polls <= MaxPolls /\ e.order <= Len(book) /\ e.qty <= Child
      /\ (e.pc = "submit" => e.qty > 0) /\ plan \in Plans /\ mode \in Modes
  BY DEF OrderInv, PlanInv
<1>10. /\ e' \in [pc: PC, child: Nat, order: Nat, qty: Nat, polls: Nat, sends: Nat] /\ e'.pc = e.pc
       /\ e'.child = e.child /\ e'.order = e.order /\ e'.qty = e.qty /\ e'.polls = e.polls
       /\ e'.sends = e.sends + 1 /\ e'.sends \in Nat /\ e'.sends < Attempts
  <2>1. e.sends + 1 \in Nat BY <1>9
  <2>2. e.sends + 1 < Attempts BY <1>1, <1>9 DEF Attempts
  <2> QED BY <1>1, <1>9, <2>1, <2>2
<1>11. Child' = Child BY <1>1, <1>10 DEF Child
<1>12. ~Working' /\ ~Working /\ Due' = Due BY <1>1, <1>10 DEF Working, Due
<1>13. Due \in Nat BY <1>9 DEF Due
<1>14. /\ plan' = plan /\ mode' = mode /\ seen' \in Seq(Seen) /\ Len(seen') <= MaxFaults
  BY <1>3 DEF GoesOn
<1>15. PlanInv'
  <2>1. e'.order <= Len(book') BY <1>6, <1>9, <1>10
  <2>2. Seen' = Seen /\ e'.child \in 1..Len(plan') BY <1>9, <1>10, <1>14 DEF Seen
  <2>3. e'.qty <= Child' /\ (e'.pc = "submit" => e'.qty > 0) BY <1>9, <1>10, <1>11
  <2>4. plan' \in Plans /\ mode' \in Modes /\ e'.polls <= MaxPolls BY <1>9, <1>10, <1>14
  <2> QED BY <1>10, <1>14, <2>1, <2>2, <2>3, <2>4 DEF PlanInv
<1>16. BookedInv'
  <2>1. Len(book) <= 6 * (e.child - 1) + Placed(e.pc, e.sends) BY DEF OrderInv, BookedInv
  <2>2. /\ Placed(e'.pc, e'.sends) = Placed(e.pc, e.sends) + 1 /\ Placed(e.pc, e.sends) \in Nat
    BY <1>1, <1>9, <1>10 DEF Placed
  <2>3. Len(book') <= 6 * (e'.child - 1) + Placed(e'.pc, e'.sends)
    BY <1>2, <1>6, <1>10, <2>1, <2>2
  <2> QED BY <1>1, <1>6, <1>10, <1>12, <2>3 DEF BookedInv
<1>17. AnswersInv'
  <2>1. answers \in Seq(OrderType) /\ Len(answers) <= Len(plan) /\ Len(answers) = e.child - 1
        /\ \A k \in 1..Len(answers) : answers[k].filled <= plan[k]
    BY <1>1 DEF OrderInv, AnswersInv
  <2>2. Reported' + 0 <= Bought' BY <1>5, <1>6, <1>7, <1>8
  <2> QED BY <1>1, <1>10, <1>12, <1>14, <2>1, <2>2 DEF AnswersInv
<1>18. KeptInv'
  <2>1. /\ e.pc = "place" => Committed <= Planned(plan, e.child - 1) + Excess
        /\ Committed + Due <= Planned(plan, e.child) + Excess
    BY DEF OrderInv, KeptInv
  <2>2. e.pc = "place" => Committed' <= Planned(plan, e.child - 1) + Excess'
    BY <1>2, <1>3, <1>5, <1>6, <1>8, <2>1
  <2>3. Committed' + Due' <= Planned(plan, e.child) + Excess'
    BY <1>2, <1>3, <1>5, <1>6, <1>8, <1>12, <1>13, <2>1
  <2> QED BY <1>1, <1>10, <1>14, <2>2, <2>3 DEF KeptInv
<1>19. RowInv'
  <2>1. row = 0 BY <1>1 DEF OrderInv, RowInv
  <2>2. e.pc = "submit" => Committed' + e.qty >= Child
    <3>1. e.pc = "submit" => Committed + e.qty >= Child BY DEF OrderInv, RowInv
    <3> QED BY <1>2, <1>5, <1>6, <1>8, <1>9, <3>1
  <2> QED BY <1>1, <1>10, <1>11, <2>1, <2>2 DEF RowInv
<1>20. MarketInv'
  <2>1. ASSUME mode = "market" PROVE \A k \in 1..Len(book') : ~book'[k].live
    <3>1. \A k \in 1..Len(book') : k \in 1..Len(book) \/ k = Len(book) + 1 BY <1>6
    <3> QED BY <1>5, <1>6, <2>1, <3>1 DEF OrderInv, MarketInv
  <2> QED BY <1>4, <1>12, <1>14, <2>1 DEF MarketInv
<1> QED BY <1>15, <1>16, <1>17, <1>18, <1>19, <1>20 DEF OrderInv

-----------------------------------------------------------------------------
(* The record *)

\* What holds when every child has answered.
LEMMA FinishNumbers ==
  ASSUME OrderInv, e.pc = "finish"
  PROVE  /\ e.child = Len(plan) /\ Excess \in Nat
         /\ Committed <= Planned(plan, e.child) + Excess
         /\ Committed \in Nat /\ Bought \in Nat /\ Reported \in Nat
         /\ Reported <= Bought /\ Bought <= Committed /\ Reported <= Wanted
         /\ Wanted \in Nat \ {0} /\ row = 0
<1>1. e.child = Len(plan) /\ row = 0 BY DEF OrderInv, AnswersInv, RowInv
<1>2. Due = 0 BY DEF Due
<1>3. /\ Committed \in Nat /\ Bought \in Nat /\ Reported \in Nat
      /\ Reported <= Bought /\ Bought <= Committed /\ Reported <= Wanted
  BY Numbers DEF OrderInv
<1>4. Wanted \in Nat \ {0}
  <2>1. /\ Wanted \in Nat /\ Child \in Nat \ {0} /\ Planned(plan, e.child) \in Nat
        /\ Planned(plan, e.child - 1) \in Nat /\ Planned(plan, e.child) = Planned(plan, e.child - 1) + Child
        /\ Planned(plan, e.child) <= Wanted
    BY ChildNumbers DEF OrderInv
  <2> QED BY <2>1
<1>5. Planned(plan, e.child) \in Nat /\ Excess \in Nat BY ChildNumbers DEF OrderInv
<1>6. /\ Committed <= Planned(plan, e.child) + Excess
  BY <1>2, <1>3, <1>5 DEF OrderInv, KeptInv
<1> QED BY <1>1, <1>3, <1>4, <1>5, <1>6

\* The entry is over: with a row, or without one.
LEMMA Ended ==
  ASSUME OrderInv, e.pc = "finish", e' = [e EXCEPT !.pc = "done"],
         UNCHANGED <<plan, mode, answers, book, seen>>,
         row' \in Nat, row' <= Wanted, MarketsFill => row' <= Committed,
         MarketsFill /\ mode = "market" /\ ~Unanswered => row' = Bought
  PROVE  OrderInv'
<1>1. GoesOn /\ Excess' = Excess /\ (~Unanswered' => ~Unanswered)
      /\ seen' \in Seq(Seen) /\ Len(seen') <= MaxFaults
  BY SeenStays DEF OrderInv, GoesOn
<1>2. /\ Committed' = Committed /\ Bought' = Bought /\ Reported' = Reported
  BY Quantities, QuantitiesAfter
<1>3. /\ e \in [pc: PC, child: Nat, order: Nat, qty: Nat, polls: Nat, sends: Nat] /\ e.polls <= MaxPolls
      /\ e.order <= Len(book) /\ e.qty <= Child /\ e.child \in 1..Len(plan) /\ e.sends < Attempts
      /\ plan \in Plans /\ mode \in Modes
  BY DEF OrderInv, PlanInv
<1>4. /\ e' \in [pc: PC, child: Nat, order: Nat, qty: Nat, polls: Nat, sends: Nat] /\ e'.pc = "done"
      /\ e'.child = e.child /\ e'.order = e.order /\ e'.qty = e.qty /\ e'.polls = e.polls
      /\ e'.sends = e.sends
  BY <1>3 DEF PC
<1>5. Child' = Child /\ Wanted' = Wanted BY <1>4 DEF Child, Wanted
<1>6. ~Working' /\ Due' = 0 BY <1>4 DEF Working, Due
<1>7. PlanInv' BY <1>1, <1>3, <1>4, <1>5 DEF PlanInv, Seen
<1>8. BookedInv'
  <2>1. BookSound(book) /\ Len(book) <= 6 * (e.child - 1) + Placed(e.pc, e.sends) BY DEF OrderInv, BookedInv
  <2>2. Placed("done", e.sends) = Placed(e.pc, e.sends) BY DEF Placed
  <2> QED BY <1>4, <1>6, <2>1, <2>2 DEF BookedInv
<1>9. AnswersInv'
  <2>1. answers \in Seq(OrderType) /\ Len(answers) <= Len(plan)
        /\ \A k \in 1..Len(answers) : answers[k].filled <= plan[k]
    BY DEF OrderInv, AnswersInv
  <2>2. Reported' + 0 <= Bought' BY <1>2, FinishNumbers
  <2> QED BY <1>4, <1>6, <2>1, <2>2 DEF AnswersInv
<1>10. KeptInv'
  <2>1. Committed' + 0 <= Planned(plan, e.child) + Excess' BY <1>1, <1>2, FinishNumbers
  <2> QED BY <1>4, <1>6, <2>1 DEF KeptInv
<1>12. RowInv'
  <2>1. MarketsFill => row' <= Committed' BY <1>2
  <2> QED BY <1>4, <1>5, <2>1 DEF RowInv, MarketsFill
<1>13. MarketInv'
  <2>1. ASSUME mode = "market", ~Unanswered', MarketsFill PROVE row' = Bought'
    <3>1. ~Unanswered BY <1>1, <2>1
    <3> QED BY <1>2, <2>1, <3>1
  <2>2. mode = "market" => \A k \in 1..Len(book) : ~book[k].live BY DEF OrderInv, MarketInv
  <2> QED BY <1>4, <1>6, <2>1, <2>2 DEF MarketInv, MarketsFill
<1> QED BY <1>7, <1>8, <1>9, <1>10, <1>12, <1>13 DEF OrderInv

LEMMA AllFailedKeeps == ASSUME OrderInv, AllFailed PROVE OrderInv'
<1>1. /\ e.pc = "finish" /\ Reported = 0 /\ e' = [e EXCEPT !.pc = "done"]
      /\ UNCHANGED <<plan, mode, answers, book, row, seen>>
  BY DEF AllFailed, At
<1>2. row' = 0 /\ 0 <= Wanted /\ 0 <= Committed BY <1>1, FinishNumbers
<1>3. mode = "market" /\ ~Unanswered => Reported = Bought BY <1>1 DEF OrderInv, MarketInv
<1> QED BY <1>1, <1>2, <1>3, Ended

LEMMA RecordKeeps == ASSUME OrderInv, Record PROVE OrderInv'
<1>1. /\ e.pc = "finish" /\ (Split => Reported > 0) /\ e' = [e EXCEPT !.pc = "done"]
      /\ row' = IF Reported > 0 THEN Reported ELSE Wanted
      /\ UNCHANGED <<plan, mode, answers, book, seen>>
  BY DEF Record, At
<1>2. /\ Committed \in Nat /\ Bought \in Nat /\ Reported \in Nat
      /\ Reported <= Bought /\ Bought <= Committed /\ Reported <= Wanted /\ Wanted \in Nat \ {0}
  BY <1>1, FinishNumbers
<1>3. mode = "market" /\ ~Unanswered => Reported = Bought BY <1>1 DEF OrderInv, MarketInv
<1>4. CASE Reported > 0
  <2>1. row' = Reported BY <1>1, <1>4
  <2>2. row' \in Nat /\ row' <= Wanted /\ row' <= Committed BY <1>2, <2>1
  <2> QED BY <1>1, <1>3, <2>1, <2>2, Ended
<1>5. CASE ~(Reported > 0)
  <2>1. row' = Wanted /\ Reported = 0 /\ ~Split BY <1>1, <1>2, <1>5
  <2>2. MarketsFill => Committed >= Wanted BY <1>1, <2>1 DEF OrderInv, RowInv
  <2>3. mode = "market" => Committed = Bought
    <3>1. mode = "market" => \A k \in 1..Len(book) : ~book[k].live BY DEF OrderInv, MarketInv
    <3> QED BY <3>1, NothingRests, Quantities DEF OrderInv, BookedInv, BookSound
  <2>4. ~(MarketsFill /\ mode = "market" /\ ~Unanswered)
    <3>1. SUFFICES ASSUME MarketsFill, mode = "market", ~Unanswered PROVE FALSE OBVIOUS
    <3>2. Bought = 0 /\ Committed = Bought /\ Committed >= Wanted BY <1>3, <2>1, <2>2, <2>3, <3>1
    <3> QED BY <1>2, <3>2
  <2>5. row' \in Nat /\ row' <= Wanted /\ (MarketsFill => row' <= Committed) BY <1>2, <2>1, <2>2
  <2> QED BY <1>1, <2>4, <2>5, Ended
<1> QED BY <1>4, <1>5

-----------------------------------------------------------------------------
(* A fill *)

LEMMA FillKeeps == ASSUME OrderInv, NEW i \in 1..Len(book), Fill(i) PROVE OrderInv'
<1> DEFINE more == Unfilled(i) > 1
           o == [book[i] EXCEPT !.filled = book[i].filled + 1, !.live = more]
<1>1. BookSound(book) /\ book \in Seq(OrderType) /\ book[i] \in OrderType
  BY Measured DEF OrderInv, BookedInv, BookSound
<1>2. /\ book[i].live /\ book[i].filled < book[i].qty /\ book[i].filled \in Nat /\ book[i].qty \in Nat
      /\ UNCHANGED <<plan, mode, e, answers, row, seen>>
  BY <1>1, WorthNat DEF Fill, Resting, BookSound
<1>3. book' = [book EXCEPT ![i] = o]
  <2>1. i \in DOMAIN book BY <1>1, LenProperties
  <2> QED BY <2>1 DEF Fill
<1>4. o \in OrderType /\ o.filled = book[i].filled + 1 /\ o.qty = book[i].qty /\ o.live = more
  <2>1. book[i].filled + 1 \in Nat BY <1>2
  <2>2. CASE more
    <3>1. more = TRUE BY <2>2
    <3> HIDE DEF more
    <3>2. o = [book[i] EXCEPT !.filled = book[i].filled + 1, !.live = TRUE] BY <3>1
    <3> QED BY <1>1, <2>1, <3>1, <3>2 DEF OrderType
  <2>3. CASE ~more
    <3>1. more = FALSE BY <2>3
    <3> HIDE DEF more
    <3>2. o = [book[i] EXCEPT !.filled = book[i].filled + 1, !.live = FALSE] BY <3>1
    <3> QED BY <1>1, <2>1, <3>1, <3>2 DEF OrderType
  <2> QED BY <2>2, <2>3
<1> HIDE DEF o
<1>5. o.live <=> book[i].qty - book[i].filled > 1 BY <1>4 DEF Unfilled
<1>6. o.filled <= o.qty /\ (o.live => o.filled < o.qty) BY <1>2, <1>4, <1>5
<1>7. Worth(o) = Worth(book[i])
  <2>1. CASE o.live BY <1>2, <1>4, <2>1 DEF Worth
  <2>2. CASE ~o.live
    <3>1. o.filled = book[i].qty BY <1>2, <1>4, <1>5, <2>2
    <3> QED BY <1>2, <2>2, <3>1 DEF Worth
  <2> QED BY <2>1, <2>2
<1>8. /\ BookSound(book') /\ Len(book') = Len(book) /\ Len(book) \in Nat
      /\ book'[i] = o /\ \A k \in 1..Len(book) : k # i => book'[k] = book[k]
      /\ Committed' = Committed - Worth(book[i]) + Worth(o)
      /\ Bought' = Bought - book[i].filled + o.filled
  BY <1>3, <1>4, <1>6, BookChanges
<1>9. /\ Committed \in Nat /\ Bought \in Nat /\ Reported \in Nat BY Numbers DEF OrderInv
<1>10. Committed' = Committed
  <2>1. Worth(o) \in Nat BY <1>4, WorthNat
  <2> QED BY <1>7, <1>8, <1>9, <2>1
<1>11. Bought' = Bought + 1 BY <1>2, <1>4, <1>8, <1>9
<1>12. Reported' = Reported BY <1>2, Quantities, QuantitiesAfter
<1>13. Child' = Child /\ Wanted' = Wanted /\ Split' = Split /\ Due' = Due /\ (Working' <=> Working)
  BY <1>2 DEF Child, Wanted, Split, Due, Working
<1>14. Excess' = Excess /\ GoesOn BY <1>2, SeenStays DEF OrderInv
<1>15. mode # "market" BY <1>2 DEF OrderInv, MarketInv
<1>16. ASSUME Working
       PROVE  /\ Current'.qty = Current.qty /\ Current'.filled \in {Current.filled, Current.filled + 1}
              /\ Current.filled \in Nat
              /\ (~Current.live => Current' = Current)
              /\ ((Current'.live \/ Current'.filled = Current'.qty) \/ ~(Current.live \/ Current.filled = Current.qty))
  <2>1. e.order \in 1..Len(book) /\ Current = book[e.order] /\ Current' = book'[e.order] /\ Current.filled \in Nat
    BY <1>2, <1>16, WorkedNumbers DEF Current
  <2>2. CASE e.order = i
    <3>1. Current = book[i] /\ Current' = o BY <1>8, <2>1, <2>2
    <3>2. o.live \/ o.filled = o.qty BY <1>2, <1>4, <1>5
    <3> QED BY <1>2, <1>4, <3>1, <3>2
  <2>3. CASE e.order # i
    <3>1. Current' = Current BY <1>8, <2>1, <2>3
    <3> QED BY <2>1, <3>1
  <2> QED BY <2>2, <2>3
<1>17. PlanInv'
  <2>1. e'.order <= Len(book') BY <1>2, <1>8 DEF OrderInv, PlanInv
  <2>2. PlanInv BY DEF OrderInv
  <2> QED BY <1>2, <1>13, <2>1, <2>2 DEF PlanInv, Seen
<1>18. BookedInv'
  <2>1. BookedInv BY DEF OrderInv
  <2>2. Len(book') <= 6 * (e'.child - 1) + Placed(e'.pc, e'.sends) BY <1>2, <1>8, <2>1 DEF BookedInv
  <2>3. Working' => e'.order \in 1..Len(book') /\ Current'.qty = Child'
    BY <1>2, <1>8, <1>13, <1>16, <2>1 DEF BookedInv
  <2>4. ASSUME e'.pc \in {"poll", "cancel"} PROVE Current'.live \/ Current'.filled = Current'.qty
    <3>1. e.pc \in {"poll", "cancel"} BY <1>2, <2>4
    <3>2. Working BY <3>1 DEF Working
    <3>3. Current.live \/ Current.filled = Current.qty BY <2>1, <3>1 DEF BookedInv
    <3> QED BY <1>16, <3>2, <3>3
  <2> QED BY <1>8, <2>2, <2>3, <2>4 DEF BookedInv
<1>19. AnswersInv'
  <2>1. AnswersInv BY DEF OrderInv
  <2>2. Reported' + (IF Working' THEN Current'.filled ELSE 0) <= Bought'
    <3>1. Reported + (IF Working THEN Current.filled ELSE 0) <= Bought BY <2>1 DEF AnswersInv
    <3>2. CASE Working
      <4>1. /\ Reported + Current.filled <= Bought /\ Current.filled \in Nat
            /\ Current'.filled \in {Current.filled, Current.filled + 1}
        BY <1>16, <3>1, <3>2
      <4>2. Reported + Current'.filled <= Bought + 1 BY <1>9, <4>1
      <4> QED BY <1>11, <1>12, <1>13, <3>2, <4>2
    <3>3. CASE ~Working
      <4>1. Reported + 0 <= Bought + 1 BY <1>9, <3>1, <3>3
      <4> QED BY <1>11, <1>12, <1>13, <3>3, <4>1
    <3> QED BY <3>2, <3>3
  <2> QED BY <1>2, <2>1, <2>2 DEF AnswersInv
<1>20. KeptInv'
  <2>1. KeptInv BY DEF OrderInv
  <2>2. ASSUME e.pc = "status" PROVE Current' = Current
    <3>1. Working BY <2>2 DEF Working
    <3>2. ~Current.live BY <2>1, <2>2 DEF KeptInv
    <3> QED BY <1>16, <3>1, <3>2
  <2> QED BY <1>2, <1>10, <1>13, <1>14, <2>1, <2>2 DEF KeptInv
<1>22. RowInv'
  <2>1. RowInv BY DEF OrderInv
  <2> QED BY <1>2, <1>10, <1>12, <1>13, <2>1 DEF RowInv, MarketsFill
<1>23. MarketInv' BY <1>2, <1>15 DEF MarketInv
<1> QED BY <1>17, <1>18, <1>19, <1>20, <1>22, <1>23 DEF OrderInv

-----------------------------------------------------------------------------
(* The theorems *)

LEMMA InitHolds == Init => OrderInv
<1> SUFFICES ASSUME Init PROVE OrderInv OBVIOUS
<1>1. /\ plan \in Plans /\ mode \in Modes /\ answers = <<>> /\ book = <<>> /\ row = 0 /\ seen = <<>>
      /\ e = [pc |-> "place", child |-> 1, order |-> NoOrder, qty |-> 0, polls |-> 0, sends |-> 0]
  BY DEF Init
<1>2. /\ plan \in Seq(Nat) /\ Len(plan) \in Nat \ {0} /\ Planned(plan, 0) = 0
      /\ plan[1] \in Nat \ {0} /\ Planned(plan, 1) \in Nat /\ Planned(plan, 1) = Planned(plan, 0) + plan[1]
  <2>1. Len(plan) \in Nat \ {0} BY <1>1, PlannedSums
  <2>2. 1 \in 1..Len(plan) /\ 1 \in 0..Len(plan) /\ 1 - 1 = 0 BY <2>1
  <2> QED BY <1>1, <2>1, <2>2, PlannedSums
<1>3. <<>> \in Seq(OrderType) /\ Len(<<>>) = 0 OBVIOUS
<1>4. Reported = 0 BY <1>1, NothingReported
<1>5. Bought = 0 /\ Committed = 0
  <2>1. Fillings(<<>>) = <<>> /\ Worths(<<>>) = <<>> BY DEF Fillings, Worths
  <2> QED BY <1>1, <2>1, Quantities, TotalEmpty
<1>6. /\ e.pc = "place" /\ e.child = 1 /\ e.order = 0 /\ e.qty = 0 /\ e.polls = 0 /\ e.sends = 0
      /\ e \in [pc: PC, child: Nat, order: Nat, qty: Nat, polls: Nat, sends: Nat]
  BY <1>1 DEF NoOrder, PC
<1>7. ~Working /\ Due = 0 BY <1>6 DEF Working, Due
<1>8. PlanInv
  <2>1. seen \in Seq(Seen) /\ Len(seen) <= MaxFaults BY <1>1, NumbersAssumption
  <2>2. e.child \in 1..Len(plan) /\ e.qty <= Child BY <1>2, <1>6 DEF Child
  <2> QED BY <1>1, <1>3, <1>6, <2>1, <2>2, NumbersAssumption DEF PlanInv, Attempts
<1>9. BookedInv
  <2>1. BookSound(book) /\ Len(book) = 0 BY <1>1, <1>3 DEF BookSound
  <2>2. Placed(e.pc, e.sends) = 0 BY <1>6 DEF Placed
  <2> QED BY <1>6, <1>7, <2>1, <2>2 DEF BookedInv
<1>10. AnswersInv BY <1>1, <1>2, <1>3, <1>4, <1>5, <1>6, <1>7 DEF AnswersInv
<1>15. Excess \in Nat BY <1>8, ExcessNat
<1>11. KeptInv BY <1>2, <1>5, <1>6, <1>7, <1>15 DEF KeptInv
<1>13. RowInv BY <1>1, <1>6 DEF RowInv
<1>14. MarketInv BY <1>1, <1>3, <1>4, <1>5, <1>6, <1>7 DEF MarketInv
<1> QED BY <1>8, <1>9, <1>10, <1>11, <1>13, <1>14 DEF OrderInv

LEMMA StutterKeeps == ASSUME OrderInv, UNCHANGED vars PROVE OrderInv'
<1>1. /\ plan' = plan /\ mode' = mode /\ e' = e /\ answers' = answers /\ book' = book
      /\ row' = row /\ seen' = seen
  BY DEF vars
<1>2. Child' = Child /\ Current' = Current /\ Wanted' = Wanted /\ Split' = Split /\ Due' = Due
      /\ (Working' <=> Working) /\ Excess' = Excess /\ (Unanswered' <=> Unanswered)
  BY <1>1, ExcessIs DEF Child, Current, Wanted, Split, Due, Working, Unanswered, Happened
<1>3. Committed' = Committed /\ Bought' = Bought /\ Reported' = Reported
  BY <1>1, Quantities, QuantitiesAfter
<1>4. PlanInv' BY <1>1, <1>2 DEF OrderInv, PlanInv, Seen
<1>5. BookedInv' BY <1>1, <1>2 DEF OrderInv, BookedInv
<1>6. AnswersInv' BY <1>1, <1>2, <1>3 DEF OrderInv, AnswersInv
<1>7. KeptInv' BY <1>1, <1>2, <1>3 DEF OrderInv, KeptInv
<1>9. RowInv' BY <1>1, <1>2, <1>3 DEF OrderInv, RowInv, MarketsFill
<1>10. MarketInv' BY <1>1, <1>2, <1>3 DEF OrderInv, MarketInv, MarketsFill
<1> QED BY <1>4, <1>5, <1>6, <1>7, <1>9, <1>10 DEF OrderInv

LEMMA StepKeeps == OrderInv /\ [Next]_vars => OrderInv'
<1> SUFFICES ASSUME OrderInv, [Next]_vars PROVE OrderInv' OBVIOUS
<1>1. CASE Direct BY <1>1, DirectKeeps
<1>2. CASE PlaceLimit BY <1>2, PlaceLimitKeeps
<1>3. CASE LimitFallsBack BY <1>3, LimitFallsBackKeeps
<1>4. CASE LimitRaises BY <1>4, LimitRaisesKeeps
<1>5. CASE PollFilled BY <1>5, PollFilledKeeps
<1>6. CASE PollAgain \/ PollEnds BY <1>6, PollKeeps
<1>7. CASE Cancel BY <1>7, CancelKeeps
<1>8. CASE CancelRaises BY <1>8, CancelRaisesKeeps
<1>9. CASE Status BY <1>9, StatusKeeps
<1>10. CASE StatusRaises BY <1>10, StatusRaisesKeeps
<1>11. CASE SubmitSmall BY <1>11, SubmitSmallKeeps
<1>12. CASE SubmitOne BY <1>12, SubmitOneKeeps
<1>13. CASE SubmitRaises BY <1>13, SubmitRaisesKeeps
<1>14. CASE AllFailed BY <1>14, AllFailedKeeps
<1>15. CASE Record BY <1>15, RecordKeeps
<1>16. CASE \E k \in 1..Len(book) : Fill(k) BY <1>16, FillKeeps
<1>17. CASE UNCHANGED vars BY <1>17, StutterKeeps
<1>19. CASE Resent BY <1>19, ResentKeeps
<1>18. CASE Finished BY <1>18, StutterKeeps DEF Finished
<1> QED
  BY <1>1, <1>2, <1>3, <1>4, <1>5, <1>6, <1>7, <1>8, <1>9, <1>10, <1>11, <1>12, <1>13, <1>14,
     <1>15, <1>16, <1>17, <1>18, <1>19 DEF Next, Step

\* The inductive invariant of an entry (trading_engine.py _submit_entry_order).
THEOREM Correct == Spec => []OrderInv
<1>1. Init => OrderInv BY InitHolds
<1>2. OrderInv /\ [Next]_vars => OrderInv' BY StepKeeps
<1> QED BY <1>1, <1>2, PTL DEF Spec

\* The variables keep their types: for a child at most two calls place orders, each at most
\* three times, and an order never fills beyond its quantity.
THEOREM TypeCorrect == Spec => []TypeOK
<1>1. OrderInv => TypeOK
  <2> SUFFICES ASSUME OrderInv PROVE TypeOK OBVIOUS
  <2>1. /\ e.child \in Nat \ {0} /\ Len(plan) \in Nat \ {0} /\ e.child <= Len(plan)
        /\ Child \in Nat \ {0} /\ Wanted \in Nat /\ Child <= Wanted
    BY ChildNumbers DEF OrderInv
  <2>2. BookSound(book) /\ Len(book) \in Nat /\ DOMAIN book = 1..Len(book)
    BY Measured DEF OrderInv, BookedInv, BookSound
  <2>3. Len(book) <= 6 * Len(plan)
    <3>1. Len(book) <= 6 * (e.child - 1) + Placed(e.pc, e.sends) BY DEF OrderInv, BookedInv
    <3>2. Placed(e.pc, e.sends) \in 0..6 BY DEF Placed, OrderInv, PlanInv, Attempts
    <3>3. Len(book) <= 6 * e.child BY <2>1, <2>2, <3>1, <3>2
    <3> QED BY <2>1, <2>2, <3>3
  <2>4. /\ e \in [pc: PC, child: Nat, order: Nat, qty: Nat, polls: Nat, sends: Nat] /\ e.child \in 1..Len(plan)
        /\ e.polls <= MaxPolls /\ e.sends < Attempts /\ e.order <= Len(book) /\ e.qty <= Child
        /\ plan \in Plans /\ mode \in Modes /\ seen \in Seq(Seen) /\ Len(seen) <= MaxFaults
    BY DEF OrderInv, PlanInv
  <2>5. /\ e.order \in 0..6 * Len(plan) /\ e.qty \in 0..Wanted
        /\ e.polls \in 0..MaxPolls /\ e.sends \in 0..Attempts - 1
    BY <2>1, <2>2, <2>3, <2>4, NumbersAssumption DEF Attempts
  <2>6. e \in [pc: PC, child: 1..Len(plan), order: 0..6 * Len(plan), qty: 0..Wanted,
               polls: 0..MaxPolls, sends: 0..Attempts - 1]
    BY <2>4, <2>5
  <2>10. 2 * Attempts * Len(plan) = 6 * Len(plan) BY <2>1 DEF Attempts
  <2>7. answers \in Seq(OrderType) /\ Len(answers) <= Len(plan) BY DEF OrderInv, AnswersInv
  <2>8. book \in Seq(OrderType) /\ \A k \in DOMAIN book : book[k].filled <= book[k].qty
    BY <2>2 DEF BookSound
  <2>9. row \in 0..Wanted BY <2>1 DEF OrderInv, RowInv
  <2> QED BY <2>3, <2>4, <2>6, <2>7, <2>8, <2>9, <2>10 DEF TypeOK, Seen
<1> QED BY <1>1, Correct, PTL

\* What is bought and what rests exceed the approved quantity by no more than one child's
\* quantity for each re-sent order and each failed cancel or status.
THEOREM BudgetIsKept == Spec => []BudgetKept
<1>1. OrderInv => BudgetKept
  <2> SUFFICES ASSUME OrderInv PROVE Committed <= Wanted + Excess BY DEF BudgetKept
  <2>1. Committed + Due <= Planned(plan, e.child) + Excess BY DEF OrderInv, KeptInv
  <2>2. Due \in Nat BY DEF Due, OrderInv, PlanInv
  <2>3. /\ Planned(plan, e.child) \in Nat /\ Planned(plan, e.child) <= Wanted
        /\ Wanted \in Nat /\ Excess \in Nat
    BY ChildNumbers DEF OrderInv
  <2>4. Committed \in Nat BY Numbers DEF OrderInv
  <2> QED BY <2>1, <2>2, <2>3, <2>4
<1> QED BY <1>1, Correct, PTL

\* When market orders are answered with what they filled, a row claims no more than the
\* account bought or has resting.
THEOREM RowsAreBacked == ASSUME MarketsFill PROVE Spec => []RowBacked
<1>1. OrderInv => RowBacked BY DEF OrderInv, RowInv, RowBacked
<1> QED BY <1>1, Correct, PTL

\* And of an entry by market orders the row is what was bought, none if nothing was.
THEOREM RowsAreBought == ASSUME MarketsFill PROVE Spec => []RowIsBought
<1>1. OrderInv => RowIsBought BY DEF OrderInv, MarketInv, RowIsBought, At
<1> QED BY <1>1, Correct, PTL

-----------------------------------------------------------------------------
(* How many steps an entry has left *)

\* The most steps one child takes, its polls and re-sends among them; and what its steps
\* leave of them.
Round == MaxPolls + 9

Stage ==
  CASE e.pc = "place"  -> Round - e.sends
    [] e.pc = "poll"   -> 6 + (MaxPolls - e.polls)
    [] e.pc = "cancel" -> 5
    [] e.pc = "status" -> 4
    [] e.pc = "submit" -> 3 - e.sends
    [] OTHER           -> 0

\* The steps an entry can still take: the child's, those of the next ones and the record.
StepsLeft ==
  IF e.pc = "done" THEN 0
  ELSE IF e.pc = "finish" THEN 1
  ELSE 1 + Stage + (Len(plan) - e.child) * Round

LEMMA Rounds ==
  ASSUME NEW n \in Nat, NEW r \in Nat
  PROVE  n * r \in Nat /\ (n > 0 => n * r = r + (n - 1) * r)
OBVIOUS

LEMMA RoundsLeft ==
  ASSUME OrderInv
  PROVE  /\ e.child \in Nat /\ Len(plan) \in Nat /\ 1 <= e.child /\ e.child <= Len(plan)
         /\ Round \in Nat /\ Round >= 9 /\ (Len(plan) - e.child) * Round \in Nat
         /\ e.polls \in Nat /\ e.polls <= MaxPolls /\ e.sends \in 0..2 /\ e.pc \in PC
         /\ Stage \in Nat /\ Stage <= Round
         /\ e.pc \notin {"finish", "done"} => Stage >= 1
<1>1. /\ e.child \in Nat \ {0} /\ Len(plan) \in Nat /\ e.child <= Len(plan)
      /\ e.polls \in Nat /\ e.polls <= MaxPolls /\ e.sends \in 0..2 /\ e.pc \in PC
  <2>1. e.child \in Nat \ {0} /\ Len(plan) \in Nat /\ e.child <= Len(plan)
    BY ChildNumbers DEF OrderInv
  <2>2. /\ e \in [pc: PC, child: Nat, order: Nat, qty: Nat, polls: Nat, sends: Nat]
        /\ e.polls <= MaxPolls /\ e.sends < 3
    BY DEF OrderInv, PlanInv, Attempts
  <2> QED BY <2>1, <2>2
<1>2. Round \in Nat /\ Round >= 9
  BY NumbersAssumption DEF Round
<1>3. (Len(plan) - e.child) * Round \in Nat
  <2> DEFINE n == Len(plan) - e.child
  <2>1. n \in Nat
    BY <1>1
  <2> HIDE DEF n
  <2>2. n * Round \in Nat
    BY <1>2, <2>1, Rounds
  <2> QED BY <2>2 DEF n
<1>4. Stage \in Nat /\ Stage <= Round /\ (e.pc \notin {"finish", "done"} => Stage >= 1)
  <2>1. MaxPolls \in Nat BY NumbersAssumption
  <2>2. CASE e.pc = "place" BY <1>1, <2>1, <2>2 DEF Stage, Round
  <2>3. CASE e.pc = "poll" BY <1>1, <2>1, <2>3 DEF Stage, Round
  <2>4. CASE e.pc = "submit" BY <1>1, <2>1, <2>4 DEF Stage, Round
  <2>5. CASE e.pc \in {"cancel", "status", "finish", "done"} BY <2>1, <2>5 DEF Stage, Round
  <2> QED BY <1>1, <2>2, <2>3, <2>4, <2>5 DEF PC
<1> QED BY <1>1, <1>2, <1>3, <1>4

\* A child that is through leaves what it had.
LEMMA ChildEnds ==
  ASSUME OrderInv, e.pc \notin {"finish", "done"}, plan' = plan,
         \/ \E order : Return(order)
         \/ Raise
  PROVE  StepsLeft' < StepsLeft
<1>1. e.pc \in PC /\ e \in [pc: PC, child: Nat, order: Nat, qty: Nat, polls: Nat, sends: Nat]
  BY DEF OrderInv, PlanInv
<1>2. StepsLeft = 1 + Stage + (Len(plan) - e.child) * Round /\ Stage >= 1
  BY RoundsLeft DEF StepsLeft
<1>3. CASE e'.pc = "done"
  <2>1. StepsLeft' = 0
    BY <1>3 DEF StepsLeft
  <2> QED BY <1>2, <2>1, RoundsLeft
<1>4. CASE e'.pc = "finish"
  <2>1. StepsLeft' = 1
    BY <1>4 DEF StepsLeft
  <2> QED BY <1>2, <2>1, RoundsLeft
<1>5. CASE e'.pc = "place" /\ e'.child = e.child + 1 /\ e'.sends = 0 /\ e.child < Len(plan)
  <2> DEFINE n == Len(plan) - e.child
  <2>1. n \in Nat /\ n > 0 /\ Len(plan) - (e.child + 1) = n - 1
    <3>1. e.child \in Nat /\ Len(plan) \in Nat /\ e.child < Len(plan)
      BY <1>5, RoundsLeft
    <3> QED BY <3>1
  <2>2. StepsLeft' = 1 + Round + (n - 1) * Round
    <3>1. Stage' = Round
      BY <1>5, RoundsLeft DEF Stage, Round
    <3>2. StepsLeft' = 1 + Stage' + (Len(plan') - e'.child) * Round
      BY <1>5 DEF StepsLeft, Round
    <3>3. Len(plan') - e'.child = n - 1
      BY <1>5, <2>1
    <3> HIDE DEF n
    <3> QED BY <3>1, <3>2, <3>3
  <2> HIDE DEF n
  <2>3. n * Round \in Nat /\ n * Round = Round + (n - 1) * Round /\ Round \in Nat
        /\ n - 1 \in Nat /\ (n - 1) * Round \in Nat
    <3>1. Round \in Nat
      BY RoundsLeft
    <3>2. n - 1 \in Nat
      BY <2>1
    <3> QED BY <2>1, <3>1, <3>2, Rounds
  <2>4. StepsLeft = 1 + Stage + n * Round
    BY <1>2 DEF n
  <2>5. Stage \in Nat
    BY RoundsLeft
  <2> QED BY <1>2, <2>2, <2>3, <2>4, <2>5
<1>6. e'.pc = "done" \/ e'.pc = "finish"
      \/ (e'.pc = "place" /\ e'.child = e.child + 1 /\ e'.sends = 0 /\ e.child < Len(plan))
  BY <1>1 DEF Raise, Return
<1> QED BY <1>3, <1>4, <1>5, <1>6

\* A step within a child leaves fewer of its steps.
LEMMA ChildAdvances ==
  ASSUME OrderInv, plan' = plan, e'.child = e.child,
         e.pc \notin {"finish", "done"}, e'.pc \notin {"finish", "done"},
         Stage' \in Nat, Stage' < Stage
  PROVE  StepsLeft' < StepsLeft
<1> DEFINE rest == (Len(plan) - e.child) * Round
<1>1. StepsLeft = 1 + Stage + rest
  BY DEF StepsLeft
<1>2. StepsLeft' = 1 + Stage' + rest
  BY DEF StepsLeft, Round
<1>3. rest \in Nat /\ Stage \in Nat
  BY RoundsLeft
<1> HIDE DEF rest
<1>4. \A x \in Nat, y \in Nat, z \in Nat : y < x => 1 + y + z < 1 + x + z
  OBVIOUS
<1>5. 1 + Stage' + rest < 1 + Stage + rest
  BY <1>3, <1>4
<1> QED BY <1>1, <1>2, <1>5

LEMMA EveryStepShortens ==
  ASSUME OrderInv, Step
  PROVE  StepsLeft' < StepsLeft
<1>1. /\ e \in [pc: PC, child: Nat, order: Nat, qty: Nat, polls: Nat, sends: Nat]
      /\ e.polls <= MaxPolls
  BY DEF OrderInv, PlanInv
<1>2. CASE LimitRaises \/ PollFilled \/ SubmitSmall \/ SubmitOne \/ SubmitRaises
           \/ (Status /\ Remainder(Current.filled) <= 0)
  BY <1>2, ChildEnds
     DEF LimitRaises, PollFilled, SubmitSmall, SubmitOne, SubmitRaises, Status, At
<1>3. CASE AllFailed \/ Record
  <2>1. e.pc = "finish" /\ e'.pc = "done"
    BY <1>1, <1>3 DEF AllFailed, Record, At
  <2> QED BY <2>1 DEF StepsLeft
<1>4. CASE Direct \/ LimitFallsBack \/ CancelRaises \/ StatusRaises
           \/ (Status /\ ~(Remainder(Current.filled) <= 0))
  <2>1. /\ e.pc \in {"place", "cancel", "status"} /\ e'.pc = "submit"
        /\ e'.child = e.child /\ e'.sends = 0 /\ plan' = plan
    BY <1>1, <1>4
       DEF Direct, LimitFallsBack, CancelRaises, StatusRaises, Status, Submit, At
  <2>2. Stage' = 3
    BY <2>1 DEF Stage
  <2>3. Stage > 3
    BY <2>1, RoundsLeft DEF Stage
  <2>4. Stage' \in Nat /\ Stage' < Stage
    BY <2>2, <2>3, RoundsLeft
  <2> QED BY <2>1, <2>4, ChildAdvances
<1>5. CASE PlaceLimit
  <2>1. /\ e.pc = "place" /\ e'.pc = "poll" /\ e'.polls = e.polls
        /\ e'.child = e.child /\ plan' = plan
    BY <1>1, <1>5 DEF PlaceLimit, At
  <2>2. Stage' \in Nat /\ Stage' < Stage
    <3>1. Stage = (MaxPolls + 9) - e.sends /\ Stage' = 6 + (MaxPolls - e.polls)
      BY <2>1 DEF Stage, Round
    <3>2. e.sends \in 0..2 /\ e.polls \in Nat /\ e.polls <= MaxPolls /\ MaxPolls \in Nat
      BY RoundsLeft, NumbersAssumption
    <3> QED BY <3>1, <3>2
  <2> QED BY <2>1, <2>2, ChildAdvances
<1>6. CASE PollAgain
  <2>1. /\ e.pc = "poll" /\ e'.pc = "poll" /\ e'.polls = e.polls + 1 /\ e.polls < MaxPolls
        /\ e'.child = e.child /\ plan' = plan
    BY <1>1, <1>6 DEF PollAgain, At
  <2>2. Stage' \in Nat /\ Stage' < Stage
    <3>1. Stage = 6 + (MaxPolls - e.polls) /\ Stage' = 6 + (MaxPolls - (e.polls + 1))
      BY <2>1 DEF Stage
    <3>2. /\ 6 + (MaxPolls - (e.polls + 1)) \in Nat
          /\ 6 + (MaxPolls - (e.polls + 1)) < 6 + (MaxPolls - e.polls)
      <4>1. e.polls \in Nat /\ MaxPolls \in Nat /\ e.polls < MaxPolls
        BY <2>1, RoundsLeft, NumbersAssumption
      <4> QED BY <4>1
    <3> QED BY <3>1, <3>2
  <2> QED BY <2>1, <2>2, ChildAdvances
<1>7. CASE PollEnds
  <2>1. /\ e.pc = "poll" /\ e'.pc = "cancel"
        /\ e'.child = e.child /\ plan' = plan
    BY <1>1, <1>7 DEF PollEnds, At
  <2>2. Stage' \in Nat /\ Stage' < Stage
    <3>1. Stage = 6 + (MaxPolls - e.polls) /\ Stage' = 5
      BY <2>1 DEF Stage
    <3> QED BY <3>1, RoundsLeft, NumbersAssumption
  <2> QED BY <2>1, <2>2, ChildAdvances
<1>8. CASE Cancel
  <2>1. /\ e.pc = "cancel" /\ e'.pc = "status"
        /\ e'.child = e.child /\ plan' = plan
    BY <1>1, <1>8 DEF Cancel, At
  <2>2. Stage' \in Nat /\ Stage' < Stage
    BY <2>1 DEF Stage
  <2> QED BY <2>1, <2>2, ChildAdvances
<1>9. CASE Status
  BY <1>2, <1>4, <1>9
<1>10. CASE Resent
  <2>1. /\ e.pc \in {"place", "submit"} /\ e'.pc = e.pc /\ e'.sends = e.sends + 1
        /\ e.sends < 2 /\ e'.child = e.child /\ plan' = plan
    BY <1>1, <1>10 DEF Resent, At, Attempts
  <2>2. Stage' \in Nat /\ Stage' < Stage
    <3>1. e.sends \in 0..2 /\ MaxPolls \in Nat BY RoundsLeft, NumbersAssumption
    <3>2. CASE e.pc = "place"
      <4>1. Stage = (MaxPolls + 9) - e.sends /\ Stage' = (MaxPolls + 9) - (e.sends + 1)
        BY <2>1, <3>2 DEF Stage, Round
      <4> QED BY <2>1, <3>1, <4>1
    <3>3. CASE e.pc = "submit"
      <4>1. Stage = 3 - e.sends /\ Stage' = 3 - (e.sends + 1) BY <2>1, <3>3 DEF Stage
      <4> QED BY <2>1, <3>1, <4>1
    <3> QED BY <2>1, <3>2, <3>3
  <2> QED BY <2>1, <2>2, ChildAdvances
<1> QED BY <1>2, <1>3, <1>4, <1>5, <1>6, <1>7, <1>8, <1>9, <1>10 DEF Step

\* The bound and the count behind EntryEnds.
StepsBounded == StepsLeft \in Nat /\ StepsLeft <= 1 + Len(plan) * Round
EntryShrinks == [][IF Step THEN StepsLeft' < StepsLeft ELSE StepsLeft' = StepsLeft]_vars

\* An entry is worked in a bounded number of steps: one round of polls, cancel, status,
\* submit and re-sends for each child and the record.  Whatever fails and whatever the exchange fills
\* meanwhile, no loop of polls or of fallbacks runs for longer.
THEOREM EntryIsBounded == Spec => []StepsBounded /\ EntryShrinks
<1>1. OrderInv => StepsBounded
  <2> SUFFICES ASSUME OrderInv PROVE StepsBounded
    OBVIOUS
  <2> DEFINE n == Len(plan) - e.child
             all == Len(plan) * Round
             rest == n * Round
  <2>1. rest \in Nat /\ Stage \in Nat /\ Stage <= Round /\ Round \in Nat
    BY RoundsLeft
  <2>2. all = Round + (Len(plan) - 1) * Round /\ (Len(plan) - 1) * Round \in Nat /\ all \in Nat
    <3>1. Len(plan) \in Nat /\ Len(plan) > 0 /\ Len(plan) - 1 \in Nat /\ Round \in Nat
      BY RoundsLeft
    <3> QED BY <3>1, Rounds
  <2>3. rest <= (Len(plan) - 1) * Round
    <3> DEFINE k == e.child - 1
    <3>1. k \in Nat /\ n \in Nat /\ Len(plan) - 1 = n + k
      BY RoundsLeft
    <3>2. k * Round \in Nat /\ Round \in Nat
      BY <2>1, <3>1, Rounds
    <3> HIDE DEF k, n
    <3>3. (n + k) * Round = n * Round + k * Round
      BY <3>1, <3>2
    <3> QED BY <2>1, <3>1, <3>2, <3>3
  <2>4. StepsLeft = 0 \/ StepsLeft = 1 \/ StepsLeft = 1 + Stage + rest
    BY DEF StepsLeft
  <2> DEFINE others == (Len(plan) - 1) * Round
  <2>5. all = Round + others /\ others \in Nat /\ all \in Nat /\ rest <= others
    BY <2>2, <2>3
  <2> HIDE DEF n, all, rest, others
  <2>6. StepsLeft \in Nat /\ StepsLeft <= 1 + all
    BY <2>1, <2>4, <2>5
  <2> QED BY <2>6 DEF StepsBounded, all
<1>2. OrderInv /\ [Next]_vars =>
        [IF Step THEN StepsLeft' < StepsLeft ELSE StepsLeft' = StepsLeft]_vars
  <2> SUFFICES ASSUME OrderInv, [Next]_vars
               PROVE  \/ IF Step THEN StepsLeft' < StepsLeft ELSE StepsLeft' = StepsLeft
                      \/ UNCHANGED vars
    OBVIOUS
  <2>1. CASE Step
    BY <2>1, EveryStepShortens
  <2>2. CASE ~Step /\ Next
    <3>1. e' = e /\ plan' = plan
      BY <2>2 DEF Next, Fill, Finished, vars
    <3>2. StepsLeft' = StepsLeft
      BY <3>1 DEF StepsLeft, Stage, Round
    <3> QED BY <2>2, <3>2
  <2> QED BY <2>1, <2>2
<1>3. Init => OrderInv
  BY InitHolds
<1>4. OrderInv /\ [Next]_vars => OrderInv'
  BY StepKeeps
<1> QED BY <1>1, <1>2, <1>3, <1>4, PTL DEF Spec, EntryShrinks
=============================================================================
