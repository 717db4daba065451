-------------------------- MODULE Consumers_proofs --------------------------
(***************************************************************************)
(* Theorems about the classes that consume a feed: LimitOrderBook first,   *)
(* for any reference numbers, prices, quantities, widths of the share      *)
(* counters and numbers of orders; then the analytics.                     *)
(***************************************************************************)
EXTENDS Consumers, Outlets, SequenceTheorems, FiniteSetTheorems, WellFoundedInduction, NaturalsInduction, TLAPS

\* A set of numbers that is not empty has a least one.
LEMMA LeastElement ==
  ASSUME NEW T, T \subseteq Nat, T # {}
  PROVE  \E x \in T : \A y \in T : x <= y
<1> DEFINE R == {ss \in Nat \X Nat : ss[1] < ss[2]}
<1>1. IsWellFoundedOn(R, Nat)
  BY NatLessThanWellFounded DEF OpToRel
<1>2. PICK x \in T : \A y \in T : ~ (<<y, x>> \in R)
  <2> HIDE DEF R
  <2> QED
    BY <1>1, WFMin
<1>3. ASSUME NEW y \in T PROVE x <= y
  <2>1. x \in Nat /\ y \in Nat /\ ~ (<<y, x>> \in R)
    BY <1>2
  <2>2. ~ (y < x)
    BY <2>1
  <2> QED
    BY <2>1, <2>2
<1> QED
  BY <1>3

\* Induction up to n: a set that holds 0 and, with each number below n, the next one,
\* holds every number up to n.
LEMMA UpTo ==
  ASSUME NEW n \in Nat, NEW T, 0 \in T, \A i \in 0 .. n - 1 : i \in T => i + 1 \in T
  PROVE  \A i \in 0 .. n : i \in T
<1> DEFINE Bad == {i \in 0 .. n : i \notin T}
<1>1. CASE Bad # {}
  <2>1. Bad \subseteq Nat
    OBVIOUS
  <2>2. PICK x \in Bad : \A y \in Bad : x <= y
    <3> HIDE DEF Bad
    <3> QED
      BY <1>1, <2>1, LeastElement
  <2>3. x \in 0 .. n /\ x \notin T /\ x # 0
    OBVIOUS
  <2>4. x - 1 \in 0 .. n - 1 /\ x - 1 \notin Bad
    BY <2>2, <2>3
  <2>5. x - 1 \in T
    BY <2>4
  <2> QED
    BY <2>3, <2>4, <2>5
<1> QED
  BY <1>1

\* The least of a set of numbers that is not empty is one of them.
LEMMA LeastNumber ==
  ASSUME NEW S, S \subseteq Nat, S # {}
  PROVE  Min(S) \in S
BY LeastElement DEF Min

-----------------------------------------------------------------------------
(* The arithmetic of the counters.                                         *)

\* The values of a counter.
Count == 0 .. Modulus - 1

\* Messages carry values of a counter.
LEMMA CountsAreNumbers ==
  /\ Modulus \in Nat /\ Modulus > 0
  /\ 0 \in Count /\ Shares \subseteq Count
BY SharesAssumption, LimitOrderBookAssumption DEF Count, Shares

\* A sum or a difference of counters leaves a counter; their order does not matter.
LEMMA Wrapping ==
  ASSUME NEW a \in Count, NEW b \in Count, NEW c \in Count
  PROVE  /\ Wrap(a + b) \in Count /\ Wrap(a - b) \in Count
         /\ Wrap(a + 0) = a
         /\ Wrap(Wrap(a - c) + b) = Wrap(Wrap(a + b) - c)
         /\ Wrap(a + Wrap(b - c)) = Wrap(Wrap(a + b) - c)
<1>1. PICK m \in Nat : m = Modulus /\ m > 0
  BY CountsAreNumbers
<1>2. a \in 0 .. m - 1 /\ b \in 0 .. m - 1 /\ c \in 0 .. m - 1
  BY <1>1 DEF Count
<1> QED
  BY <1>1, <1>2 DEF Wrap, Count

-----------------------------------------------------------------------------
(* Sums over lists of orders.                                              *)

\* A list of orders that have share counters.
Countable(O, w) ==
  Len(w) \in Nat /\ \A k \in 1 .. Len(w) : O[w[k]].shares \in Count

\* The recursive function Sums is the one its equations describe.
LEMMA SumsEquations ==
  ASSUME NEW O, NEW w, Len(w) \in Nat
  PROVE  /\ Sums(O, w)[0] = 0
         /\ \A k \in 1 .. Len(w) : Sums(O, w)[k] = Wrap(Sums(O, w)[k - 1] + O[w[k]].shares)
<1> DEFINE n == Len(w)
           Rec(g, m) == g = [k \in 0 .. m |->
                               IF k = 0 THEN 0 ELSE Wrap(g[k - 1] + O[w[k]].shares)]
           T == {m \in 0 .. n : \E g : Rec(g, m)}
<1>1. 0 \in T
  <2> DEFINE g == [k \in 0 .. 0 |-> 0]
  <2>1. Rec(g, 0)
    OBVIOUS
  <2>2. 0 \in 0 .. n
    OBVIOUS
  <2> HIDE DEF g, Rec
  <2> QED
    BY <2>1, <2>2
<1>2. ASSUME NEW i \in 0 .. n - 1, i \in T PROVE i + 1 \in T
  <2>1. PICK g : Rec(g, i)
    BY <1>2
  <2> DEFINE h == [k \in 0 .. i + 1 |->
                     IF k = i + 1 THEN Wrap(g[i] + O[w[i + 1]].shares) ELSE g[k]]
  <2>2. Rec(h, i + 1)
    BY <2>1
  <2> HIDE DEF h, Rec
  <2>3. i + 1 \in 0 .. n
    OBVIOUS
  <2> QED
    BY <2>2, <2>3
<1>3. n \in T
  <2>1. n \in Nat /\ n \in 0 .. n
    OBVIOUS
  <2> HIDE DEF T, n
  <2> QED
    BY <1>1, <1>2, <2>1, UpTo
<1> DEFINE S == CHOOSE g : Rec(g, n)
<1>4. Rec(S, n)
  <2> HIDE DEF Rec
  <2> QED
    BY <1>3
<1>5. Sums(O, w) = S
  BY DEF Sums
<1> HIDE DEF S
<1> QED
  BY SMTT(60), <1>4, <1>5

\* Sums of counters are counters.
LEMMA SumsType ==
  ASSUME NEW O, NEW w, Countable(O, w)
  PROVE  \A k \in 0 .. Len(w) : Sums(O, w)[k] \in Count
<1> DEFINE T == {k \in 0 .. Len(w) : Sums(O, w)[k] \in Count}
<1>1. 0 \in T
  BY SumsEquations, CountsAreNumbers DEF Countable
<1>2. ASSUME NEW i \in 0 .. Len(w) - 1, i \in T PROVE i + 1 \in T
  <2>1. i + 1 \in 1 .. Len(w) /\ (i + 1) - 1 = i /\ i + 1 \in 0 .. Len(w)
    BY DEF Countable
  <2>2. Sums(O, w)[i + 1] = Wrap(Sums(O, w)[i] + O[w[i + 1]].shares)
    BY <2>1, SumsEquations DEF Countable
  <2>3. PICK a \in Count, b \in Count : a = Sums(O, w)[i] /\ b = O[w[i + 1]].shares
    BY <1>2, <2>1 DEF Countable
  <2>4. Wrap(a + b) \in Count
    BY Wrapping
  <2>5. Sums(O, w)[i + 1] \in Count
    BY <2>2, <2>3, <2>4
  <2> QED
    BY <2>1, <2>5
<1>3. \A k \in 0 .. Len(w) : k \in T
  <2> HIDE DEF T
  <2> QED
    BY <1>1, <1>2, UpTo DEF Countable
<1> QED
  BY <1>3

\* Lists whose first orders have the same shares have the same first sums.
LEMMA SumsAgree ==
  ASSUME NEW O, NEW w, Len(w) \in Nat, NEW P, NEW v, Len(v) \in Nat,
         NEW n \in Nat, n <= Len(w), n <= Len(v),
         \A k \in 1 .. n : O[w[k]].shares = P[v[k]].shares
  PROVE  \A k \in 0 .. n : Sums(O, w)[k] = Sums(P, v)[k]
<1> DEFINE T == {k \in 0 .. n : Sums(O, w)[k] = Sums(P, v)[k]}
<1>1. 0 \in T
  BY SumsEquations
<1>2. ASSUME NEW i \in 0 .. n - 1, i \in T PROVE i + 1 \in T
  <2>1. /\ i + 1 \in 1 .. n /\ i + 1 \in 1 .. Len(w) /\ i + 1 \in 1 .. Len(v)
        /\ (i + 1) - 1 = i /\ i + 1 \in 0 .. n
    OBVIOUS
  <2>2. /\ Sums(O, w)[i + 1] = Wrap(Sums(O, w)[i] + O[w[i + 1]].shares)
        /\ Sums(P, v)[i + 1] = Wrap(Sums(P, v)[i] + P[v[i + 1]].shares)
    BY <2>1, SumsEquations
  <2> QED
    BY <1>2, <2>1, <2>2
<1>3. \A k \in 0 .. n : k \in T
  <2> HIDE DEF T
  <2> QED
    BY <1>1, <1>2, UpTo
<1> QED
  BY <1>3

-----------------------------------------------------------------------------
(* One price level.                                                        *)

Order == [ref : Ref, side : Side, price : Price, shares : Count]
Level == [total_shares : Count, orders : Seq(1 .. MaxOrders)]

\* The list of a level of line l: live orders of that line, none of them twice, and
\* their total.
Queued(O, l, level) ==
  LET w == level.orders
  IN /\ level \in Level
     /\ \A i, j \in 1 .. Len(w) : w[i] = w[j] => i = j
     /\ \A i \in 1 .. Len(w) :
          w[i] \in DOMAIN O /\ O[w[i]] \in Order /\ LineOf(O[w[i]]) = l
     /\ level.total_shares = SharesIn(O, w)

LEMMA QueuedParts ==
  ASSUME NEW O, NEW l, NEW level, Queued(O, l, level)
  PROVE  /\ level.orders \in Seq(1 .. MaxOrders)
         /\ Len(level.orders) \in Nat
         /\ DOMAIN level.orders = 1 .. Len(level.orders)
         /\ level = [total_shares |-> level.total_shares, orders |-> level.orders]
         /\ level.total_shares \in Count
         /\ Countable(O, level.orders)
         /\ level.total_shares = Sums(O, level.orders)[Len(level.orders)]
<1>1. level.orders \in Seq(1 .. MaxOrders) /\ level.total_shares \in Count
      /\ level = [total_shares |-> level.total_shares, orders |-> level.orders]
  BY DEF Queued, Level
<1>2. Len(level.orders) \in Nat /\ DOMAIN level.orders = 1 .. Len(level.orders)
  BY <1>1, LenProperties
<1>3. Countable(O, level.orders)
  BY <1>2 DEF Countable, Queued, Order
<1> QED
  BY <1>1, <1>2, <1>3 DEF Queued, SharesIn

\* A level does not depend on orders of other levels.
LEMMA QueuedFrame ==
  ASSUME NEW O, NEW l, NEW level, Queued(O, l, level), NEW P,
         \A i \in 1 .. Len(level.orders) :
           /\ level.orders[i] \in DOMAIN P
           /\ P[level.orders[i]] = O[level.orders[i]]
  PROVE  Queued(P, l, level)
<1> DEFINE w == level.orders
<1>1. Len(w) \in Nat /\ Len(w) \in 0 .. Len(w) /\ level.total_shares = Sums(O, w)[Len(w)]
  BY QueuedParts
<1>2. \A k \in 1 .. Len(w) : O[w[k]].shares = P[w[k]].shares
  OBVIOUS
<1>3. Sums(O, w)[Len(w)] = Sums(P, w)[Len(w)]
  <2> HIDE DEF w
  <2> QED
    BY <1>1, <1>2, SumsAgree
<1> QED
  BY <1>1, <1>3 DEF Queued, SharesIn

\* PriceLevel::add_order: an order that joins a list adds its shares to the total.
LEMMA QueuedAppend ==
  ASSUME NEW O, NEW l, NEW level, Queued(O, l, level), NEW P, NEW id \in 1 .. MaxOrders,
         id \in DOMAIN P, P[id] \in Order, LineOf(P[id]) = l,
         \A i \in 1 .. Len(level.orders) :
           /\ level.orders[i] # id
           /\ level.orders[i] \in DOMAIN P
           /\ P[level.orders[i]] = O[level.orders[i]]
  PROVE  Queued(P, l, [total_shares |-> Wrap(level.total_shares + P[id].shares),
                       orders       |-> Append(level.orders, id)])
<1> DEFINE w == level.orders  v == Append(w, id)  n == Len(w)
           new == [total_shares |-> Wrap(level.total_shares + P[id].shares), orders |-> v]
<1>1. /\ w \in Seq(1 .. MaxOrders) /\ n \in Nat /\ n \in 0 .. n
      /\ level.total_shares = Sums(O, w)[n] /\ level.total_shares \in Count
  BY QueuedParts
<1>2. /\ v \in Seq(1 .. MaxOrders) /\ Len(v) = n + 1
      /\ \A i \in 1 .. n : v[i] = w[i]
      /\ v[n + 1] = id
  BY <1>1, AppendProperties
<1> HIDE DEF v
<1>3. Sums(P, v)[n] = Sums(O, w)[n]
  <2>1. \A k \in 1 .. n : O[w[k]].shares = P[v[k]].shares
    BY <1>2
  <2> HIDE DEF w
  <2> QED
    BY <1>1, <1>2, <2>1, SumsAgree
<1>4. Sums(P, v)[n + 1] = Wrap(Sums(P, v)[n] + P[id].shares)
  <2>1. Len(v) \in Nat /\ n + 1 \in 1 .. Len(v) /\ (n + 1) - 1 = n
    BY <1>1, <1>2
  <2>2. Sums(P, v)[n + 1] = Wrap(Sums(P, v)[(n + 1) - 1] + P[v[n + 1]].shares)
    <3> HIDE DEF n
    <3> QED
      BY <2>1, SumsEquations
  <2> QED
    BY <1>2, <2>1, <2>2
<1>5. SharesIn(P, v) = Wrap(level.total_shares + P[id].shares)
  BY <1>1, <1>2, <1>3, <1>4 DEF SharesIn
<1>6. new \in Level
  BY <1>1, <1>2, Wrapping DEF Level, Order
<1>7. ASSUME NEW i \in 1 .. Len(v)
      PROVE  /\ (i = n + 1 /\ v[i] = id) \/ (i \in 1 .. n /\ v[i] = w[i] /\ v[i] # id)
             /\ v[i] \in DOMAIN P /\ P[v[i]] \in Order /\ LineOf(P[v[i]]) = l
  <2>1. i = n + 1 \/ i \in 1 .. n
    BY <1>1, <1>2
  <2>2. CASE i = n + 1
    <3>1. v[i] = id
      BY <1>2, <2>2
    <3> QED
      BY <2>2, <3>1
  <2>3. CASE i \in 1 .. n
    <3>1. w[i] \in DOMAIN P /\ P[w[i]] = O[w[i]] /\ w[i] # id
      BY <2>3
    <3>2. O[w[i]] \in Order /\ LineOf(O[w[i]]) = l
      BY <2>3 DEF Queued
    <3> QED
      BY <1>2, <2>3, <3>1, <3>2
  <2> QED
    BY <2>1, <2>2, <2>3
<1>8. ASSUME NEW i \in 1 .. Len(v), NEW j \in 1 .. Len(v), v[i] = v[j] PROVE i = j
  <2>1. \A a, b \in 1 .. n : w[a] = w[b] => a = b
    BY DEF Queued
  <2> QED
    BY <1>7, <1>8, <2>1
<1>9. Queued(P, l, new)
  <2> HIDE DEF w, n
  <2> QED
    BY <1>5, <1>6, <1>7, <1>8 DEF Queued
<1> QED
  BY <1>9 DEF v

\* An order that loses shares takes as many from the total.
LEMMA QueuedTaken ==
  ASSUME NEW O, NEW l, NEW level, Queued(O, l, level), NEW P, NEW n \in Count,
         NEW p \in 1 .. Len(level.orders),
         P[level.orders[p]] = [O[level.orders[p]] EXCEPT !.shares = Wrap(@ - n)],
         \A i \in 1 .. Len(level.orders) :
           /\ level.orders[i] \in DOMAIN P
           /\ i # p => P[level.orders[i]] = O[level.orders[i]]
  PROVE  Queued(P, l, [level EXCEPT !.total_shares = Wrap(@ - n)])
<1> DEFINE w == level.orders
           T == {k \in 0 .. Len(w) :
                   Sums(P, w)[k] = IF k < p THEN Sums(O, w)[k] ELSE Wrap(Sums(O, w)[k] - n)}
<1>1. /\ w \in Seq(1 .. MaxOrders) /\ Len(w) \in Nat /\ Len(w) \in 0 .. Len(w)
      /\ level.total_shares = Sums(O, w)[Len(w)] /\ level.total_shares \in Count
      /\ level = [total_shares |-> level.total_shares, orders |-> w]
      /\ Countable(O, w)
  BY QueuedParts
<1>2. O[w[p]] \in Order /\ P[w[p]] \in Order /\ LineOf(P[w[p]]) = LineOf(O[w[p]])
      /\ P[w[p]].shares = Wrap(O[w[p]].shares - n)
  <2>1. O[w[p]] \in Order
    BY DEF Queued
  <2>2. Wrap(O[w[p]].shares - n) \in Count
    BY <2>1, Wrapping DEF Order
  <2> QED
    BY <2>1, <2>2 DEF Order, LineOf
<1>3. ASSUME NEW i \in 1 .. Len(w), i # p PROVE P[w[i]] = O[w[i]]
  BY <1>3
<1>4. 0 \in T
  BY <1>1, SumsEquations
<1>5. ASSUME NEW i \in 0 .. Len(w) - 1, i \in T PROVE i + 1 \in T
  <2>1. i + 1 \in 1 .. Len(w) /\ (i + 1) - 1 = i /\ i + 1 \in 0 .. Len(w) /\ i \in 0 .. Len(w)
    BY <1>1
  <2>2. /\ Sums(O, w)[i + 1] = Wrap(Sums(O, w)[i] + O[w[i + 1]].shares)
        /\ Sums(P, w)[i + 1] = Wrap(Sums(P, w)[i] + P[w[i + 1]].shares)
    BY <1>1, <2>1, SumsEquations
  <2>3. PICK a \in Count, b \in Count : a = Sums(O, w)[i] /\ b = O[w[i + 1]].shares
    BY <1>1, <2>1, SumsType DEF Countable
  <2>4. CASE i + 1 < p
    <3>1. P[w[i + 1]] = O[w[i + 1]] /\ i < p
      BY <1>3, <2>1, <2>4
    <3> QED
      BY <1>5, <2>1, <2>2, <2>4, <3>1
  <2>5. CASE i + 1 = p
    <3>1. i < p /\ w[i + 1] = w[p] /\ ~ (i + 1 < p)
      BY <2>1, <2>5
    <3>2. Sums(P, w)[i] = a /\ P[w[i + 1]].shares = Wrap(b - n)
      BY <1>2, <1>5, <2>3, <3>1
    <3>3. Wrap(a + Wrap(b - n)) = Wrap(Wrap(a + b) - n)
      BY Wrapping
    <3>4. Sums(P, w)[i + 1] = Wrap(Sums(O, w)[i + 1] - n)
      BY <2>2, <2>3, <3>2, <3>3
    <3> QED
      BY <2>1, <3>1, <3>4
  <2>6. CASE i + 1 > p
    <3>1. P[w[i + 1]] = O[w[i + 1]] /\ ~ (i < p)
      BY <1>3, <2>1, <2>6
    <3>2. Sums(P, w)[i] = Wrap(a - n)
      BY <1>5, <2>3, <3>1
    <3>3. Wrap(Wrap(a - n) + b) = Wrap(Wrap(a + b) - n)
      BY Wrapping
    <3>4. Sums(P, w)[i + 1] = Wrap(Sums(O, w)[i + 1] - n)
      BY <2>2, <2>3, <3>1, <3>2, <3>3
    <3> QED
      BY <2>1, <2>6, <3>4
  <2> QED
    BY <2>4, <2>5, <2>6
<1>6. Len(w) \in T
  <2> HIDE DEF T, w
  <2> QED
    BY <1>1, <1>4, <1>5, UpTo
<1>7. SharesIn(P, w) = Wrap(level.total_shares - n)
  BY <1>1, <1>6 DEF SharesIn
<1>8. [level EXCEPT !.total_shares = Wrap(@ - n)] =
        [total_shares |-> Wrap(level.total_shares - n), orders |-> w]
  BY <1>1
<1>9. [level EXCEPT !.total_shares = Wrap(@ - n)] \in Level
  BY <1>1, <1>8, Wrapping DEF Level
<1>10. ASSUME NEW i \in 1 .. Len(w)
       PROVE  w[i] \in DOMAIN P /\ P[w[i]] \in Order /\ LineOf(P[w[i]]) = l
  BY <1>2, <1>3 DEF Queued
<1> QED
  BY <1>7, <1>8, <1>9, <1>10 DEF Queued

\* A list without its p-th element.
LEMMA Removed ==
  ASSUME NEW S, NEW w \in Seq(S), NEW p \in 1 .. Len(w)
  PROVE  /\ RemoveAt(w, p) \in Seq(S)
         /\ Len(RemoveAt(w, p)) = Len(w) - 1
         /\ \A j \in 1 .. Len(w) - 1 : RemoveAt(w, p)[j] = IF j < p THEN w[j] ELSE w[j + 1]
<1> DEFINE front == SubSeq(w, 1, p - 1)  back == SubSeq(w, p + 1, Len(w))
<1>1. Len(w) \in Nat /\ \A j \in 1 .. Len(w) : w[j] \in S
  BY LenProperties, ElementOfSeq
<1>2. /\ front \in Seq(S) /\ Len(front) = p - 1
      /\ \A j \in 1 .. p - 1 : front[j] = w[j]
  BY <1>1, SubSeqProperties, p - 1 \in Int, \A j \in 1 .. p - 1 : w[j] \in S
<1>3. /\ back \in Seq(S) /\ Len(back) = Len(w) - p
      /\ \A j \in 1 .. Len(w) - p : back[j] = w[p + j]
  <2>1. p + 1 \in Int /\ \A j \in p + 1 .. Len(w) : w[j] \in S
    BY <1>1
  <2> QED
    BY <1>1, <2>1, SubSeqProperties
<1> HIDE DEF front, back
<1>4. /\ front \o back \in Seq(S)
      /\ Len(front \o back) = Len(front) + Len(back)
      /\ \A j \in 1 .. Len(front) + Len(back) :
           (front \o back)[j] = IF j <= Len(front) THEN front[j] ELSE back[j - Len(front)]
  BY <1>2, <1>3, ConcatProperties
<1>5. ASSUME NEW j \in 1 .. Len(w) - 1
      PROVE  (front \o back)[j] = IF j < p THEN w[j] ELSE w[j + 1]
  <2>1. CASE j < p
    BY <1>1, <1>2, <1>3, <1>4, <2>1
  <2>2. CASE j >= p
    <3>1. j - (p - 1) \in 1 .. Len(w) - p /\ p + (j - (p - 1)) = j + 1
      BY <1>1, <2>2
    <3>2. back[j - (p - 1)] = w[j + 1]
      BY <1>3, <3>1
    <3> QED
      BY <1>1, <1>2, <1>3, <1>4, <2>2, <3>2
  <2>3. j < p \/ j >= p
    BY <1>1
  <2> QED
    BY <2>1, <2>2, <2>3
<1>6. Len(front \o back) = Len(w) - 1
  BY <1>1, <1>2, <1>3, <1>4
<1> QED
  BY <1>4, <1>5, <1>6 DEF RemoveAt, front, back

\* What stays in a list when its p-th element leaves.
LEMMA RemovedKeeps ==
  ASSUME NEW S, NEW w \in Seq(S), NEW p \in 1 .. Len(w), NEW i \in 1 .. Len(w), i # p
  PROVE  \E j \in 1 .. Len(RemoveAt(w, p)) : RemoveAt(w, p)[j] = w[i]
<1>1. /\ Len(RemoveAt(w, p)) = Len(w) - 1
      /\ \A j \in 1 .. Len(w) - 1 : RemoveAt(w, p)[j] = IF j < p THEN w[j] ELSE w[j + 1]
  BY Removed
<1>2. Len(w) \in Nat
  BY LenProperties
<1>3. CASE i < p
  <2>1. i \in 1 .. Len(w) - 1
    BY <1>2, <1>3
  <2> QED
    BY <1>1, <1>3, <2>1
<1>4. CASE i > p
  <2>1. i - 1 \in 1 .. Len(w) - 1 /\ ~ (i - 1 < p) /\ (i - 1) + 1 = i
    BY <1>2, <1>4
  <2>2. RemoveAt(w, p)[i - 1] = w[i]
    BY <1>1, <2>1
  <2> QED
    BY <1>1, <2>1, <2>2
<1> QED
  BY <1>2, <1>3, <1>4

\* PriceLevel::remove_order: an order without shares leaves its list, and the total as it
\* was; every other order stays.
LEMMA QueuedRemoved ==
  ASSUME NEW O, NEW l, NEW level, Queued(O, l, level), NEW P,
         NEW p \in 1 .. Len(level.orders), O[level.orders[p]].shares = 0,
         \A i \in 1 .. Len(level.orders) : i # p =>
           /\ level.orders[i] \in DOMAIN P
           /\ P[level.orders[i]] = O[level.orders[i]]
  PROVE  Queued(P, l, [level EXCEPT !.orders = RemoveAt(@, p)])
<1> DEFINE w == level.orders  v == RemoveAt(w, p)
           T == {k \in 0 .. Len(v) :
                   Sums(P, v)[k] = IF k < p THEN Sums(O, w)[k] ELSE Sums(O, w)[k + 1]}
<1>1. /\ w \in Seq(1 .. MaxOrders) /\ Len(w) \in Nat
      /\ level.total_shares = Sums(O, w)[Len(w)] /\ level.total_shares \in Count
      /\ level = [total_shares |-> level.total_shares, orders |-> w]
      /\ Countable(O, w)
  BY QueuedParts
<1>2. /\ v \in Seq(1 .. MaxOrders) /\ Len(v) = Len(w) - 1
      /\ \A j \in 1 .. Len(w) - 1 : v[j] = IF j < p THEN w[j] ELSE w[j + 1]
  BY <1>1, Removed
<1>3. p \in 1 .. Len(w) /\ O[w[p]].shares = 0
  OBVIOUS
<1>4. ASSUME NEW i \in 1 .. Len(w), i # p
      PROVE  /\ w[i] \in DOMAIN P /\ P[w[i]] = O[w[i]]
             /\ O[w[i]] \in Order /\ LineOf(O[w[i]]) = l
  BY <1>4 DEF Queued
<1>5. \A i, j \in 1 .. Len(w) : w[i] = w[j] => i = j
  BY DEF Queued
<1>6. [level EXCEPT !.orders = RemoveAt(@, p)] = [total_shares |-> level.total_shares, orders |-> v]
  BY <1>1
<1> HIDE DEF w, v
<1>7. Len(v) \in Nat
  BY <1>1, <1>2, <1>3
<1>8. ASSUME NEW j \in 1 .. Len(v)
      PROVE  \E i \in 1 .. Len(w) :
               /\ i # p /\ v[j] = w[i] /\ i = IF j < p THEN j ELSE j + 1
  <2>1. CASE j < p
    BY <1>1, <1>2, <2>1
  <2>2. CASE ~ (j < p)
    <3>1. j + 1 \in 1 .. Len(w) /\ j + 1 # p
      BY <1>1, <1>2, <2>2
    <3> QED
      BY <1>2, <2>2, <3>1
  <2> QED
    BY <2>1, <2>2
<1>9. 0 \in T
  BY <1>1, <1>3, <1>7, SumsEquations
<1>10. ASSUME NEW i \in 0 .. Len(v) - 1, i \in T PROVE i + 1 \in T
  <2>1. /\ i + 1 \in 1 .. Len(v) /\ (i + 1) - 1 = i /\ i + 1 \in 0 .. Len(v)
        /\ i + 1 \in 1 .. Len(w) /\ i + 2 \in 1 .. Len(w) /\ (i + 2) - 1 = i + 1
        /\ (i + 1) + 1 = i + 2 /\ i + 1 \in 0 .. Len(w)
    BY <1>1, <1>2
  <2>2. /\ Sums(P, v)[i + 1] = Wrap(Sums(P, v)[i] + P[v[i + 1]].shares)
        /\ Sums(O, w)[i + 1] = Wrap(Sums(O, w)[i] + O[w[i + 1]].shares)
        /\ Sums(O, w)[i + 2] = Wrap(Sums(O, w)[i + 1] + O[w[i + 2]].shares)
    <3>1. Sums(P, v)[i + 1] = Wrap(Sums(P, v)[(i + 1) - 1] + P[v[i + 1]].shares)
      <4>1. \A k \in 1 .. Len(v) : Sums(P, v)[k] = Wrap(Sums(P, v)[k - 1] + P[v[k]].shares)
        BY <1>7, SumsEquations
      <4> QED
        BY <2>1, <4>1
    <3>2. \A k \in 1 .. Len(w) : Sums(O, w)[k] = Wrap(Sums(O, w)[k - 1] + O[w[k]].shares)
      BY <1>1, SumsEquations
    <3>3. Sums(O, w)[i + 2] = Wrap(Sums(O, w)[(i + 2) - 1] + O[w[i + 2]].shares)
      BY <2>1, <3>2
    <3>4. Sums(O, w)[i + 1] = Wrap(Sums(O, w)[(i + 1) - 1] + O[w[i + 1]].shares)
      BY <2>1, <3>2
    <3> QED
      BY <2>1, <3>1, <3>3, <3>4
  <2>3. CASE i + 1 < p
    <3>1. v[i + 1] = w[i + 1] /\ P[w[i + 1]] = O[w[i + 1]] /\ i < p
      BY <1>2, <1>4, <2>1, <2>3
    <3>2. Sums(P, v)[i] = Sums(O, w)[i]
      BY <1>10, <3>1
    <3>3. Sums(P, v)[i + 1] = Sums(O, w)[i + 1]
      BY <2>2, <3>1, <3>2
    <3> QED
      BY <2>1, <2>3, <3>3
  <2>4. CASE i + 1 >= p
    <3>1. v[i + 1] = w[i + 2] /\ P[w[i + 2]] = O[w[i + 2]]
      BY <1>2, <1>4, <2>1, <2>4
    <3>2. Sums(P, v)[i] = Sums(O, w)[i + 1]
      <4>1. CASE i + 1 = p
        <5>1. i < p /\ O[w[i + 1]].shares = 0
          BY <1>3, <2>1, <4>1
        <5>2. Sums(O, w)[i] \in Count
          BY <1>1, <2>1, SumsType
        <5>3. Sums(O, w)[i + 1] = Sums(O, w)[i]
          BY <2>2, <5>1, <5>2, Wrapping
        <5> QED
          BY <1>10, <5>1, <5>3
      <4>2. CASE i >= p
        BY <1>10, <4>2
      <4> QED
        BY <2>4, <4>1, <4>2
    <3>3. Sums(P, v)[i + 1] = Sums(O, w)[i + 2]
      BY <2>2, <3>1, <3>2
    <3> QED
      BY <2>1, <2>4, <3>3
  <2> QED
    BY <2>1, <2>3, <2>4
<1>11. Len(v) \in T
  <2>1. Len(v) \in 0 .. Len(v)
    BY <1>7
  <2> HIDE DEF T
  <2> QED
    BY <1>7, <1>9, <1>10, <2>1, UpTo
<1>12. SharesIn(P, v) = level.total_shares
  <2>1. CASE Len(v) < p
    <3>1. Len(w) = p /\ Len(v) = p - 1 /\ (p - 1) + 1 = p /\ p - 1 \in 0 .. Len(w)
      BY <1>1, <1>2, <1>3, <2>1
    <3>2. Sums(O, w)[p] = Wrap(Sums(O, w)[p - 1] + 0)
      BY <1>1, <1>3, SumsEquations
    <3>3. Sums(O, w)[p - 1] \in Count
      BY <1>1, <3>1, SumsType
    <3>4. Sums(O, w)[p] = Sums(O, w)[p - 1]
      BY <3>2, <3>3, Wrapping, CountsAreNumbers
    <3> QED
      BY <1>1, <1>11, <2>1, <3>1, <3>4 DEF SharesIn
  <2>2. CASE ~ (Len(v) < p)
    <3>1. Len(v) + 1 = Len(w)
      BY <1>1, <1>2
    <3> QED
      BY <1>1, <1>11, <2>2, <3>1 DEF SharesIn
  <2> QED
    BY <2>1, <2>2
<1>13. ASSUME NEW i \in 1 .. Len(v), NEW j \in 1 .. Len(v), v[i] = v[j] PROVE i = j
  <2>1. PICK a \in 1 .. Len(w) : v[i] = w[a] /\ a = IF i < p THEN i ELSE i + 1
    BY <1>8
  <2>2. PICK c \in 1 .. Len(w) : v[j] = w[c] /\ c = IF j < p THEN j ELSE j + 1
    BY <1>8
  <2>3. a = c
    <3>1. w[a] = w[c]
      BY <1>13, <2>1, <2>2
    <3> QED
      BY <1>5, <3>1
  <2>4. i \in Int /\ j \in Int /\ p \in Int
    BY <1>3, <1>7
  <2>5. (IF i < p THEN i ELSE i + 1) = IF j < p THEN j ELSE j + 1
    BY <2>1, <2>2, <2>3
  <2> QED
    BY <2>4, <2>5
<1>14. Queued(P, l, [total_shares |-> level.total_shares, orders |-> v])
  <2>1. [total_shares |-> level.total_shares, orders |-> v] \in Level
    BY <1>1, <1>2 DEF Level
  <2>2. ASSUME NEW j \in 1 .. Len(v)
        PROVE  v[j] \in DOMAIN P /\ P[v[j]] \in Order /\ LineOf(P[v[j]]) = l
    <3>1. PICK i \in 1 .. Len(w) : i # p /\ v[j] = w[i]
      BY <1>8
    <3>2. /\ w[i] \in DOMAIN P /\ P[w[i]] = O[w[i]]
          /\ O[w[i]] \in Order /\ LineOf(O[w[i]]) = l
      BY <1>4, <3>1
    <3> QED
      BY <3>1, <3>2
  <2> QED
    BY <1>12, <1>13, <2>1, <2>2 DEF Queued
<1> QED
  BY <1>6, <1>14 DEF w, v

-----------------------------------------------------------------------------
(* The whole book: objects O, levels L, reference numbers M, and the       *)
(* numbers D that were added while they rested.                            *)

Listed(level, id) == \E i \in 1 .. Len(level.orders) : level.orders[i] = id

Sound(O, L, M, D) ==
  /\ DOMAIN O \subseteq 1 .. MaxOrders /\ O \in [DOMAIN O -> Order]
  /\ DOMAIN L \subseteq Line /\ L \in [DOMAIN L -> Level]
  /\ DOMAIN M \subseteq Ref /\ M \in [DOMAIN M -> 1 .. MaxOrders]
  /\ \A l \in DOMAIN L : L[l].orders # << >> /\ Queued(O, l, L[l])
  /\ \A ref \in DOMAIN M : M[ref] \in DOMAIN O /\ O[M[ref]].ref = ref
  /\ \A id \in DOMAIN O : LineOf(O[id]) \in DOMAIN L /\ Listed(L[LineOf(O[id])], id)
  /\ \A id \in DOMAIN O :
       O[id].ref \in D \/ (O[id].ref \in DOMAIN M /\ M[O[id].ref] = id)

\* A level without orders has none of its shares.
LEMMA NewLevelQueued ==
  ASSUME NEW O, NEW l
  PROVE  Queued(O, l, NewLevel) /\ Len(NewLevel.orders) = 0
<1>1. /\ << >> \in Seq(1 .. MaxOrders) /\ Len(<< >>) = 0
  BY EmptySeq
<1>2. NewLevel \in Level
  BY <1>1, CountsAreNumbers DEF NewLevel, Level
<1>3. Sums(O, << >>)[0] = 0
  BY <1>1, SumsEquations
<1> QED
  BY <1>1, <1>2, <1>3 DEF Queued, SharesIn, NewLevel

\* add_order keeps the book sound, also for a reference number that rests already.
LEMMA AddSound ==
  ASSUME NEW O, NEW L, NEW M, NEW D, Sound(O, L, M, D),
         NEW id \in (1 .. MaxOrders) \ DOMAIN O, NEW o \in Order
  PROVE  LET level == IF LineOf(o) \in DOMAIN L THEN L[LineOf(o)] ELSE NewLevel
         IN  Sound(With(O, id, o),
                   With(L, LineOf(o), [total_shares |-> Wrap(level.total_shares + o.shares),
                                       orders       |-> Append(level.orders, id)]),
                   With(M, o.ref, id),
                   IF o.ref \in DOMAIN M THEN D \cup {o.ref} ELSE D)
<1> DEFINE line  == LineOf(o)
           level == IF line \in DOMAIN L THEN L[line] ELSE NewLevel
           new   == [total_shares |-> Wrap(level.total_shares + o.shares),
                     orders       |-> Append(level.orders, id)]
           P == With(O, id, o)  K == With(L, line, new)  N == With(M, o.ref, id)
           E == IF o.ref \in DOMAIN M THEN D \cup {o.ref} ELSE D
<1>1. /\ DOMAIN P = DOMAIN O \cup {id} /\ P[id] = o
      /\ \A x \in DOMAIN O : x # id /\ P[x] = O[x]
      /\ DOMAIN P \subseteq 1 .. MaxOrders /\ P \in [DOMAIN P -> Order]
  BY DEF With, Sound
<1>2. Queued(O, line, level)
  BY NewLevelQueued DEF Sound
<1>3. ASSUME NEW i \in 1 .. Len(level.orders)
      PROVE  /\ level.orders[i] \in DOMAIN O /\ level.orders[i] # id
             /\ level.orders[i] \in DOMAIN P /\ P[level.orders[i]] = O[level.orders[i]]
  <2>1. level.orders[i] \in DOMAIN O
    <3> HIDE DEF level
    <3> QED
      BY <1>2 DEF Queued
  <2> QED
    BY <1>1, <2>1
<1>4. Queued(P, line, new)
  <2> HIDE DEF P, line, level
  <2> QED
    BY <1>1, <1>2, <1>3, QueuedAppend DEF line
<1>5. /\ Append(level.orders, id) \in Seq(1 .. MaxOrders)
      /\ Append(level.orders, id) # << >>
      /\ Len(Append(level.orders, id)) = Len(level.orders) + 1
      /\ \A i \in 1 .. Len(level.orders) : Append(level.orders, id)[i] = level.orders[i]
      /\ Append(level.orders, id)[Len(level.orders) + 1] = id
      /\ Len(level.orders) \in Nat
  <2> HIDE DEF level
  <2>1. level.orders \in Seq(1 .. MaxOrders) /\ Len(level.orders) \in Nat
    BY <1>2, QueuedParts
  <2> QED
    BY <2>1, AppendProperties
<1>6. new \in Level /\ new.orders # << >> /\ Listed(new, id)
      /\ \A x : Listed(level, x) => Listed(new, x)
  <2>1. new \in Level
    BY <1>4 DEF Queued
  <2>2. Listed(new, id)
    <3>1. Len(level.orders) + 1 \in 1 .. Len(new.orders)
      BY <1>5
    <3> HIDE DEF level
    <3> QED
      BY <1>5, <3>1 DEF Listed
  <2>3. ASSUME NEW x, Listed(level, x) PROVE Listed(new, x)
    <3> HIDE DEF level
    <3>1. PICK i \in 1 .. Len(level.orders) : level.orders[i] = x
      BY <2>3 DEF Listed
    <3>2. i \in 1 .. Len(new.orders) /\ new.orders[i] = x
      BY <1>5, <3>1
    <3> QED
      BY <3>2 DEF Listed
  <2> QED
    BY <1>5, <2>1, <2>2, <2>3
<1>7. line \in Line
  BY DEF Order, LineOf, Line
<1>8. /\ DOMAIN K = DOMAIN L \cup {line} /\ K[line] = new
      /\ \A l \in DOMAIN L : l # line => K[l] = L[l]
  <2> HIDE DEF line, new
  <2> QED
    BY DEF With
<1>9. DOMAIN K \subseteq Line /\ K \in [DOMAIN K -> Level]
  <2> HIDE DEF line, new
  <2> QED
    BY <1>6, <1>7 DEF With, Sound
<1>10. /\ DOMAIN N = DOMAIN M \cup {o.ref} /\ N[o.ref] = id
       /\ \A r \in DOMAIN M : r # o.ref => N[r] = M[r]
       /\ DOMAIN N \subseteq Ref /\ N \in [DOMAIN N -> 1 .. MaxOrders]
  BY DEF With, Sound, Order
<1> HIDE DEF P, K, N, line, level, new
<1>11. ASSUME NEW l \in DOMAIN K
       PROVE  K[l].orders # << >> /\ Queued(P, l, K[l])
  <2>1. CASE l = line
    BY <1>4, <1>6, <1>8, <2>1
  <2>2. CASE l # line
    <3>1. l \in DOMAIN L /\ K[l] = L[l] /\ L[l].orders # << >> /\ Queued(O, l, L[l])
      BY <1>8, <2>2 DEF Sound
    <3>2. \A i \in 1 .. Len(L[l].orders) : L[l].orders[i] \in DOMAIN O
      BY <3>1 DEF Queued
    <3>3. Queued(P, l, L[l])
      BY <1>1, <3>1, <3>2, QueuedFrame
    <3> QED
      BY <3>1, <3>3
  <2> QED
    BY <2>1, <2>2
<1>12. ASSUME NEW r \in DOMAIN N PROVE N[r] \in DOMAIN P /\ P[N[r]].ref = r
  <2>1. CASE r = o.ref
    BY <1>1, <1>10, <2>1
  <2>2. CASE r # o.ref
    BY <1>1, <1>10, <2>2 DEF Sound
  <2> QED
    BY <2>1, <2>2
<1>13. ASSUME NEW x \in DOMAIN P
       PROVE  LineOf(P[x]) \in DOMAIN K /\ Listed(K[LineOf(P[x])], x)
  <2>1. CASE x = id
    BY <1>1, <1>6, <1>8, <2>1 DEF line
  <2>2. CASE x # id
    <3>1. x \in DOMAIN O /\ P[x] = O[x] /\ LineOf(O[x]) \in DOMAIN L /\ Listed(L[LineOf(O[x])], x)
      BY <1>1, <2>2 DEF Sound
    <3>2. LineOf(O[x]) = line => Listed(new, x)
      BY <1>6, <3>1 DEF level
    <3> QED
      BY <1>8, <3>1, <3>2
  <2> QED
    BY <2>1, <2>2
<1>14. ASSUME NEW x \in DOMAIN P
       PROVE  P[x].ref \in E \/ (P[x].ref \in DOMAIN N /\ N[P[x].ref] = x)
  <2>1. CASE x = id
    BY <1>1, <1>10, <2>1
  <2>2. CASE x # id
    <3>1. x \in DOMAIN O /\ P[x] = O[x]
      BY <1>1, <2>2
    <3>2. O[x].ref \in D \/ (O[x].ref \in DOMAIN M /\ M[O[x].ref] = x)
      BY <3>1 DEF Sound
    <3> QED
      BY <1>10, <3>1, <3>2
  <2> QED
    BY <2>1, <2>2
<1>15. Sound(P, K, N, E)
  BY <1>1, <1>9, <1>10, <1>11, <1>12, <1>13, <1>14 DEF Sound
<1> QED
  BY <1>15 DEF P, K, N, line, level, new

\* Taking shares from an order and from its level keeps the book sound, also when more are
\* taken than the order has.
LEMMA TakenSound ==
  ASSUME NEW O, NEW L, NEW M, NEW D, Sound(O, L, M, D), NEW id \in DOMAIN O, NEW n \in Count
  PROVE  Sound([O EXCEPT ![id].shares = Wrap(@ - n)],
               [L EXCEPT ![LineOf(O[id])].total_shares = Wrap(@ - n)], M, D)
<1> DEFINE line == LineOf(O[id])
           P == [O EXCEPT ![id].shares = Wrap(@ - n)]
           K == [L EXCEPT ![line].total_shares = Wrap(@ - n)]
<1>1. O[id] \in Order /\ line \in DOMAIN L /\ L[line] \in Level
  BY DEF Sound
<1>2. Wrap(O[id].shares - n) \in Count /\ Wrap(L[line].total_shares - n) \in Count
  <2> HIDE DEF line
  <2> QED
    BY <1>1, Wrapping DEF Order, Level
<1>3. /\ DOMAIN P = DOMAIN O
      /\ P[id] = [O[id] EXCEPT !.shares = Wrap(@ - n)]
      /\ \A x \in DOMAIN O : x # id => P[x] = O[x]
  BY DEF Sound
<1>4. /\ DOMAIN K = DOMAIN L
      /\ K[line] = [L[line] EXCEPT !.total_shares = Wrap(@ - n)]
      /\ \A l \in DOMAIN L : l # line => K[l] = L[l]
  <2> HIDE DEF line
  <2> QED
    BY <1>1 DEF Sound
<1>5. P[id] \in Order /\ LineOf(P[id]) = line /\ P[id].ref = O[id].ref
  BY <1>1, <1>2, <1>3 DEF Order, LineOf
<1>6. K[line].orders = L[line].orders /\ K[line] \in Level
  <2> HIDE DEF line, K
  <2> QED
    BY <1>1, <1>2, <1>4 DEF Level
<1>7. P \in [DOMAIN P -> Order] /\ K \in [DOMAIN K -> Level]
  <2>1. \A x \in DOMAIN O : P[x] \in Order
    <3> HIDE DEF P
    <3> QED
      BY <1>3, <1>5 DEF Sound
  <2>2. \A l \in DOMAIN L : K[l] \in Level
    <3> HIDE DEF K, line
    <3> QED
      BY <1>4, <1>6 DEF Sound
  <2> QED
    BY <2>1, <2>2 DEF Sound
<1> HIDE DEF P, K, line
<1>8. Listed(L[line], id)
  BY DEF Sound, line
<1>9. PICK p \in 1 .. Len(L[line].orders) : L[line].orders[p] = id
  BY <1>8 DEF Listed
<1>10. \A x : Listed(L[line], x) => Listed(K[line], x)
  BY <1>6 DEF Listed
<1>11. ASSUME NEW l \in DOMAIN K PROVE K[l].orders # << >> /\ Queued(P, l, K[l])
  <2>1. l \in DOMAIN L /\ L[l].orders # << >> /\ Queued(O, l, L[l])
    BY <1>4 DEF Sound
  <2>2. ASSUME NEW i \in 1 .. Len(L[l].orders)
        PROVE  L[l].orders[i] \in DOMAIN P /\ LineOf(O[L[l].orders[i]]) = l
    BY <1>3, <2>1 DEF Queued
  <2>3. CASE l = line
    <3>1. ASSUME NEW i \in 1 .. Len(L[line].orders), i # p
          PROVE  P[L[line].orders[i]] = O[L[line].orders[i]]
      <4>1. L[line].orders[i] # id
        BY <1>9, <2>1, <2>3, <3>1 DEF Queued
      <4> QED
        BY <1>3, <2>2, <2>3, <4>1
    <3>2. Queued(P, line, [L[line] EXCEPT !.total_shares = Wrap(@ - n)])
      BY <1>3, <1>9, <2>1, <2>2, <2>3, <3>1, QueuedTaken
    <3> QED
      BY <1>4, <1>6, <2>1, <2>3, <3>2
  <2>4. CASE l # line
    <3>1. \A i \in 1 .. Len(L[l].orders) : P[L[l].orders[i]] = O[L[l].orders[i]]
      BY <1>3, <2>2, <2>4 DEF line
    <3>2. Queued(P, l, L[l])
      BY <2>1, <2>2, <3>1, QueuedFrame
    <3> QED
      BY <1>4, <2>1, <2>4, <3>2
  <2> QED
    BY <2>3, <2>4
<1>12. ASSUME NEW x \in DOMAIN P
       PROVE  P[x].ref = O[x].ref /\ LineOf(P[x]) = LineOf(O[x]) /\ x \in DOMAIN O
  <2>1. CASE x = id
    BY <1>3, <1>5, <2>1 DEF line
  <2>2. CASE x # id
    BY <1>3, <2>2
  <2> QED
    BY <2>1, <2>2
<1>13. ASSUME NEW x \in DOMAIN P
       PROVE  LineOf(P[x]) \in DOMAIN K /\ Listed(K[LineOf(P[x])], x)
  <2>1. LineOf(O[x]) \in DOMAIN L /\ Listed(L[LineOf(O[x])], x)
    BY <1>12 DEF Sound
  <2> QED
    BY <1>4, <1>10, <1>12, <2>1
<1>14. \A r \in DOMAIN M : M[r] \in DOMAIN P /\ P[M[r]].ref = r
  BY <1>3, <1>12 DEF Sound
<1>15. \A x \in DOMAIN P : P[x].ref \in D \/ (P[x].ref \in DOMAIN M /\ M[P[x].ref] = x)
  BY <1>12 DEF Sound
<1>16. /\ DOMAIN P \subseteq 1 .. MaxOrders /\ DOMAIN K \subseteq Line
       /\ DOMAIN M \subseteq Ref /\ M \in [DOMAIN M -> 1 .. MaxOrders]
  BY <1>3, <1>4 DEF Sound
<1>17. Sound(P, K, M, D)
  BY <1>7, <1>11, <1>13, <1>14, <1>15, <1>16 DEF Sound
<1> QED
  BY <1>17 DEF P, K, line

\* The place of a listed order is its place.
LEMMA PlaceOfListed ==
  ASSUME NEW w, DOMAIN w = 1 .. Len(w), NEW id, \E i \in 1 .. Len(w) : w[i] = id
  PROVE  PlaceOf(w, id) \in 1 .. Len(w) /\ w[PlaceOf(w, id)] = id
BY DEF PlaceOf

\* Erasing an order without shares, its reference number, and its level when it was the
\* last one there, keeps the book sound.
LEMMA GoneSound ==
  ASSUME NEW O, NEW L, NEW M, NEW D, Sound(O, L, M, D), NEW ref \in DOMAIN M,
         O[M[ref]].shares = 0
  PROVE  LET id   == M[ref]
             line == LineOf(O[id])
             K    == [L EXCEPT ![line].orders = RemoveAt(@, PlaceOf(@, id))]
         IN  Sound(Without(O, id), IF K[line].orders = << >> THEN Without(K, line) ELSE K,
                   Without(M, ref), D)
<1> DEFINE id == M[ref]  line == LineOf(O[id])
           w == L[line].orders  p == PlaceOf(w, id)
           K == [L EXCEPT ![line].orders = RemoveAt(@, PlaceOf(@, id))]
           Z == IF K[line].orders = << >> THEN Without(K, line) ELSE K
           P == Without(O, id)  N == Without(M, ref)
<1>1. /\ id \in DOMAIN O /\ O[id].ref = ref /\ O[id].shares = 0
      /\ line \in DOMAIN L /\ Queued(O, line, L[line]) /\ Listed(L[line], id)
  BY DEF Sound
<1>2. /\ DOMAIN P = DOMAIN O \ {id}
      /\ \A x \in DOMAIN P : x # id /\ P[x] = O[x]
      /\ DOMAIN P \subseteq 1 .. MaxOrders /\ P \in [DOMAIN P -> Order]
  <2> HIDE DEF id
  <2> QED
    BY DEF Sound, Without
<1>3. /\ DOMAIN N = DOMAIN M \ {ref}
      /\ \A r \in DOMAIN N : r # ref /\ N[r] = M[r]
      /\ DOMAIN N \subseteq Ref /\ N \in [DOMAIN N -> 1 .. MaxOrders]
  BY DEF Sound, Without
<1>4. p \in 1 .. Len(w) /\ w[p] = id
  <2>1. DOMAIN w = 1 .. Len(w)
    <3> HIDE DEF id, line
    <3> QED
      BY <1>1, QueuedParts
  <2>2. \E i \in 1 .. Len(w) : w[i] = id
    <3> HIDE DEF id, line
    <3> QED
      BY <1>1 DEF Listed
  <2> HIDE DEF id, line, w
  <2> QED
    BY <2>1, <2>2, PlaceOfListed
<1>5. /\ DOMAIN K = DOMAIN L
      /\ K[line] = [L[line] EXCEPT !.orders = RemoveAt(@, p)]
      /\ \A l \in DOMAIN L : l # line => K[l] = L[l]
  <2> HIDE DEF line, id
  <2> QED
    BY <1>1 DEF Sound
<1> HIDE DEF P, N, K, p, line, id
<1>6. /\ Queued(P, line, K[line])
      /\ \A x : x # id /\ Listed(L[line], x) => Listed(K[line], x)
  <2>1. ASSUME NEW i \in 1 .. Len(L[line].orders), i # p
        PROVE  /\ L[line].orders[i] \in DOMAIN P
               /\ P[L[line].orders[i]] = O[L[line].orders[i]]
    <3>1. L[line].orders[i] # id /\ L[line].orders[i] \in DOMAIN O
      BY <1>1, <1>4, <2>1 DEF Queued
    <3> QED
      BY <1>2, <3>1
  <2>2. O[L[line].orders[p]].shares = 0
    BY <1>1, <1>4
  <2>3. Queued(P, line, [L[line] EXCEPT !.orders = RemoveAt(@, p)])
    BY <1>1, <1>4, <2>1, <2>2, QueuedRemoved
  <2>4. K[line].orders = RemoveAt(L[line].orders, p)
    <3>1. L[line] = [total_shares |-> L[line].total_shares, orders |-> L[line].orders]
      BY <1>1, QueuedParts
    <3> QED
      BY <1>5, <3>1
  <2>5. ASSUME NEW x, x # id, Listed(L[line], x) PROVE Listed(K[line], x)
    <3>1. PICK i \in 1 .. Len(L[line].orders) : L[line].orders[i] = x
      BY <2>5 DEF Listed
    <3>2. i # p
      BY <1>4, <2>5, <3>1
    <3>3. L[line].orders \in Seq(1 .. MaxOrders)
      BY <1>1, QueuedParts
    <3>4. \E j \in 1 .. Len(RemoveAt(L[line].orders, p)) :
            RemoveAt(L[line].orders, p)[j] = L[line].orders[i]
      BY <1>4, <3>2, <3>3, RemovedKeeps
    <3> QED
      BY <2>4, <3>1, <3>4 DEF Listed
  <2> QED
    BY <1>5, <2>3, <2>5
<1>7. /\ DOMAIN Z = {l \in DOMAIN L : l # line \/ K[line].orders # << >>}
      /\ \A l \in DOMAIN Z : Z[l] = K[l]
      /\ Z \in [DOMAIN Z -> Level]
  <2>1. \A l \in DOMAIN K : K[l] \in Level
    BY <1>5, <1>6 DEF Sound, Queued
  <2>2. K \in [DOMAIN K -> Level]
    <3>1. K = [l \in DOMAIN K |-> K[l]]
      BY DEF K
    <3> QED
      BY <2>1, <3>1
  <2> QED
    BY <1>5, <2>1, <2>2 DEF Without
<1> HIDE DEF Z
<1>8. ASSUME NEW l \in DOMAIN Z PROVE Z[l].orders # << >> /\ Queued(P, l, Z[l])
  <2>1. CASE l = line
    BY <1>6, <1>7, <2>1
  <2>2. CASE l # line
    <3>1. l \in DOMAIN L /\ Z[l] = L[l] /\ L[l].orders # << >> /\ Queued(O, l, L[l])
      BY <1>5, <1>7, <2>2 DEF Sound
    <3>2. ASSUME NEW i \in 1 .. Len(L[l].orders)
          PROVE  L[l].orders[i] \in DOMAIN P /\ P[L[l].orders[i]] = O[L[l].orders[i]]
      <4>1. L[l].orders[i] \in DOMAIN O /\ LineOf(O[L[l].orders[i]]) = l
        BY <3>1 DEF Queued
      <4>2. L[l].orders[i] # id
        BY <2>2, <4>1 DEF line
      <4> QED
        BY <1>2, <4>1, <4>2
    <3>3. Queued(P, l, L[l])
      BY <3>1, <3>2, QueuedFrame
    <3> QED
      BY <3>1, <3>3
  <2> QED
    BY <2>1, <2>2
<1>9. ASSUME NEW r \in DOMAIN N PROVE N[r] \in DOMAIN P /\ P[N[r]].ref = r
  <2>1. r \in DOMAIN M /\ r # ref /\ N[r] = M[r] /\ M[r] \in DOMAIN O /\ O[M[r]].ref = r
    BY <1>3 DEF Sound
  <2>2. M[r] # id
    BY <1>1, <2>1
  <2> QED
    BY <1>2, <2>1, <2>2
<1>10. ASSUME NEW x \in DOMAIN P
       PROVE  LineOf(P[x]) \in DOMAIN Z /\ Listed(Z[LineOf(P[x])], x)
  <2>1. /\ x \in DOMAIN O /\ x # id /\ P[x] = O[x]
        /\ LineOf(O[x]) \in DOMAIN L /\ Listed(L[LineOf(O[x])], x)
    BY <1>2 DEF Sound
  <2>2. CASE LineOf(O[x]) = line
    <3>1. Listed(K[line], x)
      BY <1>6, <2>1, <2>2
    <3>2. K[line].orders # << >>
      <4>1. Len(<< >>) = 0
        BY EmptySeq
      <4> QED
        BY <3>1, <4>1 DEF Listed
    <3> QED
      BY <1>7, <2>1, <2>2, <3>1, <3>2
  <2>3. CASE LineOf(O[x]) # line
    BY <1>5, <1>7, <2>1, <2>3
  <2> QED
    BY <2>2, <2>3
<1>11. ASSUME NEW x \in DOMAIN P
       PROVE  P[x].ref \in D \/ (P[x].ref \in DOMAIN N /\ N[P[x].ref] = x)
  <2>1. /\ x \in DOMAIN O /\ x # id /\ P[x] = O[x]
        /\ O[x].ref \in D \/ (O[x].ref \in DOMAIN M /\ M[O[x].ref] = x)
    BY <1>2 DEF Sound
  <2>2. CASE O[x].ref \in D
    BY <2>1, <2>2
  <2>3. CASE O[x].ref \in DOMAIN M /\ M[O[x].ref] = x
    <3>1. O[x].ref # ref
      BY <2>1, <2>3 DEF id
    <3> QED
      BY <1>3, <2>1, <2>3, <3>1
  <2> QED
    BY <2>1, <2>2, <2>3
<1>12. DOMAIN Z \subseteq Line
  BY <1>7 DEF Sound
<1>13. Sound(P, Z, N, D)
  BY <1>2, <1>3, <1>7, <1>8, <1>9, <1>10, <1>11, <1>12 DEF Sound
<1> QED
  BY <1>13 DEF P, N, Z, K, line, id

-----------------------------------------------------------------------------
(* The private operations on a book, and the messages.                     *)

\* Objects and levels after shares were taken from an order, and levels after it left.
TakenObjects(O, id, n) == [O EXCEPT ![id].shares = Wrap(@ - n)]
TakenLevels(O, L, id, n) == [L EXCEPT ![LineOf(O[id])].total_shares = Wrap(@ - n)]
RestLevels(L, line, id) ==
  LET K == [L EXCEPT ![line].orders = RemoveAt(@, PlaceOf(@, id))]
  IN  IF K[line].orders = << >> THEN Without(K, line) ELSE K

\* What remove_order leaves behind.
LEMMA RemoveOrderIs ==
  ASSUME NEW O, NEW L, NEW M, NEW D, Sound(O, L, M, D), NEW ref \in DOMAIN M, NEW n \in Count
  PROVE  LET id   == M[ref]
             line == LineOf(O[id])
             P    == TakenObjects(O, id, n)
             K    == TakenLevels(O, L, id, n)
         IN  /\ id \in DOMAIN O /\ O[id] \in Order
             /\ DOMAIN P = DOMAIN O /\ LineOf(P[id]) = line
             /\ P[id].shares = Wrap(O[id].shares - n)
             /\ remove_order([object |-> O, levels |-> L, m_orders |-> M], ref, n) =
                  IF P[id].shares # 0 THEN [object |-> P, levels |-> K, m_orders |-> M]
                  ELSE [object   |-> Without(P, id),
                        levels   |-> RestLevels(K, line, id),
                        m_orders |-> Without(M, ref)]
<1> DEFINE b    == [object |-> O, levels |-> L, m_orders |-> M]
           id   == M[ref]
           line == LineOf(O[id])
           P    == TakenObjects(O, id, n)
           K    == TakenLevels(O, L, id, n)
           left == Taken(b, id, n)
           H    == [K EXCEPT ![line].orders = RemoveAt(@, PlaceOf(@, id))]
           Z    == RestLevels(K, line, id)
           gone == Forgotten(Pruned(Unlisted(left, id), line), ref, id)
<1>1. id \in DOMAIN O /\ O[id] \in Order
  BY DEF Sound
<1>2. left = [object |-> P, levels |-> K, m_orders |-> M]
  BY DEF Taken, TakenObjects, TakenLevels
<1>3. /\ DOMAIN P = DOMAIN O /\ LineOf(P[id]) = line
      /\ P[id].shares = Wrap(O[id].shares - n)
  <2> HIDE DEF id
  <2>1. P[id] = [O[id] EXCEPT !.shares = Wrap(@ - n)]
    BY <1>1 DEF TakenObjects
  <2>2. DOMAIN P = DOMAIN O
    BY DEF TakenObjects
  <2> HIDE DEF P
  <2> QED
    BY <1>1, <2>1, <2>2 DEF Order, LineOf
<1>4. gone = [object |-> Without(P, id), levels |-> Z, m_orders |-> Without(M, ref)]
  <2> HIDE DEF id, P, K, left
  <2>1. Unlisted(left, id) = [object |-> P, levels |-> H, m_orders |-> M]
    BY <1>2, <1>3 DEF Unlisted
  <2>2. Z = IF H[line].orders = << >> THEN Without(H, line) ELSE H
    BY DEF RestLevels
  <2> HIDE DEF H, line, Z
  <2>3. Pruned(Unlisted(left, id), line) = [object |-> P, levels |-> Z, m_orders |-> M]
    BY <2>1, <2>2 DEF Pruned
  <2> QED
    BY <2>3 DEF Forgotten
<1>5. remove_order(b, ref, n) = IF left.object[id].shares # 0 THEN left ELSE gone
  <2> HIDE DEF b
  <2>1. b.m_orders = M /\ b.object = O
    BY DEF b
  <2> QED
    BY <2>1 DEF remove_order
<1>6. remove_order(b, ref, n) =
        IF P[id].shares # 0 THEN [object |-> P, levels |-> K, m_orders |-> M]
        ELSE [object |-> Without(P, id), levels |-> Z, m_orders |-> Without(M, ref)]
  <2> HIDE DEF b, id, line, P, K, left, H, Z, gone
  <2> QED
    BY <1>2, <1>4, <1>5
<1> QED
  BY <1>1, <1>3, <1>6

\* remove_order keeps the book sound, and erases an order that loses all its shares.
LEMMA RemoveSound ==
  ASSUME NEW O, NEW L, NEW M, NEW D, Sound(O, L, M, D), NEW ref \in DOMAIN M, NEW n \in Count
  PROVE  LET r == remove_order([object |-> O, levels |-> L, m_orders |-> M], ref, n)
         IN  /\ Sound(r.object, r.levels, r.m_orders, D)
             /\ r = [object |-> r.object, levels |-> r.levels, m_orders |-> r.m_orders]
             /\ n = O[M[ref]].shares => /\ DOMAIN r.object = DOMAIN O \ {M[ref]}
                                        /\ r.m_orders = Without(M, ref)
<1> DEFINE id   == M[ref]
           line == LineOf(O[id])
           P    == TakenObjects(O, id, n)
           K    == TakenLevels(O, L, id, n)
           Z    == RestLevels(K, line, id)
           r    == remove_order([object |-> O, levels |-> L, m_orders |-> M], ref, n)
<1>1. /\ id \in DOMAIN O /\ O[id] \in Order
      /\ DOMAIN P = DOMAIN O /\ LineOf(P[id]) = line
      /\ P[id].shares = Wrap(O[id].shares - n)
      /\ r = IF P[id].shares # 0 THEN [object |-> P, levels |-> K, m_orders |-> M]
             ELSE [object |-> Without(P, id), levels |-> Z, m_orders |-> Without(M, ref)]
  <2> HIDE DEF id
  <2> QED
    BY RemoveOrderIs DEF id
<1>2. Sound(P, K, M, D)
  <2> HIDE DEF id
  <2> QED
    BY <1>1, TakenSound DEF TakenObjects, TakenLevels
<1>3. n = O[id].shares => P[id].shares = 0
  <2>1. ASSUME NEW a \in Count PROVE Wrap(a - a) = 0
    BY LimitOrderBookAssumption DEF Wrap, Count
  <2> HIDE DEF P, id
  <2> QED
    BY <1>1, <2>1 DEF Order
<1>4. P[id].shares = 0 => Sound(Without(P, id), Z, Without(M, ref), D)
  <2> HIDE DEF P, K
  <2> QED
    BY <1>1, <1>2, GoneSound DEF RestLevels
<1>5. DOMAIN Without(P, id) = DOMAIN O \ {id}
  BY <1>1 DEF Without
<1> HIDE DEF id, line, P, K, Z, r
<1>6. /\ Sound(r.object, r.levels, r.m_orders, D)
      /\ r = [object |-> r.object, levels |-> r.levels, m_orders |-> r.m_orders]
      /\ n = O[id].shares => /\ DOMAIN r.object = DOMAIN O \ {id}
                             /\ r.m_orders = Without(M, ref)
  <2>1. CASE P[id].shares # 0
    BY <1>1, <1>2, <1>3, <2>1
  <2>2. CASE P[id].shares = 0
    BY <1>1, <1>4, <1>5, <2>2
  <2> QED
    BY <2>1, <2>2
<1> QED
  BY <1>6 DEF r, id

\* add_order keeps the book sound.
LEMMA AddOrderSound ==
  ASSUME NEW O, NEW L, NEW M, NEW D, Sound(O, L, M, D), NEW id \in (1 .. MaxOrders) \ DOMAIN O,
         NEW ref \in Ref, NEW side \in Side, NEW shares \in Count, NEW price \in Price
  PROVE  LET a == add_order([object |-> O, levels |-> L, m_orders |-> M],
                            id, ref, side, shares, price)
         IN  Sound(a.object, a.levels, a.m_orders, IF ref \in DOMAIN M THEN D \cup {ref} ELSE D)
<1> DEFINE o == [ref |-> ref, side |-> side, price |-> price, shares |-> shares]
<1>1. o \in Order /\ o.ref = ref /\ o.shares = shares /\ LineOf(o) = <<side, price>>
  BY DEF Order, LineOf
<1> HIDE DEF o
<1>2. LET level == IF LineOf(o) \in DOMAIN L THEN L[LineOf(o)] ELSE NewLevel
      IN  Sound(With(O, id, o),
                With(L, LineOf(o), [total_shares |-> Wrap(level.total_shares + o.shares),
                                    orders       |-> Append(level.orders, id)]),
                With(M, o.ref, id),
                IF o.ref \in DOMAIN M THEN D \cup {o.ref} ELSE D)
  BY <1>1, AddSound
<1> QED
  BY <1>1, <1>2 DEF add_order, o

\* The arguments of the messages.
LEMMA CallParts ==
  /\ \A c \in AddCall : c.ref \in Ref /\ c.side \in Side /\ c.shares \in Count /\ c.price \in Price
  /\ \A c \in ExecuteCall \cup ReduceCall : c.ref \in Ref /\ c.shares \in Count
  /\ \A c \in ReplaceCall : c.ref \in Ref /\ c.new \in Ref /\ c.shares \in Count /\ c.price \in Price
BY CountsAreNumbers DEF AddCall, ExecuteCall, ReduceCall, ReplaceCall

-----------------------------------------------------------------------------
(* The inductive invariant.                                                *)

IInv == Sound(object, levels, m_orders, duplicated)

\* An order that rests has a share counter, and is alive.
LEMMA KnownParts ==
  ASSUME IInv, NEW ref, Known(ref)
  PROVE  /\ ref \in DOMAIN m_orders /\ m_orders[ref] \in DOMAIN object
         /\ m_orders[ref] \in 1 .. MaxOrders
         /\ object[m_orders[ref]] \in Order /\ SharesOf(ref) \in Count
BY DEF IInv, Sound, Known, SharesOf, Order

\* An empty book is sound.
LEMMA InitSound == Init => IInv
<1> SUFFICES ASSUME Init PROVE IInv
  OBVIOUS
<1>1. \A S : DOMAIN << >> = {} /\ << >> \in [{} -> S]
  OBVIOUS
<1> QED
  BY <1>1 DEF Init, IInv, Sound

\* An add takes a fresh object.
LEMMA HandleAddSound ==
  ASSUME IInv, NEW c, HandleAdd(c)
  PROVE  IInv'
<1>1. c \in AddCall /\ Free # {} /\ Free \subseteq Nat
  BY DEF HandleAdd, Free
<1>2. Min(Free) \in (1 .. MaxOrders) \ DOMAIN object
  BY <1>1, LeastNumber DEF Free
<1> DEFINE a == add_order(State, Min(Free), c.ref, c.side, c.shares, c.price)
<1>3. Sound(a.object, a.levels, a.m_orders,
            IF c.ref \in DOMAIN m_orders THEN duplicated \cup {c.ref} ELSE duplicated)
  BY <1>1, <1>2, AddOrderSound, CallParts DEF IInv, State
<1> HIDE DEF a
<1>4. /\ object' = a.object /\ levels' = a.levels /\ m_orders' = a.m_orders
      /\ duplicated' = IF c.ref \in DOMAIN m_orders THEN duplicated \cup {c.ref} ELSE duplicated
  BY DEF HandleAdd, Becomes, Known, a
<1> QED
  BY <1>3, <1>4 DEF IInv

\* Executions and cancellations take shares from an order.
LEMMA TakeSound ==
  ASSUME IInv, NEW ref, NEW n \in Count, duplicated' = duplicated,
         IF Known(ref) THEN Becomes(remove_order(State, ref, n)) ELSE UNCHANGED book
  PROVE  IInv'
<1>1. CASE Known(ref)
  <2> DEFINE r == remove_order(State, ref, n)
  <2>1. Sound(r.object, r.levels, r.m_orders, duplicated)
    BY <1>1, KnownParts, RemoveSound DEF IInv, State
  <2> HIDE DEF r
  <2>2. object' = r.object /\ levels' = r.levels /\ m_orders' = r.m_orders
    BY <1>1 DEF Becomes, r
  <2> QED
    BY <2>1, <2>2 DEF IInv
<1>2. CASE ~ Known(ref)
  BY <1>2 DEF IInv, book
<1> QED
  BY <1>1, <1>2

\* A replace frees an object before it takes one.
LEMMA HandleReplaceSound ==
  ASSUME IInv, NEW c, HandleReplace(c)
  PROVE  IInv'
<1>1. c \in ReplaceCall
  BY DEF HandleReplace
<1>2. CASE Known(c.ref)
  <2> DEFINE old  == object[m_orders[c.ref]]
             gone == remove_order(State, c.ref, old.shares)
             id   == Min((1 .. MaxOrders) \ DOMAIN gone.object)
             a    == add_order(gone, id, c.new, old.side, c.shares, c.price)
             E    == IF c.new \in DOMAIN gone.m_orders THEN duplicated \cup {c.new} ELSE duplicated
  <2>1. /\ c.ref \in DOMAIN m_orders /\ m_orders[c.ref] \in DOMAIN object
        /\ m_orders[c.ref] \in 1 .. MaxOrders
        /\ old \in Order /\ old.shares \in Count /\ old.side \in Side
    BY <1>2, KnownParts DEF Order
  <2>2. /\ Sound(gone.object, gone.levels, gone.m_orders, duplicated)
        /\ gone = [object |-> gone.object, levels |-> gone.levels, m_orders |-> gone.m_orders]
        /\ DOMAIN gone.object = DOMAIN object \ {m_orders[c.ref]}
    BY <2>1, RemoveSound DEF IInv, State
  <2> HIDE DEF gone
  <2>3. id \in (1 .. MaxOrders) \ DOMAIN gone.object
    <3>1. m_orders[c.ref] \in (1 .. MaxOrders) \ DOMAIN gone.object
      BY <2>1, <2>2
    <3> QED
      BY <3>1, LeastNumber
  <2> HIDE DEF id, old
  <2>4. Sound(a.object, a.levels, a.m_orders, E)
    BY <1>1, <2>1, <2>2, <2>3, AddOrderSound, CallParts
  <2>5. /\ object' = a.object /\ levels' = a.levels /\ m_orders' = a.m_orders
        /\ duplicated' = E
    BY <1>2 DEF HandleReplace, Becomes, old, gone, id
  <2> HIDE DEF a, E
  <2> QED
    BY <2>4, <2>5 DEF IInv
<1>3. CASE ~ Known(c.ref)
  BY <1>3 DEF HandleReplace, IInv, book
<1> QED
  BY <1>2, <1>3

\* Every message keeps the invariant.
LEMMA StepSound == IInv /\ [Next]_vars => IInv'
<1> SUFFICES ASSUME IInv, [Next]_vars PROVE IInv'
  OBVIOUS
<1>1. ASSUME NEW c \in AddCall, HandleAdd(c) PROVE IInv'
  BY <1>1, HandleAddSound
<1>2. ASSUME NEW c \in ExecuteCall \cup ReduceCall, HandleTake(c) PROVE IInv'
  <2>1. c.shares \in Count
    BY CallParts
  <2>2. /\ duplicated' = duplicated
        /\ IF Known(c.ref) THEN Becomes(remove_order(State, c.ref, c.shares)) ELSE UNCHANGED book
    BY <1>2 DEF HandleTake
  <2> QED
    BY <2>1, <2>2, TakeSound
<1>3. ASSUME NEW c \in DeleteCall, HandleDelete(c) PROVE IInv'
  <2>1. CASE Known(c.ref)
    <3>1. SharesOf(c.ref) \in Count
      BY <2>1, KnownParts
    <3>2. /\ duplicated' = duplicated
          /\ IF Known(c.ref) THEN Becomes(remove_order(State, c.ref, SharesOf(c.ref)))
             ELSE UNCHANGED book
      BY <1>3 DEF HandleDelete
    <3> QED
      BY <3>1, <3>2, TakeSound
  <2>2. CASE ~ Known(c.ref)
    BY <1>3, <2>2 DEF HandleDelete, IInv, book
  <2> QED
    BY <2>1, <2>2
<1>4. ASSUME NEW c \in ReplaceCall, HandleReplace(c) PROVE IInv'
  BY <1>4, HandleReplaceSound
<1>5. CASE UNCHANGED vars
  BY <1>5 DEF vars, book, IInv
<1> QED
  BY <1>1, <1>2, <1>3, <1>4, <1>5 DEF Next

\* What the invariant says of the book.
LEMMA SoundIsEnough == IInv => LegacyBookIsSound
<1> SUFFICES ASSUME IInv PROVE LegacyBookIsSound
  OBVIOUS
<1>1. TypeOK
  BY DEF IInv, Sound, TypeOK, Order, Level, Count
<1>2. IteratorsAreValid
  <2>1. \A ref \in DOMAIN m_orders : /\ m_orders[ref] \in DOMAIN object
                                     /\ object[m_orders[ref]].ref = ref
    BY DEF IInv, Sound
  <2>2. ASSUME NEW id \in DOMAIN object
        PROVE  LET l == LineOf(object[id])
               IN l \in DOMAIN levels /\ Contains(levels[l].orders, id)
    BY DEF IInv, Sound, Listed, Contains
  <2>3. ASSUME NEW l \in DOMAIN levels
        PROVE  /\ levels[l].orders # << >>
               /\ IsInjective(levels[l].orders)
               /\ \A id \in Range(levels[l].orders) :
                    id \in DOMAIN object /\ LineOf(object[id]) = l
    <3>1. levels[l].orders # << >> /\ Queued(object, l, levels[l])
      BY DEF IInv, Sound
    <3>2. DOMAIN levels[l].orders = 1 .. Len(levels[l].orders)
      BY <3>1, QueuedParts
    <3>3. IsInjective(levels[l].orders)
      BY <3>1, <3>2 DEF Queued, IsInjective
    <3>4. ASSUME NEW id \in Range(levels[l].orders)
          PROVE  id \in DOMAIN object /\ LineOf(object[id]) = l
      <4>1. PICK i \in 1 .. Len(levels[l].orders) : levels[l].orders[i] = id
        BY <3>2 DEF Range
      <4> QED
        BY <3>1, <4>1 DEF Queued
    <3> QED
      BY <3>1, <3>3, <3>4
  <2> QED
    BY <2>1, <2>2, <2>3 DEF IteratorsAreValid
<1>3. TotalsAreSums
  BY DEF IInv, Sound, Queued, TotalsAreSums
<1>4. UnreachableOnlyIfDuplicated
  BY DEF IInv, Sound, UnreachableOnlyIfDuplicated, Known
<1> QED
  BY <1>1, <1>2, <1>3, <1>4 DEF LegacyBookIsSound

\* On any feed, also one that reuses reference numbers and takes more shares than rest, no
\* kept iterator or level pointer dangles, a level's total is the sum of its orders' share
\* counters, and an order becomes unreachable only through a second add of its number.
THEOREM Soundness == Spec => []LegacyBookIsSound
BY InitSound, StepSound, SoundIsEnough, PTL DEF Spec

-----------------------------------------------------------------------------
(* The refinement of BookSpec, on feeds that keep the rules: then no       *)
(* number is duplicated, and every live order is found by its number.      *)

Entry == [reference_number : Ref, shares : Count]
ShownList(O, w) == [i \in DOMAIN w |-> Shown(O[w[i]])]

\* The list of a line holds the live orders of that line, each once and each reachable.
LEMMA ListOfLine ==
  ASSUME NEW O, NEW L, NEW M, Sound(O, L, M, {}), NEW l \in Line
  PROVE  LET w == Orders(L, l)
         IN  /\ w \in Seq(1 .. MaxOrders) /\ Len(w) \in Nat /\ DOMAIN w = 1 .. Len(w)
             /\ \A i, j \in 1 .. Len(w) : w[i] = w[j] => i = j
             /\ \A i \in 1 .. Len(w) :
                  /\ w[i] \in DOMAIN O /\ O[w[i]] \in Order /\ LineOf(O[w[i]]) = l
                  /\ O[w[i]].ref \in DOMAIN M /\ M[O[w[i]].ref] = w[i]
<1> DEFINE w == Orders(L, l)
<1>1. /\ w \in Seq(1 .. MaxOrders)
      /\ \A i, j \in 1 .. Len(w) : w[i] = w[j] => i = j
      /\ \A i \in 1 .. Len(w) : w[i] \in DOMAIN O /\ O[w[i]] \in Order /\ LineOf(O[w[i]]) = l
  <2>1. CASE l \in DOMAIN L
    <3>1. w = L[l].orders /\ Queued(O, l, L[l])
      BY <2>1 DEF Orders, Sound
    <3>2. w \in Seq(1 .. MaxOrders)
      BY <3>1, QueuedParts
    <3> QED
      BY <3>1, <3>2 DEF Queued
  <2>2. CASE l \notin DOMAIN L
    <3>1. w = << >>
      BY <2>2 DEF Orders
    <3>2. Len(<< >>) = 0 /\ << >> \in Seq(1 .. MaxOrders)
      BY EmptySeq
    <3> HIDE DEF w
    <3> QED
      BY <3>1, <3>2
  <2> QED
    BY <2>1, <2>2
<1> HIDE DEF w
<1>2. Len(w) \in Nat /\ DOMAIN w = 1 .. Len(w)
  BY <1>1, LenProperties
<1>3. \A id \in DOMAIN O : O[id].ref \in DOMAIN M /\ M[O[id].ref] = id
  BY DEF Sound
<1> QED
  BY <1>1, <1>2, <1>3 DEF w

\* A live order is in the list of its line.
LEMMA LiveIsListed ==
  ASSUME NEW O, NEW L, NEW M, Sound(O, L, M, {}), NEW ref \in DOMAIN M
  PROVE  LET id == M[ref]  l == LineOf(O[id])  w == Orders(L, l)
         IN  /\ id \in DOMAIN O /\ O[id] \in Order /\ O[id].ref = ref /\ l \in Line
             /\ l \in DOMAIN L /\ w = L[l].orders
             /\ PlaceOf(w, id) \in 1 .. Len(w) /\ w[PlaceOf(w, id)] = id
<1> DEFINE id == M[ref]  l == LineOf(O[id])  w == Orders(L, l)
<1>1. /\ id \in DOMAIN O /\ O[id] \in Order /\ O[id].ref = ref
      /\ l \in DOMAIN L /\ Listed(L[l], id)
  BY DEF Sound
<1>2. l \in Line /\ w = L[l].orders
  BY <1>1 DEF Sound, Orders
<1> HIDE DEF id, l
<1>3. DOMAIN w = 1 .. Len(w)
  BY <1>2, ListOfLine
<1>4. \E i \in 1 .. Len(w) : w[i] = id
  BY <1>1, <1>2 DEF Listed
<1> HIDE DEF w
<1>5. PlaceOf(w, id) \in 1 .. Len(w) /\ w[PlaceOf(w, id)] = id
  BY <1>3, <1>4, PlaceOfListed
<1> QED
  BY <1>1, <1>2, <1>5 DEF id, l, w

\* The queue of a line shows its list.
LEMMA QueueOfLine ==
  ASSUME NEW O, NEW L, NEW M, Sound(O, L, M, {}), NEW l \in Line
  PROVE  /\ Queues(O, L)[l] = ShownList(O, Orders(L, l))
         /\ DOMAIN Queues(O, L)[l] = 1 .. Len(Orders(L, l))
         /\ \A i \in 1 .. Len(Orders(L, l)) :
              /\ Queues(O, L)[l][i] = Shown(O[Orders(L, l)[i]])
              /\ Queues(O, L)[l][i] \in Entry
         /\ Queues(O, L)[l] \in Seq(Entry)
         /\ Len(Queues(O, L)[l]) = Len(Orders(L, l))
<1> DEFINE w == Orders(L, l)  q == Queues(O, L)[l]
<1>1. /\ Len(w) \in Nat /\ DOMAIN w = 1 .. Len(w)
      /\ \A i \in 1 .. Len(w) : O[w[i]] \in Order
  BY ListOfLine
<1>2. q = ShownList(O, w)
  BY DEF Queues, ShownList
<1> HIDE DEF w, q
<1>3. q = [i \in 1 .. Len(w) |-> Shown(O[w[i]])]
  BY <1>1, <1>2 DEF ShownList
<1>4. \A i \in 1 .. Len(w) : Shown(O[w[i]]) \in Entry
  BY <1>1 DEF Shown, Entry, Order
<1>5. q \in [1 .. Len(w) -> Entry]
  BY <1>3, <1>4
<1>6. q \in Seq(Entry) /\ Len(q) = Len(w)
  <2>1. q \in Seq(Entry)
    BY <1>1, <1>5, SeqDef
  <2>2. Len(q) \in Nat /\ DOMAIN q = 1 .. Len(q)
    BY <2>1, LenProperties
  <2>3. DOMAIN q = 1 .. Len(w)
    BY <1>3
  <2>4. ASSUME NEW a \in Nat, NEW b \in Nat, 1 .. a = 1 .. b PROVE a = b
    <3>1. a \in 1 .. a => a \in 1 .. b
      BY <2>4
    <3>2. b \in 1 .. b => b \in 1 .. a
      BY <2>4
    <3> QED
      BY <3>1, <3>2
  <2> QED
    BY <1>1, <2>1, <2>2, <2>3, <2>4
<1> QED
  BY <1>2, <1>3, <1>4, <1>6 DEF w, q

\* Where the abstract book finds an order is where its iterator leads.
LEMMA PlaceOfOrder ==
  ASSUME NEW O, NEW L, NEW M, Sound(O, L, M, {}), NEW ref
  PROVE  LET q  == Queues(O, L)
             id == M[ref]
             l  == LineOf(O[id])
         IN  /\ Abstract!Rests(q, ref) <=> ref \in DOMAIN M
             /\ ref \in DOMAIN M =>
                  /\ Abstract!LineOf(q, ref) = l
                  /\ Abstract!PlaceOf(q[l], ref) = PlaceOf(Orders(L, l), id)
<1> DEFINE q  == Queues(O, L)
           id == M[ref]
           l  == LineOf(O[id])
           p  == PlaceOf(Orders(L, l), id)
<1>1. Abstract!Line = Line
  BY DEF Line, Abstract!Line, Side, Abstract!Side
<1>2. ASSUME NEW k \in Line, NEW i \in 1 .. Len(Orders(L, k)),
             q[k][i].reference_number = ref
      PROVE  ref \in DOMAIN M /\ k = l /\ i = p
  <2>1. /\ q[k][i] = Shown(O[Orders(L, k)[i]])
        /\ Orders(L, k)[i] \in DOMAIN O /\ LineOf(O[Orders(L, k)[i]]) = k
        /\ O[Orders(L, k)[i]].ref \in DOMAIN M /\ M[O[Orders(L, k)[i]].ref] = Orders(L, k)[i]
        /\ \A a, b \in 1 .. Len(Orders(L, k)) : Orders(L, k)[a] = Orders(L, k)[b] => a = b
    BY QueueOfLine, ListOfLine
  <2>2. O[Orders(L, k)[i]].ref = ref
    BY <1>2, <2>1 DEF Shown
  <2>3. ref \in DOMAIN M /\ Orders(L, k)[i] = id /\ k = l
    BY <2>1, <2>2
  <2>4. p \in 1 .. Len(Orders(L, l)) /\ Orders(L, l)[p] = id
    BY <2>3, LiveIsListed
  <2> QED
    BY <2>1, <2>3, <2>4
<1>3. ASSUME ref \in DOMAIN M
      PROVE  /\ l \in Line /\ p \in 1 .. Len(Orders(L, l))
             /\ q[l][p].reference_number = ref
  <2>1. /\ l \in Line /\ p \in 1 .. Len(Orders(L, l))
        /\ Orders(L, l)[p] = id /\ O[id].ref = ref
    BY <1>3, LiveIsListed
  <2>2. q[l][p] = Shown(O[id])
    <3> HIDE DEF l, p, id, q
    <3> QED
      BY <2>1, QueueOfLine DEF q
  <2> QED
    BY <2>1, <2>2 DEF Shown
<1>4. \A k \in Line : DOMAIN q[k] = 1 .. Len(Orders(L, k))
  BY QueueOfLine
<1> HIDE DEF q, l, p, id
<1>5. \A k \in Line : Abstract!Holds(q[k], ref) <=> ref \in DOMAIN M /\ k = l
  BY <1>2, <1>3, <1>4 DEF Abstract!Holds
<1>6. Abstract!Rests(q, ref) <=> ref \in DOMAIN M
  BY <1>1, <1>3, <1>5 DEF Abstract!Rests
<1>7. ASSUME ref \in DOMAIN M
      PROVE  Abstract!LineOf(q, ref) = l /\ Abstract!PlaceOf(q[l], ref) = p
  <2>1. Abstract!LineOf(q, ref) = l
    BY <1>1, <1>3, <1>5, <1>7 DEF Abstract!LineOf
  <2>2. Abstract!PlaceOf(q[l], ref) = p
    BY <1>2, <1>3, <1>4, <1>7 DEF Abstract!PlaceOf
  <2> QED
    BY <2>1, <2>2
<1> QED
  BY <1>6, <1>7 DEF q, l, p, id

\* Two books with the same lists and objects on all lines but one show the same there.
LEMMA QueuesExcept ==
  ASSUME NEW O, NEW L, NEW M, Sound(O, L, M, {}), NEW P, NEW K, NEW line \in Line, NEW s,
         \A l \in Line : l # line => Orders(K, l) = Orders(L, l),
         \A id \in DOMAIN O : LineOf(O[id]) # line => P[id] = O[id],
         ShownList(P, Orders(K, line)) = s
  PROVE  Queues(P, K) = [Queues(O, L) EXCEPT ![line] = s]
<1>1. ASSUME NEW l \in Line, l # line PROVE ShownList(P, Orders(K, l)) = ShownList(O, Orders(L, l))
  <2>1. Orders(K, l) = Orders(L, l)
    BY <1>1
  <2>2. \A i \in DOMAIN Orders(L, l) : P[Orders(L, l)[i]] = O[Orders(L, l)[i]]
    BY <1>1, ListOfLine
  <2> QED
    BY <2>1, <2>2 DEF ShownList
<1>2. ASSUME NEW A, NEW B PROVE Queues(A, B) = [l \in Line |-> ShownList(A, Orders(B, l))]
  BY DEF Queues, ShownList
<1> QED
  BY <1>1, <1>2

\* add_order shows as a new order at the end of a queue.
LEMMA AddEffect ==
  ASSUME NEW O, NEW L, NEW M, Sound(O, L, M, {}), NEW id \in (1 .. MaxOrders) \ DOMAIN O,
         NEW ref \in Ref, ref \notin DOMAIN M,
         NEW side \in Side, NEW shares \in Count, NEW price \in Price
  PROVE  LET a == add_order([object |-> O, levels |-> L, m_orders |-> M],
                            id, ref, side, shares, price)
         IN  /\ Sound(a.object, a.levels, a.m_orders, {})
             /\ Queues(a.object, a.levels)
                  = Abstract!Added(Queues(O, L), ref, side, shares, price)
<1> DEFINE a == add_order([object |-> O, levels |-> L, m_orders |-> M],
                          id, ref, side, shares, price)
           line == <<side, price>>
           o == [ref |-> ref, side |-> side, price |-> price, shares |-> shares]
           w == Orders(L, line)
           v == Append(w, id)
           q == Queues(O, L)
           P == With(O, id, o)
           K == a.levels
<1>1. Sound(a.object, K, a.m_orders, {})
  <2>1. (IF ref \in DOMAIN M THEN {} \cup {ref} ELSE {}) = {}
    OBVIOUS
  <2> QED
    BY <2>1, AddOrderSound
<1>2. /\ line \in Line /\ LineOf(o) = line /\ a.object = P
      /\ Orders(K, line) = v /\ \A l \in Line : l # line => Orders(K, l) = Orders(L, l)
  BY DEF Line, LineOf, add_order, With, Orders, NewLevel
<1>3. /\ P[id] = o /\ \A x \in DOMAIN O : x # id /\ P[x] = O[x]
  BY DEF With
<1>4. Shown(o) = Abstract!Order(ref, shares) /\ Shown(o) \in Entry
  BY DEF Shown, Abstract!Order, Entry
<1>5. /\ w \in Seq(1 .. MaxOrders) /\ Len(w) \in Nat /\ DOMAIN w = 1 .. Len(w)
      /\ \A i \in 1 .. Len(w) : w[i] \in DOMAIN O
      /\ q[line] \in Seq(Entry) /\ Len(q[line]) = Len(w)
      /\ \A i \in 1 .. Len(w) : q[line][i] = Shown(O[w[i]])
  <2> HIDE DEF line, w, q
  <2> QED
    BY <1>2, ListOfLine, QueueOfLine DEF w, q
<1> HIDE DEF a, line, o, q, P, K, w, v
<1>6. /\ v \in Seq(1 .. MaxOrders) /\ Len(v) = Len(w) + 1 /\ DOMAIN v = 1 .. Len(w) + 1
      /\ \A i \in 1 .. Len(w) : v[i] = w[i]
      /\ v[Len(w) + 1] = id
  <2>1. v \in Seq(1 .. MaxOrders) /\ Len(v) = Len(w) + 1
        /\ (\A i \in 1 .. Len(w) : v[i] = w[i]) /\ v[Len(w) + 1] = id
    BY <1>5, AppendProperties DEF v
  <2> QED
    BY <2>1, LenProperties
<1>7. ShownList(P, v) = Append(q[line], Shown(o))
  <2> DEFINE s == ShownList(P, v)  t == Append(q[line], Shown(o))
  <2>1. /\ t \in Seq(Entry) /\ Len(t) = Len(w) + 1 /\ DOMAIN t = 1 .. Len(w) + 1
        /\ \A i \in 1 .. Len(w) : t[i] = q[line][i]
        /\ t[Len(w) + 1] = Shown(o)
    <3>1. /\ t \in Seq(Entry) /\ Len(t) = Len(w) + 1
          /\ \A i \in 1 .. Len(w) : t[i] = q[line][i]
          /\ t[Len(w) + 1] = Shown(o)
      BY <1>4, <1>5, AppendProperties
    <3> HIDE DEF t
    <3> QED
      BY <3>1, LenProperties
  <2> HIDE DEF t
  <2>2. s = [i \in 1 .. Len(w) + 1 |-> Shown(P[v[i]])]
    BY <1>6 DEF ShownList
  <2>3. ASSUME NEW i \in 1 .. Len(w) + 1 PROVE Shown(P[v[i]]) = t[i]
    <3>1. CASE i = Len(w) + 1
      BY <1>3, <1>6, <2>1, <3>1
    <3>2. CASE i # Len(w) + 1
      <4>1. i \in 1 .. Len(w)
        BY <1>5, <3>2
      <4> QED
        BY <1>3, <1>5, <1>6, <2>1, <4>1
    <3> QED
      BY <3>1, <3>2
  <2>4. t = [i \in 1 .. Len(w) + 1 |-> t[i]]
    <3>1. t \in [1 .. Len(t) -> Entry]
      BY <2>1, LenProperties
    <3> QED
      BY <2>1, <3>1
  <2>5. s = t
    BY <2>2, <2>3, <2>4
  <2> QED
    BY <2>5 DEF t
<1>8. Queues(P, K) = [q EXCEPT ![line] = Append(q[line], Shown(o))]
  BY <1>2, <1>3, <1>7, QueuesExcept DEF q
<1>9. ~ Abstract!Rests(q, ref)
  BY PlaceOfOrder DEF q
<1>10. Queues(P, K) = Abstract!Added(q, ref, side, shares, price)
  <2>1. [q EXCEPT ![line] = Append(q[line], Shown(o))] = [q EXCEPT ![line] = Append(@, Shown(o))]
    OBVIOUS
  <2> QED
    BY <1>4, <1>8, <1>9, <2>1 DEF Abstract!Added, line
<1> QED
  BY <1>1, <1>2, <1>10 DEF a, K, q

\* A list without one of its orders shows as the queue without that order's entry.
LEMMA RemovedShown ==
  ASSUME NEW O, NEW L, NEW M, Sound(O, L, M, {}), NEW l \in Line,
         NEW p \in 1 .. Len(Orders(L, l)), NEW P,
         \A i \in 1 .. Len(Orders(L, l)) :
           i # p => P[Orders(L, l)[i]] = O[Orders(L, l)[i]]
  PROVE  ShownList(P, RemoveAt(Orders(L, l), p)) = RemoveAt(Queues(O, L)[l], p)
<1> DEFINE w == Orders(L, l)  q == Queues(O, L)[l]
           v == RemoveAt(w, p)  t == RemoveAt(q, p)  n == Len(w) - 1
<1>1. /\ w \in Seq(1 .. MaxOrders) /\ Len(w) \in Nat
      /\ q \in Seq(Entry) /\ Len(q) = Len(w)
      /\ \A i \in 1 .. Len(w) : q[i] = Shown(O[w[i]])
  BY ListOfLine, QueueOfLine
<1>2. \A i \in 1 .. Len(w) : i # p => P[w[i]] = O[w[i]]
  OBVIOUS
<1> HIDE DEF w, q
<1>3. /\ v \in Seq(1 .. MaxOrders) /\ DOMAIN v = 1 .. n
      /\ \A j \in 1 .. n : v[j] = IF j < p THEN w[j] ELSE w[j + 1]
  BY <1>1, Removed, LenProperties DEF w
<1>4. /\ t \in [1 .. n -> Entry]
      /\ \A j \in 1 .. n : t[j] = IF j < p THEN q[j] ELSE q[j + 1]
  BY <1>1, Removed, LenProperties DEF w
<1> HIDE DEF v, t
<1>5. ASSUME NEW j \in 1 .. n PROVE Shown(P[v[j]]) = t[j]
  <2>1. p \in Int /\ j \in 1 .. Len(w) /\ j + 1 \in 1 .. Len(w)
    BY <1>1 DEF w
  <2>2. CASE j < p
    BY <1>1, <1>2, <1>3, <1>4, <2>1, <2>2
  <2>3. CASE ~ (j < p)
    <3>1. j + 1 # p
      BY <2>1, <2>3
    <3> QED
      BY <1>1, <1>2, <1>3, <1>4, <2>1, <2>3, <3>1
  <2> QED
    BY <2>2, <2>3
<1>6. ShownList(P, v) = [j \in 1 .. n |-> Shown(P[v[j]])]
  BY <1>3 DEF ShownList
<1>7. ShownList(P, v) = t
  BY <1>4, <1>5, <1>6
<1> QED
  BY <1>7 DEF v, t, w, q

\* An order that keeps shares after a fill keeps its place in its queue.
LEMMA TakenEffect ==
  ASSUME NEW O, NEW L, NEW M, Sound(O, L, M, {}), NEW ref \in DOMAIN M, NEW n \in Count,
         n < O[M[ref]].shares
  PROVE  Queues(TakenObjects(O, M[ref], n), TakenLevels(O, L, M[ref], n))
           = Abstract!Filled(Queues(O, L), ref, n)
<1> DEFINE id == M[ref]  line == LineOf(O[id])
           w == Orders(L, line)  p == PlaceOf(w, id)
           P == TakenObjects(O, id, n)  K == TakenLevels(O, L, id, n)
           q == Queues(O, L)  rest == O[id].shares - n
           e == Abstract!Order(ref, rest)
<1>1. /\ id \in DOMAIN O /\ O[id] \in Order /\ O[id].ref = ref /\ line \in Line
      /\ line \in DOMAIN L /\ w = L[line].orders /\ p \in 1 .. Len(w) /\ w[p] = id
      /\ L[line] \in Level
  <2>1. /\ id \in DOMAIN O /\ O[id] \in Order /\ O[id].ref = ref /\ line \in Line
        /\ line \in DOMAIN L /\ w = L[line].orders /\ p \in 1 .. Len(w) /\ w[p] = id
    BY LiveIsListed
  <2>2. L[line] \in Level
    <3> HIDE DEF id, line
    <3> QED
      BY <2>1 DEF Sound
  <2> QED
    BY <2>1, <2>2
<1>2. /\ w \in Seq(1 .. MaxOrders) /\ Len(w) \in Nat /\ DOMAIN w = 1 .. Len(w)
      /\ \A i, j \in 1 .. Len(w) : w[i] = w[j] => i = j
      /\ \A i \in 1 .. Len(w) : w[i] \in DOMAIN O
      /\ q[line] \in Seq(Entry) /\ Len(q[line]) = Len(w) /\ DOMAIN q[line] = 1 .. Len(w)
      /\ \A i \in 1 .. Len(w) : q[line][i] = Shown(O[w[i]])
  <2> HIDE DEF id, line, w, q
  <2> QED
    BY <1>1, ListOfLine, QueueOfLine DEF w, q
<1> HIDE DEF id, line, w, p, q, P, K
<1>3. /\ O[id].shares \in Count /\ n < O[id].shares /\ rest # 0
      /\ Wrap(O[id].shares - n) = rest
  <2>1. O[id].shares \in Count /\ n < O[id].shares
    BY <1>1 DEF Order, id
  <2>2. PICK m \in Nat : m = Modulus
    BY CountsAreNumbers
  <2> QED
    BY <2>1, <2>2 DEF Wrap, Count
<1>4. /\ P[id].ref = ref /\ P[id].shares = rest
      /\ \A x \in DOMAIN O : x # id => P[x] = O[x]
  BY <1>1, <1>3 DEF P, TakenObjects, Order
<1>5. Shown(P[id]) = e
  BY <1>4 DEF Shown, Abstract!Order
<1>6. \A l \in Line : Orders(K, l) = Orders(L, l)
  <2>1. DOMAIN K = DOMAIN L /\ \A l \in DOMAIN L : l # line => K[l] = L[l]
    BY DEF K, TakenLevels, line
  <2>2. K[line] = [L[line] EXCEPT !.total_shares = Wrap(@ - n)]
    BY <1>1 DEF K, TakenLevels, line
  <2>3. K[line].orders = L[line].orders
    BY <1>1, <2>2 DEF Level
  <2> QED
    BY <2>1, <2>3 DEF Orders
<1>7. ShownList(P, w) = [q[line] EXCEPT ![p] = e]
  <2>1. ASSUME NEW i \in 1 .. Len(w)
        PROVE  Shown(P[w[i]]) = IF i = p THEN e ELSE q[line][i]
    BY <1>1, <1>2, <1>4, <1>5
  <2>2. ShownList(P, w) = [i \in 1 .. Len(w) |-> Shown(P[w[i]])]
    BY <1>2 DEF ShownList
  <2>3. [q[line] EXCEPT ![p] = e] = [i \in 1 .. Len(w) |-> IF i = p THEN e ELSE q[line][i]]
    BY <1>2
  <2> QED
    BY <2>1, <2>2, <2>3
<1>8. Queues(P, K) = [q EXCEPT ![line] = [q[line] EXCEPT ![p] = e]]
  <2>1. ShownList(P, Orders(K, line)) = [q[line] EXCEPT ![p] = e]
    BY <1>1, <1>6, <1>7 DEF w
  <2>2. \A x \in DOMAIN O : LineOf(O[x]) # line => P[x] = O[x]
    BY <1>4 DEF line
  <2> QED
    BY <1>1, <1>6, <2>1, <2>2, QueuesExcept DEF q
<1>9. Abstract!Filled(q, ref, n) = [q EXCEPT ![line] = [q[line] EXCEPT ![p] = e]]
  <2>1. Abstract!Rests(q, ref) /\ Abstract!LineOf(q, ref) = line
        /\ Abstract!PlaceOf(q[line], ref) = p
    BY PlaceOfOrder DEF q, id, line, p, w
  <2>2. q[line][p] = Shown(O[id])
    BY <1>1, <1>2
  <2>3. Abstract!Left(q[line][p], n) = rest
    BY <1>3, <2>2 DEF Abstract!Left, Shown
  <2>4. [q EXCEPT ![line][p] = e] = [q EXCEPT ![line] = [q[line] EXCEPT ![p] = e]]
    OBVIOUS
  <2> QED
    BY <1>3, <2>1, <2>3, <2>4 DEF Abstract!Filled
<1> QED
  BY <1>8, <1>9 DEF P, K, q, id

\* An order that loses its last shares leaves its queue, and the orders behind it move up.
LEMMA GoneEffect ==
  ASSUME NEW O, NEW L, NEW M, Sound(O, L, M, {}), NEW ref \in DOMAIN M, NEW n \in Count
  PROVE  LET id == M[ref]
         IN  Queues(Without(TakenObjects(O, id, n), id),
                    RestLevels(TakenLevels(O, L, id, n), LineOf(O[id]), id))
               = Abstract!Deleted(Queues(O, L), ref)
<1> DEFINE id == M[ref]  line == LineOf(O[id])
           w == Orders(L, line)  p == PlaceOf(w, id)
           P == Without(TakenObjects(O, id, n), id)
           K == TakenLevels(O, L, id, n)
           H == [K EXCEPT ![line].orders = RemoveAt(@, PlaceOf(@, id))]
           Z == RestLevels(K, line, id)
           q == Queues(O, L)
<1>1. /\ id \in DOMAIN O /\ line \in Line
      /\ line \in DOMAIN L /\ w = L[line].orders /\ p \in 1 .. Len(w) /\ w[p] = id
      /\ L[line] \in Level
  <2>1. /\ id \in DOMAIN O /\ line \in Line
        /\ line \in DOMAIN L /\ w = L[line].orders /\ p \in 1 .. Len(w) /\ w[p] = id
    BY LiveIsListed
  <2>2. L[line] \in Level
    <3> HIDE DEF id, line
    <3> QED
      BY <2>1 DEF Sound
  <2> QED
    BY <2>1, <2>2
<1>2. /\ \A i, j \in 1 .. Len(w) : w[i] = w[j] => i = j
      /\ \A i \in 1 .. Len(w) : w[i] \in DOMAIN O
  <2> HIDE DEF id, line, w
  <2> QED
    BY <1>1, ListOfLine DEF w
<1>3. \A x \in DOMAIN O : x # id => P[x] = O[x]
  BY DEF Without, TakenObjects
<1>4. Z = IF H[line].orders = << >> THEN Without(H, line) ELSE H
  BY DEF RestLevels
<1> HIDE DEF id, line, w, p, P, Z, q
<1>5. /\ DOMAIN H = DOMAIN L /\ H[line].orders = RemoveAt(w, p)
      /\ \A l \in DOMAIN L : l # line => H[l] = L[l]
  <2>1. DOMAIN K = DOMAIN L /\ \A l \in DOMAIN L : l # line => K[l] = L[l]
    BY DEF TakenLevels, line
  <2>2. K[line] = [L[line] EXCEPT !.total_shares = Wrap(@ - n)]
    BY <1>1 DEF TakenLevels, line
  <2>3. K[line] \in [total_shares : {Wrap(L[line].total_shares - n)}, orders : {w}]
    BY <1>1, <2>2 DEF Level
  <2> HIDE DEF K
  <2>4. H[line] = [K[line] EXCEPT !.orders = RemoveAt(@, PlaceOf(@, id))]
    BY <1>1, <2>1
  <2>5. H[line].orders = RemoveAt(w, p)
    BY <2>3, <2>4 DEF p
  <2> QED
    BY <2>1, <2>5
<1> HIDE DEF H
<1>6. Orders(Z, line) = RemoveAt(w, p) /\ \A l \in Line : l # line => Orders(Z, l) = Orders(L, l)
  BY <1>1, <1>4, <1>5 DEF Orders, Without
<1>7. ShownList(P, Orders(Z, line)) = RemoveAt(q[line], p)
  <2>1. \A i \in 1 .. Len(w) : i # p => P[w[i]] = O[w[i]]
    BY <1>1, <1>2, <1>3
  <2>2. ShownList(P, RemoveAt(w, p)) = RemoveAt(q[line], p)
    <3>1. /\ p \in 1 .. Len(Orders(L, line))
          /\ \A i \in 1 .. Len(Orders(L, line)) :
               i # p => P[Orders(L, line)[i]] = O[Orders(L, line)[i]]
      BY <1>1, <2>1 DEF w
    <3> QED
      BY <1>1, <3>1, RemovedShown DEF w, q
  <2> QED
    BY <1>6, <2>2
<1>8. Queues(P, Z) = [q EXCEPT ![line] = RemoveAt(q[line], p)]
  <2>1. \A x \in DOMAIN O : LineOf(O[x]) # line => P[x] = O[x]
    BY <1>3 DEF line
  <2> QED
    BY <1>1, <1>6, <1>7, <2>1, QueuesExcept DEF q
<1>9. Abstract!Deleted(q, ref) = [q EXCEPT ![line] = RemoveAt(q[line], p)]
  <2>1. Abstract!Rests(q, ref) /\ Abstract!LineOf(q, ref) = line
        /\ Abstract!PlaceOf(q[line], ref) = p
    BY PlaceOfOrder DEF q, id, line, p, w
  <2>2. \A s, i : Abstract!RemoveAt(s, i) = RemoveAt(s, i)
    BY DEF RemoveAt, Abstract!RemoveAt
  <2>3. [q EXCEPT ![line] = RemoveAt(@, Abstract!PlaceOf(@, ref))]
          = [q EXCEPT ![line] = RemoveAt(q[line], p)]
    BY <2>1
  <2> QED
    BY <2>1, <2>2, <2>3 DEF Abstract!Deleted
<1> QED
  BY <1>8, <1>9 DEF P, Z, q, id, line

\* remove_order of no more than an order has: a fill, and a deletion when it is all of it.
LEMMA RemoveEffect ==
  ASSUME NEW O, NEW L, NEW M, Sound(O, L, M, {}), NEW ref \in DOMAIN M, NEW n \in Count,
         n <= O[M[ref]].shares
  PROVE  LET r == remove_order([object |-> O, levels |-> L, m_orders |-> M], ref, n)
             q == Queues(O, L)
         IN  /\ Queues(r.object, r.levels) = Abstract!Filled(q, ref, n)
             /\ n = O[M[ref]].shares => Queues(r.object, r.levels) = Abstract!Deleted(q, ref)
<1> DEFINE id == M[ref]
           r  == remove_order([object |-> O, levels |-> L, m_orders |-> M], ref, n)
           q  == Queues(O, L)
           P  == TakenObjects(O, id, n)
           K  == TakenLevels(O, L, id, n)
<1>1. /\ O[id] \in Order
      /\ P[id].shares = Wrap(O[id].shares - n)
      /\ r = IF P[id].shares # 0 THEN [object |-> P, levels |-> K, m_orders |-> M]
             ELSE [object   |-> Without(P, id),
                   levels   |-> RestLevels(K, LineOf(O[id]), id),
                   m_orders |-> Without(M, ref)]
  <2> HIDE DEF id
  <2> QED
    BY RemoveOrderIs DEF id
<1>2. /\ O[id].shares \in Nat /\ n \in Nat /\ n <= O[id].shares
      /\ P[id].shares = O[id].shares - n
  <2>1. O[id].shares \in Count /\ n <= O[id].shares
    <3> HIDE DEF id, P
    <3> QED
      BY <1>1 DEF Order, id
  <2>2. PICK m \in Nat : m = Modulus
    BY CountsAreNumbers
  <2> HIDE DEF id, P
  <2> QED
    BY <1>1, <2>1, <2>2 DEF Wrap, Count
<1>3. n < O[id].shares => Queues(P, K) = Abstract!Filled(q, ref, n)
  BY TakenEffect
<1>4. Queues(Without(P, id), RestLevels(K, LineOf(O[id]), id)) = Abstract!Deleted(q, ref)
  BY GoneEffect
<1>5. n = O[id].shares => Abstract!Filled(q, ref, n) = Abstract!Deleted(q, ref)
  <2> DEFINE l == LineOf(O[id])  p == PlaceOf(Orders(L, l), id)
  <2>1. /\ Abstract!Rests(q, ref) /\ Abstract!LineOf(q, ref) = l
        /\ Abstract!PlaceOf(q[l], ref) = p
    BY PlaceOfOrder
  <2>2. l \in Line /\ p \in 1 .. Len(Orders(L, l)) /\ Orders(L, l)[p] = id
    BY LiveIsListed
  <2> HIDE DEF id, l, p
  <2>3. q[l][p] = Shown(O[id])
    BY <2>2, QueueOfLine
  <2>4. n = O[id].shares => Abstract!Left(q[l][p], n) = 0
    BY <1>2, <2>3 DEF Abstract!Left, Shown
  <2> QED
    BY <2>1, <2>4 DEF Abstract!Filled
<1> HIDE DEF id, r, q, P, K
<1>6. CASE n < O[id].shares
  <2>1. P[id].shares # 0 /\ n # O[id].shares
    BY <1>2, <1>6
  <2>2. r.object = P /\ r.levels = K
    BY <1>1, <2>1
  <2> QED
    BY <1>3, <1>6, <2>1, <2>2 DEF r, q, id
<1>7. CASE n = O[id].shares
  <2>1. P[id].shares = 0
    BY <1>2, <1>7
  <2>2. r.object = Without(P, id) /\ r.levels = RestLevels(K, LineOf(O[id]), id)
    BY <1>1, <2>1
  <2> QED
    BY <1>4, <1>5, <1>7, <2>2 DEF r, q, id
<1> QED
  BY <1>2, <1>6, <1>7

\* The abstract book has an order exactly when m_orders has its number.
LEMMA RestsIsKnown ==
  ASSUME IInv, duplicated = {}, NEW ref
  PROVE  Abstract!Rests(Queues(object, levels), ref) <=> Known(ref)
BY PlaceOfOrder DEF IInv, Known

\* Adds of numbers that do not rest.
LEMMA AddRefines ==
  ASSUME IInv, duplicated = {}, NEW c, HandleAdd(c), ~ Known(c.ref)
  PROVE  /\ duplicated' = {}
         /\ Queues(object', levels')
              = Abstract!Added(Queues(object, levels), c.ref, c.side, c.shares, c.price)
<1>1. c \in AddCall /\ Free # {} /\ Free \subseteq Nat /\ duplicated' = duplicated
  BY DEF HandleAdd, Free
<1>2. Min(Free) \in (1 .. MaxOrders) \ DOMAIN object
  BY <1>1, LeastNumber DEF Free
<1> DEFINE a == add_order(State, Min(Free), c.ref, c.side, c.shares, c.price)
<1>3. Queues(a.object, a.levels)
        = Abstract!Added(Queues(object, levels), c.ref, c.side, c.shares, c.price)
  BY <1>1, <1>2, AddEffect, CallParts DEF IInv, State, Known
<1> HIDE DEF a
<1>4. object' = a.object /\ levels' = a.levels
  BY DEF HandleAdd, Becomes, a
<1> QED
  BY <1>1, <1>3, <1>4

\* Fills of no more than an order has, and deletions.
LEMMA TakeRefines ==
  ASSUME IInv, duplicated = {}, NEW ref, NEW n \in Count,
         Known(ref) => n <= SharesOf(ref),
         IF Known(ref) THEN Becomes(remove_order(State, ref, n)) ELSE UNCHANGED book
  PROVE  LET q == Queues(object, levels)
         IN  /\ Queues(object', levels') = Abstract!Filled(q, ref, n)
             /\ (Known(ref) => n = SharesOf(ref))
                  => Queues(object', levels') = Abstract!Deleted(q, ref)
<1>1. CASE Known(ref)
  <2> DEFINE r == remove_order(State, ref, n)  q == Queues(object, levels)
  <2>1. /\ Queues(r.object, r.levels) = Abstract!Filled(q, ref, n)
        /\ n = SharesOf(ref) => Queues(r.object, r.levels) = Abstract!Deleted(q, ref)
    BY <1>1, RemoveEffect DEF IInv, State, Known, SharesOf
  <2> HIDE DEF r, q
  <2>2. object' = r.object /\ levels' = r.levels
    BY <1>1 DEF Becomes, r
  <2> QED
    BY <1>1, <2>1, <2>2 DEF q
<1>2. CASE ~ Known(ref)
  <2>1. object' = object /\ levels' = levels
    BY <1>2 DEF book
  <2>2. ~ Abstract!Rests(Queues(object, levels), ref)
    BY <1>2, RestsIsKnown
  <2> QED
    BY <2>1, <2>2 DEF Abstract!Filled, Abstract!Deleted
<1> QED
  BY <1>1, <1>2

\* Replacements that give the order a number that does not rest, or its own.
LEMMA ReplaceRefines ==
  ASSUME IInv, duplicated = {}, NEW c, HandleReplace(c), c.new = c.ref \/ ~ Known(c.new)
  PROVE  /\ duplicated' = {}
         /\ Queues(object', levels')
              = Abstract!Replaced(Queues(object, levels), c.ref, c.new, c.shares, c.price)
<1>1. c \in ReplaceCall
  BY DEF HandleReplace
<1> DEFINE q == Queues(object, levels)
<1>2. CASE Known(c.ref)
  <2> DEFINE old  == object[m_orders[c.ref]]
             gone == remove_order(State, c.ref, old.shares)
             id   == Min((1 .. MaxOrders) \ DOMAIN gone.object)
             a    == add_order(gone, id, c.new, old.side, c.shares, c.price)
  <2>1. /\ c.ref \in DOMAIN m_orders /\ m_orders[c.ref] \in DOMAIN object
        /\ m_orders[c.ref] \in 1 .. MaxOrders
        /\ old \in Order /\ old.shares \in Count /\ old.side \in Side
    BY <1>2, KnownParts DEF Order
  <2>2. /\ Sound(gone.object, gone.levels, gone.m_orders, {})
        /\ gone = [object |-> gone.object, levels |-> gone.levels, m_orders |-> gone.m_orders]
        /\ DOMAIN gone.object = DOMAIN object \ {m_orders[c.ref]}
        /\ gone.m_orders = Without(m_orders, c.ref)
    BY <2>1, RemoveSound DEF IInv, State
  <2>3. Queues(gone.object, gone.levels) = Abstract!Deleted(q, c.ref)
    <3>1. old.shares <= old.shares
      BY <2>1 DEF Count
    <3> QED
      BY <2>1, <3>1, RemoveEffect DEF IInv, State
  <2> HIDE DEF gone
  <2>4. id \in (1 .. MaxOrders) \ DOMAIN gone.object
    <3>1. m_orders[c.ref] \in (1 .. MaxOrders) \ DOMAIN gone.object
      BY <2>1, <2>2
    <3> QED
      BY <3>1, LeastNumber
  <2>5. c.new \notin DOMAIN gone.m_orders
    BY <2>2 DEF Without, Known
  <2>6. Abstract!Rests(q, c.ref) /\ Abstract!LineOf(q, c.ref)[1] = old.side
    <3>1. Abstract!Rests(q, c.ref) /\ Abstract!LineOf(q, c.ref) = LineOf(old)
      BY <2>1, PlaceOfOrder DEF IInv
    <3> HIDE DEF q, old
    <3> QED
      BY <3>1 DEF LineOf
  <2> HIDE DEF id, old, q
  <2>7. Queues(a.object, a.levels)
          = Abstract!Added(Abstract!Deleted(q, c.ref), c.new, old.side, c.shares, c.price)
    BY <1>1, <2>1, <2>2, <2>3, <2>4, <2>5, AddEffect, CallParts
  <2>8. object' = a.object /\ levels' = a.levels /\ duplicated' = duplicated
    BY <1>2, <2>5 DEF HandleReplace, Becomes, old, gone, id
  <2> HIDE DEF a
  <2> QED
    BY <2>6, <2>7, <2>8 DEF Abstract!Replaced, q
<1>3. CASE ~ Known(c.ref)
  <2>1. object' = object /\ levels' = levels /\ duplicated' = duplicated
    BY <1>3 DEF HandleReplace, book
  <2>2. ~ Abstract!Rests(q, c.ref)
    BY <1>3, RestsIsKnown
  <2> QED
    BY <2>1, <2>2 DEF Abstract!Replaced
<1> QED
  BY <1>2, <1>3

\* A message that keeps the rules has its exact effect, and duplicates no number.
LEMMA StepRefines ==
  ASSUME IInv, duplicated = {}, NextByRules
  PROVE  /\ duplicated' = {} /\ call' \in Call
         /\ Queues(object', levels') = Abstract!Effect(Queues(object, levels), call')
<1> DEFINE q == Queues(object, levels)  r == Queues(object', levels')
<1>1. Next /\ KeepsRules(call')
  BY DEF NextByRules
<1>2. ASSUME NEW c \in AddCall, HandleAdd(c)
      PROVE  duplicated' = {} /\ call' \in Call /\ r = Abstract!Effect(q, call')
  <2>1. call' = c /\ c.op = "add"
    BY <1>2 DEF HandleAdd, AddCall
  <2>2. ~ Known(c.ref)
    BY <1>1, <2>1 DEF KeepsRules
  <2>3. duplicated' = {} /\ r = Abstract!Added(q, c.ref, c.side, c.shares, c.price)
    BY <1>2, <2>2, AddRefines
  <2> HIDE DEF q, r
  <2> QED
    BY <2>1, <2>3 DEF Abstract!Effect, Call
<1>3. ASSUME NEW c \in ExecuteCall \cup ReduceCall, HandleTake(c)
      PROVE  duplicated' = {} /\ call' \in Call /\ r = Abstract!Effect(q, call')
  <2>1. call' = c /\ c.op \in {"execute", "reduce"} /\ c.shares \in Count
    BY <1>3, CallParts DEF HandleTake, ExecuteCall, ReduceCall
  <2>2. Known(c.ref) => c.shares <= SharesOf(c.ref)
    BY <1>1, <2>1 DEF KeepsRules
  <2>3. /\ duplicated' = duplicated
        /\ IF Known(c.ref) THEN Becomes(remove_order(State, c.ref, c.shares)) ELSE UNCHANGED book
    BY <1>3 DEF HandleTake
  <2>4. r = Abstract!Filled(q, c.ref, c.shares)
    BY <2>1, <2>2, <2>3, TakeRefines
  <2> HIDE DEF q, r
  <2> QED
    BY <2>1, <2>3, <2>4 DEF Abstract!Effect, Call
<1>4. ASSUME NEW c \in DeleteCall, HandleDelete(c)
      PROVE  duplicated' = {} /\ call' \in Call /\ r = Abstract!Effect(q, call')
  <2>1. call' = c /\ c.op = "delete" /\ duplicated' = duplicated
    BY <1>4 DEF HandleDelete, DeleteCall
  <2>2. r = Abstract!Deleted(q, c.ref)
    <3>1. PICK n \in Count : n = IF Known(c.ref) THEN SharesOf(c.ref) ELSE 0
      BY KnownParts, CountsAreNumbers
    <3>2. IF Known(c.ref) THEN Becomes(remove_order(State, c.ref, n)) ELSE UNCHANGED book
      BY <1>4, <3>1 DEF HandleDelete
    <3>3. Known(c.ref) => n <= SharesOf(c.ref) /\ n = SharesOf(c.ref)
      BY <3>1 DEF Count
    <3> QED
      BY <3>2, <3>3, TakeRefines
  <2> HIDE DEF q, r
  <2> QED
    BY <2>1, <2>2 DEF Abstract!Effect, Call
<1>5. ASSUME NEW c \in ReplaceCall, HandleReplace(c)
      PROVE  duplicated' = {} /\ call' \in Call /\ r = Abstract!Effect(q, call')
  <2>1. call' = c /\ c.op = "replace"
    BY <1>5 DEF HandleReplace, ReplaceCall
  <2>2. c.new = c.ref \/ ~ Known(c.new)
    BY <1>1, <2>1 DEF KeepsRules
  <2>3. duplicated' = {} /\ r = Abstract!Replaced(q, c.ref, c.new, c.shares, c.price)
    BY <1>5, <2>2, ReplaceRefines
  <2> HIDE DEF q, r
  <2> QED
    BY <2>1, <2>3 DEF Abstract!Effect, Call
<1> QED
  BY <1>1, <1>2, <1>3, <1>4, <1>5 DEF Next

\* On a feed that keeps the exchange's rules the simple book implements the abstract book
\* of BookSpec, as L3Book does: exact quantities, time priority, and nothing else changes.
THEOREM Refinement == SpecByRules /\ [](part = "well_behaved") => LegacyImplementsBookSpec
<1> DEFINE RInv == IInv /\ duplicated = {}
           Here == part = "well_behaved"
           q    == Queues(object, levels)
<1>1. Init => RInv
  BY InitSound DEF Init
<1>2. RInv /\ [NextByRules]_vars => RInv'
  <2> SUFFICES ASSUME RInv, [NextByRules]_vars PROVE RInv'
    OBVIOUS
  <2>1. IInv'
    BY StepSound DEF NextByRules
  <2>2. duplicated' = {}
    BY StepRefines DEF vars
  <2> QED
    BY <2>1, <2>2
<1>3. Init /\ Here => Abstract!Init
  <2> SUFFICES ASSUME Init, Here PROVE Abstract!Init
    OBVIOUS
  <2>1. object = << >> /\ levels = << >> /\ call = Abstract!NoCall
    BY DEF Init, NoCall, Abstract!NoCall
  <2>2. DOMAIN << >> = {}
    OBVIOUS
  <2>3. \A l \in Line : Orders(levels, l) = << >>
    BY <2>1, <2>2 DEF Orders
  <2>4. q = [l \in Line |-> << >>]
    <3>1. ASSUME NEW l \in Line
          PROVE  [i \in DOMAIN Orders(levels, l) |-> Shown(object[Orders(levels, l)[i]])] = << >>
      <4>1. \A f : f = [i \in {} |-> Shown(object[Orders(levels, l)[i]])] => f = << >>
        OBVIOUS
      <4> QED
        BY <2>2, <2>3, <4>1
    <3> QED
      BY <3>1 DEF Queues
  <2>5. Abstract!Line = Line
    BY DEF Line, Abstract!Line, Side, Abstract!Side
  <2> HIDE DEF q
  <2> QED
    BY <2>1, <2>4, <2>5 DEF Abstract!Init, Abstract!NoOrders, q
<1>4. Abstract!Call = Call
  BY DEF Call, Abstract!Call, AddCall, Abstract!AddCall, ExecuteCall, Abstract!ExecuteCall,
     ReduceCall, Abstract!ReduceCall, DeleteCall, Abstract!DeleteCall,
     ReplaceCall, Abstract!ReplaceCall, Side, Abstract!Side, Shares, Abstract!Shares
<1>5. RInv /\ [NextByRules]_vars /\ Here /\ Here' =>
        [Abstract!Next]_<<IF part = "well_behaved" THEN Queues(object, levels)
                                                   ELSE Queues(<< >>, << >>),
                          IF part = "well_behaved" THEN call ELSE NoCall>>
  <2> SUFFICES ASSUME RInv, [NextByRules]_vars, Here, Here'
               PROVE  [Abstract!Next]_<<IF part = "well_behaved" THEN Queues(object, levels)
                                                                 ELSE Queues(<< >>, << >>),
                                        IF part = "well_behaved" THEN call ELSE NoCall>>
    OBVIOUS
  <2>1. CASE NextByRules
    <3>1. /\ call' \in Call
          /\ Queues(object', levels') = Abstract!Effect(q, call')
      BY <2>1, StepRefines
    <3> QED
      BY <1>4, <3>1 DEF Abstract!Next
  <2>2. CASE UNCHANGED vars
    <3>1. object' = object /\ levels' = levels /\ call' = call
      BY <2>2 DEF vars, book
    <3> QED
      BY <3>1
  <2> QED
    BY <2>1, <2>2
<1> QED
  BY <1>1, <1>2, <1>3, <1>5, PTL DEF SpecByRules, LegacyImplementsBookSpec, Abstract!Spec

-----------------------------------------------------------------------------
(* AuctionTracker.                                                         *)

\* The operators of Auctions over any feed, and over the sets of this module.
HeardIn(f, i)   == f[i].message.message_type = "Q" /\ f[i].heard
LeadingIn(f, l, n) == {j \in 1 .. n : /\ f[j].message.message_type = "I"
                                      /\ f[j].message.stock_locate = l}
ToldIn(f, i)    == Cardinality({j \in 1 .. i : HeardIn(f, j)})
InfoIn(f, l, n) == IF LeadingIn(f, l, n) = {} THEN Tracker!NoInfo
                   ELSE Tracker!make_imbalance_info(f[Tracker!Max(LeadingIn(f, l, n))].message)

LEMMA TrackerOperators ==
  /\ \A i : Tracker!Heard(i) <=> HeardIn(feed, i)
  /\ \A i : Tracker!Leading(i) = LeadingIn(feed, feed[i].message.stock_locate, i - 1)
  /\ \A i : Tracker!Told(i) = ToldIn(feed, i)
<1>1. \A S : Tracker!Cardinality(S) = Cardinality(S)
  BY DEF Tracker!Cardinality, Cardinality
<1>2. \A i : Tracker!Heard(i) <=> HeardIn(feed, i)
  BY DEF Tracker!Heard, HeardIn
<1> QED
  BY <1>1, <1>2 DEF Tracker!Leading, LeadingIn, Tracker!Told, ToldIn

\* A set of numbers up to n that is not empty has a greatest one, and Max finds it.
LEMMA GreatestNumber ==
  ASSUME NEW n \in Nat, NEW S, S \subseteq 1 .. n
  PROVE  /\ S # {} => Tracker!Max(S) \in S
         /\ \A m \in S : (\A x \in S : x <= m) => Tracker!Max(S) = m
<1>1. ASSUME S # {} PROVE \E m \in S : \A x \in S : m >= x
  <2> DEFINE T == {n - x : x \in S}
  <2>1. T \subseteq Nat /\ T # {}
    <3>1. ASSUME NEW x \in S PROVE n - x \in Nat
      <4>1. x \in 1 .. n
        OBVIOUS
      <4> QED
        BY <4>1
    <3> QED
      BY <1>1, <3>1
  <2>2. PICK t \in T : \A y \in T : t <= y
    <3> HIDE DEF T
    <3> QED
      BY <2>1, LeastElement
  <2>3. PICK m \in S : t = n - m
    BY <2>2
  <2>4. ASSUME NEW x \in S PROVE m >= x
    <3>1. n - m <= n - x
      BY <2>2, <2>3
    <3>2. m \in 1 .. n /\ x \in 1 .. n
      OBVIOUS
    <3> QED
      BY <3>1, <3>2
  <2> QED
    BY <2>4
<1>2. Tracker!Max(S) = CHOOSE m \in S : \A x \in S : m >= x
  BY DEF Tracker!Max
<1>3. ASSUME NEW m \in S, \A x \in S : x <= m PROVE Tracker!Max(S) = m
  <2>1. \A x \in S : m >= x
    BY <1>3
  <2>2. ASSUME NEW k \in S, \A x \in S : k >= x PROVE k = m
    BY <1>3, <2>2
  <2> QED
    BY <1>2, <2>1, <2>2
<1> QED
  BY <1>1, <1>2, <1>3

\* How many crosses were heard, message by message.
LEMMA ToldCounts ==
  ASSUME NEW f, NEW n \in Nat
  PROVE  /\ ToldIn(f, n) \in Nat /\ ToldIn(f, 0) = 0
         /\ ToldIn(f, n + 1) = IF HeardIn(f, n + 1) THEN ToldIn(f, n) + 1 ELSE ToldIn(f, n)
         /\ \A i \in 1 .. n : HeardIn(f, i) => ToldIn(f, i) \in 1 .. ToldIn(f, n)
<1> DEFINE S(i) == {j \in 1 .. i : HeardIn(f, j)}
<1>1. ASSUME NEW i \in Nat PROVE IsFiniteSet(S(i)) /\ Cardinality(S(i)) \in Nat
  <2>1. IsFiniteSet(1 .. i) /\ S(i) \in SUBSET (1 .. i)
    BY FS_Interval
  <2> HIDE DEF S
  <2> QED
    BY <2>1, FS_Subset, FS_CardinalityType
<1>2. \A i : ToldIn(f, i) = Cardinality(S(i))
  BY DEF ToldIn
<1>3. S(0) = {}
  OBVIOUS
<1>4. S(n + 1) = IF HeardIn(f, n + 1) THEN S(n) \cup {n + 1} ELSE S(n)
  OBVIOUS
<1>5. n + 1 \notin S(n)
  OBVIOUS
<1>6. ASSUME NEW i \in 1 .. n, HeardIn(f, i)
      PROVE  S(i) \in SUBSET S(n) /\ S(i) # {} /\ i \in Nat
  BY <1>6
<1> HIDE DEF S
<1>7. ToldIn(f, n + 1) = IF HeardIn(f, n + 1) THEN ToldIn(f, n) + 1 ELSE ToldIn(f, n)
  BY <1>1, <1>2, <1>4, <1>5, FS_AddElement
<1>8. ASSUME NEW i \in 1 .. n, HeardIn(f, i) PROVE ToldIn(f, i) \in 1 .. ToldIn(f, n)
  <2>1. Cardinality(S(i)) <= Cardinality(S(n)) /\ Cardinality(S(i)) # 0
    BY <1>1, <1>6, <1>8, FS_Subset, FS_EmptySet
  <2>2. Cardinality(S(i)) \in Nat /\ Cardinality(S(n)) \in Nat
    BY <1>1, <1>6, <1>8
  <2> QED
    BY <1>2, <2>1, <2>2
<1> QED
  BY <1>1, <1>2, <1>3, <1>7, <1>8, FS_EmptySet

\* What the first messages say does not change when others follow.
Agree(f, g, n) == \A i \in 1 .. n : g[i] = f[i]
LEMMA FeedAgrees ==
  ASSUME NEW f, NEW g, NEW n \in Nat, Agree(f, g, n)
  PROVE  /\ \A i \in 1 .. n : HeardIn(g, i) <=> HeardIn(f, i)
         /\ \A i \in 0 .. n : ToldIn(g, i) = ToldIn(f, i)
<1>1. \A i \in 1 .. n : HeardIn(g, i) <=> HeardIn(f, i)
  BY DEF HeardIn, Agree
<1>2. ASSUME NEW i \in 0 .. n PROVE ToldIn(g, i) = ToldIn(f, i)
  <2>1. {j \in 1 .. i : HeardIn(g, j)} = {j \in 1 .. i : HeardIn(f, j)}
    BY <1>1
  <2> QED
    BY <2>1 DEF ToldIn
<1> QED
  BY <1>1, <1>2

LEMMA InfoAgrees ==
  ASSUME NEW f, NEW g, NEW m \in Nat, Agree(f, g, m), NEW l
  PROVE  InfoIn(g, l, m) = InfoIn(f, l, m)
<1>1. LeadingIn(g, l, m) = LeadingIn(f, l, m) /\ LeadingIn(f, l, m) \subseteq 1 .. m
  BY DEF LeadingIn, Agree
<1>2. LeadingIn(f, l, m) # {} => Tracker!Max(LeadingIn(f, l, m)) \in 1 .. m
  BY <1>1, GreatestNumber
<1> QED
  BY <1>1, <1>2 DEF InfoIn, Agree

\* What a message adds to the imbalances.
LEMMA InfoGrows ==
  ASSUME NEW f, NEW l, NEW n \in Nat
  PROVE  InfoIn(f, l, n + 1) =
           IF f[n + 1].message.message_type = "I" /\ f[n + 1].message.stock_locate = l
           THEN Tracker!make_imbalance_info(f[n + 1].message) ELSE InfoIn(f, l, n)
<1>1. CASE f[n + 1].message.message_type = "I" /\ f[n + 1].message.stock_locate = l
  <2>1. /\ n + 1 \in LeadingIn(f, l, n + 1) /\ LeadingIn(f, l, n + 1) \subseteq 1 .. n + 1
        /\ \A x \in LeadingIn(f, l, n + 1) : x <= n + 1
    BY <1>1 DEF LeadingIn
  <2>2. Tracker!Max(LeadingIn(f, l, n + 1)) = n + 1
    BY <2>1, GreatestNumber, n + 1 \in Nat
  <2> QED
    BY <1>1, <2>1, <2>2 DEF InfoIn
<1>2. CASE ~ (f[n + 1].message.message_type = "I" /\ f[n + 1].message.stock_locate = l)
  <2>1. LeadingIn(f, l, n + 1) = LeadingIn(f, l, n)
    BY <1>2 DEF LeadingIn
  <2> QED
    BY <1>2, <2>1 DEF InfoIn
<1> QED
  BY <1>1, <1>2

\* The inductive invariant: the stored imbalance of a locate is the last it published.
Message == Tracker!NOIIMessage \cup Tracker!CrossTradeMessage \cup Tracker!OtherMessage
Paired  == {Tracker!Auction(c, i) : c \in Tracker!CrossTradeMessage,
                                    i \in {Tracker!NoInfo} \cup
                                          {Tracker!make_imbalance_info(m) : m \in Tracker!NOIIMessage}}
Follows(f, a, latest) ==
  /\ f \in Seq([message : Message, heard : BOOLEAN])
  /\ a \in Seq(Paired)
  /\ latest = [l \in Locate |-> InfoIn(f, l, Len(f))]
  /\ Len(a) = ToldIn(f, Len(f))
  /\ \A i \in 1 .. Len(f) : HeardIn(f, i) =>
       a[ToldIn(f, i)] =
         Tracker!Auction(f[i].message, InfoIn(f, f[i].message.stock_locate, i - 1))
TrackerInv == m_callback \in BOOLEAN /\ Follows(feed, auctions, m_latest_imbalance)

\* Infos are what a NOII message leaves, or nothing.
LEMMA InfoType ==
  ASSUME NEW f \in Seq([message : Message, heard : BOOLEAN]), NEW l, NEW n \in 0 .. Len(f)
  PROVE  InfoIn(f, l, n) \in {Tracker!NoInfo} \cup
           {Tracker!make_imbalance_info(m) : m \in Tracker!NOIIMessage}
<1>1. CASE LeadingIn(f, l, n) = {}
  BY <1>1 DEF InfoIn
<1>2. CASE LeadingIn(f, l, n) # {}
  <2> DEFINE j == Tracker!Max(LeadingIn(f, l, n))
  <2>1. n \in Nat /\ LeadingIn(f, l, n) \subseteq 1 .. n /\ Len(f) \in Nat
    BY DEF LeadingIn
  <2>2. j \in LeadingIn(f, l, n)
    BY <1>2, <2>1, GreatestNumber
  <2>3. j \in 1 .. Len(f) /\ f[j].message.message_type = "I"
    BY <2>1, <2>2 DEF LeadingIn
  <2>4. f[j] \in [message : Message, heard : BOOLEAN]
    BY <2>3, ElementOfSeq
  <2>5. f[j].message \in Tracker!NOIIMessage
    BY <2>3, <2>4 DEF Message, Tracker!NOIIMessage, Tracker!CrossTradeMessage,
       Tracker!OtherMessage
  <2> QED
    BY <1>2, <2>5 DEF InfoIn
<1> QED
  BY <1>1, <1>2

\* A message joins the feed; a cross that is heard joins the auctions.
LEMMA FollowsOn ==
  ASSUME NEW f, NEW a, NEW latest, Follows(f, a, latest),
         NEW message \in Message, NEW heard \in BOOLEAN, NEW b, NEW later,
         later = [l \in Locate |->
                    IF message.message_type = "I" /\ message.stock_locate = l
                    THEN Tracker!make_imbalance_info(message) ELSE latest[l]],
         b = IF message.message_type = "Q" /\ heard
             THEN Append(a, Tracker!Auction(message, latest[message.stock_locate])) ELSE a
  PROVE  Follows(Append(f, [message |-> message, heard |-> heard]), b, later)
<1> DEFINE e == [message |-> message, heard |-> heard]
           g == Append(f, e)
           n == Len(f)
           Entries == [message : Message, heard : BOOLEAN]
<1>1. /\ f \in Seq(Entries) /\ n \in Nat /\ e \in Entries
      /\ a \in Seq(Paired) /\ Len(a) \in Nat /\ Len(a) = ToldIn(f, n)
      /\ latest = [l \in Locate |-> InfoIn(f, l, n)]
      /\ \A i \in 1 .. n : HeardIn(f, i) =>
           a[ToldIn(f, i)] =
             Tracker!Auction(f[i].message, InfoIn(f, f[i].message.stock_locate, i - 1))
  BY DEF Follows
<1> HIDE DEF Entries, e
<1>2. /\ g \in Seq(Entries) /\ Len(g) = n + 1 /\ g[n + 1] = e
      /\ \A i \in 1 .. n : g[i] = f[i]
  BY <1>1, AppendProperties
<1>12. n \in Nat /\ Agree(f, g, n)
  BY <1>1, <1>2 DEF Agree
<1>3. e.message = message /\ e.heard = heard
  BY DEF e
<1> HIDE DEF g, n
<1>11. ASSUME NEW l PROVE InfoIn(g, l, n) = InfoIn(f, l, n)
  BY <1>12, InfoAgrees
<1>4. \A l \in Locate : later[l] = InfoIn(g, l, n + 1)
  <2>2. ASSUME NEW l
        PROVE  InfoIn(g, l, n + 1) =
                 IF message.message_type = "I" /\ message.stock_locate = l
                 THEN Tracker!make_imbalance_info(message) ELSE InfoIn(g, l, n)
    <3>1. InfoIn(g, l, n + 1) =
            IF g[n + 1].message.message_type = "I" /\ g[n + 1].message.stock_locate = l
            THEN Tracker!make_imbalance_info(g[n + 1].message) ELSE InfoIn(g, l, n)
      BY <1>12, InfoGrows
    <3> QED
      BY <1>2, <1>3, <3>1
  <2> QED
    BY <1>1, <1>11, <2>2
<1>5. later = [l \in Locate |-> InfoIn(g, l, n + 1)]
  BY <1>4
<1>6. /\ ToldIn(g, n) = ToldIn(f, n) /\ ToldIn(f, n) \in Nat
      /\ ToldIn(g, n + 1) = IF HeardIn(g, n + 1) THEN ToldIn(f, n) + 1 ELSE ToldIn(f, n)
  <2>1. ToldIn(g, n) = ToldIn(f, n)
    BY <1>12, FeedAgrees, n \in 0 .. n
  <2>2. ToldIn(f, n) \in Nat
    BY <1>1, ToldCounts
  <2>3. ToldIn(g, n + 1) = IF HeardIn(g, n + 1) THEN ToldIn(g, n) + 1 ELSE ToldIn(g, n)
    BY <1>1, ToldCounts
  <2> QED
    BY <2>1, <2>2, <2>3
<1>7. HeardIn(g, n + 1) <=> message.message_type = "Q" /\ heard
  BY <1>2, <1>3 DEF HeardIn
<1>8. ASSUME NEW i \in 1 .. n, HeardIn(g, i)
      PROVE  /\ ToldIn(g, i) \in 1 .. Len(a)
             /\ a[ToldIn(g, i)] =
                  Tracker!Auction(g[i].message, InfoIn(g, g[i].message.stock_locate, i - 1))
  <2>1. i \in 0 .. n /\ i - 1 \in 0 .. n
    BY <1>1
  <2>2. HeardIn(f, i) /\ ToldIn(g, i) = ToldIn(f, i)
    BY <1>8, <1>12, <2>1, FeedAgrees
  <2>4. ASSUME NEW l PROVE InfoIn(g, l, i - 1) = InfoIn(f, l, i - 1)
    <3>1. i - 1 \in Nat /\ Agree(f, g, i - 1)
      BY <1>12 DEF Agree
    <3> QED
      BY <3>1, InfoAgrees
  <2>3. ToldIn(f, i) \in 1 .. Len(a)
    BY <1>1, <2>2, ToldCounts
  <2> QED
    BY <1>1, <1>2, <2>2, <2>3, <2>4
<1>9. CASE HeardIn(g, n + 1)
  <2> DEFINE x == Tracker!Auction(message, latest[message.stock_locate])
  <2>1. /\ message \in Tracker!CrossTradeMessage /\ message.stock_locate \in Locate
        /\ b = Append(a, x)
    <3>1. message.message_type = "Q" /\ heard
      BY <1>7, <1>9
    <3> QED
      BY <3>1 DEF Message, Tracker!NOIIMessage, Tracker!CrossTradeMessage, Tracker!OtherMessage
  <2>2. x = Tracker!Auction(message, InfoIn(f, message.stock_locate, n)) /\ x \in Paired
    <3>1. latest[message.stock_locate] = InfoIn(f, message.stock_locate, n)
      BY <1>1, <2>1
    <3>2. InfoIn(f, message.stock_locate, n) \in {Tracker!NoInfo} \cup
            {Tracker!make_imbalance_info(m) : m \in Tracker!NOIIMessage}
      BY <1>1, InfoType, n \in 0 .. n DEF Entries, n
    <3> QED
      BY <2>1, <3>1, <3>2 DEF Paired
  <2> HIDE DEF x
  <2>3. /\ b \in Seq(Paired) /\ Len(b) = Len(a) + 1 /\ b[Len(a) + 1] = x
        /\ \A i \in 1 .. Len(a) : b[i] = a[i]
    BY <1>1, <2>1, <2>2, AppendProperties
  <2>4. Len(b) = ToldIn(g, n + 1)
    BY <1>1, <1>6, <1>9, <2>3
  <2>5. ASSUME NEW i \in 1 .. n + 1, HeardIn(g, i)
        PROVE  b[ToldIn(g, i)] =
                 Tracker!Auction(g[i].message, InfoIn(g, g[i].message.stock_locate, i - 1))
    <3>1. CASE i \in 1 .. n
      BY <1>8, <2>3, <2>5, <3>1
    <3>2. CASE i = n + 1
      <4>1. (n + 1) - 1 = n /\ n \in 0 .. n
        BY <1>1
      <4>2. InfoIn(g, message.stock_locate, n) = InfoIn(f, message.stock_locate, n)
        BY <1>11
      <4> QED
        BY <1>1, <1>2, <1>3, <1>6, <1>9, <2>2, <2>3, <3>2, <4>1, <4>2
    <3>3. n \in Nat
      BY <1>1
    <3>4. i \in 1 .. n \/ i = n + 1
      BY <3>3
    <3> QED
      BY <3>1, <3>2, <3>4
  <2> QED
    BY <1>2, <1>5, <2>3, <2>4, <2>5 DEF Follows, Entries, g, e
<1>10. CASE ~ HeardIn(g, n + 1)
  <2>1. b = a
    BY <1>7, <1>10
  <2>2. ASSUME NEW i \in 1 .. n + 1, HeardIn(g, i)
        PROVE  b[ToldIn(g, i)] =
                 Tracker!Auction(g[i].message, InfoIn(g, g[i].message.stock_locate, i - 1))
    <3>1. i \in 1 .. n
      BY <1>1, <1>10, <2>2
    <3> QED
      BY <1>8, <2>1, <2>2, <3>1
  <2> QED
    BY <1>1, <1>2, <1>5, <1>6, <1>10, <2>1, <2>2 DEF Follows, Entries, g, e
<1> QED
  BY <1>9, <1>10

LEMMA TrackerStarts == Tracker!Init => TrackerInv
<1> SUFFICES ASSUME Tracker!Init PROVE TrackerInv
  OBVIOUS
<1>1. feed = << >> /\ auctions = << >> /\ m_callback = FALSE
      /\ m_latest_imbalance = [l \in Locate |-> Tracker!NoInfo]
  BY DEF Tracker!Init
<1>2. ASSUME NEW l PROVE InfoIn(feed, l, 0) = Tracker!NoInfo
  BY DEF InfoIn, LeadingIn
<1>3. Len(feed) = 0 /\ Len(auctions) = 0 /\ ToldIn(feed, 0) = 0
  BY <1>1, ToldCounts
<1>4. feed \in Seq([message : Message, heard : BOOLEAN]) /\ auctions \in Seq(Paired)
  BY <1>1
<1>5. m_latest_imbalance = [l \in Locate |-> InfoIn(feed, l, Len(feed))]
  BY <1>1, <1>2, <1>3
<1>6. 1 .. Len(feed) = {}
  BY <1>3
<1>7. Follows(feed, auctions, m_latest_imbalance)
  BY <1>3, <1>4, <1>5, <1>6 DEF Follows
<1> QED
  BY <1>1, <1>7 DEF TrackerInv

LEMMA TrackerKeeps == TrackerInv /\ [Tracker!Next]_(Tracker!vars) => TrackerInv'
<1> SUFFICES ASSUME TrackerInv, [Tracker!Next]_(Tracker!vars) PROVE TrackerInv'
  OBVIOUS
<1>1. m_callback \in BOOLEAN /\ Follows(feed, auctions, m_latest_imbalance)
  BY DEF TrackerInv
<1>2. CASE Tracker!set_auction_callback
  BY <1>1, <1>2 DEF Tracker!set_auction_callback, TrackerInv
<1>3. ASSUME NEW m \in Message, Tracker!Receives(m),
             m_latest_imbalance' = [l \in Locate |->
               IF m.message_type = "I" /\ m.stock_locate = l
               THEN Tracker!make_imbalance_info(m) ELSE m_latest_imbalance[l]],
             auctions' = IF m.message_type = "Q" /\ m_callback
               THEN Append(auctions, Tracker!Auction(m, m_latest_imbalance[m.stock_locate]))
               ELSE auctions
      PROVE  TrackerInv'
  <2>1. m_callback' = m_callback /\ feed' = Append(feed, [message |-> m, heard |-> m_callback])
    BY <1>3 DEF Tracker!Receives
  <2>2. Follows(Append(feed, [message |-> m, heard |-> m_callback]), auctions',
                m_latest_imbalance')
    BY <1>1, <1>3, FollowsOn
  <2> QED
    BY <1>1, <2>1, <2>2 DEF TrackerInv
<1>4. m_latest_imbalance = [l \in Locate |-> m_latest_imbalance[l]]
  BY <1>1 DEF Follows
<1>5. ASSUME NEW m \in Tracker!NOIIMessage, Tracker!Receives(m), Tracker!process_noii(m)
      PROVE  TrackerInv'
  <2>1. m \in Message /\ m.message_type = "I" /\ m.stock_locate \in Locate
    BY DEF Message, Tracker!NOIIMessage
  <2>2. /\ m_latest_imbalance' = [m_latest_imbalance EXCEPT ![m.stock_locate] =
                                    Tracker!make_imbalance_info(m)]
        /\ auctions' = auctions
    BY <1>5 DEF Tracker!process_noii
  <2>3. m_latest_imbalance' = [l \in Locate |->
               IF m.message_type = "I" /\ m.stock_locate = l
               THEN Tracker!make_imbalance_info(m) ELSE m_latest_imbalance[l]]
    BY <1>4, <2>1, <2>2
  <2> QED
    BY <1>3, <1>5, <2>1, <2>2, <2>3
<1>6. ASSUME NEW m \in Tracker!CrossTradeMessage, Tracker!Receives(m), Tracker!process_cross(m)
      PROVE  TrackerInv'
  <2>1. m \in Message /\ m.message_type = "Q"
    BY DEF Message, Tracker!CrossTradeMessage
  <2>2. /\ m_latest_imbalance' = m_latest_imbalance
        /\ auctions' = IF m_callback
             THEN Append(auctions, Tracker!Auction(m, m_latest_imbalance[m.stock_locate]))
             ELSE auctions
    BY <1>6 DEF Tracker!process_cross
  <2>3. m_latest_imbalance' = [l \in Locate |->
               IF m.message_type = "I" /\ m.stock_locate = l
               THEN Tracker!make_imbalance_info(m) ELSE m_latest_imbalance[l]]
    BY <1>4, <2>1, <2>2
  <2> QED
    BY <1>3, <1>6, <2>1, <2>2, <2>3
<1>7. ASSUME NEW m \in Tracker!OtherMessage, Tracker!Receives(m), Tracker!process_other(m)
      PROVE  TrackerInv'
  <2>1. m \in Message /\ m.message_type = "B"
    BY DEF Message, Tracker!OtherMessage
  <2>2. m_latest_imbalance' = m_latest_imbalance /\ auctions' = auctions
    BY <1>7 DEF Tracker!process_other
  <2>3. m_latest_imbalance' = [l \in Locate |->
               IF m.message_type = "I" /\ m.stock_locate = l
               THEN Tracker!make_imbalance_info(m) ELSE m_latest_imbalance[l]]
    BY <1>4, <2>1, <2>2
  <2> QED
    BY <1>3, <1>7, <2>1, <2>2, <2>3
<1>8. CASE UNCHANGED Tracker!vars
  BY <1>1, <1>8 DEF Tracker!vars, TrackerInv
<1> QED
  BY <1>2, <1>5, <1>6, <1>7, <1>8 DEF Tracker!Next

\* Every cross that was heard is one auction, paired with the last imbalance of its own
\* security, for every set of locate codes, quantities and cross types and every feed.
THEOREM Auctioned == Tracker!Spec => []AuctionsFollowFeed
<1>1. TrackerInv => AuctionsFollowFeed
  <2> SUFFICES ASSUME TrackerInv PROVE AuctionsFollowFeed
    OBVIOUS
  <2>1. Follows(feed, auctions, m_latest_imbalance)
    BY DEF TrackerInv
  <2>2. Len(feed) \in Nat /\ DOMAIN feed = 1 .. Len(feed)
    BY <2>1 DEF Follows
  <2>3. ASSUME NEW l \in Locate
        PROVE  m_latest_imbalance[l].had_imbalance <=>
                 \E j \in DOMAIN feed : /\ feed[j].message.message_type = "I"
                                        /\ feed[j].message.stock_locate = l
    <3>1. m_latest_imbalance[l] = InfoIn(feed, l, Len(feed))
      BY <2>1 DEF Follows
    <3>2. InfoIn(feed, l, Len(feed)).had_imbalance <=> LeadingIn(feed, l, Len(feed)) # {}
      BY DEF InfoIn, Tracker!NoInfo, Tracker!make_imbalance_info
    <3> QED
      BY <2>2, <3>1, <3>2 DEF LeadingIn
  <2>4. Tracker!TypeOK
    BY <2>3 DEF Tracker!TypeOK
  <2>5. Len(auctions) = Tracker!Told(Len(feed))
    BY <2>1, TrackerOperators DEF Follows
  <2>6. ASSUME NEW i \in DOMAIN feed, Tracker!Heard(i)
        PROVE  auctions[Tracker!Told(i)] = Tracker!Auction(feed[i].message,
                 IF Tracker!Leading(i) = {} THEN Tracker!NoInfo
                 ELSE Tracker!make_imbalance_info(feed[Tracker!Max(Tracker!Leading(i))].message))
    <3>1. HeardIn(feed, i) /\ i \in 1 .. Len(feed) /\ Tracker!Told(i) = ToldIn(feed, i)
      BY <2>2, <2>6, TrackerOperators
    <3>2. auctions[ToldIn(feed, i)] =
            Tracker!Auction(feed[i].message, InfoIn(feed, feed[i].message.stock_locate, i - 1))
      BY <2>1, <3>1 DEF Follows
    <3>3. Tracker!Leading(i) = LeadingIn(feed, feed[i].message.stock_locate, i - 1)
      BY TrackerOperators
    <3> QED
      BY <3>1, <3>2, <3>3 DEF InfoIn
  <2>7. Tracker!AuctionsFollowFeed
    BY <2>5, <2>6 DEF Tracker!AuctionsFollowFeed
  <2> QED
    BY <2>4, <2>7 DEF AuctionsFollowFeed
<1> QED
  BY <1>1, TrackerStarts, TrackerKeeps, PTL DEF Tracker!Spec

-----------------------------------------------------------------------------
(* Vwap and Twap.                                                          *)

\* A sum of prices weighted by w stays within a bound when a price within it joins.
LEMMA Weighted ==
  ASSUME NEW sum \in Nat, NEW weight \in Nat, NEW bound \in Nat, NEW p \in Nat, NEW w \in Nat
  PROVE  /\ sum >= bound * weight /\ (p >= bound \/ w = 0)
              => sum + p * w >= bound * (weight + w)
         /\ sum <= bound * weight /\ (p <= bound \/ w = 0)
              => sum + p * w <= bound * (weight + w)
<1>1. bound * (weight + w) = bound * weight + bound * w
  OBVIOUS
<1>2. bound * weight \in Nat /\ bound * w \in Nat /\ p * w \in Nat
  OBVIOUS
<1>3. (p >= bound => p * w >= bound * w) /\ (p <= bound => p * w <= bound * w)
  <2>1. ASSUME NEW x \in Nat, NEW y \in Nat, x <= y PROVE x * w <= y * w
    <3>1. PICK d \in Nat : y = x + d
      BY <2>1, y - x \in Nat, y = x + (y - x)
    <3>2. y * w = x * w + d * w /\ d * w \in Nat /\ x * w \in Nat
      BY <3>1
    <3> QED
      BY <3>2
  <2> QED
    BY <2>1
<1>4. w = 0 => p * w = 0 /\ bound * w = 0
  OBVIOUS
<1> DEFINE B == bound * weight
           C == bound * w
           D == p * w
<1>5. B \in Nat /\ C \in Nat /\ D \in Nat
  BY <1>2
<1>6. /\ (p >= bound => D >= C) /\ (p <= bound => D <= C)
      /\ (w = 0 => D = 0 /\ C = 0) /\ bound * (weight + w) = B + C
  BY <1>1, <1>3, <1>4
<1>7. /\ sum >= B /\ (p >= bound \/ w = 0) => sum + D >= B + C
      /\ sum <= B /\ (p <= bound \/ w = 0) => sum + D <= B + C
  <2> HIDE DEF B, C, D
  <2> QED
    BY <1>5, <1>6
<1> QED
  BY <1>6, <1>7

\* The samples of an interval are numbered from one.
Numbered(S) ==
  /\ IsFiniteSet(S)
  /\ S \subseteq [n : Nat, price : Prices, shares : Quantities, timestamp : Times]
  /\ \A s \in S : s.n \in 1 .. Cardinality(S)
  /\ \A i \in 1 .. Cardinality(S) : \E s \in S : s.n = i
  /\ \A s, r \in S : s.n = r.n => s = r
\* A weighted sum lies between the lowest and the highest price.
Within(S, sum, weight) ==
  \A bound \in Prices :
    /\ (\A s \in S : s.price >= bound) => sum >= bound * weight
    /\ (\A s \in S : s.price <= bound) => sum <= bound * weight
InOrder(S) == \A s, r \in S : s.n <= r.n => s.timestamp <= r.timestamp
Spans(S, total) ==
  \A s, r \in S : InOrder(S) /\ s.n = 1 /\ r.n = Cardinality(S) => total = r.timestamp - s.timestamp
\* What Twap remembers of the last sample.
Remembers(S, price, timestamp, has) ==
  /\ has = (S # {})
  /\ \A s \in S : s.n = Cardinality(S) => price = s.price /\ timestamp = s.timestamp

\* The inductive invariant.
RunningInv ==
  /\ {m_price_volume, m_volume, m_price_time, m_total_time, m_last_price, m_last_timestamp}
       \subseteq Nat
  /\ Numbered(samples)
  /\ Within(samples, m_price_volume, m_volume) /\ Within(samples, m_price_time, m_total_time)
  /\ Remembers(samples, m_last_price, m_last_timestamp, m_has_sample)
  /\ samples = {} => m_price_time = 0 /\ m_total_time = 0
  /\ Spans(samples, m_total_time)

\* One more sample.
LEMMA NumberedGrows ==
  ASSUME NEW S, Numbered(S), NEW p \in Prices, NEW q \in Quantities, NEW t \in Times, NEW x,
         x = [n |-> Cardinality(S) + 1, price |-> p, shares |-> q, timestamp |-> t]
  PROVE  /\ Numbered(S \cup {x}) /\ Cardinality(S \cup {x}) = Cardinality(S) + 1
         /\ Cardinality(S) \in Nat /\ (S = {} <=> Cardinality(S) = 0)
<1>1. /\ IsFiniteSet(S) /\ \A s \in S : s.n \in 1 .. Cardinality(S)
      /\ S \subseteq [n : Nat, price : Prices, shares : Quantities, timestamp : Times]
  BY DEF Numbered
<1>2. Cardinality(S) \in Nat /\ (S = {} <=> Cardinality(S) = 0)
  BY <1>1, FS_CardinalityType, FS_EmptySet
<1>3. x.n = Cardinality(S) + 1 /\ x \notin S
  <2>1. x.n = Cardinality(S) + 1
    OBVIOUS
  <2> QED
    BY <1>1, <1>2, <2>1
<1>4. IsFiniteSet(S \cup {x}) /\ Cardinality(S \cup {x}) = Cardinality(S) + 1
  BY <1>1, <1>3, FS_AddElement
<1>5. S \cup {x} \subseteq [n : Nat, price : Prices, shares : Quantities, timestamp : Times]
  BY <1>1, <1>2
<1>6. \A s \in S \cup {x} : s.n \in 1 .. Cardinality(S) + 1
  BY <1>1, <1>2, <1>3
<1>7. ASSUME NEW i \in 1 .. Cardinality(S) + 1 PROVE \E s \in S \cup {x} : s.n = i
  <2>1. CASE i = Cardinality(S) + 1
    BY <1>3, <2>1
  <2>2. CASE i \in 1 .. Cardinality(S)
    BY <2>2 DEF Numbered
  <2> QED
    BY <1>2, <2>1, <2>2
<1>8. ASSUME NEW s \in S \cup {x}, NEW r \in S \cup {x}, s.n = r.n PROVE s = r
  <2>1. \A z \in S : z.n # x.n
    BY <1>1, <1>2, <1>3
  <2> QED
    BY <1>8, <2>1 DEF Numbered
<1> QED
  BY <1>2, <1>4, <1>5, <1>6, <1>7, <1>8 DEF Numbered

LEMMA WithinGrows ==
  ASSUME NEW S, NEW x, NEW sum \in Nat, NEW weight \in Nat, NEW p \in Nat, NEW w \in Nat,
         Within(S, sum, weight), w # 0 => \E s \in S \cup {x} : s.price = p
  PROVE  Within(S \cup {x}, sum + p * w, weight + w)
<1> SUFFICES ASSUME NEW bound \in Prices
             PROVE  /\ (\A s \in S \cup {x} : s.price >= bound) => sum + p * w >= bound * (weight + w)
                    /\ (\A s \in S \cup {x} : s.price <= bound) => sum + p * w <= bound * (weight + w)
  BY DEF Within
<1>1. bound \in Nat
  BY AveragesAssumption
<1>2. /\ (\A s \in S : s.price >= bound) => sum >= bound * weight
      /\ (\A s \in S : s.price <= bound) => sum <= bound * weight
  BY DEF Within
<1>3. ASSUME \A s \in S \cup {x} : s.price >= bound
      PROVE  sum + p * w >= bound * (weight + w)
  <2>1. sum >= bound * weight /\ (p >= bound \/ w = 0)
    BY <1>2, <1>3
  <2> QED
    BY <1>1, <2>1, Weighted
<1>4. ASSUME \A s \in S \cup {x} : s.price <= bound
      PROVE  sum + p * w <= bound * (weight + w)
  <2>1. sum <= bound * weight /\ (p <= bound \/ w = 0)
    BY <1>2, <1>4
  <2> QED
    BY <1>1, <2>1, Weighted
<1> QED
  BY <1>3, <1>4

LEMMA RunningStarts == Running!Init => RunningInv
<1> SUFFICES ASSUME Running!Init PROVE RunningInv
  OBVIOUS
<1>1. /\ m_price_volume = 0 /\ m_volume = 0 /\ m_price_time = 0 /\ m_total_time = 0
      /\ m_last_price = 0 /\ m_last_timestamp = 0 /\ m_has_sample = FALSE /\ samples = {}
  BY DEF Running!Init, Running!Cleared
<1>2. Numbered({})
  BY FS_EmptySet DEF Numbered
<1>3. Within({}, 0, 0)
  BY AveragesAssumption DEF Within
<1>4. Remembers({}, 0, 0, FALSE) /\ Spans({}, 0)
  BY DEF Remembers, Spans
<1>5. /\ Remembers(samples, m_last_price, m_last_timestamp, m_has_sample)
      /\ Spans(samples, m_total_time) /\ Numbered(samples)
      /\ Within(samples, m_price_volume, m_volume)
      /\ Within(samples, m_price_time, m_total_time)
  BY <1>1, <1>2, <1>3, <1>4
<1> QED
  BY <1>1, <1>5 DEF RunningInv

LEMMA RunningResets == Running!Reset => RunningInv'
<1> SUFFICES ASSUME Running!Reset PROVE RunningInv'
  OBVIOUS
<1>1. /\ m_price_volume' = 0 /\ m_volume' = 0 /\ m_price_time' = 0 /\ m_total_time' = 0
      /\ m_last_price' = 0 /\ m_last_timestamp' = 0 /\ m_has_sample' = FALSE /\ samples' = {}
  BY DEF Running!Reset, Running!vwap_reset, Running!twap_reset
<1>2. Numbered({})
  BY FS_EmptySet DEF Numbered
<1>3. Within({}, 0, 0)
  BY AveragesAssumption DEF Within
<1>4. Remembers({}, 0, 0, FALSE) /\ Spans({}, 0)
  BY DEF Remembers, Spans
<1>5. /\ Remembers(samples', m_last_price', m_last_timestamp', m_has_sample')
      /\ Spans(samples', m_total_time') /\ Numbered(samples')
      /\ Within(samples', m_price_volume', m_volume')
      /\ Within(samples', m_price_time', m_total_time')
  BY <1>1, <1>2, <1>3, <1>4
<1> QED
  BY <1>1, <1>5 DEF RunningInv

LEMMA RunningAdds ==
  ASSUME RunningInv, NEW p \in Prices, NEW q \in Quantities, NEW t \in Times, Running!Add(p, q, t)
  PROVE  RunningInv'
<1> DEFINE N == Cardinality(samples)
           x == [n |-> N + 1, price |-> p, shares |-> q, timestamp |-> t]
           w == Running!elapsed(t)
<1>1. /\ m_price_volume' = m_price_volume + p * q /\ m_volume' = m_volume + q
      /\ m_price_time' = m_price_time + m_last_price * w /\ m_total_time' = m_total_time + w
      /\ m_last_price' = p /\ m_last_timestamp' = t /\ m_has_sample' = TRUE
      /\ samples' = samples \cup {x}
  <2>1. Running!Cardinality(samples) = N
    BY DEF Running!Cardinality, Cardinality
  <2> QED
    BY <2>1 DEF Running!Add, Running!vwap_add, Running!twap_add
<1>2. /\ m_price_volume \in Nat /\ m_volume \in Nat /\ m_price_time \in Nat
      /\ m_total_time \in Nat /\ m_last_price \in Nat /\ m_last_timestamp \in Nat
      /\ Numbered(samples) /\ Remembers(samples, m_last_price, m_last_timestamp, m_has_sample)
      /\ Within(samples, m_price_volume, m_volume) /\ Within(samples, m_price_time, m_total_time)
      /\ Spans(samples, m_total_time)
      /\ samples = {} => m_price_time = 0 /\ m_total_time = 0
  BY DEF RunningInv
<1>3. p \in Nat /\ q \in Nat /\ t \in Nat
  BY AveragesAssumption
<1>4. /\ w = IF m_has_sample /\ t > m_last_timestamp THEN t - m_last_timestamp ELSE 0
      /\ w \in Nat
  BY <1>2, <1>3 DEF Running!elapsed
<1>5. /\ Numbered(samples \cup {x}) /\ Cardinality(samples \cup {x}) = N + 1
      /\ N \in Nat /\ (samples = {} <=> N = 0)
  BY <1>2, NumberedGrows
<1>6. x.n = N + 1 /\ x.price = p /\ x.timestamp = t
  OBVIOUS
<1> HIDE DEF x, w
<1>7. Within(samples', m_price_volume', m_volume')
  BY <1>1, <1>2, <1>3, <1>6, WithinGrows
<1>8. Within(samples', m_price_time', m_total_time')
  <2>1. w # 0 => \E s \in samples \cup {x} : s.price = m_last_price
    <3>1. SUFFICES ASSUME w # 0 PROVE \E s \in samples : s.price = m_last_price
      OBVIOUS
    <3>2. samples # {}
      BY <1>2, <1>4, <3>1 DEF Remembers
    <3>3. N \in 1 .. N
      BY <1>5, <3>2
    <3>4. PICK s \in samples : s.n = N
      BY <1>2, <3>3 DEF Numbered
    <3> QED
      BY <1>2, <3>4 DEF Remembers
  <2> QED
    BY <1>1, <1>2, <1>4, <2>1, WithinGrows
<1>9. Remembers(samples', m_last_price', m_last_timestamp', m_has_sample')
  <2>1. \A s \in samples : s.n # N + 1
    BY <1>2, <1>5 DEF Numbered
  <2> QED
    BY <1>1, <1>5, <1>6, <2>1 DEF Remembers
<1>10. Spans(samples', m_total_time')
  <2> SUFFICES ASSUME NEW s \in samples \cup {x}, NEW r \in samples \cup {x},
                      InOrder(samples \cup {x}), s.n = 1, r.n = N + 1
               PROVE  m_total_time + w = r.timestamp - s.timestamp
    BY <1>1, <1>5 DEF Spans
  <2>1. r = x
    BY <1>2, <1>5 DEF Numbered
  <2>2. CASE samples = {}
    <3>1. w = 0 /\ s = x /\ m_total_time = 0
      BY <1>2, <1>4, <2>2 DEF Remembers
    <3> QED
      BY <1>3, <1>6, <2>1, <3>1
  <2>3. CASE samples # {}
    <3>1. N \in 1 .. N /\ 1 \in 1 .. N /\ N + 1 # 1
      BY <1>5, <2>3
    <3>2. PICK k \in samples : k.n = N
      BY <1>2, <3>1 DEF Numbered
    <3>3. s \in samples
      BY <1>6, <3>1
    <3>4. s.timestamp \in Nat /\ k.timestamp \in Nat
      BY <1>2, <3>2, <3>3, AveragesAssumption DEF Numbered
    <3>5. InOrder(samples)
      BY DEF InOrder
    <3>6. m_total_time = k.timestamp - s.timestamp /\ m_last_timestamp = k.timestamp
      BY <1>2, <3>2, <3>3, <3>5 DEF Spans, Remembers
    <3>7. k.timestamp <= t
      <4>1. k.n <= x.n
        BY <1>5, <1>6, <3>2
      <4> QED
        BY <1>6, <4>1 DEF InOrder
    <3>8. m_has_sample
      BY <1>2, <2>3 DEF Remembers
    <3>9. w = t - k.timestamp
      BY <1>3, <1>4, <3>4, <3>6, <3>7, <3>8
    <3> QED
      BY <1>3, <1>6, <2>1, <3>4, <3>6, <3>9
  <2> QED
    BY <2>2, <2>3
<1>11. /\ m_price_volume' \in Nat /\ m_volume' \in Nat /\ m_price_time' \in Nat
       /\ m_total_time' \in Nat /\ m_last_price' \in Nat /\ m_last_timestamp' \in Nat
       /\ samples' # {}
  BY <1>1, <1>2, <1>3, <1>4
<1>12. Numbered(samples')
  BY <1>1, <1>5
<1> QED
  BY <1>7, <1>8, <1>9, <1>10, <1>11, <1>12 DEF RunningInv

LEMMA RunningKeeps == RunningInv /\ [Running!Next]_(Running!vars) => RunningInv'
<1> SUFFICES ASSUME RunningInv, [Running!Next]_(Running!vars) PROVE RunningInv'
  OBVIOUS
<1>1. CASE UNCHANGED Running!vars
  BY <1>1 DEF RunningInv, Running!vars, Running!vwap, Running!twap
<1> QED
  BY <1>1, RunningResets, RunningAdds DEF Running!Next

\* An average lies between the lowest and the highest price of its own interval, and in
\* timestamp order the time weighted is the span observed: for every set of prices,
\* quantities and times, in any order of the timestamps.
THEOREM Averaged == Running!Spec => []AveragesAreExact
<1>1. RunningInv => AveragesAreExact
  <2> SUFFICES ASSUME RunningInv PROVE AveragesAreExact
    OBVIOUS
  <2>1. /\ m_price_volume \in Nat /\ m_volume \in Nat /\ m_price_time \in Nat
        /\ m_total_time \in Nat /\ m_last_price \in Nat /\ m_last_timestamp \in Nat
        /\ Numbered(samples) /\ Remembers(samples, m_last_price, m_last_timestamp, m_has_sample)
        /\ Within(samples, m_price_volume, m_volume) /\ Within(samples, m_price_time, m_total_time)
        /\ Spans(samples, m_total_time)
    BY DEF RunningInv
  <2>2. Running!TypeOK
    BY <2>1 DEF Running!TypeOK
  <2>3. Cardinality(samples) \in Nat /\ (samples = {} <=> Cardinality(samples) = 0)
    BY <2>1, FS_CardinalityType, FS_EmptySet DEF Numbered
  <2>4. ASSUME samples # {}
        PROVE  \E s \in samples : s.n = Cardinality(samples)
    <3>1. Cardinality(samples) \in 1 .. Cardinality(samples)
      BY <2>3, <2>4
    <3> QED
      BY <2>1, <3>1 DEF Numbered
  <2>5. ASSUME NEW v, NEW sum, NEW weight, v = <<sum, weight>>, Within(samples, sum, weight),
               NEW bound \in Prices
        PROVE  /\ (\A s \in samples : s.price >= bound) => v[1] >= bound * v[2]
               /\ (\A s \in samples : s.price <= bound) => v[1] <= bound * v[2]
    BY <2>5 DEF Within
  <2>6. Running!vwap_value = Running!NaN \/ Running!vwap_value = <<m_price_volume, m_volume>>
    BY DEF Running!vwap_value
  <2>7. \/ Running!twap_value = Running!NaN
        \/ Running!twap_value = <<m_price_time, m_total_time>>
        \/ m_has_sample /\ Running!twap_value = <<m_last_price, 1>>
    BY DEF Running!twap_value
  <2>8. m_has_sample => Within(samples, m_last_price, 1)
    <3>1. ASSUME m_has_sample PROVE \E s \in samples : s.price = m_last_price
      BY <2>1, <2>4, <3>1 DEF Remembers
    <3>2. ASSUME NEW s \in samples, s.price = m_last_price, NEW bound \in Prices
          PROVE  /\ (\A r \in samples : r.price >= bound) => m_last_price >= bound * 1
                 /\ (\A r \in samples : r.price <= bound) => m_last_price <= bound * 1
      BY <3>2, AveragesAssumption
    <3> QED
      BY <3>1, <3>2 DEF Within
  <2>9. ASSUME NEW v \in {Running!vwap_value, Running!twap_value}, v # Running!NaN
        PROVE  \E sum, weight : v = <<sum, weight>> /\ Within(samples, sum, weight)
    BY <2>1, <2>6, <2>7, <2>8, <2>9
  <2>10. Running!AveragesStayInRange
    BY <2>5, <2>9 DEF Running!AveragesStayInRange
  <2>11. ASSUME samples # {}, InOrder(samples)
         PROVE  m_total_time = Running!Sample(Cardinality(samples)).timestamp
                               - Running!Sample(1).timestamp
    <3>1. PICK r \in samples : r.n = Cardinality(samples)
      BY <2>4, <2>11
    <3>2. PICK s \in samples : s.n = 1
      <4>1. 1 \in 1 .. Cardinality(samples)
        BY <2>3, <2>11
      <4> QED
        BY <2>1, <4>1 DEF Numbered
    <3>3. ASSUME NEW z \in samples PROVE Running!Sample(z.n) = z
      BY <2>1 DEF Numbered, Running!Sample
    <3>4. m_total_time = r.timestamp - s.timestamp
      BY <2>1, <2>11, <3>1, <3>2 DEF Spans
    <3> QED
      BY <3>1, <3>2, <3>3, <3>4
  <2>12. Running!TwapCoversTheSpan
    <3>1. Running!Cardinality(samples) = Cardinality(samples)
      BY DEF Running!Cardinality, Cardinality
    <3> QED
      BY <2>11, <3>1 DEF Running!TwapCoversTheSpan, InOrder
  <2> QED
    BY <2>2, <2>10, <2>12 DEF AveragesAreExact
<1> QED
  BY <1>1, RunningStarts, RunningKeeps, PTL DEF Running!Spec

-----------------------------------------------------------------------------
(* BarBuilder.                                                             *)

\* A stretch of tape: trades with prices and shares.
Trades == [price : BarPrices, shares : BarQuantities, timestamp : 0 .. MaxTime]

\* The recursive function Volumes is the one its equations describe.
LEMMA VolumesEquations ==
  ASSUME NEW s, Len(s) \in Nat
  PROVE  /\ Builder!Volumes(s)[0] = 0
         /\ \A k \in 1 .. Len(s) : Builder!Volumes(s)[k] = Builder!Volumes(s)[k - 1] + s[k].shares
<1> DEFINE n == Len(s)
           Rec(g, m) == g = [k \in 0 .. m |-> IF k = 0 THEN 0 ELSE g[k - 1] + s[k].shares]
           T == {m \in 0 .. n : \E g : Rec(g, m)}
<1>1. 0 \in T
  <2> DEFINE g == [k \in 0 .. 0 |-> 0]
  <2>1. Rec(g, 0)
    OBVIOUS
  <2>2. 0 \in 0 .. n
    OBVIOUS
  <2> HIDE DEF g, Rec
  <2> QED
    BY <2>1, <2>2
<1>2. ASSUME NEW i \in 0 .. n - 1, i \in T PROVE i + 1 \in T
  <2>1. PICK g : Rec(g, i)
    BY <1>2
  <2> DEFINE h == [k \in 0 .. i + 1 |-> IF k = i + 1 THEN g[i] + s[i + 1].shares ELSE g[k]]
  <2>2. Rec(h, i + 1)
    BY <2>1
  <2> HIDE DEF h, Rec
  <2>3. i + 1 \in 0 .. n
    OBVIOUS
  <2> QED
    BY <2>2, <2>3
<1>3. n \in T
  <2>1. n \in Nat /\ n \in 0 .. n
    OBVIOUS
  <2> HIDE DEF T, n
  <2> QED
    BY <1>1, <1>2, <2>1, UpTo
<1> DEFINE S == CHOOSE g : Rec(g, n)
<1>4. Rec(S, n)
  <2> HIDE DEF Rec
  <2> QED
    BY <1>3
<1>5. Builder!Volumes(s) = S
  BY DEF Builder!Volumes
<1> HIDE DEF S
<1> QED
  BY SMTT(60), <1>4, <1>5

LEMMA SharesOfTrade ==
  ASSUME NEW s \in Seq(Trades), NEW i \in 1 .. Len(s)
  PROVE  /\ s[i].price \in Nat /\ s[i].shares \in Nat
         /\ s[i] \in Trades
<1>1. s[i] \in Trades
  BY ElementOfSeq
<1> QED
  BY <1>1, BarsAssumption DEF Trades

\* Volumes are numbers, and depend on the trades they sum only.
LEMMA VolumesType ==
  ASSUME NEW s \in Seq(Trades)
  PROVE  \A k \in 0 .. Len(s) : Builder!Volumes(s)[k] \in Nat
<1> DEFINE n == Len(s)
           T == {k \in 0 .. n : Builder!Volumes(s)[k] \in Nat}
<1>1. n \in Nat /\ 0 \in T
  BY VolumesEquations
<1>2. ASSUME NEW i \in 0 .. n - 1, i \in T PROVE i + 1 \in T
  <2>1. i + 1 \in 1 .. n /\ (i + 1) - 1 = i /\ i + 1 \in 0 .. n
    BY <1>1
  <2>2. s[i + 1].shares \in Nat
    BY <2>1, SharesOfTrade
  <2>3. Builder!Volumes(s)[i + 1] = Builder!Volumes(s)[i] + s[i + 1].shares
    BY <1>1, <2>1, VolumesEquations
  <2> QED
    BY <1>2, <2>1, <2>2, <2>3
<1>3. \A k \in 0 .. n : k \in T
  <2> HIDE DEF T, n
  <2> QED
    BY <1>1, <1>2, UpTo
<1> QED
  BY <1>3

LEMMA VolumesAgree ==
  ASSUME NEW s, Len(s) \in Nat, NEW r, Len(r) \in Nat, NEW n \in 0 .. Len(s), n <= Len(r),
         \A k \in 1 .. n : s[k] = r[k]
  PROVE  \A k \in 0 .. n : Builder!Volumes(s)[k] = Builder!Volumes(r)[k]
<1> DEFINE T == {k \in 0 .. n : Builder!Volumes(s)[k] = Builder!Volumes(r)[k]}
<1>1. 0 \in T /\ n \in Nat
  BY VolumesEquations
<1>2. ASSUME NEW i \in 0 .. n - 1, i \in T PROVE i + 1 \in T
  <2>1. /\ i + 1 \in 1 .. n /\ i + 1 \in 1 .. Len(s) /\ i + 1 \in 1 .. Len(r)
        /\ (i + 1) - 1 = i /\ i + 1 \in 0 .. n
    OBVIOUS
  <2>2. /\ Builder!Volumes(s)[i + 1] = Builder!Volumes(s)[i] + s[i + 1].shares
        /\ Builder!Volumes(r)[i + 1] = Builder!Volumes(r)[i] + r[i + 1].shares
    BY <2>1, VolumesEquations
  <2> QED
    BY <1>2, <2>1, <2>2
<1>3. \A k \in 0 .. n : k \in T
  <2> HIDE DEF T
  <2> QED
    BY <1>1, <1>2, UpTo
<1> QED
  BY <1>3

\* The volume of a stretch is the difference of the volumes at its ends.
LEMMA VolumeOfStretch ==
  ASSUME NEW s \in Seq(Trades), NEW a \in 1 .. Len(s), NEW z \in a .. Len(s), NEW r,
         r = SubSeq(s, a, z)
  PROVE  Builder!Volumes(r)[Len(r)] = Builder!Volumes(s)[z] - Builder!Volumes(s)[a - 1]
<1> DEFINE n == z - a + 1
           W(k) == Builder!Volumes(s)[k]
           T == {k \in 0 .. n : Builder!Volumes(r)[k] = W(a - 1 + k) - W(a - 1)}
<1>1. /\ a \in Nat /\ z \in Nat /\ n \in Nat /\ Len(s) \in Nat /\ a >= 1 /\ z <= Len(s)
      /\ a <= z
  OBVIOUS
<1>2. Len(r) = n /\ \A k \in 1 .. n : r[k] = s[a - 1 + k]
  BY <1>1
<1>3. \A k \in 0 .. Len(s) : W(k) \in Nat
  BY VolumesType
<1> HIDE DEF n
<1>8. \A k \in 1 .. n : Builder!Volumes(r)[k] = Builder!Volumes(r)[k - 1] + r[k].shares
  BY <1>1, <1>2, VolumesEquations
<1>9. \A k \in 1 .. Len(s) : W(k) = W(k - 1) + s[k].shares
  BY <1>1, VolumesEquations
<1>4. 0 \in T
  <2>1. Builder!Volumes(r)[0] = 0
    BY <1>1, <1>2, VolumesEquations
  <2>2. a - 1 + 0 = a - 1 /\ a - 1 \in 0 .. Len(s) /\ 0 \in 0 .. n
    BY <1>1
  <2>3. W(a - 1) \in Nat
    BY <1>3, <2>2
  <2> HIDE DEF W
  <2>4. W(a - 1 + 0) - W(a - 1) = 0
    BY <2>2, <2>3
  <2> QED
    BY <2>1, <2>2, <2>4
<1>5. ASSUME NEW i \in 0 .. n - 1, i \in T PROVE i + 1 \in T
  <2>1. /\ i + 1 \in 1 .. n /\ (i + 1) - 1 = i /\ i + 1 \in 0 .. n
        /\ a - 1 + (i + 1) \in 1 .. Len(s) /\ a - 1 + i \in 0 .. Len(s) /\ a - 1 \in 0 .. Len(s)
        /\ (a - 1 + (i + 1)) - 1 = a - 1 + i
    BY <1>1 DEF n
  <2>2. Builder!Volumes(r)[i + 1] = Builder!Volumes(r)[i] + r[i + 1].shares
    BY <1>8, <2>1
  <2>3. W(a - 1 + (i + 1)) = W(a - 1 + i) + s[a - 1 + (i + 1)].shares
    BY <1>9, <2>1
  <2>4. r[i + 1] = s[a - 1 + (i + 1)] /\ s[a - 1 + (i + 1)].shares \in Nat
    BY <1>2, <2>1, SharesOfTrade
  <2>5. W(a - 1 + i) \in Nat /\ W(a - 1) \in Nat
    BY <1>3, <2>1
  <2>6. Builder!Volumes(r)[i] = W(a - 1 + i) - W(a - 1)
    BY <1>5
  <2> HIDE DEF W
  <2>7. Builder!Volumes(r)[i + 1] = W(a - 1 + (i + 1)) - W(a - 1)
    <3>1. \A x, y, w \in Nat : (x - y) + w = (x + w) - y
      OBVIOUS
    <3>2. Builder!Volumes(r)[i + 1] = (W(a - 1 + i) - W(a - 1)) + s[a - 1 + (i + 1)].shares
      BY <2>2, <2>4, <2>6
    <3> QED
      BY <2>3, <2>4, <2>5, <3>1, <3>2
  <2> QED
    BY <2>1, <2>7
<1>6. \A k \in 0 .. n : k \in T
  <2> HIDE DEF T
  <2> QED
    BY <1>1, <1>4, <1>5, UpTo
<1>7. n \in 0 .. n /\ a - 1 + n = z
  BY <1>1 DEF n
<1> QED
  BY <1>2, <1>6, <1>7

\* The bucket of the i-th trade of a tape by a clock.
BucketIn(clock, T, i) ==
  CASE clock = "time"   -> T[i].timestamp \div PerBar
    [] clock = "tick"   -> (i - 1) \div PerBar
    [] clock = "volume" -> Builder!Volumes(T)[i - 1] \div PerBar

\* A bar is that of the trades from a to z: of one bucket, and with their prices, their
\* volume and their number.
Covers(clock, T, bar, a, z) ==
  /\ \A i \in a .. z : BucketIn(clock, T, i) = bar.bucket
  /\ bar.start = T[a].timestamp /\ bar.open = T[a].price
  /\ bar.end = T[z].timestamp /\ bar.close = T[z].price
  /\ \E i \in a .. z : bar.high = T[i].price
  /\ \A i \in a .. z : T[i].price <= bar.high
  /\ \E i \in a .. z : bar.low = T[i].price
  /\ \A i \in a .. z : bar.low <= T[i].price
  /\ bar.volume = Builder!Volumes(T)[z] - Builder!Volumes(T)[a - 1]
  /\ bar.trade_count = z - a + 1

\* Bars cut a tape: each begins where the one before it ends, and only a flush leaves
\* two bars of one bucket.
Upto(B, k) == IF k = 0 THEN 0 ELSE B[k].upto
Cuts(clock, T, B, flushes) ==
  /\ \A k \in 1 .. Len(B) :
       /\ B[k].upto \in 1 .. Len(T) /\ Upto(B, k - 1) \in Nat
       /\ Upto(B, k - 1) + 1 <= B[k].upto
       /\ Covers(clock, T, B[k].bar, Upto(B, k - 1) + 1, B[k].upto)
  /\ \A k \in 2 .. Len(B) :
       B[k].bar.bucket = B[k - 1].bar.bucket => B[k - 1].upto \in flushes

\* A trade joins the tape: what was there stays.
LEMMA TapeGrows ==
  ASSUME NEW T \in Seq(Trades), NEW t \in Trades, NEW clock
  PROVE  /\ Append(T, t) \in Seq(Trades) /\ Len(Append(T, t)) = Len(T) + 1
         /\ Append(T, t)[Len(T) + 1] = t
         /\ \A i \in 1 .. Len(T) : Append(T, t)[i] = T[i]
         /\ \A i \in 0 .. Len(T) : Builder!Volumes(Append(T, t))[i] = Builder!Volumes(T)[i]
         /\ \A i \in 1 .. Len(T) : BucketIn(clock, Append(T, t), i) = BucketIn(clock, T, i)
         /\ Builder!Volumes(Append(T, t))[Len(T) + 1] = Builder!Volumes(T)[Len(T)] + t.shares
         /\ Builder!Volumes(T)[Len(T)] \in Nat
<1> DEFINE R == Append(T, t)
           n == Len(T)
<1>1. /\ R \in Seq(Trades) /\ Len(R) = n + 1 /\ R[n + 1] = t /\ n \in Nat
      /\ \A i \in 1 .. n : R[i] = T[i]
  BY AppendProperties
<1>2. n \in 0 .. Len(R) /\ n <= Len(T) /\ Len(R) \in Nat /\ Len(T) \in Nat
  BY <1>1
<1> HIDE DEF R
<1>3. \A i \in 0 .. n : Builder!Volumes(R)[i] = Builder!Volumes(T)[i]
  BY <1>1, <1>2, VolumesAgree
<1>4. ASSUME NEW i \in 1 .. n PROVE BucketIn(clock, R, i) = BucketIn(clock, T, i)
  <2>1. i - 1 \in 0 .. n
    BY <1>1
  <2> QED
    BY <1>1, <1>3, <2>1 DEF BucketIn
<1>5. Builder!Volumes(R)[n + 1] = Builder!Volumes(R)[n] + t.shares
  <2>1. n + 1 \in 1 .. Len(R) /\ (n + 1) - 1 = n
    BY <1>1
  <2> QED
    BY <1>1, <1>2, <2>1, VolumesEquations
<1>6. n \in 0 .. n /\ Builder!Volumes(T)[n] \in Nat
  BY <1>1, VolumesType
<1> QED
  BY <1>1, <1>3, <1>4, <1>5, <1>6 DEF R

LEMMA CoversStays ==
  ASSUME NEW T \in Seq(Trades), NEW t \in Trades, NEW clock, NEW bar,
         NEW a \in 1 .. Len(T), NEW z \in a .. Len(T), Covers(clock, T, bar, a, z)
  PROVE  Covers(clock, Append(T, t), bar, a, z)
<1> DEFINE R == Append(T, t)
<1>1. /\ a - 1 \in 0 .. Len(T) /\ z \in 0 .. Len(T) /\ z \in 1 .. Len(T) /\ Len(T) \in Nat
      /\ \A i \in a .. z : i \in 1 .. Len(T)
  OBVIOUS
<1>2. /\ \A i \in 1 .. Len(T) : R[i] = T[i] /\ BucketIn(clock, R, i) = BucketIn(clock, T, i)
      /\ \A i \in 0 .. Len(T) : Builder!Volumes(R)[i] = Builder!Volumes(T)[i]
  BY TapeGrows
<1> HIDE DEF R
<1>3. Covers(clock, R, bar, a, z)
  BY <1>1, <1>2 DEF Covers
<1> QED
  BY <1>3 DEF R

LEMMA CutsStays ==
  ASSUME NEW T \in Seq(Trades), NEW t \in Trades, NEW clock, NEW B, NEW flushes,
         Cuts(clock, T, B, flushes)
  PROVE  Cuts(clock, Append(T, t), B, flushes)
<1>1. Len(T) \in Nat /\ Len(Append(T, t)) = Len(T) + 1
  BY TapeGrows
<1>2. ASSUME NEW k \in 1 .. Len(B)
      PROVE  /\ B[k].upto \in 1 .. Len(T) + 1 /\ Upto(B, k - 1) \in Nat
             /\ Upto(B, k - 1) + 1 <= B[k].upto
             /\ Covers(clock, Append(T, t), B[k].bar, Upto(B, k - 1) + 1, B[k].upto)
  <2>1. /\ B[k].upto \in 1 .. Len(T) /\ Upto(B, k - 1) \in Nat
        /\ Upto(B, k - 1) + 1 <= B[k].upto
        /\ Covers(clock, T, B[k].bar, Upto(B, k - 1) + 1, B[k].upto)
    BY DEF Cuts
  <2>2. Upto(B, k - 1) + 1 \in 1 .. Len(T) /\ B[k].upto \in Upto(B, k - 1) + 1 .. Len(T)
    BY <1>1, <2>1
  <2> QED
    BY <1>1, <2>1, <2>2, CoversStays
<1> QED
  BY <1>1, <1>2 DEF Cuts

\* The greatest and the least of two numbers.
LEMMA OfTwo ==
  ASSUME NEW x \in Nat, NEW y \in Nat
  PROVE  /\ Builder!Max({x, y}) = IF x >= y THEN x ELSE y
         /\ Builder!Min({x, y}) = IF x <= y THEN x ELSE y
<1>1. ASSUME NEW S, NEW m \in S, S \subseteq Nat, \A k \in S : m >= k PROVE Builder!Max(S) = m
  <2>1. ASSUME NEW k \in S, \A j \in S : k >= j PROVE k = m
    <3>1. k >= m /\ m >= k
      BY <1>1, <2>1
    <3> QED
      BY <1>1, <3>1
  <2> QED
    BY <1>1, <2>1 DEF Builder!Max
<1>2. ASSUME NEW S, NEW m \in S, S \subseteq Nat, \A k \in S : m <= k PROVE Builder!Min(S) = m
  <2>1. ASSUME NEW k \in S, \A j \in S : k <= j PROVE k = m
    <3>1. k <= m /\ m <= k
      BY <1>2, <2>1
    <3> QED
      BY <1>2, <3>1
  <2> QED
    BY <1>2, <2>1 DEF Builder!Min
<1>3. {x, y} \subseteq Nat /\ x \in {x, y} /\ y \in {x, y}
  OBVIOUS
<1>4. CASE x >= y
  <2>1. \A k \in {x, y} : x >= k /\ y <= k
    BY <1>4
  <2>2. Builder!Max({x, y}) = x /\ Builder!Min({x, y}) = y
    BY <1>1, <1>2, <1>3, <2>1
  <2> QED
    BY <1>4, <2>2
<1>5. CASE x <= y
  <2>1. \A k \in {x, y} : y >= k /\ x <= k
    BY <1>5
  <2>2. Builder!Max({x, y}) = y /\ Builder!Min({x, y}) = x
    BY <1>1, <1>2, <1>3, <2>1
  <2> QED
    BY <1>5, <2>2
<1> QED
  BY <1>4, <1>5

\* A trade of the bar's bucket is folded in, and a trade begins a bar.
LEMMA FoldCovers ==
  ASSUME NEW T \in Seq(Trades), NEW t \in Trades, NEW clock, NEW bar,
         NEW a \in 1 .. Len(T), Covers(clock, T, bar, a, Len(T)),
         BucketIn(clock, Append(T, t), Len(T) + 1) = bar.bucket
  PROVE  Covers(clock, Append(T, t), Builder!Folded(bar, t), a, Len(T) + 1)
<1> DEFINE R == Append(T, t)
           n == Len(T)
           b == Builder!Folded(bar, t)
<1>1. /\ \A i \in 1 .. n : R[i] = T[i] /\ BucketIn(clock, R, i) = BucketIn(clock, T, i)
      /\ R[n + 1] = t /\ n \in Nat
      /\ \A i \in 0 .. n : Builder!Volumes(R)[i] = Builder!Volumes(T)[i]
      /\ Builder!Volumes(R)[n + 1] = Builder!Volumes(T)[n] + t.shares
  BY TapeGrows
<1>2. t.price \in Nat /\ t.shares \in Nat
  BY BarsAssumption DEF Trades
<1>3. /\ bar.start = T[a].timestamp /\ bar.open = T[a].price
      /\ bar.volume = Builder!Volumes(T)[n] - Builder!Volumes(T)[a - 1]
      /\ bar.trade_count = n - a + 1
      /\ \A i \in a .. n : BucketIn(clock, T, i) = bar.bucket /\ T[i].price <= bar.high
                           /\ bar.low <= T[i].price
  BY DEF Covers
<1>4. PICK h \in a .. n : bar.high = T[h].price
  BY DEF Covers
<1>5. PICK l \in a .. n : bar.low = T[l].price
  BY DEF Covers
<1>6. /\ h \in 1 .. n /\ l \in 1 .. n /\ a \in Nat /\ a <= n /\ a >= 1 /\ a - 1 \in 0 .. n
      /\ \A i \in a .. n : i \in 1 .. n
      /\ \A i \in a .. n + 1 : i \in a .. n \/ i = n + 1
      /\ \A i \in a .. n : i \in a .. n + 1
      /\ n + 1 \in a .. n + 1
  BY <1>1
<1>7. bar.high \in Nat /\ bar.low \in Nat /\ \A i \in 1 .. n : T[i].price \in Nat
  BY <1>4, <1>5, <1>6, SharesOfTrade
<1>8. /\ b.bucket = bar.bucket /\ b.start = bar.start /\ b.open = bar.open
      /\ b.end = t.timestamp /\ b.close = t.price /\ b.volume = bar.volume + t.shares
      /\ b.trade_count = bar.trade_count + 1
      /\ b.high = (IF bar.high >= t.price THEN bar.high ELSE t.price)
      /\ b.low = (IF bar.low <= t.price THEN bar.low ELSE t.price)
  BY <1>2, <1>7, OfTwo DEF Builder!Folded
<1>9. /\ Builder!Volumes(T)[n] \in Nat /\ Builder!Volumes(T)[a - 1] \in Nat
      /\ Builder!Volumes(R)[a - 1] = Builder!Volumes(T)[a - 1]
  BY <1>1, <1>6, VolumesType, n \in 0 .. n
<1> HIDE DEF R, b
<1>10. \A i \in a .. n + 1 : BucketIn(clock, R, i) = b.bucket
  BY <1>1, <1>3, <1>6, <1>8 DEF R
<1>11. b.start = R[a].timestamp /\ b.open = R[a].price
  BY <1>1, <1>3, <1>8
<1>12. b.end = R[n + 1].timestamp /\ b.close = R[n + 1].price
  BY <1>1, <1>8
<1>13. \E i \in a .. n + 1 : b.high = R[i].price
  BY <1>1, <1>4, <1>6, <1>8
<1>14. \E i \in a .. n + 1 : b.low = R[i].price
  BY <1>1, <1>5, <1>6, <1>8
<1>15. ASSUME NEW i \in a .. n + 1 PROVE R[i].price <= b.high /\ b.low <= R[i].price
  <2>1. CASE i = n + 1
    BY <1>1, <1>2, <1>7, <1>8, <2>1
  <2>2. CASE i \in a .. n
    <3>1. /\ R[i].price = T[i].price /\ T[i].price \in Nat
          /\ T[i].price <= bar.high /\ bar.low <= T[i].price
      BY <1>1, <1>3, <1>6, <1>7, <2>2
    <3>2. \A p, q, x \in Nat : x <= p => x <= IF p >= q THEN p ELSE q
      OBVIOUS
    <3>3. \A p, q, x \in Nat : p <= x => (IF p <= q THEN p ELSE q) <= x
      OBVIOUS
    <3>4. R[i].price <= b.high
      BY <1>2, <1>7, <1>8, <3>1, <3>2
    <3>5. b.low <= R[i].price
      BY <1>2, <1>7, <1>8, <3>1, <3>3
    <3> QED
      BY <3>4, <3>5
  <2> QED
    BY <1>6, <2>1, <2>2
<1>16. b.volume = Builder!Volumes(R)[n + 1] - Builder!Volumes(R)[a - 1]
  <2>1. \A x, y, z \in Nat : (x - y) + z = (x + z) - y
    OBVIOUS
  <2>2. b.volume = (Builder!Volumes(T)[n] - Builder!Volumes(T)[a - 1]) + t.shares
    BY <1>3, <1>8
  <2> QED
    BY <1>1, <1>2, <1>9, <2>1, <2>2
<1>17. b.trade_count = (n + 1) - a + 1
  BY <1>1, <1>3, <1>6, <1>8
<1>18. Covers(clock, R, b, a, n + 1)
  BY <1>10, <1>11, <1>12, <1>13, <1>14, <1>15, <1>16, <1>17 DEF Covers
<1> QED
  BY <1>18 DEF R, b

LEMMA BeginCovers ==
  ASSUME NEW T \in Seq(Trades), NEW t \in Trades, NEW clock,
         Builder!bucket(t) = BucketIn(clock, Append(T, t), Len(T) + 1)
  PROVE  /\ Covers(clock, Append(T, t), Builder!Folded(Builder!Begun(t), t), Len(T) + 1, Len(T) + 1)
         /\ Builder!Folded(Builder!Begun(t), t).bucket = Builder!bucket(t)
<1> DEFINE R == Append(T, t)
           n == Len(T)
           b == Builder!Folded(Builder!Begun(t), t)
<1>1. /\ R[n + 1] = t /\ n \in Nat
      /\ \A i \in 0 .. n : Builder!Volumes(R)[i] = Builder!Volumes(T)[i]
      /\ Builder!Volumes(R)[n + 1] = Builder!Volumes(T)[n] + t.shares
      /\ Builder!Volumes(T)[n] \in Nat
  <2>1. n \in Nat
    BY DEF n
  <2>2. /\ R[Len(T) + 1] = t
        /\ \A i \in 0 .. Len(T) : Builder!Volumes(R)[i] = Builder!Volumes(T)[i]
        /\ Builder!Volumes(R)[Len(T) + 1] = Builder!Volumes(T)[Len(T)] + t.shares
        /\ Builder!Volumes(T)[Len(T)] \in Nat
    BY TapeGrows DEF R
  <2> QED
    BY <2>1, <2>2 DEF n
<1>2. t.price \in Nat /\ t.shares \in Nat
  BY BarsAssumption DEF Trades
<1>3. Builder!Begun(t) = [bucket |-> Builder!bucket(t), start |-> t.timestamp, end |-> 0,
                          open |-> t.price, high |-> t.price, low |-> t.price, close |-> 0,
                          volume |-> 0, trade_count |-> 0]
  BY DEF Builder!Begun
<1>4. Builder!Max({t.price, t.price}) = t.price /\ Builder!Min({t.price, t.price}) = t.price
  BY <1>2, OfTwo
<1>5. /\ b.bucket = Builder!bucket(t) /\ b.start = t.timestamp /\ b.open = t.price
      /\ b.end = t.timestamp /\ b.close = t.price /\ b.volume = t.shares /\ b.trade_count = 1
      /\ b.high = t.price /\ b.low = t.price
  BY <1>2, <1>3, <1>4 DEF Builder!Folded
<1>6. /\ n + 1 \in n + 1 .. n + 1 /\ \A i \in n + 1 .. n + 1 : i = n + 1
      /\ (n + 1) - 1 = n /\ n \in 0 .. n
  BY <1>1
<1> HIDE DEF b, R
<1>7. b.volume = Builder!Volumes(R)[n + 1] - Builder!Volumes(R)[(n + 1) - 1]
  BY <1>1, <1>2, <1>5, <1>6
<1>8. b.trade_count = (n + 1) - (n + 1) + 1
  BY <1>1, <1>5
<1>9. \A i \in n + 1 .. n + 1 : BucketIn(clock, R, i) = b.bucket
  BY <1>5, <1>6 DEF R
<1>10. \A i \in n + 1 .. n + 1 : R[i].price = b.high /\ R[i].price = b.low
  BY <1>1, <1>5, <1>6
<1>11. \A i \in n + 1 .. n + 1 : R[i].price <= b.high /\ b.low <= R[i].price
  BY <1>2, <1>1, <1>5, <1>6
<1>12. Covers(clock, R, b, n + 1, n + 1)
  BY <1>1, <1>5, <1>6, <1>7, <1>8, <1>9, <1>10, <1>11 DEF Covers
<1> QED
  BY <1>5, <1>12 DEF b, R

\* A bar of the last trades joins the bars.
Joins(clock, T, B, e, flushes) ==
  /\ e.upto = Len(T) /\ Cuts(clock, T, B, flushes)
  /\ Upto(B, Len(B)) \in Nat /\ Upto(B, Len(B)) + 1 <= Len(T)
  /\ Covers(clock, T, e.bar, Upto(B, Len(B)) + 1, Len(T))
  /\ Len(B) # 0 /\ e.bar.bucket = B[Len(B)].bar.bucket => B[Len(B)].upto \in flushes
LEMMA CutsOn ==
  ASSUME NEW T \in Seq(Trades), NEW S, NEW B \in Seq(S), NEW e \in S, NEW clock, NEW flushes,
         Joins(clock, T, B, e, flushes)
  PROVE  Cuts(clock, T, Append(B, e), flushes) /\ Upto(Append(B, e), Len(B) + 1) = Len(T)
<1> DEFINE C == Append(B, e)
           n == Len(B)
<1>1. /\ Len(C) = n + 1 /\ C[n + 1] = e /\ n \in Nat /\ Len(T) \in Nat
      /\ \A k \in 1 .. n : C[k] = B[k]
  BY AppendProperties
<1>2. /\ e.upto = Len(T) /\ Cuts(clock, T, B, flushes)
      /\ Upto(B, n) \in Nat /\ Upto(B, n) + 1 <= Len(T)
      /\ Covers(clock, T, e.bar, Upto(B, n) + 1, Len(T))
      /\ n # 0 /\ e.bar.bucket = B[n].bar.bucket => B[n].upto \in flushes
  BY DEF Joins
<1> HIDE DEF C
<1>3. \A k \in 0 .. n : Upto(C, k) = Upto(B, k)
  BY <1>1 DEF Upto
<1>4. ASSUME NEW k \in 1 .. n + 1
      PROVE  /\ C[k].upto \in 1 .. Len(T) /\ Upto(C, k - 1) \in Nat
             /\ Upto(C, k - 1) + 1 <= C[k].upto
             /\ Covers(clock, T, C[k].bar, Upto(C, k - 1) + 1, C[k].upto)
  <2>1. CASE k = n + 1
    <3>1. k - 1 = n /\ n \in 0 .. n
      BY <1>1, <2>1
    <3>2. Upto(C, k - 1) = Upto(B, n)
      BY <1>3, <3>1
    <3>3. Len(T) \in 1 .. Len(T)
      BY <1>1, <1>2
    <3> QED
      BY <1>1, <1>2, <2>1, <3>2, <3>3
  <2>2. CASE k \in 1 .. n
    <3>1. k - 1 \in 0 .. n
      BY <1>1, <2>2
    <3> QED
      BY <1>1, <1>2, <1>3, <2>2, <3>1 DEF Cuts
  <2> QED
    BY <1>1, <2>1, <2>2
<1>5. ASSUME NEW k \in 2 .. n + 1, C[k].bar.bucket = C[k - 1].bar.bucket
      PROVE  C[k - 1].upto \in flushes
  <2>1. CASE k = n + 1
    <3>1. k - 1 = n /\ n \in 1 .. n /\ n # 0
      BY <1>1, <2>1
    <3> QED
      BY <1>1, <1>2, <1>5, <2>1, <3>1
  <2>2. CASE k \in 2 .. n
    <3>1. k - 1 \in 1 .. n /\ k \in 1 .. n
      BY <1>1, <2>2
    <3> QED
      BY <1>1, <1>2, <1>5, <2>2, <3>1 DEF Cuts
  <2> QED
    BY <1>1, <2>1, <2>2
<1>6. Cuts(clock, T, C, flushes)
  BY <1>1, <1>4, <1>5 DEF Cuts
<1>7. Upto(C, n + 1) = Len(T)
  BY <1>1, <1>2 DEF Upto
<1> QED
  BY <1>6, <1>7 DEF C

\* The bars before the last one cut the tape before it.
LEMMA CutsBefore ==
  ASSUME NEW T, NEW clock, NEW S, NEW B \in Seq(S), NEW e \in S, NEW flushes,
         Cuts(clock, T, Append(B, e), flushes)
  PROVE  /\ Cuts(clock, T, B, flushes)
         /\ e.upto \in 1 .. Len(T) /\ Upto(B, Len(B)) \in Nat /\ Upto(B, Len(B)) + 1 <= e.upto
         /\ Covers(clock, T, e.bar, Upto(B, Len(B)) + 1, e.upto)
         /\ Len(B) # 0 /\ e.bar.bucket = B[Len(B)].bar.bucket => B[Len(B)].upto \in flushes
<1> DEFINE C == Append(B, e)
           n == Len(B)
<1>1. /\ Len(C) = n + 1 /\ C[n + 1] = e /\ n \in Nat
      /\ \A k \in 1 .. n : C[k] = B[k]
  BY AppendProperties
<1> HIDE DEF C
<1>2. \A k \in 0 .. n : Upto(C, k) = Upto(B, k)
  BY <1>1 DEF Upto
<1>3. Cuts(clock, T, C, flushes)
  BY DEF C
<1>4. ASSUME NEW k \in 1 .. n
      PROVE  /\ B[k].upto \in 1 .. Len(T) /\ Upto(B, k - 1) \in Nat
             /\ Upto(B, k - 1) + 1 <= B[k].upto
             /\ Covers(clock, T, B[k].bar, Upto(B, k - 1) + 1, B[k].upto)
  <2>1. k - 1 \in 0 .. n /\ k \in 1 .. n + 1
    BY <1>1
  <2> QED
    BY <1>1, <1>2, <1>3, <2>1 DEF Cuts
<1>5. ASSUME NEW k \in 2 .. n, B[k].bar.bucket = B[k - 1].bar.bucket
      PROVE  B[k - 1].upto \in flushes
  <2>1. k - 1 \in 1 .. n /\ k \in 1 .. n /\ k \in 2 .. n + 1
    BY <1>1
  <2> QED
    BY <1>1, <1>3, <1>5, <2>1 DEF Cuts
<1>6. /\ e.upto \in 1 .. Len(T) /\ Upto(B, n) \in Nat /\ Upto(B, n) + 1 <= e.upto
      /\ Covers(clock, T, e.bar, Upto(B, n) + 1, e.upto)
  <2>1. n + 1 \in 1 .. n + 1 /\ (n + 1) - 1 = n /\ n \in 0 .. n
    BY <1>1
  <2> QED
    BY <1>1, <1>2, <1>3, <2>1 DEF Cuts
<1>7. ASSUME n # 0, e.bar.bucket = B[n].bar.bucket PROVE B[n].upto \in flushes
  <2>1. n + 1 \in 2 .. n + 1 /\ (n + 1) - 1 = n /\ n \in 1 .. n
    BY <1>1, <1>7
  <2> QED
    BY <1>1, <1>3, <1>7, <2>1 DEF Cuts
<1> QED
  BY <1>4, <1>5, <1>6, <1>7 DEF Cuts

\* The bar of a stretch of tape is its summary.
IsSummary(s, bar) ==
  /\ \A field \in DOMAIN Builder!Summary(s) : bar[field] = Builder!Summary(s)[field]
  /\ s # << >>
LEMMA Summarises ==
  ASSUME NEW T \in Seq(Trades), NEW clock, NEW bar, NEW a \in 1 .. Len(T), NEW z \in a .. Len(T),
         Covers(clock, T, bar, a, z), NEW s, s = SubSeq(T, a, z)
  PROVE  IsSummary(s, bar)
<1> DEFINE n == z - a + 1
<1>1. /\ a \in Nat /\ z \in Nat /\ n \in Nat /\ Len(T) \in Nat /\ a >= 1 /\ z <= Len(T)
      /\ a <= z /\ n >= 1
  OBVIOUS
<1>2. Len(s) = n /\ DOMAIN s = 1 .. n /\ \A k \in 1 .. n : s[k] = T[a - 1 + k]
  BY <1>1
<1>3. a - 1 + 1 = a /\ a - 1 + n = z /\ \A i \in a .. z : i - (a - 1) \in 1 .. n
      /\ \A k \in 1 .. n : a - 1 + k \in a .. z
  BY <1>1
<1> HIDE DEF n
<1>4. s[1] = T[a] /\ s[Len(s)] = T[z]
  BY <1>1, <1>2, <1>3
<1> DEFINE P == Builder!PricesOf(s)
<1>5. P = {T[i].price : i \in a .. z}
  <2>1. ASSUME NEW x \in P PROVE x \in {T[i].price : i \in a .. z}
    <3>1. PICK k \in 1 .. n : x = s[k].price
      BY <1>2 DEF Builder!PricesOf
    <3> QED
      BY <1>2, <1>3, <3>1
  <2>2. ASSUME NEW i \in a .. z PROVE T[i].price \in P
    <3>1. i - (a - 1) \in 1 .. n /\ a - 1 + (i - (a - 1)) = i
      BY <1>1, <1>3
    <3> QED
      BY <1>2, <3>1 DEF Builder!PricesOf
  <2> QED
    BY <2>1, <2>2
<1>6. /\ bar.high \in P /\ bar.low \in P /\ \A x \in P : x <= bar.high /\ bar.low <= x
  BY <1>5 DEF Covers
<1>7. P \subseteq Nat
  <2>1. ASSUME NEW i \in a .. z PROVE T[i].price \in Nat
    BY <1>1, SharesOfTrade, i \in 1 .. Len(T)
  <2> QED
    BY <1>5, <2>1
<1> HIDE DEF P
<1>8. Builder!Max(P) = bar.high
  <2>1. ASSUME NEW k \in P, \A j \in P : k >= j PROVE k = bar.high
    <3>1. k >= bar.high /\ bar.high >= k /\ k \in Nat /\ bar.high \in Nat
      BY <1>6, <1>7, <2>1
    <3> QED
      BY <3>1
  <2>2. \A x \in P : bar.high >= x
    BY <1>6, <1>7
  <2> QED
    BY <1>6, <2>1, <2>2 DEF Builder!Max
<1>9. Builder!Min(P) = bar.low
  <2>1. ASSUME NEW k \in P, \A j \in P : k <= j PROVE k = bar.low
    <3>1. k <= bar.low /\ bar.low <= k /\ k \in Nat /\ bar.low \in Nat
      BY <1>6, <1>7, <2>1
    <3> QED
      BY <3>1
  <2> QED
    BY <1>6, <2>1 DEF Builder!Min
<1>10. bar.volume = Builder!Volumes(s)[Len(s)]
  BY VolumeOfStretch DEF Covers
<1>11. bar.trade_count = Len(s)
  BY <1>2 DEF Covers, n
<1>12. /\ bar.start = s[1].timestamp /\ bar.open = s[1].price
       /\ bar.end = s[Len(s)].timestamp /\ bar.close = s[Len(s)].price
  BY <1>4 DEF Covers
<1>13. /\ DOMAIN Builder!Summary(s) =
            {"start", "end", "open", "close", "high", "low", "volume", "trade_count"}
       /\ Builder!Summary(s).start = s[1].timestamp /\ Builder!Summary(s).open = s[1].price
       /\ Builder!Summary(s).end = s[Len(s)].timestamp
       /\ Builder!Summary(s).close = s[Len(s)].price
       /\ Builder!Summary(s).high = Builder!Max(P) /\ Builder!Summary(s).low = Builder!Min(P)
       /\ Builder!Summary(s).volume = Builder!Volumes(s)[Len(s)]
       /\ Builder!Summary(s).trade_count = Len(s)
  BY DEF Builder!Summary, P
<1>14. s # << >>
  BY <1>1, <1>2
<1> QED
  BY <1>8, <1>9, <1>10, <1>11, <1>12, <1>13, <1>14 DEF IsSummary

\* The inductive invariant: the bars and the unfinished one cut the tape.
Numbers == m_tick_index = Len(tape) /\ m_cumulative_volume = Builder!Volumes(tape)[Len(tape)]
BuilderInv ==
  /\ m_clock \in {"time", "tick", "volume"} /\ m_has_bar \in BOOLEAN /\ throws \in 0 .. MaxThrows
  /\ tape \in Seq(Trades) /\ Numbers
  /\ \E S : bars \in Seq(S)
  /\ Cuts(m_clock, tape, Builder!AllBars, flushed)
  /\ Upto(Builder!AllBars, Len(Builder!AllBars)) = Len(tape)
  /\ ~ m_has_bar /\ bars # << >> => Len(tape) \in flushed

\* The bars that were given out, and the unfinished one.
LEMMA AllBarsAre ==
  ASSUME NEW S, NEW B \in Seq(S), NEW e
  PROVE  /\ B \o <<e>> = Append(B, e) /\ B \o << >> = B
         /\ B \in Seq(S \cup {e}) /\ Append(B, e) \in Seq(S \cup {e})
         /\ Len(B) \in Nat /\ Len(Append(B, e)) = Len(B) + 1
  OBVIOUS

LEMMA BuilderStarts == Builder!Init => BuilderInv
<1> SUFFICES ASSUME Builder!Init PROVE BuilderInv
  OBVIOUS
<1>1. /\ m_clock \in {"time", "tick", "volume"} /\ m_has_bar = FALSE
      /\ m_cumulative_volume = 0 /\ m_tick_index = 0
      /\ tape = << >> /\ bars = << >> /\ flushed = {} /\ throws = 0
  BY DEF Builder!Init
<1>2. tape \in Seq(Trades) /\ Len(tape) = 0 /\ bars \in Seq({})
  BY <1>1
<1>3. Builder!AllBars = << >>
  BY <1>1 DEF Builder!AllBars
<1>4. Numbers
  BY <1>1, <1>2, VolumesEquations DEF Numbers
<1>5. Cuts(m_clock, tape, << >>, flushed) /\ Upto(<< >>, Len(<< >>)) = Len(tape)
  BY <1>2 DEF Cuts, Upto
<1>6. /\ Cuts(m_clock, tape, Builder!AllBars, flushed)
      /\ Upto(Builder!AllBars, Len(Builder!AllBars)) = Len(tape)
  BY <1>3, <1>5
<1>9. throws \in 0 .. MaxThrows
  BY <1>1, BarsAssumption
<1>7. throws \in 0 .. MaxThrows /\ m_has_bar \in BOOLEAN
  BY <1>1, <1>9
<1>8. ~ (~ m_has_bar /\ bars # << >>)
  BY <1>1
<1> QED
  BY <1>1, <1>2, <1>4, <1>6, <1>7, <1>8 DEF BuilderInv

\* The numbers a trade leaves, and the bucket it is given.
LEMMA BuilderCounts ==
  ASSUME BuilderInv, NEW t \in Trades, tape' = Append(tape, t), m_clock' = m_clock,
         m_cumulative_volume' = m_cumulative_volume + t.shares, m_tick_index' = m_tick_index + 1
  PROVE  /\ Numbers' /\ tape' \in Seq(Trades) /\ Len(tape') = Len(tape) + 1
         /\ Builder!bucket(t) = BucketIn(m_clock, Append(tape, t), Len(tape) + 1)
<1>1. tape \in Seq(Trades) /\ Len(tape) \in Nat /\ Numbers
  BY DEF BuilderInv
<1>2. /\ tape' \in Seq(Trades) /\ Len(tape') = Len(tape) + 1 /\ tape'[Len(tape) + 1] = t
      /\ Builder!Volumes(tape')[Len(tape)] = Builder!Volumes(tape)[Len(tape)]
      /\ Builder!Volumes(tape')[Len(tape) + 1] = Builder!Volumes(tape)[Len(tape)] + t.shares
  BY <1>1, TapeGrows, Len(tape) \in 0 .. Len(tape)
<1>3. Numbers'
  BY <1>1, <1>2 DEF Numbers
<1>4. (Len(tape) + 1) - 1 = Len(tape)
  BY <1>1
<1>5. Builder!bucket(t) = BucketIn(m_clock, tape', Len(tape) + 1)
  BY <1>1, <1>2, <1>4 DEF Numbers, Builder!bucket, Builder!TimeClock, Builder!TickClock,
     Builder!VolumeClock, BucketIn
<1> QED
  BY <1>2, <1>3, <1>5

LEMMA BuilderAdds ==
  ASSUME BuilderInv, NEW t \in Builder!Trade, Builder!add(t)
  PROVE  BuilderInv'
<1> DEFINE R == Append(tape, t)
           n == Len(tape)
           A == Builder!AllBars
           e == [bar |-> m_bar, upto |-> n]
           f == [bar |-> m_bar', upto |-> n + 1]
<1>1. /\ m_clock \in {"time", "tick", "volume"} /\ m_has_bar \in BOOLEAN
      /\ throws \in 0 .. MaxThrows /\ tape \in Seq(Trades) /\ n \in Nat
      /\ Cuts(m_clock, tape, A, flushed) /\ Upto(A, Len(A)) = n
      /\ ~ m_has_bar /\ bars # << >> => n \in flushed
  BY DEF BuilderInv
<1>2. PICK S : bars \in Seq(S)
  BY DEF BuilderInv
<1>3. t \in Trades
  BY DEF Builder!Trade, Trades
<1>4. /\ m_has_bar' = TRUE /\ tape' = R /\ m_clock' = m_clock /\ flushed' = flushed
      /\ throws' = throws /\ m_cumulative_volume' = m_cumulative_volume + t.shares
      /\ m_tick_index' = m_tick_index + 1
  BY DEF Builder!add
<1>5. /\ Numbers' /\ R \in Seq(Trades) /\ Len(R) = n + 1
      /\ Builder!bucket(t) = BucketIn(m_clock, R, n + 1)
  BY <1>3, <1>4, BuilderCounts
<1>6. /\ bars \o <<e>> = Append(bars, e) /\ bars \o << >> = bars
      /\ bars \in Seq(S \cup {e}) /\ Append(bars, e) \in Seq(S \cup {e})
      /\ Len(bars) \in Nat /\ Len(Append(bars, e)) = Len(bars) + 1
  BY <1>2, AllBarsAre
<1>7. A = IF m_has_bar THEN Append(bars, e) ELSE bars
  BY <1>6 DEF Builder!AllBars
<1>8. e.bar = m_bar /\ e.upto = n /\ f.bar = m_bar' /\ f = [bar |-> m_bar', upto |-> Len(R)]
  BY <1>5
<1> HIDE DEF R, e, f, A
<1>9. ASSUME NEW Q, bars' \in Seq(Q) PROVE Builder!AllBars' = Append(bars', f)
  BY <1>4, <1>5, <1>9, AllBarsAre DEF Builder!AllBars, f
<1>10. ASSUME NEW Q, bars' \in Seq(Q), Cuts(m_clock, R, Append(bars', f), flushed),
              Upto(Append(bars', f), Len(bars') + 1) = n + 1
       PROVE  BuilderInv'
  <2>1. Builder!AllBars' = Append(bars', f) /\ Len(Append(bars', f)) = Len(bars') + 1
    BY <1>9, <1>10, AllBarsAre
  <2> QED
    BY <1>1, <1>4, <1>5, <1>10, <2>1 DEF BuilderInv
<1>11. CASE m_has_bar /\ ~ Builder!Closes(t)
  <2>1. /\ bars' = bars /\ m_bar' = Builder!Folded(m_bar, t) /\ Builder!bucket(t) = m_bar.bucket
    BY <1>11 DEF Builder!add, Builder!Closes
  <2>2. /\ A = Append(bars, e) /\ bars \in Seq(S \cup {e}) /\ e \in S \cup {e}
    BY <1>6, <1>7, <1>11
  <2>3. /\ Cuts(m_clock, tape, bars, flushed)
        /\ Upto(bars, Len(bars)) \in Nat /\ Upto(bars, Len(bars)) + 1 <= n /\ n \in 1 .. n
        /\ Covers(m_clock, tape, m_bar, Upto(bars, Len(bars)) + 1, n)
        /\ Len(bars) # 0 /\ m_bar.bucket = bars[Len(bars)].bar.bucket
             => bars[Len(bars)].upto \in flushed
    <3>1. Cuts(m_clock, tape, Append(bars, e), flushed)
      BY <1>1, <2>2
    <3>2. /\ Cuts(m_clock, tape, bars, flushed)
          /\ e.upto \in 1 .. n
          /\ Upto(bars, Len(bars)) \in Nat /\ Upto(bars, Len(bars)) + 1 <= e.upto
          /\ Covers(m_clock, tape, e.bar, Upto(bars, Len(bars)) + 1, e.upto)
          /\ Len(bars) # 0 /\ e.bar.bucket = bars[Len(bars)].bar.bucket
               => bars[Len(bars)].upto \in flushed
      BY <2>2, <3>1, CutsBefore
    <3> QED
      BY <1>8, <3>2
  <2>4. Cuts(m_clock, R, bars, flushed)
    BY <1>1, <1>3, <2>3, CutsStays DEF R
  <2>5. Covers(m_clock, R, m_bar', Upto(bars, Len(bars)) + 1, n + 1)
    BY <1>1, <1>3, <1>5, <2>1, <2>3, FoldCovers, Upto(bars, Len(bars)) + 1 \in 1 .. n DEF R
  <2>6. m_bar'.bucket = m_bar.bucket
    BY <2>1 DEF Builder!Folded
  <2>7. bars \in Seq(S \cup {f}) /\ f \in S \cup {f}
    BY <1>2, AllBarsAre
  <2>8. Upto(bars, Len(bars)) + 1 <= Len(R)
    BY <1>1, <1>5, <2>3
  <2>9. /\ Cuts(m_clock, R, Append(bars, f), flushed)
        /\ Upto(Append(bars, f), Len(bars) + 1) = n + 1
    <3>1. Joins(m_clock, R, bars, f, flushed)
      BY <1>5, <1>8, <2>3, <2>4, <2>5, <2>6, <2>8 DEF Joins
    <3>2. R \in Seq(Trades)
      BY <1>5
    <3>3. /\ Cuts(m_clock, R, Append(bars, f), flushed)
          /\ Upto(Append(bars, f), Len(bars) + 1) = Len(R)
      BY <2>7, <3>1, <3>2, CutsOn
    <3> QED
      BY <1>5, <3>3
  <2> QED
    BY <1>10, <2>1, <2>7, <2>9
<1>12. CASE ~ (m_has_bar /\ ~ Builder!Closes(t))
  <2>1. bars' = A /\ m_bar' = Builder!Folded(Builder!Begun(t), t)
    BY <1>7, <1>12 DEF Builder!add, Builder!Closes, Builder!emit, e
  <2> DEFINE Q == (S \cup {e}) \cup {f}
  <2>2. A \in Seq(Q) /\ f \in Q
    <3>1. A \in Seq(S \cup {e})
      BY <1>6, <1>7
    <3> QED
      BY <3>1, AllBarsAre
  <2> HIDE DEF Q
  <2>3. Cuts(m_clock, R, A, flushed)
    BY <1>1, <1>3, CutsStays DEF R
  <2>4. /\ Covers(m_clock, R, m_bar', n + 1, n + 1) /\ m_bar'.bucket = Builder!bucket(t)
    BY <1>1, <1>3, <1>5, <2>1, BeginCovers DEF R
  <2>5. ASSUME Len(A) # 0, m_bar'.bucket = A[Len(A)].bar.bucket
        PROVE  A[Len(A)].upto \in flushed
    <3>1. A[Len(A)].upto = n
      BY <1>1, <2>5 DEF Upto
    <3>2. CASE m_has_bar
      <4>1. A[Len(A)] = e
        BY <1>2, <1>6, <1>7, <3>2
      <4>2. Builder!bucket(t) # m_bar.bucket
        BY <1>12, <3>2 DEF Builder!Closes
      <4> QED
        BY <1>8, <2>4, <2>5, <4>1, <4>2
    <3>3. CASE ~ m_has_bar
      <4>1. bars # << >>
        BY <1>7, <2>5, <3>3
      <4> QED
        BY <1>1, <3>1, <3>3, <4>1
    <3> QED
      BY <3>2, <3>3
  <2>6. Upto(A, Len(A)) \in Nat /\ Upto(A, Len(A)) + 1 <= Len(R)
    BY <1>1, <1>5
  <2>7. /\ Cuts(m_clock, R, Append(A, f), flushed) /\ Upto(Append(A, f), Len(A) + 1) = n + 1
    <3>1. Joins(m_clock, R, A, f, flushed)
      BY <1>1, <1>5, <1>8, <2>3, <2>4, <2>5, <2>6 DEF Joins
    <3>2. R \in Seq(Trades)
      BY <1>5
    <3>3. /\ Cuts(m_clock, R, Append(A, f), flushed)
          /\ Upto(Append(A, f), Len(A) + 1) = Len(R)
      BY <2>2, <3>1, <3>2, CutsOn
    <3> QED
      BY <1>5, <3>3
  <2> QED
    BY <1>10, <2>1, <2>2, <2>7
<1> QED
  BY <1>11, <1>12

LEMMA BuilderFlushes == BuilderInv /\ Builder!flush => BuilderInv'
<1> SUFFICES ASSUME BuilderInv, Builder!flush PROVE BuilderInv'
  OBVIOUS
<1> DEFINE e == [bar |-> m_bar, upto |-> Len(tape)]
           A == Builder!AllBars
<1>1. /\ m_clock \in {"time", "tick", "volume"} /\ m_has_bar \in BOOLEAN
      /\ throws \in 0 .. MaxThrows /\ tape \in Seq(Trades) /\ Numbers
      /\ Cuts(m_clock, tape, A, flushed) /\ Upto(A, Len(A)) = Len(tape)
  BY DEF BuilderInv
<1>2. PICK S : bars \in Seq(S)
  BY DEF BuilderInv
<1>3. /\ m_has_bar' = FALSE /\ flushed' = flushed \cup {Len(tape)} /\ m_clock' = m_clock
      /\ m_tick_index' = m_tick_index /\ m_cumulative_volume' = m_cumulative_volume
      /\ tape' = tape /\ throws' = throws
      /\ bars' = IF m_has_bar THEN Append(bars, e) ELSE bars
  BY DEF Builder!flush, Builder!emit
<1>4. /\ bars \o <<e>> = Append(bars, e) /\ bars \o << >> = bars
      /\ bars \in Seq(S \cup {e}) /\ Append(bars, e) \in Seq(S \cup {e})
  BY <1>2, AllBarsAre
<1>5. bars' = A /\ bars' \in Seq(S \cup {e})
  BY <1>3, <1>4 DEF Builder!AllBars
<1> HIDE DEF e, A
<1>6. Builder!AllBars' = A
  BY <1>3, <1>5, AllBarsAre DEF Builder!AllBars
<1>7. Cuts(m_clock, tape, A, flushed \cup {Len(tape)})
  BY <1>1 DEF Cuts
<1>8. Numbers'
  BY <1>1, <1>3 DEF Numbers
<1> QED
  BY <1>1, <1>3, <1>5, <1>6, <1>7, <1>8 DEF BuilderInv, A

LEMMA BuilderKeeps == BuilderInv /\ [Builder!Next]_(Builder!vars) => BuilderInv'
<1> SUFFICES ASSUME BuilderInv, [Builder!Next]_(Builder!vars) PROVE BuilderInv'
  OBVIOUS
<1>1. /\ m_clock \in {"time", "tick", "volume"} /\ m_has_bar \in BOOLEAN
      /\ throws \in 0 .. MaxThrows /\ tape \in Seq(Trades) /\ Numbers
      /\ Cuts(m_clock, tape, Builder!AllBars, flushed)
      /\ Upto(Builder!AllBars, Len(Builder!AllBars)) = Len(tape)
      /\ ~ m_has_bar /\ bars # << >> => Len(tape) \in flushed
      /\ \E S : bars \in Seq(S)
  BY DEF BuilderInv
<1>2. ASSUME m_clock' = m_clock, m_bar' = m_bar, m_has_bar' = m_has_bar,
             m_cumulative_volume' = m_cumulative_volume, m_tick_index' = m_tick_index,
             tape' = tape, bars' = bars, flushed' = flushed, throws' \in 0 .. MaxThrows
      PROVE  BuilderInv'
  <2>1. Builder!AllBars' = Builder!AllBars /\ Numbers'
    BY <1>1, <1>2 DEF Builder!AllBars, Numbers
  <2> QED
    BY <1>1, <1>2, <2>1 DEF BuilderInv
<1>3. CASE Builder!EmitThrows
  <2>1. throws' \in 0 .. MaxThrows
    BY <1>1, <1>3, BarsAssumption DEF Builder!EmitThrows
  <2> QED
    BY <1>2, <1>3, <2>1 DEF Builder!EmitThrows, Builder!members
<1>4. CASE UNCHANGED Builder!vars
  BY <1>1, <1>2, <1>4 DEF Builder!vars, Builder!members
<1> QED
  BY <1>3, <1>4, BuilderAdds, BuilderFlushes
  DEF Builder!Next, Builder!AddThrows, Builder!FlushThrows

\* The bars cut the tape without gap or overlap, each the summary of its stretch and of
\* one bucket of the clock: for every tape, clock and bucket size, however often the bars
\* are flushed and the callback throws.
THEOREM Barred == Builder!Spec => []BarsAreExact
<1>1. BuilderInv => BarsAreExact
  <2> SUFFICES ASSUME BuilderInv PROVE BarsAreExact
    OBVIOUS
  <2> DEFINE A == Builder!AllBars
             n == Len(tape)
  <2>1. /\ m_clock \in {"time", "tick", "volume"} /\ m_has_bar \in BOOLEAN
        /\ throws \in 0 .. MaxThrows /\ tape \in Seq(Trades) /\ Numbers
        /\ Cuts(m_clock, tape, A, flushed) /\ Upto(A, Len(A)) = n /\ n \in Nat
    BY DEF BuilderInv
  <2>2. /\ Len(A) \in Nat /\ DOMAIN A = 1 .. Len(A) /\ (A # << >> => Len(A) # 0)
    <3>1. PICK S : bars \in Seq(S)
      BY DEF BuilderInv
    <3> DEFINE e == [bar |-> m_bar, upto |-> Len(tape)]
    <3>3. /\ bars \o <<e>> = Append(bars, e) /\ bars \o << >> = bars
          /\ bars \in Seq(S \cup {e}) /\ Append(bars, e) \in Seq(S \cup {e})
      BY <3>1, AllBarsAre
    <3>2. A \in Seq(S \cup {e})
      BY <3>3 DEF Builder!AllBars
    <3> HIDE DEF A, e
    <3> QED
      BY <3>2
  <2>3. \A k \in 1 .. Len(A) : Builder!From(k) = Upto(A, k - 1) + 1
    BY <2>2 DEF Builder!From, Upto
  <2>4. \A i : Builder!BucketOf(i) = BucketIn(m_clock, tape, i)
    BY DEF Builder!BucketOf, Builder!VolumeBefore, BucketIn
  <2> HIDE DEF A
  <2>5. ASSUME NEW k \in 1 .. Len(A)
        PROVE  /\ A[k].upto \in 1 .. n /\ Builder!From(k) \in 1 .. n
               /\ A[k].upto \in Builder!From(k) .. n
               /\ Covers(m_clock, tape, A[k].bar, Builder!From(k), A[k].upto)
    <3>1. /\ A[k].upto \in 1 .. n /\ Upto(A, k - 1) \in Nat
          /\ Upto(A, k - 1) + 1 <= A[k].upto
          /\ Covers(m_clock, tape, A[k].bar, Upto(A, k - 1) + 1, A[k].upto)
      BY <2>1 DEF Cuts
    <3> QED
      BY <2>1, <2>3, <3>1
  <2>6. ASSUME NEW k \in 1 .. Len(A)
        PROVE  /\ \A field \in DOMAIN Builder!Summary(Builder!Stretch(k)) :
                    A[k].bar[field] = Builder!Summary(Builder!Stretch(k))[field]
               /\ Builder!Stretch(k) # << >>
    <3>1. Builder!Stretch(k) = SubSeq(tape, Builder!From(k), A[k].upto)
      BY DEF Builder!Stretch, A
    <3>2. /\ tape \in Seq(Trades) /\ Builder!From(k) \in 1 .. Len(tape)
          /\ A[k].upto \in Builder!From(k) .. Len(tape)
          /\ Covers(m_clock, tape, A[k].bar, Builder!From(k), A[k].upto)
      BY <2>1, <2>5
    <3>3. PICK a \in 1 .. Len(tape) : a = Builder!From(k)
      BY <3>2
    <3>4. PICK z \in a .. Len(tape) : z = A[k].upto
      BY <3>2, <3>3
    <3> DEFINE s == Builder!Stretch(k)
               b == A[k].bar
    <3>5. s = SubSeq(tape, a, z) /\ Covers(m_clock, tape, b, a, z)
      BY <3>1, <3>2, <3>3, <3>4
    <3> HIDE DEF s, b
    <3>6. IsSummary(s, b)
      <4>1. tape \in Seq(Trades)
        BY <2>1
      <4> QED
        BY <3>5, <4>1, Summarises
    <3> QED
      BY <3>6 DEF s, b, IsSummary
  <2>7. Builder!BarsPartitionTape
    <3>1. A # << >> => Builder!Stretch(Len(A)) # << >> /\ A[Len(A)].upto = n
      BY <2>1, <2>2, <2>6 DEF Upto
    <3> QED
      BY <2>2, <2>6, <3>1 DEF Builder!BarsPartitionTape, A
  <2>8. Builder!BarsFollowClock
    <3>1. ASSUME NEW k \in 1 .. Len(A), NEW i \in Builder!From(k) .. A[k].upto
          PROVE  Builder!BucketOf(i) = A[k].bar.bucket
      BY <2>4, <2>5 DEF Covers
    <3>2. \A k \in 2 .. Len(A) :
            A[k].bar.bucket = A[k - 1].bar.bucket => A[k - 1].upto \in flushed
      BY <2>1 DEF Cuts
    <3> QED
      BY <2>2, <3>1, <3>2 DEF Builder!BarsFollowClock, A
  <2>9. Builder!TypeOK
    BY <2>1, VolumesType, n \in 0 .. n DEF Builder!TypeOK, Numbers
  <2> QED
    BY <2>7, <2>8, <2>9 DEF BarsAreExact
<1> QED
  BY <1>1, BuilderStarts, BuilderKeeps, PTL DEF Builder!Spec

-----------------------------------------------------------------------------
(* The exporters.                                                          *)

LEMMA ColumnsAre ==
  /\ Out!Column = {"message_type", "timestamp", "stock_locate", "tracking_number", "symbol",
                   "reference_number", "side", "shares", "price", "match_number", "printable", "extra"}
  /\ Out!Column = {Out!Columns[i] : i \in 1 .. 12} /\ Len(Out!Columns) = 12
<1>1. DOMAIN Out!Columns = 1 .. 12 /\ Len(Out!Columns) = 12
  BY DEF Out!Columns
<1>2. Out!Column = {Out!Columns[i] : i \in 1 .. 12}
  BY <1>1 DEF Out!Column, Out!Range
<1> QED
  BY <1>1, <1>2 DEF Out!Columns

\* The two sinks show the same fields in the same columns, but for a stock directory's
\* market category.
LEMMA CellsAgree ==
  ASSUME NEW t, NEW c \in Out!Column
  PROVE  Out!ArrowCells(t)[c] = Out!build_row(t)[c] \/ (t = "R" /\ c = "extra")
<1>1. Out!OrderRows = Out!ArrowOrderCells
  BY DEF Out!OrderRows, Out!ArrowOrderCells
<1>2. /\ DOMAIN Out!TradeRows = {"U", "P", "Q", "S", "R"}
      /\ DOMAIN Out!ArrowTradeCells = {"U", "P", "Q", "S", "R"}
      /\ \A x \in {"U", "P", "Q", "S"} : Out!TradeRows[x] = Out!ArrowTradeCells[x]
  BY DEF Out!TradeRows, Out!ArrowTradeCells
<1>3. c # "extra" => Out!Joined(Out!TradeRows["R"], Out!CommonRow)[c] =
                       Out!Joined(Out!ArrowTradeCells["R"], Out!CommonRow)[c]
  BY DEF Out!TradeRows, Out!ArrowTradeCells, Out!Joined, Out!CommonRow
<1>4. CASE t \in DOMAIN Out!OrderRows
  BY <1>1, <1>4 DEF Out!ArrowCells, Out!build_row, Out!CsvRows, Out!Joined
<1>5. CASE t \notin DOMAIN Out!OrderRows /\ t \in {"U", "P", "Q", "S", "R"}
  <2>1. /\ Out!build_row(t) = Out!Joined(Out!TradeRows[t], Out!CommonRow)
        /\ Out!ArrowCells(t) = Out!Joined(Out!ArrowTradeCells[t], Out!CommonRow)
    BY <1>1, <1>2, <1>5 DEF Out!ArrowCells, Out!build_row, Out!CsvRows, Out!Joined
  <2> QED
    BY <1>2, <1>3, <1>5, <2>1
<1>6. CASE t \notin DOMAIN Out!OrderRows /\ t \notin {"U", "P", "Q", "S", "R"}
  BY <1>1, <1>2, <1>6 DEF Out!ArrowCells, Out!build_row, Out!CsvRows, Out!Joined
<1> QED
  BY <1>4, <1>5, <1>6

LEMMA CommonFields ==
  {f[1] : f \in Out!Range(Out!Common)} = {"message_type", "timestamp", "stock_locate", "tracking_number"}
BY DEF Out!Range, Out!Common, Out!Char, Out!U16, Out!U64

\* The fields of the types a book and a tape are rebuilt from: what their struct has is
\* what their row shows.
LEMMA RowsHaveAllFields ==
  ASSUME NEW t \in DOMAIN Out!OrderStructs \cup {"P", "Q", "S"}
  PROVE  Out!Shown(Out!build_row(t)) = Out!Fields(t)
<1>1. /\ DOMAIN Out!OrderRows = {"A", "F", "E", "C", "X", "D"}
      /\ DOMAIN Out!TradeRows = {"U", "P", "Q", "S", "R"}
      /\ DOMAIN Out!CommonRow = Out!Column
  BY DEF Out!OrderRows, Out!TradeRows, Out!CommonRow
<1>2. /\ DOMAIN Out!AdminStructs = {"S", "R", "H", "Y", "L"}
      /\ DOMAIN Out!MarketStructs = {"V", "W", "K", "J", "h"}
      /\ DOMAIN Out!OrderStructs = {"A", "F", "E", "C", "X", "D", "U"}
      /\ DOMAIN Out!TradeStructs = {"P", "Q", "B", "I", "N", "O"}
  BY DEF Out!AdminStructs, Out!MarketStructs, Out!OrderStructs, Out!TradeStructs
<1>3. ASSUME NEW fields, NEW row, DOMAIN row \subseteq Out!Column,
             Out!build_row(t) = Out!Joined(row, Out!CommonRow),
             {f[1] : f \in Out!Range(Out!Structs[t])} = fields,
             {row[c] : c \in DOMAIN row} = fields, "blank" \notin fields,
             DOMAIN row \cap {"message_type", "timestamp", "stock_locate", "tracking_number"} = {}
      PROVE  Out!Shown(Out!build_row(t)) = Out!Fields(t)
  <2>1. Out!Fields(t) = fields \cup {"message_type", "timestamp", "stock_locate", "tracking_number"}
    BY <1>3, CommonFields DEF Out!Fields
  <2> DEFINE j == Out!Joined(row, Out!CommonRow)
  <2>2. /\ DOMAIN j = Out!Column
        /\ \A c \in DOMAIN row : j[c] = row[c]
        /\ \A c \in Out!Column \ DOMAIN row : j[c] = Out!CommonRow[c]
    BY <1>1, <1>3 DEF Out!Joined
  <2>3. /\ \A c \in {"message_type", "timestamp", "stock_locate", "tracking_number"} :
             c \in Out!Column /\ Out!CommonRow[c] = c
        /\ \A c \in Out!Column \ {"message_type", "timestamp", "stock_locate", "tracking_number"} :
             Out!CommonRow[c] = "blank"
    BY ColumnsAre DEF Out!CommonRow, Out!Blank
  <2>4. {j[c] : c \in DOMAIN j} \ {"blank"} =
          fields \cup {"message_type", "timestamp", "stock_locate", "tracking_number"}
    <3> HIDE DEF j
    <3> QED
      BY <1>3, <2>2, <2>3
  <2> QED
    BY <1>3, <2>1, <2>4 DEF Out!Shown, Out!Blank
<1>4. CASE t = "A"
  <2> DEFINE row == Out!OrderRows[t]
             fields == {"order_reference_number", "buy_sell_indicator", "shares", "stock", "price"}
  <2>1. Out!build_row(t) = Out!Joined(row, Out!CommonRow)
    BY <1>1, <1>4 DEF Out!build_row, Out!CsvRows, Out!Joined
  <2>2. Out!Structs[t] = Out!OrderStructs[t]
    BY <1>2, <1>4 DEF Out!Structs, Out!Joined
  <2>3. {f[1] : f \in Out!Range(Out!OrderStructs[t])} = fields
    BY <1>4 DEF Out!Range, Out!OrderStructs, Out!Char, Out!Chars, Out!Stock, Out!U16, Out!U32, Out!U64
  <2>4. /\ DOMAIN row \subseteq Out!Column /\ {row[c] : c \in DOMAIN row} = fields
        /\ DOMAIN row \cap {"message_type", "timestamp", "stock_locate", "tracking_number"} = {}
    BY <1>4, ColumnsAre DEF Out!OrderRows
  <2> QED
    BY <1>3, <2>1, <2>2, <2>3, <2>4
<1>5. CASE t = "F"
  <2> DEFINE row == Out!OrderRows[t]
             fields == {"order_reference_number", "buy_sell_indicator", "shares", "stock", "price", "attribution"}
  <2>1. Out!build_row(t) = Out!Joined(row, Out!CommonRow)
    BY <1>1, <1>5 DEF Out!build_row, Out!CsvRows, Out!Joined
  <2>2. Out!Structs[t] = Out!OrderStructs[t]
    BY <1>2, <1>5 DEF Out!Structs, Out!Joined
  <2>3. {f[1] : f \in Out!Range(Out!OrderStructs[t])} = fields
    BY <1>5 DEF Out!Range, Out!OrderStructs, Out!Char, Out!Chars, Out!Stock, Out!U16, Out!U32, Out!U64
  <2>4. /\ DOMAIN row \subseteq Out!Column /\ {row[c] : c \in DOMAIN row} = fields
        /\ DOMAIN row \cap {"message_type", "timestamp", "stock_locate", "tracking_number"} = {}
    BY <1>5, ColumnsAre DEF Out!OrderRows
  <2> QED
    BY <1>3, <2>1, <2>2, <2>3, <2>4
<1>6. CASE t = "E"
  <2> DEFINE row == Out!OrderRows[t]
             fields == {"order_reference_number", "executed_shares", "match_number"}
  <2>1. Out!build_row(t) = Out!Joined(row, Out!CommonRow)
    BY <1>1, <1>6 DEF Out!build_row, Out!CsvRows, Out!Joined
  <2>2. Out!Structs[t] = Out!OrderStructs[t]
    BY <1>2, <1>6 DEF Out!Structs, Out!Joined
  <2>3. {f[1] : f \in Out!Range(Out!OrderStructs[t])} = fields
    BY <1>6 DEF Out!Range, Out!OrderStructs, Out!Char, Out!Chars, Out!Stock, Out!U16, Out!U32, Out!U64
  <2>4. /\ DOMAIN row \subseteq Out!Column /\ {row[c] : c \in DOMAIN row} = fields
        /\ DOMAIN row \cap {"message_type", "timestamp", "stock_locate", "tracking_number"} = {}
    BY <1>6, ColumnsAre DEF Out!OrderRows
  <2> QED
    BY <1>3, <2>1, <2>2, <2>3, <2>4
<1>7. CASE t = "C"
  <2> DEFINE row == Out!OrderRows[t]
             fields == {"order_reference_number", "executed_shares", "match_number", "printable", "execution_price"}
  <2>1. Out!build_row(t) = Out!Joined(row, Out!CommonRow)
    BY <1>1, <1>7 DEF Out!build_row, Out!CsvRows, Out!Joined
  <2>2. Out!Structs[t] = Out!OrderStructs[t]
    BY <1>2, <1>7 DEF Out!Structs, Out!Joined
  <2>3. {f[1] : f \in Out!Range(Out!OrderStructs[t])} = fields
    BY <1>7 DEF Out!Range, Out!OrderStructs, Out!Char, Out!Chars, Out!Stock, Out!U16, Out!U32, Out!U64
  <2>4. /\ DOMAIN row \subseteq Out!Column /\ {row[c] : c \in DOMAIN row} = fields
        /\ DOMAIN row \cap {"message_type", "timestamp", "stock_locate", "tracking_number"} = {}
    BY <1>7, ColumnsAre DEF Out!OrderRows
  <2> QED
    BY <1>3, <2>1, <2>2, <2>3, <2>4
<1>8. CASE t = "X"
  <2> DEFINE row == Out!OrderRows[t]
             fields == {"order_reference_number", "cancelled_shares"}
  <2>1. Out!build_row(t) = Out!Joined(row, Out!CommonRow)
    BY <1>1, <1>8 DEF Out!build_row, Out!CsvRows, Out!Joined
  <2>2. Out!Structs[t] = Out!OrderStructs[t]
    BY <1>2, <1>8 DEF Out!Structs, Out!Joined
  <2>3. {f[1] : f \in Out!Range(Out!OrderStructs[t])} = fields
    BY <1>8 DEF Out!Range, Out!OrderStructs, Out!Char, Out!Chars, Out!Stock, Out!U16, Out!U32, Out!U64
  <2>4. /\ DOMAIN row \subseteq Out!Column /\ {row[c] : c \in DOMAIN row} = fields
        /\ DOMAIN row \cap {"message_type", "timestamp", "stock_locate", "tracking_number"} = {}
    BY <1>8, ColumnsAre DEF Out!OrderRows
  <2> QED
    BY <1>3, <2>1, <2>2, <2>3, <2>4
<1>9. CASE t = "D"
  <2> DEFINE row == Out!OrderRows[t]
             fields == {"order_reference_number"}
  <2>1. Out!build_row(t) = Out!Joined(row, Out!CommonRow)
    BY <1>1, <1>9 DEF Out!build_row, Out!CsvRows, Out!Joined
  <2>2. Out!Structs[t] = Out!OrderStructs[t]
    BY <1>2, <1>9 DEF Out!Structs, Out!Joined
  <2>3. {f[1] : f \in Out!Range(Out!OrderStructs[t])} = fields
    BY <1>9 DEF Out!Range, Out!OrderStructs, Out!Char, Out!Chars, Out!Stock, Out!U16, Out!U32, Out!U64
  <2>4. /\ DOMAIN row \subseteq Out!Column /\ {row[c] : c \in DOMAIN row} = fields
        /\ DOMAIN row \cap {"message_type", "timestamp", "stock_locate", "tracking_number"} = {}
    BY <1>9, ColumnsAre DEF Out!OrderRows
  <2> QED
    BY <1>3, <2>1, <2>2, <2>3, <2>4
<1>10. CASE t = "U"
  <2> DEFINE row == Out!TradeRows[t]
             fields == {"original_order_reference_number", "new_order_reference_number", "shares", "price"}
  <2>1. Out!build_row(t) = Out!Joined(row, Out!CommonRow)
    BY <1>1, <1>10 DEF Out!build_row, Out!CsvRows, Out!Joined
  <2>2. Out!Structs[t] = Out!OrderStructs[t]
    BY <1>2, <1>10 DEF Out!Structs, Out!Joined
  <2>3. {f[1] : f \in Out!Range(Out!OrderStructs[t])} = fields
    BY <1>10 DEF Out!Range, Out!OrderStructs, Out!Char, Out!Chars, Out!Stock, Out!U16, Out!U32, Out!U64
  <2>4. /\ DOMAIN row \subseteq Out!Column /\ {row[c] : c \in DOMAIN row} = fields
        /\ DOMAIN row \cap {"message_type", "timestamp", "stock_locate", "tracking_number"} = {}
    BY <1>10, ColumnsAre DEF Out!TradeRows
  <2> QED
    BY <1>3, <2>1, <2>2, <2>3, <2>4
<1>11. CASE t = "P"
  <2> DEFINE row == Out!TradeRows[t]
             fields == {"order_reference_number", "buy_sell_indicator", "shares", "stock", "price", "match_number"}
  <2>1. Out!build_row(t) = Out!Joined(row, Out!CommonRow)
    BY <1>1, <1>11 DEF Out!build_row, Out!CsvRows, Out!Joined
  <2>2. Out!Structs[t] = Out!TradeStructs[t]
    BY <1>2, <1>11 DEF Out!Structs, Out!Joined
  <2>3. {f[1] : f \in Out!Range(Out!TradeStructs[t])} = fields
    BY <1>11 DEF Out!Range, Out!TradeStructs, Out!Char, Out!Chars, Out!Stock, Out!U16, Out!U32, Out!U64
  <2>4. /\ DOMAIN row \subseteq Out!Column /\ {row[c] : c \in DOMAIN row} = fields
        /\ DOMAIN row \cap {"message_type", "timestamp", "stock_locate", "tracking_number"} = {}
    BY <1>11, ColumnsAre DEF Out!TradeRows
  <2> QED
    BY <1>3, <2>1, <2>2, <2>3, <2>4
<1>12. CASE t = "Q"
  <2> DEFINE row == Out!TradeRows[t]
             fields == {"shares", "stock", "cross_price", "match_number", "cross_type"}
  <2>1. Out!build_row(t) = Out!Joined(row, Out!CommonRow)
    BY <1>1, <1>12 DEF Out!build_row, Out!CsvRows, Out!Joined
  <2>2. Out!Structs[t] = Out!TradeStructs[t]
    BY <1>2, <1>12 DEF Out!Structs, Out!Joined
  <2>3. {f[1] : f \in Out!Range(Out!TradeStructs[t])} = fields
    BY <1>12 DEF Out!Range, Out!TradeStructs, Out!Char, Out!Chars, Out!Stock, Out!U16, Out!U32, Out!U64
  <2>4. /\ DOMAIN row \subseteq Out!Column /\ {row[c] : c \in DOMAIN row} = fields
        /\ DOMAIN row \cap {"message_type", "timestamp", "stock_locate", "tracking_number"} = {}
    BY <1>12, ColumnsAre DEF Out!TradeRows
  <2> QED
    BY <1>3, <2>1, <2>2, <2>3, <2>4
<1>13. CASE t = "S"
  <2> DEFINE row == Out!TradeRows[t]
             fields == {"event_code"}
  <2>1. Out!build_row(t) = Out!Joined(row, Out!CommonRow)
    BY <1>1, <1>13 DEF Out!build_row, Out!CsvRows, Out!Joined
  <2>2. Out!Structs[t] = Out!AdminStructs[t]
    BY <1>2, <1>13 DEF Out!Structs, Out!Joined
  <2>3. {f[1] : f \in Out!Range(Out!AdminStructs[t])} = fields
    BY <1>13 DEF Out!Range, Out!AdminStructs, Out!Char, Out!Chars, Out!Stock, Out!U16, Out!U32, Out!U64
  <2>4. /\ DOMAIN row \subseteq Out!Column /\ {row[c] : c \in DOMAIN row} = fields
        /\ DOMAIN row \cap {"message_type", "timestamp", "stock_locate", "tracking_number"} = {}
    BY <1>13, ColumnsAre DEF Out!TradeRows
  <2> QED
    BY <1>3, <2>1, <2>2, <2>3, <2>4
<1> QED
  BY <1>2, <1>4, <1>5, <1>6, <1>7, <1>8, <1>9, <1>10, <1>11, <1>12, <1>13

\* A cell of a Parquet column, and the stretch of n cells of column c behind message a.
Cells == {<<k, Out!ArrowCells(t)[c]>> : k \in Nat, t \in ExportTypes, c \in Out!Column}
Stretch(s, e, c, a, n) ==
  /\ s \in Seq(Cells) /\ Len(s) = n /\ a \in Nat /\ n \in Nat /\ a + n <= Len(e)
  /\ \A i \in 1 .. n : s[i] = <<a + i, Out!ArrowCells(e[a + i])[c]>>
Tables == [table : [Out!Column -> Seq(Cells)], chunk_size : Nat]
\* A file shows the messages of one stretch, all before those the builders hold.
Whole(f, e, b) ==
  \E a, n \in Nat :
    /\ \A c \in Out!Column : Stretch(f.table[c], e, c, a, n)
    /\ \A c \in Out!Column : a + n <= Len(e) - Len(b[c])
    /\ f.chunk_size > 0 /\ f.chunk_size >= n
Apart(fs) ==
  \A f, g \in DOMAIN fs : f # g =>
    Out!Range(fs[f].table["timestamp"]) \cap Out!Range(fs[g].table["timestamp"]) = {}

\* The inductive invariant: every builder holds the last messages, as many as since it was
\* emptied.
Held(b, e) ==
  /\ b \in [Out!Column -> Seq(Cells)]
  /\ \A c \in Out!Column : Stretch(b[c], e, c, Len(e) - Len(b[c]), Len(b[c]))
SinkInv ==
  /\ exported \in Seq(ExportTypes)
  /\ row_count = Len(exported) /\ m_rows_written = Len(exported)
  /\ m_out = [i \in 1 .. Len(exported) |-> Out!build_row(exported[i])]
  /\ Held(builders, exported)
  /\ files \in Seq(Tables) /\ (\A i \in 1 .. Len(files) : Whole(files[i], exported, builders))
  /\ Apart(files)

LEMMA StretchLasts ==
  ASSUME NEW e \in Seq(ExportTypes), NEW t \in ExportTypes, NEW c, NEW s, NEW a, NEW n, Stretch(s, e, c, a, n)
  PROVE  Stretch(s, Append(e, t), c, a, n)
<1>1. Len(e) \in Nat /\ Len(Append(e, t)) = Len(e) + 1 /\ a \in Nat /\ n \in Nat /\ a + n <= Len(e)
  BY DEF Stretch
<1>2. \A i \in 1 .. Len(e) : Append(e, t)[i] = e[i]
  OBVIOUS
<1>3. \A i \in 1 .. n : a + i \in 1 .. Len(e)
  BY <1>1
<1> QED
  BY <1>1, <1>2, <1>3 DEF Stretch

LEMMA StretchGrows ==
  ASSUME NEW e \in Seq(ExportTypes), NEW t \in ExportTypes, NEW c \in Out!Column, NEW s,
         Stretch(s, e, c, Len(e) - Len(s), Len(s)),
         NEW x, x = <<Len(e) + 1, Out!ArrowCells(t)[c]>>
  PROVE  LET r == Append(s, x)
             d == Append(e, t)
         IN  /\ Stretch(r, d, c, Len(d) - Len(r), Len(r)) /\ r \in Seq(Cells)
             /\ Len(r) = Len(s) + 1
<1> DEFINE d == Append(e, t)
           r == Append(s, x)
<1>1. /\ Len(e) \in Nat /\ s \in Seq(Cells) /\ Len(s) \in Nat /\ Len(e) - Len(s) \in Nat
      /\ \A i \in 1 .. Len(s) : s[i] = <<Len(e) - Len(s) + i, Out!ArrowCells(e[Len(e) - Len(s) + i])[c]>>
  BY DEF Stretch
<1>2. x \in Cells
  BY <1>1 DEF Cells
<1>3. /\ Len(d) = Len(e) + 1 /\ d[Len(e) + 1] = t
      /\ \A i \in 1 .. Len(e) : d[i] = e[i]
  OBVIOUS
<1>4. /\ r \in Seq(Cells) /\ Len(r) = Len(s) + 1 /\ r[Len(s) + 1] = x
      /\ \A i \in 1 .. Len(s) : r[i] = s[i]
  BY <1>1, <1>2, AppendProperties
<1>5. Len(d) - Len(r) = Len(e) - Len(s)
  BY <1>1, <1>3, <1>4
<1> DEFINE a == Len(e) - Len(s)
<1>6. a \in Nat /\ Len(e) = a + Len(s)
  BY <1>1
<1>7. ASSUME NEW i \in 1 .. Len(r) PROVE r[i] = <<a + i, Out!ArrowCells(d[a + i])[c]>>
  <2>1. CASE i = Len(s) + 1
    <3>1. a + i = Len(e) + 1
      BY <1>1, <1>6, <2>1
    <3> QED
      BY <1>3, <1>4, <2>1, <3>1
  <2>2. CASE i # Len(s) + 1
    <3>1. i \in 1 .. Len(s) /\ a + i \in 1 .. Len(e)
      BY <1>1, <1>4, <1>6, <2>2
    <3>2. r[i] = s[i] /\ d[a + i] = e[a + i]
      BY <1>3, <1>4, <3>1
    <3> QED
      BY <1>1, <3>1, <3>2
  <2> QED
    BY <2>1, <2>2
<1>8. Stretch(r, d, c, a, Len(r))
  <2>1. a + Len(r) <= Len(d) /\ Len(r) \in Nat
    BY <1>1, <1>3, <1>4, <1>6
  <2> HIDE DEF r, d, a
  <2> QED
    BY <1>4, <1>6, <1>7, <2>1 DEF Stretch
<1> QED
  BY <1>4, <1>5, <1>8

LEMMA NothingHeld ==
  ASSUME NEW e \in Seq(ExportTypes), NEW c
  PROVE  Stretch(<< >>, e, c, Len(e) - Len(<< >>), Len(<< >>)) /\ << >> \in Seq(Cells)
<1>1. Len(e) \in Nat /\ Len(<< >>) = 0 /\ << >> \in Seq(Cells) /\ Len(e) - 0 \in Nat /\ Len(e) - 0 + 0 <= Len(e)
  OBVIOUS
<1> QED
  BY <1>1 DEF Stretch

\* Emptying some of the builders.
LEMMA EmptiedHeld ==
  ASSUME NEW e \in Seq(ExportTypes), NEW b, Held(b, e), NEW r, r = [c \in Out!Column |-> r[c]],
         \A c \in Out!Column : r[c] = << >> \/ r[c] = b[c]
  PROVE  /\ Held(r, e)
         /\ \A c \in Out!Column : Len(r[c]) <= Len(b[c]) /\ Len(r[c]) \in Nat /\ Len(b[c]) \in Nat
         /\ \A f : Whole(f, e, b) => Whole(f, e, r)
<1>1. ASSUME NEW c \in Out!Column
      PROVE  /\ Stretch(r[c], e, c, Len(e) - Len(r[c]), Len(r[c])) /\ r[c] \in Seq(Cells)
             /\ Len(r[c]) <= Len(b[c]) /\ Len(r[c]) \in Nat /\ Len(b[c]) \in Nat
  <2>1. b[c] \in Seq(Cells) /\ Stretch(b[c], e, c, Len(e) - Len(b[c]), Len(b[c])) /\ Len(b[c]) \in Nat
    BY DEF Held, Stretch
  <2>2. CASE r[c] = << >>
    <3>1. Len(<< >>) = 0
      OBVIOUS
    <3> QED
      BY <2>1, <2>2, <3>1, NothingHeld
  <2>3. CASE r[c] = b[c]
    BY <2>1, <2>3
  <2> QED
    BY <2>2, <2>3
<1>2. Held(r, e)
  BY <1>1 DEF Held
<1>3. ASSUME NEW f, Whole(f, e, b) PROVE Whole(f, e, r)
  <2>1. PICK a, n \in Nat : /\ \A c \in Out!Column : Stretch(f.table[c], e, c, a, n)
                            /\ \A c \in Out!Column : a + n <= Len(e) - Len(b[c])
                            /\ f.chunk_size > 0 /\ f.chunk_size >= n
    BY <1>3 DEF Whole
  <2>2. ASSUME NEW c \in Out!Column PROVE a + n <= Len(e) - Len(r[c])
    <3>1. Len(e) \in Nat /\ Len(r[c]) \in Nat /\ Len(b[c]) \in Nat /\ Len(r[c]) <= Len(b[c])
      BY <1>1
    <3>2. a + n <= Len(e) - Len(b[c])
      BY <2>1
    <3> QED
      BY <3>1, <3>2
  <2> QED
    BY <2>1, <2>2 DEF Whole
<1> QED
  BY <1>1, <1>2, <1>3

LEMMA SinkStarts == Out!Init => SinkInv
<1> SUFFICES ASSUME Out!Init PROVE SinkInv
  OBVIOUS
<1>1. /\ exported = << >> /\ exported \in Seq(ExportTypes) /\ Len(exported) = 0
      /\ files = << >> /\ files \in Seq(Tables) /\ Len(files) = 0 /\ DOMAIN files = {}
  BY DEF Out!Init
<1>2. m_out = [i \in 1 .. Len(exported) |-> Out!build_row(exported[i])]
  <2>1. m_out = << >> /\ 1 .. Len(exported) = {}
    BY <1>1 DEF Out!Init
  <2> QED
    BY <2>1
<1>3. Held(builders, exported)
  BY <1>1, NothingHeld DEF Out!Init, Held
<1> QED
  BY <1>1, <1>2, <1>3 DEF Out!Init, SinkInv, Apart

\* What the invariant says of the rows and the files.
LEMMA SinkSound ==
  ASSUME SinkInv
  PROVE  ExportsAreFaithful
<1> USE DEF SinkInv
<1>1. Len(exported) \in Nat /\ "symbol" \in Out!Column /\ "timestamp" \in Out!Column
      /\ DOMAIN files = 1 .. Len(files)
  BY ColumnsAre
<1>2. ASSUME NEW f \in DOMAIN files
      PROVE  \E a, n \in Nat :
               /\ a + n <= Len(exported) /\ files[f].chunk_size > 0 /\ files[f].chunk_size >= n
               /\ \A c \in Out!Column :
                    /\ Len(files[f].table[c]) = n /\ DOMAIN files[f].table[c] = 1 .. n
                    /\ \A i \in 1 .. n :
                         files[f].table[c][i] = <<a + i, Out!ArrowCells(exported[a + i])[c]>>
  <2>1. PICK a, n \in Nat : /\ \A c \in Out!Column : Stretch(files[f].table[c], exported, c, a, n)
                            /\ files[f].chunk_size > 0 /\ files[f].chunk_size >= n
    BY <1>1, <1>2 DEF Whole
  <2>2. ASSUME NEW c \in Out!Column
        PROVE  /\ Len(files[f].table[c]) = n /\ DOMAIN files[f].table[c] = 1 .. n
               /\ a + n <= Len(exported)
               /\ \A i \in 1 .. n :
                    files[f].table[c][i] = <<a + i, Out!ArrowCells(exported[a + i])[c]>>
    BY <2>1 DEF Stretch
  <2> QED
    BY <1>1, <2>1, <2>2
<1>3. Out!TypeOK
  <2>1. Len(m_out) = Len(exported)
    BY <1>1
  <2> QED
    BY <1>1, <1>2, <2>1 DEF Out!TypeOK
<1>4. Out!RowsAreLossless
  <2>1. \A i \in DOMAIN exported : m_out[i] = Out!build_row(exported[i])
    BY <1>1
  <2> QED
    BY <2>1, RowsHaveAllFields DEF Out!RowsAreLossless
<1>5. Out!ParquetAgreesWithCsv
  <2> SUFFICES ASSUME NEW f \in DOMAIN files, NEW c \in Out!Column, NEW i \in DOMAIN files[f].table[c]
               PROVE  LET cell == files[f].table[c][i]
                      IN  cell[2] = m_out[cell[1]][c] \/ (exported[cell[1]] = "R" /\ c = "extra")
    BY DEF Out!ParquetAgreesWithCsv
  <2>1. PICK a, n \in Nat :
               /\ a + n <= Len(exported) /\ DOMAIN files[f].table[c] = 1 .. n
               /\ \A j \in 1 .. n :
                    files[f].table[c][j] = <<a + j, Out!ArrowCells(exported[a + j])[c]>>
    BY <1>2
  <2>2. a + i \in 1 .. Len(exported)
    BY <1>1, <2>1
  <2>3. m_out[a + i] = Out!build_row(exported[a + i])
    BY <2>2
  <2>4. /\ files[f].table[c][i][1] = a + i
        /\ files[f].table[c][i][2] = Out!ArrowCells(exported[a + i])[c]
    <3>1. i \in 1 .. n
      BY <2>1
    <3>2. files[f].table[c][i] = <<a + i, Out!ArrowCells(exported[a + i])[c]>>
      BY <2>1, <3>1
    <3> QED
      BY <3>2
  <2>5. \/ Out!ArrowCells(exported[a + i])[c] = Out!build_row(exported[a + i])[c]
        \/ exported[a + i] = "R" /\ c = "extra"
    BY CellsAgree
  <2> QED
    BY <2>3, <2>4, <2>5
<1>6. Out!FilesHoldWholeRows
  <2>1. ASSUME NEW f \in DOMAIN files, NEW c \in Out!Column, NEW i \in DOMAIN files[f].table[c]
        PROVE  files[f].table[c][i][1] = files[f].table["timestamp"][i][1]
    <3>1. PICK a, n \in Nat :
               \A d \in Out!Column :
                    /\ DOMAIN files[f].table[d] = 1 .. n
                    /\ \A j \in 1 .. n :
                         files[f].table[d][j] = <<a + j, Out!ArrowCells(exported[a + j])[d]>>
      BY <1>2
    <3> QED
      BY <1>1, <3>1
  <2> QED
    BY <2>1 DEF Out!FilesHoldWholeRows, Apart
<1> QED
  BY <1>3, <1>4, <1>5, <1>6 DEF ExportsAreFaithful

\* A call that empties builders and writes no file.
LEMMA SinkEmptied ==
  ASSUME SinkInv, NEW k \in Nat, builders' = Out!Finished(k),
         UNCHANGED <<exported, m_out, m_rows_written, row_count, files>>
  PROVE  SinkInv'
<1>1. /\ builders' = [c \in Out!Column |-> builders'[c]]
      /\ \A c \in Out!Column : builders'[c] = << >> \/ builders'[c] = builders[c]
  BY DEF Out!Finished
<1>2. Held(builders', exported) /\ \A f : Whole(f, exported, builders) => Whole(f, exported, builders')
  BY <1>1, EmptiedHeld DEF SinkInv
<1> QED
  BY <1>2 DEF SinkInv, Apart

LEMMA SinkWrites ==
  ASSUME SinkInv, Out!Writes, UNCHANGED <<exported, m_out, m_rows_written, row_count>>
  PROVE  SinkInv'
<1> DEFINE e    == exported
           n    == Len(builders["timestamp"])
           a    == Len(e) - n
           file_ == [table |-> builders, chunk_size |-> IF row_count > 0 THEN row_count ELSE 1]
<1>1. /\ \A c, d \in Out!Column : Len(builders[c]) = Len(builders[d])
      /\ builders' = Out!Finished(Len(Out!Columns)) /\ files' = Append(files, file_)
  BY DEF Out!Writes
<1>2. /\ "timestamp" \in Out!Column /\ Len(e) \in Nat /\ e \in Seq(ExportTypes) /\ files \in Seq(Tables)
      /\ Len(files) \in Nat /\ row_count = Len(e)
  BY ColumnsAre DEF SinkInv
<1>3. \A c \in Out!Column : builders'[c] = << >>
  <2>1. \A c \in Out!Column : \E i \in 1 .. 12 : Out!Columns[i] = c
    BY ColumnsAre
  <2> QED
    BY <1>1, <2>1, ColumnsAre DEF Out!Finished
<1>4. Held(builders', e) /\ \A f : Whole(f, e, builders) => Whole(f, e, builders')
  <2>1. builders' = [c \in Out!Column |-> builders'[c]]
    BY <1>1 DEF Out!Finished
  <2> QED
    BY <1>2, <1>3, <2>1, EmptiedHeld DEF SinkInv
<1>5. \A c \in Out!Column : Stretch(builders[c], e, c, a, n)
  BY <1>1, <1>2 DEF SinkInv, Held
<1>6. a \in Nat /\ n \in Nat /\ a + n = Len(e)
  <2>1. Stretch(builders["timestamp"], e, "timestamp", a, n)
    BY <1>2, <1>5
  <2>2. a \in Nat /\ n \in Nat
    BY <2>1 DEF Stretch
  <2> QED
    BY <1>2, <2>2
<1>7. Whole(file_, e, builders')
  <2>1. \A c \in Out!Column : a + n <= Len(e) - Len(builders'[c])
    <3>1. Len(<< >>) = 0
      OBVIOUS
    <3> QED
      BY <1>2, <1>3, <1>6, <3>1
  <2>2. file_.table = builders /\ file_.chunk_size > 0 /\ file_.chunk_size >= n
    BY <1>2, <1>6
  <2> HIDE DEF a, n, file_
  <2> QED
    BY <1>5, <1>6, <2>1, <2>2 DEF Whole
<1>8. file_ \in Tables
  BY <1>2 DEF SinkInv, Held, Tables
<1>9. /\ files' \in Seq(Tables) /\ Len(files') = Len(files) + 1 /\ files'[Len(files) + 1] = file_
      /\ \A i \in 1 .. Len(files) : files'[i] = files[i]
      /\ DOMAIN files' = 1 .. Len(files) + 1
  <2> HIDE DEF file_
  <2> QED
    BY <1>1, <1>2, <1>8, AppendProperties
<1>10. \A i \in 1 .. Len(files') : Whole(files'[i], e, builders')
  <2>1. \A i \in 1 .. Len(files) : Whole(files[i], e, builders)
    BY DEF SinkInv
  <2> HIDE DEF file_
  <2> QED
    BY <1>2, <1>4, <1>7, <1>9, <2>1
<1>11. ASSUME NEW f \in 1 .. Len(files)
       PROVE  Out!Range(files[f].table["timestamp"]) \cap Out!Range(builders["timestamp"]) = {}
  <2>1. Whole(files[f], e, builders)
    BY DEF SinkInv
  <2>2. PICK b, k \in Nat : /\ Stretch(files[f].table["timestamp"], e, "timestamp", b, k)
                            /\ b + k <= Len(e) - n
    BY <1>2, <2>1 DEF Whole
  <2>3. ASSUME NEW i \in DOMAIN files[f].table["timestamp"], NEW j \in DOMAIN builders["timestamp"]
        PROVE  files[f].table["timestamp"][i] # builders["timestamp"][j]
    <3>1. /\ i \in 1 .. k
          /\ files[f].table["timestamp"][i] = <<b + i, Out!ArrowCells(e[b + i])["timestamp"]>>
      <4> DEFINE s == files[f].table["timestamp"]
      <4>1. Stretch(s, e, "timestamp", b, k)
        BY <2>2
      <4>2. i \in DOMAIN s
        OBVIOUS
      <4> HIDE DEF s, e
      <4>3. DOMAIN s = 1 .. k
        BY <4>1 DEF Stretch
      <4>4. i \in 1 .. k /\ s[i] = <<b + i, Out!ArrowCells(e[b + i])["timestamp"]>>
        BY <4>1, <4>2, <4>3 DEF Stretch
      <4> QED
        BY <4>4 DEF s
    <3>2. /\ j \in 1 .. n
          /\ builders["timestamp"][j] = <<a + j, Out!ArrowCells(e[a + j])["timestamp"]>>
      <4>1. Stretch(builders["timestamp"], e, "timestamp", a, n)
        BY <1>2, <1>5
      <4> HIDE DEF a, n
      <4>2. DOMAIN builders["timestamp"] = 1 .. n
        BY <4>1 DEF Stretch
      <4> QED
        BY <4>1, <4>2 DEF Stretch
    <3>3. b + i # a + j
      <4>1. Len(e) - n = a
        OBVIOUS
      <4> HIDE DEF a, n
      <4> QED
        BY <1>6, <2>2, <3>1, <3>2, <4>1
    <3> QED
      BY <3>1, <3>2, <3>3
  <2> QED
    BY <2>3 DEF Out!Range
<1>12. Apart(files')
  <2> SUFFICES ASSUME NEW f \in 1 .. Len(files) + 1, NEW g \in 1 .. Len(files) + 1, f # g
               PROVE  Out!Range(files'[f].table["timestamp"]) \cap Out!Range(files'[g].table["timestamp"]) = {}
    BY <1>9 DEF Apart
  <2>1. file_.table = builders
    OBVIOUS
  <2> HIDE DEF file_
  <2>2. CASE f \in 1 .. Len(files) /\ g \in 1 .. Len(files)
    <3>1. DOMAIN files = 1 .. Len(files)
      BY <1>2
    <3> QED
      BY <1>9, <2>2, <3>1 DEF SinkInv, Apart
  <2>3. CASE f = Len(files) + 1
    <3>1. g \in 1 .. Len(files)
      BY <1>2, <2>3
    <3> QED
      BY <1>9, <1>11, <2>1, <2>3, <3>1
  <2>4. CASE g = Len(files) + 1
    <3>1. f \in 1 .. Len(files)
      BY <1>2, <2>4
    <3> QED
      BY <1>9, <1>11, <2>1, <2>4, <3>1
  <2> QED
    BY <1>2, <2>2, <2>3, <2>4
<1> QED
  BY <1>2, <1>4, <1>9, <1>10, <1>12 DEF SinkInv

LEMMA SinkExports ==
  ASSUME SinkInv, NEW t \in ExportTypes, Out!Export(t)
  PROVE  SinkInv'
<1> DEFINE e == exported
           d == Append(e, t)
<1>1. /\ exported' = d /\ m_out' = Append(m_out, Out!build_row(t))
      /\ m_rows_written' = m_rows_written + 1 /\ row_count' = row_count + 1 /\ files' = files
      /\ builders' = [c \in Out!Column |-> Append(builders[c], <<row_count + 1, Out!ArrowCells(t)[c]>>)]
  BY DEF Out!Export, Out!write, Out!append, Out!Appended
<1>2. /\ e \in Seq(ExportTypes) /\ Len(e) \in Nat /\ row_count = Len(e) /\ m_rows_written = Len(e)
      /\ d \in Seq(ExportTypes) /\ Len(d) = Len(e) + 1 /\ d[Len(e) + 1] = t
      /\ \A i \in 1 .. Len(e) : d[i] = e[i]
  BY DEF SinkInv
<1>3. m_out' = [i \in 1 .. Len(d) |-> Out!build_row(d[i])]
  <2> DEFINE S == {Out!build_row(x) : x \in ExportTypes}
             r == Out!build_row(t)
  <2>1. m_out \in Seq(S) /\ Len(m_out) = Len(e) /\ r \in S
    <3>1. m_out = [i \in 1 .. Len(e) |-> Out!build_row(e[i])]
      BY DEF SinkInv
    <3>2. \A i \in 1 .. Len(e) : Out!build_row(e[i]) \in S
      BY <1>2
    <3> HIDE DEF S
    <3>3. m_out \in [1 .. Len(e) -> S]
      BY <3>1, <3>2
    <3>4. \A n \in Nat : \A g \in [1 .. n -> S] : g \in Seq(S) /\ Len(g) = n
      OBVIOUS
    <3>5. Out!build_row(t) \in S
      BY DEF S
    <3> QED
      BY <1>2, <3>3, <3>4, <3>5
  <2>2. /\ Len(m_out') = Len(e) + 1 /\ m_out'[Len(e) + 1] = r /\ m_out' \in Seq(S)
        /\ \A i \in 1 .. Len(e) : m_out'[i] = m_out[i]
    <3> HIDE DEF S, r
    <3> QED
      BY <1>1, <2>1, AppendProperties DEF r
  <2>3. \A i \in 1 .. Len(e) : m_out[i] = Out!build_row(e[i])
    BY DEF SinkInv
  <2>4. \A i \in 1 .. Len(e) + 1 : m_out'[i] = Out!build_row(d[i])
    <3> HIDE DEF d
    <3> QED
      BY <1>2, <2>2, <2>3
  <2>5. m_out' = [i \in 1 .. Len(e) + 1 |-> m_out'[i]]
    BY <2>2
  <2> HIDE DEF d
  <2> QED
    BY <1>2, <2>4, <2>5
<1>4. \A c \in Out!Column :
        /\ Stretch(builders'[c], d, c, Len(d) - Len(builders'[c]), Len(builders'[c]))
        /\ builders'[c] \in Seq(Cells) /\ Len(builders'[c]) = Len(builders[c]) + 1
        /\ Len(builders[c]) \in Nat
  <2> SUFFICES ASSUME NEW c \in Out!Column
               PROVE  /\ Stretch(builders'[c], d, c, Len(d) - Len(builders'[c]), Len(builders'[c]))
                      /\ builders'[c] \in Seq(Cells) /\ Len(builders'[c]) = Len(builders[c]) + 1
                      /\ Len(builders[c]) \in Nat
    OBVIOUS
  <2>1. Stretch(builders[c], e, c, Len(e) - Len(builders[c]), Len(builders[c])) /\ Len(builders[c]) \in Nat
    BY DEF SinkInv, Held, Stretch
  <2>2. builders'[c] = Append(builders[c], <<Len(e) + 1, Out!ArrowCells(t)[c]>>)
    BY <1>1, <1>2
  <2> DEFINE s == builders[c]
             x == <<Len(e) + 1, Out!ArrowCells(t)[c]>>
  <2>3. /\ Stretch(Append(s, x), Append(e, t), c, Len(Append(e, t)) - Len(Append(s, x)), Len(Append(s, x)))
        /\ Append(s, x) \in Seq(Cells) /\ Len(Append(s, x)) = Len(s) + 1
    <3>1. Stretch(s, e, c, Len(e) - Len(s), Len(s)) /\ x = <<Len(e) + 1, Out!ArrowCells(t)[c]>>
      BY <2>1
    <3> HIDE DEF s, x
    <3> QED
      BY <1>2, <3>1, StretchGrows
  <2>4. builders'[c] = Append(s, x)
    BY <2>2
  <2> HIDE DEF x
  <2> QED
    BY <2>1, <2>3, <2>4
<1>5. Held(builders', d)
  BY <1>1, <1>4 DEF Held
<1>6. ASSUME NEW f, Whole(f, e, builders) PROVE Whole(f, d, builders')
  <2>1. PICK a, n \in Nat : /\ \A c \in Out!Column : Stretch(f.table[c], e, c, a, n)
                            /\ \A c \in Out!Column : a + n <= Len(e) - Len(builders[c])
                            /\ f.chunk_size > 0 /\ f.chunk_size >= n
    BY <1>6 DEF Whole
  <2>2. \A c \in Out!Column : Stretch(f.table[c], d, c, a, n)
    BY <1>2, <2>1, StretchLasts
  <2>3. ASSUME NEW c \in Out!Column PROVE a + n <= Len(d) - Len(builders'[c])
    <3>1. Len(d) - Len(builders'[c]) = Len(e) - Len(builders[c])
      <4>1. Len(builders'[c]) = Len(builders[c]) + 1 /\ Len(builders[c]) \in Nat
        BY <1>4
      <4> HIDE DEF d
      <4> QED
        BY <1>2, <4>1
    <3> QED
      BY <2>1, <3>1
  <2> HIDE DEF d
  <2> QED
    BY <2>1, <2>2, <2>3 DEF Whole
<1> QED
  BY <1>1, <1>2, <1>3, <1>5, <1>6 DEF SinkInv, Apart

LEMMA SinkKept ==
  ASSUME SinkInv, [Out!Next]_Out!vars
  PROVE  SinkInv'
<1>1. ASSUME NEW t \in ExportTypes, Out!Export(t) PROVE SinkInv'
  BY <1>1, SinkExports
<1>2. CASE Out!write_parquet
  <2>1. UNCHANGED <<exported, m_out, m_rows_written, row_count>>
    BY <1>2 DEF Out!write_parquet
  <2>2. ASSUME NEW k \in FailAt, Out!FinishFails(k) PROVE SinkInv'
    <3>1. k \in Nat /\ builders' = Out!Finished(k) /\ UNCHANGED files
      BY <2>2, OutletsAssumption DEF Out!FinishFails
    <3> QED
      BY <2>1, <3>1, SinkEmptied
  <2>3. CASE Out!WriteFails
    <3>1. 12 \in Nat /\ builders' = Out!Finished(12) /\ UNCHANGED files
      BY <2>3, ColumnsAre DEF Out!WriteFails
    <3> QED
      BY <2>1, <3>1, SinkEmptied
  <2>4. CASE Out!Writes
    BY <2>1, <2>4, SinkWrites
  <2> QED
    BY <1>2, <2>2, <2>3, <2>4 DEF Out!write_parquet
<1>3. CASE UNCHANGED Out!vars
  BY <1>3 DEF Out!vars, SinkInv, Apart
<1> QED
  BY <1>1, <1>2, <1>3 DEF Out!Next

\* CsvSink and ArrowExporter lose nothing and agree, and every file holds whole rows, for
\* any messages and wherever a call of write_parquet fails.
THEOREM Exported == Out!Spec => []ExportsAreFaithful
BY SinkStarts, SinkKept, SinkSound, PTL DEF Out!Spec

-----------------------------------------------------------------------------
(* The command line tool.                                                  *)

\* The recursive function Asked is the one its equations describe.
LEMMA AskedEquations ==
  ASSUME NEW a, NEW m, Len(m) \in Nat
  PROVE  /\ Cli!Asked(a, m)[0] = << >>
         /\ \A k \in 1 .. Len(m) : Cli!Asked(a, m)[k] =
              IF a.has_filter => m[k] \in a.wanted THEN Append(Cli!Asked(a, m)[k - 1], m[k])
              ELSE Cli!Asked(a, m)[k - 1]
<1> DEFINE n == Len(m)
           Step(k, before) == IF a.has_filter => m[k] \in a.wanted THEN Append(before, m[k])
                              ELSE before
           Rec(g, p) == g = [k \in 0 .. p |-> IF k = 0 THEN << >> ELSE Step(k, g[k - 1])]
           T == {p \in 0 .. n : \E g : Rec(g, p)}
<1>0. Cli!Asked(a, m) = CHOOSE g : Rec(g, n)
  BY DEF Cli!Asked
<1> HIDE DEF Step
<1>1. 0 \in T
  <2> DEFINE g == [k \in 0 .. 0 |-> << >>]
  <2>1. Rec(g, 0)
    OBVIOUS
  <2>2. 0 \in 0 .. n
    OBVIOUS
  <2> HIDE DEF g, Rec
  <2> QED
    BY <2>1, <2>2
<1>2. ASSUME NEW i \in 0 .. n - 1, i \in T PROVE i + 1 \in T
  <2>1. PICK g : Rec(g, i)
    BY <1>2
  <2> DEFINE h == [k \in 0 .. i + 1 |-> IF k = i + 1 THEN Step(i + 1, g[i]) ELSE g[k]]
  <2>2. Rec(h, i + 1)
    BY <2>1
  <2> HIDE DEF h, Rec
  <2>3. i + 1 \in 0 .. n
    OBVIOUS
  <2> QED
    BY <2>2, <2>3
<1>3. n \in T
  <2>1. n \in Nat /\ n \in 0 .. n
    OBVIOUS
  <2> HIDE DEF T, n
  <2> QED
    BY <1>1, <1>2, <2>1, UpTo
<1> DEFINE S == CHOOSE g : Rec(g, n)
<1>4. Rec(S, n)
  <2> HIDE DEF Rec
  <2> QED
    BY <1>3
<1> HIDE DEF S
<1>5. /\ S[0] = << >>
      /\ \A k \in 1 .. n : S[k] = Step(k, S[k - 1])
  BY SMTT(60), <1>4
<1>6. Cli!Asked(a, m) = S
  BY <1>0 DEF S
<1> QED
  BY <1>5, <1>6 DEF Step

\* How many of the first n messages are of type t.
Those(t, n) == {i \in 1 .. n : data.messages[i] = t}

\* The inductive invariant: each command's result is that of the messages it has seen.
CliTypes ==
  /\ args \in Cli!Args
  /\ t_pc \in {"start", "read", "dispatch", "messages", "done"}
  /\ data.messages \in Seq(ToolTypes) /\ file.messages \in Seq(ToolTypes)
  /\ index \in 0 .. Len(data.messages)
  /\ counts \in [ToolTypes -> Nat] /\ rows \in Nat /\ written \in Seq(ToolTypes)
CliResults ==
  /\ t_pc \in {"start", "read", "dispatch"} =>
       /\ index = 0 /\ counts = [t \in ToolTypes |-> 0] /\ shown = 0 /\ rows = 0 /\ written = << >>
  /\ \A t \in ToolTypes : counts[t] = IF args.command = "stats" THEN Cardinality(Those(t, index)) ELSE 0
  /\ shown = IF args.command # "inspect" THEN 0
             ELSE IF index < args.limit THEN index ELSE args.limit
  /\ Len(written) <= rows /\ rows <= index
  /\ good /\ args.command \in {"filter", "convert"} => written = Cli!Asked(args, data.messages)[index]
CliEnds ==
  /\ exit # "running" => t_pc = "done"
  /\ exit = "0" => index = Len(data.messages) /\ (~ data.capture => ~ data.cut)
  /\ t_pc \in {"dispatch", "messages"} => data # Cli!Empty
  /\ Cli!OnlyBadInputFails
CliInv == CliTypes /\ CliResults /\ CliEnds

LEMMA FirstOf ==
  ASSUME NEW t
  PROVE  Those(t, 0) = {} /\ Cardinality(Those(t, 0)) = 0
BY FS_EmptySet DEF Those

LEMMA OneMore ==
  ASSUME NEW t, NEW n \in Nat
  PROVE  Cardinality(Those(t, n + 1)) =
           Cardinality(Those(t, n)) + (IF data.messages[n + 1] = t THEN 1 ELSE 0)
<1>1. IsFiniteSet(Those(t, n)) /\ Cardinality(Those(t, n)) \in Nat
  <2>1. IsFiniteSet(1 .. n) /\ Those(t, n) \subseteq 1 .. n
    BY FS_Interval DEF Those
  <2> QED
    BY <2>1, FS_Subset, FS_CardinalityType
<1>2. n + 1 \notin Those(t, n)
  BY DEF Those
<1>3. CASE data.messages[n + 1] = t
  <2>1. Those(t, n + 1) = Those(t, n) \cup {n + 1}
    BY <1>3 DEF Those
  <2> QED
    BY <1>1, <1>2, <1>3, <2>1, FS_AddElement
<1>4. CASE data.messages[n + 1] # t
  <2>1. Those(t, n + 1) = Those(t, n)
    BY <1>4 DEF Those
  <2> QED
    BY <1>1, <1>4, <2>1
<1> QED
  BY <1>3, <1>4

LEMMA CliStarts == Cli!Init => CliInv
<1> SUFFICES ASSUME Cli!Init PROVE CliInv
  OBVIOUS
<1> USE DEF Cli!Init
<1>1. data.messages = << >> /\ file.messages = << >> /\ << >> \in Seq(ToolTypes) /\ Len(<< >>) = 0
  BY DEF Cli!Empty
<1>2. args \in Cli!Args /\ args.command = "other"
  BY OutletsAssumption DEF Cli!NoArgs, Cli!Args
<1>3. CliTypes
  BY <1>1, <1>2 DEF CliTypes
<1>4. CliResults
  BY <1>1, <1>2 DEF CliResults
<1>5. CliEnds
  BY DEF CliEnds, Cli!OnlyBadInputFails
<1> QED
  BY <1>3, <1>4, <1>5 DEF CliInv

\* What the invariant says of a command that has ended.
LEMMA CliSound ==
  ASSUME CliInv
  PROVE  ExitCodeIsHonest
<1> USE DEF CliInv
<1>1. args.limit \in Nat
  BY OutletsAssumption DEF CliTypes, Cli!Args
<1>2. Cli!TypeOK
  BY <1>1 DEF CliTypes, CliResults, Cli!TypeOK
<1>3. Cli!SuccessIsComplete
  <2> SUFFICES ASSUME exit = "0", ~ data.capture
               PROVE  /\ ~ data.cut
                      /\ args.command = "stats" => \A t \in ToolTypes :
                           counts[t] = Cardinality({i \in DOMAIN data.messages : data.messages[i] = t})
                      /\ args.command = "inspect" =>
                           shown = IF Len(data.messages) < args.limit THEN Len(data.messages) ELSE args.limit
                      /\ (good /\ args.command \in {"filter", "convert"}) =>
                           written = Cli!Asked(args, data.messages)[Len(data.messages)]
    <3>1. \A S : Cli!Cardinality(S) = Cardinality(S)
      BY DEF Cli!Cardinality, Cardinality
    <3> QED
      BY <3>1 DEF Cli!SuccessIsComplete
  <2>1. index = Len(data.messages) /\ ~ data.cut /\ DOMAIN data.messages = 1 .. index
    BY DEF CliTypes, CliEnds
  <2>2. \A t : {i \in DOMAIN data.messages : data.messages[i] = t} = Those(t, index)
    BY <2>1 DEF Those
  <2> QED
    BY <2>1, <2>2 DEF CliResults
<1> QED
  BY <1>2, <1>3 DEF CliEnds, ExitCodeIsHonest

\* One more message, whatever the command.
LEMMA CliAdvances ==
  ASSUME CliInv, Cli!HasMessage, Cli!Advance
  PROVE  /\ index + 1 \in 1 .. Len(data.messages) /\ index' = index + 1 /\ index \in Nat
         /\ Cli!Message = data.messages[index + 1] /\ Cli!Message \in ToolTypes
         /\ CliEnds'
<1>1. /\ index + 1 \in 1 .. Len(data.messages) /\ index' = index + 1 /\ index \in Nat
      /\ t_pc = "messages" /\ exit = "running"
  BY DEF CliInv, CliTypes, CliEnds, Cli!HasMessage, Cli!Advance
<1>2. Cli!Message = data.messages[index + 1] /\ Cli!Message \in ToolTypes
  BY <1>1 DEF Cli!Message, CliInv, CliTypes
<1>3. CliEnds'
  BY <1>1 DEF CliInv, CliEnds, Cli!Advance, Cli!OnlyBadInputFails
<1> QED
  BY <1>1, <1>2, <1>3

LEMMA CliKept ==
  ASSUME CliInv, [Cli!Next]_Cli!vars
  PROVE  CliInv'
<1> USE DEF CliInv
<1>1. CASE Cli!main
  <2>1. /\ t_pc = "start" /\ t_pc' = "read" /\ args' \in Cli!Args /\ file' \in Cli!Files
        /\ UNCHANGED <<data, index, counts, shown, rows, written, good, exit>>
    BY <1>1 DEF Cli!main
  <2>2. file'.messages \in Seq(ToolTypes)
    <3>1. file'.messages \in UNION {[1 .. n -> ToolTypes] : n \in 0 .. MaxFileMessages}
      BY <2>1 DEF Cli!Files
    <3>2. PICK n \in 0 .. MaxFileMessages : file'.messages \in [1 .. n -> ToolTypes]
      BY <3>1
    <3> QED
      BY <3>2, OutletsAssumption
  <2>3. CliTypes'
    BY <2>1, <2>2 DEF CliTypes
  <2>4. args'.limit \in Nat
    BY <2>1, OutletsAssumption DEF Cli!Args
  <2>5. CliResults'
    <3>1. \A t : Cardinality(Those(t, 0))' = 0
      BY <2>1, FirstOf DEF Those
    <3>2. Cli!Asked(args', data'.messages)[0] = << >>
      BY <2>3, AskedEquations DEF CliTypes
    <3> QED
      BY <2>1, <2>4, <3>1, <3>2, FirstOf DEF CliResults, CliTypes
  <2> QED
    BY <2>1, <2>3, <2>5 DEF CliEnds, Cli!OnlyBadInputFails
<1>2. CASE Cli!ReadFile
  <2>1. /\ t_pc = "read" /\ data' = file
        /\ IF Cli!NoBytes(file) THEN t_pc' = "done" /\ exit' = "1"
                                ELSE t_pc' = "dispatch" /\ exit' = exit
        /\ UNCHANGED <<args, file, index, counts, shown, rows, written, good>>
    BY <1>2 DEF Cli!ReadFile, Cli!Ends
  <2>2. CliTypes'
    BY <2>1 DEF CliTypes, CliResults
  <2>3. CliResults'
    <3>1. \A t : Cardinality(Those(t, 0)') = 0
      BY FS_EmptySet DEF Those
    <3>2. Cli!Asked(args', data'.messages)[0] = << >>
      BY <2>2, AskedEquations DEF CliTypes
    <3>3. args.limit \in Nat
      BY OutletsAssumption DEF CliTypes, Cli!Args
    <3> QED
      BY <2>1, <3>1, <3>2, <3>3 DEF CliResults
  <2>4. Cli!NoBytes(Cli!Empty)
    BY DEF Cli!NoBytes, Cli!Empty
  <2>5. CliEnds'
    BY <2>1, <2>4 DEF CliEnds, Cli!OnlyBadInputFails
  <2> QED
    BY <2>2, <2>3, <2>5
<1>3. CASE Cli!Dispatch
  <2>1. /\ t_pc = "dispatch" /\ t_pc' \in {"messages", "done"}
        /\ \/ exit' = exit /\ t_pc' = "messages" /\ file' = IF args.out = "input" THEN Cli!Empty ELSE file
           \/ /\ exit' = "1" /\ t_pc' = "done" /\ UNCHANGED file
              /\ args.command = "other" \/ args.out # "-"
        /\ UNCHANGED <<args, data, index, counts, shown, rows, written, good>>
    BY <1>3 DEF Cli!Dispatch, Cli!Ends
  <2>2. file'.messages \in Seq(ToolTypes)
    <3>1. Cli!Empty.messages \in Seq(ToolTypes)
      BY DEF Cli!Empty
    <3> QED
      BY <2>1, <3>1 DEF CliTypes
  <2>3. CliTypes' /\ CliResults'
    BY <2>1, <2>2 DEF CliTypes, CliResults, Those
  <2>4. args.out \in {"-", "file", "input"}
    BY DEF CliTypes, Cli!Args
  <2>5. CliEnds'
    BY <2>1, <2>4 DEF CliEnds, Cli!OnlyBadInputFails
  <2> QED
    BY <2>3, <2>5
<1>4. CASE Cli!CountMessage
  <2>1. /\ Cli!HasMessage /\ args.command = "stats" /\ Cli!Advance
        /\ counts' = [counts EXCEPT ![Cli!Message] = @ + 1]
        /\ UNCHANGED <<shown, rows, written, good>>
    BY <1>4 DEF Cli!CountMessage
  <2>2. /\ index + 1 \in 1 .. Len(data.messages) /\ index' = index + 1 /\ index \in Nat
        /\ Cli!Message = data.messages[index + 1] /\ Cli!Message \in ToolTypes /\ CliEnds'
    BY <2>1, CliAdvances
  <2>3. UNCHANGED <<args, file, data, t_pc>> /\ t_pc = "messages"
    BY <2>1 DEF Cli!Advance, Cli!HasMessage
  <2>4. CliTypes'
    <3>1. counts' \in [ToolTypes -> Nat]
      <4>1. counts \in [ToolTypes -> Nat]
        BY DEF CliTypes
      <4>2. \A t \in ToolTypes : counts[t] + 1 \in Nat
        BY <4>1
      <4> QED
        BY <2>1, <2>2, <4>1, <4>2
    <3>2. index' \in 0 .. Len(data'.messages)
      BY <2>2, <2>3
    <3> QED
      BY <2>1, <2>3, <3>1, <3>2 DEF CliTypes
  <2>5. \A t \in ToolTypes : counts'[t] = Cardinality(Those(t, index'))
    <3> SUFFICES ASSUME NEW t \in ToolTypes PROVE counts'[t] = Cardinality(Those(t, index'))
      OBVIOUS
    <3>1. counts[t] = Cardinality(Those(t, index)) /\ counts[t] \in Nat
      BY <2>1 DEF CliResults, CliTypes
    <3>2. Cardinality(Those(t, index')) =
            Cardinality(Those(t, index)) + (IF Cli!Message = t THEN 1 ELSE 0)
      BY <2>2, OneMore
    <3>3. counts'[t] = IF Cli!Message = t THEN counts[t] + 1 ELSE counts[t]
      BY <2>1 DEF CliTypes
    <3> QED
      BY <3>1, <3>2, <3>3
  <2>6. CliResults'
    <3>2. \A t : Those(t, index)' = Those(t, index')
      BY <2>3 DEF Those
    <3>3. args.command = "stats" /\ rows <= index'
      BY <2>1, <2>2 DEF CliResults, CliTypes
    <3> QED
      BY <2>1, <2>2, <2>3, <2>5, <3>2, <3>3 DEF CliResults, CliTypes
  <2> QED
    BY <2>2, <2>4, <2>6
<1>5. CASE Cli!InspectMessage
  <2>1. /\ Cli!HasMessage /\ args.command = "inspect" /\ Cli!Advance
        /\ shown' = IF shown < args.limit THEN shown + 1 ELSE shown
        /\ UNCHANGED <<counts, rows, written, good>>
    BY <1>5 DEF Cli!InspectMessage, Cli!Shows
  <2>2. /\ index + 1 \in 1 .. Len(data.messages) /\ index' = index + 1 /\ index \in Nat /\ CliEnds'
    BY <2>1, CliAdvances
  <2>3. UNCHANGED <<args, file, data, t_pc>> /\ t_pc = "messages"
    BY <2>1 DEF Cli!Advance, Cli!HasMessage
  <2>4. CliTypes'
    BY <2>1, <2>2, <2>3 DEF CliTypes
  <2>5. args.limit \in Nat
    BY OutletsAssumption DEF CliTypes, Cli!Args
  <2>6. CliResults'
    BY <2>1, <2>2, <2>3, <2>5 DEF CliResults, CliTypes, Those
  <2> QED
    BY <2>2, <2>4, <2>6
<1>6. CASE Cli!WriteMessage
  <2>1. /\ Cli!HasMessage /\ args.command \in {"filter", "convert"} /\ Cli!Advance
        /\ IF Cli!Wanted(Cli!Message)
           THEN /\ rows' = rows + 1
                /\ \/ good /\ written' = Append(written, Cli!Message) /\ UNCHANGED good
                   \/ good' = FALSE /\ UNCHANGED written
           ELSE UNCHANGED <<rows, written, good>>
        /\ UNCHANGED <<counts, shown>>
    BY <1>6 DEF Cli!WriteMessage
  <2>2. /\ index + 1 \in 1 .. Len(data.messages) /\ index' = index + 1 /\ index \in Nat
        /\ Cli!Message = data.messages[index + 1] /\ Cli!Message \in ToolTypes /\ CliEnds'
    BY <2>1, CliAdvances
  <2>3. UNCHANGED <<args, file, data, t_pc>> /\ t_pc = "messages"
    BY <2>1 DEF Cli!Advance, Cli!HasMessage
  <2>4. /\ written' \in Seq(ToolTypes) /\ rows' \in Nat
        /\ Len(written') <= rows' /\ rows' <= index'
    <3>1. /\ written \in Seq(ToolTypes) /\ rows \in Nat /\ index \in Nat
          /\ Len(written) <= rows /\ rows <= index /\ Len(written) \in Nat
      BY <2>2 DEF CliTypes, CliResults
    <3>2. /\ Append(written, Cli!Message) \in Seq(ToolTypes)
          /\ Len(Append(written, Cli!Message)) = Len(written) + 1
      BY <2>2, <3>1
    <3>3. /\ written' = written \/ written' = Append(written, Cli!Message)
          /\ rows' = rows + 1 \/ (rows' = rows /\ written' = written)
      BY <2>1
    <3>4. written' \in Seq(ToolTypes) /\ Len(written') \in Nat /\ Len(written') <= Len(written) + 1
      <4>1. CASE written' = written
        BY <3>1, <4>1
      <4>2. CASE written' = Append(written, Cli!Message)
        BY <3>1, <3>2, <4>2
      <4> QED
        BY <3>3, <4>1, <4>2
    <3>5. index' = index + 1
      BY <2>2
    <3>6. CASE rows' = rows + 1
      BY <3>1, <3>4, <3>5, <3>6
    <3>7. CASE rows' = rows /\ written' = written
      BY <3>1, <3>5, <3>7
    <3> QED
      BY <3>3, <3>6, <3>7
  <2>5. CliTypes'
    BY <2>1, <2>2, <2>3, <2>4 DEF CliTypes
  <2>6. Len(data.messages) \in Nat /\ index' - 1 = index
    <3>1. data.messages \in Seq(ToolTypes)
      BY DEF CliTypes
    <3>2. index \in Nat /\ index' = index + 1
      BY <2>2
    <3> QED
      BY <3>1, <3>2
  <2>7. Cli!Asked(args, data.messages)[index'] =
          IF Cli!Wanted(Cli!Message) THEN Append(Cli!Asked(args, data.messages)[index], Cli!Message)
          ELSE Cli!Asked(args, data.messages)[index]
    <3>1. (args.has_filter => Cli!Message \in args.wanted) <=> Cli!Wanted(Cli!Message)
      BY DEF Cli!Wanted
    <3> QED
      BY <2>2, <2>6, <3>1, AskedEquations
  <2>8. good' => written' = Cli!Asked(args, data.messages)[index']
    <3>1. good => written = Cli!Asked(args, data.messages)[index]
      BY <2>1 DEF CliResults
    <3>2. good' => good
      BY <2>1
    <3>3. good' => written' = IF Cli!Wanted(Cli!Message) THEN Append(written, Cli!Message) ELSE written
      BY <2>1
    <3> QED
      BY <2>7, <3>1, <3>2, <3>3
  <2>9. CliResults'
    BY <2>1, <2>2, <2>3, <2>4, <2>8 DEF CliResults, CliTypes, Those
  <2> QED
    BY <2>2, <2>5, <2>9
<1>7. CASE Cli!Finish
  <2>1. /\ t_pc = "messages" /\ t_pc' = "done" /\ index = Len(data.messages)
        /\ exit' = IF data.cut /\ ~ data.capture THEN "terminate" ELSE "0"
        /\ \/ UNCHANGED <<written, good>>
           \/ /\ args.command \in {"filter", "convert"} /\ good' = FALSE
              /\ \E n \in 0 .. Len(written) : written' = SubSeq(written, 1, n)
        /\ UNCHANGED <<args, file, data, index, counts, shown, rows>>
    BY <1>7 DEF Cli!Finish, Cli!Ends
  <2>2. written' \in Seq(ToolTypes) /\ Len(written') <= Len(written) /\ Len(written') \in Nat
        /\ Len(written) \in Nat
    <3>1. written \in Seq(ToolTypes) /\ Len(written) \in Nat
      BY DEF CliTypes
    <3>2. ASSUME NEW n \in 0 .. Len(written)
          PROVE  SubSeq(written, 1, n) \in Seq(ToolTypes) /\ Len(SubSeq(written, 1, n)) = n
      BY <3>1
    <3> QED
      BY <2>1, <3>1, <3>2
  <2>3. CliTypes'
    BY <2>1, <2>2 DEF CliTypes
  <2>4. CliResults'
    <3>1. Len(written') <= rows /\ rows <= index
      BY <2>2 DEF CliTypes, CliResults
    <3>2. good' /\ args.command \in {"filter", "convert"} =>
            written' = Cli!Asked(args, data.messages)[index]
      BY <2>1 DEF CliResults
    <3> QED
      BY <2>1, <3>1, <3>2 DEF CliResults, Those
  <2>5. CliEnds'
    BY <2>1 DEF CliEnds, Cli!OnlyBadInputFails
  <2> QED
    BY <2>3, <2>4, <2>5
<1>8. CASE UNCHANGED Cli!vars
  BY <1>8 DEF Cli!vars, CliTypes, CliResults, CliEnds, Cli!OnlyBadInputFails, Those
<1> QED
  BY <1>1, <1>2, <1>3, <1>4, <1>5, <1>6, <1>7, <1>8 DEF Cli!Next

\* The tool ends with exit code 0 only on a complete result, and ends with it where it
\* can, for every command line, file and failing output.
THEOREM Reported == Cli!Spec => []ExitCodeIsHonest
<1> QED
  BY CliStarts, CliKept, CliSound, PTL DEF Cli!Spec

-----------------------------------------------------------------------------
(* The replay engine.                                                      *)

\* Quotients: the only non-linear arithmetic.
LEMMA QuotientBounds ==
  ASSUME NEW e \in Nat, NEW m \in Nat, m > 0
  PROVE  /\ e \div m \in Nat
         /\ (e \div m) * m <= e
         /\ e < (e \div m + 1) * m
  OBVIOUS
LEMMA ProductMonotone ==
  ASSUME NEW a \in Int, NEW b \in Int, NEW m \in Nat, a <= b
  PROVE  a * m <= b * m
  OBVIOUS
LEMMA ProductPositive ==
  ASSUME NEW a \in Nat, NEW m \in Nat, m > 0
  PROVE  (a + 1) * m > 0
  OBVIOUS

\* A message that is waited for: its time lies in the future of the first one's.
Waits == paced /\ next > 1 /\ m_speed_multiplier > 0 /\ replay[next] > replay[1]
Elapsed == replay[next] - replay[1]

\* The inductive invariant: the base is the first message's time, on both clocks, and the
\* target of the message at hand is its distance from there.
EngineTypes ==
  /\ now \in Nat /\ m_speed_multiplier \in Int /\ paced \in BOOLEAN /\ replay \in Seq(Nat)
  /\ pc \in {"idle", "parse", "sleep", "callback", "threw", "returned"}
  /\ delivered \in Seq([due : Int, at : Nat]) /\ target \in Int
  /\ replayed \in Nat /\ next = replayed + 1
  /\ Len(delivered) = replayed + (IF pc = "callback" THEN 1 ELSE 0)
  /\ pc \in {"sleep", "callback"} => next <= Len(replay)
EngineBase ==
  /\ base # Engine!NoBase =>
       /\ paced /\ base.wall \in 0 .. now /\ Len(replay) >= 1 /\ base.timestamp = replay[1]
       /\ delivered # << >> => delivered[1].due = base.wall
       /\ pc = "sleep" /\ next = 1 => target = base.wall
  /\ pc = "idle" => delivered = << >>
  /\ delivered = << >> /\ pc # "sleep" => base = Engine!NoBase
  /\ paced /\ (pc = "sleep" \/ delivered # << >>) => base # Engine!NoBase
EngineTarget ==
  pc = "sleep" => /\ Waits => target = base.wall + Elapsed \div m_speed_multiplier
                  /\ ~Waits => target <= now
EngineInv == EngineTypes /\ EngineBase /\ EngineTarget

LEMMA EngineStarts == Engine!Init => EngineInv
<1> SUFFICES ASSUME Engine!Init PROVE EngineInv
  OBVIOUS
<1>1. << >> \in Seq(Nat) /\ << >> \in Seq([due : Int, at : Nat]) /\ Len(<< >>) = 0
  OBVIOUS
<1>2. EngineTypes
  <2>1. delivered = << >> /\ replay = << >> /\ replayed = 0 /\ next = 1 /\ pc = "idle"
    BY DEF Engine!Init
  <2>2. now \in Nat /\ m_speed_multiplier \in Int /\ paced \in BOOLEAN /\ target \in Int
    <3>1. now = 0 /\ m_speed_multiplier = 1 /\ target = 0
      BY DEF Engine!Init
    <3>2. paced \in BOOLEAN
      BY Zenon DEF Engine!Init
    <3> QED
      BY <3>1, <3>2
  <2> QED
    BY <1>1, <2>1, <2>2 DEF EngineTypes
<1>3. EngineBase /\ EngineTarget
  BY DEF Engine!Init, EngineBase, EngineTarget
<1> QED
  BY <1>2, <1>3 DEF EngineInv

\* What the invariant says of a message that sleeps behind others.
LEMMA EngineSound ==
  ASSUME EngineInv
  PROVE  Engine!TypeOK /\ Engine!LatenessDoesNotAddUp
<1>1. Engine!TypeOK
  BY DEF EngineInv, EngineTypes, EngineBase, Engine!TypeOK
<1>2. ASSUME pc = "sleep", target > now
      PROVE  (target - delivered[1].due) * m_speed_multiplier <= replay[next] - replay[1]
  <2>1. Waits /\ target = base.wall + Elapsed \div m_speed_multiplier
    <3>1. target \in Int /\ now \in Nat
      BY DEF EngineInv, EngineTypes
    <3> QED
      BY <1>2, <3>1 DEF EngineInv, EngineTarget
  <2>2. /\ Len(delivered) >= 1 /\ next \in 1 .. Len(replay) /\ 1 \in 1 .. Len(replay)
        /\ m_speed_multiplier \in Nat
    BY <1>2, <2>1 DEF EngineInv, EngineTypes, Waits
  <2>3. delivered[1].due = base.wall /\ base.wall \in Nat
    BY <2>1, <2>2 DEF EngineInv, EngineTypes, EngineBase, Waits
  <2>4. replay[next] \in Nat /\ replay[1] \in Nat
    <3>1. replay \in Seq(Nat)
      BY DEF EngineInv, EngineTypes
    <3>2. \A i \in 1 .. Len(replay) : replay[i] \in Nat
      BY <3>1
    <3> QED
      BY <2>2, <3>2
  <2>5. Elapsed \in Nat
    BY <2>1, <2>4 DEF Elapsed, Waits
  <2>6. /\ Elapsed \div m_speed_multiplier \in Nat
        /\ (Elapsed \div m_speed_multiplier) * m_speed_multiplier <= Elapsed
    BY <2>1, <2>2, <2>5, QuotientBounds DEF Waits
  <2>7. target - delivered[1].due = Elapsed \div m_speed_multiplier
    BY <2>1, <2>3, <2>6
  <2> QED
    BY <2>6, <2>7 DEF Elapsed
<1> QED
  BY <1>1, <1>2 DEF Engine!LatenessDoesNotAddUp

\* A message is only handed over when its time has come.
LEMMA EngineInTime ==
  ASSUME EngineInv, pc = "sleep", now >= target, paced, m_speed_multiplier > 0, next > 1
  PROVE  (now - delivered[1].due + 1) * m_speed_multiplier > replay[next] - replay[1]
<1>1. /\ Len(delivered) >= 1 /\ next \in 1 .. Len(replay) /\ 1 \in 1 .. Len(replay)
      /\ m_speed_multiplier \in Nat /\ now \in Nat
  BY DEF EngineInv, EngineTypes
<1>2. delivered[1].due = base.wall /\ base.wall \in 0 .. now
  BY <1>1 DEF EngineInv, EngineTypes, EngineBase
<1>3. replay[next] \in Nat /\ replay[1] \in Nat
  BY <1>1 DEF EngineInv, EngineTypes
<1>4. now - base.wall \in Nat /\ (now - base.wall + 1) * m_speed_multiplier > 0
  BY <1>1, <1>2, ProductPositive
<1>5. CASE replay[next] <= replay[1]
  <2>1. replay[next] - replay[1] <= 0 /\ (now - base.wall + 1) * m_speed_multiplier \in Int
    BY <1>1, <1>3, <1>4, <1>5
  <2> QED
    BY <1>2, <1>3, <1>4, <2>1
<1>6. CASE replay[next] > replay[1]
  <2>1. Waits /\ target = base.wall + Elapsed \div m_speed_multiplier
    BY <1>6 DEF EngineInv, EngineTarget, Waits
  <2>2. Elapsed \in Nat
    BY <1>3, <1>6 DEF Elapsed
  <2>3. /\ Elapsed \div m_speed_multiplier \in Nat
        /\ Elapsed < (Elapsed \div m_speed_multiplier + 1) * m_speed_multiplier
    BY <1>1, <2>2, QuotientBounds
  <2>4. Elapsed \div m_speed_multiplier + 1 <= now - base.wall + 1
    BY <1>1, <1>2, <2>1, <2>3
  <2>5. (Elapsed \div m_speed_multiplier + 1) * m_speed_multiplier
          <= (now - base.wall + 1) * m_speed_multiplier
    <3>1. /\ Elapsed \div m_speed_multiplier + 1 \in Int /\ now - base.wall + 1 \in Int
      BY <1>4, <2>3
    <3> QED
      BY <1>1, <2>4, <3>1, ProductMonotone
  <2>6. /\ (Elapsed \div m_speed_multiplier + 1) * m_speed_multiplier \in Int
        /\ (now - base.wall + 1) * m_speed_multiplier \in Int
    BY <1>1, <1>4, <2>3
  <2>7. (now - base.wall + 1) * m_speed_multiplier > Elapsed
    <3> DEFINE x == (Elapsed \div m_speed_multiplier + 1) * m_speed_multiplier
               y == (now - base.wall + 1) * m_speed_multiplier
    <3>1. x \in Int /\ y \in Int /\ Elapsed < x /\ x <= y
      BY <2>3, <2>5, <2>6
    <3> HIDE DEF x, y
    <3>2. y > Elapsed
      BY <2>2, <3>1
    <3> QED
      BY <3>2 DEF y
  <2> QED
    BY <1>2, <2>7 DEF Elapsed
<1> QED
  BY <1>3, <1>5, <1>6

\* Every step keeps the invariant.
LEMMA EngineKept ==
  ASSUME EngineInv, [Engine!Next]_Engine!vars
  PROVE  EngineInv'
<1> USE DEF EngineInv, EngineTypes, EngineBase
<1>1. CASE Engine!Begin
  <2>1. replay' \in Seq(Nat)
    <3>1. PICK n \in 0 .. MaxReplayed : replay' \in [1 .. n -> 0 .. MaxTimestamp]
      BY <1>1 DEF Engine!Begin, Engine!Timestamps
    <3> QED
      BY <3>1, OutletsAssumption
  <2> QED
    BY <1>1, <2>1 DEF Engine!Begin, EngineTarget
<1>2. CASE Engine!NextMessage
  <2>1. /\ pc = "parse" /\ pc' = "sleep" /\ next \in 1 .. Len(replay)
        /\ target' = IF paced THEN Engine!Target(replay[next]) ELSE now
        /\ base' = IF paced THEN Engine!NewBase(replay[next]) ELSE base
        /\ UNCHANGED <<replay, now, m_speed_multiplier, paced, replayed, next, delivered>>
    <3>1. /\ pc = "parse" /\ pc' = "sleep" /\ next <= Len(replay)
          /\ target' = IF paced THEN Engine!Target(replay[next]) ELSE now
          /\ base' = IF paced THEN Engine!NewBase(replay[next]) ELSE base
          /\ UNCHANGED <<replay, now, m_speed_multiplier, paced, replayed, next, delivered>>
      BY <1>2 DEF Engine!NextMessage
    <3>2. next \in Nat /\ next >= 1 /\ Len(replay) \in Nat
      OBVIOUS
    <3> QED
      BY <3>1, <3>2
  <2>2. replay[next] \in Nat /\ replay[1] \in Nat /\ 1 \in 1 .. Len(replay)
    <3>1. replay \in Seq(Nat) /\ 1 \in 1 .. Len(replay)
      BY <2>1
    <3>2. \A i \in 1 .. Len(replay) : replay[i] \in Nat
      BY <3>1
    <3> QED
      BY <2>1, <3>1, <3>2
  <2>3. CASE ~paced
    BY <2>1, <2>3 DEF EngineTarget, Waits
  <2>4. CASE paced /\ base = Engine!NoBase
    <3>1. delivered = << >> /\ next = 1
      BY <2>1, <2>4
    <3>2. target' = now /\ base' = [timestamp |-> replay[1], wall |-> now]
      BY <2>1, <2>4, <3>1 DEF Engine!Target, Engine!NewBase
    <3>3. base' # Engine!NoBase /\ base'.wall = now /\ base'.timestamp = replay[1]
      BY <3>2 DEF Engine!NoBase
    <3> QED
      BY <2>1, <2>2, <2>4, <3>1, <3>2, <3>3 DEF EngineTarget, Waits
  <2>5. CASE paced /\ base # Engine!NoBase
    <3>1. base' = base /\ base.timestamp = replay[1] /\ base.wall \in 0 .. now
      BY <2>1, <2>5 DEF Engine!NewBase
    <3>2. next > 1 /\ delivered # << >>
      BY <2>1, <2>5
    <3>3. target' = IF replay[next] <= replay[1] THEN now
                    ELSE base.wall + Engine!Scaled(replay[next] - replay[1])
      BY <2>1, <2>5, <3>1 DEF Engine!Target
    <3>4. CASE replay[next] <= replay[1]
      <4>1. target' = now /\ now \in Nat
        BY <3>3, <3>4
      <4>2. EngineTypes' /\ EngineBase'
        BY <2>1, <2>5, <3>1, <3>2, <4>1
      <4>3. EngineTarget'
        <5>1. ~ (replay[next] > replay[1])
          BY <2>2, <3>4
        <5>2. ~ Waits' /\ target' <= now'
          BY <2>1, <4>1, <5>1 DEF Waits
        <5> QED
          BY <5>2 DEF EngineTarget
      <4> QED
        BY <4>2, <4>3
    <3>5. CASE replay[next] > replay[1] /\ m_speed_multiplier <= 0
      <4>1. target' = base.wall + (- now - 1)
        BY <2>2, <3>3, <3>5 DEF Engine!Scaled
      <4>2. target' <= now /\ target' \in Int
        <5>1. now \in Nat /\ base.wall \in 0 .. now
          BY <3>1
        <5>2. \A n \in Nat : \A w \in 0 .. n : w + (- n - 1) <= n /\ w + (- n - 1) \in Int
          OBVIOUS
        <5> QED
          BY <4>1, <5>1, <5>2
      <4>3. ~ Waits'
        BY <2>1, <3>5 DEF Waits
      <4>4. EngineTypes'
        BY <2>1, <4>2
      <4>5. EngineBase'
        BY <2>1, <2>5, <3>1, <3>2
      <4>6. EngineTarget'
        BY <2>1, <4>2, <4>3 DEF EngineTarget
      <4> QED
        BY <4>4, <4>5, <4>6
    <3>6. CASE replay[next] > replay[1] /\ m_speed_multiplier > 0
      <4>1. target' = base.wall + Elapsed \div m_speed_multiplier
        BY <2>2, <3>3, <3>6 DEF Engine!Scaled, Elapsed
      <4>2. Elapsed' = Elapsed /\ Elapsed \in Nat
        BY <2>1, <2>2, <3>6 DEF Elapsed
      <4>3. Elapsed \div m_speed_multiplier \in Nat
        <5>1. m_speed_multiplier \in Nat
          BY <3>6
        <5> QED
          BY <3>6, <4>2, <5>1, QuotientBounds
      <4>4. target' \in Int
        BY <3>1, <4>1, <4>3
      <4>5. Waits' /\ target' = base'.wall + Elapsed' \div m_speed_multiplier'
        BY <2>1, <2>5, <3>1, <3>2, <3>6, <4>1, <4>2 DEF Waits
      <4>6. EngineTypes'
        BY <2>1, <4>4
      <4>7. EngineBase'
        BY <2>1, <2>5, <3>1, <3>2
      <4> QED
        BY <4>5, <4>6, <4>7 DEF EngineTarget
    <3> QED
      BY <2>2, <3>4, <3>5, <3>6
  <2> QED
    BY <2>3, <2>4, <2>5
<1>3. CASE Engine!Callback
  <2>1. /\ pc = "sleep" /\ pc' = "callback"
        /\ delivered' = Append(delivered, [due |-> target, at |-> now])
        /\ UNCHANGED <<replay, now, m_speed_multiplier, paced, replayed, base, target, next>>
    BY <1>3 DEF Engine!Callback
  <2>2. delivered' \in Seq([due : Int, at : Nat]) /\ Len(delivered') = Len(delivered) + 1
    BY <2>1
  <2>3. delivered' # << >> /\ delivered'[1] = IF delivered = << >> THEN [due |-> target, at |-> now]
                                                               ELSE delivered[1]
    <3>1. delivered \in Seq([due : Int, at : Nat])
      OBVIOUS
    <3>2. \A x : Append(delivered, x)[1] = IF delivered = << >> THEN x ELSE delivered[1]
      BY <3>1
    <3>3. [due |-> target, at |-> now] \in [due : Int, at : Nat]
      OBVIOUS
    <3>4. Append(delivered, [due |-> target, at |-> now]) # << >>
      <4> DEFINE R == [due : Int, at : Nat]
                 x == [due |-> target, at |-> now]
      <4>1. delivered \in Seq(R) /\ x \in R
        BY <3>1, <3>3
      <4> HIDE DEF R, x
      <4>2. Len(Append(delivered, x)) = Len(delivered) + 1 /\ Len(delivered) \in Nat
        BY <4>1, AppendProperties
      <4>3. Append(delivered, x) \in Seq(R)
        BY <4>1, AppendProperties
      <4> DEFINE y == Append(delivered, x)
      <4>4. y # << >>
        <5>1. y \in Seq(R) /\ Len(y) # 0
          BY <4>2, <4>3
        <5> HIDE DEF y
        <5>2. y = << >> => Len(y) = 0
          BY EmptySeq
        <5> QED
          BY <5>1, <5>2
      <4> QED
        BY <4>4 DEF x
    <3> QED
      BY <2>1, <3>2, <3>4
  <2>4. EngineTypes'
    BY <2>1, <2>2
  <2>5. delivered = << >> <=> next = 1
    BY <2>1
  <2>6. EngineBase'
    <3>1. base' # Engine!NoBase =>
            /\ paced' /\ base'.wall \in 0 .. now' /\ Len(replay') >= 1
            /\ base'.timestamp = replay'[1]
      BY <2>1
    <3>2. base' # Engine!NoBase => delivered'[1].due = base'.wall
      <4>1. CASE delivered = << >>
        BY <2>1, <2>3, <2>5, <4>1
      <4>2. CASE delivered # << >>
        BY <2>1, <2>3, <4>2
      <4> QED
        BY <4>1, <4>2
    <3>3. paced' => base' # Engine!NoBase
      BY <2>1
    <3> HIDE DEF EngineInv, EngineTypes, EngineBase
    <3> QED
      BY <2>1, <2>3, <3>1, <3>2, <3>3 DEF EngineBase
  <2> QED
    BY <2>1, <2>4, <2>6 DEF EngineTarget
<1>4. CASE Engine!CallbackReturns
  BY <1>4 DEF Engine!CallbackReturns, EngineTarget
<1>5. CASE Engine!Return
  BY <1>5 DEF Engine!Return, EngineTarget
<1>6. CASE Engine!Tick
  <2>1. /\ now' = now + 1 /\ now \in Nat
        /\ UNCHANGED <<replay, m_speed_multiplier, paced, replayed, base, pc, target, next, delivered>>
    BY <1>6 DEF Engine!Tick
  <2>2. EngineTypes'
    BY <2>1
  <2>3. \A w : w \in 0 .. now => w \in 0 .. now'
    BY <2>1
  <2>4. EngineBase'
    BY <2>1, <2>3
  <2>5. target \in Int /\ (target <= now => target <= now')
    BY <2>1
  <2>6. EngineTarget'
    BY <2>1, <2>5 DEF EngineTarget, Waits, Elapsed
  <2> QED
    BY <2>2, <2>4, <2>6
<1>7. ASSUME NEW s \in Speed, Engine!set_speed(s) PROVE EngineInv'
  BY <1>7, OutletsAssumption DEF Engine!set_speed, EngineTarget
<1>8. CASE UNCHANGED Engine!vars
  BY <1>8 DEF Engine!vars, EngineTarget, Waits, Elapsed
<1> QED
  BY <1>1, <1>2, <1>3, <1>4, <1>5, <1>6, <1>7, <1>8 DEF Engine!Next, Engine!Thread

\* ReplayEngine::replay hands every message of a paced replay over at its own time: not
\* before the first one's wall time plus its distance at the speed in force, and without
\* waiting for longer, whatever the callbacks take and set.
THEOREM Paced == Engine!Spec => PacingIsExact
<1>1. ASSUME EngineInv, EngineInv', [Engine!Next]_Engine!vars
      PROVE  [/\ (pc = "sleep" /\ pc' = "callback" /\ paced /\ m_speed_multiplier > 0 /\ next > 1) =>
                   (now - delivered[1].due + 1) * m_speed_multiplier > replay[next] - replay[1]
              /\ Engine!TypeOK' /\ Engine!LatenessDoesNotAddUp']_Engine!vars
  <2>1. Engine!TypeOK' /\ Engine!LatenessDoesNotAddUp'
    BY <1>1, EngineSound, PTL
  <2>2. pc = "sleep" /\ pc' = "callback" => now >= target
    BY <1>1 DEF Engine!Next, Engine!Thread, Engine!Begin, Engine!NextMessage, Engine!Callback,
                Engine!CallbackReturns, Engine!Return, Engine!Tick, Engine!set_speed, Engine!vars
  <2> QED
    BY <1>1, <2>1, <2>2, EngineInTime
<1> QED
  BY <1>1, EngineStarts, EngineKept, PTL DEF Engine!Spec, PacingIsExact, Engine!PacingIsExact
=============================================================================
