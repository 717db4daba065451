-------------------------- MODULE L3BookOps_proofs --------------------------
(***************************************************************************)
(* Proofs about the operations of L3BookOps on a book as a value, for any  *)
(* reference numbers, prices and quantities.                               *)
(***************************************************************************)
EXTENDS L3BookOps, BookEffects, SequenceTheorems, FiniteSetTheorems, WellFoundedInduction,
        NaturalsInduction, TLAPS

\* A set of numbers that is not empty has a least one.
LEMMA LeastElement ==
  ASSUME NEW T, T \subseteq Nat, T # {}
  PROVE  \E x \in T : \A y \in T : x <= y
<1> DEFINE R == {ss \in Nat \X Nat : ss[1] < ss[2]}
<1>1. IsWellFoundedOn(R, Nat)
  BY NatLessThanWellFounded DEF OpToRel
<1>2. PICK x \in T : \A y \in T : ~ (<<y, x>> \in R)
  <2> HIDE DEF R
  <2> QED
    BY <1>1, WFMin
<1>3. ASSUME NEW y \in T PROVE x <= y
  <2>1. x \in Nat /\ y \in Nat /\ ~ (<<y, x>> \in R)
    BY <1>2
  <2>2. ~ (y < x)
    BY <2>1
  <2> QED
    BY <2>1, <2>2
<1> QED
  BY <1>3

\* Induction up to n: a set that holds 0 and, with each number below n, the next one,
\* holds every number up to n.
LEMMA UpTo ==
  ASSUME NEW n \in Nat, NEW T, 0 \in T, \A i \in 0 .. n - 1 : i \in T => i + 1 \in T
  PROVE  \A i \in 0 .. n : i \in T
<1> DEFINE Bad == {i \in 0 .. n : i \notin T}
<1>1. CASE Bad # {}
  <2>1. Bad \subseteq Nat
    OBVIOUS
  <2>2. PICK x \in Bad : \A y \in Bad : x <= y
    <3> HIDE DEF Bad
    <3> QED
      BY <1>1, <2>1, LeastElement
  <2>3. x \in 0 .. n /\ x \notin T /\ x # 0
    OBVIOUS
  <2>4. x - 1 \in 0 .. n - 1 /\ x - 1 \notin Bad
    BY <2>2, <2>3
  <2>5. x - 1 \in T
    BY <2>4
  <2> QED
    BY <2>3, <2>4, <2>5
<1> QED
  BY <1>1

\* A function that tells the elements of a finite set apart has as many values.
LEMMA InjectiveImage ==
  ASSUME NEW S, IsFiniteSet(S), NEW f, \A x, y \in S : f[x] = f[y] => x = y
  PROVE  /\ IsFiniteSet({f[x] : x \in S})
         /\ Cardinality({f[x] : x \in S}) = Cardinality(S)
<1> DEFINE T == {f[x] : x \in S}
           g == [x \in S |-> f[x]]
<1>1. g \in [S -> T]
  OBVIOUS
<1>2. \A x, y \in S : g[x] = g[y] => x = y
  OBVIOUS
<1>3. \A t \in T : \E x \in S : g[x] = t
  OBVIOUS
<1>4. g \in Bijection(S, T)
  <2> HIDE DEF g, T
  <2> QED
    BY <1>1, <1>2, <1>3 DEF Bijection, Injection, Surjection, IsInjective
<1> HIDE DEF g, T
<1>5. ExistsBijection(S, T)
  BY <1>4 DEF ExistsBijection
<1> QED
  BY <1>5, FS_Bijection DEF T

-----------------------------------------------------------------------------

\* Books whose pool positions lie within a pool of n nodes.
BookOf(n) ==
  [pool : Seq(OrderNode(n)), free_head : 0 .. n,
   levels : [Side -> Seq(Level(n))], index : [Ref -> 0 .. n]]

WellTyped(b) == b \in BookOf(Len(b.pool))

-----------------------------------------------------------------------------

\* lower_bound stays on the ladder or one past its end, with better levels before it
\* and none at it.
LEMMA LowerBound ==
  ASSUME NEW S, NEW ladder \in Seq(S), NEW side, NEW price
  PROVE  LET i == lower_bound(ladder, side, price)
         IN  /\ i \in 1 .. Len(ladder) + 1
             /\ \A j \in 1 .. i - 1 : Better(side, ladder[j].price, price)
             /\ i <= Len(ladder) => ~ Better(side, ladder[i].price, price)
<1> DEFINE T == {i \in 1 .. Len(ladder) + 1 :
                   i <= Len(ladder) => ~ Better(side, ladder[i].price, price)}
<1>1. Len(ladder) \in Nat
  BY LenProperties
<1>2. T \subseteq Nat /\ Len(ladder) + 1 \in T
  BY <1>1
<1>3. PICK i \in T : \A j \in T : i <= j
  BY <1>2, LeastElement
<1>4. \A j \in 1 .. i - 1 : Better(side, ladder[j].price, price)
  BY <1>1, <1>3
<1>5. \E k \in 1 .. Len(ladder) + 1 :
        /\ \A j \in 1 .. k - 1 : Better(side, ladder[j].price, price)
        /\ k <= Len(ladder) => ~ Better(side, ladder[k].price, price)
  BY <1>3, <1>4
<1> QED
  BY <1>5 DEF lower_bound

\* find_level answers with a position of the ladder, or NIL.
LEMMA FindLevel ==
  ASSUME NEW S, NEW ladder \in Seq(S), NEW side, NEW price
  PROVE  LET i == find_level(ladder, side, price)
         IN  /\ i \in 0 .. Len(ladder)
             /\ i # NIL => /\ i = lower_bound(ladder, side, price)
                           /\ i \in 1 .. Len(ladder)
                           /\ ladder[i].price = price
<1>1. Len(ladder) \in Nat
  BY LenProperties
<1>2. lower_bound(ladder, side, price) \in 1 .. Len(ladder) + 1
  BY LowerBound
<1> QED
  BY <1>1, <1>2 DEF find_level, NIL

\* A ladder with a level inserted has it at the position given, the others around it.
LEMMA InsertType ==
  ASSUME NEW S, NEW seq \in Seq(S), NEW i \in 1 .. Len(seq) + 1, NEW e \in S
  PROVE  /\ InsertAt(seq, i, e) \in Seq(S)
         /\ Len(InsertAt(seq, i, e)) = Len(seq) + 1
         /\ InsertAt(seq, i, e)[i] = e
         /\ \A j \in 1 .. Len(seq) + 1 :
              InsertAt(seq, i, e)[j] = IF j < i THEN seq[j] ELSE IF j = i THEN e ELSE seq[j - 1]
<1> DEFINE left == SubSeq(seq, 1, i - 1)  right == SubSeq(seq, i, Len(seq))
<1>1. Len(seq) \in Nat /\ \A j \in 1 .. Len(seq) : seq[j] \in S
  BY LenProperties, ElementOfSeq
<1>2. /\ left \in Seq(S) /\ Len(left) = i - 1
      /\ \A j \in 1 .. i - 1 : left[j] = seq[j]
  BY <1>1, SubSeqProperties, i - 1 \in Int, \A j \in 1 .. i - 1 : seq[j] \in S
<1>3. /\ right \in Seq(S) /\ Len(right) = Len(seq) - i + 1
      /\ \A j \in 1 .. Len(seq) - i + 1 : right[j] = seq[i + j - 1]
  BY <1>1, SubSeqProperties, i \in Int, \A j \in i .. Len(seq) : seq[j] \in S
<1>4. <<e>> \in Seq(S) /\ Len(<<e>>) = 1 /\ <<e>>[1] = e
  OBVIOUS
<1> HIDE DEF left, right
<1> DEFINE start == left \o <<e>>
<1>5. /\ start \in Seq(S) /\ Len(start) = i /\ start[i] = e
      /\ \A j \in 1 .. i - 1 : start[j] = seq[j]
  BY SMTT(60), <1>2, <1>4, ConcatProperties
<1> HIDE DEF start
<1>6. /\ start \o right \in Seq(S)
      /\ Len(start \o right) = Len(start) + Len(right)
      /\ \A j \in 1 .. Len(start) + Len(right) :
           (start \o right)[j] = IF j <= Len(start) THEN start[j]
                                                  ELSE right[j - Len(start)]
  BY <1>3, <1>5, ConcatProperties
<1>7. (start \o right)[i] = e /\ Len(start \o right) = Len(seq) + 1
  BY <1>1, <1>3, <1>5, <1>6
<1>8. ASSUME NEW j \in 1 .. Len(seq) + 1
      PROVE  (start \o right)[j] = IF j < i THEN seq[j] ELSE IF j = i THEN e ELSE seq[j - 1]
  <2>1. CASE j <= i
    BY <1>1, <1>3, <1>5, <1>6, <2>1
  <2>2. CASE j > i
    <3>1. j - i \in 1 .. Len(seq) - i + 1 /\ i + (j - i) - 1 = j - 1
      BY <1>1, <2>2
    <3>2. right[j - i] = seq[j - 1]
      BY <1>3, <3>1
    <3> QED
      BY <1>1, <1>3, <1>5, <1>6, <2>2, <3>2
  <2>3. j <= i \/ j > i
    BY <1>1
  <2> QED
    BY <2>1, <2>2, <2>3
<1> QED
  BY <1>6, <1>7, <1>8 DEF InsertAt, start, left, right

\* A ladder that loses a level is a ladder, with the levels behind it moved up.
LEMMA RemoveType ==
  ASSUME NEW S, NEW seq \in Seq(S), NEW i \in 1 .. Len(seq)
  PROVE  /\ RemoveAt(seq, i) \in Seq(S)
         /\ Len(RemoveAt(seq, i)) = Len(seq) - 1
         /\ \A j \in 1 .. Len(seq) - 1 :
              RemoveAt(seq, i)[j] = IF j < i THEN seq[j] ELSE seq[j + 1]
<1> DEFINE left == SubSeq(seq, 1, i - 1)  right == SubSeq(seq, i + 1, Len(seq))
<1>1. Len(seq) \in Nat /\ \A j \in 1 .. Len(seq) : seq[j] \in S
  BY LenProperties, ElementOfSeq
<1>2. /\ left \in Seq(S) /\ Len(left) = i - 1
      /\ \A j \in 1 .. i - 1 : left[j] = seq[j]
  BY <1>1, SubSeqProperties, i - 1 \in Int, \A j \in 1 .. i - 1 : seq[j] \in S
<1>3. /\ right \in Seq(S) /\ Len(right) = Len(seq) - i
      /\ \A j \in 1 .. Len(seq) - i : right[j] = seq[i + j]
  <2>1. i + 1 \in Int /\ \A j \in i + 1 .. Len(seq) : seq[j] \in S
    BY <1>1
  <2> QED
    BY <1>1, <2>1, SubSeqProperties
<1> HIDE DEF left, right
<1>4. /\ left \o right \in Seq(S)
      /\ Len(left \o right) = Len(left) + Len(right)
      /\ \A j \in 1 .. Len(left) + Len(right) :
           (left \o right)[j] = IF j <= Len(left) THEN left[j] ELSE right[j - Len(left)]
  BY <1>2, <1>3, ConcatProperties
<1>5. ASSUME NEW j \in 1 .. Len(seq) - 1
      PROVE  (left \o right)[j] = IF j < i THEN seq[j] ELSE seq[j + 1]
  <2>1. CASE j < i
    BY <1>1, <1>2, <1>3, <1>4, <2>1
  <2>2. CASE j >= i
    <3>1. j - (i - 1) \in 1 .. Len(seq) - i /\ i + (j - (i - 1)) = j + 1
      BY <1>1, <2>2
    <3>2. right[j - (i - 1)] = seq[j + 1]
      BY <1>3, <3>1
    <3> QED
      BY <1>1, <1>2, <1>3, <1>4, <2>2, <3>2
  <2>3. j < i \/ j >= i
    BY <1>1
  <2> QED
    BY <2>1, <2>2, <2>3
<1>6. Len(left \o right) = Len(seq) - 1
  BY <1>1, <1>2, <1>3, <1>4
<1> QED
  BY <1>4, <1>5, <1>6 DEF RemoveAt, left, right

-----------------------------------------------------------------------------

\* A book stays well typed when its pool grows.
LEMMA Growth ==
  ASSUME NEW n \in Nat, NEW m \in Nat, n <= m
  PROVE  /\ OrderNode(n) \subseteq OrderNode(m)
         /\ Seq(OrderNode(n)) \subseteq Seq(OrderNode(m))
         /\ Level(n) \subseteq Level(m)
         /\ Seq(Level(n)) \subseteq Seq(Level(m))
<1>1. OrderNode(n) \subseteq OrderNode(m)
  BY DEF OrderNode
<1>2. Level(n) \subseteq Level(m)
  BY DEF Level
<1> QED
  BY <1>1, <1>2, SeqMonotonic

\* The parts of a well-typed book.
LEMMA Unpack ==
  ASSUME NEW b, WellTyped(b)
  PROVE  /\ Len(b.pool) \in Nat
         /\ b.pool \in Seq(OrderNode(Len(b.pool)))
         /\ b.free_head \in 0 .. Len(b.pool)
         /\ b.levels \in [Side -> Seq(Level(Len(b.pool)))]
         /\ b.index \in [Ref -> 0 .. Len(b.pool)]
         /\ b = [pool |-> b.pool, free_head |-> b.free_head,
                 levels |-> b.levels, index |-> b.index]
<1>1. b.pool \in Seq(OrderNode(Len(b.pool)))
  BY DEF WellTyped, BookOf
<1>2. Len(b.pool) \in Nat
  BY <1>1, LenProperties
<1> QED
  BY <1>1, <1>2 DEF WellTyped, BookOf

\* A reset node is a node.
LEMMA EmptyNodeType == ASSUME NEW n \in Nat PROVE EmptyNode \in OrderNode(n)
BY SharesAssumption DEF EmptyNode, OrderNode, NIL, Side, Shares

\* allocate_node keeps the book well typed and hands out a node of its pool.
LEMMA AllocateType ==
  ASSUME NEW b, WellTyped(b)
  PROVE  /\ WellTyped(allocate_node(b))
         /\ AllocatedNode(b) \in 1 .. Len(allocate_node(b).pool)
         /\ allocate_node(b).levels = b.levels
         /\ allocate_node(b).index = b.index
         /\ Len(b.pool) <= Len(allocate_node(b).pool)
<1> DEFINE n == Len(b.pool)
<1>1. /\ n \in Nat
      /\ b.pool \in Seq(OrderNode(n)) /\ b.free_head \in 0 .. n
      /\ b.levels \in [Side -> Seq(Level(n))] /\ b.index \in [Ref -> 0 .. n]
      /\ b = [pool |-> b.pool, free_head |-> b.free_head,
              levels |-> b.levels, index |-> b.index]
  BY Unpack
<1>2. CASE b.free_head # NIL
  <2>1. b.free_head \in 1 .. n
    BY <1>1, <1>2 DEF NIL
  <2>2. b.pool[b.free_head].next \in 0 .. n
    <3>1. b.pool[b.free_head] \in OrderNode(n)
      BY <1>1, <2>1, ElementOfSeq
    <3> QED
      BY <3>1 DEF OrderNode
  <2> DEFINE pool == [b.pool EXCEPT ![b.free_head] = EmptyNode]
  <2>3. pool \in Seq(OrderNode(n)) /\ Len(pool) = n
    BY <1>1, <2>1, EmptyNodeType, ExceptSeq
  <2> HIDE DEF pool
  <2>4. allocate_node(b) = [pool |-> pool, free_head |-> b.pool[b.free_head].next,
                            levels |-> b.levels, index |-> b.index]
    BY <1>1, <1>2 DEF allocate_node, pool
  <2>5. AllocatedNode(b) = b.free_head
    BY <1>2 DEF AllocatedNode
  <2> QED
    BY <1>1, <2>1, <2>2, <2>3, <2>4, <2>5 DEF WellTyped, BookOf
<1>3. CASE b.free_head = NIL
  <2> DEFINE pool == Append(b.pool, EmptyNode)
  <2>1. b.pool \in Seq(OrderNode(n + 1)) /\ b.levels \in [Side -> Seq(Level(n + 1))]
    BY SMTT(60), <1>1, Growth
  <2>2. pool \in Seq(OrderNode(n + 1)) /\ Len(pool) = n + 1
    BY <1>1, <2>1, EmptyNodeType, AppendProperties
  <2> HIDE DEF pool
  <2>3. allocate_node(b) = [pool |-> pool, free_head |-> b.free_head,
                            levels |-> b.levels, index |-> b.index]
    BY <1>1, <1>3 DEF allocate_node, pool
  <2>4. AllocatedNode(b) = n + 1
    BY <1>3 DEF AllocatedNode
  <2> QED
    BY <1>1, <2>1, <2>2, <2>3, <2>4 DEF WellTyped, BookOf
<1> QED
  BY <1>2, <1>3

\* free_node keeps the book well typed.
LEMMA FreeType ==
  ASSUME NEW b, WellTyped(b), NEW i \in 1 .. Len(b.pool)
  PROVE  /\ WellTyped(free_node(b, i))
         /\ Len(free_node(b, i).pool) = Len(b.pool)
         /\ free_node(b, i).levels = b.levels
         /\ free_node(b, i).index = b.index
<1> DEFINE n == Len(b.pool)
           node == [EmptyNode EXCEPT !.next = b.free_head]
           pool == [b.pool EXCEPT ![i] = node]
<1>1. /\ n \in Nat
      /\ b.pool \in Seq(OrderNode(n)) /\ b.free_head \in 0 .. n
      /\ b.levels \in [Side -> Seq(Level(n))] /\ b.index \in [Ref -> 0 .. n]
      /\ b = [pool |-> b.pool, free_head |-> b.free_head,
              levels |-> b.levels, index |-> b.index]
  BY Unpack
<1>2. node \in OrderNode(n)
  <2>1. node = [reference_number |-> 0, shares |-> 0, price |-> 0, side |-> "B",
                next |-> b.free_head, prev |-> NIL]
    BY DEF EmptyNode
  <2>2. 0 \in Shares /\ NIL \in 0 .. n /\ "B" \in Side
    BY <1>1, SharesAssumption DEF NIL, Side, Shares
  <2> QED
    BY <1>1, <2>1, <2>2 DEF OrderNode
<1>3. pool \in Seq(OrderNode(n)) /\ Len(pool) = n
  BY <1>1, <1>2, ExceptSeq
<1>4. free_node(b, i) = [b EXCEPT !.pool = pool, !.free_head = i]
  BY DEF free_node
<1> HIDE DEF pool
<1>5. free_node(b, i) = [pool |-> pool, free_head |-> i,
                         levels |-> b.levels, index |-> b.index]
  BY <1>1, <1>4
<1> QED
  BY <1>1, <1>3, <1>5 DEF WellTyped, BookOf

-----------------------------------------------------------------------------

\* find_or_create_level has a level of that price where lower_bound points.
LEMMA LadderType ==
  ASSUME NEW n \in Nat, NEW ladder \in Seq(Level(n)), NEW side \in Side, NEW price \in Price
  PROVE  LET l == find_or_create_level(ladder, side, price)
             i == lower_bound(ladder, side, price)
         IN  l \in Seq(Level(n)) /\ i \in 1 .. Len(l) /\ l[i].price = price
<1> DEFINE i == lower_bound(ladder, side, price)
<1>1. i \in 1 .. Len(ladder) + 1 /\ Len(ladder) \in Nat
  BY LowerBound, LenProperties
<1>2. CASE find_level(ladder, side, price) # NIL
  <2>1. find_or_create_level(ladder, side, price) = ladder
    BY <1>2 DEF find_or_create_level
  <2> QED
    BY <1>2, <2>1, FindLevel
<1>3. CASE find_level(ladder, side, price) = NIL
  <2>1. EmptyLevel(price) \in Level(n) /\ EmptyLevel(price).price = price
    BY DEF EmptyLevel, Level, NIL
  <2>2. find_or_create_level(ladder, side, price) = InsertAt(ladder, i, EmptyLevel(price))
    BY <1>3 DEF find_or_create_level
  <2> HIDE DEF i
  <2>3. /\ InsertAt(ladder, i, EmptyLevel(price)) \in Seq(Level(n))
        /\ Len(InsertAt(ladder, i, EmptyLevel(price))) = Len(ladder) + 1
        /\ InsertAt(ladder, i, EmptyLevel(price))[i] = EmptyLevel(price)
    BY <1>1, <2>1, InsertType
  <2> QED
    BY <1>1, <2>1, <2>2, <2>3 DEF i
<1> QED
  BY <1>2, <1>3

\* Linking a node in keeps the book well typed.
LEMMA AppendType ==
  ASSUME NEW b, WellTyped(b), NEW n \in 1 .. Len(b.pool),
         NEW ref \in Ref, NEW side \in Side, NEW shares \in Shares, NEW price \in Price
  PROVE  LET c == AppendToLevel(b, n, ref, side, shares, price)
         IN  WellTyped(c) /\ Len(c.pool) = Len(b.pool) /\ c.index = b.index
<1> DEFINE N      == Len(b.pool)
           ladder == find_or_create_level(b.levels[side], side, price)
           at     == lower_bound(b.levels[side], side, price)
           before == ladder[at]
           tail   == before.tail
           node   == [reference_number |-> ref, shares |-> shares, price |-> price,
                      side |-> side, next |-> NIL, prev |-> tail]
           filled == [b.pool EXCEPT ![n] = node]
           pool   == IF tail # NIL THEN [filled EXCEPT ![tail].next = n] ELSE filled
           level  == [before EXCEPT !.head = IF tail # NIL THEN @ ELSE n,
                                    !.tail = n,
                                    !.total_shares = @ + shares,
                                    !.order_count = @ + 1]
           levels == [b.levels EXCEPT ![side] = [ladder EXCEPT ![at] = level]]
<1>1. /\ N \in Nat
      /\ b.pool \in Seq(OrderNode(N)) /\ b.free_head \in 0 .. N
      /\ b.levels \in [Side -> Seq(Level(N))] /\ b.index \in [Ref -> 0 .. N]
      /\ b = [pool |-> b.pool, free_head |-> b.free_head,
              levels |-> b.levels, index |-> b.index]
  BY Unpack
<1>2. AppendToLevel(b, n, ref, side, shares, price) =
        [b EXCEPT !.pool = pool, !.levels = levels]
  BY DEF AppendToLevel
<1>3. ladder \in Seq(Level(N)) /\ at \in 1 .. Len(ladder)
  BY <1>1, LadderType
<1> HIDE DEF ladder, at
<1>4. before \in Level(N)
  BY <1>3, ElementOfSeq
<1> HIDE DEF before
<1>5. tail \in 0 .. N
  BY <1>4 DEF Level
<1> HIDE DEF tail
<1>6. level \in Level(N)
  <2>1. /\ before.head \in 0 .. N /\ n \in 0 .. N
        /\ before.total_shares + shares \in Int
        /\ before.order_count + 1 \in Int
    BY <1>1, <1>4, SharesAssumption DEF Level, Shares
  <2> QED
    BY <1>4, <2>1 DEF Level
<1> HIDE DEF level
<1>7. [ladder EXCEPT ![at] = level] \in Seq(Level(N))
  BY <1>3, <1>6, ExceptSeq
<1>8. levels \in [Side -> Seq(Level(N))]
  BY <1>1, <1>7
<1> HIDE DEF levels
<1>9. node \in OrderNode(N)
  BY <1>1, <1>5 DEF OrderNode, NIL
<1> HIDE DEF node
<1>10. filled \in Seq(OrderNode(N)) /\ Len(filled) = N
  BY <1>1, <1>9, ExceptSeq
<1> HIDE DEF filled
<1>11. pool \in Seq(OrderNode(N)) /\ Len(pool) = N
  <2>1. CASE tail # NIL
    <3>1. tail \in 1 .. Len(filled)
      BY <1>5, <1>10, <2>1 DEF NIL
    <3> DEFINE last == filled[tail]
    <3>2. last \in OrderNode(N) /\ n \in 0 .. N
      BY <1>1, <1>10, <3>1, ElementOfSeq
    <3>3. pool = [filled EXCEPT ![tail] = [last EXCEPT !.next = n]]
      BY <2>1, <3>1
    <3> HIDE DEF last, pool
    <3>4. [last EXCEPT !.next = n] \in OrderNode(N)
      BY <3>2 DEF OrderNode
    <3> QED
      BY <1>10, <3>1, <3>3, <3>4, ExceptSeq
  <2>2. CASE tail = NIL
    BY <1>10, <2>2
  <2> QED
    BY <2>1, <2>2
<1> HIDE DEF pool
<1>12. AppendToLevel(b, n, ref, side, shares, price) =
         [pool |-> pool, free_head |-> b.free_head, levels |-> levels, index |-> b.index]
  BY <1>1, <1>2
<1> QED
  BY <1>1, <1>8, <1>11, <1>12 DEF WellTyped, BookOf

\* add_order keeps the book well typed.
LEMMA AddType ==
  ASSUME NEW b, WellTyped(b),
         NEW ref \in Ref, NEW side \in Side, NEW shares \in Shares, NEW price \in Price
  PROVE  WellTyped(add_order(b, ref, side, shares, price))
<1>1. CASE b.index[ref] # NIL
  BY <1>1 DEF add_order
<1>2. CASE b.index[ref] = NIL
  <2> DEFINE n == AllocatedNode(b)
             a == allocate_node(b)
             c == AppendToLevel(a, n, ref, side, shares, price)
  <2>1. WellTyped(a) /\ n \in 1 .. Len(a.pool) /\ a.index = b.index
    BY AllocateType
  <2> HIDE DEF a, n
  <2>2. WellTyped(c) /\ Len(c.pool) = Len(a.pool) /\ c.index = a.index
    BY <2>1, AppendType
  <2>3. add_order(b, ref, side, shares, price) =
          [c EXCEPT !.index = [b.index EXCEPT ![ref] = n]]
    BY <1>2 DEF add_order, a, n
  <2> HIDE DEF c
  <2>4. /\ Len(c.pool) \in Nat
        /\ c.pool \in Seq(OrderNode(Len(c.pool)))
        /\ c.free_head \in 0 .. Len(c.pool)
        /\ c.levels \in [Side -> Seq(Level(Len(c.pool)))]
        /\ c = [pool |-> c.pool, free_head |-> c.free_head,
                levels |-> c.levels, index |-> c.index]
    BY <2>2, Unpack
  <2>5. b.index \in [Ref -> 0 .. Len(c.pool)]
    BY <2>1, <2>2, Unpack
  <2>6. add_order(b, ref, side, shares, price) =
          [pool |-> c.pool, free_head |-> c.free_head, levels |-> c.levels,
           index |-> [b.index EXCEPT ![ref] = n]]
    BY <2>3, <2>4
  <2> QED
    BY <2>1, <2>2, <2>4, <2>5, <2>6 DEF WellTyped, BookOf
<1> QED
  BY <1>1, <1>2

-----------------------------------------------------------------------------

\* Closing the gap a node leaves in its list keeps the pool well typed.
LEMMA UnlinkedPoolType ==
  ASSUME NEW N \in Nat, NEW pool \in Seq(OrderNode(N)), Len(pool) = N, NEW n \in 1 .. N
  PROVE  UnlinkedPool(pool, n) \in Seq(OrderNode(N)) /\ Len(UnlinkedPool(pool, n)) = N
<1> DEFINE prev   == pool[n].prev
           next   == pool[n].next
           before == pool[prev]
           joined == IF prev # NIL THEN [pool EXCEPT ![prev].next = next] ELSE pool
           after  == joined[next]
<1>1. prev \in 0 .. N /\ next \in 0 .. N
  <2>1. pool[n] \in OrderNode(N)
    BY ElementOfSeq
  <2> QED
    BY <2>1 DEF OrderNode
<1>2. UnlinkedPool(pool, n) =
        IF next # NIL THEN [joined EXCEPT ![next].prev = prev] ELSE joined
  BY DEF UnlinkedPool
<1> HIDE DEF prev, next
<1>3. joined \in Seq(OrderNode(N)) /\ Len(joined) = N
  <2>1. CASE prev # NIL
    <3>1. prev \in 1 .. N /\ before \in OrderNode(N)
      BY <1>1, <2>1, ElementOfSeq DEF NIL
    <3>2. joined = [pool EXCEPT ![prev] = [before EXCEPT !.next = next]]
      BY <2>1, <3>1
    <3> HIDE DEF before
    <3>3. [before EXCEPT !.next = next] \in OrderNode(N)
      BY <1>1, <3>1 DEF OrderNode
    <3> QED
      BY <3>1, <3>2, <3>3, ExceptSeq
  <2>2. CASE prev = NIL
    BY <2>2
  <2> QED
    BY <2>1, <2>2
<1> HIDE DEF joined
<1>4. CASE next # NIL
  <2>1. next \in 1 .. N /\ after \in OrderNode(N)
    BY <1>1, <1>3, <1>4, ElementOfSeq DEF NIL
  <2>2. UnlinkedPool(pool, n) = [joined EXCEPT ![next] = [after EXCEPT !.prev = prev]]
    BY <1>2, <1>4, <2>1
  <2> HIDE DEF after
  <2>3. [after EXCEPT !.prev = prev] \in OrderNode(N)
    BY <1>1, <2>1 DEF OrderNode
  <2> QED
    BY <1>3, <2>1, <2>2, <2>3, ExceptSeq
<1>5. CASE next = NIL
  BY <1>2, <1>3, <1>5
<1> QED
  BY <1>4, <1>5

\* unlink_node keeps the book well typed.
LEMMA UnlinkType ==
  ASSUME NEW b, WellTyped(b), NEW n \in 1 .. Len(b.pool)
  PROVE  LET c == unlink_node(b, n)
         IN  WellTyped(c) /\ Len(c.pool) = Len(b.pool) /\ c.index = b.index
<1> DEFINE N      == Len(b.pool)
           node   == b.pool[n]
           ladder == b.levels[node.side]
           at     == find_level(ladder, node.side, node.price)
           before == ladder[at]
           level  == UnlinkedLevel(before, node)
           rest   == IF level.order_count = 0 THEN RemoveAt(ladder, at)
                                              ELSE [ladder EXCEPT ![at] = level]
           pool   == UnlinkedPool(b.pool, n)
           levels == [b.levels EXCEPT ![node.side] = rest]
<1>1. /\ N \in Nat
      /\ b.pool \in Seq(OrderNode(N)) /\ b.free_head \in 0 .. N
      /\ b.levels \in [Side -> Seq(Level(N))] /\ b.index \in [Ref -> 0 .. N]
      /\ b = [pool |-> b.pool, free_head |-> b.free_head,
              levels |-> b.levels, index |-> b.index]
  BY Unpack
<1>2. CASE at = NIL
  BY <1>2 DEF unlink_node
<1>3. CASE at # NIL
  <2>1. unlink_node(b, n) = [b EXCEPT !.pool = pool, !.levels = levels]
    BY <1>3 DEF unlink_node
  <2>2. pool \in Seq(OrderNode(N)) /\ Len(pool) = N
    BY <1>1, UnlinkedPoolType
  <2> HIDE DEF pool
  <2>3. node \in OrderNode(N)
    BY <1>1, ElementOfSeq
  <2> HIDE DEF node
  <2>4. /\ node.side \in Side /\ node.shares \in Int
        /\ node.next \in 0 .. N /\ node.prev \in 0 .. N
    BY <2>3, SharesAssumption DEF OrderNode, Shares
  <2>5. ladder \in Seq(Level(N))
    BY <1>1, <2>4
  <2> HIDE DEF ladder
  <2>6. at \in 1 .. Len(ladder)
    BY <1>3, <2>5, FindLevel
  <2> HIDE DEF at
  <2>7. before \in Level(N)
    BY <2>5, <2>6, ElementOfSeq
  <2> HIDE DEF before
  <2>8. level \in Level(N)
    <3>1. /\ before.head \in 0 .. N /\ before.tail \in 0 .. N
          /\ before.total_shares - node.shares \in Int /\ before.order_count - 1 \in Int
      BY <2>4, <2>7 DEF Level
    <3> QED
      BY <2>4, <2>7, <3>1 DEF UnlinkedLevel, Level
  <2> HIDE DEF level
  <2>9. rest \in Seq(Level(N))
    BY <2>5, <2>6, <2>8, RemoveType, ExceptSeq
  <2> HIDE DEF rest
  <2>10. levels \in [Side -> Seq(Level(N))]
    BY <1>1, <2>4, <2>9
  <2> HIDE DEF levels
  <2>11. unlink_node(b, n) = [pool |-> pool, free_head |-> b.free_head,
                              levels |-> levels, index |-> b.index]
    BY <1>1, <2>1
  <2> QED
    BY <1>1, <2>2, <2>10, <2>11 DEF WellTyped, BookOf
<1> QED
  BY <1>2, <1>3

\* Taking an order away, by delete_order or a full execution.
LEMMA DiscardType ==
  ASSUME NEW b, WellTyped(b), NEW ref \in Ref, b.index[ref] # NIL
  PROVE  WellTyped(Discard(b, ref))
<1> DEFINE n == b.index[ref]
           u == unlink_node(b, n)
           c == free_node(u, n)
<1>1. n \in 1 .. Len(b.pool)
  BY Unpack DEF NIL
<1>2. Discard(b, ref) = [c EXCEPT !.index = [b.index EXCEPT ![ref] = NIL]]
  BY DEF Discard
<1> HIDE DEF n
<1>3. WellTyped(u) /\ Len(u.pool) = Len(b.pool) /\ u.index = b.index
  BY <1>1, UnlinkType
<1> HIDE DEF u
<1>4. WellTyped(c) /\ Len(c.pool) = Len(u.pool) /\ c.index = u.index
  BY <1>1, <1>3, FreeType
<1> HIDE DEF c
<1>5. /\ Len(c.pool) \in Nat
      /\ c.pool \in Seq(OrderNode(Len(c.pool)))
      /\ c.free_head \in 0 .. Len(c.pool)
      /\ c.levels \in [Side -> Seq(Level(Len(c.pool)))]
      /\ c.index \in [Ref -> 0 .. Len(c.pool)]
      /\ c = [pool |-> c.pool, free_head |-> c.free_head,
              levels |-> c.levels, index |-> c.index]
  BY <1>4, Unpack
<1>6. Discard(b, ref) =
        [pool |-> c.pool, free_head |-> c.free_head, levels |-> c.levels,
         index |-> [b.index EXCEPT ![ref] = NIL]]
  BY <1>2, <1>5
<1>7. [b.index EXCEPT ![ref] = NIL] \in [Ref -> 0 .. Len(c.pool)]
  BY <1>3, <1>4, <1>5 DEF NIL
<1> QED
  BY <1>5, <1>6, <1>7 DEF WellTyped, BookOf

\* delete_order keeps the book well typed.
LEMMA DeleteType ==
  ASSUME NEW b, WellTyped(b), NEW ref \in Ref
  PROVE  WellTyped(delete_order(b, ref))
BY DiscardType DEF delete_order

\* A partial execution keeps the book well typed: no share count goes below zero.
LEMMA ShrinkType ==
  ASSUME NEW b, WellTyped(b), NEW ref \in Ref, b.index[ref] # NIL,
         NEW removed \in Nat, removed <= b.pool[b.index[ref]].shares
  PROVE  WellTyped(ShrinkOrder(b, ref, removed))
<1> DEFINE N      == Len(b.pool)
           n      == b.index[ref]
           node   == b.pool[n]
           side   == node.side
           ladder == b.levels[side]
           at     == find_level(ladder, side, node.price)
           before == ladder[at]
           level  == [before EXCEPT !.total_shares = @ - removed]
           pool   == [b.pool EXCEPT ![n].shares = @ - removed]
           shrunk == [b EXCEPT !.pool = pool]
           levels == [b.levels EXCEPT ![side] =
                        [ladder EXCEPT ![at].total_shares = @ - removed]]
<1>1. /\ N \in Nat
      /\ b.pool \in Seq(OrderNode(N)) /\ b.free_head \in 0 .. N
      /\ b.levels \in [Side -> Seq(Level(N))] /\ b.index \in [Ref -> 0 .. N]
      /\ b = [pool |-> b.pool, free_head |-> b.free_head,
              levels |-> b.levels, index |-> b.index]
  BY Unpack
<1>2. ShrinkOrder(b, ref, removed) =
        IF at = NIL THEN shrunk ELSE [shrunk EXCEPT !.levels = levels]
  BY DEF ShrinkOrder
<1>3. n \in 1 .. N
  BY <1>1 DEF NIL
<1> HIDE DEF n
<1>4. node \in OrderNode(N) /\ removed <= node.shares
  BY <1>1, <1>3, ElementOfSeq DEF n
<1>5. pool = [b.pool EXCEPT ![n] = [node EXCEPT !.shares = @ - removed]]
  BY <1>1, <1>3
<1> HIDE DEF node, pool
<1>6. [node EXCEPT !.shares = @ - removed] \in OrderNode(N)
  <2>1. node.shares - removed \in Shares
    BY <1>4, SharesAssumption DEF OrderNode, Shares
  <2> QED
    BY <1>4, <2>1 DEF OrderNode
<1>7. pool \in Seq(OrderNode(N)) /\ Len(pool) = N
  BY <1>1, <1>3, <1>5, <1>6, ExceptSeq
<1>8. side \in Side
  BY <1>4 DEF OrderNode
<1> HIDE DEF side
<1>9. ladder \in Seq(Level(N))
  BY <1>1, <1>8
<1> HIDE DEF ladder
<1>10. shrunk = [pool |-> pool, free_head |-> b.free_head,
                 levels |-> b.levels, index |-> b.index]
  BY <1>1
<1> HIDE DEF shrunk
<1>11. CASE at = NIL
  BY <1>1, <1>2, <1>7, <1>10, <1>11 DEF WellTyped, BookOf
<1>12. CASE at # NIL
  <2>1. at \in 1 .. Len(ladder)
    BY <1>9, <1>12, FindLevel
  <2>2. ShrinkOrder(b, ref, removed) = [shrunk EXCEPT !.levels = levels]
    BY <1>2, <1>12
  <2> HIDE DEF at
  <2>3. before \in Level(N)
    BY <1>9, <2>1, ElementOfSeq
  <2>4. levels = [b.levels EXCEPT ![side] = [ladder EXCEPT ![at] = level]]
    BY <1>9, <2>1
  <2> HIDE DEF before, levels
  <2>5. level \in Level(N)
    BY <2>3 DEF Level
  <2> HIDE DEF level
  <2>6. [ladder EXCEPT ![at] = level] \in Seq(Level(N))
    BY <1>9, <2>1, <2>5, ExceptSeq
  <2>7. levels \in [Side -> Seq(Level(N))]
    BY <1>1, <1>8, <2>4, <2>6
  <2>8. ShrinkOrder(b, ref, removed) =
          [pool |-> pool, free_head |-> b.free_head, levels |-> levels, index |-> b.index]
    BY <1>10, <2>2
  <2> QED
    BY <1>1, <1>7, <2>7, <2>8 DEF WellTyped, BookOf
<1> QED
  BY <1>11, <1>12

\* execute_order and reduce_order keep the book well typed, whatever the quantity.
LEMMA ExecuteType ==
  ASSUME NEW b, WellTyped(b), NEW ref \in Ref, NEW shares \in Shares
  PROVE  WellTyped(execute_order(b, ref, shares))
<1> DEFINE removed == Removed(b, ref, shares)
<1>1. CASE b.index[ref] = NIL
  BY <1>1 DEF execute_order
<1>2. CASE b.index[ref] # NIL
  <2>1. b.index[ref] \in 1 .. Len(b.pool)
    BY <1>2, Unpack DEF NIL
  <2>2. b.pool[b.index[ref]] \in OrderNode(Len(b.pool))
    BY <2>1, Unpack, ElementOfSeq
  <2>3. b.pool[b.index[ref]].shares \in Nat
    BY <2>2, SharesAssumption DEF OrderNode, Shares
  <2>4. removed \in Nat /\ removed <= b.pool[b.index[ref]].shares
    BY <1>2, <2>3, SharesAssumption DEF Removed, Shares
  <2>5. execute_order(b, ref, shares) =
          IF removed = b.pool[b.index[ref]].shares THEN Discard(b, ref)
                                                   ELSE ShrinkOrder(b, ref, removed)
    BY <1>2 DEF execute_order
  <2> HIDE DEF removed
  <2>6. WellTyped(Discard(b, ref)) /\ WellTyped(ShrinkOrder(b, ref, removed))
    BY <1>2, <2>4, DiscardType, ShrinkType
  <2> QED
    BY <2>5, <2>6
<1> QED
  BY <1>1, <1>2

\* replace_order keeps the book well typed.
LEMMA ReplaceType ==
  ASSUME NEW b, WellTyped(b), NEW old \in Ref, NEW new \in Ref,
         NEW shares \in Shares, NEW price \in Price
  PROVE  WellTyped(replace_order(b, old, new, shares, price))
<1>1. CASE b.index[old] = NIL
  BY <1>1 DEF replace_order
<1>2. CASE b.index[old] # NIL
  <2>1. b.index[old] \in 1 .. Len(b.pool)
    BY <1>2, Unpack DEF NIL
  <2>2. b.pool[b.index[old]] \in OrderNode(Len(b.pool))
    BY <2>1, Unpack, ElementOfSeq
  <2>3. b.pool[b.index[old]].side \in Side
    BY <2>2 DEF OrderNode
  <2>4. WellTyped(delete_order(b, old))
    BY DeleteType
  <2>5. WellTyped(add_order(delete_order(b, old), new, b.pool[b.index[old]].side,
                            shares, price))
    BY <2>3, <2>4, AddType
  <2> QED
    BY <1>2, <2>5 DEF replace_order
<1> QED
  BY <1>1, <1>2

-----------------------------------------------------------------------------


\* The recursive function Sums is the one its equations describe.
LEMMA SumsEquations ==
  ASSUME NEW orders, Len(orders) \in Nat
  PROVE  /\ Sums(orders)[0] = 0
         /\ \A k \in 1 .. Len(orders) :
              Sums(orders)[k] = Sums(orders)[k - 1] + orders[k].shares
<1> DEFINE n == Len(orders)
           Rec(g, m) == g = [k \in 0 .. m |-> IF k = 0 THEN 0 ELSE g[k - 1] + orders[k].shares]
           T == {m \in 0 .. n : \E g : Rec(g, m)}
<1>1. 0 \in T
  <2> DEFINE g == [k \in 0 .. 0 |-> 0]
  <2>1. Rec(g, 0)
    OBVIOUS
  <2>2. 0 \in 0 .. n
    OBVIOUS
  <2> HIDE DEF g, Rec
  <2> QED
    BY <2>1, <2>2
<1>2. ASSUME NEW i \in 0 .. n - 1, i \in T PROVE i + 1 \in T
  <2>1. PICK g : Rec(g, i)
    BY <1>2
  <2> DEFINE h == [k \in 0 .. i + 1 |-> IF k = i + 1 THEN g[i] + orders[i + 1].shares ELSE g[k]]
  <2>2. Rec(h, i + 1)
    BY <2>1
  <2> HIDE DEF h, Rec
  <2>3. i + 1 \in 0 .. n
    OBVIOUS
  <2> QED
    BY <2>2, <2>3
<1>3. n \in T
  <2>1. n \in Nat /\ n \in 0 .. n
    OBVIOUS
  <2> HIDE DEF T, n
  <2> QED
    BY <1>1, <1>2, <2>1, UpTo
<1> DEFINE S == CHOOSE g : Rec(g, n)
<1>4. Rec(S, n)
  <2> HIDE DEF Rec
  <2> QED
    BY <1>3
<1>5. Sums(orders) = S
  BY DEF Sums
<1> HIDE DEF S
<1> QED
  BY SMTT(60), <1>4, <1>5

\* Sums of numbers are numbers.
LEMMA SumsType ==
  ASSUME NEW orders, Len(orders) \in Nat, \A k \in 1 .. Len(orders) : orders[k].shares \in Int
  PROVE  \A k \in 0 .. Len(orders) : Sums(orders)[k] \in Int
<1> DEFINE T == {k \in 0 .. Len(orders) : Sums(orders)[k] \in Int}
<1>1. 0 \in T
  BY SumsEquations
<1>2. ASSUME NEW i \in 0 .. Len(orders) - 1, i \in T PROVE i + 1 \in T
  <2>1. Sums(orders)[i + 1] = Sums(orders)[i] + orders[i + 1].shares
    BY SumsEquations
  <2> QED
    BY <1>2, <2>1
<1>3. \A k \in 0 .. Len(orders) : k \in T
  <2> HIDE DEF T
  <2> QED
    BY <1>1, <1>2, UpTo
<1> QED
  BY <1>3

\* Queues that agree on their first orders agree on the sums of these.
LEMMA SumsAgree ==
  ASSUME NEW a, Len(a) \in Nat, NEW b, Len(b) \in Nat, NEW n \in Nat, n <= Len(a), n <= Len(b),
         \A k \in 1 .. n : a[k].shares = b[k].shares
  PROVE  \A k \in 0 .. n : Sums(a)[k] = Sums(b)[k]
<1> DEFINE T == {k \in 0 .. n : Sums(a)[k] = Sums(b)[k]}
<1>1. 0 \in T
  BY SumsEquations
<1>2. ASSUME NEW i \in 0 .. n - 1, i \in T PROVE i + 1 \in T
  <2>1. /\ Sums(a)[i + 1] = Sums(a)[i] + a[i + 1].shares
        /\ Sums(b)[i + 1] = Sums(b)[i] + b[i + 1].shares
    BY SumsEquations
  <2> QED
    BY <1>2, <2>1
<1>3. \A k \in 0 .. n : k \in T
  <2> HIDE DEF T
  <2> QED
    BY <1>1, <1>2, UpTo
<1> QED
  BY <1>3

\* Orders with share counts.
Countable(orders) ==
  Len(orders) \in Nat /\ \A k \in 1 .. Len(orders) : orders[k].shares \in Int

\* An empty queue holds no shares.
LEMMA SharesOfNone == SharesOf(<< >>) = 0
BY SumsEquations DEF SharesOf

\* An order that joins a queue adds its shares.
LEMMA SharesOfAppend ==
  ASSUME NEW a, Countable(a), NEW b, Len(b) = Len(a) + 1, b[Len(b)].shares \in Int,
         \A k \in 1 .. Len(a) : b[k].shares = a[k].shares
  PROVE  SharesOf(b) = SharesOf(a) + b[Len(b)].shares
<1>1. Sums(b)[Len(a)] = Sums(a)[Len(a)]
  BY SumsAgree, Len(b) \in Nat, Len(a) <= Len(b) DEF Countable
<1>2. Sums(b)[Len(b)] = Sums(b)[Len(b) - 1] + b[Len(b)].shares
  BY SumsEquations DEF Countable
<1> QED
  BY <1>1, <1>2 DEF SharesOf, Countable

\* An order that leaves a queue takes its shares away.
LEMMA SharesOfRemove ==
  ASSUME NEW a, Countable(a), NEW b, Countable(b), Len(a) = Len(b) + 1, NEW p \in 1 .. Len(a),
         \A k \in 1 .. Len(b) : b[k].shares = IF k < p THEN a[k].shares ELSE a[k + 1].shares
  PROVE  SharesOf(b) = SharesOf(a) - a[p].shares
<1> DEFINE T == {k \in 0 .. Len(b) : k >= p - 1 => Sums(b)[k] = Sums(a)[k + 1] - a[p].shares}
<1>1. Sums(b)[p - 1] = Sums(a)[p - 1]
  <2>1. PICK q : q = p - 1
    OBVIOUS
  <2>2. /\ q \in Nat /\ q <= Len(a) /\ q <= Len(b) /\ q \in 0 .. q
        /\ Len(a) \in Nat /\ Len(b) \in Nat
    BY <2>1 DEF Countable
  <2>3. \A k \in 1 .. q : b[k].shares = a[k].shares
    BY <2>1, <2>2
  <2>4. Sums(b)[q] = Sums(a)[q]
    BY <2>2, <2>3, SumsAgree
  <2> QED
    BY <2>1, <2>4
<1>2. Sums(a)[p] = Sums(a)[p - 1] + a[p].shares /\ Sums(a)[p - 1] \in Int /\ a[p].shares \in Int
  BY SumsEquations, SumsType, p - 1 \in 0 .. Len(a) DEF Countable
<1>3. p - 1 \in T
  BY <1>1, <1>2 DEF Countable
<1>4. 0 \in T
  BY <1>3 DEF Countable
<1>5. ASSUME NEW i \in 0 .. Len(b) - 1, i \in T PROVE i + 1 \in T
  <2>1. CASE i + 1 >= p
    <3>1. /\ Sums(b)[i + 1] = Sums(b)[i] + b[i + 1].shares
          /\ Sums(a)[i + 2] = Sums(a)[i + 1] + a[i + 2].shares
          /\ b[i + 1].shares = a[i + 2].shares
          /\ Sums(a)[i + 1] \in Int /\ a[i + 2].shares \in Int
      <4>1. /\ i + 2 \in 1 .. Len(a) /\ i + 1 \in 0 .. Len(a) /\ i + 1 \in 1 .. Len(b)
            /\ (i + 2) - 1 = i + 1 /\ (i + 1) - 1 = i /\ (i + 1) + 1 = i + 2 /\ ~ (i + 1 < p)
        BY <2>1 DEF Countable
      <4>2. /\ Sums(b)[i + 1] = Sums(b)[(i + 1) - 1] + b[i + 1].shares
            /\ Sums(a)[i + 2] = Sums(a)[(i + 2) - 1] + a[i + 2].shares
        BY <4>1, SumsEquations DEF Countable
      <4>3. b[i + 1].shares = a[(i + 1) + 1].shares
        BY <4>1
      <4>4. Sums(a)[i + 1] \in Int /\ a[i + 2].shares \in Int
        BY <4>1, SumsType DEF Countable
      <4> QED
        BY <4>1, <4>2, <4>3, <4>4
    <3> QED
      BY <1>2, <1>5, <2>1, <3>1
  <2>2. CASE i + 1 < p - 1
    BY <2>2 DEF Countable
  <2>3. CASE i + 1 = p - 1
    BY <2>3, <1>3
  <2> QED
    BY <2>1, <2>2, <2>3
<1>6. Len(b) \in T
  <2>1. Len(b) \in Nat /\ Len(b) \in 0 .. Len(b)
    BY DEF Countable
  <2> HIDE DEF T
  <2> QED
    BY <1>4, <1>5, <2>1, UpTo
<1> QED
  BY <1>6 DEF SharesOf, Countable

\* An order that loses shares takes as many from its queue.
LEMMA SharesOfShrink ==
  ASSUME NEW a, Countable(a), NEW b, Countable(b), Len(a) = Len(b), NEW p \in 1 .. Len(a),
         \A k \in 1 .. Len(b) : k # p => b[k].shares = a[k].shares
  PROVE  SharesOf(b) = SharesOf(a) - a[p].shares + b[p].shares
<1> DEFINE T == {k \in 0 .. Len(a) : Sums(b)[k] = IF k < p THEN Sums(a)[k]
                                       ELSE Sums(a)[k] - a[p].shares + b[p].shares}
<1>1. /\ \A k \in 1 .. Len(a) : a[k].shares \in Int /\ b[k].shares \in Int
      /\ \A k \in 0 .. Len(a) : Sums(a)[k] \in Int /\ Sums(b)[k] \in Int
  BY SumsType DEF Countable
<1>2. 0 \in T
  BY SumsEquations DEF Countable
<1>3. ASSUME NEW i \in 0 .. Len(a) - 1, i \in T PROVE i + 1 \in T
  <2>1. /\ Sums(b)[i + 1] = Sums(b)[i] + b[i + 1].shares
        /\ Sums(a)[i + 1] = Sums(a)[i] + a[i + 1].shares
    BY SumsEquations DEF Countable
  <2>2. i + 1 \in 1 .. Len(a) /\ i \in 0 .. Len(a) /\ i + 1 \in 0 .. Len(a) /\ Len(a) \in Nat
    BY DEF Countable
  <2>3. i + 1 # p => b[i + 1].shares = a[i + 1].shares
    BY <2>2
  <2>4. /\ Sums(a)[i] \in Int /\ a[i + 1].shares \in Int /\ a[p].shares \in Int
        /\ b[p].shares \in Int
    BY <1>1, <2>2
  <2> QED
    BY SMTT(60), <1>3, <2>1, <2>2, <2>3, <2>4
<1>4. Len(a) \in T
  <2>1. Len(a) \in Nat /\ Len(a) \in 0 .. Len(a)
    BY DEF Countable
  <2> HIDE DEF T
  <2> QED
    BY <1>2, <1>3, <2>1, UpTo
<1> QED
  BY <1>1, <1>4 DEF SharesOf, Countable

-----------------------------------------------------------------------------

\* The k-th node of a list, NIL outside it.
Node(w, k) == IF k \in 1 .. Len(w) THEN w[k] ELSE NIL

\* The list that the links of a pool spell out from a head on.
Links(pool, head, w) ==
  /\ head = Node(w, 1)
  /\ \A i \in 1 .. Len(w) : pool[w[i]].next = Node(w, i + 1)

\* A list of nodes of a pool of n nodes, none of them twice.
NodeList(w, n) ==
  /\ w \in Seq(1 .. n)
  /\ \A i, j \in 1 .. Len(w) : w[i] = w[j] => i = j

\* The recursive function Walk is the one its equations describe.
LEMMA WalkEquations ==
  ASSUME NEW pool, Len(pool) \in Nat, NEW from
  PROVE  /\ Walk(pool, from)[0] = from
         /\ \A k \in 1 .. Len(pool) :
              Walk(pool, from)[k] = IF Walk(pool, from)[k - 1] = NIL THEN NIL
                                    ELSE pool[Walk(pool, from)[k - 1]].next
<1> DEFINE n == Len(pool)
           After(x) == IF x = NIL THEN NIL ELSE pool[x].next
           Rec(g, m) == g = [k \in 0 .. m |-> IF k = 0 THEN from ELSE After(g[k - 1])]
           T == {m \in 0 .. n : \E g : Rec(g, m)}
<1>1. 0 \in T
  <2> DEFINE g == [k \in 0 .. 0 |-> from]
  <2>1. Rec(g, 0)
    OBVIOUS
  <2>2. 0 \in 0 .. n
    OBVIOUS
  <2> HIDE DEF g, Rec
  <2> QED
    BY <2>1, <2>2
<1>2. ASSUME NEW i \in 0 .. n - 1, i \in T PROVE i + 1 \in T
  <2>1. PICK g : Rec(g, i)
    BY <1>2
  <2> DEFINE h == [k \in 0 .. i + 1 |-> IF k = i + 1 THEN After(g[i]) ELSE g[k]]
  <2>2. Rec(h, i + 1)
    <3> HIDE DEF After
    <3> QED
      BY <2>1
  <2> HIDE DEF h, Rec
  <2>3. i + 1 \in 0 .. n
    OBVIOUS
  <2> QED
    BY <2>2, <2>3
<1>3. n \in T
  <2>1. n \in Nat /\ n \in 0 .. n
    OBVIOUS
  <2> HIDE DEF T, n
  <2> QED
    BY <1>1, <1>2, <2>1, UpTo
<1> DEFINE S == CHOOSE g : Rec(g, n)
<1>4. Rec(S, n)
  <2> HIDE DEF Rec
  <2> QED
    BY <1>3
<1>5. Walk(pool, from) = S
  BY DEF Walk
<1> HIDE DEF S
<1> QED
  BY <1>4, <1>5

\* A list without repetition is no longer than its pool.
LEMMA ListLength ==
  ASSUME NEW n \in Nat, NEW w, NodeList(w, n)
  PROVE  Len(w) \in Nat /\ Len(w) <= n
<1>1. /\ w \in Seq(1 .. n) /\ Len(w) \in Nat
      /\ \A i \in 1 .. Len(w) : w[i] \in 1 .. n
  BY LenProperties, ElementOfSeq DEF NodeList
<1>2. /\ IsFiniteSet(1 .. Len(w)) /\ Cardinality(1 .. Len(w)) = Len(w)
      /\ IsFiniteSet(1 .. n) /\ Cardinality(1 .. n) = n
  <2>1. 1 \in Int /\ n \in Int /\ Len(w) \in Int
    BY <1>1
  <2>2. IsFiniteSet(1 .. n) /\ Cardinality(1 .. n) = IF 1 > n THEN 0 ELSE n - 1 + 1
    BY <2>1, FS_Interval
  <2>3. IsFiniteSet(1 .. Len(w)) /\ Cardinality(1 .. Len(w)) = IF 1 > Len(w) THEN 0 ELSE Len(w) - 1 + 1
    BY <2>1, FS_Interval
  <2> QED
    BY <1>1, <2>2, <2>3
<1> DEFINE S == 1 .. Len(w)
           T == {w[x] : x \in S}
<1>3. Cardinality(T) = Cardinality(S)
  <2>1. \A x, y \in S : w[x] = w[y] => x = y
    BY DEF NodeList
  <2>2. IsFiniteSet(S)
    BY <1>2
  <2> HIDE DEF S
  <2> QED
    BY <2>1, <2>2, InjectiveImage
<1>4. T \subseteq 1 .. n
  BY <1>1
<1> HIDE DEF T
<1>5. Cardinality(T) <= Cardinality(1 .. n)
  BY <1>2, <1>4, FS_Subset
<1> QED
  BY <1>1, <1>2, <1>3, <1>5

\* Chain reads back the list the links spell out.
LEMMA ChainIsList ==
  ASSUME NEW pool, Len(pool) \in Nat, NEW from, NEW w,
         NodeList(w, Len(pool)), Links(pool, from, w)
  PROVE  Chain(pool, from) = w
<1> DEFINE n == Len(pool)
           T == {k \in 0 .. n : Walk(pool, from)[k] = Node(w, k + 1)}
<1>1. /\ Len(w) \in Nat /\ Len(w) <= n /\ w = [i \in 1 .. Len(w) |-> w[i]]
      /\ \A i \in 1 .. Len(w) : w[i] # NIL
  <2>1. w \in Seq(1 .. n) /\ Len(w) \in Nat /\ Len(w) <= n
    BY ListLength DEF NodeList
  <2> QED
    BY <2>1, LenProperties, ElementOfSeq DEF NIL
<1>2. 0 \in T
  BY WalkEquations DEF Links
<1>3. ASSUME NEW i \in 0 .. n - 1, i \in T PROVE i + 1 \in T
  <2>1. /\ i + 1 \in 1 .. n /\ i + 1 \in 0 .. n /\ (i + 1) - 1 = i
        /\ Walk(pool, from)[i] = Node(w, i + 1)
    BY <1>3
  <2>2. Walk(pool, from)[i + 1] = IF Walk(pool, from)[i] = NIL THEN NIL
                                  ELSE pool[Walk(pool, from)[i]].next
    BY <2>1, WalkEquations
  <2>3. CASE i + 1 \in 1 .. Len(w)
    BY <1>1, <2>1, <2>2, <2>3 DEF Links, Node
  <2>4. CASE i + 1 \notin 1 .. Len(w)
    BY <1>1, <2>1, <2>2, <2>4 DEF Node
  <2> QED
    BY <2>3, <2>4
<1>4. \A k \in 0 .. n : Walk(pool, from)[k] = Node(w, k + 1)
  <2>1. \A k \in 0 .. n : k \in T
    <3> HIDE DEF T
    <3> QED
      BY <1>2, <1>3, UpTo
  <2> QED
    BY <2>1
<1> DEFINE K == {k \in 0 .. n : Walk(pool, from)[k] # NIL}
<1>5. K = 0 .. Len(w) - 1
  BY <1>1, <1>4 DEF Node
<1>6. Cardinality(K) = Len(w)
  <2>1. 0 \in Int /\ Len(w) - 1 \in Int
    BY <1>1
  <2>2. Cardinality(0 .. Len(w) - 1) =
          IF 0 > Len(w) - 1 THEN 0 ELSE Len(w) - 1 - 0 + 1
    BY <2>1, FS_Interval
  <2>3. Cardinality(0 .. Len(w) - 1) = Len(w)
    BY <1>1, <2>2
  <2> HIDE DEF K
  <2> QED
    BY <1>5, <2>3
<1>7. Chain(pool, from) = [i \in 1 .. Len(w) |-> Walk(pool, from)[i - 1]]
  BY <1>6 DEF Chain
<1>8. \A i \in 1 .. Len(w) : Walk(pool, from)[i - 1] = w[i]
  BY <1>1, <1>4 DEF Node
<1> QED
  BY <1>1, <1>7, <1>8

-----------------------------------------------------------------------------

\* A ladder with one level for each of the prices in H, the best first; lv gives the
\* level a price has.
IsLadder(ladder, side, H, lv) ==
  /\ \A i \in 1 .. Len(ladder) : /\ ladder[i].price \in H
                                 /\ ladder[i] = lv[ladder[i].price]
  /\ \A p \in H : \E i \in 1 .. Len(ladder) : ladder[i].price = p
  /\ \A i, j \in 1 .. Len(ladder) :
       i < j => Better(side, ladder[i].price, ladder[j].price)

\* Prices are numbers.
LEMMA PriceIsNumber == \A p \in Price : p \in Nat /\ p \in Int
BY PriceAssumption

\* The prices of a ladder are numbers.
LEMMA LadderPrices ==
  ASSUME NEW n, NEW ladder \in Seq(Level(n))
  PROVE  /\ Len(ladder) \in Nat
         /\ \A i \in 1 .. Len(ladder) : /\ ladder[i] \in Level(n)
                                        /\ ladder[i].price \in Price
                                        /\ ladder[i].price \in Int
<1>1. Len(ladder) \in Nat /\ \A i \in 1 .. Len(ladder) : ladder[i] \in Level(n)
  BY LenProperties, ElementOfSeq
<1>2. ASSUME NEW i \in 1 .. Len(ladder)
      PROVE  ladder[i].price \in Price /\ ladder[i].price \in Int
  <2>1. ladder[i] \in Level(n)
    BY <1>1
  <2>2. ladder[i].price \in Price
    BY <2>1 DEF Level
  <2> QED
    BY <2>2, PriceIsNumber
<1> QED
  BY <1>1, <1>2

\* find_level finds the level of every price that has one, and no other.
LEMMA LadderFind ==
  ASSUME NEW n, NEW ladder \in Seq(Level(n)), NEW side, NEW H, NEW lv,
         IsLadder(ladder, side, H, lv), NEW price \in Price
  PROVE  LET at == find_level(ladder, side, price)
         IN  /\ (at # NIL) <=> (price \in H)
             /\ price \in H => /\ at \in 1 .. Len(ladder)
                               /\ at = lower_bound(ladder, side, price)
                               /\ ladder[at] = lv[price]
                               /\ ladder[at].price = price
<1> DEFINE lb == lower_bound(ladder, side, price)
           at == find_level(ladder, side, price)
<1>1. /\ lb \in 1 .. Len(ladder) + 1
      /\ \A j \in 1 .. lb - 1 : Better(side, ladder[j].price, price)
      /\ lb <= Len(ladder) => ~ Better(side, ladder[lb].price, price)
  BY LowerBound
<1>2. /\ at \in 0 .. Len(ladder)
      /\ at # NIL => at \in 1 .. Len(ladder) /\ at = lb /\ ladder[at].price = price
  BY FindLevel
<1>3. /\ Len(ladder) \in Nat /\ price \in Int
      /\ \A i \in 1 .. Len(ladder) : ladder[i].price \in Int
  BY LadderPrices, PriceAssumption
<1>4. at = IF lb <= Len(ladder) /\ ladder[lb].price = price THEN lb ELSE NIL
  BY DEF find_level
<1> HIDE DEF lb, at
<1>5. CASE at # NIL
  BY <1>2, <1>5 DEF IsLadder, lb, at
<1>6. ASSUME price \in H PROVE at # NIL
  <2>1. PICK i \in 1 .. Len(ladder) : ladder[i].price = price
    BY <1>6 DEF IsLadder
  <2>2. ~ (lb < i)
    <3> SUFFICES ASSUME lb < i PROVE FALSE
      OBVIOUS
    <3>1. lb \in 1 .. Len(ladder)
      BY <1>1, <1>3
    <3>2. Better(side, ladder[lb].price, ladder[i].price)
      BY <3>1 DEF IsLadder
    <3> QED
      BY <1>1, <1>3, <2>1, <3>1, <3>2
  <2>3. ~ (i < lb)
    <3> SUFFICES ASSUME i < lb PROVE FALSE
      OBVIOUS
    <3>1. i \in 1 .. lb - 1
      BY <1>1, <1>3
    <3>2. Better(side, price, price)
      BY <1>1, <2>1, <3>1
    <3> QED
      BY <1>3, <3>2 DEF Better
  <2>4. lb = i
    BY <1>1, <1>3, <2>2, <2>3
  <2> QED
    BY <1>3, <1>4, <2>1, <2>4 DEF NIL
<1> QED
  BY <1>2, <1>5, <1>6 DEF lb, at

\* Rewriting the level of a price: the others stay where they are.
LEMMA LadderUpdate ==
  ASSUME NEW n, NEW ladder \in Seq(Level(n)), NEW side, NEW H, NEW lv,
         IsLadder(ladder, side, H, lv),
         NEW at \in 1 .. Len(ladder), NEW level, level.price = ladder[at].price,
         NEW new, new[level.price] = level, \A p \in H \ {level.price} : new[p] = lv[p]
  PROVE  IsLadder([ladder EXCEPT ![at] = level], side, H, new)
<1> DEFINE l == [ladder EXCEPT ![at] = level]
<1>1. /\ Len(ladder) \in Nat
      /\ \A i \in 1 .. Len(ladder) : ladder[i].price \in Int
  BY LadderPrices
<1>2. /\ Len(l) = Len(ladder) /\ l[at] = level
      /\ \A i \in 1 .. Len(ladder) : i # at => l[i] = ladder[i]
  BY LenProperties
<1> HIDE DEF l
<1>3. \A i, j \in 1 .. Len(ladder) : ladder[i].price = ladder[j].price => i = j
  BY <1>1 DEF IsLadder, Better
<1>4. \A i \in 1 .. Len(ladder) : l[i].price = ladder[i].price
  BY <1>2
<1>5. \A i \in 1 .. Len(ladder) : l[i] = new[l[i].price]
  BY <1>2, <1>3, <1>4 DEF IsLadder
<1>6. IsLadder(l, side, H, new)
  BY <1>2, <1>4, <1>5 DEF IsLadder
<1> QED
  BY <1>6 DEF l

\* A level is removed: one less price, the others in the same order.
LEMMA LadderRemove ==
  ASSUME NEW n, NEW ladder \in Seq(Level(n)), NEW side, NEW H, NEW lv,
         IsLadder(ladder, side, H, lv), NEW at \in 1 .. Len(ladder),
         NEW new, \A p \in H \ {ladder[at].price} : new[p] = lv[p]
  PROVE  IsLadder(RemoveAt(ladder, at), side, H \ {ladder[at].price}, new)
<1> DEFINE l == RemoveAt(ladder, at)
<1>1. /\ Len(ladder) \in Nat
      /\ \A i \in 1 .. Len(ladder) : ladder[i].price \in Int
  BY LadderPrices
<1>2. /\ Len(l) = Len(ladder) - 1
      /\ \A j \in 1 .. Len(ladder) - 1 : l[j] = IF j < at THEN ladder[j] ELSE ladder[j + 1]
  BY RemoveType
<1> HIDE DEF l
<1>3. \A i, j \in 1 .. Len(ladder) : ladder[i].price = ladder[j].price => i = j
  BY <1>1 DEF IsLadder, Better
<1> DEFINE of(j) == IF j < at THEN j ELSE j + 1
<1>4. \A j \in 1 .. Len(l) : of(j) \in 1 .. Len(ladder) /\ of(j) # at /\ l[j] = ladder[of(j)]
  BY <1>1, <1>2
<1>5. \A i, j \in 1 .. Len(l) : i < j => of(i) < of(j)
  BY <1>1, <1>2
<1>6. ASSUME NEW p \in H \ {ladder[at].price}
      PROVE  \E j \in 1 .. Len(l) : l[j].price = p
  <2>1. PICK i \in 1 .. Len(ladder) : ladder[i].price = p
    BY DEF IsLadder
  <2>2. CASE i < at
    BY <1>1, <1>2, <2>1, <2>2
  <2>3. CASE i > at
    <3>1. i - 1 \in 1 .. Len(l) /\ ~ (i - 1 < at) /\ (i - 1) + 1 = i
      BY <1>1, <1>2, <2>3
    <3> QED
      BY <1>2, <2>1, <3>1
  <2> QED
    BY <1>1, <2>1, <2>2, <2>3
<1> HIDE DEF of
<1>7. \A j \in 1 .. Len(l) : /\ l[j].price \in H \ {ladder[at].price}
                             /\ l[j] = new[l[j].price]
  BY <1>3, <1>4 DEF IsLadder
<1>8. \A i, j \in 1 .. Len(l) : i < j => Better(side, l[i].price, l[j].price)
  BY <1>4, <1>5 DEF IsLadder
<1>9. IsLadder(l, side, H \ {ladder[at].price}, new)
  BY <1>6, <1>7, <1>8 DEF IsLadder
<1> QED
  BY <1>9 DEF l

\* The level find_or_create_level has for a price, before it is filled in.
LEMMA LadderAt ==
  ASSUME NEW n \in Nat, NEW ladder \in Seq(Level(n)), NEW side, NEW H, NEW lv,
         IsLadder(ladder, side, H, lv), NEW price \in Price,
         NEW l, l = find_or_create_level(ladder, side, price),
         NEW at, at = lower_bound(ladder, side, price)
  PROVE  l[at] = IF price \in H THEN lv[price] ELSE EmptyLevel(price)
<1>1. CASE price \in H
  <2>1. find_level(ladder, side, price) # NIL /\ ladder[at] = lv[price]
    BY <1>1, LadderFind
  <2> QED
    BY <1>1, <2>1 DEF find_or_create_level
<1>2. CASE price \notin H
  <2>1. find_level(ladder, side, price) = NIL
    BY <1>2, LadderFind
  <2>2. l = InsertAt(ladder, at, EmptyLevel(price))
    BY <2>1 DEF find_or_create_level
  <2>3. at \in 1 .. Len(ladder) + 1
    BY LowerBound
  <2>4. EmptyLevel(price) \in Level(n)
    BY DEF EmptyLevel, Level, NIL
  <2> QED
    BY <1>2, <2>2, <2>3, <2>4, InsertType
<1> QED
  BY <1>1, <1>2

\* A price gets its level, at the place its order asks for, and the level is filled in.
LEMMA LadderPut ==
  ASSUME NEW n \in Nat, NEW ladder \in Seq(Level(n)), NEW side, NEW H, NEW lv,
         IsLadder(ladder, side, H, lv), NEW price \in Price,
         NEW level, level.price = price,
         NEW new, new[price] = level, \A p \in H \ {price} : new[p] = lv[p],
         NEW l, l = find_or_create_level(ladder, side, price),
         NEW at, at = lower_bound(ladder, side, price),
         NEW filled, filled = [l EXCEPT ![at] = level]
  PROVE  IsLadder(filled, side, H \cup {price}, new)
<1>1. CASE price \in H
  <2>1. /\ find_level(ladder, side, price) # NIL
        /\ at \in 1 .. Len(ladder) /\ ladder[at] = lv[price] /\ ladder[at].price = price
    BY <1>1, LadderFind
  <2>2. l = ladder
    BY <2>1 DEF find_or_create_level
  <2>3. IsLadder([ladder EXCEPT ![at] = level], side, H, new)
    BY <2>1, LadderUpdate
  <2>4. H \cup {price} = H
    BY <1>1
  <2> QED
    BY <1>1, <2>1, <2>2, <2>3, <2>4
<1>2. CASE price \notin H
  <2>1. find_level(ladder, side, price) = NIL
    BY <1>2, LadderFind
  <2>2. l = InsertAt(ladder, at, EmptyLevel(price))
    BY <2>1 DEF find_or_create_level
  <2>3. /\ at \in 1 .. Len(ladder) + 1
        /\ \A j \in 1 .. at - 1 : Better(side, ladder[j].price, price)
        /\ at <= Len(ladder) => ~ Better(side, ladder[at].price, price)
    BY LowerBound
  <2>4. EmptyLevel(price) \in Level(n)
    BY DEF EmptyLevel, Level, NIL
  <2>5. /\ Len(ladder) \in Nat /\ price \in Int
        /\ \A i \in 1 .. Len(ladder) : ladder[i].price \in Int /\ ladder[i].price \in H
    BY LadderPrices, PriceAssumption DEF IsLadder
  <2>6. /\ l \in Seq(Level(n)) /\ Len(l) = Len(ladder) + 1 /\ l[at] = EmptyLevel(price)
        /\ \A j \in 1 .. Len(ladder) + 1 :
             l[j] = IF j < at THEN ladder[j]
                    ELSE IF j = at THEN EmptyLevel(price) ELSE ladder[j - 1]
    <3> DEFINE e == EmptyLevel(price)
    <3>1. e \in Level(n)
      BY <2>4
    <3> HIDE DEF e
    <3>2. /\ InsertAt(ladder, at, e) \in Seq(Level(n))
          /\ Len(InsertAt(ladder, at, e)) = Len(ladder) + 1
          /\ InsertAt(ladder, at, e)[at] = e
          /\ \A j \in 1 .. Len(ladder) + 1 :
               InsertAt(ladder, at, e)[j] =
                 IF j < at THEN ladder[j] ELSE IF j = at THEN e ELSE ladder[j - 1]
      BY SMTT(60), <2>3, <3>1, InsertType
    <3> QED
      BY <2>2, <3>2 DEF e
  <2> DEFINE m == [l EXCEPT ![at] = level]
  <2>7. /\ Len(m) = Len(ladder) + 1 /\ m[at] = level
        /\ \A j \in 1 .. Len(m) : j < at => m[j] = ladder[j]
        /\ \A j \in 1 .. Len(m) : j > at => m[j] = ladder[j - 1]
    <3>1. at \in 1 .. Len(l) /\ DOMAIN l = 1 .. Len(l)
      BY <2>3, <2>5, <2>6, LenProperties
    <3>2. Len(m) = Len(l) /\ m[at] = level /\ \A j \in 1 .. Len(l) : j # at => m[j] = l[j]
      BY <3>1, <2>6, LenProperties
    <3> HIDE DEF m
    <3>3. /\ \A j \in 1 .. Len(l) : j < at => m[j] = ladder[j]
          /\ \A j \in 1 .. Len(l) : j > at => m[j] = ladder[j - 1]
      <4> SUFFICES ASSUME NEW j \in 1 .. Len(l)
                   PROVE  /\ j < at => m[j] = ladder[j]
                          /\ j > at => m[j] = ladder[j - 1]
        OBVIOUS
      <4>1. j \in 1 .. Len(ladder) + 1 /\ j \in Int /\ at \in Int
        BY <2>3, <2>5, <2>6
      <4>2. j # at => m[j] = l[j]
        BY <3>2
      <4>3. l[j] = IF j < at THEN ladder[j]
                   ELSE IF j = at THEN EmptyLevel(price) ELSE ladder[j - 1]
        BY <2>6, <4>1
      <4> QED
        BY <4>1, <4>2, <4>3
    <3> QED
      BY <2>6, <3>2, <3>3
  <2> HIDE DEF m
  <2>8. \A j \in at .. Len(ladder) : Better(side, price, ladder[j].price)
    <3> SUFFICES ASSUME NEW j \in at .. Len(ladder) PROVE Better(side, price, ladder[j].price)
      OBVIOUS
    <3>1. at \in 1 .. Len(ladder) /\ j \in 1 .. Len(ladder)
      BY <2>3, <2>5
    <3>2. Better(side, price, ladder[at].price)
      BY <1>2, <2>3, <2>5, <3>1 DEF Better
    <3>3. j # at => Better(side, ladder[at].price, ladder[j].price)
      BY <3>1 DEF IsLadder
    <3> QED
      BY <2>5, <3>1, <3>2, <3>3 DEF Better
  <2>9. \A j \in 1 .. Len(m) : m[j].price \in H \cup {price} /\ m[j] = new[m[j].price]
    <3> SUFFICES ASSUME NEW j \in 1 .. Len(m)
                 PROVE  m[j].price \in H \cup {price} /\ m[j] = new[m[j].price]
      OBVIOUS
    <3>1. CASE j = at
      BY <2>7, <3>1
    <3>2. CASE j < at
      <4>1. j \in 1 .. Len(ladder)
        BY <2>3, <2>5, <3>2
      <4>2. m[j] = ladder[j]
        BY <2>7, <3>2
      <4> QED
        BY <1>2, <4>1, <4>2 DEF IsLadder
    <3>3. CASE j > at
      <4>1. j - 1 \in 1 .. Len(ladder) /\ m[j] = ladder[j - 1]
        BY <2>3, <2>5, <2>7, <3>3
      <4> QED
        BY SMTT(60), <1>2, <4>1 DEF IsLadder
    <3> QED
      BY <2>3, <2>5, <2>7, <3>1, <3>2, <3>3
  <2>10. ASSUME NEW p \in H \cup {price} PROVE \E j \in 1 .. Len(m) : m[j].price = p
    <3>1. CASE p = price
      BY <2>3, <2>5, <2>7, <3>1
    <3>2. CASE p # price
      <4>1. PICK i \in 1 .. Len(ladder) : ladder[i].price = p
        BY <3>2 DEF IsLadder
      <4>2. CASE i < at
        BY <2>5, <2>7, <4>1, <4>2
      <4>3. CASE i >= at
        <5>1. i + 1 \in 1 .. Len(m) /\ i + 1 > at /\ (i + 1) - 1 = i
          BY <2>3, <2>5, <2>7, <4>3
        <5> QED
          BY <2>7, <4>1, <5>1
      <4> QED
        BY <2>3, <2>5, <4>2, <4>3
    <3> QED
      BY <3>1, <3>2
  <2>11. ASSUME NEW i \in 1 .. Len(m), NEW j \in 1 .. Len(m), i < j
         PROVE  Better(side, m[i].price, m[j].price)
    <3>1. CASE j < at
      <4>1. /\ i \in 1 .. Len(ladder) /\ m[i] = ladder[i]
            /\ j \in 1 .. Len(ladder) /\ m[j] = ladder[j]
        BY <2>3, <2>5, <2>7, <2>11, <3>1
      <4> QED
        BY <2>11, <4>1 DEF IsLadder
    <3>2. CASE j = at
      <4>1. i \in 1 .. at - 1 /\ m[i] = ladder[i]
        BY <2>3, <2>7, <2>11, <3>2
      <4> QED
        BY <2>3, <2>7, <3>2, <4>1
    <3>3. CASE j > at
      <4>1. j - 1 \in at .. Len(ladder) /\ j - 1 \in 1 .. Len(ladder) /\ m[j] = ladder[j - 1]
        BY <2>3, <2>5, <2>7, <3>3
      <4>2. CASE i = at
        BY <2>7, <2>8, <4>1, <4>2
      <4>3. CASE i < at
        <5>1. i \in 1 .. Len(ladder) /\ i < j - 1 /\ m[i] = ladder[i]
          BY <2>3, <2>5, <2>7, <3>3, <4>3
        <5> QED
          BY <4>1, <5>1 DEF IsLadder
      <4>4. CASE i > at
        <5>1. i - 1 \in 1 .. Len(ladder) /\ i - 1 < j - 1 /\ m[i] = ladder[i - 1]
          BY <2>3, <2>5, <2>7, <2>11, <4>4
        <5> QED
          BY <4>1, <5>1 DEF IsLadder
      <4> QED
        BY <2>3, <4>2, <4>3, <4>4
    <3> QED
      BY <2>3, <3>1, <3>2, <3>3
  <2>12. IsLadder(m, side, H \cup {price}, new)
    BY <2>9, <2>10, <2>11 DEF IsLadder
  <2> QED
    BY <1>2, <2>6, <2>12 DEF m
<1> QED
  BY <1>1, <1>2

-----------------------------------------------------------------------------
(***************************************************************************)
(* What a book represents: W gives each line its list of nodes, F is the   *)
(* free list and X the nodes in neither (one that allocate_node has handed *)
(* out and add_order has not linked yet).                                  *)
(***************************************************************************)

\* The orders a list of nodes holds, as orders_at shows them.
Shown(pool, w) == [i \in 1 .. Len(w) |-> OrderView(pool[w[i]])]

\* The level that keeps a list of nodes.
LevelFor(pool, price, w) ==
  [price |-> price, total_shares |-> SharesOf(Shown(pool, w)), order_count |-> Len(w),
   head |-> Node(w, 1), tail |-> Node(w, Len(w))]

\* A list is linked both ways, and each of its nodes is on its line and found by the index.
QueueOK(b, l, w) ==
  /\ NodeList(w, Len(b.pool))
  /\ \A i \in 1 .. Len(w) :
       /\ b.pool[w[i]].next = Node(w, i + 1)
       /\ b.pool[w[i]].prev = Node(w, i - 1)
       /\ b.pool[w[i]].side = l[1]
       /\ b.pool[w[i]].price = l[2]
       /\ b.pool[w[i]].reference_number \in Ref
       /\ b.index[b.pool[w[i]].reference_number] = w[i]

QueuesOK(b, W) == \A l \in Line : QueueOK(b, l, W[l])

\* What the index finds is queued.
IndexOK(b, W) ==
  \A r \in Ref : b.index[r] # NIL =>
    /\ b.pool[b.index[r]].reference_number = r
    /\ \E l \in Line : \E i \in 1 .. Len(W[l]) : W[l][i] = b.index[r]

\* The free list is linked, and the index finds none of its nodes.
FreeOK(b, F) ==
  /\ NodeList(F, Len(b.pool))
  /\ Links(b.pool, b.free_head, F)
  /\ \A j \in 1 .. Len(F) : \A r \in Ref : b.index[r] # F[j]

\* Every other node is in X or found by the index.
CoverOK(b, F, X) ==
  /\ \A x \in X : /\ x \in 1 .. Len(b.pool)
                  /\ \A j \in 1 .. Len(F) : F[j] # x
                  /\ \A r \in Ref : b.index[r] # x
  /\ \A n \in 1 .. Len(b.pool) :
       \/ n \in X
       \/ \E j \in 1 .. Len(F) : F[j] = n
       \/ \E r \in Ref : b.index[r] = n

HeldBy(W, s) == {p \in Price : W[<<s, p>>] # << >>}

LevelsFor(pool, W, s) == [p \in Price |-> LevelFor(pool, p, W[<<s, p>>])]

LaddersOK(b, W) ==
  \A s \in Side : IsLadder(b.levels[s], s, HeldBy(W, s), LevelsFor(b.pool, W, s))

Represents(b, W, F, X) ==
  /\ WellTyped(b)
  /\ DOMAIN W = Line
  /\ QueuesOK(b, W)
  /\ IndexOK(b, W)
  /\ FreeOK(b, F)
  /\ CoverOK(b, F, X)
  /\ LaddersOK(b, W)

\* A book in which everything has its place.
Sound(b) == \E W, F : Represents(b, W, F, {})

\* What a list of nodes is made of.
LEMMA ListParts ==
  ASSUME NEW n, NEW w, NodeList(w, n)
  PROVE  /\ Len(w) \in Nat /\ w \in Seq(1 .. n) /\ DOMAIN w = 1 .. Len(w)
         /\ \A i \in 1 .. Len(w) : w[i] \in 1 .. n
         /\ \A i, j \in 1 .. Len(w) : w[i] = w[j] => i = j
<1>1. w \in Seq(1 .. n)
  BY DEF NodeList
<1> QED
  BY <1>1, LenProperties, ElementOfSeq DEF NodeList

\* A list of nodes stays one when the pool grows.
LEMMA ListGrowth ==
  ASSUME NEW n \in Nat, NEW m \in Nat, n <= m, NEW w, NodeList(w, n)
  PROVE  NodeList(w, m)
<1>1. (1 .. n) \subseteq 1 .. m
  OBVIOUS
<1>2. Seq(1 .. n) \subseteq Seq(1 .. m)
  BY <1>1, SeqMonotonic
<1> QED
  BY <1>2 DEF NodeList

\* A change to the pool and the index that leaves a list's nodes alone leaves the list
\* and what it shows as they were.
LEMMA QueueFrame ==
  ASSUME NEW b, NEW c, NEW l, NEW w, QueueOK(b, l, w),
         Len(b.pool) \in Nat, Len(c.pool) \in Nat, Len(b.pool) <= Len(c.pool),
         \A i \in 1 .. Len(w) : /\ c.pool[w[i]] = b.pool[w[i]]
                                /\ c.index[b.pool[w[i]].reference_number] = w[i]
  PROVE  QueueOK(c, l, w) /\ Shown(c.pool, w) = Shown(b.pool, w)
<1>1. NodeList(w, Len(c.pool))
  BY ListGrowth DEF QueueOK
<1> QED
  BY <1>1 DEF QueueOK, Shown

\* A ladder depends on the levels of the prices it holds only.
LEMMA LadderFrame ==
  ASSUME NEW ladder, NEW side, NEW H, NEW lv, IsLadder(ladder, side, H, lv),
         NEW new, \A p \in H : new[p] = lv[p]
  PROVE  IsLadder(ladder, side, H, new)
BY DEF IsLadder

\* No node is queued on two lines, or twice on one.
LEMMA OnePlace ==
  ASSUME NEW b, NEW W, QueuesOK(b, W),
         NEW l \in Line, NEW i \in 1 .. Len(W[l]), NEW m \in Line, NEW j \in 1 .. Len(W[m]),
         W[l][i] = W[m][j]
  PROVE  l = m /\ i = j
<1>1. QueueOK(b, l, W[l]) /\ QueueOK(b, m, W[m])
  BY DEF QueuesOK
<1>2. b.pool[W[l][i]].side = l[1] /\ b.pool[W[l][i]].price = l[2]
  BY <1>1 DEF QueueOK
<1>3. b.pool[W[m][j]].side = m[1] /\ b.pool[W[m][j]].price = m[2]
  BY <1>1 DEF QueueOK
<1>4. l = m
  BY <1>2, <1>3 DEF Line
<1> QED
  BY <1>1, <1>4 DEF QueueOK, NodeList

\* A node that the index does not find is not queued.
LEMMA NotQueued ==
  ASSUME NEW b, NEW W, QueuesOK(b, W), NEW n, \A r \in Ref : b.index[r] # n
  PROVE  \A l \in Line : \A i \in 1 .. Len(W[l]) : W[l][i] # n
<1> SUFFICES ASSUME NEW l \in Line, NEW i \in 1 .. Len(W[l]) PROVE W[l][i] # n
  OBVIOUS
<1>1. QueueOK(b, l, W[l])
  BY DEF QueuesOK
<1> QED
  BY SMTT(60), <1>1 DEF QueueOK

\* allocate_node takes the first free node, or a new one, and leaves the rest alone.
LEMMA AllocateSound ==
  ASSUME NEW b, NEW W, NEW F, Represents(b, W, F, {})
  PROVE  /\ \E G : Represents(allocate_node(b), W, G, {AllocatedNode(b)})
         /\ \A l \in Line : Shown(allocate_node(b).pool, W[l]) = Shown(b.pool, W[l])
<1> DEFINE n == AllocatedNode(b)
           a == allocate_node(b)
           N == Len(b.pool)
           M == Len(a.pool)
<1>1. WellTyped(b) /\ DOMAIN W = Line /\ QueuesOK(b, W) /\ IndexOK(b, W) /\ FreeOK(b, F)
      /\ CoverOK(b, F, {}) /\ LaddersOK(b, W)
  BY DEF Represents
<1>2. /\ WellTyped(a) /\ n \in 1 .. M /\ a.levels = b.levels /\ a.index = b.index /\ N <= M
      /\ N \in Nat /\ M \in Nat
  BY <1>1, AllocateType, Unpack
<1>3. /\ b.pool \in Seq(OrderNode(N)) /\ DOMAIN b.pool = 1 .. N
      /\ b = [pool |-> b.pool, free_head |-> b.free_head, levels |-> b.levels, index |-> b.index]
      /\ b.index \in [Ref -> 0 .. N]
  BY <1>1, Unpack, LenProperties
<1>4. /\ Len(F) \in Nat /\ F \in Seq(1 .. N) /\ DOMAIN F = 1 .. Len(F)
      /\ \A i \in 1 .. Len(F) : F[i] \in 1 .. N
      /\ \A i, j \in 1 .. Len(F) : F[i] = F[j] => i = j
  BY <1>1, ListParts DEF FreeOK
<1>5. /\ \A x \in 1 .. N : x # n => a.pool[x] = b.pool[x]
      /\ \A r \in Ref : b.index[r] # n
      /\ \E G : /\ FreeOK(a, G) /\ CoverOK(a, G, {n})
  <2>1. CASE b.free_head # NIL
    <3>1. /\ n = b.free_head /\ a.free_head = b.pool[n].next
          /\ a.pool = [b.pool EXCEPT ![n] = EmptyNode]
      BY <1>3, <2>1 DEF allocate_node, AllocatedNode
    <3>2. Len(F) >= 1 /\ n = F[1] /\ b.pool[F[1]].next = Node(F, 2)
      BY <1>1, <1>4, <2>1, <3>1 DEF FreeOK, Links, Node
    <3>3. n \in 1 .. N
      BY <1>4, <3>2
    <3>4. a.pool[n] = EmptyNode /\ \A x \in 1 .. N : x # n => a.pool[x] = b.pool[x]
      BY <1>3, <3>1, <3>3
    <3>5. M = N
      BY <1>3, <3>1, <3>3, EmptyNodeType, ExceptSeq, <1>2
    <3> DEFINE G == Tail(F)
    <3>6. /\ G \in Seq(1 .. N) /\ Len(G) = Len(F) - 1
          /\ \A i \in 1 .. Len(G) : G[i] = F[i + 1]
      BY <1>4, <3>2, HeadTailProperties
    <3> HIDE DEF G
    <3>7. NodeList(G, M)
      BY <1>4, <3>5, <3>6 DEF NodeList
    <3>8. Links(a.pool, a.free_head, G)
      <4>1. a.free_head = Node(G, 1)
        BY <1>4, <3>1, <3>2, <3>6 DEF Node
      <4>2. ASSUME NEW i \in 1 .. Len(G) PROVE a.pool[G[i]].next = Node(G, i + 1)
        <5>1. i + 1 \in 1 .. Len(F) /\ G[i] = F[i + 1] /\ F[i + 1] # n /\ F[i + 1] \in 1 .. N
          BY <1>4, <3>2, <3>6
        <5>2. a.pool[G[i]] = b.pool[F[i + 1]]
          BY <3>4, <5>1
        <5>3. b.pool[F[i + 1]].next = Node(F, (i + 1) + 1)
          BY <1>1, <5>1 DEF FreeOK, Links
        <5>4. Node(F, (i + 1) + 1) = Node(G, i + 1)
          BY <1>4, <3>6 DEF Node
        <5> QED
          BY <5>2, <5>3, <5>4
      <4> QED
        BY <4>1, <4>2 DEF Links
    <3>9. \A r \in Ref : b.index[r] # n
      BY <1>1, <1>4, <3>2 DEF FreeOK
    <3>10. \A j \in 1 .. Len(G) : G[j] # n /\ \A r \in Ref : b.index[r] # G[j]
      <4> SUFFICES ASSUME NEW j \in 1 .. Len(G)
                   PROVE  G[j] # n /\ \A r \in Ref : b.index[r] # G[j]
        OBVIOUS
      <4>1. j + 1 \in 1 .. Len(F) /\ 1 \in 1 .. Len(F) /\ G[j] = F[j + 1] /\ j + 1 # 1
        <5>1. Len(F) \in Nat /\ Len(F) >= 1 /\ Len(G) = Len(F) - 1 /\ G[j] = F[j + 1]
          BY <1>4, <3>2, <3>6
        <5> QED
          BY <5>1
      <4> QED
        BY <1>1, <1>4, <3>2, <4>1 DEF FreeOK
    <3>11. FreeOK(a, G)
      BY <1>2, <3>7, <3>8, <3>10 DEF FreeOK
    <3>12. ASSUME NEW x \in 1 .. M
           PROVE  x = n \/ (\E j \in 1 .. Len(G) : G[j] = x) \/ \E r \in Ref : a.index[r] = x
      <4>1. CASE \E r \in Ref : b.index[r] = x
        BY <1>2, <4>1
      <4>2. CASE \E j \in 1 .. Len(F) : F[j] = x
        <5>1. PICK j \in 1 .. Len(F) : F[j] = x
          BY <4>2
        <5>2. j # 1 => j - 1 \in 1 .. Len(G) /\ (j - 1) + 1 = j
          BY <1>4, <3>6
        <5> QED
          BY <3>2, <3>6, <5>1, <5>2
      <4> QED
        BY <1>1, <3>5, <4>1, <4>2 DEF CoverOK
    <3>13. CoverOK(a, G, {n})
      BY <1>2, <3>9, <3>10, <3>12 DEF CoverOK
    <3> QED
      BY <3>4, <3>9, <3>11, <3>13
  <2>2. CASE b.free_head = NIL
    <3>1. /\ n = N + 1 /\ a.free_head = NIL /\ a.pool = Append(b.pool, EmptyNode)
      BY <1>3, <2>2 DEF allocate_node, AllocatedNode
    <3>2. M = N + 1 /\ \A x \in 1 .. N : a.pool[x] = b.pool[x]
      BY <1>2, <1>3, <3>1, AppendProperties, EmptyNodeType
    <3>3. Len(F) = 0
      BY <1>1, <1>4, <2>2 DEF FreeOK, Links, Node, NIL
    <3>4. \A r \in Ref : b.index[r] # n
      BY <1>2, <1>3, <3>1
    <3>5. NodeList(F, M)
      BY <1>1, <1>2, ListGrowth DEF FreeOK
    <3>6. Links(a.pool, a.free_head, F)
      BY <3>1, <3>3 DEF Links, Node
    <3>7. FreeOK(a, F)
      BY <3>3, <3>5, <3>6 DEF FreeOK
    <3>8. \A x \in 1 .. M : x = n \/ \E r \in Ref : a.index[r] = x
      BY <1>1, <1>2, <3>1, <3>2, <3>3 DEF CoverOK
    <3>9. CoverOK(a, F, {n})
      BY <1>2, <3>3, <3>4, <3>8 DEF CoverOK
    <3> QED
      BY <3>2, <3>4, <3>7, <3>9
  <2> QED
    BY <2>1, <2>2
<1>6. PICK G : FreeOK(a, G) /\ CoverOK(a, G, {n})
  BY <1>5
<1> HIDE DEF a, n
<1>7. ASSUME NEW l \in Line
      PROVE  QueueOK(a, l, W[l]) /\ Shown(a.pool, W[l]) = Shown(b.pool, W[l])
  <2>1. QueueOK(b, l, W[l]) /\ NodeList(W[l], N)
    BY <1>1 DEF QueuesOK, QueueOK
  <2>2. \A i \in 1 .. Len(W[l]) : /\ a.pool[W[l][i]] = b.pool[W[l][i]]
                                  /\ a.index[b.pool[W[l][i]].reference_number] = W[l][i]
    <3> SUFFICES ASSUME NEW i \in 1 .. Len(W[l])
                 PROVE  /\ a.pool[W[l][i]] = b.pool[W[l][i]]
                        /\ a.index[b.pool[W[l][i]].reference_number] = W[l][i]
      OBVIOUS
    <3>1. W[l][i] \in 1 .. N
      BY <2>1, ListParts
    <3>2. W[l][i] # n
      BY <1>1, <1>5, NotQueued
    <3> QED
      BY <1>2, <1>5, <2>1, <3>1, <3>2 DEF QueueOK
  <2>3. Len(b.pool) \in Nat /\ Len(a.pool) \in Nat /\ Len(b.pool) <= Len(a.pool)
    BY <1>2
  <2>4. PICK w : w = W[l]
    OBVIOUS
  <2>5. QueueOK(b, l, w) /\ \A i \in 1 .. Len(w) :
          a.pool[w[i]] = b.pool[w[i]] /\ a.index[b.pool[w[i]].reference_number] = w[i]
    BY <2>1, <2>2, <2>4
  <2>6. QueueOK(a, l, w) /\ Shown(a.pool, w) = Shown(b.pool, w)
    BY <2>3, <2>5, QueueFrame
  <2> QED
    BY <2>4, <2>6
<1>8. QueuesOK(a, W)
  BY <1>7 DEF QueuesOK
<1>9. IndexOK(a, W)
  <2> SUFFICES ASSUME NEW r \in Ref, a.index[r] # NIL
               PROVE  /\ a.pool[a.index[r]].reference_number = r
                      /\ \E l \in Line : \E i \in 1 .. Len(W[l]) : W[l][i] = a.index[r]
    BY DEF IndexOK
  <2>1. b.index[r] \in 1 .. N /\ b.index[r] # n
    BY <1>2, <1>3, <1>5 DEF NIL
  <2> QED
    BY SMTT(60), <1>1, <1>2, <1>5, <2>1 DEF IndexOK
<1>10. LaddersOK(a, W)
  <2> SUFFICES ASSUME NEW s \in Side
               PROVE  IsLadder(b.levels[s], s, HeldBy(W, s), LevelsFor(a.pool, W, s))
    BY <1>2 DEF LaddersOK
  <2>1. IsLadder(b.levels[s], s, HeldBy(W, s), LevelsFor(b.pool, W, s))
    BY <1>1 DEF LaddersOK
  <2>2. \A p \in Price : LevelsFor(a.pool, W, s)[p] = LevelsFor(b.pool, W, s)[p]
    BY <1>7 DEF LevelsFor, LevelFor, Line
  <2>3. HeldBy(W, s) \subseteq Price
    BY DEF HeldBy
  <2> QED
    BY <2>1, <2>2, <2>3, LadderFrame
<1> QED
  BY <1>1, <1>2, <1>6, <1>7, <1>8, <1>9, <1>10 DEF Represents, a, n

\* A line without orders shows none.
LEMMA ShownNone == ASSUME NEW pool PROVE Shown(pool, << >>) = << >>
BY DEF Shown

\* The level of a line without orders is an empty one.
LEMMA LevelForNone ==
  ASSUME NEW pool, NEW price
  PROVE  LevelFor(pool, price, << >>) = EmptyLevel(price)
BY ShownNone, SharesOfNone DEF LevelFor, EmptyLevel, Node

\* What a queue shows can be counted.
LEMMA ShownCountable ==
  ASSUME NEW b, WellTyped(b), NEW l, NEW w, QueueOK(b, l, w)
  PROVE  /\ Countable(Shown(b.pool, w))
         /\ Len(Shown(b.pool, w)) = Len(w)
         /\ \A i \in 1 .. Len(w) :
              /\ Shown(b.pool, w)[i] = OrderView(b.pool[w[i]])
              /\ Shown(b.pool, w)[i].reference_number = b.pool[w[i]].reference_number
              /\ Shown(b.pool, w)[i].shares = b.pool[w[i]].shares
              /\ b.pool[w[i]].shares \in Nat
<1>1. /\ Len(w) \in Nat
      /\ \A i \in 1 .. Len(w) : w[i] \in 1 .. Len(b.pool)
  BY ListParts DEF QueueOK
<1>2. Len(Shown(b.pool, w)) = Len(w)
  BY <1>1 DEF Shown
<1>3. ASSUME NEW i \in 1 .. Len(w)
      PROVE  /\ Shown(b.pool, w)[i] = OrderView(b.pool[w[i]])
             /\ Shown(b.pool, w)[i].reference_number = b.pool[w[i]].reference_number
             /\ Shown(b.pool, w)[i].shares = b.pool[w[i]].shares
             /\ b.pool[w[i]].shares \in Nat
  <2>1. b.pool[w[i]] \in OrderNode(Len(b.pool))
    BY <1>1, Unpack, ElementOfSeq
  <2>2. b.pool[w[i]].shares \in Nat
    BY <2>1, SharesAssumption DEF OrderNode, Shares
  <2> QED
    BY <2>2 DEF Shown, OrderView
<1>4. Countable(Shown(b.pool, w))
  <2>1. ASSUME NEW k \in 1 .. Len(Shown(b.pool, w)) PROVE Shown(b.pool, w)[k].shares \in Int
    <3>1. k \in 1 .. Len(w)
      BY <1>2
    <3>2. Shown(b.pool, w)[k].shares = b.pool[w[k]].shares /\ b.pool[w[k]].shares \in Nat
      BY <1>3, <3>1
    <3> QED
      BY <3>2
  <2> QED
    BY <1>1, <1>2, <2>1 DEF Countable
<1> QED
  BY <1>2, <1>3, <1>4

\* Linking the free list does not touch leaves it a free list.
LEMMA FreeFrame ==
  ASSUME NEW b, NEW c, NEW F, FreeOK(b, F), Len(c.pool) = Len(b.pool),
         c.free_head = b.free_head,
         \A j \in 1 .. Len(F) : /\ c.pool[F[j]].next = b.pool[F[j]].next
                                /\ \A r \in Ref : c.index[r] # F[j]
  PROVE  FreeOK(c, F)
BY DEF FreeOK, Links

\* The book with node n linked and indexed, as add_order leaves it.
Linked(b, n, ref, side, shares, price) ==
  [AppendToLevel(b, n, ref, side, shares, price) EXCEPT
     !.index = [b.index EXCEPT ![ref] = n]]

\* The lists with n at the end of its line.
Joined(W, line, n) == [W EXCEPT ![line] = Append(@, n)]

\* A limbo node is linked in at the tail of its line, and indexed.
LEMMA LinkSound ==
  ASSUME NEW b, NEW W, NEW F, NEW n, Represents(b, W, F, {n}),
         NEW ref \in Ref, b.index[ref] = NIL,
         NEW side \in Side, NEW shares \in Shares, NEW price \in Price
  PROVE  LET line == <<side, price>>
             c    == Linked(b, n, ref, side, shares, price)
             V    == Joined(W, line, n)
         IN  /\ Represents(c, V, F, {})
             /\ \A l \in Line :
                  Shown(c.pool, V[l]) =
                    IF l = line THEN Append(Shown(b.pool, W[l]), Order(ref, shares))
                                ELSE Shown(b.pool, W[l])
<1> DEFINE N      == Len(b.pool)
           line   == <<side, price>>
           w      == W[line]
           v      == Append(w, n)
           V      == [W EXCEPT ![line] = Append(@, n)]
           t      == Node(w, Len(w))
           ladder == find_or_create_level(b.levels[side], side, price)
           at     == lower_bound(b.levels[side], side, price)
           before == ladder[at]
           node   == [reference_number |-> ref, shares |-> shares, price |-> price,
                      side |-> side, next |-> NIL, prev |-> t]
           filled == [b.pool EXCEPT ![n] = node]
           pool   == IF t # NIL THEN [filled EXCEPT ![t].next = n] ELSE filled
           level  == [before EXCEPT !.head = IF t # NIL THEN @ ELSE n,
                                    !.tail = n,
                                    !.total_shares = @ + shares,
                                    !.order_count = @ + 1]
           levels == [b.levels EXCEPT ![side] = [ladder EXCEPT ![at] = level]]
           a      == AppendToLevel(b, n, ref, side, shares, price)
           index  == [b.index EXCEPT ![ref] = n]
           c      == [a EXCEPT !.index = index]
<1>1. /\ WellTyped(b) /\ DOMAIN W = Line /\ QueuesOK(b, W) /\ IndexOK(b, W) /\ FreeOK(b, F)
      /\ CoverOK(b, F, {n}) /\ LaddersOK(b, W)
  BY DEF Represents
<1>2. /\ N \in Nat
      /\ b.pool \in Seq(OrderNode(N)) /\ DOMAIN b.pool = 1 .. N
      /\ b.levels \in [Side -> Seq(Level(N))] /\ b.index \in [Ref -> 0 .. N]
      /\ b = [pool |-> b.pool, free_head |-> b.free_head,
              levels |-> b.levels, index |-> b.index]
  BY <1>1, Unpack, LenProperties
<1>3. /\ n \in 1 .. N
      /\ \A j \in 1 .. Len(F) : F[j] # n
      /\ \A r \in Ref : b.index[r] # n
      /\ line \in Line
  BY <1>1 DEF CoverOK, Line
<1>4. /\ QueueOK(b, line, w) /\ w \in Seq(1 .. N) /\ Len(w) \in Nat
      /\ \A i \in 1 .. Len(w) : w[i] \in 1 .. N
      /\ \A i, j \in 1 .. Len(w) : w[i] = w[j] => i = j
  <2>1. QueueOK(b, line, w)
    BY <1>1, <1>3 DEF QueuesOK
  <2> QED
    BY <2>1, ListParts DEF QueueOK
<1>5. \A l \in Line : \A i \in 1 .. Len(W[l]) : W[l][i] # n
  BY <1>1, <1>3, NotQueued
<1>19. V[line] = v /\ \A l \in Line : l # line => V[l] = W[l]
  BY <1>1, <1>3 DEF v
<1>33. /\ DOMAIN V = Line /\ Len(b.pool) = N /\ line[1] = side /\ line[2] = price
       /\ \A i \in 1 .. Len(w) : w[i] # n
  BY <1>1, <1>3, <1>5
<1>34. /\ LevelsFor(b.pool, W, side)[price] = LevelFor(b.pool, price, w)
       /\ price \notin HeldBy(W, side) => w = << >>
  BY DEF LevelsFor, HeldBy
<1>35. \A s \in Side, p \in Price : /\ <<s, p>> \in Line
                                    /\ s # side \/ p # price => <<s, p>> # line
  BY DEF Line
<1>36. W[line] = w /\ line \in Line
  BY <1>3
<1>37. \A pl : LevelsFor(pl, V, side)[price] = LevelFor(pl, price, v)
  <2> HIDE DEF V, v
  <2> QED
    BY <1>19 DEF LevelsFor
<1> HIDE DEF V, v, w, line, N
<1>6. /\ Len(v) = Len(w) + 1 /\ v \in Seq(1 .. N) /\ v[Len(w) + 1] = n
      /\ \A i \in 1 .. Len(w) : v[i] = w[i]
  BY <1>3, <1>4, AppendProperties DEF v
<1>7. /\ t \in 0 .. N /\ t # n
      /\ t # NIL <=> Len(w) > 0
      /\ t # NIL => t = w[Len(w)] /\ t \in 1 .. N
      /\ \A i \in 1 .. Len(w) : w[i] = t => i = Len(w)
      /\ v[1] = IF t # NIL THEN w[1] ELSE n
  <2>1. CASE Len(w) = 0
    <3>1. t = NIL /\ v[1] = n
      BY <1>6, <2>1 DEF Node
    <3> HIDE DEF t
    <3> QED
      BY <1>2, <1>3, <1>4, <2>1, <3>1 DEF NIL
  <2>2. CASE Len(w) > 0
    <3>1. Len(w) \in 1 .. Len(w) /\ 1 \in 1 .. Len(w) /\ w[Len(w)] \in 1 .. N
      BY <1>4, <2>2
    <3> QED
      <4>1. t = w[Len(w)]
        BY <3>1 DEF Node
      <4>2. w[Len(w)] \in 1 .. N /\ w[Len(w)] # n /\ v[1] = w[1]
        BY <1>6, <1>33, <3>1
      <4>3. \A i \in 1 .. Len(w) : w[i] = w[Len(w)] => i = Len(w)
        BY <1>4, <3>1
      <4> HIDE DEF t
      <4> QED
        BY <1>2, <2>2, <4>1, <4>2, <4>3 DEF NIL
  <2> QED
    BY <1>4, <2>1, <2>2
<1>8. IsLadder(b.levels[side], side, HeldBy(W, side), LevelsFor(b.pool, W, side))
  BY <1>1 DEF LaddersOK
<1>9. before = LevelFor(b.pool, price, w)
  <2>1. before = IF price \in HeldBy(W, side) THEN LevelsFor(b.pool, W, side)[price]
                                              ELSE EmptyLevel(price)
    <3>1. b.levels[side] \in Seq(Level(N)) /\ N \in Nat
      BY <1>2
    <3>2. /\ ladder = find_or_create_level(b.levels[side], side, price)
          /\ at = lower_bound(b.levels[side], side, price)
      OBVIOUS
    <3> HIDE DEF ladder, at
    <3> QED
      BY <1>8, <3>1, <3>2, LadderAt
  <2>2. CASE price \in HeldBy(W, side)
    BY <1>34, <2>1, <2>2
  <2>3. CASE price \notin HeldBy(W, side)
    BY <1>34, <2>1, <2>3, LevelForNone
  <2> QED
    BY <2>2, <2>3
<1>10. /\ before.price = price /\ before.tail = t /\ before.head = Node(w, 1)
       /\ before.order_count = Len(w) /\ before.total_shares = SharesOf(Shown(b.pool, w))
  BY <1>9 DEF LevelFor
<1>11. a = [b EXCEPT !.pool = pool, !.levels = levels]
  BY <1>10 DEF AppendToLevel
<1> HIDE DEF before, ladder, at, a
<1>12. c = [pool |-> pool, free_head |-> b.free_head, levels |-> levels, index |-> index]
  <2>1. PICK lvls : lvls = levels
    OBVIOUS
  <2>2. PICK pl : pl = pool
    OBVIOUS
  <2>3. PICK ix : ix = index
    OBVIOUS
  <2>4. a = [b EXCEPT !.pool = pl, !.levels = lvls]
    BY <1>11, <2>1, <2>2
  <2>5. c = [a EXCEPT !.index = ix]
    BY <2>3
  <2> HIDE DEF pool, levels, index, c
  <2>6. c = [pool |-> pl, free_head |-> b.free_head, levels |-> lvls, index |-> ix]
    BY <1>2, <2>4, <2>5
  <2> QED
    BY <2>1, <2>2, <2>3, <2>6
<1>13. WellTyped(c)
  <2>1. WellTyped(a) /\ Len(a.pool) = N /\ a.index = b.index
    BY <1>1, <1>3, <1>33, AppendType DEF a
  <2>2. /\ a.pool \in Seq(OrderNode(N)) /\ a.free_head \in 0 .. N
        /\ a.levels \in [Side -> Seq(Level(N))]
        /\ a = [pool |-> a.pool, free_head |-> a.free_head,
                levels |-> a.levels, index |-> a.index]
    BY <2>1, Unpack
  <2>3. index \in [Ref -> 0 .. N]
    BY <1>2, <1>3
  <2> HIDE DEF index
  <2>4. c = [pool |-> a.pool, free_head |-> a.free_head, levels |-> a.levels, index |-> index]
    BY <2>2
  <2> QED
    BY <2>1, <2>2, <2>3, <2>4 DEF WellTyped, BookOf
<1>14. Len(pool) = N /\ DOMAIN pool = 1 .. N
  <2>1. c.pool \in Seq(OrderNode(Len(c.pool))) /\ Len(a.pool) = N
    BY <1>1, <1>3, <1>13, <1>33, Unpack, AppendType DEF a
  <2>2. c.pool = pool /\ a.pool = pool
    BY <1>2, <1>11, <1>12
  <2> QED
    BY <2>1, <2>2, LenProperties
<1>15. /\ pool[n] = node
       /\ t # NIL => pool[t] = [b.pool[t] EXCEPT !.next = n]
       /\ \A x \in 1 .. N : x # n /\ x # t => pool[x] = b.pool[x]
       /\ \A x \in 1 .. N : x # n => /\ pool[x].reference_number = b.pool[x].reference_number
                                     /\ OrderView(pool[x]) = OrderView(b.pool[x])
  <2>1. DOMAIN filled = 1 .. N /\ filled[n] = node /\ \A x \in 1 .. N : x # n => filled[x] = b.pool[x]
    BY <1>2, <1>3
  <2> HIDE DEF node, filled
  <2>2. /\ pool[n] = node
        /\ t # NIL => pool[t] = [b.pool[t] EXCEPT !.next = n]
        /\ \A x \in 1 .. N : x # n /\ x # t => pool[x] = b.pool[x]
    BY <1>3, <1>7, <2>1
  <2>3. ASSUME NEW x \in 1 .. N, x = t, x # n
        PROVE  /\ pool[x].reference_number = b.pool[x].reference_number
               /\ OrderView(pool[x]) = OrderView(b.pool[x])
    <3>1. b.pool[x] \in OrderNode(N)
      BY <1>2, ElementOfSeq
    <3>2. pool[x] = [b.pool[x] EXCEPT !.next = n]
      BY <2>2, <2>3 DEF NIL
    <3> HIDE DEF pool
    <3> QED
      BY <3>1, <3>2 DEF OrderNode, OrderView
  <2> HIDE DEF pool
  <2> QED
    BY <2>2, <2>3
<1> HIDE DEF pool
<1>16. /\ index[ref] = n /\ \A r \in Ref : r # ref => index[r] = b.index[r]
       /\ index \in [Ref -> 0 .. N]
  BY <1>2, <1>3
<1> HIDE DEF index, levels
<1>17. /\ c.pool = pool /\ c.free_head = b.free_head /\ c.levels = levels /\ c.index = index
  BY <1>12
<1> HIDE DEF c, v, t, node
<1>18. QueueOK(c, line, v)
  <2>1. NodeList(v, N)
    <3>1. ASSUME NEW i \in 1 .. Len(v), NEW j \in 1 .. Len(v), v[i] = v[j] PROVE i = j
      <4>1. i # Len(w) + 1 => i \in 1 .. Len(w) /\ v[i] = w[i]
        <5>1. Len(w) \in Nat /\ Len(v) = Len(w) + 1
          BY <1>4, <1>6
        <5>2. i # Len(w) + 1 => i \in 1 .. Len(w)
          BY <5>1
        <5>3. i \in 1 .. Len(w) => v[i] = w[i]
          BY <1>6
        <5> QED
          BY <5>2, <5>3
      <4>2. j # Len(w) + 1 => j \in 1 .. Len(w) /\ v[j] = w[j]
        <5>1. Len(w) \in Nat /\ Len(v) = Len(w) + 1
          BY <1>4, <1>6
        <5>2. j # Len(w) + 1 => j \in 1 .. Len(w)
          BY <5>1
        <5>3. j \in 1 .. Len(w) => v[j] = w[j]
          BY <1>6
        <5> QED
          BY <5>2, <5>3
      <4> QED
        BY <1>4, <1>6, <1>33, <3>1, <4>1, <4>2
    <3> QED
      BY <1>6, <3>1 DEF NodeList
  <2>2. ASSUME NEW i \in 1 .. Len(v)
        PROVE  /\ pool[v[i]].next = Node(v, i + 1)
               /\ pool[v[i]].prev = Node(v, i - 1)
               /\ pool[v[i]].side = side
               /\ pool[v[i]].price = price
               /\ pool[v[i]].reference_number \in Ref
               /\ index[pool[v[i]].reference_number] = v[i]
    <3>1. CASE i = Len(w) + 1
      <4>1. /\ v[i] = n /\ Node(v, i + 1) = NIL /\ i - 1 = Len(w)
            /\ Node(v, Len(w)) = Node(w, Len(w))
        BY <1>4, <1>6, <3>1 DEF Node
      <4>2. pool[v[i]] = node
        BY <1>15, <4>1
      <4>3. /\ node.next = NIL /\ node.prev = t /\ node.side = side /\ node.price = price
            /\ node.reference_number = ref
        BY DEF node
      <4>4. Node(v, i - 1) = t
        BY <4>1 DEF t
      <4> QED
        BY <1>16, <4>1, <4>2, <4>3, <4>4
    <3>2. CASE i # Len(w) + 1
      <4>1. i \in 1 .. Len(w) /\ v[i] = w[i] /\ w[i] \in 1 .. N /\ w[i] # n
        BY <1>4, <1>6, <1>33, <3>2
      <4>2. Node(v, i - 1) = Node(w, i - 1)
        BY <1>4, <1>6, <4>1 DEF Node
      <4>3. /\ b.pool[w[i]].next = Node(w, i + 1) /\ b.pool[w[i]].prev = Node(w, i - 1)
            /\ b.pool[w[i]].side = side /\ b.pool[w[i]].price = price
            /\ b.pool[w[i]].reference_number \in Ref
            /\ b.index[b.pool[w[i]].reference_number] = w[i]
        <5>1. QueueOK(b, line, w)
          BY <1>4
        <5> QED
          BY <1>33, <4>1, <5>1 DEF QueueOK
      <4>4. b.pool[w[i]].reference_number # ref
        BY <4>1, <4>3 DEF NIL
      <4>5. index[b.pool[w[i]].reference_number] = w[i]
        BY <1>16, <4>3, <4>4
      <4>6. CASE w[i] = t
        <5>1. i = Len(w) /\ t # NIL
          BY <1>7, <4>1, <4>6 DEF NIL
        <5>2. pool[w[i]] = [b.pool[w[i]] EXCEPT !.next = n]
          BY <1>15, <4>6, <5>1
        <5>3. Node(v, i + 1) = n
          BY <1>4, <1>6, <5>1 DEF Node
        <5>4. b.pool[w[i]] \in OrderNode(N)
          BY <1>2, <4>1, ElementOfSeq
        <5>5. /\ pool[w[i]].next = n /\ pool[w[i]].prev = b.pool[w[i]].prev
              /\ pool[w[i]].side = b.pool[w[i]].side /\ pool[w[i]].price = b.pool[w[i]].price
              /\ pool[w[i]].reference_number = b.pool[w[i]].reference_number
          BY <5>2, <5>4 DEF OrderNode
        <5> QED
          BY <4>1, <4>2, <4>3, <4>5, <5>3, <5>5
      <4>7. CASE w[i] # t
        <5>1. i # Len(w)
          BY <4>1, <4>7 DEF t, Node
        <5>2. Node(v, i + 1) = Node(w, i + 1)
          BY <1>4, <1>6, <4>1, <5>1 DEF Node
        <5>3. pool[w[i]] = b.pool[w[i]]
          BY <1>15, <4>1, <4>7
        <5> QED
          BY <4>1, <4>2, <4>3, <4>5, <5>2, <5>3
      <4> QED
        BY <4>6, <4>7
    <3> QED
      BY <3>1, <3>2
  <2> QED
    BY <1>14, <1>17, <1>33, <2>1, <2>2 DEF QueueOK
<1>20. ASSUME NEW l \in Line, l # line
       PROVE  QueueOK(c, l, W[l]) /\ Shown(pool, W[l]) = Shown(b.pool, W[l])
  <2>1. PICK u : u = W[l]
    OBVIOUS
  <2>2. QueueOK(b, l, u) /\ NodeList(u, N)
    BY <1>1, <1>33, <2>1 DEF QueuesOK, QueueOK
  <2>3. ASSUME NEW i \in 1 .. Len(u)
        PROVE  c.pool[u[i]] = b.pool[u[i]] /\ c.index[b.pool[u[i]].reference_number] = u[i]
    <3>1. u[i] \in 1 .. N /\ u[i] # n
      BY <1>5, <2>1, <2>2, ListParts
    <3>2. u[i] # t
      <4> SUFFICES ASSUME u[i] = t PROVE FALSE
        OBVIOUS
      <4>1. Len(w) \in 1 .. Len(w) /\ w[Len(w)] = u[i]
        BY <1>4, <1>7, <3>1 DEF NIL
      <4>2. l = line
        BY <1>1, <1>36, <2>1, <4>1, OnePlace
      <4> QED
        BY <1>20, <4>2
    <3>3. /\ b.pool[u[i]].reference_number \in Ref
          /\ b.index[b.pool[u[i]].reference_number] = u[i]
      BY <2>2 DEF QueueOK
    <3>4. b.pool[u[i]].reference_number # ref
      BY <3>1, <3>3 DEF NIL
    <3> QED
      BY <1>15, <1>16, <1>17, <3>1, <3>2, <3>3, <3>4
  <2>4. Len(b.pool) \in Nat /\ Len(c.pool) \in Nat /\ Len(b.pool) <= Len(c.pool)
    BY <1>2, <1>14, <1>17, <1>33
  <2>5. QueueOK(c, l, u) /\ Shown(c.pool, u) = Shown(b.pool, u)
    <3>1. \A i \in 1 .. Len(u) : /\ c.pool[u[i]] = b.pool[u[i]]
                                 /\ c.index[b.pool[u[i]].reference_number] = u[i]
      BY <2>3
    <3> QED
      BY SMTT(60), <2>2, <2>4, <3>1, QueueFrame
  <2> QED
    BY <1>17, <2>1, <2>5
<1>21. /\ Len(Shown(b.pool, w)) = Len(w) /\ Countable(Shown(b.pool, w))
       /\ \A i \in 1 .. Len(w) : Shown(b.pool, w)[i] = OrderView(b.pool[w[i]])
  BY <1>1, <1>4, ShownCountable
<1>22. /\ Countable(Shown(pool, v)) /\ Len(Shown(pool, v)) = Len(w) + 1
       /\ \A i \in 1 .. Len(w) : Shown(pool, v)[i] = Shown(b.pool, w)[i]
       /\ Shown(pool, v)[Len(w) + 1] = Order(ref, shares)
  <2>1. Countable(Shown(pool, v)) /\ Len(Shown(pool, v)) = Len(v)
    BY <1>13, <1>17, <1>18, ShownCountable
  <2>2. \A i \in 1 .. Len(w) : Shown(pool, v)[i] = OrderView(b.pool[w[i]])
    BY SMTT(60), <1>4, <1>6, <1>15, <1>33 DEF Shown
  <2>3. Shown(pool, v)[Len(w) + 1] = OrderView(node)
    BY <1>4, <1>6, <1>15 DEF Shown
  <2>4. OrderView(node) = Order(ref, shares)
    BY DEF node, OrderView, Order
  <2> QED
    BY <1>6, <1>21, <2>1, <2>2, <2>3, <2>4
<1>23. Shown(pool, v) = Append(Shown(b.pool, w), Order(ref, shares))
  <2> DEFINE T == [reference_number : Ref, shares : Nat]
             x == Shown(b.pool, w)
             e == Order(ref, shares)
  <2>1. x \in Seq(T)
    <3>1. ASSUME NEW i \in 1 .. Len(w) PROVE OrderView(b.pool[w[i]]) \in T
      <4>1. b.pool[w[i]].shares \in Nat
        BY <1>1, <1>4, ShownCountable
      <4>2. b.pool[w[i]].reference_number \in Ref
        BY <1>4 DEF QueueOK
      <4> QED
        BY <4>1, <4>2 DEF OrderView
    <3> QED
      BY <1>4, <3>1 DEF Shown
  <2>2. e \in T
    BY SharesAssumption DEF Order, Shares
  <2> HIDE DEF T, e
  <2>3. /\ Append(x, e) \in Seq(T) /\ Len(Append(x, e)) = Len(w) + 1
        /\ Append(x, e)[Len(w) + 1] = e
        /\ \A i \in 1 .. Len(w) : Append(x, e)[i] = x[i]
    BY <1>21, <2>1, <2>2, AppendProperties
  <2>4. Append(x, e) = [i \in 1 .. Len(w) + 1 |-> Append(x, e)[i]]
    BY <2>3, LenProperties
  <2>5. Shown(pool, v) = [i \in 1 .. Len(w) + 1 |-> Shown(pool, v)[i]]
    BY <1>6 DEF Shown
  <2>6. \A i \in 1 .. Len(w) + 1 : Shown(pool, v)[i] = Append(x, e)[i]
    BY <1>4, <1>22, <2>3 DEF e
  <2> QED
    BY <2>4, <2>5, <2>6 DEF e
<1>24. level = LevelFor(pool, price, v)
  <2>1. SharesOf(Shown(pool, v)) = SharesOf(Shown(b.pool, w)) + shares
    <3> DEFINE x == Shown(b.pool, w)  y == Shown(pool, v)
    <3>1. y[Len(y)].shares = shares /\ shares \in Int
      BY <1>22, SharesAssumption DEF Order, Shares
    <3>2. Countable(x) /\ Len(y) = Len(x) + 1 /\ \A k \in 1 .. Len(x) : y[k].shares = x[k].shares
      BY <1>21, <1>22
    <3> HIDE DEF x, y
    <3>3. SharesOf(y) = SharesOf(x) + y[Len(y)].shares
      BY <3>1, <3>2, SharesOfAppend
    <3> QED
      BY <3>1, <3>3 DEF x, y
  <2>2. Node(v, 1) = v[1] /\ Node(v, Len(v)) = n
    BY <1>4, <1>6 DEF Node
  <2>3. t # NIL => Node(w, 1) = w[1]
    BY <1>4, <1>7 DEF Node
  <2>4. before = [price |-> price, total_shares |-> SharesOf(Shown(b.pool, w)),
                  order_count |-> Len(w), head |-> Node(w, 1), tail |-> t]
    BY <1>9 DEF LevelFor, t
  <2>5. level = [price |-> price, total_shares |-> SharesOf(Shown(b.pool, w)) + shares,
                 order_count |-> Len(w) + 1, head |-> v[1], tail |-> n]
    <3>1. PICK old : old = before
      OBVIOUS
    <3>2. level = [price |-> old.price, total_shares |-> old.total_shares + shares,
                   order_count |-> old.order_count + 1,
                   head |-> IF t # NIL THEN old.head ELSE n, tail |-> n]
      <4>1. level = [old EXCEPT !.head = IF t # NIL THEN old.head ELSE n,
                                !.tail = n,
                                !.total_shares = old.total_shares + shares,
                                !.order_count = old.order_count + 1]
        BY <3>1
      <4>2. old = [price |-> old.price, total_shares |-> old.total_shares,
                   order_count |-> old.order_count, head |-> old.head, tail |-> old.tail]
        BY <2>4, <3>1
      <4> HIDE DEF level
      <4> QED
        BY <4>1, <4>2
    <3>3. /\ old.price = price /\ old.total_shares = SharesOf(Shown(b.pool, w))
          /\ old.order_count = Len(w) /\ old.head = Node(w, 1)
      BY <2>4, <3>1
    <3> HIDE DEF level
    <3> QED
      BY <1>7, <2>3, <3>2, <3>3
  <2> QED
    BY <1>6, <2>1, <2>2, <2>5 DEF LevelFor
<1>25. QueuesOK(c, V)
  BY <1>18, <1>19, <1>20 DEF QueuesOK
<1>26. IndexOK(c, V)
  <2> SUFFICES ASSUME NEW r \in Ref, index[r] # NIL
               PROVE  /\ pool[index[r]].reference_number = r
                      /\ \E l \in Line : \E i \in 1 .. Len(V[l]) : V[l][i] = index[r]
    BY <1>17 DEF IndexOK
  <2>1. CASE r = ref
    <3>1. Len(w) + 1 \in 1 .. Len(V[line]) /\ V[line][Len(w) + 1] = n
      BY <1>4, <1>6, <1>19
    <3>2. pool[n].reference_number = ref
      BY <1>15 DEF node
    <3> QED
      BY <1>3, <1>16, <2>1, <3>1, <3>2
  <2>2. CASE r # ref
    <3>1. index[r] = b.index[r] /\ b.index[r] \in 1 .. N /\ b.index[r] # n
      BY <1>2, <1>3, <1>16, <2>2 DEF NIL
    <3>2. /\ b.pool[b.index[r]].reference_number = r
          /\ \E l \in Line : \E i \in 1 .. Len(W[l]) : W[l][i] = b.index[r]
      BY <1>1, <3>1 DEF IndexOK, NIL
    <3>3. PICK l \in Line : \E i \in 1 .. Len(W[l]) : W[l][i] = b.index[r]
      BY <3>2
    <3>5. PICK i \in 1 .. Len(W[l]) : W[l][i] = b.index[r]
      BY <3>3
    <3>4. i \in 1 .. Len(V[l]) /\ V[l][i] = W[l][i]
      <4>1. CASE l = line
        BY <1>4, <1>6, <1>19, <1>36, <4>1
      <4>2. CASE l # line
        BY <1>19, <4>2
      <4> QED
        BY <4>1, <4>2
    <3> QED
      BY <1>15, <3>1, <3>2, <3>4, <3>5
  <2> QED
    BY <2>1, <2>2
<1>27. \A j \in 1 .. Len(F) : F[j] \in 1 .. N /\ F[j] # n /\ F[j] # t
  <2> SUFFICES ASSUME NEW j \in 1 .. Len(F) PROVE F[j] \in 1 .. N /\ F[j] # n /\ F[j] # t
    OBVIOUS
  <2>1. F[j] \in 1 .. N /\ F[j] # n
    BY <1>1, <1>3, <1>33, ListParts DEF FreeOK
  <2>2. \A i \in 1 .. Len(w) : w[i] # F[j]
    <3> SUFFICES ASSUME NEW i \in 1 .. Len(w) PROVE w[i] # F[j]
      OBVIOUS
    <3>1. \E r \in Ref : b.index[r] = w[i]
      BY <1>4 DEF QueueOK
    <3> QED
      BY <1>1, <3>1 DEF FreeOK
  <2> QED
    BY <1>4, <1>7, <2>1, <2>2 DEF NIL
<1>28. FreeOK(c, F)
  <2>1. \A j \in 1 .. Len(F) : /\ c.pool[F[j]].next = b.pool[F[j]].next
                               /\ \A r \in Ref : c.index[r] # F[j]
    BY <1>1, <1>15, <1>16, <1>17, <1>27 DEF FreeOK
  <2> QED
    BY <1>1, <1>14, <1>17, <1>33, <2>1, FreeFrame
<1>29. CoverOK(c, F, {})
  <2>1. ASSUME NEW x \in 1 .. N
        PROVE  (\E j \in 1 .. Len(F) : F[j] = x) \/ \E r \in Ref : index[r] = x
    <3>1. CASE \E r \in Ref : b.index[r] = x
      <4>1. PICK r \in Ref : b.index[r] = x
        BY <3>1
      <4>2. r # ref
        BY <4>1 DEF NIL
      <4> QED
        BY <1>16, <4>1, <4>2
    <3> QED
      BY <1>1, <1>16, <1>33, <3>1 DEF CoverOK
  <2> QED
    BY <1>14, <1>17, <2>1 DEF CoverOK
<1>30. LaddersOK(c, V)
  <2>1. /\ levels[side] = [ladder EXCEPT ![at] = level]
        /\ \A s \in Side : s # side => levels[s] = b.levels[s]
    BY <1>2 DEF levels
  <2>2. HeldBy(V, side) = HeldBy(W, side) \cup {price}
    <3>1. v # << >>
      BY <1>4, <1>6
    <3>2. \A p \in Price : p # price => V[<<side, p>>] = W[<<side, p>>]
      BY <1>19, <1>35
    <3>3. V[<<side, price>>] = v
      BY <1>19 DEF line
    <3> QED
      BY <3>1, <3>2, <3>3 DEF HeldBy
  <2>3. \A p \in Price : p # price =>
          LevelsFor(pool, V, side)[p] = LevelsFor(b.pool, W, side)[p]
    <3> SUFFICES ASSUME NEW p \in Price, p # price
                 PROVE  LevelsFor(pool, V, side)[p] = LevelsFor(b.pool, W, side)[p]
      OBVIOUS
    <3>1. <<side, p>> # line /\ <<side, p>> \in Line
      BY <1>35
    <3>2. V[<<side, p>>] = W[<<side, p>>] /\ Shown(pool, W[<<side, p>>]) = Shown(b.pool, W[<<side, p>>])
      BY <1>19, <1>20, <3>1
    <3> HIDE DEF V
    <3> QED
      BY <3>2 DEF LevelsFor, LevelFor
  <2>4. LevelsFor(pool, V, side)[price] = level
    BY <1>24, <1>37
  <2>5. IsLadder(levels[side], side, HeldBy(V, side), LevelsFor(pool, V, side))
    <3> DEFINE old == b.levels[side]  H == HeldBy(W, side)
               lv == LevelsFor(b.pool, W, side)  new == LevelsFor(pool, V, side)
    <3>1. old \in Seq(Level(N)) /\ IsLadder(old, side, H, lv) /\ level.price = price
      BY <1>2, <1>8, <1>24 DEF LevelFor
    <3>2. new[price] = level /\ \A p \in H \ {price} : new[p] = lv[p]
      BY <2>3, <2>4 DEF HeldBy
    <3>3. /\ ladder = find_or_create_level(old, side, price)
          /\ at = lower_bound(old, side, price) /\ N \in Nat
      BY <1>2 DEF ladder, at
    <3>4. PICK put : put = [ladder EXCEPT ![at] = level]
      OBVIOUS
    <3> HIDE DEF old, H, lv, new, level
    <3>5. IsLadder(put, side, H \cup {price}, new)
      BY <1>2, <3>1, <3>2, <3>3, <3>4, LadderPut
    <3> QED
      BY <2>1, <2>2, <3>4, <3>5 DEF H, new
  <2>6. ASSUME NEW s \in Side, s # side
        PROVE  IsLadder(levels[s], s, HeldBy(V, s), LevelsFor(pool, V, s))
    <3>1. \A p \in Price : <<s, p>> # line /\ <<s, p>> \in Line
      BY <1>35, <2>6
    <3>2. \A p \in Price : /\ V[<<s, p>>] = W[<<s, p>>]
                           /\ Shown(pool, W[<<s, p>>]) = Shown(b.pool, W[<<s, p>>])
      BY <1>19, <1>20, <3>1
    <3> HIDE DEF V
    <3>3. HeldBy(V, s) = HeldBy(W, s)
      BY <3>2 DEF HeldBy
    <3>4. \A p \in HeldBy(W, s) : LevelsFor(pool, V, s)[p] = LevelsFor(b.pool, W, s)[p]
      BY <3>2 DEF LevelsFor, LevelFor, HeldBy
    <3>5. IsLadder(b.levels[s], s, HeldBy(W, s), LevelsFor(b.pool, W, s))
      BY <1>1 DEF LaddersOK
    <3> QED
      BY <2>1, <2>6, <3>3, <3>4, <3>5, LadderFrame
  <2> QED
    BY <1>17, <2>5, <2>6 DEF LaddersOK
<1>31. Represents(c, V, F, {})
  BY <1>13, <1>25, <1>26, <1>28, <1>29, <1>30, <1>33 DEF Represents
<1>32. ASSUME NEW l \in Line
       PROVE  Shown(c.pool, V[l]) = IF l = line THEN Append(Shown(b.pool, W[l]), Order(ref, shares))
                                    ELSE Shown(b.pool, W[l])
  <2>1. CASE l = line
    BY <1>17, <1>19, <1>23, <1>36, <2>1
  <2>2. CASE l # line
    BY <1>17, <1>19, <1>20, <2>2
  <2> QED
    BY <2>1, <2>2
<1> QED
  BY <1>31, <1>32 DEF c, a, index, V, line, Linked, Joined

-----------------------------------------------------------------------------

\* Walking a line's level, or the free list, visits the nodes it represents.
LEMMA ChainsAreLists ==
  ASSUME NEW b, NEW W, NEW F, NEW X, Represents(b, W, F, X)
  PROVE  /\ \A s \in Side, p \in Price : LevelChain(b, s, p) = W[<<s, p>>]
         /\ Chain(b.pool, b.free_head) = F
<1>1. /\ WellTyped(b) /\ QueuesOK(b, W) /\ FreeOK(b, F) /\ LaddersOK(b, W)
      /\ Len(b.pool) \in Nat
  BY Unpack DEF Represents
<1>2. Chain(b.pool, b.free_head) = F
  BY <1>1, ChainIsList DEF FreeOK
<1>3. ASSUME NEW s \in Side, NEW p \in Price
      PROVE  LevelChain(b, s, p) = W[<<s, p>>]
  <2>1. PICK w : w = W[<<s, p>>]
    OBVIOUS
  <2>2. PICK ladder : ladder = b.levels[s]
    OBVIOUS
  <2>3. PICK lv : lv = LevelsFor(b.pool, W, s)
    OBVIOUS
  <2>4. PICK H : H = HeldBy(W, s)
    OBVIOUS
  <2>5. PICK at : at = find_level(ladder, s, p)
    OBVIOUS
  <2>6. ladder \in Seq(Level(Len(b.pool)))
    BY <1>1, <2>2, Unpack
  <2>7. IsLadder(ladder, s, H, lv)
    BY <1>1, <2>2, <2>3, <2>4 DEF LaddersOK
  <2>8. (at # NIL <=> p \in H) /\ (p \in H => ladder[at] = lv[p])
    BY <2>5, <2>6, <2>7, LadderFind
  <2>9. <<s, p>> \in Line
    BY DEF Line
  <2>10. QueueOK(b, <<s, p>>, w)
    BY <1>1, <2>1, <2>9 DEF QueuesOK
  <2>11. p \in H <=> w # << >>
    BY <2>1, <2>4 DEF HeldBy
  <2>12. LevelChain(b, s, p) = IF at = NIL THEN << >> ELSE Chain(b.pool, ladder[at].head)
    BY <2>2, <2>5 DEF LevelChain
  <2>13. CASE p \notin H
    BY <2>1, <2>8, <2>11, <2>12, <2>13
  <2>14. CASE p \in H
    <3>1. lv[p] = LevelFor(b.pool, p, w)
      BY <2>1, <2>3 DEF LevelsFor
    <3>2. ladder[at].head = Node(w, 1)
      BY <2>8, <2>14, <3>1 DEF LevelFor
    <3>3. NodeList(w, Len(b.pool)) /\ Links(b.pool, Node(w, 1), w)
      BY <2>10 DEF QueueOK, Links
    <3>4. Chain(b.pool, Node(w, 1)) = w
      BY <1>1, <3>3, ChainIsList
    <3> QED
      BY <2>1, <2>8, <2>12, <2>14, <3>2, <3>4
  <2> QED
    BY <2>13, <2>14
<1> QED
  BY <1>2, <1>3

\* What orders_at shows is what the book represents.
LEMMA QueuesShow ==
  ASSUME NEW b, NEW W, NEW F, NEW X, Represents(b, W, F, X)
  PROVE  queues(b) = [l \in Line |-> Shown(b.pool, W[l])]
<1> SUFFICES ASSUME NEW l \in Line
             PROVE  orders_at(b, l[1], l[2]) = Shown(b.pool, W[l])
  BY DEF queues, Line
<1>1. l[1] \in Side /\ l[2] \in Price /\ l = <<l[1], l[2]>>
  BY DEF Line
<1>2. LevelChain(b, l[1], l[2]) = W[<<l[1], l[2]>>]
  BY <1>1, ChainsAreLists
<1>3. LevelChain(b, l[1], l[2]) = W[l]
  BY <1>1, <1>2
<1>4. DOMAIN W[l] = 1 .. Len(W[l])
  BY ListParts DEF Represents, QueuesOK, QueueOK
<1> QED
  BY <1>3, <1>4 DEF orders_at, Shown

\* Where the index finds an order is where it rests.
LEMMA FindsResting ==
  ASSUME NEW b, NEW W, NEW F, NEW X, Represents(b, W, F, X), NEW ref \in Ref
  PROVE  /\ Rests(queues(b), ref) <=> b.index[ref] # NIL
         /\ \A l \in Line : \A i \in 1 .. Len(W[l]) : W[l][i] = b.index[ref] =>
              /\ LineOf(queues(b), ref) = l
              /\ PlaceOf(queues(b)[l], ref) = i
              /\ queues(b)[l][i] = OrderView(b.pool[b.index[ref]])
              /\ Len(queues(b)[l]) = Len(W[l])
              /\ l = <<b.pool[b.index[ref]].side, b.pool[b.index[ref]].price>>
<1>1. WellTyped(b) /\ QueuesOK(b, W) /\ IndexOK(b, W)
  BY DEF Represents
<1>2. PICK q : q = queues(b)
  OBVIOUS
<1>3. \A l \in Line : /\ QueueOK(b, l, W[l]) /\ q[l] = Shown(b.pool, W[l])
                      /\ Len(W[l]) \in Nat
  BY <1>1, <1>2, QueuesShow, ListParts DEF QueuesOK, QueueOK
<1>4. ASSUME NEW l \in Line
      PROVE  /\ DOMAIN q[l] = 1 .. Len(W[l]) /\ Len(q[l]) = Len(W[l])
             /\ \A i \in 1 .. Len(W[l]) :
                  /\ q[l][i] = OrderView(b.pool[W[l][i]])
                  /\ q[l][i].reference_number = b.pool[W[l][i]].reference_number
                  /\ q[l][i].reference_number = ref => b.index[ref] = W[l][i]
                  /\ b.index[ref] = W[l][i] => q[l][i].reference_number = ref
  <2>1. PICK w : w = W[l]
    OBVIOUS
  <2>2. QueueOK(b, l, w) /\ q[l] = Shown(b.pool, w) /\ Len(w) \in Nat
    BY <1>3, <2>1
  <2>3. DOMAIN q[l] = 1 .. Len(w) /\ Len(q[l]) = Len(w)
    BY <2>2 DEF Shown
  <2>4. ASSUME NEW i \in 1 .. Len(w)
        PROVE  /\ q[l][i] = OrderView(b.pool[w[i]])
               /\ q[l][i].reference_number = b.pool[w[i]].reference_number
               /\ q[l][i].reference_number = ref => b.index[ref] = w[i]
               /\ b.index[ref] = w[i] => q[l][i].reference_number = ref
    <3>1. q[l][i] = OrderView(b.pool[w[i]])
      BY <2>2 DEF Shown
    <3>2. q[l][i].reference_number = b.pool[w[i]].reference_number
      BY <3>1 DEF OrderView
    <3>3. b.index[b.pool[w[i]].reference_number] = w[i]
      BY <2>2 DEF QueueOK
    <3>4. w[i] # NIL
      BY <2>2, ListParts DEF QueueOK, NIL
    <3>5. b.index[ref] = w[i] => b.pool[w[i]].reference_number = ref
      BY <1>1, <3>4 DEF IndexOK
    <3> QED
      BY <3>1, <3>2, <3>3, <3>5
  <2> QED
    BY <2>1, <2>3, <2>4
<1>5. ASSUME NEW l \in Line, NEW i \in 1 .. Len(W[l]), W[l][i] = b.index[ref]
      PROVE  /\ LineOf(q, ref) = l /\ PlaceOf(q[l], ref) = i
             /\ Holds(q[l], ref)
             /\ q[l][i] = OrderView(b.pool[b.index[ref]])
             /\ l = <<b.pool[b.index[ref]].side, b.pool[b.index[ref]].price>>
  <2>1. i \in DOMAIN q[l] /\ q[l][i].reference_number = ref
    BY <1>4, <1>5
  <2>2. Holds(q[l], ref)
    BY <2>1 DEF Holds
  <2>3. ASSUME NEW m \in Line, NEW j \in DOMAIN q[m], q[m][j].reference_number = ref
        PROVE  m = l /\ j = i
    <3>1. j \in 1 .. Len(W[m]) /\ W[m][j] = b.index[ref]
      BY <1>4, <2>3
    <3> QED
      BY <1>1, <1>5, <3>1, OnePlace
  <2>4. \A m \in Line : Holds(q[m], ref) => m = l
    BY <2>3 DEF Holds
  <2>5. LineOf(q, ref) = l
    BY <2>2, <2>4 DEF LineOf
  <2>6. PlaceOf(q[l], ref) = i
    BY <2>1, <2>3 DEF PlaceOf
  <2>7. b.pool[W[l][i]].side = l[1] /\ b.pool[W[l][i]].price = l[2]
    BY <1>3 DEF QueueOK
  <2>8. l = <<l[1], l[2]>>
    BY DEF Line
  <2> QED
    BY <1>4, <1>5, <2>2, <2>5, <2>6, <2>7, <2>8
<1>6. ASSUME b.index[ref] # NIL PROVE Rests(q, ref)
  <2>1. PICK l \in Line : \E i \in 1 .. Len(W[l]) : W[l][i] = b.index[ref]
    BY <1>1, <1>6 DEF IndexOK
  <2>2. PICK i \in 1 .. Len(W[l]) : W[l][i] = b.index[ref]
    BY <2>1
  <2> QED
    BY <1>5, <2>2 DEF Rests
<1>7. ASSUME Rests(q, ref) PROVE b.index[ref] # NIL
  <2>1. PICK l \in Line : Holds(q[l], ref)
    BY <1>7 DEF Rests
  <2>2. PICK i \in DOMAIN q[l] : q[l][i].reference_number = ref
    BY <2>1 DEF Holds
  <2>3. i \in 1 .. Len(W[l]) /\ b.index[ref] = W[l][i]
    BY <1>4, <2>2
  <2>4. W[l][i] # NIL
    BY <1>3, <2>3, ListParts DEF QueueOK, NIL
  <2> QED
    BY <2>3, <2>4
<1> QED
  BY <1>2, <1>4, <1>5, <1>6, <1>7

\* add_order queues the order last on its line, unless its number rests already.
LEMMA AddSound ==
  ASSUME NEW b, Sound(b),
         NEW ref \in Ref, NEW side \in Side, NEW shares \in Shares, NEW price \in Price
  PROVE  /\ Sound(add_order(b, ref, side, shares, price))
         /\ queues(add_order(b, ref, side, shares, price)) =
              Added(queues(b), ref, side, shares, price)
<1>1. PICK W, F : Represents(b, W, F, {})
  BY DEF Sound
<1>2. PICK q : q = queues(b)
  OBVIOUS
<1>3. Rests(q, ref) <=> b.index[ref] # NIL
  BY <1>1, <1>2, FindsResting
<1>4. CASE b.index[ref] # NIL
  BY <1>2, <1>3, <1>4 DEF add_order, Added
<1>5. CASE b.index[ref] = NIL
  <2>1. PICK a : a = allocate_node(b)
    OBVIOUS
  <2>2. PICK n : n = AllocatedNode(b)
    OBVIOUS
  <2>3. PICK G : Represents(a, W, G, {n})
    BY <1>1, <2>1, <2>2, AllocateSound
  <2>4. \A l \in Line : Shown(a.pool, W[l]) = Shown(b.pool, W[l])
    BY <1>1, <2>1, AllocateSound
  <2>5. a.index = b.index
    BY <1>1, <2>1, AllocateType DEF Represents
  <2> DEFINE line == <<side, price>>
             c    == Linked(a, n, ref, side, shares, price)
             V    == Joined(W, line, n)
  <2>9. a.index[ref] = NIL
    BY <1>5, <2>5
  <2>10. /\ Represents(c, V, G, {})
         /\ \A l \in Line : Shown(c.pool, V[l]) =
              IF l = line THEN Append(Shown(a.pool, W[l]), Order(ref, shares))
                          ELSE Shown(a.pool, W[l])
    BY <2>3, <2>9, LinkSound
  <2>11. add_order(b, ref, side, shares, price) = c
    BY <1>5, <2>1, <2>2, <2>5 DEF add_order, Linked
  <2> HIDE DEF c, V
  <2>12. q = [l \in Line |-> Shown(b.pool, W[l])]
    BY <1>1, <1>2, QueuesShow
  <2>13. queues(c) = [l \in Line |-> Shown(c.pool, V[l])]
    BY <2>10, QueuesShow
  <2>14. \A l \in Line : queues(c)[l] = IF l = line THEN Append(q[l], Order(ref, shares)) ELSE q[l]
    BY <2>4, <2>10, <2>12, <2>13
  <2>15. Added(q, ref, side, shares, price) = [q EXCEPT ![line] = Append(@, Order(ref, shares))]
    BY <1>3, <1>5 DEF Added
  <2>16. queues(c) = Added(q, ref, side, shares, price)
    BY <2>12, <2>13, <2>14, <2>15
  <2> QED
    BY <1>2, <2>10, <2>11, <2>16 DEF Sound
<1> QED
  BY <1>4, <1>5

-----------------------------------------------------------------------------

\* A node's fields, by name.
LEMMA NodeFields ==
  ASSUME NEW n, NEW node \in OrderNode(n)
  PROVE  /\ node = [reference_number |-> node.reference_number, shares |-> node.shares,
                    price |-> node.price, side |-> node.side,
                    next |-> node.next, prev |-> node.prev]
         /\ \A x : [node EXCEPT !.next = x] =
              [reference_number |-> node.reference_number, shares |-> node.shares,
               price |-> node.price, side |-> node.side, next |-> x, prev |-> node.prev]
         /\ \A x : [node EXCEPT !.prev = x] =
              [reference_number |-> node.reference_number, shares |-> node.shares,
               price |-> node.price, side |-> node.side, next |-> node.next, prev |-> x]
BY DEF OrderNode

\* unlink_node links a node's neighbours to each other and changes nothing else.
LEMMA UnlinkedPoolIs ==
  ASSUME NEW N \in Nat, NEW pool \in Seq(OrderNode(N)), Len(pool) = N, NEW n \in 1 .. N,
         NEW prev, prev = pool[n].prev, NEW next, next = pool[n].next,
         NEW u, u = UnlinkedPool(pool, n)
  PROVE  /\ u \in Seq(OrderNode(N)) /\ Len(u) = N
         /\ \A y \in 1 .. N :
              /\ u[y].next = IF y = prev THEN next ELSE pool[y].next
              /\ u[y].prev = IF y = next THEN prev ELSE pool[y].prev
              /\ u[y].side = pool[y].side /\ u[y].price = pool[y].price
              /\ u[y].reference_number = pool[y].reference_number
              /\ u[y].shares = pool[y].shares
              /\ y # prev /\ y # next => u[y] = pool[y]
<1>4. u \in Seq(OrderNode(N)) /\ Len(u) = N
  BY UnlinkedPoolType
<1>5. PICK joined : joined = IF prev # NIL THEN [pool EXCEPT ![prev].next = next] ELSE pool
  OBVIOUS
<1>6. u = IF next # NIL THEN [joined EXCEPT ![next].prev = prev] ELSE joined
  BY <1>5 DEF UnlinkedPool
<1>7. DOMAIN pool = 1 .. N /\ \A y \in 1 .. N : pool[y] \in OrderNode(N)
  BY LenProperties, ElementOfSeq
<1>8. prev \in 0 .. N /\ next \in 0 .. N
  BY <1>7 DEF OrderNode
<1>9. /\ DOMAIN joined = 1 .. N
      /\ \A y \in 1 .. N : joined[y] = IF y = prev THEN [pool[y] EXCEPT !.next = next] ELSE pool[y]
  BY <1>5, <1>7, <1>8 DEF NIL
<1>10. \A y \in 1 .. N : u[y] = IF y = next THEN [joined[y] EXCEPT !.prev = prev] ELSE joined[y]
  BY <1>6, <1>8, <1>9 DEF NIL
<1>11. ASSUME NEW y \in 1 .. N
       PROVE  /\ u[y].next = IF y = prev THEN next ELSE pool[y].next
              /\ u[y].prev = IF y = next THEN prev ELSE pool[y].prev
              /\ u[y].side = pool[y].side /\ u[y].price = pool[y].price
              /\ u[y].reference_number = pool[y].reference_number
              /\ u[y].shares = pool[y].shares
              /\ y # prev /\ y # next => u[y] = pool[y]
  <2>1. PICK old : old = pool[y]
    OBVIOUS
  <2>2. PICK mid : mid = joined[y]
    OBVIOUS
  <2>3. old \in OrderNode(N)
    BY <1>7, <2>1
  <2>4. mid = IF y = prev THEN [old EXCEPT !.next = next] ELSE old
    BY <1>9, <2>1, <2>2
  <2>5. mid \in OrderNode(N)
    BY <1>8, <2>3, <2>4 DEF OrderNode
  <2>6. /\ mid.next = IF y = prev THEN next ELSE old.next
        /\ mid.prev = old.prev /\ mid.side = old.side /\ mid.price = old.price
        /\ mid.reference_number = old.reference_number /\ mid.shares = old.shares
        /\ y # prev => mid = old
    BY <2>3, <2>4 DEF OrderNode
  <2>7. u[y] = IF y = next THEN [mid EXCEPT !.prev = prev] ELSE mid
    BY <1>10, <2>2
  <2>8. PICK new : new = u[y]
    OBVIOUS
  <2>9. /\ new.prev = IF y = next THEN prev ELSE mid.prev
        /\ new.next = mid.next /\ new.side = mid.side /\ new.price = mid.price
        /\ new.reference_number = mid.reference_number /\ new.shares = mid.shares
        /\ y # next => new = mid
    BY <2>5, <2>7, <2>8 DEF OrderNode
  <2> QED
    BY <2>1, <2>6, <2>8, <2>9
<1> QED
  BY <1>4, <1>11

\* The lists with the k-th node of a line gone.
Parted(W, line, k) == [W EXCEPT ![line] = RemoveAt(@, k)]

\* v is the list w of nodes of a pool of n without its k-th node.
Without(w, n, k, v) ==
  /\ n \in Nat /\ NodeList(w, n) /\ k \in 1 .. Len(w)
  /\ v = RemoveAt(w, k)

\* A list without its k-th node.
LEMMA ListRemove ==
  ASSUME NEW n, NEW w, NEW k, NEW v, Without(w, n, k, v)
  PROVE  /\ NodeList(v, n) /\ Len(v) = Len(w) - 1 /\ Len(v) \in Nat
         /\ \A i \in 1 .. Len(v) : v[i] = IF i < k THEN w[i] ELSE w[i + 1]
         /\ \A i \in 1 .. Len(v) : v[i] # w[k]
         /\ \A i \in 1 .. Len(w) : i # k => \E j \in 1 .. Len(v) : v[j] = w[i]
         /\ \A i \in Int : Node(v, i) = IF i < k THEN Node(w, i) ELSE Node(w, i + 1)
<1> n \in Nat /\ NodeList(w, n) /\ k \in 1 .. Len(w) /\ v = RemoveAt(w, k)
  BY DEF Without
<1>1. /\ Len(w) \in Nat /\ w \in Seq(1 .. n)
      /\ \A i, j \in 1 .. Len(w) : w[i] = w[j] => i = j
  BY ListParts
<1>3. /\ v \in Seq(1 .. n) /\ Len(v) = Len(w) - 1
      /\ \A j \in 1 .. Len(w) - 1 : v[j] = IF j < k THEN w[j] ELSE w[j + 1]
  BY <1>1, RemoveType
<1>4. ASSUME NEW i \in 1 .. Len(v)
      PROVE  i + 1 \in 1 .. Len(w) /\ i \in 1 .. Len(w) /\ v[i] # w[k]
  <2>1. i + 1 \in 1 .. Len(w) /\ i \in 1 .. Len(w)
    BY <1>1, <1>3
  <2>2. i < k => i # k
    BY <2>1
  <2>3. ~ (i < k) => i + 1 # k
    BY <2>1
  <2>4. v[i] = IF i < k THEN w[i] ELSE w[i + 1]
    BY <1>3
  <2> QED
    BY <1>1, <2>1, <2>2, <2>3, <2>4
<1>5. ASSUME NEW i \in 1 .. Len(v), NEW j \in 1 .. Len(v), v[i] = v[j] PROVE i = j
  <2>1. /\ v[i] = IF i < k THEN w[i] ELSE w[i + 1]
        /\ v[j] = IF j < k THEN w[j] ELSE w[j + 1]
    BY <1>3
  <2>2. (IF i < k THEN i ELSE i + 1) = IF j < k THEN j ELSE j + 1
    BY <1>1, <1>4, <1>5, <2>1
  <2> QED
    BY <2>2
<1>6. ASSUME NEW i \in 1 .. Len(w), i # k PROVE \E j \in 1 .. Len(v) : v[j] = w[i]
  <2>1. CASE i < k
    <3>1. i \in 1 .. Len(v)
      BY <1>1, <1>3, <2>1
    <3>2. v[i] = w[i]
      BY <1>3, <2>1, <3>1
    <3> QED
      BY <3>1, <3>2
  <2>2. CASE i > k
    <3>1. i - 1 \in 1 .. Len(v) /\ ~ (i - 1 < k) /\ (i - 1) + 1 = i
      BY <1>1, <1>3, <2>2
    <3>2. v[i - 1] = w[i]
      BY <1>3, <3>1
    <3> QED
      BY <3>1, <3>2
  <2> QED
    BY <1>6, <2>1, <2>2
<1>7. ASSUME NEW i \in Int
      PROVE  Node(v, i) = IF i < k THEN Node(w, i) ELSE Node(w, i + 1)
  <2>1. CASE i \in 1 .. Len(v)
    <3>1. v[i] = IF i < k THEN w[i] ELSE w[i + 1]
      BY <1>3, <2>1
    <3>2. i \in 1 .. Len(w) /\ i + 1 \in 1 .. Len(w)
      BY <1>4, <2>1
    <3> QED
      BY <2>1, <3>1, <3>2 DEF Node
  <2>2. CASE i \notin 1 .. Len(v)
    <3>1. Node(v, i) = NIL
      BY <2>2 DEF Node
    <3>2. i < k => i \notin 1 .. Len(w)
      BY <1>1, <1>3, <2>2
    <3>3. ~ (i < k) => i + 1 \notin 1 .. Len(w)
      BY <1>1, <1>3, <2>2
    <3> QED
      BY <3>1, <3>2, <3>3 DEF Node
  <2> QED
    BY <2>1, <2>2
<1>8. NodeList(v, n)
  <2>1. \A i, j \in 1 .. Len(v) : v[i] = v[j] => i = j
    BY <1>5
  <2> QED
    BY <1>3, <2>1 DEF NodeList
<1>9. /\ Len(v) = Len(w) - 1 /\ Len(v) \in Nat
      /\ \A i \in 1 .. Len(v) : v[i] = IF i < k THEN w[i] ELSE w[i + 1]
  BY <1>1, <1>3
<1>10. \A i \in 1 .. Len(v) : v[i] # w[k]
  BY <1>4
<1>11. \A i \in 1 .. Len(w) : i # k => \E j \in 1 .. Len(v) : v[j] = w[i]
  BY <1>6
<1>12. \A i \in Int : Node(v, i) = IF i < k THEN Node(w, i) ELSE Node(w, i + 1)
  BY <1>7
<1> QED
  BY <1>8, <1>9, <1>10, <1>11, <1>12

\* The same for the nodes at each place of the two lists, Node being NIL out of them.
LEMMA ListRemoveNodes ==
  ASSUME NEW n, NEW w, NEW k, NEW v, Without(w, n, k, v)
  PROVE  \A i \in Int : Node(v, i) = IF i < k THEN Node(w, i) ELSE Node(w, i + 1)
BY ListRemove

\* A queued node's level is on its ladder, with what its line's list makes of it.
LEMMA FindsLevel ==
  ASSUME NEW b, NEW W, NEW F, NEW X, Represents(b, W, F, X),
         NEW side \in Side, NEW price \in Price, W[<<side, price>>] # << >>
  PROVE  LET at == find_level(b.levels[side], side, price)
         IN  /\ at # NIL /\ at \in 1 .. Len(b.levels[side])
             /\ b.levels[side][at] = LevelFor(b.pool, price, W[<<side, price>>])
             /\ b.levels[side][at].price = price
<1>1. PICK ladder : ladder = b.levels[side]
  OBVIOUS
<1>2. PICK H : H = HeldBy(W, side)
  OBVIOUS
<1>3. PICK lv : lv = LevelsFor(b.pool, W, side)
  OBVIOUS
<1>4. PICK n : n = Len(b.pool)
  OBVIOUS
<1>5. ladder \in Seq(Level(n))
  BY <1>1, <1>4, Unpack DEF Represents
<1>6. IsLadder(ladder, side, H, lv)
  BY <1>1, <1>2, <1>3 DEF Represents, LaddersOK
<1>7. price \in H
  BY <1>2 DEF HeldBy
<1>8. PICK at : at = find_level(ladder, side, price)
  OBVIOUS
<1>9. /\ at # NIL /\ at \in 1 .. Len(ladder) /\ ladder[at] = lv[price]
      /\ ladder[at].price = price
  BY <1>5, <1>6, <1>7, <1>8, LadderFind
<1>10. lv[price] = LevelFor(b.pool, price, W[<<side, price>>])
  BY <1>3 DEF LevelsFor
<1> QED
  BY <1>1, <1>8, <1>9, <1>10

\* The level of a list that loses a node.
LEMMA UnlinkedLevelIs ==
  ASSUME NEW b, WellTyped(b), NEW l, NEW w, QueueOK(b, l, w), NEW k \in 1 .. Len(w),
         NEW price, NEW pool, NEW v, v = RemoveAt(w, k),
         \A i \in 1 .. Len(w) : i # k => OrderView(pool[w[i]]) = OrderView(b.pool[w[i]])
  PROVE  /\ UnlinkedLevel(LevelFor(b.pool, price, w), b.pool[w[k]]) = LevelFor(pool, price, v)
         /\ Shown(pool, v) = RemoveAt(Shown(b.pool, w), k)
<1>2. NodeList(w, Len(b.pool)) /\ Len(w) \in Nat /\ Len(b.pool) \in Nat
  BY ListParts, Unpack DEF QueueOK
<1>3. /\ Len(v) = Len(w) - 1 /\ Len(v) \in Nat
      /\ \A i \in 1 .. Len(v) : v[i] = IF i < k THEN w[i] ELSE w[i + 1]
      /\ \A i \in Int : Node(v, i) = IF i < k THEN Node(w, i) ELSE Node(w, i + 1)
  <2>1. PICK n : n = Len(b.pool)
    OBVIOUS
  <2>2. n \in Nat /\ NodeList(w, n)
    BY <1>2, <2>1
  <2>6. w \in Seq(1 .. n)
    BY <2>2 DEF NodeList
  <2>7. /\ Len(v) = Len(w) - 1
        /\ \A j \in 1 .. Len(w) - 1 : v[j] = IF j < k THEN w[j] ELSE w[j + 1]
    BY <2>6, RemoveType
  <2>3. Len(v) \in Nat
    BY <1>2, <2>7
  <2>5. \A i \in 1 .. Len(v) : v[i] = IF i < k THEN w[i] ELSE w[i + 1]
    BY <2>7
  <2>4. \A i \in Int : Node(v, i) = IF i < k THEN Node(w, i) ELSE Node(w, i + 1)
    <3>1. Without(w, n, k, v)
      BY <2>2 DEF Without
    <3> QED
      BY SMTT(60), <3>1, ListRemoveNodes
  <2> QED
    BY <2>3, <2>4, <2>5, <2>7
<1>4. PICK x : x = Shown(b.pool, w)
  OBVIOUS
<1>5. PICK y : y = Shown(pool, v)
  OBVIOUS
<1>6. /\ Countable(x) /\ Len(x) = Len(w)
      /\ \A i \in 1 .. Len(w) : /\ x[i] = OrderView(b.pool[w[i]])
                                /\ x[i].shares = b.pool[w[i]].shares
                                /\ x[i].shares \in Nat
  BY <1>4, ShownCountable
<1>7. Len(y) = Len(v) /\ DOMAIN y = 1 .. Len(v)
      /\ \A i \in 1 .. Len(v) : y[i] = OrderView(pool[v[i]])
  BY <1>3, <1>5 DEF Shown
<1>8. ASSUME NEW i \in 1 .. Len(v)
      PROVE  /\ i \in 1 .. Len(w) /\ i + 1 \in 1 .. Len(w)
             /\ y[i] = IF i < k THEN x[i] ELSE x[i + 1]
  <2>1. i \in 1 .. Len(w) /\ i + 1 \in 1 .. Len(w)
    BY <1>2, <1>3
  <2>2. CASE i < k
    <3>1. v[i] = w[i] /\ i # k
      BY <1>3, <2>1, <2>2
    <3> QED
      BY <1>6, <1>7, <2>1, <2>2, <3>1
  <2>3. CASE ~ (i < k)
    <3>1. v[i] = w[i + 1] /\ i + 1 # k
      BY <1>3, <2>1, <2>3
    <3> QED
      BY <1>6, <1>7, <2>1, <2>3, <3>1
  <2> QED
    BY <2>1, <2>2, <2>3
<1>9. y = RemoveAt(x, k)
  <2> DEFINE T == [reference_number : {b.pool[w[i]].reference_number : i \in 1 .. Len(w)}, shares : Nat]
  <2>1. x \in Seq(T)
    <3>1. \A i \in 1 .. Len(w) : OrderView(b.pool[w[i]]) \in T
      BY <1>6 DEF OrderView
    <3> HIDE DEF T
    <3> QED
      BY <1>2, <1>4, <3>1 DEF Shown
  <2> HIDE DEF T
  <2>2. PICK z : z = RemoveAt(x, k)
    OBVIOUS
  <2>3. /\ z \in Seq(T) /\ Len(z) = Len(x) - 1
        /\ \A j \in 1 .. Len(x) - 1 : z[j] = IF j < k THEN x[j] ELSE x[j + 1]
    BY <1>6, <2>1, <2>2, RemoveType, ZenonT(60)
  <2>4. DOMAIN z = 1 .. Len(v)
    BY <1>3, <1>6, <2>3, LenProperties
  <2>5. \A j \in 1 .. Len(v) : z[j] = y[j]
    BY <1>3, <1>6, <1>8, <2>3
  <2>6. z = [j \in 1 .. Len(v) |-> z[j]]
    BY <2>3, <2>4, LenProperties
  <2>7. y = [j \in 1 .. Len(v) |-> y[j]]
    BY <1>5 DEF Shown
  <2> QED
    BY <2>2, <2>5, <2>6, <2>7
<1>10. SharesOf(y) = SharesOf(x) - b.pool[w[k]].shares
  <2>1. Countable(y)
    <3>1. Len(y) \in Nat
      BY <1>3, <1>7
    <3>2. ASSUME NEW j \in 1 .. Len(y) PROVE y[j].shares \in Int
      <4>1. j \in 1 .. Len(v)
        BY <1>7, <3>2
      <4>2. j \in 1 .. Len(w) /\ j + 1 \in 1 .. Len(w) /\ (y[j] = x[j] \/ y[j] = x[j + 1])
        BY <1>8, <4>1
      <4> QED
        BY <1>6, <4>2
    <3> QED
      BY <3>1, <3>2 DEF Countable
  <2>2. \A j \in 1 .. Len(y) : y[j].shares = IF j < k THEN x[j].shares ELSE x[j + 1].shares
    BY <1>7, <1>8
  <2>3. Len(x) = Len(y) + 1 /\ k \in 1 .. Len(x)
    BY <1>2, <1>3, <1>6, <1>7
  <2>4. SharesOf(y) = SharesOf(x) - x[k].shares
    BY <1>6, <2>1, <2>2, <2>3, SharesOfRemove
  <2> QED
    BY <1>6, <2>4
<1>11. PICK node : node = b.pool[w[k]]
  OBVIOUS
<1>12. node.next = Node(w, k + 1) /\ node.prev = Node(w, k - 1)
  BY <1>11 DEF QueueOK
<1>13. (IF node.prev # NIL THEN Node(w, 1) ELSE node.next) = Node(v, 1)
  <2>1. Node(v, 1) = IF 1 < k THEN Node(w, 1) ELSE Node(w, 1 + 1)
    BY <1>3
  <2>2. node.prev # NIL <=> 1 < k
    <3>1. \A i \in 1 .. Len(w) : w[i] # NIL
      BY <1>2, ListParts DEF NIL
    <3> QED
      BY <1>2, <1>12, <3>1 DEF Node
  <2>3. ~ (1 < k) => k + 1 = 1 + 1
    OBVIOUS
  <2> QED
    BY <1>12, <2>1, <2>2, <2>3
<1>14. (IF node.next # NIL THEN Node(w, Len(w)) ELSE node.prev) = Node(v, Len(v))
  <2>1. node.next # NIL <=> k < Len(w)
    <3>1. \A i \in 1 .. Len(w) : w[i] # NIL
      BY <1>2, ListParts DEF NIL
    <3> QED
      BY <1>2, <1>12, <3>1 DEF Node
  <2>2. CASE k < Len(w)
    <3>1. ~ (Len(v) < k) /\ Len(v) + 1 = Len(w) /\ Len(v) \in Int
      BY <1>2, <1>3, <2>2
    <3>2. Node(v, Len(v)) = Node(w, Len(v) + 1)
      BY <1>3, <3>1
    <3> QED
      BY <2>1, <2>2, <3>1, <3>2
  <2>3. CASE ~ (k < Len(w))
    <3>1. Len(v) < k /\ Len(v) = k - 1 /\ Len(v) \in Int
      BY <1>2, <1>3, <2>3
    <3>2. Node(v, Len(v)) = Node(w, Len(v))
      BY <1>3, <3>1
    <3> QED
      BY <1>12, <2>1, <2>3, <3>1, <3>2
  <2> QED
    BY <2>2, <2>3
<1>15. UnlinkedLevel(LevelFor(b.pool, price, w), node) =
         [price |-> price, total_shares |-> SharesOf(x) - node.shares,
          order_count |-> Len(w) - 1,
          head |-> IF node.prev # NIL THEN Node(w, 1) ELSE node.next,
          tail |-> IF node.next # NIL THEN Node(w, Len(w)) ELSE node.prev]
  <2>1. PICK old : old = LevelFor(b.pool, price, w)
    OBVIOUS
  <2>2. old = [price |-> price, total_shares |-> SharesOf(x), order_count |-> Len(w),
               head |-> Node(w, 1), tail |-> Node(w, Len(w))]
    BY <1>4, <2>1 DEF LevelFor
  <2>3. UnlinkedLevel(old, node) =
          [old EXCEPT !.head = IF node.prev # NIL THEN old.head ELSE node.next,
                      !.tail = IF node.next # NIL THEN old.tail ELSE node.prev,
                      !.total_shares = old.total_shares - node.shares,
                      !.order_count = old.order_count - 1]
    BY DEF UnlinkedLevel
  <2>4. UnlinkedLevel(old, node) =
          [price |-> old.price, total_shares |-> old.total_shares - node.shares,
           order_count |-> old.order_count - 1,
           head |-> IF node.prev # NIL THEN old.head ELSE node.next,
           tail |-> IF node.next # NIL THEN old.tail ELSE node.prev]
    BY <2>2, <2>3
  <2>5. /\ old.price = price /\ old.total_shares = SharesOf(x) /\ old.order_count = Len(w)
        /\ old.head = Node(w, 1) /\ old.tail = Node(w, Len(w))
    BY <2>2
  <2> QED
    BY <2>1, <2>4, <2>5
<1>16. UnlinkedLevel(LevelFor(b.pool, price, w), node) = LevelFor(pool, price, v)
  BY <1>3, <1>5, <1>10, <1>11, <1>13, <1>14, <1>15 DEF LevelFor
<1> QED
  BY <1>4, <1>5, <1>9, <1>11, <1>16

\* A list is linked both ways.
LinkedList(pool, w) ==
  \A i \in 1 .. Len(w) : /\ pool[w[i]].next = Node(w, i + 1)
                         /\ pool[w[i]].prev = Node(w, i - 1)

\* The neighbours of a list's k-th node are linked to each other.
GapClosed(old, new, w, k) ==
  \A i \in 1 .. Len(w) : i # k =>
    /\ new[w[i]].next = IF w[i] = Node(w, k - 1) THEN Node(w, k + 1) ELSE old[w[i]].next
    /\ new[w[i]].prev = IF w[i] = Node(w, k + 1) THEN Node(w, k - 1) ELSE old[w[i]].prev

\* Once a node's neighbours are linked to each other, the list without it is linked.
LEMMA Relinked ==
  ASSUME NEW n, NEW w, NEW k, NEW v, Without(w, n, k, v), NEW old, NEW new,
         LinkedList(old, w), GapClosed(old, new, w, k)
  PROVE  LinkedList(new, v)
<1>9. n \in Nat /\ NodeList(w, n) /\ k \in 1 .. Len(w) /\ v = RemoveAt(w, k)
  BY DEF Without
<1>1. Len(w) \in Nat /\ k \in 1 .. Len(w) /\ k \in Int /\ w \in Seq(1 .. n)
  BY <1>9, ListParts
<1>2. /\ Len(v) = Len(w) - 1
      /\ \A i \in 1 .. Len(w) - 1 : v[i] = IF i < k THEN w[i] ELSE w[i + 1]
  BY <1>1, <1>9, RemoveType
<1>3. \A i \in Int : Node(v, i) = IF i < k THEN Node(w, i) ELSE Node(w, i + 1)
  BY ListRemove
<1>4. ASSUME NEW i \in 1 .. Len(w), NEW j \in Int
      PROVE  w[i] = Node(w, j) <=> i = j
  <2>1. w[i] # NIL /\ \A m \in 1 .. Len(w) : w[i] = w[m] => i = m
    BY <1>9, ListParts DEF NIL
  <2> QED
    BY <2>1 DEF Node
<1>5. SUFFICES ASSUME NEW i \in 1 .. Len(v)
               PROVE  new[v[i]].next = Node(v, i + 1) /\ new[v[i]].prev = Node(v, i - 1)
  BY DEF LinkedList
<1>6. i \in 1 .. Len(w) /\ i + 1 \in 1 .. Len(w) /\ i \in Int /\ i + 1 \in Int /\ i - 1 \in Int
      /\ k - 1 \in Int /\ k + 1 \in Int
  BY <1>1, <1>2
<1>7. CASE i < k
  <2>1. v[i] = w[i] /\ i # k
    BY <1>2, <1>6, <1>7
  <2>2. /\ new[w[i]].next = IF i = k - 1 THEN Node(w, k + 1) ELSE Node(w, i + 1)
        /\ new[w[i]].prev = IF i = k + 1 THEN Node(w, k - 1) ELSE Node(w, i - 1)
    BY <1>4, <1>6, <2>1 DEF LinkedList, GapClosed
  <2>3. /\ Node(v, i + 1) = IF i + 1 < k THEN Node(w, i + 1) ELSE Node(w, (i + 1) + 1)
        /\ Node(v, i - 1) = IF i - 1 < k THEN Node(w, i - 1) ELSE Node(w, (i - 1) + 1)
    BY <1>3, <1>6
  <2>4. i - 1 < k /\ i # k + 1
    BY <1>1, <1>6, <1>7
  <2>5. IF i = k - 1 THEN ~ (i + 1 < k) /\ (i + 1) + 1 = k + 1 ELSE i + 1 < k
    BY <1>1, <1>6, <1>7
  <2> QED
    BY <2>1, <2>2, <2>3, <2>4, <2>5
<1>8. CASE ~ (i < k)
  <2>1. v[i] = w[i + 1] /\ i + 1 # k
    BY <1>1, <1>2, <1>6, <1>8
  <2>2. /\ new[w[i + 1]].next = IF i + 1 = k - 1 THEN Node(w, k + 1) ELSE Node(w, (i + 1) + 1)
        /\ new[w[i + 1]].prev = IF i + 1 = k + 1 THEN Node(w, k - 1) ELSE Node(w, (i + 1) - 1)
    BY <1>4, <1>6, <2>1 DEF LinkedList, GapClosed
  <2>3. /\ Node(v, i + 1) = IF i + 1 < k THEN Node(w, i + 1) ELSE Node(w, (i + 1) + 1)
        /\ Node(v, i - 1) = IF i - 1 < k THEN Node(w, i - 1) ELSE Node(w, (i - 1) + 1)
    BY <1>3, <1>6
  <2>4. i + 1 # k - 1 /\ ~ (i + 1 < k)
    BY <1>1, <1>6, <1>8
  <2>5. /\ i + 1 = k + 1 => i - 1 < k /\ i - 1 = k - 1
        /\ i + 1 # k + 1 => ~ (i - 1 < k) /\ (i + 1) - 1 = (i - 1) + 1
    BY <1>1, <1>6, <1>8
  <2> QED
    BY <2>1, <2>2, <2>3, <2>4, <2>5
<1> QED
  BY <1>7, <1>8

\* The order that unlink_node takes off its level, its ladder, the level's position in
\* it, and the level without the order.
Unlinks(b, ref, n, side, ladder, at, level) ==
  /\ n = b.index[ref] /\ n # NIL
  /\ side = b.pool[n].side
  /\ ladder = b.levels[side]
  /\ at = find_level(ladder, side, b.pool[n].price) /\ at # NIL
  /\ level = UnlinkedLevel(ladder[at], b.pool[n])

\* c's ladders are b's, but for a level that is rewritten, or removed once it is empty.
LevelDropped(b, c, side, at, level) ==
  /\ c.levels[side] = IF level.order_count = 0 THEN RemoveAt(b.levels[side], at)
                                               ELSE [b.levels[side] EXCEPT ![at] = level]
  /\ \A s \in Side : s # side => c.levels[s] = b.levels[s]

\* What Discard makes of a book whose order ref is found and has a level.
LEMMA DiscardIs ==
  ASSUME NEW b, WellTyped(b), NEW ref \in Ref,
         NEW n, NEW side, NEW ladder, NEW at, NEW level,
         Unlinks(b, ref, n, side, ladder, at, level),
         NEW c, c = Discard(b, ref)
  PROVE  /\ WellTyped(c) /\ Len(c.pool) = Len(b.pool) /\ c.free_head = n
         /\ \A r \in Ref : c.index[r] = IF r = ref THEN NIL ELSE b.index[r]
         /\ LevelDropped(b, c, side, at, level)
         /\ c.pool[n].next = b.free_head
         /\ \A y \in 1 .. Len(b.pool) : y # n => c.pool[y] = UnlinkedPool(b.pool, n)[y]
<1>1. PICK N : N = Len(b.pool)
  OBVIOUS
<1>2. /\ N \in Nat
      /\ b.pool \in Seq(OrderNode(N)) /\ b.free_head \in 0 .. N
      /\ b.levels \in [Side -> Seq(Level(N))] /\ b.index \in [Ref -> 0 .. N]
      /\ b = [pool |-> b.pool, free_head |-> b.free_head,
              levels |-> b.levels, index |-> b.index]
  BY <1>1, Unpack
<1>3. n \in 1 .. N
  <2>1. b.index[ref] \in 0 .. N /\ n = b.index[ref] /\ n # 0
    BY <1>2 DEF Unlinks, NIL
  <2> QED
    BY <1>2, <2>1
<1>4. WellTyped(c)
  BY DiscardType DEF Unlinks
<1>5. PICK u : u = unlink_node(b, n)
  OBVIOUS
<1>6. PICK pool : pool = UnlinkedPool(b.pool, n)
  OBVIOUS
<1>7. PICK rest : rest = IF level.order_count = 0 THEN RemoveAt(ladder, at)
                                                  ELSE [ladder EXCEPT ![at] = level]
  OBVIOUS
<1>8. PICK levels : levels = [b.levels EXCEPT ![side] = rest]
  OBVIOUS
<1>9. u = [b EXCEPT !.pool = pool, !.levels = levels]
  BY <1>5, <1>6, <1>7, <1>8 DEF unlink_node, Unlinks
<1>10. u = [pool |-> pool, free_head |-> b.free_head, levels |-> levels, index |-> b.index]
  BY <1>2, <1>9
<1>11. pool \in Seq(OrderNode(N)) /\ Len(pool) = N
  BY <1>1, <1>2, <1>3, <1>6, UnlinkedPoolType
<1>12. PICK node : node = [EmptyNode EXCEPT !.next = b.free_head]
  OBVIOUS
<1>13. PICK freed : freed = [pool EXCEPT ![n] = node]
  OBVIOUS
<1>14. PICK f : f = free_node(u, n)
  OBVIOUS
<1>15. /\ u.pool = pool /\ u.free_head = b.free_head /\ u.levels = levels /\ u.index = b.index
  BY <1>10
<1>16. f = [u EXCEPT !.pool = freed, !.free_head = n]
  BY <1>12, <1>13, <1>14, <1>15 DEF free_node
<1>17. f = [pool |-> freed, free_head |-> n, levels |-> levels, index |-> b.index]
  BY <1>10, <1>16
<1>18. PICK index : index = [b.index EXCEPT ![ref] = NIL]
  OBVIOUS
<1>19. c = [f EXCEPT !.index = index]
  BY <1>5, <1>14, <1>18 DEF Discard, Unlinks
<1>20. c = [pool |-> freed, free_head |-> n, levels |-> levels, index |-> index]
  BY <1>17, <1>19
<1>21. c.pool = freed /\ c.free_head = n /\ c.levels = levels /\ c.index = index
  BY <1>20
<1>22. DOMAIN pool = 1 .. N
  BY <1>11, LenProperties
<1>23. /\ Len(freed) = N /\ freed[n] = node
       /\ \A y \in 1 .. N : y # n => freed[y] = pool[y]
  <2>1. node \in OrderNode(N)
    <3>1. PICK empty : empty = EmptyNode
      OBVIOUS
    <3>2. empty \in OrderNode(N)
      BY <1>2, <3>1, EmptyNodeType
    <3> QED
      BY <1>2, <1>12, <3>1, <3>2 DEF OrderNode
  <2>3. n \in 1 .. Len(pool) /\ pool \in Seq(OrderNode(N))
    BY <1>3, <1>11
  <2>4. /\ Len([pool EXCEPT ![n] = node]) = Len(pool)
        /\ \A j \in 1 .. Len(pool) :
             [pool EXCEPT ![n] = node][j] = IF j = n THEN node ELSE pool[j]
    BY <2>1, <2>3, ExceptSeq
  <2>5. Len(freed) = N
    BY <1>11, <1>13, <2>4
  <2>6. \A j \in 1 .. N : freed[j] = IF j = n THEN node ELSE pool[j]
    BY <1>13, <1>22
  <2> QED
    BY <1>3, <2>5, <2>6
<1>24. node.next = b.free_head
  BY <1>12 DEF EmptyNode
<1>25. \A r \in Ref : index[r] = IF r = ref THEN NIL ELSE b.index[r]
  BY <1>2, <1>18
<1>26. LevelDropped(b, c, side, at, level)
  <2>1. ladder = b.levels[side] /\ side \in Side
    <3>1. b.pool[n] \in OrderNode(N)
      BY <1>1, <1>2, <1>3, ElementOfSeq
    <3> QED
      BY <3>1 DEF Unlinks, OrderNode
  <2>2. levels[side] = rest /\ \A s \in Side : s # side => levels[s] = b.levels[s]
    BY <1>2, <1>8, <2>1
  <2> QED
    BY <1>7, <1>21, <2>1, <2>2 DEF LevelDropped
<1>27. \A y \in 1 .. Len(b.pool) : y # n => c.pool[y] = UnlinkedPool(b.pool, n)[y]
  BY <1>1, <1>6, <1>21, <1>23
<1> QED
  BY <1>1, <1>4, <1>21, <1>23, <1>24, <1>25, <1>26, <1>27

\* An order, its node and the node's place.
RestsAt(b, W, F, ref, n, line, k) ==
  /\ Represents(b, W, F, {})
  /\ ref \in Ref /\ n = b.index[ref] /\ n # NIL
  /\ line \in Line /\ k \in 1 .. Len(W[line]) /\ W[line][k] = n

\* c is b with node n, the k-th of the list w, taken out, freed and forgotten.
NodeFreed(b, c, n, ref, w, k) ==
  /\ WellTyped(c) /\ Len(c.pool) = Len(b.pool) /\ c.free_head = n
  /\ c.pool[n].next = b.free_head
  /\ \A r \in Ref : c.index[r] = IF r = ref THEN NIL ELSE b.index[r]
  /\ \A y \in 1 .. Len(b.pool) : y # n =>
       /\ c.pool[y].next = IF y = Node(w, k - 1) THEN Node(w, k + 1) ELSE b.pool[y].next
       /\ c.pool[y].prev = IF y = Node(w, k + 1) THEN Node(w, k - 1) ELSE b.pool[y].prev
       /\ c.pool[y].side = b.pool[y].side /\ c.pool[y].price = b.pool[y].price
       /\ c.pool[y].reference_number = b.pool[y].reference_number
       /\ c.pool[y].shares = b.pool[y].shares
       /\ y # Node(w, k - 1) /\ y # Node(w, k + 1) => c.pool[y] = b.pool[y]

\* Where an order that rests is found.
LEMMA RestingNode ==
  ASSUME NEW b, NEW W, NEW F, NEW ref, NEW n, NEW line, NEW k,
         RestsAt(b, W, F, ref, n, line, k)
  PROVE  /\ WellTyped(b) /\ Len(b.pool) \in Nat /\ n \in 1 .. Len(b.pool)
         /\ QueueOK(b, line, W[line]) /\ NodeList(W[line], Len(b.pool))
         /\ Len(W[line]) \in Nat /\ W[line] # << >>
         /\ line[1] \in Side /\ line[2] \in Price /\ line = <<line[1], line[2]>>
         /\ b.pool[n].side = line[1] /\ b.pool[n].price = line[2]
         /\ b.pool[n].next = Node(W[line], k + 1) /\ b.pool[n].prev = Node(W[line], k - 1)
         /\ b.pool[n].reference_number = ref
<1>1. WellTyped(b) /\ QueuesOK(b, W) /\ line \in Line /\ IndexOK(b, W)
  BY DEF RestsAt, Represents
<1>2. Len(b.pool) \in Nat
  BY <1>1, Unpack
<1>3. PICK w : w = W[line]
  OBVIOUS
<1>4. QueueOK(b, line, w) /\ k \in 1 .. Len(w) /\ w[k] = n
  BY <1>1, <1>3 DEF QueuesOK, RestsAt
<1>5. NodeList(w, Len(b.pool))
  BY <1>4 DEF QueueOK
<1>6. Len(w) \in Nat /\ n \in 1 .. Len(b.pool)
  BY <1>4, <1>5, ListParts
<1>7. w # << >>
  BY <1>4, <1>6
<1>8. line[1] \in Side /\ line[2] \in Price /\ line = <<line[1], line[2]>>
  BY <1>1 DEF Line
<1>9. /\ b.pool[n].side = line[1] /\ b.pool[n].price = line[2]
      /\ b.pool[n].next = Node(w, k + 1) /\ b.pool[n].prev = Node(w, k - 1)
  BY <1>4 DEF QueueOK
<1>10. b.pool[n].reference_number = ref
  BY <1>1 DEF IndexOK, RestsAt
<1> QED
  BY <1>1, <1>2, <1>3, <1>4, <1>5, <1>6, <1>7, <1>8, <1>9, <1>10

\* Discard takes the node out of its list and the order out of its level.
LEMMA DiscardParts ==
  ASSUME NEW b, NEW W, NEW F, NEW ref, NEW n, NEW line, NEW k,
         RestsAt(b, W, F, ref, n, line, k),
         NEW c, c = Discard(b, ref),
         NEW at, at = find_level(b.levels[line[1]], line[1], line[2])
  PROVE  /\ NodeFreed(b, c, n, ref, W[line], k)
         /\ LevelDropped(b, c, line[1], at,
              UnlinkedLevel(LevelFor(b.pool, line[2], W[line]), b.pool[n]))
<1>1. /\ WellTyped(b) /\ Len(b.pool) \in Nat /\ n \in 1 .. Len(b.pool)
      /\ W[line] # << >>
      /\ line[1] \in Side /\ line[2] \in Price /\ line = <<line[1], line[2]>>
      /\ b.pool[n].side = line[1] /\ b.pool[n].price = line[2]
  BY RestingNode
<1>2. b.pool[n].next = Node(W[line], k + 1) /\ b.pool[n].prev = Node(W[line], k - 1)
  BY RestingNode
<1>3. PICK side : side = line[1]
  OBVIOUS
<1>4. PICK price : price = line[2]
  OBVIOUS
<1>5. PICK ladder : ladder = b.levels[side]
  OBVIOUS
<1>6. side \in Side /\ price \in Price /\ W[<<side, price>>] # << >>
  BY <1>1, <1>3, <1>4
<1>7. /\ at # NIL /\ at \in 1 .. Len(ladder)
      /\ ladder[at] = LevelFor(b.pool, price, W[<<side, price>>])
  <2>1. Represents(b, W, F, {})
    BY DEF RestsAt
  <2>2. at = find_level(b.levels[side], side, price)
    BY <1>3, <1>4
  <2> QED
    BY <1>5, <1>6, <2>1, <2>2, FindsLevel
<1>8. PICK level : level = UnlinkedLevel(ladder[at], b.pool[n])
  OBVIOUS
<1>9. ref \in Ref /\ Unlinks(b, ref, n, side, ladder, at, level)
  BY <1>1, <1>3, <1>4, <1>5, <1>7, <1>8 DEF Unlinks, RestsAt
<1>10. /\ WellTyped(c) /\ Len(c.pool) = Len(b.pool) /\ c.free_head = n
       /\ \A r \in Ref : c.index[r] = IF r = ref THEN NIL ELSE b.index[r]
       /\ LevelDropped(b, c, side, at, level)
       /\ c.pool[n].next = b.free_head
       /\ \A y \in 1 .. Len(b.pool) : y # n => c.pool[y] = UnlinkedPool(b.pool, n)[y]
  <2>1. WellTyped(b)
    BY <1>1
  <2> QED
    BY <1>9, <2>1, DiscardIs
<1>12. level = UnlinkedLevel(LevelFor(b.pool, line[2], W[line]), b.pool[n])
  BY <1>1, <1>3, <1>4, <1>7, <1>8
<1>13. NodeFreed(b, c, n, ref, W[line], k)
  <2>1. PICK u : u = UnlinkedPool(b.pool, n)
    OBVIOUS
  <2>2. PICK prev : prev = Node(W[line], k - 1)
    OBVIOUS
  <2>3. PICK next : next = Node(W[line], k + 1)
    OBVIOUS
  <2>4. PICK N : N = Len(b.pool)
    OBVIOUS
  <2>5. PICK pool : pool = b.pool
    OBVIOUS
  <2>6. N \in Nat /\ pool \in Seq(OrderNode(N)) /\ Len(pool) = N /\ n \in 1 .. N
    BY <1>1, <2>4, <2>5, Unpack
  <2>7. pool[n].prev = prev /\ pool[n].next = next /\ u = UnlinkedPool(pool, n)
    BY <1>2, <2>1, <2>2, <2>3, <2>5
  <2>8. \A y \in 1 .. N :
          /\ u[y].next = IF y = prev THEN next ELSE pool[y].next
          /\ u[y].prev = IF y = next THEN prev ELSE pool[y].prev
          /\ u[y].side = pool[y].side /\ u[y].price = pool[y].price
          /\ u[y].reference_number = pool[y].reference_number
          /\ u[y].shares = pool[y].shares
          /\ y # prev /\ y # next => u[y] = pool[y]
    BY <2>6, <2>7, UnlinkedPoolIs
  <2>9. \A y \in 1 .. N : y # n => c.pool[y] = u[y]
    BY <1>10, <2>1, <2>4
  <2> QED
    BY <1>10, <2>2, <2>3, <2>4, <2>5, <2>8, <2>9 DEF NodeFreed
<1> QED
  BY <1>3, <1>10, <1>12, <1>13

\* Removing the node leaves its line a list of the orders that stay, in their order.
LEMMA DiscardQueue ==
  ASSUME NEW b, NEW W, NEW F, NEW ref, NEW n, NEW line, NEW k,
         RestsAt(b, W, F, ref, n, line, k),
         NEW c, NodeFreed(b, c, n, ref, W[line], k),
         NEW v, v = RemoveAt(W[line], k)
  PROVE  /\ QueueOK(c, line, v)
         /\ Shown(c.pool, v) = RemoveAt(Shown(b.pool, W[line]), k)
         /\ LevelFor(c.pool, line[2], v) =
              UnlinkedLevel(LevelFor(b.pool, line[2], W[line]), b.pool[n])
<1>1. PICK w : w = W[line]
  OBVIOUS
<1>2. PICK N : N = Len(b.pool)
  OBVIOUS
<1>3. /\ WellTyped(b) /\ N \in Nat /\ n \in 1 .. N /\ QueueOK(b, line, w)
      /\ NodeList(w, N) /\ Len(w) \in Nat
  BY <1>1, <1>2, RestingNode
<1>4. k \in 1 .. Len(w) /\ w[k] = n /\ ref \in Ref /\ b.index[ref] = n
  BY <1>1 DEF RestsAt
<1>5. NodeFreed(b, c, n, ref, w, k) /\ v = RemoveAt(w, k)
  BY <1>1
<1>6. \A i \in 1 .. Len(w) : w[i] \in 1 .. N /\ (i # k => w[i] # n)
  BY <1>3, <1>4, ListParts
<1>7. ASSUME NEW i \in 1 .. Len(w), i # k
      PROVE  /\ c.pool[w[i]].next = IF w[i] = Node(w, k - 1) THEN Node(w, k + 1)
                                    ELSE b.pool[w[i]].next
             /\ c.pool[w[i]].prev = IF w[i] = Node(w, k + 1) THEN Node(w, k - 1)
                                    ELSE b.pool[w[i]].prev
             /\ c.pool[w[i]].side = b.pool[w[i]].side /\ c.pool[w[i]].price = b.pool[w[i]].price
             /\ c.pool[w[i]].reference_number = b.pool[w[i]].reference_number
             /\ c.pool[w[i]].shares = b.pool[w[i]].shares
  <2>1. PICK y : y = w[i]
    OBVIOUS
  <2>2. y \in 1 .. N /\ y # n
    BY <1>6, <1>7, <2>1
  <2> QED
    BY <1>2, <1>5, <2>1, <2>2 DEF NodeFreed
<1>8. LinkedList(b.pool, w)
  BY <1>3 DEF QueueOK, LinkedList
<1>9. GapClosed(b.pool, c.pool, w, k)
  BY <1>7 DEF GapClosed
<1>16. Without(w, N, k, v)
  BY <1>3, <1>4, <1>5 DEF Without
<1>10. LinkedList(c.pool, v)
  <2>1. PICK old, new : old = b.pool /\ new = c.pool
    OBVIOUS
  <2>2. LinkedList(old, w) /\ GapClosed(old, new, w, k)
    BY <1>8, <1>9, <2>1
  <2>3. LinkedList(new, v)
    BY <1>16, <2>2, Relinked
  <2> QED
    BY <2>1, <2>3
<1>11. NodeList(v, N) /\ Len(v) = Len(w) - 1
       /\ \A i \in 1 .. Len(v) : v[i] = IF i < k THEN w[i] ELSE w[i + 1]
  BY <1>16, ListRemove
<1>12. ASSUME NEW i \in 1 .. Len(v)
       PROVE  \E j \in 1 .. Len(w) : j # k /\ v[i] = w[j]
  <2>1. i \in 1 .. Len(w) /\ i + 1 \in 1 .. Len(w) /\ (i < k => i # k) /\ (~ (i < k) => i + 1 # k)
    BY <1>3, <1>4, <1>11
  <2> QED
    BY <1>11, <2>1
<1>13. QueueOK(c, line, v)
  <2>1. NodeList(v, Len(c.pool))
    BY <1>2, <1>5, <1>11 DEF NodeFreed
  <2>2. ASSUME NEW i \in 1 .. Len(v)
        PROVE  /\ c.pool[v[i]].side = line[1] /\ c.pool[v[i]].price = line[2]
               /\ c.pool[v[i]].reference_number \in Ref
               /\ c.index[c.pool[v[i]].reference_number] = v[i]
    <3>1. PICK j \in 1 .. Len(w) : j # k /\ v[i] = w[j]
      BY <1>12
    <3>2. PICK y : y = w[j]
      OBVIOUS
    <3>3. /\ b.pool[y].side = line[1] /\ b.pool[y].price = line[2]
          /\ b.pool[y].reference_number \in Ref
          /\ b.index[b.pool[y].reference_number] = y
      BY <1>3, <3>2 DEF QueueOK
    <3>4. /\ c.pool[y].side = b.pool[y].side /\ c.pool[y].price = b.pool[y].price
          /\ c.pool[y].reference_number = b.pool[y].reference_number
      BY <1>7, <3>1, <3>2
    <3>5. y # n
      BY <1>6, <3>1, <3>2
    <3>6. b.pool[y].reference_number # ref
      BY <1>4, <3>3, <3>5
    <3>7. c.index[b.pool[y].reference_number] = b.index[b.pool[y].reference_number]
      BY <1>5, <3>3, <3>6 DEF NodeFreed
    <3> QED
      BY <3>1, <3>2, <3>3, <3>4, <3>7
  <2> QED
    BY <1>10, <2>1, <2>2 DEF QueueOK, LinkedList
<1>14. \A i \in 1 .. Len(w) : i # k => OrderView(c.pool[w[i]]) = OrderView(b.pool[w[i]])
  BY <1>7 DEF OrderView
<1>15. /\ UnlinkedLevel(LevelFor(b.pool, line[2], w), b.pool[w[k]]) = LevelFor(c.pool, line[2], v)
       /\ Shown(c.pool, v) = RemoveAt(Shown(b.pool, w), k)
  BY <1>3, <1>4, <1>5, <1>14, UnlinkedLevelIs
<1> QED
  BY <1>1, <1>4, <1>13, <1>15

\* The other lines stay as they are.
LEMMA DiscardOthers ==
  ASSUME NEW b, NEW W, NEW F, NEW ref, NEW n, NEW line, NEW k,
         RestsAt(b, W, F, ref, n, line, k),
         NEW c, NodeFreed(b, c, n, ref, W[line], k),
         NEW l \in Line, l # line
  PROVE  QueueOK(c, l, W[l]) /\ Shown(c.pool, W[l]) = Shown(b.pool, W[l])
<1>1. PICK w : w = W[l]
  OBVIOUS
<1>2. /\ QueuesOK(b, W) /\ WellTyped(b) /\ line \in Line /\ k \in 1 .. Len(W[line])
      /\ W[line][k] = n /\ ref \in Ref /\ b.index[ref] = n
  BY DEF RestsAt, Represents
<1>3. QueueOK(b, l, w) /\ Len(b.pool) \in Nat /\ Len(c.pool) = Len(b.pool)
  BY <1>1, <1>2, Unpack DEF QueuesOK, NodeFreed
<1>4. ASSUME NEW i \in 1 .. Len(w), NEW j \in 1 .. Len(W[line]) PROVE w[i] # W[line][j]
  BY <1>1, <1>2, OnePlace
<1>5. ASSUME NEW i \in 1 .. Len(w)
      PROVE  c.pool[w[i]] = b.pool[w[i]] /\ c.index[b.pool[w[i]].reference_number] = w[i]
  <2>1. PICK y : y = w[i]
    OBVIOUS
  <2>2. y \in 1 .. Len(b.pool) /\ y # NIL
    BY <1>3, <2>1, ListParts DEF QueueOK, NIL
  <2>3. y # n
    BY <1>2, <1>4, <2>1
  <2>4. y # Node(W[line], k - 1) /\ y # Node(W[line], k + 1)
    BY <1>4, <2>1, <2>2 DEF Node
  <2>5. c.pool[y] = b.pool[y]
    BY <2>2, <2>3, <2>4 DEF NodeFreed
  <2>6. b.pool[y].reference_number \in Ref /\ b.index[b.pool[y].reference_number] = y
    BY <1>3, <2>1 DEF QueueOK
  <2>7. b.pool[y].reference_number # ref
    BY <1>2, <2>3, <2>6
  <2>8. c.index[b.pool[y].reference_number] = y
    BY <2>6, <2>7 DEF NodeFreed
  <2> QED
    BY <2>1, <2>5, <2>8
<1>6. QueueOK(c, l, w) /\ Shown(c.pool, w) = Shown(b.pool, w)
  <2>1. Len(c.pool) \in Nat /\ Len(b.pool) <= Len(c.pool)
    BY <1>3
  <2>2. \A i \in 1 .. Len(w) : /\ c.pool[w[i]] = b.pool[w[i]]
                                /\ c.index[b.pool[w[i]].reference_number] = w[i]
    BY <1>5
  <2>3. QueueOK(b, l, w) /\ Len(b.pool) \in Nat
    BY <1>3
  <2> QED
    BY <2>1, <2>2, <2>3, QueueFrame
<1> QED
  BY <1>1, <1>6

\* The lists after the k-th node of a line has gone.
LEMMA PartedIs ==
  ASSUME NEW W, DOMAIN W = Line, NEW line \in Line, NEW k, NEW V, V = Parted(W, line, k)
  PROVE  /\ DOMAIN V = Line /\ V[line] = RemoveAt(W[line], k)
         /\ \A l \in Line : l # line => V[l] = W[l]
BY DEF Parted

\* The index finds the orders that stay, where they were.
LEMMA DiscardIndex ==
  ASSUME NEW b, NEW W, NEW F, NEW ref, NEW n, NEW line, NEW k,
         RestsAt(b, W, F, ref, n, line, k),
         NEW c, NodeFreed(b, c, n, ref, W[line], k),
         NEW V, V = Parted(W, line, k)
  PROVE  IndexOK(c, V)
<1>1. /\ DOMAIN W = Line /\ line \in Line /\ IndexOK(b, W) /\ WellTyped(b) /\ ref \in Ref
      /\ b.index[ref] = n /\ k \in 1 .. Len(W[line]) /\ W[line][k] = n
  BY DEF RestsAt, Represents
<1>2. PICK v : v = RemoveAt(W[line], k)
  OBVIOUS
<1>3. PICK w : w = W[line]
  OBVIOUS
<1>4. V[line] = v /\ \A l \in Line : l # line => V[l] = W[l]
  BY <1>1, <1>2, PartedIs
<1>5. PICK N : N = Len(b.pool)
  OBVIOUS
<1>6. N \in Nat /\ NodeList(w, N) /\ k \in 1 .. Len(w) /\ v = RemoveAt(w, k) /\ w[k] = n
  BY <1>1, <1>2, <1>3, <1>5, RestingNode
<1>7. \A i \in 1 .. Len(w) : i # k => \E j \in 1 .. Len(v) : v[j] = w[i]
  <2>1. Without(w, N, k, v)
    BY <1>6 DEF Without
  <2> QED
    BY <2>1, ListRemove
<1> SUFFICES ASSUME NEW r \in Ref, c.index[r] # NIL
             PROVE  /\ c.pool[c.index[r]].reference_number = r
                    /\ \E l \in Line : \E i \in 1 .. Len(V[l]) : V[l][i] = c.index[r]
  BY DEF IndexOK
<1>8. PICK y : y = b.index[r]
  OBVIOUS
<1>9. r # ref /\ c.index[r] = y
  BY <1>8 DEF NodeFreed
<1>10. /\ b.pool[y].reference_number = r
       /\ \E l \in Line : \E i \in 1 .. Len(W[l]) : W[l][i] = y
  BY <1>1, <1>8, <1>9 DEF IndexOK
<1>11. y \in 1 .. N /\ y # n
  <2>1. b.index \in [Ref -> 0 .. N]
    BY <1>1, <1>5, Unpack
  <2>2. y \in 0 .. N /\ y # 0
    BY <1>8, <1>9, <2>1 DEF NIL
  <2>3. b.pool[n].reference_number = ref
    BY RestingNode
  <2> QED
    BY <1>6, <1>9, <1>10, <2>2, <2>3
<1>12. c.pool[y].reference_number = r
  BY <1>5, <1>10, <1>11 DEF NodeFreed
<1>13. PICK l \in Line : \E i \in 1 .. Len(W[l]) : W[l][i] = y
  BY <1>10
<1>14. PICK i \in 1 .. Len(W[l]) : W[l][i] = y
  BY <1>13
<1>15. \E j \in 1 .. Len(V[l]) : V[l][j] = y
  <2>1. CASE l = line
    <3>1. i \in 1 .. Len(w) /\ w[i] = y
      BY <1>3, <1>14, <2>1
    <3>2. i # k
      BY <1>6, <1>11, <3>1
    <3> QED
      BY <1>4, <1>7, <2>1, <3>1, <3>2
  <2>2. CASE l # line
    BY <1>4, <1>14, <2>2
  <2> QED
    BY <2>1, <2>2
<1> QED
  BY <1>9, <1>12, <1>15

\* The node heads the free list.
LEMMA DiscardFree ==
  ASSUME NEW b, NEW W, NEW F, NEW ref, NEW n, NEW line, NEW k,
         RestsAt(b, W, F, ref, n, line, k),
         NEW c, NodeFreed(b, c, n, ref, W[line], k),
         NEW G, G = <<n>> \o F
  PROVE  FreeOK(c, G) /\ CoverOK(c, G, {})
<1>1. PICK N : N = Len(b.pool)
  OBVIOUS
<1>2. /\ WellTyped(b) /\ FreeOK(b, F) /\ CoverOK(b, F, {}) /\ QueuesOK(b, W) /\ ref \in Ref
      /\ b.index[ref] = n /\ n # NIL /\ line \in Line /\ IndexOK(b, W)
  BY DEF RestsAt, Represents
<1>3. N \in Nat /\ n \in 1 .. N /\ Len(c.pool) = N /\ b.index \in [Ref -> 0 .. N]
  BY <1>1, <1>2, RestingNode, Unpack DEF NodeFreed
<1>4. NodeList(F, N) /\ Len(F) \in Nat /\ F \in Seq(1 .. N)
  BY <1>1, <1>2, ListParts DEF FreeOK
<1>5. \A j \in 1 .. Len(F) : F[j] \in 1 .. N
  BY <1>4, ListParts
<1>6. \A j \in 1 .. Len(F) : F[j] # n
  BY <1>2 DEF FreeOK
<1>7. /\ G \in Seq(1 .. N) /\ Len(G) = Len(F) + 1 /\ G[1] = n
      /\ \A j \in 1 .. Len(F) : G[j + 1] = F[j]
      /\ \A j \in 1 .. Len(G) : j # 1 => j - 1 \in 1 .. Len(F) /\ G[j] = F[j - 1]
  <2>1. PICK h : h = <<n>>
    OBVIOUS
  <2>2. h \in Seq(1 .. N) /\ Len(h) = 1 /\ h[1] = n
    BY <1>3, <2>1
  <2>3. /\ G \in Seq(1 .. N) /\ Len(G) = Len(h) + Len(F)
        /\ \A i \in 1 .. Len(h) + Len(F) : G[i] = IF i <= Len(h) THEN h[i] ELSE F[i - Len(h)]
    BY <1>4, <2>1, <2>2, ConcatProperties
  <2>4. Len(G) = Len(F) + 1
    BY <1>4, <2>2, <2>3
  <2>5. \A i \in 1 .. Len(G) : G[i] = IF i <= 1 THEN h[i] ELSE F[i - 1]
    BY <2>2, <2>3
  <2>6. G[1] = n
    BY <1>4, <2>2, <2>4, <2>5
  <2>7. ASSUME NEW j \in 1 .. Len(F) PROVE G[j + 1] = F[j]
    <3>1. j + 1 \in 1 .. Len(G) /\ ~ (j + 1 <= 1) /\ (j + 1) - 1 = j
      BY <1>4, <2>4
    <3> QED
      BY <2>5, <3>1
  <2>8. ASSUME NEW j \in 1 .. Len(G), j # 1 PROVE j - 1 \in 1 .. Len(F) /\ G[j] = F[j - 1]
    BY <1>4, <2>4, <2>5, <2>8
  <2> QED
    BY <2>3, <2>4, <2>6, <2>7, <2>8
<1>8. NodeList(G, N)
  <2>1. ASSUME NEW i \in 1 .. Len(G), NEW j \in 1 .. Len(G), G[i] = G[j] PROVE i = j
    <3>1. \A x, y \in 1 .. Len(F) : F[x] = F[y] => x = y
      BY <1>4 DEF NodeList
    <3>2. CASE i = 1
      BY <1>6, <1>7, <2>1, <3>2
    <3>3. CASE j = 1
      BY <1>6, <1>7, <2>1, <3>3
    <3>4. CASE i # 1 /\ j # 1
      <4>1. i - 1 \in 1 .. Len(F) /\ j - 1 \in 1 .. Len(F) /\ F[i - 1] = F[j - 1]
        BY <1>7, <2>1, <3>4
      <4>2. i - 1 = j - 1
        BY <3>1, <4>1
      <4> QED
        BY <4>2
    <3> QED
      BY <3>2, <3>3, <3>4
  <2> QED
    BY <1>7, <2>1 DEF NodeList
<1>9. ASSUME NEW j \in 1 .. Len(F) PROVE c.pool[F[j]].next = b.pool[F[j]].next
  <2>1. PICK y : y = F[j]
    OBVIOUS
  <2>2. y \in 1 .. Len(b.pool) /\ y # n
    BY <1>1, <1>5, <1>6, <2>1
  <2>3. \A r \in Ref : b.index[r] # y
    BY <1>2, <2>1 DEF FreeOK
  <2>4. \A i \in 1 .. Len(W[line]) : W[line][i] # y
    BY <1>2, <2>3, NotQueued
  <2>5. y # Node(W[line], k - 1)
    BY <2>2, <2>4 DEF Node, NIL
  <2>6. c.pool[y].next = b.pool[y].next
    BY <2>2, <2>5 DEF NodeFreed
  <2> QED
    BY <2>1, <2>6
<1>10. Links(c.pool, c.free_head, G)
  <2>1. c.free_head = Node(G, 1)
    BY <1>4, <1>7 DEF NodeFreed, Node
  <2>2. b.free_head = Node(F, 1) /\ \A i \in 1 .. Len(F) : b.pool[F[i]].next = Node(F, i + 1)
    BY <1>2 DEF FreeOK, Links
  <2>3. ASSUME NEW i \in 1 .. Len(F) + 1 PROVE Node(G, i + 1) = Node(F, i)
    <3>1. CASE i \in 1 .. Len(F)
      <4>1. i + 1 \in 1 .. Len(G) /\ G[i + 1] = F[i]
        BY <1>4, <1>7, <3>1
      <4> QED
        BY <3>1, <4>1 DEF Node
    <3>2. CASE i \notin 1 .. Len(F)
      <4>1. i + 1 \notin 1 .. Len(G)
        BY <1>4, <1>7, <3>2
      <4> QED
        BY <3>2, <4>1 DEF Node
    <3> QED
      BY <3>1, <3>2
  <2>4. ASSUME NEW i \in 1 .. Len(G) PROVE c.pool[G[i]].next = Node(G, i + 1)
    <3>1. CASE i = 1
      <4>1. c.pool[n].next = Node(F, 1)
        BY <2>2 DEF NodeFreed
      <4>2. Node(G, 1 + 1) = Node(F, 1)
        BY <1>4, <2>3
      <4> QED
        BY <1>7, <3>1, <4>1, <4>2
    <3>2. CASE i # 1
      <4>1. i - 1 \in 1 .. Len(F) /\ G[i] = F[i - 1]
        BY <1>7, <3>2
      <4>2. c.pool[F[i - 1]].next = b.pool[F[i - 1]].next
        BY <1>9, <4>1
      <4>3. b.pool[F[i - 1]].next = Node(F, (i - 1) + 1)
        BY <2>2, <4>1
      <4>4. (i - 1) + 1 = i /\ i \in 1 .. Len(F) + 1
        BY <1>4, <1>7
      <4>5. Node(G, i + 1) = Node(F, i)
        BY <2>3, <4>4
      <4> QED
        BY <4>1, <4>2, <4>3, <4>4, <4>5
    <3> QED
      BY <3>1, <3>2
  <2> QED
    BY <2>1, <2>4 DEF Links
<1>11. ASSUME NEW j \in 1 .. Len(G), NEW r \in Ref PROVE c.index[r] # G[j]
  <2>1. G[j] = n \/ \E i \in 1 .. Len(F) : G[j] = F[i]
    BY <1>7
  <2>2. G[j] # NIL /\ G[j] \in 1 .. N
    BY <1>3, <1>5, <2>1 DEF NIL
  <2>3. CASE r = ref
    BY <2>2, <2>3 DEF NodeFreed
  <2>4. CASE r # ref
    <3>1. c.index[r] = b.index[r]
      BY <2>4 DEF NodeFreed
    <3>2. b.index[r] # n
      BY <1>2, <2>4 DEF IndexOK
    <3>3. \A i \in 1 .. Len(F) : b.index[r] # F[i]
      BY <1>2 DEF FreeOK
    <3> QED
      BY <2>1, <3>1, <3>2, <3>3
  <2> QED
    BY <2>3, <2>4
<1>12. FreeOK(c, G)
  BY <1>3, <1>8, <1>10, <1>11 DEF FreeOK
<1>13. ASSUME NEW x \in 1 .. N
       PROVE  (\E j \in 1 .. Len(G) : G[j] = x) \/ \E r \in Ref : c.index[r] = x
  <2>1. (\E j \in 1 .. Len(F) : F[j] = x) \/ \E r \in Ref : b.index[r] = x
    BY <1>1, <1>2 DEF CoverOK
  <2>2. CASE x = n
    <3>1. 1 \in 1 .. Len(G) /\ G[1] = x
      BY <1>4, <1>7, <2>2
    <3> QED
      BY <3>1
  <2>3. CASE \E j \in 1 .. Len(F) : F[j] = x
    <3>1. PICK j \in 1 .. Len(F) : F[j] = x
      BY <2>3
    <3>2. j + 1 \in 1 .. Len(G) /\ G[j + 1] = x
      BY <1>4, <1>7, <3>1
    <3> QED
      BY <3>2
  <2>4. CASE x # n /\ \E r \in Ref : b.index[r] = x
    <3>1. PICK r \in Ref : b.index[r] = x
      BY <2>4
    <3>2. r # ref
      BY <1>2, <2>4, <3>1
    <3> QED
      BY <3>1, <3>2 DEF NodeFreed
  <2> QED
    BY <2>1, <2>2, <2>3, <2>4
<1>14. CoverOK(c, G, {})
  BY <1>3, <1>13 DEF CoverOK
<1> QED
  BY <1>12, <1>14

\* The ladders still have one level for each line with orders, the best first.
LEMMA DiscardLadders ==
  ASSUME NEW b, NEW W, NEW F, NEW ref, NEW n, NEW line, NEW k,
         RestsAt(b, W, F, ref, n, line, k),
         NEW c, NodeFreed(b, c, n, ref, W[line], k),
         NEW at, at = find_level(b.levels[line[1]], line[1], line[2]),
         NEW level, level = LevelFor(c.pool, line[2], RemoveAt(W[line], k)),
         LevelDropped(b, c, line[1], at, level),
         NEW V, V = Parted(W, line, k)
  PROVE  LaddersOK(c, V)
<1>1. PICK side, price : side = line[1] /\ price = line[2]
  OBVIOUS
<1>2. PICK N : N = Len(b.pool)
  OBVIOUS
<1>3. /\ Represents(b, W, F, {}) /\ DOMAIN W = Line /\ LaddersOK(b, W) /\ line \in Line
      /\ WellTyped(b)
  BY DEF RestsAt, Represents
<1>4. /\ side \in Side /\ price \in Price /\ line = <<side, price>> /\ W[line] # << >>
  BY <1>1, RestingNode
<1>5. PICK v : v = RemoveAt(W[line], k)
  OBVIOUS
<1>6. V[line] = v /\ \A l \in Line : l # line => V[l] = W[l]
  BY <1>3, <1>5, PartedIs
<1>7. \A l \in Line : l # line => Shown(c.pool, W[l]) = Shown(b.pool, W[l])
  BY DiscardOthers
<1>8. \A s \in Side, p \in Price : /\ <<s, p>> \in Line
                                   /\ <<s, p>> = line <=> s = side /\ p = price
  BY <1>4 DEF Line
<1>9. ASSUME NEW s \in Side, NEW p \in Price, ~ (s = side /\ p = price)
      PROVE  /\ V[<<s, p>>] = W[<<s, p>>]
             /\ LevelFor(c.pool, p, V[<<s, p>>]) = LevelFor(b.pool, p, W[<<s, p>>])
  <2>1. PICK l : l = <<s, p>>
    OBVIOUS
  <2>2. l \in Line /\ l # line
    BY <1>8, <1>9, <2>1
  <2>3. V[l] = W[l] /\ Shown(c.pool, W[l]) = Shown(b.pool, W[l])
    BY <1>6, <1>7, <2>2
  <2> QED
    BY <2>1, <2>3 DEF LevelFor
<1>10. ASSUME NEW s \in Side, s # side
       PROVE  IsLadder(c.levels[s], s, HeldBy(V, s), LevelsFor(c.pool, V, s))
  <2>1. HeldBy(V, s) = HeldBy(W, s)
    BY <1>9, <1>10 DEF HeldBy
  <2>2. \A p \in HeldBy(W, s) : LevelsFor(c.pool, V, s)[p] = LevelsFor(b.pool, W, s)[p]
    BY <1>9, <1>10 DEF LevelsFor, HeldBy
  <2>3. IsLadder(b.levels[s], s, HeldBy(W, s), LevelsFor(b.pool, W, s))
    BY <1>3 DEF LaddersOK
  <2>4. c.levels[s] = b.levels[s]
    BY <1>1, <1>10 DEF LevelDropped
  <2> QED
    BY <2>1, <2>2, <2>3, <2>4, LadderFrame
<1>11. PICK ladder : ladder = b.levels[side]
  OBVIOUS
<1>12. PICK H : H = HeldBy(W, side)
  OBVIOUS
<1>13. PICK lv : lv = LevelsFor(b.pool, W, side)
  OBVIOUS
<1>14. PICK new : new = LevelsFor(c.pool, V, side)
  OBVIOUS
<1>15. ladder \in Seq(Level(N)) /\ IsLadder(ladder, side, H, lv)
  BY <1>2, <1>3, <1>4, <1>11, <1>12, <1>13, Unpack DEF LaddersOK
<1>16. at \in 1 .. Len(ladder) /\ ladder[at].price = price
  <2>1. W[<<side, price>>] # << >> /\ at = find_level(b.levels[side], side, price)
    BY <1>1, <1>4
  <2> QED
    BY <1>3, <1>4, <1>11, <2>1, FindsLevel
<1>17. \A p \in H \ {price} : new[p] = lv[p]
  BY <1>9, <1>4, <1>12, <1>13, <1>14 DEF LevelsFor, HeldBy
<1>18. new[price] = level /\ level.price = price /\ level.order_count = Len(v)
  <2>1. new[price] = LevelFor(c.pool, price, V[<<side, price>>])
    BY <1>4, <1>14 DEF LevelsFor
  <2>2. V[<<side, price>>] = v
    BY <1>4, <1>6
  <2>3. level = LevelFor(c.pool, price, v)
    BY <1>1, <1>5
  <2>4. level.price = price /\ level.order_count = Len(v)
    BY <2>3 DEF LevelFor
  <2> QED
    BY <2>1, <2>2, <2>3, <2>4
<1>19. c.levels[side] = IF level.order_count = 0 THEN RemoveAt(ladder, at)
                                                 ELSE [ladder EXCEPT ![at] = level]
  BY <1>1, <1>11 DEF LevelDropped
<1>20. Len(v) \in Nat /\ (Len(v) = 0 <=> v = << >>)
  <2>1. PICK w : w = W[line]
    OBVIOUS
  <2>2. Without(w, N, k, v)
    <3>1. N \in Nat /\ NodeList(w, N)
      BY <1>2, <2>1, RestingNode
    <3>2. k \in 1 .. Len(w)
      BY <2>1 DEF RestsAt
    <3> QED
      BY <1>5, <2>1, <3>1, <3>2 DEF Without
  <2>3. NodeList(v, N)
    BY <2>2, ListRemove
  <2> QED
    BY <2>3, ListParts, EmptySeq
<1>21. IsLadder(c.levels[side], side, HeldBy(V, side), new)
  <2>1. CASE Len(v) = 0
    <3>1. HeldBy(V, side) = H \ {price}
      <4>1. V[<<side, price>>] = << >>
        BY <1>4, <1>6, <1>20, <2>1
      <4>2. \A p \in Price : p # price => V[<<side, p>>] = W[<<side, p>>]
        BY <1>4, <1>9
      <4> QED
        BY <1>12, <4>1, <4>2 DEF HeldBy
    <3>2. \A p \in H \ {ladder[at].price} : new[p] = lv[p]
      BY <1>16, <1>17
    <3>3. IsLadder(RemoveAt(ladder, at), side, H \ {ladder[at].price}, new)
      BY <1>15, <1>16, <3>2, LadderRemove
    <3> QED
      BY <1>16, <1>18, <1>19, <2>1, <3>1, <3>3
  <2>2. CASE Len(v) # 0
    <3>1. HeldBy(V, side) = H
      <4>1. V[<<side, price>>] # << >> /\ W[<<side, price>>] # << >>
        BY <1>4, <1>6, <1>20, <2>2
      <4>2. \A p \in Price : p # price => V[<<side, p>>] = W[<<side, p>>]
        BY <1>4, <1>9
      <4> QED
        BY <1>12, <4>1, <4>2 DEF HeldBy
    <3>2. /\ level.price = ladder[at].price /\ new[level.price] = level
          /\ \A p \in H \ {level.price} : new[p] = lv[p]
      BY <1>16, <1>17, <1>18
    <3>3. IsLadder([ladder EXCEPT ![at] = level], side, H, new)
      BY <1>15, <1>16, <3>2, LadderUpdate
    <3> QED
      BY <1>18, <1>19, <2>2, <3>1, <3>3
  <2> QED
    BY <2>1, <2>2
<1> QED
  BY <1>10, <1>14, <1>21 DEF LaddersOK

\* Discard takes one order away and nothing else.
LEMMA DiscardSound ==
  ASSUME NEW b, NEW W, NEW F, NEW ref, NEW n, NEW line, NEW k,
         RestsAt(b, W, F, ref, n, line, k),
         NEW c, c = Discard(b, ref), NEW V, V = Parted(W, line, k)
  PROVE  /\ \E G : Represents(c, V, G, {})
         /\ \A l \in Line : Shown(c.pool, V[l]) =
              IF l = line THEN RemoveAt(Shown(b.pool, W[l]), k) ELSE Shown(b.pool, W[l])
<1>1. DOMAIN W = Line /\ line \in Line
  BY DEF RestsAt, Represents
<1>2. PICK at : at = find_level(b.levels[line[1]], line[1], line[2])
  OBVIOUS
<1>3. PICK v : v = RemoveAt(W[line], k)
  OBVIOUS
<1>4. PICK level : level = LevelFor(c.pool, line[2], v)
  OBVIOUS
<1>5. /\ NodeFreed(b, c, n, ref, W[line], k)
      /\ LevelDropped(b, c, line[1], at,
           UnlinkedLevel(LevelFor(b.pool, line[2], W[line]), b.pool[n]))
  BY <1>2, DiscardParts
<1>6. /\ QueueOK(c, line, v)
      /\ Shown(c.pool, v) = RemoveAt(Shown(b.pool, W[line]), k)
      /\ level = UnlinkedLevel(LevelFor(b.pool, line[2], W[line]), b.pool[n])
  BY <1>3, <1>4, <1>5, DiscardQueue
<1>7. ASSUME NEW l \in Line, l # line
      PROVE  QueueOK(c, l, W[l]) /\ Shown(c.pool, W[l]) = Shown(b.pool, W[l])
  BY <1>5, <1>7, DiscardOthers
<1>8. DOMAIN V = Line /\ V[line] = v /\ \A l \in Line : l # line => V[l] = W[l]
  BY <1>1, <1>3, PartedIs
<1>9. QueuesOK(c, V)
  BY <1>6, <1>7, <1>8 DEF QueuesOK
<1>10. IndexOK(c, V)
  BY <1>5, DiscardIndex
<1>11. PICK G : G = <<n>> \o F
  OBVIOUS
<1>12. FreeOK(c, G) /\ CoverOK(c, G, {})
  BY <1>5, <1>11, DiscardFree
<1>13. LaddersOK(c, V)
  <2>1. level = LevelFor(c.pool, line[2], RemoveAt(W[line], k))
    BY <1>3, <1>4
  <2>2. LevelDropped(b, c, line[1], at, level)
    BY <1>5, <1>6
  <2> QED
    BY <1>2, <1>5, <2>1, <2>2, DiscardLadders
<1>14. WellTyped(c)
  BY <1>5 DEF NodeFreed
<1>15. Represents(c, V, G, {})
  BY <1>8, <1>9, <1>10, <1>12, <1>13, <1>14 DEF Represents
<1>16. \A l \in Line : Shown(c.pool, V[l]) =
         IF l = line THEN RemoveAt(Shown(b.pool, W[l]), k) ELSE Shown(b.pool, W[l])
  BY <1>6, <1>7, <1>8
<1> QED
  BY <1>15, <1>16

\* An order that the index finds has a place.
LEMMA FindsPlace ==
  ASSUME NEW b, NEW W, NEW F, Represents(b, W, F, {}), NEW ref \in Ref, b.index[ref] # NIL
  PROVE  \E line \in Line : \E k \in 1 .. Len(W[line]) :
           RestsAt(b, W, F, ref, b.index[ref], line, k)
<1>1. PICK line \in Line : \E k \in 1 .. Len(W[line]) : W[line][k] = b.index[ref]
  BY DEF Represents, IndexOK
<1>2. PICK k \in 1 .. Len(W[line]) : W[line][k] = b.index[ref]
  BY <1>1
<1> QED
  BY <1>2 DEF RestsAt

\* Taking an order away lets the ones behind it move up, and changes no other line.
LEMMA DiscardEffect ==
  ASSUME NEW b, Sound(b), NEW ref \in Ref, b.index[ref] # NIL
  PROVE  /\ Sound(Discard(b, ref))
         /\ queues(Discard(b, ref)) = Deleted(queues(b), ref)
<1>1. PICK W, F : Represents(b, W, F, {})
  BY DEF Sound
<1>2. PICK q : q = queues(b)
  OBVIOUS
<1>3. PICK n : n = b.index[ref]
  OBVIOUS
<1>4. PICK line \in Line : \E k \in 1 .. Len(W[line]) : RestsAt(b, W, F, ref, n, line, k)
  BY <1>1, <1>3, FindsPlace
<1>5. PICK k \in 1 .. Len(W[line]) : RestsAt(b, W, F, ref, n, line, k)
  BY <1>4
<1>6. PICK c : c = Discard(b, ref)
  OBVIOUS
<1>7. PICK V : V = Parted(W, line, k)
  OBVIOUS
<1>8. PICK G : Represents(c, V, G, {})
  BY <1>5, <1>6, <1>7, DiscardSound
<1>9. \A l \in Line : Shown(c.pool, V[l]) =
        IF l = line THEN RemoveAt(Shown(b.pool, W[l]), k) ELSE Shown(b.pool, W[l])
  BY <1>5, <1>6, <1>7, DiscardSound
<1>10. q = [l \in Line |-> Shown(b.pool, W[l])]
  BY <1>1, <1>2, QueuesShow
<1>11. PICK d : d = queues(c)
  OBVIOUS
<1>12. d = [l \in Line |-> Shown(c.pool, V[l])]
  BY <1>8, <1>11, QueuesShow
<1>13. W[line][k] = b.index[ref]
  BY <1>3, <1>5 DEF RestsAt
<1>14. Rests(q, ref)
  BY <1>1, <1>2, FindsResting
<1>15. LineOf(q, ref) = line /\ PlaceOf(q[line], ref) = k
  BY <1>1, <1>2, <1>13, FindsResting
<1>16. \A l \in Line : d[l] = IF l = line THEN RemoveAt(q[l], k) ELSE q[l]
  BY <1>9, <1>10, <1>12
<1>17. Deleted(q, ref) = [q EXCEPT ![line] = RemoveAt(q[line], k)]
  BY <1>14, <1>15 DEF Deleted
<1>18. PICK e : e = [q EXCEPT ![line] = RemoveAt(q[line], k)]
  OBVIOUS
<1>19. e = [l \in Line |-> IF l = line THEN RemoveAt(q[l], k) ELSE q[l]]
  BY <1>10, <1>18
<1>20. d = e
  BY <1>12, <1>16, <1>19
<1> QED
  BY <1>2, <1>6, <1>8, <1>11, <1>17, <1>18, <1>20 DEF Sound

\* delete_order takes the order away, if it rests.
LEMMA DeleteSound ==
  ASSUME NEW b, Sound(b), NEW ref \in Ref
  PROVE  /\ Sound(delete_order(b, ref))
         /\ queues(delete_order(b, ref)) = Deleted(queues(b), ref)
<1>1. PICK W, F : Represents(b, W, F, {})
  BY DEF Sound
<1>2. Rests(queues(b), ref) <=> b.index[ref] # NIL
  BY <1>1, FindsResting
<1>3. CASE b.index[ref] = NIL
  BY <1>2, <1>3 DEF delete_order, Deleted
<1>4. CASE b.index[ref] # NIL
  BY <1>4, DiscardEffect DEF delete_order
<1> QED
  BY <1>3, <1>4

-----------------------------------------------------------------------------

\* A level with fewer shares.
LessShares(level, removed) == [level EXCEPT !.total_shares = level.total_shares - removed]

\* c is b with fewer shares in node n.
NodeShrunk(b, c, n, removed) ==
  /\ WellTyped(c) /\ Len(c.pool) = Len(b.pool)
  /\ c.free_head = b.free_head /\ c.index = b.index
  /\ \A y \in 1 .. Len(b.pool) :
       /\ c.pool[y].next = b.pool[y].next /\ c.pool[y].prev = b.pool[y].prev
       /\ c.pool[y].side = b.pool[y].side /\ c.pool[y].price = b.pool[y].price
       /\ c.pool[y].reference_number = b.pool[y].reference_number
       /\ y # n => c.pool[y] = b.pool[y]
  /\ c.pool[n].shares = b.pool[n].shares - removed

\* c's ladders are b's with fewer shares in one level.
LevelShrunk(b, c, side, at, removed) ==
  /\ c.levels[side] = [b.levels[side] EXCEPT ![at] = LessShares(b.levels[side][at], removed)]
  /\ \A s \in Side : s # side => c.levels[s] = b.levels[s]

\* ShrinkOrder takes the same shares from the node and from its level.
LEMMA ShrinkParts ==
  ASSUME NEW b, NEW W, NEW F, NEW ref, NEW n, NEW line, NEW k,
         RestsAt(b, W, F, ref, n, line, k),
         NEW removed \in Nat, removed <= b.pool[n].shares,
         NEW c, c = ShrinkOrder(b, ref, removed),
         NEW at, at = find_level(b.levels[line[1]], line[1], line[2])
  PROVE  NodeShrunk(b, c, n, removed) /\ LevelShrunk(b, c, line[1], at, removed)
<1>1. PICK N : N = Len(b.pool)
  OBVIOUS
<1>2. PICK side, price : side = line[1] /\ price = line[2]
  OBVIOUS
<1>3. /\ WellTyped(b) /\ N \in Nat /\ n \in 1 .. N /\ side \in Side /\ price \in Price
      /\ line = <<side, price>> /\ W[line] # << >>
      /\ b.pool[n].side = side /\ b.pool[n].price = price
  BY <1>1, <1>2, RestingNode
<1>4. ref \in Ref /\ n = b.index[ref] /\ n # NIL /\ Represents(b, W, F, {})
  BY DEF RestsAt
<1>5. /\ b.pool \in Seq(OrderNode(N)) /\ b.levels \in [Side -> Seq(Level(N))]
      /\ b = [pool |-> b.pool, free_head |-> b.free_head,
              levels |-> b.levels, index |-> b.index]
  BY <1>1, <1>3, Unpack
<1>6. WellTyped(c)
  BY <1>3, <1>4, ShrinkType
<1>7. PICK ladder : ladder = b.levels[side]
  OBVIOUS
<1>8. at # NIL /\ at \in 1 .. Len(ladder)
  <2>1. W[<<side, price>>] # << >> /\ at = find_level(b.levels[side], side, price)
    BY <1>2, <1>3
  <2> QED
    BY <1>3, <1>4, <1>7, <2>1, FindsLevel
<1>9. PICK node : node = b.pool[n]
  OBVIOUS
<1>10. PICK pool : pool = [b.pool EXCEPT ![n].shares = @ - removed]
  OBVIOUS
<1>11. PICK rest : rest = [ladder EXCEPT ![at].total_shares = @ - removed]
  OBVIOUS
<1>12. PICK levels : levels = [b.levels EXCEPT ![side] = rest]
  OBVIOUS
<1>13. PICK shrunk : shrunk = [b EXCEPT !.pool = pool]
  OBVIOUS
<1>14. c = [shrunk EXCEPT !.levels = levels]
  <2>1. at = find_level(b.levels[side], side, price)
    BY <1>2
  <2>2. ShrinkOrder(b, ref, removed) =
          IF find_level(b.levels[b.pool[n].side], b.pool[n].side, b.pool[n].price) = NIL
          THEN [b EXCEPT !.pool = [b.pool EXCEPT ![n].shares = @ - removed]]
          ELSE [[b EXCEPT !.pool = [b.pool EXCEPT ![n].shares = @ - removed]] EXCEPT !.levels =
                 [b.levels EXCEPT ![b.pool[n].side] =
                   [b.levels[b.pool[n].side] EXCEPT
                      ![find_level(b.levels[b.pool[n].side], b.pool[n].side, b.pool[n].price)]
                        .total_shares = @ - removed]]]
    BY <1>4 DEF ShrinkOrder
  <2> QED
    BY <1>3, <1>7, <1>8, <1>10, <1>11, <1>12, <1>13, <2>1, <2>2
<1>15. shrunk = [pool |-> pool, free_head |-> b.free_head, levels |-> b.levels, index |-> b.index]
  BY <1>5, <1>13
<1>16. c = [pool |-> pool, free_head |-> b.free_head, levels |-> levels, index |-> b.index]
  BY <1>14, <1>15
<1>17. c.pool = pool /\ c.free_head = b.free_head /\ c.levels = levels /\ c.index = b.index
  BY <1>16
<1>18. DOMAIN b.pool = 1 .. N /\ node \in OrderNode(N)
  BY <1>1, <1>3, <1>5, <1>9, LenProperties, ElementOfSeq
<1>19. PICK less : less = [node EXCEPT !.shares = @ - removed]
  OBVIOUS
<1>20. pool = [b.pool EXCEPT ![n] = less]
  BY <1>3, <1>9, <1>10, <1>18, <1>19
<1>21. /\ less.next = node.next /\ less.prev = node.prev /\ less.side = node.side
       /\ less.price = node.price /\ less.reference_number = node.reference_number
       /\ less.shares = node.shares - removed
  BY <1>18, <1>19 DEF OrderNode
<1>22. Len(pool) = N /\ pool[n] = less /\ \A y \in 1 .. N : y # n => pool[y] = b.pool[y]
  BY <1>1, <1>3, <1>5, <1>18, <1>20
<1>23. NodeShrunk(b, c, n, removed)
  <2>1. ASSUME NEW y \in 1 .. N
        PROVE  /\ pool[y].next = b.pool[y].next /\ pool[y].prev = b.pool[y].prev
               /\ pool[y].side = b.pool[y].side /\ pool[y].price = b.pool[y].price
               /\ pool[y].reference_number = b.pool[y].reference_number
               /\ y # n => pool[y] = b.pool[y]
    <3>1. CASE y = n
      BY <1>9, <1>21, <1>22, <3>1
    <3>2. CASE y # n
      BY <1>22, <3>2
    <3> QED
      BY <3>1, <3>2
  <2> QED
    BY <1>1, <1>6, <1>9, <1>17, <1>21, <1>22, <2>1 DEF NodeShrunk
<1>24. LevelShrunk(b, c, side, at, removed)
  <2>1. ladder \in Seq(Level(N))
    BY <1>3, <1>5, <1>7
  <2>2. rest = [ladder EXCEPT ![at] = LessShares(ladder[at], removed)]
    BY <1>8, <1>11, <2>1 DEF LessShares
  <2>3. levels[side] = rest /\ \A s \in Side : s # side => levels[s] = b.levels[s]
    BY <1>3, <1>5, <1>12
  <2> QED
    BY <1>7, <1>17, <2>2, <2>3 DEF LevelShrunk
<1> QED
  BY <1>2, <1>23, <1>24

\* An order that stays keeps its place and shows what is left of it; nothing else changes.
LEMMA ShrinkQueues ==
  ASSUME NEW b, NEW W, NEW F, NEW ref, NEW n, NEW line, NEW k,
         RestsAt(b, W, F, ref, n, line, k),
         NEW removed \in Nat, NEW c, NodeShrunk(b, c, n, removed)
  PROVE  /\ QueuesOK(c, W) /\ IndexOK(c, W) /\ FreeOK(c, F) /\ CoverOK(c, F, {})
         /\ \A l \in Line : l # line => Shown(c.pool, W[l]) = Shown(b.pool, W[l])
         /\ \A i \in 1 .. Len(W[line]) :
              OrderView(c.pool[W[line][i]]) =
                IF i = k THEN Order(ref, b.pool[n].shares - removed)
                         ELSE OrderView(b.pool[W[line][i]])
<1>1. PICK N : N = Len(b.pool)
  OBVIOUS
<1>2. /\ WellTyped(b) /\ QueuesOK(b, W) /\ IndexOK(b, W) /\ FreeOK(b, F) /\ CoverOK(b, F, {})
      /\ line \in Line /\ k \in 1 .. Len(W[line]) /\ W[line][k] = n /\ ref \in Ref
  BY DEF RestsAt, Represents
<1>3. N \in Nat /\ b.index \in [Ref -> 0 .. N] /\ c.index = b.index /\ Len(c.pool) = N
  BY <1>1, <1>2, Unpack DEF NodeShrunk
<1>4. \A y \in 1 .. N :
        /\ c.pool[y].next = b.pool[y].next /\ c.pool[y].prev = b.pool[y].prev
        /\ c.pool[y].side = b.pool[y].side /\ c.pool[y].price = b.pool[y].price
        /\ c.pool[y].reference_number = b.pool[y].reference_number
        /\ y # n => c.pool[y] = b.pool[y]
  BY <1>1 DEF NodeShrunk
<1>5. ASSUME NEW l \in Line PROVE QueueOK(c, l, W[l])
  <2>1. PICK w : w = W[l]
    OBVIOUS
  <2>2. QueueOK(b, l, w)
    BY <1>2, <2>1 DEF QueuesOK
  <2>3. NodeList(w, N)
    BY <1>1, <2>2 DEF QueueOK
  <2>4. ASSUME NEW i \in 1 .. Len(w)
        PROVE  /\ c.pool[w[i]].next = Node(w, i + 1) /\ c.pool[w[i]].prev = Node(w, i - 1)
               /\ c.pool[w[i]].side = l[1] /\ c.pool[w[i]].price = l[2]
               /\ c.pool[w[i]].reference_number \in Ref
               /\ c.index[c.pool[w[i]].reference_number] = w[i]
    <3>1. PICK y : y = w[i]
      OBVIOUS
    <3>2. y \in 1 .. N
      BY <2>3, <3>1, ListParts
    <3>3. /\ b.pool[y].next = Node(w, i + 1) /\ b.pool[y].prev = Node(w, i - 1)
          /\ b.pool[y].side = l[1] /\ b.pool[y].price = l[2]
          /\ b.pool[y].reference_number \in Ref
          /\ b.index[b.pool[y].reference_number] = y
      BY <2>2, <3>1 DEF QueueOK
    <3> QED
      BY <1>3, <1>4, <3>1, <3>2, <3>3
  <2> QED
    BY <1>3, <2>1, <2>3, <2>4 DEF QueueOK
<1>6. QueuesOK(c, W)
  BY <1>5 DEF QueuesOK
<1>7. IndexOK(c, W)
  <2> SUFFICES ASSUME NEW r \in Ref, c.index[r] # NIL
               PROVE  /\ c.pool[c.index[r]].reference_number = r
                      /\ \E l \in Line : \E i \in 1 .. Len(W[l]) : W[l][i] = c.index[r]
    BY DEF IndexOK
  <2>1. PICK y : y = b.index[r]
    OBVIOUS
  <2>2. c.index[r] = y /\ y # NIL /\ y \in 0 .. N
    BY <1>3, <2>1
  <2>3. y \in 1 .. N
    BY <1>3, <2>2 DEF NIL
  <2>4. /\ b.pool[y].reference_number = r
        /\ \E l \in Line : \E i \in 1 .. Len(W[l]) : W[l][i] = y
    BY <1>2, <2>1, <2>2 DEF IndexOK
  <2> QED
    BY <1>4, <2>2, <2>3, <2>4
<1>8. FreeOK(c, F)
  <2>1. \A j \in 1 .. Len(F) : F[j] \in 1 .. N
    BY <1>1, <1>2, ListParts DEF FreeOK
  <2>2. \A j \in 1 .. Len(F) : /\ c.pool[F[j]].next = b.pool[F[j]].next
                               /\ \A r \in Ref : c.index[r] # F[j]
    BY <1>2, <1>3, <1>4, <2>1 DEF FreeOK
  <2> QED
    BY <1>1, <1>2, <1>3, <2>2, FreeFrame DEF NodeShrunk
<1>9. CoverOK(c, F, {})
  BY <1>1, <1>2, <1>3 DEF CoverOK
<1>10. ASSUME NEW l \in Line, l # line PROVE Shown(c.pool, W[l]) = Shown(b.pool, W[l])
  <2>1. PICK w : w = W[l]
    OBVIOUS
  <2>2. QueueOK(b, l, w)
    BY <1>2, <2>1 DEF QueuesOK
  <2>3. \A i \in 1 .. Len(w) : w[i] \in 1 .. N
    BY <1>1, <2>2, ListParts DEF QueueOK
  <2>4. \A i \in 1 .. Len(w) : w[i] # n
    BY <1>2, <1>10, <2>1, OnePlace
  <2>5. \A i \in 1 .. Len(w) : c.pool[w[i]] = b.pool[w[i]]
    BY <1>4, <2>3, <2>4
  <2> QED
    BY <2>1, <2>5 DEF Shown
<1>11. ASSUME NEW i \in 1 .. Len(W[line])
       PROVE  OrderView(c.pool[W[line][i]]) =
                IF i = k THEN Order(ref, b.pool[n].shares - removed)
                         ELSE OrderView(b.pool[W[line][i]])
  <2>1. PICK w : w = W[line]
    OBVIOUS
  <2>2. NodeList(w, N) /\ i \in 1 .. Len(w) /\ k \in 1 .. Len(w) /\ w[k] = n
    BY <1>1, <1>2, <2>1, RestingNode
  <2>3. w[i] \in 1 .. N /\ (i # k => w[i] # n)
    BY <2>2, ListParts
  <2>4. CASE i # k
    BY <1>4, <2>1, <2>3, <2>4
  <2>5. CASE i = k
    <3>1. n \in 1 .. N /\ b.pool[n].reference_number = ref
      BY <1>1, RestingNode
    <3>2. c.pool[n].reference_number = ref /\ c.pool[n].shares = b.pool[n].shares - removed
      BY <1>4, <3>1 DEF NodeShrunk
    <3> QED
      BY <2>1, <2>2, <2>5, <3>2 DEF OrderView, Order
  <2> QED
    BY <2>4, <2>5
<1> QED
  BY <1>6, <1>7, <1>8, <1>9, <1>10, <1>11

\* A queue whose k-th order has other shares.
Resized(orders, k, ref, left) == [orders EXCEPT ![k] = Order(ref, left)]

\* The level that loses the shares is the level of the line.
LEMMA ShrinkLevel ==
  ASSUME NEW b, NEW W, NEW F, NEW ref, NEW n, NEW line, NEW k,
         RestsAt(b, W, F, ref, n, line, k),
         NEW removed \in Nat, removed <= b.pool[n].shares,
         NEW c, NodeShrunk(b, c, n, removed)
  PROVE  /\ LessShares(LevelFor(b.pool, line[2], W[line]), removed) =
              LevelFor(c.pool, line[2], W[line])
         /\ Shown(c.pool, W[line]) =
              Resized(Shown(b.pool, W[line]), k, ref, b.pool[n].shares - removed)
<1>1. PICK w : w = W[line]
  OBVIOUS
<1>2. PICK price : price = line[2]
  OBVIOUS
<1>3. WellTyped(b) /\ QueueOK(b, line, w) /\ Len(w) \in Nat /\ k \in 1 .. Len(w) /\ w[k] = n
  <2>1. WellTyped(b) /\ QueueOK(b, line, w) /\ Len(w) \in Nat
    BY <1>1, RestingNode
  <2>2. k \in 1 .. Len(w) /\ w[k] = n
    BY <1>1 DEF RestsAt
  <2> QED
    BY <2>1, <2>2
<1>4. PICK x : x = Shown(b.pool, w)
  OBVIOUS
<1>5. PICK y : y = Shown(c.pool, w)
  OBVIOUS
<1>6. /\ Countable(x) /\ Len(x) = Len(w)
      /\ \A i \in 1 .. Len(w) : /\ x[i] = OrderView(b.pool[w[i]])
                                /\ x[i].shares = b.pool[w[i]].shares
                                /\ b.pool[w[i]].shares \in Nat
  BY <1>3, <1>4, ShownCountable
<1>7. PICK left : left = b.pool[n].shares - removed
  OBVIOUS
<1>8. \A i \in 1 .. Len(w) : OrderView(c.pool[w[i]]) =
        IF i = k THEN Order(ref, left) ELSE OrderView(b.pool[w[i]])
  BY <1>1, <1>7, ShrinkQueues
<1>9. /\ Len(y) = Len(w) /\ DOMAIN y = 1 .. Len(w)
      /\ \A i \in 1 .. Len(w) : y[i] = IF i = k THEN Order(ref, left) ELSE x[i]
  BY <1>3, <1>5, <1>6, <1>8 DEF Shown
<1>10. b.pool[n].shares \in Nat /\ left \in Int /\ x[k].shares = b.pool[n].shares
  BY <1>3, <1>6, <1>7
<1>11. y[k].shares = left
  BY <1>3, <1>9 DEF Order
<1>12. Countable(y)
  <2>1. ASSUME NEW i \in 1 .. Len(w) PROVE y[i].shares \in Int
    <3>1. CASE i = k
      BY <1>10, <1>11, <3>1
    <3>2. CASE i # k
      <4>1. y[i] = x[i] /\ x[i].shares \in Nat
        BY <1>6, <1>9, <3>2
      <4> QED
        BY <4>1
    <3> QED
      BY <3>1, <3>2
  <2> QED
    BY <1>3, <1>9, <2>1 DEF Countable
<1>13. SharesOf(y) = SharesOf(x) - x[k].shares + y[k].shares
  <2>1. \A i \in 1 .. Len(y) : i # k => y[i].shares = x[i].shares
    BY <1>9
  <2>2. Len(x) = Len(y) /\ k \in 1 .. Len(x)
    BY <1>3, <1>6, <1>9
  <2> QED
    BY <1>6, <1>12, <2>1, <2>2, SharesOfShrink
<1>14. SharesOf(x) \in Int
  BY <1>6, SumsType DEF SharesOf, Countable
<1>15. SharesOf(y) = SharesOf(x) - removed
  BY <1>7, <1>10, <1>11, <1>13, <1>14
<1>16. LessShares(LevelFor(b.pool, price, w), removed) = LevelFor(c.pool, price, w)
  <2>1. PICK old : old = LevelFor(b.pool, price, w)
    OBVIOUS
  <2>2. old = [price |-> price, total_shares |-> SharesOf(x), order_count |-> Len(w),
               head |-> Node(w, 1), tail |-> Node(w, Len(w))]
    BY <1>4, <2>1 DEF LevelFor
  <2>3. LessShares(old, removed) =
          [price |-> price, total_shares |-> SharesOf(x) - removed, order_count |-> Len(w),
           head |-> Node(w, 1), tail |-> Node(w, Len(w))]
    BY <2>2 DEF LessShares
  <2> QED
    BY <1>5, <1>15, <2>1, <2>3 DEF LevelFor
<1>17. y = Resized(x, k, ref, left)
  <2>1. x = [i \in 1 .. Len(w) |-> OrderView(b.pool[w[i]])]
    BY <1>4 DEF Shown
  <2>2. y = [i \in 1 .. Len(w) |-> OrderView(c.pool[w[i]])]
    BY <1>5 DEF Shown
  <2> QED
    BY <1>8, <2>1, <2>2 DEF Resized
<1> QED
  BY <1>1, <1>2, <1>4, <1>5, <1>7, <1>16, <1>17

\* The ladders of a book whose order has shrunk.
LEMMA ShrinkLadders ==
  ASSUME NEW b, NEW W, NEW F, NEW ref, NEW n, NEW line, NEW k,
         RestsAt(b, W, F, ref, n, line, k),
         NEW removed \in Nat, removed <= b.pool[n].shares,
         NEW c, NodeShrunk(b, c, n, removed),
         NEW at, at = find_level(b.levels[line[1]], line[1], line[2]),
         LevelShrunk(b, c, line[1], at, removed)
  PROVE  LaddersOK(c, W)
<1>1. PICK side, price : side = line[1] /\ price = line[2]
  OBVIOUS
<1>2. PICK N : N = Len(b.pool)
  OBVIOUS
<1>3. Represents(b, W, F, {}) /\ LaddersOK(b, W) /\ WellTyped(b)
  BY DEF RestsAt, Represents
<1>4. side \in Side /\ price \in Price /\ line = <<side, price>> /\ W[line] # << >>
  BY <1>1, RestingNode
<1>5. \A l \in Line : l # line => Shown(c.pool, W[l]) = Shown(b.pool, W[l])
  BY ShrinkQueues
<1>6. ASSUME NEW s \in Side, NEW p \in Price, ~ (s = side /\ p = price)
      PROVE  LevelFor(c.pool, p, W[<<s, p>>]) = LevelFor(b.pool, p, W[<<s, p>>])
  <2>1. PICK l : l = <<s, p>>
    OBVIOUS
  <2>2. l \in Line /\ l # line
    BY <1>4, <1>6, <2>1 DEF Line
  <2>3. Shown(c.pool, W[l]) = Shown(b.pool, W[l])
    BY <1>5, <2>2
  <2> QED
    BY <2>1, <2>3 DEF LevelFor
<1>7. ASSUME NEW s \in Side, s # side
      PROVE  IsLadder(c.levels[s], s, HeldBy(W, s), LevelsFor(c.pool, W, s))
  <2>1. \A p \in HeldBy(W, s) : LevelsFor(c.pool, W, s)[p] = LevelsFor(b.pool, W, s)[p]
    BY <1>6, <1>7 DEF LevelsFor, HeldBy
  <2>2. IsLadder(b.levels[s], s, HeldBy(W, s), LevelsFor(b.pool, W, s))
    BY <1>3 DEF LaddersOK
  <2>3. c.levels[s] = b.levels[s]
    BY <1>1, <1>7 DEF LevelShrunk
  <2> QED
    BY <2>1, <2>2, <2>3, LadderFrame
<1>8. PICK ladder : ladder = b.levels[side]
  OBVIOUS
<1>9. PICK H : H = HeldBy(W, side)
  OBVIOUS
<1>10. PICK lv : lv = LevelsFor(b.pool, W, side)
  OBVIOUS
<1>11. PICK new : new = LevelsFor(c.pool, W, side)
  OBVIOUS
<1>12. ladder \in Seq(Level(N)) /\ IsLadder(ladder, side, H, lv)
  BY <1>2, <1>3, <1>4, <1>8, <1>9, <1>10, Unpack DEF LaddersOK
<1>13. /\ at \in 1 .. Len(ladder) /\ ladder[at].price = price
       /\ ladder[at] = LevelFor(b.pool, price, W[line])
  <2>1. W[<<side, price>>] # << >> /\ at = find_level(b.levels[side], side, price)
    BY <1>1, <1>4
  <2> QED
    BY <1>3, <1>4, <1>8, <2>1, FindsLevel
<1>14. \A p \in H \ {price} : new[p] = lv[p]
  BY <1>4, <1>6, <1>9, <1>10, <1>11 DEF LevelsFor, HeldBy
<1>15. PICK level : level = LessShares(ladder[at], removed)
  OBVIOUS
<1>16. level = LevelFor(c.pool, price, W[line])
  <2>1. LessShares(LevelFor(b.pool, line[2], W[line]), removed) =
          LevelFor(c.pool, line[2], W[line])
    BY ShrinkLevel
  <2> QED
    BY <1>1, <1>13, <1>15, <2>1
<1>17. new[price] = level /\ level.price = price
  <2>1. new[price] = LevelFor(c.pool, price, W[<<side, price>>])
    BY <1>4, <1>11 DEF LevelsFor
  <2>2. level.price = price
    BY <1>16 DEF LevelFor
  <2> QED
    BY <1>4, <1>16, <2>1, <2>2
<1>18. c.levels[side] = [ladder EXCEPT ![at] = level]
  BY <1>1, <1>8, <1>15 DEF LevelShrunk
<1>19. IsLadder(c.levels[side], side, H, new)
  <2>1. /\ level.price = ladder[at].price /\ new[level.price] = level
        /\ \A p \in H \ {level.price} : new[p] = lv[p]
    BY <1>13, <1>14, <1>17
  <2>2. IsLadder([ladder EXCEPT ![at] = level], side, H, new)
    BY <1>12, <1>13, <2>1, LadderUpdate
  <2> QED
    BY <1>18, <2>2
<1> QED
  BY <1>7, <1>9, <1>11, <1>19 DEF LaddersOK

\* A partial fill leaves the order its place and the rest of its shares.
LEMMA ShrinkEffect ==
  ASSUME NEW b, Sound(b), NEW ref \in Ref, b.index[ref] # NIL,
         NEW removed \in Nat, removed < b.pool[b.index[ref]].shares
  PROVE  /\ Sound(ShrinkOrder(b, ref, removed))
         /\ queues(ShrinkOrder(b, ref, removed)) = Filled(queues(b), ref, removed)
<1>1. PICK W, F : Represents(b, W, F, {})
  BY DEF Sound
<1>2. PICK q : q = queues(b)
  OBVIOUS
<1>3. PICK n : n = b.index[ref]
  OBVIOUS
<1>4. PICK line \in Line : \E k \in 1 .. Len(W[line]) : RestsAt(b, W, F, ref, n, line, k)
  BY <1>1, <1>3, FindsPlace
<1>5. PICK k \in 1 .. Len(W[line]) : RestsAt(b, W, F, ref, n, line, k)
  BY <1>4
<1>6. PICK c : c = ShrinkOrder(b, ref, removed)
  OBVIOUS
<1>7. PICK left : left = b.pool[n].shares - removed
  OBVIOUS
<1>8. b.pool[n].shares \in Nat /\ removed < b.pool[n].shares
  <2>1. n \in 1 .. Len(b.pool) /\ WellTyped(b)
    BY <1>5, RestingNode
  <2>2. b.pool[n] \in OrderNode(Len(b.pool))
    BY <2>1, Unpack, ElementOfSeq
  <2>3. b.pool[n].shares \in Shares
    BY <2>2 DEF OrderNode
  <2> QED
    BY <1>3, <2>3, SharesAssumption DEF Shares
<1>9. removed <= b.pool[n].shares /\ left # 0 /\ left = b.pool[n].shares - removed
  BY <1>7, <1>8
<1>10. PICK at : at = find_level(b.levels[line[1]], line[1], line[2])
  OBVIOUS
<1>11. NodeShrunk(b, c, n, removed) /\ LevelShrunk(b, c, line[1], at, removed)
  BY <1>5, <1>6, <1>9, <1>10, ShrinkParts
<1>12. Represents(c, W, F, {})
  <2>1. QueuesOK(c, W) /\ IndexOK(c, W) /\ FreeOK(c, F) /\ CoverOK(c, F, {})
    BY <1>5, <1>11, ShrinkQueues
  <2>2. LaddersOK(c, W)
    BY <1>5, <1>9, <1>10, <1>11, ShrinkLadders
  <2>3. WellTyped(c) /\ DOMAIN W = Line
    BY <1>1, <1>11 DEF NodeShrunk, Represents
  <2> QED
    BY <2>1, <2>2, <2>3 DEF Represents
<1>13. q = [l \in Line |-> Shown(b.pool, W[l])]
  BY <1>1, <1>2, QueuesShow
<1>14. PICK d : d = queues(c)
  OBVIOUS
<1>15. d = [l \in Line |-> Shown(c.pool, W[l])]
  BY <1>12, <1>14, QueuesShow
<1>16. \A l \in Line : l # line => Shown(c.pool, W[l]) = Shown(b.pool, W[l])
  BY <1>5, <1>11, ShrinkQueues
<1>17. Shown(c.pool, W[line]) = Resized(Shown(b.pool, W[line]), k, ref, left)
  BY <1>5, <1>7, <1>9, <1>11, ShrinkLevel
<1>18. W[line][k] = b.index[ref]
  BY <1>3, <1>5 DEF RestsAt
<1>19. Rests(q, ref)
  BY <1>1, <1>2, FindsResting
<1>20. /\ LineOf(q, ref) = line /\ PlaceOf(q[line], ref) = k
       /\ q[line][k] = OrderView(b.pool[b.index[ref]])
  BY <1>1, <1>2, <1>18, FindsResting
<1>21. Left(q[line][k], removed) = left
  <2>1. q[line][k].shares = b.pool[n].shares
    BY <1>3, <1>20 DEF OrderView
  <2> QED
    BY <1>7, <1>8, <2>1 DEF Left
<1>22. PICK orders : orders = [q[line] EXCEPT ![k] = Order(ref, left)]
  OBVIOUS
<1>23. Filled(q, ref, removed) = [q EXCEPT ![line][k] = Order(ref, left)]
  BY <1>9, <1>19, <1>20, <1>21 DEF Filled
<1>24. [q EXCEPT ![line][k] = Order(ref, left)] = [q EXCEPT ![line] = orders]
  BY <1>13, <1>22
<1>25. \A l \in Line : d[l] = IF l = line THEN orders ELSE q[l]
  BY <1>13, <1>15, <1>16, <1>17, <1>22 DEF Resized
<1>26. d = [q EXCEPT ![line] = orders]
  BY <1>13, <1>15, <1>25
<1> QED
  BY <1>2, <1>6, <1>12, <1>14, <1>23, <1>24, <1>26 DEF Sound

\* Executions and partial cancels take the shares there are, and the order with the last.
LEMMA ExecuteSound ==
  ASSUME NEW b, Sound(b), NEW ref \in Ref, NEW shares \in Shares
  PROVE  /\ Sound(execute_order(b, ref, shares))
         /\ queues(execute_order(b, ref, shares)) = Filled(queues(b), ref, shares)
<1>1. PICK W, F : Represents(b, W, F, {})
  BY DEF Sound
<1>2. PICK q : q = queues(b)
  OBVIOUS
<1>3. Rests(q, ref) <=> b.index[ref] # NIL
  BY <1>1, <1>2, FindsResting
<1>4. CASE b.index[ref] = NIL
  BY <1>2, <1>3, <1>4 DEF execute_order, Filled
<1>5. CASE b.index[ref] # NIL
  <2>1. PICK n : n = b.index[ref]
    OBVIOUS
  <2>2. PICK line \in Line : \E k \in 1 .. Len(W[line]) : RestsAt(b, W, F, ref, n, line, k)
    BY <1>1, <1>5, <2>1, FindsPlace
  <2>3. PICK k \in 1 .. Len(W[line]) : RestsAt(b, W, F, ref, n, line, k)
    BY <2>2
  <2>4. b.pool[n].shares \in Nat
    <3>1. n \in 1 .. Len(b.pool) /\ WellTyped(b)
      BY <2>3, RestingNode
    <3>2. b.pool[n] \in OrderNode(Len(b.pool))
      BY <3>1, Unpack, ElementOfSeq
    <3>3. b.pool[n].shares \in Shares
      BY <3>2 DEF OrderNode
    <3> QED
      BY <3>3, SharesAssumption DEF Shares
  <2>5. shares \in Nat
    BY SharesAssumption DEF Shares
  <2>6. /\ LineOf(q, ref) = line /\ PlaceOf(q[line], ref) = k
        /\ q[line][k] = OrderView(b.pool[b.index[ref]])
    <3>1. W[line][k] = b.index[ref]
      BY <2>1, <2>3 DEF RestsAt
    <3> QED
      BY <1>1, <1>2, <3>1, FindsResting
  <2>7. q[line][k].shares = b.pool[n].shares
    BY <2>1, <2>6 DEF OrderView
  <2>8. Filled(q, ref, shares) =
          IF Left(q[line][k], shares) = 0 THEN Deleted(q, ref)
          ELSE [q EXCEPT ![line][k] = Order(ref, Left(q[line][k], shares))]
    BY <1>3, <1>5, <2>6 DEF Filled
  <2>9. execute_order(b, ref, shares) =
          IF Removed(b, ref, shares) = b.pool[n].shares THEN Discard(b, ref)
          ELSE ShrinkOrder(b, ref, Removed(b, ref, shares))
    BY <1>5, <2>1 DEF execute_order
  <2>10. Removed(b, ref, shares) = IF shares < b.pool[n].shares THEN shares ELSE b.pool[n].shares
    BY <1>5, <2>1 DEF Removed
  <2>11. CASE shares < b.pool[n].shares
    <3>1. execute_order(b, ref, shares) = ShrinkOrder(b, ref, shares)
      BY <2>4, <2>5, <2>9, <2>10, <2>11
    <3> QED
      BY <1>5, <2>1, <2>5, <2>11, <3>1, ShrinkEffect
  <2>12. CASE ~ (shares < b.pool[n].shares)
    <3>1. execute_order(b, ref, shares) = Discard(b, ref)
      BY <2>9, <2>10, <2>12
    <3>2. Filled(q, ref, shares) = Deleted(q, ref)
      BY <2>7, <2>8, <2>12 DEF Left
    <3> QED
      BY <1>2, <1>5, <3>1, <3>2, DiscardEffect
  <2> QED
    BY <2>11, <2>12
<1> QED
  BY <1>4, <1>5

\* replace_order is a deletion and an addition on the old order's side.
LEMMA ReplaceSound ==
  ASSUME NEW b, Sound(b), NEW old \in Ref, NEW new \in Ref,
         NEW shares \in Shares, NEW price \in Price
  PROVE  /\ Sound(replace_order(b, old, new, shares, price))
         /\ queues(replace_order(b, old, new, shares, price)) =
              Replaced(queues(b), old, new, shares, price)
<1>1. PICK W, F : Represents(b, W, F, {})
  BY DEF Sound
<1>2. PICK q : q = queues(b)
  OBVIOUS
<1>3. Rests(q, old) <=> b.index[old] # NIL
  BY <1>1, <1>2, FindsResting
<1>4. CASE b.index[old] = NIL
  BY <1>2, <1>3, <1>4 DEF replace_order, Replaced
<1>5. CASE b.index[old] # NIL
  <2>1. PICK n : n = b.index[old]
    OBVIOUS
  <2>2. PICK line \in Line : \E k \in 1 .. Len(W[line]) : RestsAt(b, W, F, old, n, line, k)
    BY <1>1, <1>5, <2>1, FindsPlace
  <2>3. PICK k \in 1 .. Len(W[line]) : RestsAt(b, W, F, old, n, line, k)
    BY <2>2
  <2>4. LineOf(q, old) = line
    <3>1. W[line][k] = b.index[old]
      BY <2>1, <2>3 DEF RestsAt
    <3> QED
      BY <1>1, <1>2, <3>1, FindsResting
  <2>5. PICK side : side = b.pool[n].side
    OBVIOUS
  <2>6. side = line[1] /\ side \in Side
    BY <2>3, <2>5, RestingNode
  <2>7. PICK d : d = delete_order(b, old)
    OBVIOUS
  <2>8. Sound(d) /\ queues(d) = Deleted(q, old)
    BY <1>2, <2>7, DeleteSound
  <2>9. /\ Sound(add_order(d, new, side, shares, price))
        /\ queues(add_order(d, new, side, shares, price)) =
             Added(queues(d), new, side, shares, price)
    BY <2>6, <2>8, AddSound
  <2>10. replace_order(b, old, new, shares, price) = add_order(d, new, side, shares, price)
    BY <1>5, <2>1, <2>5, <2>7 DEF replace_order
  <2>11. Replaced(q, old, new, shares, price) = Added(queues(d), new, side, shares, price)
    BY <1>3, <1>5, <2>4, <2>6, <2>8 DEF Replaced
  <2> QED
    BY <1>2, <2>9, <2>10, <2>11
<1> QED
  BY <1>4, <1>5

\* An empty book is sound, and shows no orders.
LEMMA EmptySound == Sound(EmptyBook) /\ queues(EmptyBook) = NoOrders
<1>1. PICK b : b = EmptyBook
  OBVIOUS
<1>2. PICK W : W = [l \in Line |-> << >>]
  OBVIOUS
<1>3. /\ b.pool = << >> /\ b.free_head = 0 /\ b.levels = [s \in Side |-> << >>]
      /\ b.index = [r \in Ref |-> 0]
  BY <1>1 DEF EmptyBook, NIL
<1>4. Len(b.pool) = 0
  BY <1>3
<1>5. WellTyped(b)
  <2>1. b.pool \in Seq(OrderNode(0))
    BY <1>3
  <2>2. b.levels \in [Side -> Seq(Level(0))]
    BY <1>3
  <2>3. b.index \in [Ref -> 0 .. 0]
    BY <1>3
  <2>4. b = [pool |-> b.pool, free_head |-> b.free_head, levels |-> b.levels, index |-> b.index]
    BY <1>1 DEF EmptyBook
  <2> QED
    <3>1. b \in BookOf(0)
      <4>1. b.free_head \in 0 .. 0
        BY <1>3
      <4>2. PICK pool, head, levels, index :
              /\ pool = b.pool /\ head = b.free_head /\ levels = b.levels /\ index = b.index
        OBVIOUS
      <4>3. /\ pool \in Seq(OrderNode(0)) /\ head \in 0 .. 0
            /\ levels \in [Side -> Seq(Level(0))] /\ index \in [Ref -> 0 .. 0]
        BY <2>1, <2>2, <2>3, <4>1, <4>2
      <4>4. b = [pool |-> pool, free_head |-> head, levels |-> levels, index |-> index]
        BY <2>4, <4>2
      <4> QED
        BY <4>3, <4>4 DEF BookOf
    <3> QED
      BY <1>4, <3>1 DEF WellTyped
<1>6. NodeList(<< >>, 0)
  BY DEF NodeList
<1>7. QueuesOK(b, W)
  <2> SUFFICES ASSUME NEW l \in Line PROVE QueueOK(b, l, << >>)
    BY <1>2 DEF QueuesOK
  <2> QED
    BY <1>4, <1>6 DEF QueueOK
<1>8. IndexOK(b, W)
  BY <1>3 DEF IndexOK, NIL
<1>9. FreeOK(b, << >>)
  BY <1>3, <1>4, <1>6 DEF FreeOK, Links, Node, NIL
<1>10. CoverOK(b, << >>, {})
  BY <1>4 DEF CoverOK
<1>11. LaddersOK(b, W)
  <2> SUFFICES ASSUME NEW s \in Side
               PROVE  IsLadder(<< >>, s, HeldBy(W, s), LevelsFor(b.pool, W, s))
    BY <1>3 DEF LaddersOK
  <2>1. HeldBy(W, s) = {}
    BY <1>2 DEF HeldBy, Line
  <2> QED
    BY <2>1 DEF IsLadder
<1>12. Represents(b, W, << >>, {})
  BY <1>2, <1>5, <1>7, <1>8, <1>9, <1>10, <1>11 DEF Represents
<1>13. queues(b) = [l \in Line |-> Shown(b.pool, W[l])]
  BY <1>12, QueuesShow
<1>14. queues(b) = NoOrders
  BY <1>2, <1>13, ShownNone DEF NoOrders
<1> QED
  BY <1>1, <1>12, <1>14 DEF Sound

\* The lines that depth() gives of a ladder and the best quote that bbo() gives are what
\* the orders resting at the prices Held add up to.
AggregatesAre(b, s, lines, best, Held) ==
  /\ {lines[i].price : i \in DOMAIN lines} = Held
  /\ \A i, j \in DOMAIN lines : i < j => Better(s, lines[i].price, lines[j].price)
  /\ \A i \in DOMAIN lines :
       /\ lines[i].shares = SharesOf(orders_at(b, s, lines[i].price))
       /\ lines[i].order_count = Len(orders_at(b, s, lines[i].price))
  /\ best.has = (Held # {})
  /\ best.has => /\ best.price \in Held
                 /\ \A p \in Held : ~ Better(s, p, best.price)
                 /\ best.shares = SharesOf(orders_at(b, s, best.price))

\* The aggregates of a sound book are exact: for any book, so that the books of
\* BookManager are covered too.
LEMMA DepthSound ==
  ASSUME NEW b, Sound(b), NEW s \in Side,
         NEW Held, Held = {p \in Price : orders_at(b, s, p) # << >>}
  PROVE  AggregatesAre(b, s, depth(b, s, 0), bbo(b)[s], Held)
<1>a. PICK lines : lines = depth(b, s, 0)
  OBVIOUS
<1>b. PICK best : best = bbo(b)[s]
  OBVIOUS
<1>1. PICK W, F : Represents(b, W, F, {})
  BY DEF Sound
<1>2. PICK ladder : ladder = b.levels[s]
  OBVIOUS
<1>3. ladder \in Seq(Level(Len(b.pool))) /\ DOMAIN ladder = 1 .. Len(ladder) /\ Len(ladder) \in Nat
  BY <1>1, <1>2, Unpack, LenProperties DEF Represents
<1>4. PICK H : H = HeldBy(W, s)
  OBVIOUS
<1>5. PICK lv : lv = LevelsFor(b.pool, W, s)
  OBVIOUS
<1>6. IsLadder(ladder, s, H, lv)
  BY <1>1, <1>2, <1>4, <1>5 DEF Represents, LaddersOK
<1>7. ASSUME NEW p \in Price
      PROVE  /\ orders_at(b, s, p) = Shown(b.pool, W[<<s, p>>])
             /\ Len(orders_at(b, s, p)) = Len(W[<<s, p>>])
             /\ orders_at(b, s, p) # << >> <=> W[<<s, p>>] # << >>
  <2>1. PICK w : w = W[<<s, p>>]
    OBVIOUS
  <2>2. LevelChain(b, s, p) = w
    BY <1>1, <2>1, ChainsAreLists
  <2>3. QueueOK(b, <<s, p>>, w)
    BY <1>1, <2>1 DEF Represents, QueuesOK, Line
  <2>4. Len(w) \in Nat /\ DOMAIN w = 1 .. Len(w) /\ w \in Seq(1 .. Len(b.pool))
    BY <2>3, ListParts DEF QueueOK
  <2>5. orders_at(b, s, p) = Shown(b.pool, w)
    BY <2>2, <2>4 DEF orders_at, Shown
  <2>6. Len(Shown(b.pool, w)) = Len(w)
    BY <2>4 DEF Shown
  <2>7. w = << >> => Shown(b.pool, w) = << >>
    BY ShownNone
  <2>8. Shown(b.pool, w) = << >> => Len(w) = 0
    BY <2>6
  <2>9. Len(w) = 0 => w = << >>
    BY <2>4, EmptySeq
  <2> QED
    BY <2>1, <2>5, <2>6, <2>7, <2>8, <2>9
<1>8. Held = H
  BY <1>4, <1>7 DEF HeldBy
<1>9. H \subseteq Price
  BY <1>4 DEF HeldBy
<1>10. \A p \in H : lv[p] = LevelFor(b.pool, p, W[<<s, p>>])
  BY <1>5, <1>9 DEF LevelsFor
<1>11. ASSUME NEW i \in 1 .. Len(ladder)
       PROVE  /\ ladder[i].price \in H
              /\ ladder[i].total_shares = SharesOf(orders_at(b, s, ladder[i].price))
              /\ ladder[i].order_count = Len(orders_at(b, s, ladder[i].price))
  <2>1. PICK p : p = ladder[i].price
    OBVIOUS
  <2>2. p \in H /\ ladder[i] = lv[p]
    BY <1>6, <2>1 DEF IsLadder
  <2>3. ladder[i] = LevelFor(b.pool, p, W[<<s, p>>])
    BY <1>10, <2>2
  <2>4. /\ ladder[i].total_shares = SharesOf(Shown(b.pool, W[<<s, p>>]))
        /\ ladder[i].order_count = Len(W[<<s, p>>])
    BY <2>3 DEF LevelFor
  <2> QED
    BY <1>7, <1>9, <2>1, <2>2, <2>4
<1>12. lines = [i \in 1 .. Len(ladder) |-> [price |-> ladder[i].price,
                  shares |-> ladder[i].total_shares, order_count |-> ladder[i].order_count]]
  BY <1>a, <1>2 DEF depth
<1>13. /\ DOMAIN lines = 1 .. Len(ladder)
       /\ \A i \in 1 .. Len(ladder) : /\ lines[i].price = ladder[i].price
                                      /\ lines[i].shares = ladder[i].total_shares
                                      /\ lines[i].order_count = ladder[i].order_count
  BY <1>12
<1>14. {lines[i].price : i \in DOMAIN lines} = Held
  <2>1. \A p \in H : \E i \in 1 .. Len(ladder) : ladder[i].price = p
    BY <1>6 DEF IsLadder
  <2> QED
    BY <1>8, <1>11, <1>13, <2>1
<1>15. \A i, j \in DOMAIN lines : i < j => Better(s, lines[i].price, lines[j].price)
  BY <1>6, <1>13 DEF IsLadder
<1>16. \A i \in DOMAIN lines :
         /\ lines[i].shares = SharesOf(orders_at(b, s, lines[i].price))
         /\ lines[i].order_count = Len(orders_at(b, s, lines[i].price))
  BY <1>11, <1>13
<1>17. best = IF ladder = << >> THEN [has |-> FALSE, price |-> 0, shares |-> 0]
              ELSE [has |-> TRUE, price |-> ladder[1].price, shares |-> ladder[1].total_shares]
  BY <1>b, <1>2 DEF bbo
<1>18. ladder = << >> <=> H = {}
  <2>1. ladder = << >> => H = {}
    BY <1>6 DEF IsLadder
  <2>2. ladder # << >> => 1 \in 1 .. Len(ladder)
    BY <1>3, EmptySeq
  <2> QED
    BY <1>11, <2>1, <2>2
<1>19. best.has = (Held # {})
  <2>1. CASE ladder = << >>
    <3>1. best.has = FALSE /\ Held = {}
      BY <1>8, <1>17, <1>18, <2>1
    <3> QED
      BY <3>1
  <2>2. CASE ladder # << >>
    <3>1. best.has = TRUE /\ Held # {}
      BY <1>8, <1>17, <1>18, <2>2
    <3> QED
      BY <3>1
  <2> QED
    BY <2>1, <2>2
<1>20. ASSUME best.has
       PROVE  /\ best.price \in Held
              /\ \A p \in Held : ~ Better(s, p, best.price)
              /\ best.shares = SharesOf(orders_at(b, s, best.price))
  <2>1. ladder # << >> /\ best.price = ladder[1].price /\ best.shares = ladder[1].total_shares
    BY <1>17, <1>20
  <2>2. 1 \in 1 .. Len(ladder)
    BY <1>3, <2>1, EmptySeq
  <2>3. ASSUME NEW p \in H PROVE ~ Better(s, p, ladder[1].price)
    <3>1. PICK i \in 1 .. Len(ladder) : ladder[i].price = p
      BY <1>6 DEF IsLadder
    <3>2. ladder[1].price \in Int /\ p \in Int
      BY <1>9, <1>11, <2>2, PriceIsNumber
    <3>3. CASE i = 1
      BY <3>1, <3>2, <3>3 DEF Better
    <3>4. CASE i # 1
      <4>1. 1 < i
        BY <3>4
      <4>2. Better(s, ladder[1].price, p)
        BY <1>6, <2>2, <3>1, <4>1 DEF IsLadder
      <4> QED
        BY <3>2, <4>2 DEF Better
    <3> QED
      BY <3>3, <3>4
  <2> QED
    BY <1>8, <1>11, <2>1, <2>2, <2>3
<1> QED
  BY <1>a, <1>b, <1>14, <1>15, <1>16, <1>19, <1>20 DEF AggregatesAre
=============================================================================
