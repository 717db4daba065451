---------------------------- MODULE L3Book_proofs ----------------------------
(***************************************************************************)
(* Theorems about L3Book, for any reference numbers, prices and            *)
(* quantities, from the lemmas of L3BookOps_proofs about its operations.   *)
(***************************************************************************)
EXTENDS L3Book, L3BookOps_proofs

\* TypeOK says that the book the variables form is well typed.
LEMMA BookIsTyped == TypeOK => WellTyped(book)
BY DEF TypeOK, WellTyped, BookOf, book

\* A call that leaves a well-typed book behind re-establishes TypeOK.
LEMMA CallIsTyped ==
  ASSUME NEW b, WellTyped(b), Becomes(b), call' \in Call
  PROVE  TypeOK'
<1>1. /\ m_pool' = b.pool /\ m_free_head' = b.free_head
      /\ m_levels' = b.levels /\ m_index' = b.index
  BY DEF Becomes
<1>2. /\ m_pool' \in Seq(OrderNode(Len(m_pool')))
      /\ m_free_head' \in 0 .. Len(m_pool')
      /\ m_levels' \in [Side -> Seq(Level(Len(m_pool')))]
      /\ m_index' \in [Ref -> 0 .. Len(m_pool')]
  BY <1>1, Unpack
<1> QED
  BY <1>2 DEF TypeOK

\* The type invariant: whatever calls come, with known, unknown or repeated reference
\* numbers, every position the book stores lies in its pool and every quantity stays
\* within what a message can carry.
THEOREM TypeCorrect == Spec => []TypeOK
<1>1. Init => TypeOK
  <2>1. ASSUME NEW n \in Nat PROVE << >> \in Seq(OrderNode(n)) /\ << >> \in Seq(Level(n))
    BY EmptySeq
  <2> QED
    BY <2>1, EmptySeq DEF Init, EmptyBook, TypeOK, NIL
<1>2. TypeOK /\ [Next]_vars => TypeOK'
  <2> SUFFICES ASSUME TypeOK, [Next]_vars PROVE TypeOK'
    OBVIOUS
  <2>1. WellTyped(book)
    BY BookIsTyped
  <2>2. ASSUME NEW c \in AddCall, AddOrder(c) PROVE TypeOK'
    <3>1. WellTyped(add_order(book, c.ref, c.side, c.shares, c.price))
      BY <2>1, AddType DEF AddCall
    <3> QED
      BY <2>2, <3>1, CallIsTyped DEF AddOrder, Call
  <2>3. ASSUME NEW c \in ExecuteCall, ExecuteOrder(c) PROVE TypeOK'
    <3>1. WellTyped(execute_order(book, c.ref, c.shares))
      BY <2>1, ExecuteType DEF ExecuteCall
    <3> QED
      BY <2>3, <3>1, CallIsTyped DEF ExecuteOrder, Call
  <2>4. ASSUME NEW c \in ReduceCall, ReduceOrder(c) PROVE TypeOK'
    <3>1. WellTyped(reduce_order(book, c.ref, c.shares))
      BY <2>1, ExecuteType DEF ReduceCall, reduce_order
    <3> QED
      BY <2>4, <3>1, CallIsTyped DEF ReduceOrder, Call
  <2>5. ASSUME NEW c \in DeleteCall, DeleteOrder(c) PROVE TypeOK'
    <3>1. WellTyped(delete_order(book, c.ref))
      BY <2>1, DeleteType DEF DeleteCall
    <3> QED
      BY <2>5, <3>1, CallIsTyped DEF DeleteOrder, Call
  <2>6. ASSUME NEW c \in ReplaceCall, ReplaceOrder(c) PROVE TypeOK'
    <3>1. WellTyped(replace_order(book, c.ref, c.new, c.shares, c.price))
      BY <2>1, ReplaceType DEF ReplaceCall
    <3> QED
      BY <2>6, <3>1, CallIsTyped DEF ReplaceOrder, Call
  <2>7. CASE UNCHANGED vars
    BY <2>7 DEF vars, bookVars, TypeOK
  <2> QED
    BY <2>2, <2>3, <2>4, <2>5, <2>6, <2>7 DEF Next
<1> QED
  BY <1>1, <1>2, PTL DEF Spec

\* The book after a call is the one the operation returns.
LEMMA BookBecomes ==
  ASSUME NEW b, WellTyped(b), Becomes(b)
  PROVE  book' = b
<1>1. b = [pool |-> b.pool, free_head |-> b.free_head, levels |-> b.levels, index |-> b.index]
  BY Unpack
<1> QED
  BY <1>1 DEF Becomes, book

\* A call that is known to leave a sound book with the right queues behind.
LEMMA CallIsSound ==
  ASSUME NEW b, Sound(b), Becomes(b), call' \in Call, queues(b) = Effect(queues(book), call')
  PROVE  /\ TypeOK' /\ Sound(book')
         /\ queues(book') = Effect(queues(book), call')
<1>1. WellTyped(b)
  BY DEF Sound, Represents
<1>2. book' = b
  BY <1>1, BookBecomes
<1>3. TypeOK'
  BY <1>1, CallIsTyped
<1> QED
  BY <1>2, <1>3

\* Every action is a call with its effect on a sound book.
LEMMA StepIsSound ==
  ASSUME Sound(book), Next
  PROVE  /\ TypeOK' /\ Sound(book') /\ call' \in Call
         /\ queues(book') = Effect(queues(book), call')
<1>1. PICK q : q = queues(book)
  OBVIOUS
<1>2. ASSUME NEW c \in AddCall, AddOrder(c)
      PROVE  TypeOK' /\ Sound(book') /\ call' \in Call /\ queues(book') = Effect(q, call')
  <2>1. PICK b : b = add_order(book, c.ref, c.side, c.shares, c.price)
    OBVIOUS
  <2>2. c.ref \in Ref /\ c.side \in Side /\ c.shares \in Shares /\ c.price \in Price /\ c.op = "add"
    BY DEF AddCall
  <2>3. Sound(b) /\ queues(b) = Added(q, c.ref, c.side, c.shares, c.price)
    BY <1>1, <2>1, <2>2, AddSound
  <2>4. Effect(q, c) = Added(q, c.ref, c.side, c.shares, c.price)
    BY <2>2 DEF Effect
  <2>5. Becomes(b) /\ call' = c /\ call' \in Call
    BY <1>2, <2>1 DEF AddOrder, Call
  <2> QED
    BY <1>1, <2>3, <2>4, <2>5, CallIsSound
<1>3. ASSUME NEW c \in ExecuteCall, ExecuteOrder(c)
      PROVE  TypeOK' /\ Sound(book') /\ call' \in Call /\ queues(book') = Effect(q, call')
  <2>1. PICK b : b = execute_order(book, c.ref, c.shares)
    OBVIOUS
  <2>2. c.ref \in Ref /\ c.shares \in Shares /\ c.op = "execute"
    BY DEF ExecuteCall
  <2>3. Sound(b) /\ queues(b) = Filled(q, c.ref, c.shares)
    BY <1>1, <2>1, <2>2, ExecuteSound
  <2>4. Effect(q, c) = Filled(q, c.ref, c.shares)
    BY <2>2 DEF Effect
  <2>5. Becomes(b) /\ call' = c /\ call' \in Call
    BY <1>3, <2>1 DEF ExecuteOrder, Call
  <2> QED
    BY <1>1, <2>3, <2>4, <2>5, CallIsSound
<1>4. ASSUME NEW c \in ReduceCall, ReduceOrder(c)
      PROVE  TypeOK' /\ Sound(book') /\ call' \in Call /\ queues(book') = Effect(q, call')
  <2>1. PICK b : b = execute_order(book, c.ref, c.shares)
    OBVIOUS
  <2>2. c.ref \in Ref /\ c.shares \in Shares /\ c.op = "reduce"
    BY DEF ReduceCall
  <2>3. Sound(b) /\ queues(b) = Filled(q, c.ref, c.shares)
    BY <1>1, <2>1, <2>2, ExecuteSound
  <2>4. Effect(q, c) = Filled(q, c.ref, c.shares)
    BY <2>2 DEF Effect
  <2>5. Becomes(b) /\ call' = c /\ call' \in Call
    BY <1>4, <2>1 DEF ReduceOrder, reduce_order, Call
  <2> QED
    BY <1>1, <2>3, <2>4, <2>5, CallIsSound
<1>5. ASSUME NEW c \in DeleteCall, DeleteOrder(c)
      PROVE  TypeOK' /\ Sound(book') /\ call' \in Call /\ queues(book') = Effect(q, call')
  <2>1. PICK b : b = delete_order(book, c.ref)
    OBVIOUS
  <2>2. c.ref \in Ref /\ c.op = "delete"
    BY DEF DeleteCall
  <2>3. Sound(b) /\ queues(b) = Deleted(q, c.ref)
    BY <1>1, <2>1, <2>2, DeleteSound
  <2>4. Effect(q, c) = Deleted(q, c.ref)
    BY <2>2 DEF Effect
  <2>5. Becomes(b) /\ call' = c /\ call' \in Call
    BY <1>5, <2>1 DEF DeleteOrder, Call
  <2> QED
    BY <1>1, <2>3, <2>4, <2>5, CallIsSound
<1>6. ASSUME NEW c \in ReplaceCall, ReplaceOrder(c)
      PROVE  TypeOK' /\ Sound(book') /\ call' \in Call /\ queues(book') = Effect(q, call')
  <2>1. PICK b : b = replace_order(book, c.ref, c.new, c.shares, c.price)
    OBVIOUS
  <2>2. c.ref \in Ref /\ c.new \in Ref /\ c.shares \in Shares /\ c.price \in Price /\ c.op = "replace"
    BY DEF ReplaceCall
  <2>3. Sound(b) /\ queues(b) = Replaced(q, c.ref, c.new, c.shares, c.price)
    BY <1>1, <2>1, <2>2, ReplaceSound
  <2>4. Effect(q, c) = Replaced(q, c.ref, c.new, c.shares, c.price)
    BY <2>2 DEF Effect
  <2>5. Becomes(b) /\ call' = c /\ call' \in Call
    BY <1>6, <2>1 DEF ReplaceOrder, Call
  <2> QED
    BY <1>1, <2>3, <2>4, <2>5, CallIsSound
<1> QED
  BY <1>1, <1>2, <1>3, <1>4, <1>5, <1>6 DEF Next

\* Initially the book is empty.
LEMMA StartsEmpty == Init => Sound(book) /\ queues(book) = NoOrders
<1> SUFFICES ASSUME Init PROVE Sound(book) /\ queues(book) = NoOrders
  OBVIOUS
<1>1. book = EmptyBook
  BY DEF Init, book, EmptyBook
<1> QED
  BY <1>1, EmptySound

\* The inductive invariant behind the theorems below: the links of the pool spell out one
\* list of nodes for each line and one for the free list, these lists share no node and
\* use every node, the index finds exactly the queued ones, and each ladder has, the best
\* first, one level for each line with orders, whose head, tail and counters are those
\* of its list.
THEOREM Invariance == Spec => []Sound(book)
<1>1. Init => Sound(book)
  BY StartsEmpty
<1>2. Sound(book) /\ [Next]_vars => Sound(book)'
  <2> SUFFICES ASSUME Sound(book), [Next]_vars PROVE Sound(book)'
    OBVIOUS
  <2>1. CASE Next
    BY <2>1, StepIsSound
  <2>2. CASE UNCHANGED vars
    <3>1. book' = book
      BY <2>2 DEF vars, bookVars, book
    <3> QED
      BY <3>1
  <2> QED
    BY <2>1, <2>2
<1> QED
  BY <1>1, <1>2, PTL DEF Spec

\* Every call of l3_book.cpp has exactly the effect BookEffects gives it, on the right
\* order, with time priority kept: what orders_at shows before and after it.
THEOREM CallEffects == Spec => CallsHaveTheirEffect
<1>1. Init => queues(book) = NoOrders
  BY StartsEmpty
<1>2. Sound(book) /\ [Next]_vars =>
        [/\ call' \in Call
         /\ \E b \in {book}, c \in {book'} : queues(c) = Effect(queues(b), call')]_vars
  <2> SUFFICES ASSUME Sound(book), Next
               PROVE  /\ call' \in Call
                      /\ \E b \in {book}, c \in {book'} : queues(c) = Effect(queues(b), call')
    OBVIOUS
  <2>1. call' \in Call /\ queues(book') = Effect(queues(book), call')
    BY StepIsSound
  <2> QED
    BY <2>1
<1> QED
  BY <1>1, <1>2, Invariance, PTL DEF Spec, CallsHaveTheirEffect

\* The pool, the links, the ladders and the index implement the abstract book of BookSpec.
THEOREM Refinement == Spec => ImplementsBookSpec
<1>1. Init => Abstract!Init
  BY StartsEmpty DEF Init, Abstract!Init, NoOrders, Abstract!NoOrders, Line, Abstract!Line,
     Side, Abstract!Side, NoCall, Abstract!NoCall
<1>2. Abstract!Line = Line
  BY DEF Line, Abstract!Line, Side, Abstract!Side
<1>3. ASSUME NEW orders, NEW ref
      PROVE  /\ Abstract!Holds(orders, ref) = Holds(orders, ref)
             /\ Abstract!PlaceOf(orders, ref) = PlaceOf(orders, ref)
  BY DEF Holds, Abstract!Holds, PlaceOf, Abstract!PlaceOf
<1>4. ASSUME NEW q, NEW ref
      PROVE  /\ Abstract!Rests(q, ref) = Rests(q, ref)
             /\ Abstract!LineOf(q, ref) = LineOf(q, ref)
  BY <1>2 DEF Rests, Abstract!Rests, LineOf, Abstract!LineOf, Holds, Abstract!Holds
<1>5. ASSUME NEW q, NEW ref, NEW side, NEW n, NEW price
      PROVE  Abstract!Added(q, ref, side, n, price) = Added(q, ref, side, n, price)
  BY <1>4 DEF Added, Abstract!Added, Order, Abstract!Order
<1>6. ASSUME NEW q, NEW ref PROVE Abstract!Deleted(q, ref) = Deleted(q, ref)
  BY <1>3, <1>4 DEF Deleted, Abstract!Deleted, RemoveAt, Abstract!RemoveAt
<1>7. ASSUME NEW q, NEW ref, NEW n PROVE Abstract!Filled(q, ref, n) = Filled(q, ref, n)
  BY <1>3, <1>4, <1>6 DEF Filled, Abstract!Filled, Left, Abstract!Left, Order, Abstract!Order
<1>8. ASSUME NEW q, NEW old, NEW new, NEW n, NEW price
       PROVE  Abstract!Replaced(q, old, new, n, price) = Replaced(q, old, new, n, price)
  BY <1>4, <1>5, <1>6 DEF Replaced, Abstract!Replaced
<1>9. ASSUME NEW q, NEW c PROVE Abstract!Effect(q, c) = Effect(q, c)
  BY <1>5, <1>6, <1>7, <1>8 DEF Effect, Abstract!Effect
<1>10. Abstract!Call = Call
  BY DEF Call, Abstract!Call, AddCall, Abstract!AddCall, ExecuteCall, Abstract!ExecuteCall,
     ReduceCall, Abstract!ReduceCall, DeleteCall, Abstract!DeleteCall,
     ReplaceCall, Abstract!ReplaceCall, Side, Abstract!Side, Shares, Abstract!Shares
<1>11. Sound(book) /\ [Next]_vars => [Abstract!Next]_<<queues(book), call>>
  <2> SUFFICES ASSUME Sound(book), [Next]_vars PROVE [Abstract!Next]_<<queues(book), call>>
    OBVIOUS
  <2>1. CASE Next
    <3>1. call' \in Call /\ queues(book') = Effect(queues(book), call')
      BY <2>1, StepIsSound
    <3> QED
      BY <1>9, <1>10, <3>1 DEF Abstract!Next
  <2>2. CASE UNCHANGED vars
    <3>1. book' = book /\ call' = call
      BY <2>2 DEF vars, bookVars, book
    <3> QED
      BY <3>1
  <2> QED
    BY <2>1, <2>2
<1> QED
  BY <1>1, <1>11, Invariance, PTL DEF Spec, ImplementsBookSpec, Abstract!Spec

-----------------------------------------------------------------------------

\* The lists of a sound book, in terms of the variables.
LEMMA ListsOf ==
  ASSUME NEW W, NEW F, Represents(book, W, F, {})
  PROVE  /\ FreeChain = F
         /\ \A s \in Side, p \in Price : LevelChain(book, s, p) = W[<<s, p>>]
         /\ \A l \in Line : QueueOK(book, l, W[l])
         /\ \A l \in Line : NodeList(W[l], Len(m_pool)) /\ DOMAIN W[l] = 1 .. Len(W[l])
         /\ NodeList(F, Len(m_pool)) /\ DOMAIN F = 1 .. Len(F)
         /\ Len(m_pool) \in Nat /\ DOMAIN m_pool = 1 .. Len(m_pool)
<1>1. book.pool = m_pool /\ book.free_head = m_free_head
  BY DEF book
<1>2. FreeChain = F /\ \A s \in Side, p \in Price : LevelChain(book, s, p) = W[<<s, p>>]
  BY <1>1, ChainsAreLists DEF FreeChain
<1>3. WellTyped(book) /\ QueuesOK(book, W) /\ FreeOK(book, F)
  BY DEF Represents
<1>4. Len(m_pool) \in Nat /\ m_pool \in Seq(OrderNode(Len(m_pool)))
  BY <1>1, <1>3, Unpack
<1>5. DOMAIN m_pool = 1 .. Len(m_pool)
  BY <1>4, LenProperties
<1>6. \A l \in Line : QueueOK(book, l, W[l])
  BY <1>3 DEF QueuesOK
<1>7. \A l \in Line : NodeList(W[l], Len(m_pool))
  BY <1>1, <1>6 DEF QueueOK
<1>8. \A l \in Line : DOMAIN W[l] = 1 .. Len(W[l])
  BY <1>7, ListParts
<1>9. NodeList(F, Len(m_pool)) /\ DOMAIN F = 1 .. Len(F)
  BY <1>1, <1>3, ListParts DEF FreeOK
<1> QED
  BY <1>2, <1>4, <1>5, <1>6, <1>7, <1>8, <1>9

\* What is queued is what the lists hold.
LEMMA QueuedIs ==
  ASSUME NEW W, NEW F, Represents(book, W, F, {})
  PROVE  \A x : x \in Queued <=>
           \E l \in Line : \E i \in 1 .. Len(W[l]) : x = <<W[l][i], l[1], l[2]>>
<1>1. /\ \A s \in Side, p \in Price : LevelChain(book, s, p) = W[<<s, p>>]
      /\ \A l \in Line : DOMAIN W[l] = 1 .. Len(W[l])
  BY ListsOf
<1>2. ASSUME NEW x, x \in Queued
      PROVE  \E l \in Line : \E i \in 1 .. Len(W[l]) : x = <<W[l][i], l[1], l[2]>>
  <2>1. PICK s \in Side, p \in Price : x \in {<<n, s, p>> : n \in ToSet(LevelChain(book, s, p))}
    BY <1>2 DEF Queued
  <2>2. PICK n \in ToSet(LevelChain(book, s, p)) : x = <<n, s, p>>
    BY <2>1
  <2>3. PICK l : l = <<s, p>>
    OBVIOUS
  <2>4. l \in Line /\ l[1] = s /\ l[2] = p
    BY <2>3 DEF Line
  <2>5. n \in ToSet(W[l])
    BY <1>1, <2>2, <2>3
  <2>6. PICK i \in DOMAIN W[l] : n = W[l][i]
    BY <2>5 DEF ToSet
  <2>7. i \in 1 .. Len(W[l])
    BY <1>1, <2>4, <2>6
  <2> QED
    BY <2>2, <2>4, <2>6, <2>7
<1>3. ASSUME NEW l \in Line, NEW i \in 1 .. Len(W[l])
      PROVE  <<W[l][i], l[1], l[2]>> \in Queued
  <2>1. PICK s, p : s = l[1] /\ p = l[2]
    OBVIOUS
  <2>2. s \in Side /\ p \in Price /\ l = <<s, p>>
    BY <2>1 DEF Line
  <2>3. W[l][i] \in ToSet(LevelChain(book, s, p))
    BY <1>1, <2>2 DEF ToSet
  <2> DEFINE Nodes(t, q) == {<<n, t, q>> : n \in ToSet(LevelChain(book, t, q))}
  <2>4. <<W[l][i], s, p>> \in Nodes(s, p)
    BY <2>3
  <2>5. <<W[l][i], s, p>> \in Queued
    <3>1. Queued = UNION {Nodes(t, q) : t \in Side, q \in Price}
      BY DEF Queued
    <3> HIDE DEF Nodes
    <3> QED
      BY <2>2, <2>4, <3>1
  <2> QED
    BY <2>1, <2>5
<1> QED
  BY <1>2, <1>3

\* No node is leaked, and none is used twice.
LEMMA PartitionSound ==
  ASSUME NEW W, NEW F, Represents(book, W, F, {})
  PROVE  PoolPartition
<1>1. /\ FreeChain = F /\ DOMAIN F = 1 .. Len(F)
      /\ \A s \in Side, p \in Price : LevelChain(book, s, p) = W[<<s, p>>]
      /\ \A l \in Line : DOMAIN W[l] = 1 .. Len(W[l])
      /\ DOMAIN m_pool = 1 .. Len(m_pool)
  BY ListsOf
<1>2. /\ NodeList(F, Len(m_pool)) /\ \A l \in Line : NodeList(W[l], Len(m_pool))
  BY ListsOf
<1>3. /\ QueuesOK(book, W) /\ IndexOK(book, W) /\ FreeOK(book, F) /\ CoverOK(book, F, {})
      /\ Len(book.pool) = Len(m_pool)
  BY DEF Represents, book
<1>4. IsInjective(FreeChain)
  BY <1>1, <1>2 DEF IsInjective, NodeList
<1>5. ASSUME NEW s \in Side, NEW p \in Price PROVE IsInjective(LevelChain(book, s, p))
  <2>1. <<s, p>> \in Line
    BY DEF Line
  <2> QED
    BY SMTT(60), <1>1, <1>2, <2>1 DEF IsInjective, NodeList
<1>6. ASSUME NEW n \in DOMAIN m_pool
      PROVE  Cardinality({x \in Queued : x[1] = n}) = IF n \in ToSet(FreeChain) THEN 0 ELSE 1
  <2>1. PICK S : S = {x \in Queued : x[1] = n}
    OBVIOUS
  <2>2. n \in ToSet(FreeChain) <=> \E j \in 1 .. Len(F) : F[j] = n
    BY <1>1 DEF ToSet
  <2>3. CASE n \in ToSet(FreeChain)
    <3>1. \A r \in Ref : book.index[r] # n
      BY <1>3, <2>2, <2>3 DEF FreeOK
    <3>2. \A l \in Line : \A i \in 1 .. Len(W[l]) : W[l][i] # n
      BY <1>3, <3>1, NotQueued
    <3>3. S = {}
      <4> SUFFICES ASSUME NEW x \in Queued, x[1] = n PROVE FALSE
        BY <2>1
      <4>1. PICK l \in Line : \E i \in 1 .. Len(W[l]) : x = <<W[l][i], l[1], l[2]>>
        BY QueuedIs
      <4>2. PICK i \in 1 .. Len(W[l]) : x = <<W[l][i], l[1], l[2]>>
        BY <4>1
      <4> QED
        BY <3>2, <4>2
    <3> QED
      BY <2>1, <2>3, <3>3, FS_EmptySet
  <2>4. CASE n \notin ToSet(FreeChain)
    <3>1. n \in 1 .. Len(book.pool)
      BY <1>1, <1>3
    <3>2. PICK r \in Ref : book.index[r] = n
      BY <1>3, <2>2, <2>4, <3>1 DEF CoverOK
    <3>3. book.index[r] # NIL
      BY <3>1, <3>2 DEF NIL
    <3>4. PICK l \in Line : \E i \in 1 .. Len(W[l]) : W[l][i] = n
      BY <1>3, <3>2, <3>3 DEF IndexOK
    <3>5. PICK i \in 1 .. Len(W[l]) : W[l][i] = n
      BY <3>4
    <3>6. PICK y : y = <<n, l[1], l[2]>>
      OBVIOUS
    <3>7. y \in Queued
      BY <3>5, <3>6, QueuedIs
    <3>8. ASSUME NEW x \in Queued, x[1] = n PROVE x = y
      <4>1. PICK m \in Line : \E j \in 1 .. Len(W[m]) : x = <<W[m][j], m[1], m[2]>>
        BY QueuedIs
      <4>2. PICK j \in 1 .. Len(W[m]) : x = <<W[m][j], m[1], m[2]>>
        BY <4>1
      <4>3. W[m][j] = n
        BY <3>8, <4>2
      <4>4. m = l
        BY <1>3, <3>5, <4>3, OnePlace
      <4> QED
        BY <3>6, <4>2, <4>3, <4>4
    <3>9. S = {y}
      <4>1. y[1] = n
        BY <3>6
      <4> QED
        BY <2>1, <3>7, <3>8, <4>1
    <3> QED
      BY <2>1, <2>4, <3>9, FS_Singleton
  <2> QED
    BY <2>3, <2>4
<1> QED
  BY <1>4, <1>5, <1>6 DEF PoolPartition

\* A number's node is the one the index names.
LEMMA IndexSound ==
  ASSUME NEW W, NEW F, Represents(book, W, F, {})
  PROVE  IndexFindsEveryOrder
<1>1. QueuesOK(book, W) /\ IndexOK(book, W) /\ book.pool = m_pool /\ book.index = m_index
  BY DEF Represents, book
<1> SUFFICES ASSUME NEW r \in Ref
             PROVE  {q[1] : q \in {x \in Queued : m_pool[x[1]].reference_number = r}}
                      = IF m_index[r] = NIL THEN {} ELSE {m_index[r]}
  BY DEF IndexFindsEveryOrder
<1>2. ASSUME NEW x \in Queued, m_pool[x[1]].reference_number = r
      PROVE  x[1] = m_index[r] /\ m_index[r] # NIL
  <2>1. PICK l \in Line : \E i \in 1 .. Len(W[l]) : x = <<W[l][i], l[1], l[2]>>
    BY QueuedIs
  <2>2. PICK i \in 1 .. Len(W[l]) : x = <<W[l][i], l[1], l[2]>>
    BY <2>1
  <2>3. x[1] = W[l][i]
    BY <2>2
  <2>4. m_index[m_pool[W[l][i]].reference_number] = W[l][i]
    BY <1>1 DEF QueuesOK, QueueOK
  <2>5. W[l][i] # NIL
    BY ListsOf, ListParts DEF NIL
  <2> QED
    BY <1>2, <2>3, <2>4, <2>5
<1>3. ASSUME m_index[r] # NIL
      PROVE  \E x \in Queued : m_pool[x[1]].reference_number = r /\ x[1] = m_index[r]
  <2>1. /\ m_pool[m_index[r]].reference_number = r
        /\ \E l \in Line : \E i \in 1 .. Len(W[l]) : W[l][i] = m_index[r]
    BY <1>1, <1>3 DEF IndexOK
  <2>2. PICK l \in Line : \E i \in 1 .. Len(W[l]) : W[l][i] = m_index[r]
    BY <2>1
  <2>3. PICK i \in 1 .. Len(W[l]) : W[l][i] = m_index[r]
    BY <2>2
  <2>4. PICK x : x = <<W[l][i], l[1], l[2]>>
    OBVIOUS
  <2>5. x \in Queued /\ x[1] = W[l][i]
    BY <2>4, QueuedIs
  <2> QED
    BY <2>1, <2>3, <2>5
<1> QED
  BY <1>2, <1>3

\* A ladder's levels are those of the lines with orders.
LEMMA LevelsOf ==
  ASSUME NEW b, NEW W, NEW F, NEW X, Represents(b, W, F, X),
         NEW s \in Side, NEW i \in 1 .. Len(b.levels[s])
  PROVE  /\ b.levels[s][i].price \in Price
         /\ <<s, b.levels[s][i].price>> \in Line
         /\ W[<<s, b.levels[s][i].price>>] # << >>
         /\ b.levels[s][i] =
              LevelFor(b.pool, b.levels[s][i].price, W[<<s, b.levels[s][i].price>>])
<1>1. PICK p : p = b.levels[s][i].price
  OBVIOUS
<1>2. IsLadder(b.levels[s], s, HeldBy(W, s), LevelsFor(b.pool, W, s))
  BY DEF Represents, LaddersOK
<1>3. p \in HeldBy(W, s) /\ b.levels[s][i] = LevelsFor(b.pool, W, s)[p]
  BY <1>1, <1>2 DEF IsLadder
<1>4. p \in Price /\ W[<<s, p>>] # << >>
  BY <1>3 DEF HeldBy
<1>5. b.levels[s][i] = LevelFor(b.pool, p, W[<<s, p>>])
  BY <1>3, <1>4 DEF LevelsFor
<1>6. <<s, p>> \in Line
  BY <1>4 DEF Line
<1> QED
  BY <1>1, <1>4, <1>5, <1>6

\* The backward links and the tail mirror the forward links.
LEMMA LinksSound ==
  ASSUME NEW W, NEW F, Represents(book, W, F, {})
  PROVE  FifoWellLinked
<1>1. WellTyped(book) /\ book.pool = m_pool /\ book.levels = m_levels /\ Len(m_pool) \in Nat
  BY Unpack DEF Represents, book
<1> SUFFICES ASSUME NEW s \in Side, NEW i \in DOMAIN m_levels[s],
                    NEW level, level = m_levels[s][i],
                    NEW chain, chain = Chain(m_pool, level.head)
             PROVE  /\ chain # << >> /\ Last(chain) = level.tail
                    /\ \A k \in DOMAIN chain :
                         /\ m_pool[chain[k]].prev = IF k = 1 THEN NIL ELSE chain[k - 1]
                         /\ m_pool[chain[k]].side = s
                         /\ m_pool[chain[k]].price = level.price
  BY SMTT(60) DEF FifoWellLinked
<1>2. PICK p : p = level.price
  OBVIOUS
<1>3. PICK w : w = W[<<s, p>>]
  OBVIOUS
<1>4. i \in 1 .. Len(book.levels[s]) /\ book.levels[s][i] = level
  <2>1. m_levels[s] \in Seq(Level(Len(m_pool)))
    BY <1>1, Unpack
  <2> QED
    BY <1>1, <2>1, LenProperties
<1>5. p \in Price /\ <<s, p>> \in Line /\ w # << >> /\ level = LevelFor(m_pool, p, w)
  BY <1>1, <1>2, <1>3, <1>4, LevelsOf
<1>6. QueueOK(book, <<s, p>>, w) /\ NodeList(w, Len(m_pool)) /\ DOMAIN w = 1 .. Len(w)
  BY <1>3, <1>5, ListsOf
<1>7. Len(w) \in Nat
  BY <1>6, ListParts
<1>8. level.head = Node(w, 1) /\ level.tail = Node(w, Len(w))
  BY <1>5 DEF LevelFor
<1>9. chain = w
  <2>1. Links(m_pool, Node(w, 1), w)
    BY <1>1, <1>6 DEF QueueOK, Links
  <2>2. Chain(m_pool, Node(w, 1)) = w
    BY <1>1, <1>6, <2>1, ChainIsList
  <2> QED
    BY <1>8, <2>2
<1>10. Len(w) \in 1 .. Len(w)
  <2>1. w \in Seq(1 .. Len(m_pool))
    BY <1>6 DEF NodeList
  <2>2. Len(w) # 0
    BY <1>5, <2>1, EmptySeq
  <2> QED
    BY <1>7, <2>2
<1>11. Last(w) = level.tail
  BY <1>8, <1>10 DEF Last, Node
<1>12. ASSUME NEW k \in 1 .. Len(w)
       PROVE  /\ m_pool[w[k]].prev = IF k = 1 THEN NIL ELSE w[k - 1]
              /\ m_pool[w[k]].side = s /\ m_pool[w[k]].price = p
  <2>1. /\ m_pool[w[k]].prev = Node(w, k - 1) /\ m_pool[w[k]].side = <<s, p>>[1]
        /\ m_pool[w[k]].price = <<s, p>>[2]
    BY <1>1, <1>6 DEF QueueOK
  <2>2. k - 1 \in 1 .. Len(w) <=> k # 1
    BY <1>7
  <2> QED
    BY <2>1, <2>2 DEF Node
<1> QED
  BY <1>2, <1>5, <1>6, <1>9, <1>11, <1>12

\* Whatever calls the book has taken, its pool, free list, level FIFOs and index agree on
\* which nodes hold an order, where it queues and how it is found: no node is leaked or
\* handed out while an order uses it, and no lookup reaches a freed node.
THEOREM Structure == Spec => []StructureIsSound
<1>1. ASSUME Sound(book) PROVE StructureIsSound
  <2>1. PICK W, F : Represents(book, W, F, {})
    BY <1>1 DEF Sound
  <2> QED
    BY <2>1, PartitionSound, LinksSound, IndexSound DEF StructureIsSound
<1>2. Sound(book) => StructureIsSound
  BY <1>1
<1> QED
  BY <1>2, Invariance, PTL

-----------------------------------------------------------------------------

\* depth() and bbo() are exact: the counters that add_order, unlink_node and the partial
\* fills keep up to date are what the resting orders add up to, at every level, and no
\* level without orders is left on a ladder.
THEOREM Depth == Spec => []DepthIsExact
<1>1. ASSUME Sound(book) PROVE DepthIsExact
  <2>1. ASSUME NEW s \in Side
        PROVE  AggregatesAre(book, s, depth(book, s, 0), bbo(book)[s], HeldPrices(s))
    <3>1. PICK b : b = book
      OBVIOUS
    <3>2. PICK Held : Held = HeldPrices(s)
      OBVIOUS
    <3>3. Sound(b) /\ Held = {p \in Price : orders_at(b, s, p) # << >>}
      BY <1>1, <3>1, <3>2 DEF HeldPrices
    <3>4. AggregatesAre(b, s, depth(b, s, 0), bbo(b)[s], Held)
      BY <3>3, DepthSound
    <3> QED
      BY <3>1, <3>2, <3>4
  <2> QED
    BY <2>1, Zenon DEF DepthIsExact, AggregatesAre
<1>2. Sound(book) => DepthIsExact
  BY <1>1
<1> QED
  BY <1>2, Invariance, PTL
=============================================================================
