----------------------------- MODULE L3BookOps -----------------------------
(***************************************************************************)
(* The single-symbol order-level book of itch::book::L3Book, as a value    *)
(* and the operations on it.                                               *)
(*                                                                         *)
(* A book is a record                                                      *)
(*    pool       the object pool, a vector of order nodes (m_pool)         *)
(*    free_head  first node of the free list (m_free_head)                 *)
(*    levels     per side, the ladder of price levels (m_bids, m_asks)     *)
(*    index      reference number -> pool node (m_index)                   *)
(*                                                                         *)
(* Pool positions count from 1 as TLA+ sequences do, so that 0 can stand   *)
(* for the sentinels L3Book::NIL and OrderIndex::NPOS.  The index is the   *)
(* map that module OrderIndex shows the hash table to implement.  Every    *)
(* operator below is one member function and returns the book it leaves    *)
(* behind, so that the operations that call others (replace_order) are     *)
(* compositions here as well.                                              *)
(***************************************************************************)
EXTENDS BookCalls, Sequences, FiniteSets, SequencesExt

NIL == 0

\* L3Book::OrderNode: `next` threads the level's FIFO, or the free list.
OrderNode(bound) ==
  [reference_number : Ref \cup {0}, shares : Shares, price : Price \cup {0},
   side : Side, next : 0 .. bound, prev : 0 .. bound]

EmptyNode ==
  [reference_number |-> 0, shares |-> 0, price |-> 0, side |-> "B",
   next |-> NIL, prev |-> NIL]

\* L3Book::Level.  The two counters are integers here: DepthIsExact shows that
\* neither is ever taken below zero.
Level(bound) ==
  [price : Price, total_shares : Int, order_count : Int,
   head : 0 .. bound, tail : 0 .. bound]

EmptyLevel(price) ==
  [price |-> price, total_shares |-> 0, order_count |-> 0,
   head |-> NIL, tail |-> NIL]

EmptyBook ==
  [pool |-> << >>, free_head |-> NIL, levels |-> [s \in Side |-> << >>],
   index |-> [r \in Ref |-> NIL]]

-----------------------------------------------------------------------------
(***************************************************************************)
(* The object pool.                                                        *)
(***************************************************************************)

\* The node allocate_node hands out: the head of the free list, else a new slot.
AllocatedNode(b) == IF b.free_head # NIL THEN b.free_head ELSE Len(b.pool) + 1

allocate_node(b) ==
  IF b.free_head # NIL
  THEN [b EXCEPT !.free_head = b.pool[b.free_head].next,
                 !.pool = [b.pool EXCEPT ![b.free_head] = EmptyNode]]
  ELSE [b EXCEPT !.pool = Append(b.pool, EmptyNode)]

\* The node is reset, then pushed on the free list.
free_node(b, n) ==
  [b EXCEPT !.pool = [b.pool EXCEPT ![n] = [EmptyNode EXCEPT !.next = b.free_head]],
            !.free_head = n]

-----------------------------------------------------------------------------
(***************************************************************************)
(* The ladders: bids descend, asks ascend, so position 1 is the best.      *)
(***************************************************************************)

Better(side, p, q) == IF side = "B" THEN p > q ELSE p < q

\* std::lower_bound: the first position whose level is not better than price.
lower_bound(levels, side, price) ==
  CHOOSE i \in 1 .. Len(levels) + 1 :
    /\ \A j \in 1 .. i - 1 : Better(side, levels[j].price, price)
    /\ i <= Len(levels) => ~ Better(side, levels[i].price, price)

find_level(levels, side, price) ==
  LET i == lower_bound(levels, side, price)
  IN  IF i <= Len(levels) /\ levels[i].price = price THEN i ELSE NIL

\* The ladder with a level for the price; its position is lower_bound's.
find_or_create_level(levels, side, price) ==
  IF find_level(levels, side, price) # NIL
  THEN levels
  ELSE InsertAt(levels, lower_bound(levels, side, price), EmptyLevel(price))

-----------------------------------------------------------------------------
(***************************************************************************)
(* The operations.                                                         *)
(***************************************************************************)

\* The new order goes to the tail of its level's FIFO.
AppendToLevel(b, n, ref, side, shares, price) ==
  LET ladder == find_or_create_level(b.levels[side], side, price)
      at     == lower_bound(b.levels[side], side, price)
      tail   == ladder[at].tail
      node   == [reference_number |-> ref, shares |-> shares, price |-> price,
                 side |-> side, next |-> NIL, prev |-> tail]
      filled == [b.pool EXCEPT ![n] = node]
      level  == [ladder[at] EXCEPT !.head = IF tail # NIL THEN @ ELSE n,
                                   !.tail = n,
                                   !.total_shares = @ + shares,
                                   !.order_count = @ + 1]
  IN  [b EXCEPT !.pool = IF tail # NIL THEN [filled EXCEPT ![tail].next = n]
                                       ELSE filled,
                !.levels = [b.levels EXCEPT ![side] = [ladder EXCEPT ![at] = level]]]

\* Mutant: no duplicate check.
add_order_NoCheck(b, ref, side, shares, price) ==
  LET n      == AllocatedNode(b)
      linked == AppendToLevel(allocate_node(b), n, ref, side, shares, price)
  IN  [linked EXCEPT !.index = [b.index EXCEPT ![ref] = n]]

\* A reference number that already rests is ignored.
add_order(b, ref, side, shares, price) ==
  IF b.index[ref] # NIL
  THEN b
  ELSE LET n      == AllocatedNode(b)
           linked == AppendToLevel(allocate_node(b), n, ref, side, shares, price)
       IN  [linked EXCEPT !.index = [b.index EXCEPT ![ref] = n]]

\* Mutant: only the forward link is repaired.
UnlinkedPool_ForwardOnly(pool, n) ==
  IF pool[n].prev # NIL THEN [pool EXCEPT ![pool[n].prev].next = pool[n].next]
                        ELSE pool

\* The pool with node n's neighbours linked to each other.
UnlinkedPool(pool, n) ==
  LET prev   == pool[n].prev
      next   == pool[n].next
      joined == IF prev # NIL THEN [pool EXCEPT ![prev].next = next] ELSE pool
  IN  IF next # NIL THEN [joined EXCEPT ![next].prev = prev] ELSE joined

\* The level without node n, whose order is still the one in the pool.
UnlinkedLevel(level, node) ==
  [level EXCEPT !.head = IF node.prev # NIL THEN @ ELSE node.next,
                !.tail = IF node.next # NIL THEN @ ELSE node.prev,
                !.total_shares = @ - node.shares,
                !.order_count = @ - 1]

\* A level that loses its last order leaves the ladder.
unlink_node(b, n) ==
  LET node   == b.pool[n]
      ladder == b.levels[node.side]
      at     == find_level(ladder, node.side, node.price)
      level  == UnlinkedLevel(ladder[at], node)
  IN  IF at = NIL
      THEN b
      ELSE [b EXCEPT
              !.pool = UnlinkedPool(b.pool, n),
              !.levels = [b.levels EXCEPT ![node.side] =
                            IF level.order_count = 0
                            THEN RemoveAt(ladder, at)
                            ELSE [ladder EXCEPT ![at] = level]]]

\* unlink_node, free_node and m_index.erase, in that order.
Discard(b, ref) ==
  LET n     == b.index[ref]
      freed == free_node(unlink_node(b, n), n)
  IN  [freed EXCEPT !.index = [b.index EXCEPT ![ref] = NIL]]

delete_order(b, ref) == IF b.index[ref] = NIL THEN b ELSE Discard(b, ref)

\* Mutant: no clamp to the shares that rest.
Removed_Unclamped(b, ref, shares) == IF b.index[ref] = NIL THEN 0 ELSE shares

\* The shares an execution or a partial cancel really takes (its return value).
Removed(b, ref, shares) ==
  IF b.index[ref] = NIL THEN 0
  ELSE IF shares < b.pool[b.index[ref]].shares THEN shares
  ELSE b.pool[b.index[ref]].shares

\* Mutant: the level keeps its total.
ShrinkOrder_NodeOnly(b, ref, removed) ==
  [b EXCEPT !.pool = [b.pool EXCEPT ![b.index[ref]].shares = @ - removed]]

\* An order that stays: its node and its level lose the same shares.
ShrinkOrder(b, ref, removed) ==
  LET n      == b.index[ref]
      side   == b.pool[n].side
      at     == find_level(b.levels[side], side, b.pool[n].price)
      shrunk == [b EXCEPT !.pool = [b.pool EXCEPT ![n].shares = @ - removed]]
  IN  IF at = NIL
      THEN shrunk
      ELSE [shrunk EXCEPT !.levels =
              [b.levels EXCEPT ![side] =
                 [b.levels[side] EXCEPT ![at].total_shares = @ - removed]]]

execute_order(b, ref, shares) ==
  LET removed == Removed(b, ref, shares)
  IN  IF b.index[ref] = NIL THEN b
      ELSE IF removed = b.pool[b.index[ref]].shares THEN Discard(b, ref)
      ELSE ShrinkOrder(b, ref, removed)

reduce_order(b, ref, shares) == execute_order(b, ref, shares)

\* The side is read before the old order goes; the new one is added as any other.
replace_order(b, old, new, shares, price) ==
  IF b.index[old] = NIL
  THEN b
  ELSE add_order(delete_order(b, old), new, b.pool[b.index[old]].side, shares, price)

-----------------------------------------------------------------------------
(***************************************************************************)
(* The queries.                                                            *)
(***************************************************************************)

contains(b, ref) == b.index[ref] # NIL

order_price(b, ref) == b.pool[b.index[ref]].price
order_side(b, ref)  == b.pool[b.index[ref]].side

bbo(b) ==
  [s \in Side |->
     IF b.levels[s] = << >>
     THEN [has |-> FALSE, price |-> 0, shares |-> 0]
     ELSE [has |-> TRUE, price |-> b.levels[s][1].price,
           shares |-> b.levels[s][1].total_shares]]

depth(b, side, max_levels) ==
  LET ladder == b.levels[side]
      count  == IF max_levels = 0 \/ max_levels > Len(ladder) THEN Len(ladder)
                                                              ELSE max_levels
  IN  [i \in 1 .. count |-> [price |-> ladder[i].price,
                             shares |-> ladder[i].total_shares,
                             order_count |-> ladder[i].order_count]]

\* The node k links on from `from`; a list ends at NIL.
Walk(pool, from) ==
  LET walk[k \in 0 .. Len(pool)] ==
        IF k = 0 THEN from
        ELSE LET n == walk[k - 1] IN IF n = NIL THEN NIL ELSE pool[n].next
  IN  walk

\* The nodes linked from `from` on, in order.  A well formed list has ended after as
\* many links as the pool has nodes.
Chain(pool, from) ==
  LET walk == Walk(pool, from)
  IN  [i \in 1 .. Cardinality({k \in 0 .. Len(pool) : walk[k] # NIL}) |-> walk[i - 1]]

\* The node sequence behind a price: empty when the side has no such level.
LevelChain(b, side, price) ==
  LET at == find_level(b.levels[side], side, price)
  IN  IF at = NIL THEN << >> ELSE Chain(b.pool, b.levels[side][at].head)

OrderView(node) ==
  [reference_number |-> node.reference_number, shares |-> node.shares]

orders_at(b, side, price) ==
  LET nodes == LevelChain(b, side, price)
  IN  [i \in DOMAIN nodes |-> OrderView(b.pool[nodes[i]])]

\* Everything orders_at shows.
queues(b) == [line \in Side \X Price |-> orders_at(b, line[1], line[2])]
=============================================================================
