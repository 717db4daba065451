------------------------------- MODULE L3Book -------------------------------
(***************************************************************************)
(* The order-level book of include/itch/book/l3_book.hpp as a state        *)
(* machine: one action per public operation, with any arguments a feed can *)
(* carry, unknown and repeated reference numbers included.                 *)
(***************************************************************************)
EXTENDS L3BookOps, BookEffects

VARIABLES
  m_pool,       \* object pool: sequence of order nodes
  m_free_head,  \* first free node, or NIL
  m_levels,     \* [side -> ladder]: m_bids and m_asks
  m_index,      \* [reference number -> pool node or NIL]
  call          \* the last call and its arguments: what a caller sees of a step

bookVars == <<m_pool, m_free_head, m_levels, m_index>>
vars     == <<bookVars, call>>

book == [pool |-> m_pool, free_head |-> m_free_head, levels |-> m_levels,
         index |-> m_index]

Becomes(b) ==
  /\ m_pool' = b.pool
  /\ m_free_head' = b.free_head
  /\ m_levels' = b.levels
  /\ m_index' = b.index

Init ==
  /\ m_pool = EmptyBook.pool
  /\ m_free_head = EmptyBook.free_head
  /\ m_levels = EmptyBook.levels
  /\ m_index = EmptyBook.index
  /\ call = NoCall

AddOrder(c) ==
  /\ Becomes(add_order(book, c.ref, c.side, c.shares, c.price))
  /\ call' = c

ExecuteOrder(c) ==
  /\ Becomes(execute_order(book, c.ref, c.shares))
  /\ call' = c

ReduceOrder(c) ==
  /\ Becomes(reduce_order(book, c.ref, c.shares))
  /\ call' = c

DeleteOrder(c) ==
  /\ Becomes(delete_order(book, c.ref))
  /\ call' = c

ReplaceOrder(c) ==
  /\ Becomes(replace_order(book, c.ref, c.new, c.shares, c.price))
  /\ call' = c

Next ==
  \/ \E c \in AddCall : AddOrder(c)
  \/ \E c \in ExecuteCall : ExecuteOrder(c)
  \/ \E c \in ReduceCall : ReduceOrder(c)
  \/ \E c \in DeleteCall : DeleteOrder(c)
  \/ \E c \in ReplaceCall : ReplaceOrder(c)

Spec == Init /\ [][Next]_vars

-----------------------------------------------------------------------------
(***************************************************************************)
(* Properties.                                                             *)
(***************************************************************************)

\* Type invariant: no operation of the book stores a pool position that the pool
\* does not have, or a share count a message cannot carry.
TypeOK ==
  /\ m_pool \in Seq(OrderNode(Len(m_pool)))
  /\ m_free_head \in 0 .. Len(m_pool)
  /\ m_levels \in [Side -> Seq(Level(Len(m_pool)))]
  /\ m_index \in [Ref -> 0 .. Len(m_pool)]
  /\ call \in Call \cup {NoCall}

FreeChain == Chain(m_pool, m_free_head)

\* The nodes of all level FIFOs, each with the side and price it is queued under.
Queued ==
  UNION {{<<n, s, p>> : n \in ToSet(LevelChain(book, s, p))} : s \in Side, p \in Price}

\* Every node of the pool is on the free list or in exactly one level FIFO, once:
\* freeing, reusing and unlinking nodes neither leaks one nor hands out one that
\* an order still uses.
PoolPartition ==
  /\ IsInjective(FreeChain)
  /\ \A s \in Side, p \in Price : IsInjective(LevelChain(book, s, p))
  /\ \A n \in DOMAIN m_pool :
       Cardinality({q \in Queued : q[1] = n})
         = IF n \in ToSet(FreeChain) THEN 0 ELSE 1

\* The backward links and the tail of a level mirror its forward chain, and each
\* node is queued under its own side and price.  unlink_node relies on both.
FifoWellLinked ==
  \A s \in Side : \A i \in DOMAIN m_levels[s] :
    LET level == m_levels[s][i]
        chain == Chain(m_pool, level.head)
    IN  /\ chain # << >> /\ Last(chain) = level.tail
        /\ \A k \in DOMAIN chain :
             /\ m_pool[chain[k]].prev = IF k = 1 THEN NIL ELSE chain[k - 1]
             /\ m_pool[chain[k]].side = s
             /\ m_pool[chain[k]].price = level.price

\* A reference number is indexed exactly when an order with it is queued, and the
\* index names that order's node: no lookup reaches a freed or reused node.
IndexFindsEveryOrder ==
  \A r \in Ref :
    {q[1] : q \in {x \in Queued : m_pool[x[1]].reference_number = r}}
      = IF m_index[r] = NIL THEN {} ELSE {m_index[r]}

\* The book's three structures - the pool with its free list, the level FIFOs and the
\* index - agree on which nodes hold an order, where it queues and how it is found,
\* whatever sequence of l3_book.cpp's calls reused and unlinked the nodes.
StructureIsSound == PoolPartition /\ FifoWellLinked /\ IndexFindsEveryOrder

\* The prices at which orders rest.
HeldPrices(side) == {p \in Price : orders_at(book, side, p) # << >>}

\* The aggregates the book keeps incrementally are exact: depth() has one line for each
\* price that holds an order, best first, with what the orders resting there add up to
\* and no empty level left behind, and bbo() is the best of these prices.
DepthIsExact ==
  \A s \in Side :
    LET lines == depth(book, s, 0)
        best  == bbo(book)[s]
    IN  /\ {lines[i].price : i \in DOMAIN lines} = HeldPrices(s)
        /\ \A i, j \in DOMAIN lines : i < j => Better(s, lines[i].price, lines[j].price)
        /\ \A i \in DOMAIN lines :
             LET orders == orders_at(book, s, lines[i].price)
             IN  lines[i].shares = SharesOf(orders) /\ lines[i].order_count = Len(orders)
        /\ best.has = (HeldPrices(s) # {})
        /\ best.has => /\ best.price \in HeldPrices(s)
                       /\ \A p \in HeldPrices(s) : ~ Better(s, p, best.price)
                       /\ best.shares = SharesOf(orders_at(book, s, best.price))

\* Every call has exactly the effect BookEffects gives it, on the right order, with time
\* priority kept, unknown and repeated reference numbers included: what orders_at shows
\* of the pool, the links, the ladders and the index before and after the call.
CallsHaveTheirEffect ==
  /\ queues(book) = NoOrders
  /\ [][/\ call' \in Call
        /\ \E b \in {book}, c \in {book'} : queues(c) = Effect(queues(b), call')]_vars

Abstract == INSTANCE BookSpec WITH queue <- queues(book)

\* The pool, the links, the ladders and the index together implement the abstract book.
ImplementsBookSpec == Abstract!Spec
=============================================================================
