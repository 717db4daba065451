--------------------------- MODULE LimitOrderBook ---------------------------
(***************************************************************************)
(* itch::LimitOrderBook: price levels that own lists of orders, and a map  *)
(* from reference numbers to positions in those lists.  Unlike L3Book it   *)
(* neither turns away a reference number that already rests nor clamps a   *)
(* quantity to what is left: share counters are unsigned and wrap at       *)
(* Modulus (2^32 in the code).                                             *)
(*                                                                         *)
(* An order object has an identity of its own, so that two objects with    *)
(* one reference number are told apart.                                    *)
(***************************************************************************)
EXTENDS BookCalls, Sequences, SequencesExt, FiniteSets, FiniteSetsExt

CONSTANTS Modulus,      \* number of values of a share counter
          MaxOrders     \* bound on the order objects alive at once
ASSUME LimitOrderBookAssumption ==
  Modulus \in Nat /\ MaxShares < Modulus /\ MaxOrders \in Nat

VARIABLES
  object,      \* [identity -> Order], for the objects alive
  levels,      \* [line -> PriceLevel], for the lines of m_bids and m_asks
  m_orders,    \* [reference number -> identity]
  call,        \* the last message that concerned the book
  duplicated   \* reference numbers that were added while they rested
book == <<object, levels, m_orders>>
vars == <<book, call, duplicated>>
view == <<book, duplicated>>   \* the last call is only for the refinement

Line == Side \X Price
\* The counter that a sum or a difference of two counters leaves.
Wrap(n) == IF n < 0 THEN n + Modulus ELSE IF n >= Modulus THEN n - Modulus ELSE n
LineOf(o) == <<o.side, o.price>>
With(f, k, v) == [x \in DOMAIN f \cup {k} |-> IF x = k THEN v ELSE f[x]]
Without(f, k) == [x \in DOMAIN f \ {k} |-> f[x]]
Free == 1..MaxOrders \ DOMAIN object

Init == /\ object = << >> /\ levels = << >> /\ m_orders = << >>
        /\ call = NoCall /\ duplicated = {}

-----------------------------------------------------------------------------
(* The private operations, on a book [object, levels, m_orders].           *)
State == [object |-> object, levels |-> levels, m_orders |-> m_orders]
NewLevel == [total_shares |-> 0, orders |-> << >>]

\* Mutant: a new order goes to the front of its level (push_front).
add_order_FrontOfQueue(b, id, ref, side, shares, price) ==
  LET line  == <<side, price>>
      level == IF line \in DOMAIN b.levels THEN b.levels[line] ELSE NewLevel
  IN [object   |-> With(b.object, id, [ref |-> ref, side |-> side, price |-> price, shares |-> shares]),
      levels   |-> With(b.levels, line, [total_shares |-> Wrap(level.total_shares + shares),
                                         orders       |-> << id >> \o level.orders]),
      m_orders |-> With(b.m_orders, ref, id)]
add_order(b, id, ref, side, shares, price) ==
  LET line  == <<side, price>>
      level == IF line \in DOMAIN b.levels THEN b.levels[line] ELSE NewLevel
  IN [object   |-> With(b.object, id, [ref |-> ref, side |-> side, price |-> price, shares |-> shares]),
      levels   |-> With(b.levels, line, [total_shares |-> Wrap(level.total_shares + shares),
                                         orders       |-> Append(level.orders, id)]),
      m_orders |-> With(b.m_orders, ref, id)]

Taken(b, id, n) ==
  [object   |-> [b.object EXCEPT ![id].shares = Wrap(@ - n)],
   levels   |-> [b.levels EXCEPT ![LineOf(b.object[id])].total_shares = Wrap(@ - n)],
   m_orders |-> b.m_orders]
\* PriceLevel::remove_order erases at the order's place in its list.
PlaceOf(orders, id) == CHOOSE i \in DOMAIN orders : orders[i] = id
Unlisted(b, id) == [b EXCEPT !.levels[LineOf(b.object[id])].orders = RemoveAt(@, PlaceOf(@, id))]
\* An empty level leaves its map.
Pruned(b, line) == IF b.levels[line].orders = << >> THEN [b EXCEPT !.levels = Without(@, line)] ELSE b
Forgotten(b, ref, id) ==
  [object |-> Without(b.object, id), levels |-> b.levels, m_orders |-> Without(b.m_orders, ref)]

\* Mutant: the reference number is erased after a partial fill.
remove_order_ErasesPartial(b, ref, n) ==
  LET id   == b.m_orders[ref]
      left == Taken(b, id, n)
  IN IF left.object[id].shares # 0 THEN [left EXCEPT !.m_orders = Without(@, ref)]
     ELSE Forgotten(Pruned(Unlisted(left, id), LineOf(b.object[id])), ref, id)
remove_order(b, ref, n) ==
  LET id   == b.m_orders[ref]
      line == LineOf(b.object[id])
      left == Taken(b, id, n)
  IN IF left.object[id].shares # 0 THEN left
     ELSE Forgotten(Pruned(Unlisted(left, id), line), ref, id)

-----------------------------------------------------------------------------
(* The message handlers.  A message of another stock, or about a reference *)
(* number that does not rest, changes nothing.                             *)
Known(ref) == ref \in DOMAIN m_orders
SharesOf(ref) == object[m_orders[ref]].shares
Becomes(b) == object' = b.object /\ levels' = b.levels /\ m_orders' = b.m_orders

HandleAdd(c) ==                                  \* A and F
  /\ c \in AddCall /\ Free # {}
  /\ Becomes(add_order(State, Min(Free), c.ref, c.side, c.shares, c.price))
  /\ call' = c
  /\ duplicated' = IF Known(c.ref) THEN duplicated \cup {c.ref} ELSE duplicated

HandleTake(c) ==                                 \* E, C and X
  /\ c \in ExecuteCall \cup ReduceCall
  /\ IF Known(c.ref) THEN Becomes(remove_order(State, c.ref, c.shares)) ELSE UNCHANGED book
  /\ call' = c
  /\ UNCHANGED duplicated

HandleDelete(c) ==                               \* D
  /\ c \in DeleteCall
  /\ IF Known(c.ref) THEN Becomes(remove_order(State, c.ref, SharesOf(c.ref))) ELSE UNCHANGED book
  /\ call' = c
  /\ UNCHANGED duplicated

HandleReplace(c) ==                              \* U
  /\ c \in ReplaceCall
  /\ IF Known(c.ref)
     THEN LET old  == object[m_orders[c.ref]]
              gone == remove_order(State, c.ref, old.shares)
              id   == Min(1..MaxOrders \ DOMAIN gone.object)
          IN /\ Becomes(add_order(gone, id, c.new, old.side, c.shares, c.price))
             /\ duplicated' = IF c.new \in DOMAIN gone.m_orders THEN duplicated \cup {c.new}
                              ELSE duplicated
     ELSE UNCHANGED <<book, duplicated>>
  /\ call' = c

\* The rules an exchange keeps: a number is not given to a second order while the first
\* rests, and no order loses more than it has.  The handlers do not check them.
KeepsRules(c) ==
  CASE c.op = "add"                 -> ~Known(c.ref)
    [] c.op \in {"execute", "reduce"} -> Known(c.ref) => c.shares <= SharesOf(c.ref)
    [] c.op = "delete"              -> TRUE
    [] c.op = "replace"             -> c.new = c.ref \/ ~Known(c.new)

Next == \/ \E c \in AddCall : HandleAdd(c)
        \/ \E c \in ExecuteCall \cup ReduceCall : HandleTake(c)
        \/ \E c \in DeleteCall : HandleDelete(c)
        \/ \E c \in ReplaceCall : HandleReplace(c)
Spec == Init /\ [][Next]_vars

-----------------------------------------------------------------------------
\* Types of the state.
TypeOK == /\ DOMAIN object \subseteq 1..MaxOrders
          /\ \A id \in DOMAIN object :
               object[id] \in [ref : Ref, side : Side, price : Price, shares : 0..(Modulus - 1)]
          /\ DOMAIN levels \subseteq Line
          /\ \A l \in DOMAIN levels : levels[l].total_shares \in 0..(Modulus - 1)
          /\ DOMAIN m_orders \subseteq Ref

\* The iterators of m_orders are valid: each leads to a live object with that
\* reference number, which is in the list of its own level, once; a level in the maps
\* is never empty, and every listed object is alive.  This is what keeps remove_order
\* from erasing through a dangling iterator or following a stale level pointer, also
\* after duplicates, wrapped quantities and levels that come and go.
IteratorsAreValid ==
  /\ \A ref \in DOMAIN m_orders : /\ m_orders[ref] \in DOMAIN object
                                  /\ object[m_orders[ref]].ref = ref
  /\ \A id \in DOMAIN object : LET l == LineOf(object[id])
                               IN l \in DOMAIN levels /\ Contains(levels[l].orders, id)
  /\ \A l \in DOMAIN levels : /\ levels[l].orders # << >>
                              /\ IsInjective(levels[l].orders)
                              /\ \A id \in Range(levels[l].orders) :
                                   id \in DOMAIN object /\ LineOf(object[id]) = l

\* The shares of the first orders of a list, and of all of them, in the counters' arithmetic.
Sums(objects, orders) ==
  LET sum[i \in 0..Len(orders)] ==
        IF i = 0 THEN 0 ELSE Wrap(sum[i - 1] + objects[orders[i]].shares)
  IN  sum
SharesIn(objects, orders) == Sums(objects, orders)[Len(orders)]

\* A level's total is the sum of its orders' shares, in the counters' arithmetic, even
\* when single orders wrapped around.
TotalsAreSums ==
  \A l \in DOMAIN levels : levels[l].total_shares = SharesIn(object, levels[l].orders)

\* An order that can no longer be reached by its reference number, and so stays on the
\* book for good, is one whose number was added a second time while it rested.
UnreachableOnlyIfDuplicated ==
  \A id \in DOMAIN object :
    object[id].ref \in duplicated
      \/ (Known(object[id].ref) /\ m_orders[object[id].ref] = id)

\* LimitOrderBook stays sound on any feed, also one that reuses numbers and takes more
\* shares than rest: no kept iterator or level pointer dangles, a level's total is the
\* sum of its orders in the counters' arithmetic, and an order becomes unreachable only
\* through a second add of its number.
LegacyBookIsSound ==
  TypeOK /\ IteratorsAreValid /\ TotalsAreSums /\ UnreachableOnlyIfDuplicated

-----------------------------------------------------------------------------
\* A feed that keeps the rules.
NextByRules == Next /\ KeepsRules(call')
SpecByRules == Init /\ [][NextByRules]_vars

\* The queues that the levels stand for.
Orders(lvls, l) == IF l \in DOMAIN lvls THEN lvls[l].orders ELSE << >>
Shown(o) == [reference_number |-> o.ref, shares |-> o.shares]
Queues(objects, lvls) ==
  [l \in Line |-> [i \in DOMAIN Orders(lvls, l) |-> Shown(objects[Orders(lvls, l)[i]])]]
=============================================================================
