---------------------------- MODULE BookEffects ----------------------------
(***************************************************************************)
(* What each call means for an order-level book: for each side and price   *)
(* (a line) there is a queue of orders in time priority, and every call    *)
(* has an exact effect on the queues.  Module BookSpec is the state        *)
(* machine of these effects.                                               *)
(***************************************************************************)
EXTENDS BookCalls, Sequences, SequencesExt

Line == Side \X Price

Order(ref, n) == [reference_number |-> ref, shares |-> n]

NoOrders == [l \in Line |-> << >>]

Holds(orders, ref) == \E i \in DOMAIN orders : orders[i].reference_number = ref

\* An order's place in its queue.
PlaceOf(orders, ref) == CHOOSE i \in DOMAIN orders : orders[i].reference_number = ref

Rests(q, ref) == \E l \in Line : Holds(q[l], ref)

\* The line an order rests on.
LineOf(q, ref) == CHOOSE l \in Line : Holds(q[l], ref)

\* The shares of the first k orders of a queue.
Sums(orders) ==
  LET sum[k \in 0 .. Len(orders)] == IF k = 0 THEN 0 ELSE sum[k - 1] + orders[k].shares
  IN  sum

SharesOf(orders) == Sums(orders)[Len(orders)]

\* A reference number rests at most once: adding it again changes nothing.
Added(q, ref, side, n, price) ==
  IF Rests(q, ref) THEN q
  ELSE [q EXCEPT ![<<side, price>>] = Append(@, Order(ref, n))]

\* The orders behind one that leaves move up.
Deleted(q, ref) ==
  IF Rests(q, ref)
  THEN [q EXCEPT ![LineOf(q, ref)] = RemoveAt(@, PlaceOf(@, ref))]
  ELSE q

\* The shares an execution or a partial cancel of n leaves of an order.
Left(order, n) == IF n < order.shares THEN order.shares - n ELSE 0

\* Executions and partial cancels keep the order's place in its queue, and take the
\* order away once nothing is left of it.
Filled(q, ref, n) ==
  LET l    == LineOf(q, ref)
      i    == PlaceOf(q[l], ref)
      left == Left(q[l][i], n)
  IN  IF ~ Rests(q, ref) THEN q
      ELSE IF left = 0 THEN Deleted(q, ref)
      ELSE [q EXCEPT ![l][i] = Order(ref, left)]

\* The new order joins the end of a queue on the old order's side.  It is dropped,
\* and the old one is gone, when its number belongs to another resting order.
Replaced(q, old, new, n, price) ==
  IF Rests(q, old)
  THEN Added(Deleted(q, old), new, LineOf(q, old)[1], n, price)
  ELSE q

Effect(q, c) ==
  CASE c.op = "add"                  -> Added(q, c.ref, c.side, c.shares, c.price)
    [] c.op \in {"execute", "reduce"} -> Filled(q, c.ref, c.shares)
    [] c.op = "delete"               -> Deleted(q, c.ref)
    [] c.op = "replace"              -> Replaced(q, c.ref, c.new, c.shares, c.price)
=============================================================================
