--------------------------- MODULE Microstructure ---------------------------
(***************************************************************************)
(* The metrics of include/itch/analytics/microstructure.hpp over a book    *)
(* that a feed drives: a consumer keeps the BBO of the previous call and   *)
(* compares it with the current one.  Prices are raw integers, ratios are  *)
(* kept as <<numerator, denominator>>.                                     *)
(***************************************************************************)
EXTENDS L3BookOps

VARIABLES book,      \* the L3Book behind the snapshots
          previous,  \* the BBO before the last call
          call       \* the last call
vars == <<book, previous, call>>

Init == book = EmptyBook /\ previous = bbo(EmptyBook) /\ call = NoCall

Calls(c, after) == book' = after /\ previous' = bbo(book) /\ call' = c

Next ==
  \/ \E c \in AddCall : Calls(c, add_order(book, c.ref, c.side, c.shares, c.price))
  \/ \E c \in ExecuteCall : Calls(c, execute_order(book, c.ref, c.shares))
  \/ \E c \in DeleteCall : Calls(c, delete_order(book, c.ref))
  \/ \E c \in ReplaceCall : Calls(c, replace_order(book, c.ref, c.new, c.shares, c.price))
Spec == Init /\ [][Next]_vars

-----------------------------------------------------------------------------
NaN == <<0, 0>>
TwoSided(top) == top["B"].has /\ top["S"].has

spread(top)    == IF TwoSided(top) THEN <<top["S"].price - top["B"].price, 1>> ELSE NaN
mid_price(top) == IF TwoSided(top) THEN <<top["B"].price + top["S"].price, 2>> ELSE NaN

queue_imbalance(top) ==
  LET total == top["B"].shares + top["S"].shares
  IN  IF total <= 0 THEN NaN ELSE <<top["B"].shares - top["S"].shares, total>>

\* Mutant: the last of the levels asked for is left out.
depth_at_level_OneLess(b, side, levels) ==
  LET d == depth(b, side, levels)
  IN  FoldFunctionOnSet(LAMBDA level, sum : level.shares + sum, 0, d, 1 .. Len(d) - 1)
depth_at_level(b, side, levels) ==
  FoldFunction(LAMBDA level, sum : level.shares + sum, 0, depth(b, side, levels))

\* Mutant: a bid that falls counts what is there now.
bid_flow_Current(prev, curr) ==
  IF curr.price > prev.price THEN curr.shares
  ELSE IF curr.price = prev.price THEN curr.shares - prev.shares
  ELSE - curr.shares
bid_flow(prev, curr) ==
  IF curr.price > prev.price THEN curr.shares
  ELSE IF curr.price = prev.price THEN curr.shares - prev.shares
  ELSE - prev.shares
ask_flow(prev, curr) ==
  IF curr.price > prev.price THEN prev.shares
  ELSE IF curr.price = prev.price THEN curr.shares - prev.shares
  ELSE - curr.shares
order_flow_imbalance(prev, curr) ==
  bid_flow(prev["B"], curr["B"]) - ask_flow(prev["S"], curr["S"])

-----------------------------------------------------------------------------
\* The shares an ideal book would show at a side's prices that pass a test.
Resting(b, side, prices) ==
  LET nodes == {n \in DOMAIN b.pool : /\ \E r \in Ref : b.index[r] = n
                                      /\ b.pool[n].side = side /\ b.pool[n].price \in prices}
  IN  FoldFunctionOnSet(LAMBDA node, sum : node.shares + sum, 0, b.pool, nodes)

\* Type invariant: an average price, a spread and an imbalance over what is there.
TypeOK ==
  LET top == bbo(book)
      q   == queue_imbalance(top)
  IN  /\ previous \in [Side -> [has : BOOLEAN, price : Price \cup {0}, shares : Nat]]
      /\ spread(top) = NaN <=> mid_price(top) = NaN
      /\ q # NaN => - q[2] <= q[1] /\ q[1] <= q[2]
      /\ q = NaN <=> top["B"].shares = 0 /\ top["S"].shares = 0

\* depth_at_level counts, order by order, the shares that rest at the best prices asked
\* for, and the whole side when 0 or more levels than there are were asked for.
DepthIsRestingShares ==
  \A s \in Side : \A k \in 0 .. Cardinality(Price) :
    LET prices == {book.levels[s][i].price : i \in DOMAIN book.levels[s]}
        best   == {p \in prices : Cardinality({q \in prices : Better(s, q, p)}) < k}
    IN  depth_at_level(book, s, k) = Resting(book, s, IF k = 0 THEN Price ELSE best)

\* What one add, execution or deletion of a bid does to the flow is what it did to the
\* shares that rest at the previous best bid or better, however the best price moved.
BidFlowIsWhatHappened ==
  [][LET top   == bbo(book)
         after == bbo(book')
         reach == {p \in Price : p >= top["B"].price}
     IN  (call'.op # "replace" /\ top["S"] = after["S"]) =>
           order_flow_imbalance(previous', after) =
             Resting(book', "B", reach) - Resting(book, "B", reach)]_vars

\* The comment on order_flow_imbalance: "the standard order-flow-imbalance contribution
\* of Cont, Kukanov and Stoikov", for which an offer that retreats takes away the size
\* that was there and an offer that improves adds the size that is there now.
FlowIsStandard ==
  LET top      == bbo(book)
      standard == IF top["S"].price > previous["S"].price THEN - previous["S"].shares
                  ELSE IF top["S"].price = previous["S"].price
                  THEN top["S"].shares - previous["S"].shares
                  ELSE top["S"].shares
  IN  (TwoSided(previous) /\ TwoSided(top)) =>
        order_flow_imbalance(previous, top) = bid_flow(previous["B"], top["B"]) - standard
=============================================================================
