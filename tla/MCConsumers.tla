---------------------------- MODULE MCConsumers ----------------------------
(***************************************************************************)
(* Small instances for TLC of the classes that consume a feed (Consumers), *)
(* and of Microstructure.  LimitOrderBook is driven by "any_feed" and by a *)
(* "well_behaved" one, on which the refinement is checked; "metrics" is    *)
(* Microstructure, "bars", "averages" and "auctions" are the others.       *)
(***************************************************************************)
EXTENDS Consumers

\* Three orders at two prices: queues of several orders and several levels.
MCRef == 1 .. 3
MCPrice == {1, 2}

\* Four trades that may step over a bucket: quantities below and above PerBar, two time
\* buckets, one exception.
MCBarPrices == {1, 2}
MCBarQuantities == {1, 3}

\* Samples without shares, and times that repeat, step back and leap.
MCPrices == {1, 3}
MCQuantities == {0, 2}
MCTimes == {0, 1, 4}

\* Two securities, so that one publishes between the imbalance and the cross of the other.
MCLocate == {1, 2}
MCCrossType == {"O", "C"}
MCQuantity == {1, 2}

VARIABLES snapshot, previous, last_call
metricsVars == <<snapshot, previous, last_call>>
Metrics == INSTANCE Microstructure WITH book <- snapshot, call <- last_call

\* Two numbers at one price: orders pile up under one number, and counters wrap.
Piled(c) == /\ c.ref \in {1, 2}
            /\ c.op \in {"add", "replace"} => c.price = 1
            /\ c.op = "replace" => c.new \in {1, 2}
\* Small quantities are enough where nothing wraps.
Small(c) == c.op # "delete" => c.shares <= 1

\* Only the time clock reads the time.
Timely == m_clock = "time" \/ \A i \in DOMAIN tape' : tape'[i].timestamp = 0

MCInit ==
  /\ part \in {"any_feed", "well_behaved", "metrics", "bars", "averages", "auctions"}
  /\ Init /\ Metrics!Init /\ Builder!Init /\ Running!Init /\ Tracker!Init
  /\ part # "bars" => m_clock = "time"

MCNext ==
  /\ UNCHANGED part
  /\ \/ /\ part = "any_feed" /\ Next /\ Piled(call')
        /\ UNCHANGED <<metricsVars, barsVars, averagesVars, auctionsVars>>
     \/ /\ part = "well_behaved" /\ NextByRules /\ Small(call')
        /\ UNCHANGED <<metricsVars, barsVars, averagesVars, auctionsVars>>
     \/ /\ part = "metrics" /\ Metrics!Next
        /\ UNCHANGED <<vars, barsVars, averagesVars, auctionsVars>>
     \/ /\ part = "bars" /\ Builder!Next /\ Timely
        /\ UNCHANGED <<vars, metricsVars, averagesVars, auctionsVars>>
     \/ /\ part = "averages" /\ Running!Next
        /\ UNCHANGED <<vars, metricsVars, barsVars, auctionsVars>>
     \/ /\ part = "auctions" /\ Tracker!Next
        /\ UNCHANGED <<vars, metricsVars, barsVars, averagesVars>>

MCSpec == MCInit /\ [][MCNext]_<<part, vars, metricsVars, barsVars, averagesVars, auctionsVars>>

\* Without the calls and the BBO before the last one: they are only reported.
MCView == <<part, view, snapshot, barsVars, averagesVars, auctionsVars>>

\* depth_at_level counts, order by order, the shares that rest at the best prices asked
\* for, and queue_imbalance stays between -1 and 1.
MetricsAreExact == Metrics!TypeOK /\ Metrics!DepthIsRestingShares

\* order_flow_imbalance: what one call does to the bid flow is what it did to the shares
\* that rest at the previous best bid or better.
BidFlowIsWhatHappened == Metrics!BidFlowIsWhatHappened
=============================================================================
