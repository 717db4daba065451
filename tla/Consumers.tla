----------------------------- MODULE Consumers -----------------------------
(***************************************************************************)
(* The classes that consume a feed, side by side: the legacy               *)
(* LimitOrderBook, and of the analytics BarBuilder, Vwap with Twap, and    *)
(* AuctionTracker.  They share no state; `part' says which of them a       *)
(* behaviour is about.                                                     *)
(***************************************************************************)
EXTENDS LimitOrderBook

CONSTANTS
  BarPrices, BarQuantities, PerBar, MaxTrades, MaxTime, MaxThrows,      \* of Bars
  Prices, Quantities, Times, MaxSamples,                                \* of Averages
  Locate, CrossType, Quantity, MaxMessages                              \* of Auctions

VARIABLES
  part,
  m_clock, m_bar, m_has_bar, m_cumulative_volume, m_tick_index,         \* bars
  tape, bars, flushed, throws,
  m_price_volume, m_volume, m_price_time, m_total_time, m_last_price,   \* averages
  m_last_timestamp, m_has_sample, samples,
  m_latest_imbalance, m_callback, feed, auctions                        \* auctions

\* Prices, shares and timestamps are unsigned integers of the wire.
ASSUME AveragesAssumption == Prices \subseteq Nat /\ Quantities \subseteq Nat /\ Times \subseteq Nat
ASSUME BarsAssumption == /\ BarPrices \subseteq Nat /\ BarQuantities \subseteq Nat
                         /\ MaxThrows \in Nat

barsVars     == <<m_clock, m_bar, m_has_bar, m_cumulative_volume, m_tick_index, tape, bars,
                  flushed, throws>>
averagesVars == <<m_price_volume, m_volume, m_price_time, m_total_time, m_last_price,
                  m_last_timestamp, m_has_sample, samples>>
auctionsVars == <<m_latest_imbalance, m_callback, feed, auctions>>

Builder == INSTANCE Bars WITH Prices <- BarPrices, Quantities <- BarQuantities
Running == INSTANCE Averages
Tracker == INSTANCE Auctions

-----------------------------------------------------------------------------
\* With the other parts at rest, each of their steps is a stutter of the abstract book.
Abstract ==
  INSTANCE BookSpec WITH
    queue <- IF part = "well_behaved" THEN Queues(object, levels) ELSE Queues(<< >>, << >>),
    call  <- IF part = "well_behaved" THEN call ELSE NoCall

\* On a feed that keeps the exchange's rules order_book.cpp implements the same abstract
\* book as L3Book: queues in time priority, exact quantities.
LegacyImplementsBookSpec == Abstract!Spec

\* BarBuilder: the bars cut the tape without gap or overlap, whatever throws; all trades
\* of a bar lie in its bucket, and only a flush splits a bucket.
BarsAreExact == Builder!TypeOK /\ Builder!BarsPartitionTape /\ Builder!BarsFollowClock

\* Vwap and Twap: an average lies between the prices of its own interval, and in
\* timestamp order the time weighted is the span observed.
AveragesAreExact ==
  Running!TypeOK /\ Running!AveragesStayInRange /\ Running!TwapCoversTheSpan

\* AuctionTracker: every cross is paired with the last imbalance of its own security.
AuctionsFollowFeed == Tracker!TypeOK /\ Tracker!AuctionsFollowFeed
=============================================================================
