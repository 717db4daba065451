-------------------------------- MODULE Bars --------------------------------
(***************************************************************************)
(* itch::analytics::BarBuilder over its three clocks.  The callback may    *)
(* throw, which leaves add() or flush() before the bar is given up and     *)
(* before the trade is folded in.                                          *)
(***************************************************************************)
EXTENDS Integers, Sequences, FiniteSetsExt

CONSTANTS Prices, Quantities,  \* of a trade
          PerBar,              \* interval_ns, ticks_per_bar or volume_per_bar, not 0
          MaxTrades,           \* bound on the trades added
          MaxTime,             \* bound on timestamps
          MaxThrows            \* bound on the callbacks that throw

VARIABLES
  m_clock, m_bar, m_has_bar, m_cumulative_volume, m_tick_index,
  tape,      \* history: the trades that were added
  bars,      \* the bars the callback took, each with the tape's length at the time
  flushed,   \* history: tape lengths at which flush() was called
  throws
members == <<m_bar, m_has_bar, m_cumulative_volume, m_tick_index>>
vars == <<m_clock, members, tape, bars, flushed, throws>>

NoBar == [bucket |-> 0, start |-> 0, end |-> 0, open |-> 0, high |-> 0, low |-> 0, close |-> 0,
          volume |-> 0, trade_count |-> 0]

Init == /\ m_clock \in {"time", "tick", "volume"}
        /\ m_bar = NoBar /\ m_has_bar = FALSE /\ m_cumulative_volume = 0 /\ m_tick_index = 0
        /\ tape = << >> /\ bars = << >> /\ flushed = {} /\ throws = 0

\* The clocks.  The volume is the one before this trade is counted.
TimeClock(trade)  == trade.timestamp \div PerBar
TickClock         == m_tick_index \div PerBar
VolumeClock       == m_cumulative_volume \div PerBar
bucket(trade) == CASE m_clock = "time"   -> TimeClock(trade)
                   [] m_clock = "tick"   -> TickClock
                   [] m_clock = "volume" -> VolumeClock

\* Mutant: only a later bucket ends the bar by more than one.
Closes_Late(trade) == m_has_bar /\ bucket(trade) > m_bar.bucket + 1
Closes(trade) == m_has_bar /\ bucket(trade) # m_bar.bucket

\* The bar a trade begins, and the bar it is added to.
Begun(trade) ==
  [bucket |-> bucket(trade), start |-> trade.timestamp, end |-> 0, open |-> trade.price,
   high |-> trade.price, low |-> trade.price, close |-> 0, volume |-> 0, trade_count |-> 0]
Folded(bar, trade) ==
  [bucket |-> bar.bucket, start |-> bar.start, end |-> trade.timestamp, open |-> bar.open,
   high |-> Max({bar.high, trade.price}), low |-> Min({bar.low, trade.price}),
   close |-> trade.price, volume |-> bar.volume + trade.shares,
   trade_count |-> bar.trade_count + 1]

emit == bars' = Append(bars, [bar |-> m_bar, upto |-> Len(tape)])

add(trade) ==
  /\ Len(tape) < MaxTrades
  /\ IF Closes(trade) THEN emit ELSE UNCHANGED bars
  /\ m_bar' = Folded(IF m_has_bar /\ ~Closes(trade) THEN m_bar ELSE Begun(trade), trade)
  /\ m_has_bar' = TRUE
  /\ m_cumulative_volume' = m_cumulative_volume + trade.shares
  /\ m_tick_index' = m_tick_index + 1
  /\ tape' = Append(tape, trade)
  /\ UNCHANGED <<m_clock, flushed, throws>>
flush == /\ IF m_has_bar THEN emit ELSE UNCHANGED bars
         /\ m_has_bar' = FALSE /\ flushed' = flushed \cup {Len(tape)}
         /\ UNCHANGED <<m_clock, m_bar, m_cumulative_volume, m_tick_index, tape, throws>>
\* The callback throws out of emit(): nothing has changed.
EmitThrows == /\ throws < MaxThrows /\ throws' = throws + 1
              /\ UNCHANGED <<m_clock, members, tape, bars, flushed>>
AddThrows(trade) == Len(tape) < MaxTrades /\ Closes(trade) /\ EmitThrows
FlushThrows == m_has_bar /\ EmitThrows

\* Trades come in timestamp order.
Trade == {t \in [price : Prices, shares : Quantities, timestamp : 0..MaxTime] :
            tape # << >> => t.timestamp >= tape[Len(tape)].timestamp}
Next == flush \/ FlushThrows \/ \E t \in Trade : add(t) \/ AddThrows(t)
Spec == Init /\ [][Next]_vars

-----------------------------------------------------------------------------
\* The shares of the first i trades of a stretch of tape.
Volumes(s) == LET V[i \in 0..Len(s)] == IF i = 0 THEN 0 ELSE V[i - 1] + s[i].shares
              IN V
VolumeBefore(i) == Volumes(tape)[i - 1]
\* The bucket of the i-th trade of the tape.
BucketOf(i) == CASE m_clock = "time"   -> tape[i].timestamp \div PerBar
                 [] m_clock = "tick"   -> (i - 1) \div PerBar
                 [] m_clock = "volume" -> VolumeBefore(i) \div PerBar
\* The bars so far, the unfinished one included, and the stretch of tape of each.
AllBars == bars \o (IF m_has_bar THEN <<[bar |-> m_bar, upto |-> Len(tape)]>> ELSE << >>)
From(k) == IF k = 1 THEN 1 ELSE AllBars[k - 1].upto + 1
Stretch(k) == SubSeq(tape, From(k), AllBars[k].upto)
PricesOf(s) == {s[i].price : i \in DOMAIN s}
Summary(s) ==
  [start |-> s[1].timestamp, end |-> s[Len(s)].timestamp, open |-> s[1].price,
   close |-> s[Len(s)].price, high |-> Max(PricesOf(s)), low |-> Min(PricesOf(s)),
   volume |-> Volumes(s)[Len(s)], trade_count |-> Len(s)]

\* Type invariant.
TypeOK == /\ m_tick_index = Len(tape) /\ m_has_bar \in BOOLEAN
          /\ m_cumulative_volume \in Nat /\ throws \in 0..MaxThrows

\* The bars cut the tape into stretches without gap or overlap, and each is the summary
\* of its stretch, also when callbacks throw and bars are flushed half way.
BarsPartitionTape ==
  /\ AllBars # << >> => Stretch(Len(AllBars)) # << >> /\ AllBars[Len(AllBars)].upto = Len(tape)
  /\ \A k \in DOMAIN AllBars : \A field \in DOMAIN Summary(Stretch(k)) :
       AllBars[k].bar[field] = Summary(Stretch(k))[field]

\* All trades of a bar lie in its bucket, and only a flush splits a bucket between bars.
BarsFollowClock ==
  /\ \A k \in DOMAIN AllBars : \A i \in From(k)..AllBars[k].upto : BucketOf(i) = AllBars[k].bar.bucket
  /\ \A k \in 2..Len(AllBars) :
       AllBars[k].bar.bucket = AllBars[k - 1].bar.bucket => AllBars[k - 1].upto \in flushed
=============================================================================
