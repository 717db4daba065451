------------------------------ MODULE Averages ------------------------------
(***************************************************************************)
(* itch::analytics::Vwap and Twap, fed side by side: running averages that *)
(* keep only sums, reset at the start of each interval.  Prices are raw    *)
(* integers, so the sums are exact; a value is the fraction numerator /    *)
(* denominator.  Timestamps may come in any order.                         *)
(***************************************************************************)
EXTENDS Integers, FiniteSets

CONSTANTS Prices, Quantities, Times,
          MaxSamples  \* bound on the samples of an interval

VARIABLES m_price_volume, m_volume,                                        \* Vwap
          m_price_time, m_total_time, m_last_price, m_last_timestamp, m_has_sample,  \* Twap
          samples  \* history: [price, shares, timestamp] since the last reset, numbered
vwap == <<m_price_volume, m_volume>>
twap == <<m_price_time, m_total_time, m_last_price, m_last_timestamp, m_has_sample>>
vars == <<vwap, twap, samples>>

Cleared == /\ m_price_volume = 0 /\ m_volume = 0
           /\ m_price_time = 0 /\ m_total_time = 0 /\ m_last_price = 0 /\ m_last_timestamp = 0
           /\ m_has_sample = FALSE
Init == Cleared /\ samples = {}

vwap_add(price, shares) == /\ m_price_volume' = m_price_volume + price * shares
                           /\ m_volume' = m_volume + shares
elapsed(timestamp) ==
  IF m_has_sample /\ timestamp > m_last_timestamp THEN timestamp - m_last_timestamp ELSE 0
twap_add(price, timestamp) ==
  /\ m_price_time' = m_price_time + m_last_price * elapsed(timestamp)
  /\ m_total_time' = m_total_time + elapsed(timestamp)
  /\ m_last_price' = price /\ m_last_timestamp' = timestamp /\ m_has_sample' = TRUE

\* Mutant: the last sample of the previous interval stays.
twap_reset_KeepsSample == /\ m_price_time' = 0 /\ m_total_time' = 0
                          /\ UNCHANGED <<m_last_price, m_last_timestamp, m_has_sample>>
twap_reset == /\ m_price_time' = 0 /\ m_total_time' = 0 /\ m_last_price' = 0
              /\ m_last_timestamp' = 0 /\ m_has_sample' = FALSE
vwap_reset == m_price_volume' = 0 /\ m_volume' = 0

Add(p, q, t) == /\ Cardinality(samples) < MaxSamples
                /\ vwap_add(p, q) /\ twap_add(p, t)
                /\ samples' = samples \cup
                     {[n |-> Cardinality(samples) + 1, price |-> p, shares |-> q, timestamp |-> t]}
Reset == vwap_reset /\ twap_reset /\ samples' = {}
Next == Reset \/ \E p \in Prices, q \in Quantities, t \in Times : Add(p, q, t)
Spec == Init /\ [][Next]_vars

NaN == <<0, 0>>
vwap_value == IF m_volume = 0 THEN NaN ELSE <<m_price_volume, m_volume>>
twap_value == IF m_total_time > 0 THEN <<m_price_time, m_total_time>>
              ELSE IF m_has_sample THEN <<m_last_price, 1>> ELSE NaN

-----------------------------------------------------------------------------
Sample(n) == CHOOSE s \in samples : s.n = n
\* Type invariant: nothing the code keeps in an unsigned integer goes below zero.
TypeOK == {m_price_volume, m_volume, m_price_time, m_total_time, m_last_price, m_last_timestamp} \subseteq Nat

\* An average lies between the lowest and the highest price of its own interval: no
\* sample of an earlier one, no step back in time and no sample without shares gets in.
AveragesStayInRange ==
  \A v \in {vwap_value, twap_value} :
    v # NaN => \A bound \in Prices :
      /\ (\A s \in samples : s.price >= bound) => v[1] >= bound * v[2]
      /\ (\A s \in samples : s.price <= bound) => v[1] <= bound * v[2]

\* In timestamp order, the time the TWAP has weighted is exactly the span observed.
TwapCoversTheSpan ==
  (samples # {} /\ \A s, r \in samples : s.n <= r.n => s.timestamp <= r.timestamp) =>
    m_total_time = Sample(Cardinality(samples)).timestamp - Sample(1).timestamp
=============================================================================
