--------------------------- MODULE SequencingOps ---------------------------
(***************************************************************************)
(* itch::transport::SequenceTracker as a value and the operations on it.   *)
(*                                                                         *)
(* Sequence numbers are natural numbers: at 2^64 of them per session the   *)
(* wrap-around of the code's counters is out of reach of any feed.         *)
(***************************************************************************)
EXTENDS Integers

CONSTANT Session   \* session identifiers

\* No entry in m_expected_by_session.
Unseen == -1

NewTracker ==
  [expected |-> [s \in Session |-> Unseen], gap_count |-> 0, messages_seen |-> 0]

Known(t, s) == t.expected[s] # Unseen

\* Mutant: the packet's own first message counts as missing.
Gap_CountsFirst(t, s, first) ==
  IF Known(t, s) /\ first > t.expected[s] THEN first - t.expected[s] + 1 ELSE 0

\* The missing messages a packet starting at `first` reveals: observe's result, and
\* the count it passes to request_retransmit along with the start t.expected[s].
Gap(t, s, first) ==
  IF Known(t, s) /\ first > t.expected[s] THEN first - t.expected[s] ELSE 0

\* Mutant: the callback gets the number after the expected one.
Missing_FromNext(t, s, first) ==
  IF Known(t, s) THEN t.expected[s] + 1 .. first - 1 ELSE {}

\* Those sequence numbers, as the gap callback describes them.
Missing(t, s, first) ==
  IF Known(t, s) THEN t.expected[s] .. first - 1 ELSE {}

\* Messages of the packet beyond everything expected so far.
NewMessages(t, s, first, count) ==
  IF ~ Known(t, s) THEN count
  ELSE IF first + count <= t.expected[s] THEN 0
  ELSE LET already_seen == IF t.expected[s] > first THEN t.expected[s] - first ELSE 0
       IN  count - (IF count < already_seen THEN count ELSE already_seen)

\* Mutant: an old packet takes the expectation back.
Expected_Rewinds(t, s, first, count) == first + count

\* Mutant: a gap is noticed but the expectation stays before it.
Expected_NoResync(t, s, first, count) ==
  IF ~ Known(t, s) \/ first <= t.expected[s] THEN first + count ELSE t.expected[s]

\* The expectation the packet leaves behind.
Expected(t, s, first, count) ==
  IF ~ Known(t, s) \/ first + count > t.expected[s] THEN first + count
                                                    ELSE t.expected[s]

observe(t, s, first, count) ==
  [expected      |-> [t.expected EXCEPT ![s] = Expected(t, s, first, count)],
   gap_count     |-> t.gap_count + Gap(t, s, first),
   messages_seen |-> t.messages_seen + NewMessages(t, s, first, count)]
=============================================================================
