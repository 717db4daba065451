-------------------------- MODULE SequenceTracker --------------------------
(***************************************************************************)
(* The sequence tracker of include/itch/transport/sequencing.hpp, fed with *)
(* packets in any order: lost, repeated, overlapping and late ones.        *)
(***************************************************************************)
EXTENDS SequencingOps, FiniteSets

CONSTANTS
  MaxSequence,   \* bound on the sequence numbers of packets
  MaxCount       \* largest number of messages in a packet

ASSUME BoundAssumption == MaxSequence \in Nat /\ MaxCount \in Nat

VARIABLES
  m_expected,        \* [session -> next sequence number, or Unseen]
  m_gap_count,
  m_messages_seen,
  anchor,            \* history: [session -> the first sequence number seen]
  observed,          \* history: [session -> numbers some packet carried]
  reported           \* history: [session -> numbers reported as missing]

vars == <<m_expected, m_gap_count, m_messages_seen, anchor, observed, reported>>

tracker == [expected |-> m_expected, gap_count |-> m_gap_count,
            messages_seen |-> m_messages_seen]

Becomes(t) ==
  /\ m_expected' = t.expected
  /\ m_gap_count' = t.gap_count
  /\ m_messages_seen' = t.messages_seen

NoAnchor  == [s \in Session |-> Unseen]
NoNumbers == [s \in Session |-> {}]

Init ==
  /\ m_expected = NewTracker.expected
  /\ m_gap_count = 0
  /\ m_messages_seen = 0
  /\ anchor = NoAnchor
  /\ observed = NoNumbers
  /\ reported = NoNumbers

\* A packet with messages first .. first + count - 1; none for a heartbeat.
Observe(s, first, count) ==
  /\ Becomes(observe(tracker, s, first, count))
  /\ anchor' = [anchor EXCEPT ![s] = IF Known(tracker, s) THEN @ ELSE first]
  /\ observed' = [observed EXCEPT ![s] = @ \cup (first .. first + count - 1)]
  /\ reported' = [reported EXCEPT ![s] = @ \cup Missing(tracker, s, first)]

\* The history starts over with the counters.
Reset ==
  /\ Becomes(NewTracker)
  /\ anchor' = NoAnchor
  /\ observed' = NoNumbers
  /\ reported' = NoNumbers

Next ==
  \/ \E s \in Session, first \in 0 .. MaxSequence, count \in 0 .. MaxCount :
       Observe(s, first, count)
  \/ Reset

Spec == Init /\ [][Next]_vars

-----------------------------------------------------------------------------
(***************************************************************************)
(* Properties.                                                             *)
(***************************************************************************)

\* Type invariant.
TypeOK ==
  /\ m_expected \in [Session -> Nat \cup {Unseen}]
  /\ m_gap_count \in Nat
  /\ m_messages_seen \in Nat
  /\ anchor \in [Session -> Nat \cup {Unseen}]
  /\ observed \in [Session -> SUBSET Nat]
  /\ reported \in [Session -> SUBSET Nat]

\* Numbers between the anchor and the expectation: what the tracker has passed.
Passed(s) == IF m_expected[s] = Unseen THEN {} ELSE anchor[s] .. m_expected[s] - 1

\* The tracker never moves past a sequence number in silence: each one it has passed
\* came in a packet or was reported as missing.
NoSilentSkip == \A s \in Session : Passed(s) \subseteq observed[s] \cup reported[s]

\* A gap report names only numbers nobody has seen and nobody has reported: late,
\* repeated and overlapping packets raise no false and no second alarm.
NoFalseGap ==
  [][\A s \in Session :
       LET news == reported'[s] \ reported[s]
       IN  /\ news \cap observed[s] = {}
           /\ \A n \in news : n >= m_expected[s]]_vars

\* The numbers of all sessions, each with its session.
Numbers(of) == UNION {{s} \X of[s] : s \in Session}

\* gap_count() counts every reported number once, over all sessions.
GapCountIsExact == m_gap_count = Cardinality(Numbers(reported))

\* The numbers that came in time: passed, and not reported as missing before they came.
InTime == [s \in Session |-> Passed(s) \ reported[s]]

\* messages_seen() counts a number once however often it came, and leaves out what
\* came late: numbers already reported as missing, and those before the anchor.
SeenCountsFirstArrivals == m_messages_seen = Cardinality(Numbers(InTime))

\* The statistics of SequenceTracker are exact in every order of arrival: each number is
\* in gap_count() once if it was reported and in messages_seen() once if it came in time.
CountersAreExact == TypeOK /\ GapCountIsExact /\ SeenCountsFirstArrivals

\* The expectation of a session goes back only when the tracker is reset.
ExpectedNeverRewinds ==
  [][\A s \in Session :
       m_expected'[s] < m_expected[s] => m_expected' = NewTracker.expected]_vars
=============================================================================
