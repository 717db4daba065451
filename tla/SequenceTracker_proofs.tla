----------------------- MODULE SequenceTracker_proofs -----------------------
(***************************************************************************)
(* Proofs about SequenceTracker, for any sessions and any packets.         *)
(***************************************************************************)
EXTENDS SequenceTracker, FiniteSetTheorems, TLAPS

\* The guarantees rest on how the histories of a session lie around its expectation.
\* Nothing is known of a session without an entry; otherwise no number at or beyond
\* the expectation has been observed or reported, and none before it was skipped.
SessionInv(s) ==
  /\ m_expected[s] = Unseen => observed[s] = {} /\ reported[s] = {}
  /\ m_expected[s] # Unseen =>
       /\ anchor[s] \in Nat
       /\ anchor[s] <= m_expected[s]
       /\ \A n \in observed[s] \cup reported[s] : n < m_expected[s]
       /\ \A n \in Nat : anchor[s] <= n /\ n < m_expected[s]
                           => n \in observed[s] \cup reported[s]

IInv == TypeOK /\ \A s \in Session : SessionInv(s)

-----------------------------------------------------------------------------

\* observe leaves well-typed counters behind: the subtraction of already_seen never
\* goes below zero.
LEMMA NewMessagesNat ==
  ASSUME NEW t, NEW s, t.expected[s] \in Nat \cup {Unseen},
         NEW first \in Nat, NEW count \in Nat
  PROVE  /\ NewMessages(t, s, first, count) \in Nat
         /\ Gap(t, s, first) \in Nat
         /\ Expected(t, s, first, count) \in Nat
BY DEF NewMessages, Gap, Expected, Known, Unseen

\* The type invariant is preserved by every step.
LEMMA TypeStep ==
  ASSUME TypeOK, [Next]_vars
  PROVE  TypeOK'
<1>1. ASSUME NEW s \in Session, NEW first \in 0 .. MaxSequence,
             NEW count \in 0 .. MaxCount, Observe(s, first, count)
      PROVE  TypeOK'
  <2>1. first \in Nat /\ count \in Nat
    BY BoundAssumption
  <2>2. tracker.expected = m_expected /\ tracker.gap_count = m_gap_count
          /\ tracker.messages_seen = m_messages_seen
    BY DEF tracker
  <2>3. /\ NewMessages(tracker, s, first, count) \in Nat
        /\ Gap(tracker, s, first) \in Nat
        /\ Expected(tracker, s, first, count) \in Nat
    BY <2>1, <2>2, NewMessagesNat DEF TypeOK
  <2>4. /\ m_expected' = [m_expected EXCEPT ![s] = Expected(tracker, s, first, count)]
        /\ m_gap_count' = m_gap_count + Gap(tracker, s, first)
        /\ m_messages_seen' = m_messages_seen + NewMessages(tracker, s, first, count)
    BY <1>1, <2>2 DEF Observe, Becomes, observe
  <2>5. Missing(tracker, s, first) \subseteq Nat
    BY <2>1, <2>2 DEF Missing, Known, TypeOK, Unseen
  <2>6. /\ anchor' \in [Session -> Nat \cup {Unseen}]
        /\ observed' \in [Session -> SUBSET Nat]
        /\ reported' \in [Session -> SUBSET Nat]
    BY <1>1, <2>1, <2>5 DEF Observe, TypeOK
  <2>7. m_expected' \in [Session -> Nat \cup {Unseen}]
    BY <2>3, <2>4 DEF TypeOK
  <2>8. m_gap_count' \in Nat /\ m_messages_seen' \in Nat
    BY <2>3, <2>4 DEF TypeOK
  <2> QED
    BY <2>6, <2>7, <2>8 DEF TypeOK
<1>2. CASE Reset
  BY <1>2 DEF Reset, Becomes, NewTracker, NoAnchor, NoNumbers, TypeOK
<1>3. CASE UNCHANGED vars
  BY <1>3 DEF vars, TypeOK
<1> QED
  BY <1>1, <1>2, <1>3 DEF Next

\* Every step preserves the invariant.
LEMMA InvStep ==
  ASSUME IInv, [Next]_vars
  PROVE  IInv'
<1> USE DEF IInv
<1>0. TypeOK'
  BY TypeStep
<1>1. ASSUME NEW s \in Session, NEW first \in 0 .. MaxSequence,
             NEW count \in 0 .. MaxCount, Observe(s, first, count),
             NEW u \in Session
      PROVE  SessionInv(u)'
  <2>1. first \in Nat /\ count \in Nat
    BY BoundAssumption
  <2>2. /\ m_expected' = [m_expected EXCEPT ![s] = Expected(tracker, s, first, count)]
        /\ anchor' = [anchor EXCEPT ![s] = IF m_expected[s] # Unseen THEN @ ELSE first]
        /\ observed' = [observed EXCEPT ![s] = @ \cup (first .. first + count - 1)]
        /\ reported' = [reported EXCEPT ![s] = @ \cup Missing(tracker, s, first)]
    BY <1>1 DEF Observe, Becomes, observe, tracker, Known
  <2>3. CASE u # s
    BY <2>2, <2>3 DEF SessionInv, TypeOK
  <2>4. CASE u = s /\ m_expected[s] = Unseen
    <3>1. m_expected'[s] = first + count /\ anchor'[s] = first
      BY <2>2, <2>4 DEF TypeOK, Expected, Known, tracker
    <3>2. observed'[s] = first .. first + count - 1 /\ reported'[s] = {}
      BY <2>2, <2>4 DEF TypeOK, Missing, Known, tracker, SessionInv
    <3> QED
      BY <2>1, <2>4, <3>1, <3>2 DEF SessionInv, Unseen
  <2>5. CASE u = s /\ m_expected[s] # Unseen
    <3>1. m_expected[s] \in Nat /\ observed[s] \subseteq Nat /\ reported[s] \subseteq Nat
      BY <2>5 DEF TypeOK
    <3>2. m_expected'[s] = IF first + count > m_expected[s] THEN first + count
                                                           ELSE m_expected[s]
      BY <2>2, <2>5 DEF TypeOK, Expected, Known, tracker
    <3>3. /\ anchor'[s] = anchor[s]
          /\ observed'[s] = observed[s] \cup (first .. first + count - 1)
          /\ reported'[s] = reported[s] \cup (m_expected[s] .. first - 1)
      BY <2>2, <2>5 DEF TypeOK, Missing, Known, tracker
    <3> QED
      BY <2>1, <2>5, <3>1, <3>2, <3>3 DEF SessionInv, Unseen
  <2> QED
    BY <2>3, <2>4, <2>5
<1>2. ASSUME Reset, NEW u \in Session
      PROVE  SessionInv(u)'
  BY <1>2 DEF Reset, Becomes, NewTracker, NoAnchor, NoNumbers, SessionInv
<1>3. ASSUME UNCHANGED vars, NEW u \in Session
      PROVE  SessionInv(u)'
  BY <1>3 DEF vars, SessionInv
<1> QED
  BY <1>0, <1>1, <1>2, <1>3 DEF Next

\* The invariant holds in every reachable state.
THEOREM Invariant == Spec => []IInv
<1>1. Init => IInv
  BY DEF Init, NewTracker, NoAnchor, NoNumbers, IInv, TypeOK, SessionInv
<1> QED
  BY <1>1, InvStep, PTL DEF Spec

\* The tracker's counters and expectations stay natural numbers: no subtraction in
\* observe wraps around, whatever packets come in whatever order.
THEOREM TypeCorrect == Spec => []TypeOK
BY Invariant, PTL DEF IInv

\* Every number the tracker has moved past came in a packet or was reported missing.
THEOREM NothingSkippedSilently == Spec => []NoSilentSkip
<1>1. IInv => NoSilentSkip
  <2> SUFFICES ASSUME IInv, NEW s \in Session, NEW n \in Passed(s)
               PROVE  n \in observed[s] \cup reported[s]
    BY DEF NoSilentSkip
  <2>1. m_expected[s] # Unseen /\ n \in anchor[s] .. m_expected[s] - 1
    BY DEF Passed
  <2>2. m_expected[s] \in Nat /\ anchor[s] \in Nat /\ SessionInv(s)
    BY <2>1 DEF IInv, TypeOK, SessionInv
  <2> QED
    BY <2>1, <2>2 DEF SessionInv
<1> QED
  BY <1>1, Invariant, PTL

\* A gap report names only numbers nobody has seen and nobody has reported before.
THEOREM GapsAreNews == Spec => NoFalseGap
<1> DEFINE News(s) == reported'[s] \ reported[s]
<1>1. ASSUME IInv, [Next]_vars, NEW s \in Session, NEW n \in News(s)
      PROVE  n \notin observed[s] /\ n >= m_expected[s]
  <2>1. ASSUME NEW u \in Session, NEW first \in 0 .. MaxSequence,
               NEW count \in 0 .. MaxCount, Observe(u, first, count)
        PROVE  n \notin observed[s] /\ n >= m_expected[s]
    <3>1. reported' = [reported EXCEPT ![u] = @ \cup Missing(tracker, u, first)]
      BY <2>1 DEF Observe
    <3>2. s = u /\ n \in Missing(tracker, u, first)
      BY <1>1, <3>1 DEF IInv, TypeOK
    <3>3. m_expected[s] # Unseen /\ n \in m_expected[s] .. first - 1
      BY <3>2 DEF Missing, Known, tracker
    <3> QED
      BY <1>1, <3>3 DEF IInv, TypeOK, SessionInv, Unseen
  <2>2. ~ Reset
    BY <1>1 DEF Reset, NoNumbers
  <2>3. ~ UNCHANGED vars
    BY <1>1 DEF vars
  <2> QED
    BY <1>1, <2>1, <2>2, <2>3 DEF Next
<1>2. IInv /\ [Next]_vars =>
        [\A s \in Session :
           LET news == reported'[s] \ reported[s]
           IN  /\ news \cap observed[s] = {}
               /\ \A n \in news : n >= m_expected[s]]_vars
  BY <1>1
<1> QED
  BY <1>2, Invariant, PTL DEF Spec, NoFalseGap

\* The expectation of a session goes back only when the tracker is reset.
THEOREM NoRewind == Spec => ExpectedNeverRewinds
<1>1. IInv /\ [Next]_vars =>
        [\A s \in Session :
           m_expected'[s] < m_expected[s] => m_expected' = NewTracker.expected]_vars
  <2> SUFFICES ASSUME IInv, Next, NEW s \in Session, m_expected'[s] < m_expected[s]
               PROVE  m_expected' = NewTracker.expected
    OBVIOUS
  <2>1. ASSUME NEW u \in Session, NEW first \in 0 .. MaxSequence,
               NEW count \in 0 .. MaxCount, Observe(u, first, count)
        PROVE  FALSE
    <3>1. m_expected' = [m_expected EXCEPT ![u] = Expected(tracker, u, first, count)]
      BY <2>1 DEF Observe, Becomes, observe, tracker
    <3> QED
      BY <3>1, BoundAssumption DEF Expected, Known, tracker, IInv, TypeOK, Unseen
  <2>2. CASE Reset
    BY <2>2 DEF Reset, Becomes
  <2> QED
    BY <2>1, <2>2 DEF Next
<1> QED
  BY <1>1, Invariant, PTL DEF Spec, ExpectedNeverRewinds

-----------------------------------------------------------------------------

\* A function that tells the elements of a finite set apart has as many values.
LEMMA InjectiveImage ==
  ASSUME NEW S, IsFiniteSet(S), NEW f, \A x, y \in S : f[x] = f[y] => x = y
  PROVE  /\ IsFiniteSet({f[x] : x \in S})
         /\ Cardinality({f[x] : x \in S}) = Cardinality(S)
<1> DEFINE T == {f[x] : x \in S}
           g == [x \in S |-> f[x]]
<1>1. g \in [S -> T]
  OBVIOUS
<1>2. \A x, y \in S : g[x] = g[y] => x = y
  OBVIOUS
<1>3. \A t \in T : \E x \in S : g[x] = t
  OBVIOUS
<1>4. g \in Bijection(S, T)
  <2> HIDE DEF g, T
  <2> QED
    BY <1>1, <1>2, <1>3 DEF Bijection, Injection, Surjection, IsInjective
<1> HIDE DEF g, T
<1>5. ExistsBijection(S, T)
  BY <1>4 DEF ExistsBijection
<1> QED
  BY <1>5, FS_Bijection DEF T

\* Numbers of one session, added to others.
With(P, s, new) == P \cup ({s} \X new)

\* A run of numbers a .. b has this length.
RunLength(a, b) == IF a > b THEN 0 ELSE b - a + 1

\* Numbers that are such a run and none of the old ones.
NewRun(new, a, b, old) == a \in Int /\ b \in Int /\ new = a .. b /\ new \cap old = {}

LEMMA CountRun ==
  ASSUME NEW P, IsFiniteSet(P), NEW s, NEW a, NEW b, NEW new, NEW old, NewRun(new, a, b, old),
         \A n : <<s, n>> \in P => n \in old
  PROVE  /\ IsFiniteSet(With(P, s, new))
         /\ Cardinality(With(P, s, new)) = Cardinality(P) + RunLength(a, b)
<1> DEFINE run == {s} \X new
           pair == [n \in new |-> <<s, n>>]
<1>1. IsFiniteSet(new) /\ Cardinality(new) = RunLength(a, b)
  BY FS_Interval DEF RunLength, NewRun
<1>2. \A x, y \in new : pair[x] = pair[y] => x = y
  OBVIOUS
<1>3. IsFiniteSet({pair[n] : n \in new}) /\ Cardinality({pair[n] : n \in new}) = Cardinality(new)
  <2> HIDE DEF pair
  <2> QED
    BY <1>1, <1>2, InjectiveImage
<1>4. run = {pair[n] : n \in new}
  OBVIOUS
<1>5. P \cap run = {}
  BY DEF NewRun
<1>6. IsFiniteSet(run) /\ Cardinality(run) = RunLength(a, b)
  BY <1>1, <1>3, <1>4
<1>7. Cardinality(P) \in Nat /\ Cardinality(run) \in Nat
  BY <1>6, FS_CardinalityType
<1> HIDE DEF run
<1>8. /\ IsFiniteSet(P \cup run)
      /\ Cardinality(P \cup run) = Cardinality(P) + Cardinality(run) - Cardinality(P \cap run)
  BY <1>6, FS_Union
<1>9. Cardinality(P \cap run) = 0
  BY <1>5, FS_EmptySet
<1>10. With(P, s, new) = P \cup run
  BY DEF With, run
<1> QED
  BY <1>6, <1>7, <1>8, <1>9, <1>10

\* The sets of g are those of f, with new numbers for one session.
Grows(f, g, s, new) == \A u \in Session : g[u] = IF u = s THEN f[u] \cup new ELSE f[u]

LEMMA NumbersGrow ==
  ASSUME NEW f, NEW g, NEW s \in Session, NEW new, Grows(f, g, s, new)
  PROVE  Numbers(g) = With(Numbers(f), s, new)
<1>1. ASSUME NEW x PROVE x \in Numbers(g) <=> x \in Numbers(f) \/ x \in {s} \X new
  <2>1. x \in Numbers(g) <=> \E u \in Session : \E n \in g[u] : x = <<u, n>>
    BY DEF Numbers
  <2>2. x \in Numbers(f) <=> \E u \in Session : \E n \in f[u] : x = <<u, n>>
    BY DEF Numbers
  <2>3. x \in {s} \X new <=> \E n \in new : x = <<s, n>>
    OBVIOUS
  <2> QED
    BY <2>1, <2>2, <2>3 DEF Grows
<1> QED
  BY <1>1 DEF With

CountersInv ==
  /\ IsFiniteSet(Numbers(reported)) /\ m_gap_count = Cardinality(Numbers(reported))
  /\ IsFiniteSet(Numbers(InTime)) /\ m_messages_seen = Cardinality(Numbers(InTime))

LEMMA NumbersOf ==
  ASSUME NEW f, NEW s \in Session, NEW n
  PROVE  <<s, n>> \in Numbers(f) <=> n \in f[s]
BY DEF Numbers

\* A counter that grows with the length of the run of numbers added.
LEMMA CountStep ==
  ASSUME NEW f, NEW g, NEW s \in Session, NEW new, NEW a, NEW b,
         Grows(f, g, s, new), IsFiniteSet(Numbers(f)), NewRun(new, a, b, f[s])
  PROVE  /\ IsFiniteSet(Numbers(g))
         /\ Cardinality(Numbers(g)) = Cardinality(Numbers(f)) + RunLength(a, b)
<1>1. PICK P : P = Numbers(f)
  OBVIOUS
<1>2. \A n : <<s, n>> \in P => n \in f[s]
  BY <1>1, NumbersOf
<1>3. Numbers(g) = With(P, s, new)
  BY <1>1, NumbersGrow
<1>4. /\ IsFiniteSet(With(P, s, new))
      /\ Cardinality(With(P, s, new)) = Cardinality(P) + RunLength(a, b)
  BY <1>1, <1>2, CountRun
<1> QED
  BY <1>1, <1>3, <1>4

\* observe counts the missing numbers it reports, which nobody has reported before.
LEMMA GapStep ==
  ASSUME IInv, CountersInv, NEW s \in Session, NEW first \in Nat, NEW count \in Nat,
         Observe(s, first, count)
  PROVE  IsFiniteSet(Numbers(reported')) /\ m_gap_count' = Cardinality(Numbers(reported'))
<1>1. reported \in [Session -> SUBSET Nat] /\ m_expected[s] \in Nat \cup {Unseen}
  BY DEF IInv, TypeOK
<1>2. PICK new : new = Missing(tracker, s, first)
  OBVIOUS
<1>3. Grows(reported, reported', s, new)
  BY <1>1, <1>2 DEF Observe, Grows
<1>4. m_gap_count' = m_gap_count + Gap(tracker, s, first)
  BY DEF Observe, Becomes, observe, tracker
<1>5. PICK a : a = IF m_expected[s] = Unseen THEN first ELSE m_expected[s]
  OBVIOUS
<1>6. PICK b : b = first - 1
  OBVIOUS
<1>7. a \in Int /\ b \in Int
  BY <1>1, <1>5, <1>6
<1>8. new = a .. b /\ Gap(tracker, s, first) = RunLength(a, b)
  BY <1>1, <1>2, <1>5, <1>6 DEF Missing, Gap, Known, tracker, RunLength, Unseen
<1>9. new \cap reported[s] = {}
  BY <1>1, <1>2 DEF Missing, Known, tracker, IInv, SessionInv
<1>10. /\ IsFiniteSet(Numbers(reported'))
       /\ Cardinality(Numbers(reported')) = Cardinality(Numbers(reported)) + RunLength(a, b)
  <2>0. IsFiniteSet(Numbers(reported))
    BY DEF CountersInv
  <2>1. NewRun(new, a, b, reported[s])
    BY <1>7, <1>8, <1>9 DEF NewRun
  <2> QED
    BY <1>3, <2>0, <2>1, CountStep
<1> QED
  BY <1>4, <1>8, <1>10 DEF CountersInv

\* observe counts the messages beyond the expectation, which are the ones in time.
LEMMA SeenStep ==
  ASSUME IInv, CountersInv, NEW s \in Session, NEW first \in Nat, NEW count \in Nat,
         Observe(s, first, count)
  PROVE  IsFiniteSet(Numbers(InTime')) /\ m_messages_seen' = Cardinality(Numbers(InTime'))
<1>1. /\ reported \in [Session -> SUBSET Nat] /\ m_expected \in [Session -> Nat \cup {Unseen}]
      /\ anchor \in [Session -> Nat \cup {Unseen}]
  BY DEF IInv, TypeOK
<1>2. PICK e : e = m_expected[s]
  OBVIOUS
<1>3. PICK a : a = IF e = Unseen \/ e < first THEN first ELSE e
  OBVIOUS
<1>4. PICK b : b = first + count - 1
  OBVIOUS
<1>5. PICK new : new = a .. b
  OBVIOUS
<1>6. a \in Int /\ b \in Int /\ e \in Nat \cup {Unseen}
  BY <1>1, <1>2, <1>3, <1>4
<1>7. m_messages_seen' = m_messages_seen + NewMessages(tracker, s, first, count)
  BY DEF Observe, Becomes, observe, tracker
<1>8. NewMessages(tracker, s, first, count) = RunLength(a, b)
  BY <1>2, <1>3, <1>4, <1>6 DEF NewMessages, Known, tracker, RunLength, Unseen
<1>9. /\ m_expected' = [m_expected EXCEPT ![s] = Expected(tracker, s, first, count)]
      /\ anchor' = [anchor EXCEPT ![s] = IF e # Unseen THEN anchor[s] ELSE first]
      /\ reported' = [reported EXCEPT ![s] = reported[s] \cup Missing(tracker, s, first)]
  BY <1>2 DEF Observe, Becomes, observe, tracker, Known
<1>10. SessionInv(s)
  BY DEF IInv
<1>11. InTime[s] = Passed(s) \ reported[s] /\ InTime'[s] = Passed(s)' \ reported'[s]
  BY DEF InTime
<1>12. new \cap InTime[s] = {}
  <2>1. \A n \in Passed(s) : n < e
    BY <1>2, <1>6, <1>10 DEF Passed, SessionInv, Unseen
  <2>2. e = Unseen => Passed(s) = {}
    BY <1>2 DEF Passed
  <2> QED
    BY <1>3, <1>4, <1>5, <1>6, <1>11, <2>1, <2>2
<1>13. InTime'[s] = InTime[s] \cup new
  <2>1. CASE e = Unseen
    <3>1. InTime[s] = {} /\ reported[s] = {}
      BY <1>2, <1>10, <1>11, <2>1 DEF Passed, SessionInv
    <3>2. reported'[s] = {}
      BY <1>1, <1>2, <1>9, <2>1, <3>1 DEF Missing, Known, tracker
    <3>3. m_expected'[s] = first + count /\ anchor'[s] = first
      BY <1>1, <1>2, <1>9, <2>1 DEF Expected, Known, tracker
    <3>4. Passed(s)' = first .. b
      BY <1>4, <3>3 DEF Passed, Unseen
    <3> QED
      BY <1>3, <1>5, <1>11, <2>1, <3>1, <3>2, <3>4
  <2>2. CASE e # Unseen
    <3>1. e \in Nat /\ anchor[s] \in Nat /\ anchor[s] <= e /\ \A n \in reported[s] : n < e
      BY <1>2, <1>6, <1>10, <2>2 DEF SessionInv
    <3>2. Passed(s) = anchor[s] .. e - 1
      BY <1>2, <2>2 DEF Passed
    <3>3. PICK d : d = IF first + count > e THEN first + count ELSE e
      OBVIOUS
    <3>4. m_expected'[s] = d /\ anchor'[s] = anchor[s] /\ reported'[s] = reported[s] \cup (e .. first - 1)
      BY <1>1, <1>2, <1>9, <2>2, <3>3 DEF Expected, Known, tracker, Missing
    <3>5. Passed(s)' = anchor[s] .. d - 1
      BY <3>1, <3>3, <3>4 DEF Passed, Unseen
    <3>6. ASSUME NEW n \in Int
          PROVE  n \in InTime'[s] <=> n \in InTime[s] \/ n \in new
      BY <1>3, <1>4, <1>5, <1>11, <2>2, <3>1, <3>2, <3>3, <3>4, <3>5
    <3>7. InTime'[s] \subseteq Int /\ InTime[s] \subseteq Int /\ new \subseteq Int
      BY <1>5, <1>11, <3>2, <3>5
    <3> QED
      BY <3>6, <3>7
  <2> QED
    BY <2>1, <2>2
<1>14. \A u \in Session : u # s => InTime'[u] = InTime[u]
  BY <1>1, <1>9 DEF InTime, Passed
<1>15. Grows(InTime, InTime', s, new)
  BY <1>13, <1>14 DEF Grows
<1>16. /\ IsFiniteSet(Numbers(InTime'))
       /\ Cardinality(Numbers(InTime')) = Cardinality(Numbers(InTime)) + RunLength(a, b)
  <2>0. IsFiniteSet(Numbers(InTime))
    BY DEF CountersInv
  <2>1. NewRun(new, a, b, InTime[s])
    BY <1>5, <1>6, <1>12 DEF NewRun
  <2> QED
    BY <1>15, <2>0, <2>1, CountStep
<1> QED
  BY <1>7, <1>8, <1>16 DEF CountersInv

LEMMA CountersStep ==
  ASSUME IInv, CountersInv, [Next]_vars
  PROVE  CountersInv'
<1>1. ASSUME NEW s \in Session, NEW first \in 0 .. MaxSequence, NEW count \in 0 .. MaxCount,
             Observe(s, first, count)
      PROVE  CountersInv'
  <2>1. first \in Nat /\ count \in Nat
    BY BoundAssumption
  <2>2. IsFiniteSet(Numbers(reported')) /\ m_gap_count' = Cardinality(Numbers(reported'))
    BY <1>1, <2>1, GapStep
  <2>3. IsFiniteSet(Numbers(InTime')) /\ m_messages_seen' = Cardinality(Numbers(InTime'))
    BY <1>1, <2>1, SeenStep
  <2> QED
    BY <2>2, <2>3 DEF CountersInv
<1>2. CASE Reset
  <2>1. /\ m_gap_count' = 0 /\ m_messages_seen' = 0
        /\ \A s \in Session : m_expected'[s] = Unseen /\ reported'[s] = {}
    BY <1>2 DEF Reset, Becomes, NewTracker, NoNumbers
  <2>2. Numbers(reported') = {}
    BY <2>1 DEF Numbers
  <2>3. \A s \in Session : InTime'[s] = {}
    BY <2>1 DEF InTime, Passed
  <2>4. Numbers(InTime') = {}
    BY <2>3 DEF Numbers
  <2> QED
    BY <2>1, <2>2, <2>4, FS_EmptySet DEF CountersInv
<1>3. CASE UNCHANGED vars
  BY <1>3 DEF vars, CountersInv, InTime, Passed, Numbers
<1> QED
  BY <1>1, <1>2, <1>3 DEF Next

\* gap_count() and messages_seen() are exact for any sessions and packets in any order:
\* each number of a session is in the one once if it was reported missing, and in the
\* other once if it came before that.
THEOREM Counters == Spec => []CountersAreExact
<1>1. Init => CountersInv
  <2> SUFFICES ASSUME Init PROVE CountersInv
    OBVIOUS
  <2>1. /\ m_gap_count = 0 /\ m_messages_seen = 0
        /\ \A s \in Session : m_expected[s] = Unseen /\ reported[s] = {}
    BY DEF Init, NewTracker, NoNumbers
  <2>2. Numbers(reported) = {}
    BY <2>1 DEF Numbers
  <2>3. \A s \in Session : InTime[s] = {}
    BY <2>1 DEF InTime, Passed
  <2>4. Numbers(InTime) = {}
    BY <2>3 DEF Numbers
  <2> QED
    BY <2>1, <2>2, <2>4, FS_EmptySet DEF CountersInv
<1>2. IInv /\ CountersInv => CountersAreExact
  BY DEF IInv, CountersInv, CountersAreExact, GapCountIsExact, SeenCountsFirstArrivals
<1>3. Spec => []CountersInv
  BY <1>1, CountersStep, Invariant, PTL DEF Spec
<1> QED
  BY <1>2, <1>3, Invariant, PTL
=============================================================================
