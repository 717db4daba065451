-------------------------- MODULE MoldUdp64_proofs --------------------------
(***************************************************************************)
(* Proofs about MoldUdp64, for any sessions, any length of the feed and    *)
(* any loss, repetition and reordering of its datagrams.                   *)
(***************************************************************************)
EXTENDS MoldUdp64, TLAPS

Tracker == [expected : [Session -> Nat \cup {Unseen}], gap_count : Nat,
            messages_seen : Nat]

\* A datagram of messages that have been published; whole unless the network cuts.
GoodDatagram(d) ==
  /\ d.session \in Session
  /\ d.sequence_number \in Nat \ {0}
  /\ d.message_count \in Nat
  /\ d.blocks \in 0 .. MaxBlocks
  /\ d.blocks <= d.message_count
  /\ ~ is_end_of_session(d) =>
       /\ d.sequence_number + d.message_count <= published[d.session] + 1
       /\ Cuts \/ d.blocks = d.message_count

\* A request for messages that have been published.
GoodRequest(r) ==
  /\ r.session \in Session
  /\ r.start \in Nat \ {0}
  /\ r.count \in Nat
  /\ r.start + r.count <= published[r.session] + 1

\* The histories of a session lie before its expectation, which lies within the feed.
SessionInv(s) ==
  /\ delivered[s] \subseteq 1 .. published[s]
  /\ m_tracker.expected[s] = Unseen => delivered[s] = {} /\ reported[s] = {}
  /\ m_tracker.expected[s] # Unseen =>
       /\ anchor[s] \in Nat \ {0}
       /\ anchor[s] <= m_tracker.expected[s]
       /\ m_tracker.expected[s] <= published[s] + 1
       /\ \A n \in reported[s] : n < m_tracker.expected[s]

\* Every number a session has come past was delivered or reported.
Covered(s) ==
  m_tracker.expected[s] # Unseen =>
    \A n \in Nat : anchor[s] <= n /\ n < m_tracker.expected[s]
                     => n \in delivered[s] \cup reported[s]

\* Every number reported was delivered, or somebody is at work on it.
Pursued(s) ==
  \A n \in reported[s] :
    \/ n \in delivered[s]
    \/ \E r \in requests : r.session = s /\ n \in r.start .. r.start + r.count - 1
    \/ \E d \in recovery : d.session = s /\ n \in Decoded(d)

Types ==
  /\ published \in [Session -> 0 .. MaxSequence]
  /\ m_tracker \in Tracker
  /\ m_packets_decoded \in 0 .. MaxStat
  /\ m_messages_decoded \in 0 .. MaxStat
  /\ anchor \in [Session -> Nat \cup {Unseen}]
  /\ delivered \in [Session -> SUBSET Nat]
  /\ reported \in [Session -> SUBSET Nat]

Traffic ==
  /\ \A d \in network : GoodDatagram(d)
  /\ \A d \in recovery : GoodDatagram(d) /\ d.message_count = 1 /\ d.blocks = 1
  /\ \A r \in requests : GoodRequest(r)

IInv ==
  /\ Types
  /\ Traffic
  /\ \A s \in Session : SessionInv(s) /\ Pursued(s)
  /\ ~ Cuts => \A s \in Session : Covered(s)
-----------------------------------------------------------------------------

\* The code that ends a session counts no blocks, and a datagram may carry one block.
LEMMA BlockBounds ==
  /\ END_OF_SESSION \in Nat \ {0} /\ MaxBlocks \in Nat /\ 1 \in 0 .. MaxBlocks
  /\ MaxBlocks < END_OF_SESSION
<1>1. END_OF_SESSION \in Nat \ {0}
  BY SMTT(60) DEF END_OF_SESSION
<1> QED
  BY <1>1, MoldAssumption

\* What the tracker computes from a header is well typed.
LEMMA TrackerTypes ==
  ASSUME NEW t \in Tracker, NEW s \in Session, NEW first \in Nat, NEW count \in Nat
  PROVE  /\ observe(t, s, first, count) \in Tracker
         /\ Gap(t, s, first) \in Nat
         /\ Missing(t, s, first) \subseteq Nat
         /\ observe(t, s, first, count).expected =
              [t.expected EXCEPT ![s] = Expected(t, s, first, count)]
<1>1. /\ t.expected \in [Session -> Nat \cup {Unseen}]
      /\ t.gap_count \in Nat /\ t.messages_seen \in Nat
  BY DEF Tracker
<1>2. t.expected[s] \in Nat \cup {Unseen}
  BY <1>1
<1>3. /\ NewMessages(t, s, first, count) \in Nat
      /\ Gap(t, s, first) \in Nat
      /\ Expected(t, s, first, count) \in Nat
      /\ Missing(t, s, first) \subseteq Nat
  BY <1>2 DEF NewMessages, Gap, Expected, Missing, Known, Unseen
<1>4. [t.expected EXCEPT ![s] = Expected(t, s, first, count)]
        \in [Session -> Nat \cup {Unseen}]
  BY <1>1, <1>3
<1>5. t.gap_count + Gap(t, s, first) \in Nat
        /\ t.messages_seen + NewMessages(t, s, first, count) \in Nat
  BY <1>1, <1>3
<1> QED
  BY <1>3, <1>4, <1>5 DEF observe, Tracker

\* Counting a packet or its blocks keeps a statistic within its bound.
LEMMA BumpType ==
  ASSUME NEW stat \in 0 .. MaxStat, NEW n \in Nat
  PROVE  Bump(stat, n) \in 0 .. MaxStat
BY MoldAssumption DEF Bump

\* The exchange publishes messages.
LEMMA PublishInv ==
  ASSUME IInv, NEW s \in Session, NEW n \in 1 .. MaxBlocks, Publish(s, n)
  PROVE  IInv'
<1>1. /\ published[s] \in Nat /\ n \in Nat \ {0}
      /\ published \in [Session -> 0 .. MaxSequence] /\ MaxSequence \in Nat
  BY MoldAssumption DEF IInv, Types
<1>2. /\ published' = [published EXCEPT ![s] = @ + n]
      /\ published[s] + n <= MaxSequence
      /\ UNCHANGED <<recovery, requests, decoderVars>>
  BY DEF Publish
<1>3. /\ published' \in [Session -> 0 .. MaxSequence]
      /\ \A u \in Session : published[u] <= published'[u]
  BY <1>1, <1>2
<1>4. PICK d \in Arrivals(s, published[s] + 1, n) : network' = network \cup {d}
  BY DEF Publish
<1>5. Types'
  BY <1>2, <1>3 DEF IInv, Types, decoderVars
<1>6. ASSUME NEW e, GoodDatagram(e)
      PROVE  GoodDatagram(e)'
  BY <1>1, <1>3, <1>6 DEF GoodDatagram, is_end_of_session
<1>7. GoodDatagram(d)'
  <2>1. /\ d.session = s /\ d.sequence_number = published[s] + 1
        /\ d.message_count = n
        /\ d.blocks \in {n - 1, n} /\ (Cuts \/ d.blocks = n)
    BY <1>4 DEF Arrivals, Datagram
  <2> QED
    BY <1>1, <1>2, <2>1, MoldAssumption DEF GoodDatagram
<1>8. ASSUME NEW r, GoodRequest(r)
      PROVE  GoodRequest(r)'
  BY <1>1, <1>3, <1>8 DEF GoodRequest
<1>9. Traffic'
  BY <1>2, <1>4, <1>6, <1>7, <1>8 DEF IInv, Traffic
<1>10. \A u \in Session : SessionInv(u)' /\ Pursued(u)'
  <2> SUFFICES ASSUME NEW u \in Session PROVE SessionInv(u)' /\ Pursued(u)'
    OBVIOUS
  <2>1. m_tracker.expected[u] \in Nat \cup {Unseen}
    BY DEF IInv, Types, Tracker
  <2>2. SessionInv(u)'
    BY <1>1, <1>2, <1>3, <2>1 DEF IInv, SessionInv, decoderVars
  <2>3. Pursued(u)'
    BY <1>2 DEF IInv, Pursued, decoderVars, Decoded
  <2> QED
    BY <2>2, <2>3
<1>11. ~ Cuts => \A u \in Session : Covered(u)'
  BY <1>2 DEF IInv, Covered, decoderVars
<1> QED
  BY <1>5, <1>9, <1>10, <1>11 DEF IInv

\* Steps of the exchange and the network that only send, repeat or lose datagrams.
LEMMA NetworkInv ==
  ASSUME IInv, UNCHANGED <<published, recovery, requests, decoderVars>>,
         \A d \in network' : GoodDatagram(d)
  PROVE  IInv'
<1>1. Types'
  BY DEF IInv, Types, decoderVars
<1>2. Traffic'
  BY DEF IInv, Traffic, GoodDatagram, GoodRequest, is_end_of_session
<1>3. \A s \in Session : SessionInv(s)' /\ Pursued(s)'
  BY DEF IInv, SessionInv, Pursued, decoderVars, Decoded
<1>4. ~ Cuts => \A s \in Session : Covered(s)'
  BY DEF IInv, Covered, decoderVars
<1> QED
  BY <1>1, <1>2, <1>3, <1>4 DEF IInv

\* Heartbeats and end-of-session packets.
LEMMA ControlInv ==
  ASSUME IInv, NEW s \in Session, Heartbeat(s) \/ EndSession(s)
  PROVE  IInv'
<1>1. published[s] \in Nat
  BY MoldAssumption DEF IInv, Types
<1>2. PICK c \in {0, END_OF_SESSION} :
        /\ network' = network \cup {Datagram(s, published[s] + 1, c, 0)}
        /\ UNCHANGED <<published, recovery, requests, decoderVars>>
  BY DEF Heartbeat, EndSession
<1>3. GoodDatagram(Datagram(s, published[s] + 1, c, 0))
  BY <1>1, BlockBounds DEF GoodDatagram, Datagram, is_end_of_session
<1> QED
  BY <1>2, <1>3, NetworkInv DEF IInv, Traffic

\* Losing a datagram.
LEMMA LoseInv ==
  ASSUME IInv, NEW d \in network, Lose(d)
  PROVE  IInv'
BY NetworkInv DEF Lose, IInv, Traffic

\* The application answers a request.
LEMMA RetransmitInv ==
  ASSUME IInv, NEW r \in requests, Retransmit(r)
  PROVE  IInv'
<1> DEFINE sent == {Datagram(r.session, n, 1, 1) : n \in r.start .. r.start + r.count - 1}
<1>1. /\ requests' = requests \ {r} /\ recovery' = recovery \cup sent
      /\ UNCHANGED <<published, network, decoderVars>>
  BY DEF Retransmit
<1>2. GoodRequest(r) /\ published[r.session] \in Nat
  BY MoldAssumption DEF IInv, Traffic, Types, GoodRequest
<1>3. \A d \in sent : GoodDatagram(d) /\ d.message_count = 1 /\ d.blocks = 1
  <2> SUFFICES ASSUME NEW n \in r.start .. r.start + r.count - 1,
                      NEW d, d = Datagram(r.session, n, 1, 1)
               PROVE  GoodDatagram(d) /\ d.message_count = 1 /\ d.blocks = 1
    OBVIOUS
  <2>1. /\ d.session = r.session /\ d.sequence_number = n
        /\ d.message_count = 1 /\ d.blocks = 1
    BY DEF Datagram
  <2>2. /\ r.session \in Session /\ n \in Nat \ {0}
        /\ n + 1 <= published[r.session] + 1
    BY <1>2 DEF GoodRequest
  <2>3. 1 \in 0 .. MaxBlocks
    BY BlockBounds
  <2> QED
    BY <2>1, <2>2, <2>3 DEF GoodDatagram
<1>4. Types'
  BY <1>1 DEF IInv, Types, decoderVars
<1>5. Traffic'
  <2> HIDE DEF sent
  <2>1. \A d : GoodDatagram(d) => GoodDatagram(d)'
    BY <1>1 DEF GoodDatagram, is_end_of_session
  <2>2. \A q : GoodRequest(q) => GoodRequest(q)'
    BY <1>1 DEF GoodRequest
  <2> QED
    BY <1>1, <1>3, <2>1, <2>2 DEF IInv, Traffic
<1>6. ASSUME NEW s \in Session
      PROVE  SessionInv(s)'
  BY <1>1 DEF IInv, SessionInv, decoderVars
<1>7. ASSUME NEW s \in Session
      PROVE  Pursued(s)'
  <2> SUFFICES ASSUME NEW n \in reported[s]
               PROVE  \/ n \in delivered[s]
                      \/ \E q \in requests' :
                           q.session = s /\ n \in q.start .. q.start + q.count - 1
                      \/ \E d \in recovery' : d.session = s /\ n \in Decoded(d)
    BY <1>1 DEF Pursued, decoderVars, Decoded
  <2>1. CASE n \in delivered[s]
    BY <2>1
  <2>2. ASSUME NEW q \in requests, q.session = s, n \in q.start .. q.start + q.count - 1
        PROVE  \/ \E p \in requests' :
                    p.session = s /\ n \in p.start .. p.start + p.count - 1
               \/ \E d \in recovery' : d.session = s /\ n \in Decoded(d)
    <3>1. CASE q # r
      BY <1>1, <2>2, <3>1
    <3>2. CASE q = r
      <4> DEFINE d == Datagram(r.session, n, 1, 1)
      <4>1. d \in recovery'
        BY <1>1, <2>2, <3>2
      <4>2. d.session = s /\ d.sequence_number = n /\ d.blocks = 1
        BY <2>2, <3>2 DEF Datagram
      <4>3. n \in Nat
        BY DEF IInv, Types
      <4> HIDE DEF d
      <4>4. n \in Decoded(d)
        BY <4>2, <4>3 DEF Decoded
      <4> QED
        BY <4>1, <4>2, <4>4
    <3> QED
      BY <3>1, <3>2
  <2>3. ASSUME NEW d \in recovery, d.session = s, n \in Decoded(d)
        PROVE  \E e \in recovery' : e.session = s /\ n \in Decoded(e)
    BY <1>1, <2>3
  <2> QED
    BY <2>1, <2>2, <2>3 DEF IInv, Pursued
<1>8. ~ Cuts => \A s \in Session : Covered(s)'
  BY <1>1 DEF IInv, Covered, decoderVars
<1> QED
  BY <1>4, <1>5, <1>6, <1>7, <1>8 DEF IInv

-----------------------------------------------------------------------------

\* The header of a good datagram: what the tracker makes of it.
LEMMA DecodeSession ==
  ASSUME IInv, NEW d, GoodDatagram(d), DecodePacket(d), UNCHANGED published
  PROVE  /\ Types'
         /\ \A s \in Session : SessionInv(s)'
         /\ ~ Cuts => \A s \in Session : Covered(s)'
<1> DEFINE u     == d.session
           first == d.sequence_number
           count == d.message_count
           E     == m_tracker.expected
<1>1. /\ u \in Session /\ first \in Nat \ {0} /\ count \in Nat
      /\ d.blocks \in Nat /\ d.blocks <= count
      /\ first + count <= published[u] + 1
      /\ ~ Cuts => d.blocks = count
  <2>1. ~ is_end_of_session(d)
    BY DEF DecodePacket
  <2>2. MaxBlocks \in Nat
    BY BlockBounds
  <2> QED
    BY <2>1, <2>2 DEF GoodDatagram
<1>2. m_tracker \in Tracker /\ E \in [Session -> Nat \cup {Unseen}]
  BY DEF IInv, Types, Tracker
<1>3. /\ m_tracker' \in Tracker
      /\ m_tracker'.expected = [E EXCEPT ![u] = Expected(m_tracker, u, first, count)]
      /\ Missing(m_tracker, u, first) \subseteq Nat
  BY <1>1, <1>2, TrackerTypes DEF DecodePacket
<1>4. /\ anchor' = [anchor EXCEPT ![u] = IF E[u] # Unseen THEN @ ELSE first]
      /\ reported' = [reported EXCEPT ![u] = @ \cup Missing(m_tracker, u, first)]
      /\ m_packets_decoded' = Bump(m_packets_decoded, 1)
  BY DEF DecodePacket, Known
<1>5. /\ delivered' = [delivered EXCEPT ![u] = @ \cup (first .. first + d.blocks - 1)]
      /\ m_messages_decoded' \in 0 .. MaxStat
  <2>1. /\ delivered \in [Session -> SUBSET Nat]
        /\ m_messages_decoded \in 0 .. MaxStat
    BY DEF IInv, Types
  <2>2. CASE is_heartbeat(d)
    <3>1. first .. first + d.blocks - 1 = {}
      BY <1>1, <2>2 DEF is_heartbeat
    <3> QED
      BY <1>1, <2>1, <2>2, <3>1 DEF DecodePacket
  <2>3. CASE ~ is_heartbeat(d)
    BY <1>1, <2>1, <2>3, BumpType DEF DecodePacket, Decoded
  <2> QED
    BY <2>2, <2>3
<1>6. Types'
  <2>1. first .. first + d.blocks - 1 \in SUBSET Nat
    BY <1>1
  <2>2. /\ anchor' \in [Session -> Nat \cup {Unseen}]
        /\ delivered' \in [Session -> SUBSET Nat]
        /\ reported' \in [Session -> SUBSET Nat]
    BY <1>1, <1>3, <1>4, <1>5, <2>1 DEF IInv, Types
  <2>3. m_packets_decoded' \in 0 .. MaxStat
    BY <1>4, BumpType DEF IInv, Types
  <2>4. published' \in [Session -> 0 .. MaxSequence]
    BY DEF IInv, Types
  <2> QED
    BY <1>3, <1>5, <2>2, <2>3, <2>4 DEF Types
<1>7. ASSUME NEW s \in Session
      PROVE  SessionInv(s)' /\ (~ Cuts => Covered(s)')
  <2>1. /\ SessionInv(s) /\ (~ Cuts => Covered(s)) /\ published[s] \in Nat
        /\ E[s] \in Nat \cup {Unseen} /\ anchor[s] \in Nat \cup {Unseen}
        /\ delivered[s] \subseteq Nat /\ reported[s] \subseteq Nat
    BY <1>2, MoldAssumption DEF IInv, Types
  <2>2. CASE s # u
    <3>1. /\ m_tracker'.expected[s] = E[s] /\ anchor'[s] = anchor[s]
          /\ delivered'[s] = delivered[s] /\ reported'[s] = reported[s]
          /\ published'[s] = published[s]
      BY <1>2, <1>3, <1>4, <1>5, <2>2 DEF IInv, Types
    <3> QED
      BY <2>1, <3>1 DEF SessionInv, Covered
  <2>3. CASE s = u /\ E[s] = Unseen
    <3>1. /\ m_tracker'.expected[s] = first + count /\ anchor'[s] = first
          /\ delivered'[s] = first .. first + d.blocks - 1 /\ reported'[s] = {}
          /\ published'[s] = published[s]
      BY <1>1, <1>2, <1>3, <1>4, <1>5, <2>1, <2>3
      DEF IInv, Types, SessionInv, Expected, Missing, Known
    <3> QED
      BY SMTT(60), <1>1, <2>1, <2>3, <3>1 DEF SessionInv, Covered, Unseen
  <2>4. CASE s = u /\ E[s] # Unseen
    <3>1. /\ m_tracker'.expected[s] = IF first + count > E[s] THEN first + count ELSE E[s]
          /\ anchor'[s] = anchor[s]
          /\ delivered'[s] = delivered[s] \cup (first .. first + d.blocks - 1)
          /\ reported'[s] = reported[s] \cup (E[s] .. first - 1)
          /\ published'[s] = published[s]
      BY <1>1, <1>2, <1>3, <1>4, <1>5, <2>4
      DEF IInv, Types, Expected, Missing, Known
    <3>2. SessionInv(s)'
      BY <1>1, <2>1, <2>4, <3>1 DEF SessionInv, Unseen
    <3>3. ~ Cuts => Covered(s)'
      BY <1>1, <2>1, <2>4, <3>1 DEF SessionInv, Covered, Unseen
    <3> QED
      BY <3>2, <3>3
  <2> QED
    BY <2>2, <2>3, <2>4
<1> QED
  BY <1>6, <1>7

\* A datagram the decoder gets, from the network or from the recovery channel.
LEMMA DecodeInv ==
  ASSUME IInv, NEW d, GoodDatagram(d), DecodePacket(d), UNCHANGED published,
         network' \subseteq network, recovery' \subseteq recovery,
         \A e \in recovery : e \in recovery' \/ e = d
  PROVE  IInv'
<1>1. /\ Types'
      /\ \A s \in Session : SessionInv(s)'
      /\ ~ Cuts => \A s \in Session : Covered(s)'
  BY DecodeSession
<1>2. /\ d.session \in Session /\ d.sequence_number \in Nat \ {0}
      /\ d.message_count \in Nat /\ d.blocks \in Nat
      /\ d.sequence_number + d.message_count <= published[d.session] + 1
      /\ published[d.session] \in Nat
      /\ m_tracker.expected[d.session] \in Nat \cup {Unseen}
      /\ SessionInv(d.session)
  <2>1. ~ is_end_of_session(d)
    BY DEF DecodePacket
  <2>2. MaxBlocks \in Nat /\ MaxSequence \in Nat
    BY MoldAssumption, BlockBounds
  <2>3. d.session \in Session
    BY DEF GoodDatagram
  <2>4. /\ published[d.session] \in Nat
        /\ m_tracker.expected[d.session] \in Nat \cup {Unseen}
        /\ SessionInv(d.session)
    BY <2>2, <2>3 DEF IInv, Types, Tracker
  <2> QED
    BY <2>1, <2>2, <2>4 DEF GoodDatagram
<1>3. /\ requests' = requests \cup Requested(d)
      /\ reported' = [reported EXCEPT ![d.session] =
                        @ \cup Missing(m_tracker, d.session, d.sequence_number)]
      /\ \A s \in Session : delivered[s] \subseteq delivered'[s]
      /\ ~ is_heartbeat(d) => Decoded(d) \subseteq delivered'[d.session]
  BY <1>2 DEF DecodePacket, IInv, Types
<1>4. \A r \in Requested(d) :
        /\ GoodRequest(r)
        /\ r.session = d.session
        /\ r.start .. r.start + r.count - 1 =
             Missing(m_tracker, d.session, d.sequence_number)
  <2> SUFFICES ASSUME NEW r \in Requested(d)
               PROVE  /\ GoodRequest(r)
                      /\ r.session = d.session
                      /\ r.start .. r.start + r.count - 1 =
                           Missing(m_tracker, d.session, d.sequence_number)
    OBVIOUS
  <2>1. /\ Gap(m_tracker, d.session, d.sequence_number) # 0
        /\ r.session = d.session /\ r.start = m_tracker.expected[d.session]
        /\ r.count = Gap(m_tracker, d.session, d.sequence_number)
    BY DEF Requested
  <2>2. /\ m_tracker.expected[d.session] # Unseen
        /\ m_tracker.expected[d.session] < d.sequence_number
        /\ r.count = d.sequence_number - r.start
    BY <2>1 DEF Gap, Known
  <2>3. r.start \in Nat \ {0}
    BY <1>2, <2>1, <2>2 DEF SessionInv, Unseen
  <2>4. GoodRequest(r)
    BY <1>2, <2>1, <2>2, <2>3 DEF GoodRequest
  <2>5. r.start + r.count - 1 = d.sequence_number - 1
    BY <1>2, <2>2, <2>3
  <2> QED
    BY <2>1, <2>2, <2>4, <2>5 DEF Missing, Known
<1>5. Traffic'
  <2>1. \A e : GoodDatagram(e) => GoodDatagram(e)'
    BY DEF GoodDatagram, is_end_of_session
  <2>2. \A r : GoodRequest(r) => GoodRequest(r)'
    BY DEF GoodRequest
  <2> QED
    BY <1>3, <1>4, <2>1, <2>2 DEF IInv, Traffic
<1>6. ASSUME NEW s \in Session, NEW n \in reported'[s]
      PROVE  \/ n \in delivered'[s]
             \/ \E r \in requests' : r.session = s /\ n \in r.start .. r.start + r.count - 1
             \/ \E e \in recovery' : e.session = s /\ n \in Decoded(e)
  <2>1. CASE n \in reported[s]
    <3>1. CASE n \in delivered[s]
      BY <1>3, <3>1
    <3>2. ASSUME NEW r \in requests, r.session = s, n \in r.start .. r.start + r.count - 1
          PROVE  \E q \in requests' : q.session = s /\ n \in q.start .. q.start + q.count - 1
      BY <1>3, <3>2
    <3>3. ASSUME NEW e \in recovery, e.session = s, n \in Decoded(e)
          PROVE  \/ n \in delivered'[s]
                 \/ \E g \in recovery' : g.session = s /\ n \in Decoded(g)
      <4>1. CASE e \in recovery'
        BY <3>3, <4>1
      <4>2. CASE e = d
        <5>1. ~ is_heartbeat(d)
          BY <3>3, <4>2 DEF IInv, Traffic, is_heartbeat
        <5> QED
          BY <1>3, <3>3, <4>2, <5>1
      <4> QED
        BY <4>1, <4>2
    <3> QED
      BY <2>1, <3>1, <3>2, <3>3 DEF IInv, Pursued
  <2>2. CASE n \notin reported[s]
    <3>1. s = d.session /\ n \in Missing(m_tracker, d.session, d.sequence_number)
      BY <1>2, <1>3, <1>6, <2>2 DEF IInv, Types
    <3>2. Gap(m_tracker, d.session, d.sequence_number) # 0
      BY <1>2, <3>1 DEF Missing, Gap, Known, Unseen
    <3>3. PICK r : r \in Requested(d)
      BY <3>2 DEF Requested
    <3> QED
      BY <1>3, <1>4, <3>1, <3>3
  <2> QED
    BY <2>1, <2>2
<1>7. \A s \in Session : Pursued(s)'
  BY <1>6 DEF Pursued, Decoded
<1> QED
  BY <1>1, <1>5, <1>7 DEF IInv

\* Every step preserves the invariant.
LEMMA InvStep ==
  ASSUME IInv, [Next]_vars
  PROVE  IInv'
<1>1. ASSUME NEW d, GoodDatagram(d), decode_packet(d), UNCHANGED published,
             network' \subseteq network, recovery' \subseteq recovery,
             \A e \in recovery : e \in recovery' \/ e = d,
             is_end_of_session(d) => UNCHANGED recovery
      PROVE  IInv'
  <2>1. CASE DecodePacket(d)
    BY <1>1, <2>1, DecodeInv
  <2>2. CASE DecodeEndOfSession(d)
    <3>1. /\ UNCHANGED <<published, recovery, requests, m_tracker, m_messages_decoded,
                         anchor, delivered, reported>>
          /\ m_packets_decoded' = Bump(m_packets_decoded, 1)
      BY <1>1, <2>2 DEF DecodeEndOfSession
    <3>2. Types'
      BY <3>1, BumpType DEF IInv, Types
    <3>3. Traffic'
      BY <1>1, <3>1 DEF IInv, Traffic, GoodDatagram, GoodRequest, is_end_of_session
    <3>4. \A s \in Session : SessionInv(s)' /\ Pursued(s)'
      BY <3>1 DEF IInv, SessionInv, Pursued, Decoded
    <3>5. ~ Cuts => \A s \in Session : Covered(s)'
      BY <3>1 DEF IInv, Covered
    <3> QED
      BY <3>2, <3>3, <3>4, <3>5 DEF IInv
  <2> QED
    BY <1>1, <2>1, <2>2 DEF decode_packet
<1>2. ASSUME NEW s \in Session, NEW n \in 1 .. MaxBlocks, Publish(s, n) PROVE IInv'
  BY <1>2, PublishInv
<1>3. ASSUME NEW s \in Session, Heartbeat(s) \/ EndSession(s) PROVE IInv'
  BY <1>3, ControlInv
<1>4. ASSUME NEW d \in network, Lose(d) PROVE IInv'
  BY <1>4, LoseInv
<1>5. ASSUME NEW d \in network, Receive(d) PROVE IInv'
  <2>1. GoodDatagram(d)
    BY DEF IInv, Traffic
  <2> QED
    BY <1>1, <1>5, <2>1 DEF Receive
<1>6. ASSUME NEW r \in requests, Retransmit(r) PROVE IInv'
  BY <1>6, RetransmitInv
<1>7. ASSUME NEW d \in recovery, ReceiveRecovered(d) PROVE IInv'
  <2>1. GoodDatagram(d) /\ ~ is_end_of_session(d)
    BY BlockBounds DEF IInv, Traffic, GoodDatagram, is_end_of_session
  <2> QED
    BY <1>1, <1>7, <2>1 DEF ReceiveRecovered
<1>8. CASE UNCHANGED vars
  BY <1>8, NetworkInv DEF vars, IInv, Traffic
<1> QED
  BY <1>2, <1>3, <1>4, <1>5, <1>6, <1>7, <1>8 DEF Next, ReceiveRunt

\* The invariant holds in every reachable state.
THEOREM Invariant == Spec => []IInv
<1>1. Init => IInv
  BY MoldAssumption
  DEF Init, NewTracker, IInv, Types, Tracker, Traffic, SessionInv, Covered, Pursued
<1> QED
  BY <1>1, InvStep, PTL DEF Spec

\* The decoder hands out only messages that have been published, and its statistics and
\* expectations are well typed, whatever the network does to the datagrams.
THEOREM TypeCorrect == Spec => []TypeOK
<1>1. IInv => TypeOK
  <2> SUFFICES ASSUME IInv PROVE TypeOK
    OBVIOUS
  <2>1. delivered \in [Session -> SUBSET (1 .. MaxSequence)]
    <3>1. ASSUME NEW s \in Session PROVE delivered[s] \subseteq 1 .. MaxSequence
      <4>1. published[s] \in 0 .. MaxSequence /\ delivered[s] \subseteq 1 .. published[s]
        BY DEF IInv, Types, SessionInv
      <4> QED
        BY <4>1, MoldAssumption
    <3> QED
      BY <3>1 DEF IInv, Types
  <2>2. \A d \in network \cup recovery : d.session \in Session /\ d.blocks \in 0 .. MaxBlocks
    BY DEF IInv, Traffic, GoodDatagram
  <2> QED
    BY <2>1, <2>2 DEF IInv, Types, Tracker, TypeOK
<1> QED
  BY <1>1, Invariant, PTL

\* As long as datagrams arrive whole, every message the decoder has come past was given
\* to the callback or named by the gap callback.
THEOREM NothingLostSilently == ASSUME ~ Cuts PROVE Spec => []DeliveredOrReported
<1>1. IInv => DeliveredOrReported
  <2> SUFFICES ASSUME IInv, NEW s \in Session, NEW n \in Passed(s)
               PROVE  n \in delivered[s] \cup reported[s]
    BY DEF DeliveredOrReported
  <2>1. /\ m_tracker.expected[s] # Unseen
        /\ n \in anchor[s] .. m_tracker.expected[s] - 1
    BY DEF Passed, Known
  <2>2. m_tracker.expected[s] \in Nat /\ anchor[s] \in Nat /\ Covered(s)
    BY <2>1 DEF IInv, Types, Tracker, SessionInv
  <2> QED
    BY <2>1, <2>2 DEF Covered
<1> QED
  BY <1>1, Invariant, PTL

\* Whatever has been reported missing has been published, and it has been delivered, or
\* a request for it is out, or its answer is on the way.
THEOREM GapsPursued == Spec => []GapsAreBeingRecovered
<1>1. IInv => GapsAreBeingRecovered
  <2> SUFFICES ASSUME IInv, NEW s \in Session, NEW n \in reported[s]
               PROVE  n <= published[s] /\ Pursued(s)
    BY DEF GapsAreBeingRecovered, Pursued
  <2>1. m_tracker.expected[s] # Unseen
    BY DEF IInv, SessionInv
  <2>2. /\ m_tracker.expected[s] \in Nat /\ published[s] \in Nat /\ n \in Nat
        /\ n < m_tracker.expected[s] /\ m_tracker.expected[s] <= published[s] + 1
    BY <2>1, MoldAssumption DEF IInv, Types, Tracker, SessionInv
  <2> QED
    BY <2>2 DEF IInv
<1> QED
  BY <1>1, Invariant, PTL
=============================================================================
