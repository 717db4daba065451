----------------------------- MODULE MoldUdp64 -----------------------------
(***************************************************************************)
(* MoldUdp64Decoder at the end of a multicast channel.                     *)
(*                                                                         *)
(* The exchange publishes numbered messages in datagrams; the network may  *)
(* lose, repeat, reorder and cut them short; the decoder feeds each header *)
(* to its SequenceTracker and its blocks to the parser; the application    *)
(* answers the tracker's retransmission requests over a channel of its own *)
(* and feeds the answers back through the decoder, as sequencing.hpp asks  *)
(* of it.  The exchange, the network and the application are external.     *)
(***************************************************************************)
EXTENDS SequencingOps, FiniteSets

CONSTANTS
  MaxSequence,   \* messages the exchange publishes in a session
  MaxBlocks,     \* most messages in one datagram
  Cuts,          \* whether the network may cut a datagram inside its last block
  Repeats,       \* whether the network may deliver a datagram again
  MaxStat        \* the decoder's statistics are told apart up to this value

\* The message_count that marks an end-of-session packet, and so no number of messages.
END_OF_SESSION == 65535

ASSUME MoldAssumption ==
  /\ MaxSequence \in Nat /\ MaxBlocks \in 1 .. END_OF_SESSION - 1 /\ MaxStat \in Nat
  /\ Cuts \in BOOLEAN /\ Repeats \in BOOLEAN

VARIABLES
  published,         \* [session -> number of messages published]
  network,           \* datagrams on the way
  recovery,          \* retransmitted datagrams on the way
  requests,          \* retransmission requests not answered yet
  m_tracker,         \* the decoder's SequenceTracker
  m_packets_decoded,
  m_messages_decoded,
  anchor,            \* history: [session -> first sequence number seen]
  delivered,         \* history: [session -> numbers passed to the callback]
  reported           \* history: [session -> numbers reported as missing]

decoderVars == <<m_tracker, m_packets_decoded, m_messages_decoded,
                 anchor, delivered, reported>>
vars == <<published, network, recovery, requests, decoderVars>>

-----------------------------------------------------------------------------
(***************************************************************************)
(* Datagrams.  `blocks` counts the complete message blocks after the       *)
(* header: message_count of them, or fewer when the datagram was cut.      *)
(***************************************************************************)

Datagram(s, first, count, blocks) ==
  [session |-> s, sequence_number |-> first, message_count |-> count,
   blocks |-> blocks]

is_end_of_session(d) == d.message_count = END_OF_SESSION
is_heartbeat(d)      == d.message_count = 0

-----------------------------------------------------------------------------
(***************************************************************************)
(* The exchange and the network.                                           *)
(***************************************************************************)

\* The forms in which the network can hand over a datagram of n messages.
Arrivals(s, first, n) ==
  {Datagram(s, first, n, b) : b \in IF Cuts THEN {n - 1, n} ELSE {n}}

Publish(s, n) ==
  /\ published[s] + n <= MaxSequence
  /\ published' = [published EXCEPT ![s] = @ + n]
  /\ \E d \in Arrivals(s, published[s] + 1, n) : network' = network \cup {d}
  /\ UNCHANGED <<recovery, requests, decoderVars>>

\* Sent when there is nothing to say: the number of the next message, no message.
Heartbeat(s) ==
  /\ network' = network \cup {Datagram(s, published[s] + 1, 0, 0)}
  /\ UNCHANGED <<published, recovery, requests, decoderVars>>

EndSession(s) ==
  /\ published[s] = MaxSequence
  /\ network' = network \cup {Datagram(s, published[s] + 1, END_OF_SESSION, 0)}
  /\ UNCHANGED <<published, recovery, requests, decoderVars>>

Lose(d) ==
  /\ network' = network \ {d}
  /\ UNCHANGED <<published, recovery, requests, decoderVars>>

\* The application re-requests a gap and gets its messages one per datagram.
Retransmit(r) ==
  /\ requests' = requests \ {r}
  /\ recovery' = recovery \cup
       {Datagram(r.session, n, 1, 1) : n \in r.start .. r.start + r.count - 1}
  /\ UNCHANGED <<published, network, decoderVars>>

-----------------------------------------------------------------------------
(***************************************************************************)
(* The decoder.                                                            *)
(***************************************************************************)

\* A statistic, up to MaxStat.
Bump(stat, n) == IF stat + n < MaxStat THEN stat + n ELSE MaxStat

\* Mutant: the first block is taken for a part of the header.
Decoded_SkipsFirst(d) == d.sequence_number + 1 .. d.sequence_number + d.blocks - 1

\* Mutant: the parser reads one block beyond the datagram.
Decoded_Overruns(d) == d.sequence_number .. d.sequence_number + d.blocks

\* The numbers of the messages the parser hands to the callback: the complete
\* blocks.  The parse error of a cut block is caught and dropped.
Decoded(d) == d.sequence_number .. d.sequence_number + d.blocks - 1

\* Mutant: the request names the packet that was received.
Requested_FromReceived(d) ==
  IF Gap(m_tracker, d.session, d.sequence_number) = 0 THEN {}
  ELSE {[session |-> d.session, start |-> d.sequence_number,
         count |-> Gap(m_tracker, d.session, d.sequence_number)]}

\* The request the tracker makes when it sees the header, if it makes one.
Requested(d) ==
  IF Gap(m_tracker, d.session, d.sequence_number) = 0 THEN {}
  ELSE {[session |-> d.session, start |-> m_tracker.expected[d.session],
         count |-> Gap(m_tracker, d.session, d.sequence_number)]}

\* A control packet: it is counted, and nothing else happens.
DecodeEndOfSession(d) ==
  /\ is_end_of_session(d)
  /\ m_packets_decoded' = Bump(m_packets_decoded, 1)
  /\ UNCHANGED <<requests, m_tracker, m_messages_decoded, anchor, delivered, reported>>

\* Mutant: blocks the tracker has counted before are not decoded.
DecodePacket_SkipsOld(d) ==
  /\ ~ is_end_of_session(d)
  /\ m_packets_decoded' = Bump(m_packets_decoded, 1)
  /\ m_tracker' = observe(m_tracker, d.session, d.sequence_number, d.message_count)
  /\ requests' = requests \cup Requested(d)
  /\ anchor' = [anchor EXCEPT ![d.session] =
                  IF Known(m_tracker, d.session) THEN @ ELSE d.sequence_number]
  /\ reported' = [reported EXCEPT ![d.session] =
                    @ \cup Missing(m_tracker, d.session, d.sequence_number)]
  /\ LET new == {n \in Decoded(d) : n >= m_tracker.expected[d.session]}
     IN  /\ m_messages_decoded' = Bump(m_messages_decoded, Cardinality(new))
         /\ delivered' = [delivered EXCEPT ![d.session] = @ \cup new]

\* Data and heartbeats: the header goes to the tracker before any block is looked at.
DecodePacket(d) ==
  /\ ~ is_end_of_session(d)
  /\ m_packets_decoded' = Bump(m_packets_decoded, 1)
  /\ m_tracker' = observe(m_tracker, d.session, d.sequence_number, d.message_count)
  /\ requests' = requests \cup Requested(d)
  /\ anchor' = [anchor EXCEPT ![d.session] =
                  IF Known(m_tracker, d.session) THEN @ ELSE d.sequence_number]
  /\ reported' = [reported EXCEPT ![d.session] =
                    @ \cup Missing(m_tracker, d.session, d.sequence_number)]
  /\ IF is_heartbeat(d)
     THEN UNCHANGED <<m_messages_decoded, delivered>>
     ELSE /\ m_messages_decoded' = Bump(m_messages_decoded, d.blocks)
          /\ delivered' = [delivered EXCEPT ![d.session] = @ \cup Decoded(d)]

decode_packet(d) == DecodeEndOfSession(d) \/ DecodePacket(d)

\* Fewer bytes than a header: decode_packet returns std::nullopt at once.
ReceiveRunt == UNCHANGED vars

Receive(d) ==
  /\ \/ network' = network \ {d}
     \/ Repeats /\ network' = network
  /\ decode_packet(d)
  /\ UNCHANGED <<published, recovery>>

ReceiveRecovered(d) ==
  /\ recovery' = recovery \ {d}
  /\ decode_packet(d)
  /\ UNCHANGED <<published, network>>

-----------------------------------------------------------------------------

Init ==
  /\ published = [s \in Session |-> 0]
  /\ network = {}
  /\ recovery = {}
  /\ requests = {}
  /\ m_tracker = NewTracker
  /\ m_packets_decoded = 0
  /\ m_messages_decoded = 0
  /\ anchor = [s \in Session |-> Unseen]
  /\ delivered = [s \in Session |-> {}]
  /\ reported = [s \in Session |-> {}]

Next ==
  \/ \E s \in Session, n \in 1 .. MaxBlocks : Publish(s, n)
  \/ \E s \in Session : Heartbeat(s) \/ EndSession(s)
  \/ \E d \in network : Lose(d) \/ Receive(d)
  \/ \E r \in requests : Retransmit(r)
  \/ \E d \in recovery : ReceiveRecovered(d)
  \/ ReceiveRunt

Spec == Init /\ [][Next]_vars

\* What the surroundings owe the decoder: an idle exchange sends heartbeats, one of
\* them gets through in the end, and the application recovers what it is asked to.
Fairness ==
  /\ \A s \in Session :
       /\ WF_vars(Heartbeat(s))
       /\ SF_vars(\E d \in network : d.session = s /\ is_heartbeat(d) /\
                    d.sequence_number = published[s] + 1 /\ Receive(d))
  /\ WF_vars(\E r \in requests : Retransmit(r))
  /\ WF_vars(\E d \in recovery : ReceiveRecovered(d))

FairSpec == Spec /\ Fairness

-----------------------------------------------------------------------------
(***************************************************************************)
(* Properties.                                                             *)
(***************************************************************************)

\* Type invariant.
TypeOK ==
  /\ published \in [Session -> 0 .. MaxSequence]
  /\ \A d \in network \cup recovery :
       d.session \in Session /\ d.blocks \in 0 .. MaxBlocks
  /\ m_tracker.expected \in [Session -> Nat \cup {Unseen}]
  /\ m_packets_decoded \in 0 .. MaxStat
  /\ m_messages_decoded \in 0 .. MaxStat
  /\ delivered \in [Session -> SUBSET (1 .. MaxSequence)]

\* The numbers a session has come past, from the first one seen.
Passed(s) == IF Known(m_tracker, s) THEN anchor[s] .. m_tracker.expected[s] - 1
                                    ELSE {}

\* As long as datagrams arrive whole, no message goes missing in silence: the callback
\* got it or the gap callback named it, however packets were lost and reordered.
DeliveredOrReported == \A s \in Session : Passed(s) \subseteq delivered[s] \cup reported[s]

\* What is reported missing can be recovered: the exchange has published it, and a
\* request for it is out, or its answer is on the way, or it has been delivered.
GapsAreBeingRecovered ==
  \A s \in Session : \A n \in reported[s] :
    /\ n <= published[s]
    /\ \/ n \in delivered[s]
       \/ \E r \in requests : r.session = s /\ n \in r.start .. r.start + r.count - 1
       \/ \E d \in recovery : d.session = s /\ n \in Decoded(d)

\* Every message published since the decoder joined the session is delivered in the
\* end, the last ones included: a heartbeat reveals what no later datagram can.
EverythingArrives ==
  \A s \in Session, n \in 1 .. MaxSequence :
    (Known(m_tracker, s) /\ n >= anchor[s] /\ n <= published[s]) ~> n \in delivered[s]

\* "A truncated trailing block in a single datagram is non-fatal here; the gap will
\* already have been surfaced by the sequence tracker."  The same formula as
\* DeliveredOrReported, for a network that cuts datagrams short.
CutBlocksAreSurfaced ==
  \A s \in Session : Passed(s) \subseteq delivered[s] \cup reported[s]
=============================================================================
