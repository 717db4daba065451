----------------------------- MODULE SoupBinTcp -----------------------------
(***************************************************************************)
(* itch::transport::SoupBinDecoder: packets reassembled from the chunks a  *)
(* TCP connection delivers, session and sequence number learned from Login *)
(* Accepted, the tracker observed once per sequenced packet.               *)
(*                                                                         *)
(* The server's stream is a sequence of packets, each two prefix bytes and *)
(* a body of `size' bytes (a zero-length frame has none): records [kind,   *)
(* size] with a session and the next number for "login_accepted" (a        *)
(* "short_login" is too short for them), a payload, "message" or another,  *)
(* for "sequenced_data" and "unsequenced_data", nothing for "control" and  *)
(* "zero".  The buffer holds bytes <<packet, position>>.  A callback may   *)
(* throw: a runtime_error of the message callback is swallowed by          *)
(* decode_application_message, anything else leaves feed() before it drops *)
(* the bytes it has consumed.                                              *)
(***************************************************************************)
EXTENDS SequencingOps, Sequences, SequencesExt, FiniteSets

CONSTANTS Streams,     \* what the server may send: sequences of packets
          MaxThrows,   \* bound on the callbacks that throw
          NoSession    \* the empty session name, before any login

VARIABLES
  m_buffer, m_session, m_next_sequence, m_messages_decoded, m_tracker,
  pc, offset,               \* feed() under way, and its offset
  stream, fed,              \* the server's packets; bytes of them handed to feed()
  accepted, swallowed,      \* packets whose callback returned; threw a runtime_error
  throws,                   \* exceptions that left feed()
  first, heard, reported    \* per session: first number; numbers observed; reported missing
decoder == <<m_session, m_next_sequence, m_messages_decoded, m_tracker>>
history == <<first, heard, reported>>
vars == <<m_buffer, decoder, pc, offset, stream, fed, accepted, swallowed, throws, history>>

\* What a stream may be: typed packets, a zero-length frame being of its own kind.
PacketOK(p) ==
  /\ p.size \in Nat /\ (p.size = 0 => p.kind = "zero")
  /\ p.kind = "login_accepted" => p.session \in Session /\ p.next \in Nat
StreamOK(packets) ==
  /\ Len(packets) \in Nat /\ DOMAIN packets = 1 .. Len(packets)
  /\ \A i \in DOMAIN packets : PacketOK(packets[i])
ASSUME StreamAssumption == NoSession \in Session /\ \A packets \in Streams : StreamOK(packets)

\* The bytes up to the end of each packet, of its n-th byte the packet, and its bytes after
\* the first m, up to the n-th, each with its place in its packet.
Ends(packets) ==
  LET end[i \in 0 .. Len(packets)] == IF i = 0 THEN 0 ELSE end[i - 1] + 2 + packets[i].size
  IN  end
EndOf(i) == Ends(stream)[i]
PacketAt(n) == CHOOSE i \in 1 .. Len(stream) : EndOf(i - 1) < n /\ n <= EndOf(i)
Byte(n) == LET i == PacketAt(n) IN <<i, n - EndOf(i - 1)>>
Bytes(m, n) == [k \in 1 .. n - m |-> Byte(m + k)]

Init == /\ m_buffer = << >> /\ m_session = NoSession /\ m_next_sequence = 1
        /\ m_messages_decoded = 0 /\ m_tracker = NewTracker
        /\ pc = "new" /\ offset = 0 /\ stream = << >>
        /\ fed = 0 /\ accepted = << >> /\ swallowed = {} /\ throws = 0
        /\ first = [s \in Session |-> Unseen] /\ heard = {} /\ reported = {}

-----------------------------------------------------------------------------
\* The connection: what will come over it is the server's choice.
Connect == /\ pc = "new" /\ pc' = "idle" /\ stream' \in Streams
           /\ UNCHANGED <<m_buffer, decoder, offset, fed, accepted, swallowed, throws, history>>

(* feed(): append the chunk, then one packet after the other.              *)
feed(n) == /\ pc = "idle" /\ n <= EndOf(Len(stream)) - fed
           /\ m_buffer' = m_buffer \o Bytes(fed, fed + n)
           /\ fed' = fed + n
           /\ pc' = "loop" /\ offset' = 0
           /\ UNCHANGED <<decoder, stream, accepted, swallowed, throws, history>>

HasPrefix == Len(m_buffer) - offset >= 2
Packet == m_buffer[offset + 1][1]
HasPacket == /\ HasPrefix /\ stream[Packet].size > 0
             /\ Len(m_buffer) - offset >= 2 + stream[Packet].size

SkipZeroLength == /\ pc = "loop" /\ HasPrefix /\ stream[Packet].size = 0
                  /\ offset' = offset + 2
                  /\ UNCHANGED <<m_buffer, decoder, pc, stream, fed, accepted, swallowed, throws, history>>

\* The rest of the packet has not arrived: drop what was consumed and return.
Return == /\ pc = "loop"
          /\ HasPrefix => stream[Packet].size > 0 /\ ~HasPacket
          /\ m_buffer' = SubSeq(m_buffer, offset + 1, Len(m_buffer))
          /\ pc' = "idle" /\ offset' = 0
          /\ UNCHANGED <<decoder, stream, fed, accepted, swallowed, throws, history>>

\* Mutant: the packet is gone with the exception.
Escape_Consumes == /\ throws < MaxThrows /\ throws' = throws + 1
                   /\ pc' = "idle" /\ offset' = 0
                   /\ m_buffer' = SubSeq(m_buffer, offset + 3 + stream[Packet].size, Len(m_buffer))
\* How a packet leaves the loop: processed, or with an exception and the buffer
\* still holding everything from before.
Escape == /\ throws < MaxThrows /\ throws' = throws + 1
          /\ pc' = "idle" /\ offset' = 0 /\ UNCHANGED m_buffer
Proceed == /\ offset' = offset + 2 + stream[Packet].size
           /\ UNCHANGED <<throws, pc, m_buffer>>

\* Mutant: a login that asks for number 0 sets it.
LoginNumber_AsIs(p) == p.next
\* Only the event callback sees control packets; login first sets the session.
LoginNumber(p) == IF p.next = 0 THEN 1 ELSE p.next
ProcessControl ==
  LET p == stream[Packet]
  IN /\ pc = "loop" /\ HasPacket
     /\ p.kind \in {"login_accepted", "short_login", "control"}
     /\ IF p.kind = "login_accepted"
        THEN m_session' = p.session /\ m_next_sequence' = LoginNumber(p)
        ELSE UNCHANGED <<m_session, m_next_sequence>>
     /\ Proceed \/ Escape
     /\ UNCHANGED <<m_messages_decoded, m_tracker, stream, fed, accepted, swallowed, history>>

\* decode_application_message: a payload the parser skips reaches no callback.
Decode ==
  LET p == stream[Packet]
  IN \/ /\ p.payload # "message" /\ Proceed
        /\ UNCHANGED <<m_messages_decoded, accepted, swallowed>>
     \/ /\ p.payload = "message"
        /\ m_messages_decoded' = m_messages_decoded + 1
        /\ \/ Proceed /\ accepted' = Append(accepted, Packet) /\ UNCHANGED swallowed
           \/ /\ Proceed /\ MaxThrows > 0                  \* a runtime_error
              /\ swallowed' = swallowed \cup {Packet} /\ UNCHANGED accepted
           \/ Escape /\ UNCHANGED <<accepted, swallowed>>

\* Mutant: the number is advanced before the tracker sees it.
observe_next_NumberedAfter ==
  /\ m_tracker' = observe(m_tracker, m_session, m_next_sequence + 1, 1)
  /\ reported' = reported \cup {<<m_session, n>> : n \in Missing(m_tracker, m_session, m_next_sequence + 1)}
observe_next ==
  /\ m_tracker' = observe(m_tracker, m_session, m_next_sequence, 1)
  /\ reported' = reported \cup {<<m_session, n>> : n \in Missing(m_tracker, m_session, m_next_sequence)}

ProcessSequenced ==
  /\ pc = "loop" /\ HasPacket /\ stream[Packet].kind = "sequenced_data"
  /\ observe_next
  /\ m_next_sequence' = m_next_sequence + 1
  /\ first' = [first EXCEPT ![m_session] = IF @ = Unseen THEN m_next_sequence ELSE @]
  /\ heard' = heard \cup {<<m_session, m_next_sequence>>}
  /\ Decode
  /\ UNCHANGED <<m_session, stream, fed>>

ProcessUnsequenced ==
  /\ pc = "loop" /\ HasPacket /\ stream[Packet].kind = "unsequenced_data"
  /\ Decode
  /\ UNCHANGED <<m_session, m_next_sequence, m_tracker, stream, fed, history>>

Next == \/ Connect
        \/ \E n \in 0..EndOf(Len(stream)) : feed(n)
        \/ SkipZeroLength \/ Return \/ ProcessControl \/ ProcessSequenced \/ ProcessUnsequenced
Spec == Init /\ [][Next]_vars

-----------------------------------------------------------------------------
CarriesMessage(p) == /\ p.kind \in {"sequenced_data", "unsequenced_data"}
                     /\ p.payload = "message"

\* What a decoder that sees whole packets makes of the n-th packet p, d being what it has
\* made of those before: the session, the next number, and the packets whose message it
\* has delivered.
Read(p, n, d) ==
  [session  |-> IF p.kind = "login_accepted" THEN p.session ELSE d.session,
   next     |-> CASE p.kind = "login_accepted" -> IF p.next = 0 THEN 1 ELSE p.next
                  [] p.kind = "sequenced_data" -> d.next + 1
                  [] OTHER                     -> d.next,
   messages |-> IF CarriesMessage(p) THEN Append(d.messages, n) ELSE d.messages]
After(packets) ==
  LET after[n \in 0 .. Len(packets)] ==
        IF n = 0 THEN [session |-> NoSession, next |-> 1, messages |-> << >>]
        ELSE Read(packets[n], n, after[n - 1])
  IN  after

Complete == Cardinality({i \in 1..Len(stream) : EndOf(i) <= fed})
Consumed(i) == EndOf(i) <= fed - Len(m_buffer)
Carries(i) == CarriesMessage(stream[i])

\* The buffer is the unconsumed tail of what was fed, and never more.
TypeOK == /\ m_session \in Session /\ m_next_sequence \in Nat
          /\ offset \in 0..Len(m_buffer)
          /\ m_buffer = Bytes(fed - Len(m_buffer), fed)

\* However the stream is cut into chunks - inside a prefix, a body, across packets -
\* as long as no exception left feed() every message is delivered exactly once and in
\* order, the session and the next number are those of the last login and the packets
\* since, and nothing but an unfinished packet stays in the buffer.
ChunkingIsInvisible ==
  pc = "idle" /\ throws = 0 =>
    /\ swallowed = {} => accepted = After(stream)[Complete].messages
    /\ m_session = After(stream)[Complete].session
    /\ m_next_sequence = After(stream)[Complete].next
    /\ Len(m_buffer) = fed - EndOf(Complete)

\* An exception that leaves feed() loses nothing: the packets of that call are
\* processed again by the next one, so every message whose bytes are gone from the
\* buffer was accepted by the callback, or the callback threw a runtime_error at it.
NothingIsSkipped ==
  pc = "idle" => \A i \in 1..Len(stream) :
    Carries(i) /\ Consumed(i) => Contains(accepted, i) \/ i \in swallowed

\* Each exception that leaves feed() costs at most one more delivery of a message, and
\* makes the numbers run ahead of the server's, never behind.
RepeatsAreBounded ==
  /\ \A i \in Range(accepted) : Cardinality({k \in DOMAIN accepted : accepted[k] = i}) <= 1 + throws
  /\ pc = "idle" /\ Len(m_buffer) = fed - EndOf(Complete) =>
       m_next_sequence >= After(stream)[Complete].next

\* An exception that leaves feed() loses no message, and costs at most one more delivery
\* of each.
EscapesOnlyRepeat == TypeOK /\ NothingIsSkipped /\ RepeatsAreBounded

\* Across logins that resume, jump ahead, step back or change the session: within a
\* session every number from the first one seen up to the tracker's expectation was
\* either processed or reported missing.
NoSilentJump ==
  \A s \in Session : first[s] # Unseen =>
    \A n \in first[s]..(m_tracker.expected[s] - 1) : <<s, n>> \in heard \cup reported
=============================================================================
