-------------------------------- MODULE Codec -------------------------------
(***************************************************************************)
(* The encoder at one end of a byte stream, the parser and the overlay at  *)
(* the other.  encode_frame appends frames; the framing loop (module       *)
(* Framing has its error paths) hands every frame to decode_typed and to   *)
(* the views.                                                              *)
(***************************************************************************)
EXTENDS Wire

CONSTANT MaxMessages    \* bound on the frames of a stream
ASSUME MaxMessagesAssumption == MaxMessages \in Nat

VARIABLES sent,     \* the messages encoded, in order
          wire,     \* the bytes of the stream
          offset,   \* how much of it the loop has consumed
          parsed,   \* the messages the parser delivered
          frame,    \* where the last delivered frame starts
          rejected  \* frames dropped for their size
vars == <<sent, wire, offset, parsed, frame, rejected>>

Types == ToSet(MessageTypes)

(* Every field of a message holds bytes of its own.  The timestamp member  *)
(* is wider than the wire: its two high bytes may or may not be zero.      *)
Sample(t, high) ==
  [name \in {f[1] : f \in FieldsOf(t)} |->
     CASE name = "message_type" -> << t >>
       [] name = "timestamp"    -> [i \in 1..8 |-> IF i > 6 /\ high = "zero" THEN Zero
                                                   ELSE <<name, i>>]
       [] OTHER                 -> [i \in 1..WidthOf(t, name) |-> <<name, i>>]]
Messages == {Sample(t, high) : t \in Types, high \in {"zero", "used"}}

Init == /\ sent = << >> /\ wire = << >> /\ offset = 0
        /\ parsed = << >> /\ frame = 0 /\ rejected = 0

Encode(m) == /\ Len(sent) < MaxMessages
             /\ sent' = Append(sent, m)
             /\ wire' = wire \o encode_frame(m)
             /\ UNCHANGED <<offset, parsed, frame, rejected>>

\* One turn of the framing loop.
Parse == LET length == wire[offset + 1] * 256 + wire[offset + 2]
             start  == offset + 2
             t      == wire[start + 1]
             fits   == length >= SIZE_TABLE[t]
         IN /\ offset < Len(wire)
            /\ offset' = start + length
            /\ parsed' = IF fits THEN Append(parsed, decode_typed(t, wire, start)) ELSE parsed
            /\ frame' = IF fits THEN start ELSE frame
            /\ rejected' = IF fits THEN rejected ELSE rejected + 1
            /\ UNCHANGED <<sent, wire>>

Next == Parse \/ \E m \in Messages : Encode(m)
Spec == Init /\ [][Next]_vars

-----------------------------------------------------------------------------
\* The stream position never leaves the stream; a message has its type's fields.
TypeOK == /\ offset \in 0..Len(wire)
          /\ frame \in 0..Len(wire)
          /\ rejected \in 0..MaxMessages
          /\ \A i \in 1..Len(parsed) :
               LET m == parsed[i]
               IN /\ TypeOf(m) \in Types
                  /\ DOMAIN m = {f[1] : f \in FieldsOf(TypeOf(m))}
                  /\ \A f \in FieldsOf(TypeOf(m)) : Len(m[f[1]]) = f[3]

\* The timestamp has 48 bits on the wire; the rest of a message is kept whole.
OnWire(m) == [m EXCEPT !["timestamp"] = SubSeq(@, 1, 6) \o << Zero, Zero >>]

\* parse(encode(msg)) = msg for every message type, member by member, up to the
\* two high bytes of the timestamp that the 48-bit field cannot carry: encoder
\* and parser agree on order, width and byte order of every field, no member is
\* left uninitialized, and no frame the encoder writes is rejected for its size.
RoundTrip == /\ rejected = 0
             /\ parsed = [i \in 1..Len(parsed) |-> OnWire(sent[i])]

\* The wire form of a message according to its struct.
Declared(m) ==
  FoldLeft(LAMBDA b, f : b \o CASE f[1] = "timestamp" -> Reverse(SubSeq(m[f[1]], 1, 6))
                                [] f[2] = "int"       -> Reverse(m[f[1]])
                                [] OTHER              -> m[f[1]],
           << >>, Struct(TypeOf(m)))
\* What the encoder writes is the declared struct, member after member, integers
\* most significant byte first, the timestamp in six bytes: exactly WIRE_SIZE bytes
\* (encode_message against messages.hpp and the wire.hpp derivation).
WireFollowsStructs ==
  sent # << >> => LET m == Last(sent)
                      n == WIRE_SIZE(TypeOf(m))
                  IN /\ Len(encode_message(m)) = n
                     /\ SubSeq(wire, Len(wire) - n + 1, Len(wire)) = Declared(m)

\* A view over a frame reads, at the offsets written in overlay.hpp, what the
\* parser decoded from it, and reads no byte beyond the frame.
ViewsAgreeWithParser ==
  parsed # << >> =>
    LET m == Last(parsed)
    IN /\ read_timestamp(wire, frame + 5) = m["timestamp"]
       /\ \A i \in 1..Len(View(TypeOf(m))) :
            LET f == View(TypeOf(m))[i][1]
                o == View(TypeOf(m))[i][2]
            IN /\ o + f[3] <= WIRE_SIZE(TypeOf(m))
               /\ read_field(wire, frame + o, f) = m[f[1]]

\* The five tellings of each layout - the structs, the wire sizes, the encoder, the
\* parser and the offsets of the views - agree byte for byte, and what is encoded is
\* decoded to the same fields.
LayoutsAgree == TypeOK /\ RoundTrip /\ WireFollowsStructs /\ ViewsAgreeWithParser
=============================================================================
