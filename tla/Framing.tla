------------------------------- MODULE Framing ------------------------------
(***************************************************************************)
(* Parser: the framing loop behind every parse overload (parser.cpp), the  *)
(* overloads around it, its diagnostics, the way MoldUdp64Decoder calls it *)
(* (moldudp64.cpp), and the overlay's own framing loop (overlay.hpp).      *)
(*                                                                         *)
(* A buffer is a run of frames, cut anywhere.  The bytes are the program's *)
(* state: a two-byte length, a type byte, filler.  `frames' and the cut    *)
(* are what the properties compare with; the loops never look at them.     *)
(* A callback, of messages, of errors or of views, may throw at any call.  *)
(***************************************************************************)
EXTENDS Integers, Sequences, FiniteSets

CONSTANTS WireSize,    \* type byte -> wire size, 0 for a byte that is no type
          MaxLength,   \* bound on a frame's declared length
          MaxFrames,   \* bound on the frames of a buffer
          MaxCalls,    \* bound on the calls of one Parser
          Filters      \* type lists the filtering overload is called with

VARIABLES
  \* the Parser
  m_unknown_message_count, m_malformed_message_count, m_error_callback,
  \* the call under way
  pc, kind, filter, buffer, offset, results, outcome,
  \* what the properties look at
  frames, cut, delivered, errors, threw, base, calls
parser == <<m_unknown_message_count, m_malformed_message_count, m_error_callback>>
input  == <<kind, filter, buffer, frames, cut, base, calls>>
vars   == <<parser, input, pc, offset, results, outcome, delivered, errors, threw>>

Kinds == {"callback", "vector", "filter", "try", "try_vector", "datagram", "stream", "views"}
Filler == 9
Frame == {[len |-> 0, type |-> 0]} \cup [len : 1..MaxLength, type : DOMAIN WireSize \ {0}]
BytesOf(f) == << f.len \div 256, f.len % 256 >>
                \o [i \in 1..f.len |-> IF i = 1 THEN f.type ELSE Filler]
Runs(fs) == LET run[i \in 0..Len(fs)] == IF i = 0 THEN << >> ELSE run[i - 1] \o BytesOf(fs[i])
            IN  run
AllBytes(fs) == Runs(fs)[Len(fs)]
Zeros(n) == [i \in 1..n |-> 0]

Init == /\ m_unknown_message_count = 0 /\ m_malformed_message_count = 0
        /\ m_error_callback = FALSE
        /\ pc = "idle" /\ kind = "callback" /\ filter = {} /\ buffer = << >> /\ offset = 0
        /\ results = << >> /\ outcome = "none" /\ frames = << >> /\ cut = 0
        /\ delivered = << >> /\ errors = << >> /\ threw = "no" /\ base = <<0, 0>> /\ calls = 0

-----------------------------------------------------------------------------
(* Entering a call.                                                        *)
Enter(k, fl, fs, c, b) ==
  /\ pc = "idle" /\ calls < MaxCalls /\ calls' = calls + 1
  /\ kind' = k /\ filter' = fl /\ frames' = fs /\ cut' = c /\ buffer' = b
  /\ offset' = 0 /\ results' = << >> /\ delivered' = << >> /\ errors' = << >> /\ threw' = "no"
  /\ base' = <<m_unknown_message_count, m_malformed_message_count>>
  /\ UNCHANGED parser

Parse(k, fs, c) ==                    \* parse, try_parse, decode_packet, for_each_message
  /\ k \in Kinds \ {"filter", "stream"}
  /\ Enter(k, {}, fs, c, SubSeq(AllBytes(fs), 1, c))
  /\ pc' = "loop" /\ outcome' = "none"

ParseFiltered(fl, fs, c) ==           \* an empty filter returns before the loop
  /\ Enter("filter", fl, fs, c, SubSeq(AllBytes(fs), 1, c))
  /\ pc' = IF fl = {} THEN "returned" ELSE "loop"
  /\ outcome' = IF fl = {} THEN "ok" ELSE "none"

\* read_stream_into_buffer: the buffer has the size tellg() gave; a read that
\* stops early leaves the rest of it zero.  An unsized stream throws.
ParseStream(fs, c) ==
  LET n == Len(AllBytes(fs))
  IN /\ Enter("stream", {}, fs, c, SubSeq(AllBytes(fs), 1, c) \o Zeros(n - c))
     /\ pc' = "loop" /\ outcome' = "none"
ParseUnsizedStream ==
  /\ Enter("stream", {}, << >>, 0, << >>)
  /\ pc' = "returned" /\ outcome' = "stream_error"

-----------------------------------------------------------------------------
(* parse_impl: one turn of the loop.                                       *)
size == Len(buffer)
Prefix == buffer[offset + 1] * 256 + buffer[offset + 2]
HasPrefix == offset + 2 <= size
HasFrame == HasPrefix /\ Prefix > 0 /\ offset + 2 + Prefix <= size
Type == buffer[offset + 3]
Running(ks) == pc = "loop" /\ kind \in ks
ParserKinds == Kinds \ {"views"}

\* What leaves the call when user code throws: decode_packet swallows a
\* runtime_error, every other entry point lets it out.
Escapes(exception) == IF kind = "datagram" /\ exception = "runtime_error" THEN "ok" ELSE exception

\* Mutant: counted only when nobody listens.
report_error_ChecksFirst(error, exception) ==
  /\ IF m_error_callback
     THEN /\ errors' = Append(errors, error)
          /\ m_malformed_message_count' = m_malformed_message_count
          /\ m_unknown_message_count' = m_unknown_message_count
     ELSE /\ exception = "no"
          /\ IF error = "unknown_type"
             THEN /\ m_unknown_message_count' = m_unknown_message_count + 1
                  /\ UNCHANGED m_malformed_message_count
             ELSE /\ m_malformed_message_count' = m_malformed_message_count + 1
                  /\ UNCHANGED m_unknown_message_count
          /\ UNCHANGED errors
  /\ threw' = exception
  /\ UNCHANGED m_error_callback
report_error(error, exception) ==
  /\ IF error = "unknown_type"
     THEN /\ m_unknown_message_count' = m_unknown_message_count + 1
          /\ UNCHANGED m_malformed_message_count
     ELSE /\ m_malformed_message_count' = m_malformed_message_count + 1
          /\ UNCHANGED m_unknown_message_count
  /\ exception # "no" => m_error_callback
  /\ errors' = IF m_error_callback THEN Append(errors, error) ELSE errors
  /\ threw' = exception
  /\ UNCHANGED m_error_callback

Exceptions == {"no", "runtime_error", "other_exception"}
Leave(o) == pc' = "returned" /\ outcome' = o

\* Mutant: a zero length moves nothing.
Padding_Stuck ==
  /\ Running(ParserKinds) /\ HasPrefix /\ Prefix = 0
  /\ offset' = offset
  /\ UNCHANGED <<parser, input, pc, results, outcome, delivered, errors, threw>>
Padding ==                             \* a zero-length frame is skipped
  /\ Running(ParserKinds) /\ HasPrefix /\ Prefix = 0
  /\ offset' = offset + 2
  /\ UNCHANGED <<parser, input, pc, results, outcome, delivered, errors, threw>>

\* The buffer ends inside a prefix or inside a frame.  parse throws, try_parse
\* returns an error, decode_packet catches the throw and returns the header.
Truncated(exception) ==
  /\ Running(ParserKinds)
  /\ IF HasPrefix THEN offset + 2 + Prefix > size ELSE offset < size
  /\ report_error("truncated", exception)
  /\ Leave(IF exception # "no" THEN Escapes(exception)
           ELSE CASE kind = "datagram"              -> "ok"
                  [] kind \in {"try", "try_vector"} -> "unexpected"
                  [] OTHER                          -> "runtime_error")
  /\ UNCHANGED <<input, offset, results, delivered>>

\* Mutant: a frame shorter than its type is decoded.
Rejected_NoSizeCheck == WireSize[Type] = 0
\* Unknown type bytes and frames shorter than their type are reported and skipped.
Rejected == WireSize[Type] = 0 \/ Prefix < WireSize[Type]
Skip(exception) ==
  /\ Running(ParserKinds) /\ HasFrame /\ Rejected
  /\ report_error(IF WireSize[Type] = 0 THEN "unknown_type" ELSE "size_mismatch", exception)
  /\ offset' = offset + 2 + Prefix
  /\ IF exception = "no" THEN UNCHANGED <<pc, outcome>> ELSE Leave(Escapes(exception))
  /\ UNCHANGED <<input, results, delivered>>

Kept(t) == kind \in {"vector", "try_vector"} \/ (kind = "filter" /\ t \in filter)

\* The decoded message goes to the callback; the collecting overloads' own
\* callbacks do not throw.
Deliver(exception) ==
  /\ Running(ParserKinds) /\ HasFrame /\ ~Rejected
  /\ exception # "no" => kind \in {"callback", "try", "datagram", "stream"}
  /\ offset' = offset + 2 + Prefix
  /\ delivered' = Append(delivered, offset)
  /\ results' = IF Kept(Type) THEN Append(results, offset) ELSE results
  /\ IF exception = "no" THEN UNCHANGED <<pc, outcome>> ELSE Leave(Escapes(exception))
  /\ threw' = exception
  /\ UNCHANGED <<parser, input, errors>>

End == /\ Running(ParserKinds) /\ offset = size
       /\ Leave("ok")
       /\ UNCHANGED <<parser, input, offset, results, delivered, errors, threw>>

-----------------------------------------------------------------------------
(* overlay::for_each_message: a loop of its own, with no diagnostics.      *)
ViewStep(exception) ==
  /\ Running({"views"}) /\ HasPrefix
  /\ \/ Prefix = 0 /\ offset' = offset + 2 /\ exception = "no" /\ UNCHANGED delivered
     \/ /\ HasFrame
        /\ offset' = offset + 2 + Prefix
        /\ \/ Rejected /\ exception = "no" /\ UNCHANGED delivered
           \/ ~Rejected /\ delivered' = Append(delivered, offset)
  /\ IF exception = "no" THEN UNCHANGED <<pc, outcome>> ELSE Leave(exception)
  /\ threw' = exception
  /\ UNCHANGED <<parser, input, results, errors>>
ViewEnd ==
  /\ Running({"views"})
  /\ HasPrefix => Prefix > 0 /\ ~HasFrame
  /\ Leave("ok")
  /\ UNCHANGED <<parser, input, offset, results, delivered, errors, threw>>

-----------------------------------------------------------------------------
Return == /\ pc = "returned" /\ pc' = "idle"
          /\ kind' = "callback" /\ filter' = {} /\ buffer' = << >> /\ offset' = 0
          /\ results' = << >> /\ outcome' = "none" /\ frames' = << >> /\ cut' = 0
          /\ delivered' = << >> /\ errors' = << >> /\ threw' = "no" /\ base' = <<0, 0>>
          /\ UNCHANGED <<parser, calls>>
set_error_callback ==
  /\ pc = "idle" /\ m_error_callback' = ~m_error_callback
  /\ UNCHANGED <<m_unknown_message_count, m_malformed_message_count, input, pc, offset, results,
                 outcome, delivered, errors, threw>>
reset_diagnostics ==
  /\ pc = "idle" /\ m_unknown_message_count' = 0 /\ m_malformed_message_count' = 0
  /\ UNCHANGED <<m_error_callback, input, pc, offset, results, outcome, delivered, errors, threw>>

Call == /\ pc = "idle" /\ calls < MaxCalls
        /\ \E n \in 0..MaxFrames : \E fs \in [1..n -> Frame] :
             \E c \in 0..Len(AllBytes(fs)) :
               \/ \E k \in Kinds : Parse(k, fs, c)
               \/ \E fl \in Filters : ParseFiltered(fl, fs, c)
               \/ ParseStream(fs, c)
Step == \/ Padding \/ End \/ ViewEnd
        \/ \E x \in Exceptions : Truncated(x) \/ Skip(x) \/ Deliver(x) \/ ViewStep(x)
Next == Call \/ ParseUnsizedStream \/ Step \/ Return \/ set_error_callback \/ reset_diagnostics
Spec == Init /\ [][Next]_vars /\ WF_vars(Step)

-----------------------------------------------------------------------------
(* The truth about a buffer, from its frames and its cut.                  *)
Indices == 1..Len(frames)
Ends(fs) == LET end[i \in 0..Len(fs)] == IF i = 0 THEN 0 ELSE end[i - 1] + 2 + fs[i].len IN end
EndOf(i) == Ends(frames)[i]
StartOf(i) == EndOf(i - 1)
Whole(i) == EndOf(i) <= cut
WellFormed(i) == frames[i].len > 0 /\ WireSize[frames[i].type] \in 1..frames[i].len
Reached(i) == Whole(i) /\ EndOf(i) <= offset
StartsIn(fs, is) ==
  LET starts[i \in 0..Len(fs)] == IF i = 0 THEN << >>
                                 ELSE IF i \in is THEN Append(starts[i - 1], Ends(fs)[i - 1])
                                 ELSE starts[i - 1]
  IN  starts
Starts(is) == StartsIn(frames, is)[Len(frames)]
CutInside == cut > 0 /\ \A i \in Indices : EndOf(i) # cut
Trusted == kind = "stream" => cut = Len(AllBytes(frames))

\* The position stays in the buffer, the counters and outcomes in their ranges.
TypeOK == /\ offset \in 0..size /\ pc \in {"idle", "loop", "returned"} /\ kind \in Kinds
          /\ m_unknown_message_count \in Nat /\ m_malformed_message_count \in Nat
          /\ outcome \in {"none", "ok", "unexpected", "stream_error"} \cup Exceptions
          /\ (pc = "returned") = (outcome # "none")

\* The loop of the parser and the loop of the overlay both deliver exactly the
\* well-formed frames among those they have passed, in order and each once,
\* wherever the buffer is cut and whatever was skipped in between: the two never
\* lose step with the framing, and never deliver a frame that reaches past the
\* buffer or into its neighbour.
DeliversWellFormedFrames ==
  pc # "idle" /\ Trusted => delivered = Starts({i \in Indices : Reached(i) /\ WellFormed(i)})

\* A call that no callback interrupted has gone through the whole buffer, also in
\* decode_packet, which swallows the runtime_error of a callback and with it the rest
\* of the datagram; and it tells its caller of a buffer that ends inside a frame, but
\* for decode_packet and the views, which return as if the buffer were complete.
EndsAsDocumented ==
  pc = "returned" /\ threw = "no" /\ Trusted /\ outcome # "stream_error" /\ ~(kind = "filter" /\ filter = {}) =>
    /\ \A i \in Indices : Whole(i) => Reached(i)
    /\ outcome = IF ~CutInside \/ kind \in {"datagram", "views"} THEN "ok"
                 ELSE IF kind \in {"try", "try_vector"} THEN "unexpected" ELSE "runtime_error"

\* The collecting overloads return the well-formed frames of the requested types,
\* and only when they return at all; what they had collected when the buffer turned
\* out truncated is not handed out.
CollectsWhatWasAsked ==
  pc = "returned" /\ outcome = "ok" /\ kind \in {"vector", "try_vector", "filter"} =>
    results = Starts({i \in Indices : /\ Whole(i) /\ WellFormed(i)
                                      /\ kind = "filter" => frames[i].type \in filter})

UnknownPassed == {i \in Indices : Reached(i) /\ frames[i].len > 0 /\ WireSize[frames[i].type] = 0}
ShortPassed ==
  {i \in Indices : Reached(i) /\ frames[i].len > 0 /\ frames[i].len < WireSize[frames[i].type]}
EndReported == IF CutInside /\ pc = "returned" /\ \A i \in Indices : Whole(i) => Reached(i) THEN 1 ELSE 0
unknowns == m_unknown_message_count - base[1]
malformeds == m_malformed_message_count - base[2]

\* The counters grow by the frames of each category that this call passed, plus one
\* for a truncated end, whether or not an error callback is installed and even when
\* that callback throws; the callback hears of each of them.
DiagnosticsAreExact ==
  /\ pc # "idle" /\ Trusted /\ kind # "views"
  /\ outcome # "stream_error" /\ ~(kind = "filter" /\ filter = {})
  => /\ unknowns = Cardinality(UnknownPassed)
     /\ malformeds - Cardinality(ShortPassed) \in IF threw = "no" THEN {EndReported} ELSE 0..EndReported
     /\ m_error_callback => Len(errors) = unknowns + malformeds

\* A call is under way.
Busy == pc = "loop"
=============================================================================
