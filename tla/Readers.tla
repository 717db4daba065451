------------------------------ MODULE Readers ------------------------------
(***************************************************************************)
(* The parts that cut bytes into frames, side by side: the SoupBinTCP      *)
(* decoder, the framing loops of the parser, of the overlay and of the     *)
(* datagram decoder, the capture reader and the Python iterator.  They     *)
(* share no state; `part' says which of them a behaviour is about.         *)
(***************************************************************************)
EXTENDS SoupBinTcp

CONSTANTS
  WireSize, Filters, MaxLength, MaxFrames, MaxCalls,                       \* of Framing
  Captures, Ports, MaxReads,                                               \* of Pcap
  Frames, MaxInput, TypeSets, CacheSizes, ALL_MESSAGES, MaxFailures, MaxResumes  \* of PyIterator

\* A length takes two bytes; every type has a size, or none.
ASSUME FramingAssumption ==
  /\ MaxLength \in Nat /\ MaxLength <= 65535
  /\ \A type \in DOMAIN WireSize : type \in Nat /\ WireSize[type] \in Nat

\* Bodies have a length and chunks a size; the byte behind an empty frame is no type.
ASSUME IterationAssumption ==
  /\ \A f \in Frames : f.body \in Nat
  /\ CacheSizes \subseteq Nat /\ MaxInput \in Nat /\ MaxResumes \in Nat
  /\ "\\0" \notin ALL_MESSAGES

VARIABLES
  part,
  \* Framing
  m_unknown_message_count, m_malformed_message_count, m_error_callback, f_pc, kind, filter,
  buffer, f_offset, results, outcome, frames, f_cut, delivered, errors, threw, base, calls,
  \* Pcap
  m_port_filter, m_udp_datagrams, p_pc, capture, p_offset, swapped, interface_link_types, result,
  touched, payloads, reads,
  \* PyIterator
  i_buffer, m_offset, m_filter, m_cachesize, m_saving, m_stopped, m_file, i_pc, input, cut,
  raised, yielded, saved, failures, resumes, ended

framingVars ==
  <<m_unknown_message_count, m_malformed_message_count, m_error_callback, f_pc, kind, filter,
    buffer, f_offset, results, outcome, frames, f_cut, delivered, errors, threw, base, calls>>
pcapVars ==
  <<m_port_filter, m_udp_datagrams, p_pc, capture, p_offset, swapped, interface_link_types, result,
    touched, payloads, reads>>
iteratorVars ==
  <<i_buffer, m_offset, m_filter, m_cachesize, m_saving, m_stopped, m_file, i_pc, input, cut,
    raised, yielded, saved, failures, resumes, ended>>

Parser == INSTANCE Framing WITH pc <- f_pc, offset <- f_offset, cut <- f_cut
Reader == INSTANCE Pcap WITH pc <- p_pc, offset <- p_offset
Iterator == INSTANCE PyIterator WITH
              MaxFrames <- MaxInput, Filters <- TypeSets, pc <- i_pc, m_buffer <- i_buffer

-----------------------------------------------------------------------------
\* PcapReader::read: every datagram of a capture that is whole and meant for the port is
\* handed over with exactly its payload, nothing else is, and no length read from the
\* file takes a read past the buffer.
CapturesAreReadExactly == Reader!TypeOK /\ Reader!ReadsStayInside /\ Reader!DatagramsAreExact

\* Parser::parse_impl and overlay::for_each_message deliver exactly the well-formed
\* frames they have passed.
DeliversWellFormedFrames == Parser!TypeOK /\ Parser!DeliversWellFormedFrames

\* A call of the parser that no callback interrupted has gone through the whole buffer
\* and tells of a buffer that ends inside a frame as its overload documents, returns all
\* messages of the requested types, and has counted and reported every frame it skipped.
CallsEndAsDocumented ==
  Parser!EndsAsDocumented /\ Parser!CollectsWhatWasAsked /\ Parser!DiagnosticsAreExact

\* MessageIterator::next yields exactly the wanted frames up to the stop event, saves
\* what it yields and nothing else, and holds at most an unfinished frame and one chunk.
IterationIsExact ==
  Iterator!TypeOK /\ Iterator!YieldsTheFeed /\ Iterator!SavedIsYielded /\ Iterator!BufferStaysSmall
=============================================================================
