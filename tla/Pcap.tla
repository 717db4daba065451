------------------------------- MODULE Pcap -------------------------------
(***************************************************************************)
(* itch::transport::PcapReader: the frames of a classic pcap or a pcapng   *)
(* capture, the UDP payload of each, and their hand-over to the embedded   *)
(* MoldUDP64 decoder (module MoldUdp64).                                   *)
(*                                                                         *)
(* Sizes and offsets are the program's; the bytes between them are the     *)
(* fields of records.  A capture is a sequence of records or blocks, of    *)
(* which the last bytes may be missing.  A frame is [link, tags,           *)
(* ethertype, version, ip_header, protocol, port, udp_length, payload,     *)
(* size]: `size` bytes of it were captured, of `payload` payload bytes and *)
(* a trailer that pads the frame.                                          *)
(***************************************************************************)
EXTENDS Integers, Sequences, SequencesExt, FiniteSets, FiniteSetsExt

CONSTANTS Captures,  \* the captures read() may be given
          Ports,     \* destination ports a filter may name
          MaxReads   \* bound on the captures one reader reads

\* link types and ethertypes
LINKTYPE_ETHERNET  == 1
LINKTYPE_RAW       == 101
LINKTYPE_LINUX_SLL == 113
IP_ETHERTYPES      == {"ipv4", "ipv6"}

ETHERNET_HEADER_SIZE  == 14
VLAN_TAG_SIZE         == 4
LINUX_SLL_HEADER_SIZE == 16
IPV6_HEADER_SIZE      == 40
UDP_HEADER_SIZE       == 8

GLOBAL_HEADER_SIZE == 24
RECORD_HEADER_SIZE == 16
BLOCK_HEADER_SIZE  == 8
WORD               == 4
EPB_DATA_OFFSET    == BLOCK_HEADER_SIZE + 20
SPB_DATA_OFFSET    == BLOCK_HEADER_SIZE + 4

NoFilter == 0
none     == -1

VARIABLES
  m_port_filter, m_udp_datagrams,
  pc, capture, offset, swapped, interface_link_types,  \* the read under way
  result,     \* what the last read returned
  touched,    \* one past the last byte the current step looked at
  payloads,   \* datagrams of this read: <<block, payload length>>
  reads
reader == <<pc, capture, offset, swapped, interface_link_types>>
vars == <<m_port_filter, m_udp_datagrams, reader, result, touched, payloads, reads>>

-----------------------------------------------------------------------------
(* The captures.                                                           *)
Padded(n) == 4 * ((n + 3) \div 4)
SectionHeader(order) == [type |-> "SHB", order |-> order, length |-> 28, declared |-> 28]
Interface(link)      == [type |-> "IDB", link |-> link, length |-> 20, declared |-> 20]
Enhanced(i, f) == LET n == EPB_DATA_OFFSET + Padded(f.size) + WORD
                  IN [type |-> "EPB", iface |-> i, frame |-> f, length |-> n, declared |-> n]
NoFrame        == [protocol |-> "none", size |-> 0]
ShortEnhanced  == [type |-> "EPB", iface |-> 0, frame |-> NoFrame, length |-> 12, declared |-> 12]
Simple(f) == LET n == SPB_DATA_OFFSET + Padded(f.size) + WORD
             IN [type |-> "SPB", frame |-> f, length |-> n, declared |-> n]
ShortSimple == [type |-> "SPB", length |-> 12, declared |-> 12]
OtherBlock(declared) == [type |-> "other", length |-> 12, declared |-> declared]
Record(f) == [type |-> "record", frame |-> f, length |-> RECORD_HEADER_SIZE + f.size]

\* A capture, with the byte at which each of its blocks starts and its size.
Starts(header, blocks) ==
  [i \in 1..(Len(blocks) + 1) |-> header + FoldLeft(LAMBDA n, b : n + b.length, 0, SubSeq(blocks, 1, i - 1))]
Classic(order, link, blocks, missing) ==
  LET start == Starts(GLOBAL_HEADER_SIZE, blocks)
  IN [format |-> "classic", order |-> order, link |-> link, blocks |-> blocks, start |-> start,
      size |-> start[Len(start)] - missing, whole |-> missing = 0]
PcapNg(blocks, missing) ==
  LET start == Starts(0, blocks)
  IN [format |-> "pcapng", blocks |-> blocks, start |-> start,
      size |-> Max({0, start[Len(start)] - missing}), whole |-> missing = 0]
OtherFile == [format |-> "other", blocks |-> << >>, size |-> 100, whole |-> TRUE]

At == CHOOSE i \in 1..Len(capture.blocks) : capture.start[i] = offset
Block == capture.blocks[At]
\* The byte order of the section a pcapng block is in.
OrderOf(c, i) == LET heads == {k \in 1..i : c.blocks[k].type = "SHB"}
                 IN c.blocks[Max(heads)].order

-----------------------------------------------------------------------------
(* Reading numbers.  A small one in the wrong byte order is a huge one.    *)
swap_bytes(value) == value * 2^24
read_le_or_be(value, order, swap) ==
  IF swap = (order = "foreign") THEN value ELSE swap_bytes(value)

(* One frame of `len` bytes.                                               *)
TagsWalked(f, len) == Max({t \in 0..f.tags : len >= ETHERNET_HEADER_SIZE + t * VLAN_TAG_SIZE})
strip_link_layer(f, len, link) ==
  CASE link = LINKTYPE_ETHERNET ->
         IF /\ len >= ETHERNET_HEADER_SIZE
            /\ TagsWalked(f, len) = f.tags      \* else the last ethertype seen is a VLAN's
            /\ f.ethertype \in IP_ETHERTYPES
         THEN ETHERNET_HEADER_SIZE + f.tags * VLAN_TAG_SIZE
         ELSE none
    [] link = LINKTYPE_LINUX_SLL -> IF len >= LINUX_SLL_HEADER_SIZE THEN LINUX_SLL_HEADER_SIZE ELSE none
    [] link = LINKTYPE_RAW -> 0
    [] OTHER -> none

IpHeader(f) == IF f.version = 4 THEN f.ip_header ELSE IPV6_HEADER_SIZE
extract_udp_payload(f, size) ==
  LET udp == size - IpHeader(f)
      rest == udp - UDP_HEADER_SIZE
  IN IF /\ size > 0 /\ f.version \in {4, 6}
        /\ udp >= 0 /\ (f.version = 4 => f.ip_header >= 20)
        /\ f.protocol = "udp"
        /\ rest >= 0
        /\ m_port_filter \in {NoFilter, f.port}
     THEN IF f.udp_length >= UDP_HEADER_SIZE THEN Min({rest, f.udp_length - UDP_HEADER_SIZE}) ELSE rest
     ELSE none

\* handle_frame: frame f, of which the file holds len bytes.
handle_frame(f, len, link) ==
  LET header  == strip_link_layer(f, len, link)
      payload == IF header = none THEN none ELSE extract_udp_payload(f, len - header)
  IN IF payload = none
     THEN UNCHANGED <<m_udp_datagrams, payloads>>
     ELSE /\ m_udp_datagrams' = m_udp_datagrams + 1
          /\ payloads' = Append(payloads, <<At, payload>>)

-----------------------------------------------------------------------------
NoCapture == [format |-> "none", blocks |-> << >>, size |-> 0, whole |-> TRUE]
Init == /\ m_port_filter = NoFilter /\ m_udp_datagrams = 0
        /\ pc = "idle" /\ capture = NoCapture
        /\ offset = 0 /\ swapped = FALSE /\ interface_link_types = << >>
        /\ result = FALSE /\ touched = 0 /\ payloads = << >> /\ reads = 0

set_udp_port_filter(port) ==
  /\ pc = "idle" /\ reads < MaxReads /\ m_port_filter' = port
  /\ UNCHANGED <<m_udp_datagrams, reader, result, touched, payloads, reads>>
clear_udp_port_filter == set_udp_port_filter(NoFilter)

\* read: by the magic number; too short a file, or another one, is refused.
read(c) ==
  /\ pc = "idle" /\ reads < MaxReads /\ reads' = reads + 1
  /\ capture' = c /\ payloads' = << >> /\ touched' = 0 /\ interface_link_types' = << >>
  /\ LET known == /\ c.size >= WORD /\ c.format \in {"classic", "pcapng"}
                  /\ c.format = "classic" => c.size >= GLOBAL_HEADER_SIZE
     IN /\ pc' = IF known THEN c.format ELSE "returned"
        /\ result' = FALSE
        /\ offset' = IF c.format = "classic" THEN GLOBAL_HEADER_SIZE ELSE 0
        /\ swapped' = (c.format = "classic" /\ c.order = "foreign")
  /\ UNCHANGED <<m_port_filter, m_udp_datagrams>>

Return == /\ pc' = "returned" /\ result' = TRUE
          /\ UNCHANGED <<m_udp_datagrams, payloads, offset, swapped, interface_link_types>>
Stay == UNCHANGED <<pc, result>>

read_classic_pcap ==
  /\ pc = "classic"
  /\ IF offset + RECORD_HEADER_SIZE > capture.size THEN Return /\ UNCHANGED touched
     ELSE LET incl_len == read_le_or_be(Block.frame.size, capture.order, swapped)
              link     == read_le_or_be(capture.link, capture.order, swapped)
              data     == offset + RECORD_HEADER_SIZE
          IN IF data + incl_len > capture.size                \* truncated final record
             THEN Return /\ touched' = data
             ELSE /\ handle_frame(Block.frame, incl_len, link)
                  /\ touched' = data + incl_len /\ offset' = data + incl_len
                  /\ Stay /\ UNCHANGED <<swapped, interface_link_types>>
  /\ UNCHANGED <<m_port_filter, capture, reads>>

\* The type is compared in host order; only the SHB's reads the same in both.
block_type == IF Block.type # "SHB" /\ OrderOf(capture, At) = "foreign" THEN "unknown" ELSE Block.type

\* Mutant: the interfaces of the section before stay.
read_shb_KeepsInterfaces == /\ block_type = "SHB" /\ swapped' = (Block.order = "foreign")
                            /\ touched' = offset + 3 * WORD
                            /\ UNCHANGED <<interface_link_types, m_udp_datagrams, payloads>>
read_shb == /\ block_type = "SHB"
            /\ swapped' = (Block.order = "foreign")
            /\ interface_link_types' = << >> /\ touched' = offset + 3 * WORD
            /\ UNCHANGED <<m_udp_datagrams, payloads>>
read_idb == /\ block_type = "IDB"
            /\ interface_link_types' =
                 Append(interface_link_types,
                        read_le_or_be(Block.link, OrderOf(capture, At), swapped))
            /\ touched' = offset + BLOCK_HEADER_SIZE + 2
            /\ UNCHANGED <<swapped, m_udp_datagrams, payloads>>

\* Interface i, counted from 0, if the section has described it.
FrameOn(i, len, first) ==
  /\ IF i < Len(interface_link_types)
     THEN /\ handle_frame(Block.frame, len, interface_link_types[i + 1])
          /\ touched' = first + len
     ELSE UNCHANGED <<m_udp_datagrams, payloads>> /\ touched' = first
HoldsEpb(total_length) == total_length >= EPB_DATA_OFFSET + WORD
read_epb(total_length) ==
  /\ block_type = "EPB" /\ UNCHANGED <<swapped, interface_link_types>>
  /\ IF ~HoldsEpb(total_length)
     THEN UNCHANGED <<m_udp_datagrams, payloads>> /\ touched' = offset + BLOCK_HEADER_SIZE
     ELSE LET cap_len == read_le_or_be(Block.frame.size, OrderOf(capture, At), swapped)
          IN IF offset + EPB_DATA_OFFSET + cap_len <= capture.size
             THEN FrameOn(Block.iface, cap_len, offset + EPB_DATA_OFFSET)
             ELSE UNCHANGED <<m_udp_datagrams, payloads>> /\ touched' = offset + EPB_DATA_OFFSET
read_spb(total_length) ==
  /\ block_type = "SPB" /\ UNCHANGED <<swapped, interface_link_types>>
  /\ IF total_length >= SPB_DATA_OFFSET + WORD
     THEN FrameOn(0, total_length - SPB_DATA_OFFSET - WORD, offset + SPB_DATA_OFFSET)
     ELSE UNCHANGED <<m_udp_datagrams, payloads>> /\ touched' = offset + BLOCK_HEADER_SIZE
skip_block == /\ block_type \in {"other", "unknown"} /\ touched' = offset + BLOCK_HEADER_SIZE
              /\ UNCHANGED <<swapped, interface_link_types, m_udp_datagrams, payloads>>

TooShort(total_length) == total_length < BLOCK_HEADER_SIZE + WORD
Overruns(total_length) == offset + total_length > capture.size
read_pcapng ==
  /\ pc = "pcapng"
  /\ IF offset + BLOCK_HEADER_SIZE > capture.size THEN Return /\ UNCHANGED touched
     ELSE LET block_swapped == block_type # "SHB" /\ swapped
              total_length  == read_le_or_be(Block.declared, OrderOf(capture, At), block_swapped)
          IN IF TooShort(total_length) \/ Overruns(total_length)
             THEN Return /\ touched' = offset + BLOCK_HEADER_SIZE
             ELSE /\ \/ read_shb \/ read_idb \/ skip_block
                     \/ read_epb(total_length) \/ read_spb(total_length)
                  /\ offset' = offset + total_length /\ Stay
  /\ UNCHANGED <<m_port_filter, capture, reads>>

\* The caller has the result; the history of this read ends.
Done == /\ pc = "returned" /\ pc' = "idle" /\ capture' = NoCapture
        /\ offset' = 0 /\ swapped' = FALSE /\ interface_link_types' = << >>
        /\ result' = FALSE /\ touched' = 0 /\ payloads' = << >>
        /\ UNCHANGED <<m_port_filter, m_udp_datagrams, reads>>

Next == \/ pc = "idle" /\ \E c \in Captures : read(c)
        \/ \E p \in Ports : set_udp_port_filter(p)
        \/ clear_udp_port_filter
        \/ read_classic_pcap \/ read_pcapng \/ Done
Spec == Init /\ [][Next]_vars /\ WF_vars(read_classic_pcap \/ read_pcapng)

-----------------------------------------------------------------------------
(* What the capture holds, by its layers.                                  *)
HeadersOf(f) == (CASE f.link = LINKTYPE_ETHERNET -> 14 + 4 * f.tags
                   [] f.link = LINKTYPE_LINUX_SLL -> 16
                   [] OTHER -> 0) + IpHeader(f) + 8
IsUdp(f) == /\ f.protocol = "udp" /\ f.size >= HeadersOf(f) /\ f.link # 0
            /\ f.link = LINKTYPE_ETHERNET => f.ethertype \in IP_ETHERTYPES
\* The blocks up to the first one that is cut off, has no valid length, or begins a
\* pcapng section in the other byte order.
Intact(c, i) == /\ c.start[i + 1] <= c.size
                /\ c.format = "pcapng" => /\ c.blocks[i].declared = c.blocks[i].length
                                          /\ OrderOf(c, i) = "host"
Reachable(c) == {i \in 1..Len(c.blocks) : \A k \in 1..i : Intact(c, k)}
\* Its packets, on interfaces their section has described.
Interfaces(c, i) == {k \in 1..i : c.blocks[k].type = "IDB" /\
                       \A j \in k..i : c.blocks[j].type # "SHB"}
IsPacket(c, i) == /\ "frame" \in DOMAIN c.blocks[i]
                  /\ c.blocks[i].type = "EPB" => c.blocks[i].iface < Cardinality(Interfaces(c, i))
                  /\ c.blocks[i].type = "SPB" => Interfaces(c, i) # {}
Wanted(c, blocks) ==
  LET wanted == {i \in blocks : IsPacket(c, i) /\ IsUdp(c.blocks[i].frame)
                                  /\ m_port_filter \in {NoFilter, c.blocks[i].frame.port}}
      Datagram(i) == LET f == c.blocks[i].frame IN <<i, Min({f.payload, f.size - HeadersOf(f)})>>
      order == SelectSeq([i \in 1..Len(c.blocks) |-> i], LAMBDA i : i \in wanted)
  IN [k \in DOMAIN order |-> Datagram(order[k])]

\* Type invariant.
TypeOK == /\ pc \in {"idle", "classic", "pcapng", "returned"} /\ m_port_filter \in Ports \cup {NoFilter}
          /\ m_udp_datagrams \in Nat /\ reads \in 0..MaxReads
          /\ {result, swapped} \subseteq BOOLEAN
          /\ interface_link_types \in Seq(Nat)
          /\ pc \in {"classic", "pcapng"} => offset <= capture.size

\* However short its blocks and wherever the file ends, no step looks past the bytes of
\* the capture, nor past the block it is in.
ReadsStayInside ==
  /\ touched <= capture.size
  /\ pc = "pcapng" => touched <= offset

\* Exactly the payloads of the UDP datagrams that the port filter lets through, in
\* file order, without Ethernet trailers, are handed to the MoldUDP64 decoder, through
\* VLAN tags, IP options, both IP versions, several interfaces and several sections.
DatagramsAreExact ==
  pc = "returned" /\ result => payloads = Wanted(capture, Reachable(capture))

\* A read is under way.
Busy == pc \in {"classic", "pcapng"}

\* "classic or pcapng, byte-swapped variants handled": a whole capture gives up all of
\* its datagrams, whatever the byte order of the machine that wrote it.
SwappedCapturesAreRead ==
  /\ pc = "returned" /\ result /\ capture.whole
  /\ \A b \in Range(capture.blocks) : "declared" \in DOMAIN b => b.declared = b.length
  =>
    payloads = Wanted(capture, 1..Len(capture.blocks))
=============================================================================
