----------------------------- MODULE MCReaders -----------------------------
(***************************************************************************)
(* Small instances for TLC of the parts that cut bytes into frames, side   *)
(* by side: the capture reader, the framing loops of the parser, of the    *)
(* overlay and of the datagram decoder, the SoupBinTCP decoder and the     *)
(* Python iterator.  They share no variable: `part' says which of them a   *)
(* behaviour is about, and the others stay in their initial state.         *)
(***************************************************************************)
EXTENDS Readers, TLC

\* 0 and 3 are no message types; 1 needs one byte, 2 needs two.
MCWireSize == <<1, 2, 0>> @@ (0 :> 0)

MCFilters == {{}, {2}, {1, 3}}

Login(s, n) == [kind |-> "login_accepted", session |-> s, next |-> n, size |-> 1]
Data(k, p)  == [kind |-> k, payload |-> p, size |-> 2]

\* Three packets of every kind, for the reassembly.
AnyPacket == {Login("s1", 0), Login("s1", 2), [kind |-> "short_login", size |-> 2],
              [kind |-> "control", size |-> 2], [kind |-> "zero", size |-> 0],
              Data("sequenced_data", "message"), Data("sequenced_data", "skipped"),
              Data("unsequenced_data", "message")}
Chunked == UNION {[1..n -> AnyPacket] : n \in 1..3}

\* Logins that resume, jump, step back and change the session, for the numbering.
LoginsAndData == {Login("s1", 1), Login("s1", 3), Login("s2", 2),
                  [Data("sequenced_data", "message") EXCEPT !.size = 1]}
Renumbered == UNION {[1..n -> LoginsAndData] : n \in 1..5}
MCStreams == Chunked \cup Renumbered

\* Captures: frames of every link layer, IP version and protocol, whole and snapped, in
\* files of both formats and byte orders, cut anywhere.
Frame(link, tags, version, ip, protocol, port, payload, size) ==
  [link |-> link, tags |-> tags, ethertype |-> IF version = 6 THEN "ipv6" ELSE "ipv4", version |-> version,
   ip_header |-> ip, protocol |-> protocol, port |-> port, udp_length |-> 8 + payload,
   payload |-> payload, size |-> size]
Plain   == Frame(1, 0, 4, 20, "udp", 1, 4, 46)
Trailer == Frame(1, 0, 4, 20, "udp", 2, 2, 50)            \* padded by Ethernet
Tagged  == Frame(1, 2, 6, 40, "udp", 1, 3, 73)            \* two VLAN tags, IPv6
Options == Frame(1, 1, 4, 24, "udp", 1, 4, 54)            \* one tag, IP options
Tcp     == Frame(1, 0, 4, 20, "tcp", 1, 4, 46)
Arp     == [Plain EXCEPT !.ethertype = "arp"]
NoLength == [Plain EXCEPT !.udp_length = 0]
\* Cut by the snapshot length in the payload, in a UDP header, in an IP header, in a tag
\* and in the Ethernet header.
Snapped == {[Plain EXCEPT !.size = 44], [Plain EXCEPT !.size = 40], [Options EXCEPT !.size = 30],
            [Tagged EXCEPT !.size = 17], [Plain EXCEPT !.size = 10], [Plain EXCEPT !.size = 14]}
Sll     == Frame(113, 0, 4, 20, "udp", 1, 4, 48)
Raw     == Frame(101, 0, 6, 40, "udp", 2, 4, 52)
Unknown == [Plain EXCEPT !.link = 0]
Captured == {Plain, Trailer, Tagged, Options, Tcp, Arp, NoLength, Sll, Raw, Unknown,
             [Sll EXCEPT !.size = 12]} \cup Snapped

\* The layout of a capture does not depend on which captures there are.
Layout == INSTANCE Pcap WITH Captures <- {}, Ports <- {}, pc <- p_pc, offset <- p_offset

\* Where a capture may have been cut off: whole, by a byte, inside a block, in a header.
CutOff == {0, 1, 30, 70}
Classics ==
  {Layout!Classic(o, f.link, <<Layout!Record(f), Layout!Record(g)>>, m) :
     o \in {"host", "foreign"}, m \in CutOff, f \in Captured, g \in {Plain, Trailer}}
SameLink == {c \in Classics : c.blocks[1].frame.link = c.blocks[2].frame.link \/ c.size < c.start[2] + 16}

\* Two interfaces and a second section, of either byte order.
Sections ==
  {<<Layout!SectionHeader("host"), Layout!Interface(f.link), Layout!Enhanced(0, f), x>> \o rest :
     f \in Captured \ {Unknown},
     x \in {Layout!OtherBlock(12), Layout!OtherBlock(0), Layout!ShortEnhanced,
            Layout!ShortSimple, Layout!Enhanced(1, Plain)},
     rest \in {<< >>,
               <<Layout!SectionHeader("host"), Layout!Enhanced(0, Plain), Layout!Interface(1),
                 Layout!Interface(101), Layout!Enhanced(1, Raw), Layout!Simple(Plain)>>,
               <<Layout!SectionHeader("foreign"), Layout!Interface(1), Layout!Enhanced(0, Plain)>>}}
Nexts == {Layout!PcapNg(b, m) : b \in Sections, m \in CutOff}
Foreign ==
  {Layout!PcapNg(<<Layout!SectionHeader("foreign"), Layout!Interface(1), Layout!Enhanced(0, Plain)>>, m) :
     m \in CutOff}
MCCaptures == SameLink \cup Nexts \cup Foreign \cup {Layout!OtherFile, Layout!Classic("host", 1, << >>, 10)}
MCPorts == {1}

\* Messages of two types and sizes, the stop event, an unknown type, an empty frame, a short one.
PyFrame(type, body, stop, short) == [type |-> type, body |-> body, stop |-> stop, short |-> short]
MCPyFrames == {PyFrame("A", 2, FALSE, FALSE), PyFrame("S", 1, FALSE, FALSE), PyFrame("S", 1, TRUE, FALSE),
             PyFrame("?", 1, FALSE, FALSE), PyFrame("A", 0, FALSE, FALSE), PyFrame("A", 1, FALSE, TRUE)}
MCTypeSets == {{"A", "S"}, {"A"}}
MCCacheSizes == {1, 3}
MCAllMessages == {"A", "S"}

-----------------------------------------------------------------------------
MCInit ==
  /\ part \in {"pcap", "framing", "chunks", "logins", "iterator"}
  /\ Init /\ Reader!Init /\ Parser!Init /\ Iterator!Init

MCNext ==
  /\ \/ /\ part = "chunks" /\ Next /\ stream' \in Chunked
        /\ UNCHANGED <<pcapVars, framingVars, iteratorVars>>
     \/ /\ part = "logins" /\ Next /\ stream' \in Renumbered /\ throws' = 0 /\ swallowed' = {}
        /\ UNCHANGED <<pcapVars, framingVars, iteratorVars>>
     \/ part = "pcap" /\ Reader!Next /\ UNCHANGED <<vars, framingVars, iteratorVars>>
     \/ part = "framing" /\ Parser!Next /\ UNCHANGED <<vars, pcapVars, iteratorVars>>
     \/ part = "iterator" /\ Iterator!Next /\ UNCHANGED <<vars, pcapVars, framingVars>>
  /\ UNCHANGED part

\* The steps a call takes once it has been made.
Step ==
  /\ \/ (Reader!read_classic_pcap \/ Reader!read_pcapng) /\ UNCHANGED <<vars, framingVars, iteratorVars>>
     \/ Parser!Step /\ UNCHANGED <<vars, pcapVars, iteratorVars>>
     \/ Iterator!Step /\ UNCHANGED <<vars, pcapVars, framingVars>>
  /\ UNCHANGED part

allVars == <<part, vars, pcapVars, framingVars, iteratorVars>>
MCSpec == MCInit /\ [][MCNext]_allVars /\ WF_allVars(Step)

-----------------------------------------------------------------------------
\* The documentation of undersized frames, for MessageIterator::next: they are skipped.
UndersizedAreSkipped == Iterator!UndersizedAreSkipped

\* The developer guide, on captures of the other byte order: "byte-swapped variants
\* handled".
SwappedCapturesAreRead == Reader!SwappedCapturesAreRead

\* Every parse call, every read of a capture and every next() comes to an end, whatever
\* the lengths in the bytes say and however little each read of a file returns: a turn of
\* each loop takes bytes, or ends it.
CallsReturn == (Reader!Busy \/ Parser!Busy \/ Iterator!Busy) ~> ~(Reader!Busy \/ Parser!Busy \/ Iterator!Busy)
=============================================================================
