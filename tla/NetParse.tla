------------------------------ MODULE NetParse ------------------------------
(***************************************************************************)
(* What on_packet (capture/main.c) makes of a captured frame before it     *)
(* looks up the stream: net_parse (net/parse.c), the key (net/pktinfo.c),  *)
(* and MAC and class of the two addresses (net/iputils.c).                 *)
(*                                                                         *)
(* A frame has the fields that are read, a position is an offset in the    *)
(* buffer.  What is read at a place where the frame has no such field, or  *)
(* beyond the caplen bytes captured, is junk: payload, or what earlier     *)
(* packets have left in the buffer.  ip_len only goes into an argument     *)
(* that _tcp4_parse and _udp4_parse do not use, and is left out.           *)
(***************************************************************************)
EXTENDS StreamKey, Sequences, FiniteSetsExt

CONSTANTS
  Frames,       \* [tags, tci, type, ip, sport, dport, fin, smac, dmac]
  Junk,         \* [tci, type, ip, sport, dport, fin]: what else the buffer has
  Caplens,      \* captured lengths of the packets of a file
  Bytes(_)      \* the four bytes of an address, in the order of the header

(* The frames are well formed: the type of the payload, after the tags, is *)
(* not a tag's own, and an IPv4 header has 20 to 60 bytes.  Junk is not.   *)
ASSUME FramesAssumption ==
  /\ \A f \in Frames :
       /\ f.tags \in Seq(Nat) /\ f.ip.hl \in 5 .. 15 /\ f.type \in Nat \ {\h8100, \h88a8}
       /\ f.ip.ip_src \in Nat /\ f.ip.ip_dst \in Nat /\ f.sport \in Nat /\ f.dport \in Nat
  /\ \A j \in Junk : j.ip.hl \in Nat
  /\ Caplens \subseteq Nat

VARIABLES pc,       \* where on_packet is
          frame, caplen, live, junk,
          pktinfo, status, key, ends, vlan

vars == <<pc, frame, caplen, live, junk, pktinfo, status, key, ends, vlan>>
-----------------------------------------------------------------------------
ETHERMTU == 1500
ETHER_HDRLEN == 14
ETHERTYPE_IP == \h0800
ETHERTYPE_VLAN == \h8100
ETHERTYPE_VLAN2 == \h88a8
IPPROTO_TCP == 6
IPPROTO_UDP == 17
IpHdrLen == 20          \* sizeof(ip_hdr_t)
FlagsEnd == 14          \* up to and including th_flags
NULL == -1

(* Where the frame really has its network and transport headers. *)
L3(f) == ETHER_HDRLEN + 4 * Len(f.tags)
L4(f) == L3(f) + 4 * f.ip.hl

(* The frame on the wire: its headers, padded to the least length. *)
WireLen(f) == Max({60, L4(f) + 20})

TypeAt(pos) ==
  LET types == Append(frame.tags, frame.type)
      i     == (pos - 12) \div 4 + 1
  IN  IF pos + 2 <= caplen /\ i <= Len(types) THEN types[i] ELSE junk.type

IpAt(pos) ==
  IF pos = L3(frame) /\ frame.type = ETHERTYPE_IP /\ pos + IpHdrLen <= caplen
  THEN frame.ip ELSE junk.ip

(* The tag at pos. *)
TciAt(pos) ==
  IF pos + 2 <= caplen /\ pos < L3(frame) THEN frame.tci[(pos - 14) \div 4 + 1] ELSE junk.tci

(* What lies at pos is taken for a transport header; its first n bytes. *)
SegmentAt(pos, n) == IF pos = L4(frame) /\ pos + n <= caplen THEN frame ELSE junk
-----------------------------------------------------------------------------
(***************************************************************************)
(* parse.c.                                                                *)
(***************************************************************************)
PARSE_ERR_OK == 0
PARSE_ERR_INCOMPLETE == -1
PARSE_ERR_UNSUPPORTED == -2

(* pkt_init *)
Zeroed == [ether |-> NULL, ip4 |-> NULL, l4 |-> NULL, istcp |-> FALSE, isfin |-> FALSE]

(* Mutant: one tag is skipped in any case. *)
OneTag(t) == IF t \in {ETHERTYPE_VLAN, ETHERTYPE_VLAN2} THEN 4 ELSE 0

(* _ether_skip_vlan: the offset for the type t of the ether header. *)
VlanOffset(t) == IF t = ETHERTYPE_VLAN2 THEN 8 ELSE IF t = ETHERTYPE_VLAN THEN 4 ELSE 0

Offset == VlanOffset(TypeAt(12))

ip_get_hlen(ip) == 4 * ip.hl

(* pktinfo with the IPv4 header at pos, and the transport header after it. *)
Parsed(pos) ==
  LET l4  == pos + ip_get_hlen(IpAt(pos))
      ip4 == [Zeroed EXCEPT !.ether = 0, !.ip4 = pos]
  IN  CASE IpAt(pos).ip_p = IPPROTO_TCP ->
             [ip4 EXCEPT !.l4 = l4, !.istcp = TRUE, !.isfin = SegmentAt(l4, FlagsEnd).fin]
        [] IpAt(pos).ip_p = IPPROTO_UDP -> [ip4 EXCEPT !.l4 = l4]
        [] OTHER -> ip4

(* The first test: remaining becomes unsigned, so less than nothing is not *)
(* too short.                                                              *)
Short(remaining) == remaining >= 0 /\ remaining < IpHdrLen

(* Mutant: options are not looked at. *)
NeverCut(pos, remaining) == FALSE

(* The second, where remaining stays an int: the options are cut off. *)
Incomplete(pos, remaining) ==
  LET hlen == ip_get_hlen(IpAt(pos)) IN hlen > IpHdrLen /\ remaining < hlen

_ip_parse(pos, remaining) ==
  LET ip4 == [Zeroed EXCEPT !.ether = 0, !.ip4 = pos] IN
    CASE Short(remaining) ->
           [status |-> PARSE_ERR_INCOMPLETE, pktinfo |-> [Zeroed EXCEPT !.ether = 0]]
      [] ~Short(remaining) /\ Incomplete(pos, remaining) ->
           [status |-> PARSE_ERR_INCOMPLETE, pktinfo |-> ip4]
      [] OTHER ->
           IF IpAt(pos).first /\ IpAt(pos).ip_p \in {IPPROTO_TCP, IPPROTO_UDP}
           THEN [status |-> PARSE_ERR_OK, pktinfo |-> Parsed(pos)]
           ELSE [status |-> PARSE_ERR_UNSUPPORTED, pktinfo |-> ip4]

(* net_parse: a packet that is too short is returned before pkt_init. *)
net_parse ==
  LET ether_type == TypeAt(12 + Offset)
      l3         == ETHER_HDRLEN + Offset
  IN  IF caplen < ETHER_HDRLEN THEN [status |-> PARSE_ERR_INCOMPLETE, pktinfo |-> pktinfo]
      ELSE IF ether_type <= ETHERMTU \/ ether_type # ETHERTYPE_IP
      THEN [status |-> PARSE_ERR_UNSUPPORTED, pktinfo |-> [Zeroed EXCEPT !.ether = 0]]
      ELSE _ip_parse(l3, caplen - l3)

(***************************************************************************)
(* iputils.c.  The word of an address has its first byte lowest.           *)
(***************************************************************************)
LowHalf(b) == b[1] + 256 * b[2]

ipaddr_is_bcast(b) == \A i \in 1 .. 4 : b[i] = 255

ipaddr_is_lan(b) ==
  \/ LowHalf(b) = \hA8C0
  \/ LowHalf(b) % 2^8 = \h0A
  \/ LowHalf(b) % 2^13 = \h10AC
  \/ b = <<224, 0, 0, 1>>
  \/ ipaddr_is_bcast(b)

(***************************************************************************)
(* on_packet.                                                              *)
(***************************************************************************)
NoFrame == [tags |-> <<>>, type |-> 0]
NoEnds == [left |-> <<>>, right |-> <<>>]

(* Mutant: what libpcap takes by default without IPv6. *)
snaplen68 == 68

snaplen == 72

(* Packets come from the interface, with the snaplen asked for, or from a  *)
(* file; pktinfo is a local variable that is not initialized.              *)
Arrive ==
  /\ pc = "idle"
  /\ frame' \in Frames /\ junk' \in Junk /\ live' \in BOOLEAN
  /\ caplen' \in {Min({n, WireLen(frame')}) : n \in IF live' THEN {snaplen} ELSE Caplens}
  /\ pktinfo' \in {Zeroed, [Zeroed EXCEPT !.ether = 0, !.ip4 = 18, !.l4 = 38]}
  /\ pc' = "arrived"
  /\ UNCHANGED <<status, key, ends, vlan>>

Parse ==
  /\ pc = "arrived"
  /\ status' = net_parse.status /\ pktinfo' = net_parse.pktinfo
  /\ pc' = IF status' = PARSE_ERR_OK THEN "parsed" ELSE "refused"
  /\ UNCHANGED <<frame, caplen, live, junk, key, ends, vlan>>

(* An address of 0 is not supported. *)
ZeroAddr(k) == k.left = 0 \/ k.right = 0

(* pkt_init_key with pkt_get_ports_v4, and the return for an address of 0. *)
InitKey ==
  /\ pc = "parsed"
  /\ pktinfo.l4 # NULL
  /\ LET ip  == IpAt(pktinfo.ip4)
         seg == SegmentAt(pktinfo.l4, 4)
     IN  key' = pkt_init_key([ipproto |-> ip.ip_p, srcip |-> ip.ip_src, dstip |-> ip.ip_dst,
                              sport |-> seg.sport, dport |-> seg.dport])
  /\ pc' = IF ZeroAddr(key'.key) THEN "refused" ELSE "keyed"
  /\ UNCHANGED <<frame, caplen, live, junk, pktinfo, status, ends, vlan>>

(* Mutant: the two the other way round. *)
MacsSwapped(is_flipped) == IF is_flipped THEN <<frame.smac, frame.dmac>> ELSE <<frame.dmac, frame.smac>>

(* PKT_MAC_LEFT and PKT_MAC_RIGHT. *)
Macs(is_flipped) == IF is_flipped THEN <<frame.dmac, frame.smac>> ELSE <<frame.smac, frame.dmac>>

(* A new stream: what shm_addr_alloc_v4 gets, or works out, for addresses  *)
(* that are new as well.                                                   *)
AllocAddrs ==
  /\ pc = "keyed"
  /\ ends' = [left |-> [mac |-> Macs(key.is_flipped)[1], internal |-> ipaddr_is_lan(Bytes(key.key.left))],
              right |-> [mac |-> Macs(key.is_flipped)[2], internal |-> ipaddr_is_lan(Bytes(key.key.right))]]
  /\ pc' = "done"
  /\ UNCHANGED <<frame, caplen, live, junk, pktinfo, status, key, vlan>>

(* Mutant: the tag of the service provider. *)
OuterVlan(t) == IF t \in {ETHERTYPE_VLAN, ETHERTYPE_VLAN2} THEN TciAt(14) ELSE -1

pkt_get_vlan(t) ==
  IF t = ETHERTYPE_VLAN THEN TciAt(14) ELSE IF t = ETHERTYPE_VLAN2 THEN TciAt(18) ELSE -1

(* The second packet of a stream, whose vlan has 8 bits. *)
ClassifyVlan ==
  /\ pc = "keyed"
  /\ vlan' = pkt_get_vlan(TypeAt(12)) % 2^8
  /\ pc' = "done"
  /\ UNCHANGED <<frame, caplen, live, junk, pktinfo, status, key, ends>>

Init ==
  /\ pc = "idle" /\ frame = NoFrame /\ caplen = 0 /\ live = FALSE /\ junk = NoFrame
  /\ pktinfo = Zeroed /\ status = PARSE_ERR_OK /\ key = NoFrame /\ ends = NoEnds /\ vlan = 0

(* on_packet goes on with the stream, or returns; the next packet finds    *)
(* nothing of this one but junk.                                           *)
Return ==
  /\ pc \in {"refused", "done"}
  /\ pc' = "idle" /\ frame' = NoFrame /\ caplen' = 0 /\ live' = FALSE /\ junk' = NoFrame
  /\ pktinfo' = Zeroed /\ status' = PARSE_ERR_OK /\ key' = NoFrame /\ ends' = NoEnds /\ vlan' = 0

Next == Arrive \/ Parse \/ InitKey \/ AllocAddrs \/ ClassifyVlan \/ Return

Spec == Init /\ [][Next]_vars
-----------------------------------------------------------------------------
(* The frames the parser knows: no tag, a VLAN tag, or two tags of which   *)
(* the first is a service tag.                                             *)
KnownTags(f) == \/ f.tags \in {<<>>, <<ETHERTYPE_VLAN>>}
                \/ Len(f.tags) = 2 /\ f.tags[1] = ETHERTYPE_VLAN2

(* The frames net_parse is for, and those of them that on_packet is for. *)
Parseable(f) ==
  /\ f.type = ETHERTYPE_IP /\ f.ip.first /\ f.ip.ip_p \in {IPPROTO_TCP, IPPROTO_UDP}

Supported(f) == Parseable(f) /\ f.ip.ip_src # 0 /\ f.ip.ip_dst # 0

(* The packet in a frame. *)
PacketOf(f) == [ipproto |-> f.ip.ip_p, srcip |-> f.ip.ip_src, dstip |-> f.ip.ip_dst,
                sport |-> f.sport, dport |-> f.dport]

Ended == pc \in {"refused", "done"}

(* The end of on_packet's preparation is what the frame says: its packet   *)
(* is accepted if and only if it is a first TCP or UDP fragment between    *)
(* two addresses other than 0, with the key of its conversation and the    *)
(* flags of its segment.                                                   *)
FrameUnderstood ==
  /\ pc = "done" <=> Supported(frame)
  /\ Supported(frame) =>
       /\ key = pkt_init_key(PacketOf(frame))
       /\ pktinfo.isfin <=> (frame.ip.ip_p = IPPROTO_TCP /\ frame.fin)

(* Whatever junk the buffer has, a frame that is captured up to the flags  *)
(* of its segment is understood.                                           *)
CapturedIsUnderstood ==
  Ended /\ KnownTags(frame) /\ caplen >= L4(frame) + FlagsEnd => FrameUnderstood

(* The 72 bytes of a live capture are enough to understand every frame     *)
(* with up to two tags and 16 bytes of options.                            *)
SnaplenSuffices ==
  Ended /\ live /\ KnownTags(frame) /\ frame.ip.hl <= 9 => FrameUnderstood

(* A packet is accepted only if its IPv4 header, options included, was     *)
(* captured.  The exception is a frame that ends within its tags, which    *)
(* the unsigned comparison lets pass.                                      *)
HeaderCaptured ==
  Ended /\ status = PARSE_ERR_OK /\ caplen >= pktinfo.ip4 =>
    caplen >= pktinfo.ip4 + Max({IpHdrLen, ip_get_hlen(IpAt(pktinfo.ip4))})

(* The address entry of either side gets the MAC address that the frame    *)
(* has for this IP address, whichever side the sender is.                  *)
MacOfAddress ==
  ends # NoEnds /\ KnownTags(frame) /\ caplen >= L4(frame) + FlagsEnd =>
    LET pairs == {<<frame.ip.ip_src, frame.smac>>, <<frame.ip.ip_dst, frame.dmac>>}
    IN  <<key.key.left, ends.left.mac>> \in pairs /\ <<key.key.right, ends.right.mac>> \in pairs

(* A stream has the VLAN of its hosts, of the tag next to the IP header    *)
(* (in 8 bits, where 255 is none), not the one of the service provider.    *)
VlanIsInnermost ==
  pc = "done" /\ ends = NoEnds /\ KnownTags(frame) /\ caplen >= L4(frame) + FlagsEnd =>
    vlan = IF frame.tags = <<>> THEN 255 ELSE frame.tci[Len(frame.tags)] % 2^8

Source(pkt) == <<pkt.srcip, pkt.sport>>

Dest(pkt) == <<pkt.dstip, pkt.dport>>

(* Two packets of one conversation: same protocol, same two end points. *)
SameConversation(a, b) ==
  /\ a.ipproto = b.ipproto
  /\ \/ Source(a) = Source(b) /\ Dest(a) = Dest(b)
     \/ Source(a) = Dest(b) /\ Dest(a) = Source(b)

(* The packets of all frames: what came before, or is still to come. *)
Packets == {PacketOf(f) : f \in Frames}

(* "keep key consistent, irregardless of which direction packet has": of   *)
(* all packets, those of the conversation of the frame in hand, and only   *)
(* those, have its key.                                                    *)
KeyIdentifiesConversation ==
  pc = "keyed" /\ KnownTags(frame) /\ caplen >= L4(frame) + FlagsEnd =>
    \A pkt \in Packets :
      pkt_init_key(pkt).key = key.key <=> SameConversation(pkt, PacketOf(frame))

(* The direction used for the tx/rx counters is consistent within a        *)
(* conversation: a packet has the direction of the frame in hand exactly   *)
(* when it has the same sender.  (An end point talking to itself has one   *)
(* direction only.)                                                        *)
DirectionIdentifiesSender ==
  pc = "keyed" /\ KnownTags(frame) /\ caplen >= L4(frame) + FlagsEnd =>
    \A pkt \in Packets : SameConversation(pkt, PacketOf(frame)) =>
      (pkt_init_key(pkt).is_flipped = key.is_flipped <=> Source(pkt) = Source(PacketOf(frame)))
-----------------------------------------------------------------------------
(* "is an internal address (192.168.0.0/16, 10.0.0.0/8, 172.16.0.0/12),    *)
(* also returns true if broadcast", and 224.0.0.1.                         *)
Documented(b) ==
  \/ b[1] = 192 /\ b[2] = 168
  \/ b[1] = 10
  \/ b[1] = 172 /\ b[2] \in 16 .. 31
  \/ b \in {<<224, 0, 0, 1>>, <<255, 255, 255, 255>>}

(* What the repository says and the code does not do: the class of every   *)
(* address is the documented one.                                          *)
LanAsDocumented ==
  ends # NoEnds =>
    /\ ends.left.internal = Documented(Bytes(key.key.left))
    /\ ends.right.internal = Documented(Bytes(key.key.right))
=============================================================================
