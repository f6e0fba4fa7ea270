--------------------------- MODULE NetParseProofs ---------------------------
(***************************************************************************)
(* The parser's properties, for every set of frames, every content of the  *)
(* rest of the buffer and every captured length; and at the end that the   *)
(* key it makes of a frame tells conversations and directions apart.       *)
(***************************************************************************)
EXTENDS NetParse, TLAPS

(* The lesser and the greater of two numbers, taken as those of a set. *)
LEMMA TwoNumbers ==
  ASSUME NEW a \in Int, NEW b \in Int
  PROVE  /\ Min({a, b}) = IF a <= b THEN a ELSE b
         /\ Max({a, b}) = IF a >= b THEN a ELSE b
<1>1. PICK m \in {a, b} : \A y \in {a, b} : m <= y
  OBVIOUS
<1>2. /\ Min({a, b}) \in {a, b}
      /\ \A y \in {a, b} : Min({a, b}) <= y
  BY <1>1 DEF Min
<1>3. PICK n \in {a, b} : \A y \in {a, b} : n >= y
  OBVIOUS
<1>4. /\ Max({a, b}) \in {a, b}
      /\ \A y \in {a, b} : Max({a, b}) >= y
  BY <1>3 DEF Max
<1> QED BY <1>2, <1>4

(* The byte that stands for no VLAN at all. *)
LEMMA NoVlan == (-1) % 2^8 = 255
<1>1. 2^8 = 256
  OBVIOUS
<1>2. \A x \in -256 .. -1 : x % 256 = x + 256
  BY Z3
<1>3. (-1) % 256 = 255
  BY <1>2
<1> QED BY <1>1, <1>3, Zenon
-----------------------------------------------------------------------------
(* What net_parse asks of a packet it accepts. *)
Accepted ==
  LET l3 == ETHER_HDRLEN + Offset IN
    /\ caplen >= ETHER_HDRLEN
    /\ TypeAt(12 + Offset) = ETHERTYPE_IP
    /\ ~Short(caplen - l3) /\ ~Incomplete(l3, caplen - l3)
    /\ IpAt(l3).first /\ IpAt(l3).ip_p \in {IPPROTO_TCP, IPPROTO_UDP}

(* net_parse returns PARSE_ERR_OK for these and no others, with the parsed
   headers in pktinfo: each of the early returns has another status. *)
LEMMA ParseResult ==
  ASSUME caplen \in Int
  PROVE  /\ net_parse.status = PARSE_ERR_OK <=> Accepted
         /\ Accepted => net_parse.pktinfo = Parsed(ETHER_HDRLEN + Offset)
<1>1. ETHERTYPE_IP > ETHERMTU
  BY DEF ETHERTYPE_IP, ETHERMTU
<1>2. PARSE_ERR_OK # PARSE_ERR_INCOMPLETE /\ PARSE_ERR_OK # PARSE_ERR_UNSUPPORTED
  BY DEF PARSE_ERR_OK, PARSE_ERR_INCOMPLETE, PARSE_ERR_UNSUPPORTED
<1> DEFINE l3 == ETHER_HDRLEN + Offset
           ip4 == [Zeroed EXCEPT !.ether = 0, !.ip4 = l3]
<1>3. CASE caplen < ETHER_HDRLEN
  <2>1. net_parse.status = PARSE_ERR_INCOMPLETE
    BY <1>3 DEF net_parse
  <2>2. ~Accepted
    BY <1>3 DEF Accepted, ETHER_HDRLEN
  <2> QED BY <1>2, <2>1, <2>2
<1>4. CASE caplen >= ETHER_HDRLEN /\ TypeAt(12 + Offset) # ETHERTYPE_IP
  <2>1. net_parse.status = PARSE_ERR_UNSUPPORTED
    BY <1>4 DEF net_parse, ETHER_HDRLEN
  <2>2. ~Accepted
    BY <1>4 DEF Accepted
  <2> QED BY <1>2, <2>1, <2>2
<1>5. CASE caplen >= ETHER_HDRLEN /\ TypeAt(12 + Offset) = ETHERTYPE_IP
  <2>1. ~(caplen < ETHER_HDRLEN) /\ ~(TypeAt(12 + Offset) <= ETHERMTU)
    BY <1>5 DEF ETHER_HDRLEN, ETHERTYPE_IP, ETHERMTU
  <2>2. net_parse = _ip_parse(l3, caplen - l3)
    BY <1>5, <2>1, Zenon DEF net_parse
  <2>3. Accepted <=> /\ ~Short(caplen - l3) /\ ~Incomplete(l3, caplen - l3)
                     /\ IpAt(l3).first /\ IpAt(l3).ip_p \in {IPPROTO_TCP, IPPROTO_UDP}
    BY <1>5, Zenon DEF Accepted
  <2>4. CASE Short(caplen - l3)
    <3>1. _ip_parse(l3, caplen - l3).status = PARSE_ERR_INCOMPLETE
      BY <2>4 DEF _ip_parse
    <3> QED BY <1>2, <2>2, <2>3, <2>4, <3>1
  <2>5. CASE ~Short(caplen - l3) /\ Incomplete(l3, caplen - l3)
    <3>1. _ip_parse(l3, caplen - l3).status = PARSE_ERR_INCOMPLETE
      BY <2>5 DEF _ip_parse
    <3> QED BY <1>2, <2>2, <2>3, <2>5, <3>1
  <2>6. CASE ~Short(caplen - l3) /\ ~Incomplete(l3, caplen - l3)
    <3> DEFINE ok == IpAt(l3).first /\ IpAt(l3).ip_p \in {IPPROTO_TCP, IPPROTO_UDP}
    <3>1. _ip_parse(l3, caplen - l3) =
            IF ok THEN [status |-> PARSE_ERR_OK, pktinfo |-> Parsed(l3)]
                  ELSE [status |-> PARSE_ERR_UNSUPPORTED, pktinfo |-> ip4]
      BY <2>6 DEF _ip_parse
    <3>2. Accepted <=> ok
      BY <2>3, <2>6
    <3> HIDE DEF ok
    <3> QED BY <1>2, <2>2, <3>1, <3>2
  <2> QED BY <2>4, <2>5, <2>6
<1> QED BY <1>3, <1>4, <1>5 DEF ETHER_HDRLEN

-----------------------------------------------------------------------------
(* What the fields of a frame are. *)
LEMMA FrameFacts ==
  ASSUME NEW f \in Frames
  PROVE  /\ f.tags \in Seq(Nat) /\ f.ip.hl \in Nat /\ f.ip.hl >= 5
         /\ f.type \in Nat /\ f.type # ETHERTYPE_VLAN /\ f.type # ETHERTYPE_VLAN2
         /\ L3(f) = 14 + 4 * Len(f.tags) /\ L3(f) \in Nat
         /\ L4(f) = L3(f) + 4 * f.ip.hl /\ L4(f) \in Nat
         /\ WireLen(f) \in Nat /\ WireLen(f) >= L4(f) + 20
<1>0. f.tags \in Seq(Nat) /\ f.ip.hl \in 5 .. 15
  BY FramesAssumption
<1>1. f.tags \in Seq(Nat) /\ f.ip.hl \in Nat /\ f.ip.hl >= 5
  BY <1>0
<1>2. f.type \in Nat /\ f.type # ETHERTYPE_VLAN /\ f.type # ETHERTYPE_VLAN2
  BY FramesAssumption DEF ETHERTYPE_VLAN, ETHERTYPE_VLAN2
<1>3. L3(f) = 14 + 4 * Len(f.tags) /\ L3(f) \in Nat
  BY <1>1 DEF L3, ETHER_HDRLEN
<1>4. L4(f) = L3(f) + 4 * f.ip.hl /\ L4(f) \in Nat
  BY <1>1, <1>3 DEF L4
<1>5. L4(f) + 20 \in Int
  BY <1>4
<1>6. WireLen(f) = IF 60 >= L4(f) + 20 THEN 60 ELSE L4(f) + 20
  BY <1>5, TwoNumbers DEF WireLen
<1> QED BY <1>1, <1>2, <1>3, <1>4, <1>6

(* A frame with the tags the parser knows has as many bytes of tags as it
   skips, and its first type tells how many tags there are. *)
LEMMA TagsSkipped ==
  ASSUME frame \in Frames, caplen \in Int, KnownTags(frame), caplen >= L4(frame) + FlagsEnd
  PROVE  /\ Offset = 4 * Len(frame.tags)
         /\ Len(frame.tags) \in {0, 1, 2}
         /\ TypeAt(12 + Offset) = frame.type
         /\ TypeAt(12) = ETHERTYPE_VLAN <=> Len(frame.tags) = 1
         /\ TypeAt(12) = ETHERTYPE_VLAN2 <=> Len(frame.tags) = 2
<1> DEFINE types == Append(frame.tags, frame.type)
<1>0. /\ L3(frame) = 14 + 4 * Len(frame.tags) /\ L3(frame) \in Nat
      /\ L4(frame) = L3(frame) + 4 * frame.ip.hl /\ frame.ip.hl \in Nat /\ frame.ip.hl >= 5
  BY FrameFacts
<1>1. caplen >= L3(frame) + 14 /\ L3(frame) = 14 + 4 * Len(frame.tags)
  BY <1>0 DEF FlagsEnd
<1>2. /\ frame.tags \in Seq(Nat) /\ Len(types) = Len(frame.tags) + 1
      /\ types[Len(frame.tags) + 1] = frame.type
      /\ \A i \in 1 .. Len(frame.tags) : types[i] = frame.tags[i]
  BY FrameFacts
<1>3. ETHERTYPE_VLAN # ETHERTYPE_VLAN2
  BY DEF ETHERTYPE_VLAN, ETHERTYPE_VLAN2
<1>4. TypeAt(12) = types[1]
  BY <1>1, <1>2 DEF TypeAt
<1>5. frame.type # ETHERTYPE_VLAN /\ frame.type # ETHERTYPE_VLAN2
  BY FrameFacts
<1> HIDE DEF types
<1>6. CASE frame.tags = <<>>
  <2>1. Len(frame.tags) = 0
    BY <1>6
  <2>2. TypeAt(12) = frame.type
    BY <1>2, <1>4, <2>1
  <2>3. Offset = 0
    BY <1>5, <2>2 DEF Offset, VlanOffset
  <2> QED BY <1>5, <2>1, <2>2, <2>3
<1>7. CASE frame.tags = <<ETHERTYPE_VLAN>>
  <2>1. Len(frame.tags) = 1 /\ frame.tags[1] = ETHERTYPE_VLAN
    BY <1>7
  <2>2. TypeAt(12) = ETHERTYPE_VLAN
    BY <1>2, <1>4, <2>1
  <2>3. Offset = 4
    BY <1>3, <2>2 DEF Offset, VlanOffset
  <2>4. TypeAt(16) = types[2]
    BY <1>1, <1>2, <2>1 DEF TypeAt, types
  <2> QED BY <1>2, <1>3, <2>1, <2>2, <2>3, <2>4
<1>8. CASE Len(frame.tags) = 2 /\ frame.tags[1] = ETHERTYPE_VLAN2
  <2>1. TypeAt(12) = ETHERTYPE_VLAN2
    BY <1>2, <1>4, <1>8
  <2>2. Offset = 8
    BY <1>3, <2>1 DEF Offset, VlanOffset
  <2>3. TypeAt(20) = types[3]
    BY <1>1, <1>2, <1>8 DEF TypeAt, types
  <2> QED BY <1>2, <1>3, <1>8, <2>1, <2>2, <2>3
<1> QED BY <1>6, <1>7, <1>8 DEF KnownTags

(* If such a frame is captured up to the flags of its segment, it is read
   where it has its headers, and accepted if it is a first fragment of TCP or
   UDP. *)
LEMMA CapturedFrame ==
  ASSUME frame \in Frames, caplen \in Int, KnownTags(frame), caplen >= L4(frame) + FlagsEnd
  PROVE  /\ Accepted <=> Parseable(frame)
         /\ Parseable(frame) =>
              /\ ETHER_HDRLEN + Offset = L3(frame)
              /\ IpAt(L3(frame)) = frame.ip
              /\ SegmentAt(L4(frame), FlagsEnd) = frame
              /\ SegmentAt(L4(frame), 4) = frame
<1>1. /\ L3(frame) = 14 + 4 * Len(frame.tags) /\ L3(frame) \in Nat
      /\ L4(frame) = L3(frame) + 4 * frame.ip.hl /\ frame.ip.hl \in Nat /\ frame.ip.hl >= 5
  BY FrameFacts
<1>2. ETHER_HDRLEN + Offset = L3(frame) /\ TypeAt(12 + Offset) = frame.type
  BY TagsSkipped, <1>1 DEF ETHER_HDRLEN
<1>3. SegmentAt(L4(frame), FlagsEnd) = frame /\ SegmentAt(L4(frame), 4) = frame
  BY <1>1 DEF SegmentAt, FlagsEnd
<1>4. CASE frame.type = ETHERTYPE_IP
  <2>1. IpAt(L3(frame)) = frame.ip
    BY <1>1, <1>4 DEF IpAt, IpHdrLen, FlagsEnd
  <2>2. caplen - L3(frame) >= 4 * frame.ip.hl + 14
    <3>1. \A a \in Nat, h \in Nat : caplen >= a + 4 * h + 14 => caplen - a >= 4 * h + 14
      OBVIOUS
    <3> QED BY <1>1, <3>1 DEF FlagsEnd
  <2>3. \A r \in Int : r >= 4 * frame.ip.hl + 14 => ~Short(r) /\ ~Incomplete(L3(frame), r)
    BY <1>1, <2>1 DEF Short, Incomplete, ip_get_hlen, IpHdrLen
  <2>4. ~Short(caplen - L3(frame)) /\ ~Incomplete(L3(frame), caplen - L3(frame))
    <3>1. caplen - L3(frame) \in Int
      BY <1>1
    <3> QED BY <2>2, <2>3, <3>1, Zenon
  <2>5. caplen >= ETHER_HDRLEN
    BY <1>1 DEF ETHER_HDRLEN, FlagsEnd
  <2>6. Accepted <=> Parseable(frame)
    BY <1>2, <1>4, <2>1, <2>4, <2>5, Zenon DEF Accepted, Parseable
  <2> QED BY <1>2, <1>3, <2>1, <2>6
<1>5. CASE frame.type # ETHERTYPE_IP
  BY <1>2, <1>5, Zenon DEF Accepted, Parseable
<1> QED BY <1>4, <1>5

-----------------------------------------------------------------------------
(* The key and the two address entries of the accepted packet. *)
KeyRead ==
  LET ip  == IpAt(pktinfo.ip4)
      seg == SegmentAt(pktinfo.l4, 4)
  IN  pkt_init_key([ipproto |-> ip.ip_p, srcip |-> ip.ip_src, dstip |-> ip.ip_dst,
                    sport |-> seg.sport, dport |-> seg.dport])

EndsRead ==
  [left |-> [mac |-> Macs(key.is_flipped)[1], internal |-> ipaddr_is_lan(Bytes(key.key.left))],
   right |-> [mac |-> Macs(key.is_flipped)[2], internal |-> ipaddr_is_lan(Bytes(key.key.right))]]

(* The packet in the buffer. *)
Arrived ==
  /\ frame \in Frames /\ junk \in Junk /\ caplen \in Nat
  /\ live => caplen = Min({snaplen, WireLen(frame)})

(***************************************************************************)
(* The inductive invariant: what on_packet has worked out so far is still  *)
(* what the buffer, which it reads again and again, says.                  *)
(***************************************************************************)
Read == Accepted /\ pktinfo = Parsed(ETHER_HDRLEN + Offset)

IInv ==
  /\ pc # "idle" => Arrived
  /\ pc = "refused" => \/ ~Accepted /\ status # PARSE_ERR_OK
                       \/ Read /\ key = KeyRead /\ ZeroAddr(key.key)
  /\ pc \in {"parsed", "keyed", "done"} => Read
  /\ pc \in {"keyed", "done"} => key = KeyRead /\ ~ZeroAddr(key.key)
  /\ pc # "done" => ends = NoEnds
  /\ pc = "done" => \/ ends = EndsRead
                    \/ ends = NoEnds /\ vlan = pkt_get_vlan(TypeAt(12)) % 2^8

(* Nothing that is read of the buffer changes while it stays as it is. *)
LEMMA SameBuffer ==
  ASSUME UNCHANGED <<frame, caplen, live, junk>>
  PROVE  /\ Arrived <=> Arrived'
         /\ Accepted <=> Accepted'
         /\ UNCHANGED pktinfo => (Read <=> Read')
         /\ Offset' = Offset /\ TypeAt(12)' = TypeAt(12)
         /\ Parsed(ETHER_HDRLEN + Offset)' = Parsed(ETHER_HDRLEN + Offset)
         /\ (pkt_get_vlan(TypeAt(12)) % 2^8)' = pkt_get_vlan(TypeAt(12)) % 2^8
         /\ UNCHANGED pktinfo => KeyRead' = KeyRead
         /\ UNCHANGED key => EndsRead' = EndsRead
<1>1. Arrived <=> Arrived'
  BY DEF Arrived
<1>2. TypeAt(12)' = TypeAt(12)
  BY DEF TypeAt
<1>3. Offset' = Offset
  BY <1>2 DEF Offset
<1>4. Accepted <=> Accepted'
  BY <1>3 DEF Accepted, TypeAt, IpAt, Incomplete
<1>5. Parsed(ETHER_HDRLEN + Offset)' = Parsed(ETHER_HDRLEN + Offset)
  BY <1>3 DEF Parsed, IpAt, SegmentAt
<1>6. (pkt_get_vlan(TypeAt(12)) % 2^8)' = pkt_get_vlan(TypeAt(12)) % 2^8
  BY <1>2 DEF pkt_get_vlan, TciAt
<1>7. UNCHANGED pktinfo => KeyRead' = KeyRead
  BY DEF KeyRead, IpAt, SegmentAt
<1>8. UNCHANGED key => EndsRead' = EndsRead
  BY DEF EndsRead, Macs
<1>9. UNCHANGED pktinfo => (Read <=> Read')
  BY <1>4, <1>5 DEF Read
<1> QED BY <1>1, <1>2, <1>3, <1>4, <1>5, <1>6, <1>7, <1>8, <1>9

(* The buffer, and what was read of it, is the same until on_packet returns. *)
LEMMA Invariant == Spec => []IInv
<1>1. Init => IInv
  BY DEF Init, IInv
<1>2. IInv /\ [Next]_vars => IInv'
  <2> SUFFICES ASSUME IInv, [Next]_vars PROVE IInv'
    OBVIOUS
  <2>1. CASE Arrive
    <3>1. frame' \in Frames /\ junk' \in Junk /\ pc' = "arrived" /\ ends' = NoEnds
      BY <2>1 DEF Arrive, IInv
    <3>2. PICK f \in Frames : f = frame'
      BY <3>1
    <3>3. PICK n \in IF live' THEN {snaplen} ELSE Caplens : caplen' = Min({n, WireLen(f)})
      BY <2>1, <3>2, Zenon DEF Arrive
    <3>4. n \in Nat /\ (live' => n = snaplen)
      BY FramesAssumption DEF snaplen
    <3>5. WireLen(f) \in Nat
      BY FrameFacts
    <3>6. caplen' \in Nat
      BY <3>3, <3>4, <3>5, TwoNumbers
    <3>7. Arrived'
      BY <3>1, <3>2, <3>3, <3>4, <3>6 DEF Arrived
    <3> QED BY <3>1, <3>7 DEF IInv
  <2>2. CASE Parse
    <3>1. /\ pc = "arrived" /\ status' = net_parse.status /\ pktinfo' = net_parse.pktinfo
          /\ pc' = IF status' = PARSE_ERR_OK THEN "parsed" ELSE "refused"
          /\ UNCHANGED <<frame, caplen, live, junk, key, ends, vlan>>
      BY <2>2 DEF Parse
    <3>2. Arrived /\ ends = NoEnds
      BY <3>1 DEF IInv
    <3>3. /\ net_parse.status = PARSE_ERR_OK <=> Accepted
          /\ Accepted => net_parse.pktinfo = Parsed(ETHER_HDRLEN + Offset)
      BY <3>2, ParseResult DEF Arrived
    <3>4. Arrived' /\ (Accepted' <=> Accepted)
          /\ Parsed(ETHER_HDRLEN + Offset)' = Parsed(ETHER_HDRLEN + Offset)
      BY <3>1, <3>2, SameBuffer
    <3> QED BY <3>1, <3>2, <3>3, <3>4 DEF IInv, Read
  <2>3. CASE InitKey
    <3>1. /\ pc = "parsed" /\ key' = KeyRead
          /\ pc' = IF ZeroAddr(key'.key) THEN "refused" ELSE "keyed"
          /\ UNCHANGED <<frame, caplen, live, junk, pktinfo, status, ends, vlan>>
      BY <2>3 DEF InitKey, KeyRead
    <3>2. Arrived' /\ Read' /\ KeyRead' = KeyRead /\ ends' = NoEnds
      BY <3>1, SameBuffer DEF IInv
    <3>3. ZeroAddr(key.key)' <=> ZeroAddr(key'.key)
      BY DEF ZeroAddr
    <3> QED BY <3>1, <3>2, <3>3 DEF IInv
  <2>4. CASE AllocAddrs
    <3>1. /\ pc = "keyed" /\ pc' = "done" /\ ends' = EndsRead
          /\ UNCHANGED <<frame, caplen, live, junk, pktinfo, status, key, vlan>>
      BY <2>4 DEF AllocAddrs, EndsRead
    <3>2. /\ Arrived' /\ Read' /\ KeyRead' = KeyRead /\ EndsRead' = EndsRead
          /\ key = KeyRead /\ ~ZeroAddr(key.key)'
      BY <3>1, SameBuffer DEF IInv, ZeroAddr
    <3> QED BY <3>1, <3>2 DEF IInv
  <2>5. CASE ClassifyVlan
    <3>1. /\ pc = "keyed" /\ pc' = "done" /\ vlan' = pkt_get_vlan(TypeAt(12)) % 2^8
          /\ UNCHANGED <<frame, caplen, live, junk, pktinfo, status, key, ends>>
      BY <2>5 DEF ClassifyVlan
    <3>2. /\ Arrived' /\ Read' /\ KeyRead' = KeyRead
          /\ key = KeyRead /\ ~ZeroAddr(key.key)'
          /\ vlan' = (pkt_get_vlan(TypeAt(12)) % 2^8)'
      BY <3>1, SameBuffer DEF IInv, ZeroAddr
    <3> QED BY <3>1, <3>2 DEF IInv
  <2>6. CASE Return
    BY <2>6 DEF Return, IInv
  <2>7. CASE UNCHANGED vars
    <3>1. UNCHANGED <<pc, frame, caplen, live, junk, pktinfo, status, key, ends, vlan>>
      BY <2>7 DEF vars
    <3> QED BY <3>1, SameBuffer DEF IInv, ZeroAddr
  <2> QED BY <2>1, <2>2, <2>3, <2>4, <2>5, <2>6, <2>7 DEF Next
<1> QED BY <1>1, <1>2, PTL DEF Spec

-----------------------------------------------------------------------------
(* A packet of a captured frame was read where the frame has it. *)
LEMMA ReadWhole ==
  ASSUME Arrived, KnownTags(frame), caplen >= L4(frame) + FlagsEnd, Read, key = KeyRead
  PROVE  /\ Parseable(frame) /\ key = pkt_init_key(PacketOf(frame))
         /\ pktinfo.isfin <=> (frame.ip.ip_p = IPPROTO_TCP /\ frame.fin)
<1>1. frame \in Frames /\ caplen \in Int
  BY DEF Arrived
<1>2. /\ Accepted <=> Parseable(frame)
      /\ Parseable(frame) =>
           /\ ETHER_HDRLEN + Offset = L3(frame)
           /\ IpAt(L3(frame)) = frame.ip
           /\ SegmentAt(L4(frame), FlagsEnd) = frame
           /\ SegmentAt(L4(frame), 4) = frame
  BY <1>1, CapturedFrame
<1>3. Parseable(frame)
  BY <1>2 DEF Read
<1>4. /\ key = pkt_init_key(PacketOf(frame))
      /\ pktinfo.isfin <=> (frame.ip.ip_p = IPPROTO_TCP /\ frame.fin)
  <2>1. pktinfo = Parsed(L3(frame))
    BY <1>2, <1>3 DEF Read
  <2>2. L3(frame) + ip_get_hlen(frame.ip) = L4(frame)
    BY DEF L4, ip_get_hlen
  <2>3. frame.ip.ip_p \in {IPPROTO_TCP, IPPROTO_UDP} /\ IPPROTO_TCP # IPPROTO_UDP
    BY <1>3 DEF Parseable, IPPROTO_TCP, IPPROTO_UDP
  <2>4. /\ pktinfo.ip4 = L3(frame) /\ pktinfo.l4 = L4(frame)
        /\ pktinfo.isfin = IF frame.ip.ip_p = IPPROTO_TCP THEN frame.fin ELSE FALSE
    <3> DEFINE ip4 == [Zeroed EXCEPT !.ether = 0, !.ip4 = L3(frame)]
    <3>1. IpAt(L3(frame)) = frame.ip /\ SegmentAt(L4(frame), FlagsEnd).fin = frame.fin
      BY <1>2, <1>3
    <3>2. CASE frame.ip.ip_p = IPPROTO_TCP
      <4>1. pktinfo = [ip4 EXCEPT !.l4 = L4(frame), !.istcp = TRUE, !.isfin = frame.fin]
        <5>1. L3(frame) + ip_get_hlen(IpAt(L3(frame))) = L4(frame)
          BY <2>2, <3>1
        <5>2. IpAt(L3(frame)).ip_p = IPPROTO_TCP /\ IpAt(L3(frame)).ip_p # IPPROTO_UDP
          BY <2>3, <3>1, <3>2
        <5>3. Parsed(L3(frame)) = [ip4 EXCEPT !.l4 = L4(frame), !.istcp = TRUE,
                                              !.isfin = SegmentAt(L4(frame), FlagsEnd).fin]
          BY <5>1, <5>2, Zenon DEF Parsed
        <5> QED BY <2>1, <3>1, <5>3, Zenon
      <4> QED BY <3>2, <4>1 DEF Zeroed
    <3>3. CASE frame.ip.ip_p = IPPROTO_UDP
      <4>1. pktinfo = [ip4 EXCEPT !.l4 = L4(frame)]
        BY <2>1, <2>2, <2>3, <3>1, <3>3 DEF Parsed
      <4> QED BY <2>3, <3>3, <4>1 DEF Zeroed
    <3> QED BY <2>3, <3>2, <3>3
  <2>5. key = pkt_init_key(PacketOf(frame))
    BY <1>2, <1>3, <2>4 DEF KeyRead, PacketOf
  <2> QED BY <2>4, <2>5
<1> QED BY <1>3, <1>4

(* The key has an address of 0 when the frame has one. *)
LEMMA ZeroInFrame ==
  ZeroAddr(pkt_init_key(PacketOf(frame)).key) <=> frame.ip.ip_src = 0 \/ frame.ip.ip_dst = 0
BY DEF ZeroAddr, pkt_init_key, PacketOf, net_stream_init_v4

(* Every captured frame is taken for what it is. *)
LEMMA Understood ==
  ASSUME IInv, Ended, KnownTags(frame), caplen >= L4(frame) + FlagsEnd
  PROVE  FrameUnderstood
<1>1. Arrived
  BY DEF IInv, Ended
<1>2. Accepted <=> Parseable(frame)
  BY <1>1, CapturedFrame DEF Arrived
<1>3. CASE ~Accepted
  <2>1. pc = "refused"
    BY <1>3 DEF IInv, Ended, Read
  <2> QED BY <1>2, <1>3, <2>1 DEF FrameUnderstood, Supported
<1>4. CASE Accepted
  <2>1. Read /\ key = KeyRead /\ (pc = "done" <=> ~ZeroAddr(key.key))
    BY <1>4 DEF IInv, Ended
  <2>2. /\ Parseable(frame) /\ key = pkt_init_key(PacketOf(frame))
        /\ pktinfo.isfin <=> (frame.ip.ip_p = IPPROTO_TCP /\ frame.fin)
    BY <1>1, <2>1, ReadWhole
  <2>3. pc = "done" <=> Supported(frame)
    BY <2>1, <2>2, ZeroInFrame DEF Supported
  <2> QED BY <2>2, <2>3 DEF FrameUnderstood
<1> QED BY <1>3, <1>4

(* For all frames, junk and captured lengths: a frame captured up to the
   flags of its segment is understood, whatever else net_parse finds in the
   buffer. *)
THEOREM CapturedCorrect == Spec => []CapturedIsUnderstood
<1>1. IInv => CapturedIsUnderstood
  BY Understood DEF CapturedIsUnderstood
<1> QED BY <1>1, Invariant, PTL

(* For all frames and junk: the snaplen of 72 that capture.c asks for is
   enough for two tags and 16 bytes of options. *)
THEOREM SnaplenCorrect == Spec => []SnaplenSuffices
<1>1. ASSUME IInv, Ended, live, KnownTags(frame), frame.ip.hl <= 9
      PROVE  FrameUnderstood
  <2>1. frame \in Frames /\ caplen = Min({snaplen, WireLen(frame)})
    BY <1>1 DEF IInv, Ended, Arrived
  <2>2. /\ L3(frame) = 14 + 4 * Len(frame.tags) /\ L3(frame) \in Nat
        /\ L4(frame) = L3(frame) + 4 * frame.ip.hl /\ frame.ip.hl \in Nat /\ L4(frame) \in Nat
        /\ WireLen(frame) \in Nat /\ WireLen(frame) >= L4(frame) + 20
    BY <2>1, FrameFacts
  <2>3. Len(frame.tags) \in {0, 1, 2}
    BY <1>1 DEF KnownTags
  <2>4. \A n \in {0, 1, 2}, h \in Nat : h <= 9 => 14 + 4 * n + 4 * h + 14 <= 72
    OBVIOUS
  <2>5. L4(frame) + 14 <= 72
    BY <1>1, <2>2, <2>3, <2>4
  <2>6. caplen >= L4(frame) + FlagsEnd
    <3>1. Min({72, WireLen(frame)}) = IF 72 <= WireLen(frame) THEN 72 ELSE WireLen(frame)
      BY <2>2, TwoNumbers
    <3>2. caplen = IF 72 <= WireLen(frame) THEN 72 ELSE WireLen(frame)
      BY <2>1, <3>1, Zenon DEF snaplen
    <3> QED BY <2>2, <2>5, <3>2 DEF FlagsEnd
  <2> QED BY <1>1, <2>6, Understood
<1>2. IInv => SnaplenSuffices
  BY <1>1 DEF SnaplenSuffices
<1> QED BY <1>2, Invariant, PTL

(* For all frames, junk and captured lengths: _ip_parse accepts no header
   whose options were not captured, but for the frames that end in their
   tags. *)
THEOREM HeaderCorrect == Spec => []HeaderCaptured
<1>1. ASSUME IInv, Ended, status = PARSE_ERR_OK, caplen >= pktinfo.ip4
      PROVE  caplen >= pktinfo.ip4 + Max({IpHdrLen, ip_get_hlen(IpAt(pktinfo.ip4))})
  <2> DEFINE l3 == ETHER_HDRLEN + Offset
  <2>1. Arrived /\ Accepted /\ pktinfo = Parsed(l3)
    BY <1>1 DEF IInv, Ended, Read
  <2>2. pktinfo.ip4 = l3
    BY <2>1 DEF Parsed, Zeroed
  <2>3. Offset \in {0, 4, 8} /\ l3 \in Nat
    BY DEF Offset, VlanOffset, ETHER_HDRLEN
  <2>4. PICK h \in Nat : h = IpAt(l3).hl
    <3>1. frame.ip.hl \in Nat
      BY <2>1, FrameFacts DEF Arrived
    <3>2. junk.ip.hl \in Nat
      BY <2>1, FramesAssumption DEF Arrived
    <3> QED BY <3>1, <3>2 DEF IpAt
  <2>5. ~Short(caplen - l3) /\ ~Incomplete(l3, caplen - l3)
    BY <2>1 DEF Accepted
  <2> HIDE DEF l3
  <2>6. caplen \in Nat /\ caplen >= l3
    BY <1>1, <2>1, <2>2 DEF Arrived
  <2>7. ip_get_hlen(IpAt(l3)) = 4 * h
    BY <2>4 DEF ip_get_hlen
  <2>8. caplen - l3 >= 20 /\ caplen - l3 >= 4 * h
    BY <2>3, <2>5, <2>6, <2>7 DEF Short, Incomplete, IpHdrLen
  <2>9. Max({IpHdrLen, 4 * h}) = IF 20 >= 4 * h THEN 20 ELSE 4 * h
    BY TwoNumbers DEF IpHdrLen
  <2> QED BY <2>2, <2>3, <2>6, <2>7, <2>8, <2>9
<1>2. IInv => HeaderCaptured
  BY <1>1 DEF HeaderCaptured
<1> QED BY <1>2, Invariant, PTL

(* For all frames, junk and captured lengths: whichever side of the key the
   sender is, its address gets its MAC address. *)
THEOREM MacCorrect == Spec => []MacOfAddress
<1>1. ASSUME IInv, ends # NoEnds, KnownTags(frame), caplen >= L4(frame) + FlagsEnd
      PROVE  LET pairs == {<<frame.ip.ip_src, frame.smac>>, <<frame.ip.ip_dst, frame.dmac>>}
             IN  <<key.key.left, ends.left.mac>> \in pairs /\ <<key.key.right, ends.right.mac>> \in pairs
  <2>1. pc = "done" /\ ends = EndsRead
    BY <1>1 DEF IInv
  <2>2. key = net_stream_init_v4(frame.ip.ip_p, frame.ip.ip_src, frame.ip.ip_dst,
                                 frame.sport, frame.dport)
    BY <1>1, <2>1, ReadWhole DEF IInv, pkt_init_key, PacketOf
  <2>3. ends.left.mac = Macs(key.is_flipped)[1] /\ ends.right.mac = Macs(key.is_flipped)[2]
    BY <2>1 DEF EndsRead
  <2>4. CASE key.is_flipped
    BY <2>2, <2>3, <2>4 DEF Macs, net_stream_init_v4
  <2>5. CASE ~key.is_flipped
    BY <2>2, <2>3, <2>5 DEF Macs, net_stream_init_v4
  <2> QED BY <2>4, <2>5
<1>2. IInv => MacOfAddress
  BY <1>1 DEF MacOfAddress
<1> QED BY <1>2, Invariant, PTL

(* For all frames, junk and captured lengths: pkt_get_vlan takes the tag next
   to the IPv4 header. *)
THEOREM VlanCorrect == Spec => []VlanIsInnermost
<1>1. ASSUME IInv, pc = "done", ends = NoEnds, KnownTags(frame), caplen >= L4(frame) + FlagsEnd
      PROVE  vlan = IF frame.tags = <<>> THEN 255 ELSE frame.tci[Len(frame.tags)] % 2^8
  <2>1. EndsRead # NoEnds
    BY DEF EndsRead, NoEnds
  <2>2. vlan = pkt_get_vlan(TypeAt(12)) % 2^8
    BY <1>1, <2>1 DEF IInv
  <2>3. frame \in Frames /\ caplen \in Int
    BY <1>1 DEF IInv, Arrived
  <2>4. /\ L3(frame) = 14 + 4 * Len(frame.tags) /\ frame.tags \in Seq(Nat)
        /\ L4(frame) = L3(frame) + 4 * frame.ip.hl /\ frame.ip.hl \in Nat
    BY <2>3, FrameFacts
  <2>5. /\ Len(frame.tags) \in {0, 1, 2}
        /\ TypeAt(12) = ETHERTYPE_VLAN <=> Len(frame.tags) = 1
        /\ TypeAt(12) = ETHERTYPE_VLAN2 <=> Len(frame.tags) = 2
    BY <1>1, <2>3, TagsSkipped
  <2>6. CASE Len(frame.tags) = 0
    <3>1. frame.tags = <<>>
      BY <2>4, <2>6
    <3>2. pkt_get_vlan(TypeAt(12)) = -1
      BY <2>5, <2>6 DEF pkt_get_vlan
    <3> QED BY <2>2, <3>1, <3>2, NoVlan, Zenon
  <2>7. CASE Len(frame.tags) = 1
    <3>1. frame.tags # <<>>
      BY <2>7
    <3>2. pkt_get_vlan(TypeAt(12)) = frame.tci[1]
      BY <1>1, <2>3, <2>4, <2>5, <2>7 DEF pkt_get_vlan, TciAt, FlagsEnd
    <3> QED BY <2>2, <2>7, <3>1, <3>2
  <2>8. CASE Len(frame.tags) = 2
    <3>1. frame.tags # <<>>
      BY <2>8
    <3>2. TypeAt(12) = ETHERTYPE_VLAN2 /\ TypeAt(12) # ETHERTYPE_VLAN
      BY <2>5, <2>8
    <3>3. pkt_get_vlan(TypeAt(12)) = frame.tci[2]
      BY <1>1, <2>3, <2>4, <2>8, <3>2 DEF pkt_get_vlan, TciAt, FlagsEnd
    <3> QED BY <2>2, <2>8, <3>1, <3>3
  <2> QED BY <2>5, <2>6, <2>7, <2>8
<1>2. IInv => VlanIsInnermost
  BY <1>1 DEF VlanIsInnermost
<1> QED BY <1>2, Invariant, PTL
-----------------------------------------------------------------------------
(* The fields of a packet. *)
LEMMA PacketFields ==
  ASSUME NEW a \in Packets
  PROVE  a.srcip \in Nat /\ a.dstip \in Nat /\ a.sport \in Nat /\ a.dport \in Nat
BY FramesAssumption DEF Packets, PacketOf

(* Equal keys are keys of one conversation and conversely: net_stream_init_v4
   orders the two end points by a total order. *)
LEMMA KeyLemma ==
  ASSUME NEW a \in Packets, NEW b \in Packets
  PROVE  /\ pkt_init_key(a).key = pkt_init_key(b).key <=> SameConversation(a, b)
         /\ SameConversation(a, b) =>
              (pkt_init_key(a).is_flipped = pkt_init_key(b).is_flipped <=> Source(a) = Source(b))
BY PacketFields, SMTT(30)
   DEF SameConversation, Source, Dest, pkt_init_key, net_stream_init_v4

(* The key in hand is the one of the frame's packet. *)
LEMMA Keyed ==
  ASSUME IInv, pc = "keyed", KnownTags(frame), caplen >= L4(frame) + FlagsEnd
  PROVE  PacketOf(frame) \in Packets /\ key = pkt_init_key(PacketOf(frame))
<1>1. Arrived /\ Read /\ key = KeyRead
  BY DEF IInv
<1> QED BY <1>1, ReadWhole DEF Arrived, Packets

(* For all frames, junk and captured lengths: the key made of a frame is the
   key of the packets of its conversation and of no others. *)
THEOREM KeyCorrect == Spec => []KeyIdentifiesConversation
<1>1. IInv => KeyIdentifiesConversation
  BY Keyed, KeyLemma DEF KeyIdentifiesConversation
<1> QED BY <1>1, Invariant, PTL

(* For all frames, junk and captured lengths: the direction made of a frame
   tells which end of the conversation has sent it. *)
THEOREM DirectionCorrect == Spec => []DirectionIdentifiesSender
<1>1. IInv => DirectionIdentifiesSender
  BY Keyed, KeyLemma DEF DirectionIdentifiesSender
<1> QED BY <1>1, Invariant, PTL
=============================================================================
