----------------------------- MODULE MCNetParse -----------------------------
(* Frames for the parser: every combination of headers between two hosts,  *)
(* one kind of header between many, and the conversations of a few, among  *)
(* them a host that has no address yet.                                    *)
EXTENDS NetParse

\* Which of two addresses has the lower number only decides the key's sides.
MCBytes(ip) ==
  << <<10, 1, 2, 3>>, <<192, 168, 0, 1>>, <<192, 169, 0, 1>>, <<168, 192, 0, 1>>,
     <<8, 8, 8, 8>>, <<1, 2, 0, 10>>, <<1, 2, 168, 192>>, <<11, 0, 0, 10>>,
     <<224, 0, 0, 1>>, <<255, 255, 255, 255>>, <<255, 255, 255, 0>>,
     <<172, 16, 0, 1>>, <<172, 17, 0, 1>>, <<172, 48, 0, 1>>, <<172, 15, 9, 9>> >>[ip]

Frame(tags, type, hl, first, proto, fin, src, dst, sport, dport) ==
  [tags |-> tags, tci |-> <<\hE12C, 511>>, type |-> type, fin |-> fin, smac |-> 100 + src, dmac |-> 100 + dst,
   ip |-> [hl |-> hl, first |-> first, ip_p |-> proto, ip_src |-> src, ip_dst |-> dst],
   sport |-> sport, dport |-> dport]

MCFrames ==
  { Frame(tags, type, hl, first, proto, fin, 1, 2, sport, 80) :
      tags \in {<<>>, <<ETHERTYPE_VLAN>>, <<ETHERTYPE_VLAN2>>,
                <<ETHERTYPE_VLAN2, ETHERTYPE_VLAN>>, <<ETHERTYPE_VLAN, ETHERTYPE_VLAN>>},
      type \in {ETHERTYPE_IP, \h0806, 1500}, hl \in {5, 6, 9, 10, 15},
      first \in BOOLEAN, proto \in {1, 6, 17}, fin \in BOOLEAN, sport \in {80, 79} }
  \cup
  { Frame(<<>>, ETHERTYPE_IP, 5, TRUE, 17, FALSE, src, dst, 80, 80) : src, dst \in 1 .. 15 }
  \cup
  { Frame(<<>>, ETHERTYPE_IP, 5, TRUE, proto, FALSE, src, dst, sport, dport) :
      proto \in {6, 17}, src, dst \in 0 .. 3, sport, dport \in {79, 80} }

MCJunk ==
  { [tci |-> 9, type |-> type, fin |-> TRUE, sport |-> 7, dport |-> 9,
     ip |-> [hl |-> hl, first |-> TRUE, ip_p |-> 6, ip_src |-> 3, ip_dst |-> 4]] :
      type \in {ETHERTYPE_IP, 0}, hl \in {5, 15} }
=============================================================================
