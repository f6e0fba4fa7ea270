----------------------------- MODULE StreamKey -----------------------------
(***************************************************************************)
(* The stream key of net/streamkey.c: the two directions of a conversation *)
(* must give the same key, so the end point with the higher port (on equal *)
(* ports, the lower address) is the key's left side.  Addresses and ports  *)
(* are numbers, compared as the unsigned fields of the key are.            *)
(***************************************************************************)
EXTENDS Integers

(* Mutant: no comparison of the addresses when the ports are equal. *)
KeyByPort(ipproto, srcip, dstip, sport, dport) ==
  IF sport > dport
  THEN [key |-> [ipproto |-> ipproto, lport |-> sport, rport |-> dport,
                 left |-> srcip, right |-> dstip], is_flipped |-> FALSE]
  ELSE [key |-> [ipproto |-> ipproto, lport |-> dport, rport |-> sport,
                 left |-> dstip, right |-> srcip], is_flipped |-> TRUE]

(* net_stream_init_v4: the key and whether the packet goes right to left. *)
net_stream_init_v4(ipproto, srcip, dstip, sport, dport) ==
  IF sport > dport \/ (sport = dport /\ srcip < dstip)
  THEN [key |-> [ipproto |-> ipproto, lport |-> sport, rport |-> dport,
                 left |-> srcip, right |-> dstip],
        is_flipped |-> FALSE]
  ELSE [key |-> [ipproto |-> ipproto, lport |-> dport, rport |-> sport,
                 left |-> dstip, right |-> srcip],
        is_flipped |-> TRUE]

(* pkt_init_key, for a parsed IPv4 packet. *)
pkt_init_key(pkt) ==
  net_stream_init_v4(pkt.ipproto, pkt.srcip, pkt.dstip, pkt.sport, pkt.dport)

(* stream_init_key_from_stream: the key rebuilt from a stream entry, whose *)
(* ports were copied from the key, and from the addresses l and r that the *)
(* entries at idx_left and idx_right have now.  Those may have been given  *)
(* to other addresses meanwhile.                                           *)
stream_init_key_from_stream(stream, l, r) ==
  net_stream_init_v4(stream.ipproto, l, r, stream.lport, stream.rport).key
=============================================================================
