----------------------------- MODULE MCCapture -----------------------------
(* Small networks for the capture process. *)
EXTENDS Capture

TCP == 6
UDP == 17

MCLanIps == {1, 2, 6}
MCWebPorts == {80}
\* No two conversations share a bucket, but the protocol is not hashed.
MCHash(k) == <<k.left, k.right, k.lport, k.rport>>

Pkt(proto, src, sport, dst, dport, fin) ==
  [parsed |-> TRUE, ipproto |-> proto, srcip |-> src, dstip |-> dst,
   sport |-> sport, dport |-> dport, isfin |-> fin]

\* A web session, a DNS query with its answer, an internal session, and a
\* packet without a source address, which is ignored.
Web(fin)    == Pkt(TCP, 1, 200, 3, 80, fin)
Query       == Pkt(UDP, 3, 53, 2, 300, FALSE)
Inside(fin) == Pkt(TCP, 1, 400, 2, 139, fin)
Zero        == Pkt(UDP, 0, 68, 3, 67, FALSE)

WebAndQuery == {Web(FALSE), Web(TRUE), Query, Zero}
TwoSessions == {Web(FALSE), Web(TRUE), Inside(TRUE), Zero}
\* With a third host of the LAN, one more than its part of addrs[] holds.
Sessions    == {Web(TRUE), Inside(FALSE), Query, Pkt(UDP, 6, 300, 3, 53, FALSE)}

\* Web servers are outside the LAN.
ASSUME NetworkAssumption == WebOutside
=============================================================================
