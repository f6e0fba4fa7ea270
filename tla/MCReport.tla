------------------------------ MODULE MCReport ------------------------------
(* Small tables for the report: three LAN and two WAN addresses. *)
EXTENDS Report

MCWatched == {21, 22, 23}

\* iids start at 0; entry a of addrs[] has the iid 7 - a.
MCAddrs(tx) == [a \in 1 .. 5 |-> [iid |-> 7 - a, internal |-> a <= 3, txpackets |-> tx[a]]]

\* Five streams between LAN and WAN.
MCStreams(packets, bytes, left, rport) ==
  [s \in 1 .. 5 |-> [iid |-> s - 1, packets |-> packets[s], bytes |-> bytes[s],
                     idx_left |-> left[s], idx_right |-> IF left[s] > 3 THEN 1 ELSE 6 - left[s],
                     lport |-> 21, rport |-> rport[s]]]

MCCopy(streams, tx, protos) ==
  [streams |-> streams, addrs |-> MCAddrs(tx), lan |-> <<1, 2, 3>>, wan |-> <<4, 5>>,
   protos |-> protos]

\* Every order of five counters, and all with counters alike.
SortCopies ==
  {MCCopy(MCStreams(p, [s \in 1 .. 5 |-> (p[s] + s) % 3], <<1, 5, 2, 1, 3>>, <<21, 80, 22, 23, 21>>),
          <<p[1], p[2], p[3], p[4], 1>>, [k \in 1 .. 4 |-> [entry |-> <<0, 99, 100, 180>>[k], packets |-> p[k] + 1]]) :
     p \in [1 .. 5 -> 0 .. 2] \cup Permutations(1 .. 5)}

\* Streams of two LAN addresses and from outside, to more or fewer ports.
ScanCopies ==
  {MCCopy(MCStreams(<<1, 2, 3, 0, 1>>, <<2, 2, 1, 1, 0>>, l, r), <<0, 1, 2, 1, 0>>, <<[entry |-> 80, packets |-> 6]>>) :
     l \in [1 .. 5 -> {1, 2, 5}], r \in {<<21, 22, 23, 80, 80>>, <<21, 21, 22, 23, 22>>, <<23, 80, 22, 22, 80>>}}

MCCopies == SortCopies \cup ScanCopies \cup {Empty}

\* A stream's line is the longest.
MCLineLen(l) == IF l.kind = "STRM" THEN 4 ELSE IF l.kind = "heading" THEN 3 ELSE 2
=============================================================================
