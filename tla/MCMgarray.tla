----------------------------- MODULE MCMgarray -----------------------------
(* Small managed arrays for TLC. *)
EXTENDS MgarraySpec

\* Like test/mga_test.c: odd length, room on both sides in the raw array.
TestArray == MkGeometry(3, 7, 11)
\* Like the stream array: even length, starts at 0, ends with the raw array.
StreamArray == MkGeometry(0, 5, 6)
\* Like the LAN part of addrs[]: starts at 0, the raw array goes on.
LanArray == MkGeometry(0, 3, 10)
\* Like the WAN part of addrs[]: ends with the raw array.
WanArray == MkGeometry(4, 9, 10)
\* Odd length from 0: the fill reaches entry 0.
OddFromZero == MkGeometry(0, 4, 6)
\* The smallest range.
SingleEntry == MkGeometry(1, 1, 3)

AllArrays == {TestArray, StreamArray, LanArray, WanArray, OddFromZero, SingleEntry}
TestOnly == {TestArray}
=============================================================================
