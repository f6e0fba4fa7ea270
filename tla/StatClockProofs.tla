-------------------------- MODULE StatClockProofs --------------------------
(***************************************************************************)
(* Proofs about the clock of the statistics, for every length of a minute, *)
(* every width of the counters and every file.                             *)
(***************************************************************************)
EXTENDS StatClock, TLAPS

LEMMA ModRange ==
  ASSUME NEW n \in Nat, NEW m \in Nat \ {0}
  PROVE  n % m \in 0 .. m - 1
OBVIOUS

LEMMA ModSmall ==
  ASSUME NEW n \in Nat, NEW m \in Nat \ {0}, n < m
  PROVE  n % m = n
OBVIOUS

LEMMA ModLeq ==
  ASSUME NEW n \in Nat, NEW m \in Nat \ {0}
  PROVE  n % m <= n
<1>1. CASE n < m
  BY <1>1, ModSmall
<1>2. CASE n >= m
  BY <1>2, ModRange
<1> QED
  BY <1>1, <1>2

LEMMA ModSucc ==
  ASSUME NEW n \in Nat, NEW m \in Nat \ {0}, (n % m) + 1 < m
  PROVE  (n + 1) % m = (n % m) + 1
<1> DEFINE q == n \div m
           p == (n + 1) \div m
           d == p - q
           r == n % m
           s == (n + 1) % m
<1>1. /\ q \in Int /\ p \in Int /\ d \in Int
      /\ n = m * q + r /\ n + 1 = m * p + s
      /\ r \in 0 .. m - 1 /\ s \in 0 .. m - 1 /\ r + 1 < m
  OBVIOUS
<1>2. m * p = m * q + m * d
  BY <1>1
<1> SUFFICES s = r + 1
  OBVIOUS
<1> HIDE DEF q, p, d, r, s
<1>3. d <= 0
  <2> SUFFICES ASSUME d >= 1 PROVE FALSE
    BY <1>1
  <2>1. m * d >= m
    BY <1>1
  <2> QED
    BY <1>1, <1>2, <2>1
<1>4. d >= 0
  <2> SUFFICES ASSUME d <= -1 PROVE FALSE
    BY <1>1
  <2>1. m * d <= -m
    BY <1>1
  <2> QED
    BY <1>1, <1>2, <2>1
<1>5. m * d = 0
  BY <1>1, <1>3, <1>4
<1> QED
  BY <1>1, <1>2, <1>5

LEMMA IncMod ==
  ASSUME NEW m \in Nat \ {0}, NEW n \in 0 .. m - 1
  PROVE  (n + 1) % m = IF n + 1 = m THEN 0 ELSE n + 1
OBVIOUS

(***************************************************************************)
(* tval_diff_ms borrows 2^32 - 1 microseconds instead of a million, which  *)
(* makes it a test for a new second: it is 1000 or more exactly when the   *)
(* second has changed.                                                     *)
(***************************************************************************)
Stamps == [sec : 0 .. MaxSec, usec : {u \in Nat : u \div 1000 < 1000}]

LEMMA Constants ==
  /\ TimeWord \in Nat /\ TimeWord \div 1000 > 1000
  /\ CtrWord \in Nat /\ CtrWord > 1
  /\ Minute \in Nat /\ Minute > 1
  /\ MaxSec \in Nat /\ MaxSec + Minute < TimeWord
  /\ MaxGap \in Nat /\ 1000 * MaxGap + (TimeWord \div 1000) < TimeWord
BY StatClockAssumption

LEMMA StampParts ==
  ASSUME NEW a \in Stamps
  PROVE  a.sec \in Nat /\ a.sec <= MaxSec /\ a.usec \in Nat /\ a.usec \div 1000 < 1000
BY Constants DEF Stamps

LEMMA NewSecondIsSeen ==
  ASSUME NEW a \in Stamps, NEW b \in Stamps, a.sec < b.sec, b.sec <= a.sec + MaxGap
  PROVE  tval_diff_ms(a, b) >= 1000
<1> DEFINE d == (b.sec - a.sec) * 1000
           u == IF b.usec < a.usec THEN (TimeWord - 1 + b.usec - a.usec) \div 1000
                                   ELSE (b.usec - a.usec) \div 1000
<1>1. d \in Nat /\ d >= 1000 /\ d <= 1000 * MaxGap
  BY SMT, StampParts, Constants
<1>2. u \in Nat /\ u <= TimeWord \div 1000
  BY SMT, StampParts, Constants
<1>3. d + u \in Nat /\ d + u < TimeWord /\ d + u >= 1000
  <2> HIDE DEF d, u
  <2> QED
    BY SMT, <1>1, <1>2, Constants
<1>4. (d + u) % TimeWord = d + u
  <2> HIDE DEF d, u
  <2> QED
    BY SMT, <1>3, ModSmall, Constants
<1> QED
  BY SMT, <1>3, <1>4 DEF tval_diff_ms

LEMMA SameSecondIsNot ==
  ASSUME NEW a \in Stamps, NEW b \in Stamps, a.sec = b.sec, a.usec <= b.usec
  PROVE  tval_diff_ms(a, b) < 1000
<1> DEFINE u == (b.usec - a.usec) \div 1000
<1>1. u \in Nat /\ u < 1000
  BY SMT, StampParts
<1>2. tval_diff_ms(a, b) = u % TimeWord
  BY SMT, StampParts DEF tval_diff_ms
<1> HIDE DEF u
<1> QED
  BY SMT, <1>1, <1>2, ModSmall, Constants

LEMMA DiffExact ==
  ASSUME NEW prev \in 0 .. CtrWord - 1, NEW cur \in 0 .. CtrWord - 1,
         NEW n \in 0 .. CtrWord - 1, cur \in {prev + n, prev + n - CtrWord}
  PROVE  u32diff(prev, cur) = IF cur < prev THEN n - 1 ELSE n
BY StatClockAssumption DEF u32diff

-----------------------------------------------------------------------------
Counters == [FlowTypes -> 0 .. CtrWord - 1]

StatStates == [initialized : BOOLEAN, tlast_min : Nat, sec_i : 0 .. Minute,
               stats_last : Counters, last_min : Nat,
               sec_flows : [FlowTypes -> [Slots -> Nat]]]

Histories == [fresh : Counters, seen : [FlowTypes -> [Slots -> Nat]], unreported : Nat,
              wraps : Nat, exact : BOOLEAN, dirty : BOOLEAN, gap : BOOLEAN, first : Nat]

TypeOK ==
  /\ mode \in {"file", "live"}
  /\ clock \in Stamps /\ clock.sec > 0
  /\ pc \in {"idle", "parse", "stream", "after"}
  /\ ctr \in Counters
  /\ last \in Stamps
  /\ st \in StatStates
  /\ out \in [ts : Nat, total : Nat]
  /\ fault \in {"none", "assert", "null_copy"}
  /\ done \in BOOLEAN
  /\ seq \in [ordered : BOOLEAN, start : Nat]
  /\ h \in Histories

LEMMA ZeroTypes == Zero \in Counters /\ ZeroSlots \in [FlowTypes -> [Slots -> Nat]]
BY Constants DEF Zero, ZeroSlots, Counters

LEMMA MinuteOfType ==
  ASSUME NEW ts \in Nat
  PROVE  /\ SecondOf(ts) \in 0 .. Minute - 1 /\ SecondOf(ts) \in Nat
         /\ MinuteOf(ts) \in Nat /\ MinuteOf(ts) = ts - SecondOf(ts)
         /\ MinuteOf(ts) <= ts /\ ts < MinuteOf(ts) + Minute
<1>1. Minute \in Nat \ {0}
  BY Constants
<1>2. SecondOf(ts) \in 0 .. Minute - 1
  BY <1>1, ModRange DEF SecondOf
<1>3. SecondOf(ts) <= ts
  BY <1>1, ModLeq DEF SecondOf
<1> QED
  BY <1>1, <1>2, <1>3 DEF MinuteOf

LEMMA NewMinuteType ==
  ASSUME NEW ts \in Nat
  PROVE  NewMinute(ts) \in Histories
BY ZeroTypes, MinuteOfType DEF NewMinute, Histories

LEMMA SecondType ==
  ASSUME TypeOK, NEW f \in FlowTypes
  PROVE  Second(f) \in Nat
<1>1. ctr[f] \in 0 .. CtrWord - 1 /\ st.stats_last[f] \in 0 .. CtrWord - 1
  BY DEF TypeOK, StatStates, Counters
<1> QED
  BY <1>1, Constants DEF Second, u32diff

LEMMA SnapshotType ==
  ASSUME TypeOK, st.sec_i + 1 <= Minute
  PROVE  Snapshot \in StatStates
<1>1. /\ st \in StatStates /\ st.sec_i \in Slots /\ ctr \in Counters
      /\ st.sec_flows \in [FlowTypes -> [Slots -> Nat]] /\ st.last_min \in Nat
  BY Constants DEF TypeOK, StatStates, Slots
<1> DEFINE flows == [f \in FlowTypes |-> [st.sec_flows[f] EXCEPT ![st.sec_i] = Second(f)]]
<1>2. flows \in [FlowTypes -> [Slots -> Nat]]
  BY <1>1, SecondType
<1>3. st.last_min + Second("total") \in Nat
  BY <1>1, SecondType DEF FlowTypes
<1>4. st.sec_i + 1 \in 0 .. Minute
  BY <1>1, Constants DEF Slots
<1>5. Snapshot = [st EXCEPT !.sec_flows = flows, !.last_min = st.last_min + Second("total"),
                            !.sec_i = st.sec_i + 1, !.stats_last = ctr]
  BY <1>1 DEF Snapshot, StatStates
<1> HIDE DEF flows
<1> QED
  BY <1>1, <1>2, <1>3, <1>4, <1>5 DEF StatStates

LEMMA ResetType ==
  ASSUME NEW s \in StatStates, NEW ts \in Nat
  PROVE  /\ Reset(s, ts) \in StatStates /\ Printed(s, ts) \in [ts : Nat, total : Nat]
         /\ Reset(s, ts).last_min = 0 /\ Reset(s, ts).tlast_min = MinuteOf(ts)
         /\ Reset(s, ts).sec_i = SecondOf(ts) /\ Reset(s, ts).initialized = s.initialized
         /\ Reset(s, ts).stats_last = s.stats_last /\ Reset(s, ts).sec_flows = s.sec_flows
<1>1. MinuteOf(ts) \in Nat /\ SecondOf(ts) \in 0 .. Minute
  BY MinuteOfType, Constants
<1> QED
  BY <1>1 DEF Reset, Printed, StatStates

LEMMA EverySecondType ==
  ASSUME TypeOK, NEW ts \in 1 .. MaxSec, every_second(ts)
  PROVE  /\ st' \in StatStates /\ out' \in [ts : Nat, total : Nat] /\ h' \in Histories
         /\ fault' \in {"none", "assert", "null_copy"}
<1> ts \in Nat
  BY Constants
<1>1. CASE ~st.initialized
  <2>1. InitState(ts) \in StatStates
    BY MinuteOfType, Constants DEF InitState, StatStates, TypeOK
  <2> QED
    BY <1>1, <2>1, NewMinuteType DEF every_second, TypeOK
<1>2. CASE st.initialized /\ st.sec_i + 1 > Minute
  BY <1>2 DEF every_second, TypeOK
<1>3. CASE st.initialized /\ ~(st.sec_i + 1 > Minute)
  <2>1. Snapshot \in StatStates
    BY <1>3, SnapshotType, Constants DEF TypeOK, StatStates
  <2>2. Reset(Snapshot, ts) \in StatStates /\ Printed(Snapshot, ts) \in [ts : Nat, total : Nat]
    BY <2>1, ResetType
  <2>3. NewSecond(ts) \in Histories
    <3>1. Passed \in {0, 1}
      BY DEF Passed
    <3>2. h.unreported + h.fresh["total"] \in Nat /\ h.wraps + Passed \in Nat
      BY <3>1, Constants DEF TypeOK, Histories, Counters, FlowTypes
    <3> QED
      BY <3>2, ZeroTypes DEF TypeOK, Histories, NewSecond
  <2> QED
    BY <1>3, <2>1, <2>2, <2>3, NewMinuteType DEF every_second, TypeOK
<1> QED
  BY <1>1, <1>2, <1>3

LEMMA SimBeforeType ==
  ASSUME TypeOK, NEW ts \in Stamps, ts.sec > 0, sim_before_packet(ts)
  PROVE  /\ st' \in StatStates /\ out' \in [ts : Nat, total : Nat] /\ h' \in Histories
         /\ fault' \in {"none", "assert", "null_copy"} /\ last' \in Stamps
<1>1. ts.sec \in 1 .. MaxSec
  BY StampParts, Constants
<1> QED
  BY <1>1, EverySecondType DEF sim_before_packet, TypeOK

LEMMA CountType ==
  ASSUME TypeOK, NEW f \in FlowTypes, Count(f)
  PROVE  ctr' \in Counters /\ h' \in Histories
<1>1. (ctr[f] + 1) % CtrWord \in 0 .. CtrWord - 1
  <2>1. ctr[f] + 1 \in Nat /\ CtrWord \in Nat \ {0}
    BY Constants DEF TypeOK, Counters
  <2> QED
    BY <2>1, ModRange
<1>2. h.fresh[f] + 1 \in 0 .. CtrWord - 1
  BY Constants DEF TypeOK, Histories, Counters, Count
<1>3. SecondOf(clock.sec) \in Slots
  BY MinuteOfType, StampParts, Constants DEF TypeOK, Slots
<1>4. ctr' \in Counters
  BY <1>1 DEF TypeOK, Counters, Count
<1>5. h.fresh \in Counters /\ h.seen \in [FlowTypes -> [Slots -> Nat]]
  BY DEF TypeOK, Histories
<1> DEFINE fresh == [h.fresh EXCEPT ![f] = @ + 1]
           n     == IF mode = "file" /\ ~h.gap THEN h.seen[f][SecondOf(clock.sec)] + 1
                    ELSE h.seen[f][SecondOf(clock.sec)]
           seen  == [h.seen EXCEPT ![f][SecondOf(clock.sec)] = n]
<1>6. fresh \in Counters
  BY <1>2, <1>5 DEF Counters
<1>7. seen \in [FlowTypes -> [Slots -> Nat]]
  BY <1>3, <1>5
<1>8. h' = [h EXCEPT !.fresh = fresh, !.seen = seen]
  BY DEF Count, TypeOK, Histories
<1> HIDE DEF fresh, seen
<1>9. h' \in Histories
  BY <1>6, <1>7, <1>8 DEF TypeOK, Histories
<1> QED
  BY <1>4, <1>9

LEMMA TypeStep ==
  ASSUME TypeOK, [Next]_vars
  PROVE  TypeOK'
<1>1. ASSUME NEW ts \in Times, ReadPacket(ts)
      PROVE  TypeOK'
  <2>1. ts \in Stamps /\ ts.sec > 0 /\ ts.sec \in Nat
    BY StatClockAssumption DEF Times, Stamps
  <2>2. seq' \in [ordered : BOOLEAN, start : Nat]
    BY <1>1, <2>1, StampParts DEF ReadPacket, TypeOK, TLeq
  <2>3. /\ st' \in StatStates /\ out' \in [ts : Nat, total : Nat] /\ h' \in Histories
        /\ fault' \in {"none", "assert", "null_copy"} /\ last' \in Stamps
    BY <1>1, <2>1, SimBeforeType DEF ReadPacket
  <2> QED
    BY <1>1, <2>1, <2>2, <2>3 DEF ReadPacket, TypeOK
<1>2. CASE LivePacket
  BY <1>2 DEF LivePacket, TypeOK
<1>3. CASE Return
  BY <1>3 DEF Return, TypeOK
<1>4. CASE shm_inc_global
  BY <1>4, CountType DEF shm_inc_global, TypeOK, FlowTypes
<1>5. CASE shm_inc_flow_stats
  BY <1>5, CountType DEF shm_inc_flow_stats, TypeOK, FlowTypes
<1>6. CASE sim_after_packet
  <2>1. clock \in Stamps /\ clock.sec > 0
    BY DEF TypeOK
  <2> QED
    BY <1>6, <2>1, SimBeforeType DEF sim_after_packet, TypeOK
<1>7. CASE sim_finish
  <2>1. st.tlast_min + Minute \in Nat /\ st \in StatStates
    BY Constants DEF TypeOK, StatStates
  <2>2. CASE st.initialized
    <3>1. st' \in StatStates /\ out' \in [ts : Nat, total : Nat] /\ h' \in Histories
      BY <1>7, <2>1, <2>2, ResetType, NewMinuteType DEF sim_finish
    <3> QED
      BY <1>7, <2>2, <3>1 DEF sim_finish, TypeOK
  <2>3. CASE ~st.initialized
    BY <1>7, <2>3 DEF sim_finish, TypeOK
  <2> QED
    BY <2>2, <2>3
<1>8. CASE Poll
  <2>1. clock.sec \in 1 .. MaxSec
    BY StampParts, Constants DEF TypeOK
  <2> QED
    BY <1>8, <2>1, EverySecondType DEF Poll, TypeOK
<1>9. CASE PollEnds
  BY <1>9 DEF PollEnds, TypeOK
<1>10. CASE Restart
  <2>1. h' \in Histories
    BY <1>10 DEF Restart, TypeOK, Histories
  <2> QED
    BY <1>10, <2>1, ZeroTypes DEF Restart, TypeOK
<1>11. ASSUME NEW s \in 1 .. MaxSec, SetClock(s)
       PROVE  TypeOK'
  <2>1. [sec |-> s, usec |-> 0] \in Stamps /\ s > 0
    BY Constants DEF Stamps
  <2> QED
    BY <1>11, <2>1 DEF SetClock, TypeOK
<1>12. CASE UNCHANGED vars
  BY <1>12 DEF vars, TypeOK
<1> QED
  BY <1>1, <1>2, <1>3, <1>4, <1>5, <1>6, <1>7, <1>8, <1>9, <1>10, <1>11, <1>12 DEF Next

-----------------------------------------------------------------------------
(***************************************************************************)
(* Time.  In a file in order the simulation's last_sec is in the second of *)
(* the packet in hand, so that every call of every_second, like every call *)
(* by main, is for a later second than the one before.                     *)
(***************************************************************************)
InTime == mode = "live" \/ seq.ordered

SlotInTime ==
  st.initialized =>
    /\ last.sec # 0
    /\ st.tlast_min <= last.sec /\ last.sec < st.tlast_min + Minute
    /\ st.sec_i <= last.sec - st.tlast_min
    /\ MinuteOf(out.ts) <= st.tlast_min

FileInTime ==
  mode = "file" =>
    /\ last.sec = 0 => seq.start = 0
    /\ last.sec # 0 => last.sec = clock.sec /\ last.usec <= clock.usec
    /\ ~st.initialized => seq.start \in {0, clock.sec}

ClockInv ==
  InTime =>
    /\ fault # "assert"
    /\ fault = "null_copy" => seq.start \in {0, clock.sec}
    /\ ~st.initialized => out.ts = 0
    /\ ~done => SlotInTime
    /\ FileInTime

(* The parts of st after the first half of every_second. *)
LEMMA SnapshotParts ==
  ASSUME TypeOK
  PROVE  /\ Snapshot.initialized = st.initialized /\ Snapshot.tlast_min = st.tlast_min
         /\ Snapshot.sec_i = st.sec_i + 1 /\ Snapshot.stats_last = ctr
         /\ Snapshot.last_min = st.last_min + Second("total")
         /\ \A f \in FlowTypes, k \in Slots :
              Snapshot.sec_flows[f][k] = IF k = st.sec_i THEN Second(f) ELSE st.sec_flows[f][k]
BY DEF TypeOK, StatStates, Snapshot

LEMMA MinuteOverExact ==
  ASSUME TypeOK, NEW ts \in 1 .. MaxSec, st.tlast_min <= ts
  PROVE  MinuteOver(ts) <=> ts - st.tlast_min >= Minute
<1>1. /\ ts - st.tlast_min \in Nat /\ ts - st.tlast_min < TimeWord
      /\ TimeWord \in Nat \ {0}
  BY Constants DEF TypeOK, StatStates
<1> QED
  BY <1>1, ModSmall DEF MinuteOver

(* A call for a later second than the last one. *)
LEMMA CallInTime ==
  ASSUME TypeOK, SlotInTime, ~st.initialized => out.ts = 0,
         NEW ts \in 1 .. MaxSec, last.sec < ts, every_second(ts)
  PROVE  /\ UNCHANGED fault /\ st'.initialized
         /\ st'.tlast_min <= ts /\ ts < st'.tlast_min + Minute
         /\ st'.sec_i <= ts - st'.tlast_min
         /\ MinuteOf(out'.ts) <= st'.tlast_min
         /\ out' # out => MinuteOf(out'.ts) > MinuteOf(out.ts)
<1>1. /\ ts \in Nat /\ Minute \in Nat /\ Minute > 1 /\ last.sec \in Nat
      /\ st.sec_i \in Nat /\ st.tlast_min \in Nat /\ out.ts \in Nat
  BY StampParts, Constants DEF TypeOK, StatStates
<1>2. /\ MinuteOf(ts) = ts - SecondOf(ts) /\ SecondOf(ts) \in Nat /\ MinuteOf(ts) \in Nat
      /\ MinuteOf(ts) <= ts /\ ts < MinuteOf(ts) + Minute
  BY <1>1, MinuteOfType
<1>3. CASE ~st.initialized
  <2>1. /\ st'.initialized /\ st'.tlast_min = MinuteOf(ts) /\ st'.sec_i = SecondOf(ts)
        /\ UNCHANGED <<out, fault>>
    BY <1>3 DEF every_second, InitState
  <2>2. MinuteOf(out.ts) = 0
    BY <1>1, <1>3, MinuteOfType
  <2> QED
    BY <1>1, <1>2, <2>1, <2>2
<1>4. CASE st.initialized
  <2>1. st.sec_i + 1 <= Minute /\ st.tlast_min <= ts
    BY <1>1, <1>4 DEF SlotInTime
  <2>2. CASE MinuteOver(ts)
    <3>1. ts - st.tlast_min >= Minute
      BY <2>1, <2>2, MinuteOverExact
    <3>2. /\ UNCHANGED fault /\ out' = Printed(Snapshot, ts) /\ st' = Reset(Snapshot, ts)
      BY <1>1, <1>4, <2>1, <2>2 DEF every_second
    <3>3. out'.ts = ts
      BY <3>2 DEF Printed
    <3>4. /\ st'.initialized /\ st'.tlast_min = MinuteOf(ts) /\ st'.sec_i = SecondOf(ts)
      BY <1>1, <1>4, <2>1, <3>2, ResetType, SnapshotType, SnapshotParts
    <3>5. MinuteOf(out.ts) \in Nat /\ MinuteOf(out.ts) <= st.tlast_min
      BY <1>1, <1>4, MinuteOfType DEF SlotInTime
    <3> QED
      BY <1>1, <1>2, <3>1, <3>2, <3>3, <3>4, <3>5
  <2>3. CASE ~MinuteOver(ts)
    <3>1. ts - st.tlast_min < Minute
      BY <1>1, <2>1, <2>3, MinuteOverExact
    <3>2. UNCHANGED <<fault, out>> /\ st' = Snapshot
      BY <1>1, <1>4, <2>1, <2>3 DEF every_second
    <3>3. st'.initialized /\ st'.tlast_min = st.tlast_min /\ st'.sec_i = st.sec_i + 1
      BY <1>4, <3>2, SnapshotParts
    <3> QED
      BY <1>1, <1>4, <2>1, <3>1, <3>2, <3>3 DEF SlotInTime
  <2> QED
    BY <2>2, <2>3
<1> QED
  BY <1>3, <1>4

(* What the simulation does with the next packet of a file in order. *)
FirstPacket(ts)  == last.sec = 0 /\ last' = ts /\ UNCHANGED <<st, out, fault, h>>
SameSecond(ts)   == last.sec # 0 /\ ts.sec = last.sec /\ last.usec <= ts.usec
                      /\ UNCHANGED <<last, st, out, fault, h>>
LaterSecond(ts)  == last.sec # 0 /\ last.sec < ts.sec /\ every_second(ts.sec) /\ last' = ts

LEMMA SimInTime ==
  ASSUME TypeOK, FileInTime, mode = "file", NEW ts \in Stamps,
         TLeq(clock, ts), ts.sec <= clock.sec + MaxGap, sim_before_packet(ts)
  PROVE  FirstPacket(ts) \/ SameSecond(ts) \/ LaterSecond(ts)
<1>1. /\ clock \in Stamps /\ last \in Stamps
      /\ clock.sec \in Nat /\ last.sec \in Nat /\ ts.sec \in Nat
      /\ clock.usec \in Nat /\ last.usec \in Nat /\ ts.usec \in Nat
  BY StampParts DEF TypeOK
<1>2. CASE last.sec = 0
  BY <1>2 DEF sim_before_packet, FirstPacket
<1>3. CASE last.sec # 0
  <2>1. last.sec = clock.sec /\ last.usec <= clock.usec
    BY <1>3 DEF FileInTime
  <2>2. CASE ts.sec = last.sec
    <3>1. last.usec <= ts.usec
      BY <1>1, <2>1, <2>2 DEF TLeq
    <3>2. tval_diff_ms(last, ts) < 1000
      BY <1>1, <2>2, <3>1, SameSecondIsNot
    <3>3. ~(tval_diff_ms(last, ts) >= 1000)
      <4> DEFINE d == (ts.usec - last.usec) \div 1000
      <4>1. tval_diff_ms(last, ts) = d % TimeWord /\ d \in Nat /\ TimeWord \in Nat \ {0}
        BY <1>1, <2>2, <3>1, Constants DEF tval_diff_ms
      <4> HIDE DEF d
      <4>2. d % TimeWord \in Nat
        BY <4>1, ModRange
      <4> QED
        BY <3>2, <4>1, <4>2
    <3> QED
      BY <1>3, <2>2, <3>1, <3>3 DEF sim_before_packet, SameSecond
  <2>3. CASE ts.sec # last.sec
    <3>1. last.sec < ts.sec
      BY <1>1, <2>1, <2>3 DEF TLeq
    <3>2. tval_diff_ms(last, ts) >= 1000
      BY <1>1, <2>1, <3>1, NewSecondIsSeen
    <3> QED
      BY <1>3, <3>1, <3>2 DEF sim_before_packet, LaterSecond
  <2> QED
    BY <2>2, <2>3
<1> QED
  BY <1>2, <1>3

LEMMA ClockStep ==
  ASSUME TypeOK, ClockInv, [Next]_vars
  PROVE  ClockInv'
<1> SUFFICES ASSUME InTime' PROVE ClockInv'
  BY DEF ClockInv
<1> USE DEF ClockInv
<1>1. ASSUME NEW ts \in Times, ReadPacket(ts)
      PROVE  ClockInv'
  <2>1. ts \in Stamps /\ ts.sec \in 1 .. MaxSec /\ ts.sec # 0 /\ ts.usec <= ts.usec
    BY StatClockAssumption DEF Times, Stamps
  <2>2. /\ InTime /\ TLeq(clock, ts) /\ mode = "file" /\ mode' = mode /\ fault = "none"
        /\ ~done /\ ~done' /\ clock' = ts /\ ts.sec <= clock.sec + MaxGap
        /\ sim_before_packet(ts)
        /\ seq'.start = IF seq.start = 0 THEN ts.sec ELSE seq.start
    BY <1>1 DEF ReadPacket, Running, InTime
  <2>3. SlotInTime /\ FileInTime /\ (~st.initialized => out.ts = 0)
    BY <2>2
  <2>4. CASE FirstPacket(ts)
    BY <2>1, <2>2, <2>3, <2>4 DEF FirstPacket, SlotInTime, FileInTime
  <2>5. CASE SameSecond(ts)
    BY <2>1, <2>2, <2>3, <2>5 DEF SameSecond, SlotInTime, FileInTime
  <2>6. CASE LaterSecond(ts)
    <3>1. /\ UNCHANGED fault /\ st'.initialized
          /\ st'.tlast_min <= ts.sec /\ ts.sec < st'.tlast_min + Minute
          /\ st'.sec_i <= ts.sec - st'.tlast_min
          /\ MinuteOf(out'.ts) <= st'.tlast_min
      BY <2>1, <2>3, <2>6, CallInTime DEF LaterSecond
    <3> QED
      BY <2>1, <2>2, <2>6, <3>1 DEF LaterSecond, SlotInTime, FileInTime, MinuteOf, SecondOf
  <2> QED
    BY <2>1, <2>2, <2>3, <2>4, <2>5, <2>6, SimInTime
<1>2. CASE LivePacket
  BY <1>2 DEF LivePacket, InTime, SlotInTime, FileInTime, MinuteOf, SecondOf
<1>3. CASE Return
  BY <1>3 DEF Return, InTime, SlotInTime, FileInTime, MinuteOf, SecondOf
<1>4. CASE shm_inc_global
  BY <1>4 DEF shm_inc_global, InTime, SlotInTime, FileInTime, MinuteOf, SecondOf
<1>5. CASE shm_inc_flow_stats
  BY <1>5 DEF shm_inc_flow_stats, InTime, SlotInTime, FileInTime, MinuteOf, SecondOf
<1>6. CASE sim_after_packet
  <2>1. /\ InTime /\ fault = "none" /\ ~done /\ UNCHANGED <<mode, clock, done, seq>>
    BY <1>6 DEF sim_after_packet, Running, InTime
  <2>2. CASE mode = "file"
    <3>1. SlotInTime /\ FileInTime /\ (~st.initialized => out.ts = 0)
      BY <2>1
    <3>2. /\ clock \in Stamps /\ clock.sec \in Nat /\ clock.usec \in Nat /\ clock.sec # 0
      BY StampParts DEF TypeOK
    <3>3. TLeq(clock, clock) /\ clock.sec <= clock.sec + MaxGap
      BY <3>2, Constants DEF TLeq
    <3>4. FirstPacket(clock) \/ SameSecond(clock) \/ LaterSecond(clock)
      BY <1>6, <2>2, <3>1, <3>2, <3>3, SimInTime DEF sim_after_packet
    <3>5. ~LaterSecond(clock)
      BY <2>2, <3>1, <3>2 DEF LaterSecond, FileInTime
    <3> QED
      BY <2>1, <2>2, <3>1, <3>2, <3>4, <3>5
         DEF FirstPacket, SameSecond, SlotInTime, FileInTime, MinuteOf, SecondOf
  <2>3. CASE mode # "file"
    BY <1>6, <2>1, <2>3 DEF sim_after_packet, SlotInTime, FileInTime, MinuteOf, SecondOf
  <2> QED
    BY <2>2, <2>3
<1>7. CASE sim_finish
  <2>1. /\ InTime /\ fault = "none" /\ mode = "file" /\ done' /\ FileInTime
        /\ UNCHANGED <<mode, clock, last, seq>>
    BY <1>7 DEF sim_finish, Running, InTime
  <2>2. CASE st.initialized
    <3>1. st' = Reset(st, st.tlast_min + Minute) /\ UNCHANGED fault
      BY <1>7, <2>2 DEF sim_finish
    <3>2. st \in StatStates /\ st.tlast_min + Minute \in Nat
      BY Constants DEF TypeOK, StatStates
    <3>3. st'.initialized
      BY <2>2, <3>1, <3>2, ResetType
    <3> QED
      BY <2>1, <3>1, <3>3 DEF FileInTime
  <2>3. CASE ~st.initialized
    BY <1>7, <2>1, <2>3 DEF sim_finish, FileInTime
  <2> QED
    BY <2>2, <2>3
<1>8. CASE Poll
  <2>1. /\ InTime /\ fault = "none" /\ mode = "live" /\ ~done /\ last' = clock
        /\ UNCHANGED <<mode, clock, done, seq>>
    BY <1>8 DEF Poll, Running, InTime
  <2>2. SlotInTime /\ (~st.initialized => out.ts = 0)
    BY <2>1
  <2>3. CASE last.sec = 0
    BY <1>8, <2>1, <2>2, <2>3 DEF Poll, SlotInTime, FileInTime
  <2>4. CASE last.sec # 0
    <3>1. /\ every_second(clock.sec) /\ clock.sec - last.sec >= 1
      BY <1>8, <2>4 DEF Poll
    <3>2. clock.sec \in 1 .. MaxSec /\ last.sec < clock.sec /\ clock.sec # 0
      BY <3>1, StampParts, Constants DEF TypeOK
    <3>3. /\ UNCHANGED fault /\ st'.initialized
          /\ st'.tlast_min <= clock.sec /\ clock.sec < st'.tlast_min + Minute
          /\ st'.sec_i <= clock.sec - st'.tlast_min
          /\ MinuteOf(out'.ts) <= st'.tlast_min
      BY <2>2, <3>1, <3>2, CallInTime
    <3> QED
      BY <2>1, <3>2, <3>3 DEF SlotInTime, FileInTime, MinuteOf, SecondOf
  <2> QED
    BY <2>3, <2>4
<1>9. CASE PollEnds
  BY <1>9 DEF PollEnds, InTime, FileInTime
<1>10. CASE Restart
  BY <1>10 DEF Restart, InTime, SlotInTime, FileInTime, MinuteOf, SecondOf
<1>11. ASSUME NEW s \in 1 .. MaxSec, SetClock(s)
       PROVE  ClockInv'
  BY <1>11 DEF SetClock, Running, InTime, SlotInTime, FileInTime, MinuteOf, SecondOf
<1>12. CASE UNCHANGED vars
  BY <1>12 DEF vars, InTime, SlotInTime, FileInTime, MinuteOf, SecondOf
<1> QED
  BY <1>1, <1>2, <1>3, <1>4, <1>5, <1>6, <1>7, <1>8, <1>9, <1>10, <1>11, <1>12 DEF Next

-----------------------------------------------------------------------------
(***************************************************************************)
(* Totals.  A counter is the last snapshot's value plus the packets since, *)
(* modulo the word, unless the capture was restarted since; the packets of *)
(* the minute are the sum of the differences, short of one per wrap.       *)
(***************************************************************************)
CountersAdd ==
  st.initialized /\ ~done /\ ~h.dirty =>
    \A f \in FlowTypes :
      ctr[f] \in {st.stats_last[f] + h.fresh[f], st.stats_last[f] + h.fresh[f] - CtrWord}

TotalInv ==
  /\ ~st.initialized => st.last_min = 0
  /\ CountersAdd
  /\ h.exact => h.unreported - h.wraps <= st.last_min /\ st.last_min <= h.unreported

LEMMA CountParts ==
  ASSUME TypeOK, NEW f \in FlowTypes
  PROVE  /\ ctr[f] \in 0 .. CtrWord - 1 /\ st.stats_last[f] \in 0 .. CtrWord - 1
         /\ h.fresh[f] \in 0 .. CtrWord - 1
BY DEF TypeOK, StatStates, Histories, Counters

(* A second's difference is the number of its packets, or one less. *)
LEMMA SecondExact ==
  ASSUME TypeOK, CountersAdd, st.initialized, ~done, ~h.dirty, NEW f \in FlowTypes
  PROVE  Second(f) = IF ctr[f] < st.stats_last[f] THEN h.fresh[f] - 1 ELSE h.fresh[f]
BY CountParts, DiffExact DEF CountersAdd, Second

LEMMA SecondTotal ==
  ASSUME TypeOK, CountersAdd, st.initialized, ~done, ~h.dirty
  PROVE  Second("total") = h.fresh["total"] - Passed /\ Passed \in {0, 1}
BY CountParts, SecondExact DEF FlowTypes, Passed

LEMMA CallTotal ==
  ASSUME TypeOK, TotalInv, ~done, UNCHANGED <<ctr, done>>, NEW ts \in 1 .. MaxSec,
         every_second(ts)
  PROVE  /\ TotalInv'
         /\ TotalIsExact
<1> ts \in Nat
  BY Constants
<1>1. /\ st.last_min \in Nat /\ h.unreported \in Nat /\ h.wraps \in Nat
      /\ h.fresh["total"] \in Nat /\ Passed \in {0, 1} /\ st.sec_i \in Nat
      /\ Second("total") \in Nat
  BY CountParts, SecondType, Constants DEF TypeOK, StatStates, Histories, FlowTypes, Passed
<1>2. \A f \in FlowTypes : ctr[f] = ctr[f] + Zero[f]
  BY CountParts DEF Zero
<1>3. CASE ~st.initialized
  <2>1. /\ st'.initialized /\ st'.stats_last = ctr /\ st'.last_min = st.last_min
        /\ h'.fresh = Zero /\ h'.unreported = 0 /\ h'.wraps = 0 /\ UNCHANGED out
    BY <1>3 DEF every_second, InitState, NewMinute
  <2> QED
    BY <1>2, <1>3, <2>1 DEF TotalInv, CountersAdd, TotalIsExact
<1>4. CASE st.initialized /\ st.sec_i + 1 > Minute
  BY <1>4 DEF every_second, TotalInv, CountersAdd, TotalIsExact
<1>5. CASE st.initialized /\ ~(st.sec_i + 1 > Minute) /\ MinuteOver(ts)
  <2>1. /\ out' = Printed(Snapshot, ts) /\ st' = Reset(Snapshot, ts) /\ h' = NewMinute(ts)
    BY <1>5 DEF every_second
  <2>2. Snapshot \in StatStates
    BY <1>1, <1>5, SnapshotType, Constants
  <2>3. /\ st'.initialized /\ st'.stats_last = ctr /\ st'.last_min = 0
        /\ h'.fresh = Zero /\ h'.unreported = 0 /\ h'.wraps = 0
    BY <1>5, <2>1, <2>2, ResetType, SnapshotParts DEF NewMinute
  <2>4. TotalInv'
    BY <1>2, <2>3 DEF TotalInv, CountersAdd
  <2>5. out'.total = st.last_min + Second("total")
    BY <2>1, SnapshotParts DEF Printed
  <2>6. ASSUME h.exact, ~h.dirty
        PROVE  out'.total \in PacketsDue - h.wraps - Passed .. PacketsDue
    <3>1. Second("total") = h.fresh["total"] - Passed
      BY <1>5, <2>6, SecondTotal DEF TotalInv
    <3> QED
      BY <1>1, <2>5, <2>6, <3>1 DEF TotalInv, PacketsDue
  <2> QED
    BY <2>4, <2>6 DEF TotalIsExact
<1>6. CASE st.initialized /\ ~(st.sec_i + 1 > Minute) /\ ~MinuteOver(ts)
  <2>1. st' = Snapshot /\ h' = NewSecond(ts) /\ UNCHANGED out
    BY <1>6 DEF every_second
  <2>2. /\ st'.initialized /\ st'.stats_last = ctr /\ st'.last_min = st.last_min + Second("total")
    BY <1>6, <2>1, SnapshotParts
  <2>3. /\ h'.fresh = Zero /\ h'.unreported = h.unreported + h.fresh["total"]
        /\ h'.wraps = h.wraps + Passed /\ h'.exact = (h.exact /\ ~h.dirty)
    BY <2>1 DEF NewSecond, TypeOK, Histories
  <2>4. ASSUME h'.exact
        PROVE  h'.unreported - h'.wraps <= st'.last_min /\ st'.last_min <= h'.unreported
    <3>1. Second("total") = h.fresh["total"] - Passed /\ h.exact
      BY <1>6, <2>3, <2>4, SecondTotal DEF TotalInv
    <3> QED
      BY <1>1, <2>2, <2>3, <3>1 DEF TotalInv
  <2>5. CountersAdd'
    BY <1>2, <2>2, <2>3 DEF CountersAdd
  <2>6. TotalInv'
    BY <2>2, <2>4, <2>5 DEF TotalInv
  <2> QED
    BY <2>1, <2>6 DEF TotalIsExact
<1> QED
  BY <1>3, <1>4, <1>5, <1>6

LEMMA CountTotal ==
  ASSUME TypeOK, TotalInv, NEW f \in FlowTypes, Count(f), UNCHANGED <<st, done>>
  PROVE  TotalInv'
<1>1. /\ h'.dirty = h.dirty /\ h'.exact = h.exact
      /\ h'.unreported = h.unreported /\ h'.wraps = h.wraps
      /\ h'.fresh = [h.fresh EXCEPT ![f] = @ + 1]
  BY DEF Count, TypeOK, Histories
<1>2. ctr'[f] = IF ctr[f] + 1 = CtrWord THEN 0 ELSE ctr[f] + 1
  <2>1. ctr[f] \in 0 .. CtrWord - 1 /\ CtrWord \in Nat \ {0}
    BY CountParts, Constants
  <2>2. ctr'[f] = (ctr[f] + 1) % CtrWord
    BY DEF Count, TypeOK, Counters
  <2> QED
    BY <2>1, <2>2, IncMod
<1>3. \A g \in FlowTypes : g # f => ctr'[g] = ctr[g] /\ h'.fresh[g] = h.fresh[g]
  BY <1>1 DEF Count, TypeOK, Counters, Histories
<1>4. h'.fresh[f] = h.fresh[f] + 1 /\ h.fresh[f] < CtrWord - 1
  BY <1>1 DEF Count, TypeOK, Counters, Histories
<1>5. ASSUME st.initialized, ~done, ~h.dirty, NEW g \in FlowTypes
      PROVE  ctr'[g] \in {st.stats_last[g] + h'.fresh[g], st.stats_last[g] + h'.fresh[g] - CtrWord}
  <2>1. ctr[g] \in {st.stats_last[g] + h.fresh[g], st.stats_last[g] + h.fresh[g] - CtrWord}
    BY <1>5 DEF TotalInv, CountersAdd
  <2>2. CASE g = f
    BY <1>2, <1>4, <2>1, <2>2, CountParts, Constants
  <2>3. CASE g # f
    BY <1>3, <2>1, <2>3
  <2> QED
    BY <2>2, <2>3
<1> QED
  BY <1>1, <1>5 DEF TotalInv, CountersAdd

LEMMA SimTotal ==
  ASSUME TypeOK, TotalInv, ~done, UNCHANGED <<ctr, done>>, NEW ts \in Stamps, ts.sec > 0,
         sim_before_packet(ts)
  PROVE  TotalInv' /\ TotalIsExact
<1>1. ts.sec \in 1 .. MaxSec
  BY StampParts, Constants
<1>2. CASE last.sec # 0 /\ tval_diff_ms(last, ts) >= 1000
  <2>1. every_second(ts.sec)
    BY <1>2 DEF sim_before_packet
  <2> QED
    BY <1>1, <2>1, CallTotal
<1>3. CASE last.sec = 0 \/ ~(tval_diff_ms(last, ts) >= 1000)
  <2>1. UNCHANGED <<st, out, h>>
    BY <1>3 DEF sim_before_packet
  <2> QED
    BY <2>1 DEF TotalInv, CountersAdd, TotalIsExact
<1> QED
  BY <1>2, <1>3

LEMMA TotalStep ==
  ASSUME TypeOK, TotalInv, [Next]_vars
  PROVE  TotalInv' /\ TotalIsExact
<1>1. ASSUME NEW ts \in Times, ReadPacket(ts)
      PROVE  TotalInv' /\ TotalIsExact
  <2>1. ts \in Stamps /\ ts.sec > 0
    BY StatClockAssumption DEF Times, Stamps
  <2>2. ~done /\ UNCHANGED <<ctr, done>> /\ sim_before_packet(ts)
    BY <1>1 DEF ReadPacket, Running
  <2> QED
    BY <2>1, <2>2, SimTotal
<1>2. CASE LivePacket
  BY <1>2 DEF LivePacket, TotalInv, CountersAdd, TotalIsExact
<1>3. CASE Return
  BY <1>3 DEF Return, TotalInv, CountersAdd, TotalIsExact
<1>4. CASE shm_inc_global
  BY <1>4, CountTotal DEF shm_inc_global, FlowTypes, TotalIsExact
<1>5. CASE shm_inc_flow_stats
  BY <1>5, CountTotal DEF shm_inc_flow_stats, FlowTypes, TotalIsExact
<1>6. CASE sim_after_packet
  <2>1. ~done /\ UNCHANGED <<ctr, done>> /\ clock \in Stamps /\ clock.sec > 0
    BY <1>6 DEF sim_after_packet, Running, TypeOK
  <2>2. CASE mode = "file"
    BY <1>6, <2>1, <2>2, SimTotal DEF sim_after_packet
  <2>3. CASE mode # "file"
    BY <1>6, <2>3 DEF sim_after_packet, TotalInv, CountersAdd, TotalIsExact
  <2> QED
    BY <2>2, <2>3
<1>7. CASE sim_finish
  <2>1. CASE st.initialized
    <3>1. /\ st \in StatStates /\ st.tlast_min + Minute \in Nat /\ done'
          /\ out' = Printed(st, st.tlast_min + Minute) /\ st' = Reset(st, st.tlast_min + Minute)
          /\ h' = NewMinute(st.tlast_min + Minute)
      BY <1>7, <2>1, Constants DEF sim_finish, TypeOK, StatStates
    <3>2. /\ st'.initialized /\ st'.last_min = 0 /\ h'.unreported = 0 /\ h'.wraps = 0
          /\ out'.total = st.last_min
      BY <2>1, <3>1, ResetType DEF NewMinute, Printed
    <3>3. TotalInv'
      BY <3>1, <3>2 DEF TotalInv, CountersAdd
    <3>4. ASSUME h.exact
          PROVE  out'.total \in h.unreported - h.wraps - Passed .. h.unreported
      BY <3>2, <3>4 DEF TotalInv, TypeOK, StatStates, Histories, Passed
    <3>5. PacketsDue = h.unreported
      BY <3>1 DEF PacketsDue, TypeOK, Histories
    <3> QED
      BY <3>3, <3>4, <3>5 DEF TotalIsExact
  <2>2. CASE ~st.initialized
    BY <1>7, <2>2 DEF sim_finish, TotalInv, CountersAdd, TotalIsExact
  <2> QED
    BY <2>1, <2>2
<1>8. CASE Poll
  <2>1. ~done /\ UNCHANGED <<ctr, done>> /\ clock.sec \in 1 .. MaxSec
    BY <1>8, StampParts, Constants DEF Poll, Running, TypeOK
  <2>2. CASE last.sec = 0
    BY <1>8, <2>2 DEF Poll, TotalInv, CountersAdd, TotalIsExact
  <2>3. CASE last.sec # 0
    BY <1>8, <2>1, <2>3, CallTotal DEF Poll, TotalIsExact
  <2> QED
    BY <2>2, <2>3
<1>9. CASE PollEnds
  BY <1>9 DEF PollEnds, TotalInv, CountersAdd, TotalIsExact
<1>10. CASE Restart
  <2>1. /\ h'.dirty /\ h'.exact = h.exact /\ h'.unreported = h.unreported
        /\ h'.wraps = h.wraps /\ UNCHANGED <<st, out>>
    BY <1>10 DEF Restart, TypeOK, Histories
  <2> QED
    BY <2>1 DEF TotalInv, CountersAdd, TotalIsExact
<1>11. ASSUME NEW s \in 1 .. MaxSec, SetClock(s)
       PROVE  TotalInv' /\ TotalIsExact
  BY <1>11 DEF SetClock, TotalInv, CountersAdd, TotalIsExact
<1>12. CASE UNCHANGED vars
  BY <1>12 DEF vars, TotalInv, CountersAdd, TotalIsExact
<1> QED
  BY <1>1, <1>2, <1>3, <1>4, <1>5, <1>6, <1>7, <1>8, <1>9, <1>10, <1>11, <1>12 DEF Next

LEMMA MinuteStep ==
  ASSUME TypeOK, ClockInv, [Next]_vars
  PROVE  InNewMinute
<1> SUFFICES ASSUME out' # out, seq'.ordered
             PROVE  MinuteOf(out'.ts) > MinuteOf(out.ts)
  BY DEF InNewMinute
<1>1. ASSUME NEW ts \in Times, ReadPacket(ts)
      PROVE  MinuteOf(out'.ts) > MinuteOf(out.ts)
  <2>1. ts \in Stamps /\ ts.sec \in 1 .. MaxSec
    BY StatClockAssumption DEF Times, Stamps
  <2>2. /\ TLeq(clock, ts) /\ mode = "file" /\ ts.sec <= clock.sec + MaxGap
        /\ sim_before_packet(ts) /\ InTime /\ ~done
    BY <1>1 DEF ReadPacket, Running, InTime
  <2>3. FileInTime /\ SlotInTime /\ (~st.initialized => out.ts = 0)
    BY <2>2 DEF ClockInv
  <2>4. LaterSecond(ts)
    BY <2>1, <2>2, <2>3, SimInTime DEF FirstPacket, SameSecond
  <2> QED
    BY <2>1, <2>3, <2>4, CallInTime DEF LaterSecond
<1>2. CASE sim_after_packet
  <2>1. mode = "file" /\ InTime /\ ~done /\ sim_before_packet(clock)
    BY <1>2 DEF sim_after_packet, Running, InTime
  <2>2. /\ clock \in Stamps /\ clock.sec \in 1 .. MaxSec /\ TLeq(clock, clock)
        /\ clock.sec <= clock.sec + MaxGap
    BY StampParts, Constants DEF TypeOK, TLeq
  <2>3. FileInTime /\ SlotInTime /\ (~st.initialized => out.ts = 0)
    BY <2>1 DEF ClockInv
  <2>4. LaterSecond(clock)
    BY <2>1, <2>2, <2>3, SimInTime DEF FirstPacket, SameSecond
  <2> QED
    BY <2>2, <2>3, <2>4, CallInTime DEF LaterSecond
<1>3. CASE sim_finish
  <2>1. st.initialized /\ out'.ts = st.tlast_min + Minute /\ ~done /\ InTime
    BY <1>3 DEF sim_finish, Printed, Running, InTime
  <2>2. st.tlast_min \in Nat /\ Minute \in Nat /\ out.ts \in Nat
    BY Constants DEF TypeOK, StatStates
  <2>3. MinuteOf(out.ts) <= st.tlast_min
    BY <2>1 DEF ClockInv, SlotInTime
  <2>4. out'.ts < MinuteOf(out'.ts) + Minute /\ MinuteOf(out'.ts) \in Nat /\ MinuteOf(out.ts) \in Nat
    BY <2>1, <2>2, MinuteOfType
  <2> QED
    BY <2>1, <2>2, <2>3, <2>4
<1>4. CASE Poll
  <2>1. every_second(clock.sec) /\ clock.sec - last.sec >= 1 /\ InTime /\ ~done
    BY <1>4 DEF Poll, Running, InTime
  <2>2. clock.sec \in 1 .. MaxSec /\ last.sec < clock.sec
    BY <2>1, StampParts, Constants DEF TypeOK
  <2>3. SlotInTime /\ (~st.initialized => out.ts = 0)
    BY <2>1 DEF ClockInv
  <2> QED
    BY <2>1, <2>2, <2>3, CallInTime
<1> QED
  BY <1>1, <1>2, <1>3, <1>4
     DEF Next, LivePacket, Return, shm_inc_global, shm_inc_flow_stats, PollEnds, Restart,
         SetClock, vars

-----------------------------------------------------------------------------
(***************************************************************************)
(* Slots.  While no second of the minute was silent, sec_i is the second   *)
(* of the packet in hand, the packets since the snapshot are those of that *)
(* second, and the slots before it are done.                               *)
(***************************************************************************)
SlotFacts ==
  /\ st.sec_i = SecondOf(clock.sec) /\ st.tlast_min = MinuteOf(clock.sec)
  /\ h.first <= st.sec_i
  /\ \A f \in FlowTypes : h.fresh[f] = h.seen[f][st.sec_i]
  /\ \A f \in FlowTypes, k \in Slots : k > st.sec_i => h.seen[f][k] = 0
  /\ \A f \in FlowTypes, k \in Slots : h.first <= k /\ k < st.sec_i =>
       st.sec_flows[f][k] \in h.seen[f][k] - 1 .. h.seen[f][k]

SlotInv ==
  mode = "file" =>
    /\ ~h.dirty
    /\ seq.ordered /\ st.initialized /\ ~h.gap /\ ~done => SlotFacts

(* A call for a later second, in a file in order. *)
LEMMA CallSlots ==
  ASSUME TypeOK, SlotInTime, TotalInv, mode = "file", ~h.dirty, ~done, ~done',
         last.sec = clock.sec, clock' \in Stamps, clock'.sec > last.sec,
         st.initialized /\ ~h.gap => SlotFacts,
         every_second(clock'.sec)
  PROVE  /\ ~h'.dirty /\ (~h'.gap => SlotFacts')
         /\ out' # out /\ ~h.gap /\ clock'.sec = clock.sec + 1 =>
              \A f \in FlowTypes, k \in h.first .. Minute - 1 :
                st'.sec_flows[f][k] \in h.seen[f][k] - 1 .. h.seen[f][k]
<1> DEFINE ts == clock'.sec
<1>1. /\ ts \in Nat /\ ts \in 1 .. MaxSec /\ last.sec \in Nat /\ Minute \in Nat /\ Minute > 1
      /\ st.sec_i \in Nat /\ st.sec_i \in Slots /\ st.tlast_min \in Nat /\ h.first \in Nat
  BY StampParts, Constants DEF TypeOK, StatStates, Histories, Slots
<1> HIDE DEF ts
<1>2. every_second(ts)
  BY DEF ts
<1>3. /\ SecondOf(ts) \in Slots /\ SecondOf(ts) \in Nat
  BY <1>1, MinuteOfType DEF Slots
<1>4. \A f \in FlowTypes : Zero[f] = 0 /\ \A k \in Slots : ZeroSlots[f][k] = 0
  BY DEF Zero, ZeroSlots
<1>5. ASSUME h' = NewMinute(ts), st'.sec_i = SecondOf(ts), st'.tlast_min = MinuteOf(ts)
      PROVE  ~h'.dirty /\ SlotFacts'
  <2>1. /\ h'.fresh = Zero /\ h'.seen = ZeroSlots /\ h'.first = SecondOf(ts) /\ ~h'.dirty
    BY <1>5 DEF NewMinute
  <2>3. \A k \in Slots : ~(SecondOf(ts) <= k /\ k < SecondOf(ts))
    BY <1>1, <1>3 DEF Slots
  <2> QED
    BY <1>3, <1>4, <1>5, <2>1, <2>3 DEF SlotFacts, SecondOf, MinuteOf, ts
<1>6. CASE ~st.initialized
  <2>1. /\ h' = NewMinute(ts) /\ st'.sec_i = SecondOf(ts) /\ st'.tlast_min = MinuteOf(ts)
        /\ UNCHANGED out
    BY <1>2, <1>6 DEF every_second, InitState
  <2> QED
    BY <1>5, <2>1
<1>7. CASE st.initialized
  <2>1. /\ st.tlast_min <= last.sec /\ st.sec_i + 1 <= Minute /\ ~(st.sec_i + 1 > Minute)
        /\ st.tlast_min <= ts
    BY <1>1, <1>7 DEF SlotInTime, ts
  <2>2. \A f \in FlowTypes : Second(f) \in h.fresh[f] - 1 .. h.fresh[f]
    BY <1>7, SecondExact, CountParts DEF TotalInv
  <2>3. Snapshot \in StatStates
    BY <2>1, SnapshotType
  <2>4. ASSUME ~h.gap, NEW f \in FlowTypes, NEW k \in Slots, h.first <= k, k < st.sec_i + 1
        PROVE  Snapshot.sec_flows[f][k] \in h.seen[f][k] - 1 .. h.seen[f][k]
    <3>1. CASE k = st.sec_i
      BY <1>7, <2>2, <2>4, <3>1, SnapshotParts DEF SlotFacts
    <3>2. CASE k # st.sec_i
      <4>1. k < st.sec_i
        BY <1>1, <2>4, <3>2, Constants DEF Slots
      <4> QED
        BY <1>7, <2>4, <3>2, <4>1, SnapshotParts DEF SlotFacts
    <3> QED
      BY <3>1, <3>2
  <2>5. CASE MinuteOver(ts)
    <3>1. /\ h' = NewMinute(ts) /\ st' = Reset(Snapshot, ts) /\ out' = Printed(Snapshot, ts)
      BY <1>2, <1>7, <2>1, <2>5 DEF every_second
    <3>2. /\ st'.sec_i = SecondOf(ts) /\ st'.tlast_min = MinuteOf(ts)
          /\ st'.sec_flows = Snapshot.sec_flows
      BY <1>1, <2>3, <3>1, ResetType
    <3>3. ASSUME ~h.gap, clock'.sec = clock.sec + 1,
                 NEW f \in FlowTypes, NEW k \in h.first .. Minute - 1
          PROVE  st'.sec_flows[f][k] \in h.seen[f][k] - 1 .. h.seen[f][k]
      <4>1. ts - st.tlast_min >= Minute
        BY <1>1, <2>1, <2>5, MinuteOverExact
      <4>2. st.sec_i = SecondOf(clock.sec) /\ st.tlast_min = clock.sec - SecondOf(clock.sec)
        BY <1>1, <1>7, <3>3 DEF SlotFacts, MinuteOf
      <4>3. k \in Slots /\ h.first <= k /\ k < st.sec_i + 1
        BY <1>1, <3>3, <4>1, <4>2 DEF Slots, ts
      <4> QED
        BY <2>4, <3>2, <3>3, <4>3
    <3> QED
      BY <1>5, <3>1, <3>2, <3>3
  <2>6. CASE ~MinuteOver(ts)
    <3>1. h' = NewSecond(ts) /\ st' = Snapshot /\ UNCHANGED out
      BY <1>2, <1>7, <2>1, <2>6 DEF every_second
    <3>2. /\ h'.fresh = Zero /\ h'.seen = h.seen /\ h'.first = h.first /\ ~h'.dirty
          /\ h'.gap = (h.gap \/ ts # last.sec + 1)
      BY <3>1 DEF NewSecond, TypeOK, Histories
    <3>3. ASSUME ~h'.gap
          PROVE  SlotFacts'
      <4>1. ~h.gap /\ ts = clock.sec + 1 /\ SlotFacts
        BY <1>7, <3>2, <3>3
      <4>2. ts - st.tlast_min < Minute
        BY <1>1, <2>1, <2>6, MinuteOverExact
      <4>3. st.sec_i = SecondOf(clock.sec) /\ st.tlast_min = clock.sec - SecondOf(clock.sec)
        BY <4>1 DEF SlotFacts, MinuteOf
      <4>4. SecondOf(ts) = st.sec_i + 1
        <5>1. clock.sec \in Nat /\ Minute \in Nat \ {0} /\ SecondOf(clock.sec) + 1 < Minute
          BY <1>1, <4>1, <4>2, <4>3
        <5> QED
          BY <4>1, <4>3, <5>1, ModSucc DEF SecondOf
      <4>5. MinuteOf(ts) = st.tlast_min
        BY <1>1, <4>1, <4>3, <4>4 DEF MinuteOf
      <4>6. /\ st'.sec_i = st.sec_i + 1 /\ st'.tlast_min = st.tlast_min
            /\ st'.sec_flows = Snapshot.sec_flows
        BY <3>1, SnapshotParts
      <4>7. st.sec_i + 1 \in Slots /\ h.first <= st.sec_i + 1
        BY <1>1, <2>1, <4>1 DEF Slots, SlotFacts
      <4>8. \A f \in FlowTypes : h'.fresh[f] = h'.seen[f][st'.sec_i]
        BY <1>1, <1>4, <3>2, <4>1, <4>6, <4>7 DEF SlotFacts
      <4>9. \A f \in FlowTypes, k \in Slots : k > st'.sec_i => h'.seen[f][k] = 0
        BY <1>1, <3>2, <4>1, <4>6 DEF SlotFacts, Slots
      <4>10. \A f \in FlowTypes, k \in Slots : h'.first <= k /\ k < st'.sec_i =>
               st'.sec_flows[f][k] \in h'.seen[f][k] - 1 .. h'.seen[f][k]
        BY <2>4, <3>2, <4>1, <4>6
      <4> QED
        BY <3>2, <4>4, <4>5, <4>6, <4>7, <4>8, <4>9, <4>10 DEF SlotFacts, ts, SecondOf, MinuteOf
    <3> QED
      BY <3>1, <3>2, <3>3
  <2> QED
    BY <2>5, <2>6
<1> QED
  BY <1>6, <1>7

(* The next packet of a file in order. *)
LEMMA SimSlots ==
  ASSUME TypeOK, ClockInv, TotalInv, SlotInv, mode = "file", seq.ordered, ~done, ~done',
         clock' \in Stamps, clock'.sec \in 1 .. MaxSec, TLeq(clock, clock'),
         clock'.sec <= clock.sec + MaxGap, sim_before_packet(clock')
  PROVE  ~h'.dirty /\ (st'.initialized /\ ~h'.gap => SlotFacts') /\ (mode' = mode => SlotsExact)
<1>1. FileInTime /\ SlotInTime
  BY DEF ClockInv, InTime
<1>2. ~h.dirty /\ (st.initialized /\ ~h.gap => SlotFacts)
  BY DEF SlotInv
<1>3. CASE FirstPacket(clock')
  <2>1. ~st.initialized /\ UNCHANGED <<st, h, out>>
    BY <1>1, <1>3 DEF FirstPacket, SlotInTime
  <2> QED
    BY <1>2, <2>1 DEF SlotsExact
<1>4. CASE SameSecond(clock')
  <2>1. clock'.sec = clock.sec /\ UNCHANGED <<st, h, out>>
    BY <1>1, <1>4 DEF SameSecond, FileInTime
  <2> QED
    BY <1>2, <2>1 DEF SlotsExact, SlotFacts
<1>5. CASE LaterSecond(clock')
  <2>1. /\ last.sec = clock.sec /\ clock'.sec > last.sec /\ every_second(clock'.sec)
    BY <1>1, <1>5, StampParts DEF LaterSecond, FileInTime, TypeOK
  <2>2. /\ ~h'.dirty /\ (~h'.gap => SlotFacts')
        /\ out' # out /\ ~h.gap /\ clock'.sec = clock.sec + 1 =>
              \A f \in FlowTypes, k \in h.first .. Minute - 1 :
                st'.sec_flows[f][k] \in h.seen[f][k] - 1 .. h.seen[f][k]
    BY <1>1, <1>2, <2>1, CallSlots
  <2> QED
    BY <2>2 DEF SlotsExact
<1> QED
  BY <1>1, <1>3, <1>4, <1>5, SimInTime

LEMMA SimClean ==
  ASSUME NEW ts, sim_before_packet(ts), TypeOK, ~h.dirty
  PROVE  ~h'.dirty
<1>1. h' = h \/ h' = NewMinute(ts.sec) \/ h' = NewSecond(ts.sec)
  BY DEF sim_before_packet, every_second
<1>2. ~NewMinute(ts.sec).dirty
  BY DEF NewMinute
<1>3. NewSecond(ts.sec).dirty = FALSE
  BY DEF NewSecond, TypeOK, Histories
<1> QED
  BY <1>1, <1>2, <1>3

LEMMA CountSlots ==
  ASSUME TypeOK, SlotInv, mode = "file", ~done, NEW f \in FlowTypes, Count(f),
         UNCHANGED <<mode, st, done, clock, seq, out>>
  PROVE  SlotInv' /\ SlotsExact
<1>1. /\ h'.dirty = h.dirty /\ h'.gap = h.gap /\ h'.first = h.first
      /\ h'.fresh = [h.fresh EXCEPT ![f] = @ + 1]
      /\ h'.seen = [h.seen EXCEPT ![f][SecondOf(clock.sec)] =
                                    IF mode = "file" /\ ~h.gap THEN @ + 1 ELSE @]
  BY DEF Count, TypeOK, Histories
<1>2. ASSUME seq.ordered, st.initialized, ~h.gap
      PROVE  SlotFacts'
  <2>1. SlotFacts /\ st.sec_i = SecondOf(clock.sec) /\ st.sec_i \in Nat /\ st.sec_i \in Slots
    BY <1>2 DEF SlotInv, SlotFacts, TypeOK, StatStates, Slots
  <2>2. \A g \in FlowTypes, k \in Slots :
          h'.seen[g][k] = IF g = f /\ k = st.sec_i THEN h.seen[g][k] + 1 ELSE h.seen[g][k]
    <3>1. h.seen \in [FlowTypes -> [Slots -> Nat]]
      BY DEF TypeOK, Histories
    <3>2. h'.seen = [h.seen EXCEPT ![f][st.sec_i] = @ + 1]
      BY <1>1, <1>2, <2>1
    <3> QED
      BY <2>1, <3>1, <3>2
  <2>3. \A g \in FlowTypes : h'.fresh[g] = IF g = f THEN h.fresh[g] + 1 ELSE h.fresh[g]
    BY <1>1 DEF TypeOK, Histories, Counters
  <2>4. \A g \in FlowTypes : h'.fresh[g] = h'.seen[g][st.sec_i]
    BY <2>1, <2>2, <2>3 DEF SlotFacts
  <2>5. \A g \in FlowTypes, k \in Slots : k > st.sec_i => h'.seen[g][k] = 0
    BY <2>1, <2>2, Constants DEF SlotFacts, Slots
  <2>6. \A g \in FlowTypes, k \in Slots : h.first <= k /\ k < st.sec_i =>
          st.sec_flows[g][k] \in h'.seen[g][k] - 1 .. h'.seen[g][k]
    BY <2>1, <2>2, Constants DEF SlotFacts, Slots
  <2> QED
    BY <1>1, <2>1, <2>4, <2>5, <2>6 DEF SlotFacts
<1> QED
  BY <1>1, <1>2 DEF SlotInv, SlotsExact

LEMMA SlotStep ==
  ASSUME TypeOK, ClockInv, TotalInv, SlotInv, [Next]_vars
  PROVE  SlotInv' /\ SlotsExact
<1>1. ASSUME NEW ts \in Times, ReadPacket(ts)
      PROVE  SlotInv' /\ SlotsExact
  <2>1. ts \in Stamps /\ ts.sec \in 1 .. MaxSec
    BY StatClockAssumption DEF Times, Stamps
  <2>2. /\ mode = "file" /\ clock' = ts /\ ~done /\ ~done' /\ mode' = mode
        /\ sim_before_packet(ts) /\ ts.sec <= clock.sec + MaxGap
        /\ seq'.ordered => seq.ordered /\ TLeq(clock, ts)
    BY <1>1 DEF ReadPacket, Running, TypeOK
  <2>3. ~h'.dirty
    BY <2>2, SimClean DEF SlotInv
  <2>4. CASE seq'.ordered
    BY <2>1, <2>2, <2>3, <2>4, SimSlots DEF SlotInv
  <2>5. CASE ~seq'.ordered
    BY <2>3, <2>5 DEF SlotInv, SlotsExact
  <2> QED
    BY <2>4, <2>5
<1>2. CASE mode = "live"
  BY <1>1, <1>2 DEF Next, SlotInv, SlotsExact, LivePacket, Return, shm_inc_global,
     shm_inc_flow_stats, sim_after_packet, sim_finish, Poll, PollEnds, Restart, SetClock, vars
<1>3. CASE Return
  BY <1>3 DEF Return, SlotInv, SlotFacts, SlotsExact
<1>4. CASE mode = "file" /\ shm_inc_global
  BY <1>4, CountSlots DEF shm_inc_global, Running, FlowTypes
<1>5. CASE mode = "file" /\ shm_inc_flow_stats
  BY <1>5, CountSlots DEF shm_inc_flow_stats, Running, FlowTypes
<1>6. CASE mode = "file" /\ sim_after_packet
  <2>1. /\ ~done /\ ~done' /\ UNCHANGED <<mode, clock, seq>> /\ sim_before_packet(clock)
    BY <1>6 DEF sim_after_packet, Running
  <2>2. /\ clock \in Stamps /\ clock.sec \in 1 .. MaxSec /\ TLeq(clock, clock)
        /\ clock.sec <= clock.sec + MaxGap
    BY StampParts, Constants DEF TypeOK, TLeq
  <2>3. ~h'.dirty
    BY <1>6, <2>1, SimClean DEF SlotInv
  <2>4. CASE seq.ordered
    BY <1>6, <2>1, <2>2, <2>3, <2>4, SimSlots DEF SlotInv
  <2>5. CASE ~seq.ordered
    BY <2>1, <2>3, <2>5 DEF SlotInv, SlotsExact
  <2> QED
    BY <2>4, <2>5
<1>7. CASE sim_finish
  BY <1>7 DEF sim_finish, SlotInv, SlotsExact, NewMinute
<1>8. CASE UNCHANGED vars
  BY <1>8 DEF vars, SlotInv, SlotFacts, SlotsExact
<1> QED
  BY <1>1, <1>2, <1>3, <1>4, <1>5, <1>6, <1>7, <1>8
     DEF Next, TypeOK, LivePacket, Poll, PollEnds, Restart, SetClock

-----------------------------------------------------------------------------
IInv == TypeOK /\ ClockInv /\ TotalInv /\ SlotInv

LEMMA InitInv == Init => IInv
<1> SUFFICES ASSUME Init PROVE IInv
  OBVIOUS
<1>1. 0 \in Nat /\ Minute \in Nat /\ MaxSec \in Nat /\ 0 \in 0 .. Minute
  BY Constants
<1>2. TypeOK
  <2>1. clock \in Stamps /\ clock.sec > 0 /\ last \in Stamps
    BY <1>1 DEF Init, Stamps
  <2>2. st \in StatStates
    BY <1>1, ZeroTypes DEF Init, StatStates
  <2>3. out \in [ts : Nat, total : Nat] /\ h \in Histories
    BY <1>1, <2>2, NewMinuteType, ResetType DEF Init
  <2> QED
    BY <2>1, <2>2, <2>3, ZeroTypes DEF Init, TypeOK
<1>3. ClockInv
  BY <1>1 DEF Init, ClockInv, InTime, SlotInTime, FileInTime, Printed
<1>4. TotalInv
  BY DEF Init, TotalInv, CountersAdd, NewMinute
<1>5. SlotInv
  BY DEF Init, SlotInv, NewMinute
<1> QED
  BY <1>2, <1>3, <1>4, <1>5 DEF IInv

LEMMA StepInv == IInv /\ [Next]_vars => IInv'
BY TypeStep, ClockStep, TotalStep, SlotStep DEF IInv

THEOREM Invariance == Spec => []IInv
BY InitInv, StepInv, PTL DEF Spec

(* Theorem: the assert of every_second holds in a file in order and in a   *)
(* live capture, however the clock is set and however long the silences.   *)
THEOREM AssertCorrect == Spec => []AssertHolds
<1>1. IInv => AssertHolds
  BY DEF IInv, TypeOK, ClockInv, InTime, AssertHolds
<1> QED
  BY <1>1, Invariance, PTL

(* Theorem: sim_finish fails for want of a working copy only on a file     *)
(* whose packets are all in one second.                                    *)
THEOREM FinishCorrect == Spec => []FinishNeedsTwoSeconds
<1>1. IInv => FinishNeedsTwoSeconds
  BY DEF IInv, ClockInv, InTime, FinishNeedsTwoSeconds
<1> QED
  BY <1>1, Invariance, PTL

(* Theorem: STAT,T of a report has the packets counted since the report    *)
(* before, short of one per wrap of the counter, for every minute without  *)
(* a restart of the capture.                                               *)
THEOREM TotalsCorrect == Spec => TotalsReported
<1>1. IInv /\ [Next]_vars => TotalIsExact
  BY TotalStep DEF IInv
<1> QED
  BY <1>1, Invariance, PTL DEF Spec, TotalsReported

(* Theorem: reports of a file in order, or of a live capture, are for      *)
(* different minutes.                                                      *)
THEOREM MinuteCorrect == Spec => OneReportPerMinute
<1>1. IInv /\ [Next]_vars => InNewMinute
  BY MinuteStep DEF IInv
<1> QED
  BY <1>1, Invariance, PTL DEF Spec, OneReportPerMinute

(* Theorem: in a file in order and without a second's silence the slots of *)
(* a minute's report have the packets of their seconds, short of one where *)
(* the counter wraps.                                                      *)
THEOREM SlotsCorrect == Spec => SlotsAreSeconds
<1>1. IInv /\ [Next]_vars => SlotsExact
  BY SlotStep DEF IInv
<1> QED
  BY <1>1, Invariance, PTL DEF Spec, SlotsAreSeconds

=============================================================================
