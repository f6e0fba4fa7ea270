----------------------------- MODULE StatClock -----------------------------
(***************************************************************************)
(* The clock of the statistics: which packets every_second and             *)
(* check_minute (statproc/statproc_handlers.c) count in which second and   *)
(* minute.  Two programs share them.  rminflo reads a capture file: the    *)
(* packets' time stamps drive the statistics from inside on_packet.        *)
(* statprocd polls the wall clock beside the capture process, which        *)
(* counts in shared memory and may be restarted.                           *)
(*                                                                         *)
(* A packet passes the program counter pc: "idle" - sim_before_packet -    *)
(* "parse" - shm_inc_global - "stream" - shm_inc_flow_stats - "after" -    *)
(* sim_after_packet.  Of the six flow types TOTAL and one other are kept,  *)
(* of a counter only the packets.  No property relates two counters that   *)
(* are read while packets are counted, so a snapshot of them is one step.  *)
(***************************************************************************)
EXTENDS Integers

CONSTANTS
  TimeWord,      \* values of uint32_t, for times (2^32)
  CtrWord,       \* values of uint32_t, for counters
  Minute,        \* seconds in a minute (60)
  Usecs,         \* microseconds at which packets arrive
  MaxSec,        \* bound: the last second
  MaxGap         \* bound: seconds from a packet to the next

ASSUME StatClockAssumption ==
  /\ TimeWord \in Nat /\ CtrWord \in Nat /\ CtrWord > 1
  /\ Minute \in Nat /\ Minute > 1
  /\ \A u \in Usecs : u \in Nat /\ u \div 1000 < 1000
  /\ MaxSec \in Nat /\ MaxSec + Minute < TimeWord
  /\ MaxGap \in Nat /\ 1000 * MaxGap + (TimeWord \div 1000) < TimeWord
  /\ TimeWord \div 1000 > 1000

VARIABLES
  mode,          \* "file" or "live"
  clock,         \* time stamp of the packet in hand, or the wall clock
  pc,            \* where on_packet is
  ctr,           \* flow_stats[].packets
  last,          \* last_sec of the simulation, or ts of main: 0 is unset
  st,            \* the state of the statistics
  out,           \* the report printed last
  fault,         \* "none", or what ended the process
  done,          \* whether the file, or the loop of main, has ended
  seq,           \* history: first second of the file, and whether it is in order
  h              \* history of the counters

vars == <<mode, clock, pc, ctr, last, st, out, fault, done, seq, h>>

FlowTypes == {"other", "total"}
Slots == 0 .. Minute
Zero == [f \in FlowTypes |-> 0]
ZeroSlots == [f \in FlowTypes |-> [k \in Slots |-> 0]]

TLeq(a, b) == a.sec < b.sec \/ (a.sec = b.sec /\ a.usec <= b.usec)
-----------------------------------------------------------------------------
u32diff(prev, cur) == IF cur >= prev THEN cur - prev ELSE CtrWord - 1 + cur - prev

tval_diff_ms(prev, cur) ==
  ((cur.sec - prev.sec) * 1000 +
     (IF cur.usec < prev.usec THEN (TimeWord - 1 + cur.usec - prev.usec) \div 1000
                              ELSE (cur.usec - prev.usec) \div 1000)) % TimeWord

(* ts % 60 and (ts / 60) * 60 *)
SecondOf(ts) == ts % Minute

MinuteOf(ts) == ts - SecondOf(ts)

(* Mutants: the first slot is always 0; initialized is never set. *)
InitStateAtZero(ts) == [initialized |-> TRUE, tlast_min |-> MinuteOf(ts), sec_i |-> 0,
                        stats_last |-> ctr, last_min |-> st.last_min, sec_flows |-> st.sec_flows]

InitStateUnset(ts) == [st EXCEPT !.tlast_min = MinuteOf(ts), !.sec_i = SecondOf(ts),
                                 !.stats_last = ctr]

InitState(ts) == [initialized |-> TRUE, tlast_min |-> MinuteOf(ts), sec_i |-> SecondOf(ts),
                  stats_last |-> ctr, last_min |-> st.last_min, sec_flows |-> st.sec_flows]

Second(f) == u32diff(st.stats_last[f], ctr[f])

(* Mutant: the current counters are not copied to the last ones. *)
SnapshotNoCopy == [st EXCEPT !.sec_flows = [f \in FlowTypes |-> [@[f] EXCEPT ![st.sec_i] = Second(f)]],
                             !.last_min = @ + Second("total"),
                             !.sec_i = @ + 1]

(* every_second up to its assert: the differences go to slot sec_i. *)
Snapshot == [st EXCEPT !.sec_flows = [f \in FlowTypes |-> [@[f] EXCEPT ![st.sec_i] = Second(f)]],
                       !.last_min = @ + Second("total"),
                       !.sec_i = @ + 1,
                       !.stats_last = ctr]

(* Mutants of what check_minute resets. *)
ResetNoSlot(s, ts) == [s EXCEPT !.last_min = 0, !.tlast_min = MinuteOf(ts)]

ResetNoMinute(s, ts) == [s EXCEPT !.last_min = 0, !.sec_i = SecondOf(ts)]

(* What check_minute prints, besides sec_flows, and what it resets. *)
Printed(s, ts) == [ts |-> ts, total |-> s.last_min]

Reset(s, ts) == [s EXCEPT !.last_min = 0, !.tlast_min = MinuteOf(ts), !.sec_i = SecondOf(ts)]

MinuteOver(ts) == (ts - st.tlast_min) % TimeWord >= Minute

(***************************************************************************)
(* History: the packets counted since the last snapshot (fresh), by second *)
(* of the minute (seen), and in the snapshots since the last report        *)
(* (unreported, with wraps, how often the total passed zero).  exact and   *)
(* dirty tell of a restart, gap of a second without a call, first of the   *)
(* first slot of the minute.                                               *)
(***************************************************************************)
Passed == IF ctr["total"] < st.stats_last["total"] THEN 1 ELSE 0

NewMinute(ts) == [fresh |-> Zero, seen |-> ZeroSlots, unreported |-> 0, wraps |-> 0,
                  exact |-> TRUE, dirty |-> FALSE, gap |-> FALSE, first |-> SecondOf(ts)]

NewSecond(ts) == [h EXCEPT !.fresh = Zero, !.unreported = @ + h.fresh["total"],
                           !.wraps = @ + Passed,
                           !.exact = @ /\ ~h.dirty, !.dirty = FALSE,
                           !.gap = @ \/ ts # last.sec + 1]

(* every_second, at second ts. *)
every_second(ts) ==
  IF ~st.initialized
  THEN st' = InitState(ts) /\ h' = NewMinute(ts) /\ UNCHANGED <<out, fault>>
  ELSE IF st.sec_i + 1 > Minute
  THEN fault' = "assert" /\ UNCHANGED <<st, out, h>>
  ELSE /\ IF MinuteOver(ts)
          THEN out' = Printed(Snapshot, ts) /\ st' = Reset(Snapshot, ts) /\ h' = NewMinute(ts)
          ELSE st' = Snapshot /\ h' = NewSecond(ts) /\ UNCHANGED out
       /\ UNCHANGED fault

sim_before_packet(ts) ==
  IF last.sec = 0 THEN last' = ts /\ UNCHANGED <<st, out, fault, h>>
  ELSE IF tval_diff_ms(last, ts) >= 1000 THEN every_second(ts.sec) /\ last' = ts
  ELSE UNCHANGED <<last, st, out, fault, h>>
-----------------------------------------------------------------------------
Running == fault = "none" /\ ~done

Times == [sec : 1 .. MaxSec, usec : Usecs]

(* read_pcap_loop and the start of on_packet.  Bound: stamps step back once. *)
ReadPacket(ts) ==
  /\ Running /\ mode = "file" /\ pc = "idle"
  /\ ts.sec <= clock.sec + MaxGap
  /\ clock' = ts
  /\ seq.ordered \/ TLeq(clock, ts)
  /\ seq' = [ordered |-> seq.ordered /\ TLeq(clock, ts),
             start |-> IF seq.start = 0 THEN ts.sec ELSE seq.start]
  /\ sim_before_packet(ts)
  /\ pc' = "parse"
  /\ UNCHANGED <<mode, ctr, done>>

(* on_packet called by libpcap. *)
LivePacket ==
  /\ Running /\ mode = "live" /\ pc = "idle"
  /\ pc' = "parse"
  /\ UNCHANGED <<mode, clock, ctr, last, st, out, fault, done, seq, h>>

(* The early returns: a packet not parsed, or refused a stream entry. *)
Return ==
  /\ Running /\ pc \in {"parse", "stream"}
  /\ pc' = "idle"
  /\ UNCHANGED <<mode, clock, ctr, last, st, out, fault, done, seq, h>>

(* Bound: fewer than CtrWord packets between two snapshots. *)
Count(f) ==
  /\ h.fresh[f] < CtrWord - 1
  /\ ctr' = [ctr EXCEPT ![f] = (@ + 1) % CtrWord]
  /\ h' = [h EXCEPT !.fresh[f] = @ + 1,
                    !.seen[f][SecondOf(clock.sec)] = IF mode = "file" /\ ~h.gap THEN @ + 1 ELSE @]

shm_inc_global ==
  /\ Running /\ pc = "parse"
  /\ Count("total")
  /\ pc' = "stream"
  /\ UNCHANGED <<mode, clock, last, st, out, fault, done, seq>>

shm_inc_flow_stats ==
  /\ Running /\ pc = "stream"
  /\ Count("other")
  /\ pc' = "after"
  /\ UNCHANGED <<mode, clock, last, st, out, fault, done, seq>>

sim_after_packet ==
  /\ Running /\ pc = "after"
  /\ IF mode = "file" THEN sim_before_packet(clock)
     ELSE UNCHANGED <<last, st, out, fault, h>>
  /\ pc' = "idle"
  /\ UNCHANGED <<mode, clock, ctr, done, seq>>

(* The file ends, or is cut off: sim_finish(0), which takes no snapshot.   *)
(* check_minute writes to the working copy, which _init_state allocates.   *)
sim_finish ==
  /\ Running /\ mode = "file" /\ pc = "idle"
  /\ LET ts == st.tlast_min + Minute IN
       IF st.initialized
       THEN out' = Printed(st, ts) /\ st' = Reset(st, ts) /\ h' = NewMinute(ts) /\ UNCHANGED fault
       ELSE fault' = "null_copy" /\ UNCHANGED <<out, st, h>>
  /\ done' = TRUE
  /\ UNCHANGED <<mode, clock, pc, ctr, last, seq>>

(* An iteration of the loop of statproc/main.c that does something. *)
Poll ==
  /\ Running /\ mode = "live"
  /\ IF last.sec = 0 THEN UNCHANGED <<st, out, fault, h>>
     ELSE clock.sec - last.sec >= 1 /\ every_second(clock.sec)
  /\ last' = clock
  /\ UNCHANGED <<mode, clock, pc, ctr, done, seq>>

PollEnds ==
  /\ Running /\ mode = "live" /\ done' = TRUE
  /\ UNCHANGED <<mode, clock, pc, ctr, last, st, out, fault, seq, h>>

(* The wall clock goes on, or is set. *)
SetClock(s) ==
  /\ Running /\ mode = "live"
  /\ clock' = [sec |-> s, usec |-> 0]
  /\ UNCHANGED <<mode, pc, ctr, last, st, out, fault, done, seq, h>>

(* The capture is restarted: shm_data_init zeroes the segment. *)
Restart ==
  /\ Running /\ mode = "live"
  /\ ctr' = Zero /\ pc' = "idle" /\ h' = [h EXCEPT !.dirty = TRUE]
  /\ UNCHANGED <<mode, clock, last, st, out, fault, done, seq>>

Init ==
  /\ mode \in {"file", "live"}
  /\ clock \in [sec : 1 .. MaxSec, usec : {0}]
  /\ pc = "idle" /\ ctr = Zero
  /\ last = [sec |-> 0, usec |-> 0]
  /\ st = [initialized |-> FALSE, tlast_min |-> 0, sec_i |-> 0, stats_last |-> Zero,
           last_min |-> 0, sec_flows |-> ZeroSlots]
  /\ out = Printed(st, 0)
  /\ fault = "none" /\ done = FALSE
  /\ seq = [ordered |-> TRUE, start |-> 0]
  /\ h = NewMinute(0)

Next ==
  \/ \E ts \in Times : ReadPacket(ts)
  \/ LivePacket \/ Return \/ shm_inc_global \/ shm_inc_flow_stats \/ sim_after_packet
  \/ sim_finish \/ Poll \/ PollEnds \/ Restart
  \/ \E s \in 1 .. MaxSec : SetClock(s)

Spec == Init /\ [][Next]_vars
-----------------------------------------------------------------------------
(* The assert in every_second, sec_i <= 60, holds although seconds may be  *)
(* skipped and the wall clock set, unless a file's stamps step back.       *)
AssertHolds == fault = "assert" => mode = "file" /\ ~seq.ordered

(* "keep minute reports on 60-second boundaries": no two reports belong to *)
(* the same minute.                                                        *)
InNewMinute == out' # out /\ seq'.ordered => MinuteOf(out'.ts) > MinuteOf(out.ts)

OneReportPerMinute == [][InNewMinute]_vars

PacketsDue == h.unreported + (IF done' THEN 0 ELSE h.fresh["total"])

(* STAT,T has every packet counted between two reports once, short of one  *)
(* packet when the counter passes zero; at the end of a file the last      *)
(* second is missing.  A restart of the capture exempts its minute.        *)
TotalIsExact ==
  out' # out /\ h.exact /\ ~h.dirty =>
    out'.total \in PacketsDue - h.wraps - Passed .. PacketsDue

TotalsReported == [][TotalIsExact]_vars

(* In a file in order and without a second's silence, a slot of a minute's *)
(* report has the packets stamped in its second, short of one as above.    *)
SlotsExact ==
  out' # out /\ ~done' /\ mode = "file" /\ seq'.ordered /\ ~h.gap
    /\ clock'.sec = clock.sec + 1 =>
    \A f \in FlowTypes, k \in h.first .. Minute - 1 :
      st'.sec_flows[f][k] \in h.seen[f][k] - 1 .. h.seen[f][k]

SlotsAreSeconds == [][SlotsExact]_vars

(* The report at the end of a file has its working copy unless all packets *)
(* of the file are in one second.                                          *)
FinishNeedsTwoSeconds ==
  fault = "null_copy" /\ seq.ordered => seq.start \in {0, clock.sec}
=============================================================================
