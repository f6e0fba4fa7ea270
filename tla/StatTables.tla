----------------------------- MODULE StatTables -----------------------------
(***************************************************************************)
(* The minute report's copy of the shared tables.  check_minute and the    *)
(* _process_* functions (statproc/statproc_handlers.c) copy streams[],     *)
(* addrs[] and protos[] while the capture process changes them, without a  *)
(* lock, and subtract the counters kept from the minute before.            *)
(*                                                                         *)
(* streams[] stands for the two parts of addrs[] too: both are copied and  *)
(* subtracted by the same statements, over the window of a managed array.  *)
(* Of an entry tstart and one counter are kept, and of protos[] one port.  *)
(* The capture writes an entry in four visible stages: mga_alloc_entry     *)
(* sets tstart.tv_sec to 1, shm_stream_alloc clears the counters,          *)
(* on_packet sets tstart to the packet's stamp, and then it counts.  The   *)
(* statistics read idx_lo, idx_hi, and of each entry tstart and counter,   *)
(* one after another.                                                      *)
(***************************************************************************)
EXTENDS Mgarray

CONSTANTS
  NumStreams,    \* SI_NUM_STREAMS
  StreamRaw,     \* entries of streams[], and of what follows it in memory
  CtrWord,       \* values of the uint32_t counters
  MaxStamp       \* bound: the last stamp of a new stream

ASSUME StatTablesAssumption ==
  /\ NumStreams \in Nat \ {0} /\ StreamRaw \in NumStreams .. NumStreams + 1
  /\ 2 * StreamRaw + 2 < Word
  /\ CtrWord \in Nat /\ CtrWord > 1
  /\ MaxStamp \in Nat

VARIABLES
  si,            \* stream_indexes
  ent,           \* streams[]
  proto,         \* protos[].packets of a port
  cpc,           \* where the capture is in on_packet, and its entry
  now,           \* stamp of the next new stream
  spc,           \* where the statistics are in check_minute, and the entry
  copy,          \* shm_copy
  last,          \* shm_last
  h              \* history

capture == <<si, ent, proto, cpc, now>>
vars == <<si, ent, proto, cpc, now, spc, copy, last, h>>

Streams == MkGeometry(0, NumStreams - 1, StreamRaw)
Entries == 0 .. StreamRaw - 1
At(step, i) == [at |-> step, i |-> i]
Idle == At("idle", 0)

(* The first stamp has second 0: a router without a clock boots in 1970.   *)
(* Two streams of one entry have different stamps, which are microseconds. *)
Stamp(n) == [sec |-> n, usec |-> n + 1]
Unused == [tstart |-> [sec |-> 0, usec |-> 0], packets |-> 0]
NoInfo == [num_entries |-> 0, idx_lo |-> 0, idx_hi |-> 0]
ZeroTables == [si |-> NoInfo, ent |-> [i \in Entries |-> Unused], proto |-> 0]

(* stream_isempty_func: an entry is taken when its tstart second is not 0. *)
Taken == {i \in Entries : ent[i].tstart.sec # 0}
-----------------------------------------------------------------------------
(***************************************************************************)
(* The capture.  History: due[i] is what the stream of entry i was counted *)
(* and not reported yet, expect[i] what of it the copy must have (-1 when  *)
(* the entry got a new stream while it was copied: torn); stable has the   *)
(* entries with the same stream since the copy began.  The same for the    *)
(* protocol: pdue, pexpect; pexact and reset tell of a restart.            *)
(***************************************************************************)
(* shm_stream_alloc: mga_alloc_entry; the process ends where that asserts. *)
Alloc ==
  /\ cpc = Idle /\ now <= MaxStamp
  /\ \E r \in {mga_alloc_entry(Streams, si, Taken)} :
       IF r.fault # "none"
       THEN cpc' = At("dead", 0) /\ UNCHANGED <<si, ent, h>>
       ELSE /\ r.idx # NoEntry
            /\ si' = r.p
            /\ ent' = [ent EXCEPT ![r.idx].tstart.sec = 1]
            /\ cpc' = At("alloc", r.idx)
            /\ h' = [h EXCEPT !.stable = @ \ {r.idx}, !.torn = @ \/ spc = At("packets", r.idx)]
  /\ UNCHANGED <<proto, now, spc, copy, last>>

(* shm_stream_alloc: "initialize / clear out old values". *)
Clear ==
  /\ cpc.at = "alloc"
  /\ ent' = [ent EXCEPT ![cpc.i].packets = 0]
  /\ cpc' = [cpc EXCEPT !.at = "clear"]
  /\ h' = [h EXCEPT !.torn = @ \/ spc = At("packets", cpc.i)]
  /\ UNCHANGED <<si, proto, now, spc, copy, last>>

(* on_packet: ss->tstart = hdr->ts. *)
SetStart ==
  /\ cpc.at = "clear"
  /\ ent' = [ent EXCEPT ![cpc.i].tstart = Stamp(now)]
  /\ now' = now + 1
  /\ cpc' = [cpc EXCEPT !.at = "count"]
  /\ h' = [h EXCEPT !.due[cpc.i] = 0, !.torn = @ \/ spc = At("packets", cpc.i)]
  /\ UNCHANGED <<si, proto, spc, copy, last>>

(* inc_stream_counters, for a new stream or for the entry i that a look-up *)
(* found; as ht_streams goes stale, this may be an entry freed since.      *)
(* Bound: fewer than CtrWord packets between two copies.                   *)
CountStream(i) ==
  /\ cpc = Idle \/ cpc = At("count", i)
  /\ ent[i].tstart.usec # 0
  /\ h.due[i] < CtrWord - 1
  /\ ent' = [ent EXCEPT ![i].packets = (@ + 1) % CtrWord]
  /\ cpc' = At("proto", i)
  /\ h' = [h EXCEPT !.due[i] = @ + 1]
  /\ UNCHANGED <<si, proto, now, spc, copy, last>>

inc_protocol_counters ==
  /\ cpc.at = "proto"
  /\ h.pdue < CtrWord - 1
  /\ proto' = (proto + 1) % CtrWord
  /\ cpc' = Idle
  /\ h' = [h EXCEPT !.pdue = @ + 1]
  /\ UNCHANGED <<si, ent, now, spc, copy, last>>

(* set_stream_slot_empty, by the clean-up. *)
Free(i) ==
  /\ cpc = Idle /\ i \in Taken
  /\ \E r \in {mga_free_entry(Streams, si, Taken, i)} :
       /\ si' = r.p
       /\ ent' = [ent EXCEPT ![i].tstart.sec = IF i \in r.taken THEN @ ELSE 0]
  /\ h' = [h EXCEPT !.stable = @ \ {i}]
  /\ UNCHANGED <<proto, cpc, now, spc, copy, last>>

(* A restarted capture zeroes the segment, then initialises the indexes. *)
Restart ==
  /\ si' = NoInfo /\ ent' = ZeroTables.ent /\ proto' = 0
  /\ cpc' = At("boot", 0)
  /\ h' = [h EXCEPT !.stable = {}, !.torn = TRUE, !.reset = TRUE,
                    !.due = [i \in Entries |-> 0], !.pdue = 0]
  /\ UNCHANGED <<now, spc, copy, last>>

shm_data_init ==
  /\ cpc.at = "boot"
  /\ si' = mga_init(Streams)
  /\ cpc' = Idle
  /\ UNCHANGED <<ent, proto, now, spc, copy, last, h>>
-----------------------------------------------------------------------------
(***************************************************************************)
(* check_minute.  The indexes are copied, then from idx_lo on the entries  *)
(* (CALC_OFF_SIZE), then protos[].                                         *)
(***************************************************************************)
CopyIdxLo ==
  /\ spc = Idle
  /\ copy' = [copy EXCEPT !.si.idx_lo = si.idx_lo]
  /\ spc' = At("idx_hi", 0)
  /\ h' = [h EXCEPT !.stable = {i \in Taken : cpc # At("alloc", i) /\ cpc # At("clear", i)}]
  /\ UNCHANGED <<si, ent, proto, cpc, now, last>>

(* What memcpy is at next: entry i, or protos[] beyond the last. *)
Entry(i, hi) == IF i < hi THEN At("tstart", i) ELSE At("protos", 0)

(* Mutant: the last entry is not copied. *)
NextEntryShort(i, hi) == Entry(i, hi - 1)

NextEntry(i, hi) == Entry(i, hi)

(* A difference below 0 is a huge size: the copy leaves the segment. *)
CopyIdxHi ==
  /\ spc.at = "idx_hi"
  /\ copy' = [copy EXCEPT !.si.idx_hi = si.idx_hi]
  /\ spc' = IF copy.si.idx_lo <= si.idx_hi /\ si.idx_hi <= StreamRaw
            THEN NextEntry(copy.si.idx_lo, si.idx_hi) ELSE At("dead", 0)
  /\ UNCHANGED <<si, ent, proto, cpc, now, last, h>>

CopyTstart ==
  /\ spc.at = "tstart"
  /\ copy' = [copy EXCEPT !.ent[spc.i].tstart = ent[spc.i].tstart]
  /\ spc' = [spc EXCEPT !.at = "packets"]
  /\ h' = [h EXCEPT !.torn = cpc \in {At("alloc", spc.i), At("clear", spc.i)}]
  /\ UNCHANGED <<si, ent, proto, cpc, now, last>>

CopyPackets ==
  /\ spc.at = "packets"
  /\ copy' = [copy EXCEPT !.ent[spc.i].packets = ent[spc.i].packets]
  /\ spc' = NextEntry(spc.i + 1, copy.si.idx_hi)
  /\ h' = IF h.torn THEN [h EXCEPT !.expect[spc.i] = -1]
          ELSE [h EXCEPT !.expect[spc.i] = h.due[spc.i]]
  /\ UNCHANGED <<si, ent, proto, cpc, now, last>>

CopyProtos ==
  /\ spc.at = "protos"
  /\ copy' = [copy EXCEPT !.proto = proto]
  /\ spc' = At("process", 0)
  /\ h' = [h EXCEPT !.pexpect = h.pdue, !.pexact = @ /\ ~h.reset, !.reset = FALSE]
  /\ UNCHANGED <<si, ent, proto, cpc, now, last>>

u32diff(prev, cur) == IF cur >= prev THEN cur - prev ELSE CtrWord - 1 + cur - prev

(* The loop of _process_streams and _process_addrs2. *)
Listed == {i \in Window(copy.si) \cap Entries : copy.ent[i].tstart.sec # 0}

(* Mutant: tstart is not compared. *)
SameStreamAlways(i) == last.ent[i].tstart.sec # 0

(* "do we already have this entry from last interval?" *)
SameStream(i) == copy.ent[i].tstart = last.ent[i].tstart

(* The counter an entry is listed with. *)
Reported(i) ==
  IF SameStream(i) THEN u32diff(last.ent[i].packets, copy.ent[i].packets) ELSE copy.ent[i].packets

(* _process_protocols. *)
ProtoListed == copy.proto # 0 /\ copy.proto # last.proto

ProtoReported == IF ProtoListed THEN u32diff(last.proto, copy.proto) ELSE 0

(* Mutant: what is not listed is forgotten. *)
KeptProtoAlways == copy.proto

KeptProto == IF ProtoListed THEN copy.proto ELSE last.proto

(* The working copy is written again before it is read again. *)
Process ==
  /\ spc.at = "process"
  /\ last' = [last EXCEPT !.ent = [i \in Entries |-> IF i \in Listed THEN copy.ent[i] ELSE @[i]],
                          !.proto = KeptProto]
  /\ copy' = ZeroTables
  /\ spc' = Idle
  /\ h' = [h EXCEPT
       !.due = [i \in Entries |-> IF i \in Listed /\ h.expect[i] # -1
                                     /\ ent[i].tstart = copy.ent[i].tstart
                                  THEN @[i] - h.expect[i] ELSE @[i]],
       !.expect = [i \in Entries |-> -1], !.stable = {}, !.torn = FALSE,
       !.pdue = IF ProtoListed /\ ~h.reset THEN @ - h.pexpect ELSE @,
       !.pexpect = 0, !.pexact = @ \/ ProtoListed]
  /\ UNCHANGED <<si, ent, proto, cpc, now>>

Init ==
  /\ si = mga_init(Streams) /\ ent = ZeroTables.ent /\ proto = 0
  /\ cpc = Idle /\ now = 0 /\ spc = Idle
  /\ copy = ZeroTables /\ last = ZeroTables
  /\ h = [due |-> [i \in Entries |-> 0], expect |-> [i \in Entries |-> -1],
          stable |-> {}, torn |-> FALSE, pdue |-> 0, pexpect |-> 0, pexact |-> TRUE,
          reset |-> FALSE]

Next ==
  \/ Alloc \/ Clear \/ SetStart \/ inc_protocol_counters \/ Restart \/ shm_data_init
  \/ \E i \in Entries : CountStream(i) \/ Free(i)
  \/ CopyIdxLo \/ CopyIdxHi \/ CopyTstart \/ CopyPackets \/ CopyProtos \/ Process

Spec == Init /\ [][Next]_vars
-----------------------------------------------------------------------------
Passed(prev, cur) == IF cur < prev THEN 1 ELSE 0

(* A stream is listed with the packets counted since it was listed last,   *)
(* short of one where the counter wraps, whatever the capture did in the   *)
(* meantime: entries freed and reused, earlier copies torn, a restart.     *)
(* Only the copy itself may be torn.                                       *)
ReportsExact ==
  spc.at = "process" => \A i \in Listed :
    h.expect[i] # -1 =>
      Reported(i) = h.expect[i] -
        (IF SameStream(i) THEN Passed(last.ent[i].packets, copy.ent[i].packets) ELSE 0)

(* A stream in use throughout the copy is listed, although idx_lo, idx_hi  *)
(* and the entries are read at different times.                            *)
NothingMissed == spc.at = "process" => h.stable \subseteq Listed

(* A protocol is listed with the packets counted since it was listed last, *)
(* also when it was left out for a counter of 0; the first report after a  *)
(* restart of the capture is exempt.                                       *)
ProtosExact ==
  spc.at = "process" /\ ProtoListed /\ h.pexact =>
    ProtoReported = h.pexpect - Passed(last.proto, copy.proto)
=============================================================================
