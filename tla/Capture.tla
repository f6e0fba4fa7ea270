------------------------------ MODULE Capture ------------------------------
(***************************************************************************)
(* The capture process (minflocap): on_packet of capture/main.c with the   *)
(* tables of common/shmdata.c and the stream clean-up of capture/cleanup.c.*)
(* One packet is handled from beginning to end before the next one, so a   *)
(* handler is one step; it is written as a function from the tables to the *)
(* tables, in the order of the code.                                       *)
(*                                                                         *)
(* The tables t are a record:                                              *)
(*   si, staken, ss   stream_indexes, the stream entries in use, streams[] *)
(*   lan, wan, ataken, addr                                                *)
(*                    addr_lan_indexes, addr_wan_indexes, the address      *)
(*                    entries in use, addrs[] (one array for both)         *)
(*   ht_streams       bucket -> stream entry.  HashTablePut keeps a pointer*)
(*                    to on_packet's local key, which at every lookup is   *)
(*                    the key looked up: a lookup therefore finds whatever *)
(*                    the bucket has, and a bucket never has two           *)
(*   ht_v4addrs       address -> address entry; nothing is ever removed    *)
(*   clist, cwait     cleanup_streams_list and cleanup_streams_wait        *)
(*   flow, protos     packet counters of flow_stats[] and protos[]         *)
(*   refused          (history) packets dropped for want of a stream entry *)
(*   strayed          (history) one of the address arrays has handed out   *)
(*                    an entry in the part of the other                    *)
(*   fault            "none", or what ended the process                    *)
(***************************************************************************)
EXTENDS Mgarray, StreamKey, SequencesExt, Functions

CONSTANTS
  Packets,          \* the packets of the network: parsed, with isfin
  LanIps,           \* the addresses for which ipaddr_is_lan holds
  WebPorts,         \* 80, 443 and 8080
  Hash(_),          \* hash_stream_key(key) % numOfBuckets
  NumLan,           \* total_entries of the LAN part of addrs[] (256)
  NumAddrs,         \* SI_NUM_ADDRS
  NumStreams,       \* SI_NUM_STREAMS
  StreamRaw,        \* entries of streams[], and of what follows it in memory
  NumProtos,        \* SI_NUM_TCP_PROTOS
  ListMax, WaitMax, \* lengths of the two clean-up lists
  Minute,           \* seconds in a minute (60)
  StatTime,         \* STAT_PROCESS_TIME_SEC (15)
  PreStat,          \* the second from which cleaning waits for no one (55)
  Expired,          \* STREAM_EXPIRED_SEC (30)
  MaxBack,          \* how far a packet's stamp may be behind the newest one
  ActWord,          \* values of the uint16_t nstreams_active
  CtrWord           \* values of the uint32_t packet counters

ASSUME CaptureAssumption ==
  /\ \A c \in {NumLan, NumStreams, NumProtos, ListMax, WaitMax, ActWord, CtrWord} :
       c \in Nat \ {0}
  /\ NumAddrs \in Nat /\ NumLan < NumAddrs /\ WaitMax <= ListMax
  /\ StreamRaw \in NumStreams .. NumStreams + 1
  /\ Minute \in Nat /\ StatTime \in Nat \ {0} /\ PreStat \in Nat /\ Expired \in Nat /\ MaxBack \in Nat
  /\ StatTime < PreStat /\ PreStat < Minute /\ Expired < Minute
  /\ 0 \notin LanIps \cup WebPorts
  /\ 2 * NumAddrs + 2 < Word /\ 2 * StreamRaw + 2 < Word

VARIABLES tab,      \* the tables
          sec,      \* the second inside the minute, of the packet in hand
          skew,     \* the seconds that packet is stamped behind the newest one
          last      \* the seconds last_sec is behind it (MaxBack + 1: or more)

vars == <<tab, sec, skew, last>>
-----------------------------------------------------------------------------
Lan == MkGeometry(0, NumLan - 1, NumAddrs)
Wan == MkGeometry(NumLan, NumAddrs - 1, NumAddrs)
Streams == MkGeometry(0, NumStreams - 1, StreamRaw)

StreamSlots == 0 .. StreamRaw - 1
AddrSlots == 0 .. NumAddrs - 1
Ips == UNION {{pkt.srcip, pkt.dstip} : pkt \in Packets}
Keys == {pkt_init_key(pkt).key : pkt \in Packets}
Buckets == {Hash(k) : k \in Keys}
NoKey == [ipproto |-> 0, lport |-> 0, rport |-> 0, left |-> 0, right |-> 0]

IPPROTO_UDP == 17
FLOW_TYPE_INTERNAL == 4
FLOW_TYPE_TOTAL == 5

Inc(n) == (n + 1) % CtrWord

(* The second inside the minute is in the time kept free of cleaning. *)
BeforeStat(s) == s < StatTime

(***************************************************************************)
(* shmdata.c: addresses.                                                   *)
(***************************************************************************)
(* A managed array's answer r put back into the tables. *)
SetAddrs(t, internal, r) ==
  IF internal THEN [t EXCEPT !.lan = r.p, !.ataken = r.taken]
              ELSE [t EXCEPT !.wan = r.p, !.ataken = r.taken]

(* The LAN part of addrs[], with the entry that follows it: an array of an *)
(* even number of entries hands that one out as its last.                  *)
InLanPart(i) == i <= NumLan

(* The entry allocated for ip is reset and entered in ht_v4addrs. *)
AddrAllocated(t, ip, internal, r) ==
  IF r.fault # "none" THEN [t EXCEPT !.fault = r.fault]
  ELSE IF r.idx = NoEntry THEN [t EXCEPT !.fault = "null_addr"]
  ELSE [SetAddrs(t, internal, r) EXCEPT
          !.addr[r.idx] = [addr_offset |-> ip, internal |-> internal, nstreams_active |-> 0],
          !.ht_v4addrs[ip] = r.idx,
          !.strayed = @ \/ (internal # InLanPart(r.idx))]

shm_addr_alloc_v4(t, ip) ==
  IF ip \in LanIps
  THEN AddrAllocated(t, ip, TRUE, mga_alloc_entry(Lan, t.lan, t.ataken))
  ELSE AddrAllocated(t, ip, FALSE, mga_alloc_entry(Wan, t.wan, t.ataken))

(* The look-up of on_packet for one side: an address met before keeps the  *)
(* entry it once got.  A failed allocation gives a NULL that               *)
(* set_stream_flow_flags dereferences: the process ends ("null_addr").     *)
FindAddr(t, ip) ==
  IF t.fault = "none" /\ t.ht_v4addrs[ip] = NoEntry THEN shm_addr_alloc_v4(t, ip) ELSE t

(* Mutant: the entry is cleared behind the managed array's back. *)
ClearAddrOnly(t, i) == [t EXCEPT !.ataken = @ \ {i}]

shm_addr_free(t, i) ==
  IF i >= NumLan THEN SetAddrs(t, FALSE, mga_free_entry(Wan, t.wan, t.ataken, i))
                 ELSE SetAddrs(t, TRUE, mga_free_entry(Lan, t.lan, t.ataken, i))

(***************************************************************************)
(* main.c and shmdata.c: a new stream.                                     *)
(***************************************************************************)
is_web(port) == port \in WebPorts

(* Mutant: FLOW_FLAG_IN from the left address. *)
FlowTypeByLeft(left, right, rport) ==
  IF left.internal /\ right.internal THEN FLOW_TYPE_INTERNAL
  ELSE (IF is_web(rport) THEN 1 ELSE 0) + (IF left.internal THEN 2 ELSE 0)

(* set_stream_flow_flags: FLOW_FLAG_WEB is 1, FLOW_FLAG_IN is 2. *)
FlowType(left, right, rport) ==
  IF left.internal /\ right.internal THEN FLOW_TYPE_INTERNAL
  ELSE (IF is_web(rport) THEN 1 ELSE 0) + (IF right.internal THEN 2 ELSE 0)

(* shm_stream_alloc: a cleared entry, found through the key's bucket.  The *)
(* entry keeps ports and protocol of the key; left and right, which the    *)
(* code reaches through idx_left and idx_right only, are history; so is    *)
(* dropped, whether the stream found its clean-up list full when it ended. *)
NewStream(key, l, r, type) ==
  [key |-> key, idx_left |-> l, idx_right |-> r, type |-> type,
   cleanup |-> FALSE, dropped |-> FALSE, packets |-> 0, age |-> 0]

(* Stream entry s of key, once both addresses were looked up. *)
InitStream(t, key, s) ==
  LET l == t.ht_v4addrs[key.left]
      r == t.ht_v4addrs[key.right]
  IN  IF t.fault # "none" THEN t
      ELSE [t EXCEPT !.ss[s] =
              NewStream(key, l, r, FlowType(t.addr[l], t.addr[r], key.rport))]

StreamAllocated(t, key, a) ==
  IF a.fault # "none" THEN [t EXCEPT !.fault = a.fault]
  ELSE IF a.idx = NoEntry THEN [t EXCEPT !.refused = Inc(@)]
  ELSE InitStream(FindAddr(FindAddr(
         [t EXCEPT !.si = a.p, !.staken = a.taken, !.ht_streams[Hash(key)] = a.idx],
         key.left), key.right), key, a.idx)

(* The branch of on_packet for a key that was not found. *)
AddStream(t, key) == StreamAllocated(t, key, mga_alloc_entry(Streams, t.si, t.staken))

(***************************************************************************)
(* cleanup.c.                                                              *)
(***************************************************************************)
LIST_ADD(l, max, s) == IF Len(l) >= max THEN l ELSE Append(l, s)

UseMainList == BeforeStat(sec) \/ sec >= PreStat

add_stream_to_cleanup_list(t, s) ==
  IF UseMainList
  THEN [t EXCEPT !.clist = LIST_ADD(@, ListMax, s)]
  ELSE [t EXCEPT !.cwait = LIST_ADD(@, WaitMax, s)]

(* The age is counted from the newest stamp, and the time since tlast from *)
(* the packet in hand.  Their difference is unsigned: a packet stamped     *)
(* before the stream's last one finds the stream expired.                  *)
IsExpired(age) == age - skew > Expired \/ age < skew

(* The body of the loop of find_expired_streams, for stream entry s:       *)
(* mga_get asserts that the entry is in range.                             *)
VisitStream(t, s) ==
  IF t.fault # "none" THEN t
  ELSE IF s >= NumStreams THEN [t EXCEPT !.fault = "assert_get"]
  ELSE IF s \in t.staken /\ IsExpired(t.ss[s].age)
  THEN add_stream_to_cleanup_list(t, s) ELSE t

(* Mutant: the last entry of the window is not looked at. *)
ExpiredButLast(t) ==
  LET size == Cardinality(Window(t.si))
      visited[k \in 0 .. size] ==
        IF k = 0 THEN t ELSE VisitStream(visited[k - 1], U32(t.si.idx_lo + k))
  IN  IF size = 0 THEN t ELSE visited[size - 1]

(* The entries of the window, from its low end. *)
find_expired_streams(t) ==
  LET size == Cardinality(Window(t.si))
      visited[k \in 0 .. size] ==
        IF k = 0 THEN t ELSE VisitStream(visited[k - 1], U32(t.si.idx_lo + k))
  IN  visited[size]

(* HashTableRemove(ht_streams, key): the key stored is by now the key cur  *)
(* of the packet in hand, so only that one is ever found and removed.      *)
shm_stream_lookup_free(t, key, cur) ==
  IF key = cur THEN [t EXCEPT !.ht_streams[Hash(key)] = NoEntry] ELSE t

FreeAddrIfIdle(t, i) == IF t.addr[i].nstreams_active = 0 THEN shm_addr_free(t, i) ELSE t

(* set_stream_slot_empty.  Of an entry not in use the age is kept at 0 and *)
(* dropped is forgotten.                                                   *)
StreamFreed(t, s, r) ==
  [t EXCEPT !.si = r.p, !.staken = r.taken, !.ss[s].age = IF s \in r.taken THEN @ ELSE 0,
            !.ss[s].dropped = @ /\ s \in r.taken]

set_stream_slot_empty(t, s) ==
  StreamFreed(t, s, mga_free_entry(Streams, t.si, t.staken, s))

(* Mutant: a signed counter. *)
DecSigned(n) == n - 1

(* nstreams_active--, of a uint16_t. *)
DecActive(n) == (n - 1) % ActWord

LessActive(t, i) == [t EXCEPT !.addr[i].nstreams_active = DecActive(@)]

(* The body of the loop of cleanup_expired_streams, for stream entry s. *)
CleanStream(t, s, cur) ==
  LET st  == t.ss[s]
      key == stream_init_key_from_stream(st.key, t.addr[st.idx_left].addr_offset,
                                         t.addr[st.idx_right].addr_offset)
      u == shm_stream_lookup_free(t, key, cur)
      v == LessActive(LessActive(u, st.idx_left), st.idx_right)
      w == FreeAddrIfIdle(FreeAddrIfIdle(v, st.idx_left), st.idx_right)
  IN  set_stream_slot_empty(w, s)

CleanAll(t, cur) ==
  LET cleaned[i \in 0 .. Len(t.clist)] ==
        IF i = 0 THEN t ELSE CleanStream(cleaned[i - 1], t.clist[i], cur)
  IN  cleaned[Len(t.clist)]

(* Mutant: the waiting streams are lost. *)
DropWaiting(t) == [t EXCEPT !.clist = <<>>, !.cwait = <<>>]

(* Mutant: they are moved only when ended streams go to the main list. *)
MoveInMainTime(t) ==
  [t EXCEPT !.clist = IF UseMainList THEN t.cwait ELSE <<>>,
            !.cwait = IF UseMainList THEN <<>> ELSE t.cwait]

MoveWaiting(t) ==
  LET moved[i \in 0 .. Len(t.cwait)] ==
        IF i = 0 THEN <<>> ELSE LIST_ADD(moved[i - 1], ListMax, t.cwait[i])
  IN  [t EXCEPT !.clist = moved[Len(t.cwait)], !.cwait = <<>>]

(* What follows the scan for expired streams. *)
CleanLists(t, cur) == IF t.fault # "none" THEN t ELSE MoveWaiting(CleanAll(t, cur))

cleanup_expired_streams(t, cur) ==
  IF BeforeStat(sec) \/ t.clist = <<>> THEN t
  ELSE CleanLists(find_expired_streams(t), cur)

(***************************************************************************)
(* main.c: on_packet.                                                      *)
(***************************************************************************)
NoRoom(t) == IF UseMainList THEN Len(t.clist) = ListMax ELSE Len(t.cwait) = WaitMax

(* A FIN or RST queues the stream once, also when there is no room. *)
MarkEnded(t, s, pkt) ==
  IF pkt.isfin /\ ~t.ss[s].cleanup
  THEN [add_stream_to_cleanup_list(t, s) EXCEPT !.ss[s].cleanup = TRUE,
                                                !.ss[s].dropped = NoRoom(t)]
  ELSE t

MoreActive(t, i) == [t EXCEPT !.addr[i].nstreams_active = (@ + 1) % ActWord]

(* inc_stream_counters: only "no packet yet" and "some" are told apart. *)
inc_stream_counters(t, s) ==
  LET st == t.ss[s]
      u  == [t EXCEPT !.ss[s].packets = 1]
  IN  IF st.packets > 0 THEN u ELSE MoreActive(MoreActive(u, st.idx_left), st.idx_right)

(* Mutant: the client's port. *)
ProtocolByLport(key) == <<key.ipproto = IPPROTO_UDP, key.lport>>

(* shm_get_protocol: UDP ports have their own entries, and ports beyond    *)
(* the table have none.                                                    *)
shm_get_protocol(key) == <<key.ipproto = IPPROTO_UDP, key.rport>>

(* Mutant: the return for a port beyond the table skips both counters. *)
CountIfPortKnown(t, s) ==
  LET st == t.ss[s]
      e  == shm_get_protocol(st.key)
  IN  IF e \notin DOMAIN t.protos THEN t
      ELSE [t EXCEPT !.flow[st.type] = Inc(@), !.protos[e] = Inc(@)]

inc_protocol_counters(protos, e) ==
  IF e \in DOMAIN protos THEN [protos EXCEPT ![e] = Inc(@)] ELSE protos

(* shm_inc_flow_stats and inc_protocol_counters. *)
CountPacket(t, s) ==
  LET st == t.ss[s]
  IN  [t EXCEPT !.flow[st.type] = Inc(@),
                !.protos = inc_protocol_counters(@, shm_get_protocol(st.key))]

(* tv_sec - last_sec > 0, unsigned: the second is another one. *)
OncePerSecond(t, key) == IF last = skew THEN t ELSE cleanup_expired_streams(t, key)

(* The rest of on_packet once the stream entry s is known. *)
OnStream(t, s, pkt, key) ==
  OncePerSecond(CountPacket(inc_stream_counters(
    MarkEnded([t EXCEPT !.ss[s].age = skew], s, pkt), s), s), key)

shm_inc_global(t) == [t EXCEPT !.flow[FLOW_TYPE_TOTAL] = Inc(@)]

FindStream(t, key) == IF t.ht_streams[Hash(key)] = NoEntry THEN AddStream(t, key) ELSE t

(* The new tables, and whether the packet is handled to the end, so that   *)
(* last_sec is updated.                                                    *)
Found(t, pkt, key) ==
  LET s == t.ht_streams[Hash(key)] IN
    IF t.fault # "none" \/ s = NoEntry THEN [tab |-> t, done |-> FALSE]
    ELSE [tab |-> OnStream(t, s, pkt, key), done |-> TRUE]

Handled(t, pkt) ==
  LET key == pkt_init_key(pkt).key IN Found(FindStream(shm_inc_global(t), key), pkt, key)

(* A packet that net_parse rejects, or with a zero address, changes nothing. *)
Accepted(pkt) == pkt.parsed /\ pkt.srcip # 0 /\ pkt.dstip # 0

on_packet(pkt) ==
  /\ tab.fault = "none"
  /\ Accepted(pkt)
  /\ \E h \in {Handled(tab, pkt)} : tab' = h.tab /\ last' = IF h.done THEN skew ELSE last
  /\ UNCHANGED <<sec, skew>>

(* Streams grow older, up to an age at which they are expired by any stamp. *)
Older(t) ==
  [t EXCEPT !.ss = [s \in StreamSlots |->
     IF s \in t.staken THEN [t.ss[s] EXCEPT !.age = Min({@ + 1, Expired + 1 + MaxBack})]
     ELSE t.ss[s]]]

(* The packets to come are stamped one second later. *)
Tick ==
  /\ tab.fault = "none"
  /\ sec' = (sec + 1) % Minute
  /\ IF skew = 0
     THEN tab' = Older(tab) /\ last' = Min({last + 1, MaxBack + 1}) /\ UNCHANGED skew
     ELSE skew' = skew - 1 /\ UNCHANGED <<tab, last>>

(* The packets of an interface come from several queues, the clock is set  *)
(* back, a file was merged: the stamps step back.                          *)
StepBack ==
  /\ tab.fault = "none" /\ skew < MaxBack
  /\ sec' = (sec - 1) % Minute /\ skew' = skew + 1
  /\ UNCHANGED <<tab, last>>

(* shm_data_init and cleanup_init; the capture starts at any second. *)
shm_data_init ==
  [si |-> mga_init(Streams), staken |-> {},
   ss |-> [s \in StreamSlots |-> NewStream(NoKey, 0, 0, 0)],
   lan |-> mga_init(Lan), wan |-> mga_init(Wan), ataken |-> {},
   addr |-> [a \in AddrSlots |->
               [addr_offset |-> 0, internal |-> FALSE, nstreams_active |-> 0]],
   ht_streams |-> [b \in Buckets |-> NoEntry],
   ht_v4addrs |-> [ip \in Ips |-> NoEntry],
   clist |-> <<>>, cwait |-> <<>>,
   flow |-> [f \in 0 .. 5 |-> 0],
   protos |-> [e \in {shm_get_protocol(k) : k \in {k \in Keys : k.rport < NumProtos}} |-> 0],
   refused |-> 0, strayed |-> FALSE, fault |-> "none"]

Init == tab = shm_data_init /\ sec \in 0 .. Minute - 1 /\ skew = 0 /\ last = MaxBack + 1

Next == (\E pkt \in Packets : on_packet(pkt)) \/ Tick \/ StepBack

Spec == Init /\ [][Next]_vars
-----------------------------------------------------------------------------
(* stream_info_t and addr_info_t. *)
StreamInfos ==
  [key : Keys \cup {NoKey}, idx_left : AddrSlots, idx_right : AddrSlots, type : 0 .. 4,
   cleanup : BOOLEAN, dropped : BOOLEAN, packets : {0, 1}, age : 0 .. Expired + 1 + MaxBack]

AddrInfos ==
  [addr_offset : Ips \cup {0}, internal : BOOLEAN, nstreams_active : 0 .. ActWord - 1]

(* Types of the tables. *)
TypeOK ==
  /\ tab.si \in Infos /\ tab.lan \in Infos /\ tab.wan \in Infos
  /\ tab.staken \subseteq StreamSlots /\ tab.ataken \subseteq AddrSlots
  /\ tab.ss \in [StreamSlots -> StreamInfos] /\ tab.addr \in [AddrSlots -> AddrInfos]
  /\ tab.ht_streams \in [Buckets -> StreamSlots \cup {NoEntry}]
  /\ tab.ht_v4addrs \in [Ips -> AddrSlots \cup {NoEntry}]
  /\ ToSet(tab.clist) \cup ToSet(tab.cwait) \subseteq StreamSlots
  /\ Len(tab.clist) <= ListMax /\ Len(tab.cwait) <= WaitMax
  /\ tab.strayed \in BOOLEAN
  /\ sec \in 0 .. Minute - 1 /\ skew \in 0 .. MaxBack /\ last \in 0 .. MaxBack + 1

(* A stream is classified by its own two addresses, although the look-up   *)
(* of an address may find an entry that belongs to another one by now; as  *)
(* long as each of the two address arrays has kept to its part.            *)
ClassifiedByOwnAddresses ==
  ~tab.strayed => \A s \in tab.staken :
    LET k == tab.ss[s].key
        internal == {k.left, k.right} \subseteq LanIps
    IN  /\ tab.ss[s].type = FLOW_TYPE_INTERNAL <=> internal
        /\ tab.ss[s].type \in {1, 3} <=> ~internal /\ k.rport \in WebPorts
        /\ tab.ss[s].type \in {2, 3} <=> ~internal /\ k.right \in LanIps

(* Every packet counted in TOTAL is counted in exactly one flow type or    *)
(* was refused a stream entry, through stale look-ups and reused entries.  *)
FlowStatsAccounted ==
  tab.fault = "none" =>
    tab.flow[FLOW_TYPE_TOTAL] =
      (tab.flow[0] + tab.flow[1] + tab.flow[2] + tab.flow[3] + tab.flow[4] + tab.refused)
        % CtrWord

SumOver(f, S) == FoldFunctionOnSet(+, 0, f, S)

(* A network without web traffic between two LAN addresses, whose web      *)
(* ports are all in the table.                                             *)
WebOutside ==
  /\ IsFiniteSet(Packets)
  /\ \A k \in Keys : is_web(k.rport) =>
       k.rport < NumProtos /\ ~({k.left, k.right} \subseteq LanIps)

(* The web packets of flow_stats, which go by the class a stream got from  *)
(* its addresses, are the packets protos[] has for the web ports, in such  *)
(* a network.                                                              *)
WebPacketsAgree ==
  ~tab.strayed => (tab.flow[1] + tab.flow[3]) % CtrWord =
    SumOver(tab.protos, {e \in DOMAIN tab.protos : is_web(e[2])}) % CtrWord

(* The address entries in use for internal, or for external, addresses. *)
AddrsInUse(internal) == {i \in tab.ataken : tab.addr[i].internal = internal}

(* The LAN and the WAN count that shm_stats_print reports are exact: each  *)
(* counts the entries in use for internal, or for external, addresses,     *)
(* although the LAN array of even length fills an entry of the WAN part,   *)
(* which no free reaches; unless an array strays any further.              *)
AddrCountsExact ==
  ~tab.strayed =>
    /\ tab.lan.num_entries = Cardinality(AddrsInUse(TRUE))
    /\ tab.wan.num_entries = Cardinality(AddrsInUse(FALSE))

(* The stream array works as a pool: idx_lo has not passed entry 0, after  *)
(* which mga_free_entry takes every entry for out of range.                *)
FreeWorks == tab.fault = "none" /\ tab.si.idx_lo # Word - 1

(* The process ends for want of an address entry only when the LAN or the  *)
(* WAN part of addrs[] is really full of addresses in use.                 *)
NullOnlyWhenFull ==
  tab.fault = "null_addr" /\ ~tab.strayed =>
    \/ Cardinality(AddrsInUse(TRUE)) = NumLan
    \/ Cardinality(AddrsInUse(FALSE)) = NumAddrs - NumLan

Queued(s) == s \in tab.staken /\ tab.ss[s].cleanup /\ ~tab.ss[s].dropped

(* A stream that has ended is never forgotten: while it is in use, it is   *)
(* on one of the two clean-up lists, unless there was no room on its list. *)
EndedIsQueued ==
  FreeWorks => \A s \in StreamSlots :
    Queued(s) => s \in ToSet(tab.clist) \cup ToSet(tab.cwait)
-----------------------------------------------------------------------------
(* The clean-up is driven by packets only: a pass is made by the first     *)
(* packet of a second, and only when the main list is not empty.  What is  *)
(* assumed is about the traffic: time passes, again and again there is a   *)
(* first packet in a second outside the time kept free that is handled to  *)
(* its end, and again and again a FIN ends a stream, one found unmarked or *)
(* a new one, in the seconds in which it goes to the main list.            *)
FirstOfSecond == sec >= StatTime /\ last # skew /\ last' = skew

EndsStream(pkt) ==
  LET s == tab.ht_streams[Hash(pkt_init_key(pkt).key)]
  IN  /\ pkt.isfin /\ (s = NoEntry \/ ~tab.ss[s].cleanup)
      /\ on_packet(pkt) /\ Handled(tab, pkt).done

StreamEnds == UseMainList /\ \E pkt \in Packets : EndsStream(pkt)

BusySpec ==
  Spec /\ WF_vars(Tick) /\ []<><<FirstOfSecond>>_vars /\ []<><<StreamEnds>>_vars

Released(s) == s \notin tab.staken \/ ~FreeWorks

(* A stream that has ended is released in the end, whichever of the two    *)
(* lists it was put on.                                                    *)
EndedIsReleased == \A s \in StreamSlots : Queued(s) ~> Released(s)

IdleStreams == {s \in tab.staken : IsExpired(tab.ss[s].age)}

(* A clean-up list may have no room for all idle streams, beside the one   *)
(* that the packet in hand may end.                                        *)
Crowded ==
  \/ Len(tab.clist) + 1 + Cardinality(IdleStreams) > ListMax
  \/ Len(tab.cwait) + 1 + Cardinality(IdleStreams) > WaitMax

(* "periodically look through list to find UDP streams with no activity in *)
(* 30 seconds, clean those up": an idle stream is released, or used again, *)
(* in the end; as long as the lists do not get crowded again and again.    *)
IdleIsReleased == \A s \in StreamSlots :
  (s \in IdleStreams) ~> (Released(s) \/ s \notin IdleStreams \/ Crowded)
-----------------------------------------------------------------------------
(* What the repository says of the capture and the code does not do.       *)

(* "remove stream hash table entry": no look-up leads to a freed stream. *)
LookupFindsStreamInUse ==
  \A b \in Buckets : tab.ht_streams[b] \in tab.staken \cup {NoEntry}
=============================================================================
