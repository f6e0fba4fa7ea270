------------------------------- MODULE Report -------------------------------
(***************************************************************************)
(* The minute report: the Top-N and port-scan parts of the _process_*      *)
(* functions (statproc/statproc_handlers.c) and the tables and sections    *)
(* that export/export.c writes into string buffers (utils/stringbuf.c).    *)
(*                                                                         *)
(* copy is shm_copy with the differences taken (see StatTables): streams,  *)
(* protos, and for each part of addrs[] the entries in use, in the order   *)
(* of their window.  A line is a record; len(line) is its length.          *)
(***************************************************************************)
EXTENDS Sort, SequencesExt

CONSTANTS
  Copies,            \* the working copies a minute may have
  WatchedPorts,      \* the ports with a bit BF_PORT_*
  NumTcpProtos,      \* SI_NUM_TCP_PROTOS
  TopStreams,        \* NUM_TOPN_STREAMS (20)
  TopProtos,         \* TOPN_PROTOS (20)
  TopAddrs,          \* addresses in a section (10)
  SuspiciousPorts,   \* SUSPICIOUS_PORTS_MIN (10)
  BufSize,           \* capacity of a new buffer (8192)
  SeenMax,           \* entries of _streams[] and _addrs[] (1024)
  LineLen(_)         \* length of a line

-----------------------------------------------------------------------------
(***************************************************************************)
(* The lines, each as it is formatted from the copy c.  A section of the   *)
(* statistics is named by the first columns of its lines.                  *)
(***************************************************************************)
FLOW_TYPE_INTERNAL == 4

(* As statproc_handlers.c defines them. *)
IPPROTO_UDP == 6
IPPROTO_TCP == 17

(* The port of an entry: first the TCP ports, then the UDP ports. *)
PortOf(entry) == IF entry >= NumTcpProtos THEN entry - NumTcpProtos ELSE entry

ProtoOf(entry) == IF entry >= NumTcpProtos THEN IPPROTO_UDP ELSE IPPROTO_TCP

Section(kind, sortby, flowflags) == [kind |-> kind, sortby |-> sortby, flowflags |-> flowflags]

Sections ==
  {Section("TSTR", "P", 0), Section("TSTR", "B", 0), Section("PORT", "P", 0),
   Section("TADR", "TXP", FLOW_TYPE_INTERNAL), Section("TADR", "TXP", 0),
   Section("TADR", "#P>", FLOW_TYPE_INTERNAL), Section("TADR", "#P<", FLOW_TYPE_INTERNAL)}

Table(c, sec) == CASE sec.kind = "TSTR" -> c.streams
                   [] sec.kind = "PORT" -> c.protos
                   [] sec.kind = "TADR" -> c.addrs

NumTop(sec) == CASE sec.kind = "TSTR" -> TopStreams
                 [] sec.kind = "PORT" -> TopProtos
                 [] sec.kind = "TADR" -> TopAddrs

Heading == [kind |-> "heading"]

AddrLine(c, a) == [kind |-> "ADDR", iid |-> c.addrs[a].iid, internal |-> c.addrs[a].internal]

StreamLine(c, s) == [kind |-> "STRM", iid |-> c.streams[s].iid,
                     left |-> c.addrs[c.streams[s].idx_left].iid,
                     right |-> c.addrs[c.streams[s].idx_right].iid]

(* The line of entry x of the table, at place i of the section. *)
StatLine(c, sec, i, x) ==
  CASE sec.kind = "TSTR" ->
         [kind |-> "TSTR", sortby |-> sec.sortby, flowflags |-> sec.flowflags, i |-> i,
          iid |-> c.streams[x].iid, packets |-> c.streams[x].packets, bytes |-> c.streams[x].bytes]
    [] sec.kind = "PORT" ->
         [kind |-> "PORT", sortby |-> sec.sortby, flowflags |-> sec.flowflags, i |-> i,
          port |-> PortOf(c.protos[x].entry), ipproto |-> ProtoOf(c.protos[x].entry),
          packets |-> c.protos[x].packets]
    [] sec.kind = "TADR" ->
         [kind |-> "TADR", sortby |-> sec.sortby, flowflags |-> sec.flowflags, i |-> i,
          iid |-> c.addrs[x].iid, txpackets |-> c.addrs[x].txpackets]

(* Every line a report on c may have. *)
Lines(c) ==
  {Heading} \cup {AddrLine(c, a) : a \in DOMAIN c.addrs}
  \cup {StreamLine(c, s) : s \in DOMAIN c.streams}
  \cup UNION {{StatLine(c, sec, i, x) : i \in 0 .. NumTop(sec) - 1, x \in DOMAIN Table(c, sec)} :
                sec \in Sections}

(* A copy has the entries of streams and protocols in use, in their order, *)
(* and of the addresses those in use at lan and wan.  No two streams, and  *)
(* no two addresses of one part, have the same iid: gStreamCount and       *)
(* gAddrCount count them.                                                  *)
IsCopy(c) ==
  /\ c.addrs \in Seq([iid : Nat, internal : BOOLEAN, txpackets : Nat])
  /\ c.streams \in Seq([iid : Nat, packets : Nat, bytes : Nat, idx_left : DOMAIN c.addrs,
                        idx_right : DOMAIN c.addrs, lport : Nat, rport : Nat])
  /\ c.protos \in Seq([entry : 0 .. 2 * NumTcpProtos - 1, packets : Nat])
  /\ \A s, t \in DOMAIN c.streams : c.streams[s].iid = c.streams[t].iid => s = t
  /\ \A p, q \in DOMAIN c.protos : c.protos[p].entry = c.protos[q].entry => p = q
  /\ \A part \in {c.lan, c.wan} :
       /\ part \in Seq(DOMAIN c.addrs) /\ IsInjective(part)
       /\ \A a, b \in ToSet(part) : c.addrs[a].iid = c.addrs[b].iid => a = b

(* linebuf has 2048 bytes, a new buffer 8192.  The two sections of streams *)
(* show at most 20 streams each and their two addresses, the four of       *)
(* addresses 10 each: no more than 120 in all.                             *)
ASSUME ReportAssumption ==
  /\ \A c \in {NumTcpProtos, TopStreams, TopProtos, TopAddrs, BufSize} : c \in Nat \ {0}
  /\ SuspiciousPorts \in Nat /\ IsFiniteSet(WatchedPorts)
  /\ SeenMax \in Nat /\ 4 * TopStreams + 4 * TopAddrs <= SeenMax
  /\ \A c \in Copies : IsCopy(c) /\ \A l \in Lines(c) : LineLen(l) \in 0 .. BufSize - 1
-----------------------------------------------------------------------------
VARIABLES
  pc,                \* what check_minute does next
  copy,              \* shm_copy
  ports,             \* resvd and resvd2 of the addresses of shm_copy
  ex                 \* the state of export.c

vars == <<pc, copy, ports, ex>>
-----------------------------------------------------------------------------
(***************************************************************************)
(* stringbuf.c.                                                            *)
(***************************************************************************)
sbuf_new(capacity) == [capacity |-> capacity, len |-> 0, lines |-> <<>>]

sbuf_remaining(buf) == buf.capacity - buf.len - 1

(* Mutant: half as much again. *)
sbuf_grow_half(capacity) == capacity + capacity \div 2

(* The capacity that sbuf_append gives sbuf_resize. *)
sbuf_grow(capacity) == capacity * 2

sbuf_append(buf, line) ==
  [capacity |-> IF LineLen(line) > sbuf_remaining(buf) THEN sbuf_grow(buf.capacity) ELSE buf.capacity,
   len      |-> buf.len + LineLen(line),
   lines    |-> Append(buf.lines, line)]

(***************************************************************************)
(* export.c.                                                               *)
(***************************************************************************)
NewBuffers == [addrs |-> sbuf_new(BufSize), streams |-> sbuf_new(BufSize),
               stats |-> sbuf_new(BufSize)]

(* on_stat_period_open: "initialized" is never set, so that every period   *)
(* has new buffers; the old ones are not freed.                            *)
on_stat_period_open(e) == [sbuf |-> NewBuffers, _streams |-> {}, _addrs |-> {}]

(* if (!seen_addr(addr)) on_new_addr(addr) *)
on_new_addr(e, a) ==
  LET id == copy.addrs[a].iid IN
    IF id \in e._addrs THEN e
    ELSE [e EXCEPT !._addrs = @ \cup {id}, !.sbuf.addrs = sbuf_append(@, AddrLine(copy, a))]

(* Mutant: only the left address is put in the table. *)
NewStreamLeftOnly(e, s) ==
  LET stream == copy.streams[s] IN
    IF stream.iid \in e._streams THEN e
    ELSE [on_new_addr(e, stream.idx_left) EXCEPT
            !._streams = @ \cup {stream.iid}, !.sbuf.streams = sbuf_append(@, StreamLine(copy, s))]

(* if (!seen_stream(stream)) on_new_stream(stream, aleft, aright) *)
on_new_stream(e, s) ==
  LET stream == copy.streams[s]
      both   == on_new_addr(on_new_addr(e, stream.idx_left), stream.idx_right)
  IN  IF stream.iid \in e._streams THEN e
      ELSE [both EXCEPT
              !._streams = @ \cup {stream.iid}, !.sbuf.streams = sbuf_append(@, StreamLine(copy, s))]

(* A line of a section, with the heading before the first. *)
AddStat(e, i, line) ==
  LET Headed(b) == IF i = 0 THEN sbuf_append(b, Heading) ELSE b
  IN  [e EXCEPT !.sbuf.stats = sbuf_append(Headed(@), line)]

on_topn_stream(e, sec, i, s) == AddStat(on_new_stream(e, s), i, StatLine(copy, sec, i, s))

on_topn_protocol(e, sec, i, p) == AddStat(e, i, StatLine(copy, sec, i, p))

on_topn_address(e, sec, i, a) == AddStat(on_new_addr(e, a), i, StatLine(copy, sec, i, a))

(***************************************************************************)
(* statproc_handlers.c.                                                    *)
(***************************************************************************)
on_topn(e, sec, i, x) ==
  CASE sec.kind = "TSTR" -> on_topn_stream(e, sec, i, x)
    [] sec.kind = "PORT" -> on_topn_protocol(e, sec, i, x)
    [] sec.kind = "TADR" -> on_topn_address(e, sec, i, x)

(* The loop over the first elements of a sorted list. *)
TopN(e, sec, sorted) ==
  LET N == Min({NumTop(sec), Len(sorted)})
      top[i \in 0 .. N] == IF i = 0 THEN e ELSE on_topn(top[i - 1], sec, i - 1, sorted[i])
  IN  top[N]

(* Pointers to all entries of a table, and a counter of the entries. *)
All(table) == [x \in DOMAIN table |-> x]

Field(table, rec) == [x \in DOMAIN table |-> table[x][rec]]

(* Mutant: the client's port. *)
MarkedByLport(a, side) ==
  {copy.streams[s].lport : s \in {s \in DOMAIN copy.streams : copy.streams[s][side] = a}}

(* mark_dest_port and mark_serve_port: the bits of the ports the internal  *)
(* address a has streams to (side idx_left), or serves (side idx_right).   *)
Marked(a, side) ==
  {copy.streams[s].rport : s \in {s \in DOMAIN copy.streams : copy.streams[s][side] = a}}

_set_port_bits(side) ==
  [a \in DOMAIN copy.addrs |-> IF copy.addrs[a].internal THEN Marked(a, side) \cap WatchedPorts ELSE {}]

ByPackets == Sorted(All(copy.streams), Field(copy.streams, "packets"))

ByBytes == Sorted(ByPackets, Field(copy.streams, "bytes"))

_process_streams ==
  /\ pc = "streams"
  /\ ports' = [resvd |-> _set_port_bits("idx_left"), resvd2 |-> _set_port_bits("idx_right")]
  /\ ex' = TopN(TopN(ex, Section("TSTR", "P", 0), ByPackets), Section("TSTR", "B", 0), ByBytes)
  /\ pc' = "protocols"
  /\ UNCHANGED copy

ProtosByPackets == Sorted(All(copy.protos), Field(copy.protos, "packets"))

_process_protocols ==
  /\ pc = "protocols"
  /\ ex' = TopN(ex, Section("PORT", "P", 0), ProtosByPackets)
  /\ pc' = "lan"
  /\ UNCHANGED <<copy, ports>>

count_bits16(bits) == [a \in DOMAIN bits |-> Cardinality(bits[a])]

(* The addresses of a list with too many ports, by their number. *)
Suspicious(list, count) ==
  LET found[i \in 0 .. Len(list)] ==
        IF i = 0 THEN <<>>
        ELSE IF count[list[i]] > SuspiciousPorts THEN Append(found[i - 1], list[i])
        ELSE found[i - 1]
  IN  found[Len(list)]

BySuspicion(bits) == Sorted(Suspicious(copy.lan, count_bits16(bits)), count_bits16(bits))

ByTxPackets(part) == Sorted(part, Field(copy.addrs, "txpackets"))

(* _process_addrs2 for the LAN, with the two lists of suspicious ones. *)
_process_addrs_lan ==
  /\ pc = "lan"
  /\ LET talkers  == TopN(ex, Section("TADR", "TXP", FLOW_TYPE_INTERNAL), ByTxPackets(copy.lan))
         scanners == TopN(talkers, Section("TADR", "#P>", FLOW_TYPE_INTERNAL), BySuspicion(ports.resvd))
     IN  ex' = TopN(scanners, Section("TADR", "#P<", FLOW_TYPE_INTERNAL), BySuspicion(ports.resvd2))
  /\ pc' = "wan"
  /\ UNCHANGED <<copy, ports>>

_process_addrs_wan ==
  /\ pc = "wan"
  /\ ex' = TopN(ex, Section("TADR", "TXP", 0), ByTxPackets(copy.wan))
  /\ pc' = "close"
  /\ UNCHANGED <<copy, ports>>

(* check_minute begins a period, on any copy of the tables, and after      *)
(* on_stat_period_close, which prints the buffers, the next one.           *)
check_minute ==
  /\ pc \in {"idle", "close"}
  /\ copy' \in Copies
  /\ ex' = on_stat_period_open(ex)
  /\ ports' = [resvd |-> [a \in DOMAIN copy'.addrs |-> {}], resvd2 |-> [a \in DOMAIN copy'.addrs |-> {}]]
  /\ pc' = "streams"

Empty == [streams |-> <<>>, addrs |-> <<>>, lan |-> <<>>, wan |-> <<>>, protos |-> <<>>]

Init ==
  /\ pc = "idle" /\ copy = Empty
  /\ ports = [resvd |-> <<>>, resvd2 |-> <<>>]
  /\ ex = [sbuf |-> NewBuffers, _streams |-> {}, _addrs |-> {}]

Next ==
  \/ check_minute \/ _process_streams \/ _process_protocols
  \/ _process_addrs_lan \/ _process_addrs_wan

Spec == Init /\ [][Next]_vars
-----------------------------------------------------------------------------
InSection(l, sec) == l.kind = sec.kind /\ l.sortby = sec.sortby /\ l.flowflags = sec.flowflags

stats == ex.sbuf.stats.lines

(* The places of the lines of a section. *)
Places(sec) == {p \in DOMAIN stats : InSection(stats[p], sec)}

(* Exactly one line of the buffer has the id. *)
OneOf(buf, id) == \E p \in DOMAIN buf.lines : \A q \in DOMAIN buf.lines : buf.lines[q].iid = id <=> q = p

(* "The Top-N and Anomaly sections only refer to streams and addresses by  *)
(* an ID mapped to the tables": every stream and address of a section, and *)
(* both addresses of every stream, is in the table of this period, once.   *)
IdsAreMapped ==
  pc = "close" =>
    /\ \A p \in DOMAIN stats : stats[p].kind = "TSTR" => OneOf(ex.sbuf.streams, stats[p].iid)
    /\ \A p \in DOMAIN stats : stats[p].kind = "TADR" => OneOf(ex.sbuf.addrs, stats[p].iid)
    /\ \A l \in ToSet(ex.sbuf.streams.lines) :
         OneOf(ex.sbuf.addrs, l.left) /\ OneOf(ex.sbuf.addrs, l.right)

(* What a line is about: the iid of its stream or address, the entry of    *)
(* its port.  Which of the two entries a port has, the protocol tells: UDP *)
(* is the number that statproc_handlers.c has for it.                      *)
Subject(l) == IF l.kind = "PORT"
              THEN l.port + (IF l.ipproto = IPPROTO_UDP THEN NumTcpProtos ELSE 0)
              ELSE l.iid

(* The section has the n largest of the entries of the table, in order:    *)
(* none twice, and none left out that is larger.                           *)
IsTop(sec, table, id, entries, n, rec) ==
  LET Of(p, x) == x \in entries /\ table[x][id] = Subject(stats[p])
  IN  /\ Cardinality(Places(sec)) = Min({n, Cardinality(entries)})
      /\ \A p \in Places(sec) : \E x \in entries : Of(p, x)
      /\ \A p, q \in Places(sec), x, y \in entries :
           p < q /\ Of(p, x) /\ Of(q, y) => x # y /\ table[x][rec] >= table[y][rec]
      /\ \A y \in entries : \/ \E q \in Places(sec) : Of(q, y)
                            \/ \A p \in Places(sec), x \in entries : Of(p, x) => table[x][rec] >= table[y][rec]

(* "Top 20 talkers (address), conversations (streams)" (of addresses the   *)
(* code has 10) and protocols: each section has the largest, in descending *)
(* order, none twice and none larger left out.                             *)
TopIsTop ==
  pc = "close" =>
    /\ IsTop(Section("TSTR", "P", 0), copy.streams, "iid", DOMAIN copy.streams, TopStreams, "packets")
    /\ IsTop(Section("TSTR", "B", 0), copy.streams, "iid", DOMAIN copy.streams, TopStreams, "bytes")
    /\ IsTop(Section("PORT", "P", 0), copy.protos, "entry", DOMAIN copy.protos, TopProtos, "packets")
    /\ IsTop(Section("TADR", "TXP", FLOW_TYPE_INTERNAL), copy.addrs, "iid", ToSet(copy.lan), TopAddrs, "txpackets")
    /\ IsTop(Section("TADR", "TXP", 0), copy.addrs, "iid", ToSet(copy.wan), TopAddrs, "txpackets")

(* "which devices are likely doing fan-out or port-scanning": an internal  *)
(* address is in the section exactly when this minute's streams lead from  *)
(* it (to it) to more watched ports than the limit, if the section is not  *)
(* full.                                                                   *)
ScannersFound ==
  pc = "close" =>
    LET Ports(a, side) == {r.rport : r \in {r \in Range(copy.streams) : r[side] = a}} \cap WatchedPorts
        Many(side) == {a \in ToSet(copy.lan) : copy.addrs[a].internal
                                               /\ Cardinality(Ports(a, side)) > SuspiciousPorts}
        Listed(sortby) == {stats[p].iid : p \in Places(Section("TADR", sortby, FLOW_TYPE_INTERNAL))}
    IN  /\ Cardinality(Many("idx_left")) <= TopAddrs =>
             Listed("#P>") = {copy.addrs[a].iid : a \in Many("idx_left")}
        /\ Cardinality(Many("idx_right")) <= TopAddrs =>
             Listed("#P<") = {copy.addrs[a].iid : a \in Many("idx_right")}

(* "There are 9100 entries for TCP, followed by 9100 entries for UDP", and *)
(* a PORT line says which: its protocol is the number of TCP (6) for an    *)
(* entry of the first half, that of UDP (17) for one of the second.        *)
PortsCarryProtocol ==
  pc = "close" =>
    \A p \in Places(Section("PORT", "P", 0)) : \E x \in DOMAIN copy.protos :
      LET entry == copy.protos[x].entry
      IN  \/ stats[p].ipproto = 6 /\ entry = stats[p].port /\ entry < NumTcpProtos
          \/ stats[p].ipproto = 17 /\ entry = stats[p].port + NumTcpProtos

(* Nothing is written beyond its end: one doubling of a buffer is enough   *)
(* for a line and its terminator, and the lists of what was seen, which    *)
(* nothing bounds, have room for what the sections of a period can show.   *)
BuffersFit ==
  /\ \A b \in DOMAIN ex.sbuf : ex.sbuf[b].len < ex.sbuf[b].capacity
  /\ Cardinality(ex._streams) <= SeenMax /\ Cardinality(ex._addrs) <= SeenMax
=============================================================================
