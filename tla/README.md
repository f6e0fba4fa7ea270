# Verification of minflow

minflow watches the traffic of a small router. A capture process (`minflocap`)
takes packets from libpcap and keeps tables of streams, addresses and ports in a
shared memory segment; a statistics process (`statprocd`) reads the segment every
second and every minute and prints Top-N reports. `rminflo` does both in one
process for a capture file, with the packets' time stamps as its clock. This
directory models the program in TLA+, checks it with TLC and proves parts of it
with TLAPS.

## 1. The system

| part | state | operations | depends on |
|---|---|---|---|
| managed array (`utils/mgarray.c`) | `num_entries`, `idx_lo`, `idx_hi`; which entries are in use is kept in the entries | `mga_init`, `mga_alloc_entry`, `mga_free_entry`, `mga_get` | - |
| packet parser (`net/parse.c`, `net/pktinfo.c`) | none (a buffer and a `pktinfo_t` that are reused) | `net_parse`, `pkt_get_vlan`, MAC look-up | source of packets |
| address classes (`net/iputils.c`) | none | `ipaddr_is_lan` | - |
| stream key (`net/streamkey.c`, `net/pktinfo.c`) | none | `net_stream_init_v4`, `pkt_init_key`, `stream_init_key_from_stream` | - |
| hash table (`utils/hashtable.c`) | buckets of chained pairs, ratio | Put, Get, Remove, RemoveAll, Rehash | callers' keys |
| shared tables (`common/shmdata.c`) | `streams[]`, `addrs[]` (a LAN and a WAN managed array over one raw array), `protos[]`, `flow_stats[]`, `ht_streams`, `ht_v4addrs` | alloc, look-up, free, expiry scan, counters | managed array, hash table, key |
| clean-up (`capture/cleanup.c`) | main list, wait list | `add_stream_to_cleanup_list`, `cleanup_expired_streams` | shared tables |
| packet handler (`capture/main.c`) | `last_sec` | `on_packet` | all of the above |
| capture sources (`capture/capmain.c`, `readcap.c`) | file position | `read_pcap_loop`, `callback` | packet handler |
| statistics (`statproc/`, `common/tval.c`) | last counters, per-second slots, minute clock, copies of the tables | `every_second`, `check_minute`, `_process_*`, `sim_before_packet`, `sim_finish` | shared tables, read without a lock |
| export (`export/`), sorting, string buffer | ids seen in a period, three buffers | `on_topn_*`, `quicksort`, `sbuf_append` | copies of the tables |
| shared memory segment (`utils/ipc.c`), crash handler (`utils/sigsegv.c`) | - | system calls | - |

What is hard here:

* **The managed array** is a two-ended window around the middle with unsigned
  indexes: every order of allocations and frees must keep the entries in use
  inside the window, and the boundary cases (even lengths, entry 0, a drained
  array) are where its arithmetic goes wrong.
* **Identity across time.** Streams, addresses, look-up entries, the clean-up
  lists and last minute's copies all refer to entries by index or pointer, and
  entries are reused. A stale reference is silent.
* **Clean-up is driven by packets and by the clock of the packets**, through two
  lists chosen by the second inside the minute. What must eventually happen
  depends on which list is empty when.
* **Two processes** share the segment without a lock. The reader copies indexes,
  entries and counters at different times, and the writer may restart.
* **Two clocks.** The slot of a second is counted by calls, the end of a minute is
  measured by time; polls come late, files have gaps, clocks are set.
* **Buffers with a past.** Frames are cut off, and what follows them in the buffer
  is what earlier packets have left.

What makes each part correct: the array is a pool whose window misses nothing;
equal keys mean one conversation; a captured frame is understood whatever the
buffer holds; every packet is counted once, in the right class, and reported once;
an ended stream is never forgotten and in the end released; look-ups lead to what
they name; a report lists the largest, and every id in it is explained.

## 2. Modules

| module | models | kind |
|---|---|---|
| `Mgarray` | the managed array, as operators on (geometry, `mga_info_t`, entries in use) | operators |
| `SlotPool` | what callers are promised: a pool of slots | abstract specification |
| `MgarrayLemmas` | what the operators of `Mgarray` do, for one array and for two over one raw array | lemmas |
| `MgarraySpec`, `MgarrayProofs` | one array, any order of `Alloc` and `Free(i)`; its theorems | state machine, refines `SlotPool` |
| `StreamKey` | the canonical key of a packet, and the key rebuilt from a stream | operators |
| `NetParse`, `NetParseProofs` | a frame from its capture to its key, MAC addresses, VLAN and class; uses `StreamKey`; its theorems | state machine |
| `Capture`, `CaptureProofs` | `on_packet` with tables and clean-up; composes `Mgarray` (three instances of its operators, two over one raw array) and `StreamKey`; its theorems | state machine |
| `HashMap` | what callers of the hash table are promised: a map | abstract specification |
| `Hashtable`, `HashtableProofs` | the hash table; its theorems | state machine, refines `HashMap` |
| `StatClock`, `StatClockProofs` | seconds, minutes and totals of the statistics; its theorems | state machine |
| `StatTables`, `StatTablesProofs` | the copies of the tables against a running capture; composes the capture's use of `Mgarray` with the statistics; its theorems | state machine |
| `Sort` | `quicksort` and comparators, as recursive functions | operators |
| `Report`, `ReportProofs` | what a minute's copy becomes: Top-N, port scans, export, buffers; uses `Sort`; its theorems | state machine |
| `MC*` | constants for TLC | instances |

Definitions marked *Mutant* are plausible bugs, used to test that each property
notices them. They are not part of the model.

**`Mgarray`** holds operators and no variables because the LAN and the WAN array
work on one raw array: `taken` is an argument they share. An operation returns the
new `mga_info_t`, the new set of entries in use, and a `fault`, the assert that
would abort the program or `overrun` for an access beyond the raw array. The free
loops are written by what they find (the nearest entry in use, or the limit).
Other loops of the program (the expiry scan, the clean-up of a list, the copy of
the wait list, `HashTableRehash`) are recursive functions of the number of rounds,
with the body of the loop as an operator of its own.

**`Capture`** has one action per step of the process: `on_packet(pkt)` is the whole
handler, from the parse result to the clean-up at its end, as a chain of functions
on the tables in the order of the code and with the code's names. `Tick` and
`StepBack` are the environment: the packets to come are stamped a second later, or
a second earlier (packets of several queues, a clock that is set, a merged file),
at most `MaxBack` seconds behind the newest stamp so far. The capture is a single
thread, so nothing happens inside a handler.

* `ht_streams` keeps the address of the local variable `key` of `on_packet`. The
  variable is at the same place in every call, so at a look-up the stored key is
  the key looked up: `HashTableGet` returns whatever the bucket holds, and a bucket
  never gets a second pair (which also keeps the table far from its rehash
  threshold). `HashTableRemove` from the clean-up finds a pair only if the rebuilt
  key equals the key of the packet in hand. The model keeps one entry per bucket.
* `ht_v4addrs` keeps its own copies of keys and is never shortened.
* The packets' clock is the second inside the minute, `sec`, and `skew`, how far it
  is behind the newest stamp. A stream has an age, its last packet's distance from
  the newest stamp, capped where every stamp finds it expired; `IsExpired` is the
  unsigned comparison of `find_expired_streams`, by which a stream whose last packet
  is *later* than the packet in hand is expired at once. `last` stands for
  `last_sec`, as a distance too: a second is new when the two differ.
* The key that the clean-up rebuilds comes from `addrs[idx_left]` and
  `addrs[idx_right]`. Both entries may have been given to other addresses by then: a
  stream that is cleaned twice frees addresses of live streams, and `ht_v4addrs`
  leads new streams to entries that have changed hands. The rebuilt key may then
  differ from the stream's own, which is one more way into the stale look-up of
  `capture_stale_stream`; nothing is claimed about it.
* `fault` ends the behaviour: `null_addr` (NULL passed to
  `set_stream_flow_flags`), the array's asserts, `assert_get` (`mga_get` in the
  expiry scan), `overrun`. With `StreamRaw = NumStreams + 1` the stream entry one
  past the end can be used, as in memory, where `protos[]` follows `streams[]`.
* `dropped` of a stream (history) says that its clean-up list had no room when it
  ended. The guarantees for ended streams exclude it; that for idle streams does not.
* `strayed` (history) says that one of the two address arrays has handed out an
  entry of the other's part. With an even number of entries the last LAN entry is
  the one that follows its part. No free reaches it (`shm_addr_free` goes to the
  WAN array, whose window does not have it), so that the entry is lost to both, once;
  classes and counts stay right. Further than that an array gets when it has drained and grows downward past `idx_min` (the run
  `mgarray_range`): the WAN array then hands out entries of the LAN part, and
  frees go to the wrong array. What is said of classes and counts of addresses
  holds as long as this has not happened.
* `packets` of a stream keeps only "none yet" or "some", which is all the handler
  tests. `left` and `right` in a stream's key are history.

**`Hashtable`** separates a key (a pointer) from what it points to, so that equal
keys in different objects occur. Every call is an action; allocations may fail in
`HashTablePut` and in a reorganisation. `given` and `freed` record what the table
took over and passed to the deallocation functions. Callers hand over objects
that the table does not have yet, or put a key again.

**`NetParse`** reads by position: a field exists where the frame has it and when
it was captured, everywhere else the read gives junk, any of a set of values. The
steps of `on_packet` up to the stream are its actions, with the return for a packet
from or to the address 0; `pktinfo`, a local variable, starts with junk too. What the
key promises is stated where the handler has just computed it, about the frame in
the buffer and any other packet a frame can carry.

**`StatClock`** has the two programs that drive `every_second`: in mode `file` the
packets' stamps, from inside `on_packet`; in mode `live` the loop of
`statproc/main.c` beside the capture. The packet handler is cut at the places where
a snapshot can fall between two counters. Stamps of a file may step back once, the
wall clock may be set to anything, the capture may restart (the segment is zeroed).
`h` and `seq` are history for the properties; it begins with the first call of
`every_second`, which only takes the counters as they are: packets before it are in
no report.

**`StatTables`** has the interleaving at the granularity of a field: the capture
writes an entry in four stages (taken, cleared, stamped, counted), the statistics
read `idx_lo`, `idx_hi`, then each entry's `tstart` and counter, then `protos[]`.
Streams stand for addresses, whose code is the same. A look-up may be stale (see
`Capture`), so that an entry freed before may be counted. History says for each
entry what is due; an entry that got a new stream between the two reads of one
copy is *torn*, and only then the report may be wrong about it. Two streams that
follow each other in one entry are taken to have different stamps: the code tells
them apart by `tstart` alone, seconds and microseconds, and would take two streams
with equal stamps for one. The entry past the end of `streams[]` is kept apart from
`protos[]`, whose first four entries it overlaps in memory.

**`Report`** begins where `StatTables` ends, with the differences taken, and runs
the `_process_*` functions one after another; `check_minute` begins and ends a
period. `quicksort` takes the function that stands for its own recursive calls as an
argument, and `Sorted` builds it up by the depth of the nesting, as many levels as
the list has elements; the partition loop is a function of the number of rounds. The
theorems show that neither bound cuts anything off. A line is a record of what is
printed; its length is a parameter.

## 3. Runs

Passing:

| run | shows | bounds |
|---|---|---|
| `mgarray` | the window covers all entries and is tight, the array grows only when packed, the inner asserts hold, inversion only when empty, refinement of `SlotPool` | six arrays: odd, even, one entry, starting at 0, at the end of the raw array; words of 64 values, more than twice any index, so that signs and wrap-around are as with 2^32 |
| `netparse` | captured frames are understood whatever junk follows; 72 bytes are enough for two tags and 16 bytes of options; accepted means the IPv4 header was captured; MAC address and VLAN are the right ones; equal keys exactly within a conversation, direction tells the sender | packets between four addresses, 0 among them, with two ports (equal and different, both orders) and two protocols; five tag stacks, three types, five header lengths, first or later fragment, three protocols, ten captured lengths around every boundary, four kinds of junk; 225 pairs of addresses around the masks |
| `capture` | classification, address counts, ended streams stay queued; ended and idle streams are released | two TCP sessions, three stream entries, two LAN and four WAN entries; minute of three seconds with one second of each kind (main list and no cleaning, wait list, main list); age limit 1; clean-up lists of three and two entries, so that streams that end find no room; stamps in order |
| `capture_counters` | every packet counted once or refused, web counters agree, NULL address only when a part is full | four conversations, three LAN hosts for two entries, two stream entries, so that packets and addresses are refused; counters modulo 3; clean-up lists of two and one entries; stamps up to one second late |
| `hashtable` | chains sound, ownership exact, refinement of `HashMap` | four key objects with three contents that collide, three values, from one bucket up to the least prime size, ratios that make every third call reorganise |
| `statclock` | the assert holds, one report per minute, totals and slots have their packets, the final report has its copy | minute of two seconds, five seconds, gaps of two, two microsecond values, counters modulo 3 (at most 2 packets between snapshots), `TimeWord` 2^30 (values beyond are not integers for TLC), large enough for every difference that occurs |
| `stattables` | untorn entries and ports are listed with what is due, nothing in use is missed | two stream entries and the one beyond, three stamps with second 0 among them, counters modulo 3, any number of restarts |
| `report` | sections of streams, ports and addresses are the top, ids are mapped once, scanners found, buffers fit | five streams and five addresses, all permutations of the counters and all values 0 to 2 (ties), all left addresses of three, sections of 3 and 2 of 5, buffers that must grow, lists of what was seen as long as the sections can need (the program has room for 1024 and needs 120) |

Deadlock checking is off where a fault, an aborted program or the end of a file
really stops, and in the array and the hash table, whose caller may stop.

Two to four conversations are enough for the interesting cases: an entry is
reused by another stream, an address is shared by a live and an ended stream, a
stream is queued twice, both lists hold streams at once, a look-up is stale. The
whole state space is explored, with no limit on the length of a behaviour.
`capture` uses an odd number of stream entries, for which the array stays inside
`streams[]`; `capture_counters` uses an even one, as the program does, where the
second stream lies past the end and the next expiry scan aborts.

Fairness (`BusySpec` of `Capture`) is about time and traffic, not about the
program's lists. Time passes (`WF(Tick)`); again and again a packet is the first of
its second, outside the time kept free for the statistics, and is handled to its end;
and again and again a packet with a FIN ends a stream in the seconds in which such a
stream goes to the main list. The code has no timer of its own: what is cleaned is
cleaned by packets.

The last of the three is needed, and the program promises more than it keeps there.
`cleanup.c:17-18` says that the wait queue is moved whenever it is not empty; the code
moves it inside a pass, which `cleanup.c:84` makes only when the *main* list is not
empty. Without the assumption TLC finds behaviours with any amount of traffic in which
waiting streams stay on the wait list, and idle ones in the table, for ever, as no TCP
stream ends in the time of the main list: in a network with UDP only, nothing is ever
released. Under it, an ended stream that had room on its list is released, whichever
list it was on. An idle stream is released or used again unless the lists get crowded:
`Crowded` says that one of them might not have room for all idle streams beside the
one in hand. In the instance this happens, and streams are dropped. The program's wait list has 1638 places for
32768 streams, so this is a real limit, not one of the instance.

Behaviours that end in a fault, or in which `idx_lo` has passed entry 0 (after which
`mga_free_entry` releases nothing), are outside the guarantee. With stamps that step
back, the state space of the two sessions with fairness is beyond reach; the safety
properties are checked with them in `capture_counters` and proved for every `MaxBack`.

Disagreements between the code and its own comments or asserts, each shown by a
run that must fail (quotes are in `PROJECT.json`, `findings`):

| run | what TLC finds |
|---|---|
| `mgarray_range` | after frees the array grows downward past `idx_min`, and hands out an entry `mga_get` refuses |
| `capture_stale_stream` | a released stream is still found, and packets are counted in a free entry |
| `netparse_lan` | 172.17.0.0 to 172.31.255.255 are not internal, 172.48.0.1 is |
| `report_protocols` | PORT lines give TCP ports the number 17 and UDP ports the number 6, as `statproc_handlers.c` has the two defined the other way round; streams in the same report have the right ones |

Seen as well, without a run of their own:

* Array: after it has drained, `idx_hi` may be at or below `idx_lo`, and the next
  allocation fails `assert(diff >= 0)`; an array of even length, as all three of
  the program are, fills one entry past its end and never its first; the entry that
  the LAN array fills in this way is never released.
* Capture: a stream that is queued twice is cleaned twice, and an address with a
  live stream is freed; when the LAN or WAN part is full, the NULL from
  `shm_addr_alloc_v4` is dereferenced (`README.md` says the packet has to be
  dropped); while the main list is empty neither idle nor waiting streams are looked
  at; when a stamp steps back by a second, streams with a later packet count as
  expired and are cleaned although they are in use; a stream that ends while its list is full is dropped from clean-up until it
  is idle, and may then find no room again and again (`Crowded`); the comment at the top of `cleanup.c` has the two lists the other way round,
  so that from second 55 on the packet with the FIN can release the stream itself
  before the statistics see it; `ht_v4addrs` keeps freed addresses.
* Parser: a frame that ends within its tags passes the unsigned length test; the
  transport header's presence is never tested; a single service tag, or two plain
  VLAN tags, are not understood; a VLAN is kept in 8 bits, where 255 is "none";
  `readcap.c:40` reads `caplen` bytes of a file into a buffer of fixed length without
  comparing the two (the model's captured lengths fit the buffer).
* Clock: the borrow of `tval_diff_ms` makes it a test for a new second, and
  `sim_after_packet` never finds one; slots of silent seconds keep the values of an
  earlier minute, and after a silent second the following slots are shifted; the
  last second of a file is not in its total; stamps that step back can fail the
  assert; "stop after hour" is 3600 polls of 250 ms, 15 minutes.
* Tables: an inverted or wrapped window makes a copy of almost 4 GB
  (`spc = "dead"`); `rxbytes` of a new address is not cleared;
  `shm_update_capstats` writes `ifdrops` twice.
* Hash table: no caller in the program registers deallocation functions, so that
  `OwnershipExact` is about the library.
* Report: sections of addresses have 10 lines where `README.md` says 20; the buffers of every period are new and
  the old ones are not freed; a quiet minute prints uninitialised memory.

## 4. Proofs

Every safety property of the passing runs is a theorem.
The constants are bounded by nothing but the named assumptions of the modules,
which TLC evaluates for the instances it checks.

**`MgarrayLemmas`** has what the other proofs use of the array: what `U32` and
`Int32` do on small numbers, what `Take` and each branch of the allocation give,
where the free loops stop. The predicate `Framed` reads the low end as a signed
number (`Low`), so that a wrapped `idx_lo` is -1, and says that the entries in use
lie strictly between the two ends, the low end between -1 and the middle, and that
an inverted window is empty. A last section is about two arrays over one raw array:
an array whose entries all lie outside the other's window works as if it were alone.

**`MgarrayProofs`** proves, for every `Word` and every set of arrays that
`GeometriesAssumption` allows (a raw array that holds the range, indexes below half
a word), `TypeOK`, `WindowCoversEntries`, `AllocAssertsHold`,
`InvertedOnlyWhenEmpty`, `TightWindow`, the action property `GrowsOnlyWhenPacked`,
and that the array implements `SlotPool`. The invariant is `Framed` with
`num_entries` the number of entries in use and at most `total_entries`; tightness
needs a second one, that each end is at an entry in use or has not left the middle.
The interior assert needs a counting argument: a window longer than the number of
entries inside it has a free entry.

**`NetParseProofs`** proves the seven properties for every set of frames (any number
of tags, header lengths 5 to 15 words, any natural addresses, 0 included), every junk in the buffer and every captured
length (`FramesAssumption`). The invariant says for each place of the handler what
was read so far, as a function of the frame: `Arrived`, `KeyRead`, `EndsRead`. Lemma
`CapturedFrame` is its centre: the offsets the parser computes lie inside what was
captured, so that no junk is read. The two properties of the key rest on it as well:
the key in hand is that of the frame's packet, and for two packets the keys are
compared by cases on the order of ports and addresses.

**`HashtableProofs`** proves `ChainsSound`, `OwnershipExact` and the refinement of
`HashMap` for every finite set of keys, every hash function and every set of sizes
and ratios. `PrimesAssumption` says that the search for a prime ends before the
number has doubled, which TLC evaluates for the sizes of the instance. The invariant
ties the chains to a *set* of pairs (`TableOf`): each pair in the bucket of its
hash, once, no two with equal keys, and as many as `numOfElements`. Each call is
then a change of that set, and a reorganisation leaves it alone; the last is
an induction over the chains and the pairs of a chain.

**`StatTablesProofs`** proves `ReportsExact`, `NothingMissed` and `ProtosExact` for
every size of the table, width of the counters and number of restarts. The
invariant has for every entry what the copy, last minute's copy and the history
have to do with each other at each place of the two processes (`EntryInv`), the same
for the port (`ProtoInv`), and for the entries in use throughout a copy that the
window read so far has them and that they were seen (`StableInv`). The writer's and
the reader's steps are proved one by one against it; `Framed` carries the window.

**`CaptureProofs`** proves `TypeOK`, `ClassifiedByOwnAddresses`, `AddrCountsExact`,
`NullOnlyWhenFull`, `FlowStatsAccounted`, `WebPacketsAgree` and `EndedIsQueued` for
every network, every hash function, every `MaxBack` and every size of tables, lists,
minute and counters that `CaptureAssumption` allows; `WebPacketsAgree` with the hypothesis
`WebOutside` (a finite network without web traffic between LAN addresses, web ports
inside the table), which the instances of the runs satisfy. The handler is a chain
of functions on the tables, so the proof has a lemma per function: it keeps `Good`
and changes only the fields it names (`Only`). The parts of the invariant:

* `Tables`, `Sizes`: types of the fields, lengths of the lists; `Framed` for the
  stream array.
* `Parted`: unless `strayed`, the two address arrays are framed each by the entries
  of its part, count them exactly, and an entry once entered in `ht_v4addrs` tells
  by its *place* which kind of address it is for. This is why a stale look-up of an
  address is harmless for the class of a stream: the entry belongs to another
  address by now, but to one of the same kind.
* `Classed`: every stream entry, in use or not (a stale look-up may count in a free
  one), has the type its key says.
* `Queues`: an ended stream with room on its list is on one of the two lists. The
  clean-up of a list may release the streams on it and nothing else puts them off
  it; the copy of the wait list finds room since `WaitMax <= ListMax`.
* `Balanced`: between packets TOTAL is the sum of the types and the refused packets,
  in a handler one more, modulo the width.
* `Agreed`: the two sums of web packets, modulo the width.

The invariant does not need that a stream is cleaned once: that it may be cleaned
twice, with `nstreams_active` wrapping, is part of what it survives.

**`StatClockProofs`** proves all five properties of `StatClock` for every length of
a minute, every width of the counters, every set of microsecond values and every
bound on time that `StatClockAssumption` allows (times and gaps small enough for
the word, a counter of at least two values). The invariant is
`IInv == TypeOK /\ ClockInv /\ TotalInv /\ SlotInv`:

* `ClockInv`: unless stamps have stepped back, the minute's start is a multiple of
  the minute, the last call lies in it, and `sec_i` is at most that call's second
  inside the minute: it counts calls, and there is at most one per second. So it
  reaches the length of the minute at most in the call that ends it, which is the
  assert. In a file `last` has the second of the packet in hand, which needs the
  two lemmas on `tval_diff_ms` (a later second is seen, the same one is not).
* `TotalInv`: counters are the last snapshot plus what was counted since, modulo
  their width, and the running total is what was counted in snapshots since the
  last report, short of the number of wraps.
* `SlotInv`: without a gap, the slot in hand is the second in hand, and each slot
  before it has its packets.

`OneReportPerMinute`, `TotalsReported` and `SlotsAreSeconds` follow from the invariant and
one step. Arithmetic on `%` rests on four small lemmas.

**`ReportProofs`** proves the four properties of `Report` for every set of working
copies, every length of the sections and every length of the lines that
`ReportAssumption` allows. The assumption says what a copy is (`IsCopy`: tables of
natural numbers, the addresses of a stream among those of the copy, no id twice
among the streams or among the addresses of a part, no port twice), that a line is shorter than a new buffer
(2048 and 8192 bytes in the program), and that the lists of what was seen have room
for `4 * TopStreams + 4 * TopAddrs`.

* *Sorting.* `SortedSorts`: `quicksort` returns the list rearranged (each element as
  often as before) and in order. A round of the partition loop keeps everything
  before `i` not after the pivot and everything after `j` after it, and either moves
  the two indexes towards each other or ends, so that `n - m` rounds are enough
  (`Partition`). A call on a part is correct if the calls on shorter parts are: it
  changes nothing outside its part and rearranges it in order. This is an induction
  over the depth of the nesting, with equal counters, the pivot at either end and
  empty parts included.
* *One section.* The Top-N loop writes a heading and one line per place, in the order
  of the sorted list, and nothing else in the statistics; ids and their lines are
  added to the tables together, an id once. Hence the lines of a section are its
  first entries (`TopIsTop`, `ScannersFound`; the entry of a PORT line follows from its
  port and from which of the two protocol numbers it has), and a table has a line for
  every id that is needed (`IdsAreMapped`). A buffer that is not full before a line shorter
  than its first capacity is not full after it, as one doubling at least adds that
  capacity (`BuffersFit`).
* *The period.* The invariant `ReportInv` says for every place of `check_minute`
  which sections were written so far and that each has the lines it should have, that
  the sections do not write into each other, and how many entries the lists of what
  was seen have at most: two addresses and one stream per line of a section of
  streams, one address per line of a section of addresses.

The port sections rest on the bits collected by `_process_streams` and counted by
`_process_addrs2`, which the invariant carries between the two.

**Induction.** The provers cannot instantiate an induction theorem that takes a
predicate. Loops are proved with a first-order form of it: `StepInduction` is about
a *set* of step numbers and follows from the least number outside it, and
`LoopRunExists` shows that the function a loop stands for exists. Sums
(`FoldFunctionOnSet`) are handled in the same way, along the elements that the fold
takes out of the set.

**Model-checked only.** The liveness properties `EndedIsReleased` and
`IdleIsReleased` (fairness is out of the prover's reach), and what the four failing
runs show.

## 5. Not modelled

* libpcap and file set-up, the command line, the system calls for the segment, the
  signal handler: no state of the system.
* Texts of lines and names, hash values, ids as counters, IPv6 (which the code
  refuses).
* Byte, tx/rx and drop counters, which are kept and subtracted by the same
  statements as the packet counters; the OR of TCP flags, which nothing reads.
* Failed allocations of string buffers and tables at start-up.
* Capture and statistics are composed for the tables (`StatTables`) and for the
  counters (`StatClock`), not for all tables of `Capture` at once, whose product
  with the copies is out of TLC's reach.

## 6. Running

`tlc -config <run>.cfg <module>` with the module `PROJECT.json` names for the run,
and `tlapm` on `MgarrayLemmas.tla` and on every `*Proofs.tla` (`CaptureProofs` and
`ReportProofs` take longest, several minutes each).
