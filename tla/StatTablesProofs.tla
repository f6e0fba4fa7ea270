-------------------------- MODULE StatTablesProofs --------------------------
(***************************************************************************)
(* Proofs about StatTables: whatever the capture does while check_minute   *)
(* copies the shared tables, for every number of entries, every width of   *)
(* the counters and every number of streams and restarts.                  *)
(*                                                                         *)
(* The microseconds of a stamp name its stream: SetStart gives each new    *)
(* stream a stamp above all earlier ones, and neither the free of an entry *)
(* nor mga_alloc_entry touches tstart.tv_usec.                             *)
(***************************************************************************)
EXTENDS StatTables, MgarrayLemmas

Counts == 0 .. CtrWord - 1
Stamps == [sec : Nat, usec : Nat]
Tables == [Entries -> [tstart : Stamps, packets : Counts]]

(* A sum of two counters as a counter. *)
Wrap(x) == IF x < CtrWord THEN x ELSE x - CtrWord

(* The types of the state. *)
Typed ==
  /\ si \in Infos /\ ent \in Tables /\ proto \in Counts /\ now \in Nat
  /\ cpc \in [at : {"idle", "alloc", "clear", "count", "proto", "dead", "boot"}, i : Entries]
  /\ spc \in [at : {"idle", "idx_hi", "tstart", "packets", "protos", "process", "dead"},
              i : Entries]
  /\ copy \in [si : Infos, ent : Tables, proto : Counts]
  /\ last \in [si : Infos, ent : Tables, proto : Counts]
  /\ h \in [due : [Entries -> Counts], expect : [Entries -> {-1} \cup Counts],
            stable : SUBSET Entries, torn : BOOLEAN, pdue : Counts, pexpect : Counts,
            pexact : BOOLEAN, reset : BOOLEAN]

(* The window covers the entries in use; a restarted capture has none. *)
Windowed == /\ Framed(Streams, si, Taken)
            /\ cpc.at = "boot" => Taken = {}

(* Entry i has been allocated and has no stream yet. *)
Stage(i) == cpc.at \in {"alloc", "clear"} /\ cpc.i = i

(* The copy is between tstart and counter of entry i. *)
Halfway(i) == spc.at = "packets" /\ spc.i = i

(* The stamps of entry i: those of a stream, also after it was freed, or of a
   stream to come; and no table has a stamp of the future. *)
Stamped(i) ==
  /\ Stage(i) => ent[i].tstart.sec = 1
  /\ ~Stage(i) => ent[i].tstart.sec \in {0, ent[i].tstart.usec - 1}
  /\ Stage(i) /\ cpc.at = "clear" => ent[i].packets = 0
  /\ ent[i].tstart.usec <= now
  /\ copy.ent[i].tstart.usec <= now
  /\ last.ent[i].tstart.usec <= now

(* What was reported of the stream u of entry i. *)
Base(i, u) == IF last.ent[i].tstart.usec = u THEN last.ent[i].packets ELSE 0

(* If the minute before knew stream u, it knew it by its stamp. *)
KnownByStamp(i, u) == last.ent[i].tstart.usec = u => last.ent[i].tstart.sec = u - 1

(* The counter of entry i is what was reported of its stream and what is due. *)
Balanced(i) ==
  /\ ent[i].packets = Wrap(Base(i, ent[i].tstart.usec) + h.due[i])
  /\ KnownByStamp(i, ent[i].tstart.usec)

LiveBalanced(i) == ~Stage(i) /\ ent[i].tstart.sec # 0 => Balanced(i)

(* Between the copies of tstart and counter: the entry still has the stream
   whose stamp was copied, or the copy is marked torn and the streams differ. *)
Copying(i) ==
  Halfway(i) =>
    /\ ~h.torn /\ copy.ent[i].tstart.sec # 0 =>
         /\ ~Stage(i)
         /\ ent[i].tstart.usec = copy.ent[i].tstart.usec
         /\ copy.ent[i].tstart.sec = copy.ent[i].tstart.usec - 1
         /\ Balanced(i)
    /\ h.torn /\ ~Stage(i) /\ ent[i].tstart.usec # 0 =>
         copy.ent[i].tstart.usec # ent[i].tstart.usec

(* The copy of an entry, once both words are copied. *)
Copied(i) ==
  ~Halfway(i) /\ copy.ent[i].tstart.sec # 0 =>
    /\ h.expect[i] # -1 =>
         /\ copy.ent[i].tstart.sec = copy.ent[i].tstart.usec - 1
         /\ copy.ent[i].packets = Wrap(Base(i, copy.ent[i].tstart.usec) + h.expect[i])
         /\ KnownByStamp(i, copy.ent[i].tstart.usec)
         /\ ent[i].tstart.usec = copy.ent[i].tstart.usec =>
              /\ h.expect[i] <= h.due[i]
              /\ ~Stage(i) =>
                   ent[i].packets = Wrap(copy.ent[i].packets + h.due[i] - h.expect[i])
    /\ h.expect[i] = -1 /\ ~Stage(i) /\ ent[i].tstart.usec # 0 =>
         copy.ent[i].tstart.usec # ent[i].tstart.usec

(* A stream known from the minute before is copied as itself. *)
Recopied(i) ==
  ~Stage(i) /\ ent[i].tstart.sec # 0 /\ copy.ent[i].tstart.sec # 0
    /\ last.ent[i].tstart.usec = ent[i].tstart.usec
    => copy.ent[i].tstart.usec = ent[i].tstart.usec

EntryInv(i) == Stamped(i) /\ LiveBalanced(i) /\ Copying(i) /\ Copied(i) /\ Recopied(i)

(* The same for the protocol. *)
ProtoInv ==
  /\ ~h.reset /\ h.pexact => proto = Wrap(last.proto + h.pdue)
  /\ spc.at = "process" =>
       /\ h.pexact => copy.proto = Wrap(last.proto + h.pexpect)
       /\ ~h.reset => /\ h.pexpect <= h.pdue
                      /\ proto = Wrap(copy.proto + h.pdue - h.pexpect)

(* The copy as far as it got has every entry that kept its stream. *)
Bounded == /\ copy.si.idx_lo <= copy.si.idx_hi /\ copy.si.idx_hi <= StreamRaw
           /\ \A i \in h.stable : i < copy.si.idx_hi

Seen(i) == copy.ent[i].tstart.sec # 0

StableInv ==
  /\ \A i \in h.stable : ent[i].tstart.sec # 0 /\ ~Stage(i)
  /\ spc.at \in {"idx_hi", "tstart", "packets", "protos", "process"} =>
       \A i \in h.stable : U32(copy.si.idx_lo + 1) <= i
  /\ spc.at \in {"tstart", "packets", "protos", "process"} => Bounded
  /\ spc.at = "tstart" => /\ spc.i < copy.si.idx_hi
                          /\ \A i \in h.stable : i < spc.i => Seen(i)
  /\ spc.at = "packets" => /\ spc.i < copy.si.idx_hi
                           /\ \A i \in h.stable : i <= spc.i => Seen(i)
  /\ spc.at \in {"protos", "process"} => \A i \in h.stable : Seen(i)

(* The inductive invariant. *)
IInv == Typed /\ Windowed /\ (\A i \in Entries : EntryInv(i)) /\ ProtoInv /\ StableInv
-----------------------------------------------------------------------------
(* The constants: counters have more than one value, and the table is the raw
   array of a managed array. *)
LEMMA Constants ==
  /\ CtrWord \in Nat /\ CtrWord > 1
  /\ StreamRaw \in Nat /\ StreamRaw > 0 /\ Word \in Nat /\ 2 * StreamRaw + 2 < Word
  /\ 0 \in Entries /\ Entries \subseteq Nat
  /\ IsGeometry(Streams) /\ Streams.raw_len = StreamRaw
<1>1. /\ CtrWord \in Nat /\ CtrWord > 1 /\ NumStreams \in Nat /\ NumStreams > 0
      /\ StreamRaw \in Nat /\ StreamRaw >= NumStreams /\ Word \in Nat
      /\ 2 * StreamRaw + 2 < Word
  BY StatTablesAssumption, WordAssumption
<1>2. 0 \in Entries /\ Entries \subseteq Nat
  BY <1>1 DEF Entries
<1>3. /\ Streams.idx_min = 0 /\ Streams.idx_max = NumStreams - 1
      /\ Streams.raw_len = StreamRaw
  BY DEF Streams, MkGeometry
<1>4. IsGeometry(Streams)
  <2>1. Streams = MkGeometry(Streams.idx_min, Streams.idx_max, Streams.raw_len)
    BY <1>3, Zenon DEF Streams
  <2> QED BY <2>1, <1>1, <1>3 DEF IsGeometry
<1> QED BY <1>1, <1>2, <1>3, <1>4

(* Where a process is, by its two fields. *)
LEMMA AtIs ==
  ASSUME Typed, NEW s, NEW j
  PROVE  /\ spc = At(s, j) <=> spc.at = s /\ spc.i = j
         /\ cpc = At(s, j) <=> cpc.at = s /\ cpc.i = j
         /\ At(s, j).at = s /\ At(s, j).i = j
BY DEF At, Typed

(* A uint32_t counter that is incremented. *)
LEMMA Increment ==
  ASSUME NEW x \in Counts
  PROVE  (x + 1) % CtrWord = Wrap(x + 1) /\ Wrap(x + 1) \in Counts
<1>1. CtrWord \in Nat /\ CtrWord > 1 /\ x \in Nat /\ x < CtrWord
  BY Constants DEF Counts
<1>2. CASE x + 1 < CtrWord
  BY <1>1, <1>2, Z3 DEF Wrap, Counts
<1>3. CASE x + 1 = CtrWord
  <2>1. CtrWord % CtrWord = 0
    BY <1>1, SMT
  <2> QED BY <1>1, <1>3, <2>1 DEF Wrap, Counts
<1> QED BY <1>1, <1>2, <1>3

(* The types of one entry. *)
LEMMA EntryTypes ==
  ASSUME Typed, NEW j \in Entries
  PROVE  /\ ent[j].tstart.sec \in Nat /\ ent[j].tstart.usec \in Nat
         /\ ent[j].packets \in Counts
         /\ copy.ent[j].tstart.sec \in Nat /\ copy.ent[j].tstart.usec \in Nat
         /\ copy.ent[j].packets \in Counts
         /\ last.ent[j].tstart.sec \in Nat /\ last.ent[j].tstart.usec \in Nat
         /\ last.ent[j].packets \in Counts
         /\ h.due[j] \in Counts /\ h.expect[j] \in {-1} \cup Counts
         /\ now \in Nat
BY DEF Typed, Tables, Stamps

(* An entry that a step does not touch keeps its invariant. *)
LEMMA EntryFrame ==
  ASSUME Typed, NEW j \in Entries, EntryInv(j),
         ent'[j] = ent[j], copy'.ent[j] = copy.ent[j], last'.ent[j] = last.ent[j],
         h'.due[j] = h.due[j], h'.expect[j] = h.expect[j], now' \in Nat, now' >= now,
         Stage(j)' <=> Stage(j), Stage(j) => cpc'.at = cpc.at,
         Halfway(j)' <=> Halfway(j), Halfway(j) => (h'.torn <=> h.torn)
  PROVE  EntryInv(j)'
<1>1. /\ ent[j].tstart.usec \in Nat /\ copy.ent[j].tstart.usec \in Nat
      /\ last.ent[j].tstart.usec \in Nat /\ now \in Nat
  BY EntryTypes
<1>2. Stamped(j)'
  BY <1>1 DEF EntryInv, Stamped
<1>3. Balanced(j)' <=> Balanced(j)
  BY DEF Balanced, Base, KnownByStamp
<1>4. LiveBalanced(j)'
  BY <1>3 DEF EntryInv, LiveBalanced
<1>5. Copying(j)'
  BY <1>3 DEF EntryInv, Copying
<1>6. Copied(j)'
  BY DEF EntryInv, Copied, Base, KnownByStamp
<1>7. Recopied(j)'
  BY DEF EntryInv, Recopied
<1> QED BY <1>2, <1>4, <1>5, <1>6, <1>7 DEF EntryInv

(* shm_stream_alloc clears the counters of an entry that has no stream. *)
LEMMA ClearStep == ASSUME IInv, Clear PROVE IInv'
<1>0. Typed /\ Windowed /\ ProtoInv /\ StableInv /\ \A j \in Entries : EntryInv(j)
  BY DEF IInv
<1>k. PICK k \in Entries : k = cpc.i
  BY <1>0 DEF Typed
<1>1. /\ cpc.at = "alloc" /\ ent' = [ent EXCEPT ![k].packets = 0]
      /\ cpc' = [cpc EXCEPT !.at = "clear"]
      /\ h' = [h EXCEPT !.torn = @ \/ spc = At("packets", k)]
      /\ UNCHANGED <<si, proto, now, spc, copy, last>>
  BY <1>k DEF Clear
<1>2. cpc'.at = "clear" /\ cpc'.i = k /\ cpc.i = k
  BY <1>k, <1>0, <1>1 DEF Typed
<1>3. /\ h'.due = h.due /\ h'.expect = h.expect /\ h'.stable = h.stable
      /\ h'.pdue = h.pdue /\ h'.pexpect = h.pexpect /\ h'.pexact = h.pexact
      /\ h'.reset = h.reset /\ h'.torn \in BOOLEAN /\ (h'.torn <=> h.torn \/ Halfway(k))
  <2>1. spc = At("packets", k) <=> Halfway(k)
    BY <1>0, AtIs DEF Halfway
  <2> QED BY <1>0, <1>1, <2>1 DEF Typed
<1>4. /\ ent' \in Tables
      /\ \A j \in Entries : ent'[j].tstart = ent[j].tstart
      /\ \A j \in Entries : j # k => ent'[j] = ent[j]
      /\ ent'[k].packets = 0
  <2>1. 0 \in Counts
    BY Constants DEF Counts
  <2>2. ent \in Tables
    BY <1>0 DEF Typed
  <2>3. /\ ent' \in Tables /\ \A j \in Entries : j # k => ent'[j] = ent[j]
        /\ ent'[k].tstart = ent[k].tstart /\ ent'[k].packets = 0
    BY <2>1, <2>2, <1>1 DEF Tables
  <2> QED BY <2>3
<1>5. Typed'
  BY <1>0, <1>1, <1>3, <1>4 DEF Typed
<1>6. Windowed'
  BY <1>0, <1>1, <1>2, <1>4 DEF Windowed, Taken
<1>7. ASSUME NEW j \in Entries PROVE EntryInv(j)'
  <2>1. CASE j # k
    <3>1. ~Stage(j) /\ ~Stage(j)'
      BY <2>1, <1>2 DEF Stage
    <3>2. Halfway(j)' <=> Halfway(j)
      BY <1>1 DEF Halfway
    <3>3. Halfway(j) => (h'.torn <=> h.torn)
      BY <2>1, <1>3, <1>0, Zenon DEF Halfway
    <3>4. now' \in Nat /\ now' >= now
      BY <1>0, <1>1 DEF Typed
    <3> QED BY <2>1, <3>1, <3>2, <3>3, <3>4, <1>0, <1>1, <1>3, <1>4, EntryFrame
  <2>2. CASE j = k
    <3>1. Stage(k) /\ Stage(k)'
      BY <1>1, <1>2, <1>k DEF Stage
    <3>2. Halfway(k)' <=> Halfway(k)
      BY <1>1 DEF Halfway
    <3>3. Halfway(k) => h'.torn
      BY <1>3
    <3>4. EntryInv(k)
      BY <1>0
    <3>5. Stamped(k)'
      BY <3>1, <3>4, <1>0, <1>1, <1>2, <1>4 DEF EntryInv, Stamped
    <3>6. LiveBalanced(k)' /\ Copying(k)' /\ Recopied(k)'
      BY <3>1, <3>2, <3>3 DEF LiveBalanced, Copying, Recopied
    <3>7. Copied(k)'
      BY <3>1, <3>2, <3>4, <1>0, <1>1, <1>3, <1>4 DEF EntryInv, Copied, Base, KnownByStamp
    <3> QED BY <2>2, <3>5, <3>6, <3>7 DEF EntryInv
  <2> QED BY <2>1, <2>2
<1>8. ProtoInv'
  BY <1>0, <1>1, <1>3 DEF ProtoInv
<1>9. StableInv'
  <2>1. \A j \in h.stable : j \in Entries
    BY <1>0 DEF Typed
  <2>2. \A j \in h.stable : Stage(j)' => Stage(j)
    BY <1>1, <1>2 DEF Stage
  <2> QED BY <2>1, <2>2, <1>0, <1>1, <1>3, <1>4 DEF StableInv, Bounded, Seen
<1> QED BY <1>5, <1>6, <1>7, <1>8, <1>9 DEF IInv

(* on_packet gives the entry its stream: the stamp is new to every table. *)
LEMMA SetStartStep == ASSUME IInv, SetStart PROVE IInv'
<1>0. Typed /\ Windowed /\ ProtoInv /\ StableInv /\ \A j \in Entries : EntryInv(j)
  BY DEF IInv
<1>k. PICK k \in Entries : k = cpc.i
  BY <1>0 DEF Typed
<1>1. /\ cpc.at = "clear" /\ ent' = [ent EXCEPT ![k].tstart = Stamp(now)]
      /\ now' = now + 1 /\ cpc' = [cpc EXCEPT !.at = "count"]
      /\ h' = [h EXCEPT !.due[k] = 0, !.torn = @ \/ spc = At("packets", k)]
      /\ UNCHANGED <<si, proto, spc, copy, last>>
  BY <1>k DEF SetStart
<1>2. /\ cpc'.at = "count" /\ cpc'.i = k /\ cpc.i = k
      /\ now \in Nat /\ now' \in Nat /\ now' >= now
  BY <1>k, <1>0, <1>1 DEF Typed
<1>3. /\ \A j \in Entries : h'.due[j] = IF j = k THEN 0 ELSE h.due[j]
      /\ h'.expect = h.expect /\ h'.stable = h.stable
      /\ h'.pdue = h.pdue /\ h'.pexpect = h.pexpect /\ h'.pexact = h.pexact
      /\ h'.reset = h.reset /\ h'.torn \in BOOLEAN /\ (h'.torn <=> h.torn \/ Halfway(k))
      /\ h'.due \in [Entries -> Counts]
  <2>1. spc = At("packets", k) <=> Halfway(k)
    BY <1>0, AtIs DEF Halfway
  <2>2. 0 \in Counts
    BY Constants DEF Counts
  <2> QED BY <1>0, <1>1, <2>1, <2>2 DEF Typed
<1>4. /\ ent' \in Tables
      /\ \A j \in Entries : j # k => ent'[j] = ent[j]
      /\ ent'[k].tstart.sec = now /\ ent'[k].tstart.usec = now + 1
      /\ ent'[k].packets = ent[k].packets
  <2>1. Stamp(now) \in Stamps /\ Stamp(now).sec = now /\ Stamp(now).usec = now + 1
    BY <1>2 DEF Stamp, Stamps
  <2>2. ent \in Tables
    BY <1>0 DEF Typed
  <2> QED BY <2>1, <2>2, <1>1 DEF Tables
<1>s. EntryInv(k) /\ Stage(k) /\ ~Stage(k)' /\ \A j \in Entries : j # k => ~Stage(j) /\ ~Stage(j)'
  BY <1>0, <1>1, <1>2 DEF Stage
<1>5. Typed'
  BY <1>0, <1>1, <1>2, <1>3, <1>4 DEF Typed
<1>6. Windowed'
  <2>1. Taken' \subseteq Taken
    <3>1. ent[k].tstart.sec = 1
      BY <1>s DEF EntryInv, Stamped
    <3> QED BY <3>1, <1>4 DEF Taken
  <2> QED BY <2>1, <1>0, <1>1, <1>2 DEF Windowed, Framed
<1>7. ASSUME NEW j \in Entries PROVE EntryInv(j)'
  <2>1. CASE j # k
    <3>1. ~Stage(j) /\ ~Stage(j)'
      BY <2>1, <1>s
    <3>2. Halfway(j)' <=> Halfway(j)
      BY <1>1 DEF Halfway
    <3>3. Halfway(j) => (h'.torn <=> h.torn)
      BY <2>1, <1>3, Zenon DEF Halfway
    <3> QED BY <2>1, <3>1, <3>2, <3>3, <1>0, <1>1, <1>2, <1>3, <1>4, EntryFrame
  <2>2. CASE j = k
    <3>2. Halfway(k)' <=> Halfway(k)
      BY <1>1 DEF Halfway
    <3>3. Halfway(k) => h'.torn
      BY <1>3
    <3>4. /\ copy.ent[k].tstart.usec \in Nat /\ last.ent[k].tstart.usec \in Nat
          /\ ent[k].tstart.usec \in Nat
          /\ copy.ent[k].tstart.usec <= now /\ last.ent[k].tstart.usec <= now
          /\ ent[k].packets = 0 /\ h'.due[k] = 0
      BY <1>s, <1>1, <1>3, <1>0, EntryTypes DEF EntryInv, Stamped
    <3>5. Stamped(k)'
      BY <3>4, <1>s, <1>1, <1>2, <1>4 DEF Stamped
    <3>6. copy'.ent[k].tstart.usec # ent'[k].tstart.usec /\ last'.ent[k].tstart.usec # ent'[k].tstart.usec
      BY <3>4, <1>1, <1>2, <1>4
    <3>7. Balanced(k)'
      BY <3>4, <3>6, <1>4, Constants DEF Balanced, Base, KnownByStamp, Wrap
    <3>8. LiveBalanced(k)' /\ Copying(k)' /\ Recopied(k)'
      BY <3>2, <3>3, <3>6, <3>7 DEF LiveBalanced, Copying, Recopied
    <3>9. Copied(k)'
      BY <3>2, <3>6, <1>s, <1>0, <1>1, <1>3 DEF EntryInv, Copied, Base, KnownByStamp
    <3> QED BY <2>2, <3>5, <3>8, <3>9 DEF EntryInv
  <2> QED BY <2>1, <2>2
<1>8. ProtoInv'
  BY <1>0, <1>1, <1>3 DEF ProtoInv
<1>9. StableInv'
  <2>1. \A j \in h.stable : j \in Entries /\ j # k
    BY <1>0, <1>s DEF Typed, StableInv
  <2> QED BY <2>1, <1>s, <1>0, <1>1, <1>3, <1>4 DEF StableInv, Bounded, Seen
<1> QED BY <1>5, <1>6, <1>7, <1>8, <1>9 DEF IInv

(* A stream is counted, in an entry in use or in one freed since. *)
LEMMA CountStreamStep == ASSUME IInv, NEW k \in Entries, CountStream(k) PROVE IInv'
<1>0. Typed /\ Windowed /\ ProtoInv /\ StableInv /\ \A j \in Entries : EntryInv(j)
  BY DEF IInv
<1>1. /\ cpc = Idle \/ cpc = At("count", k)
      /\ h.due[k] < CtrWord - 1 /\ ent[k].tstart.usec # 0
      /\ ent' = [ent EXCEPT ![k].packets = (@ + 1) % CtrWord]
      /\ cpc' = At("proto", k) /\ h' = [h EXCEPT !.due[k] = @ + 1]
      /\ UNCHANGED <<si, proto, now, spc, copy, last>>
  BY DEF CountStream
<1>2. /\ cpc'.at = "proto" /\ cpc'.i = k /\ cpc.at \in {"idle", "count"}
      /\ now \in Nat /\ now' \in Nat /\ now' >= now
      /\ cpc' \in [at : {"idle", "alloc", "clear", "count", "proto", "dead", "boot"}, i : Entries]
  BY <1>0, <1>1 DEF Typed, At, Idle
<1>3. /\ \A j \in Entries : h'.due[j] = IF j = k THEN h.due[k] + 1 ELSE h.due[j]
      /\ h'.expect = h.expect /\ h'.stable = h.stable
      /\ h'.pdue = h.pdue /\ h'.pexpect = h.pexpect /\ h'.pexact = h.pexact
      /\ h'.reset = h.reset /\ h'.torn = h.torn
      /\ h'.due \in [Entries -> Counts]
  <2>1. h.due[k] + 1 \in Counts
    BY <1>0, <1>1, Constants, EntryTypes DEF Counts
  <2> QED BY <1>0, <1>1, <2>1 DEF Typed
<1>4. /\ ent' \in Tables
      /\ \A j \in Entries : j # k => ent'[j] = ent[j]
      /\ \A j \in Entries : ent'[j].tstart = ent[j].tstart
      /\ ent'[k].packets = Wrap(ent[k].packets + 1)
  <2>1. ent[k].packets \in Counts
    BY <1>0, EntryTypes
  <2>2. (ent[k].packets + 1) % CtrWord = Wrap(ent[k].packets + 1) /\ Wrap(ent[k].packets + 1) \in Counts
    BY <2>1, Increment
  <2>3. ent \in Tables
    BY <1>0 DEF Typed
  <2> QED BY <2>2, <2>3, <1>1 DEF Tables
<1>s. \A j \in Entries : ~Stage(j) /\ ~Stage(j)'
  BY <1>2 DEF Stage
<1>5. Typed'
  BY <1>0, <1>1, <1>2, <1>3, <1>4 DEF Typed
<1>6. Windowed'
  <2>1. Taken' = Taken
    BY <1>4 DEF Taken
  <2> QED BY <2>1, <1>0, <1>1, <1>2 DEF Windowed
<1>h. \A j \in Entries : Halfway(j)' <=> Halfway(j)
  BY <1>1 DEF Halfway
<1>7. ASSUME NEW j \in Entries PROVE EntryInv(j)'
  <2>1. CASE j # k
    BY <2>1, <1>0, <1>1, <1>2, <1>3, <1>4, <1>s, <1>h, EntryFrame
  <2>2. CASE j = k
    <3>1. EntryInv(k)
      BY <1>0
    <3>2. /\ ent[k].packets \in Nat /\ copy.ent[k].packets \in Nat /\ last.ent[k].packets \in Nat
          /\ ent[k].packets < CtrWord /\ copy.ent[k].packets < CtrWord
          /\ last.ent[k].packets < CtrWord
          /\ h.due[k] \in Nat /\ CtrWord \in Nat /\ CtrWord > 1
          /\ h.expect[k] \in Int /\ h.expect[k] >= -1
          /\ h'.due[k] = h.due[k] + 1 /\ h.due[k] < CtrWord - 1
      <4>1. /\ ent[k].packets \in Counts /\ copy.ent[k].packets \in Counts
            /\ last.ent[k].packets \in Counts
            /\ h.due[k] \in Counts /\ h.expect[k] \in {-1} \cup Counts
        BY <1>0, EntryTypes
      <4> QED BY <4>1, <1>1, <1>3, Constants DEF Counts
    <3>3. Balanced(k) => Balanced(k)'
      BY <3>2, <1>1, <1>4 DEF Balanced, Base, KnownByStamp, Wrap
    <3>4. Stamped(k)'
      BY <3>1, <1>s, <1>1, <1>2, <1>4 DEF EntryInv, Stamped
    <3>5. LiveBalanced(k)' /\ Copying(k)' /\ Recopied(k)'
      BY <3>1, <3>3, <1>s, <1>h, <1>1, <1>3, <1>4 DEF EntryInv, LiveBalanced, Copying, Recopied
    <3>6. Copied(k)'
      <4>1. ASSUME h.expect[k] <= h.due[k], h.expect[k] # -1,
                   ent[k].packets = Wrap(copy.ent[k].packets + h.due[k] - h.expect[k])
            PROVE  /\ h'.expect[k] <= h'.due[k]
                   /\ ent'[k].packets = Wrap(copy'.ent[k].packets + h'.due[k] - h'.expect[k])
        BY <4>1, <3>2, <1>1, <1>3, <1>4 DEF Wrap
      <4> QED BY <4>1, <3>1, <1>s, <1>h, <1>1, <1>3, <1>4 DEF EntryInv, Copied, Base, KnownByStamp
    <3> QED BY <2>2, <3>4, <3>5, <3>6 DEF EntryInv
  <2> QED BY <2>1, <2>2
<1>8. ProtoInv'
  BY <1>0, <1>1, <1>3 DEF ProtoInv
<1>9. StableInv'
  <2>1. \A j \in h.stable : j \in Entries
    BY <1>0 DEF Typed
  <2> QED BY <2>1, <1>s, <1>0, <1>1, <1>3, <1>4 DEF StableInv, Bounded, Seen
<1> QED BY <1>5, <1>6, <1>7, <1>8, <1>9 DEF IInv

(* The protocol of the packet is counted. *)
LEMMA IncProtocolStep == ASSUME IInv, inc_protocol_counters PROVE IInv'
<1>0. Typed /\ Windowed /\ ProtoInv /\ StableInv /\ \A j \in Entries : EntryInv(j)
  BY DEF IInv
<1>1. /\ cpc.at = "proto" /\ h.pdue < CtrWord - 1 /\ proto' = (proto + 1) % CtrWord
      /\ cpc' = Idle /\ h' = [h EXCEPT !.pdue = @ + 1]
      /\ UNCHANGED <<si, ent, now, spc, copy, last>>
  BY DEF inc_protocol_counters
<1>2. /\ cpc'.at = "idle" /\ now \in Nat /\ now' \in Nat /\ now' >= now
      /\ cpc' \in [at : {"idle", "alloc", "clear", "count", "proto", "dead", "boot"}, i : Entries]
  BY <1>0, <1>1, Constants DEF Typed, At, Idle
<1>3. /\ h'.due = h.due /\ h'.expect = h.expect /\ h'.stable = h.stable
      /\ h'.pdue = h.pdue + 1 /\ h'.pexpect = h.pexpect /\ h'.pexact = h.pexact
      /\ h'.reset = h.reset /\ h'.torn = h.torn /\ h'.pdue \in Counts
  <2>1. h.pdue + 1 \in Counts
    BY <1>0, <1>1, Constants DEF Counts, Typed
  <2> QED BY <1>0, <1>1, <2>1 DEF Typed
<1>4. proto' = Wrap(proto + 1) /\ proto' \in Counts
  BY <1>0, <1>1, Increment DEF Typed
<1>s. \A j \in Entries : ~Stage(j) /\ ~Stage(j)'
  BY <1>1, <1>2 DEF Stage
<1>5. Typed'
  BY <1>0, <1>1, <1>2, <1>3, <1>4 DEF Typed
<1>6. Windowed'
  BY <1>0, <1>1, <1>2 DEF Windowed, Taken
<1>7. ASSUME NEW j \in Entries PROVE EntryInv(j)'
  <2>1. Halfway(j)' <=> Halfway(j)
    BY <1>1 DEF Halfway
  <2> QED BY <2>1, <1>0, <1>1, <1>2, <1>3, <1>s, EntryFrame
<1>8. ProtoInv'
  <2>1. /\ proto \in Counts /\ last.proto \in Counts /\ copy.proto \in Counts
        /\ h.pdue \in Counts /\ h.pexpect \in Counts
    BY <1>0 DEF Typed
  <2> QED BY <2>1, <1>0, <1>1, <1>3, <1>4, Constants DEF ProtoInv, Wrap, Counts
<1>9. StableInv'
  <2>1. \A j \in h.stable : j \in Entries
    BY <1>0 DEF Typed
  <2> QED BY <2>1, <1>s, <1>0, <1>1, <1>3 DEF StableInv, Bounded, Seen
<1> QED BY <1>5, <1>6, <1>7, <1>8, <1>9 DEF IInv

(* mga_alloc_entry marks an entry that has no stream in use, inside the new
   window; a failed assert changes no table. *)
LEMMA AllocStep == ASSUME IInv, Alloc PROVE IInv'
<1>0. Typed /\ Windowed /\ ProtoInv /\ StableInv /\ \A j \in Entries : EntryInv(j)
  BY DEF IInv
<1> DEFINE r == mga_alloc_entry(Streams, si, Taken)
<1>1. cpc = Idle /\ UNCHANGED <<proto, now, spc, copy, last>>
  BY DEF Alloc
<1>2. \/ r.fault # "none" /\ cpc' = At("dead", 0) /\ UNCHANGED <<si, ent, h>>
      \/ /\ r.fault = "none" /\ r.idx # NoEntry /\ si' = r.p
         /\ ent' = [ent EXCEPT ![r.idx].tstart.sec = 1]
         /\ cpc' = At("alloc", r.idx)
         /\ h' = [h EXCEPT !.stable = @ \ {r.idx}, !.torn = @ \/ spc = At("packets", r.idx)]
  BY DEF Alloc
<1>3. r.fault = "none" /\ r.idx # NoEntry =>
        /\ r.idx \in Entries /\ r.idx \notin Taken
        /\ r.taken = Taken \cup {r.idx} /\ Framed(Streams, r.p, r.taken)
  <2>1. Framed(Streams, si, Taken) /\ IsGeometry(Streams) /\ Streams.raw_len = StreamRaw
    BY <1>0, Constants DEF Windowed
  <2>2. r.fault = "none" /\ r.idx # NoEntry =>
          /\ r.idx \in 0 .. Streams.raw_len - 1 /\ r.idx \notin Taken
          /\ r.taken = Taken \cup {r.idx} /\ Framed(Streams, r.p, r.taken)
    BY <2>1, AllocFramed
  <2> QED BY <2>1, <2>2 DEF Entries
<1> HIDE DEF r
<1>4. /\ cpc.at = "idle" /\ now \in Nat /\ now' \in Nat /\ now' >= now
      /\ \A j \in Entries : ~Stage(j) /\ (Halfway(j)' <=> Halfway(j))
  BY <1>0, <1>1 DEF Typed, At, Idle, Stage, Halfway
<1>5. CASE r.fault # "none" /\ cpc' = At("dead", 0) /\ UNCHANGED <<si, ent, h>>
  <2>1. /\ cpc'.at = "dead"
        /\ cpc' \in [at : {"idle", "alloc", "clear", "count", "proto", "dead", "boot"}, i : Entries]
    BY <1>5, Constants DEF At
  <2>2. \A j \in Entries : ~Stage(j)'
    BY <2>1 DEF Stage
  <2>3. Typed'
    BY <2>1, <1>0, <1>1, <1>5 DEF Typed
  <2>4. Windowed'
    BY <2>1, <1>0, <1>1, <1>5 DEF Windowed, Taken
  <2>5. \A j \in Entries : EntryInv(j)'
    BY <2>2, <1>0, <1>1, <1>4, <1>5, EntryFrame
  <2>6. ProtoInv'
    BY <1>0, <1>1, <1>5 DEF ProtoInv
  <2>7. StableInv'
    <3>1. \A j \in h.stable : j \in Entries
      BY <1>0 DEF Typed
    <3> QED BY <3>1, <2>2, <1>0, <1>1, <1>5 DEF StableInv, Bounded, Seen
  <2> QED BY <2>3, <2>4, <2>5, <2>6, <2>7 DEF IInv
<1>6. CASE /\ r.fault = "none" /\ r.idx # NoEntry /\ si' = r.p
           /\ ent' = [ent EXCEPT ![r.idx].tstart.sec = 1]
           /\ cpc' = At("alloc", r.idx)
           /\ h' = [h EXCEPT !.stable = @ \ {r.idx}, !.torn = @ \/ spc = At("packets", r.idx)]
  <2>k. PICK k \in Entries : k = r.idx
    BY <1>3, <1>6
  <2>1. /\ cpc'.at = "alloc" /\ cpc'.i = k
        /\ cpc' \in [at : {"idle", "alloc", "clear", "count", "proto", "dead", "boot"}, i : Entries]
    BY <1>6, <2>k DEF At
  <2>2. Stage(k)' /\ \A j \in Entries : j # k => ~Stage(j)'
    BY <2>1 DEF Stage
  <2>3. /\ h'.due = h.due /\ h'.expect = h.expect /\ h'.stable = h.stable \ {k}
        /\ h'.pdue = h.pdue /\ h'.pexpect = h.pexpect /\ h'.pexact = h.pexact
        /\ h'.reset = h.reset /\ h'.torn \in BOOLEAN /\ (h'.torn <=> h.torn \/ Halfway(k))
    <3>1. spc = At("packets", k) <=> Halfway(k)
      BY <1>0, AtIs DEF Halfway
    <3> QED BY <3>1, <2>k, <1>0, <1>6 DEF Typed
  <2>4. /\ ent' \in Tables /\ \A j \in Entries : j # k => ent'[j] = ent[j]
        /\ ent'[k].tstart.sec = 1 /\ ent'[k].tstart.usec = ent[k].tstart.usec
        /\ ent'[k].packets = ent[k].packets
    <3>1. ent \in Tables
      BY <1>0 DEF Typed
    <3> QED BY <3>1, <2>k, <1>6 DEF Tables, Stamps
  <2>5. Taken' = Taken \cup {k} /\ Framed(Streams, si', Taken')
    <3>1. Taken' = Taken \cup {k}
      BY <2>4 DEF Taken
    <3> QED BY <3>1, <2>k, <1>3, <1>6
  <2>6. Typed'
    <3>1. si' \in Infos
      BY <2>5 DEF Framed, Bracketed
    <3>2. h'.stable \in SUBSET Entries
      BY <2>3, <1>0 DEF Typed
    <3> QED BY <3>1, <3>2, <2>1, <2>3, <2>4, <1>0, <1>1, <1>6 DEF Typed
  <2>7. Windowed'
    BY <2>1, <2>5 DEF Windowed
  <2>8. ASSUME NEW j \in Entries PROVE EntryInv(j)'
    <3>1. CASE j # k
      <4>1. Halfway(j) => (h'.torn <=> h.torn)
        BY <3>1, <2>3, Zenon DEF Halfway
      <4> QED BY <3>1, <4>1, <2>2, <2>3, <2>4, <1>0, <1>1, <1>4, EntryFrame
    <3>2. CASE j = k
      <4>1. EntryInv(k) /\ (Halfway(k) => h'.torn) /\ ~Stage(k)
        BY <1>0, <1>4, <2>3
      <4>2. Stamped(k)'
        BY <4>1, <1>1, <2>1, <2>2, <2>4 DEF EntryInv, Stamped
      <4>3. LiveBalanced(k)' /\ Copying(k)' /\ Recopied(k)'
        BY <4>1, <2>2, <1>4 DEF LiveBalanced, Copying, Recopied
      <4>4. Copied(k)'
        BY <4>1, <2>2, <2>3, <2>4, <1>1, <1>4 DEF EntryInv, Copied, Base, KnownByStamp
      <4> QED BY <3>2, <4>2, <4>3, <4>4 DEF EntryInv
    <3> QED BY <3>1, <3>2
  <2>9. ProtoInv'
    BY <2>3, <1>0, <1>1 DEF ProtoInv
  <2>10. StableInv'
    <3>1. \A j \in h'.stable : j \in Entries /\ j # k /\ j \in h.stable
      BY <2>3, <1>0 DEF Typed
    <3> QED BY <3>1, <2>2, <2>4, <1>0, <1>1 DEF StableInv, Bounded, Seen
  <2> QED BY <2>6, <2>7, <2>8, <2>9, <2>10 DEF IInv
<1> QED BY <1>2, <1>5, <1>6

(* The clean-up frees an entry: its counter and the microseconds stay. *)
LEMMA FreeStep == ASSUME IInv, NEW k \in Entries, Free(k) PROVE IInv'
<1>0. Typed /\ Windowed /\ ProtoInv /\ StableInv /\ \A j \in Entries : EntryInv(j)
  BY DEF IInv
<1> DEFINE r == mga_free_entry(Streams, si, Taken, k)
<1>1. /\ cpc = Idle /\ k \in Taken /\ si' = r.p
      /\ ent' = [ent EXCEPT ![k].tstart.sec = IF k \in r.taken THEN @ ELSE 0]
      /\ h' = [h EXCEPT !.stable = @ \ {k}]
      /\ UNCHANGED <<proto, cpc, now, spc, copy, last>>
  BY DEF Free
<1>2. Framed(Streams, r.p, r.taken) /\ (r.taken = Taken \/ r.taken = Taken \ {k})
  <2>1. Framed(Streams, si, Taken) /\ IsGeometry(Streams)
    BY <1>0, Constants DEF Windowed
  <2>2. Freed(Streams, si, Taken, k, r)
    BY <2>1, FreeFrees
  <2> HIDE DEF r
  <2> QED BY <2>1, <2>2 DEF Freed
<1> HIDE DEF r
<1>3. /\ cpc.at = "idle" /\ cpc'.at = "idle" /\ now \in Nat /\ now' \in Nat /\ now' >= now
      /\ \A j \in Entries : ~Stage(j) /\ ~Stage(j)' /\ (Halfway(j)' <=> Halfway(j))
  BY <1>0, <1>1 DEF Typed, At, Idle, Stage, Halfway
<1>4. /\ h'.due = h.due /\ h'.expect = h.expect /\ h'.stable = h.stable \ {k}
      /\ h'.pdue = h.pdue /\ h'.pexpect = h.pexpect /\ h'.pexact = h.pexact
      /\ h'.reset = h.reset /\ h'.torn = h.torn
  BY <1>0, <1>1 DEF Typed
<1>5. /\ ent' \in Tables /\ \A j \in Entries : j # k => ent'[j] = ent[j]
      /\ ent'[k].tstart.sec = (IF k \in r.taken THEN ent[k].tstart.sec ELSE 0)
      /\ ent'[k].tstart.usec = ent[k].tstart.usec
      /\ ent'[k].packets = ent[k].packets
  <2>1. ent \in Tables
    BY <1>0 DEF Typed
  <2> QED BY <2>1, <1>1 DEF Tables, Stamps
<1>6. Taken' = r.taken
  <2>1. ASSUME NEW j \in Entries PROVE j \in Taken' <=> j \in r.taken
    <3>1. CASE j # k
      BY <3>1, <1>2, <1>5 DEF Taken
    <3>2. CASE j = k
      BY <3>2, <1>1, <1>2, <1>5 DEF Taken
    <3> QED BY <3>1, <3>2
  <2>2. Taken' \subseteq Entries /\ r.taken \subseteq Entries
    BY <1>2 DEF Taken
  <2> QED BY <2>1, <2>2
<1>7. Typed'
  <2>1. si' \in Infos
    BY <1>1, <1>2 DEF Framed, Bracketed
  <2>2. h'.stable \in SUBSET Entries
    BY <1>4, <1>0 DEF Typed
  <2> QED BY <2>1, <2>2, <1>4, <1>5, <1>0, <1>1 DEF Typed
<1>8. Windowed'
  BY <1>1, <1>2, <1>3, <1>6 DEF Windowed
<1>9. ASSUME NEW j \in Entries PROVE EntryInv(j)'
  <2>1. CASE j # k
    BY <2>1, <1>0, <1>1, <1>3, <1>4, <1>5, EntryFrame
  <2>2. CASE j = k
    <3>1. EntryInv(k) /\ ~Stage(k) /\ ~Stage(k)' /\ (Halfway(k)' <=> Halfway(k))
      BY <1>0, <1>3
    <3>2. ent'[k].tstart.sec \in {0, ent[k].tstart.sec}
      BY <1>5
    <3>3. Stamped(k)'
      BY <3>1, <3>2, <1>1, <1>3, <1>5 DEF EntryInv, Stamped
    <3>4. Balanced(k)' <=> Balanced(k)
      BY <1>1, <1>4, <1>5 DEF Balanced, Base, KnownByStamp
    <3>5. LiveBalanced(k)' /\ Recopied(k)'
      BY <3>1, <3>2, <3>4, <1>1, <1>4, <1>5 DEF EntryInv, LiveBalanced, Recopied
    <3>6. Copying(k)'
      BY <3>1, <3>4, <1>1, <1>4, <1>5 DEF EntryInv, Copying
    <3>7. Copied(k)'
      BY <3>1, <1>1, <1>4, <1>5 DEF EntryInv, Copied, Base, KnownByStamp
    <3> QED BY <2>2, <3>3, <3>5, <3>6, <3>7 DEF EntryInv
  <2> QED BY <2>1, <2>2
<1>10. ProtoInv'
  BY <1>0, <1>1, <1>4 DEF ProtoInv
<1>11. StableInv'
  <2>1. \A j \in h'.stable : j \in Entries /\ j # k /\ j \in h.stable
    BY <1>4, <1>0 DEF Typed
  <2> QED BY <2>1, <1>3, <1>0, <1>1, <1>5 DEF StableInv, Bounded, Seen
<1> QED BY <1>7, <1>8, <1>9, <1>10, <1>11 DEF IInv

(* A restarted capture zeroes every table; the copies of the statistics stay. *)
LEMMA RestartStep == ASSUME IInv, Restart PROVE IInv'
<1>0. Typed /\ Windowed /\ ProtoInv /\ StableInv /\ \A j \in Entries : EntryInv(j)
  BY DEF IInv
<1>1. /\ si' = NoInfo /\ ent' = ZeroTables.ent /\ proto' = 0 /\ cpc' = At("boot", 0)
      /\ h' = [h EXCEPT !.stable = {}, !.torn = TRUE, !.reset = TRUE,
                        !.due = [i \in Entries |-> 0], !.pdue = 0]
      /\ UNCHANGED <<now, spc, copy, last>>
  BY DEF Restart
<1>2. /\ cpc'.at = "boot" /\ now \in Nat /\ now' \in Nat /\ 0 \in Counts /\ 0 \in Nat
      /\ cpc' \in [at : {"idle", "alloc", "clear", "count", "proto", "dead", "boot"}, i : Entries]
  BY <1>0, <1>1, Constants DEF Typed, At, Counts
<1>3. /\ h'.due = [i \in Entries |-> 0] /\ h'.expect = h.expect /\ h'.stable = {}
      /\ h'.pdue = 0 /\ h'.pexpect = h.pexpect /\ h'.pexact = h.pexact
      /\ h'.reset /\ h'.torn /\ h'.reset \in BOOLEAN /\ h'.torn \in BOOLEAN
  BY <1>0, <1>1 DEF Typed
<1>4. /\ ent' \in Tables
      /\ \A j \in Entries : /\ ent'[j].tstart.sec = 0 /\ ent'[j].tstart.usec = 0
  <2>1. ent' = [i \in Entries |-> Unused]
    BY <1>1 DEF ZeroTables
  <2> QED BY <2>1, <1>2 DEF Tables, Stamps, Unused
<1>5. Framed(Streams, si', {})
  <2>1. /\ IsGeometry(Streams) /\ Word \in Nat /\ Word >= 2
    BY Constants, WordAssumption
  <2>2. Mid(Streams) \in 0 .. Streams.raw_len - 1 /\ Streams.raw_len \in Nat
    BY <2>1, GeometryFacts
  <2> QED BY <2>1, <2>2, <1>1 DEF NoInfo, Framed, Bracketed, Infos
<1>6. Typed'
  <2>1. si' \in Infos
    BY <1>5 DEF Framed, Bracketed
  <2> QED BY <2>1, <1>0, <1>1, <1>2, <1>3, <1>4 DEF Typed
<1>7. Windowed'
  <2>1. Taken' = {}
    BY <1>4 DEF Taken
  <2> QED BY <2>1, <1>5 DEF Windowed
<1>8. ASSUME NEW j \in Entries PROVE EntryInv(j)'
  <2>1. /\ EntryInv(j) /\ ~Stage(j)' /\ (Halfway(j)' <=> Halfway(j))
    BY <1>0, <1>1, <1>2 DEF Stage, Halfway
  <2>2. /\ copy.ent[j].tstart.usec \in Nat /\ copy.ent[j].tstart.sec \in Nat
    BY <1>0, EntryTypes
  <2>3. Stamped(j)'
    BY <2>1, <1>1, <1>2, <1>4 DEF EntryInv, Stamped
  <2>4. LiveBalanced(j)' /\ Copying(j)' /\ Recopied(j)'
    BY <2>1, <1>3, <1>4 DEF LiveBalanced, Copying, Recopied
  <2>5. Copied(j)'
    BY <2>1, <2>2, <1>1, <1>3, <1>4 DEF EntryInv, Copied, Base, KnownByStamp
  <2> QED BY <2>3, <2>4, <2>5 DEF EntryInv
<1>9. ProtoInv'
  BY <1>0, <1>1, <1>3 DEF ProtoInv
<1>10. StableInv'
  BY <1>3, <1>0, <1>1 DEF StableInv, Bounded
<1> QED BY <1>6, <1>7, <1>8, <1>9, <1>10 DEF IInv

(* mga_init frames an empty table. *)
LEMMA InitFramed == Framed(Streams, mga_init(Streams), {})
<1>1. /\ IsGeometry(Streams) /\ Word \in Nat
  BY Constants, WordAssumption
<1>2. /\ Mid(Streams) \in 0 .. Streams.raw_len - 1 /\ Streams.raw_len \in Nat
      /\ 2 * Streams.raw_len + 2 < Word
  BY <1>1, GeometryFacts
<1>3. U32(Mid(Streams) + 1) = Mid(Streams) + 1 /\ Mid(Streams) + 1 \in 0 .. Word - 1
  <2>1. Mid(Streams) + 1 \in 0 .. Word - 1
    BY <1>1, <1>2
  <2> QED BY <2>1, U32Small
<1> QED BY <1>1, <1>2, <1>3 DEF mga_init, Framed, Bracketed, Infos

(* A restarted capture initialises the indexes. *)
LEMMA DataInitStep == ASSUME IInv, shm_data_init PROVE IInv'
<1>0. Typed /\ Windowed /\ ProtoInv /\ StableInv /\ \A j \in Entries : EntryInv(j)
  BY DEF IInv
<1>1. /\ cpc.at = "boot" /\ si' = mga_init(Streams) /\ cpc' = Idle
      /\ UNCHANGED <<ent, proto, now, spc, copy, last, h>>
  BY DEF shm_data_init
<1>2. /\ cpc'.at = "idle" /\ now \in Nat /\ now' \in Nat /\ now' >= now
      /\ cpc' \in [at : {"idle", "alloc", "clear", "count", "proto", "dead", "boot"}, i : Entries]
  BY <1>0, <1>1, Constants DEF Typed, At, Idle
<1>3. Taken' = {} /\ Framed(Streams, si', {})
  BY <1>0, <1>1, InitFramed DEF Windowed, Taken
<1>4. \A j \in Entries : ~Stage(j) /\ ~Stage(j)' /\ (Halfway(j)' <=> Halfway(j))
  BY <1>1, <1>2 DEF Stage, Halfway
<1>5. Typed'
  <2>1. si' \in Infos
    BY <1>3 DEF Framed, Bracketed
  <2> QED BY <2>1, <1>0, <1>1, <1>2 DEF Typed
<1>6. Windowed'
  BY <1>3 DEF Windowed
<1>7. \A j \in Entries : EntryInv(j)'
  BY <1>0, <1>1, <1>2, <1>4, EntryFrame
<1>8. ProtoInv'
  BY <1>0, <1>1 DEF ProtoInv
<1>9. StableInv'
  <2>1. \A j \in h.stable : j \in Entries
    BY <1>0 DEF Typed
  <2> QED BY <2>1, <1>4, <1>0, <1>1 DEF StableInv, Bounded, Seen
<1> QED BY <1>5, <1>6, <1>7, <1>8, <1>9 DEF IInv

(* check_minute copies idx_lo, and the entries in use are below the copy. *)
LEMMA CopyIdxLoStep == ASSUME IInv, CopyIdxLo PROVE IInv'
<1>0. Typed /\ Windowed /\ ProtoInv /\ StableInv /\ \A j \in Entries : EntryInv(j)
  BY DEF IInv
<1>1. /\ spc = Idle /\ copy' = [copy EXCEPT !.si.idx_lo = si.idx_lo] /\ spc' = At("idx_hi", 0)
      /\ h' = [h EXCEPT !.stable = {i \in Taken : cpc # At("alloc", i) /\ cpc # At("clear", i)}]
      /\ UNCHANGED <<si, ent, proto, cpc, now, last>>
  BY DEF CopyIdxLo
<1>2. /\ spc.at = "idle" /\ spc'.at = "idx_hi" /\ now \in Nat /\ now' \in Nat /\ now' >= now
      /\ spc' \in [at : {"idle", "idx_hi", "tstart", "packets", "protos", "process", "dead"},
                   i : Entries]
  BY <1>0, <1>1, Constants DEF Typed, At, Idle
<1>3. /\ h'.due = h.due /\ h'.expect = h.expect
      /\ h'.pdue = h.pdue /\ h'.pexpect = h.pexpect /\ h'.pexact = h.pexact
      /\ h'.reset = h.reset /\ h'.torn = h.torn
      /\ h'.stable \subseteq Entries
      /\ \A j \in h'.stable : j \in Taken /\ ~Stage(j)
  <2>1. h'.stable = {i \in Taken : cpc # At("alloc", i) /\ cpc # At("clear", i)}
    BY <1>0, <1>1 DEF Typed
  <2>2. \A j \in h'.stable : j \in Taken /\ ~Stage(j)
    BY <2>1, <1>0, AtIs DEF Stage
  <2>3. h'.stable \subseteq Entries
    BY <2>1 DEF Taken
  <2> QED BY <2>2, <2>3, <1>0, <1>1 DEF Typed
<1>4. /\ copy'.ent = copy.ent /\ copy'.proto = copy.proto /\ copy'.si.idx_lo = si.idx_lo
      /\ copy'.si \in Infos
      /\ copy' \in [si : Infos, ent : Tables, proto : Counts]
  BY <1>0, <1>1 DEF Typed, Infos
<1>5. /\ \A j \in Entries : Stage(j)' <=> Stage(j)
      /\ \A j \in Entries : ~Halfway(j) /\ ~Halfway(j)'
  BY <1>1, <1>2 DEF Stage, Halfway
<1>6. Typed'
  BY <1>0, <1>1, <1>2, <1>3, <1>4 DEF Typed
<1>7. Windowed'
  BY <1>0, <1>1 DEF Windowed, Taken
<1>8. \A j \in Entries : EntryInv(j)'
  BY <1>0, <1>1, <1>2, <1>3, <1>4, <1>5, EntryFrame
<1>9. ProtoInv'
  BY <1>0, <1>1, <1>2, <1>3, <1>4 DEF ProtoInv
<1>10. StableInv'
  <2>1. ASSUME NEW j \in h'.stable
        PROVE  /\ ent'[j].tstart.sec # 0 /\ ~Stage(j)' /\ U32(copy'.si.idx_lo + 1) <= j
    <3>1. j \in Taken /\ ~Stage(j)
      BY <1>3
    <3>2. j \in Window(si)
      BY <3>1, <1>0 DEF Windowed, Framed
    <3>3. U32(si.idx_lo + 1) \in Int /\ si.idx_hi \in Int
      BY <1>0, Constants DEF Typed, Infos, U32
    <3>4. U32(si.idx_lo + 1) <= j
      BY <3>2, <3>3 DEF Window
    <3> QED BY <3>1, <3>4, <1>1, <1>4, <1>5 DEF Taken
  <2> QED BY <2>1, <1>2 DEF StableInv
<1> QED BY <1>6, <1>7, <1>8, <1>9, <1>10 DEF IInv

(* check_minute copies idx_hi: the entries in use since are above it. *)
LEMMA CopyIdxHiStep == ASSUME IInv, CopyIdxHi PROVE IInv'
<1>0. Typed /\ Windowed /\ ProtoInv /\ StableInv /\ \A j \in Entries : EntryInv(j)
  BY DEF IInv
<1>1. /\ spc.at = "idx_hi" /\ copy' = [copy EXCEPT !.si.idx_hi = si.idx_hi]
      /\ spc' = IF copy.si.idx_lo <= si.idx_hi /\ si.idx_hi <= StreamRaw
                THEN NextEntry(copy.si.idx_lo, si.idx_hi) ELSE At("dead", 0)
      /\ UNCHANGED <<si, ent, proto, cpc, now, last, h>>
  BY DEF CopyIdxHi
<1>2. /\ copy'.ent = copy.ent /\ copy'.proto = copy.proto
      /\ copy'.si.idx_lo = copy.si.idx_lo /\ copy'.si.idx_hi = si.idx_hi
      /\ copy' \in [si : Infos, ent : Tables, proto : Counts]
      /\ now \in Nat /\ now' \in Nat /\ now' >= now
  BY <1>0, <1>1 DEF Typed, Infos
<1>3. /\ copy.si.idx_lo \in Nat /\ si.idx_hi \in Nat /\ StreamRaw \in Nat
      /\ 2 * StreamRaw + 2 < Word /\ Word \in Nat
  BY <1>0, Constants DEF Typed, Infos
<1>4. \A j \in h.stable : j \in Nat /\ j \in Entries /\ j < si.idx_hi
  <2>1. SUFFICES ASSUME NEW j \in h.stable PROVE j \in Nat /\ j \in Entries /\ j < si.idx_hi
    OBVIOUS
  <2>2. j \in Entries /\ j \in Taken
    BY <1>0 DEF Typed, StableInv, Taken
  <2>3. j \in Window(si)
    BY <2>2, <1>0 DEF Windowed, Framed
  <2>4. U32(si.idx_lo + 1) \in Int /\ j \in Nat
    BY <2>2, <1>0, Constants DEF Typed, Infos, U32
  <2> QED BY <2>2, <2>3, <2>4, <1>3 DEF Window
<1>5. \/ /\ spc'.at = "tstart" /\ spc'.i = copy.si.idx_lo /\ spc'.i \in Entries
         /\ copy.si.idx_lo < si.idx_hi /\ si.idx_hi <= StreamRaw
      \/ /\ spc'.at = "protos" /\ spc'.i = 0 /\ copy.si.idx_lo <= si.idx_hi
         /\ si.idx_hi <= StreamRaw /\ ~(copy.si.idx_lo < si.idx_hi)
      \/ spc'.at = "dead" /\ spc'.i = 0
  BY <1>1, <1>3 DEF NextEntry, Entry, At, Entries
<1>6. spc' \in [at : {"idle", "idx_hi", "tstart", "packets", "protos", "process", "dead"},
                i : Entries]
  <2>1. spc' = [at |-> spc'.at, i |-> spc'.i]
    BY <1>1 DEF NextEntry, Entry, At
  <2> QED BY <2>1, <1>5, Constants
<1>7. Typed'
  BY <1>0, <1>1, <1>2, <1>6 DEF Typed
<1>8. Windowed'
  BY <1>0, <1>1 DEF Windowed, Taken
<1>9. ASSUME NEW j \in Entries PROVE EntryInv(j)'
  <2>1. (Stage(j)' <=> Stage(j)) /\ ~Halfway(j) /\ ~Halfway(j)'
    BY <1>1, <1>5 DEF Stage, Halfway
  <2> QED BY <2>1, <1>0, <1>1, <1>2, EntryFrame
<1>10. ProtoInv'
  BY <1>0, <1>1, <1>2, <1>5 DEF ProtoInv
<1>11. StableInv'
  <2>1. ASSUME copy.si.idx_lo <= StreamRaw PROVE U32(copy.si.idx_lo + 1) = copy.si.idx_lo + 1
    <3>1. copy.si.idx_lo + 1 \in 0 .. Word - 1
      BY <2>1, <1>3
    <3> QED BY <3>1, U32Small
  <2>2. ASSUME NEW j \in h.stable
        PROVE  /\ j \in Nat /\ j \in Entries /\ U32(copy.si.idx_lo + 1) <= j /\ j < si.idx_hi
               /\ ent[j].tstart.sec # 0 /\ ~Stage(j) /\ ~Stage(j)'
    BY <1>0, <1>1, <1>4 DEF StableInv, Stage
  <2>3. CASE /\ spc'.at = "tstart" /\ spc'.i = copy.si.idx_lo
             /\ copy.si.idx_lo < si.idx_hi /\ si.idx_hi <= StreamRaw
    <3>1. \A j \in h.stable : j >= copy.si.idx_lo + 1
      BY <2>1, <2>2, <2>3, <1>3
    <3> QED BY <3>1, <2>2, <2>3, <1>1, <1>2, <1>3 DEF StableInv, Bounded, Seen
  <2>4. CASE /\ spc'.at = "protos" /\ copy.si.idx_lo <= si.idx_hi
             /\ si.idx_hi <= StreamRaw /\ ~(copy.si.idx_lo < si.idx_hi)
    <3>1. \A j \in h.stable : FALSE
      BY <2>1, <2>2, <2>4, <1>3
    <3> QED BY <3>1, <2>2, <2>4, <1>1, <1>2, <1>3 DEF StableInv, Bounded, Seen
  <2>5. CASE spc'.at = "dead"
    BY <2>2, <2>5, <1>1 DEF StableInv
  <2> QED BY <2>3, <2>4, <2>5, <1>5
<1> QED BY <1>7, <1>8, <1>9, <1>10, <1>11 DEF IInv

(* check_minute copies the stamp of an entry: the copy of the counter to come
   belongs to it unless the capture is giving the entry another stream. *)
LEMMA CopyTstartStep == ASSUME IInv, CopyTstart PROVE IInv'
<1>0. Typed /\ Windowed /\ ProtoInv /\ StableInv /\ \A j \in Entries : EntryInv(j)
  BY DEF IInv
<1>k. PICK k \in Entries : k = spc.i
  BY <1>0 DEF Typed
<1>1. /\ spc.at = "tstart" /\ copy' = [copy EXCEPT !.ent[k].tstart = ent[k].tstart]
      /\ spc' = [spc EXCEPT !.at = "packets"]
      /\ h' = [h EXCEPT !.torn = cpc \in {At("alloc", k), At("clear", k)}]
      /\ UNCHANGED <<si, ent, proto, cpc, now, last>>
  BY <1>k DEF CopyTstart
<1>2. /\ spc'.at = "packets" /\ spc'.i = k /\ spc.i = k
      /\ now \in Nat /\ now' \in Nat /\ now' >= now
  BY <1>0, <1>1, <1>k DEF Typed
<1>3. /\ h'.due = h.due /\ h'.expect = h.expect /\ h'.stable = h.stable
      /\ h'.pdue = h.pdue /\ h'.pexpect = h.pexpect /\ h'.pexact = h.pexact
      /\ h'.reset = h.reset /\ h'.torn \in BOOLEAN /\ (h'.torn <=> Stage(k))
  <2>1. cpc \in {At("alloc", k), At("clear", k)} <=> Stage(k)
    BY <1>0, AtIs DEF Stage
  <2>2. h'.torn = (cpc \in {At("alloc", k), At("clear", k)})
    BY <1>0, <1>1, Zenon DEF Typed
  <2>3. /\ h'.due = h.due /\ h'.expect = h.expect /\ h'.stable = h.stable
        /\ h'.pdue = h.pdue /\ h'.pexpect = h.pexpect /\ h'.pexact = h.pexact
        /\ h'.reset = h.reset
    BY <1>0, <1>1 DEF Typed
  <2>4. h'.torn \in BOOLEAN
    BY <2>2
  <2>5. h'.torn <=> Stage(k)
    BY <2>1, <2>2, Zenon
  <2> QED BY <2>3, <2>4, <2>5
<1>4. /\ copy'.si = copy.si /\ copy'.proto = copy.proto /\ copy'.ent \in Tables
      /\ \A j \in Entries : j # k => copy'.ent[j] = copy.ent[j]
      /\ copy'.ent[k].tstart = ent[k].tstart /\ copy'.ent[k].packets = copy.ent[k].packets
      /\ copy' \in [si : Infos, ent : Tables, proto : Counts]
  <2>1. copy \in [si : Infos, ent : Tables, proto : Counts] /\ ent[k].tstart \in Stamps
    BY <1>0 DEF Typed, Tables
  <2>2. copy' = [copy EXCEPT !.ent = [copy.ent EXCEPT ![k].tstart = ent[k].tstart]]
    BY <1>1
  <2>3. /\ [copy.ent EXCEPT ![k].tstart = ent[k].tstart] \in Tables
        /\ \A j \in Entries :
             [copy.ent EXCEPT ![k].tstart = ent[k].tstart][j] =
               IF j = k THEN [copy.ent[k] EXCEPT !.tstart = ent[k].tstart] ELSE copy.ent[j]
    BY <2>1 DEF Tables
  <2> QED BY <2>1, <2>2, <2>3 DEF Tables
<1>5. Typed'
  BY <1>0, <1>1, <1>2, <1>3, <1>4 DEF Typed
<1>6. Windowed'
  BY <1>0, <1>1 DEF Windowed, Taken
<1>7. ASSUME NEW j \in Entries PROVE EntryInv(j)'
  <2>1. (Stage(j)' <=> Stage(j)) /\ ~Halfway(j) /\ (Halfway(j)' <=> j = k)
    BY <1>1, <1>2 DEF Stage, Halfway
  <2>2. CASE j # k
    BY <2>1, <2>2, <1>0, <1>1, <1>2, <1>3, <1>4, EntryFrame
  <2>3. CASE j = k
    <3>1. EntryInv(k) /\ (Stage(k)' <=> Stage(k)) /\ Halfway(k)'
      BY <2>1, <2>3, <1>0
    <3>2. ent[k].tstart.usec \in Nat /\ ent[k].tstart.sec \in Nat
      BY <1>0, EntryTypes
    <3>3. Stamped(k)'
      BY <3>1, <1>1, <1>4 DEF EntryInv, Stamped
    <3>4. Balanced(k)' <=> Balanced(k)
      BY <1>1, <1>3 DEF Balanced, Base, KnownByStamp
    <3>5. LiveBalanced(k)' /\ Recopied(k)' /\ Copied(k)'
      BY <3>1, <3>4, <1>1, <1>4 DEF EntryInv, LiveBalanced, Recopied, Copied
    <3>6. Copying(k)'
      BY <3>1, <3>2, <3>4, <1>1, <1>3, <1>4 DEF EntryInv, Copying, Stamped, LiveBalanced
    <3> QED BY <2>3, <3>3, <3>5, <3>6 DEF EntryInv
  <2> QED BY <2>2, <2>3
<1>8. ProtoInv'
  BY <1>0, <1>1, <1>2, <1>3 DEF ProtoInv
<1>9. StableInv'
  <2>1. ASSUME NEW j \in h.stable
        PROVE  /\ j \in Nat /\ j \in Entries /\ U32(copy.si.idx_lo + 1) <= j
               /\ j < copy.si.idx_hi /\ ent[j].tstart.sec # 0 /\ ~Stage(j) /\ ~Stage(j)'
               /\ j <= k => copy'.ent[j].tstart.sec # 0
    <3>1. j \in Nat /\ j \in Entries /\ k \in Nat
      BY <1>0, Constants DEF Typed
    <3>2. /\ U32(copy.si.idx_lo + 1) <= j /\ j < copy.si.idx_hi
          /\ ent[j].tstart.sec # 0 /\ ~Stage(j) /\ ~Stage(j)'
          /\ j < k => copy.ent[j].tstart.sec # 0
      BY <1>0, <1>1, <1>2 DEF StableInv, Bounded, Seen, Stage
    <3> QED BY <3>1, <3>2, <1>4
  <2>2. copy.si.idx_lo <= copy.si.idx_hi /\ copy.si.idx_hi <= StreamRaw /\ k < copy.si.idx_hi
    BY <1>0, <1>1, <1>2 DEF StableInv, Bounded
  <2> QED BY <2>1, <2>2, <1>1, <1>2, <1>3, <1>4 DEF StableInv, Bounded, Seen
<1> QED BY <1>5, <1>6, <1>7, <1>8, <1>9 DEF IInv

(* check_minute copies the counter of an entry: what was counted by then is
   expected of the report, unless the entry changed hands. *)
LEMMA CopyPacketsStep == ASSUME IInv, CopyPackets PROVE IInv'
<1>0. Typed /\ Windowed /\ ProtoInv /\ StableInv /\ \A j \in Entries : EntryInv(j)
  BY DEF IInv
<1>k. PICK k \in Entries : k = spc.i
  BY <1>0 DEF Typed
<1>1. /\ spc.at = "packets" /\ copy' = [copy EXCEPT !.ent[k].packets = ent[k].packets]
      /\ spc' = NextEntry(k + 1, copy.si.idx_hi)
      /\ h' = IF h.torn THEN [h EXCEPT !.expect[k] = -1] ELSE [h EXCEPT !.expect[k] = h.due[k]]
      /\ UNCHANGED <<si, ent, proto, cpc, now, last>>
  BY <1>k DEF CopyPackets
<1>2. /\ spc.i = k /\ now \in Nat /\ now' \in Nat /\ now' >= now /\ k \in Nat
      /\ copy.si.idx_hi \in Nat /\ StreamRaw \in Nat
      /\ k < copy.si.idx_hi /\ copy.si.idx_lo <= copy.si.idx_hi /\ copy.si.idx_hi <= StreamRaw
  BY <1>0, <1>1, <1>k, Constants DEF Typed, Infos, StableInv, Bounded
<1>3. /\ h'.due = h.due /\ h'.stable = h.stable
      /\ h'.pdue = h.pdue /\ h'.pexpect = h.pexpect /\ h'.pexact = h.pexact
      /\ h'.reset = h.reset /\ h'.torn = h.torn
      /\ h'.expect \in [Entries -> {-1} \cup Counts]
      /\ \A j \in Entries : j # k => h'.expect[j] = h.expect[j]
      /\ h'.expect[k] = IF h.torn THEN -1 ELSE h.due[k]
  <2>1. CASE h.torn
    BY <2>1, <1>0, <1>1 DEF Typed
  <2>2. CASE ~h.torn
    <3>1. h.due[k] \in Counts
      BY <1>0, EntryTypes
    <3> QED BY <2>2, <3>1, <1>0, <1>1 DEF Typed
  <2> QED BY <2>1, <2>2
<1>4. /\ copy'.si = copy.si /\ copy'.proto = copy.proto /\ copy'.ent \in Tables
      /\ \A j \in Entries : j # k => copy'.ent[j] = copy.ent[j]
      /\ copy'.ent[k].tstart = copy.ent[k].tstart /\ copy'.ent[k].packets = ent[k].packets
      /\ copy' \in [si : Infos, ent : Tables, proto : Counts]
  <2>1. copy \in [si : Infos, ent : Tables, proto : Counts] /\ ent[k].packets \in Counts
    BY <1>0, EntryTypes DEF Typed
  <2>2. copy' = [copy EXCEPT !.ent = [copy.ent EXCEPT ![k].packets = ent[k].packets]]
    BY <1>1
  <2>3. /\ [copy.ent EXCEPT ![k].packets = ent[k].packets] \in Tables
        /\ \A j \in Entries :
             [copy.ent EXCEPT ![k].packets = ent[k].packets][j] =
               IF j = k THEN [copy.ent[k] EXCEPT !.packets = ent[k].packets] ELSE copy.ent[j]
    BY <2>1 DEF Tables
  <2> QED BY <2>1, <2>2, <2>3 DEF Tables
<1>5. \/ spc'.at = "tstart" /\ spc'.i = k + 1 /\ k + 1 \in Entries /\ k + 1 < copy.si.idx_hi
      \/ spc'.at = "protos" /\ spc'.i = 0 /\ ~(k + 1 < copy.si.idx_hi)
  BY <1>1, <1>2 DEF NextEntry, Entry, At, Entries
<1>6. spc' \in [at : {"idle", "idx_hi", "tstart", "packets", "protos", "process", "dead"},
                i : Entries]
  <2>1. spc' = [at |-> spc'.at, i |-> spc'.i]
    BY <1>1 DEF NextEntry, Entry, At
  <2> QED BY <2>1, <1>5, Constants
<1>7. Typed'
  BY <1>0, <1>1, <1>2, <1>3, <1>4, <1>6 DEF Typed
<1>8. Windowed'
  BY <1>0, <1>1 DEF Windowed, Taken
<1>9. ASSUME NEW j \in Entries PROVE EntryInv(j)'
  <2>1. (Stage(j)' <=> Stage(j)) /\ ~Halfway(j)' /\ (Halfway(j) <=> j = k)
    BY <1>1, <1>2, <1>5 DEF Stage, Halfway
  <2>2. CASE j # k
    BY <2>1, <2>2, <1>0, <1>1, <1>2, <1>3, <1>4, EntryFrame
  <2>3. CASE j = k
    <3>1. EntryInv(k) /\ (Stage(k)' <=> Stage(k)) /\ Halfway(k) /\ ~Halfway(k)'
      BY <2>1, <2>3, <1>0
    <3>2. /\ ent[k].packets \in Counts /\ h.due[k] \in Counts
      BY <1>0, EntryTypes
    <3>3. Stamped(k)'
      BY <3>1, <1>1, <1>4 DEF EntryInv, Stamped
    <3>4. Balanced(k)' <=> Balanced(k)
      BY <1>1, <1>3 DEF Balanced, Base, KnownByStamp
    <3>5. LiveBalanced(k)' /\ Recopied(k)' /\ Copying(k)'
      BY <3>1, <3>4, <1>1, <1>4 DEF EntryInv, LiveBalanced, Recopied, Copying
    <3>6. CASE h.torn
      BY <3>1, <3>3, <3>5, <3>6, <2>3, <1>1, <1>3, <1>4 DEF EntryInv, Copying, Copied
    <3>7. CASE ~h.torn
      <4>1. h'.expect[k] = h.due[k] /\ h.due[k] # -1
        BY <3>2, <3>7, <1>3, Constants DEF Counts
      <4>2. ent[k].packets = Wrap(ent[k].packets + h.due[k] - h.due[k]) /\ h.due[k] <= h.due[k]
        BY <3>2, Constants DEF Counts, Wrap
      <4>3. Copied(k)'
        BY <4>1, <4>2, <3>1, <3>7, <1>1, <1>3, <1>4
           DEF EntryInv, Copying, Copied, Balanced, Base, KnownByStamp
      <4> QED BY <4>3, <3>3, <3>5, <2>3 DEF EntryInv
    <3> QED BY <3>6, <3>7
  <2> QED BY <2>2, <2>3
<1>10. ProtoInv'
  BY <1>0, <1>1, <1>3, <1>5 DEF ProtoInv
<1>11. StableInv'
  <2>1. ASSUME NEW j \in h.stable
        PROVE  /\ j \in Nat /\ j \in Entries /\ U32(copy.si.idx_lo + 1) <= j
               /\ j < copy.si.idx_hi /\ ent[j].tstart.sec # 0 /\ ~Stage(j) /\ ~Stage(j)'
               /\ j <= k => copy'.ent[j].tstart.sec # 0
    <3>1. j \in Nat /\ j \in Entries
      BY <1>0, Constants DEF Typed
    <3>2. /\ U32(copy.si.idx_lo + 1) <= j /\ j < copy.si.idx_hi
          /\ ent[j].tstart.sec # 0 /\ ~Stage(j) /\ ~Stage(j)'
          /\ j <= k => copy.ent[j].tstart.sec # 0
      BY <1>0, <1>1, <1>2 DEF StableInv, Bounded, Seen, Stage
    <3> QED BY <3>1, <3>2, <1>4
  <2>2. CASE spc'.at = "tstart" /\ spc'.i = k + 1 /\ k + 1 < copy.si.idx_hi
    <3>1. \A j \in h.stable : j < k + 1 => j <= k
      BY <2>1, <1>2
    <3> QED BY <3>1, <2>1, <2>2, <1>1, <1>2, <1>3, <1>4 DEF StableInv, Bounded, Seen
  <2>3. CASE spc'.at = "protos" /\ ~(k + 1 < copy.si.idx_hi)
    <3>1. \A j \in h.stable : j <= k
      BY <2>1, <2>3, <1>2
    <3> QED BY <3>1, <2>1, <2>3, <1>1, <1>2, <1>3, <1>4 DEF StableInv, Bounded, Seen
  <2> QED BY <2>2, <2>3, <1>5
<1> QED BY <1>7, <1>8, <1>9, <1>10, <1>11 DEF IInv

(* check_minute copies protos[]. *)
LEMMA CopyProtosStep == ASSUME IInv, CopyProtos PROVE IInv'
<1>0. Typed /\ Windowed /\ ProtoInv /\ StableInv /\ \A j \in Entries : EntryInv(j)
  BY DEF IInv
<1>1. /\ spc.at = "protos" /\ copy' = [copy EXCEPT !.proto = proto] /\ spc' = At("process", 0)
      /\ h' = [h EXCEPT !.pexpect = h.pdue, !.pexact = @ /\ ~h.reset, !.reset = FALSE]
      /\ UNCHANGED <<si, ent, proto, cpc, now, last>>
  BY DEF CopyProtos
<1>2. /\ spc'.at = "process" /\ now \in Nat /\ now' \in Nat /\ now' >= now
      /\ spc' \in [at : {"idle", "idx_hi", "tstart", "packets", "protos", "process", "dead"},
                   i : Entries]
  BY <1>0, <1>1, Constants DEF Typed, At
<1>3. /\ h'.due = h.due /\ h'.expect = h.expect /\ h'.stable = h.stable
      /\ h'.pdue = h.pdue /\ h'.pexpect = h.pdue /\ (h'.pexact <=> h.pexact /\ ~h.reset)
      /\ h'.pexact \in BOOLEAN /\ h'.reset \in BOOLEAN /\ ~h'.reset /\ h'.torn = h.torn
  BY <1>0, <1>1 DEF Typed
<1>4. /\ copy'.ent = copy.ent /\ copy'.si = copy.si /\ copy'.proto = proto
      /\ copy' \in [si : Infos, ent : Tables, proto : Counts]
  BY <1>0, <1>1 DEF Typed
<1>5. /\ \A j \in Entries : Stage(j)' <=> Stage(j)
      /\ \A j \in Entries : ~Halfway(j) /\ ~Halfway(j)'
  BY <1>1, <1>2 DEF Stage, Halfway
<1>6. Typed'
  BY <1>0, <1>1, <1>2, <1>3, <1>4 DEF Typed
<1>7. Windowed'
  BY <1>0, <1>1 DEF Windowed, Taken
<1>8. \A j \in Entries : EntryInv(j)'
  BY <1>0, <1>1, <1>2, <1>3, <1>4, <1>5, EntryFrame
<1>9. ProtoInv'
  <2>1. proto \in Counts /\ h.pdue \in Counts
    BY <1>0 DEF Typed
  <2>2. h.pdue <= h.pdue /\ proto = Wrap(proto + h.pdue - h.pdue)
    BY <2>1, Constants DEF Counts, Wrap
  <2> QED BY <2>2, <1>0, <1>1, <1>3, <1>4 DEF ProtoInv
<1>10. StableInv'
  <2>1. \A j \in h.stable : j \in Entries
    BY <1>0 DEF Typed
  <2> QED BY <2>1, <1>0, <1>1, <1>2, <1>3, <1>4, <1>5 DEF StableInv, Bounded, Seen
<1> QED BY <1>6, <1>7, <1>8, <1>9, <1>10 DEF IInv

(* The loops of _process_streams and _process_protocols: what is listed becomes
   the minute before, and what it reported is no longer due. *)
LEMMA ProcessStep == ASSUME IInv, Process PROVE IInv'
<1>0. Typed /\ Windowed /\ ProtoInv /\ StableInv /\ \A j \in Entries : EntryInv(j)
  BY DEF IInv
<1> DEFINE settled(i) == /\ i \in Listed /\ h.expect[i] # -1
                         /\ ent[i].tstart = copy.ent[i].tstart
           due(i) == IF settled(i) THEN h.due[i] - h.expect[i] ELSE h.due[i]
           kept(i) == IF i \in Listed THEN copy.ent[i] ELSE last.ent[i]
           pdue == IF ProtoListed /\ ~h.reset THEN h.pdue - h.pexpect ELSE h.pdue
<1>1. /\ spc.at = "process" /\ copy' = ZeroTables /\ spc' = Idle
      /\ last' = [last EXCEPT !.ent = [i \in Entries |-> kept(i)], !.proto = KeptProto]
      /\ h' = [h EXCEPT !.due = [i \in Entries |-> due(i)],
                        !.expect = [i \in Entries |-> -1], !.stable = {}, !.torn = FALSE,
                        !.pdue = pdue, !.pexpect = 0, !.pexact = @ \/ ProtoListed]
      /\ UNCHANGED <<si, ent, proto, cpc, now>>
  BY DEF Process
<1>2. /\ spc'.at = "idle" /\ now \in Nat /\ now' \in Nat /\ now' >= now
      /\ spc' \in [at : {"idle", "idx_hi", "tstart", "packets", "protos", "process", "dead"},
                   i : Entries]
  BY <1>0, <1>1, Constants DEF Typed, At, Idle
<1>3. \A j \in Entries : ~Halfway(j) /\ ~Halfway(j)' /\ (Stage(j)' <=> Stage(j))
  BY <1>1, <1>2 DEF Halfway, Stage
<1>l. \A j \in Listed : j \in Entries /\ copy.ent[j].tstart.sec # 0
  BY DEF Listed
<1>4. \A j \in Entries : due(j) \in Counts /\ kept(j) \in [tstart : Stamps, packets : Counts]
  <2>1. SUFFICES ASSUME NEW j \in Entries
                 PROVE  due(j) \in Counts /\ kept(j) \in [tstart : Stamps, packets : Counts]
    OBVIOUS
  <2>2. kept(j) \in [tstart : Stamps, packets : Counts]
    BY <1>0 DEF Typed, Tables
  <2>3. h.due[j] \in Counts /\ h.expect[j] \in {-1} \cup Counts
    BY <1>0, EntryTypes
  <2>4. ASSUME settled(j) PROVE h.expect[j] <= h.due[j]
    BY <2>4, <1>0, <1>3, <1>l DEF EntryInv, Copied
  <2>5. due(j) \in Counts
    <3>1. CASE settled(j)
      <4>1. h.expect[j] <= h.due[j] /\ h.expect[j] # -1
        BY <3>1, <2>4
      <4>2. due(j) = h.due[j] - h.expect[j]
        BY <3>1
      <4> HIDE DEF due
      <4> QED BY <4>1, <4>2, <2>3, Constants DEF Counts
    <3>2. CASE ~settled(j)
      <4>1. due(j) = h.due[j]
        BY <3>2
      <4> QED BY <4>1, <2>3
    <3> QED BY <3>1, <3>2
  <2> QED BY <2>2, <2>5
<1>5. /\ pdue \in Counts /\ KeptProto \in Counts
  <2>1. h.pdue \in Counts /\ h.pexpect \in Counts /\ copy.proto \in Counts /\ last.proto \in Counts
    BY <1>0 DEF Typed
  <2>2. KeptProto \in Counts
    BY <2>1 DEF KeptProto
  <2>3. ~h.reset => h.pexpect <= h.pdue
    BY <1>0, <1>1 DEF ProtoInv
  <2>4. ~h.reset => h.pdue - h.pexpect \in Counts
    BY <2>1, <2>3, Constants DEF Counts
  <2> QED BY <2>1, <2>2, <2>4
<1> HIDE DEF due, kept, pdue
<1>6. /\ h'.due = [i \in Entries |-> due(i)] /\ h'.expect = [i \in Entries |-> -1]
      /\ h'.stable = {} /\ h'.torn \in BOOLEAN /\ h'.pdue = pdue /\ h'.pexpect = 0
      /\ (h'.pexact <=> h.pexact \/ ProtoListed) /\ h'.pexact \in BOOLEAN
      /\ h'.reset = h.reset
  BY <1>0, <1>1 DEF Typed
<1>7. /\ last'.ent = [i \in Entries |-> kept(i)] /\ last'.proto = KeptProto
      /\ last' \in [si : Infos, ent : Tables, proto : Counts]
  <2>1. [i \in Entries |-> kept(i)] \in Tables
    BY <1>4 DEF Tables
  <2> QED BY <2>1, <1>0, <1>1, <1>5 DEF Typed
<1>8. /\ copy' \in [si : Infos, ent : Tables, proto : Counts]
      /\ \A j \in Entries : copy'.ent[j].tstart.sec = 0 /\ copy'.ent[j].tstart.usec = 0
  <2>1. 0 \in Counts /\ 0 \in Nat /\ 0 \in 0 .. Word - 1
    BY Constants DEF Counts
  <2>2. NoInfo \in Infos
    BY <2>1 DEF NoInfo, Infos
  <2>3. Unused \in [tstart : Stamps, packets : Counts]
    BY <2>1 DEF Unused, Stamps
  <2>4. [i \in Entries |-> Unused] \in Tables
    BY <2>3 DEF Tables
  <2>5. copy'.ent = [i \in Entries |-> Unused]
    BY <1>1 DEF ZeroTables
  <2>6. copy' \in [si : Infos, ent : Tables, proto : Counts]
    BY <2>1, <2>2, <2>4, <1>1 DEF ZeroTables
  <2>7. \A j \in Entries : copy'.ent[j].tstart.sec = 0 /\ copy'.ent[j].tstart.usec = 0
    BY <2>5 DEF Unused
  <2> QED BY <2>6, <2>7
<1>9. Typed'
  <2>1. h'.due \in [Entries -> Counts] /\ h'.expect \in [Entries -> {-1} \cup Counts]
    BY <1>4, <1>6
  <2>2. h'.pexpect \in Counts
    BY <1>6, Constants DEF Counts
  <2> QED BY <2>1, <2>2, <1>0, <1>1, <1>2, <1>5, <1>6, <1>7, <1>8 DEF Typed
<1>10. Windowed'
  BY <1>0, <1>1 DEF Windowed, Taken
<1>11. ASSUME NEW j \in Entries PROVE EntryInv(j)'
  <2>1. EntryInv(j) /\ ~Halfway(j) /\ ~Halfway(j)' /\ (Stage(j)' <=> Stage(j))
    BY <1>0, <1>3
  <2>2. Copying(j)' /\ Copied(j)' /\ Recopied(j)'
    BY <2>1, <1>8 DEF Copying, Copied, Recopied
  <2>3. Stamped(j)'
    BY <2>1, <1>1, <1>2, <1>7, <1>8 DEF EntryInv, Stamped, kept
  <2>4. LiveBalanced(j)'
    <3>1. SUFFICES ASSUME ~Stage(j), ent[j].tstart.sec # 0 PROVE Balanced(j)'
      BY <2>1, <1>1 DEF LiveBalanced
    <3>2. /\ Balanced(j) /\ ent[j].tstart.sec = ent[j].tstart.usec - 1
          /\ ent[j].tstart.usec # 0
      BY <3>1, <2>1, <1>0, EntryTypes DEF EntryInv, LiveBalanced, Stamped
    <3>3. h'.due[j] = due(j) /\ last'.ent[j] = kept(j) /\ ent' = ent
      BY <1>1, <1>6, <1>7
    <3>4. CASE j \notin Listed
      BY <3>2, <3>3, <3>4 DEF due, kept, Balanced, Base, KnownByStamp
    <3>5. CASE j \in Listed /\ copy.ent[j].tstart.usec = ent[j].tstart.usec
      <4>1. /\ h.expect[j] # -1 /\ h.expect[j] <= h.due[j]
            /\ ent[j].packets = Wrap(copy.ent[j].packets + h.due[j] - h.expect[j])
            /\ copy.ent[j].tstart.sec = copy.ent[j].tstart.usec - 1
        BY <3>1, <3>2, <3>5, <2>1, <1>l DEF EntryInv, Copied
      <4>2. ent[j].tstart = copy.ent[j].tstart
        <5>1. ent[j].tstart \in Stamps /\ copy.ent[j].tstart \in Stamps
          BY <1>0 DEF Typed, Tables
        <5> QED BY <5>1, <4>1, <3>2, <3>5 DEF Stamps
      <4>3. due(j) = h.due[j] - h.expect[j] /\ kept(j) = copy.ent[j]
        BY <4>1, <4>2, <3>5 DEF due, kept
      <4>4. h.due[j] \in Counts /\ h.expect[j] \in {-1} \cup Counts /\ copy.ent[j].packets \in Counts
        BY <1>0, EntryTypes
      <4>5. copy.ent[j].packets + h.due[j] - h.expect[j]
              = copy.ent[j].packets + (h.due[j] - h.expect[j])
        BY <4>1, <4>4, Constants DEF Counts
      <4> QED BY <4>1, <4>3, <4>5, <3>2, <3>3, <3>5 DEF Balanced, Base, KnownByStamp
    <3>6. CASE j \in Listed /\ copy.ent[j].tstart.usec # ent[j].tstart.usec
      <4>1. last.ent[j].tstart.usec # ent[j].tstart.usec
        BY <3>1, <3>6, <2>1, <1>l DEF EntryInv, Recopied
      <4>2. due(j) = h.due[j] /\ kept(j) = copy.ent[j]
        BY <3>6 DEF due, kept
      <4> QED BY <4>1, <4>2, <3>2, <3>3, <3>6 DEF Balanced, Base, KnownByStamp
    <3> QED BY <3>4, <3>5, <3>6
  <2> QED BY <2>2, <2>3, <2>4 DEF EntryInv
<1>12. ProtoInv'
  <2>1. h.pdue \in Counts /\ h.pexpect \in Counts /\ copy.proto \in Counts /\ last.proto \in Counts
    BY <1>0 DEF Typed
  <2>2. ASSUME ~h.reset, h'.pexact PROVE proto = Wrap(last'.proto + h'.pdue)
    <3>1. CASE ProtoListed
      <4>1. proto = Wrap(copy.proto + h.pdue - h.pexpect)
        BY <2>2, <1>0, <1>1 DEF ProtoInv
      <4>2. copy.proto + h.pdue - h.pexpect = copy.proto + (h.pdue - h.pexpect)
        BY <2>1, Constants DEF Counts
      <4> QED BY <4>1, <4>2, <3>1, <2>2, <1>6, <1>7 DEF pdue, KeptProto
    <3>2. CASE ~ProtoListed
      BY <3>2, <2>2, <1>0, <1>6, <1>7 DEF ProtoInv, pdue, KeptProto
    <3> QED BY <3>1, <3>2
  <2> QED BY <2>2, <1>1, <1>2, <1>6 DEF ProtoInv
<1>13. StableInv'
  BY <1>2, <1>6 DEF StableInv
<1> QED BY <1>9, <1>10, <1>11, <1>12, <1>13 DEF IInv

(* The tables at the start of both processes. *)
LEMMA InitIInv == ASSUME Init PROVE IInv
<1>1. /\ si = mga_init(Streams) /\ ent = ZeroTables.ent /\ proto = 0
      /\ cpc = Idle /\ now = 0 /\ spc = Idle /\ copy = ZeroTables /\ last = ZeroTables
      /\ h = [due |-> [i \in Entries |-> 0], expect |-> [i \in Entries |-> -1],
              stable |-> {}, torn |-> FALSE, pdue |-> 0, pexpect |-> 0, pexact |-> TRUE,
              reset |-> FALSE]
  BY DEF Init
<1>2. 0 \in Counts /\ 0 \in Nat /\ 0 \in 0 .. Word - 1 /\ 0 \in Entries /\ CtrWord > 1
  BY Constants DEF Counts
<1>3. /\ ZeroTables.ent = [i \in Entries |-> Unused] /\ ZeroTables.proto = 0
      /\ ZeroTables.ent \in Tables
      /\ ZeroTables \in [si : Infos, ent : Tables, proto : Counts]
  <2>1. Unused \in [tstart : Stamps, packets : Counts]
    BY <1>2 DEF Unused, Stamps
  <2>2. [i \in Entries |-> Unused] \in Tables
    BY <2>1 DEF Tables
  <2>3. NoInfo \in Infos
    BY <1>2 DEF NoInfo, Infos
  <2> QED BY <1>2, <2>2, <2>3 DEF ZeroTables
<1>4. cpc.at = "idle" /\ cpc.i = 0 /\ spc.at = "idle" /\ spc.i = 0
  BY <1>1 DEF Idle, At
<1>5. Framed(Streams, si, {})
  BY <1>1, InitFramed
<1>6. Typed
  <2>1. si \in Infos
    BY <1>5 DEF Framed, Bracketed
  <2>2. cpc = [at |-> "idle", i |-> 0] /\ spc = [at |-> "idle", i |-> 0]
    BY <1>1 DEF Idle, At
  <2>3. h \in [due : [Entries -> Counts], expect : [Entries -> {-1} \cup Counts],
               stable : SUBSET Entries, torn : BOOLEAN, pdue : Counts, pexpect : Counts,
               pexact : BOOLEAN, reset : BOOLEAN]
    BY <1>1, <1>2
  <2> QED BY <2>1, <2>2, <2>3, <1>1, <1>2, <1>3 DEF Typed
<1>7. \A j \in Entries : ent[j].tstart.sec = 0 /\ ent[j].tstart.usec = 0
  BY <1>1, <1>3 DEF Unused
<1>8. Windowed
  <2>1. Taken = {}
    BY <1>7 DEF Taken
  <2> QED BY <2>1, <1>4, <1>5 DEF Windowed
<1>9. ASSUME NEW j \in Entries PROVE EntryInv(j)
  <2>1. ~Stage(j) /\ ~Halfway(j)
    BY <1>4 DEF Stage, Halfway
  <2>2. /\ copy.ent[j].tstart.sec = 0 /\ copy.ent[j].tstart.usec = 0
        /\ last.ent[j].tstart.usec = 0
    BY <1>1, <1>3 DEF Unused
  <2>3. Stamped(j)
    BY <2>1, <2>2, <1>1, <1>7 DEF Stamped
  <2> QED BY <2>1, <2>2, <2>3, <1>7 DEF EntryInv, LiveBalanced, Copying, Copied, Recopied
<1>10. ProtoInv
  <2>1. proto = 0 /\ last.proto = 0 /\ h.pdue = 0 /\ Wrap(0 + 0) = 0
    BY <1>1, <1>3, Constants DEF Wrap
  <2> QED BY <2>1, <1>4 DEF ProtoInv
<1>11. StableInv
  BY <1>1, <1>4 DEF StableInv
<1> QED BY <1>6, <1>8, <1>9, <1>10, <1>11 DEF IInv

(* IInv is an invariant of the copy, however the two processes interleave. *)
THEOREM InductiveInvariant == Spec => []IInv
<1>1. Init => IInv
  BY InitIInv
<1>2. IInv /\ [Next]_vars => IInv'
  <2> SUFFICES ASSUME IInv, [Next]_vars PROVE IInv'
    OBVIOUS
  <2>1. CASE Alloc
    BY <2>1, AllocStep
  <2>2. CASE Clear
    BY <2>2, ClearStep
  <2>3. CASE SetStart
    BY <2>3, SetStartStep
  <2>4. CASE inc_protocol_counters
    BY <2>4, IncProtocolStep
  <2>5. CASE Restart
    BY <2>5, RestartStep
  <2>6. CASE shm_data_init
    BY <2>6, DataInitStep
  <2>7. ASSUME NEW i \in Entries, CountStream(i) PROVE IInv'
    BY <2>7, CountStreamStep
  <2>8. ASSUME NEW i \in Entries, Free(i) PROVE IInv'
    BY <2>8, FreeStep
  <2>9. CASE CopyIdxLo
    BY <2>9, CopyIdxLoStep
  <2>10. CASE CopyIdxHi
    BY <2>10, CopyIdxHiStep
  <2>11. CASE CopyTstart
    BY <2>11, CopyTstartStep
  <2>12. CASE CopyPackets
    BY <2>12, CopyPacketsStep
  <2>13. CASE CopyProtos
    BY <2>13, CopyProtosStep
  <2>14. CASE Process
    BY <2>14, ProcessStep
  <2>15. CASE UNCHANGED vars
    BY <2>15 DEF vars, IInv, Typed, Windowed, Taken, EntryInv, Stamped, LiveBalanced,
                 Copying, Copied, Recopied, Balanced, Base, KnownByStamp, Stage, Halfway,
                 ProtoInv, StableInv, Bounded, Seen
  <2> QED BY <2>1, <2>2, <2>3, <2>4, <2>5, <2>6, <2>7, <2>8, <2>9, <2>10, <2>11, <2>12,
             <2>13, <2>14, <2>15 DEF Next
<1> QED BY <1>1, <1>2, PTL DEF Spec

(* u32diff undoes one addition, but for the value it loses where the counter
   wraps. *)
LEMMA DiffOfSum ==
  ASSUME NEW a \in Counts, NEW e \in Counts
  PROVE  u32diff(a, Wrap(a + e)) = e - Passed(a, Wrap(a + e))
<1>1. a \in Nat /\ e \in Nat /\ CtrWord \in Nat /\ a < CtrWord /\ e < CtrWord
  BY Constants DEF Counts
<1>2. CASE a + e < CtrWord
  <2>1. Wrap(a + e) = a + e
    BY <1>2 DEF Wrap
  <2> QED BY <1>1, <2>1 DEF u32diff, Passed
<1>3. CASE ~(a + e < CtrWord)
  <2>1. Wrap(a + e) = a + e - CtrWord
    BY <1>1, <1>3 DEF Wrap
  <2> QED BY <1>1, <1>3, <2>1 DEF u32diff, Passed
<1> QED BY <1>2, <1>3

(* For every table: a stream is listed with the packets counted since it was
   listed last, but for the one lost where the counter wraps. *)
THEOREM ReportsCorrect == Spec => []ReportsExact
<1>1. IInv => ReportsExact
  <2>0. SUFFICES ASSUME IInv, spc.at = "process", NEW i \in Listed, h.expect[i] # -1
                 PROVE  Reported(i) = h.expect[i] -
                          (IF SameStream(i) THEN Passed(last.ent[i].packets, copy.ent[i].packets)
                           ELSE 0)
    BY DEF ReportsExact
  <2>1. i \in Entries /\ copy.ent[i].tstart.sec # 0 /\ Typed /\ Copied(i) /\ ~Halfway(i)
    BY <2>0 DEF Listed, IInv, EntryInv, Halfway
  <2> DEFINE u == copy.ent[i].tstart.usec
  <2>2. /\ copy.ent[i].tstart.sec = u - 1
        /\ copy.ent[i].packets = Wrap(Base(i, u) + h.expect[i])
        /\ KnownByStamp(i, u)
    BY <2>0, <2>1 DEF Copied
  <2>3. h.expect[i] \in Counts /\ last.ent[i].packets \in Counts
    BY <2>0, <2>1, EntryTypes
  <2>4. SameStream(i) <=> last.ent[i].tstart.usec = u
    <3>1. last.ent[i].tstart \in Stamps /\ copy.ent[i].tstart \in Stamps
      BY <2>1 DEF Typed, Tables
    <3> QED BY <3>1, <2>2 DEF SameStream, KnownByStamp, Stamps
  <2> HIDE DEF u
  <2>5. CASE SameStream(i)
    <3>1. copy.ent[i].packets = Wrap(last.ent[i].packets + h.expect[i])
      BY <2>2, <2>4, <2>5 DEF Base
    <3> QED BY <3>1, <2>3, <2>5, DiffOfSum DEF Reported
  <2>6. CASE ~SameStream(i)
    <3>1. copy.ent[i].packets = Wrap(0 + h.expect[i])
      BY <2>2, <2>4, <2>6 DEF Base
    <3>2. Wrap(0 + h.expect[i]) = h.expect[i]
      BY <2>3, Constants DEF Counts, Wrap
    <3> QED BY <3>1, <3>2, <2>3, <2>6, Constants DEF Reported, Counts
  <2> QED BY <2>5, <2>6
<1> QED BY <1>1, InductiveInvariant, PTL

(* For every table: an entry that keeps its stream throughout the copy is
   listed. *)
THEOREM NothingMissedCorrect == Spec => []NothingMissed
<1>1. IInv => NothingMissed
  <2>0. SUFFICES ASSUME IInv, spc.at = "process", NEW i \in h.stable PROVE i \in Listed
    BY DEF NothingMissed
  <2>1. /\ i \in Entries /\ U32(copy.si.idx_lo + 1) <= i /\ i < copy.si.idx_hi
        /\ copy.ent[i].tstart.sec # 0
    BY <2>0 DEF IInv, Typed, StableInv, Bounded, Seen
  <2>2. i \in Nat /\ U32(copy.si.idx_lo + 1) \in Int /\ copy.si.idx_hi \in Int
    BY <2>0, <2>1, Constants DEF IInv, Typed, Infos, U32
  <2>3. i \in Window(copy.si)
    BY <2>1, <2>2 DEF Window
  <2> QED BY <2>1, <2>3 DEF Listed
<1> QED BY <1>1, InductiveInvariant, PTL

(* For every counter width: a protocol is listed with the packets counted since
   it was listed last, but for the one lost where the counter wraps. *)
THEOREM ProtosCorrect == Spec => []ProtosExact
<1>1. IInv => ProtosExact
  <2>0. SUFFICES ASSUME IInv, spc.at = "process", ProtoListed, h.pexact
                 PROVE  ProtoReported = h.pexpect - Passed(last.proto, copy.proto)
    BY DEF ProtosExact
  <2>1. copy.proto = Wrap(last.proto + h.pexpect) /\ last.proto \in Counts /\ h.pexpect \in Counts
    BY <2>0 DEF IInv, ProtoInv, Typed
  <2>2. ProtoReported = u32diff(last.proto, copy.proto)
    BY <2>0 DEF ProtoReported
  <2> QED BY <2>1, <2>2, DiffOfSum
<1> QED BY <1>1, InductiveInvariant, PTL
=============================================================================
