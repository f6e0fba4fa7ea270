--------------------------- MODULE CaptureProofs ---------------------------
(***************************************************************************)
(* The capture process for every network, every hash function and every   *)
(* size of its tables.                                                     *)
(***************************************************************************)
EXTENDS Capture, MgarrayLemmas, SequenceTheorems

(* Induction along the steps 1 .. N of a loop, for a set S of step numbers. *)
LEMMA StepInduction ==
  ASSUME NEW N \in Nat, NEW S, 0 \in S,
         \A i \in 1 .. N : i - 1 \in S => i \in S
  PROVE  0 .. N \subseteq S
<1> SUFFICES ASSUME (0 .. N) \ S # {} PROVE FALSE
  OBVIOUS
<1> DEFINE D == (0 .. N) \ S
<1>1. D \subseteq Nat /\ D # {}
  OBVIOUS
<1>2. Min(D) \in D /\ \A y \in D : Min(D) <= y
  BY <1>1, MinNat
<1>3. PICK m \in D : \A y \in D : m <= y
  BY <1>2
<1>4. m \in 1 .. N /\ m - 1 \in 0 .. N /\ ~(m <= m - 1)
  BY <1>3
<1>5. m - 1 \notin D
  BY <1>3, <1>4
<1> QED BY <1>3, <1>4, <1>5

(* The runs of a loop of N steps, each of which makes a new state in T of the
   one before. *)
LoopRuns(N, T, base, step) ==
  {f \in [0 .. N -> T] : f[0] = base /\ \A i \in 1 .. N : f[i] = step[<<i, f[i - 1]>>]}

(* A loop has a run.  The recursive functions of the model are such runs. *)
LEMMA LoopRunExists ==
  ASSUME NEW N \in Nat, NEW T, NEW base \in T, NEW step \in [(1 .. N) \X T -> T]
  PROVE  LoopRuns(N, T, base, step) # {}
<1> DEFINE Runs(m) == {f \in [0 .. m -> T] :
                         f[0] = base /\ \A i \in 1 .. m : f[i] = step[<<i, f[i - 1]>>]}
           S == {m \in 0 .. N : Runs(m) # {}}
<1>1. 0 \in S
  <2>1. [i \in 0 .. 0 |-> base] \in Runs(0)
    OBVIOUS
  <2> QED BY <2>1
<1>2. ASSUME NEW m \in 1 .. N, m - 1 \in S PROVE m \in S
  <2>1. PICK f : f \in Runs(m - 1)
    BY <1>2
  <2>2. f \in [0 .. m - 1 -> T] /\ f[0] = base /\ \A i \in 1 .. m - 1 : f[i] = step[<<i, f[i - 1]>>]
    BY <2>1
  <2>3. f[m - 1] \in T
    BY <2>2
  <2>4. step[<<m, f[m - 1]>>] \in T
    BY <2>3
  <2> DEFINE g == [i \in 0 .. m |-> IF i = m THEN step[<<m, f[m - 1]>>] ELSE f[i]]
  <2>5. g \in [0 .. m -> T] /\ g[0] = base
    BY <2>2, <2>4
  <2>6. ASSUME NEW i \in 1 .. m PROVE g[i] = step[<<i, g[i - 1]>>]
    <3>1. g[i - 1] = f[i - 1]
      OBVIOUS
    <3>2. CASE i = m
      <4>1. g[m] = step[<<m, f[m - 1]>>]
        OBVIOUS
      <4> HIDE DEF g
      <4> QED BY <3>1, <3>2, <4>1, Zenon
    <3>3. CASE i # m
      <4>1. i \in 1 .. m - 1 /\ g[i] = f[i]
        BY <3>3
      <4> QED BY <2>2, <3>1, <4>1
    <3> QED BY <3>2, <3>3
  <2> HIDE DEF g
  <2>7. g \in Runs(m)
    BY <2>5, <2>6
  <2> HIDE DEF Runs
  <2> QED BY <2>7
<1>3. N \in S
  <2> HIDE DEF S
  <2>1. 0 .. N \subseteq S
    BY <1>1, <1>2, StepInduction
  <2> QED BY <2>1
<1> QED BY <1>3 DEF LoopRuns

(* A number is its quotient and its remainder, in one way only. *)
LEMMA ModUnique ==
  ASSUME NEW m \in Nat \ {0}, NEW n \in Nat, NEW q \in Int, NEW r \in 0 .. m - 1,
         n = m * q + r
  PROVE  n % m = r
<1> DEFINE p == n \div m
           s == n % m
           d == p - q
<1>1. p \in Int /\ d \in Int /\ n = m * p + s /\ s \in 0 .. m - 1
  OBVIOUS
<1>2. m * p = m * q + m * d
  BY <1>1
<1> SUFFICES s = r
  OBVIOUS
<1> HIDE DEF p, s, d
<1>3. m * d = r - s /\ m * d \in Int /\ m * q \in Int
  BY <1>1, <1>2
<1>4. CASE d >= 1
  <2>1. m * d >= m
    BY <1>1, <1>4
  <2> QED BY <2>1, <1>1, <1>3
<1>5. CASE d <= -1
  <2>1. m * d <= -m
    BY <1>1, <1>5
  <2> QED BY <2>1, <1>1, <1>3
<1>6. CASE d = 0
  BY <1>1, <1>3, <1>6
<1> QED BY <1>1, <1>4, <1>5, <1>6

(* A counter that wraps counts modulo its word: one more round changes
   nothing, and one more event is one more. *)
LEMMA ModCounts ==
  ASSUME NEW m \in Nat \ {0}, NEW n \in Nat
  PROVE  /\ (n + m) % m = n % m
         /\ ((n % m) + 1) % m = (n + 1) % m
<1>1. PICK q \in Int, r \in 0 .. m - 1 : n = m * q + r /\ r = n % m
  <2>1. n \div m \in Int /\ n % m \in 0 .. m - 1 /\ n = m * (n \div m) + (n % m)
    OBVIOUS
  <2> QED BY <2>1
<1>2. (n + m) % m = r
  <2>1. n + m = m * (q + 1) + r /\ n + m \in Nat /\ q + 1 \in Int
    BY <1>1
  <2>2. PICK x \in Nat, y \in Int : x = n + m /\ y = q + 1 /\ x = m * y + r
    BY <2>1
  <2> QED BY <2>2, ModUnique
<1>3. (r + 1) % m = (n + 1) % m
  <2>1. CASE r + 1 < m
    <3>1. n + 1 = m * q + (r + 1) /\ r + 1 \in 0 .. m - 1
      BY <1>1, <2>1
    <3>2. (n + 1) % m = r + 1
      BY <3>1, ModUnique
    <3>3. r + 1 = m * 0 + (r + 1)
      BY <3>1
    <3> QED BY <3>1, <3>2, <3>3, ModUnique
  <2>2. CASE r + 1 = m
    <3>1. n + 1 = m * (q + 1) + 0 /\ r + 1 = m * 1 + 0 /\ 0 \in 0 .. m - 1
      BY <1>1, <2>2
    <3>2. PICK x \in Nat, y \in Int : x = n + 1 /\ y = q + 1 /\ x = m * y + 0
      BY <3>1
    <3>3. (n + 1) % m = 0
      BY <3>1, <3>2, ModUnique
    <3>4. PICK z \in Nat : z = r + 1 /\ z = m * 1 + 0
      BY <3>1
    <3>5. (r + 1) % m = 0
      BY <3>1, <3>4, ModUnique
    <3> QED BY <3>3, <3>5
  <2> QED BY <2>1, <2>2
<1> QED BY <1>1, <1>2, <1>3
-----------------------------------------------------------------------------
Protos == {shm_get_protocol(k) : k \in {k \in Keys : k.rport < NumProtos}}
Counters == 0 .. CtrWord - 1

(* The tables, field by field. *)
Tables ==
  [si : Infos, staken : SUBSET StreamSlots, ss : [StreamSlots -> StreamInfos],
   lan : Infos, wan : Infos, ataken : SUBSET AddrSlots, addr : [AddrSlots -> AddrInfos],
   ht_streams : [Buckets -> StreamSlots \cup {NoEntry}],
   ht_v4addrs : [Ips -> AddrSlots \cup {NoEntry}],
   clist : Seq(StreamSlots), cwait : Seq(StreamSlots),
   flow : [0 .. 5 -> Counters], protos : [Protos -> Counters], refused : Counters,
   strayed : BOOLEAN, fault : Aborts \cup {"null_addr", "assert_get"}]

(* The constants as the proofs use them. *)
LEMMA ConstantFacts ==
  /\ NumLan \in Nat /\ NumLan > 0 /\ NumAddrs \in Nat /\ NumLan < NumAddrs
  /\ NumStreams \in Nat /\ NumStreams > 0 /\ StreamRaw \in Nat /\ NumStreams <= StreamRaw
  /\ ListMax \in Nat /\ WaitMax \in Nat /\ WaitMax <= ListMax
  /\ ActWord \in Nat /\ ActWord > 0 /\ CtrWord \in Nat /\ CtrWord > 0
  /\ Minute \in Nat /\ Minute > 0 /\ Expired \in Nat /\ MaxBack \in Nat
  /\ Word \in Nat /\ 2 * NumAddrs + 2 < Word /\ 2 * StreamRaw + 2 < Word
<1>1. \A c \in {NumLan, NumStreams, NumProtos, ListMax, WaitMax, ActWord, CtrWord} :
        c \in Nat \ {0}
  BY CaptureAssumption
<1>2. /\ NumLan \in Nat \ {0} /\ NumStreams \in Nat \ {0} /\ ListMax \in Nat \ {0}
      /\ WaitMax \in Nat \ {0} /\ ActWord \in Nat \ {0} /\ CtrWord \in Nat \ {0}
  BY <1>1, Zenon
<1>3. /\ NumAddrs \in Nat /\ NumLan < NumAddrs /\ WaitMax <= ListMax
      /\ StreamRaw \in NumStreams .. NumStreams + 1
      /\ Minute \in Nat /\ PreStat \in Nat /\ PreStat < Minute /\ Expired \in Nat /\ MaxBack \in Nat
      /\ 2 * NumAddrs + 2 < Word /\ 2 * StreamRaw + 2 < Word
  BY CaptureAssumption
<1> QED BY <1>2, <1>3, WordAssumption

(* Both kinds of counters wrap around within their words. *)
LEMMA WordFacts ==
  /\ \A n \in Int : n % CtrWord \in Counters
  /\ \A n \in Counters : Inc(n) \in Counters
  /\ \A n \in Int : n % ActWord \in 0 .. ActWord - 1
<1>1. \A m \in Nat : m > 0 => \A n \in Int : n % m \in 0 .. m - 1
  BY Z3
<1>2. /\ \A n \in Int : n % CtrWord \in Counters
      /\ \A n \in Int : n % ActWord \in 0 .. ActWord - 1
  BY <1>1, ConstantFacts DEF Counters
<1>3. \A n \in Counters : Inc(n) \in Counters
  BY <1>2 DEF Inc, Counters
<1> QED BY <1>2, <1>3


(* The three managed arrays, and where the two address arrays begin. *)
LEMMA ArrayFacts ==
  /\ IsGeometry(Streams) /\ Streams.raw_len = StreamRaw /\ Streams.total_entries = NumStreams
  /\ IsGeometry(Lan) /\ Lan.raw_len = NumAddrs /\ Lan.total_entries = NumLan
  /\ IsGeometry(Wan) /\ Wan.raw_len = NumAddrs /\ Wan.total_entries = NumAddrs - NumLan
  /\ Mid(Lan) \in Nat /\ Mid(Lan) < NumLan
  /\ Mid(Wan) \in Nat /\ NumLan <= Mid(Wan) /\ Mid(Wan) < NumAddrs
<1> USE ConstantFacts
<1>1. ASSUME NEW a \in Nat, NEW b \in Nat, NEW n \in Nat, a <= b, b < n, 2 * n + 2 < Word
      PROVE  LET g == MkGeometry(a, b, n) IN
               /\ IsGeometry(g) /\ g.raw_len = n /\ g.total_entries = b - a + 1
               /\ g.idx_min = a
  <2> DEFINE g == MkGeometry(a, b, n)
  <2>1. g.idx_min = a /\ g.idx_max = b /\ g.raw_len = n /\ g.total_entries = b - a + 1
    BY DEF MkGeometry
  <2>2. g = MkGeometry(g.idx_min, g.idx_max, g.raw_len)
    <3> HIDE DEF g
    <3>1. MkGeometry(g.idx_min, g.idx_max, g.raw_len) = MkGeometry(a, b, n)
      BY <2>1
    <3> QED BY <3>1 DEF g
  <2> HIDE DEF g
  <2>3. /\ g.idx_min \in Nat /\ g.idx_max \in Nat /\ g.raw_len \in Nat
        /\ g.idx_min <= g.idx_max /\ g.idx_max < g.raw_len
        /\ 2 * g.raw_len + 2 < Word
    BY <1>1, <2>1
  <2>4. IsGeometry(g)
    BY <2>2, <2>3, Zenon DEF IsGeometry
  <2> QED BY <2>1, <2>4 DEF g
<1>2. IsGeometry(Streams) /\ Streams.raw_len = StreamRaw /\ Streams.total_entries = NumStreams
  <2>1. NumStreams - 1 \in Nat /\ NumStreams - 1 < StreamRaw
    OBVIOUS
  <2> QED BY <1>1, <2>1 DEF Streams
<1>3. /\ IsGeometry(Lan) /\ Lan.raw_len = NumAddrs /\ Lan.total_entries = NumLan
      /\ Lan.idx_min = 0
  <2>1. NumLan - 1 \in Nat /\ NumLan - 1 < NumAddrs
    OBVIOUS
  <2> QED BY <1>1, <2>1 DEF Lan
<1>4. /\ IsGeometry(Wan) /\ Wan.raw_len = NumAddrs /\ Wan.total_entries = NumAddrs - NumLan
      /\ Wan.idx_min = NumLan
  <2>1. NumAddrs - 1 \in Nat /\ NumLan <= NumAddrs - 1
    OBVIOUS
  <2> QED BY <1>1, <2>1 DEF Wan
<1>5. Mid(Lan) = NumLan \div 2
  BY <1>3, GeometryFacts
<1>6. Mid(Wan) = NumLan + (NumAddrs - NumLan) \div 2 /\ Mid(Wan) \in 0 .. NumAddrs - 1
  BY <1>4, GeometryFacts
<1> QED BY <1>2, <1>3, <1>4, <1>5, <1>6

(* A packet's key is one of the keys, with two of the addresses. *)
LEMMA KeyFacts ==
  ASSUME NEW pkt \in Packets
  PROVE  LET key == pkt_init_key(pkt).key IN
           /\ key \in Keys /\ Hash(key) \in Buckets /\ key.left \in Ips /\ key.right \in Ips
<1>1. pkt.srcip \in Ips /\ pkt.dstip \in Ips
  BY DEF Ips
<1>2. LET key == pkt_init_key(pkt).key IN key.left \in Ips /\ key.right \in Ips
  BY <1>1 DEF pkt_init_key, net_stream_init_v4
<1> QED BY <1>2 DEF Keys, Buckets
-----------------------------------------------------------------------------
(***************************************************************************)
(* What holds of the tables between any two steps of a handler.            *)
(***************************************************************************)
(* No list is longer than its array. *)
Sizes(t) == Len(t.clist) <= ListMax /\ Len(t.cwait) <= WaitMax

LanTaken(t) == t.ataken \cap (0 .. NumLan)
WanTaken(t) == t.ataken \cap (NumLan + 1 .. NumAddrs - 1)

(* Until one strays, the two address arrays are two arrays: each covers and
   counts the entries of its part. *)
Covered(t) ==
  /\ Framed(Lan, t.lan, LanTaken(t)) /\ Framed(Wan, t.wan, WanTaken(t))
  /\ t.lan.idx_hi <= NumLan + 1 /\ t.wan.idx_lo \in NumLan .. Mid(Wan)

Counted(t) ==
  /\ t.lan.num_entries = Cardinality(LanTaken(t)) /\ t.lan.num_entries <= NumLan
  /\ t.wan.num_entries = Cardinality(WanTaken(t)) /\ t.wan.num_entries <= NumAddrs - NumLan

(* An entry in use, or once entered in ht_v4addrs, tells by its place
   whether it is for internal addresses. *)
Placed(t) ==
  /\ \A i \in t.ataken : t.addr[i].internal <=> InLanPart(i)
  /\ \A ip \in Ips : t.ht_v4addrs[ip] # NoEntry =>
       /\ ip \in LanIps <=> InLanPart(t.ht_v4addrs[ip])
       /\ t.addr[t.ht_v4addrs[ip]].internal <=> InLanPart(t.ht_v4addrs[ip])

(* The process has ended for want of an entry of a full array only. *)
Full(t) ==
  t.fault = "null_addr" => t.lan.num_entries = NumLan \/ t.wan.num_entries = NumAddrs - NumLan

Parted(t) == ~t.strayed => Covered(t) /\ Counted(t) /\ Placed(t) /\ Full(t)

(* A stream entry, in use or not, is of the type its key says. *)
ByOwnAddresses(st) ==
  LET k == st.key
      internal == {k.left, k.right} \subseteq LanIps
  IN  /\ st.type = FLOW_TYPE_INTERNAL <=> internal
      /\ st.type \in {1, 3} <=> ~internal /\ k.rport \in WebPorts
      /\ st.type \in {2, 3} <=> ~internal /\ k.right \in LanIps

Classed(t) == ~t.strayed => \A s \in StreamSlots : ByOwnAddresses(t.ss[s])

(* A stream that has ended is on a list. *)
Ended(t, s) == s \in t.staken /\ t.ss[s].cleanup /\ ~t.ss[s].dropped

Listed(t) == ToSet(t.clist) \cup ToSet(t.cwait)

Queues(t) ==
  t.fault = "none" /\ t.si.idx_lo # Word - 1 =>
    \A s \in StreamSlots : Ended(t, s) => s \in Listed(t)

Sound(t) ==
  /\ t \in Tables /\ Sizes(t) /\ Framed(Streams, t.si, t.staken) /\ Parted(t) /\ Classed(t)

Good(t) == Sound(t) /\ Queues(t)

(* The fields of the tables have their types. *)
LEMMA TableFacts ==
  ASSUME NEW t \in Tables
  PROVE  /\ t.si \in Infos /\ t.staken \subseteq StreamSlots
         /\ t.ss \in [StreamSlots -> StreamInfos]
         /\ t.lan \in Infos /\ t.wan \in Infos /\ t.ataken \subseteq AddrSlots
         /\ t.addr \in [AddrSlots -> AddrInfos]
         /\ t.ht_streams \in [Buckets -> StreamSlots \cup {NoEntry}]
         /\ t.ht_v4addrs \in [Ips -> AddrSlots \cup {NoEntry}]
         /\ t.clist \in Seq(StreamSlots) /\ t.cwait \in Seq(StreamSlots)
         /\ t.flow \in [0 .. 5 -> Counters] /\ t.protos \in [Protos -> Counters]
         /\ t.refused \in Counters /\ t.strayed \in BOOLEAN
BY DEF Tables

(* What is said of the addresses depends on a few fields only. *)
LEMMA PartedSame ==
  ASSUME NEW t \in Tables, NEW u \in Tables, Parted(t),
         u.strayed = t.strayed, u.lan = t.lan, u.wan = t.wan, u.ataken = t.ataken,
         u.ht_v4addrs = t.ht_v4addrs, u.fault = t.fault \/ u.fault # "null_addr",
         \A i \in AddrSlots : u.addr[i].internal = t.addr[i].internal
  PROVE  Parted(u)
<1> SUFFICES ASSUME ~t.strayed PROVE Covered(u) /\ Counted(u) /\ Placed(u) /\ Full(u)
  BY DEF Parted
<1>1. Covered(t) /\ Counted(t) /\ Placed(t) /\ Full(t)
  BY DEF Parted
<1>2. Covered(u) /\ Counted(u) /\ Full(u)
  BY <1>1 DEF Covered, Counted, Full, LanTaken, WanTaken
<1>3. t.ataken \subseteq AddrSlots /\ t.ht_v4addrs \in [Ips -> AddrSlots \cup {NoEntry}]
  BY TableFacts
<1>4. Placed(u)
  BY <1>1, <1>3 DEF Placed
<1> QED BY <1>2, <1>4

(* What is said of the streams' types depends on keys and types only. *)
LEMMA ClassedSame ==
  ASSUME NEW t, NEW u, Classed(t), u.strayed = t.strayed,
         \A s \in StreamSlots : u.ss[s].key = t.ss[s].key /\ u.ss[s].type = t.ss[s].type
  PROVE  Classed(u)
BY DEF Classed, ByOwnAddresses

(* What is said of the lists, when they only get longer and nothing ends. *)
LEMMA QueuesSame ==
  ASSUME NEW t, NEW u, Queues(t), u.fault = "none" => t.fault = "none",
         u.si = t.si, u.staken = t.staken, Listed(t) \subseteq Listed(u),
         \A s \in StreamSlots : Ended(u, s) => Ended(t, s)
  PROVE  Queues(u)
BY DEF Queues

-----------------------------------------------------------------------------
(***************************************************************************)
(* Steps that leave addresses and stream entries where they are.           *)
(***************************************************************************)
Fields == {"si", "staken", "ss", "lan", "wan", "ataken", "addr", "ht_streams", "ht_v4addrs",
           "clist", "cwait", "flow", "protos", "refused", "strayed", "fault"}

(* u differs from t at most in the fields F. *)
Only(t, u, F) == \A f \in Fields \ F : u[f] = t[f]

(* One stream entry is written. *)
LEMMA PutStream ==
  ASSUME NEW t \in Tables, NEW s \in StreamSlots, NEW st \in StreamInfos
  PROVE  LET u == [t EXCEPT !.ss[s] = st] IN
           u \in Tables /\ Only(t, u, {"ss"}) /\ u.ss = [t.ss EXCEPT ![s] = st]
<1> DEFINE u == [t EXCEPT !.ss[s] = st]
<1>1. t.ss \in [StreamSlots -> StreamInfos]
  BY TableFacts
<1>2. PICK v \in [StreamSlots -> StreamInfos] : v = [t.ss EXCEPT ![s] = st]
  BY <1>1
<1>3. u = [t EXCEPT !.ss = v]
  BY <1>2
<1>4. u \in Tables
  BY <1>3 DEF Tables
<1>5. u.ss = v
  BY <1>3 DEF Tables
<1>6. Only(t, u, {"ss"})
  BY <1>3 DEF Tables, Only, Fields
<1> QED BY <1>2, <1>4, <1>5, <1>6

(* One address entry is written. *)
LEMMA PutAddr ==
  ASSUME NEW t \in Tables, NEW i \in AddrSlots, NEW a \in AddrInfos
  PROVE  LET u == [t EXCEPT !.addr[i] = a] IN
           u \in Tables /\ Only(t, u, {"addr"}) /\ u.addr = [t.addr EXCEPT ![i] = a]
<1> DEFINE u == [t EXCEPT !.addr[i] = a]
<1>1. t.addr \in [AddrSlots -> AddrInfos]
  BY TableFacts
<1>2. PICK v \in [AddrSlots -> AddrInfos] : v = [t.addr EXCEPT ![i] = a]
  BY <1>1
<1>3. u = [t EXCEPT !.addr = v]
  BY <1>2
<1>4. u \in Tables
  BY <1>3 DEF Tables
<1>5. u.addr = v
  BY <1>3 DEF Tables
<1>6. Only(t, u, {"addr"})
  BY <1>3 DEF Tables, Only, Fields
<1> QED BY <1>2, <1>4, <1>5, <1>6

(* The number of an address's active streams is set to a word. *)
LEMMA PutActive ==
  ASSUME NEW t \in Tables, NEW i \in AddrSlots, NEW n \in 0 .. ActWord - 1
  PROVE  LET u == [t EXCEPT !.addr[i].nstreams_active = n] IN
           /\ u \in Tables /\ Only(t, u, {"addr"})
           /\ \A j \in AddrSlots : u.addr[j].internal = t.addr[j].internal
<1>1. t.addr \in [AddrSlots -> AddrInfos]
  BY TableFacts
<1>2. t.addr[i] \in AddrInfos
  BY <1>1
<1>3. PICK a \in AddrInfos : a = [t.addr[i] EXCEPT !.nstreams_active = n]
  BY <1>2 DEF AddrInfos
<1>4. a.internal = t.addr[i].internal
  BY <1>2, <1>3 DEF AddrInfos
<1> DEFINE u == [t EXCEPT !.addr[i] = a]
<1>5. [t EXCEPT !.addr[i].nstreams_active = n] = u
  BY <1>3
<1>6. u \in Tables /\ Only(t, u, {"addr"}) /\ u.addr = [t.addr EXCEPT ![i] = a]
  BY PutAddr
<1> HIDE DEF u
<1>7. \A j \in AddrSlots : u.addr[j].internal = t.addr[j].internal
  BY <1>1, <1>4, <1>6
<1> QED BY <1>5, <1>6, <1>7

(* The counters of active streams, which wrap around. *)
LEMMA ActiveStep ==
  ASSUME NEW t \in Tables, NEW i \in AddrSlots
  PROVE  \A u \in {MoreActive(t, i), LessActive(t, i)} :
           /\ u \in Tables /\ Only(t, u, {"addr"})
           /\ \A j \in AddrSlots : u.addr[j].internal = t.addr[j].internal
<1>1. t.addr \in [AddrSlots -> AddrInfos]
  BY TableFacts
<1>2. t.addr[i].nstreams_active \in 0 .. ActWord - 1
  BY <1>1 DEF AddrInfos
<1>3. t.addr[i].nstreams_active + 1 \in Int /\ t.addr[i].nstreams_active - 1 \in Int
  BY <1>2, ConstantFacts
<1>4. PICK m \in 0 .. ActWord - 1 : m = (t.addr[i].nstreams_active + 1) % ActWord
  BY <1>3, WordFacts
<1>5. PICK n \in 0 .. ActWord - 1 : n = (t.addr[i].nstreams_active - 1) % ActWord
  BY <1>3, WordFacts
<1>6. MoreActive(t, i) = [t EXCEPT !.addr[i].nstreams_active = m]
  BY <1>4 DEF MoreActive
<1>7. LessActive(t, i) = [t EXCEPT !.addr[i].nstreams_active = n]
  BY <1>5 DEF LessActive, DecActive
<1>8. ASSUME NEW k \in 0 .. ActWord - 1, NEW u, u = [t EXCEPT !.addr[i].nstreams_active = k]
      PROVE  /\ u \in Tables /\ Only(t, u, {"addr"})
             /\ \A j \in AddrSlots : u.addr[j].internal = t.addr[j].internal
  BY <1>8, PutActive
<1> QED BY <1>6, <1>7, <1>8

Slight == {"ss", "addr", "clist", "cwait", "flow", "protos", "refused", "ht_streams"}

(* A step that moves no entry is good when what it says of the streams is. *)
LEMMA SlightGood ==
  ASSUME NEW t, Good(t), NEW u \in Tables, Only(t, u, Slight),
         \A i \in AddrSlots : u.addr[i].internal = t.addr[i].internal,
         \A s \in StreamSlots : u.ss[s].key = t.ss[s].key /\ u.ss[s].type = t.ss[s].type,
         Sizes(u), Queues(u)
  PROVE  Good(u)
<1>1. /\ u.si = t.si /\ u.staken = t.staken /\ u.lan = t.lan /\ u.wan = t.wan
      /\ u.ataken = t.ataken /\ u.ht_v4addrs = t.ht_v4addrs /\ u.strayed = t.strayed
      /\ u.fault = t.fault
  BY DEF Only, Fields, Slight
<1>2. Parted(u)
  BY <1>1, PartedSame DEF Good, Sound
<1>3. Classed(u)
  BY <1>1, ClassedSame DEF Good, Sound
<1> QED BY <1>1, <1>2, <1>3 DEF Good, Sound

(* The same for a step that does not touch lists and flags either. *)
LEMMA CountingGood ==
  ASSUME NEW t, Good(t), NEW u \in Tables,
         Only(t, u, {"addr", "flow", "protos", "refused", "ht_streams"}),
         \A i \in AddrSlots : u.addr[i].internal = t.addr[i].internal
  PROVE  Good(u)
<1>1. /\ u.si = t.si /\ u.staken = t.staken /\ u.ss = t.ss /\ u.clist = t.clist
      /\ u.cwait = t.cwait /\ u.fault = t.fault
  BY DEF Only, Fields
<1>2. Only(t, u, Slight)
  BY DEF Only, Slight
<1>3. Sizes(u) /\ Queues(u)
  BY <1>1 DEF Good, Sound, Sizes, Queues, Ended, Listed
<1> QED BY <1>1, <1>2, <1>3, SlightGood

(* A stream is put on a list: on the main one or on the one that waits, if
   there is room. *)
LEMMA QueueStep ==
  ASSUME NEW t \in Tables, Sizes(t), NEW s \in StreamSlots
  PROVE  LET u == add_stream_to_cleanup_list(t, s) IN
           /\ u \in Tables /\ Only(t, u, {"clist", "cwait"}) /\ Sizes(u)
           /\ Listed(t) \subseteq Listed(u) /\ (~NoRoom(t) => s \in Listed(u))
           /\ \A x \in ToSet(t.clist) : x \in ToSet(u.clist)
<1>0. /\ t.clist \in Seq(StreamSlots) /\ t.cwait \in Seq(StreamSlots)
      /\ ListMax \in Nat /\ WaitMax \in Nat
  BY TableFacts, ConstantFacts
<1>1. ASSUME NEW l \in Seq(StreamSlots), NEW m \in Nat, Len(l) <= m
      PROVE  /\ LIST_ADD(l, m, s) \in Seq(StreamSlots) /\ Len(LIST_ADD(l, m, s)) <= m
             /\ ToSet(l) \subseteq ToSet(LIST_ADD(l, m, s))
             /\ Len(l) # m => s \in ToSet(LIST_ADD(l, m, s))
  <2>1. CASE Len(l) >= m
    BY <1>1, <2>1 DEF LIST_ADD
  <2>2. CASE ~(Len(l) >= m)
    <3> DEFINE k == Append(l, s)
    <3>1. LIST_ADD(l, m, s) = k
      BY <2>2 DEF LIST_ADD
    <3>2. /\ k \in Seq(StreamSlots) /\ Len(k) = Len(l) + 1 /\ k[Len(l) + 1] = s
          /\ \A i \in 1 .. Len(l) : k[i] = l[i]
      OBVIOUS
    <3>3. DOMAIN l = 1 .. Len(l) /\ DOMAIN k = 1 .. Len(l) + 1 /\ Len(l) \in Nat
      BY <3>2
    <3> HIDE DEF k
    <3>4. ToSet(l) \subseteq ToSet(k) /\ s \in ToSet(k)
      BY <3>2, <3>3 DEF ToSet
    <3>5. Len(k) <= m
      BY <2>2, <3>2, <3>3
    <3>6. k \in Seq(StreamSlots)
      BY <3>2
    <3> QED BY <3>1, <3>4, <3>5, <3>6, Zenon
  <2> QED BY <2>1, <2>2
<1>2. CASE UseMainList
  <2>1. PICK l \in Seq(StreamSlots) : l = LIST_ADD(t.clist, ListMax, s)
    BY <1>0, <1>1 DEF Sizes
  <2>2. /\ Len(l) <= ListMax /\ ToSet(t.clist) \subseteq ToSet(l)
        /\ Len(t.clist) # ListMax => s \in ToSet(l)
    BY <1>0, <1>1, <2>1 DEF Sizes
  <2>3. add_stream_to_cleanup_list(t, s) = [t EXCEPT !.clist = l]
    BY <1>2, <2>1 DEF add_stream_to_cleanup_list
  <2> DEFINE u == [t EXCEPT !.clist = l]
  <2>4. u \in Tables /\ Only(t, u, {"clist"}) /\ u.clist = l /\ u.cwait = t.cwait
    BY DEF Tables, Only, Fields
  <2> HIDE DEF u
  <2>5. Only(t, u, {"clist", "cwait"})
    BY <2>4 DEF Only
  <2>6. Sizes(u) /\ Listed(t) \subseteq Listed(u) /\ (~NoRoom(t) => s \in Listed(u))
    BY <1>2, <2>2, <2>4 DEF Sizes, Listed, NoRoom
  <2> QED BY <2>2, <2>3, <2>4, <2>5, <2>6 DEF u
<1>3. CASE ~UseMainList
  <2>1. PICK l \in Seq(StreamSlots) : l = LIST_ADD(t.cwait, WaitMax, s)
    BY <1>0, <1>1 DEF Sizes
  <2>2. /\ Len(l) <= WaitMax /\ ToSet(t.cwait) \subseteq ToSet(l)
        /\ Len(t.cwait) # WaitMax => s \in ToSet(l)
    BY <1>0, <1>1, <2>1 DEF Sizes
  <2>3. add_stream_to_cleanup_list(t, s) = [t EXCEPT !.cwait = l]
    BY <1>3, <2>1 DEF add_stream_to_cleanup_list
  <2> DEFINE u == [t EXCEPT !.cwait = l]
  <2>4. u \in Tables /\ Only(t, u, {"cwait"}) /\ u.cwait = l /\ u.clist = t.clist
    BY DEF Tables, Only, Fields
  <2> HIDE DEF u
  <2>5. Only(t, u, {"clist", "cwait"})
    BY <2>4 DEF Only
  <2>6. Sizes(u) /\ Listed(t) \subseteq Listed(u) /\ (~NoRoom(t) => s \in Listed(u))
    BY <1>3, <2>2, <2>4 DEF Sizes, Listed, NoRoom
  <2> QED BY <2>3, <2>4, <2>5, <2>6 DEF u
<1> QED BY <1>2, <1>3

(* The time of the last packet. *)
LEMMA TouchGood ==
  ASSUME NEW t, Good(t), NEW s \in StreamSlots, skew \in 0 .. MaxBack
  PROVE  LET u == [t EXCEPT !.ss[s].age = skew] IN Good(u) /\ Only(t, u, {"ss"})
<1>0. t \in Tables /\ t.ss \in [StreamSlots -> StreamInfos]
  BY TableFacts DEF Good, Sound
<1>1. t.ss[s] \in StreamInfos
  BY <1>0
<1>2. PICK st \in StreamInfos : st = [t.ss[s] EXCEPT !.age = skew]
  <2>1. skew \in 0 .. Expired + 1 + MaxBack
    BY ConstantFacts
  <2> QED BY <1>1, <2>1 DEF StreamInfos
<1>3. /\ st.key = t.ss[s].key /\ st.type = t.ss[s].type /\ st.cleanup = t.ss[s].cleanup
      /\ st.dropped = t.ss[s].dropped
  BY <1>1, <1>2 DEF StreamInfos
<1> DEFINE u == [t EXCEPT !.ss[s] = st]
<1>4. [t EXCEPT !.ss[s].age = skew] = u
  BY <1>2
<1>5. u \in Tables /\ Only(t, u, {"ss"}) /\ u.ss = [t.ss EXCEPT ![s] = st]
  BY <1>0, PutStream
<1> HIDE DEF u
<1>6. /\ u.si = t.si /\ u.staken = t.staken /\ u.clist = t.clist /\ u.cwait = t.cwait
      /\ u.fault = t.fault /\ u.addr = t.addr
  BY <1>5 DEF Only, Fields
<1>7. \A x \in StreamSlots : /\ u.ss[x].key = t.ss[x].key /\ u.ss[x].type = t.ss[x].type
                             /\ u.ss[x].cleanup = t.ss[x].cleanup
                             /\ u.ss[x].dropped = t.ss[x].dropped
  BY <1>0, <1>3, <1>5
<1>8. Sizes(u) /\ Queues(u)
  <2>1. Listed(u) = Listed(t) /\ \A x \in StreamSlots : Ended(u, x) => Ended(t, x)
    BY <1>6, <1>7 DEF Listed, Ended
  <2>2. Queues(t) /\ Sizes(t)
    BY DEF Good, Sound
  <2> QED BY <1>6, <2>1, <2>2, QueuesSame DEF Sizes
<1>9. Only(t, u, Slight)
  BY <1>5 DEF Only, Slight
<1> QED BY <1>4, <1>5, <1>6, <1>7, <1>8, <1>9, SlightGood

(* A FIN or RST: the stream has ended, and is on its list unless there was
   no room. *)
LEMMA MarkEndedGood ==
  ASSUME NEW t, Good(t), NEW s \in StreamSlots, NEW pkt
  PROVE  LET u == MarkEnded(t, s, pkt) IN Good(u) /\ Only(t, u, {"ss", "clist", "cwait"})
<1>1. CASE ~(pkt.isfin /\ ~t.ss[s].cleanup)
  <2>1. MarkEnded(t, s, pkt) = t
    BY <1>1 DEF MarkEnded
  <2> QED BY <2>1 DEF Only
<1>2. CASE pkt.isfin /\ ~t.ss[s].cleanup
  <2>0. t \in Tables /\ Sizes(t) /\ Queues(t) /\ t.ss \in [StreamSlots -> StreamInfos]
    BY TableFacts DEF Good, Sound
  <2>1. PICK v : v = add_stream_to_cleanup_list(t, s)
    OBVIOUS
  <2>2. /\ v \in Tables /\ Only(t, v, {"clist", "cwait"}) /\ Sizes(v)
        /\ Listed(t) \subseteq Listed(v) /\ (~NoRoom(t) => s \in Listed(v))
    BY <2>0, <2>1, QueueStep
  <2>3. v.ss = t.ss
    BY <2>2 DEF Only, Fields
  <2>4. t.ss[s] \in StreamInfos
    BY <2>0
  <2>5. PICK full \in BOOLEAN : full = NoRoom(t)
    BY DEF NoRoom
  <2>6. PICK st \in StreamInfos : st = [t.ss[s] EXCEPT !.cleanup = TRUE, !.dropped = full]
    BY <2>4 DEF StreamInfos
  <2>7. st.key = t.ss[s].key /\ st.type = t.ss[s].type /\ st.dropped = full
    BY <2>4, <2>6 DEF StreamInfos
  <2> DEFINE u == [v EXCEPT !.ss[s] = st]
  <2>8. MarkEnded(t, s, pkt) = u
    <3>1. MarkEnded(t, s, pkt) = [v EXCEPT !.ss[s].cleanup = TRUE, !.ss[s].dropped = full]
      BY <1>2, <2>1, <2>5 DEF MarkEnded
    <3>2. v.ss \in [StreamSlots -> StreamInfos]
      BY <2>0, <2>3
    <3>3. [v EXCEPT !.ss[s].cleanup = TRUE, !.ss[s].dropped = full] = u
      BY <2>2, <2>3, <2>6, <3>2 DEF Tables
    <3> QED BY <3>1, <3>3
  <2>9. u \in Tables /\ Only(v, u, {"ss"}) /\ u.ss = [v.ss EXCEPT ![s] = st]
    BY <2>2, PutStream
  <2> HIDE DEF u
  <2>10. Only(t, u, {"ss", "clist", "cwait"})
    BY <2>2, <2>9 DEF Only
  <2>11. /\ u.si = t.si /\ u.staken = t.staken /\ u.clist = v.clist /\ u.cwait = v.cwait
         /\ u.fault = t.fault /\ u.addr = t.addr
    BY <2>9, <2>10 DEF Only, Fields
  <2>12. \A x \in StreamSlots : u.ss[x].key = t.ss[x].key /\ u.ss[x].type = t.ss[x].type
    BY <2>0, <2>3, <2>7, <2>9
  <2>13. Sizes(u) /\ Listed(u) = Listed(v)
    BY <2>2, <2>11 DEF Sizes, Listed
  <2>14. Queues(u)
    <3>1. SUFFICES ASSUME u.fault = "none", u.si.idx_lo # Word - 1, NEW x \in StreamSlots,
                          Ended(u, x)
                   PROVE  x \in Listed(u)
      BY DEF Queues
    <3>2. CASE x = s
      <4>1. ~full
        BY <2>0, <2>3, <2>7, <2>9, <3>1, <3>2 DEF Ended
      <4> QED BY <2>2, <2>5, <2>13, <3>2, <4>1
    <3>3. CASE x # s
      <4>1. Ended(t, x)
        BY <2>0, <2>3, <2>9, <2>11, <3>1, <3>3 DEF Ended
      <4>2. x \in Listed(t)
        BY <2>0, <2>11, <3>1, <4>1 DEF Queues
      <4> QED BY <2>2, <2>13, <4>2
    <3> QED BY <3>2, <3>3
  <2>15. Only(t, u, Slight)
    BY <2>10 DEF Only, Slight
  <2>16. Good(u)
    BY <2>9, <2>11, <2>12, <2>13, <2>14, <2>15, SlightGood
  <2> QED BY <2>8, <2>10, <2>16
<1> QED BY <1>1, <1>2

(* The first packet of a stream makes its addresses more active. *)
LEMMA CountersGood ==
  ASSUME NEW t, Good(t), NEW s \in StreamSlots
  PROVE  LET u == inc_stream_counters(t, s) IN Good(u) /\ Only(t, u, {"ss", "addr"})
<1>0. t \in Tables /\ t.ss \in [StreamSlots -> StreamInfos]
  BY TableFacts DEF Good, Sound
<1>1. t.ss[s] \in StreamInfos
  BY <1>0
<1>2. PICK st \in StreamInfos : st = [t.ss[s] EXCEPT !.packets = 1]
  BY <1>1 DEF StreamInfos
<1>3. /\ st.key = t.ss[s].key /\ st.type = t.ss[s].type /\ st.cleanup = t.ss[s].cleanup
      /\ st.dropped = t.ss[s].dropped
  BY <1>1, <1>2 DEF StreamInfos
<1>4. PICK u : u = [t EXCEPT !.ss[s] = st]
  OBVIOUS
<1>5. u \in Tables /\ Only(t, u, {"ss"}) /\ u.ss = [t.ss EXCEPT ![s] = st]
  BY <1>0, <1>4, PutStream
<1>6. /\ u.si = t.si /\ u.staken = t.staken /\ u.clist = t.clist /\ u.cwait = t.cwait
      /\ u.fault = t.fault /\ u.addr = t.addr
  BY <1>5 DEF Only, Fields
<1>7. \A x \in StreamSlots : /\ u.ss[x].key = t.ss[x].key /\ u.ss[x].type = t.ss[x].type
                             /\ u.ss[x].cleanup = t.ss[x].cleanup
                             /\ u.ss[x].dropped = t.ss[x].dropped
  BY <1>0, <1>3, <1>5
<1>8. Sizes(u) /\ Queues(u)
  <2>1. Listed(u) = Listed(t) /\ \A x \in StreamSlots : Ended(u, x) => Ended(t, x)
    BY <1>6, <1>7 DEF Listed, Ended
  <2>2. Queues(t) /\ Sizes(t)
    BY DEF Good, Sound
  <2> QED BY <1>6, <2>1, <2>2, QueuesSame DEF Sizes
<1>9. Only(t, u, Slight)
  BY <1>5 DEF Only, Slight
<1>10. Good(u)
  BY <1>5, <1>6, <1>7, <1>8, <1>9, SlightGood
<1>11. CASE t.ss[s].packets > 0
  <2>1. inc_stream_counters(t, s) = u
    BY <1>2, <1>4, <1>11 DEF inc_stream_counters
  <2>2. Only(t, u, {"ss", "addr"})
    BY <1>5 DEF Only
  <2> QED BY <1>10, <2>1, <2>2
<1>12. CASE ~(t.ss[s].packets > 0)
  <2>1. PICK l \in AddrSlots, r \in AddrSlots : l = t.ss[s].idx_left /\ r = t.ss[s].idx_right
    BY <1>1 DEF StreamInfos
  <2>2. PICK v : v = MoreActive(u, l)
    OBVIOUS
  <2>3. /\ v \in Tables /\ Only(u, v, {"addr"})
        /\ \A j \in AddrSlots : v.addr[j].internal = u.addr[j].internal
    BY <1>5, <2>1, <2>2, ActiveStep
  <2>4. PICK w : w = MoreActive(v, r)
    OBVIOUS
  <2>6. /\ w \in Tables /\ Only(v, w, {"addr"})
        /\ \A j \in AddrSlots : w.addr[j].internal = v.addr[j].internal
    BY <2>1, <2>3, <2>4, ActiveStep
  <2>7. inc_stream_counters(t, s) = w
    BY <1>2, <1>4, <1>12, <2>1, <2>2, <2>4 DEF inc_stream_counters
  <2>8. Only(t, w, {"ss", "addr"})
    BY <1>5, <2>3, <2>6 DEF Only
  <2>9. Only(u, w, {"addr", "flow", "protos", "refused", "ht_streams"})
    BY <2>3, <2>6 DEF Only
  <2>10. Good(w)
    BY <1>10, <2>3, <2>6, <2>9, CountingGood
  <2> QED BY <2>7, <2>8, <2>10
<1> QED BY <1>11, <1>12

-----------------------------------------------------------------------------
(***************************************************************************)
(* Packets in flow_stats: all but k of those counted in TOTAL are counted  *)
(* in one of the types, or were refused.                                   *)
(***************************************************************************)
FlowSum(t) == t.flow[0] + t.flow[1] + t.flow[2] + t.flow[3] + t.flow[4] + t.refused

Balanced(t, k) == t.flow[5] = (FlowSum(t) + k) % CtrWord

(* The sum of the counters is a number. *)
LEMMA FlowSumNat ==
  ASSUME NEW t \in Tables
  PROVE  /\ FlowSum(t) \in Nat /\ \A f \in 0 .. 5 : t.flow[f] \in Counters
         /\ t.refused \in Counters
<1>1. t.flow \in [0 .. 5 -> Counters] /\ t.refused \in Counters
  BY TableFacts
<1>2. \A f \in 0 .. 5 : t.flow[f] \in Counters
  BY <1>1
<1>3. \A n \in Counters : n \in Nat
  BY ConstantFacts DEF Counters
<1>4. /\ t.flow[0] \in Nat /\ t.flow[1] \in Nat /\ t.flow[2] \in Nat /\ t.flow[3] \in Nat
      /\ t.flow[4] \in Nat /\ t.refused \in Nat
  BY <1>1, <1>2, <1>3
<1> QED BY <1>1, <1>2, <1>4 DEF FlowSum

(* Counting one more in one place moves the sum by one, modulo the word. *)
LEMMA IncSum ==
  ASSUME NEW a \in Nat, NEW n \in Counters
  PROVE  (a + Inc(n)) % CtrWord = (a + n + 1) % CtrWord
<1> DEFINE m == CtrWord
<1>0. m \in Nat \ {0} /\ n \in 0 .. m - 1
  BY ConstantFacts DEF Counters
<1> HIDE DEF m
<1>1. CASE n + 1 < m
  <2>1. n + 1 = m * 0 + (n + 1) /\ n + 1 \in 0 .. m - 1 /\ n + 1 \in Nat
    BY <1>0, <1>1
  <2>2. (n + 1) % m = n + 1
    BY <1>0, <2>1, ModUnique
  <2> QED BY <1>0, <2>2 DEF Inc, m
<1>2. CASE n + 1 = m
  <2>1. n + 1 = m * 1 + 0 /\ 0 \in 0 .. m - 1 /\ n + 1 \in Nat
    BY <1>0, <1>2
  <2>2. (n + 1) % m = 0
    BY <1>0, <2>1, ModUnique
  <2>3. (a + m) % m = a % m
    BY <1>0, ModCounts
  <2>4. a + n + 1 = a + m /\ a + 0 = a
    BY <1>0, <1>2
  <2> QED BY <2>2, <2>3, <2>4 DEF Inc, m
<1> QED BY <1>0, <1>1, <1>2

(* The balance does not depend on the rest of the tables. *)
LEMMA BalancedSame ==
  ASSUME NEW t, NEW u, NEW F, Only(t, u, F), "flow" \notin F, "refused" \notin F
  PROVE  \A k : Balanced(t, k) <=> Balanced(u, k)
<1>1. u.flow = t.flow /\ u.refused = t.refused
  BY DEF Only, Fields
<1> QED BY <1>1 DEF Balanced, FlowSum

(* shm_inc_global: one packet is still to be accounted for. *)
LEMMA GlobalStep ==
  ASSUME NEW t, Good(t)
  PROVE  LET u == shm_inc_global(t) IN
           Good(u) /\ Only(t, u, {"flow"}) /\ (Balanced(t, 0) => Balanced(u, 1))
<1>0. t \in Tables /\ t.flow \in [0 .. 5 -> Counters]
  BY TableFacts DEF Good, Sound
<1>1. PICK f \in [0 .. 5 -> Counters] : f = [t.flow EXCEPT ![5] = Inc(@)]
  <2>1. Inc(t.flow[5]) \in Counters
    BY <1>0, WordFacts
  <2> QED BY <1>0, <2>1
<1>2. /\ f[0] = t.flow[0] /\ f[1] = t.flow[1] /\ f[2] = t.flow[2] /\ f[3] = t.flow[3]
      /\ f[4] = t.flow[4] /\ f[5] = Inc(t.flow[5])
  BY <1>0, <1>1
<1>3. PICK u : u = [t EXCEPT !.flow = f]
  OBVIOUS
<1>4. shm_inc_global(t) = u
  BY <1>1, <1>3 DEF shm_inc_global, FLOW_TYPE_TOTAL
<1>5. u \in Tables /\ Only(t, u, {"flow"}) /\ u.flow = f
  BY <1>0, <1>3 DEF Tables, Only, Fields
<1>6. u.refused = t.refused /\ u.addr = t.addr
  BY <1>5 DEF Only, Fields
<1>7. Only(t, u, {"addr", "flow", "protos", "refused", "ht_streams"})
  BY <1>5 DEF Only
<1>8. Good(u)
  BY <1>5, <1>6, <1>7, CountingGood
<1>9. ASSUME Balanced(t, 0) PROVE Balanced(u, 1)
  <2>1. FlowSum(u) = FlowSum(t) /\ FlowSum(t) \in Nat
    BY <1>0, <1>2, <1>5, <1>6, FlowSumNat DEF FlowSum
  <2>2. t.flow[5] = FlowSum(t) % CtrWord
    BY <1>9, <2>1 DEF Balanced
  <2>3. u.flow[5] = ((FlowSum(t) % CtrWord) + 1) % CtrWord
    BY <1>2, <1>5, <2>2 DEF Inc
  <2>4. CtrWord \in Nat \ {0}
    BY ConstantFacts
  <2>5. u.flow[5] = (FlowSum(t) + 1) % CtrWord
    BY <2>1, <2>3, <2>4, ModCounts
  <2> QED BY <2>1, <2>5 DEF Balanced
<1> QED BY <1>4, <1>5, <1>8, <1>9

(* A packet of a stream is accounted for in the type of the stream. *)
LEMMA CountStep ==
  ASSUME NEW t, Good(t), NEW s \in StreamSlots
  PROVE  LET u == CountPacket(t, s) IN
           Good(u) /\ Only(t, u, {"flow", "protos"}) /\ (Balanced(t, 1) => Balanced(u, 0))
<1>0. /\ t \in Tables /\ t.flow \in [0 .. 5 -> Counters] /\ t.protos \in [Protos -> Counters]
      /\ t.ss \in [StreamSlots -> StreamInfos]
  BY TableFacts DEF Good, Sound
<1>1. PICK y \in 0 .. 4 : y = t.ss[s].type
  BY <1>0 DEF StreamInfos
<1>2. PICK f \in [0 .. 5 -> Counters] : f = [t.flow EXCEPT ![y] = Inc(@)]
  <2>1. Inc(t.flow[y]) \in Counters
    BY <1>0, WordFacts
  <2> QED BY <1>0, <2>1
<1>3. PICK e : e = shm_get_protocol(t.ss[s].key)
  OBVIOUS
<1>4. PICK p \in [Protos -> Counters] : p = inc_protocol_counters(t.protos, e)
  <2>1. CASE e \in Protos
    <3>1. Inc(t.protos[e]) \in Counters
      BY <1>0, <2>1, WordFacts
    <3> QED BY <1>0, <2>1, <3>1 DEF inc_protocol_counters
  <2>2. CASE e \notin Protos
    BY <1>0, <2>2 DEF inc_protocol_counters
  <2> QED BY <2>1, <2>2
<1>5. PICK u : u = [t EXCEPT !.flow = f, !.protos = p]
  OBVIOUS
<1>6. CountPacket(t, s) = u
  BY <1>1, <1>2, <1>3, <1>4, <1>5 DEF CountPacket
<1>7. u \in Tables /\ Only(t, u, {"flow", "protos"}) /\ u.flow = f
  BY <1>0, <1>5 DEF Tables, Only, Fields
<1>8. u.refused = t.refused /\ u.addr = t.addr
  BY <1>7 DEF Only, Fields
<1>9. Only(t, u, {"addr", "flow", "protos", "refused", "ht_streams"})
  BY <1>7 DEF Only
<1>10. Good(u)
  BY <1>7, <1>8, <1>9, CountingGood
<1>11. ASSUME Balanced(t, 1) PROVE Balanced(u, 0)
  <2>0. /\ FlowSum(t) \in Nat /\ FlowSum(u) \in Nat /\ t.refused \in Nat
        /\ t.flow[0] \in Nat /\ t.flow[1] \in Nat /\ t.flow[2] \in Nat /\ t.flow[3] \in Nat
        /\ t.flow[4] \in Nat /\ t.flow[y] \in Counters /\ t.flow[y] \in Nat
        /\ Inc(t.flow[y]) \in Nat
    <3>1. \A n \in Counters : n \in Nat /\ Inc(n) \in Nat
      BY ConstantFacts, WordFacts DEF Counters
    <3>2. \A g \in 0 .. 5 : t.flow[g] \in Counters
      BY <1>0
    <3> QED BY <1>0, <1>7, <3>1, <3>2, FlowSumNat
  <2>1. /\ f[0] = (IF y = 0 THEN Inc(t.flow[y]) ELSE t.flow[0])
        /\ f[1] = (IF y = 1 THEN Inc(t.flow[y]) ELSE t.flow[1])
        /\ f[2] = (IF y = 2 THEN Inc(t.flow[y]) ELSE t.flow[2])
        /\ f[3] = (IF y = 3 THEN Inc(t.flow[y]) ELSE t.flow[3])
        /\ f[4] = (IF y = 4 THEN Inc(t.flow[y]) ELSE t.flow[4]) /\ f[5] = t.flow[5]
    BY <1>0, <1>2
  <2>2. PICK a \in Nat : FlowSum(t) = a + t.flow[y] /\ FlowSum(u) = a + Inc(t.flow[y])
    <3> DEFINE a == FlowSum(t) - t.flow[y]
    <3>1. a \in Nat
      <4>1. CASE y = 0
        BY <2>0, <4>1 DEF FlowSum
      <4>2. CASE y = 1
        BY <2>0, <4>2 DEF FlowSum
      <4>3. CASE y = 2
        BY <2>0, <4>3 DEF FlowSum
      <4>4. CASE y = 3
        BY <2>0, <4>4 DEF FlowSum
      <4>5. CASE y = 4
        BY <2>0, <4>5 DEF FlowSum
      <4> QED BY <4>1, <4>2, <4>3, <4>4, <4>5
    <3>2. FlowSum(t) = a + t.flow[y]
      BY <2>0
    <3>3. FlowSum(u) = a + Inc(t.flow[y])
      BY <1>7, <1>8, <2>0, <2>1 DEF FlowSum
    <3> HIDE DEF a
    <3> QED BY <3>1, <3>2, <3>3
  <2>3. FlowSum(u) % CtrWord = (FlowSum(t) + 1) % CtrWord
    BY <2>0, <2>2, IncSum
  <2>4. u.flow[5] = (FlowSum(t) + 1) % CtrWord
    BY <1>7, <1>11, <2>1 DEF Balanced
  <2> QED BY <2>0, <2>3, <2>4 DEF Balanced
<1> QED BY <1>6, <1>7, <1>10, <1>11

-----------------------------------------------------------------------------
(***************************************************************************)
(* Addresses.                                                              *)
(***************************************************************************)
AddrFields == {"lan", "wan", "ataken", "addr", "ht_v4addrs", "strayed", "fault"}

(* A step that only makes the process end, but not for want of an address. *)
LEMMA FaultGood ==
  ASSUME NEW t, Sound(t), NEW f \in (Aborts \cup {"assert_get"}) \ {"none"}
  PROVE  LET u == [t EXCEPT !.fault = f] IN
           Good(u) /\ Only(t, u, {"fault"}) /\ u.fault = f
<1> DEFINE u == [t EXCEPT !.fault = f]
<1>0. t \in Tables
  BY DEF Good, Sound
<1>1. u \in Tables /\ Only(t, u, {"fault"}) /\ u.fault = f
  BY <1>0 DEF Tables, Only, Fields
<1> HIDE DEF u
<1>2. /\ u.si = t.si /\ u.staken = t.staken /\ u.ss = t.ss /\ u.clist = t.clist
      /\ u.cwait = t.cwait /\ u.strayed = t.strayed /\ u.lan = t.lan /\ u.wan = t.wan
      /\ u.ataken = t.ataken /\ u.ht_v4addrs = t.ht_v4addrs /\ u.addr = t.addr
  BY <1>1 DEF Only, Fields
<1>3. f # "null_addr" /\ f # "none"
  BY DEF Aborts
<1>4. Sizes(u) /\ Framed(Streams, u.si, u.staken) /\ Queues(u)
  BY <1>1, <1>2, <1>3 DEF Good, Sound, Sizes, Queues
<1>5. Parted(u) /\ Classed(u)
  BY <1>0, <1>1, <1>2, <1>3, PartedSame, ClassedSame DEF Good, Sound
<1> QED BY <1>1, <1>4, <1>5 DEF Good, Sound, u

(* Streams and their types do not depend on the addresses. *)
LEMMA AddrFieldsSound ==
  ASSUME NEW t, Sound(t), NEW u \in Tables, Only(t, u, AddrFields), Parted(u),
         t.strayed => u.strayed
  PROVE  Sound(u)
<1>1. /\ u.si = t.si /\ u.staken = t.staken /\ u.ss = t.ss /\ u.clist = t.clist
      /\ u.cwait = t.cwait
  BY DEF Only, Fields, AddrFields
<1>2. Sizes(u) /\ Framed(Streams, u.si, u.staken)
  BY <1>1 DEF Sound, Sizes
<1>4. Classed(u)
  BY <1>1 DEF Sound, Classed
<1> QED BY <1>2, <1>4 DEF Sound

(* An array's answer, put back. *)
LEMMA SetAddrsStep ==
  ASSUME NEW t \in Tables, NEW internal \in BOOLEAN, NEW r, r.p \in Infos,
         r.taken \subseteq AddrSlots
  PROVE  LET u == SetAddrs(t, internal, r) IN
           /\ u \in Tables /\ Only(t, u, {"lan", "wan", "ataken"})
           /\ u.lan = (IF internal THEN r.p ELSE t.lan)
           /\ u.wan = (IF internal THEN t.wan ELSE r.p)
           /\ u.ataken = r.taken
<1>1. PICK q \in Infos, T \in SUBSET AddrSlots : q = r.p /\ T = r.taken
  OBVIOUS
<1>2. CASE internal
  <2>1. SetAddrs(t, internal, r) = [t EXCEPT !.lan = q, !.ataken = T]
    BY <1>1, <1>2 DEF SetAddrs
  <2> QED BY <1>1, <1>2, <2>1 DEF Tables, Only, Fields
<1>3. CASE ~internal
  <2>1. SetAddrs(t, internal, r) = [t EXCEPT !.wan = q, !.ataken = T]
    BY <1>1, <1>3 DEF SetAddrs
  <2> QED BY <1>1, <1>3, <2>1 DEF Tables, Only, Fields
<1> QED BY <1>2, <1>3

(* What is in the tables once an entry was given to ip. *)
Entered(t, ip, internal, r, u) ==
  /\ u \in Tables /\ Only(t, u, AddrFields \ {"fault"})
  /\ u.lan = (IF internal THEN r.p ELSE t.lan)
  /\ u.wan = (IF internal THEN t.wan ELSE r.p)
  /\ u.ataken = t.ataken \cup {r.idx}
  /\ u.addr[r.idx].internal = internal
  /\ \A i \in AddrSlots \ {r.idx} : u.addr[i] = t.addr[i]
  /\ u.ht_v4addrs[ip] = r.idx
  /\ \A x \in Ips \ {ip} : u.ht_v4addrs[x] = t.ht_v4addrs[x]
  /\ u.strayed <=> (t.strayed \/ internal # InLanPart(r.idx))

(* An entry that was given is entered. *)
LEMMA EntryEntered ==
  ASSUME NEW t \in Tables, NEW ip \in Ips, NEW internal \in BOOLEAN, NEW r,
         r.p \in Infos, r.fault = "none", r.idx \in AddrSlots, r.idx # NoEntry,
         r.taken = t.ataken \cup {r.idx}
  PROVE  Entered(t, ip, internal, r, AddrAllocated(t, ip, internal, r))
<1>0. /\ t.ataken \subseteq AddrSlots /\ t.addr \in [AddrSlots -> AddrInfos]
      /\ t.ht_v4addrs \in [Ips -> AddrSlots \cup {NoEntry}] /\ t.strayed \in BOOLEAN
  BY TableFacts
<1>1. PICK v : v = SetAddrs(t, internal, r)
  OBVIOUS
<1>2. /\ v \in Tables /\ Only(t, v, {"lan", "wan", "ataken"})
      /\ v.lan = (IF internal THEN r.p ELSE t.lan)
      /\ v.wan = (IF internal THEN t.wan ELSE r.p)
      /\ v.ataken = r.taken
  BY <1>0, <1>1, SetAddrsStep
<1>3. v.addr = t.addr /\ v.ht_v4addrs = t.ht_v4addrs /\ v.strayed = t.strayed
  BY <1>2 DEF Only, Fields
<1>4. PICK i \in AddrSlots : i = r.idx
  OBVIOUS
<1>5. PICK e \in AddrInfos :
        e = [addr_offset |-> ip, internal |-> internal, nstreams_active |-> 0]
  <2>1. 0 \in 0 .. ActWord - 1 /\ ip \in Ips \cup {0}
    BY ConstantFacts
  <2> QED BY <2>1 DEF AddrInfos
<1>6. e.internal = internal
  BY <1>5
<1>7. PICK a \in [AddrSlots -> AddrInfos] : a = [t.addr EXCEPT ![i] = e]
  BY <1>0
<1>8. PICK h \in [Ips -> AddrSlots \cup {NoEntry}] : h = [t.ht_v4addrs EXCEPT ![ip] = i]
  BY <1>0
<1>9. PICK b \in BOOLEAN : b = (t.strayed \/ (internal # InLanPart(i)))
  BY Zenon
<1> DEFINE u == [v EXCEPT !.addr = a, !.ht_v4addrs = h, !.strayed = b]
<1>10. AddrAllocated(t, ip, internal, r) = u
  <2>1. AddrAllocated(t, ip, internal, r)
          = [v EXCEPT !.addr[i] = e, !.ht_v4addrs[ip] = i,
                      !.strayed = @ \/ (internal # InLanPart(i))]
    BY <1>1, <1>4, <1>5 DEF AddrAllocated
  <2>2. [v EXCEPT !.addr[i] = e, !.ht_v4addrs[ip] = i,
                  !.strayed = @ \/ (internal # InLanPart(i))]
          = [v EXCEPT !.addr = [v.addr EXCEPT ![i] = e],
                      !.ht_v4addrs = [v.ht_v4addrs EXCEPT ![ip] = i],
                      !.strayed = v.strayed \/ (internal # InLanPart(i))]
    BY <1>2 DEF Tables
  <2>3. [v.addr EXCEPT ![i] = e] = a /\ [v.ht_v4addrs EXCEPT ![ip] = i] = h
    BY <1>3, <1>7, <1>8
  <2>4. (v.strayed \/ (internal # InLanPart(i))) = b
    BY <1>3, <1>9
  <2> QED BY <2>1, <2>2, <2>3, <2>4
<1>11. /\ u \in Tables /\ Only(v, u, {"addr", "ht_v4addrs", "strayed"}) /\ u.addr = a
       /\ u.ht_v4addrs = h /\ u.strayed = b
  BY <1>2 DEF Tables, Only, Fields
<1> HIDE DEF u
<1>12. u.lan = v.lan /\ u.wan = v.wan /\ u.ataken = v.ataken
  BY <1>11 DEF Only, Fields
<1>13. Only(t, u, AddrFields \ {"fault"})
  BY <1>2, <1>11 DEF Only, AddrFields
<1>14. /\ a[i] = e /\ \A j \in AddrSlots \ {i} : a[j] = t.addr[j]
       /\ h[ip] = i /\ \A x \in Ips \ {ip} : h[x] = t.ht_v4addrs[x]
  BY <1>0, <1>7, <1>8
<1>15. u.strayed <=> (t.strayed \/ internal # InLanPart(i))
  BY <1>9, <1>11
<1>16. Entered(t, ip, internal, r, u)
  BY <1>2, <1>4, <1>6, <1>11, <1>12, <1>13, <1>14, <1>15 DEF Entered
<1> QED BY <1>10, <1>16

(* Entries keep telling by their place, as long as no array strays. *)
LEMMA PlacedEntered ==
  ASSUME NEW t \in Tables, NEW ip \in Ips, NEW internal \in BOOLEAN,
         internal <=> ip \in LanIps, NEW r, r.idx \in AddrSlots, NEW u,
         Entered(t, ip, internal, r, u), Placed(t), ~u.strayed
  PROVE  Placed(u)
<1>0. t.ataken \subseteq AddrSlots /\ t.ht_v4addrs \in [Ips -> AddrSlots \cup {NoEntry}]
  BY TableFacts
<1>1. internal <=> InLanPart(r.idx)
  BY DEF Entered, InLanPart
<1>2. ASSUME NEW i \in u.ataken PROVE u.addr[i].internal <=> InLanPart(i)
  <2>1. CASE i = r.idx
    BY <1>1, <2>1 DEF Entered
  <2>2. CASE i # r.idx
    <3>1. i \in t.ataken /\ u.addr[i] = t.addr[i]
      BY <1>0, <1>2, <2>2 DEF Entered
    <3> QED BY <3>1 DEF Placed
  <2> QED BY <2>1, <2>2
<1>3. ASSUME NEW x \in Ips, u.ht_v4addrs[x] # NoEntry
      PROVE  /\ x \in LanIps <=> InLanPart(u.ht_v4addrs[x])
             /\ u.addr[u.ht_v4addrs[x]].internal <=> InLanPart(u.ht_v4addrs[x])
  <2>1. CASE x = ip
    BY <1>1, <2>1 DEF Entered
  <2>2. CASE x # ip
    <3>1. PICK j \in AddrSlots : j = t.ht_v4addrs[x] /\ j = u.ht_v4addrs[x]
      BY <1>0, <1>3, <2>2 DEF Entered
    <3>2. (x \in LanIps <=> InLanPart(j)) /\ (t.addr[j].internal <=> InLanPart(j))
      BY <1>3, <3>1 DEF Placed
    <3>3. u.addr[j].internal <=> InLanPart(j)
      <4>1. CASE j = r.idx
        BY <1>1, <4>1 DEF Entered
      <4>2. CASE j # r.idx
        BY <3>2, <4>2 DEF Entered
      <4> QED BY <4>1, <4>2
    <3> QED BY <3>1, <3>2, <3>3
  <2> QED BY <2>1, <2>2
<1> QED BY <1>2, <1>3 DEF Placed

LanPart == 0 .. NumLan
WanPart == NumLan + 1 .. NumAddrs - 1

(* Where the windows of the two arrays lie, before one strays. *)
LEMMA WindowsApart ==
  ASSUME NEW t \in Tables, Covered(t)
  PROVE  /\ Window(t.lan) \subseteq LanPart /\ Window(t.wan) \subseteq WanPart
         /\ LanTaken(t) = t.ataken \cap LanPart /\ WanTaken(t) = t.ataken \cap WanPart
         /\ IsFiniteSet(LanTaken(t)) /\ IsFiniteSet(WanTaken(t))
         /\ Low(t.wan) = t.wan.idx_lo
<1>0. /\ IsGeometry(Lan) /\ IsGeometry(Wan) /\ NumLan \in Nat /\ NumAddrs \in Nat
      /\ Wan.raw_len = NumAddrs /\ Mid(Lan) \in Nat /\ Mid(Wan) \in Nat
      /\ Mid(Wan) < NumAddrs /\ Word \in Nat /\ 2 * NumAddrs + 2 < Word
  BY ArrayFacts, ConstantFacts
<1>1. /\ Framed(Lan, t.lan, LanTaken(t)) /\ Framed(Wan, t.wan, WanTaken(t))
      /\ t.lan.idx_hi <= NumLan + 1 /\ t.wan.idx_lo \in NumLan .. Mid(Wan)
  BY DEF Covered
<1>2. /\ Window(t.lan) = (Low(t.lan) + 1) .. (t.lan.idx_hi - 1)
      /\ Low(t.lan) \in -1 .. Mid(Lan) /\ t.lan.idx_hi \in Nat
  BY <1>0, <1>1, FramedFacts, GeometryFacts
<1>3. /\ Window(t.wan) = (Low(t.wan) + 1) .. (t.wan.idx_hi - 1)
      /\ t.wan.idx_hi \in 0 .. NumAddrs
  BY <1>0, <1>1, FramedFacts
<1>4. Low(t.wan) = t.wan.idx_lo
  BY <1>0, <1>1 DEF Low
<1>5. Window(t.lan) \subseteq LanPart
  BY <1>0, <1>1, <1>2 DEF LanPart
<1>6. Window(t.wan) \subseteq WanPart
  BY <1>0, <1>1, <1>3, <1>4 DEF WanPart
<1>7. IsFiniteSet(LanTaken(t)) /\ IsFiniteSet(WanTaken(t))
  BY <1>0, <1>1, FramedFacts
<1> QED BY <1>4, <1>5, <1>6, <1>7 DEF LanTaken, WanTaken, LanPart, WanPart

(* One more entry of an array is in use: the count says so, too. *)
LEMMA OneMore ==
  ASSUME NEW T, IsFiniteSet(T), NEW i, i \notin T, NEW n \in Nat, n = Cardinality(T),
         NEW m \in Nat, n < m, m < Word
  PROVE  /\ U32(n + 1) = Cardinality(T \cup {i}) /\ U32(n + 1) <= m
<1>1. Cardinality(T \cup {i}) = n + 1
  BY FS_AddElement
<1>2. n + 1 \in 0 .. Word - 1
  BY WordAssumption
<1>3. U32(n + 1) = n + 1
  BY <1>2, U32Small
<1> QED BY <1>1, <1>3

(* What an array answers of which the entries S are in use. *)
Alone(g, q, S, r) ==
  r.fault = "none" =>
    \/ r.idx = NoEntry /\ q.num_entries = g.total_entries
    \/ /\ r.idx \in 0 .. g.raw_len - 1 /\ r.idx \notin S
       /\ Framed(g, r.p, S \cup {r.idx})
       /\ r.p.num_entries = Cardinality(S \cup {r.idx})
       /\ r.p.num_entries <= g.total_entries
       /\ \/ r.p.idx_lo = q.idx_lo /\ r.p.idx_hi = q.idx_hi
          \/ r.p.idx_lo = q.idx_lo /\ r.p.idx_hi = r.idx + 1
          \/ U32(r.p.idx_lo + 1) = r.idx /\ r.p.idx_hi = q.idx_hi /\ r.idx = q.idx_lo

(* An array that keeps to its part P answers as if it were alone. *)
LEMMA AllocAlone ==
  ASSUME NEW g, IsGeometry(g), NEW q, NEW T, NEW P, Window(q) \subseteq P,
         Framed(g, q, T \cap P), q.num_entries = Cardinality(T \cap P),
         q.num_entries <= g.total_entries
  PROVE  Alone(g, q, T \cap P, mga_alloc_entry(g, q, T))
<1> DEFINE r == mga_alloc_entry(g, q, T)
           S == T \cap P
           s == mga_alloc_entry(g, q, S)
<1>1. SameAnswer(r, s)
  BY AllocShared
<1>2. Allocated(g, q, S, s)
  BY AllocAllocates
<1>3. s.fault = "none" /\ s.idx # NoEntry =>
             /\ s.idx \in 0 .. g.raw_len - 1 /\ s.idx \notin S
             /\ s.taken = S \cup {s.idx} /\ Framed(g, s.p, s.taken)
  BY AllocFramed
<1>4. IsFiniteSet(S) /\ q.num_entries \in 0 .. Word - 1 /\ q \in Infos
  BY FramedFacts DEF Framed, Bracketed
<1>5. g.total_entries \in Nat /\ g.total_entries < Word /\ g.raw_len \in Nat
  BY GeometryFacts, WordAssumption
<1> HIDE DEF r, s, S
<1> SUFFICES ASSUME r.fault = "none"
             PROVE  \/ r.idx = NoEntry /\ q.num_entries = g.total_entries
                    \/ /\ r.idx \in 0 .. g.raw_len - 1 /\ r.idx \notin S
                       /\ Framed(g, r.p, S \cup {r.idx})
                       /\ r.p.num_entries = Cardinality(S \cup {r.idx})
                       /\ r.p.num_entries <= g.total_entries
                       /\ \/ r.p.idx_lo = q.idx_lo /\ r.p.idx_hi = q.idx_hi
                          \/ r.p.idx_lo = q.idx_lo /\ r.p.idx_hi = r.idx + 1
                          \/ U32(r.p.idx_lo + 1) = r.idx /\ r.p.idx_hi = q.idx_hi
                                                         /\ r.idx = q.idx_lo
  BY DEF Alone, r, S
<1>6. s.fault = "none" /\ s.idx = r.idx /\ s.p = r.p
  BY <1>1 DEF SameAnswer
<1>7. CASE s.idx = NoEntry
  <2>1. s.idx \notin 0 .. g.raw_len - 1
    BY <1>5, <1>7 DEF NoEntry
  <2>2. q.num_entries >= g.total_entries
    BY <1>2, <1>6, <2>1 DEF Allocated
  <2> QED BY <1>4, <1>5, <1>6, <1>7, <2>2
<1>8. CASE s.idx # NoEntry
  <2>1. s.idx \in 0 .. g.raw_len - 1 /\ s.idx \notin S /\ Framed(g, s.p, S \cup {s.idx})
    BY <1>3, <1>6, <1>8
  <2>2. PICK q2 : /\ Grown(g, q, s.idx, q2) /\ q.num_entries < g.total_entries
                  /\ s.p = [q2 EXCEPT !.num_entries = U32(q.num_entries + 1)]
    BY <1>2, <1>6, <1>8 DEF Allocated
  <2>3. PICK n \in 0 .. Word - 1 : n = U32(q.num_entries + 1)
    <3>1. q.num_entries + 1 \in Int
      BY <1>4, WordAssumption
    <3> QED BY <3>1, U32Range
  <2>4. q2 \in Infos
    BY <2>2 DEF Grown, Bracketed
  <2>5. s.p.num_entries = n /\ s.p.idx_lo = q2.idx_lo /\ s.p.idx_hi = q2.idx_hi
    BY <2>2, <2>3, <2>4 DEF Infos
  <2>6. n = Cardinality(S \cup {s.idx}) /\ n <= g.total_entries
    <3>1. q.num_entries \in Nat /\ q.num_entries = Cardinality(S)
      BY <1>4, WordAssumption DEF S
    <3> QED BY <1>4, <1>5, <2>1, <2>2, <2>3, <3>1, OneMore
  <2>7. \/ s.p.idx_lo = q.idx_lo /\ s.p.idx_hi = q.idx_hi
        \/ s.p.idx_lo = q.idx_lo /\ s.p.idx_hi = s.idx + 1
        \/ U32(s.p.idx_lo + 1) = s.idx /\ s.p.idx_hi = q.idx_hi /\ s.idx = q.idx_lo
    BY <2>2, <2>5 DEF Grown
  <2> QED BY <1>6, <2>1, <2>5, <2>6, <2>7
<1> QED BY <1>7, <1>8

(* An entry for ip, from the array of its kind: the arrays stay apart, or one
   of them strays. *)
LEMMA PartedEntered ==
  ASSUME NEW t \in Tables, Parted(t), NEW ip \in Ips, NEW internal \in BOOLEAN,
         internal <=> ip \in LanIps, NEW r, NEW u,
         r = (IF internal THEN mga_alloc_entry(Lan, t.lan, t.ataken)
                          ELSE mga_alloc_entry(Wan, t.wan, t.ataken)),
         r.fault = "none", r.idx # NoEntry, r.idx \in AddrSlots, t.fault = "none",
         Entered(t, ip, internal, r, u)
  PROVE  Parted(u)
<1>0. /\ IsGeometry(Lan) /\ IsGeometry(Wan) /\ NumLan \in Nat /\ NumAddrs \in Nat
      /\ NumLan < NumAddrs /\ Word \in Nat /\ 2 * NumAddrs + 2 < Word
      /\ Lan.raw_len = NumAddrs /\ Lan.total_entries = NumLan
      /\ Wan.raw_len = NumAddrs /\ Wan.total_entries = NumAddrs - NumLan
      /\ Mid(Wan) \in Nat /\ Mid(Wan) < NumAddrs
  BY ArrayFacts, ConstantFacts
<1>1. SUFFICES ASSUME ~u.strayed PROVE Covered(u) /\ Counted(u) /\ Placed(u) /\ Full(u)
  BY DEF Parted
<1>2. ~t.strayed /\ (internal <=> InLanPart(r.idx)) /\ u \in Tables /\ u.fault = t.fault
  BY <1>1 DEF Entered, InLanPart, Only, Fields, AddrFields
<1>3. Covered(t) /\ Counted(t) /\ Placed(t)
  BY <1>2 DEF Parted
<1>4. Placed(u) /\ Full(u)
  BY <1>1, <1>2, <1>3, PlacedEntered DEF Full
<1>5. /\ Window(t.lan) \subseteq LanPart /\ Window(t.wan) \subseteq WanPart
      /\ LanTaken(t) = t.ataken \cap LanPart /\ WanTaken(t) = t.ataken \cap WanPart
  BY <1>3, WindowsApart
<1>6. u.ataken = t.ataken \cup {r.idx}
  BY DEF Entered
<1>7. CASE internal
  <2>1. r = mga_alloc_entry(Lan, t.lan, t.ataken) /\ u.lan = r.p /\ u.wan = t.wan
    BY <1>7 DEF Entered
  <2>2. r.idx \in LanPart
    BY <1>0, <1>2, <1>7 DEF InLanPart, LanPart, AddrSlots
  <2>3. LanTaken(u) = LanTaken(t) \cup {r.idx} /\ WanTaken(u) = WanTaken(t)
    BY <1>0, <1>6, <2>2 DEF LanTaken, WanTaken, LanPart
  <2>4. /\ Framed(Lan, t.lan, t.ataken \cap LanPart)
        /\ t.lan.num_entries = Cardinality(t.ataken \cap LanPart)
        /\ t.lan.num_entries <= Lan.total_entries
    BY <1>0, <1>3, <1>5 DEF Covered, Counted
  <2>5. /\ Framed(Lan, r.p, LanTaken(u)) /\ r.p.num_entries = Cardinality(LanTaken(u))
        /\ r.p.num_entries <= NumLan
        /\ \/ r.p.idx_hi = t.lan.idx_hi
           \/ r.p.idx_hi = r.idx + 1
    <3>1. Alone(Lan, t.lan, t.ataken \cap LanPart, r)
      BY <1>0, <1>5, <2>1, <2>4, AllocAlone
    <3>2. r.idx \in 0 .. NumAddrs - 1
      BY DEF AddrSlots
    <3>3. r.idx # NoEntry /\ r.fault = "none"
      OBVIOUS
    <3> QED BY <1>0, <1>5, <2>3, <3>1, <3>2, <3>3 DEF Alone
  <2>6. r.p.idx_hi <= NumLan + 1
    BY <1>0, <1>3, <2>2, <2>5 DEF Covered, LanPart
  <2>7. Covered(u) /\ Counted(u)
    BY <1>3, <2>1, <2>3, <2>5, <2>6 DEF Covered, Counted
  <2> QED BY <1>4, <2>7
<1>8. CASE ~internal
  <2>1. r = mga_alloc_entry(Wan, t.wan, t.ataken) /\ u.wan = r.p /\ u.lan = t.lan
    BY <1>8 DEF Entered
  <2>2. r.idx \in WanPart
    BY <1>0, <1>2, <1>8 DEF InLanPart, WanPart, AddrSlots
  <2>3. WanTaken(u) = WanTaken(t) \cup {r.idx} /\ LanTaken(u) = LanTaken(t)
    BY <1>0, <1>6, <2>2 DEF LanTaken, WanTaken, WanPart
  <2>4. /\ Framed(Wan, t.wan, t.ataken \cap WanPart)
        /\ t.wan.num_entries = Cardinality(t.ataken \cap WanPart)
        /\ t.wan.num_entries <= Wan.total_entries
    BY <1>0, <1>3, <1>5 DEF Covered, Counted
  <2>5. /\ Framed(Wan, r.p, WanTaken(u)) /\ r.p.num_entries = Cardinality(WanTaken(u))
        /\ r.p.num_entries <= NumAddrs - NumLan
        /\ \/ r.p.idx_lo = t.wan.idx_lo
           \/ U32(r.p.idx_lo + 1) = r.idx /\ r.idx = t.wan.idx_lo
    <3>1. Alone(Wan, t.wan, t.ataken \cap WanPart, r)
      BY <1>0, <1>5, <2>1, <2>4, AllocAlone
    <3>2. r.idx \in 0 .. NumAddrs - 1
      BY DEF AddrSlots
    <3>3. r.idx # NoEntry /\ r.fault = "none"
      OBVIOUS
    <3> QED BY <1>0, <1>5, <2>3, <3>1, <3>2, <3>3 DEF Alone
  <2>6. r.p.idx_lo \in NumLan .. Mid(Wan)
    <3>1. t.wan.idx_lo \in NumLan .. Mid(Wan)
      BY <1>3 DEF Covered
    <3>2. CASE r.p.idx_lo = t.wan.idx_lo
      BY <3>1, <3>2
    <3>3. CASE U32(r.p.idx_lo + 1) = r.idx /\ r.idx = t.wan.idx_lo
      <4>1. r.p.idx_lo \in 0 .. Word - 1
        BY <2>5 DEF Framed, Bracketed, Infos
      <4>2. CASE r.p.idx_lo = Word - 1
        <5>1. r.p.idx_lo + 1 = Word
          BY <1>0, <4>2
        <5>2. r.idx = 0
          BY <3>3, <5>1, U32Word
        <5> QED BY <1>0, <2>2, <5>2 DEF WanPart
      <4>3. CASE r.p.idx_lo # Word - 1
        <5>1. r.p.idx_lo + 1 \in 0 .. Word - 1
          BY <1>0, <4>1, <4>3
        <5>2. r.p.idx_lo + 1 = r.idx
          BY <3>3, <5>1, U32Small
        <5> QED BY <1>0, <2>2, <3>1, <3>3, <4>1, <5>2 DEF WanPart
      <4> QED BY <4>2, <4>3
    <3> QED BY <2>5, <3>2, <3>3
  <2>7. Covered(u) /\ Counted(u)
    BY <1>3, <2>1, <2>3, <2>5, <2>6 DEF Covered, Counted
  <2> QED BY <1>4, <2>7
<1> QED BY <1>7, <1>8

(* The process ends for want of an entry: the array of its kind is full. *)
LEMMA PartedFull ==
  ASSUME NEW t \in Tables, Parted(t), NEW internal \in BOOLEAN, NEW r, NEW u \in Tables,
         r = (IF internal THEN mga_alloc_entry(Lan, t.lan, t.ataken)
                          ELSE mga_alloc_entry(Wan, t.wan, t.ataken)),
         r.fault = "none", r.idx = NoEntry, Only(t, u, {"fault"})
  PROVE  Parted(u)
<1>0. /\ IsGeometry(Lan) /\ IsGeometry(Wan) /\ Lan.raw_len = NumAddrs /\ NumAddrs \in Nat
      /\ Lan.total_entries = NumLan
      /\ Wan.raw_len = NumAddrs /\ Wan.total_entries = NumAddrs - NumLan
  BY ArrayFacts, ConstantFacts
<1>1. /\ u.lan = t.lan /\ u.wan = t.wan /\ u.ataken = t.ataken /\ u.addr = t.addr
      /\ u.ht_v4addrs = t.ht_v4addrs /\ u.strayed = t.strayed
  BY DEF Only, Fields
<1>2. SUFFICES ASSUME ~t.strayed PROVE Covered(u) /\ Counted(u) /\ Placed(u) /\ Full(u)
  BY <1>1 DEF Parted
<1>3. Covered(t) /\ Counted(t) /\ Placed(t)
  BY <1>2 DEF Parted
<1>4. Covered(u) /\ Counted(u) /\ Placed(u)
  BY <1>1, <1>3 DEF Covered, Counted, Placed, LanTaken, WanTaken
<1>5. /\ Window(t.lan) \subseteq LanPart /\ Window(t.wan) \subseteq WanPart
      /\ LanTaken(t) = t.ataken \cap LanPart /\ WanTaken(t) = t.ataken \cap WanPart
  BY <1>3, WindowsApart
<1>6. NoEntry \notin 0 .. NumAddrs - 1
  BY <1>0 DEF NoEntry
<1>7. CASE internal
  <2>1. r = mga_alloc_entry(Lan, t.lan, t.ataken)
    BY <1>7
  <2>4. /\ Framed(Lan, t.lan, t.ataken \cap LanPart)
        /\ t.lan.num_entries = Cardinality(t.ataken \cap LanPart)
        /\ t.lan.num_entries <= Lan.total_entries
    BY <1>0, <1>3, <1>5 DEF Covered, Counted
  <2>5. t.lan.num_entries = NumLan
    <3>1. Alone(Lan, t.lan, t.ataken \cap LanPart, r)
      BY <1>0, <1>5, <2>1, <2>4, AllocAlone
    <3> QED BY <1>0, <1>6, <3>1 DEF Alone
  <2> QED BY <1>1, <1>4, <2>5 DEF Full
<1>8. CASE ~internal
  <2>1. r = mga_alloc_entry(Wan, t.wan, t.ataken)
    BY <1>8
  <2>4. /\ Framed(Wan, t.wan, t.ataken \cap WanPart)
        /\ t.wan.num_entries = Cardinality(t.ataken \cap WanPart)
        /\ t.wan.num_entries <= Wan.total_entries
    BY <1>0, <1>3, <1>5 DEF Covered, Counted
  <2>5. t.wan.num_entries = NumAddrs - NumLan
    <3>1. Alone(Wan, t.wan, t.ataken \cap WanPart, r)
      BY <1>0, <1>5, <2>1, <2>4, AllocAlone
    <3> QED BY <1>0, <1>6, <3>1 DEF Alone
  <2> QED BY <1>1, <1>4, <2>5 DEF Full
<1> QED BY <1>7, <1>8

(* The look-up of an address: it has an entry afterwards, unless the process
   has ended, and so have the addresses met before. *)
LEMMA FindAddrSound ==
  ASSUME NEW t, Sound(t), NEW ip \in Ips
  PROVE  LET u == FindAddr(t, ip) IN
           /\ Sound(u) /\ Only(t, u, AddrFields) /\ (u.fault = "none" => t.fault = "none")
           /\ u.fault = "none" => u.ht_v4addrs[ip] # NoEntry
           /\ \A x \in Ips : t.ht_v4addrs[x] # NoEntry => u.ht_v4addrs[x] # NoEntry
<1>1. CASE ~(t.fault = "none" /\ t.ht_v4addrs[ip] = NoEntry)
  <2>1. FindAddr(t, ip) = t
    BY <1>1 DEF FindAddr
  <2> QED BY <1>1, <2>1 DEF Only
<1>2. CASE t.fault = "none" /\ t.ht_v4addrs[ip] = NoEntry
  <2>0. /\ t \in Tables /\ t.lan \in Infos /\ t.wan \in Infos /\ t.ataken \subseteq AddrSlots
        /\ Parted(t)
    BY TableFacts DEF Sound
  <2>1. PICK internal \in BOOLEAN : internal <=> ip \in LanIps
    OBVIOUS
  <2>2. PICK r : r = (IF internal THEN mga_alloc_entry(Lan, t.lan, t.ataken)
                                  ELSE mga_alloc_entry(Wan, t.wan, t.ataken))
    OBVIOUS
  <2>3. PICK u : u = AddrAllocated(t, ip, internal, r)
    OBVIOUS
  <2>4. FindAddr(t, ip) = u
    <3>1. CASE internal
      BY <1>2, <2>1, <2>2, <2>3, <3>1 DEF FindAddr, shm_addr_alloc_v4
    <3>2. CASE ~internal
      BY <1>2, <2>1, <2>2, <2>3, <3>2 DEF FindAddr, shm_addr_alloc_v4
    <3> QED BY <3>1, <3>2
  <2>5. /\ r.p \in Infos /\ r.fault \in Aborts
        /\ r.fault = "none" /\ r.idx # NoEntry =>
             r.idx \in AddrSlots /\ r.taken = t.ataken \cup {r.idx}
    <3>1. t.ataken \subseteq 0 .. NumAddrs - 1
      BY <2>0 DEF AddrSlots
    <3>2. CASE internal
      <4>1. Answered(Lan, t.lan, t.ataken, r)
        BY <2>0, <2>2, <3>1, <3>2, ArrayFacts, AllocTyped
      <4> QED BY <4>1, ArrayFacts DEF Answered, AddrSlots
    <3>3. CASE ~internal
      <4>1. Answered(Wan, t.wan, t.ataken, r)
        BY <2>0, <2>2, <3>1, <3>3, ArrayFacts, AllocTyped
      <4> QED BY <4>1, ArrayFacts DEF Answered, AddrSlots
    <3> QED BY <3>2, <3>3
  <2>6. CASE r.fault # "none"
    <3>1. PICK f \in (Aborts \cup {"assert_get"}) \ {"none"} : f = r.fault
      BY <2>5, <2>6
    <3>2. u = [t EXCEPT !.fault = f]
      BY <2>3, <2>6, <3>1 DEF AddrAllocated
    <3>3. Sound(u) /\ Only(t, u, {"fault"}) /\ u.fault = f
      BY <3>2, FaultGood DEF Good
    <3>4. Only(t, u, AddrFields) /\ u.ht_v4addrs = t.ht_v4addrs /\ u.fault # "none"
      BY <3>1, <3>3 DEF Only, AddrFields, Fields
    <3> QED BY <2>4, <3>3, <3>4
  <2>7. CASE r.fault = "none" /\ r.idx = NoEntry
    <3>1. u = [t EXCEPT !.fault = "null_addr"]
      BY <2>3, <2>7 DEF AddrAllocated
    <3>2. u \in Tables /\ Only(t, u, {"fault"}) /\ u.fault = "null_addr"
      BY <2>0, <3>1 DEF Tables, Only, Fields
    <3>3. Parted(u)
      BY <2>0, <2>2, <2>7, <3>2, PartedFull
    <3>4. Only(t, u, AddrFields) /\ u.ht_v4addrs = t.ht_v4addrs /\ u.strayed = t.strayed
      BY <3>2 DEF Only, AddrFields, Fields
    <3>5. Sound(u)
      BY <3>2, <3>3, <3>4, AddrFieldsSound
    <3> QED BY <2>4, <3>2, <3>4, <3>5
  <2>8. CASE r.fault = "none" /\ r.idx # NoEntry
    <3>1. Entered(t, ip, internal, r, u)
      BY <2>0, <2>3, <2>5, <2>8, EntryEntered
    <3>2. Parted(u)
      BY <1>2, <2>0, <2>1, <2>2, <2>5, <2>8, <3>1, PartedEntered
    <3>3. Only(t, u, AddrFields) /\ u \in Tables
      BY <3>1 DEF Entered, Only
    <3>4. t.strayed => u.strayed
      BY <3>1 DEF Entered
    <3>5. Sound(u)
      BY <1>2, <3>2, <3>3, <3>4, AddrFieldsSound
    <3>6. u.ht_v4addrs[ip] # NoEntry
      BY <2>8, <3>1 DEF Entered
    <3>7. \A x \in Ips : t.ht_v4addrs[x] # NoEntry => u.ht_v4addrs[x] # NoEntry
      BY <3>1, <3>6 DEF Entered
    <3> QED BY <1>2, <2>4, <3>3, <3>5, <3>6, <3>7
  <2> QED BY <2>6, <2>7, <2>8
<1> QED BY <1>1, <1>2

-----------------------------------------------------------------------------
(***************************************************************************)
(* A new stream.                                                           *)
(***************************************************************************)
(* A key belongs to two of the addresses and to a bucket. *)
LEMMA KeyOfKeys ==
  ASSUME NEW key \in Keys
  PROVE  Hash(key) \in Buckets /\ key.left \in Ips /\ key.right \in Ips
<1>1. PICK pkt \in Packets : key = pkt_init_key(pkt).key
  BY DEF Keys
<1> QED BY <1>1, KeyFacts

(* An entry for a stream whose two addresses have their entries is of the
   type its key says. *)
LEMMA NewStreamClassed ==
  ASSUME NEW t, Sound(t), NEW key \in Keys, NEW l, NEW r,
         l = t.ht_v4addrs[key.left], r = t.ht_v4addrs[key.right],
         l # NoEntry, r # NoEntry, NEW st,
         st = NewStream(key, l, r, FlowType(t.addr[l], t.addr[r], key.rport))
  PROVE  /\ st \in StreamInfos /\ st.key = key /\ ~st.cleanup
         /\ ~t.strayed => ByOwnAddresses(st)
<1>0. /\ t \in Tables /\ Parted(t) /\ t.ht_v4addrs \in [Ips -> AddrSlots \cup {NoEntry}]
      /\ t.addr \in [AddrSlots -> AddrInfos]
  BY TableFacts DEF Sound
<1>1. key.left \in Ips /\ key.right \in Ips
  BY KeyOfKeys
<1>2. l \in AddrSlots /\ r \in AddrSlots
  BY <1>0, <1>1
<1>3. PICK il \in BOOLEAN, ir \in BOOLEAN : il = t.addr[l].internal /\ ir = t.addr[r].internal
  BY <1>0, <1>2 DEF AddrInfos
<1>4. PICK w \in BOOLEAN : w <=> key.rport \in WebPorts
  OBVIOUS
<1>5. PICK y : y = FlowType(t.addr[l], t.addr[r], key.rport)
  OBVIOUS
<1>6. /\ y \in 0 .. 4 /\ (y = 4 <=> il /\ ir)
      /\ (y \in {1, 3} <=> ~(il /\ ir) /\ w) /\ (y \in {2, 3} <=> ~(il /\ ir) /\ ir)
  <2>1. y = IF il /\ ir THEN 4 ELSE (IF w THEN 1 ELSE 0) + (IF ir THEN 2 ELSE 0)
    <3>1. y = IF il /\ ir THEN 4
              ELSE (IF key.rport \in WebPorts THEN 1 ELSE 0) + (IF ir THEN 2 ELSE 0)
      BY <1>3, <1>5, Zenon DEF FlowType, is_web, FLOW_TYPE_INTERNAL
    <3> QED BY <1>4, <3>1
  <2>2. CASE ir /\ w
    BY <2>1, <2>2
  <2>3. CASE ir /\ ~w
    BY <2>1, <2>3
  <2>4. CASE ~ir /\ w
    BY <2>1, <2>4
  <2>5. CASE ~ir /\ ~w
    BY <2>1, <2>5
  <2> QED BY <2>2, <2>3, <2>4, <2>5
<1>7. /\ st = [key |-> key, idx_left |-> l, idx_right |-> r, type |-> y,
              cleanup |-> FALSE, dropped |-> FALSE, packets |-> 0, age |-> 0]
  BY <1>5 DEF NewStream
<1>8. st \in StreamInfos /\ st.key = key /\ ~st.cleanup /\ st.type = y
  <2>1. 0 \in 0 .. Expired + 1 + MaxBack
    BY ConstantFacts
  <2> QED BY <1>2, <1>6, <1>7, <2>1 DEF StreamInfos
<1>9. ASSUME ~t.strayed PROVE ByOwnAddresses(st)
  <2>1. Placed(t)
    BY <1>0, <1>9 DEF Parted
  <2>2. (il <=> key.left \in LanIps) /\ (ir <=> key.right \in LanIps)
    BY <1>1, <1>3, <2>1 DEF Placed
  <2>3. {key.left, key.right} \subseteq LanIps <=> il /\ ir
    BY <2>2
  <2> QED BY <1>4, <1>6, <1>8, <2>2, <2>3 DEF ByOwnAddresses, FLOW_TYPE_INTERNAL
<1> QED BY <1>8, <1>9

(* An entry written in full, in tables that are sound. *)
LEMMA PutStreamSound ==
  ASSUME NEW t, Sound(t), NEW s \in StreamSlots, NEW st \in StreamInfos,
         ~t.strayed => ByOwnAddresses(st)
  PROVE  Sound([t EXCEPT !.ss[s] = st])
<1> DEFINE u == [t EXCEPT !.ss[s] = st]
<1>0. t \in Tables /\ t.ss \in [StreamSlots -> StreamInfos]
  BY TableFacts DEF Sound
<1>1. u \in Tables /\ Only(t, u, {"ss"}) /\ u.ss = [t.ss EXCEPT ![s] = st]
  BY <1>0, PutStream
<1> HIDE DEF u
<1>2. /\ u.si = t.si /\ u.staken = t.staken /\ u.lan = t.lan /\ u.wan = t.wan
      /\ u.ataken = t.ataken /\ u.ht_v4addrs = t.ht_v4addrs /\ u.strayed = t.strayed
      /\ u.fault = t.fault /\ u.addr = t.addr /\ u.clist = t.clist /\ u.cwait = t.cwait
  BY <1>1 DEF Only, Fields
<1>3. Parted(u)
  BY <1>0, <1>1, <1>2, PartedSame DEF Sound
<1>4. Classed(u)
  <2>1. SUFFICES ASSUME ~t.strayed, NEW x \in StreamSlots PROVE ByOwnAddresses(u.ss[x])
    BY <1>2 DEF Classed
  <2>2. ByOwnAddresses(t.ss[x])
    BY <2>1 DEF Sound, Classed
  <2>3. u.ss[x] = (IF x = s THEN st ELSE t.ss[x])
    BY <1>0, <1>1
  <2> QED BY <2>1, <2>2, <2>3
<1>5. Sizes(u) /\ Framed(Streams, u.si, u.staken)
  BY <1>2 DEF Sound, Sizes
<1> QED BY <1>1, <1>3, <1>4, <1>5 DEF Sound, u

(* The stream array's answer a put back, found through bucket b. *)
WithStream(t, b, a) ==
  [t EXCEPT !.si = a.p, !.staken = a.taken, !.ht_streams[b] = a.idx]

StreamIn(t, b, i, v) ==
  /\ Sound(v) /\ Only(t, v, {"si", "staken", "ht_streams"})
  /\ i \in StreamSlots /\ v.staken = t.staken \cup {i} /\ v.ht_streams[b] = i
  /\ v.si.idx_lo # Word - 1 => t.si.idx_lo # Word - 1

(* The stream array's answer, before the entry is written. *)
LEMMA StreamTaken ==
  ASSUME NEW t, Sound(t), NEW b \in Buckets, NEW a,
         a = mga_alloc_entry(Streams, t.si, t.staken)
  PROVE  /\ a.fault \in Aborts
         /\ a.fault = "none" /\ a.idx # NoEntry => StreamIn(t, b, a.idx, WithStream(t, b, a))
<1>0. /\ t \in Tables /\ t.si \in Infos /\ t.staken \subseteq StreamSlots
      /\ t.ht_streams \in [Buckets -> StreamSlots \cup {NoEntry}]
      /\ Framed(Streams, t.si, t.staken) /\ IsGeometry(Streams)
      /\ Streams.raw_len = StreamRaw /\ 0 .. Streams.raw_len - 1 = StreamSlots
  BY TableFacts, ArrayFacts DEF Sound, StreamSlots
<1>1. Answered(Streams, t.si, t.staken, a)
  BY <1>0, AllocTyped
<1>2. SUFFICES ASSUME a.fault = "none", a.idx # NoEntry
               PROVE  StreamIn(t, b, a.idx, WithStream(t, b, a))
  BY <1>1 DEF Answered
<1>3. /\ a.idx \in StreamSlots /\ a.taken = t.staken \cup {a.idx} /\ a.p \in Infos
      /\ Framed(Streams, a.p, a.taken)
  BY <1>0, <1>1, <1>2, AllocFramed DEF Answered
<1>4. PICK i \in StreamSlots, q \in Infos, T \in SUBSET StreamSlots :
        i = a.idx /\ q = a.p /\ T = a.taken
  BY <1>0, <1>3
<1>5. PICK h \in [Buckets -> StreamSlots \cup {NoEntry}] : h = [t.ht_streams EXCEPT ![b] = i]
  BY <1>0
<1>6. h[b] = i
  BY <1>0, <1>5
<1> DEFINE v == [t EXCEPT !.si = q, !.staken = T, !.ht_streams = h]
<1>7. WithStream(t, b, a) = v
  BY <1>4, <1>5 DEF WithStream
<1>8. /\ v \in Tables /\ Only(t, v, {"si", "staken", "ht_streams"}) /\ v.si = q
      /\ v.staken = T /\ v.ht_streams = h
  BY <1>0 DEF Tables, Only, Fields
<1> HIDE DEF v
<1>9. /\ v.ss = t.ss /\ v.lan = t.lan /\ v.wan = t.wan
      /\ v.ataken = t.ataken /\ v.ht_v4addrs = t.ht_v4addrs /\ v.strayed = t.strayed
      /\ v.fault = t.fault /\ v.addr = t.addr /\ v.clist = t.clist /\ v.cwait = t.cwait
  BY <1>8 DEF Only, Fields
<1>10. Parted(v) /\ Classed(v)
  BY <1>0, <1>8, <1>9, PartedSame, ClassedSame DEF Sound
<1>11. Sizes(v) /\ Framed(Streams, v.si, v.staken)
  BY <1>3, <1>4, <1>8, <1>9 DEF Sound, Sizes
<1>12. Sound(v)
  BY <1>8, <1>10, <1>11 DEF Sound
<1>13. ASSUME q.idx_lo # Word - 1 PROVE t.si.idx_lo # Word - 1
  <2>1. Allocated(Streams, t.si, t.staken, a)
    BY <1>0, AllocAllocates
  <2>2. PICK q2 : /\ Grown(Streams, t.si, a.idx, q2)
                  /\ a.p = [q2 EXCEPT !.num_entries = U32(t.si.num_entries + 1)]
    BY <1>2, <2>1 DEF Allocated
  <2>3. a.p.idx_lo = q2.idx_lo
    BY <2>2 DEF Grown, Bracketed, Infos
  <2>4. t.si.idx_lo = q2.idx_lo \/ t.si.idx_lo = a.idx
    BY <2>2 DEF Grown
  <2>5. a.idx # Word - 1
    BY <1>3, ConstantFacts DEF StreamSlots
  <2> QED BY <1>4, <1>13, <2>3, <2>4, <2>5
<1>14. StreamIn(t, b, a.idx, v)
  BY <1>3, <1>4, <1>6, <1>8, <1>12, <1>13 DEF StreamIn
<1> QED BY <1>7, <1>14

(* A packet that no stream entry is found for is counted as refused. *)
LEMMA RefusedStep ==
  ASSUME NEW t, Good(t)
  PROVE  LET u == [t EXCEPT !.refused = Inc(@)] IN
           Good(u) /\ Only(t, u, {"refused"}) /\ (Balanced(t, 1) => Balanced(u, 0))
<1>0. t \in Tables /\ t.refused \in Counters
  BY TableFacts DEF Good, Sound
<1>1. PICK n \in Counters : n = Inc(t.refused)
  BY <1>0, WordFacts
<1> DEFINE u == [t EXCEPT !.refused = n]
<1>2. [t EXCEPT !.refused = Inc(@)] = u
  BY <1>1
<1>3. u \in Tables /\ Only(t, u, {"refused"}) /\ u.refused = n
  BY <1>0 DEF Tables, Only, Fields
<1> HIDE DEF u
<1>4. u.flow = t.flow /\ u.addr = t.addr
  BY <1>3 DEF Only, Fields
<1>5. Only(t, u, {"addr", "flow", "protos", "refused", "ht_streams"})
  BY <1>3 DEF Only
<1>6. Good(u)
  BY <1>3, <1>4, <1>5, CountingGood
<1>7. ASSUME Balanced(t, 1) PROVE Balanced(u, 0)
  <2>0. /\ FlowSum(t) \in Nat /\ FlowSum(u) \in Nat
        /\ \A n1 \in Counters : n1 \in Nat /\ Inc(n1) \in Nat
        /\ \A f \in 0 .. 5 : t.flow[f] \in Counters
    BY <1>0, <1>3, FlowSumNat, ConstantFacts, WordFacts DEF Counters
  <2>1. /\ t.flow[0] \in Nat /\ t.flow[1] \in Nat /\ t.flow[2] \in Nat /\ t.flow[3] \in Nat
        /\ t.flow[4] \in Nat /\ t.refused \in Nat /\ Inc(t.refused) \in Nat
    BY <1>0, <2>0
  <2>2. PICK a \in Nat : a = t.flow[0] + t.flow[1] + t.flow[2] + t.flow[3] + t.flow[4]
    BY <2>1
  <2>3. FlowSum(t) = a + t.refused /\ FlowSum(u) = a + Inc(t.refused)
    BY <1>1, <1>3, <1>4, <2>1, <2>2 DEF FlowSum
  <2>4. FlowSum(u) % CtrWord = (FlowSum(t) + 1) % CtrWord
    BY <1>0, <2>1, <2>3, IncSum
  <2> QED BY <1>4, <1>7, <2>0, <2>4 DEF Balanced
<1> QED BY <1>2, <1>3, <1>6, <1>7

NewFields == AddrFields \cup {"si", "staken", "ht_streams", "ss"}

(* A stream is added: found through its bucket from now on, unless there was
   no entry for it or the process has ended. *)
LEMMA AddStreamGood ==
  ASSUME NEW t, Good(t), t.fault = "none", NEW key \in Keys,
         t.ht_streams[Hash(key)] = NoEntry, Balanced(t, 1)
  PROVE  LET u == AddStream(t, key) IN
           /\ Good(u)
           /\ u.fault = "none" =>
                Balanced(u, IF u.ht_streams[Hash(key)] = NoEntry THEN 0 ELSE 1)
<1>0. Sound(t) /\ Queues(t) /\ t \in Tables /\ t.ss \in [StreamSlots -> StreamInfos]
  BY TableFacts DEF Good, Sound
<1>1. Hash(key) \in Buckets /\ key.left \in Ips /\ key.right \in Ips
  BY KeyOfKeys
<1>2. PICK a : a = mga_alloc_entry(Streams, t.si, t.staken)
  OBVIOUS
<1>3. AddStream(t, key) = StreamAllocated(t, key, a)
  BY <1>2 DEF AddStream
<1>4. a.fault \in Aborts
  BY <1>0, <1>1, <1>2, StreamTaken, Zenon
<1>5. CASE a.fault # "none"
  <2>1. PICK f \in (Aborts \cup {"assert_get"}) \ {"none"} : f = a.fault
    BY <1>4, <1>5
  <2>2. StreamAllocated(t, key, a) = [t EXCEPT !.fault = f]
    BY <1>5, <2>1 DEF StreamAllocated
  <2>3. Good([t EXCEPT !.fault = f]) /\ [t EXCEPT !.fault = f].fault = f
    BY <1>0, FaultGood
  <2> QED BY <1>3, <2>2, <2>3
<1>6. CASE a.fault = "none" /\ a.idx = NoEntry
  <2>1. PICK u : u = [t EXCEPT !.refused = Inc(@)]
    OBVIOUS
  <2>2. StreamAllocated(t, key, a) = u
    BY <1>6, <2>1 DEF StreamAllocated
  <2>3. Good(u) /\ Only(t, u, {"refused"}) /\ Balanced(u, 0)
    BY <2>1, RefusedStep
  <2>4. u.ht_streams = t.ht_streams
    BY <2>3 DEF Only, Fields
  <2> QED BY <1>3, <2>2, <2>3, <2>4
<1>7. CASE a.fault = "none" /\ a.idx # NoEntry
  <2>1. PICK v : v = WithStream(t, Hash(key), a)
    OBVIOUS
  <2>2. /\ Sound(v) /\ Only(t, v, {"si", "staken", "ht_streams"})
        /\ a.idx \in StreamSlots /\ v.staken = t.staken \cup {a.idx}
        /\ v.ht_streams[Hash(key)] = a.idx
        /\ v.si.idx_lo # Word - 1 => t.si.idx_lo # Word - 1
    <3>1. StreamIn(t, Hash(key), a.idx, v)
      BY <1>0, <1>1, <1>2, <1>7, <2>1, StreamTaken
    <3> QED BY <3>1 DEF StreamIn
  <2>3. PICK w1 : w1 = FindAddr(v, key.left)
    OBVIOUS
  <2>4. /\ Sound(w1) /\ Only(v, w1, AddrFields)
        /\ w1.fault = "none" => w1.ht_v4addrs[key.left] # NoEntry
    BY <1>1, <2>2, <2>3, FindAddrSound
  <2>5. PICK w : w = FindAddr(w1, key.right)
    OBVIOUS
  <2>6. /\ Sound(w) /\ Only(w1, w, AddrFields) /\ (w.fault = "none" => w1.fault = "none")
        /\ w.fault = "none" => w.ht_v4addrs[key.right] # NoEntry
        /\ \A x \in Ips : w1.ht_v4addrs[x] # NoEntry => w.ht_v4addrs[x] # NoEntry
    BY <1>1, <2>4, <2>5, FindAddrSound
  <2>7. StreamAllocated(t, key, a) = InitStream(w, key, a.idx)
    BY <1>7, <2>1, <2>3, <2>5 DEF StreamAllocated, WithStream
  <2>8. Only(v, w, AddrFields) /\ Only(t, w, NewFields)
    BY <2>2, <2>4, <2>6 DEF Only, NewFields
  <2>9. CASE w.fault # "none"
    <3>1. InitStream(w, key, a.idx) = w
      BY <2>9 DEF InitStream
    <3>2. Queues(w)
      BY <2>9 DEF Queues
    <3> QED BY <1>3, <2>6, <2>7, <2>9, <3>1, <3>2 DEF Good
  <2>10. CASE w.fault = "none"
    <3>1. PICK l, r : l = w.ht_v4addrs[key.left] /\ r = w.ht_v4addrs[key.right]
      OBVIOUS
    <3>2. l # NoEntry /\ r # NoEntry
      BY <1>1, <2>4, <2>6, <2>10, <3>1
    <3>3. PICK st : st = NewStream(key, l, r, FlowType(w.addr[l], w.addr[r], key.rport))
      OBVIOUS
    <3>4. /\ st \in StreamInfos /\ ~st.cleanup /\ (~w.strayed => ByOwnAddresses(st))
      BY <2>6, <3>1, <3>2, <3>3, NewStreamClassed
    <3>5. PICK u : u = [w EXCEPT !.ss[a.idx] = st]
      OBVIOUS
    <3>6. InitStream(w, key, a.idx) = u
      BY <2>10, <3>1, <3>3, <3>5 DEF InitStream
    <3>7. Sound(u)
      BY <2>2, <2>6, <3>4, <3>5, PutStreamSound
    <3>8. Only(w, u, {"ss"}) /\ u.ss = [w.ss EXCEPT ![a.idx] = st]
      BY <2>2, <2>6, <3>4, <3>5, PutStream DEF Sound
    <3>9. Only(t, u, NewFields)
      BY <2>8, <3>8 DEF Only, NewFields
    <3>10. u.clist = t.clist /\ u.cwait = t.cwait
      BY <3>9 DEF Only, Fields, NewFields, AddrFields
    <3>11. u.si = v.si /\ u.staken = v.staken /\ u.ht_streams = v.ht_streams /\ w.ss = v.ss
      BY <2>8, <3>8 DEF Only, Fields, AddrFields
    <3>12. v.ss = t.ss
      BY <2>2 DEF Only, Fields
    <3>13. Queues(u)
      <4>1. SUFFICES ASSUME u.si.idx_lo # Word - 1, NEW x \in StreamSlots, Ended(u, x)
                     PROVE  x \in Listed(u)
        BY DEF Queues
      <4>2. x # a.idx
        BY <1>0, <3>4, <3>8, <3>11, <3>12, <4>1 DEF Ended
      <4>3. Ended(t, x)
        BY <1>0, <2>2, <3>8, <3>11, <3>12, <4>1, <4>2 DEF Ended
      <4>4. x \in Listed(t)
        BY <1>0, <2>2, <3>11, <4>1, <4>3 DEF Queues
      <4> QED BY <3>10, <4>4 DEF Listed
    <3>14. Balanced(u, 1)
      BY <3>9, BalancedSame DEF NewFields, AddrFields
    <3>15. u.ht_streams[Hash(key)] # NoEntry
      BY <1>7, <2>2, <3>11
    <3> QED BY <1>3, <2>7, <3>6, <3>7, <3>13, <3>14, <3>15 DEF Good
  <2> QED BY <2>9, <2>10
<1> QED BY <1>4, <1>5, <1>6, <1>7

(* The stream of a packet is looked up, and added if it is not found. *)
LEMMA FindStreamGood ==
  ASSUME NEW t, Good(t), t.fault = "none", NEW key \in Keys, Balanced(t, 1)
  PROVE  LET u == FindStream(t, key) IN
           /\ Good(u)
           /\ u.fault = "none" =>
                Balanced(u, IF u.ht_streams[Hash(key)] = NoEntry THEN 0 ELSE 1)
<1>1. CASE t.ht_streams[Hash(key)] = NoEntry
  BY <1>1, AddStreamGood DEF FindStream
<1>2. CASE t.ht_streams[Hash(key)] # NoEntry
  BY <1>2 DEF FindStream
<1> QED BY <1>1, <1>2

-----------------------------------------------------------------------------
(***************************************************************************)
(* The clean-up.                                                           *)
(***************************************************************************)
(* One entry of an array is released: the count says so, too. *)
LEMMA OneLess ==
  ASSUME NEW T, IsFiniteSet(T), NEW i \in T, NEW n \in 0 .. Word - 1, n = Cardinality(T)
  PROVE  U32(n - 1) = Cardinality(T \ {i}) /\ U32(n - 1) <= n
<1>1. Cardinality(T \ {i}) = n - 1
  BY FS_RemoveElement
<1>2. IsFiniteSet(T \ {i})
  BY FS_RemoveElement
<1>3. Cardinality(T \ {i}) \in Nat
  BY <1>2, FS_CardinalityType
<1>4. n - 1 \in 0 .. Word - 1
  BY <1>1, <1>3, WordAssumption
<1>5. U32(n - 1) = n - 1
  BY <1>4, U32Small
<1> QED BY <1>1, <1>4, <1>5

(* What an array of which the entries S are in use makes of the release of
   one: the count stays exact. *)
Released1(g, q, S, r) ==
  /\ Framed(g, r.p, r.taken) /\ r.p.num_entries = Cardinality(r.taken)
  /\ r.p.num_entries <= q.num_entries /\ r.taken \subseteq S
  /\ \/ r.p = q
     \/ /\ r.p.idx_lo = Mid(g) \/ U32(r.p.idx_lo + 1) \in r.taken
        /\ r.p.idx_hi <= U32(r.p.idx_lo + 1) \/ r.p.idx_hi - 1 \in r.taken

(* The release of an entry, with the count. *)
LEMMA FreeCounted ==
  ASSUME NEW g, IsGeometry(g), NEW q, NEW S, Framed(g, q, S),
         q.num_entries = Cardinality(S), NEW i, NEW r, r = mga_free_entry(g, q, S, i)
  PROVE  Released1(g, q, S, r)
<1>1. Freed(g, q, S, i, r)
  BY FreeFrees
<1>2. IsFiniteSet(S) /\ q.num_entries \in 0 .. Word - 1
  BY FramedFacts
<1>3. CASE r.p = q /\ r.taken = S
  BY <1>2, <1>3, WordAssumption DEF Released1
<1>4. CASE ~(r.p = q /\ r.taken = S)
  <2>1. /\ i \in S /\ r.taken = S \ {i} /\ Framed(g, r.p, r.taken)
        /\ r.p.num_entries = U32(q.num_entries - 1)
        /\ r.p.idx_lo = Mid(g) \/ U32(r.p.idx_lo + 1) \in r.taken
        /\ r.p.idx_hi <= U32(r.p.idx_lo + 1) \/ r.p.idx_hi - 1 \in r.taken
    BY <1>1, <1>4 DEF Freed
  <2>2. /\ U32(q.num_entries - 1) = Cardinality(S \ {i})
        /\ U32(q.num_entries - 1) <= q.num_entries
    BY <1>2, <2>1, OneLess
  <2> QED BY <2>1, <2>2 DEF Released1
<1> QED BY <1>3, <1>4

(* An address entry is released, through the array its index belongs to: the
   arrays stay apart and their counts exact. *)
LEMMA AddrFreeParted ==
  ASSUME NEW t \in Tables, Parted(t), t.fault = "none", NEW i \in AddrSlots,
         NEW internal \in BOOLEAN, NEW r,
         r = (IF internal THEN mga_free_entry(Lan, t.lan, t.ataken, i)
                          ELSE mga_free_entry(Wan, t.wan, t.ataken, i)),
         NEW u \in Tables, Only(t, u, {"lan", "wan", "ataken"}),
         u.lan = (IF internal THEN r.p ELSE t.lan), u.wan = (IF internal THEN t.wan ELSE r.p),
         u.ataken = r.taken, r.taken \subseteq t.ataken
  PROVE  Parted(u)
<1>0. /\ IsGeometry(Lan) /\ IsGeometry(Wan) /\ NumLan \in Nat /\ NumAddrs \in Nat
      /\ NumLan < NumAddrs /\ Word \in Nat /\ 2 * NumAddrs + 2 < Word
      /\ Mid(Lan) \in Nat /\ Mid(Lan) < NumLan
      /\ Mid(Wan) \in Nat /\ NumLan <= Mid(Wan) /\ Mid(Wan) < NumAddrs
  BY ArrayFacts, ConstantFacts
<1>1. /\ u.strayed = t.strayed /\ u.fault = t.fault /\ u.addr = t.addr
      /\ u.ht_v4addrs = t.ht_v4addrs
  BY DEF Only, Fields
<1>2. SUFFICES ASSUME ~t.strayed PROVE Covered(u) /\ Counted(u) /\ Placed(u) /\ Full(u)
  BY <1>1 DEF Parted
<1>3. Covered(t) /\ Counted(t) /\ Placed(t)
  BY <1>2 DEF Parted
<1>4. Placed(u) /\ Full(u)
  BY <1>1, <1>3 DEF Placed, Full
<1>5. /\ LanTaken(t) = t.ataken \cap LanPart /\ WanTaken(t) = t.ataken \cap WanPart
      /\ LanTaken(u) = r.taken \cap LanPart /\ WanTaken(u) = r.taken \cap WanPart
  BY DEF LanTaken, WanTaken, LanPart, WanPart
<1>6. /\ t.ataken \subseteq Nat /\ t.lan \in Infos /\ t.wan \in Infos
      /\ \A x \in t.ataken : x \in LanPart \/ x \in WanPart
  BY <1>0, TableFacts DEF AddrSlots, LanPart, WanPart
<1>7. LanPart \cap WanPart = {}
  BY <1>0 DEF LanPart, WanPart
<1>8. CASE internal
  <2>1. r = mga_free_entry(Lan, t.lan, t.ataken, i) /\ u.lan = r.p /\ u.wan = t.wan
    BY <1>8
  <2>2. t.lan.idx_hi <= NumLan + 1
    BY <1>3 DEF Covered
  <2>3. \A x \in t.ataken \ LanPart :
          x <= t.lan.idx_lo \/ (x >= t.lan.idx_hi /\ x > Mid(Lan) + 1)
    <3>1. ASSUME NEW x \in t.ataken \ LanPart PROVE x >= t.lan.idx_hi /\ x > Mid(Lan) + 1
      <4>1. x \in NumLan + 1 .. NumAddrs - 1
        BY <1>6, <3>1 DEF WanPart
      <4>2. t.lan.idx_hi \in Int
        BY <1>0, <1>6 DEF Infos
      <4> QED BY <1>0, <2>2, <4>1, <4>2
    <3> QED BY <3>1
  <2>4. PICK s : s = mga_free_entry(Lan, t.lan, t.ataken \cap LanPart, i)
    OBVIOUS
  <2>5. s.p = r.p /\ s.taken = r.taken \cap LanPart /\ r.taken \ LanPart = t.ataken \ LanPart
    <3>1. SameRelease(t.ataken, LanPart, r, s)
      BY <1>0, <1>6, <2>1, <2>3, <2>4, FreeShared
    <3> QED BY <3>1 DEF SameRelease
  <2>6. Released1(Lan, t.lan, LanTaken(t), s)
    BY <1>0, <1>3, <1>5, <2>4, FreeCounted DEF Covered, Counted
  <2>7. LanTaken(u) = s.taken /\ WanTaken(u) = WanTaken(t)
    BY <1>5, <1>7, <2>5
  <2>8. s.p.idx_hi <= NumLan + 1
    <3>1. CASE s.p = t.lan
      BY <2>2, <3>1
    <3>2. CASE s.p.idx_hi - 1 \in s.taken
      <4>1. s.p.idx_hi - 1 \in 0 .. NumLan /\ s.p \in Infos
        BY <1>5, <2>6, <3>2 DEF Released1, LanPart, Framed, Bracketed
      <4> QED BY <1>0, <4>1 DEF Infos
    <3>3. CASE s.p.idx_hi <= U32(s.p.idx_lo + 1)
      <4>1. Framed(Lan, s.p, s.taken)
        BY <2>6 DEF Released1
      <4>2. U32(s.p.idx_lo + 1) = Low(s.p) + 1 /\ Low(s.p) \in -1 .. Mid(Lan)
        BY <1>0, <4>1, WindowShape DEF Framed
      <4>3. s.p.idx_hi \in Int
        BY <1>0, <4>1 DEF Framed, Bracketed, Infos
      <4> QED BY <1>0, <3>3, <4>2, <4>3
    <3> QED BY <2>6, <3>1, <3>2, <3>3 DEF Released1
  <2>9. s.p.num_entries <= NumLan
    <3>1. /\ s.p.num_entries \in Int /\ t.lan.num_entries \in Int
          /\ s.p.num_entries <= t.lan.num_entries /\ t.lan.num_entries <= NumLan
      BY <1>0, <1>3, <1>6, <2>6 DEF Released1, Framed, Bracketed, Infos, Counted
    <3> QED BY <1>0, <3>1
  <2>10. Covered(u) /\ Counted(u)
    BY <1>3, <2>1, <2>5, <2>6, <2>7, <2>8, <2>9 DEF Covered, Counted, Released1
  <2> QED BY <1>4, <2>10
<1>9. CASE ~internal
  <2>1. r = mga_free_entry(Wan, t.wan, t.ataken, i) /\ u.wan = r.p /\ u.lan = t.lan
    BY <1>9
  <2>2. t.wan.idx_lo \in NumLan .. Mid(Wan)
    BY <1>3 DEF Covered
  <2>3. \A x \in t.ataken \ WanPart :
          x <= t.wan.idx_lo \/ (x >= t.wan.idx_hi /\ x > Mid(Wan) + 1)
    <3>1. ASSUME NEW x \in t.ataken \ WanPart PROVE x <= t.wan.idx_lo
      <4>1. x \in 0 .. NumLan
        BY <1>6, <3>1 DEF LanPart
      <4> QED BY <1>0, <2>2, <4>1
    <3> QED BY <3>1
  <2>4. PICK s : s = mga_free_entry(Wan, t.wan, t.ataken \cap WanPart, i)
    OBVIOUS
  <2>5. s.p = r.p /\ s.taken = r.taken \cap WanPart /\ r.taken \ WanPart = t.ataken \ WanPart
    <3>1. SameRelease(t.ataken, WanPart, r, s)
      BY <1>0, <1>6, <2>1, <2>3, <2>4, FreeShared
    <3> QED BY <3>1 DEF SameRelease
  <2>6. Released1(Wan, t.wan, WanTaken(t), s)
    BY <1>0, <1>3, <1>5, <2>4, FreeCounted DEF Covered, Counted
  <2>7. WanTaken(u) = s.taken /\ LanTaken(u) = LanTaken(t)
    BY <1>5, <1>7, <2>5
  <2>8. s.p.idx_lo \in NumLan .. Mid(Wan)
    <3>0. Framed(Wan, s.p, s.taken)
      BY <2>6 DEF Released1
    <3>1. CASE s.p = t.wan
      BY <2>2, <3>1
    <3>2. CASE s.p.idx_lo = Mid(Wan)
      BY <1>0, <3>2
    <3>3. CASE U32(s.p.idx_lo + 1) \in s.taken
      <4>1. U32(s.p.idx_lo + 1) \in NumLan + 1 .. NumAddrs - 1
        BY <1>5, <2>6, <3>3 DEF Released1, WanPart
      <4>2. U32(s.p.idx_lo + 1) = Low(s.p) + 1 /\ Low(s.p) \in -1 .. Mid(Wan)
        BY <1>0, <3>0, WindowShape DEF Framed
      <4>3. Low(s.p) \in NumLan .. Mid(Wan)
        BY <1>0, <4>1, <4>2
      <4>4. Low(s.p) = s.p.idx_lo
        BY <1>0, <4>3 DEF Low
      <4> QED BY <4>3, <4>4
    <3> QED BY <2>6, <3>1, <3>2, <3>3 DEF Released1
  <2>9. s.p.num_entries <= NumAddrs - NumLan
    <3>1. /\ s.p.num_entries \in Int /\ t.wan.num_entries \in Int
          /\ s.p.num_entries <= t.wan.num_entries /\ t.wan.num_entries <= NumAddrs - NumLan
      BY <1>0, <1>3, <1>6, <2>6 DEF Released1, Framed, Bracketed, Infos, Counted
    <3> QED BY <1>0, <3>1
  <2>10. Covered(u) /\ Counted(u)
    BY <1>3, <2>1, <2>5, <2>6, <2>7, <2>8, <2>9 DEF Covered, Counted, Released1
  <2> QED BY <1>4, <2>10
<1> QED BY <1>8, <1>9

(* An address entry is released. *)
LEMMA AddrFreeGood ==
  ASSUME NEW t, Good(t), t.fault = "none", NEW i \in AddrSlots
  PROVE  LET u == FreeAddrIfIdle(t, i) IN Good(u) /\ Only(t, u, {"lan", "wan", "ataken"})
<1>0. /\ t \in Tables /\ Sound(t) /\ Queues(t) /\ t.lan \in Infos /\ t.wan \in Infos
      /\ t.ataken \subseteq AddrSlots /\ Parted(t)
  BY TableFacts DEF Good, Sound
<1>1. CASE t.addr[i].nstreams_active # 0
  <2>1. FreeAddrIfIdle(t, i) = t
    BY <1>1 DEF FreeAddrIfIdle
  <2> QED BY <2>1 DEF Only
<1>2. CASE t.addr[i].nstreams_active = 0
  <2>0. i \in Int /\ NumLan \in Int
    BY ConstantFacts DEF AddrSlots
  <2>1. PICK internal \in BOOLEAN : internal <=> i < NumLan
    <3>1. CASE i < NumLan
      BY <3>1
    <3>2. CASE ~(i < NumLan)
      BY <3>2
    <3> QED BY <3>1, <3>2
  <2>2. PICK r : r = (IF internal THEN mga_free_entry(Lan, t.lan, t.ataken, i)
                                  ELSE mga_free_entry(Wan, t.wan, t.ataken, i))
    OBVIOUS
  <2>3. PICK u : u = SetAddrs(t, internal, r)
    OBVIOUS
  <2>4. FreeAddrIfIdle(t, i) = u
    <3>1. FreeAddrIfIdle(t, i) = shm_addr_free(t, i)
      BY <1>2 DEF FreeAddrIfIdle
    <3>2. CASE internal
      <4>1. ~(i >= NumLan)
        BY <2>0, <2>1, <3>2
      <4>2. internal = TRUE
        BY <3>2, Zenon
      <4> QED BY <2>2, <2>3, <3>1, <4>1, <4>2 DEF shm_addr_free
    <3>3. CASE ~internal
      <4>1. i >= NumLan
        BY <2>0, <2>1, <3>3
      <4>2. internal = FALSE
        BY <3>3, Zenon
      <4> QED BY <2>2, <2>3, <3>1, <4>1, <4>2 DEF shm_addr_free
    <3> QED BY <3>2, <3>3
  <2>5. r.p \in Infos /\ r.taken \subseteq t.ataken
    <3>1. CASE internal
      <4>1. r = mga_free_entry(Lan, t.lan, t.ataken, i)
        BY <2>2, <3>1
      <4> QED BY <1>0, <4>1, ArrayFacts, FreeTyped
    <3>2. CASE ~internal
      <4>1. r = mga_free_entry(Wan, t.wan, t.ataken, i)
        BY <2>2, <3>2
      <4> QED BY <1>0, <4>1, ArrayFacts, FreeTyped
    <3> QED BY <3>1, <3>2
  <2>6. /\ u \in Tables /\ Only(t, u, {"lan", "wan", "ataken"})
        /\ u.lan = (IF internal THEN r.p ELSE t.lan)
        /\ u.wan = (IF internal THEN t.wan ELSE r.p)
        /\ u.ataken = r.taken
    BY <1>0, <2>3, <2>5, SetAddrsStep
  <2>7. Parted(u)
    BY <1>0, <2>1, <2>2, <2>5, <2>6, AddrFreeParted
  <2>8. Only(t, u, AddrFields)
    BY <2>6 DEF Only, AddrFields
  <2>9. /\ u.strayed = t.strayed /\ u.si = t.si /\ u.staken = t.staken /\ u.ss = t.ss
        /\ u.clist = t.clist /\ u.cwait = t.cwait /\ u.fault = t.fault
    BY <2>6 DEF Only, Fields
  <2>10. Sound(u)
    BY <1>0, <2>6, <2>7, <2>8, <2>9, AddrFieldsSound
  <2>11. Queues(u)
    BY <1>0, <2>9 DEF Queues, Ended, Listed
  <2> QED BY <2>4, <2>6, <2>10, <2>11 DEF Good
<1> QED BY <1>1, <1>2

(* mga_free_entry on the stream array: the entry is released, unless the array
   has taken entry 0 before. *)
StreamOut(q, T, s, r) ==
  /\ r.p \in Infos /\ Framed(Streams, r.p, r.taken) /\ r.taken \subseteq T
  /\ q.idx_lo = Word - 1 => r.p.idx_lo = Word - 1
  /\ s \notin r.taken \/ r.p.idx_lo = Word - 1

(* mga_free_entry does what StreamOut says. *)
LEMMA StreamLeft ==
  ASSUME NEW q \in Infos, NEW T, T \subseteq StreamSlots, Framed(Streams, q, T),
         NEW s \in StreamSlots
  PROVE  StreamOut(q, T, s, mga_free_entry(Streams, q, T, s))
<1> DEFINE r == mga_free_entry(Streams, q, T, s)
<1>0. /\ IsGeometry(Streams) /\ Word \in Nat /\ StreamRaw \in Nat /\ 2 * StreamRaw + 2 < Word
      /\ s \in 0 .. StreamRaw - 1
  BY ArrayFacts, ConstantFacts DEF StreamSlots
<1>1. CASE s <= q.idx_lo \/ s >= q.idx_hi \/ s \notin T
  <2>1. r = [p |-> q, taken |-> T]
    BY <1>1 DEF mga_free_entry
  <2>2. s \notin T \/ q.idx_lo = Word - 1
    <3>1. SUFFICES ASSUME s \in T, q.idx_lo # Word - 1 PROVE FALSE
      OBVIOUS
    <3>2. s \in (Low(q) + 1) .. (q.idx_hi - 1) /\ q.idx_lo \in 0 .. Word - 1 /\ q.idx_hi \in Int
      <4>1. T \subseteq (Low(q) + 1) .. (q.idx_hi - 1)
        BY <1>0, FramedFacts
      <4>2. q.idx_lo \in 0 .. Word - 1 /\ q.idx_hi \in 0 .. Word - 1
        BY DEF Infos
      <4> QED BY <1>0, <3>1, <4>1, <4>2
    <3>3. Low(q) = q.idx_lo
      BY <3>1 DEF Low
    <3> QED BY <1>0, <1>1, <3>1, <3>2, <3>3
  <2>3. r.p = q /\ r.taken = T
    BY <2>1
  <2> HIDE DEF r
  <2>4. StreamOut(q, T, s, r)
    BY <2>2, <2>3 DEF StreamOut
  <2> QED BY <2>4 DEF r
<1>2. CASE ~(s <= q.idx_lo \/ s >= q.idx_hi \/ s \notin T)
  <2>1. Freed(Streams, q, T, s, r)
    BY <1>0, FreeFrees
  <2>2. r.taken = T \ {s}
    BY <1>2 DEF mga_free_entry
  <2>3. q.idx_lo # Word - 1
    BY <1>0, <1>2
  <2>4. r.p \in Infos
    BY <1>0, FreeTyped
  <2> HIDE DEF r
  <2>5. Framed(Streams, r.p, r.taken)
    <3>1. r.taken # T
      BY <1>2, <2>2
    <3> QED BY <2>1, <3>1 DEF Freed
  <2>6. StreamOut(q, T, s, r)
    BY <2>2, <2>3, <2>4, <2>5 DEF StreamOut
  <2> QED BY <2>6 DEF r
<1> QED BY <1>1, <1>2

(* set_stream_slot_empty. *)
LEMMA SlotEmptyGood ==
  ASSUME NEW t, Good(t), NEW s \in StreamSlots
  PROVE  LET u == set_stream_slot_empty(t, s) IN
           /\ Good(u) /\ Only(t, u, {"si", "staken", "ss"}) /\ u.staken \subseteq t.staken
           /\ t.si.idx_lo = Word - 1 => u.si.idx_lo = Word - 1
           /\ s \notin u.staken \/ u.si.idx_lo = Word - 1
<1>0. /\ t \in Tables /\ Sound(t) /\ Queues(t) /\ t.si \in Infos
      /\ t.staken \subseteq StreamSlots /\ t.ss \in [StreamSlots -> StreamInfos]
      /\ Framed(Streams, t.si, t.staken)
  BY TableFacts DEF Good, Sound
<1>1. PICK r : r = mga_free_entry(Streams, t.si, t.staken, s)
  OBVIOUS
<1>2. StreamOut(t.si, t.staken, s, r)
  BY <1>0, <1>1, StreamLeft
<1>3. PICK q \in Infos, T \in SUBSET StreamSlots : q = r.p /\ T = r.taken
  BY <1>0, <1>2 DEF StreamOut
<1>4. t.ss[s] \in StreamInfos
  BY <1>0
<1>5. PICK n \in 0 .. Expired + 1 + MaxBack : n = IF s \in T THEN t.ss[s].age ELSE 0
  <2>1. t.ss[s].age \in 0 .. Expired + 1 + MaxBack /\ 0 \in 0 .. Expired + 1 + MaxBack
    BY <1>4, ConstantFacts DEF StreamInfos
  <2> QED BY <2>1
<1>6. PICK d \in BOOLEAN : d <=> (t.ss[s].dropped /\ s \in T)
  OBVIOUS
<1>7. d = (t.ss[s].dropped /\ s \in T)
  <2>1. t.ss[s].dropped \in BOOLEAN
    BY <1>4 DEF StreamInfos
  <2> QED BY <1>6, <2>1, Zenon
<1>8. PICK st \in StreamInfos : st = [t.ss[s] EXCEPT !.age = n, !.dropped = d]
  BY <1>4 DEF StreamInfos
<1>9. st.key = t.ss[s].key /\ st.type = t.ss[s].type /\ st.cleanup = t.ss[s].cleanup /\ st.dropped = d
  BY <1>4, <1>8 DEF StreamInfos
<1>10. PICK z \in [StreamSlots -> StreamInfos] : z = [t.ss EXCEPT ![s] = st]
  BY <1>0
<1>11. PICK u : u = [t EXCEPT !.si = q, !.staken = T, !.ss = z]
  OBVIOUS
<1>12. set_stream_slot_empty(t, s) = u
  <2>1. set_stream_slot_empty(t, s) =
          [t EXCEPT !.si = q, !.staken = T, !.ss[s].age = IF s \in T THEN @ ELSE 0,
                    !.ss[s].dropped = @ /\ s \in T]
    BY <1>1, <1>3 DEF set_stream_slot_empty, StreamFreed
  <2>2. set_stream_slot_empty(t, s) =
          [t EXCEPT !.si = q, !.staken = T, !.ss[s].age = n, !.ss[s].dropped = d]
    BY <1>5, <1>7, <2>1
  <2>3. [t EXCEPT !.si = q, !.staken = T, !.ss[s].age = n, !.ss[s].dropped = d]
          = [t EXCEPT !.si = q, !.staken = T,
                      !.ss = [t.ss EXCEPT ![s] = [t.ss[s] EXCEPT !.age = n, !.dropped = d]]]
    BY <1>0, <1>4 DEF Tables
  <2> QED BY <1>8, <1>10, <1>11, <2>2, <2>3
<1>13. /\ u \in Tables /\ Only(t, u, {"si", "staken", "ss"}) /\ u.si = q /\ u.staken = T
       /\ u.ss = z
  BY <1>0, <1>11 DEF Tables, Only, Fields
<1>14. /\ u.lan = t.lan /\ u.wan = t.wan /\ u.ataken = t.ataken /\ u.addr = t.addr
       /\ u.ht_v4addrs = t.ht_v4addrs /\ u.strayed = t.strayed /\ u.fault = t.fault
       /\ u.clist = t.clist /\ u.cwait = t.cwait
  BY <1>13 DEF Only, Fields
<1>15. \A x \in StreamSlots : /\ u.ss[x].key = t.ss[x].key /\ u.ss[x].type = t.ss[x].type
                              /\ u.ss[x].cleanup = t.ss[x].cleanup
                              /\ x # s => u.ss[x].dropped = t.ss[x].dropped
  BY <1>0, <1>9, <1>10, <1>13
<1>16. u.ss[s].dropped = d
  BY <1>0, <1>9, <1>10, <1>13
<1>17. Parted(u) /\ Classed(u)
  BY <1>0, <1>13, <1>14, <1>15, PartedSame, ClassedSame DEF Sound
<1>18. Sizes(u) /\ Framed(Streams, u.si, u.staken)
  BY <1>0, <1>2, <1>3, <1>13, <1>14 DEF Sound, Sizes, StreamOut
<1>19. /\ u.staken \subseteq t.staken
       /\ t.si.idx_lo = Word - 1 => u.si.idx_lo = Word - 1
       /\ s \notin u.staken \/ u.si.idx_lo = Word - 1
  BY <1>2, <1>3, <1>13 DEF StreamOut
<1>20. Queues(u)
  <2>1. SUFFICES ASSUME u.fault = "none", u.si.idx_lo # Word - 1, NEW x \in StreamSlots,
                        Ended(u, x)
                 PROVE  x \in Listed(u)
    BY DEF Queues
  <2>2. Ended(t, x)
    <3>1. x # s
      BY <1>19, <2>1 DEF Ended
    <3> QED BY <1>15, <1>19, <2>1, <3>1 DEF Ended
  <2>3. x \in Listed(t)
    BY <1>0, <1>14, <1>19, <2>1, <2>2 DEF Queues
  <2> QED BY <1>14, <2>3 DEF Listed
<1>21. Good(u)
  BY <1>13, <1>17, <1>18, <1>20 DEF Good, Sound
<1> QED BY <1>12, <1>13, <1>19, <1>21

CleanFields == {"si", "staken", "ss", "lan", "wan", "ataken", "addr", "ht_streams"}

(* What cleaning makes of the tables t, in u. *)
Cleaned(t, u) ==
  /\ Good(u) /\ Only(t, u, CleanFields) /\ u.staken \subseteq t.staken
  /\ t.si.idx_lo = Word - 1 => u.si.idx_lo = Word - 1

(* One round of the loop: the stream of the list is no longer in use. *)
LEMMA CleanStreamGood ==
  ASSUME NEW t, Good(t), t.fault = "none", NEW s \in StreamSlots, NEW cur \in Keys
  PROVE  /\ Cleaned(t, CleanStream(t, s, cur))
         /\ \/ s \notin CleanStream(t, s, cur).staken
            \/ CleanStream(t, s, cur).si.idx_lo = Word - 1
<1>0. t \in Tables /\ t.ss \in [StreamSlots -> StreamInfos] /\ Hash(cur) \in Buckets
  BY TableFacts, KeyOfKeys DEF Good, Sound
<1>1. PICK l \in AddrSlots, r \in AddrSlots : l = t.ss[s].idx_left /\ r = t.ss[s].idx_right
  <2>1. t.ss[s] \in StreamInfos
    BY <1>0
  <2> QED BY <2>1 DEF StreamInfos
<1>2. PICK key : key = stream_init_key_from_stream(t.ss[s].key, t.addr[l].addr_offset,
                                                   t.addr[r].addr_offset)
  OBVIOUS
<1>3. PICK u : u = shm_stream_lookup_free(t, key, cur)
  OBVIOUS
<1>4. Good(u) /\ Only(t, u, {"ht_streams"})
  <2>1. CASE key # cur
    BY <1>3, <2>1 DEF shm_stream_lookup_free, Only
  <2>2. CASE key = cur
    <3>1. PICK h \in [Buckets -> StreamSlots \cup {NoEntry}] :
            h = [t.ht_streams EXCEPT ![Hash(cur)] = NoEntry]
      <4>1. t.ht_streams \in [Buckets -> StreamSlots \cup {NoEntry}]
        BY <1>0, TableFacts
      <4> QED BY <1>0, <4>1
    <3>2. u = [t EXCEPT !.ht_streams = h]
      BY <1>3, <2>2, <3>1 DEF shm_stream_lookup_free
    <3>3. u \in Tables /\ Only(t, u, {"ht_streams"})
      BY <1>0, <3>2 DEF Tables, Only, Fields
    <3>4. Only(t, u, {"addr", "flow", "protos", "refused", "ht_streams"}) /\ u.addr = t.addr
      BY <3>3 DEF Only, Fields
    <3> QED BY <3>3, <3>4, CountingGood
  <2> QED BY <2>1, <2>2
<1>5. PICK v1 : v1 = LessActive(u, l)
  OBVIOUS
<1>6. PICK v : v = LessActive(v1, r)
  OBVIOUS
<1>7. Good(v) /\ Only(u, v, {"addr"})
  <2>1. /\ v1 \in Tables /\ Only(u, v1, {"addr"})
        /\ \A j \in AddrSlots : v1.addr[j].internal = u.addr[j].internal
    BY <1>1, <1>4, <1>5, ActiveStep DEF Good, Sound
  <2>2. /\ v \in Tables /\ Only(v1, v, {"addr"})
        /\ \A j \in AddrSlots : v.addr[j].internal = v1.addr[j].internal
    BY <1>1, <1>6, <2>1, ActiveStep
  <2>3. Only(u, v, {"addr"}) /\ Only(u, v, {"addr", "flow", "protos", "refused", "ht_streams"})
    BY <2>1, <2>2 DEF Only
  <2> QED BY <1>4, <2>1, <2>2, <2>3, CountingGood
<1>8. PICK w1 : w1 = FreeAddrIfIdle(v, l)
  OBVIOUS
<1>9. PICK w : w = FreeAddrIfIdle(w1, r)
  OBVIOUS
<1>10. v.fault = "none"
  BY <1>4, <1>7 DEF Only, Fields
<1>11. Good(w1) /\ Only(v, w1, {"lan", "wan", "ataken"})
  BY <1>1, <1>7, <1>8, <1>10, AddrFreeGood
<1>12. w1.fault = "none"
  BY <1>10, <1>11 DEF Only, Fields
<1>13. Good(w) /\ Only(w1, w, {"lan", "wan", "ataken"})
  BY <1>1, <1>9, <1>11, <1>12, AddrFreeGood
<1>14. PICK z : z = set_stream_slot_empty(w, s)
  OBVIOUS
<1>15. /\ Good(z) /\ Only(w, z, {"si", "staken", "ss"}) /\ z.staken \subseteq w.staken
       /\ w.si.idx_lo = Word - 1 => z.si.idx_lo = Word - 1
       /\ s \notin z.staken \/ z.si.idx_lo = Word - 1
  BY <1>13, <1>14, SlotEmptyGood
<1>16. CleanStream(t, s, cur) = z
  BY <1>1, <1>2, <1>3, <1>5, <1>6, <1>8, <1>9, <1>14 DEF CleanStream
<1>17. Only(t, z, CleanFields)
  BY <1>4, <1>7, <1>11, <1>13, <1>15 DEF Only, CleanFields
<1>18. w.staken = t.staken /\ w.si = t.si
  BY <1>4, <1>7, <1>11, <1>13 DEF Only, Fields
<1>19. Cleaned(t, z)
  BY <1>15, <1>17, <1>18 DEF Cleaned
<1> QED BY <1>15, <1>16, <1>19

(* Cleaning goes on from where it was. *)
LEMMA CleanedOn ==
  ASSUME NEW t, NEW u, NEW v, Cleaned(t, u), Cleaned(u, v)
  PROVE  Cleaned(t, v)
<1>1. Only(t, v, CleanFields)
  BY DEF Cleaned, Only
<1> QED BY <1>1 DEF Cleaned

(* The loop of cleanup_expired_streams: of the streams of the list none is in
   use when it is over. *)
LEMMA CleanAllGood ==
  ASSUME NEW t, Good(t), t.fault = "none", NEW cur \in Keys
  PROVE  /\ Cleaned(t, CleanAll(t, cur))
         /\ \A x \in ToSet(t.clist) : \/ x \notin CleanAll(t, cur).staken
                                      \/ CleanAll(t, cur).si.idx_lo = Word - 1
<1> DEFINE L == t.clist
           N == Len(L)
           T == {u \in Tables : Cleaned(t, u)}
           Body(f) == [i \in 0 .. N |-> IF i = 0 THEN t ELSE CleanStream(f[i - 1], L[i], cur)]
           run == CHOOSE f : f = Body(f)
           step == [x \in (1 .. N) \X T |-> CleanStream(x[2], L[x[1]], cur)]
<1>0. L \in Seq(StreamSlots) /\ t \in Tables
  BY TableFacts DEF Good, Sound
<1>1. CleanAll(t, cur) = run[N]
  BY DEF CleanAll
<1>2. N \in Nat /\ (\A i \in 1 .. N : L[i] \in StreamSlots) /\ ToSet(L) = {L[i] : i \in 1 .. N}
  <2> HIDE DEF L
  <2> QED BY <1>0 DEF ToSet
<1>3. t \in T
  BY <1>0 DEF Cleaned, Only
<1>4. ASSUME NEW i \in 1 .. N, NEW u \in T
      PROVE  /\ CleanStream(u, L[i], cur) \in T
             /\ Cleaned(u, CleanStream(u, L[i], cur))
             /\ \/ L[i] \notin CleanStream(u, L[i], cur).staken
                \/ CleanStream(u, L[i], cur).si.idx_lo = Word - 1
  <2>1. Good(u) /\ Cleaned(t, u)
    BY DEF Cleaned
  <2>2. u.fault = "none"
    BY <2>1 DEF Cleaned, Only, Fields, CleanFields
  <2>3. PICK z : z = CleanStream(u, L[i], cur)
    OBVIOUS
  <2>4. Cleaned(u, z) /\ (L[i] \notin z.staken \/ z.si.idx_lo = Word - 1)
    BY <1>2, <2>1, <2>2, <2>3, CleanStreamGood
  <2>5. Cleaned(t, z) /\ z \in Tables
    <3>1. Cleaned(t, z)
      BY <2>1, <2>4, CleanedOn
    <3> QED BY <3>1 DEF Cleaned, Good, Sound
  <2> QED BY <2>3, <2>4, <2>5
<1> HIDE DEF T, N, L
<1>5. step \in [(1 .. N) \X T -> T]
  <2>1. ASSUME NEW x \in (1 .. N) \X T PROVE CleanStream(x[2], L[x[1]], cur) \in T
    <3>1. x[1] \in 1 .. N /\ x[2] \in T
      OBVIOUS
    <3> QED BY <1>4, <3>1
  <2> QED BY <2>1
<1>6. \A i \in 1 .. N, u \in T : step[<<i, u>>] = CleanStream(u, L[i], cur)
  OBVIOUS
<1> HIDE DEF step
<1>7. PICK g \in [0 .. N -> T] : g[0] = t /\ \A i \in 1 .. N : g[i] = step[<<i, g[i - 1]>>]
  <2>1. LoopRuns(N, T, t, step) # {}
    BY <1>2, <1>3, <1>5, LoopRunExists
  <2> QED BY <2>1 DEF LoopRuns
<1>8. \A i \in 1 .. N : g[i] = CleanStream(g[i - 1], L[i], cur)
  <2> TAKE i \in 1 .. N
  <2>1. g[i - 1] \in T
    BY <1>2
  <2> QED BY <1>6, <1>7, <2>1
<1>9. g = Body(g)
  <2>1. \A i \in 0 .. N : g[i] = Body(g)[i]
    BY <1>2, <1>7, <1>8
  <2> QED BY <2>1
<1>10. run = Body(run)
  BY <1>9, Zenon
<1>11. run[0] = t
  <2>1. 0 \in 0 .. N
    BY <1>2
  <2>2. Body(run)[0] = t
    BY <2>1
  <2> QED BY <1>10, <2>2, Zenon
<1>12. \A i \in 1 .. N : run[i] = CleanStream(run[i - 1], L[i], cur)
  <2> TAKE i \in 1 .. N
  <2>1. i \in 0 .. N /\ i # 0
    BY <1>2
  <2>2. Body(run)[i] = CleanStream(run[i - 1], L[i], cur)
    BY <2>1
  <2> QED BY <1>10, <2>2, Zenon
<1> HIDE DEF run
<1> DEFINE Gone(i) == \A j \in 1 .. i : L[j] \notin run[i].staken \/ run[i].si.idx_lo = Word - 1
           S == {i \in 0 .. N : run[i] \in T /\ Gone(i)}
<1>13. 0 \in S
  BY <1>2, <1>3, <1>11
<1>14. ASSUME NEW i \in 1 .. N, i - 1 \in S PROVE i \in S
  <2>1. run[i - 1] \in T /\ Gone(i - 1)
    BY <1>14
  <2>2. /\ run[i] \in T /\ Cleaned(run[i - 1], run[i])
        /\ L[i] \notin run[i].staken \/ run[i].si.idx_lo = Word - 1
    BY <1>4, <1>12, <2>1
  <2>3. /\ run[i].staken \subseteq run[i - 1].staken
        /\ run[i - 1].si.idx_lo = Word - 1 => run[i].si.idx_lo = Word - 1
    BY <2>2 DEF Cleaned
  <2>4. ASSUME NEW j \in 1 .. i PROVE L[j] \notin run[i].staken \/ run[i].si.idx_lo = Word - 1
    <3>1. CASE j = i
      BY <2>2, <3>1
    <3>2. CASE j # i
      <4>1. j \in 1 .. i - 1
        BY <1>2, <3>2
      <4>2. L[j] \notin run[i - 1].staken \/ run[i - 1].si.idx_lo = Word - 1
        BY <2>1, <4>1
      <4> QED BY <2>3, <4>2
    <3> QED BY <3>1, <3>2
  <2>5. i \in 0 .. N
    BY <1>2
  <2> QED BY <2>2, <2>4, <2>5
<1> HIDE DEF S
<1>15. N \in S
  <2>1. 0 .. N \subseteq S
    BY <1>2, <1>13, <1>14, StepInduction
  <2> QED BY <1>2, <2>1
<1>16. run[N] \in T /\ Gone(N)
  BY <1>15 DEF S
<1>17. Cleaned(t, run[N])
  BY <1>16 DEF T
<1>18. \A x \in ToSet(L) : x \notin run[N].staken \/ run[N].si.idx_lo = Word - 1
  BY <1>2, <1>16
<1> QED BY <1>1, <1>17, <1>18 DEF L

(* The streams that waited come to the main list, where there is room for all
   of them. *)
LEMMA MoveWaitingGood ==
  ASSUME NEW t, Good(t),
         \A x \in ToSet(t.clist) : x \notin t.staken \/ t.si.idx_lo = Word - 1
  PROVE  Good(MoveWaiting(t)) /\ Only(t, MoveWaiting(t), {"clist", "cwait"})
<1> DEFINE L == t.cwait
           N == Len(L)
           T == Seq(StreamSlots)
           Body(f) == [i \in 0 .. N |-> IF i = 0 THEN <<>> ELSE LIST_ADD(f[i - 1], ListMax, L[i])]
           run == CHOOSE f : f = Body(f)
           step == [x \in (1 .. N) \X T |-> LIST_ADD(x[2], ListMax, L[x[1]])]
<1>0. L \in Seq(StreamSlots) /\ t \in Tables /\ Sizes(t)
  BY TableFacts DEF Good, Sound
<1>1. MoveWaiting(t) = [t EXCEPT !.clist = run[N], !.cwait = <<>>]
  BY DEF MoveWaiting
<1>2. /\ N \in Nat /\ (\A i \in 1 .. N : L[i] \in StreamSlots)
      /\ ToSet(L) = {L[i] : i \in 1 .. N} /\ N <= ListMax /\ ListMax \in Nat
  <2>1. N <= WaitMax /\ WaitMax \in Nat /\ WaitMax <= ListMax /\ ListMax \in Nat
    BY <1>0, ConstantFacts DEF Sizes
  <2> HIDE DEF L
  <2> QED BY <1>0, <2>1 DEF ToSet
<1>3. <<>> \in T
  OBVIOUS
<1>4. ASSUME NEW i \in 1 .. N, NEW u \in T
      PROVE  LIST_ADD(u, ListMax, L[i]) \in T
  <2>1. L[i] \in StreamSlots
    BY <1>2
  <2> QED BY <2>1 DEF LIST_ADD
<1>5. step \in [(1 .. N) \X T -> T]
  <2> HIDE DEF T, N, L
  <2>1. ASSUME NEW x \in (1 .. N) \X T PROVE LIST_ADD(x[2], ListMax, L[x[1]]) \in T
    <3>1. x[1] \in 1 .. N /\ x[2] \in T
      OBVIOUS
    <3> QED BY <1>4, <3>1
  <2> QED BY <2>1
<1> HIDE DEF T, N, L
<1>6. \A i \in 1 .. N, u \in T : step[<<i, u>>] = LIST_ADD(u, ListMax, L[i])
  OBVIOUS
<1> HIDE DEF step
<1>7. PICK g \in [0 .. N -> T] : g[0] = <<>> /\ \A i \in 1 .. N : g[i] = step[<<i, g[i - 1]>>]
  <2>1. LoopRuns(N, T, <<>>, step) # {}
    BY <1>2, <1>3, <1>5, LoopRunExists
  <2> QED BY <2>1 DEF LoopRuns
<1>8. \A i \in 1 .. N : g[i] = LIST_ADD(g[i - 1], ListMax, L[i])
  <2> TAKE i \in 1 .. N
  <2>1. g[i - 1] \in T
    BY <1>2
  <2> QED BY <1>6, <1>7, <2>1
<1>9. g = Body(g)
  <2>1. \A i \in 0 .. N : g[i] = Body(g)[i]
    BY <1>2, <1>7, <1>8
  <2> QED BY <2>1
<1>10. run = Body(run)
  BY <1>9, Zenon
<1>11. run[0] = <<>>
  <2>1. 0 \in 0 .. N
    BY <1>2
  <2>2. Body(run)[0] = <<>>
    BY <2>1
  <2> QED BY <1>10, <2>2, Zenon
<1>12. \A i \in 1 .. N : run[i] = LIST_ADD(run[i - 1], ListMax, L[i])
  <2> TAKE i \in 1 .. N
  <2>1. i \in 0 .. N /\ i # 0
    BY <1>2
  <2>2. Body(run)[i] = LIST_ADD(run[i - 1], ListMax, L[i])
    BY <2>1
  <2> QED BY <1>10, <2>2, Zenon
<1> HIDE DEF run
<1> DEFINE Moved(i) == Len(run[i]) = i /\ \A j \in 1 .. i : L[j] \in ToSet(run[i])
           S == {i \in 0 .. N : run[i] \in T /\ Moved(i)}
<1>13. 0 \in S
  BY <1>2, <1>3, <1>11
<1>14. ASSUME NEW i \in 1 .. N, i - 1 \in S PROVE i \in S
  <2>1. run[i - 1] \in T /\ Moved(i - 1)
    BY <1>14
  <2>2. PICK k : k = run[i - 1]
    OBVIOUS
  <2>3. k \in Seq(StreamSlots) /\ Len(k) = i - 1 /\ L[i] \in StreamSlots
    BY <1>2, <2>1, <2>2 DEF T
  <2>4. run[i] = Append(k, L[i])
    <3>1. ~(Len(k) >= ListMax)
      BY <1>2, <2>3
    <3> QED BY <1>12, <2>2, <3>1 DEF LIST_ADD
  <2>5. PICK m : m = Append(k, L[i])
    OBVIOUS
  <2>6. /\ m \in Seq(StreamSlots) /\ Len(m) = i /\ m[i] = L[i]
        /\ \A j \in 1 .. i - 1 : m[j] = k[j]
    BY <2>3, <2>5
  <2>7. DOMAIN m = 1 .. i /\ DOMAIN k = 1 .. i - 1
    BY <2>3, <2>6
  <2>8. ASSUME NEW j \in 1 .. i PROVE L[j] \in ToSet(m)
    <3>1. CASE j = i
      BY <2>6, <2>7, <3>1 DEF ToSet
    <3>2. CASE j # i
      <4>1. j \in 1 .. i - 1
        BY <1>2, <3>2
      <4>2. L[j] \in ToSet(k)
        BY <2>1, <2>2, <4>1
      <4>3. PICK n \in 1 .. i - 1 : L[j] = k[n]
        BY <2>7, <4>2 DEF ToSet
      <4>4. n \in 1 .. i /\ m[n] = L[j]
        BY <1>2, <2>6, <4>3
      <4> QED BY <2>7, <4>4 DEF ToSet
    <3> QED BY <3>1, <3>2
  <2>9. i \in 0 .. N /\ run[i] = m
    BY <1>2, <2>4, <2>5
  <2> QED BY <2>6, <2>8, <2>9 DEF T
<1> HIDE DEF S
<1>15. N \in S
  <2>1. 0 .. N \subseteq S
    BY <1>2, <1>13, <1>14, StepInduction
  <2> QED BY <1>2, <2>1
<1>16. PICK l \in Seq(StreamSlots) : l = run[N] /\ Len(l) = N /\ \A j \in 1 .. N : L[j] \in ToSet(l)
  BY <1>15 DEF S, T
<1>17. ToSet(L) \subseteq ToSet(l)
  BY <1>2, <1>16
<1>18. PICK u : u = [t EXCEPT !.clist = l, !.cwait = <<>>]
  OBVIOUS
<1>19. u \in Tables /\ Only(t, u, {"clist", "cwait"}) /\ u.clist = l /\ u.cwait = <<>>
  <2>1. PICK e \in Seq(StreamSlots) : e = <<>>
    BY <1>3 DEF T
  <2>2. u = [t EXCEPT !.clist = l, !.cwait = e]
    BY <1>18, <2>1
  <2>3. u \in Tables /\ Only(t, u, {"clist", "cwait"}) /\ u.clist = l /\ u.cwait = e
    BY <1>0, <2>2 DEF Tables, Only, Fields
  <2> QED BY <2>1, <2>3
<1>20. u.ss = t.ss /\ u.si = t.si /\ u.staken = t.staken /\ u.fault = t.fault /\ u.addr = t.addr
  BY <1>19 DEF Only, Fields
<1>21. Sizes(u)
  <2>1. Len(u.cwait) = 0 /\ WaitMax \in Nat
    BY <1>19, ConstantFacts
  <2> QED BY <1>2, <1>16, <1>19, <2>1 DEF Sizes
<1>22. Queues(u)
  <2>1. SUFFICES ASSUME u.fault = "none", u.si.idx_lo # Word - 1, NEW x \in StreamSlots,
                        Ended(u, x)
                 PROVE  x \in Listed(u)
    BY DEF Queues
  <2>2. Ended(t, x)
    BY <1>20, <2>1 DEF Ended
  <2>3. x \in Listed(t)
    BY <1>20, <2>1, <2>2 DEF Good, Queues
  <2>4. x \notin ToSet(t.clist)
    BY <1>20, <2>1, <2>2 DEF Ended
  <2>5. x \in ToSet(L)
    BY <2>3, <2>4 DEF Listed, L
  <2> QED BY <1>17, <1>19, <2>5 DEF Listed
<1>23. Only(t, u, Slight)
  BY <1>19 DEF Only, Slight
<1>24. Good(u)
  BY <1>19, <1>20, <1>21, <1>22, <1>23, SlightGood
<1>25. MoveWaiting(t) = u
  BY <1>1, <1>16, <1>18
<1> QED BY <1>19, <1>24, <1>25

(* What the scan for expired streams makes of the tables t, in u. *)
Scanned(t, u) == Good(u) /\ Only(t, u, {"clist", "cwait", "fault"})

(* One round of the scan. *)
LEMMA VisitStreamGood ==
  ASSUME NEW t, Good(t), NEW s \in Nat
  PROVE  Scanned(t, VisitStream(t, s))
<1>0. t \in Tables /\ Sound(t) /\ Sizes(t) /\ Queues(t)
  BY DEF Good, Sound
<1>1. CASE t.fault # "none"
  <2>1. VisitStream(t, s) = t
    BY <1>1 DEF VisitStream
  <2> QED BY <2>1 DEF Scanned, Only
<1>2. CASE t.fault = "none" /\ s >= NumStreams
  <2>1. PICK f \in (Aborts \cup {"assert_get"}) \ {"none"} : f = "assert_get"
    OBVIOUS
  <2>2. VisitStream(t, s) = [t EXCEPT !.fault = f]
    BY <1>2, <2>1 DEF VisitStream
  <2>3. PICK u : u = [t EXCEPT !.fault = f]
    OBVIOUS
  <2>4. Good(u) /\ Only(t, u, {"fault"})
    BY <1>0, <2>3, FaultGood
  <2>5. Only(t, u, {"clist", "cwait", "fault"})
    BY <2>4 DEF Only
  <2> QED BY <2>2, <2>3, <2>4, <2>5 DEF Scanned
<1>3. CASE t.fault = "none" /\ ~(s >= NumStreams)
  <2>1. s \in StreamSlots
    BY <1>3, ConstantFacts DEF StreamSlots
  <2>2. CASE s \in t.staken /\ IsExpired(t.ss[s].age)
    <3>1. PICK u : u = add_stream_to_cleanup_list(t, s)
      OBVIOUS
    <3>2. VisitStream(t, s) = u
      BY <1>3, <2>2, <3>1 DEF VisitStream
    <3>3. /\ u \in Tables /\ Only(t, u, {"clist", "cwait"}) /\ Sizes(u)
          /\ Listed(t) \subseteq Listed(u)
      BY <1>0, <2>1, <3>1, QueueStep
    <3>4. /\ u.si = t.si /\ u.staken = t.staken /\ u.ss = t.ss /\ u.fault = t.fault
          /\ u.addr = t.addr
      BY <3>3 DEF Only, Fields
    <3>5. Queues(u)
      BY <1>0, <3>3, <3>4, QueuesSame DEF Ended
    <3>6. Only(t, u, Slight) /\ Only(t, u, {"clist", "cwait", "fault"})
      BY <3>3 DEF Only, Slight
    <3>7. Good(u)
      BY <3>3, <3>4, <3>5, <3>6, SlightGood
    <3> QED BY <3>2, <3>6, <3>7 DEF Scanned
  <2>3. CASE ~(s \in t.staken /\ IsExpired(t.ss[s].age))
    <3>1. VisitStream(t, s) = t
      BY <1>3, <2>3 DEF VisitStream
    <3> QED BY <3>1 DEF Scanned, Only
  <2> QED BY <2>2, <2>3
<1> QED BY <1>1, <1>2, <1>3

(* The scan for expired streams puts streams on the lists, or ends the process
   at an entry out of range. *)
LEMMA FindExpiredGood ==
  ASSUME NEW t, Good(t)
  PROVE  Scanned(t, find_expired_streams(t))
<1> DEFINE N == Cardinality(Window(t.si))
           T == {u \in Tables : Scanned(t, u)}
           slot(k) == U32(t.si.idx_lo + k)
           Body(f) == [k \in 0 .. N |-> IF k = 0 THEN t ELSE VisitStream(f[k - 1], slot(k))]
           run == CHOOSE f : f = Body(f)
           step == [x \in (1 .. N) \X T |-> VisitStream(x[2], slot(x[1]))]
<1>0. t \in Tables /\ t.si \in Infos /\ Framed(Streams, t.si, t.staken)
  BY TableFacts DEF Good, Sound
<1>1. find_expired_streams(t) = run[N]
  BY DEF find_expired_streams
<1>2. N \in Nat /\ \A k \in 1 .. N : slot(k) \in Nat
  <2>1. IsFiniteSet(Window(t.si))
    BY <1>0, ArrayFacts, WindowSize DEF Framed
  <2>2. N \in Nat
    BY <2>1, FS_CardinalityType
  <2>3. ASSUME NEW k \in 1 .. N PROVE slot(k) \in Nat
    <3> HIDE DEF N
    <3>1. t.si.idx_lo + k \in Int
      BY <1>0, <2>2, WordAssumption DEF Infos
    <3>2. slot(k) \in 0 .. Word - 1
      BY <3>1, U32Range
    <3> QED BY <3>2, WordAssumption
  <2> QED BY <2>2, <2>3
<1>3. t \in T
  BY <1>0 DEF Scanned, Only
<1> HIDE DEF N, slot
<1>4. ASSUME NEW k \in 1 .. N, NEW u \in T PROVE VisitStream(u, slot(k)) \in T
  <2>1. Good(u) /\ Scanned(t, u)
    BY DEF Scanned
  <2>2. PICK z : z = VisitStream(u, slot(k))
    OBVIOUS
  <2>3. Scanned(u, z)
    BY <1>2, <2>1, <2>2, VisitStreamGood
  <2>4. Scanned(t, z) /\ z \in Tables
    BY <2>1, <2>3 DEF Scanned, Only, Good, Sound
  <2> QED BY <2>2, <2>4
<1> HIDE DEF T
<1>5. step \in [(1 .. N) \X T -> T]
  <2>1. ASSUME NEW x \in (1 .. N) \X T PROVE VisitStream(x[2], slot(x[1])) \in T
    <3>1. x[1] \in 1 .. N /\ x[2] \in T
      OBVIOUS
    <3> QED BY <1>4, <3>1
  <2> QED BY <2>1
<1>6. \A k \in 1 .. N, u \in T : step[<<k, u>>] = VisitStream(u, slot(k))
  OBVIOUS
<1> HIDE DEF step
<1>7. PICK g \in [0 .. N -> T] : g[0] = t /\ \A k \in 1 .. N : g[k] = step[<<k, g[k - 1]>>]
  <2>1. LoopRuns(N, T, t, step) # {}
    BY <1>2, <1>3, <1>5, LoopRunExists
  <2> QED BY <2>1 DEF LoopRuns
<1>8. \A k \in 1 .. N : g[k] = VisitStream(g[k - 1], slot(k))
  <2> TAKE k \in 1 .. N
  <2>1. g[k - 1] \in T
    BY <1>2
  <2> QED BY <1>6, <1>7, <2>1
<1>9. g = Body(g)
  <2>1. \A k \in 0 .. N : g[k] = Body(g)[k]
    BY <1>2, <1>7, <1>8
  <2> QED BY <2>1
<1>10. run = Body(run)
  BY <1>9, Zenon
<1>11. run[0] = t
  <2>1. 0 \in 0 .. N
    BY <1>2
  <2>2. Body(run)[0] = t
    BY <2>1
  <2> QED BY <1>10, <2>2, Zenon
<1>12. \A k \in 1 .. N : run[k] = VisitStream(run[k - 1], slot(k))
  <2> TAKE k \in 1 .. N
  <2>1. k \in 0 .. N /\ k # 0
    BY <1>2
  <2>2. Body(run)[k] = VisitStream(run[k - 1], slot(k))
    BY <2>1
  <2> QED BY <1>10, <2>2, Zenon
<1> HIDE DEF run
<1> DEFINE S == {k \in 0 .. N : run[k] \in T}
<1>13. 0 \in S
  BY <1>2, <1>3, <1>11
<1>14. ASSUME NEW k \in 1 .. N, k - 1 \in S PROVE k \in S
  <2>1. run[k - 1] \in T /\ k \in 0 .. N
    BY <1>2, <1>14
  <2>2. run[k] \in T
    BY <1>4, <1>12, <2>1
  <2> QED BY <2>1, <2>2
<1> HIDE DEF S
<1>15. N \in S
  <2>1. 0 .. N \subseteq S
    BY <1>2, <1>13, <1>14, StepInduction
  <2> QED BY <1>2, <2>1
<1>16. Scanned(t, run[N])
  BY <1>15 DEF S, T
<1> QED BY <1>1, <1>16

PassFields == CleanFields \cup {"clist", "cwait", "fault"}

(* A pass of cleanup_expired_streams. *)
LEMMA CleanupGood ==
  ASSUME NEW t, Good(t), NEW cur \in Keys
  PROVE  LET u == OncePerSecond(t, cur) IN Good(u) /\ Only(t, u, PassFields)
<1>1. CASE last = skew \/ BeforeStat(sec) \/ t.clist = <<>>
  <2>1. OncePerSecond(t, cur) = t
    BY <1>1 DEF OncePerSecond, cleanup_expired_streams
  <2> QED BY <2>1 DEF Only
<1>2. CASE ~(last = skew \/ BeforeStat(sec) \/ t.clist = <<>>)
  <2>1. PICK v : v = find_expired_streams(t)
    OBVIOUS
  <2>2. Good(v) /\ Only(t, v, {"clist", "cwait", "fault"})
    BY <2>1, FindExpiredGood DEF Scanned
  <2>3. OncePerSecond(t, cur) = CleanLists(v, cur)
    BY <1>2, <2>1 DEF OncePerSecond, cleanup_expired_streams
  <2>4. CASE v.fault # "none"
    <3>1. CleanLists(v, cur) = v
      BY <2>4 DEF CleanLists
    <3>2. Only(t, v, PassFields)
      BY <2>2 DEF Only, PassFields
    <3> QED BY <2>2, <2>3, <3>1, <3>2
  <2>5. CASE v.fault = "none"
    <3>1. PICK w : w = CleanAll(v, cur)
      OBVIOUS
    <3>2. /\ Cleaned(v, w)
          /\ \A x \in ToSet(v.clist) : x \notin w.staken \/ w.si.idx_lo = Word - 1
      BY <2>2, <2>5, <3>1, CleanAllGood
    <3>3. Good(w) /\ Only(v, w, CleanFields) /\ w.clist = v.clist
      BY <3>2 DEF Cleaned, Only, Fields, CleanFields
    <3>4. PICK u : u = MoveWaiting(w)
      OBVIOUS
    <3>5. Good(u) /\ Only(w, u, {"clist", "cwait"})
      BY <3>2, <3>3, <3>4, MoveWaitingGood
    <3>6. CleanLists(v, cur) = u
      BY <2>5, <3>1, <3>4 DEF CleanLists
    <3>7. Only(t, u, PassFields)
      BY <2>2, <3>3, <3>5 DEF Only, PassFields
    <3> QED BY <2>3, <3>5, <3>6, <3>7
  <2> QED BY <2>4, <2>5
<1> QED BY <1>1, <1>2

-----------------------------------------------------------------------------
(***************************************************************************)
(* The handler and the clock.                                              *)
(***************************************************************************)
(* The rest of on_packet, once the stream is known. *)
LEMMA OnStreamGood ==
  ASSUME NEW t, Good(t), Balanced(t, 1), NEW s \in StreamSlots, NEW pkt, NEW key \in Keys,
         skew \in 0 .. MaxBack
  PROVE  LET u == OnStream(t, s, pkt, key) IN Good(u) /\ Balanced(u, 0)
<1>1. PICK a : a = [t EXCEPT !.ss[s].age = skew]
  OBVIOUS
<1>2. Good(a) /\ Only(t, a, {"ss"})
  BY <1>1, TouchGood
<1>3. PICK b : b = MarkEnded(a, s, pkt)
  OBVIOUS
<1>4. Good(b) /\ Only(a, b, {"ss", "clist", "cwait"})
  BY <1>2, <1>3, MarkEndedGood
<1>5. PICK c : c = inc_stream_counters(b, s)
  OBVIOUS
<1>6. Good(c) /\ Only(b, c, {"ss", "addr"})
  BY <1>4, <1>5, CountersGood
<1>7. PICK d : d = CountPacket(c, s)
  OBVIOUS
<1>8. Only(t, c, {"ss", "clist", "cwait", "addr"})
  BY <1>2, <1>4, <1>6 DEF Only
<1>9. Balanced(c, 1)
  BY <1>8, BalancedSame
<1>10. Good(d) /\ Balanced(d, 0)
  BY <1>6, <1>7, <1>9, CountStep
<1>11. PICK u : u = OncePerSecond(d, key)
  OBVIOUS
<1>12. Good(u) /\ Only(d, u, PassFields)
  BY <1>10, <1>11, CleanupGood
<1>13. Balanced(u, 0)
  BY <1>10, <1>12, BalancedSame DEF PassFields, CleanFields
<1>14. OnStream(t, s, pkt, key) = u
  BY <1>1, <1>3, <1>5, <1>7, <1>11 DEF OnStream
<1> QED BY <1>12, <1>13, <1>14

(* What holds of the tables between packets. *)
Kept(t) == Good(t) /\ (t.fault = "none" => Balanced(t, 0))

(* A packet handled, to the end or not. *)
LEMMA HandledGood ==
  ASSUME NEW t, Kept(t), t.fault = "none", NEW pkt \in Packets, skew \in 0 .. MaxBack
  PROVE  Kept(Handled(t, pkt).tab) /\ Handled(t, pkt).done \in BOOLEAN
<1>1. PICK key \in Keys : key = pkt_init_key(pkt).key
  BY KeyFacts
<1>2. Hash(key) \in Buckets
  BY KeyOfKeys
<1>3. PICK g : g = shm_inc_global(t)
  OBVIOUS
<1>4. Good(g) /\ Only(t, g, {"flow"}) /\ Balanced(g, 1)
  BY <1>3, GlobalStep DEF Kept
<1>5. g.fault = "none"
  BY <1>4 DEF Only, Fields
<1>6. PICK v : v = FindStream(g, key)
  OBVIOUS
<1>7. /\ Good(v)
      /\ v.fault = "none" => Balanced(v, IF v.ht_streams[Hash(key)] = NoEntry THEN 0 ELSE 1)
  BY <1>1, <1>4, <1>5, <1>6, FindStreamGood
<1>8. Handled(t, pkt) = Found(v, pkt, key)
  BY <1>1, <1>3, <1>6 DEF Handled
<1>9. CASE v.fault # "none" \/ v.ht_streams[Hash(key)] = NoEntry
  <2>1. Found(v, pkt, key) = [tab |-> v, done |-> FALSE]
    BY <1>9 DEF Found
  <2>2. Kept(v)
    BY <1>7, <1>9 DEF Kept
  <2> QED BY <1>8, <2>1, <2>2
<1>10. CASE ~(v.fault # "none" \/ v.ht_streams[Hash(key)] = NoEntry)
  <2>1. PICK s \in StreamSlots : s = v.ht_streams[Hash(key)]
    <3>1. v.ht_streams \in [Buckets -> StreamSlots \cup {NoEntry}]
      BY <1>7, TableFacts DEF Good, Sound
    <3> QED BY <1>2, <1>10, <3>1
  <2>2. Balanced(v, 1)
    BY <1>7, <1>10
  <2>3. PICK u : u = OnStream(v, s, pkt, key)
    OBVIOUS
  <2>4. Good(u) /\ Balanced(u, 0)
    BY <1>7, <2>2, <2>3, OnStreamGood
  <2>5. Found(v, pkt, key) = [tab |-> u, done |-> TRUE]
    BY <1>10, <2>1, <2>3 DEF Found
  <2> QED BY <1>8, <2>4, <2>5 DEF Kept
<1> QED BY <1>9, <1>10

(* Counting on, up to a limit. *)
LEMMA CappedNext ==
  ASSUME NEW N \in Nat, NEW n \in 0 .. N
  PROVE  Min({n + 1, N}) \in 0 .. N
<1>1. {n + 1, N} \subseteq Nat /\ {n + 1, N} # {}
  OBVIOUS
<1>2. Min({n + 1, N}) \in {n + 1, N} /\ Min({n + 1, N}) <= N
  BY <1>1, MinNat
<1>3. PICK m : m = Min({n + 1, N})
  OBVIOUS
<1>4. m \in {n + 1, N} /\ m <= N
  BY <1>2, <1>3
<1>5. m \in 0 .. N
  BY <1>4
<1> QED BY <1>3, <1>5

(* Streams grow older. *)
LEMMA OlderGood ==
  ASSUME NEW t, Kept(t)
  PROVE  Kept(Older(t))
<1>0. t \in Tables /\ t.ss \in [StreamSlots -> StreamInfos] /\ Good(t)
  BY TableFacts DEF Kept, Good, Sound
<1>1. \A n \in 0 .. Expired + 1 + MaxBack :
        Min({n + 1, Expired + 1 + MaxBack}) \in 0 .. Expired + 1 + MaxBack
  BY ConstantFacts, CappedNext
<1> DEFINE aged(s) == IF s \in t.staken THEN [t.ss[s] EXCEPT !.age = Min({@ + 1, Expired + 1 + MaxBack})]
                      ELSE t.ss[s]
<1>2. ASSUME NEW s \in StreamSlots
      PROVE  /\ aged(s) \in StreamInfos
             /\ aged(s).key = t.ss[s].key /\ aged(s).type = t.ss[s].type
             /\ aged(s).cleanup = t.ss[s].cleanup /\ aged(s).dropped = t.ss[s].dropped
  <2>1. t.ss[s] \in StreamInfos
    BY <1>0
  <2>2. PICK n \in 0 .. Expired + 1 + MaxBack : n = Min({t.ss[s].age + 1, Expired + 1 + MaxBack})
    BY <1>1, <2>1 DEF StreamInfos
  <2>3. aged(s) = IF s \in t.staken THEN [t.ss[s] EXCEPT !.age = n] ELSE t.ss[s]
    BY <2>2
  <2> QED BY <2>1, <2>3 DEF StreamInfos
<1> HIDE DEF aged
<1>3. PICK z \in [StreamSlots -> StreamInfos] : z = [s \in StreamSlots |-> aged(s)]
  BY <1>2
<1>4. \A s \in StreamSlots : z[s] = aged(s)
  BY <1>3
<1>5. PICK u : u = Older(t) /\ u = [t EXCEPT !.ss = z]
  BY <1>3 DEF aged, Older
<1>6. u \in Tables /\ Only(t, u, {"ss"}) /\ u.ss = z
  BY <1>0, <1>5 DEF Tables, Only, Fields
<1>7. /\ u.si = t.si /\ u.staken = t.staken /\ u.clist = t.clist /\ u.cwait = t.cwait
      /\ u.fault = t.fault /\ u.addr = t.addr
  BY <1>6 DEF Only, Fields
<1>8. \A x \in StreamSlots : /\ u.ss[x].key = t.ss[x].key /\ u.ss[x].type = t.ss[x].type
                             /\ u.ss[x].cleanup = t.ss[x].cleanup
                             /\ u.ss[x].dropped = t.ss[x].dropped
  BY <1>2, <1>4, <1>6
<1>9. Sizes(u) /\ Queues(u)
  <2>1. Listed(u) = Listed(t) /\ \A x \in StreamSlots : Ended(u, x) => Ended(t, x)
    BY <1>7, <1>8 DEF Listed, Ended
  <2>2. Queues(t) /\ Sizes(t)
    BY <1>0 DEF Good, Sound
  <2> QED BY <1>7, <2>1, <2>2, QueuesSame DEF Sizes
<1>10. Only(t, u, Slight)
  BY <1>6 DEF Only, Slight
<1>11. Good(u)
  BY <1>0, <1>6, <1>7, <1>8, <1>9, <1>10, SlightGood
<1>12. Balanced(t, 0) => Balanced(u, 0)
  BY <1>6, BalancedSame
<1> QED BY <1>5, <1>7, <1>11, <1>12 DEF Kept

(* An array of which no entry is in use yet. *)
LEMMA InitArray ==
  ASSUME NEW g, IsGeometry(g)
  PROVE  /\ Framed(g, mga_init(g), {}) /\ mga_init(g) \in Infos
         /\ mga_init(g).num_entries = 0 /\ mga_init(g).idx_lo = Mid(g)
         /\ mga_init(g).idx_hi = Mid(g) + 1
<1>1. /\ Mid(g) \in 0 .. g.raw_len - 1 /\ g.raw_len \in Nat /\ 2 * g.raw_len + 2 < Word
      /\ Word \in Nat
  BY GeometryFacts, WordAssumption
<1>2. Mid(g) + 1 \in 0 .. Word - 1
  BY <1>1
<1>3. U32(Mid(g) + 1) = Mid(g) + 1
  BY <1>2, U32Small
<1>4. PICK q : q = mga_init(g)
  OBVIOUS
<1>5. q = [num_entries |-> 0, idx_lo |-> Mid(g), idx_hi |-> Mid(g) + 1]
  BY <1>3, <1>4 DEF mga_init
<1>6. q \in Infos /\ q.num_entries = 0 /\ q.idx_lo = Mid(g) /\ q.idx_hi = Mid(g) + 1
  BY <1>1, <1>2, <1>5 DEF Infos
<1>7. Framed(g, q, {})
  BY <1>1, <1>6 DEF Framed, Bracketed
<1> QED BY <1>4, <1>6, <1>7

(* shm_data_init. *)
LEMMA InitGood == Kept(shm_data_init)
<1>1. PICK st : st = NewStream(NoKey, 0, 0, 0)
  OBVIOUS
<1>2. st \in StreamInfos /\ ByOwnAddresses(st)
  <2>0. 0 \in AddrSlots /\ 0 \in 0 .. Expired + 1 + MaxBack /\ NoKey \in Keys \cup {NoKey}
    BY ConstantFacts DEF AddrSlots
  <2>1. st = [key |-> NoKey, idx_left |-> 0, idx_right |-> 0, type |-> 0,
              cleanup |-> FALSE, dropped |-> FALSE, packets |-> 0, age |-> 0]
    BY <1>1 DEF NewStream
  <2>2. st \in StreamInfos /\ st.key = NoKey /\ st.type = 0
    BY <2>0, <2>1 DEF StreamInfos
  <2>3. NoKey.left = 0 /\ NoKey.right = 0 /\ NoKey.rport = 0
    BY DEF NoKey
  <2>4. 0 \notin LanIps /\ 0 \notin WebPorts
    BY CaptureAssumption
  <2> QED BY <2>2, <2>3, <2>4 DEF ByOwnAddresses, FLOW_TYPE_INTERNAL
<1>3. PICK e \in AddrInfos : e = [addr_offset |-> 0, internal |-> FALSE, nstreams_active |-> 0]
  <2>1. 0 \in 0 .. ActWord - 1 /\ 0 \in Ips \cup {0}
    BY ConstantFacts
  <2> QED BY <2>1 DEF AddrInfos
<1>4. PICK si \in Infos, lan \in Infos, wan \in Infos :
        si = mga_init(Streams) /\ lan = mga_init(Lan) /\ wan = mga_init(Wan)
  BY ArrayFacts, InitArray
<1>5. /\ Framed(Streams, si, {})
      /\ Framed(Lan, lan, {}) /\ lan.num_entries = 0 /\ lan.idx_hi = Mid(Lan) + 1
      /\ Framed(Wan, wan, {}) /\ wan.num_entries = 0 /\ wan.idx_lo = Mid(Wan)
  BY <1>4, ArrayFacts, InitArray
<1>6. PICK ss \in [StreamSlots -> StreamInfos] : ss = [s \in StreamSlots |-> st]
  BY <1>2
<1>7. PICK addr \in [AddrSlots -> AddrInfos] : addr = [a \in AddrSlots |-> e]
  OBVIOUS
<1>8. PICK hs \in [Buckets -> StreamSlots \cup {NoEntry}] : hs = [b \in Buckets |-> NoEntry]
  OBVIOUS
<1>9. PICK ha \in [Ips -> AddrSlots \cup {NoEntry}] : ha = [ip \in Ips |-> NoEntry]
  OBVIOUS
<1>10. 0 \in Counters
  BY ConstantFacts DEF Counters
<1>11. PICK flow \in [0 .. 5 -> Counters] : flow = [f \in 0 .. 5 |-> 0]
  BY <1>10
<1>12. PICK protos \in [Protos -> Counters] : protos = [p \in Protos |-> 0]
  BY <1>10
<1>13. PICK none \in Seq(StreamSlots) : none = <<>>
  <2>1. <<>> \in Seq(StreamSlots)
    OBVIOUS
  <2> QED BY <2>1
<1>14. PICK t : t =
        [si |-> si, staken |-> {}, ss |-> ss, lan |-> lan, wan |-> wan, ataken |-> {},
         addr |-> addr, ht_streams |-> hs, ht_v4addrs |-> ha, clist |-> none, cwait |-> none,
         flow |-> flow, protos |-> protos, refused |-> 0, strayed |-> FALSE, fault |-> "none"]
  OBVIOUS
<1>15. shm_data_init = t
  BY <1>1, <1>3, <1>4, <1>6, <1>7, <1>8, <1>9, <1>11, <1>12, <1>13, <1>14
  DEF shm_data_init, Protos
<1>16. /\ t.si = si /\ t.staken = {} /\ t.ss = ss /\ t.lan = lan /\ t.wan = wan
       /\ t.ataken = {} /\ t.ht_v4addrs = ha /\ t.clist = none /\ t.cwait = none
       /\ t.flow = flow /\ t.refused = 0 /\ t.strayed = FALSE /\ t.fault = "none"
  BY <1>14
<1>17. t \in Tables
  <2>1. "none" \in Aborts \cup {"null_addr", "assert_get"}
    BY DEF Aborts
  <2> QED BY <1>10, <1>14, <2>1 DEF Tables
<1>18. Sizes(t)
  <2>1. Len(none) = 0 /\ ListMax \in Nat /\ WaitMax \in Nat
    BY <1>13, ConstantFacts
  <2> QED BY <1>16, <2>1 DEF Sizes
<1>19. Parted(t)
  <2>1. LanTaken(t) = {} /\ WanTaken(t) = {}
    BY <1>16 DEF LanTaken, WanTaken
  <2>2. Cardinality({}) = 0
    BY FS_EmptySet
  <2>3. Covered(t)
    BY <1>5, <1>16, <2>1, ArrayFacts, ConstantFacts DEF Covered
  <2>4. Counted(t)
    BY <1>5, <1>16, <2>1, <2>2, ConstantFacts DEF Counted
  <2>5. Placed(t) /\ Full(t)
    BY <1>9, <1>16 DEF Placed, Full
  <2> QED BY <2>3, <2>4, <2>5 DEF Parted
<1>20. Classed(t) /\ Queues(t)
  BY <1>2, <1>6, <1>16 DEF Classed, Queues, Ended
<1>21. Balanced(t, 0)
  <2>1. FlowSum(t) + 0 = 0 /\ t.flow[5] = 0
    BY <1>11, <1>16 DEF FlowSum
  <2>2. CtrWord \in Nat \ {0} /\ 0 = CtrWord * 0 + 0 /\ 0 \in 0 .. CtrWord - 1
    BY ConstantFacts
  <2>3. 0 % CtrWord = 0
    BY <2>2, ModUnique
  <2> QED BY <2>1, <2>3 DEF Balanced
<1> QED BY <1>5, <1>15, <1>16, <1>17, <1>18, <1>19, <1>20, <1>21 DEF Kept, Good, Sound
-----------------------------------------------------------------------------
(***************************************************************************)
(* The inductive invariant and what follows from it.                       *)
(***************************************************************************)
IInv ==
  /\ Kept(tab) /\ sec \in 0 .. Minute - 1
  /\ skew \in 0 .. MaxBack /\ last \in 0 .. MaxBack + 1

(* Every step keeps the invariant. *)
LEMMA StepInv ==
  ASSUME IInv, [Next]_vars
  PROVE  IInv'
<1>0. \A n \in Int : n % Minute \in 0 .. Minute - 1
  <2>1. \A m \in Nat : m > 0 => \A n \in Int : n % m \in 0 .. m - 1
    BY Z3
  <2> QED BY <2>1, ConstantFacts
<1>1. ASSUME NEW pkt \in Packets, on_packet(pkt) PROVE IInv'
  <2>1. /\ tab.fault = "none" /\ sec' = sec /\ skew' = skew
        /\ tab' = Handled(tab, pkt).tab
        /\ last' = IF Handled(tab, pkt).done THEN skew ELSE last
    BY <1>1 DEF on_packet
  <2>2. Kept(Handled(tab, pkt).tab)
    BY <2>1, HandledGood DEF IInv
  <2>3. Kept(tab)'
    BY <2>1, <2>2
  <2>4. last' \in 0 .. MaxBack + 1
    BY <2>1, ConstantFacts DEF IInv
  <2> QED BY <2>1, <2>3, <2>4 DEF IInv
<1>2. ASSUME Tick, skew = 0 PROVE IInv'
  <2>1. /\ tab' = Older(tab) /\ sec' = (sec + 1) % Minute /\ skew' = skew
        /\ last' = Min({last + 1, MaxBack + 1})
    BY <1>2 DEF Tick
  <2>2. Kept(Older(tab))
    BY OlderGood DEF IInv
  <2>3. Kept(tab)'
    BY <2>1, <2>2
  <2>4. sec' \in 0 .. Minute - 1
    BY <1>0, <2>1 DEF IInv
  <2>5. last' \in 0 .. MaxBack + 1
    <3>1. MaxBack + 1 \in Nat /\ last \in 0 .. MaxBack + 1
      BY ConstantFacts DEF IInv
    <3> QED BY <2>1, <3>1, CappedNext
  <2> QED BY <2>1, <2>3, <2>4, <2>5 DEF IInv
<1>3. ASSUME Tick, skew # 0 PROVE IInv'
  <2>1. tab' = tab /\ sec' = (sec + 1) % Minute /\ skew' = skew - 1 /\ last' = last
    BY <1>3 DEF Tick
  <2>2. sec' \in 0 .. Minute - 1
    BY <1>0, <2>1 DEF IInv
  <2>3. skew' \in 0 .. MaxBack
    BY <1>3, <2>1, ConstantFacts DEF IInv
  <2> QED BY <2>1, <2>2, <2>3 DEF IInv
<1>4. ASSUME StepBack PROVE IInv'
  <2>1. /\ tab' = tab /\ sec' = (sec - 1) % Minute /\ skew' = skew + 1 /\ last' = last
        /\ skew < MaxBack
    BY <1>4 DEF StepBack
  <2>2. sec' \in 0 .. Minute - 1 /\ skew' \in 0 .. MaxBack
    BY <1>0, <2>1, ConstantFacts DEF IInv
  <2> QED BY <2>1, <2>2 DEF IInv
<1>5. CASE UNCHANGED vars
  <2>1. tab' = tab /\ sec' = sec /\ skew' = skew /\ last' = last
    BY <1>5 DEF vars
  <2> QED BY <2>1 DEF IInv
<1> QED BY <1>1, <1>2, <1>3, <1>4, <1>5 DEF Next

(* The invariant holds in every state of the capture. *)
THEOREM Invariance == Spec => []IInv
<1>1. Init => IInv
  BY InitGood, ConstantFacts DEF Init, IInv
<1>2. IInv /\ [Next]_vars => IInv'
  BY StepInv
<1> QED BY <1>1, <1>2, PTL DEF Spec

(* Type correctness: whatever packets come, every entry, index and list of
   the tables stays within its range, and no clean-up list outgrows its array. *)
THEOREM TypeCorrect == Spec => []TypeOK
<1>1. IInv => TypeOK
  <2>1. SUFFICES ASSUME IInv PROVE TypeOK
    OBVIOUS
  <2>2. tab \in Tables /\ Sizes(tab)
    BY <2>1 DEF IInv, Kept, Good, Sound
  <2>3. tab.clist \in Seq(StreamSlots) /\ tab.cwait \in Seq(StreamSlots)
    BY <2>2, TableFacts
  <2>4. \A l \in Seq(StreamSlots) : ToSet(l) \subseteq StreamSlots
    <3> TAKE l \in Seq(StreamSlots)
    <3>1. \A i \in DOMAIN l : l[i] \in StreamSlots
      OBVIOUS
    <3> QED BY <3>1 DEF ToSet
  <2>5. ToSet(tab.clist) \cup ToSet(tab.cwait) \subseteq StreamSlots
    BY <2>3, <2>4
  <2>6. Len(tab.clist) <= ListMax /\ Len(tab.cwait) <= WaitMax
    BY <2>2 DEF Sizes
  <2>7. sec \in 0 .. Minute - 1 /\ skew \in 0 .. MaxBack /\ last \in 0 .. MaxBack + 1
    BY <2>1 DEF IInv
  <2>8. /\ tab.si \in Infos /\ tab.lan \in Infos /\ tab.wan \in Infos
        /\ tab.staken \subseteq StreamSlots /\ tab.ataken \subseteq AddrSlots
        /\ tab.ss \in [StreamSlots -> StreamInfos] /\ tab.addr \in [AddrSlots -> AddrInfos]
        /\ tab.ht_streams \in [Buckets -> StreamSlots \cup {NoEntry}]
        /\ tab.ht_v4addrs \in [Ips -> AddrSlots \cup {NoEntry}] /\ tab.strayed \in BOOLEAN
    BY <2>2, TableFacts
  <2> QED BY <2>5, <2>6, <2>7, <2>8 DEF TypeOK
<1> QED BY <1>1, Invariance, PTL

(* set_stream_flow_flags: a stream is classified by its own two addresses,
   although a look-up in ht_v4addrs may lead to an entry given to another one. *)
THEOREM ClassCorrect == Spec => []ClassifiedByOwnAddresses
<1>1. IInv => ClassifiedByOwnAddresses
  <2>1. SUFFICES ASSUME IInv, ~tab.strayed, NEW s \in tab.staken PROVE ByOwnAddresses(tab.ss[s])
    BY DEF ClassifiedByOwnAddresses, ByOwnAddresses
  <2>2. Classed(tab) /\ tab \in Tables
    BY <2>1 DEF IInv, Kept, Good, Sound
  <2>3. s \in StreamSlots
    BY <2>1, <2>2, TableFacts
  <2> QED BY <2>1, <2>2, <2>3 DEF Classed
<1> QED BY <1>1, Invariance, PTL

(* The place of an entry in use says which kind of address it is for. *)
LEMMA InUseByPlace ==
  ASSUME tab \in Tables, Placed(tab)
  PROVE  AddrsInUse(TRUE) = LanTaken(tab) /\ AddrsInUse(FALSE) = WanTaken(tab)
<1>1. tab.ataken \subseteq 0 .. NumAddrs - 1 /\ tab.addr \in [AddrSlots -> AddrInfos]
  BY TableFacts DEF AddrSlots
<1>2. ASSUME NEW i \in tab.ataken
      PROVE  /\ tab.addr[i].internal = TRUE <=> i \in 0 .. NumLan
             /\ tab.addr[i].internal = FALSE <=> i \in NumLan + 1 .. NumAddrs - 1
  <2>1. tab.addr[i].internal \in BOOLEAN
    BY <1>1, TableFacts DEF AddrInfos
  <2>2. tab.addr[i].internal <=> InLanPart(i)
    BY DEF Placed
  <2>3. i \in 0 .. NumAddrs - 1
    BY <1>1
  <2>4. InLanPart(i) <=> i \in 0 .. NumLan
    BY <2>3, ConstantFacts DEF InLanPart
  <2>5. ~InLanPart(i) <=> i \in NumLan + 1 .. NumAddrs - 1
    BY <2>3, ConstantFacts DEF InLanPart
  <2>6. (tab.addr[i].internal = TRUE <=> InLanPart(i)) /\ (tab.addr[i].internal = FALSE <=> ~InLanPart(i))
    BY <2>1, <2>2, Zenon
  <2> QED BY <2>4, <2>5, <2>6
<1> QED BY <1>2 DEF AddrsInUse, LanTaken, WanTaken

(* shm_stats_print: the two address counts are exact, as long as each address
   array has kept to its part of addrs[]. *)
THEOREM CountsCorrect == Spec => []AddrCountsExact
<1>1. IInv => AddrCountsExact
  <2>1. SUFFICES ASSUME IInv, ~tab.strayed
                 PROVE  /\ tab.lan.num_entries = Cardinality(AddrsInUse(TRUE))
                        /\ tab.wan.num_entries = Cardinality(AddrsInUse(FALSE))
    BY DEF AddrCountsExact
  <2>2. Placed(tab) /\ Counted(tab) /\ tab \in Tables
    BY <2>1 DEF IInv, Kept, Good, Sound, Parted
  <2> QED BY <2>2, InUseByPlace DEF Counted
<1> QED BY <1>1, Invariance, PTL

(* shm_addr_alloc_v4 gives no entry only when the part of addrs[] for that kind
   of address is full of addresses in use. *)
THEOREM FullCorrect == Spec => []NullOnlyWhenFull
<1>1. IInv => NullOnlyWhenFull
  <2>1. SUFFICES ASSUME IInv, tab.fault = "null_addr", ~tab.strayed
                 PROVE  \/ Cardinality(AddrsInUse(TRUE)) = NumLan
                        \/ Cardinality(AddrsInUse(FALSE)) = NumAddrs - NumLan
    BY DEF NullOnlyWhenFull
  <2>2. Placed(tab) /\ Counted(tab) /\ Full(tab) /\ tab \in Tables
    BY <2>1 DEF IInv, Kept, Good, Sound, Parted
  <2> QED BY <2>1, <2>2, InUseByPlace DEF Counted, Full
<1> QED BY <1>1, Invariance, PTL

(* on_packet and flow_stats: every packet counted in TOTAL is counted in one of
   the flow types or was refused a stream entry, whatever the counters' width. *)
THEOREM FlowsCorrect == Spec => []FlowStatsAccounted
<1>1. IInv => FlowStatsAccounted
  <2>1. SUFFICES ASSUME IInv, tab.fault = "none"
                 PROVE  tab.flow[5] = FlowSum(tab) % CtrWord
    BY DEF FlowStatsAccounted, FlowSum, FLOW_TYPE_TOTAL
  <2>2. Balanced(tab, 0) /\ tab \in Tables
    BY <2>1 DEF IInv, Kept, Good, Sound
  <2>3. FlowSum(tab) \in Nat
    BY <2>2, FlowSumNat
  <2>4. FlowSum(tab) + 0 = FlowSum(tab)
    BY <2>3
  <2> QED BY <2>2, <2>4 DEF Balanced
<1> QED BY <1>1, Invariance, PTL

(* cleanup.c: a stream that has ended is on one of the two lists until it is
   released, through every move from one list to the other. *)
THEOREM QueueCorrect == Spec => []EndedIsQueued
<1>1. IInv => EndedIsQueued
  <2>1. SUFFICES ASSUME IInv, FreeWorks, NEW s \in StreamSlots, Queued(s)
                 PROVE  s \in ToSet(tab.clist) \cup ToSet(tab.cwait)
    BY DEF EndedIsQueued
  <2>2. Queues(tab)
    BY <2>1 DEF IInv, Kept, Good
  <2>3. Ended(tab, s)
    BY <2>1 DEF Queued, Ended
  <2> QED BY <2>1, <2>2, <2>3 DEF Queues, FreeWorks, Listed
<1> QED BY <1>1, Invariance, PTL
-----------------------------------------------------------------------------
(***************************************************************************)
(* Sums over finite sets.                                                  *)
(***************************************************************************)
AnyOf(s) == CHOOSE x \in s : TRUE

(* What the fold of SumOver computes for the subsets of S, and one step of it. *)
SumStep(f, S, it) ==
  [s \in SUBSET S |-> IF s = {} THEN 0 ELSE f[AnyOf(s)] + it[s \ {AnyOf(s)}]]

(* One element less. *)
LEMMA Rest ==
  ASSUME NEW s, IsFiniteSet(s), s # {}
  PROVE  /\ AnyOf(s) \in s /\ s \ {AnyOf(s)} \subseteq s /\ IsFiniteSet(s \ {AnyOf(s)})
         /\ Cardinality(s \ {AnyOf(s)}) = Cardinality(s) - 1
<1>1. AnyOf(s) \in s
  BY DEF AnyOf
<1> QED BY <1>1, FS_RemoveElement, FS_Subset

(* The sums of all subsets exist. *)
LEMMA SumsExist ==
  ASSUME NEW S, IsFiniteSet(S), NEW f, \A x \in S : f[x] \in Nat
  PROVE  \E it \in [SUBSET S -> Nat] : it = SumStep(f, S, it)
<1> DEFINE N == Cardinality(S) + 1
           T == [SUBSET S -> Nat]
           base == [s \in SUBSET S |-> 0]
           step == [p \in (1 .. N) \X T |-> SumStep(f, S, p[2])]
<1>0. Cardinality(S) \in Nat /\ N \in Nat
  BY FS_CardinalityType
<1>1. ASSUME NEW it \in T PROVE SumStep(f, S, it) \in T
  <2>1. ASSUME NEW s \in SUBSET S
        PROVE  (IF s = {} THEN 0 ELSE f[AnyOf(s)] + it[s \ {AnyOf(s)}]) \in Nat
    <3>1. CASE s = {}
      BY <3>1
    <3>2. CASE s # {}
      <4>1. AnyOf(s) \in S /\ s \ {AnyOf(s)} \in SUBSET S
        BY <3>2 DEF AnyOf
      <4> QED BY <3>2, <4>1
    <3> QED BY <3>1, <3>2
  <2> QED BY <2>1 DEF SumStep
<1>2. base \in T
  OBVIOUS
<1>3. step \in [(1 .. N) \X T -> T]
  <2>1. ASSUME NEW p \in (1 .. N) \X T PROVE SumStep(f, S, p[2]) \in T
    BY <1>1
  <2> QED BY <2>1
<1>4. ASSUME NEW i \in 1 .. N, NEW it \in T PROVE step[<<i, it>>] = SumStep(f, S, it)
  OBVIOUS
<1> HIDE DEF N, T, base, step
<1>5. PICK r : r \in LoopRuns(N, T, base, step)
  BY <1>0, <1>2, <1>3, LoopRunExists
<1>6. r \in [0 .. N -> T] /\ \A i \in 1 .. N : r[i] = step[<<i, r[i - 1]>>]
  BY <1>5 DEF LoopRuns
<1>7. \A i \in 1 .. N : r[i - 1] \in T /\ r[i] = SumStep(f, S, r[i - 1])
  <2> TAKE i \in 1 .. N
  <2>1. i - 1 \in 0 .. N
    BY <1>0
  <2>2. r[i - 1] \in T
    BY <1>6, <2>1
  <2> QED BY <1>4, <1>6, <2>2
<1> DEFINE Fixed(i) == \A s \in SUBSET S : Cardinality(s) < i => r[i][s] = r[i - 1][s]
           P == {0} \cup {i \in 1 .. N : Fixed(i)}
<1>8. ASSUME NEW i \in 1 .. N, i - 1 \in P PROVE i \in P
  <2>1. SUFFICES ASSUME NEW s \in SUBSET S, Cardinality(s) < i PROVE r[i][s] = r[i - 1][s]
    OBVIOUS
  <2>2. IsFiniteSet(s) /\ Cardinality(s) \in Nat
    BY <2>1, FS_Subset, FS_CardinalityType
  <2>3. r[i][s] = IF s = {} THEN 0 ELSE f[AnyOf(s)] + r[i - 1][s \ {AnyOf(s)}]
    BY <1>7 DEF SumStep
  <2>4. CASE i = 1
    <3>1. s = {}
      BY <2>1, <2>2, <2>4, FS_EmptySet
    <3>2. r[0][s] = 0
      BY <1>5 DEF LoopRuns, base
    <3> QED BY <2>3, <2>4, <3>1, <3>2
  <2>5. CASE i # 1
    <3>1. i - 1 \in 1 .. N /\ Fixed(i - 1)
      BY <1>0, <1>8, <2>5
    <3>2. r[i - 1][s] = IF s = {} THEN 0 ELSE f[AnyOf(s)] + r[i - 1 - 1][s \ {AnyOf(s)}]
      BY <1>7, <3>1 DEF SumStep
    <3>3. CASE s = {}
      BY <2>3, <3>2, <3>3
    <3>4. CASE s # {}
      <4>1. s \ {AnyOf(s)} \in SUBSET S /\ Cardinality(s \ {AnyOf(s)}) = Cardinality(s) - 1
        BY <2>2, <3>4, Rest
      <4>2. Cardinality(s \ {AnyOf(s)}) < i - 1
        BY <1>0, <2>1, <2>2, <4>1
      <4>3. r[i - 1][s \ {AnyOf(s)}] = r[i - 1 - 1][s \ {AnyOf(s)}]
        BY <3>1, <4>1, <4>2
      <4> QED BY <2>3, <3>2, <3>4, <4>3
    <3> QED BY <3>3, <3>4
  <2> QED BY <2>4, <2>5
<1>9. N \in P
  <2>1. 0 \in P
    OBVIOUS
  <2> HIDE DEF P
  <2>2. 0 .. N \subseteq P
    BY <1>0, <1>8, <2>1, StepInduction
  <2> QED BY <1>0, <2>2
<1>10. N \in 1 .. N /\ N # 0
  BY <1>0 DEF N
<1>11. Fixed(N)
  BY <1>9, <1>10
<1>12. r[N] = SumStep(f, S, r[N - 1]) /\ r[N - 1] \in T
  BY <1>7, <1>10
<1>13. r[N] \in T
  BY <1>6, <1>10
<1>14. r[N] = r[N - 1]
  <2>1. ASSUME NEW s \in SUBSET S PROVE r[N][s] = r[N - 1][s]
    <3>1. Cardinality(s) <= Cardinality(S) /\ Cardinality(s) \in Nat
      BY FS_Subset, FS_CardinalityType
    <3>2. Cardinality(s) < N
      BY <1>0, <3>1 DEF N
    <3> QED BY <1>11, <3>2
  <2> HIDE DEF Fixed
  <2> QED BY <1>12, <1>13, <2>1 DEF T
<1> QED BY <1>12, <1>13, <1>14 DEF T

(* Induction along the elements that the fold takes out of a finite set. *)
LEMMA RestInduction ==
  ASSUME NEW S, IsFiniteSet(S), NEW Q, {} \in Q,
         \A s \in SUBSET S : s # {} /\ s \ {AnyOf(s)} \in Q => s \in Q
  PROVE  S \in Q
<1> DEFINE P == {n \in 0 .. Cardinality(S) : \A s \in SUBSET S : Cardinality(s) = n => s \in Q}
<1>0. Cardinality(S) \in Nat
  BY FS_CardinalityType
<1>1. 0 \in P
  <2>1. ASSUME NEW s \in SUBSET S, Cardinality(s) = 0 PROVE s = {}
    BY <2>1, FS_Subset, FS_EmptySet
  <2> QED BY <1>0, <2>1
<1>2. ASSUME NEW i \in 1 .. Cardinality(S), i - 1 \in P PROVE i \in P
  <2>1. SUFFICES ASSUME NEW s \in SUBSET S, Cardinality(s) = i PROVE s \in Q
    BY <1>0
  <2>2. IsFiniteSet(s) /\ s # {}
    BY <1>0, <2>1, FS_Subset, FS_EmptySet
  <2>3. s \ {AnyOf(s)} \in SUBSET S /\ Cardinality(s \ {AnyOf(s)}) = i - 1
    BY <2>1, <2>2, Rest
  <2>4. s \ {AnyOf(s)} \in Q
    BY <1>2, <2>3
  <2> QED BY <2>2, <2>4
<1>3. Cardinality(S) \in P
  <2> HIDE DEF P
  <2>1. 0 .. Cardinality(S) \subseteq P
    BY <1>0, <1>1, <1>2, StepInduction
  <2> QED BY <1>0, <2>1
<1> QED BY <1>3

(* What the fold does with a set and its rest. *)
Adds(f, it, s) == s # {} => it[s] = f[AnyOf(s)] + it[s \ {AnyOf(s)}]

(* SumOver is the last of these sums, each of which is a number. *)
LEMMA SumRun ==
  ASSUME NEW S, IsFiniteSet(S), NEW f, \A x \in S : f[x] \in Nat
  PROVE  /\ SumOver(f, S) \in Nat
         /\ \E it : /\ SumOver(f, S) = it[S] /\ it[{}] = 0
                    /\ \A s \in SUBSET S : Adds(f, it, s) /\ it[s] \in Nat
<1> DEFINE it == CHOOSE it : it = SumStep(f, S, it)
<1>1. it = SumStep(f, S, it)
  BY SumsExist
<1>2. SumOver(f, S) = it[S]
  BY DEF SumOver, FoldFunctionOnSet, MapThenFoldSet, AnyOf, SumStep
<1> HIDE DEF it
<1>3. it[{}] = 0 /\ \A s \in SUBSET S : Adds(f, it, s)
  <2>1. ASSUME NEW s \in SUBSET S
        PROVE  SumStep(f, S, it)[s] = IF s = {} THEN 0 ELSE f[AnyOf(s)] + it[s \ {AnyOf(s)}]
    BY DEF SumStep
  <2> QED BY <1>1, <2>1 DEF Adds
<1>4. ASSUME NEW u \in SUBSET S PROVE it[u] \in Nat
  <2> DEFINE Q == {s \in SUBSET S : it[s] \in Nat}
  <2>1. {} \in Q
    BY <1>3
  <2>2. ASSUME NEW s \in SUBSET u, s # {}, s \ {AnyOf(s)} \in Q PROVE s \in Q
    <3>1. AnyOf(s) \in S /\ s \in SUBSET S
      BY <2>2 DEF AnyOf
    <3>2. it[s] = f[AnyOf(s)] + it[s \ {AnyOf(s)}]
      BY <1>3, <2>2, <3>1 DEF Adds
    <3> QED BY <2>2, <3>1, <3>2
  <2>3. IsFiniteSet(u)
    BY FS_Subset
  <2> HIDE DEF Q
  <2>4. u \in Q
    BY <2>1, <2>2, <2>3, RestInduction
  <2> QED BY <2>4 DEF Q
<1>5. S \in SUBSET S
  OBVIOUS
<1> QED BY <1>2, <1>3, <1>4, <1>5

(* The sum of nothing but zeros. *)
LEMMA SumOfZeros ==
  ASSUME NEW S, IsFiniteSet(S), NEW f, \A x \in S : f[x] = 0
  PROVE  SumOver(f, S) = 0
<1>1. PICK it : /\ SumOver(f, S) = it[S] /\ it[{}] = 0
                /\ \A s \in SUBSET S : Adds(f, it, s) /\ it[s] \in Nat
  BY SumRun
<1> DEFINE Q == {s \in SUBSET S : it[s] = 0}
<1>2. {} \in Q
  BY <1>1
<1>3. ASSUME NEW s \in SUBSET S, s # {}, s \ {AnyOf(s)} \in Q PROVE s \in Q
  <2>1. AnyOf(s) \in S
    BY <1>3 DEF AnyOf
  <2>2. it[s] = f[AnyOf(s)] + it[s \ {AnyOf(s)}]
    BY <1>1, <1>3 DEF Adds
  <2> QED BY <1>3, <2>1, <2>2
<1> HIDE DEF Q
<1>4. S \in Q
  BY <1>2, <1>3, RestInduction
<1> QED BY <1>1, <1>4 DEF Q

(* The remainder of a sum depends on the remainders of its parts. *)
LEMMA ModSum ==
  ASSUME NEW m \in Nat \ {0}, NEW a \in Nat, NEW x \in Nat, NEW y \in Nat, x % m = y % m
  PROVE  (a + x) % m = (a + y) % m
<1>1. ASSUME NEW z \in Nat
      PROVE  (a + z) % m = (a + (z % m)) % m
  <2>1. PICK q \in Int, r \in 0 .. m - 1 : z = m * q + r /\ r = z % m
    <3>1. z \div m \in Int /\ z % m \in 0 .. m - 1 /\ z = m * (z \div m) + (z % m)
      OBVIOUS
    <3> QED BY <3>1
  <2>2. PICK p \in Int, t \in 0 .. m - 1 : a + r = m * p + t /\ t = (a + r) % m
    <3>0. PICK c \in Nat : c = a + r
      OBVIOUS
    <3>1. c \div m \in Int /\ c % m \in 0 .. m - 1 /\ c = m * (c \div m) + (c % m)
      OBVIOUS
    <3> QED BY <3>0, <3>1
  <2>3. m * (p + q) = m * p + m * q /\ p + q \in Int /\ m * p \in Int /\ m * q \in Int
    OBVIOUS
  <2>4. a + z = m * (p + q) + t
    BY <2>1, <2>2, <2>3
  <2>5. (a + z) % m = t
    <3>1. PICK b \in Nat, d \in Int : b = a + z /\ d = p + q /\ b = m * d + t
      BY <2>3, <2>4
    <3> QED BY <3>1, ModUnique
  <2> QED BY <2>1, <2>2, <2>5
<1> QED BY <1>1

(* One more in one place of a sum, with counters that wrap. *)
LEMMA SumInc ==
  ASSUME NEW S, IsFiniteSet(S), NEW f, NEW g, NEW e,
         \A x \in S : f[x] \in Counters,
         \A x \in S : g[x] = IF x = e THEN Inc(f[x]) ELSE f[x]
  PROVE  SumOver(g, S) % CtrWord
           = (SumOver(f, S) + (IF e \in S THEN 1 ELSE 0)) % CtrWord
<1>0. /\ \A x \in S : f[x] \in Nat /\ g[x] \in Nat
      /\ CtrWord \in Nat \ {0}
  <2>1. \A n \in Counters : n \in Nat /\ Inc(n) \in Nat
    BY ConstantFacts, WordFacts DEF Counters
  <2> QED BY <2>1, ConstantFacts
<1>1. PICK a : /\ SumOver(f, S) = a[S] /\ a[{}] = 0
               /\ \A s \in SUBSET S : Adds(f, a, s) /\ a[s] \in Nat
  BY <1>0, SumRun
<1>2. PICK b : /\ SumOver(g, S) = b[S] /\ b[{}] = 0
               /\ \A s \in SUBSET S : Adds(g, b, s) /\ b[s] \in Nat
  BY <1>0, SumRun
<1> DEFINE more(s) == IF e \in s THEN 1 ELSE 0
           Q == {s \in SUBSET S : b[s] % CtrWord = (a[s] + more(s)) % CtrWord}
<1>3. {} \in Q
  BY <1>1, <1>2
<1>4. ASSUME NEW s \in SUBSET S, s # {}, s \ {AnyOf(s)} \in Q PROVE s \in Q
  <2>1. PICK x \in S : x = AnyOf(s) /\ x \in s
    BY <1>4 DEF AnyOf
  <2>2. PICK w \in SUBSET S : w = s \ {x}
    OBVIOUS
  <2>3. a[s] = f[x] + a[w] /\ b[s] = g[x] + b[w] /\ a[w] \in Nat /\ b[w] \in Nat
    BY <1>1, <1>2, <1>4, <2>1, <2>2 DEF Adds
  <2>4. b[w] % CtrWord = (a[w] + more(w)) % CtrWord
    BY <1>4, <2>1, <2>2
  <2>5. f[x] \in Nat /\ g[x] \in Nat /\ f[x] \in Counters
    BY <1>0
  <2>6. more(w) \in Nat /\ a[w] + more(w) \in Nat
    BY <2>3
  <2>7. b[s] % CtrWord = (g[x] + (a[w] + more(w))) % CtrWord
    <3>1. PICK y \in Nat : y = a[w] + more(w)
      BY <2>6
    <3>2. b[w] % CtrWord = y % CtrWord
      BY <2>4, <3>1
    <3>3. PICK z \in Nat, c \in Nat : z = b[w] /\ c = g[x]
      BY <2>3, <2>5
    <3>4. (c + z) % CtrWord = (c + y) % CtrWord
      <4>1. z % CtrWord = y % CtrWord
        BY <3>2, <3>3
      <4> HIDE DEF more
      <4> QED BY <1>0, <4>1, ModSum
    <3> QED BY <2>3, <3>1, <3>3, <3>4
  <2>8. CASE x = e
    <3>1. more(w) = 0 /\ more(s) = 1
      BY <2>1, <2>2, <2>8
    <3>2. g[x] = Inc(f[x])
      BY <2>8
    <3>3. b[s] % CtrWord = (a[w] + Inc(f[x])) % CtrWord
      BY <2>3, <2>5, <2>7, <3>1, <3>2
    <3>4. b[s] % CtrWord = (a[w] + f[x] + 1) % CtrWord
      BY <2>3, <2>5, <3>3, IncSum
    <3> QED BY <2>3, <2>5, <3>1, <3>4
  <2>9. CASE x # e
    <3>1. more(w) = more(s)
      BY <2>1, <2>2, <2>9
    <3>2. g[x] = f[x]
      BY <2>9
    <3>3. g[x] + (a[w] + more(w)) = a[s] + more(s)
      BY <2>3, <2>5, <2>6, <3>1, <3>2
    <3> QED BY <2>7, <3>3
  <2> QED BY <2>8, <2>9
<1> HIDE DEF Q
<1>5. S \in Q
  BY <1>3, <1>4, RestInduction
<1> QED BY <1>1, <1>2, <1>5 DEF Q

-----------------------------------------------------------------------------
(***************************************************************************)
(* Web packets: in flow_stats and in protos[].                             *)
(***************************************************************************)
WebProtos == {e \in Protos : is_web(e[2])}

WebAgrees(t) == (t.flow[1] + t.flow[3]) % CtrWord = SumOver(t.protos, WebProtos) % CtrWord

Agreed(t) == ~t.strayed => WebAgrees(t)

(* The values of a function of a finite domain. *)
LEMMA ImageFinite ==
  ASSUME NEW S, IsFiniteSet(S), NEW f, f \in [S -> {f[x] : x \in S}]
  PROVE  IsFiniteSet({f[x] : x \in S})
<1>1. f \in Surjection(S, {f[x] : x \in S})
  BY DEF Surjection
<1> QED BY <1>1, FS_Surjection

(* Between a finite number of hosts and ports, there is a finite number of
   port counters. *)
LEMMA ProtosFinite ==
  ASSUME IsFiniteSet(Packets)
  PROVE  IsFiniteSet(WebProtos)
<1>1. IsFiniteSet(Keys)
  <2> DEFINE f == [pkt \in Packets |-> pkt_init_key(pkt).key]
  <2>1. Keys = {f[pkt] : pkt \in Packets} /\ f \in [Packets -> {f[pkt] : pkt \in Packets}]
    BY DEF Keys
  <2> HIDE DEF f
  <2> QED BY <2>1, ImageFinite
<1> DEFINE K == {k \in Keys : k.rport < NumProtos}
<1>2. IsFiniteSet(K)
  BY <1>1, FS_Subset
<1>3. IsFiniteSet(Protos)
  <2> DEFINE f == [k \in K |-> shm_get_protocol(k)]
  <2>1. Protos = {f[k] : k \in K} /\ f \in [K -> {f[k] : k \in K}]
    BY DEF Protos
  <2> HIDE DEF f, K
  <2> QED BY <1>2, <2>1, ImageFinite
<1> QED BY <1>3, FS_Subset DEF WebProtos

(* A step that leaves the counters alone, and forgets of no array that it
   strayed. *)
LEMMA AgreedSame ==
  ASSUME NEW t, NEW u, Agreed(t), NEW F, Only(t, u, F), "flow" \notin F, "protos" \notin F,
         t.strayed => u.strayed
  PROVE  Agreed(u)
<1>1. u.flow = t.flow /\ u.protos = t.protos
  BY DEF Only, Fields
<1> QED BY <1>1 DEF Agreed, WebAgrees

(* shm_inc_global counts in TOTAL only. *)
LEMMA AgreedGlobal ==
  ASSUME NEW t, Good(t), Agreed(t)
  PROVE  Agreed(shm_inc_global(t))
<1>0. t \in Tables /\ t.flow \in [0 .. 5 -> Counters]
  BY TableFacts DEF Good, Sound
<1>1. PICK u : u = shm_inc_global(t)
  OBVIOUS
<1>2. u.flow[1] = t.flow[1] /\ u.flow[3] = t.flow[3]
  BY <1>0, <1>1 DEF shm_inc_global, FLOW_TYPE_TOTAL, Tables
<1>3. Only(t, u, {"flow"})
  BY <1>1, GlobalStep
<1>4. u.protos = t.protos /\ u.strayed = t.strayed
  BY <1>3 DEF Only, Fields
<1> QED BY <1>1, <1>2, <1>4 DEF Agreed, WebAgrees

(* A packet of a web stream is counted in both views, one of another stream in
   neither. *)
LEMMA AgreedCount ==
  ASSUME NEW t, Good(t), Agreed(t), NEW s \in StreamSlots, WebOutside
  PROVE  Agreed(CountPacket(t, s))
<1>0. /\ t \in Tables /\ t.flow \in [0 .. 5 -> Counters] /\ t.protos \in [Protos -> Counters]
      /\ t.ss \in [StreamSlots -> StreamInfos] /\ Classed(t)
  BY TableFacts DEF Good, Sound
<1>1. PICK u : u = CountPacket(t, s)
  OBVIOUS
<1>2. PICK y \in 0 .. 4, k \in Keys \cup {NoKey} : y = t.ss[s].type /\ k = t.ss[s].key
  BY <1>0 DEF StreamInfos
<1>3. PICK e : e = shm_get_protocol(k)
  OBVIOUS
<1>4. u = [t EXCEPT !.flow[y] = Inc(@), !.protos = inc_protocol_counters(@, e)]
  BY <1>1, <1>2, <1>3 DEF CountPacket
<1>5. /\ u.flow = [t.flow EXCEPT ![y] = Inc(@)]
      /\ u.protos = inc_protocol_counters(t.protos, e) /\ u.strayed = t.strayed
  BY <1>0, <1>4 DEF Tables
<1> SUFFICES ASSUME ~t.strayed PROVE WebAgrees(u)
  BY <1>1, <1>5 DEF Agreed
<1>6. WebAgrees(t)
  BY DEF Agreed
<1>7. (y \in {1, 3} <=> k.rport \in WebPorts) /\ (k.rport \in WebPorts => k \in Keys)
  <2>1. /\ y \in {1, 3} <=> ~({k.left, k.right} \subseteq LanIps) /\ k.rport \in WebPorts
    BY <1>0, <1>2 DEF Classed, ByOwnAddresses
  <2>2. CASE k \in Keys
    BY <2>1, <2>2 DEF WebOutside, is_web
  <2>3. CASE k = NoKey
    <3>1. k.rport = 0
      BY <2>3 DEF NoKey
    <3>2. 0 \notin WebPorts
      BY CaptureAssumption, Zenon
    <3> QED BY <2>1, <3>1, <3>2
  <2> QED BY <2>2, <2>3
<1>8. y \in {1, 3} <=> e \in WebProtos
  <2>1. e[2] = k.rport
    BY <1>3 DEF shm_get_protocol
  <2>2. ASSUME k.rport \in WebPorts PROVE e \in WebProtos
    <3>1. k \in Keys /\ k.rport < NumProtos
      BY <1>7, <2>2 DEF WebOutside, is_web
    <3>2. e \in Protos
      BY <1>3, <3>1 DEF Protos
    <3> QED BY <2>1, <2>2, <3>2 DEF WebProtos, is_web
  <2>3. ASSUME e \in WebProtos PROVE k.rport \in WebPorts
    BY <2>1, <2>3 DEF WebProtos, is_web
  <2> QED BY <1>7, <2>2, <2>3
<1>9. \A x \in WebProtos : u.protos[x] = IF x = e THEN Inc(t.protos[x]) ELSE t.protos[x]
  BY <1>0, <1>5 DEF inc_protocol_counters, WebProtos
<1>10. \A x \in WebProtos : t.protos[x] \in Counters
  BY <1>0 DEF WebProtos
<1>11. IsFiniteSet(WebProtos)
  BY ProtosFinite DEF WebOutside
<1> DEFINE more == IF e \in WebProtos THEN 1 ELSE 0
<1>12. SumOver(u.protos, WebProtos) % CtrWord = (SumOver(t.protos, WebProtos) + more) % CtrWord
  BY <1>9, <1>10, <1>11, SumInc
<1>13. \A n \in Counters : n \in Nat /\ Inc(n) \in Nat
  BY ConstantFacts, WordFacts DEF Counters
<1>14. SumOver(t.protos, WebProtos) \in Nat
  BY <1>10, <1>11, <1>13, SumRun
<1>15. /\ t.flow[1] \in Counters /\ t.flow[3] \in Counters
       /\ t.flow[1] \in Nat /\ t.flow[3] \in Nat /\ Inc(t.flow[1]) \in Nat /\ Inc(t.flow[3]) \in Nat
  BY <1>0, <1>13
<1>16. /\ u.flow[1] = IF y = 1 THEN Inc(t.flow[1]) ELSE t.flow[1]
       /\ u.flow[3] = IF y = 3 THEN Inc(t.flow[3]) ELSE t.flow[3]
  BY <1>0, <1>5
<1>17. (u.flow[1] + u.flow[3]) % CtrWord = (t.flow[1] + t.flow[3] + more) % CtrWord
  <2>1. CASE y = 1
    <3>1. (t.flow[3] + Inc(t.flow[1])) % CtrWord = (t.flow[3] + t.flow[1] + 1) % CtrWord
      BY <1>15, IncSum
    <3>2. u.flow[1] + u.flow[3] = t.flow[3] + Inc(t.flow[1])
      BY <1>15, <1>16, <2>1
    <3>3. t.flow[1] + t.flow[3] + more = t.flow[3] + t.flow[1] + 1
      BY <1>8, <1>15, <2>1
    <3> QED BY <3>1, <3>2, <3>3
  <2>2. CASE y = 3
    <3>1. (t.flow[1] + Inc(t.flow[3])) % CtrWord = (t.flow[1] + t.flow[3] + 1) % CtrWord
      BY <1>15, IncSum
    <3>2. u.flow[1] + u.flow[3] = t.flow[1] + Inc(t.flow[3])
      BY <1>15, <1>16, <2>2
    <3>3. t.flow[1] + t.flow[3] + more = t.flow[1] + t.flow[3] + 1
      BY <1>8, <1>15, <2>2
    <3> QED BY <3>1, <3>2, <3>3
  <2>3. CASE y \notin {1, 3}
    <3>1. u.flow[1] + u.flow[3] = t.flow[1] + t.flow[3] + more
      BY <1>8, <1>15, <1>16, <2>3
    <3> QED BY <3>1
  <2> QED BY <2>1, <2>2, <2>3
<1>18. PICK a \in Nat, b \in Nat, d \in Nat :
         a = t.flow[1] + t.flow[3] /\ b = SumOver(t.protos, WebProtos) /\ d = more
  BY <1>14, <1>15
<1>19. (d + a) % CtrWord = (d + b) % CtrWord
  <2>1. a % CtrWord = b % CtrWord
    BY <1>6, <1>18 DEF WebAgrees
  <2>2. CtrWord \in Nat \ {0}
    BY ConstantFacts
  <2> QED BY <2>1, <2>2, ModSum
<1>20. a + d = d + a /\ b + d = d + b
  OBVIOUS
<1> HIDE DEF more
<1> QED BY <1>12, <1>17, <1>18, <1>19, <1>20 DEF WebAgrees

(* An address looked up: an array that strayed has strayed. *)
LEMMA StrayedStays ==
  ASSUME NEW t \in Tables, NEW ip, t.strayed
  PROVE  FindAddr(t, ip).strayed
<1>1. ASSUME NEW internal \in BOOLEAN, NEW r PROVE AddrAllocated(t, ip, internal, r).strayed
  <2>1. PICK v : v = SetAddrs(t, internal, r)
    OBVIOUS
  <2>2. DOMAIN v = DOMAIN t /\ v.strayed = t.strayed
    BY <2>1 DEF SetAddrs, Tables
  <2>3. CASE r.fault # "none"
    BY <2>3 DEF AddrAllocated, Tables
  <2>4. CASE r.fault = "none" /\ r.idx = NoEntry
    BY <2>4 DEF AddrAllocated, Tables
  <2>5. CASE r.fault = "none" /\ r.idx # NoEntry
    <3>1. "strayed" \in DOMAIN v
      BY <2>2 DEF Tables
    <3>2. AddrAllocated(t, ip, internal, r).strayed = (v.strayed \/ (internal # InLanPart(r.idx)))
      BY <2>1, <2>5, <3>1 DEF AddrAllocated
    <3> QED BY <2>2, <3>2
  <2> QED BY <2>3, <2>4, <2>5
<1> QED BY <1>1 DEF FindAddr, shm_addr_alloc_v4

(* A new stream counts nothing yet. *)
LEMMA AddStreamAgreed ==
  ASSUME NEW t, Good(t), t.fault = "none", NEW key \in Keys,
         t.ht_streams[Hash(key)] = NoEntry, Agreed(t)
  PROVE  Agreed(AddStream(t, key))
<1>0. Sound(t) /\ t \in Tables
  BY DEF Good, Sound
<1>1. Hash(key) \in Buckets /\ key.left \in Ips /\ key.right \in Ips
  BY KeyOfKeys
<1>2. PICK a : a = mga_alloc_entry(Streams, t.si, t.staken)
  OBVIOUS
<1>3. AddStream(t, key) = StreamAllocated(t, key, a)
  BY <1>2 DEF AddStream
<1>4. CASE a.fault # "none"
  <2>1. StreamAllocated(t, key, a) = [t EXCEPT !.fault = a.fault]
    BY <1>4 DEF StreamAllocated
  <2>2. Agreed([t EXCEPT !.fault = a.fault])
    BY <1>0 DEF Agreed, WebAgrees, Tables
  <2> QED BY <1>3, <2>1, <2>2
<1>5. CASE a.fault = "none" /\ a.idx = NoEntry
  <2>1. StreamAllocated(t, key, a) = [t EXCEPT !.refused = Inc(@)]
    BY <1>5 DEF StreamAllocated
  <2>2. Agreed([t EXCEPT !.refused = Inc(@)])
    BY <1>0 DEF Agreed, WebAgrees, Tables
  <2> QED BY <1>3, <2>1, <2>2
<1>6. CASE a.fault = "none" /\ a.idx # NoEntry
  <2>1. PICK v : v = WithStream(t, Hash(key), a)
    OBVIOUS
  <2>2. Sound(v) /\ Only(t, v, {"si", "staken", "ht_streams"})
    <3>1. StreamIn(t, Hash(key), a.idx, v)
      BY <1>0, <1>1, <1>2, <1>6, <2>1, StreamTaken
    <3> QED BY <3>1 DEF StreamIn
  <2>3. PICK w1 : w1 = FindAddr(v, key.left)
    OBVIOUS
  <2>4. Sound(w1) /\ Only(v, w1, AddrFields) /\ (v.strayed => w1.strayed)
    BY <1>1, <2>2, <2>3, FindAddrSound, StrayedStays DEF Sound
  <2>5. PICK w : w = FindAddr(w1, key.right)
    OBVIOUS
  <2>6. Sound(w) /\ Only(w1, w, AddrFields) /\ (w1.strayed => w.strayed)
    BY <1>1, <2>4, <2>5, FindAddrSound, StrayedStays DEF Sound
  <2>7. StreamAllocated(t, key, a) = InitStream(w, key, a.idx)
    BY <1>6, <2>1, <2>3, <2>5 DEF StreamAllocated, WithStream
  <2>8. Only(t, w, NewFields) /\ (t.strayed => w.strayed)
    <3>1. Only(t, w, NewFields)
      BY <2>2, <2>4, <2>6 DEF Only, NewFields
    <3>2. v.strayed = t.strayed
      BY <2>2 DEF Only, Fields
    <3> QED BY <2>4, <2>6, <3>1, <3>2
  <2>9. Agreed(w)
    BY <2>8, AgreedSame DEF NewFields, AddrFields
  <2>10. Agreed(InitStream(w, key, a.idx))
    <3>1. w \in Tables
      BY <2>6 DEF Sound
    <3>2. PICK u : u = InitStream(w, key, a.idx)
      OBVIOUS
    <3>3. u.flow = w.flow /\ u.protos = w.protos /\ u.strayed = w.strayed
      BY <3>1, <3>2 DEF InitStream, Tables
    <3> QED BY <2>9, <3>2, <3>3 DEF Agreed, WebAgrees
  <2> QED BY <1>3, <2>7, <2>10
<1> QED BY <1>4, <1>5, <1>6

(* The rest of on_packet counts the packet once in each view. *)
LEMMA OnStreamAgreed ==
  ASSUME NEW t, Good(t), Agreed(t), NEW s \in StreamSlots, NEW pkt, NEW key \in Keys, WebOutside,
         skew \in 0 .. MaxBack
  PROVE  Agreed(OnStream(t, s, pkt, key))
<1>1. PICK a : a = [t EXCEPT !.ss[s].age = skew]
  OBVIOUS
<1>2. Good(a) /\ Only(t, a, {"ss"})
  BY <1>1, TouchGood
<1>3. PICK b : b = MarkEnded(a, s, pkt)
  OBVIOUS
<1>4. Good(b) /\ Only(a, b, {"ss", "clist", "cwait"})
  BY <1>2, <1>3, MarkEndedGood
<1>5. PICK c : c = inc_stream_counters(b, s)
  OBVIOUS
<1>6. Good(c) /\ Only(b, c, {"ss", "addr"})
  BY <1>4, <1>5, CountersGood
<1>7. PICK d : d = CountPacket(c, s)
  OBVIOUS
<1>8. Only(t, c, {"ss", "clist", "cwait", "addr"})
  BY <1>2, <1>4, <1>6 DEF Only
<1>9. Agreed(c)
  <2>1. t.strayed = c.strayed
    BY <1>8 DEF Only, Fields
  <2> QED BY <1>8, <2>1, AgreedSame
<1>10. Good(d) /\ Agreed(d)
  BY <1>6, <1>7, <1>9, CountStep, AgreedCount
<1>11. PICK u : u = OncePerSecond(d, key)
  OBVIOUS
<1>12. Only(d, u, PassFields)
  BY <1>10, <1>11, CleanupGood
<1>13. Agreed(u)
  <2>1. d.strayed = u.strayed
    BY <1>12 DEF Only, Fields, PassFields, CleanFields
  <2> QED BY <1>10, <1>12, <2>1, AgreedSame DEF PassFields, CleanFields
<1>14. OnStream(t, s, pkt, key) = u
  BY <1>1, <1>3, <1>5, <1>7, <1>11 DEF OnStream
<1> QED BY <1>13, <1>14

(* A packet handled, to the end or not. *)
LEMMA HandledAgreed ==
  ASSUME NEW t, Kept(t), Agreed(t), t.fault = "none", NEW pkt \in Packets, WebOutside,
         skew \in 0 .. MaxBack
  PROVE  Agreed(Handled(t, pkt).tab)
<1>1. PICK key \in Keys : key = pkt_init_key(pkt).key
  BY KeyFacts
<1>2. Hash(key) \in Buckets
  BY KeyOfKeys
<1>3. PICK g : g = shm_inc_global(t)
  OBVIOUS
<1>4. Good(g) /\ Only(t, g, {"flow"}) /\ Balanced(g, 1) /\ Agreed(g)
  BY <1>3, GlobalStep, AgreedGlobal DEF Kept
<1>5. g.fault = "none"
  BY <1>4 DEF Only, Fields
<1>6. PICK v : v = FindStream(g, key)
  OBVIOUS
<1>7. Good(v)
  BY <1>1, <1>4, <1>5, <1>6, FindStreamGood
<1>8. Agreed(v)
  BY <1>4, <1>5, <1>6, AddStreamAgreed DEF FindStream
<1>9. Handled(t, pkt) = Found(v, pkt, key)
  BY <1>1, <1>3, <1>6 DEF Handled
<1>10. CASE v.fault # "none" \/ v.ht_streams[Hash(key)] = NoEntry
  <2>1. Found(v, pkt, key) = [tab |-> v, done |-> FALSE]
    BY <1>10 DEF Found
  <2> QED BY <1>8, <1>9, <2>1
<1>11. CASE ~(v.fault # "none" \/ v.ht_streams[Hash(key)] = NoEntry)
  <2>1. PICK s \in StreamSlots : s = v.ht_streams[Hash(key)]
    <3>1. v.ht_streams \in [Buckets -> StreamSlots \cup {NoEntry}]
      BY <1>7, TableFacts DEF Good, Sound
    <3> QED BY <1>2, <1>11, <3>1
  <2>2. PICK u : u = OnStream(v, s, pkt, key)
    OBVIOUS
  <2>3. Agreed(u)
    BY <1>7, <1>8, <2>2, OnStreamAgreed
  <2>4. Found(v, pkt, key) = [tab |-> u, done |-> TRUE]
    BY <1>11, <2>1, <2>2 DEF Found
  <2> QED BY <1>9, <2>3, <2>4
<1> QED BY <1>10, <1>11

(* The two views of web traffic agree, flow_stats from the addresses a stream
   was classified by and protos[] from its port, in a network without web
   traffic between two LAN addresses. *)
THEOREM WebCorrect == WebOutside => (Spec => []WebPacketsAgree)
<1> SUFFICES ASSUME WebOutside PROVE Spec => []WebPacketsAgree
  OBVIOUS
<1>1. Init => Agreed(tab)
  <2>1. SUFFICES ASSUME tab = shm_data_init PROVE WebAgrees(tab)
    BY DEF Init, Agreed
  <2>2. /\ tab.flow = [f \in 0 .. 5 |-> 0] /\ tab.protos = [e \in Protos |-> 0]
    BY <2>1 DEF shm_data_init, Protos
  <2>3. SumOver(tab.protos, WebProtos) = 0
    <3>1. \A e \in WebProtos : tab.protos[e] = 0
      BY <2>2 DEF WebProtos
    <3>2. IsFiniteSet(WebProtos)
      BY ProtosFinite DEF WebOutside
    <3> QED BY <3>1, <3>2, SumOfZeros
  <2>4. tab.flow[1] + tab.flow[3] = 0
    BY <2>2
  <2> QED BY <2>3, <2>4 DEF WebAgrees
<1>2. IInv /\ Agreed(tab) /\ [Next]_vars => Agreed(tab)'
  <2>1. SUFFICES ASSUME IInv, Agreed(tab), [Next]_vars PROVE Agreed(tab')
    BY DEF Agreed, WebAgrees
  <2>2. ASSUME NEW pkt \in Packets, on_packet(pkt) PROVE Agreed(tab')
    <3>1. tab.fault = "none" /\ tab' = Handled(tab, pkt).tab
      BY <2>2 DEF on_packet
    <3> QED BY <2>1, <3>1, HandledAgreed DEF IInv
  <2>3. ASSUME Tick \/ StepBack PROVE Agreed(tab')
    <3>1. tab' \in {Older(tab), tab} /\ tab \in Tables
      BY <2>1, <2>3 DEF Tick, StepBack, IInv, Kept, Good, Sound
    <3>2. tab'.flow = tab.flow /\ tab'.protos = tab.protos /\ tab'.strayed = tab.strayed
      BY <3>1 DEF Older, Tables
    <3> QED BY <2>1, <3>2 DEF Agreed, WebAgrees
  <2>4. CASE UNCHANGED vars
    BY <2>1, <2>4 DEF vars
  <2> QED BY <2>1, <2>2, <2>3, <2>4 DEF Next
<1>3. IInv /\ Agreed(tab) => WebPacketsAgree
  <2>1. SUFFICES ASSUME IInv, Agreed(tab), ~tab.strayed PROVE WebAgrees(tab)
    <3>1. ASSUME IInv PROVE {e \in DOMAIN tab.protos : is_web(e[2])} = WebProtos
      <4>1. tab.protos \in [Protos -> Counters]
        BY <3>1, TableFacts DEF IInv, Kept, Good, Sound
      <4> QED BY <4>1 DEF WebProtos
    <3> QED BY <3>1 DEF WebPacketsAgree, WebAgrees
  <2> QED BY <2>1 DEF Agreed
<1> QED BY <1>1, <1>2, <1>3, Invariance, PTL DEF Spec
=============================================================================
