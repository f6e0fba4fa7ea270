--------------------------- MODULE MgarrayProofs ---------------------------
(***************************************************************************)
(* Proofs about MgarraySpec: one managed array under any sequence of       *)
(* allocations and frees, for every array GeometriesAssumption allows.     *)
(***************************************************************************)
EXTENDS MgarraySpec, MgarrayLemmas

(* What every operation preserves: the window covers T and the count is |T|. *)
Sound(g, q, T) == /\ Framed(g, q, T)
                  /\ q.num_entries = Cardinality(T)
                  /\ q.num_entries <= g.total_entries

(* Each end of the window is next to an entry in use or at its limit. *)
Tight(g, q, T) == WindowLen(q) >= 0 =>
  /\ q.idx_lo = Mid(g) \/ U32(q.idx_lo + 1) \in T
  /\ q.idx_hi = U32(q.idx_lo + 1) \/ q.idx_hi - 1 \in T

(* The assert marked "should never get here": if the window is longer than
   the count, it has a free entry (pigeonhole). *)
LEMMA InteriorEntryExists ==
  ASSUME NEW g, IsGeometry(g), NEW q, NEW T, Sound(g, q, T),
         WindowLen(q) > q.num_entries
  PROVE  ~(Window(q) \subseteq T)
<1>1. SUFFICES ASSUME Window(q) \subseteq T PROVE FALSE
  OBVIOUS
<1>2. T = Window(q) /\ Bracketed(g, q) /\ q.num_entries = Cardinality(T)
  BY <1>1 DEF Sound, Framed
<1>3. q.num_entries = IF WindowLen(q) < 0 THEN 0 ELSE WindowLen(q)
  BY <1>2, WindowSize, Zenon
<1>4. /\ Low(q) \in -1 .. Mid(g) /\ q.idx_hi \in 0 .. g.raw_len
      /\ WindowLen(q) = q.idx_hi - Low(q) - 1 /\ q.num_entries \in 0 .. Word - 1
  BY FramedFacts DEF Sound
<1>5. Mid(g) \in Int /\ g.raw_len \in Int /\ Word \in Int
  BY GeometryFacts, WordAssumption
<1>6. WindowLen(q) \in Int /\ q.num_entries \in Nat
  BY <1>4, <1>5
<1> QED BY <1>3, <1>6

(* A window no longer than the count has no free entry (pigeonhole). *)
LEMMA PackedWindow ==
  ASSUME NEW g, IsGeometry(g), NEW q, NEW T, Sound(g, q, T),
         WindowLen(q) >= 0, WindowLen(q) <= q.num_entries
  PROVE  Window(q) \subseteq T
<1>1. /\ IsFiniteSet(Window(q)) /\ T \subseteq Window(q)
      /\ Cardinality(Window(q)) = IF WindowLen(q) < 0 THEN 0 ELSE WindowLen(q)
      /\ q.num_entries = Cardinality(T)
  BY WindowSize DEF Sound, Framed
<1>2. /\ IsFiniteSet(T) /\ Cardinality(T) <= Cardinality(Window(q))
      /\ Cardinality(T) = Cardinality(Window(q)) => T = Window(q)
  BY <1>1, FS_Subset, Zenon
<1>3. Cardinality(T) \in Nat /\ Cardinality(Window(q)) \in Nat
  BY <1>1, <1>2, FS_CardinalityType
<1>4. Cardinality(Window(q)) = WindowLen(q)
  <2>1. /\ Low(q) \in -1 .. Mid(g) /\ q.idx_hi \in 0 .. g.raw_len
        /\ WindowLen(q) = q.idx_hi - Low(q) - 1
    BY FramedFacts DEF Sound
  <2>2. Mid(g) \in Int /\ g.raw_len \in Int
    BY GeometryFacts
  <2>3. WindowLen(q) \in Int
    BY <2>1, <2>2
  <2>4. ~(WindowLen(q) < 0)
    BY <2>3
  <2> QED BY <1>1, <2>4
<1>5. Cardinality(T) = Cardinality(Window(q))
  BY <1>1, <1>2, <1>3, <1>4
<1> QED BY <1>2, <1>5

(* mga_alloc_entry keeps the array sound and its window tight, aborts only for
   an inverted window or beyond the raw array, and leaves the window for
   another entry only when no entry inside is free. *)
LEMMA AllocSound ==
  ASSUME NEW g, IsGeometry(g), NEW q, NEW T, Sound(g, q, T)
  PROVE  LET r == mga_alloc_entry(g, q, T) IN
         \/ /\ r.fault = "none" /\ r.idx = NoEntry /\ q.num_entries >= g.total_entries
            /\ r.p = q /\ r.taken = T
         \/ /\ r.fault = "none" /\ r.idx \in 0 .. g.raw_len - 1 /\ r.idx \notin T
            /\ q.num_entries < g.total_entries
            /\ r.taken = T \cup {r.idx} /\ Sound(g, r.p, r.taken)
            /\ Tight(g, q, T) => Tight(g, r.p, r.taken)
            /\ r.idx \notin Window(q) => Window(q) \subseteq T
         \/ /\ r.fault \in {"assert_diff", "overrun"} /\ r.p = q /\ r.taken = T
<1> DEFINE r == mga_alloc_entry(g, q, T)
<1>1. Framed(g, q, T) /\ q.num_entries = Cardinality(T) /\ q.num_entries <= g.total_entries
  BY DEF Sound
<1>2. Allocated(g, q, T, r)
  BY <1>1, AllocAllocates
<1>3. ~(WindowLen(q) > q.num_entries /\ Window(q) \subseteq T)
  BY InteriorEntryExists
<1> HIDE DEF r
<1>4. CASE /\ r.fault = "none" /\ r.idx \in 0 .. g.raw_len - 1 /\ r.idx \notin T
           /\ q.num_entries < g.total_entries /\ WindowLen(q) >= 0
           /\ r.taken = T \cup {r.idx}
           /\ \E q2 : /\ Grown(g, q, r.idx, q2)
                      /\ r.p = [q2 EXCEPT !.num_entries = U32(q.num_entries + 1)]
  <2>1. PICK q2 : /\ Grown(g, q, r.idx, q2)
                  /\ r.p = [q2 EXCEPT !.num_entries = U32(q.num_entries + 1)]
    BY <1>4
  <2>2. /\ IsFiniteSet(T) /\ q.num_entries \in 0 .. Word - 1
        /\ q.idx_lo \in 0 .. Word - 1 /\ q.idx_hi \in 0 .. g.raw_len
    BY <1>1, FramedFacts
  <2>3. /\ g.raw_len \in Nat /\ 2 * g.raw_len + 2 < Word /\ Word \in Nat
        /\ g.total_entries \in 1 .. g.raw_len
    BY GeometryFacts, WordAssumption
  <2>4. q.num_entries + 1 \in 0 .. Word - 1 /\ q.num_entries + 1 <= g.total_entries
    BY <1>4, <2>2, <2>3
  <2>5. U32(q.num_entries + 1) = q.num_entries + 1
    BY <2>4, U32Small
  <2>6. /\ Bracketed(g, r.p) /\ Window(r.p) = Window(q2) /\ WindowLen(r.p) = WindowLen(q2)
        /\ r.p.num_entries = q.num_entries + 1
        /\ r.p.idx_lo = q2.idx_lo /\ r.p.idx_hi = q2.idx_hi
    BY <2>1, <2>4, <2>5, CountedWindow DEF Grown
  <2>7. T \cup {r.idx} \subseteq Window(r.p)
    BY <2>1, <2>6, <1>1 DEF Grown, Framed
  <2>8. Cardinality(T \cup {r.idx}) = Cardinality(T) + 1
    BY <1>4, <2>2, FS_AddElement, Zenon
  <2>9. Sound(g, r.p, r.taken)
    <3>1. r.p.num_entries = Cardinality(r.taken)
      BY <2>6, <2>8, <1>1, <1>4
    <3> QED BY <3>1, <2>4, <2>6, <2>7, <1>4 DEF Sound, Framed
  <2>10. ASSUME Tight(g, q, T) PROVE Tight(g, r.p, r.taken)
    <3>1. /\ q.idx_lo = Mid(g) \/ U32(q.idx_lo + 1) \in T
          /\ q.idx_hi = U32(q.idx_lo + 1) \/ q.idx_hi - 1 \in T
      BY <2>10, <1>4 DEF Tight
    <3>2. r.idx \in r.taken /\ T \subseteq r.taken
      BY <1>4
    <3>3. CASE q2 = q
      BY <3>1, <3>2, <3>3, <2>6 DEF Tight
    <3>4. CASE r.idx = q.idx_hi /\ q2.idx_lo = q.idx_lo /\ q2.idx_hi = r.idx + 1
      <4>1. r.p.idx_hi - 1 = r.idx
        BY <3>4, <2>2, <2>3, <2>6
      <4> QED BY <4>1, <3>1, <3>2, <3>4, <2>6 DEF Tight
    <3>5. CASE /\ r.idx = q.idx_lo /\ U32(q2.idx_lo + 1) = r.idx /\ q2.idx_hi = q.idx_hi
               /\ U32(q.idx_lo + 1) = r.idx + 1
      <4>1. q.idx_hi = r.idx + 1 => q.idx_hi - 1 = r.idx
        BY <3>5, <2>2, <2>3
      <4> QED BY <4>1, <3>1, <3>2, <3>5, <2>6 DEF Tight
    <3> QED BY <2>1, <3>3, <3>4, <3>5 DEF Grown
  <2>11. r.idx \notin Window(q) => Window(q) \subseteq T
    <3>1. CASE q2 = q
      BY <3>1, <2>1 DEF Grown
    <3>2. CASE WindowLen(q) <= q.num_entries
      BY <3>2, <1>4, PackedWindow
    <3> QED BY <2>1, <3>1, <3>2 DEF Grown
  <2> QED BY <1>4, <2>9, <2>10, <2>11 DEF r
<1> QED BY <1>2, <1>3, <1>4 DEF r, Allocated

(* mga_free_entry keeps the array sound and its window tight, and releases at
   most entry i. *)
LEMMA FreeSound ==
  ASSUME NEW g, IsGeometry(g), NEW q, NEW T, Sound(g, q, T), NEW i
  PROVE  LET r == mga_free_entry(g, q, T, i) IN
           /\ Sound(g, r.p, r.taken)
           /\ Tight(g, q, T) => Tight(g, r.p, r.taken)
           /\ \/ r.p = q /\ r.taken = T
              \/ i \in T /\ r.taken = T \ {i}
<1> DEFINE r == mga_free_entry(g, q, T, i)
<1>1. Framed(g, q, T) /\ q.num_entries = Cardinality(T) /\ q.num_entries <= g.total_entries
  BY DEF Sound
<1>2. Freed(g, q, T, i, r)
  BY <1>1, FreeFrees
<1> HIDE DEF r
<1>3. CASE r.p = q /\ r.taken = T
  BY <1>3 DEF r
<1>4. CASE /\ i \in T /\ r.taken = T \ {i} /\ Framed(g, r.p, r.taken)
           /\ r.p.num_entries = U32(q.num_entries - 1)
           /\ r.p.idx_lo = Mid(g) \/ U32(r.p.idx_lo + 1) \in r.taken
           /\ r.p.idx_hi <= U32(r.p.idx_lo + 1) \/ r.p.idx_hi - 1 \in r.taken
  <2>1. IsFiniteSet(T) /\ q.num_entries \in 0 .. Word - 1
    BY <1>1, FramedFacts
  <2>2. Cardinality(T \ {i}) = Cardinality(T) - 1 /\ IsFiniteSet(T \ {i})
    BY <2>1, <1>4, FS_RemoveElement, Zenon
  <2>3. Cardinality(T \ {i}) \in Nat
    BY <2>2, FS_CardinalityType
  <2>4. q.num_entries - 1 \in 0 .. Word - 1
    BY <2>1, <2>2, <2>3, <1>1, WordAssumption
  <2>5. U32(q.num_entries - 1) = q.num_entries - 1
    BY <2>4, U32Small
  <2>6. Sound(g, r.p, r.taken)
    <3>1. q.num_entries - 1 <= g.total_entries
      BY <2>1, <1>1, WordAssumption, GeometryFacts
    <3> QED BY <3>1, <1>1, <1>4, <2>2, <2>5 DEF Sound
  <2>7. ASSUME WindowLen(r.p) >= 0, r.p.idx_hi <= U32(r.p.idx_lo + 1)
        PROVE  r.p.idx_hi = U32(r.p.idx_lo + 1)
    <3>1. Bracketed(g, r.p)
      BY <1>4 DEF Framed
    <3>2. U32(r.p.idx_lo + 1) = Low(r.p) + 1 /\ WindowLen(r.p) = r.p.idx_hi - Low(r.p) - 1
      BY <3>1, WindowShape
    <3>3. Low(r.p) \in -1 .. Mid(g) /\ r.p.idx_hi \in 0 .. g.raw_len
      BY <1>4, FramedFacts
    <3>4. Low(r.p) \in Int /\ r.p.idx_hi \in Int
      BY <3>3, GeometryFacts
    <3> QED BY <2>7, <3>2, <3>4
  <2>8. Tight(g, r.p, r.taken)
    BY <1>4, <2>7 DEF Tight
  <2> QED BY <2>6, <2>8, <1>4 DEF r
<1> QED BY <1>2, <1>3, <1>4 DEF Freed

-----------------------------------------------------------------------------
(***************************************************************************)
(* The inductive invariant.  Sound is what the operators preserve; the     *)
(* bound of idx_hi by the raw array is what makes an index difference keep *)
(* its sign as an int, and is no part of the properties themselves.        *)
(***************************************************************************)
IInv == /\ ma \in Geometries
        /\ Sound(ma, p, taken)
        /\ Tight(ma, p, taken)
        /\ idx \in {NoEntry} \cup 0 .. ma.raw_len - 1
        /\ fault \in {"none", "assert_diff", "overrun"}

(* mga_init establishes the invariant. *)
LEMMA InitIInv == Init => IInv
<1> SUFFICES ASSUME Init PROVE IInv
  OBVIOUS
<1>1. /\ ma \in Geometries /\ p = mga_init(ma) /\ taken = {}
      /\ idx = NoEntry /\ fault = "none"
  BY DEF Init
<1>2. /\ ma.raw_len \in Nat /\ 2 * ma.raw_len + 2 < Word /\ Word \in Nat
      /\ ma.total_entries \in 1 .. ma.raw_len /\ Mid(ma) \in 0 .. ma.raw_len - 1
  BY <1>1, GeometriesAssumption, GeometryFacts, WordAssumption
<1>3. U32(Mid(ma) + 1) = Mid(ma) + 1 /\ Mid(ma) + 1 \in 0 .. Word - 1
  <2>1. Mid(ma) + 1 \in 0 .. Word - 1
    BY <1>2
  <2> QED BY <2>1, U32Small
<1>4. /\ p = [num_entries |-> 0, idx_lo |-> Mid(ma), idx_hi |-> Mid(ma) + 1]
      /\ p.num_entries = 0 /\ p.idx_lo = Mid(ma) /\ p.idx_hi = Mid(ma) + 1
  BY <1>1, <1>3 DEF mga_init
<1>5. Bracketed(ma, p)
  BY <1>2, <1>3, <1>4 DEF Bracketed, Infos
<1>6. Cardinality({}) = 0
  BY FS_EmptySet
<1>7. Sound(ma, p, taken)
  BY <1>1, <1>2, <1>4, <1>5, <1>6 DEF Sound, Framed
<1>8. Tight(ma, p, taken)
  BY <1>3, <1>4 DEF Tight
<1> QED BY <1>1, <1>7, <1>8 DEF IInv

(* SlotPool counts with the same Cardinality as this module. *)
LEMMA PoolCardinality == \A S : Pool!Cardinality(S) = Cardinality(S)
BY Zenon DEF Pool!Cardinality, Cardinality

(* An allocation preserves the invariant, is a step of the pool, and leaves the
   window only when no entry inside is free. *)
LEMMA AllocStep ==
  ASSUME IInv, Alloc
  PROVE  /\ IInv' /\ (fault' = "none" => Pool!Acquire \/ Pool!Refuse)
         /\ (fault' # "none" => UNCHANGED <<ma, taken, idx>>)
         /\ \A i \in taken' \ taken : i \notin Window(p) => Window(p) \subseteq taken
<1> DEFINE r == mga_alloc_entry(ma, p, taken)
<1>1. /\ p' = r.p /\ taken' = r.taken /\ fault' = r.fault
      /\ idx' = (IF r.fault = "none" THEN r.idx ELSE idx) /\ ma' = ma
  BY DEF Alloc
<1>2. /\ Sound(ma, p, taken) /\ Tight(ma, p, taken) /\ ma \in Geometries /\ IsGeometry(ma)
      /\ idx \in {NoEntry} \cup 0 .. ma.raw_len - 1
  BY GeometriesAssumption DEF IInv
<1>3. \/ /\ r.fault = "none" /\ r.idx = NoEntry /\ p.num_entries >= ma.total_entries
         /\ r.p = p /\ r.taken = taken
      \/ /\ r.fault = "none" /\ r.idx \in 0 .. ma.raw_len - 1 /\ r.idx \notin taken
         /\ p.num_entries < ma.total_entries
         /\ r.taken = taken \cup {r.idx} /\ Sound(ma, r.p, r.taken)
         /\ Tight(ma, p, taken) => Tight(ma, r.p, r.taken)
         /\ r.idx \notin Window(p) => Window(p) \subseteq taken
      \/ /\ r.fault \in {"assert_diff", "overrun"} /\ r.p = p /\ r.taken = taken
  BY <1>2, AllocSound
<1> HIDE DEF r
<1>4. p.num_entries = Cardinality(taken)
  BY <1>2 DEF Sound
<1>5. CASE /\ r.fault = "none" /\ r.idx = NoEntry
           /\ p.num_entries >= ma.total_entries /\ r.p = p /\ r.taken = taken
  <2>1. IInv'
    BY <1>1, <1>2, <1>5 DEF IInv
  <2>2. Pool!Refuse
    BY <1>1, <1>4, <1>5, PoolCardinality DEF Pool!Refuse
  <2> QED BY <2>1, <2>2, <1>1, <1>5
<1>6. CASE /\ r.fault = "none" /\ r.idx \in 0 .. ma.raw_len - 1 /\ r.idx \notin taken
           /\ p.num_entries < ma.total_entries
           /\ r.taken = taken \cup {r.idx} /\ Sound(ma, r.p, r.taken)
           /\ Tight(ma, p, taken) => Tight(ma, r.p, r.taken)
           /\ r.idx \notin Window(p) => Window(p) \subseteq taken
  <2>1. IInv'
    BY <1>1, <1>2, <1>6 DEF IInv
  <2>2. r.idx \in Nat
    BY <1>6
  <2>3. Pool!Acquire
    BY <2>2, <1>1, <1>4, <1>6, PoolCardinality DEF Pool!Acquire
  <2>4. \A i \in taken' \ taken : i = r.idx
    BY <1>1, <1>6
  <2> QED BY <2>1, <2>3, <2>4, <1>1, <1>6
<1>7. CASE r.fault \in {"assert_diff", "overrun"} /\ r.p = p /\ r.taken = taken
  <2>1. r.fault # "none"
    BY <1>7
  <2>2. IInv'
    BY <2>1, <1>1, <1>2, <1>7 DEF IInv
  <2> QED BY <2>1, <2>2, <1>1, <1>7
<1> QED BY <1>3, <1>5, <1>6, <1>7

(* A free preserves the invariant and is a step of the pool, or none. *)
LEMMA FreeStep ==
  ASSUME IInv, NEW i, Free(i)
  PROVE  /\ IInv' /\ (Pool!Release \/ UNCHANGED <<ma, taken, idx>>) /\ UNCHANGED ma
         /\ taken' \subseteq taken
<1> DEFINE r == mga_free_entry(ma, p, taken, i)
<1>1. /\ p' = r.p /\ taken' = r.taken
      /\ fault' = fault /\ idx' = idx /\ ma' = ma
  BY DEF Free
<1>2. Sound(ma, p, taken) /\ Tight(ma, p, taken) /\ ma \in Geometries /\ IsGeometry(ma)
  BY GeometriesAssumption DEF IInv
<1>3. /\ Sound(ma, r.p, r.taken)
      /\ Tight(ma, p, taken) => Tight(ma, r.p, r.taken)
      /\ \/ r.p = p /\ r.taken = taken
         \/ i \in taken /\ r.taken = taken \ {i}
  BY <1>2, FreeSound
<1> HIDE DEF r
<1>4. IInv'
  BY <1>1, <1>2, <1>3 DEF IInv
<1>5. CASE r.taken = taken
  BY <1>1, <1>4, <1>5
<1>6. CASE i \in taken /\ r.taken = taken \ {i}
  BY <1>1, <1>4, <1>6 DEF Pool!Release
<1> QED BY <1>3, <1>5, <1>6

(* IInv is an invariant of every managed array the assumptions allow. *)
THEOREM InductiveInvariant == Spec => []IInv
<1>1. IInv /\ [Next]_vars => IInv'
  <2> SUFFICES ASSUME IInv, [Next]_vars PROVE IInv'
    OBVIOUS
  <2>1. CASE Alloc
    BY <2>1, AllocStep
  <2>2. ASSUME NEW i \in 0 .. ma.raw_len - 1, Free(i) PROVE IInv'
    BY <2>2, FreeStep
  <2>3. CASE UNCHANGED vars
    BY <2>3 DEF IInv, vars
  <2> QED BY <2>1, <2>2, <2>3 DEF Next
<1> QED BY <1>1, InitIInv, PTL DEF Spec

(* Type correctness: indexes and count stay words, every entry handed out
   by mga_alloc_entry lies in the raw array. *)
THEOREM TypeCorrect == Spec => []TypeOK
<1>1. IInv => TypeOK
  <2> SUFFICES ASSUME IInv PROVE TypeOK
    OBVIOUS
  <2>1. ma \in Geometries /\ IsGeometry(ma) /\ Sound(ma, p, taken) /\ Framed(ma, p, taken)
    BY GeometriesAssumption DEF IInv, Sound
  <2>2. taken \subseteq 0 .. ma.raw_len - 1
    BY <2>1, FramedFacts
  <2> QED BY <2>1, <2>2 DEF IInv, TypeOK, Faults, Framed, Bracketed, Infos
<1> QED BY <1>1, InductiveInvariant, PTL

(* For every array: a scan of (idx_lo, idx_hi) misses no entry in use and
   num_entries is exact. *)
THEOREM WindowCorrect == Spec => []WindowCoversEntries
<1>1. IInv => WindowCoversEntries
  BY DEF IInv, Sound, Framed, WindowCoversEntries
<1> QED BY <1>1, InductiveInvariant, PTL

(* For every array: the asserts of mga_alloc_entry other than diff >= 0
   never fail. *)
THEOREM AssertsCorrect == Spec => []AllocAssertsHold
<1>1. IInv => AllocAssertsHold
  BY DEF IInv, AllocAssertsHold
<1> QED BY <1>1, InductiveInvariant, PTL

(* For every array: the window that makes assert(diff >= 0) fail arises only
   when no entry is in use. *)
THEOREM InversionCorrect == Spec => []InvertedOnlyWhenEmpty
<1>1. IInv => InvertedOnlyWhenEmpty
  <2> SUFFICES ASSUME IInv PROVE InvertedOnlyWhenEmpty
    OBVIOUS
  <2>1. ma \in Geometries /\ IsGeometry(ma) /\ Sound(ma, p, taken) /\ Framed(ma, p, taken)
    BY GeometriesAssumption DEF IInv, Sound
  <2>2. /\ Low(p) \in -1 .. Mid(ma) /\ p.idx_hi \in 0 .. ma.raw_len
        /\ WindowLen(p) = p.idx_hi - Low(p) - 1
        /\ taken \subseteq (Low(p) + 1) .. (p.idx_hi - 1)
    BY <2>1, FramedFacts
  <2>3. ASSUME WindowLen(p) < 0, NEW t \in taken PROVE FALSE
    <3>1. t \in (Low(p) + 1) .. (p.idx_hi - 1)
      BY <2>2
    <3>2. Mid(ma) \in Int /\ ma.raw_len \in Int
      BY <2>1, GeometryFacts
    <3>3. Low(p) \in Int /\ p.idx_hi \in Int /\ p.idx_hi - Low(p) - 1 < 0
      BY <2>2, <2>3, <3>2
    <3> QED BY <3>1, <3>3
  <2> QED BY <2>1, <2>3 DEF Framed, Bracketed, InvertedOnlyWhenEmpty
<1> QED BY <1>1, InductiveInvariant, PTL

(* For every array: after any sequence of calls each end of the window is next
   to an entry in use, or at its limit. *)
THEOREM TightCorrect == Spec => []TightWindow
<1>1. IInv => TightWindow
  BY DEF IInv, Tight, TightWindow
<1> QED BY <1>1, InductiveInvariant, PTL

(* For every array: an entry outside the window is handed out only if no entry
   inside it is free. *)
THEOREM GrowthCorrect == Spec => GrowsOnlyWhenPacked
<1> DEFINE A == \A i \in taken' \ taken : i \notin Window(p) => Window(p) \subseteq taken
<1>1. IInv /\ [Next]_vars => [A]_vars
  <2> SUFFICES ASSUME IInv, Next PROVE A
    BY DEF Next
  <2>1. CASE Alloc
    BY <2>1, AllocStep
  <2>2. ASSUME NEW i \in 0 .. ma.raw_len - 1, Free(i) PROVE A
    BY <2>2, FreeStep
  <2> QED BY <2>1, <2>2 DEF Next
<1> QED BY <1>1, InductiveInvariant, PTL DEF Spec, GrowsOnlyWhenPacked

(* For every array: mga_alloc_entry and mga_free_entry implement SlotPool. *)
THEOREM PoolRefinement == Spec => ImplementsPool
<1>1. Init => Pool!Init
  <2> SUFFICES ASSUME Init PROVE Pool!Init
    OBVIOUS
  <2>1. ma.total_entries \in Nat
    BY GeometriesAssumption, GeometryFacts DEF Init
  <2> QED BY <2>1 DEF Init, Pool!Init
<1>2. IInv /\ [Next]_vars => [Pool!Next]_Pool!vars
  <2> SUFFICES ASSUME IInv, [Next]_vars PROVE [Pool!Next]_Pool!vars
    OBVIOUS
  <2> USE DEF Pool!Next, Pool!vars
  <2>1. CASE Alloc
    BY <2>1, AllocStep DEF Alloc
  <2>2. ASSUME NEW i \in 0 .. ma.raw_len - 1, Free(i) PROVE [Pool!Next]_Pool!vars
    BY <2>2, FreeStep
  <2>3. CASE UNCHANGED vars
    BY <2>3 DEF vars
  <2> QED BY <2>1, <2>2, <2>3 DEF Next
<1> QED BY <1>1, <1>2, InductiveInvariant, PTL DEF Spec, ImplementsPool, Pool!Spec

=============================================================================
