--------------------------- MODULE MgarrayLemmas ---------------------------
(***************************************************************************)
(* Lemmas about the operators of Mgarray, for every range, every raw array *)
(* and every word size that IsGeometry allows.  The proofs about one array *)
(* (MgarrayProofs) and about the shared tables that are managed arrays     *)
(* rest on them.                                                           *)
(***************************************************************************)
EXTENDS Mgarray, FiniteSetTheorems, WellFoundedInduction, TLAPS

(* A value that fits a word is unchanged by uint32_t arithmetic. *)
LEMMA U32Small == ASSUME NEW x \in 0 .. Word - 1 PROVE U32(x) = x
BY WordAssumption, Z3 DEF U32

(* An unsigned subtraction that goes below zero wraps once. *)
LEMMA U32Negative == ASSUME NEW x \in -Word .. -1 PROVE U32(x) = x + Word
BY WordAssumption, SMTT(30) DEF U32

(* 0xFFFFFFFF + 1 is 0: the low end of an array that starts at entry 0. *)
LEMMA U32Word == U32(Word) = 0
BY WordAssumption, SMT DEF U32

(* uint32_t arithmetic yields words. *)
LEMMA U32Range == ASSUME NEW x \in Int PROVE U32(x) \in 0 .. Word - 1
BY WordAssumption, Z3 DEF U32

(* Min is well defined on a non-empty set of naturals (least number principle). *)
LEMMA MinNat ==
  ASSUME NEW S, S \subseteq Nat, S # {}
  PROVE  /\ Min(S) \in S
         /\ \A y \in S : Min(S) <= y
<1>1. \E x \in S : \A y \in S : ~(<<y, x>> \in OpToRel(<, Nat))
  BY WFMin, NatLessThanWellFounded
<1>2. OpToRel(<, Nat) = {ss \in Nat \X Nat : ss[1] < ss[2]}
  BY Zenon DEF OpToRel
<1>3. \E x \in S : \A y \in S : ~(<<y, x>> \in {ss \in Nat \X Nat : ss[1] < ss[2]})
  BY <1>1, <1>2, Zenon
<1>4. PICK x \in S : \A y \in S : ~(<<y, x>> \in {ss \in Nat \X Nat : ss[1] < ss[2]})
  BY <1>3
<1>5. ASSUME NEW y \in S PROVE x <= y
  <2>1. x \in Nat /\ y \in Nat
    OBVIOUS
  <2>2. <<y, x>> \in Nat \X Nat /\ <<y, x>>[1] = y /\ <<y, x>>[2] = x
    BY <2>1
  <2>3. ~(y < x)
    BY <1>4, <2>2, Zenon
  <2> QED BY <2>1, <2>3
<1>6. \E m \in S : \A y \in S : m <= y
  BY <1>5
<1> QED BY <1>6, Zenon DEF Min

(* Max is well defined on a non-empty bounded set: reflect it and take Min. *)
LEMMA MaxBounded ==
  ASSUME NEW n \in Nat, NEW S, S \subseteq 0 .. n, S # {}
  PROVE  /\ Max(S) \in S
         /\ \A y \in S : Max(S) >= y
<1> DEFINE T == {n - s : s \in S}
<1>1. T \subseteq Nat /\ T # {}
  <2>1. ASSUME NEW s \in S PROVE n - s \in Nat
    <3>1. s \in 0 .. n
      OBVIOUS
    <3> QED BY <3>1
  <2> QED BY <2>1
<1>2. Min(T) \in T /\ \A t \in T : Min(T) <= t
  BY <1>1, MinNat
<1>3. PICK s \in S : Min(T) = n - s
  BY <1>2
<1>4. ASSUME NEW y \in S PROVE s >= y
  <2>1. n - y \in T
    OBVIOUS
  <2>2. n - s <= n - y
    BY <2>1, <1>2, <1>3
  <2> QED BY <2>2
<1>5. \E m \in S : \A y \in S : m >= y
  BY <1>4
<1> QED BY <1>5, Zenon DEF Max
-----------------------------------------------------------------------------
(* The low end as an integer: the word before 0 is read as -1. *)
Low(q) == IF q.idx_lo = Word - 1 THEN -1 ELSE q.idx_lo

(* The ends of the window: below the middle and within the raw array. *)
Bracketed(g, q) == /\ q \in Infos
                   /\ q.idx_lo <= Mid(g) \/ q.idx_lo = Word - 1
                   /\ q.idx_hi <= g.raw_len

(* The window covers the entries in use: what every operation preserves. *)
Framed(g, q, T) == Bracketed(g, q) /\ T \subseteq Window(q)

(* What mga_init makes of its arguments: the middle is an entry of the range. *)
LEMMA GeometryFacts ==
  ASSUME NEW g, IsGeometry(g)
  PROVE  /\ g.idx_min \in Nat /\ g.idx_max \in Nat /\ g.raw_len \in Nat
         /\ g.total_entries = g.idx_max - g.idx_min + 1
         /\ g.total_entries \in 1 .. g.raw_len
         /\ 2 * g.raw_len + 2 < Word
         /\ Mid(g) = g.idx_min + g.total_entries \div 2
         /\ Mid(g) \in 0 .. g.raw_len - 1
<1>1. /\ g = MkGeometry(g.idx_min, g.idx_max, g.raw_len)
      /\ g.idx_min \in Nat /\ g.idx_max \in Nat /\ g.raw_len \in Nat
      /\ g.idx_min <= g.idx_max /\ g.idx_max < g.raw_len
      /\ 2 * g.raw_len + 2 < Word
  BY DEF IsGeometry
<1>2. g.total_entries = g.idx_max - g.idx_min + 1
  BY <1>1 DEF MkGeometry
<1>3. g.total_entries \in 1 .. g.raw_len
  BY <1>1, <1>2
<1>4. /\ g.idx_min + g.total_entries \div 2 \in 0 .. g.raw_len - 1
      /\ g.idx_min + g.total_entries \div 2 \in 0 .. Word - 1
  BY <1>1, <1>2, <1>3, WordAssumption
<1>5. Mid(g) = g.idx_min + g.total_entries \div 2
  BY <1>4, U32Small DEF Mid
<1> QED BY <1>1, <1>2, <1>3, <1>4, <1>5

(* The window and its signed length in terms of Low: uint32_t wrap and the
   conversion to int do what the code expects of them. *)
LEMMA WindowShape ==
  ASSUME NEW g, IsGeometry(g), NEW q, Bracketed(g, q)
  PROVE  /\ Low(q) \in -1 .. Mid(g)
         /\ U32(q.idx_lo + 1) = Low(q) + 1
         /\ Window(q) = (Low(q) + 1) .. (q.idx_hi - 1)
         /\ WindowLen(q) = q.idx_hi - Low(q) - 1
<1>0. /\ Word \in Nat /\ g.raw_len \in Nat /\ 2 * g.raw_len + 2 < Word
      /\ Mid(g) \in 0 .. g.raw_len - 1
  BY WordAssumption, GeometryFacts
<1>1. q.idx_lo \in 0 .. Word - 1 /\ q.idx_hi \in 0 .. g.raw_len
  BY DEF Bracketed, Infos
<1>2. Low(q) \in -1 .. Mid(g)
  BY <1>0, <1>1 DEF Bracketed, Low
<1>3. U32(q.idx_lo + 1) = Low(q) + 1
  <2>1. CASE q.idx_lo = Word - 1
    BY <2>1, <1>0, U32Word DEF Low
  <2>2. CASE q.idx_lo # Word - 1
    <3>1. q.idx_lo + 1 \in 0 .. Word - 1
      BY <2>2, <1>0, <1>1
    <3> QED BY <3>1, <2>2, U32Small DEF Low
  <2> QED BY <2>1, <2>2
<1>4. WindowLen(q) = q.idx_hi - Low(q) - 1
  <2> DEFINE d == q.idx_hi - q.idx_lo - 1
  <2>1. CASE q.idx_lo = Word - 1
    <3>1. d = q.idx_hi - Word /\ Low(q) = -1
      BY <2>1, <1>0, <1>1 DEF Low
    <3>2. U32(d) = q.idx_hi
      <4>1. d \in -Word .. -1
        BY <3>1, <1>0, <1>1
      <4> HIDE DEF d
      <4> QED BY <4>1, <3>1, <1>0, <1>1, U32Negative
    <3> QED BY <3>1, <3>2, <1>0, <1>1 DEF WindowLen, Int32
  <2>2. CASE q.idx_lo # Word - 1 /\ d >= 0
    <3>1. U32(d) = d
      <4>1. d \in 0 .. Word - 1
        BY <2>2, <1>0, <1>1
      <4> HIDE DEF d
      <4> QED BY <4>1, U32Small
    <3>2. d = q.idx_hi - Low(q) - 1 /\ 2 * d < Word
      BY <2>2, <1>0, <1>1 DEF Low
    <3> QED BY <3>1, <3>2 DEF WindowLen, Int32
  <2>3. CASE q.idx_lo # Word - 1 /\ d < 0
    <3>1. q.idx_lo <= Mid(g) /\ Low(q) = q.idx_lo
      BY <2>3 DEF Bracketed, Low
    <3>2. d \in -Word .. -1 /\ d >= - g.raw_len
      BY <3>1, <2>3, <1>0, <1>1
    <3>3. U32(d) = d + Word
      BY <3>2, U32Negative
    <3> QED BY <3>1, <3>2, <3>3, <1>0, <1>1 DEF WindowLen, Int32
  <2> QED BY <2>1, <2>2, <2>3, <1>1
<1> QED BY <1>2, <1>3, <1>4 DEF Window

(* The consequences of Framed that the steps below use. *)
LEMMA FramedFacts ==
  ASSUME NEW g, IsGeometry(g), NEW q, NEW T, Framed(g, q, T)
  PROVE  /\ Low(q) \in -1 .. Mid(g)
         /\ q.idx_lo \in 0 .. Word - 1
         /\ q.idx_hi \in 0 .. g.raw_len
         /\ q.num_entries \in 0 .. Word - 1
         /\ Window(q) = (Low(q) + 1) .. (q.idx_hi - 1)
         /\ WindowLen(q) = q.idx_hi - Low(q) - 1
         /\ T \subseteq (Low(q) + 1) .. (q.idx_hi - 1)
         /\ T \subseteq 0 .. g.raw_len - 1
         /\ IsFiniteSet(T)
<1>1. q \in Infos /\ q.idx_hi <= g.raw_len /\ T \subseteq Window(q)
  BY DEF Framed, Bracketed
<1>2. /\ Low(q) \in -1 .. Mid(g)
      /\ Window(q) = (Low(q) + 1) .. (q.idx_hi - 1)
      /\ WindowLen(q) = q.idx_hi - Low(q) - 1
  BY WindowShape DEF Framed
<1>3. /\ g.raw_len \in Nat /\ 2 * g.raw_len + 2 < Word /\ Word \in Nat
      /\ Mid(g) \in 0 .. g.raw_len - 1
  BY GeometryFacts, WordAssumption
<1>4. /\ q.idx_lo \in 0 .. Word - 1 /\ q.idx_hi \in 0 .. g.raw_len
      /\ q.num_entries \in 0 .. Word - 1
  BY <1>1, <1>3 DEF Infos
<1>6. IsFiniteSet(T)
  <2>3. Low(q) + 1 \in Int
    BY <1>2, <1>3
  <2>4. q.idx_hi - 1 \in Int
    BY <1>3, <1>4
  <2>0. Low(q) + 1 \in Int /\ q.idx_hi - 1 \in Int
    BY <2>3, <2>4
  <2>1. IsFiniteSet((Low(q) + 1) .. (q.idx_hi - 1))
    BY <2>0, FS_Interval, Zenon
  <2> QED BY <2>1, <1>1, <1>2, FS_Subset
<1>7. T \subseteq 0 .. g.raw_len - 1
  <2>1. SUFFICES ASSUME NEW t \in T PROVE t \in 0 .. g.raw_len - 1
    OBVIOUS
  <2>2. t \in (Low(q) + 1) .. (q.idx_hi - 1)
    BY <1>1, <1>2
  <2>3. Low(q) + 1 \in Nat
    BY <1>2, <1>3
  <2> QED BY <2>2, <2>3, <1>3, <1>4
<1> QED BY <1>1, <1>2, <1>4, <1>6, <1>7

(* The window has as many entries as the code says when it is not inverted. *)
LEMMA WindowSize ==
  ASSUME NEW g, IsGeometry(g), NEW q, Bracketed(g, q)
  PROVE  /\ IsFiniteSet(Window(q))
         /\ Cardinality(Window(q)) = IF WindowLen(q) < 0 THEN 0 ELSE WindowLen(q)
<1>1. Framed(g, q, {})
  BY DEF Framed
<1>2. /\ Low(q) \in -1 .. Mid(g) /\ q.idx_hi \in 0 .. g.raw_len
      /\ Window(q) = (Low(q) + 1) .. (q.idx_hi - 1)
      /\ WindowLen(q) = q.idx_hi - Low(q) - 1
  BY <1>1, FramedFacts
<1>4. Mid(g) \in Int /\ g.raw_len \in Int
  BY GeometryFacts
<1>5. Low(q) \in Int /\ q.idx_hi \in Int
  BY <1>2, <1>4
<1>6. Low(q) + 1 \in Int /\ q.idx_hi - 1 \in Int
  BY <1>5
<1>7. /\ IsFiniteSet((Low(q) + 1) .. (q.idx_hi - 1))
      /\ Cardinality((Low(q) + 1) .. (q.idx_hi - 1))
        = IF Low(q) + 1 > q.idx_hi - 1 THEN 0 ELSE q.idx_hi - 1 - (Low(q) + 1) + 1
  BY <1>6, FS_Interval, Zenon
<1>8. (IF Low(q) + 1 > q.idx_hi - 1 THEN 0 ELSE q.idx_hi - 1 - (Low(q) + 1) + 1)
        = IF q.idx_hi - Low(q) - 1 < 0 THEN 0 ELSE q.idx_hi - Low(q) - 1
  BY <1>5
<1> QED BY <1>2, <1>7, <1>8, Zenon

(* Where mga_alloc_entry leaves the window after giving entry i: as it was, or,
   only when the window is packed, one entry wider at the end that was given. *)
Grown(g, q, i, q2) ==
  /\ Bracketed(g, q2) /\ q2.num_entries = q.num_entries
  /\ Window(q) \cup {i} \subseteq Window(q2)
  /\ \/ q2 = q
     \/ /\ WindowLen(q) <= q.num_entries
        /\ \/ i = q.idx_hi /\ q2.idx_lo = q.idx_lo /\ q2.idx_hi = i + 1
           \/ i = q.idx_lo /\ U32(q2.idx_lo + 1) = i /\ q2.idx_hi = q.idx_hi
                           /\ U32(q.idx_lo + 1) = i + 1

(* What mga_alloc_entry may answer: NULL, an entry, or an abort. *)
Allocated(g, q, T, r) ==
  \/ /\ r.fault = "none" /\ r.idx = NoEntry /\ q.num_entries >= g.total_entries
     /\ r.p = q /\ r.taken = T
  \/ /\ r.fault = "none" /\ r.idx \in 0 .. g.raw_len - 1 /\ r.idx \notin T
     /\ q.num_entries < g.total_entries /\ WindowLen(q) >= 0
     /\ r.taken = T \cup {r.idx}
     /\ \E q2 : /\ Grown(g, q, r.idx, q2)
                /\ r.p = [q2 EXCEPT !.num_entries = U32(q.num_entries + 1)]
  \/ /\ r.fault \in {"assert_diff", "overrun"} /\ r.p = q /\ r.taken = T
  \/ /\ r.fault = "assert_interior" /\ r.p = q /\ r.taken = T
     /\ WindowLen(q) > q.num_entries /\ Window(q) \subseteq T

(* Taking a free entry answers with it, or with an access outside the array. *)
LEMMA TakeAllocates ==
  ASSUME NEW g, IsGeometry(g), NEW q, NEW T,
         q.num_entries < g.total_entries, WindowLen(q) >= 0,
         NEW i \in Nat, i \notin T, NEW q2,
         i < g.raw_len => Grown(g, q, i, q2)
  PROVE  Allocated(g, q, T, Take(g, q, T, i, q2))
<1>1. CASE i >= g.raw_len
  BY <1>1 DEF Take, Fault, Allocated
<1>2. CASE ~(i >= g.raw_len)
  <2> DEFINE r == Take(g, q, T, i, q2)
  <2>1. i \in 0 .. g.raw_len - 1 /\ i < g.raw_len
    BY <1>2, GeometryFacts
  <2>2. r = [p |-> [q2 EXCEPT !.num_entries = U32(q.num_entries + 1)],
             taken |-> T \cup {i}, idx |-> i, fault |-> "none"]
    BY <1>2 DEF Take
  <2>4. /\ r.fault = "none" /\ r.idx = i /\ r.taken = T \cup {i}
        /\ r.p = [q2 EXCEPT !.num_entries = U32(q.num_entries + 1)]
    BY <2>2
  <2> HIDE DEF r
  <2>5. Allocated(g, q, T, r)
    BY <2>1, <2>4, Zenon DEF Allocated
  <2> QED BY <2>5 DEF r
<1> QED BY <1>1, <1>2

(* mga_alloc_entry, case by case: NULL only when the array is full, else a
   free entry of the raw array, else an abort that changes nothing. *)
LEMMA AllocAllocates ==
  ASSUME NEW g, IsGeometry(g), NEW q, NEW T, Framed(g, q, T)
  PROVE  Allocated(g, q, T, mga_alloc_entry(g, q, T))
<1>1. /\ Low(q) \in -1 .. Mid(g) /\ q.idx_lo \in 0 .. Word - 1
      /\ q.idx_hi \in 0 .. g.raw_len /\ q.num_entries \in 0 .. Word - 1
      /\ Window(q) = (Low(q) + 1) .. (q.idx_hi - 1)
      /\ WindowLen(q) = q.idx_hi - Low(q) - 1
      /\ T \subseteq Window(q) /\ Bracketed(g, q)
  BY FramedFacts DEF Framed
<1>2. /\ g.raw_len \in Nat /\ 2 * g.raw_len + 2 < Word /\ Word \in Nat
      /\ g.total_entries \in 1 .. g.raw_len /\ Mid(g) \in 0 .. g.raw_len - 1
  BY GeometryFacts, WordAssumption
<1>3. /\ Low(q) \in Int /\ q.idx_hi \in Nat /\ q.num_entries \in Nat
      /\ WindowLen(q) \in Int /\ g.total_entries \in Int
  BY <1>1, <1>2
<1>0. q.idx_lo \in Nat /\ q.idx_lo < Word /\ q.idx_hi <= g.raw_len /\ Low(q) >= -1
  BY <1>1, <1>2
<1>4. CASE q.num_entries >= g.total_entries
  BY <1>4 DEF mga_alloc_entry, Fault, Allocated
<1>5. CASE ~(q.num_entries >= g.total_entries) /\ WindowLen(q) < 0
  <2>1. mga_alloc_entry(g, q, T) = Fault(q, T, "assert_diff")
    BY <1>5, Zenon DEF mga_alloc_entry
  <2> QED BY <2>1 DEF Fault, Allocated
<1>6. CASE /\ ~(q.num_entries >= g.total_entries) /\ ~(WindowLen(q) < 0)
           /\ WindowLen(q) > q.num_entries
  <2> DEFINE F == Window(q) \ T
  <2>0. CASE F = {}
    <3>1. mga_alloc_entry(g, q, T) = Fault(q, T, "assert_interior")
      BY <2>0, <1>6, Zenon DEF mga_alloc_entry, AllocInterior
    <3>2. Window(q) \subseteq T
      BY <2>0
    <3> QED BY <3>1, <3>2, <1>6 DEF Fault, Allocated
  <2>1. CASE F # {}
    <3>2. F \subseteq Nat
      <4>1. SUFFICES ASSUME NEW f \in F PROVE f \in Nat
        OBVIOUS
      <4>2. f \in (Low(q) + 1) .. (q.idx_hi - 1)
        BY <1>1
      <4> QED BY <4>2, <1>0, <1>2, <1>3
    <3>3. Min(F) \in F
      BY <2>1, <3>2, MinNat
    <3>4. mga_alloc_entry(g, q, T) = Take(g, q, T, Min(F), q)
      BY <2>1, <1>6, Zenon DEF mga_alloc_entry, AllocInterior
    <3>5. Min(F) \in Nat /\ Min(F) \notin T /\ Grown(g, q, Min(F), q)
      BY <3>2, <3>3, <1>1 DEF Grown
    <3> HIDE DEF F
    <3>6. q.num_entries < g.total_entries /\ WindowLen(q) >= 0
      BY <1>3, <1>6
    <3>7. Allocated(g, q, T, Take(g, q, T, Min(F), q))
      BY <3>5, <3>6, TakeAllocates, Zenon
    <3> QED BY <3>4, <3>7
  <2> QED BY <2>0, <2>1
<1>7. CASE /\ ~(q.num_entries >= g.total_entries) /\ ~(WindowLen(q) < 0)
           /\ ~(WindowLen(q) > q.num_entries)
  <2>1. Low(q) + 1 <= q.idx_hi
    BY <1>7, <1>1, <1>3
  <2>0. /\ q.num_entries < g.total_entries /\ WindowLen(q) >= 0
        /\ WindowLen(q) <= q.num_entries
    BY <1>3, <1>7
  <2>2. mga_alloc_entry(g, q, T) =
          IF mga_more_lo_than_hi(g, q) THEN AllocHi(g, q, T) ELSE AllocLo(g, q, T)
    BY <1>7, Zenon DEF mga_alloc_entry, AllocOutside
  <2>3. Allocated(g, q, T, AllocHi(g, q, T))
    <3> DEFINE q2 == [q EXCEPT !.idx_hi = U32(q.idx_hi + 1)]
    <3>1. q.idx_hi \notin T
      BY <1>1, <1>3
    <3>2. ASSUME q.idx_hi < g.raw_len PROVE Grown(g, q, q.idx_hi, q2)
      <4>1. q.idx_hi + 1 \in 0 .. Word - 1
        BY <3>2, <1>2, <1>3
      <4>2. U32(q.idx_hi + 1) = q.idx_hi + 1
        BY <4>1, U32Small
      <4>3. /\ q2.idx_hi = q.idx_hi + 1 /\ q2.idx_lo = q.idx_lo /\ q2 \in Infos
            /\ q2.num_entries = q.num_entries
        BY <4>1, <4>2, <1>1 DEF Bracketed, Infos
      <4>4. Bracketed(g, q2)
        <5>1. q.idx_hi + 1 <= g.raw_len
          BY <3>2, <1>2, <1>3
        <5>2. q.idx_lo <= Mid(g) \/ q.idx_lo = Word - 1
          BY <1>1 DEF Bracketed
        <5> HIDE DEF q2
        <5> QED BY <5>1, <5>2, <4>3 DEF Bracketed
      <4>5. Low(q2) = Low(q)
        BY <4>3 DEF Low
      <4> HIDE DEF q2
      <4>6. Window(q2) = (Low(q) + 1) .. ((q.idx_hi + 1) - 1)
        <5>1. Window(q2) = (Low(q2) + 1) .. (q2.idx_hi - 1)
          BY <4>4, WindowShape, Zenon
        <5> QED BY <5>1, <4>3, <4>5
      <4>7. Window(q) \cup {q.idx_hi} \subseteq Window(q2)
        BY <4>6, <1>1, <1>3, <2>1
      <4> QED BY <4>3, <4>4, <4>7, <2>0, Zenon DEF Grown
    <3> HIDE DEF q2
    <3>3. Allocated(g, q, T, Take(g, q, T, q.idx_hi, q2))
      BY <3>1, <3>2, <1>3, <2>0, TakeAllocates, Zenon
    <3> QED BY <3>3 DEF AllocHi, q2
  <2>4. Allocated(g, q, T, AllocLo(g, q, T))
    <3> DEFINE q2 == [q EXCEPT !.idx_lo = U32(q.idx_lo - 1)]
    <3>1. q.idx_lo \notin T
      <4>1. SUFFICES ASSUME q.idx_lo \in T PROVE FALSE
        OBVIOUS
      <4>2. q.idx_lo \in (Low(q) + 1) .. (q.idx_hi - 1)
        BY <4>1, <1>1
      <4>3. Low(q) + 1 <= q.idx_lo /\ q.idx_lo <= q.idx_hi - 1
        BY <4>2, <1>3
      <4> QED BY <4>3, <1>0, <1>2, <1>3 DEF Low
    <3>2. ASSUME q.idx_lo < g.raw_len PROVE Grown(g, q, q.idx_lo, q2)
      <4>1. Low(q) = q.idx_lo /\ q.idx_lo \in 0 .. Mid(g)
        BY <3>2, <1>1, <1>2 DEF Low
      <4>2. U32(q.idx_lo - 1) = IF q.idx_lo = 0 THEN Word - 1 ELSE q.idx_lo - 1
        <5>1. CASE q.idx_lo = 0
          <6>1. q.idx_lo - 1 = -1 /\ -1 \in -Word .. -1
            BY <5>1, WordAssumption
          <6> QED BY <5>1, <6>1, <1>2, U32Negative
        <5>2. CASE q.idx_lo # 0
          <6>1. q.idx_lo - 1 \in 0 .. Word - 1
            BY <5>2, <1>0, <1>2
          <6> QED BY <5>2, <6>1, U32Small
        <5> QED BY <5>1, <5>2
      <4>3. U32(q.idx_lo - 1) \in 0 .. Word - 1
        BY <4>2, <1>0, <1>2
      <4>4. /\ q2.idx_hi = q.idx_hi /\ q2.idx_lo = U32(q.idx_lo - 1) /\ q2 \in Infos
            /\ q2.num_entries = q.num_entries
        BY <4>3, <1>1 DEF Bracketed, Infos
      <4>5. Bracketed(g, q2)
        BY <4>1, <4>2, <4>4, <1>1, <1>2 DEF Bracketed
      <4>6. Low(q2) = q.idx_lo - 1
        BY <4>1, <4>2, <4>4, <1>2 DEF Low
      <4> HIDE DEF q2
      <4>7. /\ Window(q2) = (q.idx_lo - 1 + 1) .. (q.idx_hi - 1)
            /\ U32(q2.idx_lo + 1) = q.idx_lo - 1 + 1
        <5>1. /\ Window(q2) = (Low(q2) + 1) .. (q2.idx_hi - 1)
              /\ U32(q2.idx_lo + 1) = Low(q2) + 1
          BY <4>5, WindowShape, Zenon
        <5> QED BY <5>1, <4>4, <4>6, Zenon
      <4>8. Window(q) \cup {q.idx_lo} \subseteq Window(q2)
        BY <4>1, <4>7, <1>1, <1>0, <1>3, <2>1
      <4>9. U32(q2.idx_lo + 1) = q.idx_lo
        BY <4>7, <1>0
      <4>10. U32(q.idx_lo + 1) = q.idx_lo + 1
        BY <1>1, <4>1, WindowShape
      <4> QED BY <4>4, <4>5, <4>8, <4>9, <4>10, <2>0, Zenon DEF Grown
    <3> HIDE DEF q2
    <3>4. Allocated(g, q, T, Take(g, q, T, q.idx_lo, q2))
      BY <3>1, <3>2, <1>0, <2>0, TakeAllocates, Zenon
    <3> QED BY <3>4 DEF AllocLo, q2
  <2> QED BY <2>2, <2>3, <2>4
<1> QED BY <1>4, <1>5, <1>6, <1>7, <1>3

(* The word num_entries is not part of the window. *)
LEMMA CountedWindow ==
  ASSUME NEW g, NEW q, Bracketed(g, q), NEW n \in 0 .. Word - 1
  PROVE  LET r == [q EXCEPT !.num_entries = n] IN
           /\ Bracketed(g, r) /\ Window(r) = Window(q) /\ WindowLen(r) = WindowLen(q)
           /\ r.num_entries = n /\ r.idx_lo = q.idx_lo /\ r.idx_hi = q.idx_hi
<1> DEFINE r == [q EXCEPT !.num_entries = n]
<1>1. /\ r.num_entries = n /\ r.idx_lo = q.idx_lo /\ r.idx_hi = q.idx_hi /\ r \in Infos
  BY DEF Bracketed, Infos
<1> HIDE DEF r
<1>2. Bracketed(g, r) /\ Window(r) = Window(q) /\ WindowLen(r) = WindowLen(q)
  BY <1>1 DEF Bracketed, Window, WindowLen
<1> QED BY <1>1, <1>2 DEF r

(* An entry given is new, lies in the raw array and in the window left behind. *)
LEMMA AllocFramed ==
  ASSUME NEW g, IsGeometry(g), NEW q, NEW T, Framed(g, q, T)
  PROVE  LET r == mga_alloc_entry(g, q, T) IN
           r.fault = "none" /\ r.idx # NoEntry =>
             /\ r.idx \in 0 .. g.raw_len - 1 /\ r.idx \notin T
             /\ r.taken = T \cup {r.idx} /\ Framed(g, r.p, r.taken)
<1> DEFINE r == mga_alloc_entry(g, q, T)
<1>1. Allocated(g, q, T, r)
  BY AllocAllocates
<1> HIDE DEF r
<1>2. SUFFICES ASSUME r.fault = "none", r.idx # NoEntry
               PROVE  /\ r.idx \in 0 .. g.raw_len - 1 /\ r.idx \notin T
                      /\ r.taken = T \cup {r.idx} /\ Framed(g, r.p, r.taken)
  BY DEF r
<1>3. PICK q2 : /\ r.idx \in 0 .. g.raw_len - 1 /\ r.idx \notin T
                /\ r.taken = T \cup {r.idx} /\ Grown(g, q, r.idx, q2)
                /\ r.p = [q2 EXCEPT !.num_entries = U32(q.num_entries + 1)]
  BY <1>1, <1>2, Zenon DEF Allocated
<1>4. U32(q.num_entries + 1) \in 0 .. Word - 1
  BY FramedFacts, U32Range
<1>5. Bracketed(g, r.p) /\ Window(r.p) = Window(q2)
  BY <1>3, <1>4, CountedWindow DEF Grown
<1>6. T \cup {r.idx} \subseteq Window(r.p)
  BY <1>3, <1>5 DEF Grown, Framed
<1> QED BY <1>3, <1>5, <1>6 DEF Framed

-----------------------------------------------------------------------------
(* The first loop of mga_free_entry skips no entry in use, and stops
   next to one or at its limit. *)
LEMMA RaiseLoBound ==
  ASSUME NEW g, IsGeometry(g), NEW lo \in 0 .. Mid(g), NEW L, L \subseteq Nat,
         \A j \in L : lo < j
  PROVE  /\ RaiseLo(g, lo, L) \in lo .. Mid(g)
         /\ \A j \in L : RaiseLo(g, lo, L) < j
         /\ RaiseLo(g, lo, L) = Mid(g) \/ RaiseLo(g, lo, L) + 1 \in L
<1>1. Mid(g) \in Nat
  BY GeometryFacts
<1>2. CASE ~(lo < Mid(g))
  BY <1>1, <1>2 DEF RaiseLo
<1>3. CASE lo < Mid(g)
  <2> DEFINE S == {j \in lo .. Mid(g) : j = Mid(g) \/ j + 1 \in L}
  <2>1. S \subseteq Nat /\ Mid(g) \in S
    BY <1>1, <1>3
  <2>2. Min(S) \in S /\ \A y \in S : Min(S) <= y
    BY <2>1, MinNat
  <2>3. RaiseLo(g, lo, L) = Min(S)
    BY <1>3 DEF RaiseLo
  <2>4. Min(S) \in lo .. Mid(g)
    BY <2>2
  <2>5. ASSUME NEW j \in L PROVE Min(S) < j
    <3>1. j \in Nat /\ lo < j
      OBVIOUS
    <3>2. CASE j > Mid(g)
      BY <3>1, <3>2, <2>4, <1>1
    <3>3. CASE j <= Mid(g)
      <4>1. j - 1 \in lo .. Mid(g) /\ (j - 1) + 1 = j
        BY <3>1, <3>3, <1>1
      <4>2. j - 1 \in S
        BY <4>1
      <4> QED BY <4>2, <2>2, <2>4, <3>1, <1>1
    <3> QED BY <3>1, <3>2, <3>3, <1>1
  <2> QED BY <2>2, <2>3, <2>4, <2>5
<1> QED BY <1>2, <1>3

(* The second loop of mga_free_entry skips no entry in use, and stops
   next to one or at its limit. *)
LEMMA LowerHiBound ==
  ASSUME NEW lo \in Nat, NEW hi \in Nat, lo + 1 < Word, NEW L, L \subseteq Nat,
         \A j \in L : lo < j /\ j < hi
  PROVE  /\ LowerHi(lo, hi, L) \in 0 .. hi
         /\ \A j \in L : j < LowerHi(lo, hi, L)
         /\ LowerHi(lo, hi, L) <= lo + 1 \/ LowerHi(lo, hi, L) - 1 \in L
<1>1. U32(lo + 1) = lo + 1
  <2>1. lo + 1 \in 0 .. Word - 1
    BY WordAssumption
  <2> QED BY <2>1, U32Small
<1>2. CASE ~(hi > lo + 1)
  BY <1>1, <1>2 DEF LowerHi
<1>3. CASE hi > lo + 1
  <2> DEFINE S == {j \in (lo + 1) .. hi : j = lo + 1 \/ j - 1 \in L}
  <2>1. S \subseteq 0 .. hi /\ lo + 1 \in S
    BY <1>3
  <2>2. Max(S) \in S /\ \A y \in S : Max(S) >= y
    BY <2>1, MaxBounded
  <2>3. LowerHi(lo, hi, L) = Max(S)
    BY <1>1, <1>3 DEF LowerHi
  <2>4. Max(S) \in 0 .. hi
    BY <2>1, <2>2
  <2>5. ASSUME NEW j \in L PROVE j < Max(S)
    <3>1. j \in Nat /\ lo < j /\ j < hi
      OBVIOUS
    <3>2. j + 1 \in (lo + 1) .. hi /\ (j + 1) - 1 = j
      BY <3>1
    <3>3. j + 1 \in S
      BY <3>2
    <3> QED BY <3>3, <2>2, <2>4, <3>1
  <2> QED BY <2>2, <2>3, <2>4, <2>5
<1> QED BY <1>2, <1>3

(* What mga_free_entry does: nothing, or entry i is released, the window still
   covers what is left, and each end is where its loop stops. *)
Freed(g, q, T, i, r) ==
  \/ r.p = q /\ r.taken = T
  \/ /\ i \in T /\ r.taken = T \ {i} /\ Framed(g, r.p, r.taken)
     /\ r.p.num_entries = U32(q.num_entries - 1)
     /\ r.p.idx_lo = Mid(g) \/ U32(r.p.idx_lo + 1) \in r.taken
     /\ r.p.idx_hi <= U32(r.p.idx_lo + 1) \/ r.p.idx_hi - 1 \in r.taken

(* mga_free_entry releases at most entry i and leaves the window as Freed says. *)
LEMMA FreeFrees ==
  ASSUME NEW g, IsGeometry(g), NEW q, NEW T, Framed(g, q, T), NEW i
  PROVE  Freed(g, q, T, i, mga_free_entry(g, q, T, i))
<1> DEFINE r == mga_free_entry(g, q, T, i)
<1>1. CASE i <= q.idx_lo \/ i >= q.idx_hi \/ i \notin T
  <2>1. r = [p |-> q, taken |-> T]
    BY <1>1 DEF mga_free_entry
  <2> QED BY <2>1 DEF Freed
<1>2. CASE ~(i <= q.idx_lo \/ i >= q.idx_hi \/ i \notin T)
  <2> DEFINE L  == T \ {i}
             lo == RaiseLo(g, q.idx_lo, L)
             hi == LowerHi(lo, q.idx_hi, L)
  <2>1. /\ Low(q) \in -1 .. Mid(g) /\ q.idx_lo \in 0 .. Word - 1
        /\ q.idx_hi \in 0 .. g.raw_len /\ q.num_entries \in 0 .. Word - 1
        /\ T \subseteq (Low(q) + 1) .. (q.idx_hi - 1) /\ T \subseteq 0 .. g.raw_len - 1
    BY FramedFacts
  <2>2. /\ g.raw_len \in Nat /\ 2 * g.raw_len + 2 < Word /\ Word \in Nat
        /\ Mid(g) \in 0 .. g.raw_len - 1
    BY GeometryFacts, WordAssumption
  <2>3. i \in T /\ i \in 0 .. g.raw_len - 1
    BY <1>2, <2>1
  <2>4. q.idx_lo \in 0 .. Mid(g) /\ Low(q) = q.idx_lo
    <3>1. q.idx_lo # Word - 1
      BY <1>2, <2>1, <2>2, <2>3
    <3> QED BY <3>1, <2>1, <2>2 DEF Low
  <2>5. L \subseteq Nat /\ \A j \in L : q.idx_lo < j /\ j < q.idx_hi
    <3>1. SUFFICES ASSUME NEW j \in L PROVE j \in Nat /\ q.idx_lo < j /\ j < q.idx_hi
      OBVIOUS
    <3>2. j \in (q.idx_lo + 1) .. (q.idx_hi - 1)
      BY <2>1, <2>4
    <3>3. q.idx_lo \in Nat /\ q.idx_hi \in Nat
      BY <2>1, <2>2
    <3> QED BY <3>2, <3>3
  <2>6. /\ lo \in q.idx_lo .. Mid(g) /\ \A j \in L : lo < j
        /\ lo = Mid(g) \/ lo + 1 \in L
    BY <2>4, <2>5, RaiseLoBound
  <2>7. lo \in Nat /\ lo + 1 < Word /\ q.idx_hi \in Nat
    BY <2>6, <2>4, <2>2, <2>1
  <2>8. /\ hi \in 0 .. q.idx_hi /\ \A j \in L : j < hi
        /\ hi <= lo + 1 \/ hi - 1 \in L
    <3> HIDE DEF lo
    <3>1. \A j \in L : lo < j /\ j < q.idx_hi
      BY <2>5, <2>6
    <3> HIDE DEF L
    <3> QED BY <3>1, <2>5, <2>7, LowerHiBound
  <2>12. r = [p |-> [num_entries |-> U32(q.num_entries - 1), idx_lo |-> lo, idx_hi |-> hi],
              taken |-> L]
    BY <1>2, Zenon DEF mga_free_entry
  <2>13. /\ r.taken = L /\ r.p.num_entries = U32(q.num_entries - 1)
         /\ r.p.idx_lo = lo /\ r.p.idx_hi = hi
         /\ r.p = [num_entries |-> U32(q.num_entries - 1), idx_lo |-> lo, idx_hi |-> hi]
    BY <2>12
  <2> HIDE DEF r, lo, hi
  <2>14. lo \in 0 .. Word - 1 /\ lo <= Mid(g) /\ hi \in 0 .. Word - 1 /\ hi <= g.raw_len
    BY <2>1, <2>2, <2>4, <2>6, <2>8
  <2>10. U32(q.num_entries - 1) \in 0 .. Word - 1
    BY <2>1, U32Range
  <2>15. Bracketed(g, r.p)
    BY <2>13, <2>10, <2>14 DEF Bracketed, Infos
  <2>16. U32(lo + 1) = lo + 1
    <3>0. lo + 1 \in 0 .. Word - 1
      BY <2>7, <2>2
    <3> QED BY <3>0, U32Small
  <2>17. Window(r.p) = (lo + 1) .. (hi - 1)
    BY <2>16, <2>13 DEF Window
  <2>18. L \subseteq Window(r.p)
    BY <2>17, <2>5, <2>6, <2>7, <2>8
  <2>19. Framed(g, r.p, r.taken)
    BY <2>13, <2>15, <2>18 DEF Framed
  <2>20. r.p.idx_lo = Mid(g) \/ U32(r.p.idx_lo + 1) \in r.taken
    BY <2>6, <2>13, <2>16
  <2>21. r.p.idx_hi <= U32(r.p.idx_lo + 1) \/ r.p.idx_hi - 1 \in r.taken
    BY <2>8, <2>13, <2>16
  <2>22. Freed(g, q, T, i, r)
    BY <2>3, <2>13, <2>19, <2>20, <2>21 DEF Freed
  <2> QED BY <2>22 DEF r
<1> QED BY <1>1, <1>2

-----------------------------------------------------------------------------
(***************************************************************************)
(* An array whose raw array is shared with another one, so that nothing is *)
(* known of where the entries in use lie.                                  *)
(***************************************************************************)
(* What mga_alloc_entry may abort with; "none" if it returns. *)
Aborts == {"none", "overrun", "assert_avail", "assert_interior", "assert_diff"}

(* An answer of words, with a new entry unless it is NULL or an abort. *)
Answered(g, q, T, r) ==
  /\ r.p \in Infos /\ r.taken \subseteq 0 .. g.raw_len - 1 /\ r.fault \in Aborts
  /\ r.fault = "none" /\ r.idx = NoEntry => r.p = q /\ r.taken = T
  /\ r.fault = "none" /\ r.idx # NoEntry =>
       r.idx \in 0 .. g.raw_len - 1 /\ r.idx \notin T /\ r.taken = T \cup {r.idx}

(* Any entry taken is an entry of the raw array that was free. *)
LEMMA TakeTyped ==
  ASSUME NEW g, IsGeometry(g), NEW q \in Infos, NEW q2 \in Infos,
         NEW T, T \subseteq 0 .. g.raw_len - 1, NEW i \in Nat
  PROVE  Answered(g, q, T, Take(g, q, T, i, q2))
<1>1. g.raw_len \in Nat
  BY GeometryFacts
<1>2. q.num_entries \in 0 .. Word - 1 /\ q.num_entries + 1 \in Int
  BY WordAssumption DEF Infos
<1>3. PICK n \in 0 .. Word - 1 : n = U32(q.num_entries + 1)
  BY <1>2, U32Range
<1>4. [q2 EXCEPT !.num_entries = n] \in Infos
  BY DEF Infos
<1>5. CASE i >= g.raw_len \/ i \in T
  <2>1. PICK f \in {"overrun", "assert_avail"} :
          Take(g, q, T, i, q2) = [p |-> q, taken |-> T, idx |-> NoEntry, fault |-> f]
    BY <1>5 DEF Take, Fault
  <2> QED BY <2>1 DEF Aborts, Answered
<1>6. CASE ~(i >= g.raw_len) /\ i \notin T
  <2>1. Take(g, q, T, i, q2) = [p |-> [q2 EXCEPT !.num_entries = n],
                                taken |-> T \cup {i}, idx |-> i, fault |-> "none"]
    BY <1>3, <1>6 DEF Take
  <2>2. PICK p2 \in Infos : p2 = [q2 EXCEPT !.num_entries = n]
    BY <1>4
  <2>3. i \in 0 .. g.raw_len - 1
    BY <1>1, <1>6
  <2>4. i # NoEntry
    BY DEF NoEntry
  <2> QED BY <1>2, <1>3, <1>6, <2>1, <2>2, <2>3, <2>4 DEF Aborts, Answered
<1> QED BY <1>5, <1>6

(* mga_alloc_entry answers with words, and with an entry that was free. *)
LEMMA AllocTyped ==
  ASSUME NEW g, IsGeometry(g), NEW q \in Infos, NEW T, T \subseteq 0 .. g.raw_len - 1
  PROVE  Answered(g, q, T, mga_alloc_entry(g, q, T))
<1>0. /\ q.idx_lo \in Nat /\ q.idx_hi \in Nat /\ q.idx_lo \in 0 .. Word - 1
      /\ q.idx_hi \in 0 .. Word - 1 /\ Word \in Nat
  BY WordAssumption DEF Infos
<1>1. ASSUME NEW f \in Aborts PROVE Answered(g, q, T, Fault(q, T, f))
  BY DEF Fault, Answered
<1>2. ASSUME NEW q2 \in Infos, NEW i \in Nat PROVE Answered(g, q, T, Take(g, q, T, i, q2))
  BY TakeTyped
<1>4. Answered(g, q, T, AllocInterior(g, q, T))
  <2> DEFINE free == Window(q) \ T
  <2>1. CASE free = {}
    <3>1. "assert_interior" \in Aborts
      BY DEF Aborts
    <3>2. AllocInterior(g, q, T) = Fault(q, T, "assert_interior")
      BY <2>1 DEF AllocInterior
    <3> QED BY <3>1, <3>2, <1>1
  <2>2. CASE free # {}
    <3>1. U32(q.idx_lo + 1) \in 0 .. Word - 1
      BY <1>0, U32Range
    <3>2. free \subseteq Nat
      BY <3>1, <1>0 DEF Window
    <3>3. Min(free) \in Nat
      BY <3>2, <2>2, MinNat
    <3>4. AllocInterior(g, q, T) = Take(g, q, T, Min(free), q)
      BY <2>2 DEF AllocInterior
    <3> HIDE DEF free
    <3> QED BY <3>3, <3>4, <1>2
  <2> QED BY <2>1, <2>2
<1>5. Answered(g, q, T, AllocHi(g, q, T))
  <2>1. U32(q.idx_hi + 1) \in 0 .. Word - 1
    BY <1>0, U32Range
  <2>2. [q EXCEPT !.idx_hi = U32(q.idx_hi + 1)] \in Infos
    BY <2>1 DEF Infos
  <2> QED BY <2>2, <1>0, <1>2 DEF AllocHi
<1>6. Answered(g, q, T, AllocLo(g, q, T))
  <2>1. U32(q.idx_lo - 1) \in 0 .. Word - 1
    BY <1>0, U32Range
  <2>2. [q EXCEPT !.idx_lo = U32(q.idx_lo - 1)] \in Infos
    BY <2>1 DEF Infos
  <2> QED BY <2>2, <1>0, <1>2 DEF AllocLo
<1>7. Answered(g, q, T, mga_alloc_entry(g, q, T))
  <2>1. Answered(g, q, T, Fault(q, T, "none")) /\ Answered(g, q, T, Fault(q, T, "assert_diff"))
    BY <1>1 DEF Aborts
  <2> QED BY <2>1, <1>4, <1>5, <1>6, Zenon DEF mga_alloc_entry, AllocOutside
<1> QED BY <1>7

(* mga_free_entry leaves words, and releases at most entry i. *)
LEMMA FreeTyped ==
  ASSUME NEW g, IsGeometry(g), NEW q \in Infos, NEW T, NEW i
  PROVE  LET r == mga_free_entry(g, q, T, i) IN
           /\ r.p \in Infos
           /\ r.taken = T \/ (i \in T /\ r.taken = T \ {i})
<1>0. /\ q.idx_lo \in Nat /\ q.idx_hi \in Nat /\ q.idx_lo \in 0 .. Word - 1
      /\ q.idx_hi \in 0 .. Word - 1 /\ Word \in Nat /\ q.num_entries \in 0 .. Word - 1
  BY WordAssumption DEF Infos
<1>1. CASE i <= q.idx_lo \/ i >= q.idx_hi \/ i \notin T
  <2>1. mga_free_entry(g, q, T, i) = [p |-> q, taken |-> T]
    BY <1>1 DEF mga_free_entry
  <2> QED BY <2>1
<1>2. CASE ~(i <= q.idx_lo \/ i >= q.idx_hi \/ i \notin T)
  <2> DEFINE L  == T \ {i}
             lo == RaiseLo(g, q.idx_lo, L)
             hi == LowerHi(lo, q.idx_hi, L)
  <2>1. Mid(g) \in Nat /\ Mid(g) < Word
    BY GeometryFacts, <1>0
  <2>2. lo \in 0 .. Word - 1
    <3>1. CASE ~(q.idx_lo < Mid(g))
      BY <3>1, <1>0 DEF RaiseLo
    <3>2. CASE q.idx_lo < Mid(g)
      <4> DEFINE S == {j \in q.idx_lo .. Mid(g) : j = Mid(g) \/ j + 1 \in L}
      <4>1. S \subseteq Nat /\ Mid(g) \in S
        BY <2>1, <1>0, <3>2
      <4>2. Min(S) \in S
        BY <4>1, MinNat
      <4>3. lo = Min(S)
        BY <3>2 DEF RaiseLo
      <4> QED BY <4>2, <4>3, <2>1, <1>0
    <3> QED BY <3>1, <3>2
  <2> HIDE DEF lo
  <2>3. PICK m \in 0 .. Word - 1 : m = U32(lo + 1)
    BY <2>2, <1>0, U32Range
  <2>4. hi \in 0 .. Word - 1
    <3>1. CASE ~(q.idx_hi > m)
      BY <3>1, <1>0, <2>3 DEF LowerHi
    <3>2. CASE q.idx_hi > m
      <4> DEFINE S == {j \in m .. q.idx_hi : j = m \/ j - 1 \in L}
      <4>1. S \subseteq 0 .. q.idx_hi /\ m \in S
        BY <1>0, <3>2
      <4>2. Max(S) \in S
        BY <4>1, <1>0, MaxBounded
      <4>3. hi = Max(S)
        BY <3>2, <2>3 DEF LowerHi
      <4> QED BY <4>1, <4>2, <4>3, <1>0
    <3> QED BY <3>1, <3>2
  <2>5. U32(q.num_entries - 1) \in 0 .. Word - 1
    BY <1>0, U32Range
  <2>6. mga_free_entry(g, q, T, i) =
          [p |-> [num_entries |-> U32(q.num_entries - 1), idx_lo |-> lo, idx_hi |-> hi],
           taken |-> L]
    BY <1>2, Zenon DEF mga_free_entry, lo
  <2> HIDE DEF hi
  <2> QED BY <1>2, <2>2, <2>4, <2>5, <2>6 DEF Infos
<1> QED BY <1>1, <1>2

(* Two answers agree when the first is not an abort. *)
SameAnswer(r, s) == r.fault = "none" => s.fault = "none" /\ s.idx = r.idx /\ s.p = r.p

(* An array that keeps to the part P of the raw array does not notice which
   entries of the rest are in use, but for an abort. *)
LEMMA AllocShared ==
  ASSUME NEW g, NEW q, NEW T, NEW P, Window(q) \subseteq P
  PROVE  SameAnswer(mga_alloc_entry(g, q, T), mga_alloc_entry(g, q, T \cap P))
<1>1. ASSUME NEW i, NEW q2
      PROVE  SameAnswer(Take(g, q, T, i, q2), Take(g, q, T \cap P, i, q2))
  BY DEF SameAnswer, Take, Fault
<1>2. ASSUME NEW f PROVE SameAnswer(Fault(q, T, f), Fault(q, T \cap P, f))
  BY DEF SameAnswer, Fault
<1>3. Window(q) \ (T \cap P) = Window(q) \ T
  OBVIOUS
<1>4. SameAnswer(AllocInterior(g, q, T), AllocInterior(g, q, T \cap P))
  BY <1>1, <1>2, <1>3 DEF AllocInterior
<1>5. SameAnswer(AllocOutside(g, q, T), AllocOutside(g, q, T \cap P))
  BY <1>1 DEF AllocOutside, AllocHi, AllocLo
<1> QED BY <1>2, <1>4, <1>5 DEF mga_alloc_entry

(* Two releases: r with the entries T in use, s with those of the part P. *)
SameRelease(T, P, r, s) ==
  s.p = r.p /\ s.taken = r.taken \cap P /\ r.taken \ P = T \ P

(* A release does not depend on, or change, which entries of the rest are in
   use, if those lie outside of the window and of the first loop's way. *)
LEMMA FreeShared ==
  ASSUME NEW g, IsGeometry(g), NEW q \in Infos, NEW T, T \subseteq Nat, NEW P, NEW i,
         \A x \in T \ P : x <= q.idx_lo \/ (x >= q.idx_hi /\ x > Mid(g) + 1)
  PROVE  SameRelease(T, P, mga_free_entry(g, q, T, i), mga_free_entry(g, q, T \cap P, i))
<1>0. /\ q.idx_lo \in Nat /\ q.idx_hi \in Nat /\ q.idx_lo < Word /\ q.idx_hi < Word
      /\ Word \in Nat /\ Mid(g) \in Nat /\ Mid(g) + 1 < Word
  BY WordAssumption, GeometryFacts DEF Infos
<1>1. CASE i <= q.idx_lo \/ i >= q.idx_hi \/ i \notin T
  <2>1. mga_free_entry(g, q, T, i) = [p |-> q, taken |-> T]
    BY <1>1 DEF mga_free_entry
  <2>2. mga_free_entry(g, q, T \cap P, i) = [p |-> q, taken |-> T \cap P]
    BY <1>1 DEF mga_free_entry
  <2> QED BY <2>1, <2>2 DEF SameRelease
<1>2. CASE ~(i <= q.idx_lo \/ i >= q.idx_hi \/ i \notin T)
  <2>1. i \in T /\ i \in P /\ i \in Nat /\ q.idx_lo < i /\ i < q.idx_hi
    <3>1. i \in T /\ i \in Nat
      BY <1>2
    <3>2. q.idx_lo < i /\ i < q.idx_hi
      BY <1>0, <1>2, <3>1
    <3>3. i \in P
      BY <1>0, <3>1, <3>2
    <3> QED BY <3>1, <3>2, <3>3
  <2> DEFINE L == T \ {i}
             M == (T \cap P) \ {i}
             lo == RaiseLo(g, q.idx_lo, L)
  <2>2. RaiseLo(g, q.idx_lo, M) = lo
    <3>1. ASSUME NEW j \in q.idx_lo .. Mid(g) PROVE j + 1 \in L <=> j + 1 \in M
      <4>1. j + 1 \in Nat /\ ~(j + 1 <= q.idx_lo) /\ ~(j + 1 > Mid(g) + 1)
        BY <1>0
      <4> QED BY <4>1
    <3>2. {j \in q.idx_lo .. Mid(g) : j = Mid(g) \/ j + 1 \in L} =
          {j \in q.idx_lo .. Mid(g) : j = Mid(g) \/ j + 1 \in M}
      BY <3>1
    <3> HIDE DEF L, M
    <3> QED BY <3>2, Zenon DEF RaiseLo, lo
  <2>3. lo \in Nat /\ lo >= q.idx_lo /\ lo + 1 < Word
    <3>1. CASE ~(q.idx_lo < Mid(g))
      BY <3>1, <2>1, <1>0 DEF RaiseLo
    <3>2. CASE q.idx_lo < Mid(g)
      <4> DEFINE S == {j \in q.idx_lo .. Mid(g) : j = Mid(g) \/ j + 1 \in L}
      <4>1. S \subseteq Nat /\ Mid(g) \in S
        BY <1>0, <3>2
      <4>2. Min(S) \in S
        BY <4>1, MinNat
      <4>3. lo = Min(S)
        BY <3>2 DEF RaiseLo
      <4> QED BY <4>2, <4>3, <1>0
    <3> QED BY <3>1, <3>2
  <2> HIDE DEF lo
  <2>4. LowerHi(lo, q.idx_hi, M) = LowerHi(lo, q.idx_hi, L)
    <3>1. U32(lo + 1) = lo + 1
      <4>1. lo + 1 \in 0 .. Word - 1
        BY <1>0, <2>3
      <4> QED BY <4>1, U32Small
    <3>2. ASSUME NEW j \in (lo + 1) .. q.idx_hi, j # lo + 1
          PROVE  j - 1 \in L <=> j - 1 \in M
      <4>1. j - 1 \in Nat /\ ~(j - 1 <= q.idx_lo) /\ ~(j - 1 >= q.idx_hi)
        BY <1>0, <2>3, <3>2
      <4> QED BY <4>1
    <3>3. {j \in (lo + 1) .. q.idx_hi : j = lo + 1 \/ j - 1 \in L} =
          {j \in (lo + 1) .. q.idx_hi : j = lo + 1 \/ j - 1 \in M}
      BY <3>2
    <3> HIDE DEF L, M
    <3> QED BY <3>1, <3>3, Zenon DEF LowerHi
  <2>5. mga_free_entry(g, q, T, i) =
          [p |-> [num_entries |-> U32(q.num_entries - 1), idx_lo |-> lo,
                  idx_hi |-> LowerHi(lo, q.idx_hi, L)], taken |-> L]
    BY <1>2, Zenon DEF mga_free_entry, lo
  <2>6. mga_free_entry(g, q, T \cap P, i) =
          [p |-> [num_entries |-> U32(q.num_entries - 1), idx_lo |-> lo,
                  idx_hi |-> LowerHi(lo, q.idx_hi, L)], taken |-> M]
    <3>1. ~(i <= q.idx_lo \/ i >= q.idx_hi \/ i \notin T \cap P)
      BY <1>2, <2>1
    <3> QED BY <3>1, <2>2, <2>4, Zenon DEF mga_free_entry
  <2>7. M = L \cap P /\ L \ P = T \ P
    BY <2>1
  <2> HIDE DEF L, M
  <2>8. PICK p : p = [num_entries |-> U32(q.num_entries - 1), idx_lo |-> lo,
                      idx_hi |-> LowerHi(lo, q.idx_hi, L)]
    OBVIOUS
  <2>9. /\ mga_free_entry(g, q, T, i) = [p |-> p, taken |-> L]
        /\ mga_free_entry(g, q, T \cap P, i) = [p |-> p, taken |-> M]
    BY <2>5, <2>6, <2>8, Zenon
  <2> QED BY <2>7, <2>9 DEF SameRelease
<1> QED BY <1>1, <1>2
=============================================================================
