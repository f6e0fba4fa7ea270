------------------------------ MODULE Mgarray ------------------------------
(***************************************************************************)
(* The managed array of utils/mgarray.c: entries of a raw array are handed *)
(* out from the middle of [idx_min, idx_max] outwards, and the window      *)
(* (idx_lo, idx_hi), both ends exclusive, brackets every entry in use so   *)
(* that a reader scans no more than it must.                               *)
(*                                                                         *)
(* The module holds pure operators, since two managed arrays of the        *)
(* program share one raw array.  Their arguments are                       *)
(*   g      the fixed part of mgarray_t: idx_min, idx_max, total_entries,  *)
(*          and raw_len, the number of entries the raw array really has;   *)
(*   p      mga_info_t: num_entries, idx_lo, idx_hi, kept in shared memory;*)
(*   taken  the entries of the raw array whose isempty_func says TAKEN.    *)
(* Indexes are unsigned words: Word stands for 2^32.                       *)
(***************************************************************************)
EXTENDS Integers, FiniteSetsExt

CONSTANT Word          \* number of values of uint32_t

ASSUME WordAssumption == Word \in Nat /\ Word >= 2

(* Arithmetic of uint32_t, and the conversion of one to int. *)
U32(x) == x % Word

Int32(x) == IF 2 * x < Word THEN x ELSE x - Word

(* mga_info_t, of uint32_t fields. *)
Infos == [num_entries : 0 .. Word - 1, idx_lo : 0 .. Word - 1, idx_hi : 0 .. Word - 1]

(* "No entry": the NULL returned by mga_alloc_entry. *)
NoEntry == -1

(* The array a caller describes to mga_init, over a raw array of raw_len. *)
MkGeometry(index_min, index_max, raw_len) ==
  [idx_min |-> index_min, idx_max |-> index_max,
   total_entries |-> index_max - index_min + 1, raw_len |-> raw_len]

(* What mga_init is given: the caller's raw array holds the whole range,   *)
(* and words are wide enough for the sign of an index difference.          *)
IsGeometry(g) ==
  /\ g = MkGeometry(g.idx_min, g.idx_max, g.raw_len)
  /\ g.idx_min \in Nat /\ g.idx_max \in Nat /\ g.raw_len \in Nat
  /\ g.idx_min <= g.idx_max /\ g.idx_max < g.raw_len
  /\ 2 * g.raw_len + 2 < Word

Mid(g) == U32(g.idx_min + g.total_entries \div 2)

mga_init(g) ==
  [num_entries |-> 0, idx_lo |-> Mid(g), idx_hi |-> U32(Mid(g) + 1)]

(* The entries scanned by a loop from idx_lo + 1 while below idx_hi. *)
Window(p) == U32(p.idx_lo + 1) .. (p.idx_hi - 1)

mga_more_lo_than_hi(g, p) ==
  U32(Mid(g) - p.idx_lo) > U32(p.idx_hi - 1 - Mid(g))

(* The signed length of the window, as mga_alloc_entry computes it. *)
WindowLen(p) == Int32(U32(p.idx_hi - p.idx_lo - 1))

(***************************************************************************)
(* mga_alloc_entry.  The result has the new p and taken, the entry (or     *)
(* NoEntry) and a fault: the assert that aborts the program, or "overrun"  *)
(* for an access outside the raw array.                                    *)
(***************************************************************************)
Fault(p, taken, f) == [p |-> p, taken |-> taken, idx |-> NoEntry, fault |-> f]

(* The isempty_func(MGA_OP_TSTSET) of entry i, then the new indexes q. *)
Take(g, p, taken, i, q) ==
  IF i >= g.raw_len THEN Fault(p, taken, "overrun")
  ELSE IF i \in taken THEN Fault(p, taken, "assert_avail")
  ELSE [p |-> [q EXCEPT !.num_entries = U32(p.num_entries + 1)],
        taken |-> taken \cup {i}, idx |-> i, fault |-> "none"]

AllocInterior(g, p, taken) ==
  LET free == Window(p) \ taken IN
    IF free = {} THEN Fault(p, taken, "assert_interior")
    ELSE Take(g, p, taken, Min(free), p)

(* Mutant: idx_hi is not moved past the entry given. *)
AllocHiStuck(g, p, taken) == Take(g, p, taken, p.idx_hi, p)

AllocHi(g, p, taken) ==
  Take(g, p, taken, p.idx_hi, [p EXCEPT !.idx_hi = U32(p.idx_hi + 1)])

(* Mutant: idx_lo as a signed int. *)
AllocLoSigned(g, p, taken) ==
  Take(g, p, taken, p.idx_lo, [p EXCEPT !.idx_lo = p.idx_lo - 1])

AllocLo(g, p, taken) ==
  Take(g, p, taken, p.idx_lo, [p EXCEPT !.idx_lo = U32(p.idx_lo - 1)])

AllocOutside(g, p, taken) ==
  IF mga_more_lo_than_hi(g, p) THEN AllocHi(g, p, taken) ELSE AllocLo(g, p, taken)

(* Mutants: the test for a free entry inside the window off by one either  *)
(* way, and the test for a full array off by one.                          *)
AllocInteriorEarly(g, p, taken) ==
  IF p.num_entries >= g.total_entries THEN Fault(p, taken, "none")
  ELSE IF WindowLen(p) < 0 THEN Fault(p, taken, "assert_diff")
  ELSE IF WindowLen(p) >= p.num_entries THEN AllocInterior(g, p, taken)
  ELSE AllocOutside(g, p, taken)

AllocInteriorLate(g, p, taken) ==
  IF p.num_entries >= g.total_entries THEN Fault(p, taken, "none")
  ELSE IF WindowLen(p) < 0 THEN Fault(p, taken, "assert_diff")
  ELSE IF WindowLen(p) > p.num_entries + 1 THEN AllocInterior(g, p, taken)
  ELSE AllocOutside(g, p, taken)

AllocOneMore(g, p, taken) ==
  IF p.num_entries > g.total_entries THEN Fault(p, taken, "none")
  ELSE IF WindowLen(p) < 0 THEN Fault(p, taken, "assert_diff")
  ELSE IF WindowLen(p) > p.num_entries THEN AllocInterior(g, p, taken)
  ELSE AllocOutside(g, p, taken)

mga_alloc_entry(g, p, taken) ==
  IF p.num_entries >= g.total_entries THEN Fault(p, taken, "none")  \* NULL
  ELSE IF WindowLen(p) < 0 THEN Fault(p, taken, "assert_diff")
  ELSE IF WindowLen(p) > p.num_entries THEN AllocInterior(g, p, taken)
  ELSE AllocOutside(g, p, taken)

(***************************************************************************)
(* mga_free_entry: out of window or already free is ignored; otherwise     *)
(* the entry is cleared and the two loops pull idx_lo up (never beyond the *)
(* middle) and then idx_hi down (never below idx_lo + 1) to the nearest    *)
(* entry in use.                                                           *)
(***************************************************************************)
(* Mutant: the first loop stops at idx_max instead of the middle. *)
RaiseLoToMax(g, lo, taken) ==
  IF lo < g.idx_max
  THEN Min({j \in lo .. g.idx_max : j = g.idx_max \/ j + 1 \in taken})
  ELSE lo

RaiseLo(g, lo, taken) ==
  IF lo < Mid(g)
  THEN Min({j \in lo .. Mid(g) : j = Mid(g) \/ j + 1 \in taken})
  ELSE lo

(* Mutant: the second loop is missing. *)
LowerHiNever(lo, hi, taken) == hi

LowerHi(lo, hi, taken) ==
  IF hi > U32(lo + 1)
  THEN Max({j \in U32(lo + 1) .. hi : j = U32(lo + 1) \/ j - 1 \in taken})
  ELSE hi

mga_free_entry(g, p, taken, i) ==
  IF i <= p.idx_lo \/ i >= p.idx_hi \/ i \notin taken
  THEN [p |-> p, taken |-> taken]
  ELSE LET left == taken \ {i}
           lo   == RaiseLo(g, p.idx_lo, left)
       IN  [p |-> [num_entries |-> U32(p.num_entries - 1),
                   idx_lo |-> lo, idx_hi |-> LowerHi(lo, p.idx_hi, left)],
            taken |-> left]
=============================================================================
