---------------------------- MODULE MgarraySpec ----------------------------
(***************************************************************************)
(* One managed array used by one caller, who may allocate and free any     *)
(* entry in any order, as test/mga_test.c does.  An assert that fails or   *)
(* an access outside the raw array ends the program: fault is then set and *)
(* no action is enabled.                                                   *)
(***************************************************************************)
EXTENDS Mgarray

CONSTANT Geometries     \* the arrays to consider, as built by MkGeometry

ASSUME GeometriesAssumption == \A g \in Geometries : IsGeometry(g)

VARIABLES ma,       \* the mgarray_t: fixed after mga_init
          p,        \* its mga_info_t
          taken,    \* entries whose isempty_func answers ENTRY_TAKEN
          idx,      \* the entry the last mga_alloc_entry returned
          fault     \* "none" while the program runs

vars == <<ma, p, taken, idx, fault>>

Init == /\ ma \in Geometries
        /\ p = mga_init(ma)
        /\ taken = {}
        /\ idx = NoEntry
        /\ fault = "none"

Alloc == /\ fault = "none"
         /\ LET r == mga_alloc_entry(ma, p, taken) IN
              /\ p' = r.p
              /\ taken' = r.taken
              /\ idx' = IF r.fault = "none" THEN r.idx ELSE idx
              /\ fault' = r.fault
         /\ UNCHANGED ma

Free(i) == /\ fault = "none"
           /\ LET r == mga_free_entry(ma, p, taken, i) IN
                /\ p' = r.p
                /\ taken' = r.taken
           /\ UNCHANGED <<ma, idx, fault>>

Next == Alloc \/ \E i \in 0 .. ma.raw_len - 1 : Free(i)

Spec == Init /\ [][Next]_vars
-----------------------------------------------------------------------------
Faults == {"none", "assert_diff", "assert_interior", "assert_avail", "overrun"}

(* Types: indexes and the count are words, entries lie in the raw array. *)
TypeOK == /\ ma \in Geometries
          /\ p \in [num_entries : 0 .. Word - 1, idx_lo : 0 .. Word - 1,
                    idx_hi : 0 .. Word - 1]
          /\ taken \subseteq 0 .. ma.raw_len - 1
          /\ idx \in {NoEntry} \cup 0 .. ma.raw_len - 1
          /\ fault \in Faults

(* A scan of the window (find_expired_streams, the copies made by the      *)
(* statistics process) misses no entry in use, and num_entries is exact,   *)
(* whatever the order of allocations and frees.                            *)
WindowCoversEntries == /\ taken \subseteq Window(p)
                       /\ p.num_entries = Cardinality(taken)
                       /\ p.num_entries <= ma.total_entries

(* The asserts of mga_alloc_entry marked "should never get here" (no free  *)
(* entry although the count says there is one) and prev == ENTRY_AVAIL     *)
(* never fail.                                                             *)
AllocAssertsHold == fault \notin {"assert_interior", "assert_avail"}

(* The low end is always an index below or at the middle, or the word that *)
(* comes before 0; the window is inverted only when nothing is in use, so  *)
(* only the first allocation after the array has drained can abort.        *)
InvertedOnlyWhenEmpty ==
  /\ p.idx_lo <= Mid(ma) \/ p.idx_lo = Word - 1
  /\ WindowLen(p) < 0 => taken = {}

(* The window is no wider than the two free loops can make it: each end is *)
(* next to an entry in use or has reached its limit.                       *)
TightWindow == WindowLen(p) >= 0 =>
  /\ p.idx_lo = Mid(ma) \/ U32(p.idx_lo + 1) \in taken
  /\ p.idx_hi = U32(p.idx_lo + 1) \/ p.idx_hi - 1 \in taken

(* The array grows only when it is full inside: an entry outside the       *)
(* window is handed out only if no entry inside it is free.                *)
GrowsOnlyWhenPacked ==
  [][\A i \in taken' \ taken : i \notin Window(p) => Window(p) \subseteq taken]_vars

(* The array is a pool of total_entries slots (SlotPool). *)
Pool == INSTANCE SlotPool WITH Slots <- Nat, Refused <- NoEntry,
          capacity <- ma.total_entries, held <- taken, answer <- idx

(* The managed array implements the pool: it never gives an entry twice,   *)
(* and answers NULL only when total_entries are in use; a step that aborts *)
(* the program gives and takes nothing.                                    *)
ImplementsPool == Pool!Spec
-----------------------------------------------------------------------------
(* What the repository says of the array and the code does not do.         *)

(* mga_get: if (idx < ma->idx_min || idx > ma->idx_max) assert(0).  Every  *)
(* entry that mga_alloc_entry gave can be had from mga_get.                *)
EntriesInRange == taken \subseteq ma.idx_min .. ma.idx_max
=============================================================================
