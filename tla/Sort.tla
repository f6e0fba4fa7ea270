-------------------------------- MODULE Sort --------------------------------
(***************************************************************************)
(* quicksort of utils/sort.c with the rcmp_* comparators of the statistics *)
(* (statproc/statproc_handlers.c): each compares one counter, descending.  *)
(* val[x] is that counter of the element x.  Indexes start at 1.           *)
(***************************************************************************)
EXTENDS Integers, Sequences, FiniteSetsExt

SWAP(list, a, b) == [list EXCEPT ![a] = list[b], ![b] = list[a]]

(* rcmp(a, b) <= 0, for the comparator rcmp on the counter val. *)
NotAfter(val, a, b) == val[a] >= val[b]

(* One round of the loop of quicksort; the key is list[m].                 *)
Round(s, m, n, val) ==
  LET up   == Min({x \in s.i .. n + 1 : x > n \/ ~NotAfter(val, s.list[x], s.list[m])})
      down == Max({x \in m - 1 .. s.j : x < m \/ NotAfter(val, s.list[x], s.list[m])})
  IN  IF s.i > s.j THEN s
      ELSE [list |-> IF up < down THEN SWAP(s.list, up, down) ELSE s.list, i |-> up, j |-> down]

(* The loop.  It is done after n - m rounds at the latest. *)
Partition(list, m, n, val) ==
  LET round[r \in 0 .. n - m] == IF r = 0 THEN [list |-> list, i |-> m + 1, j |-> n]
                                 ELSE Round(round[r - 1], m, n, val)
  IN  round[n - m]

Call(list, m, n) == [list |-> list, m |-> m, n |-> n]

(* Mutant: the part after the pivot is not sorted. *)
SortParts1(sort, list, m, j, n) == sort[Call(list, m, j - 1)]

(* The two recursive calls, once the pivot is at j. *)
SortParts(sort, list, m, j, n) == sort[Call(sort[Call(list, m, j - 1)], j + 1, n)]

(* A call c of quicksort, with sort for the calls it makes. *)
quicksort(sort, c, val) ==
  LET k == ((c.m - 1) + (c.n - 1)) \div 2 + 1
      p == Partition(SWAP(c.list, c.m, k), c.m, c.n, val)
  IN  IF c.m >= c.n THEN c.list
      ELSE SortParts(sort, SWAP(p.list, c.m, p.j), c.m, p.j, c.n)

(* list in the order of val: depth[d] has the calls that are nested at     *)
(* most d deep, and a part of d elements needs no more.                    *)
Sorted(list, val) ==
  LET N == Len(list)
      Calls == [list : [1 .. N -> {list[i] : i \in 1 .. N}], m : 1 .. N + 1, n : 0 .. N]
      depth[d \in 0 .. N] ==
        [c \in Calls |-> IF d = 0 THEN c.list ELSE quicksort(depth[d - 1], c, val)]
  IN  depth[N][Call(list, 1, N)]
=============================================================================
