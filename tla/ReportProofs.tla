---------------------------- MODULE ReportProofs ----------------------------
(***************************************************************************)
(* The minute report for every working copy, every length of its tables    *)
(* and of its sections: quicksort sorts, the Top-N loops write the largest *)
(* entries, the ids of a section are in the tables and the buffers never   *)
(* overflow.                                                               *)
(***************************************************************************)
EXTENDS Report, FiniteSetTheorems, SequenceTheorems, WellFoundedInduction, TLAPS

(* Min is well defined on a non-empty set of naturals (least number principle). *)
LEMMA MinNat ==
  ASSUME NEW S, S \subseteq Nat, S # {}
  PROVE  /\ Min(S) \in S
         /\ \A y \in S : Min(S) <= y
<1>1. \E x \in S : \A y \in S : ~(<<y, x>> \in OpToRel(<, Nat))
  BY WFMin, NatLessThanWellFounded
<1>2. OpToRel(<, Nat) = {ss \in Nat \X Nat : ss[1] < ss[2]}
  BY Zenon DEF OpToRel
<1>3. \E x \in S : \A y \in S : ~(<<y, x>> \in {ss \in Nat \X Nat : ss[1] < ss[2]})
  BY <1>1, <1>2, Zenon
<1>4. PICK x \in S : \A y \in S : ~(<<y, x>> \in {ss \in Nat \X Nat : ss[1] < ss[2]})
  BY <1>3
<1>5. ASSUME NEW y \in S PROVE x <= y
  <2>1. x \in Nat /\ y \in Nat
    OBVIOUS
  <2>2. <<y, x>> \in Nat \X Nat /\ <<y, x>>[1] = y /\ <<y, x>>[2] = x
    BY <2>1
  <2>3. ~(y < x)
    BY <1>4, <2>2, Zenon
  <2> QED BY <2>1, <2>3
<1>6. \E m \in S : \A y \in S : m <= y
  BY <1>5
<1> QED BY <1>6, Zenon DEF Min

(* Max is well defined on a non-empty bounded set: reflect it and take Min. *)
LEMMA MaxBounded ==
  ASSUME NEW n \in Nat, NEW S, S \subseteq 0 .. n, S # {}
  PROVE  /\ Max(S) \in S
         /\ \A y \in S : Max(S) >= y
<1> DEFINE T == {n - s : s \in S}
<1>1. T \subseteq Nat /\ T # {}
  <2>1. ASSUME NEW s \in S PROVE n - s \in Nat
    <3>1. s \in 0 .. n
      OBVIOUS
    <3> QED BY <3>1
  <2> QED BY <2>1
<1>2. Min(T) \in T /\ \A t \in T : Min(T) <= t
  BY <1>1, MinNat
<1>3. PICK s \in S : Min(T) = n - s
  BY <1>2
<1>4. ASSUME NEW y \in S PROVE s >= y
  <2>1. n - y \in T
    OBVIOUS
  <2>2. n - s <= n - y
    BY <2>1, <1>2, <1>3
  <2> QED BY <2>2
<1>5. \E m \in S : \A y \in S : m >= y
  BY <1>4
<1> QED BY <1>5, Zenon DEF Max

(* Induction along the steps 1 .. N of a loop, for a set S of step numbers. *)
LEMMA StepInduction ==
  ASSUME NEW N \in Nat, NEW S, 0 \in S,
         \A i \in 1 .. N : i - 1 \in S => i \in S
  PROVE  0 .. N \subseteq S
<1> SUFFICES ASSUME (0 .. N) \ S # {} PROVE FALSE
  OBVIOUS
<1> DEFINE D == (0 .. N) \ S
<1>1. D \subseteq Nat /\ D # {}
  OBVIOUS
<1>2. Min(D) \in D /\ \A y \in D : Min(D) <= y
  BY <1>1, MinNat
<1>3. PICK m \in D : \A y \in D : m <= y
  BY <1>2
<1>4. m \in 1 .. N /\ m - 1 \in 0 .. N /\ ~(m <= m - 1)
  BY <1>3
<1>5. m - 1 \notin D
  BY <1>3, <1>4
<1> QED BY <1>3, <1>4, <1>5

(* The runs of a loop of N steps, each of which makes a new state in T of the
   one before. *)
LoopRuns(N, T, base, step) ==
  {f \in [0 .. N -> T] : f[0] = base /\ \A i \in 1 .. N : f[i] = step[<<i, f[i - 1]>>]}

(* A loop has a run.  The recursive functions of the model are such runs. *)
LEMMA LoopRunExists ==
  ASSUME NEW N \in Nat, NEW T, NEW base \in T, NEW step \in [(1 .. N) \X T -> T]
  PROVE  LoopRuns(N, T, base, step) # {}
<1> DEFINE Runs(m) == {f \in [0 .. m -> T] :
                         f[0] = base /\ \A i \in 1 .. m : f[i] = step[<<i, f[i - 1]>>]}
           S == {m \in 0 .. N : Runs(m) # {}}
<1>1. 0 \in S
  <2>1. [i \in 0 .. 0 |-> base] \in Runs(0)
    OBVIOUS
  <2> QED BY <2>1
<1>2. ASSUME NEW m \in 1 .. N, m - 1 \in S PROVE m \in S
  <2>1. PICK f : f \in Runs(m - 1)
    BY <1>2
  <2>2. f \in [0 .. m - 1 -> T] /\ f[0] = base /\ \A i \in 1 .. m - 1 : f[i] = step[<<i, f[i - 1]>>]
    BY <2>1
  <2>3. f[m - 1] \in T
    BY <2>2
  <2>4. step[<<m, f[m - 1]>>] \in T
    BY <2>3
  <2> DEFINE g == [i \in 0 .. m |-> IF i = m THEN step[<<m, f[m - 1]>>] ELSE f[i]]
  <2>5. g \in [0 .. m -> T] /\ g[0] = base
    BY <2>2, <2>4
  <2>6. ASSUME NEW i \in 1 .. m PROVE g[i] = step[<<i, g[i - 1]>>]
    <3>1. g[i - 1] = f[i - 1]
      OBVIOUS
    <3>2. CASE i = m
      <4>1. g[m] = step[<<m, f[m - 1]>>]
        OBVIOUS
      <4> HIDE DEF g
      <4> QED BY <3>1, <3>2, <4>1, Zenon
    <3>3. CASE i # m
      <4>1. i \in 1 .. m - 1 /\ g[i] = f[i]
        BY <3>3
      <4> QED BY <2>2, <3>1, <4>1
    <3> QED BY <3>2, <3>3
  <2> HIDE DEF g
  <2>7. g \in Runs(m)
    BY <2>5, <2>6
  <2> HIDE DEF Runs
  <2> QED BY <2>7
<1>3. N \in S
  <2> HIDE DEF S
  <2>1. 0 .. N \subseteq S
    BY <1>1, <1>2, StepInduction
  <2> QED BY <2>1
<1> QED BY <1>3 DEF LoopRuns
-----------------------------------------------------------------------------
(* quicksort. *)

(* The exchanges of the places 1 .. N that leave those outside m .. n alone. *)
Moves(N, m, n) ==
  {p \in [1 .. N -> 1 .. N] :
     /\ \A x, y \in 1 .. N : p[x] = p[y] => x = y
     /\ \A y \in 1 .. N : \E x \in 1 .. N : p[x] = y
     /\ \A x \in 1 .. N : x \notin m .. n => p[x] = x}

(* r is l with the elements at m .. n in another order. *)
Rearranged(l, r, N, m, n) == \E p \in Moves(N, m, n) : \A x \in 1 .. N : r[x] = l[p[x]]

(* What a rearrangement leaves as it is: the elements outside, the set of
   those inside, and that no element is there twice. *)
Kept(l, r, N, m, n) ==
  /\ \A x \in 1 .. N : x \notin m .. n => r[x] = l[x]
  /\ \A x \in m .. n : \E y \in m .. n : r[x] = l[y]
  /\ \A x \in m .. n : \E y \in m .. n : l[x] = r[y]
  /\ (\A x, y \in 1 .. N : l[x] = l[y] => x = y) => (\A x, y \in 1 .. N : r[x] = r[y] => x = y)

(* A rearrangement does leave that. *)
LEMMA RearrangedKeeps ==
  ASSUME NEW N, NEW l, NEW r, NEW m, NEW n, m .. n \subseteq 1 .. N, Rearranged(l, r, N, m, n)
  PROVE  Kept(l, r, N, m, n)
<1>1. PICK p \in Moves(N, m, n) : \A x \in 1 .. N : r[x] = l[p[x]]
  BY DEF Rearranged
<1>2. /\ \A x \in 1 .. N : p[x] \in 1 .. N
      /\ \A x, y \in 1 .. N : p[x] = p[y] => x = y
      /\ \A y \in 1 .. N : \E x \in 1 .. N : p[x] = y
      /\ \A x \in 1 .. N : x \notin m .. n => p[x] = x
  BY DEF Moves
<1>3. \A x \in 1 .. N : p[x] \in m .. n <=> x \in m .. n
  BY <1>2, Zenon
<1>4. \A x \in m .. n : \E y \in m .. n : p[y] = x
  BY <1>2, <1>3, Zenon
<1>5. \A x \in 1 .. N : x \notin m .. n => r[x] = l[x]
  BY <1>1, <1>2, Zenon
<1>6. ASSUME NEW x \in m .. n PROVE (\E y \in m .. n : r[x] = l[y]) /\ (\E y \in m .. n : l[x] = r[y])
  <2>1. p[x] \in m .. n /\ r[x] = l[p[x]]
    BY <1>1, <1>3, Zenon
  <2>2. PICK y \in m .. n : p[y] = x
    BY <1>4
  <2>3. r[y] = l[x]
    BY <1>1, <2>2, Zenon
  <2> QED BY <2>1, <2>3, Zenon
<1>7. ASSUME \A x, y \in 1 .. N : l[x] = l[y] => x = y,
             NEW x \in 1 .. N, NEW y \in 1 .. N, r[x] = r[y]
      PROVE  x = y
  <2>1. l[p[x]] = l[p[y]]
    BY <1>1, <1>7, Zenon
  <2>2. p[x] = p[y]
    BY <1>2, <1>7, <2>1, Zenon
  <2> QED BY <1>2, <2>2, Zenon
<1> QED BY <1>5, <1>6, <1>7, Zenon DEF Kept

(* A list is a rearrangement of itself. *)
LEMMA RearrangedSelf ==
  ASSUME NEW N, NEW l, NEW m, NEW n
  PROVE  Rearranged(l, l, N, m, n)
<1>1. PICK p : p = [x \in 1 .. N |-> x]
  OBVIOUS
<1>2. p \in [1 .. N -> 1 .. N] /\ \A x \in 1 .. N : p[x] = x
  BY <1>1
<1>3. p \in Moves(N, m, n)
  BY <1>2, Zenon DEF Moves
<1> QED BY <1>2, <1>3, Zenon DEF Rearranged

(* One rearrangement after another. *)
LEMMA RearrangedTwice ==
  ASSUME NEW N, NEW l, NEW r, NEW t, NEW m, NEW n,
         Rearranged(l, r, N, m, n), Rearranged(r, t, N, m, n)
  PROVE  Rearranged(l, t, N, m, n)
<1>1. PICK p \in Moves(N, m, n) : \A x \in 1 .. N : r[x] = l[p[x]]
  BY DEF Rearranged
<1>2. PICK q \in Moves(N, m, n) : \A x \in 1 .. N : t[x] = r[q[x]]
  BY DEF Rearranged
<1>3. /\ \A x \in 1 .. N : p[x] \in 1 .. N /\ q[x] \in 1 .. N
      /\ \A x, y \in 1 .. N : p[x] = p[y] => x = y
      /\ \A x, y \in 1 .. N : q[x] = q[y] => x = y
  BY DEF Moves
<1>4. PICK o : o = [x \in 1 .. N |-> p[q[x]]]
  OBVIOUS
<1>5. o \in [1 .. N -> 1 .. N] /\ \A x \in 1 .. N : o[x] = p[q[x]]
  BY <1>3, <1>4
<1>6. \A x, y \in 1 .. N : o[x] = o[y] => x = y
  <2>1. ASSUME NEW x \in 1 .. N, NEW y \in 1 .. N, o[x] = o[y] PROVE x = y
    <3>1. q[x] \in 1 .. N /\ q[y] \in 1 .. N /\ p[q[x]] = p[q[y]]
      BY <1>3, <1>5, <2>1, Zenon
    <3>2. q[x] = q[y]
      BY <1>3, <3>1, Zenon
    <3> QED BY <1>3, <3>2, Zenon
  <2> QED BY <2>1
<1>7. ASSUME NEW y \in 1 .. N PROVE \E x \in 1 .. N : o[x] = y
  <2>1. PICK z \in 1 .. N : p[z] = y
    BY Zenon DEF Moves
  <2>2. PICK x \in 1 .. N : q[x] = z
    BY Zenon DEF Moves
  <2> QED BY <1>5, <2>1, <2>2, Zenon
<1>8. ASSUME NEW x \in 1 .. N, x \notin m .. n PROVE o[x] = x
  <2>1. q[x] = x /\ p[x] = x
    BY <1>8, Zenon DEF Moves
  <2> QED BY <1>5, <2>1, Zenon
<1>9. o \in Moves(N, m, n)
  BY <1>5, <1>6, <1>7, <1>8, Zenon DEF Moves
<1>10. ASSUME NEW x \in 1 .. N PROVE t[x] = l[o[x]]
  <2>1. t[x] = r[q[x]] /\ q[x] \in 1 .. N
    BY <1>2, <1>3, Zenon
  <2>2. r[q[x]] = l[p[q[x]]]
    BY <1>1, <2>1, Zenon
  <2>3. o[x] = p[q[x]]
    BY <1>5, Zenon
  <2> QED BY <2>1, <2>2, <2>3, Zenon
<1> QED BY <1>9, <1>10, Zenon DEF Rearranged

(* A rearrangement of a part is one of every larger part. *)
LEMMA RearrangedWider ==
  ASSUME NEW N \in Nat, NEW l, NEW r, NEW m \in Int, NEW n \in Int, NEW a \in Int, NEW b \in Int,
         1 <= m, n <= N, m <= a, b <= n, Rearranged(l, r, N, a, b)
  PROVE  Rearranged(l, r, N, m, n)
<1>1. a .. b \subseteq m .. n
  OBVIOUS
<1>2. Moves(N, a, b) \subseteq Moves(N, m, n)
  BY <1>1, Zenon DEF Moves
<1> QED BY <1>2, Zenon DEF Rearranged

(* SWAP exchanges two elements. *)
LEMMA SwapRearranges ==
  ASSUME NEW N \in Nat, NEW V, NEW l \in [1 .. N -> V], NEW m \in Int, NEW n \in Int,
         1 <= m, n <= N, NEW a \in m .. n, NEW b \in m .. n
  PROVE  /\ SWAP(l, a, b) \in [1 .. N -> V]
         /\ SWAP(l, a, b)[a] = l[b] /\ SWAP(l, a, b)[b] = l[a]
         /\ \A x \in 1 .. N : x # a /\ x # b => SWAP(l, a, b)[x] = l[x]
         /\ Rearranged(l, SWAP(l, a, b), N, m, n)
<1> DEFINE r == SWAP(l, a, b)
<1>0. a \in 1 .. N /\ b \in 1 .. N /\ m .. n \subseteq 1 .. N
  OBVIOUS
<1>1. r \in [1 .. N -> V]
  BY <1>0 DEF SWAP
<1>2. r[a] = l[b] /\ r[b] = l[a]
  BY <1>0 DEF SWAP
<1>3. \A x \in 1 .. N : x # a /\ x # b => r[x] = l[x]
  BY <1>0 DEF SWAP
<1> HIDE DEF r
<1>4. PICK p : p = [x \in 1 .. N |-> IF x = a THEN b ELSE IF x = b THEN a ELSE x]
  OBVIOUS
<1>5. /\ p \in [1 .. N -> 1 .. N] /\ p[a] = b /\ p[b] = a
      /\ \A x \in 1 .. N : x # a /\ x # b => p[x] = x
  BY <1>0, <1>4
<1>6. p \in Moves(N, m, n)
  <2>1. \A x \in 1 .. N : p[x] \in 1 .. N /\ p[p[x]] = x
    BY <1>0, <1>5
  <2>2. \A x, y \in 1 .. N : p[x] = p[y] => x = y
    BY <2>1, Zenon
  <2>3. \A y \in 1 .. N : \E x \in 1 .. N : p[x] = y
    BY <2>1, Zenon
  <2>4. \A x \in 1 .. N : x \notin m .. n => p[x] = x
    BY <1>5, Zenon
  <2> QED BY <1>5, <2>2, <2>3, <2>4, Zenon DEF Moves
<1>7. Rearranged(l, r, N, m, n)
  <2>1. \A x \in 1 .. N : r[x] = l[p[x]]
    BY <1>0, <1>2, <1>3, <1>5
  <2> QED BY <1>6, <2>1, Zenon DEF Rearranged
<1> QED BY <1>1, <1>2, <1>3, <1>7 DEF r

(* The counters of the elements are numbers. *)
Counts(val, V) == \A v \in V : val[v] \in Nat

(* A state s of the loop after r rounds on the list l: the elements before i
   are not after the key, those after j are, and while the loop goes on the
   distance of i and j shrinks with every round. *)
InLoop(s, l, V, N, m, n, val, r) ==
  /\ s \in [list : [1 .. N -> V], i : Nat, j : Nat]
  /\ m + 1 <= s.i /\ s.i <= n + 1 /\ m <= s.j /\ s.j <= n
  /\ s.list[m] = l[m] /\ Rearranged(l, s.list, N, m, n)
  /\ \A x \in m .. s.i - 1 : NotAfter(val, s.list[x], l[m])
  /\ \A x \in s.j + 1 .. n : ~NotAfter(val, s.list[x], l[m])
  /\ \/ s.i = s.j + 1
     \/ /\ s.i <= s.j /\ s.j - s.i <= n - m - r
        /\ r = 0 \/ (NotAfter(val, s.list[s.i], l[m]) /\ ~NotAfter(val, s.list[s.j], l[m]))

(* A round keeps the loop's invariant. *)
LEMMA RoundKeeps ==
  ASSUME NEW N \in Nat, NEW V, NEW l \in [1 .. N -> V], NEW val, Counts(val, V),
         NEW m \in Nat \ {0}, NEW n \in Nat, m < n, n <= N,
         NEW r \in 1 .. n - m, NEW s, InLoop(s, l, V, N, m, n, val, r - 1)
  PROVE  InLoop(Round(s, m, n, val), l, V, N, m, n, val, r)
<1>0. PICK t \in [1 .. N -> V], i \in Nat, j \in Nat : t = s.list /\ i = s.i /\ j = s.j
  BY DEF InLoop
<1>1. /\ m + 1 <= i /\ i <= n + 1 /\ m <= j /\ j <= n
      /\ t[m] = l[m] /\ Rearranged(l, t, N, m, n)
      /\ \A x \in m .. i - 1 : NotAfter(val, t[x], l[m])
      /\ \A x \in j + 1 .. n : ~NotAfter(val, t[x], l[m])
      /\ \/ i = j + 1
         \/ /\ i <= j /\ j - i <= n - m - (r - 1)
            /\ r - 1 = 0 \/ (NotAfter(val, t[i], l[m]) /\ ~NotAfter(val, t[j], l[m]))
  BY <1>0, Zenon DEF InLoop
<1>2. CASE i > j
  <2>1. Round(s, m, n, val) = s
    BY <1>0, <1>2 DEF Round
  <2>2. i = j + 1
    BY <1>1, <1>2
  <2> QED BY <1>0, <2>1, <2>2, Zenon DEF InLoop
<1>3. CASE ~(i > j)
  <2> DEFINE A == {x \in 1 .. N : NotAfter(val, t[x], l[m])}
             U == {x \in i .. n + 1 : x > n \/ ~NotAfter(val, t[x], t[m])}
             D == {x \in m - 1 .. j : x < m \/ NotAfter(val, t[x], t[m])}
  <2>2. m \in A /\ A \subseteq 1 .. N /\ t[m] = l[m]
    BY <1>1 DEF NotAfter, Counts
  <2>4. m + 1 <= i /\ i <= n + 1 /\ m <= j /\ j <= n /\ i <= j
    BY <1>1, <1>3
  <2>3. /\ \A x : x \in U <=> x \in i .. n + 1 /\ (x > n \/ x \notin A)
        /\ \A x : x \in D <=> x \in m - 1 .. j /\ (x < m \/ x \in A)
    <3>1. ASSUME NEW x \in i .. n + 1, ~(x > n) PROVE x \in A <=> NotAfter(val, t[x], t[m])
      <4>1. x \in 1 .. N
        BY <2>4, <3>1
      <4> QED BY <2>2, <4>1
    <3>2. ASSUME NEW x \in m - 1 .. j, ~(x < m) PROVE x \in A <=> NotAfter(val, t[x], t[m])
      <4>1. x \in 1 .. N
        BY <2>4, <3>2
      <4> QED BY <2>2, <4>1
    <3> HIDE DEF A
    <3> QED BY <3>1, <3>2, Zenon
  <2>5. Round(s, m, n, val) = [list |-> IF Min(U) < Max(D) THEN SWAP(t, Min(U), Max(D)) ELSE t,
                               i |-> Min(U), j |-> Max(D)]
    BY <1>0, <1>3, Zenon DEF Round
  <2>6. \A x \in 1 .. N : x \in A <=> NotAfter(val, t[x], l[m])
    OBVIOUS
  <2>7. (\A x \in m .. i - 1 : x \in A) /\ (\A x \in j + 1 .. n : x \notin A)
    <3>1. m .. i - 1 \subseteq 1 .. N /\ j + 1 .. n \subseteq 1 .. N
      BY <2>4
    <3> HIDE DEF A
    <3> QED BY <1>1, <2>6, <3>1, Zenon
  <2>8. j - i <= n - m - (r - 1) /\ (r - 1 = 0 \/ i \in A)
    BY <1>1, <2>4
  <2> HIDE DEF A, U, D
  <2>9. PICK u \in i .. n + 1 : u = Min(U) /\ (u > n \/ u \notin A) /\ \A x \in i .. u - 1 : x \in A
    <3>1. U \subseteq Nat /\ n + 1 \in U
      <4>1. U \subseteq i .. n + 1 /\ i .. n + 1 \subseteq Nat
        BY DEF U
      <4>2. n + 1 \in i .. n + 1 /\ n + 1 > n
        BY <2>4
      <4> QED BY <2>3, <4>1, <4>2
    <3>2. PICK u \in U : u = Min(U) /\ \A y \in U : u <= y
      BY <3>1, MinNat
    <3>3. u \in i .. n + 1 /\ (u > n \/ u \notin A)
      BY <2>3
    <3>4. ASSUME NEW x \in i .. u - 1 PROVE x \in A
      <4>1. x \in i .. n + 1 /\ ~(u <= x)
        BY <3>3
      <4> QED BY <2>3, <3>2, <4>1
    <3> QED BY <3>2, <3>3, <3>4, Zenon
  <2>10. PICK d \in m .. j : d = Max(D) /\ d \in A /\ \A x \in d + 1 .. j : x \notin A
    <3>1. D \subseteq 0 .. n /\ m \in D
      <4>1. D \subseteq m - 1 .. j
        BY DEF D
      <4>2. m \in m - 1 .. j /\ m - 1 .. j \subseteq 0 .. n
        BY <2>4
      <4> QED BY <2>2, <2>3, <4>1, <4>2
    <3>2. PICK d \in D : d = Max(D) /\ \A y \in D : d >= y
      BY <3>1, MaxBounded
    <3>3. d \in m .. j /\ d \in A
      BY <2>3, <2>4, <3>1, <3>2
    <3>4. ASSUME NEW x \in d + 1 .. j PROVE x \notin A
      <4>1. x \in m - 1 .. j /\ ~(d >= x)
        BY <3>3
      <4> QED BY <2>3, <3>2, <4>1
    <3> QED BY <3>2, <3>3, <3>4, Zenon
  <2>15. m + 1 <= u /\ i <= u /\ u <= n + 1 /\ m <= d /\ d <= j /\ d <= n /\ u \in Nat /\ d \in Nat
    BY <2>4
  <2>16. /\ (u > n \/ u \notin A) /\ d \in A
         /\ \A x \in i .. u - 1 : x \in A
         /\ \A x \in d + 1 .. j : x \notin A
    BY <2>9, <2>10
  <2>11. \A x \in m .. u - 1 : x \in A
    BY <2>4, <2>7, <2>15, <2>16
  <2>12. \A x \in d + 1 .. n : x \notin A
    BY <2>4, <2>7, <2>15, <2>16
  <2>13. CASE u < d
    <3> DEFINE q == SWAP(t, u, d)
    <3>1. u \in m .. n /\ d \in m .. n /\ u # m /\ u \notin A
      BY <2>4, <2>15, <2>16, <2>13
    <3>11. m \in Int /\ n \in Int /\ 1 <= m
      OBVIOUS
    <3>2. /\ q \in [1 .. N -> V] /\ q[u] = t[d] /\ q[d] = t[u]
          /\ \A x \in 1 .. N : x # u /\ x # d => q[x] = t[x]
          /\ Rearranged(t, q, N, m, n)
      <4> HIDE DEF q
      <4>1. /\ SWAP(t, u, d) \in [1 .. N -> V]
            /\ SWAP(t, u, d)[u] = t[d] /\ SWAP(t, u, d)[d] = t[u]
            /\ \A x \in 1 .. N : x # u /\ x # d => SWAP(t, u, d)[x] = t[x]
            /\ Rearranged(t, SWAP(t, u, d), N, m, n)
        BY <3>1, <3>11, SwapRearranges
      <4> QED BY <4>1 DEF q
    <3>3. Round(s, m, n, val) = [list |-> q, i |-> u, j |-> d]
      BY <2>5, <2>9, <2>10, <2>13
    <3> HIDE DEF q
    <3>4. Rearranged(l, q, N, m, n)
      BY <1>1, <3>2, RearrangedTwice
    <3>5. q[m] = l[m]
      BY <2>2, <2>4, <2>15, <2>16, <2>13, <3>2
    <3>6. ASSUME NEW x \in m .. u - 1 PROVE NotAfter(val, q[x], l[m])
      <4>1. x \in 1 .. N /\ x # u /\ x # d /\ x \in A
        BY <2>4, <2>15, <2>16, <2>11, <2>13
      <4> QED BY <2>6, <3>2, <4>1
    <3>7. ASSUME NEW x \in d + 1 .. n PROVE ~NotAfter(val, q[x], l[m])
      <4>1. x \in 1 .. N /\ x # u /\ x # d /\ x \notin A
        BY <2>4, <2>15, <2>16, <2>12, <2>13
      <4> QED BY <2>6, <3>2, <4>1
    <3>8. NotAfter(val, q[u], l[m]) /\ ~NotAfter(val, q[d], l[m])
      <4>1. u \in 1 .. N /\ d \in 1 .. N
        BY <3>1
      <4> QED BY <2>6, <2>15, <2>16, <3>1, <3>2, <4>1
    <3>9. u <= d /\ d - u <= n - m - r
      <4>1. CASE r = 1
        BY <2>4, <2>15, <2>16, <2>13, <4>1
      <4>2. CASE r # 1
        <5>1. i \in A /\ u # i
          BY <2>8, <3>1, <4>2
        <5> QED BY <2>4, <2>8, <2>15, <2>16, <2>13, <5>1
      <4> QED BY <4>1, <4>2
    <3>10. m + 1 <= u /\ u <= n + 1 /\ m <= d /\ d <= n /\ u \in Nat /\ d \in Nat
      BY <2>4, <2>15, <2>16
    <3> QED BY <3>2, <3>3, <3>4, <3>5, <3>6, <3>7, <3>8, <3>9, <3>10 DEF InLoop
  <2>14. CASE ~(u < d)
    <3>1. u # d
      BY <2>4, <2>15, <2>16
    <3>2. ~(u > d + 1)
      <4> SUFFICES ASSUME u > d + 1 PROVE FALSE
        OBVIOUS
      <4>1. d + 1 \in m .. u - 1 /\ d + 1 \in d + 1 .. n
        BY <2>4, <2>15, <2>16
      <4> QED BY <2>11, <2>12, <4>1
    <3>3. u = d + 1
      BY <2>15, <2>16, <2>14, <3>1, <3>2
    <3>4. Round(s, m, n, val) = [list |-> t, i |-> u, j |-> d]
      BY <2>5, <2>9, <2>10, <2>14
    <3>5. ASSUME NEW x \in m .. u - 1 PROVE NotAfter(val, t[x], l[m])
      <4>1. x \in 1 .. N /\ x \in A
        BY <2>4, <2>15, <2>16, <2>11
      <4> QED BY <2>6, <4>1
    <3>6. ASSUME NEW x \in d + 1 .. n PROVE ~NotAfter(val, t[x], l[m])
      <4>1. x \in 1 .. N /\ x \notin A
        BY <2>4, <2>15, <2>16, <2>12
      <4> QED BY <2>6, <4>1
    <3>7. m + 1 <= u /\ u <= n + 1 /\ m <= d /\ d <= n /\ u \in Nat /\ d \in Nat
      BY <2>4, <2>15, <2>16
    <3>8. t[m] = l[m] /\ Rearranged(l, t, N, m, n)
      BY <1>1
    <3> QED BY <3>3, <3>4, <3>5, <3>6, <3>7, <3>8 DEF InLoop
  <2> QED BY <2>13, <2>14
<1> QED BY <1>2, <1>3

(* The state p of the loop at its end. *)
LoopEnded(p, l, V, N, m, n, val) ==
  InLoop(p, l, V, N, m, n, val, n - m) /\ p.i = p.j + 1

(* The loop ends within n - m rounds, with i just after j. *)
LEMMA PartitionEnds ==
  ASSUME NEW N \in Nat, NEW V, NEW l \in [1 .. N -> V], NEW val, Counts(val, V),
         NEW m \in Nat \ {0}, NEW n \in Nat, m < n, n <= N
  PROVE  LoopEnded(Partition(l, m, n, val), l, V, N, m, n, val)
<1> DEFINE K == n - m
           T == [list : [1 .. N -> V], i : Nat, j : Nat]
           base == [list |-> l, i |-> m + 1, j |-> n]
           Body(f) == [r \in 0 .. K |-> IF r = 0 THEN base ELSE Round(f[r - 1], m, n, val)]
           run == CHOOSE f : f = Body(f)
           step == [x \in (1 .. K) \X T |->
                      IF Round(x[2], m, n, val) \in T THEN Round(x[2], m, n, val) ELSE base]
           In(s, r) == InLoop(s, l, V, N, m, n, val, r)
<1>1. Partition(l, m, n, val) = run[K]
  BY DEF Partition
<1>2. K \in Nat /\ K > 0 /\ base \in T
  OBVIOUS
<1>3. step \in [(1 .. K) \X T -> T]
  BY <1>2
<1>4. \A r \in 1 .. K, s \in T : Round(s, m, n, val) \in T => step[<<r, s>>] = Round(s, m, n, val)
  OBVIOUS
<1>5. In(base, 0)
  <2>1. Rearranged(l, l, N, m, n)
    BY RearrangedSelf
  <2>2. NotAfter(val, l[m], l[m])
    BY DEF NotAfter, Counts
  <2> QED BY <1>2, <2>1, <2>2 DEF InLoop
<1>6. ASSUME NEW r \in 1 .. K, NEW s, In(s, r - 1) PROVE In(Round(s, m, n, val), r)
  BY <1>6, RoundKeeps
<1>7. \A s, r : In(s, r) => s \in T
  BY DEF InLoop
<1> HIDE DEF K, T, base, step, In
<1>8. PICK g \in [0 .. K -> T] : g[0] = base /\ \A r \in 1 .. K : g[r] = step[<<r, g[r - 1]>>]
  <2>1. LoopRuns(K, T, base, step) # {}
    BY <1>2, <1>3, LoopRunExists
  <2> QED BY <2>1 DEF LoopRuns
<1>9. \A r \in 1 .. K : In(g[r - 1], r - 1) => In(g[r], r) /\ g[r] = Round(g[r - 1], m, n, val)
  <2> TAKE r \in 1 .. K
  <2> HAVE In(g[r - 1], r - 1)
  <2>1. In(Round(g[r - 1], m, n, val), r) /\ g[r - 1] \in T
    BY <1>6, <1>7
  <2>2. g[r] = Round(g[r - 1], m, n, val)
    BY <1>4, <1>7, <1>8, <2>1
  <2> QED BY <2>1, <2>2
<1>10. \A r \in 0 .. K : In(g[r], r)
  <2> DEFINE S == {r \in 0 .. K : In(g[r], r)}
  <2>1. 0 \in S
    BY <1>2, <1>5, <1>8
  <2>2. ASSUME NEW r \in 1 .. K, r - 1 \in S PROVE r \in S
    <3>1. r \in 0 .. K /\ In(g[r - 1], r - 1)
      BY <1>2, <2>2
    <3> QED BY <1>9, <3>1
  <2>3. 0 .. K \subseteq S
    <3> HIDE DEF S
    <3> QED BY <1>2, <2>1, <2>2, StepInduction
  <2> QED BY <2>3
<1>11. g = Body(g)
  <2>1. \A r \in 0 .. K : g[r] = Body(g)[r]
    BY <1>2, <1>8, <1>9, <1>10
  <2> QED BY <2>1
<1>12. run = Body(run)
  BY <1>11, Zenon
<1>13. \A r \in 0 .. K : In(run[r], r)
  <2> DEFINE S == {r \in 0 .. K : In(run[r], r)}
  <2> HIDE DEF run
  <2>1. 0 \in S
    BY <1>2, <1>5, <1>12
  <2>2. ASSUME NEW r \in 1 .. K, r - 1 \in S PROVE r \in S
    <3>1. run[r] = Round(run[r - 1], m, n, val) /\ r \in 0 .. K
      BY <1>2, <1>12
    <3> QED BY <1>6, <2>2, <3>1
  <2>3. 0 .. K \subseteq S
    <3> HIDE DEF S
    <3> QED BY <1>2, <2>1, <2>2, StepInduction
  <2> QED BY <2>3
<1> HIDE DEF run
<1>14. In(run[K], K)
  BY <1>2, <1>13
<1>15. PICK s : s = run[K]
  OBVIOUS
<1>16. s.i = s.j + 1
  <2>1. InLoop(s, l, V, N, m, n, val, n - m)
    BY <1>14, <1>15 DEF In, K
  <2>2. s.i \in Nat /\ s.j \in Nat /\ (s.i = s.j + 1 \/ (s.i <= s.j /\ s.j - s.i <= n - m - (n - m) /\
          (n - m = 0 \/ (NotAfter(val, s.list[s.i], l[m]) /\ ~NotAfter(val, s.list[s.j], l[m])))))
    BY <2>1 DEF InLoop
  <2>3. CASE s.i # s.j + 1
    <3>1. s.i = s.j
      BY <2>2, <2>3
    <3> QED BY <2>2, <2>3, <3>1
  <2> QED BY <2>3
<1> QED BY <1>1, <1>14, <1>15, <1>16 DEF In, K, LoopEnded

(* The list is in the order of val from m to n. *)
InOrder(l, m, n, val) == \A x, y \in m .. n : x <= y => NotAfter(val, l[x], l[y])

(* r is l with the part from m to n sorted. *)
Sorts(l, r, V, N, m, n, val) ==
  r \in [1 .. N -> V] /\ Rearranged(l, r, N, m, n) /\ InOrder(r, m, n, val)

(* The list once the pivot is at j, its final place. *)
Divided(l, q, V, N, m, n, j, val) ==
  /\ q \in [1 .. N -> V] /\ Rearranged(l, q, N, m, n) /\ j \in m .. n
  /\ \A x \in m .. j - 1 : NotAfter(val, q[x], q[j])
  /\ \A x \in j + 1 .. n : ~NotAfter(val, q[x], q[j])

(* What quicksort has done before it calls itself. *)
LEMMA Divides ==
  ASSUME NEW N \in Nat, NEW V, NEW l \in [1 .. N -> V], NEW val, Counts(val, V),
         NEW m \in Nat \ {0}, NEW n \in Nat, m < n, n <= N, NEW k \in m .. n,
         NEW p, p = Partition(SWAP(l, m, k), m, n, val)
  PROVE  Divided(l, SWAP(p.list, m, p.j), V, N, m, n, p.j, val)
<1>0. m \in Int /\ n \in Int /\ 1 <= m /\ m \in m .. n
  OBVIOUS
<1>1. PICK a \in [1 .. N -> V] : a = SWAP(l, m, k) /\ Rearranged(l, a, N, m, n)
  BY <1>0, SwapRearranges
<1>2. InLoop(p, a, V, N, m, n, val, n - m) /\ p.i = p.j + 1
  <2>1. p = Partition(a, m, n, val)
    BY <1>1
  <2>2. LoopEnded(Partition(a, m, n, val), a, V, N, m, n, val)
    BY PartitionEnds
  <2> QED BY <2>1, <2>2 DEF LoopEnded
<1>3. PICK t \in [1 .. N -> V], j \in Nat : t = p.list /\ j = p.j
  BY <1>2 DEF InLoop
<1>4. /\ m <= j /\ j <= n /\ t[m] = a[m] /\ Rearranged(a, t, N, m, n)
      /\ \A x \in m .. p.i - 1 : NotAfter(val, t[x], a[m])
      /\ \A x \in j + 1 .. n : ~NotAfter(val, t[x], a[m])
  BY <1>2, <1>3 DEF InLoop
<1>5. \A x \in m .. j : NotAfter(val, t[x], a[m])
  <2>1. p.i - 1 = j
    BY <1>2, <1>3
  <2> QED BY <1>4, <2>1
<1>6. j \in m .. n
  BY <1>4
<1>7. PICK q \in [1 .. N -> V] :
        /\ q = SWAP(t, m, j) /\ q[m] = t[j] /\ q[j] = t[m]
        /\ \A x \in 1 .. N : x # m /\ x # j => q[x] = t[x]
        /\ Rearranged(t, q, N, m, n)
  <2>1. /\ SWAP(t, m, j) \in [1 .. N -> V]
        /\ SWAP(t, m, j)[m] = t[j] /\ SWAP(t, m, j)[j] = t[m]
        /\ \A x \in 1 .. N : x # m /\ x # j => SWAP(t, m, j)[x] = t[x]
        /\ Rearranged(t, SWAP(t, m, j), N, m, n)
    BY <1>0, <1>6, SwapRearranges
  <2> QED BY <2>1
<1>8. Rearranged(l, q, N, m, n)
  <2>1. Rearranged(l, t, N, m, n)
    BY <1>1, <1>4, RearrangedTwice
  <2> QED BY <1>7, <2>1, RearrangedTwice
<1>9. q[j] = a[m]
  BY <1>4, <1>7
<1>10. ASSUME NEW x \in m .. j - 1 PROVE NotAfter(val, q[x], q[j])
  <2>1. x \in 1 .. N /\ x \in m .. j /\ x # j /\ j \in m .. j
    BY <1>6
  <2>2. q[x] = t[x] \/ q[x] = t[j]
    BY <1>7, <2>1
  <2> QED BY <1>5, <1>9, <2>1, <2>2
<1>11. ASSUME NEW x \in j + 1 .. n PROVE ~NotAfter(val, q[x], q[j])
  <2>1. x \in 1 .. N /\ x # m /\ x # j
    BY <1>6
  <2> QED BY <1>4, <1>7, <1>9, <2>1
<1>12. Divided(l, q, V, N, m, n, j, val)
  BY <1>6, <1>8, <1>10, <1>11 DEF Divided
<1> QED BY <1>3, <1>7, <1>12

(* The two sorted parts with the pivot between them are a sorted list. *)
LEMMA PartsSorted ==
  ASSUME NEW N \in Nat, NEW V, NEW l, NEW q, NEW val, Counts(val, V),
         NEW m \in Nat \ {0}, NEW n \in Nat, n <= N, NEW j, Divided(l, q, V, N, m, n, j, val),
         NEW a, Sorts(q, a, V, N, m, j - 1, val), NEW b, Sorts(a, b, V, N, j + 1, n, val)
  PROVE  Sorts(l, b, V, N, m, n, val)
<1>1. /\ q \in [1 .. N -> V] /\ Rearranged(l, q, N, m, n) /\ j \in m .. n
      /\ \A x \in m .. j - 1 : NotAfter(val, q[x], q[j])
      /\ \A x \in j + 1 .. n : ~NotAfter(val, q[x], q[j])
  BY DEF Divided
<1>2. /\ a \in [1 .. N -> V] /\ Rearranged(q, a, N, m, j - 1) /\ InOrder(a, m, j - 1, val)
      /\ b \in [1 .. N -> V] /\ Rearranged(a, b, N, j + 1, n) /\ InOrder(b, j + 1, n, val)
  BY DEF Sorts
<1>3. j \in Nat /\ m <= j /\ j <= n /\ 1 <= m /\ j \in 1 .. N
  BY <1>1
<1>4. Rearranged(l, b, N, m, n)
  <2>1. Rearranged(q, a, N, m, n)
    <3>1. m \in Int /\ n \in Int /\ j - 1 \in Int /\ m <= m /\ j - 1 <= n
      BY <1>3
    <3> QED BY <1>2, <1>3, <3>1, RearrangedWider
  <2>2. Rearranged(a, b, N, m, n)
    <3>1. m \in Int /\ n \in Int /\ j + 1 \in Int /\ m <= j + 1 /\ n <= n
      BY <1>3
    <3> QED BY <1>2, <1>3, <3>1, RearrangedWider
  <2>3. Rearranged(l, a, N, m, n)
    BY <1>1, <2>1, RearrangedTwice
  <2> QED BY <2>2, <2>3, RearrangedTwice
<1>kept. /\ \A x \in 1 .. N : x \notin m .. j - 1 => a[x] = q[x]
         /\ \A x \in m .. j - 1 : \E y \in m .. j - 1 : a[x] = q[y]
         /\ \A x \in 1 .. N : x \notin j + 1 .. n => b[x] = a[x]
         /\ \A x \in j + 1 .. n : \E y \in j + 1 .. n : b[x] = a[y]
  <2>1. m .. j - 1 \subseteq 1 .. N /\ j + 1 .. n \subseteq 1 .. N
    BY <1>3
  <2>2. Kept(q, a, N, m, j - 1)
    BY <1>2, <2>1, RearrangedKeeps
  <2>3. Kept(a, b, N, j + 1, n)
    BY <1>2, <2>1, RearrangedKeeps
  <2> QED BY <2>2, <2>3, Zenon DEF Kept
<1>5. b[j] = q[j]
  <2>1. j \notin m .. j - 1 /\ j \notin j + 1 .. n
    BY <1>3
  <2> QED BY <1>3, <1>kept, <2>1
<1>6. ASSUME NEW x \in m .. j - 1 PROVE b[x] = a[x] /\ b[x] \in V /\ NotAfter(val, b[x], q[j])
  <2>1. x \in 1 .. N /\ x \notin j + 1 .. n
    BY <1>3
  <2>2. b[x] = a[x]
    BY <1>kept, <2>1
  <2>3. PICK y \in m .. j - 1 : a[x] = q[y]
    BY <1>kept
  <2> QED BY <1>1, <1>2, <2>1, <2>2, <2>3
<1>7. ASSUME NEW x \in j + 1 .. n PROVE b[x] \in V /\ ~NotAfter(val, b[x], q[j])
  <2>1. PICK y \in j + 1 .. n : b[x] = a[y]
    BY <1>kept
  <2>2. y \in 1 .. N /\ y \notin m .. j - 1 /\ x \in 1 .. N
    BY <1>3
  <2>3. a[y] = q[y]
    BY <1>kept, <2>2
  <2> QED BY <1>1, <1>2, <2>1, <2>2, <2>3
<1>8. q[j] \in V
  BY <1>1, <1>3
<1>9. ASSUME NEW x \in m .. n, NEW y \in m .. n, x <= y PROVE NotAfter(val, b[x], b[y])
  <2>0. x \in Nat /\ y \in Nat
    OBVIOUS
  <2>1. CASE y < j
    <3>1. x \in m .. j - 1 /\ y \in m .. j - 1
      BY <1>3, <1>9, <2>1
    <3> QED BY <1>2, <1>6, <1>9, <3>1 DEF InOrder
  <2>2. CASE x > j
    <3>1. x \in j + 1 .. n /\ y \in j + 1 .. n
      BY <1>3, <1>9, <2>2
    <3> QED BY <1>2, <1>9, <3>1 DEF InOrder
  <2>3. CASE x <= j /\ y >= j
    <3>1. val[b[x]] \in Nat /\ val[q[j]] \in Nat /\ val[b[x]] >= val[q[j]]
      <4>1. CASE x = j
        BY <1>5, <1>8, <4>1 DEF Counts
      <4>2. CASE x # j
        <5>1. x \in m .. j - 1
          BY <1>3, <2>3, <4>2
        <5> QED BY <1>6, <1>8, <5>1 DEF NotAfter, Counts
      <4> QED BY <4>1, <4>2
    <3>2. val[b[y]] \in Nat /\ val[q[j]] >= val[b[y]]
      <4>1. CASE y = j
        BY <1>5, <1>8, <4>1 DEF Counts
      <4>2. CASE y # j
        <5>1. y \in j + 1 .. n
          BY <1>3, <2>3, <4>2
        <5> QED BY <1>7, <1>8, <5>1 DEF NotAfter, Counts
      <4> QED BY <4>1, <4>2
    <3> QED BY <3>1, <3>2 DEF NotAfter
  <2> QED BY <1>3, <2>0, <2>1, <2>2, <2>3
<1> QED BY <1>2, <1>4, <1>9 DEF Sorts, InOrder

(* The arguments of quicksort on a list of N elements of V. *)
CallsOf(N, V) == [list : [1 .. N -> V], m : 1 .. N + 1, n : 0 .. N]

(* c divides its part and makes two calls. *)
MakesCalls(sort, c, V, N, val) ==
  \E q \in [1 .. N -> V], j \in c.m .. c.n :
    /\ Divided(c.list, q, V, N, c.m, c.n, j, val)
    /\ Call(q, c.m, j - 1) \in CallsOf(N, V)
    /\ quicksort(sort, c, val) = sort[Call(sort[Call(q, c.m, j - 1)], j + 1, c.n)]

(* A call on a part of two elements or more divides the part and makes two
   calls. *)
LEMMA QuicksortCalls ==
  ASSUME NEW N \in Nat, NEW V, NEW val, Counts(val, V), NEW sort,
         NEW c \in CallsOf(N, V), c.m < c.n
  PROVE  MakesCalls(sort, c, V, N, val)
<1>1. PICK l \in [1 .. N -> V], m \in 1 .. N + 1, n \in 0 .. N : l = c.list /\ m = c.m /\ n = c.n
  BY DEF CallsOf
<1> DEFINE k == ((m - 1) + (n - 1)) \div 2 + 1
           p == Partition(SWAP(l, m, k), m, n, val)
<1>2. m \in Nat \ {0} /\ n \in Nat /\ m < n /\ n <= N /\ ~(m >= n)
  BY <1>1
<1>3. quicksort(sort, c, val) = SortParts(sort, SWAP(p.list, m, p.j), m, p.j, n)
  BY <1>1, <1>2, Zenon DEF quicksort
<1>4. k \in m .. n
  BY <1>2
<1> HIDE DEF k
<1>5. Divided(l, SWAP(p.list, m, p.j), V, N, m, n, p.j, val)
  BY <1>2, <1>4, Divides, Zenon
<1> HIDE DEF p
<1>6. PICK q, j : q = SWAP(p.list, m, p.j) /\ j = p.j
  OBVIOUS
<1>7. Divided(l, q, V, N, m, n, j, val)
  BY <1>5, <1>6
<1>8. q \in [1 .. N -> V] /\ j \in m .. n
  BY <1>7 DEF Divided
<1>9. Call(q, m, j - 1) \in CallsOf(N, V)
  BY <1>2, <1>8 DEF Call, CallsOf
<1>10. quicksort(sort, c, val) = sort[Call(sort[Call(q, m, j - 1)], j + 1, n)]
  BY <1>3, <1>6 DEF SortParts
<1> QED BY <1>1, <1>7, <1>8, <1>9, <1>10 DEF MakesCalls

(* quicksort returns a list if the calls it makes do. *)
LEMMA QuicksortType ==
  ASSUME NEW N \in Nat, NEW V, NEW val, Counts(val, V),
         NEW sort \in [CallsOf(N, V) -> [1 .. N -> V]], NEW c \in CallsOf(N, V)
  PROVE  quicksort(sort, c, val) \in [1 .. N -> V]
<1>1. c.list \in [1 .. N -> V] /\ c.m \in 1 .. N + 1 /\ c.n \in 0 .. N
  BY DEF CallsOf
<1>2. CASE c.m >= c.n
  BY <1>1, <1>2 DEF quicksort
<1>3. CASE ~(c.m >= c.n)
  <2>1. c.m < c.n
    BY <1>1, <1>3
  <2>2. PICK q \in [1 .. N -> V], j \in c.m .. c.n :
          /\ Divided(c.list, q, V, N, c.m, c.n, j, val)
          /\ Call(q, c.m, j - 1) \in CallsOf(N, V)
          /\ quicksort(sort, c, val) = sort[Call(sort[Call(q, c.m, j - 1)], j + 1, c.n)]
    <3>1. MakesCalls(sort, c, V, N, val)
      BY <2>1, QuicksortCalls
    <3> QED BY <3>1, Zenon DEF MakesCalls
  <2>3. PICK a \in [1 .. N -> V] : a = sort[Call(q, c.m, j - 1)]
    BY <2>2
  <2>4. Call(a, j + 1, c.n) \in CallsOf(N, V)
    BY <1>1 DEF Call, CallsOf
  <2> QED BY <2>2, <2>3, <2>4
<1> QED BY <1>2, <1>3

(* A call sorts its part if the calls it makes do, which are on shorter ones. *)
LEMMA QuicksortSorts ==
  ASSUME NEW N \in Nat, NEW V, NEW val, Counts(val, V), NEW d \in Int,
         NEW sort, \A c \in CallsOf(N, V) : c.n - c.m < d - 1 =>
                     Sorts(c.list, sort[c], V, N, c.m, c.n, val),
         NEW c \in CallsOf(N, V), c.n - c.m < d
  PROVE  Sorts(c.list, quicksort(sort, c, val), V, N, c.m, c.n, val)
<1>1. PICK l \in [1 .. N -> V], m \in 1 .. N + 1, n \in 0 .. N : l = c.list /\ m = c.m /\ n = c.n
  BY DEF CallsOf
<1>2. CASE m >= n
  <2>1. quicksort(sort, c, val) = l
    BY <1>1, <1>2 DEF quicksort
  <2>2. Rearranged(l, l, N, m, n)
    BY RearrangedSelf
  <2>3. InOrder(l, m, n, val)
    <3>1. ASSUME NEW x \in m .. n, NEW y \in m .. n PROVE x = y /\ x \in 1 .. N
      BY <1>2
    <3>2. ASSUME NEW x \in m .. n PROVE val[l[x]] >= val[l[x]]
      <4>1. l[x] \in V
        BY <3>1
      <4> QED BY <4>1 DEF Counts
    <3> QED BY <3>1, <3>2, Zenon DEF InOrder, NotAfter
  <2> QED BY <1>1, <2>1, <2>2, <2>3 DEF Sorts
<1>3. CASE ~(m >= n)
  <2>1. c.m < c.n /\ m \in Nat \ {0} /\ n \in Nat /\ m < n /\ n <= N /\ n - m < d
    BY <1>1, <1>3
  <2>2. PICK q \in [1 .. N -> V], j \in c.m .. c.n :
          /\ Divided(c.list, q, V, N, c.m, c.n, j, val)
          /\ Call(q, c.m, j - 1) \in CallsOf(N, V)
          /\ quicksort(sort, c, val) = sort[Call(sort[Call(q, c.m, j - 1)], j + 1, c.n)]
    <3>1. MakesCalls(sort, c, V, N, val)
      BY <2>1, QuicksortCalls
    <3> QED BY <3>1, Zenon DEF MakesCalls
  <2>3. j \in m .. n /\ Divided(l, q, V, N, m, n, j, val) /\ Call(q, m, j - 1) \in CallsOf(N, V)
    BY <1>1, <2>2
  <2>4. PICK c1 \in CallsOf(N, V) : c1 = Call(q, m, j - 1) /\ c1.list = q /\ c1.m = m /\ c1.n = j - 1
    BY <2>3 DEF Call
  <2>5. j - 1 - m < d - 1 /\ n - (j + 1) < d - 1
    BY <2>1, <2>3
  <2>6. PICK a : a = sort[c1]
    OBVIOUS
  <2>7. Sorts(q, a, V, N, m, j - 1, val)
    BY <2>4, <2>5, <2>6
  <2>8. a \in [1 .. N -> V]
    BY <2>7 DEF Sorts
  <2>9. PICK c2 \in CallsOf(N, V) : c2 = Call(a, j + 1, n) /\ c2.list = a /\ c2.m = j + 1 /\ c2.n = n
    <3>1. Call(a, j + 1, n) \in CallsOf(N, V)
      BY <2>1, <2>3, <2>8 DEF Call, CallsOf
    <3>2. Call(a, j + 1, n).list = a /\ Call(a, j + 1, n).m = j + 1 /\ Call(a, j + 1, n).n = n
      BY DEF Call
    <3> QED BY <3>1, <3>2
  <2>10. Sorts(a, sort[c2], V, N, j + 1, n, val)
    BY <2>5, <2>9
  <2>11. quicksort(sort, c, val) = sort[c2]
    BY <1>1, <2>2, <2>4, <2>6, <2>9
  <2>12. Sorts(l, sort[c2], V, N, m, n, val)
    BY <2>1, <2>3, <2>7, <2>10, PartsSorted
  <2> QED BY <1>1, <2>11, <2>12
<1> QED BY <1>2, <1>3

(* Sorted returns the same elements, in the order of val. *)
THEOREM SortedSorts ==
  ASSUME NEW V, NEW list \in Seq(V), NEW val, \A i \in 1 .. Len(list) : val[list[i]] \in Nat
  PROVE  /\ Sorted(list, val) \in Seq(V) /\ Len(Sorted(list, val)) = Len(list)
         /\ Rearranged(list, Sorted(list, val), Len(list), 1, Len(list))
         /\ InOrder(Sorted(list, val), 1, Len(list), val)
<1> DEFINE N == Len(list)
           E == {list[i] : i \in 1 .. N}
           Calls == CallsOf(N, E)
           Lists == [1 .. N -> E]
           T == [Calls -> Lists]
           base == [c \in Calls |-> c.list]
           Level(f) == [c \in Calls |-> quicksort(f, c, val)]
           step == [x \in (1 .. N) \X T |-> Level(x[2])]
           Body(f) == [d \in 0 .. N |->
                         [c \in Calls |-> IF d = 0 THEN c.list ELSE quicksort(f[d - 1], c, val)]]
           run == CHOOSE f : f = Body(f)
           Good(f, d) == \A c \in Calls : c.n - c.m < d => Sorts(c.list, f[c], E, N, c.m, c.n, val)
<1>1. N \in Nat /\ list \in [1 .. N -> E] /\ E \subseteq V /\ Counts(val, E)
  BY DEF Counts
<1>2. Sorted(list, val) = run[N][Call(list, 1, N)]
  BY Zenon DEF Sorted, CallsOf
<1>3. base \in T
  BY DEF CallsOf
<1> HIDE DEF E, N
<1>4. ASSUME NEW f \in T PROVE Level(f) \in T
  <2>1. ASSUME NEW c \in Calls PROVE quicksort(f, c, val) \in Lists
    BY <1>1, QuicksortType
  <2> QED BY <2>1
<1>5. step \in [(1 .. N) \X T -> T] /\ \A d \in 1 .. N, f \in T : step[<<d, f>>] = Level(f)
  <2> HIDE DEF Level, T
  <2> QED BY <1>4
<1> HIDE DEF step
<1>6. PICK g \in [0 .. N -> T] : g[0] = base /\ \A d \in 1 .. N : g[d] = step[<<d, g[d - 1]>>]
  <2> HIDE DEF T, base
  <2>1. LoopRuns(N, T, base, step) # {}
    BY <1>1, <1>3, <1>5, LoopRunExists
  <2> QED BY <2>1 DEF LoopRuns
<1>7. g = Body(g)
  <2>1. ASSUME NEW d \in 0 .. N PROVE g[d] = Body(g)[d]
    <3>1. CASE d = 0
      BY <1>6, <3>1
    <3>2. CASE d # 0
      <4>1. d \in 1 .. N /\ d - 1 \in 0 .. N
        BY <1>1, <3>2
      <4>2. g[d - 1] \in T
        BY <4>1
      <4>3. g[d] = Level(g[d - 1])
        BY <1>5, <1>6, <4>1, <4>2, Zenon
      <4> QED BY <3>2, <4>3
    <3> QED BY <3>1, <3>2
  <2> HIDE DEF T
  <2>2. Body(g) = [d \in 0 .. N |-> Body(g)[d]] /\ g = [d \in 0 .. N |-> g[d]]
    OBVIOUS
  <2> HIDE DEF Body
  <2> QED BY <2>1, <2>2
<1>8. run = Body(run)
  BY <1>7, Zenon
<1>9. ASSUME NEW d \in 0 .. N, NEW c \in Calls
      PROVE  run[d][c] = IF d = 0 THEN c.list ELSE quicksort(run[d - 1], c, val)
  <2> HIDE DEF run
  <2>1. Body(run)[d][c] = IF d = 0 THEN c.list ELSE quicksort(run[d - 1], c, val)
    BY Zenon
  <2> HIDE DEF Body
  <2> QED BY <1>8, <2>1
<1> HIDE DEF run
<1>10. 0 .. N \subseteq {d \in 0 .. N : Good(run[d], d)}
  <2> DEFINE S == {d \in 0 .. N : Good(run[d], d)}
  <2>1. 0 \in S
    <3>1. ASSUME NEW c \in Calls, c.n - c.m < 0
          PROVE  Sorts(c.list, run[0][c], E, N, c.m, c.n, val)
      <4>1. run[0][c] = c.list /\ c.list \in Lists
        BY <1>1, <1>9 DEF CallsOf
      <4>2. InOrder(c.list, c.m, c.n, val)
        <5>1. c.m .. c.n = {}
          BY <1>1, <3>1 DEF CallsOf
        <5> QED BY <5>1 DEF InOrder
      <4> QED BY <4>1, <4>2, RearrangedSelf DEF Sorts
    <3> QED BY <1>1, <3>1
  <2>2. ASSUME NEW d \in 1 .. N, d - 1 \in S PROVE d \in S
    <3>1. d \in 0 .. N /\ d # 0 /\ Good(run[d - 1], d - 1)
      BY <1>1, <2>2
    <3>2. ASSUME NEW c \in Calls, c.n - c.m < d
          PROVE  Sorts(c.list, run[d][c], E, N, c.m, c.n, val)
      <4>1. run[d][c] = quicksort(run[d - 1], c, val)
        BY <1>9, <3>1
      <4>2. Sorts(c.list, quicksort(run[d - 1], c, val), E, N, c.m, c.n, val)
        <5>1. d \in Int
          OBVIOUS
        <5> QED BY <1>1, <3>1, <3>2, <5>1, QuicksortSorts, Zenon
      <4> QED BY <4>1, <4>2
    <3> QED BY <3>1, <3>2
  <2> HIDE DEF S
  <2>3. 0 .. N \subseteq S
    BY <1>1, <2>1, <2>2, StepInduction
  <2> QED BY <2>3 DEF S
<1>11. PICK c \in Calls : c = Call(list, 1, N) /\ c.list = list /\ c.m = 1 /\ c.n = N
  <2>1. Call(list, 1, N) \in Calls
    BY <1>1 DEF Call, CallsOf
  <2>2. Call(list, 1, N).list = list /\ Call(list, 1, N).m = 1 /\ Call(list, 1, N).n = N
    BY DEF Call
  <2> QED BY <2>1, <2>2
<1>12. Good(run[N], N)
  BY <1>1, <1>10
<1>13. Sorts(list, run[N][c], E, N, 1, N, val)
  <2>1. N - 1 < N
    BY <1>1
  <2> QED BY <1>11, <1>12, <2>1
<1>14. PICK r : r = Sorted(list, val) /\ Sorts(list, r, E, N, 1, N, val)
  BY <1>2, <1>11, <1>13
<1>15. r \in [1 .. N -> V]
  BY <1>1, <1>14 DEF Sorts
<1>16. r \in Seq(V) /\ Len(r) = N
  BY <1>1, <1>15
<1> QED BY <1>14, <1>16 DEF Sorts, N
-----------------------------------------------------------------------------
(* The buffers and the tables. *)

(* Every line of every report. *)
AllLines == UNION {Lines(c) : c \in Copies}

Bufs == [capacity : Nat, len : Nat, lines : Seq(AllLines)]

(* The buffer has room for what is in it, and is not smaller than a new one. *)
Fits(b) == b.len < b.capacity /\ BufSize <= b.capacity

Exs == [sbuf : [addrs : Bufs, streams : Bufs, stats : Bufs],
        _streams : SUBSET Nat, _addrs : SUBSET Nat]

(* The lines of a table have the ids, one line each. *)
TableOf(lines, ids) ==
  /\ \A p \in DOMAIN lines : lines[p].iid \in ids
  /\ \A id \in ids : \E p \in DOMAIN lines : \A q \in DOMAIN lines : lines[q].iid = id <=> q = p

(* The export's state: the buffers fit, and the tables have what was seen. *)
OkEx(e) ==
  /\ e \in Exs
  /\ Fits(e.sbuf.addrs) /\ Fits(e.sbuf.streams) /\ Fits(e.sbuf.stats)
  /\ TableOf(e.sbuf.addrs.lines, e._addrs) /\ TableOf(e.sbuf.streams.lines, e._streams)
  /\ \A p \in DOMAIN e.sbuf.streams.lines : e.sbuf.streams.lines[p].left \in e._addrs
                                            /\ e.sbuf.streams.lines[p].right \in e._addrs
  /\ \A p \in DOMAIN e.sbuf.stats.lines :
       /\ e.sbuf.stats.lines[p].kind = "TSTR" => e.sbuf.stats.lines[p].iid \in e._streams
       /\ e.sbuf.stats.lines[p].kind = "TADR" => e.sbuf.stats.lines[p].iid \in e._addrs

(* A line is shorter than a new buffer. *)
LEMMA LineFits ==
  ASSUME NEW l \in AllLines
  PROVE  LineLen(l) \in Nat /\ LineLen(l) < BufSize /\ BufSize \in Nat
<1>1. PICK c \in Copies : l \in Lines(c)
  BY DEF AllLines
<1>2. LineLen(l) \in 0 .. BufSize - 1 /\ BufSize \in Nat
  BY <1>1, ReportAssumption
<1>3. PICK n \in 0 .. BufSize - 1 : n = LineLen(l)
  BY <1>2
<1> QED BY <1>2, <1>3

(* One doubling makes room for a line. *)
LEMMA AppendFits ==
  ASSUME NEW b \in Bufs, Fits(b), NEW l \in AllLines
  PROVE  /\ sbuf_append(b, l) \in Bufs /\ Fits(sbuf_append(b, l))
         /\ sbuf_append(b, l).lines = Append(b.lines, l)
<1>1. PICK n \in Nat : n = LineLen(l) /\ n < BufSize /\ BufSize \in Nat
  BY LineFits
<1>2. PICK cap \in Nat, len \in Nat, ls \in Seq(AllLines) :
        /\ b = [capacity |-> cap, len |-> len, lines |-> ls] /\ cap = b.capacity
        /\ len = b.len /\ ls = b.lines
  BY DEF Bufs
<1>3. len < cap /\ BufSize <= cap
  BY <1>2 DEF Fits
<1>4. Append(ls, l) \in Seq(AllLines)
  OBVIOUS
<1>5. CASE n > cap - len - 1
  <2>1. sbuf_append(b, l) = [capacity |-> cap * 2, len |-> len + n, lines |-> Append(ls, l)]
    BY <1>1, <1>2, <1>5 DEF sbuf_append, sbuf_remaining, sbuf_grow
  <2>2. cap * 2 \in Nat /\ len + n \in Nat /\ len + n < cap * 2 /\ BufSize <= cap * 2
    BY <1>1, <1>3
  <2>3. sbuf_append(b, l) \in Bufs
    BY <1>4, <2>1, <2>2 DEF Bufs
  <2>4. Fits(sbuf_append(b, l)) /\ sbuf_append(b, l).lines = Append(ls, l)
    BY <2>1, <2>2 DEF Fits
  <2> QED BY <1>2, <2>3, <2>4
<1>6. CASE ~(n > cap - len - 1)
  <2>1. sbuf_append(b, l) = [capacity |-> cap, len |-> len + n, lines |-> Append(ls, l)]
    BY <1>1, <1>2, <1>6 DEF sbuf_append, sbuf_remaining
  <2>2. len + n \in Nat /\ len + n < cap
    BY <1>1, <1>3, <1>6
  <2>3. sbuf_append(b, l) \in Bufs
    BY <1>4, <2>1, <2>2 DEF Bufs
  <2>4. Fits(sbuf_append(b, l)) /\ sbuf_append(b, l).lines = Append(ls, l)
    BY <1>3, <2>1, <2>2 DEF Fits
  <2> QED BY <1>2, <2>3, <2>4
<1> QED BY <1>5, <1>6

(* A line with a new id makes the table one longer. *)
LEMMA TableGrows ==
  ASSUME NEW S, NEW lines \in Seq(S), NEW l \in S, NEW ids, l.iid \notin ids, TableOf(lines, ids)
  PROVE  TableOf(Append(lines, l), ids \cup {l.iid})
<1> DEFINE n == Len(lines)
           new == Append(lines, l)
<1>1. /\ n \in Nat /\ DOMAIN lines = 1 .. n /\ DOMAIN new = 1 .. n + 1
      /\ \A p \in 1 .. n : new[p] = lines[p]
      /\ new[n + 1] = l
  OBVIOUS
<1>2. \A p \in 1 .. n + 1 : p \in 1 .. n \/ p = n + 1
  BY <1>1
<1>3. n + 1 \in 1 .. n + 1 /\ n + 1 \notin 1 .. n /\ \A p \in 1 .. n : p \in 1 .. n + 1
  BY <1>1
<1> HIDE DEF n, new
<1>4. \A p \in DOMAIN new : new[p].iid \in ids \cup {l.iid}
  BY <1>1, <1>2, Zenon DEF TableOf
<1>5. ASSUME NEW id \in ids
      PROVE  \E p \in DOMAIN new : \A q \in DOMAIN new : new[q].iid = id <=> q = p
  <2>1. PICK p \in DOMAIN lines : \A q \in DOMAIN lines : lines[q].iid = id <=> q = p
    BY DEF TableOf
  <2>2. id # l.iid
    OBVIOUS
  <2>3. ASSUME NEW q \in 1 .. n + 1 PROVE new[q].iid = id <=> q = p
    <3>1. CASE q \in 1 .. n
      BY <1>1, <2>1, <3>1
    <3>2. CASE q = n + 1
      <4>1. p # q
        BY <1>1, <1>3, <3>2
      <4> QED BY <1>1, <2>2, <3>2, <4>1
    <3> QED BY <1>2, <3>1, <3>2
  <2> QED BY <1>1, <1>3, <2>3
<1>6. \E p \in DOMAIN new : \A q \in DOMAIN new : new[q].iid = l.iid <=> q = p
  <2>1. ASSUME NEW q \in 1 .. n + 1 PROVE new[q].iid = l.iid <=> q = n + 1
    <3>1. CASE q \in 1 .. n
      <4>1. new[q].iid \in ids
        BY <1>1, <3>1 DEF TableOf
      <4> QED BY <1>3, <3>1, <4>1
    <3>2. CASE q = n + 1
      BY <1>1, <3>2
    <3> QED BY <1>2, <3>1, <3>2
  <2>2. n + 1 \in DOMAIN new /\ \A q \in DOMAIN new : new[q].iid = l.iid <=> q = n + 1
    BY <1>1, <1>3, <2>1
  <2> QED BY <2>2, Zenon
<1>7. ASSUME NEW id \in ids \cup {l.iid}
      PROVE  \E p \in DOMAIN new : \A q \in DOMAIN new : new[q].iid = id <=> q = p
  <2>1. id \in ids \/ id = l.iid
    OBVIOUS
  <2> QED BY <1>5, <1>6, <2>1, Zenon
<1> QED BY <1>4, <1>7, Zenon DEF TableOf, new

(* The lines written from a copy are lines. *)
LEMMA LinesIn ==
  ASSUME NEW c \in Copies
  PROVE  /\ Heading \in AllLines
         /\ \A a \in DOMAIN c.addrs : AddrLine(c, a) \in AllLines
         /\ \A s \in DOMAIN c.streams : StreamLine(c, s) \in AllLines
         /\ \A sec \in Sections : \A i \in 0 .. NumTop(sec) - 1 : \A x \in DOMAIN Table(c, sec) :
              StatLine(c, sec, i, x) \in AllLines
<1> DEFINE A == {AddrLine(c, a) : a \in DOMAIN c.addrs}
           S == {StreamLine(c, s) : s \in DOMAIN c.streams}
           Of(sec) == {StatLine(c, sec, i, x) : i \in 0 .. NumTop(sec) - 1, x \in DOMAIN Table(c, sec)}
           T == {Of(sec) : sec \in Sections}
<1>1. Lines(c) = {Heading} \cup A \cup S \cup UNION T
  BY DEF Lines
<1>2. Lines(c) \subseteq AllLines
  BY DEF AllLines
<1>3. \A a \in DOMAIN c.addrs : AddrLine(c, a) \in A
  OBVIOUS
<1>4. \A s \in DOMAIN c.streams : StreamLine(c, s) \in S
  OBVIOUS
<1>5. \A sec \in Sections : \A i \in 0 .. NumTop(sec) - 1 : \A x \in DOMAIN Table(c, sec) :
        StatLine(c, sec, i, x) \in Of(sec)
  OBVIOUS
<1> HIDE DEF A, S, Of
<1>6. \A sec \in Sections : Of(sec) \in T
  OBVIOUS
<1> HIDE DEF T
<1>7. \A sec \in Sections : Of(sec) \subseteq AllLines
  BY <1>1, <1>2, <1>6
<1> QED BY <1>1, <1>2, <1>3, <1>4, <1>5, <1>7

(* The types of the entries of a copy. *)
LEMMA CopyTypes ==
  ASSUME NEW c, IsCopy(c)
  PROVE  /\ Len(c.streams) \in Nat /\ DOMAIN c.streams = 1 .. Len(c.streams)
         /\ Len(c.addrs) \in Nat /\ DOMAIN c.addrs = 1 .. Len(c.addrs)
         /\ Len(c.protos) \in Nat /\ DOMAIN c.protos = 1 .. Len(c.protos)
         /\ \A s \in DOMAIN c.streams :
              /\ c.streams[s].iid \in Nat /\ c.streams[s].packets \in Nat /\ c.streams[s].bytes \in Nat
              /\ c.streams[s].idx_left \in DOMAIN c.addrs /\ c.streams[s].idx_right \in DOMAIN c.addrs
              /\ c.streams[s].rport \in Nat
         /\ \A a \in DOMAIN c.addrs : c.addrs[a].iid \in Nat /\ c.addrs[a].txpackets \in Nat
         /\ \A p \in DOMAIN c.protos : c.protos[p].entry \in 0 .. 2 * NumTcpProtos - 1
                                       /\ c.protos[p].packets \in Nat
<1> DEFINE S == [iid : Nat, packets : Nat, bytes : Nat, idx_left : DOMAIN c.addrs,
                 idx_right : DOMAIN c.addrs, lport : Nat, rport : Nat]
           A == [iid : Nat, internal : BOOLEAN, txpackets : Nat]
           P == [entry : 0 .. 2 * NumTcpProtos - 1, packets : Nat]
<1>1. c.streams \in Seq(S) /\ c.addrs \in Seq(A) /\ c.protos \in Seq(P)
  BY DEF IsCopy
<1>2. \A r \in S : /\ r.iid \in Nat /\ r.packets \in Nat /\ r.bytes \in Nat
                   /\ r.idx_left \in DOMAIN c.addrs /\ r.idx_right \in DOMAIN c.addrs /\ r.rport \in Nat
  OBVIOUS
<1>3. \A r \in A : r.iid \in Nat /\ r.txpackets \in Nat
  OBVIOUS
<1>4. \A r \in P : r.entry \in 0 .. 2 * NumTcpProtos - 1 /\ r.packets \in Nat
  OBVIOUS
<1> HIDE DEF S, A, P
<1>5. /\ Len(c.streams) \in Nat /\ DOMAIN c.streams = 1 .. Len(c.streams)
      /\ \A s \in DOMAIN c.streams : c.streams[s] \in S
  BY <1>1
<1>6. /\ Len(c.addrs) \in Nat /\ DOMAIN c.addrs = 1 .. Len(c.addrs)
      /\ \A s \in DOMAIN c.addrs : c.addrs[s] \in A
  BY <1>1
<1>7. /\ Len(c.protos) \in Nat /\ DOMAIN c.protos = 1 .. Len(c.protos)
      /\ \A s \in DOMAIN c.protos : c.protos[s] \in P
  BY <1>1
<1> QED BY <1>2, <1>3, <1>4, <1>5, <1>6, <1>7, Zenon

(* What a step of the export leaves alone and what it adds. *)
SameStats(e, f) == f.sbuf.stats = e.sbuf.stats /\ e._addrs \subseteq f._addrs /\ e._streams \subseteq f._streams

(* on_new_addr puts an address in the table unless it is there. *)
LEMMA NewAddr ==
  ASSUME copy \in Copies, NEW e, OkEx(e), NEW a \in DOMAIN copy.addrs,
         copy.addrs[a].iid \in Nat
  PROVE  /\ OkEx(on_new_addr(e, a)) /\ SameStats(e, on_new_addr(e, a))
         /\ copy.addrs[a].iid \in on_new_addr(e, a)._addrs
         /\ on_new_addr(e, a)._streams = e._streams
         /\ on_new_addr(e, a).sbuf.streams = e.sbuf.streams
         /\ on_new_addr(e, a)._addrs \subseteq e._addrs \cup {copy.addrs[a].iid}
<1> DEFINE id == copy.addrs[a].iid
           f == on_new_addr(e, a)
<1>1. CASE id \in e._addrs
  <2>1. f = e
    BY <1>1 DEF on_new_addr
  <2> QED BY <1>1, <2>1 DEF SameStats
<1>2. CASE id \notin e._addrs
  <2>1. PICK l \in AllLines : l = AddrLine(copy, a) /\ l.iid = id
    BY LinesIn DEF AddrLine
  <2>2. e \in Exs /\ e.sbuf.addrs \in Bufs /\ Fits(e.sbuf.addrs)
    BY DEF OkEx, Exs
  <2>3. PICK b \in Bufs : b = sbuf_append(e.sbuf.addrs, l) /\ Fits(b) /\ b.lines = Append(e.sbuf.addrs.lines, l)
    BY <2>2, AppendFits
  <2>4. f = [e EXCEPT !._addrs = @ \cup {id}, !.sbuf.addrs = b]
    BY <1>2, <2>1, <2>3 DEF on_new_addr
  <2>5. /\ f \in Exs /\ f._addrs = e._addrs \cup {id} /\ f._streams = e._streams
        /\ f.sbuf.addrs = b /\ f.sbuf.streams = e.sbuf.streams /\ f.sbuf.stats = e.sbuf.stats
    <3> HIDE DEF f
    <3> QED BY <2>2, <2>4 DEF Exs
  <2>6. TableOf(b.lines, f._addrs)
    <3>1. e.sbuf.addrs.lines \in Seq(AllLines)
      BY <2>2 DEF Bufs
    <3>2. l.iid \notin e._addrs /\ TableOf(e.sbuf.addrs.lines, e._addrs)
      BY <1>2, <2>1 DEF OkEx
    <3>3. TableOf(Append(e.sbuf.addrs.lines, l), e._addrs \cup {l.iid})
      BY <3>1, <3>2, TableGrows
    <3> QED BY <2>1, <2>3, <2>5, <3>3
  <2> HIDE DEF f
  <2>7. OkEx(f)
    BY <2>3, <2>5, <2>6 DEF OkEx
  <2>8. SameStats(e, f) /\ id \in f._addrs
    BY <2>5 DEF SameStats
  <2> QED BY <2>5, <2>7, <2>8 DEF f
<1> QED BY <1>1, <1>2

(* T has no more than two elements that S does not have. *)
TwoMore(S, T) == \E x, y : T \subseteq S \cup {x} \cup {y}

(* on_new_stream puts a stream and its two addresses in the tables. *)
LEMMA NewStream ==
  ASSUME copy \in Copies, NEW e, OkEx(e), NEW s \in DOMAIN copy.streams
  PROVE  /\ OkEx(on_new_stream(e, s)) /\ SameStats(e, on_new_stream(e, s))
         /\ copy.streams[s].iid \in on_new_stream(e, s)._streams
         /\ on_new_stream(e, s)._streams \subseteq e._streams \cup {copy.streams[s].iid}
         /\ TwoMore(e._addrs, on_new_stream(e, s)._addrs)
<1> DEFINE id == copy.streams[s].iid
           f == on_new_stream(e, s)
<1>0. IsCopy(copy)
  BY ReportAssumption
<1>1. CASE id \in e._streams
  <2>1. f = e
    BY <1>1 DEF on_new_stream
  <2> QED BY <1>1, <2>1 DEF SameStats, TwoMore
<1>2. CASE id \notin e._streams
  <2>1. PICK a \in DOMAIN copy.addrs, b \in DOMAIN copy.addrs :
          a = copy.streams[s].idx_left /\ b = copy.streams[s].idx_right
    BY <1>0, CopyTypes
  <2>2. copy.addrs[a].iid \in Nat /\ copy.addrs[b].iid \in Nat /\ id \in Nat
    BY <1>0, CopyTypes
  <2>3. PICK g : /\ g = on_new_addr(e, a) /\ OkEx(g) /\ SameStats(e, g)
                 /\ g._addrs \subseteq e._addrs \cup {copy.addrs[a].iid}
                 /\ copy.addrs[a].iid \in g._addrs /\ g._streams = e._streams
                 /\ g.sbuf.streams = e.sbuf.streams
    BY <2>2, NewAddr
  <2>4. PICK h : /\ h = on_new_addr(g, b) /\ OkEx(h) /\ SameStats(g, h)
                 /\ h._addrs \subseteq g._addrs \cup {copy.addrs[b].iid}
                 /\ copy.addrs[b].iid \in h._addrs /\ h._streams = g._streams
                 /\ h.sbuf.streams = g.sbuf.streams
    BY <2>2, <2>3, NewAddr
  <2>5. SameStats(e, h) /\ copy.addrs[a].iid \in h._addrs /\ h._streams = e._streams
    BY <2>3, <2>4 DEF SameStats
  <2>6. PICK l \in AllLines : /\ l = StreamLine(copy, s) /\ l.iid = id
                              /\ l.left = copy.addrs[a].iid /\ l.right = copy.addrs[b].iid
    BY <2>1, LinesIn DEF StreamLine
  <2>7. h \in Exs /\ h.sbuf.streams \in Bufs /\ Fits(h.sbuf.streams)
    BY <2>4 DEF OkEx, Exs
  <2>8. PICK c \in Bufs : c = sbuf_append(h.sbuf.streams, l) /\ Fits(c) /\ c.lines = Append(h.sbuf.streams.lines, l)
    BY <2>7, AppendFits
  <2>9. f = [h EXCEPT !._streams = @ \cup {id}, !.sbuf.streams = c]
    BY <1>2, <2>1, <2>3, <2>4, <2>6, <2>8, Zenon DEF on_new_stream
  <2>10. /\ f \in Exs /\ f._streams = h._streams \cup {id} /\ f._addrs = h._addrs
         /\ f.sbuf.streams = c /\ f.sbuf.addrs = h.sbuf.addrs /\ f.sbuf.stats = h.sbuf.stats
    <3> HIDE DEF f
    <3> QED BY <2>2, <2>7, <2>9 DEF Exs
  <2>11. h.sbuf.streams.lines \in Seq(AllLines)
    BY <2>7 DEF Bufs
  <2>12. TableOf(c.lines, f._streams)
    <3>1. l.iid \notin h._streams /\ TableOf(h.sbuf.streams.lines, h._streams)
      BY <1>2, <2>4, <2>5, <2>6 DEF OkEx
    <3>2. TableOf(Append(h.sbuf.streams.lines, l), h._streams \cup {l.iid})
      BY <2>11, <3>1, TableGrows
    <3> QED BY <2>6, <2>8, <2>10, <3>2
  <2>13. ASSUME NEW p \in DOMAIN c.lines PROVE c.lines[p].left \in f._addrs /\ c.lines[p].right \in f._addrs
    <3>1. CASE p \in DOMAIN h.sbuf.streams.lines
      <4>1. c.lines[p] = h.sbuf.streams.lines[p]
        BY <2>8, <2>11, <3>1
      <4> QED BY <2>4, <2>10, <3>1, <4>1 DEF OkEx
    <3>2. CASE p \notin DOMAIN h.sbuf.streams.lines
      <4>1. c.lines[p] = l
        BY <2>8, <2>11, <3>2
      <4> QED BY <2>4, <2>5, <2>6, <2>10, <4>1
    <3> QED BY <3>1, <3>2
  <2> HIDE DEF f
  <2>14. OkEx(f)
    BY <2>4, <2>8, <2>10, <2>12, <2>13 DEF OkEx
  <2>15. SameStats(e, f) /\ id \in f._streams
    BY <2>5, <2>10 DEF SameStats
  <2>16. f._streams \subseteq e._streams \cup {id}
    BY <2>5, <2>10
  <2>17. f._addrs \subseteq e._addrs \cup {copy.addrs[a].iid} \cup {copy.addrs[b].iid}
    BY <2>3, <2>4, <2>10
  <2>18. TwoMore(e._addrs, f._addrs)
    BY <2>17 DEF TwoMore
  <2> QED BY <2>14, <2>15, <2>16, <2>18 DEF f
<1> QED BY <1>1, <1>2

(* The sections. *)
LEMMA SectionFacts ==
  ASSUME NEW sec \in Sections
  PROVE  /\ sec.kind \in {"TSTR", "PORT", "TADR"} /\ NumTop(sec) \in Nat /\ NumTop(sec) > 0
         /\ sec = Section(sec.kind, sec.sortby, sec.flowflags)
<1>1. sec.kind \in {"TSTR", "PORT", "TADR"} /\ sec = Section(sec.kind, sec.sortby, sec.flowflags)
  BY DEF Sections, Section
<1>2. NumTop(sec) \in {TopStreams, TopProtos, TopAddrs}
  BY <1>1 DEF NumTop
<1>3. TopStreams \in Nat \ {0} /\ TopProtos \in Nat \ {0} /\ TopAddrs \in Nat \ {0}
  BY ReportAssumption, Zenon
<1>4. PICK n : n = NumTop(sec)
  OBVIOUS
<1>5. n \in Nat /\ n > 0
  BY <1>2, <1>3, <1>4
<1> QED BY <1>1, <1>4, <1>5

(* The columns of a line of the statistics. *)
LEMMA StatLineFields ==
  ASSUME NEW sec \in Sections, NEW c, NEW i, NEW x
  PROVE  /\ StatLine(c, sec, i, x).kind = sec.kind
         /\ StatLine(c, sec, i, x).sortby = sec.sortby
         /\ StatLine(c, sec, i, x).flowflags = sec.flowflags
         /\ sec.kind = "TSTR" => StatLine(c, sec, i, x).iid = c.streams[x].iid
         /\ sec.kind = "TADR" => StatLine(c, sec, i, x).iid = c.addrs[x].iid
         /\ sec.kind = "PORT" => /\ StatLine(c, sec, i, x).port = PortOf(c.protos[x].entry)
                                 /\ StatLine(c, sec, i, x).ipproto = ProtoOf(c.protos[x].entry)
                                 /\ StatLine(c, sec, i, x).packets = c.protos[x].packets
<1>1. sec.kind = "TSTR" \/ sec.kind = "PORT" \/ sec.kind = "TADR"
  BY SectionFacts
<1>2. CASE sec.kind = "TSTR"
  BY <1>2 DEF StatLine
<1>3. CASE sec.kind = "PORT"
  BY <1>3 DEF StatLine
<1>4. CASE sec.kind = "TADR"
  BY <1>4 DEF StatLine
<1> QED BY <1>1, <1>2, <1>3, <1>4

(* The lines with a line of a section added, and its heading before the first. *)
WithLine(lines, i, l) == IF i = 0 THEN Append(Append(lines, Heading), l) ELSE Append(lines, l)

(* What is in a longer list of lines. *)
LEMMA WithLineIn ==
  ASSUME NEW S, NEW lines \in Seq(S), Heading \in S, NEW l \in S, NEW i
  PROVE  /\ WithLine(lines, i, l) \in Seq(S)
         /\ \A p \in DOMAIN WithLine(lines, i, l) :
              \/ p \in DOMAIN lines /\ WithLine(lines, i, l)[p] = lines[p]
              \/ WithLine(lines, i, l)[p] \in {Heading, l}
BY DEF WithLine

(* What a line of a section may add to the lists of what was seen. *)
Grows(e, f, sec) ==
  \E x, y, z :
    /\ f._streams \subseteq e._streams \cup (IF sec.kind = "TSTR" THEN {z} ELSE {})
    /\ f._addrs \subseteq e._addrs \cup (IF sec.kind = "TSTR" THEN {x} ELSE {})
                                  \cup (IF sec.kind = "PORT" THEN {} ELSE {y})

(* AddStat keeps the tables, if the line is about what they have. *)
LEMMA AddStatOk ==
  ASSUME NEW e, OkEx(e), NEW i, NEW l \in AllLines, Heading \in AllLines,
         l.kind = "TSTR" => l.iid \in e._streams,
         l.kind = "TADR" => l.iid \in e._addrs
  PROVE  /\ OkEx(AddStat(e, i, l))
         /\ AddStat(e, i, l).sbuf.stats.lines = WithLine(e.sbuf.stats.lines, i, l)
         /\ AddStat(e, i, l)._streams = e._streams /\ AddStat(e, i, l)._addrs = e._addrs
<1> DEFINE f == AddStat(e, i, l)
           b == e.sbuf.stats
<1>1. e \in Exs /\ b \in Bufs /\ Fits(b)
  BY DEF OkEx, Exs
<1>2. PICK h \in Bufs : /\ h = (IF i = 0 THEN sbuf_append(b, Heading) ELSE b) /\ Fits(h)
                        /\ h.lines = IF i = 0 THEN Append(b.lines, Heading) ELSE b.lines
  <2>1. CASE i = 0
    BY <1>1, <2>1, AppendFits
  <2>2. CASE i # 0
    BY <1>1, <2>2
  <2> QED BY <2>1, <2>2
<1>3. PICK d \in Bufs : d = sbuf_append(h, l) /\ Fits(d) /\ d.lines = Append(h.lines, l)
  BY <1>2, AppendFits
<1>4. f = [e EXCEPT !.sbuf.stats = d]
  BY <1>2, <1>3, Zenon DEF AddStat
<1>5. /\ f \in Exs /\ f._streams = e._streams /\ f._addrs = e._addrs
      /\ f.sbuf.streams = e.sbuf.streams /\ f.sbuf.addrs = e.sbuf.addrs /\ f.sbuf.stats = d
  <2> HIDE DEF f
  <2> QED BY <1>1, <1>4 DEF Exs
<1>6. d.lines = WithLine(b.lines, i, l)
  BY <1>2, <1>3 DEF WithLine
<1>7. ASSUME NEW p \in DOMAIN d.lines
      PROVE  /\ d.lines[p].kind = "TSTR" => d.lines[p].iid \in e._streams
             /\ d.lines[p].kind = "TADR" => d.lines[p].iid \in e._addrs
  <2>1. b.lines \in Seq(AllLines)
    BY <1>1 DEF Bufs
  <2>2. (p \in DOMAIN b.lines /\ d.lines[p] = b.lines[p]) \/ d.lines[p] \in {Heading, l}
    BY <1>6, <2>1, WithLineIn
  <2>3. Heading.kind = "heading"
    BY DEF Heading
  <2>4. CASE p \in DOMAIN b.lines /\ d.lines[p] = b.lines[p]
    BY <2>4 DEF OkEx
  <2>5. CASE d.lines[p] = l
    BY <2>5
  <2>6. CASE d.lines[p] = Heading
    BY <2>3, <2>6
  <2> QED BY <2>2, <2>4, <2>5, <2>6
<1> HIDE DEF f
<1>8. OkEx(f)
  BY <1>3, <1>5, <1>7 DEF OkEx
<1> QED BY <1>5, <1>6, <1>8 DEF f

(* One call of on_topn_stream, on_topn_protocol or on_topn_address. *)
LEMMA TopLine ==
  ASSUME copy \in Copies, NEW e, OkEx(e), NEW sec \in Sections, NEW i \in 0 .. NumTop(sec) - 1,
         NEW x \in DOMAIN Table(copy, sec)
  PROVE  /\ OkEx(on_topn(e, sec, i, x))
         /\ on_topn(e, sec, i, x).sbuf.stats.lines =
              WithLine(e.sbuf.stats.lines, i, StatLine(copy, sec, i, x))
         /\ Grows(e, on_topn(e, sec, i, x), sec)
<1>1. PICK l \in AllLines : l = StatLine(copy, sec, i, x) /\ l.kind = sec.kind
  BY LinesIn, StatLineFields
<1>2. Heading \in AllLines /\ IsCopy(copy)
  BY LinesIn, ReportAssumption
<1>3. CASE sec.kind = "TSTR"
  <2>1. x \in DOMAIN copy.streams /\ l.iid = copy.streams[x].iid
    BY <1>1, <1>3, StatLineFields DEF Table
  <2>0. PICK g, z : g = on_new_stream(e, x) /\ z = copy.streams[x].iid
    OBVIOUS
  <2>2. /\ g = on_new_stream(e, x) /\ OkEx(g) /\ SameStats(e, g) /\ z \in g._streams
        /\ g._streams \subseteq e._streams \cup {z}
        /\ TwoMore(e._addrs, g._addrs)
    BY <2>0, <2>1, NewStream
  <2>3. on_topn(e, sec, i, x) = AddStat(g, i, l)
    BY <1>1, <1>3, <2>2 DEF on_topn, on_topn_stream
  <2>4. PICK f : /\ f = AddStat(g, i, l) /\ OkEx(f) /\ f.sbuf.stats.lines = WithLine(g.sbuf.stats.lines, i, l)
                 /\ f._streams = g._streams /\ f._addrs = g._addrs
    BY <1>1, <1>2, <1>3, <2>0, <2>1, <2>2, AddStatOk
  <2>5. Grows(e, f, sec)
    <3>1. PICK u, v : g._addrs \subseteq e._addrs \cup {u} \cup {v}
      BY <2>2 DEF TwoMore
    <3>2. f._addrs \subseteq e._addrs \cup (IF sec.kind = "TSTR" THEN {u} ELSE {})
                                    \cup (IF sec.kind = "PORT" THEN {} ELSE {v})
      BY <1>3, <2>4, <3>1
    <3>3. f._streams \subseteq e._streams \cup (IF sec.kind = "TSTR" THEN {z} ELSE {})
      BY <1>3, <2>2, <2>4
    <3> QED BY <3>2, <3>3 DEF Grows
  <2> QED BY <1>1, <2>2, <2>3, <2>4, <2>5 DEF SameStats
<1>4. CASE sec.kind = "PORT"
  <2>1. on_topn(e, sec, i, x) = AddStat(e, i, l)
    BY <1>1, <1>4 DEF on_topn, on_topn_protocol
  <2>2. PICK f : /\ f = AddStat(e, i, l) /\ OkEx(f) /\ f.sbuf.stats.lines = WithLine(e.sbuf.stats.lines, i, l)
                 /\ f._streams = e._streams /\ f._addrs = e._addrs
    BY <1>1, <1>2, <1>4, AddStatOk
  <2>3. Grows(e, f, sec)
    BY <2>2 DEF Grows
  <2> QED BY <1>1, <2>1, <2>2, <2>3
<1>5. CASE sec.kind = "TADR"
  <2>1. x \in DOMAIN copy.addrs /\ l.iid = copy.addrs[x].iid
    BY <1>1, <1>5, StatLineFields DEF Table
  <2>0. copy.addrs[x].iid \in Nat
    BY <1>2, <2>1, CopyTypes
  <2>2. PICK g : /\ g = on_new_addr(e, x) /\ OkEx(g) /\ SameStats(e, g)
                 /\ copy.addrs[x].iid \in g._addrs /\ g._streams = e._streams
                 /\ g._addrs \subseteq e._addrs \cup {copy.addrs[x].iid}
    BY <2>0, <2>1, NewAddr
  <2>3. on_topn(e, sec, i, x) = AddStat(g, i, l)
    BY <1>1, <1>5, <2>2 DEF on_topn, on_topn_address
  <2>4. PICK f : /\ f = AddStat(g, i, l) /\ OkEx(f) /\ f.sbuf.stats.lines = WithLine(g.sbuf.stats.lines, i, l)
                 /\ f._streams = g._streams /\ f._addrs = g._addrs
    BY <1>1, <1>2, <1>5, <2>1, <2>2, AddStatOk
  <2>5. Grows(e, f, sec)
    <3>1. f._addrs \subseteq e._addrs \cup (IF sec.kind = "TSTR" THEN {copy.addrs[x].iid} ELSE {})
                                    \cup (IF sec.kind = "PORT" THEN {} ELSE {copy.addrs[x].iid})
      BY <1>5, <2>2, <2>4
    <3>2. f._streams \subseteq e._streams \cup (IF sec.kind = "TSTR" THEN {copy.addrs[x].iid} ELSE {})
      BY <2>2, <2>4
    <3> QED BY <3>1, <3>2 DEF Grows
  <2> QED BY <1>1, <2>2, <2>3, <2>4, <2>5 DEF SameStats
<1> QED BY <1>3, <1>4, <1>5, SectionFacts

(* The lines new are the lines old with the first K elements of a sorted list
   added, as a section with its heading. *)
Added(old, new, c, sec, sorted, K) ==
  /\ new \in Seq(AllLines)
  /\ Len(new) = Len(old) + (IF K = 0 THEN 0 ELSE K + 1)
  /\ \A p \in 1 .. Len(old) : new[p] = old[p]
  /\ K > 0 => new[Len(old) + 1] = Heading
  /\ \A i \in 1 .. K : new[Len(old) + 1 + i] = StatLine(c, sec, i - 1, sorted[i])

(* What Append makes of a sequence. *)
LEMMA Appended ==
  ASSUME NEW S, NEW s \in Seq(S), NEW x \in S, NEW m \in Nat, m = Len(s)
  PROVE  /\ Append(s, x) \in Seq(S) /\ Len(Append(s, x)) = m + 1 /\ Append(s, x)[m + 1] = x
         /\ \A p \in 1 .. m : Append(s, x)[p] = s[p]
OBVIOUS

(* A section grows by a line. *)
LEMMA AddedOne ==
  ASSUME NEW old \in Seq(AllLines), NEW new, NEW c, NEW sec, NEW sorted, NEW k \in Nat,
         Added(old, new, c, sec, sorted, k),
         Heading \in AllLines, StatLine(c, sec, k, sorted[k + 1]) \in AllLines
  PROVE  Added(old, WithLine(new, k, StatLine(c, sec, k, sorted[k + 1])), c, sec, sorted, k + 1)
<1>1. PICK l \in AllLines : l = StatLine(c, sec, k, sorted[k + 1])
  OBVIOUS
<1>2. PICK n \in Nat : n = Len(old)
  OBVIOUS
<1>3. PICK f : f = WithLine(new, k, l)
  OBVIOUS
<1>4. new \in Seq(AllLines)
  BY DEF Added
<1>5. CASE k = 0
  <2>1. Len(new) = n /\ \A p \in 1 .. n : new[p] = old[p]
    BY <1>2, <1>5 DEF Added
  <2>2. f = Append(Append(new, Heading), l)
    BY <1>3, <1>5 DEF WithLine
  <2>3. /\ f \in Seq(AllLines) /\ Len(f) = n + 2 /\ f[n + 1] = Heading /\ f[n + 2] = l
        /\ \A p \in 1 .. n : f[p] = old[p]
    BY <1>4, <2>1, <2>2
  <2>4. ASSUME NEW i \in 1 .. k + 1 PROVE f[n + 1 + i] = StatLine(c, sec, i - 1, sorted[i])
    <3>1. i = 1 /\ n + 1 + i = n + 2 /\ i - 1 = k /\ i = k + 1
      BY <1>5
    <3> QED BY <1>1, <2>3, <3>1
  <2>5. k + 1 > 0 /\ k + 1 # 0 /\ n + 2 = n + (k + 1 + 1)
    BY <1>5
  <2> QED BY <1>1, <1>2, <1>3, <2>3, <2>4, <2>5 DEF Added
<1>6. CASE k # 0
  <2>1. /\ Len(new) = n + k + 1 /\ \A p \in 1 .. n : new[p] = old[p]
        /\ new[n + 1] = Heading
        /\ \A i \in 1 .. k : new[n + 1 + i] = StatLine(c, sec, i - 1, sorted[i])
    BY <1>2, <1>6 DEF Added
  <2>2. f = Append(new, l)
    BY <1>3, <1>6 DEF WithLine
  <2>3. /\ f \in Seq(AllLines) /\ Len(f) = n + k + 2 /\ f[n + k + 2] = l
        /\ \A p \in 1 .. n + k + 1 : f[p] = new[p]
    <3>1. PICK m \in Nat : m = Len(new)
      BY <1>4
    <3>2. PICK g : g = Append(new, l)
      OBVIOUS
    <3>3. /\ g \in Seq(AllLines) /\ Len(g) = m + 1 /\ g[m + 1] = l
          /\ \A p \in 1 .. m : g[p] = new[p]
      BY <1>4, <3>1, <3>2, Appended
    <3>4. m + 1 = n + k + 2 /\ m = n + k + 1
      BY <2>1, <3>1
    <3> QED BY <2>2, <3>2, <3>3, <3>4
  <2>4. ASSUME NEW i \in 1 .. k + 1 PROVE f[n + 1 + i] = StatLine(c, sec, i - 1, sorted[i])
    <3>1. CASE i \in 1 .. k
      BY <2>1, <2>3, <3>1
    <3>2. CASE i \notin 1 .. k
      <4>1. i = k + 1 /\ n + 1 + i = n + k + 2 /\ i - 1 = k
        BY <3>2
      <4> QED BY <1>1, <2>3, <4>1
    <3> QED BY <3>1, <3>2
  <2>5. k + 1 > 0 /\ k + 1 # 0 /\ n + k + 2 = n + (k + 1 + 1)
    BY <1>6
  <2>6. f[n + 1] = Heading /\ \A p \in 1 .. n : f[p] = old[p]
    BY <2>1, <2>3
  <2> QED BY <1>1, <1>2, <1>3, <2>3, <2>4, <2>5, <2>6 DEF Added
<1> QED BY <1>5, <1>6

(* The lists of what was seen have no more than s streams and a addresses. *)
Sized(e, s, a) ==
  /\ IsFiniteSet(e._streams) /\ Cardinality(e._streams) <= s
  /\ IsFiniteSet(e._addrs) /\ Cardinality(e._addrs) <= a

(* What k lines of a section add to the lists at most. *)
NewStreams(sec, k) == IF sec.kind = "TSTR" THEN k ELSE 0

NewAddrs(sec, k) == IF sec.kind = "TSTR" THEN 2 * k ELSE IF sec.kind = "PORT" THEN 0 ELSE k

Lists(e, f, sec, k) ==
  \A s, a \in Nat : Sized(e, s, a) => Sized(f, s + NewStreams(sec, k), a + NewAddrs(sec, k))

(* A set with at most one new element. *)
LEMMA OneMore ==
  ASSUME NEW S, IsFiniteSet(S), NEW n \in Nat, Cardinality(S) <= n, NEW x
  PROVE  IsFiniteSet(S \cup {x}) /\ Cardinality(S \cup {x}) <= n + 1
<1>1. PICK c \in Nat : c = Cardinality(S)
  BY FS_CardinalityType
<1>2. IsFiniteSet(S \cup {x}) /\ Cardinality(S \cup {x}) = IF x \in S THEN c ELSE c + 1
  BY <1>1, FS_AddElement
<1>3. CASE x \in S
  BY <1>1, <1>2, <1>3
<1>4. CASE x \notin S
  BY <1>1, <1>2, <1>4
<1> QED BY <1>3, <1>4

(* A part of a set is not larger. *)
LEMMA NoMore ==
  ASSUME NEW S, IsFiniteSet(S), NEW n \in Nat, Cardinality(S) <= n, NEW T, T \subseteq S
  PROVE  IsFiniteSet(T) /\ Cardinality(T) <= n
<1>1. T \in SUBSET S
  OBVIOUS
<1>2. PICK c \in Nat : c = Cardinality(S)
  BY FS_CardinalityType
<1>3. IsFiniteSet(T) /\ Cardinality(T) <= c
  BY <1>1, <1>2, FS_Subset
<1>4. PICK d \in Nat : d = Cardinality(T)
  BY <1>3, FS_CardinalityType
<1> QED BY <1>2, <1>3, <1>4

(* One line adds a stream and its two addresses, or an address, or nothing. *)
LEMMA LineLists ==
  ASSUME NEW e, NEW f, NEW sec \in Sections, Grows(e, f, sec), NEW s \in Nat, NEW a \in Nat,
         Sized(e, s, a)
  PROVE  Sized(f, s + NewStreams(sec, 1), a + NewAddrs(sec, 1))
<1>1. PICK x, y, z :
        /\ f._streams \subseteq e._streams \cup (IF sec.kind = "TSTR" THEN {z} ELSE {})
        /\ f._addrs \subseteq e._addrs \cup (IF sec.kind = "TSTR" THEN {x} ELSE {})
                                      \cup (IF sec.kind = "PORT" THEN {} ELSE {y})
  BY DEF Grows
<1>2. PICK S, A : S = e._streams /\ A = e._addrs
  OBVIOUS
<1>3. IsFiniteSet(S) /\ Cardinality(S) <= s /\ IsFiniteSet(A) /\ Cardinality(A) <= a
  BY <1>2 DEF Sized
<1>4. CASE sec.kind = "TSTR"
  <2>1. f._streams \subseteq S \cup {z} /\ f._addrs \subseteq (A \cup {x}) \cup {y}
    BY <1>1, <1>2, <1>4
  <2>2. IsFiniteSet(S \cup {z}) /\ Cardinality(S \cup {z}) <= s + 1
    BY <1>3, OneMore
  <2>3. IsFiniteSet(A \cup {x}) /\ Cardinality(A \cup {x}) <= a + 1
    BY <1>3, OneMore
  <2>4. a + 1 \in Nat /\ s + 1 \in Nat /\ a + 2 \in Nat /\ a + 1 + 1 = a + 2
    OBVIOUS
  <2>5. IsFiniteSet((A \cup {x}) \cup {y}) /\ Cardinality((A \cup {x}) \cup {y}) <= a + 1 + 1
    BY <2>3, <2>4, OneMore
  <2>6. IsFiniteSet(f._streams) /\ Cardinality(f._streams) <= s + 1
    BY <2>1, <2>2, <2>4, NoMore
  <2>7. IsFiniteSet(f._addrs) /\ Cardinality(f._addrs) <= a + 2
    BY <2>1, <2>4, <2>5, NoMore
  <2> QED BY <1>4, <2>6, <2>7 DEF Sized, NewStreams, NewAddrs
<1>5. CASE sec.kind = "PORT"
  <2>1. f._streams \subseteq S /\ f._addrs \subseteq A
    BY <1>1, <1>2, <1>5
  <2>2. IsFiniteSet(f._streams) /\ Cardinality(f._streams) <= s
    BY <1>3, <2>1, NoMore
  <2>3. IsFiniteSet(f._addrs) /\ Cardinality(f._addrs) <= a
    BY <1>3, <2>1, NoMore
  <2> QED BY <1>5, <2>2, <2>3 DEF Sized, NewStreams, NewAddrs
<1>6. CASE sec.kind = "TADR"
  <2>1. f._streams \subseteq S /\ f._addrs \subseteq A \cup {y}
    BY <1>1, <1>2, <1>6
  <2>2. IsFiniteSet(f._streams) /\ Cardinality(f._streams) <= s
    BY <1>3, <2>1, NoMore
  <2>3. IsFiniteSet(A \cup {y}) /\ Cardinality(A \cup {y}) <= a + 1
    BY <1>3, OneMore
  <2>0. a + 1 \in Nat
    OBVIOUS
  <2>4. IsFiniteSet(f._addrs) /\ Cardinality(f._addrs) <= a + 1
    BY <2>0, <2>1, <2>3, NoMore
  <2> QED BY <1>6, <2>2, <2>4 DEF Sized, NewStreams, NewAddrs
<1> QED BY <1>4, <1>5, <1>6, SectionFacts

(* One line after k lines. *)
LEMMA ListsOne ==
  ASSUME NEW e, NEW g, NEW f, NEW sec \in Sections, NEW k \in Nat, Lists(e, g, sec, k), Grows(g, f, sec)
  PROVE  Lists(e, f, sec, k + 1)
<1> SUFFICES ASSUME NEW s \in Nat, NEW a \in Nat, Sized(e, s, a)
             PROVE  Sized(f, s + NewStreams(sec, k + 1), a + NewAddrs(sec, k + 1))
  BY DEF Lists
<1>0. s + NewStreams(sec, k) \in Nat /\ a + NewAddrs(sec, k) \in Nat
  BY DEF NewStreams, NewAddrs
<1>1. PICK u \in Nat, v \in Nat : u = s + NewStreams(sec, k) /\ v = a + NewAddrs(sec, k)
  BY <1>0, Zenon
<1>2. Sized(g, u, v)
  BY <1>1 DEF Lists
<1>3. Sized(f, u + NewStreams(sec, 1), v + NewAddrs(sec, 1))
  BY <1>2, LineLists
<1>4. /\ u + NewStreams(sec, 1) = s + NewStreams(sec, k + 1)
      /\ v + NewAddrs(sec, 1) = a + NewAddrs(sec, k + 1)
  BY <1>1 DEF NewStreams, NewAddrs
<1> QED BY <1>3, <1>4

(* The state of the export after a section of K lines. *)
Wrote(e, f, sec, sorted, K) ==
  /\ OkEx(f) /\ Added(e.sbuf.stats.lines, f.sbuf.stats.lines, copy, sec, sorted, K)
  /\ Lists(e, f, sec, K)

(* The loop of a section. *)
LEMMA TopNWrites ==
  ASSUME copy \in Copies, NEW e, OkEx(e), NEW sec \in Sections,
         NEW sorted \in Seq(DOMAIN Table(copy, sec))
  PROVE  /\ Min({NumTop(sec), Len(sorted)}) \in Nat
         /\ Min({NumTop(sec), Len(sorted)}) \in {NumTop(sec), Len(sorted)}
         /\ Min({NumTop(sec), Len(sorted)}) <= NumTop(sec)
         /\ Min({NumTop(sec), Len(sorted)}) <= Len(sorted)
         /\ Wrote(e, TopN(e, sec, sorted), sec, sorted, Min({NumTop(sec), Len(sorted)}))
<1>1. PICK M \in Nat, L \in Nat : M = NumTop(sec) /\ L = Len(sorted)
  BY SectionFacts
<1>2. PICK N \in {M, L} : N = Min({M, L}) /\ N <= M /\ N <= L
  <2>1. {M, L} \subseteq Nat /\ {M, L} # {}
    OBVIOUS
  <2>2. Min({M, L}) \in {M, L} /\ \A y \in {M, L} : Min({M, L}) <= y
    BY <2>1, MinNat
  <2> QED BY <2>2
<1>3. N \in Nat
  OBVIOUS
<1> DEFINE body(i, s) == on_topn(s, sec, i - 1, sorted[i])
           step == [u \in (1 .. N) \X Exs |-> IF body(u[1], u[2]) \in Exs THEN body(u[1], u[2]) ELSE e]
           Top == CHOOSE top : top = [i \in 0 .. N |-> IF i = 0 THEN e ELSE body(i, top[i - 1])]
<1>4. e \in Exs
  BY DEF OkEx
<1>5. step \in [(1 .. N) \X Exs -> Exs]
  BY <1>4, Zenon
<1>6. \A i \in 1 .. N : \A s \in Exs : step[<<i, s>>] = IF body(i, s) \in Exs THEN body(i, s) ELSE e
  OBVIOUS
<1> HIDE DEF step
<1>7. PICK run : run \in LoopRuns(N, Exs, e, step)
  BY <1>3, <1>4, <1>5, LoopRunExists, Zenon
<1>8. /\ run \in [0 .. N -> Exs] /\ run[0] = e
      /\ \A i \in 1 .. N : run[i] = step[<<i, run[i - 1]>>]
  BY <1>7 DEF LoopRuns
<1>9. ASSUME NEW i \in 1 .. N PROVE i - 1 \in 0 .. M - 1 /\ sorted[i] \in DOMAIN Table(copy, sec)
  BY <1>1, <1>2, <1>3
<1> DEFINE S == {i \in 0 .. N : Wrote(e, run[i], sec, sorted, i)}
<1>10. 0 \in S
  <2>1. e.sbuf.stats.lines \in Seq(AllLines)
    BY <1>4 DEF Exs, Bufs
  <2>2. Added(e.sbuf.stats.lines, e.sbuf.stats.lines, copy, sec, sorted, 0)
    BY <2>1 DEF Added
  <2>3. Lists(e, e, sec, 0)
    BY DEF Lists, NewStreams, NewAddrs
  <2> QED BY <1>3, <1>8, <2>2, <2>3 DEF Wrote
<1>11. ASSUME NEW i \in 1 .. N, i - 1 \in S
       PROVE  i \in S /\ run[i] = body(i, run[i - 1])
  <2>1. PICK k \in 0 .. N : k = i - 1 /\ i = k + 1
    BY <1>3
  <2>2. OkEx(run[k]) /\ Added(e.sbuf.stats.lines, run[k].sbuf.stats.lines, copy, sec, sorted, k)
    BY <1>11, <2>1 DEF Wrote
  <2>3. k \in 0 .. M - 1 /\ sorted[i] \in DOMAIN Table(copy, sec)
    BY <1>9, <2>1
  <2>4. PICK g : g = on_topn(run[k], sec, k, sorted[i])
    OBVIOUS
  <2>5. /\ OkEx(g)
        /\ g.sbuf.stats.lines = WithLine(run[k].sbuf.stats.lines, k, StatLine(copy, sec, k, sorted[i]))
        /\ Grows(run[k], g, sec)
    BY <1>1, <2>2, <2>3, <2>4, TopLine
  <2>6. body(i, run[i - 1]) = g /\ g \in Exs /\ run[k] \in Exs
    BY <1>8, <2>1, <2>4, <2>5 DEF OkEx
  <2>7. run[i] = g
    BY <1>6, <1>8, <2>1, <2>6
  <2>8. e.sbuf.stats.lines \in Seq(AllLines) /\ k \in Nat
    BY <1>4 DEF Exs, Bufs
  <2>9. Heading \in AllLines /\ StatLine(copy, sec, k, sorted[k + 1]) \in AllLines
    BY <1>1, <2>1, <2>3, LinesIn
  <2>10. Added(e.sbuf.stats.lines, g.sbuf.stats.lines, copy, sec, sorted, k + 1)
    BY <2>1, <2>2, <2>5, <2>8, <2>9, AddedOne
  <2>11. Lists(e, run[k], sec, k)
    BY <1>11, <2>1 DEF Wrote
  <2>12. Lists(e, g, sec, k + 1)
    BY <2>5, <2>8, <2>11, ListsOne
  <2> QED BY <2>1, <2>5, <2>6, <2>7, <2>10, <2>12 DEF Wrote
<1>12. 0 .. N \subseteq S
  <2> HIDE DEF S, body
  <2> QED BY <1>3, <1>10, <1>11, StepInduction
<1>13. ASSUME NEW i \in 1 .. N PROVE run[i] = body(i, run[i - 1])
  <2>1. i - 1 \in 0 .. N
    BY <1>3
  <2>2. i - 1 \in S
    BY <1>12, <2>1
  <2> HIDE DEF S, body
  <2> QED BY <1>11, <2>2
<1>14. run = [i \in 0 .. N |-> IF i = 0 THEN e ELSE body(i, run[i - 1])]
  <2>1. \A i \in 0 .. N : i = 0 \/ i \in 1 .. N
    BY <1>3
  <2> HIDE DEF body
  <2>2. \A i \in 0 .. N : run[i] = IF i = 0 THEN e ELSE body(i, run[i - 1])
    BY <1>8, <1>13, <2>1
  <2> QED BY <1>8, <2>2
<1>15. Top = [i \in 0 .. N |-> IF i = 0 THEN e ELSE body(i, Top[i - 1])]
  <2> HIDE DEF body
  <2> QED BY <1>14, Zenon
<1>16. TopN(e, sec, sorted) = Top[N]
  BY <1>1, <1>2, Zenon DEF TopN
<1> HIDE DEF Top
<1>17. 0 .. N \subseteq {i \in 0 .. N : Top[i] = run[i]}
  <2> DEFINE Q == {i \in 0 .. N : Top[i] = run[i]}
  <2> HIDE DEF body
  <2>0. Top[0] = e /\ \A i \in 1 .. N : Top[i] = body(i, Top[i - 1])
    BY <1>3, <1>15
  <2>1. 0 \in Q
    BY <1>3, <1>8, <2>0
  <2>2. ASSUME NEW i \in 1 .. N, i - 1 \in Q PROVE i \in Q
    BY <1>13, <2>0, <2>2
  <2> HIDE DEF Q
  <2>3. 0 .. N \subseteq Q
    BY <1>3, <2>1, <2>2, StepInduction
  <2> QED BY <2>3 DEF Q
<1>18. N \in 0 .. N
  BY <1>3
<1>19. Wrote(e, TopN(e, sec, sorted), sec, sorted, N)
  <2>1. Top[N] = run[N]
    BY <1>17, <1>18
  <2>2. Wrote(e, run[N], sec, sorted, N)
    BY <1>12, <1>18
  <2> QED BY <1>16, <2>1, <2>2
<1> QED BY <1>1, <1>2, <1>3, <1>19
-----------------------------------------------------------------------------
(* The sections of a report. *)

(* s has every element of U once, the largest first. *)
Orders(s, U, val) ==
  /\ s \in Seq(U)
  /\ \A x, y \in DOMAIN s : s[x] = s[y] => x = y
  /\ \A u \in U : \E x \in DOMAIN s : s[x] = u
  /\ \A x, y \in DOMAIN s : x <= y => val[s[x]] >= val[s[y]]

(* Sorted orders a list without repetitions. *)
LEMMA SortedOrders ==
  ASSUME NEW U, NEW list \in Seq(U), NEW val, \A u \in U : val[u] \in Nat,
         \A x, y \in DOMAIN list : list[x] = list[y] => x = y,
         \A u \in U : \E x \in DOMAIN list : list[x] = u
  PROVE  Orders(Sorted(list, val), U, val)
<1>1. PICK N \in Nat : N = Len(list) /\ DOMAIN list = 1 .. N
  OBVIOUS
<1>2. \A i \in 1 .. N : val[list[i]] \in Nat
  BY <1>1
<1>3. PICK s : s = Sorted(list, val)
  OBVIOUS
<1>4. s \in Seq(U) /\ Len(s) = N /\ Rearranged(list, s, N, 1, N) /\ InOrder(s, 1, N, val)
  BY <1>1, <1>2, <1>3, SortedSorts
<1>5. DOMAIN s = 1 .. N
  BY <1>4
<1>kept. /\ \A x \in 1 .. N : \E y \in 1 .. N : list[x] = s[y]
         /\ (\A x, y \in 1 .. N : list[x] = list[y] => x = y) => (\A x, y \in 1 .. N : s[x] = s[y] => x = y)
  <2>1. 1 .. N \subseteq 1 .. N
    OBVIOUS
  <2>2. Kept(list, s, N, 1, N)
    BY <1>4, <2>1, RearrangedKeeps
  <2> QED BY <2>2, Zenon DEF Kept
<1>6. \A x, y \in DOMAIN s : s[x] = s[y] => x = y
  BY <1>1, <1>5, <1>kept, Zenon
<1>7. ASSUME NEW u \in U PROVE \E x \in DOMAIN s : s[x] = u
  <2>1. PICK x \in 1 .. N : list[x] = u
    BY <1>1
  <2>2. PICK y \in 1 .. N : list[x] = s[y]
    BY <1>kept
  <2> QED BY <1>5, <2>1, <2>2
<1>8. \A x, y \in DOMAIN s : x <= y => val[s[x]] >= val[s[y]]
  BY <1>4, <1>5 DEF InOrder, NotAfter
<1> QED BY <1>3, <1>4, <1>6, <1>7, <1>8 DEF Orders

(* The internal addresses with too many ports on a side of their streams. *)
Scanners(side) == {a \in ToSet(copy.lan) : count_bits16(_set_port_bits(side))[a] > SuspiciousPorts}

Side(sec) == IF sec.sortby = "#P>" THEN "idx_left" ELSE "idx_right"

(* The entries a section is about, and the counter they are ranked by. *)
Entries(sec) ==
  CASE sec.kind = "TSTR" -> DOMAIN copy.streams
    [] sec.kind = "PORT" -> DOMAIN copy.protos
    [] sec.kind = "TADR" -> IF sec.sortby # "TXP" THEN Scanners(Side(sec))
                            ELSE IF sec.flowflags = 0 THEN ToSet(copy.wan) ELSE ToSet(copy.lan)

Value(sec) ==
  CASE sec.kind = "TSTR" -> Field(copy.streams, IF sec.sortby = "P" THEN "packets" ELSE "bytes")
    [] sec.kind = "PORT" -> Field(copy.protos, "packets")
    [] sec.kind = "TADR" -> IF sec.sortby # "TXP" THEN count_bits16(_set_port_bits(Side(sec)))
                            ELSE Field(copy.addrs, "txpackets")

(* The section is the first K elements of s, on the lines after off. *)
Shown(lines, sec, s, K, off) ==
  /\ \A p \in DOMAIN lines : InSection(lines[p], sec) <=> p \in off + 1 .. off + K
  /\ \A i \in 1 .. K : off + i \in DOMAIN lines /\ lines[off + i] = StatLine(copy, sec, i - 1, s[i])

(* The section has the largest entries, as many as it may have. *)
Ranked(lines, sec) ==
  \E s \in Seq(Entries(sec)), K \in Nat, off \in Nat :
    /\ Orders(s, Entries(sec), Value(sec))
    /\ K <= Len(s) /\ K <= NumTop(sec) /\ (K = NumTop(sec) \/ K = Len(s))
    /\ Shown(lines, sec, s, K, off)

(* No line is in the section. *)
Absent(lines, sec) == \A p \in DOMAIN lines : ~InSection(lines[p], sec)

(* Every line is a heading or about an entry of this copy. *)
StatsOf(lines) ==
  \A p \in DOMAIN lines :
    \/ lines[p] = Heading
    \/ \E sec \in Sections, i \in Nat : \E x \in DOMAIN Table(copy, sec) :
         lines[p] = StatLine(copy, sec, i, x)

(* The export has written the sections of W and no other. *)
Written(e, W) ==
  /\ OkEx(e) /\ StatsOf(e.sbuf.stats.lines)
  /\ \A sec \in W : Ranked(e.sbuf.stats.lines, sec)
  /\ \A sec \in Sections \ W : Absent(e.sbuf.stats.lines, sec)

(* A heading is in no section, and a line of the statistics in one. *)
LEMMA OneSection ==
  ASSUME NEW sec \in Sections, NEW sec2 \in Sections, NEW i, NEW x
  PROVE  /\ ~InSection(Heading, sec)
         /\ InSection(StatLine(copy, sec, i, x), sec2) <=> sec2 = sec
<1>1. Heading.kind = "heading" /\ sec.kind # "heading"
  BY SectionFacts DEF Heading
<1>2. PICK l : l = StatLine(copy, sec, i, x)
  OBVIOUS
<1>3. l.kind = sec.kind /\ l.sortby = sec.sortby /\ l.flowflags = sec.flowflags
  BY <1>2, StatLineFields
<1>4. /\ sec = Section(sec.kind, sec.sortby, sec.flowflags)
      /\ sec2 = Section(sec2.kind, sec2.sortby, sec2.flowflags)
  BY SectionFacts
<1>5. InSection(l, sec2) <=> sec2 = sec
  BY <1>3, <1>4 DEF InSection
<1> QED BY <1>1, <1>2, <1>5 DEF InSection

(* What is on the lines after a section is added: the old lines, and the new
   ones, which are in that section only. *)
LEMMA AddedLines ==
  ASSUME NEW old \in Seq(AllLines), NEW new, NEW sec \in Sections, NEW s, NEW K \in Nat,
         Added(old, new, copy, sec, s, K)
  PROVE  /\ \A p \in DOMAIN old : p \in DOMAIN new /\ new[p] = old[p]
         /\ \A p \in DOMAIN new : \/ p \in DOMAIN old
                                  \/ p = Len(old) + 1 /\ new[p] = Heading
                                  \/ \E i \in 1 .. K : /\ p = Len(old) + 1 + i
                                                       /\ new[p] = StatLine(copy, sec, i - 1, s[i])
         /\ \A i \in 1 .. K : /\ Len(old) + 1 + i \in DOMAIN new
                              /\ new[Len(old) + 1 + i] = StatLine(copy, sec, i - 1, s[i])
<1>1. PICK n \in Nat : n = Len(old) /\ DOMAIN old = 1 .. n
  OBVIOUS
<1>2. PICK m \in Nat : m = Len(new) /\ DOMAIN new = 1 .. m
  BY DEF Added
<1>3. m = n + (IF K = 0 THEN 0 ELSE K + 1)
  BY <1>1, <1>2 DEF Added
<1>4. /\ \A p \in 1 .. n : new[p] = old[p]
      /\ K > 0 => new[n + 1] = Heading
      /\ \A i \in 1 .. K : new[n + 1 + i] = StatLine(copy, sec, i - 1, s[i])
  BY <1>1 DEF Added
<1>5. \A p \in DOMAIN old : p \in DOMAIN new /\ new[p] = old[p]
  BY <1>1, <1>2, <1>3, <1>4
<1>6. \A i \in 1 .. K : n + 1 + i \in DOMAIN new
  BY <1>2, <1>3
<1>7. ASSUME NEW p \in DOMAIN new, p \notin DOMAIN old, p # n + 1
      PROVE  \E i \in 1 .. K : p = n + 1 + i /\ new[p] = StatLine(copy, sec, i - 1, s[i])
  <2>1. p - n - 1 \in 1 .. K /\ p = n + 1 + (p - n - 1)
    BY <1>1, <1>2, <1>3, <1>7
  <2>2. PICK i \in 1 .. K : p = n + 1 + i
    BY <2>1
  <2> QED BY <1>4, <2>2
<1>8. ASSUME NEW p \in DOMAIN new, p \notin DOMAIN old, p = n + 1
      PROVE  new[p] = Heading
  BY <1>1, <1>2, <1>3, <1>4, <1>8
<1> QED BY <1>1, <1>4, <1>5, <1>6, <1>7, <1>8

(* The new section is shown. *)
LEMMA ShownNew ==
  ASSUME NEW old \in Seq(AllLines), NEW new, NEW sec \in Sections, NEW s, NEW K \in Nat,
         Added(old, new, copy, sec, s, K), Absent(old, sec)
  PROVE  Shown(new, sec, s, K, Len(old) + 1)
<1>1. PICK n \in Nat : n = Len(old) /\ DOMAIN old = 1 .. n
  OBVIOUS
<1>2. /\ \A p \in DOMAIN old : p \in DOMAIN new /\ new[p] = old[p]
      /\ \A p \in DOMAIN new : \/ p \in DOMAIN old
                               \/ p = n + 1 /\ new[p] = Heading
                               \/ \E i \in 1 .. K : /\ p = n + 1 + i
                                                    /\ new[p] = StatLine(copy, sec, i - 1, s[i])
      /\ \A i \in 1 .. K : /\ n + 1 + i \in DOMAIN new
                           /\ new[n + 1 + i] = StatLine(copy, sec, i - 1, s[i])
  BY <1>1, AddedLines
<1>3. ASSUME NEW p \in DOMAIN new PROVE InSection(new[p], sec) <=> p \in n + 1 + 1 .. n + 1 + K
  <2>1. CASE p \in DOMAIN old
    <3>1. ~InSection(new[p], sec)
      BY <1>2, <2>1 DEF Absent
    <3>2. p \notin n + 1 + 1 .. n + 1 + K
      BY <1>1, <2>1
    <3> QED BY <3>1, <3>2
  <2>2. CASE p = n + 1 /\ new[p] = Heading
    <3>1. ~InSection(new[p], sec)
      BY <2>2, OneSection
    <3>2. p \notin n + 1 + 1 .. n + 1 + K
      BY <2>2
    <3> QED BY <3>1, <3>2
  <2>3. ASSUME NEW i \in 1 .. K, p = n + 1 + i, new[p] = StatLine(copy, sec, i - 1, s[i])
        PROVE  InSection(new[p], sec) <=> p \in n + 1 + 1 .. n + 1 + K
    <3>1. InSection(new[p], sec)
      BY <2>3, OneSection
    <3>2. p \in n + 1 + 1 .. n + 1 + K
      BY <2>3
    <3> QED BY <3>1, <3>2
  <2> QED BY <1>2, <2>1, <2>2, <2>3
<1> QED BY <1>1, <1>2, <1>3 DEF Shown

(* Another section keeps its lines. *)
LEMMA OtherKept ==
  ASSUME NEW old \in Seq(AllLines), NEW new, NEW sec \in Sections, NEW s, NEW K \in Nat,
         Added(old, new, copy, sec, s, K), NEW sec2 \in Sections, sec2 # sec
  PROVE  /\ Absent(old, sec2) => Absent(new, sec2)
         /\ Ranked(old, sec2) => Ranked(new, sec2)
<1>1. PICK n \in Nat : n = Len(old) /\ DOMAIN old = 1 .. n
  OBVIOUS
<1>2. /\ \A p \in DOMAIN old : p \in DOMAIN new /\ new[p] = old[p]
      /\ \A p \in DOMAIN new : \/ p \in DOMAIN old
                               \/ p = n + 1 /\ new[p] = Heading
                               \/ \E i \in 1 .. K : /\ p = n + 1 + i
                                                    /\ new[p] = StatLine(copy, sec, i - 1, s[i])
  BY <1>1, AddedLines
<1>3. ASSUME NEW p \in DOMAIN new, p \notin DOMAIN old PROVE ~InSection(new[p], sec2)
  BY <1>2, <1>3, OneSection
<1>4. ASSUME Absent(old, sec2) PROVE Absent(new, sec2)
  BY <1>2, <1>3, <1>4 DEF Absent
<1>5. ASSUME Ranked(old, sec2) PROVE Ranked(new, sec2)
  <2>1. PICK t \in Seq(Entries(sec2)), J \in Nat, off \in Nat :
          /\ Orders(t, Entries(sec2), Value(sec2))
          /\ J <= Len(t) /\ J <= NumTop(sec2) /\ (J = NumTop(sec2) \/ J = Len(t))
          /\ Shown(old, sec2, t, J, off)
    BY <1>5 DEF Ranked
  <2>2. \A p \in DOMAIN old : InSection(old[p], sec2) <=> p \in off + 1 .. off + J
    BY <2>1 DEF Shown
  <2>3. \A i \in 1 .. J : off + i \in DOMAIN old /\ old[off + i] = StatLine(copy, sec2, i - 1, t[i])
    BY <2>1 DEF Shown
  <2>4. ASSUME NEW p \in off + 1 .. off + J PROVE p \in DOMAIN old
    <3>1. p - off \in 1 .. J /\ off + (p - off) = p
      OBVIOUS
    <3> QED BY <2>3, <3>1
  <2>5. ASSUME NEW p \in DOMAIN new PROVE InSection(new[p], sec2) <=> p \in off + 1 .. off + J
    BY <1>2, <1>3, <2>2, <2>4
  <2>6. \A i \in 1 .. J : off + i \in DOMAIN new /\ new[off + i] = StatLine(copy, sec2, i - 1, t[i])
    BY <1>2, <2>3
  <2>7. Shown(new, sec2, t, J, off)
    BY <2>5, <2>6 DEF Shown
  <2> QED BY <2>1, <2>7 DEF Ranked
<1> QED BY <1>4, <1>5

(* Every line of the new section is about an entry of the copy. *)
LEMMA StatsOfKept ==
  ASSUME NEW old \in Seq(AllLines), NEW new, NEW sec \in Sections, NEW K \in Nat,
         NEW s \in Seq(DOMAIN Table(copy, sec)), K <= Len(s),
         Added(old, new, copy, sec, s, K), StatsOf(old)
  PROVE  StatsOf(new)
<1>1. PICK n \in Nat : n = Len(old) /\ DOMAIN old = 1 .. n
  OBVIOUS
<1>2. /\ \A p \in DOMAIN old : p \in DOMAIN new /\ new[p] = old[p]
      /\ \A p \in DOMAIN new : \/ p \in DOMAIN old
                               \/ p = n + 1 /\ new[p] = Heading
                               \/ \E i \in 1 .. K : /\ p = n + 1 + i
                                                    /\ new[p] = StatLine(copy, sec, i - 1, s[i])
  BY <1>1, AddedLines
<1>3. ASSUME NEW p \in DOMAIN new
      PROVE  \/ new[p] = Heading
             \/ \E se \in Sections, i \in Nat : \E x \in DOMAIN Table(copy, se) :
                  new[p] = StatLine(copy, se, i, x)
  <2>1. CASE p \in DOMAIN old
    BY <1>2, <2>1, Zenon DEF StatsOf
  <2>2. ASSUME NEW i \in 1 .. K, new[p] = StatLine(copy, sec, i - 1, s[i])
        PROVE  \E se \in Sections, j \in Nat : \E x \in DOMAIN Table(copy, se) :
                 new[p] = StatLine(copy, se, j, x)
    <3>1. i - 1 \in Nat /\ s[i] \in DOMAIN Table(copy, sec)
      OBVIOUS
    <3> QED BY <2>2, <3>1, Zenon
  <2> QED BY <1>2, <2>1, <2>2
<1> QED BY <1>3, Zenon DEF StatsOf

(* TopN writes its section. *)
LEMMA SectionWritten ==
  ASSUME copy \in Copies, NEW e, NEW W, Written(e, W), NEW sec \in Sections, sec \notin W,
         W \subseteq Sections, Entries(sec) \subseteq DOMAIN Table(copy, sec), NEW s,
         Orders(s, Entries(sec), Value(sec))
  PROVE  Written(TopN(e, sec, s), W \cup {sec})
<1>1. s \in Seq(Entries(sec)) /\ s \in Seq(DOMAIN Table(copy, sec))
  BY DEF Orders
<1>2. PICK K : /\ K \in Nat /\ K \in {NumTop(sec), Len(s)} /\ K <= NumTop(sec) /\ K <= Len(s)
               /\ Wrote(e, TopN(e, sec, s), sec, s, K)
  <2>1. OkEx(e)
    BY DEF Written
  <2> QED BY <1>1, <2>1, TopNWrites
<1>3. PICK f : f = TopN(e, sec, s)
  OBVIOUS
<1>4. PICK old \in Seq(AllLines) : old = e.sbuf.stats.lines
  BY DEF Written, OkEx, Exs, Bufs
<1>5. PICK new : new = f.sbuf.stats.lines
  OBVIOUS
<1>6. OkEx(f) /\ Added(old, new, copy, sec, s, K)
  BY <1>2, <1>3, <1>4, <1>5 DEF Wrote
<1>7. /\ StatsOf(old) /\ Absent(old, sec)
      /\ \A se \in W : Ranked(old, se)
      /\ \A se \in Sections \ W : Absent(old, se)
  BY <1>4 DEF Written
<1>8. StatsOf(new)
  BY <1>1, <1>2, <1>6, <1>7, StatsOfKept
<1>9. Ranked(new, sec)
  <2>1. Shown(new, sec, s, K, Len(old) + 1) /\ Len(old) + 1 \in Nat
    BY <1>2, <1>6, <1>7, ShownNew
  <2> QED BY <1>1, <1>2, <2>1 DEF Ranked
<1>10. \A se \in W \cup {sec} : Ranked(new, se)
  BY <1>2, <1>6, <1>7, <1>9, OtherKept
<1>11. \A se \in Sections \ (W \cup {sec}) : Absent(new, se)
  BY <1>2, <1>6, <1>7, OtherKept
<1> QED BY <1>3, <1>5, <1>6, <1>8, <1>10, <1>11 DEF Written

(* What TopN adds to the lists of what was seen. *)
LEMMA SectionLists ==
  ASSUME copy \in Copies, NEW e, NEW W, Written(e, W), NEW sec \in Sections,
         Entries(sec) \subseteq DOMAIN Table(copy, sec), NEW s, Orders(s, Entries(sec), Value(sec)),
         NEW m \in Nat, NEW n \in Nat, Sized(e, m, n), NEW t, t = NumTop(sec)
  PROVE  Sized(TopN(e, sec, s), m + NewStreams(sec, t), n + NewAddrs(sec, t))
<1>1. s \in Seq(DOMAIN Table(copy, sec)) /\ OkEx(e) /\ t \in Nat
  BY SectionFacts DEF Orders, Written
<1>2. PICK K : K \in Nat /\ K <= NumTop(sec) /\ Wrote(e, TopN(e, sec, s), sec, s, K)
  BY <1>1, TopNWrites
<1>3. PICK f : f = TopN(e, sec, s)
  OBVIOUS
<1>4. Sized(f, m + NewStreams(sec, K), n + NewAddrs(sec, K))
  BY <1>2, <1>3 DEF Wrote, Lists
<1>5. K <= t
  BY <1>2
<1>6. /\ IsFiniteSet(f._streams) /\ Cardinality(f._streams) <= m + NewStreams(sec, K)
      /\ IsFiniteSet(f._addrs) /\ Cardinality(f._addrs) <= n + NewAddrs(sec, K)
  BY <1>4 DEF Sized
<1>7. PICK c \in Nat, d \in Nat : c = Cardinality(f._streams) /\ d = Cardinality(f._addrs)
  BY <1>6, FS_CardinalityType
<1>8. c <= m + NewStreams(sec, t) /\ d <= n + NewAddrs(sec, t)
  BY <1>1, <1>2, <1>5, <1>6, <1>7 DEF NewStreams, NewAddrs
<1> QED BY <1>3, <1>6, <1>7, <1>8 DEF Sized
-----------------------------------------------------------------------------
(* The port scanners. *)

(* found has, once each, those of the first n elements of list that count more
   than the limit. *)
Finds(found, list, count, n) ==
  /\ \A x \in DOMAIN found : \E y \in 1 .. n : found[x] = list[y] /\ count[list[y]] > SuspiciousPorts
  /\ \A y \in 1 .. n : count[list[y]] > SuspiciousPorts => \E x \in DOMAIN found : found[x] = list[y]
  /\ \A x, y \in DOMAIN found : found[x] = found[y] => x = y

(* A longer list finds one more, if it counts more than the limit. *)
LEMMA FindsOne ==
  ASSUME NEW V, NEW list \in Seq(V), \A x, y \in DOMAIN list : list[x] = list[y] => x = y,
         NEW count, NEW n \in 1 .. Len(list), NEW found \in Seq(V), Finds(found, list, count, n - 1)
  PROVE  /\ count[list[n]] > SuspiciousPorts => Finds(Append(found, list[n]), list, count, n)
         /\ ~(count[list[n]] > SuspiciousPorts) => Finds(found, list, count, n)
<1>0. /\ n \in 1 .. n /\ n \in DOMAIN list /\ n \notin 1 .. n - 1 /\ list[n] \in V
      /\ \A y \in 1 .. n : y \in 1 .. n - 1 \/ y = n
      /\ \A y \in 1 .. n - 1 : y \in 1 .. n /\ y \in DOMAIN list
  OBVIOUS
<1>1. ASSUME ~(count[list[n]] > SuspiciousPorts) PROVE Finds(found, list, count, n)
  BY <1>0, <1>1, Zenon DEF Finds
<1>2. ASSUME count[list[n]] > SuspiciousPorts PROVE Finds(Append(found, list[n]), list, count, n)
  <2>1. PICK m \in Nat : m = Len(found) /\ DOMAIN found = 1 .. m
    OBVIOUS
  <2>2. PICK new : new = Append(found, list[n])
    OBVIOUS
  <2>3. /\ DOMAIN new = 1 .. m + 1 /\ new[m + 1] = list[n] /\ \A x \in 1 .. m : new[x] = found[x]
    BY <1>0, <2>1, <2>2
  <2>4. /\ \A x \in 1 .. m + 1 : x \in 1 .. m \/ x = m + 1
        /\ \A x \in 1 .. m : x \in 1 .. m + 1
        /\ m + 1 \in 1 .. m + 1
    OBVIOUS
  <2>5. ASSUME NEW x \in DOMAIN new
        PROVE  \E y \in 1 .. n : new[x] = list[y] /\ count[list[y]] > SuspiciousPorts
    <3>1. CASE x \in 1 .. m
      <4>1. PICK y \in 1 .. n - 1 : found[x] = list[y] /\ count[list[y]] > SuspiciousPorts
        BY <2>1, <3>1 DEF Finds
      <4> QED BY <1>0, <2>3, <3>1, <4>1, Zenon
    <3>2. CASE x = m + 1
      BY <1>0, <1>2, <2>3, <3>2, Zenon
    <3> QED BY <2>3, <2>4, <3>1, <3>2
  <2>6. ASSUME NEW y \in 1 .. n, count[list[y]] > SuspiciousPorts
        PROVE  \E x \in DOMAIN new : new[x] = list[y]
    <3>1. CASE y \in 1 .. n - 1
      <4>1. PICK x \in 1 .. m : found[x] = list[y]
        BY <2>1, <2>6, <3>1, Zenon DEF Finds
      <4> QED BY <2>3, <2>4, <4>1, Zenon
    <3>2. CASE y = n
      BY <2>3, <2>4, <3>2, Zenon
    <3> QED BY <1>0, <3>1, <3>2
  <2>7. ASSUME NEW x \in 1 .. m PROVE found[x] # list[n]
    <3>1. PICK y \in 1 .. n - 1 : found[x] = list[y]
      BY <2>1, Zenon DEF Finds
    <3> QED BY <1>0, <3>1
  <2>8. ASSUME NEW x \in DOMAIN new, NEW y \in DOMAIN new, new[x] = new[y] PROVE x = y
    <3>1. CASE x \in 1 .. m /\ y \in 1 .. m
      BY <2>1, <2>3, <2>8, <3>1, Zenon DEF Finds
    <3>2. CASE x \in 1 .. m /\ y = m + 1
      BY <2>3, <2>7, <2>8, <3>2, Zenon
    <3>3. CASE x = m + 1 /\ y \in 1 .. m
      BY <2>3, <2>7, <2>8, <3>3, Zenon
    <3> QED BY <2>3, <2>4, <3>1, <3>2, <3>3, Zenon
  <2> QED BY <2>2, <2>5, <2>6, <2>8, Zenon DEF Finds
<1> QED BY <1>1, <1>2

(* Suspicious finds all of them. *)
LEMMA SuspiciousFinds ==
  ASSUME NEW V, NEW list \in Seq(V), NEW count, \A x, y \in DOMAIN list : list[x] = list[y] => x = y
  PROVE  Suspicious(list, count) \in Seq(V) /\ Finds(Suspicious(list, count), list, count, Len(list))
<1>1. PICK N \in Nat : N = Len(list) /\ DOMAIN list = 1 .. N
  OBVIOUS
<1> DEFINE T == Seq(V)
           body(i, f) == IF count[list[i]] > SuspiciousPorts THEN Append(f, list[i]) ELSE f
           step == [u \in (1 .. N) \X T |-> body(u[1], u[2])]
           Found == CHOOSE found : found = [i \in 0 .. N |-> IF i = 0 THEN <<>> ELSE
                      IF count[list[i]] > SuspiciousPorts THEN Append(found[i - 1], list[i]) ELSE found[i - 1]]
<1>2. \A i \in 1 .. N : \A f \in T : body(i, f) \in T
  BY <1>1
<1>3. \A i \in 1 .. N : \A f \in T : step[<<i, f>>] = body(i, f)
  OBVIOUS
<1>4. step \in [(1 .. N) \X T -> T] /\ <<>> \in T
  <2>1. \A u \in (1 .. N) \X T : u[1] \in 1 .. N /\ u[2] \in T
    OBVIOUS
  <2> HIDE DEF body
  <2>2. \A u \in (1 .. N) \X T : body(u[1], u[2]) \in T
    BY <1>2, <2>1, Zenon
  <2>3. step \in [(1 .. N) \X T -> T]
    BY <2>2, Zenon
  <2>4. <<>> \in T
    OBVIOUS
  <2> QED BY <2>3, <2>4
<1> HIDE DEF step
<1>5. PICK run : run \in LoopRuns(N, T, <<>>, step)
  BY <1>4, LoopRunExists, Zenon
<1>6. /\ run \in [0 .. N -> T] /\ run[0] = <<>>
      /\ \A i \in 1 .. N : run[i] = step[<<i, run[i - 1]>>]
  BY <1>5 DEF LoopRuns
<1>7. ASSUME NEW i \in 1 .. N PROVE run[i - 1] \in T /\ run[i] = body(i, run[i - 1])
  <2>1. i - 1 \in 0 .. N
    OBVIOUS
  <2>2. run[i - 1] \in T
    BY <1>6, <2>1
  <2> HIDE DEF body, T
  <2> QED BY <1>3, <1>6, <2>2
<1>8. run = [i \in 0 .. N |-> IF i = 0 THEN <<>> ELSE
               IF count[list[i]] > SuspiciousPorts THEN Append(run[i - 1], list[i]) ELSE run[i - 1]]
  <2>1. \A i \in 0 .. N : i = 0 \/ i \in 1 .. N
    OBVIOUS
  <2>2. \A i \in 0 .. N : run[i] = IF i = 0 THEN <<>> ELSE body(i, run[i - 1])
    <3> HIDE DEF body
    <3> QED BY <1>6, <1>7, <2>1
  <2> HIDE DEF T
  <2> QED BY <1>6, <2>2
<1>9. Found = [i \in 0 .. N |-> IF i = 0 THEN <<>> ELSE
               IF count[list[i]] > SuspiciousPorts THEN Append(Found[i - 1], list[i]) ELSE Found[i - 1]]
  <2> HIDE DEF T, body
  <2> QED BY <1>8, Zenon
<1>10. Suspicious(list, count) = Found[N]
  BY <1>1, Zenon DEF Suspicious
<1> HIDE DEF Found
<1>11. /\ Found[0] = <<>>
       /\ \A i \in 1 .. N : Found[i] = body(i, Found[i - 1])
  <2>1. 0 \in 0 .. N /\ \A i \in 1 .. N : i \in 0 .. N /\ i # 0
    OBVIOUS
  <2>2. \A i \in 0 .. N : Found[i] = IF i = 0 THEN <<>> ELSE
          IF count[list[i]] > SuspiciousPorts THEN Append(Found[i - 1], list[i]) ELSE Found[i - 1]
    BY <1>9, Zenon
  <2> QED BY <2>1, <2>2, Zenon
<1> DEFINE S == {i \in 0 .. N : Found[i] \in T /\ Finds(Found[i], list, count, i)}
<1>12. 0 \in S
  <2>1. Finds(<<>>, list, count, 0)
    BY DEF Finds
  <2>2. 0 \in 0 .. N
    OBVIOUS
  <2> QED BY <1>4, <1>11, <2>1, <2>2, Zenon
<1>13. ASSUME NEW i \in 1 .. N, i - 1 \in S PROVE i \in S
  <2>1. Found[i - 1] \in T /\ Finds(Found[i - 1], list, count, i - 1)
    BY <1>13
  <2>2. body(i, Found[i - 1]) \in T
    BY <1>2, <2>1
  <2>3. Finds(body(i, Found[i - 1]), list, count, i)
    <3>1. i \in 1 .. Len(list)
      BY <1>1
    <3>2. /\ count[list[i]] > SuspiciousPorts => Finds(Append(Found[i - 1], list[i]), list, count, i)
          /\ ~(count[list[i]] > SuspiciousPorts) => Finds(Found[i - 1], list, count, i)
      BY <2>1, <3>1, FindsOne, Zenon
    <3> QED BY <3>2, Zenon
  <2>4. i \in 0 .. N
    OBVIOUS
  <2> HIDE DEF body, T
  <2> QED BY <1>11, <2>2, <2>3, <2>4
<1>14. 0 .. N \subseteq S
  <2> HIDE DEF S
  <2> QED BY <1>12, <1>13, StepInduction
<1>15. N \in S
  BY <1>14
<1> HIDE DEF T
<1> QED BY <1>1, <1>10, <1>15 DEF T

(* The number of ports marked for an address. *)
LEMMA PortCounts ==
  ASSUME copy \in Copies, NEW side
  PROVE  \A a \in DOMAIN copy.addrs : count_bits16(_set_port_bits(side))[a] \in Nat
<1>1. IsFiniteSet(WatchedPorts)
  BY ReportAssumption
<1>2. PICK bits : bits = _set_port_bits(side)
  OBVIOUS
<1>3. /\ DOMAIN bits = DOMAIN copy.addrs
      /\ \A a \in DOMAIN copy.addrs : bits[a] \subseteq WatchedPorts
  BY <1>2 DEF _set_port_bits
<1>4. \A a \in DOMAIN copy.addrs : IsFiniteSet(bits[a])
  BY <1>1, <1>3, FS_Subset
<1>5. \A a \in DOMAIN copy.addrs : count_bits16(bits)[a] = Cardinality(bits[a])
  BY <1>3 DEF count_bits16
<1> QED BY <1>2, <1>4, <1>5, FS_CardinalityType

(* The list of the addresses with too many ports is in order. *)
LEMMA ScannersOrdered ==
  ASSUME copy \in Copies, NEW side
  PROVE  /\ Scanners(side) \subseteq DOMAIN copy.addrs
         /\ Orders(BySuspicion(_set_port_bits(side)), Scanners(side), count_bits16(_set_port_bits(side)))
<1>1. IsCopy(copy)
  BY ReportAssumption
<1>2. PICK lan \in Seq(DOMAIN copy.addrs) : lan = copy.lan /\ IsInjective(lan)
  BY <1>1 DEF IsCopy
<1>3. PICK count : count = count_bits16(_set_port_bits(side))
  OBVIOUS
<1>4. PICK N \in Nat : N = Len(lan) /\ DOMAIN lan = 1 .. N /\ ToSet(lan) = {lan[i] : i \in 1 .. N}
  BY DEF ToSet
<1>5. \A x, y \in DOMAIN lan : lan[x] = lan[y] => x = y
  BY <1>2, Zenon DEF IsInjective
<1>6. PICK found : found = Suspicious(lan, count)
  OBVIOUS
<1>7. found \in Seq(DOMAIN copy.addrs) /\ Finds(found, lan, count, N)
  BY <1>4, <1>5, <1>6, SuspiciousFinds
<1>8. PICK U : U = Scanners(side)
  OBVIOUS
<1>9. U = {a \in {lan[i] : i \in 1 .. N} : count[a] > SuspiciousPorts}
  BY <1>2, <1>3, <1>4, <1>8 DEF Scanners
<1>10. \A a \in U : a \in DOMAIN copy.addrs
  BY <1>4, <1>9
<1>11. ASSUME NEW x \in DOMAIN found PROVE found[x] \in U
  <2>1. PICK y \in 1 .. N : found[x] = lan[y] /\ count[lan[y]] > SuspiciousPorts
    BY <1>7 DEF Finds
  <2> QED BY <1>9, <2>1
<1>12. found \in Seq(U)
  <2>1. PICK m \in Nat : m = Len(found) /\ DOMAIN found = 1 .. m /\ found = [i \in 1 .. m |-> found[i]]
    BY <1>7
  <2>2. found \in [1 .. m -> U]
    BY <1>11, <2>1
  <2> QED BY <2>2, SeqDef
<1>13. ASSUME NEW u \in U PROVE \E x \in DOMAIN found : found[x] = u
  <2>1. PICK y \in 1 .. N : u = lan[y] /\ count[lan[y]] > SuspiciousPorts
    BY <1>9
  <2> QED BY <1>7, <2>1 DEF Finds
<1>14. \A u \in U : count[u] \in Nat
  BY <1>3, <1>10, PortCounts
<1>15. \A x, y \in DOMAIN found : found[x] = found[y] => x = y
  BY <1>7 DEF Finds
<1>16. Orders(Sorted(found, count), U, count)
  BY <1>12, <1>13, <1>14, <1>15, SortedOrders
<1> QED BY <1>2, <1>3, <1>6, <1>8, <1>10, <1>16 DEF BySuspicion
-----------------------------------------------------------------------------
(* The inductive invariant. *)

(* The sections a period has when check_minute is at a place. *)
StreamSections == {Section("TSTR", "P", 0), Section("TSTR", "B", 0)}

LanSections == {Section("TADR", "TXP", FLOW_TYPE_INTERNAL), Section("TADR", "#P>", FLOW_TYPE_INTERNAL),
                Section("TADR", "#P<", FLOW_TYPE_INTERNAL)}

SectionsAt(place) ==
  CASE place = "streams"   -> {}
    [] place = "protocols" -> StreamSections
    [] place = "lan"       -> StreamSections \cup {Section("PORT", "P", 0)}
    [] place = "wan"       -> StreamSections \cup {Section("PORT", "P", 0)} \cup LanSections
    [] place = "close"     -> Sections

(* The bits that _process_streams leaves with the addresses. *)
Bits == [resvd |-> _set_port_bits("idx_left"), resvd2 |-> _set_port_bits("idx_right")]

(* How many streams and addresses were seen by then, at most. *)
StreamsAt(place) == IF place \in {"idle", "streams"} THEN 0 ELSE 2 * TopStreams

AddrsAt(place) ==
  CASE place \in {"idle", "streams"}  -> 0
    [] place \in {"protocols", "lan"} -> 4 * TopStreams
    [] place = "wan"                  -> 4 * TopStreams + 3 * TopAddrs
    [] place = "close"                -> 4 * TopStreams + 4 * TopAddrs

(* A period has written the sections of the functions it has called, from its
   own copy, and the marks of the addresses are of that copy. *)
PeriodInv ==
  /\ copy \in Copies /\ Written(ex, SectionsAt(pc))
  /\ pc # "streams" => ports = Bits

ReportInv ==
  /\ pc \in {"idle", "streams", "protocols", "lan", "wan", "close"}
  /\ OkEx(ex) /\ Sized(ex, StreamsAt(pc), AddrsAt(pc))
  /\ pc # "idle" => PeriodInv

(* What a section shows depends on the working copy and on nothing else. *)
LEMMA SameCopy ==
  ASSUME copy' = copy, NEW e, ex' = e, NEW W, Written(e, W)
  PROVE  Written(ex, W)' /\ Bits' = Bits
<1>1. ASSUME NEW side PROVE _set_port_bits(side)' = _set_port_bits(side)
  BY DEF _set_port_bits, Marked
<1>2. ASSUME NEW side PROVE Scanners(side)' = Scanners(side)
  BY <1>1 DEF Scanners
<1>3. ASSUME NEW sec PROVE Entries(sec)' = Entries(sec)
  BY <1>2 DEF Entries
<1>4. ASSUME NEW sec PROVE Value(sec)' = Value(sec)
  BY <1>1 DEF Value
<1>5. ASSUME NEW lines, NEW sec, NEW s, NEW K, NEW off, Shown(lines, sec, s, K, off)
      PROVE  Shown(lines, sec, s, K, off)'
  BY <1>5 DEF Shown
<1>6. ASSUME NEW lines, NEW sec, Ranked(lines, sec) PROVE Ranked(lines, sec)'
  BY <1>3, <1>4, <1>5, <1>6 DEF Ranked
<1>7. ASSUME NEW lines, StatsOf(lines) PROVE StatsOf(lines)'
  BY <1>7 DEF StatsOf
<1>8. Bits' = Bits
  BY <1>1 DEF Bits
<1> QED BY <1>6, <1>7, <1>8 DEF Written

(* The pointers to all entries, sorted. *)
LEMMA AllOrdered ==
  ASSUME NEW S, NEW table \in Seq(S), NEW val, \A x \in DOMAIN table : val[x] \in Nat
  PROVE  Orders(Sorted(All(table), val), DOMAIN table, val)
<1>1. PICK N \in Nat : DOMAIN table = 1 .. N
  OBVIOUS
<1>2. PICK list : list = All(table)
  OBVIOUS
<1>3. DOMAIN list = 1 .. N /\ \A x \in 1 .. N : list[x] = x
  BY <1>1, <1>2 DEF All
<1>4. list \in Seq(DOMAIN table)
  <2>1. list \in [1 .. N -> 1 .. N]
    BY <1>1, <1>2 DEF All
  <2> QED BY <1>1, <2>1, SeqDef
<1>5. \A x, y \in DOMAIN list : list[x] = list[y] => x = y
  BY <1>3
<1>6. \A u \in DOMAIN table : \E x \in DOMAIN list : list[x] = u
  BY <1>1, <1>3
<1> QED BY <1>2, <1>4, <1>5, <1>6, SortedOrders

(* An ordered list, sorted by another counter. *)
LEMMA Reordered ==
  ASSUME NEW U, NEW s, NEW val, NEW val2, Orders(s, U, val), \A u \in U : val2[u] \in Nat
  PROVE  Orders(Sorted(s, val2), U, val2)
<1>1. /\ s \in Seq(U)
      /\ \A x, y \in DOMAIN s : s[x] = s[y] => x = y
      /\ \A u \in U : \E x \in DOMAIN s : s[x] = u
  BY DEF Orders
<1> QED BY <1>1, SortedOrders

(* The addresses of a part, by their packets. *)
LEMMA PartOrdered ==
  ASSUME copy \in Copies, NEW part \in {copy.lan, copy.wan}
  PROVE  /\ ToSet(part) \subseteq DOMAIN copy.addrs
         /\ Orders(ByTxPackets(part), ToSet(part), Field(copy.addrs, "txpackets"))
<1>1. IsCopy(copy)
  BY ReportAssumption
<1>2. part \in Seq(DOMAIN copy.addrs) /\ IsInjective(part)
  BY <1>1 DEF IsCopy
<1>3. PICK N \in Nat : DOMAIN part = 1 .. N
  BY <1>2
<1>4. PICK U : U = ToSet(part) /\ U = {part[i] : i \in 1 .. N}
  BY <1>3 DEF ToSet
<1>5. \A x, y \in DOMAIN part : part[x] = part[y] => x = y
  BY <1>2, Zenon DEF IsInjective
<1>6. \A i \in 1 .. N : part[i] \in DOMAIN copy.addrs
  BY <1>2, <1>3
<1>7. \A u \in U : u \in DOMAIN copy.addrs
  BY <1>4, <1>6
<1>8. part \in Seq(U)
  <2>1. part = [i \in 1 .. N |-> part[i]]
    BY <1>2, <1>3
  <2>2. part \in [1 .. N -> U]
    BY <1>4, <2>1
  <2> QED BY <2>2, SeqDef
<1>9. \A u \in U : \E x \in DOMAIN part : part[x] = u
  BY <1>3, <1>4
<1>10. PICK val : val = Field(copy.addrs, "txpackets")
  OBVIOUS
<1>11. \A u \in U : val[u] \in Nat
  BY <1>1, <1>7, <1>10, CopyTypes DEF Field
<1>12. Orders(Sorted(part, val), U, val)
  BY <1>5, <1>8, <1>9, <1>11, SortedOrders
<1> QED BY <1>4, <1>7, <1>10, <1>12 DEF ByTxPackets

(* The sections of streams. *)
LEMMA StreamSection ==
  ASSUME NEW by \in {"P", "B"}, NEW sec, sec = Section("TSTR", by, 0)
  PROVE  /\ sec \in Sections /\ sec.kind = "TSTR" /\ sec.sortby = by
         /\ Entries(sec) = DOMAIN copy.streams /\ Table(copy, sec) = copy.streams
         /\ NumTop(sec) = TopStreams
         /\ Value(sec) = Field(copy.streams, IF by = "P" THEN "packets" ELSE "bytes")
<1>1. sec \in Sections /\ sec.kind = "TSTR" /\ sec.sortby = by
  BY DEF Sections, Section
<1> QED BY <1>1 DEF Entries, Table, NumTop, Value

(* The section of protocols. *)
LEMMA PortSection ==
  ASSUME NEW sec, sec = Section("PORT", "P", 0)
  PROVE  /\ sec \in Sections /\ sec.kind = "PORT"
         /\ Entries(sec) = DOMAIN copy.protos /\ Table(copy, sec) = copy.protos
         /\ NumTop(sec) = TopProtos /\ Value(sec) = Field(copy.protos, "packets")
<1>1. sec \in Sections /\ sec.kind = "PORT"
  BY DEF Sections, Section
<1> QED BY <1>1 DEF Entries, Table, NumTop, Value

(* The sections of addresses by their packets. *)
LEMMA TalkerSection ==
  ASSUME NEW flow \in {FLOW_TYPE_INTERNAL, 0}, NEW sec, sec = Section("TADR", "TXP", flow)
  PROVE  /\ sec \in Sections /\ sec.kind = "TADR"
         /\ Entries(sec) = ToSet(IF flow = 0 THEN copy.wan ELSE copy.lan)
         /\ Table(copy, sec) = copy.addrs /\ NumTop(sec) = TopAddrs
         /\ Value(sec) = Field(copy.addrs, "txpackets")
<1>1. sec \in Sections /\ sec.kind = "TADR" /\ sec.sortby = "TXP" /\ sec.flowflags = flow
  BY DEF Sections, Section
<1> QED BY <1>1 DEF Entries, Table, NumTop, Value

(* The sections of suspicious addresses. *)
LEMMA ScannerSection ==
  ASSUME NEW by \in {"#P>", "#P<"}, NEW sec, sec = Section("TADR", by, FLOW_TYPE_INTERNAL),
         NEW side, side = IF by = "#P>" THEN "idx_left" ELSE "idx_right"
  PROVE  /\ sec \in Sections /\ sec.kind = "TADR"
         /\ Entries(sec) = Scanners(side) /\ Table(copy, sec) = copy.addrs /\ NumTop(sec) = TopAddrs
         /\ Value(sec) = count_bits16(_set_port_bits(side))
<1>1. sec \in Sections /\ sec.kind = "TADR" /\ sec.sortby = by /\ by # "TXP"
  BY DEF Sections, Section
<1>2. Side(sec) = side
  BY <1>1 DEF Side
<1> QED BY <1>1, <1>2 DEF Entries, Table, NumTop, Value

(* No two sections of a period are the same. *)
LEMMA SectionsDiffer ==
  /\ Section("TSTR", "B", 0) \notin {Section("TSTR", "P", 0)}
  /\ Section("PORT", "P", 0) \notin StreamSections
  /\ \A sec \in LanSections : sec \notin StreamSections \cup {Section("PORT", "P", 0)}
  /\ Section("TADR", "#P>", FLOW_TYPE_INTERNAL) # Section("TADR", "TXP", FLOW_TYPE_INTERNAL)
  /\ Section("TADR", "#P<", FLOW_TYPE_INTERNAL) # Section("TADR", "TXP", FLOW_TYPE_INTERNAL)
  /\ Section("TADR", "#P<", FLOW_TYPE_INTERNAL) # Section("TADR", "#P>", FLOW_TYPE_INTERNAL)
  /\ Section("TADR", "TXP", 0) \notin StreamSections \cup {Section("PORT", "P", 0)} \cup LanSections
BY DEF StreamSections, LanSections, Section, FLOW_TYPE_INTERNAL

(* The lengths of the sections and of the lists are numbers. *)
LEMMA TopsAreNat ==
  TopStreams \in Nat /\ TopAddrs \in Nat /\ SeenMax \in Nat /\ 4 * TopStreams + 4 * TopAddrs <= SeenMax
BY ReportAssumption, Zenon

(* _process_streams writes the two sections of streams. *)
LEMMA StreamsStep ==
  ASSUME ReportInv, _process_streams
  PROVE  ReportInv'
<1>1. pc = "streams" /\ pc' = "protocols" /\ copy' = copy /\ ports' = Bits
  BY DEF _process_streams, Bits
<1>2. copy \in Copies /\ Written(ex, {}) /\ IsCopy(copy)
  BY <1>1, ReportAssumption DEF ReportInv, PeriodInv, SectionsAt
<1>3. PICK P, B : P = Section("TSTR", "P", 0) /\ B = Section("TSTR", "B", 0)
  OBVIOUS
<1>4. /\ P \in Sections /\ Entries(P) = DOMAIN copy.streams /\ Table(copy, P) = copy.streams
      /\ P.kind = "TSTR" /\ NumTop(P) = TopStreams /\ Value(P) = Field(copy.streams, "packets")
  BY <1>3, StreamSection
<1>5. /\ B \in Sections /\ Entries(B) = DOMAIN copy.streams /\ Table(copy, B) = copy.streams
      /\ B.kind = "TSTR" /\ NumTop(B) = TopStreams /\ Value(B) = Field(copy.streams, "bytes")
  BY <1>3, StreamSection
<1>6. P # B
  BY <1>3, SectionsDiffer
<1>7. \A s \in DOMAIN copy.streams : /\ Field(copy.streams, "packets")[s] \in Nat
                                     /\ Field(copy.streams, "bytes")[s] \in Nat
  BY <1>2, CopyTypes DEF Field
<1>8. Orders(ByPackets, Entries(P), Value(P))
  <2>1. PICK S : copy.streams \in Seq(S)
    BY <1>2 DEF IsCopy
  <2> QED BY <1>4, <1>7, <2>1, AllOrdered DEF ByPackets
<1>9. Orders(ByBytes, Entries(B), Value(B))
  BY <1>4, <1>5, <1>7, <1>8, Reordered DEF ByBytes
<1>10. PICK e : e = TopN(ex, P, ByPackets)
  OBVIOUS
<1>11. Written(e, {P})
  <2>1. Written(TopN(ex, P, ByPackets), {} \cup {P})
    BY <1>2, <1>4, <1>8, SectionWritten
  <2> QED BY <1>10, <2>1
<1>12. PICK f : f = TopN(e, B, ByBytes)
  OBVIOUS
<1>13. Written(f, {P} \cup {B})
  BY <1>2, <1>4, <1>5, <1>6, <1>9, <1>11, <1>12, SectionWritten
<1>14. {P} \cup {B} = SectionsAt("protocols")
  BY <1>3 DEF SectionsAt, StreamSections
<1>15. ex' = f
  BY <1>3, <1>10, <1>12 DEF _process_streams
<1>16. Written(ex, SectionsAt("protocols"))' /\ Bits' = Bits
  BY <1>1, <1>13, <1>14, <1>15, SameCopy
<1>17. OkEx(ex')
  BY <1>13, <1>15 DEF Written
<1>18. Sized(ex', StreamsAt("protocols"), AddrsAt("protocols"))
  <2>1. PICK t \in Nat : t = TopStreams
    BY TopsAreNat
  <2>2. Sized(ex, 0, 0)
    BY <1>1 DEF ReportInv, StreamsAt, AddrsAt
  <2>3. Sized(e, 0 + NewStreams(P, t), 0 + NewAddrs(P, t))
    BY <1>2, <1>4, <1>8, <1>10, <2>1, <2>2, SectionLists
  <2>4. 0 + NewStreams(P, t) = t /\ 0 + NewAddrs(P, t) = 2 * t /\ 2 * t \in Nat
    BY <1>4 DEF NewStreams, NewAddrs
  <2>5. Sized(e, t, 2 * t)
    BY <2>3, <2>4
  <2>6. Sized(f, t + NewStreams(B, t), 2 * t + NewAddrs(B, t))
    BY <1>2, <1>5, <1>9, <1>11, <1>12, <2>1, <2>4, <2>5, SectionLists
  <2>7. t + NewStreams(B, t) = 2 * t /\ 2 * t + NewAddrs(B, t) = 4 * t
    BY <1>5 DEF NewStreams, NewAddrs
  <2>8. StreamsAt("protocols") = 2 * t /\ AddrsAt("protocols") = 4 * t
    BY <2>1 DEF StreamsAt, AddrsAt
  <2> QED BY <1>15, <2>6, <2>7, <2>8
<1> QED BY <1>1, <1>2, <1>16, <1>17, <1>18 DEF ReportInv, PeriodInv

(* _process_protocols writes the section of ports. *)
LEMMA ProtocolsStep ==
  ASSUME ReportInv, _process_protocols
  PROVE  ReportInv'
<1>1. pc = "protocols" /\ pc' = "lan" /\ copy' = copy /\ ports' = ports
  BY DEF _process_protocols
<1>2. copy \in Copies /\ Written(ex, StreamSections) /\ ports = Bits /\ IsCopy(copy)
  BY <1>1, ReportAssumption DEF ReportInv, PeriodInv, SectionsAt
<1>3. PICK P : P = Section("PORT", "P", 0)
  OBVIOUS
<1>4. /\ P \in Sections /\ Entries(P) = DOMAIN copy.protos /\ Table(copy, P) = copy.protos
      /\ P.kind = "PORT" /\ Value(P) = Field(copy.protos, "packets")
  BY <1>3, PortSection
<1>5. StreamSections \subseteq Sections /\ P \notin StreamSections
  BY <1>3, SectionsDiffer DEF StreamSections, Sections
<1>6. \A p \in DOMAIN copy.protos : Field(copy.protos, "packets")[p] \in Nat
  BY <1>2, CopyTypes DEF Field
<1>7. Orders(ProtosByPackets, Entries(P), Value(P))
  <2>1. PICK S : copy.protos \in Seq(S)
    BY <1>2 DEF IsCopy
  <2> QED BY <1>4, <1>6, <2>1, AllOrdered DEF ProtosByPackets
<1>8. PICK f : f = TopN(ex, P, ProtosByPackets)
  OBVIOUS
<1>9. Written(f, StreamSections \cup {P})
  BY <1>2, <1>4, <1>5, <1>7, <1>8, SectionWritten
<1>10. StreamSections \cup {P} = SectionsAt("lan")
  BY <1>3 DEF SectionsAt
<1>11. ex' = f
  BY <1>3, <1>8 DEF _process_protocols
<1>12. Written(ex, SectionsAt("lan"))' /\ Bits' = Bits
  BY <1>1, <1>9, <1>10, <1>11, SameCopy
<1>13. OkEx(ex')
  BY <1>9, <1>11 DEF Written
<1>14. Sized(ex', StreamsAt("lan"), AddrsAt("lan"))
  <2>1. PICK m \in Nat, n \in Nat : /\ m = StreamsAt("protocols") /\ n = AddrsAt("protocols")
                                    /\ m = StreamsAt("lan") /\ n = AddrsAt("lan")
    <3>1. 2 * TopStreams \in Nat /\ 4 * TopStreams \in Nat
      BY TopsAreNat
    <3> QED BY <3>1 DEF StreamsAt, AddrsAt
  <2>2. Sized(ex, m, n)
    BY <1>1, <2>1 DEF ReportInv
  <2>3. PICK t : t = NumTop(P)
    OBVIOUS
  <2>4. Sized(f, m + NewStreams(P, t), n + NewAddrs(P, t))
    BY <1>2, <1>4, <1>7, <1>8, <2>2, <2>3, SectionLists
  <2>5. m + NewStreams(P, t) = m /\ n + NewAddrs(P, t) = n
    BY <1>4 DEF NewStreams, NewAddrs
  <2> QED BY <1>11, <2>1, <2>4, <2>5
<1> QED BY <1>1, <1>2, <1>12, <1>13, <1>14 DEF ReportInv, PeriodInv

(* _process_addrs2 for the LAN writes the talkers and the suspicious. *)
LEMMA LanStep ==
  ASSUME ReportInv, _process_addrs_lan
  PROVE  ReportInv'
<1> DEFINE W == StreamSections \cup {Section("PORT", "P", 0)}
<1>1. pc = "lan" /\ pc' = "wan" /\ copy' = copy /\ ports' = ports
  BY DEF _process_addrs_lan
<1>2. copy \in Copies /\ Written(ex, W) /\ ports = Bits /\ IsCopy(copy)
  BY <1>1, ReportAssumption DEF ReportInv, PeriodInv, SectionsAt
<1>3. PICK T, O, I : /\ T = Section("TADR", "TXP", FLOW_TYPE_INTERNAL)
                     /\ O = Section("TADR", "#P>", FLOW_TYPE_INTERNAL)
                     /\ I = Section("TADR", "#P<", FLOW_TYPE_INTERNAL)
  OBVIOUS
<1>4. /\ T \in Sections /\ Entries(T) = ToSet(copy.lan) /\ Table(copy, T) = copy.addrs
      /\ T.kind = "TADR" /\ NumTop(T) = TopAddrs /\ Value(T) = Field(copy.addrs, "txpackets")
  BY <1>3, TalkerSection DEF FLOW_TYPE_INTERNAL
<1>5. /\ O \in Sections /\ Entries(O) = Scanners("idx_left") /\ Table(copy, O) = copy.addrs
      /\ O.kind = "TADR" /\ NumTop(O) = TopAddrs /\ Value(O) = count_bits16(_set_port_bits("idx_left"))
  BY <1>3, ScannerSection
<1>6. /\ I \in Sections /\ Entries(I) = Scanners("idx_right") /\ Table(copy, I) = copy.addrs
      /\ I.kind = "TADR" /\ NumTop(I) = TopAddrs /\ Value(I) = count_bits16(_set_port_bits("idx_right"))
  BY <1>3, ScannerSection
<1>7. W \subseteq Sections
  BY DEF StreamSections, Sections
<1>8. T \notin W /\ O \notin W /\ I \notin W /\ T # O /\ T # I /\ O # I
  <2>1. T \in LanSections /\ O \in LanSections /\ I \in LanSections
    BY <1>3 DEF LanSections
  <2> QED BY <1>3, <2>1, SectionsDiffer
<1>9. ports.resvd = _set_port_bits("idx_left") /\ ports.resvd2 = _set_port_bits("idx_right")
  BY <1>2 DEF Bits
<1> HIDE DEF W
<1>10. /\ Orders(ByTxPackets(copy.lan), Entries(T), Value(T)) /\ Entries(T) \subseteq DOMAIN copy.addrs
  BY <1>2, <1>4, PartOrdered
<1>11. /\ Orders(BySuspicion(ports.resvd), Entries(O), Value(O)) /\ Entries(O) \subseteq DOMAIN copy.addrs
  BY <1>2, <1>5, <1>9, ScannersOrdered
<1>12. /\ Orders(BySuspicion(ports.resvd2), Entries(I), Value(I)) /\ Entries(I) \subseteq DOMAIN copy.addrs
  BY <1>2, <1>6, <1>9, ScannersOrdered
<1>13. PICK e : e = TopN(ex, T, ByTxPackets(copy.lan))
  OBVIOUS
<1>14. Written(e, W \cup {T})
  BY <1>2, <1>4, <1>7, <1>8, <1>10, <1>13, SectionWritten
<1>15. PICK f : f = TopN(e, O, BySuspicion(ports.resvd))
  OBVIOUS
<1>16. Written(f, (W \cup {T}) \cup {O})
  <2>1. W \cup {T} \subseteq Sections /\ O \notin W \cup {T}
    BY <1>4, <1>7, <1>8
  <2> QED BY <1>2, <1>5, <1>11, <1>14, <1>15, <2>1, SectionWritten
<1>17. PICK g : g = TopN(f, I, BySuspicion(ports.resvd2))
  OBVIOUS
<1>18. Written(g, (W \cup {T} \cup {O}) \cup {I})
  <2>1. W \cup {T} \cup {O} \subseteq Sections /\ I \notin W \cup {T} \cup {O}
    BY <1>4, <1>5, <1>7, <1>8
  <2> QED BY <1>2, <1>6, <1>12, <1>16, <1>17, <2>1, SectionWritten
<1>19. W \cup {T} \cup {O} \cup {I} = SectionsAt("wan")
  BY <1>3 DEF SectionsAt, LanSections, W
<1>20. ex' = g
  BY <1>3, <1>13, <1>15, <1>17, Zenon DEF _process_addrs_lan
<1>21. Written(ex, SectionsAt("wan"))' /\ Bits' = Bits
  BY <1>1, <1>18, <1>19, <1>20, SameCopy
<1>22. OkEx(ex')
  BY <1>18, <1>20 DEF Written
<1>23. Sized(ex', StreamsAt("wan"), AddrsAt("wan"))
  <2>1. PICK k \in Nat, t \in Nat : k = TopStreams /\ t = TopAddrs
    BY TopsAreNat
  <2>2. Sized(ex, 2 * k, 4 * k)
    BY <1>1, <2>1 DEF ReportInv, StreamsAt, AddrsAt
  <2>3. /\ \A m \in Nat : /\ m + NewStreams(T, t) = m /\ m + NewStreams(O, t) = m
                          /\ m + NewStreams(I, t) = m
        /\ NewAddrs(T, t) = t /\ NewAddrs(O, t) = t /\ NewAddrs(I, t) = t
    BY <1>4, <1>5, <1>6 DEF NewStreams, NewAddrs
  <2>4. PICK m \in Nat, n \in Nat, n1 \in Nat, n2 \in Nat, n3 \in Nat :
          m = 2 * k /\ n = 4 * k /\ n1 = n + t /\ n2 = n1 + t /\ n3 = n2 + t /\ n3 = 4 * k + 3 * t
    <3>1. /\ 2 * k \in Nat /\ 4 * k \in Nat /\ 4 * k + t \in Nat /\ 4 * k + t + t \in Nat
          /\ 4 * k + t + t + t \in Nat /\ 4 * k + t + t + t = 4 * k + 3 * t
      OBVIOUS
    <3> QED BY <3>1, Zenon
  <2>5. Sized(e, m + NewStreams(T, t), n + NewAddrs(T, t))
    BY <1>2, <1>4, <1>10, <1>13, <2>1, <2>2, <2>4, SectionLists
  <2>6. Sized(e, m, n1)
    BY <2>3, <2>4, <2>5
  <2>7. Sized(f, m + NewStreams(O, t), n1 + NewAddrs(O, t))
    BY <1>2, <1>5, <1>11, <1>14, <1>15, <2>1, <2>6, SectionLists
  <2>8. Sized(f, m, n2)
    BY <2>3, <2>4, <2>7
  <2>9. Sized(g, m + NewStreams(I, t), n2 + NewAddrs(I, t))
    BY <1>2, <1>6, <1>12, <1>16, <1>17, <2>1, <2>8, SectionLists
  <2>10. Sized(g, m, n3)
    BY <2>3, <2>4, <2>9
  <2>11. StreamsAt("wan") = m /\ AddrsAt("wan") = n3
    BY <2>1, <2>4 DEF StreamsAt, AddrsAt
  <2> QED BY <1>20, <2>10, <2>11
<1> QED BY <1>1, <1>2, <1>21, <1>22, <1>23 DEF ReportInv, PeriodInv

(* _process_addrs2 for the WAN writes the last section. *)
LEMMA WanStep ==
  ASSUME ReportInv, _process_addrs_wan
  PROVE  ReportInv'
<1> DEFINE W == StreamSections \cup {Section("PORT", "P", 0)} \cup LanSections
<1>1. pc = "wan" /\ pc' = "close" /\ copy' = copy /\ ports' = ports
  BY DEF _process_addrs_wan
<1>2. copy \in Copies /\ Written(ex, W) /\ ports = Bits
  BY <1>1 DEF ReportInv, PeriodInv, SectionsAt
<1>3. PICK T : T = Section("TADR", "TXP", 0)
  OBVIOUS
<1>4. /\ T \in Sections /\ Entries(T) = ToSet(copy.wan) /\ Table(copy, T) = copy.addrs
      /\ T.kind = "TADR" /\ NumTop(T) = TopAddrs /\ Value(T) = Field(copy.addrs, "txpackets")
  BY <1>3, TalkerSection
<1>5. W \subseteq Sections /\ T \notin W
  BY <1>3, SectionsDiffer DEF StreamSections, LanSections, Sections
<1>6. W \cup {T} = SectionsAt("close")
  BY <1>3 DEF SectionsAt, StreamSections, LanSections, Sections
<1> HIDE DEF W
<1>7. /\ Orders(ByTxPackets(copy.wan), Entries(T), Value(T)) /\ Entries(T) \subseteq DOMAIN copy.addrs
  BY <1>2, <1>4, PartOrdered
<1>8. PICK f : f = TopN(ex, T, ByTxPackets(copy.wan))
  OBVIOUS
<1>9. Written(f, W \cup {T})
  BY <1>2, <1>4, <1>5, <1>7, <1>8, SectionWritten
<1>10. ex' = f
  BY <1>3, <1>8 DEF _process_addrs_wan
<1>11. Written(ex, SectionsAt("close"))' /\ Bits' = Bits
  BY <1>1, <1>6, <1>9, <1>10, SameCopy
<1>12. OkEx(ex')
  BY <1>9, <1>10 DEF Written
<1>13. Sized(ex', StreamsAt("close"), AddrsAt("close"))
  <2>1. PICK k \in Nat, t \in Nat : k = TopStreams /\ t = TopAddrs
    BY TopsAreNat
  <2>2. Sized(ex, 2 * k, 4 * k + 3 * t) /\ 2 * k \in Nat /\ 4 * k + 3 * t \in Nat
    BY <1>1, <2>1 DEF ReportInv, StreamsAt, AddrsAt
  <2>3. Sized(f, 2 * k + NewStreams(T, t), 4 * k + 3 * t + NewAddrs(T, t))
    BY <1>2, <1>4, <1>7, <1>8, <2>1, <2>2, SectionLists
  <2>4. 2 * k + NewStreams(T, t) = 2 * k /\ 4 * k + 3 * t + NewAddrs(T, t) = 4 * k + 4 * t
    BY <1>4 DEF NewStreams, NewAddrs
  <2>5. StreamsAt("close") = 2 * k /\ AddrsAt("close") = 4 * k + 4 * t
    BY <2>1 DEF StreamsAt, AddrsAt
  <2> QED BY <1>10, <2>3, <2>4, <2>5
<1> QED BY <1>1, <1>2, <1>11, <1>12, <1>13 DEF ReportInv, PeriodInv

(* A new period has new buffers. *)
LEMMA NewExport ==
  ASSUME NEW e, e = [sbuf |-> NewBuffers, _streams |-> {}, _addrs |-> {}]
  PROVE  OkEx(e) /\ Sized(e, 0, 0) /\ e.sbuf.stats.lines = <<>>
<1>1. BufSize \in Nat /\ BufSize > 0
  <2>1. BufSize \in Nat \ {0}
    BY ReportAssumption, Zenon
  <2> QED BY <2>1
<1>2. PICK b : b = sbuf_new(BufSize)
  OBVIOUS
<1>3. b \in Bufs /\ Fits(b) /\ b.lines = <<>>
  <2>1. <<>> \in Seq(AllLines)
    OBVIOUS
  <2>2. b.capacity = BufSize /\ b.len = 0 /\ b.lines = <<>>
    BY <1>2 DEF sbuf_new
  <2>3. b \in Bufs
    BY <1>1, <1>2, <2>1 DEF sbuf_new, Bufs
  <2> QED BY <1>1, <2>2, <2>3 DEF Fits
<1>4. /\ e.sbuf.addrs = b /\ e.sbuf.streams = b /\ e.sbuf.stats = b
      /\ e._addrs = {} /\ e._streams = {}
  BY <1>2 DEF NewBuffers
<1>5. e \in Exs
  BY <1>2, <1>3 DEF Exs, NewBuffers
<1>6. TableOf(<<>>, {})
  BY DEF TableOf
<1>7. DOMAIN <<>> = {}
  OBVIOUS
<1>8. Sized(e, 0, 0)
  BY <1>4, FS_EmptySet DEF Sized
<1> QED BY <1>3, <1>4, <1>5, <1>6, <1>7, <1>8 DEF OkEx

(* check_minute begins a period. *)
LEMMA MinuteStep ==
  ASSUME ReportInv, check_minute
  PROVE  ReportInv'
<1>1. pc' = "streams" /\ copy' \in Copies
  BY DEF check_minute
<1>2. OkEx(ex') /\ Sized(ex', 0, 0) /\ ex'.sbuf.stats.lines = <<>>
  BY NewExport DEF check_minute, on_stat_period_open
<1>3. \A p \in DOMAIN ex'.sbuf.stats.lines : FALSE
  BY <1>2
<1>4. Written(ex, {})'
  BY <1>2, <1>3 DEF Written, StatsOf, Absent
<1> QED BY <1>1, <1>2, <1>4 DEF ReportInv, PeriodInv, SectionsAt, StreamsAt, AddrsAt

(* The report's invariant is inductive. *)
THEOREM ReportInvariant == Spec => []ReportInv
<1>1. Init => ReportInv
  BY NewExport DEF Init, ReportInv, StreamsAt, AddrsAt
<1>2. ReportInv /\ [Next]_vars => ReportInv'
  <2> SUFFICES ASSUME ReportInv, [Next]_vars PROVE ReportInv'
    OBVIOUS
  <2>1. CASE check_minute
    BY <2>1, MinuteStep
  <2>2. CASE _process_streams
    BY <2>2, StreamsStep
  <2>3. CASE _process_protocols
    BY <2>3, ProtocolsStep
  <2>4. CASE _process_addrs_lan
    BY <2>4, LanStep
  <2>5. CASE _process_addrs_wan
    BY <2>5, WanStep
  <2>6. CASE UNCHANGED vars
    <3>1. ex' = ex /\ copy' = copy /\ pc' = pc /\ ports' = ports
      BY <2>6 DEF vars
    <3>2. CASE pc = "idle"
      BY <3>1, <3>2 DEF ReportInv
    <3>3. CASE pc # "idle"
      <4>1. copy \in Copies /\ Written(ex, SectionsAt(pc)) /\ (pc # "streams" => ports = Bits)
        BY <3>3 DEF ReportInv, PeriodInv
      <4>2. PICK e, W : e = ex /\ W = SectionsAt(pc)
        OBVIOUS
      <4>3. Written(ex, W)' /\ Bits' = Bits
        BY <3>1, <4>1, <4>2, SameCopy
      <4> QED BY <3>1, <4>1, <4>2, <4>3 DEF ReportInv, PeriodInv
    <3> QED BY <3>2, <3>3
  <2> QED BY <2>1, <2>2, <2>3, <2>4, <2>5, <2>6 DEF Next
<1> QED BY <1>1, <1>2, PTL DEF Spec
-----------------------------------------------------------------------------
(* What the report says. *)

(* A buffer has room for its lines and their terminator after every append: one
   doubling in sbuf_append is enough.  The lists of what was seen have room for
   the streams and addresses of every section. *)
THEOREM BuffersCorrect == Spec => []BuffersFit
<1>1. ReportInv => BuffersFit
  <2> SUFFICES ASSUME ReportInv PROVE BuffersFit
    OBVIOUS
  <2>1. /\ ex \in Exs /\ Fits(ex.sbuf.addrs) /\ Fits(ex.sbuf.streams) /\ Fits(ex.sbuf.stats)
    BY DEF ReportInv, OkEx
  <2>2. DOMAIN ex.sbuf = {"addrs", "streams", "stats"}
    BY <2>1 DEF Exs
  <2>3. \A b \in DOMAIN ex.sbuf : ex.sbuf[b].len < ex.sbuf[b].capacity
    BY <2>1, <2>2 DEF Fits
  <2>4. PICK k \in Nat, t \in Nat, x \in Nat :
          k = TopStreams /\ t = TopAddrs /\ x = SeenMax /\ 4 * k + 4 * t <= x
    BY TopsAreNat, Zenon
  <2>5. StreamsAt(pc) \in {0, 2 * k} /\ AddrsAt(pc) \in {0, 4 * k, 4 * k + 3 * t, 4 * k + 4 * t}
    BY <2>4 DEF ReportInv, StreamsAt, AddrsAt
  <2>6. /\ IsFiniteSet(ex._streams) /\ Cardinality(ex._streams) <= StreamsAt(pc)
        /\ IsFiniteSet(ex._addrs) /\ Cardinality(ex._addrs) <= AddrsAt(pc)
    BY DEF ReportInv, Sized
  <2>7. PICK c \in Nat, d \in Nat : c = Cardinality(ex._streams) /\ d = Cardinality(ex._addrs)
    BY <2>6, FS_CardinalityType
  <2>8. c <= x /\ d <= x
    BY <2>4, <2>5, <2>6, <2>7
  <2> QED BY <2>3, <2>4, <2>7, <2>8 DEF BuffersFit
<1> QED BY <1>1, ReportInvariant, PTL

(* Every stream and address of a section, and both addresses of every stream of
   the table, has exactly one line in the tables of the period. *)
THEOREM IdsCorrect == Spec => []IdsAreMapped
<1>1. ReportInv => IdsAreMapped
  <2> SUFFICES ASSUME ReportInv PROVE IdsAreMapped
    OBVIOUS
  <2>1. OkEx(ex)
    BY DEF ReportInv
  <2>2. ASSUME NEW id \in ex._addrs PROVE OneOf(ex.sbuf.addrs, id)
    BY <2>1, Zenon DEF OkEx, TableOf, OneOf
  <2>3. ASSUME NEW id \in ex._streams PROVE OneOf(ex.sbuf.streams, id)
    BY <2>1, Zenon DEF OkEx, TableOf, OneOf
  <2>4. ASSUME NEW p \in DOMAIN stats
        PROVE  /\ stats[p].kind = "TSTR" => stats[p].iid \in ex._streams
               /\ stats[p].kind = "TADR" => stats[p].iid \in ex._addrs
    BY <2>1 DEF OkEx, stats
  <2>5. ASSUME NEW l \in ToSet(ex.sbuf.streams.lines) PROVE l.left \in ex._addrs /\ l.right \in ex._addrs
    <3>1. PICK p \in DOMAIN ex.sbuf.streams.lines : l = ex.sbuf.streams.lines[p]
      BY DEF ToSet
    <3> QED BY <2>1, <3>1 DEF OkEx
  <2> QED BY <2>2, <2>3, <2>4, <2>5, Zenon DEF IdsAreMapped
<1> QED BY <1>1, ReportInvariant, PTL

(* At the end of a period every section is there. *)
LEMMA PeriodEnds ==
  ASSUME ReportInv, pc = "close"
  PROVE  /\ copy \in Copies /\ IsCopy(copy) /\ StatsOf(stats)
         /\ \A sec \in Sections : Ranked(stats, sec)
BY ReportAssumption DEF ReportInv, PeriodInv, Written, SectionsAt, stats

(* A line of a section is about the entry it was formatted from. *)
LEMMA SubjectIs ==
  ASSUME IsCopy(copy), NEW sec \in Sections, NEW i, NEW x
  PROVE  /\ sec.kind = "TSTR" => Subject(StatLine(copy, sec, i, x)) = copy.streams[x].iid
         /\ sec.kind = "TADR" => Subject(StatLine(copy, sec, i, x)) = copy.addrs[x].iid
         /\ sec.kind = "PORT" /\ x \in DOMAIN copy.protos =>
              Subject(StatLine(copy, sec, i, x)) = copy.protos[x].entry
<1>1. PICK l : l = StatLine(copy, sec, i, x)
  OBVIOUS
<1>2. ASSUME sec.kind = "TSTR" PROVE Subject(l) = copy.streams[x].iid
  BY <1>1, <1>2, StatLineFields DEF Subject
<1>3. ASSUME sec.kind = "TADR" PROVE Subject(l) = copy.addrs[x].iid
  BY <1>1, <1>3, StatLineFields DEF Subject
<1>4. ASSUME sec.kind = "PORT", x \in DOMAIN copy.protos PROVE Subject(l) = copy.protos[x].entry
  <2>1. PICK n : n = copy.protos[x].entry
    OBVIOUS
  <2>2. PICK N \in Nat : N = NumTcpProtos
    BY ReportAssumption
  <2>3. n \in 0 .. 2 * N - 1
    BY <1>4, <2>1, <2>2, CopyTypes
  <2>4. l.kind = "PORT" /\ l.port = PortOf(n) /\ l.ipproto = ProtoOf(n)
    BY <1>1, <1>4, <2>1, StatLineFields
  <2>5. CASE n >= N
    <3>1. l.port = n - N /\ l.ipproto = IPPROTO_UDP
      BY <2>2, <2>4, <2>5 DEF PortOf, ProtoOf
    <3>2. n - N + N = n
      BY <2>3
    <3> QED BY <2>1, <2>2, <2>4, <3>1, <3>2 DEF Subject
  <2>6. CASE ~(n >= N)
    <3>1. l.port = n /\ l.ipproto # IPPROTO_UDP
      BY <2>2, <2>4, <2>6 DEF PortOf, ProtoOf, IPPROTO_UDP, IPPROTO_TCP
    <3>2. n + 0 = n
      BY <2>3
    <3> QED BY <2>1, <2>4, <3>1, <3>2 DEF Subject
  <2> QED BY <2>5, <2>6
<1> QED BY <1>1, <1>2, <1>3, <1>4

(* A ranked section, with its list s, the number K and the place of its lines. *)
LEMMA RankedLines ==
  ASSUME NEW sec \in Sections, Ranked(stats, sec)
  PROVE  \E s \in Seq(Entries(sec)), K \in Nat, off \in Nat :
           /\ Orders(s, Entries(sec), Value(sec))
           /\ K <= Len(s) /\ K <= NumTop(sec) /\ (K = NumTop(sec) \/ K = Len(s))
           /\ Places(sec) = off + 1 .. off + K
           /\ \A i \in 1 .. K : stats[off + i] = StatLine(copy, sec, i - 1, s[i])
<1>1. PICK s \in Seq(Entries(sec)), K \in Nat, off \in Nat :
        /\ Orders(s, Entries(sec), Value(sec))
        /\ K <= Len(s) /\ K <= NumTop(sec) /\ (K = NumTop(sec) \/ K = Len(s))
        /\ Shown(stats, sec, s, K, off)
  BY DEF Ranked
<1>2. \A p \in DOMAIN stats : InSection(stats[p], sec) <=> p \in off + 1 .. off + K
  BY <1>1 DEF Shown
<1>3. \A i \in 1 .. K : off + i \in DOMAIN stats /\ stats[off + i] = StatLine(copy, sec, i - 1, s[i])
  BY <1>1 DEF Shown
<1>4. ASSUME NEW p \in off + 1 .. off + K PROVE p \in DOMAIN stats
  <2>1. p - off \in 1 .. K /\ off + (p - off) = p
    OBVIOUS
  <2> QED BY <1>3, <2>1
<1>5. Places(sec) = off + 1 .. off + K
  BY <1>2, <1>4 DEF Places
<1> QED BY <1>1, <1>3, <1>5

(* An ordered list is as long as its set is large. *)
LEMMA OrdersCount ==
  ASSUME NEW U, NEW s, NEW val, Orders(s, U, val)
  PROVE  IsFiniteSet(U) /\ Cardinality(U) = Len(s)
<1>1. PICK N \in Nat : N = Len(s) /\ DOMAIN s = 1 .. N
  BY DEF Orders
<1>2. s \in Bijection(1 .. N, U)
  <2>1. s \in [1 .. N -> U]
    BY <1>1 DEF Orders
  <2>2. IsInjective(s)
    BY DEF Orders, IsInjective
  <2>3. \A t \in U : \E x \in 1 .. N : s[x] = t
    BY <1>1 DEF Orders
  <2> QED BY <2>1, <2>2, <2>3, Zenon DEF Bijection, Injection, Surjection, IsInjective
<1>3. ExistsBijection(1 .. N, U)
  BY <1>2 DEF ExistsBijection
<1>4. IsFiniteSet(1 .. N) /\ Cardinality(1 .. N) = N
  BY FS_Interval
<1> QED BY <1>1, <1>3, <1>4, FS_Bijection

(* A ranked section is a Top-N of its entries. *)
LEMMA RankedIsTop ==
  ASSUME NEW sec \in Sections, Ranked(stats, sec), NEW table, NEW id, NEW n, n = NumTop(sec), NEW rec,
         NEW entries, entries = Entries(sec),
         \A x \in entries : Value(sec)[x] = table[x][rec],
         \A x \in entries, i \in Nat : Subject(StatLine(copy, sec, i, x)) = table[x][id],
         \A x, y \in entries : table[x][id] = table[y][id] => x = y
  PROVE  IsTop(sec, table, id, entries, n, rec)
<1>1. PICK s \in Seq(entries), K \in Nat, off \in Nat :
        /\ Orders(s, entries, Value(sec))
        /\ K <= Len(s) /\ K <= n /\ (K = n \/ K = Len(s))
        /\ Places(sec) = off + 1 .. off + K
        /\ \A i \in 1 .. K : stats[off + i] = StatLine(copy, sec, i - 1, s[i])
  BY RankedLines
<1>2. PICK L \in Nat : L = Len(s) /\ DOMAIN s = 1 .. L
  OBVIOUS
<1>3. n \in Nat
  BY SectionFacts
<1>4. Cardinality(Places(sec)) = Min({n, Cardinality(entries)})
  <2>1. Cardinality(entries) = L
    BY <1>1, <1>2, OrdersCount
  <2>2. Cardinality(off + 1 .. off + K) = K
    <3>1. off + 1 \in Int /\ off + K \in Int
      OBVIOUS
    <3>2. Cardinality(off + 1 .. off + K) = IF off + 1 > off + K THEN 0 ELSE off + K - (off + 1) + 1
      BY <3>1, FS_Interval
    <3> QED BY <3>2
  <2>3. Min({n, L}) \in {n, L} /\ \A y \in {n, L} : Min({n, L}) <= y
    BY <1>2, <1>3, MinNat
  <2>4. PICK m \in {n, L} : m = Min({n, L}) /\ m <= n /\ m <= L
    BY <2>3
  <2>5. m = K
    BY <1>1, <1>2, <1>3, <2>4
  <2> QED BY <1>1, <2>1, <2>2, <2>4, <2>5
<1>5. ASSUME NEW p \in Places(sec)
      PROVE  /\ p - off \in 1 .. K /\ p - off \in 1 .. L /\ s[p - off] \in entries
             /\ Subject(stats[p]) = table[s[p - off]][id]
  <2>1. p \in off + 1 .. off + K
    BY <1>1
  <2>2. PICK i \in 1 .. K : i = p - off /\ off + i = p
    BY <2>1
  <2>3. i \in 1 .. L /\ s[i] \in entries /\ i - 1 \in Nat
    BY <1>1, <1>2
  <2>4. stats[p] = StatLine(copy, sec, i - 1, s[i])
    BY <1>1, <2>2
  <2>5. Subject(stats[p]) = table[s[i]][id]
    BY <2>3, <2>4
  <2> QED BY <2>2, <2>3, <2>5
<1>6. ASSUME NEW p \in Places(sec), NEW x \in entries, table[x][id] = Subject(stats[p])
      PROVE  x = s[p - off]
  BY <1>5, <1>6
<1>7. \A x, y \in 1 .. L : x <= y => table[s[x]][rec] >= table[s[y]][rec]
  <2>1. \A x \in 1 .. L : s[x] \in entries
    BY <1>2
  <2>2. \A x, y \in 1 .. L : x <= y => Value(sec)[s[x]] >= Value(sec)[s[y]]
    BY <1>1, <1>2 DEF Orders
  <2> QED BY <2>1, <2>2
<1>8. ASSUME NEW p \in Places(sec), NEW q \in Places(sec), NEW x \in entries, NEW y \in entries,
             p < q, table[x][id] = Subject(stats[p]), table[y][id] = Subject(stats[q])
      PROVE  x # y /\ table[x][rec] >= table[y][rec]
  <2>1. x = s[p - off] /\ y = s[q - off]
    BY <1>6, <1>8
  <2>2. PICK i \in 1 .. L, j \in 1 .. L : i = p - off /\ j = q - off
    BY <1>5
  <2>3. p \in Int /\ q \in Int
    BY <1>1
  <2>4. i <= j /\ i # j
    BY <1>8, <2>2, <2>3
  <2>5. s[i] # s[j]
    BY <1>1, <1>2, <2>4 DEF Orders
  <2> QED BY <1>7, <2>1, <2>2, <2>4, <2>5
<1>9. ASSUME NEW y \in entries, ~\E q \in Places(sec) : y \in entries /\ table[y][id] = Subject(stats[q]),
             NEW p \in Places(sec), NEW x \in entries, table[x][id] = Subject(stats[p])
      PROVE  table[x][rec] >= table[y][rec]
  <2>1. PICK j \in 1 .. L : s[j] = y
    BY <1>1, <1>2 DEF Orders
  <2>2. ~(j <= K)
    <3> SUFFICES ASSUME j <= K PROVE FALSE
      OBVIOUS
    <3>1. PICK q : q = off + j
      OBVIOUS
    <3>2. q \in off + 1 .. off + K /\ q - off = j
      BY <3>1
    <3>3. q \in Places(sec)
      BY <1>1, <3>2
    <3>4. Subject(stats[q]) = table[s[j]][id]
      BY <1>5, <3>2, <3>3
    <3> QED BY <1>9, <2>1, <3>3, <3>4
  <2>3. PICK i \in 1 .. L : i = p - off /\ i \in 1 .. K /\ x = s[i]
    BY <1>5, <1>6, <1>9
  <2>4. i <= j
    BY <2>2, <2>3
  <2> QED BY <1>7, <2>1, <2>3, <2>4
<1>10. \A p \in Places(sec) : \E x \in entries : x \in entries /\ table[x][id] = Subject(stats[p])
  BY <1>5, Zenon
<1>11. \A p, q \in Places(sec), x, y \in entries :
         p < q /\ (x \in entries /\ table[x][id] = Subject(stats[p]))
               /\ (y \in entries /\ table[y][id] = Subject(stats[q])) => x # y /\ table[x][rec] >= table[y][rec]
  BY <1>8
<1>12. \A y \in entries : \/ \E q \in Places(sec) : y \in entries /\ table[y][id] = Subject(stats[q])
                          \/ \A p \in Places(sec), x \in entries :
                               (x \in entries /\ table[x][id] = Subject(stats[p])) => table[x][rec] >= table[y][rec]
  BY <1>9
<1> QED BY <1>4, <1>10, <1>11, <1>12, Zenon DEF IsTop

(* Each section has the largest entries, in descending order, none twice and none
   larger left out. *)
THEOREM TopCorrect == Spec => []TopIsTop
<1>1. ReportInv => TopIsTop
  <2> SUFFICES ASSUME ReportInv, pc = "close" PROVE
        /\ IsTop(Section("TSTR", "P", 0), copy.streams, "iid", DOMAIN copy.streams, TopStreams, "packets")
        /\ IsTop(Section("TSTR", "B", 0), copy.streams, "iid", DOMAIN copy.streams, TopStreams, "bytes")
        /\ IsTop(Section("PORT", "P", 0), copy.protos, "entry", DOMAIN copy.protos, TopProtos, "packets")
        /\ IsTop(Section("TADR", "TXP", FLOW_TYPE_INTERNAL), copy.addrs, "iid", ToSet(copy.lan), TopAddrs, "txpackets")
        /\ IsTop(Section("TADR", "TXP", 0), copy.addrs, "iid", ToSet(copy.wan), TopAddrs, "txpackets")
    BY DEF TopIsTop
  <2>1. copy \in Copies /\ IsCopy(copy) /\ \A sec \in Sections : Ranked(stats, sec)
    BY PeriodEnds
  <2>2. ASSUME NEW by \in {"P", "B"}, NEW rec, rec = IF by = "P" THEN "packets" ELSE "bytes"
        PROVE  IsTop(Section("TSTR", by, 0), copy.streams, "iid", DOMAIN copy.streams, TopStreams, rec)
    <3>1. PICK sec : sec = Section("TSTR", by, 0)
      OBVIOUS
    <3>2. /\ sec \in Sections /\ sec.kind = "TSTR" /\ Entries(sec) = DOMAIN copy.streams
          /\ NumTop(sec) = TopStreams /\ Value(sec) = Field(copy.streams, rec)
      BY <2>2, <3>1, StreamSection
    <3>3. \A x \in DOMAIN copy.streams : Value(sec)[x] = copy.streams[x][rec]
      BY <3>2 DEF Field
    <3>4. \A x \in DOMAIN copy.streams, i \in Nat : Subject(StatLine(copy, sec, i, x)) = copy.streams[x].iid
      BY <2>1, <3>2, SubjectIs
    <3>5. \A x, y \in DOMAIN copy.streams : copy.streams[x].iid = copy.streams[y].iid => x = y
      BY <2>1, Zenon DEF IsCopy
    <3> QED BY <2>1, <3>1, <3>2, <3>3, <3>4, <3>5, RankedIsTop
  <2>3. ASSUME NEW flow \in {FLOW_TYPE_INTERNAL, 0}, NEW part \in {copy.lan, copy.wan},
               part = IF flow = 0 THEN copy.wan ELSE copy.lan
        PROVE  IsTop(Section("TADR", "TXP", flow), copy.addrs, "iid", ToSet(part), TopAddrs, "txpackets")
    <3>1. PICK sec : sec = Section("TADR", "TXP", flow)
      OBVIOUS
    <3>2. /\ sec \in Sections /\ sec.kind = "TADR" /\ Entries(sec) = ToSet(part)
          /\ NumTop(sec) = TopAddrs /\ Value(sec) = Field(copy.addrs, "txpackets")
      BY <2>3, <3>1, TalkerSection
    <3>3. ToSet(part) \subseteq DOMAIN copy.addrs
      BY <2>1, PartOrdered
    <3>4. \A x \in ToSet(part) : Value(sec)[x] = copy.addrs[x].txpackets
      BY <3>2, <3>3 DEF Field
    <3>5. \A x \in ToSet(part), i \in Nat : Subject(StatLine(copy, sec, i, x)) = copy.addrs[x].iid
      BY <2>1, <3>2, SubjectIs
    <3>6. \A x, y \in ToSet(part) : copy.addrs[x].iid = copy.addrs[y].iid => x = y
      BY <2>1, <2>3, Zenon DEF IsCopy
    <3> QED BY <2>1, <3>1, <3>2, <3>4, <3>5, <3>6, RankedIsTop
  <2>4. IsTop(Section("TADR", "TXP", FLOW_TYPE_INTERNAL), copy.addrs, "iid", ToSet(copy.lan), TopAddrs, "txpackets")
    BY <2>3 DEF FLOW_TYPE_INTERNAL
  <2>5. IsTop(Section("TADR", "TXP", 0), copy.addrs, "iid", ToSet(copy.wan), TopAddrs, "txpackets")
    BY <2>3
  <2>6. IsTop(Section("PORT", "P", 0), copy.protos, "entry", DOMAIN copy.protos, TopProtos, "packets")
    <3>1. PICK sec : sec = Section("PORT", "P", 0)
      OBVIOUS
    <3>2. /\ sec \in Sections /\ sec.kind = "PORT" /\ Entries(sec) = DOMAIN copy.protos
          /\ NumTop(sec) = TopProtos /\ Value(sec) = Field(copy.protos, "packets")
      BY <3>1, PortSection
    <3>3. \A x \in DOMAIN copy.protos : Value(sec)[x] = copy.protos[x].packets
      BY <3>2 DEF Field
    <3>4. \A x \in DOMAIN copy.protos, i \in Nat : Subject(StatLine(copy, sec, i, x)) = copy.protos[x].entry
      BY <2>1, <3>2, SubjectIs
    <3>5. \A x, y \in DOMAIN copy.protos : copy.protos[x].entry = copy.protos[y].entry => x = y
      BY <2>1, Zenon DEF IsCopy
    <3> QED BY <2>1, <3>1, <3>2, <3>3, <3>4, <3>5, RankedIsTop
  <2> QED BY <2>2, <2>4, <2>5, <2>6
<1> QED BY <1>1, ReportInvariant, PTL

(* The ports that the property and the code count are the same. *)
LEMMA ScannersAre ==
  ASSUME copy \in Copies, NEW side
  PROVE  Scanners(side) =
           {a \in ToSet(copy.lan) : copy.addrs[a].internal /\
              Cardinality({r.rport : r \in {r \in Range(copy.streams) : r[side] = a}} \cap WatchedPorts)
                > SuspiciousPorts}
<1>1. ToSet(copy.lan) \subseteq DOMAIN copy.addrs
  BY PartOrdered
<1>2. ASSUME NEW a
      PROVE  {r.rport : r \in {r \in Range(copy.streams) : r[side] = a}} = Marked(a, side)
  <2>1. Range(copy.streams) = {copy.streams[s] : s \in DOMAIN copy.streams}
    BY DEF Range
  <2> QED BY <2>1 DEF Marked
<1>3. ASSUME NEW a \in DOMAIN copy.addrs
      PROVE  count_bits16(_set_port_bits(side))[a] =
               Cardinality(IF copy.addrs[a].internal THEN Marked(a, side) \cap WatchedPorts ELSE {})
  BY DEF count_bits16, _set_port_bits
<1>4. SuspiciousPorts \in Nat /\ Cardinality({}) = 0
  BY ReportAssumption, FS_EmptySet
<1>5. ASSUME NEW a \in DOMAIN copy.addrs
      PROVE  count_bits16(_set_port_bits(side))[a] > SuspiciousPorts <=>
               copy.addrs[a].internal /\ Cardinality(Marked(a, side) \cap WatchedPorts) > SuspiciousPorts
  <2>1. CASE copy.addrs[a].internal
    BY <1>3, <2>1
  <2>2. CASE ~copy.addrs[a].internal
    <3>1. count_bits16(_set_port_bits(side))[a] = 0
      BY <1>3, <1>4, <2>2
    <3>2. ~(0 > SuspiciousPorts)
      BY <1>4
    <3> QED BY <2>2, <3>1, <3>2
  <2> QED BY <2>1, <2>2
<1>6. Scanners(side) = {a \in ToSet(copy.lan) : copy.addrs[a].internal /\
                          Cardinality(Marked(a, side) \cap WatchedPorts) > SuspiciousPorts}
  BY <1>1, <1>5 DEF Scanners
<1> QED BY <1>2, <1>6

(* A section of suspicious addresses that is not full has all of them. *)
LEMMA ScannersListed ==
  ASSUME ReportInv, pc = "close", NEW by \in {"#P>", "#P<"},
         NEW side, side = IF by = "#P>" THEN "idx_left" ELSE "idx_right",
         Cardinality(Scanners(side)) <= TopAddrs
  PROVE  {stats[p].iid : p \in Places(Section("TADR", by, FLOW_TYPE_INTERNAL))}
           = {copy.addrs[a].iid : a \in Scanners(side)}
<1>1. copy \in Copies /\ \A sec \in Sections : Ranked(stats, sec)
  BY PeriodEnds
<1>2. PICK sec : sec = Section("TADR", by, FLOW_TYPE_INTERNAL)
  OBVIOUS
<1>3. /\ sec \in Sections /\ sec.kind = "TADR" /\ Entries(sec) = Scanners(side)
      /\ NumTop(sec) = TopAddrs
  BY <1>2, ScannerSection
<1>4. PICK U : U = Scanners(side)
  OBVIOUS
<1>5. PICK s \in Seq(U), K \in Nat, off \in Nat :
        /\ Orders(s, U, Value(sec))
        /\ K <= Len(s) /\ K <= TopAddrs /\ (K = TopAddrs \/ K = Len(s))
        /\ Places(sec) = off + 1 .. off + K
        /\ \A i \in 1 .. K : stats[off + i] = StatLine(copy, sec, i - 1, s[i])
  BY <1>1, <1>3, <1>4, RankedLines
<1>6. PICK L \in Nat : L = Len(s) /\ DOMAIN s = 1 .. L
  OBVIOUS
<1>7. Cardinality(U) = L
  BY <1>5, <1>6, OrdersCount
<1>8. L <= TopAddrs
  BY <1>4, <1>7
<1>9. PICK n \in Nat : n = TopAddrs
  BY <1>3, SectionFacts
<1>10. K = L
  BY <1>5, <1>6, <1>8, <1>9
<1>11. ASSUME NEW i \in 1 .. L PROVE off + i \in Places(sec) /\ stats[off + i].iid = copy.addrs[s[i]].iid
  <2>1. off + i \in off + 1 .. off + K
    BY <1>10
  <2>2. stats[off + i] = StatLine(copy, sec, i - 1, s[i])
    BY <1>5, <1>10
  <2> QED BY <1>3, <1>5, <2>1, <2>2, StatLineFields
<1>12. ASSUME NEW p \in Places(sec) PROVE \E a \in U : stats[p].iid = copy.addrs[a].iid
  <2>1. p \in off + 1 .. off + L
    BY <1>5, <1>10
  <2>2. PICK i \in 1 .. L : off + i = p
    <3>1. p - off \in 1 .. L /\ off + (p - off) = p
      BY <2>1
    <3> QED BY <3>1
  <2>3. s[i] \in U
    BY <1>5, <1>6
  <2> QED BY <1>11, <2>2, <2>3
<1>13. ASSUME NEW a \in U PROVE \E p \in Places(sec) : stats[p].iid = copy.addrs[a].iid
  <2>1. PICK i \in 1 .. L : s[i] = a
    BY <1>5, <1>6 DEF Orders
  <2> QED BY <1>11, <2>1
<1>14. {stats[p].iid : p \in Places(sec)} = {copy.addrs[a].iid : a \in U}
  BY <1>12, <1>13
<1> QED BY <1>2, <1>4, <1>14

(* An internal address is reported as a scanner (as a server of many ports)
   exactly when its streams of this minute lead to more watched ports than the
   limit, if the section has room. *)
THEOREM ScannersCorrect == Spec => []ScannersFound
<1>1. ReportInv => ScannersFound
  <2> SUFFICES ASSUME ReportInv, pc = "close" PROVE ScannersFound
    BY DEF ScannersFound
  <2>1. copy \in Copies
    BY PeriodEnds
  <2> DEFINE Many(side) ==
               {a \in ToSet(copy.lan) : copy.addrs[a].internal /\
                  Cardinality({r.rport : r \in {r \in Range(copy.streams) : r[side] = a}} \cap WatchedPorts)
                    > SuspiciousPorts}
             Listed(sortby) == {stats[p].iid : p \in Places(Section("TADR", sortby, FLOW_TYPE_INTERNAL))}
  <2>2. Scanners("idx_left") = Many("idx_left") /\ Scanners("idx_right") = Many("idx_right")
    BY <2>1, ScannersAre
  <2>3. Cardinality(Scanners("idx_left")) <= TopAddrs =>
          Listed("#P>") = {copy.addrs[a].iid : a \in Scanners("idx_left")}
    BY ScannersListed
  <2>4. Cardinality(Scanners("idx_right")) <= TopAddrs =>
          Listed("#P<") = {copy.addrs[a].iid : a \in Scanners("idx_right")}
    BY ScannersListed
  <2>5. /\ Cardinality(Many("idx_left")) <= TopAddrs =>
             Listed("#P>") = {copy.addrs[a].iid : a \in Many("idx_left")}
        /\ Cardinality(Many("idx_right")) <= TopAddrs =>
             Listed("#P<") = {copy.addrs[a].iid : a \in Many("idx_right")}
    <3> HIDE DEF Many, Listed
    <3> QED BY <2>2, <2>3, <2>4
  <2> QED BY <2>5, Zenon DEF ScannersFound
<1> QED BY <1>1, ReportInvariant, PTL
=============================================================================
