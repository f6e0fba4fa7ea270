--------------------------- MODULE HashtableProofs ---------------------------
(***************************************************************************)
(* The hash table for every set of keys and values, every hash function    *)
(* and every ratio: its structure, its ownership of keys and values, and   *)
(* that callers see a map.                                                 *)
(***************************************************************************)
EXTENDS Hashtable, FiniteSetTheorems, SequenceTheorems, WellFoundedInduction, TLAPS

(* Min is well defined on a non-empty set of naturals (least number principle). *)
LEMMA MinNat ==
  ASSUME NEW S, S \subseteq Nat, S # {}
  PROVE  /\ Min(S) \in S
         /\ \A y \in S : Min(S) <= y
<1>1. \E x \in S : \A y \in S : ~(<<y, x>> \in OpToRel(<, Nat))
  BY WFMin, NatLessThanWellFounded
<1>2. OpToRel(<, Nat) = {ss \in Nat \X Nat : ss[1] < ss[2]}
  BY Zenon DEF OpToRel
<1>3. \E x \in S : \A y \in S : ~(<<y, x>> \in {ss \in Nat \X Nat : ss[1] < ss[2]})
  BY <1>1, <1>2, Zenon
<1>4. PICK x \in S : \A y \in S : ~(<<y, x>> \in {ss \in Nat \X Nat : ss[1] < ss[2]})
  BY <1>3
<1>5. ASSUME NEW y \in S PROVE x <= y
  <2>1. x \in Nat /\ y \in Nat
    OBVIOUS
  <2>2. <<y, x>> \in Nat \X Nat /\ <<y, x>>[1] = y /\ <<y, x>>[2] = x
    BY <2>1
  <2>3. ~(y < x)
    BY <1>4, <2>2, Zenon
  <2> QED BY <2>1, <2>3
<1>6. \E m \in S : \A y \in S : m <= y
  BY <1>5
<1> QED BY <1>6, Zenon DEF Min

(* Induction along the steps 1 .. N of a loop, for a set S of step numbers. *)
LEMMA StepInduction ==
  ASSUME NEW N \in Nat, NEW S, 0 \in S,
         \A i \in 1 .. N : i - 1 \in S => i \in S
  PROVE  0 .. N \subseteq S
<1> SUFFICES ASSUME (0 .. N) \ S # {} PROVE FALSE
  OBVIOUS
<1> DEFINE D == (0 .. N) \ S
<1>1. D \subseteq Nat /\ D # {}
  OBVIOUS
<1>2. Min(D) \in D /\ \A y \in D : Min(D) <= y
  BY <1>1, MinNat
<1>3. PICK m \in D : \A y \in D : m <= y
  BY <1>2
<1>4. m \in 1 .. N /\ m - 1 \in 0 .. N /\ ~(m <= m - 1)
  BY <1>3
<1>5. m - 1 \notin D
  BY <1>3, <1>4
<1> QED BY <1>3, <1>4, <1>5

(* The runs of a loop of N steps, each of which makes a new state in T of the
   one before. *)
LoopRuns(N, T, base, step) ==
  {f \in [0 .. N -> T] : f[0] = base /\ \A i \in 1 .. N : f[i] = step[<<i, f[i - 1]>>]}

(* A loop has a run.  The recursive functions of the model are such runs. *)
LEMMA LoopRunExists ==
  ASSUME NEW N \in Nat, NEW T, NEW base \in T, NEW step \in [(1 .. N) \X T -> T]
  PROVE  LoopRuns(N, T, base, step) # {}
<1> DEFINE Runs(m) == {f \in [0 .. m -> T] :
                         f[0] = base /\ \A i \in 1 .. m : f[i] = step[<<i, f[i - 1]>>]}
           S == {m \in 0 .. N : Runs(m) # {}}
<1>1. 0 \in S
  <2>1. [i \in 0 .. 0 |-> base] \in Runs(0)
    OBVIOUS
  <2> QED BY <2>1
<1>2. ASSUME NEW m \in 1 .. N, m - 1 \in S PROVE m \in S
  <2>1. PICK f : f \in Runs(m - 1)
    BY <1>2
  <2>2. f \in [0 .. m - 1 -> T] /\ f[0] = base /\ \A i \in 1 .. m - 1 : f[i] = step[<<i, f[i - 1]>>]
    BY <2>1
  <2>3. f[m - 1] \in T
    BY <2>2
  <2>4. step[<<m, f[m - 1]>>] \in T
    BY <2>3
  <2> DEFINE g == [i \in 0 .. m |-> IF i = m THEN step[<<m, f[m - 1]>>] ELSE f[i]]
  <2>5. g \in [0 .. m -> T] /\ g[0] = base
    BY <2>2, <2>4
  <2>6. ASSUME NEW i \in 1 .. m PROVE g[i] = step[<<i, g[i - 1]>>]
    <3>1. g[i - 1] = f[i - 1]
      OBVIOUS
    <3>2. CASE i = m
      <4>1. g[m] = step[<<m, f[m - 1]>>]
        OBVIOUS
      <4> HIDE DEF g
      <4> QED BY <3>1, <3>2, <4>1, Zenon
    <3>3. CASE i # m
      <4>1. i \in 1 .. m - 1 /\ g[i] = f[i]
        BY <3>3
      <4> QED BY <2>2, <3>1, <4>1
    <3> QED BY <3>2, <3>3
  <2> HIDE DEF g
  <2>7. g \in Runs(m)
    BY <2>5, <2>6
  <2> HIDE DEF Runs
  <2> QED BY <2>7
<1>3. N \in S
  <2> HIDE DEF S
  <2>1. 0 .. N \subseteq S
    BY <1>1, <1>2, StepInduction
  <2> QED BY <2>1
<1> QED BY <1>3 DEF LoopRuns

-----------------------------------------------------------------------------
Pair == [key : KeyPtrs, value : ValuePtrs]
Arrays(n) == [0 .. n - 1 -> Seq(Pair)]

(* A pair before a chain. *)
LEMMA PairBefore ==
  ASSUME NEW T, NEW s \in Seq(T), NEW p \in T
  PROVE  /\ <<p>> \o s \in Seq(T)
         /\ Len(<<p>> \o s) = Len(s) + 1
         /\ (<<p>> \o s)[1] = p
         /\ \A i \in 2 .. Len(s) + 1 : (<<p>> \o s)[i] = s[i - 1]
OBVIOUS

(* The bucket of a pair is a bucket. *)
LEMMA HomeInRange ==
  ASSUME NEW n \in Nat, n > 0, NEW p \in Pair
  PROVE  HashOf(Content(p.key)) % n \in 0 .. n - 1
<1>1. HashOf(Content(p.key)) \in Nat
  BY HashtableAssumption DEF Pair
<1>2. \A x \in Nat : x % n \in 0 .. n - 1
  BY Z3
<1> QED BY <1>1, <1>2

(* One pair linked: the chain of its bucket, and no other, gets longer. *)
LEMMA LinkType ==
  ASSUME NEW n \in Nat, n > 0, NEW a \in Arrays(n), NEW p \in Pair
  PROVE  /\ Link(a, p, n) \in Arrays(n)
         /\ Link(a, p, n)[HashOf(Content(p.key)) % n] = <<p>> \o a[HashOf(Content(p.key)) % n]
         /\ \A b \in 0 .. n - 1 : b # HashOf(Content(p.key)) % n => Link(a, p, n)[b] = a[b]
<1>1. PICK h \in 0 .. n - 1 : h = HashOf(Content(p.key)) % n
  BY HomeInRange
<1>2. Link(a, p, n) = [a EXCEPT ![h] = <<p>> \o a[h]]
  BY <1>1 DEF Link
<1>3. a[h] \in Seq(Pair)
  BY DEF Arrays
<1>4. <<p>> \o a[h] \in Seq(Pair)
  BY <1>3, PairBefore
<1> QED BY <1>1, <1>2, <1>4 DEF Arrays

(* The recursive function of LinkChain is the run of its loop. *)
LEMMA LinkChainRuns ==
  ASSUME NEW n \in Nat, n > 0, NEW array \in Arrays(n), NEW chain \in Seq(Pair)
  PROVE  \E f \in [0 .. Len(chain) -> Arrays(n)] :
           /\ f[0] = array
           /\ \A i \in 1 .. Len(chain) : f[i] = Link(f[i - 1], chain[i], n)
           /\ LinkChain(array, chain, n) = f[Len(chain)]
<1> DEFINE N == Len(chain)
           Body(f) == [i \in 0 .. N |-> IF i = 0 THEN array ELSE Link(f[i - 1], chain[i], n)]
           run == CHOOSE f : f = Body(f)
           step == [x \in (1 .. N) \X Arrays(n) |-> Link(x[2], chain[x[1]], n)]
<1>1. LinkChain(array, chain, n) = run[N]
  BY DEF LinkChain
<1>2. step \in [(1 .. N) \X Arrays(n) -> Arrays(n)]
  <2>1. ASSUME NEW x \in (1 .. N) \X Arrays(n)
        PROVE  Link(x[2], chain[x[1]], n) \in Arrays(n)
    <3>1. x[2] \in Arrays(n) /\ chain[x[1]] \in Pair
      OBVIOUS
    <3> QED BY <3>1, LinkType
  <2> QED BY <2>1
<1>3. \A i \in 1 .. N, a \in Arrays(n) : step[<<i, a>>] = Link(a, chain[i], n)
  OBVIOUS
<1>4. N \in Nat
  OBVIOUS
<1> HIDE DEF step, N
<1>5. PICK g \in [0 .. N -> Arrays(n)] :
        g[0] = array /\ \A i \in 1 .. N : g[i] = step[<<i, g[i - 1]>>]
  <2>1. LoopRuns(N, Arrays(n), array, step) # {}
    BY <1>2, <1>4, LoopRunExists
  <2> QED BY <2>1 DEF LoopRuns
<1>6. \A i \in 1 .. N : g[i] = Link(g[i - 1], chain[i], n)
  <2> TAKE i \in 1 .. N
  <2>1. g[i - 1] \in Arrays(n)
    BY <1>4
  <2> QED BY <1>3, <1>5, <2>1
<1>7. g = Body(g)
  <2>1. \A i \in 0 .. N : g[i] = Body(g)[i]
    BY <1>4, <1>5, <1>6
  <2> QED BY <2>1
<1>8. run = Body(run)
  BY <1>7, Zenon
<1>9. /\ run \in [0 .. N -> Arrays(n)] /\ run[0] = array
      /\ \A i \in 1 .. N : run[i] = Link(run[i - 1], chain[i], n)
  <2>1. run[0] = array
    BY <1>4, <1>8
  <2>2. \A i \in 1 .. N : run[i] = Link(run[i - 1], chain[i], n)
    <3> TAKE i \in 1 .. N
    <3>1. i \in 0 .. N /\ i # 0
      BY <1>4
    <3>2. Body(run)[i] = Link(run[i - 1], chain[i], n)
      BY <3>1
    <3> QED BY <1>8, <3>2, Zenon
  <2> DEFINE S == {i \in 0 .. N : run[i] \in Arrays(n)}
  <2>3. 0 \in S
    BY <1>4, <2>1
  <2>4. ASSUME NEW i \in 1 .. N, i - 1 \in S PROVE i \in S
    <3>1. chain[i] \in Pair /\ i \in 0 .. N
      BY <1>4 DEF N
    <3>2. run[i - 1] \in Arrays(n)
      BY <2>4
    <3>3. run[i] = Link(run[i - 1], chain[i], n)
      BY <2>2
    <3> HIDE DEF run
    <3>4. run[i] \in Arrays(n)
      BY <3>1, <3>2, <3>3, LinkType
    <3> QED BY <3>1, <3>4
  <2>5. 0 .. N \subseteq S
    <3> HIDE DEF S, run
    <3> QED BY <1>4, <2>3, <2>4, StepInduction
  <2>6. DOMAIN run = 0 .. N /\ run = [i \in 0 .. N |-> run[i]]
    <3> HIDE DEF run
    <3> QED BY <1>8
  <2> HIDE DEF run
  <2> QED BY <2>1, <2>2, <2>5, <2>6
<1> HIDE DEF run
<1> QED BY <1>1, <1>9 DEF N

(* LinkChain keeps the number of buckets and the kind of entries. *)
LEMMA LinkChainType ==
  ASSUME NEW n \in Nat, n > 0, NEW array \in Arrays(n), NEW chain \in Seq(Pair)
  PROVE  LinkChain(array, chain, n) \in Arrays(n)
<1>1. PICK f \in [0 .. Len(chain) -> Arrays(n)] : LinkChain(array, chain, n) = f[Len(chain)]
  BY LinkChainRuns
<1> QED BY <1>1

EmptyArray(n) == [b \in 0 .. n - 1 |-> <<>>]

(* The recursive function of Relink is the run of its loop. *)
LEMMA RelinkRuns ==
  ASSUME NEW n \in Nat, n > 0, NEW t, t.numOfBuckets \in Nat,
         t.bucketArray \in Arrays(t.numOfBuckets)
  PROVE  \E f \in [0 .. t.numOfBuckets -> Arrays(n)] :
           /\ f[0] = EmptyArray(n)
           /\ \A i \in 1 .. t.numOfBuckets : f[i] = LinkChain(f[i - 1], t.bucketArray[i - 1], n)
           /\ Relink(t, n) = f[t.numOfBuckets]
<1> DEFINE N == t.numOfBuckets
           Body(f) == [i \in 0 .. N |-> IF i = 0 THEN EmptyArray(n)
                                        ELSE LinkChain(f[i - 1], t.bucketArray[i - 1], n)]
           run == CHOOSE f : f = Body(f)
           step == [x \in (1 .. N) \X Arrays(n) |-> LinkChain(x[2], t.bucketArray[x[1] - 1], n)]
<1>1. Relink(t, n) = run[N]
  BY DEF Relink, EmptyArray
<1>2. \A i \in 1 .. N : t.bucketArray[i - 1] \in Seq(Pair)
  BY DEF Arrays
<1>3. step \in [(1 .. N) \X Arrays(n) -> Arrays(n)]
  <2>1. ASSUME NEW x \in (1 .. N) \X Arrays(n)
        PROVE  LinkChain(x[2], t.bucketArray[x[1] - 1], n) \in Arrays(n)
    <3>1. x[2] \in Arrays(n) /\ t.bucketArray[x[1] - 1] \in Seq(Pair)
      BY <1>2
    <3> QED BY <3>1, LinkChainType
  <2> QED BY <2>1
<1>4. \A i \in 1 .. N, a \in Arrays(n) : step[<<i, a>>] = LinkChain(a, t.bucketArray[i - 1], n)
  OBVIOUS
<1>5. N \in Nat /\ EmptyArray(n) \in Arrays(n)
  BY DEF Arrays, EmptyArray
<1> HIDE DEF step, N
<1>6. PICK g \in [0 .. N -> Arrays(n)] :
        g[0] = EmptyArray(n) /\ \A i \in 1 .. N : g[i] = step[<<i, g[i - 1]>>]
  <2>1. LoopRuns(N, Arrays(n), EmptyArray(n), step) # {}
    BY <1>3, <1>5, LoopRunExists
  <2> QED BY <2>1 DEF LoopRuns
<1>7. \A i \in 1 .. N : g[i] = LinkChain(g[i - 1], t.bucketArray[i - 1], n)
  <2> TAKE i \in 1 .. N
  <2>1. g[i - 1] \in Arrays(n)
    BY <1>5
  <2> QED BY <1>4, <1>6, <2>1
<1>8. g = Body(g)
  <2>1. \A i \in 0 .. N : g[i] = Body(g)[i]
    BY <1>5, <1>6, <1>7
  <2> QED BY <2>1
<1>9. run = Body(run)
  BY <1>8, Zenon
<1>10. /\ run \in [0 .. N -> Arrays(n)] /\ run[0] = EmptyArray(n)
       /\ \A i \in 1 .. N : run[i] = LinkChain(run[i - 1], t.bucketArray[i - 1], n)
  <2>1. run[0] = EmptyArray(n)
    <3>1. Body(run)[0] = EmptyArray(n)
      BY <1>5
    <3> QED BY <1>9, <3>1, Zenon
  <2>2. \A i \in 1 .. N : run[i] = LinkChain(run[i - 1], t.bucketArray[i - 1], n)
    <3> TAKE i \in 1 .. N
    <3>1. i \in 0 .. N /\ i # 0
      BY <1>5
    <3>2. Body(run)[i] = LinkChain(run[i - 1], t.bucketArray[i - 1], n)
      BY <3>1
    <3> QED BY <1>9, <3>2, Zenon
  <2> DEFINE S == {i \in 0 .. N : run[i] \in Arrays(n)}
  <2>3. 0 \in S
    BY <1>5, <2>1
  <2>4. ASSUME NEW i \in 1 .. N, i - 1 \in S PROVE i \in S
    <3>1. t.bucketArray[i - 1] \in Seq(Pair) /\ i \in 0 .. N
      BY <1>2, <1>5 DEF N
    <3>2. run[i - 1] \in Arrays(n)
      BY <2>4
    <3>3. run[i] = LinkChain(run[i - 1], t.bucketArray[i - 1], n)
      BY <2>2
    <3> HIDE DEF run
    <3>4. run[i] \in Arrays(n)
      BY <3>1, <3>2, <3>3, LinkChainType
    <3> QED BY <3>1, <3>4
  <2>5. 0 .. N \subseteq S
    <3> HIDE DEF S, run
    <3> QED BY <1>5, <2>3, <2>4, StepInduction
  <2>6. DOMAIN run = 0 .. N /\ run = [i \in 0 .. N |-> run[i]]
    <3> HIDE DEF run
    <3> QED BY <1>9
  <2> HIDE DEF run
  <2> QED BY <2>1, <2>2, <2>5, <2>6
<1> HIDE DEF run
<1> QED BY <1>1, <1>10 DEF N
-----------------------------------------------------------------------------
(***************************************************************************)
(* A bucket array with n buckets that has exactly the pairs S: every pair  *)
(* in its bucket, and no key twice.                                        *)
(***************************************************************************)
Home(p, n) == HashOf(Content(p.key)) % n

Sound(a, n, S) ==
  /\ a \in Arrays(n)
  /\ \A b \in 0 .. n - 1 : \A i \in 1 .. Len(a[b]) :
       a[b][i] \in S /\ b = Home(a[b][i], n)
  /\ \A b \in 0 .. n - 1 : \A i, j \in 1 .. Len(a[b]) :
       Content(a[b][i].key) = Content(a[b][j].key) => i = j
  /\ \A p \in S : \E b \in 0 .. n - 1 : \E i \in 1 .. Len(a[b]) : a[b][i] = p

(* Linking a pair with a key that is not there. *)
LEMMA LinkSound ==
  ASSUME NEW n \in Nat, n > 0, NEW a, NEW S, Sound(a, n, S), NEW p \in Pair,
         \A q \in S : Content(q.key) # Content(p.key)
  PROVE  Sound(Link(a, p, n), n, S \cup {p})
<1> DEFINE c == Link(a, p, n)
<1>1. a \in Arrays(n)
  BY DEF Sound
<1>2. PICK h \in 0 .. n - 1 : h = Home(p, n)
  BY HomeInRange DEF Home
<1>3. c \in Arrays(n) /\ c[h] = <<p>> \o a[h] /\ \A b \in 0 .. n - 1 : b # h => c[b] = a[b]
  BY <1>1, <1>2, LinkType DEF Home
<1>4. \A b \in 0 .. n - 1 : a[b] \in Seq(Pair)
  BY <1>1 DEF Arrays
<1>5. /\ Len(c[h]) = Len(a[h]) + 1 /\ c[h][1] = p
      /\ \A i \in 2 .. Len(a[h]) + 1 : c[h][i] = a[h][i - 1]
  BY <1>3, <1>4, PairBefore
<1> HIDE DEF c
<1>6. Len(a[h]) \in Nat
  BY <1>4
<1>7. ASSUME NEW i \in 1 .. Len(c[h]), i # 1
      PROVE  i - 1 \in 1 .. Len(a[h]) /\ c[h][i] = a[h][i - 1]
  BY <1>5, <1>6, <1>7
<1>8. ASSUME NEW b \in 0 .. n - 1, NEW i \in 1 .. Len(c[b])
      PROVE  c[b][i] \in S \cup {p} /\ b = Home(c[b][i], n)
  <2>1. CASE b # h
    BY <1>3, <2>1 DEF Sound
  <2>2. CASE b = h /\ i = 1
    BY <1>2, <1>5, <2>2
  <2>3. CASE b = h /\ i # 1
    BY <1>7, <2>3 DEF Sound
  <2> QED BY <2>1, <2>2, <2>3
<1>9. ASSUME NEW b \in 0 .. n - 1, NEW i \in 1 .. Len(c[b]), NEW j \in 1 .. Len(c[b]),
             Content(c[b][i].key) = Content(c[b][j].key)
      PROVE  i = j
  <2>1. CASE b # h
    BY <1>3, <1>9, <2>1 DEF Sound
  <2>2. CASE b = h
    <3>1. ASSUME NEW m \in 1 .. Len(c[h]), m # 1 PROVE Content(c[h][m].key) # Content(p.key)
      <4>1. c[h][m] = a[h][m - 1] /\ a[h][m - 1] \in S
        BY <1>7, <3>1 DEF Sound
      <4> QED BY <4>1
    <3>2. CASE i = 1 \/ j = 1
      BY <1>5, <1>9, <2>2, <3>1, <3>2
    <3>3. CASE i # 1 /\ j # 1
      <4>1. /\ i - 1 \in 1 .. Len(a[h]) /\ c[h][i] = a[h][i - 1]
            /\ j - 1 \in 1 .. Len(a[h]) /\ c[h][j] = a[h][j - 1]
        BY <1>7, <2>2, <3>3
      <4>2. i - 1 = j - 1
        BY <1>9, <2>2, <4>1 DEF Sound
      <4>3. i \in Int /\ j \in Int
        BY <1>5, <1>6, <2>2
      <4> QED BY <4>2, <4>3
    <3> QED BY <3>2, <3>3
  <2> QED BY <2>1, <2>2
<1>10. ASSUME NEW q \in S \cup {p}
       PROVE  \E b \in 0 .. n - 1 : \E i \in 1 .. Len(c[b]) : c[b][i] = q
  <2>1. CASE q = p
    <3>1. 1 \in 1 .. Len(c[h]) /\ c[h][1] = q
      BY <1>5, <1>6, <2>1
    <3> QED BY <3>1
  <2>2. CASE q \in S
    <3>1. PICK b \in 0 .. n - 1 : \E i \in 1 .. Len(a[b]) : a[b][i] = q
      BY <2>2 DEF Sound
    <3>2. PICK i \in 1 .. Len(a[b]) : a[b][i] = q
      BY <3>1
    <3>3. CASE b # h
      BY <1>3, <3>2, <3>3
    <3>4. CASE b = h
      <4>1. i \in Nat /\ i + 1 \in 2 .. Len(a[h]) + 1 /\ i + 1 \in 1 .. Len(c[h]) /\ (i + 1) - 1 = i
        BY <1>5, <1>6, <3>4
      <4>2. c[h][i + 1] = q
        BY <1>5, <3>2, <3>4, <4>1
      <4> QED BY <4>1, <4>2
    <3> QED BY <3>3, <3>4
  <2> QED BY <2>1, <2>2
<1> QED BY <1>3, <1>8, <1>9, <1>10 DEF Sound, c

(* The pairs of a chain linked one after the other. *)
LEMMA LinkChainSound ==
  ASSUME NEW n \in Nat, n > 0, NEW a, NEW S, Sound(a, n, S), NEW chain \in Seq(Pair),
         \A i, j \in 1 .. Len(chain) : Content(chain[i].key) = Content(chain[j].key) => i = j,
         \A q \in S : \A i \in 1 .. Len(chain) : Content(q.key) # Content(chain[i].key)
  PROVE  Sound(LinkChain(a, chain, n), n, S \cup {chain[i] : i \in 1 .. Len(chain)})
<1> DEFINE N == Len(chain)
           After(i) == S \cup {chain[j] : j \in 1 .. i}
<1>1. N \in Nat /\ a \in Arrays(n)
  BY DEF Sound
<1>2. PICK f \in [0 .. N -> Arrays(n)] :
        /\ f[0] = a
        /\ \A i \in 1 .. N : f[i] = Link(f[i - 1], chain[i], n)
        /\ LinkChain(a, chain, n) = f[N]
  BY <1>1, LinkChainRuns
<1> DEFINE D == {i \in 0 .. N : Sound(f[i], n, After(i))}
<1>3. 0 \in D
  <2>1. After(0) = S
    OBVIOUS
  <2> HIDE DEF After
  <2> QED BY <1>1, <1>2, <2>1
<1>4. ASSUME NEW i \in 1 .. N, i - 1 \in D PROVE i \in D
  <2>1. Sound(f[i - 1], n, After(i - 1)) /\ chain[i] \in Pair
    BY <1>4
  <2>2. After(i) = After(i - 1) \cup {chain[i]}
    <3>1. \A j : j \in 1 .. i <=> j \in 1 .. i - 1 \/ j = i
      BY <1>1
    <3> QED BY <3>1
  <2>3. ASSUME NEW q \in After(i - 1) PROVE Content(q.key) # Content(chain[i].key)
    <3>1. CASE q \in S
      BY <3>1
    <3>2. CASE q \notin S
      <4>1. PICK j \in 1 .. i - 1 : q = chain[j]
        BY <3>2
      <4>2. j \in 1 .. N /\ j # i
        BY <1>1
      <4> QED BY <4>1, <4>2
    <3> QED BY <3>1, <3>2
  <2> HIDE DEF After
  <2>4. Sound(Link(f[i - 1], chain[i], n), n, After(i - 1) \cup {chain[i]})
    BY <2>1, <2>3, LinkSound
  <2>5. i \in 0 .. N
    BY <1>1
  <2> QED BY <1>2, <2>2, <2>4, <2>5
<1>5. 0 .. N \subseteq D
  <2> HIDE DEF D
  <2> QED BY <1>1, <1>3, <1>4, StepInduction
<1>6. N \in D
  BY <1>1, <1>5
<1> QED BY <1>2, <1>6

(* HashTableRehash moves every pair to its new bucket and loses none. *)
LEMMA RelinkSound ==
  ASSUME NEW n \in Nat, n > 0, NEW t, NEW S, t.numOfBuckets \in Nat,
         Sound(t.bucketArray, t.numOfBuckets, S)
  PROVE  Sound(Relink(t, n), n, S)
<1> DEFINE N == t.numOfBuckets
           a == t.bucketArray
           Before(i) == {p \in S : Home(p, N) < i}
<1>1. N \in Nat /\ a \in Arrays(N) /\ \A b \in 0 .. N - 1 : a[b] \in Seq(Pair)
  BY DEF Sound, Arrays
<1>2. PICK f \in [0 .. N -> Arrays(n)] :
        /\ f[0] = EmptyArray(n)
        /\ \A i \in 1 .. N : f[i] = LinkChain(f[i - 1], a[i - 1], n)
        /\ Relink(t, n) = f[N]
  BY <1>1, RelinkRuns
<1> HIDE DEF a, N
<1>3. Sound(a, N, S)
  BY DEF a, N
<1>4. ASSUME NEW p \in S PROVE Home(p, N) \in 0 .. N - 1 /\ \E i \in 1 .. Len(a[Home(p, N)]) : a[Home(p, N)][i] = p
  <2>1. PICK b \in 0 .. N - 1 : \E i \in 1 .. Len(a[b]) : a[b][i] = p
    BY <1>3 DEF Sound
  <2>2. b = Home(p, N)
    BY <1>3, <2>1 DEF Sound
  <2> QED BY <2>1, <2>2
<1> DEFINE D == {i \in 0 .. N : Sound(f[i], n, Before(i))}
<1>5. 0 \in D
  <2>1. Before(0) = {}
    BY <1>1, <1>4
  <2>2. Sound(EmptyArray(n), n, {})
    BY DEF Sound, EmptyArray, Arrays
  <2> HIDE DEF Before
  <2>3. Sound(f[0], n, Before(0))
    BY <1>2, <2>1, <2>2, Zenon
  <2>4. 0 \in 0 .. N
    BY <1>1
  <2> QED BY <2>3, <2>4
<1>6. ASSUME NEW i \in 1 .. N, i - 1 \in D PROVE i \in D
  <2>1. Sound(f[i - 1], n, Before(i - 1)) /\ a[i - 1] \in Seq(Pair) /\ i - 1 \in 0 .. N - 1
    BY <1>1, <1>6
  <2>2. PICK chain \in Seq(Pair) : chain = a[i - 1]
    BY <2>1
  <2>3. \A j \in 1 .. Len(chain) : chain[j] \in S /\ Home(chain[j], N) = i - 1
    BY <1>3, <2>1, <2>2 DEF Sound
  <2>4. \A j, k \in 1 .. Len(chain) : Content(chain[j].key) = Content(chain[k].key) => j = k
    BY <1>3, <2>1, <2>2 DEF Sound
  <2>5. Before(i) = Before(i - 1) \cup {chain[j] : j \in 1 .. Len(chain)}
    <3>1. ASSUME NEW p \in S
          PROVE  p \in Before(i) <=> (p \in Before(i - 1) \/ \E j \in 1 .. Len(chain) : chain[j] = p)
      <4>1. Home(p, N) \in 0 .. N - 1 /\ \E j \in 1 .. Len(a[Home(p, N)]) : a[Home(p, N)][j] = p
        BY <1>4
      <4>2. CASE Home(p, N) = i - 1
        BY <1>1, <2>2, <4>1, <4>2
      <4>3. CASE Home(p, N) # i - 1
        <5>1. Home(p, N) < i <=> Home(p, N) < i - 1
          BY <1>1, <4>1, <4>3
        <5>2. ~ \E j \in 1 .. Len(chain) : chain[j] = p
          BY <2>3, <4>3
        <5> QED BY <5>1, <5>2
      <4> QED BY <4>2, <4>3
    <3> QED BY <2>3, <3>1
  <2>6. ASSUME NEW q \in Before(i - 1), NEW j \in 1 .. Len(chain)
        PROVE  Content(q.key) # Content(chain[j].key)
    <3>1. Home(q, N) # Home(chain[j], N)
      <4>1. Home(q, N) \in 0 .. N - 1 /\ Home(q, N) < i - 1
        BY <1>4
      <4> QED BY <1>1, <2>3, <4>1
    <3> QED BY <3>1 DEF Home
  <2> HIDE DEF Before
  <2>7. Sound(LinkChain(f[i - 1], chain, n), n, Before(i - 1) \cup {chain[j] : j \in 1 .. Len(chain)})
    BY <2>1, <2>4, <2>6, LinkChainSound
  <2>8. i \in 0 .. N
    BY <1>1
  <2> QED BY <1>2, <2>2, <2>5, <2>7, <2>8
<1>7. 0 .. N \subseteq D
  <2> HIDE DEF D
  <2> QED BY <1>1, <1>5, <1>6, StepInduction
<1>8. N \in D
  BY <1>1, <1>7
<1>9. Before(N) = S
  BY <1>1, <1>4
<1> HIDE DEF Before
<1> QED BY <1>2, <1>8, <1>9

(* The pairs of a sound array, and that no two of them have one key. *)
LEMMA SoundPairs ==
  ASSUME NEW n \in Nat, NEW a, NEW S, Sound(a, n, S)
  PROVE  /\ UNION {ToSet(a[b]) : b \in DOMAIN a} = S
         /\ \A p, q \in S : Content(p.key) = Content(q.key) => p = q
         /\ S \subseteq Pair
<1>1. DOMAIN a = 0 .. n - 1 /\ \A b \in 0 .. n - 1 : a[b] \in Seq(Pair)
  BY DEF Sound, Arrays
<1>2. \A b \in 0 .. n - 1 : DOMAIN a[b] = 1 .. Len(a[b])
  BY <1>1
<1>3. UNION {ToSet(a[b]) : b \in DOMAIN a} = S
  <2>1. ASSUME NEW p \in S PROVE p \in UNION {ToSet(a[b]) : b \in DOMAIN a}
    <3>1. PICK b \in 0 .. n - 1 : \E i \in 1 .. Len(a[b]) : a[b][i] = p
      BY DEF Sound
    <3>2. p \in ToSet(a[b])
      BY <1>2, <3>1 DEF ToSet
    <3> QED BY <1>1, <3>2
  <2>2. ASSUME NEW b \in DOMAIN a, NEW p \in ToSet(a[b]) PROVE p \in S
    BY <1>1, <1>2 DEF Sound, ToSet
  <2> QED BY <2>1, <2>2
<1>4. ASSUME NEW p \in S, NEW q \in S, Content(p.key) = Content(q.key) PROVE p = q
  <2>1. PICK b \in 0 .. n - 1 : \E i \in 1 .. Len(a[b]) : a[b][i] = p
    BY DEF Sound
  <2>2. PICK i \in 1 .. Len(a[b]) : a[b][i] = p
    BY <2>1
  <2>3. PICK d \in 0 .. n - 1 : \E j \in 1 .. Len(a[d]) : a[d][j] = q
    BY DEF Sound
  <2>4. PICK j \in 1 .. Len(a[d]) : a[d][j] = q
    BY <2>3
  <2>5. b = Home(p, n) /\ d = Home(q, n)
    BY <2>2, <2>4 DEF Sound
  <2>6. b = d
    BY <1>4, <2>5 DEF Home
  <2>7. i = j
    BY <1>4, <2>2, <2>4, <2>6 DEF Sound
  <2> QED BY <2>2, <2>4, <2>6, <2>7
<1>5. ASSUME NEW p \in S PROVE p \in Pair
  <2>1. PICK b \in 0 .. n - 1 : \E i \in 1 .. Len(a[b]) : a[b][i] = p
    BY DEF Sound
  <2> QED BY <1>1, <2>1
<1> QED BY <1>3, <1>4, <1>5

(* The pair of a key replaced where it is. *)
LEMMA ReplaceSound ==
  ASSUME NEW n \in Nat, NEW a, NEW S, Sound(a, n, S),
         NEW b \in 0 .. n - 1, NEW i \in 1 .. Len(a[b]), NEW p \in Pair,
         Content(p.key) = Content(a[b][i].key)
  PROVE  Sound([a EXCEPT ![b][i] = p], n, (S \ {a[b][i]}) \cup {p})
<1> DEFINE c == [a EXCEPT ![b][i] = p]
           T == (S \ {a[b][i]}) \cup {p}
<1>1. a \in Arrays(n) /\ \A d \in 0 .. n - 1 : a[d] \in Seq(Pair)
  BY DEF Sound, Arrays
<1>2. PICK s \in Seq(Pair) : s = a[b]
  BY <1>1
<1>3. /\ [s EXCEPT ![i] = p] \in Seq(Pair) /\ Len([s EXCEPT ![i] = p]) = Len(s)
      /\ [s EXCEPT ![i] = p][i] = p
      /\ \A j \in 1 .. Len(s) : j # i => [s EXCEPT ![i] = p][j] = s[j]
  BY <1>2, ExceptSeq
<1>4. c = [a EXCEPT ![b] = [s EXCEPT ![i] = p]]
  BY <1>2
<1>5. c \in Arrays(n) /\ c[b] = [s EXCEPT ![i] = p] /\ \A d \in 0 .. n - 1 : d # b => c[d] = a[d]
  BY <1>1, <1>3, <1>4 DEF Arrays
<1> HIDE DEF c
<1>6. \A d \in 0 .. n - 1 : Len(c[d]) = Len(a[d])
  BY <1>2, <1>3, <1>5
<1>7. ASSUME NEW d \in 0 .. n - 1, NEW j \in 1 .. Len(a[d])
      PROVE  c[d][j] = IF d = b /\ j = i THEN p ELSE a[d][j]
  BY <1>2, <1>3, <1>5
<1>8. ASSUME NEW d \in 0 .. n - 1, NEW j \in 1 .. Len(a[d])
      PROVE  Content(c[d][j].key) = Content(a[d][j].key)
  BY <1>7
<1>9. ASSUME NEW d \in 0 .. n - 1, NEW j \in 1 .. Len(c[d])
      PROVE  c[d][j] \in T /\ d = Home(c[d][j], n)
  <2>1. j \in 1 .. Len(a[d])
    BY <1>6
  <2>2. a[d][j] \in S /\ d = Home(a[d][j], n)
    BY <2>1 DEF Sound
  <2>3. d = Home(c[d][j], n)
    BY <1>8, <2>1, <2>2 DEF Home
  <2>4. CASE d = b /\ j = i
    BY <1>7, <2>1, <2>3, <2>4
  <2>5. CASE ~(d = b /\ j = i)
    <3>1. a[d][j] # a[b][i]
      <4>1. CASE d = b
        BY <2>1, <2>5, <4>1 DEF Sound
      <4>2. CASE d # b
        BY <2>2, <4>2 DEF Sound
      <4> QED BY <4>1, <4>2
    <3> QED BY <1>7, <2>1, <2>2, <2>3, <2>5, <3>1
  <2> QED BY <2>4, <2>5
<1>10. ASSUME NEW d \in 0 .. n - 1, NEW j \in 1 .. Len(c[d]), NEW k \in 1 .. Len(c[d]),
              Content(c[d][j].key) = Content(c[d][k].key)
       PROVE  j = k
  <2>1. j \in 1 .. Len(a[d]) /\ k \in 1 .. Len(a[d])
    BY <1>6
  <2>2. Content(a[d][j].key) = Content(a[d][k].key)
    BY <1>8, <1>10, <2>1
  <2> QED BY <2>1, <2>2 DEF Sound
<1>11. ASSUME NEW q \in T
       PROVE  \E d \in 0 .. n - 1 : \E j \in 1 .. Len(c[d]) : c[d][j] = q
  <2>1. CASE q = p
    <3>1. i \in 1 .. Len(c[b]) /\ c[b][i] = q
      BY <1>6, <1>7, <2>1
    <3> QED BY <3>1
  <2>2. CASE q \in S /\ q # a[b][i]
    <3>1. PICK d \in 0 .. n - 1 : \E j \in 1 .. Len(a[d]) : a[d][j] = q
      BY <2>2 DEF Sound
    <3>2. PICK j \in 1 .. Len(a[d]) : a[d][j] = q
      BY <3>1
    <3>3. j \in 1 .. Len(c[d]) /\ c[d][j] = q
      BY <1>6, <1>7, <2>2, <3>2
    <3> QED BY <3>3
  <2> QED BY <2>1, <2>2
<1> QED BY <1>5, <1>9, <1>10, <1>11 DEF Sound, c

(* A sequence without the element at i. *)
LEMMA RemoveAtFacts ==
  ASSUME NEW T, NEW s \in Seq(T), NEW i \in 1 .. Len(s)
  PROVE  /\ RemoveAt(s, i) \in Seq(T)
         /\ Len(RemoveAt(s, i)) = Len(s) - 1
         /\ \A j \in 1 .. Len(s) - 1 :
              RemoveAt(s, i)[j] = IF j < i THEN s[j] ELSE s[j + 1]
<1> DEFINE l == SubSeq(s, 1, i - 1)
           r == SubSeq(s, i + 1, Len(s))
<1>1. /\ l \in Seq(T) /\ Len(l) = i - 1 /\ \A j \in 1 .. i - 1 : l[j] = s[j]
  OBVIOUS
<1>2. /\ r \in Seq(T) /\ Len(r) = Len(s) - i /\ \A j \in 1 .. Len(s) - i : r[j] = s[j + i]
  OBVIOUS
<1>3. RemoveAt(s, i) = l \o r
  BY DEF RemoveAt
<1> HIDE DEF l, r
<1>4. /\ l \o r \in Seq(T) /\ Len(l \o r) = Len(l) + Len(r)
      /\ \A j \in 1 .. Len(l) + Len(r) : (l \o r)[j] = IF j <= Len(l) THEN l[j] ELSE r[j - Len(l)]
  BY <1>1, <1>2, ConcatProperties
<1>5. Len(s) \in Nat /\ i \in Nat /\ i <= Len(s) /\ i >= 1
  OBVIOUS
<1>6. ASSUME NEW j \in 1 .. Len(s) - 1
      PROVE  (l \o r)[j] = IF j < i THEN s[j] ELSE s[j + 1]
  <2>1. j \in 1 .. Len(l) + Len(r) /\ j \in Nat
    BY <1>1, <1>2, <1>5
  <2>2. CASE j < i
    <3>1. j <= Len(l) /\ j \in 1 .. i - 1
      BY <1>1, <1>5, <2>1, <2>2
    <3> QED BY <1>1, <1>4, <2>1, <2>2, <3>1
  <2>3. CASE ~(j < i)
    <3>1. ~(j <= Len(l)) /\ j - Len(l) \in 1 .. Len(s) - i /\ (j - Len(l)) + i = j + 1
      BY <1>1, <1>5, <2>1, <2>3
    <3> QED BY <1>2, <1>4, <2>1, <2>3, <3>1
  <2> QED BY <2>2, <2>3
<1> QED BY <1>1, <1>2, <1>3, <1>4, <1>5, <1>6

(* A pair taken out of its chain. *)
LEMMA UnlinkSound ==
  ASSUME NEW n \in Nat, NEW a, NEW S, Sound(a, n, S),
         NEW b \in 0 .. n - 1, NEW i \in 1 .. Len(a[b])
  PROVE  Sound([a EXCEPT ![b] = RemoveAt(a[b], i)], n, S \ {a[b][i]})
<1> DEFINE c == [a EXCEPT ![b] = RemoveAt(a[b], i)]
           T == S \ {a[b][i]}
           Old(d, j) == IF d = b /\ j >= i THEN j + 1 ELSE j
<1>1. a \in Arrays(n) /\ \A d \in 0 .. n - 1 : a[d] \in Seq(Pair) /\ Len(a[d]) \in Nat
  BY DEF Sound, Arrays
<1>2. /\ RemoveAt(a[b], i) \in Seq(Pair) /\ Len(RemoveAt(a[b], i)) = Len(a[b]) - 1
      /\ \A j \in 1 .. Len(a[b]) - 1 :
           RemoveAt(a[b], i)[j] = IF j < i THEN a[b][j] ELSE a[b][j + 1]
  BY <1>1, RemoveAtFacts
<1>3. c \in Arrays(n) /\ c[b] = RemoveAt(a[b], i) /\ \A d \in 0 .. n - 1 : d # b => c[d] = a[d]
  BY <1>1, <1>2 DEF Arrays
<1> HIDE DEF c
<1>4. i \in Nat
  BY <1>1
<1>5. ASSUME NEW d \in 0 .. n - 1, NEW j \in 1 .. Len(c[d])
      PROVE  /\ Old(d, j) \in 1 .. Len(a[d]) /\ c[d][j] = a[d][Old(d, j)]
             /\ d = b => Old(d, j) # i
  <2>1. CASE d # b
    BY <1>3, <2>1
  <2>2. CASE d = b
    <3>1. j \in 1 .. Len(a[b]) - 1 /\ j \in Nat
      BY <1>1, <1>2, <1>3, <2>2
    <3>2. CASE j < i
      BY <1>1, <1>2, <1>3, <1>4, <2>2, <3>1, <3>2
    <3>3. CASE j >= i
      BY <1>1, <1>2, <1>3, <1>4, <2>2, <3>1, <3>3
    <3> QED BY <1>4, <3>1, <3>2, <3>3
  <2> QED BY <2>1, <2>2
<1>6. ASSUME NEW d \in 0 .. n - 1, NEW j \in 1 .. Len(c[d])
      PROVE  c[d][j] \in T /\ d = Home(c[d][j], n)
  <2> DEFINE m == Old(d, j)
  <2>1. m \in 1 .. Len(a[d]) /\ c[d][j] = a[d][m] /\ (d = b => m # i)
    BY <1>5
  <2> HIDE DEF m
  <2>2. a[d][m] \in S /\ d = Home(a[d][m], n)
    BY <2>1 DEF Sound
  <2>3. a[d][m] # a[b][i]
    <3>1. CASE d = b
      BY <2>1, <3>1 DEF Sound
    <3>2. CASE d # b
      BY <2>2, <3>2 DEF Sound
    <3> QED BY <3>1, <3>2
  <2> QED BY <2>1, <2>2, <2>3
<1>7. ASSUME NEW d \in 0 .. n - 1, NEW j \in 1 .. Len(c[d]), NEW k \in 1 .. Len(c[d]),
             Content(c[d][j].key) = Content(c[d][k].key)
      PROVE  j = k
  <2>1. /\ Old(d, j) \in 1 .. Len(a[d]) /\ c[d][j] = a[d][Old(d, j)]
        /\ Old(d, k) \in 1 .. Len(a[d]) /\ c[d][k] = a[d][Old(d, k)]
    BY <1>5
  <2>2. Old(d, j) = Old(d, k)
    <3> HIDE DEF Old
    <3> QED BY <1>7, <2>1 DEF Sound
  <2>3. j \in Nat /\ k \in Nat
    BY <1>1, <1>2, <1>3
  <2> QED BY <1>4, <2>2, <2>3
<1>8. ASSUME NEW q \in T
      PROVE  \E d \in 0 .. n - 1 : \E j \in 1 .. Len(c[d]) : c[d][j] = q
  <2>1. PICK d \in 0 .. n - 1 : \E m \in 1 .. Len(a[d]) : a[d][m] = q
    BY DEF Sound
  <2>2. PICK m \in 1 .. Len(a[d]) : a[d][m] = q
    BY <2>1
  <2>3. CASE d # b
    BY <1>3, <2>2, <2>3
  <2>4. CASE d = b
    <3>1. m # i /\ m \in Nat /\ m >= 1 /\ m <= Len(a[b])
      BY <1>1, <2>2, <2>4
    <3>2. CASE m < i
      <4>1. m \in 1 .. Len(c[b]) /\ m \in 1 .. Len(a[b]) - 1
        BY <1>1, <1>2, <1>3, <1>4, <3>1, <3>2
      <4>2. c[b][m] = q
        BY <1>2, <1>3, <2>2, <2>4, <3>2, <4>1
      <4> QED BY <4>1, <4>2
    <3>3. CASE m > i
      <4>1. m - 1 \in 1 .. Len(c[b]) /\ m - 1 \in 1 .. Len(a[b]) - 1 /\ ~(m - 1 < i) /\ (m - 1) + 1 = m
        BY <1>1, <1>2, <1>3, <1>4, <3>1, <3>3
      <4>2. c[b][m - 1] = q
        BY <1>2, <1>3, <2>2, <2>4, <4>1
      <4> QED BY <4>1, <4>2
    <3> QED BY <1>4, <3>1, <3>2, <3>3
  <2> QED BY <2>3, <2>4
<1> QED BY <1>3, <1>6, <1>7, <1>8 DEF Sound, c

-----------------------------------------------------------------------------
Table == [numOfBuckets : Nat \ {0}, numOfElements : Nat,
          bucketArray : UNION {Arrays(n) : n \in Nat \ {0}}, ratio : Ratios \cup {DefaultRatio}]

(* A table that has exactly the pairs S. *)
TableOf(t, S) ==
  /\ t \in Table
  /\ Sound(t.bucketArray, t.numOfBuckets, S)
  /\ IsFiniteSet(S) /\ t.numOfElements = Cardinality(S)

(* A table has no more elements than there are keys. *)
LEMMA FewerThanKeys ==
  ASSUME NEW t, NEW S, TableOf(t, S)
  PROVE  Cardinality(S) \in 0 .. Cardinality(KeyPtrs)
<1>1. t.numOfBuckets \in Nat
  BY DEF TableOf, Table
<1>2. /\ \A p, q \in S : Content(p.key) = Content(q.key) => p = q
      /\ S \subseteq Pair
  BY <1>1, SoundPairs DEF TableOf
<1> DEFINE f == [p \in S |-> p.key]
<1>3. f \in [S -> KeyPtrs]
  BY <1>2 DEF Pair
<1>4. IsInjective(f)
  BY <1>2 DEF IsInjective
<1> HIDE DEF f
<1>5. f \in Injection(S, KeyPtrs)
  BY <1>3, <1>4 DEF Injection
<1>6. IsFiniteSet(KeyPtrs)
  BY HashtableAssumption
<1>7. Cardinality(S) <= Cardinality(KeyPtrs)
  BY <1>5, <1>6, FS_Injection
<1>8. Cardinality(S) \in Nat /\ Cardinality(KeyPtrs) \in Nat
  BY <1>6, FS_CardinalityType DEF TableOf
<1> QED BY <1>7, <1>8

(* calculateIdealNumOfBuckets finds a number of buckets. *)
LEMMA IdealBuckets ==
  ASSUME NEW t \in Table, t.numOfElements \in 0 .. Cardinality(KeyPtrs)
  PROVE  calculateIdealNumOfBuckets(t) \in Nat \ {0}
<1> DEFINE e == t.numOfElements
           r == t.ratio
           ideal == (e * 10) \div r[1]
           from == IF ideal < 5 THEN 5 ELSE ideal + 1 - (ideal % 2)
<1>1. r \in Ratios \cup {DefaultRatio} /\ e \in Nat
  BY DEF Table
<1>2. r[1] \in Nat /\ r[1] > 0
  <2>1. CASE r = DefaultRatio
    BY <2>1 DEF DefaultRatio
  <2>2. CASE r \in Ratios
    <3>1. r[1] \in Nat /\ r[2] \in Nat /\ r[2] < r[1]
      BY <2>2, HashtableAssumption
    <3> HIDE DEF r
    <3> QED BY <3>1
  <2> QED BY <1>1, <2>1, <2>2
<1>3. OddPrimes([numOfElements |-> e, ratio |-> r]) # {}
  BY <1>1, PrimesAssumption
<1>4. OddPrimes(t) = OddPrimes([numOfElements |-> e, ratio |-> r])
  BY DEF OddPrimes
<1>5. OddPrimes(t) = {n \in from .. 2 * from + 2 : n % 2 = 1 /\ isProbablePrime(n)}
  BY Zenon DEF OddPrimes
<1> HIDE DEF e, r
<1>6. \A x \in Nat, y \in Nat \ {0} : (x * 10) \div y \in Int
  OBVIOUS
<1>7. ideal \in Int
  BY <1>1, <1>2, <1>6
<1> HIDE DEF ideal
<1>8. from \in Nat /\ from >= 5
  <2>1. \A x \in Int : x % 2 \in 0 .. 1
    BY Z3
  <2> QED BY <1>7, <2>1
<1> HIDE DEF from
<1>9. OddPrimes(t) \subseteq Nat \ {0}
  BY <1>5, <1>8
<1>10. Min(OddPrimes(t)) \in OddPrimes(t)
  BY <1>3, <1>4, <1>9, MinNat
<1> QED BY <1>9, <1>10 DEF calculateIdealNumOfBuckets

(* A reorganisation, whether it is made or fails, changes no pair. *)
LEMMA RehashTable ==
  ASSUME NEW t, NEW S, TableOf(t, S), NEW n \in Nat, NEW u \in Rehash(t, n)
  PROVE  TableOf(u, S)
<1>1. t \in Table /\ t.numOfElements \in 0 .. Cardinality(KeyPtrs)
  BY FewerThanKeys DEF TableOf
<1>2. PICK m \in Nat \ {0} : u \in Rehashed(t, m)
  <2>1. CASE n = 0
    BY <1>1, <2>1, IdealBuckets DEF Rehash
  <2>2. CASE n # 0
    BY <2>2 DEF Rehash
  <2> QED BY <2>1, <2>2
<1>3. CASE u = t
  BY <1>3
<1>4. CASE u # t
  <2>1. u = [t EXCEPT !.bucketArray = Relink(t, m), !.numOfBuckets = m]
    BY <1>2, <1>4 DEF Rehashed
  <2>2. Sound(Relink(t, m), m, S)
    BY <1>1, RelinkSound DEF TableOf, Table
  <2>3. Relink(t, m) \in Arrays(m)
    BY <2>2 DEF Sound
  <2>4. /\ u.bucketArray = Relink(t, m) /\ u.numOfBuckets = m
        /\ u.numOfElements = t.numOfElements /\ u.ratio = t.ratio
    BY <1>1, <2>1 DEF Table
  <2>5. Relink(t, m) \in UNION {Arrays(k) : k \in Nat \ {0}}
    BY <2>3
  <2>6. u \in Table
    BY <1>1, <2>1, <2>5 DEF Table
  <2> QED BY <2>2, <2>4, <2>6 DEF TableOf
<1> QED BY <1>3, <1>4

(* So do the reorganisations at the end of Put and of Remove. *)
LEMMA GrowShrink ==
  ASSUME NEW t, NEW S, TableOf(t, S)
  PROVE  /\ \A u \in Grow(t) : TableOf(u, S)
         /\ \A u \in Shrink(t) : TableOf(u, S)
<1>1. \A u \in Rehash(t, 0) \cup {t} : TableOf(u, S)
  BY RehashTable
<1> QED BY <1>1 DEF Grow, Shrink

(* The pair with a key, as the walk along its chain finds it. *)
LEMMA FindPair ==
  ASSUME NEW t, NEW S, TableOf(t, S), NEW c \in Contents
  PROVE  /\ Bucket(t, c) \in 0 .. t.numOfBuckets - 1
         /\ Find(Chain(t, c), c) = 0 => \A p \in S : Content(p.key) # c
         /\ Find(Chain(t, c), c) # 0 =>
              /\ Find(Chain(t, c), c) \in 1 .. Len(Chain(t, c))
              /\ Content(Chain(t, c)[Find(Chain(t, c), c)].key) = c
              /\ Chain(t, c)[Find(Chain(t, c), c)] \in S
<1>1. PICK n \in Nat \ {0} : n = t.numOfBuckets
  BY DEF TableOf, Table
<1>2. PICK k \in KeyPtrs : c = Content(k)
  BY DEF Contents
<1>3. HashOf(c) \in Nat
  BY <1>2, HashtableAssumption
<1>4. \A x \in Nat : x % n \in 0 .. n - 1
  BY Z3
<1>5. PICK b \in 0 .. n - 1 : b = Bucket(t, c)
  BY <1>1, <1>3, <1>4 DEF Bucket
<1>6. Sound(t.bucketArray, n, S)
  BY <1>1 DEF TableOf
<1>7. PICK s \in Seq(Pair) : s = Chain(t, c) /\ s = t.bucketArray[b]
  BY <1>5, <1>6 DEF Chain, Sound, Arrays
<1> DEFINE I == {i \in 1 .. Len(s) : Content(s[i].key) = c}
<1>8. Find(s, c) = IF I # {} THEN Min(I) ELSE 0
  BY DEF Find, SelectInSeq
<1>9. CASE I # {}
  <2>1. I \subseteq Nat
    OBVIOUS
  <2>2. Min(I) \in I
    BY <1>9, <2>1, MinNat
  <2>3. PICK m \in I : m = Find(s, c)
    BY <1>8, <1>9, <2>2
  <2>4. m \in 1 .. Len(s) /\ m # 0 /\ Content(s[m].key) = c
    OBVIOUS
  <2>5. s[m] \in S
    BY <1>6, <1>7, <2>4 DEF Sound
  <2> QED BY <1>1, <1>5, <1>7, <2>3, <2>4, <2>5
<1>10. CASE I = {}
  <2>1. ASSUME NEW p \in S PROVE Content(p.key) # c
    <3>1. PICK d \in 0 .. n - 1 : \E i \in 1 .. Len(t.bucketArray[d]) : t.bucketArray[d][i] = p
      BY <1>6 DEF Sound
    <3>2. d = Home(p, n)
      BY <1>6, <3>1 DEF Sound
    <3>3. CASE Content(p.key) = c
      <4>1. d = b
        BY <1>1, <1>5, <3>2, <3>3 DEF Home, Bucket
      <4> QED BY <1>7, <1>10, <3>1, <3>3, <4>1
    <3> QED BY <3>3
  <2>2. Find(s, c) = 0
    BY <1>8, <1>10
  <2> QED BY <1>1, <1>5, <1>7, <2>1, <2>2
<1> QED BY <1>9, <1>10

(* The pairs of a table. *)
LEMMA PairsOf ==
  ASSUME NEW t, NEW S, TableOf(t, S)
  PROVE  /\ Pairs(t) = S
         /\ \A p, q \in S : Content(p.key) = Content(q.key) => p = q
         /\ S \subseteq Pair
<1>1. t.numOfBuckets \in Nat
  BY DEF TableOf, Table
<1> QED BY <1>1, SoundPairs DEF TableOf, Pairs

(* A new table, and one from which everything was removed, have no pair. *)
LEMMA EmptyTable ==
  ASSUME NEW t \in Table, t.bucketArray = EmptyArray(t.numOfBuckets), t.numOfElements = 0
  PROVE  TableOf(t, {})
<1>1. t.numOfBuckets \in Nat
  BY DEF Table
<1>2. Sound(EmptyArray(t.numOfBuckets), t.numOfBuckets, {})
  BY <1>1 DEF Sound, EmptyArray, Arrays
<1> QED BY <1>2, FS_EmptySet DEF TableOf

(* HashTableCreate makes an empty table. *)
LEMMA CreateTable ==
  ASSUME NEW n \in Buckets
  PROVE  TableOf(HashTableCreate(n), {})
<1> DEFINE t == HashTableCreate(n)
<1>1. n \in Nat \ {0}
  BY HashtableAssumption
<1>2. EmptyArray(n) \in Arrays(n)
  BY <1>1 DEF EmptyArray, Arrays
<1>3. EmptyArray(n) \in UNION {Arrays(k) : k \in Nat \ {0}}
  BY <1>1, <1>2
<1>4. t = [numOfBuckets |-> n, numOfElements |-> 0, bucketArray |-> EmptyArray(n), ratio |-> DefaultRatio]
  BY DEF HashTableCreate, EmptyArray
<1>5. t \in Table
  BY <1>1, <1>3, <1>4 DEF Table
<1>6. t.bucketArray = EmptyArray(t.numOfBuckets) /\ t.numOfElements = 0
  BY <1>4
<1> HIDE DEF t
<1>7. TableOf(t, {})
  BY <1>5, <1>6, EmptyTable
<1> QED BY <1>7 DEF t

(* HashTablePut for a key that is there. *)
LEMMA ReplaceTable ==
  ASSUME NEW t, NEW S, TableOf(t, S), NEW k \in KeyPtrs, NEW v \in ValuePtrs,
         Find(Chain(t, Content(k)), Content(k)) # 0
  PROVE  LET b   == Bucket(t, Content(k))
             i   == Find(Chain(t, Content(k)), Content(k))
             old == t.bucketArray[b][i]
         IN  /\ old \in S /\ Content(old.key) = Content(k)
             /\ TableOf([t EXCEPT !.bucketArray[b][i] = [key |-> k, value |-> v]],
                        (S \ {old}) \cup {[key |-> k, value |-> v]})
<1>1. Content(k) \in Contents
  BY DEF Contents
<1>2. PICK n \in Nat \ {0} : n = t.numOfBuckets
  BY DEF TableOf, Table
<1>3. PICK b \in 0 .. n - 1 : b = Bucket(t, Content(k))
  BY <1>1, <1>2, FindPair
<1>4. PICK a : a = t.bucketArray
  OBVIOUS
<1>5. a[b] = Chain(t, Content(k))
  BY <1>3, <1>4 DEF Chain
<1>6. PICK i \in 1 .. Len(a[b]) :
        /\ i = Find(Chain(t, Content(k)), Content(k))
        /\ Content(a[b][i].key) = Content(k) /\ a[b][i] \in S
  BY <1>1, <1>5, FindPair
<1>7. PICK p \in Pair : p = [key |-> k, value |-> v]
  BY DEF Pair
<1>8. Content(p.key) = Content(a[b][i].key)
  BY <1>6, <1>7
<1>9. PICK old : old = a[b][i]
  OBVIOUS
<1> DEFINE T == (S \ {old}) \cup {p}
           u == [t EXCEPT !.bucketArray[b][i] = p]
<1>10. Sound(a, n, S)
  BY <1>2, <1>4 DEF TableOf
<1>11. Sound([a EXCEPT ![b][i] = p], n, T)
  BY <1>8, <1>9, <1>10, ReplaceSound
<1>12. IsFiniteSet(S) /\ IsFiniteSet(T) /\ Cardinality(T) = Cardinality(S)
  <2>1. IsFiniteSet(S) /\ old \in S
    BY <1>6, <1>9 DEF TableOf
  <2>2. IsFiniteSet(S \ {old}) /\ Cardinality(S \ {old}) = Cardinality(S) - 1
    BY <2>1, FS_RemoveElement
  <2>3. p \notin S \ {old}
    BY <1>8, <1>9, <2>1, PairsOf
  <2>4. IsFiniteSet(T) /\ Cardinality(T) = Cardinality(S \ {old}) + 1
    BY <2>2, <2>3, FS_AddElement
  <2>5. Cardinality(S) \in Nat
    BY <2>1, FS_CardinalityType
  <2> QED BY <2>1, <2>2, <2>4, <2>5
<1>13. t \in Table
  BY DEF TableOf
<1>14. u = [t EXCEPT !.bucketArray = [a EXCEPT ![b][i] = p]]
  BY <1>4, <1>13 DEF Table
<1>15. PICK c : c = [a EXCEPT ![b][i] = p]
  OBVIOUS
<1>16. c \in Arrays(n)
  BY <1>11, <1>15 DEF Sound
<1> HIDE DEF T
<1>17. u \in Table /\ u.bucketArray = c /\ u.numOfBuckets = n /\ u.numOfElements = Cardinality(T)
  <2>1. u = [t EXCEPT !.bucketArray = c]
    BY <1>14, <1>15
  <2>2. c \in UNION {Arrays(m) : m \in Nat \ {0}}
    BY <1>16
  <2>3. t.numOfElements = Cardinality(T)
    BY <1>12 DEF TableOf
  <2> HIDE DEF u
  <2> QED BY <1>2, <1>13, <2>1, <2>2, <2>3 DEF Table
<1>18. TableOf(u, T)
  BY <1>11, <1>12, <1>15, <1>17 DEF TableOf
<1> QED BY <1>3, <1>4, <1>6, <1>7, <1>9, <1>18 DEF T

(* HashTablePut for a key that is not there, before the table grows. *)
LEMMA LinkedTable ==
  ASSUME NEW t, NEW S, TableOf(t, S), NEW k \in KeyPtrs, NEW v \in ValuePtrs,
         Find(Chain(t, Content(k)), Content(k)) = 0
  PROVE  /\ \A q \in S : Content(q.key) # Content(k)
         /\ TableOf([t EXCEPT
              !.bucketArray[Bucket(t, Content(k))] = <<[key |-> k, value |-> v]>> \o @,
              !.numOfElements = @ + 1], S \cup {[key |-> k, value |-> v]})
<1>1. PICK p \in Pair : p = [key |-> k, value |-> v]
  BY DEF Pair
<1>2. PICK n \in Nat \ {0} : n = t.numOfBuckets
  BY DEF TableOf, Table
<1>3. \A q \in S : Content(q.key) # Content(p.key)
  BY <1>1, FindPair DEF Contents
<1>4. PICK a : a = t.bucketArray
  OBVIOUS
<1>5. Sound(a, n, S) /\ n > 0
  BY <1>2, <1>4 DEF TableOf
<1> DEFINE T == S \cup {p}
           u == [t EXCEPT !.bucketArray[Bucket(t, Content(k))] = <<p>> \o @, !.numOfElements = @ + 1]
<1>6. Sound(Link(a, p, n), n, T)
  BY <1>3, <1>5, LinkSound
<1>7. PICK c : c = Link(a, p, n)
  OBVIOUS
<1>8. c = [a EXCEPT ![Bucket(t, Content(k))] = <<p>> \o @]
  BY <1>1, <1>2, <1>7 DEF Link, Bucket
<1>9. IsFiniteSet(T) /\ Cardinality(T) = t.numOfElements + 1
  <2>1. p \notin S
    BY <1>3
  <2> QED BY <2>1, FS_AddElement DEF TableOf
<1>10. t \in Table
  BY DEF TableOf
<1>11. u = [t EXCEPT !.bucketArray = c, !.numOfElements = t.numOfElements + 1]
  BY <1>4, <1>8, <1>10 DEF Table
<1>12. c \in UNION {Arrays(m) : m \in Nat \ {0}}
  BY <1>6, <1>7 DEF Sound
<1> HIDE DEF T, u
<1>13. u \in Table /\ u.bucketArray = c /\ u.numOfBuckets = n /\ u.numOfElements = t.numOfElements + 1
  <2>1. PICK e \in Nat : e = t.numOfElements + 1
    BY <1>10 DEF Table
  <2>2. u = [t EXCEPT !.bucketArray = c, !.numOfElements = e]
    BY <1>11, <2>1
  <2>3. u \in Table /\ u.bucketArray = c /\ u.numOfBuckets = n /\ u.numOfElements = e
    BY <1>2, <1>10, <1>12, <2>2 DEF Table
  <2> QED BY <2>1, <2>3
<1>14. TableOf(u, T)
  BY <1>6, <1>7, <1>9, <1>13 DEF TableOf
<1> QED BY <1>1, <1>3, <1>14 DEF T, u

(* HashTableRemove for a key that is there, before the table shrinks. *)
LEMMA UnlinkedTable ==
  ASSUME NEW t, NEW S, TableOf(t, S), NEW x \in Contents, Find(Chain(t, x), x) # 0
  PROVE  LET i == Find(Chain(t, x), x) IN
           /\ Chain(t, x)[i] \in S /\ Content(Chain(t, x)[i].key) = x
           /\ TableOf(Unlink(t, Bucket(t, x), i), S \ {Chain(t, x)[i]})
<1>1. PICK n \in Nat \ {0} : n = t.numOfBuckets
  BY DEF TableOf, Table
<1>2. PICK b \in 0 .. n - 1 : b = Bucket(t, x)
  BY <1>1, FindPair
<1>3. PICK a : a = t.bucketArray
  OBVIOUS
<1>4. a[b] = Chain(t, x)
  BY <1>2, <1>3 DEF Chain
<1>5. PICK i \in 1 .. Len(a[b]) :
        i = Find(Chain(t, x), x) /\ Content(a[b][i].key) = x /\ a[b][i] \in S
  BY <1>4, FindPair
<1>6. PICK old : old = a[b][i]
  OBVIOUS
<1> DEFINE T == S \ {old}
           u == Unlink(t, b, i)
<1>7. Sound(a, n, S)
  BY <1>1, <1>3 DEF TableOf
<1>8. PICK c : c = [a EXCEPT ![b] = RemoveAt(a[b], i)]
  OBVIOUS
<1>9. Sound(c, n, T)
  BY <1>6, <1>7, <1>8, UnlinkSound
<1>10. t \in Table
  BY DEF TableOf
<1>11. IsFiniteSet(T) /\ Cardinality(T) = t.numOfElements - 1 /\ t.numOfElements - 1 \in Nat
  <2>1. IsFiniteSet(S) /\ old \in S /\ t.numOfElements = Cardinality(S)
    BY <1>5, <1>6 DEF TableOf
  <2>2. IsFiniteSet(T) /\ Cardinality(T) = Cardinality(S) - 1
    BY <2>1, FS_RemoveElement
  <2>3. Cardinality(T) \in Nat
    BY <2>2, FS_CardinalityType
  <2> QED BY <2>1, <2>2, <2>3
<1>12. u = [t EXCEPT !.bucketArray = c, !.numOfElements = t.numOfElements - 1]
  BY <1>3, <1>8, <1>10 DEF Unlink, Table
<1>13. c \in UNION {Arrays(m) : m \in Nat \ {0}}
  BY <1>9 DEF Sound
<1> HIDE DEF T, u
<1>14. u \in Table /\ u.bucketArray = c /\ u.numOfBuckets = n /\ u.numOfElements = t.numOfElements - 1
  BY <1>1, <1>10, <1>11, <1>12, <1>13 DEF Table
<1>15. TableOf(u, T)
  BY <1>9, <1>11, <1>14 DEF TableOf
<1> QED BY <1>2, <1>4, <1>5, <1>6, <1>15 DEF T, u

(* HashTableRemoveAll, before the table shrinks. *)
LEMMA ClearedTable ==
  ASSUME NEW t, NEW S, TableOf(t, S)
  PROVE  TableOf([t EXCEPT !.bucketArray = [b \in DOMAIN @ |-> <<>>], !.numOfElements = 0], {})
<1> DEFINE u == [t EXCEPT !.bucketArray = [b \in DOMAIN @ |-> <<>>], !.numOfElements = 0]
<1>1. t \in Table
  BY DEF TableOf
<1>2. PICK n \in Nat \ {0} : n = t.numOfBuckets
  BY <1>1 DEF Table
<1>3. DOMAIN t.bucketArray = 0 .. n - 1
  BY <1>2 DEF TableOf, Sound, Arrays
<1>4. u = [t EXCEPT !.bucketArray = EmptyArray(n), !.numOfElements = 0]
  BY <1>1, <1>3 DEF Table, EmptyArray
<1>5. EmptyArray(n) \in Arrays(n)
  BY DEF EmptyArray, Arrays
<1>6. EmptyArray(n) \in UNION {Arrays(m) : m \in Nat \ {0}}
  BY <1>5
<1> HIDE DEF u
<1>7. u \in Table /\ u.bucketArray = EmptyArray(u.numOfBuckets) /\ u.numOfElements = 0
  BY <1>1, <1>2, <1>4, <1>6 DEF Table
<1>8. TableOf(u, {})
  BY <1>7, EmptyTable
<1> QED BY <1>8 DEF u

-----------------------------------------------------------------------------
ObjectsOf(S) == UNION {{p.key, p.value} : p \in S}

(***************************************************************************)
(* The inductive invariant: the table is one of its pairs, no value is in  *)
(* two of them (a caller puts no value a second time), and each object was *)
(* released exactly if no pair has it.                                     *)
(***************************************************************************)
ValuesApart(S) == \A p, q \in S : p.value = q.value => p = q

Owned(S) == dealloc => freed \cap ObjectsOf(S) = {} /\ given = freed \cup ObjectsOf(S)

IInv == TableOf(ht, Pairs(ht)) /\ ValuesApart(Pairs(ht)) /\ Owned(Pairs(ht))

(* The objects of one more pair. *)
LEMMA ObjectsAdded ==
  ASSUME NEW S, NEW p
  PROVE  ObjectsOf(S \cup {p}) = ObjectsOf(S) \cup {p.key, p.value}
BY DEF ObjectsOf

(* The steps of the specification, as what they do to the set of pairs. *)
PutsOver(S, k, v) ==
  \E old \in S :
    /\ Content(old.key) = Content(k)
    /\ TableOf(ht', (S \ {old}) \cup {[key |-> k, value |-> v]})
    /\ Dealloc({old.key, old.value} \ {k, v}) /\ Give({k, v})
    /\ ret' = <<Content(k), 0>>

PutsNew(S, k, v) ==
  /\ \A q \in S : Content(q.key) # Content(k)
  /\ TableOf(ht', S \cup {[key |-> k, value |-> v]})
  /\ UNCHANGED freed /\ Give({k, v})
  /\ ret' = <<Content(k), 0>>

Puts(S, k, v) ==
  /\ k \notin freed /\ v \notin freed
  /\ \A p \in S : Content(p.key) # Content(k) => v # p.value
  /\ UNCHANGED dealloc
  /\ \/ PutsOver(S, k, v) \/ PutsNew(S, k, v)
     \/ ht' = ht /\ ret' = <<Content(k), -1>> /\ UNCHANGED <<given, freed>>

Gets(S, c) ==
  /\ UNCHANGED <<ht, dealloc, given, freed>>
  /\ \/ (\A p \in S : Content(p.key) # c) /\ ret' = <<c, NULL>>
     \/ \E p \in S : Content(p.key) = c /\ ret' = <<c, p.value>>

Removes(S, c) ==
  /\ UNCHANGED <<dealloc, given>> /\ ret' = <<c, NULL>>
  /\ \/ (\A p \in S : Content(p.key) # c) /\ UNCHANGED <<ht, freed>>
     \/ \E p \in S : Content(p.key) = c /\ TableOf(ht', S \ {p}) /\ Dealloc({p.key, p.value})

Clears(S) ==
  /\ TableOf(ht', {}) /\ Dealloc(ObjectsOf(S)) /\ ret' = <<NULL, NULL>>
  /\ UNCHANGED <<dealloc, given>>

Reorganises(S) == TableOf(ht', S) /\ UNCHANGED <<dealloc, ret, given, freed>>

(* Every step is one of these. *)
LEMMA StepOnPairs ==
  ASSUME NEW S, TableOf(ht, S), [Next]_vars
  PROVE  \/ \E k \in KeyPtrs, v \in ValuePtrs : Puts(S, k, v)
         \/ \E c \in Contents : Gets(S, c) \/ Removes(S, c)
         \/ Clears(S)
         \/ Reorganises(S)
<1>0. Pairs(ht) = S /\ Objects(ht) = ObjectsOf(S)
  BY PairsOf DEF Objects, ObjectsOf
<1>1. ASSUME NEW k \in KeyPtrs, NEW v \in ValuePtrs, HashTablePut(k, v) PROVE Puts(S, k, v)
  <2> DEFINE i == Find(Chain(ht, Content(k)), Content(k))
  <2>1. /\ k \notin freed /\ v \notin freed /\ UNCHANGED dealloc
        /\ \A p \in S : Content(p.key) # Content(k) => v # p.value
        /\ IF i # 0 THEN PutReplace(k, v, i) ELSE PutNew(k, v) \/ PutFails(k)
    BY <1>0, <1>1, Zenon DEF HashTablePut
  <2>2. CASE i # 0
    <3>1. PutReplace(k, v, i)
      BY <2>1, <2>2
    <3> DEFINE b == Bucket(ht, Content(k))
               old == ht.bucketArray[b][i]
    <3>2. /\ ht' = [ht EXCEPT !.bucketArray[b][i] = [key |-> k, value |-> v]]
          /\ Dealloc({old.key, old.value} \ {k, v}) /\ Give({k, v})
          /\ ret' = <<Content(k), 0>>
      BY <3>1 DEF PutReplace
    <3>3. /\ old \in S /\ Content(old.key) = Content(k)
          /\ TableOf([ht EXCEPT !.bucketArray[b][i] = [key |-> k, value |-> v]],
                     (S \ {old}) \cup {[key |-> k, value |-> v]})
      BY <2>2, ReplaceTable
    <3> HIDE DEF old, b, i
    <3>4. PutsOver(S, k, v)
      BY <3>2, <3>3 DEF PutsOver
    <3> QED BY <2>1, <3>4 DEF Puts
  <2>3. CASE i = 0 /\ PutNew(k, v)
    <3> DEFINE u == [ht EXCEPT
                 !.bucketArray[Bucket(ht, Content(k))] = <<[key |-> k, value |-> v]>> \o @,
                 !.numOfElements = @ + 1]
    <3>1. /\ \A q \in S : Content(q.key) # Content(k)
          /\ TableOf(u, S \cup {[key |-> k, value |-> v]})
      BY <2>3, LinkedTable
    <3>2. ht' \in Grow(u) /\ Give({k, v}) /\ ret' = <<Content(k), 0>> /\ UNCHANGED freed
      BY <2>3 DEF PutNew
    <3> HIDE DEF u
    <3>3. TableOf(ht', S \cup {[key |-> k, value |-> v]})
      BY <3>1, <3>2, GrowShrink
    <3>4. PutsNew(S, k, v)
      BY <3>1, <3>2, <3>3 DEF PutsNew
    <3> QED BY <2>1, <3>4 DEF Puts
  <2>4. CASE i = 0 /\ PutFails(k)
    BY <2>1, <2>4 DEF Puts, PutFails
  <2> QED BY <2>1, <2>2, <2>3, <2>4
<1>2. ASSUME NEW c \in Contents, HashTableGet(c) PROVE Gets(S, c)
  <2> DEFINE i == Find(Chain(ht, c), c)
  <2>1. /\ ret' = <<c, IF i = 0 THEN NULL ELSE Chain(ht, c)[i].value>>
        /\ UNCHANGED <<ht, dealloc, given, freed>>
    BY <1>2 DEF HashTableGet
  <2>2. CASE i = 0
    BY <2>1, <2>2, FindPair DEF Gets
  <2>3. CASE i # 0
    <3>1. Content(Chain(ht, c)[i].key) = c /\ Chain(ht, c)[i] \in S
      BY <2>3, FindPair
    <3>2. ret' = <<c, Chain(ht, c)[i].value>>
      BY <2>1, <2>3
    <3> HIDE DEF i
    <3> QED BY <2>1, <3>1, <3>2 DEF Gets
  <2> QED BY <2>2, <2>3
<1>3. ASSUME NEW c \in Contents, HashTableRemove(c) PROVE Removes(S, c)
  <2> DEFINE i == Find(Chain(ht, c), c)
  <2>1. /\ IF i = 0 THEN UNCHANGED <<ht, freed>>
           ELSE /\ ht' \in Shrink(Unlink(ht, Bucket(ht, c), i))
                /\ Dealloc({Chain(ht, c)[i].key, Chain(ht, c)[i].value})
        /\ ret' = <<c, NULL>> /\ UNCHANGED <<dealloc, given>>
    BY <1>3, Zenon DEF HashTableRemove
  <2>2. CASE i = 0
    BY <2>1, <2>2, FindPair DEF Removes
  <2>3. CASE i # 0
    <3>1. /\ Chain(ht, c)[i] \in S /\ Content(Chain(ht, c)[i].key) = c
          /\ TableOf(Unlink(ht, Bucket(ht, c), i), S \ {Chain(ht, c)[i]})
      BY <2>3, UnlinkedTable
    <3>2. /\ ht' \in Shrink(Unlink(ht, Bucket(ht, c), i))
          /\ Dealloc({Chain(ht, c)[i].key, Chain(ht, c)[i].value})
      BY <2>1, <2>3
    <3> HIDE DEF i
    <3>3. TableOf(ht', S \ {Chain(ht, c)[i]})
      BY <3>1, <3>2, GrowShrink
    <3> QED BY <2>1, <3>1, <3>2, <3>3 DEF Removes
  <2> QED BY <2>2, <2>3
<1>4. ASSUME HashTableRemoveAll PROVE Clears(S)
  <2> DEFINE u == [ht EXCEPT !.bucketArray = [b \in DOMAIN @ |-> <<>>], !.numOfElements = 0]
  <2>1. ht' \in Rehash(u, 5)
    BY <1>4 DEF HashTableRemoveAll
  <2>2. TableOf(u, {})
    BY ClearedTable
  <2> HIDE DEF u
  <2>3. TableOf(ht', {})
    BY <2>1, <2>2, RehashTable
  <2> QED BY <1>0, <1>4, <2>3 DEF HashTableRemoveAll, Clears
<1>5. ASSUME NEW n \in Buckets, HashTableDestroy(n) PROVE Clears(S)
  BY <1>0, <1>5, CreateTable DEF HashTableDestroy, Clears
<1>6. ASSUME NEW n \in Buckets \cup {0}, HashTableRehash(n) PROVE Reorganises(S)
  <2>1. n \in Nat
    BY HashtableAssumption
  <2> QED BY <1>6, <2>1, RehashTable DEF HashTableRehash, Reorganises
<1>7. ASSUME NEW r \in Ratios, HashTableSetIdealRatio(r) PROVE Reorganises(S)
  <2>1. ht' = [ht EXCEPT !.ratio = r] /\ ht \in Table
    BY <1>7 DEF HashTableSetIdealRatio, TableOf
  <2>2. /\ ht' \in Table /\ ht'.bucketArray = ht.bucketArray /\ ht'.numOfBuckets = ht.numOfBuckets
        /\ ht'.numOfElements = ht.numOfElements
    BY <2>1 DEF Table
  <2>3. TableOf(ht', S)
    BY <2>2 DEF TableOf
  <2> QED BY <1>7, <2>3 DEF HashTableSetIdealRatio, Reorganises
<1>8. CASE UNCHANGED vars
  BY <1>8 DEF vars, Reorganises
<1> QED BY <1>1, <1>2, <1>3, <1>4, <1>5, <1>6, <1>7, <1>8 DEF Next

-----------------------------------------------------------------------------
(* The invariant holds from the creation of the table on. *)
LEMMA Invariant == Spec => []IInv
<1>1. Init => IInv
  <2> SUFFICES ASSUME Init PROVE IInv
    OBVIOUS
  <2>1. TableOf(ht, {}) /\ freed = {} /\ given = {}
    BY CreateTable DEF Init
  <2>2. Pairs(ht) = {}
    BY <2>1, PairsOf
  <2> QED BY <2>1, <2>2 DEF IInv, ValuesApart, Owned, ObjectsOf
<1>2. IInv /\ [Next]_vars => IInv'
  <2> SUFFICES ASSUME IInv, [Next]_vars PROVE IInv'
    OBVIOUS
  <2>1. PICK S : S = Pairs(ht)
    OBVIOUS
  <2>2. /\ TableOf(ht, S) /\ ValuesApart(S) /\ Owned(S)
        /\ \A p, q \in S : Content(p.key) = Content(q.key) => p = q
        /\ S \subseteq Pair
    BY <2>1, PairsOf DEF IInv
  <2>3. \A T : TableOf(ht', T) => Pairs(ht)' = T
    BY PairsOf DEF Pairs
  <2>4. KeyPtrs \cap ValuePtrs = {}
    BY HashtableAssumption
  <2>5. \A p \in S : p.key \in KeyPtrs /\ p.value \in ValuePtrs
    BY <2>2 DEF Pair
  <2>6. SUFFICES \E T : TableOf(ht', T) /\ ValuesApart(T) /\ Owned(T)'
    BY <2>3 DEF IInv
  <2>7. ASSUME NEW k \in KeyPtrs, NEW v \in ValuePtrs, Puts(S, k, v)
        PROVE  \E T : TableOf(ht', T) /\ ValuesApart(T) /\ Owned(T)'
    <3>0. PICK new : new = [key |-> k, value |-> v]
      OBVIOUS
    <3>00. new.key = k /\ new.value = v
      BY <3>0
    <3>1. /\ k \notin freed /\ v \notin freed /\ UNCHANGED dealloc
          /\ \A p \in S : Content(p.key) # Content(k) => v # p.value
      BY <2>7 DEF Puts
    <3>2. CASE PutsOver(S, k, v)
      <4>1. PICK old \in S :
              /\ Content(old.key) = Content(k)
              /\ TableOf(ht', (S \ {old}) \cup {new})
              /\ Dealloc({old.key, old.value} \ {k, v}) /\ Give({k, v})
        BY <3>0, <3>2 DEF PutsOver
      <4> DEFINE T == (S \ {old}) \cup {new}
      <4>2. \A p \in S \ {old} : p.value # v /\ p.key # k /\ p.key # old.key /\ p.value # old.value
        BY <2>2, <3>1, <3>00, <4>1 DEF ValuesApart
      <4>3. ValuesApart(T)
        BY <2>2, <3>00, <4>2 DEF ValuesApart
      <4>4. ASSUME dealloc
            PROVE  freed' \cap ObjectsOf(T) = {} /\ given' = freed' \cup ObjectsOf(T)
        <5>1. /\ freed' = freed \cup ({old.key, old.value} \ {k, v})
              /\ given' = given \cup {k, v}
          BY <4>1, <4>4 DEF Dealloc, Give
        <5>2. freed \cap ObjectsOf(S) = {} /\ given = freed \cup ObjectsOf(S)
          BY <2>2, <4>4 DEF Owned
        <5>3. ObjectsOf(S) = ObjectsOf(S \ {old}) \cup {old.key, old.value}
          BY <4>1 DEF ObjectsOf
        <5>4. ObjectsOf(T) = ObjectsOf(S \ {old}) \cup {k, v}
          BY <3>00, ObjectsAdded
        <5>5. old.key \notin ObjectsOf(S \ {old}) /\ old.value \notin ObjectsOf(S \ {old})
          BY <2>4, <2>5, <4>1, <4>2 DEF ObjectsOf
        <5> HIDE DEF T
        <5> QED BY <3>1, <5>1, <5>2, <5>3, <5>4, <5>5
      <4>5. Owned(T)'
        BY <3>1, <4>4 DEF Owned
      <4> QED BY <4>1, <4>3, <4>5
    <3>3. CASE PutsNew(S, k, v)
      <4>1. /\ \A q \in S : Content(q.key) # Content(k)
            /\ TableOf(ht', S \cup {new})
            /\ UNCHANGED freed /\ Give({k, v})
        BY <3>0, <3>3 DEF PutsNew
      <4> DEFINE T == S \cup {new}
      <4>2. ValuesApart(T)
        BY <2>2, <3>1, <3>00, <4>1 DEF ValuesApart
      <4>3. ObjectsOf(T) = ObjectsOf(S) \cup {k, v}
        BY <3>00, ObjectsAdded
      <4>4. Owned(T)'
        <5> HIDE DEF T
        <5> QED BY <2>2, <3>1, <4>1, <4>3 DEF Owned, Give
      <4> QED BY <4>1, <4>2, <4>4
    <3>4. CASE ht' = ht /\ UNCHANGED <<given, freed>>
      BY <2>2, <3>1, <3>4 DEF Owned
    <3> QED BY <2>7, <3>2, <3>3, <3>4 DEF Puts
  <2>8. ASSUME NEW c \in Contents, Gets(S, c)
        PROVE  \E T : TableOf(ht', T) /\ ValuesApart(T) /\ Owned(T)'
    BY <2>2, <2>8 DEF Gets, Owned
  <2>9. ASSUME NEW c \in Contents, Removes(S, c)
        PROVE  \E T : TableOf(ht', T) /\ ValuesApart(T) /\ Owned(T)'
    <3>1. CASE UNCHANGED <<ht, freed>>
      BY <2>2, <2>9, <3>1 DEF Removes, Owned
    <3>2. CASE \E p \in S : Content(p.key) = c /\ TableOf(ht', S \ {p}) /\ Dealloc({p.key, p.value})
      <4>1. PICK p \in S : TableOf(ht', S \ {p}) /\ Dealloc({p.key, p.value})
        BY <3>2
      <4> DEFINE T == S \ {p}
      <4>2. ValuesApart(T)
        BY <2>2 DEF ValuesApart
      <4>3. ObjectsOf(S) = ObjectsOf(T) \cup {p.key, p.value}
        BY DEF ObjectsOf
      <4>4. p.key \notin ObjectsOf(T) /\ p.value \notin ObjectsOf(T)
        <5>1. \A q \in T : q.key # p.key /\ q.value # p.value
          BY <2>2 DEF ValuesApart
        <5> QED BY <2>4, <2>5, <5>1 DEF ObjectsOf
      <4>5. UNCHANGED <<dealloc, given>>
        BY <2>9 DEF Removes
      <4>6. Owned(T)'
        <5> HIDE DEF T
        <5> QED BY <2>2, <4>1, <4>3, <4>4, <4>5 DEF Owned, Dealloc
      <4> QED BY <4>1, <4>2, <4>6
    <3> QED BY <2>9, <3>1, <3>2 DEF Removes
  <2>10. ASSUME Clears(S)
         PROVE  \E T : TableOf(ht', T) /\ ValuesApart(T) /\ Owned(T)'
    <3>1. ObjectsOf({}) = {} /\ ValuesApart({})
      BY DEF ObjectsOf, ValuesApart
    <3>2. Owned({})'
      BY <2>2, <2>10, <3>1 DEF Clears, Owned, Dealloc
    <3> QED BY <2>10, <3>1, <3>2 DEF Clears
  <2>11. ASSUME Reorganises(S)
         PROVE  \E T : TableOf(ht', T) /\ ValuesApart(T) /\ Owned(T)'
    BY <2>2, <2>11 DEF Reorganises, Owned
  <2> QED BY <2>2, <2>7, <2>8, <2>9, <2>10, <2>11, StepOnPairs
<1> QED BY <1>1, <1>2, PTL DEF Spec

(* For all keys, values, hash functions and ratios, through every
   reorganisation and failed allocation: the chains stay sound. *)
THEOREM ChainsCorrect == Spec => []ChainsSound
<1>1. IInv => ChainsSound
  <2> SUFFICES ASSUME IInv PROVE ChainsSound
    OBVIOUS
  <2>1. PICK S : S = Pairs(ht)
    OBVIOUS
  <2>2. TableOf(ht, S)
    BY <2>1 DEF IInv
  <2>3. PICK n \in Nat \ {0} : n = ht.numOfBuckets
    BY <2>2 DEF TableOf, Table
  <2>4. Sound(ht.bucketArray, n, S)
    BY <2>2, <2>3 DEF TableOf
  <2>5. ASSUME NEW b \in DOMAIN ht.bucketArray, NEW p \in ToSet(ht.bucketArray[b])
        PROVE  b = Bucket(ht, Content(p.key))
    <3>1. b \in 0 .. n - 1 /\ ht.bucketArray[b] \in Seq(Pair)
      BY <2>4 DEF Sound, Arrays
    <3>2. PICK i \in 1 .. Len(ht.bucketArray[b]) : p = ht.bucketArray[b][i]
      BY <3>1 DEF ToSet
    <3> QED BY <2>3, <2>4, <3>1, <3>2 DEF Sound, Home, Bucket
  <2>6. \A p, q \in Pairs(ht) : Content(p.key) = Content(q.key) => p = q
    BY <2>1, <2>2, PairsOf
  <2> QED BY <2>1, <2>2, <2>5, <2>6 DEF ChainsSound, TableOf
<1> QED BY <1>1, Invariant, PTL

(* For all keys, values, hash functions and ratios: with deallocation
   functions, nothing is released while a pair has it, and nothing is lost. *)
THEOREM OwnershipCorrect == Spec => []OwnershipExact
<1>1. IInv => OwnershipExact
  BY DEF IInv, Owned, OwnershipExact, Objects, ObjectsOf
<1> QED BY <1>1, Invariant, PTL

-----------------------------------------------------------------------------
(* The value a set of pairs has for a key. *)
Here(S, c) == {p \in S : Content(p.key) = c}
ValueOf(here) == IF here = {} THEN NULL ELSE (CHOOSE p \in here : TRUE).value
ValueIn(S, c) == ValueOf(Here(S, c))

MapOf(S) == [c \in Contents |-> ValueIn(S, c)]

(* It is the value of the one pair with the key. *)
LEMMA ValueOfPair ==
  ASSUME NEW S, \A p, q \in S : Content(p.key) = Content(q.key) => p = q, NEW c
  PROVE  /\ \A p \in S : Content(p.key) = c => ValueIn(S, c) = p.value
         /\ (\A p \in S : Content(p.key) # c) => ValueIn(S, c) = NULL
<1> DEFINE here == {p \in S : Content(p.key) = c}
<1>1. ASSUME NEW p \in S, Content(p.key) = c PROVE ValueIn(S, c) = p.value
  <2>1. here # {} /\ \A q \in here : q = p
    BY <1>1
  <2>2. (CHOOSE q \in here : TRUE) \in here
    BY <2>1
  <2>3. (CHOOSE q \in here : TRUE) = p
    BY <2>1, <2>2
  <2> QED BY <2>1, <2>3 DEF ValueIn, ValueOf, Here
<1>2. ASSUME \A p \in S : Content(p.key) # c PROVE ValueIn(S, c) = NULL
  BY <1>2 DEF ValueIn, ValueOf, Here
<1> QED BY <1>1, <1>2

(* For all keys, values, hash functions and ratios: a caller of the hash table
   cannot tell it from a map.  HashTablePut, HashTableGet and HashTableRemove
   are the map's operations, and a reorganisation does not show. *)
THEOREM MapCorrect == Spec => ImplementsMap
<1>1. Init => Promise!Init
  <2> SUFFICES ASSUME Init PROVE Promise!Init
    OBVIOUS
  <2>1. TableOf(ht, {}) /\ ret = <<NULL, NULL>>
    BY CreateTable DEF Init
  <2>2. Pairs(ht) = {}
    BY <2>1, PairsOf
  <2>3. Map = [c \in Contents |-> NULL]
    BY <2>2 DEF Map
  <2> QED BY <2>1, <2>3 DEF Promise!Init
<1>2. IInv /\ IInv' /\ [Next]_vars => [Promise!Next]_<<Map, ret>>
  <2> SUFFICES ASSUME IInv, IInv', [Next]_vars PROVE [Promise!Next]_<<Map, ret>>
    OBVIOUS
  <2>1. PICK S : S = Pairs(ht)
    OBVIOUS
  <2>2. PICK T : T = Pairs(ht)'
    OBVIOUS
  <2>3. Map = MapOf(S) /\ Map' = MapOf(T)
    BY <2>1, <2>2 DEF Map, MapOf, ValueIn, ValueOf, Here
  <2>4. /\ TableOf(ht, S)
        /\ \A p, q \in S : Content(p.key) = Content(q.key) => p = q
    BY <2>1, PairsOf DEF IInv
  <2>5. \A U : TableOf(ht', U) => T = U
    BY <2>2, PairsOf DEF Pairs
  <2>6. \A p, q \in T : Content(p.key) = Content(q.key) => p = q
    <3>1. TableOf(ht', T)
      BY <2>2 DEF IInv
    <3> QED BY <3>1, PairsOf
  <2>7. UNCHANGED ht => T = S
    BY <2>4, <2>5
  <2>8. ASSUME NEW k \in KeyPtrs, NEW v \in ValuePtrs, Puts(S, k, v) PROVE Promise!Next
    <3> DEFINE new == [key |-> k, value |-> v]
               x == Content(k)
    <3>1. x \in Contents
      BY DEF Contents
    <3>2. CASE UNCHANGED ht /\ ret' = <<x, -1>>
      <4>1. Promise!Put(x, v)
        BY <2>3, <2>7, <3>2 DEF Promise!Put
      <4> QED BY <3>1, <4>1 DEF Promise!Next
    <3>3. ASSUME ret' = <<x, 0>>, NEW R, T = R \cup {new},
                 \A c \in Contents : c # x => ValueIn(R, c) = ValueIn(S, c)
          PROVE  Promise!Next
      <4>1. new \in T /\ new.key = k /\ new.value = v
        BY <3>3
      <4>2. ValueIn(T, x) = v
        BY <2>6, <4>1, ValueOfPair
      <4>3. ASSUME NEW c \in Contents, c # x PROVE ValueIn(T, c) = ValueIn(S, c)
        <5>1. Here(T, c) = Here(R, c)
          BY <3>3, <4>1, <4>3 DEF Here
        <5>2. ValueIn(T, c) = ValueIn(R, c)
          BY <5>1, Zenon DEF ValueIn
        <5> QED BY <3>3, <4>3, <5>2
      <4>4. MapOf(T) = [MapOf(S) EXCEPT ![x] = v]
        BY <3>1, <4>2, <4>3 DEF MapOf
      <4>5. Promise!Put(x, v)
        BY <2>3, <3>3, <4>4 DEF Promise!Put
      <4> QED BY <3>1, <4>5 DEF Promise!Next
    <3>4. CASE PutsOver(S, k, v)
      <4>1. PICK old \in S : /\ Content(old.key) = x /\ TableOf(ht', (S \ {old}) \cup {new})
                             /\ ret' = <<x, 0>>
        BY <3>4 DEF PutsOver
      <4>2. ASSUME NEW c \in Contents, c # x PROVE ValueIn(S \ {old}, c) = ValueIn(S, c)
        <5>1. Here(S, c) = Here(S \ {old}, c)
          BY <4>1, <4>2 DEF Here
        <5> QED BY <5>1, Zenon DEF ValueIn
      <4>3. T = (S \ {old}) \cup {new}
        BY <2>5, <4>1
      <4> QED BY <3>3, <4>1, <4>2, <4>3
    <3>5. CASE PutsNew(S, k, v)
      BY <2>5, <3>3, <3>5 DEF PutsNew
    <3> QED BY <2>8, <3>2, <3>4, <3>5 DEF Puts
  <2>9. ASSUME NEW c \in Contents, Gets(S, c) PROVE Promise!Next
    <3>1. T = S
      BY <2>7, <2>9 DEF Gets
    <3>2. ret' = <<c, ValueIn(S, c)>>
      BY <2>4, <2>9, ValueOfPair DEF Gets
    <3>3. MapOf(S)[c] = ValueIn(S, c)
      BY DEF MapOf
    <3>4. Promise!Get(c)
      BY <2>3, <3>1, <3>2, <3>3 DEF Promise!Get
    <3> QED BY <3>4 DEF Promise!Next
  <2>10. ASSUME NEW c \in Contents, Removes(S, c) PROVE Promise!Next
    <3>1. ret' = <<c, NULL>>
      BY <2>10 DEF Removes
    <3>2. MapOf(T) = [MapOf(S) EXCEPT ![c] = NULL]
      <4>1. CASE (\A p \in S : Content(p.key) # c) /\ UNCHANGED ht
        <5>1. ValueIn(S, c) = NULL /\ T = S
          BY <2>4, <2>7, <4>1, ValueOfPair
        <5> QED BY <5>1 DEF MapOf
      <4>2. CASE \E p \in S : Content(p.key) = c /\ TableOf(ht', S \ {p})
        <5>1. PICK p \in S : Content(p.key) = c /\ T = S \ {p}
          BY <2>5, <4>2
        <5>2. \A q \in T : Content(q.key) # c
          BY <2>4, <5>1
        <5>3. ValueIn(T, c) = NULL
          BY <2>6, <5>2, ValueOfPair
        <5>4. ASSUME NEW d \in Contents, d # c PROVE ValueIn(T, d) = ValueIn(S, d)
          <6>1. Here(T, d) = Here(S, d)
            BY <5>1, <5>4 DEF Here
          <6> QED BY <6>1, Zenon DEF ValueIn
        <5> QED BY <5>3, <5>4 DEF MapOf
      <4> QED BY <2>10, <4>1, <4>2 DEF Removes
    <3>3. Promise!Remove(c)
      BY <2>3, <3>1, <3>2 DEF Promise!Remove
    <3> QED BY <3>3 DEF Promise!Next
  <2>11. ASSUME Clears(S) PROVE Promise!Next
    <3>1. T = {} /\ ret' = <<NULL, NULL>>
      BY <2>5, <2>11 DEF Clears
    <3>2. MapOf(T) = [c \in Contents |-> NULL]
      BY <3>1 DEF MapOf, ValueIn, ValueOf, Here
    <3>3. Promise!Clear
      BY <2>3, <3>1, <3>2 DEF Promise!Clear
    <3> QED BY <3>3 DEF Promise!Next
  <2>12. ASSUME Reorganises(S) PROVE UNCHANGED <<Map, ret>>
    BY <2>3, <2>5, <2>12 DEF Reorganises
  <2> QED BY <2>4, <2>8, <2>9, <2>10, <2>11, <2>12, StepOnPairs
<1> QED BY <1>1, <1>2, Invariant, PTL DEF Spec, ImplementsMap, Promise!Spec
=============================================================================
