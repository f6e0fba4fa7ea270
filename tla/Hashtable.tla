----------------------------- MODULE Hashtable -----------------------------
(***************************************************************************)
(* utils/hashtable.c: a table of chained pairs that is reorganised when    *)
(* the ratio of elements to buckets leaves its bounds.                     *)
(*                                                                         *)
(* A key is a pointer; keycmp and hashFunction look at what it points to,  *)
(* Content(k).  A chain is the sequence of its pairs, head first.  Ratios  *)
(* are in tenths.  An allocation may fail, in Put and in Rehash.  given    *)
(* and freed are history, kept when there are deallocation functions: the  *)
(* objects the table took over, and those it passed to these functions.    *)
(***************************************************************************)
EXTENDS Integers, SequencesExt, FiniteSetsExt

CONSTANTS
  KeyPtrs, ValuePtrs,       \* the key and value objects callers have
  Content(_),               \* what a key points to
  HashOf(_),                \* hashFunction, of what a key points to
  Buckets,                  \* numbers of buckets asked for
  Ratios,                   \* <<ideal, lower, upper>> a caller may set
  NULL

ASSUME HashtableAssumption ==
  /\ \A n \in Buckets : n \in Nat \ {0}
  /\ \A r \in Ratios : r \in Nat \X Nat \X Nat /\ r[2] < r[1] /\ (r[3] = 0 \/ r[3] > r[1])
  /\ \A k \in KeyPtrs : HashOf(Content(k)) \in Nat
  /\ IsFiniteSet(KeyPtrs) /\ KeyPtrs \cap ValuePtrs = {}
  /\ NULL \notin KeyPtrs \cup ValuePtrs

VARIABLES ht,      \* the table: numOfBuckets, numOfElements, bucketArray, ratio
          dealloc, \* whether deallocation functions are set
          ret,     \* the key of the last call, if it had one, and what it returned
          given, freed

vars == <<ht, dealloc, ret, given, freed>>

Contents == {Content(k) : k \in KeyPtrs}
DefaultRatio == <<30, 0, 150>>
-----------------------------------------------------------------------------
(* isProbablePrime: trial division by 3, 5, ..., 49. *)
isProbablePrime(n) ==
  \A i \in {j \in 3 .. 49 : j % 2 = 1 /\ j < n} : n % i # 0

(* calculateIdealNumOfBuckets: the first odd number, at least 5, that      *)
(* looks like a prime.                                                     *)
OddPrimes(t) ==
  LET ideal == (t.numOfElements * 10) \div t.ratio[1]
      from  == IF ideal < 5 THEN 5 ELSE ideal + 1 - (ideal % 2)
  IN  {n \in from .. 2 * from + 2 : n % 2 = 1 /\ isProbablePrime(n)}

calculateIdealNumOfBuckets(t) == Min(OddPrimes(t))

(* The search ends before the number has doubled. *)
ASSUME PrimesAssumption ==
  \A e \in 0 .. Cardinality(KeyPtrs), r \in Ratios \cup {DefaultRatio} :
    OddPrimes([numOfElements |-> e, ratio |-> r]) # {}

Bucket(t, c) == HashOf(c) % t.numOfBuckets

(* The walk along a chain: where the pair of key content c is, or 0. *)
Find(chain, c) == SelectInSeq(chain, LAMBDA p : Content(p.key) = c)

Chain(t, c) == t.bucketArray[Bucket(t, c)]

(* Mutant: a chain is moved as a whole, to the new bucket of its number. *)
RelinkChains(t, n) ==
  LET linked[i \in 0 .. t.numOfBuckets] ==
        IF i = 0 THEN [b \in 0 .. n - 1 |-> <<>>]
        ELSE [linked[i - 1] EXCEPT ![(i - 1) % n] = t.bucketArray[i - 1] \o @]
  IN  linked[t.numOfBuckets]

(* The loops of HashTableRehash: every pair becomes the head of its bucket, *)
(* the pairs of a chain one after the other,                                *)
Link(array, p, n) == [array EXCEPT ![HashOf(Content(p.key)) % n] = <<p>> \o @]

LinkChain(array, chain, n) ==
  LET linked[i \in 0 .. Len(chain)] ==
        IF i = 0 THEN array ELSE Link(linked[i - 1], chain[i], n)
  IN  linked[Len(chain)]

(* and the chains of the table likewise. *)
Relink(t, n) ==
  LET linked[i \in 0 .. t.numOfBuckets] ==
        IF i = 0 THEN [b \in 0 .. n - 1 |-> <<>>]
        ELSE LinkChain(linked[i - 1], t.bucketArray[i - 1], n)
  IN  linked[t.numOfBuckets]

(* The tables HashTableRehash may leave: unchanged when the size is right  *)
(* or the allocation fails. *)
Rehashed(t, n) ==
  IF n = t.numOfBuckets THEN {t}
  ELSE {t, [t EXCEPT !.bucketArray = Relink(t, n), !.numOfBuckets = n]}

Rehash(t, n) == Rehashed(t, IF n = 0 THEN calculateIdealNumOfBuckets(t) ELSE n)

(* The end of HashTablePut, and of HashTableRemove. *)
Grow(t) ==
  IF t.ratio[3] > t.ratio[1] /\ t.numOfElements * 10 > t.ratio[3] * t.numOfBuckets
  THEN Rehash(t, 0) ELSE {t}

Shrink(t) ==
  IF t.ratio[2] > 0 /\ t.numOfElements * 10 < t.ratio[2] * t.numOfBuckets
  THEN Rehash(t, 0) ELSE {t}

Pairs(t) == UNION {ToSet(t.bucketArray[b]) : b \in DOMAIN t.bucketArray}
Objects(t) == UNION {{p.key, p.value} : p \in Pairs(t)}

Dealloc(objs) == freed' = IF dealloc THEN freed \cup objs ELSE freed
Give(objs) == given' = IF dealloc THEN given \cup objs ELSE given
-----------------------------------------------------------------------------
HashTableCreate(n) ==
  [numOfBuckets |-> n, numOfElements |-> 0,
   bucketArray |-> [b \in 0 .. n - 1 |-> <<>>], ratio |-> DefaultRatio]

(* HashTableSetDeallocationFunctions is called when the table is created. *)
Init ==
  /\ \E n \in Buckets : ht = HashTableCreate(n)
  /\ dealloc \in BOOLEAN
  /\ ret = <<NULL, NULL>> /\ given = {} /\ freed = {}

(* Mutant: the value of a pair that is replaced is not released. *)
PutReplaceKeyOnly(k, v, i) ==
  LET b   == Bucket(ht, Content(k))
      old == ht.bucketArray[b][i]
  IN  /\ ht' = [ht EXCEPT !.bucketArray[b][i] = [key |-> k, value |-> v]]
      /\ Dealloc({old.key} \ {k})
      /\ Give({k, v})
      /\ ret' = <<Content(k), 0>>

(* The key was found at place i of its chain. *)
PutReplace(k, v, i) ==
  LET b   == Bucket(ht, Content(k))
      old == ht.bucketArray[b][i]
  IN  /\ ht' = [ht EXCEPT !.bucketArray[b][i] = [key |-> k, value |-> v]]
      /\ Dealloc({old.key, old.value} \ {k, v})
      /\ Give({k, v})
      /\ ret' = <<Content(k), 0>>

PutNew(k, v) ==
  /\ ht' \in Grow([ht EXCEPT
       !.bucketArray[Bucket(ht, Content(k))] = <<[key |-> k, value |-> v]>> \o @,
       !.numOfElements = @ + 1])
  /\ Give({k, v})
  /\ ret' = <<Content(k), 0>>
  /\ UNCHANGED freed

PutFails(k) == ret' = <<Content(k), -1>> /\ UNCHANGED <<ht, given, freed>>

(* A caller hands over objects the table does not have, or puts a key it   *)
(* put before.                                                             *)
HashTablePut(k, v) ==
  /\ k \notin freed /\ v \notin freed
  /\ \A p \in Pairs(ht) : Content(p.key) # Content(k) => v # p.value
  /\ \E i \in {Find(Chain(ht, Content(k)), Content(k))} :
       IF i # 0 THEN PutReplace(k, v, i) ELSE PutNew(k, v) \/ PutFails(k)
  /\ UNCHANGED dealloc

(* Mutant: the head of the chain, without a comparison of the keys. *)
HashTableGetHead(c) ==
  /\ ret' = <<c, IF Chain(ht, c) = <<>> THEN NULL ELSE Head(Chain(ht, c)).value>>
  /\ UNCHANGED <<ht, dealloc, given, freed>>

HashTableGet(c) ==
  /\ \E i \in {Find(Chain(ht, c), c)} :
       ret' = <<c, IF i = 0 THEN NULL ELSE Chain(ht, c)[i].value>>
  /\ UNCHANGED <<ht, dealloc, given, freed>>

Unlink(t, b, i) == [t EXCEPT !.bucketArray[b] = RemoveAt(@, i), !.numOfElements = @ - 1]

HashTableRemove(c) ==
  /\ \E i \in {Find(Chain(ht, c), c)} :
       IF i = 0 THEN UNCHANGED <<ht, freed>>
       ELSE /\ ht' \in Shrink(Unlink(ht, Bucket(ht, c), i))
            /\ Dealloc({Chain(ht, c)[i].key, Chain(ht, c)[i].value})
  /\ ret' = <<c, NULL>>
  /\ UNCHANGED <<dealloc, given>>

(* RemoveAll ends with HashTableRehash(5). *)
HashTableRemoveAll ==
  /\ ht' \in Rehash([ht EXCEPT !.bucketArray = [b \in DOMAIN @ |-> <<>>],
                               !.numOfElements = 0], 5)
  /\ Dealloc(Objects(ht))
  /\ ret' = <<NULL, NULL>>
  /\ UNCHANGED <<dealloc, given>>

(* The table is destroyed, and its owner creates another with the same     *)
(* functions.                                                              *)
HashTableDestroy(n) ==
  /\ ht' = HashTableCreate(n)
  /\ Dealloc(Objects(ht))
  /\ ret' = <<NULL, NULL>>
  /\ UNCHANGED <<dealloc, given>>

HashTableRehash(n) ==
  /\ ht' \in Rehash(ht, n)
  /\ UNCHANGED <<dealloc, ret, given, freed>>

HashTableSetIdealRatio(r) ==
  /\ ht' = [ht EXCEPT !.ratio = r]
  /\ UNCHANGED <<dealloc, ret, given, freed>>

Next ==
  \/ \E k \in KeyPtrs, v \in ValuePtrs : HashTablePut(k, v)
  \/ \E c \in Contents : HashTableGet(c) \/ HashTableRemove(c)
  \/ HashTableRemoveAll
  \/ \E n \in Buckets : HashTableDestroy(n)
  \/ \E n \in Buckets \cup {0} : HashTableRehash(n)
  \/ \E r \in Ratios : HashTableSetIdealRatio(r)

Spec == Init /\ [][Next]_vars
-----------------------------------------------------------------------------
(* The structure the walk along one chain relies on: a pair is in the      *)
(* bucket of its key, no key is in two pairs, and numOfElements is exact,  *)
(* through every reorganisation and failed allocation.                     *)
ChainsSound ==
  /\ \A b \in DOMAIN ht.bucketArray : \A p \in ToSet(ht.bucketArray[b]) :
       b = Bucket(ht, Content(p.key))
  /\ \A p, q \in Pairs(ht) : Content(p.key) = Content(q.key) => p = q
  /\ ht.numOfElements = Cardinality(Pairs(ht))

(* With deallocation functions set, the table owns what it is given: an    *)
(* object is released exactly when no pair has it any more.                *)
OwnershipExact ==
  dealloc => freed \cap Objects(ht) = {} /\ given = freed \cup Objects(ht)

(* The map the chains stand for. *)
Map == [c \in Contents |->
  LET here == {p \in Pairs(ht) : Content(p.key) = c} IN
    IF here = {} THEN NULL ELSE (CHOOSE p \in here : TRUE).value]

Promise == INSTANCE HashMap WITH map <- Map, Values <- ValuePtrs, None <- NULL

(* Callers see a map: the number of buckets, the order of a chain and a    *)
(* reorganisation never show.                                              *)
ImplementsMap == Promise!Spec
=============================================================================
