--------------------------- MODULE MemoryStoreProofs ---------------------------
(***************************************************************************)
(* Proofs about MemoryStore, for every limit, size, lifetime, key, counter *)
(* and goroutine: its totals and limits, its eviction order, what it       *)
(* serves, what it reports, and that its counters implement TagStore.      *)
(*                                                                         *)
(* Induction is over sets of numbers (SetInduction), which the provers can *)
(* instantiate; the recursive functions of MemoryStore are unfolded by it. *)
(***************************************************************************)
EXTENDS MemoryStore, WellFoundedInduction, SequenceTheorems, TLAPS

-----------------------------------------------------------------------------
(* Numbers.                                                                *)
LEMMA LeastOfSet ==
    ASSUME NEW T, T \subseteq Nat, T # {}
    PROVE  \E x \in T : \A y \in T : x <= y
<1> DEFINE R == OpToRel(<, Nat)
<1>1. \E x \in T : \A y \in T : ~ (<<y, x>> \in R)
  <2>1. IsWellFoundedOn(R, Nat)
    BY NatLessThanWellFounded
  <2> HIDE DEF R
  <2> QED
    BY <2>1, WFMin
<1>2. \A x, y \in T : ~(<<y, x>> \in R) => x <= y
  BY DEF OpToRel
<1> QED
  BY <1>1, <1>2

LEMMA SetInduction ==
    ASSUME NEW T, 0 \in T, \A n \in Nat : n \in T => n + 1 \in T
    PROVE  \A n \in Nat : n \in T
<1> DEFINE U == {n \in Nat : n \notin T}
<1> SUFFICES ASSUME U # {} PROVE FALSE
  OBVIOUS
<1>1. PICK x \in U : \A y \in U : x <= y
  BY LeastOfSet
<1>2. x # 0 /\ x - 1 \in Nat
  OBVIOUS
<1>3. x - 1 \in T
  BY <1>1, <1>2
<1> QED
  BY <1>2, <1>3

-----------------------------------------------------------------------------
(* Total, by the running sums of a sequence.                               *)
Sums(f, q) ==
    /\ f \in [0..Len(q) -> Nat]
    /\ f[0] = 0
    /\ \A i \in 1..Len(q) : f[i] = f[i - 1] + q[i].size

LEMMA EntryFacts ==
    ASSUME NEW e \in EntryType
    PROVE  /\ e.size \in Nat /\ e.expires \in Nat /\ e.key \in Names
           /\ e.key \in Counter => e.val \in Generation
           /\ e.key \in Key => e.val \in Nat
BY LimitAssumption DEF EntryType, Names

LEMMA SumsExist ==
    ASSUME NEW q \in Seq(EntryType)
    PROVE  \E f : Sums(f, q)
<1> DEFINE P(n, f) == /\ f \in [0..n -> Nat] /\ f[0] = 0
                      /\ \A i \in 1..n : f[i] = f[i - 1] + q[i].size
           T == {n \in Nat : n <= Len(q) => \E f : P(n, f)}
<1>1. 0 \in T
  <2>1. P(0, [i \in 0..0 |-> 0])
    OBVIOUS
  <2> QED
    BY <2>1
<1>2. ASSUME NEW n \in Nat, n \in T PROVE n + 1 \in T
  <2> HIDE DEF P
  <2> SUFFICES ASSUME n + 1 <= Len(q) PROVE \E f : P(n + 1, f)
    OBVIOUS
  <2> USE DEF P
  <2>1. Len(q) \in Nat
    OBVIOUS
  <2>2. PICK f : P(n, f)
    BY <1>2, <2>1
  <2>3. q[n + 1].size \in Nat
    BY <2>1, ElementOfSeq, EntryFacts
  <2> DEFINE g == [i \in 0..(n + 1) |-> IF i <= n THEN f[i]
                                               ELSE f[n] + q[n + 1].size]
  <2>4. P(n + 1, g)
    BY <2>2, <2>3
  <2> QED
    BY <2>4
<1>3. Len(q) \in T
  <2> HIDE DEF T
  <2>1. Len(q) \in Nat
    OBVIOUS
  <2> QED
    BY <1>1, <1>2, <2>1, SetInduction
<1> QED
  BY <1>3 DEF Sums

LEMMA TotalIs ==
    ASSUME NEW q \in Seq(EntryType), NEW f, Sums(f, q)
    PROVE  Total(q) = f[Len(q)]
<1> DEFINE Def(h) == h = [i \in 0..Len(q) |->
                            IF i = 0 THEN 0 ELSE h[i - 1] + q[i].size]
           g == CHOOSE h : Def(h)
           T == {n \in Nat : n <= Len(q) => g[n] = f[n]}
<1>1. Len(q) \in Nat
  OBVIOUS
<1>2. Def(f)
  BY DEF Sums
<1>3. Def(g)
  <2> HIDE DEF Def
  <2> QED
    BY <1>2
<1>4. Total(q) = g[Len(q)]
  BY DEF Total
<1> HIDE DEF g
<1>5. 0 \in T
  BY <1>1, <1>3 DEF Sums
<1>6. ASSUME NEW n \in Nat, n \in T PROVE n + 1 \in T
  BY <1>1, <1>3, <1>6 DEF Sums
<1>7. Len(q) \in T
  <2> HIDE DEF T
  <2> QED
    BY <1>1, <1>5, <1>6, SetInduction
<1> QED
  BY <1>1, <1>4, <1>7

LEMMA TotalSums ==
    ASSUME NEW q \in Seq(EntryType)
    PROVE  /\ Total(q) \in Nat
           /\ \E f : Sums(f, q) /\ Total(q) = f[Len(q)]
<1>1. PICK f : Sums(f, q)
  BY SumsExist
<1>2. Total(q) = f[Len(q)]
  BY <1>1, TotalIs
<1>3. Len(q) \in 0..Len(q)
  OBVIOUS
<1> QED
  BY <1>1, <1>2, <1>3 DEF Sums

LEMMA TotalEmpty == Total(<<>>) = 0
<1>1. <<>> \in Seq(EntryType) /\ Len(<<>>) = 0
  BY EmptySeq
<1>2. PICK f : Sums(f, <<>>) /\ Total(<<>>) = f[Len(<<>>)]
  BY <1>1, TotalSums
<1> QED
  BY <1>1, <1>2 DEF Sums

LEMMA TotalOne ==
    ASSUME NEW e \in EntryType
    PROVE  Total(<<e>>) = e.size
<1> DEFINE q == <<e>>
<1>1. q \in Seq(EntryType) /\ Len(q) = 1 /\ q[1] = e
  OBVIOUS
<1>2. PICK f : Sums(f, q) /\ Total(q) = f[Len(q)]
  BY <1>1, TotalSums
<1> HIDE DEF q
<1>3. Total(q) = f[1] /\ f[1] = f[0] + e.size /\ f[0] = 0
  BY <1>1, <1>2 DEF Sums
<1>4. Total(q) = e.size
  BY <1>3, EntryFacts
<1> QED
  BY <1>4 DEF q

LEMMA TotalConcat ==
    ASSUME NEW q \in Seq(EntryType), NEW r \in Seq(EntryType)
    PROVE  Total(q \o r) = Total(q) + Total(r)
<1>1. PICK f : Sums(f, q) /\ Total(q) = f[Len(q)]
  BY TotalSums
<1>2. PICK g : Sums(g, r) /\ Total(r) = g[Len(r)]
  BY TotalSums
<1> DEFINE m == Len(q)
           n == Len(r)
           h == [i \in 0..(m + n) |-> IF i <= m THEN f[i] ELSE f[m] + g[i - m]]
<1>3. /\ m \in Nat /\ n \in Nat
      /\ q \o r \in Seq(EntryType) /\ Len(q \o r) = m + n
      /\ \A i \in 1..(m + n) :
           (q \o r)[i] = IF i <= m THEN q[i] ELSE r[i - m]
  BY ConcatProperties
<1>4. /\ f \in [0..m -> Nat] /\ f[0] = 0
      /\ \A i \in 1..m : f[i] = f[i - 1] + q[i].size
  BY <1>1 DEF Sums
<1>5. /\ g \in [0..n -> Nat] /\ g[0] = 0
      /\ \A i \in 1..n : g[i] = g[i - 1] + r[i].size
  BY <1>2 DEF Sums
<1> HIDE DEF m, n
<1>6. h \in [0..(m + n) -> Nat] /\ h[0] = 0
  <2>1. ASSUME NEW i \in 0..(m + n)
        PROVE  (IF i <= m THEN f[i] ELSE f[m] + g[i - m]) \in Nat
    <3>1. CASE i <= m
      BY <1>3, <1>4, <3>1
    <3>2. CASE i > m
      <4>1. f[m] \in Nat /\ g[i - m] \in Nat
        BY <1>3, <1>4, <1>5, <3>2
      <4> QED
        BY <1>3, <3>2, <4>1
    <3> QED
      BY <1>3, <3>1, <3>2
  <2>2. h[0] = 0
    BY <1>3, <1>4
  <2> QED
    BY <2>1, <2>2
<1>7. ASSUME NEW i \in 1..(m + n)
      PROVE  h[i] = h[i - 1] + (q \o r)[i].size
  <2>1. CASE i <= m
    BY <1>3, <1>4, <2>1
  <2>2. CASE i > m
    <3>1. i - m \in 1..n /\ (q \o r)[i] = r[i - m]
      BY <1>3, <2>2
    <3>2. g[i - m] = g[i - m - 1] + r[i - m].size
      BY <1>5, <3>1
    <3>3. /\ g[i - m - 1] \in Nat /\ f[m] \in Nat
          /\ r[i - m].size \in Nat
      BY <1>3, <1>4, <1>5, <3>1, ElementOfSeq, EntryFacts DEF n
    <3>4. h[i - 1] = f[m] + g[i - m - 1]
      BY <1>3, <1>4, <1>5, <2>2
    <3>5. h[i] = f[m] + g[i - m]
      BY <1>3, <2>2
    <3> QED
      BY <3>1, <3>2, <3>3, <3>4, <3>5
  <2> QED
    BY <1>3, <2>1, <2>2
<1>8. Sums(h, q \o r)
  BY <1>3, <1>6, <1>7 DEF Sums
<1>9. Total(q \o r) = h[m + n]
  BY <1>3, <1>8, TotalIs
<1>10. h[m + n] = f[m] + g[n]
  <2>1. f[m] \in Nat
    BY <1>3, <1>4
  <2>2. CASE n = 0
    BY <1>3, <1>5, <2>1, <2>2
  <2>3. CASE n > 0
    <3>1. m + n \in 0..(m + n) /\ ~(m + n <= m) /\ (m + n) - m = n
      BY <1>3, <2>3
    <3> QED
      BY <3>1
  <2> QED
    BY <1>3, <2>2, <2>3
<1> QED
  BY <1>1, <1>2, <1>9, <1>10 DEF m, n

(* The first entries of a sequence, and the rest of it.                    *)
LEMMA PrefixFacts ==
    ASSUME NEW q \in Seq(EntryType), NEW n \in 0..Len(q)
    PROVE  /\ SubSeq(q, 1, n) \in Seq(EntryType)
           /\ Len(SubSeq(q, 1, n)) = n
           /\ \A i \in 1..n : SubSeq(q, 1, n)[i] = q[i]
           /\ SubSeq(q, n + 1, Len(q)) \in Seq(EntryType)
           /\ Total(q) = Total(SubSeq(q, 1, n))
                           + Total(SubSeq(q, n + 1, Len(q)))
<1>1. Len(q) \in Nat /\ \A i \in 1..Len(q) : q[i] \in EntryType
  OBVIOUS
<1>2. /\ SubSeq(q, 1, n) \in Seq(EntryType)
      /\ Len(SubSeq(q, 1, n)) = n
      /\ \A i \in 1..n : SubSeq(q, 1, n)[i] = q[i]
  BY <1>1, SubSeqProperties
<1>3. SubSeq(q, n + 1, Len(q)) \in Seq(EntryType)
  BY <1>1, SubSeqProperties
<1>4. SubSeq(q, 1, n) \o SubSeq(q, n + 1, Len(q)) = SubSeq(q, 1, Len(q))
  <2>1. 1 \in 1..(Len(q) + 1) /\ n \in (1 - 1)..Len(q) /\ Len(q) \in n..Len(q)
    BY <1>1
  <2> QED
    BY ONLY <2>1, q \in Seq(EntryType), ConcatAdjacentSubSeq
<1>5. SubSeq(q, 1, Len(q)) = q
  BY SubSeqFull
<1> QED
  BY <1>2, <1>3, <1>4, <1>5, TotalConcat

(* A sequence without its i-th entry.                                      *)
LEMMA RemoveAtFacts ==
    ASSUME NEW q \in Seq(EntryType), NEW i \in 1..Len(q)
    PROVE  /\ RemoveAt(q, i) \in Seq(EntryType)
           /\ Len(RemoveAt(q, i)) = Len(q) - 1
           /\ \A j \in 1..(Len(q) - 1) :
                RemoveAt(q, i)[j] = IF j < i THEN q[j] ELSE q[j + 1]
           /\ Total(q) = Total(RemoveAt(q, i)) + q[i].size
<1> DEFINE a == SubSeq(q, 1, i - 1)
           b == SubSeq(q, i + 1, Len(q))
           n == Len(q)
<1>1. n \in Nat /\ i \in 1..n /\ \A j \in 1..n : q[j] \in EntryType
  OBVIOUS
<1>2. /\ a \in Seq(EntryType) /\ Len(a) = i - 1
      /\ \A j \in 1..(i - 1) : a[j] = q[j]
  BY <1>1, PrefixFacts
<1>3. /\ b \in Seq(EntryType) /\ Len(b) = n - i
      /\ \A j \in 1..(n - i) : b[j] = q[i + j]
  BY <1>1, SubSeqProperties
<1>4. Total(q) = Total(a) + Total(SubSeq(q, i, n))
  BY <1>1, PrefixFacts
<1>5. SubSeq(q, i, n) = <<q[i]>> \o b
  <2>1. i \in 1..Len(q) /\ Len(q) \in i..Len(q)
    BY <1>1
  <2> QED
    BY ONLY <2>1, q \in Seq(EntryType), SubSeqRecursiveFirst
<1>6. Total(SubSeq(q, i, n)) = q[i].size + Total(b)
  <2>1. q[i] \in EntryType /\ <<q[i]>> \in Seq(EntryType)
    BY <1>1
  <2> QED
    BY <1>3, <1>5, <2>1, TotalOne, TotalConcat
<1>7. RemoveAt(q, i) = a \o b
  BY DEF RemoveAt
<1> HIDE DEF a, b
<1>8. Total(a \o b) = Total(a) + Total(b)
  BY <1>2, <1>3, TotalConcat
<1>9. /\ a \o b \in Seq(EntryType) /\ Len(a \o b) = n - 1
      /\ \A j \in 1..(n - 1) : (a \o b)[j] = IF j < i THEN q[j] ELSE q[j + 1]
  <2> HIDE DEF n
  <2>1. /\ a \o b \in Seq(EntryType) /\ Len(a \o b) = Len(a) + Len(b)
        /\ \A j \in 1..(Len(a) + Len(b)) :
             (a \o b)[j] = IF j <= Len(a) THEN a[j] ELSE b[j - Len(a)]
    BY <1>2, <1>3, ConcatProperties
  <2>2. Len(a) + Len(b) = n - 1
    BY <1>1, <1>2, <1>3
  <2>3. ASSUME NEW j \in 1..(n - 1)
        PROVE  (a \o b)[j] = IF j < i THEN q[j] ELSE q[j + 1]
    <3>1. CASE j < i
      BY <1>1, <1>2, <2>1, <2>2, <3>1
    <3>2. CASE ~(j < i)
      <4>1. (a \o b)[j] = b[j - (i - 1)]
        BY <1>1, <1>2, <2>1, <2>2, <3>2
      <4>2. j - (i - 1) \in 1..(n - i) /\ i + (j - (i - 1)) = j + 1
        BY <1>1, <3>2
      <4> QED
        BY <1>3, <3>2, <4>1, <4>2
    <3> QED
      BY <3>1, <3>2
  <2> QED
    BY <2>1, <2>2, <2>3
<1>10. Total(a) \in Nat /\ Total(b) \in Nat /\ q[i].size \in Nat
  BY <1>1, <1>2, <1>3, TotalSums, EntryFacts
<1> QED
  BY <1>4, <1>6, <1>7, <1>8, <1>9, <1>10

-----------------------------------------------------------------------------
(* What a store holds, and what is sound about one.                        *)
Entries(q) == {q[i] : i \in 1..Len(q)}

StoreType ==
    [lru : Seq(EntryType), count : Nat, size : Nat, evicted : Nat, draws : Nat]

Distinct(q) == \A i, j \in 1..Len(q) : i # j => q[i].key # q[j].key

Sound(s) ==
    /\ s \in StoreType
    /\ Distinct(s.lru)
    /\ s.count = Len(s.lru)
    /\ s.size = Total(s.lru)

Fits(s) == s.count <= MaxEntries /\ s.size <= MaxBytes

Ordered(q, st) ==
    \A i, j \in 1..Len(q) : i < j => st[q[i].key] > st[q[j].key]

(* r has some of the entries of q, in their order.                         *)
Thins(q, r) ==
    \E f \in [1..Len(r) -> 1..Len(q)] :
      /\ \A i, j \in 1..Len(r) : i < j => f[i] < f[j]
      /\ \A i \in 1..Len(r) : r[i] = q[f[i]]

LEMMA ThinsFacts ==
    ASSUME NEW q, NEW r, Len(q) \in Nat, Len(r) \in Nat, Thins(q, r)
    PROVE  /\ Distinct(q) => Distinct(r)
           /\ Entries(r) \subseteq Entries(q)
           /\ \A st : Ordered(q, st) => Ordered(r, st)
<1>1. PICK f \in [1..Len(r) -> 1..Len(q)] :
         /\ \A i, j \in 1..Len(r) : i < j => f[i] < f[j]
         /\ \A i \in 1..Len(r) : r[i] = q[f[i]]
  BY DEF Thins
<1>2. \A i, j \in 1..Len(r) : i # j => f[i] # f[j]
  BY <1>1
<1>3. Distinct(q) => Distinct(r)
  BY <1>1, <1>2 DEF Distinct
<1>4. Entries(r) \subseteq Entries(q)
  BY <1>1 DEF Entries
<1>5. ASSUME NEW st, Ordered(q, st) PROVE Ordered(r, st)
  BY <1>1, <1>5 DEF Ordered
<1> QED
  BY <1>3, <1>4, <1>5

(* Finding an entry by its key.                                            *)
LEMMA FindFacts ==
    ASSUME NEW s, Sound(s), NEW k
    PROVE  /\ Len(s.lru) \in Nat
           /\ Entries(s.lru) \subseteq EntryType
           /\ Has(s, k) <=> \E e \in Entries(s.lru) : e.key = k
           /\ Has(s, k) => /\ Index(s, k) \in 1..Len(s.lru)
                           /\ At(s, k) = s.lru[Index(s, k)]
                           /\ At(s, k) \in Entries(s.lru)
                           /\ At(s, k) \in EntryType /\ At(s, k).key = k
                           /\ \A e \in Entries(s.lru) : e.key = k => e = At(s, k)
<1>1. s.lru \in Seq(EntryType)
  BY DEF Sound, StoreType
<1>2. /\ Len(s.lru) \in Nat /\ DOMAIN s.lru = 1..Len(s.lru)
      /\ \A i \in 1..Len(s.lru) : s.lru[i] \in EntryType
  BY <1>1
<1>3. Entries(s.lru) \subseteq EntryType
  BY <1>2 DEF Entries
<1>4. Has(s, k) <=> \E e \in Entries(s.lru) : e.key = k
  BY <1>2 DEF Has, Place, Entries
<1>5. ASSUME Has(s, k)
      PROVE  /\ Index(s, k) \in 1..Len(s.lru)
             /\ s.lru[Index(s, k)].key = k
  BY <1>2, <1>5 DEF Has, Place, Index
<1>6. At(s, k) = s.lru[Index(s, k)]
  BY DEF At
<1>7. ASSUME Has(s, k), NEW e \in Entries(s.lru), e.key = k
      PROVE  e = At(s, k)
  BY <1>5, <1>6, <1>7 DEF Sound, Distinct, Entries
<1> QED
  BY <1>2, <1>3, <1>4, <1>5, <1>6, <1>7 DEF Entries

(* Removing the i-th entry.                                                *)
LEMMA WithoutFacts ==
    ASSUME NEW q \in Seq(EntryType), Distinct(q), NEW i \in 1..Len(q)
    PROVE  /\ Thins(q, RemoveAt(q, i))
           /\ Entries(RemoveAt(q, i)) = {e \in Entries(q) : e.key # q[i].key}
<1> DEFINE r == RemoveAt(q, i)
           f == [j \in 1..Len(r) |-> IF j < i THEN j ELSE j + 1]
<1>1. /\ Len(q) \in Nat /\ Len(r) = Len(q) - 1
      /\ \A j \in 1..Len(r) : r[j] = IF j < i THEN q[j] ELSE q[j + 1]
  BY RemoveAtFacts
<1> HIDE DEF r
<1>2. /\ f \in [1..Len(r) -> 1..Len(q)]
      /\ \A j, k \in 1..Len(r) : j < k => f[j] < f[k]
      /\ \A j \in 1..Len(r) : r[j] = q[f[j]] /\ f[j] # i
  BY <1>1
<1>3. Thins(q, r)
  BY <1>2 DEF Thins
<1>4. \A j \in 1..Len(q) : j # i => \E m \in 1..Len(r) : f[m] = j
  <2> SUFFICES ASSUME NEW j \in 1..Len(q), j # i
               PROVE  \E m \in 1..Len(r) : f[m] = j
    OBVIOUS
  <2>1. CASE j < i
    BY <1>1, <2>1
  <2>2. CASE j > i
    <3>1. j - 1 \in 1..Len(r) /\ f[j - 1] = j
      BY <1>1, <2>2
    <3> QED
      BY <3>1
  <2> QED
    BY <2>1, <2>2
<1> HIDE DEF f
<1>5. Entries(r) = {e \in Entries(q) : e.key # q[i].key}
  <2>1. ASSUME NEW e \in Entries(r)
        PROVE  e \in Entries(q) /\ e.key # q[i].key
    <3>1. PICK j \in 1..Len(r) : e = r[j]
      BY DEF Entries
    <3>2. f[j] \in 1..Len(q) /\ e = q[f[j]] /\ f[j] # i
      BY <1>2, <3>1
    <3> QED
      BY <3>2 DEF Entries, Distinct
  <2>2. ASSUME NEW e \in Entries(q), e.key # q[i].key
        PROVE  e \in Entries(r)
    <3>1. PICK j \in 1..Len(q) : e = q[j]
      BY DEF Entries
    <3>2. PICK m \in 1..Len(r) : f[m] = j
      BY <1>4, <2>2, <3>1
    <3> QED
      BY <1>2, <3>1, <3>2 DEF Entries
  <2> QED
    BY <2>1, <2>2
<1> QED
  BY <1>3, <1>5 DEF r

LEMMA RemoveFacts ==
    ASSUME NEW s, Sound(s), NEW k, Has(s, k)
    PROVE  LET r == remove(s, k) IN
           /\ Sound(r)
           /\ Entries(r.lru) = {e \in Entries(s.lru) : e.key # k}
           /\ Thins(s.lru, r.lru)
           /\ r.count = s.count - 1 /\ r.size <= s.size
           /\ r.evicted = s.evicted /\ r.draws = s.draws
<1> DEFINE r == remove(s, k)
           i == Index(s, k)
<1>1. /\ s \in StoreType /\ s.lru \in Seq(EntryType) /\ Distinct(s.lru)
      /\ s.count = Len(s.lru) /\ s.size = Total(s.lru)
      /\ s.evicted \in Nat /\ s.draws \in Nat
  BY DEF Sound, StoreType
<1>2. /\ i \in 1..Len(s.lru) /\ At(s, k) = s.lru[i]
      /\ s.lru[i].key = k /\ s.lru[i] \in EntryType /\ Len(s.lru) \in Nat
  BY FindFacts
<1>3. /\ Without(s, k) = RemoveAt(s.lru, i)
      /\ RemoveAt(s.lru, i) \in Seq(EntryType)
      /\ Len(RemoveAt(s.lru, i)) = Len(s.lru) - 1
      /\ Total(s.lru) = Total(RemoveAt(s.lru, i)) + s.lru[i].size
      /\ Total(RemoveAt(s.lru, i)) \in Nat
  BY <1>1, <1>2, RemoveAtFacts, TotalSums DEF Without
<1>4. r = [s EXCEPT !.lru = RemoveAt(s.lru, i), !.count = s.count - 1,
                    !.size = s.size - s.lru[i].size]
  BY <1>2, <1>3 DEF remove
<1>5. s.lru[i].size \in Nat
  BY <1>2, EntryFacts
<1> HIDE DEF r, i
<1>6. /\ r.lru = RemoveAt(s.lru, i) /\ r.count = s.count - 1
      /\ r.size = s.size - s.lru[i].size
      /\ r.evicted = s.evicted /\ r.draws = s.draws
  BY <1>1, <1>4 DEF StoreType
<1>7. r.count \in Nat /\ r.size \in Nat /\ r.size <= s.size /\ r.size = Total(r.lru)
  BY <1>1, <1>2, <1>3, <1>5, <1>6
<1>8. r \in StoreType
  BY <1>1, <1>3, <1>4, <1>6, <1>7 DEF StoreType
<1>9. Thins(s.lru, r.lru) /\ Entries(r.lru) = {e \in Entries(s.lru) : e.key # k}
  BY <1>1, <1>2, <1>6, WithoutFacts
<1>10. Distinct(r.lru)
  BY <1>1, <1>2, <1>3, <1>6, <1>9, ThinsFacts
<1>11. Sound(r)
  BY <1>1, <1>3, <1>6, <1>7, <1>8, <1>10 DEF Sound
<1> QED
  BY <1>6, <1>7, <1>9, <1>11 DEF r

(* st2 is st with k used last.                                             *)
Tops(st, k, st2) == \A x \in Names \ {k} : st2[x] = st[x] /\ st2[k] > st[x]

(* pushFront of an entry whose key q does not hold.                        *)
LEMMA FrontFacts ==
    ASSUME NEW q \in Seq(EntryType), Distinct(q), NEW e \in EntryType,
           \A x \in Entries(q) : x.key # e.key
    PROVE  LET r == <<e>> \o q IN
           /\ r \in Seq(EntryType) /\ Len(r) = Len(q) + 1 /\ Distinct(r)
           /\ Entries(r) = Entries(q) \cup {e}
           /\ Total(r) = Total(q) + e.size
           /\ \A st, st2 : Ordered(q, st) /\ Tops(st, e.key, st2)
                             => Ordered(r, st2)
<1> DEFINE r == <<e>> \o q
<1>1. Len(q) \in Nat /\ \A i \in 1..Len(q) : q[i] \in EntryType
  OBVIOUS
<1>2. <<e>> \in Seq(EntryType) /\ Len(<<e>>) = 1 /\ <<e>>[1] = e
  OBVIOUS
<1>3. /\ r \in Seq(EntryType) /\ Len(r) = Len(q) + 1
      /\ r[1] = e /\ \A i \in 1..Len(q) : r[i + 1] = q[i]
  <2>1. /\ r \in Seq(EntryType) /\ Len(r) = 1 + Len(q)
        /\ \A i \in 1..(1 + Len(q)) :
             r[i] = IF i <= 1 THEN <<e>>[i] ELSE q[i - 1]
    BY <1>2, ConcatProperties
  <2> HIDE DEF r
  <2>2. \A i \in 1..Len(q) : i + 1 \in 1..(1 + Len(q)) /\ (i + 1) - 1 = i
    BY <1>1
  <2>3. r[1] = e
    BY <1>1, <1>2, <2>1
  <2>4. \A i \in 1..Len(q) : r[i + 1] = q[i]
    BY <1>1, <2>1, <2>2
  <2> QED
    BY <1>1, <2>1, <2>3, <2>4
<1>4. Total(r) = Total(q) + e.size
  <2>1. Total(r) = Total(<<e>>) + Total(q)
    BY <1>2, TotalConcat
  <2>2. Total(<<e>>) = e.size
    BY TotalOne
  <2>3. Total(q) \in Nat /\ e.size \in Nat
    BY TotalSums, EntryFacts
  <2> QED
    BY ONLY <2>1, <2>2, <2>3
<1> HIDE DEF r
<1>5. \A i \in 1..Len(r) : i # 1 => i - 1 \in 1..Len(q) /\ r[i] = q[i - 1]
  <2> SUFFICES ASSUME NEW i \in 1..Len(r), i # 1
               PROVE  i - 1 \in 1..Len(q) /\ r[i] = q[i - 1]
    OBVIOUS
  <2>1. i - 1 \in 1..Len(q) /\ (i - 1) + 1 = i
    BY <1>1, <1>3
  <2> QED
    BY <1>3, <2>1
<1>6. Entries(r) = Entries(q) \cup {e}
  <2>1. ASSUME NEW x \in Entries(r) PROVE x \in Entries(q) \cup {e}
    <3>1. PICK i \in 1..Len(r) : x = r[i]
      BY DEF Entries
    <3>2. CASE i = 1
      BY <1>3, <3>1, <3>2
    <3>3. CASE i # 1
      BY <1>5, <3>1, <3>3 DEF Entries
    <3> QED
      BY <3>2, <3>3
  <2>2. e \in Entries(r)
    BY <1>1, <1>3 DEF Entries
  <2>3. ASSUME NEW x \in Entries(q) PROVE x \in Entries(r)
    <3>1. PICK i \in 1..Len(q) : x = q[i]
      BY DEF Entries
    <3>2. i + 1 \in 1..Len(r) /\ r[i + 1] = x
      BY <1>1, <1>3, <3>1
    <3> QED
      BY <3>2 DEF Entries
  <2> QED
    BY <2>1, <2>2, <2>3
<1>7. \A i \in 1..Len(q) : q[i].key # e.key /\ q[i].key \in Names
  BY <1>1, EntryFacts DEF Entries
<1>8. Distinct(r)
  <2> SUFFICES ASSUME NEW i \in 1..Len(r), NEW j \in 1..Len(r), i < j
               PROVE  r[i].key # r[j].key
    BY <1>3 DEF Distinct
  <2>1. j - 1 \in 1..Len(q) /\ r[j] = q[j - 1]
    BY <1>1, <1>3, <1>5
  <2>2. CASE i = 1
    BY <1>3, <1>7, <2>1, <2>2
  <2>3. CASE i # 1
    <3>1. i - 1 \in 1..Len(q) /\ r[i] = q[i - 1] /\ i - 1 # j - 1
      BY <1>5, <2>3
    <3> QED
      BY <2>1, <3>1 DEF Distinct
  <2> QED
    BY <2>2, <2>3
<1>9. ASSUME NEW st, NEW st2, Ordered(q, st), Tops(st, e.key, st2)
      PROVE  Ordered(r, st2)
  <2> SUFFICES ASSUME NEW i \in 1..Len(r), NEW j \in 1..Len(r), i < j
               PROVE  st2[r[i].key] > st2[r[j].key]
    BY DEF Ordered
  <2>9. j - 1 \in 1..Len(q) /\ r[j] = q[j - 1]
    BY <1>1, <1>3, <1>5
  <2>1. st2[r[j].key] = st[r[j].key] /\ st2[e.key] > st[r[j].key]
    BY <1>7, <1>9, <2>9 DEF Tops
  <2>2. CASE i = 1
    BY <1>3, <2>1, <2>2
  <2>3. CASE i # 1
    <3>1. i - 1 \in 1..Len(q) /\ r[i] = q[i - 1] /\ i - 1 < j - 1
      BY <1>1, <1>3, <1>5, <2>3
    <3>2. st2[r[i].key] = st[r[i].key]
      BY <1>7, <1>9, <3>1 DEF Tops
    <3> QED
      BY <1>9, <2>9, <2>1, <3>1, <3>2 DEF Ordered
  <2> QED
    BY <2>2, <2>3
<1> QED
  BY <1>3, <1>4, <1>6, <1>8, <1>9 DEF r

(* getLocked of a live entry: it moves to the front.                       *)
LEMMA UseFacts ==
    ASSUME NEW s, Sound(s), NEW k, Has(s, k)
    PROVE  LET r == use(s, k) IN
           /\ Sound(r)
           /\ Entries(r.lru) = Entries(s.lru)
           /\ r.count = s.count /\ r.size = s.size
           /\ r.evicted = s.evicted /\ r.draws = s.draws
           /\ \A st, st2 : Ordered(s.lru, st) /\ Tops(st, k, st2)
                             => Ordered(r.lru, st2)
<1> DEFINE r == use(s, k)
           i == Index(s, k)
           e == s.lru[i]
           w == RemoveAt(s.lru, i)
<1>1. /\ s \in StoreType /\ s.lru \in Seq(EntryType) /\ Distinct(s.lru)
      /\ s.count = Len(s.lru) /\ s.size = Total(s.lru)
      /\ s.evicted \in Nat /\ s.draws \in Nat
  BY DEF Sound, StoreType
<1>2. /\ i \in 1..Len(s.lru) /\ At(s, k) = e /\ e.key = k
      /\ e \in EntryType /\ Len(s.lru) \in Nat /\ e \in Entries(s.lru)
      /\ \A x \in Entries(s.lru) : x.key = k => x = e
  BY FindFacts
<1>3. /\ Without(s, k) = w /\ w \in Seq(EntryType) /\ Len(w) = Len(s.lru) - 1
      /\ Total(s.lru) = Total(w) + e.size
  BY <1>1, <1>2, RemoveAtFacts DEF Without
<1>4. Thins(s.lru, w) /\ Entries(w) = {x \in Entries(s.lru) : x.key # k}
  BY <1>1, <1>2, WithoutFacts
<1>5. r = [s EXCEPT !.lru = <<e>> \o w]
  BY <1>2, <1>3 DEF use
<1> HIDE DEF r, i, e, w
<1>6. Distinct(w) /\ \A st : Ordered(s.lru, st) => Ordered(w, st)
  <2>1. Len(w) \in Nat
    BY <1>3
  <2> QED
    BY <1>1, <1>2, <1>4, <2>1, ThinsFacts
<1>7. /\ r.lru = <<e>> \o w /\ r.count = s.count /\ r.size = s.size
      /\ r.evicted = s.evicted /\ r.draws = s.draws
  BY <1>1, <1>5 DEF StoreType
<1>8. /\ r.lru \in Seq(EntryType) /\ Len(r.lru) = Len(w) + 1 /\ Distinct(r.lru)
      /\ Entries(r.lru) = Entries(w) \cup {e}
      /\ Total(r.lru) = Total(w) + e.size
      /\ \A st, st2 : Ordered(w, st) /\ Tops(st, k, st2) => Ordered(r.lru, st2)
  BY <1>2, <1>3, <1>4, <1>6, <1>7, FrontFacts
<1>9. Entries(r.lru) = Entries(s.lru)
  BY <1>2, <1>4, <1>8
<1>10. Len(r.lru) = Len(s.lru)
  BY <1>2, <1>3, <1>8
<1>11. r \in StoreType
  BY <1>1, <1>5, <1>7, <1>8 DEF StoreType
<1>12. Sound(r)
  BY <1>1, <1>3, <1>7, <1>8, <1>10, <1>11 DEF Sound
<1> QED
  BY <1>6, <1>7, <1>8, <1>9, <1>12 DEF r

(* Evicting n entries from the tail.                                       *)
LEMMA EvictTailFacts ==
    ASSUME NEW s, Sound(s), NEW n \in 0..Len(s.lru)
    PROVE  LET r == EvictTail(s, n) IN
           /\ Sound(r) /\ Thins(s.lru, r.lru)
           /\ r.count = s.count - n /\ r.size <= s.size
           /\ r.evicted = s.evicted + n /\ r.draws = s.draws
           /\ n = Len(s.lru) => r.count = 0 /\ r.size = 0
<1> DEFINE r == EvictTail(s, n)
           q == s.lru
           m == Len(q) - n
           p == SubSeq(q, 1, m)
           t == SubSeq(q, m + 1, Len(q))
<1>1. /\ s \in StoreType /\ q \in Seq(EntryType) /\ Distinct(q)
      /\ s.count = Len(q) /\ s.size = Total(q)
      /\ s.evicted \in Nat /\ s.draws \in Nat /\ Len(q) \in Nat
  BY DEF Sound, StoreType
<1>2. /\ m \in 0..Len(q) /\ Len(q) - n + 1 = m + 1
  BY <1>1
<1>3. /\ p \in Seq(EntryType) /\ Len(p) = m /\ \A i \in 1..m : p[i] = q[i]
      /\ t \in Seq(EntryType) /\ Total(q) = Total(p) + Total(t)
  BY <1>1, <1>2, PrefixFacts
<1>4. Total(p) \in Nat /\ Total(t) \in Nat
  BY <1>3, TotalSums
<1>5. r = [s EXCEPT !.lru = p, !.count = s.count - n,
                    !.size = s.size - Total(t), !.evicted = s.evicted + n]
  BY <1>2 DEF EvictTail
<1> HIDE DEF r, p, t
<1>6. /\ r.lru = p /\ r.count = s.count - n /\ r.size = s.size - Total(t)
      /\ r.evicted = s.evicted + n /\ r.draws = s.draws
  BY <1>1, <1>5 DEF StoreType
<1>7. Thins(q, p)
  <2> DEFINE f == [i \in 1..Len(p) |-> i]
  <2>1. /\ f \in [1..Len(p) -> 1..Len(q)]
        /\ \A i, j \in 1..Len(p) : i < j => f[i] < f[j]
        /\ \A i \in 1..Len(p) : p[i] = q[f[i]]
    BY <1>1, <1>2, <1>3
  <2> HIDE DEF f
  <2> QED
    BY <2>1 DEF Thins
<1>8. Distinct(p)
  BY <1>1, <1>2, <1>3, <1>7, ThinsFacts
<1>9. /\ r.count \in Nat /\ r.count = Len(p)
      /\ r.size = Total(p) /\ r.size <= s.size /\ r.evicted \in Nat
  BY <1>1, <1>2, <1>3, <1>4, <1>6
<1>10. r \in StoreType
  BY <1>1, <1>3, <1>4, <1>5, <1>6, <1>9 DEF StoreType
<1>11. Sound(r)
  BY <1>6, <1>8, <1>9, <1>10 DEF Sound
<1>12. ASSUME n = Len(q) PROVE r.count = 0 /\ r.size = 0
  <2>1. m = 0 /\ Len(p) = 0
    BY <1>1, <1>3, <1>12
  <2>2. p = <<>>
    BY <1>3, <2>1
  <2> QED
    BY <1>9, <2>1, <2>2, TotalEmpty
<1> QED
  BY <1>6, <1>7, <1>9, <1>11, <1>12 DEF r

-----------------------------------------------------------------------------
(* setLocked: a number of evictions that makes room exists, as an empty    *)
(* store has room for every entry within MaxBytes.                         *)
LEMMA EvictionsFacts ==
    ASSUME NEW s, Sound(s), NEW e \in EntryType, e.size <= MaxBytes
    PROVE  /\ Evictions(s, e) \in 0..Len(s.lru)
           /\ Room(EvictTail(s, Evictions(s, e)), e)
<1> DEFINE n == Len(s.lru)
           P(m) == Room(EvictTail(s, m), e)
           T == {m \in 0..n : P(m)}
<1>1. n \in Nat
  BY FindFacts
<1>2. e.size \in Nat /\ MaxEntries \in Nat \ {0}
  BY EntryFacts, LimitAssumption
<1>3. P(n)
  <2>1. n \in 0..n
    BY <1>1
  <2>2. EvictTail(s, n).count = 0 /\ EvictTail(s, n).size = 0
    BY <2>1, EvictTailFacts
  <2> QED
    BY <1>2, <2>2 DEF Room
<1> HIDE DEF P
<1>4. \E m \in T : \A x \in T : m <= x
  <2>1. T \subseteq Nat /\ n \in T
    BY <1>1, <1>3
  <2> HIDE DEF T
  <2> QED
    BY <2>1, LeastOfSet
<1>5. \E m \in 0..n : P(m) /\ \A x \in 0..(m - 1) : ~P(x)
  <2>1. PICK m \in T : \A x \in T : m <= x
    BY <1>4
  <2>2. \A x \in 0..(m - 1) : x \in 0..n /\ ~(m <= x)
    BY <1>1
  <2> QED
    BY <2>1, <2>2
<1>6. Evictions(s, e) = CHOOSE m \in 0..n : P(m) /\ \A x \in 0..(m - 1) : ~P(x)
  BY DEF Evictions, P
<1> HIDE DEF n
<1>7. Evictions(s, e) \in 0..n /\ P(Evictions(s, e))
  BY <1>5, <1>6
<1> QED
  BY <1>7 DEF P, n

(* The store without the entry that a Set replaces.                        *)
LEMMA OldFacts ==
    ASSUME NEW s, Sound(s), Fits(s), NEW k
    PROVE  LET r == IF Has(s, k) THEN remove(s, k) ELSE s IN
           /\ Sound(r) /\ Fits(r)
           /\ Entries(r.lru) = {x \in Entries(s.lru) : x.key # k}
           /\ r.evicted = s.evicted /\ r.draws = s.draws
           /\ \A st : Ordered(s.lru, st) => Ordered(r.lru, st)
<1> DEFINE r == IF Has(s, k) THEN remove(s, k) ELSE s
<1>1. CASE Has(s, k)
  <2>1. /\ Sound(r) /\ Thins(s.lru, r.lru)
        /\ Entries(r.lru) = {x \in Entries(s.lru) : x.key # k}
        /\ r.count = s.count - 1 /\ r.size <= s.size
        /\ r.evicted = s.evicted /\ r.draws = s.draws
    BY <1>1, RemoveFacts
  <2> HIDE DEF r
  <2>2. Fits(r)
    BY <2>1, LimitAssumption DEF Fits, Sound, StoreType
  <2>3. Len(s.lru) \in Nat /\ Len(r.lru) \in Nat
    BY <2>1, FindFacts
  <2>4. \A st : Ordered(s.lru, st) => Ordered(r.lru, st)
    BY <2>1, <2>3, ThinsFacts
  <2> QED
    BY <2>1, <2>2, <2>4 DEF r
<1>2. CASE ~Has(s, k)
  BY <1>2, FindFacts
<1> QED
  BY <1>1, <1>2

(* The new entry in front of what its evictions left.                      *)
LEMMA PushFacts ==
    ASSUME NEW s, Sound(s), NEW e \in EntryType, Room(s, e),
           \A x \in Entries(s.lru) : x.key # e.key
    PROVE  LET r == Push(s, e) IN
           /\ Sound(r) /\ Fits(r)
           /\ Entries(r.lru) = Entries(s.lru) \cup {e}
           /\ r.evicted = s.evicted /\ r.draws = s.draws
           /\ \A st, st2 : Ordered(s.lru, st) /\ Tops(st, e.key, st2)
                             => Ordered(r.lru, st2)
<1> DEFINE r == Push(s, e)
           q == <<e>> \o s.lru
<1>1. /\ s \in StoreType /\ s.lru \in Seq(EntryType) /\ Distinct(s.lru)
      /\ s.count = Len(s.lru) /\ s.size = Total(s.lru)
      /\ s.evicted \in Nat /\ s.draws \in Nat
      /\ s.count \in Nat /\ s.size \in Nat
  BY DEF Sound, StoreType
<1>2. /\ q \in Seq(EntryType) /\ Len(q) = Len(s.lru) + 1 /\ Distinct(q)
      /\ Entries(q) = Entries(s.lru) \cup {e}
      /\ Total(q) = Total(s.lru) + e.size
      /\ \A st, st2 : Ordered(s.lru, st) /\ Tops(st, e.key, st2)
                        => Ordered(q, st2)
  BY <1>1, FrontFacts
<1>3. r = [s EXCEPT !.lru = q, !.count = s.count + 1, !.size = s.size + e.size]
  BY DEF Push
<1> HIDE DEF r, q
<1>4. /\ r.lru = q /\ r.count = s.count + 1 /\ r.size = s.size + e.size
      /\ r.evicted = s.evicted /\ r.draws = s.draws
  BY <1>1, <1>3 DEF StoreType
<1>5. e.size \in Nat /\ MaxEntries \in Nat /\ MaxBytes \in Nat
  BY EntryFacts, LimitAssumption
<1>6. Fits(r)
  BY <1>1, <1>4, <1>5 DEF Fits, Room
<1>9. r.count \in Nat /\ r.size \in Nat
  BY <1>1, <1>4, <1>5
<1>7. r \in StoreType
  BY <1>1, <1>2, <1>3, <1>4, <1>9 DEF StoreType
<1>8. Sound(r)
  BY <1>1, <1>2, <1>4, <1>7 DEF Sound
<1> QED
  BY <1>2, <1>4, <1>6, <1>8 DEF r

LEMMA SetFacts ==
    ASSUME NEW s, Sound(s), Fits(s), NEW e \in EntryType
    PROVE  LET r == setLocked(s, e) IN
           /\ Sound(r) /\ Fits(r)
           /\ Entries(r.lru) \subseteq {x \in Entries(s.lru) : x.key # e.key}
                                         \cup {e}
           /\ r.evicted >= s.evicted /\ r.draws = s.draws
           /\ \A st, st2 : Ordered(s.lru, st) /\ Tops(st, e.key, st2)
                             => Ordered(r.lru, st2)
<1> DEFINE r == setLocked(s, e)
           o == IF Has(s, e.key) THEN remove(s, e.key) ELSE s
           n == Evictions(o, e)
           v == EvictTail(o, n)
<1>1. /\ Sound(o) /\ Fits(o)
      /\ Entries(o.lru) = {x \in Entries(s.lru) : x.key # e.key}
      /\ o.evicted = s.evicted /\ o.draws = s.draws
      /\ \A st : Ordered(s.lru, st) => Ordered(o.lru, st)
  BY OldFacts
<1>2. r = IF e.size > MaxBytes THEN o ELSE Push(v, e)
  BY DEF setLocked
<1> HIDE DEF r, o
<1>3. s.evicted \in Nat /\ o.lru \in Seq(EntryType) /\ Len(o.lru) \in Nat
  BY <1>1 DEF Sound, StoreType
<1>4. CASE e.size > MaxBytes
  <2>1. r = o /\ s.evicted >= s.evicted
    BY <1>2, <1>3, <1>4
  <2>2. ASSUME NEW st, NEW st2, Ordered(s.lru, st), Tops(st, e.key, st2)
        PROVE  Ordered(o.lru, st2)
    <3>1. /\ \A x \in Entries(o.lru) : x.key # e.key
          /\ Ordered(o.lru, st)
          /\ \A x \in Names \ {e.key} : st2[x] = st[x]
      BY <1>1, <2>2 DEF Tops
    <3>2. \A i \in 1..Len(o.lru) : st2[o.lru[i].key] = st[o.lru[i].key]
      BY <1>3, <3>1, EntryFacts DEF Entries
    <3> QED
      BY <3>1, <3>2 DEF Ordered
  <2> QED
    BY <1>1, <2>1, <2>2 DEF r
<1>5. CASE ~(e.size > MaxBytes)
  <2>1. e.size <= MaxBytes
    BY <1>5, EntryFacts, LimitAssumption
  <2>2. n \in 0..Len(o.lru) /\ Room(v, e)
    BY <1>1, <2>1, EvictionsFacts
  <2> HIDE DEF n
  <2>3. /\ Sound(v) /\ Thins(o.lru, v.lru)
        /\ v.evicted = o.evicted + n /\ v.draws = o.draws
    BY <1>1, <2>2, EvictTailFacts
  <2> HIDE DEF v
  <2>4. Len(v.lru) \in Nat
    BY <2>3, FindFacts
  <2>5. /\ Entries(v.lru) \subseteq Entries(o.lru)
        /\ \A st : Ordered(o.lru, st) => Ordered(v.lru, st)
    BY <1>3, <2>3, <2>4, ThinsFacts
  <2>6. \A x \in Entries(v.lru) : x.key # e.key
    BY <1>1, <2>5
  <2>7. r = Push(v, e)
    BY <1>2, <1>5
  <2>8. /\ Sound(r) /\ Fits(r)
        /\ Entries(r.lru) = Entries(v.lru) \cup {e}
        /\ r.evicted = v.evicted /\ r.draws = v.draws
        /\ \A st, st2 : Ordered(v.lru, st) /\ Tops(st, e.key, st2)
                          => Ordered(r.lru, st2)
    BY <2>2, <2>3, <2>6, <2>7, PushFacts
  <2>9. r.evicted >= s.evicted
    BY <1>1, <1>3, <2>2, <2>3, <2>8
  <2> QED
    BY <1>1, <2>3, <2>5, <2>8, <2>9 DEF r
<1> QED
  BY <1>4, <1>5

-----------------------------------------------------------------------------
(* getLocked: a live entry comes to the front, an expired one goes.        *)
LEMMA GetFacts ==
    ASSUME NEW s, Sound(s), Fits(s), NEW k
    PROVE  LET r == getLocked(s, k) IN
           /\ Sound(r) /\ Fits(r)
           /\ Entries(r.lru) \subseteq Entries(s.lru)
           /\ ~Live(s, k) => \A x \in Entries(r.lru) : x.key # k
           /\ r.evicted >= s.evicted /\ r.draws = s.draws
           /\ \A st, st2 : Ordered(s.lru, st) /\ Tops(st, k, st2)
                             => Ordered(r.lru, st2)
           /\ ~Live(s, k) => \A st : Ordered(s.lru, st) => Ordered(r.lru, st)
<1> DEFINE r == getLocked(s, k)
<1>1. s.evicted \in Nat /\ s.lru \in Seq(EntryType)
  BY DEF Sound, StoreType
<1>2. CASE ~Has(s, k)
  <2>1. r = s /\ ~Live(s, k)
    BY <1>2 DEF getLocked, Live
  <2>2. \A x \in Entries(s.lru) : x.key # k
    BY <1>2, FindFacts
  <2>3. ASSUME NEW st, NEW st2, Ordered(s.lru, st), Tops(st, k, st2)
        PROVE  Ordered(s.lru, st2)
    <3>1. \A i \in 1..Len(s.lru) : st2[s.lru[i].key] = st[s.lru[i].key]
      BY <1>1, <2>2, <2>3, EntryFacts DEF Entries, Tops
    <3> QED
      BY <2>3, <3>1 DEF Ordered
  <2> HIDE DEF r
  <2> QED
    BY <1>1, <2>1, <2>2, <2>3 DEF r
<1>3. CASE Has(s, k) /\ Live(s, k)
  <2>1. r = use(s, k)
    BY <1>3 DEF getLocked
  <2>2. /\ Sound(r) /\ Entries(r.lru) = Entries(s.lru)
        /\ r.count = s.count /\ r.size = s.size
        /\ r.evicted = s.evicted /\ r.draws = s.draws
        /\ \A st, st2 : Ordered(s.lru, st) /\ Tops(st, k, st2)
                          => Ordered(r.lru, st2)
    BY <1>3, <2>1, UseFacts
  <2> HIDE DEF r
  <2>3. Fits(r) /\ r.evicted >= s.evicted
    BY <1>1, <2>2 DEF Fits
  <2> QED
    BY <1>3, <2>2, <2>3 DEF r
<1>4. CASE Has(s, k) /\ ~Live(s, k)
  <2> DEFINE o == remove(s, k)
  <2>1. /\ Sound(o) /\ Entries(o.lru) = {x \in Entries(s.lru) : x.key # k}
        /\ Thins(s.lru, o.lru) /\ o.count = s.count - 1 /\ o.size <= s.size
        /\ o.evicted = s.evicted /\ o.draws = s.draws
    BY <1>4, RemoveFacts
  <2>2. r = [o EXCEPT !.evicted = o.evicted + 1]
    BY <1>4 DEF getLocked, evict
  <2> HIDE DEF r, o
  <2>3. o \in StoreType
    BY <2>1 DEF Sound
  <2>4. /\ r.lru = o.lru /\ r.count = o.count /\ r.size = o.size
        /\ r.evicted = s.evicted + 1 /\ r.draws = s.draws
        /\ r \in StoreType
    BY <2>1, <2>2, <2>3 DEF StoreType
  <2>5. Sound(r) /\ Fits(r)
    <3>1. Sound(r)
      BY <2>1, <2>4 DEF Sound
    <3>2. /\ s.count \in Nat /\ s.size \in Nat /\ o.size \in Nat
          /\ MaxEntries \in Nat /\ MaxBytes \in Nat
      BY <2>3, LimitAssumption DEF Sound, StoreType
    <3>3. Fits(r)
      BY <2>1, <2>4, <3>2 DEF Fits
    <3> QED
      BY <3>1, <3>3
  <2>6. Len(s.lru) \in Nat /\ Len(o.lru) \in Nat
    BY <2>1, FindFacts
  <2>7. \A st : Ordered(s.lru, st) => Ordered(r.lru, st)
    BY <2>1, <2>4, <2>6, ThinsFacts
  <2>8. ASSUME NEW st, NEW st2, Ordered(s.lru, st), Tops(st, k, st2)
        PROVE  Ordered(r.lru, st2)
    <3>1. r.lru \in Seq(EntryType) /\ \A x \in Entries(r.lru) : x.key # k
      BY <2>1, <2>4 DEF StoreType
    <3>2. \A i \in 1..Len(r.lru) : st2[r.lru[i].key] = st[r.lru[i].key]
      BY <2>8, <3>1, EntryFacts DEF Entries, Tops
    <3> QED
      BY <2>7, <2>8, <3>2 DEF Ordered
  <2>9. r.evicted >= s.evicted
    BY <1>1, <2>4
  <2> QED
    BY <1>4, <2>1, <2>4, <2>5, <2>7, <2>8, <2>9 DEF r
<1> QED
  BY <1>2, <1>3, <1>4

(* Generations, as far as the arithmetic on them goes.                     *)
LEMMA GenerationFacts ==
    /\ \A n \in Nat : /\ NewGeneration(n) \in Generation
                      /\ NewGeneration(n)[1] = n /\ NewGeneration(n)[2] = 0
    /\ \A g \in Generation :
         /\ g[1] \in Nat /\ g[2] \in Nat
         /\ Advance(g) \in Generation
         /\ Advance(g)[1] = g[1] /\ Advance(g)[2] = g[2] + 1
    /\ NoGeneration[1] = 0
BY DEF NewGeneration, Generation, Advance, NoGeneration

(* counterLocked, and the second half of Bump: the counter stored is the   *)
(* one read, or one drawn, or one above it.                                *)
LEMMA CounterValueFacts ==
    ASSUME NEW s, Sound(s), NEW t \in Counter, now \in Nat
    PROVE  /\ CounterValue(s, t) \in Generation
           /\ \A g \in Generation : /\ CounterEntry(t, g) \in EntryType
                                    /\ CounterEntry(t, g).key = t
                                    /\ CounterEntry(t, g).val = g
                                    /\ CounterEntry(t, g).expires > now
<1>1. s.draws + 1 \in Nat
  BY DEF Sound, StoreType
<1>2. ASSUME Live(s, t) PROVE CounterValue(s, t) \in Generation
  <2>1. At(s, t) \in EntryType /\ At(s, t).key = t
    BY <1>2, FindFacts DEF Live
  <2>2. CounterValue(s, t) = At(s, t).val
    BY <1>2 DEF CounterValue
  <2> QED
    BY <2>1, <2>2, EntryFacts
<1>3. ASSUME ~Live(s, t) PROVE CounterValue(s, t) \in Generation
  <2>1. CounterValue(s, t) = NewGeneration(s.draws + 1)
    BY <1>3 DEF CounterValue
  <2> QED
    BY <1>1, <2>1, GenerationFacts
<1>4. ASSUME NEW g \in Generation
      PROVE  /\ CounterEntry(t, g) \in EntryType
             /\ CounterEntry(t, g).key = t
             /\ CounterEntry(t, g).val = g
             /\ CounterEntry(t, g).expires > now
  BY LimitAssumption DEF CounterEntry, EntryType
<1> QED
  BY <1>2, <1>3, <1>4

LEMMA CounterFacts ==
    ASSUME NEW s, Sound(s), Fits(s), NEW t \in Counter, now \in Nat
    PROVE  LET r == counterLocked(s, t)
               c == CounterEntry(t, NewGeneration(s.draws + 1)) IN
           /\ Sound(r) /\ Fits(r)
           /\ Live(s, t) => Entries(r.lru) \subseteq Entries(s.lru)
           /\ ~Live(s, t) => Entries(r.lru) \subseteq
                               {x \in Entries(s.lru) : x.key # t} \cup {c}
           /\ r.evicted >= s.evicted
           /\ r.draws = IF Live(s, t) THEN s.draws ELSE s.draws + 1
           /\ \A st, st2 : Ordered(s.lru, st) /\ Tops(st, t, st2)
                             => Ordered(r.lru, st2)
<1> DEFINE r == counterLocked(s, t)
           g == getLocked(s, t)
           d == [g EXCEPT !.draws = g.draws + 1]
           c == CounterEntry(t, NewGeneration(s.draws + 1))
<1>1. /\ Sound(g) /\ Fits(g)
      /\ Entries(g.lru) \subseteq Entries(s.lru)
      /\ ~Live(s, t) => \A x \in Entries(g.lru) : x.key # t
      /\ g.evicted >= s.evicted /\ g.draws = s.draws
      /\ \A st, st2 : Ordered(s.lru, st) /\ Tops(st, t, st2)
                        => Ordered(g.lru, st2)
      /\ ~Live(s, t) => \A st : Ordered(s.lru, st) => Ordered(g.lru, st)
  BY GetFacts
<1>2. CASE Live(s, t)
  <2>1. r = g
    BY <1>2 DEF counterLocked
  <2> HIDE DEF r, g
  <2> QED
    BY <1>1, <1>2, <2>1 DEF r
<1>3. CASE ~Live(s, t)
  <2>1. g \in StoreType /\ g.draws \in Nat /\ s.draws \in Nat
    BY <1>1 DEF Sound, StoreType
  <2>2. /\ d \in StoreType /\ d.lru = g.lru /\ d.count = g.count
        /\ d.size = g.size /\ d.evicted = g.evicted
        /\ d.draws = s.draws + 1
    <3> HIDE DEF g
    <3> QED
      BY <1>1, <2>1 DEF StoreType
  <2>3. r = setLocked(d, CounterEntry(t, NewGeneration(d.draws)))
    <3> HIDE DEF setLocked
    <3> QED
      BY <1>3 DEF counterLocked
  <2> HIDE DEF r, d, g
  <2>4. Sound(d) /\ Fits(d)
    BY <1>1, <2>2 DEF Sound, Fits
  <2>5. r = setLocked(d, c) /\ c \in EntryType /\ c.key = t
    BY <2>1, <2>2, <2>3, CounterValueFacts, GenerationFacts
  <2> HIDE DEF c
  <2>6. /\ Sound(r) /\ Fits(r)
        /\ Entries(r.lru) \subseteq {x \in Entries(d.lru) : x.key # t} \cup {c}
        /\ r.evicted >= d.evicted /\ r.draws = d.draws
        /\ \A st, st2 : Ordered(d.lru, st) /\ Tops(st, t, st2)
                          => Ordered(r.lru, st2)
    BY <2>4, <2>5, SetFacts
  <2>7. r.evicted >= s.evicted
    BY <1>1, <2>2, <2>6 DEF Sound, StoreType
  <2> QED
    BY <1>1, <1>3, <2>2, <2>6, <2>7 DEF r, c
<1> QED
  BY <1>2, <1>3

LEMMA BumpFacts ==
    ASSUME NEW s, Sound(s), Fits(s), NEW t \in Counter, now \in Nat
    PROVE  LET r == AfterBump(s, t)
               c == CounterEntry(t, Advance(CounterValue(s, t))) IN
           /\ Sound(r) /\ Fits(r)
           /\ Entries(r.lru) \subseteq {x \in Entries(s.lru) : x.key # t}
                                         \cup {c}
           /\ r.evicted >= s.evicted
           /\ r.draws = IF Live(s, t) THEN s.draws ELSE s.draws + 1
           /\ \A st, st2 : Ordered(s.lru, st) /\ Tops(st, t, st2)
                             => Ordered(r.lru, st2)
<1> DEFINE r == AfterBump(s, t)
           g == counterLocked(s, t)
           c == CounterEntry(t, Advance(CounterValue(s, t)))
<1>1. /\ Sound(g) /\ Fits(g)
      /\ Entries(g.lru) \subseteq Entries(s.lru)
                          \cup {CounterEntry(t, NewGeneration(s.draws + 1))}
      /\ g.evicted >= s.evicted
      /\ g.draws = IF Live(s, t) THEN s.draws ELSE s.draws + 1
      /\ \A st, st2 : Ordered(s.lru, st) /\ Tops(st, t, st2)
                        => Ordered(g.lru, st2)
  BY CounterFacts
<1>2. /\ c \in EntryType /\ c.key = t
      /\ CounterEntry(t, NewGeneration(s.draws + 1)).key = t
  BY CounterValueFacts, GenerationFacts DEF Sound, StoreType
<1>3. r = setLocked(g, c)
  BY DEF AfterBump
<1> HIDE DEF r, g, c
<1>4. /\ Sound(r) /\ Fits(r)
      /\ Entries(r.lru) \subseteq {x \in Entries(g.lru) : x.key # t} \cup {c}
      /\ r.evicted >= g.evicted /\ r.draws = g.draws
      /\ \A st, st2 : Ordered(g.lru, st) /\ Tops(st, t, st2)
                        => Ordered(r.lru, st2)
  BY <1>1, <1>2, <1>3, SetFacts
<1>5. r.evicted >= s.evicted
  BY <1>1, <1>4 DEF Sound, StoreType
<1>6. ASSUME NEW st, NEW st2, Ordered(s.lru, st), Tops(st, t, st2)
      PROVE  Ordered(r.lru, st2)
  <2>1. Ordered(g.lru, st2)
    BY <1>1, <1>6
  <2>2. \A x \in Names \ {t} : st2[x] = st2[x] /\ st2[t] > st2[x]
    BY <1>6 DEF Tops
  <2>3. Tops(st2, t, st2)
    BY <2>2 DEF Tops
  <2> QED
    BY <1>4, <2>1, <2>3
<1> QED
  BY <1>1, <1>2, <1>4, <1>5, <1>6 DEF r, c

-----------------------------------------------------------------------------
(* The lists of counters a call names, and the calls that fold over them.  *)
LEMMA TagListFacts ==
    ASSUME NEW ts \in TagLists
    PROVE  /\ Len(ts) \in {0, 1, 2} /\ DOMAIN ts = 1..Len(ts)
           /\ ts \in Seq(Counter)
           /\ \A i \in 1..Len(ts) : ts[i] \in Counter
           /\ \A i, j \in 1..Len(ts) : i # j => ts[i] # ts[j]
<1>1. PICK n \in 0..2 : ts \in [1..n -> Counter]
  BY DEF TagLists
<1>2. ts \in Seq(Counter) /\ Len(ts) = n /\ DOMAIN ts = 1..n
  BY <1>1
<1>3. \A i, j \in DOMAIN ts : i # j => ts[i] # ts[j]
  BY DEF TagLists
<1> QED
  BY <1>1, <1>2, <1>3

LEMMA UpToTwo ==
    ASSUME NEW n \in {0, 1, 2}, NEW i \in 0..n
    PROVE  i \in {0, 1, 2}
<1>1. n \in Int /\ i \in Int /\ 0 <= i /\ i <= n /\ n <= 2
  OBVIOUS
<1> QED
  BY <1>1

LEMMA BumpsUnfold ==
    ASSUME NEW s, NEW ts \in TagLists
    PROVE  /\ Len(ts) = 0 => AfterBumps(s, ts) = s
           /\ Len(ts) = 1 => AfterBumps(s, ts) = AfterBump(s, ts[1])
           /\ Len(ts) = 2 => AfterBumps(s, ts)
                               = AfterBump(AfterBump(s, ts[1]), ts[2])
<1> DEFINE Def(h) == h = [i \in 0..Len(ts) |->
                            IF i = 0 THEN s ELSE AfterBump(h[i - 1], ts[i])]
           one == AfterBump(s, ts[1])
           two == AfterBump(one, ts[2])
           g == CHOOSE h : Def(h)
           f == [i \in 0..Len(ts) |->
                   IF i = 0 THEN s ELSE IF i = 1 THEN one ELSE two]
<1>1. Len(ts) \in {0, 1, 2}
  BY TagListFacts
<1>2. Def(f)
  <2>1. ASSUME NEW i \in 0..Len(ts)
        PROVE  f[i] = IF i = 0 THEN s ELSE AfterBump(f[i - 1], ts[i])
    <3>1. i \in {0, 1, 2}
      BY <1>1, UpToTwo
    <3>2. i # 0 => i - 1 \in 0..Len(ts)
      BY <1>1
    <3> HIDE DEF one, two
    <3>3. i = 1 => f[i] = one /\ f[i - 1] = s
      BY <3>2
    <3>4. i = 2 => f[i] = two /\ f[i - 1] = one
      BY <3>2
    <3> QED
      BY <3>1, <3>3, <3>4 DEF one, two
  <2> HIDE DEF one, two
  <2> QED
    BY <2>1
<1> HIDE DEF f
<1>3. Def(g)
  <2> HIDE DEF Def
  <2> QED
    BY <1>2
<1>4. AfterBumps(s, ts) = g[Len(ts)]
  BY DEF AfterBumps
<1> HIDE DEF g
<1>5. g[0] = s
  BY <1>1, <1>3
<1>6. Len(ts) \in {1, 2} => g[1] = one
  BY <1>3, <1>5
<1>7. Len(ts) = 2 => g[2] = two
  BY <1>3, <1>6
<1> QED
  BY <1>4, <1>5, <1>6, <1>7

LEMMA TaggedUnfold ==
    ASSUME NEW s, NEW k, NEW ts \in TagLists
    PROVE  LET r == getLocked(s, k) IN
           /\ Len(ts) = 0 => AfterTagged(s, k, ts) = r
           /\ Len(ts) = 1 => AfterTagged(s, k, ts) = counterLocked(r, ts[1])
           /\ Len(ts) = 2 => AfterTagged(s, k, ts)
                               = counterLocked(counterLocked(r, ts[1]), ts[2])
<1> DEFINE r == getLocked(s, k)
           Def(h) == h = [i \in 0..Len(ts) |->
                            IF i = 0 THEN r ELSE counterLocked(h[i - 1], ts[i])]
           one == counterLocked(r, ts[1])
           two == counterLocked(one, ts[2])
           g == CHOOSE h : Def(h)
           f == [i \in 0..Len(ts) |->
                   IF i = 0 THEN r ELSE IF i = 1 THEN one ELSE two]
<1>4. AfterTagged(s, k, ts) = g[Len(ts)]
  BY DEF AfterTagged
<1> HIDE DEF r
<1>1. Len(ts) \in {0, 1, 2}
  BY TagListFacts
<1>2. Def(f)
  <2>1. ASSUME NEW i \in 0..Len(ts)
        PROVE  f[i] = IF i = 0 THEN r ELSE counterLocked(f[i - 1], ts[i])
    <3>1. i \in {0, 1, 2}
      BY <1>1, UpToTwo
    <3>2. i # 0 => i - 1 \in 0..Len(ts)
      BY <1>1
    <3> HIDE DEF one, two
    <3>3. i = 1 => f[i] = one /\ f[i - 1] = r
      BY <3>2
    <3>4. i = 2 => f[i] = two /\ f[i - 1] = one
      BY <3>2
    <3> QED
      BY <3>1, <3>3, <3>4 DEF one, two
  <2> HIDE DEF one, two
  <2> QED
    BY <2>1
<1> HIDE DEF f
<1>3. Def(g)
  <2> HIDE DEF Def
  <2> QED
    BY <1>2
<1> HIDE DEF g
<1>5. g[0] = r
  BY <1>1, <1>3
<1>6. Len(ts) \in {1, 2} => g[1] = one
  BY <1>3, <1>5
<1>7. Len(ts) = 2 => g[2] = two
  BY <1>3, <1>6
<1> QED
  BY <1>4, <1>5, <1>6, <1>7 DEF r

-----------------------------------------------------------------------------
(* The stamps after the first m of the names a call used.                  *)
UpTo(names, m) ==
    [k \in Names |-> IF \E i \in 1..m : names[i] = k
                       THEN 4 * ops + (CHOOSE i \in 1..m : names[i] = k)
                       ELSE stamp[k]]

StampInv ==
    /\ ops \in Nat
    /\ stamp \in [Names -> Nat]
    /\ \A k \in Names : stamp[k] <= 4 * ops

LEMMA UpToFacts ==
    ASSUME StampInv, NEW names, NEW m \in Nat
    PROVE  /\ UpTo(names, m) \in [Names -> Nat]
           /\ \A k \in Names : UpTo(names, m)[k] <= 4 * ops + m
           /\ m = 0 => UpTo(names, m) = stamp
<1>1. ASSUME NEW k \in Names
      PROVE  /\ UpTo(names, m)[k] \in Nat
             /\ UpTo(names, m)[k] <= 4 * ops + m
             /\ m = 0 => UpTo(names, m)[k] = stamp[k]
  <2> DEFINE c == CHOOSE i \in 1..m : names[i] = k
  <2>1. CASE \E i \in 1..m : names[i] = k
    <3>1. c \in 1..m
      BY <2>1
    <3>2. UpTo(names, m)[k] = 4 * ops + c
      BY <2>1 DEF UpTo
    <3> HIDE DEF c
    <3> QED
      BY <3>1, <3>2 DEF StampInv
  <2>2. CASE ~ \E i \in 1..m : names[i] = k
    <3>1. UpTo(names, m)[k] = stamp[k]
      BY <2>2 DEF UpTo
    <3> QED
      BY <3>1 DEF StampInv
  <2> QED
    BY <2>1, <2>2
<1>2. UpTo(names, m) = [k \in Names |-> UpTo(names, m)[k]]
  BY DEF UpTo
<1> HIDE DEF UpTo
<1>3. UpTo(names, m) \in [Names -> Nat]
  BY <1>1, <1>2
<1>4. m = 0 => UpTo(names, m) = stamp
  BY <1>1, <1>3 DEF StampInv
<1> QED
  BY <1>1, <1>3, <1>4

LEMMA UpToTops ==
    ASSUME StampInv, NEW names, NEW m \in Nat,
           names[m + 1] \in Names,
           \A i, j \in 1..(m + 1) : i # j => names[i] # names[j]
    PROVE  Tops(UpTo(names, m), names[m + 1], UpTo(names, m + 1))
<1> DEFINE n == names[m + 1]
           c(k) == CHOOSE i \in 1..m : names[i] = k
           d(k) == CHOOSE i \in 1..(m + 1) : names[i] = k
<1>1. d(n) = m + 1 /\ UpTo(names, m + 1)[n] = 4 * ops + (m + 1)
  <2>1. m + 1 \in 1..(m + 1)
    OBVIOUS
  <2>2. d(n) \in 1..(m + 1) /\ names[d(n)] = n
    BY <2>1
  <2>3. d(n) = m + 1
    <3> HIDE DEF d
    <3> QED
      BY <2>1, <2>2
  <2> QED
    BY <2>1, <2>3 DEF UpTo
<1>2. ASSUME NEW k \in Names \ {n}
      PROVE  /\ UpTo(names, m + 1)[k] = UpTo(names, m)[k]
             /\ UpTo(names, m + 1)[n] > UpTo(names, m)[k]
  <2>1. \A i \in 1..(m + 1) : names[i] = k => i \in 1..m
    OBVIOUS
  <2>2. \A i \in 1..m : i \in 1..(m + 1)
    OBVIOUS
  <2>3. (\E i \in 1..(m + 1) : names[i] = k) <=> (\E i \in 1..m : names[i] = k)
    BY <2>1, <2>2
  <2>4. (\E i \in 1..m : names[i] = k) => d(k) = c(k)
    <3> SUFFICES ASSUME \E i \in 1..m : names[i] = k PROVE d(k) = c(k)
      OBVIOUS
    <3>1. c(k) \in 1..m /\ names[c(k)] = k
      OBVIOUS
    <3>2. d(k) \in 1..(m + 1) /\ names[d(k)] = k
      BY <2>3
    <3> HIDE DEF c, d
    <3> QED
      BY <3>1, <3>2, <2>2
  <2>5. UpTo(names, m + 1)[k] = UpTo(names, m)[k]
    BY <2>3, <2>4 DEF UpTo
  <2>6. UpTo(names, m)[k] \in Nat /\ UpTo(names, m)[k] <= 4 * ops + m
    BY UpToFacts
  <2> HIDE DEF n
  <2> QED
    BY <1>1, <2>5, <2>6 DEF StampInv
<1> QED
  BY <1>2 DEF Tops

-----------------------------------------------------------------------------
(* What a call may make of the store by the time it has reached r: the     *)
(* values under keys outside K are those of the store; the counters of B   *)
(* have moved, and those of D may have been drawn anew.                    *)
Moved(r, D, B) ==
    \A x \in Entries(r.lru) : x.key \in Counter =>
      \/ x \in Entries(store.lru) /\ x.key \notin B
      \/ /\ x.key \in D /\ now < x.expires
         /\ x.val[1] \in (store.draws + 1)..r.draws
      \/ /\ x.key \in B /\ now < x.expires
         /\ \E y \in Entries(store.lru) :
              y.key = x.key /\ now < y.expires /\ x.val = Advance(y.val)

Reached(r, K, D, B, st) ==
    /\ Sound(r) /\ Fits(r)
    /\ r.evicted >= store.evicted /\ r.draws >= store.draws
    /\ Ordered(r.lru, st)
    /\ \A x \in Entries(r.lru) : x.key \in Key \ K => x \in Entries(store.lru)
    /\ Moved(r, D, B)

LEMMA MovedOn ==
    ASSUME NEW r, NEW r2, NEW D, NEW B, Moved(r, D, B),
           r.draws \in Nat, r2.draws \in Nat, store.draws \in Nat,
           r2.draws >= r.draws,
           NEW x \in Entries(r.lru), x \in EntryType, x.key \in Counter
    PROVE  \/ x \in Entries(store.lru) /\ x.key \notin B
           \/ /\ x.key \in D /\ now < x.expires
              /\ x.val[1] \in (store.draws + 1)..r2.draws
           \/ /\ x.key \in B /\ now < x.expires
              /\ \E y \in Entries(store.lru) :
                   y.key = x.key /\ now < y.expires /\ x.val = Advance(y.val)
<1>1. x.val[1] \in (store.draws + 1)..r.draws
        => x.val[1] \in (store.draws + 1)..r2.draws
  OBVIOUS
<1> QED
  BY <1>1 DEF Moved

LEMMA CounterStep ==
    ASSUME Sound(store), now \in Nat,
           NEW K, NEW D, NEW B, NEW r, NEW st, NEW st2,
           Reached(r, K, D, B, st),
           NEW t \in Counter, t \in D, Tops(st, t, st2)
    PROVE  Reached(counterLocked(r, t), K, D, B, st2)
<1> DEFINE r2 == counterLocked(r, t)
           c == CounterEntry(t, NewGeneration(r.draws + 1))
<1>1. /\ Sound(r) /\ Fits(r) /\ Ordered(r.lru, st) /\ Moved(r, D, B)
      /\ r.evicted >= store.evicted /\ r.draws >= store.draws
      /\ \A x \in Entries(r.lru) : x.key \in Key \ K => x \in Entries(store.lru)
  BY DEF Reached
<1>2. /\ r.evicted \in Nat /\ r.draws \in Nat
      /\ store.evicted \in Nat /\ store.draws \in Nat
  BY <1>1 DEF Sound, StoreType
<1>3. /\ Sound(r2) /\ Fits(r2)
      /\ Live(r, t) => Entries(r2.lru) \subseteq Entries(r.lru)
      /\ ~Live(r, t) => Entries(r2.lru) \subseteq
                          {x \in Entries(r.lru) : x.key # t} \cup {c}
      /\ r2.evicted >= r.evicted
      /\ r2.draws = IF Live(r, t) THEN r.draws ELSE r.draws + 1
      /\ Ordered(r2.lru, st2)
  BY <1>1, CounterFacts
<1>4. c.key = t /\ c.expires > now /\ c.val = NewGeneration(r.draws + 1)
  BY <1>1, <1>2, CounterValueFacts, GenerationFacts
<1>5. c.expires \in Nat /\ c.val[1] = r.draws + 1 /\ t \notin Key
  <2>1. c \in EntryType
    BY <1>1, <1>2, CounterValueFacts, GenerationFacts
  <2> HIDE DEF c
  <2>2. c.expires \in Nat
    BY <2>1, EntryFacts
  <2>3. c.val[1] = r.draws + 1
    BY <1>2, <1>4, GenerationFacts
  <2> QED
    BY <2>2, <2>3, LimitAssumption
<1> HIDE DEF r2, c
<1>6. r2.evicted \in Nat /\ r2.draws \in Nat
  BY <1>3 DEF Sound, StoreType
<1>7. r2.evicted >= store.evicted /\ r2.draws >= store.draws /\ r2.draws >= r.draws
  BY <1>1, <1>2, <1>3, <1>6
<1>8. Entries(r2.lru) \subseteq Entries(r.lru) \cup {c}
  BY <1>3
<1>9. Entries(r.lru) \subseteq EntryType
  BY <1>1, FindFacts
<1>10. ASSUME NEW x \in Entries(r2.lru), x.key \in Key \ K
       PROVE  x \in Entries(store.lru)
  BY <1>1, <1>4, <1>5, <1>8, <1>10
<1>11. Moved(r2, D, B)
  <2> SUFFICES ASSUME NEW x \in Entries(r2.lru), x.key \in Counter
               PROVE  \/ x \in Entries(store.lru) /\ x.key \notin B
                      \/ /\ x.key \in D /\ now < x.expires
                         /\ x.val[1] \in (store.draws + 1)..r2.draws
                      \/ /\ x.key \in B /\ now < x.expires
                         /\ \E y \in Entries(store.lru) :
                              y.key = x.key /\ now < y.expires
                                /\ x.val = Advance(y.val)
    BY DEF Moved
  <2>1. CASE x \in Entries(r.lru)
    BY <1>1, <1>2, <1>6, <1>7, <1>9, <2>1, MovedOn
  <2>2. CASE x \notin Entries(r.lru)
    <3>1. x = c /\ ~Live(r, t)
      BY <1>3, <1>8, <2>2
    <3>2. c.val[1] \in (store.draws + 1)..r2.draws
      BY <1>1, <1>2, <1>3, <1>5, <3>1
    <3>3. c.key \in D /\ now < c.expires
      BY <1>4, <1>5
    <3> QED
      BY <3>1, <3>2, <3>3
  <2> QED
    BY <2>1, <2>2
<1> QED
  BY <1>3, <1>7, <1>10, <1>11 DEF Reached, r2

LEMMA BumpStep ==
    ASSUME Sound(store), now \in Nat,
           NEW B, B \subseteq Counter, NEW r, NEW st, NEW st2,
           Reached(r, {}, B, B, st),
           NEW t \in Counter, t \notin B, Tops(st, t, st2)
    PROVE  Reached(AfterBump(r, t), {}, B \cup {t}, B \cup {t}, st2)
<1> DEFINE r2 == AfterBump(r, t)
           c == CounterEntry(t, Advance(CounterValue(r, t)))
           C == B \cup {t}
<1>1. /\ Sound(r) /\ Fits(r) /\ Ordered(r.lru, st) /\ Moved(r, B, B)
      /\ r.evicted >= store.evicted /\ r.draws >= store.draws
      /\ \A x \in Entries(r.lru) : x.key \in Key \ {} => x \in Entries(store.lru)
  BY DEF Reached
<1>2. /\ r.evicted \in Nat /\ r.draws \in Nat
      /\ store.evicted \in Nat /\ store.draws \in Nat
  BY <1>1 DEF Sound, StoreType
<1>3. /\ Sound(r2) /\ Fits(r2)
      /\ Entries(r2.lru) \subseteq {x \in Entries(r.lru) : x.key # t} \cup {c}
      /\ r2.evicted >= r.evicted
      /\ r2.draws = IF Live(r, t) THEN r.draws ELSE r.draws + 1
      /\ Ordered(r2.lru, st2)
  BY <1>1, BumpFacts
<1>4. /\ c.key = t /\ c.expires > now /\ c.val = Advance(CounterValue(r, t))
      /\ c \in EntryType /\ CounterValue(r, t) \in Generation
  BY <1>1, CounterValueFacts, GenerationFacts
<1> HIDE DEF r2, c
<1>5. c.expires \in Nat /\ t \notin Key
  BY <1>4, EntryFacts, LimitAssumption
<1>6. r2.evicted \in Nat /\ r2.draws \in Nat
  BY <1>3 DEF Sound, StoreType
<1>7. r2.evicted >= store.evicted /\ r2.draws >= store.draws /\ r2.draws >= r.draws
  BY <1>1, <1>2, <1>3, <1>6
<1>9. Entries(r.lru) \subseteq EntryType
  BY <1>1, FindFacts
<1>10. ASSUME NEW x \in Entries(r2.lru), x.key \in Key \ {}
       PROVE  x \in Entries(store.lru)
  BY <1>1, <1>3, <1>4, <1>5, <1>10
<1>12. \/ /\ now < c.expires /\ c.val[1] \in (store.draws + 1)..r2.draws
       \/ /\ now < c.expires
          /\ \E y \in Entries(store.lru) :
               y.key = t /\ now < y.expires /\ c.val = Advance(y.val)
  <2>1. CASE ~Live(r, t)
    <3>1. CounterValue(r, t) = NewGeneration(r.draws + 1)
      BY <2>1 DEF CounterValue
    <3>2. c.val[1] = r.draws + 1
      BY <1>2, <1>4, <3>1, GenerationFacts
    <3>3. c.val[1] \in (store.draws + 1)..r2.draws
      BY <1>1, <1>2, <1>3, <2>1, <3>2
    <3> QED
      BY <1>4, <1>5, <3>3
  <2>2. CASE Live(r, t)
    <3> DEFINE y == At(r, t)
    <3>1. /\ CounterValue(r, t) = y.val /\ now < y.expires
          /\ y \in Entries(r.lru) /\ y \in EntryType /\ y.key = t
      BY <1>1, <2>2, FindFacts DEF CounterValue, Live
    <3> HIDE DEF y
    <3>2. \/ y \in Entries(store.lru)
          \/ y.val[1] \in (store.draws + 1)..r.draws
      BY <1>1, <3>1 DEF Moved
    <3>3. CASE y \in Entries(store.lru)
      BY <1>4, <1>5, <3>1, <3>3
    <3>4. CASE y.val[1] \in (store.draws + 1)..r.draws
      <4>1. c.val[1] = y.val[1]
        BY <1>4, <3>1, GenerationFacts
      <4>2. c.val[1] \in (store.draws + 1)..r2.draws
        BY <1>2, <1>6, <1>7, <3>4, <4>1
      <4> QED
        BY <1>4, <1>5, <4>2
    <3> QED
      BY <3>2, <3>3, <3>4
  <2> QED
    BY <2>1, <2>2
<1>11. Moved(r2, C, C)
  <2> SUFFICES ASSUME NEW x \in Entries(r2.lru), x.key \in Counter
               PROVE  \/ x \in Entries(store.lru) /\ x.key \notin C
                      \/ /\ x.key \in C /\ now < x.expires
                         /\ x.val[1] \in (store.draws + 1)..r2.draws
                      \/ /\ x.key \in C /\ now < x.expires
                         /\ \E y \in Entries(store.lru) :
                              y.key = x.key /\ now < y.expires
                                /\ x.val = Advance(y.val)
    BY DEF Moved
  <2>1. CASE x \in Entries(r.lru) /\ x.key # t
    <3>1. \/ x \in Entries(store.lru) /\ x.key \notin B
          \/ /\ x.key \in B /\ now < x.expires
             /\ x.val[1] \in (store.draws + 1)..r2.draws
          \/ /\ x.key \in B /\ now < x.expires
             /\ \E y \in Entries(store.lru) :
                  y.key = x.key /\ now < y.expires /\ x.val = Advance(y.val)
      BY <1>1, <1>2, <1>6, <1>7, <1>9, <2>1, MovedOn
    <3> QED
      BY <2>1, <3>1
  <2>2. CASE ~(x \in Entries(r.lru) /\ x.key # t)
    <3>1. x = c
      BY <1>3, <2>2
    <3>2. c.key \in C
      BY <1>4
    <3> QED
      BY <1>4, <1>12, <3>1, <3>2
  <2> QED
    BY <2>1, <2>2
<1> QED
  BY <1>3, <1>7, <1>10, <1>11 DEF Reached, r2

LEMMA SameReached ==
    ASSUME Sound(store), Fits(store), NEW D, NEW st, Ordered(store.lru, st)
    PROVE  Reached(store, {}, D, {}, st)
<1>1. store.evicted \in Nat /\ store.draws \in Nat
  BY DEF Sound, StoreType
<1> QED
  BY <1>1 DEF Reached, Moved

LEMMA GetReached ==
    ASSUME Sound(store), Fits(store), StampInv, Ordered(store.lru, stamp),
           NEW k \in Names, NEW D, NEW names,
           Live(store, k) => names[1] = k
    PROVE  Reached(getLocked(store, k), {}, D, {},
                   UpTo(names, IF Live(store, k) THEN 1 ELSE 0))
<1> DEFINE r == getLocked(store, k)
           m == IF Live(store, k) THEN 1 ELSE 0
<1>1. /\ Sound(r) /\ Fits(r) /\ Entries(r.lru) \subseteq Entries(store.lru)
      /\ r.evicted >= store.evicted /\ r.draws = store.draws
      /\ \A st, st2 : Ordered(store.lru, st) /\ Tops(st, k, st2)
                        => Ordered(r.lru, st2)
      /\ ~Live(store, k) =>
           \A st : Ordered(store.lru, st) => Ordered(r.lru, st)
  BY GetFacts
<1> HIDE DEF r
<1>2. store.draws \in Nat
  BY DEF Sound, StoreType
<1>3. Ordered(r.lru, UpTo(names, m))
  <2>1. CASE ~Live(store, k)
    <3>1. UpTo(names, 0) = stamp
      BY UpToFacts
    <3> QED
      BY <1>1, <2>1, <3>1
  <2>2. CASE Live(store, k)
    <3>1. names[0 + 1] = k /\ \A i, j \in 1..(0 + 1) : i # j => names[i] # names[j]
      BY <2>2
    <3>2. Tops(UpTo(names, 0), names[0 + 1], UpTo(names, 0 + 1))
      BY <3>1, UpToTops
    <3>3. UpTo(names, 0) = stamp /\ 0 + 1 = 1
      BY UpToFacts
    <3>4. Tops(stamp, k, UpTo(names, 1))
      BY <3>1, <3>2, <3>3
    <3> QED
      BY <1>1, <2>2, <3>4
  <2> QED
    BY <2>1, <2>2
<1>4. Moved(r, D, {})
  BY <1>1 DEF Moved
<1> HIDE DEF m
<1> QED
  BY <1>1, <1>2, <1>3, <1>4 DEF Reached, r, m

(* The names GetTagged uses: the value if it is there, then the counters.  *)
LEMMA NamesFacts ==
    ASSUME NEW k \in Key, NEW ts \in TagLists, NEW live \in BOOLEAN
    PROVE  LET names == (IF live THEN <<k>> ELSE <<>>) \o ts
               h == IF live THEN 1 ELSE 0 IN
           /\ Len(names) = h + Len(ts) /\ DOMAIN names = 1..(h + Len(ts))
           /\ live => names[1] = k
           /\ \A i \in 1..Len(ts) : names[h + i] = ts[i]
           /\ \A i \in 1..(h + Len(ts)) : names[i] \in Names
           /\ \A i, j \in 1..(h + Len(ts)) : i # j => names[i] # names[j]
<1> DEFINE names == (IF live THEN <<k>> ELSE <<>>) \o ts
           h == IF live THEN 1 ELSE 0
           a == IF live THEN <<k>> ELSE <<>>
<1>1. /\ Len(ts) \in Nat /\ ts \in Seq(Names) /\ ts \in Seq(Counter)
      /\ \A i \in 1..Len(ts) : ts[i] \in Counter /\ ts[i] # k
      /\ \A i, j \in 1..Len(ts) : i # j => ts[i] # ts[j]
  BY TagListFacts, LimitAssumption DEF Names
<1>2. a \in Seq(Names) /\ Len(a) = h /\ h \in {0, 1} /\ (h = 1 => a[1] = k)
  BY DEF Names
<1>3. live <=> h = 1
  OBVIOUS
<1>4. names = a \o ts
  OBVIOUS
<1> HIDE DEF names, h, a
<1>5. /\ names \in Seq(Names) /\ Len(names) = h + Len(ts)
      /\ \A i \in 1..(h + Len(ts)) :
           names[i] = IF i <= h THEN a[i] ELSE ts[i - h]
  BY <1>1, <1>2, <1>4, ConcatProperties
<1>6. h = 1 => names[1] = k
  BY <1>1, <1>2, <1>5
<1>7. ASSUME NEW i \in 1..Len(ts) PROVE names[h + i] = ts[i]
  <2>1. h + i \in 1..(h + Len(ts)) /\ ~(h + i <= h) /\ (h + i) - h = i
    BY <1>1, <1>2
  <2> QED
    BY <1>5, <2>1
<1>8. ASSUME NEW i \in 1..(h + Len(ts)), ~(i = 1 /\ h = 1)
      PROVE  i - h \in 1..Len(ts) /\ names[i] = ts[i - h]
  <2>1. ~(i <= h) /\ i - h \in 1..Len(ts)
    BY <1>1, <1>2, <1>8
  <2> QED
    BY <1>5, <2>1
<1>9. DOMAIN names = 1..(h + Len(ts))
  BY <1>5
<1>10. \A i \in 1..(h + Len(ts)) : names[i] \in Names
  BY <1>5, <1>9
<1>11. ASSUME NEW i \in 1..(h + Len(ts)), NEW j \in 1..(h + Len(ts)), i # j
       PROVE  names[i] # names[j]
  <2>1. CASE i = 1 /\ h = 1
    <3>1. names[j] = ts[j - h] /\ j - h \in 1..Len(ts)
      BY <1>8, <1>11, <2>1
    <3> QED
      BY <1>1, <1>6, <2>1, <3>1
  <2>2. CASE j = 1 /\ h = 1
    <3>1. names[i] = ts[i - h] /\ i - h \in 1..Len(ts)
      BY <1>8, <1>11, <2>2
    <3> QED
      BY <1>1, <1>6, <2>2, <3>1
  <2>3. CASE ~(i = 1 /\ h = 1) /\ ~(j = 1 /\ h = 1)
    <3>1. /\ names[i] = ts[i - h] /\ i - h \in 1..Len(ts)
          /\ names[j] = ts[j - h] /\ j - h \in 1..Len(ts)
      BY <1>8, <2>3
    <3>2. i - h # j - h
      BY <1>1, <1>2, <1>11
    <3> QED
      BY <1>1, <3>1, <3>2
  <2> QED
    BY <2>1, <2>2, <2>3
<1> QED
  BY <1>3, <1>5, <1>6, <1>7, <1>9, <1>10, <1>11 DEF names, h

LEMMA BumpsReached ==
    ASSUME Sound(store), Fits(store), StampInv, Ordered(store.lru, stamp),
           now \in Nat, NEW ts \in TagLists
    PROVE  LET B == {ts[i] : i \in 1..Len(ts)} IN
           Reached(AfterBumps(store, ts), {}, B, B, UpTo(ts, Len(ts)))
<1> DEFINE B == {ts[i] : i \in 1..Len(ts)}
<1>1. /\ Len(ts) \in {0, 1, 2}
      /\ \A i \in 1..Len(ts) : ts[i] \in Counter
      /\ \A i, j \in 1..Len(ts) : i # j => ts[i] # ts[j]
  BY TagListFacts
<1>2. Reached(store, {}, {}, {}, UpTo(ts, 0))
  <2>1. UpTo(ts, 0) = stamp
    BY UpToFacts
  <2> QED
    BY <2>1, SameReached
<1>3. ASSUME Len(ts) \in {1, 2}
      PROVE  Reached(AfterBump(store, ts[1]), {}, {ts[1]}, {ts[1]}, UpTo(ts, 1))
  <2>1. ts[1] \in Counter /\ ts[1] \in Names
    BY <1>1, <1>3 DEF Names
  <2>2. Tops(UpTo(ts, 0), ts[0 + 1], UpTo(ts, 0 + 1))
    BY <2>1, UpToTops
  <2>3. Tops(UpTo(ts, 0), ts[1], UpTo(ts, 1))
    BY <2>2
  <2>4. Reached(AfterBump(store, ts[1]), {}, {} \cup {ts[1]}, {} \cup {ts[1]},
                UpTo(ts, 1))
    BY <1>2, <2>1, <2>3, BumpStep
  <2>5. {} \cup {ts[1]} = {ts[1]}
    OBVIOUS
  <2> QED
    BY ONLY <2>4, <2>5
<1>4. ASSUME Len(ts) = 2
      PROVE  Reached(AfterBump(AfterBump(store, ts[1]), ts[2]),
                     {}, {ts[1], ts[2]}, {ts[1], ts[2]}, UpTo(ts, 2))
  <2>1. /\ ts[1] \in Counter /\ ts[2] \in Counter /\ ts[2] \in Names
        /\ ts[1] # ts[2]
    BY <1>1, <1>4 DEF Names
  <2>2. Tops(UpTo(ts, 1), ts[1 + 1], UpTo(ts, 1 + 1))
    <3>1. \A i, j \in 1..(1 + 1) : i # j => ts[i] # ts[j]
      BY <1>1, <1>4
    <3> QED
      BY <2>1, <3>1, UpToTops
  <2>3. Tops(UpTo(ts, 1), ts[2], UpTo(ts, 2))
    BY <2>2
  <2>4. Reached(AfterBump(store, ts[1]), {}, {ts[1]}, {ts[1]}, UpTo(ts, 1))
    BY <1>3, <1>4
  <2>5. Reached(AfterBump(AfterBump(store, ts[1]), ts[2]), {},
                {ts[1]} \cup {ts[2]}, {ts[1]} \cup {ts[2]}, UpTo(ts, 2))
    BY <2>1, <2>3, <2>4, BumpStep
  <2>6. {ts[1]} \cup {ts[2]} = {ts[1], ts[2]}
    OBVIOUS
  <2> QED
    BY ONLY <2>5, <2>6
<1>5. CASE Len(ts) = 0
  <2>1. B = {} /\ AfterBumps(store, ts) = store
    BY <1>5, BumpsUnfold
  <2> HIDE DEF B
  <2> QED
    BY <1>2, <1>5, <2>1 DEF B
<1>6. CASE Len(ts) = 1
  <2>1. B = {ts[1]} /\ AfterBumps(store, ts) = AfterBump(store, ts[1])
    BY <1>6, BumpsUnfold
  <2> HIDE DEF B
  <2> QED
    BY <1>3, <1>6, <2>1 DEF B
<1>7. CASE Len(ts) = 2
  <2>1. /\ B = {ts[1], ts[2]}
        /\ AfterBumps(store, ts) = AfterBump(AfterBump(store, ts[1]), ts[2])
    BY <1>7, BumpsUnfold
  <2> HIDE DEF B
  <2> QED
    BY <1>4, <1>7, <2>1 DEF B
<1> QED
  BY <1>1, <1>5, <1>6, <1>7

LEMMA TaggedReached ==
    ASSUME Sound(store), Fits(store), StampInv, Ordered(store.lru, stamp),
           now \in Nat, NEW k \in Key, NEW ts \in TagLists,
           NEW names,
           names = (IF Live(store, k) THEN <<k>> ELSE <<>>) \o ts
    PROVE  /\ Reached(AfterTagged(store, k, ts), {}, Counter, {},
                      UpTo(names, Len(names)))
           /\ Len(names) \in 0..3 /\ DOMAIN names = 1..Len(names)
<1> DEFINE h == IF Live(store, k) THEN 1 ELSE 0
           r == getLocked(store, k)
           one == counterLocked(r, ts[1])
           two == counterLocked(one, ts[2])
<1>1. /\ Len(ts) \in {0, 1, 2}
      /\ \A i \in 1..Len(ts) : ts[i] \in Counter
  BY TagListFacts
<1>2. /\ Len(names) = h + Len(ts) /\ DOMAIN names = 1..(h + Len(ts))
      /\ Live(store, k) => names[1] = k
      /\ \A i \in 1..Len(ts) : names[h + i] = ts[i]
      /\ \A i \in 1..(h + Len(ts)) : names[i] \in Names
      /\ \A i, j \in 1..(h + Len(ts)) : i # j => names[i] # names[j]
  <2> DEFINE live == Live(store, k)
  <2>1. live \in BOOLEAN
    BY DEF Live, Has
  <2> HIDE DEF live
  <2>2. LET ns == (IF live THEN <<k>> ELSE <<>>) \o ts
            m == IF live THEN 1 ELSE 0 IN
        /\ Len(ns) = m + Len(ts) /\ DOMAIN ns = 1..(m + Len(ts))
        /\ live => ns[1] = k
        /\ \A i \in 1..Len(ts) : ns[m + i] = ts[i]
        /\ \A i \in 1..(m + Len(ts)) : ns[i] \in Names
        /\ \A i, j \in 1..(m + Len(ts)) : i # j => ns[i] # ns[j]
    BY <2>1, NamesFacts
  <2>3. names = (IF live THEN <<k>> ELSE <<>>) \o ts
    BY DEF live
  <2> QED
    BY <2>2, <2>3 DEF live
<1>3. k \in Names /\ h \in {0, 1}
  BY DEF Names
<1>4. Reached(r, {}, Counter, {}, UpTo(names, h))
  BY <1>2, <1>3, GetReached
<1> HIDE DEF h, r
<1>5. ASSUME Len(ts) \in {1, 2}
      PROVE  Reached(one, {}, Counter, {}, UpTo(names, h + 1))
  <2>1. /\ ts[1] \in Counter /\ names[h + 1] = ts[1] /\ names[h + 1] \in Names
        /\ \A i, j \in 1..(h + 1) : i # j => names[i] # names[j]
    <3>1. h + 1 \in 1..(h + Len(ts)) /\ 1 \in 1..Len(ts)
      BY <1>3, <1>5
    <3>2. \A i \in 1..(h + 1) : i \in 1..(h + Len(ts))
      BY <1>3, <1>5
    <3> QED
      BY <1>1, <1>2, <3>1, <3>2
  <2>2. Tops(UpTo(names, h), ts[1], UpTo(names, h + 1))
    BY <1>3, <2>1, UpToTops
  <2> QED
    BY <1>4, <2>1, <2>2, CounterStep
<1> HIDE DEF one
<1>6. ASSUME Len(ts) = 2
      PROVE  Reached(two, {}, Counter, {}, UpTo(names, h + 2))
  <2>1. /\ ts[2] \in Counter /\ names[h + 2] = ts[2] /\ names[h + 2] \in Names
        /\ \A i, j \in 1..(h + 2) : i # j => names[i] # names[j]
        /\ (h + 1) + 1 = h + 2 /\ h + 1 \in Nat
    <3>1. h + 2 \in 1..(h + Len(ts)) /\ 2 \in 1..Len(ts)
      BY <1>3, <1>6
    <3>2. \A i \in 1..(h + 2) : i \in 1..(h + Len(ts))
      BY <1>3, <1>6
    <3>3. (h + 1) + 1 = h + 2 /\ h + 1 \in Nat
      BY <1>3
    <3> QED
      BY <1>1, <1>2, <3>1, <3>2, <3>3
  <2>2. Tops(UpTo(names, h + 1), names[(h + 1) + 1], UpTo(names, (h + 1) + 1))
    BY ONLY <2>1, UpToTops, StampInv
  <2>3. Tops(UpTo(names, h + 1), ts[2], UpTo(names, h + 2))
    BY <2>1, <2>2
  <2> QED
    BY <1>5, <1>6, <2>1, <2>3, CounterStep
<1> HIDE DEF two
<1>7. Len(names) = h + Len(ts) /\ h + Len(ts) \in 0..3
  BY <1>1, <1>2, <1>3
<1>8. Reached(AfterTagged(store, k, ts), {}, Counter, {}, UpTo(names, h + Len(ts)))
  <2>1. CASE Len(ts) = 0
    <3>1. AfterTagged(store, k, ts) = r /\ h + 0 = h
      BY <1>3, <2>1, TaggedUnfold DEF r
    <3> QED
      BY <1>4, <2>1, <3>1
  <2>2. CASE Len(ts) = 1
    <3>1. AfterTagged(store, k, ts) = one
      BY <2>2, TaggedUnfold DEF r, one
    <3> QED
      BY <1>5, <2>2, <3>1
  <2>3. CASE Len(ts) = 2
    <3>1. AfterTagged(store, k, ts) = two
      BY <2>3, TaggedUnfold DEF r, one, two
    <3> QED
      BY <1>6, <2>3, <3>1
  <2> QED
    BY <1>1, <2>1, <2>2, <2>3
<1> QED
  BY <1>2, <1>7, <1>8

-----------------------------------------------------------------------------
(* The inductive invariant.                                                *)
TypeInv ==
    /\ now \in 0..MaxNow /\ ops \in 0..MaxOps
    /\ pc \in [Proc -> {"idle", "report"}]
    /\ latest \in [Key -> Nat]
    /\ evictions \in Nat /\ reported \in Nat
    /\ used \in [Counter -> SUBSET Generation]

Settled == Sound(store) /\ Fits(store) /\ Ordered(store.lru, stamp)

LatestInv ==
    \A e \in Entries(store.lru) : e.key \in Key => e.val = latest[e.key]

(* What a counter holds it has held, and nothing beyond it of its draw;    *)
(* and nothing is held that was not drawn.                                 *)
CounterInv ==
    /\ \A e \in Entries(store.lru) : e.key \in Counter =>
         /\ e.val \in used[e.key]
         /\ \A g \in used[e.key] : g[1] = e.val[1] => g[2] <= e.val[2]
    /\ \A t \in Counter : \A g \in used[t] : g[1] \in 1..store.draws

IInv ==
    /\ TypeInv /\ Settled /\ StampInv
    /\ LatestInv /\ ReportedOnce /\ CounterInv

LEMMA LiveFacts ==
    ASSUME NEW s, Sound(s), now \in Nat, NEW t
    PROVE  /\ Live(s, t) => At(s, t).val \in Held(s, t)
           /\ \A g \in Held(s, t) : \E e \in Entries(s.lru) :
                e \in EntryType /\ e.key = t /\ now < e.expires /\ e.val = g
           /\ \A e \in Entries(s.lru) :
                e.key = t /\ now < e.expires => /\ e.val \in Held(s, t)
                                                /\ Held(s, t) = {e.val}
<1>1. ASSUME Live(s, t)
      PROVE  /\ Held(s, t) = {At(s, t).val}
             /\ At(s, t) \in Entries(s.lru) /\ At(s, t) \in EntryType
             /\ At(s, t).key = t /\ now < At(s, t).expires
  BY <1>1, FindFacts DEF Held, Live
<1>2. ASSUME NEW e \in Entries(s.lru), e.key = t, now < e.expires
      PROVE  Live(s, t) /\ e = At(s, t)
  BY <1>2, FindFacts DEF Live
<1>3. ~Live(s, t) => Held(s, t) = {}
  BY DEF Held
<1> QED
  BY <1>1, <1>2, <1>3

(* What every call leaves: the invariant but for the values, which each    *)
(* call treats in its own way, and the queue of reports.                   *)
LEMMA CallKeeps ==
    ASSUME TypeInv, Settled, StampInv, CounterInv,
           NEW p \in Proc, NEW r, NEW names, NEW K, NEW D, NEW B,
           Call(p, r, names),
           Reached(r, K, D, B, UpTo(names, Len(names))),
           Len(names) \in 0..3, DOMAIN names = 1..Len(names)
    PROVE  /\ Settled' /\ StampInv' /\ CounterInv'
           /\ now' = now /\ ops' \in 0..MaxOps
           /\ evictions' \in Nat /\ reported' = reported
           /\ evictions' = evictions + r.evicted - store.evicted
           /\ used' \in [Counter -> SUBSET Generation]
           /\ store' = r /\ r.draws \in Nat /\ pc[p] = "idle"
<1> DEFINE st == UpTo(names, Len(names))
<1>1. /\ store' = r /\ ops' = ops + 1 /\ ops < MaxOps /\ now' = now
      /\ evictions' = evictions + r.evicted - store.evicted
      /\ reported' = reported /\ pc[p] = "idle"
      /\ used' = [t \in Counter |-> used[t] \cup Held(r, t)]
      /\ stamp' = st
  BY DEF Call, UpTo
<1>2. /\ Sound(r) /\ Fits(r) /\ Ordered(r.lru, st) /\ Moved(r, D, B)
      /\ r.evicted >= store.evicted /\ r.draws >= store.draws
  BY DEF Reached
<1>3. /\ r.evicted \in Nat /\ r.draws \in Nat
      /\ store.evicted \in Nat /\ store.draws \in Nat
      /\ now \in Nat /\ ops \in Nat /\ evictions \in Nat
  BY <1>2, LimitAssumption DEF Sound, StoreType, Settled, TypeInv
<1>4. /\ st \in [Names -> Nat] /\ \A k \in Names : st[k] <= 4 * ops + Len(names)
  BY UpToFacts
<1> HIDE DEF st
<1>5. StampInv'
  <2>1. \A k \in Names : st[k] <= 4 * (ops + 1)
    BY <1>3, <1>4
  <2> QED
    BY <1>1, <1>3, <1>4, <2>1 DEF StampInv
<1>6. Settled'
  BY <1>1, <1>2 DEF Settled
<1>7. ops' \in 0..MaxOps /\ evictions' \in Nat
  <2>1. MaxOps \in Nat
    BY LimitAssumption
  <2>2. ops' \in 0..MaxOps
    BY <1>1, <1>3, <2>1
  <2>3. evictions' \in Nat
    BY <1>1, <1>2, <1>3
  <2> QED
    BY <2>2, <2>3
<1>8. Entries(r.lru) \subseteq EntryType
  BY <1>2, FindFacts
<1>9. \A t \in Counter : Held(r, t) \subseteq Generation
  BY <1>2, <1>3, LiveFacts, EntryFacts
<1>10. used' \in [Counter -> SUBSET Generation]
  BY <1>1, <1>9 DEF TypeInv
<1>11. ASSUME NEW t \in Counter, NEW e \in Entries(r.lru), e.key = t
       PROVE  \/ /\ e \in Entries(store.lru) /\ t \notin B
              \/ /\ now < e.expires
                 /\ \A g \in used[t] : g[1] = e.val[1] => g[2] <= e.val[2]
  <2>1. e \in EntryType /\ e.val \in Generation
    BY <1>8, <1>11, EntryFacts
  <2>2. used[t] \subseteq Generation /\ \A g \in used[t] : g[1] \in 1..store.draws
    BY DEF TypeInv, CounterInv
  <2>3. CASE e \in Entries(store.lru) /\ t \notin B
    BY <2>3
  <2>4. CASE now < e.expires /\ e.val[1] \in (store.draws + 1)..r.draws
    <3>1. ASSUME NEW g \in used[t] PROVE g[1] # e.val[1]
      <4>1. g[1] \in 1..store.draws
        BY <2>2
      <4> QED
        BY <1>3, <2>4, <4>1
    <3> QED
      BY <2>4, <3>1
  <2>5. CASE /\ now < e.expires
             /\ \E y \in Entries(store.lru) :
                  y.key = e.key /\ now < y.expires /\ e.val = Advance(y.val)
    <3>1. PICK y \in Entries(store.lru) :
                  y.key = e.key /\ now < y.expires /\ e.val = Advance(y.val)
      BY <2>5
    <3>2. y.val \in used[t] /\ \A g \in used[t] : g[1] = y.val[1] => g[2] <= y.val[2]
      BY <1>11, <3>1 DEF CounterInv
    <3>3. /\ y.val \in Generation /\ e.val[1] = y.val[1]
          /\ e.val[2] = y.val[2] + 1 /\ y.val[2] \in Nat
      BY <2>2, <3>1, <3>2, GenerationFacts
    <3>4. \A g \in used[t] : g[2] \in Nat
      BY <2>2, GenerationFacts
    <3>5. \A g \in used[t] : g[1] = e.val[1] => g[2] <= e.val[2]
      BY <3>2, <3>3, <3>4
    <3> QED
      BY <2>5, <3>5
  <2> QED
    BY <1>2, <1>11, <2>3, <2>4, <2>5 DEF Moved
<1>12. ASSUME NEW t \in Counter, NEW e \in Entries(r.lru), e.key = t
       PROVE  /\ e.val \in used'[t]
              /\ \A g \in used'[t] : g[1] = e.val[1] => g[2] <= e.val[2]
  <2>1. used'[t] = used[t] \cup Held(r, t)
    BY <1>1
  <2>2. e.val \in Generation /\ e.val[2] \in Nat
    BY <1>8, <1>12, EntryFacts, GenerationFacts
  <2>3. /\ \A g \in used[t] : g[1] = e.val[1] => g[2] <= e.val[2]
        /\ e.val \in used[t] \/ now < e.expires
    BY <1>11, <1>12 DEF CounterInv
  <2>4. \A x \in Entries(r.lru) : x.key = t => x = e
    BY <1>2, <1>12, FindFacts
  <2>5. Held(r, t) \subseteq {e.val}
    BY <1>2, <1>3, <2>4, LiveFacts
  <2>6. now < e.expires => e.val \in Held(r, t)
    BY <1>2, <1>3, <1>12, LiveFacts
  <2> QED
    BY <2>1, <2>2, <2>3, <2>5, <2>6
<1>13. ASSUME NEW t \in Counter, NEW g \in used'[t]
       PROVE  g[1] \in 1..r.draws
  <2>1. CASE g \in used[t]
    <3>1. g[1] \in 1..store.draws
      BY <2>1 DEF CounterInv
    <3> QED
      BY <1>2, <1>3, <3>1
  <2>2. CASE g \in Held(r, t)
    <3>1. PICK e \in Entries(r.lru) : e \in EntryType /\ e.key = t /\ e.val = g
      BY <1>2, <1>3, <2>2, LiveFacts
    <3>2. \/ e \in Entries(store.lru)
          \/ e.val[1] \in (store.draws + 1)..r.draws
          \/ \E y \in Entries(store.lru) : y.key = t /\ e.val = Advance(y.val)
      BY <1>2, <3>1 DEF Moved
    <3>3. \A y \in Entries(store.lru) : y.key = t =>
            y.val \in Generation /\ y.val[1] \in 1..store.draws
      BY DEF CounterInv, TypeInv
    <3>4. \A y \in Entries(store.lru) : y.key = t =>
            /\ y.val[1] \in 1..r.draws
            /\ Advance(y.val)[1] = y.val[1]
      BY <1>2, <1>3, <3>3, GenerationFacts
    <3>6. e.val[1] \in (store.draws + 1)..r.draws => e.val[1] \in 1..r.draws
      BY <1>3
    <3>5. e.val[1] \in 1..r.draws
      BY <3>1, <3>2, <3>4, <3>6
    <3> QED
      BY <3>1, <3>5
  <2> QED
    BY <1>1, <2>1, <2>2
<1>14. CounterInv'
  BY <1>1, <1>12, <1>13 DEF CounterInv
<1> QED
  BY <1>1, <1>3, <1>5, <1>6, <1>7, <1>10, <1>14

LEMMA SetReached ==
    ASSUME Sound(store), Fits(store), StampInv, Ordered(store.lru, stamp),
           NEW k \in Key, NEW e \in EntryType, e.key = k
    PROVE  LET r == setLocked(store, e) IN
           /\ Reached(r, {k}, {}, {}, UpTo(<<k>>, Len(<<k>>)))
           /\ \A x \in Entries(r.lru) : x.key = k => x = e
<1> DEFINE r == setLocked(store, e)
           names == <<k>>
<1>1. /\ Sound(r) /\ Fits(r)
      /\ Entries(r.lru) \subseteq {x \in Entries(store.lru) : x.key # k} \cup {e}
      /\ r.evicted >= store.evicted /\ r.draws = store.draws
      /\ \A st, st2 : Ordered(store.lru, st) /\ Tops(st, k, st2)
                        => Ordered(r.lru, st2)
  BY SetFacts
<1>2. Ordered(r.lru, UpTo(names, 1))
  <2>1. names[0 + 1] = k /\ k \in Names
    BY DEF Names
  <2>2. \A i, j \in 1..(0 + 1) : i # j => names[i] # names[j]
    OBVIOUS
  <2> HIDE DEF names, r
  <2>3. Tops(UpTo(names, 0), names[0 + 1], UpTo(names, 0 + 1))
    BY <2>1, <2>2, UpToTops
  <2>4. UpTo(names, 0) = stamp /\ 0 + 1 = 1
    BY UpToFacts
  <2>5. Tops(stamp, k, UpTo(names, 1))
    BY ONLY <2>1, <2>3, <2>4
  <2> QED
    BY <1>1, <2>5
<1>3. Len(names) = 1 /\ k \notin Counter
  BY LimitAssumption
<1>4. store.draws \in Nat
  BY DEF Sound, StoreType
<1> HIDE DEF r, names
<1>5. Moved(r, {}, {})
  BY <1>1, <1>3 DEF Moved
<1>6. Reached(r, {k}, {}, {}, UpTo(names, Len(names)))
  BY <1>1, <1>2, <1>3, <1>4, <1>5 DEF Reached
<1> QED
  BY <1>1, <1>6 DEF r, names

LEMMA DeleteReached ==
    ASSUME Sound(store), Fits(store), StampInv, Ordered(store.lru, stamp),
           NEW k \in Key
    PROVE  LET r == IF Has(store, k) THEN remove(store, k) ELSE store IN
           /\ Reached(r, {k}, {}, {}, UpTo(<<>>, Len(<<>>)))
           /\ \A x \in Entries(r.lru) : x.key # k
           /\ r.evicted = store.evicted
<1> DEFINE r == IF Has(store, k) THEN remove(store, k) ELSE store
<1>1. /\ Sound(r) /\ Fits(r)
      /\ Entries(r.lru) = {x \in Entries(store.lru) : x.key # k}
      /\ r.evicted = store.evicted /\ r.draws = store.draws
      /\ \A st : Ordered(store.lru, st) => Ordered(r.lru, st)
  BY OldFacts
<1> HIDE DEF r
<1>2. UpTo(<<>>, Len(<<>>)) = stamp
  BY UpToFacts
<1>3. store.draws \in Nat /\ store.evicted \in Nat /\ k \notin Counter
  BY LimitAssumption DEF Sound, StoreType
<1>4. Moved(r, {}, {})
  BY <1>1 DEF Moved
<1> QED
  BY <1>1, <1>2, <1>3, <1>4 DEF Reached, r

(* How each method call comes to what CallKeeps asks.                      *)
LEMMA GetCall ==
    ASSUME TypeInv, Settled, StampInv, CounterInv,
           NEW p \in Proc, NEW k \in Key, Get(p, k)
    PROVE  \E names :
             /\ Call(p, getLocked(store, k), names)
             /\ Reached(getLocked(store, k), {}, Counter, {},
                        UpTo(names, Len(names)))
             /\ Len(names) \in 0..3 /\ DOMAIN names = 1..Len(names)
<1> DEFINE live == Live(store, k)
           m == IF live THEN 1 ELSE 0
           names == IF live THEN <<k>> ELSE <<>>
<1>1. /\ Len(names) = m /\ m \in 0..3 /\ DOMAIN names = 1..m
      /\ live => names[1] = k
  <2> HIDE DEF live
  <2>1. CASE live
    BY <2>1
  <2>2. CASE ~live
    BY <2>2
  <2> QED
    BY <2>1, <2>2
<1>2. Call(p, getLocked(store, k), names)
  BY DEF Get
<1> HIDE DEF names
<1>3. Reached(getLocked(store, k), {}, Counter, {}, UpTo(names, m))
  <2>1. k \in Names
    BY DEF Names
  <2> QED
    BY <1>1, <2>1, GetReached DEF Settled
<1> QED
  BY <1>1, <1>2, <1>3

LEMMA GetTaggedCall ==
    ASSUME TypeInv, Settled, StampInv, CounterInv,
           NEW p \in Proc, NEW k \in Key, NEW ts \in TagLists,
           GetTagged(p, k, ts)
    PROVE  \E names :
             /\ Call(p, AfterTagged(store, k, ts), names)
             /\ Reached(AfterTagged(store, k, ts), {}, Counter, {},
                        UpTo(names, Len(names)))
             /\ Len(names) \in 0..3 /\ DOMAIN names = 1..Len(names)
<1>1. PICK names : names = (IF Live(store, k) THEN <<k>> ELSE <<>>) \o ts
  OBVIOUS
<1>2. Call(p, AfterTagged(store, k, ts), names)
  BY <1>1 DEF GetTagged
<1>3. now \in Nat
  BY LimitAssumption DEF TypeInv
<1>4. /\ Reached(AfterTagged(store, k, ts), {}, Counter, {},
                 UpTo(names, Len(names)))
      /\ Len(names) \in 0..3 /\ DOMAIN names = 1..Len(names)
  BY <1>1, <1>3, TaggedReached DEF Settled
<1> QED
  BY <1>2, <1>4

LEMMA BumpCall ==
    ASSUME TypeInv, Settled, StampInv, CounterInv,
           NEW p \in Proc, NEW ts \in TagLists, Bump(p, ts)
    PROVE  LET B == {ts[i] : i \in 1..Len(ts)} IN
           /\ Call(p, AfterBumps(store, ts), ts)
           /\ Reached(AfterBumps(store, ts), {}, B, B, UpTo(ts, Len(ts)))
           /\ Len(ts) \in 0..3 /\ DOMAIN ts = 1..Len(ts)
<1>1. now \in Nat
  BY LimitAssumption DEF TypeInv
<1>2. Call(p, AfterBumps(store, ts), ts)
  BY DEF Bump
<1>3. Len(ts) \in {0, 1, 2} /\ DOMAIN ts = 1..Len(ts)
  BY TagListFacts
<1>4. Len(ts) \in 0..3
  BY <1>3
<1> QED
  BY <1>1, <1>2, <1>3, <1>4, BumpsReached DEF Settled

(* A call that leaves every value as it was, but for the one it sets.      *)
LEMMA ValuesKept ==
    ASSUME TypeInv, LatestInv,
           NEW r, NEW K, NEW D, NEW B, NEW st, Reached(r, K, D, B, st),
           store' = r,
           \A k \in Key \ K : latest'[k] = latest[k],
           \A e \in Entries(r.lru) : e.key \in Key \cap K
                                       => e.val = latest'[e.key]
    PROVE  LatestInv'
<1> SUFFICES ASSUME NEW e \in Entries(r.lru), e.key \in Key
             PROVE  e.val = latest'[e.key]
  BY DEF LatestInv
<1>1. CASE e.key \in K
  BY <1>1
<1>2. CASE e.key \notin K
  <2>1. e \in Entries(store.lru)
    BY <1>2 DEF Reached
  <2> QED
    BY <1>2, <2>1 DEF LatestInv
<1> QED
  BY <1>1, <1>2

(* A call that owes a report.                                              *)
LEMMA ReportOwed ==
    ASSUME TypeInv, ReportedOnce, Sound(store), NEW p \in Proc,
           pc' = [pc EXCEPT ![p] = "report"],
           reported' = reported, store'.evicted \in Nat,
           evictions' = evictions + store'.evicted - store.evicted
    PROVE  pc' \in [Proc -> {"idle", "report"}] /\ ReportedOnce'
<1>1. /\ reported + store.evicted = evictions
      /\ reported \in Nat /\ evictions \in Nat /\ store.evicted \in Nat
  BY DEF ReportedOnce, TypeInv, Sound, StoreType
<1>2. reported' + store'.evicted = evictions'
  BY <1>1
<1>3. pc' \in [Proc -> {"idle", "report"}] /\ pc'[p] = "report"
  BY DEF TypeInv
<1> QED
  BY <1>2, <1>3 DEF ReportedOnce

(* The four calls that report: what is left to show of each is its values. *)
LEMMA CallStep ==
    ASSUME IInv, NEW p \in Proc, NEW r, NEW names, NEW K, NEW D, NEW B,
           Call(p, r, names),
           Reached(r, K, D, B, UpTo(names, Len(names))),
           Len(names) \in 0..3, DOMAIN names = 1..Len(names),
           pc' = [pc EXCEPT ![p] = "report"],
           latest' \in [Key -> Nat],
           \A k \in Key \ K : latest'[k] = latest[k],
           \A e \in Entries(r.lru) : e.key \in Key \cap K
                                       => e.val = latest'[e.key]
    PROVE  IInv'
<1>1. /\ TypeInv /\ Settled /\ StampInv /\ LatestInv
      /\ ReportedOnce /\ CounterInv
  BY DEF IInv
<1>2. /\ Settled' /\ StampInv' /\ CounterInv'
      /\ now' = now /\ ops' \in 0..MaxOps
      /\ evictions' \in Nat /\ reported' = reported
      /\ evictions' = evictions + r.evicted - store.evicted
      /\ used' \in [Counter -> SUBSET Generation]
      /\ store' = r
  BY <1>1, CallKeeps
<1>3. LatestInv'
  BY <1>1, <1>2, ValuesKept
<1>4. r.evicted \in Nat /\ Sound(store)
  BY <1>1 DEF Reached, Sound, StoreType, Settled
<1>5. pc' \in [Proc -> {"idle", "report"}] /\ ReportedOnce'
  BY <1>1, <1>2, <1>4, ReportOwed
<1>6. TypeInv'
  BY <1>1, <1>2, <1>5 DEF TypeInv
<1> QED
  BY <1>2, <1>3, <1>5, <1>6 DEF IInv

LEMMA SetStep ==
    ASSUME IInv, NEW p \in Proc, NEW k \in Key, NEW size \in Sizes,
           NEW ttl \in TTLs, Set(p, k, size, ttl)
    PROVE  IInv'
<1> DEFINE e == [key |-> k, val |-> ops + 1, size |-> size, expires |-> now + ttl]
<1>1. /\ TypeInv /\ Settled /\ StampInv /\ CounterInv
      /\ latest \in [Key -> Nat]
  BY DEF IInv, TypeInv
<1>2. ops \in Nat /\ now \in Nat /\ size \in Nat /\ ttl \in Nat
  BY <1>1, LimitAssumption DEF TypeInv, StampInv
<1>3. e \in EntryType /\ e.key = k /\ e.val = ops + 1
  BY <1>2 DEF EntryType
<1>4. /\ Call(p, setLocked(store, e), <<k>>)
      /\ latest' = [latest EXCEPT ![k] = ops + 1]
      /\ pc' = [pc EXCEPT ![p] = "report"]
  BY DEF Set
<1> HIDE DEF e
<1>5. PICK r : r = setLocked(store, e)
  OBVIOUS
<1>6. /\ Reached(r, {k}, {}, {}, UpTo(<<k>>, Len(<<k>>)))
      /\ \A x \in Entries(r.lru) : x.key = k => x = e
  BY <1>1, <1>3, <1>5, SetReached DEF Settled
<1>7. PICK names : names = <<k>>
  OBVIOUS
<1>8. Len(names) \in 0..3 /\ DOMAIN names = 1..Len(names)
  BY <1>7
<1>9. /\ latest' \in [Key -> Nat] /\ latest'[k] = ops + 1
      /\ \A x \in Key \ {k} : latest'[x] = latest[x]
  BY <1>1, <1>2, <1>4
<1>10. \A x \in Entries(r.lru) : x.key \in Key \cap {k}
                                   => x.val = latest'[x.key]
  BY <1>3, <1>6, <1>9
<1> QED
  BY <1>4, <1>5, <1>6, <1>7, <1>8, <1>9, <1>10, CallStep

LEMMA DeleteStep ==
    ASSUME IInv, NEW p \in Proc, NEW k \in Key, Delete(p, k)
    PROVE  IInv'
<1>1. /\ TypeInv /\ Settled /\ StampInv /\ LatestInv
      /\ ReportedOnce /\ CounterInv
  BY DEF IInv
<1>2. PICK r : r = IF Has(store, k) THEN remove(store, k) ELSE store
  OBVIOUS
<1>3. PICK names : names = <<>>
  OBVIOUS
<1>4. /\ Call(p, r, names) /\ latest' = [latest EXCEPT ![k] = 0] /\ pc' = pc
  BY <1>2, <1>3 DEF Delete
<1>5. /\ Reached(r, {k}, {}, {}, UpTo(names, Len(names)))
      /\ \A x \in Entries(r.lru) : x.key # k
      /\ r.evicted = store.evicted
  BY <1>1, <1>2, <1>3, DeleteReached DEF Settled
<1>6. Len(names) \in 0..3 /\ DOMAIN names = 1..Len(names)
  BY <1>3
<1>7. /\ Settled' /\ StampInv' /\ CounterInv'
      /\ now' = now /\ ops' \in 0..MaxOps
      /\ evictions' \in Nat /\ reported' = reported
      /\ evictions' = evictions + r.evicted - store.evicted
      /\ used' \in [Counter -> SUBSET Generation]
      /\ store' = r
  BY <1>1, <1>4, <1>5, <1>6, CallKeeps
<1>8. latest' \in [Key -> Nat] /\ \A x \in Key \ {k} : latest'[x] = latest[x]
  BY <1>1, <1>4 DEF TypeInv
<1>9. LatestInv'
  BY <1>1, <1>5, <1>7, <1>8, ValuesKept
<1>10. ReportedOnce'
  <2>1. store.evicted \in Nat /\ evictions \in Nat
    BY <1>1 DEF Settled, Sound, StoreType, TypeInv
  <2>2. evictions' = evictions /\ store'.evicted = store.evicted
    BY <1>5, <1>7, <2>1
  <2> QED
    BY <1>1, <1>4, <1>7, <2>2 DEF ReportedOnce
<1>11. TypeInv'
  BY <1>1, <1>4, <1>7, <1>8 DEF TypeInv
<1> QED
  BY <1>7, <1>9, <1>10, <1>11 DEF IInv

LEMMA ReadStep ==
    ASSUME IInv, NEW p \in Proc, NEW r, NEW names, NEW D, NEW B,
           Call(p, r, names),
           Reached(r, {}, D, B, UpTo(names, Len(names))),
           Len(names) \in 0..3, DOMAIN names = 1..Len(names),
           pc' = [pc EXCEPT ![p] = "report"], latest' = latest
    PROVE  IInv'
<1>1. /\ latest' \in [Key -> Nat]
      /\ \A k \in Key \ {} : latest'[k] = latest[k]
      /\ \A e \in Entries(r.lru) : e.key \in Key \cap {} => e.val = latest'[e.key]
  BY DEF IInv, TypeInv
<1> QED
  BY <1>1, CallStep

LEMMA ReportStep ==
    ASSUME IInv, NEW p \in Proc, Report(p)
    PROVE  IInv'
<1>1. /\ TypeInv /\ Settled /\ StampInv /\ LatestInv
      /\ ReportedOnce /\ CounterInv
  BY DEF IInv
<1>2. /\ pc[p] = "report" /\ reported' = reported + store.evicted
      /\ store' = [store EXCEPT !.evicted = 0]
      /\ pc' = [pc EXCEPT ![p] = "idle"]
      /\ now' = now /\ ops' = ops /\ stamp' = stamp /\ latest' = latest
      /\ evictions' = evictions /\ used' = used
  BY DEF Report
<1>3. store \in StoreType /\ store.evicted \in Nat
  BY <1>1 DEF Settled, Sound, StoreType
<1>4. /\ store' \in StoreType /\ store'.lru = store.lru
      /\ store'.count = store.count /\ store'.size = store.size
      /\ store'.evicted = 0 /\ store'.draws = store.draws
  BY <1>2, <1>3 DEF StoreType
<1>5. Settled'
  BY <1>1, <1>2, <1>4 DEF Settled, Sound, Fits
<1>6. StampInv'
  BY <1>1, <1>2 DEF StampInv
<1>7. LatestInv'
  BY <1>1, <1>2, <1>4 DEF LatestInv
<1>8. CounterInv'
  BY <1>1, <1>2, <1>4 DEF CounterInv
<1>9. ReportedOnce'
  BY <1>1, <1>2, <1>3, <1>4 DEF ReportedOnce, TypeInv
<1>10. TypeInv'
  BY <1>1, <1>2, <1>3 DEF TypeInv
<1> QED
  BY <1>5, <1>6, <1>7, <1>8, <1>9, <1>10 DEF IInv

LEMMA TickStep ==
    ASSUME IInv, Tick
    PROVE  IInv'
<1>1. /\ TypeInv /\ Settled /\ StampInv /\ LatestInv
      /\ ReportedOnce /\ CounterInv
  BY DEF IInv
<1>2. /\ now < MaxNow /\ now' = now + 1 /\ store' = store /\ pc' = pc
      /\ ops' = ops /\ stamp' = stamp /\ latest' = latest
      /\ evictions' = evictions /\ reported' = reported /\ used' = used
  BY DEF Tick
<1>3. now' \in 0..MaxNow
  BY <1>1, <1>2, LimitAssumption DEF TypeInv
<1>4. TypeInv' /\ StampInv' /\ ReportedOnce'
  BY <1>1, <1>2, <1>3 DEF TypeInv, StampInv, ReportedOnce
<1>5. Settled' /\ LatestInv' /\ CounterInv'
  BY <1>1, <1>2 DEF Settled, LatestInv, CounterInv
<1> QED
  BY <1>4, <1>5 DEF IInv

LEMMA StutterStep ==
    ASSUME IInv, UNCHANGED vars
    PROVE  IInv'
<1>1. /\ TypeInv /\ Settled /\ StampInv /\ LatestInv
      /\ ReportedOnce /\ CounterInv
  BY DEF IInv
<1>2. /\ now' = now /\ store' = store /\ pc' = pc
      /\ ops' = ops /\ stamp' = stamp /\ latest' = latest
      /\ evictions' = evictions /\ reported' = reported /\ used' = used
  BY DEF vars
<1>3. TypeInv' /\ StampInv' /\ ReportedOnce'
  BY <1>1, <1>2 DEF TypeInv, StampInv, ReportedOnce
<1>4. Settled' /\ LatestInv' /\ CounterInv'
  BY <1>1, <1>2 DEF Settled, LatestInv, CounterInv
<1> QED
  BY <1>3, <1>4 DEF IInv

LEMMA Start ==
    Init => IInv
<1> SUFFICES ASSUME Init PROVE IInv
  OBVIOUS
<1>1. /\ store = New /\ New \in StoreType /\ New.lru = <<>> /\ New.count = 0
      /\ New.size = 0 /\ New.evicted = 0 /\ New.draws = 0
  BY DEF Init, New, StoreType
<1>2. Len(<<>>) = 0 /\ Total(<<>>) = 0
  BY TotalEmpty
<1>3. Settled
  <2>1. Sound(New)
    BY <1>1, <1>2 DEF Sound, Distinct
  <2>2. Fits(New) /\ Ordered(New.lru, stamp)
    BY <1>1, <1>2, LimitAssumption DEF Fits, Ordered
  <2> QED
    BY <1>1, <2>1, <2>2 DEF Settled
<1>4. Entries(store.lru) = {}
  BY <1>1, <1>2 DEF Entries
<1>5. TypeInv /\ StampInv
  BY LimitAssumption DEF Init, TypeInv, StampInv
<1>6. LatestInv /\ CounterInv
  BY <1>4 DEF Init, LatestInv, CounterInv
<1>7. ReportedOnce
  BY <1>1 DEF Init, ReportedOnce
<1> QED
  BY <1>3, <1>5, <1>6, <1>7 DEF IInv

LEMMA Step ==
    ASSUME IInv, [Next]_vars
    PROVE  IInv'
<1>1. TypeInv /\ Settled /\ StampInv /\ CounterInv
  BY DEF IInv
<1>2. ASSUME NEW p \in Proc, NEW k \in Key, Get(p, k) PROVE IInv'
  <2>1. pc' = [pc EXCEPT ![p] = "report"] /\ latest' = latest
    BY <1>2 DEF Get
  <2> QED
    BY <1>1, <1>2, <2>1, GetCall, ReadStep
<1>3. ASSUME NEW p \in Proc, NEW k \in Key, NEW ts \in TagLists,
             GetTagged(p, k, ts)
      PROVE  IInv'
  <2>1. pc' = [pc EXCEPT ![p] = "report"] /\ latest' = latest
    BY <1>3 DEF GetTagged
  <2> QED
    BY <1>1, <1>3, <2>1, GetTaggedCall, ReadStep
<1>4. ASSUME NEW p \in Proc, NEW ts \in TagLists, Bump(p, ts) PROVE IInv'
  <2>1. pc' = [pc EXCEPT ![p] = "report"] /\ latest' = latest
    BY <1>4 DEF Bump
  <2> QED
    BY <1>1, <1>4, <2>1, BumpCall, ReadStep
<1> QED
  BY <1>2, <1>3, <1>4, SetStep, DeleteStep, ReportStep, TickStep, StutterStep
     DEF Next

THEOREM InvHolds ==
    Spec => []IInv
<1>1. IInv /\ [Next]_vars => IInv'
  BY Step
<1> QED
  BY <1>1, Start, PTL DEF Spec

-----------------------------------------------------------------------------
(* TypeOK: the entries, totals and ghosts have their types throughout.     *)
THEOREM TypeCorrect ==
    Spec => []TypeOK
<1>1. ASSUME IInv PROVE TypeOK
  <2>1. TypeInv /\ Settled /\ StampInv
    BY <1>1 DEF IInv
  <2>2. store \in StoreType
    BY <2>1 DEF Settled, Sound
  <2> QED
    BY <2>1, <2>2 DEF TypeOK, TypeInv, StampInv, StoreType
<1>2. IInv => TypeOK
  BY <1>1
<1> QED
  BY <1>2, InvHolds, PTL

(* WithinLimits (RF-03, RS-05): neither limit is ever exceeded, and the    *)
(* totals setLocked decides by are those of the entries held.              *)
THEOREM StaysWithinLimits ==
    Spec => []WithinLimits
<1>1. ASSUME IInv PROVE WithinLimits
  <2>1. Sound(store) /\ Fits(store)
    BY <1>1 DEF IInv, Settled
  <2>2. DOMAIN store.lru = 1..Len(store.lru)
    BY <2>1 DEF Sound, StoreType
  <2> QED
    BY <2>1, <2>2 DEF WithinLimits, Sound, Fits, Distinct
<1>2. IInv => WithinLimits
  BY <1>1
<1> QED
  BY <1>2, InvHolds, PTL

(* LeastRecentFirst: what setLocked evicts from the tail of the list is    *)
(* what was used least recently.                                           *)
THEOREM EvictsLeastRecent ==
    Spec => []LeastRecentFirst
<1>1. ASSUME IInv PROVE LeastRecentFirst
  <2>1. Sound(store) /\ Ordered(store.lru, stamp)
    BY <1>1 DEF IInv, Settled
  <2>2. DOMAIN store.lru = 1..Len(store.lru)
    BY <2>1 DEF Sound, StoreType
  <2> QED
    BY <2>1, <2>2 DEF LeastRecentFirst, Ordered
<1>2. IInv => LeastRecentFirst
  BY <1>1
<1> QED
  BY <1>2, InvHolds, PTL

(* NeverServesReplaced (Set's comment): an entry found under a key is the  *)
(* value last set there, even when a later one was too large to store.     *)
THEOREM ServesTheLatest ==
    Spec => []NeverServesReplaced
<1>1. ASSUME IInv PROVE NeverServesReplaced
  <2>1. Sound(store) /\ LatestInv
    BY <1>1 DEF IInv, Settled
  <2>2. ASSUME NEW k \in Key, Has(store, k) PROVE At(store, k).val = latest[k]
    <3>1. At(store, k) \in Entries(store.lru) /\ At(store, k).key = k
      BY <2>1, <2>2, FindFacts
    <3> QED
      BY <2>1, <3>1 DEF LatestInv
  <2> QED
    BY <2>2 DEF NeverServesReplaced
<1>2. IInv => NeverServesReplaced
  BY <1>1
<1> QED
  BY <1>2, InvHolds, PTL

(* ReportedOnce (ADR-0015): each eviction is reported once, whichever      *)
(* goroutine's reportEvictions finds it in the queue.                      *)
THEOREM EvictionsReportedOnce ==
    Spec => []ReportedOnce
<1>1. IInv => ReportedOnce
  BY DEF IInv
<1> QED
  BY <1>1, InvHolds, PTL

-----------------------------------------------------------------------------

(* The refinement.  What a store holds of its counters, as TagStore sees   *)
(* them through the substitution of Contract.                              *)
CtrOf(s) == [t \in Counter |-> IF Live(s, t) THEN At(s, t).val
                                             ELSE NoGeneration]

Drawn(s, t) ==
    \A e \in Entries(s.lru) : e.key = t => e.val # NoGeneration

LEMMA CtrFacts ==
    ASSUME NEW s, Sound(s), NEW t \in Counter, Drawn(s, t)
    PROVE  /\ CtrOf(s)[t] # NoGeneration <=> Live(s, t)
           /\ Held(s, t) = {CtrOf(s)[t]} \ {NoGeneration}
           /\ Live(s, t) => /\ CtrOf(s)[t] = At(s, t).val
                            /\ At(s, t) \in Entries(s.lru)
                            /\ At(s, t).key = t /\ now < At(s, t).expires
<1>1. CASE ~Live(s, t)
  <2>1. CtrOf(s)[t] = NoGeneration /\ Held(s, t) = {}
    BY <1>1 DEF CtrOf, Held
  <2> QED
    BY <1>1, <2>1
<1>2. CASE Live(s, t)
  <2>1. CtrOf(s)[t] = At(s, t).val /\ Held(s, t) = {At(s, t).val}
    BY <1>2 DEF CtrOf, Held
  <2>2. /\ At(s, t) \in Entries(s.lru) /\ At(s, t).key = t
        /\ now < At(s, t).expires
    BY <1>2, FindFacts DEF Live
  <2>3. At(s, t).val # NoGeneration
    BY <2>2 DEF Drawn
  <2> QED
    BY <1>2, <2>1, <2>2, <2>3
<1> QED
  BY <1>1, <1>2

LEMMA AllDrawn ==
    ASSUME IInv, NEW t \in Counter
    PROVE  Drawn(store, t)
<1>1. ASSUME NEW e \in Entries(store.lru), e.key = t
      PROVE  e.val # NoGeneration
  <2>1. e.val \in used[t]
    BY <1>1 DEF IInv, CounterInv
  <2>2. e.val[1] \in 1..store.draws
    BY <2>1 DEF IInv, CounterInv
  <2> QED
    BY <2>2, GenerationFacts
<1> QED
  BY <1>1 DEF Drawn

(* What a call makes of each counter.                                      *)
LEMMA CallMoves ==
    ASSUME IInv, IInv',
           NEW p \in Proc, NEW r, NEW names, NEW K, NEW D, NEW B,
           Call(p, r, names), Reached(r, K, D, B, UpTo(names, Len(names))),
           NEW t \in Counter
    PROVE  LET c == CtrOf(store)[t]
               c2 == CtrOf(r)[t] IN
           /\ \/ c2 = NoGeneration
              \/ c2 = c /\ t \notin B
              \/ c2 # NoGeneration /\ c2 \notin used[t] /\ t \in D \cup B
           /\ used'[t] = used[t] \cup ({c2} \ {NoGeneration})
<1> DEFINE c == CtrOf(store)[t]
           c2 == CtrOf(r)[t]
<1>1. Sound(store) /\ Sound(r) /\ Moved(r, D, B) /\ store' = r
  BY DEF IInv, Settled, Reached, Call
<1>2. Drawn(store, t)
  BY AllDrawn
<1>3. Drawn(r, t)
  <2>1. ASSUME NEW e \in Entries(r.lru), e.key = t
        PROVE  e.val # NoGeneration
    <3>1. e.val \in used'[t]
      BY <1>1, <2>1 DEF IInv, CounterInv
    <3>2. e.val[1] \in 1..r.draws
      BY <1>1, <3>1 DEF IInv, CounterInv
    <3> QED
      BY <3>2, GenerationFacts
  <2> QED
    BY <2>1 DEF Drawn
<1>4. used'[t] = used[t] \cup Held(r, t)
  BY DEF Call
<1>5. /\ c2 # NoGeneration <=> Live(r, t)
      /\ Held(r, t) = {c2} \ {NoGeneration}
      /\ Live(r, t) => /\ c2 = At(r, t).val /\ At(r, t) \in Entries(r.lru)
                       /\ At(r, t).key = t /\ now < At(r, t).expires
  BY <1>1, <1>3, CtrFacts
<1>6. ASSUME NEW y \in Entries(store.lru), y.key = t, now < y.expires
      PROVE  c = y.val
  <2>1. Has(store, t) /\ At(store, t) = y
    BY <1>1, <1>6, FindFacts
  <2>2. Live(store, t)
    BY <1>6, <2>1 DEF Live
  <2> QED
    BY <1>1, <1>2, <2>1, <2>2, CtrFacts
<1>7. used[t] \subseteq Generation /\ \A g \in used[t] : g[1] \in 1..store.draws
  BY DEF IInv, TypeInv, CounterInv
<1> HIDE DEF c, c2
<1>8. ASSUME Live(r, t)
      PROVE  \/ c2 = c /\ t \notin B
             \/ c2 \notin used[t] /\ t \in D \cup B
  <2>1. PICK x \in Entries(r.lru) : x.key = t /\ now < x.expires /\ c2 = x.val
    BY <1>5, <1>8
  <2>2. CASE x \in Entries(store.lru) /\ t \notin B
    BY <1>6, <2>1, <2>2
  <2>3. CASE t \in D /\ x.val[1] \in (store.draws + 1)..r.draws
    <3>1. store.draws \in Nat /\ r.draws \in Nat
      BY <1>1 DEF Sound, StoreType
    <3>2. x.val[1] \notin 1..store.draws
      BY <2>3, <3>1
    <3> QED
      BY <1>7, <2>1, <2>3, <3>2
  <2>4. CASE /\ t \in B
             /\ \E y \in Entries(store.lru) :
                  y.key = t /\ now < y.expires /\ x.val = Advance(y.val)
    <3>1. PICK y \in Entries(store.lru) : y.key = t /\ x.val = Advance(y.val)
      BY <2>4
    <3>2. y.val \in used[t] /\ \A g \in used[t] : g[1] = y.val[1] => g[2] <= y.val[2]
      BY <3>1 DEF IInv, CounterInv
    <3>3. /\ x.val[1] = y.val[1] /\ x.val[2] = y.val[2] + 1 /\ y.val[2] \in Nat
      BY <1>7, <3>1, <3>2, GenerationFacts
    <3>4. x.val \notin used[t]
      BY <3>2, <3>3
    <3> QED
      BY <2>1, <2>4, <3>4
  <2> QED
    BY <1>1, <2>1, <2>2, <2>3, <2>4 DEF Moved
<1> QED
  BY <1>4, <1>5, <1>8 DEF c, c2

Ctr == [t \in Counter |-> IF Live(store, t) THEN At(store, t).val
                                            ELSE NoGeneration]

LEMMA CtrNext ==
    ASSUME NEW r, store' = r, now' = now
    PROVE  Ctr = CtrOf(store) /\ Ctr' = CtrOf(r)
<1>1. Ctr = CtrOf(store)
  BY DEF Ctr, CtrOf
<1>2. Ctr' = CtrOf(r)
  BY DEF Ctr, CtrOf, Live, Has, Place, At, Index
<1> QED
  BY <1>1, <1>2

(* What a step must do to each counter to be a Read, or a Bump of T.       *)
LEMMA ContractSteps ==
    ASSUME NEW T \in SUBSET Counter,
           used \in [Counter -> SUBSET Generation],
           used' \in [Counter -> SUBSET Generation],
           \A t \in Counter :
             /\ \/ Ctr'[t] = NoGeneration
                \/ Ctr'[t] = Ctr[t] /\ t \notin T
                \/ Ctr'[t] # NoGeneration /\ Ctr'[t] \notin used[t]
             /\ used'[t] = used[t] \cup ({Ctr'[t]} \ {NoGeneration})
    PROVE  /\ Contract!Read
           /\ (\A t \in Counter \ T : Ctr'[t] \in {Ctr[t], NoGeneration})
                => Contract!Bump(T)
<1>1. Contract!NoGeneration = NoGeneration
  BY DEF Contract!NoGeneration, NoGeneration
<1>2. DOMAIN Ctr' = Counter
  BY DEF Ctr
<1>3. \A t \in Counter : used'[t] = used[t] \cup ({Ctr'[t]} \ {NoGeneration})
  OBVIOUS
<1>4. used' = [t \in Counter |-> used[t] \cup ({Ctr'[t]} \ {NoGeneration})]
  BY <1>3
<1>5. Contract!Record
  BY <1>1, <1>4 DEF Contract!Record, Ctr
<1>6. \A t \in Counter : Contract!KeptOrLost(t) \/ Contract!Fresh(t)
  BY <1>1 DEF Contract!KeptOrLost, Contract!Fresh, Ctr
<1>7. Contract!Read
  BY <1>2, <1>5, <1>6 DEF Contract!Read, Ctr
<1>8. ASSUME \A t \in Counter \ T : Ctr'[t] \in {Ctr[t], NoGeneration}
      PROVE  Contract!Bump(T)
  <2>1. \A t \in T : Contract!Fresh(t) \/ Ctr'[t] = Contract!NoGeneration
    BY <1>1 DEF Contract!Fresh, Ctr
  <2>2. \A t \in Counter \ T : Contract!KeptOrLost(t)
    BY <1>1, <1>8 DEF Contract!KeptOrLost, Ctr
  <2> QED
    BY <1>2, <1>5, <2>1, <2>2 DEF Contract!Bump, Ctr
<1> QED
  BY <1>7, <1>8

LEMMA CallContract ==
    ASSUME IInv, IInv',
           NEW p \in Proc, NEW r, NEW names, NEW K,
           NEW D \in SUBSET Counter, NEW B \in SUBSET Counter,
           Call(p, r, names), Reached(r, K, D, B, UpTo(names, Len(names)))
    PROVE  /\ Contract!Read
           /\ D \subseteq B => Contract!Bump(B)
<1>1. store' = r /\ now' = now
  BY DEF Call
<1>2. Ctr = CtrOf(store) /\ Ctr' = CtrOf(r)
  BY <1>1, CtrNext
<1>3. ASSUME NEW t \in Counter
      PROVE  /\ \/ Ctr'[t] = NoGeneration
                \/ Ctr'[t] = Ctr[t] /\ t \notin B
                \/ Ctr'[t] # NoGeneration /\ Ctr'[t] \notin used[t] /\ t \in D \cup B
             /\ used'[t] = used[t] \cup ({Ctr'[t]} \ {NoGeneration})
  BY <1>2, CallMoves
<1>4. /\ used \in [Counter -> SUBSET Generation]
      /\ used' \in [Counter -> SUBSET Generation]
  BY DEF IInv, TypeInv
<1>5. /\ Contract!Read
      /\ (\A t \in Counter \ B : Ctr'[t] \in {Ctr[t], NoGeneration})
           => Contract!Bump(B)
  BY <1>3, <1>4, ContractSteps
<1>6. D \subseteq B => \A t \in Counter \ B : Ctr'[t] \in {Ctr[t], NoGeneration}
  BY <1>3
<1> QED
  BY <1>5, <1>6

LEMMA BumpContract ==
    ASSUME IInv, IInv', NEW p \in Proc, NEW ts \in TagLists, Bump(p, ts)
    PROVE  Contract!Bump(ToSet(ts)) /\ Contract!Read
<1> DEFINE B == {ts[i] : i \in 1..Len(ts)}
<1>1. TypeInv /\ Settled /\ StampInv /\ CounterInv
  BY DEF IInv
<1>2. /\ Call(p, AfterBumps(store, ts), ts)
      /\ Reached(AfterBumps(store, ts), {}, B, B, UpTo(ts, Len(ts)))
  BY <1>1, BumpCall
<1>3. B \in SUBSET Counter /\ ToSet(ts) = B
  BY TagListFacts DEF ToSet
<1> HIDE DEF B
<1>4. Contract!Bump(B) /\ Contract!Read
  BY <1>2, <1>3, CallContract
<1> QED
  BY <1>3, <1>4

(* A step in which no counter is written: some may have expired.           *)
LEMMA IdleContract ==
    ASSUME IInv, store'.lru = store.lru, now' \in Nat, now' >= now, used' = used
    PROVE  Contract!Read
<1>1. ASSUME NEW t \in Counter
      PROVE  /\ Ctr'[t] = NoGeneration \/ Ctr'[t] = Ctr[t]
             /\ used'[t] = used[t] \cup ({Ctr'[t]} \ {NoGeneration})
  <2> DEFINE e == store.lru[Index(store, t)]
  <2>1. /\ Has(store', t) <=> Has(store, t)
        /\ At(store', t) = At(store, t)
    BY DEF Has, Place, At, Index
  <2>2. Sound(store) /\ now \in Nat
    BY LimitAssumption DEF IInv, Settled, TypeInv
  <2>3. Live(store, t)' => Live(store, t)
    <3>1. ASSUME Has(store, t), now' < At(store, t).expires
          PROVE  now < At(store, t).expires
      <4>1. At(store, t).expires \in Nat
        BY <2>2, <3>1, FindFacts, EntryFacts
      <4> QED
        BY <2>2, <3>1, <4>1
    <3> QED
      BY <2>1, <3>1 DEF Live
  <2>4. Ctr'[t] = IF Live(store, t)' THEN At(store', t).val ELSE NoGeneration
    BY DEF Ctr
  <2>5. Ctr[t] = IF Live(store, t) THEN At(store, t).val ELSE NoGeneration
    BY DEF Ctr
  <2>6. Live(store, t) => At(store, t).val \in used[t]
    BY <2>2, FindFacts DEF Live, IInv, CounterInv
  <2>7. Ctr'[t] = NoGeneration \/ (Ctr'[t] = Ctr[t] /\ Ctr[t] \in used[t])
    BY <2>1, <2>3, <2>4, <2>5, <2>6
  <2> QED
    BY <2>7
<1>2. used \in [Counter -> SUBSET Generation]
  BY DEF IInv, TypeInv
<1>3. {} \in SUBSET Counter
  OBVIOUS
<1>4. \A t \in Counter :
        /\ \/ Ctr'[t] = NoGeneration
           \/ Ctr'[t] = Ctr[t] /\ t \notin {}
           \/ Ctr'[t] # NoGeneration /\ Ctr'[t] \notin used[t]
        /\ used'[t] = used[t] \cup ({Ctr'[t]} \ {NoGeneration})
  BY <1>1
<1>5. used' \in [Counter -> SUBSET Generation]
  BY <1>2
<1> QED
  BY <1>2, <1>3, <1>4, <1>5, ContractSteps

LEMMA ContractStep ==
    ASSUME IInv, IInv', [Next]_vars
    PROVE  [Contract!Next]_(Contract!vars)
<1>1. TypeInv /\ Settled /\ StampInv /\ CounterInv
  BY DEF IInv
<1>2. now \in Nat /\ now' \in Nat /\ Counter \in SUBSET Counter
      /\ {} \in SUBSET Counter
  BY LimitAssumption DEF IInv, TypeInv
<1>3. ASSUME NEW p \in Proc, NEW k \in Key, Get(p, k) PROVE Contract!Read
  BY <1>1, <1>2, <1>3, GetCall, CallContract
<1>4. ASSUME NEW p \in Proc, NEW k \in Key, NEW ts \in TagLists,
             GetTagged(p, k, ts)
      PROVE  Contract!Read
  BY <1>1, <1>2, <1>4, GetTaggedCall, CallContract
<1>5. ASSUME NEW p \in Proc, NEW k \in Key, Delete(p, k) PROVE Contract!Read
  <2>1. PICK r, names : /\ r = IF Has(store, k) THEN remove(store, k) ELSE store
                        /\ names = <<>>
    OBVIOUS
  <2>2. Call(p, r, names)
    BY <1>5, <2>1 DEF Delete
  <2>3. Reached(r, {k}, {}, {}, UpTo(names, Len(names)))
    BY <1>1, <2>1, DeleteReached DEF Settled
  <2> QED
    BY <1>2, <2>2, <2>3, CallContract
<1>6. ASSUME NEW p \in Proc, NEW k \in Key, NEW size \in Sizes,
             NEW ttl \in TTLs, Set(p, k, size, ttl)
      PROVE  Contract!Read
  <2>1. PICK e : e = [key |-> k, val |-> ops + 1, size |-> size,
                      expires |-> now + ttl]
    OBVIOUS
  <2>2. PICK r, names : r = setLocked(store, e) /\ names = <<k>>
    OBVIOUS
  <2>3. Call(p, r, names)
    BY <1>6, <2>1, <2>2 DEF Set
  <2>4. e \in EntryType /\ e.key = k
    <3>1. ops + 1 \in Nat /\ size \in Nat /\ now + ttl \in Nat
      BY <1>1, <1>2, LimitAssumption DEF StampInv
    <3> QED
      BY <2>1, <3>1 DEF EntryType
  <2>5. Reached(r, {k}, {}, {}, UpTo(names, Len(names)))
    BY <1>1, <2>2, <2>4, SetReached DEF Settled
  <2> QED
    BY <1>2, <2>3, <2>5, CallContract
<1>7. ASSUME NEW p \in Proc, Report(p) PROVE Contract!Read
  <2>1. store \in StoreType
    BY <1>1 DEF Settled, Sound
  <2>2. store'.lru = store.lru /\ now' = now /\ used' = used
    BY <1>7, <2>1 DEF Report, StoreType
  <2> QED
    BY <1>2, <2>2, IdleContract
<1>8. ASSUME Tick PROVE Contract!Read
  <2>1. store'.lru = store.lru /\ now' = now + 1 /\ used' = used
    BY <1>8 DEF Tick
  <2> QED
    BY <1>2, <2>1, IdleContract
<1>9. ASSUME UNCHANGED vars PROVE UNCHANGED Contract!vars
  BY <1>9 DEF vars, Contract!vars, Live, Has, Place, At, Index
<1> QED
  BY <1>3, <1>4, <1>5, <1>6, <1>7, <1>8, <1>9, BumpContract
     DEF Next, Contract!Next

LEMMA ContractInit ==
    Init => Contract!Init
<1> SUFFICES ASSUME Init PROVE Contract!Init
  OBVIOUS
<1>1. store.lru = <<>> /\ used = [t \in Counter |-> {}]
  BY DEF Init, New
<1>2. \A t \in Counter : ~Has(store, t)
  BY <1>1 DEF Has, Place
<1>3. \A t \in Counter : ~Live(store, t)
  BY <1>2 DEF Live
<1> QED
  BY <1>1, <1>3 DEF Contract!Init, Contract!NoGeneration, NoGeneration

(* KeepsContract (tagstore.go): the counters of memory.Store, evicted and  *)
(* expired ones included, implement TagStore: each is kept, lost, or moves *)
(* to a generation it never held.                                          *)
THEOREM KeepsTheContract ==
    Spec => KeepsContract
<1>1. IInv /\ IInv' /\ [Next]_vars => [Contract!Next]_(Contract!vars)
  BY ContractStep
<1> QED
  BY <1>1, InvHolds, ContractInit, PTL DEF Spec, KeepsContract, Contract!Spec

(* BumpRetires: Bump leaves none of its counters at the generation it had, *)
(* whatever its own stores push out in between, and touches no other.      *)
THEOREM BumpsRetire ==
    Spec => BumpRetires
<1>1. IInv /\ IInv' /\ [Next]_vars
        => [\A p \in Proc, ts \in TagLists :
              Bump(p, ts) => Contract!Bump(ToSet(ts))]_vars
  BY BumpContract
<1> QED
  BY <1>1, InvHolds, PTL DEF Spec, BumpRetires
================================================================================
