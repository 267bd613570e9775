---- MODULE BloomFilterProofs ----
(***************************************************************************)
(* What concurrent use of a filter keeps, for any number of threads and    *)
(* strings, any hash function and any number of hashes.  An insertion in   *)
(* progress has set the bits of the iterations that are done, and a check  *)
(* in progress that has summed up something has seen a bit that is set;    *)
(* bits are never cleared, so both outlive the call.                       *)
(***************************************************************************)
EXTENDS BloomFilter, WellFoundedInduction, TLAPS

\* An insertion has set the bits of all iterations that are no longer pending.
Inserting ==
    \A t \in Thread :
      /\ pc[t] = "add" => \A i \in Hash \ pending[t] : hash[str[t]][i] \in bloom
      /\ pc[t] = "count" => Bits(str[t]) \subseteq bloom

\* A sum that is not zero comes from a set bit of the string.
Checking ==
    \A t \in Thread :
      pc[t] = "check" /\ r[t] # 0 => Bits(str[t]) \cap bloom # {}

FilterInv ==
    /\ TypeOK
    /\ Inserting
    /\ Checking
    /\ InsertedBitsSet
    /\ InsertedNotEmpty
    /\ YesNeedsABit

\* The mask of a bit is a number.
LEMMA MaskType == ASSUME NEW b \in Nat PROVE Mask(b) \in Nat
<1>1. b % 8 \in 0 .. 7
  BY SMT
<1> QED  BY <1>1 DEF Mask

\* A hash selects one of the filter's bits.
LEMMA HashInBit ==
    ASSUME TypeOK, NEW t \in Thread, NEW i \in Hash
    PROVE  hash[str[t]][i] \in Bit /\ hash[str[t]][i] \in Nat
<1>1. str[t] \in String
  BY Zenon DEF TypeOK, HashFunction
<1>2. hash[str[t]] \in [Hash -> Bit]
  BY <1>1, Zenon DEF TypeOK, HashFunction
<1>3. hash[str[t]][i] \in Bit
  BY <1>2, Zenon
<1> QED  BY Zenon, <1>3, BitAssumption DEF BitAssumption

\* Bits are only ever set, so what is known of set bits stays true while a
\* thread's call and the hash function stay the same.
LEMMA BitsStay ==
    ASSUME bloom \subseteq bloom', hash' = hash
    PROVE  /\ \A s \in String : Bits(s) \subseteq bloom => Bits(s)' \subseteq bloom'
           /\ \A s \in String : Bits(s) \cap bloom # {} => Bits(s)' \cap bloom' # {}
  BY Zenon DEF Bits, Hash

\* The invariant is inductive: one step per operation of the filter.
THEOREM FilterInvariant == Spec => []FilterInv
<1> USE HashesAssumption, BitAssumption, CallsAssumption
    DEF HashesAssumption, BitAssumption, CallsAssumption, HashFunction
<1>1. Init => FilterInv
  <2> SUFFICES ASSUME Init PROVE FilterInv
    BY Zenon
  <2>1. TypeOK
    BY DEF Init, TypeOK
  <2>2. Inserting /\ Checking /\ InsertedBitsSet /\ InsertedNotEmpty /\ YesNeedsABit
    BY Zenon DEF Init, Inserting, Checking, InsertedBitsSet, InsertedNotEmpty, YesNeedsABit
  <2> QED  BY <2>1, <2>2, Zenon DEF FilterInv
<1>2. FilterInv /\ [Next]_vars => FilterInv'
  <2> SUFFICES ASSUME FilterInv, [Next]_vars PROVE FilterInv'
    BY Zenon
  <2> USE DEF FilterInv
  <2>1. ASSUME NEW t \in Thread, NEW s \in String, NEW op \in {"add", "check"},
               Call(t, s, op), UNCHANGED <<hash, bloom, elements_added, added>>,
               known' \in [Thread -> SUBSET String]
        PROVE  FilterInv'
    <3>1. TypeOK'
      BY <2>1 DEF TypeOK, Call
    <3>2. Inserting'
      BY <2>1 DEF TypeOK, Call, Inserting, Bits, Hash
    <3>3. Checking' /\ YesNeedsABit'
      BY <2>1 DEF TypeOK, Call, Checking, YesNeedsABit, Bits, Hash
    <3>4. InsertedBitsSet' /\ InsertedNotEmpty'
      BY <2>1, Zenon DEF InsertedBitsSet, InsertedNotEmpty, empty, Bits, Hash
    <3> QED  BY <3>1, <3>2, <3>3, <3>4, Zenon
  <2>2. ASSUME NEW t \in Thread, NEW s \in String, insert_key(t, s) PROVE FilterInv'
    BY <2>1, <2>2, Zenon DEF insert_key, TypeOK
  <2>3. ASSUME NEW t \in Thread, NEW s \in String, prob_contains_key(t, s) PROVE FilterInv'
    <3>1. known' \in [Thread -> SUBSET String]
      BY <2>3, Zenon DEF prob_contains_key, TypeOK
    <3> QED  BY <2>1, <2>3, <3>1, Zenon DEF prob_contains_key
  <2>4. ASSUME NEW t \in Thread, NEW i \in Hash, SetBit(t, i) PROVE FilterInv'
    <3>1. TypeOK'
      BY Zenon, <2>4, HashInBit DEF TypeOK, SetBit, WithBit
    <3>2. bloom \subseteq bloom' /\ hash' = hash
      BY <2>4, Zenon DEF SetBit, WithBit
    <3>3. Inserting'
      BY <2>4 DEF TypeOK, SetBit, WithBit, Inserting, Bits, Hash
    <3>4. Checking' /\ YesNeedsABit'
      BY Zenon, <2>4, <3>2, BitsStay DEF TypeOK, SetBit, WithBit, Checking, YesNeedsABit
    <3>5. InsertedBitsSet' /\ InsertedNotEmpty'
      BY <2>4, <3>2, BitsStay, Zenon DEF TypeOK, SetBit, WithBit, InsertedBitsSet, InsertedNotEmpty, empty
    <3> QED  BY <3>1, <3>3, <3>4, <3>5, Zenon
  <2>5. ASSUME NEW t \in Thread, LoadCount(t) PROVE FilterInv'
    <3>1. TypeOK'
      BY <2>5, Zenon DEF TypeOK, LoadCount
    <3>2. Inserting'
      BY <2>5 DEF TypeOK, LoadCount, Inserting, Bits
    <3>3. Checking' /\ YesNeedsABit' /\ InsertedBitsSet' /\ InsertedNotEmpty'
      BY <2>5 DEF TypeOK, LoadCount, Checking, YesNeedsABit, InsertedBitsSet,
         InsertedNotEmpty, empty, Bits
    <3> QED  BY <3>1, <3>2, <3>3, Zenon
  <2>6. ASSUME NEW t \in Thread, StoreCount(t) PROVE FilterInv'
    <3>1. TypeOK'
      BY <2>6 DEF TypeOK, StoreCount
    <3>2. Inserting' /\ Checking' /\ YesNeedsABit'
      BY <2>6 DEF TypeOK, StoreCount, Inserting, Checking, YesNeedsABit, Bits
    <3>3. InsertedBitsSet'
      BY <2>6 DEF TypeOK, StoreCount, Inserting, InsertedBitsSet, Bits
    <3>4. InsertedNotEmpty'
      BY <2>6 DEF TypeOK, StoreCount, InsertedNotEmpty, empty
    <3> QED  BY <3>1, <3>2, <3>3, <3>4, Zenon
  <2>7. ASSUME NEW t \in Thread, NEW i \in Hash, CheckBit(t, i) PROVE FilterInv'
    <3>1. hash[str[t]][i] \in Nat /\ CHECK_BIT(hash[str[t]][i]) \in Nat
      <4>1. hash[str[t]][i] \in Nat
        BY HashInBit, Zenon
      <4> QED  BY <4>1, MaskType, Zenon DEF CHECK_BIT
    <3>2. TypeOK'
      BY <2>7, <3>1 DEF TypeOK, CheckBit, Summed
    <3>3. Checking'
      <4>1. CHECK_BIT(hash[str[t]][i]) # 0 => Bits(str[t]) \cap bloom # {}
        BY Zenon DEF CHECK_BIT, Bits
      <4>2. r'[t] # 0 => r[t] # 0 \/ CHECK_BIT(hash[str[t]][i]) # 0
        BY <2>7, <3>1 DEF CheckBit, Summed, TypeOK
      <4> QED  BY <2>7, <4>1, <4>2 DEF CheckBit, Summed, TypeOK, Checking, Bits
    <3>4. Inserting' /\ YesNeedsABit' /\ InsertedBitsSet' /\ InsertedNotEmpty'
      BY <2>7 DEF TypeOK, CheckBit, Summed, Inserting, YesNeedsABit, InsertedBitsSet,
         InsertedNotEmpty, empty, Bits
    <3> QED  BY <3>2, <3>3, <3>4, Zenon
  <2>8. ASSUME NEW t \in Thread, Verdict(t) PROVE FilterInv'
    <3>1. TypeOK'
      BY <2>8, Zenon DEF TypeOK, Verdict
    <3>2. YesNeedsABit'
      <4> SUFFICES ASSUME NEW u \in Thread, answer'[u] = "yes"
                   PROVE  Bits(str[u])' \cap bloom' # {}
        BY Zenon DEF YesNeedsABit
      <4>1. UNCHANGED <<str, bloom, Bits(str[u])>>
        BY <2>8, Zenon DEF Verdict, Bits
      <4>2. CASE u = t
        <5>1. pc[u] = "check" /\ r[u] = number_hashes
          BY <2>8, <4>2, Zenon DEF Verdict, TypeOK
        <5>2. number_hashes # 0
          BY HashesAssumption
        <5> QED  BY <4>1, <5>1, <5>2, Zenon DEF Checking
      <4>3. CASE u # t
        <5>1. answer[u] = "yes"
          BY <2>8, <4>3, Zenon DEF Verdict, TypeOK
        <5> QED  BY <4>1, <5>1, Zenon DEF YesNeedsABit
      <4> QED  BY <4>2, <4>3, Zenon
    <3>3. Inserting' /\ Checking' /\ InsertedBitsSet' /\ InsertedNotEmpty'
      BY <2>8 DEF TypeOK, Verdict, Inserting, Checking, InsertedBitsSet,
         InsertedNotEmpty, empty, Bits
    <3> QED  BY <3>1, <3>2, <3>3, Zenon
  <2>9. CASE UNCHANGED vars
    BY <2>9 DEF vars, TypeOK, Inserting, Checking, InsertedBitsSet, InsertedNotEmpty,
       YesNeedsABit, empty, Bits
  <2> QED  BY <2>2, <2>3, <2>4, <2>5, <2>6, <2>7, <2>8, <2>9, Zenon DEF Next
<1> QED  BY <1>1, <1>2, PTL DEF Spec

\* Every variable keeps its type.
THEOREM TypeCorrect == Spec => []TypeOK
  BY FilterInvariant, PTL DEF FilterInv

\* Concurrent insertions never cost an inserted string one of its bits.
THEOREM BitsKept == Spec => []InsertedBitsSet
  BY FilterInvariant, PTL DEF FilterInv

\* Lost counts never make a filter in use look empty().
THEOREM NotEmpty == Spec => []InsertedNotEmpty
  BY FilterInvariant, PTL DEF FilterInv

\* prob_contains_key never says yes without having seen a set bit of the string.
THEOREM YesHasEvidence == Spec => []YesNeedsABit
  BY FilterInvariant, PTL DEF FilterInv

----------------------------------------------------------------------------
(***************************************************************************)
(* The sum of a check.  The iterations of the parallel loop come in any    *)
(* order, so that r is the sum over a set of hashes; it is compared with   *)
(* the sum over all of them, taken in order, by induction on their number. *)
(***************************************************************************)
Upto == 0 .. number_hashes

\* Induction on the number of hashes.
LEMMA HashInduction ==
    ASSUME NEW P, 0 \in P, \A n \in Hash : n - 1 \in P => n \in P
    PROVE  Upto \subseteq P
<1> DEFINE T == Upto \ P
           Smaller == {p \in Nat \X Nat : p[1] < p[2]}
<1> SUFFICES ASSUME T # {} PROVE FALSE
  BY Zenon
<1>1. T \subseteq Nat
  BY HashesAssumption DEF Upto
<1>2. IsWellFoundedOn(Smaller, Nat)
  BY NatLessThanWellFounded, Zenon DEF OpToRel
<1>3. PICK m \in T : \A k \in T : ~(<<k, m>> \in Smaller)
  <2> HIDE DEF Smaller, T
  <2> QED  BY Zenon, <1>1, <1>2, WFMin
<1>4. \A k \in T : ~(k < m)
  BY Zenon, <1>1, <1>3
<1>5. m \in Hash /\ m - 1 \in Upto
  BY HashesAssumption DEF Upto, Hash
<1>6. m - 1 \notin T
  BY <1>4, <1>5, HashesAssumption DEF Hash
<1> QED  BY <1>5, <1>6, Zenon

\* f holds the sums of the first 0, 1, ... numbers of w.
IsSum(f, w) ==
    /\ f \in [Upto -> Nat]
    /\ f[0] = 0
    /\ \A n \in Hash : f[n] = f[n - 1] + w[n]
Total(w) == (CHOOSE f : IsSum(f, w))[number_hashes]

\* Hashes and their predecessors.
LEMMA HashRange ==
    /\ 0 \in Upto /\ number_hashes \in Upto
    /\ \A n \in Hash : n \in Nat \ {0} /\ n \in Upto /\ n - 1 \in Upto
    /\ \A n \in Upto : n \in Nat /\ (n = 0 \/ n \in Hash)
  BY HashesAssumption DEF Upto, Hash

\* There are such sums.
LEMMA SumExists ==
    ASSUME NEW w \in [Hash -> Nat]
    PROVE  \E f : IsSum(f, w)
<1> DEFINE Sums(m, f) == /\ f \in [0 .. m -> Nat] /\ f[0] = 0
                         /\ \A n \in 1 .. m : f[n] = f[n - 1] + w[n]
           P == {m \in Upto : \E f : Sums(m, f)}
<1>1. 0 \in P
  <2>1. Sums(0, [n \in 0 .. 0 |-> 0])
    OBVIOUS
  <2> QED  BY Zenon, <2>1, HashRange
<1>2. ASSUME NEW m \in Hash, m - 1 \in P PROVE m \in P
  <2>1. PICK f : Sums(m - 1, f)
    BY <1>2, Zenon
  <2> DEFINE g == [n \in 0 .. m |-> IF n = m THEN f[m - 1] + w[m] ELSE f[n]]
  <2>2. m \in Nat \ {0} /\ w[m] \in Nat /\ f[m - 1] \in Nat
    BY <2>1, HashRange
  <2>3. g \in [0 .. m -> Nat] /\ g[0] = 0
    BY <2>1, <2>2
  <2>4. ASSUME NEW n \in 1 .. m PROVE g[n] = g[n - 1] + w[n]
    <3>1. CASE n = m
      BY <2>2, <3>1
    <3>2. CASE n # m
      <4>1. n \in 1 .. (m - 1) /\ n \in 0 .. m /\ n - 1 \in 0 .. m /\ n - 1 # m
        BY <2>2, <3>2
      <4>2. f[n] = f[n - 1] + w[n]
        BY <2>1, <4>1, Zenon
      <4> QED  BY <3>2, <4>1, <4>2, Zenon
    <3> QED  BY <3>1, <3>2, Zenon
  <2>5. Sums(m, g)
    BY Zenon, <2>3, <2>4
  <2> QED  BY Zenon, <2>5, HashRange
<1>3. Upto \subseteq P
  <2> HIDE DEF P
  <2> QED  BY <1>1, <1>2, HashInduction, Zenon
<1>4. PICK f : Sums(number_hashes, f)
  BY Zenon, <1>3, HashRange
<1> QED  BY Zenon, <1>4 DEF IsSum, Upto, Hash

\* Sums of numbers that differ by d in one place differ by d from that place on.
LEMMA SumsDiffer ==
    ASSUME NEW v \in [Hash -> Nat], NEW w \in [Hash -> Nat], NEW i \in Hash, NEW d \in Nat,
           v[i] = w[i] + d, \A n \in Hash : n # i => v[n] = w[n],
           NEW f, IsSum(f, v), NEW g, IsSum(g, w)
    PROVE  f[number_hashes] = g[number_hashes] + d
<1> DEFINE P == {n \in Upto : f[n] = IF n < i THEN g[n] ELSE g[n] + d}
<1>1. 0 \in P
  BY HashRange DEF IsSum
<1>2. ASSUME NEW n \in Hash, n - 1 \in P PROVE n \in P
  <2>1. n \in Nat \ {0} /\ i \in Nat \ {0} /\ n \in Upto /\ n - 1 \in Upto
    BY HashRange, Zenon
  <2>2. /\ f[n] = f[n - 1] + v[n] /\ g[n] = g[n - 1] + w[n]
        /\ f[n - 1] \in Nat /\ g[n - 1] \in Nat /\ v[n] \in Nat /\ w[n] \in Nat
    BY <2>1, Zenon DEF IsSum
  <2>3. f[n - 1] = IF n - 1 < i THEN g[n - 1] ELSE g[n - 1] + d
    BY <1>2, Zenon
  <2>4. f[n] = IF n < i THEN g[n] ELSE g[n] + d
    <3>1. CASE n < i
      BY <2>1, <2>2, <2>3, <3>1
    <3>2. CASE n = i
      BY <2>1, <2>2, <2>3, <3>2
    <3>3. CASE n > i
      BY <2>1, <2>2, <2>3, <3>3
    <3> QED  BY <2>1, <3>1, <3>2, <3>3
  <2> QED  BY <2>1, <2>4, Zenon
<1>3. Upto \subseteq P
  <2> HIDE DEF P
  <2> QED  BY <1>1, <1>2, HashInduction, Zenon
<1>4. ~(number_hashes < i)
  BY HashesAssumption DEF Hash
<1> QED  BY <1>3, <1>4, HashRange, Zenon

\* The sum is the last of the sums, whichever way they are given.
LEMMA TotalIs ==
    ASSUME NEW w \in [Hash -> Nat]
    PROVE  /\ IsSum(CHOOSE f : IsSum(f, w), w)
           /\ \A g : IsSum(g, w) => Total(w) = g[number_hashes]
<1> DEFINE f == CHOOSE h : IsSum(h, w)
<1>1. IsSum(f, w)
  BY SumExists, Zenon
<1>2. Total(w) = f[number_hashes]
  BY Zenon DEF Total
<1> HIDE DEF f
<1>3. ASSUME NEW g, IsSum(g, w) PROVE f[number_hashes] = g[number_hashes]
  <2>1. 1 \in Hash /\ w[1] \in Nat /\ w[1] = w[1] + 0 /\ 0 \in Nat
    BY HashesAssumption DEF Hash
  <2>2. f[number_hashes] = g[number_hashes] + 0
    BY <1>1, <1>3, <2>1, SumsDiffer
  <2>3. g[number_hashes] \in Nat
    BY <1>3, HashRange, Zenon DEF IsSum
  <2> QED  BY <2>2, <2>3
<1> QED  BY <1>1, <1>2, <1>3, Zenon DEF f

\* One number more.
LEMMA TotalGrows ==
    ASSUME NEW v \in [Hash -> Nat], NEW w \in [Hash -> Nat], NEW i \in Hash, NEW d \in Nat,
           v[i] = w[i] + d, \A n \in Hash : n # i => v[n] = w[n]
    PROVE  Total(v) = Total(w) + d
<1>1. PICK f : IsSum(f, v) /\ Total(v) = f[number_hashes]
  BY TotalIs, Zenon
<1>2. PICK g : IsSum(g, w) /\ Total(w) = g[number_hashes]
  BY TotalIs, Zenon
<1>3. f[number_hashes] = g[number_hashes] + d
  BY <1>1, <1>2, SumsDiffer
<1> QED  BY <1>1, <1>2, <1>3, Zenon

\* Nothing sums up to nothing.
LEMMA TotalOfNothing == Total([n \in Hash |-> 0]) = 0
<1> DEFINE w == [n \in Hash |-> 0]
           g == [n \in Upto |-> 0]
<1>1. w \in [Hash -> Nat]
  BY Zenon
<1>2. IsSum(g, w)
  BY HashRange DEF IsSum
<1>3. Total(w) = g[number_hashes]
  <2> HIDE DEF w, g
  <2> QED  BY <1>1, <1>2, TotalIs, Zenon
<1> QED  BY <1>3, HashRange, Zenon

\* What the bits of a string weigh, and what a check has seen of it if all are set.
Masks(s) == [n \in Hash |-> Mask(hash[s][n])]
Seen(s, left) == [n \in Hash |-> IF n \in left THEN 0 ELSE Mask(hash[s][n])]

\* The weights of the bits are numbers.
LEMMA MasksType ==
    ASSUME TypeOK, NEW s \in String
    PROVE  /\ Masks(s) \in [Hash -> Nat] /\ \A n \in Hash : Mask(hash[s][n]) \in Nat
           /\ \A left : Seen(s, left) \in [Hash -> Nat]
<1>1. ASSUME NEW n \in Hash PROVE Mask(hash[s][n]) \in Nat
  <2>1. hash[s] \in [Hash -> Bit]
    BY Zenon DEF TypeOK, HashFunction
  <2>2. hash[s][n] \in Nat
    BY Zenon, <2>1, BitAssumption
  <2> QED  BY <2>2, MaskType, Zenon
<1> QED  BY <1>1, Zenon DEF Masks, Seen

\* The weight of a string is the sum of the weights of its bits.
LEMMA WeightIs ==
    ASSUME TypeOK, NEW s \in String
    PROVE  Weight(s) = Total(Masks(s))
<1> DEFINE Sums(f) == f = [n \in 0 .. number_hashes |->
                             IF n = 0 THEN 0 ELSE f[n - 1] + Mask(hash[s][n])]
           sum == CHOOSE f : Sums(f)
<1>1. Masks(s) \in [Hash -> Nat] /\ \A n \in Hash : Mask(hash[s][n]) \in Nat
  BY MasksType, Zenon
<1>2. PICK g : IsSum(g, Masks(s))
  BY <1>1, SumExists, Zenon
<1>3. Sums(g)
  <2>1. \A n \in Upto : n # 0 => g[n] = g[n - 1] + Mask(hash[s][n])
    BY <1>2, HashRange, Zenon DEF IsSum, Masks
  <2> QED  BY <1>2, <2>1, Zenon DEF IsSum, Upto
<1>4. Sums(sum)
  BY <1>3, Zenon
<1>5. Weight(s) = sum[number_hashes]
  BY Zenon DEF Weight
<1> HIDE DEF sum
<1>6. sum[0] = 0 /\ \A n \in Hash : sum[n] = sum[n - 1] + Mask(hash[s][n])
  BY <1>4, HashRange, Zenon DEF Upto
<1>7. sum \in [Upto -> Nat]
  <2> DEFINE P == {n \in Upto : sum[n] \in Nat}
  <2>1. 0 \in P
    BY <1>6, HashRange, Zenon
  <2>2. ASSUME NEW n \in Hash, n - 1 \in P PROVE n \in P
    BY <1>1, <1>6, <2>2, HashRange
  <2>3. Upto \subseteq P
    <3> HIDE DEF P
    <3> QED  BY <2>1, <2>2, HashInduction, Zenon
  <2>4. \A n \in Upto : sum[n] \in Nat
    BY <2>3, Zenon
  <2>5. DOMAIN sum = Upto /\ sum = [n \in Upto |-> sum[n]]
    BY <1>4, Zenon DEF Upto
  <2> QED  BY <2>4, <2>5, Zenon
<1>8. IsSum(sum, Masks(s))
  BY <1>6, <1>7, Zenon DEF IsSum, Masks
<1> QED  BY <1>1, <1>5, <1>8, TotalIs, Zenon

\* A check of a string that was inserted before has summed up the weights of the bits it
\* has looked at, whatever else happened in the meantime.
VerdictOf(t) ==
    /\ known[t] \subseteq added
    /\ pc[t] = "check" /\ str[t] \in known[t] => r[t] = Total(Seen(str[t], pending[t]))
    /\ answer[t] # "none" /\ str[t] \in known[t]
         => (answer[t] = "yes" <=> Total(Masks(str[t])) = number_hashes)
VerdictInv == \A t \in Thread : VerdictOf(t)

\* The answer for a string inserted before the check began is decided by the places of its
\* bits in their bytes alone, for any number of threads and hashes: neither the order of the
\* loop's iterations nor anything that happens at the same time changes it
\* (bloom_filter.hpp:283-301).
THEOREM VerdictOfInserted == Spec => []InsertedVerdict
<1>1. Init => VerdictInv
  BY Zenon DEF Init, VerdictInv, VerdictOf
<1>2. FilterInv /\ VerdictInv /\ [Next]_vars => VerdictInv'
  <2> SUFFICES ASSUME FilterInv, VerdictInv, [Next]_vars PROVE VerdictInv'
    BY Zenon
  <2>0. TypeOK /\ InsertedBitsSet
    BY Zenon DEF FilterInv
  <2>1. ASSUME NEW t \in Thread, NEW s \in String, insert_key(t, s) PROVE VerdictInv'
    BY <2>0, <2>1 DEF insert_key, Call, TypeOK, VerdictInv, VerdictOf, Seen, Masks
  <2>2. ASSUME NEW t \in Thread, NEW s \in String, prob_contains_key(t, s) PROVE VerdictInv'
    <3>1. Seen(s, Hash) = [n \in Hash |-> 0]
      BY Zenon DEF Seen
    <3>2. Total(Seen(s, Hash)) = 0
      BY <3>1, TotalOfNothing, Zenon
    <3>3. Total(Seen(s, Hash)') = 0
      BY <2>2, <3>2, Zenon DEF prob_contains_key, Seen
    <3> SUFFICES ASSUME NEW u \in Thread PROVE VerdictOf(u)'
      BY Zenon DEF VerdictInv
    <3>4. CASE u = t
      <4>1. str'[u] = s /\ pending'[u] = Hash /\ r'[u] = 0 /\ answer'[u] = "none"
        BY <2>0, <2>2, <3>4, Zenon DEF prob_contains_key, Call, TypeOK
      <4>2. known'[u] = added'
        BY <2>0, <2>2, <3>4, Zenon DEF prob_contains_key, TypeOK
      <4>3. Seen(str[u], pending[u])' = Seen(s, Hash)'
        BY <4>1, Zenon DEF Seen
      <4> QED  BY <3>3, <4>1, <4>2, <4>3, Zenon DEF VerdictOf
    <3>5. CASE u # t
      <4>1. /\ UNCHANGED <<str[u], pending[u], r[u], answer[u], pc[u]>>
            /\ UNCHANGED <<known[u], hash, added>>
        BY <2>0, <2>2, <3>5, Zenon DEF prob_contains_key, Call, TypeOK
      <4>2. UNCHANGED <<Seen(str[u], pending[u]), Masks(str[u])>>
        BY <4>1, Zenon DEF Seen, Masks
      <4> QED  BY <4>1, <4>2, Zenon DEF VerdictOf, VerdictInv
    <3> QED  BY <3>4, <3>5, Zenon
  <2>3. ASSUME NEW t \in Thread, NEW i \in Hash, SetBit(t, i) PROVE VerdictInv'
    BY Zenon, <2>0, <2>3 DEF SetBit, TypeOK, VerdictInv, VerdictOf, Seen, Masks
  <2>4. ASSUME NEW t \in Thread, LoadCount(t) \/ StoreCount(t) PROVE VerdictInv'
    BY <2>0, <2>4 DEF LoadCount, StoreCount, TypeOK, VerdictInv, VerdictOf, Seen, Masks
  <2>5. ASSUME NEW t \in Thread, NEW i \in Hash, CheckBit(t, i) PROVE VerdictInv'
    <3>1. /\ UNCHANGED <<hash, pc, str, answer, added, known>>
          /\ pending' = [pending EXCEPT ![t] = @ \ {i}]
          /\ r' = [r EXCEPT ![t] = r[t] + CHECK_BIT(hash[str[t]][i])]
          /\ i \in pending[t]
      BY <2>5, Zenon DEF CheckBit, Summed
    <3>2. ASSUME str[t] \in known[t], pc[t] = "check"
          PROVE  r'[t] = Total(Seen(str[t], pending[t] \ {i}))
      <4> DEFINE s == str[t]
                 v == Seen(s, pending[t] \ {i})
                 w == Seen(s, pending[t])
                 d == Mask(hash[s][i])
      <4>1. s \in String /\ s \in added /\ r[t] = Total(w)
        BY <2>0, <3>2, Zenon DEF VerdictInv, VerdictOf, TypeOK
      <4>2. hash[s][i] \in bloom
        BY <2>0, <4>1, Zenon DEF InsertedBitsSet, Bits
      <4>3. CHECK_BIT(hash[s][i]) = d
        BY <4>2, Zenon DEF CHECK_BIT
      <4>4. v \in [Hash -> Nat] /\ w \in [Hash -> Nat] /\ d \in Nat
        BY <2>0, <4>1, MasksType, Zenon
      <4>5. v[i] = w[i] + d /\ \A n \in Hash : n # i => v[n] = w[n]
        BY <3>1, <4>4 DEF Seen
      <4>6. Total(v) = Total(w) + d
        <5> HIDE DEF v, w, d
        <5> QED  BY <4>4, <4>5, TotalGrows, Zenon
      <4>7. r'[t] = r[t] + d
        BY <2>0, <3>1, <4>3, Zenon DEF TypeOK
      <4> QED  BY <4>1, <4>6, <4>7, Zenon
    <3>3. ASSUME NEW u \in Thread, pc'[u] = "check", str'[u] \in known'[u]
          PROVE  r'[u] = Total(Seen(str[u], pending[u])')
      <4>1. Seen(str[u], pending[u])' = Seen(str[u], pending'[u])
        BY <3>1, Zenon DEF Seen
      <4>2. CASE u = t
        BY <2>0, <3>1, <3>2, <3>3, <4>1, <4>2, Zenon DEF TypeOK
      <4>3. CASE u # t
        BY <2>0, <3>1, <3>3, <4>1, <4>3, Zenon DEF TypeOK, VerdictInv, VerdictOf
      <4> QED  BY <4>2, <4>3, Zenon
    <3>4. \A s : Masks(s)' = Masks(s)
      BY <3>1, Zenon DEF Masks
    <3> QED  BY Zenon, <2>0, <3>1, <3>3, <3>4 DEF VerdictInv, VerdictOf
  <2>6. ASSUME NEW t \in Thread, Verdict(t) PROVE VerdictInv'
    <3>1. Seen(str[t], {}) = Masks(str[t])
      BY Zenon DEF Seen, Masks
    <3>2. str[t] \in known[t] => r[t] = Total(Masks(str[t]))
      BY Zenon, <2>6, <3>1 DEF Verdict, VerdictInv, VerdictOf
    <3> QED  BY <2>0, <2>6, <3>2 DEF Verdict, TypeOK, VerdictInv, VerdictOf, Seen, Masks
  <2>7. CASE UNCHANGED vars
    BY <2>7, Zenon DEF vars, VerdictInv, VerdictOf, Seen, Masks
  <2> QED  BY <2>1, <2>2, <2>3, <2>4, <2>5, <2>6, <2>7, Zenon DEF Next
<1>3. FilterInv /\ VerdictInv => InsertedVerdict
  BY WeightIs, Zenon DEF FilterInv, TypeOK, VerdictInv, VerdictOf, InsertedVerdict
<1> QED  BY <1>1, <1>2, <1>3, FilterInvariant, PTL DEF Spec

====
