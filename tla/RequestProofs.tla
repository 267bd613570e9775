---------------------------- MODULE RequestProofs ----------------------------
(***************************************************************************)
(* Proofs about client requests: the pool the main thread collects them in *)
(* (ReadWritePool) and the network thread that is to receive them          *)
(* (Network).                                                              *)
(*                                                                         *)
(* The pool is a sorted array that loses nothing, for every set of keys    *)
(* and every size.  The inductive invariant adds to the two properties     *)
(* what the binary search knows half-way: everything left of left is       *)
(* smaller than the key, everything from right on is not, and conn_req is  *)
(* just before left as long as right has not moved (the comment at lines   *)
(* 31-34, which insertion at the end relies on).                           *)
(***************************************************************************)
EXTENDS ReadWritePool, Network, FiniteSetTheorems, WellFoundedInduction, TLAPS

\* What the loop at 20-28 maintains for an insertion.
InsertLoop ==
    pc = "insert" =>
      /\ length < PAGE_SIZE
      /\ left \in 0 .. right /\ right \in 0 .. length
      /\ \A i \in 1 .. left : data[i].key < key
      /\ \A i \in right + 1 .. length : data[i].key >= key
      /\ right = length => conn_req = IF left > 0 THEN left - 1 ELSE 0

\* What the loop at 76-84 maintains for a search; from -1 it never runs.
FindLoop ==
    pc = "find" =>
      \/ start = NotFound /\ left = NotFound
      \/ /\ start \in 0 .. left /\ left \in 0 .. right /\ right \in 0 .. length
         /\ \A i \in start + 1 .. left : data[i].key < key
         /\ \A i \in right + 1 .. length : data[i].key >= key

\* A result stays an index of the pool, which only grows.
ResultInside == result = NotFound \/ result \in 0 .. length - 1

PoolInv ==
    /\ TypeOK
    /\ SortedNewestFirst
    /\ NothingLost
    /\ removed \subseteq 1 .. length
    /\ InsertLoop
    /\ FindLoop
    /\ ResultInside

\* What the provers need of the types: keys are integers.
LEMMA Types ==
    ASSUME TypeOK
    PROVE  /\ Keys \subseteq Int /\ PAGE_SIZE \in Nat
           /\ data \in Seq(Entry) /\ length \in Nat /\ length <= PAGE_SIZE
           /\ key \in Keys /\ key \in Int
           /\ \A i \in 1 .. length : data[i] \in Entry /\ data[i].key \in Int
  <1>1. Keys \subseteq Int /\ PAGE_SIZE \in Nat
    BY KeysAssumption, PageAssumption, Zenon DEF KeysAssumption, PageAssumption
  <1>2. data \in Seq(Entry) /\ length <= PAGE_SIZE /\ key \in Keys
    BY Zenon DEF TypeOK
  <1>3. length \in Nat /\ \A i \in 1 .. length : data[i] \in Entry
    BY <1>2 DEF length
  <1>4. \A i \in 1 .. length : data[i].key \in Int
    BY Zenon, <1>1, <1>3 DEF Entry
  <1> QED  BY <1>1, <1>2, <1>3, <1>4, Zenon

\* The midpoint of a nonempty range lies in it.
LEMMA Midpoint ==
    ASSUME NEW l \in Nat, NEW r \in Nat, l < r
    PROVE  /\ (l + r) \div 2 \in Nat
           /\ l <= (l + r) \div 2 /\ (l + r) \div 2 < r
  BY SMT

\* A function on 1 .. n is a sequence of length n.
LEMMA FunctionIsSequence ==
    ASSUME NEW S, NEW n \in Nat, NEW f \in [1 .. n -> S]
    PROVE  f \in Seq(S) /\ Len(f) = n /\ DOMAIN f = 1 .. n
  BY SMT

\* Inserting a request whose buffer is new at the lower bound of its key keeps
\* the array sorted and complete.
LEMMA InsertAtLowerBound ==
    ASSUME PoolInv, pc = "insert", left \in 0 .. length, length < PAGE_SIZE,
           \A i \in 1 .. left : data[i].key < key,
           \A i \in left + 1 .. length : data[i].key >= key,
           data' = [i \in 1 .. length + 1 |->
                      IF i <= left THEN data[i]
                      ELSE IF i = left + 1 THEN Request
                      ELSE data[i - 1]],
           removed' = removed
    PROVE  /\ data' \in Seq(Entry) /\ Len(data') = length + 1
           /\ SortedNewestFirst'
           /\ NothingLost'
  <1>0. /\ data \in Seq(Entry) /\ length \in Nat /\ length <= PAGE_SIZE
        /\ key \in Keys /\ Keys \subseteq Int /\ PAGE_SIZE \in Nat /\ left \in Nat
        /\ \A i \in 1 .. length : /\ data[i] \in Entry /\ data[i].key \in Int
                                  /\ data[i].buf \in 1 .. length
    <2>1. \A i \in 1 .. length : data[i].buf \in 1 .. length
      BY Zenon DEF PoolInv, NothingLost
    <2>2. TypeOK
      BY Zenon DEF PoolInv
    <2>3. left \in Nat
      OBVIOUS
    <2> QED  BY <2>1, <2>2, <2>3, Types, Zenon
  <1>1. Request \in Entry /\ Request.buf = length + 1 /\ Request.key = key
        /\ Request.fd = 1
    BY <1>0 DEF Request, Entry, Socket
  <1>2. /\ data' \in Seq(Entry) /\ Len(data') = length + 1
        /\ DOMAIN data' = 1 .. length + 1
    <2>1. \A i \in 1 .. length + 1 : data'[i] \in Entry
      <3>1. ASSUME NEW i \in 1 .. length + 1
            PROVE  \/ i <= left /\ i \in 1 .. length
                   \/ i = left + 1 /\ ~(i <= left)
                   \/ ~(i <= left) /\ i # left + 1 /\ i - 1 \in 1 .. length
        BY <1>0
      <3> QED  BY <3>1, <1>0, <1>1, Zenon
    <2>2. data' \in [1 .. length + 1 -> Entry]
      BY <2>1, Zenon
    <2> DEFINE n == length + 1
    <2>3. n \in Nat
      BY <1>0
    <2>4. data' \in Seq(Entry) /\ Len(data') = n /\ DOMAIN data' = 1 .. n
      <3> DEFINE d == data'
      <3>1. d \in [1 .. n -> Entry]
        BY <2>2, Zenon
      <3> HIDE DEF d, n
      <3>2. d \in Seq(Entry) /\ Len(d) = n /\ DOMAIN d = 1 .. n
        BY <2>3, <3>1, FunctionIsSequence
      <3> QED  BY <3>2, Zenon DEF d
    <2> QED  BY Zenon, <2>4
  <1>3. length' = length + 1
    BY <1>2, Zenon DEF length
  <1>n. length \in Nat /\ left \in Nat /\ left <= length /\ key \in Int
    BY <1>0
  <1>4. ASSUME NEW i \in 1 .. length + 1
        PROVE  /\ i <= left \/ i = left + 1 \/ i > left + 1
               /\ i <= left => i \in 1 .. length
               /\ i = left + 1 => ~(i <= left)
               /\ i > left + 1 => /\ i - 1 \in 1 .. length /\ i - 1 \in left + 1 .. length
                                  /\ ~(i <= left) /\ i # left + 1
    BY <1>n
  <1>low. ASSUME NEW i \in 1 .. length + 1, i <= left
          PROVE  i \in 1 .. length /\ data'[i] = data[i]
    BY <1>4, <1>low, Zenon
  <1>new. ASSUME NEW i \in 1 .. length + 1, i = left + 1
          PROVE  data'[i] = Request
    BY <1>4, <1>new, Zenon
  <1>high. ASSUME NEW i \in 1 .. length + 1, i > left + 1
           PROVE  /\ i - 1 \in 1 .. length /\ i - 1 \in left + 1 .. length
                  /\ data'[i] = data[i - 1]
    BY <1>4, <1>high, Zenon
  <1>5. SortedNewestFirst'
    <2> SUFFICES ASSUME NEW i \in 1 .. length + 1, NEW j \in 1 .. length + 1, i < j
                 PROVE  \/ data'[i].key < data'[j].key
                        \/ data'[i].key = data'[j].key /\ data'[i].buf > data'[j].buf
      BY <1>3, Zenon DEF SortedNewestFirst
    <2>0. \A m, n \in 1 .. length :
            m < n => \/ data[m].key < data[n].key
                     \/ data[m].key = data[n].key /\ data[m].buf > data[n].buf
      BY Zenon DEF PoolInv, SortedNewestFirst
    <2>1. CASE j <= left
      <3>1. i <= left
        BY <2>1, <1>n
      <3>2. /\ i \in 1 .. length /\ data'[i] = data[i]
            /\ j \in 1 .. length /\ data'[j] = data[j]
        BY <2>1, <3>1, <1>low, Zenon
      <3> QED  BY <2>0, <3>2
    <2>2. CASE j = left + 1
      <3>1. i <= left /\ i \in 1 .. left
        BY <2>2, <1>n
      <3>2. data'[i] = data[i] /\ data'[j] = Request
        BY <2>2, <3>1, <1>low, <1>new, Zenon
      <3> QED  BY <3>1, <3>2, <1>1, Zenon
    <2>3. CASE j > left + 1 /\ i <= left
      <3>1. i < j - 1
        BY <2>3, <1>n
      <3>2. /\ i \in 1 .. length /\ data'[i] = data[i]
            /\ j - 1 \in 1 .. length /\ data'[j] = data[j - 1]
        BY <2>3, <1>low, <1>high, Zenon
      <3> QED  BY <2>0, <3>1, <3>2
    <2>4. CASE j > left + 1 /\ i = left + 1
      <3>1. /\ data[j - 1].key >= key /\ data[j - 1].key \in Int
            /\ data[j - 1].buf \in 1 .. length
        BY <2>4, <1>0, <1>high, Zenon
      <3>2. \/ key < data[j - 1].key /\ length + 1 > data[j - 1].buf
            \/ key = data[j - 1].key /\ length + 1 > data[j - 1].buf
        <4>1. ASSUME NEW k \in Int, k >= key, NEW b \in 1 .. length
              PROVE  (key < k \/ key = k) /\ length + 1 > b
          BY <4>1, <1>n
        <4> QED  BY <3>1, <4>1, Zenon
      <3>3. data'[i] = Request /\ data'[j] = data[j - 1]
        BY <2>4, <1>new, <1>high, Zenon
      <3> QED  BY <3>2, <3>3, <1>1, Zenon
    <2>5. CASE j > left + 1 /\ i > left + 1
      <3>1. i - 1 < j - 1
        OBVIOUS
      <3>2. /\ i - 1 \in 1 .. length /\ data'[i] = data[i - 1]
            /\ j - 1 \in 1 .. length /\ data'[j] = data[j - 1]
        BY <2>5, <1>high, Zenon
      <3> QED  BY <2>0, <3>1, <3>2
    <2> QED  BY <1>4, <2>1, <2>2, <2>3, <2>4, <2>5, Zenon
  <1>6. {data'[i].buf : i \in 1 .. length + 1} = 1 .. length + 1
    <2>0. /\ 1 .. length \subseteq 1 .. length + 1 /\ length + 1 \in 1 .. length + 1
          /\ left + 1 \in 1 .. length + 1
      BY <1>n
    <2>1. \A i \in 1 .. length + 1 : data'[i].buf \in 1 .. length + 1
      <3> SUFFICES ASSUME NEW i \in 1 .. length + 1 PROVE data'[i].buf \in 1 .. length + 1
        BY Zenon
      <3>1. CASE i <= left
        BY <2>0, <3>1, <1>0, <1>low, Zenon
      <3>2. CASE i = left + 1
        BY <2>0, <3>2, <1>1, <1>new, Zenon
      <3>3. CASE i > left + 1
        BY <2>0, <3>3, <1>0, <1>high, Zenon
      <3> QED  BY <3>1, <3>2, <3>3, <1>4, Zenon
    <2>2. ASSUME NEW b \in 1 .. length + 1
          PROVE  \E i \in 1 .. length + 1 : data'[i].buf = b
      <3>1. CASE b = length + 1
        BY <2>0, <3>1, <1>1, <1>new, Zenon
      <3>2. CASE b \in 1 .. length
        <4>1. PICK i \in 1 .. length : data[i].buf = b
          <5>1. {data[i].buf : i \in 1 .. length} = 1 .. length
            BY Zenon DEF PoolInv, NothingLost
          <5>2. b \in {data[i].buf : i \in 1 .. length}
            BY <3>2, <5>1, Zenon
          <5> QED  BY <5>2, Zenon
        <4>2. CASE i <= left
          BY <2>0, <4>1, <4>2, <1>low, Zenon
        <4>3. CASE i > left
          <5>1. i + 1 \in 1 .. length + 1 /\ i + 1 > left + 1 /\ (i + 1) - 1 = i
            BY <4>3, <1>n
          <5>2. data'[i + 1] = data[i]
            BY <5>1, <1>high, Zenon
          <5> QED  BY <5>1, <5>2, <4>1, Zenon
        <4>4. i <= left \/ i > left
          BY <1>n
        <4> QED  BY <4>2, <4>3, <4>4, Zenon
      <3>3. b = length + 1 \/ b \in 1 .. length
        BY <1>n
      <3> QED  BY <3>1, <3>2, <3>3, Zenon
    <2> DEFINE S == 1 .. length + 1
    <2>3. /\ \A i \in S : data'[i].buf \in S
          /\ \A b \in S : \E i \in S : data'[i].buf = b
      BY Zenon, <2>1, <2>2
    <2>4. {data'[i].buf : i \in S} = S
      <3> HIDE DEF S
      <3> DEFINE d == data'
      <3>1. (\A i \in S : d[i].buf \in S) /\ (\A b \in S : \E i \in S : d[i].buf = b)
        BY <2>3, Zenon
      <3> HIDE DEF d
      <3>2. {d[i].buf : i \in S} = S
        BY <3>1, Zenon
      <3> QED  BY <3>2, Zenon DEF d
    <2> QED  BY <2>4, Zenon
  <1>7. \A i \in 1 .. length + 1 : data'[i].fd = -1 <=> data'[i].buf \in removed
    <2>1. length + 1 \notin removed
      <3>1. removed \subseteq 1 .. length
        BY Zenon DEF PoolInv
      <3> QED  BY <3>1, <1>n
    <2>2. \A i \in 1 .. length : data[i].fd = -1 <=> data[i].buf \in removed
      BY Zenon DEF PoolInv, NothingLost
    <2>3. Request.buf = length + 1 /\ Request.fd # -1
      BY <1>1
    <2> SUFFICES ASSUME NEW i \in 1 .. length + 1
                 PROVE  data'[i].fd = -1 <=> data'[i].buf \in removed
      BY Zenon
    <2>4. CASE i <= left
      BY <2>2, <2>4, <1>low, Zenon
    <2>5. CASE i = left + 1
      BY <2>1, <2>3, <2>5, <1>new, Zenon
    <2>6. CASE i > left + 1
      <3>1. i - 1 \in 1 .. length /\ data'[i] = data[i - 1]
        BY <2>6, <1>high, Zenon
      <3>2. data[i - 1].fd = -1 <=> data[i - 1].buf \in removed
        BY <2>2, <3>1, Zenon
      <3> QED  BY <3>1, <3>2, Zenon
    <2> QED  BY <2>4, <2>5, <2>6, <1>4, Zenon
  <1>8. ASSUME NEW i \in 1 .. length + 1, NEW j \in 1 .. length + 1,
               data'[i].buf = data'[j].buf, i < j
        PROVE  FALSE
    <2>0. \A m, n \in 1 .. length : data[m].buf = data[n].buf => m = n
      BY Zenon DEF PoolInv, NothingLost
    <2>n. length + 1 \notin 1 .. length
      BY <1>n
    <2>1. CASE j <= left
      <3>1. i <= left /\ i # j
        BY <2>1, <1>8, <1>n
      <3>2. /\ i \in 1 .. length /\ data'[i] = data[i]
            /\ j \in 1 .. length /\ data'[j] = data[j]
        BY <2>1, <3>1, <1>low, Zenon
      <3> QED  BY <2>0, <3>1, <3>2, <1>8, Zenon
    <2>2. CASE i <= left /\ j > left + 1
      <3>1. i # j - 1
        BY <2>2, <1>n
      <3>2. /\ i \in 1 .. length /\ data'[i] = data[i]
            /\ j - 1 \in 1 .. length /\ data'[j] = data[j - 1]
        BY <2>2, <1>low, <1>high, Zenon
      <3> QED  BY <2>0, <3>1, <3>2, <1>8, Zenon
    <2>3. CASE i > left + 1
      <3>1. j > left + 1 /\ i - 1 # j - 1
        BY <2>3, <1>8, <1>n
      <3>2. /\ i - 1 \in 1 .. length /\ data'[i] = data[i - 1]
            /\ j - 1 \in 1 .. length /\ data'[j] = data[j - 1]
        BY <2>3, <3>1, <1>high, Zenon
      <3> QED  BY <2>0, <3>1, <3>2, <1>8, Zenon
    <2>4. CASE i = left + 1
      <3>1. j > left + 1
        BY <2>4, <1>8, <1>n
      <3>2. data'[i] = Request /\ data'[j].buf \in 1 .. length
        BY <2>4, <3>1, <1>0, <1>new, <1>high, Zenon
      <3> QED  BY <2>n, <3>2, <1>1, <1>8, Zenon
    <2>5. CASE j = left + 1
      <3>1. i <= left
        BY <2>5, <1>8, <1>n
      <3>2. data'[j] = Request /\ data'[i].buf \in 1 .. length
        BY <2>5, <3>1, <1>0, <1>new, <1>low, Zenon
      <3> QED  BY <2>n, <3>2, <1>1, <1>8, Zenon
    <2> QED  BY <2>1, <2>2, <2>3, <2>4, <2>5, <1>4, Zenon
  <1>9. \A i, j \in 1 .. length + 1 : data'[i].buf = data'[j].buf => i = j
    <2> SUFFICES ASSUME NEW i \in 1 .. length + 1, NEW j \in 1 .. length + 1,
                        data'[i].buf = data'[j].buf
                 PROVE  i = j
      BY Zenon
    <2>1. ~(i < j)
      BY <1>8, Zenon
    <2>2. ~(j < i)
      BY <1>8, Zenon
    <2> QED  BY <2>1, <2>2, <1>0
  <1> QED  BY Zenon, <1>2, <1>3, <1>5, <1>6, <1>7, <1>9 DEF NothingLost

\* An operation that leaves the array alone keeps it sorted and complete.
LEMMA ArrayStays ==
    ASSUME PoolInv, data' = data, removed' = removed
    PROVE  /\ length' = length
           /\ SortedNewestFirst' /\ NothingLost' /\ (removed \subseteq 1 .. length)'
  <1>1. length' = length
    BY Zenon DEF length
  <1>2. SortedNewestFirst'
    <2>1. SortedNewestFirst
      BY Zenon DEF PoolInv
    <2> QED  BY <1>1, <2>1 DEF SortedNewestFirst
  <1>3. NothingLost' /\ (removed \subseteq 1 .. length)'
    <2>1. NothingLost /\ removed \subseteq 1 .. length
      BY Zenon DEF PoolInv
    <2> QED  BY <1>1, <2>1 DEF NothingLost
  <1> QED  BY <1>1, <1>2, <1>3, Zenon

\* The whole invariant is inductive: every operation, and every iteration of
\* the two binary searches, keeps it.
THEOREM PoolInvariant == Spec => []PoolInv
<1>1. Init => PoolInv
  <2> SUFFICES ASSUME Init PROVE PoolInv
    BY Zenon
  <2>1. length = 0 /\ PAGE_SIZE \in Nat
    BY PageAssumption, Zenon DEF Init, length, PageAssumption
  <2>2. TypeOK
    BY <2>1 DEF Init, TypeOK, NotFound, length
  <2>3. SortedNewestFirst /\ NothingLost /\ removed \subseteq 1 .. length
    BY <2>1 DEF Init, SortedNewestFirst, NothingLost
  <2>4. InsertLoop /\ FindLoop /\ ResultInside
    BY Zenon DEF Init, InsertLoop, FindLoop, ResultInside
  <2> QED  BY <2>2, <2>3, <2>4, Zenon DEF PoolInv
<1>2. PoolInv /\ [Next]_vars => PoolInv'
  <2> SUFFICES ASSUME PoolInv, [Next]_vars PROVE PoolInv'
    BY Zenon
  <2>0. /\ Keys \subseteq Int /\ PAGE_SIZE \in Nat
        /\ data \in Seq(Entry) /\ length \in Nat /\ length <= PAGE_SIZE
        /\ \A i \in 1 .. length : data[i] \in Entry /\ data[i].key \in Int
    BY Types, Zenon DEF PoolInv
  <2>1. ASSUME NEW k \in Keys, insert_read_write(k) PROVE PoolInv'
    <3>1. TypeOK'
      BY <2>0, <2>1 DEF PoolInv, TypeOK, insert_read_write, length
    <3>2. SortedNewestFirst' /\ NothingLost' /\ (removed \subseteq 1 .. length)'
      BY <2>1, ArrayStays, Zenon DEF insert_read_write
    <3>3. InsertLoop' /\ FindLoop' /\ ResultInside'
      BY <2>0, <2>1 DEF PoolInv, insert_read_write, length, InsertLoop, FindLoop,
         ResultInside
    <3> QED  BY <3>1, <3>2, <3>3, Zenon DEF PoolInv
  <2>2. ASSUME NEW s \in 0 .. PAGE_SIZE \cup {NotFound}, NEW k \in Keys,
               find_index_starting_from(s, k)
        PROVE  PoolInv'
    <3>1. TypeOK'
      BY <2>0, <2>2 DEF PoolInv, TypeOK, find_index_starting_from, length
    <3>2. SortedNewestFirst' /\ NothingLost' /\ (removed \subseteq 1 .. length)'
      BY <2>2, ArrayStays, Zenon DEF find_index_starting_from
    <3>3. s = NotFound \/ s \in 0 .. length
      BY <2>0, <2>2 DEF PoolInv, ResultInside, find_index_starting_from
    <3>4. InsertLoop' /\ FindLoop' /\ ResultInside'
      BY <2>0, <2>2, <3>3 DEF PoolInv, find_index_starting_from, length, InsertLoop,
         FindLoop, ResultInside
    <3> QED  BY <3>1, <3>2, <3>4, Zenon DEF PoolInv
  <2>3. ASSUME NEW i \in 0 .. length - 1, remove_via_index(i) PROVE PoolInv'
    <3>0. /\ i + 1 \in 1 .. length
          /\ data' = [data EXCEPT ![i + 1] = [data[i + 1] EXCEPT !.fd = -1]]
      BY <2>0, <2>3 DEF remove_via_index
    <3>a. [data[i + 1] EXCEPT !.fd = -1] \in Entry
      BY Zenon, <2>0, <3>0 DEF Entry
    <3>b. data' \in Seq(Entry) /\ length' = length
      BY <2>0, <3>0, <3>a DEF length
    <3>1. /\ length' = length /\ i + 1 \in 1 .. length /\ data' \in Seq(Entry)
          /\ \A j \in 1 .. length : /\ data'[j].key = data[j].key
                                    /\ data'[j].buf = data[j].buf
                                    /\ data'[j].fd = IF j = i + 1 THEN -1 ELSE data[j].fd
      <4>1. \A j \in 1 .. length : j # i + 1 => data'[j] = data[j]
        BY <2>0, <3>0 DEF length
      <4>2. data'[i + 1] = [data[i + 1] EXCEPT !.fd = -1]
        BY <2>0, <3>0 DEF length
      <4>3. /\ data'[i + 1].key = data[i + 1].key /\ data'[i + 1].buf = data[i + 1].buf
            /\ data'[i + 1].fd = -1
        BY <2>0, <3>0, <4>2 DEF Entry
      <4> QED  BY <3>0, <3>b, <4>1, <4>3
    <3>2. TypeOK'
      BY Zenon, <2>0, <2>3, <3>1 DEF PoolInv, TypeOK, remove_via_index, Entry
    <3>3. SortedNewestFirst'
      BY <3>1 DEF PoolInv, SortedNewestFirst
    <3>4. NothingLost' /\ (removed \subseteq 1 .. length)'
      <4>1. {data'[j].buf : j \in 1 .. length} = 1 .. length
        <5>1. \A j \in 1 .. length : data'[j].buf = data[j].buf
          BY <3>1, Zenon
        <5>2. {data'[j].buf : j \in 1 .. length} = {data[j].buf : j \in 1 .. length}
          BY <5>1, Zenon
        <5>3. {data[j].buf : j \in 1 .. length} = 1 .. length
          BY Zenon DEF PoolInv, NothingLost
        <5> QED  BY <5>2, <5>3, Zenon
      <4>2. data[i + 1].buf \in 1 .. length
        BY <3>1 DEF PoolInv, NothingLost
      <4>3. \A j, m \in 1 .. length : data[j].buf = data[m].buf => j = m
        BY Zenon DEF PoolInv, NothingLost
      <4>4. ASSUME NEW j \in 1 .. length
            PROVE  data'[j].fd = -1 <=> data'[j].buf \in removed'
        <5>1. data[j].fd = -1 <=> data[j].buf \in removed
          BY Zenon DEF PoolInv, NothingLost
        <5>2. removed' = removed \cup {data[i + 1].buf}
          BY <2>3, Zenon DEF remove_via_index
        <5>3. CASE j = i + 1
          BY <3>1, <5>2, <5>3, Zenon
        <5>4. CASE j # i + 1
          <6>1. data[j].buf # data[i + 1].buf
            BY <3>1, <4>3, <5>4, Zenon
          <6> QED  BY <3>1, <5>1, <5>2, <5>4, <6>1, Zenon
        <5> QED  BY <5>3, <5>4, Zenon
      <4>5. removed' \subseteq 1 .. length
        BY <2>3, <4>2, Zenon DEF PoolInv, remove_via_index
      <4>6. \A j, m \in 1 .. length : data'[j].buf = data'[m].buf => j = m
        BY <3>1, <4>3, Zenon
      <4> QED  BY <3>1, <4>1, <4>4, <4>5, <4>6, Zenon DEF NothingLost
    <3>5. InsertLoop' /\ FindLoop' /\ ResultInside'
      BY <2>3, <3>1, Zenon DEF PoolInv, remove_via_index, InsertLoop, FindLoop, ResultInside
    <3> QED  BY <3>2, <3>3, <3>4, <3>5, Zenon DEF PoolInv
  <2>4. CASE Search
    <3> DEFINE mid == (left + right) \div 2
    <3>1. /\ left \in Nat /\ right \in Nat /\ left < right /\ right <= length
          /\ UNCHANGED <<data, pc, key, start, result, removed>>
          /\ pc \in {"insert", "find"} /\ conn_req' = mid
      BY <2>0, <2>4 DEF PoolInv, InsertLoop, FindLoop, Search, Smaller, Searching
    <3>2. mid \in Nat /\ left <= mid /\ mid < right
      BY <3>1, Midpoint, Zenon
    <3>3. \/ data[mid + 1].key < key /\ left' = mid + 1 /\ right' = right
          \/ ~(data[mid + 1].key < key) /\ right' = mid /\ left' = left
      BY <2>4, Zenon DEF Search, Smaller
    <3> HIDE DEF mid
    <3>4. mid + 1 \in 1 .. length /\ key \in Int /\ length' = length
      BY <2>0, <3>1, <3>2 DEF PoolInv, TypeOK, length
    <3>5. TypeOK'
      <4>1. left' \in 0 .. PAGE_SIZE /\ right' \in 0 .. PAGE_SIZE /\ mid \in 0 .. PAGE_SIZE
        BY <2>0, <3>1, <3>2, <3>3
      <4> QED  BY <3>1, <3>4, <4>1, Zenon DEF PoolInv, TypeOK
    <3>6. SortedNewestFirst' /\ NothingLost' /\ (removed \subseteq 1 .. length)'
      BY <3>1, ArrayStays, Zenon
    <3>7. ResultInside'
      BY <3>1, <3>4, Zenon DEF PoolInv, ResultInside
    <3>8. (\A j \in 1 .. mid + 1 : data[j].key <= data[mid + 1].key)
          /\ (\A j \in mid + 1 .. length : data[j].key >= data[mid + 1].key)
      <4>1. /\ \A j \in 1 .. length : data[j].key \in Int
            /\ length \in Nat
        BY <2>0, Zenon
      <4>2. \A j, m \in 1 .. length : j < m => data[j].key <= data[m].key
        BY <4>1 DEF PoolInv, SortedNewestFirst
      <4> HIDE DEF PoolInv
      <4> QED  BY <3>4, <4>1, <4>2
    <3>a. \/ /\ left' = mid + 1 /\ right' = right
             /\ \A j \in 1 .. mid + 1 : data[j].key < key
          \/ /\ left' = left /\ right' = mid
             /\ \A j \in mid + 1 .. length : data[j].key >= key
      <4>1. CASE data[mid + 1].key < key /\ left' = mid + 1 /\ right' = right
        <5>1. \A j \in 1 .. mid + 1 : data[j].key < key
          BY <2>0, <3>4, <3>8, <4>1
        <5> QED  BY <4>1, <5>1, Zenon
      <4>2. CASE ~(data[mid + 1].key < key) /\ right' = mid /\ left' = left
        <5>1. \A j \in mid + 1 .. length : data[j].key >= key
          BY <2>0, <3>2, <3>4, <3>8, <4>2
        <5> QED  BY <4>2, <5>1, Zenon
      <4> QED  BY <3>3, <4>1, <4>2, Zenon
    <3>9. InsertLoop'
      <4> SUFFICES ASSUME pc = "insert" PROVE InsertLoop'
        BY <3>1, Zenon DEF InsertLoop
      <4>1. /\ length < PAGE_SIZE
            /\ \A j \in 1 .. left : data[j].key < key
            /\ \A j \in right + 1 .. length : data[j].key >= key
        BY Zenon DEF PoolInv, InsertLoop
      <4>2. /\ left' \in 0 .. right' /\ right' \in 0 .. length
            /\ right' = length => conn_req' = IF left' > 0 THEN left' - 1 ELSE 0
        BY <2>0, <3>1, <3>2, <3>a
      <4>3. /\ \A j \in 1 .. left' : data[j].key < key
            /\ \A j \in right' + 1 .. length : data[j].key >= key
        BY <3>a, <4>1, Zenon
      <4> QED  BY Zenon, <3>1, <3>4, <4>1, <4>2, <4>3 DEF InsertLoop
    <3>10. FindLoop'
      <4> SUFFICES ASSUME pc = "find" PROVE FindLoop'
        BY <3>1, Zenon DEF FindLoop
      <4>1. /\ start \in 0 .. left
            /\ \A j \in start + 1 .. left : data[j].key < key
            /\ \A j \in right + 1 .. length : data[j].key >= key
        BY <3>1 DEF PoolInv, FindLoop, NotFound
      <4>2. start \in 0 .. left' /\ left' \in 0 .. right' /\ right' \in 0 .. length
        BY <2>0, <3>1, <3>2, <3>a, <4>1
      <4>3. \A j \in start + 1 .. left' : data[j].key < key
        BY <3>2, <3>a, <4>1
      <4>4. \A j \in right' + 1 .. length : data[j].key >= key
        BY <3>a, <4>1, Zenon
      <4> QED  BY Zenon, <3>1, <3>4, <4>2, <4>3, <4>4 DEF FindLoop
    <3> QED  BY <3>5, <3>6, <3>7, <3>9, <3>10, Zenon DEF PoolInv
  <2>5. CASE InsertAtEnd \/ InsertShift
    <3>1. /\ pc = "insert" /\ ~Searching /\ pc' = "idle" /\ removed' = removed
          /\ UNCHANGED <<key, start, left, right, conn_req, result>>
      BY <2>5, Zenon DEF InsertAtEnd, InsertShift, Shifted
    <3>2. /\ left \in 0 .. length /\ left = right /\ length < PAGE_SIZE
          /\ \A i \in 1 .. left : data[i].key < key
          /\ \A i \in left + 1 .. length : data[i].key >= key
          /\ right = length => conn_req = IF left > 0 THEN left - 1 ELSE 0
      BY <2>0, <3>1 DEF PoolInv, InsertLoop, Searching, NotFound
    <3>3. data' = [i \in 1 .. length + 1 |->
                     IF i <= left THEN data[i]
                     ELSE IF i = left + 1 THEN Request ELSE data[i - 1]]
      <4>1. CASE InsertAtEnd
        <5>1. conn_req + (IF left > 0 THEN 1 ELSE 0) = length /\ left = length
          BY <2>0, <3>2, <4>1 DEF InsertAtEnd
        <5>2. PICK garbage \in Entry :
                data' = [i \in 1 .. length + 1 |->
                           IF i = length + 1 THEN Request
                           ELSE IF i <= length THEN data[i] ELSE garbage]
          BY <4>1, <5>1, Zenon DEF InsertAtEnd
        <5> QED  BY <2>0, <5>1, <5>2
      <4>2. CASE InsertShift
        BY <4>2, Zenon DEF InsertShift, Shifted
      <4> QED  BY <2>5, <4>1, <4>2, Zenon
    <3>4. /\ data' \in Seq(Entry) /\ length' = length + 1
          /\ SortedNewestFirst' /\ NothingLost'
      <4>1. /\ data' \in Seq(Entry) /\ Len(data') = length + 1
            /\ SortedNewestFirst' /\ NothingLost'
        BY Zenon, <3>1, <3>2, <3>3, InsertAtLowerBound
      <4> QED  BY <4>1, Zenon DEF length
    <3>5. TypeOK'
      BY <2>0, <3>1, <3>2, <3>4 DEF PoolInv, TypeOK
    <3>6. (removed \subseteq 1 .. length)'
      BY <2>0, <3>1, <3>4 DEF PoolInv
    <3>7. InsertLoop' /\ FindLoop' /\ ResultInside'
      BY <2>0, <3>1, <3>4 DEF PoolInv, InsertLoop, FindLoop, ResultInside
    <3> QED  BY <3>4, <3>5, <3>6, <3>7, Zenon DEF PoolInv
  <2>6. CASE FindReturn
    <3>1. /\ pc' = "idle" /\ UNCHANGED <<data, key, start, left, right, conn_req, removed>>
          /\ length' = length
      BY <2>6, Zenon DEF FindReturn, NotThere, length
    <3>2. left = NotFound \/ left \in 0 .. length
      BY <2>0, <2>6 DEF FindReturn, NotThere, PoolInv, FindLoop
    <3>3. ResultInside' /\ result' \in 0 .. PAGE_SIZE \cup {NotFound}
      BY <2>0, <2>6, <3>1, <3>2 DEF FindReturn, NotThere, ResultInside
    <3>4. TypeOK'
      BY <3>1, <3>3, Zenon DEF PoolInv, TypeOK
    <3>5. SortedNewestFirst' /\ NothingLost' /\ (removed \subseteq 1 .. length)'
      BY <3>1, ArrayStays, Zenon
    <3>6. InsertLoop' /\ FindLoop'
      BY <3>1, Zenon DEF InsertLoop, FindLoop
    <3> QED  BY <3>3, <3>4, <3>5, <3>6, Zenon DEF PoolInv
  <2>7. CASE UNCHANGED vars
    <3>1. /\ length' = length
          /\ SortedNewestFirst' /\ NothingLost' /\ (removed \subseteq 1 .. length)'
      BY <2>7, ArrayStays, Zenon DEF vars
    <3>2. TypeOK' /\ InsertLoop' /\ FindLoop' /\ ResultInside'
      BY <2>7, <3>1 DEF vars, PoolInv, TypeOK, InsertLoop, FindLoop, ResultInside
    <3> QED  BY <3>1, <3>2, Zenon DEF PoolInv
  <2> QED  BY <2>1, <2>2, <2>3, <2>4, <2>5, <2>6, <2>7, Zenon DEF Next
<1> QED  BY <1>1, <1>2, PTL DEF Spec

\* The variables keep their types; in particular no index leaves the array.
THEOREM TypeCorrect == Spec => []TypeOK
  BY PoolInvariant, PTL DEF PoolInv

\* "This data structure shall be implemented as a sorted array", with the newest
\* of several requests for one key first.
THEOREM Sorted == Spec => []SortedNewestFirst
  BY PoolInvariant, PTL DEF PoolInv

\* Insertion is "guaranteed to succeed": each request has exactly one entry, and
\* only the entries of removed requests carry -1.
THEOREM Complete == Spec => []NothingLost
  BY PoolInvariant, PTL DEF PoolInv

\* A finished search stands at the lower bound of its key: insertion happens
\* there, and find_index_starting_from decides by it.
THEOREM LowerBoundFound == Spec => []SearchFindsLowerBound
<1>1. PoolInv => SearchFindsLowerBound
  <2> SUFFICES ASSUME PoolInv, pc \in {"insert", "find"}, ~Searching
               PROVE  left = IF pc = "find" /\ start = NotFound THEN NotFound
                             ELSE LowerBound(IF pc = "find" THEN start ELSE 0, key)
    BY Zenon DEF SearchFindsLowerBound
  <2>1. CASE pc = "find" /\ start = NotFound
    BY <2>1 DEF PoolInv, FindLoop, NotFound
  <2>2. CASE ~(pc = "find" /\ start = NotFound)
    <3> DEFINE s == IF pc = "find" THEN start ELSE 0
               Bound(m) == /\ \A i \in s .. m - 1 : data[i + 1].key < key
                           /\ m < length => data[m + 1].key >= key
    <3>0. length \in Nat /\ key \in Int /\ \A i \in 1 .. length : data[i].key \in Int
      BY Types, Zenon DEF PoolInv
    <3>1. /\ s \in Nat /\ left \in s .. length /\ left = right
          /\ \A i \in s + 1 .. left : data[i].key < key
          /\ \A i \in right + 1 .. length : data[i].key >= key
      <4>1. CASE pc = "insert"
        BY <3>0, <4>1 DEF PoolInv, InsertLoop, Searching, NotFound
      <4>2. CASE pc = "find"
        BY <2>2, <3>0, <4>2 DEF PoolInv, FindLoop, Searching, NotFound
      <4> QED  BY <4>1, <4>2, Zenon
    <3> HIDE DEF s
    <3>2. left \in s .. length /\ Bound(left)
      <4>1. \A i \in s .. left - 1 : data[i + 1].key < key
        BY <3>0, <3>1
      <4>2. left < length => data[left + 1].key >= key
        BY <3>0, <3>1
      <4> QED  BY <3>1, <4>1, <4>2, Zenon
    <3>3. ASSUME NEW m \in s .. length, Bound(m)
          PROVE  m = left
      <4>1. CASE m < left
        <5>1. data[m + 1].key < key /\ data[m + 1].key >= key /\ m + 1 \in 1 .. length
          BY <3>0, <3>1, <3>3, <4>1
        <5> QED  BY <5>1, <3>0
      <4>2. CASE m > left
        <5>1. data[left + 1].key < key /\ data[left + 1].key >= key /\ left + 1 \in 1 .. length
          BY <3>0, <3>1, <3>3, <4>2
        <5> QED  BY <5>1, <3>0
      <4> QED  BY <3>0, <3>1, <4>1, <4>2
    <3>4. left = CHOOSE m \in s .. length : Bound(m)
      <4> HIDE DEF Bound
      <4> QED  BY <3>2, <3>3, Zenon
    <3>5. left = LowerBound(s, key)
      BY <3>4, Zenon DEF LowerBound
    <3> QED  BY <2>2, <3>5, Zenon DEF s
  <2> QED  BY <2>1, <2>2, Zenon
<1> QED  BY <1>1, PoolInvariant, PTL

\* find_index_starting_from returns the first entry of a key that is there, and
\* -1 beyond either end of the pool.
THEOREM FindCorrect == Spec => FindAnswers
<1>1. PoolInv /\ [Next]_vars => [pc = "find" /\ pc' = "idle" => FindStep]_vars
  <2> SUFFICES ASSUME PoolInv, Next, pc = "find", pc' = "idle" PROVE FindStep
    BY Zenon DEF FindAnswers
  <2>1. FindReturn
    BY Zenon DEF Next, insert_read_write, find_index_starting_from, remove_via_index, Search, Smaller,
       InsertAtEnd, InsertShift, Shifted
  <2>2. length \in Nat /\ key \in Int /\ \A i \in 1 .. length : data[i].key \in Int
    BY Types, Zenon DEF PoolInv
  <2>3. ~Searching /\ result' = IF left = length \/ (left = 0 /\ data[1].key # key)
                                  THEN NotFound ELSE left
    BY <2>1, Zenon DEF FindReturn, NotThere
  <2>4. CASE start = NotFound
    <3>1. result' = NotFound
      BY <2>2, <2>3, <2>4 DEF PoolInv, FindLoop, NotFound
    <3> QED  BY <2>4, <3>1, Zenon DEF FindStep, NotFound
  <2>5. CASE start # NotFound
    <3>1. /\ start \in Nat /\ left \in start .. length
          /\ \A i \in start + 1 .. left : data[i].key < key
          /\ \A i \in left + 1 .. length : data[i].key >= key
      BY <2>2, <2>3, <2>5 DEF PoolInv, FindLoop, Searching, NotFound
    <3> DEFINE at == {i \in 0 .. length - 1 : i >= start /\ data[i + 1].key = key}
    <3>2. ASSUME NEW i \in at
          PROVE  /\ left <= i /\ left \in at /\ result' = left
      <4>1. left <= i
        <5> SUFFICES ASSUME i < left PROVE FALSE
          BY <2>2, <3>1
        <5>1. i + 1 \in start + 1 .. left /\ i + 1 \in 1 .. length
          BY <2>2, <3>1
        <5> QED  BY <2>2, <3>1, <5>1
      <4>2. left + 1 \in 1 .. length /\ data[left + 1].key = key
        <5>1. left + 1 \in 1 .. length /\ i + 1 \in 1 .. length
          BY <2>2, <3>1, <4>1
        <5>2. data[left + 1].key >= key
          BY <2>2, <3>1, <5>1
        <5>3. data[left + 1].key <= data[i + 1].key
          <6>1. \A m, n \in 1 .. length : m < n => data[m].key <= data[n].key
            BY <2>2 DEF PoolInv, SortedNewestFirst
          <6>2. left = i \/ left + 1 < i + 1
            BY <2>2, <3>1, <4>1
          <6> QED  BY <2>2, <5>1, <6>1, <6>2
        <5> QED  BY <2>2, <5>1, <5>2, <5>3
      <4>3. left \in at
        BY <2>2, <3>1, <4>2
      <4>4. result' = left
        BY <2>2, <2>3, <3>1, <4>2
      <4> QED  BY <4>1, <4>3, <4>4, Zenon
    <3>3. at # {} => result' \in at /\ \A i \in at : result' <= i
      BY <3>2, Zenon
    <3>4. (\A i \in 1 .. length : data[i].key < key) => result' = NotFound
      <4> SUFFICES ASSUME \A i \in 1 .. length : data[i].key < key
                   PROVE  left = length
        BY <2>3, Zenon
      <4> SUFFICES ASSUME left < length PROVE FALSE
        BY <2>2, <3>1
      <4>1. left + 1 \in left + 1 .. length /\ left + 1 \in 1 .. length
        BY <2>2, <3>1
      <4> QED  BY <2>2, <3>1, <4>1
    <3>5. start = 0 /\ (\A i \in 1 .. length : data[i].key > key) => result' = NotFound
      <4> SUFFICES ASSUME start = 0, \A i \in 1 .. length : data[i].key > key
                   PROVE  result' = NotFound
        BY Zenon
      <4>1. left = 0
        <5> SUFFICES ASSUME left > 0 PROVE FALSE
          BY <2>2, <3>1
        <5>1. 1 \in start + 1 .. left /\ 1 \in 1 .. length
          BY <2>2, <3>1
        <5> QED  BY <2>2, <3>1, <5>1
      <4>2. left = length \/ data[1].key # key
        BY <2>2, <4>1
      <4> QED  BY <2>3, <4>1, <4>2, Zenon
    <3> QED  BY <3>3, <3>4, <3>5, Zenon DEF FindStep
  <2> QED  BY <2>4, <2>5, Zenon
<1> QED  BY <1>1, PoolInvariant, PTL DEF Spec, FindAnswers
-----------------------------------------------------------------------------
(***************************************************************************)
(* The network thread.                                                     *)
(***************************************************************************)
\* The multishot accept ends once, so that a turn prepares at most one new accept though
\* it may look at a completion it has seen before; the kernel performs at most one recv
\* for every turn of the thread.
NetworkInv ==
  /\ cq \in Seq(Completion)
  /\ sqe \in Fd \cup {Zero, Nothing}
  /\ accepts \in 0 .. 1
  /\ net_pc \in {"submit", "wait"}
  /\ accepting \in BOOLEAN /\ fault \in BOOLEAN
  /\ open \in SUBSET Fd /\ connections \in SUBSET Fd /\ served \in SUBSET Fd
  /\ recvs \in [Fd -> Nat] /\ turns \in 0 .. MaxTurns
  /\ \A fd \in Fd : recvs[fd] <= turns
  /\ \A n, k \in DeadAccepts : n = k
  /\ accepting => DeadAccepts = {}

\* A sequence is a function on the numbers up to its length.
LEMMA LengthOf ==
  ASSUME NEW S, NEW s \in Seq(S)
  PROVE  /\ Len(s) \in Nat /\ DOMAIN s = 1..Len(s) /\ s \in [1..Len(s) -> S]
         /\ \A k \in 1..Len(s) : s[k] \in S
  OBVIOUS

\* The sequences with no element and with one.
LEMMA ShortSequence ==
  ASSUME NEW S, NEW e \in S
  PROVE  <<>> \in Seq(S) /\ <<e>> \in Seq(S)
  OBVIOUS

\* One element more.
LEMMA Appended ==
  ASSUME NEW S, NEW s \in Seq(S), NEW e \in S
  PROVE  /\ Append(s, e) \in Seq(S) /\ Len(Append(s, e)) = Len(s) + 1
         /\ \A k \in 1..Len(s) : Append(s, e)[k] = s[k]
         /\ Append(s, e)[Len(s) + 1] = e
  OBVIOUS

\* Two sequences, one after the other.
LEMMA Concatenated ==
  ASSUME NEW S, NEW s \in Seq(S), NEW r \in Seq(S)
  PROVE  /\ s \o r \in Seq(S) /\ Len(s \o r) = Len(s) + Len(r)
         /\ \A k \in 1..(Len(s) + Len(r)) :
              (s \o r)[k] = IF k <= Len(s) THEN s[k] ELSE r[k - Len(s)]
  OBVIOUS

\* What is left behind the first elements.
LEMMA CutFrom ==
  ASSUME NEW S, NEW s \in Seq(S), NEW n \in Nat, n <= Len(s)
  PROVE  /\ SubSeq(s, n + 1, Len(s)) \in Seq(S) /\ Len(SubSeq(s, n + 1, Len(s))) = Len(s) - n
         /\ \A k \in 1..(Len(s) - n) : SubSeq(s, n + 1, Len(s))[k] = s[k + n]
  OBVIOUS

\* The completions the model builds.
LEMMA Completions ==
  /\ \A fd \in Fd \cup {None}, more \in BOOLEAN :
       /\ Accepted(fd, more) \in Completion
       /\ Accepted(fd, more).type = "ACCEPT" /\ Accepted(fd, more).res = fd
       /\ Accepted(fd, more).more = more
  /\ \A fd \in Fd : Received(fd) \in Completion /\ Received(fd).type = "RECV"
  /\ Unset \in Completion /\ Unset.type = "UNSET"
  /\ \A fd \in Fd : fd \in Nat \ {0}
  BY NetworkAssumption DEF Completion, Accepted, Received, Unset, None, Fd

\* What an entry of the completion queue is when it does not tell of a connection.
Silent(c) == c.type # "ACCEPT" \/ c.res = None

\* The queue grows by completions that tell of no connection.
Grows ==
  /\ cq' \in Seq(Completion)
  /\ Len(cq) \in Nat /\ Len(cq') \in Nat /\ Len(cq') >= Len(cq)
  /\ \A n \in 1 .. Len(cq) : cq'[n] = cq[n]
  /\ \A n \in (Len(cq) + 1) .. Len(cq') : Silent(cq'[n])

\* Such completions end no accept.
LEMMA SilentGrowth ==
  ASSUME Grows
  PROVE  DeadAccepts' = DeadAccepts
  BY DEF Grows, Silent, DeadAccepts, Fresh

\* One completion more.
LEMMA OneMore ==
  ASSUME cq \in Seq(Completion), NEW c \in Completion, cq' = Append(cq, c)
  PROVE  /\ cq' \in Seq(Completion) /\ Len(cq) \in Nat /\ Len(cq') = Len(cq) + 1
         /\ \A n \in 1 .. Len(cq) : cq'[n] = cq[n]
         /\ cq'[Len(cq) + 1] = c
         /\ Silent(c) => Grows
<1>1. /\ cq' \in Seq(Completion) /\ Len(cq) \in Nat /\ Len(cq') = Len(cq) + 1
      /\ \A n \in 1 .. Len(cq) : cq'[n] = cq[n]
      /\ cq'[Len(cq) + 1] = c
  BY Appended, LengthOf
<1> QED
  BY <1>1 DEF Grows

\* Neither does a failed accept, nor a recv, tell of a connection.
LEMMA OthersGrow ==
  ASSUME NetworkInv, AcceptFails \/ \E fd \in Fd : RecvDone(fd)
  PROVE  Grows
<1>1. cq \in Seq(Completion)
  BY Zenon DEF NetworkInv
<1>2. PICK c \in Completion : cq' = Append(cq, c) /\ Silent(c)
  <2>1. CASE AcceptFails
    <3>1. cq' = Append(cq, Accepted(None, FALSE))
      BY <2>1, Zenon DEF AcceptFails
    <3>2. Accepted(None, FALSE) \in Completion /\ Silent(Accepted(None, FALSE))
      BY Completions, Zenon DEF Silent
    <3> QED
      BY <3>1, <3>2, Zenon
  <2>2. ASSUME NEW fd \in Fd, RecvDone(fd)
        PROVE  \E c \in Completion : cq' = Append(cq, c) /\ Silent(c)
    <3>1. cq' = Append(cq, Received(fd))
      BY <2>2, Zenon DEF RecvDone
    <3>2. Received(fd) \in Completion /\ Silent(Received(fd))
      BY Completions, Zenon DEF Silent
    <3> QED
      BY <3>1, <3>2, Zenon
  <2> QED
    BY <2>1, <2>2, Zenon
<1> QED
  BY <1>1, <1>2, OneMore, Zenon

\* What a submission adds to the queue tells of no connection.
LEMMA SubmitGrows ==
  ASSUME NetworkInv, Submit
  PROVE  Grows
<1> DEFINE nops == IF sqe = Zero THEN <<Unset>> ELSE <<>>
           failed == [n \in 1 .. accepts |-> Accepted(None, FALSE)]
           middle == cq \o nops
<1>1. nops \in Seq(Completion) /\ Len(nops) \in Nat /\ \A n \in 1 .. Len(nops) : Silent(nops[n])
  BY Completions DEF Silent
<1>2. failed \in Seq(Completion) /\ Len(failed) \in Nat /\ \A n \in 1 .. Len(failed) : Silent(failed[n])
  <2>1. accepts \in Nat /\ \A n \in 1 .. accepts : failed[n] = Accepted(None, FALSE)
    BY DEF NetworkInv
  <2>2. Accepted(None, FALSE) \in Completion /\ Silent(Accepted(None, FALSE))
    BY Zenon, Completions DEF Silent
  <2>3. failed \in [1 .. accepts -> Completion]
    BY Zenon, <2>2
  <2>4. failed \in Seq(Completion)
    BY <2>1, <2>3, FunctionIsSequence, Zenon
  <2>5. Len(failed) \in Nat /\ DOMAIN failed = 1 .. Len(failed)
    BY <2>4, LengthOf, Zenon
  <2>6. DOMAIN failed = 1 .. accepts
    BY Zenon
  <2> QED
    BY <2>1, <2>2, <2>4, <2>5, <2>6, Zenon
<1>3. cq \in Seq(Completion) /\ Len(cq) \in Nat /\ cq' = middle \o failed
  BY LengthOf, Zenon DEF NetworkInv, Submit
<1> HIDE DEF nops, failed
<1>4. /\ middle \in Seq(Completion) /\ Len(middle) = Len(cq) + Len(nops)
      /\ \A n \in 1 .. (Len(cq) + Len(nops)) :
           middle[n] = IF n <= Len(cq) THEN cq[n] ELSE nops[n - Len(cq)]
  BY <1>1, <1>3, Concatenated, Zenon
<1> HIDE DEF middle
<1>5. /\ cq' \in Seq(Completion) /\ Len(cq') = Len(middle) + Len(failed)
      /\ \A n \in 1 .. (Len(middle) + Len(failed)) :
           cq'[n] = IF n <= Len(middle) THEN middle[n] ELSE failed[n - Len(middle)]
  <2>1. middle \in Seq(Completion) /\ failed \in Seq(Completion)
    BY <1>2, <1>4, Zenon
  <2>2. /\ middle \o failed \in Seq(Completion)
        /\ Len(middle \o failed) = Len(middle) + Len(failed)
        /\ \A n \in 1 .. (Len(middle) + Len(failed)) :
             (middle \o failed)[n] = IF n <= Len(middle) THEN middle[n] ELSE failed[n - Len(middle)]
    BY <2>1, Concatenated, Zenon
  <2>3. cq' = middle \o failed
    BY <1>3, Zenon
  <2> QED
    BY <2>2, <2>3, Zenon
<1>n. /\ Len(cq) \in Nat /\ Len(nops) \in Nat /\ Len(failed) \in Nat
      /\ Len(middle) = Len(cq) + Len(nops) /\ Len(cq') = Len(middle) + Len(failed)
  BY <1>1, <1>2, <1>3, <1>4, <1>5, Zenon
<1>6. ASSUME NEW n \in (Len(cq) + 1) .. Len(cq') PROVE Silent(cq'[n])
  <2>0. /\ n \in 1 .. (Len(middle) + Len(failed)) /\ ~(n <= Len(cq))
        /\ n <= Len(middle) => /\ n \in 1 .. (Len(cq) + Len(nops))
                               /\ n - Len(cq) \in 1 .. Len(nops)
        /\ ~(n <= Len(middle)) => n - Len(middle) \in 1 .. Len(failed)
    BY <1>n
  <2>1. CASE n <= Len(middle)
    <3>1. cq'[n] = middle[n]
      BY <1>5, <2>0, <2>1, Zenon
    <3>2. middle[n] = nops[n - Len(cq)]
      BY <1>4, <2>0, <2>1, Zenon
    <3> QED
      BY <1>1, <2>0, <2>1, <3>1, <3>2, Zenon
  <2>2. CASE ~(n <= Len(middle))
    <3>1. cq'[n] = failed[n - Len(middle)]
      BY <1>5, <2>0, <2>2, Zenon
    <3> QED
      BY <1>2, <2>0, <2>2, <3>1, Zenon
  <2> QED
    BY <2>1, <2>2, Zenon
<1>7. ASSUME NEW n \in 1 .. Len(cq) PROVE cq'[n] = cq[n]
  <2>1. /\ n \in 1 .. (Len(middle) + Len(failed)) /\ n \in 1 .. (Len(cq) + Len(nops))
        /\ n <= Len(middle) /\ n <= Len(cq)
    BY <1>n
  <2> QED
    BY <1>4, <1>5, <2>1, Zenon
<1>8. Len(cq') \in Nat /\ Len(cq') >= Len(cq)
  BY <1>n
<1> QED
  BY <1>5, <1>6, <1>7, <1>8, <1>n, Zenon DEF Grows

\* What the end of a turn leaves of the queue.
LEMMA Released ==
  ASSUME NetworkInv, Turn
  PROVE  /\ cq' \in Seq(Completion) /\ Len(cq) \in Nat
         /\ Len(cq') = Len(cq) - BATCH_NUM_REQUESTS
         /\ \A n \in 1 .. Len(cq') : cq'[n] = cq[n + BATCH_NUM_REQUESTS]
<1>1. cq \in Seq(Completion) /\ Len(cq) \in Nat
  BY LengthOf, Zenon DEF NetworkInv
<1>2. BATCH_NUM_REQUESTS \in Nat /\ BATCH_NUM_REQUESTS <= Len(cq)
  <2>1. BATCH_NUM_REQUESTS \in Nat /\ Len(cq) >= BATCH_NUM_REQUESTS
    BY NetworkAssumption, Zenon DEF Turn, Enough
  <2> QED
    BY <1>1, <2>1
<1>3. cq' = SubSeq(cq, BATCH_NUM_REQUESTS + 1, Len(cq))
  BY Zenon DEF Turn
<1> DEFINE rest == SubSeq(cq, BATCH_NUM_REQUESTS + 1, Len(cq))
<1>4. /\ rest \in Seq(Completion) /\ Len(rest) = Len(cq) - BATCH_NUM_REQUESTS
      /\ \A n \in 1 .. (Len(cq) - BATCH_NUM_REQUESTS) : rest[n] = cq[n + BATCH_NUM_REQUESTS]
  BY <1>1, <1>2, CutFrom, Zenon
<1> HIDE DEF rest
<1>5. cq' = rest
  BY <1>3, Zenon DEF rest
<1> QED
  BY <1>1, <1>4, <1>5, Zenon

\* A turn that sees a connection prepares a recv for one.
LEMMA LastIsConnection ==
  ASSUME cq \in Seq(Completion)
  PROVE  /\ \A n \in Fresh : cq[n].res \in Fd
         /\ Fresh # {} => LastAccepted \in Fd
<1>1. Len(cq) \in Nat /\ \A n \in 1 .. Len(cq) : cq[n] \in Completion
  BY LengthOf
<1>2. \A n \in Fresh : cq[n].res \in Fd
  BY <1>1 DEF Fresh, Completion
<1>3. ASSUME Fresh # {} PROVE \E n \in Fresh : \A k \in Fresh : k <= n
  <2> DEFINE FromEnd == {Len(cq) - n : n \in Fresh}
  <2>1. Fresh \subseteq 1 .. Len(cq)
    BY Zenon DEF Fresh
  <2>2. FromEnd \in SUBSET Nat /\ FromEnd # {}
    <3>1. ASSUME NEW l \in Nat, NEW n \in 1 .. l PROVE l - n \in Nat
      OBVIOUS
    <3>2. \A n \in Fresh : Len(cq) - n \in Nat
      BY <1>1, <2>1, <3>1, Zenon
    <3> QED
      BY <1>3, <3>2, Zenon
  <2>3. PICK m \in FromEnd : \A k \in FromEnd : m <= k
    <3> HIDE DEF FromEnd
    <3> DEFINE Below == {p \in Nat \X Nat : p[1] < p[2]}
    <3>1. IsWellFoundedOn(Below, Nat)
      BY NatLessThanWellFounded, Zenon DEF OpToRel
    <3>2. PICK m \in FromEnd : \A k \in FromEnd : ~(<<k, m>> \in Below)
      <4> HIDE DEF Below
      <4> QED
        BY Zenon, <2>2, <3>1, WFMin
    <3>3. \A k \in FromEnd : ~(k < m)
      BY Zenon, <2>2, <3>2
    <3>4. ASSUME NEW a \in Nat, NEW b \in Nat, ~(b < a) PROVE a <= b
      BY <3>4
    <3> QED
      BY <2>2, <3>2, <3>3, <3>4, Zenon
  <2>4. PICK n \in Fresh : m = Len(cq) - n
    BY <2>3, Zenon
  <2>5. \A k \in Fresh : Len(cq) - n <= Len(cq) - k
    BY <2>3, <2>4, Zenon
  <2>6. ASSUME NEW l \in Nat, NEW a \in 1 .. l, NEW b \in 1 .. l, l - a <= l - b PROVE b <= a
    BY <2>6
  <2> QED
    BY <1>1, <2>1, <2>4, <2>5, <2>6, Zenon
<1> QED
  BY <1>2, <1>3, Zenon DEF LastAccepted

\* Every step keeps the network thread's invariant.
LEMMA NetworkStep ==
  ASSUME NetworkInv, [NetworkNext]_networkVars
  PROVE  NetworkInv'
<1> USE DEF queueVars
<1>1. ASSUME NEW fd \in Fd, NEW more \in BOOLEAN, Connect(fd, more) PROVE NetworkInv'
  <2>1. /\ cq' \in Seq(Completion) /\ Len(cq) \in Nat /\ Len(cq') = Len(cq) + 1
        /\ \A n \in 1 .. Len(cq) : cq'[n] = cq[n]
        /\ cq'[Len(cq) + 1] = Accepted(fd, more)
    BY Zenon, <1>1, OneMore, Completions DEF NetworkInv, Connect
  <2>2. Accepted(fd, more).more = more
    BY Completions
  <2>3. DeadAccepts = {}
    BY <1>1, Zenon DEF NetworkInv, Connect
  <2>4. DeadAccepts' \subseteq (IF more THEN {} ELSE {Len(cq) + 1})
    BY <2>1, <2>2, <2>3 DEF DeadAccepts, Fresh
  <2>5. (\A n, k \in DeadAccepts' : n = k) /\ (accepting' => DeadAccepts' = {})
    BY <1>1, <2>4, Zenon DEF Connect
  <2> QED
    BY <1>1, <2>1, <2>5 DEF NetworkInv, Connect
<1>2. CASE AcceptFails
  <2>1. Grows
    BY <1>2, OthersGrow
  <2>2. DeadAccepts' = DeadAccepts
    BY <2>1, SilentGrowth
  <2> QED
    BY Zenon, <1>2, <2>1, <2>2 DEF NetworkInv, AcceptFails, Grows
<1>3. ASSUME NEW fd \in Fd, RecvDone(fd) PROVE NetworkInv'
  <2>1. Grows
    BY <1>3, OthersGrow
  <2>2. DeadAccepts' = DeadAccepts
    BY <2>1, SilentGrowth
  <2>3. recvs' \in [Fd -> Nat] /\ \A e \in Fd : recvs'[e] <= turns
    BY <1>3 DEF NetworkInv, RecvDone
  <2> QED
    BY Zenon, <1>3, <2>1, <2>2, <2>3 DEF NetworkInv, RecvDone, Grows
<1>4. CASE Submit
  <2>1. Grows
    BY <1>4, SubmitGrows
  <2>2. DeadAccepts' = DeadAccepts
    BY <2>1, SilentGrowth, Zenon
  <2>3. /\ turns' \in 0 .. MaxTurns /\ recvs' \in [Fd -> Nat]
        /\ \A fd \in Fd : recvs'[fd] <= turns'
    BY <1>4, NetworkAssumption DEF NetworkInv, Submit
  <2>4. sqe' \in Fd \cup {Zero, Nothing} /\ accepts' \in 0 .. 1 /\ served' \in SUBSET Fd
    BY <1>4 DEF NetworkInv, Submit
  <2>5. UNCHANGED <<accepting, open, connections, fault>> /\ net_pc' = "wait" /\ cq' \in Seq(Completion)
    BY <1>4, <2>1, Zenon DEF Submit, Grows
  <2> QED
    BY <2>2, <2>3, <2>4, <2>5, Zenon DEF NetworkInv
<1>5. CASE Turn
  <2>1. /\ cq' \in Seq(Completion) /\ Len(cq) \in Nat
        /\ Len(cq') = Len(cq) - BATCH_NUM_REQUESTS
        /\ \A n \in 1 .. Len(cq') : cq'[n] = cq[n + BATCH_NUM_REQUESTS]
    BY <1>5, Released
  <2>2. BATCH_NUM_REQUESTS \in Nat
    BY NetworkAssumption, Zenon
  <2>3. \A n \in DeadAccepts' : n \in Nat /\ n + BATCH_NUM_REQUESTS \in DeadAccepts
    <3> SUFFICES ASSUME NEW n \in DeadAccepts'
                 PROVE  n \in Nat /\ n + BATCH_NUM_REQUESTS \in DeadAccepts
      BY Zenon
    <3>1. /\ n \in 1 .. Len(cq') /\ cq'[n].type = "ACCEPT" /\ cq'[n].res # None
          /\ ~cq'[n].more
      BY Zenon DEF DeadAccepts, Fresh
    <3>2. n \in Nat /\ n + BATCH_NUM_REQUESTS \in 1 .. Len(cq)
      BY <2>1, <2>2, <3>1
    <3>3. cq'[n] = cq[n + BATCH_NUM_REQUESTS]
      BY <2>1, <3>1, Zenon
    <3> QED
      BY <3>1, <3>2, <3>3, Zenon DEF DeadAccepts, Fresh
  <2>4. (\A n, k \in DeadAccepts' : n = k) /\ (accepting' => DeadAccepts' = {})
    BY <1>5, <2>2, <2>3 DEF NetworkInv, Turn
  <2>5. Cardinality(DeadAccepts) \in 0 .. 1
    <3>1. CASE DeadAccepts = {}
      BY <3>1, FS_EmptySet
    <3>2. CASE DeadAccepts # {}
      <4>1. PICK n \in DeadAccepts : TRUE
        BY <3>2, Zenon
      <4>2. DeadAccepts = {n}
        BY <4>1, Zenon DEF NetworkInv
      <4>3. Cardinality(DeadAccepts) = 1
        BY <4>2, FS_Singleton, Zenon
      <4> QED
        BY <4>3
    <3> QED
      BY <3>1, <3>2
  <2>6. (\A n \in Fresh : cq[n].res \in Fd) /\ (Fresh # {} => LastAccepted \in Fd)
    BY LastIsConnection, Zenon DEF NetworkInv
  <2>7. Inserted \in SUBSET Fd
    BY <2>6, Zenon DEF Inserted
  <2>8. LastAccepted \in Fd \cup {Zero, Nothing}
    <3>1. CASE Fresh = {}
      BY <3>1, Zenon DEF LastAccepted
    <3> QED
      BY <2>6, <3>1
  <2> QED
    BY Zenon, <1>5, <2>1, <2>4, <2>5, <2>7, <2>8 DEF NetworkInv, Turn, BadUserData
<1>6. CASE UNCHANGED networkVars
  <2>1. UNCHANGED <<cq, sqe, accepts, net_pc, accepting, open, connections, recvs, served, turns, fault>>
    BY <1>6, Zenon DEF networkVars
  <2>2. Fresh' = Fresh /\ DeadAccepts' = DeadAccepts
    BY <2>1, Zenon DEF DeadAccepts, Fresh
  <2> QED
    BY <2>1, <2>2 DEF NetworkInv
<1> QED
  BY <1>1, <1>2, <1>3, <1>4, <1>5, <1>6, Zenon DEF NetworkNext

\* A completion that tells that the client with descriptor fd has connected.
TellsOf(c, fd) == c \in {Accepted(fd, TRUE), Accepted(fd, FALSE)}
Waits(s, fd) == \E n \in 1 .. Len(s) : TellsOf(s[n], fd)

\* A turn inserts every client whose completion is in the queue.
LEMMA TurnInserts ==
  ASSUME NetworkInv, NoCompletionLost, Turn, NEW fd \in open
  PROVE  fd \in connections'
<1>1. fd \in connections \/ Waits(cq, fd)
  BY Zenon DEF Turn, NoCompletionLost, Waits, TellsOf
<1>2. ASSUME NEW n \in 1 .. Len(cq), TellsOf(cq[n], fd)
      PROVE  fd \in Inserted
  <2>1. fd \in Fd /\ fd # None
    BY Completions, Zenon DEF NetworkInv, None
  <2>2. cq[n].type = "ACCEPT" /\ cq[n].res = fd
    <3>1. PICK more \in BOOLEAN : cq[n] = Accepted(fd, more)
      BY <1>2, Zenon DEF TellsOf
    <3> QED
      BY <2>1, <3>1, Completions
  <2> QED
    BY <1>2, <2>1, <2>2 DEF Inserted, Fresh
<1> QED
  BY <1>1, <1>2 DEF Turn, Waits

\* No step loses the completion of a client that is not in the connection pool.
LEMMA LossStep ==
  ASSUME NetworkInv, NoCompletionLost, [NetworkNext]_networkVars
  PROVE  NoCompletionLost'
<1>0. (NoCompletionLost <=> (fault \/ \A fd \in open : fd \in connections \/ Waits(cq, fd)))
      /\ (NoCompletionLost' <=> (fault' \/ \A fd \in open' : fd \in connections' \/ Waits(cq', fd)))
  BY Zenon DEF NoCompletionLost, Waits, TellsOf
<1>1. ASSUME ~fault, open' = open, connections' = connections, Grows PROVE NoCompletionLost'
  <2>1. \A fd \in open : Waits(cq, fd) => Waits(cq', fd)
    BY <1>1 DEF Grows, Waits
  <2> QED
    BY <1>0, <1>1, <2>1
<1>2. ASSUME NEW fd \in Fd, NEW more \in BOOLEAN, Connect(fd, more) PROVE NoCompletionLost'
  <2>1. /\ Len(cq) \in Nat /\ Len(cq') = Len(cq) + 1
        /\ \A n \in 1 .. Len(cq) : cq'[n] = cq[n]
        /\ cq'[Len(cq) + 1] = Accepted(fd, more)
    BY <1>2, OneMore, Completions DEF NetworkInv, Connect
  <2>2. \A e \in open : Waits(cq, e) => Waits(cq', e)
    BY <2>1 DEF Waits
  <2>3. Waits(cq', fd)
    <3>1. TellsOf(Accepted(fd, more), fd)
      BY Zenon DEF TellsOf
    <3> QED
      BY <2>1, <3>1 DEF Waits
  <2> QED
    BY <1>0, <1>2, <2>2, <2>3, Zenon DEF Connect
<1>3. CASE AcceptFails
  <2>1. Grows
    BY <1>3, OthersGrow, Zenon
  <2> QED
    BY <1>1, <1>3, <2>1 DEF AcceptFails
<1>4. ASSUME NEW fd \in Fd, RecvDone(fd) PROVE NoCompletionLost'
  <2>1. Grows
    BY <1>4, OthersGrow
  <2> QED
    BY <1>1, <1>4, <2>1 DEF RecvDone
<1>5. CASE Submit
  BY <1>1, <1>5, SubmitGrows DEF Submit
<1>6. CASE Turn
  <2>1. \A fd \in open : fd \in connections'
    BY <1>6, TurnInserts, Zenon
  <2> QED
    BY <1>0, <1>6, <2>1 DEF Turn
<1>7. CASE UNCHANGED networkVars
  BY Zenon, <1>7 DEF networkVars, NoCompletionLost
<1> QED
  BY <1>2, <1>3, <1>4, <1>5, <1>6, <1>7 DEF NetworkNext

\* What the steps keep holds when the network thread is started.
LEMMA NetworkInitially ==
  ASSUME NetworkInit
  PROVE  NetworkInv /\ NoCompletionLost
<1>1. cq \in Seq(Completion) /\ Fresh = {}
  <2>1. PICK failing \in 0 .. NUM_SSTABLE_WORKER_THREADS :
          cq = (IF accepting THEN <<>> ELSE <<Accepted(None, FALSE)>>) \o [n \in 1 .. failing |-> Unset]
    BY Zenon DEF NetworkInit
  <2> DEFINE S == {c \in Completion : Silent(c)}
             early == IF accepting THEN <<>> ELSE <<Accepted(None, FALSE)>>
             late == [n \in 1 .. failing |-> Unset]
  <2>2. Accepted(None, FALSE) \in S /\ Unset \in S
    <3>1. None \in Fd \cup {None} /\ FALSE \in BOOLEAN
      BY Zenon
    <3>2. Accepted(None, FALSE) \in Completion /\ Accepted(None, FALSE).res = None
      BY <3>1, Completions, Zenon
    <3>3. Unset \in Completion /\ Unset.type # "ACCEPT"
      BY Completions
    <3> QED
      BY <3>2, <3>3, Zenon DEF Silent
  <2>3. early \in Seq(S)
    BY <2>2, ShortSequence, Zenon
  <2>4. late \in Seq(S)
    <3>1. failing \in Nat
      BY NetworkAssumption
    <3>2. late \in [1 .. failing -> S]
      BY <2>2, Zenon
    <3> QED
      BY <3>1, <3>2, FunctionIsSequence, Zenon
  <2>5. cq = early \o late
    BY <2>1, Zenon
  <2> HIDE DEF early, late
  <2>6. cq \in Seq(S)
    BY <2>3, <2>4, <2>5, Concatenated, Zenon
  <2>7. \A n \in 1 .. Len(cq) : cq[n] \in S
    BY <2>6, LengthOf, Zenon
  <2>8. Fresh = {}
    BY <2>7, Zenon DEF Fresh, Silent
  <2>9. cq \in Seq(Completion)
    <3>1. Len(cq) \in Nat /\ cq \in [1 .. Len(cq) -> S]
      BY <2>6, LengthOf, Zenon
    <3>2. cq \in [1 .. Len(cq) -> Completion]
      BY <3>1, Zenon
    <3> QED
      BY <3>1, <3>2, FunctionIsSequence, Zenon
  <2> QED
    BY <2>8, <2>9, Zenon
<1>2. recvs \in [Fd -> Nat] /\ turns \in 0 .. MaxTurns /\ \A fd \in Fd : recvs[fd] <= turns
  BY NetworkAssumption DEF NetworkInit
<1>3. DeadAccepts = {} /\ sqe \in Fd \cup {Zero, Nothing} /\ accepts \in 0 .. 1
  BY <1>1 DEF DeadAccepts, NetworkInit
<1>4. NetworkInv
  BY Zenon, <1>1, <1>2, <1>3 DEF NetworkInit, NetworkInv
<1>5. NoCompletionLost
  BY Zenon DEF NetworkInit, NoCompletionLost
<1> QED
  BY <1>4, <1>5, Zenon

\* A client that has connected is in the connection pool or its completion is still in the
\* queue, for any number of connections and any size of a batch: the
\* BATCH_NUM_REQUESTS completions released at the end of a turn (lsm_tree.hpp:1492) have
\* all been looked at.
THEOREM CompletionsKept == NetworkSpec => []NoCompletionLost
<1>1. NetworkInv /\ NoCompletionLost /\ [NetworkNext]_networkVars => (NetworkInv /\ NoCompletionLost)'
  BY NetworkStep, LossStep, Zenon
<1> QED
  BY <1>1, NetworkInitially, PTL DEF NetworkSpec

\* The state of the network thread has its type; in particular a turn prepares at most one
\* new multishot accept, since the accept it started with ends only once.
THEOREM NetworkTypeCorrect == NetworkSpec => []NetworkTypeOK
<1>1. NetworkInv => NetworkTypeOK
  BY NetworkAssumption DEF NetworkInv, NetworkTypeOK
<1>2. NetworkInv /\ [NetworkNext]_networkVars => NetworkInv'
  BY NetworkStep, Zenon
<1> QED
  BY <1>1, <1>2, NetworkInitially, PTL DEF NetworkSpec

\* A turn takes everyone: whoever has connected before it is in the connection pool after it,
\* also a client whose completion the turn does not release (lsm_tree.hpp:1343-1492).  This
\* is what BatchTaken rests on.
THEOREM TurnTakesAll == NetworkSpec => [][Turn => open \subseteq connections']_networkVars
<1>1. NetworkInv /\ NoCompletionLost /\ [NetworkNext]_networkVars
        => [Turn => open \subseteq connections']_networkVars
  <2> SUFFICES ASSUME NetworkInv, NoCompletionLost, Turn, NEW fd \in open PROVE fd \in connections'
    BY Zenon
  <2> QED
    BY TurnInserts, Zenon
<1>2. NetworkInv /\ [NetworkNext]_networkVars => NetworkInv'
  BY NetworkStep, Zenon
<1> QED
  BY <1>1, <1>2, NetworkInitially, CompletionsKept, PTL DEF NetworkSpec
==============================================================================
