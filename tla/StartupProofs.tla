---------------------------- MODULE StartupProofs ----------------------------
(***************************************************************************)
(* Proofs about the start of the database, for any number of workers and   *)
(* sstables.                                                               *)
(***************************************************************************)
EXTENDS Startup, FiniteSetTheorems, TLAPS

Distinct(s) == \A n, k \in 1..Len(s) : s[n] = s[k] => n = k
Among(s, t) == \E n \in 1..Len(s) : s[n] = t

\* A message of sstable t that worker w has not seen yet.
Unseen(w, t) == Among(scheduler_ring[w], t)

(***************************************************************************)
(* Every sstable is in one stage: its file has not been asked for, the     *)
(* kernel works on its chain, its message waits to be seen, or nothing is  *)
(* under way any more.  A message waits in the ring of the sstable's own   *)
(* worker, and the first completion of a ring is that of the open.         *)
(***************************************************************************)
ChainInv ==
  /\ \A w \in Worker : Distinct(scheduler_ring[w])
  /\ \A w \in Worker, t \in Table :
       Unseen(w, t) => /\ w = Owner(t)
                       /\ submitted[t] = <<>>
                       /\ io_ring[t] # <<>>
  /\ \A t \in Table : submitted[t] \in
       {<<>>, IF io_ring[t] = <<>> THEN <<"open">> ELSE <<"read">>}
  /\ \A t \in Table : desired_sstable_offset[t] = "new" => submitted[t] = <<>> /\ io_ring[t] = <<>>

\* In its round a worker has asked for the files of the sstables it has passed.
RoundInv ==
  \A w \in Worker : \A t \in First(w)..(i[w] - 1) : desired_sstable_offset[t] # "new"

(***************************************************************************)
(* What the ring of sstable t holds if its chains have not broken off: the *)
(* descriptor, and the result of its first read, which was complete.  Only *)
(* sstable 0 comes that far.                                               *)
(***************************************************************************)
Unbroken(t) ==
  /\ io_ring[t][1] = "part"
  /\ Len(io_ring[t]) # 1 => t = 0 /\ Len(io_ring[t]) = 2 /\ Complete(io_ring[t][2])

ResultInv ==
  \A t \in Table : submitted[t] = <<"read">> \/ Unseen(Owner(t), t) => Unbroken(t)

\* How often worker 0 may have counted, by the turns it has taken in this round.
MayHaveCounted ==
  IF pc[0] = "peek" THEN WORKER_SSTABLE_BATCH_SIZE - 1 + i[0]
  ELSE IF pc[0] = "table" THEN WORKER_SSTABLE_BATCH_SIZE + i[0]
  ELSE 2 * WORKER_SSTABLE_BATCH_SIZE - 1

CountInv ==
  /\ num_read = num_initialized_read[0]
  /\ num_read <= MayHaveCounted
  /\ zero_length => num_read = 0
  /\ main = "started" => num_read >= NUM_SSTABLES

\* An sstable that is asked for and not done, and neither with the kernel nor with a message,
\* is one whose chain broke off.
StallInv ==
  \A t \in Table :
    \/ desired_sstable_offset[t] \in {"new", "done"}
    \/ submitted[t] # <<>> \/ Unseen(Owner(t), t) \/ t \in broken

-----------------------------------------------------------------------------
(***************************************************************************)
(* Workers and their batches of sstables.                                  *)
(***************************************************************************)

\* Multiplication by a natural number is monotone.
LEMMA TimesMonotone ==
  ASSUME NEW d \in Nat, NEW a \in Int, NEW b \in Int, a <= b
  PROVE  d * a <= d * b
  BY Z3

\* What division leaves.
LEMMA Remainder ==
  ASSUME NEW x \in Int, NEW d \in Int, d > 0, NEW k \in Int, k = x \div d
  PROVE  d * k <= x
  OBVIOUS

\* There is an sstable.
LEMMA SomeTable == NUM_SSTABLES \in Nat \ {0}
<1>1. ASSUME NEW a \in Nat \ {0}, NEW b \in Nat \ {0} PROVE a * b \in Nat \ {0}
  BY Z3
<1> QED
  BY <1>1, StartupAssumption, Zenon DEF NUM_SSTABLES

\* Every sstable belongs to a worker.
LEMMA OwnerIsWorker ==
  ASSUME NEW t \in Table
  PROVE  Owner(t) \in Worker
<1> DEFINE n == NUM_SSTABLE_WORKER_THREADS
           b == WORKER_SSTABLE_BATCH_SIZE
<1>1. n \in Nat \ {0} /\ b \in Nat \ {0} /\ t \in Nat /\ t < b * n
  BY StartupAssumption, SomeTable DEF Table, NUM_SSTABLES
<1> HIDE DEF n, b
<1>2. PICK k \in Nat : k = t \div b
  BY <1>1
<1>3. b * k <= t
  BY <1>1, <1>2, Remainder
<1>4. CASE n <= k
  <2>1. b * n <= b * k
    BY <1>1, <1>4, TimesMonotone
  <2>2. b * n \in Int /\ b * k \in Int
    BY <1>1, Z3
  <2> QED
    BY <2>1, <2>2, <1>1, <1>3
<1>5. CASE k < n
  BY <1>1, <1>2, <1>5 DEF Owner, Worker, n, b
<1> QED
  BY <1>1, <1>4, <1>5

\* The batch of a worker is not empty and consists of sstables.
LEMMA BatchOfWorker ==
  ASSUME NEW w \in Worker
  PROVE  /\ First(w) \in Nat /\ Second(w) \in Nat
         /\ First(w) <= Second(w)
         /\ First(w)..Second(w) \subseteq Table
<1> DEFINE n == NUM_SSTABLE_WORKER_THREADS
           b == WORKER_SSTABLE_BATCH_SIZE
<1>1. n \in Nat \ {0} /\ b \in Nat \ {0} /\ w \in Nat /\ w + 1 <= n
  BY StartupAssumption DEF Worker
<1> HIDE DEF n, b
<1>2. b * (w + 1) <= b * n
  BY <1>1, TimesMonotone
<1>3. b * (w + 1) = w * b + b /\ b * n = n * b /\ w * b \in Nat /\ n * b \in Nat
  BY <1>1, Z3
<1>4. w * b + b <= n * b
  BY <1>2, <1>3, Zenon
<1> HIDE <1>2
<1>5. PICK f \in Nat, m \in Nat : f = w * b /\ m = n * b
  BY <1>3, Zenon
<1>6. First(w) = f /\ Second(w) = f + b - 1 /\ Table = 0..(m - 1) /\ f + b <= m
  BY <1>4, <1>5, Zenon DEF First, Second, Table, NUM_SSTABLES, n, b
<1> QED
  BY <1>1, <1>5, <1>6

\* The sstables of a worker's batch are its own.
LEMMA OwnerOfBatch ==
  ASSUME NEW w \in Worker, NEW t \in First(w)..Second(w)
  PROVE  Owner(t) = w
<1> DEFINE b == WORKER_SSTABLE_BATCH_SIZE
<1>1. ASSUME NEW d \in Nat \ {0}, NEW q \in Nat, NEW p \in Nat, p = q * d, NEW x \in p..(p + d - 1)
      PROVE  x \div d = q
  <2>1. PICK k \in Int : k = x \div d /\ d * k <= x /\ x < d * k + d
    BY <1>1
  <2>2. CASE k < q
    <3>1. d * (k + 1) <= d * q
      BY <1>1, <2>1, <2>2, TimesMonotone
    <3>2. d * (k + 1) = d * k + d /\ d * q = q * d /\ d * k \in Int
      BY <1>1, <2>1, Z3
    <3> QED
      BY <1>1, <2>1, <3>1, <3>2
  <2>3. CASE q < k
    <3>1. d * (q + 1) <= d * k
      BY <1>1, <2>1, <2>3, TimesMonotone
    <3>2. d * (q + 1) = q * d + d /\ d * k \in Int
      BY <1>1, <2>1, Z3
    <3> QED
      BY <1>1, <2>1, <3>1, <3>2
  <2> QED
    BY <1>1, <2>1, <2>2, <2>3
<1>2. b \in Nat \ {0} /\ w \in Nat /\ w * b \in Nat
  BY StartupAssumption, BatchOfWorker DEF Worker, First
<1>3. t \in (w * b)..(w * b + b - 1)
  BY Zenon DEF First, Second
<1> HIDE DEF b
<1>4. t \div b = w
  BY <1>1, <1>2, <1>3, Zenon
<1> QED
  BY <1>4, Zenon DEF Owner, b

\* Sstable 0 is the first of worker 0.
LEMMA WorkerZero ==
  /\ 0 \in Worker /\ 0 \in Table /\ First(0) = 0 /\ Second(0) = WORKER_SSTABLE_BATCH_SIZE - 1
  /\ Owner(0) = 0
<1>1. 0 \in Worker /\ 0 \in Table
  BY StartupAssumption, SomeTable DEF Worker, Table
<1>2. First(0) = 0 /\ Second(0) = WORKER_SSTABLE_BATCH_SIZE - 1
  BY StartupAssumption DEF First, Second
<1>3. 0 \in First(0)..Second(0)
  BY <1>2, StartupAssumption
<1> QED
  BY <1>1, <1>2, <1>3, OwnerOfBatch, Zenon

(***************************************************************************)
(* Messages.                                                               *)
(***************************************************************************)
\* A message that is taken was the only one of its sstable.
LEMMA TakeFirst ==
  ASSUME NEW S, NEW s \in Seq(S), s # <<>>, Distinct(s)
  PROVE  /\ Head(s) \in S /\ Among(s, Head(s))
         /\ Tail(s) \in Seq(S) /\ Distinct(Tail(s))
         /\ ~Among(Tail(s), Head(s))
         /\ \A t : Among(Tail(s), t) => Among(s, t)
<1>1. /\ Len(s) \in Nat \ {0} /\ Head(s) = s[1] /\ Head(s) \in S
      /\ Tail(s) \in Seq(S) /\ Len(Tail(s)) = Len(s) - 1
      /\ \A n \in 1..(Len(s) - 1) : Tail(s)[n] = s[n + 1]
  OBVIOUS
<1> QED
  BY <1>1 DEF Distinct, Among

\* A message is posted for an sstable that has none.
LEMMA PutLast ==
  ASSUME NEW S, NEW s \in Seq(S), Distinct(s), NEW x \in S, ~Among(s, x)
  PROVE  /\ Append(s, x) \in Seq(S) /\ Distinct(Append(s, x))
         /\ \A t : Among(Append(s, x), t) => t = x \/ Among(s, t)
<1>1. /\ Append(s, x) \in Seq(S) /\ Len(Append(s, x)) = Len(s) + 1 /\ Len(s) \in Nat
      /\ \A n \in 1..Len(s) : Append(s, x)[n] = s[n]
      /\ Append(s, x)[Len(s) + 1] = x
  OBVIOUS
<1> QED
  BY <1>1 DEF Distinct, Among

\* Taking a message leaves the others, and posting one leaves all.
LEMMA OthersStay ==
  ASSUME NEW S, NEW s \in Seq(S)
  PROVE  /\ s # <<>> => \A t : Among(s, t) /\ t # Head(s) => Among(Tail(s), t)
         /\ \A x \in S : \A t : Among(s, t) => Among(Append(s, x), t)
         /\ \A x \in S : Among(Append(s, x), x)
<1>1. ASSUME s # <<>>, NEW t, Among(s, t), t # Head(s) PROVE Among(Tail(s), t)
  <2>1. /\ Len(s) \in Nat \ {0} /\ Head(s) = s[1] /\ Len(Tail(s)) = Len(s) - 1
        /\ \A n \in 1..(Len(s) - 1) : Tail(s)[n] = s[n + 1]
    BY <1>1
  <2>2. PICK n \in 1..Len(s) : s[n] = t
    BY <1>1, Zenon DEF Among
  <2>3. n - 1 \in 1..(Len(s) - 1) /\ (n - 1) + 1 = n
    BY <1>1, <2>1, <2>2
  <2>4. Tail(s)[n - 1] = t
    BY <2>1, <2>2, <2>3, Zenon
  <2> QED
    BY <2>1, <2>3, <2>4 DEF Among
<1>2. ASSUME NEW x \in S
      PROVE  /\ Len(s) \in Nat /\ Len(Append(s, x)) = Len(s) + 1
             /\ \A n \in 1..Len(s) : Append(s, x)[n] = s[n]
             /\ Append(s, x)[Len(s) + 1] = x
  OBVIOUS
<1>3. ASSUME NEW x \in S PROVE Among(Append(s, x), x) /\ \A t : Among(s, t) => Among(Append(s, x), t)
  BY <1>2 DEF Among
<1> QED
  BY <1>1, <1>3, Zenon

\* One request more or less in a chain.
LEMMA ShortSequences ==
  /\ Append(<<>>, "open") = <<"open">> /\ Append(<<>>, "read") = <<"read">>
  /\ Tail(<<"open">>) = <<>> /\ Tail(<<"read">>) = <<>>
  /\ Head(<<"open">>) = "open" /\ Head(<<"read">>) = "read"
  /\ Len(<<>>) = 0 /\ Len(<<"open">>) = 1 /\ Len(<<"read">>) = 1
  /\ <<"open">> \in Seq(Chain) /\ <<"read">> \in Seq(Chain) /\ <<>> \in Seq(Chain)
  /\ <<"open">> # <<>> /\ <<"read">> # <<>> /\ <<"open">> # <<"read">>
<1>1. Append(<<>>, "open") = <<"open">> /\ Append(<<>>, "read") = <<"read">>
  OBVIOUS
<1>2. Tail(<<"open">>) = <<>> /\ Tail(<<"read">>) = <<>>
  OBVIOUS
<1>3. Head(<<"open">>) = "open" /\ Head(<<"read">>) = "read"
  OBVIOUS
<1>4. Len(<<>>) = 0 /\ Len(<<"open">>) = 1 /\ Len(<<"read">>) = 1
  BY Zenon
<1>5. <<"open">> \in Seq(Chain) /\ <<"read">> \in Seq(Chain) /\ <<>> \in Seq(Chain)
  BY DEF Chain
<1>6. <<"open">> # <<>> /\ <<"read">> # <<>> /\ <<"open">> # <<"read">>
  BY Zenon
<1> QED
  BY <1>1, <1>2, <1>3, <1>4, <1>5, <1>6, Zenon

\* One completion more in a ring.
LEMMA OneMore ==
  ASSUME NEW S, NEW s \in Seq(S), NEW x \in S
  PROVE  /\ Append(s, x) \in Seq(S) /\ Append(s, x) # <<>>
         /\ Len(s) \in Nat /\ Len(Append(s, x)) = Len(s) + 1
         /\ \A n \in 1..Len(s) : Append(s, x)[n] = s[n]
         /\ Append(s, x)[Len(s) + 1] = x
         /\ s = <<>> <=> Len(s) = 0
  OBVIOUS

\* What taking a message tells about its sstable, and leaves of the messages.
LEMMA MessageTaken ==
  ASSUME TypeOK, ChainInv, NEW w \in Worker, NEW t, Message(w, t)
  PROVE  /\ t \in Table /\ Unseen(w, t) /\ w = Owner(t)
         /\ submitted[t] = <<>> /\ io_ring[t] # <<>>
         /\ scheduler_ring' \in [Worker -> Seq(Table)]
         /\ \A v \in Worker : Distinct(scheduler_ring'[v])
         /\ \A v \in Worker, u \in Table : Among(scheduler_ring'[v], u) => Unseen(v, u) /\ u # t
<1>1. /\ scheduler_ring[w] \in Seq(Table) /\ scheduler_ring[w] # <<>> /\ Distinct(scheduler_ring[w])
      /\ t = Head(scheduler_ring[w])
      /\ scheduler_ring' = [scheduler_ring EXCEPT ![w] = Tail(scheduler_ring[w])]
  BY Zenon DEF Message, TypeOK, ChainInv
<1>2. /\ t \in Table /\ Unseen(w, t)
      /\ Tail(scheduler_ring[w]) \in Seq(Table) /\ Distinct(Tail(scheduler_ring[w]))
      /\ ~Among(Tail(scheduler_ring[w]), t)
      /\ \A u : Among(Tail(scheduler_ring[w]), u) => Unseen(w, u)
  BY <1>1, TakeFirst, Zenon DEF Unseen
<1>3. w = Owner(t) /\ submitted[t] = <<>> /\ io_ring[t] # <<>>
  BY <1>2, Zenon DEF ChainInv
<1>4. scheduler_ring' \in [Worker -> Seq(Table)]
  BY <1>1, <1>2, Zenon DEF TypeOK
<1>5. ASSUME NEW v \in Worker PROVE Distinct(scheduler_ring'[v])
  <2>1. CASE v = w
    BY <1>1, <1>2, <2>1, Zenon DEF TypeOK
  <2>2. CASE v # w
    <3>1. scheduler_ring'[v] = scheduler_ring[v]
      BY <1>1, <2>2, Zenon DEF TypeOK
    <3> QED
      BY <3>1, Zenon DEF ChainInv
  <2> QED
    BY <2>1, <2>2, Zenon
<1>6. ASSUME NEW v \in Worker, NEW u \in Table, Among(scheduler_ring'[v], u)
      PROVE  Unseen(v, u) /\ u # t
  <2>1. CASE v = w
    BY <1>1, <1>2, <1>6, <2>1 DEF TypeOK
  <2>2. CASE v # w
    <3>1. Unseen(v, u)
      BY <1>1, <1>6, <2>2, Zenon DEF TypeOK, Unseen
    <3> QED
      BY <3>1, <1>2, <1>3, <2>2 DEF ChainInv
  <2> QED
    BY <2>1, <2>2, Zenon
<1> QED
  BY <1>2, <1>3, <1>4, <1>5, <1>6

\* What the end of a chain tells about its sstable, and adds to the messages.
LEMMA ChainEnds ==
  ASSUME TypeOK, ChainInv, NEW t \in Table, KernelDone(t)
  PROVE  /\ submitted[t] = (IF io_ring[t] = <<>> THEN <<"open">> ELSE <<"read">>)
         /\ submitted' = [submitted EXCEPT ![t] = <<>>]
         /\ io_ring' \in [Table -> Seq(Result)] /\ io_ring'[t] # <<>>
         /\ \A u \in Table : u # t => io_ring'[u] = io_ring[u]
         /\ \A v \in Worker : ~Unseen(v, t)
         /\ scheduler_ring' \in [Worker -> Seq(Table)]
         /\ \A v \in Worker : Distinct(scheduler_ring'[v])
         /\ \A v \in Worker, u \in Table :
              /\ Among(scheduler_ring'[v], u) =>
                   \/ Unseen(v, u) /\ u # t
                   \/ u = t /\ v = Owner(t)
              /\ Unseen(v, u) => Among(scheduler_ring'[v], u)
         /\ Among(scheduler_ring'[Owner(t)], t) \/ t \in broken'
<1>1. submitted[t] = IF io_ring[t] = <<>> THEN <<"open">> ELSE <<"read">>
  BY Zenon DEF KernelDone, ChainInv
<1>2. submitted' = [submitted EXCEPT ![t] = <<>>]
  BY <1>1, ShortSequences, Zenon DEF KernelDone
<1>3. ASSUME NEW v \in Worker PROVE ~Unseen(v, t)
  BY <1>1, ShortSequences, Zenon DEF ChainInv
<1>4. PICK result \in Results(t, Head(submitted[t])) :
        /\ io_ring' = [io_ring EXCEPT ![t] = IF Len(@) < 2 THEN Append(@, result) ELSE @]
        /\ \E posts \in Posts(Head(submitted[t]), result) :
             /\ scheduler_ring' = [scheduler_ring EXCEPT ![Owner(t)] =
                                     IF posts THEN Append(scheduler_ring[Owner(t)], t)
                                     ELSE scheduler_ring[Owner(t)]]
             /\ broken' = IF posts THEN broken ELSE broken \cup {t}
  BY Zenon DEF KernelDone
<1>5. PICK posts \in Posts(Head(submitted[t]), result) :
        /\ scheduler_ring' = [scheduler_ring EXCEPT ![Owner(t)] =
                                IF posts THEN Append(scheduler_ring[Owner(t)], t)
                                ELSE scheduler_ring[Owner(t)]]
        /\ broken' = IF posts THEN broken ELSE broken \cup {t}
  BY <1>4, Zenon
<1>6. Owner(t) \in Worker /\ posts \in BOOLEAN /\ result \in Result
  BY Zenon, OwnerIsWorker DEF Posts, Results, Result
<1>7. /\ io_ring' \in [Table -> Seq(Result)] /\ io_ring'[t] # <<>>
      /\ \A u \in Table : u # t => io_ring'[u] = io_ring[u]
  <2> DEFINE s == io_ring[t]
  <2>1. s \in Seq(Result) /\ io_ring \in [Table -> Seq(Result)]
    BY Zenon DEF TypeOK
  <2>2. io_ring' = [io_ring EXCEPT ![t] = IF Len(s) < 2 THEN Append(s, result) ELSE s]
    BY <1>4, Zenon
  <2> HIDE DEF s
  <2>3. Append(s, result) \in Seq(Result) /\ Append(s, result) # <<>> /\ (s = <<>> => Len(s) = 0)
    BY <1>6, <2>1, OneMore, Zenon
  <2>4. CASE Len(s) < 2
    BY <2>1, <2>2, <2>3, <2>4, Zenon
  <2>5. CASE ~(Len(s) < 2)
    <3>1. s # <<>>
      BY <2>3, <2>5
    <3> QED
      BY <2>1, <2>2, <2>5, <3>1, Zenon
  <2> QED
    BY <2>4, <2>5, Zenon
<1>8. CASE posts = TRUE
  <2> DEFINE s == scheduler_ring[Owner(t)]
  <2>1. s \in Seq(Table) /\ Distinct(s) /\ ~Among(s, t)
    BY <1>3, <1>6, Zenon DEF TypeOK, ChainInv, Unseen
  <2>2. /\ Append(s, t) \in Seq(Table) /\ Distinct(Append(s, t))
        /\ \A u : Among(Append(s, t), u) => u = t \/ Among(s, u)
    BY <2>1, PutLast, Zenon
  <2>3. Among(Append(s, t), t) /\ \A u : Among(s, u) => Among(Append(s, t), u)
    BY <2>1, OthersStay, Zenon
  <2>4. scheduler_ring' = [scheduler_ring EXCEPT ![Owner(t)] = Append(s, t)]
    BY <1>5, <1>8, Zenon
  <2> HIDE DEF s
  <2>5. scheduler_ring' \in [Worker -> Seq(Table)] /\ \A v \in Worker : Distinct(scheduler_ring'[v])
    BY <1>6, <2>2, <2>4, Zenon DEF TypeOK, ChainInv
  <2>6. scheduler_ring'[Owner(t)] = Append(s, t)
    BY <1>6, <2>4, Zenon DEF TypeOK
  <2>7. ASSUME NEW v \in Worker, NEW u \in Table
        PROVE  /\ Among(scheduler_ring'[v], u) => (Unseen(v, u) /\ u # t) \/ (u = t /\ v = Owner(t))
               /\ Unseen(v, u) => Among(scheduler_ring'[v], u)
    <3>1. CASE v = Owner(t)
      BY <1>3, <2>2, <2>3, <2>6, <3>1, Zenon DEF Unseen, s
    <3>2. CASE v # Owner(t)
      <4>1. scheduler_ring'[v] = scheduler_ring[v]
        BY <2>4, <3>2, Zenon DEF TypeOK
      <4> QED
        BY <1>3, <4>1, Zenon DEF Unseen
    <3> QED
      BY <3>1, <3>2, Zenon
  <2>8. Among(scheduler_ring'[Owner(t)], t)
    BY <2>3, <2>6, Zenon
  <2> QED
    BY Zenon, <1>1, <1>2, <1>3, <1>7, <2>5, <2>7, <2>8
<1>9. CASE posts = FALSE
  <2>1. scheduler_ring' = scheduler_ring /\ t \in broken'
    BY <1>5, <1>6, <1>9, Zenon DEF TypeOK
  <2> QED
    BY Zenon, <1>1, <1>2, <1>3, <1>7, <2>1 DEF TypeOK, ChainInv, Unseen
<1> QED
  BY Zenon, <1>6, <1>8, <1>9

\* The completions that count are one of two, none if buffers have no length.
LEMMA ShortCount ==
  ASSUME NEW t
  PROVE  Cardinality(Short(t)) \in Nat /\ (zero_length => Cardinality(Short(t)) = 0)
<1>1. IsFiniteSet(Short(t))
  <2>1. IsFiniteSet(1..2)
    <3>1. 1 \in Int /\ 2 \in Int
      OBVIOUS
    <3> QED
      BY <3>1, FS_Interval, Zenon
  <2>2. Short(t) \subseteq 1..2
    BY Zenon DEF Short
  <2> QED
    BY <2>1, <2>2, FS_Subset, Zenon
<1>2. zero_length => Short(t) = {}
  BY Zenon DEF Short, Less
<1> QED
  BY <1>1, <1>2, FS_CardinalityType, FS_EmptySet

\* The ring of an sstable shows two completions at most.
LEMMA SeenAfter ==
  ASSUME NEW S, NEW s \in Seq(S), NEW r \in S, NEW q, q = IF Len(s) < 2 THEN Append(s, r) ELSE s
  PROVE  /\ s = <<>> => Len(q) = 1 /\ q[1] = r
         /\ Len(s) = 1 => Len(q) = 2 /\ q[1] = s[1] /\ q[2] = r
         /\ Len(s) = 2 => q = s
<1>1. /\ 0 < 2 /\ 1 < 2 /\ ~(2 < 2)
      /\ 0 + 1 = 1 /\ 1 + 1 = 2 /\ 1 \in 1..1
  OBVIOUS
<1>2. /\ Len(Append(s, r)) = Len(s) + 1 /\ Append(s, r)[Len(s) + 1] = r
      /\ \A n \in 1..Len(s) : Append(s, r)[n] = s[n]
      /\ s = <<>> <=> Len(s) = 0
  BY OneMore
<1>3. CASE Len(s) = 0
  <2>1. q = Append(s, r)
    BY <1>1, <1>3, Zenon
  <2> QED
    BY <1>2, <1>3, <2>1
<1>4. CASE Len(s) = 1
  <2>1. q = Append(s, r)
    BY <1>1, <1>4, Zenon
  <2> QED
    BY <1>2, <1>4, <2>1
<1>5. CASE Len(s) = 2
  <2>1. q = s
    BY <1>1, <1>5, Zenon
  <2> QED
    BY <1>2, <1>5, <2>1
<1> QED
  BY <1>2, <1>3, <1>4, <1>5, Zenon

-----------------------------------------------------------------------------
(***************************************************************************)
(* The steps of the workers, of the main thread and of the kernel.         *)
(***************************************************************************)
LEMMA TypeStep ==
  ASSUME TypeOK, ChainInv, [Next]_vars
  PROVE  TypeOK'
<1> USE DEF TypeOK, build, tableVars, kernelVars
<1>1. ASSUME NEW w \in Worker, NoMessage(w) PROVE TypeOK'
  BY <1>1, Zenon DEF NoMessage
<1>2. ASSUME NEW w \in Worker, NEW t \in Table, Opened(w, t) PROVE TypeOK'
  <2>1. scheduler_ring' \in [Worker -> Seq(Table)] /\ submitted[t] = <<>>
    BY <1>2, MessageTaken, Zenon DEF Opened
  <2>2. submitted' \in [Table -> Seq(Chain)]
    BY <1>2, <2>1, ShortSequences DEF Opened, schedule_initialization_read
  <2> QED
    BY Zenon, <1>2, <2>1, <2>2 DEF Opened, Message
<1>3. ASSUME NEW w \in Worker, NEW t \in Table, ReadDone(w, t) PROVE TypeOK'
  <2>1. scheduler_ring' \in [Worker -> Seq(Table)] /\ submitted[t] = <<>>
    BY <1>3, MessageTaken, Zenon DEF ReadDone
  <2>2. submitted' \in [Table -> Seq(Chain)]
    <3>1. submitted' = submitted \/ submitted' = [submitted EXCEPT ![t] = <<"read">>]
      BY <1>3, <2>1, ShortSequences DEF ReadDone, schedule_initialization_read
    <3> QED
      BY Zenon, <3>1, ShortSequences
  <2>3. num_read' \in Nat /\ num_initialized_read' \in [Worker -> Nat]
    <3> DEFINE n == Cardinality(Short(t))
    <3>1. n \in Nat
      BY ShortCount, Zenon
    <3>2. num_read' = num_read + n /\ num_initialized_read' = [num_initialized_read EXCEPT ![w] = @ + n]
      BY <1>3, Zenon DEF ReadDone
    <3> HIDE DEF n
    <3> QED
      BY <3>1, <3>2
  <2>4. desired_sstable_offset' \in [Table -> {"new", "reading", "done"}]
        /\ is_flushed_to' \in SUBSET Table
    BY <1>3, Zenon DEF ReadDone
  <2> QED
    BY Zenon, <1>3, <2>1, <2>2, <2>3, <2>4 DEF ReadDone, Message
<1>4. ASSUME NEW w \in Worker, EndOfTurn(w)
      PROVE  /\ i' \in [Worker -> Table] /\ \A v \in Worker : i'[v] \in First(v)..Second(v)
             /\ pc' \in [Worker -> {"peek", "table", "fd", "serving"}]
  <2>1. /\ First(w) \in Nat /\ Second(w) \in Nat /\ First(w) <= Second(w)
        /\ First(w)..Second(w) \subseteq Table
    BY BatchOfWorker, Zenon
  <2>2. (IF i[w] = Second(w) THEN First(w) ELSE i[w] + 1) \in First(w)..Second(w)
    BY <2>1
  <2>3. i' = [i EXCEPT ![w] = IF i[w] = Second(w) THEN First(w) ELSE i[w] + 1]
    BY <1>4, Zenon DEF EndOfTurn, LastOfRound
  <2>4. i' \in [Worker -> Table] /\ \A v \in Worker : i'[v] \in First(v)..Second(v)
    BY <2>1, <2>2, <2>3, Zenon
  <2> QED
    BY <1>4, <2>4, Zenon DEF EndOfTurn
<1>5. ASSUME NEW w \in Worker, TableKnown(w) PROVE TypeOK'
  BY <1>4, <1>5, Zenon DEF TableKnown
<1>6. ASSUME NEW w \in Worker, OpenTable(w) PROVE TypeOK'
  <2>1. i[w] \in Table /\ submitted[i[w]] = <<>>
    BY <1>6, Zenon DEF OpenTable, ChainInv
  <2>2. submitted' \in [Table -> Seq(Chain)]
    BY <1>6, <2>1, ShortSequences DEF OpenTable
  <2> QED
    BY <1>4, <1>6, <2>2, Zenon DEF OpenTable, OffsetAfterOpen
<1>7. ASSUME NEW w \in Worker, TakeNetworkFd(w) PROVE TypeOK'
  <2>1. Head(scheduler_ring[w]) \in Table
    BY <1>7 DEF TakeNetworkFd
  <2> QED
    BY <1>7, <2>1, Zenon DEF TakeNetworkFd
<1>8. CASE StartRingDB
  BY <1>8, Zenon DEF StartRingDB
<1>9. ASSUME NEW t \in Table, KernelDone(t) PROVE TypeOK'
  <2>1. /\ submitted' = [submitted EXCEPT ![t] = <<>>]
        /\ io_ring' \in [Table -> Seq(Result)]
        /\ scheduler_ring' \in [Worker -> Seq(Table)]
    BY Zenon, <1>9, ChainEnds
  <2>2. submitted' \in [Table -> Seq(Chain)]
    BY <2>1, ShortSequences, Zenon
  <2>3. broken' \in SUBSET Table
    BY <1>9, Zenon DEF KernelDone
  <2> QED
    BY <1>9, <2>1, <2>2, <2>3, Zenon DEF KernelDone
<1>10. CASE UNCHANGED vars
  BY <1>10, Zenon DEF vars
<1> QED
  BY Zenon, <1>1, <1>2, <1>3, <1>5, <1>6, <1>7, <1>8, <1>9, <1>10 DEF Next, WorkerStep

\* Every step of a worker, of the main thread and of the kernel keeps an sstable to one
\* chain.
LEMMA ChainStep ==
  ASSUME TypeOK, ChainInv, [Next]_vars
  PROVE  ChainInv'
<1> USE DEF TypeOK, build, tableVars, kernelVars
<1>1. ASSUME UNCHANGED <<scheduler_ring, submitted, io_ring, desired_sstable_offset>> PROVE ChainInv'
  BY <1>1, Zenon DEF ChainInv, Unseen
<1>2. ASSUME NEW w \in Worker, NEW t \in Table, Opened(w, t) \/ ReadDone(w, t) PROVE ChainInv'
  <2>1. /\ submitted[t] = <<>> /\ io_ring[t] # <<>>
        /\ \A v \in Worker : Distinct(scheduler_ring'[v])
        /\ \A v \in Worker, u \in Table : Among(scheduler_ring'[v], u) => Unseen(v, u) /\ u # t
    BY <1>2, MessageTaken, Zenon DEF Opened, ReadDone
  <2>2. io_ring' = io_ring
    BY <1>2, Zenon DEF Opened, ReadDone, Message
  <2>3. \/ submitted' = submitted
        \/ submitted' = [submitted EXCEPT ![t] = <<"read">>]
    BY <1>2, <2>1, ShortSequences DEF Opened, ReadDone, schedule_initialization_read
  <2>4. \A u \in Table : u # t => submitted'[u] = submitted[u]
    BY <2>3, Zenon
  <2>5. \A u \in Table : desired_sstable_offset'[u] = "new" => desired_sstable_offset[u] = "new" /\ u # t
    BY <1>2, Zenon DEF Opened, ReadDone
  <2>6. \A v \in Worker, u \in Table : Unseen(v, u)' =>
          v = Owner(u) /\ submitted'[u] = <<>> /\ io_ring'[u] # <<>>
    BY <2>1, <2>2, <2>4, Zenon DEF ChainInv, Unseen
  <2>7. \A u \in Table : submitted'[u] \in
          {<<>>, IF io_ring'[u] = <<>> THEN <<"open">> ELSE <<"read">>}
    BY <2>1, <2>2, <2>3, Zenon DEF ChainInv
  <2>8. \A u \in Table : desired_sstable_offset'[u] = "new" => submitted'[u] = <<>> /\ io_ring'[u] = <<>>
    BY <2>2, <2>4, <2>5, Zenon DEF ChainInv
  <2> QED
    BY <2>1, <2>6, <2>7, <2>8, Zenon DEF ChainInv
<1>3. ASSUME NEW w \in Worker, OpenTable(w) PROVE ChainInv'
  <2>1. i[w] \in Table /\ submitted[i[w]] = <<>> /\ io_ring[i[w]] = <<>>
    BY <1>3, Zenon DEF OpenTable, ChainInv
  <2>2. /\ submitted' = [submitted EXCEPT ![i[w]] = <<"open">>]
        /\ desired_sstable_offset' = [desired_sstable_offset EXCEPT ![i[w]] = "reading"]
        /\ UNCHANGED <<io_ring, scheduler_ring>>
    BY <1>3, <2>1, ShortSequences DEF OpenTable, OffsetAfterOpen
  <2>3. \A v \in Worker : ~Unseen(v, i[w])
    BY <2>1, Zenon DEF ChainInv
  <2> QED
    BY <2>1, <2>2, <2>3 DEF ChainInv, Unseen
<1>4. ASSUME NEW t \in Table, KernelDone(t) PROVE ChainInv'
  <2>1. /\ submitted[t] # <<>>
        /\ submitted' = [submitted EXCEPT ![t] = <<>>]
        /\ io_ring'[t] # <<>>
        /\ \A u \in Table : u # t => io_ring'[u] = io_ring[u]
        /\ \A v \in Worker : Distinct(scheduler_ring'[v])
        /\ \A v \in Worker, u \in Table :
             Among(scheduler_ring'[v], u) => (Unseen(v, u) /\ u # t) \/ (u = t /\ v = Owner(t))
        /\ desired_sstable_offset' = desired_sstable_offset
    BY Zenon, <1>4, ChainEnds DEF KernelDone
  <2>2. io_ring'[t] # <<>> /\ submitted'[t] = <<>>
    BY <2>1, ShortSequences, Zenon
  <2>3. \A u \in Table : u # t => submitted'[u] = submitted[u] /\ io_ring'[u] = io_ring[u]
    BY <2>1, Zenon
  <2>4. desired_sstable_offset[t] # "new"
    BY <2>1, Zenon DEF ChainInv
  <2>5. \A v \in Worker, u \in Table : Unseen(v, u)' =>
          v = Owner(u) /\ submitted'[u] = <<>> /\ io_ring'[u] # <<>>
    BY <2>1, <2>2, <2>3 DEF ChainInv, Unseen
  <2>6. \A u \in Table : submitted'[u] \in
          {<<>>, IF io_ring'[u] = <<>> THEN <<"open">> ELSE <<"read">>}
    BY <2>2, <2>3, Zenon DEF ChainInv
  <2>7. \A u \in Table : desired_sstable_offset'[u] = "new" => submitted'[u] = <<>> /\ io_ring'[u] = <<>>
    BY <2>1, <2>3, <2>4 DEF ChainInv
  <2> QED
    BY <2>1, <2>5, <2>6, <2>7 DEF ChainInv
<1>5. ASSUME NEW w \in Worker, NoMessage(w) \/ TableKnown(w) \/ TakeNetworkFd(w) PROVE ChainInv'
  BY <1>1, <1>5, Zenon DEF NoMessage, TableKnown, TakeNetworkFd
<1>6. CASE StartRingDB \/ UNCHANGED vars
  BY <1>1, <1>6, Zenon DEF StartRingDB, vars
<1> QED
  BY <1>2, <1>3, <1>4, <1>5, <1>6 DEF Next, WorkerStep

\* An sstable whose file has been asked for is never new again, so the round of a worker
\* leaves none behind; a worker that has left its loop has made a whole round.
ServedInv == RoundInv /\ ServedTablesHaveRings

\* Every step keeps that.
LEMMA RoundStep ==
  ASSUME TypeOK, ServedInv, [Next]_vars
  PROVE  ServedInv'
<1> USE DEF TypeOK
<1> DEFINE Known == {t \in Table : desired_sstable_offset[t] # "new"}
<1>1. ASSUME UNCHANGED <<i, pc>>, Known \subseteq Known' PROVE ServedInv'
  <2>1. \A w \in Worker : First(w)..(i[w] - 1) \subseteq Table /\ First(w)..Second(w) \subseteq Table
    BY BatchOfWorker
  <2> QED
    BY Zenon, <1>1, <2>1 DEF ServedInv, RoundInv, ServedTablesHaveRings
<1>2. ASSUME NEW w \in Worker, EndOfTurn(w), Known \subseteq Known', i[w] \in Known'
      PROVE  ServedInv'
  <2>1. \A v \in Worker : /\ First(v) \in Nat /\ Second(v) \in Nat /\ First(v) <= Second(v)
                          /\ First(v)..Second(v) \subseteq Table /\ i[v] \in First(v)..Second(v)
    BY BatchOfWorker, Zenon
  <2>2. /\ i' = [i EXCEPT ![w] = IF i[w] = Second(w) THEN First(w) ELSE i[w] + 1]
        /\ \A v \in Worker : v # w => i'[v] = i[v] /\ pc'[v] = pc[v]
        /\ pc'[w] \in {"fd", "serving"} => i[w] = Second(w)
    BY <1>2, Zenon DEF EndOfTurn, LastOfRound
  <2>3. First(w)..i[w] \subseteq Known'
    <3>1. /\ First(w) \in Nat /\ Second(w) \in Nat /\ i[w] \in First(w)..Second(w)
          /\ First(w)..Second(w) \subseteq Table
      BY <2>1, Zenon
    <3>2. First(w)..(i[w] - 1) \subseteq Known
      <4>1. First(w)..(i[w] - 1) \subseteq First(w)..Second(w)
        BY <3>1
      <4> QED
        BY <3>1, <4>1, Zenon DEF ServedInv, RoundInv
    <3>3. ASSUME NEW t \in First(w)..i[w] PROVE t = i[w] \/ t \in First(w)..(i[w] - 1)
      BY <3>1
    <3> QED
      BY <1>2, <3>2, <3>3, Zenon
  <2>4. ASSUME NEW v \in Worker, NEW t \in First(v)..(i'[v] - 1) PROVE t \in Known'
    <3>1. CASE v = w
      BY <2>1, <2>2, <2>3, <3>1
    <3>2. CASE v # w
      <4>1. i'[v] = i[v] /\ t \in First(v)..(i[v] - 1)
        BY <2>2, <2>4, <3>2, Zenon
      <4>2. t \in Table
        <5>1. /\ First(v) \in Nat /\ Second(v) \in Nat /\ i[v] \in First(v)..Second(v)
              /\ First(v)..Second(v) \subseteq Table
          BY <2>1, Zenon
        <5>2. t \in First(v)..Second(v)
          BY <4>1, <5>1
        <5> QED
          BY <5>1, <5>2, Zenon
      <4> QED
        BY <1>2, <4>1, <4>2, Zenon DEF ServedInv, RoundInv
    <3> QED
      BY <3>1, <3>2, Zenon
  <2>5. ASSUME NEW v \in Worker, pc'[v] \in {"fd", "serving"}, NEW t \in First(v)..Second(v)
        PROVE  t \in Known'
    <3>1. CASE v = w
      BY <2>2, <2>3, <2>5, <3>1, Zenon
    <3>2. CASE v # w
      <4>1. pc[v] \in {"fd", "serving"} /\ t \in Table
        BY <2>1, <2>2, <2>5, <3>2, Zenon
      <4> QED
        BY <1>2, <2>5, <4>1, Zenon DEF ServedInv, ServedTablesHaveRings
    <3> QED
      BY <3>1, <3>2, Zenon
  <2> QED
    BY <2>4, <2>5, Zenon DEF ServedInv, RoundInv, ServedTablesHaveRings
<1>3. ASSUME NEW w \in Worker, NoMessage(w) PROVE ServedInv'
  <2>1. UNCHANGED <<i, desired_sstable_offset>> /\ pc' = [pc EXCEPT ![w] = "table"]
    BY <1>3, Zenon DEF NoMessage, tableVars
  <2> QED
    BY <2>1, Zenon DEF ServedInv, RoundInv, ServedTablesHaveRings
<1>4. ASSUME NEW w \in Worker, NEW t \in Table, Opened(w, t) \/ ReadDone(w, t) PROVE ServedInv'
  <2>1. i' = i /\ pc' = [pc EXCEPT ![w] = "table"]
    BY <1>4, Zenon DEF Opened, ReadDone, Message
  <2>2. Known \subseteq Known'
    BY <1>4, Zenon DEF Opened, ReadDone
  <2>3. ASSUME NEW v \in Worker
        PROVE  First(v)..(i[v] - 1) \subseteq Table /\ First(v)..Second(v) \subseteq Table
    <3>1. /\ First(v) \in Nat /\ Second(v) \in Nat /\ First(v)..Second(v) \subseteq Table
      BY BatchOfWorker, Zenon
    <3>2. i[v] \in First(v)..Second(v)
      BY Zenon
    <3>3. First(v)..(i[v] - 1) \subseteq First(v)..Second(v)
      BY <3>1, <3>2
    <3> QED
      BY <3>1, <3>3, Zenon
  <2> QED
    BY Zenon, <2>1, <2>2, <2>3 DEF ServedInv, RoundInv, ServedTablesHaveRings
<1>5. ASSUME NEW w \in Worker, TableKnown(w) PROVE ServedInv'
  <2>1. EndOfTurn(w) /\ Known' = Known /\ i[w] \in Known
    BY <1>5, Zenon DEF TableKnown, tableVars
  <2> QED
    BY <1>2, <2>1, Zenon
<1>6. ASSUME NEW w \in Worker, OpenTable(w) PROVE ServedInv'
  <2>1. EndOfTurn(w) /\ Known \subseteq Known' /\ i[w] \in Known'
    BY <1>6, Zenon DEF OpenTable, OffsetAfterOpen
  <2> QED
    BY <1>2, <2>1, Zenon
<1>7. ASSUME NEW w \in Worker, TakeNetworkFd(w) PROVE ServedInv'
  <2>1. UNCHANGED <<i, desired_sstable_offset>> /\ pc[w] = "fd" /\ pc' = [pc EXCEPT ![w] = "serving"]
    BY <1>7, Zenon DEF TakeNetworkFd, tableVars
  <2> QED
    BY <2>1, Zenon DEF ServedInv, RoundInv, ServedTablesHaveRings
<1>8. CASE StartRingDB
  BY <1>1, <1>8, Zenon DEF StartRingDB, tableVars
<1>9. ASSUME NEW t \in Table, KernelDone(t) PROVE ServedInv'
  BY <1>1, <1>9, Zenon DEF KernelDone, tableVars
<1>10. CASE UNCHANGED vars
  BY <1>1, <1>10, Zenon DEF vars, tableVars
<1> QED
  BY <1>3, <1>4, <1>5, <1>6, <1>7, <1>8, <1>9, <1>10 DEF Next, WorkerStep

\* What asking for a file changes.
LEMMA OpenEffect ==
  ASSUME TypeOK, ChainInv, NEW w \in Worker, OpenTable(w)
  PROVE  /\ i[w] \in Table /\ desired_sstable_offset[i[w]] = "new" /\ io_ring[i[w]] = <<>>
         /\ submitted' = [submitted EXCEPT ![i[w]] = <<"open">>]
         /\ desired_sstable_offset' = [desired_sstable_offset EXCEPT ![i[w]] = "reading"]
         /\ UNCHANGED <<scheduler_ring, io_ring, num_initialized_read, num_read>>
<1>1. /\ i[w] \in Table /\ desired_sstable_offset[i[w]] = "new"
      /\ submitted[i[w]] = <<>> /\ io_ring[i[w]] = <<>>
  BY Zenon DEF OpenTable, TypeOK, ChainInv
<1>2. submitted' = [submitted EXCEPT ![i[w]] = <<"open">>]
  BY <1>1, ShortSequences, Zenon DEF OpenTable
<1> QED
  BY <1>1, <1>2, Zenon DEF OpenTable, OffsetAfterOpen

\* What taking a message changes: its sstable has none any more, the others are as before.
LEMMA MessageEffect ==
  ASSUME TypeOK, ChainInv, NEW w \in Worker, NEW t \in Table, Message(w, t)
  PROVE  /\ w = Owner(t) /\ Unseen(w, t) /\ submitted[t] = <<>> /\ io_ring[t] # <<>>
         /\ ~Among(scheduler_ring'[Owner(t)], t)
         /\ \A u \in Table : u # t => (Among(scheduler_ring'[Owner(u)], u) <=> Unseen(Owner(u), u))
<1>1. /\ w = Owner(t) /\ Unseen(w, t) /\ submitted[t] = <<>> /\ io_ring[t] # <<>>
      /\ \A v \in Worker, u \in Table : Among(scheduler_ring'[v], u) => Unseen(v, u) /\ u # t
  BY MessageTaken, Zenon
<1>2. ~Among(scheduler_ring'[Owner(t)], t)
  BY <1>1, Zenon
<1>3. ASSUME NEW u \in Table, u # t, Unseen(Owner(u), u) PROVE Among(scheduler_ring'[Owner(u)], u)
  <2> DEFINE ring == scheduler_ring[w]
  <2>1. ring \in Seq(Table) /\ ring # <<>> /\ t = Head(ring)
        /\ scheduler_ring' = [scheduler_ring EXCEPT ![w] = Tail(ring)]
        /\ scheduler_ring \in [Worker -> Seq(Table)]
    BY Zenon DEF Message, TypeOK
  <2>2. Owner(u) \in Worker
    BY OwnerIsWorker, Zenon
  <2>3. Among(ring, u) => Among(Tail(ring), u)
    <3> HIDE DEF ring
    <3> QED
      BY <1>3, <2>1, OthersStay, Zenon
  <2>4. CASE Owner(u) = w
    BY <1>3, <2>1, <2>3, <2>4, Zenon DEF Unseen
  <2>5. CASE Owner(u) # w
    <3>1. scheduler_ring'[Owner(u)] = scheduler_ring[Owner(u)]
      BY <2>1, <2>2, <2>5, Zenon
    <3> QED
      BY <1>3, <3>1, Zenon DEF Unseen
  <2> QED
    BY <2>4, <2>5, Zenon
<1>4. ASSUME NEW u \in Table, Among(scheduler_ring'[Owner(u)], u) PROVE Unseen(Owner(u), u)
  <2>1. Owner(u) \in Worker
    BY OwnerIsWorker, Zenon
  <2> QED
    BY <1>1, <1>4, <2>1, Zenon
<1> QED
  BY <1>1, <1>2, <1>3, <1>4, Zenon

\* What a worker does with a message: the sstable is done, or is read on.
LEMMA ReadEffect ==
  ASSUME TypeOK, ChainInv, NEW w \in Worker, NEW t \in Table, Opened(w, t) \/ ReadDone(w, t)
  PROVE  /\ Message(w, t) /\ io_ring' = io_ring
         /\ \/ /\ desired_sstable_offset' = [desired_sstable_offset EXCEPT ![t] = "done"]
               /\ submitted' = submitted
            \/ /\ desired_sstable_offset' = [desired_sstable_offset EXCEPT ![t] = "reading"]
               /\ submitted' = [submitted EXCEPT ![t] = <<"read">>]
<1>1. Message(w, t)
  BY Zenon DEF Opened, ReadDone
<1>2. io_ring' = io_ring
  BY <1>1, Zenon DEF Message
<1>3. submitted[t] = <<>>
  BY <1>1, MessageTaken, Zenon
<1>4. schedule_initialization_read(t) => submitted' = [submitted EXCEPT ![t] = <<"read">>]
  BY <1>3, ShortSequences, Zenon DEF schedule_initialization_read
<1>5. CASE Opened(w, t)
  BY <1>1, <1>2, <1>4, <1>5, Zenon DEF Opened
<1>6. CASE ReadDone(w, t)
  <2>1. CASE 2 \in Short(t)
    BY <1>1, <1>2, <1>6, <2>1, Zenon DEF ReadDone
  <2>2. CASE 2 \notin Short(t)
    BY <1>1, <1>2, <1>4, <1>6, <2>2, Zenon DEF ReadDone
  <2> QED
    BY <2>1, <2>2, Zenon
<1> QED
  BY <1>5, <1>6, Zenon

\* The kernel's results: a message follows an open that succeeded, or two reads that were
\* complete, which those of sstable 0 may be.
LEMMA ResultStep ==
  ASSUME TypeOK, ChainInv, ResultInv, [Next]_vars
  PROVE  ResultInv'
<1>1. ASSUME UNCHANGED <<zero_length, scheduler_ring, submitted, io_ring>> PROVE ResultInv'
  BY <1>1, Zenon DEF ResultInv, Unbroken, Complete, Unseen
<1>2. ASSUME NEW w \in Worker, NEW t \in Table, Opened(w, t) \/ ReadDone(w, t) PROVE ResultInv'
  <2>1. /\ Message(w, t) /\ io_ring' = io_ring
        /\ submitted' = submitted \/ submitted' = [submitted EXCEPT ![t] = <<"read">>]
    BY <1>2, ReadEffect, Zenon
  <2>2. zero_length' = zero_length /\ submitted \in [Table -> Seq(Chain)]
    BY <2>1, Zenon DEF Message, build, TypeOK
  <2>3. /\ w = Owner(t) /\ Unseen(w, t) /\ ~Among(scheduler_ring'[Owner(t)], t)
        /\ \A u \in Table : u # t => (Among(scheduler_ring'[Owner(u)], u) <=> Unseen(Owner(u), u))
    BY <2>1, MessageEffect, Zenon
  <2>4. \A u \in Table : Unbroken(u)' <=> Unbroken(u)
    BY <2>1, <2>2, Zenon DEF Unbroken, Complete
  <2>5. ASSUME NEW u \in Table, submitted'[u] = <<"read">> \/ Unseen(Owner(u), u)'
        PROVE  Unbroken(u)
    <3>1. CASE u = t
      BY <2>3, <3>1, Zenon DEF ResultInv
    <3>2. CASE u # t
      <4>1. submitted'[u] = submitted[u]
        BY <2>1, <2>2, <3>2, Zenon
      <4> QED
        BY <2>3, <2>5, <3>2, <4>1, Zenon DEF ResultInv, Unseen
    <3> QED
      BY <3>1, <3>2, Zenon
  <2> QED
    BY <2>4, <2>5, Zenon DEF ResultInv
<1>3. ASSUME NEW w \in Worker, OpenTable(w) PROVE ResultInv'
  <2>1. /\ i[w] \in Table /\ submitted' = [submitted EXCEPT ![i[w]] = <<"open">>]
        /\ UNCHANGED <<zero_length, scheduler_ring, io_ring>>
        /\ submitted \in [Table -> Seq(Chain)]
    BY <1>3, OpenEffect, Zenon DEF OpenTable, build, TypeOK
  <2>2. \A u \in Table : submitted'[u] = <<"read">> => submitted[u] = <<"read">>
    BY <2>1, ShortSequences, Zenon
  <2> QED
    BY <2>1, <2>2, Zenon DEF ResultInv, Unbroken, Complete, Unseen
<1>4. ASSUME NEW t \in Table, KernelDone(t) PROVE ResultInv'
  <2>1. /\ submitted[t] = (IF io_ring[t] = <<>> THEN <<"open">> ELSE <<"read">>)
        /\ submitted' = [submitted EXCEPT ![t] = <<>>]
        /\ \A u \in Table : u # t => io_ring'[u] = io_ring[u]
        /\ \A v \in Worker, u \in Table :
             Among(scheduler_ring'[v], u) => (Unseen(v, u) /\ u # t) \/ (u = t /\ v = Owner(t))
        /\ \A v \in Worker : ~Unseen(v, t)
    BY Zenon, <1>4, ChainEnds
  <2>2. /\ zero_length' = zero_length /\ submitted \in [Table -> Seq(Chain)]
        /\ io_ring \in [Table -> Seq(Result)] /\ scheduler_ring \in [Worker -> Seq(Table)]
        /\ Owner(t) \in Worker
    BY <1>4, OwnerIsWorker, Zenon DEF KernelDone, build, TypeOK
  <2>3. ASSUME NEW u \in Table, u # t, submitted'[u] = <<"read">> \/ Unseen(Owner(u), u)'
        PROVE  Unbroken(u)'
    <3>1. submitted'[u] = submitted[u] /\ Owner(u) \in Worker
      BY <2>1, <2>2, <2>3, OwnerIsWorker, Zenon
    <3>2. Unbroken(u)
      BY <2>1, <2>3, <3>1, Zenon DEF ResultInv, Unseen
    <3> QED
      BY <2>1, <2>2, <2>3, <3>2, Zenon DEF Unbroken, Complete
  <2>4. ASSUME submitted'[t] = <<"read">> \/ Unseen(Owner(t), t)' PROVE Unbroken(t)'
    <3>1. PICK result \in Results(t, Head(submitted[t])) :
            /\ io_ring' = [io_ring EXCEPT ![t] = IF Len(@) < 2 THEN Append(@, result) ELSE @]
            /\ \E posts \in Posts(Head(submitted[t]), result) :
                 scheduler_ring' = [scheduler_ring EXCEPT ![Owner(t)] =
                                      IF posts THEN Append(scheduler_ring[Owner(t)], t)
                                      ELSE scheduler_ring[Owner(t)]]
      BY <1>4, Zenon DEF KernelDone
    <3>2. PICK posts \in Posts(Head(submitted[t]), result) :
            scheduler_ring' = [scheduler_ring EXCEPT ![Owner(t)] =
                                 IF posts THEN Append(scheduler_ring[Owner(t)], t)
                                 ELSE scheduler_ring[Owner(t)]]
      BY <3>1, Zenon
    <3>3. Unseen(Owner(t), t)'
      BY <2>1, <2>2, <2>4, ShortSequences, Zenon
    <3>4. posts # FALSE
      BY <2>1, <2>2, <3>2, <3>3, Zenon DEF Unseen
    <3> DEFINE s == io_ring[t]
    <3>5. s \in Seq(Result) /\ result \in Result
      BY <2>2, Zenon DEF Results, Result
    <3>6. /\ s = <<>> => Len(io_ring'[t]) = 1 /\ io_ring'[t][1] = result
          /\ Len(s) = 1 => Len(io_ring'[t]) = 2 /\ io_ring'[t][1] = s[1] /\ io_ring'[t][2] = result
          /\ Len(s) = 2 => io_ring'[t] = s
      <4>1. io_ring'[t] = IF Len(s) < 2 THEN Append(s, result) ELSE s
        BY <2>2, <3>1, Zenon
      <4>2. PICK q : q = io_ring'[t]
        BY Zenon
      <4> HIDE DEF s
      <4>3. /\ s = <<>> => Len(q) = 1 /\ q[1] = result
            /\ Len(s) = 1 => Len(q) = 2 /\ q[1] = s[1] /\ q[2] = result
            /\ Len(s) = 2 => q = s
        BY <3>5, <4>1, <4>2, SeenAfter
      <4> QED
        BY <4>2, <4>3, Zenon
    <3>7. CASE s = <<>>
      <4>1. Head(submitted[t]) = "open"
        BY <2>1, <3>7, ShortSequences, Zenon
      <4>2. result = "part"
        BY <3>4, <4>1, Zenon DEF Posts
      <4>3. Len(io_ring'[t]) = 1 /\ io_ring'[t][1] = "part"
        BY <3>6, <3>7, <4>2, Zenon
      <4> QED
        BY <4>3, Zenon DEF Unbroken
    <3>8. CASE s # <<>>
      <4>1. submitted[t] = <<"read">> /\ Head(submitted[t]) = "read"
        BY <2>1, <3>8, ShortSequences, Zenon
      <4>2. Complete(result)
        BY <3>4, <4>1, Zenon DEF Posts
      <4>3. t = 0
        <5>1. "error" # "nothing" /\ "error" # "buffer" /\ "read" # "open"
          OBVIOUS
        <5>2. CASE t # 0
          <6>1. result = "error"
            BY <4>1, <5>1, <5>2, Zenon DEF Results
          <6> QED
            BY <4>2, <5>1, <6>1, Zenon DEF Complete
        <5> QED
          BY <5>2, Zenon
      <4>4. /\ s[1] = "part"
            /\ Len(s) # 1 => Len(s) = 2 /\ Complete(s[2])
        BY <4>1, Zenon DEF ResultInv, Unbroken
      <4>5. CASE Len(s) = 1
        <5>1. Len(io_ring'[t]) = 2 /\ io_ring'[t][1] = "part" /\ io_ring'[t][2] = result
          BY <3>6, <4>4, <4>5, Zenon
        <5> QED
          BY <2>2, <4>2, <4>3, <5>1, Zenon DEF Unbroken, Complete
      <4>6. CASE Len(s) # 1
        <5>1. io_ring'[t] = s
          BY <3>6, <4>4, <4>6, Zenon
        <5> QED
          BY <2>2, <4>3, <4>4, <4>6, <5>1, Zenon DEF Unbroken, Complete
      <4> QED
        BY <4>5, <4>6, Zenon
    <3> QED
      BY <3>7, <3>8, Zenon
  <2> QED
    BY <2>3, <2>4, Zenon DEF ResultInv
<1>5. ASSUME NEW w \in Worker, NoMessage(w) \/ TableKnown(w) \/ TakeNetworkFd(w) PROVE ResultInv'
  BY <1>1, <1>5, Zenon DEF NoMessage, TableKnown, TakeNetworkFd, build, kernelVars
<1>6. CASE StartRingDB \/ UNCHANGED vars
  BY <1>1, <1>6, Zenon DEF StartRingDB, vars, build, kernelVars
<1> QED
  BY <1>2, <1>3, <1>4, <1>5, <1>6, Zenon DEF Next, WorkerStep

\* A read that is counted is one of sstable 0 and counts once, through the completion of the
\* open that is still in the ring, or not at all if buffers have no length.
LEMMA ReadCounts ==
  ASSUME TypeOK, ChainInv, ResultInv, NEW w \in Worker, NEW t \in Table, ReadDone(w, t)
  PROVE  /\ t = 0 /\ w = 0
         /\ Cardinality(Short(t)) \in {0, 1}
         /\ zero_length => Cardinality(Short(t)) = 0
<1>1. w = Owner(t) /\ Unseen(w, t) /\ Len(io_ring[t]) = 2
  BY MessageTaken, Zenon DEF ReadDone
<1>2. 2 # 1
  OBVIOUS
<1>3. t = 0 /\ io_ring[t][1] = "part" /\ Complete(io_ring[t][2])
  BY <1>1, <1>2, Zenon DEF ResultInv, Unbroken
<1>4. w = 0
  BY <1>1, <1>3, WorkerZero, Zenon
<1>5. ~Less(io_ring[t][2])
  <2>1. "buffer" # "nothing" /\ "buffer" # "part"
    OBVIOUS
  <2> QED
    BY <1>3, <2>1, Zenon DEF Less, Complete
<1>6. Short(t) \subseteq {1}
  <2>1. ASSUME NEW j \in 1..2 PROVE j = 1 \/ j = 2
    OBVIOUS
  <2> QED
    BY <1>5, <2>1, Zenon DEF Short
<1>7. Short(t) = {} \/ Short(t) = {1}
  BY <1>6, Zenon
<1>8. Cardinality(Short(t)) \in {0, 1}
  BY <1>7, FS_EmptySet, FS_Singleton, Zenon
<1> QED
  BY <1>3, <1>4, <1>8, ShortCount, Zenon

\* What the workers and the main thread count.
LEMMA CountStep ==
  ASSUME TypeOK, ChainInv, ResultInv, CountInv, [Next]_vars
  PROVE  CountInv'
<1>1. /\ 0 \in Worker /\ First(0) = 0 /\ Second(0) = WORKER_SSTABLE_BATCH_SIZE - 1
      /\ WORKER_SSTABLE_BATCH_SIZE \in Nat \ {0}
  BY WorkerZero, StartupAssumption, Zenon
<1>2. /\ pc \in [Worker -> {"peek", "table", "fd", "serving"}] /\ i \in [Worker -> Table]
      /\ i[0] \in 0..(WORKER_SSTABLE_BATCH_SIZE - 1)
      /\ num_read \in Nat /\ num_initialized_read \in [Worker -> Nat]
  BY <1>1, Zenon DEF TypeOK
<1>3. PICK b \in Nat \ {0}, n \in Nat : b = WORKER_SSTABLE_BATCH_SIZE /\ n = i[0] /\ n <= b - 1
  BY <1>1, <1>2
<1>4. MayHaveCounted = IF pc[0] = "peek" THEN b - 1 + n ELSE IF pc[0] = "table" THEN b + n ELSE 2 * b - 1
  BY <1>3, Zenon DEF MayHaveCounted
<1>5. ASSUME UNCHANGED <<zero_length, num_read, num_initialized_read, main, i>>,
             pc'[0] = pc[0] \/ (pc[0] = "peek" /\ pc'[0] = "table")
                 \/ (pc[0] = "fd" /\ pc'[0] = "serving")
      PROVE  CountInv'
  <2>1. MayHaveCounted' = IF pc'[0] = "peek" THEN b - 1 + n
                          ELSE IF pc'[0] = "table" THEN b + n ELSE 2 * b - 1
    BY <1>3, <1>5, Zenon DEF MayHaveCounted
  <2>2. num_read <= MayHaveCounted'
    BY <1>2, <1>3, <1>4, <1>5, <2>1 DEF CountInv
  <2> QED
    BY <1>5, <2>2, Zenon DEF CountInv
<1>6. ASSUME NEW w \in Worker, EndOfTurn(w), UNCHANGED <<zero_length, num_read, num_initialized_read, main>>
      PROVE  CountInv'
  <2>1. CASE w = 0
    <3>1. /\ pc[0] = "table"
          /\ i'[0] = IF n = b - 1 THEN 0 ELSE n + 1
          /\ pc'[0] = IF n = b - 1 /\ num_initialized_read[0] >= b THEN "fd" ELSE "peek"
      BY <1>1, <1>2, <1>3, <1>6, <2>1, Zenon DEF EndOfTurn, LastOfRound, BatchCounted
    <3>2. MayHaveCounted' = IF pc'[0] = "peek" THEN b - 1 + i'[0]
                            ELSE IF pc'[0] = "table" THEN b + i'[0] ELSE 2 * b - 1
      BY <1>3, Zenon DEF MayHaveCounted
    <3>3. num_read <= b + n /\ num_read = num_initialized_read[0]
      BY <1>4, <3>1, Zenon DEF CountInv
    <3>4. CASE n = b - 1 /\ num_read >= b
      <4>1. MayHaveCounted' = 2 * b - 1
        BY <3>1, <3>2, <3>3, <3>4, Zenon
      <4>2. num_read <= 2 * b - 1
        BY <1>2, <1>3, <3>3, <3>4
      <4> QED
        BY <1>6, <4>1, <4>2, Zenon DEF CountInv
    <3>5. CASE n = b - 1 /\ ~(num_read >= b)
      <4>1. MayHaveCounted' = b - 1 + 0
        BY <3>1, <3>2, <3>3, <3>5, Zenon
      <4>2. num_read <= b - 1 + 0
        BY <1>2, <1>3, <3>5
      <4> QED
        BY <1>6, <4>1, <4>2, Zenon DEF CountInv
    <3>6. CASE n # b - 1
      <4>1. MayHaveCounted' = b - 1 + (n + 1)
        BY <3>1, <3>2, <3>6, Zenon
      <4>2. num_read <= b - 1 + (n + 1)
        BY <1>2, <1>3, <3>3
      <4> QED
        BY <1>6, <4>1, <4>2, Zenon DEF CountInv
    <3> QED
      BY <3>4, <3>5, <3>6, Zenon
  <2>2. CASE w # 0
    <3>1. pc'[0] = pc[0] /\ i'[0] = i[0]
      BY <1>1, <1>2, <1>6, <2>2, Zenon DEF EndOfTurn
    <3> QED
      BY <1>6, <3>1, Zenon DEF CountInv, MayHaveCounted
  <2> QED
    BY <2>1, <2>2, Zenon
<1>7. ASSUME NEW w \in Worker, NoMessage(w) \/ (\E t \in Table : Opened(w, t)) PROVE CountInv'
  <2>1. /\ UNCHANGED <<zero_length, num_read, num_initialized_read, main, i>>
        /\ pc[w] = "peek" /\ pc' = [pc EXCEPT ![w] = "table"]
    BY <1>7, Zenon DEF NoMessage, Opened, Message, build
  <2> QED
    BY <1>1, <1>2, <1>5, <2>1, Zenon
<1>8. ASSUME NEW w \in Worker, NEW t \in Table, ReadDone(w, t) PROVE CountInv'
  <2>1. /\ w = 0 /\ Cardinality(Short(t)) \in {0, 1} /\ (zero_length => Cardinality(Short(t)) = 0)
    BY <1>8, ReadCounts, Zenon
  <2>2. PICK c \in {0, 1} : c = Cardinality(Short(t))
    BY <2>1, Zenon
  <2>3. /\ num_read' = num_read + c /\ num_initialized_read'[0] = num_initialized_read[0] + c
        /\ UNCHANGED <<zero_length, main, i>> /\ pc[0] = "peek" /\ pc'[0] = "table"
        /\ (zero_length => c = 0)
    BY <1>1, <1>2, <1>8, <2>1, <2>2, Zenon DEF ReadDone, Message, build
  <2>4. MayHaveCounted' = b + n /\ MayHaveCounted = b - 1 + n
    BY <1>3, <1>4, <2>3, Zenon DEF MayHaveCounted
  <2>5. num_read' <= MayHaveCounted' /\ (zero_length' => num_read' = 0)
    BY <1>2, <1>3, <2>2, <2>3, <2>4 DEF CountInv
  <2>6. main' = "started" => num_read' >= NUM_SSTABLES
    BY <1>2, <2>2, <2>3, SomeTable DEF CountInv
  <2> QED
    BY <2>3, <2>5, <2>6, Zenon DEF CountInv
<1>9. ASSUME NEW w \in Worker, TableKnown(w) \/ OpenTable(w) PROVE CountInv'
  <2>1. EndOfTurn(w) /\ UNCHANGED <<zero_length, num_read, num_initialized_read, main>>
    BY <1>9, Zenon DEF TableKnown, OpenTable, build
  <2> QED
    BY <1>6, <2>1, Zenon
<1>10. ASSUME NEW w \in Worker, TakeNetworkFd(w) PROVE CountInv'
  <2>1. /\ UNCHANGED <<zero_length, num_read, num_initialized_read, main, i>>
        /\ pc[w] = "fd" /\ pc' = [pc EXCEPT ![w] = "serving"]
    BY <1>10, Zenon DEF TakeNetworkFd, build
  <2> QED
    BY <1>1, <1>2, <1>5, <2>1, Zenon
<1>11. CASE StartRingDB
  BY <1>11, Zenon DEF StartRingDB, CountInv, MayHaveCounted, build
<1>12. ASSUME NEW t \in Table, KernelDone(t) PROVE CountInv'
  BY <1>12, Zenon DEF KernelDone, CountInv, MayHaveCounted, build
<1>13. CASE UNCHANGED vars
  BY <1>13, Zenon DEF vars, CountInv, MayHaveCounted, build
<1> QED
  BY <1>7, <1>8, <1>9, <1>10, <1>11, <1>12, <1>13, Zenon DEF Next, WorkerStep

\* A worker leaves no sstable of its batch behind, and the kernel answers or breaks off.
LEMMA StallStep ==
  ASSUME TypeOK, ChainInv, StallInv, [Next]_vars
  PROVE  StallInv'
<1>1. ASSUME UNCHANGED <<desired_sstable_offset, submitted, scheduler_ring, broken>> PROVE StallInv'
  BY <1>1, Zenon DEF StallInv, Unseen
<1>2. /\ desired_sstable_offset \in [Table -> {"new", "reading", "done"}]
      /\ submitted \in [Table -> Seq(Chain)]
  BY Zenon DEF TypeOK
<1>3. ASSUME NEW w \in Worker, NEW t \in Table, Opened(w, t) \/ ReadDone(w, t) PROVE StallInv'
  <2>1. /\ Message(w, t)
        /\ \/ /\ desired_sstable_offset' = [desired_sstable_offset EXCEPT ![t] = "done"]
              /\ submitted' = submitted
           \/ /\ desired_sstable_offset' = [desired_sstable_offset EXCEPT ![t] = "reading"]
              /\ submitted' = [submitted EXCEPT ![t] = <<"read">>]
    BY <1>3, ReadEffect, Zenon
  <2>2. \A u \in Table : u # t => (Unseen(Owner(u), u)' <=> Unseen(Owner(u), u))
    BY <2>1, MessageEffect, Zenon DEF Unseen
  <2>3. broken' = broken
    BY <2>1, Zenon DEF Message
  <2>4. desired_sstable_offset'[t] = "done" \/ submitted'[t] # <<>>
    BY <1>2, <2>1, ShortSequences, Zenon
  <2>5. \A u \in Table : u # t => /\ desired_sstable_offset'[u] = desired_sstable_offset[u]
                                  /\ submitted'[u] = submitted[u]
    BY <1>2, <2>1, Zenon
  <2> QED
    BY <2>2, <2>3, <2>4, <2>5, Zenon DEF StallInv
<1>4. ASSUME NEW w \in Worker, OpenTable(w) PROVE StallInv'
  <2>1. /\ i[w] \in Table /\ submitted' = [submitted EXCEPT ![i[w]] = <<"open">>]
        /\ desired_sstable_offset' = [desired_sstable_offset EXCEPT ![i[w]] = "reading"]
        /\ UNCHANGED <<scheduler_ring, broken>>
    BY <1>4, OpenEffect, Zenon DEF OpenTable
  <2>2. submitted'[i[w]] # <<>>
    BY <1>2, <2>1, ShortSequences, Zenon
  <2>3. \A u \in Table : u # i[w] => /\ desired_sstable_offset'[u] = desired_sstable_offset[u]
                                     /\ submitted'[u] = submitted[u]
    BY <1>2, <2>1, Zenon
  <2> QED
    BY <2>1, <2>2, <2>3, Zenon DEF StallInv, Unseen
<1>5. ASSUME NEW t \in Table, KernelDone(t) PROVE StallInv'
  <2>1. /\ submitted' = [submitted EXCEPT ![t] = <<>>]
        /\ \A v \in Worker, u \in Table : Unseen(v, u) => Unseen(v, u)'
        /\ Unseen(Owner(t), t)' \/ t \in broken'
    BY Zenon, <1>5, ChainEnds DEF Unseen
  <2>2. desired_sstable_offset' = desired_sstable_offset /\ broken \subseteq broken'
    BY <1>5, Zenon DEF KernelDone, tableVars
  <2>3. \A u \in Table : Owner(u) \in Worker /\ (u # t => submitted'[u] = submitted[u])
    BY <1>2, <2>1, OwnerIsWorker, Zenon
  <2> QED
    BY <2>1, <2>2, <2>3, Zenon DEF StallInv
<1>6. ASSUME NEW w \in Worker, NoMessage(w) \/ TableKnown(w) \/ TakeNetworkFd(w) PROVE StallInv'
  BY <1>1, <1>6, Zenon DEF NoMessage, TableKnown, TakeNetworkFd, tableVars, kernelVars
<1>7. CASE StartRingDB \/ UNCHANGED vars
  BY <1>1, <1>7, Zenon DEF StartRingDB, vars, tableVars, kernelVars
<1> QED
  BY <1>3, <1>4, <1>5, <1>6, <1>7, Zenon DEF Next, WorkerStep

-----------------------------------------------------------------------------
(***************************************************************************)
(* The start of the database.                                              *)
(***************************************************************************)
StartupInv == TypeOK /\ ChainInv /\ ServedInv /\ ResultInv /\ CountInv /\ StallInv

\* What the steps keep holds of the initial states.
LEMMA StartupInitially ==
  ASSUME Init
  PROVE  StartupInv
<1>1. \A w \in Worker : /\ First(w) \in Nat /\ Second(w) \in Nat /\ First(w) <= Second(w)
                        /\ First(w)..Second(w) \subseteq Table
  BY BatchOfWorker, Zenon
<1>2. i \in [Worker -> Table] /\ \A w \in Worker : i[w] = First(w) /\ i[w] \in First(w)..Second(w)
  BY <1>1 DEF Init
<1>3. io_ring \in [Table -> Seq(Result)] /\ scheduler_ring \in [Worker -> Seq(Table)]
      /\ submitted \in [Table -> Seq(Chain)]
  BY DEF Init
<1>4. TypeOK
  BY <1>2, <1>3, Zenon DEF Init, TypeOK
<1>5. \A w \in Worker : Len(scheduler_ring[w]) = 0
  BY Zenon, ShortSequences DEF Init
<1>6. \A w \in Worker, t \in Table : ~Unseen(w, t)
  BY <1>5 DEF Unseen, Among
<1>7. ChainInv
  <2>1. \A w \in Worker : Distinct(scheduler_ring[w])
    BY <1>5 DEF Distinct
  <2> QED
    BY <1>6, <2>1, Zenon DEF Init, ChainInv
<1>8. ServedInv
  BY <1>1, <1>2 DEF Init, ServedInv, RoundInv, ServedTablesHaveRings
<1>9. ResultInv
  BY <1>6, OwnerIsWorker, ShortSequences, Zenon DEF Init, ResultInv
<1>10. CountInv
  <2>1. 0 \in Worker /\ i[0] = 0 /\ pc[0] = "peek" /\ num_initialized_read[0] = 0
    BY <1>2, WorkerZero, Zenon DEF Init
  <2>2. MayHaveCounted = WORKER_SSTABLE_BATCH_SIZE - 1 + 0
    BY <2>1, Zenon DEF MayHaveCounted
  <2>3. 0 <= WORKER_SSTABLE_BATCH_SIZE - 1 + 0
    BY StartupAssumption
  <2> QED
    BY <2>1, <2>2, <2>3, Zenon DEF Init, CountInv
<1>11. StallInv
  BY Zenon DEF Init, StallInv
<1> QED
  BY <1>4, <1>7, <1>8, <1>9, <1>10, <1>11, Zenon DEF StartupInv

\* In every reachable state every sstable is in one stage of its initialization, no worker
\* has left an sstable of its batch behind, only complete reads are counted, and an sstable
\* on which nothing is under way is one whose chain broke off.
THEOREM StartupInvariant == Spec => []StartupInv
<1>1. StartupInv /\ [Next]_vars => StartupInv'
  BY TypeStep, ChainStep, RoundStep, ResultStep, CountStep, StallStep, Zenon DEF StartupInv
<1>2. Init => StartupInv
  BY StartupInitially, Zenon
<1> QED
  BY <1>1, <1>2, PTL DEF Spec

\* The state of the workers, of their rings and of the main thread has its type; the loop
\* index i of a worker stays within its batch (lsm_tree.hpp:497-498).
THEOREM StartupTypeCorrect == Spec => []TypeOK
<1>1. StartupInv => TypeOK
  BY Zenon DEF StartupInv
<1> QED
  BY <1>1, StartupInvariant, PTL

\* However often an sstable's file is read, it has at most one chain under way or message
\* unseen (lsm_tree.hpp:470-473): messages of one sstable never meet in a scheduler ring.
THEOREM OneChain == Spec => []OneChainPerTable
<1>1. ASSUME TypeOK, ChainInv, NEW t \in Table
      PROVE  Len(submitted[t]) + Cardinality(MessagesOf(t)) <= 1
  <2> DEFINE ring == scheduler_ring[Owner(t)]
  <2>1. Owner(t) \in Worker /\ ring \in Seq(Table) /\ Len(ring) \in Nat /\ Distinct(ring)
    BY <1>1, OwnerIsWorker DEF TypeOK, ChainInv
  <2>2. submitted[t] \in {<<>>, <<"open">>, <<"read">>}
    BY <1>1, Zenon DEF ChainInv
  <2>3. CASE Unseen(Owner(t), t)
    <3>1. PICK n \in 1..Len(ring) : ring[n] = t
      BY <2>3, Zenon DEF Unseen, Among
    <3>2. MessagesOf(t) = {n}
      BY <2>1, <3>1, Zenon DEF MessagesOf, Distinct
    <3>3. submitted[t] = <<>>
      BY <1>1, <2>1, <2>3, Zenon DEF ChainInv
    <3>4. Cardinality(MessagesOf(t)) = 1
      BY Zenon, <3>2, FS_Singleton
    <3> QED
      BY <3>3, <3>4, ShortSequences
  <2>4. CASE ~Unseen(Owner(t), t)
    <3>1. MessagesOf(t) = {}
      BY <2>4, Zenon DEF Unseen, Among, MessagesOf
    <3>2. Cardinality(MessagesOf(t)) = 0
      BY <3>1, FS_EmptySet, Zenon
    <3>3. Len(submitted[t]) = 0 \/ Len(submitted[t]) = 1
      <4>1. CASE submitted[t] = <<>>
        BY <4>1, ShortSequences, Zenon
      <4>2. CASE submitted[t] = <<"open">>
        BY <4>2, ShortSequences, Zenon
      <4>3. CASE submitted[t] = <<"read">>
        BY <4>3, ShortSequences, Zenon
      <4> QED
        BY <2>2, <4>1, <4>2, <4>3
    <3> DEFINE chains == Len(submitted[t])
               messages == Cardinality(MessagesOf(t))
    <3>4. messages = 0 /\ (chains = 0 \/ chains = 1)
      BY <3>2, <3>3, Zenon
    <3> HIDE DEF chains, messages
    <3>5. chains + messages <= 1
      BY <3>4
    <3> QED
      BY <3>5, Zenon DEF chains, messages
  <2> QED
    BY <2>3, <2>4, Zenon
<1>2. StartupInv => OneChainPerTable
  BY <1>1, Zenon DEF StartupInv, OneChainPerTable
<1> QED
  BY <1>2, StartupInvariant, PTL

\* A worker that leaves its startup loop has set up the ring of every sstable of its batch
\* and asked for its file, though one sstable alone may be counted often enough
\* (lsm_tree.hpp:497-498).
THEOREM ServedTables == Spec => []ServedTablesHaveRings
<1>1. StartupInv => ServedTablesHaveRings
  BY Zenon DEF StartupInv, ServedInv
<1> QED
  BY <1>1, StartupInvariant, PTL

\* While a worker is in its loop, it owes none of its sstables anything: what startup waits
\* for in vain is with the kernel, whose chain broke off (lsm_tree.hpp:499-641).
THEOREM WorkersNeverStall == Spec => []StallsOnlyInKernel
<1>1. ASSUME TypeOK, NEW t \in Table, Unseen(Owner(t), t) PROVE MessagesOf(t) # {}
  <2>1. PICK n \in 1..Len(scheduler_ring[Owner(t)]) : scheduler_ring[Owner(t)][n] = t
    BY <1>1, Zenon DEF Unseen, Among
  <2> QED
    BY <2>1, Zenon DEF MessagesOf
<1>2. StartupInv => StallsOnlyInKernel
  BY <1>1, Zenon DEF StartupInv, StallInv, StallsOnlyInKernel
<1> QED
  BY <1>2, StartupInvariant, PTL

\* Only sstable 0 is ever counted, less than twice as often as a worker has sstables, and
\* never if buffers have no length (lsm_tree.hpp:497-560).
THEOREM CountStopsShort == Spec => []CountsStopShort
<1>1. TypeOK /\ CountInv => CountsStopShort
  <2> SUFFICES ASSUME TypeOK, CountInv PROVE CountsStopShort
    BY Zenon
  <2>1. /\ 0 \in Worker /\ First(0) = 0 /\ Second(0) = WORKER_SSTABLE_BATCH_SIZE - 1
        /\ WORKER_SSTABLE_BATCH_SIZE \in Nat \ {0}
    BY WorkerZero, StartupAssumption, Zenon
  <2>2. i[0] \in 0..(WORKER_SSTABLE_BATCH_SIZE - 1) /\ num_read \in Nat
    BY <2>1, Zenon DEF TypeOK
  <2>3. PICK b \in Nat \ {0}, n \in Nat : b = WORKER_SSTABLE_BATCH_SIZE /\ n = i[0] /\ n <= b - 1
    BY <2>1, <2>2
  <2>4. num_read <= b - 1 + n \/ num_read <= b + n \/ num_read <= 2 * b - 1
    BY <2>3, Zenon DEF CountInv, MayHaveCounted
  <2>5. num_read < 2 * b
    BY <2>2, <2>3, <2>4
  <2> QED
    BY <2>3, <2>5, Zenon DEF CountInv, CountsStopShort
<1>2. StartupInv => CountsStopShort
  BY <1>1, Zenon DEF StartupInv
<1> QED
  BY <1>2, StartupInvariant, PTL

\* With more than one worker, or with buffers of length 0, the main thread never gets past
\* its barrier (lsm_tree.hpp:204), whatever the files hold and whatever the kernel does.
THEOREM BarrierNeverOpens == Spec => []BarrierStaysClosed
<1>1. TypeOK /\ CountInv /\ CountsStopShort => BarrierStaysClosed
  <2> SUFFICES ASSUME TypeOK, CountInv, CountsStopShort,
                      zero_length \/ NUM_SSTABLE_WORKER_THREADS > 1
               PROVE  main = "waiting"
    BY Zenon DEF BarrierStaysClosed
  <2>1. PICK b \in Nat \ {0}, n \in Nat \ {0} :
          b = WORKER_SSTABLE_BATCH_SIZE /\ n = NUM_SSTABLE_WORKER_THREADS
    BY StartupAssumption, Zenon
  <2>2. num_read \in Nat /\ NUM_SSTABLES \in Nat \ {0} /\ NUM_SSTABLES = n * b
    BY <2>1, SomeTable, Zenon DEF TypeOK, NUM_SSTABLES
  <2>3. num_read < NUM_SSTABLES
    <3>1. CASE zero_length
      BY <2>2, <3>1 DEF CountInv
    <3>2. CASE n > 1
      <4>1. b * 2 <= b * n
        BY <2>1, <3>2, TimesMonotone
      <4>2. b * n = n * b /\ b * 2 = 2 * b /\ n * b \in Nat
        BY <2>1, Z3
      <4>3. num_read < 2 * b
        BY <2>1, Zenon DEF CountsStopShort
      <4>4. PICK m \in Nat : m = n * b /\ 2 * b <= m
        BY <4>1, <4>2
      <4> QED
        BY <2>1, <2>2, <4>3, <4>4
    <3> QED
      BY <2>1, <3>1, <3>2, Zenon
  <2>4. main # "started"
    BY <2>2, <2>3 DEF CountInv
  <2> QED
    BY <2>4, Zenon DEF TypeOK
<1>2. StartupInv => TypeOK /\ CountInv
  BY Zenon DEF StartupInv
<1> QED
  BY <1>1, <1>2, StartupInvariant, CountStopsShort, PTL

-----------------------------------------------------------------------------
(***************************************************************************)
(* A worker goes round its sstables: in a turn it first takes a message,   *)
(* if there is one, and then looks at the next sstable.  So many steps of  *)
(* its own bring it to the k-th message of its ring, and so many to        *)
(* sstable t of this round.                                                *)
(***************************************************************************)
TakenIn(w, k) == IF pc[w] = "peek" THEN 2 * k - 1 ELSE 2 * k
AskedIn(w, t) == IF pc[w] = "peek" THEN 2 * (t - i[w]) + 2 ELSE 2 * (t - i[w]) + 1

InLoop(label) == label \in {"peek", "table"}

\* Every message is taken now, or its worker comes one step nearer to it.
MessagesComeUp(w) ==
  \A k \in 1..Len(scheduler_ring[w]) :
    \/ TakenIn(w, k) = 1 /\ Message(w, scheduler_ring[w][k])
    \/ \E m \in 1..Len(scheduler_ring'[w]) :
         /\ scheduler_ring'[w][m] = scheduler_ring[w][k]
         /\ TakenIn(w, m)' = TakenIn(w, k) - 1

\* Every file not yet asked for is asked for now, or its worker comes one step nearer to it.
TablesComeUp(w) ==
  \A t \in First(w)..Second(w) : desired_sstable_offset[t] = "new" =>
    IF AskedIn(w, t) = 1
    THEN desired_sstable_offset'[t] = "reading"
    ELSE /\ desired_sstable_offset'[t] = "new"
         /\ AskedIn(w, t) > 1 /\ AskedIn(w, t)' = AskedIn(w, t) - 1

\* A step of anyone else leaves worker w where it is, with its messages and files.
NothingFallsBack(w) ==
  /\ i'[w] = i[w] /\ pc'[w] = pc[w]
  /\ \A k \in 1..Len(scheduler_ring[w]) :
       k \in 1..Len(scheduler_ring'[w]) /\ scheduler_ring'[w][k] = scheduler_ring[w][k]
  /\ \A t \in First(w)..Second(w) :
       desired_sstable_offset[t] = "new" => desired_sstable_offset'[t] = "new"

RoundsGoOn ==
  \A w \in Worker :
    IF WorkerStep(w)
    THEN /\ TablesComeUp(w)
         /\ InLoop(pc[w]) /\ InLoop(pc'[w]) => MessagesComeUp(w)
    ELSE NothingFallsBack(w)

\* The end of a turn takes a worker to the next sstable, and out of the loop only after the last.
LEMMA TurnEnds ==
  ASSUME TypeOK, NEW w \in Worker, EndOfTurn(w)
  PROVE  /\ pc[w] = "table" /\ pc'[w] \in {"peek", "fd"}
         /\ i[w] # Second(w) => i'[w] = i[w] + 1 /\ pc'[w] = "peek"
<1>1. pc \in [Worker -> {"peek", "table", "fd", "serving"}] /\ i \in [Worker -> Table]
  BY Zenon DEF TypeOK
<1>2. /\ pc'[w] = IF i[w] = Second(w) /\ num_initialized_read[w] >= WORKER_SSTABLE_BATCH_SIZE
                  THEN "fd" ELSE "peek"
      /\ i'[w] = IF i[w] = Second(w) THEN First(w) ELSE i[w] + 1
  BY <1>1, Zenon DEF EndOfTurn, LastOfRound, BatchCounted
<1> QED
  BY <1>2, Zenon DEF EndOfTurn

\* The worker's own steps lead it to the files it has not asked for.
LEMMA TablesUp ==
  ASSUME TypeOK, ChainInv, ServedInv, NEW w \in Worker, WorkerStep(w)
  PROVE  TablesComeUp(w)
<1> SUFFICES ASSUME NEW t \in First(w)..Second(w), desired_sstable_offset[t] = "new"
             PROVE  IF AskedIn(w, t) = 1
                    THEN desired_sstable_offset'[t] = "reading"
                    ELSE /\ desired_sstable_offset'[t] = "new"
                         /\ AskedIn(w, t) > 1 /\ AskedIn(w, t)' = AskedIn(w, t) - 1
  BY Zenon DEF TablesComeUp
<1>1. /\ First(w) \in Nat /\ Second(w) \in Nat /\ First(w)..Second(w) \subseteq Table
      /\ t \in Table /\ i[w] \in First(w)..Second(w)
  BY BatchOfWorker, Zenon DEF TypeOK
<1>2. t \notin First(w)..(i[w] - 1)
  BY Zenon DEF ServedInv, RoundInv
<1>3. PICK a \in Int : a = i[w] /\ a <= t /\ t <= Second(w) /\ t \in Int
  BY <1>1, <1>2
<1>4. pc[w] \notin {"fd", "serving"}
  BY <1>1, Zenon DEF ServedInv, ServedTablesHaveRings
<1>5. /\ pc \in [Worker -> {"peek", "table", "fd", "serving"}]
      /\ desired_sstable_offset \in [Table -> {"new", "reading", "done"}]
  BY Zenon DEF TypeOK
<1>6. ASSUME pc[w] = "peek", pc'[w] = "table", i'[w] = a, desired_sstable_offset'[t] = "new"
      PROVE  /\ AskedIn(w, t) # 1 /\ desired_sstable_offset'[t] = "new"
             /\ AskedIn(w, t) > 1 /\ AskedIn(w, t)' = AskedIn(w, t) - 1
  <2>1. AskedIn(w, t) = 2 * (t - a) + 2
    BY <1>3, <1>6, Zenon DEF AskedIn
  <2>2. AskedIn(w, t)' = 2 * (t - a) + 1
    BY <1>6, Zenon DEF AskedIn
  <2>3. /\ 2 * (t - a) + 2 # 1 /\ 2 * (t - a) + 2 > 1
        /\ 2 * (t - a) + 1 = (2 * (t - a) + 2) - 1
    BY <1>3
  <2> QED
    BY <1>6, <2>1, <2>2, <2>3, Zenon
<1>7. ASSUME pc[w] = "table" PROVE AskedIn(w, t) = 2 * (t - a) + 1
  BY <1>3, <1>7, Zenon DEF AskedIn
<1>8. ASSUME EndOfTurn(w), t # a, desired_sstable_offset'[t] = "new"
      PROVE  /\ AskedIn(w, t) # 1 /\ desired_sstable_offset'[t] = "new"
             /\ AskedIn(w, t) > 1 /\ AskedIn(w, t)' = AskedIn(w, t) - 1
  <2>1. a # Second(w) /\ a < t
    BY <1>1, <1>3, <1>8
  <2>2. pc[w] = "table" /\ i'[w] = a + 1 /\ pc'[w] = "peek"
    BY <1>3, <1>8, <2>1, TurnEnds, Zenon
  <2>3. AskedIn(w, t)' = 2 * (t - (a + 1)) + 2
    BY <2>2, Zenon DEF AskedIn
  <2>4. AskedIn(w, t) = 2 * (t - a) + 1
    BY <1>7, <2>2, Zenon
  <2>5. /\ 2 * (t - a) + 1 # 1 /\ 2 * (t - a) + 1 > 1
        /\ 2 * (t - (a + 1)) + 2 = (2 * (t - a) + 1) - 1
    BY <1>3, <2>1
  <2> QED
    BY <1>8, <2>3, <2>4, <2>5, Zenon
<1>9. CASE NoMessage(w)
  <2>1. pc[w] = "peek" /\ pc'[w] = "table" /\ i'[w] = a /\ desired_sstable_offset'[t] = "new"
    BY <1>3, <1>5, <1>9, Zenon DEF NoMessage, tableVars
  <2> QED
    BY <1>6, <2>1, Zenon
<1>10. CASE \E u \in Table : Opened(w, u) \/ ReadDone(w, u)
  <2>1. PICK u \in Table : Opened(w, u) \/ ReadDone(w, u)
    BY <1>10, Zenon
  <2>2. /\ Message(w, u)
        /\ \/ desired_sstable_offset' = [desired_sstable_offset EXCEPT ![u] = "done"]
           \/ desired_sstable_offset' = [desired_sstable_offset EXCEPT ![u] = "reading"]
    BY <2>1, ReadEffect, Zenon
  <2>3. io_ring[u] # <<>> /\ io_ring[t] = <<>>
    BY <1>1, <2>2, MessageEffect, Zenon DEF ChainInv
  <2>4. desired_sstable_offset'[t] = "new"
    BY <1>1, <1>5, <2>2, <2>3, Zenon
  <2>5. pc[w] = "peek" /\ pc'[w] = "table" /\ i'[w] = a
    BY <1>3, <1>5, <2>2, Zenon DEF Message
  <2> QED
    BY <1>6, <2>4, <2>5, Zenon
<1>11. CASE TableKnown(w)
  <2>1. EndOfTurn(w) /\ t # a /\ desired_sstable_offset'[t] = "new"
    BY <1>3, <1>11, Zenon DEF TableKnown, tableVars
  <2> QED
    BY <1>8, <2>1, Zenon
<1>12. CASE OpenTable(w)
  <2>1. EndOfTurn(w) /\ desired_sstable_offset' = [desired_sstable_offset EXCEPT ![a] = "reading"]
    BY <1>3, <1>12, OpenEffect, Zenon DEF OpenTable
  <2>2. CASE t = a
    <3>1. 2 * (t - a) + 1 = 1
      BY <1>3, <2>2
    <3>2. AskedIn(w, t) = 1
      BY <1>7, <2>1, <3>1, Zenon DEF EndOfTurn
    <3>3. desired_sstable_offset'[t] = "reading"
      BY <1>1, <1>5, <2>1, <2>2, Zenon
    <3> QED
      BY <3>2, <3>3, Zenon
  <2>3. CASE t # a
    <3>1. desired_sstable_offset'[t] = "new"
      BY <1>1, <1>5, <2>1, <2>3, Zenon
    <3> QED
      BY <1>8, <2>1, <2>3, <3>1, Zenon
  <2> QED
    BY <2>2, <2>3, Zenon
<1>13. CASE TakeNetworkFd(w)
  BY <1>4, <1>13, Zenon DEF TakeNetworkFd
<1> QED
  BY <1>9, <1>10, <1>11, <1>12, <1>13, Zenon DEF WorkerStep

\* The worker's own steps lead it to the messages in its ring, as long as it is in its loop.
LEMMA MessagesUp ==
  ASSUME TypeOK, NEW w \in Worker, WorkerStep(w), InLoop(pc[w]), InLoop(pc'[w])
  PROVE  MessagesComeUp(w)
<1>1. PICK s \in Seq(Table) : s = scheduler_ring[w]
  BY Zenon DEF TypeOK
<1>2. /\ pc \in [Worker -> {"peek", "table", "fd", "serving"}]
      /\ scheduler_ring \in [Worker -> Seq(Table)]
  BY Zenon DEF TypeOK
<1> SUFFICES ASSUME NEW k \in 1..Len(s)
             PROVE  \/ TakenIn(w, k) = 1 /\ Message(w, s[k])
                    \/ \E m \in 1..Len(scheduler_ring'[w]) :
                         /\ scheduler_ring'[w][m] = s[k]
                         /\ TakenIn(w, m)' = TakenIn(w, k) - 1
  BY <1>1, Zenon DEF MessagesComeUp
<1>3. /\ s # <<>> /\ k \in Nat \ {0} /\ Head(s) = s[1] /\ Len(Tail(s)) = Len(s) - 1 /\ Len(s) \in Nat
      /\ \A n \in 1..(Len(s) - 1) : Tail(s)[n] = s[n + 1]
  OBVIOUS
<1>4. CASE NoMessage(w)
  BY <1>1, <1>3, <1>4, Zenon DEF NoMessage
<1>5. CASE \E u \in Table : Opened(w, u) \/ ReadDone(w, u)
  <2>1. PICK u \in Table : Message(w, u)
    BY <1>5, Zenon DEF Opened, ReadDone
  <2>2. /\ pc[w] = "peek" /\ pc'[w] = "table" /\ u = s[1] /\ scheduler_ring'[w] = Tail(s)
    BY <1>1, <1>2, <1>3, <2>1, Zenon DEF Message
  <2>3. CASE k = 1
    <3>1. 2 * 1 - 1 = 1
      OBVIOUS
    <3> QED
      BY <2>1, <2>2, <2>3, <3>1, Zenon DEF TakenIn
  <2>4. CASE k # 1
    <3>1. PICK m \in 1..(Len(s) - 1) : m + 1 = k
      BY <1>3, <2>4
    <3>2. /\ TakenIn(w, k) = 2 * k - 1 /\ TakenIn(w, m)' = 2 * m
      BY <2>2, Zenon DEF TakenIn
    <3>3. 2 * m = (2 * k - 1) - 1
      BY <3>1
    <3>4. m \in 1..Len(scheduler_ring'[w]) /\ scheduler_ring'[w][m] = s[k]
      BY <1>3, <2>2, <3>1, Zenon
    <3> QED
      BY <3>2, <3>3, <3>4, Zenon
  <2> QED
    BY <2>3, <2>4, Zenon
<1>6. CASE TableKnown(w) \/ OpenTable(w)
  <2>1. EndOfTurn(w) /\ scheduler_ring' = scheduler_ring
    BY <1>6, Zenon DEF TableKnown, OpenTable
  <2>2. pc[w] = "table" /\ pc'[w] = "peek"
    BY <2>1, TurnEnds, Zenon DEF InLoop
  <2>3. TakenIn(w, k) = 2 * k /\ TakenIn(w, k)' = 2 * k - 1
    BY <2>2, Zenon DEF TakenIn
  <2>4. k \in 1..Len(scheduler_ring'[w]) /\ scheduler_ring'[w][k] = s[k]
    BY <1>1, <2>1, Zenon
  <2> QED
    BY <2>3, <2>4, Zenon
<1>7. CASE TakeNetworkFd(w)
  BY <1>7, Zenon DEF TakeNetworkFd, InLoop
<1> QED
  BY <1>4, <1>5, <1>6, <1>7, Zenon DEF WorkerStep

\* A step of another thread takes nothing away from a worker.
LEMMA OthersLeaveRounds ==
  ASSUME TypeOK, ChainInv, Next, NEW w \in Worker, ~WorkerStep(w)
  PROVE  NothingFallsBack(w)
<1>1. /\ i \in [Worker -> Table] /\ pc \in [Worker -> {"peek", "table", "fd", "serving"}]
      /\ scheduler_ring \in [Worker -> Seq(Table)] /\ scheduler_ring[w] \in Seq(Table)
      /\ desired_sstable_offset \in [Table -> {"new", "reading", "done"}]
      /\ First(w)..Second(w) \subseteq Table
  BY BatchOfWorker, Zenon DEF TypeOK
<1>2. ASSUME i'[w] = i[w], pc'[w] = pc[w], scheduler_ring'[w] = scheduler_ring[w],
             \A t \in First(w)..Second(w) :
               desired_sstable_offset[t] = "new" => desired_sstable_offset'[t] = "new"
      PROVE  NothingFallsBack(w)
  BY <1>2, Zenon DEF NothingFallsBack
<1>3. ASSUME NEW v \in Worker, WorkerStep(v) PROVE NothingFallsBack(w)
  <2>1. v # w
    BY <1>3, Zenon
  <2>2. CASE NoMessage(v) \/ TableKnown(v) \/ TakeNetworkFd(v)
    <3>1. i'[w] = i[w] /\ pc'[w] = pc[w]
      BY <1>1, <2>1, <2>2, Zenon DEF NoMessage, TableKnown, EndOfTurn, TakeNetworkFd
    <3>2. scheduler_ring' = scheduler_ring /\ desired_sstable_offset' = desired_sstable_offset
      BY <2>2, Zenon DEF NoMessage, TableKnown, TakeNetworkFd, tableVars
    <3> QED
      BY <1>2, <3>1, <3>2, Zenon
  <2>3. CASE OpenTable(v)
    <3>1. i'[w] = i[w] /\ pc'[w] = pc[w]
      BY <1>1, <2>1, <2>3, Zenon DEF OpenTable, EndOfTurn
    <3>2. /\ scheduler_ring' = scheduler_ring
          /\ desired_sstable_offset' = [desired_sstable_offset EXCEPT ![i[v]] = "reading"]
      BY <2>3, OpenEffect, Zenon
    <3>3. i[v] \in First(v)..Second(v)
      BY Zenon DEF TypeOK
    <3>4. ASSUME NEW t \in First(w)..Second(w) PROVE t # i[v]
      BY <2>1, <3>3, OwnerOfBatch, Zenon
    <3>5. ASSUME NEW t \in First(w)..Second(w)
          PROVE  desired_sstable_offset'[t] = desired_sstable_offset[t]
      BY <1>1, <3>2, <3>4, Zenon
    <3> QED
      BY <1>2, <3>1, <3>2, <3>5, Zenon
  <2>4. CASE \E u \in Table : Opened(v, u) \/ ReadDone(v, u)
    <3>1. PICK u \in Table : Opened(v, u) \/ ReadDone(v, u)
      BY <2>4, Zenon
    <3>2. /\ Message(v, u)
          /\ \/ desired_sstable_offset' = [desired_sstable_offset EXCEPT ![u] = "done"]
             \/ desired_sstable_offset' = [desired_sstable_offset EXCEPT ![u] = "reading"]
      BY <3>1, ReadEffect, Zenon
    <3>3. i'[w] = i[w] /\ pc'[w] = pc[w] /\ scheduler_ring'[w] = scheduler_ring[w]
      BY <1>1, <2>1, <3>2, Zenon DEF Message
    <3>4. io_ring[u] # <<>>
      BY <3>2, MessageEffect, Zenon
    <3>5. ASSUME NEW t \in First(w)..Second(w), desired_sstable_offset[t] = "new"
          PROVE  desired_sstable_offset'[t] = "new"
      <4>1. t \in Table /\ t # u
        BY <1>1, <3>4, <3>5, Zenon DEF ChainInv
      <4> QED
        BY <1>1, <3>2, <3>5, <4>1, Zenon
    <3> QED
      BY <1>2, <3>3, <3>5, Zenon
  <2> QED
    BY <1>3, <2>2, <2>3, <2>4, Zenon DEF WorkerStep
<1>4. CASE StartRingDB
  <2>1. UNCHANGED <<i, pc, scheduler_ring, desired_sstable_offset>>
    BY <1>4, Zenon DEF StartRingDB, tableVars
  <2> QED
    BY <1>2, <2>1, Zenon
<1>5. ASSUME NEW u \in Table, KernelDone(u) PROVE NothingFallsBack(w)
  <2>1. UNCHANGED <<i, pc, desired_sstable_offset>>
    BY <1>5, Zenon DEF KernelDone, tableVars
  <2>2. scheduler_ring'[w] \in {scheduler_ring[w], Append(scheduler_ring[w], u)}
    <3>1. PICK posts \in BOOLEAN :
            scheduler_ring' = [scheduler_ring EXCEPT ![Owner(u)] =
                                 IF posts THEN Append(scheduler_ring[Owner(u)], u)
                                 ELSE scheduler_ring[Owner(u)]]
      BY <1>5, Zenon DEF KernelDone, Posts
    <3> QED
      BY <1>1, <3>1, Zenon
  <2>3. CASE scheduler_ring'[w] = scheduler_ring[w]
    BY <1>2, <2>1, <2>3, Zenon
  <2>4. CASE scheduler_ring'[w] = Append(scheduler_ring[w], u)
    <3>1. PICK s \in Seq(Table) : s = scheduler_ring[w]
      BY <1>1, Zenon
    <3>2. \A k \in 1..Len(s) : k \in 1..Len(Append(s, u)) /\ Append(s, u)[k] = s[k]
      OBVIOUS
    <3> QED
      BY <2>1, <2>4, <3>1, <3>2, Zenon DEF NothingFallsBack
  <2> QED
    BY <2>2, <2>3, <2>4, Zenon
<1> QED
  BY <1>3, <1>4, <1>5, Zenon DEF Next

\* No worker passes by what it has to do: each of its steps brings it one nearer to every
\* file that it has not asked for, and while it is in its loop to every message in its ring,
\* however other workers and the kernel interleave with it (lsm_tree.hpp:497-643).
THEOREM RoundsReachEverything == Spec => [][RoundsGoOn]_vars
<1>1. ASSUME TypeOK, ChainInv, ServedInv, Next PROVE RoundsGoOn
  <2>1. ASSUME NEW w \in Worker, WorkerStep(w)
        PROVE  TablesComeUp(w) /\ (InLoop(pc[w]) /\ InLoop(pc'[w]) => MessagesComeUp(w))
    BY <1>1, <2>1, TablesUp, MessagesUp, Zenon
  <2>2. ASSUME NEW w \in Worker, ~WorkerStep(w) PROVE NothingFallsBack(w)
    BY <1>1, <2>2, OthersLeaveRounds, Zenon
  <2> QED
    BY <2>1, <2>2, Zenon DEF RoundsGoOn
<1>2. StartupInv => TypeOK /\ ChainInv /\ ServedInv
  BY Zenon DEF StartupInv
<1> QED
  BY <1>1, <1>2, StartupInvariant, PTL DEF Spec
==============================================================================
