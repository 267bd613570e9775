---------------------------- MODULE TreeReadProofs ----------------------------
(***************************************************************************)
(* Proofs about one sstable's reads and buffers, for any number of         *)
(* buffers, requests, batches and ring entries.                            *)
(***************************************************************************)
EXTENDS TreeRead, TLAPS

(***************************************************************************)
(* What the provers know of sequences, as facts to cite.                   *)
(***************************************************************************)
\* A sequence is a function on the numbers up to its length.
LEMMA LengthOf ==
  ASSUME NEW S, NEW s \in Seq(S)
  PROVE  /\ Len(s) \in Nat /\ DOMAIN s = 1..Len(s) /\ s \in [1..Len(s) -> S]
         /\ \A k \in 1..Len(s) : s[k] \in S
  OBVIOUS

\* One element more.
LEMMA Appended ==
  ASSUME NEW S, NEW s \in Seq(S), NEW e \in S
  PROVE  /\ Append(s, e) \in Seq(S) /\ Len(Append(s, e)) = Len(s) + 1
         /\ \A k \in 1..Len(s) : Append(s, e)[k] = s[k]
         /\ Append(s, e)[Len(s) + 1] = e
  OBVIOUS

\* Two sequences, one after the other.
LEMMA Concatenated ==
  ASSUME NEW S, NEW s \in Seq(S), NEW r \in Seq(S)
  PROVE  /\ s \o r \in Seq(S) /\ Len(s \o r) = Len(s) + Len(r)
         /\ \A k \in 1..(Len(s) + Len(r)) :
              (s \o r)[k] = IF k <= Len(s) THEN s[k] ELSE r[k - Len(s)]
  OBVIOUS

\* The first elements.
LEMMA CutTo ==
  ASSUME NEW S, NEW s \in Seq(S), NEW n \in Nat, n <= Len(s)
  PROVE  /\ SubSeq(s, 1, n) \in Seq(S) /\ Len(SubSeq(s, 1, n)) = n
         /\ \A k \in 1..n : SubSeq(s, 1, n)[k] = s[k]
  OBVIOUS

(***************************************************************************)
(* The ring of buffers.  The i-th buffer that comes is i or null, and goes *)
(* into cell i, until all cells are written.                               *)
(***************************************************************************)
RingInv ==
  /\ pushed \in Seq(Int)
  /\ queue_front \in Cell /\ back \in Cell /\ num_new_buffers \in Nat
  /\ DOMAIN queue = Cell
  /\ Len(pushed) < Length => back = Len(pushed)
  /\ \A i \in 1..Len(pushed) : pushed[i] \in {Null, i}

\* The ring has several cells.
LEMMA LengthPositive == Length \in Nat /\ Length > 5
<1>1. ASSUME NEW h \in Nat, NEW f \in Nat, h > 2, f > 1 PROVE h * f \in Nat /\ h * f > 5
  BY <1>1, Z3
<1> QED
  BY <1>1, BufferAssumption, Zenon DEF Length

\* What % does below and at the length of the ring.
LEMMA Modulus ==
  ASSUME NEW l \in Nat, l > 0, NEW n \in Nat
  PROVE  /\ n % l \in 0..(l - 1)
         /\ n < l => n % l = n
         /\ l % l = 0
  BY SMT

\* Hence what it does in the ring.
LEMMA InRing ==
  ASSUME NEW n \in Nat
  PROVE  /\ n % Length \in Cell
         /\ n < Length => n % Length = n
         /\ Length % Length = 0
<1>1. Length \in Nat /\ Length > 0
  BY LengthPositive
<1> QED
  BY <1>1, Modulus, Zenon DEF Cell

\* Taking n buffers moves the front inside the ring.
LEMMA PopStaysInRing ==
  ASSUME NEW n \in Nat, queue_front \in Cell, num_new_buffers \in Nat, pop_front(n)
  PROVE  queue_front' \in Cell /\ num_new_buffers' \in Nat
<1>1. queue_front' \in Cell
  <2>1. queue_front + n \in Nat
    BY DEF Cell
  <2> QED
    BY <2>1, InRing, Zenon DEF pop_front
<1>2. UINT \in Nat /\ UINT > 0
  BY LengthPositive, BufferAssumption
<1>3. ASSUME NEW k \in Int PROVE k % UINT \in Nat
  BY <1>2
<1> QED
  BY <1>1, <1>3 DEF pop_front

\* Every handler keeps the indices in the ring and the buffers in their cells.
LEMMA RingInvariant == Spec => []RingInv
<1>1. Init => RingInv
  <2> SUFFICES ASSUME Init PROVE RingInv
    BY Zenon
  <2>1. pushed = <<>> /\ queue_front = 0 /\ back = 0 /\ num_new_buffers = 0 /\ DOMAIN queue = Cell
    BY Zenon DEF Init, BuffersInit
  <2>2. 0 \in Cell /\ Len(<<>>) = 0 /\ <<>> \in Seq(Int)
    BY LengthPositive DEF Cell
  <2> QED
    BY <2>1, <2>2 DEF RingInv
<1>2. RingInv /\ [Next]_vars => RingInv'
  <2> SUFFICES ASSUME RingInv, [Next]_vars PROVE RingInv'
    BY Zenon
  <2> USE DEF RingInv
  <2>0. ASSUME UNCHANGED <<queue, queue_front, back, num_new_buffers, pushed>> PROVE RingInv'
    BY <2>0, Zenon
  <2>1. CASE ReceiveBuffer
    <3>1. PICK buffer \in {Null, Len(pushed) + 1} : Receive(buffer)
      BY <2>1, Zenon DEF ReceiveBuffer
    <3>2. push_back(buffer) /\ queue_front' = queue_front
      BY <3>1, Zenon DEF Receive
    <3>3. buffer \in Int
      BY DEF Null
    <3>4. pushed' \in Seq(Int) /\ Len(pushed') = Len(pushed) + 1 /\ Len(pushed) \in Nat
      BY <3>2, <3>3 DEF push_back
    <3>8. num_new_buffers' \in Nat
      BY <3>2, LengthPositive, BufferAssumption, Modulus DEF push_back
    <3>5. back' = NextCell /\ back' \in Cell
      <4>1. back + 1 \in Nat
        BY DEF Cell
      <4> QED
        BY <3>2, <4>1, InRing, Zenon DEF push_back, NextCell
    <3>6. queue' = [queue EXCEPT ![NextCell] = buffer] /\ DOMAIN queue' = Cell
      BY <3>2, Zenon DEF push_back
    <3>7. ASSUME Len(pushed') < Length PROVE back' = Len(pushed')
      <4>1. back = Len(pushed)
        BY <3>4, <3>7, LengthPositive
      <4>2. Len(pushed) + 1 \in Nat /\ Len(pushed) + 1 < Length
        BY <3>4, <3>7
      <4> QED
        BY <3>4, <3>5, <4>1, <4>2, InRing, Zenon DEF NextCell
    <3>9. ASSUME NEW i \in 1..Len(pushed') PROVE pushed'[i] \in {Null, i}
      <4>1. pushed' = Append(pushed, buffer)
        BY <3>2, Zenon DEF push_back
      <4>2. /\ \A k \in 1..Len(pushed) : pushed'[k] = pushed[k]
            /\ pushed'[Len(pushed) + 1] = buffer
        BY <3>3, <4>1, Appended
      <4>3. CASE i = Len(pushed) + 1
        BY <4>2, <4>3, Zenon
      <4>4. CASE i # Len(pushed) + 1
        <5>1. i \in 1..Len(pushed)
          BY <3>4, <4>4
        <5> QED
          BY <4>2, <5>1, Zenon
      <4> QED
        BY <4>3, <4>4, Zenon
    <3> QED
      BY <3>2, <3>4, <3>5, <3>6, <3>7, <3>8, <3>9, Zenon
  <2>2. ASSUME NEW present \in BOOLEAN, TakeBatch(present) PROVE RingInv'
    <3>1. CASE present /\ is_flushed_to
      <4>1. TryAddBuffers /\ UNCHANGED <<queue, back, pushed>>
        BY <2>2, <3>1, Zenon DEF TakeBatch, ring
      <4>2. CASE ~is_single_thread \/ NullAfter = {}
        BY <2>0, <4>1, <4>2, Zenon DEF TryAddBuffers, taking
      <4>3. CASE is_single_thread /\ NullAfter # {}
        <5>1. PICK n \in NullAfter : pop_front(n)
          BY <4>1, <4>3, Zenon DEF TryAddBuffers
        <5>2. n \in Nat
          BY LengthPositive DEF NullAfter
        <5>3. queue_front' \in Cell /\ num_new_buffers' \in Nat
          BY <5>1, <5>2, PopStaysInRing, Zenon
        <5> QED
          BY <4>1, <5>3, Zenon
      <4> QED
        BY <4>2, <4>3, Zenon
    <3>2. CASE ~(present /\ is_flushed_to)
      BY <2>0, <2>2, <3>2, Zenon DEF TakeBatch, taking, ring
    <3> QED
      BY <3>1, <3>2, Zenon
  <2>3. CASE Flush
    BY <2>0, <2>3, Zenon DEF Flush, taking, ring
  <2>4. CASE PassCompaction
    <3>1. PICK target_single \in BOOLEAN, needy \in BOOLEAN : Forward(target_single, needy)
      BY <2>4, Zenon DEF PassCompaction
    <3>2. pop_front(AtLeastOne(num_new_buffers)) /\ UNCHANGED <<queue, back, pushed>>
      BY <3>1, Zenon DEF Forward, ring
    <3>4. AtLeastOne(num_new_buffers) \in Nat
      BY Zenon DEF AtLeastOne
    <3> QED
      BY <3>2, <3>4, PopStaysInRing, Zenon
  <2>5. CASE IdleTurn
    <3>1. Idle
      BY <2>5, Zenon DEF IdleTurn
    <3>2. CASE WaitOnce \/ GiveOld
      BY <2>0, <3>2, Zenon DEF WaitOnce, GiveOld, ring, taking
    <3>3. CASE PassNew
      <4>1. pop_front(Fair(num_new_buffers)) /\ UNCHANGED <<queue, back, pushed>>
        BY <3>3, Zenon DEF PassNew, ring
      <4>2. Fair(num_new_buffers) \in Nat
        BY BufferAssumption, Zenon DEF Fair
      <4> QED
        BY <4>1, <4>2, PopStaysInRing, Zenon
    <3> QED
      BY <3>1, <3>2, <3>3, Zenon DEF Idle
  <2>6. CASE UnknownRow \/ EndRequest
    BY <2>0, <2>6, Zenon DEF UnknownRow, EndRequest, taking, ring
  <2>7. CASE ReadStorage
    BY <2>0, <2>7, Zenon DEF ReadStorage, taking, ring
  <2>8. CASE Completion
    BY <2>0, <2>8, Zenon DEF Completion, taking, ring
  <2>9. CASE Kernel \/ UNCHANGED vars
    BY <2>0, <2>9, Zenon DEF Kernel, KernelReads, KernelWrites, Post, vars, bufferVars, taking, ring
  <2> QED
    BY <2>1, <2>2, <2>3, <2>4, <2>5, <2>6, <2>7, <2>8, <2>9, Zenon DEF Next, Take, GoOn
<1> QED
  BY <1>1, <1>2, PTL DEF Spec

(***************************************************************************)
(* The order of the buffers.  Until Length buffers have come, the ring     *)
(* holds them in cells 1, 2, ... and nothing else but what was there       *)
(* before; until Length have been taken, the front is as far as there have *)
(* been pops.  Hence what the k-th pop returns is what the push before the *)
(* k-th put in, or was never put in.                                       *)
(***************************************************************************)
NeverPut == {Null, Garbage}

OneBehind ==
  Len(pushed) < Length =>
    \A k \in DOMAIN popped :
      \/ popped[k] \in NeverPut
      \/ k - 1 \in DOMAIN pushed /\ popped[k] = pushed[k - 1]
      \/ k > Length

InCell(c) == IF c \in 1..Len(pushed) THEN queue[c] = pushed[c] ELSE queue[c] \in NeverPut

BehindInv ==
  /\ popped \in Seq(Int) /\ queue \in [Cell -> Int]
  /\ Len(popped) < MaxPushes /\ Len(popped) < Length => queue_front = Len(popped)
  /\ Len(pushed) < Length => \A c \in Cell : InCell(c)
  /\ OneBehind

\* What n pops add to the buffers that are remembered.
LEMMA PopsAppend ==
  ASSUME queue_front \in Cell, popped \in Seq(Int), queue \in [Cell -> Int], NEW n \in Nat, pop_front(n)
  PROVE  /\ popped' \in Seq(Int) /\ Len(popped) \in Nat
         /\ Len(popped') = IF Len(popped) + n < MaxPushes THEN Len(popped) + n ELSE MaxPushes
         /\ \A k \in 1..Len(popped') :
              popped'[k] = IF k <= Len(popped) THEN popped[k] ELSE Popped(k - Len(popped))
<1> DEFINE new == [k \in 1..n |-> Popped(k)]
           all == popped \o new
           m == IF Len(all) < MaxPushes THEN Len(all) ELSE MaxPushes
<1>1. ASSUME NEW k \in 1..n PROVE Popped(k) \in Int
  <2>1. (queue_front + k - 1) \in Nat
    BY DEF Cell
  <2> QED
    BY <2>1, InRing, Zenon DEF Popped
<1>2. new \in Seq(Int) /\ Len(new) = n /\ \A k \in 1..n : new[k] = Popped(k)
  <2>1. new \in [1..n -> Int]
    BY <1>1, Zenon
  <2> QED
    BY <2>1
<1>3. popped' = SubSeq(all, 1, m)
  BY Zenon DEF pop_front, Remembered
<1> HIDE DEF new
<1>4. /\ all \in Seq(Int) /\ Len(all) = Len(popped) + n /\ Len(popped) \in Nat
      /\ \A k \in 1..(Len(popped) + n) :
           all[k] = IF k <= Len(popped) THEN popped[k] ELSE new[k - Len(popped)]
  BY Zenon, <1>2, Concatenated, LengthOf
<1> HIDE DEF all
<1>5. m \in Nat /\ m <= Len(all)
  <2>1. Len(all) \in Nat /\ MaxPushes \in Nat
    BY <1>4, LengthOf, BufferAssumption, Zenon
  <2> QED
    BY <2>1
<1>6. m = IF Len(popped) + n < MaxPushes THEN Len(popped) + n ELSE MaxPushes
  BY <1>4, Zenon
<1> HIDE DEF m
<1>7. popped' \in Seq(Int) /\ Len(popped') = m /\ \A k \in 1..m : popped'[k] = all[k]
  BY <1>3, <1>4, <1>5, CutTo, Zenon
<1>8. ASSUME NEW k \in 1..Len(popped')
      PROVE  popped'[k] = IF k <= Len(popped) THEN popped[k] ELSE Popped(k - Len(popped))
  <2>1. k \in 1..(Len(popped) + n) /\ popped'[k] = all[k]
    <3>1. /\ k \in 1..m /\ m \in Nat /\ m <= Len(all)
          /\ Len(all) = Len(popped) + n /\ Len(popped) \in Nat
      BY <1>4, <1>5, <1>7, Zenon
    <3>2. k \in 1..(Len(popped) + n)
      BY <3>1
    <3> QED
      BY <1>7, <3>1, <3>2, Zenon
  <2>2. ~(k <= Len(popped)) => k - Len(popped) \in 1..n
    BY <1>4, <2>1
  <2> QED
    BY <1>2, <1>4, <2>1, <2>2, Zenon
<1> QED
  BY <1>4, <1>6, <1>7, <1>8, Zenon

\* Pops keep the order.
LEMMA PopsInOrder ==
  ASSUME RingInv, BehindInv, NEW n \in Nat, pop_front(n), UNCHANGED <<queue, pushed>>
  PROVE  BehindInv'
<1> DEFINE l == Len(popped)
<1>1. /\ popped' \in Seq(Int) /\ l \in Nat
      /\ Len(popped') = IF l + n < MaxPushes THEN l + n ELSE MaxPushes
      /\ \A k \in 1..Len(popped') : popped'[k] = IF k <= l THEN popped[k] ELSE Popped(k - l)
  BY Zenon, PopsAppend DEF RingInv, BehindInv
<1>2. Length \in Nat /\ Length > 5 /\ MaxPushes \in Nat
  BY LengthPositive, BufferAssumption, Zenon
<1>3. ASSUME Len(popped') < MaxPushes, Len(popped') < Length PROVE queue_front' = Len(popped')
  <2>1. Len(popped') = l + n /\ l < MaxPushes /\ l < Length
    BY <1>1, <1>2, <1>3
  <2>2. queue_front = l
    BY <2>1, Zenon DEF BehindInv
  <2>3. queue_front' = (l + n) % Length
    BY <2>2, Zenon DEF pop_front
  <2>4. l + n \in Nat /\ l + n < Length
    BY <1>1, <1>3, <2>1
  <2>5. (l + n) % Length = l + n
    BY <2>4, InRing, Zenon
  <2> QED
    BY <2>1, <2>3, <2>5, Zenon
<1>4. ASSUME Len(pushed) < Length, NEW k \in 1..Len(popped')
      PROVE  popped'[k] \in NeverPut \/ (k - 1 \in 1..Len(pushed) /\ popped'[k] = pushed[k - 1]) \/ k > Length
  <2>1. CASE k <= l
    <3>1. k \in DOMAIN popped /\ popped'[k] = popped[k]
      <4>1. DOMAIN popped = 1..Len(popped)
        BY DEF BehindInv
      <4>2. k \in 1..Len(popped)
        BY <1>1, <2>1
      <4> QED
        BY <1>1, <2>1, <4>1, <4>2, Zenon
    <3>2. DOMAIN pushed = 1..Len(pushed)
      BY DEF RingInv
    <3> QED
      BY <1>4, <3>1, <3>2, Zenon DEF BehindInv, OneBehind
  <2>2. CASE k > l /\ k <= Length
    <3>n. /\ l \in Nat /\ Len(popped') <= MaxPushes /\ k \in Nat
          /\ k <= Len(popped') /\ Len(popped') \in Nat
      BY <1>1, <1>2
    <3>1. k \in Nat /\ l < MaxPushes /\ l < Length
      BY <3>n, <1>2, <2>2
    <3>2. queue_front = l
      BY <3>1, Zenon DEF BehindInv
    <3>3. queue_front + (k - l) - 1 = k - 1 /\ k - 1 \in Nat /\ k - 1 < Length
      BY <3>n, <1>2, <2>2, <3>1, <3>2
    <3>4. (queue_front + (k - l) - 1) % Length = k - 1
      BY <3>3, InRing, Zenon
    <3>5. popped'[k] = queue[k - 1]
      <4>1. ~(k <= l)
        BY <3>n, <2>2
      <4> QED
        BY <1>1, <3>4, <4>1, Zenon DEF Popped
    <3>6. k - 1 \in Cell
      BY <1>2, <3>3 DEF Cell
    <3> QED
      BY <1>4, <3>5, <3>6, Zenon DEF BehindInv, InCell
  <2> QED
    BY <1>1, <1>2, <2>1, <2>2
<1>5. OneBehind'
  <2>1. DOMAIN pushed = 1..Len(pushed) /\ DOMAIN popped' = 1..Len(popped')
    BY <1>1 DEF RingInv
  <2> QED
    BY <1>4, <2>1, Zenon DEF OneBehind
<1>6. Len(pushed) < Length => \A c \in Cell : InCell(c)'
  BY Zenon DEF BehindInv, InCell
<1> QED
  BY <1>1, <1>3, <1>5, <1>6, Zenon DEF BehindInv

\* A push keeps the order.
LEMMA PushInOrder ==
  ASSUME RingInv, BehindInv, NEW buffer \in Int, push_back(buffer), UNCHANGED <<queue_front, popped>>
  PROVE  BehindInv'
<1>1. pushed' = Append(pushed, buffer) /\ queue' = [queue EXCEPT ![NextCell] = buffer]
  BY Zenon DEF push_back
<1>2. /\ Len(pushed) \in Nat /\ Len(pushed') = Len(pushed) + 1 /\ DOMAIN pushed = 1..Len(pushed)
      /\ pushed' \in Seq(Int) /\ DOMAIN pushed' = 1..Len(pushed')
      /\ \A k \in 1..Len(pushed) : pushed'[k] = pushed[k]
      /\ pushed'[Len(pushed) + 1] = buffer
  BY <1>1, Appended, LengthOf DEF RingInv
<1>3. Length \in Nat /\ Length > 5
  BY LengthPositive, Zenon
<1>4. queue' \in [Cell -> Int]
  BY Zenon, <1>1 DEF BehindInv
<1>5. ASSUME Len(pushed') < Length, NEW c \in Cell
      PROVE  InCell(c)'
  <2>1. Len(pushed) < Length /\ Len(pushed) + 1 < Length
    BY <1>2, <1>3, <1>5
  <2>2. NextCell = Len(pushed) + 1
    <3>1. (Len(pushed) + 1) % Length = Len(pushed) + 1
      <4>1. Len(pushed) + 1 \in Nat
        BY <1>2
      <4> QED
        BY <2>1, <4>1, InRing, Zenon
    <3>2. back = Len(pushed)
      BY <2>1, Zenon DEF RingInv
    <3> QED
      BY <3>1, <3>2, Zenon DEF NextCell
  <2>3. InCell(c)
    BY <2>1, Zenon DEF BehindInv
  <2>4. CASE c = Len(pushed) + 1
    <3>1. queue'[c] = buffer
      BY <1>1, <2>2, <2>4, Zenon DEF BehindInv
    <3>2. c \in 1..Len(pushed')
      BY <1>2, <2>4
    <3> QED
      BY <1>2, <2>4, <3>1, <3>2, Zenon DEF InCell
  <2>5. CASE c # Len(pushed) + 1
    <3>1. queue'[c] = queue[c]
      BY <1>1, <2>2, <2>5, Zenon DEF BehindInv
    <3>2. c \in 1..Len(pushed') <=> c \in 1..Len(pushed)
      BY <1>2, <2>5 DEF Cell
    <3> QED
      BY <1>2, <2>3, <3>1, <3>2, Zenon DEF InCell
  <2> QED
    BY <2>4, <2>5, Zenon
<1>6. OneBehind'
  <2>1. ASSUME Len(pushed') < Length, NEW k \in DOMAIN popped
        PROVE  popped[k] \in NeverPut \/ (k - 1 \in DOMAIN pushed' /\ popped[k] = pushed'[k - 1]) \/ k > Length
    <3>1. Len(pushed) < Length
      BY <1>2, <1>3, <2>1
    <3>2. popped[k] \in NeverPut \/ (k - 1 \in DOMAIN pushed /\ popped[k] = pushed[k - 1]) \/ k > Length
      BY <2>1, <3>1, Zenon DEF BehindInv, OneBehind
    <3>3. k - 1 \in DOMAIN pushed => k - 1 \in DOMAIN pushed' /\ pushed'[k - 1] = pushed[k - 1]
      BY <1>2
    <3> QED
      BY <3>2, <3>3, Zenon
  <2> QED
    BY <2>1, Zenon DEF OneBehind
<1> QED
  BY <1>4, <1>5, <1>6, Zenon DEF BehindInv

\* Buffers come out of the ring in the order in which they went in and none comes out twice,
\* while fewer have come than the ring has cells (buffer_queue.hpp:34-47): for every length of
\* the ring, whatever was in its memory, and for every sequence of receiving, passing on,
\* adding and forwarding.
THEOREM OutInOrder == Spec => []BuffersInOrder
<1>1. Init => BehindInv
  <2> SUFFICES ASSUME Init PROVE BehindInv
    BY Zenon
  <2>1. pushed = <<>> /\ popped = <<>> /\ queue_front = 0 /\ queue \in [Cell -> NeverPut]
    BY Zenon DEF Init, BuffersInit, NeverPut
  <2>2. Len(pushed) = 0 /\ Len(popped) = 0 /\ popped \in Seq(Int) /\ DOMAIN popped = {} /\ 1..0 = {}
    BY <2>1
  <2>3. NeverPut \subseteq Int
    BY BufferAssumption DEF NeverPut, Null, Garbage
  <2>4. queue \in [Cell -> Int]
    BY <2>1, <2>3, Zenon
  <2> QED
    BY <2>1, <2>2, <2>4, Zenon DEF BehindInv, OneBehind, InCell
<1>2. RingInv /\ BehindInv /\ [Next]_vars => BehindInv'
  <2> SUFFICES ASSUME RingInv, BehindInv, [Next]_vars PROVE BehindInv'
    BY Zenon
  <2>0. ASSUME UNCHANGED <<queue, queue_front, pushed, popped>> PROVE BehindInv'
    BY <2>0, Zenon DEF BehindInv, OneBehind, InCell
  <2>1. CASE ReceiveBuffer
    <3>1. PICK buffer \in {Null, Len(pushed) + 1} : Receive(buffer)
      BY <2>1, Zenon DEF ReceiveBuffer
    <3>2. push_back(buffer) /\ UNCHANGED <<queue_front, popped>>
      BY <3>1, Zenon DEF Receive
    <3>3. buffer \in Int
      BY DEF Null, RingInv
    <3> QED
      BY <3>2, <3>3, PushInOrder, Zenon
  <2>2. ASSUME NEW present \in BOOLEAN, TakeBatch(present) PROVE BehindInv'
    <3>1. CASE present /\ is_flushed_to
      <4>1. TryAddBuffers /\ UNCHANGED <<queue, pushed>>
        BY <2>2, <3>1, Zenon DEF TakeBatch, ring
      <4>2. CASE ~is_single_thread \/ NullAfter = {}
        BY <2>0, <4>1, <4>2, Zenon DEF TryAddBuffers, taking
      <4>3. CASE is_single_thread /\ NullAfter # {}
        <5>1. PICK n \in NullAfter : pop_front(n)
          BY <4>1, <4>3, Zenon DEF TryAddBuffers
        <5>2. n \in Nat
          BY LengthPositive DEF NullAfter
        <5> QED
          BY <4>1, <5>1, <5>2, PopsInOrder, Zenon
      <4> QED
        BY <4>2, <4>3, Zenon
    <3>2. CASE ~(present /\ is_flushed_to)
      BY <2>0, <2>2, <3>2, Zenon DEF TakeBatch, taking, ring
    <3> QED
      BY <3>1, <3>2, Zenon
  <2>3. CASE Flush
    BY <2>0, <2>3, Zenon DEF Flush, taking, ring
  <2>4. CASE PassCompaction
    <3>1. pop_front(AtLeastOne(num_new_buffers)) /\ UNCHANGED <<queue, pushed>>
      BY <2>4, Zenon DEF PassCompaction, Forward, ring
    <3>2. AtLeastOne(num_new_buffers) \in Nat
      BY Zenon DEF AtLeastOne, RingInv
    <3> QED
      BY <3>1, <3>2, PopsInOrder, Zenon
  <2>5. CASE IdleTurn
    <3>1. CASE WaitOnce \/ GiveOld
      BY <2>0, <3>1, Zenon DEF WaitOnce, GiveOld, ring, taking
    <3>2. CASE PassNew
      <4>1. pop_front(Fair(num_new_buffers)) /\ UNCHANGED <<queue, pushed>>
        BY <3>2, Zenon DEF PassNew, ring
      <4>2. Fair(num_new_buffers) \in Nat
        BY BufferAssumption, Zenon DEF Fair, RingInv
      <4> QED
        BY <4>1, <4>2, PopsInOrder, Zenon
    <3> QED
      BY <2>5, <3>1, <3>2, Zenon DEF IdleTurn, Idle
  <2>6. CASE UnknownRow \/ EndRequest
    BY <2>0, <2>6, Zenon DEF UnknownRow, EndRequest, taking, ring
  <2>7. CASE ReadStorage
    BY <2>0, <2>7, Zenon DEF ReadStorage, taking, ring
  <2>8. CASE Completion
    BY <2>0, <2>8, Zenon DEF Completion, taking, ring
  <2>9. CASE Kernel \/ UNCHANGED vars
    BY <2>0, <2>9, Zenon DEF Kernel, KernelReads, KernelWrites, Post, vars, bufferVars, taking, ring
  <2> QED
    BY <2>1, <2>2, <2>3, <2>4, <2>5, <2>6, <2>7, <2>8, <2>9, Zenon DEF Next, Take, GoOn
<1>3. RingInv /\ BehindInv => BuffersInOrder
  <2> SUFFICES ASSUME RingInv, BehindInv, Len(pushed) < Length,
                      NEW j \in DOMAIN popped, NEW k \in DOMAIN popped,
                      j < k, k <= Length, popped[j] > 0, popped[k] > 0
               PROVE  popped[j] < popped[k]
    BY Zenon DEF BuffersInOrder
  <2>1. j \in Int /\ k \in Int /\ Length \in Int /\ DOMAIN pushed = 1..Len(pushed)
    BY LengthPositive DEF BehindInv, RingInv
  <2>2. ~(k > Length) /\ ~(j > Length)
    BY <2>1
  <2>3. ASSUME NEW x \in NeverPut PROVE ~(x > 0)
    BY BufferAssumption DEF NeverPut, Null, Garbage
  <2>4. ASSUME NEW i \in DOMAIN popped, ~(i > Length), popped[i] > 0 PROVE popped[i] = i - 1
    <3>1. i - 1 \in DOMAIN pushed /\ popped[i] = pushed[i - 1]
      BY <2>3, <2>4, Zenon DEF BehindInv, OneBehind
    <3>2. popped[i] \in {Null, i - 1}
      BY <2>1, <3>1, Zenon DEF RingInv
    <3> QED
      BY <2>3, <2>4, <3>2, Zenon DEF NeverPut
  <2>5. popped[j] = j - 1 /\ popped[k] = k - 1
    BY <2>2, <2>4, Zenon
  <2> QED
    BY <2>1, <2>5
<1> QED
  BY <1>1, <1>2, <1>3, RingInvariant, PTL DEF Spec

(***************************************************************************)
(* The chains and the stack.  A row is on the stack from the moment a      *)
(* batch is taken until its traversal ends; a flush has none.  That is     *)
(* what tells, when a message comes, that there is a traversal to go on    *)
(* with.                                                                   *)
(***************************************************************************)
Chains == reading + writing + messages

StackInv ==
  /\ stack = [back |-> stack.back, data |-> stack.data]
  /\ DOMAIN stack.data = 0..(max_sstable_height - 1)
  /\ stack.back \in {0, 1}
  /\ \A r \in 1..(max_sstable_height - 1) : stack.data[r] \in {ZeroRow, Unknown}

ServeInv ==
  /\ reading \in Nat /\ writing \in Nat /\ messages \in Nat
  /\ Chains <= 1
  /\ Chains = 1 => waiting_on_io
  /\ pc = "tree" => Chains = 0 /\ stack.back = 1
  /\ pc = "turn" /\ ~waiting_on_io => stack.back = 0
  /\ reading = 1 => stack.back = 1
  /\ writing = 1 => stack.back = 0
  /\ messages = 1 /\ res # "silent" => stack.back = 1
  /\ Stuck /\ ~fault => broken \/ res = "silent"

Inv == StackInv /\ ServeInv

\* A push onto the empty stack writes row 0 only.
LEMMA PushKeeps ==
  ASSUME StackInv, stack.back = 0, NEW row, stack' = push_top(stack, row)
  PROVE  StackInv' /\ stack'.back = 1
<1>1. stack' = [back |-> 1, data |-> [stack.data EXCEPT ![0] = row]]
  <2>1. 0 + 1 = 1
    OBVIOUS
  <2> QED
    BY <2>1, Zenon DEF push_top
<1>2. stack'.back = 1 /\ stack'.data = [stack.data EXCEPT ![0] = row]
  BY <1>1
<1> QED
  BY <1>1, <1>2 DEF StackInv

\* The row on top of a stack with one row is zero, unless it is unknown.
LEMMA TopIsZero ==
  ASSUME StackInv, stack.back = 1, top(stack) # Unknown
  PROVE  top(stack) = ZeroRow
<1>1. 1 \in 1..(max_sstable_height - 1)
  BY BufferAssumption
<1> QED
  BY <1>1, Zenon DEF StackInv, top

\* It has no children.
LEMMA NoChildren ==
  ASSUME StackInv, stack.back = 1, top(stack) # Unknown
  PROVE  Children = [back |-> 0, data |-> stack.data]
<1>1. top(stack) = ZeroRow
  BY TopIsZero, Zenon
<1>2. /\ top(stack)[1] = 0 /\ top(stack)[2] = 0 /\ top(stack)[3] = 0
      /\ (0 + 0) \div 2 = 0
  BY <1>1 DEF ZeroRow
<1>3. pop_top(stack) = [back |-> 0, data |-> stack.data]
  BY DEF StackInv, pop_top
<1> QED
  BY <1>2, <1>3 DEF Children

\* The end of a traversal empties the stack.
LEMMA EndEmpties ==
  ASSUME StackInv, stack.back = 1, top(stack) # Unknown, stack' = Children
  PROVE  StackInv' /\ stack'.back = 0 /\ empty(stack')
<1>1. stack' = [back |-> 0, data |-> stack.data]
  BY NoChildren, Zenon
<1>2. stack'.back = 0 /\ stack'.data = stack.data
  BY <1>1
<1> QED
  BY <1>1, <1>2, Zenon DEF StackInv, empty

\* The kernel sends the message of a chain or marks it as broken.
LEMMA PostSends ==
  ASSUME NEW kept \in BOOLEAN, messages = 0, Post(kept)
  PROVE  (kept /\ messages' = 1) \/ (~kept /\ messages' = 0 /\ broken')
<1>1. CASE kept
  BY <1>1 DEF Post
<1>2. CASE ~kept
  <2>1. messages' = 0
    BY <1>2, Zenon DEF Post
  <2>2. broken' = (broken \/ ~kept)
    BY Zenon DEF Post
  <2> QED
    BY Zenon, <1>2, <2>1, <2>2
<1> QED
  BY <1>1, <1>2, Zenon

\* A new stack is empty.
LEMMA NewStackEmpty ==
  ASSUME NEW new \in NewStacks(max_sstable_height)
  PROVE  /\ new.back = 0 /\ new = [back |-> new.back, data |-> new.data]
         /\ new.data \in [0..(max_sstable_height - 1) -> {ZeroRow, Unknown}]
<1>1. PICK rows \in [0..(max_sstable_height - 1) -> {ZeroRow, Unknown}] :
        new = [back |-> 0, data |-> rows]
  BY Zenon DEF NewStacks
<1>2. new.back = 0 /\ new.data = rows
  BY <1>1
<1> QED
  BY <1>1, <1>2, Zenon

\* The invariant holds at first.
LEMMA InvInit == Init => Inv
<1> SUFFICES ASSUME Init PROVE Inv
  BY Zenon
<1>1. /\ stack.back = 0 /\ stack = [back |-> stack.back, data |-> stack.data]
      /\ stack.data \in [0..(max_sstable_height - 1) -> {ZeroRow, Unknown}]
  BY NewStackEmpty, Zenon DEF Init
<1>2. StackInv
  <2>1. \A r \in 1..(max_sstable_height - 1) : r \in 0..(max_sstable_height - 1)
    BY BufferAssumption
  <2> QED
    BY <1>1, <2>1, Zenon DEF StackInv
<1>3. ServeInv
  BY <1>1 DEF Init, ServeInv, Chains, Stuck
<1> QED
  BY <1>2, <1>3, Zenon DEF Inv

\* Every step keeps it.
LEMMA InvNext == Inv /\ [Next]_vars => Inv'
<1> SUFFICES ASSUME Inv, [Next]_vars PROVE Inv'
  BY Zenon
<1>0. ASSUME UNCHANGED readVars, fault' = fault \/ fault' PROVE Inv'
  BY <1>0, Zenon DEF Inv, StackInv, ServeInv, Chains, Stuck, readVars, walk, chains, posted, serveVars
<1>1. CASE ReceiveBuffer
  BY <1>0, <1>1, Zenon DEF ReceiveBuffer, Receive
<1>2. ASSUME NEW present \in BOOLEAN, TakeBatch(present) PROVE Inv'
  <2>1. stack.back = 0 /\ ~waiting_on_io /\ pc = "turn"
    BY <1>2, Zenon DEF TakeBatch, MayTake, Inv, ServeInv
  <2>2. UNCHANGED <<reading, writing, messages, res, broken, waiting_on_io>>
    BY <1>2, Zenon DEF TakeBatch, chains, posted
  <2>3. CASE present /\ is_flushed_to
    <3>1. stack' = push_top(stack, <<0, BatchLength \div 2, 0, BatchLength>>) /\ pc' = "tree"
      BY <1>2, <2>3, Zenon DEF TakeBatch
    <3>2. StackInv' /\ stack'.back = 1
      BY <3>1, <2>1, PushKeeps, Zenon DEF Inv
    <3> QED
      BY <2>1, <2>2, <3>1, <3>2 DEF Inv, ServeInv, Chains, Stuck
  <2>4. CASE ~(present /\ is_flushed_to)
    <3>1. UNCHANGED <<stack, pc>>
      BY <1>2, <2>4, Zenon DEF TakeBatch, walk
    <3> QED
      BY <2>1, <2>2, <3>1, Zenon DEF Inv, StackInv, ServeInv, Chains, Stuck
  <2> QED
    BY <2>3, <2>4, Zenon
<1>3. CASE Flush
  <2>1. stack.back = 0 /\ ~waiting_on_io /\ pc = "turn" /\ Chains = 0
    BY <1>3 DEF Flush, MayTake, Inv, ServeInv, Chains
  <2>2. UNCHANGED <<stack, reading, messages, res, broken, pc>>
    BY <1>3, Zenon DEF Flush, walk, posted
  <2>3. CASE RoomFor(2)
    <3>1. writing' = writing + 1 /\ waiting_on_io' = TRUE
      BY <1>3, <2>3, Zenon DEF Flush, SubmitChain
    <3> QED
      BY <2>1, <2>2, <3>1 DEF Inv, StackInv, ServeInv, Chains, Stuck
  <2>4. CASE ~RoomFor(2)
    <3>1. UNCHANGED <<writing, waiting_on_io>>
      BY <1>3, <2>4, Zenon DEF Flush
    <3> QED
      BY <2>1, <2>2, <3>1, Zenon DEF Inv, StackInv, ServeInv, Chains, Stuck
  <2> QED
    BY <2>3, <2>4, Zenon
<1>4. CASE PassCompaction
  <2>1. UNCHANGED readVars /\ ~waiting_on_io
    BY <1>4, Zenon DEF PassCompaction, MayTake
  <2> QED
    BY <2>1, Zenon DEF Inv, StackInv, ServeInv, Chains, Stuck, readVars, walk, chains, posted, serveVars
<1>5. CASE IdleTurn
  <2>1. UNCHANGED readVars /\ ~waiting_on_io
    BY <1>5, Zenon DEF IdleTurn, MayTake
  <2> QED
    BY <2>1, Zenon DEF Inv, StackInv, ServeInv, Chains, Stuck, readVars, walk, chains, posted, serveVars
<1>11. CASE UnknownRow
  BY <1>0, <1>11, Zenon DEF UnknownRow
<1>6. CASE EndRequest
  <2>1. pc = "tree" /\ top(stack) # Unknown /\ stack' = Children /\ UNCHANGED <<reading, writing, messages, res, broken>>
    BY <1>6, Zenon DEF EndRequest, chains, posted
  <2>2. stack.back = 1 /\ Chains = 0
    BY <2>1, Zenon DEF Inv, ServeInv
  <2>3. StackInv' /\ stack'.back = 0 /\ empty(stack')
    BY <2>1, <2>2, EndEmpties, Zenon DEF Inv
  <2>4. pc' = "turn" /\ waiting_on_io' = FALSE
    BY <1>6, <2>3, Zenon DEF EndRequest
  <2> QED
    BY <2>1, <2>2, <2>3, <2>4 DEF Inv, ServeInv, Chains, Stuck
<1>7. CASE ReadStorage
  <2>1. pc = "tree" /\ UNCHANGED <<stack, writing, messages, res, broken>>
    BY <1>7, Zenon DEF ReadStorage, posted
  <2>2. stack.back = 1 /\ Chains = 0
    BY <2>1, Zenon DEF Inv, ServeInv
  <2>3. CASE RoomFor(2)
    <3>1. reading' = reading + 1 /\ waiting_on_io' = TRUE /\ pc' = "turn"
      BY <1>7, <2>3, Zenon DEF ReadStorage, SubmitChain
    <3> QED
      BY <2>1, <2>2, <3>1 DEF Inv, StackInv, ServeInv, Chains, Stuck
  <2>4. CASE ~RoomFor(2)
    <3>1. UNCHANGED <<reading, waiting_on_io, pc>>
      BY <1>7, <2>4, Zenon DEF ReadStorage
    <3> QED
      BY <2>1, <2>2, <3>1, Zenon DEF Inv, StackInv, ServeInv, Chains, Stuck
  <2> QED
    BY <2>3, <2>4, Zenon
<1>8. CASE Completion
  <2>1. /\ pc = "turn" /\ messages = 1 /\ messages' = 0 /\ Chains = 1 /\ waiting_on_io
        /\ UNCHANGED <<stack, reading, writing, res, broken, waiting_on_io>>
    BY <1>8 DEF Completion, Inv, ServeInv, Chains, walk, chains
  <2>2. CASE ~fault' /\ res # "silent"
    <3>1. pc' = "tree" /\ stack.back = 1
      BY <1>8, <2>1, <2>2, Zenon DEF Completion, Inv, ServeInv
    <3> QED
      BY <2>1, <3>1 DEF Inv, StackInv, ServeInv, Chains, Stuck
  <2>3. CASE fault' \/ res = "silent"
    <3>1. pc' = pc
      BY <1>8, <2>3, Zenon DEF Completion
    <3> QED
      BY <2>1, <2>3, <3>1 DEF Inv, StackInv, ServeInv, Chains, Stuck
  <2> QED
    BY <2>2, <2>3, Zenon
<1>9. CASE Kernel
  <2>1. UNCHANGED <<stack, pc, waiting_on_io, fault>>
    BY <1>9, Zenon DEF Kernel, KernelReads, KernelWrites, Post, walk, serveVars, bufferVars
  <2>2. CASE KernelReads
    <3>1. /\ reading = 1 /\ reading' = 0 /\ writing = 0 /\ writing' = 0 /\ messages = 0
          /\ res' # "silent" /\ stack.back = 1 /\ waiting_on_io
      BY <2>2 DEF KernelReads, Inv, ServeInv, Chains
    <3>2. messages' = 1 \/ (messages' = 0 /\ broken')
      BY Zenon, <2>2, <3>1, PostSends DEF KernelReads
    <3>3. pc # "tree"
      BY <3>1 DEF Inv, ServeInv, Chains
    <3> QED
      BY <2>1, <3>1, <3>2, <3>3 DEF Inv, StackInv, ServeInv, Chains, Stuck
  <2>3. CASE KernelWrites
    <3>1. /\ writing = 1 /\ writing' = 0 /\ reading = 0 /\ reading' = 0 /\ messages = 0
          /\ stack.back = 0 /\ waiting_on_io
      BY <2>3 DEF KernelWrites, Inv, ServeInv, Chains
    <3>2. (messages' = 1 /\ res' = "silent") \/ (messages' = 0 /\ broken')
      BY Zenon, <2>3, <3>1, PostSends DEF KernelWrites
    <3>3. pc # "tree"
      BY <3>1 DEF Inv, ServeInv, Chains
    <3> QED
      BY <2>1, <3>1, <3>2, <3>3 DEF Inv, StackInv, ServeInv, Chains, Stuck
  <2> QED
    BY <1>9, <2>2, <2>3, Zenon DEF Kernel
<1>10. CASE UNCHANGED vars
  BY <1>0, <1>10, Zenon DEF vars, bufferVars
<1> QED
  BY <1>1, <1>2, <1>3, <1>4, <1>5, <1>6, <1>7, <1>8, <1>9, <1>10, <1>11, Zenon DEF Next, Take, GoOn

\* An sstable has at most one chain of its own under way, waits while it has one, and is left
\* waiting without one only by a broken chain or after a flush.
THEOREM OneChainAtATime == Spec => []OneChain
<1>1. Inv => OneChain
  BY Zenon DEF Inv, ServeInv, Chains, OneChain
<1> QED
  BY <1>1, InvInit, InvNext, PTL DEF Spec

(***************************************************************************)
(* The answers of the last level: the batches sent and those prepared      *)
(* continue each other, and only the batch on the stack is missing.        *)
(***************************************************************************)
InOrder ==
  /\ Len(replied) + Len(sq) = taken - stack.back
  /\ \A i \in 1..Len(replied) : replied[i] = i
  /\ \A i \in 1..Len(sq) : sq[i] = Len(replied) + i

AnswerInv ==
  /\ replied \in Seq(Nat) /\ sq \in Seq(Nat) /\ taken \in Nat
  /\ level = "last" /\ ~fault => InOrder

\* Numbers that continue one another.
LEMMA ConcatNext ==
  ASSUME NEW q \in Seq(Nat), NEW s \in Seq(Nat),
         \A i \in 1..Len(q) : q[i] = i, \A i \in 1..Len(s) : s[i] = Len(q) + i
  PROVE  /\ q \o s \in Seq(Nat) /\ Len(q \o s) = Len(q) + Len(s)
         /\ DOMAIN (q \o s) = 1..(Len(q) + Len(s))
         /\ \A i \in 1..(Len(q) + Len(s)) : (q \o s)[i] = i
<1>1. q \o s \in Seq(Nat) /\ Len(q \o s) = Len(q) + Len(s) /\ Len(q) \in Nat /\ Len(s) \in Nat
  OBVIOUS
<1>2. DOMAIN (q \o s) = 1..(Len(q) + Len(s))
  BY <1>1
<1>3. ASSUME NEW i \in 1..Len(q) PROVE (q \o s)[i] = i
  OBVIOUS
<1>4. ASSUME NEW i \in (Len(q) + 1)..(Len(q) + Len(s)) PROVE (q \o s)[i] = i
  <2>1. i - Len(q) \in 1..Len(s)
    BY <1>1
  <2>2. (q \o s)[i] = s[i - Len(q)]
    BY <1>1
  <2>3. s[i - Len(q)] = Len(q) + (i - Len(q))
    BY Zenon, <2>1
  <2> QED
    BY <1>1, <2>2, <2>3
<1>5. ASSUME NEW i \in 1..(Len(q) + Len(s))
      PROVE  i \in 1..Len(q) \/ i \in (Len(q) + 1)..(Len(q) + Len(s))
  BY <1>1
<1> QED
  BY <1>1, <1>2, <1>3, <1>4, <1>5, Zenon

\* A prepared answer is the next one.
LEMMA EndBatchKeeps ==
  ASSUME AnswerInv, stack.back \in {0, 1}, stack'.back = 0, level' = level, replied' = replied, ~fault,
         taken' \in Nat, taken' = taken - stack.back + 1, EndBatch
  PROVE  AnswerInv'
<1>1. CASE level = "last" /\ RoomFor(1)
  <2>1. sq' = Append(sq, taken') /\ InOrder
    BY <1>1, Zenon DEF EndBatch, AnswerInv
  <2>2. Len(replied) \in Nat /\ Len(sq) \in Nat /\ sq \in Seq(Nat) /\ taken \in Nat
    BY DEF AnswerInv
  <2>3. taken' = Len(replied) + Len(sq) + 1
    BY <2>1, <2>2, Zenon DEF InOrder
  <2>4. \A i \in 1..Len(sq) : sq[i] = Len(replied) + i
    BY <2>1, Zenon DEF InOrder
  <2>5. /\ sq' \in Seq(Nat) /\ Len(sq') = Len(sq) + 1
        /\ \A i \in 1..Len(sq') : sq'[i] = Len(replied') + i
    <3> DEFINE r == Len(replied)
               n == taken'
    <3>1. r \in Nat /\ n \in Nat /\ n = r + Len(sq) + 1 /\ sq' = Append(sq, n) /\ Len(replied') = r
      BY <2>1, <2>2, <2>3, Zenon
    <3>2. \A i \in 1..Len(sq) : sq[i] = r + i
      BY <2>4, Zenon
    <3> HIDE DEF r, n
    <3>3. /\ Append(sq, n) \in Seq(Nat) /\ Len(Append(sq, n)) = Len(sq) + 1
          /\ \A i \in 1..Len(sq) : Append(sq, n)[i] = sq[i]
          /\ Append(sq, n)[Len(sq) + 1] = n
      BY <2>2, <3>1
    <3>4. ASSUME NEW i \in 1..(Len(sq) + 1) PROVE Append(sq, n)[i] = r + i
      <4>1. CASE i \in 1..Len(sq)
        BY <3>2, <3>3, <4>1, Zenon
      <4>2. CASE i = Len(sq) + 1
        BY <2>2, <3>1, <3>3, <4>2
      <4> QED
        BY <2>2, <4>1, <4>2
    <3> QED
      BY <3>1, <3>3, <3>4, Zenon
  <2>6. Len(replied') + Len(sq') = taken' - stack'.back
    BY <2>2, <2>3, <2>5
  <2>7. InOrder'
    BY <2>1, <2>5, <2>6, Zenon DEF InOrder
  <2> QED
    BY <2>5, <2>7, Zenon DEF AnswerInv
<1>2. CASE ~(level = "last" /\ RoomFor(1))
  BY <1>2, Zenon DEF EndBatch, AnswerInv
<1> QED
  BY <1>1, <1>2, Zenon

\* Submitting sends the prepared answers behind those sent before.
LEMMA SubmitKeeps ==
  ASSUME AnswerInv, UNCHANGED <<stack, level, taken>>, ~fault, SubmitChain
  PROVE  AnswerInv'
<1>1. replied' = replied \o sq /\ sq' = <<>>
  BY Zenon DEF SubmitChain
<1>2. replied' \in Seq(Nat) /\ sq' \in Seq(Nat) /\ Len(sq') = 0
  BY <1>1 DEF AnswerInv
<1>3. ASSUME InOrder PROVE InOrder'
  <2>1. /\ replied \in Seq(Nat) /\ sq \in Seq(Nat)
        /\ \A i \in 1..Len(replied) : replied[i] = i
        /\ \A i \in 1..Len(sq) : sq[i] = Len(replied) + i
    BY <1>3, Zenon DEF AnswerInv, InOrder
  <2>2. /\ Len(replied') = Len(replied) + Len(sq)
        /\ \A i \in 1..Len(replied') : replied'[i] = i
    BY <1>1, <2>1, ConcatNext, Zenon
  <2>3. Len(replied) + Len(sq) = taken - stack.back /\ Len(replied) \in Nat /\ Len(sq) \in Nat
    BY <1>3, <2>1 DEF InOrder
  <2>4. Len(replied') + Len(sq') = taken' - stack'.back
    BY <1>2, <2>2, <2>3
  <2>5. \A i \in 1..Len(sq') : sq'[i] = Len(replied') + i
    BY <1>2
  <2> QED
    BY <2>2, <2>4, <2>5, Zenon DEF InOrder
<1> QED
  BY <1>2, <1>3, Zenon DEF AnswerInv

\* A step that prepares and sends nothing.
LEMMA AnswersUntouched ==
  ASSUME AnswerInv, UNCHANGED <<stack, level, taken, replied, sq>>, ~fault \/ fault'
  PROVE  AnswerInv'
  BY Zenon DEF AnswerInv, InOrder

\* Every step keeps the answers in order.
LEMMA AnswerInvariant == Spec => [](Inv /\ AnswerInv)
<1>1. Init => AnswerInv
  <2> SUFFICES ASSUME Init PROVE AnswerInv
    BY Zenon
  <2>1. stack.back = 0 /\ replied = <<>> /\ sq = <<>> /\ taken = 0
    BY NewStackEmpty, Zenon DEF Init
  <2> QED
    BY <2>1 DEF AnswerInv, InOrder
<1>2. Inv /\ AnswerInv /\ [Next]_vars => AnswerInv'
  <2> SUFFICES ASSUME Inv, AnswerInv, [Next]_vars PROVE AnswerInv'
    BY Zenon
  <2>1. CASE ReceiveBuffer
    BY <2>1, AnswersUntouched, Zenon DEF ReceiveBuffer, Receive, Live, config, readVars, walk, answers
  <2>2. ASSUME NEW present \in BOOLEAN, TakeBatch(present) PROVE AnswerInv'
    <3>1. /\ stack.back = 0 /\ ~fault /\ level' = level /\ replied' = replied
          /\ taken' = taken + 1 /\ taken' \in Nat
      BY <2>2 DEF TakeBatch, MayTake, Live, config, Inv, ServeInv, AnswerInv
    <3>2. CASE present /\ is_flushed_to
      <4>1. /\ stack' = push_top(stack, <<0, BatchLength \div 2, 0, BatchLength>>)
            /\ UNCHANGED <<sq, fault>>
        BY <2>2, <3>2, Zenon DEF TakeBatch
      <4>2. stack'.back = 1
        BY <3>1, <4>1, PushKeeps, Zenon DEF Inv
      <4>3. ASSUME InOrder PROVE InOrder'
        <5>1. Len(replied) + Len(sq) = taken
          BY <3>1, <4>3 DEF InOrder, AnswerInv
        <5>2. taken' - stack'.back = taken
          BY <3>1, <4>2 DEF AnswerInv
        <5> QED
          BY <3>1, <4>1, <4>3, <5>1, <5>2, Zenon DEF InOrder
      <4> QED
        BY <3>1, <4>1, <4>3, Zenon DEF AnswerInv
    <3>3. CASE ~(present /\ is_flushed_to)
      <4>1. EndBatch /\ stack' = stack
        BY <2>2, <3>3, Zenon DEF TakeBatch, walk
      <4>2. taken' = taken - stack.back + 1
        BY <3>1 DEF AnswerInv
      <4> QED
        BY <3>1, <4>1, <4>2, EndBatchKeeps, Zenon
    <3> QED
      BY <3>2, <3>3, Zenon
  <2>3. CASE Flush
    <3>1. UNCHANGED <<stack, level, taken>> /\ ~fault
      BY <2>3, Zenon DEF Flush, MayTake, Live, walk, config
    <3>2. CASE RoomFor(2)
      BY <2>3, <3>1, <3>2, SubmitKeeps, Zenon DEF Flush
    <3>3. CASE ~RoomFor(2)
      BY <2>3, <3>1, <3>3, AnswersUntouched, Zenon DEF Flush, answers
    <3> QED
      BY <3>2, <3>3, Zenon
  <2>4. CASE PassCompaction \/ IdleTurn
    <3>1. UNCHANGED <<stack, taken, replied, sq>> /\ ~fault
      BY <2>4, Zenon DEF PassCompaction, IdleTurn, MayTake, Live, readVars, walk, answers
    <3>2. level' = level
      BY <2>4, Zenon DEF PassCompaction, Forward, IdleTurn, Idle, WaitOnce, PassNew, GiveOld, config
    <3> QED
      BY <3>1, <3>2, AnswersUntouched, Zenon
  <2>5. CASE EndRequest
    <3>1. /\ pc = "tree" /\ top(stack) # Unknown /\ stack' = Children /\ ~fault
          /\ UNCHANGED <<level, taken, replied>>
      BY <2>5, Zenon DEF EndRequest, Live, config
    <3>2. stack.back = 1
      BY <3>1, Zenon DEF Inv, ServeInv
    <3>3. stack'.back = 0 /\ empty(stack')
      BY <3>1, <3>2, EndEmpties, Zenon DEF Inv
    <3>4. EndBatch
      BY <2>5, <3>3, Zenon DEF EndRequest
    <3>5. taken' \in Nat /\ taken' = taken - stack.back + 1
      BY <3>1, <3>2 DEF AnswerInv
    <3> QED
      BY <3>1, <3>2, <3>3, <3>4, <3>5, EndBatchKeeps, Zenon
  <2>6. CASE ReadStorage
    <3>1. UNCHANGED <<stack, level, taken>> /\ ~fault
      BY <2>6, Zenon DEF ReadStorage, Live, config
    <3>2. CASE RoomFor(2)
      BY <2>6, <3>1, <3>2, SubmitKeeps, Zenon DEF ReadStorage
    <3>3. CASE ~RoomFor(2)
      BY <2>6, <3>1, <3>3, AnswersUntouched, Zenon DEF ReadStorage, answers
    <3> QED
      BY <3>2, <3>3, Zenon
  <2>7. CASE Completion
    BY <2>7, AnswersUntouched, Zenon DEF Completion, Live, config, walk, answers
  <2>9. CASE UnknownRow
    BY <2>9, AnswersUntouched, Zenon DEF UnknownRow, config, readVars, walk, answers
  <2>8. CASE Kernel \/ UNCHANGED vars
    <3>1. UNCHANGED <<stack, level, taken, replied, sq, fault>>
      BY <2>8, Zenon DEF Kernel, KernelReads, KernelWrites, Post, vars, readVars, bufferVars, config,
                  walk, answers
    <3> QED
      BY <3>1, AnswersUntouched, Zenon
  <2> QED
    BY <2>1, <2>2, <2>3, <2>4, <2>5, <2>6, <2>7, <2>8, <2>9 DEF Next, Take, GoOn
<1> QED
  BY <1>1, <1>2, InvInit, InvNext, PTL DEF Spec

\* On the last level every batch that was taken is answered once and in order, but for the
\* one whose traversal has not ended.
THEOREM AnsweredInOrder == Spec => []AnswersInOrder
<1>1. Inv /\ AnswerInv => AnswersInOrder
  <2> SUFFICES ASSUME Inv, AnswerInv, level = "last", ~fault
               PROVE  LET done == replied \o sq
                      IN  /\ \A i \in DOMAIN done : done[i] = i
                          /\ Len(done) = IF stack.back = 1 THEN taken - 1 ELSE taken
    BY Zenon DEF AnswersInOrder
  <2>1. stack.back \in {0, 1} /\ InOrder /\ replied \in Seq(Nat) /\ sq \in Seq(Nat) /\ taken \in Nat
    BY Zenon DEF Inv, StackInv, AnswerInv
  <2>2. /\ Len(replied \o sq) = Len(replied) + Len(sq)
        /\ \A i \in DOMAIN (replied \o sq) : (replied \o sq)[i] = i
    BY Zenon, <2>1, ConcatNext DEF InOrder
  <2>3. Len(replied) + Len(sq) = IF stack.back = 1 THEN taken - 1 ELSE taken
    BY <2>1 DEF InOrder
  <2> QED
    BY <2>2, <2>3, Zenon
<1> QED
  BY <1>1, AnswerInvariant, PTL

(***************************************************************************)
(* The offset of the request at hand is a number, so that one of 0 as the  *)
(* first invalid offset ends the request.                                  *)
(***************************************************************************)
EndInv == desired_sstable_offset \in Nat

\* Every step keeps that.
LEMMA EndInvariant == Spec => []EndInv
<1>1. Init => EndInv
  BY DEF Init, EndInv
<1>2. Inv /\ EndInv /\ [Next]_vars => EndInv'
  <2> SUFFICES ASSUME Inv, EndInv, [Next]_vars PROVE EndInv'
    BY Zenon
  <2>1. CASE UNCHANGED desired_sstable_offset
    BY <2>1, Zenon DEF EndInv
  <2>2. CASE desired_sstable_offset' = 0
    BY <2>2 DEF EndInv
  <2>3. CASE ReceiveBuffer \/ PassCompaction \/ IdleTurn \/ UnknownRow \/ UNCHANGED vars
    <3>1. UNCHANGED readVars
      BY <2>3, Zenon DEF ReceiveBuffer, PassCompaction, IdleTurn, UnknownRow, vars
    <3> QED
      BY <2>1, <3>1, Zenon DEF readVars, walk
  <2>4. CASE \E present_in_level \in BOOLEAN : TakeBatch(present_in_level)
    BY <2>1, <2>2, <2>4, Zenon DEF TakeBatch, walk
  <2>5. CASE ReadStorage
    <3>1. pc = "tree" /\ top(stack) # Unknown /\ desired_sstable_offset' = top(stack)[1]
      BY <2>5, Zenon DEF ReadStorage
    <3>2. top(stack) = ZeroRow
      BY <3>1, TopIsZero, Zenon DEF Inv, ServeInv
    <3>3. desired_sstable_offset' = 0
      BY <3>1, <3>2 DEF ZeroRow
    <3> QED
      BY <2>2, <3>3, Zenon
  <2>6. CASE Flush \/ EndRequest \/ Completion \/ Kernel
    BY <2>1, <2>6, Zenon DEF Flush, EndRequest, Completion, Kernel, KernelReads, KernelWrites, Post, walk
  <2> QED
    BY <2>3, <2>4, <2>5, <2>6, Zenon DEF Next, Take, GoOn
<1> QED
  BY <1>1, <1>2, InvInit, InvNext, PTL DEF Spec

(***************************************************************************)
(* The types of the state.                                                 *)
(***************************************************************************)
\* A sequence of numbers that are buffers.
LEMMA SeqOfBuffers ==
  ASSUME NEW s \in Seq(Int)
  PROVE  s \in Seq(Buffer) <=> \A k \in 1..Len(s) : s[k] \in Buffer
<1>1. ASSUME s \in Seq(Buffer), NEW k \in 1..Len(s) PROVE s[k] \in Buffer
  BY <1>1, LengthOf, Zenon
<1>2. ASSUME \A k \in 1..Len(s) : s[k] \in Buffer PROVE s \in Seq(Buffer)
  <2>1. Len(s) \in Nat /\ s \in [1..Len(s) -> Buffer]
    BY <1>2, LengthOf, Zenon
  <2> QED
    BY <2>1
<1> QED
  BY <1>1, <1>2, Zenon

\* Buffers are numbers, and the null pointer is one.
LEMMA BufferNumbers ==
  /\ Buffer \subseteq Int /\ Null \in Buffer /\ Garbage \in Buffer
  /\ \A n \in 1..MaxPushes : n \in Buffer
  /\ \A n \in 1..max_sstable_height : -n \in Buffer
  /\ Seq(Buffer) \subseteq Seq(Int)
<1>1. Buffer \subseteq Int
  BY BufferAssumption DEF Buffer, Garbage
<1>2. ASSUME NEW s \in Seq(Buffer) PROVE s \in Seq(Int)
  <2>1. Len(s) \in Nat /\ s \in [1..Len(s) -> Buffer]
    BY LengthOf, Zenon
  <2>2. s \in [1..Len(s) -> Int]
    BY Zenon, <1>1, <2>1
  <2> QED
    BY <2>1, <2>2
<1>3. Seq(Buffer) \subseteq Seq(Int)
  BY <1>2, Zenon
<1>4. /\ Null \in Buffer /\ Garbage \in Buffer
      /\ \A n \in 1..MaxPushes : n \in Buffer
      /\ \A n \in 1..max_sstable_height : -n \in Buffer
  BY BufferAssumption DEF Buffer, Null, Garbage
<1> QED
  BY <1>1, <1>3, <1>4, Zenon

\* Pops take buffers from the ring and keep the counters within an unsigned int.
LEMMA PopTypes ==
  ASSUME BuffersTypeOK, NEW n \in Nat, pop_front(n)
  PROVE  /\ queue_front' \in Cell /\ cur_num_buffers' \in Uint /\ num_new_buffers' \in Uint
         /\ popped' \in Seq(Buffer)
         /\ \A k \in 1..n : Popped(k) \in Buffer
<1>1. queue_front \in Cell /\ popped \in Seq(Buffer) /\ queue \in [Cell -> Buffer]
      /\ cur_num_buffers \in Int /\ num_new_buffers \in Int
  BY BufferAssumption DEF BuffersTypeOK, Uint
<1>2. UINT \in Nat /\ UINT > 0
  BY LengthPositive, BufferAssumption
<1>3. ASSUME NEW a \in Int PROVE a % UINT \in Uint
  BY <1>2 DEF Uint
<1>4. cur_num_buffers' \in Uint /\ num_new_buffers' \in Uint
  BY <1>1, <1>3 DEF pop_front
<1>5. queue_front' \in Cell
  BY <1>1, LengthPositive, Modulus DEF pop_front, Cell
<1>6. ASSUME NEW k \in Nat, k >= 1 PROVE Popped(k) \in Buffer
  <2>1. queue_front + k - 1 \in Nat
    BY <1>1, <1>6, LengthPositive DEF Cell
  <2> QED
    BY <1>1, <2>1, InRing, Zenon DEF Popped
<1>7. popped \in Seq(Int) /\ queue \in [Cell -> Int]
  BY Zenon, <1>1, BufferNumbers
<1>8. /\ popped' \in Seq(Int) /\ Len(popped) \in Nat /\ Len(popped') \in Nat
      /\ \A k \in 1..Len(popped') :
           popped'[k] = IF k <= Len(popped) THEN popped[k] ELSE Popped(k - Len(popped))
  BY <1>1, <1>7, PopsAppend, LengthOf, Zenon
<1>9. ASSUME NEW k \in 1..Len(popped') PROVE popped'[k] \in Buffer
  <2>1. CASE k <= Len(popped)
    <3>1. k \in 1..Len(popped)
      BY <1>8, <2>1
    <3> QED
      BY <1>1, <1>8, <2>1, <3>1, LengthOf, Zenon
  <2>2. CASE ~(k <= Len(popped))
    <3>1. k - Len(popped) \in Nat /\ k - Len(popped) >= 1
      BY <1>8, <2>2
    <3> QED
      BY <1>6, <1>8, <2>2, <3>1, Zenon
  <2> QED
    BY <2>1, <2>2, Zenon
<1> QED
  BY <1>4, <1>5, <1>6, <1>8, <1>9, SeqOfBuffers

\* What a neighbour gives is a buffer.
LEMMA ReceiveTypes ==
  ASSUME BuffersTypeOK, NEW b \in Buffer, Receive(b)
  PROVE  BuffersTypeOK'
<1>1. Length \in Nat /\ Length > 5 /\ UINT \in Nat /\ UINT > 0
  BY LengthPositive, BufferAssumption
<1>2. back' \in Cell /\ NextCell \in Cell
  BY <1>1, Modulus DEF Receive, push_back, NextCell, BuffersTypeOK, Cell
<1>3. queue' \in [Cell -> Buffer]
  BY <1>2, Zenon DEF Receive, push_back, BuffersTypeOK
<1>4. ASSUME NEW a \in Int PROVE a % UINT \in Uint
  BY <1>1 DEF Uint
<1>5. cur_num_buffers' \in Uint /\ num_new_buffers' \in Uint
  BY <1>1, <1>4 DEF Receive, push_back, BuffersTypeOK, Uint
<1>6. pushed' \in Seq(Buffer)
  BY Appended, Zenon DEF Receive, push_back, BuffersTypeOK
<1> QED
  BY <1>2, <1>3, <1>5, <1>6, Zenon DEF Receive, BuffersTypeOK, config, stock

\* Adding the new buffers to the stock keeps the types.
LEMMA AddTypes ==
  ASSUME BuffersTypeOK, TryAddBuffers, UNCHANGED <<config, ring, already_waited, pushed, fault>>
  PROVE  BuffersTypeOK'
<1>1. UNCHANGED <<level, is_single_thread, queue, back, already_waited, pushed, fault>>
  BY Zenon DEF config, ring
<1>2. CASE UNCHANGED <<taking, stock>> /\ hung' \in {"no", "adding", "giving"}
  BY <1>1, <1>2, Zenon DEF BuffersTypeOK, taking, stock
<1>3. ASSUME NEW n \in NullAfter, pop_front(n),
             page_cache_buffers' = [c \in Cell |-> IF n > 0 /\ c = insert_buffers_from
                                                   THEN Popped(n) ELSE page_cache_buffers[c]],
             insert_buffers_from' = insert_buffers_from,
             free_buffers_left' = free_buffers_left + n,
             hung' = hung
      PROVE  BuffersTypeOK'
  <2>1. n \in Nat
    BY LengthPositive DEF NullAfter
  <2>2. /\ queue_front' \in Cell /\ cur_num_buffers' \in Uint /\ num_new_buffers' \in Uint
        /\ popped' \in Seq(Buffer)
        /\ \A k \in 1..n : Popped(k) \in Buffer
    BY <1>3, <2>1, PopTypes, Zenon
  <2>3. page_cache_buffers' \in [Cell -> Buffer]
    <3>1. n > 0 => n \in 1..n
      BY <2>1
    <3>2. \A c \in Cell : page_cache_buffers[c] \in Buffer
      BY Zenon DEF BuffersTypeOK
    <3> QED
      BY <1>3, <2>2, <3>1, <3>2, Zenon
  <2>4. free_buffers_left' \in Nat
    BY <1>3, <2>1 DEF BuffersTypeOK
  <2> QED
    BY <1>1, <1>3, <2>2, <2>3, <2>4 DEF BuffersTypeOK
<1>4. CASE ~is_single_thread
  BY <1>2, <1>4, Zenon DEF TryAddBuffers, BuffersTypeOK
<1>5. CASE is_single_thread /\ NullAfter = {}
  BY <1>2, <1>5, Zenon DEF TryAddBuffers
<1>6. CASE is_single_thread /\ NullAfter # {}
  BY <1>3, <1>6, Zenon DEF TryAddBuffers
<1> QED
  BY <1>4, <1>5, <1>6, Zenon

\* So does an idle turn: what is given away is no more than there is.
LEMMA IdleTypes ==
  ASSUME BuffersTypeOK, Idle
  PROVE  BuffersTypeOK'
<1>1. CASE WaitOnce
  BY <1>1, Zenon DEF WaitOnce, BuffersTypeOK, config, ring, taking, stock
<1>2. CASE PassNew
  <2>1. num_new_buffers \in Nat /\ Fair(num_new_buffers) \in Nat
    BY BufferAssumption DEF BuffersTypeOK, Uint, Fair
  <2>2. pop_front(Fair(num_new_buffers))
    BY <1>2, Zenon DEF PassNew
  <2>3. /\ queue_front' \in Cell /\ cur_num_buffers' \in Uint /\ num_new_buffers' \in Uint
        /\ popped' \in Seq(Buffer)
    BY <2>1, <2>2, PopTypes, Zenon
  <2>4. UNCHANGED <<config, ring, stock, already_waited, pushed, fault, hung>>
    BY <1>2, Zenon DEF PassNew
  <2> QED
    BY <2>3, <2>4, Zenon DEF BuffersTypeOK, config, ring, stock
<1>3. CASE GiveOld
  <2>1. cur_num_buffers \in Nat /\ cur_num_buffers < UINT /\ UINT \in Nat
    BY BufferAssumption DEF BuffersTypeOK, Uint
  <2>2. ToGive \in 0..cur_num_buffers
    <3>1. ASSUME NEW n \in Nat, n <= cur_num_buffers, n > 0, NEW f \in Nat, f > 1
          PROVE  n \div f \in 0..n
      <4>1. PICK k \in Int : k = n \div f /\ f * k <= n /\ n < f * k + f
        BY <3>1
      <4>2. k >= 0
        <5>1. CASE k <= -1
          <6>1. f * k <= -f
            BY <3>1, <4>1, <5>1, Z3
          <6>2. f * k \in Int
            BY <3>1, <4>1
          <6> QED
            BY <3>1, <4>1, <6>1, <6>2
        <5> QED
          BY <4>1, <5>1
      <4>3. f * k >= k
        BY <3>1, <4>1, <4>2, Z3
      <4>4. f * k \in Int
        BY <3>1, <4>1
      <4> QED
        BY <3>1, <4>1, <4>2, <4>3, <4>4
    <3>2. CASE cur_num_buffers = 0
      BY <3>2 DEF ToGive
    <3>3. CASE cur_num_buffers > 0
      <4>1. /\ Fair(cur_num_buffers) \in Nat /\ Fair(cur_num_buffers) <= cur_num_buffers
            /\ Fair(cur_num_buffers) > 0
        BY <2>1, <3>3, BufferAssumption DEF Fair
      <4>2. Fair(cur_num_buffers) \div LEVEL_FACTOR \in 0..Fair(cur_num_buffers)
        BY <3>1, <4>1, BufferAssumption, Zenon
      <4> QED
        BY <2>1, <3>3, <4>1, <4>2 DEF ToGive, AtLeastOne
    <3> QED
      BY <2>1, <3>2, <3>3
  <2>3. cur_num_buffers' \in Uint
    BY <1>3, <2>1, <2>2 DEF GiveOld, Uint
  <2>4. insert_buffers_from' \in Int
    BY <1>3, <2>1, <2>2 DEF GiveOld, BuffersTypeOK
  <2>5. fault' \in BOOLEAN /\ already_waited' \in BOOLEAN
    BY Zenon, <1>3 DEF GiveOld, remove_buffer_range, BuffersTypeOK
  <2> QED
    BY <1>3, <2>3, <2>4, <2>5, Zenon DEF GiveOld, BuffersTypeOK, config, ring
<1> QED
  BY <1>1, <1>2, <1>3, Zenon DEF Idle

\* So do the buffers that go along with a compaction.
LEMMA ForwardTypes ==
  ASSUME BuffersTypeOK, NEW target_single \in BOOLEAN, NEW needy \in BOOLEAN,
         Forward(target_single, needy)
  PROVE  BuffersTypeOK'
<1>1. num_new_buffers \in Nat /\ AtLeastOne(num_new_buffers) \in Nat
  BY BufferAssumption DEF BuffersTypeOK, Uint, AtLeastOne
<1>2. pop_front(AtLeastOne(num_new_buffers))
  BY Zenon DEF Forward
<1>3. /\ queue_front' \in Cell /\ cur_num_buffers' \in Uint /\ num_new_buffers' \in Uint
      /\ popped' \in Seq(Buffer)
  BY <1>1, <1>2, PopTypes, Zenon
<1>4. OldBufferLimit \in Int
  <2>1. OldBuffers \in Int
    BY BufferAssumption DEF OldBuffers, BuffersTypeOK, Uint
  <2>2. OldBuffers \div LEVEL_FACTOR \in Int
    BY <2>1, BufferAssumption
  <2> QED
    BY <2>2 DEF OldBufferLimit, AtLeastOne
<1>5. insert_buffers_from' \in Int
  BY <1>4 DEF Forward, BuffersTypeOK
<1>6. fault' \in BOOLEAN /\ hung' \in {"no", "adding", "giving"}
  BY Zenon DEF Forward
<1>7. UNCHANGED <<level, is_single_thread, queue, back, page_cache_buffers, free_buffers_left,
                  already_waited, pushed>>
  BY Zenon DEF Forward, config, ring
<1> QED
  BY <1>3, <1>5, <1>6, <1>7, Zenon DEF BuffersTypeOK

\* The types of what the traversal uses.
ReadTypeOK ==
  /\ is_flushed_to \in BOOLEAN /\ leftovers \in BOOLEAN /\ zero_length \in BOOLEAN
  /\ taken \in 0..MaxBatches
  /\ stack \in [back : Nat, data : [0..(max_sstable_height - 1) -> Row \cup {Unknown}]]
  /\ desired_sstable_offset \in Nat /\ cur_min_invalid_offset \in {0, NoOffset}
  /\ waiting_on_io \in BOOLEAN /\ broken \in BOOLEAN
  /\ sq \in Seq(Batch) /\ replied \in Seq(Batch)
  /\ reading \in Nat /\ writing \in Nat /\ messages \in Nat /\ res \in Result
  /\ pc \in {"turn", "tree"}

\* The state that start-up leaves has its types.
LEMMA TypesInit == Init => BuffersTypeOK /\ ReadTypeOK
<1> SUFFICES ASSUME Init PROVE BuffersTypeOK /\ ReadTypeOK
  BY Zenon
<1>1. ASSUME NEW c \in Cell, c < max_sstable_height PROVE -(c + 1) \in Buffer
  <2>1. c \in Int /\ c >= 0
    BY LengthPositive DEF Cell
  <2> QED
    BY <1>1, <2>1, BufferAssumption DEF Buffer, Garbage
<1>2. Null \in Buffer /\ Garbage \in Buffer
  BY BufferNumbers, Zenon
<1>3. page_cache_buffers \in [Cell -> Buffer] /\ queue \in [Cell -> Buffer]
  BY <1>1, <1>2, Zenon DEF Init, BuffersInit
<1>4. max_sstable_height \in 0..(Length - 1)
  <2>1. max_sstable_height * LEVEL_FACTOR > max_sstable_height
    BY BufferAssumption, Z3
  <2> QED
    BY <2>1, LengthPositive, BufferAssumption DEF Length
<1>5. 0 \in Cell /\ max_sstable_height \in Uint /\ 0 \in Uint
  BY <1>4, LengthPositive, BufferAssumption DEF Cell, Uint
<1>6. BuffersTypeOK
  <2>1. max_sstable_height \in Int /\ max_sstable_height \in Nat /\ <<>> \in Seq(Buffer)
    BY BufferAssumption
  <2>2. level \in {"first", "inner", "last"} /\ is_single_thread \in BOOLEAN
    BY Zenon DEF Init, BuffersInit
  <2> QED
    BY <1>3, <1>5, <2>1, <2>2, Zenon DEF Init, BuffersInit, BuffersTypeOK
<1>7. stack \in [back : Nat, data : [0..(max_sstable_height - 1) -> Row \cup {Unknown}]]
  <2>1. ZeroRow \in Row
    BY Zenon DEF ZeroRow, Row
  <2>2. {ZeroRow, Unknown} \subseteq Row \cup {Unknown}
    BY <2>1, Zenon
  <2>3. /\ stack.back = 0 /\ stack = [back |-> stack.back, data |-> stack.data]
        /\ stack.data \in [0..(max_sstable_height - 1) -> {ZeroRow, Unknown}]
    BY NewStackEmpty, Zenon DEF Init
  <2>4. stack.data \in [0..(max_sstable_height - 1) -> Row \cup {Unknown}]
    BY <2>2, <2>3, Zenon
  <2>5. stack.back \in Nat
    BY <2>3
  <2> QED
    BY <2>3, <2>4, <2>5, Zenon
<1>8. sq \in Seq(Batch) /\ replied \in Seq(Batch) /\ taken \in 0..MaxBatches
  BY ReadAssumption DEF Init
<1>9. /\ is_flushed_to \in BOOLEAN /\ leftovers \in BOOLEAN /\ zero_length \in BOOLEAN
      /\ waiting_on_io \in BOOLEAN /\ broken \in BOOLEAN /\ res \in Result
      /\ pc \in {"turn", "tree"}
  BY Zenon DEF Init, Result
<1>10. /\ desired_sstable_offset \in Nat /\ cur_min_invalid_offset \in {0, NoOffset}
       /\ reading \in Nat /\ writing \in Nat /\ messages \in Nat
  BY Zenon DEF Init
<1> QED
  BY <1>6, <1>7, <1>8, <1>9, <1>10, Zenon DEF ReadTypeOK

\* The neighbours and the worker keep the types of the buffers.
LEMMA BufferTypesNext ==
  ASSUME BuffersTypeOK, [Next]_vars
  PROVE  BuffersTypeOK'
<1>1. CASE ReceiveBuffer
  <2>1. PICK b \in {Null, Len(pushed) + 1} : Receive(b)
    BY <1>1, Zenon DEF ReceiveBuffer
  <2>2. Len(pushed) \in Nat /\ Len(pushed) < MaxPushes
    BY <2>1, LengthOf, Zenon DEF Receive, BuffersTypeOK
  <2>3. b \in Buffer
    <3>1. Len(pushed) + 1 \in 1..MaxPushes
      BY <2>2, BufferAssumption
    <3> QED
      BY <3>1, BufferNumbers, Zenon
  <2> QED
    BY <2>1, <2>3, ReceiveTypes, Zenon
<1>2. ASSUME NEW present_in_level \in BOOLEAN, TakeBatch(present_in_level)
      PROVE  BuffersTypeOK'
  <2>1. UNCHANGED <<config, ring, already_waited, pushed>>
    BY <1>2, Zenon DEF TakeBatch
  <2>2. CASE present_in_level /\ is_flushed_to
    BY <1>2, <2>1, <2>2, AddTypes, Zenon DEF TakeBatch
  <2>3. CASE ~(present_in_level /\ is_flushed_to)
    <3>1. EndBatch /\ UNCHANGED <<taking, stock, hung>>
      BY <1>2, <2>3, Zenon DEF TakeBatch
    <3>2. fault' \in BOOLEAN
      BY Zenon, <3>1 DEF EndBatch, BuffersTypeOK
    <3> QED
      BY <2>1, <3>1, <3>2, Zenon DEF BuffersTypeOK, config, ring, taking, stock
  <2> QED
    BY <2>2, <2>3, Zenon
<1>3. CASE PassCompaction
  BY <1>3, ForwardTypes, Zenon DEF PassCompaction
<1>4. CASE IdleTurn
  BY <1>4, IdleTypes, Zenon DEF IdleTurn
<1>5. CASE Flush \/ GoOn
  <2>1. UNCHANGED <<config, ring, taking, stock, already_waited, pushed, hung>>
    BY <1>5, Zenon DEF Flush, GoOn, UnknownRow, EndRequest, ReadStorage, Completion
  <2>2. fault' \in BOOLEAN
    <3>1. CASE Flush
      BY Zenon, <3>1 DEF Flush, BuffersTypeOK
    <3>2. CASE EndRequest
      BY Zenon, <3>2 DEF EndRequest, EndBatch, BuffersTypeOK
    <3>3. CASE ReadStorage
      BY Zenon, <3>3 DEF ReadStorage, BuffersTypeOK
    <3>4. CASE Completion
      <4>1. fault' = (leftovers \/ res \in {"part", "whole"})
        BY <3>4, Zenon DEF Completion
      <4> QED
        BY <4>1, Zenon
    <3>5. CASE UnknownRow
      BY <3>5, Zenon DEF UnknownRow
    <3> QED
      BY <1>5, <3>1, <3>2, <3>3, <3>4, <3>5, Zenon DEF GoOn
  <2> QED
    BY <2>1, <2>2, Zenon DEF BuffersTypeOK, config, ring, taking, stock
<1>6. CASE Kernel \/ UNCHANGED vars
  <2>1. UNCHANGED bufferVars
    BY <1>6, Zenon DEF Kernel, KernelReads, KernelWrites, Post, vars
  <2> QED
    BY <2>1 DEF bufferVars, BuffersTypeOK, config, ring, taking, stock
<1> QED
  BY <1>1, <1>2, <1>3, <1>4, <1>5, <1>6, Zenon DEF Next, Take

\* Answers that are sent or prepared are batches.
LEMMA AnswerTypes ==
  ASSUME ReadTypeOK
  PROVE  /\ SubmitChain => replied' \in Seq(Batch) /\ sq' \in Seq(Batch)
         /\ EndBatch /\ (level = "last" => taken' \in Batch) => sq' \in Seq(Batch)
<1>1. sq \in Seq(Batch) /\ replied \in Seq(Batch)
  BY Zenon DEF ReadTypeOK
<1>2. ASSUME SubmitChain PROVE replied' \in Seq(Batch) /\ sq' \in Seq(Batch)
  <2>1. replied' = replied \o sq /\ sq' = <<>>
    BY <1>2, Zenon DEF SubmitChain
  <2>2. replied \o sq \in Seq(Batch)
    BY <1>1, Concatenated, Zenon
  <2> QED
    BY <2>1, <2>2
<1>3. ASSUME EndBatch, level = "last" => taken' \in Batch PROVE sq' \in Seq(Batch)
  <2>1. CASE level = "last" /\ RoomFor(1)
    <3>1. sq' = Append(sq, taken') /\ taken' \in Batch
      BY <1>3, <2>1, Zenon DEF EndBatch
    <3> QED
      BY <1>1, <3>1, Appended, Zenon
  <2>2. CASE ~(level = "last" /\ RoomFor(1))
    BY <1>1, <1>3, <2>2, Zenon DEF EndBatch
  <2> QED
    BY <2>1, <2>2, Zenon
<1> QED
  BY <1>2, <1>3, Zenon

\* A traversal keeps the types of what it uses.
LEMMA ReadTypesNext ==
  ASSUME ReadTypeOK, Inv, AnswerInv, [Next]_vars
  PROVE  ReadTypeOK'
<1>0. taken \in Nat /\ taken <= MaxBatches /\ MaxBatches \in Nat
  BY ReadAssumption DEF ReadTypeOK
<1>1. CASE ReceiveBuffer \/ PassCompaction \/ IdleTurn \/ UnknownRow \/ UNCHANGED vars
  <2>1. UNCHANGED readVars
    BY <1>1, Zenon DEF ReceiveBuffer, PassCompaction, IdleTurn, UnknownRow, vars
  <2> QED
    BY <2>1, Zenon DEF ReadTypeOK, readVars, kernelVars, walk, answers, chains, posted, serveVars
<1>2. ASSUME NEW present_in_level \in BOOLEAN, TakeBatch(present_in_level)
      PROVE  ReadTypeOK'
  <2>1. UNCHANGED <<leftovers, zero_length, replied, reading, writing, messages, res, broken,
                    is_flushed_to, cur_min_invalid_offset, waiting_on_io>>
    BY <1>2, Zenon DEF TakeBatch, kernelVars, chains, posted
  <2>2. taken' \in 0..MaxBatches /\ taken' \in Batch
    BY <1>0, <1>2 DEF TakeBatch, Batch
  <2>3. CASE present_in_level /\ is_flushed_to
    <3>1. /\ desired_sstable_offset' = 0 /\ pc' = "tree" /\ UNCHANGED sq
          /\ stack' = push_top(stack, <<0, BatchLength \div 2, 0, BatchLength>>)
      BY <1>2, <2>3, Zenon DEF TakeBatch
    <3>2. <<0, BatchLength \div 2, 0, BatchLength>> \in Row
      <4>1. BatchLength \in Nat /\ BatchLength \div 2 \in Nat
        BY ReadAssumption
      <4> QED
        BY <4>1, Zenon DEF Row
    <3>3. stack' \in [back : Nat, data : [0..(max_sstable_height - 1) -> Row \cup {Unknown}]]
      <4> DEFINE row == <<0, BatchLength \div 2, 0, BatchLength>>
      <4>1. stack.back \in Nat /\ stack.data \in [0..(max_sstable_height - 1) -> Row \cup {Unknown}]
        BY Zenon DEF ReadTypeOK
      <4>2. row \in Row /\ stack' = push_top(stack, row)
        BY <3>1, <3>2, Zenon
      <4> HIDE DEF row
      <4>3. [stack.data EXCEPT ![stack.back] = row] \in [0..(max_sstable_height - 1) -> Row \cup {Unknown}]
        BY Zenon, <4>1, <4>2
      <4> QED
        BY <4>1, <4>2, <4>3 DEF push_top
    <3> QED
      BY Zenon, <2>1, <2>2, <3>1, <3>3 DEF ReadTypeOK
  <2>4. CASE ~(present_in_level /\ is_flushed_to)
    <3>1. EndBatch /\ UNCHANGED <<stack, desired_sstable_offset, pc>>
      BY <1>2, <2>4, Zenon DEF TakeBatch, walk
    <3>2. sq' \in Seq(Batch)
      BY <2>2, <3>1, AnswerTypes, Zenon
    <3> QED
      BY <2>1, <2>2, <3>1, <3>2 DEF ReadTypeOK
  <2> QED
    BY <2>3, <2>4, Zenon
<1>3. CASE Flush
  <2>1. UNCHANGED <<leftovers, zero_length, taken, stack, desired_sstable_offset, reading, messages,
                    res, broken, is_flushed_to, cur_min_invalid_offset, pc>>
    BY <1>3, Zenon DEF Flush, kernelVars, walk, posted
  <2>2. /\ sq' \in Seq(Batch) /\ replied' \in Seq(Batch)
        /\ writing' \in Nat /\ waiting_on_io' \in BOOLEAN
    <3>1. CASE RoomFor(2)
      <4>1. SubmitChain /\ writing' = writing + 1
        BY <1>3, <3>1, Zenon DEF Flush
      <4>2. waiting_on_io' = TRUE
        BY <4>1, Zenon DEF SubmitChain
      <4> QED
        BY <4>1, <4>2, AnswerTypes DEF ReadTypeOK
    <3>2. CASE ~RoomFor(2)
      BY <1>3, <3>2, Zenon DEF Flush, answers, ReadTypeOK
    <3> QED
      BY <3>1, <3>2, Zenon
  <2> QED
    BY <2>1, <2>2, Zenon DEF ReadTypeOK
<1>4. CASE EndRequest
  <2>1. /\ UNCHANGED <<leftovers, zero_length, taken, desired_sstable_offset, replied, reading, writing,
                       messages, res, broken, is_flushed_to, cur_min_invalid_offset>>
        /\ ~fault /\ pc = "tree" /\ top(stack) # Unknown /\ stack' = Children
        /\ pc' \in {"turn", "tree"}
    BY <1>4, Zenon DEF EndRequest, kernelVars, chains, posted, Live
  <2>2. stack.back = 1
    BY <2>1, Zenon DEF Inv, ServeInv
  <2>3. stack' = [back |-> 0, data |-> stack.data] /\ empty(stack')
    BY <2>1, <2>2, NoChildren, EndEmpties, Zenon DEF Inv
  <2>4. waiting_on_io' = FALSE /\ EndBatch
    BY <1>4, <2>3, Zenon DEF EndRequest
  <2>5. level = "last" => taken' \in Batch
    <3>1. ASSUME level = "last" PROVE taken >= 1
      <4>1. Len(replied) + Len(sq) = taken - 1
        BY <2>1, <2>2, <3>1, Zenon DEF AnswerInv, InOrder
      <4>2. Len(replied) \in Nat /\ Len(sq) \in Nat
        BY LengthOf, Zenon DEF ReadTypeOK
      <4> QED
        BY <1>0, <4>1, <4>2
    <3> QED
      BY <1>0, <2>1, <3>1 DEF Batch
  <2>6. sq' \in Seq(Batch)
    BY <2>4, <2>5, AnswerTypes, Zenon
  <2>7. stack' \in [back : Nat, data : [0..(max_sstable_height - 1) -> Row \cup {Unknown}]]
    BY <2>3, Zenon DEF ReadTypeOK
  <2> QED
    BY Zenon, <2>1, <2>4, <2>6, <2>7 DEF ReadTypeOK
<1>5. CASE ReadStorage
  <2>1. /\ UNCHANGED <<leftovers, zero_length, taken, stack, writing, messages, res, broken,
                       is_flushed_to, cur_min_invalid_offset>>
        /\ pc = "tree" /\ top(stack) # Unknown /\ desired_sstable_offset' = top(stack)[1]
    BY <1>5, Zenon DEF ReadStorage, kernelVars, posted
  <2>2. desired_sstable_offset' = 0
    <3>1. stack.back = 1
      BY <2>1, Zenon DEF Inv, ServeInv
    <3>2. top(stack) = ZeroRow
      BY <2>1, <3>1, TopIsZero, Zenon DEF Inv
    <3> QED
      BY <2>1, <3>2 DEF ZeroRow
  <2>3. /\ sq' \in Seq(Batch) /\ replied' \in Seq(Batch)
        /\ reading' \in Nat /\ waiting_on_io' \in BOOLEAN /\ pc' \in {"turn", "tree"}
    <3>1. CASE RoomFor(2)
      <4>1. SubmitChain /\ reading' = reading + 1 /\ pc' = "turn"
        BY <1>5, <3>1, Zenon DEF ReadStorage
      <4>2. waiting_on_io' = TRUE
        BY <4>1, Zenon DEF SubmitChain
      <4> QED
        BY <4>1, <4>2, AnswerTypes DEF ReadTypeOK
    <3>2. CASE ~RoomFor(2)
      BY <1>5, <3>2, Zenon DEF ReadStorage, answers, ReadTypeOK
    <3> QED
      BY <3>1, <3>2, Zenon
  <2> QED
    BY <2>1, <2>2, <2>3 DEF ReadTypeOK
<1>6. CASE Completion
  <2>1. /\ UNCHANGED <<leftovers, zero_length, taken, stack, desired_sstable_offset, sq, replied,
                       reading, writing, res, broken, waiting_on_io>>
        /\ messages > 0 /\ messages' = messages - 1
        /\ is_flushed_to' = (is_flushed_to \/ (~fault' /\ res = "silent"))
    BY <1>6, Zenon DEF Completion, kernelVars, walk, answers, chains
  <2>2. is_flushed_to' \in BOOLEAN
    BY <2>1, Zenon
  <2>3. cur_min_invalid_offset' \in {0, NoOffset} /\ pc' \in {"turn", "tree"}
    BY <1>6, Zenon DEF Completion, ReadTypeOK
  <2>4. messages' \in Nat
    BY <2>1 DEF ReadTypeOK
  <2> QED
    BY <2>1, <2>2, <2>3, <2>4, Zenon DEF ReadTypeOK
<1>7. CASE Kernel
  <2>1. PICK kept \in BOOLEAN : Post(kept)
    BY Zenon, <1>7 DEF Kernel, KernelReads, KernelWrites
  <2>2. /\ UNCHANGED <<leftovers, zero_length, taken, stack, desired_sstable_offset, sq, replied,
                       is_flushed_to, cur_min_invalid_offset, waiting_on_io, pc>>
        /\ messages' \in {messages, messages + 1}
    BY <2>1, Zenon DEF Post, kernelVars, walk, answers, serveVars
  <2>3. broken' \in BOOLEAN
    <3>1. broken' = (broken \/ ~kept)
      BY <2>1, Zenon DEF Post
    <3> QED
      BY <3>1, Zenon
  <2>4. reading' \in Nat /\ writing' \in Nat /\ messages' \in Nat
    BY <1>7, <2>2 DEF Kernel, KernelReads, KernelWrites, ReadTypeOK
  <2>5. res' \in Result
    BY <1>7, Zenon DEF Kernel, KernelReads, KernelWrites, Result
  <2> QED
    BY <2>2, <2>3, <2>4, <2>5, Zenon DEF ReadTypeOK
<1> QED
  BY <1>1, <1>2, <1>3, <1>4, <1>5, <1>6, <1>7, Zenon DEF Next, Take, GoOn

\* The buffers, the ring's indices and counters, the stack and the answers have their types
\* in every state: no pop leaves the ring, no counter an unsigned int, and a batch is
\* answered under its own number.
THEOREM TypeCorrect == Spec => []TypeOK
<1>1. BuffersTypeOK /\ ReadTypeOK <=> TypeOK
  BY Zenon DEF ReadTypeOK, TypeOK
<1>2. BuffersTypeOK /\ ReadTypeOK /\ Inv /\ AnswerInv /\ [Next]_vars =>
        BuffersTypeOK' /\ ReadTypeOK'
  BY BufferTypesNext, ReadTypesNext, Zenon
<1> QED
  BY <1>1, <1>2, TypesInit, AnswerInvariant, PTL DEF Spec

(***************************************************************************)
(* How far the batch at hand is.  A batch on the stack takes four steps at *)
(* most: the read, the kernel's part, its message, and the end of the only *)
(* request.  This is what EveryBatchDealtWith rests on.                    *)
(***************************************************************************)
StepsLeft ==
  IF stack.back = 0 THEN 0
  ELSE IF pc = "tree" THEN (IF PastEnd THEN 1 ELSE 4)
  ELSE IF messages > 0 THEN 2
  ELSE IF reading > 0 THEN 3
  ELSE 0

\* While a batch is at hand, every step of the worker and of the kernel brings it nearer to
\* its end or to the state the sstable waits in for ever, or the process ends; neighbours
\* that give buffers do not set it back.
BatchAdvances ==
  [][stack.back = 1 => fault' \/ StepsLeft' < StepsLeft \/ UNCHANGED readVars]_vars

\* No batch of the last level is forgotten: all that were taken are answered or prepared, but
\* for the one at hand, which still has a step to take, unless the sstable waits for ever.
NoBatchForgotten ==
  level = "last" /\ Live /\ ~Stuck =>
    \/ Len(replied) + Len(sq) = taken
    \/ Len(replied) + Len(sq) = taken - 1 /\ StepsLeft > 0

\* What brings the batch at hand nearer to its end.
THEOREM BatchesAdvance == Spec => BatchAdvances
<1>1. Inv /\ EndInv /\ [Next]_vars =>
        [stack.back = 1 => fault' \/ StepsLeft' < StepsLeft \/ UNCHANGED readVars]_vars
  <2> SUFFICES ASSUME Inv, EndInv, Next, stack.back = 1, ~fault'
               PROVE  StepsLeft' < StepsLeft \/ UNCHANGED readVars
    BY Zenon
  <2>1. CASE ReceiveBuffer
    BY <2>1, Zenon DEF ReceiveBuffer
  <2>2. ~Take
    <3>1. ~MayTake
      BY DEF MayTake, Inv, ServeInv
    <3> QED
      BY <3>1, Zenon DEF Take, TakeBatch, Flush, PassCompaction, IdleTurn
  <2>7. ~UnknownRow
    BY Zenon DEF UnknownRow
  <2>3. CASE EndRequest
    <3>1. pc = "tree" /\ top(stack) # Unknown /\ PastEnd /\ stack' = Children
      BY <2>3, Zenon DEF EndRequest
    <3>2. stack'.back = 0
      BY <3>1, EndEmpties, Zenon DEF Inv
    <3> QED
      BY <3>1, <3>2 DEF StepsLeft
  <2>4. CASE ReadStorage
    <3>1. pc = "tree" /\ ~PastEnd /\ stack' = stack /\ messages' = messages /\ RoomFor(2)
      BY <2>4, Zenon DEF ReadStorage, posted
    <3>2. reading' = reading + 1 /\ pc' = "turn"
      BY <2>4, <3>1, Zenon DEF ReadStorage
    <3>3. messages = 0 /\ reading = 0
      BY <3>1 DEF Inv, ServeInv, Chains
    <3> QED
      BY <3>1, <3>2, <3>3 DEF StepsLeft
  <2>5. CASE Completion
    <3>1. /\ pc = "turn" /\ messages = 1 /\ messages' = 0 /\ reading = 0
          /\ UNCHANGED <<stack, desired_sstable_offset, reading>>
      BY <2>5 DEF Completion, Inv, ServeInv, Chains, walk, chains
    <3>2. CASE res # "silent"
      <4>1. cur_min_invalid_offset' = 0 /\ pc' = "tree"
        BY <2>5, <3>2, Zenon DEF Completion
      <4>2. PastEnd'
        BY <3>1, <4>1 DEF PastEnd, EndInv
      <4> QED
        BY <3>1, <4>1, <4>2 DEF StepsLeft
    <3>3. CASE res = "silent"
      <4>1. pc' = "turn"
        BY <2>5, <3>1, <3>3, Zenon DEF Completion
      <4> QED
        BY <3>1, <4>1 DEF StepsLeft
    <3> QED
      BY <3>2, <3>3, Zenon
  <2>6. CASE Kernel
    <3>1. KernelReads
      BY <2>6 DEF Kernel, KernelWrites, Inv, ServeInv, Chains
    <3>2. /\ reading = 1 /\ reading' = 0 /\ messages = 0 /\ pc # "tree" /\ UNCHANGED <<stack, pc>>
      BY <3>1 DEF KernelReads, Post, walk, serveVars, Inv, ServeInv, Chains
    <3>3. messages' \in {0, 1}
      BY Zenon, <3>1, <3>2, PostSends DEF KernelReads
    <3> QED
      BY <3>2, <3>3 DEF StepsLeft
  <2> QED
    BY <2>1, <2>2, <2>3, <2>4, <2>5, <2>6, <2>7, Zenon DEF Next, GoOn
<1> QED
  BY <1>1, AnswerInvariant, EndInvariant, PTL DEF Spec, BatchAdvances

\* No batch is left half-way, for any number of batches and any order of completions.
THEOREM NoneForgotten == Spec => []NoBatchForgotten
<1>1. Inv /\ AnswerInv /\ TypeOK => NoBatchForgotten
  <2> SUFFICES ASSUME Inv, AnswerInv, TypeOK, level = "last", Live, ~Stuck
               PROVE  \/ Len(replied) + Len(sq) = taken
                      \/ Len(replied) + Len(sq) = taken - 1 /\ StepsLeft > 0
    BY Zenon DEF NoBatchForgotten
  <2>1. /\ Len(replied) + Len(sq) = taken - stack.back
        /\ taken \in Nat /\ stack.back \in {0, 1}
    BY Zenon DEF Live, AnswerInv, InOrder, Inv, StackInv
  <2>2. CASE stack.back = 0
    BY <2>1, <2>2
  <2>3. CASE stack.back = 1
    <3>1. CASE pc = "tree"
      BY <2>1, <2>3, <3>1 DEF StepsLeft
    <3>2. CASE pc = "turn"
      <4>1. waiting_on_io /\ Chains = 1 /\ writing = 0
        BY <2>3, <3>2 DEF Inv, ServeInv, Stuck, Chains
      <4>2. messages > 0 \/ reading > 0
        BY <4>1 DEF Inv, ServeInv, Chains
      <4> QED
        BY <2>1, <2>3, <3>2, <4>2 DEF StepsLeft
    <3> QED
      BY <3>1, <3>2, Zenon DEF TypeOK
  <2> QED
    BY <2>1, <2>2, <2>3, Zenon
<1> QED
  BY <1>1, AnswerInvariant, TypeCorrect, PTL
==============================================================================
