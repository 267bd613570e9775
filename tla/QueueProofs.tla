----------------------------- MODULE QueueProofs -----------------------------
(***************************************************************************)
(* Proofs about the wait queues, about the one-byte guards, and about the  *)
(* flags that tell which queues are used without a guard.                  *)
(*                                                                         *)
(* The list of a wait queue: types and the order of delivery hold in every *)
(* mode; its safety and its refinement of a FIFO queue hold when one       *)
(* thread both pushes and polls, which is what the single-thread flag is   *)
(* meant to say.  The flags: for every configuration of the tree with      *)
(* whole levels per worker, which of them say so rightly.                  *)
(***************************************************************************)
EXTENDS WaitQueue, Sharing, FiniteSetTheorems, TLAPS

\* guard.size wraps around within its range.
LEMMA WrapRange ==
  ASSUME NEW n \in 0..(UintMod - 1)
  PROVE  /\ (n + 1) % UintMod \in 0..(UintMod - 1)
         /\ (n - 1) % UintMod \in 0..(UintMod - 1)
  BY QueueAssumption

\* Every variable keeps its type in both modes of the queue, whichever threads
\* push and poll: the counter wraps within atomic_uint, and node pointers are
\* nullptr or nodes (request_batch_wait_queue.hpp, all of it).
THEOREM TypeCorrect == Spec => []TypeOK
<1> DEFINE TypeInv == TypeOK /\ RoomToAllocate
<1>1. Init => TypeInv
  <2> SUFFICES ASSUME Init PROVE TypeOK /\ RoomToAllocate
    BY Zenon
  <2>1. pc = [t \in Threads |-> "idle"] /\ Producer \in Threads
    BY Zenon DEF Init, Threads
  <2>2. RoomToAllocate /\ pc \in [Threads -> {"idle"} \cup PushLabels \cup PopLabels]
    BY <2>1, Zenon DEF RoomToAllocate
  <2>3. size \in 0..(UintMod - 1) /\ allocated \in 0..MaxNodes
    BY QueueAssumption DEF Init
  <2> QED
    BY Zenon, <2>2, <2>3 DEF Init, TypeOK, Null
<1>2. TypeInv /\ [Next]_vars => TypeInv'
  <2> SUFFICES ASSUME TypeOK, RoomToAllocate, [Next]_vars
               PROVE  TypeOK' /\ RoomToAllocate'
    BY Zenon
  <2> USE QueueAssumption DEF QueueAssumption, TypeOK, RoomToAllocate, Node, Null, Threads, Goto,
            PushLabels, PopLabels, listVars, guardVars, localVars, doneVars
  <2>1. ASSUME NEW c \in BOOLEAN, TryPushBack(Producer, c)
        PROVE  TypeOK' /\ RoomToAllocate'
    BY <2>1, SMTT(20) DEF TryPushBack, BranchOnSize
  <2>2. CASE StandardPushBack(Producer)
    BY <2>2, SMTT(20) DEF StandardPushBack, NoFront
  <2>3. CASE StoreBack(Producer)
    BY <2>3, SMTT(20) DEF StoreBack, Allocate
  <2>4. CASE StoreFront(Producer)
    BY <2>4, SMTT(20) DEF StoreFront, ListUpdated, PushDone
  <2>5. CASE Link(Producer)
    BY <2>5, SMTT(20) DEF Link, Allocate
  <2>6. CASE MoveBack(Producer)
    BY <2>6, SMTT(20) DEF MoveBack, BackMoved, ListUpdated, PushDone
  <2>7. CASE AddSize(Producer)
    <3>1. (size + 1) % UintMod \in 0..(UintMod - 1)
      <4> HIDE QueueAssumption DEF QueueAssumption
      <4> QED BY WrapRange, Zenon
    <3>2. size' \in 0..(UintMod - 1)
      BY <2>7, <3>1, Zenon DEF AddSize
    <3> QED
      BY <2>7, <3>2 DEF AddSize, PushDone
  <2>8. CASE PopFront(Consumer)
    <3>1. CASE is_single_thread /\ front = Null
      BY <2>8, <3>1 DEF PopFront, IsEmpty
    <3>2. CASE is_single_thread /\ front # Null
      BY <2>8, <3>2 DEF PopFront, IsEmpty
    <3>3. CASE ~is_single_thread
      BY <2>8, <3>3, Zenon DEF PopFront, IsEmpty
    <3> QED
      BY <3>1, <3>2, <3>3, Zenon
  <2>9. CASE SubSize(Consumer)
    <3>1. (size - 1) % UintMod \in 0..(UintMod - 1)
      <4> HIDE QueueAssumption DEF QueueAssumption
      <4> QED BY WrapRange, Zenon
    <3>2. size' \in 0..(UintMod - 1)
      BY <2>9, <3>1, Zenon DEF SubSize
    <3> QED
      BY <2>9, <3>2 DEF SubSize
  <2>10. CASE ReadFront(Consumer)
    BY <2>10, Zenon DEF ReadFront
  <2>11. CASE Advance(Consumer)
    BY <2>11, SMTT(20) DEF Advance, PopDone, Returned
  <2>12. CASE ReleaseConsumerGuard(Consumer)
    BY <2>12, SMTT(20) DEF ReleaseConsumerGuard
  <2>13. CASE DeleteNode(Consumer)
    BY <2>13, SMTT(20) DEF DeleteNode, PopDone, Returned
  <2>14. CASE UNCHANGED vars
    BY <2>14, SMTT(20) DEF vars
  <2> QED
    BY Zenon, <2>1, <2>2, <2>3, <2>4, <2>5, <2>6, <2>7, <2>8, <2>9, <2>10, <2>11, <2>12,
       <2>13, <2>14 DEF Next, Push, Pop
<1> QED
  BY <1>1, <1>2, PTL DEF Spec

-----------------------------------------------------------------------------
\* What one step of the only thread that uses a single-thread queue does to the
\* list: standard_push_back and the first branch of pop_front keep its shape.
LEMMA OneThreadStep ==
  ASSUME Producer = Consumer, is_single_thread = TRUE,
         TypeOK, TypeOK', OneThreadInv, [Next]_vars
  PROVE  OneThreadInv'
<1> USE QueueAssumption DEF TypeOK, OneThreadInv, Between, Node, Null, Threads, Goto,
          listVars, guardVars, localVars, doneVars
<1>1. ASSUME NEW c \in BOOLEAN, TryPushBack(Producer, c)
      PROVE  OneThreadInv'
  BY <1>1, Zenon DEF TryPushBack
<1>2. CASE StandardPushBack(Producer)
  BY <1>2, SMTT(20) DEF StandardPushBack, NoFront
<1>3. CASE StoreBack(Producer)
  BY <1>3, SMTT(20) DEF StoreBack, Allocate
<1>4. CASE StoreFront(Producer)
  BY <1>4, SMTT(20) DEF StoreFront, ListUpdated, PushDone
<1>5. CASE Link(Producer)
  BY <1>5, SMTT(20) DEF Link, Allocate
<1>6. CASE MoveBack(Producer)
  BY <1>6, SMTT(20) DEF MoveBack, BackMoved, ListUpdated, PushDone
<1>7. CASE PopFront(Consumer)
  BY <1>7, SMTT(20) DEF PopFront, IsEmpty
<1>8. CASE ReadFront(Consumer)
  BY <1>8, SMTT(20) DEF ReadFront
<1>9. CASE Advance(Consumer)
  BY <1>9, SMTT(20) DEF Advance, PopDone, Returned
<1>10. CASE DeleteNode(Consumer)
  BY <1>10, SMTT(20) DEF DeleteNode, PopDone, Returned
<1>11. CASE UNCHANGED vars
  BY <1>11, SMTT(20) DEF vars
<1>12. CASE AddSize(Producer) \/ SubSize(Consumer) \/ ReleaseConsumerGuard(Consumer)
  BY <1>12, Zenon DEF AddSize, SubSize, ReleaseConsumerGuard
<1> QED
  BY Zenon, <1>1, <1>2, <1>3, <1>4, <1>5, <1>6, <1>7, <1>8, <1>9, <1>10, <1>11, <1>12
     DEF Next, Push, Pop

\* A queue used by one thread never touches nullptr or a deleted node, and its
\* list is as OneThreadInv describes it at every point of every operation.
THEOREM OneThreadListShape ==
  ASSUME Producer = Consumer, is_single_thread = TRUE
  PROVE  Spec => []OneThreadInv
<1>1. Init => OneThreadInv
  BY QueueAssumption DEF Init, OneThreadInv, Between, Node, Null, Threads
<1>2. TypeOK /\ TypeOK' /\ OneThreadInv /\ [Next]_vars => OneThreadInv'
  BY OneThreadStep, Zenon
<1> QED
  BY <1>1, <1>2, TypeCorrect, PTL DEF Spec

\* The single-threaded standard_push_back and pop_front never dereference nullptr
\* or a deleted node and never delete a node twice.
THEOREM OneThreadNoFault ==
  ASSUME Producer = Consumer, is_single_thread = TRUE
  PROVE  Spec => []NoFault
<1>1. OneThreadInv => NoFault
  BY Zenon DEF OneThreadInv, NoFault
<1> QED
  BY <1>1, OneThreadListShape, PTL

\* Between two operations of the only thread, the nodes in the heap are the batches
\* that wait, and all of them are on the path from front.
THEOREM OneThreadNothingLost ==
  ASSUME Producer = Consumer, is_single_thread = TRUE
  PROVE  Spec => []NothingLost
<1>1. TypeOK /\ OneThreadInv => NothingLost
  BY DEF OneThreadInv, NothingLost, TypeOK, Between, Threads, Node, Null
<1> QED
  BY <1>1, TypeCorrect, OneThreadListShape, PTL

\* The single-threaded linked list implements the FIFO queue: a push returns with
\* the batch at the end, a pop returns the oldest batch, and nullptr is returned
\* by an empty queue only.
THEOREM OneThreadFifo ==
  ASSUME Producer = Consumer, is_single_thread = TRUE
  PROVE  Spec => ImplementsFifo
<1>1. Init => Fifo!FifoInit
  BY Zenon DEF Init, Null, Fifo!FifoInit
<1>2. TypeOK /\ OneThreadInv /\ [Next]_vars => [Fifo!FifoNext]_(Fifo!fifoVars)
  <2> SUFFICES ASSUME TypeOK, OneThreadInv, [Next]_vars
               PROVE  [Fifo!FifoNext]_(Fifo!fifoVars)
    BY Zenon
  <2> USE DEF TypeOK, OneThreadInv, Between, Null, Threads, doneVars,
              Fifo!fifoVars, Fifo!FifoNext
  <2>1. CASE StoreFront(Producer) \/ MoveBack(Producer)
    BY <2>1, Zenon DEF StoreFront, MoveBack, BackMoved, ListUpdated, PushDone, Fifo!Enqueue
  <2>2. CASE Advance(Consumer)
    BY <2>2, Zenon DEF Advance, PopDone, Returned, Fifo!Dequeue
  <2>3. CASE PopFront(Consumer)
    BY <2>3 DEF PopFront, IsEmpty, Fifo!PollEmpty
  <2>4. CASE \/ \E c \in BOOLEAN : TryPushBack(Producer, c)
             \/ StandardPushBack(Producer) \/ StoreBack(Producer) \/ Link(Producer)
             \/ ReadFront(Consumer) \/ DeleteNode(Consumer) \/ UNCHANGED vars
    BY <2>4, Zenon DEF TryPushBack, StandardPushBack, NoFront, StoreBack, Link, ReadFront, DeleteNode, vars
  <2>5. CASE AddSize(Producer) \/ SubSize(Consumer) \/ ReleaseConsumerGuard(Consumer)
    BY <2>5, Zenon DEF AddSize, SubSize, ReleaseConsumerGuard
  <2> QED
    BY <2>1, <2>2, <2>3, <2>4, <2>5, Zenon DEF Next, Push, Pop
<1> QED
  BY <1>1, <1>2, TypeCorrect, OneThreadListShape, PTL DEF Spec, ImplementsFifo, Fifo!FifoSpec

\* How far the poll at hand is from handing out the oldest batch.
PollSteps ==
  CASE pc[Consumer] = "idle"    -> 4
    [] pc[Consumer] = "read"    -> 3
    [] pc[Consumer] = "free"    -> 2
    [] pc[Consumer] = "advance" -> 1
    [] OTHER                    -> 0

\* While a batch waits in a queue of one thread, every step of a poll brings the worker nearer
\* to the oldest one, and the last step hands it out: no poll turns back with nothing.
PollsReachBatch ==
  [][pops < pushes /\ Pop(Consumer) =>
       \/ pops' = pops + 1 /\ ret' = pops'
       \/ pops' = pops /\ PollSteps' = PollSteps - 1]_vars

\* The worker that polls its own queue never comes away empty-handed while a batch waits;
\* EveryBatchDelivered rests on it.
THEOREM PollsSucceed ==
  ASSUME Producer = Consumer, is_single_thread = TRUE
  PROVE  Spec => PollsReachBatch
<1>1. TypeOK /\ OneThreadInv /\ [Next]_vars =>
        [pops < pushes /\ Pop(Consumer) =>
           \/ pops' = pops + 1 /\ ret' = pops'
           \/ pops' = pops /\ PollSteps' = PollSteps - 1]_vars
  <2> SUFFICES ASSUME TypeOK, OneThreadInv, pops < pushes, Pop(Consumer)
               PROVE  \/ pops' = pops + 1 /\ ret' = pops'
                      \/ pops' = pops /\ PollSteps' = PollSteps - 1
    BY Zenon
  <2>0. /\ pc \in [Threads -> {"idle"} \cup PushLabels \cup PopLabels] /\ Consumer \in Threads
        /\ pops \in Nat /\ pushes \in Nat
    BY Zenon DEF TypeOK, Threads
  <2>1. CASE PopFront(Consumer)
    <3>1. ~IsEmpty
      BY DEF OneThreadInv, IsEmpty, Null, TypeOK
    <3> QED
      BY <2>0, <2>1, <3>1 DEF PopFront, Goto, PollSteps
  <2>2. CASE ReadFront(Consumer)
    BY <2>0, <2>2 DEF ReadFront, Goto, PollSteps, doneVars
  <2>3. CASE DeleteNode(Consumer)
    BY <2>0, <2>3 DEF DeleteNode, Goto, PollSteps, doneVars
  <2>4. CASE Advance(Consumer)
    <3>1. old = pops + 1
      BY <2>4, Zenon DEF Advance, OneThreadInv, Between
    <3> QED
      BY <2>4, <3>1, Zenon DEF Advance, PopDone, Returned
  <2>5. ~SubSize(Consumer) /\ ~ReleaseConsumerGuard(Consumer)
    BY Zenon DEF OneThreadInv, SubSize, ReleaseConsumerGuard
  <2> QED
    BY <2>1, <2>2, <2>3, <2>4, <2>5, Zenon DEF Pop
<1> QED
  BY <1>1, TypeCorrect, OneThreadListShape, PTL DEF Spec, PollsReachBatch

-----------------------------------------------------------------------------
\* The list keeps its order in every step of either thread, whether it is flagged
\* single-threaded or not and whether one or two threads use it: also where the
\* unguarded accesses of try_push_back and pop_front lose batches.
LEMMA OrderStep ==
  ASSUME TypeOK, TypeOK', OrderInv, [Next]_vars
  PROVE  OrderInv'
<1> USE QueueAssumption DEF TypeOK, OrderInv, Younger, Node, Null, Threads, Goto,
          listVars, guardVars, localVars, doneVars
<1>1. ASSUME NEW c \in BOOLEAN, TryPushBack(Producer, c)
      PROVE  OrderInv'
  BY <1>1, Zenon DEF TryPushBack, BranchOnSize
<1>2. CASE StandardPushBack(Producer)
  BY <1>2, Zenon DEF StandardPushBack, NoFront
<1>3. CASE StoreBack(Producer)
  BY <1>3 DEF StoreBack, Allocate
<1>4. CASE StoreFront(Producer)
  BY <1>4 DEF StoreFront, ListUpdated, PushDone
<1>5. CASE Link(Producer)
  BY <1>5 DEF Link, Allocate
<1>6. CASE MoveBack(Producer)
  BY <1>6 DEF MoveBack, BackMoved, ListUpdated, PushDone
<1>7. CASE AddSize(Producer)
  BY <1>7, Zenon DEF AddSize, PushDone
<1>8. CASE PopFront(Consumer)
  BY <1>8 DEF PopFront, IsEmpty
<1>9. CASE SubSize(Consumer)
  BY <1>9, Zenon DEF SubSize
<1>10. CASE ReadFront(Consumer)
  <2>1. CASE front \in live
    <3>1. front # Null /\ ~fault /\ pc[Consumer] = "read"
      BY <1>10, <2>1 DEF ReadFront
    <3>2. pc' = [pc EXCEPT ![Consumer] = IF is_single_thread THEN "free" ELSE "advance"]
      BY <1>10, Zenon DEF ReadFront
    <3>3. saved' = next[front] /\ old' = front /\ UNCHANGED <<front, back, next, allocated, mine, ret>>
      BY <1>10, <2>1, Zenon DEF ReadFront
    <3>4. pc'[Producer] = "store_front" => pc[Producer] = "store_front"
      BY <3>2, Zenon
    <3>5. pc'[Consumer] \in {"free", "advance"} /\ (~is_single_thread => pc'[Consumer] = "advance")
      BY <3>2, Zenon
    <3> QED
      BY <3>1, <3>3, <3>4, <3>5
  <2>2. CASE front \notin live
    BY Zenon, <1>10, <2>2 DEF ReadFront
  <2> QED
    BY <2>1, <2>2, Zenon
<1>11. CASE Advance(Consumer)
  BY <1>11 DEF Advance, PopDone, Returned
<1>12. CASE ReleaseConsumerGuard(Consumer)
  BY <1>12, Zenon DEF ReleaseConsumerGuard
<1>13. CASE DeleteNode(Consumer)
  BY <1>13 DEF DeleteNode, PopDone, Returned
<1>14. CASE UNCHANGED vars
  BY <1>14 DEF vars
<1> QED
  BY Zenon, <1>1, <1>2, <1>3, <1>4, <1>5, <1>6, <1>7, <1>8, <1>9, <1>10, <1>11, <1>12, <1>13, <1>14
     DEF Next, Push, Pop

\* A wait queue hands out batches in the order in which they were pushed and none twice,
\* for any number of batches and any interleaving of the pushing and the polling thread
\* (request_batch_wait_queue.hpp:46-153).
THEOREM OrderOfDelivery == Spec => DeliveredInOrder
<1>1. Init => OrderInv
  BY QueueAssumption DEF Init, OrderInv, Younger, Node, Null, Threads
<1>2. TypeOK /\ TypeOK' /\ OrderInv /\ [Next]_vars => OrderInv'
  BY OrderStep, Zenon
<1>3. TypeOK /\ OrderInv /\ [Next]_vars => [pops' # pops => ret' > ret]_vars
  <2> SUFFICES ASSUME TypeOK, OrderInv, [Next]_vars, pops' # pops
               PROVE  ret' > ret
    BY Zenon
  <2>1. CASE Advance(Consumer) \/ DeleteNode(Consumer)
    BY <2>1, Zenon DEF Advance, DeleteNode, PopDone, Returned, OrderInv, TypeOK, Node, Null, doneVars
  <2>2. CASE Push(Producer)
    BY <2>2, Zenon DEF Push, TryPushBack, StandardPushBack, StoreBack, StoreFront, Link, MoveBack,
                AddSize, ListUpdated, PushDone, doneVars
  <2>3. CASE PopFront(Consumer) \/ SubSize(Consumer) \/ ReadFront(Consumer)
               \/ ReleaseConsumerGuard(Consumer) \/ UNCHANGED vars
    BY <2>3, Zenon DEF PopFront, SubSize, ReadFront, ReleaseConsumerGuard, doneVars, vars
  <2> QED
    BY <2>1, <2>2, <2>3, Zenon DEF Next, Pop
<1> QED
  BY <1>1, <1>2, <1>3, TypeCorrect, PTL DEF Spec, DeliveredInOrder

-----------------------------------------------------------------------------
(***************************************************************************)
(* The guards, for any sets of threads.                                    *)
(***************************************************************************)
\* Once a guard holds the value of a taken guard, every exchange and every store in
\* the code leaves it there.
LEMMA GuardStaysTaken == GuardSpec => [](GuardTypeOK /\ atomic_guard # 0)
<1>1. 1 # 0 /\ Slash # 0
  BY DEF Slash
<1>2. GuardInit => GuardTypeOK /\ atomic_guard # 0
  BY <1>1, Zenon DEF GuardInit, GuardTypeOK
<1>3. GuardTypeOK /\ atomic_guard # 0 /\ [GuardNext]_lockVars => (GuardTypeOK /\ atomic_guard # 0)'
  BY <1>1, Zenon DEF GuardTypeOK, GuardNext, lockVars, StartSpin, StartTry, Spin, Try, Exchange, GiveUp,
         Release, Seen, Stored
<1> QED
  BY <1>2, <1>3, PTL DEF GuardSpec

\* Guards and expected values stay 0, 1 or '/' (lsm_tree.hpp, every use of a guard).
THEOREM GuardTypeCorrect == GuardSpec => []GuardTypeOK
  BY GuardStaysTaken, PTL

\* No trylock on a guard ever succeeds, for any number of threads: the guard holds 1, or
\* what startup writes over it, from its initialisation on, and a trylock expects 0.
THEOREM TryLockDead == GuardSpec => []TryLockNeverSucceeds
<1> DEFINE Inv == GuardTypeOK /\ atomic_guard # 0 /\ TryLockNeverSucceeds
<1>1. GuardInit => Inv
  BY DEF GuardInit, GuardTypeOK, TryLockNeverSucceeds, GuardThreads, Slash
<1>2. Inv /\ [GuardNext]_lockVars => Inv'
  BY DEF GuardTypeOK, TryLockNeverSucceeds, GuardThreads, GuardNext, lockVars, StartSpin, StartTry, Spin,
         Try, Exchange, GiveUp, Release, Seen, Stored
<1> QED
  BY <1>1, <1>2, PTL DEF GuardSpec

(***************************************************************************)
(* The same in the tree, where workers in several roles use one guard:     *)
(* what makes a gift reach a queue is the flag, never the guard.           *)
(***************************************************************************)
GiftInv ==
  /\ GuardTypeOK /\ atomic_guard = 1 /\ TryLockNeverSucceeds
  /\ given # {} => phase = "done" /\ Flagged

\* Every step of initialize and of the workers preserves it.
LEMMA GiftsNeedAFlag == SharingSpec => []GiftInv
<1>1. SharingInit => GiftInv
  BY Zenon DEF SharingInit, GiftInv, GuardInit, GuardTypeOK, TryLockNeverSucceeds, GuardThreads
<1>2. GiftInv /\ [SharingNext]_sharingVars => GiftInv'
  <2> SUFFICES ASSUME GiftInv, [SharingNext]_sharingVars PROVE GiftInv'
    BY Zenon
  <2>1. CASE FirstLevel \/ InnerLevel \/ DivideByZero \/ LastLevel
    BY <2>1, Zenon DEF FirstLevel, InnerLevel, DivideByZero, LastLevel, GiftInv, GuardTypeOK,
                TryLockNeverSucceeds, lockVars
  <2>2. ASSUME NEW t \in GuardThreads,
               BeginBlocking(t) \/ BeginTry(t) \/ GoOn(t) \/ Leave(t)
                 \/ \E succeeds \in BOOLEAN : Block(t, succeeds) \/ TryOnce(t, succeeds)
        PROVE  GiftInv'
    <3>1. /\ UNCHANGED <<phase, given, queue, flags>>
          /\ \/ StartSpin(t) \/ StartTry(t) \/ GiveUp(t) \/ Release(t)
             \/ \E succeeds \in BOOLEAN : Spin(t, succeeds) \/ Try(t, succeeds)
      BY <2>2, Zenon DEF BeginBlocking, BeginTry, GoOn, Leave, Block, TryOnce, GuardStep
    <3>2. (GuardTypeOK /\ atomic_guard = 1 /\ TryLockNeverSucceeds)'
      BY <3>1 DEF GiftInv, GuardTypeOK, TryLockNeverSucceeds, StartSpin, StartTry, Spin, Try,
                  Exchange, GiveUp, Release, Seen, Stored
    <3> QED
      BY <3>1, <3>2, Zenon DEF GiftInv, Flagged, flags
  <2>3. ASSUME NEW t \in GuardThreads, Give(t) PROVE GiftInv'
    BY <2>3, Zenon DEF Give, Access, Running, GiftInv, GuardTypeOK, TryLockNeverSucceeds, Flagged, flags, lockVars
  <2>4. CASE UNCHANGED sharingVars
    BY <2>4, Zenon DEF sharingVars, lockVars, flags, GiftInv, GuardTypeOK, TryLockNeverSucceeds, Flagged
  <2> QED
    BY <2>1, <2>2, <2>3, <2>4, Zenon DEF SharingNext
<1> QED
  BY <1>1, <1>2, PTL DEF SharingSpec

\* In a tree of any shape with any number of workers, no worker ever gets the guard of a
\* buffer queue by a trylock (lsm_tree.hpp:823-825, 1005-1007, 1184-1187).
THEOREM TreeTryLockDead == SharingSpec => []TryLockNeverSucceeds
<1>1. GiftInv => TryLockNeverSucceeds
  BY Zenon DEF GiftInv
<1> QED
  BY <1>1, GiftsNeedAFlag, PTL

\* Buffers never go down to a queue that is not flagged single-threaded, whatever the
\* threads do with its guard: the loop that waits to give them there never ends
\* (lsm_tree.hpp:1170-1200).
THEOREM OnlyFlaggedQueuesGiven == SharingSpec => [](given # {} => Flagged)
<1>1. GiftInv => (given # {} => Flagged)
  BY Zenon DEF GiftInv
<1> QED
  BY <1>1, GiftsNeedAFlag, PTL

\* A waiting thread whose exchange can succeed.
Ready(t) == at[t] = "spinning" /\ my_zero[t] = atomic_guard

\* A failed exchange teaches a thread that waits for a guard in a loop the value the guard
\* has, and from then on its exchange can succeed at any time, whatever the other threads do
\* with the guard meanwhile: all they store is the value it already has.
SpinnersStayReady ==
  [][\A t \in GuardThreads :
       /\ Block(t, FALSE) => Ready(t)'
       /\ Ready(t) => Ready(t)' \/ at'[t] = "inside"]_sharingVars

\* After one failed exchange nothing keeps a blocking caller out but spurious failures, in a
\* tree of any shape; SpinConverges rests on it (lsm_tree.hpp:88).
THEOREM OneFailureIsEnough == SharingSpec => SpinnersStayReady
<1>1. GiftInv /\ [SharingNext]_sharingVars =>
        [\A t \in GuardThreads :
           /\ Block(t, FALSE) => Ready(t)'
           /\ Ready(t) => Ready(t)' \/ at'[t] = "inside"]_sharingVars
  <2> SUFFICES ASSUME GiftInv, SharingNext, NEW t \in GuardThreads
               PROVE  /\ Block(t, FALSE) => Ready(t)'
                      /\ Ready(t) => Ready(t)' \/ at'[t] = "inside"
    BY Zenon
  <2>1. GuardTypeOK /\ atomic_guard = 1
    BY Zenon DEF GiftInv
  <2>2. ASSUME Block(t, FALSE) PROVE Ready(t)'
    BY <2>1, <2>2, Zenon DEF Block, Spin, Exchange, Seen, Ready, GuardTypeOK
  <2>3. ASSUME Ready(t) PROVE Ready(t)' \/ at'[t] = "inside"
    <3>1. CASE UNCHANGED lockVars
      BY <2>3, <3>1, Zenon DEF lockVars, Ready
    <3>2. ASSUME NEW u \in GuardThreads, StartSpin(u) \/ StartTry(u) \/ GiveUp(u) \/ Release(u)
          PROVE  Ready(t)'
      <4>1. u # t
        BY <2>3, <3>2, Zenon DEF Ready, StartSpin, StartTry, GiveUp, Release
      <4> QED
        BY <2>1, <2>3, <3>2, <4>1, Zenon DEF Ready, StartSpin, StartTry, GiveUp, Release, Stored, GuardTypeOK
    <3>3. ASSUME NEW u \in GuardThreads, NEW succeeds \in BOOLEAN, Spin(u, succeeds) \/ Try(u, succeeds)
          PROVE  Ready(t)' \/ at'[t] = "inside"
      <4>1. CASE u = t
        BY <2>1, <2>3, <3>3, <4>1, Zenon DEF Ready, Spin, Try, Exchange, Seen, GuardTypeOK
      <4>2. CASE u # t
        BY <2>1, <2>3, <3>3, <4>2, Zenon DEF Ready, Spin, Try, Exchange, Seen, GuardTypeOK
      <4> QED
        BY <4>1, <4>2, Zenon
    <3>4. \/ UNCHANGED lockVars
          \/ \E u \in GuardThreads : StartSpin(u) \/ StartTry(u) \/ GiveUp(u) \/ Release(u)
          \/ \E u \in GuardThreads, succeeds \in BOOLEAN : Spin(u, succeeds) \/ Try(u, succeeds)
      BY Zenon DEF SharingNext, FirstLevel, InnerLevel, DivideByZero, LastLevel, BeginBlocking,
             BeginTry, GoOn, Leave, Give, Block, TryOnce
    <3> QED
      BY <3>1, <3>2, <3>3, <3>4, Zenon
  <2> QED
    BY Zenon, <2>2, <2>3
<1> QED
  BY <1>1, GiftsNeedAFlag, PTL DEF SharingSpec, SpinnersStayReady

-----------------------------------------------------------------------------
(***************************************************************************)
(* The flags, for every configuration.  First what division does.          *)
(***************************************************************************)

\* What division leaves.
LEMMA Remainder ==
  ASSUME NEW x \in Int, NEW d \in Int, d > 0, NEW k \in Int, NEW m \in Int,
         k = x \div d, m = x % d
  PROVE  x = d * k + m
  OBVIOUS

\* The same of natural numbers: quotient and remainder.
LEMMA DivMod ==
  ASSUME NEW x \in Nat, NEW d \in Nat \ {0}
  PROVE  \E k \in Nat, m \in 0..(d - 1) : k = x \div d /\ m = x % d /\ x = d * k + m
<1>1. PICK k \in Nat, m \in 0..(d - 1) : k = x \div d /\ m = x % d
  OBVIOUS
<1>2. x \in Int /\ d \in Int /\ d > 0 /\ k \in Int /\ m \in Int
  OBVIOUS
<1>3. x = d * k + m
  BY <1>1, <1>2, Remainder
<1> QED
  BY Zenon, <1>1, <1>3

\* Multiplication by a natural number is monotone.
LEMMA TimesMonotone ==
  ASSUME NEW d \in Nat, NEW a \in Int, NEW b \in Int, a <= b
  PROVE  d * a <= d * b
  BY Z3

\* A quotient is recognised by its remainder.
LEMMA QuotientIs ==
  ASSUME NEW x \in Nat, NEW d \in Nat \ {0}, NEW a \in Int, NEW s \in 0..(d - 1),
         x = d * a + s
  PROVE  x \div d = a
<1>1. PICK k \in Nat, m \in 0..(d - 1) : k = x \div d /\ x = d * k + m
  BY DivMod
<1>2. d * (a + 1) = d * a + d /\ d * (k + 1) = d * k + d
  BY <1>1, Z3
<1>3. CASE a < k
  <2>1. d * (a + 1) <= d * k
    BY <1>1, <1>3, TimesMonotone
  <2> QED
    BY <2>1, <1>1, <1>2, Z3
<1>4. CASE k < a
  <2>1. d * (k + 1) <= d * a
    BY <1>1, <1>4, TimesMonotone
  <2> QED
    BY <2>1, <1>1, <1>2, Z3
<1> QED
  BY <1>1, <1>3, <1>4

\* If a worker has q whole levels of f sstables, then the sstables of level l belong to
\* worker l / q.
LEMMA OwnerOfLevel ==
  ASSUME NEW l \in Nat, NEW f \in Nat \ {0}, NEW q \in Nat \ {0}, NEW j \in 0..(f - 1)
  PROVE  (l * f + j) \div (q * f) = l \div q
<1>1. PICK a \in Nat, r \in 0..(q - 1) : a = l \div q /\ r = l % q /\ l = q * a + r
  BY DivMod, Zenon
<1>2. q * f \in Nat \ {0}
  BY Z3
<1>3. l * f + j = (q * f) * a + (r * f + j) /\ l * f + j \in Nat
  <2>1. l = q * a + r
    BY <1>1, Zenon
  <2> HIDE <1>1
  <2>2. (q * a + r) * f = (q * f) * a + r * f
    BY Z3
  <2>3. l * f \in Nat
    BY Z3
  <2> QED
    BY <2>1, <2>2, <2>3
<1>4. r * f + j \in 0..(q * f - 1)
  <2>1. f * r <= f * (q - 1)
    BY <1>1, TimesMonotone
  <2>2. f * (q - 1) = q * f - f /\ f * r = r * f /\ r * f \in Nat
    BY <1>1, Z3
  <2> QED
    BY <2>1, <2>2, <1>1, <1>2
<1>5. (l * f + j) \div (q * f) = a
  <2> DEFINE x == l * f + j
             d == q * f
             s == r * f + j
  <2>1. x \in Nat /\ d \in Nat \ {0} /\ a \in Int /\ s \in 0..(d - 1) /\ x = d * a + s
    BY <1>1, <1>2, <1>3, <1>4
  <2> HIDE DEF x, d, s
  <2>2. x \div d = a
    BY <2>1, QuotientIs, Zenon
  <2> QED
    BY <2>2, Zenon DEF x, d
<1> QED
  BY <1>1, <1>5, Zenon

\* Two neighbouring levels have the same worker unless a batch ends between them.
LEMMA NeighbouringLevels ==
  ASSUME NEW l \in Nat \ {0}, NEW q \in Nat \ {0}
  PROVE  /\ l \div q = (l - 1) \div q <=> l % q > 0
         /\ l \div q = (l + 1) \div q <=> l % q < q - 1
<1>1. PICK a \in Nat, r \in 0..(q - 1) : a = l \div q /\ r = l % q /\ l = q * a + r
  BY DivMod, Zenon
<1>2. q * (a - 1) = q * a - q /\ q * (a + 1) = q * a + q
  BY <1>1, Z3
<1>3. r > 0 => (l - 1) \div q = a
  <2> SUFFICES ASSUME r > 0 PROVE (l - 1) \div q = a
    BY Zenon
  <2>1. l - 1 \in Nat /\ a \in Int /\ r - 1 \in 0..(q - 1) /\ l - 1 = q * a + (r - 1)
    BY <1>1
  <2> QED
    BY <2>1, QuotientIs, Zenon
<1>4. r = 0 => (l - 1) \div q = a - 1
  <2> SUFFICES ASSUME r = 0 PROVE (l - 1) \div q = a - 1
    BY Zenon
  <2>1. l - 1 \in Nat /\ a - 1 \in Int /\ q - 1 \in 0..(q - 1) /\ l - 1 = q * (a - 1) + (q - 1)
    BY <1>1, <1>2
  <2> QED
    BY <2>1, QuotientIs
<1>5. r < q - 1 => (l + 1) \div q = a
  <2> SUFFICES ASSUME r < q - 1 PROVE (l + 1) \div q = a
    BY Zenon
  <2>1. l + 1 \in Nat /\ a \in Int /\ r + 1 \in 0..(q - 1) /\ l + 1 = q * a + (r + 1)
    BY <1>1
  <2> QED
    BY <2>1, QuotientIs, Zenon
<1>6. r = q - 1 => (l + 1) \div q = a + 1
  <2> SUFFICES ASSUME r = q - 1 PROVE (l + 1) \div q = a + 1
    BY Zenon
  <2>1. l + 1 \in Nat /\ a + 1 \in Int /\ 0 \in 0..(q - 1) /\ l + 1 = q * (a + 1) + 0
    BY <1>1, <1>2
  <2> QED
    BY <2>1, QuotientIs, Zenon
<1>7. a # a - 1 /\ a # a + 1
  BY <1>1
<1> QED
  BY <1>1, <1>3, <1>4, <1>5, <1>6, <1>7

-----------------------------------------------------------------------------
(***************************************************************************)
(* What initialize has flagged when it has dealt with the levels below     *)
(* level: a loop over the levels, described level by level.                *)
(***************************************************************************)
LevelsPerWorker == WORKER_SSTABLE_BATCH_SIZE \div LEVEL_FACTOR
LocationOf(l) == l % LevelsPerWorker

Inside(l) == LocationOf(l) > 0
AwayFromEnd(l) == LocationOf(l) < LEVEL_FACTOR - 1

FlagInv ==
  /\ config \in [factor : LevelFactors, tables : TableCounts, workers : WorkerCounts]
  /\ level \in Nat
  /\ phase = "first" => level = 0
  /\ phase = "done" => level >= Last /\ queue \in Level \X Index
  /\ \A l \in 1..(Last - 1) :
       /\ l \in bq_single <=> l < level /\ Inside(l) /\ AwayFromEnd(l)
       /\ \A j \in 0..(LEVEL_FACTOR - 2) : <<l, j>> \in wq_single <=> l < level /\ Inside(l)

\* The constants of a configuration, and what is computed from them, never change.
LEMMA ConfigurationFixed ==
  ASSUME config' = config, NEW l
  PROVE  /\ Last' = Last /\ LEVEL_FACTOR' = LEVEL_FACTOR /\ Level' = Level /\ Index' = Index
         /\ Inside(l)' <=> Inside(l)
         /\ AwayFromEnd(l)' <=> AwayFromEnd(l)
BY Zenon DEF Last, NUM_SSTABLE_LEVELS, NUM_SSTABLES, LEVEL_FACTOR, Level, Index, Inside, AwayFromEnd,
       LocationOf, LevelsPerWorker, WORKER_SSTABLE_BATCH_SIZE

\* The types of what is computed from a configuration.
LEMMA ConfigurationTypes ==
  ASSUME config \in [factor : LevelFactors, tables : TableCounts, workers : WorkerCounts]
  PROVE  /\ LEVEL_FACTOR \in Nat /\ LEVEL_FACTOR > 1
         /\ NUM_SSTABLES \in Nat \ {0} /\ config.workers \in Nat \ {0}
         /\ WORKER_SSTABLE_BATCH_SIZE \in Nat
         /\ Last \in Int
<1>1. LEVEL_FACTOR \in Nat /\ LEVEL_FACTOR > 1 /\ NUM_SSTABLES \in Nat \ {0}
        /\ config.workers \in Nat \ {0}
  <2>1. /\ config.factor \in Nat \ {0, 1}
        /\ config.tables \in Nat \ {0}
        /\ config.workers \in Nat \ {0}
    <3>1. config.factor \in LevelFactors /\ config.tables \in TableCounts
            /\ config.workers \in WorkerCounts
      BY Zenon
    <3> QED
      BY <3>1, ConfigurationAssumption, Zenon
  <2> QED
    BY <2>1 DEF LEVEL_FACTOR, NUM_SSTABLES
<1>2. ASSUME NEW n \in Nat, NEW d \in Nat \ {0} PROVE n \div d \in Nat
  OBVIOUS
<1>3. WORKER_SSTABLE_BATCH_SIZE \in Nat
  BY <1>1, <1>2, Zenon DEF WORKER_SSTABLE_BATCH_SIZE, NUM_SSTABLES
<1>4. NUM_SSTABLE_LEVELS \in Nat
  BY <1>1, <1>2 DEF NUM_SSTABLE_LEVELS
<1> QED
  BY <1>1, <1>3, <1>4 DEF Last

\* Every step of initialize extends the description to the next level, and the workers
\* leave it alone (lsm_tree.hpp:140-186).
LEMMA FlagsDescribed == SharingSpec => []FlagInv
<1>1. SharingInit => FlagInv
  <2> SUFFICES ASSUME SharingInit PROVE FlagInv
    BY Zenon
  <2>1. Last \in Int
    BY ConfigurationTypes, Zenon DEF SharingInit
  <2> QED
    BY <2>1 DEF SharingInit, FlagInv
<1>2. FlagInv /\ [SharingNext]_sharingVars => FlagInv'
  <2> SUFFICES ASSUME FlagInv, [SharingNext]_sharingVars PROVE FlagInv'
    BY Zenon
  <2>1. config' = config
    BY Zenon DEF SharingNext, sharingVars, FirstLevel, InnerLevel, DivideByZero, LastLevel,
           BeginBlocking, BeginTry, GoOn, Leave, Give, Block, TryOnce, GuardStep
  <2>2. /\ LEVEL_FACTOR \in Nat /\ LEVEL_FACTOR > 1 /\ Last \in Int
        /\ level \in Nat
    BY ConfigurationTypes, Zenon DEF FlagInv
  <2>3. /\ Last' = Last /\ LEVEL_FACTOR' = LEVEL_FACTOR /\ Level' = Level /\ Index' = Index
        /\ \A l \in 1..(Last - 1) : (Inside(l)' <=> Inside(l)) /\ (AwayFromEnd(l)' <=> AwayFromEnd(l))
    BY <2>1, ConfigurationFixed, Zenon
  <2> USE <2>1, <2>2, <2>3 DEF FlagInv
  <2>4. CASE FirstLevel
    BY <2>4 DEF FirstLevel
  <2>5. CASE InnerLevel
    <3>1. NotBeginning <=> Inside(level)
      BY Zenon DEF NotBeginning, Location, Inside, LocationOf, LevelsPerWorker
    <3>2. NotEnd <=> AwayFromEnd(level)
      BY Zenon DEF NotEnd, Location, AwayFromEnd, LocationOf, LevelsPerWorker
    <3> QED
      BY <2>5, <3>1, <3>2 DEF InnerLevel
  <2>6. CASE DivideByZero
    BY <2>6 DEF DivideByZero, flags
  <2>7. CASE LastLevel
    BY <2>7 DEF LastLevel
  <2>8. CASE UNCHANGED <<level, flags, phase, queue>>
    BY <2>8, Zenon DEF flags
  <2>9. CASE \E t \in GuardThreads : BeginBlocking(t) \/ BeginTry(t) \/ GoOn(t) \/ Leave(t) \/ Give(t)
    BY <2>9, <2>8, Zenon DEF BeginBlocking, BeginTry, GoOn, Leave, Give, GuardStep
  <2>10. CASE \E t \in GuardThreads, succeeds \in BOOLEAN : Block(t, succeeds) \/ TryOnce(t, succeeds)
    BY <2>10, <2>8, Zenon DEF Block, TryOnce, GuardStep
  <2>11. CASE UNCHANGED sharingVars
    BY <2>11, <2>8, Zenon DEF sharingVars
  <2> QED
    BY Zenon, <2>4, <2>5, <2>6, <2>7, <2>9, <2>10, <2>11 DEF SharingNext
<1> QED
  BY <1>1, <1>2, PTL DEF SharingSpec

\* A division without a remainder.
LEMMA DividesExactly ==
  ASSUME NEW x \in Nat, NEW d \in Nat \ {0}, x % d = 0
  PROVE  x \div d \in Nat /\ x = d * (x \div d)
<1>1. PICK k \in Nat, m \in 0..(d - 1) : k = x \div d /\ m = x % d /\ x = d * k + m
  BY DivMod, Zenon
<1>2. d * k + 0 = d * k
  OBVIOUS
<1> QED
  BY <1>1, <1>2, Zenon

\* With whole levels, a worker's batch is a number of levels.
LEMMA BatchOfLevels ==
  ASSUME config \in [factor : LevelFactors, tables : TableCounts, workers : WorkerCounts],
         WholeLevels
  PROVE  /\ LevelsPerWorker \in Nat \ {0}
         /\ WORKER_SSTABLE_BATCH_SIZE = LevelsPerWorker * LEVEL_FACTOR
<1>1. /\ LEVEL_FACTOR \in Nat /\ LEVEL_FACTOR > 1
      /\ NUM_SSTABLES \in Nat \ {0} /\ config.workers \in Nat \ {0}
      /\ WORKER_SSTABLE_BATCH_SIZE \in Nat
  BY ConfigurationTypes, Zenon
<1>2. LEVEL_FACTOR \in Nat \ {0} /\ NUM_SSTABLES \in Nat
  BY <1>1
<1>3. /\ NUM_SSTABLES % config.workers = 0
      /\ WORKER_SSTABLE_BATCH_SIZE = NUM_SSTABLES \div config.workers
      /\ WORKER_SSTABLE_BATCH_SIZE % LEVEL_FACTOR = 0
      /\ LevelsPerWorker = WORKER_SSTABLE_BATCH_SIZE \div LEVEL_FACTOR
  BY Zenon DEF WholeLevels, WORKER_SSTABLE_BATCH_SIZE, NUM_SSTABLES, LevelsPerWorker
<1>4. NUM_SSTABLES = config.workers * WORKER_SSTABLE_BATCH_SIZE
  BY <1>1, <1>2, <1>3, DividesExactly, Zenon
<1>5. WORKER_SSTABLE_BATCH_SIZE # 0
  BY <1>1, <1>4
<1>6. /\ LevelsPerWorker \in Nat
      /\ WORKER_SSTABLE_BATCH_SIZE = LEVEL_FACTOR * LevelsPerWorker
  BY <1>1, <1>2, <1>3, DividesExactly, Zenon
<1>7. ASSUME NEW q \in Nat, NEW f \in Nat, f * q # 0
      PROVE  q \in Nat \ {0} /\ f * q = q * f
  BY <1>7
<1> QED
  BY <1>2, <1>5, <1>6, <1>7, Zenon

\* The worker of a level.
LEMMA OwnerIs ==
  ASSUME config \in [factor : LevelFactors, tables : TableCounts, workers : WorkerCounts],
         WholeLevels, NEW l \in Nat, NEW j \in Index
  PROVE  Owner(l, j) = l \div LevelsPerWorker
<1>1. LevelsPerWorker \in Nat \ {0} /\ WORKER_SSTABLE_BATCH_SIZE = LevelsPerWorker * LEVEL_FACTOR
  BY BatchOfLevels, Zenon
<1>2. LEVEL_FACTOR \in Nat \ {0} /\ j \in 0..(LEVEL_FACTOR - 1)
  BY ConfigurationTypes DEF Index
<1>3. (l * LEVEL_FACTOR + j) \div (LevelsPerWorker * LEVEL_FACTOR) = l \div LevelsPerWorker
  BY <1>1, <1>2, OwnerOfLevel, Zenon
<1> QED
  BY <1>1, <1>3, Zenon DEF Owner

\* There is one worker to a level.
LEMMA OwnersAre ==
  ASSUME config \in [factor : LevelFactors, tables : TableCounts, workers : WorkerCounts],
         WholeLevels, NEW l \in Level
  PROVE  OwnersOfLevel(l) = {l \div LevelsPerWorker}
<1>1. l \in Nat /\ 0 \in Index
  BY ConfigurationTypes DEF Level, Index
<1>2. \A j \in Index : Owner(l, j) = l \div LevelsPerWorker
  BY <1>1, OwnerIs, Zenon
<1> QED
  BY <1>1, <1>2, Zenon DEF OwnersOfLevel

AnyOf(a, b, c) == {a} \cup {b} \cup {c}

\* Three descriptions of a thread mean one thread only if they agree.
LEMMA OneUser ==
  ASSUME NEW a, NEW b, NEW c
  PROVE  Cardinality(AnyOf(a, b, c)) = 1 <=> a = b /\ a = c
<1>1. IsFiniteSet({a} \cup {b})
  BY Zenon, FS_Singleton, FS_Union
<1>2. IsFiniteSet({a} \cup {b} \cup {c})
  BY Zenon, <1>1, FS_Singleton, FS_Union
<1>3. IsFiniteSet(AnyOf(a, b, c))
  BY <1>2, Zenon DEF AnyOf
<1>4. Cardinality(AnyOf(a, b, c)) = 1 <=> \E x : AnyOf(a, b, c) = {x}
  BY Zenon, <1>3, FS_Singleton
<1>5. (\E x : AnyOf(a, b, c) = {x}) <=> a = b /\ a = c
  BY DEF AnyOf
<1> QED
  BY <1>4, <1>5, Zenon

\* On the levels between the first and the last, a wait queue is flagged exactly if one
\* thread uses it, for all sstables of the level but its last one, in every
\* configuration with whole levels per worker (lsm_tree.hpp:161-164).
THEOREM WaitQueueFlagsExact == SharingSpec => []WqFlagsExact
<1>1. FlagInv => WqFlagsExact
  <2> SUFFICES ASSUME FlagInv, phase = "done", WholeLevels,
                      NEW l \in 1..(Last - 1), NEW j \in 0..(LEVEL_FACTOR - 2)
               PROVE  <<l, j>> \in wq_single <=> Cardinality(WqUsers(l, j)) = 1
    BY Zenon DEF WqFlagsExact
  <2>1. /\ config \in [factor : LevelFactors, tables : TableCounts, workers : WorkerCounts]
        /\ LEVEL_FACTOR \in Nat /\ LEVEL_FACTOR > 1 /\ Last \in Int
        /\ LevelsPerWorker \in Nat \ {0}
    BY ConfigurationTypes, BatchOfLevels, Zenon DEF FlagInv
  <2>2. l \in Nat \ {0} /\ l - 1 \in Level /\ j \in Index
    BY <2>1 DEF Level, Index
  <2>3. WqUsers(l, j) = {l \div LevelsPerWorker} \cup {(l - 1) \div LevelsPerWorker}
    BY <2>1, <2>2, OwnerIs, OwnersAre, Zenon DEF WqUsers
  <2>4. Cardinality(WqUsers(l, j)) = 1 <=> Inside(l)
    <3> DEFINE a == l \div LevelsPerWorker
               b == (l - 1) \div LevelsPerWorker
    <3>1. a = b <=> Inside(l)
      BY Zenon, <2>1, <2>2, NeighbouringLevels DEF Inside, LocationOf
    <3>2. WqUsers(l, j) = AnyOf(a, b, b)
      BY <2>3, Zenon DEF AnyOf
    <3> HIDE DEF a, b
    <3> QED
      BY <3>1, <3>2, OneUser
  <2>5. <<l, j>> \in wq_single <=> Inside(l)
    BY <2>1 DEF FlagInv
  <2> QED
    BY <2>4, <2>5, Zenon
<1> QED
  BY <1>1, FlagsDescribed, PTL

\* A buffer queue between the first and the last level has one user exactly if its level
\* is neither the first nor the last one of a worker.
LEMMA BufferQueueUsers ==
  ASSUME config \in [factor : LevelFactors, tables : TableCounts, workers : WorkerCounts],
         WholeLevels, NEW l \in 1..(Last - 1), NEW j \in Index
  PROVE  Cardinality(BqUsers(l, j)) = 1 <=> Inside(l) /\ LocationOf(l) < LevelsPerWorker - 1
<1>1. LevelsPerWorker \in Nat \ {0} /\ Last \in Int
  BY ConfigurationTypes, BatchOfLevels, Zenon
<1>2. l \in Nat \ {0} /\ l - 1 \in Level /\ l + 1 \in Nat /\ l < Last
  BY <1>1 DEF Level
<1> DEFINE a == l \div LevelsPerWorker
           b == (l - 1) \div LevelsPerWorker
           c == (l + 1) \div LevelsPerWorker
<1>3. BqUsers(l, j) = AnyOf(a, b, c)
  BY <1>2, OwnerIs, OwnersAre, Zenon DEF BqUsers, AnyOf
<1>4. a = b <=> Inside(l)
  BY Zenon, <1>1, <1>2, NeighbouringLevels DEF Inside, LocationOf
<1>5. a = c <=> LocationOf(l) < LevelsPerWorker - 1
  BY Zenon, <1>1, <1>2, NeighbouringLevels DEF LocationOf
<1> HIDE DEF a, b, c
<1> QED
  BY <1>3, <1>4, <1>5, OneUser

\* Buffer queues of these levels are flagged exactly if one thread uses them, in every
\* configuration in which a worker has as many levels as a level has sstables
\* (lsm_tree.hpp:154).
THEOREM BufferQueueFlagsExact == SharingSpec => []BqFlagsExact
<1>1. FlagInv => BqFlagsExact
  <2> SUFFICES ASSUME FlagInv, phase = "done", WholeLevels,
                      WORKER_SSTABLE_BATCH_SIZE = LEVEL_FACTOR * LEVEL_FACTOR,
                      NEW l \in 1..(Last - 1)
               PROVE  l \in bq_single <=> \A j \in Index : Cardinality(BqUsers(l, j)) = 1
    BY Zenon DEF BqFlagsExact
  <2>1. /\ config \in [factor : LevelFactors, tables : TableCounts, workers : WorkerCounts]
        /\ LEVEL_FACTOR \in Nat /\ LEVEL_FACTOR > 1 /\ Last \in Int
        /\ LevelsPerWorker \in Nat \ {0}
        /\ WORKER_SSTABLE_BATCH_SIZE = LevelsPerWorker * LEVEL_FACTOR
    BY ConfigurationTypes, BatchOfLevels, Zenon DEF FlagInv
  <2>2. LevelsPerWorker = LEVEL_FACTOR
    <3>1. ASSUME NEW f \in Nat, f > 1, NEW q \in Nat, q * f = f * f PROVE q = f
      BY <3>1, Z3
    <3> QED
      BY <2>1, <3>1, Zenon
  <2>3. \A j \in Index : Cardinality(BqUsers(l, j)) = 1 <=> Inside(l) /\ AwayFromEnd(l)
    BY <2>1, <2>2, BufferQueueUsers, Zenon DEF AwayFromEnd
  <2>4. l \in bq_single <=> Inside(l) /\ AwayFromEnd(l)
    BY <2>1 DEF FlagInv
  <2>5. 0 \in Index
    BY <2>1 DEF Index
  <2> QED
    BY <2>3, <2>4, <2>5, Zenon
<1> QED
  BY <1>1, FlagsDescribed, PTL

\* With more levels per worker than a level has sstables, the test for the end of a batch
\* comes too early, and errs on the safe side: a buffer queue of these levels that is
\* used without its guard has one user (lsm_tree.hpp:138, 154).
THEOREM UnguardedBufferQueues ==
  SharingSpec =>
    [](phase = "done" /\ WholeLevels /\ LevelsPerWorker >= LEVEL_FACTOR =>
         \A l \in 1..(Last - 1), j \in Index :
           l \in bq_single => Cardinality(BqUsers(l, j)) = 1)
<1>1. FlagInv => (phase = "done" /\ WholeLevels /\ LevelsPerWorker >= LEVEL_FACTOR =>
                   \A l \in 1..(Last - 1), j \in Index :
                     l \in bq_single => Cardinality(BqUsers(l, j)) = 1)
  <2> SUFFICES ASSUME FlagInv, WholeLevels, LevelsPerWorker >= LEVEL_FACTOR,
                      NEW l \in 1..(Last - 1), NEW j \in Index, l \in bq_single
               PROVE  Cardinality(BqUsers(l, j)) = 1
    BY Zenon
  <2>1. /\ config \in [factor : LevelFactors, tables : TableCounts, workers : WorkerCounts]
        /\ LEVEL_FACTOR \in Nat /\ Last \in Int
        /\ LevelsPerWorker \in Nat \ {0}
    BY ConfigurationTypes, BatchOfLevels, Zenon DEF FlagInv
  <2>2. Inside(l) /\ AwayFromEnd(l)
    BY <2>1, Zenon DEF FlagInv
  <2>3. LocationOf(l) \in Int
    BY <2>1 DEF LocationOf
  <2>4. LocationOf(l) < LevelsPerWorker - 1
    BY <2>1, <2>2, <2>3 DEF AwayFromEnd
  <2> QED
    BY <2>1, <2>2, <2>4, BufferQueueUsers, Zenon
<1> QED
  BY <1>1, FlagsDescribed, PTL

\* Only workers of the level above give buffers to a queue.
LEMMA GiftsFromAbove == SharingSpec => [](given \subseteq Above)
<1>1. SharingInit => given \subseteq Above
  BY Zenon DEF SharingInit
<1>2. GiftInv /\ given \subseteq Above /\ [SharingNext]_sharingVars => (given \subseteq Above)'
  <2> SUFFICES ASSUME GiftInv, given \subseteq Above, [SharingNext]_sharingVars
               PROVE  (given \subseteq Above)'
    BY Zenon
  <2>1. ASSUME config' = config, queue' = queue PROVE Above' = Above
    BY <2>1, Zenon DEF Above, OwnersOfLevel, Owner, Level, Index, Last, NUM_SSTABLE_LEVELS, NUM_SSTABLES,
                LEVEL_FACTOR, WORKER_SSTABLE_BATCH_SIZE
  <2>2. CASE FirstLevel \/ InnerLevel \/ DivideByZero
    BY <2>1, <2>2, Zenon DEF FirstLevel, InnerLevel, DivideByZero
  <2>3. CASE LastLevel
    BY <2>3, Zenon DEF LastLevel, GiftInv
  <2>4. ASSUME NEW t \in GuardThreads, Give(t) PROVE (given \subseteq Above)'
    BY <2>1, <2>4, Zenon DEF Give
  <2>5. CASE \E t \in GuardThreads : BeginBlocking(t) \/ BeginTry(t) \/ GoOn(t) \/ Leave(t)
    BY <2>1, <2>5, Zenon DEF BeginBlocking, BeginTry, GoOn, Leave, GuardStep
  <2>6. CASE \E t \in GuardThreads, succeeds \in BOOLEAN : Block(t, succeeds) \/ TryOnce(t, succeeds)
    BY <2>1, <2>6, Zenon DEF Block, TryOnce, GuardStep
  <2>7. CASE UNCHANGED sharingVars
    BY <2>1, <2>7, Zenon DEF sharingVars
  <2> QED
    BY <2>2, <2>3, <2>4, <2>5, <2>6, <2>7 DEF SharingNext
<1> QED
  BY <1>1, <1>2, GiftsNeedAFlag, PTL DEF SharingSpec

\* In every configuration with whole levels per worker, buffers never go down from one
\* worker to another between the first and the last level: only a flagged queue is given
\* any, and the level above a flagged one has the same worker (lsm_tree.hpp:154,
\* 1184-1187).
THEOREM GiftsWithinWorker == SharingSpec => []GiftsStayWithWorker
<1>1. FlagInv /\ GiftInv /\ given \subseteq Above => GiftsStayWithWorker
  <2> SUFFICES ASSUME FlagInv, GiftInv, given \subseteq Above, phase = "done", WholeLevels,
                      queue[1] \in 1..(Last - 1), NEW t \in given
               PROVE  t = Owner(queue[1], queue[2])
    BY Zenon DEF GiftsStayWithWorker
  <2> DEFINE l == queue[1]
             j == queue[2]
  <2>1. /\ config \in [factor : LevelFactors, tables : TableCounts, workers : WorkerCounts]
        /\ Last \in Int /\ LevelsPerWorker \in Nat \ {0}
    BY ConfigurationTypes, BatchOfLevels, Zenon DEF FlagInv
  <2>2. l \in Nat \ {0} /\ l - 1 \in Level /\ j \in Index /\ l \in 1..(Last - 1)
    BY <2>1 DEF FlagInv, Level
  <2>3. Inside(l)
    <3>1. l \in bq_single
      BY Zenon DEF GiftInv, Flagged
    <3> QED
      BY <3>1, <2>2, Zenon DEF FlagInv
  <2> HIDE DEF l, j
  <2>4. Owner(l, j) = l \div LevelsPerWorker
    BY <2>1, <2>2, OwnerIs, Zenon
  <2>5. OwnersOfLevel(l - 1) = {(l - 1) \div LevelsPerWorker}
    BY <2>1, <2>2, OwnersAre, Zenon
  <2>6. l \div LevelsPerWorker = (l - 1) \div LevelsPerWorker
    BY Zenon, <2>1, <2>2, <2>3, NeighbouringLevels DEF Inside, LocationOf
  <2>7. t \in OwnersOfLevel(l - 1)
    BY Zenon DEF Above, l
  <2> QED
    BY <2>4, <2>5, <2>6, <2>7, Zenon DEF l, j
<1> QED
  BY <1>1, FlagsDescribed, GiftsNeedAFlag, GiftsFromAbove, PTL
==============================================================================
