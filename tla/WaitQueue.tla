------------------------------ MODULE WaitQueue ------------------------------
(***************************************************************************)
(* RequestBatchWaitQueue: the linked list through which request batches    *)
(* reach an sstable.  The list lives in a heap of nodes; every load and    *)
(* store that another thread could observe is a step of its own, so that   *)
(* the interleavings of a pushing and a polling thread are explored.       *)
(*                                                                         *)
(* The n-th node that is allocated carries the n-th batch, so a node       *)
(* number doubles as the batch it carries and as its pointer; 0 is         *)
(* nullptr.  Loads and stores are sequentially consistent here.            *)
(*                                                                         *)
(* One thread pushes and one polls.  Callers that share a queue promise    *)
(* the same by the producer and the consumer guard (the concept file of    *)
(* the queue); a queue whose flag says single-thread is used by one        *)
(* thread in both roles, Producer = Consumer.                              *)
(*                                                                         *)
(* A step that dereferences nullptr or a deleted node, or deletes a node   *)
(* twice, sets fault; nothing happens afterwards.                          *)
(***************************************************************************)
EXTENDS Integers

CONSTANTS
  Producer,          \* the thread that calls try_push_back
  Consumer,          \* the worker thread that calls pop_front, perhaps the same
  is_single_thread,  \* guard.is_single_thread, set once by LSMTree::initialize
  MaxNodes,          \* bound: number of batches pushed in a behaviour
  UintMod            \* bound: 2^32 in the code, the range of guard.size

ASSUME QueueAssumption ==
  /\ is_single_thread \in BOOLEAN
  /\ MaxNodes \in Nat
  /\ UintMod \in Nat /\ UintMod > 3

VARIABLES
  front,      \* first node of the list
  back,       \* last node of the list; meaningless while front is nullptr
  next,       \* the next field of every node
  live,       \* nodes allocated and not yet deleted
  allocated,  \* number of nodes allocated so far
  size,       \* guard.size
  atomic_consumer_guard, \* 0 or not: what startup writes over it counts as 1
  pc,         \* where each thread is in the operation it performs
  mine,       \* node a producer inserts
  saved,      \* the local node of pop_front, the old front->next
  old,        \* the local node2 of pop_front, the old front
  pushes,     \* number of completed pushes
  pops,       \* number of completed pops that returned a batch
  ret,        \* what the last pop_front returned
  fault

listVars == <<front, back, next, live, allocated>>
guardVars == <<size, atomic_consumer_guard>>
localVars == <<mine, saved, old>>
doneVars == <<pushes, pops, ret>>
vars == <<listVars, guardVars, localVars, doneVars, pc, fault>>

Null == 0
Node == 1..MaxNodes
Threads == {Producer, Consumer}

PushLabels == {"push", "store_back", "store_front", "link", "link_only", "move_back", "add"}
PopLabels == {"sub", "read", "advance", "release", "free"}

TypeOK ==
  /\ front \in Node \cup {Null}
  /\ back \in Node \cup {Null}
  /\ next \in [Node -> Node \cup {Null}]
  /\ live \in SUBSET Node
  /\ allocated \in 0..MaxNodes
  /\ size \in 0..(UintMod - 1)
  /\ atomic_consumer_guard \in {0, 1}
  /\ pc \in [Threads -> {"idle"} \cup PushLabels \cup PopLabels]
  /\ mine \in Node \cup {Null}
  /\ saved \in Node \cup {Null}
  /\ old \in Node \cup {Null}
  /\ pushes \in Nat
  /\ pops \in Nat
  /\ ret \in Node \cup {Null}
  /\ fault \in BOOLEAN

Init ==
  /\ front = Null
  /\ back = Null
  /\ next = [n \in Node |-> Null]
  /\ live = {}
  /\ allocated = 0
  /\ size = 0
  /\ atomic_consumer_guard = 1
  /\ pc = [t \in Threads |-> "idle"]
  /\ mine = Null
  /\ saved = Null
  /\ old = Null
  /\ pushes = 0
  /\ pops = 0
  /\ ret = Null
  /\ fault = FALSE

Goto(t, label) == pc' = [pc EXCEPT ![t] = label]

(***************************************************************************)
(* The producer.  "int size_var = guard.size.load()" reads an unsigned     *)
(* counter as a signed one.                                                *)
(***************************************************************************)
AsInt(u) == IF u < UintMod \div 2 THEN u ELSE u - UintMod

BranchOnSize(size_var) ==
  IF size_var > 1 THEN "link"
  ELSE IF size_var = 1 THEN "link_only" ELSE "store_back"

\* The branches of try_push_back up to the first store.  A load of
\* atomic_consumer_guard that returns 0 makes the call return false.
TryPushBack(t, could_contend_with_consumer) ==
  LET size_var == AsInt(size)
      label == IF is_single_thread \/ could_contend_with_consumer
               THEN "push" ELSE BranchOnSize(size_var)
      checksGuard == /\ ~is_single_thread
                     /\ could_contend_with_consumer \/ size_var \in {0, 1}
  IN  /\ ~fault
      /\ pc[t] = "idle"
      /\ allocated < MaxNodes
      /\ Goto(t, IF checksGuard /\ atomic_consumer_guard = 0 THEN "idle" ELSE label)
      /\ UNCHANGED <<listVars, guardVars, localVars, doneVars, fault>>

\* The test for an empty list in standard_push_back, and a variant without it.
Untested == TRUE
NoFront == front = Null

StandardPushBack(t) ==
  /\ ~fault
  /\ pc[t] = "push"
  /\ Goto(t, IF NoFront THEN "store_back" ELSE "link")
  /\ UNCHANGED <<listVars, guardVars, localVars, doneVars, fault>>

Allocate ==
  /\ allocated' = allocated + 1
  /\ live' = live \cup {allocated + 1}
  /\ mine' = allocated + 1

PushDone(t) ==
  /\ Goto(t, "idle")
  /\ pushes' = pushes + 1
  /\ UNCHANGED <<pops, ret>>

\* After the list is updated, guard.size is incremented if it is in use.
ListUpdated(t) ==
  IF is_single_thread
  THEN PushDone(t)
  ELSE Goto(t, "add") /\ UNCHANGED doneVars

\* front = back = new Node(req_batch): the inner assignment ...
StoreBack(t) ==
  /\ ~fault
  /\ pc[t] = "store_back"
  /\ Allocate
  /\ back' = allocated + 1
  /\ Goto(t, "store_front")
  /\ UNCHANGED <<front, next, guardVars, saved, old, doneVars, fault>>

\* ... and the outer one.
StoreFront(t) ==
  /\ ~fault
  /\ pc[t] = "store_front"
  /\ front' = mine
  /\ ListUpdated(t)
  /\ UNCHANGED <<back, next, live, allocated, guardVars, localVars, fault>>

\* back = back->next = new Node(req_batch): the store through the old back, whose
\* node must still be there ...
Link(t) ==
  /\ ~fault
  /\ pc[t] \in {"link", "link_only"}
  /\ fault' = (back \notin live)
  /\ Allocate
  /\ next' = IF back \in live THEN [next EXCEPT ![back] = allocated + 1] ELSE next
  /\ Goto(t, IF pc[t] = "link" THEN "move_back" ELSE "add")
  /\ UNCHANGED <<front, back, guardVars, saved, old, doneVars>>

\* ... and the store to back, which the branch for size 1 leaves out, and a variant
\* that leaves it out everywhere.
BackLeft == back
BackMoved == mine

MoveBack(t) ==
  /\ ~fault
  /\ pc[t] = "move_back"
  /\ back' = BackMoved
  /\ ListUpdated(t)
  /\ UNCHANGED <<front, next, live, allocated, guardVars, localVars, fault>>

\* guard.size.fetch_add(1)
AddSize(t) ==
  /\ ~fault
  /\ pc[t] = "add"
  /\ size' = (size + 1) % UintMod
  /\ PushDone(t)
  /\ UNCHANGED <<listVars, atomic_consumer_guard, localVars, fault>>

(***************************************************************************)
(* The consumer.                                                           *)
(***************************************************************************)

\* The single-threaded test for an empty list, and a variant that takes one node for none.
AtMostOne == front = Null \/ front = back
IsEmpty == front = Null

\* The worker's poll up to its first test.  The single-threaded pop_front returns
\* nullptr when front is; otherwise the worker first spins on the consumer guard
\* with a compare-and-swap that leaves 1 in it, whatever it held before.
PopFront(t) ==
  /\ ~fault
  /\ pc[t] = "idle"
  /\ \/ /\ is_single_thread
        /\ Goto(t, IF IsEmpty THEN "idle" ELSE "read")
        /\ ret' = IF IsEmpty THEN Null ELSE ret
        /\ UNCHANGED atomic_consumer_guard
     \/ /\ ~is_single_thread
        /\ Goto(t, "sub")
        /\ atomic_consumer_guard' = 1
        /\ UNCHANGED ret
  /\ UNCHANGED <<listVars, size, localVars, pushes, pops, fault>>

\* guard.size.fetch_sub(1) - 1 >= 0: the subtraction is unsigned, so the test
\* holds whatever the size was and its other branch is never taken.
SubSize(t) ==
  /\ ~fault
  /\ pc[t] = "sub"
  /\ size' = (size - 1) % UintMod
  /\ Goto(t, "read")
  /\ UNCHANGED <<listVars, atomic_consumer_guard, localVars, doneVars, fault>>

\* The loads of front->req_batch and front->next.
ReadFront(t) ==
  /\ ~fault
  /\ pc[t] = "read"
  /\ fault' = (front \notin live)
  /\ old' = front
  /\ saved' = IF front \in live THEN next[front] ELSE saved
  /\ Goto(t, IF is_single_thread THEN "free" ELSE "advance")
  /\ UNCHANGED <<listVars, guardVars, mine, doneVars>>

\* The batch that pop_front returns, and a variant that reads it too late.
ReadLate == front
Returned == old

PopDone(t) ==
  /\ Goto(t, "idle")
  /\ pops' = pops + 1
  /\ ret' = Returned
  /\ UNCHANGED pushes

\* front = node, the last store of the single-threaded pop_front.
Advance(t) ==
  /\ ~fault
  /\ pc[t] = "advance"
  /\ front' = saved
  /\ IF is_single_thread
     THEN PopDone(t)
     ELSE Goto(t, "release") /\ UNCHANGED doneVars
  /\ UNCHANGED <<back, next, live, allocated, guardVars, localVars, fault>>

\* atomic_consumer_guard.store(1)
ReleaseConsumerGuard(t) ==
  /\ ~fault
  /\ pc[t] = "release"
  /\ atomic_consumer_guard' = 1
  /\ Goto(t, "free")
  /\ UNCHANGED <<listVars, size, localVars, doneVars, fault>>

\* delete front, or delete node2, the last step of the multi-threaded pop_front.
DeleteNode(t) ==
  LET node == IF is_single_thread THEN front ELSE old
  IN  /\ ~fault
      /\ pc[t] = "free"
      /\ fault' = (node \notin live)
      /\ live' = live \ {node}
      /\ IF is_single_thread
         THEN Goto(t, "advance") /\ UNCHANGED doneVars
         ELSE PopDone(t)
      /\ UNCHANGED <<front, back, next, allocated, guardVars, localVars>>

Push(t) ==
  \/ \E could_contend \in BOOLEAN : TryPushBack(t, could_contend)
  \/ StandardPushBack(t)
  \/ StoreBack(t)
  \/ StoreFront(t)
  \/ Link(t)
  \/ MoveBack(t)
  \/ AddSize(t)

Pop(t) ==
  \/ PopFront(t)
  \/ SubSize(t)
  \/ ReadFront(t)
  \/ Advance(t)
  \/ ReleaseConsumerGuard(t)
  \/ DeleteNode(t)

Next == Push(Producer) \/ Pop(Consumer)

Spec == Init /\ [][Next]_vars

(***************************************************************************)
(* The worker polls the queue in every turn of its loop, and a thread      *)
(* that has begun an operation finishes it.                                *)
(***************************************************************************)
FairSpec == Spec /\ WF_vars(Pop(Consumer)) /\ WF_vars(Push(Producer) /\ pc[Producer] # "idle")

-----------------------------------------------------------------------------
(***************************************************************************)
(* Properties.                                                             *)
(***************************************************************************)

\* No thread ever dereferences nullptr or a deleted node, and no node is deleted
\* twice (request_batch_wait_queue.hpp, every use of front-> and back->).
NoFault == ~fault

\* Between operations the list holds exactly the batches that were pushed and not
\* yet popped: front is the oldest, each node leads to the next younger one, and
\* the newest one ends the list.  A batch that is in the heap and not on this path
\* would never be handed to the worker.
NothingLost ==
  (\A t \in Threads : pc[t] = "idle") =>
     /\ live = (pops + 1)..pushes
     /\ pops < pushes =>
          /\ front = pops + 1
          /\ \A n \in live : next[n] = IF n = pushes THEN Null ELSE n + 1
     /\ pops = pushes => front = Null

Fifo == INSTANCE FifoQueue
          WITH enqueued <- pushes, dequeued <- pops, result <- ret

\* The linked list implements the queue promised to the sstable: batches come out
\* in the order they went in, each once, and nullptr only from an empty queue.
ImplementsFifo == Fifo!FifoSpec

\* A batch whose push has returned is eventually returned by pop_front, as the
\* worker polls the queue in every turn of its loop.
EveryBatchDelivered == \A n \in Node : pushes >= n ~> pops >= n

\* Batches are delivered in the order of their pushes and none is delivered twice,
\* whatever the interleaving of the pushing and the polling thread.
DeliveredInOrder == [][pops' # pops => ret' > ret]_vars

(***************************************************************************)
(* The strengthening of NoFault and NothingLost that every step of a       *)
(* single thread preserves: where the list stands in the middle of each    *)
(* operation.                                                              *)
(***************************************************************************)

\* A push that has passed its tests has room for one more node.
RoomToAllocate ==
  pc[Producer] \in {"push", "store_back", "link", "link_only"} => allocated < MaxNodes

Between(label) == pc[Consumer] = label

\* The single-threaded list at every point of an operation: which nodes are in the
\* heap, what front and back hold, and what the locals of the operation are.
OneThreadInv ==
  /\ ~fault
  /\ pc[Consumer] \notin {"link_only", "add", "sub", "release"}
  /\ pops <= pushes
  /\ allocated = IF Between("store_front") \/ Between("move_back") THEN pushes + 1 ELSE pushes
  /\ live = (IF Between("advance") THEN pops + 2 ELSE pops + 1)..allocated
  /\ front = IF pops = pushes THEN Null ELSE pops + 1
  /\ pops < pushes => back = pushes
  /\ \A n \in live : next[n] = IF n = allocated THEN Null ELSE n + 1
  /\ \A n \in Node : n > allocated => next[n] = Null
  /\ Between("store_back") => pops = pushes
  /\ Between("store_front") => pops = pushes /\ back = allocated
  /\ Between("store_front") \/ Between("move_back") => mine = allocated
  /\ pc[Consumer] \in {"link", "move_back", "read", "free", "advance"} => pops < pushes
  /\ Between("free") \/ Between("advance") =>
        /\ old = pops + 1
        /\ saved = IF pops + 1 = pushes THEN Null ELSE pops + 2

(***************************************************************************)
(* The strengthening of DeliveredInOrder, in every mode and with either    *)
(* one or two threads, up to the first fault.  A list that loses batches   *)
(* keeps them in order: links lead to younger nodes, front only moves on,  *)
(* and the node that a push into an empty list is about to make the front  *)
(* is younger than all that the consumer has seen or can reach.            *)
(***************************************************************************)
Younger(n, than) == n = Null \/ than < n

OrderInv ==
  fault \/
    /\ \A n \in {front, back, mine, saved, old, ret} : n <= allocated
    /\ \A n \in Node : next[n] <= allocated /\ Younger(next[n], n)
    /\ pc[Producer] = "store_front" =>
         /\ mine = allocated
         /\ \A n \in {front, saved, old, ret} : n < mine
         /\ \A n \in Node : next[n] < mine
    /\ pc[Consumer] \in {"free", "advance", "release"} =>
         /\ ret < old
         /\ Younger(saved, old)
         /\ ~is_single_thread /\ pc[Consumer] # "advance" => Younger(front, old)
    /\ pc[Consumer] \notin {"free", "advance", "release"} => Younger(front, ret)
==============================================================================
