-------------------------- MODULE MainThreadProofs --------------------------
(***************************************************************************)
(* Proofs about module MainThread, for any keys, any number of ranges and  *)
(* requests per batch.                                                     *)
(*                                                                         *)
(* No range of the index ever gets a maximum, so that none holds a key.    *)
(* While a batch is served, the requests before the cursor are accounted   *)
(* for; the batch is posted back when the cursor has passed the last one.  *)
(***************************************************************************)
EXTENDS MainThread, FiniteSetTheorems, TLAPS

RangesOpen == \A s \in Slot : index[s].max = NullKey

\* The requests that the main thread has dealt with.
Done(b, j) == b < taken \/ (b = taken /\ (pc = "wait" \/ j < i))

Accounted ==
  /\ removed = read_batch
  /\ taken <= Len(batches)
  /\ replied = IF pc = "wait" THEN taken ELSE taken - 1
  /\ pc = "wait" /\ taken > 0 => i = BATCH_NUM_REQUESTS + 1
  /\ pc = "serve" => taken > 0
  /\ \A b \in 1 .. taken, j \in 1 .. BATCH_NUM_REQUESTS :
       Done(b, j) => <<b, j>> \in read_batch \cup cleared

Room == ~fault => Cardinality(read_batch) < BATCH_NUM_REQUESTS

MainInv == TypeOK /\ RangesOpen /\ Accounted
           /\ IsFiniteSet(read_batch) /\ Room /\ ReadBatchBounded

-----------------------------------------------------------------------------
\* A range without a maximum holds no key: its minimum is not null, so that neither
\* the null key nor any other lies between the two.
LEMMA OpenHoldsNothing ==
  ASSUME index \in [Slot -> [min : Keys, max : Keys]], RangesOpen,
         NEW s \in Slot, NEW k \in Keys
  PROVE  ~Holds(s, k)
BY MainAssumption DEF Holds, Free, RangesOpen, Keys, NullKey

\* Hence get_table_num stores only minima.
LEMMA ScanKeepsOpen ==
  ASSUME index \in [Slot -> [min : Keys, max : Keys]], RangesOpen,
         NEW k \in Keys, get_table_num(k)
  PROVE  index' \in [Slot -> [min : Keys, max : Keys]] /\ RangesOpen'
<1>1. \A s \in Slot : ~(StopsAt(s, k) /\ ~Free(s))
  BY OpenHoldsNothing, Zenon DEF StopsAt
<1>2. \A s \in Slot : RangeAfter(s, k) \in [min : Keys, max : Keys]
                      /\ RangeAfter(s, k).max = NullKey
  BY <1>1, Zenon DEF RangeAfter, RangesOpen
<1>. QED
  BY <1>2, Zenon DEF get_table_num, RangesOpen

\* One more request in read_batch.
LEMMA OneMore ==
  ASSUME NEW S, NEW x, IsFiniteSet(S), NEW n \in Nat, Cardinality(S) < n
  PROVE  /\ IsFiniteSet(S \cup {x})
         /\ Cardinality(S \cup {x}) <= n
         /\ Cardinality(S \cup {x}) # n => Cardinality(S \cup {x}) < n
<1>1. IsFiniteSet(S \cup {x}) /\ Cardinality(S) \in Nat /\ Cardinality(S \cup {x}) \in Nat
  BY FS_AddElement, FS_CardinalityType, Zenon
<1>2. Cardinality(S \cup {x}) = Cardinality(S) \/ Cardinality(S \cup {x}) = Cardinality(S) + 1
  BY FS_AddElement, Zenon
<1>. QED
  BY <1>1, <1>2

\* The request under the cursor.
LEMMA Current ==
  ASSUME TypeOK, Accounted, pc = "serve", i <= BATCH_NUM_REQUESTS
  PROVE  /\ taken \in 1 .. MaxBatches /\ i \in 1 .. BATCH_NUM_REQUESTS
         /\ Id \in RequestId
         /\ conn_req \in Request
         /\ conn_req.key \in Keys
<1>1. taken \in 1 .. MaxBatches /\ i \in 1 .. BATCH_NUM_REQUESTS
  BY MainAssumption DEF TypeOK, Accounted
<1>2. taken \in 1 .. Len(batches)
  BY <1>1 DEF TypeOK, Accounted
<1>3. batches[taken] \in Batch
  BY <1>2 DEF TypeOK
<1>4. conn_req \in Request
  BY Zenon, <1>1, <1>3 DEF Batch, conn_req
<1>. QED
  BY <1>1, <1>4, Zenon DEF Id, RequestId, Request

-----------------------------------------------------------------------------
\* The inductive invariant: every reachable state of the main thread satisfies it.
THEOREM MainInvariant == Spec => []MainInv
<1>1. Init => MainInv
  <2>. SUFFICES ASSUME Init PROVE MainInv
    BY Zenon
  <2>0. NullKey \in Keys
    BY MainAssumption DEF Keys, NullKey
  <2>1. index \in [Slot -> [min : Keys, max : Keys]] /\ RangesOpen
    <3>1. [min |-> NullKey, max |-> NullKey] \in [min : Keys, max : Keys]
      BY <2>0, Zenon
    <3>. QED
      BY <3>1, Zenon DEF Init, RangesOpen
  <2>2. TypeOK
    <3>1. batches \in Seq(Batch) /\ Len(batches) = 0
      BY DEF Init
    <3>2. 0 \in 0 .. MaxBatches /\ 1 \in 1 .. (BATCH_NUM_REQUESTS + 1) /\ 0 <= MaxBatches
      BY MainAssumption
    <3>. QED
      BY Zenon, <2>1, <3>1, <3>2 DEF Init, TypeOK
  <2>3. Accounted
    BY MainAssumption DEF Init, Accounted, Done
  <2>4. IsFiniteSet(read_batch) /\ Cardinality(read_batch) = 0
    BY FS_EmptySet, Zenon DEF Init
  <2>. QED
    BY <2>1, <2>2, <2>3, <2>4, MainAssumption DEF MainInv, Room, ReadBatchBounded
<1>2. MainInv /\ [Next]_vars => MainInv'
  <2>. SUFFICES ASSUME MainInv, [Next]_vars PROVE MainInv'
    BY Zenon
  <2>. USE MainAssumption
  <2>1. ASSUME NEW batch \in Batch, NetworkPosts(batch) PROVE MainInv'
    <3>1. batches' \in Seq(Batch) /\ Len(batches') = Len(batches) + 1
      BY <2>1 DEF MainInv, TypeOK, NetworkPosts
    <3>2. TypeOK'
      BY <2>1, <3>1 DEF MainInv, TypeOK, NetworkPosts
    <3>3. Accounted'
      BY <2>1, <3>1 DEF MainInv, TypeOK, NetworkPosts, Accounted, Done
    <3>. QED
      BY <2>1, <3>2, <3>3, Zenon DEF MainInv, NetworkPosts, RangesOpen, Room, ReadBatchBounded
  <2>2. CASE TakeBatch
    <3>1. TypeOK'
      BY <2>2 DEF MainInv, TypeOK, TakeBatch, Posted
    <3>2. Accounted'
      BY <2>2 DEF MainInv, TypeOK, TakeBatch, Posted, Accounted, Done
    <3>. QED
      BY <2>2, <3>1, <3>2, Zenon DEF MainInv, TakeBatch, Posted, RangesOpen, Room, ReadBatchBounded
  <2>3. CASE ServeNullKey
    <3>1. pc = "serve" /\ i <= BATCH_NUM_REQUESTS
      BY <2>3, Zenon DEF ServeNullKey, Looks
    <3>2. Id \in RequestId /\ conn_req.key \in Keys /\ i \in 1 .. BATCH_NUM_REQUESTS
      BY <3>1, Current, Zenon DEF MainInv
    <3>3. index' \in [Slot -> [min : Keys, max : Keys]] /\ RangesOpen'
      BY <2>3, <3>2, ScanKeepsOpen, Zenon DEF ServeNullKey, Looks, MainInv, TypeOK
    <3>4. TypeOK'
      BY <2>3, <3>2, <3>3 DEF MainInv, TypeOK, ServeNullKey, Looks
    <3>5. Accounted'
      <4>1. /\ removed' = read_batch' /\ taken' <= Len(batches')
            /\ replied' = (IF pc' = "wait" THEN taken' ELSE taken' - 1)
            /\ pc' = "serve" /\ taken' > 0
        BY <2>3, <3>1, Zenon DEF MainInv, ServeNullKey, Looks, Accounted
      <4>2. ASSUME NEW b \in 1 .. taken', NEW j \in 1 .. BATCH_NUM_REQUESTS, Done(b, j)'
            PROVE  <<b, j>> \in read_batch' \cup cleared'
        <5>1. Done(b, j) \/ <<b, j>> = Id
          <6>1. b < taken \/ (b = taken /\ j < i + 1)
            BY <2>3, <3>1, <4>2, Zenon DEF ServeNullKey, Looks, Done
          <6>2. j < i + 1 => j < i \/ j = i
            BY <3>2
          <6>. QED
            BY <6>1, <6>2, Zenon DEF Done, Id
        <5>. QED
          BY <2>3, <4>2, <5>1, Zenon DEF MainInv, ServeNullKey, Looks, Accounted
      <4>. QED
        BY <4>1, <4>2, Zenon DEF Accounted
    <3>. QED
      BY <2>3, <3>3, <3>4, <3>5, Zenon DEF MainInv, ServeNullKey, Looks, Room, ReadBatchBounded
  <2>4. CASE ForwardRead
    <3>1. pc = "serve" /\ i <= BATCH_NUM_REQUESTS /\ ~fault
      BY <2>4, Zenon DEF ForwardRead, SendIfFull, RemoveViaIndex, Looks
    <3>2. Id \in RequestId /\ conn_req.key \in Keys /\ i \in 1 .. BATCH_NUM_REQUESTS
      BY <3>1, Current, Zenon DEF MainInv
    <3>3. index' \in [Slot -> [min : Keys, max : Keys]] /\ RangesOpen'
      BY <2>4, <3>2, ScanKeepsOpen, Zenon DEF ForwardRead, SendIfFull, RemoveViaIndex, Looks, MainInv, TypeOK
    <3>4. fault' \in BOOLEAN
      BY <2>4, Zenon DEF ForwardRead, SendIfFull
    <3>5. TypeOK'
      BY <2>4, <3>2, <3>3, <3>4 DEF MainInv, TypeOK, ForwardRead, SendIfFull, RemoveViaIndex, Looks
    <3>6. Accounted'
      <4>1. /\ removed' = read_batch' /\ taken' <= Len(batches')
            /\ replied' = (IF pc' = "wait" THEN taken' ELSE taken' - 1)
            /\ pc' = "serve" /\ taken' > 0
        BY <2>4, <3>1, Zenon DEF MainInv, ForwardRead, SendIfFull, RemoveViaIndex, Looks, Accounted
      <4>2. ASSUME NEW b \in 1 .. taken', NEW j \in 1 .. BATCH_NUM_REQUESTS, Done(b, j)'
            PROVE  <<b, j>> \in read_batch' \cup cleared'
        <5>1. Done(b, j) \/ <<b, j>> = Id
          <6>1. b < taken \/ (b = taken /\ j < i + 1)
            BY <2>4, <3>1, <4>2, Zenon DEF ForwardRead, SendIfFull, RemoveViaIndex, Looks, Done
          <6>2. j < i + 1 => j < i \/ j = i
            BY <3>2
          <6>. QED
            BY <6>1, <6>2, Zenon DEF Done, Id
        <5>. QED
          BY <2>4, <4>2, <5>1, Zenon DEF MainInv, ForwardRead, SendIfFull, RemoveViaIndex, Looks, Accounted
      <4>. QED
        BY <4>1, <4>2, Zenon DEF Accounted
    <3>7. /\ IsFiniteSet(read_batch \cup {Id})
          /\ Cardinality(read_batch \cup {Id}) <= BATCH_NUM_REQUESTS
          /\ Cardinality(read_batch \cup {Id}) # BATCH_NUM_REQUESTS
               => Cardinality(read_batch \cup {Id}) < BATCH_NUM_REQUESTS
      BY Zenon, <3>1, OneMore DEF MainInv, Room
    <3>8. read_batch' = read_batch \cup {Id} /\ DecomposeFaults(read_batch')
      BY <2>4, Zenon DEF ForwardRead, SendIfFull, DecomposeFaults
    <3>9. Room'
      BY Zenon, <2>4, <3>7, <3>8 DEF ForwardRead, SendIfFull, RemoveViaIndex, Room
    <3>. QED
      BY <3>3, <3>5, <3>6, <3>7, <3>8, <3>9, Zenon DEF MainInv, ReadBatchBounded
  <2>5. CASE WriteNowhere
    <3>1. pc = "serve" /\ i <= BATCH_NUM_REQUESTS
      BY <2>5, Zenon DEF WriteNowhere, Looks
    <3>2. conn_req.key \in Keys
      BY <3>1, Current, Zenon DEF MainInv
    <3>3. index' \in [Slot -> [min : Keys, max : Keys]] /\ RangesOpen'
      BY <2>5, <3>2, ScanKeepsOpen, Zenon DEF WriteNowhere, Looks, MainInv, TypeOK
    <3>4. TypeOK'
      BY <2>5, <3>3, Zenon DEF MainInv, TypeOK, WriteNowhere, Looks
    <3>5. Accounted'
      BY Zenon, <2>5 DEF MainInv, TypeOK, WriteNowhere, Looks, Accounted, Done
    <3>. QED
      BY <2>5, <3>3, <3>4, <3>5, Zenon DEF MainInv, WriteNowhere, Looks, Room, ReadBatchBounded
  <2>6. CASE Reply
    <3>1. TypeOK'
      <4>1. /\ replied' = replied + 1 /\ replied = taken - 1
            /\ replied \in 0 .. MaxBatches /\ taken \in 0 .. MaxBatches
        BY <2>6, Zenon DEF MainInv, TypeOK, Reply, Accounted
      <4>2. replied' \in 0 .. MaxBatches
        BY <4>1
      <4>. QED
        BY <2>6, <4>2, Zenon DEF MainInv, TypeOK, Reply
    <3>2. Accounted'
      <4>1. /\ pc = "serve" /\ pc' = "wait" /\ replied' = replied + 1 /\ replied = taken - 1
            /\ taken \in 0 .. MaxBatches /\ MaxBatches \in Nat /\ BATCH_NUM_REQUESTS \in Nat
            /\ i \in 1 .. BATCH_NUM_REQUESTS + 1 /\ i > BATCH_NUM_REQUESTS
        BY <2>6, MainAssumption, Zenon DEF MainAssumption, MainInv, TypeOK, Reply, Accounted
      <4>2. /\ replied' = taken /\ i = BATCH_NUM_REQUESTS + 1
            /\ \A b \in 1 .. taken, j \in 1 .. BATCH_NUM_REQUESTS : (b < taken \/ b = taken) /\ j < i
        BY <4>1
      <4>3. \A b \in 1 .. taken, j \in 1 .. BATCH_NUM_REQUESTS : <<b, j>> \in read_batch \cup cleared
        BY <4>2, Zenon DEF MainInv, Accounted, Done
      <4>. QED
        BY <2>6, <4>1, <4>2, <4>3, Zenon DEF MainInv, Reply, Accounted
    <3>. QED
      BY <2>6, <3>1, <3>2, Zenon DEF MainInv, Reply, RangesOpen, Room, ReadBatchBounded
  <2>7. CASE UNCHANGED vars
    BY <2>7, Zenon DEF MainInv, TypeOK, vars, RangesOpen, Accounted, Done, Room, ReadBatchBounded
  <2>. QED
    BY <2>1, <2>2, <2>3, <2>4, <2>5, <2>6, <2>7, Zenon DEF Next, Main
<1>. QED
  BY <1>1, <1>2, PTL DEF Spec

\* The variables of the main thread keep their types.
THEOREM TypeCorrect == Spec => []TypeOK
<1>1. MainInv => TypeOK
  BY Zenon DEF MainInv
<1>. QED
  BY <1>1, MainInvariant, PTL

\* The scan of the index ends at a memtable for no key.
MemtablesUnused == \A k \in Keys : ~TableFound(k)

\* However many keys it has seen, get_table_num names no memtable: the ranges it claims never
\* get a maximum, and only a range with one holds a key.  This is why the branches that use a
\* memtable are not in the model.
THEOREM NoMemtableFound == Spec => []MemtablesUnused
<1>1. MainInv => MemtablesUnused
  BY OpenHoldsNothing, Zenon DEF MainInv, TypeOK, MemtablesUnused, TableFound
<1>. QED
  BY <1>1, MainInvariant, PTL

\* The entries of a batch that is posted back are answered or forwarded, never both.
THEOREM RepliesAreComplete == Spec => []RepliesAccountForAll
<1>1. MainInv => RepliesAccountForAll
  <2>. SUFFICES ASSUME MainInv, NEW b \in 1 .. replied, NEW j \in 1 .. BATCH_NUM_REQUESTS
                PROVE  /\ <<b, j>> \in removed <=> <<b, j>> \in read_batch
                       /\ <<b, j>> \in read_batch \cup cleared
    BY Zenon DEF RepliesAccountForAll
  <2>1. b \in 1 .. taken /\ Done(b, j)
    BY DEF MainInv, TypeOK, Accounted, Done
  <2>. QED
    BY <2>1, Zenon DEF MainInv, Accounted
<1>. QED
  BY <1>1, MainInvariant, PTL

\* The read batch never grows beyond BATCH_NUM_REQUESTS.
THEOREM ReadBatchStaysBounded == Spec => []ReadBatchBounded
<1>1. MainInv => ReadBatchBounded
  BY Zenon DEF MainInv
<1>. QED
  BY <1>1, MainInvariant, PTL

(***************************************************************************)
(* How much the main thread has left to do.  A batch that waits takes one  *)
(* step to be taken, one for each request and one to be posted back.  This *)
(* is what EveryBatchReplied rests on.                                     *)
(***************************************************************************)
Waiting == Len(batches) - taken
InHand == IF pc = "serve" THEN BATCH_NUM_REQUESTS + 2 - i ELSE 0
Remaining == Waiting * (BATCH_NUM_REQUESTS + 2) + InHand

\* Every step of the main thread does one piece of what is left, or ends the process: it
\* looks at no request twice and drops no batch, whatever the network thread posts meanwhile.
WorkAdvances == [][Main => fault' \/ Remaining' = Remaining - 1]_vars

\* Nothing is left exactly when every batch that was posted has been posted back, and while
\* something is left, one of the branches of the loop applies: there is no request that the
\* loop does not know what to do with.
NoBatchStranded ==
  /\ Remaining \in Nat
  /\ Remaining = 0 <=> replied = Len(batches)
  /\ Remaining > 0 =>
       \/ pc = "wait" /\ Posted
       \/ pc = "serve" /\ i > BATCH_NUM_REQUESTS
       \/ /\ pc = "serve" /\ i <= BATCH_NUM_REQUESTS
          /\ \/ conn_req.key = NullKey
             \/ conn_req.req_type \in {"READ", "WRITE"} /\ ~TableFound(conn_req.key)

\* What is left is a number.
LEMMA RemainingCounts ==
  ASSUME TypeOK, Accounted
  PROVE  /\ Waiting \in Nat /\ InHand \in Nat /\ Remaining \in Nat
         /\ Remaining = 0 <=> Waiting = 0 /\ InHand = 0
         /\ pc = "serve" => InHand > 0
<1>1. BATCH_NUM_REQUESTS + 2 \in Nat /\ BATCH_NUM_REQUESTS + 2 > 0
  BY MainAssumption
<1>2. Waiting \in Nat /\ InHand \in Nat /\ (pc = "serve" => InHand > 0)
  BY MainAssumption DEF TypeOK, Accounted, Waiting, InHand
<1>3. ASSUME NEW w \in Nat, NEW h \in Nat, NEW c \in Nat, c > 0
      PROVE  w * c + h \in Nat /\ (w * c + h = 0 <=> w = 0 /\ h = 0)
  <2>1. w * c \in Nat /\ w * c >= w
    BY <1>3, Z3
  <2>2. w = 0 => w * c = 0
    BY <1>3, Z3
  <2> QED
    BY <1>3, <2>1, <2>2
<1>4. LET remaining == Waiting * (BATCH_NUM_REQUESTS + 2) + InHand
      IN  remaining \in Nat /\ (remaining = 0 <=> Waiting = 0 /\ InHand = 0)
  BY <1>1, <1>2, <1>3, Zenon
<1>. QED
  BY <1>2, <1>4, Zenon DEF Remaining

\* The main thread works off what was posted, one piece a step.
THEOREM EveryStepCounts == Spec => WorkAdvances
<1>1. MainInv /\ [Next]_vars => [Main => fault' \/ Remaining' = Remaining - 1]_vars
  <2>. SUFFICES ASSUME MainInv, Main, ~fault' PROVE Remaining' = Remaining - 1
    BY Zenon
  <2>1. /\ Waiting \in Nat /\ InHand \in Nat /\ BATCH_NUM_REQUESTS \in Nat
        /\ taken \in Nat /\ i \in Nat /\ Len(batches) \in Nat
    BY RemainingCounts, MainAssumption DEF MainInv, TypeOK
  <2>2. CASE TakeBatch
    <3>1. Waiting' = Waiting - 1 /\ InHand = 0 /\ InHand' = BATCH_NUM_REQUESTS + 1
      BY <2>1, <2>2 DEF TakeBatch, Waiting, InHand
    <3>2. (Waiting - 1) * (BATCH_NUM_REQUESTS + 2)
            = Waiting * (BATCH_NUM_REQUESTS + 2) - (BATCH_NUM_REQUESTS + 2)
      BY <2>1, Z3
    <3>3. Waiting * (BATCH_NUM_REQUESTS + 2) \in Int
      BY <2>1
    <3>. QED
      BY <2>1, <3>1, <3>2, <3>3 DEF Remaining
  <2>3. CASE ServeNullKey \/ ForwardRead \/ WriteNowhere \/ Reply
    <3>1. Waiting' = Waiting
      BY <2>3, Zenon DEF ServeNullKey, ForwardRead, WriteNowhere, Looks, Reply, Waiting
    <3>2. InHand' = InHand - 1
      <4>1. CASE Reply
        <5>1. i = BATCH_NUM_REQUESTS + 1
          BY <4>1, MainAssumption DEF Reply, MainInv, TypeOK
        <5>. QED
          BY <2>1, <4>1, <5>1 DEF Reply, InHand
      <4>2. CASE ServeNullKey \/ ForwardRead
        BY <2>1, <4>2 DEF ServeNullKey, ForwardRead, Looks, InHand
      <4>3. ~WriteNowhere
        BY Zenon DEF WriteNowhere
      <4>. QED
        BY <2>3, <4>1, <4>2, <4>3, Zenon
    <3>3. Waiting * (BATCH_NUM_REQUESTS + 2) \in Int
      BY <2>1
    <3>. QED
      BY <2>1, <3>1, <3>2, <3>3 DEF Remaining
  <2>. QED
    BY <2>2, <2>3, Zenon DEF Main
<1>. QED
  BY <1>1, MainInvariant, PTL DEF Spec, WorkAdvances

\* No batch is stranded, for any keys, request types and number of batches.
THEOREM NoneStranded == Spec => []NoBatchStranded
<1>1. MainInv => NoBatchStranded
  <2>. SUFFICES ASSUME MainInv PROVE NoBatchStranded
    BY Zenon
  <2>1. /\ Waiting \in Nat /\ InHand \in Nat /\ Remaining \in Nat
        /\ Remaining = 0 <=> Waiting = 0 /\ InHand = 0
        /\ pc = "serve" => InHand > 0
    BY RemainingCounts, Zenon DEF MainInv
  <2>2. /\ taken \in Nat /\ replied \in Nat /\ Len(batches) \in Nat /\ pc \in {"wait", "serve"}
        /\ replied = (IF pc = "wait" THEN taken ELSE taken - 1)
        /\ taken <= Len(batches)
        /\ i \in Nat /\ BATCH_NUM_REQUESTS \in Nat
    BY MainAssumption DEF MainInv, TypeOK, Accounted
  <2>3. Remaining = 0 <=> replied = Len(batches)
    BY <2>1, <2>2 DEF Waiting, InHand
  <2>4. CASE pc = "wait"
    BY <2>1, <2>2, <2>3, <2>4 DEF NoBatchStranded, Posted, Waiting, InHand
  <2>5. CASE pc = "serve" /\ i > BATCH_NUM_REQUESTS
    BY <2>1, <2>3, <2>5, Zenon DEF NoBatchStranded
  <2>6. CASE pc = "serve" /\ i <= BATCH_NUM_REQUESTS
    <3>1. conn_req \in Request /\ conn_req.key \in Keys
      BY <2>6, Current, Zenon DEF MainInv
    <3>2. conn_req.req_type \in {"READ", "WRITE"}
      BY <3>1, Zenon DEF Request
    <3>3. ~TableFound(conn_req.key)
      BY <3>1, OpenHoldsNothing, Zenon DEF MainInv, TypeOK, TableFound
    <3>. QED
      BY <2>1, <2>3, <2>6, <3>2, <3>3, Zenon DEF NoBatchStranded
  <2>. QED
    BY <2>2, <2>4, <2>5, <2>6
<1>. QED
  BY <1>1, MainInvariant, PTL
=============================================================================
