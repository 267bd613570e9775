--------------------------- MODULE CompactionProofs ---------------------------
(***************************************************************************)
(* Proofs about compactions, for trees of any shape with at least two      *)
(* sstables per level and any number of memtables.                         *)
(***************************************************************************)
EXTENDS Compaction, TLAPS

\* At least one key enters a filter: the first one of the segment.
LEMMA KeysInserted == InsertedKeys # {} /\ InsertedKeys \in SUBSET Entry
<1>1. 0 \in Entry /\ (0 * (0 + 1)) \div 2 = 0
  BY TreeAssumption DEF Entry
<1> QED
  BY <1>1, Zenon DEF InsertedKeys

\* What decompose computes: the target is a table of the level, its filter holds a key
\* afterwards, and no filter is emptied (level_info.hpp:107-129).
LEMMA DecomposeTarget ==
  ASSUME NEW level \in 0..Last, filters \in [SSTable -> SUBSET Entry]
  PROVE  /\ Target(level) \in SSTable
         /\ FiltersAfter(level)[Target(level)] # {}
         /\ FiltersAfter(level) \in [SSTable -> SUBSET Entry]
         /\ \A t \in SSTable : filters[t] # {} => FiltersAfter(level)[t] # {}
<1>1. CASE Behind(level) = {}
  <2>1. 0 \in Index /\ 1 \in Index
    BY TreeAssumption DEF Index, TreeAssumption
  <2>2. filters[<<level, 0>>] # {}
    <3>1. SUFFICES ASSUME filters[<<level, 0>>] = {} PROVE FALSE
      BY Zenon
    <3>2. 0 \in FirstEmpty(level)
      BY <2>1, <3>1 DEF FirstEmpty
    <3>3. 0 + 1 \in Behind(level)
      BY <2>1, <3>2 DEF Behind
    <3> QED
      BY <1>1, <3>3, Zenon
  <2> QED
    BY <1>1, <2>1, <2>2, Zenon DEF Target, FiltersAfter, SSTable
<1>2. CASE Behind(level) # {}
  <2>1. (CHOOSE j \in Behind(level) : TRUE) \in Index
    BY <1>2, Zenon DEF Behind
  <2>2. Target(level) \in SSTable
    BY Zenon, <1>2, <2>1 DEF Target, SSTable
  <2>3. FiltersAfter(level) = [filters EXCEPT ![Target(level)] = filters[Target(level)] \cup InsertedKeys]
    BY <1>2, Zenon DEF FiltersAfter, KeysGoTo
  <2> QED
    BY <2>2, <2>3, KeysInserted, Zenon
<1> QED
  BY <1>1, <1>2, Zenon

\* The table with the first empty filter stays what it is, because decompose takes the
\* one behind it: the target of a level never changes.
LEMMA TargetStays ==
  ASSUME NEW level \in 0..Last, NEW l \in 0..Last, filters \in [SSTable -> SUBSET Entry],
         filters' = FiltersAfter(level)
  PROVE  Target(l)' = Target(l)
<1>1. FirstEmpty(l)' = FirstEmpty(l)
  <2>1. CASE Behind(level) = {}
    BY <2>1, Zenon DEF FiltersAfter, FirstEmpty
  <2>2. CASE Behind(level) # {}
    <3>1. PICK f \in FirstEmpty(level) : f + 1 \in Index
      BY <2>2, Zenon DEF Behind
    <3>2. f \in Index /\ filters[<<level, f>>] = {} /\ \A k \in 0..(f - 1) : filters[<<level, k>>] # {}
      BY <3>1, Zenon DEF FirstEmpty
    <3>3. /\ f \in Nat /\ Index \subseteq Nat /\ f # f + 1
          /\ \A j \in Index : 0..(j - 1) \subseteq Index
      BY <3>2, TreeAssumption DEF Index, TreeAssumption
    <3>4. ASSUME NEW j \in FirstEmpty(level) PROVE j = f
      <4>1. j \in Nat /\ filters[<<level, j>>] = {} /\ \A k \in 0..(j - 1) : filters[<<level, k>>] # {}
        BY <3>3, Zenon DEF FirstEmpty
      <4>2. ~(j < f)
        BY <3>2, <3>3, <4>1
      <4>3. ~(f < j)
        BY <3>2, <3>3, <4>1
      <4> QED
        BY <3>3, <4>1, <4>2, <4>3
    <3>5. Behind(level) = {f + 1}
      BY <3>1, <3>4, Zenon DEF Behind
    <3>6. ASSUME NEW m \in 0..Last, NEW k \in Index, m # level \/ k # f + 1
          PROVE  filters'[<<m, k>>] = filters[<<m, k>>]
      <4>1. KeysGoTo(level) = <<level, f + 1>>
        BY <2>2, <3>5, Zenon DEF KeysGoTo, Target
      <4>2. filters' = [filters EXCEPT ![<<level, f + 1>>] = filters[<<level, f + 1>>] \cup InsertedKeys]
        BY <2>2, <4>1, Zenon DEF FiltersAfter
      <4>3. <<m, k>> \in SSTable /\ <<m, k>> # <<level, f + 1>>
        BY <3>6, Zenon DEF SSTable
      <4> QED
        BY <4>2, <4>3, Zenon
    <3>7. CASE l # level
      BY <3>3, <3>6, <3>7, Zenon DEF FirstEmpty
    <3>8. CASE l = level
      <4>1. filters'[<<level, f>>] = {}
        BY <3>2, <3>3, <3>6, Zenon
      <4>2. \A k \in 0..(f - 1) : filters'[<<level, k>>] # {}
        <5>1. ASSUME NEW k \in 0..(f - 1) PROVE k \in Index /\ k # f + 1 /\ filters[<<level, k>>] # {}
          BY <3>2, <3>3
        <5> QED
          BY <3>6, <5>1, Zenon
      <4>3. ASSUME NEW j \in FirstEmpty(l)' PROVE j \in FirstEmpty(l)
        <5>1. j \in Index /\ j \in Nat /\ filters'[<<level, j>>] = {}
              /\ \A k \in 0..(j - 1) : filters'[<<level, k>>] # {}
          BY <3>3, <3>8, Zenon DEF FirstEmpty
        <5>2. ~(f < j)
          BY <3>3, <4>1, <5>1
        <5>3. ~(j < f)
          BY <3>3, <4>2, <5>1
        <5>4. j = f
          BY <3>3, <5>1, <5>2, <5>3
        <5> QED
          BY <3>1, <3>8, <5>4, Zenon
      <4>4. ASSUME NEW j \in FirstEmpty(l) PROVE j \in FirstEmpty(l)'
        BY <3>2, <3>4, <3>8, <4>1, <4>2, Zenon DEF FirstEmpty
      <4> QED
        BY <4>3, <4>4, Zenon
    <3> QED
      BY <3>7, <3>8, Zenon
  <2> QED
    BY <2>1, <2>2, Zenon
<1>2. Behind(l)' = Behind(l)
  BY <1>1, Zenon DEF Behind
<1> QED
  BY <1>2 DEF Target

(***************************************************************************)
(* The inductive invariant: types, the phases of a flush, and what the     *)
(* filters know.  Queues are sequences, so that Head and Tail are known.   *)
(***************************************************************************)

\* An sstable that startup is through with is in one of four phases: this run has nothing
\* under way for it and has written nothing; a write is under way; the message of the write
\* is under way; it has data.  The flag waiting_on_io separates the first from the rest for
\* good.  A message that startup has left comes while its completions are in the ring.
Phase(t) ==
  /\ posted[t] <= 1
  /\ writing[t] # None => t \in waiting_on_io \ is_flushed_to /\ file[t] \in {Empty, Old}
  /\ initialization[t] = "over" =>
       /\ writing[t] # None => posted[t] = 0
       /\ posted[t] > 0 => t \in waiting_on_io
  /\ initialization[t] # "over" => leftovers
  /\ initialization[t] = "chain" => posted[t] = 0
  /\ t \notin waiting_on_io => file[t] \in {Empty, Old}

Phases == \A t \in SSTable : Phase(t)

\* Where a filter already holds a key.
Covered ==
  \A t \in SSTable :
    /\ req_batch_wq[t] # <<>> => filters[t] # {}
    /\ writing[t] # None \/ file[t] \notin {Empty, Old} => filters[t] # {}

CompactionInv == TypeOK /\ Phases /\ Covered 
                 /\ (main # "serving" => compactions > 0 /\ segment \in Memtable)

\* The invariant holds in the state startup hands over.
LEMMA InitInv == Init => CompactionInv
<1> SUFFICES ASSUME Init PROVE CompactionInv
  BY Zenon
<1>1. cursor \in SSTable
  BY TreeAssumption DEF TreeAssumption, SSTable, Index, Last, Init
<1>2. req_batch_wq \in [SSTable -> Seq(Memtable)]
  BY DEF Init
<1>3. file \in [SSTable -> [memtable : -1..MaxCompactions, meant : -1..MaxCompactions]]
  <2>1. Old \in [memtable : -1..MaxCompactions, meant : -1..MaxCompactions]
        /\ Empty \in [memtable : -1..MaxCompactions, meant : -1..MaxCompactions]
    BY TreeAssumption DEF TreeAssumption, Old, Empty
  <2> QED
    BY <2>1, Zenon DEF Init
<1>4. /\ leftovers \in BOOLEAN /\ deleted \in BOOLEAN
      /\ is_practically_full \in BOOLEAN /\ fault \in BOOLEAN
      /\ initialization \in [SSTable -> {"over", "chain", "ended"}]
  BY Zenon DEF Init
<1>5. /\ filters \in [SSTable -> SUBSET Entry]
      /\ is_flushed_to \in SUBSET SSTable /\ failed \in SUBSET SSTable
      /\ waiting_on_io \in SUBSET SSTable /\ filled \in SUBSET Memtable
  BY DEF Init
<1>6. /\ segment \in Memtable \cup {None} /\ compactions \in 0..MaxCompactions
      /\ main \in {"serving", "filling", "inserting"} /\ worker \in {"peek", "poll"}
      /\ posted \in [SSTable -> Nat]
  BY TreeAssumption DEF Init, TreeAssumption
<1>7. writing \in [SSTable -> Memtable \cup {None}] /\ meant \in [SSTable -> Memtable \cup {None}]
  BY Zenon DEF Init
<1>8. TypeOK
  BY <1>1, <1>2, <1>3, <1>4, <1>5, <1>6, <1>7, Zenon DEF TypeOK
<1>9. Phases /\ Covered
  BY <1>4 DEF Init, Phases, Phase, Covered, None
<1> QED
  BY <1>8, <1>9, Zenon DEF Init, CompactionInv

\* The cursor of the worker stays inside the tree (lsm_tree.hpp:671).
LEMMA CursorStays == ASSUME cursor \in SSTable PROVE NextTable \in SSTable
  BY TreeAssumption DEF TreeAssumption, NextTable, SSTable, Index, Last

\* The first element of a sequence, and the others.
LEMMA FirstAndRest ==
  ASSUME NEW S, NEW s \in Seq(S), s # <<>>
  PROVE  Head(s) \in S /\ Tail(s) \in Seq(S)
  OBVIOUS

\* What a write leaves in a file: the batch or garbage, and what was meant to be there.
LEMMA Recorded ==
  ASSUME NEW m \in Memtable \cup {None}
  PROVE  /\ [memtable |-> Garbage, meant |-> m]
              \in [memtable : -1..MaxCompactions, meant : -1..MaxCompactions]
         /\ \A w \in Memtable :
              [memtable |-> IF w \in filled THEN w ELSE Garbage, meant |-> m]
                \in [memtable : -1..MaxCompactions, meant : -1..MaxCompactions]
<1>1. Memtable \subseteq -1..MaxCompactions /\ Garbage \in -1..MaxCompactions
      /\ m \in -1..MaxCompactions
  BY TreeAssumption DEF TreeAssumption, Memtable, None, Garbage
<1> QED
  BY <1>1, Zenon

\* Every step of the main thread, the worker and the kernel preserves the invariant.
LEMMA StepInv == CompactionInv /\ [Next]_vars => CompactionInv'
<1> SUFFICES ASSUME CompactionInv, [Next]_vars PROVE CompactionInv'
  BY Zenon
<1> USE DEF CompactionInv
<1>1. CASE NewSegment
  <2>1. segment' \in Memtable /\ compactions' > 0 /\ compactions' \in 0..MaxCompactions
    BY <1>1, TreeAssumption DEF NewSegment, TypeOK, Memtable, TreeAssumption
  <2>2. TypeOK'
    BY <1>1, <2>1, Zenon DEF NewSegment, TypeOK, tableVars, ioVars, startVars
  <2>3. Phases' /\ Covered'
    BY <1>1, Zenon DEF NewSegment, Phases, Phase, Covered, tableVars, ioVars, startVars
  <2> QED
    BY <2>1, <2>2, <2>3, Zenon
<1>2. CASE FillSegment
  <2>1. filled' \in SUBSET Memtable
    BY <1>2, Zenon DEF FillSegment, TypeOK
  <2>2. TypeOK'
    BY <1>2, <2>1, Zenon DEF FillSegment, TypeOK, tableVars, ioVars, startVars
  <2> QED
    BY <1>2, <2>2, Zenon DEF FillSegment, Phases, Phase, Covered, tableVars, ioVars, startVars
<1>3. ASSUME NEW ends \in BOOLEAN, NEW kept \in BOOLEAN, InsertAtLevel0(ends, kept)
      PROVE  CompactionInv'
  <2>1. 0 \in 0..Last
    BY TreeAssumption DEF TreeAssumption, Last
  <2>2. /\ Target(0) \in SSTable /\ filters'[Target(0)] # {}
        /\ filters' \in [SSTable -> SUBSET Entry]
        /\ \A t \in SSTable : filters[t] # {} => filters'[t] # {}
    BY <1>3, <2>1, DecomposeTarget, Zenon DEF InsertAtLevel0, TypeOK
  <2>3. compactions \in Memtable
    BY <1>3, TreeAssumption DEF InsertAtLevel0, TypeOK, Memtable, TreeAssumption
  <2>4. req_batch_wq' \in [SSTable -> Seq(Memtable)]
    BY <1>3, <2>2, <2>3 DEF InsertAtLevel0, TypeOK
  <2>5. \A t \in SSTable \ {Target(0)} : req_batch_wq'[t] = req_batch_wq[t]
    BY <1>3, <2>2, Zenon DEF InsertAtLevel0, TypeOK
  <2>6. TypeOK'
    BY Zenon, <1>3, <2>2, <2>4 DEF InsertAtLevel0, TypeOK, batchVars, ioVars, startVars, Outcome
  <2>7. Phases'
    BY <1>3, Zenon DEF InsertAtLevel0, Phases, Phase, ioVars, startVars
  <2>8. Covered'
    BY <1>3, <2>2, <2>5, Zenon DEF InsertAtLevel0, Covered, ioVars, startVars
  <2> QED
    BY <1>3, <2>6, <2>7, <2>8, Zenon DEF InsertAtLevel0
<1>4. CASE NoMessage
  <2>1. TypeOK'
    BY <1>4, Zenon DEF NoMessage, TypeOK, batchVars, tableVars, ioVars, startVars
  <2> QED
    BY <1>4, <2>1, Zenon DEF NoMessage, Phases, Phase, Covered, batchVars, tableVars, ioVars, startVars
<1>5. ASSUME NEW t \in SSTable, Completion(t) PROVE CompactionInv'
  <2>1. posted' \in [SSTable -> Nat] /\ is_flushed_to' \in SUBSET SSTable
    <3>1. posted[t] \in Nat /\ posted[t] > 0 /\ is_flushed_to' \in SUBSET SSTable
      BY <1>5, Zenon DEF Completion, FlushedWith, TypeOK
    <3>2. posted[t] - 1 \in Nat
      BY <3>1
    <3> QED
      BY <1>5, <3>1, <3>2, Zenon DEF Completion, TypeOK
  <2>2. is_practically_full' \in BOOLEAN
    BY <1>5, Zenon DEF Completion, TypeOK
  <2>3. TypeOK'
    BY Zenon, <1>5, <2>1, <2>2 DEF Completion, WaitingAfterFlush, TypeOK, batchVars, startVars
  <2>4. Phases'
    <3>1. /\ posted'[t] = posted[t] - 1 /\ posted[t] \in Nat /\ posted[t] > 0
          /\ \A u \in SSTable \ {t} : posted'[u] = posted[u]
      BY <1>5, Zenon DEF Completion, TypeOK
    <3>2. /\ writing' = writing /\ file' = file /\ waiting_on_io' = waiting_on_io
      BY <1>5, Zenon DEF Completion, WaitingAfterFlush, FlushedWith
    <3>3. posted'[t] = 0 /\ \A u \in SSTable : posted'[u] \in {0, posted[u]}
      <4>1. posted[t] <= 1
        BY Zenon DEF Phases, Phase
      <4>2. posted'[t] = 0
        BY <3>1, <4>1
      <4> QED
        BY <3>1, <4>2, Zenon
    <3>4. \A u \in SSTable : writing[u] # None => u \notin is_flushed_to'
      <4>1. CASE leftovers
        BY <1>5, <4>1, Zenon DEF Completion, Phases, Phase
      <4>2. CASE ~leftovers
        <5>1. writing[t] = None
          BY <3>1, <4>2 DEF Phases, Phase
        <5> QED
          BY <1>5, <5>1, Zenon DEF Completion, FlushedWith, Phases, Phase
      <4> QED
        BY <4>1, <4>2, Zenon
    <3>5. leftovers' = leftovers /\ initialization' = initialization
      BY <1>5, Zenon DEF Completion, startVars
    <3>6. 0 <= 1 /\ ~(0 > 0)
      OBVIOUS
    <3>7. ASSUME NEW u \in SSTable, posted'[u] = posted[u] PROVE Phase(u)'
      BY <3>2, <3>4, <3>5, <3>7, Zenon DEF Phases, Phase
    <3>8. ASSUME NEW u \in SSTable, posted'[u] = 0 PROVE Phase(u)'
      BY <3>2, <3>4, <3>5, <3>6, <3>8, Zenon DEF Phases, Phase
    <3> QED
      BY <3>3, <3>7, <3>8, Zenon DEF Phases
  <2> QED
    BY <1>5, <2>3, <2>4, Zenon DEF Completion, Covered, batchVars
<1>6. ASSUME NEW t \in SSTable, NothingToDo(t) PROVE CompactionInv'
  <2>1. TypeOK'
    BY <1>6, CursorStays, Zenon DEF NothingToDo, Turn, TypeOK, batchVars, tableVars, ioVars, startVars
  <2> QED
    BY <1>6, <2>1, Zenon DEF NothingToDo, Turn, Phases, Phase, Covered, batchVars, tableVars, ioVars, startVars
<1>7. ASSUME NEW t \in SSTable, NEW ends \in BOOLEAN, MoveDown(t, ends) PROVE CompactionInv'
  <2> DEFINE u == Target(t[1] + 1)
  <2>1. t[1] + 1 \in 0..Last
    BY <1>7, TreeAssumption DEF MoveDown, SSTable, TreeAssumption, Last
  <2>2. /\ u \in SSTable /\ filters'[u] # {}
        /\ filters' \in [SSTable -> SUBSET Entry]
        /\ \A v \in SSTable : filters[v] # {} => filters'[v] # {}
    BY Zenon, <1>7, <2>1, DecomposeTarget DEF MoveDown, TypeOK
  <2>3. /\ req_batch_wq[t] \in Seq(Memtable) /\ req_batch_wq[t] # <<>>
        /\ Head(req_batch_wq[t]) \in Memtable /\ Tail(req_batch_wq[t]) \in Seq(Memtable)
    <3>1. req_batch_wq[t] \in Seq(Memtable) /\ req_batch_wq[t] # <<>>
      BY <1>7, Zenon DEF MoveDown, Takes, TypeOK
    <3> QED
      BY <3>1, FirstAndRest, Zenon
  <2>4. req_batch_wq' \in [SSTable -> Seq(Memtable)]
    <3> DEFINE popped == [req_batch_wq EXCEPT ![t] = Tail(@)]
    <3>1. popped \in [SSTable -> Seq(Memtable)]
      BY <2>3, Zenon DEF TypeOK
    <3>2. req_batch_wq' = [popped EXCEPT ![u] = Append(@, Head(req_batch_wq[t]))]
      BY <1>7, Zenon DEF MoveDown
    <3> HIDE DEF popped, u
    <3>3. Append(popped[u], Head(req_batch_wq[t])) \in Seq(Memtable)
      BY <2>2, <2>3, <3>1
    <3> QED
      BY <2>2, <3>1, <3>2, <3>3, Zenon
  <2>5. \A v \in SSTable \ {u, t} : req_batch_wq'[v] = req_batch_wq[v]
    BY <1>7, <2>2, Zenon DEF MoveDown, TypeOK
  <2>6. filters'[t] # {}
    BY <1>7, <2>2, <2>3, Zenon DEF Covered
  <2>7. cursor' \in SSTable
    BY <1>7, CursorStays, Zenon DEF MoveDown, Takes, Turn, TypeOK
  <2>8. TypeOK'
    BY Zenon, <1>7, <2>2, <2>4, <2>7
    DEF MoveDown, Takes, Turn, TypeOK, batchVars, ioVars, startVars, Outcome
  <2>9. Phases'
    BY <1>7, Zenon DEF MoveDown, Takes, Turn, Phases, Phase, ioVars, startVars
  <2>10. Covered'
    BY Zenon, <1>7, <2>2, <2>5, <2>6 DEF MoveDown, Covered, ioVars, startVars
  <2> QED
    BY <1>7, <2>8, <2>9, <2>10, Zenon DEF MoveDown, Takes, Turn, batchVars
<1>8. ASSUME NEW t \in SSTable, SubmitFlush(t) PROVE CompactionInv'
  <2>1. /\ req_batch_wq[t] \in Seq(Memtable) /\ req_batch_wq[t] # <<>>
        /\ Head(req_batch_wq[t]) \in Memtable /\ Tail(req_batch_wq[t]) \in Seq(Memtable)
    <3>1. req_batch_wq[t] \in Seq(Memtable) /\ req_batch_wq[t] # <<>>
      BY <1>8, Zenon DEF SubmitFlush, Takes, TypeOK
    <3> QED
      BY <3>1, FirstAndRest, Zenon
  <2>2. /\ req_batch_wq' \in [SSTable -> Seq(Memtable)]
        /\ \A v \in SSTable \ {t} : req_batch_wq'[v] = req_batch_wq[v]
    BY <1>8, <2>1, Zenon DEF SubmitFlush, TypeOK
  <2>3. /\ writing' \in [SSTable -> Memtable \cup {None}]
        /\ meant' \in [SSTable -> Memtable \cup {None}]
        /\ \A v \in SSTable \ {t} : writing'[v] = writing[v]
    BY <1>8, <2>1, Zenon DEF SubmitFlush, TypeOK
  <2>4. waiting_on_io' \in SUBSET SSTable
    BY <1>8, Zenon DEF SubmitFlush, WaitingWith, TypeOK
  <2>5. cursor' \in SSTable
    BY <1>8, CursorStays, Zenon DEF SubmitFlush, Takes, Turn, TypeOK
  <2>6. TypeOK'
    BY Zenon, <1>8, <2>2, <2>3, <2>4, <2>5 DEF SubmitFlush, Takes, Turn, TypeOK, batchVars, startVars
  <2>7. /\ filters[t] # {} /\ t \notin waiting_on_io \cup is_flushed_to /\ file[t] \in {Empty, Old}
        /\ initialization[t] = "over" => posted[t] = 0
    BY <1>8, <2>1 DEF SubmitFlush, Takes, Covered, Phases, Phase, TypeOK
  <2>8. Phases'
    BY <1>8, <2>3, <2>7, Zenon DEF SubmitFlush, Takes, Turn, WaitingWith, Phases, Phase, startVars
  <2>9. Covered'
    BY <1>8, <2>2, <2>3, <2>7, Zenon DEF SubmitFlush, Covered
  <2> QED
    BY <1>8, <2>6, <2>8, <2>9, Zenon DEF SubmitFlush, Takes, Turn, batchVars
<1>9. ASSUME NEW t \in SSTable, DeleteBatch(t) PROVE CompactionInv'
  <2>1. /\ req_batch_wq[t] \in Seq(Memtable) /\ req_batch_wq[t] # <<>>
        /\ Tail(req_batch_wq[t]) \in Seq(Memtable)
    BY <1>9 DEF DeleteBatch, Takes, TypeOK
  <2>2. /\ req_batch_wq' \in [SSTable -> Seq(Memtable)]
        /\ \A v \in SSTable \ {t} : req_batch_wq'[v] = req_batch_wq[v]
    BY <1>9, <2>1, Zenon DEF DeleteBatch, TypeOK
  <2>3. cursor' \in SSTable
    BY <1>9, CursorStays, Zenon DEF DeleteBatch, Takes, Turn, TypeOK
  <2>4. TypeOK'
    BY Zenon, <1>9, <2>2, <2>3 DEF DeleteBatch, Takes, Turn, TypeOK, ioVars, startVars
  <2>5. Phases'
    BY <1>9, Zenon DEF DeleteBatch, Takes, Turn, Phases, Phase, ioVars, startVars
  <2>6. Covered'
    BY <1>9, <2>1, <2>2, Zenon DEF DeleteBatch, Covered, ioVars, startVars
  <2> QED
    BY <1>9, <2>4, <2>5, <2>6, Zenon DEF DeleteBatch, Takes, Turn
<1>10. ASSUME NEW t \in SSTable, KernelWrite(t) PROVE CompactionInv'
  <2>1. /\ writing[t] \in Memtable /\ t \in waiting_on_io /\ posted[t] = 0 /\ filters[t] # {}
    BY <1>10, Zenon DEF KernelWrite, TypeOK, Phases, Phase, Covered
  <2>2. /\ writing' \in [SSTable -> Memtable \cup {None}]
        /\ posted' \in [SSTable -> Nat]
        /\ writing'[t] = None /\ posted'[t] = 1
        /\ \A v \in SSTable \ {t} : writing'[v] = writing[v] /\ posted'[v] = posted[v]
    <3>1. posted[t] + 1 = 1 /\ 1 \in Nat
      BY <2>1
    <3> QED
      BY <1>10, <2>1, <3>1, Zenon DEF KernelWrite, TypeOK
  <2>3. /\ file' \in [SSTable -> [memtable : -1..MaxCompactions, meant : -1..MaxCompactions]]
        /\ \A v \in SSTable \ {t} : file'[v] = file[v]
    <3>1. meant[t] \in Memtable \cup {None}
      BY <1>10, Zenon DEF TypeOK
    <3> QED
      BY <1>10, <2>1, <3>1, Recorded, Zenon DEF KernelWrite, TypeOK
  <2>4. TypeOK'
    BY Zenon, <1>10, <2>2, <2>3 DEF KernelWrite, TypeOK, batchVars, tableVars, startVars
  <2>5. Phases'
    <3>1. 1 <= 1
      OBVIOUS
    <3>2. /\ is_flushed_to' = is_flushed_to /\ waiting_on_io' = waiting_on_io
          /\ leftovers' = leftovers /\ initialization' = initialization
          /\ initialization[t] = "over" /\ "over" # "chain"
      BY <1>10 DEF KernelWrite, tableVars, startVars
    <3>3. ASSUME NEW v \in SSTable \ {t} PROVE Phase(v)'
      BY <2>2, <2>3, <3>2, Zenon DEF Phases, Phase
    <3>4. Phase(t)'
      BY <2>1, <2>2, <3>1, <3>2, Zenon DEF Phase
    <3> QED
      BY <3>3, <3>4, Zenon DEF Phases
  <2>6. Covered'
    BY <1>10, <2>1, <2>2, <2>3, Zenon DEF KernelWrite, Covered, tableVars
  <2> QED
    BY <1>10, <2>4, <2>5, <2>6, Zenon DEF KernelWrite, batchVars
<1>11. ASSUME NEW t \in SSTable, NEW part \in BOOLEAN, KernelWriteFails(t, part)
       PROVE  CompactionInv'
  <2>1. meant[t] \in Memtable \cup {None} /\ t \in waiting_on_io /\ filters[t] # {}
    BY <1>11, Zenon DEF KernelWriteFails, TypeOK, Phases, Phase, Covered
  <2>2. /\ writing' \in [SSTable -> Memtable \cup {None}]
        /\ failed' \in SUBSET SSTable
        /\ writing'[t] = None
        /\ \A v \in SSTable \ {t} : writing'[v] = writing[v]
    BY <1>11, Zenon DEF KernelWriteFails, TypeOK
  <2>3. /\ file' \in [SSTable -> [memtable : -1..MaxCompactions, meant : -1..MaxCompactions]]
        /\ \A v \in SSTable \ {t} : file'[v] = file[v]
    BY <1>11, <2>1, Recorded, Zenon DEF KernelWriteFails, TypeOK
  <2>4. TypeOK'
    BY Zenon, <1>11, <2>2, <2>3 DEF KernelWriteFails, TypeOK, batchVars, tableVars, startVars
  <2>5. Phases'
    <3>1. /\ is_flushed_to' = is_flushed_to /\ waiting_on_io' = waiting_on_io
          /\ leftovers' = leftovers /\ initialization' = initialization /\ posted' = posted
      BY <1>11, Zenon DEF KernelWriteFails, tableVars, startVars
    <3>2. ASSUME NEW v \in SSTable \ {t} PROVE Phase(v)'
      BY <2>2, <2>3, <3>1, Zenon DEF Phases, Phase
    <3>3. Phase(t)'
      BY <2>1, <2>2, <3>1, Zenon DEF Phases, Phase
    <3> QED
      BY <3>2, <3>3, Zenon DEF Phases
  <2>6. Covered'
    BY <1>11, <2>1, <2>2, <2>3, Zenon DEF KernelWriteFails, Covered, tableVars
  <2> QED
    BY <1>11, <2>4, <2>5, <2>6, Zenon DEF KernelWriteFails, batchVars
<1>12. ASSUME NEW t \in SSTable, NEW posts \in BOOLEAN, InitializationEnds(t, posts)
       PROVE  CompactionInv'
  <2>1. leftovers /\ posted[t] = 0 /\ 0 + 1 = 1 /\ 1 \in Nat
    BY <1>12 DEF InitializationEnds, Phases, Phase
  <2>2. /\ initialization' \in [SSTable -> {"over", "chain", "ended"}]
        /\ initialization'[t] = "ended"
        /\ \A v \in SSTable \ {t} : initialization'[v] = initialization[v]
    BY <1>12, Zenon DEF InitializationEnds, TypeOK
  <2>3. /\ posted' \in [SSTable -> Nat] /\ posted'[t] \in {0, 1}
        /\ \A v \in SSTable \ {t} : posted'[v] = posted[v]
    BY <1>12, <2>1, Zenon DEF InitializationEnds, TypeOK
  <2>4. TypeOK'
    BY Zenon, <1>12, <2>2, <2>3 DEF InitializationEnds, TypeOK, batchVars, tableVars
  <2>5. Phases'
    <3>1. posted'[t] <= 1
      BY <2>3
    <3>2. /\ is_flushed_to' = is_flushed_to /\ waiting_on_io' = waiting_on_io
          /\ leftovers' = leftovers /\ writing' = writing /\ file' = file
          /\ "ended" # "over" /\ "ended" # "chain"
      BY <1>12 DEF InitializationEnds, tableVars
    <3>3. ASSUME NEW v \in SSTable \ {t} PROVE Phase(v)'
      BY <2>2, <2>3, <3>2, Zenon DEF Phases, Phase
    <3>4. Phase(t)'
      BY <2>1, <2>2, <3>1, <3>2, Zenon DEF Phases, Phase
    <3> QED
      BY <3>3, <3>4, Zenon DEF Phases
  <2>6. Covered'
    BY <1>12, Zenon DEF InitializationEnds, Covered, tableVars
  <2> QED
    BY <1>12, <2>4, <2>5, <2>6, Zenon DEF InitializationEnds, batchVars
<1>13. CASE UNCHANGED vars
  BY <1>13, Zenon DEF vars, TypeOK, Phases, Phase, Covered, batchVars, tableVars, ioVars, startVars
<1> QED
  BY <1>1, <1>2, <1>3, <1>4, <1>5, <1>6, <1>7, <1>8, <1>9, <1>10, <1>11, <1>12, <1>13, Zenon
  DEF Next, Main, Worker, Kernel

\* The invariant holds throughout every behaviour.
THEOREM CompactionInvariant == Spec => []CompactionInv
  BY InitInv, StepInv, PTL DEF Spec

\* The variables keep their types in a tree of any shape.
THEOREM TypeCorrect == Spec => []TypeOK
<1>1. CompactionInv => TypeOK
  BY Zenon DEF CompactionInv
<1> QED
  BY <1>1, CompactionInvariant, PTL

\* A scheduler ring with one entry per sstable never overflows (lsm_tree.hpp:470-473).
THEOREM SchedulerRing == Spec => []SchedulerRingSuffices
<1>1. CompactionInv => SchedulerRingSuffices
  BY DEF CompactionInv, Phases, Phase, TypeOK, SchedulerRingSuffices
<1> QED
  BY <1>1, CompactionInvariant, PTL

\* No data of this run is behind an empty filter (level_info.hpp:107-129).
THEOREM FilterNotEmpty == Spec => []NoDataBehindEmptyFilter
<1>1. CompactionInv => NoDataBehindEmptyFilter
  BY Zenon DEF CompactionInv, Covered, NoDataBehindEmptyFilter
<1> QED
  BY <1>1, CompactionInvariant, PTL

\* A file that this run has written, or that is marked as flushed, is never written to
\* (README.md:11), whatever startup has got wrong about the files.
THEOREM Immutable == Spec => SSTableImmutable
<1>1. CompactionInv /\ [Next]_vars
        => [\A t \in SSTable : t \in is_flushed_to \/ file[t] \notin {Empty, Old} => file'[t] = file[t]]_vars
  <2> SUFFICES ASSUME CompactionInv, Next, NEW t \in SSTable,
                      t \in is_flushed_to \/ file[t] \notin {Empty, Old}
               PROVE  file'[t] = file[t]
    BY Zenon
  <2>1. ASSUME NEW u \in SSTable, KernelWrite(u) PROVE file'[t] = file[t]
    BY <2>1, Zenon DEF KernelWrite, CompactionInv, Phases, Phase, TypeOK
  <2>2. ASSUME NEW u \in SSTable, NEW part \in BOOLEAN, KernelWriteFails(u, part)
        PROVE  file'[t] = file[t]
    BY <2>2, Zenon DEF KernelWriteFails, CompactionInv, Phases, Phase, TypeOK
  <2>3. ASSUME NEW u \in SSTable, NEW posts \in BOOLEAN, InitializationEnds(u, posts)
        PROVE  file'[t] = file[t]
    BY <2>3, Zenon DEF InitializationEnds
  <2>4. CASE Main \/ Worker
    BY Zenon, <2>4 DEF Main, Worker, NewSegment, FillSegment, InsertAtLevel0, NoMessage, Completion,
                NothingToDo, MoveDown, SubmitFlush, DeleteBatch, ioVars
  <2> QED
    BY <2>1, <2>2, <2>3, <2>4, Zenon DEF Next, Kernel
<1> QED
  BY <1>1, CompactionInvariant, PTL DEF Spec, SSTableImmutable

(***************************************************************************)
(* Why one sstable at most is ever written.  A batch only waits, or is     *)
(* only written, at the target of a level, and on every level above it has *)
(* passed a target that was flushed to and does not wait.  A target that   *)
(* is written waits for ever, so nothing passes it; and targets stay.      *)
(***************************************************************************)
Way(t) ==
  /\ t = Target(t[1])
  /\ \A l \in 0..(t[1] - 1) : Target(l) \in is_flushed_to \ waiting_on_io

PathInv ==
  \A t \in SSTable :
    /\ req_batch_wq[t] # <<>> \/ t \in waiting_on_io => Way(t)
    /\ file[t] \notin {Empty, Old} => t \in waiting_on_io
    /\ t \in failed => t \in waiting_on_io /\ writing[t] = None

\* Two sstables cannot both be on the way of a batch if one waits and the other waits
\* or is free to be written.
LEMMA OneOnTheWay ==
  ASSUME NEW t \in SSTable, NEW u \in SSTable, Way(t), Way(u), t \in waiting_on_io,
         u \in waiting_on_io \/ u \notin is_flushed_to
  PROVE  t = u
<1>1. t[1] \in Int /\ u[1] \in Int /\ t[1] >= 0 /\ u[1] >= 0
  BY TreeAssumption DEF SSTable, Last, TreeAssumption
<1>2. CASE t[1] < u[1]
  BY <1>1, <1>2 DEF Way
<1>3. CASE u[1] < t[1]
  BY <1>1, <1>3 DEF Way
<1>4. CASE t[1] = u[1]
  BY <1>4, Zenon DEF Way
<1> QED
  BY <1>1, <1>2, <1>3, <1>4

\* The kernel performs a write of sstable t, whatever comes of it.
Performed(t) == KernelWrite(t) \/ \E part \in BOOLEAN : KernelWriteFails(t, part)

\* No step changes the target of a level.
LEMMA TargetsFixed ==
  CompactionInv /\ [Next]_vars => \A l \in 0..Last : Target(l)' = Target(l)
<1> SUFFICES ASSUME CompactionInv, [Next]_vars, NEW l \in 0..Last PROVE Target(l)' = Target(l)
  BY Zenon
<1>0. filters \in [SSTable -> SUBSET Entry]
  BY Zenon DEF CompactionInv, TypeOK
<1>1. CASE \E ends, kept \in BOOLEAN : InsertAtLevel0(ends, kept)
  <2>1. 0 \in 0..Last
    BY TreeAssumption DEF TreeAssumption, Last
  <2> QED
    BY <1>0, <1>1, <2>1, TargetStays, Zenon DEF InsertAtLevel0
<1>2. CASE \E t \in SSTable, ends \in BOOLEAN : MoveDown(t, ends)
  <2>1. PICK t \in SSTable, ends \in BOOLEAN : MoveDown(t, ends)
    BY <1>2, Zenon
  <2>2. t[1] + 1 \in 0..Last
    BY <2>1, TreeAssumption DEF MoveDown, SSTable, TreeAssumption, Last
  <2> QED
    BY <1>0, <2>1, <2>2, TargetStays, Zenon DEF MoveDown
<1>3. CASE filters' = filters
  <2>1. FirstEmpty(l)' = FirstEmpty(l)
    BY <1>3 DEF FirstEmpty
  <2>2. Behind(l)' = Behind(l)
    BY <2>1, Zenon DEF Behind
  <2> QED
    BY <2>2 DEF Target
<1> QED
  BY <1>1, <1>2, <1>3, Zenon
  DEF Next, Main, Worker, Kernel, NewSegment, FillSegment, NoMessage, Completion, NothingToDo,
      SubmitFlush, DeleteBatch, KernelWrite, KernelWriteFails, InitializationEnds, tableVars, vars

\* Every step preserves it.
LEMMA StepPath == CompactionInv /\ CompactionInv' /\ PathInv /\ [Next]_vars => PathInv'
<1> SUFFICES ASSUME CompactionInv, CompactionInv', PathInv, [Next]_vars PROVE PathInv'
  BY Zenon
<1>1. \A l \in 0..Last : Target(l)' = Target(l)
  BY TargetsFixed, Zenon
<1>2. ASSUME NEW t \in SSTable, Way(t), is_flushed_to \subseteq is_flushed_to',
             waiting_on_io' = waiting_on_io
      PROVE  Way(t)'
  <2>1. t[1] \in 0..Last /\ \A l \in 0..(t[1] - 1) : l \in 0..Last
    BY TreeAssumption DEF SSTable, Last, TreeAssumption
  <2> QED
    BY <1>1, <1>2, <2>1, Zenon DEF Way
<1>3. CASE UNCHANGED <<waiting_on_io, is_flushed_to, req_batch_wq, writing, file, failed>>
  BY <1>2, <1>3, Zenon DEF PathInv
<1>4. ASSUME NEW ends \in BOOLEAN, NEW kept \in BOOLEAN, InsertAtLevel0(ends, kept) PROVE PathInv'
  <2>1. 0 \in 0..Last
    BY TreeAssumption DEF TreeAssumption, Last
  <2>2. PICK u \in SSTable : u = Target(0)
    BY <2>1, DecomposeTarget, Zenon DEF CompactionInv, TypeOK
  <2>3. \A v \in SSTable \ {u} : req_batch_wq'[v] = req_batch_wq[v]
    BY <1>4, <2>2, Zenon DEF InsertAtLevel0, CompactionInv, TypeOK
  <2>4. Way(u)'
    <3>1. u[1] = 0
      BY <2>2, Zenon DEF Target
    <3> QED
      BY <1>1, <2>1, <2>2, <3>1 DEF Way
  <2> QED
    BY Zenon, <1>2, <1>4, <2>3, <2>4 DEF InsertAtLevel0, PathInv, ioVars
<1>5. ASSUME NEW t \in SSTable, Completion(t) PROVE PathInv'
  <2>1. /\ is_flushed_to \subseteq is_flushed_to' /\ waiting_on_io' = waiting_on_io
        /\ UNCHANGED <<req_batch_wq, writing, file, failed>>
    BY Zenon, <1>5 DEF Completion, FlushedWith, WaitingAfterFlush
  <2> QED
    BY <1>2, <2>1, Zenon DEF PathInv
<1>6. ASSUME NEW t \in SSTable, NEW ends \in BOOLEAN, MoveDown(t, ends) PROVE PathInv'
  <2>1. t[1] + 1 \in 0..Last /\ t[1] \in Nat
    BY <1>6, TreeAssumption DEF MoveDown, SSTable, TreeAssumption, Last
  <2>2. PICK u \in SSTable : u = Target(t[1] + 1)
    BY Zenon, <2>1, DecomposeTarget DEF CompactionInv, TypeOK
  <2>3. /\ UNCHANGED <<is_flushed_to, waiting_on_io, writing, file, failed>>
        /\ req_batch_wq[t] # <<>> /\ t \in is_flushed_to \ waiting_on_io
    BY <1>6, Zenon DEF MoveDown, Takes, ioVars
  <2>4. \A v \in SSTable \ {u, t} : req_batch_wq'[v] = req_batch_wq[v]
    BY <1>6, <2>2, Zenon DEF MoveDown, CompactionInv, TypeOK
  <2>5. Way(t) /\ Way(t)'
    BY <1>2, <2>3, Zenon DEF PathInv
  <2>6. Way(u)'
    <3>1. u[1] = t[1] + 1
      BY <2>2, Zenon DEF Target
    <3>2. \A l \in 0..(u[1] - 1) : l \in 0..Last /\ (l \in 0..(t[1] - 1) \/ l = t[1])
      BY <2>1, <3>1, TreeAssumption DEF Last, TreeAssumption
    <3>3. \A l \in 0..(u[1] - 1) : Target(l) \in is_flushed_to \ waiting_on_io
      BY <2>3, <2>5, <3>2, Zenon DEF Way
    <3> QED
      BY <1>1, <2>1, <2>2, <2>3, <3>1, <3>2, <3>3, Zenon DEF Way
  <2>7. ASSUME NEW v \in SSTable, req_batch_wq'[v] # <<>> \/ v \in waiting_on_io'
        PROVE  Way(v)'
    <3>1. CASE v = u
      BY <2>6, <3>1, Zenon
    <3>2. CASE v = t
      BY <2>5, <3>2, Zenon
    <3>3. CASE v \notin {u, t}
      BY <1>2, <2>3, <2>4, <2>7, <3>3, Zenon DEF PathInv
    <3> QED
      BY <3>1, <3>2, <3>3, Zenon
  <2> QED
    BY <2>3, <2>7, Zenon DEF PathInv
<1>7. ASSUME NEW t \in SSTable, SubmitFlush(t) PROVE PathInv'
  <2>1. /\ UNCHANGED <<is_flushed_to, file, failed>> /\ waiting_on_io' = waiting_on_io \cup {t}
        /\ req_batch_wq[t] # <<>> /\ t \notin is_flushed_to /\ t \notin waiting_on_io
    BY <1>7, Zenon DEF SubmitFlush, Takes, WaitingWith
  <2>2. /\ \A v \in SSTable \ {t} : req_batch_wq'[v] = req_batch_wq[v] /\ writing'[v] = writing[v]
    BY <1>7, Zenon DEF SubmitFlush, CompactionInv, TypeOK
  <2>3. ASSUME NEW v \in SSTable, req_batch_wq'[v] # <<>> \/ v \in waiting_on_io' PROVE Way(v)'
    <3>1. Way(v)
      BY <2>1, <2>2, <2>3, Zenon DEF PathInv
    <3>2. v[1] \in 0..Last /\ \A l \in 0..(v[1] - 1) : l \in 0..Last
      BY TreeAssumption DEF SSTable, Last, TreeAssumption
    <3>3. \A l \in 0..(v[1] - 1) : Target(l) \in is_flushed_to' \ waiting_on_io'
      BY <2>1, <3>1, Zenon DEF Way
    <3> QED
      BY <1>1, <3>1, <3>2, <3>3, Zenon DEF Way
  <2> QED
    BY <2>1, <2>2, <2>3, Zenon DEF PathInv
<1>8. ASSUME NEW t \in SSTable, DeleteBatch(t) PROVE PathInv'
  <2>1. /\ UNCHANGED <<is_flushed_to, waiting_on_io, writing, file, failed>>
        /\ \A v \in SSTable \ {t} : req_batch_wq'[v] = req_batch_wq[v]
        /\ req_batch_wq[t] # <<>>
    BY <1>8, Zenon DEF DeleteBatch, Takes, ioVars, CompactionInv, TypeOK
  <2> QED
    BY <1>2, <2>1, Zenon DEF PathInv
<1>9. ASSUME NEW t \in SSTable, Performed(t) PROVE PathInv'
  <2>1. /\ UNCHANGED <<is_flushed_to, waiting_on_io, req_batch_wq>>
        /\ failed' \subseteq failed \cup {t} /\ writing'[t] = None
        /\ \A v \in SSTable \ {t} : file'[v] = file[v] /\ writing'[v] = writing[v]
    <3>1. /\ writing \in [SSTable -> Memtable \cup {None}] /\ DOMAIN file = SSTable
      BY Zenon DEF CompactionInv, TypeOK
    <3>2. CASE KernelWrite(t)
      BY <3>1, <3>2, Zenon DEF KernelWrite, tableVars
    <3>3. CASE \E part \in BOOLEAN : KernelWriteFails(t, part)
      <4>1. PICK part \in BOOLEAN : KernelWriteFails(t, part)
        BY <3>3, Zenon
      <4> QED
        BY <3>1, <4>1, Zenon DEF KernelWriteFails, tableVars
    <3> QED
      BY <1>9, <3>2, <3>3, Zenon DEF Performed
  <2>2. t \in waiting_on_io
    BY Zenon, <1>9 DEF Performed, KernelWrite, KernelWriteFails, CompactionInv, Phases, Phase
  <2> QED
    BY <1>2, <2>1, <2>2, Zenon DEF PathInv
<1> QED
  BY Zenon, <1>3, <1>4, <1>5, <1>6, <1>7, <1>8, <1>9
  DEF Next, Main, Worker, Kernel, Performed, InitializationEnds, NewSegment, FillSegment, NoMessage, NothingToDo, tableVars, ioVars, vars

\* The way of every batch, in every behaviour (lsm_tree.hpp:785-804, level_info.hpp:107-129).
THEOREM BatchesKeepToTheWay == Spec => []PathInv
<1>1. Init => PathInv
  BY DEF Init, PathInv
<1> QED
  BY <1>1, StepPath, CompactionInvariant, PTL DEF Spec

\* At most one sstable of the tree is ever written (level_info.hpp:108, lsm_tree.hpp:803).
THEOREM OnlyOneTable == Spec => []OnlyOneTableWritten
<1>1. PathInv => OnlyOneTableWritten
  BY Zenon, OneOnTheWay DEF PathInv, OnlyOneTableWritten
<1> QED
  BY <1>1, BatchesKeepToTheWay, PTL

\* No file changes and no write is under way once a write has failed (lsm_tree.hpp:803).
THEOREM FailureIsFinal == Spec => NoFlushAfterFailure
<1>1. CompactionInv /\ PathInv /\ [Next]_vars
      => [failed # {} => file' = file /\ \A t \in SSTable : writing'[t] = None]_vars
  <2> SUFFICES ASSUME CompactionInv, PathInv, Next, NEW f \in failed
               PROVE  file' = file /\ \A t \in SSTable : writing'[t] = None
    BY Zenon
  <2>1. f \in SSTable /\ f \in waiting_on_io /\ Way(f) /\ writing[f] = None
    BY Zenon DEF CompactionInv, TypeOK, PathInv
  <2>2. \A t \in SSTable : writing[t] = None
    BY <2>1, OneOnTheWay, Zenon DEF CompactionInv, Phases, Phase, PathInv
  <2>3. ASSUME NEW t \in SSTable, Kernel(t) PROVE UNCHANGED <<writing, file>>
    BY <2>2, <2>3, Zenon DEF Kernel, KernelWrite, KernelWriteFails, InitializationEnds
  <2>4. ASSUME NEW t \in SSTable PROVE ~SubmitFlush(t)
    BY <2>1, OneOnTheWay, Zenon DEF SubmitFlush, Takes, PathInv
  <2>5. UNCHANGED <<writing, file>>
    BY Zenon, <2>3, <2>4
    DEF Next, Main, Worker, NewSegment, FillSegment, InsertAtLevel0, NoMessage, Completion,
        NothingToDo, MoveDown, DeleteBatch, ioVars
  <2> QED
    BY <2>2, <2>5, Zenon
<1> QED
  BY <1>1, CompactionInvariant, BatchesKeepToTheWay, PTL DEF Spec, NoFlushAfterFailure

(***************************************************************************)
(* Where a flush is.  This is what FlushRecorded rests on: a write that is *)
(* submitted goes from one stage to the next and is in one of them only.   *)
(***************************************************************************)
Writes(t) == writing[t] # None
Announced(t) == posted[t] > 0

OneStage(t) ==
  \/ Writes(t) /\ ~Announced(t) /\ t \notin failed /\ t \notin is_flushed_to
  \/ ~Writes(t) /\ Announced(t) /\ t \notin failed /\ t \notin is_flushed_to
  \/ ~Writes(t) /\ ~Announced(t) /\ t \in failed /\ t \notin is_flushed_to
  \/ ~Writes(t) /\ ~Announced(t) /\ t \notin failed /\ t \in is_flushed_to

\* An sstable that waits for I/O waits for a write the kernel performs, or for a message in
\* the scheduler's ring, or its flush has failed, or it is recorded: one of these and no two,
\* so that no flush is recorded before its message comes and none is lost on the way.  (The
\* message of an sstable that startup is not through with may be one of startup's.)
FlushTracked ==
  ~fault => \A t \in waiting_on_io : initialization[t] = "over" => OneStage(t)

\* A flush goes on from its stage to the next one or to the end of the process, and what has
\* failed or is recorded stays so.
FlushAdvances ==
  [][\A t \in SSTable :
       /\ Writes(t) => fault' \/ Writes(t)' \/ Announced(t)' \/ t \in failed'
       /\ Announced(t) => fault' \/ Announced(t)' \/ t \in is_flushed_to'
       /\ t \in failed => t \in failed'
       /\ t \in is_flushed_to => t \in is_flushed_to']_vars

\* The batch of compactions has a segment from the first full memtable on, and waits nowhere
\* before.
SegmentInv ==
  /\ segment = compactions
  /\ compactions = 0 => \A t \in SSTable : req_batch_wq[t] = <<>>

\* A batch that is taken from a wait queue has a segment.
LEMMA SegmentThere == Spec => []SegmentInv
<1>1. Init => SegmentInv
  BY Zenon DEF Init, SegmentInv, None
<1>2. CompactionInv /\ SegmentInv /\ [Next]_vars => SegmentInv'
  <2> SUFFICES ASSUME CompactionInv, SegmentInv, [Next]_vars PROVE SegmentInv'
    BY Zenon
  <2> USE DEF SegmentInv, batchVars, tableVars
  <2>0. TypeOK /\ compactions \in Nat
    <3>1. TypeOK /\ compactions \in 0..MaxCompactions
      BY Zenon DEF CompactionInv, TypeOK
    <3>2. compactions \in Nat
      BY <3>1, TreeAssumption
    <3> QED
      BY <3>1, <3>2, Zenon
  <2>1. CASE NewSegment
    BY <2>0, <2>1 DEF NewSegment
  <2>2. CASE FillSegment \/ NoMessage
    BY <2>2, Zenon DEF FillSegment, NoMessage
  <2>3. ASSUME NEW ends \in BOOLEAN, NEW kept \in BOOLEAN, InsertAtLevel0(ends, kept)
        PROVE  SegmentInv'
    BY <2>0, <2>3 DEF InsertAtLevel0, CompactionInv
  <2>4. ASSUME NEW t \in SSTable, Completion(t) \/ NothingToDo(t) \/ Kernel(t) PROVE SegmentInv'
    BY <2>4, Zenon DEF Completion, NothingToDo, Kernel, KernelWrite, KernelWriteFails, InitializationEnds
  <2>5. ASSUME NEW t \in SSTable,
               \/ SubmitFlush(t) \/ DeleteBatch(t)
               \/ \E ends \in BOOLEAN : MoveDown(t, ends)
        PROVE  SegmentInv'
    <3>1. compactions # 0 /\ UNCHANGED <<segment, compactions>>
      BY Zenon, <2>5 DEF SubmitFlush, DeleteBatch, MoveDown, Takes
    <3> QED
      BY <3>1, Zenon
  <2>6. CASE UNCHANGED vars
    BY <2>6, Zenon DEF vars
  <2> QED
    BY Zenon, <2>1, <2>2, <2>3, <2>4, <2>5, <2>6 DEF Next, Main, Worker
<1> QED
  BY <1>1, <1>2, CompactionInvariant, PTL DEF Spec

\* Every step keeps a flush in one stage.
LEMMA StepTracked ==
  ASSUME CompactionInv, PathInv, SegmentInv, FlushTracked, [Next]_vars
  PROVE  FlushTracked'
<1> USE DEF FlushTracked, OneStage, Writes, Announced
<1> SUFFICES ASSUME ~fault', NEW t \in waiting_on_io', initialization'[t] = "over"
             PROVE  OneStage(t)'
  BY Zenon
<1>0. TypeOK /\ Phases
  BY Zenon DEF CompactionInv
<1>1. CASE Main \/ NoMessage
  BY <1>1, Zenon
  DEF Main, NewSegment, FillSegment, InsertAtLevel0, NoMessage, tableVars, ioVars, startVars
<1>2. ASSUME NEW u \in SSTable, Completion(u) PROVE OneStage(t)'
  <2>1. /\ ~fault /\ ~leftovers /\ t \in waiting_on_io /\ posted[u] = 1
        /\ u \in waiting_on_io
        /\ posted' = [posted EXCEPT ![u] = 0]
        /\ is_flushed_to' = is_flushed_to \cup {u}
        /\ UNCHANGED <<writing, failed, initialization>>
        /\ initialization[u] = "over"
    <3>1. ~fault /\ ~leftovers /\ initialization[u] = "over"
      BY <1>0, <1>2, Zenon DEF Completion, Phases, Phase
    <3>2. posted[u] \in Nat /\ posted[u] > 0 /\ posted[u] <= 1 /\ u \in waiting_on_io
      BY <1>0, <1>2, <3>1, Zenon DEF Completion, Phases, Phase, TypeOK
    <3>3. posted[u] = 1
      BY <3>2
    <3> QED
      BY <1>2, <3>1, <3>2, <3>3 DEF Completion, FlushedWith, WaitingAfterFlush, startVars
  <2>2. OneStage(t) /\ OneStage(u) /\ t \in SSTable
    BY <1>0, <2>1, Zenon DEF TypeOK
  <2>3. CASE t = u
    BY <1>0, <2>1, <2>2, <2>3 DEF TypeOK
  <2>4. CASE t # u
    BY <1>0, <2>1, <2>2, <2>4, Zenon DEF TypeOK
  <2> QED
    BY <2>3, <2>4, Zenon
<1>3. ASSUME NEW u \in SSTable,
             NothingToDo(u) \/ DeleteBatch(u) \/ \E ends \in BOOLEAN : MoveDown(u, ends)
      PROVE  OneStage(t)'
  BY <1>3, Zenon DEF NothingToDo, DeleteBatch, MoveDown, Takes, Turn, tableVars, ioVars, startVars
<1>4. ASSUME NEW u \in SSTable, SubmitFlush(u) PROVE OneStage(t)'
  <2>1. /\ ~fault /\ u \notin waiting_on_io /\ u \notin is_flushed_to
        /\ writing' = [writing EXCEPT ![u] = segment]
        /\ waiting_on_io' = waiting_on_io \cup {u}
        /\ UNCHANGED <<is_flushed_to, posted, failed, initialization>>
    BY Zenon, <1>4 DEF SubmitFlush, Takes, Turn, WaitingWith, startVars
  <2>2. segment # None /\ (t = u => posted[u] = 0) /\ u \notin failed
    <3>1. segment # None
      BY Zenon, <1>4 DEF SubmitFlush, Takes, SegmentInv, None
    <3>2. t = u => posted[u] = 0
      BY <1>0, <2>1 DEF Phases, Phase, TypeOK
    <3>3. u \notin failed
      BY <2>1, Zenon DEF PathInv
    <3> QED
      BY <3>1, <3>2, <3>3, Zenon
  <2>3. CASE t = u
    BY <1>0, <2>1, <2>2, <2>3 DEF TypeOK
  <2>4. CASE t # u
    BY Zenon, <1>0, <2>1, <2>4 DEF TypeOK
  <2> QED
    BY <2>3, <2>4, Zenon
<1>5. ASSUME NEW u \in SSTable, Performed(u) PROVE OneStage(t)'
  <2>1. /\ ~fault /\ writing[u] # None /\ u \in waiting_on_io
        /\ UNCHANGED <<waiting_on_io, is_flushed_to, initialization>>
        /\ writing' = [writing EXCEPT ![u] = None]
        /\ t = u => posted[u] = 0
    BY <1>0, <1>5, Zenon
    DEF Performed, KernelWrite, KernelWriteFails, tableVars, startVars, Phases, Phase
  <2>2. \/ posted' = [posted EXCEPT ![u] = posted[u] + 1] /\ failed' = failed
        \/ posted' = posted /\ failed' = failed \cup {u}
    BY <1>5, Zenon DEF Performed, KernelWrite, KernelWriteFails
  <2>3. OneStage(t) /\ t \in SSTable
    BY <1>0, <2>1, Zenon DEF TypeOK
  <2>4. CASE t = u
    BY <1>0, <2>1, <2>2, <2>3, <2>4 DEF TypeOK
  <2>5. CASE t # u
    BY Zenon, <1>0, <2>1, <2>2, <2>3, <2>5 DEF TypeOK
  <2> QED
    BY <2>4, <2>5, Zenon
<1>6. ASSUME NEW u \in SSTable, NEW posts \in BOOLEAN, InitializationEnds(u, posts)
      PROVE  OneStage(t)'
  <2>1. ~fault /\ t \in SSTable /\ t # u /\ initialization[t] = "over" /\ posted'[t] = posted[t]
    BY <1>0, <1>6, Zenon DEF InitializationEnds, TypeOK, tableVars
  <2> QED
    BY <1>6, <2>1, Zenon DEF InitializationEnds, tableVars
<1>7. CASE UNCHANGED vars
  BY Zenon, <1>7 DEF vars, tableVars, ioVars, startVars
<1> QED
  BY Zenon, <1>1, <1>2, <1>3, <1>4, <1>5, <1>6, <1>7 DEF Next, Worker, Kernel, Performed

\* A flush is in one stage at a time, for trees of any shape and any number of memtables
\* (lsm_tree.hpp:803).
THEOREM FlushInOneStage == Spec => []FlushTracked
<1>1. Init => FlushTracked
  BY Zenon DEF Init, FlushTracked
<1>2. CompactionInv /\ PathInv /\ SegmentInv /\ FlushTracked /\ [Next]_vars => FlushTracked'
  BY StepTracked, Zenon
<1> QED
  BY <1>1, <1>2, CompactionInvariant, BatchesKeepToTheWay, SegmentThere, PTL DEF Spec

\* A flush never goes back, and its stages come in order.
THEOREM FlushGoesOn == Spec => FlushAdvances
<1>1. TypeOK /\ Phases /\ [Next]_vars =>
        [\A t \in SSTable :
           /\ Writes(t) => fault' \/ Writes(t)' \/ Announced(t)' \/ t \in failed'
           /\ Announced(t) => fault' \/ Announced(t)' \/ t \in is_flushed_to'
           /\ t \in failed => t \in failed'
           /\ t \in is_flushed_to => t \in is_flushed_to']_vars
  <2> SUFFICES ASSUME TypeOK, Phases, Next, NEW t \in SSTable
               PROVE  /\ Writes(t) => fault' \/ Writes(t)' \/ Announced(t)' \/ t \in failed'
                      /\ Announced(t) => fault' \/ Announced(t)' \/ t \in is_flushed_to'
                      /\ t \in failed => t \in failed'
                      /\ t \in is_flushed_to => t \in is_flushed_to'
    BY Zenon
  <2> USE DEF Writes, Announced, tableVars, ioVars
  <2>1. CASE Main \/ NoMessage
    BY <2>1, Zenon DEF Main, NewSegment, FillSegment, InsertAtLevel0, NoMessage
  <2>2. ASSUME NEW u \in SSTable, Completion(u)
        PROVE  /\ Announced(t) => fault' \/ Announced(t)' \/ t \in is_flushed_to'
               /\ t \in is_flushed_to => t \in is_flushed_to'
               /\ UNCHANGED <<writing, failed>>
    BY <2>2, Zenon DEF Completion, FlushedWith, TypeOK
  <2>3. ASSUME NEW u \in SSTable,
               NothingToDo(u) \/ DeleteBatch(u) \/ \E ends \in BOOLEAN : MoveDown(u, ends)
        PROVE  UNCHANGED <<writing, posted, failed, is_flushed_to>>
    BY <2>3, Zenon DEF NothingToDo, DeleteBatch, MoveDown
  <2>4. ASSUME NEW u \in SSTable, SubmitFlush(u)
        PROVE  (Writes(t) => Writes(t)') /\ UNCHANGED <<posted, failed, is_flushed_to>>
    <3>1. u \notin waiting_on_io /\ writing' = [writing EXCEPT ![u] = segment]
      BY <2>4, Zenon DEF SubmitFlush, Takes
    <3> QED
      BY <2>4, <3>1, Zenon DEF SubmitFlush, Phases, Phase, TypeOK
  <2>5. ASSUME NEW u \in SSTable, Kernel(u)
        PROVE  /\ Writes(t) => Writes(t)' \/ Announced(t)' \/ t \in failed'
               /\ Announced(t) => Announced(t)'
               /\ t \in failed => t \in failed'
               /\ UNCHANGED is_flushed_to
    <3>1. /\ UNCHANGED is_flushed_to
          /\ \/ /\ posted' = [posted EXCEPT ![u] = posted[u] + 1] /\ failed' = failed
                /\ writing' \in {writing, [writing EXCEPT ![u] = None]}
             \/ posted' = posted /\ failed' = failed /\ writing' = writing
             \/ /\ posted' = posted /\ failed' = failed \cup {u}
                /\ writing' = [writing EXCEPT ![u] = None]
      BY <2>5, Zenon DEF Kernel, KernelWrite, KernelWriteFails, InitializationEnds
    <3>2. posted[u] \in Nat /\ posted \in [SSTable -> Nat] /\ failed \in SUBSET SSTable
      BY Zenon DEF TypeOK
    <3>3. CASE t = u
      BY <3>1, <3>2, <3>3
    <3>4. CASE t # u
      BY <3>1, <3>4, Zenon DEF TypeOK
    <3> QED
      BY <3>3, <3>4, Zenon
  <2> QED
    BY Zenon, <2>1, <2>2, <2>3, <2>4, <2>5 DEF Next, Worker
<1>2. CompactionInv => TypeOK /\ Phases
  BY Zenon DEF CompactionInv
<1> QED
  BY <1>1, <1>2, CompactionInvariant, PTL DEF Spec, FlushAdvances
==============================================================================
