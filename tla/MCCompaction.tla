---------------------------- MODULE MCCompaction ----------------------------
(***************************************************************************)
(* Compactions from some of the states in which startup may hand over the  *)
(* tree, so that TLC gets through: files with data or without, the same    *)
(* for all sstables, and keys in the filter of every marked sstable or in  *)
(* none.  Every combination of a mark with data and with keys is among     *)
(* them.  If startup is not through with an sstable, there are no data and *)
(* no keys.  The proofs in CompactionProofs are about all states.          *)
(***************************************************************************)
EXTENDS Compaction

MCInit ==
  /\ Init
  /\ \A t, u \in SSTable : file[t] = file[u]
  /\ \A t, u \in is_flushed_to : filters[t] = filters[u]
  /\ \A t, u \in SSTable : initialization[t] # "over" => file[u] = Empty /\ filters[u] = {}

MCFairSpec == MCInit /\ [][Next]_vars /\ Fairness
==============================================================================
