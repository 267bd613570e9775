------------------------------- MODULE MCReads -------------------------------
(***************************************************************************)
(* An instance of TreeRead for TLC: the memory that was never written is   *)
(* the same everywhere, in the ring of the buffers and in the rows of the  *)
(* stack.                                                                  *)
(***************************************************************************)
EXTENDS TreeRead

MCInit ==
  /\ Init
  /\ \A c \in Cell : queue[c] = queue[0]
  /\ \A i \in DOMAIN stack.data : stack.data[i] = stack.data[0]

MCFairSpec == MCInit /\ [][Next]_vars /\ Fairness
==============================================================================
