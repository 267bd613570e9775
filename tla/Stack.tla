-------------------------------- MODULE Stack --------------------------------
(***************************************************************************)
(* The class Stack: rows of four numbers and the index back of the next    *)
(* free row.  top() returns the row that is free, not the newest one.      *)
(*                                                                         *)
(* The rows are not initialised (stack.hpp:12), and the memory a stack is  *)
(* in comes from new: a row that was never written holds zeros or anything *)
(* else, Unknown.                                                          *)
(***************************************************************************)
EXTENDS Naturals

Row == Nat \X Nat \X Nat \X Nat
ZeroRow == <<0, 0, 0, 0>>
Unknown == <<>>
NewStacks(length) ==
  {[back |-> 0, data |-> rows] : rows \in [0..(length - 1) -> {ZeroRow, Unknown}]}

push_top(stack, row) ==
  [back |-> stack.back + 1, data |-> [stack.data EXCEPT ![stack.back] = row]]

top(stack) == stack.data[stack.back]

pop_top(stack) == [stack EXCEPT !.back = @ - 1]

empty(stack) == stack.back = 0
==============================================================================
