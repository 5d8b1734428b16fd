---------------------------- MODULE MCCmRequests ----------------------------
(* Priority lists for model checking CmRequests: lists with runs of equal  *)
(* priorities of several lengths and places, up to one run more than there *)
(* are groups, one list that is too long and one whose second entry is out *)
(* of range.                                                               *)
EXTENDS CmRequests, TLC

MCPriorities ==
  {<<>>, <<0>>, <<0, 0>>, <<0, 1, 1>>, <<0, 1, 0>>, <<0, 0, 0, 1>>, <<0, 0, 1, 1>>,
   <<0, 0, 1, 2, 2>>, <<0, 0, 1, 1, 2, 2>>, <<0, 1, 2, 3, 4, 5, 0>>}
MCLists ==
  {[i \in 1 .. Len(p) |-> [ref |-> i % NumRefs, priority |-> p[i]]] : p \in MCPriorities}
    \cup {<<[ref |-> 0, priority |-> 1], [ref |-> NumRefs, priority |-> 0]>>}

MCImageBytes == {[own |-> 1, rest |-> 1]}

Alike == Permutations(Users)
=============================================================================
