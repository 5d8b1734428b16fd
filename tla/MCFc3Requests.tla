--------------------------- MODULE MCFc3Requests ---------------------------
(* Connections of references and lists of priorities for model checking    *)
(* Fc3Requests.                                                            *)
EXTENDS Fc3Requests

Entry(c, p) == [clock |-> c, prio |-> p]

(* Both references at one clock, and at two.                               *)
MCMuxes == {[r \in Refs |-> 1], [r \in Refs |-> r]}

(* Nothing, one clock, two clocks, a clock twice, a clock that is not      *)
(* connected, a priority and a clock out of range, and too many entries.   *)
MCLists ==
  {<<>>, <<Entry(1, 1)>>, <<Entry(1, 0), Entry(0, 1)>>, <<Entry(0, 0), Entry(0, 1)>>,
   <<Entry(1, 0), Entry(2, 0)>>, <<Entry(1, 2)>>, <<Entry(3, 0)>>,
   <<Entry(1, 0), Entry(0, 0), Entry(1, 1)>>}
=============================================================================
