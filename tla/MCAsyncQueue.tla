---------------------------- MODULE MCAsyncQueue ----------------------------
(* A small instance of AsyncQueue: the queue is of any class and unbounded *)
(* or of size 1 or 2.                                                      *)
EXTENDS AsyncQueue

CONSTANTS p1, p2, c1, c2, j1

MCProducers == {p1, p2}
MCConsumers == {c1, c2}
MCJoiners == {j1}
MCPriorities == {0, 1}
MCMaxSizes == {0, 1, 2}
=============================================================================
