------------------------------ MODULE MCStreams ------------------------------
(* Streams over five values, with every kind of operator. *)
EXTENDS Streams

MCSource == <<1, 2, 1, 3, 2>>
Operator(kind, size, step) == [kind |-> kind, size |-> size, step |-> step]
MCOperators ==
  {Operator(kind, 1, 1) : kind \in {"map", "filter", "distinct", "skip"}}
    \cup {Operator(kind, 2, 1) : kind \in {"take", "batch", "window"}}
    \cup {Operator("window", 2, 2), Operator("window", 1, 3)}
=============================================================================
