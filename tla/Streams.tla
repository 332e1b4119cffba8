------------------------------- MODULE Streams -------------------------------
(***************************************************************************)
(* Stream and its operators, of mtaio/data/stream.py.  Every method that   *)
(* adds an operator makes a stream whose source is the stream it was       *)
(* called on and whose operators are those of that stream and the new one, *)
(* the same objects.  A consumer iterates over the last stream made, to    *)
(* the end or not, perhaps more than once.                                 *)
(*                                                                         *)
(* An item is known by the values of the source it was made from and by    *)
(* how often it was mapped and grouped.                                    *)
(***************************************************************************)
EXTENDS Naturals, Sequences, SequencesExt

CONSTANTS
  Source,          \* the values of the iterable
  Kept,            \* those that the predicate of filter() is true of
  Operators,       \* what may be added: kind, size (or n) and step, which is not 0
  MaxOperators, MaxIterations      \* bounds

VARIABLES
  operators,    \* _operators of the last stream, with the state of each
  position,     \* the items that the source has yielded
  iterating,    \* a consumer is in its `async for'
  iterations,   \* how many there were
  output        \* the items it received

streamVars == <<operators, position, iterating, iterations, output>>

Gone == [of |-> <<>>, maps |-> 0, groups |-> 0]      \* None in the code
Item(v) == [of |-> <<v>>, maps |-> 0, groups |-> 0]
Mapped(x) == [x EXCEPT !.maps = @ + 1]
Passes(x) == Head(x.of) \in Kept
Group(xs) == [of |-> FlattenSeq([i \in DOMAIN xs |-> xs[i].of]),
              maps |-> xs[1].maps, groups |-> xs[1].groups + 1]

New(o) == [kind |-> o.kind, size |-> o.size, step |-> o.step,
           remaining |-> o.size, held |-> <<>>, count |-> 0]

-----------------------------------------------------------------------------
(* The operators: process() of each, as its next state and its result *)

Result(o, x) == [operator |-> o, item |-> x]

TakeProcess(o, x) ==
  IF o.remaining > 0 THEN Result([o EXCEPT !.remaining = @ - 1], x) ELSE Result(o, Gone)
SkipProcess(o, x) ==
  IF o.remaining > 0 THEN Result([o EXCEPT !.remaining = @ - 1], Gone) ELSE Result(o, x)
DistinctProcess(o, x) ==
  IF x \in Range(o.held) THEN Result(o, Gone)
  ELSE Result([o EXCEPT !.held = Append(@, x)], x)
BatchProcess(o, x) ==
  LET batch == Append(o.held, x)
  IN IF Len(batch) >= o.size THEN Result([o EXCEPT !.held = <<>>], Group(batch))
     ELSE Result([o EXCEPT !.held = batch], Gone)
WindowProcess(o, x) ==
  LET all == Append(o.held, x)
      window == IF Len(all) > o.size THEN Tail(all) ELSE all
      next == [o EXCEPT !.held = window, !.count = @ + 1]
  IN IF Len(window) = o.size /\ (next.count - o.size) % o.step = 0
     THEN Result(next, Group(window)) ELSE Result(next, Gone)

ProcessItem(o, x) ==
  CASE o.kind = "map" -> Result(o, Mapped(x))
    [] o.kind = "filter" -> Result(o, IF Passes(x) THEN x ELSE Gone)
    [] o.kind = "take" -> TakeProcess(o, x)
    [] o.kind = "skip" -> SkipProcess(o, x)
    [] o.kind = "distinct" -> DistinctProcess(o, x)
    [] o.kind = "batch" -> BatchProcess(o, x)
    [] o.kind = "window" -> WindowProcess(o, x)

\* setup() resets the operators that hold items; what take() and skip() have left
\* stays.  cleanup() of a batch returns its rest, which nobody takes.
SetUpOperator(o) ==
  IF o.kind \in {"batch", "window", "distinct"} THEN [o EXCEPT !.held = <<>>, !.count = 0] ELSE o
CleanUpOperator(o) == IF o.kind = "distinct" THEN [o EXCEPT !.held = <<>>] ELSE o

-----------------------------------------------------------------------------
(* The streams *)

\* A list cannot be looked up in a set: no distinct() after batch() or window().
AddOperator(o) ==
  /\ iterations = 0 /\ Len(operators) < MaxOperators
  /\ o.kind = "distinct" => \A i \in DOMAIN operators : operators[i].kind \notin {"batch", "window"}
  /\ operators' = Append(operators, New(o))
  /\ UNCHANGED <<position, iterating, iterations, output>>

\* The operators an item passes: the first stream applies the first, the stream
\* made from it the first and the second, and so on.
Path ==
  FlattenSeq([stream \in DOMAIN operators |-> [i \in 1..stream |-> i]])

\* process_item() of every stream on the way, until an operator returns None.
Passed(x) ==
  FoldLeft(LAMBDA acc, i :
             IF acc.item = Gone THEN acc
             ELSE LET r == ProcessItem(acc.operators[i], acc.item)
                  IN [operators |-> [acc.operators EXCEPT ![i] = r.operator], item |-> r.item],
           [operators |-> operators, item |-> x], Path)

\* A consumer begins: every stream sets its operators up before it asks its source.
Iterate ==
  /\ ~iterating /\ iterations < MaxIterations
  /\ iterating' = TRUE /\ iterations' = iterations + 1 /\ output' = <<>>
  /\ operators' = [i \in DOMAIN operators |-> SetUpOperator(operators[i])]
  /\ UNCHANGED position

Pull ==
  /\ iterating /\ position < Len(Source)
  /\ position' = position + 1
  /\ LET passed == Passed(Item(Source[position + 1])) IN
       /\ operators' = passed.operators
       /\ output' = IF passed.item = Gone THEN output ELSE Append(output, passed.item)
  /\ UNCHANGED <<iterating, iterations>>

\* The source ends; or the consumer leaves with an item, as first() does, and the
\* source keeps its place.
Leave ==
  /\ iterating
  /\ position = Len(Source) \/ output # <<>>
  /\ iterating' = FALSE
  /\ operators' = [i \in DOMAIN operators |-> CleanUpOperator(operators[i])]
  /\ UNCHANGED <<position, iterations, output>>

StreamInit ==
  /\ operators = <<>> /\ position = 0 /\ iterating = FALSE /\ iterations = 0 /\ output = <<>>

StreamNext == (\E o \in Operators : AddOperator(o)) \/ Iterate \/ Pull \/ Leave

StreamSpec == StreamInit /\ [][StreamNext]_streamVars

-----------------------------------------------------------------------------
\* What an operator makes of the items xs, as the method that adds it describes it.
Meaning(o, xs) ==
  CASE o.kind = "map" -> [i \in DOMAIN xs |-> Mapped(xs[i])]
    [] o.kind = "filter" -> SelectSeq(xs, Passes)
    [] o.kind = "take" -> SubSeq(xs, 1, IF o.size < Len(xs) THEN o.size ELSE Len(xs))
    [] o.kind = "skip" -> SubSeq(xs, o.size + 1, Len(xs))
    [] o.kind = "distinct" -> FoldLeft(LAMBDA acc, x : IF x \in Range(acc) THEN acc
                                                       ELSE Append(acc, x), <<>>, xs)
    [] o.kind = "batch" -> [i \in 1..Len(xs) \div o.size |->
                              Group(SubSeq(xs, (i - 1) * o.size + 1, i * o.size))]
    [] o.kind = "window" ->
         [i \in 1..(IF Len(xs) < o.size THEN 0 ELSE (Len(xs) - o.size) \div o.step + 1) |->
            Group(SubSeq(xs, (i - 1) * o.step + 1, (i - 1) * o.step + o.size))]

Described ==
  FoldLeft(LAMBDA xs, o : Meaning(o, xs),
           [i \in DOMAIN Source |-> Item(Source[i])], operators)

\* The first consumer that reaches the end of the source has received what the
\* operators, each applied once in the order in which they were added, make of it.
\* The code keeps this only for streams with one operator.
AppliedOnce ==
  (iterations = 1 /\ position = Len(Source)) => output = Described
=============================================================================
