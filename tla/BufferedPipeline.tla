-------------------------- MODULE BufferedPipeline --------------------------
(***************************************************************************)
(* BufferedPipeline.stream() of mtaio/data/pipeline.py, one call: it       *)
(* starts a task per stage, feeds every item into the first queue, and     *)
(* only then reads results.  The queue it reads is _queues[-1], which is   *)
(* the one the last stage reads too; what the last stage puts out goes to  *)
(* a queue of its own that nobody reads.                                   *)
(***************************************************************************)
EXTENDS Integers, Sequences, FiniteSets, SequencesExt

CONSTANTS NumStages,       \* stages of the pipeline
          BufferSize,      \* buffer_size
          EndMark,         \* None, the end of the stream
          Failure,         \* a StageError
          MaxFed, MaxStageErrors      \* bounds

ASSUME BufferAssumption ==
  /\ NumStages \in Nat \ {0} /\ BufferSize \in Nat \ {0} /\ MaxFed \in Nat
  /\ {EndMark, Failure} \cap 1..MaxFed = {} /\ EndMark # Failure

Workers == 1..NumStages
FedItems == 1..MaxFed

VARIABLES line,       \* line[i] is read by stage i; the last one is read by nobody
          hand,       \* what a stage is processing, EndMark if nothing
          stageEnd,   \* how the task of a stage ended
          phase,      \* where stream() is
          fed,        \* how many items it was given
          yielded,    \* history: what it has yielded
          results,    \* history: what the last stage has put out
          absorbed,   \* history: the items that a stage filtered or failed on
          stageErrors

bufferVars == <<line, hand, stageEnd, phase, fed, yielded, results, absorbed, stageErrors>>

BufferInit ==
  /\ line = [i \in 1..NumStages + 1 |-> <<>>]
  /\ hand = [i \in Workers |-> EndMark] /\ stageEnd = [i \in Workers |-> "no"]
  /\ phase = "feeding" /\ fed = 0 /\ yielded = <<>> /\ results = <<>>
  /\ absorbed = {} /\ stageErrors = 0

Full(i) == i <= NumStages /\ Len(line[i]) >= BufferSize
PutInto(lines, i, x) == [lines EXCEPT ![i] = Append(@, x)]
TakeFrom(i) == [line EXCEPT ![i] = Tail(@)]

-----------------------------------------------------------------------------
\* _process_stage(): a stage takes an item when there is room for its result.
\* Nobody else fills that room.
StageTakes(i) ==
  /\ stageEnd[i] = "no" /\ hand[i] = EndMark
  /\ ~Full(i + 1) /\ line[i] # <<>>
  /\ IF Head(line[i]) = EndMark
     THEN /\ stageEnd' = [stageEnd EXCEPT ![i] = "marked"]
          /\ line' = PutInto(TakeFrom(i), i + 1, EndMark) /\ UNCHANGED hand
     ELSE /\ hand' = [hand EXCEPT ![i] = Head(line[i])]
          /\ line' = TakeFrom(i) /\ UNCHANGED stageEnd
  /\ UNCHANGED <<phase, fed, yielded, results, absorbed, stageErrors>>

Finished(i, passes) ==
  /\ hand[i] # EndMark
  /\ hand' = [hand EXCEPT ![i] = EndMark]
  /\ absorbed' = IF passes THEN absorbed ELSE absorbed \cup ({hand[i]} \cap FedItems)
  /\ UNCHANGED <<phase, fed, yielded>>

\* A result of None goes nowhere.
StagePuts(i, passes) ==
  /\ Finished(i, passes)
  /\ line' = IF passes THEN PutInto(line, i + 1, hand[i]) ELSE line
  /\ results' = IF passes /\ i = NumStages /\ hand[i] \in FedItems
                THEN Append(results, hand[i]) ELSE results
  /\ UNCHANGED <<stageEnd, stageErrors>>

\* The stage raises: the error is put out as if it were an item, and the task ends.
StageRaises(i) ==
  /\ stageErrors < MaxStageErrors
  /\ Finished(i, FALSE)
  /\ line' = PutInto(line, i + 1, Failure)
  /\ stageEnd' = [stageEnd EXCEPT ![i] = "raised"]
  /\ stageErrors' = stageErrors + 1
  /\ UNCHANGED results

-----------------------------------------------------------------------------
\* stream() feeds the items and the end marker; each put() waits for room.
Feed ==
  /\ phase = "feeding" /\ fed < MaxFed /\ ~Full(1)
  /\ fed' = fed + 1
  /\ line' = PutInto(line, 1, fed + 1)
  /\ UNCHANGED <<hand, stageEnd, phase, yielded, results, absorbed, stageErrors>>

\* The marker is also put when the items raise an exception, which ends stream().
Mark(sourceRaises) ==
  /\ phase = "feeding" /\ ~Full(1)
  /\ line' = PutInto(line, 1, EndMark)
  /\ phase' = IF sourceRaises THEN "left" ELSE "reading"
  /\ UNCHANGED <<hand, stageEnd, fed, yielded, results, absorbed, stageErrors>>

ReadResult ==
  /\ phase = "reading" /\ line[NumStages] # <<>>
  /\ line' = TakeFrom(NumStages)
  /\ LET result == Head(line[NumStages])
     IN /\ phase' = CASE result = EndMark -> "gathering"
                      [] result = Failure -> "left"
                      [] OTHER -> phase
        /\ yielded' = IF result \in FedItems THEN Append(yielded, result) ELSE yielded
  /\ UNCHANGED <<hand, stageEnd, fed, results, absorbed, stageErrors>>

\* The reader of stream() stops; the tasks of the stages go on.
LeaveStream ==
  /\ phase = "reading"
  /\ phase' = "left"
  /\ UNCHANGED <<line, hand, stageEnd, fed, yielded, results, absorbed, stageErrors>>

StreamEnds ==
  /\ phase = "gathering" /\ \A i \in Workers : stageEnd[i] # "no"
  /\ phase' = "returned"
  /\ UNCHANGED <<line, hand, stageEnd, fed, yielded, results, absorbed, stageErrors>>

BufferNext ==
  \/ \E i \in Workers : StageTakes(i) \/ StageRaises(i) \/ \E b \in BOOLEAN : StagePuts(i, b)
  \/ Feed \/ \E b \in BOOLEAN : Mark(b)
  \/ ReadResult \/ LeaveStream \/ StreamEnds

BufferSpec == BufferInit /\ [][BufferNext]_bufferVars

\* What the event loop does of itself: a task that can go on does, process() comes
\* back, and the reader asks for the next result or closes the stream.
BufferFairness ==
  /\ \A i \in Workers :
       /\ WF_bufferVars(StageTakes(i))
       /\ WF_bufferVars(StageRaises(i) \/ \E b \in BOOLEAN : StagePuts(i, b))
  /\ WF_bufferVars(ReadResult) /\ WF_bufferVars(StreamEnds)

FairBufferSpec == BufferSpec /\ BufferFairness

-----------------------------------------------------------------------------
BufferTypeOK ==
  /\ line \in [1..NumStages + 1 -> Seq(FedItems \cup {EndMark, Failure})]
  /\ hand \in [Workers -> FedItems \cup {EndMark, Failure}]
  /\ stageEnd \in [Workers -> {"no", "marked", "raised"}]
  /\ phase \in {"feeding", "reading", "gathering", "returned", "left"}
  /\ fed \in 0..MaxFed /\ {yielded, results} \subseteq Seq(FedItems)
  /\ absorbed \subseteq FedItems
  /\ \A i \in Workers : Len(line[i]) <= BufferSize

Holds(x) ==
  Cardinality(UNION {{<<i, j>> : j \in {k \in 1..Len(line[i]) : line[i][k] = x}} :
                       i \in DOMAIN line})
  + Cardinality({i \in Workers : hand[i] = x})
  + Cardinality({j \in 1..Len(yielded) : yielded[j] = x})
  + (IF x \in absorbed THEN 1 ELSE 0)

InOrderOf(s) ==
  \A i, j \in 1..Len(s) : i < j /\ {s[i], s[j]} \subseteq FedItems => s[i] < s[j]

\* The queues lose nothing, although the reader and the last stage compete for one of
\* them: every item that was fed is in one place (on its way, yielded, put out by
\* the last stage, or dropped by a stage), and whoever takes items gets them in
\* order.  Whether what was yielded had been processed is StreamDelivers' question.
BufferedOnce ==
  /\ \A x \in 1..fed : Holds(x) = 1
  /\ InOrderOf(yielded) /\ \A i \in DOMAIN line : InOrderOf(line[i])

\* What stream() documents: the loop over it ends, unless it is left or a stage
\* raises, and has then yielded the results, which are what the last stage put out.
StreamDelivers ==
  (phase = "reading") ~> (phase = "left" \/ (phase = "returned" /\ yielded = results))
=============================================================================
