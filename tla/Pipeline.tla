------------------------------ MODULE Pipeline ------------------------------
(***************************************************************************)
(* Pipeline and its stages, of mtaio/data/pipeline.py.  An owner enters    *)
(* and leaves the `async with' block; tasks call process(), each on an     *)
(* item of its own.  The functions of the stages take time and may fail or *)
(* be cancelled.  What a stage returns is handed to the next one, also the *)
(* None that stands for a filtered item or an incomplete batch.            *)
(***************************************************************************)
EXTENDS Naturals, Sequences, SequencesExt, FiniteSets

CONSTANTS
  Callers,          \* tasks that call process()
  Kinds,            \* the kind of each stage: "map", "filter" or "batch"
  StageBatch,       \* BatchStage.batch_size
  Nil,              \* Python's None
  MaxItems, MaxStageFailures      \* bounds

\* A pipeline without stages has nothing to keep.
ASSUME PipelineAssumption ==
  Kinds \in Seq({"map", "filter", "batch"}) /\ Kinds # <<>> /\ MaxItems \in Nat

Stages == DOMAIN Kinds
LastStage == Len(Kinds)

VARIABLES
  running,     \* _running
  owner,       \* what the owner of the block is at: phase, stage and batch
  stage,       \* per stage: new, ready or clean
  job,         \* the call of each task: its value, stage and batch
  batch,       \* BatchStage._batch
  arrived,     \* what each stage was given, in order
  batched,     \* what it passed to calls of process_batch() that returned
  overlap,     \* the stages used while in process_batch() or after cleanup()
  begun, stageFailures     \* counters of the bounds

pipeVars == <<running, owner, stage, job, batch, arrived, batched, overlap, begun,
             stageFailures>>

Out == [phase |-> "out", at |-> 0, batch |-> <<>>]
InBatch(s) ==
  \/ \E t \in Callers : job[t] # Nil /\ job[t].at = s /\ job[t].batch # <<>>
  \/ owner.phase = "cleanup" /\ owner.at = s /\ owner.batch # <<>>

\* process_batch(b) of the stage s has returned.
BatchDone(s, b) ==
  /\ batch' = [batch EXCEPT ![s] = <<>>]
  /\ batched' = [batched EXCEPT ![s] = @ \o b]

\* Clearing the batch on the way into process_batch() would lose it to a failure.
KeptOrCleared(s, b) == [batch EXCEPT ![s] = IF Len(b) >= StageBatch THEN <<>> ELSE b]
Kept(s, b) == [batch EXCEPT ![s] = b]

-----------------------------------------------------------------------------
(* The block: __aenter__() and __aexit__() *)

Enter ==
  /\ owner = Out
  /\ owner' = [Out EXCEPT !.phase = "setup", !.at = 1]
  /\ UNCHANGED <<running, stage, job, batch, arrived, batched, overlap, begun, stageFailures>>

SetUp ==
  /\ owner.phase = "setup"
  /\ stage' = [stage EXCEPT ![owner.at] = "ready"]
  /\ IF owner.at < LastStage THEN owner' = [owner EXCEPT !.at = @ + 1] /\ UNCHANGED running
     ELSE owner' = [Out EXCEPT !.phase = "inside"] /\ running' = TRUE
  /\ UNCHANGED <<job, batch, arrived, batched, overlap, begun, stageFailures>>

Exit ==
  /\ owner.phase = "inside"
  /\ running' = FALSE
  /\ owner' = [Out EXCEPT !.phase = "cleanup", !.at = LastStage]
  /\ UNCHANGED <<stage, job, batch, arrived, batched, overlap, begun, stageFailures>>

\* cleanup() of the stage at hand, the last one first; a batch stage that still
\* has items passes them to process_batch().
CleanUp ==
  /\ owner.phase = "cleanup"
  /\ LET s == owner.at
         next == IF s = 1 THEN Out ELSE [owner EXCEPT !.at = s - 1, !.batch = <<>>]
     IN IF Kinds[s] = "batch" /\ owner.batch = <<>> /\ batch[s] # <<>>
        THEN /\ owner' = [owner EXCEPT !.batch = batch[s]]
             /\ overlap' = IF InBatch(s) THEN overlap \cup {s} ELSE overlap
             /\ UNCHANGED <<stage, batch, batched>>
        ELSE /\ owner' = next
             /\ stage' = [stage EXCEPT ![s] = "clean"]
             /\ UNCHANGED overlap
             /\ IF owner.batch = <<>> THEN UNCHANGED <<batch, batched>>
                ELSE BatchDone(s, owner.batch)
  /\ UNCHANGED <<running, job, arrived, begun, stageFailures>>

\* A setup() or cleanup() raises: those that would follow are left out.
BlockFails ==
  /\ owner.phase \in {"setup", "cleanup"} /\ stageFailures < MaxStageFailures
  /\ stageFailures' = stageFailures + 1
  /\ owner' = Out
  /\ UNCHANGED <<running, stage, job, batch, arrived, batched, overlap, begun>>

-----------------------------------------------------------------------------
(* process() *)

Process(t) ==
  /\ running /\ job[t] = Nil /\ begun < MaxItems
  /\ begun' = begun + 1
  /\ job' = [job EXCEPT ![t] = [value |-> begun + 1, at |-> 1, batch |-> <<>>]]
  /\ UNCHANGED <<running, owner, stage, batch, arrived, batched, overlap, stageFailures>>

\* The stage's result goes on to the next stage, or process() returns.
PassOn(t, value) ==
  job' = [job EXCEPT ![t] = IF @.at = LastStage THEN Nil
                            ELSE [value |-> value, at |-> @.at + 1, batch |-> <<>>]]

\* A map or a filter has dealt with the value.
StageReturns(t) ==
  /\ job[t] # Nil /\ Kinds[job[t].at] # "batch"
  /\ \/ PassOn(t, job[t].value)
     \/ Kinds[job[t].at] = "filter" /\ PassOn(t, Nil)
  /\ UNCHANGED <<running, owner, stage, batch, arrived, batched, overlap, begun, stageFailures>>

\* BatchStage.process() up to its await: a complete batch is processed, and stays
\* in the stage until that returns.
AddToBatch(t) ==
  /\ job[t] # Nil /\ Kinds[job[t].at] = "batch" /\ job[t].batch = <<>>
  /\ LET s == job[t].at
         b == Append(batch[s], job[t].value)
     IN /\ arrived' = [arrived EXCEPT ![s] = Append(@, job[t].value)]
        /\ overlap' = IF InBatch(s) \/ stage[s] = "clean" THEN overlap \cup {s} ELSE overlap
        /\ batch' = Kept(s, b)
        /\ IF Len(b) >= StageBatch THEN job' = [job EXCEPT ![t].batch = b] ELSE PassOn(t, Nil)
  /\ UNCHANGED <<running, owner, stage, batched, begun, stageFailures>>

BatchReturns(t) ==
  /\ job[t] # Nil /\ job[t].batch # <<>>
  /\ BatchDone(job[t].at, job[t].batch)
  /\ PassOn(t, job[t].value)
  /\ UNCHANGED <<running, owner, stage, arrived, overlap, begun, stageFailures>>

\* A stage raises or the task is cancelled in it; process() ends.
StageFails(t) ==
  /\ job[t] # Nil /\ stageFailures < MaxStageFailures
  /\ stageFailures' = stageFailures + 1
  /\ job' = [job EXCEPT ![t] = Nil]
  /\ UNCHANGED <<running, owner, stage, batch, arrived, batched, overlap, begun>>

-----------------------------------------------------------------------------
PipeInit ==
  /\ running = FALSE /\ owner = Out /\ begun = 0 /\ stageFailures = 0 /\ overlap = {}
  /\ stage = [s \in Stages |-> "new"] /\ job = [t \in Callers |-> Nil]
  /\ batch = [s \in Stages |-> <<>>] /\ arrived = [s \in Stages |-> <<>>]
  /\ batched = [s \in Stages |-> <<>>]

PipeNext ==
  \/ Enter \/ SetUp \/ Exit \/ CleanUp \/ BlockFails
  \/ \E t \in Callers : \/ Process(t) \/ StageReturns(t) \/ AddToBatch(t)
                        \/ BatchReturns(t) \/ StageFails(t)

PipeSpec == PipeInit /\ [][PipeNext]_pipeVars
-----------------------------------------------------------------------------
PipeTypeOK ==
  /\ running <=> owner.phase = "inside"
  /\ owner.phase \in {"out", "setup", "inside", "cleanup"} /\ owner.at \in 0..LastStage
  /\ \A s \in Stages : stage[s] \in {"new", "ready", "clean"}
  /\ running => \A s \in Stages : stage[s] = "ready"
  /\ \A t \in Callers : job[t] # Nil => job[t].at \in Stages

\* A batch stage that is used by one call at a time passes every item it was given to
\* exactly one successful process_batch() call or still holds it, in order, although
\* calls fail and are repeated with the next item; and once it was cleaned up it
\* holds none.
BatchedOnce ==
  \A s \in Stages \ overlap :
    /\ arrived[s] = batched[s] \o batch[s]
    /\ stage[s] = "clean" => batch[s] = <<>>
=============================================================================
