--------------------------- MODULE TimeoutContexts --------------------------
(***************************************************************************)
(* mtaio.resources.timeout.TimeoutContext: the nested contexts of one      *)
(* task, their timers, and the handler tasks that the timers create.       *)
(* Entering and leaving a block does not suspend, so an exception unwinds  *)
(* from one block to the next with nothing in between: while `raising' is  *)
(* not None only Exit, Catch and EndTask are possible.                     *)
(*                                                                         *)
(* The 0.1 % by which _calculate_deadline() moves a deadline forward is    *)
(* left out.                                                               *)
(***************************************************************************)
EXTENDS Integers, Sequences, FiniteSets, SequencesExt

CONSTANTS Timeouts,       \* values of timeout
          None,
          MaxBlocks,      \* bound: blocks entered
          MaxClock        \* bound: ticks of the clock

ASSUME TimeoutAssumption ==
  /\ Timeouts \subseteq Nat /\ MaxBlocks \in Nat /\ MaxClock \in Nat
  /\ None \notin Nat

VARIABLES clock,         \* time.monotonic()
          blocks,        \* the contexts entered and not left, innermost last
          entered,       \* contexts entered so far
          inherits,      \* the contexts with propagate=True
          deadline,      \* _deadline
          parentDeadline,
          taskDeadline,  \* the attribute _timeout_deadline of the task
          armed,         \* contexts whose timer is scheduled
          handler,       \* the task running _handle_timeout of each context
          timedOut,      \* contexts with _timed_out set
          cancelling,    \* the task has been cancelled and has not run since
          raising,       \* the exception that leaves the blocks
          ended,         \* the task has ended
          caught         \* history: contexts in which the error of an inner one was
                         \* caught when they had timed out as well

timeoutVars == <<clock, blocks, entered, inherits, deadline, parentDeadline,
                 taskDeadline, armed, handler, timedOut, cancelling, raising,
                 ended, caught>>

Contexts == 1..MaxBlocks
Entered == Range(blocks)
Inner == Last(blocks)
TaskRuns == ~ended /\ ~cancelling /\ raising = None

TimeoutInit ==
  /\ clock = 0 /\ blocks = <<>> /\ entered = 0 /\ inherits = {}
  /\ deadline = [c \in Contexts |-> None] /\ parentDeadline = [c \in Contexts |-> None]
  /\ taskDeadline = None /\ armed = {} /\ handler = [c \in Contexts |-> "none"]
  /\ timedOut = {} /\ cancelling = FALSE /\ raising = None
  /\ ended = FALSE /\ caught = {}

-----------------------------------------------------------------------------
\* _calculate_deadline()
Deadline(timeout, propagate) ==
  LET own == clock + timeout IN
    IF propagate /\ taskDeadline # None /\ taskDeadline < own THEN taskDeadline ELSE own

\* __aenter__
EnterBlock(timeout, propagate) ==
  /\ TaskRuns /\ entered < MaxBlocks
  /\ LET c == entered + 1 IN
       /\ entered' = c
       /\ blocks' = Append(blocks, c)
       /\ inherits' = IF propagate THEN inherits \cup {c} ELSE inherits
       /\ parentDeadline' = [parentDeadline EXCEPT ![c] = taskDeadline]
       /\ deadline' = [deadline EXCEPT ![c] = Deadline(timeout, propagate)]
       /\ taskDeadline' = Deadline(timeout, propagate)
       /\ armed' = armed \cup {c}
  /\ UNCHANGED <<clock, handler, timedOut, cancelling, raising, ended, caught>>

\* Mutants of Exit: the deadline of the parent is not restored; the timers of the
\* parents are cancelled as well.
ExitForgets ==
  /\ blocks # <<>> /\ ~ended /\ ~cancelling
  /\ blocks' = Front(blocks)
  /\ armed' = armed \ {Inner}
  /\ taskDeadline' = None
  /\ raising' = IF raising = "cancelled" /\ Inner \in timedOut THEN "timeout" ELSE raising
  /\ UNCHANGED <<clock, entered, inherits, deadline, parentDeadline, handler, timedOut,
                 cancelling, ended, caught>>

ExitDisarms ==
  /\ blocks # <<>> /\ ~ended /\ ~cancelling
  /\ blocks' = Front(blocks)
  /\ armed' = {}
  /\ taskDeadline' = parentDeadline[Inner]
  /\ raising' = IF raising = "cancelled" /\ Inner \in timedOut THEN "timeout" ELSE raising
  /\ UNCHANGED <<clock, entered, inherits, deadline, parentDeadline, handler, timedOut,
                 cancelling, ended, caught>>

\* __aexit__, of a block that ends or that `raising' leaves.  It cancels a timer
\* but no handler that the timer has created.
Exit ==
  /\ blocks # <<>> /\ ~ended /\ ~cancelling
  /\ blocks' = Front(blocks)
  /\ armed' = armed \ {Inner}
  /\ taskDeadline' = parentDeadline[Inner]
  /\ raising' = IF raising = "cancelled" /\ Inner \in timedOut THEN "timeout" ELSE raising
  /\ UNCHANGED <<clock, entered, inherits, deadline, parentDeadline, handler, timedOut,
                 cancelling, ended, caught>>

\* The code around a block catches its error.
Catch ==
  /\ raising = "timeout" /\ blocks # <<>>
  /\ raising' = None
  /\ caught' = caught \cup (Entered \cap timedOut)
  /\ UNCHANGED <<clock, blocks, entered, inherits, deadline, parentDeadline, taskDeadline,
                 armed, handler, timedOut, cancelling, ended>>

\* The task returns, or the exception leaves its last block.
EndTask ==
  /\ ~ended /\ ~cancelling /\ blocks = <<>>
  /\ ended' = TRUE /\ raising' = None
  /\ UNCHANGED <<clock, blocks, entered, inherits, deadline, parentDeadline, taskDeadline,
                 armed, handler, timedOut, cancelling, caught>>

\* The timer's callback creates a task for _handle_timeout.
TimerFires(c) ==
  /\ raising = None /\ c \in armed /\ clock >= deadline[c]
  /\ armed' = armed \ {c}
  /\ handler' = [handler EXCEPT ![c] = "created"]
  /\ UNCHANGED <<clock, blocks, entered, inherits, deadline, parentDeadline, taskDeadline,
                 timedOut, cancelling, raising, ended, caught>>

\* _handle_timeout: on_timeout, which may suspend, comes before task.cancel().
\* cancel() has no effect on a task that has ended.
HandleTimeout(c) ==
  /\ raising = None /\ handler[c] \in {"created", "callback"}
  /\ timedOut' = timedOut \cup {c}
  /\ \/ /\ handler[c] = "created"
        /\ handler' = [handler EXCEPT ![c] = "callback"]
        /\ UNCHANGED cancelling
     \/ /\ handler' = [handler EXCEPT ![c] = "done"]
        /\ cancelling' = ~ended
  /\ UNCHANGED <<clock, blocks, entered, inherits, deadline, parentDeadline, taskDeadline,
                 armed, raising, ended, caught>>

\* Somebody else cancels the task.
CancelTask ==
  /\ raising = None /\ ~ended /\ ~cancelling
  /\ cancelling' = TRUE
  /\ UNCHANGED <<clock, blocks, entered, inherits, deadline, parentDeadline, taskDeadline,
                 armed, handler, timedOut, raising, ended, caught>>

\* The cancelled task runs: CancelledError is raised where it was suspended.
Deliver ==
  /\ cancelling
  /\ cancelling' = FALSE /\ raising' = "cancelled"
  /\ UNCHANGED <<clock, blocks, entered, inherits, deadline, parentDeadline, taskDeadline,
                 armed, handler, timedOut, ended, caught>>

ClockTick ==
  /\ raising = None /\ clock < MaxClock
  /\ clock' = clock + 1
  /\ UNCHANGED <<blocks, entered, inherits, deadline, parentDeadline, taskDeadline, armed,
                 handler, timedOut, cancelling, raising, ended, caught>>

TimeoutNext ==
  \/ \E d \in Timeouts, p \in BOOLEAN : EnterBlock(d, p)
  \/ Exit \/ Catch \/ EndTask \/ CancelTask \/ Deliver \/ ClockTick
  \/ \E c \in Contexts : TimerFires(c) \/ HandleTimeout(c)

\* The event loop runs the timers that are due and the tasks that are ready, and
\* on_timeout returns.
TimeoutFairness ==
  /\ WF_timeoutVars(Deliver)
  /\ WF_timeoutVars(raising # None /\ Exit)
  /\ \A c \in Contexts : WF_timeoutVars(TimerFires(c)) /\ WF_timeoutVars(HandleTimeout(c))

TimeoutSpec == TimeoutInit /\ [][TimeoutNext]_timeoutVars
FairTimeoutSpec == TimeoutSpec /\ TimeoutFairness

-----------------------------------------------------------------------------
TimeoutTypeOK ==
  /\ clock \in 0..MaxClock /\ entered \in 0..MaxBlocks
  /\ blocks \in Seq(Contexts) /\ inherits \subseteq Contexts
  /\ deadline \in [Contexts -> Nat \cup {None}]
  /\ parentDeadline \in [Contexts -> Nat \cup {None}]
  /\ taskDeadline \in Nat \cup {None}
  /\ armed \subseteq Contexts /\ timedOut \subseteq Contexts
  /\ handler \in [Contexts -> {"none", "created", "callback", "done"}]
  /\ cancelling \in BOOLEAN /\ ended \in BOOLEAN /\ caught \subseteq Contexts
  /\ raising \in {None, "cancelled", "timeout"}

\* Whatever blocks were left, by their end, by a timeout or by cancellation, the
\* deadline of the task is that of its innermost block; a block that inherits
\* ends no later than the one around it; and only entered blocks have a timer.
DeadlinesNest ==
  /\ taskDeadline = IF blocks = <<>> THEN None ELSE deadline[Inner]
  /\ \A i \in 2..Len(blocks) :
       blocks[i] \in inherits => deadline[blocks[i]] <= deadline[blocks[i - 1]]
  /\ armed \subseteq Entered

\* A block does not outlast its deadline, unless it timed out together with a
\* block in it whose error was caught: their two calls of cancel() raise one
\* CancelledError, and the inner block turns that into its own error.
OverdueBlocksEnd ==
  \A c \in Contexts :
    (c \in Entered /\ clock >= deadline[c]) ~> c \notin Entered \ caught
=============================================================================
