----------------------------- MODULE TaskOwners -----------------------------
(***************************************************************************)
(* Three objects that keep a set of tasks and cancel them: TaskExecutor of *)
(* mtaio.core.executor with create_task() and cancel_all(), TimeoutManager *)
(* and TimeoutGroup of mtaio.resources.timeout with the monitor that       *)
(* cancels the tasks that run too long.                                    *)
(*                                                                         *)
(* When a task ends, its done callback and the run() that awaits it forget *)
(* it before anything resumes that waits for several tasks: ending and     *)
(* being forgotten are one step.                                           *)
(***************************************************************************)
EXTENDS Integers, FiniteSets

CONSTANTS PoolTasks,
          MaxRuntime      \* the timeout of a task that has one, in ticks

ASSUME OwnerAssumption == MaxRuntime \in Nat /\ IsFiniteSet(PoolTasks)

VARIABLES owner,      \* the class
          task,       \* the state of each task
          tracked,    \* _active_tasks, _tasks
          timed,      \* the tasks in _timeouts, or those of a TimeoutGroup
          runtime,    \* now - start time of each task
          monitor,    \* the task of cancel_on_timeout() runs
          groupClosed,   \* TimeoutGroup._closed
          closing,    \* where cancel_all() or __aexit__ is
          awaited,    \* the tasks its gather() waits for
          asked,      \* history: the tasks it found, in all its calls
          late        \* history: tasks created while it waited

ownerVars == <<owner, task, tracked, timed, runtime, monitor, groupClosed, closing,
               awaited, asked, late>>

Active == {t \in PoolTasks : task[t] \in {"running", "cancelled"}}
Overdue == {t \in tracked \cap timed : runtime[t] > MaxRuntime}

\* task.cancel() for each of S; it is too late for one that has ended.
CancelEach(S) ==
  task' = [t \in PoolTasks |-> IF t \in S /\ task[t] = "running" THEN "cancelled" ELSE task[t]]

OwnerInit ==
  /\ owner \in {"executor", "manager", "group"}
  /\ task = [t \in PoolTasks |-> "new"] /\ tracked = {} /\ timed = {}
  /\ runtime = [t \in PoolTasks |-> 0]
  /\ monitor = (owner # "executor") /\ groupClosed = FALSE
  /\ closing = "no" /\ awaited = {} /\ asked = {} /\ late = {}

-----------------------------------------------------------------------------
\* create_task() and run(); a group keeps only the tasks that have a timeout.
CreateTask(t, hasTimeout) ==
  /\ task[t] = "new" /\ ~groupClosed
  /\ hasTimeout => owner # "executor"
  /\ task' = [task EXCEPT ![t] = "running"]
  /\ tracked' = IF owner = "group" /\ ~hasTimeout THEN tracked ELSE tracked \cup {t}
  /\ timed' = IF hasTimeout THEN timed \cup {t} ELSE timed
  /\ late' = IF closing # "no" THEN late \cup {t} ELSE late
  /\ UNCHANGED <<owner, runtime, monitor, groupClosed, closing, awaited, asked>>

\* A task returns, raises, or ends cancelled.  A group keeps it.
TaskEnds(t) ==
  /\ t \in Active
  /\ task' = [task EXCEPT ![t] = "ended"]
  /\ IF owner = "group" THEN UNCHANGED <<tracked, timed>>
                        ELSE tracked' = tracked \ {t} /\ timed' = timed \ {t}
  /\ UNCHANGED <<owner, runtime, monitor, groupClosed, closing, awaited, asked, late>>

\* A task catches CancelledError and goes on.
TaskPersists(t) ==
  /\ task[t] = "cancelled"
  /\ task' = [task EXCEPT ![t] = "running"]
  /\ UNCHANGED <<owner, tracked, timed, runtime, monitor, groupClosed, closing, awaited,
                 asked, late>>

\* A round of cancel_on_timeout(): what it cancels it forgets.  The monitor of a
\* group ends when it finds the group closed.
MonitorRound ==
  /\ monitor
  /\ IF groupClosed
     THEN monitor' = FALSE /\ UNCHANGED <<task, tracked, timed>>
     ELSE /\ CancelEach(Overdue)
          /\ tracked' = tracked \ Overdue /\ timed' = timed \ Overdue
          /\ UNCHANGED monitor
  /\ UNCHANGED <<owner, runtime, groupClosed, closing, awaited, asked, late>>

\* TimeoutGroup.gather() returns, or raises what the first task raised: the
\* group is closed, and its monitor ends although other tasks may still run.
GroupGathered ==
  /\ owner = "group" /\ ~groupClosed
  /\ tracked # {} /\ \E t \in tracked : task[t] = "ended"
  /\ groupClosed' = TRUE
  /\ UNCHANGED <<owner, task, tracked, timed, runtime, monitor, closing, awaited, asked, late>>

\* TimeoutGroup.__aexit__ and TimeoutManager.__aexit__ begin by cancelling the
\* monitor; the manager goes on when it has ended, the group leaves its tasks.
GroupExit ==
  /\ owner = "group" /\ (monitor \/ ~groupClosed)
  /\ groupClosed' = TRUE /\ monitor' = FALSE
  /\ UNCHANGED <<owner, task, tracked, timed, runtime, closing, awaited, asked, late>>

ManagerExit ==
  /\ owner = "manager" /\ monitor
  /\ monitor' = FALSE
  /\ UNCHANGED <<owner, task, tracked, timed, runtime, groupClosed, closing, awaited, asked, late>>

\* Mutant of CancelTracked: the tasks are forgotten before they are awaited.
CancelTrackedClears ==
  /\ closing = "no" /\ owner # "group" /\ ~monitor /\ tracked # {}
  /\ CancelEach(tracked)
  /\ asked' = asked \cup tracked
  /\ tracked' = {} /\ awaited' = {}
  /\ closing' = "waiting"
  /\ UNCHANGED <<owner, timed, runtime, monitor, groupClosed, late>>

\* cancel_all(), and the rest of the manager's __aexit__: cancel what is tracked
\* and gather it.
CancelTracked ==
  /\ closing = "no" /\ owner # "group" /\ ~monitor /\ tracked # {}
  /\ CancelEach(tracked)
  /\ asked' = asked \cup tracked
  /\ awaited' = tracked
  /\ closing' = "waiting"
  /\ UNCHANGED <<owner, tracked, timed, runtime, monitor, groupClosed, late>>

\* The gather() is over; cancel_all() clears the set, __aexit__ does not.
AllEnded ==
  /\ closing = "waiting" /\ awaited \cap Active = {}
  /\ closing' = "no" /\ awaited' = {}
  /\ tracked' = IF owner = "executor" THEN {} ELSE tracked
  /\ UNCHANGED <<owner, task, timed, runtime, monitor, groupClosed, asked, late>>

OwnerTick ==
  /\ \E t \in Active : runtime[t] <= MaxRuntime
  /\ runtime' = [t \in PoolTasks |-> IF t \in Active /\ runtime[t] <= MaxRuntime
                                     THEN runtime[t] + 1 ELSE runtime[t]]
  /\ UNCHANGED <<owner, task, tracked, timed, monitor, groupClosed, closing, awaited, asked, late>>

OwnerNext ==
  \/ \E t \in PoolTasks : \/ \E b \in BOOLEAN : CreateTask(t, b)
                          \/ TaskEnds(t) \/ TaskPersists(t)
  \/ MonitorRound \/ GroupGathered \/ GroupExit \/ ManagerExit
  \/ CancelTracked \/ AllEnded \/ OwnerTick

OwnerSpec == OwnerInit /\ [][OwnerNext]_ownerVars

-----------------------------------------------------------------------------
OwnerTypeOK ==
  /\ owner \in {"executor", "manager", "group"}
  /\ task \in [PoolTasks -> {"new", "running", "cancelled", "ended"}]
  /\ tracked \subseteq PoolTasks /\ timed \subseteq PoolTasks
  /\ runtime \in [PoolTasks -> 0..MaxRuntime + 1]
  /\ monitor \in BOOLEAN /\ groupClosed \in BOOLEAN /\ closing \in {"no", "waiting"}
  /\ awaited \subseteq PoolTasks /\ asked \subseteq PoolTasks /\ late \subseteq PoolTasks

\* When cancel_all() or a manager's __aexit__ returns, every task it found has
\* ended, also one that went on for a while after being cancelled; and no task
\* runs that its owner has lost sight of, but for those created while
\* cancel_all() waited, which it forgets uncancelled, those a monitor has
\* cancelled, and those of a group that have no timeout.
OwnedTasksEnd ==
  /\ closing = "no" => asked \cap Active = {}
  /\ \A t \in PoolTasks :
       task[t] = "running" /\ t \notin tracked =>
         \/ owner = "executor" /\ t \in late
         \/ owner # "executor" /\ runtime[t] > MaxRuntime
         \/ owner = "group" /\ t \notin timed
=============================================================================
