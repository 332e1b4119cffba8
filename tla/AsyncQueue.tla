----------------------------- MODULE AsyncQueue -----------------------------
(***************************************************************************)
(* mtaio.core.primitives.AsyncQueue and its subclasses PriorityQueue and   *)
(* LIFOQueue.  asyncio runs one task at a time, so an action is the code   *)
(* a task runs between two awaits that really suspend it; a parked task    *)
(* stays parked until the future it awaits is resolved or it is cancelled. *)
(*                                                                         *)
(* _getters and _putters hold futures.  A future is named by the task that *)
(* awaits it, and by Done once that task was cancelled: `except Exception` *)
(* does not catch CancelledError, so the dead future stays in its list.    *)
(***************************************************************************)
EXTENDS Integers, Sequences, FiniteSets, SequencesExt

CONSTANTS Producers,   \* the tasks that put
          Consumers,   \* the tasks that get and acknowledge
          Joiners,     \* the tasks that join
          Priorities,  \* ranks of the priorities a PriorityQueue is given
          MaxSizes,    \* values of maxsize a queue is built with
          Done,        \* stands in a list for a future already cancelled
          NoItem,
          MaxPuts,     \* bound: calls of put() in a behaviour
          MaxParked,   \* bound: length of _getters and of _putters
          MaxOwed      \* bound: items received and not yet acknowledged

Tasks == Producers \cup Consumers \cup Joiners

ASSUME QueueAssumption ==
  /\ Priorities \subseteq Nat /\ 0 \in Priorities
  /\ MaxSizes \subseteq Int
  /\ MaxPuts \in Nat /\ MaxParked \in Nat /\ MaxOwed \in Nat
  /\ Done \notin Tasks
  /\ IsFiniteSet(Tasks)
  /\ Producers \cap Consumers = {}

VARIABLES maxsize,     \* _maxsize
          kind,        \* the class of the queue
          queue,       \* _queue, in order of insertion
          getters,     \* _getters
          putters,     \* _putters
          unfinished,  \* _unfinished_tasks
          finished,    \* _finished.is_set()
          count,       \* _count: calls of put() so far
          pc,          \* where each task is suspended
          slot,        \* the item a suspended task holds
          owed,        \* items returned by get() and not yet acknowledged
          taken        \* how often each item was taken out, counted up to 2

queueVars == <<maxsize, kind, queue, getters, putters, unfinished, finished,
          count, pc, slot, owed, taken>>

Kinds == {"fifo", "priority", "lifo"}

\* _PrioritizedItem; in the other classes priority is 0 and count is the
\* history that tells two items apart.
Items == [priority : Priorities, count : 1..MaxPuts]

\* dataclass(order=True): item itself is not compared.
Before(a, b) ==
  \/ a.priority < b.priority
  \/ a.priority = b.priority /\ a.count < b.count

Full(q) == maxsize > 0 /\ Len(q) >= maxsize

\* Mutant of NextIndex: a PriorityQueue that pops its list from the front.
NextIndexUnordered(q) == IF kind = "lifo" THEN Len(q) ELSE 1

\* The index _get() takes: pop(0), heappop or pop().
NextIndex(q) ==
  CASE kind = "fifo" -> 1
    [] kind = "lifo" -> Len(q)
    [] kind = "priority" ->
         CHOOSE i \in 1..Len(q) : \A j \in 1..Len(q) :
            q[i] = q[j] \/ Before(q[i], q[j])

NextItem(q) == q[NextIndex(q)]
Rest(q) == RemoveAt(q, NextIndex(q))

Count(f, item) == [f EXCEPT ![item.count] = IF @ < 2 THEN @ + 1 ELSE 2]

-----------------------------------------------------------------------------
(* The futures lists.  LiveIn(list) are the positions of pending futures.  *)

LiveGetters == {i \in 1..Len(getters) : getters[i] # Done}
LivePutters == {i \in 1..Len(putters) : putters[i].task # Done}

First(S) == CHOOSE i \in S : \A j \in S : i <= j

\* Mutant of After: only one future is popped, although the first may be dead.
AfterOnePop(list, live) == IF list = <<>> THEN <<>> ELSE Tail(list)

\* What popping from the front leaves, up to and including the first live one.
After(list, live) ==
  IF live = {} THEN <<>> ELSE SubSeq(list, First(live) + 1, Len(list))

(***************************************************************************)
(* _wakeup_next_waiter, called when the queue has become q and the caller  *)
(* has made pc, slot and taken into pcs, slots and tk.  It puts the item   *)
(* of the first pending putter, or else takes an item for the first        *)
(* pending getter, and wakes that one task.                                *)
(***************************************************************************)
WakePutter(q, pcs, slots, tk) ==
  /\ ~Full(q) /\ LivePutters # {}
  /\ LET w == putters[First(LivePutters)] IN
       /\ queue' = Append(q, w.item)
       /\ pc' = [pcs EXCEPT ![w.task] = "put_woken"]
       /\ slot' = slots
  /\ taken' = tk
  /\ putters' = After(putters, LivePutters)
  /\ UNCHANGED getters

\* Mutant of WakeGetter: the item handed over stays in the queue.
WakeGetterKeepsItem(q, pcs, slots, tk) ==
  /\ Full(q) \/ LivePutters = {}
  /\ q # <<>> /\ LiveGetters # {}
  /\ LET t == getters[First(LiveGetters)] IN
       /\ pc' = [pcs EXCEPT ![t] = "get_woken"]
       /\ slot' = [slots EXCEPT ![t] = NextItem(q)]
  /\ queue' = q
  /\ taken' = Count(tk, NextItem(q))
  /\ getters' = After(getters, LiveGetters)
  /\ putters' = IF Full(q) THEN putters ELSE <<>>

WakeGetter(q, pcs, slots, tk) ==
  /\ Full(q) \/ LivePutters = {}
  /\ q # <<>> /\ LiveGetters # {}
  /\ LET t == getters[First(LiveGetters)] IN
       /\ queue' = Rest(q)
       /\ pc' = [pcs EXCEPT ![t] = "get_woken"]
       /\ slot' = [slots EXCEPT ![t] = NextItem(q)]
  /\ taken' = Count(tk, NextItem(q))
  /\ getters' = After(getters, LiveGetters)
  /\ putters' = IF Full(q) THEN putters ELSE <<>>

WakeNobody(q, pcs, slots, tk) ==
  /\ Full(q) \/ LivePutters = {}
  /\ q = <<>> \/ LiveGetters = {}
  /\ queue' = q
  /\ pc' = pcs
  /\ slot' = slots
  /\ taken' = tk
  /\ getters' = IF q = <<>> THEN getters ELSE <<>>
  /\ putters' = IF Full(q) THEN putters ELSE <<>>

Wakeup(q, pcs, slots, tk) ==
  \/ WakePutter(q, pcs, slots, tk)
  \/ WakeGetter(q, pcs, slots, tk)
  \/ WakeNobody(q, pcs, slots, tk)

-----------------------------------------------------------------------------
QueueInit ==
  /\ maxsize \in MaxSizes
  /\ kind \in Kinds
  /\ queue = <<>>
  /\ getters = <<>>
  /\ putters = <<>>
  /\ unfinished = 0
  /\ finished = TRUE
  /\ count = 0
  /\ pc = [t \in Tasks |-> "idle"]
  /\ slot = [t \in Tasks |-> NoItem]
  /\ owed = 0
  /\ taken = [n \in 1..MaxPuts |-> 0]

\* Mutant of Insert: _finished is not cleared.
InsertNotCleared(t, item) ==
  /\ unfinished' = unfinished + 1
  /\ finished' = finished
  /\ Wakeup(Append(queue, item), [pc EXCEPT ![t] = "idle"],
            [slot EXCEPT ![t] = NoItem], taken)
  /\ UNCHANGED <<maxsize, kind, owed>>

\* The part of put() after its waiting loop; the caller's loop test is false.
Insert(t, item) ==
  /\ unfinished' = unfinished + 1
  /\ finished' = FALSE
  /\ Wakeup(Append(queue, item), [pc EXCEPT ![t] = "idle"],
            [slot EXCEPT ![t] = NoItem], taken)
  /\ UNCHANGED <<maxsize, kind, owed>>

\* The waiting loop of put(): register a future and suspend.
Park(t, item) ==
  /\ Len(putters) < MaxParked
  /\ putters' = Append(putters, [task |-> t, item |-> item])
  /\ pc' = [pc EXCEPT ![t] = "put_wait"]
  /\ slot' = [slot EXCEPT ![t] = item]
  /\ UNCHANGED <<maxsize, kind, queue, getters, unfinished, finished, owed, taken>>

Put(t) ==
  /\ pc[t] = "idle" /\ count < MaxPuts
  /\ count' = count + 1
  /\ \E p \in IF kind = "priority" THEN Priorities ELSE {0} :
       LET item == [priority |-> p, count |-> count + 1] IN
         \/ ~Full(queue) /\ Insert(t, item)
         \/ Full(queue) /\ Park(t, item)

\* Mutant of PutResume: `if' for `while' around the wait.
PutResumeUntested(t) ==
  /\ pc[t] = "put_woken"
  /\ Insert(t, slot[t])
  /\ UNCHANGED count

\* put() resumed by _wakeup_next_waiter: its loop tests full() again.
PutResume(t) ==
  /\ pc[t] = "put_woken"
  /\ \/ ~Full(queue) /\ Insert(t, slot[t])
     \/ Full(queue) /\ Park(t, slot[t])
  /\ UNCHANGED count

\* Mutant of GetNow: nobody is told of the room.
GetNowSilent(t) ==
  /\ pc[t] = "idle" /\ queue # <<>> /\ owed < MaxOwed
  /\ queue' = Rest(queue)
  /\ taken' = Count(taken, NextItem(queue))
  /\ owed' = owed + 1
  /\ UNCHANGED <<maxsize, kind, getters, putters, unfinished, finished, count, pc, slot>>

GetNow(t) ==
  /\ pc[t] = "idle" /\ queue # <<>> /\ owed < MaxOwed
  /\ Wakeup(Rest(queue), pc, slot, Count(taken, NextItem(queue)))
  /\ owed' = owed + 1
  /\ UNCHANGED <<maxsize, kind, unfinished, finished, count>>

GetWait(t) ==
  /\ pc[t] = "idle" /\ queue = <<>> /\ Len(getters) < MaxParked
  /\ owed < MaxOwed
  /\ getters' = Append(getters, t)
  /\ pc' = [pc EXCEPT ![t] = "get_wait"]
  /\ UNCHANGED <<maxsize, kind, queue, putters, unfinished, finished, count,
                 slot, owed, taken>>

GetResume(t) ==
  /\ pc[t] = "get_woken"
  /\ pc' = [pc EXCEPT ![t] = "idle"]
  /\ slot' = [slot EXCEPT ![t] = NoItem]
  /\ owed' = owed + 1
  /\ UNCHANGED <<maxsize, kind, queue, getters, putters, unfinished, finished,
                 count, taken>>

\* Mutant of TaskDone: no ValueError.
TaskDoneUnchecked ==
  /\ owed > 0
  /\ owed' = owed - 1
  /\ unfinished' = unfinished - 1
  /\ UNCHANGED <<maxsize, kind, queue, getters, putters, finished, count, pc, slot, taken>>

\* A consumer calls task_done() once for each item it received.
TaskDone ==
  /\ owed > 0
  /\ owed' = owed - 1
  /\ \/ /\ unfinished > 0
        /\ unfinished' = unfinished - 1
        /\ finished' = (finished \/ unfinished = 1)
        /\ pc' = [t \in Tasks |->
                    IF pc[t] = "join_wait" /\ unfinished = 1 THEN "idle" ELSE pc[t]]
     \/ /\ unfinished = 0   \* ValueError
        /\ UNCHANGED <<unfinished, finished, pc>>
  /\ UNCHANGED <<maxsize, kind, queue, getters, putters, count, slot, taken>>

Join(t) ==
  /\ pc[t] = "idle" /\ unfinished > 0
  /\ pc' = [pc EXCEPT ![t] = IF finished THEN "idle" ELSE "join_wait"]
  /\ UNCHANGED <<maxsize, kind, queue, getters, putters, unfinished, finished,
                 count, slot, owed, taken>>

(***************************************************************************)
(* task.cancel() on a suspended task.  A pending future is cancelled and   *)
(* stays in its list; a resolved one has no effect left on the queue: the  *)
(* item handed to a getter is gone, the item of a putter stays inserted.   *)
(***************************************************************************)
CancelTask(t) ==
  /\ pc[t] # "idle"
  /\ getters' = [i \in 1..Len(getters) |->
                   IF getters[i] = t THEN Done ELSE getters[i]]
  /\ putters' = [i \in 1..Len(putters) |->
                   IF putters[i].task = t THEN [putters[i] EXCEPT !.task = Done]
                   ELSE putters[i]]
  /\ pc' = [pc EXCEPT ![t] = "idle"]
  /\ slot' = [slot EXCEPT ![t] = NoItem]
  /\ UNCHANGED <<maxsize, kind, queue, unfinished, finished, count, owed, taken>>

QueueNext ==
  \/ \E t \in Producers : Put(t) \/ PutResume(t)
  \/ \E t \in Consumers : GetNow(t) \/ GetWait(t) \/ GetResume(t)
  \/ \E t \in Joiners : Join(t)
  \/ TaskDone
  \/ \E t \in Tasks : CancelTask(t)

\* The event loop runs every task whose future is resolved; the clients of the
\* queue keep consuming and acknowledging.
QueueFairness ==
  /\ \A t \in Producers : WF_queueVars(PutResume(t))
  /\ \A t \in Consumers : WF_queueVars(GetResume(t)) /\ WF_queueVars(GetNow(t))
  /\ WF_queueVars(TaskDone)

QueueSpec == QueueInit /\ [][QueueNext]_queueVars
QueueFairSpec == QueueSpec /\ QueueFairness
-----------------------------------------------------------------------------
States == {"idle", "put_wait", "put_woken", "get_wait", "get_woken", "join_wait"}

QueueTypeOK ==
  /\ maxsize \in MaxSizes /\ kind \in Kinds
  /\ queue \in Seq(Items)
  /\ getters \in Seq(Consumers \cup {Done})
  /\ putters \in Seq([task : Producers \cup {Done}, item : Items])
  /\ unfinished \in Nat /\ finished \in BOOLEAN
  /\ count \in 0..MaxPuts
  /\ pc \in [Tasks -> States]
  /\ slot \in [Tasks -> Items \cup {NoItem}]
  /\ owed \in Nat
  /\ taken \in [1..MaxPuts -> 0..2]

-----------------------------------------------------------------------------
(* Properties. *)

Unbounded == maxsize <= 0
Copies(n) == Cardinality({i \in 1..Len(queue) : queue[i].count = n})

\* A bounded queue never holds more than maxsize items, although items enter
\* it from put() and, for a parked putter, from a consumer's get().
Capacity == ~Unbounded => Len(queue) <= maxsize

\* No wakeup is lost: a task waits in get() only while there is nothing to get
\* and in put() only while there is no room, whoever was cancelled meanwhile.
\* (_wakeup_next_waiter wakes at most one task and skips cancelled futures.)
NoLostWakeup ==
  /\ LiveGetters # {} => queue = <<>>
  /\ LivePutters # {} => Full(queue)

\* In an unbounded queue an item that was put is either still queued or was
\* taken exactly once, by get() or by a put() that handed it to a waiter.
ExactlyOnce ==
  Unbounded => \A n \in 1..count : Copies(n) + taken[n] = 1

\* In an unbounded queue the counter behind join() covers all work that is not
\* acknowledged: what is queued, handed over to a task that has not run yet,
\* and received.  So a consumer's task_done() never raises and join() returns
\* only when everything was processed.
WorkAccounted ==
  Unbounded =>
    /\ unfinished >= Len(queue) + owed
                     + Cardinality({t \in Tasks : pc[t] = "get_woken"})
    /\ finished = (unfinished = 0)

\* A task waits on one future at a time, and a waiting task is in the list that
\* will wake it: no cancelled or woken task leaves a pending future behind, and
\* none is dropped from a list while its task still waits.
OneFuturePerTask ==
  /\ \A i, j \in LiveGetters : getters[i] = getters[j] => i = j
  /\ \A i, j \in LivePutters : putters[i].task = putters[j].task => i = j
  /\ \A t \in Tasks : pc[t] = "get_wait" <=> \E i \in LiveGetters : getters[i] = t
  /\ \A t \in Tasks : pc[t] = "put_wait" <=> \E i \in LivePutters : putters[i].task = t

\* A suspended put() still holds its item.
SlotHeld ==
  \A t \in Tasks : pc[t] \in {"put_wait", "put_woken"} => slot[t] \in Items

\* In an unbounded queue an item is taken only when no queued item is to be
\* served before it, by the order each class documents.
ServedBefore(a, b) ==
  CASE kind = "fifo" -> a.count < b.count
    [] kind = "lifo" -> a.count > b.count
    [] kind = "priority" -> Before(a, b)

ServedInOrder ==
  [][Unbounded =>
       \A i \in 1..Len(queue) :
         taken'[queue[i].count] > taken[queue[i].count] =>
           \A j \in 1..Len(queue') : ServedBefore(queue[i], queue'[j])]_queueVars

\* A task parked in put() leaves its future as long as consumers keep getting.
BlockedPutIsServed ==
  \A t \in Producers : pc[t] = "put_wait" ~> pc[t] # "put_wait"

\* The promise of put(): the item goes into the queue, waiting first for a
\* free slot.  A parked put() has not put its item yet, so no item can be in
\* the queue or with a consumer more than once.
PutOnce == \A n \in 1..count : Copies(n) + taken[n] <= 1
=============================================================================
