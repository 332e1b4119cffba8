---------------------------- MODULE EventEmitter ----------------------------
(***************************************************************************)
(* mtaio.events.emitter.EventEmitter: emissions, listeners of every sort   *)
(* and the calls that register and remove them.                            *)
(*                                                                         *)
(* emit() runs the listeners one after another under _lock, from a copy of *)
(* the lists made when it got the lock; the other calls take no lock and   *)
(* run at any moment at which a listener is suspended.  asyncio.Lock is    *)
(* fair.  Hooks only matter by being there or not: what they raise is      *)
(* swallowed, but after shutdown() looking them up raises KeyError.        *)
(*                                                                         *)
(* Each registration has a callback of its own; one callback registered    *)
(* twice is not modelled.                                                  *)
(***************************************************************************)
EXTENDS Integers, Sequences, FiniteSets, SequencesExt

CONSTANTS Events,        \* event names other than "*"
          Star,          \* "*"
          None,
          Priorities,    \* values of EventPriority that on() and once() are given
          MaxListeners,  \* bound: registrations
          MaxEmits       \* bound: calls of emit() from outside a listener

ASSUME ConstantsAssumption ==
  /\ Star \notin Events /\ Priorities \subseteq 1..6
  /\ MaxListeners \in Nat /\ MaxEmits \in Nat

VARIABLES lists,     \* _listeners[event], and _wildcards as lists[Star]
          count,     \* _listener_count
          hooks,     \* whether _hooks has its keys
          waiting,   \* emissions in line for _lock
          op,        \* the emission that holds _lock, or None
          phase,     \* emission -> where it is
          event,     \* emission -> the name it emits
          made,      \* every registration so far; its index is its id
          gone,      \* registrations their makers have taken back
          future,    \* wait_for() call, named by its handler's id -> its future
          fired,     \* history: how often each once() listener ran to its end
          cleared    \* history: handlers removed by remove_all_listeners()

registry == <<lists, count, made>>
emission == <<waiting, op, phase, event, fired>>
vars == <<registry, emission, hooks, gone, future, cleared>>

Ids == 1..MaxListeners
Emits == 1..MaxEmits
Names == Events \cup {Star}
HIGHEST == 5
MONITOR == 6

(* A `relay' is a listener that emits on this emitter itself (pipe() in a  *)
(* cycle is one); `wait' is the handler of wait_for(), `suppress' the one  *)
(* of suppress_events().                                                   *)
Kinds == {"plain", "once", "relay", "wait", "suppress"}
Listeners == [id : Ids, kind : Kinds, prio : Priorities \cup {HIGHEST, MONITOR},
              event : Names]

\* rest: the listeners still to run; running: the one suspended.  History: the
\* listeners called, and how many registrations there were at the start.
Running == [emit : Emits, rest : Seq(Listeners), running : Listeners \cup {None},
            propagate : BOOLEAN, ran : Seq(Listeners), start : Nat]

ASSUME NoneAssumption == None \notin Listeners /\ None \notin Running /\ None \notin Events

\* The line's entry of the emission that a relay makes: it never gets the lock,
\* because its own listener holds it.
Nested == 0

Registered == UNION {Range(lists[n]) : n \in Names}

-----------------------------------------------------------------------------
(* Registering.                                                            *)

\* Mutant of Inserted: the newest comes first among equals.
InsertedNewestFirst(list, l) ==
  InsertAt(list, Min({i \in 1..Len(list) : list[i].prio <= l.prio} \cup {Len(list) + 1}), l)

\* append() and a stable sort by descending priority: in front of all that are lower.
Inserted(list, l) ==
  InsertAt(list, Min({i \in 1..Len(list) : list[i].prio < l.prio} \cup {Len(list) + 1}), l)

AddListener(kind, prio, n) ==
  LET l == [id |-> Len(made) + 1, kind |-> kind, prio |-> prio, event |-> n] IN
    /\ Len(made) < MaxListeners
    /\ made' = Append(made, l)
    /\ lists' = [lists EXCEPT ![n] = Inserted(@, l)]
    /\ count' = count + 1

\* The count goes down whether or not there was something to remove.
RemoveListener(l) ==
  /\ lists' = [lists EXCEPT ![l.event] = RemoveFirst(@, l)]
  /\ count' = count - 1
  /\ UNCHANGED made

On(kind, prio, n) ==
  /\ AddListener(kind, prio, n)
  /\ UNCHANGED <<emission, hooks, gone, future, cleared>>

SuppressEvents(n) == On("suppress", HIGHEST, n)

\* remove_listener() by whoever registered l, or the end of its with block.
Off(l) ==
  /\ l.kind # "wait" /\ l.id \notin gone
  /\ RemoveListener(l)
  /\ gone' = gone \cup {l.id}
  /\ UNCHANGED <<emission, hooks, future, cleared>>

\* Mutant of Forget: the keys are deleted and still looked up.
ForgetKeys(ns) ==
  /\ lists' = [n \in Names \ ns |-> lists[n]]
  /\ UNCHANGED <<made, emission, gone, future, cleared>>

Forget(ns) ==
  /\ lists' = [n \in Names |-> IF n \in ns THEN <<>> ELSE lists[n]]
  /\ cleared' = cleared \cup {l.id : l \in UNION {Range(lists[n]) : n \in ns}}
  /\ UNCHANGED <<made, emission, gone, future>>

\* Mutant of RemoveAll: the counter is left alone.
RemoveAllUncounted(n) ==
  /\ Forget({n})
  /\ UNCHANGED <<count, hooks>>

RemoveAll(n) ==
  /\ Forget({n})
  /\ count' = count - Len(lists[n])
  /\ UNCHANGED hooks

RemoveEverything ==
  /\ Forget(Names)
  /\ count' = 0
  /\ UNCHANGED hooks

Shutdown ==
  /\ Forget(Names)
  /\ count' = 0
  /\ hooks' = FALSE

-----------------------------------------------------------------------------
(* wait_for().                                                             *)

WaitFor(n) ==
  /\ AddListener("wait", MONITOR, n)
  /\ future' = [future EXCEPT ![Len(made) + 1] = "pending"]
  /\ UNCHANGED <<emission, hooks, gone, cleared>>

WaitReturn(l) ==
  /\ future[l.id] = "set"
  /\ future' = [future EXCEPT ![l.id] = "returned"]
  /\ UNCHANGED <<registry, emission, hooks, gone, cleared>>

\* Mutant of WaitTimeout: the handler is left behind.
WaitTimeoutLeaks(l) ==
  /\ future[l.id] \in {"pending", "set"}
  /\ future' = [future EXCEPT ![l.id] = "timeout"]
  /\ UNCHANGED <<registry, emission, hooks, gone, cleared>>

\* From Python 3.12 on the timeout can still win when the future was set but its
\* waiter has not run yet; the handler is then removed a second time.
WaitTimeout(l) ==
  /\ future[l.id] \in {"pending", "set"}
  /\ RemoveListener(l)
  /\ future' = [future EXCEPT ![l.id] = "timeout"]
  /\ UNCHANGED <<emission, hooks, gone, cleared>>

\* Only TimeoutError is caught: a cancelled wait_for() leaves its handler.
WaitCancel(l) ==
  /\ future[l.id] = "pending"
  /\ future' = [future EXCEPT ![l.id] = "cancelled"]
  /\ UNCHANGED <<registry, emission, hooks, gone, cleared>>

-----------------------------------------------------------------------------
(* emit().                                                                 *)

Begin(e, n) ==
  op' = [emit |-> e, rest |-> lists[n] \o lists[Star], running |-> None,
         propagate |-> TRUE, ran |-> <<>>, start |-> Len(made)]

\* After shutdown() emit() raises before it does anything.
Emit(e, n) ==
  /\ hooks /\ phase[e] = "none"
  /\ event' = [event EXCEPT ![e] = n]
  /\ \/ /\ op = None /\ waiting = <<>>
        /\ Begin(e, n)
        /\ phase' = [phase EXCEPT ![e] = "running"]
        /\ UNCHANGED waiting
     \/ /\ op # None \/ waiting # <<>>
        /\ waiting' = Append(waiting, e)
        /\ phase' = [phase EXCEPT ![e] = "waiting"]
        /\ UNCHANGED op
  /\ UNCHANGED <<registry, hooks, gone, future, fired, cleared>>

Granted ==
  /\ op = None /\ waiting # <<>>
  /\ Begin(Head(waiting), event[Head(waiting)])
  /\ waiting' = Tail(waiting)
  /\ phase' = [phase EXCEPT ![Head(waiting)] = "running"]
  /\ UNCHANGED <<registry, hooks, gone, event, future, fired, cleared>>

End(e, how) ==
  /\ op' = None
  /\ phase' = [phase EXCEPT ![e] = how]

\* The next listener of the copied list is called; afterwards `running' is the
\* one that is suspended.
Called(running, propagate) ==
  op' = [emit |-> op.emit, rest |-> Tail(op.rest), running |-> running,
         propagate |-> propagate, ran |-> Append(op.ran, Head(op.rest)), start |-> op.start]

\* A listener runs up to its first wait; the handlers of wait_for() and of
\* suppress_events() have none.  A relay raises KeyError after shutdown().
CallNext ==
  /\ op # None /\ op.running = None /\ op.propagate /\ op.rest # <<>>
  /\ LET l == Head(op.rest)
     IN \/ /\ l.kind \in {"plain", "once"}
           /\ Called(l, TRUE)
           /\ UNCHANGED <<registry, waiting, phase, future>>
        \/ /\ l.kind = "relay"
           /\ IF hooks
              THEN /\ Called(l, TRUE)
                   /\ waiting' = Append(waiting, Nested)
                   /\ UNCHANGED phase
              ELSE End(op.emit, "failed") /\ UNCHANGED waiting
           /\ UNCHANGED <<registry, future>>
        \/ /\ l.kind = "suppress"
           /\ Called(None, FALSE)
           /\ UNCHANGED <<registry, waiting, phase, future>>
        \/ /\ l.kind = "wait" /\ future[l.id] = "pending"
           /\ Called(None, TRUE)
           /\ future' = [future EXCEPT ![l.id] = "set"]
           /\ RemoveListener(l)
           /\ UNCHANGED <<waiting, phase>>
        \/ /\ l.kind = "wait"   \* check() is false, or the future is done
           /\ Called(None, TRUE)
           /\ UNCHANGED <<registry, waiting, phase, future>>
  /\ UNCHANGED <<hooks, gone, event, fired, cleared>>

\* Mutants of ListenerReturns: the wrapper stays registered; and its removal
\* shifts the list that is being iterated over.
ListenerReturnsStays ==
  /\ op # None /\ op.running # None /\ op.running.kind \in {"plain", "once"}
  /\ op' = [op EXCEPT !.running = None]
  /\ fired' = IF op.running.kind = "once"
              THEN [fired EXCEPT ![op.running.id] = @ + 1] ELSE fired
  /\ UNCHANGED <<registry, hooks, gone, waiting, phase, event, future, cleared>>

ListenerReturnsSkips ==
  /\ op # None /\ op.running # None /\ op.running.kind \in {"plain", "once"}
  /\ IF op.running.kind = "once"
     THEN /\ RemoveListener(op.running)
          /\ fired' = [fired EXCEPT ![op.running.id] = @ + 1]
          /\ op' = [op EXCEPT !.running = None,
                              !.rest = IF @ = <<>> THEN @ ELSE Tail(@)]
     ELSE op' = [op EXCEPT !.running = None] /\ UNCHANGED <<registry, fired>>
  /\ UNCHANGED <<hooks, gone, waiting, phase, event, future, cleared>>

\* The listener that was suspended is through.  It may have set event.propagate to
\* False, which is tested before the next one.
Through(propagate) == op' = [op EXCEPT !.running = None, !.propagate = propagate]

\* The wrapper of once() removes itself after the function has returned.
ListenerReturns ==
  /\ op # None /\ op.running # None /\ op.running.kind \in {"plain", "once"}
  /\ \E propagate \in BOOLEAN : Through(propagate)
  /\ IF op.running.kind = "once"
     THEN /\ RemoveListener(op.running)
          /\ fired' = [fired EXCEPT ![op.running.id] = @ + 1]
     ELSE UNCHANGED <<registry, fired>>
  /\ UNCHANGED <<hooks, gone, waiting, phase, event, future, cleared>>

\* on_error hooks run and the next listener follows, unless shutdown() has
\* taken the hooks: then KeyError leaves the loop and emit().
ListenerRaises ==
  /\ op # None /\ op.running # None /\ op.running.kind \in {"plain", "once"}
  /\ IF hooks THEN (\E propagate \in BOOLEAN : Through(propagate)) /\ UNCHANGED phase
     ELSE End(op.emit, "failed")
  /\ UNCHANGED <<registry, hooks, gone, waiting, event, future, fired, cleared>>

\* Mutant of Finish: a stopped emission is not told from one still running.
FinishOnlyAtEnd ==
  /\ op # None /\ op.running = None /\ op.rest = <<>>
  /\ End(op.emit, IF hooks THEN "done" ELSE "failed")
  /\ UNCHANGED <<registry, hooks, gone, waiting, event, future, fired, cleared>>

Finish ==
  /\ op # None /\ op.running = None /\ (op.rest = <<>> \/ ~op.propagate)
  /\ End(op.emit, IF hooks THEN "done" ELSE "failed")
  /\ UNCHANGED <<registry, hooks, gone, waiting, event, future, fired, cleared>>

\* The task of an emission is cancelled, in line or in a suspended listener.
Cancel(e) ==
  /\ \/ /\ phase[e] = "waiting"
        /\ waiting' = RemoveFirst(waiting, e)
        /\ phase' = [phase EXCEPT ![e] = "cancelled"]
        /\ UNCHANGED op
     \/ /\ phase[e] = "running"
        /\ waiting' = RemoveFirst(waiting, Nested)
        /\ End(e, "cancelled")
  /\ UNCHANGED <<registry, hooks, gone, event, future, fired, cleared>>

-----------------------------------------------------------------------------
Init ==
  /\ lists = [n \in Names |-> <<>>] /\ count = 0 /\ made = <<>>
  /\ hooks = TRUE
  /\ waiting = <<>> /\ op = None
  /\ phase = [e \in Emits |-> "none"] /\ event = [e \in Emits |-> None]
  /\ gone = {} /\ future = [id \in Ids |-> "none"]
  /\ fired = [id \in Ids |-> 0] /\ cleared = {}

\* What the task that holds the lock does before it is suspended again.
Step == CallNext \/ Finish

\* What others do while it is.
Other ==
  \/ \E kind \in {"plain", "once", "relay"}, prio \in Priorities, n \in Names :
       On(kind, prio, n)
  \/ \E n \in Names : SuppressEvents(n) \/ WaitFor(n) \/ RemoveAll(n)
  \/ \E l \in Range(made) : Off(l) \/ WaitReturn(l) \/ WaitTimeout(l) \/ WaitCancel(l)
  \/ RemoveEverything \/ Shutdown
  \/ \E e \in Emits, n \in Events : Emit(e, n)
  \/ \E e \in Emits : Cancel(e)
  \/ Granted \/ ListenerReturns \/ ListenerRaises

Next == Step \/ ((op # None => op.running # None) /\ Other)

\* The event loop runs what is ready, and a listener that does not wait for this
\* emitter's lock returns.
Fairness ==
  /\ WF_vars(Step)
  /\ WF_vars(Granted)
  /\ WF_vars(ListenerReturns)

Spec == Init /\ [][Next]_vars
FairSpec == Spec /\ Fairness

-----------------------------------------------------------------------------
Ended == {"done", "failed", "cancelled"}

TypeOK ==
  /\ lists \in [Names -> Seq(Listeners)] /\ count \in Int /\ made \in Seq(Listeners)
  /\ hooks \in BOOLEAN
  /\ waiting \in Seq(Emits \cup {Nested}) /\ op \in Running \cup {None}
  /\ phase \in [Emits -> {"none", "waiting", "running"} \cup Ended]
  /\ event \in [Emits -> Events \cup {None}]
  /\ gone \subseteq Ids /\ cleared \subseteq Ids
  /\ future \in [Ids -> {"none", "pending", "set", "returned", "timeout", "cancelled"}]
  /\ fired \in [Ids -> Nat]

\* A once() listener completes at most once, although emissions overlap and its
\* wrapper is taken off the list only after its function has returned.
OnceRunsOnce == \A id \in Ids : fired[id] <= 1

\* An emission calls, and has still to call, the listeners of its event before
\* the wildcards, each list by descending priority and then by age, whatever is
\* registered or removed while it runs.
InOrder ==
  op # None =>
    LET all == op.ran \o op.rest IN
      \A i, j \in 1..Len(all) : i < j =>
        \/ all[i].event # Star /\ all[j].event = Star
        \/ all[i].event = all[j].event
           /\ \/ all[i].prio > all[j].prio
              \/ all[i].prio = all[j].prio /\ all[i].id < all[j].id

\* A listener that is registered throughout an emission that nobody stopped was
\* called in it, exactly once, although others were removed under its feet.
EveryoneCalled ==
  [][op # None /\ op' = None /\ phase'[op.emit] = "done" /\ op.propagate =>
       \A l \in Registered :
         l.id <= op.start /\ l.event \in {event[op.emit], Star} =>
           Cardinality({i \in 1..Len(op.ran) : op.ran[i] = l}) = 1]_vars

\* wait_for() is listening exactly as long as it waits: no event can be missed,
\* and no handler is left behind, unless the wait was cancelled or somebody
\* removed all listeners; and listener_count() counts no listener that is gone.
WaitersListen ==
  /\ \A l \in Range(made) :
       l.kind = "wait" /\ l.id \notin cleared /\ future[l.id] # "cancelled" =>
         (future[l.id] = "pending" <=> l \in Registered)
  /\ count <= Cardinality(Registered)

\* An emission that waits for the lock ends, unless a listener of the emission
\* that holds it emits on this emitter and so waits for the lock itself.
EmitEnds ==
  \A e \in Emits :
    phase[e] = "waiting" ~> (phase[e] \in Ended \/ Nested \in Range(waiting))

\* The promise of suppress_events(): while the block is active its events are
\* not emitted, so no listener runs in an emission before the suppressing one.
SuppressionHolds ==
  op # None /\ op.running # None =>
    \A l \in Range(op.rest) : l.kind = "suppress" => l \notin Registered
=============================================================================
