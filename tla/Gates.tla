------------------------------- MODULE Gates --------------------------------
(***************************************************************************)
(* What lets tasks through a few at a time, or all at once: the            *)
(* ConcurrencyLimiter and the ResourceLimiter of mtaio.resources.limiter,  *)
(* gather() and map() of TaskExecutor with their limit, and the Latch of   *)
(* mtaio.core.primitives.                                                  *)
(*                                                                         *)
(* The semaphores and the condition are asyncio's: a slot that is given    *)
(* back goes to the first task that waits, or to nobody.  The lock around  *)
(* `current' and the one of the latch are never held over a suspension     *)
(* that another task could notice, so what they guard is one step.         *)
(* ResourceLimiter(rate=...) cannot be constructed (its RateLimiter takes  *)
(* no `window'), so only its concurrency half runs.                        *)
(***************************************************************************)
EXTENDS Integers, Sequences, FiniteSets, SequencesExt

CONSTANTS GateTasks,      \* 1..n, in the order gather() is given them
          Limits,         \* values of `limit'; gather() without one has n slots
          MaxCount        \* bound on the initial count of a latch

ASSUME GateAssumption ==
  /\ IsFiniteSet(GateTasks) /\ GateTasks = 1..Cardinality(GateTasks)
  /\ Limits \subseteq Nat \ {0} /\ MaxCount \in Nat

VARIABLES gate,        \* what is modelled
          room,        \* the limit
          at,          \* where each task is
          slots,       \* the semaphore's _value
          waiters,     \* _waiters of the semaphore, or of the condition
          current,     \* ConcurrencyLimiter.current
          keepErrors,  \* return_exceptions
          gathered,    \* what became of the gather()
          count,       \* Latch._count
          bounded,     \* the tasks in wait() with a timeout
          answer       \* history: the answers wait() has given each task

gateVars == <<gate, room, at, slots, waiters, current, keepErrors, gathered, count,
              bounded, answer>>

LatchCounts == 0..MaxCount      \* a negative count is refused
AtGate(place) == {t \in GateTasks : at[t] = place}
\* A function of map() that a thread runs goes on when its task is cancelled.
Executing == AtGate("inside") \cup AtGate("adrift")

GateInit ==
  /\ gate \in {"limiter", "gather", "threads", "latch"}
  /\ room \in Limits /\ slots = room
  /\ at = [t \in GateTasks |-> "out"]
  /\ waiters = <<>> /\ current = 0
  /\ keepErrors \in (IF gate \in {"gather", "threads"} THEN BOOLEAN ELSE {FALSE})
  /\ gathered = "running"
  /\ count \in (IF gate = "latch" THEN LatchCounts ELSE {0})
  /\ bounded = {} /\ answer = [t \in GateTasks |-> {}]

-----------------------------------------------------------------------------
Limiting == gate # "latch"
Gathering == gate \in {"gather", "threads"}

\* Semaphore.release(): the first task that waits has the slot.
GiveBack(places) ==
  IF waiters = <<>>
  THEN slots' = slots + 1 /\ at' = places /\ UNCHANGED waiters
  ELSE /\ at' = [places EXCEPT ![Head(waiters)] = "granted"]
       /\ waiters' = Tail(waiters) /\ UNCHANGED slots

Counted(n) == current' = IF gate = "limiter" THEN current + n ELSE current

\* limit()'s wrapper or run_with_semaphore() reaches the semaphore: it has a
\* slot at once only if there is one and nobody waits.
EnterGate(t) ==
  /\ Limiting /\ at[t] = "out"
  /\ Gathering => /\ \A s \in GateTasks : s < t => at[s] # "out"
                  /\ gathered # "cancelled"
  /\ IF slots > 0 /\ waiters = <<>>
     THEN /\ slots' = slots - 1 /\ at' = [at EXCEPT ![t] = "inside"]
          /\ Counted(1) /\ UNCHANGED waiters
     ELSE /\ waiters' = Append(waiters, t) /\ at' = [at EXCEPT ![t] = "queued"]
          /\ UNCHANGED <<slots, current>>
  /\ UNCHANGED <<gate, room, keepErrors, gathered, count, bounded, answer>>

\* A task that was given a slot goes on.
Admit(t) ==
  /\ Limiting /\ at[t] = "granted"
  /\ at' = [at EXCEPT ![t] = "inside"] /\ Counted(1)
  /\ UNCHANGED <<gate, room, slots, waiters, keepErrors, gathered, count, bounded,
                 answer>>

\* A task is cancelled before it is inside; a slot it was given it passes on.
\* The coroutines of a gather() have no other owner to cancel them.
CancelWaiting(t) ==
  /\ gate = "limiter"
  /\ \/ /\ at[t] = "queued"
        /\ at' = [at EXCEPT ![t] = "out"] /\ waiters' = RemoveFirst(waiters, t)
        /\ UNCHANGED slots
     \/ /\ at[t] = "granted"
        /\ GiveBack([at EXCEPT ![t] = "out"])
  /\ UNCHANGED <<gate, room, current, keepErrors, gathered, count, bounded, answer>>

\* What gather() makes of the end of t: the first error, or all the results.
Collect(t, fails) ==
  gathered' =
    IF gathered # "running" THEN gathered
    ELSE IF fails /\ ~keepErrors THEN "raised"
    ELSE IF \A s \in GateTasks \ {t} : at[s] = "done" THEN "returned"
    ELSE "running"

\* The function returns, raises or is cancelled: `current' counts it no more,
\* and then its slot is given back.
LeaveGate(t, fails) ==
  /\ Limiting /\ at[t] = "inside"
  /\ GiveBack([at EXCEPT ![t] = IF Gathering THEN "done" ELSE "out"])
  /\ Counted(-1)
  /\ IF Gathering THEN Collect(t, fails) ELSE UNCHANGED gathered
  /\ UNCHANGED <<gate, room, keepErrors, count, bounded, answer>>

\* The task that awaits gather() is cancelled, and with it every coroutine that
\* has not ended: what waited never starts, coroutines that are inside end in
\* their own time, and functions in threads go on without a slot.
CancelGather ==
  /\ Gathering /\ gathered = "running"
  /\ gathered' = "cancelled"
  /\ waiters' = <<>>
  /\ at' = [t \in GateTasks |->
              CASE at[t] \in {"out", "queued", "granted"} -> "done"
                [] at[t] = "inside" /\ gate = "threads" -> "adrift"
                [] OTHER -> at[t]]
  /\ slots' = slots + Cardinality(AtGate("granted"))
                    + (IF gate = "threads" THEN Cardinality(AtGate("inside")) ELSE 0)
  /\ UNCHANGED <<gate, room, current, keepErrors, count, bounded, answer>>

ThreadEnds(t) ==
  /\ at[t] = "adrift"
  /\ at' = [at EXCEPT ![t] = "done"]
  /\ UNCHANGED <<gate, room, slots, waiters, current, keepErrors, gathered, count,
                 bounded, answer>>

-----------------------------------------------------------------------------
\* Latch.wait()
LatchWait(t, hasTimeout) ==
  /\ gate = "latch" /\ at[t] = "out"
  /\ IF count = 0
     THEN /\ answer' = [answer EXCEPT ![t] = @ \cup {TRUE}]
          /\ UNCHANGED <<at, waiters, bounded>>
     ELSE /\ at' = [at EXCEPT ![t] = "queued"] /\ waiters' = Append(waiters, t)
          /\ bounded' = IF hasTimeout THEN bounded \cup {t} ELSE bounded
          /\ UNCHANGED answer
  /\ UNCHANGED <<gate, room, slots, current, keepErrors, gathered, count>>

\* Condition.notify(n)
Notify(n) ==
  /\ at' = [t \in GateTasks |-> IF \E i \in 1..n : waiters[i] = t THEN "granted" ELSE at[t]]
  /\ waiters' = SubSeq(waiters, n + 1, Len(waiters))

\* Mutant of CountDown: notify() where all have to be notified.
CountDownWakesOne ==
  /\ gate = "latch" /\ count > 0
  /\ count' = count - 1
  /\ IF count = 1 /\ waiters # <<>> THEN Notify(1)
                                    ELSE UNCHANGED <<at, waiters>>
  /\ UNCHANGED <<gate, room, slots, current, keepErrors, gathered, bounded, answer>>

\* Latch.count_down(); at zero it changes nothing.
CountDown ==
  /\ gate = "latch" /\ count > 0
  /\ count' = count - 1
  /\ IF count = 1 THEN Notify(Len(waiters)) ELSE UNCHANGED <<at, waiters>>
  /\ UNCHANGED <<gate, room, slots, current, keepErrors, gathered, bounded, answer>>

\* wait() ends: notified, cancelled, or timed out, and the timeout may come
\* before the notified task has the lock again.
LatchWaitEnds(t, result) ==
  /\ gate = "latch" /\ at[t] \in {"queued", "granted"}
  /\ \/ result = {TRUE} /\ at[t] = "granted"
     \/ result = {FALSE} /\ t \in bounded
     \/ result = {}
  /\ at' = [at EXCEPT ![t] = "out"] /\ waiters' = RemoveFirst(waiters, t)
  /\ bounded' = bounded \ {t}
  /\ answer' = [answer EXCEPT ![t] = @ \cup result]
  /\ UNCHANGED <<gate, room, slots, current, keepErrors, gathered, count>>

GateNext ==
  \/ \E t \in GateTasks :
       \/ EnterGate(t) \/ Admit(t) \/ CancelWaiting(t) \/ ThreadEnds(t)
       \/ \E b \in BOOLEAN : LeaveGate(t, b) \/ LatchWait(t, b)
       \/ \E result \in {{}, {TRUE}, {FALSE}} : LatchWaitEnds(t, result)
  \/ CancelGather \/ CountDown

GateSpec == GateInit /\ [][GateNext]_gateVars

-----------------------------------------------------------------------------
GateTypeOK ==
  /\ gate \in {"limiter", "gather", "threads", "latch"}
  /\ room \in Limits /\ slots \in 0..room
  /\ at \in [GateTasks -> {"out", "queued", "granted", "inside", "adrift", "done"}]
  /\ ToSet(waiters) = AtGate("queued") /\ current \in 0..Cardinality(GateTasks)
  /\ keepErrors \in BOOLEAN
  /\ gathered \in {"running", "returned", "raised", "cancelled"}
  /\ count \in 0..MaxCount
  /\ bounded \subseteq AtGate("queued") \cup AtGate("granted")
  /\ answer \in [GateTasks -> SUBSET BOOLEAN]

\* Whoever is cancelled or times out, and in whatever order: never more than
\* `limit' functions run, not even those whose gather() was cancelled; `current'
\* counts those inside; nobody waits at a gate that is open, so no slot and no
\* notification is lost; a gather() that has returned leaves nothing running;
\* and a latch says True only when its count is zero.
GatesAdmit ==
  /\ Cardinality(Executing) <= room
  /\ gate = "limiter" => current = Cardinality(Executing)
  /\ waiters # <<>> => IF gate = "latch" THEN count > 0 ELSE slots = 0
  /\ Limiting => slots + Cardinality(AtGate("granted") \cup AtGate("inside")) = room
  /\ gathered = "returned" => Executing = {} /\ waiters = <<>>
  /\ (\E t \in GateTasks : TRUE \in answer[t]) => count = 0
=============================================================================
