------------------------------ MODULE Retries -------------------------------
(***************************************************************************)
(* Wrappers that call a function again: TimeoutScheduler.schedule() of     *)
(* mtaio.resources.timeout, where each attempt is a task with a timeout    *)
(* and an entry in _timeouts, and async_retry() of                         *)
(* mtaio.decorators.adapters, which repeats what raised after a delay.     *)
(* async_timeout() of the adapters is schedule() without retries and       *)
(* entries.                                                                *)
(*                                                                         *)
(* wait_for() cancels an attempt whose time is up and waits until it has   *)
(* ended; the attempt may take its time, and end with a value after all.   *)
(***************************************************************************)
EXTENDS Integers, FiniteSets

CONSTANTS Retried,         \* the calls of a wrapped function
          MaxRetries       \* max_retries of schedule(), retries of async_retry()

ASSUME RetryAssumption == MaxRetries \in Nat

VARIABLES form,        \* the wrapper
          place,       \* where each call is
          tries,       \* the number of its last attempt
          alive,       \* the attempts that run
          entries,     \* the attempts in _timeouts
          abandoned,   \* history: the calls cancelled while an attempt was expiring
          cleaning     \* the _cleanup_loop task runs

retryVars == <<form, place, tries, alive, entries, abandoned, cleaning>>

Awaiting == {"waiting", "expiring", "leaving"}
Scheduling == form # "adapter"
Allowed == IF form = "once" THEN 0 ELSE MaxRetries
Latest(c) == <<c, tries[c]>>

RetryInit ==
  /\ form \in {"once", "scheduler", "adapter"}
  /\ place = [c \in Retried |-> "idle"] /\ tries = [c \in Retried |-> 0]
  /\ alive = {} /\ entries = {} /\ abandoned = {} /\ cleaning = FALSE

-----------------------------------------------------------------------------
\* The next attempt of c starts, and the one before it has lost its entry.
Another(c, ended) ==
  LET next == <<c, tries[c] + 1>>
  IN /\ tries' = [tries EXCEPT ![c] = @ + 1]
     /\ alive' = (alive \ ended) \cup {next}
     /\ entries' = IF Scheduling THEN (entries \ {Latest(c)}) \cup {next} ELSE entries
     /\ place' = [place EXCEPT ![c] = "waiting"]

Over(c, ended) ==
  /\ place' = [place EXCEPT ![c] = "over"]
  /\ alive' = alive \ ended /\ entries' = entries \ {Latest(c)}
  /\ UNCHANGED tries

FirstAttempt(c) ==
  /\ place[c] = "idle"
  /\ Another(c, {})
  /\ UNCHANGED <<form, abandoned, cleaning>>

\* The attempt ends with a value, or raises what nobody repeats; or the call
\* was cancelled and has waited for this.
AttemptDecides(c) ==
  /\ place[c] \in Awaiting /\ Latest(c) \in alive
  /\ Over(c, {Latest(c)})
  /\ UNCHANGED <<form, abandoned, cleaning>>

\* The attempt raises what is repeated: any of `exceptions' for async_retry(),
\* TimeoutError for schedule(), its own as well as that of wait_for().
AttemptFails(c) ==
  /\ place[c] \in {"waiting", "expiring"} /\ Latest(c) \in alive
  /\ IF tries[c] > Allowed THEN Over(c, {Latest(c)})
     ELSE IF Scheduling THEN Another(c, {Latest(c)})
     ELSE /\ place' = [place EXCEPT ![c] = "sleeping"] /\ alive' = alive \ {Latest(c)}
          /\ UNCHANGED <<tries, entries>>
  /\ UNCHANGED <<form, abandoned, cleaning>>

DelayOver(c) ==
  /\ place[c] = "sleeping"
  /\ Another(c, {})
  /\ UNCHANGED <<form, abandoned, cleaning>>

\* Mutant of Expire: wait() with a timeout instead of wait_for(), which gives
\* up the attempt without waiting for its end.
ExpireUnawaited(c) ==
  /\ Scheduling /\ place[c] = "waiting"
  /\ IF tries[c] > Allowed THEN Over(c, {}) ELSE Another(c, {})
  /\ UNCHANGED <<form, abandoned, cleaning>>

\* The time of the attempt is up: wait_for() cancels it.
Expire(c) ==
  /\ Scheduling /\ place[c] = "waiting"
  /\ place' = [place EXCEPT ![c] = "expiring"]
  /\ UNCHANGED <<form, tries, alive, entries, abandoned, cleaning>>

\* The call is cancelled.  wait_for() passes it on to the attempt and waits,
\* unless it was already waiting for the end of an attempt.  async_retry() has
\* nothing between the cancellation and the function, which may end as it likes.
CancelRetried(c) ==
  /\ \/ /\ Scheduling /\ place[c] = "waiting"
        /\ place' = [place EXCEPT ![c] = "leaving"]
        /\ UNCHANGED <<tries, alive, entries, abandoned>>
     \/ /\ place[c] \in {"expiring", "leaving"}
        /\ Over(c, {}) /\ abandoned' = abandoned \cup {c}
     \/ /\ place[c] = "sleeping"
        /\ Over(c, {}) /\ UNCHANGED abandoned
  /\ UNCHANGED <<form, cleaning>>

\* An attempt that its call has abandoned ends.
StrayEnds(c) ==
  /\ place[c] = "over" /\ Latest(c) \in alive
  /\ alive' = alive \ {Latest(c)}
  /\ UNCHANGED <<form, place, tries, entries, abandoned, cleaning>>

\* start() and stop(), and a round of the loop, which drops entries of tasks
\* that have ended.
StartOrStop ==
  /\ Scheduling /\ cleaning' = ~cleaning
  /\ UNCHANGED <<form, place, tries, alive, entries, abandoned>>

CleanUpEntries ==
  /\ cleaning
  /\ entries' = entries \cap alive
  /\ UNCHANGED <<form, place, tries, alive, abandoned, cleaning>>

RetryNext ==
  \/ \E c \in Retried : \/ FirstAttempt(c) \/ AttemptDecides(c) \/ AttemptFails(c)
                        \/ DelayOver(c) \/ Expire(c) \/ CancelRetried(c) \/ StrayEnds(c)
  \/ StartOrStop \/ CleanUpEntries

RetrySpec == RetryInit /\ [][RetryNext]_retryVars

-----------------------------------------------------------------------------
RetryTypeOK ==
  /\ form \in {"once", "scheduler", "adapter"}
  /\ place \in [Retried -> Awaiting \cup {"idle", "sleeping", "over"}]
  /\ tries \in [Retried -> 0..MaxRetries + 1]
  /\ alive \subseteq Retried \X (1..MaxRetries + 1) /\ entries \subseteq alive
  /\ abandoned \subseteq Retried /\ cleaning \in BOOLEAN

\* The attempts of one call never overlap, however long a cancelled one takes to
\* end, _timeouts has an entry for the attempt of every scheduled call in
\* progress and for nothing else, and a call that is over leaves no attempt
\* behind unless it was cancelled while it waited for one to end.
AttemptsApart ==
  /\ \A c \in Retried : \A a, b \in alive : a[1] = c /\ b[1] = c => a = b
  /\ entries = {Latest(c) : c \in {d \in Retried : Scheduling /\ place[d] \in Awaiting}}
  /\ \A c \in Retried : place[c] = "over" /\ c \notin abandoned => Latest(c) \notin alive
=============================================================================
