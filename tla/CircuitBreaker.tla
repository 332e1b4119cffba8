--------------------------- MODULE CircuitBreaker ---------------------------
(***************************************************************************)
(* mtaio.decorators.control: one CircuitBreaker shared by callers that     *)
(* with_retry drives.  The breaker holds its asyncio.Lock, which is fair,  *)
(* while it awaits func, so what is one await in a caller is one run of    *)
(* func in the breaker.                                                    *)
(*                                                                         *)
(* The code compares times by their difference only: `sinceFailure' is     *)
(* now - last_failure_time and `elapsed' is now - the start of the call    *)
(* that runs func, both counted up to MaxAge.  Failures are counted up to  *)
(* threshold: the code asks only whether they have reached it.             *)
(***************************************************************************)
EXTENDS Integers, Sequences, SequencesExt

CONSTANTS Callers,
          FailureThreshold, ResetTimeout,
          MaxAttempts,    \* max_attempts of with_retry
          Delay,          \* its longest sleep between two attempts
          MaxAge          \* bound: ages are counted up to here

ASSUME BreakerAssumption ==
  /\ FailureThreshold \in Nat \ {0} /\ MaxAttempts \in Nat \ {0}
  /\ ResetTimeout \in Nat /\ Delay \in Nat
  /\ MaxAge \in Nat /\ ResetTimeout < MaxAge

VARIABLES breaker,       \* CircuitBreaker.state
          failures,
          sinceFailure,
          elapsed,
          breakerLine,   \* the callers in line for _lock
          caller,        \* where each caller is
          attempt,       \* the attempt of with_retry each caller makes, from 0
          asleep,        \* how long a caller still sleeps
          failed         \* history: runs of func that failed since the breaker closed

breakerVars == <<breaker, failures, sinceFailure, elapsed, breakerLine, caller,
                 attempt, asleep, failed>>

Ages == 0..MaxAge
Older(age) == IF age < MaxAge THEN age + 1 ELSE age
InFunc == {t \in Callers : caller[t] = "func"}

BreakerInit ==
  /\ breaker = "closed" /\ failures = 0 /\ sinceFailure = 0 /\ elapsed = 0
  /\ breakerLine = <<>> /\ caller = [t \in Callers |-> "idle"]
  /\ attempt = [t \in Callers |-> 0] /\ asleep = [t \in Callers |-> 0]
  /\ failed = 0

-----------------------------------------------------------------------------
\* Mutant of Retry: one attempt too many.
RetryOnceMore(t) ==
  \/ /\ caller' = [caller EXCEPT ![t] = "idle"]
     /\ attempt' = [attempt EXCEPT ![t] = 0]
     /\ UNCHANGED asleep
  \/ /\ attempt[t] < MaxAttempts
     /\ caller' = [caller EXCEPT ![t] = "sleeping"]
     /\ attempt' = [attempt EXCEPT ![t] = @ + 1]
     /\ \E d \in 0..Delay : asleep' = [asleep EXCEPT ![t] = d]

\* with_retry after an attempt that raised: the last attempt, or retry_if saying
\* no, ends in RetryError, another one in a sleep of at most max_delay.
Retry(t) ==
  \/ /\ caller' = [caller EXCEPT ![t] = "idle"]
     /\ attempt' = [attempt EXCEPT ![t] = 0]
     /\ UNCHANGED asleep
  \/ /\ attempt[t] < MaxAttempts - 1
     /\ caller' = [caller EXCEPT ![t] = "sleeping"]
     /\ attempt' = [attempt EXCEPT ![t] = @ + 1]
     /\ \E d \in 0..Delay : asleep' = [asleep EXCEPT ![t] = d]

\* The except branch of a breaker in the state s; last_failure_time is the time
\* at which the failed call began, `age' ago.
CountFailure(s, age) ==
  /\ failures' = IF failures < FailureThreshold THEN failures + 1 ELSE failures
  /\ sinceFailure' = age
  /\ breaker' = IF failures' = FailureThreshold THEN "open" ELSE s

\* What a call does when it gets the lock.
Refuse(t) ==
  /\ breaker = "open" /\ sinceFailure < ResetTimeout
  /\ Retry(t)
  /\ UNCHANGED <<breaker, failures, sinceFailure, elapsed, failed>>

\* The trial of a half-open breaker: asyncio.timeout() is no synchronous context
\* manager, `with' raises TypeError and the except branch takes it for a failure.
Trial(t) ==
  /\ breaker = "half-open" \/ (breaker = "open" /\ sinceFailure >= ResetTimeout)
  /\ CountFailure("half-open", 0)
  /\ Retry(t)
  /\ UNCHANGED <<elapsed, failed>>

Begin(t) ==
  /\ breaker = "closed"
  /\ caller' = [caller EXCEPT ![t] = "func"]
  /\ elapsed' = 0
  /\ UNCHANGED <<breaker, failures, sinceFailure, attempt, asleep, failed>>

Locked(t) == Refuse(t) \/ Trial(t) \/ Begin(t)

\* Mutant of Acquire: the lock guards the counters only and not the run of func.
AcquireUnlocked(t) ==
  /\ Locked(t)
  /\ UNCHANGED breakerLine

\* async with self._lock
Acquire(t) ==
  \/ InFunc = {} /\ breakerLine = <<>> /\ Locked(t) /\ UNCHANGED breakerLine
  \/ /\ InFunc # {} \/ breakerLine # <<>>
     /\ breakerLine' = Append(breakerLine, t)
     /\ caller' = [caller EXCEPT ![t] = "line"]
     /\ UNCHANGED <<breaker, failures, sinceFailure, elapsed, attempt, asleep, failed>>

\* A decorated call begins, or its sleep between two attempts is over.
Call(t) ==
  /\ caller[t] = "idle" \/ (caller[t] = "sleeping" /\ asleep[t] = 0)
  /\ Acquire(t)

CallGranted ==
  /\ InFunc = {} /\ breakerLine # <<>>
  /\ Locked(Head(breakerLine))
  /\ breakerLine' = Tail(breakerLine)

\* func returns.  A success of a closed breaker does not reset its failures.
Succeed(t) ==
  /\ caller[t] = "func"
  /\ IF breaker # "closed" THEN breaker' = "closed" /\ failures' = 0 /\ failed' = 0
                         ELSE UNCHANGED <<breaker, failures, failed>>
  /\ caller' = [caller EXCEPT ![t] = "idle"]
  /\ attempt' = [attempt EXCEPT ![t] = 0]
  /\ UNCHANGED <<sinceFailure, elapsed, breakerLine, asleep>>

\* func raises.
Fail(t) ==
  /\ caller[t] = "func"
  /\ CountFailure(breaker, elapsed)
  /\ failed' = failed + 1
  /\ Retry(t)
  /\ UNCHANGED <<elapsed, breakerLine>>

\* CancelledError is no Exception: neither decorator catches it.
CancelCall(t) ==
  /\ caller[t] # "idle"
  /\ caller' = [caller EXCEPT ![t] = "idle"]
  /\ attempt' = [attempt EXCEPT ![t] = 0]
  /\ breakerLine' = RemoveFirst(breakerLine, t)
  /\ UNCHANGED <<breaker, failures, sinceFailure, elapsed, asleep, failed>>

\* time.monotonic() and asyncio.sleep()
BreakerTick ==
  /\ sinceFailure' = Older(sinceFailure) /\ elapsed' = Older(elapsed)
  /\ asleep' = [t \in Callers |-> IF asleep[t] > 0 THEN asleep[t] - 1 ELSE 0]
  /\ UNCHANGED <<breaker, failures, breakerLine, caller, attempt, failed>>

BreakerNext ==
  \/ \E t \in Callers : Call(t) \/ Succeed(t) \/ Fail(t) \/ CancelCall(t)
  \/ CallGranted
  \/ BreakerTick

\* The clock runs, the event loop grants the lock and resumes who slept, and
\* the callers keep calling a func that returns or raises.
BreakerFairness ==
  /\ WF_breakerVars(BreakerTick)
  /\ WF_breakerVars(CallGranted)
  /\ \A t \in Callers : WF_breakerVars(Call(t)) /\ WF_breakerVars(Succeed(t) \/ Fail(t))

BreakerSpec == BreakerInit /\ [][BreakerNext]_breakerVars
FairBreakerSpec == BreakerSpec /\ BreakerFairness

-----------------------------------------------------------------------------
BreakerTypeOK ==
  /\ breaker \in {"closed", "open", "half-open"}
  /\ failures \in 0..FailureThreshold
  /\ sinceFailure \in Ages /\ elapsed \in Ages
  /\ breakerLine \in Seq(Callers)
  /\ caller \in [Callers -> {"idle", "line", "func", "sleeping"}]
  /\ attempt \in [Callers -> 0..MaxAttempts - 1] /\ asleep \in [Callers -> 0..Delay]
  /\ failed \in Nat

\* However many callers race, with retries that sleep and come back and calls
\* that are cancelled, a func that keeps failing is run and fails at most
\* failure_threshold times, and an open breaker has no run of func under way.
Trips ==
  /\ failed <= FailureThreshold
  /\ breaker # "closed" => InFunc = {}

\* "Allow one test call after timeout": once func has stopped failing, a breaker
\* that callers keep using closes again.
Recovers ==
  <>[][~ \E t \in Callers : Fail(t)]_breakerVars => []<>(breaker = "closed")
=============================================================================
