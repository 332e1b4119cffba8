--------------------------- MODULE ControlProofs ----------------------------
(***************************************************************************)
(* Theorems about the components that control how calls and tasks run, for *)
(* any values of their constants, and about the composition MCControl      *)
(* makes of them.  Of each component: an inductive invariant, that it      *)
(* holds initially, a lemma per action that it is kept, and what it        *)
(* implies.                                                                *)
(***************************************************************************)
EXTENDS MCControl, SequenceLemmas

-----------------------------------------------------------------------------
(* The circuit breaker. *)

\* What makes Trips inductive: one run of func at a time, and only in a closed
\* breaker; a closed breaker has counted fewer failures than its threshold, and
\* every failed run since it closed is one of those it has counted; the line is
\* that of the callers that wait in it, each of them once.
BreakerInv ==
  /\ BreakerTypeOK
  /\ breaker # "closed" => InFunc = {}
  /\ \A s, t \in InFunc : s = t
  /\ breaker = "closed" => failures < FailureThreshold
  /\ failed <= failures
  /\ IsInjective(breakerLine)
  /\ Range(breakerLine) = {t \in Callers : caller[t] = "line"}

\* with_retry after a failed attempt leaves the caller idle or asleep.
LEMMA RetryEffect ==
  ASSUME BreakerTypeOK, NEW t \in Callers, Retry(t)
  PROVE  /\ caller' \in [Callers -> {"idle", "line", "func", "sleeping"}]
         /\ caller'[t] \in {"idle", "sleeping"}
         /\ \A s \in Callers \ {t} : caller'[s] = caller[s]
         /\ attempt' \in [Callers -> 0..MaxAttempts - 1]
         /\ asleep' \in [Callers -> 0..Delay]
<1> USE DEF BreakerTypeOK
<1>1. MaxAttempts \in Nat \ {0} /\ Delay \in Nat
  BY BreakerAssumption
<1>2. CASE /\ caller' = [caller EXCEPT ![t] = "idle"]
           /\ attempt' = [attempt EXCEPT ![t] = 0]
           /\ UNCHANGED asleep
  BY <1>1, <1>2
<1>3. CASE /\ attempt[t] < MaxAttempts - 1
           /\ caller' = [caller EXCEPT ![t] = "sleeping"]
           /\ attempt' = [attempt EXCEPT ![t] = @ + 1]
           /\ \E d \in 0..Delay : asleep' = [asleep EXCEPT ![t] = d]
  <2>1. attempt[t] + 1 \in 0..MaxAttempts - 1
    BY <1>1, <1>3
  <2> QED BY <1>3, <2>1
<1> QED BY <1>2, <1>3 DEF Retry

\* A failure is counted up to the threshold, at which the breaker opens.
LEMMA CountFailureEffect ==
  ASSUME BreakerTypeOK, NEW s \in {"closed", "open", "half-open"}, NEW age \in Ages,
         CountFailure(s, age)
  PROVE  /\ breaker' \in {"closed", "open", "half-open"}
         /\ failures' \in 0..FailureThreshold /\ failures <= failures'
         /\ failures < FailureThreshold => failures' = failures + 1
         /\ sinceFailure' \in Ages
         /\ breaker' = "closed" => s = "closed" /\ failures' < FailureThreshold
BY BreakerAssumption DEF BreakerTypeOK, CountFailure

\* A call that has the lock is refused, is a trial that fails, or runs func; what
\* the caller was before makes no difference, as long as nobody runs func.
LEMMA LockedEffect ==
  ASSUME BreakerInv, NEW t \in Callers, InFunc = {}, Locked(t)
  PROVE  /\ caller' \in [Callers -> {"idle", "line", "func", "sleeping"}]
         /\ caller'[t] # "line"
         /\ \A s \in Callers \ {t} : caller'[s] = caller[s]
         /\ attempt' \in [Callers -> 0..MaxAttempts - 1]
         /\ asleep' \in [Callers -> 0..Delay]
         /\ breaker' \in {"closed", "open", "half-open"}
         /\ failures' \in 0..FailureThreshold /\ failures <= failures'
         /\ sinceFailure' \in Ages /\ elapsed' \in Ages /\ failed' = failed
         /\ breaker' = "closed" => failures' < FailureThreshold
         /\ breaker' # "closed" => caller'[t] # "func"
<1>1. BreakerTypeOK /\ FailureThreshold \in Nat /\ 0 \in Ages
  BY BreakerAssumption DEF BreakerInv, Ages
<1>2. CASE Refuse(t)
  <2>1. /\ breaker = "open" /\ Retry(t)
        /\ UNCHANGED <<breaker, failures, sinceFailure, elapsed, failed>>
    BY <1>2 DEF Refuse
  <2>2. /\ caller' \in [Callers -> {"idle", "line", "func", "sleeping"}]
        /\ caller'[t] \in {"idle", "sleeping"}
        /\ \A s \in Callers \ {t} : caller'[s] = caller[s]
        /\ attempt' \in [Callers -> 0..MaxAttempts - 1]
        /\ asleep' \in [Callers -> 0..Delay]
    BY <1>1, <2>1, RetryEffect
  <2>3. /\ failures \in 0..FailureThreshold /\ failures <= failures
        /\ sinceFailure \in Ages /\ elapsed \in Ages
    BY <1>1 DEF BreakerTypeOK
  <2> QED BY <2>1, <2>2, <2>3
<1>3. CASE Trial(t)
  <2>1. CountFailure("half-open", 0) /\ Retry(t) /\ elapsed' = elapsed /\ failed' = failed
    BY <1>3 DEF Trial
  <2>2. /\ breaker' \in {"closed", "open", "half-open"}
        /\ failures' \in 0..FailureThreshold /\ failures <= failures'
        /\ sinceFailure' \in Ages
        /\ breaker' # "closed"
    BY <1>1, <2>1, CountFailureEffect
  <2> QED BY <1>1, <2>1, <2>2, RetryEffect DEF BreakerTypeOK
<1>4. CASE Begin(t)
  BY <1>1, <1>4 DEF Begin, BreakerInv, BreakerTypeOK
<1> QED BY <1>2, <1>3, <1>4 DEF Locked

\* A breaker starts closed, with nobody in line.
LEMMA BreakerInitially == BreakerInit => BreakerInv
<1> SUFFICES ASSUME BreakerInit PROVE BreakerInv
  OBVIOUS
<1>1. BreakerTypeOK
  BY BreakerAssumption, EmptySeq DEF BreakerInit, BreakerTypeOK, Ages
<1>2. InFunc = {} /\ {t \in Callers : caller[t] = "line"} = {}
  BY DEF BreakerInit, InFunc
<1> QED BY <1>1, <1>2, EmptyRange, BreakerAssumption DEF BreakerInit, BreakerInv

\* asyncio.Lock: a call goes on at once only if nobody runs func and nobody waits.
LEMMA CallKeeps ==
  ASSUME BreakerInv, NEW t \in Callers, Call(t)
  PROVE  BreakerInv'
<1> USE DEF BreakerInv
<1>1. /\ caller[t] \in {"idle", "sleeping"} /\ t \notin Range(breakerLine)
      /\ breakerLine \in Seq(Callers) /\ caller \in [Callers -> {"idle", "line", "func", "sleeping"}]
  BY DEF Call, BreakerTypeOK
<1>2. CASE InFunc = {} /\ breakerLine = <<>> /\ Locked(t) /\ UNCHANGED breakerLine
  <2>1. BreakerTypeOK' /\ failed' <= failures'
    BY <1>2, LockedEffect, SMTT(30) DEF BreakerTypeOK, Ages
  <2>2. /\ InFunc' \subseteq {t} /\ (breaker' # "closed" => InFunc' = {})
        /\ {s \in Callers : caller'[s] = "line"} = {s \in Callers : caller[s] = "line"}
    BY <1>1, <1>2, LockedEffect DEF InFunc
  <2> QED BY <1>2, <2>1, <2>2, LockedEffect
<1>3. CASE /\ breakerLine' = Append(breakerLine, t)
           /\ caller' = [caller EXCEPT ![t] = "line"]
           /\ UNCHANGED <<breaker, failures, sinceFailure, elapsed, attempt, asleep, failed>>
  <2>1. /\ breakerLine' \in Seq(Callers) /\ IsInjective(breakerLine')
        /\ Range(breakerLine') = Range(breakerLine) \cup {t}
    BY <1>1, <1>3, AppendRange
  <2>2. BreakerTypeOK'
    BY <1>3, <2>1 DEF BreakerTypeOK
  <2>3. /\ InFunc' = InFunc
        /\ {s \in Callers : caller'[s] = "line"} = {s \in Callers : caller[s] = "line"} \cup {t}
    BY <1>1, <1>3 DEF InFunc
  <2> QED BY <1>3, <2>1, <2>2, <2>3
<1> QED BY <1>2, <1>3 DEF Call, Acquire

\* A caller that waited for the lock has it.
LEMMA CallGrantedKeeps ==
  ASSUME BreakerInv, CallGranted
  PROVE  BreakerInv'
<1> USE DEF BreakerInv
<1> DEFINE t == Head(breakerLine)
<1>1. /\ InFunc = {} /\ breakerLine # <<>> /\ breakerLine \in Seq(Callers)
      /\ Locked(t) /\ breakerLine' = Tail(breakerLine)
  BY DEF CallGranted, BreakerTypeOK
<1>2. /\ t \in Callers /\ breakerLine' \in Seq(Callers) /\ IsInjective(breakerLine')
      /\ Range(breakerLine) = {t} \cup Range(breakerLine') /\ t \notin Range(breakerLine')
  BY <1>1, TailRange
<1> HIDE DEF t
<1>3. BreakerTypeOK' /\ failed' <= failures'
  <2>1. /\ caller' \in [Callers -> {"idle", "line", "func", "sleeping"}]
        /\ attempt' \in [Callers -> 0..MaxAttempts - 1] /\ asleep' \in [Callers -> 0..Delay]
        /\ breaker' \in {"closed", "open", "half-open"}
        /\ failures' \in 0..FailureThreshold /\ failures <= failures'
        /\ sinceFailure' \in Ages /\ elapsed' \in Ages /\ failed' = failed
    BY <1>1, <1>2, LockedEffect
  <2>2. failed' <= failures' /\ failed' \in Nat
    BY <2>1, BreakerAssumption DEF BreakerTypeOK
  <2> QED BY <1>2, <2>1, <2>2 DEF BreakerTypeOK
<1>4. /\ InFunc' \subseteq {t} /\ (breaker' # "closed" => InFunc' = {})
      /\ {s \in Callers : caller'[s] = "line"} = {s \in Callers : caller[s] = "line"} \ {t}
  BY <1>1, <1>2, LockedEffect DEF InFunc
<1> QED BY <1>1, <1>2, <1>3, <1>4, LockedEffect

\* The end of a run of func, which is the only one.
LEMMA RunEndsKeeps ==
  ASSUME BreakerInv, NEW t \in Callers, Succeed(t) \/ Fail(t)
  PROVE  BreakerInv'
<1> USE DEF BreakerInv
<1>1. /\ InFunc = {t} /\ breaker = "closed" /\ failures < FailureThreshold
      /\ caller \in [Callers -> {"idle", "line", "func", "sleeping"}] /\ caller[t] = "func"
  BY DEF Succeed, Fail, InFunc, BreakerTypeOK
<1>2. CASE Succeed(t)
  <2>1. BreakerTypeOK' /\ UNCHANGED <<breaker, failures, failed, breakerLine>>
    BY <1>1, <1>2, BreakerAssumption DEF Succeed, BreakerTypeOK
  <2>2. /\ InFunc' = {}
        /\ {s \in Callers : caller'[s] = "line"} = {s \in Callers : caller[s] = "line"}
    BY <1>1, <1>2 DEF Succeed, InFunc
  <2> QED BY <1>1, <2>1, <2>2
<1>3. CASE Fail(t)
  <2>1. /\ CountFailure(breaker, elapsed) /\ Retry(t) /\ failed' = failed + 1
        /\ UNCHANGED <<elapsed, breakerLine>>
    BY <1>3 DEF Fail
  <2>2. /\ breaker' \in {"closed", "open", "half-open"}
        /\ failures' \in 0..FailureThreshold
        /\ failures' = failures + 1 /\ sinceFailure' \in Ages
        /\ breaker' = "closed" => failures' < FailureThreshold
    BY <1>1, <2>1, CountFailureEffect DEF BreakerTypeOK
  <2>3. BreakerTypeOK' /\ failed' <= failures'
    BY <2>1, <2>2, RetryEffect DEF BreakerTypeOK
  <2>4. /\ InFunc' = {}
        /\ {s \in Callers : caller'[s] = "line"} = {s \in Callers : caller[s] = "line"}
    BY <1>1, <2>1, RetryEffect DEF InFunc
  <2> QED BY <2>1, <2>2, <2>3, <2>4
<1> QED BY <1>2, <1>3

\* A caller is cancelled, in the line or as it runs func.
LEMMA CancelCallKeeps ==
  ASSUME BreakerInv, NEW t \in Callers, CancelCall(t)
  PROVE  BreakerInv'
<1> USE DEF BreakerInv
<1>1. /\ breakerLine \in Seq(Callers) /\ breakerLine' = RemoveFirst(breakerLine, t)
      /\ caller \in [Callers -> {"idle", "line", "func", "sleeping"}]
      /\ caller' = [caller EXCEPT ![t] = "idle"]
      /\ UNCHANGED <<breaker, failures, sinceFailure, elapsed, asleep, failed>>
  BY DEF CancelCall, BreakerTypeOK
<1>2. /\ breakerLine' \in Seq(Callers) /\ IsInjective(breakerLine')
      /\ Range(breakerLine') = Range(breakerLine) \ {t}
  BY <1>1, RemoveFirstRange
<1>3. BreakerTypeOK'
  BY <1>1, <1>2, BreakerAssumption DEF BreakerTypeOK, CancelCall
<1>4. /\ InFunc' = InFunc \ {t}
      /\ {s \in Callers : caller'[s] = "line"} = {s \in Callers : caller[s] = "line"} \ {t}
  BY <1>1 DEF InFunc
<1> QED BY <1>1, <1>2, <1>3, <1>4

\* Only time passes.
LEMMA BreakerTickKeeps ==
  ASSUME BreakerInv, BreakerTick
  PROVE  BreakerInv'
<1>1. UNCHANGED <<breaker, failures, breakerLine, caller, attempt, failed>>
  BY DEF BreakerTick
<1>2. sinceFailure' \in Ages /\ elapsed' \in Ages /\ asleep' \in [Callers -> 0..Delay]
  BY BreakerAssumption DEF BreakerInv, BreakerTypeOK, BreakerTick, Older, Ages
<1>3. BreakerTypeOK'
  BY <1>1, <1>2 DEF BreakerInv, BreakerTypeOK
<1>4. InFunc' = InFunc
  BY <1>1 DEF InFunc
<1> QED BY <1>1, <1>3, <1>4 DEF BreakerInv

\* BreakerInv is inductive.
LEMMA BreakerStep ==
  ASSUME BreakerInv, [BreakerNext]_breakerVars
  PROVE  BreakerInv'
<1>1. CASE UNCHANGED breakerVars
  BY <1>1 DEF breakerVars, BreakerInv, BreakerTypeOK, InFunc
<1>2. CASE BreakerNext
  BY <1>2, CallKeeps, CallGrantedKeeps, RunEndsKeeps, CancelCallKeeps, BreakerTickKeeps
     DEF BreakerNext
<1> QED BY <1>1, <1>2

\* For any callers, thresholds, delays and retries: see Trips.
THEOREM BreakerTrips == BreakerSpec => []Trips
<1>1. BreakerInv => Trips
  <2> SUFFICES ASSUME BreakerInv PROVE Trips
    OBVIOUS
  <2>1. failures <= FailureThreshold /\ failures \in Nat /\ FailureThreshold \in Nat /\ failed \in Nat
    BY BreakerAssumption DEF BreakerInv, BreakerTypeOK
  <2> QED BY <2>1 DEF BreakerInv, Trips
<1> QED BY <1>1, BreakerInitially, BreakerStep, PTL DEF BreakerSpec

-----------------------------------------------------------------------------
(* The rate limiters. *)

\* What RateHeld says of the ticks `from' to `to'.
Held(from, to) ==
  /\ limiter = "bucket" \/ (limiter = "decorator" /\ refused \cap (from..to) = {})
       => Granted(from, to) <= Burst * Unit + Rate * (to - from)
  /\ limiter = "windowed" /\ to - from = Window - 1
       => \/ Granted(from, to) <= Limit * Unit
          \/ \E t \in Window..to : /\ t >= from /\ Granted(t, t) > 0
                                   /\ Granted(t - Window, t - Window) > 0

\* Since `from' a bucket was full at most, and what it has is what was worth the
\* time up to its last update and has not been granted.
BucketAccounts(from) ==
  limiter = "bucket" \/ (limiter = "decorator" /\ refused \cap (from..now) = {}) =>
    IF from <= lastUpdate
    THEN total - before[from] + tokens <= Burst * Unit + Rate * (lastUpdate - from)
    ELSE total = before[from]

\* The requests since `from' are the last timestamps, when `from' is in the window.
WindowCounts(from) ==
  limiter = "windowed" /\ now - from <= Window =>
    \E k \in 0..Len(timestamps) :
      /\ total - before[from] = Unit * (Len(timestamps) - k)
      /\ \A i \in 1..Len(timestamps) : timestamps[i] >= from <=> i > k

\* No window that has begun is over-full, unless one of its requests was granted
\* at the moment another left.
WindowHolds(from) ==
  limiter = "windowed" /\ now - from < Window =>
    \/ total - before[from] <= Limit * Unit
    \/ \E t \in Window..now : /\ t >= from /\ Granted(t, t) > 0
                              /\ Granted(t - Window, t - Window) > 0

\* What makes RateHeld inductive: RateHeld for the ticks that are past, and for
\* those that may still be part of an interval what the limiter's state says.
LimiterInv ==
  /\ LimiterTypeOK
  /\ lastUpdate <= now
  /\ \A i \in 1..Len(timestamps) : timestamps[i] <= now
  /\ \A from \in 0..now : BucketAccounts(from) /\ WindowCounts(from) /\ WindowHolds(from)
  /\ \A to \in 0..now - 1 : \A from \in 0..to : Held(from, to)

\* Products with a constant.
LEMMA Distribute ==
  ASSUME NEW r \in Int, NEW a \in Int, NEW b \in Int, NEW c \in Int
  PROVE  /\ r * (a - b) + r * (b - c) = r * (a - c)
         /\ (a - b) * r = r * (a - b)
         /\ r * a \in Int /\ r * (a - b) \in Int
         /\ r * (a - b) + r = r * ((a - c + 1) - (b - c))
         /\ r * (a - b) = r * ((a - c) - (b - c))
OBVIOUS

\* Products of naturals are naturals.
LEMMA ProductOfNats ==
  ASSUME NEW r \in Nat, NEW a \in Nat
  PROVE  r * a \in Nat /\ (r > 0 /\ a > 0 => r * a > 0)
         /\ \A b \in Nat : b <= a => b * r <= a * r /\ r * b <= r * a /\ r * a = a * r
OBVIOUS

\* What the constants are.
LEMMA LimiterConstants ==
  /\ Unit \in Nat \ {0} /\ Rate \in Nat \ {0} /\ Burst \in Nat \ {0}
  /\ Limit \in Nat \ {0} /\ Window \in Nat \ {0} /\ MaxTime \in Nat
  /\ Burst * Unit \in Nat /\ Limit * Unit \in Nat
<1>1. /\ Unit \in Nat \ {0} /\ Rate \in Nat \ {0} /\ Burst \in Nat \ {0}
      /\ Limit \in Nat \ {0} /\ Window \in Nat \ {0} /\ MaxTime \in Nat
  BY LimiterAssumption
<1>2. Burst * Unit \in Nat /\ Limit * Unit \in Nat
  BY <1>1, ProductOfNats
<1> QED BY <1>1, <1>2

\* update() adds what the time is worth, up to the burst.
LEMMA RefilledBounds ==
  ASSUME LimiterInv
  PROVE  /\ Refilled \in 0..Burst * Unit
         /\ Refilled <= tokens + Rate * (now - lastUpdate)
<1> DEFINE b == Burst * Unit
           g == Rate * (now - lastUpdate)
<1>1. /\ now \in Nat /\ lastUpdate \in Nat /\ now - lastUpdate \in Nat
      /\ tokens \in 0..b /\ b \in Nat
  BY LimiterConstants DEF LimiterInv, LimiterTypeOK, Times
<1>2. g \in Nat /\ (now - lastUpdate) * Rate = g
  BY <1>1, LimiterConstants, ProductOfNats
<1>3. Refilled = Least(b, tokens + g)
  BY <1>2 DEF Refilled
<1> HIDE DEF b, g
<1>4. Least(b, tokens + g) \in 0..b /\ Least(b, tokens + g) <= tokens + g
  BY <1>1, <1>2 DEF Least
<1> QED BY <1>3, <1>4 DEF b, g

\* What is past stays as it is while the clock stands.
LEMMA PastKeeps ==
  ASSUME LimiterInv, UNCHANGED <<limiter, now, before>>,
         refused' \in {refused, refused \cup {now}}
  PROVE  \A to \in 0..now' - 1 : \A from \in 0..to : Held(from, to)'
<1> SUFFICES ASSUME NEW to \in 0..now - 1, NEW from \in 0..to PROVE Held(from, to)'
  OBVIOUS
<1>1. now \in Nat /\ Held(from, to)
  BY DEF LimiterInv, LimiterTypeOK, Times
<1>2. \A f \in 0..now, t \in 0..now - 1 : Granted(f, t)' = Granted(f, t)
  BY <1>1 DEF Granted
<1>3. refused' \cap (from..to) = refused \cap (from..to)
  BY <1>1
<1>4. limiter' = "bucket" \/ (limiter' = "decorator" /\ refused' \cap (from..to) = {})
        => Granted(from, to)' <= Burst * Unit + Rate * (to - from)
  BY <1>1, <1>2, <1>3 DEF Held
<1>5. limiter' = "windowed" /\ to - from = Window - 1
        => \/ Granted(from, to)' <= Limit * Unit
           \/ \E t \in Window..to : /\ t >= from /\ Granted(t, t)' > 0
                                    /\ Granted(t - Window, t - Window)' > 0
  <2> SUFFICES ASSUME limiter = "windowed", to - from = Window - 1
               PROVE  \/ Granted(from, to)' <= Limit * Unit
                      \/ \E t \in Window..to : /\ t >= from /\ Granted(t, t)' > 0
                                               /\ Granted(t - Window, t - Window)' > 0
    OBVIOUS
  <2>1. CASE Granted(from, to) <= Limit * Unit
    BY <1>1, <1>2, <2>1
  <2>2. CASE \E t \in Window..to : /\ t >= from /\ Granted(t, t) > 0
                                   /\ Granted(t - Window, t - Window) > 0
    <3>1. PICK t \in Window..to : /\ t >= from /\ Granted(t, t) > 0
                                  /\ Granted(t - Window, t - Window) > 0
      BY <2>2
    <3>2. t \in 0..now - 1 /\ t - Window \in 0..now - 1 /\ t \in 0..now /\ t - Window \in 0..now
      BY <1>1, LimiterConstants
    <3> QED BY <1>2, <3>1, <3>2
  <2> QED BY <1>1, <2>1, <2>2 DEF Held
<1> QED BY <1>4, <1>5 DEF Held

\* A bucket that grants `parts' of its tokens, or is only updated.
LEMMA BucketPays ==
  ASSUME LimiterInv, NEW from \in 0..now, NEW parts \in Nat, parts <= Refilled,
         BucketAccounts(from), now' = now, before' = before, limiter' = limiter, refused \subseteq refused',
         tokens' = Refilled - parts, total' = total + parts, lastUpdate' = now
  PROVE  BucketAccounts(from)'
<1> SUFFICES ASSUME limiter' = "bucket" \/ (limiter' = "decorator" /\ refused' \cap (from..now') = {})
             PROVE  total' - before'[from] + tokens' <= Burst * Unit + Rate * (lastUpdate' - from)
  BY DEF BucketAccounts, LimiterInv, LimiterTypeOK, Times
<1> DEFINE b == Burst * Unit
           g == Rate * (now - lastUpdate)
           h == Rate * (lastUpdate - from)
           k == Rate * (now - from)
<1>1. /\ now \in Nat /\ lastUpdate \in Nat /\ from \in Nat /\ now - from \in Nat
      /\ total \in Nat /\ before[from] \in Nat /\ tokens \in 0..b /\ b \in Nat /\ Rate \in Nat
  BY LimiterConstants DEF LimiterInv, LimiterTypeOK, Times
<1>2. g + h = k /\ g \in Int /\ h \in Int /\ k \in Nat
  BY <1>1, Distribute, ProductOfNats
<1>3. Refilled \in 0..b /\ Refilled <= tokens + g
  BY RefilledBounds
<1>4. IF from <= lastUpdate THEN total - before[from] + tokens <= b + h ELSE total = before[from]
  BY DEF BucketAccounts
<1> HIDE DEF b, g, h, k
<1>5. (total + parts) - before[from] + (Refilled - parts) <= b + k
  BY <1>1, <1>2, <1>3, <1>4
<1> QED BY <1>5 DEF b, k

\* A bucket grants what it can pay for, or refuses.
LEMMA BucketKeeps ==
  ASSUME LimiterInv, limiter \in {"bucket", "decorator"}, NEW parts \in Nat,
         UNCHANGED <<limiter, now, timestamps, before>>,
         \/ /\ Refilled >= parts /\ tokens' = Refilled - parts /\ lastUpdate' = now
            /\ Grant(parts)
         \/ /\ tokens' = Refilled /\ Refusal
            /\ lastUpdate' = now \/ (limiter = "decorator" /\ UNCHANGED lastUpdate)
  PROVE  LimiterInv'
<1>1. /\ now \in Times /\ now \in Nat /\ lastUpdate \in Times /\ total \in Nat /\ tokens \in 0..Burst * Unit
      /\ lastUpdate <= now /\ now \in 0..now /\ Burst * Unit \in Nat
      /\ Refilled \in 0..Burst * Unit
  BY LimiterConstants, RefilledBounds DEF LimiterInv, LimiterTypeOK, Times
<1>2. refused' \in {refused, refused \cup {now}} /\ total' \in Nat
  BY <1>1 DEF Grant, Refusal
<1>3. \A to \in 0..now' - 1 : \A from \in 0..to : Held(from, to)'
  BY <1>2, PastKeeps
<1>4. LimiterTypeOK' /\ lastUpdate' <= now'
  <2>1. tokens' \in 0..Burst * Unit /\ lastUpdate' \in Times /\ lastUpdate' <= now'
    BY <1>1
  <2> QED BY <1>2, <2>1 DEF LimiterInv, LimiterTypeOK
<1>5. ASSUME NEW from \in 0..now PROVE BucketAccounts(from)'
  <2>0. BucketAccounts(from) /\ from \in Nat
    BY DEF LimiterInv
  <2>1. CASE Refilled >= parts /\ tokens' = Refilled - parts /\ lastUpdate' = now /\ Grant(parts)
    BY <1>1, <2>0, <2>1, BucketPays DEF Grant
  <2>2. CASE tokens' = Refilled /\ lastUpdate' = now /\ Refusal
    <3>1. tokens' = Refilled - 0 /\ total' = total + 0 /\ 0 <= Refilled /\ refused \subseteq refused'
      BY <1>1, <2>2 DEF Refusal
    <3> QED BY <2>0, <2>2, <3>1, BucketPays
  <2>3. CASE Refusal /\ limiter = "decorator"
    <3>1. now' \in refused' \cap (from..now')
      BY <1>1, <2>0, <2>3 DEF Refusal
    <3> QED BY <2>3, <3>1 DEF BucketAccounts
  <2> QED BY <2>1, <2>2, <2>3
<1>6. \A from \in 0..now : WindowCounts(from)' /\ WindowHolds(from)'
  BY DEF WindowCounts, WindowHolds
<1> QED BY <1>3, <1>4, <1>5, <1>6 DEF LimiterInv

\* What an acquire() of a WindowedRateLimiter pops is not in the window.
LEMMA RecentIsSuffix ==
  ASSUME LimiterInv, limiter = "windowed"
  PROVE  /\ Recent \in Seq(Times)
         /\ \E k \in 0..Len(timestamps) :
              /\ Len(Recent) = Len(timestamps) - k
              /\ \A j \in 1..Len(timestamps) - k : Recent[j] = timestamps[k + j]
              /\ \A i \in 1..Len(timestamps) : timestamps[i] >= now - Window <=> i > k
<1> DEFINE n == Len(timestamps)
           kept == {i \in 1..n : timestamps[i] >= now - Window}
<1>1. /\ timestamps \in Seq(Times) /\ n \in Nat /\ now \in Nat /\ now \in Times /\ now \in 0..now
      /\ \A i \in 1..n : timestamps[i] \in Times /\ timestamps[i] \in Nat
  <2>1. timestamps \in Seq(Times) /\ now \in Times
    BY DEF LimiterInv, LimiterTypeOK
  <2>2. n \in Nat /\ \A i \in 1..n : timestamps[i] \in Times
    BY <2>1, LenProperties, ElementOfSeq
  <2> HIDE DEF n
  <2> QED BY <2>1, <2>2, LimiterConstants DEF Times
<1>2. PICK k \in 0..n : \A i \in 1..n : timestamps[i] >= now - Window <=> i > k
  <2>1. CASE now - Window < 0
    <3>1. \A i \in 1..n : timestamps[i] >= now - Window /\ i > 0
      BY <1>1, <2>1, LimiterConstants
    <3> QED BY <1>1, <3>1
  <2>2. CASE now - Window >= 0
    <3>1. now - Window \in 0..now /\ now - (now - Window) <= Window
      BY <1>1, <2>2, LimiterConstants
    <3>2. WindowCounts(now - Window)
      BY <3>1 DEF LimiterInv
    <3> QED BY <3>1, <3>2 DEF WindowCounts
  <2>3. now - Window \in Int
    BY <1>1, LimiterConstants
  <2> QED BY <2>1, <2>2, <2>3
<1>3. \A i \in 1..n : i \in kept <=> i > k
  BY <1>2
<1>4. CASE k = n
  <2>1. kept = {}
    BY <1>1, <1>3, <1>4
  <2>2. Recent = <<>>
    BY <2>1 DEF Recent
  <2>3. Len(Recent) = 0 /\ Recent \in Seq(Times)
    BY <2>2, EmptySeq
  <2> QED BY <1>1, <1>2, <1>4, <2>3
<1>5. CASE k # n
  <2>1. k + 1 \in kept /\ \A i \in kept : k + 1 <= i
    BY <1>1, <1>3, <1>5
  <2>2. Min(kept) = k + 1
    <3>1. \A i \in kept : i \in Int
      OBVIOUS
    <3> HIDE DEF kept
    <3> QED BY <2>1, <3>1 DEF Min
  <2>3. Recent = SubSeq(timestamps, k + 1, n)
    BY <2>1, <2>2 DEF Recent
  <2>4. \A i \in k + 1..n : timestamps[i] \in Times
    BY <1>1
  <2>5. /\ SubSeq(timestamps, k + 1, n) \in Seq(Times)
        /\ Len(SubSeq(timestamps, k + 1, n)) = IF k + 1 <= n THEN n - (k + 1) + 1 ELSE 0
        /\ \A j \in 1..n - (k + 1) + 1 : SubSeq(timestamps, k + 1, n)[j] = timestamps[(k + 1) + j - 1]
    BY <1>1, <2>4, SubSeqProperties
  <2>6. n - (k + 1) + 1 = n - k /\ k + 1 <= n /\ \A j \in 1..n - k : (k + 1) + j - 1 = k + j
    BY <1>1, <1>5
  <2> QED BY <1>2, <2>3, <2>5, <2>6
<1> QED BY <1>4, <1>5

\* Popping keeps the counts of what is in the window.
LEMMA RecentCounts ==
  ASSUME LimiterInv, limiter = "windowed", NEW from \in 0..now, now - from <= Window
  PROVE  \E k \in 0..Len(Recent) :
           /\ total - before[from] = Unit * (Len(Recent) - k)
           /\ \A i \in 1..Len(Recent) : Recent[i] >= from <=> i > k
<1> DEFINE n == Len(timestamps)
<1>1. /\ timestamps \in Seq(Times) /\ n \in Nat /\ now \in Nat /\ from \in Nat
      /\ \A i \in 1..n : timestamps[i] \in Nat
  <2>1. timestamps \in Seq(Times) /\ now \in Times
    BY DEF LimiterInv, LimiterTypeOK
  <2>2. n \in Nat /\ \A i \in 1..n : timestamps[i] \in Times
    BY <2>1, LenProperties, ElementOfSeq
  <2> HIDE DEF n
  <2> QED BY <2>1, <2>2, LimiterConstants DEF Times
<1>2. PICK k0 \in 0..n : /\ Len(Recent) = n - k0
                         /\ \A j \in 1..n - k0 : Recent[j] = timestamps[k0 + j]
                         /\ \A i \in 1..n : timestamps[i] >= now - Window <=> i > k0
  BY RecentIsSuffix
<1>3. PICK k \in 0..n : /\ total - before[from] = Unit * (n - k)
                        /\ \A i \in 1..n : timestamps[i] >= from <=> i > k
  BY DEF LimiterInv, WindowCounts
<1>4. k0 <= k
  <2> SUFFICES ASSUME k < k0 PROVE FALSE
    BY <1>1
  <2>1. k0 \in 1..n /\ k0 > k /\ ~(k0 > k0)
    BY <1>1
  <2>2. timestamps[k0] >= from /\ timestamps[k0] \in Nat
    BY <1>1, <1>3, <2>1
  <2>3. timestamps[k0] >= now - Window
    BY <1>1, <2>2, LimiterConstants
  <2> QED BY <1>2, <2>1, <2>3
<1>5. k - k0 \in 0..n - k0 /\ n - k = (n - k0) - (k - k0)
  BY <1>1, <1>4
<1>6. \A i \in 1..n - k0 : Recent[i] >= from <=> i > k - k0
  <2> TAKE i \in 1..n - k0
  <2>1. k0 + i \in 1..n /\ (k0 + i > k <=> i > k - k0)
    BY <1>1
  <2> QED BY <1>2, <1>3, <2>1
<1> QED BY <1>2, <1>3, <1>5, <1>6

\* The requests granted in the window that ends now, as timestamps.
LEMMA WindowedKeeps ==
  ASSUME LimiterInv, AcquireWindowed
  PROVE  LimiterInv'
<1> DEFINE n == Len(Recent)
<1>1. /\ limiter = "windowed" /\ UNCHANGED <<limiter, now, tokens, lastUpdate, before>>
      /\ now \in Times /\ now \in Nat /\ total \in Nat /\ now \in 0..now
      /\ before \in [Times -> Nat] /\ lastUpdate <= now
      /\ \A f \in 0..now : f \in Times /\ f \in Nat
  <2>1. limiter = "windowed" /\ UNCHANGED <<limiter, now, tokens, lastUpdate, before>>
    BY DEF AcquireWindowed
  <2>2. now \in Times /\ total \in Nat /\ before \in [Times -> Nat] /\ lastUpdate <= now
    BY DEF LimiterInv, LimiterTypeOK
  <2>3. now \in Nat /\ now \in 0..now /\ \A f \in 0..now : f \in Times /\ f \in Nat
    BY <2>2, LimiterConstants DEF Times
  <2> QED BY <2>1, <2>2, <2>3
<1>2. /\ Recent \in Seq(Times) /\ n \in Nat
      /\ \A i \in 1..n : Recent[i] \in Times /\ Recent[i] \in Nat /\ Recent[i] <= now
      /\ n > 0 => 1 \in 1..n /\ Recent[1] >= now - Window
  <2>1. Recent \in Seq(Times)
    BY <1>1, RecentIsSuffix
  <2>2. n \in Nat /\ \A i \in 1..n : Recent[i] \in Times /\ Recent[i] \in Nat
    <3>1. n \in Nat
      BY <2>1, LenProperties
    <3>2. \A i \in 1..n : Recent[i] \in Times
      BY <2>1, ElementOfSeq
    <3> QED BY <3>1, <3>2, LimiterConstants DEF Times
  <2>3. PICK k \in 0..Len(timestamps) :
              /\ n = Len(timestamps) - k
              /\ \A j \in 1..Len(timestamps) - k : Recent[j] = timestamps[k + j]
              /\ \A i \in 1..Len(timestamps) : timestamps[i] >= now - Window <=> i > k
    BY <1>1, RecentIsSuffix
  <2>4. Len(timestamps) \in Nat
    BY LenProperties DEF LimiterInv, LimiterTypeOK
  <2>5. \A j \in 1..n : k + j \in 1..Len(timestamps) /\ Recent[j] = timestamps[k + j] /\ k + j > k
    BY <2>3, <2>4
  <2>6. \A i \in 1..Len(timestamps) : timestamps[i] <= now
    BY DEF LimiterInv
  <2>7. \A j \in 1..n : Recent[j] <= now /\ Recent[j] >= now - Window
    BY <2>3, <2>5, <2>6
  <2> QED BY <2>1, <2>2, <2>7
<1>3. \A from \in 0..now : BucketAccounts(from)'
  BY <1>1 DEF BucketAccounts
<1>4. CASE timestamps' = Recent /\ Refusal
  <2>1. refused' = refused \cup {now} /\ total' = total
    BY <1>4 DEF Refusal
  <2>2. LimiterTypeOK' /\ lastUpdate' <= now'
    BY <1>1, <1>2, <1>4, <2>1 DEF LimiterInv, LimiterTypeOK
  <2>3. ASSUME NEW from \in 0..now PROVE WindowCounts(from)'
    BY <1>1, <1>4, <2>1, RecentCounts DEF WindowCounts
  <2>4. ASSUME NEW from \in 0..now PROVE WindowHolds(from)'
    <3>1. \A f, t \in 0..now : Granted(f, t)' = Granted(f, t)
      BY <1>1, <2>1 DEF Granted
    <3>2. WindowHolds(from)
      BY DEF LimiterInv
    <3>3. \A t \in Window..now : t \in 0..now /\ t - Window \in 0..now
      BY <1>1, LimiterConstants
    <3> QED BY <1>1, <2>1, <3>1, <3>2, <3>3 DEF WindowHolds
  <2>5. \A to \in 0..now' - 1 : \A from \in 0..to : Held(from, to)'
    BY <1>1, <2>1, PastKeeps
  <2> QED BY <1>1, <1>2, <1>3, <1>4, <2>2, <2>3, <2>4, <2>5 DEF LimiterInv
<1>5. CASE /\ ~(n >= Limit /\ Recent[1] + Window - now > 0)
           /\ timestamps' = Append(Recent, now) /\ Grant(Unit)
  <2>1. refused' = refused /\ total' = total + Unit /\ Unit \in Nat \ {0}
    BY <1>5, LimiterConstants DEF Grant
  <2>2. /\ timestamps' \in Seq(Times) /\ Len(timestamps') = n + 1
        /\ \A i \in 1..n : timestamps'[i] = Recent[i]
        /\ timestamps'[n + 1] = now
    BY <1>1, <1>2, <1>5, AppendProperties
  <2>3. LimiterTypeOK' /\ lastUpdate' <= now'
    <3>1. total' \in Nat
      BY <1>1, <2>1
    <3> QED BY <1>1, <2>1, <2>2, <3>1 DEF LimiterInv, LimiterTypeOK
  <2>4. \A i \in 1..Len(timestamps') : timestamps'[i] <= now'
    <3>1. now \in Nat /\ now' = now
      BY <1>1
    <3>2. ASSUME NEW i \in 1..n + 1 PROVE timestamps'[i] <= now
      <4>1. CASE i = n + 1
        BY <2>2, <3>1, <4>1
      <4>2. CASE i # n + 1
        <5>1. i \in 1..n
          BY <1>2, <4>2
        <5> QED BY <1>2, <2>2, <5>1
      <4> QED BY <4>1, <4>2
    <3> QED BY <2>2, <3>1, <3>2
  <2>5. ASSUME NEW from \in 0..now PROVE WindowCounts(from)'
    <3> SUFFICES ASSUME now - from <= Window
                 PROVE  \E k \in 0..Len(timestamps') :
                          /\ total' - before[from] = Unit * (Len(timestamps') - k)
                          /\ \A i \in 1..Len(timestamps') : timestamps'[i] >= from <=> i > k
      BY <1>1 DEF WindowCounts
    <3>1. PICK k \in 0..n : /\ total - before[from] = Unit * (n - k)
                            /\ \A i \in 1..n : Recent[i] >= from <=> i > k
      BY <1>1, RecentCounts
    <3>2. Unit * (n - k) + Unit = Unit * ((n + 1) - k)
      BY <1>2, <2>1
    <3>3. total' - before[from] = Unit * ((n + 1) - k)
      <4>1. before[from] \in Nat
        BY <1>1
      <4>2. Unit * (n - k) \in Int
        BY <1>2, <2>1
      <4> DEFINE u == Unit * (n - k)
                 v == Unit * ((n + 1) - k)
      <4>3. u \in Int /\ u + Unit = v /\ total - before[from] = u
        BY <3>1, <3>2, <4>2
      <4> HIDE DEF u, v
      <4> DEFINE w == before[from]
      <4>4. (total + Unit) - w = v
        <5>1. w \in Nat /\ total \in Nat /\ Unit \in Nat /\ total - w = u /\ u + Unit = v
          BY <1>1, <2>1, <4>1, <4>3
        <5> HIDE DEF w
        <5> QED BY <5>1
      <4> QED BY <2>1, <4>4 DEF v
    <3>4. k \in 0..n + 1 /\ \A i \in 1..n + 1 : timestamps'[i] >= from <=> i > k
      <4>1. k \in 0..n + 1 /\ k < n + 1 /\ \A i \in 1..n + 1 : i \in 1..n \/ i = n + 1
        BY <1>2
      <4>2. timestamps'[n + 1] >= from
        BY <1>1, <2>2
      <4> QED BY <1>2, <2>2, <3>1, <4>1, <4>2
    <3> QED BY <2>2, <3>3, <3>4
  <2>6. ASSUME NEW from \in 0..now PROVE WindowHolds(from)'
    <3> SUFFICES ASSUME now - from < Window
                 PROVE  \/ total' - before[from] <= Limit * Unit
                        \/ \E t \in Window..now : /\ t >= from /\ Granted(t, t)' > 0
                                                  /\ Granted(t - Window, t - Window)' > 0
      BY <1>1 DEF WindowHolds
    <3>1. PICK k \in 0..n : /\ total - before[from] = Unit * (n - k)
                            /\ \A i \in 1..n : Recent[i] >= from <=> i > k
      BY <1>1, RecentCounts, LimiterConstants
    <3>2. CASE n < Limit
      <4>1. n - k \in Nat /\ n - k + 1 <= Limit /\ n - k + 1 \in Nat /\ Limit \in Nat
        BY <1>2, <3>2, LimiterConstants
      <4>2. (n - k + 1) * Unit <= Limit * Unit
        BY <2>1, <4>1, ProductOfNats
      <4>3. Unit * (n - k) + Unit = (n - k + 1) * Unit /\ Unit * (n - k) \in Int
        BY <2>1, <4>1
      <4>4. before[from] \in Nat
        BY <1>1
      <4> DEFINE u == Unit * (n - k)
                 v == (n - k + 1) * Unit
                 m == Limit * Unit
      <4>5. u \in Int /\ u + Unit = v /\ v <= m /\ total - before[from] = u /\ m \in Nat
        BY <3>1, <4>2, <4>3, LimiterConstants
      <4> HIDE DEF u, v, m
      <4>6. (total + Unit) - before[from] <= m
        BY <1>1, <2>1, <4>4, <4>5
      <4> QED BY <2>1, <4>6 DEF m
    <3>3. CASE n >= Limit
      <4> DEFINE f == now - Window
      <4>1. n > 0 /\ 1 \in 1..n /\ Recent[1] = f /\ f \in 0..now /\ f + 1 \in 0..now
            /\ now - f <= Window /\ now - (f + 1) <= Window /\ f # now /\ f \in Nat /\ f \in Int
        <5>1. n > 0 /\ 1 \in 1..n
          BY <1>2, <3>3, LimiterConstants
        <5>2. Recent[1] \in Nat /\ Recent[1] >= now - Window /\ Recent[1] <= now
          BY <1>2, <5>1
        <5>3. ~(Recent[1] + Window - now > 0)
          BY <1>5, <3>3
        <5>4. Recent[1] = f /\ f \in Nat
          <6> DEFINE r == Recent[1]
          <6>1. /\ r \in Nat /\ r >= now - Window /\ r <= now /\ ~(r + Window - now > 0)
                /\ now \in Nat /\ Window \in Nat
            BY <1>1, <5>2, <5>3, LimiterConstants
          <6> HIDE DEF r
          <6>2. r = now - Window
            BY <6>1
          <6> QED BY <6>1, <6>2 DEF r
        <5>5. f \in 0..now /\ f + 1 \in 0..now /\ now - f <= Window /\ now - (f + 1) <= Window /\ f # now
          BY <1>1, <5>4, LimiterConstants
        <5> QED BY <5>1, <5>4, <5>5
      <4>2. PICK k1 \in 0..n : /\ total - before[f] = Unit * (n - k1)
                               /\ \A i \in 1..n : Recent[i] >= f <=> i > k1
        BY <1>1, <4>1, RecentCounts
      <4>3. PICK k2 \in 0..n : /\ total - before[f + 1] = Unit * (n - k2)
                               /\ \A i \in 1..n : Recent[i] >= f + 1 <=> i > k2
        BY <1>1, <4>1, RecentCounts
      <4>4. k1 = 0 /\ k2 >= 1
        BY <4>1, <4>2, <4>3
      <4>5. Unit * (n - k1) - Unit * (n - k2) = Unit * (k2 - k1)
        BY <1>2, <2>1
      <4>6. Unit * (k2 - k1) > 0
        BY <2>1, <4>4, ProductOfNats
      <4>7. before[f] \in Nat /\ before[f + 1] \in Nat
        BY <1>1, <4>1
      <4>8. Unit * (n - k1) \in Int /\ Unit * (n - k2) \in Int
        BY <1>2, <2>1
      <4>9. before[f + 1] - before[f] > 0
        <5> DEFINE u == Unit * (n - k1)
                   v == Unit * (n - k2)
                   b0 == before[f]
                   b1 == before[f + 1]
        <5>1. u \in Int /\ v \in Int /\ u - v > 0 /\ b0 \in Nat /\ b1 \in Nat
          BY <4>5, <4>6, <4>7, <4>8
        <5>2. total - b0 = u /\ total - b1 = v
          BY <4>2, <4>3
        <5> HIDE DEF u, v, b0, b1
        <5>3. b1 - b0 > 0
          BY <1>1, <5>1, <5>2
        <5> QED BY <5>3 DEF b0, b1
      <4>11. total' - before[now] > 0
        <5>1. PICK k3 \in 0..n : total - before[now] = Unit * (n - k3)
          BY <1>1, RecentCounts, LimiterConstants
        <5>2. Unit * (n - k3) \in Nat /\ before[now] \in Nat
          BY <1>1, <1>2, <2>1, ProductOfNats
        <5> QED BY <1>1, <2>1, <5>1, <5>2
      <4>12. now \in Window..now /\ now >= from /\ now - Window # now
        BY <1>1, <4>1, LimiterConstants
      <4>13. /\ total' - before'[now] > 0
             /\ before'[(now - Window) + 1] - before'[now - Window] > 0
        BY <1>1, <4>9, <4>11
      <4>14. \E t \in Window..now :
               /\ t >= from
               /\ (IF t = now' THEN total' ELSE before'[t + 1]) - before'[t] > 0
               /\ (IF t - Window = now' THEN total' ELSE before'[(t - Window) + 1])
                    - before'[t - Window] > 0
        <5> HIDE DEF f
        <5> QED BY <1>1, <4>12, <4>13
      <4> QED BY <4>14 DEF Granted
    <3>4. n \in Nat /\ Limit \in Nat
      BY <1>2, LimiterConstants
    <3> QED BY <3>2, <3>3, <3>4
  <2>7. \A to \in 0..now' - 1 : \A from \in 0..to : Held(from, to)'
    BY <1>1, <2>1, PastKeeps
  <2> QED BY <1>1, <1>3, <2>3, <2>4, <2>5, <2>6, <2>7 DEF LimiterInv
<1> QED BY <1>4, <1>5 DEF AcquireWindowed

\* What the state of a limiter says of the intervals that end now.
LEMMA NowHeld ==
  ASSUME LimiterInv, NEW from \in 0..now
  PROVE  Held(from, now)
<1>1. /\ now \in Nat /\ from \in Nat /\ total \in Nat /\ before[from] \in Nat
      /\ tokens \in 0..Burst * Unit /\ lastUpdate \in Nat /\ lastUpdate <= now
      /\ BucketAccounts(from) /\ WindowHolds(from)
  BY LimiterConstants DEF LimiterInv, LimiterTypeOK, Times
<1>2. Granted(from, now) = total - before[from]
  BY DEF Granted
<1>3. ASSUME limiter = "bucket" \/ (limiter = "decorator" /\ refused \cap (from..now) = {})
      PROVE  total - before[from] <= Burst * Unit + Rate * (now - from)
  <2> DEFINE b == Burst * Unit
             h == Rate * (lastUpdate - from)
             g == Rate * (now - lastUpdate)
             k == Rate * (now - from)
             w == before[from]
  <2>1. IF from <= lastUpdate THEN total - w + tokens <= b + h ELSE total = w
    BY <1>1, <1>3 DEF BucketAccounts
  <2>2. g + h = k /\ g \in Nat /\ h \in Int /\ k \in Nat /\ b \in Nat
    <3>1. now - lastUpdate \in Nat /\ now - from \in Nat /\ Rate \in Nat
      BY <1>1, LimiterConstants
    <3> QED BY <1>1, <3>1, Distribute, ProductOfNats, LimiterConstants
  <2>3. w \in Nat /\ tokens \in 0..b
    BY <1>1
  <2> HIDE DEF b, g, h, k, w
  <2>4. total - w <= b + k
    BY <1>1, <2>1, <2>2, <2>3
  <2> QED BY <2>4 DEF b, k, w
<1>4. limiter = "windowed" /\ now - from = Window - 1 => now - from < Window
  BY <1>1, LimiterConstants
<1> QED BY <1>1, <1>2, <1>3, <1>4 DEF Held, WindowHolds

\* A tick ends the intervals that end before it, and begins one.
LEMMA LimiterTickKeeps ==
  ASSUME LimiterInv, LimiterTick
  PROVE  LimiterInv'
<1>1. /\ now < MaxTime /\ now' = now + 1 /\ before' = [before EXCEPT ![now + 1] = total]
      /\ UNCHANGED <<limiter, tokens, lastUpdate, timestamps, total, refused>>
      /\ now \in Nat /\ now' \in Times /\ total \in Nat /\ before \in [Times -> Nat]
      /\ lastUpdate \in Nat /\ lastUpdate <= now /\ refused \subseteq Times
  BY LimiterConstants DEF LimiterTick, LimiterInv, LimiterTypeOK, Times
<1>2. /\ before'[now + 1] = total
      /\ \A f \in 0..now : f \in Times /\ f \in Nat /\ before'[f] = before[f]
  BY <1>1, LimiterConstants DEF Times
<1>3. \A f, t \in 0..now : Granted(f, t)' = Granted(f, t)
  BY <1>1, <1>2 DEF Granted
<1>4. LimiterTypeOK' /\ lastUpdate' <= now'
  BY <1>1 DEF LimiterInv, LimiterTypeOK
<1>5. \A i \in 1..Len(timestamps') : timestamps'[i] <= now'
  <2>1. timestamps \in Seq(Times) /\ \A i \in 1..Len(timestamps) : timestamps[i] <= now
    BY DEF LimiterInv, LimiterTypeOK
  <2>2. \A i \in 1..Len(timestamps) : timestamps[i] \in Nat
    BY <2>1, ElementOfSeq, LimiterConstants DEF Times
  <2> QED BY <1>1, <2>1, <2>2
<1>6. ASSUME NEW from \in 0..now'
      PROVE  BucketAccounts(from)' /\ WindowCounts(from)' /\ WindowHolds(from)'
  <2>1. CASE from = now + 1
    <3>1. BucketAccounts(from)'
      BY <1>1, <1>2, <2>1 DEF BucketAccounts
    <3>2. WindowCounts(from)'
      <4> SUFFICES \E k \in 0..Len(timestamps) :
                     /\ total - before'[from] = Unit * (Len(timestamps) - k)
                     /\ \A i \in 1..Len(timestamps) : timestamps[i] >= from <=> i > k
        BY <1>1 DEF WindowCounts
      <4>1. Len(timestamps) \in Nat /\ timestamps \in Seq(Times)
        BY LenProperties DEF LimiterInv, LimiterTypeOK
      <4>2. \A i \in 1..Len(timestamps) : timestamps[i] \in Nat /\ timestamps[i] <= now
        BY <4>1, ElementOfSeq, LimiterConstants DEF Times, LimiterInv
      <4>3. \A i \in 1..Len(timestamps) : timestamps[i] >= from <=> i > Len(timestamps)
        BY <1>1, <2>1, <4>1, <4>2
      <4>4. total - before'[from] = Unit * (Len(timestamps) - Len(timestamps))
        BY <1>1, <1>2, <2>1, <4>1, LimiterConstants
      <4> QED BY <4>1, <4>3, <4>4
    <3>3. WindowHolds(from)'
      <4>1. total' - before'[from] = 0
        BY <1>1, <1>2, <2>1
      <4> QED BY <4>1, LimiterConstants DEF WindowHolds
    <3> QED BY <3>1, <3>2, <3>3
  <2>2. CASE from # now + 1
    <3>1. from \in 0..now /\ now' - from = (now - from) + 1 /\ before'[from] = before[from]
      BY <1>1, <1>2, <2>2
    <3>2. BucketAccounts(from) /\ WindowCounts(from) /\ WindowHolds(from)
      BY <3>1 DEF LimiterInv
    <3>3. from..now \subseteq from..now'
      BY <1>1, <3>1
    <3>4. BucketAccounts(from)'
      BY <1>1, <3>1, <3>2, <3>3 DEF BucketAccounts
    <3>5. now' - from <= Window => now - from <= Window
      BY <1>1, <3>1, LimiterConstants
    <3>6. WindowCounts(from)'
      BY <1>1, <3>1, <3>2, <3>5 DEF WindowCounts
    <3>7. now' - from < Window => now - from < Window
      BY <1>1, <3>1, LimiterConstants
    <3>8. \A t \in Window..now : t \in 0..now /\ t - Window \in 0..now /\ t \in Window..now'
      BY <1>1, LimiterConstants
    <3>9. WindowHolds(from)'
      BY <1>1, <1>3, <3>1, <3>2, <3>7, <3>8 DEF WindowHolds
    <3> QED BY <3>4, <3>6, <3>9
  <2> QED BY <2>1, <2>2
<1>7. ASSUME NEW to \in 0..now' - 1, NEW from \in 0..to PROVE Held(from, to)'
  <2>1. to \in 0..now /\ from \in 0..now /\ now \in 0..now
    BY <1>1
  <2>2. Held(from, to)
    <3>1. CASE to = now
      <4>1. Held(from, now)
        BY <2>1, NowHeld
      <4> QED BY <3>1, <4>1
    <3>2. CASE to # now
      <4>1. to \in 0..now - 1
        BY <1>1, <2>1, <3>2
      <4> QED BY <4>1 DEF LimiterInv
    <3> QED BY <3>1, <3>2
  <2>3. \A t \in Window..to : t \in 0..now /\ t - Window \in 0..now
    BY <1>1, <2>1, LimiterConstants
  <2> QED BY <1>1, <1>3, <2>1, <2>2, <2>3 DEF Held
<1> QED BY <1>4, <1>5, <1>6, <1>7 DEF LimiterInv

\* Every limiter starts with nothing granted.
LEMMA LimiterInitially == LimiterInit => LimiterInv
<1> SUFFICES ASSUME LimiterInit PROVE LimiterInv
  OBVIOUS
<1>1. /\ now = 0 /\ lastUpdate = 0 /\ timestamps = <<>> /\ total = 0
      /\ before = [t \in Times |-> 0] /\ refused = {}
      /\ limiter \in {"bucket", "decorator", "windowed"}
  BY DEF LimiterInit
<1>2. tokens \in 0..Burst * Unit
  <2>1. CASE tokens = Burst * Unit
    BY <2>1, LimiterConstants
  <2>2. ASSUME NEW n \in InitialTokens, tokens = Least(n, Burst) * Unit PROVE tokens \in 0..Burst * Unit
    <3>1. Least(n, Burst) \in Nat /\ Least(n, Burst) <= Burst /\ Burst \in Nat /\ Unit \in Nat
      BY LimiterAssumption DEF Least
    <3>2. Least(n, Burst) * Unit <= Burst * Unit /\ Least(n, Burst) * Unit \in Nat
      BY <3>1, ProductOfNats
    <3> QED BY <2>2, <3>2, LimiterConstants
  <2> QED BY <2>1, <2>2 DEF LimiterInit
<1>3. now \in Times /\ lastUpdate \in Times /\ <<>> \in Seq(Times) /\ Len(<<>>) = 0
  BY <1>1, EmptySeq, LimiterConstants DEF Times
<1>4. LimiterTypeOK
  <2>1. before \in [Times -> Nat]
    BY <1>1
  <2> QED BY <1>1, <1>2, <1>3, <2>1 DEF LimiterTypeOK
<1>5. before[0] = 0 /\ Rate * (0 - 0) = 0
  BY <1>1, <1>3, LimiterConstants
<1>6. BucketAccounts(0)
  BY <1>1, <1>2, <1>5, LimiterConstants DEF BucketAccounts
<1>7. WindowCounts(0)
  <2>1. 0 \in 0..Len(timestamps) /\ total - before[0] = Unit * (Len(timestamps) - 0)
    BY <1>1, <1>3, <1>5, LimiterConstants
  <2> QED BY <1>1, <1>3, <2>1 DEF WindowCounts
<1>8. WindowHolds(0)
  BY <1>1, <1>5, LimiterConstants DEF WindowHolds
<1>9. \A i \in 1..Len(timestamps) : timestamps[i] <= now
  BY <1>1, <1>3
<1> QED BY <1>1, <1>4, <1>6, <1>7, <1>8, <1>9 DEF LimiterInv

\* LimiterInv is inductive.
LEMMA LimiterStep ==
  ASSUME LimiterInv, [LimiterNext]_limiterVars
  PROVE  LimiterInv'
<1>1. ASSUME NEW n \in Costs, AcquireTokens(n) PROVE LimiterInv'
  <2>1. n * Unit \in Nat /\ Refilled \in Nat
    BY LimiterAssumption, LimiterConstants, ProductOfNats, RefilledBounds
  <2>2. \/ /\ Refilled >= n * Unit /\ tokens' = Refilled - n * Unit /\ lastUpdate' = now
           /\ Grant(n * Unit)
        \/ tokens' = Refilled /\ Refusal /\ lastUpdate' = now
    BY <1>1 DEF AcquireTokens, Consume
  <2>3. limiter \in {"bucket", "decorator"} /\ UNCHANGED <<limiter, now, timestamps, before>>
    BY <1>1 DEF AcquireTokens
  <2> DEFINE parts == n * Unit
  <2> HIDE DEF parts
  <2>4. /\ parts \in Nat
        /\ \/ Refilled >= parts /\ tokens' = Refilled - parts /\ lastUpdate' = now /\ Grant(parts)
           \/ tokens' = Refilled /\ Refusal /\ lastUpdate' = now
    BY <2>1, <2>2 DEF parts
  <2> QED BY <2>3, <2>4, BucketKeeps
<1>2. CASE AcquireDecorated
  <2>1. Unit \in Nat /\ limiter \in {"bucket", "decorator"} /\ limiter = "decorator"
    BY <1>2, LimiterConstants DEF AcquireDecorated
  <2>2. \/ Refilled >= Unit /\ tokens' = Refilled - Unit /\ lastUpdate' = now /\ Grant(Unit)
        \/ tokens' = Refilled /\ Refusal /\ UNCHANGED lastUpdate
    BY <1>2 DEF AcquireDecorated
  <2>3. UNCHANGED <<limiter, now, timestamps, before>>
    BY <1>2 DEF AcquireDecorated
  <2> QED BY <2>1, <2>2, <2>3, BucketKeeps
<1>3. CASE UNCHANGED limiterVars
  BY <1>3 DEF limiterVars, LimiterInv, LimiterTypeOK, BucketAccounts, WindowCounts,
              WindowHolds, Held, Granted
<1> QED BY <1>1, <1>2, <1>3, WindowedKeeps, LimiterTickKeeps DEF LimiterNext

\* LimiterInv says RateHeld of the past, and of the present tick by NowHeld.
LEMMA LimiterInvSuffices == LimiterInv => RateHeld
<1> SUFFICES ASSUME LimiterInv, NEW to \in 0..now, NEW from \in 0..to PROVE Held(from, to)
  BY DEF RateHeld, Held
<1>1. now \in Nat
  BY DEF LimiterInv, LimiterTypeOK, Times
<1>2. CASE to = now
  <2>1. Held(from, now)
    BY <1>1, <1>2, NowHeld
  <2> QED BY <1>2, <2>1
<1>3. CASE to # now
  <2>1. to \in 0..now - 1
    BY <1>1, <1>3
  <2> QED BY <2>1 DEF LimiterInv
<1> QED BY <1>2, <1>3

\* For any rate, burst, limit, window and costs: see RateHeld.
THEOREM LimitersHoldRate == LimiterSpec => []RateHeld
BY LimiterInitially, LimiterStep, LimiterInvSuffices, PTL DEF LimiterSpec

-----------------------------------------------------------------------------
(* The bulk operations. *)

\* A line of calls when n have been made and `done' has been appended: a call is
\* in it once, and in it to append as long as its item has not been.
LineOf(line, done, n) ==
  /\ line \in Seq(Waiter) /\ IsInjective(line)
  /\ \A w \in Range(line) :
       \/ w.who = Timer /\ w.section = "flush"
       \/ w.who \in 1..n /\ (w.section = "append" <=> w.who \notin done)
  /\ \A w, x \in Range(line) : w.who = x.who => w = x

\* A batch when `done' has been appended: what has been and was not given to a
\* func that returned, each item once.
BatchOf(b, done) ==
  /\ b \in Seq(ItemNumbers) /\ IsInjective(b)
  /\ \A i \in ItemNumbers :
       IF i \in Range(b) THEN i \in done /\ flushed[i] = 0
                         ELSE flushed[i] = IF i \in done THEN 1 ELSE 0

\* What makes ItemsKept inductive: while func runs the batch is the one it was
\* given, because nothing is appended but under the lock.
BulkInv ==
  /\ BulkTypeOK
  /\ added \subseteq 1..calls
  /\ given = <<>> \/ given = batch
  /\ BatchOf(batch, added)
  /\ LineOf(bulkLine, added, calls)

\* A call joins the line of the lock.
LEMMA JoinLine ==
  ASSUME NEW line, NEW done, NEW n \in 0..MaxItems, LineOf(line, done, n),
         NEW w \in Waiter, \A x \in Range(line) : x.who # w.who,
         \/ w.who = Timer /\ w.section = "flush"
         \/ w.who \in 1..n /\ (w.section = "append" <=> w.who \notin done)
  PROVE  LineOf(Append(line, w), done, n)
<1>1. line \in Seq(Waiter) /\ w \notin Range(line)
  BY DEF LineOf
<1>2. /\ Append(line, w) \in Seq(Waiter)
      /\ Range(Append(line, w)) = Range(line) \cup {w}
      /\ IsInjective(line) => IsInjective(Append(line, w))
  BY <1>1, AppendRange
<1> QED BY <1>2 DEF LineOf

\* A call leaves the line: the first, which goes on, or one that is cancelled.
LEMMA LeaveLine ==
  ASSUME NEW line, NEW done, NEW n \in 0..MaxItems, LineOf(line, done, n)
  PROVE  /\ \A w \in Range(line) : LineOf(RemoveFirst(line, w), done, n)
         /\ line # <<>> => /\ Head(line) \in Waiter /\ Head(line) \in Range(line)
                           /\ LineOf(Tail(line), done, n)
                           /\ \A x \in Range(Tail(line)) : x.who # Head(line).who
<1>1. line \in Seq(Waiter) /\ IsInjective(line)
  BY DEF LineOf
<1>2. ASSUME NEW w \in Range(line) PROVE LineOf(RemoveFirst(line, w), done, n)
  <2>1. /\ RemoveFirst(line, w) \in Seq(Waiter) /\ IsInjective(RemoveFirst(line, w))
        /\ Range(RemoveFirst(line, w)) \subseteq Range(line)
    BY <1>1, RemoveFirstRange
  <2> QED BY <2>1 DEF LineOf
<1>3. ASSUME line # <<>>
      PROVE  /\ Head(line) \in Waiter /\ Head(line) \in Range(line)
             /\ LineOf(Tail(line), done, n)
             /\ \A x \in Range(Tail(line)) : x.who # Head(line).who
  <2>1. /\ Head(line) \in Waiter /\ Tail(line) \in Seq(Waiter) /\ IsInjective(Tail(line))
        /\ Range(line) = {Head(line)} \cup Range(Tail(line))
        /\ Head(line) \notin Range(Tail(line))
    BY <1>1, <1>3, TailRange
  <2> QED BY <2>1 DEF LineOf
<1> QED BY <1>2, <1>3

\* An item is appended whose call is not in the line.
LEMMA AppendItem ==
  ASSUME NEW line, NEW done \in SUBSET ItemNumbers, NEW n \in 0..MaxItems,
         LineOf(line, done, n), BatchOf(batch, done),
         NEW i \in 1..n, i \notin done, \A x \in Range(line) : x.who # i
  PROVE  /\ LineOf(line, done \cup {i}, n)
         /\ BatchOf(Append(batch, i), done \cup {i})
<1>1. i \in ItemNumbers /\ i \notin Range(batch) /\ batch \in Seq(ItemNumbers)
  BY BulkAssumption DEF ItemNumbers, BatchOf
<1>2. /\ Append(batch, i) \in Seq(ItemNumbers)
      /\ Range(Append(batch, i)) = Range(batch) \cup {i}
      /\ IsInjective(batch) => IsInjective(Append(batch, i))
  BY <1>1, AppendRange
<1>3. LineOf(line, done \cup {i}, n)
  BY DEF LineOf
<1>4. BatchOf(Append(batch, i), done \cup {i})
  BY <1>1, <1>2 DEF BatchOf
<1> QED BY <1>3, <1>4

\* The section of a call that sees whether a flush is due.
LEMMA CheckEffect ==
  ASSUME NEW who \in 1..calls', calls' \in 0..MaxItems, NEW b, NEW rest, NEW done,
         given = <<>>, LineOf(rest, done, calls'), who \in done,
         \A x \in Range(rest) : x.who # who,
         CheckSection(who, b, rest)
  PROVE  /\ batch' = b /\ given' \in {<<>>, b}
         /\ LineOf(bulkLine', done, calls')
<1>1. CASE bulkLine' = Append(rest, [who |-> who, section |-> "flush"]) /\ batch' = b /\ UNCHANGED given
  <2> DEFINE w == [who |-> who, section |-> "flush"]
  <2>1. w \in Waiter /\ w.who = who /\ w.section = "flush"
    BY BulkAssumption DEF Waiter, Sections, ItemNumbers
  <2>2. LineOf(Append(rest, w), done, calls')
    <3> HIDE DEF w
    <3> QED BY <2>1, JoinLine
  <2> QED BY <1>1, <2>2
<1>2. CASE bulkLine' = rest /\ batch' = b /\ given' \in {<<>>, b}
  BY <1>2
<1> QED BY <1>1, <1>2 DEF CheckSection, FlushSection

\* The section that appends.
LEMMA AppendEffect ==
  ASSUME NEW who \in 1..calls', calls' \in 0..MaxItems, NEW rest,
         given = <<>>, added \in SUBSET ItemNumbers,
         LineOf(rest, added, calls'), BatchOf(batch, added), who \notin added,
         \A x \in Range(rest) : x.who # who,
         AppendSection(who, rest), added' = added \cup {who}
  PROVE  /\ BatchOf(batch', added') /\ given' \in {<<>>, batch'}
         /\ LineOf(bulkLine', added', calls')
<1>1. /\ LineOf(rest, added', calls')
      /\ BatchOf(Append(batch, who), added')
  BY AppendItem
<1>2. CASE rest = <<>>
  <2>1. CheckSection(who, Append(batch, who), rest)
    BY <1>2 DEF AppendSection
  <2> QED BY <1>1, <2>1, CheckEffect
<1>3. CASE rest # <<>>
  <2> DEFINE w == [who |-> who, section |-> "check"]
  <2>1. batch' = Append(batch, who) /\ bulkLine' = Append(rest, w) /\ given' = given
    BY <1>3 DEF AppendSection
  <2>2. w \in Waiter /\ w.who = who /\ w.section = "check"
    BY BulkAssumption DEF Waiter, Sections, ItemNumbers
  <2>3. LineOf(Append(rest, w), added', calls')
    <3> HIDE DEF w
    <3> QED BY <1>1, <2>2, JoinLine
  <2> QED BY <1>1, <2>1, <2>3
<1> QED BY <1>2, <1>3

\* The parts of the invariant give the whole.
LEMMA BulkInvFromParts ==
  ASSUME BulkInv, calls' \in 0..MaxItems, added' \subseteq 1..calls',
         sinceFlush' \in 0..FlushInterval, flushed' = flushed,
         given' = <<>> \/ given' = batch',
         BatchOf(batch', added'), LineOf(bulkLine', added', calls')
  PROVE  BulkInv'
<1>1. BatchOf(batch, added)' /\ LineOf(bulkLine, added, calls)'
  BY DEF BatchOf, LineOf
<1>2. batch' \in Seq(ItemNumbers) /\ given' \in Seq(ItemNumbers) /\ bulkLine' \in Seq(Waiter)
  BY EmptySeq DEF BatchOf, LineOf
<1>3. added' \subseteq ItemNumbers
  BY BulkAssumption DEF ItemNumbers
<1>4. BulkTypeOK'
  BY <1>2, <1>3 DEF BulkInv, BulkTypeOK
<1> QED BY <1>1, <1>4 DEF BulkInv

\* There is no call and no item yet.
LEMMA BulkInitially == BulkInit => BulkInv
<1> SUFFICES ASSUME BulkInit PROVE BulkInv
  OBVIOUS
<1>1. /\ batch = <<>> /\ given = <<>> /\ bulkLine = <<>> /\ calls = 0 /\ added = {}
      /\ sinceFlush = 0 /\ flushed = [i \in ItemNumbers |-> 0]
  BY DEF BulkInit
<1>2. /\ <<>> \in Seq(ItemNumbers) /\ <<>> \in Seq(Waiter)
  BY EmptySeq
<1>3. BulkTypeOK
  BY <1>1, <1>2, BulkAssumption DEF BulkTypeOK
<1>4. BatchOf(batch, added) /\ LineOf(bulkLine, added, calls)
  BY <1>1, <1>2, EmptyRange DEF BatchOf, LineOf
<1> QED BY <1>1, <1>3, <1>4 DEF BulkInv

\* A call of the wrapper appends its item, or waits for the lock.
LEMMA WrapperKeeps ==
  ASSUME BulkInv, Wrapper
  PROVE  BulkInv'
<1> DEFINE i == calls + 1
           w == [who |-> i, section |-> "append"]
<1>1. /\ calls < MaxItems /\ calls' = i /\ Enter(w)
      /\ sinceFlush' = sinceFlush /\ flushed' = flushed
      /\ calls \in 0..MaxItems /\ MaxItems \in Nat /\ sinceFlush \in 0..FlushInterval
      /\ added \in SUBSET ItemNumbers /\ added \subseteq 1..calls
  BY BulkAssumption DEF Wrapper, BulkInv, BulkTypeOK
<1>2. /\ i \in 1..calls' /\ calls' \in 0..MaxItems /\ i \notin added
      /\ added \cup {i} \subseteq 1..calls' /\ added \subseteq 1..calls'
      /\ w \in Waiter /\ w.who = i /\ w.section = "append"
  BY <1>1 DEF Waiter, Sections, ItemNumbers
<1>3. LineOf(bulkLine, added, calls') /\ \A x \in Range(bulkLine) : x.who # i
  BY <1>1, BulkAssumption DEF BulkInv, LineOf, ItemNumbers
<1>4. BatchOf(batch, added) /\ (given = <<>> \/ given = batch)
  BY DEF BulkInv
<1> HIDE DEF i, w
<1>5. CASE given = <<>> /\ bulkLine = <<>>
  <2>1. AppendSection(i, bulkLine) /\ added' = added \cup {i}
    BY <1>1, <1>2, <1>5 DEF Enter
  <2>2. /\ BatchOf(batch', added') /\ given' \in {<<>>, batch'}
        /\ LineOf(bulkLine', added', calls')
    BY <1>1, <1>2, <1>3, <1>4, <1>5, <2>1, AppendEffect
  <2> QED BY <1>1, <1>2, <2>1, <2>2, BulkInvFromParts
<1>6. CASE ~(given = <<>> /\ bulkLine = <<>>)
  <2>1. bulkLine' = Append(bulkLine, w) /\ UNCHANGED <<batch, given, added>>
    BY <1>1, <1>6 DEF Enter
  <2>2. LineOf(bulkLine', added', calls')
    BY <1>2, <1>3, <2>1, JoinLine
  <2>3. BatchOf(batch', added')
    BY <1>4, <2>1
  <2> QED BY <1>1, <1>2, <1>4, <2>1, <2>2, <2>3, BulkInvFromParts
<1> QED BY <1>5, <1>6

\* The timer's flush takes the batch, or waits for the lock.
LEMMA FlushKeeps ==
  ASSUME BulkInv, Flush
  PROVE  BulkInv'
<1> DEFINE w == [who |-> Timer, section |-> "flush"]
<1>1. /\ Enter(w) /\ UNCHANGED <<sinceFlush, calls, flushed>>
      /\ calls \in 0..MaxItems /\ sinceFlush \in 0..FlushInterval /\ added \subseteq 1..calls
      /\ BatchOf(batch, added) /\ LineOf(bulkLine, added, calls)
      /\ given = <<>> \/ given = batch
  BY DEF Flush, BulkInv, BulkTypeOK
<1>2. w \in Waiter /\ w.who = Timer /\ w.section = "flush"
  BY DEF Waiter, Sections
<1>3. \A x \in Range(bulkLine) : x.who # Timer
  BY <1>1, RangeByIndex DEF Flush, LineOf
<1> HIDE DEF w
<1>4. CASE given = <<>> /\ bulkLine = <<>>
  <2>1. batch' = batch /\ given' = batch /\ bulkLine' = bulkLine /\ added' = added
    BY <1>1, <1>2, <1>4 DEF Enter, FlushSection
  <2> QED BY <1>1, <2>1, BulkInvFromParts
<1>5. CASE ~(given = <<>> /\ bulkLine = <<>>)
  <2>1. bulkLine' = Append(bulkLine, w) /\ UNCHANGED <<batch, given, added>>
    BY <1>1, <1>5 DEF Enter
  <2>2. LineOf(bulkLine', added', calls')
    <3>1. LineOf(Append(bulkLine, w), added, calls)
      BY <1>1, <1>2, <1>3, JoinLine
    <3> QED BY <1>1, <2>1, <3>1
  <2> QED BY <1>1, <2>1, <2>2, BulkInvFromParts
<1> QED BY <1>4, <1>5

\* The section that is first in line runs.
LEMMA LockGrantedKeeps ==
  ASSUME BulkInv, LockGranted
  PROVE  BulkInv'
<1> DEFINE w == Head(bulkLine)
           rest == Tail(bulkLine)
<1>1. /\ given = <<>> /\ bulkLine # <<>> /\ UNCHANGED <<sinceFlush, calls, flushed>>
      /\ calls \in 0..MaxItems /\ sinceFlush \in 0..FlushInterval
      /\ added \in SUBSET ItemNumbers /\ added \subseteq 1..calls
      /\ BatchOf(batch, added) /\ LineOf(bulkLine, added, calls)
  BY DEF LockGranted, BulkInv, BulkTypeOK
<1>2. /\ w \in Waiter /\ w \in Range(bulkLine)
      /\ LineOf(rest, added, calls)
      /\ \A x \in Range(rest) : x.who # w.who
  BY <1>1, LeaveLine
<1>3. \/ w.section = "append" /\ AppendSection(w.who, rest) /\ added' = added \cup {w.who}
      \/ w.section = "check" /\ CheckSection(w.who, batch, rest) /\ UNCHANGED added
      \/ w.section = "flush" /\ FlushSection(batch, rest) /\ UNCHANGED added
  <2>1. w.section \in {"append", "check", "flush"}
    BY <1>2 DEF Waiter, Sections
  <2> QED BY <2>1 DEF LockGranted
<1>4. \/ w.who = Timer /\ w.section = "flush"
      \/ w.who \in 1..calls /\ (w.section = "append" <=> w.who \notin added)
  BY <1>1, <1>2 DEF LineOf
<1> HIDE DEF w, rest
<1>5. CASE w.section = "append" /\ AppendSection(w.who, rest) /\ added' = added \cup {w.who}
  <2>1. w.who \in 1..calls' /\ w.who \notin added /\ calls' = calls /\ calls' \in 0..MaxItems
    BY <1>1, <1>4, <1>5
  <2>2. LineOf(rest, added, calls')
    BY <1>2, <2>1
  <2>3. /\ BatchOf(batch', added') /\ given' \in {<<>>, batch'}
        /\ LineOf(bulkLine', added', calls')
    BY <1>1, <1>2, <1>5, <2>1, <2>2, AppendEffect
  <2>4. added' \subseteq 1..calls'
    BY <1>1, <1>5, <2>1
  <2> QED BY <1>1, <2>1, <2>3, <2>4, BulkInvFromParts
<1>6. CASE w.section = "check" /\ CheckSection(w.who, batch, rest) /\ UNCHANGED added
  <2>1. w.who \in 1..calls' /\ w.who \in added /\ calls' = calls /\ calls' \in 0..MaxItems
    BY <1>1, <1>4, <1>6
  <2>2. LineOf(rest, added, calls')
    BY <1>2, <2>1
  <2>3. batch' = batch /\ given' \in {<<>>, batch} /\ LineOf(bulkLine', added, calls')
    BY <1>1, <1>2, <1>6, <2>1, <2>2, CheckEffect
  <2> QED BY <1>1, <1>6, <2>1, <2>3, BulkInvFromParts
<1>7. CASE w.section = "flush" /\ FlushSection(batch, rest) /\ UNCHANGED added
  <2>1. batch' = batch /\ given' = batch /\ bulkLine' = rest /\ added' = added
    BY <1>7 DEF FlushSection
  <2> QED BY <1>1, <1>2, <2>1, BulkInvFromParts
<1> QED BY <1>3, <1>5, <1>6, <1>7

\* The batch that func was given is the one that is emptied.
LEMMA FlushReturnsKeeps ==
  ASSUME BulkInv, FlushReturns
  PROVE  BulkInv'
<1>1. /\ given = batch /\ BatchOf(batch, added) /\ LineOf(bulkLine, added, calls)
      /\ batch \in Seq(ItemNumbers) /\ IsInjective(batch)
      /\ flushed \in [ItemNumbers -> Nat]
  BY DEF FlushReturns, BulkInv, BulkTypeOK, BatchOf
<1>2. flushed' = [i \in ItemNumbers |-> flushed[i] + IF i \in Range(batch) THEN 1 ELSE 0]
  <2>1. \A i \in ItemNumbers :
          Cardinality({j \in 1..Len(batch) : batch[j] = i}) = IF i \in Range(batch) THEN 1 ELSE 0
    BY <1>1, CountDistinct
  <2> QED BY <1>1, <2>1 DEF FlushReturns
<1>3. /\ batch' = <<>> /\ given' = <<>> /\ sinceFlush' = 0
      /\ UNCHANGED <<bulkLine, calls, added>>
  BY DEF FlushReturns
<1>4. flushed' \in [ItemNumbers -> Nat]
  BY <1>1, <1>2
<1>5. BatchOf(batch, added)'
  <2>1. <<>> \in Seq(ItemNumbers) /\ IsInjective(<<>>) /\ Range(<<>>) = {}
    BY EmptySeq, EmptyRange
  <2>2. ASSUME NEW i \in ItemNumbers PROVE flushed'[i] = IF i \in added THEN 1 ELSE 0
    BY <1>1, <1>2 DEF BatchOf
  <2> QED BY <1>3, <2>1, <2>2 DEF BatchOf
<1>6. BulkTypeOK'
  BY <1>3, <1>4, EmptySeq, BulkAssumption DEF BulkInv, BulkTypeOK
<1> QED BY <1>1, <1>3, <1>5, <1>6 DEF BulkInv

\* BulkInv is inductive.
LEMMA BulkStep ==
  ASSUME BulkInv, [BulkNext]_bulkVars
  PROVE  BulkInv'
<1>0. /\ BulkTypeOK /\ added \subseteq 1..calls /\ (given = <<>> \/ given = batch)
      /\ BatchOf(batch, added) /\ LineOf(bulkLine, added, calls)
  BY DEF BulkInv
<1>1. CASE UNCHANGED bulkVars
  BY <1>0, <1>1, BulkInvFromParts DEF bulkVars, BulkTypeOK
<1>2. CASE FlushFails
  BY <1>0, <1>2, BulkInvFromParts DEF FlushFails, BulkTypeOK
<1>3. CASE BulkTick
  <2>1. sinceFlush' \in 0..FlushInterval
    BY <1>0, <1>3, BulkAssumption DEF BulkTick, BulkTypeOK
  <2> QED BY <1>0, <1>3, <2>1, BulkInvFromParts DEF BulkTick, BulkTypeOK
<1>4. ASSUME NEW w \in Range(bulkLine), CancelInLine(w) PROVE BulkInv'
  <2>1. calls \in 0..MaxItems
    BY <1>0 DEF BulkTypeOK
  <2>2. LineOf(RemoveFirst(bulkLine, w), added, calls)
    BY <1>0, <2>1, LeaveLine
  <2> QED BY <1>0, <1>4, <2>2, BulkInvFromParts DEF CancelInLine, BulkTypeOK
<1> QED BY <1>1, <1>2, <1>3, <1>4, WrapperKeeps, FlushKeeps, LockGrantedKeeps,
           FlushReturnsKeeps DEF BulkNext

\* For any batch size, interval and number of calls: see ItemsKept.
THEOREM BulkKeepsItems == BulkSpec => []ItemsKept
<1>1. BulkInv => ItemsKept
  <2> SUFFICES ASSUME BulkInv, NEW i \in added
               PROVE  Cardinality({j \in 1..Len(batch) : batch[j] = i}) + flushed[i] = 1
    BY DEF ItemsKept
  <2>1. batch \in Seq(ItemNumbers) /\ IsInjective(batch) /\ i \in ItemNumbers
    BY DEF BulkInv, BulkTypeOK, BatchOf
  <2>2. Cardinality({j \in 1..Len(batch) : batch[j] = i}) = IF i \in Range(batch) THEN 1 ELSE 0
    BY <2>1, CountDistinct
  <2> QED BY <2>1, <2>2 DEF BulkInv, BatchOf
<1> QED BY <1>1, BulkInitially, BulkStep, PTL DEF BulkSpec

-----------------------------------------------------------------------------
(* The nested timeouts. *)

\* What makes DeadlinesNest inductive: every block keeps, for the time after it,
\* the deadline of the block around it.
NestInv ==
  /\ TimeoutTypeOK
  /\ inherits \subseteq 1..entered
  /\ \A i \in 1..Len(blocks) :
       /\ blocks[i] \in 1..entered
       /\ deadline[blocks[i]] \in Nat
       /\ parentDeadline[blocks[i]] = IF i = 1 THEN None ELSE deadline[blocks[i - 1]]
  /\ DeadlinesNest

\* No block has been entered.
LEMMA TimeoutInitially == TimeoutInit => NestInv
<1> SUFFICES ASSUME TimeoutInit PROVE NestInv
  OBVIOUS
<1>1. TimeoutTypeOK
  <2>1. clock \in 0..MaxClock /\ entered \in 0..MaxBlocks /\ blocks \in Seq(Contexts)
    BY TimeoutAssumption, EmptySeq DEF TimeoutInit
  <2>2. /\ deadline \in [Contexts -> Nat \cup {None}]
        /\ parentDeadline \in [Contexts -> Nat \cup {None}]
        /\ handler \in [Contexts -> {"none", "created", "callback", "done"}]
    BY DEF TimeoutInit
  <2> QED BY <2>1, <2>2 DEF TimeoutInit, TimeoutTypeOK
<1>2. blocks = <<>> /\ taskDeadline = None /\ armed = {} /\ Len(blocks) = 0
  BY EmptySeq DEF TimeoutInit
<1>3. DeadlinesNest
  BY <1>2 DEF DeadlinesNest
<1> QED BY <1>1, <1>2, <1>3 DEF NestInv, TimeoutInit

\* A block is entered: its deadline is not after the one it inherits.
LEMMA EnterBlockKeeps ==
  ASSUME NestInv, NEW d \in Timeouts, NEW p \in BOOLEAN, EnterBlock(d, p)
  PROVE  NestInv'
<1> DEFINE c == entered + 1
           dl == Deadline(d, p)
<1>1. /\ entered < MaxBlocks /\ entered' = c
      /\ blocks' = Append(blocks, c)
      /\ inherits' = IF p THEN inherits \cup {c} ELSE inherits
      /\ parentDeadline' = [parentDeadline EXCEPT ![c] = taskDeadline]
      /\ deadline' = [deadline EXCEPT ![c] = dl]
      /\ taskDeadline' = dl
      /\ armed' = armed \cup {c}
      /\ UNCHANGED <<clock, handler, timedOut, cancelling, raising, ended, caught>>
  BY DEF EnterBlock
<1>2. /\ blocks \in Seq(Contexts) /\ taskDeadline \in Nat \cup {None} /\ clock \in Nat
      /\ deadline \in [Contexts -> Nat \cup {None}]
      /\ parentDeadline \in [Contexts -> Nat \cup {None}]
      /\ entered \in Nat /\ Len(blocks) \in Nat /\ d \in Nat /\ None \notin Nat
      /\ clock \in 0..MaxClock
  BY TimeoutAssumption, LenProperties DEF NestInv, TimeoutTypeOK
<1>3. /\ dl \in Nat /\ c \in Contexts
      /\ p /\ taskDeadline # None => dl <= taskDeadline
  <2>1. dl = clock + d \/ (taskDeadline # None /\ taskDeadline < clock + d /\ dl = taskDeadline)
    BY DEF Deadline
  <2>2. p /\ taskDeadline # None => dl = IF taskDeadline < clock + d THEN taskDeadline ELSE clock + d
    BY DEF Deadline
  <2>3. c \in Contexts
    BY <1>1, <1>2, TimeoutAssumption DEF Contexts
  <2> HIDE DEF dl
  <2>4. dl \in Nat
    BY <1>2, <2>1
  <2> QED BY <1>2, <2>1, <2>2, <2>3, <2>4
<1> DEFINE n == Len(blocks)
<1> HIDE DEF dl
<1>4. /\ blocks' \in Seq(Contexts) /\ Len(blocks') = n + 1 /\ blocks' # <<>>
      /\ \A i \in 1..n : blocks'[i] = blocks[i]
      /\ blocks'[n + 1] = c /\ Range(blocks') = Range(blocks) \cup {c}
      /\ Last(blocks') = blocks'[Len(blocks')]
  <2>1. /\ Append(blocks, c) \in Seq(Contexts) /\ Len(Append(blocks, c)) = n + 1
        /\ \A i \in 1..n : Append(blocks, c)[i] = blocks[i]
        /\ Append(blocks, c)[n + 1] = c /\ Append(blocks, c) # <<>>
    BY <1>2, <1>3, AppendProperties
  <2>2. Range(Append(blocks, c)) = Range(blocks) \cup {c}
    BY <1>2, <1>3, AppendRange
  <2> QED BY <1>1, <2>1, <2>2 DEF Last
<1>5. TimeoutTypeOK'
  <2>1. entered' \in 0..MaxBlocks
    BY <1>1, <1>2, TimeoutAssumption
  <2>2. inherits' \subseteq Contexts /\ armed' \subseteq Contexts
    <3>1. inherits \subseteq Contexts /\ armed \subseteq Contexts
      BY DEF NestInv, TimeoutTypeOK
    <3> QED BY <1>1, <1>3, <3>1
  <2> QED BY <1>1, <1>2, <1>3, <1>4, <2>1, <2>2 DEF NestInv, TimeoutTypeOK
<1>6. \A i \in 1..n : /\ blocks[i] \in 1..entered /\ blocks[i] # c /\ blocks[i] \in Contexts
                      /\ deadline'[blocks[i]] = deadline[blocks[i]]
                      /\ parentDeadline'[blocks[i]] = parentDeadline[blocks[i]]
  BY <1>1, <1>2, ElementOfSeq DEF NestInv
<1>7. deadline'[c] = dl /\ parentDeadline'[c] = taskDeadline
  BY <1>1, <1>2, <1>3
<1>8. taskDeadline = IF n = 0 THEN None ELSE deadline[blocks[n]]
  BY <1>2, EmptySeq DEF NestInv, DeadlinesNest, Inner, Last
<1>9. ASSUME NEW i \in 1..Len(blocks')
      PROVE  /\ blocks'[i] \in 1..entered' /\ deadline'[blocks'[i]] \in Nat
             /\ parentDeadline'[blocks'[i]] = IF i = 1 THEN None ELSE deadline'[blocks'[i - 1]]
  <2>1. CASE i = n + 1
    <3>1. CASE n = 0
      BY <1>1, <1>2, <1>3, <1>4, <1>7, <1>8, <2>1, <3>1
    <3>2. CASE n # 0
      <4>1. n \in 1..n /\ i - 1 = n /\ i # 1
        BY <1>2, <2>1, <3>2
      <4>2. deadline'[blocks'[i - 1]] = deadline[blocks[n]]
        BY <1>4, <1>6, <4>1
      <4>3. blocks'[i] = c /\ taskDeadline = deadline[blocks[n]]
        BY <1>4, <1>8, <2>1, <3>2
      <4>4. c \in 1..entered' /\ deadline'[c] \in Nat /\ parentDeadline'[c] = deadline[blocks[n]]
        BY <1>1, <1>2, <1>3, <1>7, <4>3
      <4> QED BY <4>1, <4>2, <4>3, <4>4
    <3> QED BY <3>1, <3>2
  <2>2. CASE i # n + 1
    <3>1. i \in 1..n /\ blocks'[i] = blocks[i]
      BY <1>2, <1>4, <2>2
    <3>2. i # 1 => i - 1 \in 1..n /\ blocks'[i - 1] = blocks[i - 1]
      <4>1. i # 1 => i - 1 \in 1..n
        BY <1>2, <3>1
      <4> QED BY <1>4, <4>1
    <3>3. blocks'[i] \in 1..entered'
      BY <1>1, <1>2, <1>6, <3>1
    <3>4. /\ deadline[blocks[i]] \in Nat
          /\ parentDeadline[blocks[i]] = IF i = 1 THEN None ELSE deadline[blocks[i - 1]]
      BY <3>1 DEF NestInv
    <3>5. /\ deadline'[blocks'[i]] = deadline[blocks[i]]
          /\ parentDeadline'[blocks'[i]] = parentDeadline[blocks[i]]
      BY <1>6, <3>1
    <3>6. i # 1 => deadline'[blocks'[i - 1]] = deadline[blocks[i - 1]]
      BY <1>6, <3>2
    <3> QED BY <3>3, <3>4, <3>5, <3>6
  <2> QED BY <2>1, <2>2
<1>10. DeadlinesNest'
  <2>1. taskDeadline' = deadline'[Last(blocks')]
    BY <1>1, <1>4, <1>7
  <2>2. ASSUME NEW i \in 2..Len(blocks'), blocks'[i] \in inherits'
        PROVE  deadline'[blocks'[i]] <= deadline'[blocks'[i - 1]]
    <3>1. CASE i = n + 1
      <4>1. n # 0 /\ n \in 1..n /\ i - 1 = n
        BY <1>2, <1>4, <3>1
      <4>2. deadline'[blocks'[i - 1]] = deadline[blocks[n]] /\ deadline[blocks[n]] \in Nat
        BY <1>4, <1>6, <4>1 DEF NestInv
      <4>3. c \notin inherits => p
        BY <1>1, <1>4, <2>2, <3>1
      <4>4. c \notin inherits
        BY <1>2 DEF NestInv
      <4> QED BY <1>2, <1>3, <1>4, <1>7, <1>8, <3>1, <4>1, <4>2, <4>3, <4>4
    <3>2. CASE i # n + 1
      <4>1. i \in 2..n /\ i \in 1..n /\ i - 1 \in 1..n
        BY <1>2, <1>4, <3>2
      <4>2. blocks'[i] = blocks[i] /\ blocks'[i - 1] = blocks[i - 1] /\ blocks[i] # c
        BY <1>4, <1>6, <4>1
      <4>3. blocks[i] \in inherits
        BY <1>1, <2>2, <4>2
      <4> QED BY <1>6, <4>1, <4>2, <4>3 DEF NestInv, DeadlinesNest
    <3> QED BY <3>1, <3>2
  <2>3. armed' \subseteq Range(blocks')
    BY <1>1, <1>4 DEF NestInv, DeadlinesNest, Entered
  <2> QED BY <1>4, <2>1, <2>2, <2>3 DEF DeadlinesNest, Inner, Entered
<1>11. inherits' \subseteq 1..entered'
  BY <1>1, <1>2 DEF NestInv
<1> QED BY <1>5, <1>9, <1>10, <1>11 DEF NestInv

\* The block that is left gives the task the deadline it had outside of it.
LEMMA ExitKeeps ==
  ASSUME NestInv, Exit
  PROVE  NestInv'
<1> DEFINE n == Len(blocks)
<1>1. /\ blocks # <<>> /\ blocks' = Front(blocks) /\ armed' = armed \ {Inner}
      /\ taskDeadline' = parentDeadline[Inner]
      /\ raising' \in {raising, "timeout"}
      /\ UNCHANGED <<clock, entered, inherits, deadline, parentDeadline, handler, timedOut,
                     cancelling, ended, caught>>
  BY DEF Exit
<1>2. /\ Inner = blocks[n] /\ n \in Nat \ {0} /\ n \in 1..n
      /\ blocks' \in Seq(Contexts) /\ Len(blocks') = n - 1
      /\ \A i \in 1..n - 1 : blocks'[i] = blocks[i]
      /\ Range(blocks) = Range(blocks') \cup {Inner}
  BY <1>1, FrontRange DEF Inner, NestInv, TimeoutTypeOK
<1>3. TimeoutTypeOK'
  <2>1. taskDeadline' \in Nat \cup {None}
    BY <1>1, <1>2, ElementOfSeq DEF NestInv, TimeoutTypeOK
  <2> QED BY <1>1, <1>2, <2>1 DEF NestInv, TimeoutTypeOK
<1>4. \A i \in 1..n - 1 : i \in 1..n
  BY <1>2
<1>5. ASSUME NEW i \in 1..Len(blocks')
      PROVE  /\ blocks'[i] \in 1..entered' /\ deadline'[blocks'[i]] \in Nat
             /\ parentDeadline'[blocks'[i]] = IF i = 1 THEN None ELSE deadline'[blocks'[i - 1]]
  <2>1. i \in 1..n - 1 /\ i \in 1..n /\ (i # 1 => i - 1 \in 1..n - 1)
    BY <1>2
  <2> QED BY <1>1, <1>2, <2>1 DEF NestInv
<1>6. DeadlinesNest'
  <2>1. taskDeadline' = IF blocks' = <<>> THEN None ELSE deadline'[Last(blocks')]
    <3>1. CASE n = 1
      <4>1. blocks' = <<>>
        BY <1>2, <3>1, EmptySeq
      <4> QED BY <1>1, <1>2, <3>1, <4>1 DEF NestInv
    <3>2. CASE n # 1
      <4>1. blocks' # <<>> /\ n - 1 \in 1..n - 1
        BY <1>2, <3>2, EmptySeq
      <4>2. Last(blocks') = blocks[n - 1]
        BY <1>2, <4>1 DEF Last
      <4> QED BY <1>1, <1>2, <3>2, <4>1, <4>2 DEF NestInv
    <3> QED BY <3>1, <3>2
  <2>2. \A i \in 2..Len(blocks') :
          blocks'[i] \in inherits' => deadline'[blocks'[i]] <= deadline'[blocks'[i - 1]]
    <3> TAKE i \in 2..Len(blocks')
    <3>1. i \in 2..n /\ blocks'[i] = blocks[i] /\ blocks'[i - 1] = blocks[i - 1]
      BY <1>2
    <3> QED BY <1>1, <3>1 DEF NestInv, DeadlinesNest
  <2>3. armed' \subseteq Range(blocks')
    BY <1>1, <1>2 DEF NestInv, DeadlinesNest, Entered
  <2> QED BY <2>1, <2>2, <2>3 DEF DeadlinesNest, Inner, Entered
<1>7. inherits' \subseteq 1..entered'
  BY <1>1 DEF NestInv
<1> QED BY <1>3, <1>5, <1>6, <1>7 DEF NestInv

\* The steps that enter or leave no block take a timer away at most.
LEMMA OtherTimeoutStepsKeep ==
  ASSUME NestInv, TimeoutTypeOK', armed' \subseteq armed,
         UNCHANGED <<blocks, entered, inherits, deadline, parentDeadline, taskDeadline>>
  PROVE  NestInv'
<1>1. DeadlinesNest'
  BY DEF NestInv, DeadlinesNest, Inner, Entered
<1> QED BY <1>1 DEF NestInv

\* NestInv is inductive.
LEMMA TimeoutStep ==
  ASSUME NestInv, [TimeoutNext]_timeoutVars
  PROVE  NestInv'
<1>1. CASE \E d \in Timeouts, p \in BOOLEAN : EnterBlock(d, p)
  BY <1>1, EnterBlockKeeps
<1>2. CASE Exit
  BY <1>2, ExitKeeps
<1>3. CASE Catch
  <2>1. TimeoutTypeOK'
    <3>1. caught' \subseteq Contexts
      BY <1>3 DEF Catch, NestInv, TimeoutTypeOK
    <3> QED BY <1>3, <3>1 DEF Catch, NestInv, TimeoutTypeOK
  <2> QED BY <1>3, <2>1, OtherTimeoutStepsKeep DEF Catch
<1>4. CASE EndTask
  <2>1. TimeoutTypeOK'
    BY <1>4 DEF EndTask, NestInv, TimeoutTypeOK
  <2> QED BY <1>4, <2>1, OtherTimeoutStepsKeep DEF EndTask
<1>5. CASE CancelTask
  <2>1. TimeoutTypeOK'
    BY <1>5 DEF CancelTask, NestInv, TimeoutTypeOK
  <2> QED BY <1>5, <2>1, OtherTimeoutStepsKeep DEF CancelTask
<1>6. CASE Deliver
  <2>1. TimeoutTypeOK'
    BY <1>6 DEF Deliver, NestInv, TimeoutTypeOK
  <2> QED BY <1>6, <2>1, OtherTimeoutStepsKeep DEF Deliver
<1>7. CASE ClockTick
  <2>1. TimeoutTypeOK'
    <3>1. clock' \in 0..MaxClock
      BY <1>7, TimeoutAssumption DEF ClockTick, NestInv, TimeoutTypeOK
    <3> QED BY <1>7, <3>1 DEF ClockTick, NestInv, TimeoutTypeOK
  <2> QED BY <1>7, <2>1, OtherTimeoutStepsKeep DEF ClockTick
<1>8. ASSUME NEW c \in Contexts, TimerFires(c) PROVE NestInv'
  <2>1. TimeoutTypeOK'
    BY <1>8 DEF TimerFires, NestInv, TimeoutTypeOK
  <2> QED BY <1>8, <2>1, OtherTimeoutStepsKeep DEF TimerFires
<1>9. ASSUME NEW c \in Contexts, HandleTimeout(c) PROVE NestInv'
  <2>1. TimeoutTypeOK'
    BY <1>9 DEF HandleTimeout, NestInv, TimeoutTypeOK
  <2> QED BY <1>9, <2>1, OtherTimeoutStepsKeep DEF HandleTimeout
<1>10. CASE UNCHANGED timeoutVars
  <2>1. TimeoutTypeOK'
    BY <1>10 DEF timeoutVars, NestInv, TimeoutTypeOK
  <2> QED BY <1>10, <2>1, OtherTimeoutStepsKeep DEF timeoutVars
<1> QED BY <1>1, <1>2, <1>3, <1>4, <1>5, <1>6, <1>7, <1>8, <1>9, <1>10 DEF TimeoutNext

\* For any timeouts and nesting: see DeadlinesNest.
THEOREM TimeoutsNest == TimeoutSpec => []DeadlinesNest
<1>1. NestInv => DeadlinesNest
  BY DEF NestInv
<1> QED BY <1>1, TimeoutInitially, TimeoutStep, PTL DEF TimeoutSpec

-----------------------------------------------------------------------------
(* The owners of tasks. *)

\* What makes OwnedTasksEnd inductive: it is about cancelled tasks as well, which
\* may go on; of what cancel_all() found only what it awaits is active; and what
\* is tracked meanwhile was found or is late.
OwnerInv ==
  /\ OwnerTypeOK
  /\ monitor => owner # "executor"
  /\ \A t \in PoolTasks : task[t] = "new" => t \notin tracked \cup timed \cup asked
  /\ closing = "no" => asked \cap Active = {}
  /\ asked \cap Active \subseteq awaited \/ closing = "no"
  /\ closing = "waiting" => tracked \subseteq awaited \cup late
  /\ \A t \in PoolTasks :
       t \in Active /\ t \notin tracked =>
         \/ owner = "executor" /\ t \in late
         \/ owner # "executor" /\ runtime[t] > MaxRuntime
         \/ owner = "group" /\ t \notin timed

\* No task has been created.
LEMMA OwnerInitially == OwnerInit => OwnerInv
<1> SUFFICES ASSUME OwnerInit PROVE OwnerInv
  OBVIOUS
<1>1. /\ task \in [PoolTasks -> {"new", "running", "cancelled", "ended"}]
      /\ runtime \in [PoolTasks -> 0..MaxRuntime + 1]
      /\ \A t \in PoolTasks : task[t] = "new"
  BY OwnerAssumption DEF OwnerInit
<1>2. monitor \in BOOLEAN /\ (monitor => owner # "executor")
  BY Zenon DEF OwnerInit
<1>3. Active = {}
  BY <1>1 DEF Active
<1>4. /\ owner \in {"executor", "manager", "group"} /\ groupClosed = FALSE
      /\ tracked = {} /\ timed = {} /\ awaited = {} /\ asked = {} /\ late = {} /\ closing = "no"
  BY DEF OwnerInit
<1> QED BY <1>1, <1>2, <1>3, <1>4 DEF OwnerInv, OwnerTypeOK

\* A task is created, and tracked where the owner tracks it.
LEMMA CreateTaskKeeps ==
  ASSUME OwnerInv, NEW t \in PoolTasks, NEW b \in BOOLEAN, CreateTask(t, b)
  PROVE  OwnerInv'
<1> USE DEF OwnerInv, OwnerTypeOK
<1>1. /\ task[t] = "new" /\ task' = [task EXCEPT ![t] = "running"] /\ t \notin asked
      /\ Active' = Active \cup {t}
      /\ UNCHANGED <<owner, runtime, monitor, groupClosed, closing, awaited, asked>>
  BY DEF CreateTask, Active
<1>2. OwnerTypeOK' /\ tracked \subseteq tracked' /\ late \subseteq late'
  BY <1>1 DEF CreateTask
<1>3. \A s \in PoolTasks : task'[s] = "new" => s \notin tracked' \cup timed' \cup asked'
  BY <1>1 DEF CreateTask
<1>4. closing' = "waiting" => tracked' \subseteq awaited' \cup late'
  BY <1>1 DEF CreateTask
<1>5. ASSUME NEW s \in PoolTasks, s \in Active', s \notin tracked'
      PROVE  \/ owner' = "executor" /\ s \in late'
             \/ owner' # "executor" /\ runtime'[s] > MaxRuntime
             \/ owner' = "group" /\ s \notin timed'
  <2>1. CASE s = t
    BY <1>1, <1>5, <2>1 DEF CreateTask
  <2>2. CASE s # t
    <3>1. s \in Active /\ s \notin tracked /\ (s \in timed' => s \in timed)
      BY <1>1, <1>2, <1>5, <2>2 DEF CreateTask
    <3> QED BY <1>1, <1>2, <3>1
  <2> QED BY <2>1, <2>2
<1> QED BY <1>1, <1>2, <1>3, <1>4, <1>5

\* A task ends, and its done callback runs.
LEMMA TaskEndsKeeps ==
  ASSUME OwnerInv, NEW t \in PoolTasks, TaskEnds(t)
  PROVE  OwnerInv'
<1> USE DEF OwnerInv, OwnerTypeOK
<1>1. /\ task' = [task EXCEPT ![t] = "ended"] /\ Active' = Active \ {t}
      /\ tracked' \in {tracked, tracked \ {t}} /\ timed' \in {timed, timed \ {t}}
      /\ UNCHANGED <<owner, runtime, monitor, groupClosed, closing, awaited, asked, late>>
  BY DEF TaskEnds, Active
<1>2. OwnerTypeOK'
  BY <1>1
<1>3. \A s \in PoolTasks : task'[s] = "new" => task[s] = "new"
  BY <1>1
<1> QED BY <1>1, <1>2, <1>3

\* A cancelled task goes on.
LEMMA TaskPersistsKeeps ==
  ASSUME OwnerInv, NEW t \in PoolTasks, TaskPersists(t)
  PROVE  OwnerInv'
<1> USE DEF OwnerInv, OwnerTypeOK
<1>1. /\ task' = [task EXCEPT ![t] = "running"] /\ Active' = Active
      /\ UNCHANGED <<owner, tracked, timed, runtime, monitor, groupClosed, closing, awaited,
                     asked, late>>
  BY DEF TaskPersists, Active
<1>2. OwnerTypeOK' /\ \A s \in PoolTasks : task'[s] = "new" => task[s] = "new"
  BY <1>1
<1> QED BY <1>1, <1>2

\* cancel() makes no task active and none inactive.
LEMMA CancelEachKeepsActive ==
  ASSUME OwnerTypeOK, NEW S, CancelEach(S)
  PROVE  /\ Active' = Active
         /\ task' \in [PoolTasks -> {"new", "running", "cancelled", "ended"}]
         /\ \A t \in PoolTasks : task'[t] = "new" => task[t] = "new"
BY DEF OwnerTypeOK, CancelEach, Active

\* The monitor of a TimeoutManager cancels what runs too long.
LEMMA MonitorRoundKeeps ==
  ASSUME OwnerInv, MonitorRound
  PROVE  OwnerInv'
<1> USE DEF OwnerInv, OwnerTypeOK
<1>1. monitor /\ UNCHANGED <<owner, runtime, groupClosed, closing, awaited, asked, late>>
  BY DEF MonitorRound
<1>2. CASE monitor' = FALSE /\ UNCHANGED <<task, tracked, timed>>
  BY <1>1, <1>2 DEF Active
<1>3. CASE /\ CancelEach(Overdue)
           /\ tracked' = tracked \ Overdue /\ timed' = timed \ Overdue
           /\ UNCHANGED monitor
  <2>1. /\ Active' = Active
        /\ task' \in [PoolTasks -> {"new", "running", "cancelled", "ended"}]
        /\ \A t \in PoolTasks : task'[t] = "new" => task[t] = "new"
    BY <1>3, CancelEachKeepsActive
  <2>2. \A t \in Overdue : runtime[t] > MaxRuntime
    BY DEF Overdue
  <2> QED BY <1>1, <1>3, <2>1, <2>2
<1> QED BY <1>2, <1>3 DEF MonitorRound

\* cancel_all() cancels what it finds.
LEMMA CancelTrackedKeeps ==
  ASSUME OwnerInv, CancelTracked
  PROVE  OwnerInv'
<1> USE DEF OwnerInv, OwnerTypeOK
<1>1. /\ closing = "no" /\ CancelEach(tracked) /\ asked' = asked \cup tracked
      /\ awaited' = tracked /\ closing' = "waiting"
      /\ UNCHANGED <<owner, tracked, timed, runtime, monitor, groupClosed, late>>
  BY DEF CancelTracked
<1>2. /\ Active' = Active
      /\ task' \in [PoolTasks -> {"new", "running", "cancelled", "ended"}]
      /\ \A t \in PoolTasks : task'[t] = "new" => task[t] = "new"
  BY <1>1, CancelEachKeepsActive
<1> QED BY <1>1, <1>2

\* cancel_all() has awaited all it found.
LEMMA AllEndedKeeps ==
  ASSUME OwnerInv, AllEnded
  PROVE  OwnerInv'
<1> USE DEF OwnerInv, OwnerTypeOK
<1>1. /\ closing = "waiting" /\ awaited \cap Active = {} /\ closing' = "no" /\ awaited' = {}
      /\ tracked' = IF owner = "executor" THEN {} ELSE tracked
      /\ UNCHANGED <<owner, task, timed, runtime, monitor, groupClosed, asked, late>>
      /\ Active' = Active
  BY DEF AllEnded, Active
<1> QED BY <1>1

\* Only time passes.
LEMMA OwnerTickKeeps ==
  ASSUME OwnerInv, OwnerTick
  PROVE  OwnerInv'
<1> USE DEF OwnerInv, OwnerTypeOK
<1>1. /\ runtime' \in [PoolTasks -> 0..MaxRuntime + 1]
      /\ \A t \in PoolTasks : runtime'[t] >= runtime[t]
      /\ UNCHANGED <<owner, task, tracked, timed, monitor, groupClosed, closing, awaited, asked, late>>
      /\ Active' = Active
  BY OwnerAssumption DEF OwnerTick, Active
<1>2. \A t \in PoolTasks : runtime[t] > MaxRuntime => runtime'[t] > MaxRuntime
  BY <1>1, OwnerAssumption
<1> QED BY <1>1, <1>2

\* OwnerInv is inductive.
LEMMA OwnerStep ==
  ASSUME OwnerInv, [OwnerNext]_ownerVars
  PROVE  OwnerInv'
<1>1. CASE GroupGathered
  BY <1>1 DEF GroupGathered, OwnerInv, OwnerTypeOK, Active
<1>2. CASE GroupExit
  BY <1>2 DEF GroupExit, OwnerInv, OwnerTypeOK, Active
<1>3. CASE ManagerExit
  BY <1>3 DEF ManagerExit, OwnerInv, OwnerTypeOK, Active
<1>4. CASE UNCHANGED ownerVars
  BY <1>4 DEF ownerVars, OwnerInv, OwnerTypeOK, Active
<1> QED BY <1>1, <1>2, <1>3, <1>4, CreateTaskKeeps, TaskEndsKeeps, TaskPersistsKeeps,
           MonitorRoundKeeps, CancelTrackedKeeps, AllEndedKeeps, OwnerTickKeeps DEF OwnerNext

\* What the invariant says of a task that is active.
LEMMA OwnerInvSuffices == OwnerInv => OwnedTasksEnd
BY DEF OwnerInv, OwnedTasksEnd, Active

-----------------------------------------------------------------------------
(* The wrappers that repeat a call. *)

\* What makes AttemptsApart inductive: the attempts that run are the last ones of
\* their calls, and where a call is tells whether its last attempt runs; a call
\* that sleeps has an attempt left.
RetryInv ==
  /\ RetryTypeOK
  /\ \A a \in alive : a = Latest(a[1])
  /\ \A c \in Retried :
       /\ place[c] \in Awaiting => Latest(c) \in alive
       /\ place[c] \in {"idle", "sleeping"} => Latest(c) \notin alive
       /\ place[c] = "over" /\ c \notin abandoned => Latest(c) \notin alive
       /\ place[c] = "sleeping" => tries[c] <= Allowed
       /\ place[c] = "idle" => tries[c] = 0
  /\ entries = {Latest(c) : c \in {d \in Retried : Scheduling /\ place[d] \in Awaiting}}

\* Allowed is one of two numbers.
LEMMA AllowedRange == Allowed \in 0..MaxRetries /\ MaxRetries \in Nat
BY RetryAssumption DEF Allowed

\* No call has been made.
LEMMA RetryInitially == RetryInit => RetryInv
<1> SUFFICES ASSUME RetryInit PROVE RetryInv
  OBVIOUS
<1>1. RetryTypeOK
  <2>1. /\ place \in [Retried -> Awaiting \cup {"idle", "sleeping", "over"}]
        /\ tries \in [Retried -> 0..MaxRetries + 1]
    BY RetryAssumption DEF RetryInit
  <2> QED BY <2>1 DEF RetryInit, RetryTypeOK
<1>2. entries = {Latest(c) : c \in {d \in Retried : Scheduling /\ place[d] \in Awaiting}}
  BY DEF RetryInit, Awaiting
<1> QED BY <1>1, <1>2 DEF RetryInit, RetryInv, Awaiting

\* A call whose last attempt has ended, or which has none, starts the next one.
LEMMA AnotherKeeps ==
  ASSUME RetryInv, NEW c \in Retried, tries[c] <= Allowed,
         NEW gone, gone = {Latest(c)} \/ (gone = {} /\ Latest(c) \notin alive),
         Another(c, gone), UNCHANGED <<form, abandoned, cleaning>>
  PROVE  RetryInv'
<1> USE DEF RetryInv, RetryTypeOK
<1> DEFINE next == <<c, tries[c] + 1>>
<1>1. /\ tries' = [tries EXCEPT ![c] = @ + 1]
      /\ alive' = (alive \ {Latest(c)}) \cup {next}
      /\ entries' = IF Scheduling THEN (entries \ {Latest(c)}) \cup {next} ELSE entries
      /\ place' = [place EXCEPT ![c] = "waiting"]
  BY DEF Another
<1>2. tries[c] + 1 \in 0..MaxRetries + 1 /\ tries[c] + 1 \in 1..MaxRetries + 1
  BY AllowedRange
<1>3. /\ Latest(c)' = next
      /\ \A d \in Retried \ {c} : Latest(d)' = Latest(d) /\ place'[d] = place[d] /\ tries'[d] = tries[d]
      /\ place'[c] = "waiting"
  BY <1>1 DEF Latest
<1>4. /\ tries' \in [Retried -> 0..MaxRetries + 1]
      /\ place' \in [Retried -> Awaiting \cup {"idle", "sleeping", "over"}]
      /\ alive' \subseteq Retried \X (1..MaxRetries + 1)
  BY <1>1, <1>2 DEF Awaiting
<1>5. \A d \in Retried : Latest(d) = <<d, tries[d]>>
  BY DEF Latest
<1>6. \A a \in alive' : a = <<a[1], tries'[a[1]]>>
  <2> TAKE a \in alive'
  <2>1. CASE a = next
    BY <1>1, <1>3, <2>1 DEF Latest
  <2>2. CASE a # next
    <3>1. a \in alive /\ a # Latest(c) /\ a[1] \in Retried /\ a = <<a[1], tries[a[1]]>>
      BY <1>1, <2>2 DEF Latest
    <3>2. a[1] # c
      BY <3>1 DEF Latest
    <3> QED BY <1>3, <3>1, <3>2
  <2> QED BY <2>1, <2>2
<1>7. entries' = {Latest(d)' : d \in {e \in Retried : Scheduling /\ place'[e] \in Awaiting}}
  <2>1. CASE Scheduling
    <3>1. ASSUME NEW x \in entries' PROVE \E d \in Retried : place'[d] \in Awaiting /\ x = Latest(d)'
      <4>1. CASE x = next
        BY <1>3, <4>1 DEF Awaiting
      <4>2. CASE x # next
        <5>1. x \in entries /\ x # Latest(c)
          BY <1>1, <2>1, <3>1, <4>2
        <5>2. PICK d \in Retried : place[d] \in Awaiting /\ x = Latest(d)
          BY <5>1
        <5> QED BY <1>3, <5>1, <5>2
      <4> QED BY <4>1, <4>2
    <3>2. ASSUME NEW d \in Retried, place'[d] \in Awaiting PROVE Latest(d)' \in entries'
      <4>1. CASE d = c
        BY <1>1, <1>3, <2>1, <4>1
      <4>2. CASE d # c
        <5>1. Latest(d)' = Latest(d) /\ Latest(d) \in entries /\ Latest(d) # Latest(c)
          BY <1>3, <2>1, <3>2, <4>2 DEF Latest
        <5> QED BY <1>1, <2>1, <5>1
      <4> QED BY <4>1, <4>2
    <3> QED BY <2>1, <3>1, <3>2
  <2>2. CASE ~Scheduling
    BY <1>1, <2>2
  <2> QED BY <2>1, <2>2
<1>8. Scheduling' = Scheduling /\ Allowed' = Allowed
  BY DEF Scheduling, Allowed
<1>9. ASSUME NEW d \in Retried
      PROVE  /\ place'[d] \in Awaiting => Latest(d)' \in alive'
             /\ place'[d] \in {"idle", "sleeping"} => Latest(d)' \notin alive'
             /\ place'[d] = "over" /\ d \notin abandoned' => Latest(d)' \notin alive'
             /\ place'[d] = "sleeping" => tries'[d] <= Allowed'
             /\ place'[d] = "idle" => tries'[d] = 0
  <2>1. CASE d = c
    BY <1>1, <1>3, <2>1 DEF Awaiting
  <2>2. CASE d # c
    <3>1. Latest(d) # Latest(c) /\ Latest(d) # next
      BY <2>2 DEF Latest
    <3> QED BY <1>1, <1>3, <1>8, <2>2, <3>1
  <2> QED BY <2>1, <2>2
<1>10. entries' \subseteq alive'
  BY <1>7, <1>9
<1>11. RetryTypeOK'
  BY <1>4, <1>10
<1> QED BY <1>6, <1>7, <1>8, <1>9, <1>11 DEF Latest

\* A call is over, and its attempt has ended unless the call is abandoned.
LEMMA OverKeeps ==
  ASSUME RetryInv, NEW c \in Retried, NEW gone, Over(c, gone),
         abandoned' \in {abandoned, abandoned \cup {c}},
         \/ gone = {Latest(c)}
         \/ gone = {} /\ (Latest(c) \notin alive \/ c \in abandoned'),
         UNCHANGED <<form, cleaning>>
  PROVE  RetryInv'
<1> USE DEF RetryInv, RetryTypeOK
<1>1. /\ place' = [place EXCEPT ![c] = "over"] /\ tries' = tries
      /\ alive' = alive \ gone /\ entries' = entries \ {Latest(c)}
  BY DEF Over
<1>2. /\ \A d \in Retried : Latest(d)' = Latest(d) /\ Latest(d) = <<d, tries[d]>>
      /\ \A d \in Retried \ {c} : place'[d] = place[d] /\ Latest(d) # Latest(c)
      /\ place'[c] = "over" /\ Scheduling' = Scheduling /\ Allowed' = Allowed
  BY <1>1 DEF Latest, Scheduling, Allowed
<1>3. /\ place' \in [Retried -> Awaiting \cup {"idle", "sleeping", "over"}]
      /\ alive' \subseteq Retried \X (1..MaxRetries + 1)
  BY <1>1
<1>4. \A a \in alive' : a = Latest(a[1])'
  <2>1. \A a \in alive : a[1] \in Retried
    OBVIOUS
  <2> QED BY <1>1, <1>2, <2>1
<1>5. entries' = {Latest(d)' : d \in {e \in Retried : Scheduling /\ place'[e] \in Awaiting}}
  <2>1. ASSUME NEW x \in entries'
        PROVE  \E d \in Retried : Scheduling /\ place'[d] \in Awaiting /\ x = Latest(d)'
    <3>1. x \in entries /\ x # Latest(c)
      BY <1>1, <2>1
    <3>2. PICK d \in Retried : Scheduling /\ place[d] \in Awaiting /\ x = Latest(d)
      BY <3>1
    <3> QED BY <1>2, <3>1, <3>2
  <2>2. ASSUME NEW d \in Retried, Scheduling, place'[d] \in Awaiting PROVE Latest(d)' \in entries'
    <3>1. d # c /\ place[d] \in Awaiting
      BY <1>2, <2>2 DEF Awaiting
    <3>2. Latest(d) \in entries
      BY <2>2, <3>1
    <3> QED BY <1>1, <1>2, <3>1, <3>2
  <2> QED BY <2>1, <2>2
<1>6. ASSUME NEW d \in Retried
      PROVE  /\ place'[d] \in Awaiting => Latest(d)' \in alive'
             /\ place'[d] \in {"idle", "sleeping"} => Latest(d)' \notin alive'
             /\ place'[d] = "over" /\ d \notin abandoned' => Latest(d)' \notin alive'
             /\ place'[d] = "sleeping" => tries'[d] <= Allowed'
             /\ place'[d] = "idle" => tries'[d] = 0
  <2>1. CASE d = c
    BY <1>1, <1>2, <2>1 DEF Awaiting
  <2>2. CASE d # c
    BY <1>1, <1>2, <2>2
  <2> QED BY <2>1, <2>2
<1>7. entries' \subseteq alive' /\ abandoned' \subseteq Retried
  BY <1>5, <1>6
<1>8. RetryTypeOK'
  BY <1>1, <1>3, <1>7
<1> QED BY <1>2, <1>4, <1>5, <1>6, <1>8

\* An attempt fails: the call sleeps before the next one, or is over.
LEMMA AttemptFailsKeeps ==
  ASSUME RetryInv, NEW c \in Retried, AttemptFails(c)
  PROVE  RetryInv'
<1>1. /\ place[c] \in {"waiting", "expiring"} /\ Latest(c) \in alive
      /\ UNCHANGED <<form, abandoned, cleaning>>
  BY DEF AttemptFails
<1>2. tries[c] \in Int /\ Allowed \in Int
  BY AllowedRange DEF RetryInv, RetryTypeOK
<1>3. CASE tries[c] > Allowed
  BY <1>1, <1>3, OverKeeps DEF AttemptFails
<1>4. CASE tries[c] <= Allowed /\ Scheduling
  <2>1. Another(c, {Latest(c)})
    BY <1>2, <1>4 DEF AttemptFails
  <2> QED BY <1>1, <1>4, <2>1, AnotherKeeps
<1>5. CASE tries[c] <= Allowed /\ ~Scheduling
  <2> USE DEF RetryInv, RetryTypeOK
  <2>1. /\ place' = [place EXCEPT ![c] = "sleeping"] /\ alive' = alive \ {Latest(c)}
        /\ UNCHANGED <<tries, entries>>
    BY <1>2, <1>5 DEF AttemptFails
  <2>2. /\ \A d \in Retried : Latest(d)' = Latest(d) /\ Latest(d) = <<d, tries[d]>>
        /\ \A d \in Retried \ {c} : place'[d] = place[d] /\ Latest(d) # Latest(c)
        /\ place'[c] = "sleeping" /\ Scheduling' = Scheduling /\ Allowed' = Allowed
    BY <1>1, <2>1 DEF Latest, Scheduling, Allowed
  <2>3. \A a \in alive' : a = Latest(a[1])'
    <3>1. \A a \in alive : a[1] \in Retried
      OBVIOUS
    <3> QED BY <2>1, <2>2, <3>1
  <2>4. entries = {} /\ entries' = {Latest(d)' : d \in {e \in Retried : Scheduling' /\ place'[e] \in Awaiting}}
    BY <1>5, <2>1, <2>2
  <2>5. ASSUME NEW d \in Retried
        PROVE  /\ place'[d] \in Awaiting => Latest(d)' \in alive'
               /\ place'[d] \in {"idle", "sleeping"} => Latest(d)' \notin alive'
               /\ place'[d] = "over" /\ d \notin abandoned' => Latest(d)' \notin alive'
               /\ place'[d] = "sleeping" => tries'[d] <= Allowed'
               /\ place'[d] = "idle" => tries'[d] = 0
    <3>1. CASE d = c
      BY <1>1, <1>5, <2>1, <2>2, <3>1 DEF Awaiting
    <3>2. CASE d # c
      BY <1>1, <2>1, <2>2, <3>2
    <3> QED BY <3>1, <3>2
  <2>6. RetryTypeOK'
    BY <1>1, <2>1, <2>4
  <2> QED BY <2>3, <2>4, <2>5, <2>6
<1> QED BY <1>2, <1>3, <1>4, <1>5

\* A call that awaits its attempt, and goes on awaiting it.
LEMMA StillAwaiting ==
  ASSUME RetryInv, NEW c \in Retried, place[c] \in Awaiting, NEW p \in Awaiting,
         place' = [place EXCEPT ![c] = p],
         UNCHANGED <<form, tries, alive, entries, abandoned, cleaning>>
  PROVE  RetryInv'
<1> USE DEF RetryInv, RetryTypeOK
<1>1. \A d \in Retried : /\ Latest(d)' = Latest(d)
                         /\ place'[d] \in Awaiting <=> place[d] \in Awaiting
                         /\ place'[d] \notin Awaiting => place'[d] = place[d]
  BY DEF Latest
<1>2. RetryTypeOK' /\ Scheduling' = Scheduling /\ Allowed' = Allowed
  BY DEF Scheduling, Allowed
<1>3. entries' = {Latest(d)' : d \in {e \in Retried : Scheduling' /\ place'[e] \in Awaiting}}
  BY <1>1, <1>2
<1>4. \A a \in alive' : a = Latest(a[1])'
  <2>1. \A a \in alive : a[1] \in Retried
    OBVIOUS
  <2> QED BY <1>1, <2>1
<1> QED BY <1>1, <1>2, <1>3, <1>4 DEF Awaiting

\* RetryInv is inductive.
LEMMA RetryStep ==
  ASSUME RetryInv, [RetryNext]_retryVars
  PROVE  RetryInv'
<1>1. ASSUME NEW c \in Retried, FirstAttempt(c) PROVE RetryInv'
  <2>1. Latest(c) \notin alive /\ tries[c] <= Allowed
    BY <1>1, AllowedRange DEF FirstAttempt, RetryInv
  <2> QED BY <1>1, <2>1, AnotherKeeps DEF FirstAttempt
<1>2. ASSUME NEW c \in Retried, AttemptDecides(c) PROVE RetryInv'
  BY <1>2, OverKeeps DEF AttemptDecides
<1>3. ASSUME NEW c \in Retried, DelayOver(c) PROVE RetryInv'
  <2>1. Latest(c) \notin alive /\ tries[c] <= Allowed
    BY <1>3 DEF DelayOver, RetryInv
  <2> QED BY <1>3, <2>1, AnotherKeeps DEF DelayOver
<1>4. ASSUME NEW c \in Retried, Expire(c) PROVE RetryInv'
  BY <1>4, StillAwaiting DEF Expire, Awaiting
<1>5. ASSUME NEW c \in Retried, CancelRetried(c) PROVE RetryInv'
  <2>1. CASE Scheduling /\ place[c] = "waiting" /\ place' = [place EXCEPT ![c] = "leaving"]
             /\ UNCHANGED <<tries, alive, entries, abandoned>>
    BY <1>5, <2>1, StillAwaiting DEF CancelRetried, Awaiting
  <2>2. CASE Over(c, {}) /\ abandoned' = abandoned \cup {c}
    BY <1>5, <2>2, OverKeeps DEF CancelRetried
  <2>3. CASE place[c] = "sleeping" /\ Over(c, {}) /\ UNCHANGED abandoned
    <3>1. Latest(c) \notin alive
      BY <2>3 DEF RetryInv
    <3> QED BY <1>5, <2>3, <3>1, OverKeeps DEF CancelRetried
  <2> QED BY <1>5, <2>1, <2>2, <2>3 DEF CancelRetried
<1>6. ASSUME NEW c \in Retried, StrayEnds(c) PROVE RetryInv'
  <2> USE DEF RetryInv, RetryTypeOK
  <2>1. /\ place[c] = "over" /\ alive' = alive \ {Latest(c)}
        /\ UNCHANGED <<form, place, tries, entries, abandoned, cleaning>>
    BY <1>6 DEF StrayEnds
  <2>2. /\ \A d \in Retried : Latest(d)' = Latest(d) /\ Latest(d) = <<d, tries[d]>>
        /\ Scheduling' = Scheduling /\ Allowed' = Allowed
    BY <2>1 DEF Latest, Scheduling, Allowed
  <2>3. \A d \in Retried : place[d] \in Awaiting => Latest(d) \in alive'
    BY <2>1, <2>2 DEF Awaiting
  <2>4. \A a \in alive' : a[1] \in Retried
    BY <2>1
  <2>5. entries' = {Latest(d)' : d \in {e \in Retried : Scheduling' /\ place'[e] \in Awaiting}}
    BY <2>1, <2>2
  <2>6. entries' \subseteq alive'
    BY <2>2, <2>3, <2>5, <2>1
  <2> QED BY <2>1, <2>2, <2>3, <2>4, <2>5, <2>6
<1>7. CASE StartOrStop \/ CleanUpEntries \/ UNCHANGED retryVars
  <2>1. /\ UNCHANGED <<form, place, tries, alive, entries, abandoned>>
        /\ cleaning' \in BOOLEAN
    BY <1>7 DEF StartOrStop, CleanUpEntries, retryVars, RetryInv, RetryTypeOK
  <2> QED BY <2>1 DEF RetryInv, RetryTypeOK, Latest, Scheduling, Allowed
<1> QED BY <1>1, <1>2, <1>3, <1>4, <1>5, <1>6, <1>7, AttemptFailsKeeps DEF RetryNext

\* Two attempts of one call that run are both its last one.
LEMMA RetryInvSuffices == RetryInv => AttemptsApart
<1> SUFFICES ASSUME RetryInv PROVE AttemptsApart
  OBVIOUS
<1>1. ASSUME NEW c \in Retried, NEW a \in alive, NEW b \in alive, a[1] = c, b[1] = c
      PROVE  a = b
  BY <1>1 DEF RetryInv
<1> QED BY <1>1 DEF RetryInv, AttemptsApart

-----------------------------------------------------------------------------
(* The gates. *)

Places == {"out", "queued", "granted", "inside", "adrift", "done"}
InPlace(f, spot) == {t \in GateTasks : f[t] = spot}
\* Those who have a slot.
Holding(f) == InPlace(f, "granted") \cup InPlace(f, "inside")

\* The line, and where its tasks are.
LineInv ==
  /\ at \in [GateTasks -> Places]
  /\ waiters \in Seq(GateTasks) /\ IsInjective(waiters)
  /\ Range(waiters) = InPlace(at, "queued")
  /\ waiters # <<>> => IF gate = "latch" THEN count > 0 ELSE slots = 0

\* The slots of a semaphore are free, or given to those that go in or are in.
SlotInv ==
  /\ room \in Limits /\ slots \in Nat
  /\ IF Limiting THEN slots + Cardinality(Holding(at)) = room
                 ELSE slots = room /\ InPlace(at, "inside") = {}
  /\ current = IF gate = "limiter" THEN Cardinality(InPlace(at, "inside")) ELSE 0

\* What is left of a gather(): nobody starts when it has been cancelled, and only
\* functions in threads run without a slot.
GatherInv ==
  /\ gathered \in {"running", "returned", "raised", "cancelled"}
  /\ keepErrors \in BOOLEAN /\ gate \in {"limiter", "gather", "threads", "latch"}
  /\ ~Gathering => gathered = "running"
  /\ gathered = "returned" => \A t \in GateTasks : at[t] = "done"
  /\ IF gate = "threads" /\ gathered = "cancelled"
     THEN InPlace(at, "inside") = {} /\ Cardinality(InPlace(at, "adrift")) <= room
     ELSE InPlace(at, "adrift") = {}
  /\ gathered = "cancelled" =>
       \A t \in GateTasks : at[t] \in {"inside", "adrift", "done"}

\* Nobody passes a latch, and no wait() says True, before it is open.
LatchInv ==
  /\ count \in 0..MaxCount /\ answer \in [GateTasks -> SUBSET BOOLEAN]
  /\ bounded \subseteq InPlace(at, "queued") \cup InPlace(at, "granted")
  /\ gate # "latch" => bounded = {}
  /\ gate = "latch" /\ InPlace(at, "granted") # {} => count = 0
  /\ \A t \in GateTasks : TRUE \in answer[t] => count = 0

GateInv == LineInv /\ SlotInv /\ GatherInv /\ LatchInv

\* The tasks of a place are finitely many.
LEMMA InPlaceFinite ==
  ASSUME NEW f, NEW spot
  PROVE  /\ IsFiniteSet(InPlace(f, spot)) /\ Cardinality(InPlace(f, spot)) \in Nat
         /\ IsFiniteSet(Holding(f)) /\ Cardinality(Holding(f)) \in Nat
         /\ \A S \in SUBSET GateTasks : /\ IsFiniteSet(S) /\ Cardinality(S) \in Nat
                                        /\ Cardinality(S) <= Cardinality(GateTasks)
<1>1. \A S \in SUBSET GateTasks : /\ IsFiniteSet(S) /\ Cardinality(S) \in Nat
                                  /\ Cardinality(S) <= Cardinality(GateTasks)
  BY GateAssumption, FS_Subset, FS_CardinalityType
<1> QED BY <1>1 DEF InPlace, Holding

\* One element more or less.
LEMMA CountOne ==
  ASSUME NEW S \in SUBSET GateTasks, NEW t \in GateTasks
  PROVE  /\ t \notin S => Cardinality(S \cup {t}) = Cardinality(S) + 1
         /\ t \in S => Cardinality(S \ {t}) = Cardinality(S) - 1
         /\ Cardinality(S) \in Nat
<1>1. IsFiniteSet(S)
  BY InPlaceFinite
<1> QED BY <1>1, FS_AddElement, FS_RemoveElement, FS_CardinalityType

\* Everybody is out, and every slot is free.
LEMMA GateInitially == GateInit => GateInv
<1> SUFFICES ASSUME GateInit PROVE GateInv
  OBVIOUS
<1>1. at = [t \in GateTasks |-> "out"] /\ at \in [GateTasks -> Places]
  BY DEF GateInit, Places
<1>2. \A q \in Places : q # "out" => InPlace(at, q) = {}
  BY <1>1 DEF InPlace
<1>3. Holding(at) = {} /\ Cardinality({}) = 0 /\ InPlace(at, "inside") = {}
  BY <1>2, FS_EmptySet DEF Holding, Places
<1>4. LineInv
  <2>1. <<>> \in Seq(GateTasks) /\ IsInjective(<<>>) /\ Range(<<>>) = {}
    BY EmptySeq, EmptyRange
  <2> QED BY <1>1, <1>2, <2>1 DEF LineInv, GateInit, Places
<1>5. SlotInv
  <2>1. room \in Limits /\ room \in Nat /\ slots = room /\ current = 0
    BY GateAssumption DEF GateInit
  <2>2. slots + Cardinality(Holding(at)) = room
    BY <1>3, <2>1
  <2> QED BY <1>3, <2>1, <2>2 DEF SlotInv
<1>6. GatherInv
  <2>1. keepErrors \in BOOLEAN
    BY DEF GateInit
  <2> QED BY <1>2, <2>1 DEF GatherInv, GateInit, Places
<1>7. LatchInv
  <2>1. count \in 0..MaxCount
    BY GateAssumption DEF GateInit, LatchCounts
  <2>2. answer = [t \in GateTasks |-> {}] /\ bounded = {}
    BY DEF GateInit
  <2>3. answer \in [GateTasks -> SUBSET BOOLEAN] /\ \A t \in GateTasks : TRUE \notin answer[t]
    BY <2>2
  <2> QED BY <1>2, <2>1, <2>2, <2>3 DEF LatchInv, Places
<1> QED BY <1>4, <1>5, <1>6, <1>7 DEF GateInv

\* A task takes a free slot, or joins the line when there is none.
LEMMA EnterGateKeeps ==
  ASSUME GateInv, NEW t \in GateTasks, EnterGate(t)
  PROVE  GateInv'
<1>1. /\ at \in [GateTasks -> Places] /\ at[t] = "out" /\ Limiting /\ gate # "latch"
      /\ UNCHANGED <<gate, room, keepErrors, gathered, count, bounded, answer>>
      /\ Gathering => gathered # "cancelled"
      /\ gathered # "cancelled" /\ gathered # "returned"
      /\ waiters \in Seq(GateTasks) /\ IsInjective(waiters)
      /\ Range(waiters) = InPlace(at, "queued") /\ t \notin Range(waiters)
      /\ bounded = {}
  BY DEF EnterGate, Limiting, GateInv, LineInv, GatherInv, LatchInv, InPlace
<1>2. /\ InPlace(at, "inside") \in SUBSET GateTasks /\ t \notin InPlace(at, "inside")
      /\ Holding(at) \in SUBSET GateTasks /\ t \notin Holding(at)
  BY <1>1 DEF InPlace, Holding
<1>3. CASE /\ slots > 0 /\ waiters = <<>>
           /\ slots' = slots - 1 /\ at' = [at EXCEPT ![t] = "inside"]
           /\ Counted(1) /\ UNCHANGED waiters
  <2>1. at' \in [GateTasks -> Places]
    BY <1>1, <1>3 DEF Places
  <2>2. /\ InPlace(at', "queued") = InPlace(at, "queued")
        /\ InPlace(at', "adrift") = InPlace(at, "adrift")
        /\ InPlace(at', "inside") = InPlace(at, "inside") \cup {t}
        /\ Holding(at') = Holding(at) \cup {t}
    BY <1>1, <1>3 DEF InPlace, Holding
  <2>3. /\ Cardinality(InPlace(at', "inside")) = Cardinality(InPlace(at, "inside")) + 1
        /\ Cardinality(Holding(at')) = Cardinality(Holding(at)) + 1
        /\ Cardinality(InPlace(at, "inside")) \in Nat /\ Cardinality(Holding(at)) \in Nat
    BY <1>2, <2>2, CountOne
  <2>4. LineInv'
    BY <1>1, <1>3, <2>1, <2>2 DEF LineInv, GateInv
  <2>5. SlotInv'
    <3>1. room \in Nat /\ slots \in Nat
      BY GateAssumption DEF GateInv, SlotInv
    <3> QED BY <1>1, <1>3, <2>3, <3>1 DEF SlotInv, GateInv, Counted, Limiting
  <2>6. GatherInv'
    BY <1>1, <2>2 DEF GatherInv, GateInv, Gathering
  <2>7. LatchInv'
    BY <1>1 DEF LatchInv, GateInv
  <2> QED BY <2>4, <2>5, <2>6, <2>7 DEF GateInv
<1>4. CASE /\ ~(slots > 0 /\ waiters = <<>>)
           /\ waiters' = Append(waiters, t) /\ at' = [at EXCEPT ![t] = "queued"]
           /\ UNCHANGED <<slots, current>>
  <2>1. at' \in [GateTasks -> Places]
    BY <1>1, <1>4 DEF Places
  <2>2. /\ InPlace(at', "queued") = InPlace(at, "queued") \cup {t}
        /\ InPlace(at', "adrift") = InPlace(at, "adrift")
        /\ InPlace(at', "inside") = InPlace(at, "inside")
        /\ Holding(at') = Holding(at)
    BY <1>1, <1>4 DEF InPlace, Holding
  <2>3. /\ waiters' \in Seq(GateTasks) /\ IsInjective(waiters')
        /\ Range(waiters') = Range(waiters) \cup {t}
    BY <1>1, <1>4, AppendRange
  <2>4. slots = 0
    BY <1>1, <1>4 DEF GateInv, LineInv, SlotInv
  <2>5. LineInv'
    BY <1>1, <1>4, <2>1, <2>2, <2>3, <2>4 DEF LineInv
  <2>6. SlotInv'
    BY <1>1, <1>4, <2>2 DEF SlotInv, GateInv, Limiting
  <2>7. GatherInv'
    BY <1>1, <2>2 DEF GatherInv, GateInv, Gathering
  <2>8. LatchInv'
    BY <1>1 DEF LatchInv, GateInv
  <2> QED BY <2>5, <2>6, <2>7, <2>8 DEF GateInv
<1> QED BY <1>3, <1>4 DEF EnterGate

\* A task that was given a slot goes on.
LEMMA AdmitKeeps ==
  ASSUME GateInv, NEW t \in GateTasks, Admit(t)
  PROVE  GateInv'
<1>1. /\ at \in [GateTasks -> Places] /\ at[t] = "granted" /\ Limiting /\ gate # "latch"
      /\ at' = [at EXCEPT ![t] = "inside"] /\ Counted(1)
      /\ UNCHANGED <<gate, room, slots, waiters, keepErrors, gathered, count, bounded, answer>>
      /\ gathered # "cancelled" /\ gathered # "returned"
      /\ bounded = {}
  BY DEF Admit, Limiting, GateInv, LineInv, GatherInv, LatchInv, InPlace
<1>2. /\ InPlace(at, "inside") \in SUBSET GateTasks /\ t \notin InPlace(at, "inside")
  BY <1>1 DEF InPlace
<1>3. at' \in [GateTasks -> Places]
  BY <1>1 DEF Places
<1>4. /\ InPlace(at', "queued") = InPlace(at, "queued")
      /\ InPlace(at', "adrift") = InPlace(at, "adrift")
      /\ InPlace(at', "inside") = InPlace(at, "inside") \cup {t}
      /\ Holding(at') = Holding(at)
  BY <1>1 DEF InPlace, Holding
<1>5. /\ Cardinality(InPlace(at', "inside")) = Cardinality(InPlace(at, "inside")) + 1
      /\ Cardinality(InPlace(at, "inside")) \in Nat
  BY <1>2, <1>4, CountOne
<1>6. LineInv'
  BY <1>1, <1>3, <1>4 DEF LineInv, GateInv
<1>7. SlotInv'
  BY <1>1, <1>4, <1>5 DEF SlotInv, GateInv, Counted, Limiting
<1>8. GatherInv'
  BY <1>1, <1>4 DEF GatherInv, GateInv, Gathering
<1>9. LatchInv'
  BY <1>1 DEF LatchInv, GateInv
<1> QED BY <1>6, <1>7, <1>8, <1>9 DEF GateInv

\* A slot is given back by a task that leaves: the first of the line has it.
LEMMA GiveBackMoves ==
  ASSUME GateInv, Limiting, NEW t \in GateTasks, at[t] \in {"granted", "inside"},
         NEW p \in {"out", "done"}, GiveBack([at EXCEPT ![t] = p]),
         UNCHANGED <<gate, count>>
  PROVE  /\ LineInv'
         /\ slots' \in Nat
         /\ slots' + Cardinality(Holding(at')) = slots + Cardinality(Holding(at))
         /\ InPlace(at', "inside") = InPlace(at, "inside") \ {t}
         /\ InPlace(at', "adrift") = InPlace(at, "adrift")
         /\ at'[t] = p
         /\ \A s \in GateTasks \ {t} : at[s] # "queued" => at'[s] = at[s]
<1>1. /\ at \in [GateTasks -> Places] /\ gate # "latch" /\ slots \in Nat
      /\ waiters \in Seq(GateTasks) /\ IsInjective(waiters)
      /\ Range(waiters) = InPlace(at, "queued")
      /\ gate' = gate
      /\ p \in Places /\ "granted" \in Places
  BY DEF GateInv, LineInv, SlotInv, Limiting, Places
<1>2. Holding(at) \in SUBSET GateTasks /\ t \in Holding(at)
  BY <1>1 DEF Holding, InPlace
<1>3. CASE waiters = <<>>
  <2>1. slots' = slots + 1 /\ at' = [at EXCEPT ![t] = p] /\ waiters' = <<>>
    BY <1>3 DEF GiveBack
  <2>2. at' \in [GateTasks -> Places]
    BY <1>1, <2>1
  <2>3. /\ InPlace(at', "inside") = InPlace(at, "inside") \ {t}
        /\ InPlace(at', "adrift") = InPlace(at, "adrift")
        /\ InPlace(at', "queued") = InPlace(at, "queued")
        /\ Holding(at') = Holding(at) \ {t}
        /\ at'[t] = p
        /\ \A s \in GateTasks \ {t} : at[s] # "queued" => at'[s] = at[s]
    BY <1>1, <2>1 DEF InPlace, Holding
  <2>4. /\ Cardinality(Holding(at')) = Cardinality(Holding(at)) - 1
        /\ Cardinality(Holding(at)) \in Nat
    BY <1>2, <2>3, CountOne
  <2>5. LineInv'
    BY <1>1, <1>3, <2>1, <2>2, <2>3 DEF LineInv
  <2>6. slots' \in Nat /\ slots' + Cardinality(Holding(at')) = slots + Cardinality(Holding(at))
    BY <1>1, <2>1, <2>4
  <2> QED BY <2>3, <2>5, <2>6
<1>4. CASE waiters # <<>>
  <2> DEFINE h == Head(waiters)
  <2>1. /\ h \in GateTasks /\ waiters' = Tail(waiters) /\ slots' = slots
        /\ at' = [[at EXCEPT ![t] = p] EXCEPT ![h] = "granted"]
    BY <1>1, <1>4, TailRange DEF GiveBack
  <2>2. /\ Tail(waiters) \in Seq(GateTasks) /\ IsInjective(Tail(waiters))
        /\ Range(waiters) = {h} \cup Range(Tail(waiters)) /\ h \notin Range(Tail(waiters))
    BY <1>1, <1>4, TailRange
  <2> HIDE DEF h
  <2>3. at[h] = "queued" /\ h # t
    BY <1>1, <2>2 DEF InPlace
  <2>4. at' \in [GateTasks -> Places]
    BY <1>1, <2>1
  <2>5. /\ InPlace(at', "inside") = InPlace(at, "inside") \ {t}
        /\ InPlace(at', "adrift") = InPlace(at, "adrift")
        /\ InPlace(at', "queued") = InPlace(at, "queued") \ {h}
        /\ Holding(at') = (Holding(at) \ {t}) \cup {h} /\ h \notin Holding(at)
        /\ at'[t] = p
        /\ \A s \in GateTasks \ {t} : at[s] # "queued" => at'[s] = at[s]
    BY <1>1, <2>1, <2>3 DEF InPlace, Holding
  <2>6. /\ Cardinality(Holding(at) \ {t}) = Cardinality(Holding(at)) - 1
        /\ Cardinality(Holding(at)) \in Nat
    BY <1>2, CountOne
  <2>7. Cardinality((Holding(at) \ {t}) \cup {h}) = Cardinality(Holding(at) \ {t}) + 1
    <3>1. Holding(at) \ {t} \in SUBSET GateTasks /\ h \notin Holding(at) \ {t}
      BY <1>2, <2>5
    <3> QED BY <2>1, <3>1, CountOne
  <2>8. Cardinality(Holding(at')) = Cardinality(Holding(at))
    BY <2>5, <2>6, <2>7
  <2>9. Range(Tail(waiters)) = InPlace(at', "queued")
    <3>1. Range(Tail(waiters)) = Range(waiters) \ {h}
      BY <2>2
    <3> QED BY <1>1, <2>5, <3>1
  <2>10. slots = 0
    BY <1>1, <1>4 DEF GateInv, LineInv
  <2>11. LineInv'
    BY <1>1, <2>1, <2>2, <2>4, <2>9, <2>10 DEF LineInv
  <2> QED BY <1>1, <2>1, <2>5, <2>8, <2>11
<1> QED BY <1>3, <1>4

\* A task that waits, or has been let in but has not gone on, is cancelled.
LEMMA CancelWaitingKeeps ==
  ASSUME GateInv, NEW t \in GateTasks, CancelWaiting(t)
  PROVE  GateInv'
<1>1. /\ at \in [GateTasks -> Places] /\ Limiting /\ gate = "limiter" /\ ~Gathering
      /\ UNCHANGED <<gate, room, current, keepErrors, gathered, count, bounded, answer>>
      /\ waiters \in Seq(GateTasks) /\ IsInjective(waiters)
      /\ Range(waiters) = InPlace(at, "queued")
      /\ bounded = {} /\ gathered = "running" /\ slots \in Nat
      /\ InPlace(at, "adrift") = {}
  BY DEF CancelWaiting, Limiting, GateInv, LineInv, SlotInv, GatherInv, LatchInv, Gathering
<1>2. CASE /\ at[t] = "queued"
           /\ at' = [at EXCEPT ![t] = "out"] /\ waiters' = RemoveFirst(waiters, t)
           /\ UNCHANGED slots
  <2>1. at' \in [GateTasks -> Places]
    BY <1>1, <1>2 DEF Places
  <2>2. /\ InPlace(at', "queued") = InPlace(at, "queued") \ {t}
        /\ InPlace(at', "adrift") = InPlace(at, "adrift")
        /\ InPlace(at', "inside") = InPlace(at, "inside")
        /\ Holding(at') = Holding(at)
    BY <1>1, <1>2 DEF InPlace, Holding
  <2>3. /\ RemoveFirst(waiters, t) \in Seq(GateTasks) /\ IsInjective(RemoveFirst(waiters, t))
        /\ Range(RemoveFirst(waiters, t)) = Range(waiters) \ {t}
    BY <1>1, RemoveFirstRange
  <2>4. slots = 0
    <3>1. waiters # <<>>
      BY <1>1, <1>2, EmptyRange DEF InPlace
    <3> QED BY <1>1, <3>1 DEF GateInv, LineInv
  <2>5. LineInv'
    BY <1>1, <1>2, <2>1, <2>2, <2>3, <2>4 DEF LineInv
  <2>6. SlotInv'
    BY <1>1, <1>2, <2>2 DEF SlotInv, GateInv, Limiting
  <2>7. GatherInv'
    BY <1>1, <2>2 DEF GatherInv, GateInv, Gathering
  <2>8. LatchInv'
    BY <1>1 DEF LatchInv, GateInv
  <2> QED BY <2>5, <2>6, <2>7, <2>8 DEF GateInv
<1>3. CASE at[t] = "granted" /\ GiveBack([at EXCEPT ![t] = "out"])
  <2>1. /\ LineInv' /\ slots' \in Nat
        /\ slots' + Cardinality(Holding(at')) = slots + Cardinality(Holding(at))
        /\ InPlace(at', "inside") = InPlace(at, "inside") \ {t}
        /\ InPlace(at', "adrift") = InPlace(at, "adrift")
    BY <1>1, <1>3, GiveBackMoves
  <2>2. InPlace(at', "inside") = InPlace(at, "inside")
    BY <1>3, <2>1 DEF InPlace
  <2>3. SlotInv'
    BY <1>1, <2>1, <2>2 DEF SlotInv, GateInv, Limiting
  <2>4. GatherInv'
    BY <1>1, <2>1 DEF GatherInv, GateInv, Gathering
  <2>5. LatchInv'
    BY <1>1 DEF LatchInv, GateInv
  <2> QED BY <2>1, <2>3, <2>4, <2>5 DEF GateInv
<1> QED BY <1>2, <1>3 DEF CancelWaiting

\* A function has ended.
LEMMA LeaveGateKeeps ==
  ASSUME GateInv, NEW t \in GateTasks, NEW b \in BOOLEAN, LeaveGate(t, b)
  PROVE  GateInv'
<1> DEFINE p == IF Gathering THEN "done" ELSE "out"
<1>1. /\ at \in [GateTasks -> Places] /\ Limiting /\ gate # "latch" /\ at[t] = "inside"
      /\ UNCHANGED <<gate, room, keepErrors, count, bounded, answer>>
      /\ GiveBack([at EXCEPT ![t] = p]) /\ Counted(-1)
      /\ bounded = {} /\ slots \in Nat /\ gathered # "returned"
      /\ p \in {"out", "done"}
  BY DEF LeaveGate, Limiting, GateInv, LineInv, SlotInv, GatherInv, LatchInv, Gathering
<1>2. /\ LineInv' /\ slots' \in Nat
      /\ slots' + Cardinality(Holding(at')) = slots + Cardinality(Holding(at))
      /\ InPlace(at', "inside") = InPlace(at, "inside") \ {t}
      /\ InPlace(at', "adrift") = InPlace(at, "adrift")
      /\ at'[t] = p
      /\ \A s \in GateTasks \ {t} : at[s] # "queued" => at'[s] = at[s]
  <2> HIDE DEF p
  <2> QED BY <1>1, GiveBackMoves
<1>3. /\ Cardinality(InPlace(at', "inside")) = Cardinality(InPlace(at, "inside")) - 1
      /\ Cardinality(InPlace(at, "inside")) \in Nat
  <2>1. InPlace(at, "inside") \in SUBSET GateTasks /\ t \in InPlace(at, "inside")
    BY <1>1 DEF InPlace
  <2> QED BY <1>2, <2>1, CountOne
<1>4. SlotInv'
  BY <1>1, <1>2, <1>3 DEF SlotInv, GateInv, Limiting, Counted
<1>5. LatchInv'
  BY <1>1 DEF LatchInv, GateInv
<1>6. GatherInv'
  <2>1. CASE ~Gathering
    <3>1. gathered' = gathered
      BY <2>1 DEF LeaveGate
    <3> QED BY <1>1, <1>2, <2>1, <3>1 DEF GatherInv, GateInv, Gathering
  <2>2. CASE Gathering /\ gathered # "running"
    <3>1. gathered' = gathered
      BY <2>2 DEF LeaveGate, Collect
    <3>2. ~(gate = "threads" /\ gathered = "cancelled") /\ InPlace(at, "adrift") = {}
      BY <1>1 DEF GatherInv, GateInv, InPlace
    <3>3. gathered = "cancelled" =>
            \A s \in GateTasks : at'[s] \in {"inside", "adrift", "done"}
      BY <1>2, <2>2 DEF GatherInv, GateInv
    <3> QED BY <1>1, <1>2, <2>2, <3>1, <3>2, <3>3 DEF GatherInv, GateInv, Gathering
  <2>3. CASE Gathering /\ gathered = "running"
    <3>1. InPlace(at, "adrift") = {}
      BY <2>3 DEF GatherInv, GateInv
    <3>2. /\ gathered' \in {"running", "returned", "raised"}
          /\ gathered' = "returned" => \A s \in GateTasks \ {t} : at[s] = "done"
      BY <2>3 DEF LeaveGate, Collect
    <3>3. gathered' = "returned" => \A s \in GateTasks : at'[s] = "done"
      <4>1. at'[t] = "done"
        BY <1>2, <2>3
      <4> QED BY <1>2, <3>2, <4>1
    <3> QED BY <1>1, <1>2, <2>3, <3>1, <3>2, <3>3 DEF GatherInv, GateInv, Gathering
  <2> QED BY <2>1, <2>2, <2>3
<1> QED BY <1>2, <1>4, <1>5, <1>6 DEF GateInv


\* The task that awaits gather() is cancelled.
LEMMA CancelGatherKeeps ==
  ASSUME GateInv, CancelGather
  PROVE  GateInv'
<1> DEFINE G == InPlace(at, "granted")
           I == InPlace(at, "inside")
<1>1. /\ at \in [GateTasks -> Places] /\ Gathering /\ Limiting /\ gathered = "running"
      /\ gate \in {"gather", "threads"}
      /\ gathered' = "cancelled" /\ waiters' = <<>> /\ bounded = {}
      /\ UNCHANGED <<gate, room, current, keepErrors, count, bounded, answer>>
      /\ slots \in Nat /\ room \in Nat /\ slots + Cardinality(Holding(at)) = room
      /\ InPlace(at, "adrift") = {} /\ current = 0
      /\ slots' = slots + Cardinality(G) + (IF gate = "threads" THEN Cardinality(I) ELSE 0)
  BY GateAssumption
     DEF CancelGather, Gathering, Limiting, GateInv, LineInv, SlotInv, GatherInv, LatchInv,
         AtGate, InPlace
<1>2. \A s \in GateTasks :
        at'[s] = IF at[s] \in {"out", "queued", "granted"} THEN "done"
                 ELSE IF at[s] = "inside" /\ gate = "threads" THEN "adrift"
                 ELSE at[s]
  BY DEF CancelGather
<1>3. at' \in [GateTasks -> Places]
  <2>1. at' = [s \in GateTasks |-> at'[s]]
    BY DEF CancelGather
  <2>2. \A s \in GateTasks : at'[s] \in Places
    BY <1>1, <1>2 DEF Places
  <2> QED BY <2>1, <2>2
<1>4. /\ InPlace(at', "queued") = {} /\ InPlace(at', "granted") = {}
      /\ gate = "threads" => InPlace(at', "inside") = {} /\ InPlace(at', "adrift") = I
      /\ gate = "gather" => InPlace(at', "inside") = I /\ InPlace(at', "adrift") = {}
      /\ \A s \in GateTasks : at'[s] \in {"inside", "adrift", "done"}
  BY <1>1, <1>2 DEF InPlace, Places
<1>5. /\ Holding(at) = G \cup I /\ G \cap I = {}
      /\ Holding(at') = InPlace(at', "inside")
  BY <1>4 DEF Holding, InPlace
<1>6. /\ Cardinality(G) \in Nat /\ Cardinality(I) \in Nat
      /\ Cardinality(Holding(at)) = Cardinality(G) + Cardinality(I)
  <2>1. /\ IsFiniteSet(G) /\ IsFiniteSet(I)
        /\ Cardinality(G) \in Nat /\ Cardinality(I) \in Nat
    BY InPlaceFinite
  <2> HIDE DEF G, I
  <2>2. Cardinality(G \cup I) = Cardinality(G) + Cardinality(I) - Cardinality(G \cap I)
    BY <2>1, FS_Union
  <2> QED BY <1>5, <2>1, <2>2, FS_EmptySet
<1>7. LineInv'
  <2>1. <<>> \in Seq(GateTasks) /\ IsInjective(<<>>) /\ Range(<<>>) = {}
    BY EmptySeq, EmptyRange
  <2> QED BY <1>1, <1>3, <1>4, <2>1 DEF LineInv
<1>8. /\ slots' \in Nat /\ slots' + Cardinality(Holding(at')) = room
      /\ Cardinality(I) <= room
  <2> HIDE DEF G, I
  <2>1. CASE gate = "threads"
    <3>1. Cardinality(Holding(at')) = 0
      BY <1>4, <1>5, <2>1, FS_EmptySet
    <3> QED BY <1>1, <1>6, <2>1, <3>1
  <2>2. CASE gate = "gather"
    <3>1. Cardinality(Holding(at')) = Cardinality(I)
      BY <1>4, <1>5, <2>2
    <3> QED BY <1>1, <1>6, <2>2, <3>1
  <2> QED BY <1>1, <2>1, <2>2
<1>9. SlotInv'
  <2>1. room' \in Limits /\ current' = 0 /\ gate' # "limiter" /\ Limiting'
    BY <1>1 DEF SlotInv, GateInv, Limiting
  <2> QED BY <1>1, <1>8, <2>1 DEF SlotInv
<1>10. GatherInv'
  <2> HIDE DEF G, I
  <2>1. gate = "threads" => Cardinality(InPlace(at', "adrift")) <= room
    BY <1>4, <1>8
  <2> QED BY <1>1, <1>4, <2>1 DEF GatherInv, GateInv, Gathering
<1>11. LatchInv'
  BY <1>1 DEF LatchInv, GateInv
<1> QED BY <1>7, <1>9, <1>10, <1>11 DEF GateInv

\* A function in a thread ends after its gather() was cancelled.
LEMMA ThreadEndsKeeps ==
  ASSUME GateInv, NEW t \in GateTasks, ThreadEnds(t)
  PROVE  GateInv'
<1>1. /\ at \in [GateTasks -> Places] /\ at[t] = "adrift"
      /\ at' = [at EXCEPT ![t] = "done"]
      /\ UNCHANGED <<gate, room, slots, waiters, current, keepErrors, gathered, count,
                     bounded, answer>>
      /\ gate = "threads" /\ gathered = "cancelled" /\ room \in Nat
      /\ InPlace(at, "inside") = {} /\ Cardinality(InPlace(at, "adrift")) <= room
  BY GateAssumption DEF ThreadEnds, GateInv, LineInv, SlotInv, GatherInv, InPlace
<1>2. at' \in [GateTasks -> Places]
  BY <1>1 DEF Places
<1>3. /\ InPlace(at', "queued") = InPlace(at, "queued")
      /\ InPlace(at', "granted") = InPlace(at, "granted")
      /\ InPlace(at', "inside") = InPlace(at, "inside")
      /\ InPlace(at', "adrift") = InPlace(at, "adrift") \ {t}
      /\ Holding(at') = Holding(at)
      /\ InPlace(at, "adrift") \in SUBSET GateTasks /\ t \in InPlace(at, "adrift")
  BY <1>1 DEF InPlace, Holding
<1>4. Cardinality(InPlace(at', "adrift")) <= room
  <2>1. /\ Cardinality(InPlace(at', "adrift")) = Cardinality(InPlace(at, "adrift")) - 1
        /\ Cardinality(InPlace(at, "adrift")) \in Nat
    BY <1>3, CountOne
  <2> QED BY <1>1, <2>1
<1>5. \A s \in GateTasks : at'[s] \in {"inside", "adrift", "done"}
  BY <1>1 DEF GatherInv, GateInv
<1>6. LineInv'
  BY <1>1, <1>2, <1>3 DEF LineInv, GateInv
<1>7. SlotInv'
  BY <1>1, <1>3 DEF SlotInv, GateInv, Limiting
<1>8. GatherInv'
  BY <1>1, <1>3, <1>4, <1>5 DEF GatherInv, GateInv, Gathering
<1>9. LatchInv'
  BY <1>1 DEF LatchInv, GateInv
<1> QED BY <1>6, <1>7, <1>8, <1>9 DEF GateInv

\* A latch, its tasks and its answers.
LEMMA LatchState ==
  ASSUME GateInv, gate = "latch"
  PROVE  /\ at \in [GateTasks -> Places] /\ ~Limiting /\ ~Gathering
         /\ waiters \in Seq(GateTasks) /\ IsInjective(waiters)
         /\ Range(waiters) = InPlace(at, "queued")
         /\ waiters # <<>> => count > 0
         /\ slots = room /\ current = 0 /\ gathered = "running"
         /\ InPlace(at, "inside") = {} /\ InPlace(at, "adrift") = {}
         /\ count \in 0..MaxCount /\ answer \in [GateTasks -> SUBSET BOOLEAN]
         /\ bounded \subseteq InPlace(at, "queued") \cup InPlace(at, "granted")
         /\ InPlace(at, "granted") # {} => count = 0
         /\ \A t \in GateTasks : TRUE \in answer[t] => count = 0
BY DEF GateInv, LineInv, SlotInv, GatherInv, LatchInv, Limiting, Gathering

\* A step of a latch leaves the slots and the gather() alone.
LEMMA LatchFrame ==
  ASSUME GateInv, gate = "latch",
         UNCHANGED <<gate, room, slots, current, keepErrors, gathered>>,
         InPlace(at', "inside") = {}, InPlace(at', "adrift") = {}
  PROVE  SlotInv' /\ GatherInv'
<1>1. SlotInv'
  BY LatchState DEF SlotInv, GateInv, Limiting
<1>2. GatherInv'
  BY LatchState DEF GatherInv, GateInv, Gathering
<1> QED BY <1>1, <1>2

\* wait() returns at once, or waits.
LEMMA LatchWaitKeeps ==
  ASSUME GateInv, NEW t \in GateTasks, NEW b \in BOOLEAN, LatchWait(t, b)
  PROVE  GateInv'
<1>1. /\ gate = "latch" /\ at[t] = "out"
      /\ UNCHANGED <<gate, room, slots, current, keepErrors, gathered, count>>
  BY DEF LatchWait
<1>2. CASE count = 0
  <2>1. answer' = [answer EXCEPT ![t] = @ \cup {TRUE}] /\ UNCHANGED <<at, waiters, bounded>>
    BY <1>2 DEF LatchWait
  <2>2. answer' \in [GateTasks -> SUBSET BOOLEAN]
    BY <1>1, <2>1, LatchState
  <2>3. LineInv' /\ InPlace(at', "inside") = {} /\ InPlace(at', "adrift") = {}
    BY <1>1, <2>1, LatchState DEF LineInv
  <2>4. SlotInv' /\ GatherInv'
    BY <1>1, <2>3, LatchFrame
  <2>5. LatchInv'
    BY <1>1, <1>2, <2>1, <2>2, LatchState DEF LatchInv
  <2> QED BY <2>3, <2>4, <2>5 DEF GateInv
<1>3. CASE count # 0
  <2>1. /\ at' = [at EXCEPT ![t] = "queued"] /\ waiters' = Append(waiters, t)
        /\ bounded' \subseteq bounded \cup {t} /\ answer' = answer
    BY <1>3 DEF LatchWait
  <2>2. at' \in [GateTasks -> Places] /\ t \notin Range(waiters)
    BY <1>1, <2>1, LatchState DEF Places, InPlace
  <2>3. /\ InPlace(at', "queued") = InPlace(at, "queued") \cup {t}
        /\ InPlace(at', "granted") = InPlace(at, "granted")
        /\ InPlace(at', "inside") = InPlace(at, "inside")
        /\ InPlace(at', "adrift") = InPlace(at, "adrift")
    BY <1>1, <2>1, LatchState DEF InPlace
  <2>4. /\ waiters' \in Seq(GateTasks) /\ IsInjective(waiters')
        /\ Range(waiters') = Range(waiters) \cup {t}
    BY <1>1, <2>1, <2>2, LatchState, AppendRange
  <2>5. LineInv'
    <3>1. count' > 0
      BY <1>1, <1>3, LatchState
    <3> QED BY <1>1, <2>2, <2>3, <2>4, <3>1, LatchState DEF LineInv
  <2>6. SlotInv' /\ GatherInv'
    BY <1>1, <2>3, LatchState, LatchFrame
  <2>7. LatchInv'
    BY <1>1, <2>1, <2>3, LatchState DEF LatchInv
  <2> QED BY <2>5, <2>6, <2>7 DEF GateInv
<1> QED BY <1>2, <1>3

\* count_down(): the one that reaches zero lets everybody go on.
LEMMA CountDownKeeps ==
  ASSUME GateInv, CountDown
  PROVE  GateInv'
<1>1. /\ gate = "latch" /\ count > 0 /\ count' = count - 1 /\ count \in 0..MaxCount
      /\ MaxCount \in Nat
      /\ UNCHANGED <<gate, room, slots, current, keepErrors, gathered, bounded, answer>>
      /\ InPlace(at, "granted") = {} /\ \A t \in GateTasks : TRUE \notin answer[t]
  <2>1. /\ gate = "latch" /\ count > 0 /\ count' = count - 1
        /\ UNCHANGED <<gate, room, slots, current, keepErrors, gathered, bounded, answer>>
    BY DEF CountDown
  <2>2. count \in 0..MaxCount /\ MaxCount \in Nat /\ count # 0
    BY <2>1, LatchState, GateAssumption
  <2>3. InPlace(at, "granted") = {} /\ \A t \in GateTasks : TRUE \notin answer[t]
    BY <2>1, <2>2, LatchState
  <2> QED BY <2>1, <2>2, <2>3
<1>2. count' \in 0..MaxCount
  BY <1>1
<1>3. CASE count # 1
  <2>1. UNCHANGED <<at, waiters>> /\ count' > 0
    BY <1>1, <1>3 DEF CountDown
  <2>2. LineInv' /\ InPlace(at', "inside") = {} /\ InPlace(at', "adrift") = {}
    BY <1>1, <2>1, LatchState DEF LineInv
  <2>3. SlotInv' /\ GatherInv'
    BY <1>1, <2>2, LatchFrame
  <2>4. LatchInv'
    BY <1>1, <1>2, <2>1, LatchState DEF LatchInv
  <2> QED BY <2>2, <2>3, <2>4 DEF GateInv
<1>4. CASE count = 1
  <2>1. Notify(Len(waiters))
    BY <1>4 DEF CountDown
  <2>2. at' = [t \in GateTasks |-> IF t \in InPlace(at, "queued") THEN "granted" ELSE at[t]]
    <3>1. \A t \in GateTasks : t \in Range(waiters) <=> \E i \in 1..Len(waiters) : waiters[i] = t
      BY <1>1, LatchState, RangeByIndex
    <3> QED BY <1>1, <2>1, <3>1, LatchState DEF Notify
  <2>3. waiters' = <<>>
    <3> DEFINE n == Len(waiters)
    <3>1. n \in Nat /\ waiters' = SubSeq(waiters, n + 1, n)
      BY <1>1, <2>1, LatchState, LenProperties DEF Notify
    <3>2. /\ SubSeq(waiters, n + 1, n) \in Seq(GateTasks)
          /\ Len(SubSeq(waiters, n + 1, n)) = IF n + 1 <= n THEN n - (n + 1) + 1 ELSE 0
      <4>1. \A i \in n + 1..n : waiters[i] \in GateTasks
        BY <3>1
      <4> HIDE DEF n
      <4> QED BY <3>1, <4>1, SubSeqProperties
    <3> HIDE DEF n
    <3> QED BY <3>1, <3>2, EmptySeq
  <2>4. at' \in [GateTasks -> Places]
    BY <1>1, <2>2, LatchState DEF Places
  <2>5. /\ InPlace(at', "queued") = {}
        /\ InPlace(at', "granted") = InPlace(at, "queued")
        /\ InPlace(at', "inside") = {} /\ InPlace(at', "adrift") = {}
    BY <1>1, <2>2, LatchState DEF InPlace
  <2>6. LineInv'
    <3>1. <<>> \in Seq(GateTasks) /\ IsInjective(<<>>) /\ Range(<<>>) = {}
      BY EmptySeq, EmptyRange
    <3> QED BY <2>3, <2>4, <2>5, <3>1 DEF LineInv
  <2>7. SlotInv' /\ GatherInv'
    BY <1>1, <2>5, LatchFrame
  <2>8. LatchInv'
    BY <1>1, <1>2, <1>4, <2>5, LatchState DEF LatchInv
  <2> QED BY <2>6, <2>7, <2>8 DEF GateInv
<1> QED BY <1>3, <1>4

\* wait() ends, one way or the other.
LEMMA LatchWaitEndsKeeps ==
  ASSUME GateInv, NEW t \in GateTasks, NEW result \in {{}, {TRUE}, {FALSE}},
         LatchWaitEnds(t, result)
  PROVE  GateInv'
<1>1. /\ gate = "latch" /\ at[t] \in {"queued", "granted"}
      /\ TRUE \in result => at[t] = "granted"
      /\ at' = [at EXCEPT ![t] = "out"] /\ waiters' = RemoveFirst(waiters, t)
      /\ bounded' = bounded \ {t}
      /\ answer' = [answer EXCEPT ![t] = @ \cup result]
      /\ UNCHANGED <<gate, room, slots, current, keepErrors, gathered, count>>
  BY DEF LatchWaitEnds
<1>2. at' \in [GateTasks -> Places]
  BY <1>1, LatchState DEF Places
<1>3. /\ InPlace(at', "queued") = InPlace(at, "queued") \ {t}
      /\ InPlace(at', "granted") = InPlace(at, "granted") \ {t}
      /\ InPlace(at', "inside") = InPlace(at, "inside")
      /\ InPlace(at', "adrift") = InPlace(at, "adrift")
  BY <1>1, LatchState DEF InPlace
<1>4. /\ waiters' \in Seq(GateTasks) /\ IsInjective(waiters')
      /\ Range(waiters') = Range(waiters) \ {t}
  BY <1>1, LatchState, RemoveFirstRange
<1>5. LineInv'
  <2>1. waiters = <<>> => waiters' = <<>>
    <3> SUFFICES ASSUME waiters = <<>> PROVE waiters' = <<>>
      OBVIOUS
    <3>1. t \notin Range(waiters)
      BY EmptyRange
    <3> QED BY <1>1, <3>1, LatchState, RemoveFirstIsRemoveAt
  <2> QED BY <1>1, <1>2, <1>3, <1>4, <2>1, LatchState DEF LineInv
<1>6. SlotInv' /\ GatherInv'
  BY <1>1, <1>3, LatchState, LatchFrame
<1>7. LatchInv'
  <2>1. answer' \in [GateTasks -> SUBSET BOOLEAN]
    BY <1>1, LatchState
  <2>2. TRUE \in result => count = 0
    BY <1>1, LatchState DEF InPlace
  <2>3. \A s \in GateTasks : TRUE \in answer'[s] => count = 0
    BY <1>1, <2>2, LatchState
  <2> QED BY <1>1, <1>3, <2>1, <2>3, LatchState DEF LatchInv
<1> QED BY <1>5, <1>6, <1>7 DEF GateInv

\* GateInv is inductive.
LEMMA GateStep == GateInv /\ [GateNext]_gateVars => GateInv'
<1> SUFFICES ASSUME GateInv, [GateNext]_gateVars PROVE GateInv'
  OBVIOUS
<1>1. CASE UNCHANGED gateVars
  BY <1>1 DEF gateVars, GateInv, LineInv, SlotInv, GatherInv, LatchInv, Limiting, Gathering
<1>2. CASE GateNext
  BY <1>2, EnterGateKeeps, AdmitKeeps, CancelWaitingKeeps, ThreadEndsKeeps, LeaveGateKeeps,
     LatchWaitKeeps, LatchWaitEndsKeeps, CancelGatherKeeps, CountDownKeeps DEF GateNext
<1> QED BY <1>1, <1>2

\* What the invariant says of the gates.
LEMMA GateInvSuffices == GateInv => GateTypeOK /\ GatesAdmit
<1> SUFFICES ASSUME GateInv PROVE GateTypeOK /\ GatesAdmit
  OBVIOUS
<1>1. \A spot \in Places : AtGate(spot) = InPlace(at, spot)
  BY DEF AtGate, InPlace
<1>2. /\ AtGate("queued") = InPlace(at, "queued") /\ AtGate("granted") = InPlace(at, "granted")
      /\ AtGate("inside") = InPlace(at, "inside")
      /\ Executing = InPlace(at, "inside") \cup InPlace(at, "adrift")
      /\ AtGate("granted") \cup AtGate("inside") = Holding(at)
  BY DEF AtGate, InPlace, Executing, Holding
<1>3. /\ InPlace(at, "inside") \subseteq Holding(at) /\ InPlace(at, "inside") \subseteq GateTasks
  BY DEF InPlace, Holding
<1>4. /\ Cardinality(InPlace(at, "inside")) \in Nat /\ Cardinality(Holding(at)) \in Nat
      /\ Cardinality(InPlace(at, "inside")) <= Cardinality(Holding(at))
      /\ Cardinality(InPlace(at, "inside")) <= Cardinality(GateTasks)
      /\ Cardinality(GateTasks) \in Nat
  <2>1. IsFiniteSet(Holding(at)) /\ IsFiniteSet(InPlace(at, "inside"))
    BY InPlaceFinite
  <2>2. Cardinality(InPlace(at, "inside")) <= Cardinality(Holding(at))
    BY <1>3, <2>1, FS_Subset
  <2> QED BY <1>3, <2>2, InPlaceFinite, GateAssumption, FS_CardinalityType
<1>5. room \in Nat /\ slots \in Nat /\ room \in Limits
  BY GateAssumption DEF GateInv, SlotInv
<1>6. waiters \in Seq(GateTasks) /\ Range(waiters) = InPlace(at, "queued") /\ ToSet(waiters) = Range(waiters)
  BY RangeByIndex DEF GateInv, LineInv
<1>7. GateTypeOK
  <2>1. slots \in 0..room
    BY <1>4, <1>5 DEF GateInv, SlotInv
  <2>2. current \in 0..Cardinality(GateTasks)
    BY <1>4 DEF GateInv, SlotInv
  <2>3. at \in [GateTasks -> {"out", "queued", "granted", "inside", "adrift", "done"}]
    BY DEF GateInv, LineInv, Places
  <2> QED BY <1>2, <1>5, <1>6, <2>1, <2>2, <2>3 DEF GateTypeOK, GateInv, GatherInv, LatchInv
<1>8. Cardinality(Executing) <= room
  <2>1. CASE gate = "threads" /\ gathered = "cancelled"
    <3>1. Executing = InPlace(at, "adrift")
      BY <1>2, <2>1 DEF GateInv, GatherInv
    <3> QED BY <2>1, <3>1 DEF GateInv, GatherInv
  <2>2. CASE ~(gate = "threads" /\ gathered = "cancelled")
    <3>1. Executing = InPlace(at, "inside")
      BY <1>2, <2>2 DEF GateInv, GatherInv
    <3>2. CASE Limiting
      BY <1>4, <1>5, <3>1, <3>2 DEF GateInv, SlotInv
    <3>3. CASE ~Limiting
      <4>1. Cardinality(Executing) = 0
        BY <3>1, <3>3, FS_EmptySet DEF GateInv, SlotInv
      <4> QED BY <1>5, <4>1
    <3> QED BY <3>2, <3>3
  <2> QED BY <2>1, <2>2
<1>9. gate = "limiter" => current = Cardinality(Executing)
  <2>1. gate = "limiter" => Executing = InPlace(at, "inside")
    BY <1>2 DEF GateInv, GatherInv
  <2> QED BY <2>1 DEF GateInv, SlotInv
<1>10. gathered = "returned" => Executing = {} /\ waiters = <<>>
  <2> SUFFICES ASSUME gathered = "returned" PROVE Executing = {} /\ waiters = <<>>
    OBVIOUS
  <2>1. \A s \in GateTasks : at[s] = "done"
    BY DEF GateInv, GatherInv
  <2>2. Executing = {} /\ Range(waiters) = {}
    BY <1>2, <1>6, <2>1 DEF InPlace
  <2>3. waiters = <<>>
    <3>1. PICK w : w = waiters
      OBVIOUS
    <3>2. w \in Seq(GateTasks) /\ Range(w) = {}
      BY <1>6, <2>2, <3>1
    <3>3. w # <<>> => Range(w) = {Head(w)} \cup Range(Tail(w))
      BY <3>2, TailRange
    <3> QED BY <3>1, <3>2, <3>3
  <2> QED BY <2>2, <2>3
<1>11. GatesAdmit
  <2>1. (\E t \in GateTasks : TRUE \in answer[t]) => count = 0
    BY DEF GateInv, LatchInv
  <2>2. waiters # <<>> => IF gate = "latch" THEN count > 0 ELSE slots = 0
    BY DEF GateInv, LineInv
  <2>3. Limiting => slots + Cardinality(AtGate("granted") \cup AtGate("inside")) = room
    BY <1>2 DEF GateInv, SlotInv
  <2> QED BY <1>8, <1>9, <1>10, <2>1, <2>2, <2>3 DEF GatesAdmit
<1> QED BY <1>7, <1>11

\* Whoever is cancelled or times out: see GatesAdmit.
THEOREM GatesAdmitAll == GateSpec => []GatesAdmit
<1>1. GateSpec => []GateInv
  BY GateInitially, GateStep, PTL DEF GateSpec
<1> QED BY <1>1, GateInvSuffices, PTL

-----------------------------------------------------------------------------
(* The composition. *)

\* Every component keeps its invariant, the ones that do not run included.
ControlInv ==
  /\ part \in Parts
  /\ BreakerInv /\ LimiterInv /\ BulkInv /\ NestInv /\ OwnerInv /\ RetryInv /\ GateInv

\* Each component starts where its own specification does.
LEMMA ControlInitially == Init => ControlInv
<1> SUFFICES ASSUME Init PROVE ControlInv
  OBVIOUS
<1>1. /\ part \in Parts /\ BreakerInit /\ LimiterInit /\ BulkInit /\ TimeoutInit /\ OwnerInit
      /\ RetryInit /\ GateInit
  BY DEF Init
<1> QED BY <1>1, BreakerInitially, LimiterInitially, BulkInitially, TimeoutInitially,
           OwnerInitially, RetryInitially, GateInitially DEF ControlInv

\* A step is one of the component that runs, and a stutter of the others.
LEMMA ControlStep == ControlInv /\ [Next]_vars => ControlInv'
<1> SUFFICES ASSUME ControlInv, [Next]_vars PROVE ControlInv'
  OBVIOUS
<1>1. /\ part' = part
      /\ [BreakerNext]_breakerVars /\ [LimiterNext]_limiterVars /\ [BulkNext]_bulkVars
      /\ [TimeoutNext]_timeoutVars /\ [OwnerNext]_ownerVars /\ [RetryNext]_retryVars
      /\ [GateNext]_gateVars
  BY Zenon DEF Next, vars, Vars, Breaker, TimeoutPart
<1> QED BY <1>1, BreakerStep, LimiterStep, BulkStep, TimeoutStep, OwnerStep, RetryStep, GateStep
        DEF ControlInv

\* In every reachable state every variable of every component has its type.
THEOREM ControlTypeOK == Spec => []TypeOK
<1>1. ControlInv => TypeOK
  BY GateInvSuffices
     DEF ControlInv, TypeOK, BreakerInv, LimiterInv, BulkInv, NestInv, OwnerInv, RetryInv
<1>2. Spec => []ControlInv
  BY ControlInitially, ControlStep, PTL DEF Spec
<1> QED BY <1>1, <1>2, PTL

\* No task is left running by what started it, for any owner and any number of
\* tasks, retries and callers: see TasksEnd.
THEOREM ControlTasksEnd == Spec => []TasksEnd
<1>1. ControlInv => TasksEnd
  BY OwnerInvSuffices, RetryInvSuffices DEF ControlInv, TasksEnd
<1>2. Spec => []ControlInv
  BY ControlInitially, ControlStep, PTL DEF Spec
<1> QED BY <1>1, <1>2, PTL
=============================================================================
