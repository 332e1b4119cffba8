---------------------------- MODULE RateLimiters ----------------------------
(***************************************************************************)
(* The limiters that refuse a call: RateLimiter and BurstyRateLimiter of   *)
(* mtaio.resources.limiter over their TokenBucket, WindowedRateLimiter,    *)
(* and the RateLimiter of mtaio.decorators.control.  None of them suspends *)
(* between reading the clock and its last assignment, so an acquire() is   *)
(* one step under its lock.  _waiters is never filled: _release_waiters()  *)
(* updates nothing.                                                        *)
(*                                                                         *)
(* The clock counts ticks and a token has Unit parts, so that Rate is the  *)
(* number of parts a tick is worth; tokens below stand for parts.          *)
(***************************************************************************)
EXTENDS Integers, Sequences, FiniteSetsExt

CONSTANTS Unit, Rate,
          Burst,            \* burst, in tokens
          InitialTokens,    \* values of initial_tokens
          Costs,            \* values of the tokens argument
          Limit, Window,    \* of a WindowedRateLimiter
          MaxTime,          \* bound: ticks
          MaxGrants         \* bound: calls granted at one tick

ASSUME LimiterAssumption ==
  /\ Unit \in Nat \ {0} /\ Rate \in Nat \ {0} /\ Burst \in Nat \ {0}
  /\ InitialTokens \subseteq Nat /\ Costs \subseteq Nat \ {0}
  /\ Limit \in Nat \ {0} /\ Window \in Nat \ {0} /\ MaxTime \in Nat /\ MaxGrants \in Nat

VARIABLES limiter,       \* the class of the limiter
          now,           \* time.monotonic()
          tokens,        \* parts of tokens in the bucket
          lastUpdate,    \* last_update
          timestamps,
          total,         \* history: parts granted so far
          before,        \* history: parts granted before each tick
          refused        \* history: the ticks at which a call was refused

limiterVars == <<limiter, now, tokens, lastUpdate, timestamps,
                 total, before, refused>>

Times == 0..MaxTime
Least(a, b) == IF a <= b THEN a ELSE b
\* update()
Refilled == Least(Burst * Unit, tokens + (now - lastUpdate) * Rate)

LimiterInit ==
  /\ limiter \in {"bucket", "decorator", "windowed"}
  /\ now = 0 /\ lastUpdate = 0 /\ timestamps = <<>>
  /\ \/ tokens = Burst * Unit
     \/ limiter = "bucket" /\ \E n \in InitialTokens : tokens = Least(n, Burst) * Unit
  /\ total = 0 /\ before = [t \in Times |-> 0] /\ refused = {}

-----------------------------------------------------------------------------
\* Parts granted from the tick `from' up to and including `to'.
Granted(from, to) == (IF to = now THEN total ELSE before[to + 1]) - before[from]

Grant(parts) == total' = total + parts /\ UNCHANGED refused

Refusal == refused' = refused \cup {now} /\ UNCHANGED total

\* Mutant of Consume: last_update moves only when the call is granted.
ConsumeStale(n) ==
  \/ /\ Refilled >= n * Unit /\ tokens' = Refilled - n * Unit /\ Grant(n * Unit)
     /\ lastUpdate' = now
  \/ /\ Refilled < n * Unit /\ tokens' = Refilled /\ Refusal
     /\ UNCHANGED lastUpdate

\* TokenBucket.consume(n), which begins with update().
Consume(n) ==
  /\ lastUpdate' = now
  /\ \/ Refilled >= n * Unit /\ tokens' = Refilled - n * Unit /\ Grant(n * Unit)
     \/ Refilled < n * Unit /\ tokens' = Refilled /\ Refusal

\* RateLimiter.acquire(n).  wait_for_tokens() calls it when consume() has failed:
\* it does not wait for tokens, and raises.
AcquireTokens(n) ==
  /\ limiter = "bucket"
  /\ Consume(n)
  /\ UNCHANGED <<limiter, now, timestamps, before>>

\* acquire() of the decorator's limiter: a refusal keeps the tokens it added and
\* the last_update it added them from.
AcquireDecorated ==
  /\ limiter = "decorator"
  /\ \/ Refilled >= Unit /\ tokens' = Refilled - Unit /\ lastUpdate' = now /\ Grant(Unit)
     \/ Refilled < Unit /\ tokens' = Refilled /\ UNCHANGED lastUpdate /\ Refusal
  /\ UNCHANGED <<limiter, now, timestamps, before>>

\* What is left when the requests in front that are before the window are popped.
Recent ==
  LET kept == {i \in 1..Len(timestamps) : timestamps[i] >= now - Window}
  IN IF kept = {} THEN <<>> ELSE SubSeq(timestamps, Min(kept), Len(timestamps))

\* At the very moment at which the oldest request leaves the window it is still
\* counted, and yet wait_time is 0 and the call is granted.
AcquireWindowed ==
  /\ limiter = "windowed"
  /\ LET mustWait == Len(Recent) >= Limit /\ Recent[1] + Window - now > 0
     IN \/ mustWait /\ timestamps' = Recent /\ Refusal
        \/ /\ ~mustWait /\ Granted(now, now) < MaxGrants * Unit
           /\ timestamps' = Append(Recent, now)
           /\ Grant(Unit)
  /\ UNCHANGED <<limiter, now, tokens, lastUpdate, before>>

LimiterTick ==
  /\ now < MaxTime
  /\ now' = now + 1
  /\ before' = [before EXCEPT ![now + 1] = total]
  /\ UNCHANGED <<limiter, tokens, lastUpdate, timestamps, total, refused>>

LimiterNext ==
  \/ \E n \in Costs : AcquireTokens(n)
  \/ AcquireDecorated
  \/ AcquireWindowed
  \/ LimiterTick

LimiterSpec == LimiterInit /\ [][LimiterNext]_limiterVars

-----------------------------------------------------------------------------
LimiterTypeOK ==
  /\ limiter \in {"bucket", "decorator", "windowed"}
  /\ now \in Times /\ lastUpdate \in Times
  /\ tokens \in 0..Burst * Unit
  /\ timestamps \in Seq(Times)
  /\ total \in Nat /\ before \in [Times -> Nat] /\ refused \subseteq Times

\* No limiter grants more than its rate.  Between any two moments a bucket grants
\* its burst and what the time between them is worth, whatever was refused; the
\* decorator's limiter does so between two moments without a refusal; and no
\* window holds more than `limit' requests, unless one of them was granted at
\* the very moment at which another left the window.
RateHeld ==
  \A to \in 0..now :
    \A from \in 0..to :
      /\ limiter = "bucket" \/ (limiter = "decorator" /\ refused \cap (from..to) = {})
           => Granted(from, to) <= Burst * Unit + Rate * (to - from)
      /\ limiter = "windowed" /\ to - from = Window - 1
           => \/ Granted(from, to) <= Limit * Unit
              \/ \E t \in Window..to : /\ t >= from /\ Granted(t, t) > 0
                                       /\ Granted(t - Window, t - Window) > 0
=============================================================================
