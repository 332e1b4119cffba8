----------------------------- MODULE MCControl ------------------------------
(***************************************************************************)
(* Small instances of the components that control how calls and tasks run. *)
(* They share nothing: a behaviour runs the one that `part' names, and the *)
(* others stay in their initial states.                                    *)
(***************************************************************************)
EXTENDS CircuitBreaker, RateLimiters, BulkOperations, TimeoutContexts, TaskOwners,
        Retries, Gates

CONSTANTS t1, t2, t3, w1, w2, w3
VARIABLE part

MCCallers == {t1, t2, t3}
MCPoolTasks == {w1, w2, w3}
MCInitialTokens == {0}
MCCosts == {1, 2}
MCTimeouts == {1, 2}
MCRetried == {t1, t2}
MCGateTasks == 1..4
MCLimits == {1, 2, 4}

Parts == {"breaker", "limiter", "bulk", "timeouts", "owner", "retries", "gate"}
Vars == <<breakerVars, limiterVars, bulkVars, timeoutVars, ownerVars, retryVars, gateVars>>
vars == <<part, Vars>>

Init ==
  /\ part \in Parts
  /\ BreakerInit /\ LimiterInit /\ BulkInit /\ TimeoutInit /\ OwnerInit
  /\ RetryInit /\ GateInit
  \* the classes of an idle limiter, owner, retry or gate make no difference
  /\ part # "limiter" => limiter = "bucket" /\ tokens = 0
  /\ part # "owner" => owner = "executor"
  /\ part # "retries" => form = "once"
  /\ part # "gate" => gate = "limiter" /\ room = 1

Breaker(A) ==
  /\ part = "breaker" /\ A
  /\ UNCHANGED <<part, limiterVars, bulkVars, timeoutVars, ownerVars, retryVars, gateVars>>
TimeoutPart(A) ==
  /\ part = "timeouts" /\ A
  /\ UNCHANGED <<part, breakerVars, limiterVars, bulkVars, ownerVars, retryVars, gateVars>>

Next ==
  \/ Breaker(BreakerNext)
  \/ /\ part = "limiter" /\ LimiterNext
     /\ UNCHANGED <<part, breakerVars, bulkVars, timeoutVars, ownerVars, retryVars, gateVars>>
  \/ /\ part = "bulk" /\ BulkNext
     /\ UNCHANGED <<part, breakerVars, limiterVars, timeoutVars, ownerVars, retryVars, gateVars>>
  \/ TimeoutPart(TimeoutNext)
  \/ /\ part = "owner" /\ OwnerNext
     /\ UNCHANGED <<part, breakerVars, limiterVars, bulkVars, timeoutVars, retryVars, gateVars>>
  \/ /\ part = "retries" /\ RetryNext
     /\ UNCHANGED <<part, breakerVars, limiterVars, bulkVars, timeoutVars, ownerVars, gateVars>>
  \/ /\ part = "gate" /\ GateNext
     /\ UNCHANGED <<part, breakerVars, limiterVars, bulkVars, timeoutVars, ownerVars, retryVars>>

\* The fairness of the components that state one.
Spec == Init /\ [][Next]_vars /\ TimeoutFairness
BreakerOnly == Init /\ part = "breaker" /\ [][Breaker(BreakerNext)]_vars /\ BreakerFairness

-----------------------------------------------------------------------------
TypeOK ==
  /\ part \in Parts
  /\ BreakerTypeOK /\ LimiterTypeOK /\ BulkTypeOK /\ TimeoutTypeOK /\ OwnerTypeOK
  /\ RetryTypeOK /\ GateTypeOK

\* No task is left running by the wrapper or the object that started it:
\* OwnedTasksEnd is about those that keep a set of tasks, AttemptsApart about
\* those that repeat a call.
TasksEnd == OwnedTasksEnd /\ AttemptsApart
=============================================================================
