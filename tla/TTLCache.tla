------------------------------ MODULE TTLCache ------------------------------
(***************************************************************************)
(* mtaio.cache.ttl.TTLCache with an on_evicted callback.  Every operation  *)
(* runs under _lock; the only place where an operation suspends while it   *)
(* holds the lock is the callback awaited in _remove, so an operation is   *)
(* one action up to its callback and another action after it.  (Without a  *)
(* callback nothing happens between the two.)  get_many, set_many and      *)
(* delete_many are sequences of the single operations.                     *)
(*                                                                         *)
(* Time is kept as ages, the only form in which the code reads it: `age'   *)
(* is now - created_at and `idle' is now - last_accessed, up to MaxAge.    *)
(* No code reads last_accessed, a property of LRU does: it is kept for     *)
(* LRU; access_count is read, and kept, for LFU only.                      *)
(***************************************************************************)
EXTENDS Integers, Sequences, FiniteSets, SequencesExt

CONSTANTS Keys,
          MaxSizes,     \* values of max_size, 0 for None
          DefaultTtl,   \* default_ttl
          Ttls,         \* ttl arguments, 0 for None
          None,
          MaxAge,       \* bound: ages are counted up to here, beyond any ttl
          MaxCount,     \* bound: access_count is counted up to here
          MaxStops      \* bound: stop() calls suspended at a time

ASSUME ConstantsAssumption ==
  /\ MaxSizes \subseteq Nat
  /\ DefaultTtl \in Nat \ {0} /\ Ttls \subseteq Nat
  /\ MaxAge \in Nat /\ MaxCount \in Nat /\ MaxStops \in Nat
  /\ \A ttl \in Ttls \cup {DefaultTtl} : ttl < MaxAge

VARIABLES maxSize, policy,
          cache,     \* _cache: key -> CacheItem or None
          keys,      \* the keys of _cache in the order the dict lists them
          order,     \* _access_order
          items,     \* _stats.items
          op,        \* the operation suspended in on_evicted, holding _lock
          cleaner,   \* the task in _cleanup_task
          closed,    \* _closed
          stopping   \* stop() calls suspended on the cancelled cleanup task

vars == <<maxSize, policy, cache, keys, order, items, op, cleaner, closed, stopping>>

Policies == {"LRU", "LFU", "FIFO"}

TtlOr(ttl) == IF ttl = 0 THEN DefaultTtl ELSE ttl

\* `over' is history: the item replaced another one of its key.
CacheItem == [ttl : {TtlOr(ttl) : ttl \in Ttls}, age : 0..MaxAge, idle : 0..MaxAge,
              count : 0..MaxCount, over : BOOLEAN]

Ops == [kind : {"set"}, key : Keys, ttl : Ttls] \cup [kind : {"get", "delete"}]
         \cup [kind : {"cleanup"}, rest : Seq(Keys)]

Cached == {k \in Keys : cache[k] # None}
IsExpired(item) == item.age > item.ttl
Expired == {k \in Cached : IsExpired(cache[k])}

ASSUME NoneAssumption == None \notin CacheItem /\ None \notin Ops

-----------------------------------------------------------------------------
\* Mutant of RemoveItem: the key stays in _access_order.
RemoveKeepsOrder(k) ==
  /\ cache' = [cache EXCEPT ![k] = None]
  /\ keys' = RemoveFirst(keys, k)
  /\ order' = order
  /\ items' = Len(keys')

(* _remove(key) up to its callback. *)
RemoveItem(k) ==
  /\ cache' = [cache EXCEPT ![k] = None]
  /\ keys' = RemoveFirst(keys, k)
  /\ order' = RemoveFirst(order, k)
  /\ items' = Len(keys')

\* The key _evict picks; min() takes the first of the rarest keys.
Victim ==
  IF policy = "LFU"
  THEN LET rarest == {i \in 1..Len(keys) :
                        \A k \in Cached : cache[keys[i]].count <= cache[k].count}
       IN  keys[Min(rarest)]
  ELSE Head(order)

Store(k, ttl) ==
  /\ cache' = [cache EXCEPT ![k] = [ttl |-> TtlOr(ttl), age |-> 0, idle |-> 0,
                                    count |-> 0,
                                    over |-> policy = "LRU" /\ k \in Cached]]
  /\ keys' = IF k \in Cached THEN keys ELSE Append(keys, k)
  /\ order' = IF k \in Range(order) THEN order ELSE Append(order, k)
  /\ items' = Len(keys')

\* Mutants of Set: the cache is full one item late; and the lock is not taken.
SetOneLate(k, ttl) ==
  /\ op = None
  /\ \/ /\ maxSize > 0 /\ Cardinality(Cached) > maxSize /\ k \notin Cached
        /\ RemoveItem(Victim)
        /\ op' = [kind |-> "set", key |-> k, ttl |-> ttl]
     \/ /\ maxSize = 0 \/ Cardinality(Cached) <= maxSize \/ k \in Cached
        /\ Store(k, ttl)
        /\ UNCHANGED op
  /\ UNCHANGED <<maxSize, policy, cleaner, closed, stopping>>

SetUnlocked(k, ttl) ==
  /\ \/ /\ op = None
        /\ maxSize > 0 /\ Cardinality(Cached) >= maxSize /\ k \notin Cached
        /\ RemoveItem(Victim)
        /\ op' = [kind |-> "set", key |-> k, ttl |-> ttl]
     \/ /\ maxSize = 0 \/ Cardinality(Cached) < maxSize \/ k \in Cached
        /\ Store(k, ttl)
        /\ UNCHANGED op
  /\ UNCHANGED <<maxSize, policy, cleaner, closed, stopping>>

Set(k, ttl) ==
  /\ op = None
  /\ \/ /\ maxSize > 0 /\ Cardinality(Cached) >= maxSize /\ k \notin Cached
        /\ RemoveItem(Victim)
        /\ op' = [kind |-> "set", key |-> k, ttl |-> ttl]
     \/ /\ maxSize = 0 \/ Cardinality(Cached) < maxSize \/ k \in Cached
        /\ Store(k, ttl)
        /\ UNCHANGED op
  /\ UNCHANGED <<maxSize, policy, cleaner, closed, stopping>>

\* Mutant of Hit: no move_to_end().
HitNotMoved(k) ==
  /\ cache' = [cache EXCEPT ![k].idle = 0,
                            ![k].count = IF policy = "LFU" /\ @ < MaxCount THEN @ + 1 ELSE @,
                            ![k].over = FALSE]
  /\ UNCHANGED <<keys, order, items, op>>

Hit(k) ==
  /\ cache' = [cache EXCEPT ![k].idle = 0,
                            ![k].count = IF policy = "LFU" /\ @ < MaxCount THEN @ + 1 ELSE @,
                            ![k].over = FALSE]
  /\ order' = Append(RemoveFirst(order, k), k)
  /\ UNCHANGED <<keys, items, op>>

Get(k) ==
  /\ op = None /\ k \in Cached
  /\ \/ k \in Expired /\ RemoveItem(k) /\ op' = [kind |-> "get"]
     \/ k \notin Expired /\ Hit(k)
  /\ UNCHANGED <<maxSize, policy, cleaner, closed, stopping>>

Delete(k) ==
  /\ op = None /\ k \in Cached
  /\ RemoveItem(k)
  /\ op' = [kind |-> "delete"]
  /\ UNCHANGED <<maxSize, policy, cleaner, closed, stopping>>

\* Mutants of Touch: the default ttl is forgotten; and the lock is not taken.
TouchNoDefault(k, ttl) ==
  /\ op = None /\ k \in Cached \ Expired
  /\ cache' = [cache EXCEPT ![k].ttl = ttl, ![k].age = 0]
  /\ UNCHANGED <<maxSize, policy, keys, order, items, op, cleaner, closed, stopping>>

TouchUnlocked(k, ttl) ==
  /\ k \in Cached
  /\ cache' = [cache EXCEPT ![k].ttl = TtlOr(ttl), ![k].age = 0]
  /\ UNCHANGED <<maxSize, policy, keys, order, items, op, cleaner, closed, stopping>>

\* touch() does not count as an access.
Touch(k, ttl) ==
  /\ op = None /\ k \in Cached \ Expired
  /\ cache' = [cache EXCEPT ![k].ttl = TtlOr(ttl), ![k].age = 0]
  /\ UNCHANGED <<maxSize, policy, keys, order, items, op, cleaner, closed, stopping>>

\* Mutant of Clear: the statistics are left alone.
ClearUncounted ==
  /\ op = None
  /\ cache' = [k \in Keys |-> None]
  /\ keys' = <<>>
  /\ order' = <<>>
  /\ UNCHANGED <<maxSize, policy, items, op, cleaner, closed, stopping>>

Clear ==
  /\ op = None
  /\ cache' = [k \in Keys |-> None]
  /\ keys' = <<>>
  /\ order' = <<>>
  /\ items' = 0
  /\ UNCHANGED <<maxSize, policy, op, cleaner, closed, stopping>>

-----------------------------------------------------------------------------
(* The callback returns or raises; _remove swallows what it raises.        *)

CallbackDone ==
  /\ op # None
  /\ \/ /\ op.kind = "set"
        /\ Store(op.key, op.ttl)
        /\ op' = None
        /\ UNCHANGED cleaner
     \/ /\ op.kind \in {"get", "delete"}
        /\ op' = None
        /\ UNCHANGED <<cache, keys, order, items, cleaner>>
     \/ /\ op.kind = "cleanup" /\ op.rest # <<>>
        /\ RemoveItem(Head(op.rest))
        /\ op' = [op EXCEPT !.rest = Tail(@)]
        /\ UNCHANGED cleaner
     \/ /\ op.kind = "cleanup" /\ op.rest = <<>>
        /\ op' = None
        /\ cleaner' = "sleeping"
        /\ UNCHANGED <<cache, keys, order, items>>
  /\ UNCHANGED <<maxSize, policy, closed, stopping>>

\* The caller is cancelled inside the callback: the rest of its operation is
\* not run.
CallbackCancelled ==
  /\ op # None /\ op.kind # "cleanup"
  /\ op' = None
  /\ UNCHANGED <<maxSize, policy, cache, keys, order, items, cleaner, closed, stopping>>

-----------------------------------------------------------------------------
(* _cleanup_loop: "none" no task, "ready" at the loop test, "working" in   *)
(* the callback, "sleeping", "ended" a finished task still in the field.   *)

\* The keys of list are listed, in this order, by the dict.
InDictOrder(list) ==
  \A i, j \in DOMAIN list : i < j =>
    \E m, n \in 1..Len(keys) : m < n /\ keys[m] = list[i] /\ keys[n] = list[j]

CleanupRound ==
  /\ cleaner = "ready" /\ ~closed /\ op = None
  /\ IF Expired = {}
     THEN /\ cleaner' = "sleeping"
          /\ UNCHANGED <<cache, keys, order, items, op>>
     ELSE /\ \E expired \in [1..Cardinality(Expired) -> Expired] :
               /\ InDictOrder(expired)
               /\ RemoveItem(Head(expired))
               /\ op' = [kind |-> "cleanup", rest |-> Tail(expired)]
          /\ cleaner' = "working"
  /\ UNCHANGED <<maxSize, policy, closed, stopping>>

CleanupExit ==
  /\ cleaner = "ready" /\ closed
  /\ cleaner' = "ended"
  /\ UNCHANGED <<maxSize, policy, cache, keys, order, items, op, closed, stopping>>

\* Mutant of CleanupWake: the loop runs once.
CleanupWakeEnds ==
  /\ cleaner = "sleeping"
  /\ cleaner' = "ended"
  /\ UNCHANGED <<maxSize, policy, cache, keys, order, items, op, closed, stopping>>

CleanupWake ==
  /\ cleaner = "sleeping"
  /\ cleaner' = "ready"
  /\ UNCHANGED <<maxSize, policy, cache, keys, order, items, op, closed, stopping>>

Start ==
  /\ cleaner = "none"
  /\ cleaner' = "ready"
  /\ UNCHANGED <<maxSize, policy, cache, keys, order, items, op, closed, stopping>>

\* stop() up to its await: cancel() ends the loop wherever it is suspended.
Stop ==
  /\ closed' = TRUE
  /\ IF cleaner = "none" THEN UNCHANGED <<cleaner, stopping, op>>
     ELSE /\ stopping < MaxStops
          /\ stopping' = stopping + 1
          /\ cleaner' = "ended"
          /\ op' = IF cleaner = "working" THEN None ELSE op
  /\ UNCHANGED <<maxSize, policy, cache, keys, order, items>>

\* stop() after its await.  A start() may have run before a second stop()
\* got here; the loop it started sees _closed and does nothing.
StopReturn ==
  /\ stopping > 0
  /\ stopping' = stopping - 1
  /\ cleaner' = "none"
  /\ UNCHANGED <<maxSize, policy, cache, keys, order, items, op, closed>>

Tick ==
  /\ \E k \in Cached : cache[k].age < MaxAge
  /\ cache' = [k \in Keys |->
       IF cache[k] = None THEN None
       ELSE [cache[k] EXCEPT !.age = IF @ < MaxAge THEN @ + 1 ELSE @,
                             !.idle = IF policy = "LRU" /\ @ < MaxAge THEN @ + 1 ELSE @]]
  /\ UNCHANGED <<maxSize, policy, keys, order, items, op, cleaner, closed, stopping>>

-----------------------------------------------------------------------------
Init ==
  /\ maxSize \in MaxSizes
  /\ policy \in Policies
  /\ cache = [k \in Keys |-> None]
  /\ keys = <<>>
  /\ order = <<>>
  /\ items = 0
  /\ op = None
  /\ cleaner = "none"
  /\ closed = FALSE
  /\ stopping = 0

Next ==
  \/ \E k \in Keys, ttl \in Ttls : Set(k, ttl) \/ Touch(k, ttl)
  \/ \E k \in Keys : Get(k) \/ Delete(k)
  \/ Clear \/ CallbackDone \/ CallbackCancelled
  \/ CleanupRound \/ CleanupExit \/ CleanupWake
  \/ Start \/ Stop \/ StopReturn \/ Tick

\* asyncio.Lock serves its waiters in order, so the loop gets the lock however
\* often the clients take it; sleeps end and callbacks return.
Fairness ==
  /\ SF_vars(CleanupRound)
  /\ WF_vars(CleanupWake) /\ WF_vars(CallbackDone)

Spec == Init /\ [][Next]_vars
FairSpec == Spec /\ Fairness
-----------------------------------------------------------------------------
TypeOK ==
  /\ maxSize \in MaxSizes /\ policy \in Policies
  /\ cache \in [Keys -> CacheItem \cup {None}]
  /\ keys \in Seq(Keys) /\ Range(keys) = Cached
  /\ order \in Seq(Keys)
  /\ items \in Nat
  /\ op \in Ops \cup {None}
  /\ cleaner \in {"none", "ready", "working", "sleeping", "ended"}
  /\ closed \in BOOLEAN
  /\ stopping \in 0..MaxStops

\* _cache and _access_order hold the same keys, each once, also while an
\* operation is suspended in its callback or was cancelled there; otherwise
\* move_to_end raises KeyError or _evict picks a key that is not cached; and
\* _stats.items is their number.
IndexesAgree ==
  /\ Range(order) = Cached
  /\ Len(order) = Cardinality(Cached)
  /\ items = Cardinality(Cached)

\* What an operation decided before it gave up control still holds when it goes
\* on: the set() that is suspended between making room and storing its item
\* finds a free slot and its key not cached, so the cache never exceeds
\* max_size, and the items cleanup_expired() has still to remove are cached and
\* expired, so it removes none that was renewed.
DecisionsHold ==
  /\ maxSize > 0 => Cardinality(Cached) <= maxSize
  /\ op # None /\ op.kind = "set" =>
       op.key \notin Cached /\ Cardinality(Cached) < maxSize
  /\ cleaner = "working" <=> op # None /\ op.kind = "cleanup"
  /\ cleaner = "working" => Range(op.rest) \subseteq Expired

\* An LRU cache evicts an item only if no other was idle for longer.  Items that
\* replaced another one are excepted: set() does not move an existing key.
EvictsLeastRecent ==
  [][policy = "LRU" /\ op = None /\ op' # None /\ op'.kind = "set" =>
       \A v \in Cached : cache'[v] = None /\ ~cache[v].over =>
         \A k \in Cached : cache[k].idle <= cache[v].idle]_vars

\* While the loop runs an expired item does not stay: it is removed or renewed.
ExpiredRemoved ==
  \A k \in Keys :
    (cleaner \in {"ready", "working", "sleeping"} /\ ~closed /\ k \in Expired)
      ~> (k \notin Expired \/ closed)

\* FIFO means first in, first out: the victim is the item that has been cached
\* for longest, the first key of the dict.
FifoEvictsOldest ==
  [][policy = "FIFO" /\ op = None /\ op' # None /\ op'.kind = "set" =>
       cache'[Head(keys)] = None]_vars
=============================================================================
