--------------------------- MODULE TTLCacheProofs ---------------------------
(***************************************************************************)
(* Theorems about TTLCache, for any keys, sizes and times to live: both    *)
(* indexes agree, what an operation decided before its callback still      *)
(* holds after it, and an LRU cache evicts what was not used for longest.  *)
(***************************************************************************)
EXTENDS TTLCache, SequenceLemmas

\* The two indexes list the cached keys, each once.
IndexInv ==
  /\ TypeOK
  /\ IsInjective(keys) /\ IsInjective(order) /\ Range(order) = Cached
  /\ items = Len(keys)

\* What an operation that is suspended in its callback relies on; whoever has
\* called stop() has ended the loop for good.
DecisionInv ==
  /\ maxSize > 0 => Len(keys) <= maxSize
  /\ op # None /\ op.kind = "set" =>
       op.key \notin Cached /\ maxSize > 0 /\ Len(keys) < maxSize
  /\ cleaner = "working" <=> op # None /\ op.kind = "cleanup"
  /\ cleaner = "working" => IsInjective(op.rest) /\ Range(op.rest) \subseteq Expired
  /\ stopping > 0 => closed
  /\ closed => cleaner # "working"

\* An LRU cache lists its keys by their last use, but for those whose item
\* replaced another one.
RecencyInv ==
  policy = "LRU" =>
    \A a, b \in Cached :
      Precedes(order, a, b) /\ ~cache[a].over => cache[b].idle <= cache[a].idle

CacheInv == IndexInv /\ DecisionInv /\ RecencyInv

\* The number of cached keys.
LEMMA CachedCount ==
  ASSUME IndexInv
  PROVE  /\ IsFiniteSet(Cached) /\ Cardinality(Cached) = Len(keys) /\ Len(keys) \in Nat
         /\ Cardinality(Cached) = Len(order)
BY InjectiveRangeSize, LenProperties DEF IndexInv, TypeOK

\* An item that is stored, and one that is not None.
LEMMA ItemFields ==
  ASSUME TypeOK, NEW k \in Cached
  PROVE  /\ k \in Keys /\ cache[k] \in CacheItem
         /\ cache[k].age \in 0..MaxAge /\ cache[k].idle \in 0..MaxAge
         /\ cache[k].over \in BOOLEAN /\ cache[k].ttl \in Nat
<1>1. k \in Keys /\ cache[k] \in CacheItem
  BY DEF TypeOK, Cached
<1>2. \A ttl \in Ttls : TtlOr(ttl) \in Nat
  BY ConstantsAssumption DEF TtlOr
<1> QED BY <1>1, <1>2 DEF CacheItem

\* A cached key leaves both indexes and the dict.
LEMMA RemoveItemEffect ==
  ASSUME IndexInv, RecencyInv, NEW k \in Cached, RemoveItem(k), UNCHANGED <<maxSize, policy>>
  PROVE  /\ cache' \in [Keys -> CacheItem \cup {None}]
         /\ keys' \in Seq(Keys) /\ IsInjective(keys') /\ Range(keys') = Cached'
         /\ order' \in Seq(Keys) /\ IsInjective(order') /\ Range(order') = Cached'
         /\ Cached' = Cached \ {k} /\ Expired' = Expired \ {k}
         /\ items' = Len(keys') /\ Len(keys') = Len(keys) - 1 /\ items' \in Nat
         /\ RecencyInv'
<1>1. /\ cache \in [Keys -> CacheItem \cup {None}] /\ keys \in Seq(Keys) /\ order \in Seq(Keys)
      /\ IsInjective(keys) /\ IsInjective(order) /\ Range(keys) = Cached /\ Range(order) = Cached
      /\ k \in Keys
  BY DEF IndexInv, TypeOK, Cached
<1>2. /\ cache' = [cache EXCEPT ![k] = None] /\ keys' = RemoveFirst(keys, k)
      /\ order' = RemoveFirst(order, k) /\ items' = Len(keys')
  BY DEF RemoveItem
<1>3. /\ cache' \in [Keys -> CacheItem \cup {None}] /\ Cached' = Cached \ {k}
      /\ \A j \in Cached' : cache'[j] = cache[j]
  BY <1>1, <1>2 DEF Cached
<1>4. Expired' = Expired \ {k}
  BY <1>3 DEF Expired
<1>5. /\ keys' \in Seq(Keys) /\ IsInjective(keys') /\ Range(keys') = Range(keys) \ {k}
      /\ order' \in Seq(Keys) /\ IsInjective(order') /\ Range(order') = Range(order) \ {k}
  BY <1>1, <1>2, RemoveFirstRange
<1>6. Len(keys') = Len(keys) - 1 /\ Len(keys') \in Nat
  <2>1. PICK i \in 1..Len(keys) : RemoveFirst(keys, k) = RemoveAt(keys, i)
    BY <1>1, RemoveFirstIsRemoveAt
  <2>2. Len(RemoveAt(keys, i)) = Len(keys) - 1
    BY <1>1, <2>1, RemoveAtProperties
  <2> QED BY <1>2, <1>5, <2>1, <2>2, LenProperties
<1>7. RecencyInv'
  <2> SUFFICES ASSUME policy = "LRU", NEW a \in Cached', NEW b \in Cached',
                      Precedes(order', a, b), ~cache'[a].over
               PROVE  cache'[b].idle <= cache'[a].idle
    BY DEF RecencyInv
  <2>1. Precedes(order, a, b)
    BY <1>1, <1>2, RemoveFirstOrder
  <2> QED BY <1>3, <2>1 DEF RecencyInv
<1> QED BY <1>1, <1>2, <1>3, <1>4, <1>5, <1>6, <1>7

\* An item is stored: its key stays where it is, or is put at the end.
LEMMA StoreEffect ==
  ASSUME IndexInv, RecencyInv, NEW k \in Keys, NEW ttl \in Ttls, Store(k, ttl),
         UNCHANGED <<maxSize, policy>>
  PROVE  /\ cache' \in [Keys -> CacheItem \cup {None}]
         /\ keys' \in Seq(Keys) /\ IsInjective(keys') /\ Range(keys') = Cached'
         /\ order' \in Seq(Keys) /\ IsInjective(order') /\ Range(order') = Cached'
         /\ Cached' = Cached \cup {k}
         /\ items' = Len(keys') /\ items' \in Nat
         /\ Len(keys') = IF k \in Cached THEN Len(keys) ELSE Len(keys) + 1
         /\ RecencyInv'
<1> DEFINE item == [ttl |-> TtlOr(ttl), age |-> 0, idle |-> 0, count |-> 0,
                    over |-> policy = "LRU" /\ k \in Cached]
<1>1. /\ cache \in [Keys -> CacheItem \cup {None}] /\ keys \in Seq(Keys) /\ order \in Seq(Keys)
      /\ IsInjective(keys) /\ IsInjective(order) /\ Range(keys) = Cached /\ Range(order) = Cached
  BY DEF IndexInv, TypeOK
<1>2. /\ cache' = [cache EXCEPT ![k] = item] /\ items' = Len(keys')
      /\ keys' = IF k \in Cached THEN keys ELSE Append(keys, k)
      /\ order' = IF k \in Cached THEN order ELSE Append(order, k)
  BY <1>1 DEF Store
<1>3. item \in CacheItem /\ item # None /\ item.idle = 0 /\ (item.over <=> policy = "LRU" /\ k \in Cached)
  <2>1. (policy = "LRU" /\ k \in Cached) \in BOOLEAN
    OBVIOUS
  <2> DEFINE b == (policy = "LRU" /\ k \in Cached)
  <2>2. [ttl |-> TtlOr(ttl), age |-> 0, idle |-> 0, count |-> 0, over |-> b] \in CacheItem
    <3> HIDE DEF b
    <3> QED BY <2>1, ConstantsAssumption DEF CacheItem, b
  <2>3. item \in CacheItem
    BY <2>2
  <2> QED BY <2>3, NoneAssumption
<1> HIDE DEF item
<1>4. /\ cache' \in [Keys -> CacheItem \cup {None}] /\ Cached' = Cached \cup {k}
      /\ cache'[k] = item /\ \A j \in Keys \ {k} : cache'[j] = cache[j]
  BY <1>1, <1>2, <1>3 DEF Cached
<1>5. /\ keys' \in Seq(Keys) /\ IsInjective(keys') /\ Range(keys') = Range(keys) \cup {k}
      /\ Len(keys') = IF k \in Cached THEN Len(keys) ELSE Len(keys) + 1
  <2>1. CASE k \in Cached
    BY <1>1, <1>2, <2>1
  <2>2. CASE k \notin Cached
    BY <1>1, <1>2, <2>2, AppendRange
  <2> QED BY <2>1, <2>2
<1>6. order' \in Seq(Keys) /\ IsInjective(order') /\ Range(order') = Range(order) \cup {k}
  <2>1. CASE k \in Cached
    BY <1>1, <1>2, <2>1
  <2>2. CASE k \notin Cached
    BY <1>1, <1>2, <2>2, AppendRange
  <2> QED BY <2>1, <2>2
<1>7. RecencyInv'
  <2> SUFFICES ASSUME policy = "LRU", NEW a \in Cached', NEW b \in Cached',
                      Precedes(order', a, b), ~cache'[a].over
               PROVE  cache'[b].idle <= cache'[a].idle
    BY DEF RecencyInv
  <2>0. \A j \in Cached' \ {k} : j \in Cached /\ cache'[j] = cache[j] /\ cache'[j].idle \in Nat
    BY <1>4, ItemFields DEF Cached, IndexInv
  <2>1. CASE k \in Cached
    <3>1. a # k /\ Precedes(order, a, b)
      BY <1>2, <1>3, <1>4, <2>1
    <3>2. CASE b = k
      BY <1>3, <1>4, <2>0, <3>1, <3>2
    <3>3. CASE b # k
      BY <2>0, <3>1, <3>3 DEF RecencyInv
    <3> QED BY <3>2, <3>3
  <2>2. CASE k \notin Cached
    <3>1. Precedes(order, a, b) \/ (a \in Range(order) /\ b = k)
      BY <1>1, <1>2, <2>2, AppendOrder
    <3>2. CASE Precedes(order, a, b)
      <4>1. a \in Range(order) /\ b \in Range(order)
        BY <1>1, <3>2, PrecedesRange
      <4>2. a # k /\ b # k
        BY <1>1, <2>2, <4>1
      <4> QED BY <2>0, <3>2, <4>2 DEF RecencyInv
    <3>3. CASE a \in Range(order) /\ b = k
      BY <1>1, <1>3, <1>4, <2>0, <2>2, <3>3
    <3> QED BY <3>1, <3>2, <3>3
  <2> QED BY <2>1, <2>2
<1> QED BY <1>1, <1>2, <1>4, <1>5, <1>6, <1>7, LenProperties

\* An item is used.
LEMMA HitEffect ==
  ASSUME IndexInv, RecencyInv, NEW k \in Cached, Hit(k), UNCHANGED <<maxSize, policy>>
  PROVE  /\ cache' \in [Keys -> CacheItem \cup {None}] /\ Cached' = Cached
         /\ order' \in Seq(Keys) /\ IsInjective(order') /\ Range(order') = Cached
         /\ RecencyInv'
<1>1. /\ cache \in [Keys -> CacheItem \cup {None}] /\ order \in Seq(Keys)
      /\ IsInjective(order) /\ Range(order) = Cached
      /\ k \in Keys /\ cache[k] \in CacheItem
  BY ItemFields DEF IndexInv, TypeOK
<1> DEFINE r == RemoveFirst(order, k)
           item == [[[cache[k] EXCEPT !.idle = 0]
                       EXCEPT !.count = IF policy = "LFU" /\ @ < MaxCount THEN @ + 1 ELSE @]
                       EXCEPT !.over = FALSE]
<1>2. order' = Append(r, k)
  BY DEF Hit
<1>3. /\ r \in Seq(Keys) /\ IsInjective(r) /\ Range(r) = Range(order) \ {k}
  BY <1>1, RemoveFirstRange
<1>4. /\ cache' = [cache EXCEPT ![k] = item]
      /\ item \in CacheItem /\ item.idle = 0 /\ item.over = FALSE
  <2>1. cache' = [cache EXCEPT ![k] = item]
    BY <1>1 DEF Hit, CacheItem
  <2>2. /\ cache[k].ttl \in {TtlOr(ttl) : ttl \in Ttls} /\ cache[k].age \in 0..MaxAge
        /\ cache[k].count \in 0..MaxCount
    BY <1>1 DEF CacheItem
  <2>3. (IF policy = "LFU" /\ cache[k].count < MaxCount THEN cache[k].count + 1 ELSE cache[k].count)
          \in 0..MaxCount
    BY <2>2, ConstantsAssumption
  <2>4. 0 \in 0..MaxAge
    BY ConstantsAssumption
  <2>5. item \in CacheItem /\ item.idle = 0 /\ item.over = FALSE
    BY <1>1, <2>2, <2>3, <2>4 DEF CacheItem
  <2> QED BY <2>1, <2>5
<1> HIDE DEF r, item
<1>5. /\ cache' \in [Keys -> CacheItem \cup {None}] /\ Cached' = Cached
      /\ cache'[k] = item /\ \A j \in Keys \ {k} : cache'[j] = cache[j]
  <2>1. item # None
    BY <1>4, NoneAssumption
  <2> QED BY <1>1, <1>4, <2>1 DEF Cached
<1>6. order' \in Seq(Keys) /\ IsInjective(order') /\ Range(order') = Cached
  <2>1. k \notin Range(r)
    BY <1>3
  <2>2. Range(order') = Range(r) \cup {k} /\ order' \in Seq(Keys) /\ IsInjective(order')
    BY <1>1, <1>2, <1>3, <2>1, AppendRange
  <2> QED BY <1>1, <1>3, <2>2
<1>7. RecencyInv'
  <2> SUFFICES ASSUME policy = "LRU", NEW a \in Cached, NEW b \in Cached,
                      Precedes(order', a, b), ~cache'[a].over
               PROVE  cache'[b].idle <= cache'[a].idle
    BY <1>5 DEF RecencyInv
  <2>0. cache'[a].idle \in Nat
    BY <1>4, <1>5, ItemFields DEF IndexInv
  <2>1. Precedes(r, a, b) \/ (a \in Range(r) /\ b = k)
    BY <1>1, <1>2, <1>3, AppendOrder
  <2>2. CASE Precedes(r, a, b)
    <3>1. Precedes(order, a, b) /\ a \in Range(r) /\ b \in Range(r)
      BY <1>1, <1>3, <2>2, RemoveFirstOrder, PrecedesRange DEF r
    <3>2. a # k /\ b # k /\ a \in Keys /\ b \in Keys
      BY <1>3, <3>1, ItemFields DEF IndexInv
    <3> QED BY <1>5, <3>1, <3>2 DEF RecencyInv
  <2>3. CASE a \in Range(r) /\ b = k
    BY <1>4, <1>5, <2>0, <2>3
  <2> QED BY <2>1, <2>2, <2>3
<1> QED BY <1>5, <1>6, <1>7

-----------------------------------------------------------------------------
(* The steps. *)

\* The key _evict picks is cached; an LRU cache picks the first of its order.
LEMMA VictimCached ==
  ASSUME IndexInv, maxSize > 0, Cardinality(Cached) >= maxSize
  PROVE  Victim \in Cached /\ (policy = "LRU" => Victim = Head(order) /\ order # <<>>)
<1>1. Len(keys) > 0 /\ Len(order) > 0 /\ maxSize \in Nat /\ Len(keys) \in Nat
  BY CachedCount, ConstantsAssumption DEF IndexInv, TypeOK
<1>2. keys # <<>> /\ order # <<>>
  BY <1>1, EmptySeq
<1>3. /\ keys \in Seq(Keys) /\ order \in Seq(Keys) /\ Range(keys) = Cached /\ Range(order) = Cached
      /\ policy \in Policies
  BY DEF IndexInv, TypeOK
<1>4. CASE policy = "LFU"
  <2> DEFINE F == {cache[keys[i]].count : i \in 1..Len(keys)}
             rarest == {i \in 1..Len(keys) :
                          \A k \in Cached : cache[keys[i]].count <= cache[k].count}
  <2>1. \A k \in Cached : cache[k].count \in Nat /\ \E i \in 1..Len(keys) : keys[i] = k
    <3>1. \A k \in Cached : cache[k].count \in Nat
      BY ConstantsAssumption, ItemFields DEF IndexInv, CacheItem
    <3> QED BY <1>3, <3>1, RangeByIndex
  <2>2. \A i \in 1..Len(keys) : keys[i] \in Cached
    BY <1>3, RangeByIndex
  <2>3. F \in SUBSET Nat /\ F # {}
    <3>1. 1 \in 1..Len(keys)
      BY <1>1
    <3> QED BY <2>1, <2>2, <3>1
  <2>4. PICK c \in F : \A d \in F : c <= d
    <3> HIDE DEF F
    <3> QED BY <2>3, LeastExists
  <2>5. rarest # {} /\ rarest \in SUBSET Nat
    <3>1. PICK i \in 1..Len(keys) : cache[keys[i]].count = c
      BY <2>4
    <3>2. \A k \in Cached : c <= cache[k].count
      BY <2>1, <2>4
    <3> QED BY <3>1, <3>2
  <2>6. Min(rarest) \in rarest
    <3> HIDE DEF rarest
    <3> QED BY <2>5, LeastExists DEF Min
  <2>7. Victim = keys[Min(rarest)]
    BY <1>4 DEF Victim
  <2>8. Min(rarest) \in 1..Len(keys)
    BY <2>6
  <2> QED BY <1>4, <2>2, <2>7, <2>8
<1>5. CASE policy # "LFU"
  BY <1>2, <1>3, <1>5, TailRange DEF Victim
<1> QED BY <1>2, <1>4, <1>5

\* set() stores its item, or makes room for it and suspends.
LEMMA SetKeeps ==
  ASSUME CacheInv, NEW k \in Keys, NEW ttl \in Ttls, Set(k, ttl)
  PROVE  CacheInv'
<1>1. /\ IndexInv /\ RecencyInv /\ DecisionInv /\ op = None /\ TypeOK
      /\ UNCHANGED <<maxSize, policy, cleaner, closed, stopping>>
      /\ cleaner # "working"
      /\ Cardinality(Cached) = Len(keys) /\ Len(keys) \in Nat /\ maxSize \in Nat
  BY CachedCount, ConstantsAssumption DEF CacheInv, Set, DecisionInv, IndexInv, TypeOK
<1>2. CASE /\ maxSize > 0 /\ Cardinality(Cached) >= maxSize /\ k \notin Cached
           /\ RemoveItem(Victim)
           /\ op' = [kind |-> "set", key |-> k, ttl |-> ttl]
  <2>1. Victim \in Cached
    BY <1>1, <1>2, VictimCached
  <2>2. /\ cache' \in [Keys -> CacheItem \cup {None}]
        /\ keys' \in Seq(Keys) /\ IsInjective(keys') /\ Range(keys') = Cached'
        /\ order' \in Seq(Keys) /\ IsInjective(order') /\ Range(order') = Cached'
        /\ Cached' = Cached \ {Victim} /\ items' = Len(keys') /\ Len(keys') = Len(keys) - 1
        /\ items' \in Nat /\ RecencyInv'
    BY <1>1, <1>2, <2>1, RemoveItemEffect
  <2>3. op' \in Ops /\ op'.kind = "set" /\ op'.key = k
    BY <1>2 DEF Ops
  <2>4. IndexInv'
    BY <1>1, <2>2, <2>3 DEF IndexInv, TypeOK
  <2>5. DecisionInv'
    <3>1. Len(keys') < maxSize /\ Len(keys') <= maxSize
      BY <1>1, <1>2, <2>2 DEF DecisionInv
    <3> QED BY <1>1, <1>2, <2>2, <2>3, <3>1 DEF DecisionInv
  <2> QED BY <2>2, <2>4, <2>5 DEF CacheInv
<1>3. CASE /\ maxSize = 0 \/ Cardinality(Cached) < maxSize \/ k \in Cached
           /\ Store(k, ttl)
           /\ UNCHANGED op
  <2>1. /\ cache' \in [Keys -> CacheItem \cup {None}]
        /\ keys' \in Seq(Keys) /\ IsInjective(keys') /\ Range(keys') = Cached'
        /\ order' \in Seq(Keys) /\ IsInjective(order') /\ Range(order') = Cached'
        /\ items' = Len(keys') /\ items' \in Nat
        /\ Len(keys') = IF k \in Cached THEN Len(keys) ELSE Len(keys) + 1
        /\ RecencyInv'
    BY <1>1, <1>3, StoreEffect
  <2>2. IndexInv'
    BY <1>1, <1>3, <2>1 DEF IndexInv, TypeOK
  <2>3. DecisionInv'
    <3>1. maxSize > 0 => Len(keys') <= maxSize
      BY <1>1, <1>3, <2>1 DEF DecisionInv
    <3> QED BY <1>1, <1>3, <3>1 DEF DecisionInv
  <2> QED BY <2>1, <2>2, <2>3 DEF CacheInv
<1> QED BY <1>2, <1>3 DEF Set

\* get() finds its key expired and removes it, or uses it; delete() removes it.
LEMMA GetOrDeleteKeeps ==
  ASSUME CacheInv, NEW k \in Keys, Get(k) \/ Delete(k)
  PROVE  CacheInv'
<1>1. /\ IndexInv /\ RecencyInv /\ DecisionInv /\ op = None /\ TypeOK
      /\ UNCHANGED <<maxSize, policy, cleaner, closed, stopping>>
      /\ cleaner # "working" /\ k \in Cached
      /\ Len(keys) \in Nat /\ maxSize \in Nat
  BY CachedCount, ConstantsAssumption DEF CacheInv, Get, Delete, DecisionInv, IndexInv, TypeOK
<1>2. CASE RemoveItem(k) /\ \E kind \in {"get", "delete"} : op' = [kind |-> kind]
  <2>1. /\ cache' \in [Keys -> CacheItem \cup {None}]
        /\ keys' \in Seq(Keys) /\ IsInjective(keys') /\ Range(keys') = Cached'
        /\ order' \in Seq(Keys) /\ IsInjective(order') /\ Range(order') = Cached'
        /\ items' = Len(keys') /\ Len(keys') = Len(keys) - 1 /\ items' \in Nat
        /\ RecencyInv'
    BY <1>1, <1>2, RemoveItemEffect
  <2>2. op' \in Ops /\ op'.kind # "set" /\ op'.kind # "cleanup"
    BY <1>2 DEF Ops
  <2>3. IndexInv'
    BY <1>1, <2>1, <2>2 DEF IndexInv, TypeOK
  <2>4. DecisionInv'
    <3>1. maxSize > 0 => Len(keys') <= maxSize
      BY <1>1, <2>1 DEF DecisionInv
    <3> QED BY <1>1, <2>2, <3>1 DEF DecisionInv
  <2> QED BY <2>1, <2>3, <2>4 DEF CacheInv
<1>3. CASE Hit(k)
  <2>1. /\ cache' \in [Keys -> CacheItem \cup {None}] /\ Cached' = Cached
        /\ order' \in Seq(Keys) /\ IsInjective(order') /\ Range(order') = Cached
        /\ RecencyInv'
    BY <1>1, <1>3, HitEffect
  <2>2. UNCHANGED <<keys, items, op>>
    BY <1>3 DEF Hit
  <2>3. IndexInv'
    BY <1>1, <2>1, <2>2 DEF IndexInv, TypeOK
  <2>4. DecisionInv'
    BY <1>1, <2>2 DEF DecisionInv
  <2> QED BY <2>1, <2>3, <2>4 DEF CacheInv
<1> QED BY <1>2, <1>3 DEF Get, Delete

\* touch() renews an item and does not use it.
LEMMA TouchKeeps ==
  ASSUME CacheInv, NEW k \in Keys, NEW ttl \in Ttls, Touch(k, ttl)
  PROVE  CacheInv'
<1> DEFINE item == [[cache[k] EXCEPT !.ttl = TtlOr(ttl)] EXCEPT !.age = 0]
<1>1. /\ IndexInv /\ RecencyInv /\ DecisionInv /\ op = None /\ TypeOK
      /\ UNCHANGED <<maxSize, policy, keys, order, items, op, cleaner, closed, stopping>>
      /\ cleaner # "working" /\ k \in Cached
  BY DEF CacheInv, Touch, DecisionInv, IndexInv
<1>2. cache[k] \in CacheItem /\ cache \in [Keys -> CacheItem \cup {None}]
  BY <1>1, ItemFields DEF TypeOK
<1>3. /\ cache' = [cache EXCEPT ![k] = item]
      /\ item \in CacheItem /\ item.idle = cache[k].idle /\ item.over = cache[k].over
  <2>1. cache' = [cache EXCEPT ![k] = item]
    BY <1>2 DEF Touch, CacheItem
  <2>2. 0 \in 0..MaxAge
    BY ConstantsAssumption
  <2> QED BY <1>2, <2>1, <2>2 DEF CacheItem
<1> HIDE DEF item
<1>4. /\ cache' \in [Keys -> CacheItem \cup {None}] /\ Cached' = Cached
      /\ \A j \in Cached : cache'[j].idle = cache[j].idle /\ cache'[j].over = cache[j].over
  <2>1. item # None
    BY <1>3, NoneAssumption
  <2>2. cache'[k] = item /\ \A j \in Keys \ {k} : cache'[j] = cache[j]
    BY <1>2, <1>3
  <2>3. cache' \in [Keys -> CacheItem \cup {None}]
    BY <1>2, <1>3
  <2>4. Cached' = Cached
    BY <1>1, <2>1, <2>2 DEF Cached
  <2>5. \A j \in Cached : j \in Keys
    BY DEF Cached
  <2> QED BY <1>3, <2>2, <2>3, <2>4, <2>5
<1>5. IndexInv'
  BY <1>1, <1>4 DEF IndexInv, TypeOK
<1>6. DecisionInv'
  BY <1>1, <1>4 DEF DecisionInv
<1>7. RecencyInv'
  BY <1>1, <1>4 DEF RecencyInv
<1> QED BY <1>5, <1>6, <1>7 DEF CacheInv

\* clear() empties both indexes.
LEMMA ClearKeeps ==
  ASSUME CacheInv, Clear
  PROVE  CacheInv'
<1>1. /\ DecisionInv /\ op = None /\ TypeOK /\ cleaner # "working"
      /\ UNCHANGED <<maxSize, policy, op, cleaner, closed, stopping>>
      /\ cache' = [k \in Keys |-> None] /\ keys' = <<>> /\ order' = <<>> /\ items' = 0
      /\ maxSize \in Nat
  BY ConstantsAssumption DEF CacheInv, Clear, DecisionInv, IndexInv, TypeOK
<1>2. cache' \in [Keys -> CacheItem \cup {None}] /\ Cached' = {}
  BY <1>1 DEF Cached
<1>3. /\ <<>> \in Seq(Keys) /\ IsInjective(<<>>) /\ Range(<<>>) = {} /\ Len(<<>>) = 0
  BY EmptySeq, EmptyRange
<1>4. IndexInv'
  BY <1>1, <1>2, <1>3 DEF IndexInv, TypeOK
<1>5. DecisionInv'
  BY <1>1, <1>3 DEF DecisionInv
<1>6. RecencyInv'
  BY <1>2 DEF RecencyInv
<1> QED BY <1>4, <1>5, <1>6 DEF CacheInv

\* The callback returns, and the operation that awaited it goes on.
LEMMA CallbackDoneKeeps ==
  ASSUME CacheInv, CallbackDone
  PROVE  CacheInv'
<1>1. /\ IndexInv /\ RecencyInv /\ DecisionInv /\ op # None /\ op \in Ops /\ TypeOK
      /\ UNCHANGED <<maxSize, policy, closed, stopping>>
      /\ Len(keys) \in Nat /\ maxSize \in Nat
      /\ cleaner \in {"none", "ready", "working", "sleeping", "ended"}
  BY CachedCount, ConstantsAssumption DEF CacheInv, CallbackDone, IndexInv, TypeOK
<1>2. CASE op.kind = "set" /\ Store(op.key, op.ttl) /\ op' = None /\ UNCHANGED cleaner
  <2>1. op.key \in Keys /\ op.ttl \in Ttls
    BY <1>1, <1>2 DEF Ops
  <2>2. /\ cache' \in [Keys -> CacheItem \cup {None}]
        /\ keys' \in Seq(Keys) /\ IsInjective(keys') /\ Range(keys') = Cached'
        /\ order' \in Seq(Keys) /\ IsInjective(order') /\ Range(order') = Cached'
        /\ items' = Len(keys') /\ items' \in Nat
        /\ Len(keys') = IF op.key \in Cached THEN Len(keys) ELSE Len(keys) + 1
        /\ RecencyInv'
    BY <1>1, <1>2, <2>1, StoreEffect
  <2>3. IndexInv'
    BY <1>1, <1>2, <2>2 DEF IndexInv, TypeOK
  <2>4. cleaner # "working"
    BY <1>2 DEF CacheInv, DecisionInv
  <2>5. Len(keys') <= maxSize
    BY <1>1, <1>2, <2>2 DEF DecisionInv
  <2>6. DecisionInv'
    BY <1>1, <1>2, <2>4, <2>5 DEF DecisionInv
  <2> QED BY <2>2, <2>3, <2>6 DEF CacheInv
<1>3. CASE /\ op' = None /\ UNCHANGED <<cache, keys, order, items>>
           /\ \/ op.kind \in {"get", "delete"} /\ UNCHANGED cleaner
              \/ op.kind = "cleanup" /\ cleaner' = "sleeping"
  <2>1. IndexInv'
    BY <1>1, <1>3 DEF IndexInv, TypeOK, Cached
  <2>2. DecisionInv'
    BY <1>1, <1>3 DEF DecisionInv
  <2>3. RecencyInv'
    BY <1>1, <1>3 DEF RecencyInv, Cached
  <2> QED BY <2>1, <2>2, <2>3 DEF CacheInv
<1>4. CASE /\ op.kind = "cleanup" /\ op.rest # <<>> /\ RemoveItem(Head(op.rest))
           /\ op' = [op EXCEPT !.rest = Tail(@)] /\ UNCHANGED cleaner
  <2> DEFINE rest == op.rest
             k == Head(rest)
  <2>1. rest \in Seq(Keys) /\ op' = [kind |-> "cleanup", rest |-> Tail(rest)]
    <3>1. op \in [kind : {"cleanup"}, rest : Seq(Keys)]
      BY <1>1, <1>4 DEF Ops
    <3> QED BY <1>4, <3>1
  <2>2. cleaner = "working" /\ IsInjective(rest) /\ Range(rest) \subseteq Expired
    BY <1>1, <1>4 DEF DecisionInv
  <2> HIDE DEF rest
  <2>3. /\ Tail(rest) \in Seq(Keys) /\ IsInjective(Tail(rest))
        /\ Range(rest) = {k} \cup Range(Tail(rest)) /\ k \notin Range(Tail(rest))
    BY <1>4, <2>1, <2>2, TailRange DEF rest
  <2>4. k \in Cached /\ RemoveItem(k)
    BY <1>4, <2>2, <2>3 DEF Expired, rest
  <2> HIDE DEF k
  <2>5. /\ cache' \in [Keys -> CacheItem \cup {None}]
        /\ keys' \in Seq(Keys) /\ IsInjective(keys') /\ Range(keys') = Cached'
        /\ order' \in Seq(Keys) /\ IsInjective(order') /\ Range(order') = Cached'
        /\ items' = Len(keys') /\ Len(keys') = Len(keys) - 1 /\ items' \in Nat
        /\ Expired' = Expired \ {k} /\ RecencyInv'
    BY <1>1, <2>4, RemoveItemEffect
  <2>6. /\ op' \in Ops /\ op' # None /\ op'.kind = "cleanup" /\ op'.rest = Tail(rest)
    <3>1. op' \in Ops
      BY <2>1, <2>3 DEF Ops
    <3> QED BY <2>1, <3>1, NoneAssumption
  <2>7. IndexInv'
    BY <1>1, <1>4, <2>5, <2>6 DEF IndexInv, TypeOK
  <2>8. DecisionInv'
    <3>1. Range(Tail(rest)) \subseteq Expired'
      BY <2>2, <2>3, <2>5
    <3>2. maxSize > 0 => Len(keys') <= maxSize
      BY <1>1, <2>5 DEF DecisionInv
    <3> QED BY <1>1, <1>4, <2>2, <2>3, <2>6, <3>1, <3>2 DEF DecisionInv
  <2> QED BY <2>5, <2>7, <2>8 DEF CacheInv
<1> QED BY <1>2, <1>3, <1>4 DEF CallbackDone

\* The cleanup loop finds what has expired, and removes the first of it.
LEMMA CleanupRoundKeeps ==
  ASSUME CacheInv, CleanupRound
  PROVE  CacheInv'
<1>1. /\ IndexInv /\ RecencyInv /\ DecisionInv /\ op = None /\ TypeOK /\ ~closed
      /\ cleaner = "ready" /\ UNCHANGED <<maxSize, policy, closed, stopping>>
      /\ Len(keys) \in Nat /\ maxSize \in Nat
  BY CachedCount, ConstantsAssumption DEF CacheInv, CleanupRound, IndexInv, TypeOK
<1>2. CASE Expired = {}
  <2>1. cleaner' = "sleeping" /\ UNCHANGED <<cache, keys, order, items, op>>
    BY <1>2 DEF CleanupRound
  <2>2. IndexInv'
    BY <1>1, <2>1 DEF IndexInv, TypeOK, Cached
  <2>3. DecisionInv'
    BY <1>1, <2>1 DEF DecisionInv
  <2>4. RecencyInv'
    BY <1>1, <2>1 DEF RecencyInv, Cached
  <2> QED BY <2>2, <2>3, <2>4 DEF CacheInv
<1>3. CASE Expired # {}
  <2>1. PICK expired \in [1..Cardinality(Expired) -> Expired] :
          /\ InDictOrder(expired) /\ RemoveItem(Head(expired)) /\ cleaner' = "working"
          /\ op' = [kind |-> "cleanup", rest |-> Tail(expired)]
    BY <1>3 DEF CleanupRound
  <2>2. Cardinality(Expired) \in Nat \ {0} /\ Expired \subseteq Cached /\ Cached \subseteq Keys
    <3>1. IsFiniteSet(Cached) /\ Expired \in SUBSET Cached
      BY <1>1, CachedCount DEF Expired
    <3>2. IsFiniteSet(Expired)
      BY <3>1, FS_Subset
    <3> QED BY <1>3, <3>1, <3>2, FS_CardinalityType, FS_EmptySet DEF Cached
  <2>3. /\ expired \in Seq(Keys) /\ Len(expired) = Cardinality(Expired) /\ expired # <<>>
        /\ \A i \in 1..Len(expired) : expired[i] \in Expired
        /\ DOMAIN expired = 1..Len(expired)
    <3> DEFINE n == Cardinality(Expired)
    <3> HIDE DEF n
    <3>1. n \in Nat \ {0} /\ expired \in [1..n -> Keys]
      BY <2>1, <2>2 DEF n
    <3>2. expired \in Seq(Keys) /\ Len(expired) = n
      BY <3>1
    <3> QED BY <2>1, <2>2, <3>1, <3>2, EmptySeq DEF n
  <2>4. IsInjective(expired)
    <3>1. \A m, n \in 1..Len(keys) : keys[m] = keys[n] => m = n
      BY <1>1, RangeByIndex DEF IndexInv, TypeOK
    <3>2. ASSUME NEW i \in 1..Len(expired), NEW j \in 1..Len(expired), i < j
          PROVE  expired[i] # expired[j]
      <4>1. PICK m \in 1..Len(keys), n \in 1..Len(keys) :
              m < n /\ keys[m] = expired[i] /\ keys[n] = expired[j]
        BY <2>1, <2>3, <3>2 DEF InDictOrder
      <4>2. m # n
        BY <4>1
      <4> QED BY <3>1, <4>1, <4>2
    <3>3. \A i, j \in 1..Len(expired) : i = j \/ i < j \/ j < i
      BY <2>3
    <3>4. \A i, j \in 1..Len(expired) : expired[i] = expired[j] => i = j
      BY <3>2, <3>3
    <3> QED BY <2>3, <3>4, RangeByIndex
  <2>5. Range(expired) \subseteq Expired
    BY <2>3, RangeByIndex
  <2> DEFINE k == Head(expired)
  <2>6. /\ Tail(expired) \in Seq(Keys) /\ IsInjective(Tail(expired))
        /\ Range(expired) = {k} \cup Range(Tail(expired)) /\ k \notin Range(Tail(expired))
    BY <2>3, <2>4, TailRange
  <2>7. k \in Cached /\ RemoveItem(k)
    BY <2>1, <2>2, <2>5, <2>6
  <2> HIDE DEF k
  <2>8. /\ cache' \in [Keys -> CacheItem \cup {None}]
        /\ keys' \in Seq(Keys) /\ IsInjective(keys') /\ Range(keys') = Cached'
        /\ order' \in Seq(Keys) /\ IsInjective(order') /\ Range(order') = Cached'
        /\ items' = Len(keys') /\ Len(keys') = Len(keys) - 1 /\ items' \in Nat
        /\ Expired' = Expired \ {k} /\ RecencyInv'
    BY <1>1, <2>7, RemoveItemEffect
  <2>9. /\ op' \in Ops /\ op' # None /\ op'.kind = "cleanup" /\ op'.rest = Tail(expired)
    <3>1. op' \in Ops
      BY <2>1, <2>6 DEF Ops
    <3> QED BY <2>1, <3>1, NoneAssumption
  <2>10. IndexInv'
    BY <1>1, <2>1, <2>8, <2>9 DEF IndexInv, TypeOK
  <2>11. DecisionInv'
    <3>1. Range(Tail(expired)) \subseteq Expired'
      BY <2>5, <2>6, <2>8
    <3>2. maxSize > 0 => Len(keys') <= maxSize
      BY <1>1, <2>8 DEF DecisionInv
    <3> QED BY <1>1, <2>1, <2>6, <2>9, <3>1, <3>2 DEF DecisionInv
  <2> QED BY <2>8, <2>10, <2>11 DEF CacheInv
<1> QED BY <1>2, <1>3

\* The steps of the loop and of stop() that touch no item.
LEMMA ControlKeeps ==
  ASSUME CacheInv, UNCHANGED <<maxSize, policy, cache, keys, order, items>>,
         \/ CallbackCancelled \/ CleanupExit \/ CleanupWake \/ Start \/ Stop \/ StopReturn
         \/ UNCHANGED vars
  PROVE  CacheInv'
<1>1. Cached' = Cached /\ Expired' = Expired
  BY DEF Cached, Expired
<1>2. /\ op \in Ops \cup {None} /\ cleaner \in {"none", "ready", "working", "sleeping", "ended"}
      /\ closed \in BOOLEAN /\ stopping \in 0..MaxStops /\ MaxStops \in Nat
  BY ConstantsAssumption DEF CacheInv, IndexInv, TypeOK
<1>2a. op' \in Ops \cup {None} /\ closed' \in BOOLEAN
  BY <1>2 DEF CallbackCancelled, CleanupExit, CleanupWake, Start, Stop, StopReturn, vars
<1>2b. cleaner' \in {"none", "ready", "working", "sleeping", "ended"}
  BY <1>2 DEF CallbackCancelled, CleanupExit, CleanupWake, Start, Stop, StopReturn, vars
<1>2c. stopping' \in 0..MaxStops
  BY <1>2 DEF CallbackCancelled, CleanupExit, CleanupWake, Start, Stop, StopReturn, vars
<1>3. IndexInv'
  BY <1>1, <1>2a, <1>2b, <1>2c DEF CacheInv, IndexInv, TypeOK
<1>4. DecisionInv'
  <2>1. stopping \in 0..MaxStops /\ MaxStops \in Nat
    BY ConstantsAssumption DEF CacheInv, IndexInv, TypeOK
  <2>2. /\ op' = op \/ op' = None
        /\ cleaner' = "working" => cleaner = "working"
        /\ cleaner' = "working" <=> op' # None /\ op'.kind = "cleanup"
        /\ closed' => cleaner' # "working"
        /\ stopping' > 0 => closed'
    BY <2>1
       DEF CacheInv, DecisionInv, CallbackCancelled, CleanupExit, CleanupWake, Start, Stop,
           StopReturn, vars
  <2> QED BY <1>1, <2>2 DEF CacheInv, DecisionInv
<1>5. RecencyInv'
  BY <1>1 DEF CacheInv, RecencyInv
<1> QED BY <1>3, <1>4, <1>5 DEF CacheInv

\* Everything grows older alike.
LEMMA TickKeeps ==
  ASSUME CacheInv, Tick
  PROVE  CacheInv'
<1>1. /\ IndexInv /\ RecencyInv /\ DecisionInv /\ TypeOK
      /\ UNCHANGED <<maxSize, policy, keys, order, items, op, cleaner, closed, stopping>>
      /\ cache \in [Keys -> CacheItem \cup {None}] /\ MaxAge \in Nat
  BY ConstantsAssumption DEF CacheInv, IndexInv, TypeOK, Tick
<1> DEFINE older(n) == IF n < MaxAge THEN n + 1 ELSE n
           item(k) == [cache[k] EXCEPT !.age = older(cache[k].age),
                                       !.idle = IF policy = "LRU" THEN older(cache[k].idle)
                                                                  ELSE cache[k].idle]
<1>2. \A n \in 0..MaxAge : older(n) \in 0..MaxAge /\ older(n) >= n
  BY <1>1
<1>3. \A k \in Cached : /\ item(k) \in CacheItem /\ item(k) # None
                        /\ item(k).age = older(cache[k].age) /\ item(k).ttl = cache[k].ttl
                        /\ item(k).idle = IF policy = "LRU" THEN older(cache[k].idle) ELSE cache[k].idle
                        /\ item(k).over = cache[k].over
  <2> SUFFICES ASSUME NEW k \in Cached
               PROVE  /\ item(k) \in CacheItem /\ item(k) # None
                      /\ item(k).age = older(cache[k].age) /\ item(k).ttl = cache[k].ttl
                      /\ item(k).idle = IF policy = "LRU" THEN older(cache[k].idle) ELSE cache[k].idle
                      /\ item(k).over = cache[k].over
    OBVIOUS
  <2> HIDE DEF older
  <2>1. cache[k] \in CacheItem /\ cache[k].age \in 0..MaxAge /\ cache[k].idle \in 0..MaxAge
    BY <1>1, ItemFields
  <2>2. item(k) \in CacheItem
    BY <1>2, <2>1 DEF CacheItem
  <2>3. item(k) # None
    <3> HIDE DEF item
    <3> QED BY <2>2, NoneAssumption
  <2> QED BY <2>1, <2>2, <2>3 DEF CacheItem
<1>4. /\ \A k \in Cached : cache'[k] = item(k)
      /\ \A k \in Keys \ Cached : cache'[k] = None
      /\ cache' \in [Keys -> CacheItem \cup {None}]
  <2>1. \A k \in Cached : k \in Keys /\ cache[k] # None /\ cache[k] \in CacheItem
    BY <1>1, ItemFields DEF Cached
  <2>2. \A k \in Cached : cache'[k] = item(k)
    BY <2>1 DEF Tick, CacheItem
  <2>3. \A k \in Keys \ Cached : cache'[k] = None
    BY DEF Tick, Cached
  <2>4. cache' = [k \in Keys |-> cache'[k]]
    BY DEF Tick
  <2>5. \A k \in Keys : cache'[k] \in CacheItem \cup {None}
    <3> HIDE DEF item
    <3> QED BY <1>3, <2>2, <2>3
  <2> HIDE DEF item
  <2> QED BY <2>2, <2>3, <2>4, <2>5
<1> HIDE DEF item
<1>5. Cached' = Cached
  BY <1>3, <1>4 DEF Cached
<1>6. Expired \subseteq Expired'
  <2> SUFFICES ASSUME NEW k \in Expired PROVE k \in Expired'
    OBVIOUS
  <2>1. k \in Cached /\ cache[k].age \in 0..MaxAge /\ cache[k].age > cache[k].ttl /\ cache[k].ttl \in Nat
    BY <1>1, ItemFields DEF Expired, IsExpired
  <2>2. cache'[k].age >= cache[k].age /\ cache'[k].ttl = cache[k].ttl /\ cache'[k].age \in Nat
    BY <1>2, <1>3, <1>4, <2>1
  <2>3. cache'[k].age > cache'[k].ttl
    BY <2>1, <2>2
  <2> QED BY <1>5, <2>1, <2>3 DEF Expired, IsExpired
<1>7. IndexInv'
  BY <1>1, <1>4, <1>5 DEF IndexInv, TypeOK
<1>8. DecisionInv'
  BY <1>1, <1>5, <1>6 DEF DecisionInv
<1>9. RecencyInv'
  <2> SUFFICES ASSUME policy = "LRU", NEW a \in Cached, NEW b \in Cached,
                      Precedes(order, a, b), ~cache'[a].over
               PROVE  cache'[b].idle <= cache'[a].idle
    BY <1>1, <1>5 DEF RecencyInv
  <2>1. /\ cache[b].idle <= cache[a].idle
        /\ cache[a].idle \in 0..MaxAge /\ cache[b].idle \in 0..MaxAge
    BY <1>1, <1>3, <1>4, ItemFields DEF RecencyInv
  <2>2. cache'[a].idle = older(cache[a].idle) /\ cache'[b].idle = older(cache[b].idle)
    BY <1>3, <1>4
  <2> QED BY <1>1, <2>1, <2>2
<1> QED BY <1>7, <1>8, <1>9 DEF CacheInv

\* An empty cache satisfies the invariant.
LEMMA CacheInitially == Init => CacheInv
<1> SUFFICES ASSUME Init PROVE CacheInv
  OBVIOUS
<1>1. cache \in [Keys -> CacheItem \cup {None}] /\ Cached = {}
  BY DEF Init, Cached
<1>2. /\ <<>> \in Seq(Keys) /\ IsInjective(<<>>) /\ Range(<<>>) = {} /\ Len(<<>>) = 0
  BY EmptySeq, EmptyRange
<1>3. MaxSizes \subseteq Nat /\ MaxStops \in Nat
  BY ConstantsAssumption
<1>4. TypeOK
  <2>1. keys = <<>> /\ order = <<>>
    BY DEF Init
  <2>2. keys \in Seq(Keys) /\ Range(keys) = Cached /\ order \in Seq(Keys)
    BY <1>1, <1>2, <2>1
  <2>3. /\ maxSize \in MaxSizes /\ policy \in Policies /\ items \in Nat /\ op \in Ops \cup {None}
        /\ cleaner \in {"none", "ready", "working", "sleeping", "ended"}
        /\ closed \in BOOLEAN /\ stopping \in 0..MaxStops
    <3>1. 0 \in 0..MaxStops
      BY <1>3
    <3> QED BY <3>1 DEF Init
  <2> QED BY <1>1, <2>2, <2>3 DEF TypeOK
<1>4a. IndexInv
  BY <1>1, <1>2, <1>4 DEF Init, IndexInv
<1>5. DecisionInv
  BY <1>2, <1>3 DEF Init, DecisionInv
<1>6. RecencyInv
  BY <1>1 DEF RecencyInv
<1> QED BY <1>4a, <1>5, <1>6 DEF CacheInv

\* Every step keeps the invariant.
LEMMA CacheStep == CacheInv /\ [Next]_vars => CacheInv'
<1> SUFFICES ASSUME CacheInv, [Next]_vars PROVE CacheInv'
  OBVIOUS
<1>1. CASE \E k \in Keys, ttl \in Ttls : Set(k, ttl) \/ Touch(k, ttl)
  BY <1>1, SetKeeps, TouchKeeps
<1>2. CASE \E k \in Keys : Get(k) \/ Delete(k)
  BY <1>2, GetOrDeleteKeeps
<1>3. CASE Clear \/ CallbackDone \/ CleanupRound \/ Tick
  BY <1>3, ClearKeeps, CallbackDoneKeeps, CleanupRoundKeeps, TickKeeps
<1>4. CASE \/ CallbackCancelled \/ CleanupExit \/ CleanupWake \/ Start \/ Stop \/ StopReturn
           \/ UNCHANGED vars
  <2>1. UNCHANGED <<maxSize, policy, cache, keys, order, items>>
    BY <1>4 DEF CallbackCancelled, CleanupExit, CleanupWake, Start, Stop, StopReturn, vars
  <2> QED BY <1>4, <2>1, ControlKeeps
<1> QED BY <1>1, <1>2, <1>3, <1>4 DEF Next

\* The invariant holds in every state the cache reaches.
THEOREM Inductive == Spec => []CacheInv
<1>1. Init => CacheInv
  BY CacheInitially
<1>2. CacheInv /\ [Next]_vars => CacheInv'
  BY CacheStep
<1> QED BY <1>1, <1>2, PTL DEF Spec

\* Types: an item is stored with a time to live that is set, the dict lists its
\* own keys, and no operation is suspended but in a callback.
THEOREM CacheTypeOK == Spec => []TypeOK
<1>1. CacheInv => TypeOK
  BY DEF CacheInv, IndexInv
<1> QED BY <1>1, Inductive, PTL

\* _cache, _access_order and _stats.items agree in every state, while an
\* operation is suspended in its callback or after it was cancelled there: for
\* every number of keys and every max_size, under each of the three policies.
THEOREM IndexesKeptTogether == Spec => []IndexesAgree
<1>1. CacheInv => IndexesAgree
  BY CachedCount DEF CacheInv, IndexInv, IndexesAgree
<1> QED BY <1>1, Inductive, PTL

\* What an operation decided before its callback holds when it goes on: the
\* cache is never larger than max_size, and only expired items are cleaned up.
THEOREM DecisionsOutliveCallbacks == Spec => []DecisionsHold
<1>1. CacheInv => DecisionsHold
  BY CachedCount DEF CacheInv, DecisionInv, DecisionsHold
<1> QED BY <1>1, Inductive, PTL

\* A set() of an LRU cache makes room by dropping the key no other of which was
\* idle for longer, whatever was stored, used, renewed or cancelled before.
THEOREM LeastRecentEvicted == Spec => EvictsLeastRecent
<1> DEFINE A == policy = "LRU" /\ op = None /\ op' # None /\ op'.kind = "set" =>
                  \A v \in Cached : cache'[v] = None /\ ~cache[v].over =>
                    \A k \in Cached : cache[k].idle <= cache[v].idle
<1>1. CacheInv /\ [Next]_vars => [A]_vars
  <2> SUFFICES ASSUME CacheInv, Next, policy = "LRU", op = None, op' # None, op'.kind = "set",
                      NEW v \in Cached, cache'[v] = None, ~cache[v].over, NEW k \in Cached
               PROVE  cache[k].idle <= cache[v].idle
    BY DEF A
  <2>1. IndexInv /\ RecencyInv /\ Range(order) = Cached /\ order \in Seq(Keys)
        /\ cache \in [Keys -> CacheItem \cup {None}]
    BY DEF CacheInv, IndexInv, TypeOK
  <2>2. PICK key \in Keys, ttl \in Ttls : Set(key, ttl)
    <3>1. ASSUME NEW key \in Keys, Get(key) \/ Delete(key) PROVE FALSE
      <4>1. op' = None \/ op' = [kind |-> "get"] \/ op' = [kind |-> "delete"]
        BY <3>1 DEF Get, Hit, Delete
      <4>2. op'.kind \in {"get", "delete"}
        BY <4>1
      <4> QED BY <4>2
    <3>2. ASSUME CleanupRound PROVE FALSE
      <4>1. \/ op' = None
            \/ \E expired \in [1..Cardinality(Expired) -> Expired] :
                 op' = [kind |-> "cleanup", rest |-> Tail(expired)]
        BY <3>2 DEF CleanupRound
      <4>2. op'.kind = "cleanup"
        BY <4>1
      <4> QED BY <4>2
    <3>3. ASSUME NEW key \in Keys, NEW ttl \in Ttls, Touch(key, ttl) PROVE FALSE
      BY <3>3 DEF Touch
    <3>4. ASSUME \/ Clear \/ CallbackDone \/ CallbackCancelled \/ CleanupExit \/ CleanupWake
                 \/ Start \/ Stop \/ StopReturn \/ Tick
          PROVE  FALSE
      BY <3>4 DEF Clear, CallbackDone, CallbackCancelled, CleanupExit, CleanupWake, Start, Stop,
                  StopReturn, Tick
    <3> QED BY <3>1, <3>2, <3>3, <3>4 DEF Next
  <2>3. maxSize > 0 /\ Cardinality(Cached) >= maxSize /\ RemoveItem(Victim)
    BY <2>2 DEF Set
  <2>4. Victim \in Cached /\ Victim = Head(order) /\ order # <<>>
    BY <2>1, <2>3, VictimCached
  <2>5. cache' = [cache EXCEPT ![Victim] = None]
    BY <2>3 DEF RemoveItem
  <2> HIDE DEF Cached
  <2>6. v \in Keys /\ cache[v] # None /\ cache[v].idle \in Nat
    BY <2>1, ItemFields DEF Cached, IndexInv
  <2>7. v = Victim
    BY <2>1, <2>5, <2>6
  <2>8. k = v \/ Precedes(order, v, k)
    BY <2>1, <2>4, <2>7, HeadPrecedes
  <2> QED BY <2>1, <2>6, <2>8 DEF RecencyInv
<1>2. [][A]_vars <=> EvictsLeastRecent
  BY DEF EvictsLeastRecent
<1> QED BY <1>1, <1>2, Inductive, PTL DEF Spec
=============================================================================
