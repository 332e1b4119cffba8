------------------------- MODULE EventEmitterProofs -------------------------
(***************************************************************************)
(* Theorems about EventEmitter, for any events, priorities, registrations  *)
(* and emissions: the order in which listeners run, that each that should  *)
(* is called, that once() listeners complete once and that wait_for()      *)
(* neither misses an event nor leaves a handler behind.                    *)
(***************************************************************************)
EXTENDS EventEmitter, SequenceLemmas, FiniteSetTheorems, TLAPS

\* The order in which an emission calls its listeners.
Earlier(a, b) ==
  \/ a.event # Star /\ b.event = Star
  \/ a.event = b.event /\ (a.prio > b.prio \/ (a.prio = b.prio /\ a.id < b.id))
Chain(s) == \A i, j \in 1..Len(s) : i < j => Earlier(s[i], s[j])

\* A listener is the registration of its id.
Known(l) == l.id \in 1..Len(made) /\ made[l.id] = l

Registry ==
  /\ lists \in [Names -> Seq(Listeners)] /\ made \in Seq(Listeners) /\ count \in Int
  /\ Len(made) <= MaxListeners
  /\ \A i \in 1..Len(made) : made[i].id = i
  /\ \A n \in Names : Chain(lists[n]) /\ \A l \in Range(lists[n]) : Known(l) /\ l.event = n
  /\ count <= Cardinality(Registered)

Waits ==
  /\ future \in [Ids -> {"none", "pending", "set", "returned", "timeout", "cancelled"}]
  /\ cleared \subseteq Ids
  /\ \A l \in Range(made) : l.kind = "wait" /\ l.id \notin cleared /\ future[l.id] # "cancelled" =>
        (future[l.id] = "pending" <=> l \in Registered)

\* The line of the lock: waiting emissions, and a relay's while it runs.
Line ==
  /\ waiting \in Seq(Emits \cup {Nested}) /\ IsInjective(waiting)
  /\ phase \in [Emits -> {"none", "waiting", "running"} \cup Ended]
  /\ event \in [Emits -> Events \cup {None}]
  /\ \A e \in Range(waiting) \ {Nested} : phase[e] = "waiting"
  /\ Nested \in Range(waiting) <=>
       op # None /\ op.running # None /\ op.running.kind = "relay"
  /\ \A e \in Emits : phase[e] \in {"waiting", "running"} => event[e] \in Events
  /\ \A e \in Emits : phase[e] = "running" <=> op # None /\ op.emit = e

\* The emission that holds the lock: whom it has called and has still to call.
Emission ==
  op # None =>
    /\ op \in Running /\ op.start <= Len(made)
    /\ Chain(op.ran) /\ Chain(op.rest)
    /\ \A x \in Range(op.ran), y \in Range(op.rest) : Earlier(x, y)
    /\ \A x \in Range(op.ran) \cup Range(op.rest) : Known(x)
    /\ op.running # None => op.running \in Range(op.ran)
    /\ \A l \in Registered : l.id <= op.start /\ l.event \in {event[op.emit], Star} =>
         l \in Range(op.ran) \cup Range(op.rest)

\* Who has completed is neither registered nor to be called again.
Once ==
  /\ fired \in [Ids -> {0, 1}]
  /\ \A id \in Ids : fired[id] # 0 => id <= Len(made)
  /\ \A l \in Registered : l.kind = "once" => fired[l.id] = 0
  /\ op # None => \A l \in Range(op.rest) \cup ({op.running} \ {None}) :
                    l.kind = "once" => fired[l.id] = 0

EmitterInv ==
  /\ Registry /\ Waits /\ Line /\ Emission /\ Once
  /\ hooks \in BOOLEAN /\ gone \subseteq Ids

-----------------------------------------------------------------------------
(* Lists of listeners. *)

\* Priorities and ids are numbers.
LEMMA ListenerType ==
  ASSUME NEW l \in Listeners
  PROVE  l.prio \in Nat /\ l.id \in Nat /\ l.id \in Ids /\ l.event \in Names /\ ~Earlier(l, l)
<1>1. l.prio \in 1..6 /\ l.id \in 1..MaxListeners /\ l.event \in Names
  <2>1. l.id \in Ids /\ l.prio \in Priorities \cup {HIGHEST, MONITOR} /\ l.event \in Names
    BY DEF Listeners
  <2>2. Priorities \cup {5, 6} \subseteq 1..6
    BY ConstantsAssumption
  <2> QED BY <2>1, <2>2 DEF Ids, HIGHEST, MONITOR
<1>2. MaxListeners \in Nat
  BY ConstantsAssumption
<1> QED BY <1>1, <1>2 DEF Earlier, Ids

\* No listener is called twice.
LEMMA ChainInjective ==
  ASSUME NEW s \in Seq(Listeners), Chain(s)
  PROVE  IsInjective(s)
<1> SUFFICES ASSUME NEW i \in 1..Len(s), NEW j \in 1..Len(s), s[i] = s[j] PROVE i = j
  BY RangeByIndex
<1>1. s[i] \in Listeners /\ Len(s) \in Nat
  BY LenProperties, ElementOfSeq
<1>2. ~Earlier(s[i], s[i])
  BY <1>1, ListenerType
<1>3. ~(i < j) /\ ~(j < i)
  BY <1>2 DEF Chain
<1> QED BY <1>1, <1>3

\* One list behind another.
LEMMA ChainConcat ==
  ASSUME NEW a \in Seq(Listeners), NEW b \in Seq(Listeners), Chain(a), Chain(b),
         \A x \in Range(a), y \in Range(b) : Earlier(x, y)
  PROVE  Chain(a \o b)
<1> DEFINE c == a \o b
<1>1. /\ Len(c) = Len(a) + Len(b) /\ Len(a) \in Nat /\ Len(b) \in Nat
      /\ \A i \in 1..Len(a) + Len(b) : c[i] = IF i <= Len(a) THEN a[i] ELSE b[i - Len(a)]
  BY ConcatProperties, LenProperties
<1> HIDE DEF c
<1> SUFFICES ASSUME NEW i \in 1..Len(c), NEW j \in 1..Len(c), i < j PROVE Earlier(c[i], c[j])
  BY DEF Chain, c
<1>2. \A k \in 1..Len(a) : c[k] = a[k] /\ a[k] \in Range(a)
  BY <1>1, RangeByIndex
<1>3. \A k \in 1..Len(c) : ~(k <= Len(a)) =>
        k - Len(a) \in 1..Len(b) /\ c[k] = b[k - Len(a)] /\ b[k - Len(a)] \in Range(b)
  BY <1>1, RangeByIndex
<1>4. CASE j <= Len(a)
  <2>1. i \in 1..Len(a) /\ j \in 1..Len(a)
    BY <1>1, <1>4
  <2> QED BY <1>2, <2>1 DEF Chain
<1>5. CASE i <= Len(a) /\ ~(j <= Len(a))
  <2>1. i \in 1..Len(a)
    BY <1>1, <1>5
  <2> QED BY <1>2, <1>3, <1>5, <2>1
<1>6. CASE ~(i <= Len(a))
  <2>1. ~(j <= Len(a)) /\ i - Len(a) < j - Len(a)
    BY <1>1, <1>6
  <2>2. Earlier(b[i - Len(a)], b[j - Len(a)])
    BY <1>3, <1>6, <2>1 DEF Chain
  <2> QED BY <1>3, <1>6, <2>1, <2>2
<1> QED BY <1>4, <1>5, <1>6

\* The head comes before all others.
LEMMA ChainTail ==
  ASSUME NEW s \in Seq(Listeners), s # <<>>, Chain(s)
  PROVE  Chain(Tail(s)) /\ \A y \in Range(Tail(s)) : Earlier(Head(s), y)
<1> DEFINE t == Tail(s)
<1>1. /\ t \in Seq(Listeners) /\ Len(t) = Len(s) - 1 /\ Len(s) \in Nat \ {0}
      /\ Head(s) = s[1] /\ \A i \in 1..Len(t) : t[i] = s[i + 1]
  BY HeadTailProperties, LenProperties, EmptySeq
<1> HIDE DEF t
<1>2. Chain(t)
  BY <1>1 DEF Chain
<1>3. ASSUME NEW y \in Range(t) PROVE Earlier(Head(s), y)
  <2>1. PICK i \in 1..Len(t) : t[i] = y
    BY <1>1, RangeByIndex
  <2>2. 1 \in 1..Len(s) /\ i + 1 \in 1..Len(s) /\ 1 < i + 1
    BY <1>1
  <2>3. Earlier(s[1], s[i + 1])
    BY <2>2 DEF Chain
  <2> QED BY <1>1, <2>1, <2>3
<1> QED BY <1>2, <1>3 DEF t

\* One more listener is called.
LEMMA ChainAppend ==
  ASSUME NEW s \in Seq(Listeners), Chain(s), NEW l \in Listeners, \A x \in Range(s) : Earlier(x, l)
  PROVE  Chain(Append(s, l))
<1> DEFINE t == Append(s, l)
<1>1. /\ Len(t) = Len(s) + 1 /\ Len(s) \in Nat /\ t[Len(s) + 1] = l
      /\ \A i \in 1..Len(s) : t[i] = s[i] /\ s[i] \in Range(s)
  BY AppendProperties, LenProperties, RangeByIndex
<1> HIDE DEF t
<1> SUFFICES ASSUME NEW i \in 1..Len(t), NEW j \in 1..Len(t), i < j PROVE Earlier(t[i], t[j])
  BY DEF Chain, t
<1>2. i \in 1..Len(s)
  BY <1>1
<1>3. CASE j \in 1..Len(s)
  BY <1>1, <1>2, <1>3 DEF Chain
<1>4. CASE j = Len(s) + 1
  BY <1>1, <1>2, <1>4
<1> QED BY <1>1, <1>3, <1>4

\* Taking one off the list leaves the others in order.
LEMMA ChainWithout ==
  ASSUME NEW s \in Seq(Listeners), Chain(s), NEW l
  PROVE  /\ RemoveFirst(s, l) \in Seq(Listeners) /\ Chain(RemoveFirst(s, l))
         /\ Range(RemoveFirst(s, l)) = Range(s) \ {l}
<1>1. IsInjective(s)
  BY ChainInjective
<1>2. RemoveFirst(s, l) \in Seq(Listeners) /\ Range(RemoveFirst(s, l)) = Range(s) \ {l}
  BY <1>1, RemoveFirstRange
<1>3. CASE l \notin Range(s)
  BY <1>2, <1>3, RemoveFirstIsRemoveAt
<1>4. CASE l \in Range(s)
  <2>1. PICK n \in 1..Len(s) : RemoveFirst(s, l) = RemoveAt(s, n)
    BY <1>4, RemoveFirstIsRemoveAt
  <2> DEFINE t == RemoveAt(s, n)
  <2>2. /\ Len(t) = Len(s) - 1 /\ Len(s) \in Nat
        /\ \A j \in 1..Len(s) - 1 : t[j] = IF j < n THEN s[j] ELSE s[j + 1]
    BY RemoveAtProperties, LenProperties
  <2> HIDE DEF t
  <2>3. ASSUME NEW i \in 1..Len(t), NEW j \in 1..Len(t), i < j PROVE Earlier(t[i], t[j])
    <3>1. PICK k \in 1..Len(s) : t[i] = s[k] /\ k = IF i < n THEN i ELSE i + 1
      BY <2>2
    <3>2. PICK m \in 1..Len(s) : t[j] = s[m] /\ m = IF j < n THEN j ELSE j + 1
      BY <2>2
    <3>3. k < m
      BY <2>2, <2>3, <3>1, <3>2
    <3> QED BY <3>1, <3>2, <3>3 DEF Chain
  <2>4. Chain(t)
    BY <2>3 DEF Chain
  <2> QED BY <1>2, <2>1, <2>4 DEF t
<1> QED BY <1>3, <1>4

\* A new registration takes its place.
LEMMA InsertedChain ==
  ASSUME NEW s \in Seq(Listeners), Chain(s), NEW l \in Listeners,
         \A x \in Range(s) : x.event = l.event /\ x.id < l.id
  PROVE  /\ Inserted(s, l) \in Seq(Listeners) /\ Chain(Inserted(s, l))
         /\ Range(Inserted(s, l)) = Range(s) \cup {l}
<1> DEFINE n == Len(s)
           lower == {i \in 1..n : s[i].prio < l.prio} \cup {n + 1}
           at == Min(lower)
           t == InsertAt(s, at, l)
<1>1. /\ n \in Nat /\ \A i \in 1..n : s[i] \in Listeners /\ s[i] \in Range(s)
  BY LenProperties, RangeByIndex
<1>2. \A i \in 1..n : /\ s[i].prio \in Nat /\ s[i].id \in Nat /\ l.prio \in Nat /\ l.id \in Nat
                      /\ s[i].event = l.event /\ s[i].id < l.id
  BY <1>1, ListenerType
<1>3. at \in lower /\ \A y \in lower : at <= y
  <2>1. lower \in SUBSET Nat /\ lower # {}
    BY <1>1
  <2>2. \E x \in lower : \A y \in lower : x <= y
    BY <2>1, LeastExists
  <2> HIDE DEF lower
  <2> QED BY <2>1, <2>2 DEF Min
<1> HIDE DEF at, n
<1>4. at \in 1..n + 1 /\ at \in Nat
  BY <1>1, <1>3
<1>5. \A i \in 1..n : i < at => Earlier(s[i], l)
  <2> SUFFICES ASSUME NEW i \in 1..n, i < at PROVE Earlier(s[i], l)
    OBVIOUS
  <2>1. i \notin lower
    BY <1>3, <1>4
  <2>2. ~(s[i].prio < l.prio)
    BY <2>1
  <2> QED BY <1>2, <2>2 DEF Earlier
<1>6. \A i \in 1..n : ~(i < at) => Earlier(l, s[i])
  <2> SUFFICES ASSUME NEW i \in 1..n, ~(i < at) PROVE Earlier(l, s[i])
    OBVIOUS
  <2>1. at \in 1..n /\ s[at].prio < l.prio
    BY <1>1, <1>3, <1>4
  <2>2. CASE i = at
    BY <1>2, <2>1, <2>2 DEF Earlier
  <2>3. CASE at < i
    <3>1. Earlier(s[at], s[i])
      BY <2>1, <2>3 DEF Chain, n
    <3>2. s[i].prio <= s[at].prio
      BY <1>2, <2>1, <3>1 DEF Earlier
    <3> QED BY <1>2, <2>1, <3>2 DEF Earlier
  <2> QED BY <1>1, <1>4, <2>2, <2>3
<1> HIDE DEF lower
<1>7. /\ t \in Seq(Listeners) /\ Len(t) = n + 1
      /\ \A j \in 1..n + 1 : t[j] = IF j < at THEN s[j] ELSE IF j = at THEN l ELSE s[j - 1]
  BY <1>4, InsertAtProperties DEF n
<1>8. Range(t) = Range(s) \cup {l}
  BY <1>4, InsertAtRange DEF n
<1> HIDE DEF t
<1>9. ASSUME NEW i \in 1..Len(t), NEW j \in 1..Len(t), i < j PROVE Earlier(t[i], t[j])
  <2>1. CASE j < at
    <3>1. t[i] = s[i] /\ t[j] = s[j] /\ i \in 1..n /\ j \in 1..n
      BY <1>1, <1>4, <1>7, <1>9, <2>1
    <3> QED BY <1>9, <3>1 DEF Chain, n
  <2>2. CASE j = at
    <3>1. t[i] = s[i] /\ t[j] = l /\ i \in 1..n /\ i < at
      BY <1>1, <1>4, <1>7, <1>9, <2>2
    <3> QED BY <1>5, <3>1
  <2>3. CASE at < j /\ i < at
    <3>1. t[i] = s[i] /\ t[j] = s[j - 1] /\ i \in 1..n /\ j - 1 \in 1..n /\ i < j - 1
      BY <1>1, <1>4, <1>7, <1>9, <2>3
    <3> QED BY <3>1 DEF Chain, n
  <2>4. CASE at < j /\ i = at
    <3>1. t[i] = l /\ t[j] = s[j - 1] /\ j - 1 \in 1..n /\ ~(j - 1 < at)
      BY <1>1, <1>4, <1>7, <1>9, <2>4
    <3> QED BY <1>6, <3>1
  <2>5. CASE at < i
    <3>1. t[i] = s[i - 1] /\ t[j] = s[j - 1] /\ i - 1 \in 1..n /\ j - 1 \in 1..n /\ i - 1 < j - 1
      BY <1>1, <1>4, <1>7, <1>9, <2>5
    <3> QED BY <3>1 DEF Chain, n
  <2>6. j < at \/ j = at \/ (at < j /\ i < at) \/ (at < j /\ i = at) \/ at < i
    BY <1>1, <1>4, <1>7
  <2> QED BY <2>1, <2>2, <2>3, <2>4, <2>5, <2>6
<1>10. Chain(t)
  BY <1>9 DEF Chain
<1> QED BY <1>7, <1>8, <1>10 DEF Inserted, t, at, lower, n

-----------------------------------------------------------------------------
(* The registry. *)

\* Only registrations are listed, finitely many.
LEMMA RegisteredAreMade ==
  ASSUME Registry
  PROVE  /\ Registered \subseteq Range(made) /\ Range(made) \subseteq Listeners
         /\ \A l \in Range(made) : Known(l)
         /\ \A l \in Registered : Known(l) /\ l \in Listeners /\ l \in Range(lists[l.event])
         /\ IsFiniteSet(Registered) /\ Cardinality(Registered) \in Nat
<1>1. made \in Seq(Listeners) /\ lists \in [Names -> Seq(Listeners)]
  BY DEF Registry
<1>2. \A l \in Registered : \E n \in Names : l \in Range(lists[n])
  BY DEF Registered
<1>3. ASSUME NEW l \in Registered PROVE Known(l) /\ l \in Listeners /\ l \in Range(lists[l.event])
  <2>1. PICK n \in Names : l \in Range(lists[n])
    BY <1>2
  <2>2. Known(l) /\ l.event = n
    BY <2>1 DEF Registry
  <2>3. l \in Listeners
    BY <1>1, <2>2, ElementOfSeq DEF Known
  <2> QED BY <2>1, <2>2, <2>3
<1>4. Registered \subseteq Range(made)
  BY <1>1, <1>3, RangeByIndex DEF Known
<1>5. Range(made) \subseteq Listeners /\ IsFiniteSet(Range(made))
  BY <1>1, RangeByIndex, InjectiveRangeSize
<1>6. \A l \in Range(made) : Known(l)
  <2> SUFFICES ASSUME NEW l \in Range(made) PROVE Known(l)
    OBVIOUS
  <2>1. PICK i \in 1..Len(made) : made[i] = l
    BY <1>1, RangeByIndex
  <2> QED BY <2>1 DEF Registry, Known
<1>7. IsFiniteSet(Registered) /\ Cardinality(Registered) \in Nat
  BY <1>4, <1>5, FS_Subset, FS_CardinalityType
<1> QED BY <1>3, <1>4, <1>5, <1>6, <1>7

\* Different registrations have different ids.
LEMMA KnownById ==
  ASSUME NEW a, NEW b, Known(a), Known(b), a.id = b.id
  PROVE  a = b
BY DEF Known

\* What registering l changes.
Added(l) ==
  /\ l \in Listeners /\ l.id = Len(made) + 1 /\ l.id \in Ids /\ made' = Append(made, l)
  /\ l \notin Registered /\ Registered' = Registered \cup {l}
  /\ Len(made') = Len(made) + 1 /\ Range(made') = Range(made) \cup {l}

\* add_listener() takes the new registration into its list.
LEMMA AddKeeps ==
  ASSUME Registry, NEW kind \in Kinds, NEW prio \in Priorities \cup {HIGHEST, MONITOR},
         NEW n \in Names, AddListener(kind, prio, n)
  PROVE  Registry' /\ \E l : l.kind = kind /\ Added(l)
<1> DEFINE l == [id |-> Len(made) + 1, kind |-> kind, prio |-> prio, event |-> n]
<1>1. /\ Len(made) < MaxListeners /\ made' = Append(made, l)
      /\ lists' = [lists EXCEPT ![n] = Inserted(lists[n], l)] /\ count' = count + 1
  BY DEF AddListener
<1>2. /\ made \in Seq(Listeners) /\ lists \in [Names -> Seq(Listeners)] /\ Len(made) \in Nat
      /\ MaxListeners \in Nat /\ count \in Int /\ count <= Cardinality(Registered)
  BY LenProperties, ConstantsAssumption DEF Registry
<1>3. Len(made) + 1 \in Ids
  BY <1>1, <1>2 DEF Ids
<1>4. l \in Listeners /\ l.id = Len(made) + 1 /\ l.kind = kind /\ l.event = n
  BY <1>3 DEF Listeners
<1> HIDE DEF l
<1>5. /\ made' \in Seq(Listeners) /\ Len(made') = Len(made) + 1 /\ made'[Len(made) + 1] = l
      /\ \A i \in 1..Len(made) : made'[i] = made[i]
      /\ Range(made') = Range(made) \cup {l}
  BY <1>1, <1>2, <1>4, AppendProperties, AppendRange
<1>6. \A x : Known(x) => x # l /\ x.id <= Len(made) /\ x.id \in 1..Len(made') /\ made'[x.id] = x
  BY <1>2, <1>4, <1>5 DEF Known
<1>7. /\ Inserted(lists[n], l) \in Seq(Listeners) /\ Chain(Inserted(lists[n], l))
      /\ Range(Inserted(lists[n], l)) = Range(lists[n]) \cup {l}
  <2>1. lists[n] \in Seq(Listeners) /\ Chain(lists[n])
    BY <1>2 DEF Registry
  <2>2. ASSUME NEW x \in Range(lists[n]) PROVE x.event = l.event /\ x.id < l.id
    <3>1. Known(x) /\ x.event = n
      BY DEF Registry
    <3>2. x.id \in 1..Len(made)
      BY <3>1 DEF Known
    <3> QED BY <1>2, <1>4, <3>1, <3>2
  <2> QED BY <1>4, <2>1, <2>2, InsertedChain
<1>8. /\ lists' \in [Names -> Seq(Listeners)] /\ lists'[n] = Inserted(lists[n], l)
      /\ \A m \in Names \ {n} : lists'[m] = lists[m]
  BY <1>1, <1>2, <1>7
<1>9. Registered' = Registered \cup {l}
  <2>1. \A m \in Names : Range(lists'[m]) = Range(lists[m]) \cup (IF m = n THEN {l} ELSE {})
    BY <1>7, <1>8
  <2>2. Registered' = UNION {Range(lists'[m]) : m \in Names}
    BY DEF Registered
  <2> QED BY <2>1, <2>2 DEF Registered
<1>10. \A m \in Names : Chain(lists'[m]) /\ \A x \in Range(lists'[m]) :
         x.id \in 1..Len(made') /\ made'[x.id] = x /\ x.event = m
  <2> SUFFICES ASSUME NEW m \in Names
               PROVE  Chain(lists'[m]) /\ \A x \in Range(lists'[m]) :
                        x.id \in 1..Len(made') /\ made'[x.id] = x /\ x.event = m
    OBVIOUS
  <2>1. Chain(lists[m]) /\ \A x \in Range(lists[m]) : Known(x) /\ x.event = m
    BY DEF Registry
  <2>2. l.id \in 1..Len(made') /\ made'[l.id] = l
    BY <1>2, <1>4, <1>5
  <2> QED BY <1>4, <1>6, <1>7, <1>8, <2>1, <2>2
<1>11. l \notin Registered /\ Cardinality(Registered \cup {l}) = Cardinality(Registered) + 1
       /\ Cardinality(Registered) \in Nat
  <2>1. l \notin Registered
    BY <1>6, RegisteredAreMade
  <2> QED BY <2>1, RegisteredAreMade, FS_AddElement
<1>12. count' \in Int /\ count' <= Cardinality(Registered')
  BY <1>1, <1>2, <1>9, <1>11
<1>13. \A i \in 1..Len(made') : made'[i].id = i
  <2> SUFFICES ASSUME NEW i \in 1..Len(made') PROVE made'[i].id = i
    OBVIOUS
  <2>1. CASE i \in 1..Len(made)
    BY <1>5, <2>1 DEF Registry
  <2>2. CASE i = Len(made) + 1
    BY <1>4, <1>5, <2>2
  <2> QED BY <1>2, <1>5, <2>1, <2>2
<1>14. Len(made') <= MaxListeners
  BY <1>1, <1>2, <1>5
<1>15. Registry'
  BY <1>5, <1>8, <1>10, <1>12, <1>13, <1>14 DEF Registry, Known, Chain
<1>16. Added(l)
  BY <1>1, <1>3, <1>4, <1>5, <1>9, <1>11 DEF Added
<1> QED BY <1>4, <1>15, <1>16

\* remove_listener() takes l out of its list, if it is there.
LEMMA RemoveKeeps ==
  ASSUME Registry, NEW l \in Listeners, RemoveListener(l)
  PROVE  Registry' /\ Registered' = Registered \ {l} /\ made' = made
<1> DEFINE n == l.event
<1>1. /\ lists' = [lists EXCEPT ![n] = RemoveFirst(lists[n], l)] /\ count' = count - 1 /\ made' = made
  BY DEF RemoveListener
<1>2. /\ made \in Seq(Listeners) /\ lists \in [Names -> Seq(Listeners)] /\ n \in Names
      /\ count \in Int /\ count <= Cardinality(Registered)
  BY ListenerType DEF Registry
<1> HIDE DEF n
<1>3. /\ RemoveFirst(lists[n], l) \in Seq(Listeners) /\ Chain(RemoveFirst(lists[n], l))
      /\ Range(RemoveFirst(lists[n], l)) = Range(lists[n]) \ {l}
  <2>1. lists[n] \in Seq(Listeners) /\ Chain(lists[n])
    BY <1>2 DEF Registry
  <2> QED BY <2>1, ChainWithout
<1>4. /\ lists' \in [Names -> Seq(Listeners)] /\ lists'[n] = RemoveFirst(lists[n], l)
      /\ \A m \in Names \ {n} : lists'[m] = lists[m]
  BY <1>1, <1>2, <1>3
<1>5. \A m \in Names : Range(lists'[m]) = Range(lists[m]) \ {l}
  <2> SUFFICES ASSUME NEW m \in Names PROVE Range(lists'[m]) = Range(lists[m]) \ {l}
    OBVIOUS
  <2>1. m # n => l \notin Range(lists[m])
    BY DEF Registry, n
  <2> QED BY <1>3, <1>4, <2>1
<1>6. Registered' = Registered \ {l}
  <2>1. Registered' = UNION {Range(lists'[m]) : m \in Names}
    BY DEF Registered
  <2> QED BY <1>5, <2>1 DEF Registered
<1>7. \A m \in Names : Chain(lists'[m]) /\ \A x \in Range(lists'[m]) : Known(x) /\ x.event = m
  <2> SUFFICES ASSUME NEW m \in Names
               PROVE  Chain(lists'[m]) /\ \A x \in Range(lists'[m]) : Known(x) /\ x.event = m
    OBVIOUS
  <2>1. Chain(lists[m]) /\ \A x \in Range(lists[m]) : Known(x) /\ x.event = m
    BY DEF Registry
  <2> QED BY <1>3, <1>4, <1>5, <2>1
<1>8. count' \in Int /\ count' <= Cardinality(Registered')
  <2>1. IsFiniteSet(Registered) /\ Cardinality(Registered) \in Nat
    BY RegisteredAreMade
  <2>2. CASE l \in Registered
    <3>1. Cardinality(Registered \ {l}) = Cardinality(Registered) - 1
      BY <2>1, <2>2, FS_RemoveElement
    <3> QED BY <1>1, <1>2, <1>6, <2>1, <3>1
  <2>3. CASE l \notin Registered
    <3>1. Registered' = Registered
      BY <1>6, <2>3
    <3> QED BY <1>1, <1>2, <2>1, <3>1
  <2> QED BY <2>2, <2>3
<1>9. Registry'
  BY <1>1, <1>2, <1>4, <1>7, <1>8 DEF Registry, Known, Chain
<1> QED BY <1>1, <1>6, <1>9

\* remove_all_listeners() empties some lists.
LEMMA ForgetKeeps ==
  ASSUME Registry, NEW ns \in SUBSET Names, Forget(ns), count' \in Int, count' <= Cardinality(Registered')
  PROVE  /\ Registry' /\ Registered' \subseteq Registered /\ made' = made
         /\ \A l \in Registered \ Registered' : l.id \in cleared'
<1>1. /\ lists' = [n \in Names |-> IF n \in ns THEN <<>> ELSE lists[n]] /\ made' = made
      /\ cleared' = cleared \cup {l.id : l \in UNION {Range(lists[n]) : n \in ns}}
  BY DEF Forget
<1>2. /\ made \in Seq(Listeners) /\ lists \in [Names -> Seq(Listeners)]
  BY DEF Registry
<1> DEFINE none == <<>>
<1>3. /\ none \in Seq(Listeners) /\ Chain(none) /\ Range(none) = {}
  <2>1. none \in Seq(Listeners) /\ Range(none) = {} /\ Len(none) = 0
    BY EmptySeq, EmptyRange
  <2> HIDE DEF none
  <2> QED BY <2>1 DEF Chain
<1>4. \A n \in Names : lists'[n] = IF n \in ns THEN none ELSE lists[n]
  BY <1>1
<1> HIDE DEF none
<1>5. lists' \in [Names -> Seq(Listeners)]
  <2>1. \A n \in Names : lists'[n] \in Seq(Listeners)
    BY <1>2, <1>3, <1>4
  <2>2. lists' = [n \in Names |-> lists'[n]]
    BY <1>1
  <2> QED BY <2>1, <2>2
<1>6. \A n \in Names : Chain(lists'[n]) /\ \A x \in Range(lists'[n]) : Known(x) /\ x.event = n
  <2> SUFFICES ASSUME NEW n \in Names
               PROVE  Chain(lists'[n]) /\ \A x \in Range(lists'[n]) : Known(x) /\ x.event = n
    OBVIOUS
  <2>1. Chain(lists[n]) /\ \A x \in Range(lists[n]) : Known(x) /\ x.event = n
    BY DEF Registry
  <2> QED BY <1>3, <1>4, <2>1
<1>7. Registry'
  BY <1>1, <1>2, <1>5, <1>6 DEF Registry, Known, Chain
<1>8. Registered' = UNION {Range(lists'[n]) : n \in Names}
  BY DEF Registered
<1>9. Registered' \subseteq Registered
  BY <1>3, <1>4, <1>8 DEF Registered
<1>10. ASSUME NEW l \in Registered, l \notin Registered' PROVE l.id \in cleared'
  <2>1. PICK n \in Names : l \in Range(lists[n])
    BY DEF Registered
  <2>2. n \in ns
    BY <1>4, <1>8, <1>10, <2>1
  <2> QED BY <1>1, <2>1, <2>2
<1> QED BY <1>1, <1>7, <1>9, <1>10

-----------------------------------------------------------------------------
(* Steps that leave the emissions alone. *)

\* Registrations come and go; those that come are new.
Grown ==
  /\ Len(made) \in Nat /\ Len(made') \in Nat /\ Len(made) <= Len(made')
  /\ \A i \in 1..Len(made) : made'[i] = made[i]
  /\ \A l \in Registered' \ Registered : l.id \in Ids /\ l.id > Len(made)

\* A registration is one way to grow.
LEMMA AddedGrows ==
  ASSUME Registry, NEW l, Added(l)
  PROVE  Grown
<1>1. made \in Seq(Listeners) /\ Len(made) \in Nat /\ l \in Listeners /\ made' = Append(made, l)
  BY LenProperties DEF Registry, Added
<1>2. /\ Len(made') = Len(made) + 1 /\ \A i \in 1..Len(made) : made'[i] = made[i]
  BY <1>1, AppendProperties
<1> QED BY <1>1, <1>2 DEF Grown, Added

\* Removing is another.
LEMMA LeftGrows ==
  ASSUME Registry, made' = made, Registered' \subseteq Registered
  PROVE  Grown
BY LenProperties DEF Registry, Grown

\* The lock, its line and the emission under way do not mind.
LEMMA Elsewhere ==
  ASSUME EmitterInv, Grown, UNCHANGED emission
  PROVE  Line' /\ Emission' /\ Once'
<1>1. waiting' = waiting /\ op' = op /\ phase' = phase /\ event' = event /\ fired' = fired
  BY DEF emission
<1>2. Line'
  BY <1>1 DEF EmitterInv, Line
<1>3. \A x : Known(x) => x.id \in 1..Len(made') /\ made'[x.id] = x
  BY DEF Grown, Known
<1>4. Emission'
  <2> SUFFICES ASSUME op # None
               PROVE  /\ op \in Running /\ op.start <= Len(made')
                      /\ Chain(op.ran) /\ Chain(op.rest)
                      /\ \A x \in Range(op.ran), y \in Range(op.rest) : Earlier(x, y)
                      /\ \A x \in Range(op.ran) \cup Range(op.rest) :
                           x.id \in 1..Len(made') /\ made'[x.id] = x
                      /\ op.running # None => op.running \in Range(op.ran)
                      /\ \A l \in Registered' : l.id <= op.start /\ l.event \in {event[op.emit], Star} =>
                           l \in Range(op.ran) \cup Range(op.rest)
    BY <1>1 DEF Emission, Known, Chain, Earlier
  <2>1. /\ op \in Running /\ op.start <= Len(made)
        /\ Chain(op.ran) /\ Chain(op.rest)
        /\ \A x \in Range(op.ran), y \in Range(op.rest) : Earlier(x, y)
        /\ \A x \in Range(op.ran) \cup Range(op.rest) : Known(x)
        /\ op.running # None => op.running \in Range(op.ran)
        /\ \A l \in Registered : l.id <= op.start /\ l.event \in {event[op.emit], Star} =>
             l \in Range(op.ran) \cup Range(op.rest)
    BY DEF EmitterInv, Emission
  <2>2. op.start \in Nat
    BY <2>1 DEF Running
  <2>3. \A l \in Registered' : l.id <= op.start => l \in Registered
    <3> SUFFICES ASSUME NEW l \in Registered', l \notin Registered PROVE ~(l.id <= op.start)
      OBVIOUS
    <3>1. l.id \in Nat /\ l.id > Len(made) /\ Len(made) \in Nat
      BY ConstantsAssumption DEF Grown, Ids
    <3> QED BY <2>1, <2>2, <3>1
  <2>4. op.start <= Len(made')
    BY <2>1, <2>2 DEF Grown
  <2> QED BY <1>3, <2>1, <2>3, <2>4
<1>5. Once'
  <2>1. /\ fired \in [Ids -> {0, 1}] /\ \A id \in Ids : fired[id] # 0 => id <= Len(made)
        /\ \A l \in Registered : l.kind = "once" => fired[l.id] = 0
        /\ op # None => \A l \in Range(op.rest) \cup ({op.running} \ {None}) :
                          l.kind = "once" => fired[l.id] = 0
    BY DEF EmitterInv, Once
  <2>2. \A id \in Ids : fired[id] # 0 => id <= Len(made')
    BY <2>1, ConstantsAssumption DEF Grown, Ids
  <2>3. \A l \in Registered' : l.kind = "once" => fired[l.id] = 0
    <3> SUFFICES ASSUME NEW l \in Registered', l \notin Registered PROVE fired[l.id] = 0
      BY <2>1
    <3>1. l.id \in Ids /\ ~(l.id <= Len(made))
      BY ConstantsAssumption DEF Grown, Ids
    <3> QED BY <2>1, <3>1
  <2> QED BY <1>1, <2>1, <2>2, <2>3 DEF Once
<1> QED BY <1>2, <1>4, <1>5

\* on(), once(), pipe() and suppress_events() register.
LEMMA OnKeeps ==
  ASSUME EmitterInv, NEW kind \in Kinds \ {"wait"}, NEW prio \in Priorities \cup {HIGHEST, MONITOR},
         NEW n \in Names, On(kind, prio, n)
  PROVE  EmitterInv'
<1>1. /\ AddListener(kind, prio, n) /\ UNCHANGED emission
      /\ hooks' = hooks /\ gone' = gone /\ future' = future /\ cleared' = cleared
  BY DEF On
<1>2. Registry /\ Waits /\ hooks \in BOOLEAN /\ gone \subseteq Ids
  BY DEF EmitterInv
<1>3. Registry' /\ \E l : l.kind = kind /\ Added(l)
  BY <1>1, <1>2, AddKeeps
<1>4. PICK l : l.kind = kind /\ Added(l)
  BY <1>3
<1>5. Line' /\ Emission' /\ Once'
  BY <1>1, <1>2, <1>4, AddedGrows, Elsewhere
<1>6. Waits'
  <2>1. Registered' = Registered \cup {l} /\ Range(made') = Range(made) \cup {l} /\ l.kind # "wait"
    BY <1>4 DEF Added
  <2>2. \A x \in Range(made') : x.kind = "wait" => x # l /\ x \in Range(made)
    BY <2>1
  <2> QED BY <1>1, <1>2, <2>1, <2>2 DEF Waits
<1> QED BY <1>1, <1>2, <1>3, <1>5, <1>6 DEF EmitterInv

\* remove_listener().
LEMMA OffKeeps ==
  ASSUME EmitterInv, NEW l \in Range(made), Off(l)
  PROVE  EmitterInv'
<1>1. /\ l.kind # "wait" /\ RemoveListener(l) /\ gone' = gone \cup {l.id} /\ UNCHANGED emission
      /\ hooks' = hooks /\ future' = future /\ cleared' = cleared
  BY DEF Off
<1>2. Registry /\ Waits /\ hooks \in BOOLEAN /\ gone \subseteq Ids /\ l \in Listeners
  BY RegisteredAreMade DEF EmitterInv
<1>3. Registry' /\ Registered' = Registered \ {l} /\ made' = made
  BY <1>1, <1>2, RemoveKeeps
<1>4. Line' /\ Emission' /\ Once'
  BY <1>1, <1>2, <1>3, LeftGrows, Elsewhere
<1>5. Waits'
  BY <1>1, <1>2, <1>3 DEF Waits
<1>6. l.id \in Ids
  BY <1>2, ListenerType
<1> QED BY <1>1, <1>2, <1>3, <1>4, <1>5, <1>6 DEF EmitterInv

\* What remove_all_listeners() and shutdown() have in common.
LEMMA ClearingKeeps ==
  ASSUME EmitterInv, NEW ns \in SUBSET Names, Forget(ns), count' \in Int,
         count' <= Cardinality(Registered'), hooks' \in BOOLEAN
  PROVE  EmitterInv'
<1>1. /\ gone' = gone /\ future' = future /\ UNCHANGED emission
      /\ cleared' = cleared \cup {l.id : l \in UNION {Range(lists[n]) : n \in ns}}
  BY DEF Forget
<1>2. Registry /\ Waits /\ gone \subseteq Ids
  BY DEF EmitterInv
<1>3. /\ Registry' /\ Registered' \subseteq Registered /\ made' = made
      /\ \A l \in Registered \ Registered' : l.id \in cleared'
  BY <1>2, ForgetKeeps
<1>4. Line' /\ Emission' /\ Once'
  BY <1>1, <1>2, <1>3, LeftGrows, Elsewhere
<1>5. cleared' \subseteq Ids /\ cleared \subseteq cleared'
  <2>1. UNION {Range(lists[n]) : n \in ns} \subseteq Registered
    BY DEF Registered
  <2>2. \A l \in Registered : l.id \in Ids
    BY <1>2, RegisteredAreMade, ListenerType
  <2> QED BY <1>1, <1>2, <2>1, <2>2 DEF Waits
<1>6. Waits'
  BY <1>1, <1>2, <1>3, <1>5 DEF Waits
<1> QED BY <1>1, <1>2, <1>3, <1>4, <1>6 DEF EmitterInv

\* remove_all_listeners(event_name).
LEMMA RemoveAllKeeps ==
  ASSUME EmitterInv, NEW n \in Names, RemoveAll(n)
  PROVE  EmitterInv'
<1>1. Forget({n}) /\ count' = count - Len(lists[n]) /\ hooks' = hooks
  BY DEF RemoveAll
<1>2. Registry /\ hooks \in BOOLEAN
  BY DEF EmitterInv
<1>3. lists[n] \in Seq(Listeners) /\ Chain(lists[n]) /\ count \in Int /\ count <= Cardinality(Registered)
  BY <1>2 DEF Registry
<1>4. /\ IsFiniteSet(Range(lists[n])) /\ Cardinality(Range(lists[n])) = Len(lists[n])
      /\ Len(lists[n]) \in Nat
  BY <1>3, ChainInjective, InjectiveRangeSize, LenProperties
<1>5. Registered' \subseteq Registered /\ Registered = Registered' \cup Range(lists[n])
  <2>1. lists' = [m \in Names |-> IF m \in {n} THEN <<>> ELSE lists[m]]
    BY <1>1 DEF Forget
  <2>2. \A m \in Names : Range(lists'[m]) = IF m = n THEN {} ELSE Range(lists[m])
    BY <2>1, EmptyRange
  <2>3. Registered' = UNION {Range(lists'[m]) : m \in Names}
    BY DEF Registered
  <2> QED BY <2>2, <2>3 DEF Registered
<1>6. Cardinality(Registered) <= Cardinality(Registered') + Len(lists[n])
  <2>1. IsFiniteSet(Registered) /\ IsFiniteSet(Registered')
    BY <1>2, <1>5, RegisteredAreMade, FS_Subset
  <2> DEFINE R == Registered'
             L == Range(lists[n])
  <2>2. IsFiniteSet(R) /\ IsFiniteSet(L) /\ R \cup L = Registered /\ Cardinality(L) = Len(lists[n])
    BY <1>4, <1>5, <2>1
  <2> HIDE DEF R, L
  <2>3. /\ Cardinality(R \cup L) = Cardinality(R) + Cardinality(L) - Cardinality(R \cap L)
        /\ IsFiniteSet(R \cap L)
    BY <2>2, FS_Union, FS_Subset
  <2>4. Cardinality(R \cap L) \in Nat /\ Cardinality(R) \in Nat /\ Cardinality(L) \in Nat
    BY <2>2, <2>3, FS_CardinalityType
  <2>5. Cardinality(Registered) <= Cardinality(R) + Len(lists[n])
    <3>1. Cardinality(Registered) = Cardinality(R \cup L)
      BY <2>2
    <3> DEFINE r == Cardinality(R)
               k == Cardinality(L)
               b == Cardinality(R \cap L)
               u == Cardinality(R \cup L)
    <3>2. u = r + k - b /\ r \in Nat /\ k \in Nat /\ b \in Nat /\ k = Len(lists[n])
      BY <2>2, <2>3, <2>4
    <3> HIDE DEF r, k, b, u
    <3>3. u <= r + Len(lists[n])
      BY <3>2
    <3> QED BY <3>1, <3>3 DEF r, u
  <2> QED BY <2>5 DEF R
<1>7. count' \in Int /\ count' <= Cardinality(Registered')
  <2>1. Cardinality(Registered) \in Nat /\ Cardinality(Registered') \in Nat
    BY <1>2, <1>5, RegisteredAreMade, FS_Subset, FS_CardinalityType
  <2> QED BY <1>1, <1>3, <1>4, <1>6, <2>1
<1> QED BY <1>1, <1>2, <1>7, ClearingKeeps

\* remove_all_listeners() and shutdown() remove everybody.
LEMMA EverythingKeeps ==
  ASSUME EmitterInv, Forget(Names), count' = 0, hooks' \in BOOLEAN
  PROVE  EmitterInv'
<1>1. Registered' \subseteq Registered
  <2>1. lists' = [m \in Names |-> IF m \in Names THEN <<>> ELSE lists[m]]
    BY DEF Forget
  <2>2. \A m \in Names : Range(lists'[m]) = {}
    BY <2>1, EmptyRange
  <2>3. Registered' = UNION {Range(lists'[m]) : m \in Names}
    BY DEF Registered
  <2> QED BY <2>2, <2>3
<1>2. Cardinality(Registered') \in Nat
  <2>1. IsFiniteSet(Registered)
    BY RegisteredAreMade DEF EmitterInv
  <2> QED BY <1>1, <2>1, FS_Subset, FS_CardinalityType
<1>3. count' \in Int /\ count' <= Cardinality(Registered')
  BY <1>2
<1> QED BY <1>3, ClearingKeeps

\* wait_for() registers its handler and begins to wait.
LEMMA WaitForKeeps ==
  ASSUME EmitterInv, NEW n \in Names, WaitFor(n)
  PROVE  EmitterInv'
<1>1. /\ AddListener("wait", MONITOR, n) /\ future' = [future EXCEPT ![Len(made) + 1] = "pending"]
      /\ UNCHANGED emission /\ hooks' = hooks /\ gone' = gone /\ cleared' = cleared
  BY DEF WaitFor
<1>2. Registry /\ Waits /\ hooks \in BOOLEAN /\ gone \subseteq Ids
  BY DEF EmitterInv
<1>3. Registry' /\ \E l : l.kind = "wait" /\ Added(l)
  BY <1>1, <1>2, AddKeeps DEF Kinds
<1>4. PICK l : l.kind = "wait" /\ Added(l)
  BY <1>3
<1>5. Line' /\ Emission' /\ Once'
  BY <1>1, <1>2, <1>4, AddedGrows, Elsewhere
<1>6. Waits'
  <2>1. /\ Registered' = Registered \cup {l} /\ Range(made') = Range(made) \cup {l}
        /\ l.id = Len(made) + 1 /\ l.id \in Ids
    BY <1>4 DEF Added
  <2>2. future' \in [Ids -> {"none", "pending", "set", "returned", "timeout", "cancelled"}]
        /\ future'[l.id] = "pending" /\ \A id \in Ids : id # l.id => future'[id] = future[id]
    BY <1>1, <1>2, <2>1 DEF Waits
  <2>3. ASSUME NEW x \in Range(made') PROVE x = l \/ (x \in Range(made) /\ x.id \in Ids /\ x.id # l.id /\ x # l)
    <3> SUFFICES ASSUME x \in Range(made) PROVE x.id \in Ids /\ x.id # l.id /\ x # l
      BY <2>1
    <3>1. Known(x) /\ x \in Listeners /\ Len(made) \in Nat
      BY <1>2, RegisteredAreMade, LenProperties DEF Registry
    <3> QED BY <2>1, <3>1, ListenerType DEF Known
  <2>4. ASSUME NEW x \in Range(made'), x.kind = "wait", x.id \notin cleared, future'[x.id] # "cancelled"
        PROVE  future'[x.id] = "pending" <=> x \in Registered'
    <3>1. CASE x = l
      BY <2>1, <2>2, <3>1
    <3>2. CASE x \in Range(made) /\ x.id \in Ids /\ x.id # l.id /\ x # l
      BY <1>2, <2>1, <2>2, <2>4, <3>2 DEF Waits
    <3> QED BY <2>3, <3>1, <3>2
  <2> QED BY <1>1, <1>2, <2>2, <2>4 DEF Waits
<1> QED BY <1>1, <1>2, <1>3, <1>5, <1>6 DEF EmitterInv

\* wait_for() returns, times out or is cancelled.
LEMMA WaitEndKeeps ==
  ASSUME EmitterInv, NEW l \in Range(made), WaitReturn(l) \/ WaitTimeout(l) \/ WaitCancel(l)
  PROVE  EmitterInv'
<1>1. /\ Registry /\ Waits /\ hooks \in BOOLEAN /\ gone \subseteq Ids
      /\ l \in Listeners /\ l.id \in Ids /\ Known(l)
  BY RegisteredAreMade, ListenerType DEF EmitterInv
<1>2. /\ UNCHANGED emission /\ hooks' = hooks /\ gone' = gone /\ cleared' = cleared
  BY DEF WaitReturn, WaitTimeout, WaitCancel
<1>3. \/ UNCHANGED registry
      \/ RemoveListener(l)
  BY DEF WaitReturn, WaitTimeout, WaitCancel
<1>4. /\ Registry' /\ made' = made
      /\ Registered' \subseteq Registered /\ Registered \ {l} \subseteq Registered'
  <2>1. CASE RemoveListener(l)
    BY <1>1, <2>1, RemoveKeeps
  <2>2. CASE UNCHANGED registry
    <3>1. lists' = lists /\ made' = made /\ count' = count
      BY <2>2 DEF registry
    <3> QED BY <1>1, <3>1 DEF Registry, Registered, Known, Chain
  <2> QED BY <1>3, <2>1, <2>2
<1>5. Line' /\ Emission' /\ Once'
  BY <1>1, <1>2, <1>4, LeftGrows, Elsewhere
<1>6. /\ future' \in [Ids -> {"none", "pending", "set", "returned", "timeout", "cancelled"}]
      /\ \A id \in Ids : id # l.id => future'[id] = future[id]
      /\ \/ future[l.id] = "set" /\ future'[l.id] = "returned" /\ Registered' = Registered
         \/ future'[l.id] = "timeout" /\ l \notin Registered'
         \/ future'[l.id] = "cancelled"
  <2>1. CASE WaitReturn(l)
    <3>1. future[l.id] = "set" /\ future' = [future EXCEPT ![l.id] = "returned"] /\ Registered' = Registered
      BY <2>1 DEF WaitReturn, registry, Registered
    <3> QED BY <1>1, <3>1 DEF Waits
  <2>2. CASE WaitTimeout(l)
    <3>1. future' = [future EXCEPT ![l.id] = "timeout"] /\ RemoveListener(l)
      BY <2>2 DEF WaitTimeout
    <3>2. l \notin Registered'
      BY <1>1, <3>1, RemoveKeeps
    <3> QED BY <1>1, <3>1, <3>2 DEF Waits
  <2>3. CASE WaitCancel(l)
    <3>1. future' = [future EXCEPT ![l.id] = "cancelled"]
      BY <2>3 DEF WaitCancel
    <3> QED BY <1>1, <3>1 DEF Waits
  <2> QED BY <2>1, <2>2, <2>3
<1>7. ASSUME NEW x \in Range(made), x.kind = "wait", x.id \notin cleared, future'[x.id] # "cancelled"
      PROVE  future'[x.id] = "pending" <=> x \in Registered'
  <2>1. Known(x) /\ x.id \in Ids
    BY <1>1, RegisteredAreMade, ListenerType
  <2>2. future[x.id] # "cancelled" => (future[x.id] = "pending" <=> x \in Registered)
    BY <1>1, <1>7 DEF Waits
  <2>3. CASE x = l
    BY <1>6, <1>7, <2>2, <2>3
  <2>4. CASE x # l
    <3>1. x.id # l.id
      BY <1>1, <2>1, <2>4, KnownById
    <3> QED BY <1>4, <1>6, <1>7, <2>1, <2>2, <2>4, <3>1
  <2> QED BY <2>3, <2>4
<1>8. Waits'
  BY <1>1, <1>2, <1>4, <1>6, <1>7 DEF Waits
<1> QED BY <1>1, <1>2, <1>4, <1>5, <1>8 DEF EmitterInv

-----------------------------------------------------------------------------
(* Emissions. *)

\* Nobody registers or is removed.
LEMMA RegistryStays ==
  ASSUME Registry, UNCHANGED registry
  PROVE  Registry' /\ Registered' = Registered /\ made' = made /\ lists' = lists
<1>1. lists' = lists /\ made' = made /\ count' = count
  BY DEF registry
<1> QED BY <1>1 DEF Registry, Registered, Known, Chain

\* Nobody waits for an event more or less.
LEMMA WaitsStay ==
  ASSUME Registry, Waits, UNCHANGED registry, future' = future, cleared' = cleared
  PROVE  Waits'
<1>1. Registered' = Registered /\ made' = made
  BY RegistryStays
<1> QED BY <1>1 DEF Waits

\* The emission that has the lock goes on as before.
LEMMA EmissionStays ==
  ASSUME Registry, Emission, Once, UNCHANGED registry, op' = op, fired' = fired,
         op # None => event'[op.emit] = event[op.emit]
  PROVE  Emission' /\ Once'
<1>1. Registered' = Registered /\ made' = made
  BY RegistryStays
<1>2. Emission'
  BY <1>1 DEF Emission, Known, Chain, Earlier
<1>3. Once'
  BY <1>1 DEF Once
<1> QED BY <1>2, <1>3

\* An emission gets the lock and copies the lists.
LEMMA BeginKeeps ==
  ASSUME Registry, Once, NEW e \in Emits, NEW n \in Events, Begin(e, n), UNCHANGED registry,
         fired' = fired, event'[e] = n
  PROVE  Emission' /\ Once' /\ op' # None /\ op'.emit = e /\ op'.running = None
<1> DEFINE all == lists[n] \o lists[Star]
           none == <<>>
<1>1. /\ op' = [emit |-> e, rest |-> all, running |-> None, propagate |-> TRUE, ran |-> none,
                start |-> Len(made)]
  BY DEF Begin
<1>2. Registry' /\ Registered' = Registered /\ made' = made /\ lists' = lists
  BY RegistryStays
<1>3. /\ n \in Names /\ Star \in Names /\ n # Star
      /\ lists[n] \in Seq(Listeners) /\ lists[Star] \in Seq(Listeners)
      /\ Len(made) \in Nat
  BY ConstantsAssumption, LenProperties DEF Names, Registry
<1>4. \A m \in Names : Chain(lists[m]) /\ \A l \in Range(lists[m]) : Known(l) /\ l.event = m
  BY DEF Registry
<1>5. /\ all \in Seq(Listeners) /\ Range(all) = Range(lists[n]) \cup Range(lists[Star]) /\ Chain(all)
  <2>1. \A x \in Range(lists[n]), y \in Range(lists[Star]) : Earlier(x, y)
    BY <1>3, <1>4 DEF Earlier
  <2> QED BY <1>3, <1>4, <2>1, ConcatRange, ChainConcat
<1>6. none \in Seq(Listeners) /\ Range(none) = {} /\ Chain(none)
  <2>1. none \in Seq(Listeners) /\ Range(none) = {} /\ Len(none) = 0
    BY EmptySeq, EmptyRange
  <2> HIDE DEF none
  <2> QED BY <2>1 DEF Chain
<1> HIDE DEF all, none
<1>7. /\ op' \in Running /\ op'.emit = e /\ op'.rest = all /\ op'.running = None
      /\ op'.ran = none /\ op'.start = Len(made)
  BY <1>1, <1>3, <1>5, <1>6 DEF Running
<1>8. op' # None
  BY <1>7, NoneAssumption
<1>9. \A l \in Registered : l \in Listeners /\ l \in Range(lists[l.event]) /\ Known(l)
  BY RegisteredAreMade
<1>10. \A l \in Registered : l.event \in {n, Star} => l \in Range(all)
  BY <1>5, <1>9
<1>11. \A l \in Range(all) : l \in Registered /\ Known(l)
  BY <1>3, <1>4, <1>5 DEF Registered
<1>12. Emission'
  BY <1>2, <1>3, <1>5, <1>6, <1>7, <1>10, <1>11 DEF Emission, Known, Chain, Earlier
<1>13. Once'
  <2>1. \A l \in Range(all) : l.kind = "once" => fired[l.id] = 0
    BY <1>11 DEF Once
  <2> QED BY <1>2, <1>7, <2>1 DEF Once
<1> QED BY <1>7, <1>8, <1>12, <1>13

\* emit() gets the lock or joins its line.
LEMMA EmitKeeps ==
  ASSUME EmitterInv, NEW e \in Emits, NEW n \in Events, Emit(e, n)
  PROVE  EmitterInv'
<1>1. /\ hooks' = hooks /\ gone' = gone /\ future' = future /\ cleared' = cleared /\ fired' = fired
      /\ UNCHANGED registry /\ phase[e] = "none" /\ event' = [event EXCEPT ![e] = n]
  BY DEF Emit
<1>2. Registry /\ Waits /\ Line /\ Emission /\ Once /\ hooks \in BOOLEAN /\ gone \subseteq Ids
  BY DEF EmitterInv
<1>3. /\ waiting \in Seq(Emits \cup {Nested}) /\ IsInjective(waiting)
      /\ phase \in [Emits -> {"none", "waiting", "running"} \cup Ended]
      /\ event \in [Emits -> Events \cup {None}]
      /\ \A x \in Range(waiting) \ {Nested} : phase[x] = "waiting"
      /\ \A x \in Emits : phase[x] \in {"waiting", "running"} => event[x] \in Events
      /\ \A x \in Emits : phase[x] = "running" <=> op # None /\ op.emit = x
  BY <1>2 DEF Line
<1>4. /\ event' \in [Emits -> Events \cup {None}] /\ event'[e] = n
      /\ \A x \in Emits : x # e => event'[x] = event[x]
  BY <1>1, <1>3
<1>5. e # Nested /\ e \notin Range(waiting)
  <2>1. e # Nested
    BY ConstantsAssumption DEF Emits, Nested
  <2> QED BY <1>1, <1>3, <2>1
<1>6. Registry' /\ Waits'
  BY <1>1, <1>2, RegistryStays, WaitsStay
<1>7. CASE op = None /\ waiting = <<>> /\ Begin(e, n) /\ phase' = [phase EXCEPT ![e] = "running"]
           /\ UNCHANGED waiting
  <2>1. Emission' /\ Once' /\ op' # None /\ op'.emit = e /\ op'.running = None
    BY <1>1, <1>2, <1>4, <1>7, BeginKeeps
  <2>2. Range(waiting) = {} /\ waiting' = waiting
    BY <1>7, EmptyRange
  <2>3. /\ phase' \in [Emits -> {"none", "waiting", "running"} \cup Ended] /\ phase'[e] = "running"
        /\ \A x \in Emits : x # e => phase'[x] = phase[x]
    BY <1>3, <1>7
  <2>4. Line'
    BY <1>3, <1>4, <1>7, <2>1, <2>2, <2>3 DEF Line
  <2> QED BY <1>1, <1>2, <1>6, <2>1, <2>4 DEF EmitterInv
<1>8. CASE waiting' = Append(waiting, e) /\ phase' = [phase EXCEPT ![e] = "waiting"] /\ op' = op
  <2>1. op # None => op.emit \in Emits /\ op.emit # e
    BY <1>1, <1>2, <1>3 DEF Emission, Running
  <2>2. Emission' /\ Once'
    BY <1>1, <1>2, <1>4, <1>8, <2>1, EmissionStays
  <2>3. /\ waiting' \in Seq(Emits \cup {Nested}) /\ IsInjective(waiting')
        /\ Range(waiting') = Range(waiting) \cup {e}
    BY <1>3, <1>5, <1>8, AppendRange
  <2>4. /\ phase' \in [Emits -> {"none", "waiting", "running"} \cup Ended] /\ phase'[e] = "waiting"
        /\ \A x \in Emits : x # e => phase'[x] = phase[x]
    BY <1>3, <1>8
  <2>5. \A x \in Range(waiting') \ {Nested} : phase'[x] = "waiting"
    <3> SUFFICES ASSUME NEW x \in Range(waiting'), x # Nested, x # e PROVE phase'[x] = "waiting"
      BY <2>4
    <3>1. x \in Emits
      BY <1>3, <2>3, RangeByIndex
    <3> QED BY <1>3, <2>3, <2>4, <3>1
  <2>6. Nested \in Range(waiting') <=> op # None /\ op.running # None /\ op.running.kind = "relay"
    BY <1>2, <1>5, <2>3 DEF Line
  <2>7. Line'
    BY <1>1, <1>3, <1>4, <1>8, <2>1, <2>3, <2>4, <2>5, <2>6 DEF Line
  <2> QED BY <1>1, <1>2, <1>6, <2>2, <2>7 DEF EmitterInv
<1> QED BY <1>7, <1>8 DEF Emit

\* The lock is granted to the first emission in line.
LEMMA GrantedKeeps ==
  ASSUME EmitterInv, Granted
  PROVE  EmitterInv'
<1> DEFINE h == Head(waiting)
<1>1. /\ hooks' = hooks /\ gone' = gone /\ future' = future /\ cleared' = cleared /\ fired' = fired
      /\ UNCHANGED registry /\ op = None /\ waiting # <<>> /\ Begin(h, event[h])
      /\ waiting' = Tail(waiting) /\ phase' = [phase EXCEPT ![h] = "running"] /\ event' = event
  BY DEF Granted
<1>2. Registry /\ Waits /\ Line /\ Once /\ hooks \in BOOLEAN /\ gone \subseteq Ids
  BY DEF EmitterInv
<1>3. /\ waiting \in Seq(Emits \cup {Nested}) /\ IsInjective(waiting)
      /\ phase \in [Emits -> {"none", "waiting", "running"} \cup Ended]
      /\ event \in [Emits -> Events \cup {None}]
      /\ \A x \in Range(waiting) \ {Nested} : phase[x] = "waiting"
      /\ Nested \notin Range(waiting)
      /\ \A x \in Emits : phase[x] \in {"waiting", "running"} => event[x] \in Events
      /\ \A x \in Emits : phase[x] # "running"
  BY <1>1, <1>2 DEF Line
<1> HIDE DEF h
<1>4. /\ Tail(waiting) \in Seq(Emits \cup {Nested}) /\ IsInjective(Tail(waiting))
      /\ Range(waiting) = {h} \cup Range(Tail(waiting)) /\ h \notin Range(Tail(waiting))
      /\ h \in Emits \cup {Nested}
  BY <1>1, <1>3, TailRange DEF h
<1>5. h \in Emits /\ phase[h] = "waiting" /\ event[h] \in Events
  BY <1>3, <1>4
<1>6. Emission' /\ Once' /\ op' # None /\ op'.emit = h /\ op'.running = None
  BY <1>1, <1>2, <1>5, BeginKeeps
<1>7. Registry' /\ Waits'
  BY <1>1, <1>2, RegistryStays, WaitsStay
<1>8. /\ phase' \in [Emits -> {"none", "waiting", "running"} \cup Ended] /\ phase'[h] = "running"
      /\ \A x \in Emits : x # h => phase'[x] = phase[x]
  BY <1>1, <1>3, <1>5
<1>9. \A x \in Range(waiting') \ {Nested} : phase'[x] = "waiting"
  <2> SUFFICES ASSUME NEW x \in Range(Tail(waiting)), x # Nested PROVE phase'[x] = "waiting"
    BY <1>1
  <2>1. x \in Emits /\ x # h /\ x \in Range(waiting)
    BY <1>4, RangeByIndex
  <2> QED BY <1>3, <1>8, <2>1
<1>10. Line'
  BY <1>1, <1>3, <1>4, <1>5, <1>6, <1>8, <1>9 DEF Line
<1> QED BY <1>1, <1>2, <1>6, <1>7, <1>10 DEF EmitterInv

\* An emission ends, and its relay's entry leaves the line with it.
LEMMA EndKeeps ==
  ASSUME EmitterInv, op # None, NEW how \in Ended, End(op.emit, how),
         waiting' \in Seq(Emits \cup {Nested}), IsInjective(waiting'),
         Range(waiting') = Range(waiting) \ {Nested},
         UNCHANGED <<registry, hooks, gone, event, future, fired, cleared>>
  PROVE  EmitterInv'
<1> DEFINE e == op.emit
<1>1. /\ hooks' = hooks /\ gone' = gone /\ future' = future /\ cleared' = cleared /\ fired' = fired
      /\ UNCHANGED registry /\ event' = event /\ op' = None /\ phase' = [phase EXCEPT ![e] = how]
  BY DEF End
<1>2. Registry /\ Waits /\ Line /\ Emission /\ Once /\ hooks \in BOOLEAN /\ gone \subseteq Ids
  BY DEF EmitterInv
<1>3. /\ waiting \in Seq(Emits \cup {Nested})
      /\ phase \in [Emits -> {"none", "waiting", "running"} \cup Ended]
      /\ event \in [Emits -> Events \cup {None}]
      /\ \A x \in Range(waiting) \ {Nested} : phase[x] = "waiting"
      /\ \A x \in Emits : phase[x] \in {"waiting", "running"} => event[x] \in Events
      /\ \A x \in Emits : phase[x] = "running" <=> op # None /\ op.emit = x
  BY <1>2 DEF Line
<1>4. e \in Emits /\ phase[e] = "running"
  BY <1>2, <1>3 DEF Emission, Running
<1> HIDE DEF e
<1>5. /\ phase' \in [Emits -> {"none", "waiting", "running"} \cup Ended] /\ phase'[e] = how
      /\ \A x \in Emits : x # e => phase'[x] = phase[x]
  BY <1>1, <1>3, <1>4
<1>6. how # "running" /\ how # "waiting"
  BY DEF Ended
<1>7. \A x \in Range(waiting') \ {Nested} : phase'[x] = "waiting"
  <2> SUFFICES ASSUME NEW x \in Range(waiting), x # Nested PROVE phase'[x] = "waiting"
    OBVIOUS
  <2>1. x \in Emits /\ phase[x] = "waiting"
    BY <1>3, RangeByIndex
  <2>2. x # e
    BY <1>4, <2>1
  <2> QED BY <1>5, <2>1, <2>2
<1>8. \A x \in Emits : phase'[x] # "running"
  BY <1>3, <1>5, <1>6 DEF e
<1>9. Line'
  BY <1>1, <1>3, <1>5, <1>6, <1>7, <1>8 DEF Line
<1>10. Emission' /\ Once'
  <2>1. Registered' = Registered /\ made' = made
    BY <1>1, <1>2, RegistryStays
  <2> QED BY <1>1, <1>2, <2>1 DEF Emission, Once
<1>11. Registry' /\ Waits'
  BY <1>1, <1>2, RegistryStays, WaitsStay
<1> QED BY <1>1, <1>2, <1>9, <1>10, <1>11 DEF EmitterInv

\* Who has no relay running has none in line.
LEMMA NoRelayInLine ==
  ASSUME EmitterInv, ~(op # None /\ op.running # None /\ op.running.kind = "relay")
  PROVE  /\ Range(waiting) = Range(waiting) \ {Nested}
         /\ waiting \in Seq(Emits \cup {Nested}) /\ IsInjective(waiting) /\ Nested \notin Range(waiting)
BY DEF EmitterInv, Line

\* An emission has called everyone, or is stopped.
LEMMA FinishKeeps ==
  ASSUME EmitterInv, Finish
  PROVE  EmitterInv'
<1>1. /\ op # None /\ op.running = None /\ waiting' = waiting
      /\ End(op.emit, IF hooks THEN "done" ELSE "failed")
      /\ UNCHANGED <<registry, hooks, gone, event, future, fired, cleared>>
  BY DEF Finish
<1>2. (IF hooks THEN "done" ELSE "failed") \in Ended
  BY DEF Ended
<1> QED BY <1>1, <1>2, NoRelayInLine, EndKeeps

\* A listener returns or raises: the emission goes on behind it.
LEMMA ResumeKeeps ==
  ASSUME EmitterInv, op # None, op.running # None, op.running.kind \in {"plain", "once"},
         \E propagate \in BOOLEAN : Through(propagate),
         Registry', made' = made, Registered' \subseteq Registered, Waits', Once',
         UNCHANGED <<hooks, gone, waiting, phase, event>>
  PROVE  EmitterInv'
<1>1. Registry /\ Line /\ Emission /\ hooks \in BOOLEAN /\ gone \subseteq Ids
  BY DEF EmitterInv
<1>2. hooks' = hooks /\ gone' = gone /\ waiting' = waiting /\ phase' = phase /\ event' = event
  OBVIOUS
<1>3. op \in Running
  BY <1>1 DEF Emission
<1>4. /\ op' \in Running /\ op'.emit = op.emit /\ op'.rest = op.rest /\ op'.running = None
      /\ op'.ran = op.ran /\ op'.start = op.start
  BY <1>3 DEF Running, Through
<1>5. op' # None
  BY <1>4, NoneAssumption
<1>6. Emission'
  <2>1. Chain(op.ran)' /\ Chain(op.rest)'
    BY <1>1, <1>4 DEF Emission, Chain, Earlier
  <2>2. \A x \in Range(op'.ran), y \in Range(op'.rest) : Earlier(x, y)
    BY <1>1, <1>4 DEF Emission
  <2>3. \A x \in Range(op'.ran) \cup Range(op'.rest) : Known(x)'
    BY <1>1, <1>4 DEF Emission, Known
  <2>4. \A l \in Registered' : l.id <= op'.start /\ l.event \in {event'[op'.emit], Star} =>
          l \in Range(op'.ran) \cup Range(op'.rest)
    BY <1>1, <1>2, <1>4 DEF Emission
  <2> QED BY <1>1, <1>4, <2>1, <2>2, <2>3, <2>4 DEF Emission, Earlier
<1>7. Nested \notin Range(waiting)
  BY NoRelayInLine
<1>8. Line'
  BY <1>1, <1>2, <1>4, <1>5, <1>7 DEF Line
<1> QED BY <1>1, <1>2, <1>6, <1>8 DEF EmitterInv

\* The suspended listener is known and is not to be called again.
LEMMA RunningIsPast ==
  ASSUME EmitterInv, op # None, op.running # None
  PROVE  /\ op.running \in Listeners /\ Known(op.running) /\ op.running.id \in Ids
         /\ op.running \notin Range(op.rest) /\ \A x \in Range(op.rest) : Known(x) /\ x.id \in Ids
<1>1. Registry /\ Emission
  BY DEF EmitterInv
<1>2. /\ op \in Running /\ op.running \in Range(op.ran)
      /\ \A x \in Range(op.ran), y \in Range(op.rest) : Earlier(x, y)
      /\ \A x \in Range(op.ran) \cup Range(op.rest) : Known(x)
  BY <1>1 DEF Emission
<1>3. op.ran \in Seq(Listeners) /\ op.rest \in Seq(Listeners)
  BY <1>2 DEF Running
<1>4. Range(op.ran) \subseteq Listeners /\ Range(op.rest) \subseteq Listeners
  BY <1>3, RangeByIndex
<1> QED BY <1>2, <1>4, ListenerType

\* A function returns; the wrapper of once() takes itself off the list.
LEMMA ListenerReturnsKeeps ==
  ASSUME EmitterInv, ListenerReturns
  PROVE  EmitterInv'
<1> DEFINE l == op.running
<1>1. /\ op # None /\ l # None /\ l.kind \in {"plain", "once"}
      /\ \E propagate \in BOOLEAN : Through(propagate)
      /\ UNCHANGED <<hooks, gone, waiting, phase, event>> /\ future' = future /\ cleared' = cleared
  BY DEF ListenerReturns
<1>2. Registry /\ Waits /\ Once /\ op \in Running
  BY <1>1 DEF EmitterInv, Emission
<1>3. op'.rest = op.rest /\ op'.running = None
  BY <1>1, <1>2 DEF Running, Through
<1>4. CASE l.kind = "once" /\ RemoveListener(l) /\ fired' = [fired EXCEPT ![l.id] = @ + 1]
  <2>1. /\ l \in Listeners /\ Known(l) /\ l.id \in Ids /\ l \notin Range(op.rest)
        /\ \A x \in Range(op.rest) : Known(x) /\ x.id \in Ids
    BY <1>1, RunningIsPast
  <2>2. Registry' /\ Registered' = Registered \ {l} /\ made' = made
    BY <1>2, <1>4, <2>1, RemoveKeeps
  <2>3. /\ fired \in [Ids -> {0, 1}] /\ fired[l.id] = 0
        /\ \A id \in Ids : fired[id] # 0 => id <= Len(made)
        /\ \A x \in Registered : x.kind = "once" => fired[x.id] = 0
        /\ \A x \in Range(op.rest) : x.kind = "once" => fired[x.id] = 0
    BY <1>1, <1>2, <1>4 DEF Once
  <2> HIDE DEF l
  <2>4. /\ fired' \in [Ids -> {0, 1}] /\ \A id \in Ids : id # l.id => fired'[id] = fired[id]
    BY <1>4, <2>1, <2>3
  <2>5. l.id <= Len(made)
    BY <2>1 DEF Known
  <2>6. \A x \in Registered \ {l} : x.kind = "once" => fired'[x.id] = 0
    <3> SUFFICES ASSUME NEW x \in Registered \ {l}, x.kind = "once" PROVE fired'[x.id] = 0
      OBVIOUS
    <3>1. Known(x) /\ x.id \in Ids
      BY <1>2, RegisteredAreMade, ListenerType
    <3>2. x.id # l.id
      BY <2>1, <3>1, KnownById
    <3> QED BY <2>3, <2>4, <3>1, <3>2
  <2>7. \A x \in Range(op.rest) : x.kind = "once" => fired'[x.id] = 0
    <3> SUFFICES ASSUME NEW x \in Range(op.rest), x.kind = "once" PROVE fired'[x.id] = 0
      OBVIOUS
    <3>1. Known(x) /\ x.id \in Ids /\ x # l
      BY <2>1
    <3>2. x.id # l.id
      BY <2>1, <3>1, KnownById
    <3> QED BY <2>3, <2>4, <3>1, <3>2
  <2>8. Once'
    BY <1>3, <2>2, <2>3, <2>4, <2>5, <2>6, <2>7 DEF Once
  <2>9. Waits'
    BY <1>1, <1>2, <1>4, <2>2 DEF Waits
  <2> QED BY <1>1, <2>2, <2>8, <2>9, ResumeKeeps DEF l
<1>5. CASE UNCHANGED <<registry, fired>>
  <2>1. Registry' /\ Registered' = Registered /\ made' = made /\ Waits'
    BY <1>1, <1>2, <1>5, RegistryStays, WaitsStay
  <2>2. Once'
    BY <1>1, <1>2, <1>3, <1>5, <2>1 DEF Once
  <2> QED BY <1>1, <2>1, <2>2, ResumeKeeps
<1> QED BY <1>4, <1>5 DEF ListenerReturns

\* A function raises.
LEMMA ListenerRaisesKeeps ==
  ASSUME EmitterInv, ListenerRaises
  PROVE  EmitterInv'
<1>1. /\ op # None /\ op.running # None /\ op.running.kind \in {"plain", "once"}
      /\ UNCHANGED <<registry, hooks, gone, waiting, event, future, fired, cleared>>
  BY DEF ListenerRaises
<1>2. Registry /\ Waits /\ Once /\ op \in Running
  BY <1>1 DEF EmitterInv, Emission
<1>3. Registry' /\ Registered' = Registered /\ made' = made /\ Waits'
  BY <1>1, <1>2, RegistryStays, WaitsStay
<1>4. CASE (\E propagate \in BOOLEAN : Through(propagate)) /\ UNCHANGED phase
  <2>1. op'.rest = op.rest /\ op'.running = None
    BY <1>2, <1>4 DEF Running, Through
  <2>2. Once'
    BY <1>1, <1>2, <1>3, <2>1 DEF Once
  <2> QED BY <1>1, <1>3, <1>4, <2>2, ResumeKeeps
<1>5. CASE End(op.emit, "failed")
  <2>1. "failed" \in Ended
    BY DEF Ended
  <2> QED BY <1>1, <1>5, <2>1, NoRelayInLine, EndKeeps
<1> QED BY <1>4, <1>5 DEF ListenerRaises

\* The next listener moves from those to be called to those that were.
LEMMA CalledKeeps ==
  ASSUME EmitterInv, op # None, op.running = None, op.rest # <<>>,
         NEW r \in {None, Head(op.rest)}, NEW p \in BOOLEAN, Called(r, p),
         Registry', made' = made, Registered' \subseteq Registered, fired' = fired, event' = event
  PROVE  /\ Emission' /\ Once' /\ op' # None /\ op'.emit = op.emit /\ op'.running = r
         /\ Head(op.rest) \in Listeners /\ Known(Head(op.rest))
<1> DEFINE l == Head(op.rest)
           ran1 == Append(op.ran, l)
           rest1 == Tail(op.rest)
<1>1. /\ op' = [emit |-> op.emit, rest |-> rest1, running |-> r, propagate |-> p, ran |-> ran1,
                start |-> op.start]
  BY DEF Called
<1>2. Emission /\ Once
  BY DEF EmitterInv
<1>3. /\ op \in Running /\ op.start <= Len(made) /\ Chain(op.ran) /\ Chain(op.rest)
      /\ \A x \in Range(op.ran), y \in Range(op.rest) : Earlier(x, y)
      /\ \A x \in Range(op.ran) \cup Range(op.rest) : Known(x)
      /\ \A x \in Registered : x.id <= op.start /\ x.event \in {event[op.emit], Star} =>
           x \in Range(op.ran) \cup Range(op.rest)
  BY <1>2 DEF Emission
<1>4. /\ op.emit \in Emits /\ op.rest \in Seq(Listeners) /\ op.ran \in Seq(Listeners)
      /\ op.start \in Nat
  BY <1>3 DEF Running
<1>5. /\ l \in Listeners /\ rest1 \in Seq(Listeners) /\ Range(op.rest) = {l} \cup Range(rest1)
      /\ Chain(rest1) /\ \A y \in Range(rest1) : Earlier(l, y)
  BY <1>3, <1>4, TailRange, ChainTail
<1>6. \A x \in Range(op.ran) : Earlier(x, l)
  BY <1>3, <1>5
<1>7. /\ ran1 \in Seq(Listeners) /\ Range(ran1) = Range(op.ran) \cup {l} /\ Chain(ran1)
  BY <1>3, <1>4, <1>5, <1>6, AppendRange, ChainAppend
<1> HIDE DEF l, ran1, rest1
<1>8. r \in Listeners \cup {None} /\ (r # None => r = l)
  BY <1>5 DEF l
<1>9. /\ op' \in Running /\ op'.emit = op.emit /\ op'.rest = rest1 /\ op'.running = r
      /\ op'.ran = ran1 /\ op'.start = op.start
  BY <1>1, <1>4, <1>5, <1>7, <1>8 DEF Running
<1>10. op' # None
  BY <1>9, NoneAssumption
<1>11. \A x \in Range(ran1), y \in Range(rest1) : Earlier(x, y)
  BY <1>3, <1>5, <1>7
<1>12. Range(ran1) \cup Range(rest1) = Range(op.ran) \cup Range(op.rest)
  BY <1>5, <1>7
<1>13. \A x \in Range(ran1) \cup Range(rest1) : Known(x)
  BY <1>3, <1>12
<1>14. \A x \in Registered' : x.id <= op.start /\ x.event \in {event[op.emit], Star} =>
         x \in Range(ran1) \cup Range(rest1)
  BY <1>3, <1>12
<1>15. r # None => r \in Range(ran1)
  BY <1>7, <1>8
<1>16. Emission'
  BY <1>3, <1>5, <1>7, <1>9, <1>11, <1>13, <1>14, <1>15 DEF Emission, Known, Chain, Earlier
<1>17. Once'
  <2>1. \A x \in Range(op.rest) : x.kind = "once" => fired[x.id] = 0
    BY <1>2 DEF Once
  <2>2. \A x \in Range(rest1) \cup ({r} \ {None}) : x.kind = "once" => fired[x.id] = 0
    BY <1>5, <1>8, <2>1
  <2> QED BY <1>2, <1>9, <2>2 DEF Once
<1>18. Known(l)
  BY <1>3, <1>5
<1> QED BY <1>5, <1>9, <1>10, <1>16, <1>17, <1>18 DEF l

\* The emission calls its next listener.
LEMMA CallNextKeeps ==
  ASSUME EmitterInv, CallNext
  PROVE  EmitterInv'
<1> DEFINE l == Head(op.rest)
<1>1. /\ op # None /\ op.running = None /\ op.propagate /\ op.rest # <<>>
      /\ hooks' = hooks /\ gone' = gone /\ event' = event /\ fired' = fired /\ cleared' = cleared
  BY DEF CallNext
<1>2. Registry /\ Waits /\ Line /\ Emission /\ Once /\ hooks \in BOOLEAN /\ gone \subseteq Ids
  BY DEF EmitterInv
<1>3. Nested \notin Range(waiting) /\ waiting \in Seq(Emits \cup {Nested}) /\ IsInjective(waiting)
  BY <1>1, NoRelayInLine
<1>4. ASSUME NEW r \in {None, l}, NEW p \in BOOLEAN, Called(r, p), UNCHANGED <<registry, waiting, phase, future>>,
             r # None => r.kind # "relay"
      PROVE  EmitterInv'
  <2>1. Registry' /\ Registered' = Registered /\ made' = made /\ Waits'
    BY <1>1, <1>2, <1>4, RegistryStays, WaitsStay
  <2>2. Emission' /\ Once' /\ op' # None /\ op'.emit = op.emit /\ op'.running = r
    BY <1>1, <1>4, <2>1, CalledKeeps
  <2>3. Line'
    BY <1>1, <1>2, <1>3, <1>4, <2>2 DEF Line
  <2> QED BY <1>1, <1>2, <2>1, <2>2, <2>3 DEF EmitterInv
<1>5. CASE l.kind \in {"plain", "once"} /\ Called(l, TRUE) /\ UNCHANGED <<registry, waiting, phase, future>>
  BY <1>4, <1>5
<1>6. CASE l.kind = "suppress" /\ Called(None, FALSE) /\ UNCHANGED <<registry, waiting, phase, future>>
  BY <1>4, <1>6
<1>7. CASE l.kind = "wait" /\ Called(None, TRUE) /\ UNCHANGED <<registry, waiting, phase, future>>
  BY <1>4, <1>7
<1>8. CASE /\ l.kind = "relay" /\ Called(l, TRUE) /\ waiting' = Append(waiting, Nested)
           /\ UNCHANGED <<phase, registry, future>>
  <2>1. Registry' /\ Registered' = Registered /\ made' = made /\ Waits'
    BY <1>1, <1>2, <1>8, RegistryStays, WaitsStay
  <2>2. /\ Emission' /\ Once' /\ op' # None /\ op'.emit = op.emit /\ op'.running = l /\ l \in Listeners
    BY <1>1, <1>8, <2>1, CalledKeeps
  <2>3. /\ waiting' \in Seq(Emits \cup {Nested}) /\ IsInjective(waiting')
        /\ Range(waiting') = Range(waiting) \cup {Nested}
    BY <1>3, <1>8, AppendRange
  <2>4. l # None
    BY <2>2, NoneAssumption
  <2>5. \A x \in Range(waiting') \ {Nested} : phase'[x] = "waiting"
    BY <1>2, <1>8, <2>3 DEF Line
  <2> HIDE DEF l
  <2>6. Line'
    BY <1>1, <1>2, <1>8, <2>2, <2>3, <2>4, <2>5 DEF Line
  <2> QED BY <1>1, <1>2, <2>1, <2>2, <2>6 DEF EmitterInv
<1>9. CASE End(op.emit, "failed") /\ UNCHANGED <<waiting, registry, future>>
  <2>1. "failed" \in Ended
    BY DEF Ended
  <2> QED BY <1>1, <1>9, <2>1, NoRelayInLine, EndKeeps
<1>10. CASE /\ l.kind = "wait" /\ Called(None, TRUE) /\ future' = [future EXCEPT ![l.id] = "set"]
            /\ RemoveListener(l) /\ UNCHANGED <<waiting, phase>>
  <2>1. l \in Listeners /\ Known(l) /\ l.id \in Ids
    <3>1. op.rest \in Seq(Listeners) /\ \A x \in Range(op.rest) : Known(x)
      BY <1>1, <1>2 DEF Emission, Running
    <3> QED BY <1>1, <3>1, TailRange, ListenerType
  <2>2. Registry' /\ Registered' = Registered \ {l} /\ made' = made
    BY <1>2, <1>10, <2>1, RemoveKeeps
  <2>3. Emission' /\ Once' /\ op' # None /\ op'.emit = op.emit /\ op'.running = None
    BY <1>1, <1>10, <2>2, CalledKeeps
  <2>4. Line'
    BY <1>1, <1>2, <1>3, <1>10, <2>3 DEF Line
  <2> HIDE DEF l
  <2>5. /\ future' \in [Ids -> {"none", "pending", "set", "returned", "timeout", "cancelled"}]
        /\ future'[l.id] = "set" /\ \A id \in Ids : id # l.id => future'[id] = future[id]
    BY <1>2, <1>10, <2>1 DEF Waits
  <2>6. ASSUME NEW x \in Range(made), x.kind = "wait", x.id \notin cleared, future'[x.id] # "cancelled"
        PROVE  future'[x.id] = "pending" <=> x \in Registered'
    <3>1. Known(x) /\ x.id \in Ids
      BY <1>2, RegisteredAreMade, ListenerType
    <3>2. CASE x = l
      BY <2>2, <2>5, <3>2
    <3>3. CASE x # l
      <4>1. x.id # l.id
        BY <2>1, <3>1, <3>3, KnownById
      <4>2. future[x.id] # "cancelled" => (future[x.id] = "pending" <=> x \in Registered)
        BY <1>2, <2>6 DEF Waits
      <4> QED BY <2>2, <2>5, <2>6, <3>1, <3>3, <4>1, <4>2
    <3> QED BY <3>2, <3>3
  <2>7. Waits'
    BY <1>1, <1>2, <2>2, <2>5, <2>6 DEF Waits
  <2> QED BY <1>1, <1>2, <2>2, <2>3, <2>4, <2>7 DEF EmitterInv
<1> QED BY <1>5, <1>6, <1>7, <1>8, <1>9, <1>10 DEF CallNext

\* The task of an emission is cancelled.
LEMMA CancelKeeps ==
  ASSUME EmitterInv, NEW e \in Emits, Cancel(e)
  PROVE  EmitterInv'
<1>1. UNCHANGED <<registry, hooks, gone, event, future, fired, cleared>>
  BY DEF Cancel
<1>2. Registry /\ Waits /\ Line /\ Emission /\ Once /\ hooks \in BOOLEAN /\ gone \subseteq Ids
  BY DEF EmitterInv
<1>3. /\ waiting \in Seq(Emits \cup {Nested}) /\ IsInjective(waiting)
      /\ phase \in [Emits -> {"none", "waiting", "running"} \cup Ended]
      /\ \A x \in Range(waiting) \ {Nested} : phase[x] = "waiting"
      /\ \A x \in Emits : phase[x] = "running" <=> op # None /\ op.emit = x
  BY <1>2 DEF Line
<1>4. CASE /\ phase[e] = "waiting" /\ waiting' = RemoveFirst(waiting, e)
           /\ phase' = [phase EXCEPT ![e] = "cancelled"] /\ op' = op
  <2>1. /\ waiting' \in Seq(Emits \cup {Nested}) /\ IsInjective(waiting')
        /\ Range(waiting') = Range(waiting) \ {e}
    BY <1>3, <1>4, RemoveFirstRange
  <2>2. /\ phase' \in [Emits -> {"none", "waiting", "running"} \cup Ended] /\ phase'[e] = "cancelled"
        /\ \A x \in Emits : x # e => phase'[x] = phase[x]
    BY <1>3, <1>4 DEF Ended
  <2>3. e # Nested
    BY ConstantsAssumption DEF Emits, Nested
  <2>4. \A x \in Range(waiting') \ {Nested} : phase'[x] = "waiting"
    <3> SUFFICES ASSUME NEW x \in Range(waiting), x # e, x # Nested PROVE phase'[x] = "waiting"
      BY <2>1
    <3>1. x \in Emits
      BY <1>3, RangeByIndex
    <3> QED BY <1>3, <2>2, <3>1
  <2>5. Line'
    BY <1>1, <1>2, <1>4, <2>1, <2>2, <2>3, <2>4 DEF Line
  <2>6. Emission' /\ Once' /\ Registry' /\ Waits'
    BY <1>1, <1>2, <1>4, EmissionStays, RegistryStays, WaitsStay
  <2> QED BY <1>1, <1>2, <2>5, <2>6 DEF EmitterInv
<1>5. CASE phase[e] = "running" /\ waiting' = RemoveFirst(waiting, Nested) /\ End(e, "cancelled")
  <2>1. /\ waiting' \in Seq(Emits \cup {Nested}) /\ IsInjective(waiting')
        /\ Range(waiting') = Range(waiting) \ {Nested}
    BY <1>3, <1>5, RemoveFirstRange
  <2>2. op # None /\ op.emit = e
    BY <1>3, <1>5
  <2>3. "cancelled" \in Ended
    BY DEF Ended
  <2> QED BY <1>1, <1>5, <2>1, <2>2, <2>3, EndKeeps
<1> QED BY <1>4, <1>5 DEF Cancel

-----------------------------------------------------------------------------
(* The specification. *)

\* Nobody is registered, nothing is emitted.
LEMMA EmitterInitially ==
  ASSUME Init PROVE EmitterInv
<1>1. /\ lists \in [Names -> Seq(Listeners)] /\ made \in Seq(Listeners) /\ count = 0
      /\ Len(made) = 0 /\ \A n \in Names : lists[n] = <<>>
  BY EmptySeq DEF Init
<1>2. MaxListeners \in Nat /\ 1..Len(made) = {}
  BY <1>1, ConstantsAssumption
<1>3. Range(made) = {} /\ Registered = {} /\ \A n \in Names : Range(lists[n]) = {}
  BY <1>1, EmptyRange DEF Init, Registered
<1>4. Cardinality(Registered) = 0
  BY <1>3, FS_EmptySet
<1>5. \A n \in Names : Chain(lists[n])
  <2>1. 1..Len(<<>>) = {}
    BY EmptySeq
  <2> QED BY <1>1, <2>1 DEF Chain
<1>6. Registry
  BY <1>1, <1>2, <1>3, <1>4, <1>5 DEF Registry
<1>7. Waits
  <2>1. future \in [Ids -> {"none", "pending", "set", "returned", "timeout", "cancelled"}]
        /\ cleared = {}
    BY DEF Init
  <2> QED BY <1>3, <2>1 DEF Waits
<1>8. Line
  <2>1. /\ waiting \in Seq(Emits \cup {Nested}) /\ IsInjective(waiting) /\ Range(waiting) = {}
        /\ op = None
    BY EmptySeq, EmptyRange DEF Init
  <2>2. /\ phase \in [Emits -> {"none", "waiting", "running"} \cup Ended]
        /\ event \in [Emits -> Events \cup {None}]
        /\ \A e \in Emits : phase[e] = "none"
    BY DEF Init
  <2> QED BY <2>1, <2>2 DEF Line
<1>9. op = None /\ fired = [id \in Ids |-> 0] /\ hooks \in BOOLEAN /\ gone \subseteq Ids
  BY DEF Init
<1>10. Once
  <2>1. fired \in [Ids -> {0, 1}] /\ \A id \in Ids : fired[id] = 0
    BY <1>9
  <2> QED BY <1>3, <1>9, <2>1 DEF Once
<1> QED BY <1>6, <1>7, <1>8, <1>9, <1>10 DEF EmitterInv, Emission

\* Nothing happens.
LEMMA StutterKeeps ==
  ASSUME EmitterInv, UNCHANGED vars
  PROVE  EmitterInv'
<1>1. /\ UNCHANGED registry /\ future' = future /\ cleared' = cleared /\ hooks' = hooks
      /\ gone' = gone /\ op' = op /\ fired' = fired /\ event' = event /\ waiting' = waiting
      /\ phase' = phase
  BY DEF vars, emission
<1>2. Registry' /\ Waits'
  BY <1>1, RegistryStays, WaitsStay DEF EmitterInv
<1>3. Emission' /\ Once'
  BY <1>1, EmissionStays DEF EmitterInv
<1>4. Line'
  BY <1>1 DEF EmitterInv, Line
<1> QED BY <1>1, <1>2, <1>3, <1>4 DEF EmitterInv

\* Every step keeps the invariant.
LEMMA EmitterStep ==
  ASSUME EmitterInv, [Next]_vars
  PROVE  EmitterInv'
<1>1. CASE UNCHANGED vars
  BY <1>1, StutterKeeps
<1>2. CASE Step
  BY <1>2, CallNextKeeps, FinishKeeps DEF Step
<1>3. CASE Other
  <2>1. ASSUME NEW kind \in {"plain", "once", "relay"}, NEW prio \in Priorities, NEW n \in Names,
               On(kind, prio, n)
        PROVE  EmitterInv'
    <3>1. kind \in Kinds \ {"wait"} /\ prio \in Priorities \cup {HIGHEST, MONITOR}
      BY DEF Kinds
    <3> QED BY <2>1, <3>1, OnKeeps
  <2>2. ASSUME NEW n \in Names, SuppressEvents(n) PROVE EmitterInv'
    <3>1. "suppress" \in Kinds \ {"wait"} /\ HIGHEST \in Priorities \cup {HIGHEST, MONITOR}
      BY DEF Kinds
    <3> QED BY <2>2, <3>1, OnKeeps DEF SuppressEvents
  <2>3. ASSUME RemoveEverything \/ Shutdown PROVE EmitterInv'
    <3>1. Forget(Names) /\ count' = 0
      BY <2>3 DEF RemoveEverything, Shutdown
    <3>2. hooks' \in BOOLEAN
      BY <2>3 DEF RemoveEverything, Shutdown, EmitterInv
    <3> QED BY <3>1, <3>2, EverythingKeeps
  <2>4. ASSUME NEW l \in Range(made), Off(l) \/ WaitReturn(l) \/ WaitTimeout(l) \/ WaitCancel(l)
        PROVE  EmitterInv'
    BY <2>4, OffKeeps, WaitEndKeeps
  <2>5. ASSUME NEW n \in Names, WaitFor(n) \/ RemoveAll(n) PROVE EmitterInv'
    BY <2>5, WaitForKeeps, RemoveAllKeeps
  <2>6. ASSUME NEW e \in Emits, NEW n \in Events, Emit(e, n) PROVE EmitterInv'
    BY <2>6, EmitKeeps
  <2>7. ASSUME NEW e \in Emits, Cancel(e) PROVE EmitterInv'
    BY <2>7, CancelKeeps
  <2>8. ASSUME Granted \/ ListenerReturns \/ ListenerRaises PROVE EmitterInv'
    BY <2>8, GrantedKeeps, ListenerReturnsKeeps, ListenerRaisesKeeps
  <2> QED BY <1>3, <2>1, <2>2, <2>3, <2>4, <2>5, <2>6, <2>7, <2>8 DEF Other
<1> QED BY <1>1, <1>2, <1>3 DEF Next

\* The invariant holds in every state of every behaviour.
THEOREM Inductive == Spec => []EmitterInv
<1>1. Init => EmitterInv
  BY EmitterInitially
<1>2. EmitterInv /\ [Next]_vars => EmitterInv'
  BY EmitterStep
<1> QED BY <1>1, <1>2, PTL DEF Spec

\* Every variable keeps its type, whatever is registered, emitted or shut down.
THEOREM EmitterTypeOK == Spec => []TypeOK
<1>1. EmitterInv => TypeOK
  <2> SUFFICES ASSUME EmitterInv PROVE TypeOK
    OBVIOUS
  <2>1. /\ lists \in [Names -> Seq(Listeners)] /\ count \in Int /\ made \in Seq(Listeners)
        /\ hooks \in BOOLEAN /\ gone \subseteq Ids
    BY DEF EmitterInv, Registry
  <2>2. /\ waiting \in Seq(Emits \cup {Nested})
        /\ phase \in [Emits -> {"none", "waiting", "running"} \cup Ended]
        /\ event \in [Emits -> Events \cup {None}]
    BY DEF EmitterInv, Line
  <2>3. op \in Running \cup {None}
    BY DEF EmitterInv, Emission
  <2>4. cleared \subseteq Ids
        /\ future \in [Ids -> {"none", "pending", "set", "returned", "timeout", "cancelled"}]
    BY DEF EmitterInv, Waits
  <2>5. fired \in [Ids -> Nat]
    BY DEF EmitterInv, Once
  <2> QED BY <2>1, <2>2, <2>3, <2>4, <2>5 DEF TypeOK
<1> QED BY <1>1, Inductive, PTL

\* A once() listener completes at most once, however many emissions follow each
\* other and whoever else removes it.
THEOREM OnceCompletesOnce == Spec => []OnceRunsOnce
<1>1. EmitterInv => OnceRunsOnce
  <2> SUFFICES ASSUME EmitterInv, NEW id \in Ids PROVE fired[id] <= 1
    BY DEF OnceRunsOnce
  <2>1. fired[id] \in {0, 1}
    BY DEF EmitterInv, Once
  <2> QED BY <2>1
<1> QED BY <1>1, Inductive, PTL

\* Listeners are called by name before wildcard, priority, and age.
THEOREM CalledInOrder == Spec => []InOrder
<1>1. EmitterInv => InOrder
  <2> SUFFICES ASSUME EmitterInv, op # None PROVE Chain(op.ran \o op.rest)
    BY DEF InOrder, Chain, Earlier
  <2>1. /\ op.ran \in Seq(Listeners) /\ op.rest \in Seq(Listeners)
        /\ Chain(op.ran) /\ Chain(op.rest)
        /\ \A x \in Range(op.ran), y \in Range(op.rest) : Earlier(x, y)
    BY DEF EmitterInv, Emission, Running
  <2> QED BY <2>1, ChainConcat
<1> QED BY <1>1, Inductive, PTL

\* wait_for() listens exactly as long as it waits, and nobody is counted who is
\* not registered.
THEOREM WaitersKeepListening == Spec => []WaitersListen
<1>1. EmitterInv => WaitersListen
  BY DEF EmitterInv, Registry, Waits, WaitersListen
<1> QED BY <1>1, Inductive, PTL

\* What an emission that ends and was not stopped has done.
Reached ==
  op # None /\ op' = None /\ phase'[op.emit] = "done" /\ op.propagate =>
    \A l \in Registered :
      l.id <= op.start /\ l.event \in {event[op.emit], Star} =>
        Cardinality({i \in 1..Len(op.ran) : op.ran[i] = l}) = 1

\* Only finish leaves an emission done.
LEMMA OnlyFinishIsDone ==
  ASSUME EmitterInv, Next, op # None, op' = None, phase'[op.emit] = "done"
  PROVE  Finish
<1>1. op.emit \in Emits /\ phase[op.emit] = "running"
      /\ phase \in [Emits -> {"none", "waiting", "running"} \cup Ended]
  BY DEF EmitterInv, Emission, Running, Line
<1>2. ASSUME NEW e, NEW how \in {"failed", "cancelled"}, End(e, how), e = op.emit PROVE FALSE
  <2>1. phase'[op.emit] = how
    BY <1>1, <1>2 DEF End
  <2> QED BY <2>1
<1>3. ASSUME UNCHANGED phase PROVE FALSE
  BY <1>1, <1>3
<1>4. ASSUME UNCHANGED op PROVE FALSE
  BY <1>4
<1>5. CASE Step
  <2>1. CASE CallNext
    <3>1. op.rest # <<>> /\ op.emit \in Emits /\ op.start \in Nat
          /\ op.ran \in Seq(Listeners) /\ op.rest \in Seq(Listeners)
      BY <2>1 DEF CallNext, EmitterInv, Emission, Running
    <3>2. Head(op.rest) \in Listeners /\ Tail(op.rest) \in Seq(Listeners)
      BY <3>1, TailRange
    <3>3. Append(op.ran, Head(op.rest)) \in Seq(Listeners)
      BY <3>1, <3>2, AppendRange
    <3>4. ASSUME NEW r \in Listeners \cup {None}, NEW p \in BOOLEAN, Called(r, p) PROVE FALSE
      <4>1. op' \in Running
        BY <3>1, <3>2, <3>3, <3>4 DEF Called, Running
      <4> QED BY <4>1, NoneAssumption
    <3> QED BY <1>2, <2>1, <3>2, <3>4 DEF CallNext
  <2> QED BY <1>5, <2>1 DEF Step
<1>6. CASE Other
  <2>1. ASSUME NEW e \in Emits, Cancel(e) PROVE FALSE
    <3>1. phase[e] = "running" => e = op.emit
      BY DEF EmitterInv, Line
    <3> QED BY <1>2, <1>4, <2>1, <3>1 DEF Cancel
  <2>2. ASSUME Granted \/ ListenerReturns \/ ListenerRaises PROVE FALSE
    BY <1>2, <1>3, <2>2 DEF Granted, ListenerReturns, ListenerRaises, Through
  <2>3. ASSUME NEW e \in Emits, NEW n \in Events, Emit(e, n) PROVE FALSE
    BY <1>4, <2>3 DEF Emit
  <2>4. ASSUME NEW n \in Names, SuppressEvents(n) \/ WaitFor(n) \/ RemoveAll(n) PROVE FALSE
    BY <1>4, <2>4 DEF SuppressEvents, On, WaitFor, RemoveAll, Forget, emission
  <2>5. ASSUME RemoveEverything \/ Shutdown PROVE FALSE
    BY <1>4, <2>5 DEF RemoveEverything, Shutdown, Forget, emission
  <2>6. ASSUME NEW l \in Range(made), Off(l) \/ WaitReturn(l) \/ WaitTimeout(l) \/ WaitCancel(l)
        PROVE  FALSE
    BY <1>4, <2>6 DEF Off, WaitReturn, WaitTimeout, WaitCancel, emission
  <2>7. ASSUME NEW kind \in {"plain", "once", "relay"}, NEW prio \in Priorities, NEW n \in Names,
               On(kind, prio, n)
        PROVE  FALSE
    BY <1>4, <2>7 DEF On, emission
  <2> QED BY <1>6, <2>1, <2>2, <2>3, <2>4, <2>5, <2>6, <2>7 DEF Other
<1> QED BY <1>5, <1>6 DEF Next

\* Who is registered from the beginning to the end of an emission that nobody
\* stops is called in it, exactly once.
THEOREM EveryListenerCalled == Spec => EveryoneCalled
<1>1. EmitterInv /\ [Next]_vars => [Reached]_vars
  <2> SUFFICES ASSUME EmitterInv, Next, op # None, op' = None, phase'[op.emit] = "done",
                      op.propagate, NEW l \in Registered, l.id <= op.start,
                      l.event \in {event[op.emit], Star}
               PROVE  Cardinality({i \in 1..Len(op.ran) : op.ran[i] = l}) = 1
    BY DEF Reached
  <2>1. Finish
    BY OnlyFinishIsDone
  <2>2. op.rest = <<>> /\ Range(op.rest) = {}
    BY <2>1, EmptyRange DEF Finish
  <2>3. l \in Range(op.ran) \cup Range(op.rest) /\ op.ran \in Seq(Listeners) /\ Chain(op.ran)
    BY DEF EmitterInv, Emission, Running
  <2>4. l \in Range(op.ran) /\ IsInjective(op.ran)
    BY <2>2, <2>3, ChainInjective
  <2> QED BY <2>3, <2>4, CountDistinct
<1> QED BY <1>1, Inductive, PTL DEF Spec, EveryoneCalled, Reached
=============================================================================
