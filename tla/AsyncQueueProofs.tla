-------------------------- MODULE AsyncQueueProofs --------------------------
(* Theorems about AsyncQueue, for any tasks, sizes, priorities and bounds. *)
EXTENDS AsyncQueue, SequenceLemmas

-----------------------------------------------------------------------------
\* First, the position _wakeup_next_waiter pops up to, is the least of its set.
LEMMA FirstIsLeast ==
  ASSUME NEW S \in SUBSET Nat, S # {}
  PROVE  First(S) \in S /\ \A j \in S : First(S) <= j
BY LeastExists DEF First

-----------------------------------------------------------------------------
(* _get() removes one of the queued items. *)

\* The order on (priority, count) pairs has a least element in every non-empty
\* queue.
LEMMA LeastItem ==
  ASSUME NEW q \in Seq(Items), q # <<>>
  PROVE  \E i \in 1..Len(q) : \A j \in 1..Len(q) : q[i] = q[j] \/ Before(q[i], q[j])
<1> DEFINE P == {q[i].priority : i \in 1..Len(q)}
<1>1. Len(q) \in Nat /\ Len(q) > 0 /\ \A i \in 1..Len(q) : q[i] \in Items
  BY EmptySeq, ElementOfSeq
<1>2. PICK p \in P : \A y \in P : p <= y
  <2>1. \A i \in 1..Len(q) : q[i].priority \in Nat
    BY <1>1, QueueAssumption DEF Items
  <2>2. P \in SUBSET Nat
    BY <2>1
  <2>3. q[1].priority \in P
    BY <1>1
  <2> HIDE DEF P
  <2> QED BY <2>2, <2>3, LeastExists
<1> DEFINE C == {q[i].count : i \in {j \in 1..Len(q) : q[j].priority = p}}
<1>3. PICK c \in C : \A y \in C : c <= y
  <2>1. \A i \in 1..Len(q) : q[i].count \in Nat
    BY <1>1, QueueAssumption DEF Items
  <2>2. C \in SUBSET Nat
    BY <2>1
  <2>3. PICK k \in 1..Len(q) : q[k].priority = p
    BY <1>2
  <2>4. q[k].count \in C
    BY <2>3
  <2> HIDE DEF C
  <2> QED BY <2>2, <2>4, LeastExists
<1>4. PICK i \in 1..Len(q) : q[i].priority = p /\ q[i].count = c
  BY <1>3
<1>5. \A j \in 1..Len(q) : q[i] = q[j] \/ Before(q[i], q[j])
  <2> TAKE j \in 1..Len(q)
  <2>1. p <= q[j].priority
    BY <1>2
  <2>2. q[j].priority = p => c <= q[j].count
    BY <1>3
  <2>3. q[i] \in Items /\ q[j] \in Items
    BY <1>1
  <2>4. CASE q[j].priority = p /\ q[j].count = c
    <3>1. \A e \in Items : e = [priority |-> e.priority, count |-> e.count]
      BY DEF Items
    <3>2. q[i].priority = q[j].priority /\ q[i].count = q[j].count
      BY <1>4, <2>4
    <3> QED BY <2>3, <3>1, <3>2, Zenon
  <2>5. CASE q[j].priority # p \/ q[j].count # c
    <3>1. /\ \A k \in 1..Len(q) : q[k].priority \in Nat
          /\ \A k \in 1..Len(q) : q[k].count \in Nat
      <4>1. \A k \in 1..Len(q) : q[k].priority \in Nat
        BY <1>1, QueueAssumption DEF Items
      <4>2. \A k \in 1..Len(q) : q[k].count \in Nat
        BY <1>1, QueueAssumption, SMTT(30) DEF Items
      <4> QED BY <4>1, <4>2
    <3> QED BY <1>4, <2>1, <2>2, <2>5, <3>1 DEF Before
  <2> QED BY <2>4, <2>5
<1> QED BY <1>5

\* _get() takes an item that is there.
LEMMA NextIndexInRange ==
  ASSUME NEW q \in Seq(Items), q # <<>>, kind \in Kinds
  PROVE  NextIndex(q) \in 1..Len(q)
<1>1. Len(q) \in Nat /\ Len(q) > 0
  BY EmptySeq
<1>2. CASE kind # "priority"
  BY <1>1, <1>2 DEF NextIndex, Kinds
<1>3. CASE kind = "priority"
  BY <1>3, LeastItem DEF NextIndex
<1> QED BY <1>2, <1>3

\* _get() removes exactly one item and returns a queued one.
LEMMA RestProperties ==
  ASSUME NEW q \in Seq(Items), q # <<>>, kind \in Kinds
  PROVE  /\ Rest(q) \in Seq(Items)
         /\ Len(Rest(q)) = Len(q) - 1
         /\ NextItem(q) \in Items
<1>1. NextIndex(q) \in 1..Len(q)
  BY NextIndexInRange
<1> QED BY <1>1, RemoveAtProperties, ElementOfSeq DEF Rest, NextItem

\* A function on 1..n is a sequence, as CancelTask builds one.
LEMMA FunctionIsSeq ==
  ASSUME NEW S, NEW n \in Nat, NEW f \in [1..n -> S]
  PROVE  f \in Seq(S)
OBVIOUS

\* Popping a list of futures leaves some of its elements.
LEMMA AfterProperties ==
  ASSUME NEW S, NEW list \in Seq(S), NEW live \in SUBSET (1..Len(list))
  PROVE  /\ After(list, live) \in Seq(S)
         /\ live = {} => After(list, live) = <<>>
         /\ live # {} =>
              /\ First(live) \in live /\ \A j \in live : First(live) <= j
              /\ Len(After(list, live)) = Len(list) - First(live)
              /\ \A i \in 1..Len(list) - First(live) :
                   After(list, live)[i] = list[First(live) + i]
<1>1. CASE live = {}
  BY <1>1, EmptySeq DEF After
<1>2. CASE live # {}
  <2> DEFINE f == First(live)
  <2>1. f \in live /\ (\A j \in live : f <= j) /\ Len(list) \in Nat
    <3>1. Len(list) \in Nat
      BY LenProperties
    <3>2. live \in SUBSET Nat
      OBVIOUS
    <3> QED BY <1>2, <3>1, <3>2, FirstIsLeast
  <2>2. \A i \in f+1..Len(list) : list[i] \in S
    <3>1. f \in 1..Len(list)
      BY <2>1
    <3> QED BY <2>1, <3>1, ElementOfSeq
  <2>3. After(list, live) = SubSeq(list, f+1, Len(list))
    BY <1>2 DEF After
  <2> HIDE DEF f
  <2>4. /\ SubSeq(list, f+1, Len(list)) \in Seq(S)
        /\ Len(SubSeq(list, f+1, Len(list))) = IF f+1 <= Len(list) THEN Len(list)-(f+1)+1 ELSE 0
        /\ \A i \in 1 .. Len(list)-(f+1)+1 : SubSeq(list, f+1, Len(list))[i] = list[f+1+i-1]
    BY <2>1, <2>2, SubSeqProperties
  <2>5. Len(SubSeq(list, f+1, Len(list))) = Len(list) - f
    BY <2>1, <2>4
  <2>6. \A i \in 1..Len(list) - f : SubSeq(list, f+1, Len(list))[i] = list[f + i]
    <3> TAKE i \in 1..Len(list) - f
    <3>1. i \in 1 .. Len(list)-(f+1)+1 /\ f+1+i-1 = f+i
      BY <2>1
    <3> QED BY <2>4, <3>1
  <2> QED BY <1>2, <2>1, <2>3, <2>4, <2>5, <2>6 DEF f
<1> QED BY <1>1, <1>2

-----------------------------------------------------------------------------
(* Type correctness. *)

\* The first pending future of each list belongs to a task that waits there.
LEMMA LiveTasks ==
  ASSUME QueueTypeOK
  PROVE  /\ LiveGetters \in SUBSET (1..Len(getters))
         /\ LiveGetters # {} => getters[First(LiveGetters)] \in Consumers
         /\ LivePutters \in SUBSET (1..Len(putters))
         /\ LivePutters # {} => /\ putters[First(LivePutters)].task \in Producers
                                /\ putters[First(LivePutters)].item \in Items
<1>1. Len(getters) \in Nat /\ Len(putters) \in Nat
  BY LenProperties DEF QueueTypeOK
<1>2. LiveGetters \in SUBSET (1..Len(getters)) /\ LivePutters \in SUBSET (1..Len(putters))
  BY DEF LiveGetters, LivePutters
<1>3. ASSUME LiveGetters # {} PROVE getters[First(LiveGetters)] \in Consumers
  <2>1. First(LiveGetters) \in LiveGetters
    BY <1>1, <1>2, <1>3, FirstIsLeast
  <2> QED BY <2>1, ElementOfSeq DEF QueueTypeOK, LiveGetters
<1>4. ASSUME LivePutters # {}
      PROVE  /\ putters[First(LivePutters)].task \in Producers
             /\ putters[First(LivePutters)].item \in Items
  <2>1. First(LivePutters) \in LivePutters
    BY <1>1, <1>2, <1>4, FirstIsLeast
  <2>2. putters[First(LivePutters)] \in [task : Producers \cup {Done}, item : Items]
    BY <2>1, ElementOfSeq DEF QueueTypeOK, LivePutters
  <2> QED BY <2>1, <2>2 DEF LivePutters
<1> QED BY <1>2, <1>3, <1>4

\* Counting a taken item keeps the counters within their range.
LEMMA CountType ==
  ASSUME NEW f \in [1..MaxPuts -> 0..2], NEW item \in Items
  PROVE  Count(f, item) \in [1..MaxPuts -> 0..2]
<1>1. item.count \in 1..MaxPuts /\ f[item.count] \in 0..2
  BY DEF Items
<1> QED BY <1>1 DEF Count

\* _wakeup_next_waiter keeps the types of all it changes.
LEMMA WakeupType ==
  ASSUME QueueTypeOK,
         NEW STATE q, q \in Seq(Items),
         NEW STATE pcs, pcs \in [Tasks -> States],
         NEW STATE slots, slots \in [Tasks -> Items \cup {NoItem}],
         NEW STATE tk, tk \in [1..MaxPuts -> 0..2],
         Wakeup(q, pcs, slots, tk)
  PROVE  /\ queue' \in Seq(Items)
         /\ getters' \in Seq(Consumers \cup {Done})
         /\ putters' \in Seq([task : Producers \cup {Done}, item : Items])
         /\ pc' \in [Tasks -> States]
         /\ slot' \in [Tasks -> Items \cup {NoItem}]
         /\ taken' \in [1..MaxPuts -> 0..2]
<1> DEFINE P == [task : Producers \cup {Done}, item : Items]
<1>0. /\ getters \in Seq(Consumers \cup {Done}) /\ putters \in Seq(P)
      /\ kind \in Kinds
  BY DEF QueueTypeOK
<1>1. /\ After(getters, LiveGetters) \in Seq(Consumers \cup {Done})
      /\ After(putters, LivePutters) \in Seq(P)
  BY <1>0, LiveTasks, AfterProperties
<1>2. <<>> \in Seq(Consumers \cup {Done}) /\ <<>> \in Seq(P)
  BY EmptySeq
<1> HIDE DEF P
<1>3. CASE WakePutter(q, pcs, slots, tk)
  <2> DEFINE w == putters[First(LivePutters)]
  <2>1. w.task \in Tasks /\ w.item \in Items
    BY <1>3, LiveTasks DEF WakePutter, Tasks
  <2>2. queue' = Append(q, w.item) /\ pc' = [pcs EXCEPT ![w.task] = "put_woken"]
    BY <1>3 DEF WakePutter
  <2> HIDE DEF w
  <2>3. queue' \in Seq(Items)
    BY <2>1, <2>2, AppendProperties
  <2>4. pc' \in [Tasks -> States]
    BY <2>1, <2>2 DEF States
  <2> QED BY <1>0, <1>1, <1>3, <2>3, <2>4 DEF WakePutter, P
<1>4. CASE WakeGetter(q, pcs, slots, tk)
  <2> DEFINE t == getters[First(LiveGetters)]
  <2>1. t \in Tasks
    BY <1>4, LiveTasks DEF WakeGetter, Tasks
  <2>2. Rest(q) \in Seq(Items) /\ NextItem(q) \in Items
    BY <1>0, <1>4, RestProperties DEF WakeGetter
  <2>3. /\ pc' = [pcs EXCEPT ![t] = "get_woken"]
        /\ slot' = [slots EXCEPT ![t] = NextItem(q)]
        /\ taken' = Count(tk, NextItem(q))
    BY <1>4 DEF WakeGetter
  <2> HIDE DEF t
  <2>4. pc' \in [Tasks -> States]
    BY <2>1, <2>3 DEF States
  <2>5. slot' \in [Tasks -> Items \cup {NoItem}]
    BY <2>1, <2>2, <2>3
  <2>6. taken' \in [1..MaxPuts -> 0..2]
    BY <2>2, <2>3, CountType
  <2> QED BY <1>0, <1>1, <1>2, <1>4, <2>2, <2>4, <2>5, <2>6 DEF WakeGetter, P
<1>5. CASE WakeNobody(q, pcs, slots, tk)
  BY <1>0, <1>2, <1>5 DEF WakeNobody, P
<1> QED BY <1>3, <1>4, <1>5 DEF Wakeup

\* The insertion at the end of put() keeps the types of all it changes.
LEMMA InsertType ==
  ASSUME QueueTypeOK, NEW t \in Tasks, NEW STATE item, item \in Items, Insert(t, item)
  PROVE  /\ queue' \in Seq(Items)
         /\ getters' \in Seq(Consumers \cup {Done})
         /\ putters' \in Seq([task : Producers \cup {Done}, item : Items])
         /\ pc' \in [Tasks -> States]
         /\ slot' \in [Tasks -> Items \cup {NoItem}]
         /\ taken' \in [1..MaxPuts -> 0..2]
         /\ unfinished' \in Nat /\ finished' \in BOOLEAN
<1> DEFINE q == Append(queue, item)
           pcs == [pc EXCEPT ![t] = "idle"]
           slots == [slot EXCEPT ![t] = NoItem]
<1>1. q \in Seq(Items)
  BY AppendProperties DEF QueueTypeOK
<1>2. pcs \in [Tasks -> States]
  BY DEF QueueTypeOK, States
<1>3. slots \in [Tasks -> Items \cup {NoItem}]
  BY DEF QueueTypeOK
<1>4. Wakeup(q, pcs, slots, taken)
  BY DEF Insert
<1>5. taken \in [1..MaxPuts -> 0..2]
  BY DEF QueueTypeOK
<1>6. unfinished' \in Nat /\ finished' \in BOOLEAN
  <2>1. unfinished' = unfinished + 1 /\ finished' = FALSE
    BY Zenon DEF Insert
  <2>2. unfinished \in Nat
    BY DEF QueueTypeOK
  <2>3. unfinished + 1 \in Nat
    BY <2>2
  <2> QED BY <2>1, <2>3
<1> HIDE DEF q, pcs, slots
<1> QED BY <1>1, <1>2, <1>3, <1>4, <1>5, <1>6, WakeupType

\* The wait in put() keeps the types of all it changes.
LEMMA ParkType ==
  ASSUME QueueTypeOK, NEW t \in Producers, NEW STATE item, item \in Items, Park(t, item)
  PROVE  /\ putters' \in Seq([task : Producers \cup {Done}, item : Items])
         /\ pc' \in [Tasks -> States]
         /\ slot' \in [Tasks -> Items \cup {NoItem}]
<1> DEFINE e == [task |-> t, item |-> item]
<1>1. e \in [task : Producers \cup {Done}, item : Items]
  OBVIOUS
<1>2. putters' = Append(putters, e)
  BY DEF Park
<1> HIDE DEF e
<1>3. putters' \in Seq([task : Producers \cup {Done}, item : Items])
  BY <1>1, <1>2, AppendProperties DEF QueueTypeOK
<1>4. t \in Tasks
  BY DEF Tasks
<1>5. pc' \in [Tasks -> States] /\ slot' \in [Tasks -> Items \cup {NoItem}]
  BY <1>4 DEF QueueTypeOK, Park, States
<1> QED BY <1>3, <1>5

\* A new queue has the right types.
LEMMA InitType == QueueInit => QueueTypeOK
<1> SUFFICES ASSUME QueueInit PROVE QueueTypeOK
  OBVIOUS
<1>1. \A S : <<>> \in Seq(S)
  BY EmptySeq
<1>2. count \in 0..MaxPuts
  BY QueueAssumption DEF QueueInit
<1> QED BY <1>1, <1>2 DEF QueueInit, QueueTypeOK, States

\* Every step keeps the types; a resumed put() still needs its item, SlotHeld.
LEMMA StepType == QueueTypeOK /\ SlotHeld /\ [QueueNext]_queueVars => QueueTypeOK'
<1> SUFFICES ASSUME QueueTypeOK, SlotHeld, [QueueNext]_queueVars PROVE QueueTypeOK'
  OBVIOUS
<1>0. /\ Producers \subseteq Tasks /\ Consumers \subseteq Tasks /\ Joiners \subseteq Tasks
  BY DEF Tasks
<1>1. ASSUME NEW t \in Producers, Put(t) PROVE QueueTypeOK'
  <2>1. PICK p \in IF kind = "priority" THEN Priorities ELSE {0} :
          LET item == [priority |-> p, count |-> count + 1] IN
            \/ ~Full(queue) /\ Insert(t, item)
            \/ Full(queue) /\ Park(t, item)
    BY <1>1 DEF Put
  <2> DEFINE item == [priority |-> p, count |-> count + 1]
  <2>2. count' = count + 1 /\ count' \in 1..MaxPuts
    BY <1>1, QueueAssumption DEF Put, QueueTypeOK
  <2>3. item \in Items
    BY <2>2, QueueAssumption DEF Items
  <2>4. count' \in 0..MaxPuts
    BY <2>2, QueueAssumption
  <2> HIDE DEF item
  <2>5. CASE Insert(t, item)
    BY <1>0, <2>3, <2>4, <2>5, InsertType DEF Insert, QueueTypeOK
  <2>6. CASE Park(t, item)
    BY <2>3, <2>4, <2>6, ParkType DEF Park, QueueTypeOK
  <2> QED BY <2>1, <2>5, <2>6 DEF item
<1>2. ASSUME NEW t \in Producers, PutResume(t) PROVE QueueTypeOK'
  <2>1. slot[t] \in Items /\ UNCHANGED count
    BY <1>0, <1>2 DEF PutResume, SlotHeld
  <2>2. CASE Insert(t, slot[t])
    BY <1>0, <2>1, <2>2, InsertType DEF Insert, QueueTypeOK
  <2>3. CASE Park(t, slot[t])
    BY <2>1, <2>3, ParkType DEF Park, QueueTypeOK
  <2> QED BY <1>2, <2>2, <2>3 DEF PutResume
<1>3. ASSUME NEW t \in Consumers, GetNow(t) PROVE QueueTypeOK'
  <2>1. Rest(queue) \in Seq(Items) /\ NextItem(queue) \in Items
    BY <1>3, RestProperties DEF GetNow, QueueTypeOK
  <2> DEFINE tk == Count(taken, NextItem(queue))
  <2>2. tk \in [1..MaxPuts -> 0..2]
    BY <2>1, CountType DEF QueueTypeOK
  <2>3. Wakeup(Rest(queue), pc, slot, tk)
    BY <1>3 DEF GetNow
  <2> HIDE DEF tk
  <2>4. owed' \in Nat
    BY <1>3 DEF GetNow, QueueTypeOK
  <2> QED BY <1>3, <2>1, <2>2, <2>3, <2>4, WakeupType DEF GetNow, QueueTypeOK
<1>4. ASSUME NEW t \in Consumers, GetWait(t) PROVE QueueTypeOK'
  <2>1. getters' \in Seq(Consumers \cup {Done})
    BY <1>4, AppendProperties DEF GetWait, QueueTypeOK
  <2> QED BY <1>0, <1>4, <2>1 DEF GetWait, QueueTypeOK, States
<1>5. ASSUME NEW t \in Consumers, GetResume(t) PROVE QueueTypeOK'
  BY <1>0, <1>5 DEF GetResume, QueueTypeOK, States
<1>6. ASSUME NEW t \in Joiners, Join(t) PROVE QueueTypeOK'
  BY <1>0, <1>6 DEF Join, QueueTypeOK, States
<1>7. ASSUME TaskDone PROVE QueueTypeOK'
  <2>1. owed' \in Nat /\ unfinished' \in Nat
    BY <1>7 DEF TaskDone, QueueTypeOK
  <2>2. finished' \in BOOLEAN
    BY <1>7 DEF TaskDone, QueueTypeOK
  <2>3. pc' \in [Tasks -> States]
    BY <1>7 DEF TaskDone, QueueTypeOK, States
  <2> QED BY <1>7, <2>1, <2>2, <2>3 DEF TaskDone, QueueTypeOK
<1>8. ASSUME NEW t \in Tasks, CancelTask(t) PROVE QueueTypeOK'
  <2> DEFINE G == Consumers \cup {Done}
             P == [task : Producers \cup {Done}, item : Items]
  <2>1. /\ getters \in [1..Len(getters) -> G] /\ Len(getters) \in Nat
        /\ putters \in [1..Len(putters) -> P] /\ Len(putters) \in Nat
    BY LenProperties DEF QueueTypeOK
  <2>2. getters' \in [1..Len(getters) -> G]
    BY <1>8, <2>1 DEF CancelTask
  <2>3. putters' \in [1..Len(putters) -> P]
    BY <1>8, <2>1 DEF CancelTask
  <2>4. getters' \in Seq(G) /\ putters' \in Seq(P)
    BY <2>1, <2>2, <2>3, FunctionIsSeq
  <2> QED BY <1>8, <2>4 DEF CancelTask, QueueTypeOK, States
<1>9. ASSUME UNCHANGED queueVars PROVE QueueTypeOK'
  BY <1>9 DEF queueVars, QueueTypeOK
<1> QED BY <1>1, <1>2, <1>3, <1>4, <1>5, <1>6, <1>7, <1>8, <1>9 DEF QueueNext

-----------------------------------------------------------------------------
(* Room and wakeups: the queue stays within maxsize and nobody waits for   *)
(* something that is there.                                                *)

RoomInv == Capacity /\ NoLostWakeup

\* _wakeup_next_waiter restores both when the caller has changed the queue by
\* at most one item since they held.
LEMMA WakeupRoom ==
  ASSUME QueueTypeOK, maxsize \in Int, UNCHANGED maxsize,
         NEW STATE q, q \in Seq(Items),
         NEW STATE pcs, NEW STATE slots, NEW STATE tk,
         ~Unbounded => Len(q) <= maxsize,
         LivePutters # {} => LiveGetters = {} /\ ~Unbounded /\ Len(q) >= maxsize - 1,
         LiveGetters # {} => Len(q) <= 1,
         Wakeup(q, pcs, slots, tk)
  PROVE  RoomInv'
<1>0. Len(q) \in Nat /\ kind \in Kinds /\ (q # <<>> => Len(q) > 0) /\ Len(<<>>) = 0
  BY EmptySeq, LenProperties DEF QueueTypeOK
<1>1. CASE WakePutter(q, pcs, slots, tk)
  <2> DEFINE e == putters[First(LivePutters)].item
  <2>1. e \in Items /\ queue' = Append(q, e) /\ UNCHANGED getters
    BY <1>1, LiveTasks DEF WakePutter
  <2> HIDE DEF e
  <2>2. Len(queue') = Len(q) + 1
    BY <2>1, AppendProperties
  <2>3. LivePutters # {} /\ ~(Len(q) >= maxsize /\ maxsize > 0)
    BY <1>1 DEF WakePutter, Full
  <2>4. Len(queue') = maxsize /\ maxsize > 0
    BY <1>0, <2>2, <2>3 DEF Unbounded
  <2>5. LiveGetters' = {}
    BY <2>1, <2>3 DEF LiveGetters
  <2> QED BY <2>4, <2>5 DEF RoomInv, Capacity, NoLostWakeup, Full, Unbounded
<1>2. CASE WakeGetter(q, pcs, slots, tk)
  <2>1. LiveGetters # {} /\ q # <<>> /\ queue' = Rest(q)
    BY <1>2 DEF WakeGetter
  <2>2. Rest(q) \in Seq(Items) /\ Len(Rest(q)) = Len(q) - 1
    BY <1>0, <2>1, RestProperties
  <2>3. queue' = <<>> /\ Len(queue') = 0
    <3>1. Len(q) <= 1
      BY <2>1
    <3>2. Len(q) = 1
      <4>1. Len(q) \in Nat /\ Len(q) > 0
        BY <1>0, <2>1
      <4>2. \A n \in Nat : n > 0 /\ n <= 1 => n = 1
        OBVIOUS
      <4> QED BY <3>1, <4>1, <4>2, Zenon
    <3>3. Len(Rest(q)) = 0
      BY <2>2, <3>2
    <3> QED BY <2>1, <2>2, <3>3, EmptySeq
  <2>4. LivePutters = {} /\ (putters' = putters \/ putters' = <<>>)
    BY <1>2, <2>1 DEF WakeGetter
  <2>5. LivePutters' = {}
    BY <1>0, <2>4 DEF LivePutters
  <2> QED BY <2>3, <2>5 DEF RoomInv, Capacity, NoLostWakeup, Unbounded
<1>3. CASE WakeNobody(q, pcs, slots, tk)
  <2>1. queue' = q
    BY <1>3 DEF WakeNobody
  <2>2. LiveGetters' # {} => queue' = <<>>
    <3>1. CASE q = <<>>
      BY <2>1, <3>1
    <3>2. CASE q # <<>>
      <4>1. getters' = <<>>
        BY <1>3, <3>2 DEF WakeNobody
      <4> QED BY <1>0, <4>1 DEF LiveGetters
    <3> QED BY <3>1, <3>2
  <2>3. LivePutters' # {} => Full(queue)'
    <3>1. CASE Full(q)
      BY <2>1, <3>1 DEF Full
    <3>2. CASE ~Full(q)
      <4>1. putters' = <<>>
        BY <1>3, <3>2 DEF WakeNobody
      <4> QED BY <1>0, <4>1 DEF LivePutters
    <3> QED BY <3>1, <3>2
  <2>4. Capacity'
    BY <2>1 DEF Capacity, Unbounded
  <2> QED BY <2>2, <2>3, <2>4 DEF RoomInv, NoLostWakeup
<1> QED BY <1>1, <1>2, <1>3 DEF Wakeup

\* put() into a queue with room keeps it within bounds and loses no wakeup.
LEMMA InsertRoom ==
  ASSUME QueueTypeOK, RoomInv, ~Full(queue),
         NEW t \in Tasks, NEW STATE item, item \in Items, Insert(t, item)
  PROVE  RoomInv'
<1>1. maxsize \in Int /\ UNCHANGED maxsize /\ Len(queue) \in Nat
  BY QueueAssumption, LenProperties DEF QueueTypeOK, Insert
<1> DEFINE q == Append(queue, item)
           pcs == [pc EXCEPT ![t] = "idle"]
           slots == [slot EXCEPT ![t] = NoItem]
<1>2. q \in Seq(Items) /\ Len(q) = Len(queue) + 1
  BY AppendProperties DEF QueueTypeOK
<1>3. LivePutters = {}
  BY DEF RoomInv, NoLostWakeup
<1>4. ~Unbounded => Len(q) <= maxsize
  BY <1>1, <1>2 DEF Full, Unbounded
<1>5. LiveGetters # {} => Len(q) <= 1
  <2>1. LiveGetters # {} => Len(queue) = 0
    BY EmptySeq DEF RoomInv, NoLostWakeup
  <2> QED BY <1>2, <2>1
<1>6. Wakeup(q, pcs, slots, taken)
  BY DEF Insert
<1> HIDE DEF q, pcs, slots
<1> QED BY <1>1, <1>2, <1>3, <1>4, <1>5, <1>6, WakeupRoom

\* put() parks only while the queue is full, so no room is left unannounced.
LEMMA ParkRoom ==
  ASSUME QueueTypeOK, RoomInv, Full(queue), NEW t \in Tasks, NEW STATE item, Park(t, item)
  PROVE  RoomInv'
BY DEF Park, RoomInv, Capacity, Unbounded, NoLostWakeup, LiveGetters, Full

\* Every step keeps both: the capacity and that no task waits in vain.
LEMMA StepRoom == QueueTypeOK /\ SlotHeld /\ RoomInv /\ [QueueNext]_queueVars => RoomInv'
<1> SUFFICES ASSUME QueueTypeOK, SlotHeld, RoomInv, [QueueNext]_queueVars PROVE RoomInv'
  OBVIOUS
<1>0. /\ Producers \subseteq Tasks
      /\ maxsize \in Int /\ Len(queue) \in Nat /\ queue \in Seq(Items)
  BY QueueAssumption, LenProperties DEF Tasks, QueueTypeOK
<1>1. ASSUME NEW t \in Producers, Put(t) PROVE RoomInv'
  <2>1. PICK p \in IF kind = "priority" THEN Priorities ELSE {0} :
          LET item == [priority |-> p, count |-> count + 1] IN
            \/ ~Full(queue) /\ Insert(t, item)
            \/ Full(queue) /\ Park(t, item)
    BY <1>1 DEF Put
  <2> DEFINE item == [priority |-> p, count |-> count + 1]
  <2>2. item \in Items
    BY <1>1, QueueAssumption DEF Put, QueueTypeOK, Items
  <2> HIDE DEF item
  <2> QED BY <1>0, <2>1, <2>2, InsertRoom, ParkRoom DEF item
<1>2. ASSUME NEW t \in Producers, PutResume(t) PROVE RoomInv'
  <2>1. slot[t] \in Items
    BY <1>0, <1>2 DEF PutResume, SlotHeld
  <2> QED BY <1>0, <1>2, <2>1, InsertRoom, ParkRoom DEF PutResume
<1>3. ASSUME NEW t \in Consumers, GetNow(t) PROVE RoomInv'
  <2>1. Rest(queue) \in Seq(Items) /\ Len(Rest(queue)) = Len(queue) - 1
    BY <1>3, RestProperties DEF GetNow, QueueTypeOK
  <2> DEFINE tk == Count(taken, NextItem(queue))
  <2>2. Wakeup(Rest(queue), pc, slot, tk) /\ UNCHANGED maxsize
    BY <1>3 DEF GetNow
  <2>3. LiveGetters = {}
    BY <1>3 DEF GetNow, RoomInv, NoLostWakeup
  <2>4. ~Unbounded => Len(Rest(queue)) <= maxsize
    BY <1>0, <2>1 DEF RoomInv, Capacity
  <2>5. LivePutters # {} => ~Unbounded /\ Len(Rest(queue)) >= maxsize - 1
    BY <1>0, <2>1 DEF RoomInv, NoLostWakeup, Full, Unbounded
  <2> HIDE DEF tk
  <2> QED BY <1>0, <2>1, <2>2, <2>3, <2>4, <2>5, WakeupRoom
<1>4. ASSUME NEW t \in Consumers, GetWait(t) PROVE RoomInv'
  BY <1>4 DEF GetWait, RoomInv, Capacity, Unbounded, NoLostWakeup, LivePutters, Full
<1>5. ASSUME NEW t \in Tasks, CancelTask(t) PROVE RoomInv'
  <2>1. \A i \in LiveGetters' : i \in LiveGetters
    <3>1. Len(getters) \in Nat
      BY LenProperties DEF QueueTypeOK
    <3>2. Len(getters') = Len(getters)
      <4>1. DOMAIN getters' = 1..Len(getters)
        BY <1>5 DEF CancelTask
      <4> QED BY <3>1, <4>1 DEF QueueTypeOK
    <3> QED BY <1>5, <3>1, <3>2 DEF CancelTask, LiveGetters
  <2>2. \A i \in LivePutters' : i \in LivePutters
    <3>1. Len(putters) \in Nat
      BY LenProperties DEF QueueTypeOK
    <3>2. Len(putters') = Len(putters)
      <4>1. DOMAIN putters' = 1..Len(putters)
        BY <1>5 DEF CancelTask
      <4> QED BY <3>1, <4>1 DEF QueueTypeOK
    <3>3. ASSUME NEW i \in 1..Len(putters), putters[i].task = Done
          PROVE  putters'[i].task = Done
      <4>1. putters[i] \in [task : Producers \cup {Done}, item : Items]
        BY ElementOfSeq DEF QueueTypeOK
      <4> QED BY <1>5, <3>1, <3>3, <4>1 DEF CancelTask
    <3> QED BY <3>1, <3>2, <3>3 DEF LivePutters
  <2>3. UNCHANGED <<queue, maxsize>>
    BY <1>5 DEF CancelTask
  <2> QED BY <2>1, <2>2, <2>3 DEF RoomInv, Capacity, Unbounded, NoLostWakeup, Full
<1>6. ASSUME UNCHANGED <<queue, maxsize, getters, putters>> PROVE RoomInv'
  BY <1>6 DEF RoomInv, Capacity, Unbounded, NoLostWakeup, LiveGetters, LivePutters, Full
<1>7. ASSUME NEW t \in Consumers, GetResume(t) PROVE RoomInv'
  BY <1>6, <1>7 DEF GetResume
<1>8. ASSUME NEW t \in Joiners, Join(t) PROVE RoomInv'
  BY <1>6, <1>8 DEF Join
<1>9. ASSUME TaskDone PROVE RoomInv'
  BY <1>6, <1>9 DEF TaskDone
<1>10. ASSUME UNCHANGED queueVars PROVE RoomInv'
  BY <1>6, <1>10 DEF queueVars
<1> QED BY <1>1, <1>2, <1>3, <1>4, <1>5, <1>7, <1>8, <1>9, <1>10 DEF QueueNext

-----------------------------------------------------------------------------
(* Futures: a task waits on exactly one pending future, and a suspended    *)
(* put() holds its item.                                                   *)

FutureInv == OneFuturePerTask /\ SlotHeld

\* The hypotheses say what the caller of _wakeup_next_waiter may have done to
\* pc and slot: no waiting task is touched.
LEMMA WakeupFutures ==
  ASSUME QueueTypeOK, OneFuturePerTask,
         NEW STATE q, q \in Seq(Items),
         NEW STATE pcs, pcs \in [Tasks -> States],
         NEW STATE slots, slots \in [Tasks -> Items \cup {NoItem}],
         NEW STATE tk,
         \A t \in Tasks : /\ pcs[t] = "put_wait" <=> pc[t] = "put_wait"
                          /\ pcs[t] = "get_wait" <=> pc[t] = "get_wait"
                          /\ pcs[t] \in {"put_wait", "put_woken"} => slots[t] \in Items,
         Wakeup(q, pcs, slots, tk)
  PROVE  FutureInv'
<1>0. /\ LivePutters \in SUBSET (1..Len(putters)) /\ LiveGetters \in SUBSET (1..Len(getters))
      /\ Len(putters) \in Nat /\ Len(getters) \in Nat /\ kind \in Kinds
      /\ Producers \subseteq Tasks /\ Consumers \subseteq Tasks
  BY LiveTasks, LenProperties DEF QueueTypeOK, Tasks
<1>1. CASE WakePutter(q, pcs, slots, tk)
  <2> DEFINE f == First(LivePutters)
             w == putters[f].task
  <2>1. /\ LivePutters # {} /\ UNCHANGED getters
        /\ pc' = [pcs EXCEPT ![w] = "put_woken"] /\ slot' = slots
        /\ putters' = After(putters, LivePutters)
    BY <1>1 DEF WakePutter
  <2>2. /\ f \in LivePutters /\ \A j \in LivePutters : f <= j
        /\ Len(putters') = Len(putters) - f
        /\ \A i \in 1..Len(putters) - f : putters'[i] = putters[f + i]
    BY <1>0, <2>1, AfterProperties DEF QueueTypeOK
  <2>3. w \in Tasks
    BY <1>0, <2>1, LiveTasks
  <2> HIDE DEF f
  <2>4. \A i \in LivePutters' : f + i \in LivePutters /\ putters'[i] = putters[f + i]
    BY <1>0, <2>2 DEF LivePutters
  <2>5. \A j \in LivePutters : j # f => j - f \in LivePutters' /\ putters'[j - f] = putters[j]
    <3> TAKE j \in LivePutters
    <3> HAVE j # f
    <3>1. j \in 1..Len(putters) /\ f \in 1..Len(putters) /\ f <= j
      BY <1>0, <2>2
    <3>2. j - f \in 1..Len(putters) - f /\ f + (j - f) = j
      BY <1>0, <3>1
    <3>3. putters'[j - f] = putters[j]
      BY <2>2, <3>2
    <3>4. putters[j].task # Done
      BY DEF LivePutters
    <3> QED BY <2>2, <3>2, <3>3, <3>4 DEF LivePutters
  <2>6. \A i, j \in LivePutters' : putters'[i].task = putters'[j].task => i = j
    <3> TAKE i, j \in LivePutters'
    <3> HAVE putters'[i].task = putters'[j].task
    <3>1. f + i = f + j
      BY <2>4 DEF OneFuturePerTask
    <3>2. i \in Int /\ j \in Int /\ f \in Int
      BY <1>0, <2>2 DEF LivePutters
    <3> QED BY <3>1, <3>2
  <2>7. \A i \in LivePutters' : putters'[i].task # w
    <3> TAKE i \in LivePutters'
    <3>1. putters[f + i].task = w => f + i = f
      BY <2>2, <2>4 DEF OneFuturePerTask
    <3>2. f + i # f
      BY <1>0, <2>2 DEF LivePutters
    <3> QED BY <2>4, <3>1, <3>2
  <2>8. \A t \in Tasks : pc'[t] = "put_wait" <=> \E i \in LivePutters' : putters'[i].task = t
    <3> TAKE t \in Tasks
    <3>1. CASE t = w
      BY <2>1, <2>3, <2>7, <3>1
    <3>2. CASE t # w
      <4>1. pc'[t] = pcs[t]
        BY <2>1, <3>2
      <4>2. ASSUME pc'[t] = "put_wait" PROVE \E i \in LivePutters' : putters'[i].task = t
        <5>1. PICK j \in LivePutters : putters[j].task = t
          BY <4>1, <4>2 DEF OneFuturePerTask
        <5> QED BY <2>5, <3>2, <5>1
      <4>3. ASSUME NEW i \in LivePutters', putters'[i].task = t PROVE pc'[t] = "put_wait"
        BY <2>4, <4>1, <4>3 DEF OneFuturePerTask
      <4> QED BY <4>2, <4>3
    <3> QED BY <3>1, <3>2
  <2>9. pc[w] = "put_wait"
    BY <2>2, <2>3 DEF OneFuturePerTask
  <2>10. /\ \A i, j \in LiveGetters' : getters'[i] = getters'[j] => i = j
         /\ \A t \in Tasks : pc'[t] = "get_wait" <=> \E i \in LiveGetters' : getters'[i] = t
    <3>1. LiveGetters' = LiveGetters
      BY <2>1 DEF LiveGetters
    <3>2. \A t \in Tasks : pc'[t] = "get_wait" <=> pc[t] = "get_wait"
      BY <2>1, <2>3, <2>9
    <3> QED BY <2>1, <3>1, <3>2 DEF OneFuturePerTask
  <2>11. SlotHeld'
    <3>1. \A t \in Tasks : pc'[t] \in {"put_wait", "put_woken"} => pcs[t] \in {"put_wait", "put_woken"}
      BY <2>1, <2>3, <2>9
    <3> QED BY <2>1, <3>1 DEF SlotHeld
  <2> QED BY <2>6, <2>8, <2>10, <2>11 DEF FutureInv, OneFuturePerTask
<1>2. \A t \in Tasks :
        /\ pc'[t] = "put_wait" <=> pc[t] = "put_wait"
        /\ putters' = putters \/ (putters' = <<>> /\ LivePutters = {})
        => (pc'[t] = "put_wait" <=> \E i \in LivePutters' : putters'[i].task = t)
  <2>1. putters' = <<>> => LivePutters' = {}
    BY EmptySeq DEF LivePutters
  <2>2. putters' = putters => LivePutters' = LivePutters
    BY DEF LivePutters
  <2> QED BY <2>1, <2>2 DEF OneFuturePerTask
<1>3. (putters' = putters \/ putters' = <<>>) =>
        \A i, j \in LivePutters' : putters'[i].task = putters'[j].task => i = j
  <2>1. putters' = <<>> => LivePutters' = {}
    BY EmptySeq DEF LivePutters
  <2>2. putters' = putters => LivePutters' = LivePutters
    BY DEF LivePutters
  <2> QED BY <2>1, <2>2 DEF OneFuturePerTask
<1>4. CASE WakeGetter(q, pcs, slots, tk)
  <2> DEFINE f == First(LiveGetters)
             w == getters[f]
  <2>1. /\ LiveGetters # {} /\ q # <<>>
        /\ putters' = putters \/ (putters' = <<>> /\ LivePutters = {})
        /\ pc' = [pcs EXCEPT ![w] = "get_woken"]
        /\ slot' = [slots EXCEPT ![w] = NextItem(q)]
        /\ getters' = After(getters, LiveGetters)
    BY <1>4 DEF WakeGetter
  <2>2. /\ f \in LiveGetters /\ \A j \in LiveGetters : f <= j
        /\ Len(getters') = Len(getters) - f
        /\ \A i \in 1..Len(getters) - f : getters'[i] = getters[f + i]
    <3>1. LiveGetters \in SUBSET (1..Len(getters)) /\ LiveGetters # {}
      BY <2>1 DEF LiveGetters
    <3>2. getters \in Seq(Consumers \cup {Done}) /\ getters' = After(getters, LiveGetters)
      BY <2>1 DEF QueueTypeOK
    <3> HIDE DEF f
    <3>3. PICK live : live = LiveGetters
      OBVIOUS
    <3> QED BY <3>1, <3>2, <3>3, AfterProperties DEF f
  <2>3. w \in Tasks
    BY <1>0, <2>1, LiveTasks
  <2>4. NextItem(q) \in Items
    BY <1>0, <2>1, RestProperties
  <2> HIDE DEF f
  <2>5. \A i \in LiveGetters' : f + i \in LiveGetters /\ getters'[i] = getters[f + i]
    BY <1>0, <2>2 DEF LiveGetters
  <2>6. \A j \in LiveGetters : j # f => j - f \in LiveGetters' /\ getters'[j - f] = getters[j]
    <3> TAKE j \in LiveGetters
    <3> HAVE j # f
    <3>1. j \in 1..Len(getters) /\ f \in 1..Len(getters) /\ f <= j
      BY <1>0, <2>2
    <3>2. j - f \in 1..Len(getters) - f /\ f + (j - f) = j
      BY <1>0, <3>1
    <3>3. getters'[j - f] = getters[j]
      BY <2>2, <3>2
    <3>4. getters[j] # Done
      BY DEF LiveGetters
    <3> QED BY <2>2, <3>2, <3>3, <3>4 DEF LiveGetters
  <2>7. \A i, j \in LiveGetters' : getters'[i] = getters'[j] => i = j
    <3> TAKE i, j \in LiveGetters'
    <3> HAVE getters'[i] = getters'[j]
    <3>1. f + i = f + j
      BY <2>5 DEF OneFuturePerTask
    <3>2. i \in Int /\ j \in Int /\ f \in Int
      BY <1>0, <2>2 DEF LiveGetters
    <3> QED BY <3>1, <3>2
  <2>8. \A i \in LiveGetters' : getters'[i] # w
    <3> TAKE i \in LiveGetters'
    <3>1. getters[f + i] = w => f + i = f
      BY <2>2, <2>5 DEF OneFuturePerTask
    <3>2. f + i # f
      BY <1>0, <2>2 DEF LiveGetters
    <3> QED BY <2>5, <3>1, <3>2
  <2>9. \A t \in Tasks : pc'[t] = "get_wait" <=> \E i \in LiveGetters' : getters'[i] = t
    <3> TAKE t \in Tasks
    <3>1. CASE t = w
      BY <2>1, <2>3, <2>8, <3>1
    <3>2. CASE t # w
      <4>1. pc'[t] = pcs[t]
        BY <2>1, <3>2
      <4>2. ASSUME pc'[t] = "get_wait" PROVE \E i \in LiveGetters' : getters'[i] = t
        <5>1. PICK j \in LiveGetters : getters[j] = t
          BY <4>1, <4>2 DEF OneFuturePerTask
        <5> QED BY <2>6, <3>2, <5>1
      <4>3. ASSUME NEW i \in LiveGetters', getters'[i] = t PROVE pc'[t] = "get_wait"
        BY <2>5, <4>1, <4>3 DEF OneFuturePerTask
      <4> QED BY <4>2, <4>3
    <3> QED BY <3>1, <3>2
  <2>10. pc[w] = "get_wait" /\ pcs[w] = "get_wait"
    BY <2>2, <2>3 DEF OneFuturePerTask
  <2>11. \A t \in Tasks : pc'[t] = "put_wait" <=> pc[t] = "put_wait"
    BY <2>1, <2>3, <2>10
  <2>12. SlotHeld'
    BY <2>1, <2>3, <2>4 DEF SlotHeld
  <2> QED BY <1>2, <1>3, <2>1, <2>7, <2>9, <2>11, <2>12 DEF FutureInv, OneFuturePerTask
<1>5. CASE WakeNobody(q, pcs, slots, tk)
  <2>1. /\ putters' = putters \/ (putters' = <<>> /\ LivePutters = {})
        /\ getters' = getters \/ (getters' = <<>> /\ LiveGetters = {})
        /\ pc' = pcs /\ slot' = slots
    BY <1>5 DEF WakeNobody
  <2>2. getters' = <<>> => LiveGetters' = {}
    BY EmptySeq DEF LiveGetters
  <2>3. getters' = getters => LiveGetters' = LiveGetters
    BY DEF LiveGetters
  <2>4. /\ \A i, j \in LiveGetters' : getters'[i] = getters'[j] => i = j
        /\ \A t \in Tasks : pc'[t] = "get_wait" <=> \E i \in LiveGetters' : getters'[i] = t
    BY <2>1, <2>2, <2>3 DEF OneFuturePerTask
  <2>5. SlotHeld'
    BY <2>1 DEF SlotHeld
  <2>6. \A t \in Tasks : pc'[t] = "put_wait" <=> pc[t] = "put_wait"
    BY <2>1
  <2> QED BY <1>2, <1>3, <2>1, <2>4, <2>5, <2>6 DEF FutureInv, OneFuturePerTask
<1> QED BY <1>1, <1>4, <1>5 DEF Wakeup

\* The insertion at the end of put() keeps tasks and futures matched.
LEMMA InsertFutures ==
  ASSUME QueueTypeOK, FutureInv, NEW t \in Tasks, pc[t] \notin {"put_wait", "get_wait"},
         NEW STATE item, item \in Items, Insert(t, item)
  PROVE  FutureInv'
<1> DEFINE q == Append(queue, item)
           pcs == [pc EXCEPT ![t] = "idle"]
           slots == [slot EXCEPT ![t] = NoItem]
<1>1. q \in Seq(Items)
  BY AppendProperties DEF QueueTypeOK
<1>2. pcs \in [Tasks -> States] /\ slots \in [Tasks -> Items \cup {NoItem}]
  BY DEF QueueTypeOK, States
<1>3. \A u \in Tasks : /\ pcs[u] = "put_wait" <=> pc[u] = "put_wait"
                       /\ pcs[u] = "get_wait" <=> pc[u] = "get_wait"
                       /\ pcs[u] \in {"put_wait", "put_woken"} => slots[u] \in Items
  BY DEF QueueTypeOK, FutureInv, SlotHeld
<1>4. Wakeup(q, pcs, slots, taken)
  BY DEF Insert
<1> HIDE DEF q, pcs, slots
<1> QED BY <1>1, <1>2, <1>3, <1>4, WakeupFutures DEF FutureInv

\* Registering a putter's future matches it with its waiting task.
LEMMA ParkFutures ==
  ASSUME QueueTypeOK, FutureInv, NEW t \in Producers, pc[t] \notin {"put_wait", "get_wait"},
         NEW STATE item, item \in Items, Park(t, item)
  PROVE  FutureInv'
<1> DEFINE e == [task |-> t, item |-> item]
<1>1. /\ t \in Tasks /\ t # Done /\ Len(putters) \in Nat /\ UNCHANGED getters
      /\ pc' = [pc EXCEPT ![t] = "put_wait"] /\ slot' = [slot EXCEPT ![t] = item]
      /\ putters' = Append(putters, e)
  BY QueueAssumption, LenProperties DEF Tasks, QueueTypeOK, Park
<1>2. e \in [task : Producers \cup {Done}, item : Items] /\ e.task = t
  OBVIOUS
<1> HIDE DEF e
<1>3. /\ Len(putters') = Len(putters) + 1
      /\ \A i \in 1..Len(putters) : putters'[i] = putters[i]
      /\ putters'[Len(putters) + 1] = e
  BY <1>1, <1>2, AppendProperties DEF QueueTypeOK
<1>4. LivePutters' = LivePutters \cup {Len(putters) + 1}
  BY <1>1, <1>2, <1>3 DEF LivePutters
<1>5. \A i \in LivePutters : putters'[i] = putters[i] /\ putters[i].task # t
                             /\ i # Len(putters) + 1
  <2>1. \A i \in LivePutters : i \in 1..Len(putters)
    BY DEF LivePutters
  <2>2. \A i \in LivePutters : putters[i].task # t
    BY <1>1 DEF FutureInv, OneFuturePerTask
  <2> QED BY <1>1, <1>3, <2>1, <2>2
<1>6. \A i, j \in LivePutters' : putters'[i].task = putters'[j].task => i = j
  BY <1>2, <1>3, <1>4, <1>5 DEF FutureInv, OneFuturePerTask
<1>7. \A u \in Tasks : pc'[u] = "put_wait" <=> \E i \in LivePutters' : putters'[i].task = u
  <2> TAKE u \in Tasks
  <2>1. CASE u = t
    BY <1>1, <1>2, <1>3, <1>4, <2>1 DEF QueueTypeOK
  <2>2. CASE u # t
    <3>1. pc'[u] = pc[u]
      BY <1>1, <2>2 DEF QueueTypeOK
    <3>2. (\E i \in LivePutters' : putters'[i].task = u)
            <=> \E i \in LivePutters : putters[i].task = u
      BY <1>2, <1>3, <1>4, <1>5, <2>2
    <3> QED BY <3>1, <3>2 DEF FutureInv, OneFuturePerTask
  <2> QED BY <2>1, <2>2
<1>8. /\ \A i, j \in LiveGetters' : getters'[i] = getters'[j] => i = j
      /\ \A u \in Tasks : pc'[u] = "get_wait" <=> \E i \in LiveGetters' : getters'[i] = u
  <2>1. LiveGetters' = LiveGetters
    BY <1>1 DEF LiveGetters
  <2>2. \A u \in Tasks : pc'[u] = "get_wait" <=> pc[u] = "get_wait"
    BY <1>1 DEF QueueTypeOK
  <2> QED BY <1>1, <2>1, <2>2 DEF FutureInv, OneFuturePerTask
<1>9. SlotHeld'
  BY <1>1 DEF QueueTypeOK, FutureInv, SlotHeld
<1> QED BY <1>6, <1>7, <1>8, <1>9 DEF FutureInv, OneFuturePerTask

\* A cancelled task leaves no pending future: its entry is dead at once.
LEMMA CancelFutures ==
  ASSUME QueueTypeOK, FutureInv, NEW t \in Tasks, CancelTask(t)
  PROVE  FutureInv'
<1>1. /\ Len(getters) \in Nat /\ Len(putters) \in Nat /\ t # Done
  BY QueueAssumption, LenProperties DEF QueueTypeOK
<1>2. /\ pc' = [pc EXCEPT ![t] = "idle"]
      /\ slot' = [slot EXCEPT ![t] = NoItem]
      /\ Len(getters') = Len(getters)
      /\ Len(putters') = Len(putters)
      /\ \A i \in 1..Len(getters) :
           getters'[i] = IF getters[i] = t THEN Done ELSE getters[i]
  <2>1. DOMAIN getters' = 1..Len(getters) /\ DOMAIN putters' = 1..Len(putters)
    BY DEF CancelTask
  <2>2. Len(getters') = Len(getters) /\ Len(putters') = Len(putters)
    BY <1>1, <2>1 DEF QueueTypeOK
  <2> QED BY <2>2 DEF CancelTask
<1>3. \A i \in 1..Len(putters) :
        putters'[i].task = IF putters[i].task = t THEN Done ELSE putters[i].task
  <2> TAKE i \in 1..Len(putters)
  <2>1. putters[i] \in [task : Producers \cup {Done}, item : Items]
    BY ElementOfSeq DEF QueueTypeOK
  <2>2. putters'[i] = IF putters[i].task = t THEN [putters[i] EXCEPT !.task = Done]
                      ELSE putters[i]
    BY <1>1 DEF CancelTask
  <2> QED BY <2>1, <2>2
<1>4. \A i : i \in LiveGetters' <=> i \in LiveGetters /\ getters[i] # t
  BY <1>1, <1>2 DEF LiveGetters
<1>5. \A i : i \in LivePutters' <=> i \in LivePutters /\ putters[i].task # t
  BY <1>1, <1>2, <1>3 DEF LivePutters
<1>6. \A i \in LiveGetters' : getters'[i] = getters[i]
  BY <1>2, <1>4 DEF LiveGetters
<1>7. \A i \in LivePutters' : putters'[i].task = putters[i].task
  BY <1>3, <1>5 DEF LivePutters
<1>8. /\ \A i, j \in LiveGetters' : getters'[i] = getters'[j] => i = j
      /\ \A i, j \in LivePutters' : putters'[i].task = putters'[j].task => i = j
  BY <1>4, <1>5, <1>6, <1>7 DEF FutureInv, OneFuturePerTask
<1>9. \A u \in Tasks : pc'[u] = IF u = t THEN "idle" ELSE pc[u]
  BY <1>2 DEF QueueTypeOK
<1>10. \A u \in Tasks : pc'[u] = "get_wait" <=> \E i \in LiveGetters' : getters'[i] = u
  BY <1>4, <1>6, <1>9 DEF FutureInv, OneFuturePerTask
<1>11. \A u \in Tasks : pc'[u] = "put_wait" <=> \E i \in LivePutters' : putters'[i].task = u
  BY <1>5, <1>7, <1>9 DEF FutureInv, OneFuturePerTask
<1>12. SlotHeld'
  BY <1>2 DEF QueueTypeOK, FutureInv, SlotHeld
<1> QED BY <1>8, <1>10, <1>11, <1>12 DEF FutureInv, OneFuturePerTask

\* Every step keeps waiting tasks and pending futures matched.
LEMMA StepFutures == QueueTypeOK /\ FutureInv /\ [QueueNext]_queueVars => FutureInv'
<1> SUFFICES ASSUME QueueTypeOK, FutureInv, [QueueNext]_queueVars PROVE FutureInv'
  OBVIOUS
<1>0. /\ Producers \subseteq Tasks /\ Consumers \subseteq Tasks /\ Joiners \subseteq Tasks
      /\ Len(getters) \in Nat
  BY LenProperties DEF Tasks, QueueTypeOK
<1>1. ASSUME NEW t \in Producers, Put(t) PROVE FutureInv'
  <2>1. PICK p \in IF kind = "priority" THEN Priorities ELSE {0} :
          LET item == [priority |-> p, count |-> count + 1] IN
            \/ ~Full(queue) /\ Insert(t, item)
            \/ Full(queue) /\ Park(t, item)
    BY <1>1 DEF Put
  <2> DEFINE item == [priority |-> p, count |-> count + 1]
  <2>2. item \in Items
    BY <1>1, QueueAssumption DEF Put, QueueTypeOK, Items
  <2> HIDE DEF item
  <2>3. pc[t] = "idle"
    BY <1>1 DEF Put
  <2> QED BY <1>0, <2>1, <2>2, <2>3, InsertFutures, ParkFutures DEF item
<1>2. ASSUME NEW t \in Producers, PutResume(t) PROVE FutureInv'
  <2>1. slot[t] \in Items /\ pc[t] = "put_woken"
    BY <1>0, <1>2 DEF PutResume, FutureInv, SlotHeld
  <2> QED BY <1>0, <1>2, <2>1, InsertFutures, ParkFutures DEF PutResume
<1>3. ASSUME NEW t \in Consumers, GetNow(t) PROVE FutureInv'
  <2>1. Rest(queue) \in Seq(Items)
    BY <1>3, RestProperties DEF GetNow, QueueTypeOK
  <2> DEFINE tk == Count(taken, NextItem(queue))
  <2>2. Wakeup(Rest(queue), pc, slot, tk)
    BY <1>3 DEF GetNow
  <2> HIDE DEF tk
  <2>3. pc \in [Tasks -> States] /\ slot \in [Tasks -> Items \cup {NoItem}]
    BY DEF QueueTypeOK
  <2> QED BY <2>1, <2>2, <2>3, WakeupFutures DEF FutureInv, SlotHeld
<1>4. ASSUME NEW t \in Consumers, GetWait(t) PROVE FutureInv'
  <2>1. /\ t \in Tasks /\ t # Done /\ pc[t] = "idle" /\ UNCHANGED <<putters, slot>>
        /\ pc' = [pc EXCEPT ![t] = "get_wait"]
        /\ getters' = Append(getters, t)
    BY <1>0, <1>4, QueueAssumption DEF GetWait
  <2>2. /\ Len(getters') = Len(getters) + 1
        /\ \A i \in 1..Len(getters) : getters'[i] = getters[i]
        /\ getters'[Len(getters) + 1] = t
    BY <2>1, AppendProperties DEF QueueTypeOK
  <2>3. LiveGetters' = LiveGetters \cup {Len(getters) + 1}
    BY <1>0, <2>1, <2>2 DEF LiveGetters
  <2>4. \A i \in LiveGetters : getters'[i] = getters[i] /\ getters[i] # t
                               /\ i # Len(getters) + 1
    <3>1. \A i \in LiveGetters : i \in 1..Len(getters)
      BY DEF LiveGetters
    <3>2. \A i \in LiveGetters : getters[i] # t
      BY <2>1 DEF FutureInv, OneFuturePerTask
    <3> QED BY <1>0, <2>2, <3>1, <3>2
  <2>5. \A i, j \in LiveGetters' : getters'[i] = getters'[j] => i = j
    BY <2>2, <2>3, <2>4 DEF FutureInv, OneFuturePerTask
  <2>6. \A u \in Tasks : pc'[u] = "get_wait" <=> \E i \in LiveGetters' : getters'[i] = u
    <3> TAKE u \in Tasks
    <3>1. CASE u = t
      BY <2>1, <2>2, <2>3, <3>1 DEF QueueTypeOK
    <3>2. CASE u # t
      <4>1. pc'[u] = pc[u]
        BY <2>1, <3>2 DEF QueueTypeOK
      <4>2. (\E i \in LiveGetters' : getters'[i] = u) <=> \E i \in LiveGetters : getters[i] = u
        BY <2>2, <2>3, <2>4, <3>2
      <4> QED BY <4>1, <4>2 DEF FutureInv, OneFuturePerTask
    <3> QED BY <3>1, <3>2
  <2>7. \A u \in Tasks : pc'[u] = "put_wait" <=> pc[u] = "put_wait"
    BY <2>1 DEF QueueTypeOK
  <2>8. LivePutters' = LivePutters
    BY <2>1 DEF LivePutters
  <2>9. SlotHeld'
    BY <2>1 DEF QueueTypeOK, FutureInv, SlotHeld
  <2>10. /\ \A i, j \in LivePutters' : putters'[i].task = putters'[j].task => i = j
         /\ \A u \in Tasks : pc'[u] = "put_wait" <=> \E i \in LivePutters' : putters'[i].task = u
    BY <2>1, <2>7, <2>8 DEF FutureInv, OneFuturePerTask
  <2> QED BY <2>5, <2>6, <2>9, <2>10 DEF FutureInv, OneFuturePerTask
<1>5. ASSUME UNCHANGED <<getters, putters>>,
             \A u \in Tasks : /\ pc'[u] = "put_wait" <=> pc[u] = "put_wait"
                              /\ pc'[u] = "get_wait" <=> pc[u] = "get_wait"
                              /\ pc'[u] = "put_woken" => pc[u] = "put_woken"
                              /\ pc'[u] \in {"put_wait", "put_woken"} => slot'[u] = slot[u]
      PROVE  FutureInv'
  <2>1. LiveGetters' = LiveGetters /\ LivePutters' = LivePutters
    BY <1>5 DEF LiveGetters, LivePutters
  <2>2. OneFuturePerTask'
    BY <1>5, <2>1 DEF FutureInv, OneFuturePerTask
  <2>3. SlotHeld'
    BY <1>5 DEF FutureInv, SlotHeld
  <2> QED BY <2>2, <2>3 DEF FutureInv
<1>6. ASSUME NEW t \in Consumers, GetResume(t) PROVE FutureInv'
  BY <1>0, <1>5, <1>6 DEF GetResume, QueueTypeOK
<1>7. ASSUME NEW t \in Joiners, Join(t) PROVE FutureInv'
  BY <1>0, <1>5, <1>7 DEF Join, QueueTypeOK
<1>8. ASSUME TaskDone PROVE FutureInv'
  BY <1>5, <1>8 DEF TaskDone, QueueTypeOK
<1>9. ASSUME NEW t \in Tasks, CancelTask(t) PROVE FutureInv'
  BY <1>9, CancelFutures
<1>10. ASSUME UNCHANGED queueVars PROVE FutureInv'
  BY <1>5, <1>10 DEF queueVars
<1> QED BY <1>1, <1>2, <1>3, <1>4, <1>6, <1>7, <1>8, <1>9, <1>10 DEF QueueNext

-----------------------------------------------------------------------------
(* The items of an unbounded queue and the work it counts. *)

\* The items of q are some of the first n that were put, each of them once, and
\* where the class does not order them by priority they are in that order.
Ordered(k, q, n) ==
  /\ q \in Seq(Items)
  /\ \A i \in 1..Len(q) : q[i].count \in 1..n
  /\ \A i, j \in 1..Len(q) : q[i].count = q[j].count => i = j
  /\ k # "priority" => \A i, j \in 1..Len(q) : i < j => q[i].count < q[j].count

\* Of those n items, the ones that are not in q were taken once.
Accounted(q, tk, n) ==
  \A m \in 1..MaxPuts :
    tk[m] = IF m <= n /\ ~(\E i \in 1..Len(q) : q[i].count = m) THEN 1 ELSE 0

Woken(f) == {t \in Tasks : f[t] = "get_woken"}
NoPutWaits(f) == \A t \in Tasks : f[t] \notin {"put_wait", "put_woken"}

\* What makes ExactlyOnce and WorkAccounted inductive.
WorkInv ==
  Unbounded =>
    /\ putters = <<>> /\ NoPutWaits(pc)
    /\ Ordered(kind, queue, count) /\ Accounted(queue, taken, count)
    /\ unfinished >= Len(queue) + owed + Cardinality(Woken(pc))
    /\ (finished <=> unfinished = 0)

\* put() adds the item that was made last.
LEMMA AppendOrdered ==
  ASSUME NEW q, NEW tk, NEW n \in Nat, Ordered(kind, q, n), Accounted(q, tk, n),
         NEW item \in Items, item.count = n + 1
  PROVE  /\ Ordered(kind, Append(q, item), n + 1) /\ Accounted(Append(q, item), tk, n + 1)
         /\ Len(Append(q, item)) = Len(q) + 1
<1> DEFINE a == Append(q, item)
<1>1. /\ q \in Seq(Items) /\ a \in Seq(Items) /\ Len(a) = Len(q) + 1 /\ Len(q) \in Nat
      /\ \A i \in 1..Len(q) : a[i] = q[i]
      /\ a[Len(q) + 1] = item
  BY AppendProperties, LenProperties DEF Ordered
<1> HIDE DEF a
<1>2. \A i \in 1..Len(a) : i \in 1..Len(q) \/ i = Len(q) + 1
  BY <1>1
<1>3. \A i \in 1..Len(q) : a[i].count = q[i].count /\ q[i].count \in 1..n
  BY <1>1 DEF Ordered
<1>4. \A i \in 1..Len(a) : a[i].count \in 1..n + 1
  BY <1>1, <1>2, <1>3
<1>5. ASSUME NEW i \in 1..Len(a), NEW j \in 1..Len(a), a[i].count = a[j].count
      PROVE  i = j
  <2>1. CASE i \in 1..Len(q) /\ j \in 1..Len(q)
    BY <1>3, <1>5, <2>1 DEF Ordered
  <2>2. CASE ~(i \in 1..Len(q) /\ j \in 1..Len(q))
    <3>1. \A m \in 1..n : m # n + 1
      OBVIOUS
    <3> QED BY <1>1, <1>2, <1>3, <1>5, <2>2, <3>1
  <2> QED BY <2>1, <2>2
<1>6. ASSUME kind # "priority", NEW i \in 1..Len(a), NEW j \in 1..Len(a), i < j
      PROVE  a[i].count < a[j].count
  <2>1. i \in 1..Len(q)
    BY <1>1, <1>6
  <2>2. CASE j \in 1..Len(q)
    BY <1>3, <1>6, <2>1, <2>2 DEF Ordered
  <2>3. CASE j = Len(q) + 1
    BY <1>1, <1>3, <2>1, <2>3
  <2> QED BY <1>2, <2>2, <2>3
<1>7. ASSUME NEW m \in 1..MaxPuts
      PROVE  tk[m] = IF m <= n + 1 /\ ~(\E i \in 1..Len(a) : a[i].count = m) THEN 1 ELSE 0
  <2>1. tk[m] = IF m <= n /\ ~(\E i \in 1..Len(q) : q[i].count = m) THEN 1 ELSE 0
    BY DEF Accounted
  <2>2. CASE m = n + 1
    <3>1. Len(q) + 1 \in 1..Len(a)
      BY <1>1
    <3> QED BY <1>1, <2>1, <2>2, <3>1
  <2>3. CASE m # n + 1
    <3>1. (\E i \in 1..Len(a) : a[i].count = m) <=> (\E i \in 1..Len(q) : q[i].count = m)
      <4>1. \A i \in 1..Len(q) : i \in 1..Len(a)
        BY <1>1
      <4> QED BY <1>1, <1>2, <1>3, <2>3, <4>1
    <3>2. m <= n + 1 <=> m <= n
      BY <2>3
    <3> QED BY <2>1, <3>1, <3>2
  <2> QED BY <2>2, <2>3
<1> QED BY <1>1, <1>4, <1>5, <1>6, <1>7 DEF Ordered, Accounted, a

\* _get() takes one item, before any it leaves.
LEMMA RestOrdered ==
  ASSUME NEW q, NEW tk \in [1..MaxPuts -> 0..2], NEW n, Ordered(kind, q, n), Accounted(q, tk, n), q # <<>>,
         kind \in Kinds
  PROVE  /\ Ordered(kind, Rest(q), n) /\ Accounted(Rest(q), Count(tk, NextItem(q)), n)
         /\ Len(Rest(q)) = Len(q) - 1
         /\ \A j \in 1..Len(Rest(q)) : ServedBefore(NextItem(q), Rest(q)[j])
<1> DEFINE k == NextIndex(q)
           r == Rest(q)
           up(j) == IF j < k THEN j ELSE j + 1
<1>1. q \in Seq(Items) /\ k \in 1..Len(q) /\ Len(q) \in Nat
  BY NextIndexInRange, LenProperties DEF Ordered
<1>2. NextItem(q) = q[k] /\ q[k] \in Items /\ \A i \in 1..Len(q) : q[i] \in Items
  BY <1>1, ElementOfSeq DEF NextItem
<1>3. /\ r \in Seq(Items) /\ Len(r) = Len(q) - 1
      /\ \A j \in 1..Len(q) - 1 : r[j] = IF j < k THEN q[j] ELSE q[j + 1]
  <2>1. r = RemoveAt(q, k)
    BY DEF Rest
  <2> HIDE DEF k, r
  <2> QED BY <1>1, <2>1, RemoveAtProperties
<1>0. kind = "priority" => \A j \in 1..Len(q) : q[k] = q[j] \/ Before(q[k], q[j])
  <2> SUFFICES ASSUME kind = "priority"
               PROVE  \A j \in 1..Len(q) : q[k] = q[j] \/ Before(q[k], q[j])
    OBVIOUS
  <2>1. k = CHOOSE i \in 1..Len(q) : \A j \in 1..Len(q) : q[i] = q[j] \/ Before(q[i], q[j])
    BY DEF NextIndex
  <2>2. \E i \in 1..Len(q) : \A j \in 1..Len(q) : q[i] = q[j] \/ Before(q[i], q[j])
    BY <1>1, LeastItem
  <2> HIDE DEF k
  <2> QED BY <2>1, <2>2
<1>a. /\ kind = "fifo" => k = 1
      /\ kind = "lifo" => k = Len(q)
  BY DEF NextIndex
<1> HIDE DEF k, r
<1>4. \A j \in 1..Len(r) : up(j) \in 1..Len(q) /\ up(j) # k /\ r[j] = q[up(j)]
  BY <1>1, <1>3
<1>5. \A i, j \in 1..Len(r) : /\ i < j => up(i) < up(j)
                              /\ up(i) = up(j) => i = j
  BY <1>1, <1>3
<1>6. \A i \in 1..Len(q) : i # k => \E j \in 1..Len(r) : r[j] = q[i]
  <2> TAKE i \in 1..Len(q)
  <2>1. CASE i < k
    <3>1. i \in 1..Len(r) /\ up(i) = i
      BY <1>1, <1>3, <2>1
    <3> QED BY <1>4, <3>1
  <2>2. CASE i > k
    <3>1. i - 1 \in 1..Len(r) /\ up(i - 1) = i
      BY <1>1, <1>3, <2>2
    <3> QED BY <1>4, <3>1
  <2> QED BY <1>1, <2>1, <2>2
<1> HIDE DEF up
<1>7. Ordered(kind, r, n)
  <2>1. \A i \in 1..Len(r) : r[i].count \in 1..n
    BY <1>4 DEF Ordered
  <2>2. \A i, j \in 1..Len(r) : r[i].count = r[j].count => i = j
    BY <1>4, <1>5 DEF Ordered
  <2>3. kind # "priority" => \A i, j \in 1..Len(r) : i < j => r[i].count < r[j].count
    BY <1>4, <1>5 DEF Ordered
  <2> QED BY <1>3, <2>1, <2>2, <2>3 DEF Ordered
<1>8. Accounted(r, Count(tk, q[k]), n)
  <2> SUFFICES ASSUME NEW m \in 1..MaxPuts
               PROVE  Count(tk, q[k])[m]
                        = IF m <= n /\ ~(\E i \in 1..Len(r) : r[i].count = m) THEN 1 ELSE 0
    BY DEF Accounted
  <2>1. tk[m] = IF m <= n /\ ~(\E i \in 1..Len(q) : q[i].count = m) THEN 1 ELSE 0
    BY DEF Accounted
  <2>2. q[k].count \in 1..MaxPuts /\ q[k].count \in 1..n
    BY <1>1, <1>2 DEF Items, Ordered
  <2>3. CASE m = q[k].count
    <3>1. \A j \in 1..Len(r) : r[j].count # m
      BY <1>1, <1>4, <2>3 DEF Ordered
    <3>2. tk[m] = 0 /\ m <= n
      BY <1>1, <2>1, <2>2, <2>3
    <3>3. Count(tk, q[k])[m] = 1
      BY <2>2, <2>3, <3>2 DEF Count
    <3> QED BY <3>1, <3>2, <3>3
  <2>4. CASE m # q[k].count
    <3>1. Count(tk, q[k])[m] = tk[m]
      BY <2>2, <2>4 DEF Count
    <3>2. (\E i \in 1..Len(r) : r[i].count = m) <=> (\E i \in 1..Len(q) : q[i].count = m)
      BY <1>4, <1>6, <2>4
    <3> QED BY <2>1, <3>1, <3>2
  <2> QED BY <2>3, <2>4
<1>9. \A j \in 1..Len(r) : ServedBefore(q[k], r[j])
  <2> TAKE j \in 1..Len(r)
  <2>1. up(j) \in 1..Len(q) /\ up(j) # k /\ r[j] = q[up(j)]
    BY <1>4
  <2>2. CASE kind = "fifo"
    BY <1>1, <1>a, <2>1, <2>2 DEF Ordered, ServedBefore
  <2>3. CASE kind = "lifo"
    <3>1. up(j) < k
      BY <1>1, <1>a, <2>1, <2>3
    <3>2. q[up(j)].count < q[k].count
      BY <1>1, <2>1, <2>3, <3>1 DEF Ordered
    <3> QED BY <1>2, <2>1, <2>3, <3>2 DEF ServedBefore, Items
  <2>4. CASE kind = "priority"
    <3>1. q[k] # q[up(j)]
      BY <1>1, <2>1 DEF Ordered
    <3> QED BY <1>0, <2>1, <2>4, <3>1 DEF ServedBefore
  <2> QED BY <2>2, <2>3, <2>4 DEF Kinds
<1> QED BY <1>2, <1>3, <1>7, <1>8, <1>9 DEF r

\* The tasks that were handed an item are finitely many.
LEMMA WokenCount ==
  ASSUME NEW f, NEW t \in Tasks
  PROVE  /\ Cardinality(Woken(f)) \in Nat
         /\ Cardinality(Woken(f) \cup {t}) <= Cardinality(Woken(f)) + 1
         /\ t \in Woken(f) => Cardinality(Woken(f) \ {t}) = Cardinality(Woken(f)) - 1
         /\ \A g : Woken(g) \subseteq Woken(f) => Cardinality(Woken(g)) <= Cardinality(Woken(f))
<1>1. \A g : IsFiniteSet(Woken(g)) /\ Cardinality(Woken(g)) \in Nat
  BY QueueAssumption, FS_Subset, FS_CardinalityType DEF Woken
<1>2. Cardinality(Woken(f) \cup {t}) <= Cardinality(Woken(f)) + 1
  <2>1. t \notin Woken(f) => Cardinality(Woken(f) \cup {t}) = Cardinality(Woken(f)) + 1
    BY <1>1, FS_AddElement
  <2>2. t \in Woken(f) => Woken(f) \cup {t} = Woken(f)
    OBVIOUS
  <2> QED BY <1>1, <2>1, <2>2
<1>3. t \in Woken(f) => Cardinality(Woken(f) \ {t}) = Cardinality(Woken(f)) - 1
  BY <1>1, FS_RemoveElement
<1>4. \A g : Woken(g) \subseteq Woken(f) => Cardinality(Woken(g)) <= Cardinality(Woken(f))
  BY <1>1, FS_Subset
<1> QED BY <1>1, <1>2, <1>3, <1>4

\* An unbounded queue is never full.
LEMMA NeverFull == QueueTypeOK => \A q : Unbounded => ~Full(q)
BY QueueAssumption DEF QueueTypeOK, Unbounded, Full

\* _wakeup_next_waiter of an unbounded queue hands an item to a getter, or does
\* nothing; nobody waits in put().
LEMMA WakeupWork ==
  ASSUME QueueTypeOK, Unbounded, putters = <<>>,
         NEW STATE q, NEW STATE n, NEW STATE pcs, NEW STATE slots,
         NEW STATE tk, tk \in [1..MaxPuts -> 0..2],
         pcs \in [Tasks -> States], NoPutWaits(pcs),
         Ordered(kind, q, n), Accounted(q, tk, n),
         Wakeup(q, pcs, slots, tk)
  PROVE  /\ putters' = <<>> /\ NoPutWaits(pc')
         /\ Ordered(kind, queue', n) /\ Accounted(queue', taken', n)
         /\ Len(queue') + Cardinality(Woken(pc')) <= Len(q) + Cardinality(Woken(pcs))
<1>0. /\ kind \in Kinds /\ LivePutters = {} /\ ~Full(q) /\ q \in Seq(Items)
      /\ Len(q) \in Nat
  BY EmptySeq, NeverFull, LenProperties DEF QueueTypeOK, LivePutters, Ordered
<1>1. CASE WakeGetter(q, pcs, slots, tk)
  <2> DEFINE t == getters[First(LiveGetters)]
  <2>1. /\ q # <<>> /\ LiveGetters # {} /\ queue' = Rest(q) /\ taken' = Count(tk, NextItem(q))
        /\ pc' = [pcs EXCEPT ![t] = "get_woken"] /\ putters' = <<>>
    BY <1>0, <1>1 DEF WakeGetter
  <2>2. t \in Tasks
    BY <2>1, LiveTasks DEF Tasks
  <2> HIDE DEF t
  <2>3. NoPutWaits(pc')
    BY <2>1, <2>2 DEF NoPutWaits
  <2>4. /\ Ordered(kind, Rest(q), n) /\ Accounted(Rest(q), Count(tk, NextItem(q)), n)
        /\ Len(Rest(q)) = Len(q) - 1
    BY <1>0, <2>1, RestOrdered
  <2>5. Cardinality(Woken(pc')) <= Cardinality(Woken(pcs)) + 1 /\ Cardinality(Woken(pcs)) \in Nat
    <3>1. Woken(pc') = Woken(pcs) \cup {t}
      BY <2>1, <2>2 DEF Woken
    <3> QED BY <2>2, <3>1, WokenCount
  <2>6. Cardinality(Woken(pc')) \in Nat
    BY <2>2, WokenCount
  <2>7. Len(queue') + Cardinality(Woken(pc')) <= Len(q) + Cardinality(Woken(pcs))
    BY <1>0, <2>1, <2>4, <2>5, <2>6
  <2> QED BY <2>1, <2>3, <2>4, <2>7
<1>2. CASE WakeNobody(q, pcs, slots, tk)
  <2>1. queue' = q /\ pc' = pcs /\ taken' = tk /\ putters' = <<>>
    BY <1>0, <1>2 DEF WakeNobody
  <2>2. Cardinality(Woken(pcs)) \in Nat
    BY QueueAssumption, FS_Subset, FS_CardinalityType DEF Woken
  <2> QED BY <1>0, <2>1, <2>2
<1> QED BY <1>0, <1>1, <1>2 DEF Wakeup, WakePutter

\* No step of an unbounded queue loses an item or its account.
LEMMA StepWork == QueueTypeOK /\ WorkInv /\ [QueueNext]_queueVars => WorkInv'
<1> SUFFICES ASSUME QueueTypeOK, WorkInv, [QueueNext]_queueVars, Unbounded'
             PROVE  /\ putters' = <<>> /\ NoPutWaits(pc')
                    /\ Ordered(kind', queue', count') /\ Accounted(queue', taken', count')
                    /\ unfinished' >= Len(queue') + owed' + Cardinality(Woken(pc'))
                    /\ (finished' <=> unfinished' = 0)
  BY DEF WorkInv
<1>0. UNCHANGED <<maxsize, kind>>
  BY DEF QueueNext, queueVars, Put, PutResume, Insert, Park, GetNow, GetWait, GetResume, Join, TaskDone, CancelTask
<1>1. /\ Unbounded /\ putters = <<>> /\ NoPutWaits(pc)
      /\ Ordered(kind, queue, count) /\ Accounted(queue, taken, count)
      /\ unfinished >= Len(queue) + owed + Cardinality(Woken(pc))
      /\ (finished <=> unfinished = 0)
  BY <1>0 DEF WorkInv, Unbounded
<1>2. /\ queue \in Seq(Items) /\ Len(queue) \in Nat /\ pc \in [Tasks -> States]
      /\ taken \in [1..MaxPuts -> 0..2] /\ unfinished \in Nat /\ owed \in Nat
      /\ count \in 0..MaxPuts /\ count \in Nat /\ kind \in Kinds
      /\ Producers \subseteq Tasks /\ Consumers \subseteq Tasks /\ Joiners \subseteq Tasks
  BY QueueAssumption, LenProperties DEF QueueTypeOK, Tasks
<1>3. Cardinality(Woken(pc)) \in Nat /\ Cardinality(Woken(pc')) \in Nat
  BY QueueAssumption, FS_Subset, FS_CardinalityType DEF Woken
<1>4. ASSUME NEW t \in Producers, Put(t)
      PROVE  /\ putters' = <<>> /\ NoPutWaits(pc')
             /\ Ordered(kind', queue', count') /\ Accounted(queue', taken', count')
             /\ unfinished' >= Len(queue') + owed' + Cardinality(Woken(pc'))
             /\ (finished' <=> unfinished' = 0)
  <2>1. PICK p \in IF kind = "priority" THEN Priorities ELSE {0} :
          ~Full(queue) /\ Insert(t, [priority |-> p, count |-> count + 1])
    BY <1>1, <1>4, NeverFull DEF Put
  <2> DEFINE item == [priority |-> p, count |-> count + 1]
             q == Append(queue, item)
             pcs == [pc EXCEPT ![t] = "idle"]
             slots == [slot EXCEPT ![t] = NoItem]
  <2>2. item \in Items /\ item.count = count + 1 /\ count' = count + 1
    BY <1>4, QueueAssumption DEF Put, QueueTypeOK, Items
  <2>3. /\ unfinished' = unfinished + 1 /\ finished' = FALSE /\ owed' = owed
        /\ Wakeup(q, pcs, slots, taken) /\ pc[t] = "idle"
    BY <1>4, <2>1 DEF Insert, Put
  <2> HIDE DEF item
  <2>4. /\ Ordered(kind, q, count + 1) /\ Accounted(q, taken, count + 1)
        /\ Len(q) = Len(queue) + 1
    BY <1>1, <1>2, <2>2, AppendOrdered
  <2>5. /\ pcs \in [Tasks -> States] /\ NoPutWaits(pcs) /\ Woken(pcs) = Woken(pc)
    BY <1>1, <1>2, <2>3 DEF NoPutWaits, Woken, States
  <2> HIDE DEF q, pcs, slots
  <2> DEFINE n == count + 1
  <2>6. /\ putters' = <<>> /\ NoPutWaits(pc')
        /\ Ordered(kind, queue', n) /\ Accounted(queue', taken', n)
        /\ Len(queue') + Cardinality(Woken(pc')) <= Len(q) + Cardinality(Woken(pcs))
    <3> HIDE DEF n
    <3> QED BY <1>1, <1>2, <2>3, <2>4, <2>5, WakeupWork DEF n
  <2>7. Len(queue') \in Nat
    BY <2>6, LenProperties DEF Ordered
  <2>8. unfinished' >= Len(queue') + owed' + Cardinality(Woken(pc'))
    BY <1>1, <1>2, <1>3, <2>3, <2>4, <2>5, <2>6, <2>7
  <2>9. (finished' <=> unfinished' = 0)
    BY <1>2, <2>3
  <2> QED BY <1>0, <2>2, <2>6, <2>8, <2>9
<1>5. ASSUME NEW t \in Producers, PutResume(t) PROVE FALSE
  BY <1>1, <1>2, <1>5 DEF PutResume, NoPutWaits
<1>6. ASSUME NEW t \in Consumers, GetNow(t)
      PROVE  /\ putters' = <<>> /\ NoPutWaits(pc')
             /\ Ordered(kind', queue', count') /\ Accounted(queue', taken', count')
             /\ unfinished' >= Len(queue') + owed' + Cardinality(Woken(pc'))
             /\ (finished' <=> unfinished' = 0)
  <2> DEFINE q == Rest(queue)
             tk == Count(taken, NextItem(queue))
  <2>1. /\ queue # <<>> /\ Wakeup(q, pc, slot, tk) /\ owed' = owed + 1
        /\ UNCHANGED <<unfinished, finished, count>>
    BY <1>6 DEF GetNow
  <2>2. /\ Ordered(kind, q, count) /\ Accounted(q, tk, count) /\ Len(q) = Len(queue) - 1
    BY <1>1, <1>2, <2>1, RestOrdered
  <2>3. tk \in [1..MaxPuts -> 0..2]
    BY <1>2, <2>1, RestProperties, CountType
  <2> HIDE DEF q, tk
  <2>4. /\ putters' = <<>> /\ NoPutWaits(pc')
        /\ Ordered(kind, queue', count) /\ Accounted(queue', taken', count)
        /\ Len(queue') + Cardinality(Woken(pc')) <= Len(q) + Cardinality(Woken(pc))
    BY <1>1, <1>2, <2>1, <2>2, <2>3, WakeupWork
  <2>5. Len(queue') \in Nat
    BY <2>4, LenProperties DEF Ordered
  <2>6. unfinished' >= Len(queue') + owed' + Cardinality(Woken(pc'))
    BY <1>1, <1>2, <1>3, <2>1, <2>2, <2>4, <2>5
  <2> QED BY <1>0, <1>1, <2>1, <2>4, <2>6
<1>7. ASSUME NEW t \in Consumers, GetWait(t)
      PROVE  /\ UNCHANGED <<putters, queue, count, taken, unfinished, finished, owed>>
             /\ NoPutWaits(pc') /\ Woken(pc') = Woken(pc)
  BY <1>1, <1>2, <1>7 DEF GetWait, NoPutWaits, Woken
<1>8. ASSUME NEW t \in Consumers, GetResume(t)
      PROVE  /\ UNCHANGED <<putters, queue, count, taken, unfinished, finished>>
             /\ NoPutWaits(pc')
             /\ owed' + Cardinality(Woken(pc')) = owed + Cardinality(Woken(pc)) /\ owed' \in Nat
  <2>1. /\ pc[t] = "get_woken" /\ pc' = [pc EXCEPT ![t] = "idle"] /\ owed' = owed + 1
        /\ UNCHANGED <<putters, queue, count, taken, unfinished, finished>>
    BY <1>8 DEF GetResume
  <2>2. NoPutWaits(pc') /\ Woken(pc') = Woken(pc) \ {t} /\ t \in Woken(pc) /\ t \in Tasks
    BY <1>1, <1>2, <2>1 DEF NoPutWaits, Woken
  <2>3. Cardinality(Woken(pc')) = Cardinality(Woken(pc)) - 1
    BY <2>2, WokenCount
  <2> QED BY <1>2, <1>3, <2>1, <2>2, <2>3
<1>9. ASSUME NEW t \in Joiners, Join(t)
      PROVE  /\ UNCHANGED <<putters, queue, count, taken, unfinished, finished, owed>>
             /\ NoPutWaits(pc') /\ Woken(pc') = Woken(pc)
  BY <1>1, <1>2, <1>9 DEF Join, NoPutWaits, Woken
<1>10. ASSUME NEW t \in Tasks, CancelTask(t)
       PROVE  /\ UNCHANGED <<queue, count, taken, unfinished, finished, owed>>
              /\ putters' = <<>>
              /\ NoPutWaits(pc') /\ Woken(pc') \subseteq Woken(pc)
  <2>1. /\ UNCHANGED <<queue, count, taken, unfinished, finished, owed>>
        /\ pc' = [pc EXCEPT ![t] = "idle"]
    BY <1>10 DEF CancelTask
  <2>2. putters' = <<>>
    <3>1. putters' = [i \in 1..0 |-> IF putters[i].task = t THEN [putters[i] EXCEPT !.task = Done]
                                     ELSE putters[i]]
      BY <1>1, <1>10, EmptySeq DEF CancelTask
    <3>2. putters' \in Seq({})
      BY <3>1
    <3> QED BY <3>2, EmptySeq
  <2> QED BY <1>1, <1>2, <2>1, <2>2 DEF NoPutWaits, Woken
<1>11. ASSUME TaskDone
       PROVE  /\ UNCHANGED <<putters, queue, count, taken>>
              /\ NoPutWaits(pc') /\ Woken(pc') = Woken(pc)
              /\ owed > 0 /\ owed' = owed - 1 /\ unfinished > 0 /\ unfinished' = unfinished - 1
              /\ (finished' <=> unfinished' = 0)
  <2>1. /\ UNCHANGED <<putters, queue, count, taken>> /\ owed > 0 /\ owed' = owed - 1
    BY <1>11 DEF TaskDone
  <2>2. unfinished > 0
    BY <1>1, <1>2, <1>3, <2>1
  <2>3. /\ unfinished' = unfinished - 1 /\ finished' = (finished \/ unfinished = 1)
        /\ pc' = [t \in Tasks |->
                    IF pc[t] = "join_wait" /\ unfinished = 1 THEN "idle" ELSE pc[t]]
    BY <1>11, <2>2 DEF TaskDone
  <2>4. NoPutWaits(pc') /\ Woken(pc') = Woken(pc)
    BY <1>1, <1>2, <2>3 DEF NoPutWaits, Woken
  <2>5. (finished' <=> unfinished' = 0)
    <3>1. ~finished /\ (unfinished' = 0 <=> unfinished = 1)
      BY <1>1, <1>2, <2>2, <2>3
    <3> QED BY <2>3, <3>1
  <2> QED BY <2>1, <2>2, <2>3, <2>4, <2>5
<1>12. ASSUME UNCHANGED queueVars
       PROVE  /\ UNCHANGED <<putters, queue, count, taken, unfinished, finished, owed>>
              /\ NoPutWaits(pc') /\ Woken(pc') = Woken(pc)
  BY <1>1, <1>12 DEF queueVars
<1>13. CASE /\ UNCHANGED <<queue, count, taken, unfinished, finished, owed>>
            /\ putters' = <<>> /\ NoPutWaits(pc') /\ Woken(pc') \subseteq Woken(pc)
  <2>1. Cardinality(Woken(pc')) <= Cardinality(Woken(pc))
    BY <1>13, QueueAssumption, FS_Subset DEF Woken
  <2> QED BY <1>0, <1>1, <1>2, <1>3, <1>13, <2>1
<1>14. CASE \E t \in Consumers : GetResume(t)
  <2>1. PICK t \in Consumers : GetResume(t)
    BY <1>14
  <2>2. /\ UNCHANGED <<putters, queue, count, taken, unfinished, finished>>
        /\ NoPutWaits(pc') /\ owed' \in Nat
        /\ owed' + Cardinality(Woken(pc')) = owed + Cardinality(Woken(pc))
    BY <1>8, <2>1
  <2>3. unfinished >= Len(queue) + owed' + Cardinality(Woken(pc'))
    BY <1>1, <1>2, <1>3, <2>2
  <2> QED BY <1>0, <1>1, <2>2, <2>3
<1>15. CASE TaskDone
  <2>1. unfinished' >= Len(queue') + owed' + Cardinality(Woken(pc'))
    BY <1>1, <1>2, <1>3, <1>11, <1>15
  <2> QED BY <1>0, <1>1, <1>11, <1>15, <2>1
<1> QED BY <1>1, <1>4, <1>5, <1>6, <1>7, <1>9, <1>10, <1>12, <1>13, <1>14, <1>15 DEF QueueNext

\* Only a get() that does not wait takes a queued item: whoever waited in get()
\* found the queue empty.
LEMMA StepServes ==
  QueueTypeOK /\ RoomInv /\ WorkInv /\ [QueueNext]_queueVars =>
    (Unbounded =>
       \A i \in 1..Len(queue) :
         taken'[queue[i].count] > taken[queue[i].count] =>
           \A j \in 1..Len(queue') : ServedBefore(queue[i], queue'[j]))
<1> SUFFICES ASSUME QueueTypeOK, RoomInv, WorkInv, [QueueNext]_queueVars, Unbounded, NEW i \in 1..Len(queue),
                    taken'[queue[i].count] > taken[queue[i].count],
                    NEW j \in 1..Len(queue')
             PROVE  ServedBefore(queue[i], queue'[j])
  OBVIOUS
<1>1. /\ queue \in Seq(Items) /\ queue[i] \in Items /\ queue # <<>> /\ kind \in Kinds
      /\ taken \in [1..MaxPuts -> 0..2] /\ queue[i].count \in 1..MaxPuts
      /\ taken[queue[i].count] \in 0..2 /\ Len(queue) \in Nat
      /\ putters = <<>> /\ LivePutters = {} /\ NoPutWaits(pc)
      /\ Ordered(kind, queue, count) /\ Accounted(queue, taken, count)
  <2>1. /\ queue \in Seq(Items) /\ kind \in Kinds /\ taken \in [1..MaxPuts -> 0..2]
        /\ putters = <<>> /\ NoPutWaits(pc)
        /\ Ordered(kind, queue, count) /\ Accounted(queue, taken, count)
    BY DEF QueueTypeOK, WorkInv
  <2>2. Len(queue) \in Nat /\ queue # <<>> /\ queue[i] \in Items /\ LivePutters = {}
    BY <2>1, EmptySeq, ElementOfSeq, LenProperties DEF LivePutters
  <2>3. queue[i].count \in 1..MaxPuts
    BY <2>2 DEF Items
  <2> QED BY <2>1, <2>2, <2>3
<1>2. LiveGetters = {} /\ taken' # taken
  <2>1. \A m \in 0..2 : ~(m > m)
    OBVIOUS
  <2>2. taken' # taken
    BY <1>1, <2>1
  <2> QED BY <1>1, <2>2 DEF RoomInv, NoLostWakeup
<1>3. ASSUME NEW q, NEW pcs, NEW slots, NEW tk, Wakeup(q, pcs, slots, tk)
      PROVE  taken' = tk /\ queue' = q
  BY <1>1, <1>2, <1>3 DEF Wakeup, WakePutter, WakeGetter, WakeNobody
<1>4. ASSUME NEW t \in Tasks, NEW item, Insert(t, item) PROVE FALSE
  BY <1>2, <1>3, <1>4 DEF Insert
<1>5. PICK t \in Consumers : GetNow(t)
  BY <1>1, <1>2, <1>4, NeverFull
     DEF QueueNext, queueVars, Put, PutResume, GetWait, GetResume, Join, TaskDone, CancelTask, Tasks
<1>6. taken' = Count(taken, NextItem(queue)) /\ queue' = Rest(queue)
  BY <1>3, <1>5 DEF GetNow
<1>7. /\ NextIndex(queue) \in 1..Len(queue) /\ NextItem(queue) \in Items
      /\ NextItem(queue) = queue[NextIndex(queue)]
  BY <1>1, NextIndexInRange, RestProperties DEF NextItem
<1>8. queue[i].count = NextItem(queue).count
  <2> DEFINE item == NextItem(queue)
  <2> HIDE DEF item
  <2>1. item.count \in 1..MaxPuts
    BY <1>7 DEF Items, item
  <2>2. queue[i].count # item.count => Count(taken, item)[queue[i].count] = taken[queue[i].count]
    BY <1>1, <2>1 DEF Count
  <2>3. queue[i].count = item.count
    BY <1>1, <1>6, <2>2 DEF item
  <2> QED BY <2>3 DEF item
<1>9. queue[i] = NextItem(queue)
  BY <1>1, <1>7, <1>8 DEF Ordered
<1> QED BY <1>1, <1>6, <1>9, RestOrdered

-----------------------------------------------------------------------------
(* The theorems. *)

IInv == QueueTypeOK /\ FutureInv /\ RoomInv /\ WorkInv

\* A new queue satisfies the inductive invariant.
LEMMA InitIInv == QueueInit => IInv
<1> SUFFICES ASSUME QueueInit PROVE IInv
  OBVIOUS
<1>1. LiveGetters = {} /\ LivePutters = {}
  BY EmptySeq DEF QueueInit, LiveGetters, LivePutters
<1>2. FutureInv
  BY <1>1 DEF QueueInit, FutureInv, OneFuturePerTask, SlotHeld
<1>3. RoomInv
  <2>1. Len(queue) = 0 /\ maxsize \in Int
    BY EmptySeq, QueueAssumption DEF QueueInit
  <2> QED BY <1>1, <2>1 DEF RoomInv, Capacity, Unbounded, NoLostWakeup
<1>4. WorkInv
  <2>1. Ordered(kind, queue, count) /\ Accounted(queue, taken, count)
    <3>1. queue = <<>> /\ queue \in Seq(Items) /\ Len(queue) = 0 /\ count = 0
      BY EmptySeq DEF QueueInit
    <3>2. 1..Len(queue) = {}
      BY <3>1
    <3>3. taken = [n \in 1..MaxPuts |-> 0]
      BY DEF QueueInit
    <3> QED BY <3>1, <3>2, <3>3, QueueAssumption DEF Ordered, Accounted
  <2>2. NoPutWaits(pc) /\ Woken(pc) = {}
    BY DEF QueueInit, NoPutWaits, Woken
  <2>3. unfinished >= Len(queue) + owed + Cardinality(Woken(pc))
    <3>1. Len(queue) = 0 /\ Cardinality(Woken(pc)) = 0
      BY <2>2, EmptySeq, FS_EmptySet DEF QueueInit
    <3> QED BY <3>1 DEF QueueInit
  <2> QED BY <2>1, <2>2, <2>3 DEF WorkInv, QueueInit
<1> QED BY <1>2, <1>3, <1>4, InitType DEF IInv

\* No step of put(), get(), task_done(), join() or a cancellation breaks the
\* inductive invariant, so it holds throughout.
THEOREM Inductive == QueueSpec => []IInv
<1>1. IInv /\ [QueueNext]_queueVars => IInv'
  BY StepType, StepFutures, StepRoom, StepWork DEF IInv, FutureInv
<1> QED BY InitIInv, <1>1, PTL DEF QueueSpec

\* Every variable keeps its type, for any number of tasks and any sizes.
THEOREM TypeCorrect == QueueSpec => []QueueTypeOK
<1>1. IInv => QueueTypeOK
  BY DEF IInv
<1> QED BY <1>1, Inductive, PTL

\* A bounded queue never exceeds maxsize, although _wakeup_next_waiter inserts
\* a parked putter's item from inside a consumer's get().
THEOREM NeverOverfull == QueueSpec => []Capacity
<1>1. IInv => Capacity
  BY DEF IInv, RoomInv
<1> QED BY <1>1, Inductive, PTL

\* No task waits in get() beside an item or in put() beside a free slot: waking
\* a single waiter per operation is enough, whatever is cancelled meanwhile.
THEOREM NoWakeupIsLost == QueueSpec => []NoLostWakeup
<1>1. IInv => NoLostWakeup
  BY DEF IInv, RoomInv
<1> QED BY <1>1, Inductive, PTL

\* A waiting task has exactly one pending future and it is in the list that
\* wakes it; a task that does not wait has none.
THEOREM FuturesMatchTasks == QueueSpec => []OneFuturePerTask
<1>1. IInv => OneFuturePerTask
  BY DEF IInv, FutureInv
<1> QED BY <1>1, Inductive, PTL

\* In an unbounded queue every item that was put is queued or was taken, once:
\* handing items over past the queue loses none and duplicates none.
THEOREM ItemsTakenOnce == QueueSpec => []ExactlyOnce
<1>1. IInv => ExactlyOnce
  <2> SUFFICES ASSUME IInv, Unbounded, NEW n \in 1..count PROVE Copies(n) + taken[n] = 1
    BY DEF ExactlyOnce
  <2>1. /\ \A i, j \in 1..Len(queue) : queue[i].count = queue[j].count => i = j
        /\ n \in 1..MaxPuts
        /\ taken[n] = IF \E i \in 1..Len(queue) : queue[i].count = n THEN 0 ELSE 1
    BY QueueAssumption DEF IInv, WorkInv, Ordered, Accounted, QueueTypeOK
  <2>2. CASE \E i \in 1..Len(queue) : queue[i].count = n
    <3>1. PICK i \in 1..Len(queue) : queue[i].count = n
      BY <2>2
    <3>2. {j \in 1..Len(queue) : queue[j].count = n} = {i}
      BY <2>1, <3>1
    <3>3. Copies(n) = 1
      BY <3>2, FS_Singleton DEF Copies
    <3> QED BY <2>1, <2>2, <3>3
  <2>3. CASE ~(\E i \in 1..Len(queue) : queue[i].count = n)
    <3>1. {j \in 1..Len(queue) : queue[j].count = n} = {}
      BY <2>3
    <3>2. Copies(n) = 0
      BY <3>1, FS_EmptySet DEF Copies
    <3> QED BY <2>1, <2>3, <3>2
  <2> QED BY <2>2, <2>3
<1> QED BY <1>1, Inductive, PTL

\* In an unbounded queue the counter behind join() covers what is queued, handed
\* over and received, so that join() returns only when all of it was processed.
THEOREM JoinCoversWork == QueueSpec => []WorkAccounted
<1>1. IInv => WorkAccounted
  <2> SUFFICES ASSUME IInv, Unbounded
               PROVE  /\ unfinished >= Len(queue) + owed
                                       + Cardinality({t \in Tasks : pc[t] = "get_woken"})
                      /\ finished = (unfinished = 0)
    BY DEF WorkAccounted
  <2>1. unfinished >= Len(queue) + owed + Cardinality(Woken(pc))
    BY DEF IInv, WorkInv
  <2>2. finished \in BOOLEAN /\ (finished <=> unfinished = 0)
    BY DEF IInv, WorkInv, QueueTypeOK
  <2>3. finished = (unfinished = 0)
    BY <2>2, Zenon
  <2> QED BY <2>1, <2>3 DEF Woken
<1> QED BY <1>1, Inductive, PTL

\* An item is taken from an unbounded queue only when none is to be served
\* before it: in the order of put(), in the reverse order, or by priority.
THEOREM ItemsServedInOrder == QueueSpec => ServedInOrder
<1>1. IInv /\ [QueueNext]_queueVars =>
        [Unbounded =>
           \A i \in 1..Len(queue) :
             taken'[queue[i].count] > taken[queue[i].count] =>
               \A j \in 1..Len(queue') : ServedBefore(queue[i], queue'[j])]_queueVars
  BY StepServes DEF IInv
<1> QED BY <1>1, Inductive, PTL DEF QueueSpec, ServedInOrder
=============================================================================
