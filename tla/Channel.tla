------------------------------ MODULE Channel -------------------------------
(***************************************************************************)
(* mtaio.events.channel: a Channel, its Subscribers, and the tasks that    *)
(* subscribe, unsubscribe, publish, close and receive.                     *)
(*                                                                         *)
(* The four registry calls run under _lock and keep it while they wait for *)
(* room in a subscriber's buffer.  asyncio.Lock is fair: a call that finds *)
(* it free with nobody in line runs at once, any other call waits in line. *)
(* What precedes `async with self._lock' runs when the call is made, the   *)
(* rest when the lock is granted.                                          *)
(***************************************************************************)
EXTENDS Integers, Sequences, FiniteSets, SequencesExt

CONSTANTS Subs,            \* Subscriber objects, each returned by one subscribe()
          Topics,
          AllTopics,       \* topic=None: everybody
          None,            \* the end marker, and "nobody"
          BufferSizes,     \* values of buffer_size, 0 for unlimited
          Limits,          \* values of max_subscribers
          MaxMsgs,         \* bound: calls of publish()
          MaxUnsubs,       \* bound: calls of unsubscribe() per subscriber
          MaxCancels       \* bound: calls that are cancelled

ASSUME ChannelAssumption ==
  /\ BufferSizes \subseteq Nat /\ Limits \subseteq Nat
  /\ MaxMsgs \in Nat /\ MaxUnsubs \in Nat /\ MaxCancels \in Nat
  /\ AllTopics \notin Topics /\ None \notin Subs /\ None \notin 1..MaxMsgs

VARIABLES bufferSize, limit,
          closed,       \* Channel._closed
          subscribers,  \* Channel._subscribers
          topics,       \* Channel._topics: topic -> set of subscribers
          buffer,       \* Subscriber.queue; a message is its number
          subClosed,    \* subscribers with _closed set
          op,           \* the call that holds _lock, or None
          waiting,      \* the calls in line for _lock
          sent,         \* publish() calls so far
          called,       \* subscribers asked for with subscribe() so far
          unsubs,       \* unsubscribe() calls so far, per subscriber
          joined,       \* history: subscribers that subscribe() has returned
          promised,     \* history: message -> who it must reach
          got,          \* history: the messages put in each buffer
          aborted       \* history: the calls that were cancelled

settings == <<bufferSize, limit>>
registry == <<subscribers, topics, joined>>
history == <<sent, called, unsubs, promised, aborted>>
channelVars == <<settings, closed, registry, buffer, subClosed, op, waiting, got, history>>

Msgs == 1..MaxMsgs

\* A call; `by' is the subscriber whose own task makes it, if any.
Calls ==
       [kind : {"subscribe"}, sub : Subs, topics : SUBSET Topics, by : {None}]
  \cup [kind : {"unsubscribe"}, sub : Subs, by : Subs \cup {None}]
  \cup [kind : {"publish"}, msg : Msgs, topic : Topics \cup {AllTopics},
        by : Subs \cup {None}]
  \cup [kind : {"close"}, by : Subs \cup {None}]

\* The lock's holder: it has still to send msg to `to', and waits for room in
\* the buffer of `on'.
Holders == [call : Calls, msg : Msgs \cup {None}, to : SUBSET Subs, on : Subs]

ASSUME NoneAssumption == None \notin Holders

Pending == Range(waiting) \cup (IF op = None THEN {} ELSE {op.call})
Busy == {c.by : c \in Pending} \ {None}
BufferFull(s) == bufferSize > 0 /\ Len(buffer[s]) >= bufferSize
Audience(t) == IF t = AllTopics THEN subscribers ELSE topics[t]

-----------------------------------------------------------------------------
\* Mutant of SendAll: put_nowait(), which gives up on a full buffer.
SendAllDropping(call, msg, to, first) ==
  LET room == {s \in to : ~BufferFull(s)} IN
    /\ buffer' = [s \in Subs |-> IF s \in room THEN Append(buffer[s], msg) ELSE buffer[s]]
    /\ got' = [s \in Subs |-> IF s \in room THEN got[s] \cup ({msg} \ {None}) ELSE got[s]]
    /\ op' = None

\* _send_to_subscriber for each of `to', in any order (a WeakSet has none), up to
\* the first whose buffer is full; those in `first' come first.
SendAll(call, msg, to, first) ==
  LET full == {s \in to : BufferFull(s)}
      Deliver(S) ==
        /\ buffer' = [s \in Subs |-> IF s \in S THEN Append(buffer[s], msg) ELSE buffer[s]]
        /\ got' = [s \in Subs |-> IF s \in S THEN got[s] \cup ({msg} \ {None}) ELSE got[s]]
  IN \/ full = {} /\ op' = None /\ Deliver(to)
     \/ \E served \in SUBSET (to \ full), s \in full :
          /\ first \subseteq served
          /\ Deliver(served)
          /\ op' = [call |-> call, msg |-> msg, to |-> to \ served, on |-> s]

\* Mutant of ClearIfClosed: the topics are gone and still looked up.
ClearDropsTopics(call) ==
  IF call.kind = "close" /\ op' = None
  THEN /\ subscribers' = {}
       /\ topics' = <<>>
       /\ UNCHANGED joined
  ELSE UNCHANGED registry

\* self._subscribers.clear() and self._topics.clear(), when close() has sent all.
ClearIfClosed(call) ==
  IF call.kind = "close" /\ op' = None
  THEN /\ subscribers' = {}
       /\ topics' = [t \in Topics |-> {}]
       /\ UNCHANGED joined
  ELSE UNCHANGED registry

\* Mutant of RunSubscribe: the limit is tested before the lock is taken only.
RunSubscribeUntested(call) ==
  /\ call.kind = "subscribe"
  /\ subscribers' = subscribers \cup {call.sub}
  /\ topics' = [t \in Topics |->
                  topics[t] \cup (IF t \in call.topics THEN {call.sub} ELSE {})]
  /\ joined' = joined \cup {call.sub}
  /\ op' = None
  /\ UNCHANGED <<buffer, got>>

\* Mutant of RunUnsubscribe: the end marker is sent but nobody is discarded.
RunUnsubscribeStays(call) ==
  /\ call.kind = "unsubscribe"
  /\ SendAll(call, None, {call.sub}, {})
  /\ UNCHANGED registry

\* What each call does once it has the lock, up to its first wait.
RunSubscribe(call) ==
  /\ call.kind = "subscribe"
  /\ IF Cardinality(subscribers) >= limit
     THEN UNCHANGED registry
     ELSE /\ subscribers' = subscribers \cup {call.sub}
          /\ topics' = [t \in Topics |->
                          topics[t] \cup (IF t \in call.topics THEN {call.sub} ELSE {})]
          /\ joined' = joined \cup {call.sub}
  /\ op' = None
  /\ UNCHANGED <<buffer, got>>

RunUnsubscribe(call) ==
  /\ call.kind = "unsubscribe"
  /\ subscribers' = subscribers \ {call.sub}
  /\ topics' = [t \in Topics |-> topics[t] \ {call.sub}]
  /\ SendAll(call, None, {call.sub}, {})
  /\ UNCHANGED joined

RunPublish(call) ==
  /\ call.kind = "publish"
  /\ SendAll(call, call.msg, Audience(call.topic), {})
  /\ UNCHANGED registry

RunClose(call) ==
  /\ call.kind = "close"
  /\ SendAll(call, None, subscribers, {})
  /\ ClearIfClosed(call)

Run(call) == \/ RunSubscribe(call) \/ RunUnsubscribe(call)
             \/ RunPublish(call) \/ RunClose(call)

\* async with self._lock: at once if it is free and nobody is in line.
Acquire(call) ==
  \/ /\ op = None /\ waiting = <<>>
     /\ Run(call)
     /\ UNCHANGED waiting
  \/ /\ op # None \/ waiting # <<>>
     /\ waiting' = Append(waiting, call)
     /\ UNCHANGED <<registry, buffer, op, got>>

-----------------------------------------------------------------------------
ChannelInit ==
  /\ bufferSize \in BufferSizes /\ limit \in Limits
  /\ closed = FALSE
  /\ subscribers = {} /\ topics = [t \in Topics |-> {}] /\ joined = {}
  /\ buffer = [s \in Subs |-> <<>>] /\ subClosed = {}
  /\ op = None /\ waiting = <<>>
  /\ sent = 0 /\ called = {} /\ unsubs = [s \in Subs |-> 0]
  /\ promised = [m \in Msgs |-> {}] /\ got = [s \in Subs |-> {}] /\ aborted = {}

\* The task of a subscriber that makes a call has one, and is not in another.
Callers == (joined \ Busy) \cup {None}

\* Mutant of Subscribe: _closed is not tested.
SubscribeUntested(s, T) ==
  /\ s \notin called
  /\ called' = called \cup {s}
  /\ Acquire([kind |-> "subscribe", sub |-> s, topics |-> T, by |-> None])
  /\ UNCHANGED <<settings, closed, subClosed, sent, unsubs, promised, aborted>>

\* _closed is tested before the lock is taken.
Subscribe(s, T) ==
  /\ ~closed /\ s \notin called
  /\ called' = called \cup {s}
  /\ Acquire([kind |-> "subscribe", sub |-> s, topics |-> T, by |-> None])
  /\ UNCHANGED <<settings, closed, subClosed, sent, unsubs, promised, aborted>>

\* The message must reach whoever is registered for its topic now, except those
\* an unsubscribe() already in line is about to remove.
Publish(t, by) ==
  /\ ~closed /\ sent < MaxMsgs
  /\ sent' = sent + 1
  /\ promised' = [promised EXCEPT ![sent + 1] =
       {s \in Audience(t) : \A c \in Pending : c.kind = "unsubscribe" => c.sub # s}]
  /\ Acquire([kind |-> "publish", msg |-> sent + 1, topic |-> t, by |-> by])
  /\ UNCHANGED <<settings, closed, subClosed, called, unsubs, aborted>>

Unsubscribe(s, by) ==
  /\ s \in joined /\ unsubs[s] < MaxUnsubs
  /\ unsubs' = [unsubs EXCEPT ![s] = @ + 1]
  /\ Acquire([kind |-> "unsubscribe", sub |-> s, by |-> by])
  /\ UNCHANGED <<settings, closed, subClosed, sent, called, promised, aborted>>

\* A second close() returns at once.
Close(by) ==
  /\ ~closed
  /\ closed' = TRUE
  /\ Acquire([kind |-> "close", by |-> by])
  /\ UNCHANGED <<settings, subClosed, history>>

\* The lock is granted to the first call in line.
Granted ==
  /\ op = None /\ waiting # <<>>
  /\ Run(Head(waiting))
  /\ waiting' = Tail(waiting)
  /\ UNCHANGED <<settings, closed, subClosed, history>>

\* The buffer the holder waits for has room again.
RoomFound ==
  /\ op # None /\ ~BufferFull(op.on)
  /\ SendAll(op.call, op.msg, op.to, {op.on})
  /\ IF op.call.kind = "close" THEN ClearIfClosed(op.call) ELSE UNCHANGED registry
  /\ UNCHANGED <<settings, closed, subClosed, waiting, history>>

\* Mutant of Receive: it needs the channel's lock.
ReceiveLocked(s) ==
  /\ op = None
  /\ s \in joined \ (subClosed \cup Busy) /\ buffer[s] # <<>>
  /\ buffer' = [buffer EXCEPT ![s] = Tail(@)]
  /\ subClosed' = IF Head(buffer[s]) = None THEN subClosed \cup {s} ELSE subClosed
  /\ UNCHANGED <<settings, closed, registry, op, waiting, got, history>>

\* Subscriber.receive(); None ends the subscription and nothing is read after it.
Receive(s) ==
  /\ s \in joined \ (subClosed \cup Busy) /\ buffer[s] # <<>>
  /\ buffer' = [buffer EXCEPT ![s] = Tail(@)]
  /\ subClosed' = IF Head(buffer[s]) = None THEN subClosed \cup {s} ELSE subClosed
  /\ UNCHANGED <<settings, closed, registry, op, waiting, got, history>>

\* A cancelled call leaves the line, or releases the lock half-way through.
CancelHolder ==
  /\ op # None
  /\ aborted' = aborted \cup {op.call}
  /\ op' = None
  /\ UNCHANGED waiting

CancelWaiting(i) ==
  /\ aborted' = aborted \cup {waiting[i]}
  /\ waiting' = RemoveAt(waiting, i)
  /\ UNCHANGED op

Cancel ==
  /\ Cardinality(aborted) < MaxCancels
  /\ CancelHolder \/ \E i \in 1..Len(waiting) : CancelWaiting(i)
  /\ UNCHANGED <<settings, closed, registry, buffer, subClosed, got, sent, called,
                 unsubs, promised>>

ChannelNext ==
  \/ \E s \in Subs, T \in SUBSET Topics : Subscribe(s, T)
  \/ \E t \in Topics \cup {AllTopics}, by \in Callers : Publish(t, by)
  \/ \E s \in Subs, by \in Callers : Unsubscribe(s, by)
  \/ \E by \in Callers : Close(by)
  \/ Granted
  \/ RoomFound
  \/ \E s \in Subs : Receive(s)
  \/ Cancel

\* The event loop runs what is ready, and a subscriber's task keeps receiving
\* whenever it is not itself inside a call.
ChannelFairness ==
  /\ WF_channelVars(Granted)
  /\ WF_channelVars(RoomFound)
  /\ \A s \in Subs : WF_channelVars(Receive(s))

ChannelSpec == ChannelInit /\ [][ChannelNext]_channelVars
ChannelFairSpec == ChannelSpec /\ ChannelFairness

-----------------------------------------------------------------------------
ChannelTypeOK ==
  /\ bufferSize \in BufferSizes /\ limit \in Limits
  /\ closed \in BOOLEAN
  /\ subscribers \subseteq Subs /\ topics \in [Topics -> SUBSET Subs]
  /\ joined \subseteq Subs
  /\ buffer \in [Subs -> Seq(Msgs \cup {None})] /\ subClosed \subseteq Subs
  /\ op \in Holders \cup {None} /\ waiting \in Seq(Calls)
  /\ sent \in 0..MaxMsgs /\ called \subseteq Subs /\ unsubs \in [Subs -> 0..MaxUnsubs]
  /\ promised \in [Msgs -> SUBSET Subs] /\ got \in [Subs -> SUBSET Msgs]
  /\ aborted \subseteq Calls

\* subscribe() tests the limit and adds under one lock, so however many calls
\* race, max_subscribers holds; and no topic keeps somebody who has left.
MembersKept ==
  /\ Cardinality(subscribers) <= limit
  /\ \A t \in Topics : topics[t] \subseteq subscribers

\* What a subscriber still has to read is in the order of the publish() calls,
\* and nothing but further end markers follows an end marker: no message is put
\* where receive() will never look.
StreamInOrder ==
  \A s \in Subs :
    /\ \A i, j \in 1..Len(buffer[s]) : i < j =>
         \/ buffer[s][j] = None
         \/ buffer[s][i] # None /\ buffer[s][i] < buffer[s][j]
    /\ s \in subClosed => \A i \in 1..Len(buffer[s]) : buffer[s][i] = None

\* A publish() that returns has reached everyone who was subscribed when it was
\* called, whatever joined, left, blocked, or closed the channel meanwhile.
ReachesMembers ==
  \A m \in 1..sent :
    (\A c \in Pending \cup aborted : c.kind = "publish" => c.msg # m)
      => \A s \in promised[m] : m \in got[s]

\* Once close() has returned nobody is registered, not even a subscribe() that
\* passed its test of _closed and then waited for the lock, and everyone that
\* ever joined has the end marker to read or has read it.
CloseReachesAll ==
  closed /\ (\A c \in Pending \cup aborted : c.kind \notin {"close", "unsubscribe"})
    => /\ subscribers = {}
       /\ \A s \in joined : s \in subClosed \/ None \in Range(buffer[s])

\* The lock is released again, unless the buffer its holder waits for belongs
\* to a subscriber that is itself inside a call of the channel, or that has
\* stopped reading.
LockReleased ==
  op # None ~> (op = None \/ op.on \in Busy \cup subClosed)
=============================================================================
