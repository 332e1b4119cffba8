--------------------------- MODULE PublisherBatch ---------------------------
(***************************************************************************)
(* PublisherBatch and the Publisher behind it, of mtaio/events/channel.py. *)
(* Tasks add messages to one batch; adding the last one that fits, or the  *)
(* end of the `async with' block, flushes it.  Messages are numbered in    *)
(* the order in which they are added; the number is the message's data.    *)
(* The publisher's background task has nothing to do: nobody adds to       *)
(* Publisher._batch.                                                       *)
(***************************************************************************)
EXTENDS Naturals, Sequences, SequencesExt, FiniteSets

CONSTANTS
  Authors,              \* tasks that use the batch
  PublisherBatchSize,   \* Publisher.batch_size
  Topic,                \* Topic[m]: the topic that message m is added for
  MaxMessages, MaxTroubles      \* bounds

VARIABLES
  messages,     \* PublisherBatch._messages
  sending,      \* the messages each task's flush() has still to publish, if any
  flusher,      \* the tasks that are in flush()
  made,         \* the number of messages added
  published,    \* the calls of Channel.publish() that returned, in order
  dropped,      \* history: the messages given up after one was refused
  late,         \* history: those added while somebody was in flush()
  repeated,     \* history: a flush began during another one, or was cancelled
  troubles      \* counts against its bound

publisherVars ==
  <<messages, sending, flusher, made, published, dropped, late, repeated, troubles>>

\* flush() up to its first await takes a copy of the messages.
Flush(a, all) ==
  /\ flusher' = flusher \cup {a}
  /\ sending' = [sending EXCEPT ![a] = all]
  /\ messages' = all
  /\ repeated' = (repeated \/ flusher # {})

\* PublisherBatch.publish().
AddMessage(a) ==
  /\ a \notin flusher /\ made < MaxMessages
  /\ made' = made + 1
  /\ LET all == Append(messages, made + 1) IN
       IF Len(all) >= PublisherBatchSize THEN Flush(a, all)
       ELSE messages' = all /\ UNCHANGED <<sending, flusher, repeated>>
  /\ late' = IF flusher = {} THEN late ELSE late \cup {made + 1}
  /\ UNCHANGED <<published, dropped, troubles>>

\* The block ends, or flush() is called.
FlushBatch(a) ==
  /\ a \notin flusher /\ messages # <<>>
  /\ Flush(a, messages)
  /\ UNCHANGED <<made, published, dropped, late, troubles>>

\* Channel.publish() takes (data, topic); Publisher.publish() gives it the topic of
\* the message first and its data second.
ChannelCall(m) == [data |-> Topic[m], topic |-> m]

\* The channel takes the next message of publish_batch().
Publish(a) ==
  /\ sending[a] # <<>>
  /\ published' = Append(published, ChannelCall(Head(sending[a])))
  /\ sending' = [sending EXCEPT ![a] = Tail(@)]
  /\ UNCHANGED <<messages, flusher, made, dropped, late, repeated, troubles>>

\* Channel.publish() raises, because it is closed or cannot look up what it takes for
\* the topic: publish_batch() stops there and returns the error, which flush() does
\* not look at.
PublishFails(a) ==
  /\ sending[a] # <<>> /\ troubles < MaxTroubles
  /\ troubles' = troubles + 1
  /\ dropped' = dropped \cup Range(sending[a])
  /\ sending' = [sending EXCEPT ![a] = <<>>]
  /\ UNCHANGED <<messages, flusher, made, published, late, repeated>>

\* publish_batch() has returned: whatever is in the batch now is cleared.  Keeping
\* it would publish the messages again.
Uncleared == messages
Cleared == <<>>
FlushReturns(a) ==
  /\ a \in flusher /\ sending[a] = <<>>
  /\ messages' = Cleared
  /\ flusher' = flusher \ {a}
  /\ UNCHANGED <<sending, made, published, dropped, late, repeated, troubles>>

\* The task is cancelled in flush(): the batch keeps also what was published.
CancelFlush(a) ==
  /\ a \in flusher /\ troubles < MaxTroubles
  /\ troubles' = troubles + 1
  /\ flusher' = flusher \ {a}
  /\ sending' = [sending EXCEPT ![a] = <<>>]
  /\ repeated' = TRUE
  /\ UNCHANGED <<messages, made, published, dropped, late>>

-----------------------------------------------------------------------------
PublisherInit ==
  /\ messages = <<>> /\ sending = [a \in Authors |-> <<>>] /\ flusher = {}
  /\ made = 0 /\ published = <<>> /\ dropped = {} /\ late = {} /\ repeated = FALSE
  /\ troubles = 0

PublisherNext ==
  \E a \in Authors :
    \/ AddMessage(a) \/ FlushBatch(a) \/ Publish(a) \/ PublishFails(a)
    \/ FlushReturns(a) \/ CancelFlush(a)

PublisherSpec == PublisherInit /\ [][PublisherNext]_publisherVars
-----------------------------------------------------------------------------
PublisherTypeOK ==
  /\ messages \in Seq(1..made) /\ late \subseteq 1..made
  /\ \A i \in DOMAIN published : \E m \in 1..made : published[i] = ChannelCall(m)
  /\ \A a \in Authors : sending[a] # <<>> => a \in flusher

\* Where message m is among the calls the channel took.
CallsFor(m) == {i \in DOMAIN published : published[i] = ChannelCall(m)}
ReachedChannel(m) == CallsFor(m) # {}

\* However the flushes of several tasks overlap, fail or are cancelled, a message
\* that was added while nobody was in flush() is in the batch until it reached the
\* channel, or was given up because the channel refused it or one before it; and no
\* later message reaches the channel before it.  As long as flushes neither overlap
\* nor are cancelled, no message at all reaches the channel twice.  The messages
\* in `late' are those that flush() may clear unsent.
PublishedInOrder ==
  /\ \A m \in (1..made) \ (late \cup dropped) :
       /\ ReachedChannel(m) \/ m \in Range(messages)
       /\ \A n \in (m + 1)..made : \A i \in CallsFor(n) : \E j \in CallsFor(m) : j < i
  /\ ~repeated => \A m \in 1..made : \A i, j \in CallsFor(m) : i = j
=============================================================================
