--------------------------- MODULE ServicesProofs ---------------------------
(***************************************************************************)
(* Theorems about the components that keep, move or announce data, for any *)
(* values of their constants, and about the composition MCServices makes   *)
(* of them.  Of each component: an inductive invariant, that it holds      *)
(* initially, a lemma per action that it is kept, and what it implies.     *)
(***************************************************************************)
EXTENDS MCServices, NetworkProofs, SequenceLemmas, FiniteSetTheorems

-----------------------------------------------------------------------------
(* The publisher. *)

Ascending(s) == \A i, j \in 1..Len(s) : i < j => s[i] < s[j]

ChannelCalls == {ChannelCall(m) : m \in Nat}
PublisherTypes ==
  /\ made \in Nat /\ flusher \subseteq Authors /\ repeated \in BOOLEAN /\ late \subseteq 1..made
  /\ messages \in Seq(Nat) /\ sending \in [Authors -> Seq(Nat)] /\ published \in Seq(ChannelCalls)
  /\ Range(messages) \subseteq 1..made
  /\ \A a \in Authors : Range(sending[a]) \subseteq 1..made /\ (sending[a] # <<>> => a \in flusher)
  /\ \A i \in 1..Len(published) : \E m \in 1..made : published[i] = ChannelCall(m)

\* The fate of the message m is known: it reached the channel or was given up.
Settled(m) == m \in dropped \/ ReachedChannel(m)

\* The batch: in order, and with every message in it that is not settled.
BatchSound ==
  /\ Ascending(messages)
  /\ \A m \in (1..made) \ late : Settled(m) \/ m \in Range(messages)

\* What the flush of a has still to publish: in order; whatever it is about to
\* clear, and whatever is older than a message it is about to publish, is among it
\* or settled.
FlushSound(a) ==
  /\ Ascending(sending[a])
  /\ a \in flusher => \A m \in Range(messages) \ late : Settled(m) \/ m \in Range(sending[a])
  /\ \A n \in Range(sending[a]), m \in (1..made) \ late :
       m < n => Settled(m) \/ m \in Range(sending[a])

CallsInOrder ==
  \A m \in (1..made) \ (late \cup dropped), n \in 1..made :
    m < n => \A i \in CallsFor(n) : \E j \in CallsFor(m) : j < i

\* While flushes neither overlap nor are cancelled, what is about to be published
\* has not been published before.
CallsOnce ==
  /\ \A m \in 1..made : \A i, j \in CallsFor(m) : i = j
  /\ flusher = {} => \A m \in Range(messages) : ~ReachedChannel(m)
  /\ \A a \in flusher : flusher = {a} /\ \A m \in Range(sending[a]) : ~ReachedChannel(m)

\* What makes PublishedInOrder inductive.
PublisherInv ==
  /\ PublisherTypes /\ BatchSound /\ (\A a \in Authors : FlushSound(a)) /\ CallsInOrder
  /\ ~repeated => CallsOnce

\* A number above all others goes to the end.
LEMMA AscendingAppend ==
  ASSUME NEW s \in Seq(Nat), Ascending(s), NEW n \in Nat, \A x \in Range(s) : x < n
  PROVE  Ascending(Append(s, n))
<1> DEFINE t == Append(s, n)
<1>1. /\ Len(t) = Len(s) + 1 /\ Len(s) \in Nat /\ t[Len(s) + 1] = n
      /\ \A i \in 1..Len(s) : t[i] = s[i] /\ s[i] \in Range(s)
  BY AppendProperties, LenProperties, RangeByIndex
<1> HIDE DEF t
<1> SUFFICES ASSUME NEW i \in 1..Len(t), NEW j \in 1..Len(t), i < j PROVE t[i] < t[j]
  BY DEF Ascending, t
<1>2. i \in 1..Len(s)
  BY <1>1
<1>3. CASE j \in 1..Len(s)
  BY <1>1, <1>2, <1>3 DEF Ascending
<1>4. CASE j = Len(s) + 1
  BY <1>1, <1>2, <1>4
<1>5. j \in 1..Len(s) \/ j = Len(s) + 1
  BY <1>1
<1> QED BY <1>3, <1>4, <1>5

\* The first number is the least.
LEMMA AscendingTail ==
  ASSUME NEW s \in Seq(Nat), s # <<>>, Ascending(s)
  PROVE  Ascending(Tail(s)) /\ \A y \in Range(Tail(s)) : Head(s) < y
<1> DEFINE t == Tail(s)
<1>1. /\ t \in Seq(Nat) /\ Len(t) = Len(s) - 1 /\ Len(s) \in Nat \ {0}
      /\ Head(s) = s[1] /\ \A i \in 1..Len(t) : t[i] = s[i + 1]
  BY HeadTailProperties, LenProperties, EmptySeq
<1> HIDE DEF t
<1>2. Ascending(t)
  <2> SUFFICES ASSUME NEW i \in 1..Len(t), NEW j \in 1..Len(t), i < j PROVE t[i] < t[j]
    BY DEF Ascending
  <2>1. i + 1 \in 1..Len(s) /\ j + 1 \in 1..Len(s) /\ i + 1 < j + 1
    BY <1>1
  <2>2. s[i + 1] < s[j + 1]
    BY <2>1 DEF Ascending
  <2> QED BY <1>1, <2>2
<1>3. ASSUME NEW y \in Range(t) PROVE Head(s) < y
  <2>1. PICK i \in 1..Len(t) : t[i] = y
    BY <1>1, RangeByIndex
  <2>2. 1 \in 1..Len(s) /\ i + 1 \in 1..Len(s) /\ 1 < i + 1
    BY <1>1
  <2>3. s[1] < s[i + 1]
    BY <2>2 DEF Ascending
  <2> QED BY <1>1, <2>1, <2>3
<1> QED BY <1>2, <1>3 DEF t

\* As long as the channel takes nothing, what reached it stays the same.
LEMMA CallsSame ==
  ASSUME UNCHANGED published
  PROVE  \A m : CallsFor(m)' = CallsFor(m) /\ ReachedChannel(m)' = ReachedChannel(m)
<1> QED BY DEF CallsFor, ReachedChannel

\* The calls lie in the sequence, and are of messages that were added.
LEMMA CallsAreOfMade ==
  ASSUME PublisherTypes
  PROVE  \A m : /\ CallsFor(m) \subseteq 1..Len(published)
                /\ ReachedChannel(m) => m \in 1..made
<1>1. DOMAIN published = 1..Len(published)
  BY LenProperties DEF PublisherTypes
<1>2. ASSUME NEW m, NEW i \in CallsFor(m) PROVE m \in 1..made
  <2>1. i \in 1..Len(published) /\ published[i] = ChannelCall(m)
    BY <1>1, <1>2 DEF CallsFor
  <2>2. PICK n \in 1..made : published[i] = ChannelCall(n)
    BY <2>1 DEF PublisherTypes
  <2>3. n = m
    BY <2>1, <2>2 DEF ChannelCall
  <2> QED BY <2>2, <2>3
<1> QED BY <1>1, <1>2 DEF CallsFor, ReachedChannel

\* The batch grows by the messages made + 1 to made', if any: what is said of the
\* batch, of the calls and of the flushes that go on holds as before.
LEMMA BatchGrows ==
  ASSUME PublisherInv, made' \in Nat, made <= made', messages' \in Seq(Nat), Ascending(messages'),
         Range(messages') = Range(messages) \cup (made + 1)..made',
         late' = IF flusher = {} THEN late ELSE late \cup (made + 1)..made',
         UNCHANGED <<published, dropped>>
  PROVE  /\ BatchSound' /\ CallsInOrder'
         /\ \A b \in Authors : UNCHANGED sending[b] /\ (b \in flusher' => b \in flusher)
                                 => FlushSound(b)'
         /\ \A m : CallsFor(m)' = CallsFor(m) /\ ReachedChannel(m)' = ReachedChannel(m)
         /\ CallsOnce => /\ \A m \in 1..made' : \A i, j \in CallsFor(m) : i = j
                         /\ flusher = {} => \A m \in Range(messages') : ~ReachedChannel(m)
         /\ late' \subseteq 1..made' /\ Range(messages') \subseteq 1..made'
<1>1. /\ made \in Nat /\ 1..made' = 1..made \cup (made + 1)..made'
      /\ late \subseteq 1..made /\ Range(messages) \subseteq 1..made
      /\ \A m \in (made + 1)..made' : m \notin 1..made
  BY DEF PublisherInv, PublisherTypes
<1>2. \A m : /\ CallsFor(m)' = CallsFor(m) /\ ReachedChannel(m)' = ReachedChannel(m)
             /\ Settled(m)' = Settled(m) /\ (ReachedChannel(m) => m \in 1..made)
  BY CallsSame, CallsAreOfMade DEF Settled, PublisherInv
<1>3. \A m \in (1..made') \ late' : m \in Range(messages') \/ m \in (1..made) \ late
  BY <1>1
<1>4. BatchSound'
  BY <1>1, <1>2, <1>3 DEF PublisherInv, BatchSound
<1>5. CallsInOrder'
  <2> SUFFICES ASSUME NEW m \in (1..made') \ (late' \cup dropped'), NEW n \in 1..made', m < n,
                      NEW i \in CallsFor(n)
               PROVE  \E j \in CallsFor(m) : j < i
    BY <1>2 DEF CallsInOrder
  <2>1. n \in 1..made
    BY <1>2 DEF ReachedChannel
  <2>2. m \in 1..made /\ m \notin late /\ m \notin dropped
    BY <1>1, <2>1
  <2> QED BY <2>1, <2>2 DEF PublisherInv, CallsInOrder
<1>6. ASSUME NEW b \in Authors, UNCHANGED sending[b], b \in flusher' => b \in flusher
      PROVE  FlushSound(b)'
  <2>1. FlushSound(b) /\ Range(sending[b]) \subseteq 1..made
    BY DEF PublisherInv, PublisherTypes
  <2>2. ASSUME b \in flusher', NEW m \in Range(messages') \ late'
        PROVE  Settled(m) \/ m \in Range(sending[b])
    <3>1. b \in flusher /\ m \in Range(messages) \ late
      BY <1>6, <2>2
    <3> QED BY <2>1, <3>1 DEF FlushSound
  <2>3. ASSUME NEW n \in Range(sending[b]), NEW m \in (1..made') \ late', m < n
        PROVE  Settled(m) \/ m \in Range(sending[b])
    <3>1. m \in (1..made) \ late
      BY <1>1, <2>1, <2>3
    <3> QED BY <2>1, <2>3, <3>1 DEF FlushSound
  <2> QED BY <1>2, <1>6, <2>1, <2>2, <2>3 DEF FlushSound
<1>7. ASSUME CallsOnce, NEW m \in 1..made', NEW i \in CallsFor(m), NEW j \in CallsFor(m)
      PROVE  i = j
  <2>1. m \in 1..made
    BY <1>2 DEF ReachedChannel
  <2> QED BY <1>7, <2>1 DEF CallsOnce
<1>8. ASSUME CallsOnce, flusher = {}, NEW m \in Range(messages') PROVE ~ReachedChannel(m)
  BY <1>1, <1>2, <1>8 DEF CallsOnce
<1>9. late' \subseteq 1..made' /\ Range(messages') \subseteq 1..made'
  BY <1>1
<1> QED BY <1>2, <1>4, <1>5, <1>6, <1>7, <1>8, <1>9

\* A flush begins: what it has to publish is the batch.
LEMMA FlushKeeps ==
  ASSUME PublisherInv, NEW a \in Authors, a \notin flusher, NEW all \in Seq(Nat), Flush(a, all),
         made' \in Nat, made <= made', Ascending(all),
         Range(all) = Range(messages) \cup (made + 1)..made',
         late' = IF flusher = {} THEN late ELSE late \cup (made + 1)..made',
         UNCHANGED <<published, dropped>>
  PROVE  PublisherInv'
<1>1. /\ flusher' = flusher \cup {a} /\ messages' = all
      /\ sending' \in [Authors -> Seq(Nat)] /\ sending'[a] = all
      /\ (\A b \in Authors \ {a} : sending'[b] = sending[b])
      /\ repeated' = (repeated \/ flusher # {})
  BY DEF Flush, PublisherInv, PublisherTypes
<1>2. /\ BatchSound' /\ CallsInOrder'
      /\ (\A b \in Authors \ {a} : FlushSound(b)')
      /\ (\A m : CallsFor(m)' = CallsFor(m) /\ ReachedChannel(m)' = ReachedChannel(m))
      /\ (CallsOnce => /\ \A m \in 1..made' : \A i, j \in CallsFor(m) : i = j
                       /\ flusher = {} => \A m \in Range(all) : ~ReachedChannel(m))
      /\ late' \subseteq 1..made' /\ Range(all) \subseteq 1..made'
  BY <1>1, BatchGrows
<1>3. repeated' \in BOOLEAN
  BY <1>1, Zenon
<1>4. PublisherTypes'
  <2>1. \A b \in Authors : Range(sending'[b]) \subseteq 1..made' /\ (sending'[b] # <<>> => b \in flusher')
    <3>1. 1..made \subseteq 1..made'
      BY DEF PublisherInv, PublisherTypes
    <3> QED BY <1>1, <1>2, <3>1 DEF PublisherInv, PublisherTypes
  <2>2. \A i \in 1..Len(published') : \E m \in 1..made' : published'[i] = ChannelCall(m)
    BY DEF PublisherInv, PublisherTypes
  <2>3. flusher' \subseteq Authors
    BY <1>1 DEF PublisherInv, PublisherTypes
  <2>4. published' \in Seq(ChannelCalls) /\ made' \in Nat /\ messages' \in Seq(Nat)
    BY <1>1 DEF PublisherInv, PublisherTypes
  <2> QED BY <1>1, <1>2, <1>3, <2>1, <2>2, <2>3, <2>4 DEF PublisherTypes
<1>5. FlushSound(a)'
  BY <1>1, <1>2 DEF BatchSound, FlushSound
<1>6. ASSUME ~repeated' PROVE CallsOnce'
  <2>1. flusher = {} /\ CallsOnce /\ flusher' = {a}
    BY <1>1, <1>6 DEF PublisherInv
  <2> QED BY <1>1, <1>2, <2>1 DEF CallsOnce
<1> QED BY <1>2, <1>4, <1>5, <1>6 DEF PublisherInv

\* PublisherBatch.publish(): the batch grows, or is full and flushed.
LEMMA AddMessageKeeps ==
  ASSUME PublisherInv, NEW a \in Authors, AddMessage(a)
  PROVE  PublisherInv'
<1> DEFINE all == Append(messages, made + 1)
<1>1. /\ a \notin flusher /\ made \in Nat /\ made' = made + 1 /\ messages \in Seq(Nat)
      /\ Range(messages) \subseteq 1..made /\ UNCHANGED <<published, dropped>>
      /\ late' = IF flusher = {} THEN late ELSE late \cup {made + 1}
      /\ Ascending(messages)
  BY DEF AddMessage, PublisherInv, PublisherTypes, BatchSound
<1>2. /\ all \in Seq(Nat) /\ Range(all) = Range(messages) \cup {made + 1} /\ Ascending(all)
      /\ made' \in Nat /\ made <= made' /\ {made + 1} = (made + 1)..made'
  BY <1>1, AppendRange, AscendingAppend
<1>3. CASE Flush(a, all)
  <2> HIDE DEF all
  <2> QED BY <1>1, <1>2, <1>3, FlushKeeps
<1>4. CASE messages' = all /\ UNCHANGED <<sending, flusher, repeated>>
  <2> HIDE DEF all
  <2>1. /\ BatchSound' /\ CallsInOrder'
        /\ (\A b \in Authors : FlushSound(b)')
        /\ (\A m : CallsFor(m)' = CallsFor(m) /\ ReachedChannel(m)' = ReachedChannel(m))
        /\ (CallsOnce => /\ \A m \in 1..made' : \A i, j \in CallsFor(m) : i = j
                         /\ flusher = {} => \A m \in Range(messages') : ~ReachedChannel(m))
        /\ late' \subseteq 1..made' /\ Range(all) \subseteq 1..made'
    BY <1>1, <1>2, <1>4, BatchGrows
  <2>2. 1..made \subseteq 1..made'
    BY <1>1
  <2>3. PublisherTypes'
    BY <1>1, <1>2, <1>4, <2>1, <2>2 DEF PublisherInv, PublisherTypes
  <2>4. ASSUME ~repeated' PROVE CallsOnce'
    <3>1. CallsOnce
      BY <1>4, <2>4 DEF PublisherInv
    <3> QED BY <1>4, <2>1, <3>1 DEF CallsOnce
  <2> QED BY <2>1, <2>3, <2>4 DEF PublisherInv
<1> QED BY <1>3, <1>4 DEF AddMessage

\* The end of the block.
LEMMA FlushBatchKeeps ==
  ASSUME PublisherInv, NEW a \in Authors, FlushBatch(a)
  PROVE  PublisherInv'
<1>1. /\ a \notin flusher /\ Flush(a, messages) /\ UNCHANGED <<made, published, dropped, late>>
  BY DEF FlushBatch
<1>2. made \in Nat /\ messages \in Seq(Nat) /\ Ascending(messages) /\ (made + 1)..made = {}
  BY DEF PublisherInv, PublisherTypes, BatchSound
<1>3. made' \in Nat /\ made <= made' /\ (made + 1)..made' = {}
  BY <1>1, <1>2
<1> QED BY <1>1, <1>2, <1>3, FlushKeeps

\* The channel accepts a message: nothing older that is to reach it is left behind.
LEMMA PublishKeeps ==
  ASSUME PublisherInv, NEW a \in Authors, Publish(a)
  PROVE  PublisherInv'
<1> DEFINE h == Head(sending[a])
           rest == Tail(sending[a])
           L == Len(published)
<1>1. /\ sending[a] \in Seq(Nat) /\ sending[a] # <<>> /\ a \in flusher
      /\ published' = Append(published, ChannelCall(h))
      /\ UNCHANGED <<messages, flusher, made, dropped, late, repeated>>
      /\ Range(sending[a]) \subseteq 1..made /\ published \in Seq(ChannelCalls)
      /\ FlushSound(a) /\ made \in Nat /\ L \in Nat
  BY LenProperties DEF Publish, PublisherInv, PublisherTypes
<1>2. /\ sending' \in [Authors -> Seq(Nat)] /\ sending'[a] = rest
      /\ \A b \in Authors \ {a} : sending'[b] = sending[b]
  <2>1. rest \in Seq(Nat)
    BY <1>1, TailRange
  <2> QED BY <2>1 DEF Publish, PublisherInv, PublisherTypes
<1>3. /\ h \in Nat /\ rest \in Seq(Nat) /\ Range(sending[a]) = {h} \cup Range(rest)
      /\ Ascending(rest) /\ \A y \in Range(rest) : h < y
  BY <1>1, TailRange, AscendingTail DEF FlushSound
<1>4. /\ published' \in Seq(ChannelCalls) /\ Len(published') = L + 1
      /\ DOMAIN published' = 1..L + 1 /\ published'[L + 1] = ChannelCall(h)
      /\ \A i \in 1..L : published'[i] = published[i]
  <2>1. ChannelCall(h) \in ChannelCalls
    BY <1>3 DEF ChannelCalls
  <2> HIDE DEF h
  <2> QED BY <1>1, <2>1, AppendProperties, LenProperties
<1>5. /\ h \in 1..made /\ (\A m \in Range(rest) : m \in 1..made)
      /\ (\A m : CallsFor(m) \subseteq 1..L) /\ (\A m : ReachedChannel(m) => m \in 1..made)
  BY <1>1, <1>3, CallsAreOfMade DEF PublisherInv
<1> HIDE DEF h, rest, L
<1>6. \A m : CallsFor(m)' = CallsFor(m) \cup (IF m = h THEN {L + 1} ELSE {})
  <2>1. DOMAIN published = 1..L
    BY <1>1, LenProperties DEF L
  <2>2. \A m : ChannelCall(h) = ChannelCall(m) <=> m = h
    BY DEF ChannelCall
  <2> QED BY <1>1, <1>4, <2>1, <2>2 DEF CallsFor
<1>7. \A m : /\ ReachedChannel(m)' <=> (ReachedChannel(m) \/ m = h)
             /\ Settled(m)' <=> (Settled(m) \/ m = h)
  BY <1>1, <1>6 DEF ReachedChannel, Settled
<1>8. PublisherTypes'
  <2>1. ASSUME NEW i \in 1..Len(published')
        PROVE  \E m \in 1..made : published'[i] = ChannelCall(m)
    <3>1. i \in 1..L \/ i = L + 1
      BY <1>1, <1>4
    <3>2. CASE i \in 1..L
      <4>1. published'[i] = published[i]
        BY <1>4, <3>2
      <4> QED BY <3>2, <4>1 DEF PublisherInv, PublisherTypes, L
    <3>3. CASE i = L + 1
      BY <1>4, <1>5, <3>3
    <3> QED BY <3>1, <3>2, <3>3
  <2>2. \A b \in Authors : Range(sending'[b]) \subseteq 1..made' /\ (sending'[b] # <<>> => b \in flusher')
    BY <1>1, <1>2, <1>3 DEF PublisherInv, PublisherTypes
  <2> QED BY <1>1, <1>2, <1>4, <2>1, <2>2 DEF PublisherInv, PublisherTypes
<1>9. BatchSound'
  BY <1>1, <1>7 DEF PublisherInv, BatchSound
<1>10. FlushSound(a)'
  BY <1>1, <1>2, <1>3, <1>7 DEF FlushSound
<1>11. ASSUME NEW b \in Authors \ {a} PROVE FlushSound(b)'
  BY <1>1, <1>2, <1>7 DEF PublisherInv, FlushSound
<1>12. CallsInOrder'
  <2> SUFFICES ASSUME NEW m \in (1..made) \ (late \cup dropped), NEW n \in 1..made, m < n,
                      NEW i \in CallsFor(n)'
               PROVE  \E j \in CallsFor(m)' : j < i
    BY <1>1 DEF CallsInOrder
  <2>1. CASE i \in CallsFor(n)
    BY <1>6, <2>1 DEF PublisherInv, CallsInOrder
  <2>2. CASE n = h /\ i = L + 1
    <3>1. Settled(m) \/ m \in Range(sending[a])
      BY <1>1, <1>3, <2>2 DEF FlushSound
    <3>2. ReachedChannel(m)
      BY <1>1, <1>3, <2>2, <3>1 DEF Settled
    <3>3. PICK j \in CallsFor(m) : j \in 1..L
      BY <1>5, <3>2 DEF ReachedChannel
    <3> QED BY <1>1, <1>6, <2>2, <3>3
  <2> QED BY <1>6, <2>1, <2>2
<1>13. ASSUME ~repeated' PROVE CallsOnce'
  <2>1. flusher = {a} /\ CallsOnce /\ ~ReachedChannel(h)
    BY <1>1, <1>3, <1>13 DEF PublisherInv, CallsOnce
  <2>2. CallsFor(h) = {}
    BY <2>1 DEF ReachedChannel
  <2>3. ASSUME NEW m \in 1..made PROVE \A i, j \in CallsFor(m)' : i = j
    <3>1. CASE m = h
      BY <1>6, <2>2, <3>1
    <3>2. CASE m # h
      BY <1>6, <2>1, <3>2 DEF CallsOnce
    <3> QED BY <3>1, <3>2
  <2>4. ASSUME NEW m \in Range(rest) PROVE ~ReachedChannel(m)'
    <3>1. ~ReachedChannel(m) /\ h < m
      BY <1>3, <2>1 DEF CallsOnce
    <3> QED BY <1>3, <1>7, <3>1
  <2> QED BY <1>1, <1>2, <2>1, <2>3, <2>4 DEF CallsOnce
<1> QED BY <1>8, <1>9, <1>10, <1>11, <1>12, <1>13 DEF PublisherInv

\* Nothing reaches the channel, a flush has nothing left to publish, and the batch
\* stays or is cleared after a flush that published it.
LEMMA EmptiedKeeps ==
  ASSUME PublisherInv, NEW a \in Authors, sending' = [sending EXCEPT ![a] = <<>>],
         UNCHANGED <<made, published, late>>, flusher' \in SUBSET flusher, a \in flusher,
         repeated' \in BOOLEAN, repeated => repeated',
         dropped \subseteq dropped',
         \/ messages' = messages
         \/ messages' = <<>> /\ sending[a] = <<>>,
         a \in flusher' => Range(sending[a]) \subseteq dropped',
         repeated' \/ flusher' = flusher \/ messages' = <<>>,
         flusher \ {a} \subseteq flusher'
  PROVE  PublisherInv'
<1>1. /\ sending' \in [Authors -> Seq(Nat)] /\ sending'[a] = <<>>
      /\ (\A b \in Authors \ {a} : sending'[b] = sending[b])
      /\ messages' \in Seq(Nat)
  <2>1. <<>> \in Seq(Nat)
    BY EmptySeq
  <2> QED BY <2>1 DEF PublisherInv, PublisherTypes
<1>2. /\ Range(<<>>) = {} /\ Ascending(<<>>) /\ Ascending(messages')
      /\ Range(messages') \subseteq Range(messages)
  <2>1. 1..Len(<<>>) = {}
    BY EmptySeq
  <2> QED BY <2>1, EmptyRange DEF Ascending, PublisherInv, BatchSound
<1>3. \A m : /\ CallsFor(m)' = CallsFor(m) /\ ReachedChannel(m)' = ReachedChannel(m)
             /\ (Settled(m) => Settled(m)')
  BY CallsSame DEF Settled
<1>4. PublisherTypes'
  BY <1>1, <1>2 DEF PublisherInv, PublisherTypes
<1>5. BatchSound'
  <2>1. CASE messages' = messages
    BY <1>2, <1>3, <2>1 DEF PublisherInv, BatchSound
  <2>2. CASE messages' = <<>> /\ sending[a] = <<>>
    <3>1. FlushSound(a)
      BY DEF PublisherInv
    <3>2. \A m \in (1..made) \ late : Settled(m)
      BY <1>2, <2>2, <3>1 DEF FlushSound, PublisherInv, BatchSound
    <3> QED BY <1>2, <1>3, <3>2 DEF BatchSound
  <2> QED BY <2>1, <2>2
<1>6. ASSUME NEW b \in Authors \ {a} PROVE FlushSound(b)'
  BY <1>1, <1>2, <1>3 DEF PublisherInv, FlushSound
<1>7. FlushSound(a)'
  <2>1. ASSUME a \in flusher', NEW m \in Range(messages') \ late PROVE Settled(m)'
    <3>1. Settled(m) \/ m \in Range(sending[a])
      BY <1>2, <2>1 DEF PublisherInv, FlushSound
    <3> QED BY <1>3, <2>1, <3>1 DEF Settled
  <2> QED BY <1>1, <1>2, <2>1 DEF FlushSound
<1>8. CallsInOrder'
  BY <1>3 DEF PublisherInv, CallsInOrder
<1>9. ASSUME ~repeated' PROVE CallsOnce'
  <2>1. CallsOnce /\ flusher = {a}
    BY <1>9 DEF PublisherInv, CallsOnce
  <2>2. flusher' = {} => messages' = <<>>
    BY <1>9, <2>1
  <2>3. \A b \in flusher' : flusher' = {b} /\ Range(sending'[b]) = {}
    BY <1>1, <1>2, <2>1
  <2> QED BY <1>2, <1>3, <2>1, <2>2, <2>3 DEF CallsOnce
<1> QED BY <1>4, <1>5, <1>6, <1>7, <1>8, <1>9 DEF PublisherInv

\* The channel refuses a message, and the rest is given up.
LEMMA PublishFailsKeeps ==
  ASSUME PublisherInv, NEW a \in Authors, PublishFails(a)
  PROVE  PublisherInv'
<1>1. /\ dropped' = dropped \cup Range(sending[a]) /\ a \in flusher
      /\ UNCHANGED <<messages, flusher, made, published, late, repeated>>
      /\ sending' = [sending EXCEPT ![a] = <<>>] /\ repeated \in BOOLEAN
  BY DEF PublishFails, PublisherInv, PublisherTypes
<1> QED BY <1>1, EmptiedKeeps

\* A flush ends, and the batch is cleared.
LEMMA FlushReturnsKeeps ==
  ASSUME PublisherInv, NEW a \in Authors, FlushReturns(a)
  PROVE  PublisherInv'
<1>1. /\ a \in flusher /\ sending[a] = <<>> /\ messages' = <<>> /\ flusher' = flusher \ {a}
      /\ UNCHANGED <<sending, made, published, dropped, late, repeated>> /\ repeated \in BOOLEAN
  BY DEF FlushReturns, Cleared, PublisherInv, PublisherTypes
<1>2. sending' = [sending EXCEPT ![a] = <<>>]
  BY <1>1 DEF PublisherInv, PublisherTypes
<1> QED BY <1>1, <1>2, EmptiedKeeps

\* A flush is cancelled.
LEMMA CancelFlushKeeps ==
  ASSUME PublisherInv, NEW a \in Authors, CancelFlush(a)
  PROVE  PublisherInv'
<1>1. /\ repeated' = TRUE /\ UNCHANGED <<messages, made, published, late, dropped>>
      /\ sending' = [sending EXCEPT ![a] = <<>>] /\ a \in flusher /\ flusher' = flusher \ {a}
  BY DEF CancelFlush
<1> QED BY <1>1, EmptiedKeeps

\* The batch is empty at first.
LEMMA PublisherInitially ==
  ASSUME PublisherInit PROVE PublisherInv
<1>1. 1..Len(<<>>) = {} /\ <<>> \in Seq(Nat) /\ <<>> \in Seq(ChannelCalls) /\ DOMAIN <<>> = {}
  BY EmptySeq, LenProperties
<1>2. /\ made = 0 /\ flusher = {} /\ repeated = FALSE /\ messages = <<>> /\ published = <<>>
      /\ sending = [a \in Authors |-> <<>>] /\ late = {}
  BY DEF PublisherInit
<1>3. /\ Range(messages) = {} /\ 1..made = {} /\ Ascending(<<>>)
      /\ \A a \in Authors : sending[a] = <<>> /\ Range(sending[a]) = {}
  BY <1>1, <1>2, EmptyRange DEF Ascending
<1>4. sending \in [Authors -> Seq(Nat)]
  BY <1>1, <1>2
<1>5. PublisherTypes
  BY <1>1, <1>2, <1>3, <1>4 DEF PublisherTypes
<1>6. BatchSound /\ CallsInOrder /\ \A a \in Authors : FlushSound(a)
  BY <1>2, <1>3 DEF BatchSound, CallsInOrder, FlushSound
<1>7. CallsOnce
  BY <1>2, <1>3 DEF CallsOnce
<1> QED BY <1>5, <1>6, <1>7 DEF PublisherInv

\* Every step keeps the invariant.
LEMMA PublisherStep == PublisherInv /\ [PublisherNext]_publisherVars => PublisherInv'
<1> SUFFICES ASSUME PublisherInv, [PublisherNext]_publisherVars PROVE PublisherInv'
  OBVIOUS
<1>1. CASE UNCHANGED publisherVars
  BY <1>1 DEF publisherVars, PublisherInv, PublisherTypes, BatchSound, FlushSound, CallsInOrder,
     CallsOnce, Settled, ReachedChannel, CallsFor
<1>2. CASE PublisherNext
  BY <1>2, AddMessageKeeps, FlushBatchKeeps, PublishKeeps, PublishFailsKeeps, FlushReturnsKeeps,
     CancelFlushKeeps DEF PublisherNext
<1> QED BY <1>1, <1>2

\* The invariant implies the type invariant and the property.
LEMMA PublisherConsequence ==
  ASSUME PublisherInv PROVE PublisherTypeOK /\ PublishedInOrder
<1>1. /\ messages \in Seq(Nat) /\ made \in Nat
      /\ DOMAIN published = 1..Len(published) /\ Range(messages) \subseteq 1..made
  BY LenProperties DEF PublisherInv, PublisherTypes
<1>2. messages \in Seq(1..made)
  <2>1. Len(messages) \in Nat /\ DOMAIN messages = 1..Len(messages)
    BY <1>1, LenProperties
  <2>2. \A i \in 1..Len(messages) : messages[i] \in 1..made
    BY <1>1, RangeByIndex
  <2>3. messages \in [1..Len(messages) -> Nat]
    BY <1>1, LenProperties
  <2>4. messages \in [1..Len(messages) -> 1..made]
    BY <2>2, <2>3
  <2> QED BY <2>1, <2>4, SeqDef
<1>3. PublisherTypeOK
  BY <1>1, <1>2 DEF PublisherInv, PublisherTypes, PublisherTypeOK
<1>4. ASSUME NEW m \in (1..made) \ (late \cup dropped) PROVE ReachedChannel(m) \/ m \in Range(messages)
  BY <1>4 DEF PublisherInv, BatchSound, Settled
<1>5. ASSUME NEW m \in (1..made) \ (late \cup dropped), NEW n \in (m + 1)..made, NEW i \in CallsFor(n)
      PROVE  \E j \in CallsFor(m) : j < i
  <2>1. n \in 1..made /\ m < n
    BY <1>1
  <2> QED BY <2>1 DEF PublisherInv, CallsInOrder
<1> QED BY <1>3, <1>4, <1>5 DEF PublishedInOrder, PublisherInv, CallsOnce

\* However flushes overlap, fail or are cancelled: a message that was added while
\* nobody flushed stays in the batch until it reached the channel or was given up,
\* and no later one reaches the channel before it; and none reaches it twice if
\* flushes neither overlap nor are cancelled.
THEOREM BatchesInOrder == PublisherSpec => []PublishedInOrder
<1> QED BY PublisherInitially, PublisherStep, PublisherConsequence, PTL DEF PublisherSpec

-----------------------------------------------------------------------------
(* The pipeline. *)

PipeValues == 1..MaxItems \cup {Nil}
PipeOwner == [phase : {"out", "setup", "inside", "cleanup"}, at : 0..LastStage, batch : Seq(PipeValues)]
PipeJob == [value : PipeValues, at : Stages, batch : Seq(PipeValues)]

\* Who is in process_batch() of the stage s: a call of process(), or cleanup().
InJob(t, s) == job[t] # Nil /\ job[t].at = s /\ job[t].batch # <<>>
Cleaning(s) == owner.phase = "cleanup" /\ owner.at = s /\ owner.batch # <<>>

\* What makes BatchedOnce inductive: nobody else is in process_batch() of the
\* stage, and what it is processing there is all that the stage holds.
StageSound(s) ==
  /\ arrived[s] = batched[s] \o batch[s]
  /\ stage[s] = "clean" => batch[s] = <<>>
  /\ \A t \in Callers : InJob(t, s) =>
       batch[s] = job[t].batch /\ ~Cleaning(s) /\ \A u \in Callers : InJob(u, s) => u = t
  /\ Cleaning(s) => batch[s] = owner.batch

PipeTypes ==
  /\ owner \in PipeOwner /\ stage \in [Stages -> {"new", "ready", "clean"}]
  /\ job \in [Callers -> PipeJob \cup {Nil}] /\ begun \in 0..MaxItems
  /\ batch \in [Stages -> Seq(PipeValues)] /\ arrived \in [Stages -> Seq(PipeValues)]
  /\ batched \in [Stages -> Seq(PipeValues)] /\ overlap \subseteq Stages

PipeInv ==
  /\ PipeTypes
  /\ running <=> owner.phase = "inside"
  /\ owner.phase \in {"setup", "cleanup"} => owner.at \in Stages
  /\ owner.phase = "setup" => \A s \in Stages : s < owner.at => stage[s] = "ready"
  /\ owner.phase = "inside" => \A s \in Stages : stage[s] = "ready"
  /\ \A s \in Stages : Kinds[s] # "batch" => batch[s] = <<>>
  /\ \A s \in Stages \ overlap : StageSound(s)

\* The stages are numbered from one.
LEMMA StagesNumbered ==
  /\ Stages = 1..LastStage /\ LastStage \in Nat \ {0} /\ 1 \in Stages /\ LastStage \in Stages
  /\ Out \in PipeOwner /\ <<>> \in Seq(PipeValues)
<1>1. Stages = 1..LastStage /\ LastStage \in Nat \ {0}
  BY PipelineAssumption, LenProperties, EmptySeq DEF Stages, LastStage
<1>2. <<>> \in Seq(PipeValues)
  BY EmptySeq
<1> QED BY <1>1, <1>2 DEF Out, PipeOwner

\* The owner of the block moves on, and no batch.
LEMMA OwnerMovesKeeps ==
  ASSUME PipeInv, owner' \in PipeOwner, UNCHANGED <<job, batch, arrived, batched, overlap, begun>>,
         owner'.phase = "cleanup" => owner'.batch = <<>>, stage' \in [Stages -> {"new", "ready", "clean"}],
         \A s \in Stages : stage'[s] \in {stage[s], "ready"},
         running' <=> owner'.phase = "inside",
         owner'.phase \in {"setup", "cleanup"} => owner'.at \in Stages,
         owner'.phase = "setup" => \A s \in Stages : s < owner'.at => stage'[s] = "ready",
         owner'.phase = "inside" => \A s \in Stages : stage'[s] = "ready"
  PROVE  PipeInv'
<1>1. ASSUME NEW s \in Stages \ overlap' PROVE StageSound(s)'
  <2>1. StageSound(s) /\ ~Cleaning(s)' /\ \A t : InJob(t, s)' <=> InJob(t, s)
    BY DEF PipeInv, Cleaning, InJob
  <2> QED BY <2>1 DEF StageSound
<1>2. PipeTypes'
  BY DEF PipeInv, PipeTypes
<1> QED BY <1>1, <1>2 DEF PipeInv

\* __aenter__(), __aexit__() and a failure in one of them.
LEMMA BlockKeeps ==
  ASSUME PipeInv, Enter \/ SetUp \/ Exit \/ BlockFails
  PROVE  PipeInv'
<1>1. /\ owner \in PipeOwner /\ stage \in [Stages -> {"new", "ready", "clean"}]
      /\ UNCHANGED <<job, batch, arrived, batched, overlap, begun>>
  BY DEF PipeInv, PipeTypes, Enter, SetUp, Exit, BlockFails
<1>2. CASE Enter
  <2>1. owner' = [phase |-> "setup", at |-> 1, batch |-> <<>>] /\ UNCHANGED <<running, stage>>
        /\ owner.phase = "out"
    BY <1>2 DEF Enter, Out
  <2>2. owner' \in PipeOwner /\ \A s \in Stages : ~(s < 1)
    BY <2>1, StagesNumbered DEF PipeOwner
  <2>3. ~running
    BY <2>1 DEF PipeInv
  <2> QED BY <1>1, <2>1, <2>2, <2>3, StagesNumbered, OwnerMovesKeeps
<1>3. CASE SetUp
  <2>1. /\ owner.phase = "setup" /\ owner.at \in Stages /\ stage' = [stage EXCEPT ![owner.at] = "ready"]
        /\ \A s \in Stages : s < owner.at => stage[s] = "ready"
        /\ ~running
    BY <1>3 DEF SetUp, PipeInv
  <2>2. /\ stage' \in [Stages -> {"new", "ready", "clean"}]
        /\ \A s \in Stages : stage'[s] = IF s = owner.at THEN "ready" ELSE stage[s]
    BY <1>1, <2>1
  <2>3. CASE owner.at < LastStage /\ owner' = [owner EXCEPT !.at = @ + 1] /\ UNCHANGED running
    <3>1. owner.at + 1 \in 0..LastStage /\ owner.at + 1 \in Stages
      BY <2>1, <2>3, StagesNumbered
    <3>2. owner' = [owner EXCEPT !.at = owner.at + 1]
      BY <2>3
    <3>3. owner' \in PipeOwner /\ owner'.phase = "setup" /\ owner'.at = owner.at + 1
      BY <1>1, <2>1, <3>1, <3>2 DEF PipeOwner
    <3>4. \A s \in Stages : s < owner'.at => stage'[s] = "ready"
      BY <2>1, <2>2, <3>3, StagesNumbered
    <3> QED BY <1>1, <2>1, <2>2, <2>3, <3>1, <3>3, <3>4, OwnerMovesKeeps
  <2>4. CASE ~(owner.at < LastStage) /\ owner' = [Out EXCEPT !.phase = "inside"] /\ running' = TRUE
    <3>1. owner' = [phase |-> "inside", at |-> 0, batch |-> <<>>]
      BY <2>4 DEF Out
    <3>2. owner' \in PipeOwner
      BY <3>1, StagesNumbered DEF PipeOwner
    <3>3. \A s \in Stages : stage'[s] = "ready"
      BY <2>1, <2>2, <2>4, StagesNumbered
    <3> QED BY <1>1, <2>2, <2>4, <3>1, <3>2, <3>3, OwnerMovesKeeps
  <2> QED BY <1>3, <2>3, <2>4 DEF SetUp
<1>4. CASE Exit
  <2>1. owner' = [phase |-> "cleanup", at |-> LastStage, batch |-> <<>>] /\ UNCHANGED stage
        /\ running' = FALSE
    BY <1>4 DEF Exit, Out
  <2>2. owner' \in PipeOwner
    BY <2>1, StagesNumbered DEF PipeOwner
  <2> QED BY <1>1, <2>1, <2>2, StagesNumbered, OwnerMovesKeeps
<1>5. CASE BlockFails
  <2>1. owner' = Out /\ UNCHANGED <<running, stage>> /\ ~running
    BY <1>5 DEF BlockFails, PipeInv
  <2>2. owner' \in PipeOwner /\ owner'.phase = "out" /\ owner'.batch = <<>>
    BY <2>1, StagesNumbered DEF Out
  <2> QED BY <1>1, <2>1, <2>2, OwnerMovesKeeps
<1> QED BY <1>2, <1>3, <1>4, <1>5

\* cleanup() of a stage: its last batch is passed on, or it is clean.
LEMMA CleanUpKeeps ==
  ASSUME PipeInv, CleanUp
  PROVE  PipeInv'
<1> DEFINE s == owner.at
<1>1. /\ owner \in PipeOwner /\ stage \in [Stages -> {"new", "ready", "clean"}]
      /\ owner.phase = "cleanup" /\ s \in Stages /\ s \in 1..LastStage /\ ~running
      /\ UNCHANGED <<running, job, arrived, begun>>
      /\ \A t, u : InJob(t, u)' <=> InJob(t, u)
  BY StagesNumbered DEF PipeInv, PipeTypes, CleanUp, InJob
<1>2. /\ batch \in [Stages -> Seq(PipeValues)] /\ batched \in [Stages -> Seq(PipeValues)]
      /\ arrived \in [Stages -> Seq(PipeValues)] /\ overlap \subseteq Stages
      /\ \A u \in Stages \ overlap : StageSound(u)
      /\ \A u \in Stages : Kinds[u] # "batch" => batch[u] = <<>>
  BY DEF PipeInv, PipeTypes
<1>3. CASE /\ Kinds[s] = "batch" /\ owner.batch = <<>> /\ batch[s] # <<>>
           /\ owner' = [owner EXCEPT !.batch = batch[s]]
           /\ overlap' = IF InBatch(s) THEN overlap \cup {s} ELSE overlap
           /\ UNCHANGED <<stage, batch, batched>>
  <2>1. /\ owner' \in PipeOwner /\ owner'.phase = "cleanup" /\ owner'.at = s /\ owner'.batch = batch[s]
    BY <1>1, <1>2, <1>3 DEF PipeOwner
  <2>2. ASSUME NEW u \in Stages \ overlap' PROVE StageSound(u)'
    <3>1. StageSound(u)
      BY <1>2, <1>3, <2>2
    <3>2. CASE u = s
      <4>1. \A t \in Callers : ~InJob(t, s)
        BY <1>3, <2>2, <3>2 DEF InBatch, InJob
      <4> QED BY <1>1, <1>3, <2>1, <3>1, <3>2, <4>1 DEF StageSound, Cleaning
    <3>3. CASE u # s
      <4>1. ~Cleaning(u)' /\ ~Cleaning(u)
        BY <1>1, <2>1, <3>3 DEF Cleaning
      <4> QED BY <1>1, <1>3, <3>1, <4>1 DEF StageSound
    <3> QED BY <3>2, <3>3
  <2>3. overlap' \subseteq Stages
    BY <1>1, <1>2, <1>3
  <2> QED BY <1>1, <1>3, <2>1, <2>2, <2>3 DEF PipeInv, PipeTypes
<1>4. CASE /\ ~(Kinds[s] = "batch" /\ owner.batch = <<>> /\ batch[s] # <<>>)
           /\ owner' = IF s = 1 THEN Out ELSE [owner EXCEPT !.at = s - 1, !.batch = <<>>]
           /\ stage' = [stage EXCEPT ![s] = "clean"] /\ UNCHANGED overlap
           /\ IF owner.batch = <<>> THEN UNCHANGED <<batch, batched>> ELSE BatchDone(s, owner.batch)
  <2>1. /\ owner' \in PipeOwner /\ owner'.batch = <<>> /\ owner'.phase \in {"out", "cleanup"}
        /\ owner'.phase = "cleanup" => owner'.at \in Stages
    <3>1. CASE s = 1
      BY <1>4, <3>1, StagesNumbered DEF Out
    <3>2. CASE s # 1
      <4>1. s - 1 \in 0..LastStage /\ s - 1 \in Stages /\ <<>> \in Seq(PipeValues)
        BY <1>1, <3>2, StagesNumbered
      <4> HIDE DEF s
      <4>2. owner' = [owner EXCEPT !.at = s - 1, !.batch = <<>>]
        BY <1>4, <3>2
      <4> QED BY <1>1, <4>1, <4>2 DEF PipeOwner
    <3> QED BY <3>1, <3>2
  <2>2. /\ stage' \in [Stages -> {"new", "ready", "clean"}] /\ \A u \in Stages \ {s} : stage'[u] = stage[u]
    BY <1>1, <1>4
  <2>3. /\ batch' \in [Stages -> Seq(PipeValues)] /\ batched' \in [Stages -> Seq(PipeValues)]
        /\ batch'[s] = <<>>
        /\ batched'[s] = IF owner.batch = <<>> THEN batched[s] ELSE batched[s] \o owner.batch
        /\ \A u \in Stages \ {s} : batch'[u] = batch[u] /\ batched'[u] = batched[u]
    <3>1. CASE owner.batch = <<>>
      BY <1>1, <1>2, <1>4, <3>1
    <3>2. CASE owner.batch # <<>>
      <4>1. batched[s] \o owner.batch \in Seq(PipeValues)
        BY <1>1, <1>2, ConcatProperties DEF PipeOwner
      <4> QED BY <1>1, <1>2, <1>4, <3>2, <4>1, StagesNumbered DEF BatchDone
    <3> QED BY <3>1, <3>2
  <2>4. ASSUME NEW u \in Stages \ overlap' PROVE StageSound(u)'
    <3>1. StageSound(u) /\ ~Cleaning(u)'
      BY <1>2, <1>4, <2>1, <2>4 DEF Cleaning
    <3>2. CASE u = s
      <4>1. CASE owner.batch = <<>>
        <5>1. batch[s] = <<>>
          BY <1>1, <1>2, <1>4, <4>1
        <5>2. \A t \in Callers : ~InJob(t, s)
          BY <3>1, <3>2, <5>1 DEF StageSound, InJob
        <5> QED BY <1>1, <2>3, <3>1, <3>2, <4>1, <5>1, <5>2 DEF StageSound
      <4>2. CASE owner.batch # <<>>
        <5>1. Cleaning(s)
          BY <1>1, <4>2 DEF Cleaning
        <5>2. batch[s] = owner.batch /\ \A t \in Callers : ~InJob(t, s)
          BY <3>1, <3>2, <5>1 DEF StageSound
        <5>3. arrived[s] = batched'[s] /\ batched'[s] \in Seq(PipeValues)
          BY <1>1, <2>3, <3>1, <3>2, <4>2, <5>2 DEF StageSound
        <5>4. arrived'[s] = batched'[s] \o batch'[s]
          BY <1>1, <2>3, <5>3, ConcatEmptySeq
        <5> QED BY <1>1, <2>3, <3>1, <3>2, <5>2, <5>4 DEF StageSound
      <4> QED BY <4>1, <4>2
    <3>3. CASE u # s
      <4>1. ~Cleaning(u)
        BY <1>1, <3>3 DEF Cleaning
      <4> QED BY <1>1, <2>2, <2>3, <3>1, <3>3, <4>1 DEF StageSound
    <3> QED BY <3>2, <3>3
  <2>5. PipeTypes'
    BY <1>1, <1>2, <1>4, <2>1, <2>2, <2>3 DEF PipeInv, PipeTypes
  <2> QED BY <1>1, <1>2, <1>4, <2>1, <2>3, <2>4, <2>5 DEF PipeInv
<1> QED BY <1>3, <1>4 DEF CleanUp

\* A call moves on or ends, and holds no batch any more.
LEMMA JobMovesKeeps ==
  ASSUME PipeInv, NEW t \in Callers, NEW j \in PipeJob \cup {Nil}, job' = [job EXCEPT ![t] = j],
         j # Nil => j.batch = <<>>, begun' \in 0..MaxItems,
         UNCHANGED <<running, owner, stage, batch, arrived, batched, overlap>>
  PROVE  PipeInv'
<1>1. job' \in [Callers -> PipeJob \cup {Nil}] /\ job'[t] = j
      /\ \A u \in Callers \ {t} : job'[u] = job[u]
  BY DEF PipeInv, PipeTypes
<1>2. \A u \in Callers, s \in Stages : InJob(u, s)' => InJob(u, s) /\ job'[u] = job[u]
  BY <1>1 DEF InJob
<1>3. ASSUME NEW s \in Stages \ overlap' PROVE StageSound(s)'
  <2>1. StageSound(s) /\ (Cleaning(s)' <=> Cleaning(s))
    BY DEF PipeInv, Cleaning
  <2> QED BY <1>2, <2>1 DEF StageSound
<1>4. PipeTypes'
  BY <1>1 DEF PipeInv, PipeTypes
<1> QED BY <1>3, <1>4 DEF PipeInv

\* What a stage hands to the next one.
LEMMA PassOnEffect ==
  ASSUME PipeInv, NEW t \in Callers, job[t] # Nil, NEW v \in PipeValues, PassOn(t, v)
  PROVE  \E j \in PipeJob \cup {Nil} :
           job' = [job EXCEPT ![t] = j] /\ (j # Nil => j.batch = <<>>)
<1>1. job[t] \in PipeJob /\ job[t].at \in Stages
  BY DEF PipeInv, PipeTypes, PipeJob
<1> DEFINE j == IF job[t].at = LastStage THEN Nil
                ELSE [value |-> v, at |-> job[t].at + 1, batch |-> <<>>]
<1>2. job' = [job EXCEPT ![t] = j]
  BY DEF PassOn
<1>3. job[t].at # LastStage => job[t].at + 1 \in Stages
  BY <1>1, StagesNumbered
<1>4. j \in PipeJob \cup {Nil} /\ (j # Nil => j.batch = <<>>)
  BY <1>3, StagesNumbered DEF PipeJob
<1> QED BY <1>2, <1>4

\* process() begins.
LEMMA ProcessKeeps ==
  ASSUME PipeInv, NEW t \in Callers, Process(t)
  PROVE  PipeInv'
<1> DEFINE j == [value |-> begun + 1, at |-> 1, batch |-> <<>>]
<1>1. /\ job' = [job EXCEPT ![t] = j] /\ begun' = begun + 1 /\ begun < MaxItems
      /\ UNCHANGED <<running, owner, stage, batch, arrived, batched, overlap>>
      /\ begun \in 0..MaxItems /\ MaxItems \in Nat
  BY PipelineAssumption DEF Process, PipeInv, PipeTypes
<1>2. begun' \in 0..MaxItems /\ begun + 1 \in PipeValues
  BY <1>1 DEF PipeValues
<1>3. j \in PipeJob /\ j.batch = <<>>
  BY <1>2, StagesNumbered DEF PipeJob
<1> HIDE DEF j
<1> QED BY <1>1, <1>2, <1>3, JobMovesKeeps

\* A map or a filter returns; a stage raises or is cancelled.
LEMMA StageEndsKeeps ==
  ASSUME PipeInv, NEW t \in Callers, StageReturns(t) \/ StageFails(t)
  PROVE  PipeInv'
<1>1. /\ UNCHANGED <<running, owner, stage, batch, arrived, batched, overlap, begun>>
      /\ job[t] # Nil /\ begun' \in 0..MaxItems
  BY DEF StageReturns, StageFails, PipeInv, PipeTypes
<1>2. job[t].value \in PipeValues /\ Nil \in PipeValues
  BY <1>1 DEF PipeInv, PipeTypes, PipeJob, PipeValues
<1>3. CASE StageReturns(t)
  <2>1. PassOn(t, job[t].value) \/ PassOn(t, Nil)
    BY <1>3 DEF StageReturns
  <2>2. PICK j \in PipeJob \cup {Nil} : job' = [job EXCEPT ![t] = j] /\ (j # Nil => j.batch = <<>>)
    BY <1>1, <1>2, <2>1, PassOnEffect
  <2> QED BY <1>1, <2>2, JobMovesKeeps
<1>4. CASE StageFails(t)
  <2>1. job' = [job EXCEPT ![t] = Nil]
    BY <1>4 DEF StageFails
  <2> QED BY <1>1, <2>1, JobMovesKeeps
<1> QED BY <1>3, <1>4

\* A batch stage takes an item; with the last one that fits, its batch is processed.
LEMMA AddToBatchKeeps ==
  ASSUME PipeInv, NEW t \in Callers, AddToBatch(t)
  PROVE  PipeInv'
<1> DEFINE s == job[t].at
           v == job[t].value
           b == Append(batch[s], v)
<1>1. /\ job[t] # Nil /\ job[t] \in PipeJob /\ s \in Stages /\ v \in PipeValues /\ Kinds[s] = "batch"
      /\ UNCHANGED <<running, owner, stage, batched, begun>> /\ job[t].batch = <<>>
      /\ arrived' = [arrived EXCEPT ![s] = Append(@, v)] /\ batch' = [batch EXCEPT ![s] = b]
      /\ overlap' = IF InBatch(s) \/ stage[s] = "clean" THEN overlap \cup {s} ELSE overlap
  BY DEF AddToBatch, PipeInv, PipeTypes, PipeJob, Kept
<1>2. /\ job \in [Callers -> PipeJob \cup {Nil}] /\ batched \in [Stages -> Seq(PipeValues)]
      /\ batch \in [Stages -> Seq(PipeValues)] /\ arrived \in [Stages -> Seq(PipeValues)]
      /\ overlap \subseteq Stages
      /\ \A u \in Stages \ overlap : StageSound(u)
      /\ \A u \in Stages : Kinds[u] # "batch" => batch[u] = <<>>
  BY DEF PipeInv, PipeTypes
<1>3. b \in Seq(PipeValues) /\ Append(arrived[s], v) \in Seq(PipeValues)
  BY <1>1, <1>2, AppendProperties
<1>4. /\ batch' \in [Stages -> Seq(PipeValues)] /\ arrived' \in [Stages -> Seq(PipeValues)]
      /\ batch'[s] = b /\ arrived'[s] = Append(arrived[s], v) /\ overlap' \subseteq Stages
      /\ \A u \in Stages \ {s} : batch'[u] = batch[u] /\ arrived'[u] = arrived[u]
  <2> HIDE DEF b, s, v
  <2> QED BY <1>1, <1>2, <1>3
<1>5. PICK j \in PipeJob \cup {Nil} :
        job' = [job EXCEPT ![t] = j] /\ (j # Nil /\ j.batch # <<>> => j.at = s /\ j.batch = b)
  <2>1. CASE Len(b) >= StageBatch /\ job' = [job EXCEPT ![t].batch = b]
    <3> DEFINE j == [job[t] EXCEPT !.batch = b]
    <3>1. job' = [job EXCEPT ![t] = j]
      BY <2>1
    <3>2. j \in PipeJob /\ j.at = s /\ j.batch = b
      BY <1>1, <1>3 DEF PipeJob
    <3> QED BY <3>1, <3>2
  <2>2. CASE ~(Len(b) >= StageBatch) /\ PassOn(t, Nil)
    BY <1>1, <2>2, PassOnEffect DEF PipeValues
  <2> QED BY <2>1, <2>2 DEF AddToBatch
<1> HIDE DEF b, s, v
<1>6. /\ job' \in [Callers -> PipeJob \cup {Nil}] /\ job'[t] = j
      /\ \A u \in Callers \ {t} : job'[u] = job[u]
  BY <1>2, <1>5
<1>7. ASSUME NEW u \in Stages \ overlap' PROVE StageSound(u)'
  <2>1. StageSound(u) /\ (Cleaning(u)' <=> Cleaning(u))
    BY <1>1, <1>2, <1>7 DEF Cleaning
  <2>2. CASE u = s
    <3>1. /\ \A w \in Callers : ~InJob(w, u)
          /\ ~Cleaning(u) /\ stage[u] # "clean"
      BY <1>1, <1>7, <2>2 DEF InBatch, InJob, Cleaning
    <3>2. \A w \in Callers : InJob(w, u)' => w = t /\ job'[w].batch = batch'[u]
      <4>1. \A w \in Callers \ {t} : ~InJob(w, u)'
        BY <1>6, <3>1 DEF InJob
      <4>2. InJob(t, u)' => job'[t].batch = batch'[u]
        BY <1>4, <1>5, <1>6, <2>2 DEF InJob
      <4> QED BY <4>1, <4>2
    <3>3. arrived'[u] = batched[u] \o batch'[u]
      <4>1. /\ batched[u] \in Seq(PipeValues) /\ batch[u] \in Seq(PipeValues)
            /\ arrived[u] \in Seq(PipeValues)
        BY <1>2
      <4> DEFINE w == <<v>>
      <4>2. w \in Seq(PipeValues)
        BY <1>1
      <4>3. b = batch[u] \o w /\ Append(arrived[u], v) = arrived[u] \o w
        <5>1. v \in PipeValues /\ b = Append(batch[u], v)
          BY <1>1, <2>2 DEF b
        <5>2. PICK x, y : x = batch[u] /\ y = arrived[u]
          OBVIOUS
        <5>3. x \in Seq(PipeValues) /\ y \in Seq(PipeValues)
          BY <4>1, <5>2
        <5>4. Append(x, v) = x \o w /\ Append(y, v) = y \o w
          BY <5>1, <5>3, AppendIsConcat
        <5> QED BY <5>1, <5>2, <5>4
      <4> DEFINE x == batched[u]
                 y == batch[u]
      <4>4. x \in Seq(PipeValues) /\ y \in Seq(PipeValues)
        BY <4>1
      <4> HIDE DEF w, x, y
      <4>5. (x \o y) \o w = x \o (y \o w)
        BY <4>2, <4>4, ConcatAssociative
      <4> QED BY <1>4, <2>1, <2>2, <4>3, <4>5 DEF StageSound, x, y
    <3>4. batched'[u] = batched[u] /\ stage'[u] = stage[u] /\ ~Cleaning(u)'
      BY <1>1, <2>1, <3>1
    <3> QED BY <3>1, <3>2, <3>3, <3>4 DEF StageSound
  <2>3. CASE u # s
    <3>1. \A w \in Callers : InJob(w, u)' => InJob(w, u) /\ job'[w] = job[w]
      BY <1>5, <1>6, <2>3 DEF InJob
    <3>2. /\ batched'[u] = batched[u] /\ stage'[u] = stage[u] /\ owner' = owner
          /\ batch'[u] = batch[u] /\ arrived'[u] = arrived[u]
      BY <1>1, <1>4, <2>3
    <3> QED BY <2>1, <3>1, <3>2 DEF StageSound
  <2> QED BY <2>2, <2>3
<1>8. PipeTypes'
  BY <1>1, <1>2, <1>4, <1>6 DEF PipeInv, PipeTypes
<1> QED BY <1>1, <1>2, <1>4, <1>7, <1>8 DEF PipeInv

\* process_batch() returns: the batch is passed on.
LEMMA BatchReturnsKeeps ==
  ASSUME PipeInv, NEW t \in Callers, BatchReturns(t)
  PROVE  PipeInv'
<1> DEFINE s == job[t].at
           b == job[t].batch
<1>1. /\ job[t] # Nil /\ job[t] \in PipeJob /\ s \in Stages /\ b \in Seq(PipeValues) /\ b # <<>>
      /\ job[t].value \in PipeValues /\ PassOn(t, job[t].value) /\ InJob(t, s)
      /\ UNCHANGED <<running, owner, stage, arrived, overlap, begun>>
      /\ batch' = [batch EXCEPT ![s] = <<>>] /\ batched' = [batched EXCEPT ![s] = @ \o b]
  BY DEF BatchReturns, BatchDone, PipeInv, PipeTypes, PipeJob, InJob
<1>2. /\ job \in [Callers -> PipeJob \cup {Nil}] /\ batched \in [Stages -> Seq(PipeValues)]
      /\ batch \in [Stages -> Seq(PipeValues)] /\ arrived \in [Stages -> Seq(PipeValues)]
      /\ \A u \in Stages \ overlap : StageSound(u)
      /\ \A u \in Stages : Kinds[u] # "batch" => batch[u] = <<>>
  BY DEF PipeInv, PipeTypes
<1>3. PICK j \in PipeJob \cup {Nil} : job' = [job EXCEPT ![t] = j] /\ (j # Nil => j.batch = <<>>)
  BY <1>1, PassOnEffect
<1>4. /\ job' \in [Callers -> PipeJob \cup {Nil}] /\ job'[t] = j
      /\ \A w \in Callers \ {t} : job'[w] = job[w]
      /\ \A w \in Callers, u \in Stages : InJob(w, u)' => w # t /\ InJob(w, u)
  BY <1>2, <1>3 DEF InJob
<1>5. batched[s] \o b \in Seq(PipeValues)
  BY <1>1, <1>2, ConcatProperties
<1> HIDE DEF s, b
<1>6. /\ batch' \in [Stages -> Seq(PipeValues)] /\ batched' \in [Stages -> Seq(PipeValues)]
      /\ batch'[s] = <<>> /\ batched'[s] = batched[s] \o b
      /\ \A u \in Stages \ {s} : batch'[u] = batch[u] /\ batched'[u] = batched[u]
  BY <1>1, <1>2, <1>5, StagesNumbered
<1>7. ASSUME NEW u \in Stages \ overlap' PROVE StageSound(u)'
  <2>1. StageSound(u) /\ (Cleaning(u)' <=> Cleaning(u))
    BY <1>1, <1>2, <1>7 DEF Cleaning
  <2>2. CASE u = s
    <3>1. batch[u] = b /\ ~Cleaning(u) /\ \A w \in Callers : InJob(w, u) => w = t
      BY <1>1, <2>1, <2>2 DEF StageSound, b
    <3>2. \A w \in Callers : ~InJob(w, u)'
      BY <1>4, <3>1
    <3>3. arrived'[u] = batched'[u] \o batch'[u]
      <4>1. arrived'[u] = batched'[u] /\ batched'[u] \in Seq(PipeValues)
        BY <1>1, <1>6, <2>1, <2>2, <3>1 DEF StageSound
      <4> QED BY <1>6, <2>2, <4>1, ConcatEmptySeq
    <3>4. ~Cleaning(u)' /\ batch'[u] = <<>>
      BY <1>6, <2>1, <2>2, <3>1
    <3> QED BY <3>2, <3>3, <3>4 DEF StageSound
  <2>3. CASE u # s
    <3>1. \A w \in Callers : InJob(w, u)' => InJob(w, u) /\ job'[w] = job[w]
      BY <1>4
    <3>2. /\ batched'[u] = batched[u] /\ stage'[u] = stage[u] /\ owner' = owner
          /\ batch'[u] = batch[u] /\ arrived'[u] = arrived[u]
      BY <1>1, <1>6, <2>3
    <3> QED BY <2>1, <3>1, <3>2 DEF StageSound
  <2> QED BY <2>2, <2>3
<1>8. PipeTypes'
  BY <1>1, <1>4, <1>6 DEF PipeInv, PipeTypes
<1> QED BY <1>1, <1>2, <1>6, <1>7, <1>8 DEF PipeInv

\* Nothing was given to any stage at first.
LEMMA PipeInitially ==
  ASSUME PipeInit PROVE PipeInv
<1>1. /\ owner = Out /\ running = FALSE /\ begun = 0 /\ overlap = {}
      /\ stage = [s \in Stages |-> "new"] /\ job = [t \in Callers |-> Nil]
      /\ batch = [s \in Stages |-> <<>>] /\ arrived = [s \in Stages |-> <<>>]
      /\ batched = [s \in Stages |-> <<>>]
  BY DEF PipeInit
<1>2. owner.phase = "out" /\ 0 \in 0..MaxItems
  BY <1>1, PipelineAssumption DEF Out
<1>3. PipeTypes
  BY <1>1, <1>2, StagesNumbered DEF PipeTypes
<1>4. ASSUME NEW s \in Stages PROVE StageSound(s)
  <2>1. /\ arrived[s] = <<>> /\ batched[s] = <<>> /\ batch[s] = <<>> /\ ~Cleaning(s)
        /\ stage[s] = "new" /\ \A t \in Callers : ~InJob(t, s)
    BY <1>1, <1>2 DEF Cleaning, InJob
  <2>2. <<>> \o <<>> = <<>>
    BY StagesNumbered, ConcatEmptySeq
  <2> QED BY <2>1, <2>2 DEF StageSound
<1> QED BY <1>1, <1>2, <1>3, <1>4 DEF PipeInv

\* Every step keeps the invariant.
LEMMA PipeStep == PipeInv /\ [PipeNext]_pipeVars => PipeInv'
<1> SUFFICES ASSUME PipeInv, [PipeNext]_pipeVars PROVE PipeInv'
  OBVIOUS
<1>1. CASE UNCHANGED pipeVars
  BY <1>1 DEF pipeVars, PipeInv, PipeTypes, StageSound, Cleaning, InJob
<1>2. CASE PipeNext
  BY <1>2, BlockKeeps, CleanUpKeeps, ProcessKeeps, StageEndsKeeps, AddToBatchKeeps,
     BatchReturnsKeeps DEF PipeNext
<1> QED BY <1>1, <1>2

\* The invariant implies the type invariant and the property.
LEMMA PipeConsequence ==
  ASSUME PipeInv PROVE PipeTypeOK /\ BatchedOnce
<1>1. \A t \in Callers : job[t] # Nil => job[t].at \in Stages
  BY DEF PipeInv, PipeTypes, PipeJob
<1>2. owner.phase \in {"out", "setup", "inside", "cleanup"} /\ owner.at \in 0..LastStage
  BY DEF PipeInv, PipeTypes, PipeOwner
<1> QED BY <1>1, <1>2 DEF PipeInv, PipeTypes, PipeTypeOK, BatchedOnce, StageSound

\* A batch stage that one call uses at a time loses nothing and passes nothing on
\* twice, although process_batch() fails and is repeated.
THEOREM StagesBatchOnce == PipeSpec => []BatchedOnce
<1> QED BY PipeInitially, PipeStep, PipeConsequence, PTL DEF PipeSpec

-----------------------------------------------------------------------------
(* The buffered pipeline. *)

Contents == FedItems \cup {EndMark, Failure}

\* x is in line i, at place 2i, or in the hand of stage i, at place 2i + 1.
OnBelt(x, r) ==
  \/ \E i \in 1..NumStages + 1 : r = 2 * i /\ x \in Range(line[i])
  \/ \E i \in Workers : r = 2 * i + 1 /\ hand[i] = x

\* What is further on is older.
Belt ==
  \A x, y \in FedItems : \A r, s \in Nat : OnBelt(x, r) /\ OnBelt(y, s) /\ r < s => y < x

\* What was fed is on the belt, yielded or dropped, and nowhere else.
Accounted ==
  /\ \A x \in FedItems : x \in 1..fed <=>
       x \in absorbed \/ x \in Range(yielded) \/ \E r \in Nat : OnBelt(x, r)
  /\ \A x \in Range(yielded) : \A y \in FedItems : \A r \in Nat :
       OnBelt(y, r) => y # x /\ (r <= 2 * NumStages => x < y)
  /\ \A x \in absorbed : x \notin Range(yielded) /\ \A r \in Nat : ~OnBelt(x, r)

\* Whoever fills line i has put the mark.
MarkedBefore(i) == IF i = 1 THEN phase # "feeding" ELSE stageEnd[i - 1] = "marked"

\* The one end marker is the last thing in its line, and behind every stage that
\* it has ended.
MarkSound ==
  /\ \A i \in 1..NumStages + 1 : EndMark \in Range(line[i]) => MarkedBefore(i)
  /\ \A i \in 1..NumStages + 1 : \A p \in 1..Len(line[i]) : line[i][p] = EndMark => p = Len(line[i])
  /\ \A i \in Workers : stageEnd[i] = "marked" =>
       hand[i] = EndMark /\ EndMark \notin Range(line[i]) /\ MarkedBefore(i)

BufferTypes ==
  /\ line \in [1..NumStages + 1 -> Seq(Contents)] /\ hand \in [Workers -> Contents]
  /\ stageEnd \in [Workers -> {"no", "marked", "raised"}]
  /\ phase \in {"feeding", "reading", "gathering", "returned", "left"}
  /\ fed \in 0..MaxFed /\ yielded \in Seq(FedItems) /\ results \in Seq(FedItems)
  /\ absorbed \subseteq FedItems

\* The room a stage has found stays free until it puts its result there.
Room ==
  /\ \A i \in Workers : Len(line[i]) <= BufferSize
  /\ \A i \in Workers : i < NumStages /\ hand[i] # EndMark => Len(line[i + 1]) < BufferSize

BufferInv ==
  /\ BufferTypes /\ Room /\ Belt /\ Accounted /\ MarkSound
  /\ InOrderOf(yielded) /\ \A i \in 1..NumStages + 1 : InOrderOf(line[i])

\* The constants.
LEMMA BufferConstants ==
  /\ NumStages \in Nat \ {0} /\ MaxFed \in Nat /\ BufferSize \in Nat \ {0}
  /\ FedItems = 1..MaxFed /\ Workers = 1..NumStages
  /\ EndMark \notin FedItems /\ Failure \notin FedItems /\ EndMark # Failure
BY BufferAssumption DEF FedItems, Workers

\* What a place holds.
LEMMA BeltPlaces ==
  ASSUME NEW x
  PROVE  /\ \A i \in 1..NumStages + 1 : OnBelt(x, 2 * i) <=> x \in Range(line[i])
         /\ \A i \in Workers : OnBelt(x, 2 * i + 1) <=> hand[i] = x
         /\ \A i \in 1..NumStages + 1 : OnBelt(x, 2 * i)' <=> x \in Range(line'[i])
         /\ \A i \in Workers : OnBelt(x, 2 * i + 1)' <=> hand'[i] = x
<1>1. ASSUME NEW i \in 1..NumStages + 1, NEW j \in Workers PROVE 2 * i # 2 * j + 1
  BY BufferConstants
<1>2. \A i, j \in 1..NumStages + 1 : 2 * i = 2 * j <=> i = j
  BY BufferConstants
<1>3. \A i, j \in Workers : 2 * i + 1 = 2 * j + 1 <=> i = j
  BY BufferConstants
<1>4. /\ \A i \in 1..NumStages + 1 : OnBelt(x, 2 * i) <=> x \in Range(line[i])
      /\ \A i \in Workers : OnBelt(x, 2 * i + 1) <=> hand[i] = x
  BY <1>1, <1>2, <1>3 DEF OnBelt
<1>5. /\ \A i \in 1..NumStages + 1 : OnBelt(x, 2 * i)' <=> x \in Range(line'[i])
      /\ \A i \in Workers : OnBelt(x, 2 * i + 1)' <=> hand'[i] = x
  BY <1>1, <1>2, <1>3 DEF OnBelt
<1> QED BY <1>4, <1>5

\* The order is kept when the first item of a place moves one place on.
LEMMA BeltAdvances ==
  ASSUME Belt, NEW x \in FedItems, NEW r \in Nat, OnBelt(x, r), ~OnBelt(x, r)',
         \A y \in FedItems : OnBelt(y, r) => y = x \/ x < y,
         \A y \in FedItems : \A s \in Nat : OnBelt(y, s)' => OnBelt(y, s) \/ (y = x /\ s = r + 1)
  PROVE  Belt'
<1> SUFFICES ASSUME NEW y \in FedItems, NEW z \in FedItems, NEW s \in Nat, NEW t \in Nat,
                    OnBelt(y, s)', OnBelt(z, t)', s < t
             PROVE  z < y
  BY DEF Belt
<1>1. x \in Nat /\ y \in Nat /\ z \in Nat
  BY BufferConstants
<1>2. \A u \in Nat : OnBelt(x, u) => u = r
  BY <1>1 DEF Belt
<1>3. \A u \in Nat : OnBelt(x, u)' => u = r + 1
  BY <1>2
<1>4. CASE y = x
  <2>1. s = r + 1 /\ z # x
    BY <1>3, <1>4
  <2>2. OnBelt(z, t) /\ r < t
    BY <2>1
  <2> QED BY <1>4, <2>2 DEF Belt
<1>5. CASE y # x /\ z = x
  <2>1. t = r + 1 /\ OnBelt(y, s) /\ (s < r \/ s = r)
    BY <1>3, <1>5
  <2>2. CASE s < r
    BY <1>5, <2>1, <2>2 DEF Belt
  <2>3. CASE s = r
    BY <1>5, <2>1, <2>3
  <2> QED BY <2>1, <2>2, <2>3
<1>6. CASE y # x /\ z # x
  <2>1. OnBelt(y, s) /\ OnBelt(z, t)
    BY <1>6
  <2> QED BY <2>1 DEF Belt
<1> QED BY <1>4, <1>5, <1>6

\* And so is the account.
LEMMA AccountAdvances ==
  ASSUME Belt, Accounted, NEW x \in FedItems, NEW r \in Nat, OnBelt(x, r), OnBelt(x, r + 1)',
         \A y \in FedItems \ {x} : \A s \in Nat : OnBelt(y, s)' <=> OnBelt(y, s),
         \A s \in Nat : OnBelt(x, s)' => OnBelt(x, s) \/ s = r + 1,
         UNCHANGED <<fed, absorbed, yielded>>, absorbed \subseteq FedItems
  PROVE  Accounted'
<1>1. \A y \in FedItems : y \in 1..fed' <=>
        y \in absorbed' \/ y \in Range(yielded') \/ \E s \in Nat : OnBelt(y, s)'
  <2> SUFFICES ASSUME NEW y \in FedItems
               PROVE  (\E s \in Nat : OnBelt(y, s)') <=> \E s \in Nat : OnBelt(y, s)
    BY DEF Accounted
  <2>1. r + 1 \in Nat
    OBVIOUS
  <2>2. CASE y = x
    BY <2>1, <2>2
  <2>3. CASE y # x
    BY <2>3
  <2> QED BY <2>2, <2>3
<1>2. ASSUME NEW z \in Range(yielded'), NEW y \in FedItems, NEW s \in Nat, OnBelt(y, s)'
      PROVE  y # z /\ (s <= 2 * NumStages => z < y)
  <2>1. CASE OnBelt(y, s)
    BY <1>2, <2>1 DEF Accounted
  <2>2. CASE y = x /\ s = r + 1
    <3>1. y # z /\ (r <= 2 * NumStages => z < y)
      BY <1>2, <2>2 DEF Accounted
    <3> QED BY <2>2, <3>1, BufferConstants
  <2> QED BY <1>2, <2>1, <2>2
<1>3. ASSUME NEW z \in absorbed' PROVE z \notin Range(yielded') /\ \A s \in Nat : ~OnBelt(z, s)'
  <2>1. z # x /\ z \in FedItems /\ z \notin Range(yielded) /\ \A s \in Nat : ~OnBelt(z, s)
    BY <1>3 DEF Accounted
  <2> QED BY <2>1
<1> QED BY <1>1, <1>2, <1>3 DEF Accounted

\* Nothing happens to the items.
LEMMA BeltStays ==
  ASSUME Belt, Accounted, \A y \in FedItems : \A s \in Nat : OnBelt(y, s)' <=> OnBelt(y, s),
         UNCHANGED <<fed, absorbed, yielded>>, absorbed \subseteq FedItems
  PROVE  Belt' /\ Accounted'
<1>1. Belt'
  BY DEF Belt
<1>2. \A y \in FedItems : (\E s \in Nat : OnBelt(y, s)') <=> \E s \in Nat : OnBelt(y, s)
  OBVIOUS
<1>3. \A y \in FedItems : y \in 1..fed' <=>
        y \in absorbed' \/ y \in Range(yielded') \/ \E s \in Nat : OnBelt(y, s)'
  BY <1>2 DEF Accounted
<1>4. /\ \A x \in Range(yielded') : \A y \in FedItems : \A r \in Nat :
           OnBelt(y, r)' => y # x /\ (r <= 2 * NumStages => x < y)
      /\ \A x \in absorbed' : x \notin Range(yielded') /\ \A r \in Nat : ~OnBelt(x, r)'
  BY DEF Accounted
<1> QED BY <1>1, <1>3, <1>4 DEF Accounted

\* What comes behind the mark in a line.
MarkLast(s) == \A p \in 1..Len(s) : s[p] = EndMark => p = Len(s)

\* The first thing of a line is taken.
LEMMA LineTail ==
  ASSUME NEW s \in Seq(Contents), s # <<>>, InOrderOf(s), MarkLast(s)
  PROVE  /\ Tail(s) \in Seq(Contents) /\ Len(Tail(s)) = Len(s) - 1 /\ Head(s) \in Contents
         /\ Len(s) \in Nat /\ Range(s) = {Head(s)} \cup Range(Tail(s))
         /\ InOrderOf(Tail(s)) /\ MarkLast(Tail(s))
         /\ Head(s) \in FedItems => \A y \in Range(Tail(s)) \cap FedItems : Head(s) < y
         /\ Head(s) = EndMark => Range(Tail(s)) = {}
<1> DEFINE t == Tail(s)
<1>1. /\ t \in Seq(Contents) /\ Len(t) = Len(s) - 1 /\ Len(s) \in Nat \ {0}
      /\ Head(s) = s[1] /\ \A i \in 1..Len(t) : t[i] = s[i + 1]
  BY HeadTailProperties, LenProperties, EmptySeq
<1>2. Head(s) \in Contents /\ Range(s) = {Head(s)} \cup Range(t)
  BY TailRange
<1> HIDE DEF t
<1>3. InOrderOf(t)
  <2> SUFFICES ASSUME NEW i \in 1..Len(t), NEW j \in 1..Len(t), i < j, {t[i], t[j]} \subseteq FedItems
               PROVE  t[i] < t[j]
    BY DEF InOrderOf
  <2>1. i + 1 \in 1..Len(s) /\ j + 1 \in 1..Len(s) /\ i + 1 < j + 1
    BY <1>1
  <2>2. t[i] = s[i + 1] /\ t[j] = s[j + 1]
    BY <1>1
  <2>3. s[i + 1] < s[j + 1]
    BY <2>1, <2>2 DEF InOrderOf
  <2> QED BY <2>2, <2>3
<1>4. MarkLast(t)
  <2> SUFFICES ASSUME NEW p \in 1..Len(t), t[p] = EndMark PROVE p = Len(t)
    BY DEF MarkLast
  <2>1. p + 1 \in 1..Len(s) /\ s[p + 1] = EndMark
    BY <1>1
  <2> QED BY <1>1, <2>1 DEF MarkLast
<1>5. ASSUME Head(s) \in FedItems, NEW y \in Range(t) \cap FedItems PROVE Head(s) < y
  <2>1. PICK i \in 1..Len(t) : t[i] = y
    BY <1>1, RangeByIndex
  <2>2. 1 \in 1..Len(s) /\ i + 1 \in 1..Len(s) /\ 1 < i + 1 /\ s[i + 1] = y
    BY <1>1, <2>1
  <2>3. s[1] < s[i + 1]
    BY <1>1, <1>5, <2>2 DEF InOrderOf
  <2> QED BY <1>1, <2>2, <2>3
<1>6. ASSUME Head(s) = EndMark PROVE Range(t) = {}
  <2>1. Len(t) = 0
    <3>1. 1 \in 1..Len(s) /\ s[1] = EndMark
      BY <1>1, <1>6
    <3> QED BY <1>1, <3>1 DEF MarkLast
  <2>2. \A e : e \in Range(t) <=> \E i \in 1..Len(t) : t[i] = e
    BY <1>1, RangeByIndex
  <2> QED BY <2>1, <2>2
<1> QED BY <1>1, <1>2, <1>3, <1>4, <1>5, <1>6 DEF t

\* Something is put at the end of a line.
LEMMA LineAppend ==
  ASSUME NEW s \in Seq(Contents), InOrderOf(s), EndMark \notin Range(s), NEW x \in Contents,
         x \in FedItems => \A y \in Range(s) \cap FedItems : y < x
  PROVE  /\ Append(s, x) \in Seq(Contents) /\ Len(Append(s, x)) = Len(s) + 1 /\ Len(s) \in Nat
         /\ Range(Append(s, x)) = Range(s) \cup {x}
         /\ InOrderOf(Append(s, x)) /\ MarkLast(Append(s, x))
<1> DEFINE t == Append(s, x)
<1>1. /\ t \in Seq(Contents) /\ Len(t) = Len(s) + 1 /\ Len(s) \in Nat /\ t[Len(s) + 1] = x
      /\ \A i \in 1..Len(s) : t[i] = s[i] /\ s[i] \in Range(s)
      /\ Range(t) = Range(s) \cup {x}
  BY AppendProperties, LenProperties, RangeByIndex, AppendRange
<1> HIDE DEF t
<1>2. InOrderOf(t)
  <2> SUFFICES ASSUME NEW i \in 1..Len(t), NEW j \in 1..Len(t), i < j, {t[i], t[j]} \subseteq FedItems
               PROVE  t[i] < t[j]
    BY DEF InOrderOf
  <2>1. i \in 1..Len(s)
    BY <1>1
  <2>2. CASE j \in 1..Len(s)
    BY <1>1, <2>1, <2>2 DEF InOrderOf
  <2>3. CASE j = Len(s) + 1
    BY <1>1, <2>1, <2>3
  <2> QED BY <1>1, <2>2, <2>3
<1>3. MarkLast(t)
  <2> SUFFICES ASSUME NEW p \in 1..Len(t), t[p] = EndMark PROVE p = Len(t)
    BY DEF MarkLast
  <2>1. p \notin 1..Len(s)
    BY <1>1
  <2> QED BY <1>1, <2>1
<1> QED BY <1>1, <1>2, <1>3 DEF t

\* A stage that is still working has not been passed by the mark.
LEMMA NotPassed ==
  ASSUME BufferInv, NEW i \in Workers, stageEnd[i] = "no" \/ hand[i] # EndMark
  PROVE  i + 1 \in 1..NumStages + 1 /\ EndMark \notin Range(line[i + 1]) /\ stageEnd[i] # "marked"
<1>1. i + 1 \in 1..NumStages + 1 /\ i + 1 # 1 /\ (i + 1) - 1 = i
  BY BufferConstants
<1>2. stageEnd[i] # "marked"
  BY DEF BufferInv, MarkSound
<1>3. EndMark \in Range(line[i + 1]) => MarkedBefore(i + 1)
  BY <1>1 DEF BufferInv, MarkSound
<1> QED BY <1>1, <1>2, <1>3 DEF MarkedBefore

\* A stage takes an item, or an error, from its line.
LEMMA StageTakesItemKeeps ==
  ASSUME BufferInv, NEW i \in Workers, StageTakes(i), Head(line[i]) # EndMark
  PROVE  BufferInv'
<1>1. PICK x : x = Head(line[i])
  OBVIOUS
<1>2. /\ i \in 1..NumStages + 1 /\ NumStages \in Nat /\ i \in Nat /\ BufferSize \in Nat
  BY BufferConstants
<1>3. /\ line \in [1..NumStages + 1 -> Seq(Contents)] /\ hand \in [Workers -> Contents]
      /\ InOrderOf(line[i]) /\ MarkLast(line[i]) /\ absorbed \subseteq FedItems
  BY <1>2 DEF BufferInv, BufferTypes, MarkSound, MarkLast
<1>4. /\ stageEnd[i] = "no" /\ hand[i] = EndMark /\ ~Full(i + 1) /\ line[i] # <<>>
      /\ hand' = [hand EXCEPT ![i] = x] /\ line' = [line EXCEPT ![i] = Tail(@)]
      /\ UNCHANGED <<stageEnd, phase, fed, yielded, results, absorbed>>
  BY <1>1 DEF StageTakes, TakeFrom
<1>5. /\ line[i] \in Seq(Contents) /\ Tail(line[i]) \in Seq(Contents) /\ x \in Contents
      /\ Len(Tail(line[i])) = Len(line[i]) - 1 /\ Len(line[i]) \in Nat
      /\ Range(line[i]) = {x} \cup Range(Tail(line[i]))
      /\ InOrderOf(Tail(line[i])) /\ MarkLast(Tail(line[i]))
      /\ x \in FedItems => \A y \in Range(Tail(line[i])) \cap FedItems : x < y
  BY <1>1, <1>3, <1>4, <1>2, LineTail
<1>6. /\ line' \in [1..NumStages + 1 -> Seq(Contents)] /\ line'[i] = Tail(line[i])
      /\ \A j \in 1..NumStages + 1 : j # i => line'[j] = line[j]
      /\ hand' \in [Workers -> Contents] /\ hand'[i] = x
      /\ \A j \in Workers : j # i => hand'[j] = hand[j]
  BY <1>2, <1>3, <1>4, <1>5
<1>7. /\ 2 * i \in Nat /\ 2 * i + 1 \in Nat
      /\ \A y \in FedItems : OnBelt(y, 2 * i) <=> y \in Range(line[i])
      /\ \A y \in FedItems : OnBelt(y, 2 * i)' <=> y \in Range(line'[i])
      /\ \A y \in FedItems : OnBelt(y, 2 * i + 1)' <=> hand'[i] = y
  <2>1. 2 * i \in Nat /\ 2 * i + 1 \in Nat
    BY <1>2
  <2>2. ASSUME NEW y \in FedItems
        PROVE  /\ OnBelt(y, 2 * i) <=> y \in Range(line[i])
               /\ OnBelt(y, 2 * i)' <=> y \in Range(line'[i])
               /\ OnBelt(y, 2 * i + 1)' <=> hand'[i] = y
    BY <1>2, BeltPlaces
  <2> QED BY <2>1, <2>2
<1>8. \A y \in FedItems : \A s \in Nat : OnBelt(y, s)' => OnBelt(y, s) \/ (y = x /\ s = 2 * i + 1)
  BY <1>5, <1>6 DEF OnBelt
<1>9. \A y \in FedItems \ {x} : \A s \in Nat : OnBelt(y, s) => OnBelt(y, s)'
  <2>1. \A j \in 1..NumStages + 1 : \A y \in FedItems \ {x} : y \in Range(line[j]) => y \in Range(line'[j])
    BY <1>5, <1>6
  <2>2. \A j \in Workers : \A y \in FedItems \ {x} : hand[j] = y => hand'[j] = y
    BY <1>4, <1>6, BufferConstants
  <2> QED BY <2>1, <2>2 DEF OnBelt
<1>10. Belt' /\ Accounted'
  <2>1. CASE x \in FedItems
    <3>1. ~OnBelt(x, 2 * i)'
      <4>1. ~(x < x)
        BY <2>1, BufferConstants
      <4> QED BY <1>5, <1>6, <1>7, <2>1, <4>1
    <3>2. \A y \in FedItems : OnBelt(y, 2 * i) => y = x \/ x < y
      BY <1>5, <1>7, <2>1
    <3>3. OnBelt(x, 2 * i) /\ OnBelt(x, 2 * i + 1)'
      BY <1>5, <1>6, <1>7, <2>1
    <3>4. Belt'
      BY <1>7, <1>8, <2>1, <3>1, <3>2, <3>3, BeltAdvances DEF BufferInv
    <3>5. Accounted'
      BY <1>3, <1>4, <1>7, <1>8, <1>9, <2>1, <3>3, AccountAdvances DEF BufferInv
    <3> QED BY <3>4, <3>5
  <2>2. CASE x \notin FedItems
    <3>1. \A y \in FedItems : \A s \in Nat : OnBelt(y, s)' <=> OnBelt(y, s)
      BY <1>8, <1>9, <2>2
    <3> QED BY <1>3, <1>4, <3>1, BeltStays DEF BufferInv
  <2> QED BY <2>1, <2>2
<1>11. MarkSound'
  <2>1. \A j \in 1..NumStages + 1 : Range(line'[j]) \subseteq Range(line[j])
    BY <1>5, <1>6
  <2>2. \A j : MarkedBefore(j)' <=> MarkedBefore(j)
    BY <1>4 DEF MarkedBefore
  <2>3. \A j \in 1..NumStages + 1 : MarkLast(line'[j])
    <3>1. \A j \in 1..NumStages + 1 : MarkLast(line[j])
      BY DEF BufferInv, MarkSound, MarkLast
    <3> QED BY <1>5, <1>6, <3>1
  <2>4. \A j \in Workers : stageEnd[j] = "marked" => hand'[j] = EndMark
    BY <1>4, <1>6 DEF BufferInv, MarkSound
  <2>5. NumStages \in 1..NumStages + 1 /\ \A j \in Workers : j \in 1..NumStages + 1
    BY BufferConstants
  <2> QED BY <1>4, <2>1, <2>2, <2>3, <2>4, <2>5 DEF BufferInv, MarkSound, MarkLast
<1>12. Room'
  <2>1. ASSUME NEW j \in Workers PROVE Len(line'[j]) <= BufferSize
    <3>1. j \in 1..NumStages + 1 /\ Len(line[j]) <= BufferSize
      BY BufferConstants DEF BufferInv, Room
    <3>2. Len(line'[i]) = Len(line[i]) - 1 /\ Len(line[i]) \in Nat
      BY <1>5, <1>6
    <3>3. CASE j = i
      BY <1>2, <3>1, <3>2, <3>3
    <3>4. CASE j # i
      <4>1. line'[j] = line[j]
        BY <1>6, <3>1, <3>4
      <4> QED BY <3>1, <4>1
    <3> QED BY <3>3, <3>4
  <2>2. ASSUME NEW j \in Workers, j < NumStages, hand'[j] # EndMark PROVE Len(line'[j + 1]) < BufferSize
    <3>1. j + 1 \in 1..NumStages + 1 /\ j + 1 <= NumStages /\ Len(line[j + 1]) \in Nat
      BY <1>3, <2>2, LenProperties, BufferConstants
    <3>2. Len(line'[j + 1]) <= Len(line[j + 1])
      <4>1. CASE j + 1 = i
        BY <1>2, <1>5, <1>6, <4>1
      <4>2. CASE j + 1 # i
        BY <1>6, <3>1, <4>2
      <4> QED BY <4>1, <4>2
    <3>3. Len(line[j + 1]) < BufferSize
      <4>1. CASE j = i
        BY <1>2, <1>4, <3>1, <4>1 DEF Full
      <4>2. CASE j # i
        BY <1>6, <2>2, <4>2 DEF BufferInv, Room
      <4> QED BY <4>1, <4>2
    <3>4. Len(line'[j + 1]) \in Nat
      BY <1>6, <3>1, LenProperties
    <3> QED BY <1>2, <3>1, <3>2, <3>3, <3>4
  <2> QED BY <2>1, <2>2 DEF Room
<1>13. BufferTypes'
  BY <1>4, <1>6 DEF BufferInv, BufferTypes
<1>14. InOrderOf(yielded') /\ \A j \in 1..NumStages + 1 : InOrderOf(line'[j])
  BY <1>4, <1>5, <1>6 DEF BufferInv
<1> QED BY <1>10, <1>11, <1>12, <1>13, <1>14 DEF BufferInv

\* A stage takes the mark, passes it on and ends.
LEMMA StageTakesMarkKeeps ==
  ASSUME BufferInv, NEW i \in Workers, StageTakes(i), Head(line[i]) = EndMark
  PROVE  BufferInv'
<1>1. /\ i \in 1..NumStages + 1 /\ i + 1 \in 1..NumStages + 1 /\ NumStages \in Nat /\ i \in Nat
      /\ i + 1 # i /\ i + 1 # 1 /\ (i + 1) - 1 = i
  BY BufferConstants
<1>2. /\ line \in [1..NumStages + 1 -> Seq(Contents)] /\ hand \in [Workers -> Contents]
      /\ InOrderOf(line[i]) /\ MarkLast(line[i]) /\ absorbed \subseteq FedItems
      /\ InOrderOf(line[i + 1]) /\ stageEnd \in [Workers -> {"no", "marked", "raised"}]
  BY <1>1 DEF BufferInv, BufferTypes, MarkSound, MarkLast
<1>3. /\ stageEnd[i] = "no" /\ hand[i] = EndMark /\ ~Full(i + 1) /\ line[i] # <<>>
      /\ stageEnd' = [stageEnd EXCEPT ![i] = "marked"]
      /\ line' = [[line EXCEPT ![i] = Tail(@)] EXCEPT ![i + 1] = Append(@, EndMark)]
      /\ UNCHANGED <<hand, phase, fed, yielded, results, absorbed>>
  BY DEF StageTakes, TakeFrom, PutInto
<1>4. /\ Tail(line[i]) \in Seq(Contents) /\ Len(Tail(line[i])) = Len(line[i]) - 1
      /\ Len(line[i]) \in Nat /\ Range(Tail(line[i])) = {} /\ Range(line[i]) = {EndMark}
      /\ InOrderOf(Tail(line[i])) /\ MarkLast(Tail(line[i]))
  BY <1>1, <1>2, <1>3, LineTail
<1>5. EndMark \notin Range(line[i + 1]) /\ EndMark \in Contents /\ EndMark \notin FedItems
  BY <1>3, NotPassed, BufferConstants DEF Contents
<1>6. /\ Append(line[i + 1], EndMark) \in Seq(Contents) /\ Len(line[i + 1]) \in Nat
      /\ Len(Append(line[i + 1], EndMark)) = Len(line[i + 1]) + 1
      /\ Range(Append(line[i + 1], EndMark)) = Range(line[i + 1]) \cup {EndMark}
      /\ InOrderOf(Append(line[i + 1], EndMark)) /\ MarkLast(Append(line[i + 1], EndMark))
  <2>1. PICK l : l = line[i + 1]
    OBVIOUS
  <2>2. l \in Seq(Contents) /\ InOrderOf(l) /\ EndMark \notin Range(l)
    BY <1>1, <1>2, <1>5, <2>1
  <2>3. /\ Append(l, EndMark) \in Seq(Contents) /\ Len(l) \in Nat
        /\ Len(Append(l, EndMark)) = Len(l) + 1
        /\ Range(Append(l, EndMark)) = Range(l) \cup {EndMark}
        /\ InOrderOf(Append(l, EndMark)) /\ MarkLast(Append(l, EndMark))
    <3>1. PICK x : x = EndMark
      OBVIOUS
    <3>2. x \in Contents /\ x \notin FedItems
      BY <1>5, <3>1, SMTT(30)
    <3> QED BY <2>2, <3>1, <3>2, LineAppend
  <2> QED BY <2>1, <2>3
<1>7. /\ line' \in [1..NumStages + 1 -> Seq(Contents)] /\ line'[i] = Tail(line[i])
      /\ line'[i + 1] = Append(line[i + 1], EndMark)
      /\ \A j \in 1..NumStages + 1 : j # i /\ j # i + 1 => line'[j] = line[j]
  BY <1>1, <1>2, <1>3, <1>4, <1>6
<1>8. /\ stageEnd' \in [Workers -> {"no", "marked", "raised"}] /\ stageEnd'[i] = "marked"
      /\ \A j \in Workers : j # i => stageEnd'[j] = stageEnd[j]
  BY <1>2, <1>3
<1>9. Belt' /\ Accounted'
  <2>1. \A j \in 1..NumStages + 1 : \A y \in FedItems : y \in Range(line'[j]) <=> y \in Range(line[j])
    BY <1>4, <1>5, <1>6, <1>7
  <2>2. \A y \in FedItems : \A s \in Nat : OnBelt(y, s)' <=> OnBelt(y, s)
    BY <1>3, <2>1 DEF OnBelt
  <2> QED BY <1>2, <1>3, <2>2, BeltStays DEF BufferInv
<1>10. MarkSound'
  <2>1. MarkedBefore(i)
    BY <1>1, <1>4 DEF BufferInv, MarkSound
  <2>2. \A j \in 1..NumStages + 1 : MarkedBefore(j) => MarkedBefore(j)'
    BY <1>1, <1>3, <1>8, BufferConstants DEF MarkedBefore
  <2>3. MarkedBefore(i + 1)'
    BY <1>1, <1>8 DEF MarkedBefore
  <2>4. ASSUME NEW j \in 1..NumStages + 1, EndMark \in Range(line'[j]) PROVE MarkedBefore(j)'
    <3>1. CASE j = i + 1
      BY <2>3, <3>1
    <3>2. CASE j # i + 1
      <4>1. j # i /\ EndMark \in Range(line[j])
        BY <1>4, <1>7, <2>4, <3>2
      <4> QED BY <2>2, <4>1 DEF BufferInv, MarkSound
    <3> QED BY <3>1, <3>2
  <2>5. \A j \in 1..NumStages + 1 : MarkLast(line'[j])
    <3>1. \A j \in 1..NumStages + 1 : MarkLast(line[j])
      BY DEF BufferInv, MarkSound, MarkLast
    <3> QED BY <1>4, <1>6, <1>7, <3>1
  <2>6. ASSUME NEW j \in Workers, stageEnd'[j] = "marked"
        PROVE  hand'[j] = EndMark /\ EndMark \notin Range(line'[j]) /\ MarkedBefore(j)'
    <3>1. CASE j = i
      BY <1>1, <1>3, <1>4, <1>7, <2>1, <2>2, <3>1
    <3>2. CASE j # i
      <4>1. stageEnd[j] = "marked" /\ j \in 1..NumStages + 1
        BY <1>8, <2>6, <3>2, BufferConstants
      <4>2. hand[j] = EndMark /\ EndMark \notin Range(line[j]) /\ MarkedBefore(j)
        BY <4>1 DEF BufferInv, MarkSound
      <4>3. j # i + 1
        BY <1>1, <1>3, <4>2 DEF MarkedBefore
      <4> QED BY <1>3, <1>7, <2>2, <3>2, <4>1, <4>2, <4>3
    <3> QED BY <3>1, <3>2, SMTT(30)
  <2> QED BY <2>4, <2>5, <2>6 DEF MarkSound, MarkLast
<1>11. Room'
  <2>1. ASSUME NEW j \in Workers PROVE Len(line'[j]) <= BufferSize
    <3>1. j \in 1..NumStages + 1 /\ Len(line[j]) <= BufferSize /\ BufferSize \in Nat
      BY BufferConstants DEF BufferInv, Room
    <3>2. CASE j = i + 1
      <4>1. i + 1 <= NumStages /\ Len(line[i + 1]) < BufferSize
        BY <1>3, <1>6, <3>1, <3>2, BufferConstants DEF Full
      <4> QED BY <1>6, <1>7, <3>1, <3>2, <4>1
    <3>3. CASE j = i
      BY <1>4, <1>7, <3>1, <3>3
    <3>4. CASE j # i /\ j # i + 1
      BY <1>7, <3>1, <3>4
    <3> QED BY <3>2, <3>3, <3>4
  <2>2. ASSUME NEW j \in Workers, j < NumStages, hand'[j] # EndMark PROVE Len(line'[j + 1]) < BufferSize
    <3>1. j \in Nat /\ BufferSize \in Nat /\ j + 1 \in 1..NumStages + 1
      BY <2>2, BufferConstants
    <3>2. j # i /\ Len(line[j + 1]) < BufferSize
      BY <1>3, <2>2 DEF BufferInv, Room
    <3>3. j + 1 # i + 1
      BY <1>1, <3>1, <3>2
    <3>4. CASE j + 1 = i
      <4>1. Len(line[i]) < BufferSize /\ line'[j + 1] = Tail(line[i])
        BY <1>7, <3>2, <3>4
      <4> QED BY <1>4, <3>1, <4>1
    <3>5. CASE j + 1 # i
      BY <1>7, <3>1, <3>2, <3>3, <3>5
    <3> QED BY <3>4, <3>5
  <2> QED BY <2>1, <2>2 DEF Room
<1>12. BufferTypes'
  BY <1>3, <1>7, <1>8 DEF BufferInv, BufferTypes
<1>13. InOrderOf(yielded') /\ \A j \in 1..NumStages + 1 : InOrderOf(line'[j])
  BY <1>3, <1>4, <1>6, <1>7 DEF BufferInv
<1> QED BY <1>9, <1>10, <1>11, <1>12, <1>13 DEF BufferInv

\* A stage puts its result into the next line.
LEMMA StagePassesKeeps ==
  ASSUME BufferInv, NEW i \in Workers, StagePuts(i, TRUE)
  PROVE  BufferInv'
<1>1. /\ i \in 1..NumStages + 1 /\ i + 1 \in 1..NumStages + 1 /\ NumStages \in Nat /\ i \in Nat
      /\ i + 1 # i /\ i + 1 # 1 /\ (i + 1) - 1 = i /\ 2 * (i + 1) = (2 * i + 1) + 1
      /\ 2 * i + 1 \in Nat
  BY BufferConstants
<1>2. /\ line \in [1..NumStages + 1 -> Seq(Contents)] /\ hand \in [Workers -> Contents]
      /\ absorbed \subseteq FedItems /\ InOrderOf(line[i + 1])
  BY <1>1 DEF BufferInv, BufferTypes
<1>3. PICK x \in Contents : x = hand[i]
  BY <1>2
<1>4. /\ x # EndMark /\ hand' = [hand EXCEPT ![i] = EndMark]
      /\ line' = [line EXCEPT ![i + 1] = Append(@, x)]
      /\ UNCHANGED <<stageEnd, phase, fed, yielded, absorbed>>
  BY <1>3 DEF StagePuts, Finished, PutInto
<1>5. EndMark \notin Range(line[i + 1]) /\ EndMark \in Contents /\ EndMark \notin FedItems
  BY <1>3, <1>4, NotPassed, BufferConstants DEF Contents
<1>6. /\ \A y \in FedItems : OnBelt(y, 2 * i + 1) <=> hand[i] = y
      /\ \A y \in FedItems : OnBelt(y, 2 * (i + 1)) <=> y \in Range(line[i + 1])
      /\ \A y \in FedItems : OnBelt(y, 2 * i + 1)' <=> hand'[i] = y
      /\ \A y \in FedItems : OnBelt(y, 2 * (i + 1))' <=> y \in Range(line'[i + 1])
  <2> SUFFICES ASSUME NEW y \in FedItems
               PROVE  /\ OnBelt(y, 2 * i + 1) <=> hand[i] = y
                      /\ OnBelt(y, 2 * (i + 1)) <=> y \in Range(line[i + 1])
                      /\ OnBelt(y, 2 * i + 1)' <=> hand'[i] = y
                      /\ OnBelt(y, 2 * (i + 1))' <=> y \in Range(line'[i + 1])
    OBVIOUS
  <2> QED BY <1>1, BeltPlaces
<1>7. x \in FedItems => \A y \in Range(line[i + 1]) \cap FedItems : y < x
  <2> SUFFICES ASSUME x \in FedItems, NEW y \in Range(line[i + 1]) \cap FedItems PROVE y < x
    OBVIOUS
  <2>1. OnBelt(x, 2 * i + 1) /\ OnBelt(y, 2 * (i + 1))
    BY <1>3, <1>6
  <2>2. 2 * (i + 1) \in Nat /\ 2 * i + 1 < 2 * (i + 1)
    BY <1>1
  <2> QED BY <1>1, <2>1, <2>2 DEF BufferInv, Belt
<1>8. /\ Append(line[i + 1], x) \in Seq(Contents) /\ Len(line[i + 1]) \in Nat
      /\ Len(Append(line[i + 1], x)) = Len(line[i + 1]) + 1
      /\ Range(Append(line[i + 1], x)) = Range(line[i + 1]) \cup {x}
      /\ InOrderOf(Append(line[i + 1], x)) /\ MarkLast(Append(line[i + 1], x))
  BY <1>1, <1>2, <1>3, <1>5, <1>7, LineAppend
<1>9. /\ line' \in [1..NumStages + 1 -> Seq(Contents)] /\ line'[i + 1] = Append(line[i + 1], x)
      /\ \A j \in 1..NumStages + 1 : j # i + 1 => line'[j] = line[j]
      /\ hand' \in [Workers -> Contents] /\ hand'[i] = EndMark
      /\ \A j \in Workers : j # i => hand'[j] = hand[j]
  BY <1>1, <1>2, <1>4, <1>5, <1>8
<1>10. \A y \in FedItems : \A s \in Nat : OnBelt(y, s)' => OnBelt(y, s) \/ (y = x /\ s = 2 * (i + 1))
  BY <1>5, <1>8, <1>9 DEF OnBelt
<1>11. \A y \in FedItems \ {x} : \A s \in Nat : OnBelt(y, s) => OnBelt(y, s)'
  <2>1. \A j \in 1..NumStages + 1 : \A y \in FedItems \ {x} : y \in Range(line[j]) => y \in Range(line'[j])
    BY <1>8, <1>9
  <2>2. \A j \in Workers : \A y \in FedItems \ {x} : hand[j] = y => hand'[j] = y
    BY <1>3, <1>9
  <2> QED BY <2>1, <2>2 DEF OnBelt
<1>12. Belt' /\ Accounted'
  <2>1. CASE x \in FedItems
    <3>1. ~OnBelt(x, 2 * i + 1)' /\ OnBelt(x, 2 * i + 1) /\ OnBelt(x, (2 * i + 1) + 1)'
      <4>1. OnBelt(x, 2 * (i + 1))'
        BY <1>6, <1>8, <1>9, <2>1
      <4>2. ~OnBelt(x, 2 * i + 1)' /\ OnBelt(x, 2 * i + 1)
        BY <1>3, <1>5, <1>6, <1>9, <2>1
      <4> QED BY <1>1, <4>1, <4>2
    <3>2. \A y \in FedItems : OnBelt(y, 2 * i + 1) => y = x \/ x < y
      BY <1>3, <1>6
    <3>3. Belt'
      BY <1>1, <1>10, <2>1, <3>1, <3>2, BeltAdvances DEF BufferInv
    <3>4. Accounted'
      BY <1>1, <1>2, <1>4, <1>10, <1>11, <2>1, <3>1, AccountAdvances DEF BufferInv
    <3> QED BY <3>3, <3>4
  <2>2. CASE x \notin FedItems
    <3>1. \A y \in FedItems : \A s \in Nat : OnBelt(y, s)' <=> OnBelt(y, s)
      BY <1>10, <1>11, <2>2
    <3> QED BY <1>2, <1>4, <3>1, BeltStays DEF BufferInv
  <2> QED BY <2>1, <2>2
<1>13. MarkSound'
  <2>1. \A j \in 1..NumStages + 1 : EndMark \in Range(line'[j]) <=> EndMark \in Range(line[j])
    BY <1>4, <1>8, <1>9
  <2>2. \A j : MarkedBefore(j)' <=> MarkedBefore(j)
    BY <1>4 DEF MarkedBefore
  <2>3. \A j \in 1..NumStages + 1 : MarkLast(line'[j])
    <3>1. \A j \in 1..NumStages + 1 : MarkLast(line[j])
      BY DEF BufferInv, MarkSound, MarkLast
    <3> QED BY <1>8, <1>9, <3>1
  <2>4. \A j \in Workers : stageEnd[j] = "marked" => hand'[j] = EndMark
    BY <1>9 DEF BufferInv, MarkSound
  <2>5. NumStages \in 1..NumStages + 1 /\ \A j \in Workers : j \in 1..NumStages + 1
    BY BufferConstants
  <2> QED BY <1>4, <2>1, <2>2, <2>3, <2>4, <2>5 DEF BufferInv, MarkSound, MarkLast
<1>14. Room'
  <2>1. ASSUME NEW j \in Workers PROVE Len(line'[j]) <= BufferSize
    <3>1. j \in 1..NumStages + 1 /\ Len(line[j]) <= BufferSize /\ BufferSize \in Nat
      BY BufferConstants DEF BufferInv, Room
    <3>2. CASE j = i + 1
      <4>1. i < NumStages
        BY <1>1, <3>2, BufferConstants
      <4>2. Len(line[i + 1]) < BufferSize
        BY <1>3, <1>4, <4>1 DEF BufferInv, Room
      <4> QED BY <1>8, <1>9, <3>1, <3>2, <4>2
    <3>3. CASE j # i + 1
      BY <1>9, <3>1, <3>3
    <3> QED BY <3>2, <3>3
  <2>2. ASSUME NEW j \in Workers, j < NumStages, hand'[j] # EndMark PROVE Len(line'[j + 1]) < BufferSize
    <3>1. j + 1 \in 1..NumStages + 1 /\ j \in Nat
      BY <2>2, BufferConstants
    <3>2. j # i /\ hand[j] # EndMark
      BY <1>9, <2>2
    <3>3. Len(line[j + 1]) < BufferSize /\ j + 1 # i + 1
      BY <1>1, <2>2, <3>1, <3>2 DEF BufferInv, Room
    <3> QED BY <1>9, <3>1, <3>3
  <2> QED BY <2>1, <2>2 DEF Room
<1>15. BufferTypes'
  <2>1. results \in Seq(FedItems)
    BY DEF BufferInv, BufferTypes
  <2>2. results' \in Seq(FedItems)
    <3>1. CASE x \in FedItems /\ results' = Append(results, x)
      BY <2>1, <3>1, AppendProperties
    <3>2. results' = results \/ (x \in FedItems /\ results' = Append(results, x))
      BY <1>3 DEF StagePuts
    <3> QED BY <2>1, <3>1, <3>2
  <2> QED BY <1>4, <1>9, <2>2 DEF BufferInv, BufferTypes
<1>16. InOrderOf(yielded') /\ \A j \in 1..NumStages + 1 : InOrderOf(line'[j])
  BY <1>4, <1>8, <1>9 DEF BufferInv
<1> QED BY <1>12, <1>13, <1>14, <1>15, <1>16 DEF BufferInv

\* A stage drops what it has.
LEMMA AccountDrops ==
  ASSUME Belt, Accounted, NEW x, x \in FedItems => \E r \in Nat : OnBelt(x, r),
         \A y \in FedItems : \A s \in Nat : OnBelt(y, s)' <=> OnBelt(y, s) /\ y # x,
         absorbed' = absorbed \cup ({x} \cap FedItems), UNCHANGED <<fed, yielded>>,
         absorbed \subseteq FedItems
  PROVE  Belt' /\ Accounted'
<1>1. Belt'
  BY DEF Belt
<1>2. \A y \in FedItems : y \in 1..fed' <=>
        y \in absorbed' \/ y \in Range(yielded') \/ \E s \in Nat : OnBelt(y, s)'
  <2> SUFFICES ASSUME NEW y \in FedItems
               PROVE  y \in 1..fed <=>
                        y \in absorbed' \/ y \in Range(yielded) \/ \E s \in Nat : OnBelt(y, s)'
    OBVIOUS
  <2>1. CASE y = x
    BY <2>1 DEF Accounted
  <2>2. CASE y # x
    <3>1. (\E s \in Nat : OnBelt(y, s)') <=> \E s \in Nat : OnBelt(y, s)
      BY <2>2
    <3> QED BY <2>2, <3>1 DEF Accounted
  <2> QED BY <2>1, <2>2
<1>3. \A z \in Range(yielded') : \A y \in FedItems : \A s \in Nat :
        OnBelt(y, s)' => y # z /\ (s <= 2 * NumStages => z < y)
  BY DEF Accounted
<1>4. ASSUME NEW z \in absorbed' PROVE z \notin Range(yielded') /\ \A s \in Nat : ~OnBelt(z, s)'
  <2>1. CASE z \in absorbed
    BY <2>1 DEF Accounted
  <2>2. CASE z = x /\ x \in FedItems
    BY <2>2 DEF Accounted
  <2> QED BY <2>1, <2>2
<1> QED BY <1>1, <1>2, <1>3, <1>4 DEF Accounted

\* What a stage holds is no longer anywhere.
LEMMA HandDropped ==
  ASSUME BufferInv, NEW i \in Workers, Finished(i, FALSE),
         \A j \in 1..NumStages + 1 : \A y \in FedItems : y \in Range(line'[j]) <=> y \in Range(line[j])
  PROVE  /\ Belt' /\ Accounted' /\ absorbed' \subseteq FedItems /\ hand' \in [Workers -> Contents]
         /\ hand'[i] = EndMark /\ \A j \in Workers : j # i => hand'[j] = hand[j]
<1>1. /\ hand \in [Workers -> Contents] /\ absorbed \subseteq FedItems
      /\ i \in 1..NumStages + 1 /\ 2 * i + 1 \in Nat
      /\ EndMark \in Contents /\ EndMark \notin FedItems
  BY BufferConstants DEF BufferInv, BufferTypes, Contents
<1>2. PICK x \in Contents : x = hand[i]
  BY <1>1
<1>3. /\ hand' = [hand EXCEPT ![i] = EndMark] /\ absorbed' = absorbed \cup ({x} \cap FedItems)
      /\ UNCHANGED <<fed, yielded>>
  BY <1>2 DEF Finished
<1>4. hand' \in [Workers -> Contents] /\ hand'[i] = EndMark /\ \A j \in Workers : j # i => hand'[j] = hand[j]
  BY <1>1, <1>3
<1>5. ASSUME x \in FedItems
      PROVE  OnBelt(x, 2 * i + 1) /\ ~OnBelt(x, 2 * i + 1)' /\ \A s \in Nat : OnBelt(x, s) => s = 2 * i + 1
  <2>1. OnBelt(x, 2 * i + 1) /\ (OnBelt(x, 2 * i + 1)' <=> hand'[i] = x)
    BY <1>2, <1>5, BeltPlaces
  <2>2. ~(x < x)
    BY <1>5, BufferConstants
  <2>3. ASSUME NEW s \in Nat, OnBelt(x, s) PROVE s = 2 * i + 1
    BY <1>1, <1>5, <2>1, <2>2, <2>3 DEF BufferInv, Belt
  <2> QED BY <1>1, <1>4, <1>5, <2>1, <2>3
<1>6. \A y \in FedItems : \A s \in Nat : OnBelt(y, s)' => OnBelt(y, s)
  BY <1>1, <1>4 DEF OnBelt
<1>7. \A y \in FedItems \ {x} : \A s \in Nat : OnBelt(y, s) => OnBelt(y, s)'
  <2>1. \A j \in Workers : \A y \in FedItems \ {x} : hand[j] = y => hand'[j] = y
    BY <1>2, <1>4
  <2> QED BY <2>1 DEF OnBelt
<1>8. \A y \in FedItems : \A s \in Nat : OnBelt(y, s)' <=> OnBelt(y, s) /\ y # x
  BY <1>5, <1>6, <1>7
<1>9. x \in FedItems => \E r \in Nat : OnBelt(x, r)
  BY <1>1, <1>5
<1>10. Belt' /\ Accounted'
  BY <1>1, <1>3, <1>8, <1>9, AccountDrops DEF BufferInv
<1> QED BY <1>1, <1>3, <1>4, <1>10

\* A stage filters what it has.
LEMMA StageFiltersKeeps ==
  ASSUME BufferInv, NEW i \in Workers, StagePuts(i, FALSE)
  PROVE  BufferInv'
<1>1. Finished(i, FALSE) /\ UNCHANGED <<line, stageEnd, phase, fed, yielded, results>>
  BY DEF StagePuts, Finished
<1>2. /\ Belt' /\ Accounted' /\ absorbed' \subseteq FedItems /\ hand' \in [Workers -> Contents]
      /\ hand'[i] = EndMark /\ \A j \in Workers : j # i => hand'[j] = hand[j]
  BY <1>1, HandDropped
<1>3. MarkSound'
  <2>1. \A j : MarkedBefore(j)' <=> MarkedBefore(j)
    BY <1>1 DEF MarkedBefore
  <2>2. \A j \in Workers : stageEnd[j] = "marked" => hand'[j] = EndMark
    BY <1>2 DEF BufferInv, MarkSound
  <2> QED BY <1>1, <2>1, <2>2 DEF BufferInv, MarkSound
<1>4. Room'
  <2>1. \A j \in Workers : hand'[j] # EndMark => hand[j] # EndMark
    BY <1>2
  <2> QED BY <1>1, <2>1 DEF BufferInv, Room
<1>5. BufferTypes'
  BY <1>1, <1>2 DEF BufferInv, BufferTypes
<1> QED BY <1>1, <1>2, <1>3, <1>4, <1>5 DEF BufferInv

\* A stage raises: the error takes the place of its result.
LEMMA StageRaisesKeeps ==
  ASSUME BufferInv, NEW i \in Workers, StageRaises(i)
  PROVE  BufferInv'
<1>1. /\ i \in 1..NumStages + 1 /\ i + 1 \in 1..NumStages + 1 /\ NumStages \in Nat /\ i \in Nat
      /\ i + 1 # i /\ i + 1 # 1 /\ (i + 1) - 1 = i
      /\ Failure \in Contents /\ Failure \notin FedItems /\ Failure # EndMark
  BY BufferConstants DEF Contents
<1>2. /\ line \in [1..NumStages + 1 -> Seq(Contents)] /\ InOrderOf(line[i + 1])
      /\ stageEnd \in [Workers -> {"no", "marked", "raised"}]
  BY <1>1 DEF BufferInv, BufferTypes
<1>3. /\ Finished(i, FALSE) /\ hand[i] # EndMark /\ UNCHANGED <<phase, fed, yielded, results>>
      /\ line' = [line EXCEPT ![i + 1] = Append(@, Failure)]
      /\ stageEnd' = [stageEnd EXCEPT ![i] = "raised"]
  BY DEF StageRaises, Finished, PutInto
<1>4. EndMark \notin Range(line[i + 1]) /\ stageEnd[i] # "marked"
  BY <1>3, NotPassed
<1>5. /\ Append(line[i + 1], Failure) \in Seq(Contents) /\ Len(line[i + 1]) \in Nat
      /\ Len(Append(line[i + 1], Failure)) = Len(line[i + 1]) + 1
      /\ Range(Append(line[i + 1], Failure)) = Range(line[i + 1]) \cup {Failure}
      /\ InOrderOf(Append(line[i + 1], Failure)) /\ MarkLast(Append(line[i + 1], Failure))
  BY <1>1, <1>2, <1>4, LineAppend
<1>6. /\ line' \in [1..NumStages + 1 -> Seq(Contents)] /\ line'[i + 1] = Append(line[i + 1], Failure)
      /\ \A j \in 1..NumStages + 1 : j # i + 1 => line'[j] = line[j]
      /\ stageEnd' \in [Workers -> {"no", "marked", "raised"}] /\ stageEnd'[i] = "raised"
      /\ \A j \in Workers : j # i => stageEnd'[j] = stageEnd[j]
  BY <1>1, <1>2, <1>3, <1>5
<1>7. \A j \in 1..NumStages + 1 : \A y : y # Failure => (y \in Range(line'[j]) <=> y \in Range(line[j]))
  BY <1>5, <1>6
<1>8. /\ Belt' /\ Accounted' /\ absorbed' \subseteq FedItems /\ hand' \in [Workers -> Contents]
      /\ hand'[i] = EndMark /\ \A j \in Workers : j # i => hand'[j] = hand[j]
  <2>1. \A j \in 1..NumStages + 1 : \A y \in FedItems : y \in Range(line'[j]) <=> y \in Range(line[j])
    BY <1>1, <1>7
  <2> QED BY <1>3, <2>1, HandDropped
<1>9. MarkSound'
  <2>1. \A j \in 1..NumStages + 1 : EndMark \in Range(line'[j]) <=> EndMark \in Range(line[j])
    BY <1>1, <1>7
  <2>2. \A j \in 1..NumStages + 1 : MarkedBefore(j) => MarkedBefore(j)'
    <3> SUFFICES ASSUME NEW j \in 1..NumStages + 1, MarkedBefore(j) PROVE MarkedBefore(j)'
      OBVIOUS
    <3>1. CASE j = 1
      BY <1>3, <3>1 DEF MarkedBefore
    <3>2. CASE j # 1
      <4>1. j - 1 \in Workers /\ stageEnd[j - 1] = "marked"
        BY <1>1, <3>2, BufferConstants DEF MarkedBefore
      <4>2. stageEnd'[j - 1] = "marked"
        BY <1>4, <1>6, <4>1
      <4> QED BY <3>2, <4>2 DEF MarkedBefore
    <3> QED BY <3>1, <3>2
  <2>3. \A j \in 1..NumStages + 1 : MarkLast(line'[j])
    <3>1. \A j \in 1..NumStages + 1 : MarkLast(line[j])
      BY DEF BufferInv, MarkSound, MarkLast
    <3> QED BY <1>5, <1>6, <3>1
  <2>4. \A j \in Workers : stageEnd'[j] = "marked" => stageEnd[j] = "marked" /\ hand'[j] = hand[j]
    BY <1>6, <1>8
  <2>5. NumStages \in Workers /\ \A j \in Workers : j \in 1..NumStages + 1
    BY BufferConstants
  <2>6. \A j \in 1..NumStages + 1 : EndMark \in Range(line'[j]) => MarkedBefore(j)'
    BY <2>1, <2>2 DEF BufferInv, MarkSound
  <2>7. ASSUME NEW j \in Workers, stageEnd'[j] = "marked"
        PROVE  hand'[j] = EndMark /\ EndMark \notin Range(line'[j]) /\ MarkedBefore(j)'
    <3>1. hand[j] = EndMark /\ EndMark \notin Range(line[j]) /\ MarkedBefore(j)
      BY <2>4, <2>7 DEF BufferInv, MarkSound
    <3> QED BY <2>1, <2>2, <2>4, <2>5, <2>7, <3>1
  <2> QED BY <2>3, <2>6, <2>7 DEF MarkSound, MarkLast
<1>10. Room'
  <2>1. ASSUME NEW j \in Workers PROVE Len(line'[j]) <= BufferSize
    <3>1. j \in 1..NumStages + 1 /\ Len(line[j]) <= BufferSize /\ BufferSize \in Nat
      BY BufferConstants DEF BufferInv, Room
    <3>2. CASE j = i + 1
      <4>1. i < NumStages
        BY <1>1, <3>2, BufferConstants
      <4>2. Len(line[i + 1]) < BufferSize
        BY <1>3, <4>1 DEF BufferInv, Room
      <4> QED BY <1>5, <1>6, <3>1, <3>2, <4>2
    <3>3. CASE j # i + 1
      BY <1>6, <3>1, <3>3
    <3> QED BY <3>2, <3>3
  <2>2. ASSUME NEW j \in Workers, j < NumStages, hand'[j] # EndMark PROVE Len(line'[j + 1]) < BufferSize
    <3>1. j + 1 \in 1..NumStages + 1 /\ j \in Nat
      BY <2>2, BufferConstants
    <3>2. j # i /\ hand[j] # EndMark
      BY <1>8, <2>2
    <3>3. Len(line[j + 1]) < BufferSize /\ j + 1 # i + 1
      BY <1>1, <2>2, <3>1, <3>2 DEF BufferInv, Room
    <3> QED BY <1>6, <3>1, <3>3
  <2> QED BY <2>1, <2>2 DEF Room
<1>11. BufferTypes'
  BY <1>3, <1>6, <1>8 DEF BufferInv, BufferTypes
<1>12. InOrderOf(yielded') /\ \A j \in 1..NumStages + 1 : InOrderOf(line'[j])
  BY <1>3, <1>5, <1>6 DEF BufferInv
<1> QED BY <1>8, <1>9, <1>10, <1>11, <1>12 DEF BufferInv

\* stream() puts the next item into the first line.
LEMMA FeedKeeps ==
  ASSUME BufferInv, Feed
  PROVE  BufferInv'
<1>1. PICK x : x = fed + 1
  OBVIOUS
<1>2. /\ phase = "feeding" /\ fed' = x /\ fed \in Nat /\ fed < MaxFed /\ ~Full(1)
      /\ line' = [line EXCEPT ![1] = Append(@, x)]
      /\ UNCHANGED <<hand, stageEnd, phase, yielded, results, absorbed>>
  BY <1>1, BufferConstants DEF Feed, PutInto, BufferInv, BufferTypes
<1>3. /\ line \in [1..NumStages + 1 -> Seq(Contents)] /\ 1 \in 1..NumStages + 1 /\ InOrderOf(line[1])
      /\ x \in FedItems /\ x \in Contents /\ x # EndMark /\ NumStages \in Nat /\ BufferSize \in Nat
      /\ x \in 0..MaxFed /\ x \notin 1..fed /\ \A y \in FedItems : y \in 1..fed => y < x
  BY <1>1, <1>2, BufferConstants DEF BufferInv, BufferTypes, Contents
<1>4. EndMark \notin Range(line[1])
  BY <1>2, <1>3 DEF BufferInv, MarkSound, MarkedBefore
<1>5. \A y \in FedItems : \A r \in Nat : OnBelt(y, r) => y \in 1..fed /\ y < x
  BY <1>3 DEF BufferInv, Accounted
<1>6. \A y \in Range(line[1]) \cap FedItems : y < x
  <2> SUFFICES ASSUME NEW y \in Range(line[1]) \cap FedItems PROVE y < x
    OBVIOUS
  <2>1. OnBelt(y, 2 * 1) /\ 2 * 1 \in Nat
    <3>1. \A i \in 1..NumStages + 1 : OnBelt(y, 2 * i) <=> y \in Range(line[i])
      BY BeltPlaces
    <3> QED BY <1>3, <3>1
  <2> QED BY <1>5, <2>1
<1>7. /\ Append(line[1], x) \in Seq(Contents) /\ Len(line[1]) \in Nat
      /\ Len(Append(line[1], x)) = Len(line[1]) + 1
      /\ Range(Append(line[1], x)) = Range(line[1]) \cup {x}
      /\ InOrderOf(Append(line[1], x)) /\ MarkLast(Append(line[1], x))
  BY <1>3, <1>4, <1>6, LineAppend
<1>8. /\ line' \in [1..NumStages + 1 -> Seq(Contents)] /\ line'[1] = Append(line[1], x)
      /\ \A j \in 1..NumStages + 1 : j # 1 => line'[j] = line[j]
  BY <1>2, <1>3, <1>7
<1>9. \A y \in FedItems : \A s \in Nat : OnBelt(y, s)' <=> OnBelt(y, s) \/ (y = x /\ s = 2)
  <2>1. \A y \in FedItems : \A s \in Nat : OnBelt(y, s)' => OnBelt(y, s) \/ (y = x /\ s = 2)
    BY <1>2, <1>7, <1>8 DEF OnBelt
  <2>2. \A y \in FedItems : \A s \in Nat : OnBelt(y, s) => OnBelt(y, s)'
    <3>1. \A j \in 1..NumStages + 1 : \A y : y \in Range(line[j]) => y \in Range(line'[j])
      BY <1>7, <1>8
    <3> QED BY <1>2, <3>1 DEF OnBelt
  <2>3. OnBelt(x, 2 * 1)'
    BY <1>3, <1>7, <1>8, BeltPlaces
  <2> QED BY <2>1, <2>2, <2>3
<1>10. \A y \in FedItems : \A s \in Nat : OnBelt(y, s) => s >= 2
  <2>1. \A j \in 1..NumStages + 1 : 2 * j >= 2 /\ 2 * j + 1 >= 2
    BY BufferConstants
  <2>2. Workers \subseteq 1..NumStages + 1
    BY BufferConstants
  <2> QED BY <2>1, <2>2 DEF OnBelt
<1>11. Belt'
  <2> SUFFICES ASSUME NEW y \in FedItems, NEW z \in FedItems, NEW s \in Nat, NEW t \in Nat,
                      OnBelt(y, s)', OnBelt(z, t)', s < t
               PROVE  z < y
    BY DEF Belt
  <2>1. CASE OnBelt(y, s) /\ OnBelt(z, t)
    BY <2>1 DEF BufferInv, Belt
  <2>2. CASE OnBelt(z, t) /\ y = x
    BY <1>5, <2>2
  <2>3. CASE z = x /\ t = 2
    <3>1. ~OnBelt(y, s) /\ s # 2
      BY <1>10, <2>3
    <3> QED BY <1>9, <3>1
  <2> QED BY <1>9, <2>1, <2>2, <2>3
<1>12. Accounted'
  <2>1. \A y \in FedItems : y \in 1..fed' <=>
          y \in absorbed' \/ y \in Range(yielded') \/ \E s \in Nat : OnBelt(y, s)'
    <3> SUFFICES ASSUME NEW y \in FedItems
                 PROVE  y \in 1..x <=>
                          y \in absorbed \/ y \in Range(yielded) \/ \E s \in Nat : OnBelt(y, s)'
      BY <1>2
    <3>1. y \in 1..x <=> y \in 1..fed \/ y = x
      BY <1>1, <1>2, BufferConstants
    <3>2. (\E s \in Nat : OnBelt(y, s)') <=> (\E s \in Nat : OnBelt(y, s)) \/ y = x
      <4>1. 2 \in Nat
        OBVIOUS
      <4> QED BY <1>9, <4>1
    <3> QED BY <3>1, <3>2 DEF BufferInv, Accounted
  <2>2. \A z \in Range(yielded) : z \in FedItems /\ z \in 1..fed
    <3>1. Range(yielded) \subseteq FedItems
      BY RangeByIndex DEF BufferInv, BufferTypes
    <3> QED BY <3>1 DEF BufferInv, Accounted
  <2>3. ASSUME NEW z \in Range(yielded'), NEW y \in FedItems, NEW s \in Nat, OnBelt(y, s)'
        PROVE  y # z /\ (s <= 2 * NumStages => z < y)
    <3>1. CASE OnBelt(y, s)
      BY <1>2, <2>3, <3>1 DEF BufferInv, Accounted
    <3>2. CASE y = x
      BY <1>2, <1>3, <2>2, <2>3, <3>2
    <3> QED BY <1>9, <2>3, <3>1, <3>2
  <2>4. ASSUME NEW z \in absorbed' PROVE z \notin Range(yielded') /\ \A s \in Nat : ~OnBelt(z, s)'
    <3>1. z \in FedItems /\ z \in absorbed /\ z \in 1..fed
      BY <1>2, <2>4 DEF BufferInv, BufferTypes, Accounted
    <3> QED BY <1>2, <1>3, <1>9, <3>1 DEF BufferInv, Accounted
  <2> QED BY <2>1, <2>3, <2>4 DEF Accounted
<1>13. MarkSound'
  <2>1. \A j \in 1..NumStages + 1 : EndMark \in Range(line'[j]) <=> EndMark \in Range(line[j])
    BY <1>3, <1>7, <1>8
  <2>2. \A j : MarkedBefore(j)' <=> MarkedBefore(j)
    BY <1>2 DEF MarkedBefore
  <2>3. \A j \in 1..NumStages + 1 : MarkLast(line'[j])
    <3>1. \A j \in 1..NumStages + 1 : MarkLast(line[j])
      BY DEF BufferInv, MarkSound, MarkLast
    <3> QED BY <1>7, <1>8, <3>1
  <2>4. NumStages \in 1..NumStages + 1 /\ \A j \in Workers : j \in 1..NumStages + 1
    BY BufferConstants
  <2> QED BY <1>2, <2>1, <2>2, <2>3, <2>4 DEF BufferInv, MarkSound, MarkLast
<1>14. Room'
  <2>1. ASSUME NEW j \in Workers PROVE Len(line'[j]) <= BufferSize
    <3>1. j \in 1..NumStages + 1 /\ Len(line[j]) <= BufferSize
      BY BufferConstants DEF BufferInv, Room
    <3>2. CASE j = 1
      <4>1. Len(line[1]) < BufferSize
        BY <1>2, <1>3, <1>7, BufferConstants DEF Full
      <4> QED BY <1>3, <1>7, <1>8, <3>2, <4>1
    <3>3. CASE j # 1
      BY <1>8, <3>1, <3>3
    <3> QED BY <3>2, <3>3
  <2>2. \A j \in Workers : j < NumStages => j + 1 # 1 /\ j + 1 \in 1..NumStages + 1
    BY BufferConstants
  <2> QED BY <1>2, <1>8, <2>1, <2>2 DEF BufferInv, Room
<1>15. BufferTypes'
  BY <1>2, <1>3, <1>8 DEF BufferInv, BufferTypes
<1>16. InOrderOf(yielded') /\ \A j \in 1..NumStages + 1 : InOrderOf(line'[j])
  BY <1>2, <1>7, <1>8 DEF BufferInv
<1> QED BY <1>11, <1>12, <1>13, <1>14, <1>15, <1>16 DEF BufferInv

\* stream() puts the end marker into the first line.
LEMMA MarkKeeps ==
  ASSUME BufferInv, NEW b \in BOOLEAN, Mark(b)
  PROVE  BufferInv'
<1>1. /\ phase = "feeding" /\ ~Full(1) /\ phase' \in {"left", "reading"}
      /\ line' = [line EXCEPT ![1] = Append(@, EndMark)]
      /\ UNCHANGED <<hand, stageEnd, fed, yielded, results, absorbed>>
  BY DEF Mark, PutInto
<1>2. /\ line \in [1..NumStages + 1 -> Seq(Contents)] /\ 1 \in 1..NumStages + 1 /\ InOrderOf(line[1])
      /\ EndMark \in Contents /\ EndMark \notin FedItems /\ NumStages \in Nat /\ BufferSize \in Nat
      /\ absorbed \subseteq FedItems
  BY BufferConstants DEF BufferInv, BufferTypes, Contents
<1>3. EndMark \notin Range(line[1])
  BY <1>1, <1>2 DEF BufferInv, MarkSound, MarkedBefore
<1>4. /\ Append(line[1], EndMark) \in Seq(Contents) /\ Len(line[1]) \in Nat
      /\ Len(Append(line[1], EndMark)) = Len(line[1]) + 1
      /\ Range(Append(line[1], EndMark)) = Range(line[1]) \cup {EndMark}
      /\ InOrderOf(Append(line[1], EndMark)) /\ MarkLast(Append(line[1], EndMark))
  BY <1>2, <1>3, LineAppend
<1>5. /\ line' \in [1..NumStages + 1 -> Seq(Contents)] /\ line'[1] = Append(line[1], EndMark)
      /\ \A j \in 1..NumStages + 1 : j # 1 => line'[j] = line[j]
  BY <1>1, <1>2, <1>4
<1>6. Belt' /\ Accounted'
  <2>1. \A j \in 1..NumStages + 1 : \A y \in FedItems : y \in Range(line'[j]) <=> y \in Range(line[j])
    <3>1. \A y \in FedItems : y \in Range(line'[1]) <=> y \in Range(line[1])
      BY <1>2, <1>4, <1>5
    <3> QED BY <1>5, <3>1
  <2>2. \A y \in FedItems : \A s \in Nat : OnBelt(y, s)' <=> OnBelt(y, s)
    BY <1>1, <2>1 DEF OnBelt
  <2> QED BY <1>1, <1>2, <2>2, BeltStays DEF BufferInv
<1>7. MarkSound'
  <2>1. \A j \in 1..NumStages + 1 : j # 1 => (EndMark \in Range(line'[j]) <=> EndMark \in Range(line[j]))
    BY <1>5
  <2>2. MarkedBefore(1)' /\ \A j : MarkedBefore(j) => MarkedBefore(j)'
    BY <1>1 DEF MarkedBefore
  <2>3. \A j \in 1..NumStages + 1 : MarkLast(line'[j])
    <3>1. \A j \in 1..NumStages + 1 : MarkLast(line[j])
      BY DEF BufferInv, MarkSound, MarkLast
    <3> QED BY <1>4, <1>5, <3>1
  <2>4. ASSUME NEW j \in Workers, stageEnd[j] = "marked" PROVE j # 1 /\ j \in 1..NumStages + 1
    BY <1>1, <2>4, BufferConstants DEF BufferInv, MarkSound, MarkedBefore
  <2>5. \A j \in 1..NumStages + 1 : EndMark \in Range(line'[j]) => MarkedBefore(j)'
    BY <2>1, <2>2 DEF BufferInv, MarkSound
  <2>6. \A j \in Workers : stageEnd'[j] = "marked" =>
          hand'[j] = EndMark /\ EndMark \notin Range(line'[j]) /\ MarkedBefore(j)'
    BY <1>1, <2>1, <2>2, <2>4 DEF BufferInv, MarkSound
  <2> QED BY <1>1, <2>3, <2>5, <2>6 DEF MarkSound, MarkLast
<1>8. Room'
  <2>1. ASSUME NEW j \in Workers PROVE Len(line'[j]) <= BufferSize
    <3>1. j \in 1..NumStages + 1 /\ Len(line[j]) <= BufferSize
      BY BufferConstants DEF BufferInv, Room
    <3>2. CASE j = 1
      <4>1. Len(line[1]) < BufferSize
        BY <1>1, <1>2, <1>4, BufferConstants DEF Full
      <4> QED BY <1>2, <1>4, <1>5, <3>2, <4>1
    <3>3. CASE j # 1
      BY <1>5, <3>1, <3>3
    <3> QED BY <3>2, <3>3
  <2>2. \A j \in Workers : j < NumStages => j + 1 # 1 /\ j + 1 \in 1..NumStages + 1
    BY BufferConstants
  <2> QED BY <1>1, <1>5, <2>1, <2>2 DEF BufferInv, Room
<1>9. BufferTypes'
  BY <1>1, <1>5 DEF BufferInv, BufferTypes
<1>10. InOrderOf(yielded') /\ \A j \in 1..NumStages + 1 : InOrderOf(line'[j])
  BY <1>1, <1>4, <1>5 DEF BufferInv
<1> QED BY <1>6, <1>7, <1>8, <1>9, <1>10 DEF BufferInv

\* stream() takes something from the line of the last stage.
LEMMA ReadResultKeeps ==
  ASSUME BufferInv, ReadResult
  PROVE  BufferInv'
<1>1. PICK n \in Nat : n = NumStages
  BY BufferConstants
<1>2. PICK x : x = Head(line[n])
  OBVIOUS
<1>3. /\ phase = "reading" /\ line[n] # <<>> /\ line' = [line EXCEPT ![n] = Tail(@)]
      /\ yielded' = IF x \in FedItems THEN Append(yielded, x) ELSE yielded
      /\ UNCHANGED <<hand, stageEnd, fed, results, absorbed>>
  BY <1>1, <1>2 DEF ReadResult, TakeFrom
<1>4. phase' \in {"gathering", "left", "reading"}
  <2>1. phase' = CASE x = EndMark -> "gathering" [] x = Failure -> "left" [] OTHER -> phase
    BY <1>1, <1>2 DEF ReadResult
  <2>2. x = EndMark => phase' = "gathering"
    BY <2>1, BufferConstants
  <2>3. x = Failure => phase' = "left"
    BY <2>1, BufferConstants
  <2>4. x # EndMark /\ x # Failure => phase' = phase
    BY <2>1
  <2> QED BY <1>3, <2>2, <2>3, <2>4
<1>5. /\ n \in Workers /\ n \in 1..NumStages + 1 /\ BufferSize \in Nat /\ 2 * n \in Nat
      /\ line \in [1..NumStages + 1 -> Seq(Contents)]
      /\ InOrderOf(line[n]) /\ MarkLast(line[n]) /\ absorbed \subseteq FedItems
      /\ yielded \in Seq(FedItems) /\ InOrderOf(yielded)
  BY <1>1, BufferConstants DEF BufferInv, BufferTypes, MarkSound, MarkLast
<1>6. /\ Tail(line[n]) \in Seq(Contents) /\ x \in Contents
      /\ Len(Tail(line[n])) = Len(line[n]) - 1 /\ Len(line[n]) \in Nat
      /\ Range(line[n]) = {x} \cup Range(Tail(line[n]))
      /\ InOrderOf(Tail(line[n])) /\ MarkLast(Tail(line[n]))
      /\ x \in FedItems => \A y \in Range(Tail(line[n])) \cap FedItems : x < y
      /\ x = EndMark => Range(Tail(line[n])) = {}
  BY <1>2, <1>3, <1>5, LineTail
<1>7. /\ line' \in [1..NumStages + 1 -> Seq(Contents)] /\ line'[n] = Tail(line[n])
      /\ \A j \in 1..NumStages + 1 : j # n => line'[j] = line[j]
  BY <1>3, <1>5, <1>6
<1>8. \A y \in FedItems : \A s \in Nat : OnBelt(y, s)' => OnBelt(y, s)
  <2>1. \A j \in 1..NumStages + 1 : \A y : y \in Range(line'[j]) => y \in Range(line[j])
    BY <1>6, <1>7
  <2> QED BY <1>3, <2>1 DEF OnBelt
<1>9. \A y \in FedItems \ {x} : \A s \in Nat : OnBelt(y, s) => OnBelt(y, s)'
  <2>1. \A j \in 1..NumStages + 1 : \A y \in FedItems \ {x} : y \in Range(line[j]) => y \in Range(line'[j])
    BY <1>6, <1>7
  <2> QED BY <1>3, <2>1 DEF OnBelt
<1>10. ASSUME x \in FedItems
       PROVE  /\ OnBelt(x, 2 * n) /\ \A s \in Nat : ~OnBelt(x, s)'
              /\ \A y \in FedItems : \A s \in Nat : OnBelt(y, s)' => y # x /\ (s <= 2 * n => x < y)
  <2>1. OnBelt(x, 2 * n) /\ \A y \in FedItems : OnBelt(y, 2 * n)' <=> y \in Range(Tail(line[n]))
    <3>1. OnBelt(x, 2 * n)
      BY <1>5, <1>6, <1>10, BeltPlaces
    <3>2. ASSUME NEW y \in FedItems PROVE OnBelt(y, 2 * n)' <=> y \in Range(Tail(line[n]))
      BY <1>5, <1>7, BeltPlaces
    <3> QED BY <3>1, <3>2
  <2>2. \A s \in Nat : OnBelt(x, s) => s = 2 * n
    <3>1. ~(x < x)
      BY <1>10, BufferConstants
    <3> QED BY <1>5, <1>10, <2>1, <3>1 DEF BufferInv, Belt
  <2>3. \A s \in Nat : ~OnBelt(x, s)'
    <3>1. ~(x < x)
      BY <1>10, BufferConstants
    <3> QED BY <1>6, <1>8, <1>10, <2>1, <2>2, <3>1
  <2>4. ASSUME NEW y \in FedItems, NEW s \in Nat, OnBelt(y, s)', s <= 2 * n PROVE x < y
    <3>1. CASE s = 2 * n
      BY <1>6, <1>10, <2>1, <2>4, <3>1
    <3>2. CASE s < 2 * n
      BY <1>5, <1>8, <1>10, <2>1, <2>4, <3>2 DEF BufferInv, Belt
    <3> QED BY <1>5, <2>4, <3>1, <3>2
  <2> QED BY <2>1, <2>3, <2>4
<1>11. ASSUME x \in FedItems
       PROVE  Belt' /\ Accounted' /\ yielded' \in Seq(FedItems) /\ InOrderOf(yielded')
  <2>1. /\ yielded' \in Seq(FedItems) /\ Range(yielded') = Range(yielded) \cup {x}
    BY <1>3, <1>5, <1>11, AppendRange
  <2>2. \A z \in Range(yielded) : z < x
    BY <1>1, <1>5, <1>10, <1>11 DEF BufferInv, Accounted
  <2>3. InOrderOf(yielded')
    <3>1. \A j \in 1..Len(yielded) : yielded[j] \in Range(yielded)
      BY <1>5, RangeByIndex
    <3>2. /\ Len(yielded') = Len(yielded) + 1 /\ Len(yielded) \in Nat /\ yielded'[Len(yielded) + 1] = x
          /\ \A j \in 1..Len(yielded) : yielded'[j] = yielded[j]
      BY <1>3, <1>5, <1>11, AppendProperties, LenProperties
    <3> SUFFICES ASSUME NEW j \in 1..Len(yielded'), NEW k \in 1..Len(yielded'), j < k,
                        {yielded'[j], yielded'[k]} \subseteq FedItems
                 PROVE  yielded'[j] < yielded'[k]
      BY DEF InOrderOf
    <3>3. j \in 1..Len(yielded)
      BY <3>2
    <3>4. CASE k \in 1..Len(yielded)
      BY <1>5, <3>2, <3>3, <3>4 DEF InOrderOf
    <3>5. CASE k = Len(yielded) + 1
      BY <2>2, <3>1, <3>2, <3>3, <3>5
    <3> QED BY <3>2, <3>4, <3>5
  <2>4. Belt'
    BY <1>8 DEF BufferInv, Belt
  <2>5. Accounted'
    <3>1. \A y \in FedItems : y \in 1..fed' <=>
            y \in absorbed' \/ y \in Range(yielded') \/ \E s \in Nat : OnBelt(y, s)'
      <4> SUFFICES ASSUME NEW y \in FedItems
                   PROVE  y \in 1..fed <=>
                            y \in absorbed \/ y \in Range(yielded') \/ \E s \in Nat : OnBelt(y, s)'
        BY <1>3
      <4>1. CASE y = x
        BY <1>5, <1>10, <1>11, <2>1, <4>1 DEF BufferInv, Accounted
      <4>2. CASE y # x
        <5>1. (\E s \in Nat : OnBelt(y, s)') <=> \E s \in Nat : OnBelt(y, s)
          BY <1>8, <1>9, <4>2
        <5> QED BY <2>1, <4>2, <5>1 DEF BufferInv, Accounted
      <4> QED BY <4>1, <4>2
    <3>2. \A z \in Range(yielded') : \A y \in FedItems : \A s \in Nat :
            OnBelt(y, s)' => y # z /\ (s <= 2 * NumStages => z < y)
      BY <1>1, <1>8, <1>10, <1>11, <2>1 DEF BufferInv, Accounted
    <3>3. ASSUME NEW z \in absorbed' PROVE z \notin Range(yielded') /\ \A s \in Nat : ~OnBelt(z, s)'
      <4>1. z \in absorbed /\ z \in FedItems
        BY <1>3, <1>5, <3>3
      <4>2. z # x
        BY <1>5, <1>10, <1>11, <4>1 DEF BufferInv, Accounted
      <4> QED BY <1>8, <2>1, <4>1, <4>2 DEF BufferInv, Accounted
    <3> QED BY <3>1, <3>2, <3>3 DEF Accounted
  <2> QED BY <2>1, <2>3, <2>4, <2>5
<1>12. ASSUME x \notin FedItems
       PROVE  Belt' /\ Accounted' /\ yielded' \in Seq(FedItems) /\ InOrderOf(yielded')
  <2>1. \A y \in FedItems : \A s \in Nat : OnBelt(y, s)' <=> OnBelt(y, s)
    BY <1>8, <1>9, <1>12
  <2>2. yielded' = yielded
    BY <1>3, <1>12
  <2>3. Belt' /\ Accounted'
    BY <1>3, <1>5, <2>1, <2>2, BeltStays DEF BufferInv
  <2> QED BY <1>5, <2>2, <2>3
<1>13. Belt' /\ Accounted' /\ yielded' \in Seq(FedItems) /\ InOrderOf(yielded')
  BY <1>11, <1>12
<1>14. MarkSound'
  <2>1. \A j \in 1..NumStages + 1 : EndMark \in Range(line'[j]) => EndMark \in Range(line[j])
    BY <1>6, <1>7
  <2>2. \A j : MarkedBefore(j) => MarkedBefore(j)'
    BY <1>3, <1>4 DEF MarkedBefore
  <2>3. \A j \in 1..NumStages + 1 : MarkLast(line'[j])
    <3>1. \A j \in 1..NumStages + 1 : MarkLast(line[j])
      BY DEF BufferInv, MarkSound, MarkLast
    <3> QED BY <1>6, <1>7, <3>1
  <2>4. \A j \in 1..NumStages + 1 : EndMark \in Range(line'[j]) => MarkedBefore(j)'
    BY <2>1, <2>2 DEF BufferInv, MarkSound
  <2>5. \A j \in Workers : stageEnd'[j] = "marked" =>
          hand'[j] = EndMark /\ EndMark \notin Range(line'[j]) /\ MarkedBefore(j)'
    <3>1. Workers \subseteq 1..NumStages + 1
      BY BufferConstants
    <3> QED BY <1>3, <2>1, <2>2, <3>1 DEF BufferInv, MarkSound
  <2> QED BY <2>3, <2>4, <2>5 DEF MarkSound, MarkLast
<1>15. \A j \in 1..NumStages + 1 : Len(line'[j]) \in Nat /\ Len(line[j]) \in Nat /\ Len(line'[j]) <= Len(line[j])
  <2> SUFFICES ASSUME NEW j \in 1..NumStages + 1
               PROVE  Len(line'[j]) \in Nat /\ Len(line[j]) \in Nat /\ Len(line'[j]) <= Len(line[j])
    OBVIOUS
  <2>1. Len(line'[j]) \in Nat /\ Len(line[j]) \in Nat
    BY <1>5, <1>7, LenProperties
  <2>2. CASE j = n
    BY <1>6, <1>7, <2>1, <2>2
  <2>3. CASE j # n
    BY <1>7, <2>1, <2>3
  <2> QED BY <2>1, <2>2, <2>3
<1>16. Room'
  <2>1. \A j \in Workers : j \in 1..NumStages + 1 /\ j + 1 \in 1..NumStages + 1
    BY BufferConstants
  <2>2. ASSUME NEW j \in Workers PROVE Len(line'[j]) <= BufferSize
    <3>1. Len(line[j]) <= BufferSize
      BY DEF BufferInv, Room
    <3> QED BY <1>5, <1>15, <2>1, <3>1
  <2>3. ASSUME NEW j \in Workers, j < NumStages, hand'[j] # EndMark PROVE Len(line'[j + 1]) < BufferSize
    <3>1. Len(line[j + 1]) < BufferSize
      BY <1>3, <2>3 DEF BufferInv, Room
    <3> QED BY <1>5, <1>15, <2>1, <3>1
  <2> QED BY <2>2, <2>3 DEF Room
<1>17. BufferTypes'
  BY <1>3, <1>4, <1>7, <1>13 DEF BufferInv, BufferTypes
<1>18. \A j \in 1..NumStages + 1 : InOrderOf(line'[j])
  BY <1>6, <1>7 DEF BufferInv
<1> QED BY <1>13, <1>14, <1>16, <1>17, <1>18 DEF BufferInv

\* The reader leaves, or stream() has gathered its stages.
LEMMA StreamLeavesKeeps ==
  ASSUME BufferInv, LeaveStream \/ StreamEnds
  PROVE  BufferInv'
<1>1. UNCHANGED <<line, hand, stageEnd, fed, yielded, results, absorbed>>
  BY DEF LeaveStream, StreamEnds
<1>2. phase' \in {"left", "returned"} /\ phase \in {"reading", "gathering"}
  BY DEF LeaveStream, StreamEnds
<1>3. \A y : \A s \in Nat : OnBelt(y, s)' <=> OnBelt(y, s)
  BY <1>1 DEF OnBelt
<1>4. Belt' /\ Accounted'
  BY <1>1, <1>3, BeltStays DEF BufferInv, BufferTypes
<1>5. MarkSound'
  <2>1. \A j : MarkedBefore(j) => MarkedBefore(j)'
    BY <1>1, <1>2 DEF MarkedBefore
  <2> QED BY <1>1, <2>1 DEF BufferInv, MarkSound
<1>6. Room' /\ BufferTypes'
  BY <1>1, <1>2 DEF BufferInv, Room, BufferTypes
<1> QED BY <1>1, <1>4, <1>5, <1>6 DEF BufferInv

\* Nothing is on the belt at first.
LEMMA BufferInitially ==
  ASSUME BufferInit PROVE BufferInv
<1>1. /\ line = [i \in 1..NumStages + 1 |-> <<>>] /\ hand = [i \in Workers |-> EndMark]
      /\ stageEnd = [i \in Workers |-> "no"] /\ phase = "feeding" /\ fed = 0 /\ yielded = <<>>
      /\ results = <<>> /\ absorbed = {}
  BY DEF BufferInit
<1>2. EndMark \in Contents /\ EndMark \notin FedItems /\ 0 \in 0..MaxFed /\ 1..0 = {}
  BY BufferConstants DEF Contents
<1>3. <<>> \in Seq(Contents) /\ <<>> \in Seq(FedItems) /\ Len(<<>>) = 0 /\ Range(<<>>) = {}
  BY EmptySeq, EmptyRange
<1>4. /\ \A i \in 1..NumStages + 1 : line[i] = <<>>
      /\ \A i \in Workers : hand[i] = EndMark /\ stageEnd[i] = "no" /\ i \in 1..NumStages + 1
  BY <1>1, BufferConstants
<1>5. BufferTypes
  <2>1. line \in [1..NumStages + 1 -> Seq(Contents)]
    BY <1>1, <1>3
  <2>2. hand \in [Workers -> Contents] /\ stageEnd \in [Workers -> {"no", "marked", "raised"}]
    BY <1>1, <1>2
  <2> QED BY <1>1, <1>2, <1>3, <2>1, <2>2 DEF BufferTypes
<1>6. \A x \in FedItems : \A r \in Nat : ~OnBelt(x, r)
  BY <1>2, <1>3, <1>4 DEF OnBelt
<1>7. Belt /\ Accounted
  BY <1>1, <1>2, <1>3, <1>6 DEF Belt, Accounted
<1>8. Room
  <2>1. \A i \in Workers : Len(line[i]) = 0
    BY <1>3, <1>4
  <2> QED BY <1>4, <2>1, BufferConstants DEF Room
<1>9. MarkSound
  <2>1. \A i \in 1..NumStages + 1 : EndMark \notin Range(line[i]) /\ 1..Len(line[i]) = {}
    BY <1>2, <1>3, <1>4
  <2> QED BY <1>1, <1>4, <2>1 DEF MarkSound
<1>10. InOrderOf(yielded) /\ \A i \in 1..NumStages + 1 : InOrderOf(line[i])
  <2>1. InOrderOf(<<>>)
    BY <1>2, <1>3 DEF InOrderOf
  <2> QED BY <1>1, <1>4, <2>1
<1> QED BY <1>5, <1>7, <1>8, <1>9, <1>10 DEF BufferInv

\* Every step keeps the invariant.
LEMMA BufferStep == BufferInv /\ [BufferNext]_bufferVars => BufferInv'
<1> SUFFICES ASSUME BufferInv, [BufferNext]_bufferVars PROVE BufferInv'
  OBVIOUS
<1>1. CASE UNCHANGED bufferVars
  <2>1. UNCHANGED <<line, hand, stageEnd, phase, fed, yielded, results, absorbed>>
    BY <1>1 DEF bufferVars
  <2>2. \A y : \A s \in Nat : OnBelt(y, s)' <=> OnBelt(y, s)
    BY <2>1 DEF OnBelt
  <2>3. Belt' /\ Accounted'
    BY <2>1, <2>2, BeltStays DEF BufferInv, BufferTypes
  <2>4. MarkSound' /\ Room' /\ BufferTypes'
    <3>1. \A j : MarkedBefore(j)' <=> MarkedBefore(j)
      BY <2>1 DEF MarkedBefore
    <3> QED BY <2>1, <3>1 DEF BufferInv, MarkSound, Room, BufferTypes
  <2> QED BY <2>1, <2>3, <2>4 DEF BufferInv
<1>2. ASSUME NEW i \in Workers, StageTakes(i) PROVE BufferInv'
  BY <1>2, StageTakesItemKeeps, StageTakesMarkKeeps
<1>3. ASSUME NEW i \in Workers, NEW b \in BOOLEAN, StagePuts(i, b) PROVE BufferInv'
  <2>1. CASE b = TRUE
    BY <1>3, <2>1, StagePassesKeeps
  <2>2. CASE b = FALSE
    BY <1>3, <2>2, StageFiltersKeeps
  <2> QED BY <2>1, <2>2
<1>4. CASE \E i \in Workers : StageRaises(i)
  BY <1>4, StageRaisesKeeps
<1>5. CASE Feed \/ (\E b \in BOOLEAN : Mark(b)) \/ ReadResult \/ LeaveStream \/ StreamEnds
  BY <1>5, FeedKeeps, MarkKeeps, ReadResultKeeps, StreamLeavesKeeps
<1> QED BY <1>1, <1>2, <1>3, <1>4, <1>5 DEF BufferNext

\* Where an item is, it is once.
LEMMA HeldOnce ==
  ASSUME BufferInv, NEW x \in 1..fed
  PROVE  Holds(x) = 1
<1> DEFINE A == UNION {{<<i, j>> : j \in {k \in 1..Len(line[i]) : line[i][k] = x}} : i \in DOMAIN line}
           B == {i \in Workers : hand[i] = x}
           C == {j \in 1..Len(yielded) : yielded[j] = x}
           d == IF x \in absorbed THEN 1 ELSE 0
<1>1. /\ x \in FedItems /\ NumStages \in Nat /\ yielded \in Seq(FedItems)
      /\ line \in [1..NumStages + 1 -> Seq(Contents)] /\ DOMAIN line = 1..NumStages + 1
      /\ \A i \in Workers : i \in 1..NumStages + 1 /\ 2 * i + 1 \in Nat
      /\ \A i \in 1..NumStages + 1 : 2 * i \in Nat
  BY BufferConstants DEF BufferInv, BufferTypes
<1>2. \A i \in 1..NumStages + 1 : \A j, k \in 1..Len(line[i]) : line[i][j] = x /\ line[i][k] = x => j = k
  <2> SUFFICES ASSUME NEW i \in 1..NumStages + 1, NEW j \in 1..Len(line[i]), NEW k \in 1..Len(line[i]),
                      line[i][j] = x, line[i][k] = x
               PROVE  j = k
    OBVIOUS
  <2>1. ~(x < x) /\ InOrderOf(line[i])
    BY <1>1, BufferConstants DEF BufferInv
  <2>2. {line[i][j], line[i][k]} \subseteq FedItems /\ {line[i][k], line[i][j]} \subseteq FedItems
    BY <1>1
  <2>3. ~(line[i][j] < line[i][k]) /\ ~(line[i][k] < line[i][j])
    BY <2>1
  <2>4. ~(j < k) /\ ~(k < j)
    BY <2>1, <2>2, <2>3 DEF InOrderOf
  <2> QED BY <2>4
<1>3. \A j, k \in 1..Len(yielded) : yielded[j] = x /\ yielded[k] = x => j = k
  <2> SUFFICES ASSUME NEW j \in 1..Len(yielded), NEW k \in 1..Len(yielded), yielded[j] = x, yielded[k] = x
               PROVE  j = k
    OBVIOUS
  <2>1. ~(x < x) /\ InOrderOf(yielded)
    BY <1>1, BufferConstants DEF BufferInv
  <2> QED BY <1>1, <2>1 DEF InOrderOf
<1>4. \A r, s \in Nat : OnBelt(x, r) /\ OnBelt(x, s) => r = s
  <2>1. ~(x < x)
    BY <1>1, BufferConstants
  <2> QED BY <1>1, <2>1 DEF BufferInv, Belt
<1>5. /\ \A i \in 1..NumStages + 1 : OnBelt(x, 2 * i) <=> x \in Range(line[i])
      /\ \A i \in Workers : OnBelt(x, 2 * i + 1) <=> hand[i] = x
  BY BeltPlaces
<1>6. \A i \in 1..NumStages + 1 : x \in Range(line[i]) <=> \E j \in 1..Len(line[i]) : line[i][j] = x
  <2> SUFFICES ASSUME NEW i \in 1..NumStages + 1
               PROVE  x \in Range(line[i]) <=> \E j \in 1..Len(line[i]) : line[i][j] = x
    OBVIOUS
  <2> QED BY <1>1, RangeByIndex
<1>7. x \in Range(yielded) <=> \E j \in 1..Len(yielded) : yielded[j] = x
  BY <1>1, RangeByIndex
<1>8. \A p : p \in A <=> \E i \in 1..NumStages + 1 : \E j \in 1..Len(line[i]) : line[i][j] = x /\ p = <<i, j>>
  BY <1>1
<1>9. /\ x \in absorbed \/ x \in Range(yielded) \/ \E r \in Nat : OnBelt(x, r)
      /\ x \in Range(yielded) => \A r \in Nat : ~OnBelt(x, r)
      /\ x \in absorbed => x \notin Range(yielded) /\ \A r \in Nat : ~OnBelt(x, r)
  BY <1>1 DEF BufferInv, Accounted
<1>10. Holds(x) = Cardinality(A) + Cardinality(B) + Cardinality(C) + d
  BY DEF Holds
<1> HIDE DEF A
<1>11. (\A r \in Nat : ~OnBelt(x, r)) => A = {} /\ B = {}
  BY <1>1, <1>5, <1>6, <1>8
<1>12. x \notin Range(yielded) => C = {}
  BY <1>7
<1>13. x \in Range(yielded) => \E j : C = {j}
  <2> SUFFICES ASSUME x \in Range(yielded) PROVE \E j : C = {j}
    OBVIOUS
  <2>1. PICK j \in 1..Len(yielded) : yielded[j] = x
    BY <1>7
  <2>2. C = {j}
    BY <1>3, <2>1
  <2> QED BY <2>2
<1>14. (\E r \in Nat : OnBelt(x, r)) =>
         \/ A = {} /\ \E i : B = {i}
         \/ B = {} /\ \E p : A = {p}
  <2> SUFFICES ASSUME NEW r \in Nat, OnBelt(x, r)
               PROVE  \/ A = {} /\ \E i : B = {i}
                      \/ B = {} /\ \E p : A = {p}
    OBVIOUS
  <2>1. CASE \E i \in Workers : r = 2 * i + 1 /\ hand[i] = x
    <3>1. PICK i \in Workers : r = 2 * i + 1 /\ hand[i] = x
      BY <2>1
    <3>2. ASSUME NEW k \in Workers, hand[k] = x PROVE k = i
      <4>1. 2 * k + 1 = 2 * i + 1
        BY <1>1, <1>4, <1>5, <3>1, <3>2
      <4> QED BY <4>1, BufferConstants
    <3>3. B = {i}
      BY <3>1, <3>2
    <3>4. ASSUME NEW k \in 1..NumStages + 1 PROVE x \notin Range(line[k])
      <4>1. 2 * k # 2 * i + 1
        BY <1>1, BufferConstants
      <4> QED BY <1>1, <1>4, <1>5, <3>1, <4>1
    <3>5. A = {}
      BY <1>6, <1>8, <3>4
    <3> QED BY <3>3, <3>5
  <2>2. CASE \E i \in 1..NumStages + 1 : r = 2 * i /\ x \in Range(line[i])
    <3>1. PICK i \in 1..NumStages + 1 : r = 2 * i /\ x \in Range(line[i])
      BY <2>2
    <3>2. PICK j \in 1..Len(line[i]) : line[i][j] = x
      BY <1>6, <3>1
    <3>3. ASSUME NEW k \in 1..NumStages + 1, x \in Range(line[k]) PROVE k = i
      <4>1. 2 * k = 2 * i
        BY <1>1, <1>4, <1>5, <3>1, <3>3
      <4> QED BY <4>1, BufferConstants
    <3>4. A = {<<i, j>>}
      <4>1. <<i, j>> \in A
        BY <1>8, <3>2
      <4>2. ASSUME NEW p \in A PROVE p = <<i, j>>
        <5>1. PICK k \in 1..NumStages + 1 : \E m \in 1..Len(line[k]) : line[k][m] = x /\ p = <<k, m>>
          BY <1>8
        <5>2. PICK m \in 1..Len(line[k]) : line[k][m] = x /\ p = <<k, m>>
          BY <5>1
        <5>3. k = i
          BY <1>6, <3>3, <5>2
        <5> QED BY <1>2, <3>2, <5>2, <5>3
      <4> QED BY <4>1, <4>2
    <3>5. ASSUME NEW k \in Workers PROVE hand[k] # x
      <4>1. 2 * k + 1 # 2 * i
        BY <1>1, BufferConstants
      <4> QED BY <1>1, <1>4, <1>5, <3>1, <4>1
    <3>6. B = {}
      BY <3>5
    <3> QED BY <3>4, <3>6
  <2> QED BY <2>1, <2>2 DEF OnBelt
<1> HIDE DEF B, C
<1>15. Cardinality({}) = 0 /\ \A e : Cardinality({e}) = 1
  BY FS_EmptySet, FS_Singleton
<1>16. CASE x \in absorbed
  BY <1>9, <1>10, <1>11, <1>12, <1>15, <1>16
<1>17. CASE x \notin absorbed /\ x \in Range(yielded)
  <2>1. PICK j : C = {j}
    BY <1>13, <1>17
  <2> QED BY <1>9, <1>10, <1>11, <1>15, <1>17, <2>1
<1>18. CASE x \notin absorbed /\ x \notin Range(yielded)
  <2>1. d = 0 /\ C = {}
    BY <1>12, <1>18
  <2> HIDE DEF d
  <2>2. CASE A = {} /\ \E i : B = {i}
    <3>1. Cardinality(A) = 0 /\ Cardinality(B) = 1 /\ Cardinality(C) = 0
      BY <1>15, <2>1, <2>2
    <3> QED BY <1>10, <2>1, <3>1
  <2>3. CASE B = {} /\ \E p : A = {p}
    <3>1. Cardinality(A) = 1 /\ Cardinality(B) = 0 /\ Cardinality(C) = 0
      BY <1>15, <2>1, <2>3
    <3> QED BY <1>10, <2>1, <3>1
  <2> QED BY <1>9, <1>14, <1>18, <2>2, <2>3
<1> QED BY <1>16, <1>17, <1>18

\* The invariant implies the type invariant and the property.
LEMMA BufferConsequence ==
  ASSUME BufferInv PROVE BufferTypeOK /\ BufferedOnce
<1>1. BufferTypeOK
  BY DEF BufferInv, BufferTypes, Room, BufferTypeOK, Contents
<1>2. DOMAIN line = 1..NumStages + 1
  BY DEF BufferInv, BufferTypes
<1> QED BY <1>1, <1>2, HeldOnce DEF BufferedOnce, BufferInv

\* The reader and the last stage compete for one queue, but the queues neither lose
\* nor double an item, and each of the two gets its items in order.
THEOREM BufferKeepsItems == BufferSpec => []BufferedOnce
<1> QED BY BufferInitially, BufferStep, BufferConsequence, PTL DEF BufferSpec

-----------------------------------------------------------------------------
(* The observables. *)

AllSetters == Setters \cup {Observer}
CellContents == CellValues \cup {Absent}

ObsTypes ==
  /\ cells \in [Cells -> CellContents] /\ started \in [Cells -> CellContents]
  /\ pending \in [AllSetters -> Announcement \cup {Absent}]
  /\ turn \in Seq(AllSetters) /\ IsInjective(turn)
  /\ \A t \in AllSetters : t \in Range(turn) <=> pending[t] # Absent
  /\ reacting \subseteq [change : Announcement, by : Setters \cup {Absent}]
  /\ seen \in Seq(Announcement) /\ lost \subseteq Cells

\* Who holds the lock, and only that task, has the observer react to its change;
\* what else the observer reacts to was given up.
ReactSound ==
  /\ \A r \in reacting : r.by # Absent =>
       turn # <<>> /\ turn[1] = r.by /\ r.change = pending[r.by]
  /\ \A r \in reacting : r.by = Absent => r.change.path \in lost
  /\ Observer \in Range(turn) => turn # <<>> /\ Awaits(turn[1])

\* The changes an observer has dealt with and then those that wait for the lock.
Queued(s, p, q) ==
  [k \in 1..Len(s) + Len(q) |-> IF k <= Len(s) THEN s[k] ELSE p[q[k - Len(s)]]]
Announced == Queued(seen, pending, turn)

ObsInv ==
  /\ ObsTypes /\ ReactSound
  /\ \A c \in Cells \ lost : Chain(Announced, c, started[c], cells[c])

\* Sequences with the same changes of a cell, in the same order, are chains alike.
LEMMA ChainTransfer ==
  ASSUME NEW s \in Seq(Announcement), NEW t \in Seq(Announcement), NEW c, NEW v, NEW w,
         NEW m \in [1..Len(t) -> 1..Len(s)],
         \A i, j \in 1..Len(t) : i < j => m[i] < m[j],
         \A i \in 1..Len(t) : t[i] = s[m[i]],
         \A k \in 1..Len(s) : s[k].path = c => \E i \in 1..Len(t) : m[i] = k
  PROVE  Chain(s, c, v, w) <=> Chain(t, c, v, w)
<1> DEFINE S == {i \in 1..Len(s) : s[i].path = c}
           T == {i \in 1..Len(t) : t[i].path = c}
<1>1. /\ \A i \in T : m[i] \in S /\ t[i] = s[m[i]]
      /\ \A k \in S : \E i \in T : m[i] = k
  OBVIOUS
<1>2. \A i, j \in T : (i < j <=> m[i] < m[j]) /\ (i <= j <=> m[i] <= m[j])
  <2> SUFFICES ASSUME NEW i \in T, NEW j \in T
               PROVE  (i < j <=> m[i] < m[j]) /\ (i <= j <=> m[i] <= m[j])
    OBVIOUS
  <2>1. i \in Int /\ j \in Int /\ m[i] \in Int /\ m[j] \in Int
    <3>1. i \in 1..Len(t) /\ j \in 1..Len(t)
      OBVIOUS
    <3>2. m[i] \in 1..Len(s) /\ m[j] \in 1..Len(s)
      BY <3>1
    <3> QED BY <3>1, <3>2
  <2>2. (i < j => m[i] < m[j]) /\ (j < i => m[j] < m[i]) /\ (i = j => m[i] = m[j])
    OBVIOUS
  <2> QED BY <2>1, <2>2
<1> HIDE DEF S, T
<1>3. \A i \in T : (\A j \in T : i <= j) <=> \A l \in S : m[i] <= l
  <2>1. ASSUME NEW i \in T, \A j \in T : i <= j, NEW l \in S PROVE m[i] <= l
    <3>1. PICK j \in T : m[j] = l
      BY <1>1
    <3> QED BY <1>2, <2>1, <3>1
  <2>2. ASSUME NEW i \in T, \A l \in S : m[i] <= l, NEW j \in T PROVE i <= j
    BY <1>1, <1>2, <2>2
  <2> QED BY <2>1, <2>2
<1>4. \A i \in T : (\A j \in T : j <= i) <=> \A l \in S : l <= m[i]
  <2>1. ASSUME NEW i \in T, \A j \in T : j <= i, NEW l \in S PROVE l <= m[i]
    <3>1. PICK j \in T : m[j] = l
      BY <1>1
    <3> QED BY <1>2, <2>1, <3>1
  <2>2. ASSUME NEW i \in T, \A l \in S : l <= m[i], NEW j \in T PROVE j <= i
    BY <1>1, <1>2, <2>2
  <2> QED BY <2>1, <2>2
<1>5. \A i, j \in T : (\A n \in T : n <= i \/ j <= n) <=> \A l \in S : l <= m[i] \/ m[j] <= l
  <2>1. ASSUME NEW i \in T, NEW j \in T, \A n \in T : n <= i \/ j <= n, NEW l \in S
        PROVE  l <= m[i] \/ m[j] <= l
    <3>1. PICK n \in T : m[n] = l
      BY <1>1
    <3> QED BY <1>2, <2>1, <3>1
  <2>2. ASSUME NEW i \in T, NEW j \in T, \A l \in S : l <= m[i] \/ m[j] <= l, NEW n \in T
        PROVE  n <= i \/ j <= n
    BY <1>1, <1>2, <2>2
  <2> QED BY <2>1, <2>2
<1>6. ASSUME Chain(s, c, v, w) PROVE Chain(t, c, v, w)
  <2>1. /\ \A k \in S : (\A l \in S : k <= l) => s[k].old = v
        /\ \A k, l \in S : k < l /\ (\A n \in S : n <= k \/ l <= n) => s[l].old = s[k].value
        /\ \A k \in S : (\A l \in S : l <= k) => s[k].value = w
        /\ S = {} => v = w
    BY <1>6 DEF Chain, S
  <2>2. \A i \in T : (\A j \in T : i <= j) => t[i].old = v
    BY <1>1, <1>3, <2>1
  <2>3. ASSUME NEW i \in T, NEW j \in T, i < j, \A n \in T : n <= i \/ j <= n
        PROVE  t[j].old = t[i].value
    <3>1. m[i] < m[j] /\ m[i] \in S /\ m[j] \in S /\ \A l \in S : l <= m[i] \/ m[j] <= l
      BY <1>1, <1>2, <1>5, <2>3
    <3>2. s[m[j]].old = s[m[i]].value
      BY <2>1, <3>1
    <3> QED BY <1>1, <3>2
  <2>4. \A i \in T : (\A j \in T : j <= i) => t[i].value = w
    BY <1>1, <1>4, <2>1
  <2>5. T = {} => v = w
    BY <1>1, <2>1
  <2> QED BY <2>2, <2>3, <2>4, <2>5 DEF Chain, T
<1>7. ASSUME Chain(t, c, v, w) PROVE Chain(s, c, v, w)
  <2>1. /\ \A i \in T : (\A j \in T : i <= j) => t[i].old = v
        /\ \A i, j \in T : i < j /\ (\A n \in T : n <= i \/ j <= n) => t[j].old = t[i].value
        /\ \A i \in T : (\A j \in T : j <= i) => t[i].value = w
        /\ T = {} => v = w
    BY <1>7 DEF Chain, T
  <2>2. ASSUME NEW k \in S, \A l \in S : k <= l PROVE s[k].old = v
    <3>1. PICK i \in T : m[i] = k
      BY <1>1
    <3> QED BY <1>1, <1>3, <2>1, <2>2, <3>1
  <2>3. ASSUME NEW k \in S, NEW l \in S, k < l, \A n \in S : n <= k \/ l <= n
        PROVE  s[l].old = s[k].value
    <3>1. PICK i \in T : m[i] = k
      BY <1>1
    <3>2. PICK j \in T : m[j] = l
      BY <1>1
    <3> QED BY <1>1, <1>2, <1>5, <2>1, <2>3, <3>1, <3>2
  <2>4. ASSUME NEW k \in S, \A l \in S : l <= k PROVE s[k].value = w
    <3>1. PICK i \in T : m[i] = k
      BY <1>1
    <3> QED BY <1>1, <1>4, <2>1, <2>4, <3>1
  <2>5. S = {} => v = w
    BY <1>1, <2>1
  <2> QED BY <2>2, <2>3, <2>4, <2>5 DEF Chain, S
<1> QED BY <1>6, <1>7

\* A change of another cell makes no difference.
LEMMA ChainWithout ==
  ASSUME NEW s \in Seq(Announcement), NEW t \in Seq(Announcement), NEW c, NEW v, NEW w,
         NEW i \in 1..Len(s), s[i].path # c, Len(s) = Len(t) + 1,
         \A j \in 1..Len(t) : t[j] = IF j < i THEN s[j] ELSE s[j + 1]
  PROVE  Chain(s, c, v, w) <=> Chain(t, c, v, w)
<1> DEFINE m == [j \in 1..Len(t) |-> IF j < i THEN j ELSE j + 1]
<1>1. Len(t) \in Nat /\ Len(s) \in Nat
  BY LenProperties
<1>2. m \in [1..Len(t) -> 1..Len(s)]
  BY <1>1
<1>3. \A j, k \in 1..Len(t) : j < k => m[j] < m[k]
  BY <1>1
<1>4. \A j \in 1..Len(t) : t[j] = s[m[j]]
  OBVIOUS
<1>5. ASSUME NEW k \in 1..Len(s), s[k].path = c PROVE \E j \in 1..Len(t) : m[j] = k
  <2>1. k # i
    BY <1>5
  <2>2. CASE k < i
    <3>1. k \in 1..Len(t) /\ m[k] = k
      BY <1>1, <2>2
    <3> QED BY <3>1
  <2>3. CASE i < k
    <3>1. k - 1 \in 1..Len(t) /\ m[k - 1] = k
      BY <1>1, <2>3
    <3> QED BY <3>1
  <2> QED BY <2>1, <2>2, <2>3
<1> HIDE DEF m
<1> QED BY <1>2, <1>3, <1>4, <1>5, ChainTransfer

\* One more change.
LEMMA ChainAppend ==
  ASSUME NEW s \in Seq(Announcement), NEW t \in Seq(Announcement), NEW c, NEW v, NEW w,
         Len(t) = Len(s) + 1, \A i \in 1..Len(s) : t[i] = s[i], Chain(s, c, v, w)
  PROVE  LET ch == t[Len(t)]
         IN /\ ch.path = c /\ ch.old = w => Chain(t, c, v, ch.value)
            /\ ch.path # c => Chain(t, c, v, w)
<1> DEFINE n == Len(t)
           S == {i \in 1..Len(s) : s[i].path = c}
           T == {i \in 1..Len(t) : t[i].path = c}
<1>1. Len(s) \in Nat /\ n \in Nat /\ n \in 1..Len(t) /\ n - 1 = Len(s)
  BY LenProperties
<1>2. t[n].path # c => Chain(t, c, v, w)
  <2> SUFFICES ASSUME t[n].path # c PROVE Chain(t, c, v, w)
    OBVIOUS
  <2>1. \A j \in 1..Len(s) : s[j] = IF j < n THEN t[j] ELSE t[j + 1]
    BY <1>1
  <2> HIDE DEF n
  <2> QED BY <1>1, <2>1, ChainWithout DEF n
<1>3. ASSUME t[n].path = c, t[n].old = w PROVE Chain(t, c, v, t[n].value)
  <2>1. T = S \cup {n} /\ n \notin S /\ (\A i \in S : t[i] = s[i] /\ i < n) /\ S \subseteq Int /\ n \in Int
    BY <1>1, <1>3
  <2>2. /\ \A i \in S : (\A j \in S : i <= j) => s[i].old = v
        /\ \A i, j \in S : i < j /\ (\A k \in S : k <= i \/ j <= k) => s[j].old = s[i].value
        /\ \A i \in S : (\A j \in S : j <= i) => s[i].value = w
        /\ S = {} => v = w
    BY DEF Chain
  <2> HIDE DEF S, T, n
  <2>3. ASSUME NEW i \in T, \A j \in T : i <= j PROVE t[i].old = v
    <3>1. CASE i = n
      <4>1. S = {}
        BY <2>1, <2>3, <3>1
      <4> QED BY <1>3, <2>2, <3>1, <4>1
    <3>2. CASE i \in S
      BY <2>1, <2>2, <2>3, <3>2
    <3> QED BY <2>1, <3>1, <3>2
  <2>4. ASSUME NEW i \in T, NEW j \in T, i < j, \A k \in T : k <= i \/ j <= k
        PROVE  t[j].old = t[i].value
    <3> T = S \cup {n} /\ (\A k \in S : k < n) /\ S \subseteq Int /\ n \in Int
      BY <2>1
    <3>1. i \in S
      <4>1. j <= n /\ i \in Int /\ j \in Int
        OBVIOUS
      <4> QED BY <2>4, <4>1
    <3>2. CASE j = n
      <4>1. ASSUME NEW k \in S PROVE k <= i
        <5>1. k <= i \/ j <= k
          BY <2>4
        <5>2. k \in Int /\ n \in Int /\ k < n
          OBVIOUS
        <5>3. ~(j <= k)
          BY <3>2, <5>2
        <5> QED BY <5>1, <5>3
      <4> QED BY <1>3, <2>1, <2>2, <3>1, <3>2, <4>1
    <3>3. CASE j \in S
      BY <2>1, <2>2, <2>4, <3>1, <3>3
    <3> QED BY <2>1, <3>2, <3>3
  <2>5. ASSUME NEW i \in T, \A j \in T : j <= i PROVE t[i].value = t[n].value
    BY <2>1, <2>5
  <2>6. T # {}
    BY <2>1
  <2> QED BY <2>3, <2>4, <2>5, <2>6 DEF Chain, T
<1> QED BY <1>2, <1>3

\* The beginning of a chain is one.
LEMMA ChainPrefix ==
  ASSUME NEW s \in Seq(Announcement), NEW t \in Seq(Announcement), NEW c,
         NEW v \in CellContents, NEW w \in CellContents,
         Len(t) <= Len(s), \A i \in 1..Len(t) : t[i] = s[i], Chain(s, c, v, w)
  PROVE  \E u \in CellContents : Chain(t, c, v, u)
<1> DEFINE S == {i \in 1..Len(s) : s[i].path = c}
           T == {i \in 1..Len(t) : t[i].path = c}
           R == {i \in S : Len(t) < i}
<1>1. /\ Len(s) \in Nat /\ Len(t) \in Nat /\ T \subseteq S /\ R \subseteq S /\ R \subseteq Nat
      /\ \A i \in S : i \in T \/ i \in R
      /\ \A i \in T : i <= Len(t) /\ t[i] = s[i] /\ \A k \in R : i < k
      /\ S \subseteq Int /\ \A i \in S : s[i].old \in CellContents
  <2>1. \A i \in 1..Len(s) : s[i] \in Announcement
    BY ElementOfSeq
  <2> QED BY <2>1, LenProperties DEF Announcement, CellContents
<1>2. /\ \A i \in S : (\A j \in S : i <= j) => s[i].old = v
      /\ \A i, j \in S : i < j /\ (\A k \in S : k <= i \/ j <= k) => s[j].old = s[i].value
      /\ \A i \in S : (\A j \in S : j <= i) => s[i].value = w
      /\ S = {} => v = w
  BY DEF Chain
<1> HIDE DEF S, T, R
<1>3. CASE R = {}
  <2>1. S = T
    BY <1>1, <1>3
  <2>2. Chain(t, c, v, w)
    BY <1>1, <1>2, <2>1 DEF Chain, T
  <2> QED BY <2>2
<1>4. CASE R # {}
  <2>1. PICK r \in R : \A k \in R : r <= k
    BY <1>1, <1>4, LeastExists
  <2>2. /\ \A i \in T : (\A j \in T : i <= j) => t[i].old = v
        /\ \A i, j \in T : i < j /\ (\A k \in T : k <= i \/ j <= k) => t[j].old = t[i].value
        /\ \A i \in T : (\A j \in T : j <= i) => t[i].value = s[r].old
        /\ T = {} => v = s[r].old
    <3>1. ASSUME NEW i \in T, \A j \in T : i <= j PROVE t[i].old = v
      <4>1. ASSUME NEW j \in S PROVE i <= j
        BY <1>1, <3>1
      <4> QED BY <1>1, <1>2, <4>1
    <3>2. ASSUME NEW i \in T, NEW j \in T, i < j, \A k \in T : k <= i \/ j <= k
          PROVE  t[j].old = t[i].value
      <4>1. ASSUME NEW k \in S PROVE k <= i \/ j <= k
        <5>1. CASE k \in T
          BY <3>2, <5>1
        <5>2. CASE k \in R
          <6>1. j < k /\ j \in Int /\ k \in Int
            BY <1>1, <5>2
          <6> QED BY <6>1
        <5> QED BY <1>1, <5>1, <5>2
      <4> QED BY <1>1, <1>2, <3>2, <4>1
    <3>3. ASSUME NEW i \in T, \A j \in T : j <= i PROVE t[i].value = s[r].old
      <4>1. i < r /\ \A k \in S : k <= i \/ r <= k
        BY <1>1, <2>1, <3>3
      <4> QED BY <1>1, <1>2, <2>1, <4>1
    <3>4. ASSUME T = {} PROVE v = s[r].old
      <4>1. \A k \in S : r <= k
        BY <1>1, <2>1, <3>4
      <4> QED BY <1>1, <1>2, <2>1, <4>1
    <3> QED BY <3>1, <3>2, <3>3, <3>4
  <2>3. Chain(t, c, v, s[r].old)
    BY <2>2 DEF Chain, T
  <2> QED BY <1>1, <2>1, <2>3
<1> QED BY <1>3, <1>4


\* What is announced is the changes dealt with and then those that wait.
LEMMA QueuedAt ==
  ASSUME NEW s \in Seq(Announcement), NEW p \in [AllSetters -> Announcement \cup {Absent}],
         NEW q \in Seq(AllSetters), \A u \in AllSetters : u \in Range(q) => p[u] # Absent
  PROVE  /\ Queued(s, p, q) \in Seq(Announcement) /\ Len(Queued(s, p, q)) = Len(s) + Len(q)
         /\ Len(s) \in Nat /\ Len(q) \in Nat
         /\ \A k \in 1..Len(s) : Queued(s, p, q)[k] = s[k]
         /\ \A k \in 1..Len(q) : /\ q[k] \in AllSetters /\ p[q[k]] \in Announcement
                                 /\ Queued(s, p, q)[Len(s) + k] = p[q[k]]
<1> DEFINE n == Len(s) + Len(q)
           a == Queued(s, p, q)
<1>1. /\ Len(s) \in Nat /\ Len(q) \in Nat /\ \A k \in 1..Len(s) : s[k] \in Announcement
      /\ \A k \in 1..Len(q) : q[k] \in AllSetters /\ q[k] \in Range(q)
  BY LenProperties, ElementOfSeq, RangeByIndex
<1>2. \A k \in 1..Len(q) : p[q[k]] \in Announcement
  BY <1>1
<1>3. /\ n \in Nat /\ a \in [1..n -> Announcement]
      /\ \A k \in 1..n : a[k] = IF k <= Len(s) THEN s[k] ELSE p[q[k - Len(s)]]
  <2>1. \A k \in 1..n : (IF k <= Len(s) THEN s[k] ELSE p[q[k - Len(s)]]) \in Announcement
    <3> SUFFICES ASSUME NEW k \in 1..n
                 PROVE  (IF k <= Len(s) THEN s[k] ELSE p[q[k - Len(s)]]) \in Announcement
      OBVIOUS
    <3>1. CASE k <= Len(s)
      BY <1>1, <3>1
    <3>2. CASE Len(s) < k
      <4>1. k - Len(s) \in 1..Len(q)
        BY <1>1, <3>2
      <4> QED BY <1>1, <1>2, <3>2, <4>1
    <3> QED BY <1>1, <3>1, <3>2
  <2> QED BY <1>1, <2>1 DEF Queued
<1> HIDE DEF a
<1>4. \A k \in 1..Len(q) : a[Len(s) + k] = p[q[k]]
  <2> SUFFICES ASSUME NEW k \in 1..Len(q) PROVE a[Len(s) + k] = p[q[k]]
    OBVIOUS
  <2>1. Len(s) + k \in 1..n /\ ~(Len(s) + k <= Len(s)) /\ (Len(s) + k) - Len(s) = k
    BY <1>1
  <2> HIDE DEF n
  <2> QED BY <1>3, <2>1
<1>5. \A k \in 1..Len(s) : a[k] = s[k]
  BY <1>1, <1>3
<1> HIDE DEF n
<1>6. a \in Seq(Announcement) /\ Len(a) = n
  BY <1>3, SeqDef, LenProperties
<1> QED BY <1>1, <1>2, <1>4, <1>5, <1>6 DEF n, a

\* A change is made and waits to be announced.
LEMMA AlterKeeps ==
  ASSUME ObsInv, NEW t \in AllSetters, NEW c \in Cells, NEW new \in CellContents, Alter(t, c, new),
         t = Observer => turn # <<>> /\ Awaits(turn[1])
  PROVE  ObsInv'
<1> DEFINE ch == Change(c, cells[c], new)
<1>1. /\ pending[t] = Absent /\ cells' = [cells EXCEPT ![c] = new]
      /\ pending' = [pending EXCEPT ![t] = ch] /\ turn' = Append(turn, t)
      /\ UNCHANGED <<started, reacting, seen, lost>>
  BY DEF Alter, Enqueue
<1>2. /\ cells \in [Cells -> CellContents] /\ pending \in [AllSetters -> Announcement \cup {Absent}]
      /\ turn \in Seq(AllSetters) /\ IsInjective(turn) /\ t \notin Range(turn)
      /\ \A u \in AllSetters : u \in Range(turn) <=> pending[u] # Absent
  BY <1>1 DEF ObsInv, ObsTypes
<1>3. /\ ch \in Announcement /\ ch # Absent /\ ch.path = c /\ ch.old = cells[c] /\ ch.value = new
  BY <1>2, ObsAssumption DEF Change, Announcement, CellContents
<1> HIDE DEF ch
<1>4. /\ turn' \in Seq(AllSetters) /\ Len(turn') = Len(turn) + 1 /\ Range(turn') = Range(turn) \cup {t}
      /\ IsInjective(turn') /\ turn' # <<>>
  BY <1>1, <1>2, AppendRange
<1>5. /\ pending' \in [AllSetters -> Announcement \cup {Absent}] /\ pending'[t] = ch
      /\ \A u \in AllSetters : u # t => pending'[u] = pending[u]
      /\ cells' \in [Cells -> CellContents] /\ cells'[c] = new
      /\ \A d \in Cells : d # c => cells'[d] = cells[d]
  BY <1>1, <1>2, <1>3
<1>6. ObsTypes'
  <2>1. \A u \in AllSetters : u \in Range(turn') <=> pending'[u] # Absent
    BY <1>2, <1>3, <1>4, <1>5
  <2> QED BY <1>1, <1>4, <1>5, <2>1 DEF ObsInv, ObsTypes
<1>7. \A k \in 1..Len(turn) : turn'[k] = turn[k] /\ turn[k] \in AllSetters /\ turn[k] # t
  <2>1. \A k \in 1..Len(turn) : turn[k] \in Range(turn) /\ turn[k] \in AllSetters /\ turn'[k] = turn[k]
    BY <1>1, <1>2, AppendProperties, RangeByIndex, ElementOfSeq
  <2> QED BY <1>2, <2>1
<1>8. /\ turn'[Len(turn) + 1] = t /\ Len(turn) \in Nat
      /\ turn # <<>> => 1 \in 1..Len(turn)
  BY <1>1, <1>2, AppendProperties, LenProperties, EmptySeq
<1>9. ReactSound'
  <2>1. ASSUME turn # <<>> PROVE turn'[1] = turn[1] /\ turn[1] \in AllSetters /\ turn[1] # t
    BY <1>7, <1>8, <2>1
  <2>2. \A r \in reacting' : r.by # Absent => turn' # <<>> /\ turn'[1] = r.by /\ r.change = pending'[r.by]
    BY <1>1, <1>4, <1>5, <2>1 DEF ObsInv, ReactSound
  <2>3. \A r \in reacting' : r.by = Absent => r.change.path \in lost'
    BY <1>1 DEF ObsInv, ReactSound
  <2>4. ASSUME Observer \in Range(turn') PROVE (turn # <<>> /\ Awaits(turn[1]))'
    <3>1. turn # <<>> /\ Awaits(turn[1])
      BY <1>4, <2>4 DEF ObsInv, ReactSound
    <3> QED BY <1>1, <1>4, <2>1, <3>1 DEF Awaits
  <2> QED BY <2>2, <2>3, <2>4 DEF ReactSound
<1>10. /\ Announced \in Seq(Announcement) /\ Announced' \in Seq(Announcement)
       /\ Len(Announced') = Len(Announced) + 1 /\ Announced'[Len(Announced')] = ch
       /\ \A k \in 1..Len(Announced) : Announced'[k] = Announced[k]
  <2>1. /\ Announced \in Seq(Announcement) /\ Len(Announced) = Len(seen) + Len(turn)
        /\ Len(seen) \in Nat /\ \A k \in 1..Len(seen) : Announced[k] = seen[k]
        /\ \A k \in 1..Len(turn) : Announced[Len(seen) + k] = pending[turn[k]]
    <3>1. /\ seen \in Seq(Announcement) /\ pending \in [AllSetters -> Announcement \cup {Absent}]
          /\ turn \in Seq(AllSetters) /\ \A u \in AllSetters : u \in Range(turn) => pending[u] # Absent
      BY DEF ObsInv, ObsTypes
    <3> QED BY <3>1, QueuedAt DEF Announced
  <2>2. /\ Announced' \in Seq(Announcement) /\ Len(Announced') = Len(seen) + (Len(turn) + 1)
        /\ \A k \in 1..Len(seen) : Announced'[k] = seen[k]
        /\ \A k \in 1..Len(turn) + 1 : Announced'[Len(seen) + k] = pending'[turn'[k]]
    <3>1. seen' \in Seq(Announcement) /\ \A u \in AllSetters : u \in Range(turn') => pending'[u] # Absent
      BY <1>6 DEF ObsTypes
    <3>2. Announced' = Queued(seen', pending', turn')
      BY DEF Announced
    <3>3. pending' \in [AllSetters -> Announcement \cup {Absent}] /\ turn' \in Seq(AllSetters)
      BY <1>6 DEF ObsTypes
    <3>4. /\ Announced' \in Seq(Announcement) /\ Len(Announced') = Len(seen') + Len(turn')
          /\ \A k \in 1..Len(seen') : Announced'[k] = seen'[k]
          /\ \A k \in 1..Len(turn') : Announced'[Len(seen') + k] = pending'[turn'[k]]
      <4>1. PICK s, p, q : s = seen' /\ p = pending' /\ q = turn'
        OBVIOUS
      <4>2. /\ s \in Seq(Announcement) /\ p \in [AllSetters -> Announcement \cup {Absent}]
            /\ q \in Seq(AllSetters) /\ \A u \in AllSetters : u \in Range(q) => p[u] # Absent
        BY <3>1, <3>3, <4>1
      <4>3. /\ Queued(s, p, q) \in Seq(Announcement) /\ Len(Queued(s, p, q)) = Len(s) + Len(q)
            /\ \A k \in 1..Len(s) : Queued(s, p, q)[k] = s[k]
            /\ \A k \in 1..Len(q) : Queued(s, p, q)[Len(s) + k] = p[q[k]]
        BY <4>2, QueuedAt
      <4> QED BY <3>2, <4>1, <4>3
    <3> QED BY <1>1, <1>4, <3>4
  <2>3. ASSUME NEW k \in 1..Len(seen) + Len(turn) PROVE Announced'[k] = Announced[k]
    <3>1. CASE k <= Len(seen)
      BY <2>1, <2>2, <3>1
    <3>2. CASE Len(seen) < k
      <4>1. PICK i \in 1..Len(turn) : k = Len(seen) + i
        <5> Len(seen) \in Nat /\ Len(turn) \in Nat
          BY <1>8, <2>1
        <5>1. k - Len(seen) \in 1..Len(turn) /\ k = Len(seen) + (k - Len(seen))
          BY <3>2
        <5> QED BY <5>1
      <4>2. i \in 1..Len(turn) + 1 /\ pending'[turn'[i]] = pending[turn[i]]
        BY <1>5, <1>7, <1>8
      <4> QED BY <2>1, <2>2, <4>1, <4>2
    <3> QED BY <1>8, <2>1, <3>1, <3>2
  <2>4. Len(turn) + 1 \in 1..Len(turn) + 1 /\ Len(seen) + (Len(turn) + 1) = Len(seen) + Len(turn) + 1
    BY <1>8, <2>1
  <2> QED BY <1>5, <1>8, <2>1, <2>2, <2>3, <2>4
<1>11. ASSUME NEW d \in Cells \ lost' PROVE Chain(Announced', d, started'[d], cells'[d])
  <2>1. d \in Cells /\ Chain(Announced, d, started[d], cells[d]) /\ started'[d] = started[d]
    BY <1>1, <1>11 DEF ObsInv
  <2> DEFINE s == Announced
             v == started[d]
             w == cells[d]
  <2>2. PICK s2 \in Seq(Announcement) : s2 = Announced'
    BY <1>10
  <2>3. /\ s \in Seq(Announcement) /\ Len(s2) = Len(s) + 1 /\ s2[Len(s2)] = ch
        /\ (\A k \in 1..Len(s) : s2[k] = s[k]) /\ Chain(s, d, v, w)
    BY <1>10, <2>1, <2>2
  <2> HIDE DEF s, v, w
  <2>4. (ch.path = d /\ ch.old = w => Chain(s2, d, v, ch.value)) /\ (ch.path # d => Chain(s2, d, v, w))
    BY <2>3, ChainAppend
  <2> QED BY <1>3, <1>5, <2>1, <2>2, <2>4 DEF v, w
<1> QED BY <1>6, <1>9, <1>11 DEF ObsInv

\* The queue of the lock and what its tasks are to announce.
QueueSound(p, q) ==
  /\ p \in [AllSetters -> Announcement \cup {Absent}]
  /\ q \in Seq(AllSetters) /\ IsInjective(q)
  /\ \A u \in AllSetters : u \in Range(q) <=> p[u] # Absent

\* a is s and then what those in q are to announce.
LaidOut(a, s, p, q) ==
  /\ a \in Seq(Announcement) /\ Len(a) = Len(s) + Len(q) /\ Len(s) \in Nat /\ Len(q) \in Nat
  /\ \A k \in 1..Len(s) : a[k] = s[k]
  /\ \A k \in 1..Len(q) : q[k] \in AllSetters /\ a[Len(s) + k] = p[q[k]]

\* Queued() lays them out so.
LEMMA QueuedLaidOut ==
  ASSUME NEW s \in Seq(Announcement), NEW p, NEW q, QueueSound(p, q)
  PROVE  LaidOut(Queued(s, p, q), s, p, q)
<1>1. /\ p \in [AllSetters -> Announcement \cup {Absent}] /\ q \in Seq(AllSetters)
      /\ \A u \in AllSetters : u \in Range(q) => p[u] # Absent
  BY DEF QueueSound
<1>2. /\ Queued(s, p, q) \in Seq(Announcement) /\ Len(Queued(s, p, q)) = Len(s) + Len(q)
      /\ Len(s) \in Nat /\ Len(q) \in Nat
      /\ \A k \in 1..Len(s) : Queued(s, p, q)[k] = s[k]
      /\ \A k \in 1..Len(q) : /\ q[k] \in AllSetters /\ p[q[k]] \in Announcement
                              /\ Queued(s, p, q)[Len(s) + k] = p[q[k]]
  BY <1>1, QueuedAt
<1> QED BY <1>2 DEF LaidOut

\* The task t leaves it.
TaskLeft(p, q, t, p2, q2) ==
  t \in AllSetters /\ p[t] # Absent /\ p2 = [p EXCEPT ![t] = Absent] /\ q2 = RemoveFirst(q, t)

\* The others keep their places in the queue and what they are to announce.
LEMMA QueueLeft ==
  ASSUME NEW p, NEW q, NEW t, NEW p2, NEW q2, QueueSound(p, q), TaskLeft(p, q, t, p2, q2)
  PROVE  /\ QueueSound(p2, q2) /\ Range(q2) = Range(q) \ {t}
         /\ \A u \in AllSetters : u # t => p2[u] = p[u]
         /\ \E i \in 1..Len(q) : /\ q[i] = t /\ Len(q) = Len(q2) + 1
                                 /\ \A j \in 1..Len(q2) : q2[j] = IF j < i THEN q[j] ELSE q[j + 1]
<1>1. /\ p \in [AllSetters -> Announcement \cup {Absent}] /\ q \in Seq(AllSetters) /\ IsInjective(q)
      /\ t \in Range(q) /\ \A u \in AllSetters : u \in Range(q) <=> p[u] # Absent
      /\ t \in AllSetters /\ p2 = [p EXCEPT ![t] = Absent] /\ q2 = RemoveFirst(q, t)
  BY DEF QueueSound, TaskLeft
<1>2. /\ q2 \in Seq(AllSetters) /\ IsInjective(q2) /\ Range(q2) = Range(q) \ {t}
  BY <1>1, RemoveFirstRange
<1>3. /\ p2 \in [AllSetters -> Announcement \cup {Absent}] /\ p2[t] = Absent
      /\ \A u \in AllSetters : u # t => p2[u] = p[u]
  BY <1>1
<1>4. QueueSound(p2, q2)
  BY <1>1, <1>2, <1>3 DEF QueueSound
<1>5. PICK i \in 1..Len(q) : q[i] = t /\ RemoveFirst(q, t) = RemoveAt(q, i)
  BY <1>1, RemoveFirstIsRemoveAt
<1>6. /\ Len(q2) = Len(q) - 1 /\ Len(q) \in Nat
      /\ \A j \in 1..Len(q) - 1 : q2[j] = IF j < i THEN q[j] ELSE q[j + 1]
  <2>1. q \in Seq(AllSetters) /\ q2 = RemoveAt(q, i) /\ Len(q) \in Nat
    BY <1>1, <1>5, LenProperties
  <2>2. /\ Len(RemoveAt(q, i)) = Len(q) - 1
        /\ \A j \in 1..Len(q) - 1 : RemoveAt(q, i)[j] = IF j < i THEN q[j] ELSE q[j + 1]
    BY <2>1, RemoveAtProperties
  <2> QED BY <2>1, <2>2
<1>7. Len(q) = Len(q2) + 1 /\ \A j \in 1..Len(q2) : q2[j] = IF j < i THEN q[j] ELSE q[j + 1]
  BY <1>6
<1> QED BY <1>2, <1>3, <1>4, <1>5, <1>7

\* The changes of the other cells stay a chain then.
LEMMA ChainLeft ==
  ASSUME NEW p, NEW q, NEW t, NEW p2, NEW q2, QueueSound(p, q), TaskLeft(p, q, t, p2, q2),
         NEW s \in Seq(Announcement), NEW c, NEW v, NEW w, p[t].path # c,
         Chain(Queued(s, p, q), c, v, w)
  PROVE  Chain(Queued(s, p2, q2), c, v, w)
<1>1. /\ QueueSound(p2, q2) /\ \A u \in AllSetters : u # t => p2[u] = p[u]
  BY QueueLeft
<1>2. PICK i \in 1..Len(q) : /\ q[i] = t /\ Len(q) = Len(q2) + 1
                             /\ \A j \in 1..Len(q2) : q2[j] = IF j < i THEN q[j] ELSE q[j + 1]
  BY QueueLeft
<1> DEFINE a == Queued(s, p, q)
           b == Queued(s, p2, q2)
<1>3. /\ a \in Seq(Announcement) /\ Len(a) = Len(s) + Len(q) /\ Len(s) \in Nat /\ Len(q) \in Nat
      /\ \A k \in 1..Len(s) : a[k] = s[k]
      /\ \A k \in 1..Len(q) : q[k] \in AllSetters /\ a[Len(s) + k] = p[q[k]]
  <2>1. LaidOut(a, s, p, q)
    BY QueuedLaidOut
  <2> QED BY <2>1 DEF LaidOut
<1>4. /\ b \in Seq(Announcement) /\ Len(b) = Len(s) + Len(q2) /\ Len(q2) \in Nat
      /\ \A k \in 1..Len(s) : b[k] = s[k]
      /\ \A k \in 1..Len(q2) : q2[k] \in AllSetters /\ b[Len(s) + k] = p2[q2[k]]
  <2>1. LaidOut(b, s, p2, q2)
    BY <1>1, QueuedLaidOut
  <2> QED BY <2>1 DEF LaidOut
<1> HIDE DEF a, b
<1>5. \A k \in 1..Len(q2) : q2[k] # t
  <2>1. \A k \in 1..Len(q2) : q2[k] \in Range(q2)
    BY <1>1, RangeByIndex DEF QueueSound
  <2> QED BY <2>1, QueueLeft
<1>6. \A k \in 1..Len(b) : b[k] = IF k < Len(s) + i THEN a[k] ELSE a[k + 1]
  <2> SUFFICES ASSUME NEW k \in 1..Len(b)
               PROVE  b[k] = IF k < Len(s) + i THEN a[k] ELSE a[k + 1]
    OBVIOUS
  <2>1. CASE k <= Len(s)
    BY <1>2, <1>3, <1>4, <2>1
  <2>2. CASE Len(s) < k
    <3>1. PICK j \in 1..Len(q2) : k = Len(s) + j
      <4>1. k - Len(s) \in 1..Len(q2) /\ k = Len(s) + (k - Len(s))
        BY <1>3, <1>4, <2>2
      <4> QED BY <4>1
    <3>2. /\ b[k] = p2[q2[j]] /\ p2[q2[j]] = p[q2[j]]
      BY <1>1, <1>4, <1>5, <3>1
    <3>3. CASE j < i
      <4>1. j \in 1..Len(q) /\ k < Len(s) + i /\ q2[j] = q[j]
        BY <1>2, <1>3, <1>4, <3>1, <3>3
      <4> QED BY <1>3, <3>1, <3>2, <4>1
    <3>4. CASE i <= j
      <4>1. j + 1 \in 1..Len(q) /\ ~(k < Len(s) + i) /\ q2[j] = q[j + 1] /\ k + 1 = Len(s) + (j + 1)
        BY <1>2, <1>3, <1>4, <3>1, <3>4
      <4> QED BY <1>3, <3>1, <3>2, <4>1
    <3> QED BY <3>3, <3>4
  <2> QED BY <1>3, <2>1, <2>2
<1>7. /\ Len(s) + i \in 1..Len(a) /\ a[Len(s) + i].path # c /\ Len(a) = Len(b) + 1
  BY <1>2, <1>3, <1>4
<1> DEFINE n == Len(s) + i
<1>8. n \in 1..Len(a) /\ a[n].path # c /\ \A k \in 1..Len(b) : b[k] = IF k < n THEN a[k] ELSE a[k + 1]
  BY <1>6, <1>7
<1>9. Chain(a, c, v, w)
  BY DEF a
<1> HIDE DEF n
<1> QED BY <1>3, <1>4, <1>7, <1>8, <1>9, ChainWithout DEF b

\* The holder of the lock has its change dealt with.
LEMMA ChainServed ==
  ASSUME NEW p, NEW q, NEW t, NEW p2, NEW q2, QueueSound(p, q), TaskLeft(p, q, t, p2, q2),
         q[1] = t,
         NEW s \in Seq(Announcement), NEW s2, s2 = Append(s, p[t]), NEW c, NEW v, NEW w,
         Chain(Queued(s, p, q), c, v, w)
  PROVE  Chain(Queued(s2, p2, q2), c, v, w)
<1>1. /\ QueueSound(p2, q2) /\ \A u \in AllSetters : u # t => p2[u] = p[u]
  BY QueueLeft
<1>2. PICK i \in 1..Len(q) : /\ q[i] = t /\ Len(q) = Len(q2) + 1
                             /\ \A j \in 1..Len(q2) : q2[j] = IF j < i THEN q[j] ELSE q[j + 1]
  BY QueueLeft
<1>3. q \in Seq(AllSetters) /\ Len(q) \in Nat /\ Len(q2) \in Nat /\ p[t] \in Announcement /\ i = 1
  <2>1. q \in Seq(AllSetters) /\ q2 \in Seq(AllSetters) /\ p[t] \in Announcement /\ IsInjective(q)
    BY <1>1 DEF QueueSound, TaskLeft
  <2>2. Len(q) \in Nat /\ Len(q2) \in Nat /\ 1 \in 1..Len(q)
    BY <1>2, <2>1, LenProperties
  <2>3. \A j, k \in 1..Len(q) : q[j] = q[k] => j = k
    BY <2>1, RangeByIndex
  <2> QED BY <1>2, <2>1, <2>2, <2>3
<1>4. /\ s2 \in Seq(Announcement) /\ Len(s2) = Len(s) + 1 /\ Len(s) \in Nat /\ s2[Len(s) + 1] = p[t]
      /\ \A k \in 1..Len(s) : s2[k] = s[k]
  BY <1>3, AppendProperties, LenProperties
<1> DEFINE a == Queued(s, p, q)
           b == Queued(s2, p2, q2)
<1>5. /\ a \in Seq(Announcement) /\ Len(a) = Len(s) + Len(q)
      /\ \A k \in 1..Len(s) : a[k] = s[k]
      /\ \A k \in 1..Len(q) : q[k] \in AllSetters /\ a[Len(s) + k] = p[q[k]]
  <2>1. LaidOut(a, s, p, q)
    BY QueuedLaidOut
  <2> QED BY <2>1 DEF LaidOut
<1>6. /\ b \in Seq(Announcement) /\ Len(b) = Len(s2) + Len(q2)
      /\ \A k \in 1..Len(s2) : b[k] = s2[k]
      /\ \A k \in 1..Len(q2) : q2[k] \in AllSetters /\ b[Len(s2) + k] = p2[q2[k]]
  <2>1. LaidOut(b, s2, p2, q2)
    BY <1>1, <1>4, QueuedLaidOut
  <2> QED BY <2>1 DEF LaidOut
<1> HIDE DEF a, b
<1>7. \A k \in 1..Len(q2) : q2[k] # t
  <2>1. \A k \in 1..Len(q2) : q2[k] \in Range(q2)
    BY <1>1, RangeByIndex DEF QueueSound
  <2> QED BY <2>1, QueueLeft
<1>8. Len(a) = Len(b) /\ Len(a) \in Nat
  BY <1>2, <1>3, <1>4, <1>5, <1>6
<1>9. \A k \in 1..Len(b) : b[k] = a[k]
  <2> SUFFICES ASSUME NEW k \in 1..Len(b) PROVE b[k] = a[k]
    OBVIOUS
  <2>1. CASE k <= Len(s)
    <3>1. k \in 1..Len(s) /\ k \in 1..Len(s2)
      BY <1>4, <1>6, <1>8, <2>1
    <3> QED BY <1>4, <1>5, <1>6, <3>1
  <2>2. CASE k = Len(s) + 1
    <3>1. 1 \in 1..Len(q) /\ Len(s2) \in 1..Len(s2)
      BY <1>2, <1>3, <1>4
    <3>2. a[Len(s) + 1] = p[q[1]] /\ b[Len(s2)] = s2[Len(s2)]
      BY <1>5, <1>6, <3>1
    <3> QED BY <1>4, <2>2, <3>2
  <2>3. CASE Len(s) + 1 < k
    <3>1. PICK j \in 1..Len(q2) : k = Len(s) + 1 + j
      <4>1. k - (Len(s) + 1) \in 1..Len(q2) /\ k = Len(s) + 1 + (k - (Len(s) + 1))
        BY <1>3, <1>4, <1>6, <2>3
      <4> QED BY <4>1
    <3>2. q2[j] = q[j + 1] /\ j + 1 \in 1..Len(q) /\ k = Len(s) + (j + 1) /\ k = Len(s2) + j
      BY <1>2, <1>3, <1>4, <3>1
    <3>3. b[k] = p2[q2[j]] /\ a[k] = p[q[j + 1]]
      BY <1>5, <1>6, <3>2, SMTT(30)
    <3>4. p2[q2[j]] = p[q2[j]]
      BY <1>1, <1>6, <1>7
    <3> QED BY <3>2, <3>3, <3>4
  <2> QED BY <1>4, <1>8, <2>1, <2>2, <2>3
<1>10. a = b
  <2>1. a \in [1..Len(a) -> Announcement] /\ b \in [1..Len(a) -> Announcement]
    BY <1>5, <1>6, <1>8, LenProperties
  <2> QED BY <1>8, <1>9, <2>1
<1> QED BY <1>10 DEF a, b

\* A change that was given up is dealt with after all.
LEMMA ChainUnattended ==
  ASSUME NEW p, NEW q, QueueSound(p, q), NEW ch \in Announcement, NEW s \in Seq(Announcement),
         NEW s2, s2 = Append(s, ch), NEW c, NEW v, NEW w, ch.path # c,
         Chain(Queued(s, p, q), c, v, w)
  PROVE  Chain(Queued(s2, p, q), c, v, w)
<1>1. /\ s2 \in Seq(Announcement) /\ Len(s2) = Len(s) + 1 /\ Len(s) \in Nat /\ s2[Len(s) + 1] = ch
      /\ \A k \in 1..Len(s) : s2[k] = s[k]
  BY AppendProperties, LenProperties
<1> DEFINE a == Queued(s, p, q)
           b == Queued(s2, p, q)
<1>2. LaidOut(a, s, p, q) /\ LaidOut(b, s2, p, q)
  BY <1>1, QueuedLaidOut
<1>3. /\ a \in Seq(Announcement) /\ Len(a) = Len(s) + Len(q) /\ Len(q) \in Nat
      /\ \A k \in 1..Len(s) : a[k] = s[k]
      /\ \A k \in 1..Len(q) : a[Len(s) + k] = p[q[k]]
  BY <1>2 DEF LaidOut
<1>4. /\ b \in Seq(Announcement) /\ Len(b) = Len(s2) + Len(q)
      /\ \A k \in 1..Len(s2) : b[k] = s2[k]
      /\ \A k \in 1..Len(q) : b[Len(s2) + k] = p[q[k]]
  BY <1>2 DEF LaidOut
<1> HIDE DEF a, b
<1>5. \A k \in 1..Len(a) : a[k] = IF k < Len(s) + 1 THEN b[k] ELSE b[k + 1]
  <2> SUFFICES ASSUME NEW k \in 1..Len(a)
               PROVE  a[k] = IF k < Len(s) + 1 THEN b[k] ELSE b[k + 1]
    OBVIOUS
  <2>1. CASE k <= Len(s)
    BY <1>1, <1>3, <1>4, <2>1
  <2>2. CASE Len(s) < k
    <3>1. PICK j \in 1..Len(q) : k = Len(s) + j
      <4>1. k - Len(s) \in 1..Len(q) /\ k = Len(s) + (k - Len(s))
        BY <1>1, <1>3, <2>2
      <4> QED BY <4>1
    <3>2. k + 1 = Len(s2) + j /\ ~(k < Len(s) + 1)
      BY <1>1, <3>1
    <3> QED BY <1>3, <1>4, <3>1, <3>2
  <2> QED BY <1>1, <2>1, <2>2
<1> DEFINE n == Len(s) + 1
<1>6. n \in 1..Len(b) /\ b[n].path # c /\ Len(b) = Len(a) + 1
  <2>1. Len(b) = Len(s2) + Len(q) /\ Len(a) = Len(s) + Len(q) /\ Len(q) \in Nat
    BY <1>3, <1>4
  <2>2. n \in 1..Len(b) /\ n \in 1..Len(s2) /\ Len(b) = Len(a) + 1
    BY <1>1, <2>1
  <2>3. b[n] = ch
    BY <1>1, <1>4, <2>2
  <2> QED BY <2>2, <2>3
<1>7. \A k \in 1..Len(a) : a[k] = IF k < n THEN b[k] ELSE b[k + 1]
  BY <1>5
<1>8. Chain(a, c, v, w)
  BY DEF a
<1> HIDE DEF n
<1> QED BY <1>3, <1>4, <1>6, <1>7, <1>8, ChainWithout DEF b
\* Notifying with the lock.
LEMMA NotifyKeeps ==
  ASSUME ObsInv, NEW t \in Setters, Notify(t)
  PROVE  ObsInv'
<1>1. /\ turn # <<>> /\ Head(turn) = t /\ ~Awaits(t)
      /\ UNCHANGED <<cells, started, observed, seen>>
  BY DEF Notify, HasLock
<1>2. /\ QueueSound(pending, turn) /\ t \in AllSetters /\ t # Absent
      /\ seen \in Seq(Announcement) /\ turn \in Seq(AllSetters)
      /\ reacting \subseteq [change : Announcement, by : Setters \cup {Absent}] /\ lost \subseteq Cells
      /\ cells \in [Cells -> CellContents] /\ started \in [Cells -> CellContents]
  BY ObsAssumption DEF ObsInv, ObsTypes, QueueSound, AllSetters
<1>3. turn[1] = t /\ t \in Range(turn)
  BY <1>1, <1>2, TailRange
<1>4. pending[t] \in Announcement /\ pending[t] # Absent /\ pending[t].path \in Cells
  BY <1>2, <1>3 DEF QueueSound, Announcement
<1>5. /\ Observer \notin Range(turn)
      /\ \A r \in reacting : r.by = Absent /\ r.change.path \in lost
  BY <1>1, <1>3 DEF ObsInv, ReactSound, Awaits
<1>6. CASE /\ reacting' = reacting \cup {[change |-> pending[t], by |-> t]}
           /\ UNCHANGED <<pending, turn, lost>>
  <2>1. ObsTypes'
    <3>1. reacting' \subseteq [change : Announcement, by : Setters \cup {Absent}]
      BY <1>2, <1>4, <1>6
    <3> QED BY <1>1, <1>2, <1>6, <3>1 DEF ObsTypes, QueueSound
  <2>2. ReactSound'
    BY <1>1, <1>2, <1>3, <1>5, <1>6 DEF ReactSound
  <2>3. \A c \in Cells \ lost' : Chain(Announced', c, started'[c], cells'[c])
    BY <1>1, <1>6 DEF ObsInv, Announced
  <2> QED BY <2>1, <2>2, <2>3 DEF ObsInv
<1>7. CASE /\ lost' = lost \cup {pending[t].path}
           /\ Leave(t)
           /\ reacting' \subseteq reacting \cup {[change |-> pending[t], by |-> Absent]}
  <2>1. TaskLeft(pending, turn, t, pending', turn')
    BY <1>2, <1>4, <1>7 DEF TaskLeft, Leave
  <2>2. QueueSound(pending', turn') /\ Range(turn') = Range(turn) \ {t}
    BY <1>2, <2>1, QueueLeft
  <2>3. ObsTypes'
    <3>1. reacting' \subseteq [change : Announcement, by : Setters \cup {Absent}]
      BY <1>2, <1>4, <1>7
    <3>2. lost' \subseteq Cells
      BY <1>2, <1>4, <1>7
    <3> QED BY <1>1, <1>2, <2>2, <3>1, <3>2 DEF ObsTypes, QueueSound
  <2>4. ReactSound'
    <3>1. \A r \in reacting' : r.by = Absent /\ r.change.path \in lost'
      BY <1>5, <1>7
    <3> QED BY <1>5, <2>2, <3>1 DEF ReactSound
  <2>5. ASSUME NEW c \in Cells \ lost' PROVE Chain(Announced', c, started'[c], cells'[c])
    <3>1. pending[t].path # c /\ Chain(Queued(seen, pending, turn), c, started[c], cells[c])
      BY <1>7, <2>5 DEF ObsInv, Announced
    <3>2. Chain(Queued(seen, pending', turn'), c, started[c], cells[c])
      BY <1>2, <2>1, <3>1, ChainLeft
    <3> QED BY <1>1, <3>2 DEF Announced
  <2> QED BY <2>3, <2>4, <2>5 DEF ObsInv
<1> QED BY <1>6, <1>7 DEF Notify

\* The asynchronous observer has dealt with a change.
LEMMA ReactedKeeps ==
  ASSUME ObsInv, NEW r \in reacting, Reacted(r)
  PROVE  ObsInv'
<1>1. /\ seen' = Append(seen, r.change) /\ reacting' = reacting \ {r}
      /\ UNCHANGED <<cells, started, lost>>
      /\ r.by = Absent \/ Observer \notin Range(turn)
      /\ IF r.by = Absent THEN UNCHANGED <<turn, pending>> ELSE Leave(r.by)
  BY DEF Reacted
<1>2. /\ QueueSound(pending, turn) /\ turn \in Seq(AllSetters)
      /\ seen \in Seq(Announcement)
      /\ reacting \subseteq [change : Announcement, by : Setters \cup {Absent}] /\ lost \subseteq Cells
      /\ cells \in [Cells -> CellContents] /\ started \in [Cells -> CellContents]
  BY DEF ObsInv, ObsTypes, QueueSound
<1>3. r.change \in Announcement /\ r.by \in Setters \cup {Absent}
  BY <1>2
<1>4. seen' \in Seq(Announcement)
  BY <1>1, <1>2, <1>3, AppendProperties
<1>5. CASE r.by = Absent
  <2>1. ObsTypes'
    BY <1>1, <1>2, <1>4, <1>5 DEF ObsTypes, QueueSound
  <2>2. ReactSound'
    <3>1. /\ \A q \in reacting' : q.by # Absent =>
               turn' # <<>> /\ turn'[1] = q.by /\ q.change = pending'[q.by]
          /\ \A q \in reacting' : q.by = Absent => q.change.path \in lost'
      BY <1>1, <1>5 DEF ObsInv, ReactSound
    <3>2. ASSUME Observer \in Range(turn') PROVE (turn # <<>> /\ Awaits(turn[1]))'
      <4>1. turn # <<>> /\ Awaits(turn[1])
        BY <1>1, <1>5, <3>2 DEF ObsInv, ReactSound
      <4>2. turn[1] # Absent
        <5>1. turn[1] \in AllSetters
          BY <1>2, <4>1, TailRange
        <5> QED BY <5>1, ObsAssumption DEF AllSetters
      <4>3. PICK q \in reacting : q.by = turn[1]
        BY <4>1 DEF Awaits
      <4>4. q \in reacting'
        BY <1>1, <1>5, <4>2, <4>3
      <4> QED BY <1>1, <1>5, <4>1, <4>3, <4>4 DEF Awaits
    <3> QED BY <3>1, <3>2 DEF ReactSound
  <2>3. ASSUME NEW c \in Cells \ lost' PROVE Chain(Announced', c, started'[c], cells'[c])
    <3>1. r.change.path # c /\ Chain(Queued(seen, pending, turn), c, started[c], cells[c])
      BY <1>1, <1>5, <2>3 DEF ObsInv, Announced, ReactSound
    <3>2. Chain(Queued(seen', pending, turn), c, started[c], cells[c])
      BY <1>1, <1>2, <1>3, <3>1, ChainUnattended
    <3> QED BY <1>1, <1>5, <3>2 DEF Announced
  <2> QED BY <2>1, <2>2, <2>3 DEF ObsInv
<1>6. CASE r.by # Absent
  <2> DEFINE t == r.by
  <2>1. /\ turn # <<>> /\ turn[1] = t /\ r.change = pending[t] /\ t \in AllSetters
        /\ Observer \notin Range(turn) /\ Leave(t) /\ Absent \notin Announcement
    BY <1>1, <1>3, <1>6, ObsAssumption DEF ObsInv, ReactSound, AllSetters
  <2>2. TaskLeft(pending, turn, t, pending', turn')
    BY <1>3, <2>1 DEF TaskLeft, Leave
  <2>3. QueueSound(pending', turn') /\ Range(turn') = Range(turn) \ {t}
    BY <1>2, <2>2, QueueLeft
  <2>4. ObsTypes'
    BY <1>1, <1>2, <1>4, <2>3 DEF ObsTypes, QueueSound
  <2>5. ReactSound'
    <3>1. ASSUME NEW q \in reacting' PROVE q.by = Absent /\ q.change.path \in lost'
      <4>1. q \in reacting /\ q # r
        BY <1>1, <3>1
      <4>2. ASSUME q.by # Absent PROVE FALSE
        <5>1. q.by = t /\ q.change = r.change
          BY <2>1, <4>1, <4>2 DEF ObsInv, ReactSound
        <5> QED BY <1>2, <4>1, <5>1
      <4> QED BY <1>1, <4>1, <4>2 DEF ObsInv, ReactSound
    <3> QED BY <2>1, <2>3, <3>1 DEF ReactSound
  <2>6. ASSUME NEW c \in Cells \ lost' PROVE Chain(Announced', c, started'[c], cells'[c])
    <3>1. Chain(Queued(seen, pending, turn), c, started[c], cells[c])
      BY <1>1, <2>6 DEF ObsInv, Announced
    <3>2. seen' = Append(seen, pending[t])
      BY <1>1, <2>1
    <3>3. turn[1] = t
      BY <2>1
    <3> HIDE DEF t
    <3>4. Chain(Queued(seen', pending', turn'), c, started[c], cells[c])
      BY <1>2, <2>2, <3>1, <3>2, <3>3, ChainServed
    <3> QED BY <1>1, <3>4 DEF Announced
  <2> QED BY <2>4, <2>5, <2>6 DEF ObsInv
<1> QED BY <1>5, <1>6

\* A task is cancelled, with the observer's task or without it.
LEMMA CancelSetterKeeps ==
  ASSUME ObsInv, NEW t \in Setters, CancelSetter(t)
  PROVE  ObsInv'
<1>1. /\ pending[t] # Absent /\ reacting' = {r \in reacting : r.by # t}
      /\ UNCHANGED <<cells, started, seen>>
  BY DEF CancelSetter
<1>2. /\ QueueSound(pending, turn) /\ turn \in Seq(AllSetters) /\ t \in AllSetters /\ t # Absent
      /\ Observer \in AllSetters /\ t # Observer /\ seen \in Seq(Announcement)
      /\ reacting \subseteq [change : Announcement, by : Setters \cup {Absent}] /\ lost \subseteq Cells
      /\ cells \in [Cells -> CellContents] /\ started \in [Cells -> CellContents]
  BY ObsAssumption DEF ObsInv, ObsTypes, QueueSound, AllSetters
<1>3. \A u \in AllSetters : pending[u] # Absent => pending[u].path \in Cells
  BY <1>2 DEF QueueSound, Announcement
<1>4. reacting' \subseteq reacting
  BY <1>1
<1>5. CASE Awaits(t) /\ pending[Observer] # Absent
  <2>1. /\ lost' = lost \cup {pending[t].path, pending[Observer].path}
        /\ turn' = RemoveFirst(RemoveFirst(turn, t), Observer)
        /\ pending' = [pending EXCEPT ![t] = Absent, ![Observer] = Absent]
    BY <1>5 DEF CancelSetter
  <2>2. PICK p1 : p1 = [pending EXCEPT ![t] = Absent]
    OBVIOUS
  <2>3. PICK q1 : q1 = RemoveFirst(turn, t)
    OBVIOUS
  <2>4. TaskLeft(pending, turn, t, p1, q1)
    BY <1>1, <1>2, <2>2, <2>3 DEF TaskLeft
  <2>5. /\ QueueSound(p1, q1) /\ Range(q1) = Range(turn) \ {t}
        /\ p1[Observer] = pending[Observer]
    BY <1>2, <2>4, QueueLeft
  <2>6. TaskLeft(p1, q1, Observer, pending', turn')
    BY <1>2, <1>5, <2>1, <2>2, <2>3, <2>5 DEF TaskLeft
  <2>7. QueueSound(pending', turn') /\ Range(turn') = Range(q1) \ {Observer}
    BY <2>5, <2>6, QueueLeft
  <2>8. ObsTypes'
    <3>1. lost' \subseteq Cells
      BY <1>1, <1>2, <1>3, <1>5, <2>1
    <3> QED BY <1>1, <1>2, <1>4, <2>7, <3>1 DEF ObsTypes, QueueSound
  <2>9. ReactSound'
    <3>1. ASSUME NEW r \in reacting' PROVE r.by = Absent /\ r.change.path \in lost'
      <4>1. r \in reacting /\ r.by # t
        BY <1>1, <3>1
      <4>2. PICK q \in reacting : q.by = t
        BY <1>5 DEF Awaits
      <4>3. turn[1] = t
        BY <1>2, <4>2 DEF ObsInv, ReactSound
      <4> QED BY <2>1, <4>1, <4>3 DEF ObsInv, ReactSound
    <3> QED BY <2>7, <3>1 DEF ReactSound
  <2>10. ASSUME NEW c \in Cells \ lost' PROVE Chain(Announced', c, started'[c], cells'[c])
    <3>1. /\ pending[t].path # c /\ p1[Observer].path # c
          /\ Chain(Queued(seen, pending, turn), c, started[c], cells[c])
      BY <2>1, <2>5, <2>10 DEF ObsInv, Announced
    <3>2. Chain(Queued(seen, p1, q1), c, started[c], cells[c])
      BY <1>2, <2>4, <3>1, ChainLeft
    <3>3. Chain(Queued(seen, pending', turn'), c, started[c], cells[c])
      BY <1>2, <2>5, <2>6, <3>1, <3>2, ChainLeft
    <3> QED BY <1>1, <3>3 DEF Announced
  <2> QED BY <2>8, <2>9, <2>10 DEF ObsInv
<1>6. CASE ~(Awaits(t) /\ pending[Observer] # Absent)
  <2>1. lost' = lost \cup {pending[t].path} /\ Leave(t)
    BY <1>6 DEF CancelSetter
  <2>2. TaskLeft(pending, turn, t, pending', turn')
    BY <1>1, <1>2, <2>1 DEF TaskLeft, Leave
  <2>3. /\ QueueSound(pending', turn') /\ Range(turn') = Range(turn) \ {t}
        /\ \A u \in AllSetters : u # t => pending'[u] = pending[u]
    BY <1>2, <2>2, QueueLeft
  <2>4. ObsTypes'
    <3>1. lost' \subseteq Cells
      BY <1>1, <1>2, <1>3, <2>1
    <3> QED BY <1>1, <1>2, <1>4, <2>3, <3>1 DEF ObsTypes, QueueSound
  <2>5. ASSUME turn # <<>>, turn[1] # t PROVE turn' # <<>> /\ turn'[1] = turn[1]
    <3> QueueSound(pending, turn) /\ TaskLeft(pending, turn, t, pending', turn')
      BY <1>2, <2>2
    <3>1. PICK i \in 1..Len(turn) :
            /\ turn[i] = t /\ Len(turn) = Len(turn') + 1
            /\ \A j \in 1..Len(turn') : turn'[j] = IF j < i THEN turn[j] ELSE turn[j + 1]
      BY QueueLeft
    <3>2. turn' \in Seq(AllSetters)
      BY <2>3 DEF QueueSound
    <3>3. Len(turn) \in Nat /\ Len(turn') \in Nat /\ i # 1
      BY <1>2, <2>5, <3>1, <3>2, LenProperties
    <3>4. 1 \in 1..Len(turn') /\ 1 < i
      BY <3>1, <3>3
    <3>5. turn' # <<>>
      BY <3>2, <3>4, EmptySeq
    <3> QED BY <3>1, <3>4, <3>5
  <2>6. ReactSound'
    <3>1. ASSUME NEW r \in reacting', r.by # Absent
          PROVE  turn' # <<>> /\ turn'[1] = r.by /\ r.change = pending'[r.by]
      <4>1. r \in reacting /\ r.by # t
        BY <1>1, <3>1
      <4>2. turn # <<>> /\ turn[1] = r.by /\ r.change = pending[r.by]
        BY <3>1, <4>1 DEF ObsInv, ReactSound
      <4>3. r.by \in AllSetters
        BY <1>2, <3>1, <4>1 DEF AllSetters
      <4> QED BY <2>3, <2>5, <4>1, <4>2, <4>3
    <3>2. \A r \in reacting' : r.by = Absent => r.change.path \in lost'
      BY <1>4, <2>1 DEF ObsInv, ReactSound
    <3>3. ASSUME Observer \in Range(turn') PROVE (turn # <<>> /\ Awaits(turn[1]))'
      <4>1. /\ turn # <<>> /\ Awaits(turn[1]) /\ pending[Observer] # Absent
        BY <1>2, <2>3, <3>3 DEF ObsInv, ReactSound, QueueSound
      <4>2. turn[1] # t
        BY <1>6, <4>1
      <4>3. PICK q \in reacting : q.by = turn[1]
        BY <4>1 DEF Awaits
      <4>4. q \in reacting' /\ turn' # <<>> /\ turn'[1] = turn[1]
        BY <1>1, <2>5, <4>1, <4>2, <4>3
      <4> QED BY <4>3, <4>4 DEF Awaits
    <3> QED BY <3>1, <3>2, <3>3 DEF ReactSound
  <2>7. ASSUME NEW c \in Cells \ lost' PROVE Chain(Announced', c, started'[c], cells'[c])
    <3>1. pending[t].path # c /\ Chain(Queued(seen, pending, turn), c, started[c], cells[c])
      BY <2>1, <2>7 DEF ObsInv, Announced
    <3>2. Chain(Queued(seen, pending', turn'), c, started[c], cells[c])
      BY <1>2, <2>2, <3>1, ChainLeft
    <3> QED BY <1>1, <3>2 DEF Announced
  <2> QED BY <2>4, <2>6, <2>7 DEF ObsInv
<1> QED BY <1>5, <1>6

\* Nothing is announced or made yet.
LEMMA ObsInitially == ObsInit => ObsInv
<1> SUFFICES ASSUME ObsInit PROVE ObsInv
  OBVIOUS
<1>1. /\ cells \in [Cells -> CellContents] /\ started = cells /\ turn = <<>> /\ reacting = {}
      /\ pending = [t \in AllSetters |-> Absent] /\ seen = <<>> /\ lost = {}
  BY DEF ObsInit, CellContents, AllSetters
<1>2. /\ turn \in Seq(AllSetters) /\ seen \in Seq(Announcement) /\ IsInjective(turn)
      /\ Range(turn) = {} /\ Len(turn) = 0 /\ Len(seen) = 0
  BY <1>1, EmptySeq, EmptyRange
<1>3. ObsTypes /\ ReactSound
  BY <1>1, <1>2 DEF ObsTypes, ReactSound
<1>4. Len(Announced) = 0
  <2>1. /\ pending \in [AllSetters -> Announcement \cup {Absent}]
        /\ \A u \in AllSetters : u \in Range(turn) => pending[u] # Absent
    BY <1>1, <1>2
  <2>2. Len(Queued(seen, pending, turn)) = Len(seen) + Len(turn)
    BY <1>2, <2>1, QueuedAt
  <2> QED BY <1>2, <2>2 DEF Announced
<1>5. ASSUME NEW c \in Cells PROVE Chain(Announced, c, started[c], cells[c])
  <2>1. {i \in 1..Len(Announced) : Announced[i].path = c} = {}
    BY <1>4
  <2> QED BY <1>1, <2>1 DEF Chain
<1> QED BY <1>3, <1>5 DEF ObsInv

\* Every step keeps the invariant.
LEMMA ObsStep ==
  ASSUME ObsInv, [ObsNext]_obsVars
  PROVE  ObsInv'
<1>1. ASSUME UNCHANGED <<cells, started, pending, turn, reacting, seen, lost>> PROVE ObsInv'
  BY <1>1 DEF ObsInv, ObsTypes, ReactSound, Awaits, Announced
<1>2. CASE UNCHANGED obsVars
  BY <1>1, <1>2 DEF obsVars
<1>3. ASSUME NEW t \in Setters, NEW c \in Cells, NEW new \in CellContents, Alter(t, c, new)
      PROVE  ObsInv'
  <2>1. t \in AllSetters /\ t # Observer
    BY ObsAssumption DEF AllSetters
  <2> QED BY <1>3, <2>1, AlterKeeps
<1>4. ASSUME NEW c \in Cells, NEW new \in CellContents, ObserverSets(c, new)
      PROVE  ObsInv'
  <2>1. turn # <<>> /\ Awaits(Head(turn)) /\ Alter(Observer, c, new) /\ Observer \in AllSetters
    BY <1>4 DEF ObserverSets, AllSetters
  <2>2. Head(turn) = turn[1]
    BY <2>1, TailRange DEF ObsInv, ObsTypes
  <2> QED BY <2>1, <2>2, AlterKeeps
<1>5. CASE AddObserver \/ RemoveObserver
  BY <1>1, <1>5 DEF AddObserver, RemoveObserver
<1> QED
  BY <1>2, <1>3, <1>4, <1>5, NotifyKeeps, ReactedKeeps, CancelSetterKeeps DEF ObsNext, CellContents

\* What the invariant says of the changes an observer has dealt with.
LEMMA ObsConsequence == ObsInv => ObsTypeOK /\ ChangesChain
<1> SUFFICES ASSUME ObsInv PROVE ObsTypeOK /\ ChangesChain
  OBVIOUS
<1>1. /\ seen \in Seq(Announcement) /\ pending \in [AllSetters -> Announcement \cup {Absent}]
      /\ turn \in Seq(AllSetters) /\ \A u \in AllSetters : u \in Range(turn) => pending[u] # Absent
      /\ cells \in [Cells -> CellContents] /\ started \in [Cells -> CellContents]
      /\ reacting \subseteq [change : Announcement, by : Setters \cup {Absent}]
  BY DEF ObsInv, ObsTypes
<1>2. ObsTypeOK
  <2>1. ASSUME NEW r \in reacting, NEW q \in reacting, r.by = q.by, r.by # Absent PROVE r = q
    <3>1. r.change = q.change
      BY <2>1 DEF ObsInv, ReactSound
    <3>2. /\ r \in [change : Announcement, by : Setters \cup {Absent}]
          /\ q \in [change : Announcement, by : Setters \cup {Absent}]
      BY <1>1
    <3> HIDE DEF ObsInv
    <3>3. r = [change |-> r.change, by |-> r.by] /\ q = [change |-> q.change, by |-> q.by]
      BY <3>2
    <3> QED BY <2>1, <3>1, <3>3, Zenon
  <2> QED BY <2>1 DEF ObsInv, ObsTypes, ObsTypeOK, AllSetters, CellContents
<1> DEFINE a == Announced
<1>3. /\ a \in Seq(Announcement) /\ Len(a) = Len(seen) + Len(turn)
      /\ Len(seen) \in Nat /\ Len(turn) \in Nat /\ \A k \in 1..Len(seen) : a[k] = seen[k]
  BY <1>1, QueuedAt DEF Announced
<1>4. \A c \in Cells \ lost : Chain(a, c, started[c], cells[c])
  BY DEF ObsInv
<1> HIDE DEF a
<1>5. ASSUME NEW c \in Cells \ lost PROVE \E w \in CellContents : Chain(seen, c, started[c], w)
  <2>1. /\ started[c] \in CellContents /\ cells[c] \in CellContents /\ Len(seen) <= Len(a)
        /\ \A k \in 1..Len(seen) : seen[k] = a[k]
    BY <1>1, <1>3
  <2>2. Chain(a, c, started[c], cells[c])
    BY <1>4
  <2> DEFINE v == started[c]
             w == cells[c]
  <2>3. v \in CellContents /\ w \in CellContents /\ Chain(a, c, v, w)
    BY <2>1, <2>2
  <2> HIDE DEF v, w
  <2>4. \E u \in CellContents : Chain(seen, c, v, u)
    BY <1>1, <1>3, <2>1, <2>3, ChainPrefix
  <2> QED BY <2>4 DEF v
<1>6. ASSUME turn = <<>>, NEW c \in Cells \ lost PROVE Chain(seen, c, started[c], cells[c])
  <2>1. Len(a) = Len(seen)
    <3>1. Len(turn) = 0
      BY <1>6, EmptySeq
    <3>2. PICK n, k, l : n = Len(a) /\ k = Len(seen) /\ l = Len(turn)
      OBVIOUS
    <3>3. n = k + l /\ l = 0 /\ k \in Nat
      BY <1>3, <3>1, <3>2
    <3>4. n = k
      BY <3>3
    <3> QED BY <3>2, <3>4
  <2>2. a \in [1..Len(a) -> Announcement] /\ seen \in [1..Len(a) -> Announcement]
    BY <1>1, <1>3, <2>1, LenProperties
  <2>3. a = seen
    BY <1>3, <2>1, <2>2
  <2> QED BY <1>4, <2>3
<1> QED BY <1>2, <1>5, <1>6 DEF ChangesChain, CellContents

\* The changes that an observer deals with form a chain for every cell, and all
\* announced they lead to its value: Observable.notify().
THEOREM ChangesFormChains == ObsSpec => []ChangesChain
<1> QED BY ObsInitially, ObsStep, ObsConsequence, PTL DEF ObsSpec

-----------------------------------------------------------------------------
(* The logger. *)

LogEntry == Record \cup {End}
LogCall == [handler : Handlers, next : Nat]

LogTypes ==
  /\ handlers \in Seq(Handlers) /\ IsInjective(handlers)
  /\ queue \in [Handlers -> Seq(LogEntry)]
  /\ processor \in [Handlers -> {"none", "running"} \cup Ended]
  /\ shut \in [Handlers -> BOOLEAN] /\ size \in [Handlers -> Nat]
  /\ file \in [Handlers -> Seq(Record) \cup {Nothing}]
  /\ backups \in [Handlers -> Seq(Seq(Record))]
  /\ \A h \in Handlers : Len(backups[h]) <= Backups
  /\ closer \in [Closers -> LogCall \cup {Nothing}]
  /\ logged \in Nat
  /\ due \in [Handlers -> SUBSET Record] /\ dealt \in [Handlers -> SUBSET Record]
  /\ written \in [Handlers -> Seq(Record)]

\* A queue holds its records in the order in which they were logged, all of them
\* later than those written.
QueueOrder(q, w, n) ==
  /\ \A i, j \in 1..Len(q) : i < j /\ q[i] # End /\ q[j] # End => q[i].id < q[j].id
  /\ \A i \in 1..Len(q) : q[i] # End => q[i].id <= n /\ \A r \in Range(w) : r.id < q[i].id
  /\ \A r \in Range(w) : r.id <= n

\* r is in the queue, before any end marker.
Ahead(q, r) == \E k \in 1..Len(q) : q[k] = r /\ \A j \in 1..k : q[j] # End

\* What a handler took before it was told to stop: a task that runs still finds it,
\* one that has ended has dealt with it.
DueSound(q, p, d, e) ==
  /\ p = "running" => \A r \in d \ e : Ahead(q, r)
  /\ p \in {"none", "ended"} => d \subseteq e

\* The files of a handler, the current one first.
Files(f, b) == <<IF f = Nothing THEN <<>> ELSE f>> \o b
FilesSound(w, fs) ==
  /\ Rising(w)
  /\ \A i \in 1..Len(fs) : Rising(fs[i]) /\ Range(fs[i]) \subseteq Range(w)
  /\ \A i, j \in 1..Len(fs) : i < j =>
       \A r \in Range(fs[i]), q \in Range(fs[j]) : q.id < r.id
  /\ \A r \in Range(w), i \in 1..Len(fs) : \A q \in Range(fs[i]) :
       q.id < r.id => \E j \in 1..Len(fs) : r \in Range(fs[j])

HandlerSound(h) ==
  /\ QueueOrder(queue[h], written[h], logged)
  /\ DueSound(queue[h], processor[h], due[h], dealt[h])
  /\ shut[h] => due[h] \subseteq dealt[h]
  /\ FilesSound(written[h], Files(file[h], backups[h]))

LogInv == LogTypes /\ \A h \in Handlers : HandlerSound(h)

\* The end marker is not a record.
LEMMA EndIsNoRecord == End \notin Record /\ \A r \in Record : r.id \in Nat
<1>1. \A r \in Record : r.id \in 1..MaxRecords /\ MaxRecords \in Nat
  BY LogAssumption DEF Record
<1>2. End.id = 0
  BY DEF End
<1> QED BY <1>1, <1>2

\* An end marker is queued.
LEMMA EndQueued ==
  ASSUME NEW q \in Seq(LogEntry), NEW w, NEW n
  PROVE  /\ Append(q, End) \in Seq(LogEntry)
         /\ QueueOrder(q, w, n) => QueueOrder(Append(q, End), w, n)
         /\ \A p, d, e : DueSound(q, p, d, e) => DueSound(Append(q, End), p, d, e)
<1> DEFINE t == Append(q, End)
<1>1. /\ t \in Seq(LogEntry) /\ Len(t) = Len(q) + 1 /\ t[Len(q) + 1] = End /\ Len(q) \in Nat
      /\ \A i \in 1..Len(q) : t[i] = q[i]
  BY AppendProperties, LenProperties DEF LogEntry
<1> HIDE DEF t
<1>2. \A i \in 1..Len(t) : t[i] # End => i \in 1..Len(q) /\ t[i] = q[i]
  BY <1>1
<1>3. ASSUME QueueOrder(q, w, n) PROVE QueueOrder(t, w, n)
  BY <1>2, <1>3 DEF QueueOrder
<1>4. ASSUME NEW r, Ahead(q, r) PROVE Ahead(t, r)
  <2>1. PICK k \in 1..Len(q) : q[k] = r /\ \A j \in 1..k : q[j] # End
    BY <1>4 DEF Ahead
  <2>2. k \in 1..Len(t) /\ t[k] = r /\ \A j \in 1..k : t[j] # End
    BY <1>1, <2>1
  <2> QED BY <2>2 DEF Ahead
<1>5. ASSUME NEW p, NEW d, NEW e, DueSound(q, p, d, e) PROVE DueSound(t, p, d, e)
  BY <1>4, <1>5 DEF DueSound
<1> QED BY <1>1, <1>3, <1>5 DEF t

\* A record is queued: the next one.
LEMMA RecordQueued ==
  ASSUME NEW q \in Seq(LogEntry), NEW w, NEW n \in Nat, QueueOrder(q, w, n),
         \A x \in Range(w) : x.id \in Nat,
         NEW r \in Record, r.id = n + 1
  PROVE  /\ Append(q, r) \in Seq(LogEntry)
         /\ QueueOrder(Append(q, r), w, n + 1) /\ QueueOrder(q, w, n + 1)
         /\ \A p, d, e : DueSound(q, p, d, e) => DueSound(Append(q, r), p, d, e)
         /\ \A d, e : DueSound(q, "running", d, e) /\ End \notin Range(q) =>
              DueSound(Append(q, r), "running", d \cup {r}, e)
<1> DEFINE t == Append(q, r)
<1>1. /\ t \in Seq(LogEntry) /\ Len(t) = Len(q) + 1 /\ t[Len(q) + 1] = r /\ Len(q) \in Nat
      /\ \A i \in 1..Len(q) : t[i] = q[i]
  BY AppendProperties, LenProperties DEF LogEntry
<1> HIDE DEF t
<1>2. r # End /\ \A i \in 1..Len(q) : q[i] # End => q[i] \in Record /\ q[i].id \in Nat
  <2>1. \A i \in 1..Len(q) : q[i] \in LogEntry
    BY ElementOfSeq
  <2> QED BY <2>1, EndIsNoRecord DEF LogEntry
<1>3. QueueOrder(q, w, n + 1)
  <2>1. ASSUME NEW i \in 1..Len(q), q[i] # End PROVE q[i].id <= n + 1
    <3>1. q[i].id \in Nat /\ q[i].id <= n
      BY <1>2, <2>1 DEF QueueOrder
    <3> QED BY <3>1
  <2>2. ASSUME NEW x \in Range(w) PROVE x.id <= n + 1
    <3>1. x.id \in Nat /\ x.id <= n
      BY <2>2 DEF QueueOrder
    <3> QED BY <3>1
  <2> QED BY <2>1, <2>2 DEF QueueOrder
<1>4. QueueOrder(t, w, n + 1)
  <2>1. ASSUME NEW i \in 1..Len(t), NEW j \in 1..Len(t), i < j, t[i] # End, t[j] # End
        PROVE  t[i].id < t[j].id
    <3>1. i \in 1..Len(q) /\ t[i] = q[i]
      BY <1>1, <2>1
    <3>2. CASE j \in 1..Len(q)
      BY <1>1, <2>1, <3>1, <3>2 DEF QueueOrder
    <3>3. CASE j = Len(q) + 1
      <4>1. q[i].id <= n /\ q[i].id \in Nat
        BY <1>2, <2>1, <3>1 DEF QueueOrder
      <4> QED BY <1>1, <3>1, <3>3, <4>1
    <3> QED BY <1>1, <2>1, <3>2, <3>3
  <2>2. ASSUME NEW i \in 1..Len(t), t[i] # End
        PROVE  t[i].id <= n + 1 /\ \A x \in Range(w) : x.id < t[i].id
    <3>1. CASE i \in 1..Len(q)
      BY <1>1, <1>3, <2>2, <3>1 DEF QueueOrder
    <3>2. CASE i = Len(q) + 1
      BY <1>1, <3>2 DEF QueueOrder
    <3> QED BY <1>1, <3>1, <3>2
  <2> QED BY <1>3, <2>1, <2>2 DEF QueueOrder
<1>5. ASSUME NEW x, Ahead(q, x) PROVE Ahead(t, x)
  <2>1. PICK k \in 1..Len(q) : q[k] = x /\ \A j \in 1..k : q[j] # End
    BY <1>5 DEF Ahead
  <2>2. k \in 1..Len(t) /\ t[k] = x /\ \A j \in 1..k : t[j] # End
    BY <1>1, <2>1
  <2> QED BY <2>2 DEF Ahead
<1>6. ASSUME NEW p, NEW d, NEW e, DueSound(q, p, d, e) PROVE DueSound(t, p, d, e)
  BY <1>5, <1>6 DEF DueSound
<1>7. ASSUME End \notin Range(q) PROVE Ahead(t, r)
  <2>1. \A i \in 1..Len(q) : q[i] # End
    BY <1>7, RangeByIndex
  <2>2. Len(q) + 1 \in 1..Len(t) /\ \A j \in 1..Len(q) + 1 : t[j] # End
    BY <1>1, <1>2, <2>1
  <2> QED BY <1>1, <2>2 DEF Ahead
<1>8. ASSUME NEW d, NEW e, DueSound(q, "running", d, e), End \notin Range(q)
      PROVE  DueSound(t, "running", d \cup {r}, e)
  BY <1>5, <1>7, <1>8 DEF DueSound
<1> QED BY <1>1, <1>3, <1>4, <1>6, <1>8 DEF t

\* The task takes the first of its queue.
LEMMA FirstTaken ==
  ASSUME NEW q \in Seq(LogEntry), q # <<>>, NEW w, NEW n, QueueOrder(q, w, n)
  PROVE  /\ Head(q) \in LogEntry /\ Tail(q) \in Seq(LogEntry) /\ QueueOrder(Tail(q), w, n)
         /\ Head(q) # End => \A j \in 1..Len(Tail(q)) : Tail(q)[j] # End => Head(q).id < Tail(q)[j].id
         /\ Head(q) # End => Head(q).id <= n /\ \A r \in Range(w) : r.id < Head(q).id
         /\ \A d, e : DueSound(q, "running", d, e) =>
              IF Head(q) = End THEN d \subseteq e
              ELSE DueSound(Tail(q), "running", d, e \cup {Head(q)})
<1> DEFINE t == Tail(q)
           r == Head(q)
<1>1. /\ t \in Seq(LogEntry) /\ Len(t) = Len(q) - 1 /\ r = q[1] /\ Len(q) \in Nat /\ 1 \in 1..Len(q)
      /\ \A i \in 1..Len(t) : t[i] = q[i + 1] /\ i + 1 \in 1..Len(q)
  BY HeadTailProperties, LenProperties, EmptySeq
<1>2. r \in LogEntry
  BY <1>1, ElementOfSeq
<1> HIDE DEF t, r
<1>3. QueueOrder(t, w, n)
  BY <1>1 DEF QueueOrder
<1>4. r # End => /\ \A j \in 1..Len(t) : t[j] # End => r.id < t[j].id
                 /\ r.id <= n /\ \A x \in Range(w) : x.id < r.id
  BY <1>1 DEF QueueOrder
<1>5. ASSUME NEW d, NEW e, DueSound(q, "running", d, e)
      PROVE  IF r = End THEN d \subseteq e ELSE DueSound(t, "running", d, e \cup {r})
  <2>1. ASSUME NEW x \in d \ e PROVE r # End /\ (x # r => Ahead(t, x))
    <3>1. PICK k \in 1..Len(q) : q[k] = x /\ \A j \in 1..k : q[j] # End
      BY <1>5, <2>1 DEF DueSound, Ahead
    <3>2. r # End
      BY <1>1, <3>1
    <3>3. ASSUME x # r PROVE Ahead(t, x)
      <4>1. k - 1 \in 1..Len(t) /\ (k - 1) + 1 = k
        BY <1>1, <3>1, <3>3
      <4>2. t[k - 1] = x
        BY <1>1, <3>1, <4>1
      <4>3. \A j \in 1..k - 1 : j + 1 \in 1..k /\ j \in 1..Len(t)
        BY <4>1
      <4>4. \A j \in 1..k - 1 : t[j] # End
        BY <1>1, <3>1, <4>3
      <4> QED BY <4>1, <4>2, <4>4 DEF Ahead
    <3> QED BY <3>2, <3>3
  <2> QED BY <2>1 DEF DueSound
<1> QED BY <1>1, <1>2, <1>3, <1>4, <1>5 DEF t, r

\* A record is written: those queued after it are later.
LEMMA WriteKeepsOrder ==
  ASSUME NEW q, NEW w \in Seq(Record), NEW n, QueueOrder(q, w, n), NEW r \in Record, r.id <= n,
         \A j \in 1..Len(q) : q[j] # End => r.id < q[j].id
  PROVE  QueueOrder(q, Append(w, r), n)
<1>1. Range(Append(w, r)) = Range(w) \cup {r}
  BY AppendRange
<1> QED BY <1>1 DEF QueueOrder

\* A sequence that rises goes on rising with a later record.
LEMMA RisingWith ==
  ASSUME NEW s \in Seq(Record), Rising(s), NEW r \in Record, \A x \in Range(s) : x.id < r.id
  PROVE  Rising(Append(s, r))
<1> DEFINE t == Append(s, r)
<1>1. /\ Len(t) = Len(s) + 1 /\ t[Len(s) + 1] = r /\ Len(s) \in Nat
      /\ \A i \in 1..Len(s) : t[i] = s[i] /\ s[i] \in Range(s)
  BY AppendProperties, LenProperties, RangeByIndex
<1> HIDE DEF t
<1> SUFFICES ASSUME NEW i \in 1..Len(t), NEW j \in 1..Len(t), i < j PROVE t[i].id < t[j].id
  BY DEF Rising, t
<1>2. i \in 1..Len(s)
  BY <1>1
<1>3. CASE j \in 1..Len(s)
  BY <1>1, <1>2, <1>3 DEF Rising
<1>4. CASE j = Len(s) + 1
  BY <1>1, <1>2, <1>4
<1>5. j \in 1..Len(s) \/ j = Len(s) + 1
  <2>1. Len(t) = Len(s) + 1 /\ Len(s) \in Nat /\ j \in 1..Len(t)
    BY <1>1
  <2> QED BY <2>1
<1> QED BY <1>3, <1>4, <1>5

\* The files after a record was written to the first of them.
LEMMA WrittenToFile ==
  ASSUME NEW w \in Seq(Record), NEW fs \in Seq(Seq(Record)), NEW gs \in Seq(Seq(Record)),
         FilesSound(w, fs), NEW r \in Record, \A x \in Range(w) : x.id < r.id,
         Len(fs) >= 1, Len(gs) = Len(fs), gs[1] = Append(fs[1], r),
         \A i \in 2..Len(fs) : gs[i] = fs[i]
  PROVE  FilesSound(Append(w, r), gs)
<1>1. /\ Range(Append(w, r)) = Range(w) \cup {r} /\ Rising(Append(w, r))
      /\ Len(fs) \in Nat /\ 1 \in 1..Len(fs) /\ \A x \in Range(w) \cup {r} : x.id \in Nat
  <2>1. Rising(Append(w, r))
    BY RisingWith DEF FilesSound
  <2>2. Range(Append(w, r)) = Range(w) \cup {r}
    BY AppendRange
  <2>3. \A x \in Range(w) \cup {r} : x.id \in Nat
    <3>1. Range(w) \subseteq Record
      BY RangeByIndex
    <3> QED BY <3>1, EndIsNoRecord
  <2>4. Len(fs) \in Nat
    BY LenProperties
  <2>5. 1 \in 1..Len(fs)
    BY <2>4
  <2> QED BY <2>1, <2>2, <2>3, <2>4, <2>5
<1>2. /\ fs[1] \in Seq(Record) /\ Range(fs[1]) \subseteq Range(w) /\ Rising(fs[1])
  BY <1>1, ElementOfSeq DEF FilesSound
<1>3. Range(gs[1]) = Range(fs[1]) \cup {r} /\ Rising(gs[1])
  BY <1>2, AppendRange, RisingWith
<1> DEFINE n == Len(fs)
<1>4. \A i \in 1..Len(gs) : i = 1 \/ (i \in 2..Len(fs) /\ i \in 1..Len(fs) /\ gs[i] = fs[i])
  <2>1. n \in Nat /\ Len(gs) = n /\ \A i \in 2..n : gs[i] = fs[i]
    BY <1>1
  <2> HIDE DEF n
  <2>2. ASSUME NEW i \in 1..n, i # 1 PROVE i \in 2..n
    BY <2>1, <2>2
  <2>3. \A i \in 1..n : i = 1 \/ (i \in 2..n /\ gs[i] = fs[i])
    BY <2>1, <2>2
  <2> QED BY <2>1, <2>3 DEF n
<1>5. \A i \in 1..Len(gs) : Rising(gs[i]) /\ Range(gs[i]) \subseteq Range(w) \cup {r}
  BY <1>2, <1>3, <1>4 DEF FilesSound
<1>6. ASSUME NEW i \in 1..Len(gs), NEW j \in 1..Len(gs), i < j,
             NEW x \in Range(gs[i]), NEW y \in Range(gs[j])
      PROVE  y.id < x.id
  <2>1. j \in 1..Len(fs) /\ gs[j] = fs[j]
    BY <1>4, <1>6
  <2>2. y \in Range(w) /\ y \in Range(fs[j])
    BY <1>6, <2>1 DEF FilesSound
  <2>3. CASE x = r
    BY <2>2, <2>3
  <2>4. CASE x # r
    <3>1. x \in Range(fs[i]) /\ i \in 1..Len(fs)
      BY <1>1, <1>3, <1>4, <1>6, <2>4
    <3> QED BY <1>6, <2>1, <2>2, <3>1 DEF FilesSound
  <2> QED BY <2>3, <2>4
<1>7. ASSUME NEW x \in Range(w) \cup {r}, NEW i \in 1..Len(gs), NEW y \in Range(gs[i]), y.id < x.id
      PROVE  \E j \in 1..Len(gs) : x \in Range(gs[j])
  <2>1. CASE x = r
    BY <1>1, <1>3, <2>1
  <2>2. CASE x # r
    <3>1. x \in Range(w) /\ x.id < r.id /\ x.id \in Nat /\ r.id \in Nat
      BY <1>1, <2>2
    <3>2. y # r
      BY <1>7, <3>1
    <3>3. i \in 1..Len(fs) /\ y \in Range(fs[i])
      <4>1. CASE i = 1
        BY <1>1, <1>3, <1>7, <3>2, <4>1
      <4>2. CASE i # 1
        BY <1>4, <1>7, <4>2
      <4> QED BY <4>1, <4>2
    <3>4. PICK j \in 1..Len(fs) : x \in Range(fs[j])
      BY <1>7, <3>1, <3>3 DEF FilesSound
    <3>5. x \in Range(gs[j])
      BY <1>3, <1>4, <3>4
    <3> QED BY <3>4, <3>5
  <2> QED BY <2>1, <2>2
<1> QED BY <1>1, <1>5, <1>6, <1>7 DEF FilesSound

\* The files after a rotation: an empty one, and those before it but perhaps the
\* oldest.
LEMMA RotatedFiles ==
  ASSUME NEW w \in Seq(Record), NEW fs \in Seq(Seq(Record)), NEW gs \in Seq(Seq(Record)),
         FilesSound(w, fs), Len(gs) <= Len(fs) + 1, Len(gs) >= 1, gs[1] = <<>>,
         \A i \in 2..Len(gs) : gs[i] = fs[i - 1]
  PROVE  FilesSound(w, gs)
<1>1. Len(fs) \in Nat /\ Len(gs) \in Nat /\ Range(gs[1]) = {} /\ Rising(gs[1])
  <2>1. gs[1] = <<>> /\ Len(<<>>) = 0
    BY EmptySeq
  <2>2. Rising(gs[1])
    BY <2>1 DEF Rising
  <2> QED BY <2>1, <2>2, EmptyRange, LenProperties
<1>2. \A i \in 1..Len(gs) : i = 1 \/ (i - 1 \in 1..Len(fs) /\ gs[i] = fs[i - 1])
  BY <1>1
<1>3. \A i \in 1..Len(gs) : Rising(gs[i]) /\ Range(gs[i]) \subseteq Range(w)
  BY <1>1, <1>2 DEF FilesSound
<1>4. ASSUME NEW i \in 1..Len(gs), NEW j \in 1..Len(gs), i < j,
             NEW x \in Range(gs[i]), NEW y \in Range(gs[j])
      PROVE  y.id < x.id
  <2>1. i # 1 /\ j # 1
    <3>1. i # 1
      BY <1>1, <1>4
    <3>2. i \in Int /\ j \in Int /\ 1 <= i
      OBVIOUS
    <3> QED BY <1>4, <3>1, <3>2
  <2>2. /\ i - 1 \in 1..Len(fs) /\ j - 1 \in 1..Len(fs)
        /\ x \in Range(fs[i - 1]) /\ y \in Range(fs[j - 1])
    BY <1>2, <1>4, <2>1
  <2>3. i - 1 < j - 1
    BY <1>4
  <2> QED BY <2>2, <2>3 DEF FilesSound
<1>5. ASSUME NEW x \in Range(w), NEW i \in 1..Len(gs), NEW y \in Range(gs[i]), y.id < x.id
      PROVE  \E j \in 1..Len(gs) : x \in Range(gs[j])
  <2>1. i - 1 \in 1..Len(fs) /\ y \in Range(fs[i - 1])
    BY <1>1, <1>2, <1>5
  <2>2. PICK j \in 1..Len(fs) : x \in Range(fs[j])
    BY <1>5, <2>1 DEF FilesSound
  <2>3. ASSUME Len(gs) < j + 1 PROVE FALSE
    <3>1. i - 1 < j
      BY <1>1, <2>3
    <3>2. x.id < y.id
      BY <2>1, <2>2, <3>1 DEF FilesSound
    <3>3. x.id \in Nat /\ y.id \in Nat
      <4>1. Range(w) \subseteq Record
        BY RangeByIndex
      <4> QED BY <1>3, <1>5, <4>1, EndIsNoRecord
    <3> QED BY <1>5, <3>2, <3>3
  <2> DEFINE m == Len(gs)
  <2>4. j + 1 \in 1..Len(gs) /\ j + 1 # 1 /\ (j + 1) - 1 = j
    <3>1. j \in Nat /\ 1 <= j /\ m \in Nat /\ ~(m < j + 1)
      BY <1>1, <2>3
    <3> HIDE DEF m
    <3>2. j + 1 \in 1..m /\ j + 1 # 1 /\ (j + 1) - 1 = j
      BY <3>1
    <3> QED BY <3>2 DEF m
  <2>5. gs[j + 1] = fs[j]
    BY <1>2, <2>4
  <2> QED BY <2>2, <2>4, <2>5
<1> QED BY <1>1, <1>3, <1>4, <1>5 DEF FilesSound
\* The files of a handler as a sequence.
LEMMA FilesAre ==
  ASSUME NEW f \in Seq(Record) \cup {Nothing}, NEW b \in Seq(Seq(Record))
  PROVE  /\ Files(f, b) \in Seq(Seq(Record)) /\ Len(Files(f, b)) = Len(b) + 1 /\ Len(b) \in Nat
         /\ Files(f, b)[1] = IF f = Nothing THEN <<>> ELSE f
         /\ \A i \in 1..Len(b) : Files(f, b)[i + 1] = b[i]
<1>1. PICK c \in Seq(Record) : c = IF f = Nothing THEN <<>> ELSE f
  BY EmptySeq
<1>2. PICK a : a = <<c>>
  OBVIOUS
<1> DEFINE S == Seq(Record)
<1>3. c \in S /\ b \in Seq(S)
  BY <1>1
<1> HIDE DEF S
<1>4. a \in Seq(S) /\ Len(a) = 1 /\ a[1] = c
  BY <1>2, <1>3
<1>5. /\ a \o b \in Seq(S) /\ Len(a \o b) = Len(a) + Len(b)
      /\ \A i \in 1..Len(a) + Len(b) : (a \o b)[i] = IF i <= Len(a) THEN a[i] ELSE b[i - Len(a)]
  BY <1>3, <1>4, ConcatProperties
<1>6. PICK n \in Nat : n = Len(b)
  BY <1>3, LenProperties
<1>7. ASSUME NEW i \in 1..n PROVE (a \o b)[i + 1] = b[i]
  <2>1. i + 1 \in 1..1 + n /\ ~(i + 1 <= 1) /\ (i + 1) - 1 = i
    OBVIOUS
  <2> QED BY <1>4, <1>5, <1>6, <2>1
<1>8. 1 \in 1..1 + n /\ 1 + n = n + 1
  OBVIOUS
<1>9. (a \o b)[1] = c
  BY <1>4, <1>5, <1>6, <1>8
<1>10. Files(f, b) = a \o b
  BY <1>1, <1>2 DEF Files
<1> QED BY <1>1, <1>4, <1>5, <1>6, <1>7, <1>8, <1>9, <1>10 DEF S

\* The backups after a rotation are the files before it, but perhaps the oldest.
LEMMA RotatedIs ==
  ASSUME LogTypes, NEW h \in Handlers, file[h] # Nothing
  PROVE  /\ Rotated(h) \in Seq(Seq(Record)) /\ Len(Rotated(h)) <= Backups
         /\ Len(Rotated(h)) <= Len(backups[h]) + 1 /\ Len(Rotated(h)) \in Nat
         /\ \A i \in 1..Len(Rotated(h)) : Rotated(h)[i] = Files(file[h], backups[h])[i]
<1> DEFINE fs == Files(file[h], backups[h])
           m == IF Backups < Len(fs) THEN Backups ELSE Len(fs)
           S == Seq(Record)
<1>1. /\ fs \in Seq(Seq(Record)) /\ Len(fs) = Len(backups[h]) + 1 /\ Len(fs) \in Nat
  BY FilesAre DEF LogTypes
<1>2. Backups \in Nat /\ m \in Nat /\ m <= Backups /\ m <= Len(fs)
  BY <1>1, LogAssumption DEF Backups
<1>3. Rotated(h) = SubSeq(fs, 1, m)
  BY DEF Rotated, Files
<1> HIDE DEF fs, m, S
<1>4. \A i \in 1..m : fs[i] \in S
  <2>1. \A i \in 1..m : i \in 1..Len(fs)
    BY <1>1, <1>2
  <2> QED BY <1>1, <2>1, ElementOfSeq DEF S
<1>5. /\ SubSeq(fs, 1, m) \in Seq(S)
      /\ Len(SubSeq(fs, 1, m)) = IF 1 <= m THEN m - 1 + 1 ELSE 0
      /\ \A i \in 1..m - 1 + 1 : SubSeq(fs, 1, m)[i] = fs[1 + i - 1]
  BY <1>2, <1>4, SubSeqProperties
<1>6. Len(Rotated(h)) = m
  BY <1>2, <1>3, <1>5
<1>7. \A i \in 1..m : i \in 1..m - 1 + 1 /\ 1 + i - 1 = i
  BY <1>2
<1>8. \A i \in 1..m : Rotated(h)[i] = fs[i]
  BY <1>3, <1>5, <1>7
<1> QED BY <1>1, <1>2, <1>3, <1>5, <1>6, <1>8 DEF fs, S

\* A record is written or lost, and the files hold what they should.
LEMMA DiskKept ==
  ASSUME LogTypes, NEW h \in Handlers, FilesSound(written[h], Files(file[h], backups[h])),
         NEW r \in Record, \A x \in Range(written[h]) : x.id < r.id, WriteRecord(h, r)
  PROVE  /\ file' \in [Handlers -> Seq(Record) \cup {Nothing}] /\ size' \in [Handlers -> Nat]
         /\ backups' \in [Handlers -> Seq(Seq(Record))] /\ written' \in [Handlers -> Seq(Record)]
         /\ Len(backups'[h]) <= Backups
         /\ written'[h] \in {written[h], Append(written[h], r)}
         /\ \A g \in Handlers : g # h => /\ file'[g] = file[g] /\ backups'[g] = backups[g]
                                         /\ written'[g] = written[g]
         /\ FilesSound(written'[h], Files(file'[h], backups'[h]))
<1> DEFINE full == MaxBytes > 0 /\ size[h] + r.size > MaxBytes
           base == IF full \/ file[h] = Nothing THEN <<>> ELSE file[h]
           counted == IF full THEN 0 ELSE size[h]
           older == IF full /\ file[h] # Nothing THEN Rotated(h) ELSE backups[h]
           w == written[h]
<1>1. /\ file \in [Handlers -> Seq(Record) \cup {Nothing}] /\ size \in [Handlers -> Nat]
      /\ backups \in [Handlers -> Seq(Seq(Record))] /\ written \in [Handlers -> Seq(Record)]
      /\ Len(backups[h]) <= Backups
  BY DEF LogTypes
<1>2. /\ base \in Seq(Record) /\ base # Nothing /\ counted \in Nat /\ r.size \in Nat
  BY <1>1, EmptySeq, LogAssumption DEF Record
<1>3. older \in Seq(Seq(Record)) /\ Len(older) <= Backups
  BY <1>1, RotatedIs
<1>4. FilesSound(w, Files(base, older))
  <2>1. CASE full /\ file[h] # Nothing
    <3> DEFINE fs == Files(file[h], backups[h])
               gs == Files(base, older)
    <3>1. /\ fs \in Seq(Seq(Record)) /\ Len(fs) = Len(backups[h]) + 1 /\ Len(backups[h]) \in Nat
      <4>1. file[h] \in Seq(Record) \cup {Nothing} /\ backups[h] \in Seq(Seq(Record))
        BY <1>1
      <4> QED BY <4>1, FilesAre
    <3>2. /\ gs \in Seq(Seq(Record)) /\ Len(gs) = Len(older) + 1 /\ Len(older) \in Nat
          /\ gs[1] = <<>> /\ \A i \in 1..Len(older) : gs[i + 1] = older[i]
      <4>1. base = <<>> /\ base # Nothing /\ base \in Seq(Record) \cup {Nothing}
        BY <1>2, <2>1
      <4> HIDE DEF base, older
      <4>2. Files(base, older)[1] = <<>>
        BY <1>3, <4>1, FilesAre
      <4> QED BY <1>3, <4>1, <4>2, FilesAre
    <3>3. Len(older) <= Len(backups[h]) + 1 /\ \A i \in 1..Len(older) : older[i] = fs[i]
      BY <2>1, RotatedIs
    <3>4. w \in Seq(Record) /\ FilesSound(w, fs)
      BY <1>1
    <3> HIDE DEF fs, gs, base, older, w, full
    <3>5. ASSUME NEW i \in 2..Len(gs) PROVE gs[i] = fs[i - 1]
      <4>1. i - 1 \in 1..Len(older) /\ (i - 1) + 1 = i
        BY <3>2
      <4> QED BY <3>2, <3>3, <4>1
    <3>6. Len(gs) <= Len(fs) + 1 /\ Len(gs) >= 1
      BY <3>1, <3>2, <3>3
    <3>7. FilesSound(w, gs)
      BY <3>1, <3>2, <3>4, <3>5, <3>6, RotatedFiles
    <3> QED BY <3>7 DEF gs
  <2>2. CASE ~(full /\ file[h] # Nothing)
    <3>1. older = backups[h] /\ base = IF file[h] = Nothing THEN <<>> ELSE file[h]
      BY <2>2
    <3>2. Files(base, older) = Files(file[h], backups[h])
      <4> HIDE DEF base, older
      <4> QED BY <1>2, <3>1 DEF Files
    <3> QED BY <3>2
  <2> QED BY <2>1, <2>2
<1>5. CASE UNCHANGED <<file, size, backups, written>>
  BY <1>1, <1>5
<1>6. backups' = [backups EXCEPT ![h] = IF full /\ file[h] # Nothing THEN Rotated(h) ELSE @]
      => /\ backups' \in [Handlers -> Seq(Seq(Record))] /\ backups'[h] = older
         /\ \A g \in Handlers : g # h => backups'[g] = backups[g]
  BY <1>1, <1>3
<1>7. CASE /\ backups' = [backups EXCEPT ![h] = IF full /\ file[h] # Nothing THEN Rotated(h) ELSE @]
           /\ file' = [file EXCEPT ![h] = base] /\ size' = [size EXCEPT ![h] = counted]
           /\ UNCHANGED written
  <2> HIDE DEF full, base, counted, older
  <2>1. /\ file' \in [Handlers -> Seq(Record) \cup {Nothing}] /\ file'[h] = base
        /\ \A g \in Handlers : g # h => file'[g] = file[g]
        /\ size' \in [Handlers -> Nat]
    BY <1>1, <1>2, <1>7
  <2> QED BY <1>1, <1>3, <1>4, <1>6, <1>7, <2>1
<1>8. CASE /\ backups' = [backups EXCEPT ![h] = IF full /\ file[h] # Nothing THEN Rotated(h) ELSE @]
           /\ file' = [file EXCEPT ![h] = Append(base, r)]
           /\ size' = [size EXCEPT ![h] = counted + r.size]
           /\ written' = [written EXCEPT ![h] = Append(@, r)]
  <2> DEFINE more == Append(base, r)
  <2> HIDE DEF full, base, counted, older
  <2>1. more \in Seq(Record) /\ counted + r.size \in Nat /\ Append(w, r) \in Seq(Record)
    BY <1>1, <1>2, AppendProperties
  <2>2. more # Nothing
    BY <2>1, LogAssumption
  <2>3. FilesSound(Append(w, r), Files(more, older))
    <3> DEFINE fs == Files(base, older)
               gs == Files(more, older)
    <3>1. /\ fs \in Seq(Seq(Record)) /\ Len(fs) = Len(older) + 1 /\ Len(older) \in Nat
          /\ fs[1] = base /\ \A i \in 1..Len(older) : fs[i + 1] = older[i]
      <4>1. base \in Seq(Record) \cup {Nothing}
        BY <1>2
      <4> QED BY <1>2, <1>3, <4>1, FilesAre
    <3>2. /\ gs \in Seq(Seq(Record)) /\ Len(gs) = Len(older) + 1
          /\ gs[1] = more /\ \A i \in 1..Len(older) : gs[i + 1] = older[i]
      <4>1. more \in Seq(Record) \cup {Nothing}
        BY <2>1
      <4> HIDE DEF more
      <4> QED BY <1>3, <2>2, <4>1, FilesAre
    <3>3. w \in Seq(Record) /\ FilesSound(w, fs) /\ \A x \in Range(w) : x.id < r.id
      BY <1>1, <1>4
    <3>4. gs[1] = Append(fs[1], r)
      BY <3>1, <3>2
    <3> HIDE DEF fs, gs, more, w
    <3>5. ASSUME NEW i \in 2..Len(fs) PROVE gs[i] = fs[i]
      <4>1. i - 1 \in 1..Len(older) /\ (i - 1) + 1 = i
        BY <3>1
      <4> QED BY <3>1, <3>2, <4>1
    <3>6. Len(fs) >= 1 /\ Len(gs) = Len(fs)
      BY <3>1, <3>2
    <3>7. FilesSound(Append(w, r), gs)
      BY <3>1, <3>2, <3>3, <3>4, <3>5, <3>6, WrittenToFile
    <3> QED BY <3>7 DEF gs
  <2>4. /\ file' \in [Handlers -> Seq(Record) \cup {Nothing}] /\ file'[h] = more
        /\ \A g \in Handlers : g # h => file'[g] = file[g] /\ written'[g] = written[g]
        /\ size' \in [Handlers -> Nat]
        /\ written' \in [Handlers -> Seq(Record)] /\ written'[h] = Append(w, r)
    BY <1>1, <1>8, <2>1
  <2> QED BY <1>1, <1>3, <1>6, <1>8, <2>3, <2>4
<1> QED BY <1>5, <1>7, <1>8 DEF WriteRecord

\* A record is logged.
LEMMA LogKeeps ==
  ASSUME LogInv, NEW level \in Levels, NEW bytes \in Sizes, Log(level, bytes)
  PROVE  LogInv'
<1> DEFINE r == [id |-> logged + 1, level |-> level, size |-> bytes]
           Takes(h) == h \in Range(handlers) /\ ~shut[h] /\ level >= HandlerLevel[h]
<1>1. /\ logged < MaxRecords /\ logged' = logged + 1
      /\ queue' = [h \in Handlers |-> IF Takes(h) THEN Append(queue[h], r) ELSE queue[h]]
      /\ due' = [h \in Handlers |->
           IF Takes(h) /\ End \notin Range(queue[h]) /\ processor[h] = "running"
             THEN due[h] \cup {r} ELSE due[h]]
      /\ UNCHANGED <<handlers, processor, shut, file, size, backups, written, closer, dealt>>
  BY DEF Log, diskVars
<1>2. r \in Record /\ r.id = logged + 1 /\ logged \in Nat /\ logged' \in Nat
  BY <1>1, LogAssumption DEF Record, LogInv, LogTypes
<1>3. /\ queue \in [Handlers -> Seq(LogEntry)] /\ due \in [Handlers -> SUBSET Record]
      /\ written \in [Handlers -> Seq(Record)]
  BY DEF LogInv, LogTypes
<1>4. \A h \in Handlers : ~Takes(h) => queue'[h] = queue[h] /\ due'[h] = due[h]
  BY <1>1
<1>5. ASSUME NEW h \in Handlers, Takes(h)
      PROVE  /\ queue'[h] = Append(queue[h], r) /\ ~shut[h]
             /\ due'[h] = IF End \notin Range(queue[h]) /\ processor[h] = "running"
                          THEN due[h] \cup {r} ELSE due[h]
  BY <1>1, <1>5
<1> HIDE DEF r, Takes
<1>6. ASSUME NEW h \in Handlers
      PROVE  /\ queue'[h] \in Seq(LogEntry) /\ HandlerSound(h)'
  <2> DEFINE q == queue[h]
             w == written[h]
  <2>1. /\ q \in Seq(LogEntry) /\ QueueOrder(q, w, logged)
        /\ DueSound(q, processor[h], due[h], dealt[h]) /\ (shut[h] => due[h] \subseteq dealt[h])
        /\ FilesSound(w, Files(file[h], backups[h]))
    BY <1>3 DEF LogInv, HandlerSound
  <2>2. \A x \in Range(w) : x.id \in Nat
    <3>1. Range(w) \subseteq Record
      BY <1>3, RangeByIndex
    <3> QED BY <3>1, EndIsNoRecord
  <2> HIDE DEF q, w
  <2>3. /\ Append(q, r) \in Seq(LogEntry)
        /\ QueueOrder(Append(q, r), w, logged + 1) /\ QueueOrder(q, w, logged + 1)
        /\ \A p, d, e : DueSound(q, p, d, e) => DueSound(Append(q, r), p, d, e)
        /\ \A d, e : DueSound(q, "running", d, e) /\ End \notin Range(q) =>
             DueSound(Append(q, r), "running", d \cup {r}, e)
    BY <1>2, <2>1, <2>2, RecordQueued
  <2>4. CASE Takes(h)
    <3>1. DueSound(queue'[h], processor[h], due'[h], dealt[h])
      <4>1. CASE End \notin Range(q) /\ processor[h] = "running"
        <5>1. due'[h] = due[h] \cup {r} /\ queue'[h] = Append(q, r)
          BY <1>5, <2>4, <4>1 DEF q
        <5> QED BY <2>1, <2>3, <4>1, <5>1
      <4>2. CASE ~(End \notin Range(q) /\ processor[h] = "running")
        <5>1. due'[h] = due[h] /\ queue'[h] = Append(q, r)
          BY <1>5, <2>4, <4>2 DEF q
        <5> QED BY <2>1, <2>3, <5>1
      <4> QED BY <4>1, <4>2
    <3>2. queue'[h] = Append(q, r) /\ ~shut[h]
      BY <1>5, <2>4 DEF q
    <3> QED BY <1>1, <2>1, <2>3, <3>1, <3>2 DEF HandlerSound, w
  <2>5. CASE ~Takes(h)
    BY <1>1, <1>4, <2>1, <2>3, <2>5 DEF HandlerSound, q, w
  <2> QED BY <2>4, <2>5
<1>7. LogTypes'
  <2>1. queue' \in [Handlers -> Seq(LogEntry)]
    BY <1>1, <1>6
  <2>2. due' \in [Handlers -> SUBSET Record]
    <3>1. \A h \in Handlers : due'[h] \subseteq Record
      BY <1>2, <1>3, <1>4, <1>5
    <3>2. due' = [h \in Handlers |-> due'[h]]
      BY <1>1
    <3> QED BY <3>1, <3>2
  <2> QED BY <1>1, <1>2, <2>1, <2>2 DEF LogInv, LogTypes
<1> QED BY <1>6, <1>7 DEF LogInv

\* A handler is added and gets a task.
LEMMA AddHandlerKeeps ==
  ASSUME LogInv, NEW h \in Handlers, AddHandler(h)
  PROVE  LogInv'
<1>1. /\ h \notin Range(handlers) /\ handlers' = Append(handlers, h)
      /\ processor' = [processor EXCEPT ![h] = IF @ = "none" THEN "running" ELSE @]
      /\ UNCHANGED <<queue, shut, file, size, backups, written, closer, logged, due, dealt>>
  BY DEF AddHandler, diskVars
<1>2. handlers' \in Seq(Handlers) /\ IsInjective(handlers')
  BY <1>1, AppendRange DEF LogInv, LogTypes
<1>3. /\ processor \in [Handlers -> {"none", "running"} \cup Ended]
      /\ processor' \in [Handlers -> {"none", "running"} \cup Ended]
  BY <1>1 DEF LogInv, LogTypes
<1>4. LogTypes'
  BY <1>1, <1>2, <1>3 DEF LogInv, LogTypes
<1>5. ASSUME NEW g \in Handlers PROVE HandlerSound(g)'
  <2>1. processor'[g] = processor[g] \/ (processor[g] = "none" /\ processor'[g] = "running")
    BY <1>1, <1>3
  <2>2. DueSound(queue[g], processor'[g], due[g], dealt[g])
    BY <2>1 DEF LogInv, HandlerSound, DueSound
  <2> QED BY <1>1, <2>2 DEF LogInv, HandlerSound
<1> QED BY <1>4, <1>5 DEF LogInv

\* The end marker of a handler that is stopped.
LEMMA StoppingKeeps ==
  ASSUME NEW q \in [Handlers -> Seq(LogEntry)], NEW h \in Handlers, NEW t \in Closers, NEW next \in Nat,
         closer \in [Closers -> LogCall \cup {Nothing}], q = queue, Stopping(t, h, next)
  PROVE  /\ queue' \in [Handlers -> Seq(LogEntry)]
         /\ \A g \in Handlers : queue'[g] \in {q[g], Append(q[g], End)}
         /\ closer' \in [Closers -> LogCall \cup {Nothing}]
<1>1. /\ queue' = IF processor[h] = "none" THEN q ELSE [q EXCEPT ![h] = Append(@, End)]
      /\ closer' = [closer EXCEPT ![t] = [handler |-> h, next |-> next]]
  BY DEF Stopping
<1>2. Append(q[h], End) \in Seq(LogEntry)
  BY EndQueued
<1>3. [handler |-> h, next |-> next] \in LogCall
  BY DEF LogCall
<1> QED BY <1>1, <1>2, <1>3

\* Handlers whose queues got at most an end marker.
LEMMA MarkedQueues ==
  ASSUME LogInv, queue' \in [Handlers -> Seq(LogEntry)],
         \A g \in Handlers : queue'[g] \in {queue[g], Append(queue[g], End)},
         UNCHANGED <<file, backups, written, logged, due, dealt>>,
         NEW g \in Handlers,
         processor'[g] = processor[g] \/ processor'[g] = "cancelled"
           \/ (processor'[g] = "none" /\ processor[g] \in {"none", "ended"}),
         shut'[g] => shut[g] \/ processor[g] \in {"none", "ended"}
  PROVE  HandlerSound(g)'
<1> DEFINE q == queue[g]
           w == written[g]
<1>1. /\ q \in Seq(LogEntry) /\ QueueOrder(q, w, logged)
      /\ DueSound(q, processor[g], due[g], dealt[g]) /\ (shut[g] => due[g] \subseteq dealt[g])
      /\ FilesSound(w, Files(file[g], backups[g]))
  BY DEF LogInv, HandlerSound, LogTypes
<1>2. DueSound(q, processor'[g], due[g], dealt[g]) /\ (shut'[g] => due[g] \subseteq dealt[g])
  BY <1>1 DEF DueSound
<1>3. /\ QueueOrder(q, w, logged) => QueueOrder(Append(q, End), w, logged)
      /\ \A p, d, e : DueSound(q, p, d, e) => DueSound(Append(q, End), p, d, e)
  BY <1>1, EndQueued
<1>4. QueueOrder(queue'[g], w, logged) /\ DueSound(queue'[g], processor'[g], due[g], dealt[g])
  BY <1>1, <1>2, <1>3
<1> HIDE DEF q
<1> QED BY <1>1, <1>2, <1>4 DEF HandlerSound

\* A call of close() or remove_handler() starts.
LEMMA CallStarts ==
  ASSUME LogInv, NEW t \in Closers, NEW h \in Handlers, NEW next \in Nat, Stopping(t, h, next),
         UNCHANGED <<handlers, processor, shut, diskVars, logged, due, dealt>>
  PROVE  LogInv'
<1>1. /\ queue \in [Handlers -> Seq(LogEntry)] /\ closer \in [Closers -> LogCall \cup {Nothing}]
  BY DEF LogInv, LogTypes
<1>2. /\ queue' \in [Handlers -> Seq(LogEntry)]
      /\ \A g \in Handlers : queue'[g] \in {queue[g], Append(queue[g], End)}
      /\ closer' \in [Closers -> LogCall \cup {Nothing}]
  BY <1>1, StoppingKeeps
<1>3. LogTypes'
  BY <1>2 DEF LogInv, LogTypes, diskVars
<1>4. \A g \in Handlers : HandlerSound(g)'
  BY <1>2, MarkedQueues DEF diskVars
<1> QED BY <1>3, <1>4 DEF LogInv

\* stop() returns to the call it is part of.
LEMMA StopReturnsKeeps ==
  ASSUME LogInv, NEW t \in Closers, StopReturns(t)
  PROVE  LogInv'
<1> DEFINE h == closer[t].handler
           i == closer[t].next
<1>1. /\ closer[t] # Nothing /\ Stopped(h)
      /\ processor' = [processor EXCEPT ![h] = "none"]
      /\ shut' = [shut EXCEPT ![h] = @ \/ processor[h] # "none"]
      /\ UNCHANGED <<file, size, backups, written, logged, due, dealt>>
  BY DEF StopReturns, diskVars
<1>2. /\ handlers \in Seq(Handlers) /\ IsInjective(handlers)
      /\ queue \in [Handlers -> Seq(LogEntry)] /\ closer \in [Closers -> LogCall \cup {Nothing}]
      /\ processor \in [Handlers -> {"none", "running"} \cup Ended] /\ shut \in [Handlers -> BOOLEAN]
  BY DEF LogInv, LogTypes
<1>3. h \in Handlers /\ i \in Nat
  BY <1>1, <1>2 DEF LogCall
<1>4. /\ handlers' \in Seq(Handlers) /\ IsInjective(handlers')
      /\ queue' \in [Handlers -> Seq(LogEntry)]
      /\ \A g \in Handlers : queue'[g] \in {queue[g], Append(queue[g], End)}
      /\ closer' \in [Closers -> LogCall \cup {Nothing}]
  <2>1. CASE i = 0
    <3>1. /\ handlers' = RemoveFirst(handlers, h)
          /\ closer' = [closer EXCEPT ![t] = Nothing] /\ UNCHANGED queue
      BY <2>1 DEF StopReturns
    <3>2. handlers' \in Seq(Handlers) /\ IsInjective(handlers')
      BY <1>2, <3>1, RemoveFirstRange
    <3> QED BY <1>2, <3>1, <3>2
  <2>2. CASE i # 0 /\ i <= Len(handlers)
    <3>1. Stopping(t, handlers[i], i + 1) /\ UNCHANGED handlers
      BY <2>2 DEF StopReturns
    <3>2. i \in 1..Len(handlers) /\ i + 1 \in Nat
      BY <1>2, <1>3, <2>2, LenProperties
    <3>3. handlers[i] \in Handlers
      BY <1>2, <3>2, ElementOfSeq
    <3>4. PICK g \in Handlers, n \in Nat : g = handlers[i] /\ n = i + 1
      BY <3>2, <3>3
    <3>5. Stopping(t, g, n)
      BY <3>1, <3>4
    <3>6. /\ queue' \in [Handlers -> Seq(LogEntry)]
          /\ \A x \in Handlers : queue'[x] \in {queue[x], Append(queue[x], End)}
          /\ closer' \in [Closers -> LogCall \cup {Nothing}]
      BY <1>2, <3>5, StoppingKeeps
    <3> QED BY <1>2, <3>1, <3>6
  <2>3. CASE i # 0 /\ ~(i <= Len(handlers))
    <3>1. /\ handlers' = <<>> /\ closer' = [closer EXCEPT ![t] = Nothing] /\ UNCHANGED queue
      BY <2>3 DEF StopReturns
    <3>2. handlers' \in Seq(Handlers) /\ IsInjective(handlers')
      BY <3>1, EmptySeq, EmptyRange
    <3> QED BY <1>2, <3>1, <3>2
  <2> QED BY <2>1, <2>2, <2>3
<1> HIDE DEF h, i
<1>5. /\ processor' \in [Handlers -> {"none", "running"} \cup Ended]
      /\ processor'[h] = "none" /\ processor[h] \in {"none", "ended"}
      /\ \A g \in Handlers : g # h => processor'[g] = processor[g]
  BY <1>1, <1>2, <1>3 DEF Stopped
<1>6. /\ shut' \in [Handlers -> BOOLEAN]
      /\ \A g \in Handlers : g # h => shut'[g] = shut[g]
  BY <1>1, <1>2, <1>3
<1>7. LogTypes'
  BY <1>1, <1>4, <1>5, <1>6 DEF LogInv, LogTypes
<1>8. ASSUME NEW g \in Handlers PROVE HandlerSound(g)'
  <2>1. processor'[g] = processor[g] \/ (processor'[g] = "none" /\ processor[g] \in {"none", "ended"})
    BY <1>5
  <2>2. shut'[g] => shut[g] \/ processor[g] \in {"none", "ended"}
    BY <1>5, <1>6
  <2> QED BY <1>1, <1>4, <2>1, <2>2, MarkedQueues
<1> QED BY <1>7, <1>8 DEF LogInv

\* stop() is cancelled.
LEMMA StopCancelledKeeps ==
  ASSUME LogInv, NEW t \in Closers, StopCancelled(t)
  PROVE  LogInv'
<1> DEFINE h == closer[t].handler
<1>1. /\ closer[t] # Nothing /\ processor[h] \in {"running", "cancelled"}
      /\ processor' = [processor EXCEPT ![h] = "cancelled"]
      /\ closer' = [closer EXCEPT ![t] = Nothing]
      /\ UNCHANGED <<handlers, queue, shut, file, size, backups, written, logged, due, dealt>>
  BY DEF StopCancelled, diskVars
<1>2. /\ queue \in [Handlers -> Seq(LogEntry)] /\ closer \in [Closers -> LogCall \cup {Nothing}]
      /\ processor \in [Handlers -> {"none", "running"} \cup Ended]
  BY DEF LogInv, LogTypes
<1>3. h \in Handlers
  BY <1>1, <1>2 DEF LogCall
<1> HIDE DEF h
<1>4. /\ processor' \in [Handlers -> {"none", "running"} \cup Ended]
      /\ \A g \in Handlers : processor'[g] = processor[g] \/ processor'[g] = "cancelled"
  BY <1>1, <1>2, <1>3 DEF Ended
<1>5. closer' \in [Closers -> LogCall \cup {Nothing}]
  BY <1>1, <1>2
<1>6. LogTypes'
  BY <1>1, <1>4, <1>5 DEF LogInv, LogTypes
<1>7. ASSUME NEW g \in Handlers PROVE HandlerSound(g)'
  <2>1. \A x \in Handlers : queue'[x] \in {queue[x], Append(queue[x], End)}
    BY <1>1
  <2> QED BY <1>1, <1>2, <1>4, <2>1, MarkedQueues
<1> QED BY <1>6, <1>7 DEF LogInv

\* The task of a handler takes a record or the end marker.
LEMMA ProcessRecordKeeps ==
  ASSUME LogInv, NEW h \in Handlers, ProcessRecord(h)
  PROVE  LogInv'
<1> DEFINE r == Head(queue[h])
           q == queue[h]
           w == written[h]
<1>1. /\ processor[h] = "running" /\ queue[h] # <<>>
      /\ queue' = [queue EXCEPT ![h] = Tail(@)]
      /\ UNCHANGED <<handlers, shut, closer, logged, due>>
  BY DEF ProcessRecord
<1>2. LogTypes /\ \A g \in Handlers : HandlerSound(g)
  BY DEF LogInv
<1>3. /\ queue \in [Handlers -> Seq(LogEntry)] /\ dealt \in [Handlers -> SUBSET Record]
      /\ processor \in [Handlers -> {"none", "running"} \cup Ended] /\ w \in Seq(Record)
      /\ \A g \in Handlers : Len(backups[g]) <= Backups
  BY <1>2 DEF LogTypes
<1>4. /\ q \in Seq(LogEntry) /\ q # <<>> /\ QueueOrder(q, w, logged)
      /\ DueSound(q, "running", due[h], dealt[h]) /\ (shut[h] => due[h] \subseteq dealt[h])
      /\ FilesSound(w, Files(file[h], backups[h]))
  BY <1>1, <1>2, <1>3 DEF HandlerSound
<1> HIDE DEF q, w
<1>5. /\ Head(q) \in LogEntry /\ Tail(q) \in Seq(LogEntry) /\ QueueOrder(Tail(q), w, logged)
      /\ Head(q) # End => \A j \in 1..Len(Tail(q)) : Tail(q)[j] # End => Head(q).id < Tail(q)[j].id
      /\ Head(q) # End => Head(q).id <= logged /\ \A x \in Range(w) : x.id < Head(q).id
      /\ \A d, e : DueSound(q, "running", d, e) =>
           IF Head(q) = End THEN d \subseteq e
           ELSE DueSound(Tail(q), "running", d, e \cup {Head(q)})
  BY <1>4, FirstTaken
<1>6. /\ queue' \in [Handlers -> Seq(LogEntry)] /\ queue'[h] = Tail(q)
      /\ \A g \in Handlers : g # h => queue'[g] = queue[g]
  BY <1>1, <1>3, <1>5 DEF q
<1>7. CASE r = End
  <2>1. /\ processor' = [processor EXCEPT ![h] = "ended"]
        /\ UNCHANGED <<file, size, backups, written, dealt>>
    BY <1>7 DEF ProcessRecord, diskVars
  <2>2. /\ processor' \in [Handlers -> {"none", "running"} \cup Ended] /\ processor'[h] = "ended"
        /\ \A g \in Handlers : g # h => processor'[g] = processor[g]
    BY <1>3, <2>1 DEF Ended
  <2>3. LogTypes'
    BY <1>1, <1>2, <1>6, <2>1, <2>2 DEF LogTypes
  <2>4. due[h] \subseteq dealt[h]
    BY <1>4, <1>5, <1>7 DEF q
  <2>5. HandlerSound(h)'
    <3>1. DueSound(Tail(q), "ended", due[h], dealt[h])
      BY <2>4 DEF DueSound
    <3> QED BY <1>1, <1>4, <1>5, <1>6, <2>1, <2>2, <2>4, <3>1 DEF HandlerSound, w
  <2>6. \A g \in Handlers : g # h => HandlerSound(g)'
    BY <1>1, <1>2, <1>6, <2>1, <2>2 DEF HandlerSound
  <2> QED BY <2>3, <2>5, <2>6 DEF LogInv
<1>8. CASE r # End
  <2>1. /\ WriteRecord(h, r) /\ dealt' = [dealt EXCEPT ![h] = @ \cup {r}] /\ UNCHANGED processor
    BY <1>8 DEF ProcessRecord
  <2>2. /\ r \in Record /\ r.id <= logged /\ \A x \in Range(w) : x.id < r.id
        /\ \A j \in 1..Len(Tail(q)) : Tail(q)[j] # End => r.id < Tail(q)[j].id
    BY <1>5, <1>8 DEF q, LogEntry
  <2>3. DueSound(Tail(q), "running", due[h], dealt[h] \cup {r})
    BY <1>4, <1>5, <1>8 DEF q
  <2> HIDE DEF r
  <2>4. /\ file' \in [Handlers -> Seq(Record) \cup {Nothing}] /\ size' \in [Handlers -> Nat]
        /\ backups' \in [Handlers -> Seq(Seq(Record))] /\ written' \in [Handlers -> Seq(Record)]
        /\ Len(backups'[h]) <= Backups
        /\ written'[h] \in {w, Append(w, r)}
        /\ \A g \in Handlers : g # h => /\ file'[g] = file[g] /\ backups'[g] = backups[g]
                                        /\ written'[g] = written[g]
        /\ FilesSound(written'[h], Files(file'[h], backups'[h]))
    BY <1>2, <1>4, <2>1, <2>2, DiskKept DEF w
  <2>5. /\ dealt' \in [Handlers -> SUBSET Record] /\ dealt'[h] = dealt[h] \cup {r}
        /\ \A g \in Handlers : g # h => dealt'[g] = dealt[g]
    BY <1>3, <2>1, <2>2
  <2>6. LogTypes'
    <3>1. \A g \in Handlers : Len(backups'[g]) <= Backups
      BY <1>3, <2>4
    <3> QED BY <1>1, <1>2, <1>6, <2>1, <2>4, <2>5, <3>1 DEF LogTypes
  <2>7. HandlerSound(h)'
    <3>1. QueueOrder(Tail(q), Append(w, r), logged)
      BY <1>3, <1>5, <2>2, WriteKeepsOrder
    <3>2. QueueOrder(Tail(q), written'[h], logged)
      BY <1>5, <2>4, <3>1
    <3> QED BY <1>1, <1>4, <1>6, <2>1, <2>3, <2>4, <2>5, <3>2 DEF HandlerSound
  <2>8. \A g \in Handlers : g # h => HandlerSound(g)'
    BY <1>1, <1>2, <1>6, <2>1, <2>4, <2>5 DEF HandlerSound
  <2> QED BY <2>6, <2>7, <2>8 DEF LogInv
<1> QED BY <1>7, <1>8

\* An empty queue.
LEMMA EmptyQueue ==
  ASSUME NEW w, NEW n, \A r \in Range(w) : r.id <= n
  PROVE  QueueOrder(<<>>, w, n) /\ DueSound(<<>>, "none", {}, {})
<1>1. Len(<<>>) = 0
  BY EmptySeq
<1> QED BY <1>1 DEF QueueOrder, DueSound

\* The program starts again.
LEMMA RestartKeeps ==
  ASSUME LogInv, Restart
  PROVE  LogInv'
<1>1. /\ handlers' = <<>>
      /\ queue' = [h \in Handlers |-> <<>>] /\ processor' = [h \in Handlers |-> "none"]
      /\ shut' = [h \in Handlers |-> FALSE] /\ size' = [h \in Handlers |-> 0]
      /\ closer' = [t \in Closers |-> Nothing]
      /\ due' = [h \in Handlers |-> {}] /\ dealt' = [h \in Handlers |-> {}]
      /\ UNCHANGED <<file, backups, logged, written>>
  BY DEF Restart
<1>2. handlers' \in Seq(Handlers) /\ IsInjective(handlers') /\ <<>> \in Seq(LogEntry)
  BY <1>1, EmptySeq, EmptyRange
<1>3. LogTypes'
  BY <1>1, <1>2 DEF LogInv, LogTypes
<1>4. ASSUME NEW h \in Handlers PROVE HandlerSound(h)'
  <2>1. \A r \in Range(written[h]) : r.id <= logged
    BY DEF LogInv, HandlerSound, QueueOrder
  <2>2. QueueOrder(<<>>, written[h], logged) /\ DueSound(<<>>, "none", {}, {})
    BY <2>1, EmptyQueue
  <2> QED BY <1>1, <2>2 DEF LogInv, HandlerSound
<1> QED BY <1>3, <1>4 DEF LogInv

\* Nothing is logged yet.
LEMMA LogInitially == LogInit => LogInv
<1> SUFFICES ASSUME LogInit PROVE LogInv
  OBVIOUS
<1>1. /\ handlers = <<>> /\ logged = 0
      /\ queue = [h \in Handlers |-> <<>>] /\ processor = [h \in Handlers |-> "none"]
      /\ shut = [h \in Handlers |-> FALSE] /\ file = [h \in Handlers |-> Nothing]
      /\ size = [h \in Handlers |-> 0] /\ backups = [h \in Handlers |-> <<>>]
      /\ closer = [t \in Closers |-> Nothing]
      /\ due = [h \in Handlers |-> {}] /\ dealt = [h \in Handlers |-> {}]
      /\ written = [h \in Handlers |-> <<>>]
  BY DEF LogInit
<1>2. /\ <<>> \in Seq(Handlers) /\ IsInjective(<<>>) /\ <<>> \in Seq(LogEntry) /\ <<>> \in Seq(Record)
      /\ <<>> \in Seq(Seq(Record)) /\ Len(<<>>) = 0 /\ Range(<<>>) = {}
  BY EmptySeq, EmptyRange
<1>3. 0 <= Backups
  BY LogAssumption DEF Backups
<1>4. LogTypes
  BY <1>1, <1>2, <1>3 DEF LogTypes
<1>5. QueueOrder(<<>>, <<>>, 0) /\ DueSound(<<>>, "none", {}, {})
  BY <1>2, EmptyQueue
<1>6. FilesSound(<<>>, Files(Nothing, <<>>))
  <2> DEFINE fs == Files(Nothing, <<>>)
  <2>1. Len(fs) = 1 /\ fs[1] = <<>>
    <3>1. PICK b \in Seq(Seq(Record)) : b = <<>> /\ Len(b) = 0
      BY <1>2
    <3>2. Len(Files(Nothing, b)) = Len(b) + 1 /\ Files(Nothing, b)[1] = <<>>
      BY FilesAre
    <3> QED BY <3>1, <3>2
  <2> HIDE DEF fs
  <2>2. Rising(<<>>)
    BY <1>2 DEF Rising
  <2>3. \A i \in 1..Len(fs) : i = 1
    BY <2>1
  <2> QED BY <1>2, <2>1, <2>2, <2>3 DEF FilesSound, fs
<1>7. \A h \in Handlers : HandlerSound(h)
  BY <1>1, <1>5, <1>6 DEF HandlerSound
<1> QED BY <1>4, <1>7 DEF LogInv

\* Every step keeps the invariant.
LEMMA LogStep ==
  ASSUME LogInv, [LogNext]_logVars
  PROVE  LogInv'
<1>1. CASE UNCHANGED logVars
  BY <1>1 DEF logVars, LogInv, LogTypes, HandlerSound
<1>2. ASSUME NEW t \in Closers, Close(t) PROVE LogInv'
  <2>1. /\ handlers # <<>> /\ Stopping(t, handlers[1], 2)
        /\ UNCHANGED <<handlers, processor, shut, diskVars, logged, due, dealt>>
    BY <1>2 DEF Close
  <2>2. handlers[1] \in Handlers
    BY <2>1, TailRange DEF LogInv, LogTypes
  <2> QED BY <2>1, <2>2, CallStarts
<1>3. ASSUME NEW t \in Closers, NEW h \in Handlers, RemoveHandler(t, h) PROVE LogInv'
  <2>1. /\ Stopping(t, h, 0)
        /\ UNCHANGED <<handlers, processor, shut, diskVars, logged, due, dealt>>
    BY <1>3 DEF RemoveHandler
  <2> QED BY <2>1, CallStarts
<1> QED
  BY <1>1, <1>2, <1>3, LogKeeps, AddHandlerKeeps, ProcessRecordKeeps, StopReturnsKeeps,
     StopCancelledKeeps, RestartKeeps
  DEF LogNext

\* What the invariant says of the handlers and their files.
LEMMA LogConsequence == LogInv => LogTypeOK /\ LogKept
<1> SUFFICES ASSUME LogInv PROVE LogTypeOK /\ LogKept
  OBVIOUS
<1>1. LogTypeOK
  BY DEF LogInv, LogTypes, LogTypeOK, LogEntry
<1>2. ASSUME NEW h \in Handlers
      PROVE  LET files == Files(file[h], backups[h])
                 kept == UNION {Range(files[i]) : i \in 1..Len(files)}
             IN /\ shut[h] => due[h] \subseteq dealt[h]
                /\ Rising(written[h]) /\ \A i \in 1..Len(files) : Rising(files[i])
                /\ \A i, j \in 1..Len(files) : i < j =>
                     \A r \in Range(files[i]), q \in Range(files[j]) : q.id < r.id
                /\ kept \subseteq Range(written[h])
                /\ \A r \in Range(written[h]), q \in kept : q.id < r.id => r \in kept
  <2> DEFINE files == Files(file[h], backups[h])
             w == written[h]
  <2>1. FilesSound(w, files) /\ (shut[h] => due[h] \subseteq dealt[h])
    BY DEF LogInv, HandlerSound
  <2> HIDE DEF files, w
  <2> DEFINE kept == UNION {Range(files[i]) : i \in 1..Len(files)}
  <2>2. kept \subseteq Range(w)
    BY <2>1 DEF FilesSound
  <2>3. ASSUME NEW r \in Range(w), NEW q \in kept, q.id < r.id PROVE r \in kept
    <3>1. PICK i \in 1..Len(files) : q \in Range(files[i])
      OBVIOUS
    <3>2. PICK j \in 1..Len(files) : r \in Range(files[j])
      BY <2>1, <2>3, <3>1 DEF FilesSound
    <3> QED BY <3>2
  <2>4. /\ Rising(w) /\ \A i \in 1..Len(files) : Rising(files[i])
        /\ \A i, j \in 1..Len(files) : i < j =>
             \A r \in Range(files[i]), q \in Range(files[j]) : q.id < r.id
    BY <2>1 DEF FilesSound
  <2> QED BY <2>1, <2>2, <2>3, <2>4 DEF files, w
<1> QED BY <1>1, <1>2 DEF LogKept, Files

\* A handler that is closed has dealt with what it took before it was told to stop,
\* and its files hold the last records it wrote: AsyncRotatingFileHandler.
THEOREM HandlersKeepRecords == LogSpec => []LogKept
<1> QED BY LogInitially, LogStep, LogConsequence, PTL DEF LogSpec

-----------------------------------------------------------------------------
(* The composition. *)

\* Every component keeps its invariant, the ones that do not run included.
ServicesInv ==
  /\ part \in Parts
  /\ CacheInv /\ LogInv /\ MqttInv /\ ObsInv /\ PipeInv /\ BufferInv /\ PublisherInv

\* Each component starts where its own specification does.
LEMMA ServicesInitially == Init => ServicesInv
<1> SUFFICES ASSUME Init PROVE ServicesInv
  OBVIOUS
<1>1. /\ part \in Parts
      /\ CacheInit /\ LogInit /\ MqttInit /\ ObsInit /\ PipeInit /\ BufferInit /\ PublisherInit
  BY DEF Init
<1> QED BY <1>1, CacheInitially, LogInitially, MqttInitially, ObsInitially, PipeInitially,
           BufferInitially, PublisherInitially DEF ServicesInv

\* A step is one of the component that runs, and a stutter of the others.
LEMMA ServicesStep == ServicesInv /\ [Next]_vars => ServicesInv'
<1> SUFFICES ASSUME ServicesInv, [Next]_vars PROVE ServicesInv'
  OBVIOUS
<1>1. /\ part' = part
      /\ [CacheNext]_cacheVars /\ [LogNext]_logVars /\ [MqttNext]_mqttVars /\ [ObsNext]_obsVars
      /\ [PipeNext]_pipeVars /\ [BufferNext]_bufferVars /\ [PublisherNext]_publisherVars
  BY Zenon DEF Next, vars
<1> QED BY <1>1, CacheStep, LogStep, MqttStep, ObsStep, PipeStep, BufferStep, PublisherStep
        DEF ServicesInv

\* In every reachable state every component keeps its invariant.
LEMMA ServicesKeep == Spec => []ServicesInv
<1> QED BY ServicesInitially, ServicesStep, PTL DEF Spec

\* The types of the components follow from their invariants.
LEMMA ServicesTypes == ServicesInv => TypeOK
<1> SUFFICES ASSUME ServicesInv PROVE TypeOK
  OBVIOUS
<1>1. CacheTypeOK
  BY CacheConsequence DEF ServicesInv
<1>2. LogTypeOK
  BY DEF ServicesInv, LogInv, LogTypes, LogEntry, LogTypeOK
<1>3. MqttTypeOK
  BY MqttConsequence DEF ServicesInv
<1>4. ObsTypeOK
  <2>1. ObsTypes /\ ReactSound
    BY DEF ServicesInv, ObsInv
  <2>2. ASSUME NEW r \in reacting, NEW q \in reacting, r.by = q.by, r.by # Absent
        PROVE  r = q
    <3>1. r.change = q.change
      BY <2>1, <2>2 DEF ReactSound
    <3>2. /\ r \in [change : Announcement, by : Setters \cup {Absent}]
          /\ q \in [change : Announcement, by : Setters \cup {Absent}]
      BY <2>1 DEF ObsTypes
    <3> QED BY <2>2, <3>1, <3>2
  <2> QED BY <2>1, <2>2 DEF ObsTypes, ObsTypeOK, AllSetters, CellContents
<1>5. PipeTypeOK
  <2>1. /\ PipeTypes /\ (running <=> owner.phase = "inside")
        /\ owner.phase = "inside" => \A s \in Stages : stage[s] = "ready"
    BY DEF ServicesInv, PipeInv
  <2> QED BY <2>1 DEF PipeTypes, PipeOwner, PipeJob, PipeTypeOK
<1>6. BufferTypeOK
  BY DEF ServicesInv, BufferInv, BufferTypes, Room, Contents, BufferTypeOK
<1>7. PublisherTypeOK
  BY PublisherConsequence DEF ServicesInv
<1> QED BY <1>1, <1>2, <1>3, <1>4, <1>5, <1>6, <1>7 DEF ServicesInv, TypeOK

\* The states of the services have their types: see TypeOK of MCServices.
THEOREM ServicesTypesCorrect == Spec => []TypeOK
<1> QED BY ServicesTypes, ServicesKeep, PTL

\* What goes into a pipeline with batches comes out once: see BatchedOnce.
THEOREM PipelinesLoseNothing == Spec => []BatchedOnce
<1>1. ServicesInv => BatchedOnce
  BY PipeConsequence DEF ServicesInv
<1> QED BY <1>1, ServicesKeep, PTL

\* The publisher, the observables, the logger and the MQTT client among the services: see
\* PublishedInOrder, ChangesChain, LogKept and PacketsFramed.
THEOREM ServicesKeepOrder ==
  /\ Spec => []PublishedInOrder
  /\ Spec => []ChangesChain
  /\ Spec => []LogKept
  /\ Spec => []PacketsFramed
<1>1. ServicesInv => PublishedInOrder /\ ChangesChain /\ LogKept /\ PacketsFramed
  BY PublisherConsequence, ObsConsequence, LogConsequence, MqttConsequence DEF ServicesInv
<1>2. Spec => []PublishedInOrder
  BY <1>1, ServicesKeep, PTL
<1>3. Spec => []ChangesChain
  BY <1>1, ServicesKeep, PTL
<1>4. Spec => []LogKept
  BY <1>1, ServicesKeep, PTL
<1>5. Spec => []PacketsFramed
  BY <1>1, ServicesKeep, PTL
<1> QED BY <1>2, <1>3, <1>4, <1>5
=============================================================================
