---------------------------- MODULE ChannelProofs ----------------------------
(***************************************************************************)
(* Theorems about Channel, for any subscribers, topics, buffer sizes and   *)
(* numbers of messages: every publish() reaches whom it must, in order,    *)
(* and a close() reaches everyone.                                         *)
(*                                                                         *)
(* The invariant is stated for a holder `o' of the lock, a line `w', the   *)
(* flags and counters that a call changes when it is made, and a registry  *)
(* `S', `T': a step of the model may put a call in the line, grant it the  *)
(* lock and let it send, and the invariant is then carried over each of    *)
(* these in turn.                                                          *)
(***************************************************************************)
EXTENDS Channel, SequenceLemmas

Ended(s) == s \in subClosed \/ None \in Range(buffer[s])
InLine(o, w) == Range(w) \cup (IF o = None THEN {} ELSE {o.call})
Reached(t, S, T) == IF t = AllTopics THEN S ELSE T[t]

\* Messages by number, then end markers.
Ordered(b) == \A i, j \in 1..Len(b) : i < j =>
                b[j] = None \/ (b[i] # None /\ b[i] < b[j])

Types(w, cl, ca, se, pr, S, T) ==
  /\ bufferSize \in BufferSizes /\ limit \in Limits
  /\ cl \in BOOLEAN
  /\ S \subseteq Subs /\ T \in [Topics -> SUBSET Subs]
  /\ joined \subseteq ca
  /\ buffer \in [Subs -> Seq(Msgs \cup {None})] /\ subClosed \subseteq Subs
  /\ w \in Seq(Calls)
  /\ se \in 0..MaxMsgs /\ ca \subseteq Subs
  /\ pr \in [Msgs -> SUBSET Subs] /\ got \in [Subs -> SUBSET Msgs]
  /\ aborted \subseteq Calls

\* The registry; nothing is in the buffer of a subscriber that is not returned.
Registered(S, T) ==
  /\ IsFiniteSet(S) /\ Cardinality(S) <= limit
  /\ \A t \in Topics : T[t] \subseteq S
  /\ S \subseteq joined
  /\ \A s \in Subs \ joined : ~Ended(s)

\* Only an unsubscribe() joins the line behind a close(); messages are in line
\* in the order of their calls.
Line(w, cl, ca, se) ==
  /\ \A i \in 1..Len(w) :
       /\ w[i].kind = "subscribe" => w[i].sub \in ca \ joined
       /\ w[i].kind = "unsubscribe" => w[i].sub \in joined
       /\ w[i].kind = "publish" => w[i].msg <= se
       /\ w[i].kind = "close" => cl
  /\ \A i, j \in 1..Len(w) : i < j =>
       /\ w[i].kind = "close" => w[j].kind = "unsubscribe"
       /\ w[i].kind = "publish" /\ w[j].kind = "publish" => w[i].msg < w[j].msg
       /\ w[i].kind = "subscribe" /\ w[j].kind = "subscribe" => w[i].sub # w[j].sub

\* What is true of the call that is sending.
Sending(o, w, cl, se, S) ==
  o # None =>
    /\ o.call \in Calls /\ o.to \subseteq joined /\ o.call.kind # "subscribe"
    /\ o.call.kind = "publish" =>
         /\ o.msg = o.call.msg /\ o.msg \in Msgs /\ o.msg <= se /\ o.to \subseteq S
         /\ \A i \in 1..Len(w) : w[i].kind = "publish" => o.msg < w[i].msg
    /\ o.call.kind # "publish" => o.msg = None
    /\ o.call.kind = "unsubscribe" => o.to \cap S = {}
    /\ o.call.kind = "close" =>
         /\ cl /\ o.to \subseteq S /\ \A s \in S : Ended(s) \/ s \in o.to
         /\ \A i \in 1..Len(w) : w[i].kind = "unsubscribe"

\* The buffers, and what may still be put in them: who has an end marker gets
\* no message any more.
Streams(o, w, cl, se, S) ==
  \A s \in Subs :
    /\ Ordered(buffer[s])
    /\ s \in subClosed => Range(buffer[s]) \subseteq {None}
    /\ \A e \in Range(buffer[s]) \ {None} :
         /\ e <= se
         /\ \A i \in 1..Len(w) : w[i].kind = "publish" => e < w[i].msg
         /\ o # None /\ o.call.kind = "publish" => e <= o.msg /\ (s \in o.to => e < o.msg)
    /\ Ended(s) /\ s \in S => cl /\ \A c \in InLine(o, w) : c.kind \in {"unsubscribe", "close"}

\* Who must be reached by a call in line is registered, and stays so until then.
LinePromises(w, pr, S, T) ==
  \A i \in 1..Len(w) : w[i].kind = "publish" => \A s \in pr[w[i].msg] :
    /\ s \in Reached(w[i].topic, S, T)
    /\ \A j \in 1..i - 1 : w[j].kind = "unsubscribe" => w[j].sub # s

\* Who must be reached is registered as long as the call is in line, is served
\* or to be served when it sends, and has been served when it returns.
Promises(o, w, se, pr, S, T) ==
  /\ \A m \in 1..se : (\A c \in InLine(o, w) \cup aborted : c.kind = "publish" => c.msg # m)
                        => \A s \in pr[m] : m \in got[s]
  /\ o # None /\ o.call.kind = "publish" => \A s \in pr[o.msg] : s \in o.to \/ o.msg \in got[s]
  /\ LinePromises(w, pr, S, T)

\* close() is under way, was cancelled or is done; who has left is told so.
Closing(o, w, cl, S) ==
  /\ cl => \/ \E c \in InLine(o, w) \cup aborted : c.kind = "close"
           \/ S = {} /\ \A c \in InLine(o, w) : c.kind = "unsubscribe"
  /\ \A s \in joined \ S : \/ Ended(s)
                           \/ o # None /\ o.call.kind = "unsubscribe" /\ s \in o.to
                           \/ \E c \in aborted : c.kind = "unsubscribe"

Facts(o, w, cl, ca, se, pr, S, T) ==
  /\ Types(w, cl, ca, se, pr, S, T) /\ Registered(S, T)
  /\ Line(w, cl, ca, se) /\ Sending(o, w, cl, se, S) /\ Streams(o, w, cl, se, S)
  /\ Promises(o, w, se, pr, S, T) /\ Closing(o, w, cl, S)

ChannelInv ==
  /\ Facts(op, waiting, closed, called, sent, promised, subscribers, topics)
  /\ op \in Holders \cup {None} /\ (op # None => op.on \in op.to)
  /\ unsubs \in [Subs -> 0..MaxUnsubs]

-----------------------------------------------------------------------------
(* Sequences. *)

\* A later message, or an end marker, may be put behind what is ordered.
LEMMA OrderedAppend ==
  ASSUME NEW b \in Seq(Msgs \cup {None}), Ordered(b), NEW e \in Msgs \cup {None},
         e = None \/ \A x \in Range(b) : x # None /\ x < e
  PROVE  Ordered(Append(b, e))
<1>1. /\ Len(Append(b, e)) = Len(b) + 1 /\ Len(b) \in Nat /\ Append(b, e)[Len(b) + 1] = e
      /\ \A i \in 1..Len(b) : Append(b, e)[i] = b[i] /\ b[i] \in Range(b)
  BY AppendProperties, LenProperties, RangeByIndex
<1> DEFINE a == Append(b, e)
<1> HIDE DEF a
<1> SUFFICES ASSUME NEW i \in 1..Len(a), NEW j \in 1..Len(a), i < j
             PROVE  a[j] = None \/ (a[i] # None /\ a[i] < a[j])
  BY DEF Ordered, a
<1>2. i \in 1..Len(b) /\ a[i] = b[i] /\ b[i] \in Range(b)
  BY <1>1 DEF a
<1>3. CASE j \in 1..Len(b)
  BY <1>1, <1>2, <1>3 DEF Ordered, a
<1>4. CASE j = Len(b) + 1
  BY <1>1, <1>2, <1>4 DEF a
<1> QED BY <1>1, <1>3, <1>4 DEF a

\* What is behind the head stays ordered, and is all end markers if the head is one.
LEMMA OrderedTail ==
  ASSUME NEW b \in Seq(Msgs \cup {None}), Ordered(b), b # <<>>
  PROVE  Ordered(Tail(b)) /\ (Head(b) = None => Range(Tail(b)) \subseteq {None})
<1> DEFINE t == Tail(b)
<1>1. /\ t \in Seq(Msgs \cup {None}) /\ Len(t) = Len(b) - 1 /\ Len(b) \in Nat \ {0}
      /\ Head(b) = b[1] /\ \A i \in 1..Len(t) : t[i] = b[i + 1]
  BY HeadTailProperties, LenProperties, EmptySeq
<1> HIDE DEF t
<1>2. Ordered(t)
  BY <1>1 DEF Ordered
<1>3. ASSUME Head(b) = None, NEW x \in Range(t) PROVE x = None
  <2>1. PICK i \in 1..Len(t) : t[i] = x
    BY <1>1, RangeByIndex
  <2>2. 1 \in 1..Len(b) /\ i + 1 \in 1..Len(b) /\ 1 < i + 1 /\ b[1] = None
    BY <1>1, <1>3
  <2>3. b[i + 1] = None
    BY <2>2 DEF Ordered
  <2> QED BY <1>1, <2>1, <2>3
<1> QED BY <1>2, <1>3 DEF t

\* Everybody in line, and the line without its i-th call.
LEMMA LineMembers ==
  ASSUME NEW w \in Seq(Calls)
  PROVE  /\ \A i \in 1..Len(w) : w[i] \in Calls /\ w[i] \in Range(w)
         /\ \A c \in Range(w) : \E i \in 1..Len(w) : w[i] = c
BY RangeByIndex

\* A call leaves the line at any place.
LEMMA LineWithout ==
  ASSUME NEW w \in Seq(Calls), NEW i \in 1..Len(w)
  PROVE  /\ RemoveAt(w, i) \in Seq(Calls) /\ w[i] \in Calls
         /\ \A j \in 1..Len(RemoveAt(w, i)) : \E k \in 1..Len(w) :
              RemoveAt(w, i)[j] = w[k] /\ k # i /\ k = (IF j < i THEN j ELSE j + 1)
         /\ Range(w) = Range(RemoveAt(w, i)) \cup {w[i]}
<1> DEFINE v == RemoveAt(w, i)
<1>1. /\ v \in Seq(Calls) /\ Len(v) = Len(w) - 1 /\ Len(w) \in Nat
      /\ \A j \in 1..Len(w) - 1 : v[j] = IF j < i THEN w[j] ELSE w[j + 1]
  BY RemoveAtProperties, LenProperties
<1> HIDE DEF v
<1>2. \A j \in 1..Len(v) : \E k \in 1..Len(w) :
        v[j] = w[k] /\ k # i /\ k = (IF j < i THEN j ELSE j + 1)
  BY <1>1
<1>3. Range(v) \subseteq Range(w) /\ w[i] \in Range(w) /\ w[i] \in Calls
  <2>1. \A x \in Range(v) : \E j \in 1..Len(v) : v[j] = x
    BY <1>1, RangeByIndex
  <2> QED BY <1>2, <2>1, LineMembers
<1>4. ASSUME NEW x \in Range(w), x # w[i] PROVE x \in Range(v)
  <2>1. PICK k \in 1..Len(w) : w[k] = x
    BY LineMembers
  <2>2. PICK j \in 1..Len(v) : v[j] = w[k]
    <3>1. CASE k < i
      <4>1. k \in 1..Len(v) /\ v[k] = w[k]
        BY <1>1, <3>1
      <4> QED BY <4>1
    <3>2. CASE k > i
      <4>1. k - 1 \in 1..Len(v) /\ v[k - 1] = w[k]
        BY <1>1, <3>2
      <4> QED BY <4>1
    <3>3. k # i
      BY <1>4, <2>1
    <3> QED BY <3>1, <3>2, <3>3
  <2> QED BY <1>1, <2>1, <2>2, RangeByIndex
<1> QED BY <1>1, <1>2, <1>3, <1>4 DEF v

\* The first of the line gets the lock.
LEMMA LineTail ==
  ASSUME NEW w \in Seq(Calls), w # <<>>
  PROVE  /\ Tail(w) = RemoveAt(w, 1) /\ 1 \in 1..Len(w) /\ Head(w) = w[1]
<1>1. Len(w) \in Nat \ {0} /\ Head(w) = w[1]
  BY HeadTailProperties, LenProperties, EmptySeq
<1>2. 1 \in 1..Len(w)
  BY <1>1
<1>3. /\ RemoveAt(w, 1) \in Seq(Calls) /\ Len(RemoveAt(w, 1)) = Len(w) - 1
      /\ \A j \in 1..Len(w) - 1 : RemoveAt(w, 1)[j] = w[j + 1]
  BY <1>1, <1>2, RemoveAtProperties
<1>4. /\ Tail(w) \in Seq(Calls) /\ Len(Tail(w)) = Len(w) - 1
      /\ \A j \in 1..Len(Tail(w)) : Tail(w)[j] = w[j + 1]
  BY HeadTailProperties
<1>5. Tail(w) = RemoveAt(w, 1)
  <2> DEFINE a == Tail(w)
             b == RemoveAt(w, 1)
  <2>1. a \in Seq(Calls) /\ b \in Seq(Calls) /\ Len(a) = Len(b) /\ \A j \in 1..Len(a) : a[j] = b[j]
    BY <1>3, <1>4
  <2> HIDE DEF a, b
  <2>2. a = b
    BY <2>1, SeqEqual
  <2> QED BY <2>2 DEF a, b
<1> QED BY <1>1, <1>2, <1>5

-----------------------------------------------------------------------------
(* A call is made: it joins the line. *)

\* What a call that is made now may find, and changes.
Entering(call, cl, ca, se, pr) ==
  /\ call \in Calls /\ cl \in BOOLEAN /\ ca \subseteq Subs /\ called \subseteq ca
  /\ se \in 0..MaxMsgs /\ pr \in [Msgs -> SUBSET Subs] /\ \A m \in 1..sent : pr[m] = promised[m]
  /\ call.kind = "subscribe" => ~closed /\ call.sub \in ca \ called
  /\ call.kind = "unsubscribe" => call.sub \in joined
  /\ IF call.kind = "publish"
     THEN /\ ~closed /\ se = sent + 1 /\ call.msg = se
          /\ \A s \in pr[se] : /\ s \in Audience(call.topic)
                               /\ \A c \in Pending : c.kind = "unsubscribe" => c.sub # s
     ELSE se = sent
  /\ IF call.kind = "close" THEN ~closed /\ cl ELSE cl = closed

\* A call in line keeps the invariant.
LEMMA EnterKeeps ==
  ASSUME ChannelInv, NEW call, NEW cl, NEW ca, NEW se, NEW pr, Entering(call, cl, ca, se, pr)
  PROVE  Facts(op, Append(waiting, call), cl, ca, se, pr, subscribers, topics)
<1> DEFINE w == Append(waiting, call)
           n == Len(waiting)
<1>1. /\ Types(waiting, closed, called, sent, promised, subscribers, topics)
      /\ Registered(subscribers, topics) /\ Line(waiting, closed, called, sent)
      /\ Sending(op, waiting, closed, sent, subscribers)
      /\ Streams(op, waiting, closed, sent, subscribers)
      /\ Promises(op, waiting, sent, promised, subscribers, topics)
      /\ Closing(op, waiting, closed, subscribers)
  BY DEF ChannelInv, Facts
<1>2. /\ call \in Calls /\ cl \in BOOLEAN /\ ca \subseteq Subs /\ called \subseteq ca
      /\ se \in 0..MaxMsgs /\ pr \in [Msgs -> SUBSET Subs] /\ waiting \in Seq(Calls)
      /\ joined \subseteq called /\ sent \in 0..MaxMsgs /\ MaxMsgs \in Nat /\ closed \in BOOLEAN
  BY <1>1, ChannelAssumption DEF Entering, Types
<1>3. /\ w \in Seq(Calls) /\ Len(w) = n + 1 /\ n \in Nat /\ w[n + 1] = call
      /\ \A i \in 1..n : w[i] = waiting[i] /\ waiting[i] \in Range(waiting) /\ waiting[i] \in Calls
      /\ Range(w) = Range(waiting) \cup {call}
  BY <1>2, AppendProperties, AppendRange, LenProperties, LineMembers
<1> HIDE DEF w, n
<1>3a. n = Len(waiting)
  BY DEF n
<1>4. /\ sent <= se /\ closed => cl
      /\ call.kind = "publish" => /\ ~closed /\ se = sent + 1 /\ call.msg = se
                                  /\ se \in Msgs
      /\ call.kind # "publish" => se = sent
      /\ call.kind \in {"subscribe", "close"} => ~closed
      /\ call.kind = "close" => cl
      /\ call.kind # "close" => cl = closed
  BY <1>2 DEF Entering, Msgs
<1>5. Types(w, cl, ca, se, pr, subscribers, topics)
  BY <1>1, <1>2, <1>3 DEF Types
<1>6. Line(w, cl, ca, se)
  <2>1. ASSUME NEW i \in 1..Len(w)
        PROVE  /\ w[i].kind = "subscribe" => w[i].sub \in ca \ joined
               /\ w[i].kind = "unsubscribe" => w[i].sub \in joined
               /\ w[i].kind = "publish" => w[i].msg <= se
               /\ w[i].kind = "close" => cl
    <3>1. CASE i = n + 1
      BY <1>2, <1>3, <1>4, <3>1 DEF Entering
    <3>2. CASE i \in 1..n
      <4>1. w[i].kind = "publish" => w[i].msg \in Nat
        BY <1>3, <3>2 DEF Calls, Msgs
      <4> QED BY <1>1, <1>2, <1>3, <1>3a, <1>4, <3>2, <4>1 DEF Line
    <3> QED BY <1>3, <3>1, <3>2
  <2>2. ASSUME NEW i \in 1..Len(w), NEW j \in 1..Len(w), i < j
        PROVE  /\ w[i].kind = "close" => w[j].kind = "unsubscribe"
               /\ w[i].kind = "publish" /\ w[j].kind = "publish" => w[i].msg < w[j].msg
               /\ w[i].kind = "subscribe" /\ w[j].kind = "subscribe" => w[i].sub # w[j].sub
    <3>1. i \in 1..n
      BY <1>3, <2>2
    <3>2. CASE j = n + 1
      <4>1. w[i].kind = "publish" => w[i].msg \in Nat /\ w[i].msg <= sent
        BY <1>1, <1>3, <1>3a, <3>1 DEF Line, Calls, Msgs
      <4>2. w[i].kind = "close" => closed
        BY <1>1, <1>3, <1>3a, <3>1 DEF Line
      <4>3. w[j].kind = "unsubscribe" \/ ~closed
        <5>1. call.kind \in {"subscribe", "unsubscribe", "publish", "close"}
          BY <1>2 DEF Calls
        <5> QED BY <1>3, <1>4, <3>2, <5>1
      <4>4. w[i].kind = "subscribe" => w[i].sub \in called
        BY <1>1, <1>3, <1>3a, <3>1 DEF Line
      <4>5. w[j].kind = "subscribe" => w[j].sub \notin called
        BY <1>3, <3>2 DEF Entering
      <4>6. w[i].kind = "publish" /\ w[j].kind = "publish" => w[i].msg < w[j].msg
        BY <1>2, <1>3, <1>4, <3>2, <4>1
      <4> QED BY <4>2, <4>3, <4>4, <4>5, <4>6
    <3>3. CASE j \in 1..n
      BY <1>1, <1>3, <1>3a, <2>2, <3>1, <3>3 DEF Line
    <3> QED BY <1>3, <3>2, <3>3
  <2> QED BY <2>1, <2>2 DEF Line
<1>7. Sending(op, w, cl, se, subscribers)
  <2> SUFFICES ASSUME op # None PROVE Sending(op, w, cl, se, subscribers)
    BY DEF Sending
  <2>1. ASSUME op.call.kind = "publish"
        PROVE  op.msg <= se /\ \A i \in 1..Len(w) : w[i].kind = "publish" => op.msg < w[i].msg
    <3>1. op.msg \in Nat /\ op.msg <= sent
      BY <1>1, <2>1 DEF Sending, Msgs
    <3>2. \A i \in 1..n : w[i].kind = "publish" => op.msg < w[i].msg
      BY <1>1, <1>3, <1>3a, <2>1 DEF Sending
    <3>3. w[n + 1].kind = "publish" => op.msg < w[n + 1].msg
      BY <1>2, <1>3, <1>4, <3>1
    <3>4. op.msg <= se
      BY <1>2, <1>4, <3>1
    <3> QED BY <1>3, <3>2, <3>3, <3>4
  <2>2. ASSUME op.call.kind = "close"
        PROVE  cl /\ \A i \in 1..Len(w) : w[i].kind = "unsubscribe"
    <3>1. closed
      BY <1>1, <2>2 DEF Sending
    <3>2. \A i \in 1..n : w[i].kind = "unsubscribe"
      BY <1>1, <1>3, <1>3a, <2>2 DEF Sending
    <3>3. w[n + 1].kind = "unsubscribe"
      <4>1. call.kind \in {"subscribe", "unsubscribe", "publish", "close"}
        BY <1>2 DEF Calls
      <4> QED BY <1>3, <1>4, <3>1, <4>1
    <3> QED BY <1>3, <1>4, <3>1, <3>2, <3>3
  <2> QED BY <1>1, <2>1, <2>2 DEF Sending
<1>8. InLine(op, w) = InLine(op, waiting) \cup {call}
  BY <1>3 DEF InLine
<1>9. Streams(op, w, cl, se, subscribers)
  <2> SUFFICES ASSUME NEW s \in Subs
               PROVE  /\ Ordered(buffer[s])
                      /\ s \in subClosed => Range(buffer[s]) \subseteq {None}
                      /\ \A e \in Range(buffer[s]) \ {None} :
                           /\ e <= se
                           /\ \A i \in 1..Len(w) : w[i].kind = "publish" => e < w[i].msg
                           /\ op # None /\ op.call.kind = "publish" =>
                                e <= op.msg /\ (s \in op.to => e < op.msg)
                      /\ Ended(s) /\ s \in subscribers =>
                           cl /\ \A c \in InLine(op, w) : c.kind \in {"unsubscribe", "close"}
    BY DEF Streams
  <2>1. ASSUME NEW e \in Range(buffer[s]) \ {None}
        PROVE  e <= se /\ \A i \in 1..Len(w) : w[i].kind = "publish" => e < w[i].msg
    <3>1. e \in Nat /\ e <= sent
      <4>1. Range(buffer[s]) \subseteq Msgs \cup {None}
        BY <1>1, RangeByIndex DEF Types
      <4> QED BY <1>1, <4>1 DEF Streams, Msgs
    <3>2. \A i \in 1..n : w[i].kind = "publish" => e < w[i].msg
      BY <1>1, <1>3, <1>3a DEF Streams
    <3>3. w[n + 1].kind = "publish" => e < w[n + 1].msg
      BY <1>2, <1>3, <1>4, <3>1
    <3>4. e <= se
      BY <1>2, <1>4, <3>1
    <3> QED BY <1>3, <3>2, <3>3, <3>4
  <2>2. ASSUME Ended(s), s \in subscribers
        PROVE  cl /\ \A c \in InLine(op, w) : c.kind \in {"unsubscribe", "close"}
    <3>1. closed /\ \A c \in InLine(op, waiting) : c.kind \in {"unsubscribe", "close"}
      BY <1>1, <2>2 DEF Streams
    <3>2. call.kind \in {"unsubscribe", "close"}
      <4>1. call.kind \in {"subscribe", "unsubscribe", "publish", "close"}
        BY <1>2 DEF Calls
      <4> QED BY <1>4, <3>1, <4>1
    <3> QED BY <1>4, <1>8, <3>1, <3>2
  <2> QED BY <1>1, <2>1, <2>2 DEF Streams
<1>10. Promises(op, w, se, pr, subscribers, topics)
  <2>0. \A m \in 1..sent : pr[m] = promised[m]
    BY DEF Entering
  <2>1. ASSUME NEW m \in 1..se, NEW s \in pr[m],
               \A c \in InLine(op, w) \cup aborted : c.kind = "publish" => c.msg # m
        PROVE  m \in got[s]
    <3>1. m \in 1..sent
      <4>1. call.kind = "publish" => m # se
        BY <1>4, <1>8, <2>1
      <4> QED BY <1>2, <1>4, <4>1
    <3> QED BY <1>1, <1>8, <2>0, <2>1, <3>1 DEF Promises
  <2>2. ASSUME op # None, op.call.kind = "publish", NEW s \in pr[op.msg]
        PROVE  s \in op.to \/ op.msg \in got[s]
    <3>1. op.msg \in 1..sent
      BY <1>1, <1>2, <2>2 DEF Sending, Msgs
    <3> QED BY <1>1, <2>0, <2>2, <3>1 DEF Promises
  <2>3. ASSUME NEW i \in 1..Len(w), w[i].kind = "publish", NEW s \in pr[w[i].msg]
        PROVE  /\ s \in Reached(w[i].topic, subscribers, topics)
               /\ \A j \in 1..i - 1 : w[j].kind = "unsubscribe" => w[j].sub # s
    <3>1. CASE i \in 1..n
      <4>1. w[i] = waiting[i] /\ w[i].msg \in 1..sent
        BY <1>1, <1>2, <1>3, <1>3a, <2>3, <3>1 DEF Line, Calls, Msgs
      <4>2. s \in promised[waiting[i].msg]
        BY <2>0, <2>3, <4>1
      <4>3. \A j \in 1..i - 1 : w[j] = waiting[j]
        BY <1>3, <3>1
      <4> QED BY <1>1, <1>3a, <2>3, <3>1, <4>1, <4>2, <4>3 DEF Promises, LinePromises
    <3>2. CASE i = n + 1
      <4>1. /\ s \in Audience(call.topic)
            /\ \A c \in Pending : c.kind = "unsubscribe" => c.sub # s
        BY <1>3, <1>4, <2>3, <3>2 DEF Entering
      <4>2. s \in Reached(w[i].topic, subscribers, topics)
        BY <1>3, <3>2, <4>1 DEF Audience, Reached
      <4>3. \A j \in 1..i - 1 : w[j] \in Pending
        BY <1>3, <3>2 DEF Pending
      <4> QED BY <4>1, <4>2, <4>3
    <3> QED BY <1>3, <3>1, <3>2
  <2>4. LinePromises(w, pr, subscribers, topics)
    BY <2>3 DEF LinePromises
  <2> QED BY <2>1, <2>2, <2>4 DEF Promises
<1>11. Closing(op, w, cl, subscribers)
  <2>1. ASSUME cl
        PROVE  \/ \E c \in InLine(op, w) \cup aborted : c.kind = "close"
               \/ subscribers = {} /\ \A c \in InLine(op, w) : c.kind = "unsubscribe"
    <3>1. CASE call.kind = "close"
      BY <1>8, <3>1
    <3>2. CASE call.kind # "close"
      <4>1. closed /\ call.kind = "unsubscribe"
        <5>1. call.kind \in {"subscribe", "unsubscribe", "publish", "close"}
          BY <1>2 DEF Calls
        <5> QED BY <1>4, <2>1, <3>2, <5>1
      <4> QED BY <1>1, <1>8, <4>1 DEF Closing
    <3> QED BY <3>1, <3>2
  <2> QED BY <1>1, <2>1 DEF Closing
<1> QED BY <1>1, <1>5, <1>6, <1>7, <1>9, <1>10, <1>11 DEF Facts, w

-----------------------------------------------------------------------------
(* A call leaves the line, and is granted the lock. *)

\* Two calls of the shorter line stood in the same order before.
LEMMA LineOrder ==
  ASSUME NEW w \in Seq(Calls), NEW i \in 1..Len(w),
         NEW a \in 1..Len(RemoveAt(w, i)), NEW b \in 1..Len(RemoveAt(w, i)), a < b
  PROVE  \E k, l \in 1..Len(w) : k < l /\ RemoveAt(w, i)[a] = w[k] /\ RemoveAt(w, i)[b] = w[l]
<1> DEFINE v == RemoveAt(w, i)
<1>1. v \in Seq(Calls) /\ Len(v) \in Nat /\ Len(w) \in Nat
  BY LineWithout, LenProperties
<1>2. PICK k \in 1..Len(w) : v[a] = w[k] /\ k = (IF a < i THEN a ELSE a + 1)
  BY LineWithout
<1>3. PICK l \in 1..Len(w) : v[b] = w[l] /\ l = (IF b < i THEN b ELSE b + 1)
  BY LineWithout
<1> HIDE DEF v
<1>4. k < l
  BY <1>1, <1>2, <1>3 DEF v
<1> QED BY <1>2, <1>3, <1>4 DEF v

\* What is true of a line is true of it without one call.
LEMMA LeaveLine ==
  ASSUME NEW w \in Seq(Calls), NEW i \in 1..Len(w), NEW cl, NEW ca, NEW se, NEW pr, NEW S, NEW T
  PROVE  /\ Line(w, cl, ca, se) => Line(RemoveAt(w, i), cl, ca, se)
         /\ LinePromises(w, pr, S, T) => LinePromises(RemoveAt(w, i), pr, S, T)
<1> DEFINE v == RemoveAt(w, i)
<1>1. \A a \in 1..Len(v) : \E k \in 1..Len(w) : v[a] = w[k]
  BY LineWithout
<1>2. \A a, b \in 1..Len(v) : a < b => \E k, l \in 1..Len(w) : k < l /\ v[a] = w[k] /\ v[b] = w[l]
  BY LineOrder
<1>3. v \in Seq(Calls) /\ Len(v) \in Nat /\ Len(w) \in Nat
  BY LineWithout, LenProperties
<1> HIDE DEF v
<1>4. ASSUME Line(w, cl, ca, se) PROVE Line(v, cl, ca, se)
  <2>1. ASSUME NEW a \in 1..Len(v)
        PROVE  /\ v[a].kind = "subscribe" => v[a].sub \in ca \ joined
               /\ v[a].kind = "unsubscribe" => v[a].sub \in joined
               /\ v[a].kind = "publish" => v[a].msg <= se
               /\ v[a].kind = "close" => cl
    <3>1. PICK k \in 1..Len(w) : v[a] = w[k]
      BY <1>1
    <3> QED BY <1>4, <3>1 DEF Line
  <2>2. ASSUME NEW a \in 1..Len(v), NEW b \in 1..Len(v), a < b
        PROVE  /\ v[a].kind = "close" => v[b].kind = "unsubscribe"
               /\ v[a].kind = "publish" /\ v[b].kind = "publish" => v[a].msg < v[b].msg
               /\ v[a].kind = "subscribe" /\ v[b].kind = "subscribe" => v[a].sub # v[b].sub
    <3>1. PICK k \in 1..Len(w), l \in 1..Len(w) : k < l /\ v[a] = w[k] /\ v[b] = w[l]
      BY <1>2, <2>2
    <3> QED BY <1>4, <3>1 DEF Line
  <2> QED BY <2>1, <2>2 DEF Line
<1>5. ASSUME LinePromises(w, pr, S, T) PROVE LinePromises(v, pr, S, T)
  <2> SUFFICES ASSUME NEW b \in 1..Len(v), v[b].kind = "publish", NEW s \in pr[v[b].msg]
               PROVE  /\ s \in Reached(v[b].topic, S, T)
                      /\ \A a \in 1..b - 1 : v[a].kind = "unsubscribe" => v[a].sub # s
    BY DEF LinePromises
  <2>1. s \in Reached(v[b].topic, S, T)
    <3>1. PICK k \in 1..Len(w) : v[b] = w[k]
      BY <1>1
    <3> QED BY <1>5, <3>1 DEF LinePromises
  <2>2. ASSUME NEW a \in 1..b - 1, v[a].kind = "unsubscribe" PROVE v[a].sub # s
    <3>1. a \in 1..Len(v) /\ a < b
      BY <1>3
    <3>2. PICK k \in 1..Len(w), l \in 1..Len(w) : k < l /\ v[a] = w[k] /\ v[b] = w[l]
      BY <1>2, <3>1
    <3>3. k \in 1..l - 1
      BY <1>3, <3>2
    <3> QED BY <1>5, <2>2, <3>2, <3>3 DEF LinePromises
  <2> QED BY <2>1, <2>2
<1> QED BY <1>4, <1>5 DEF v

\* What is known when the first of the line gets the lock.
LEMMA HeadLeaves ==
  ASSUME NEW w, NEW cl, NEW ca, NEW se, NEW pr, NEW S, NEW T,
         Facts(None, w, cl, ca, se, pr, S, T), w # <<>>
  PROVE  /\ Types(Tail(w), cl, ca, se, pr, S, T) /\ Line(Tail(w), cl, ca, se)
         /\ LinePromises(Tail(w), pr, S, T)
         /\ Head(w) = w[1] /\ 1 \in 1..Len(w) /\ Head(w) \in Calls
         /\ Len(w) \in Nat /\ Len(Tail(w)) \in Nat
         /\ InLine(None, w) = Range(Tail(w)) \cup {Head(w)}
         /\ \A j \in 1..Len(Tail(w)) : \E k \in 1..Len(w) : Tail(w)[j] = w[k] /\ 1 < k
<1>1. w \in Seq(Calls) /\ Line(w, cl, ca, se) /\ LinePromises(w, pr, S, T)
      /\ Types(w, cl, ca, se, pr, S, T)
  BY DEF Facts, Types, Promises
<1>2. Tail(w) = RemoveAt(w, 1) /\ 1 \in 1..Len(w) /\ Head(w) = w[1]
  BY <1>1, LineTail
<1>3. /\ RemoveAt(w, 1) \in Seq(Calls) /\ w[1] \in Calls
      /\ \A j \in 1..Len(RemoveAt(w, 1)) : \E k \in 1..Len(w) :
           RemoveAt(w, 1)[j] = w[k] /\ k # 1
      /\ Range(w) = Range(RemoveAt(w, 1)) \cup {w[1]}
  BY <1>1, <1>2, LineWithout
<1>4. Line(RemoveAt(w, 1), cl, ca, se) /\ LinePromises(RemoveAt(w, 1), pr, S, T)
  BY <1>1, <1>2, LeaveLine
<1>5. Len(w) \in Nat /\ Len(RemoveAt(w, 1)) \in Nat
  BY <1>1, <1>3, LenProperties
<1>6. Types(RemoveAt(w, 1), cl, ca, se, pr, S, T)
  BY <1>1, <1>3 DEF Types
<1>7. \A k \in 1..Len(w) : k # 1 => 1 < k
  BY <1>5
<1> QED BY <1>2, <1>3, <1>4, <1>5, <1>6, <1>7 DEF InLine

\* There is a holder, whatever it sends to whom.
Sends(o, call, msg, to) == o # None /\ o.call = call /\ o.msg = msg /\ o.to = to

\* One that holds the lock sends something.
LEMMA HolderExists ==
  \A call, msg, to : \E o : Sends(o, call, msg, to)
<1> TAKE call, msg, to
<1> DEFINE h(n) == [call |-> call, msg |-> msg, to |-> to, on |-> n]
<1>1. \A n : h(n).call = call /\ h(n).msg = msg /\ h(n).to = to /\ h(n).on = n
  OBVIOUS
<1> HIDE DEF h
<1>2. h(0) # None \/ h(1) # None
  BY <1>1
<1>3. PICK n : h(n) # None
  BY <1>2
<1> QED BY <1>1, <1>3 DEF Sends

\* A publish() has the lock.
LEMMA GrantPublish ==
  ASSUME NEW w, NEW cl, NEW ca, NEW se, NEW pr, NEW S, NEW T,
         Facts(None, w, cl, ca, se, pr, S, T), w # <<>>, Head(w).kind = "publish",
         NEW o, o # None, o.call = Head(w), o.msg = Head(w).msg,
         o.to = Reached(Head(w).topic, S, T)
  PROVE  Facts(o, Tail(w), cl, ca, se, pr, S, T)
<1> DEFINE call == Head(w)
           v == Tail(w)
<1>1. /\ Types(v, cl, ca, se, pr, S, T) /\ Line(v, cl, ca, se) /\ LinePromises(v, pr, S, T)
      /\ call = w[1] /\ 1 \in 1..Len(w) /\ call \in Calls
      /\ InLine(None, w) = Range(v) \cup {call}
      /\ \A j \in 1..Len(v) : \E k \in 1..Len(w) : v[j] = w[k] /\ 1 < k
  BY HeadLeaves
<1>2. /\ Registered(S, T) /\ Line(w, cl, ca, se) /\ Streams(None, w, cl, se, S)
      /\ Promises(None, w, se, pr, S, T) /\ Closing(None, w, cl, S)
  BY DEF Facts
<1> HIDE DEF call, v
<1>3. /\ call.msg \in Msgs /\ call.topic \in Topics \cup {AllTopics} /\ call.kind = "publish"
      /\ o.call = call /\ o.msg = call.msg /\ o.to = Reached(call.topic, S, T)
  BY <1>1 DEF Calls, call
<1>4. o.to \subseteq S /\ S \subseteq joined
  BY <1>2, <1>3 DEF Registered, Reached
<1>5. \A j \in 1..Len(v) : v[j].kind = "publish" => call.msg < v[j].msg
  BY <1>1, <1>2, <1>3 DEF Line
<1>6. InLine(o, v) = InLine(None, w)
  BY <1>1, <1>3 DEF InLine
<1>7. Sending(o, v, cl, se, S)
  <2>1. call.msg <= se
    BY <1>1, <1>2, <1>3 DEF Line
  <2> QED BY <1>1, <1>3, <1>4, <1>5, <2>1 DEF Sending
<1>8. Streams(o, v, cl, se, S)
  <2> SUFFICES ASSUME NEW s \in Subs
               PROVE  /\ Ordered(buffer[s])
                      /\ s \in subClosed => Range(buffer[s]) \subseteq {None}
                      /\ \A e \in Range(buffer[s]) \ {None} :
                           /\ e <= se
                           /\ \A i \in 1..Len(v) : v[i].kind = "publish" => e < v[i].msg
                           /\ e <= o.msg /\ e < o.msg
                      /\ Ended(s) /\ s \in S =>
                           cl /\ \A c \in InLine(o, v) : c.kind \in {"unsubscribe", "close"}
    BY DEF Streams
  <2>1. ASSUME NEW e \in Range(buffer[s]) \ {None}
        PROVE  e <= o.msg /\ e < o.msg /\ \A i \in 1..Len(v) : v[i].kind = "publish" => e < v[i].msg
    <3>1. e \in Nat
      <4>1. Range(buffer[s]) \subseteq Msgs \cup {None}
        BY <1>1, RangeByIndex DEF Types
      <4> QED BY <4>1 DEF Msgs
    <3>2. e < o.msg
      <4>1. e < w[1].msg
        BY <1>1, <1>2, <1>3, Zenon DEF Streams
      <4> QED BY <1>1, <1>3, <4>1
    <3>3. \A i \in 1..Len(v) : v[i].kind = "publish" => e < v[i].msg
      <4>1. \A k \in 1..Len(w) : w[k].kind = "publish" => e < w[k].msg
        BY <1>2 DEF Streams
      <4> QED BY <1>1, <4>1
    <3> QED BY <1>3, <3>1, <3>2, <3>3 DEF Msgs
  <2> QED BY <1>2, <1>6, <2>1 DEF Streams
<1>9. Promises(o, v, se, pr, S, T)
  <2>1. \A s \in pr[o.msg] : s \in o.to
    BY <1>1, <1>2, <1>3 DEF Promises, LinePromises
  <2> QED BY <1>1, <1>2, <1>6, <2>1 DEF Promises
<1>10. Closing(o, v, cl, S)
  BY <1>2, <1>6 DEF Closing
<1> QED BY <1>1, <1>2, <1>7, <1>8, <1>9, <1>10 DEF Facts, v

\* An unsubscribe() has the lock and discards its subscriber.
LEMMA GrantUnsubscribe ==
  ASSUME NEW w, NEW cl, NEW ca, NEW se, NEW pr, NEW S, NEW T,
         Facts(None, w, cl, ca, se, pr, S, T), w # <<>>, Head(w).kind = "unsubscribe",
         NEW o, o # None, o.call = Head(w), o.msg = None, o.to = {Head(w).sub}
  PROVE  Facts(o, Tail(w), cl, ca, se, pr, S \ {Head(w).sub},
               [t \in Topics |-> T[t] \ {Head(w).sub}])
<1> DEFINE call == Head(w)
           v == Tail(w)
           sub == Head(w).sub
           S1 == S \ {sub}
           T1 == [t \in Topics |-> T[t] \ {sub}]
<1>1. /\ Types(v, cl, ca, se, pr, S, T) /\ Line(v, cl, ca, se)
      /\ call = w[1] /\ 1 \in 1..Len(w) /\ call \in Calls
      /\ InLine(None, w) = Range(v) \cup {call} /\ Len(v) \in Nat
      /\ \A j \in 1..Len(v) : \E k \in 1..Len(w) : v[j] = w[k] /\ 1 < k
      /\ LinePromises(v, pr, S, T)
  BY HeadLeaves
<1>2. /\ Registered(S, T) /\ Line(w, cl, ca, se) /\ Streams(None, w, cl, se, S)
      /\ Promises(None, w, se, pr, S, T) /\ Closing(None, w, cl, S)
  BY DEF Facts
<1>3. call.kind = "unsubscribe" /\ o.call = call /\ o.msg = None /\ o.to = {sub} /\ sub = call.sub
  OBVIOUS
<1>4. S1 \subseteq S /\ sub \notin S1 /\ \A t \in Topics : T1[t] = T[t] \ {sub}
  OBVIOUS
<1> HIDE DEF call, v, sub
<1>5. sub \in joined /\ sub \in Subs
  BY <1>1, <1>2, <1>3 DEF Line, Types
<1>6. Types(v, cl, ca, se, pr, S1, T1)
  BY <1>1 DEF Types
<1>7. Registered(S1, T1)
  <2>1. IsFiniteSet(S1) /\ Cardinality(S1) <= Cardinality(S)
    BY <1>2, FS_Subset DEF Registered
  <2>2. Cardinality(S1) \in Nat /\ Cardinality(S) \in Nat /\ limit \in Nat
    BY <1>1, <1>2, <2>1, FS_CardinalityType, ChannelAssumption DEF Registered, Types
  <2>3. Cardinality(S1) <= limit
    BY <1>2, <2>1, <2>2 DEF Registered
  <2>4. \A t \in Topics : T1[t] \subseteq S1
    BY <1>2, <1>4 DEF Registered
  <2> QED BY <1>2, <2>1, <2>3, <2>4 DEF Registered
<1> HIDE DEF S1, T1
<1>8. InLine(o, v) = InLine(None, w)
  BY <1>1, <1>3 DEF InLine
<1>9. Sending(o, v, cl, se, S1)
  BY <1>1, <1>3, <1>4, <1>5 DEF Sending
<1>10. Streams(o, v, cl, se, S1)
  <2>1. ASSUME NEW s \in Subs, NEW e \in Range(buffer[s]) \ {None}
        PROVE  \A i \in 1..Len(v) : v[i].kind = "publish" => e < v[i].msg
    <3>1. \A k \in 1..Len(w) : w[k].kind = "publish" => e < w[k].msg
      BY <1>2 DEF Streams
    <3> QED BY <1>1, <3>1
  <2>2. o.call.kind # "publish"
    BY <1>3
  <2>3. \A s \in Subs : Ended(s) /\ s \in S1 =>
           cl /\ \A c \in InLine(o, v) : c.kind \in {"unsubscribe", "close"}
    BY <1>2, <1>4, <1>8 DEF Streams
  <2> QED BY <1>2, <2>1, <2>2, <2>3 DEF Streams
<1>11. Promises(o, v, se, pr, S1, T1)
  <2>1. ASSUME NEW i \in 1..Len(v), v[i].kind = "publish", NEW s \in pr[v[i].msg]
        PROVE  s \in Reached(v[i].topic, S1, T1)
    <3>1. PICK k \in 1..Len(w) : v[i] = w[k] /\ 1 < k
      BY <1>1
    <3>2. /\ s \in Reached(w[k].topic, S, T)
          /\ \A j \in 1..k - 1 : w[j].kind = "unsubscribe" => w[j].sub # s
      <4>1. LinePromises(w, pr, S, T)
        BY <1>2 DEF Promises
      <4>2. w[k].kind = "publish" /\ s \in pr[w[k].msg]
        BY <2>1, <3>1
      <4> QED BY <4>1, <4>2 DEF LinePromises
    <3>3. sub # s
      <4>1. 1 \in 1..k - 1
        BY <3>1
      <4> QED BY <1>1, <1>3, <3>2, <4>1
    <3>4. v[i].topic \in Topics \cup {AllTopics}
      <4>1. v[i] \in Calls
        BY <1>1, LineMembers DEF Types
      <4> QED BY <2>1, <4>1 DEF Calls
    <3> QED BY <1>4, <3>1, <3>2, <3>3, <3>4 DEF Reached, S1
  <2>2. LinePromises(v, pr, S1, T1)
    BY <1>1, <2>1 DEF LinePromises
  <2>3. o.call.kind # "publish"
    BY <1>3
  <2> QED BY <1>2, <1>8, <2>2, <2>3 DEF Promises
<1>12. Closing(o, v, cl, S1)
  <2>1. \A s \in joined \ S1 : \/ Ended(s) \/ s \in o.to \/ \E c \in aborted : c.kind = "unsubscribe"
    BY <1>2, <1>3 DEF Closing, S1
  <2>2. S = {} => S1 = {}
    BY <1>4
  <2> QED BY <1>2, <1>3, <1>8, <2>1, <2>2 DEF Closing
<1> QED BY <1>1, <1>6, <1>7, <1>9, <1>10, <1>11, <1>12 DEF Facts, v, S1, T1, sub

\* The close() has the lock: nobody but unsubscribe() calls are behind it.
LEMMA GrantClose ==
  ASSUME NEW w, NEW cl, NEW ca, NEW se, NEW pr, NEW S, NEW T,
         Facts(None, w, cl, ca, se, pr, S, T), w # <<>>, Head(w).kind = "close",
         NEW o, o # None, o.call = Head(w), o.msg = None, o.to = S
  PROVE  Facts(o, Tail(w), cl, ca, se, pr, S, T)
<1> DEFINE call == Head(w)
           v == Tail(w)
<1>1. /\ Types(v, cl, ca, se, pr, S, T) /\ Line(v, cl, ca, se) /\ LinePromises(v, pr, S, T)
      /\ call = w[1] /\ 1 \in 1..Len(w) /\ call \in Calls
      /\ InLine(None, w) = Range(v) \cup {call}
      /\ \A j \in 1..Len(v) : \E k \in 1..Len(w) : v[j] = w[k] /\ 1 < k
  BY HeadLeaves
<1>2. /\ Registered(S, T) /\ Line(w, cl, ca, se) /\ Streams(None, w, cl, se, S)
      /\ Promises(None, w, se, pr, S, T) /\ Closing(None, w, cl, S)
  BY DEF Facts
<1>3. call.kind = "close" /\ o.call = call /\ o.msg = None /\ o.to = S
  OBVIOUS
<1> HIDE DEF call, v
<1>4. cl /\ \A j \in 1..Len(v) : v[j].kind = "unsubscribe"
  BY <1>1, <1>2, <1>3 DEF Line
<1>5. InLine(o, v) = InLine(None, w)
  BY <1>1, <1>3 DEF InLine
<1>6. Sending(o, v, cl, se, S)
  BY <1>1, <1>2, <1>3, <1>4 DEF Sending, Registered
<1>7. Streams(o, v, cl, se, S)
  <2>1. \A i \in 1..Len(v) : v[i].kind # "publish"
    BY <1>4
  <2>2. o.call.kind # "publish"
    BY <1>3
  <2> QED BY <1>2, <1>5, <2>1, <2>2 DEF Streams
<1>8. Promises(o, v, se, pr, S, T)
  BY <1>1, <1>2, <1>3, <1>5 DEF Promises
<1>9. Closing(o, v, cl, S)
  BY <1>2, <1>5 DEF Closing
<1> QED BY <1>1, <1>2, <1>6, <1>7, <1>8, <1>9 DEF Facts, v

-----------------------------------------------------------------------------
(* The holder of the lock sends. *)

\* msg is put in the buffers of D, which is everybody unless the call has still
\* to wait for one of the others.
Delivered(call, msg, to, D) ==
  /\ \A s \in Subs : buffer'[s] = IF s \in D THEN Append(buffer[s], msg) ELSE buffer[s]
  /\ \A s \in Subs : got'[s] = IF s \in D THEN got[s] \cup ({msg} \ {None}) ELSE got[s]
  /\ buffer' \in [Subs -> Seq(Msgs \cup {None})] /\ got' \in [Subs -> SUBSET Msgs]
  /\ \/ op' = None /\ D = to
     \/ \E s \in to \ D : op' = [call |-> call, msg |-> msg, to |-> to \ D, on |-> s]

\* SendAll delivers to a set of its addressees.
LEMMA SendAllEffect ==
  ASSUME NEW call, NEW msg, NEW to \in SUBSET Subs, NEW first, SendAll(call, msg, to, first),
         buffer \in [Subs -> Seq(Msgs \cup {None})], got \in [Subs -> SUBSET Msgs],
         msg \in Msgs \cup {None}
  PROVE  \E D \in SUBSET to : Delivered(call, msg, to, D)
<1> DEFINE Deliver(D) ==
             /\ buffer' = [s \in Subs |-> IF s \in D THEN Append(buffer[s], msg) ELSE buffer[s]]
             /\ got' = [s \in Subs |-> IF s \in D THEN got[s] \cup ({msg} \ {None}) ELSE got[s]]
<1>1. \E D \in SUBSET to :
        /\ Deliver(D)
        /\ \/ op' = None /\ D = to
           \/ \E s \in to \ D : op' = [call |-> call, msg |-> msg, to |-> to \ D, on |-> s]
  BY DEF SendAll
<1>2. PICK D \in SUBSET to :
        /\ Deliver(D)
        /\ \/ op' = None /\ D = to
           \/ \E s \in to \ D : op' = [call |-> call, msg |-> msg, to |-> to \ D, on |-> s]
  BY <1>1
<1>3. \A s \in Subs : /\ buffer'[s] = IF s \in D THEN Append(buffer[s], msg) ELSE buffer[s]
                      /\ got'[s] = IF s \in D THEN got[s] \cup ({msg} \ {None}) ELSE got[s]
  BY <1>2
<1>4. \A s \in Subs : buffer'[s] \in Seq(Msgs \cup {None}) /\ got'[s] \in SUBSET Msgs
  <2> SUFFICES ASSUME NEW s \in Subs
               PROVE  buffer'[s] \in Seq(Msgs \cup {None}) /\ got'[s] \in SUBSET Msgs
    OBVIOUS
  <2>1. Append(buffer[s], msg) \in Seq(Msgs \cup {None})
    BY AppendProperties
  <2> QED BY <1>3, <2>1
<1>5. buffer' = [s \in Subs |-> buffer'[s]] /\ got' = [s \in Subs |-> got'[s]]
  BY <1>2
<1>6. buffer' \in [Subs -> Seq(Msgs \cup {None})] /\ got' \in [Subs -> SUBSET Msgs]
  BY <1>4, <1>5
<1> QED BY <1>2, <1>3, <1>6 DEF Delivered

\* The flags and counters after a step that grants or goes on sending.
Settled(w, cl, ca, se, pr) ==
  /\ waiting' = w /\ closed' = cl /\ called' = ca /\ sent' = se /\ promised' = pr
  /\ subClosed' = subClosed /\ aborted' = aborted
  /\ bufferSize' = bufferSize /\ limit' = limit /\ unsubs' \in [Subs -> 0..MaxUnsubs]

\* Sending keeps the invariant; a close() that has sent all clears the registry.
LEMMA SendKeeps ==
  ASSUME NEW o, NEW w, NEW cl, NEW ca, NEW se, NEW pr, NEW S, NEW T,
         Facts(o, w, cl, ca, se, pr, S, T), o # None,
         NEW first, SendAll(o.call, o.msg, o.to, first), Settled(w, cl, ca, se, pr), UNCHANGED joined,
         IF o.call.kind = "close" /\ op' = None
         THEN subscribers' = {} /\ topics' = [t \in Topics |-> {}]
         ELSE subscribers' = S /\ topics' = T
  PROVE  ChannelInv'
<1>1. /\ Types(w, cl, ca, se, pr, S, T) /\ Registered(S, T) /\ Line(w, cl, ca, se)
      /\ Sending(o, w, cl, se, S) /\ Streams(o, w, cl, se, S) /\ Promises(o, w, se, pr, S, T)
      /\ Closing(o, w, cl, S)
  BY DEF Facts
<1> DEFINE call == o.call
           msg == o.msg
           to == o.to
           Ended1(s) == s \in subClosed' \/ None \in Range(buffer'[s])
<1>2. /\ to \subseteq joined /\ joined \subseteq Subs /\ call \in Calls
      /\ msg \in Msgs \cup {None} /\ call.kind \in {"unsubscribe", "publish", "close"}
      /\ call.kind = "publish" <=> msg # None
      /\ call.kind = "publish" => msg \in Msgs /\ msg = call.msg
      /\ S \subseteq joined
  <2>1. /\ to \subseteq joined /\ joined \subseteq Subs /\ call \in Calls /\ S \subseteq joined
        /\ call.kind = "publish" => msg \in Msgs /\ msg = call.msg
        /\ call.kind # "publish" => msg = None
        /\ call.kind # "subscribe"
    BY <1>1 DEF Sending, Types, Registered
  <2>2. call.kind \in {"subscribe", "unsubscribe", "publish", "close"}
    BY <2>1 DEF Calls
  <2>3. None \notin Msgs
    BY ChannelAssumption DEF Msgs
  <2> QED BY <2>1, <2>2, <2>3
<1>3a. PICK D \in SUBSET to : Delivered(call, msg, to, D)
  <2>1. to \in SUBSET Subs /\ buffer \in [Subs -> Seq(Msgs \cup {None})] /\ got \in [Subs -> SUBSET Msgs]
    BY <1>1, <1>2 DEF Types
  <2>2. SendAll(call, msg, to, first)
    OBVIOUS
  <2> HIDE DEF call, msg, to
  <2> QED BY <1>2, <2>1, <2>2, SendAllEffect
<1>3. /\ D \subseteq to
      /\ \A s \in Subs : buffer'[s] = IF s \in D THEN Append(buffer[s], msg) ELSE buffer[s]
      /\ \A s \in Subs : got'[s] = IF s \in D THEN got[s] \cup ({msg} \ {None}) ELSE got[s]
      /\ buffer' \in [Subs -> Seq(Msgs \cup {None})] /\ got' \in [Subs -> SUBSET Msgs]
      /\ \/ op' = None /\ D = to
         \/ \E s \in to \ D : op' = [call |-> call, msg |-> msg, to |-> to \ D, on |-> s]
  BY <1>3a DEF Delivered
<1>4. \/ op' = None /\ D = to
      \/ /\ op' # None /\ op'.call = call /\ op'.msg = msg /\ op'.to = to \ D
         /\ op'.on \in op'.to /\ op' \in Holders
  <2> SUFFICES ASSUME NEW s \in to \ D, op' = [call |-> call, msg |-> msg, to |-> to \ D, on |-> s]
               PROVE  /\ op' # None /\ op'.call = call /\ op'.msg = msg /\ op'.to = to \ D
                      /\ op'.on \in op'.to /\ op' \in Holders
    BY <1>3
  <2> HIDE DEF call, msg, to
  <2>1. op' \in Holders
    BY <1>2 DEF Holders
  <2> QED BY <2>1, NoneAssumption
<1> HIDE DEF call, msg, to, Ended1
<1>5. /\ waiting' = w /\ closed' = cl /\ called' = ca /\ sent' = se /\ promised' = pr
      /\ joined' = joined /\ subClosed' = subClosed /\ aborted' = aborted
      /\ bufferSize' = bufferSize /\ limit' = limit
      /\ unsubs' \in [Subs -> 0..MaxUnsubs]
  BY DEF Settled
<1>6. \/ call.kind = "close" /\ op' = None /\ subscribers' = {} /\ topics' = [t \in Topics |-> {}]
      \/ ~(call.kind = "close" /\ op' = None) /\ subscribers' = S /\ topics' = T
  BY DEF call
<1>7. \A s \in Subs : /\ buffer[s] \in Seq(Msgs \cup {None}) /\ buffer'[s] \in Seq(Msgs \cup {None})
                      /\ Range(buffer'[s]) = Range(buffer[s]) \cup (IF s \in D THEN {msg} ELSE {})
                     /\ Range(buffer[s]) \subseteq Msgs \cup {None}
  <2> SUFFICES ASSUME NEW s \in Subs
               PROVE  /\ buffer[s] \in Seq(Msgs \cup {None}) /\ buffer'[s] \in Seq(Msgs \cup {None})
                      /\ Range(buffer'[s]) = Range(buffer[s]) \cup (IF s \in D THEN {msg} ELSE {})
                      /\ Range(buffer[s]) \subseteq Msgs \cup {None}
    OBVIOUS
  <2>1. buffer[s] \in Seq(Msgs \cup {None}) /\ buffer'[s] \in Seq(Msgs \cup {None})
    BY <1>1, <1>3 DEF Types
  <2>2. Range(Append(buffer[s], msg)) = Range(buffer[s]) \cup {msg}
    BY <1>2, <2>1, AppendRange
  <2>3. Range(buffer[s]) \subseteq Msgs \cup {None}
    BY <2>1, RangeByIndex
  <2> QED BY <1>3, <2>1, <2>2, <2>3
<1>8. \A s \in Subs : /\ Ended1(s) <=> Ended(s) \/ (s \in D /\ msg = None)
                      /\ got[s] \subseteq got'[s]
                      /\ s \in D /\ msg # None => msg \in got'[s]
  <2>1. None \notin Msgs
    BY ChannelAssumption DEF Msgs
  <2> QED BY <1>2, <1>3, <1>5, <1>7, <2>1 DEF Ended, Ended1
<1>9. /\ InLine(op', w) \subseteq InLine(o, w) /\ Range(w) \subseteq InLine(op', w)
      /\ InLine(o, w) = Range(w) \cup {call}
      /\ op' # None => call \in InLine(op', w)
  BY <1>4 DEF InLine, call
<1>10. call.kind = "publish" => to \subseteq S /\ \A s \in to : ~Ended(s)
  <2> SUFFICES ASSUME call.kind = "publish" PROVE to \subseteq S /\ \A s \in to : ~Ended(s)
    OBVIOUS
  <2>1. to \subseteq S
    BY <1>1 DEF Sending, call, to
  <2>2. call \in InLine(o, w) /\ call.kind \notin {"unsubscribe", "close"}
    BY <1>9
  <2>3. \A s \in S : ~Ended(s)
    BY <1>1, <1>2, <2>2 DEF Streams
  <2> QED BY <2>1, <2>3
<1>11. Types(w, cl, ca, se, pr, S, T)' /\ Types(w, cl, ca, se, pr, subscribers, topics)'
  BY <1>1, <1>3, <1>5, <1>6 DEF Types
<1>12. Registered(subscribers, topics)'
  <2>1. \A s \in Subs \ joined : ~Ended1(s)
    BY <1>1, <1>2, <1>3, <1>8 DEF Registered
  <2>2. IsFiniteSet({}) /\ Cardinality({}) <= limit
    BY <1>1, FS_EmptySet, ChannelAssumption DEF Types
  <2> QED BY <1>1, <1>5, <1>6, <2>1, <2>2 DEF Registered, Ended, Ended1
<1>13. Line(w, cl, ca, se)'
  BY <1>1, <1>5 DEF Line
<1>14. Sending(op, w, cl, se, subscribers)'
  <2> SUFFICES ASSUME op' # None PROVE Sending(op, w, cl, se, subscribers)'
    BY DEF Sending
  <2>1. /\ op'.call = call /\ op'.msg = msg /\ op'.to = to \ D /\ subscribers' = S
        /\ op'.to \subseteq joined'
    BY <1>2, <1>4, <1>5, <1>6
  <2>2. /\ msg = None <=> call.kind # "publish"
    BY <1>2
  <2>3. call.kind = "publish" =>
          /\ msg = call.msg /\ msg \in Msgs /\ msg <= se /\ to \ D \subseteq S
          /\ \A i \in 1..Len(w) : w[i].kind = "publish" => msg < w[i].msg
    BY <1>1 DEF Sending, call, msg, to
  <2>4. call.kind = "unsubscribe" => (to \ D) \cap S = {}
    BY <1>1 DEF Sending, call, to
  <2>5. call.kind = "close" =>
          /\ cl /\ to \ D \subseteq S /\ \A s \in S : Ended1(s) \/ s \in to \ D
          /\ \A i \in 1..Len(w) : w[i].kind = "unsubscribe"
    <3> SUFFICES ASSUME call.kind = "close"
                 PROVE  /\ cl /\ to \ D \subseteq S /\ \A s \in S : Ended1(s) \/ s \in to \ D
                        /\ \A i \in 1..Len(w) : w[i].kind = "unsubscribe"
      OBVIOUS
    <3>1. /\ cl /\ to \subseteq S /\ \A s \in S : Ended(s) \/ s \in to
          /\ \A i \in 1..Len(w) : w[i].kind = "unsubscribe"
      BY <1>1 DEF Sending, call, to
    <3>2. \A s \in S : s \in Subs
      BY <1>2
    <3> QED BY <1>8, <2>2, <3>1, <3>2
  <2>6. /\ cl' = cl /\ se' = se /\ w' = w
    OBVIOUS
  <2> QED BY <1>2, <2>1, <2>2, <2>3, <2>4, <2>5 DEF Sending, Ended, Ended1
<1>15. Streams(op, w, cl, se, subscribers)'
  <2> SUFFICES ASSUME NEW s \in Subs
               PROVE  /\ Ordered(buffer'[s])
                      /\ s \in subClosed' => Range(buffer'[s]) \subseteq {None}
                      /\ \A e \in Range(buffer'[s]) \ {None} :
                           /\ e <= se
                           /\ \A i \in 1..Len(w) : w[i].kind = "publish" => e < w[i].msg
                           /\ op' # None /\ op'.call.kind = "publish" =>
                                e <= op'.msg /\ (s \in op'.to => e < op'.msg)
                      /\ Ended1(s) /\ s \in subscribers' =>
                           cl /\ \A c \in InLine(op', w) : c.kind \in {"unsubscribe", "close"}
    BY DEF Streams, Ordered, InLine, Ended, Ended1
  <2>1. /\ Ordered(buffer[s]) /\ (s \in subClosed => Range(buffer[s]) \subseteq {None})
        /\ \A e \in Range(buffer[s]) \ {None} :
             /\ e <= se
             /\ \A i \in 1..Len(w) : w[i].kind = "publish" => e < w[i].msg
             /\ call.kind = "publish" => e <= msg /\ (s \in to => e < msg)
        /\ Ended(s) /\ s \in S => cl /\ \A c \in InLine(o, w) : c.kind \in {"unsubscribe", "close"}
    BY <1>1 DEF Streams, call, msg, to
  <2>2. Ordered(buffer'[s])
    <3>1. CASE s \in D
      <4>1. msg = None \/ \A x \in Range(buffer[s]) : x # None /\ x < msg
        BY <1>2, <1>3, <1>10, <2>1, <3>1 DEF Ended
      <4>2. buffer'[s] = Append(buffer[s], msg)
        BY <1>3, <3>1
      <4>3. Ordered(Append(buffer[s], msg))
        BY <1>2, <1>7, <2>1, <4>1, OrderedAppend
      <4> QED BY <4>2, <4>3
    <3>2. CASE s \notin D
      BY <1>3, <2>1, <3>2
    <3> QED BY <3>1, <3>2
  <2>3. s \in subClosed' => Range(buffer'[s]) \subseteq {None}
    BY <1>2, <1>3, <1>5, <1>7, <1>10, <2>1 DEF Ended
  <2>4. ASSUME NEW e \in Range(buffer'[s]) \ {None}
        PROVE  /\ e <= se
               /\ \A i \in 1..Len(w) : w[i].kind = "publish" => e < w[i].msg
               /\ op' # None /\ op'.call.kind = "publish" => e <= op'.msg /\ (s \in op'.to => e < op'.msg)
    <3>1. CASE e \in Range(buffer[s])
      BY <1>4, <2>1, <2>4, <3>1
    <3>2. CASE e \notin Range(buffer[s])
      <4>1. e = msg /\ s \in D /\ call.kind = "publish" /\ msg \in Msgs
        BY <1>2, <1>7, <2>4, <3>2
      <4>2. msg <= se /\ \A i \in 1..Len(w) : w[i].kind = "publish" => msg < w[i].msg
        BY <1>1, <4>1 DEF Sending, call, msg
      <4>3. op' # None => op'.msg = msg /\ s \notin op'.to
        BY <1>4, <4>1
      <4> QED BY <4>1, <4>2, <4>3 DEF Msgs
    <3> QED BY <3>1, <3>2
  <2>5. ASSUME Ended1(s), s \in subscribers'
        PROVE  cl /\ \A c \in InLine(op', w) : c.kind \in {"unsubscribe", "close"}
    <3>1. s \in S
      BY <1>6, <2>5
    <3>2. CASE Ended(s)
      BY <1>9, <2>1, <3>1, <3>2
    <3>3. CASE ~Ended(s)
      <4>1. s \in D /\ msg = None /\ call.kind = "close"
        <5>1. s \in D /\ msg = None
          BY <1>8, <2>5, <3>3
        <5>2. call.kind = "unsubscribe" => to \cap S = {}
          BY <1>1 DEF Sending, call, to
        <5> QED BY <1>2, <1>3, <3>1, <5>1, <5>2
      <4>2. cl /\ \A i \in 1..Len(w) : w[i].kind = "unsubscribe"
        BY <1>1, <4>1 DEF Sending, call
      <4>3. \A c \in Range(w) : c.kind = "unsubscribe"
        <5>1. w \in Seq(Calls)
          BY <1>1 DEF Types
        <5>2. \A c \in Range(w) : \E i \in 1..Len(w) : w[i] = c
          BY <5>1, LineMembers
        <5> QED BY <4>2, <5>2
      <4> QED BY <1>9, <4>1, <4>2, <4>3
    <3> QED BY <3>2, <3>3
  <2> QED BY <2>2, <2>3, <2>4, <2>5
<1>16. Promises(op, w, se, pr, subscribers, topics)'
  <2>1. ASSUME NEW m \in 1..se, NEW s \in pr[m],
               \A c \in InLine(op', w) \cup aborted : c.kind = "publish" => c.msg # m
        PROVE  m \in got'[s]
    <3>0. s \in Subs /\ MaxMsgs \in Nat /\ se \in 0..MaxMsgs
      BY <1>1, ChannelAssumption DEF Types, Msgs
    <3>1. CASE \A c \in InLine(o, w) \cup aborted : c.kind = "publish" => c.msg # m
      BY <1>1, <1>8, <2>1, <3>0, <3>1 DEF Promises
    <3>2. CASE ~\A c \in InLine(o, w) \cup aborted : c.kind = "publish" => c.msg # m
      <4>1. call.kind = "publish" /\ m = msg /\ op' = None
        BY <1>2, <1>9, <2>1, <3>2
      <4>2. s \in to \/ m \in got[s]
        BY <1>1, <2>1, <4>1 DEF Promises, call, msg, to
      <4> QED BY <1>2, <1>4, <1>8, <3>0, <4>1, <4>2
    <3> QED BY <3>1, <3>2
  <2>2. ASSUME op' # None, op'.call.kind = "publish", NEW s \in pr[op'.msg]
        PROVE  s \in op'.to \/ op'.msg \in got'[s]
    <3>1. op'.call = call /\ op'.msg = msg /\ op'.to = to \ D /\ msg \in Msgs
      BY <1>2, <1>4, <2>2
    <3>2. s \in Subs
      BY <1>1, <2>2, <3>1 DEF Types
    <3>3. s \in to \/ msg \in got[s]
      BY <1>1, <2>2, <3>1 DEF Promises, call, msg, to
    <3> QED BY <1>2, <1>8, <2>2, <3>1, <3>2, <3>3
  <2>3. LinePromises(w, pr, subscribers', topics')
    <3>1. CASE call.kind = "close" /\ op' = None
      <4>1. \A i \in 1..Len(w) : w[i].kind = "unsubscribe"
        BY <1>1, <3>1 DEF Sending, call
      <4> QED BY <4>1 DEF LinePromises
    <3>2. CASE subscribers' = S /\ topics' = T
      BY <1>1, <3>2 DEF Promises
    <3> QED BY <1>6, <3>1, <3>2
  <2> QED BY <1>5, <2>1, <2>2, <2>3 DEF Promises, LinePromises, Reached, InLine
<1>17. Closing(op, w, cl, subscribers)'
  <2>1. ASSUME cl
        PROVE  \/ \E c \in InLine(op', w) \cup aborted : c.kind = "close"
               \/ subscribers' = {} /\ \A c \in InLine(op', w) : c.kind = "unsubscribe"
    <3>1. CASE call.kind = "close"
      <4>1. \A c \in Range(w) : c.kind = "unsubscribe"
        BY <1>1, <3>1, LineMembers DEF Sending, call, Types
      <4> QED BY <1>6, <1>9, <3>1, <4>1 DEF InLine
    <3>2. CASE call.kind # "close"
      <4>1. \/ \E c \in Range(w) \cup aborted : c.kind = "close"
            \/ S = {} /\ \A c \in InLine(o, w) : c.kind = "unsubscribe"
        BY <1>1, <1>9, <2>1, <3>2 DEF Closing
      <4> QED BY <1>6, <1>9, <3>2, <4>1
    <3> QED BY <3>1, <3>2
  <2>2. ASSUME NEW s \in joined \ subscribers'
        PROVE  \/ Ended1(s)
               \/ op' # None /\ op'.call.kind = "unsubscribe" /\ s \in op'.to
               \/ \E c \in aborted : c.kind = "unsubscribe"
    <3>0. s \in Subs
      BY <1>2
    <3>1. CASE s \in S
      <4>1. call.kind = "close" /\ op' = None
        BY <1>6, <2>2, <3>1
      <4>2. Ended(s) \/ s \in to
        BY <1>1, <3>1, <4>1 DEF Sending, call, to
      <4> QED BY <1>2, <1>4, <1>8, <3>0, <4>1, <4>2
    <3>2. CASE s \notin S
      <4>1. \/ Ended(s) \/ (call.kind = "unsubscribe" /\ s \in to)
            \/ \E c \in aborted : c.kind = "unsubscribe"
        BY <1>1, <2>2, <3>2 DEF Closing, call, to
      <4>2. CASE call.kind = "unsubscribe" /\ s \in to
        BY <1>2, <1>4, <1>8, <3>0, <4>2
      <4> QED BY <1>8, <3>0, <4>1, <4>2
    <3> QED BY <3>1, <3>2
  <2> QED BY <1>5, <2>1, <2>2 DEF Closing, InLine, Ended, Ended1
<1> QED BY <1>4, <1>5, <1>11, <1>12, <1>13, <1>14, <1>15, <1>16, <1>17 DEF ChannelInv, Facts

\* The first of the line runs: subscribe() adds its subscriber if the limit allows.
LEMMA SubscribeRuns ==
  ASSUME NEW w, NEW cl, NEW ca, NEW se, NEW pr,
         Facts(None, w, cl, ca, se, pr, subscribers, topics), w # <<>>,
         RunSubscribe(Head(w)), Settled(Tail(w), cl, ca, se, pr)
  PROVE  ChannelInv'
<1> DEFINE call == Head(w)
           v == Tail(w)
           sub == call.sub
<1>1. /\ Types(v, cl, ca, se, pr, subscribers, topics) /\ Line(v, cl, ca, se)
      /\ LinePromises(v, pr, subscribers, topics)
      /\ call = w[1] /\ 1 \in 1..Len(w) /\ call \in Calls
      /\ InLine(None, w) = Range(v) \cup {call}
      /\ \A j \in 1..Len(v) : \E k \in 1..Len(w) : v[j] = w[k] /\ 1 < k
  BY HeadLeaves
<1>2. /\ Registered(subscribers, topics) /\ Line(w, cl, ca, se) /\ Streams(None, w, cl, se, subscribers)
      /\ Promises(None, w, se, pr, subscribers, topics) /\ Closing(None, w, cl, subscribers)
  BY DEF Facts
<1>3. /\ call.kind = "subscribe" /\ op' = None /\ UNCHANGED <<buffer, got>>
      /\ \/ UNCHANGED <<subscribers, topics, joined>>
         \/ /\ ~(Cardinality(subscribers) >= limit)
            /\ subscribers' = subscribers \cup {sub} /\ joined' = joined \cup {sub}
            /\ topics' = [t \in Topics |-> topics[t] \cup (IF t \in call.topics THEN {sub} ELSE {})]
  BY DEF RunSubscribe, registry
<1> HIDE DEF call, v
<1>4. /\ waiting' = v /\ closed' = cl /\ called' = ca /\ sent' = se /\ promised' = pr
      /\ subClosed' = subClosed /\ aborted' = aborted
      /\ bufferSize' = bufferSize /\ limit' = limit /\ unsubs' \in [Subs -> 0..MaxUnsubs]
  BY DEF Settled, v
<1>5. /\ sub \in ca /\ sub \in Subs /\ sub \notin joined
      /\ \A j \in 1..Len(v) : v[j].kind = "subscribe" => v[j].sub # sub
  <2>1. sub \in ca /\ sub \notin joined /\ ca \subseteq Subs
    BY <1>1, <1>2, <1>3 DEF Line, Types
  <2>2. ASSUME NEW j \in 1..Len(v), v[j].kind = "subscribe" PROVE v[j].sub # sub
    <3>1. PICK k \in 1..Len(w) : v[j] = w[k] /\ 1 < k
      BY <1>1
    <3>2. w[1].kind = "subscribe" /\ w[k].kind = "subscribe" /\ w[1].sub = sub
      BY <1>1, <1>3, <2>2, <3>1
    <3>3. w[1].sub # w[k].sub
      BY <1>1, <1>2, <3>1, <3>2 DEF Line
    <3> QED BY <3>1, <3>2, <3>3
  <2> QED BY <2>1, <2>2
<1>6. \A s \in Subs : Ended(s)' <=> Ended(s)
  BY <1>3, <1>4 DEF Ended
<1>7. /\ \A t \in Topics : topics[t] \subseteq topics'[t] /\ topics'[t] \subseteq topics[t] \cup {sub}
      /\ topics' \in [Topics -> SUBSET Subs]
      /\ subscribers \subseteq subscribers' /\ subscribers' \subseteq subscribers \cup {sub}
      /\ joined \subseteq joined' /\ joined' \subseteq joined \cup {sub}
      /\ joined' \ subscribers' = joined \ subscribers
      /\ \A t \in Topics : topics'[t] \subseteq subscribers'
      /\ subscribers' \subseteq joined'
  BY <1>1, <1>2, <1>3, <1>5 DEF Types, Registered
<1>8. Types(v, cl, ca, se, pr, subscribers, topics)'
  BY <1>1, <1>3, <1>4, <1>5, <1>7 DEF Types
<1>9. Registered(subscribers, topics)'
  <2>1. IsFiniteSet(subscribers') /\ Cardinality(subscribers') <= limit
    <3>1. limit \in Nat /\ IsFiniteSet(subscribers) /\ Cardinality(subscribers) <= limit
          /\ Cardinality(subscribers) \in Nat
      BY <1>1, <1>2, FS_CardinalityType, ChannelAssumption DEF Registered, Types
    <3>2. CASE subscribers' = subscribers
      BY <3>1, <3>2
    <3>3. CASE ~(Cardinality(subscribers) >= limit) /\ subscribers' = subscribers \cup {sub}
      <4>1. sub \notin subscribers
        BY <1>2, <1>5 DEF Registered
      <4>2. IsFiniteSet(subscribers') /\ Cardinality(subscribers') = Cardinality(subscribers) + 1
        BY <3>1, <3>3, <4>1, FS_AddElement
      <4> QED BY <3>1, <3>3, <4>2
    <3> QED BY <1>3, <3>2, <3>3
  <2>2. \A s \in Subs \ joined' : ~(Ended(s)')
    BY <1>2, <1>6, <1>7 DEF Registered
  <2> QED BY <1>3, <1>4, <1>7, <2>1, <2>2 DEF Registered, Ended
<1>10. Line(v, cl, ca, se)'
  <2>1. \A j \in 1..Len(v) : v[j].kind = "subscribe" => v[j].sub \in ca \ joined'
    BY <1>1, <1>5, <1>7 DEF Line
  <2>2. \A j \in 1..Len(v) : v[j].kind = "unsubscribe" => v[j].sub \in joined'
    BY <1>1, <1>7 DEF Line
  <2> QED BY <1>1, <2>1, <2>2 DEF Line
<1>11. Sending(op, v, cl, se, subscribers)'
  BY <1>3 DEF Sending
<1>12. InLine(op, v)' \subseteq InLine(None, w) /\ InLine(None, w) \subseteq InLine(op, v)' \cup {call}
  BY <1>1, <1>3 DEF InLine
<1>13. Streams(op, v, cl, se, subscribers)'
  <2> SUFFICES ASSUME NEW s \in Subs
               PROVE  /\ Ordered(buffer[s])
                      /\ s \in subClosed => Range(buffer[s]) \subseteq {None}
                      /\ \A e \in Range(buffer[s]) \ {None} :
                           e <= se /\ \A i \in 1..Len(v) : v[i].kind = "publish" => e < v[i].msg
                      /\ Ended(s) => s \notin subscribers'
    BY <1>3, <1>4 DEF Streams, Ordered, Ended
  <2>1. ASSUME NEW e \in Range(buffer[s]) \ {None}
        PROVE  e <= se /\ \A i \in 1..Len(v) : v[i].kind = "publish" => e < v[i].msg
    <3>1. e <= se /\ \A i \in 1..Len(w) : w[i].kind = "publish" => e < w[i].msg
      BY <1>2 DEF Streams
    <3> QED BY <1>1, <3>1
  <2>2. Ended(s) => s \notin subscribers'
    <3>1. Ended(s) => s \notin subscribers
      BY <1>1, <1>2, <1>3 DEF Streams
    <3>2. ~Ended(sub)
      BY <1>2, <1>5 DEF Registered
    <3> QED BY <1>7, <3>1, <3>2
  <2> QED BY <1>2, <2>1, <2>2 DEF Streams
<1>14. Promises(op, v, se, pr, subscribers, topics)'
  <2>1. \A m \in 1..se : (\A c \in InLine(op, v)' \cup aborted : c.kind = "publish" => c.msg # m)
                            => \A s \in pr[m] : m \in got[s]
    <3>1. \A m : (\A c \in InLine(op, v)' \cup aborted : c.kind = "publish" => c.msg # m)
                  => \A c \in InLine(None, w) \cup aborted : c.kind = "publish" => c.msg # m
      BY <1>3, <1>12
    <3> QED BY <1>2, <3>1 DEF Promises
  <2>2. LinePromises(v, pr, subscribers, topics)'
    <3>1. \A i \in 1..Len(v) : v[i].kind = "publish" =>
            Reached(v[i].topic, subscribers, topics) \subseteq Reached(v[i].topic, subscribers', topics')
      <4> SUFFICES ASSUME NEW i \in 1..Len(v), v[i].kind = "publish"
                   PROVE  Reached(v[i].topic, subscribers, topics)
                            \subseteq Reached(v[i].topic, subscribers', topics')
        OBVIOUS
      <4>1. v[i] \in Calls
        BY <1>1, LineMembers DEF Types
      <4>2. v[i].topic \in Topics \cup {AllTopics}
        BY <4>1 DEF Calls
      <4> QED BY <1>7, <4>2 DEF Reached
    <3>2. ASSUME NEW i \in 1..Len(v), v[i].kind = "publish", NEW s \in pr[v[i].msg]
          PROVE  /\ s \in Reached(v[i].topic, subscribers', topics')
                 /\ \A j \in 1..i - 1 : v[j].kind = "unsubscribe" => v[j].sub # s
      BY <1>1, <3>1, <3>2 DEF LinePromises
    <3> QED BY <3>2 DEF LinePromises, Reached
  <2> QED BY <1>3, <1>4, <2>1, <2>2 DEF Promises, InLine
<1>15. Closing(op, v, cl, subscribers)'
  <2>1. cl => \E c \in InLine(op, v)' \cup aborted : c.kind = "close"
    <3>1. cl => \E c \in InLine(None, w) \cup aborted : c.kind = "close"
      BY <1>1, <1>2, <1>3 DEF Closing
    <3> QED BY <1>3, <1>12, <3>1
  <2>2. \A s \in joined \ subscribers : Ended(s) \/ \E c \in aborted : c.kind = "unsubscribe"
    BY <1>2 DEF Closing
  <2> QED BY <1>3, <1>4, <1>7, <2>1, <2>2 DEF Closing, Ended, InLine
<1> QED BY <1>3, <1>4, <1>8, <1>9, <1>10, <1>11, <1>13, <1>14, <1>15 DEF ChannelInv, Facts

\* The first of the line runs: the others send.
LEMMA RunKeeps ==
  ASSUME NEW w, NEW cl, NEW ca, NEW se, NEW pr,
         Facts(None, w, cl, ca, se, pr, subscribers, topics), w # <<>>,
         Run(Head(w)), Settled(Tail(w), cl, ca, se, pr)
  PROVE  ChannelInv'
<1> DEFINE call == Head(w)
           v == Tail(w)
<1>1. CASE RunSubscribe(call)
  BY <1>1, SubscribeRuns
<1>2. CASE RunUnsubscribe(call)
  <2> DEFINE S == subscribers \ {call.sub}
             T == [t \in Topics |-> topics[t] \ {call.sub}]
  <2>1. /\ call.kind = "unsubscribe" /\ SendAll(call, None, {call.sub}, {}) /\ UNCHANGED joined
        /\ subscribers' = S /\ topics' = T
    BY <1>2 DEF RunUnsubscribe
  <2>2a. PICK o : Sends(o, call, None, {call.sub})
    BY HolderExists
  <2>2. o # None /\ o.call = call /\ o.msg = None /\ o.to = {call.sub}
    BY <2>2a DEF Sends
  <2>3. Facts(o, v, cl, ca, se, pr, S, T)
    BY <2>1, <2>2, GrantUnsubscribe
  <2>4. SendAll(o.call, o.msg, o.to, {}) /\ Settled(v, cl, ca, se, pr) /\ o.call.kind = "unsubscribe"
    BY <2>1, <2>2
  <2>5. IF o.call.kind = "close" /\ op' = None
        THEN subscribers' = {} /\ topics' = [t \in Topics |-> {}]
        ELSE subscribers' = S /\ topics' = T
    BY <2>1, <2>4
  <2> HIDE DEF S, T, call, v
  <2> QED BY <2>1, <2>2, <2>3, <2>4, <2>5, SendKeeps
<1>3. CASE RunPublish(call)
  <2>1. /\ call.kind = "publish" /\ SendAll(call, call.msg, Reached(call.topic, subscribers, topics), {})
        /\ UNCHANGED joined /\ subscribers' = subscribers /\ topics' = topics
    BY <1>3 DEF RunPublish, Audience, Reached, registry
  <2>2a. PICK o : Sends(o, call, call.msg, Reached(call.topic, subscribers, topics))
    BY HolderExists
  <2>2. o # None /\ o.call = call /\ o.msg = call.msg /\ o.to = Reached(call.topic, subscribers, topics)
    BY <2>2a DEF Sends
  <2>3. Facts(o, v, cl, ca, se, pr, subscribers, topics)
    BY <2>1, <2>2, GrantPublish
  <2>4. SendAll(o.call, o.msg, o.to, {}) /\ Settled(v, cl, ca, se, pr) /\ o.call.kind = "publish"
    BY <2>1, <2>2
  <2>5. IF o.call.kind = "close" /\ op' = None
        THEN subscribers' = {} /\ topics' = [t \in Topics |-> {}]
        ELSE subscribers' = subscribers /\ topics' = topics
    BY <2>1, <2>4
  <2> HIDE DEF call, v
  <2> QED BY <2>1, <2>2, <2>3, <2>4, <2>5, SendKeeps
<1>4. CASE RunClose(call)
  <2>1. /\ call.kind = "close" /\ SendAll(call, None, subscribers, {}) /\ ClearIfClosed(call)
    BY <1>4 DEF RunClose
  <2>2a. PICK o : Sends(o, call, None, subscribers)
    BY HolderExists
  <2>2. o # None /\ o.call = call /\ o.msg = None /\ o.to = subscribers
    BY <2>2a DEF Sends
  <2>3. Facts(o, v, cl, ca, se, pr, subscribers, topics)
    BY <2>1, <2>2, GrantClose
  <2>4. SendAll(o.call, o.msg, o.to, {}) /\ Settled(v, cl, ca, se, pr) /\ o.call.kind = "close"
    BY <2>1, <2>2
  <2>5. /\ UNCHANGED joined
        /\ IF o.call.kind = "close" /\ op' = None
           THEN subscribers' = {} /\ topics' = [t \in Topics |-> {}]
           ELSE subscribers' = subscribers /\ topics' = topics
    BY <2>1, <2>4 DEF ClearIfClosed, registry
  <2> HIDE DEF call, v
  <2> QED BY <2>2, <2>3, <2>4, <2>5, SendKeeps
<1> QED BY <1>1, <1>2, <1>3, <1>4 DEF Run

\* A call is made: it runs at once, or joins the line.
LEMMA AcquireKeeps ==
  ASSUME ChannelInv, NEW call, Entering(call, closed', called', sent', promised'), Acquire(call),
         UNCHANGED <<settings, subClosed, aborted>>, unsubs' \in [Subs -> 0..MaxUnsubs]
  PROVE  ChannelInv'
<1> DEFINE w == Append(waiting, call)
<1>1. Facts(op, w, closed', called', sent', promised', subscribers, topics)
  BY EnterKeeps
<1>2. bufferSize' = bufferSize /\ limit' = limit /\ subClosed' = subClosed /\ aborted' = aborted
  BY DEF settings
<1>3. CASE op = None /\ waiting = <<>> /\ Run(call) /\ UNCHANGED waiting
  <2>1. w # <<>> /\ Head(w) = call /\ Tail(w) = <<>>
    BY <1>3
  <2>2. Settled(Tail(w), closed', called', sent', promised')
    BY <1>2, <1>3, <2>1 DEF Settled
  <2>3. Facts(None, w, closed', called', sent', promised', subscribers, topics) /\ Run(Head(w))
    BY <1>1, <1>3, <2>1
  <2> HIDE DEF w
  <2> QED BY <2>1, <2>2, <2>3, RunKeeps
<1>4. CASE waiting' = w /\ UNCHANGED <<registry, buffer, op, got>>
  <2>1. /\ waiting' = w /\ subscribers' = subscribers /\ topics' = topics /\ joined' = joined
        /\ buffer' = buffer /\ op' = op /\ got' = got
    BY <1>4 DEF registry
  <2> HIDE DEF w
  <2>2. Types(waiting, closed, called, sent, promised, subscribers, topics)'
    BY <1>1, <1>2, <2>1 DEF Facts, Types
  <2>3. Registered(subscribers, topics)' /\ Line(waiting, closed, called, sent)'
    BY <1>1, <1>2, <2>1 DEF Facts, Registered, Line, Ended
  <2>4. Sending(op, waiting, closed, sent, subscribers)'
    BY <1>1, <1>2, <2>1 DEF Facts, Sending, Ended
  <2>5. Streams(op, waiting, closed, sent, subscribers)'
    BY <1>1, <1>2, <2>1 DEF Facts, Streams, Ended, Ordered, InLine
  <2>6. Promises(op, waiting, sent, promised, subscribers, topics)'
    BY <1>1, <1>2, <2>1 DEF Facts, Promises, LinePromises, Reached, InLine
  <2>7. Closing(op, waiting, closed, subscribers)'
    BY <1>1, <1>2, <2>1 DEF Facts, Closing, Ended, InLine
  <2>8. op' \in Holders \cup {None} /\ (op' # None => op'.on \in op'.to)
    BY <2>1 DEF ChannelInv
  <2> QED BY <2>2, <2>3, <2>4, <2>5, <2>6, <2>7, <2>8 DEF ChannelInv, Facts
<1> QED BY <1>3, <1>4 DEF Acquire

-----------------------------------------------------------------------------
(* The actions. *)

\* subscribe(): a subscriber nobody has asked for.
LEMMA SubscribeKeeps ==
  ASSUME ChannelInv, NEW s \in Subs, NEW X \in SUBSET Topics, Subscribe(s, X)
  PROVE  ChannelInv'
<1> DEFINE call == [kind |-> "subscribe", sub |-> s, topics |-> X, by |-> None]
<1>1. /\ closed' = closed /\ ~closed /\ called' = called \cup {s} /\ s \notin called
      /\ sent' = sent /\ promised' = promised /\ unsubs' = unsubs
      /\ UNCHANGED <<settings, subClosed, aborted>> /\ Acquire(call)
  BY DEF Subscribe
<1>2. call \in Calls /\ call.kind = "subscribe" /\ call.sub = s
  BY DEF Calls
<1>3. /\ closed \in BOOLEAN /\ called \subseteq Subs /\ sent \in 0..MaxMsgs
      /\ promised \in [Msgs -> SUBSET Subs] /\ unsubs \in [Subs -> 0..MaxUnsubs]
  BY DEF ChannelInv, Facts, Types
<1> HIDE DEF call
<1>4. Entering(call, closed', called', sent', promised')
  BY <1>1, <1>2, <1>3 DEF Entering
<1> QED BY <1>1, <1>3, <1>4, AcquireKeeps

\* publish(): the next message.
LEMMA PublishKeeps ==
  ASSUME ChannelInv, NEW t \in Topics \cup {AllTopics}, NEW by \in Callers, Publish(t, by)
  PROVE  ChannelInv'
<1> DEFINE call == [kind |-> "publish", msg |-> sent + 1, topic |-> t, by |-> by]
           due == {s \in Audience(t) : \A c \in Pending : c.kind = "unsubscribe" => c.sub # s}
<1>1. /\ closed' = closed /\ ~closed /\ called' = called /\ unsubs' = unsubs
      /\ sent < MaxMsgs /\ sent' = sent + 1 /\ promised' = [promised EXCEPT ![sent + 1] = due]
      /\ UNCHANGED <<settings, subClosed, aborted>> /\ Acquire(call)
  BY DEF Publish
<1>2. /\ closed \in BOOLEAN /\ called \subseteq Subs /\ sent \in 0..MaxMsgs /\ MaxMsgs \in Nat
      /\ promised \in [Msgs -> SUBSET Subs] /\ unsubs \in [Subs -> 0..MaxUnsubs]
      /\ joined \subseteq Subs /\ subscribers \subseteq Subs /\ topics \in [Topics -> SUBSET Subs]
  BY ChannelAssumption DEF ChannelInv, Facts, Types
<1>3. sent + 1 \in Msgs /\ sent + 1 \in 0..MaxMsgs /\ \A m \in 1..sent : m \in Msgs /\ m # sent + 1
  BY <1>1, <1>2 DEF Msgs
<1>4. call \in Calls /\ call.kind = "publish" /\ call.msg = sent + 1 /\ call.topic = t
  BY <1>2, <1>3 DEF Calls, Callers
<1>5. due \in SUBSET Subs
  BY <1>2 DEF Audience
<1>6. /\ \A s \in due : /\ s \in Audience(t)
                        /\ \A c \in Pending : c.kind = "unsubscribe" => c.sub # s
  OBVIOUS
<1> HIDE DEF call, due
<1>7. /\ promised' \in [Msgs -> SUBSET Subs] /\ promised'[sent + 1] = due
      /\ \A m \in 1..sent : promised'[m] = promised[m]
  BY <1>1, <1>2, <1>3, <1>5
<1>8. Entering(call, closed', called', sent', promised')
  BY <1>1, <1>2, <1>3, <1>4, <1>6, <1>7 DEF Entering
<1> QED BY <1>1, <1>2, <1>8, AcquireKeeps

\* unsubscribe(): of a subscriber that was returned.
LEMMA UnsubscribeKeeps ==
  ASSUME ChannelInv, NEW s \in Subs, NEW by \in Callers, Unsubscribe(s, by)
  PROVE  ChannelInv'
<1> DEFINE call == [kind |-> "unsubscribe", sub |-> s, by |-> by]
<1>1. /\ closed' = closed /\ called' = called /\ sent' = sent /\ promised' = promised
      /\ s \in joined /\ unsubs[s] < MaxUnsubs /\ unsubs' = [unsubs EXCEPT ![s] = @ + 1]
      /\ UNCHANGED <<settings, subClosed, aborted>> /\ Acquire(call)
  BY DEF Unsubscribe
<1>2. /\ closed \in BOOLEAN /\ called \subseteq Subs /\ sent \in 0..MaxMsgs
      /\ promised \in [Msgs -> SUBSET Subs] /\ unsubs \in [Subs -> 0..MaxUnsubs] /\ joined \subseteq Subs
      /\ MaxUnsubs \in Nat
  BY ChannelAssumption DEF ChannelInv, Facts, Types
<1>3. call \in Calls /\ call.kind = "unsubscribe" /\ call.sub = s
  BY <1>2 DEF Calls, Callers
<1>4. unsubs' \in [Subs -> 0..MaxUnsubs]
  BY <1>1, <1>2
<1> HIDE DEF call
<1>5. Entering(call, closed', called', sent', promised')
  BY <1>1, <1>2, <1>3 DEF Entering
<1> QED BY <1>1, <1>4, <1>5, AcquireKeeps

\* close(): the first one.
LEMMA CloseKeeps ==
  ASSUME ChannelInv, NEW by \in Callers, Close(by)
  PROVE  ChannelInv'
<1> DEFINE call == [kind |-> "close", by |-> by]
<1>1. /\ closed' = TRUE /\ ~closed /\ called' = called /\ sent' = sent /\ promised' = promised
      /\ unsubs' = unsubs /\ UNCHANGED <<settings, subClosed, aborted>> /\ Acquire(call)
  BY DEF Close, history
<1>2. /\ called \subseteq Subs /\ sent \in 0..MaxMsgs
      /\ promised \in [Msgs -> SUBSET Subs] /\ unsubs \in [Subs -> 0..MaxUnsubs] /\ joined \subseteq Subs
  BY DEF ChannelInv, Facts, Types
<1>3. call \in Calls /\ call.kind = "close"
  BY <1>2 DEF Calls, Callers
<1> HIDE DEF call
<1>4. Entering(call, closed', called', sent', promised')
  BY <1>1, <1>2, <1>3 DEF Entering
<1> QED BY <1>1, <1>2, <1>4, AcquireKeeps

\* The lock is granted to the first call in line.
LEMMA GrantedKeeps ==
  ASSUME ChannelInv, Granted
  PROVE  ChannelInv'
<1>1. /\ op = None /\ waiting # <<>> /\ Run(Head(waiting)) /\ waiting' = Tail(waiting)
      /\ closed' = closed /\ called' = called /\ sent' = sent /\ promised' = promised
      /\ subClosed' = subClosed /\ aborted' = aborted /\ bufferSize' = bufferSize
      /\ limit' = limit /\ unsubs' = unsubs
  BY DEF Granted, settings, history
<1>2. Settled(Tail(waiting), closed, called, sent, promised)
  BY <1>1 DEF Settled, ChannelInv
<1>3. Facts(None, waiting, closed, called, sent, promised, subscribers, topics)
  BY <1>1 DEF ChannelInv
<1> QED BY <1>1, <1>2, <1>3, RunKeeps

\* The holder goes on sending.
LEMMA RoomFoundKeeps ==
  ASSUME ChannelInv, RoomFound
  PROVE  ChannelInv'
<1>1. /\ op # None /\ SendAll(op.call, op.msg, op.to, {op.on}) /\ waiting' = waiting
      /\ closed' = closed /\ called' = called /\ sent' = sent /\ promised' = promised
      /\ subClosed' = subClosed /\ aborted' = aborted /\ bufferSize' = bufferSize
      /\ limit' = limit /\ unsubs' = unsubs
  BY DEF RoomFound, settings, history
<1>2. Settled(waiting, closed, called, sent, promised)
  BY <1>1 DEF Settled, ChannelInv
<1>3. /\ UNCHANGED joined
      /\ IF op.call.kind = "close" /\ op' = None
         THEN subscribers' = {} /\ topics' = [t \in Topics |-> {}]
         ELSE subscribers' = subscribers /\ topics' = topics
  BY DEF RoomFound, ClearIfClosed, registry
<1>4. Facts(op, waiting, closed, called, sent, promised, subscribers, topics)
  BY DEF ChannelInv
<1> QED BY <1>1, <1>2, <1>3, <1>4, SendKeeps

\* receive(): who reads an end marker keeps it in _closed.
LEMMA ReceiveKeeps ==
  ASSUME ChannelInv, NEW r \in Subs, Receive(r)
  PROVE  ChannelInv'
<1> DEFINE Ended1(s) == s \in subClosed' \/ None \in Range(buffer'[s])
<1>1. /\ Types(waiting, closed, called, sent, promised, subscribers, topics)
      /\ Registered(subscribers, topics) /\ Line(waiting, closed, called, sent)
      /\ Sending(op, waiting, closed, sent, subscribers)
      /\ Streams(op, waiting, closed, sent, subscribers)
      /\ Promises(op, waiting, sent, promised, subscribers, topics)
      /\ Closing(op, waiting, closed, subscribers)
      /\ op \in Holders \cup {None} /\ (op # None => op.on \in op.to)
      /\ unsubs \in [Subs -> 0..MaxUnsubs]
  BY DEF ChannelInv, Facts
<1>2. /\ buffer[r] # <<>> /\ buffer' = [buffer EXCEPT ![r] = Tail(buffer[r])]
      /\ subClosed' = IF Head(buffer[r]) = None THEN subClosed \cup {r} ELSE subClosed
      /\ r \notin subClosed
      /\ bufferSize' = bufferSize /\ limit' = limit /\ closed' = closed
      /\ subscribers' = subscribers /\ topics' = topics /\ joined' = joined /\ op' = op
      /\ waiting' = waiting /\ got' = got /\ sent' = sent /\ called' = called
      /\ unsubs' = unsubs /\ promised' = promised /\ aborted' = aborted
  BY DEF Receive, settings, registry, history
<1>3. buffer \in [Subs -> Seq(Msgs \cup {None})] /\ subClosed \subseteq Subs
  BY <1>1 DEF Types
<1>4. /\ Tail(buffer[r]) \in Seq(Msgs \cup {None})
      /\ Range(buffer[r]) = {Head(buffer[r])} \cup Range(Tail(buffer[r]))
      /\ Ordered(Tail(buffer[r])) /\ (Head(buffer[r]) = None => Range(Tail(buffer[r])) \subseteq {None})
  <2>1. buffer[r] \in Seq(Msgs \cup {None}) /\ Ordered(buffer[r])
    BY <1>1, <1>3 DEF Streams
  <2> QED BY <1>2, <2>1, TailRange, OrderedTail
<1>5. /\ buffer' \in [Subs -> Seq(Msgs \cup {None})]
      /\ buffer'[r] = Tail(buffer[r]) /\ \A s \in Subs \ {r} : buffer'[s] = buffer[s]
  BY <1>2, <1>3, <1>4
<1>6. \A s \in Subs : Ended1(s) <=> Ended(s)
  BY <1>2, <1>4, <1>5 DEF Ended
<1>7. \A s \in Subs : Range(buffer'[s]) \subseteq Range(buffer[s])
  BY <1>4, <1>5
<1>8. \A s \in Subs : Ordered(buffer'[s])
  BY <1>1, <1>4, <1>5 DEF Streams
<1>9. \A s \in Subs : s \in subClosed' => Range(buffer'[s]) \subseteq {None}
  <2> SUFFICES ASSUME NEW s \in Subs, s \in subClosed' PROVE Range(buffer'[s]) \subseteq {None}
    OBVIOUS
  <2>1. s \in subClosed => Range(buffer[s]) \subseteq {None}
    BY <1>1 DEF Streams
  <2> QED BY <1>2, <1>4, <1>5, <2>1
<1> HIDE DEF Ended1
<1>10. Types(waiting, closed, called, sent, promised, subscribers, topics)'
  BY <1>1, <1>2, <1>5 DEF Types
<1>11. Registered(subscribers, topics)'
  BY <1>1, <1>2, <1>6 DEF Registered, Ended, Ended1
<1>12. Line(waiting, closed, called, sent)'
  BY <1>1, <1>2 DEF Line
<1>13. Sending(op, waiting, closed, sent, subscribers)'
  <2>1. \A s \in subscribers : s \in Subs
    BY <1>1 DEF Types
  <2>2. \A s \in subscribers : Ended(s) => Ended1(s)
    BY <1>6, <2>1
  <2> QED BY <1>1, <1>2, <2>2 DEF Sending, Ended1, Ended
<1>14. Streams(op, waiting, closed, sent, subscribers)'
  <2>1. \A s \in Subs : Ended1(s) /\ s \in subscribers =>
           closed /\ \A c \in InLine(op, waiting) : c.kind \in {"unsubscribe", "close"}
    BY <1>1, <1>6 DEF Streams
  <2>2. \A s \in Subs : \A e \in Range(buffer'[s]) \ {None} :
          /\ e <= sent
          /\ \A i \in 1..Len(waiting) : waiting[i].kind = "publish" => e < waiting[i].msg
          /\ op # None /\ op.call.kind = "publish" => e <= op.msg /\ (s \in op.to => e < op.msg)
    BY <1>1, <1>7 DEF Streams
  <2> QED BY <1>2, <1>8, <1>9, <2>1, <2>2 DEF Streams, Ordered, InLine, Ended, Ended1
<1>15. Promises(op, waiting, sent, promised, subscribers, topics)'
  BY <1>1, <1>2 DEF Promises, LinePromises, Reached, InLine
<1>16. Closing(op, waiting, closed, subscribers)'
  <2>1. \A s \in joined \ subscribers : Ended(s) => Ended1(s)
    BY <1>1, <1>6 DEF Types
  <2> QED BY <1>1, <1>2, <2>1 DEF Closing, Ended, Ended1, InLine
<1> QED BY <1>1, <1>2, <1>10, <1>11, <1>12, <1>13, <1>14, <1>15, <1>16 DEF ChannelInv, Facts

\* A call is cancelled, and is an excuse for what it leaves undone.
LEMMA CancelKeeps ==
  ASSUME ChannelInv, Cancel
  PROVE  ChannelInv'
<1>1. /\ Types(waiting, closed, called, sent, promised, subscribers, topics)
      /\ Registered(subscribers, topics) /\ Line(waiting, closed, called, sent)
      /\ Sending(op, waiting, closed, sent, subscribers)
      /\ Streams(op, waiting, closed, sent, subscribers)
      /\ Promises(op, waiting, sent, promised, subscribers, topics)
      /\ Closing(op, waiting, closed, subscribers)
      /\ op \in Holders \cup {None} /\ (op # None => op.on \in op.to)
      /\ unsubs \in [Subs -> 0..MaxUnsubs]
  BY DEF ChannelInv, Facts
<1>2. /\ bufferSize' = bufferSize /\ limit' = limit /\ closed' = closed
      /\ subscribers' = subscribers /\ topics' = topics /\ joined' = joined
      /\ buffer' = buffer /\ subClosed' = subClosed /\ got' = got /\ sent' = sent
      /\ called' = called /\ unsubs' = unsubs /\ promised' = promised
  BY DEF Cancel, settings, registry
<1>3. waiting \in Seq(Calls) /\ aborted \subseteq Calls /\ LinePromises(waiting, promised, subscribers, topics)
  BY <1>1 DEF Types, Promises
<1>4. /\ InLine(op', waiting') \cup aborted' = InLine(op, waiting) \cup aborted
      /\ InLine(op', waiting') \subseteq InLine(op, waiting)
      /\ op' = None \/ op' = op
      /\ op # None /\ op' = None => op.call \in aborted'
      /\ aborted' \subseteq Calls /\ aborted \subseteq aborted' /\ waiting' \in Seq(Calls)
      /\ \A j \in 1..Len(waiting') : \E k \in 1..Len(waiting) : waiting'[j] = waiting[k]
      /\ Line(waiting', closed, called, sent)
      /\ LinePromises(waiting', promised, subscribers, topics)
  <2>1. CASE CancelHolder
    <3>1. op # None /\ aborted' = aborted \cup {op.call} /\ op' = None /\ waiting' = waiting
      BY <2>1 DEF CancelHolder
    <3>2. op.call \in Calls
      BY <1>1, <3>1 DEF Sending
    <3> QED BY <1>1, <1>3, <3>1, <3>2 DEF InLine
  <2>2. CASE \E i \in 1..Len(waiting) : CancelWaiting(i)
    <3>1. PICK i \in 1..Len(waiting) : /\ aborted' = aborted \cup {waiting[i]}
                                       /\ waiting' = RemoveAt(waiting, i) /\ op' = op
      BY <2>2 DEF CancelWaiting
    <3>2. /\ waiting' \in Seq(Calls) /\ waiting[i] \in Calls
          /\ Range(waiting) = Range(waiting') \cup {waiting[i]}
          /\ \A j \in 1..Len(waiting') : \E k \in 1..Len(waiting) : waiting'[j] = waiting[k]
      <4>1. PICK w, v : w = waiting /\ v = waiting'
        OBVIOUS
      <4>2. w \in Seq(Calls) /\ i \in 1..Len(w) /\ v = RemoveAt(w, i)
        BY <1>3, <3>1, <4>1
      <4>3. /\ v \in Seq(Calls) /\ w[i] \in Calls /\ Range(w) = Range(v) \cup {w[i]}
            /\ \A j \in 1..Len(v) : \E k \in 1..Len(w) : v[j] = w[k]
        <5>1. /\ RemoveAt(w, i) \in Seq(Calls) /\ w[i] \in Calls
              /\ Range(w) = Range(RemoveAt(w, i)) \cup {w[i]}
          BY <4>2, LineWithout
        <5>2. \A j \in 1..Len(RemoveAt(w, i)) : \E k \in 1..Len(w) :
                RemoveAt(w, i)[j] = w[k] /\ k # i /\ k = (IF j < i THEN j ELSE j + 1)
          BY <4>2, LineWithout, Zenon
        <5>3. \A j \in 1..Len(v) : \E k \in 1..Len(w) : v[j] = w[k]
          BY <4>2, <5>2, Zenon
        <5> QED BY <4>2, <5>1, <5>3
      <4> QED BY <4>1, <4>3
    <3>3. Line(waiting', closed, called, sent) /\ LinePromises(waiting', promised, subscribers, topics)
      BY <1>1, <1>3, <3>1, LeaveLine
    <3>4. op # None /\ op' = None => op.call \in aborted'
      BY <3>1
    <3> QED BY <1>3, <3>1, <3>2, <3>3, <3>4 DEF InLine
  <2> QED BY <2>1, <2>2 DEF Cancel
<1>5. Types(waiting, closed, called, sent, promised, subscribers, topics)'
  BY <1>1, <1>2, <1>4 DEF Types
<1>6. Registered(subscribers, topics)' /\ Line(waiting, closed, called, sent)'
  BY <1>1, <1>2, <1>4 DEF Registered, Line, Ended
<1>7. Sending(op, waiting, closed, sent, subscribers)'
  <2>1. CASE op' = None
    BY <2>1 DEF Sending
  <2>2. CASE op' = op
    BY <1>1, <1>2, <1>4, <2>2 DEF Sending, Ended
  <2> QED BY <1>4, <2>1, <2>2
<1>8. Streams(op, waiting, closed, sent, subscribers)'
  <2>1. \A s \in Subs : Ended(s) /\ s \in subscribers =>
           closed /\ \A c \in InLine(op', waiting') : c.kind \in {"unsubscribe", "close"}
    BY <1>1, <1>4 DEF Streams
  <2>2. ASSUME NEW s \in Subs, NEW e \in Range(buffer[s]) \ {None}
        PROVE  /\ e <= sent
               /\ \A i \in 1..Len(waiting') : waiting'[i].kind = "publish" => e < waiting'[i].msg
               /\ op' # None /\ op'.call.kind = "publish" =>
                    e <= op'.msg /\ (s \in op'.to => e < op'.msg)
    BY <1>1, <1>4 DEF Streams
  <2>3. \A s \in Subs : Ordered(buffer[s]) /\ (s \in subClosed => Range(buffer[s]) \subseteq {None})
    BY <1>1 DEF Streams
  <2> QED BY <1>2, <2>1, <2>2, <2>3 DEF Streams, Ordered, InLine, Ended
<1>9. Promises(op, waiting, sent, promised, subscribers, topics)'
  <2>1. \A m \in 1..sent :
          (\A c \in InLine(op', waiting') \cup aborted' : c.kind = "publish" => c.msg # m)
            => \A s \in promised[m] : m \in got[s]
    BY <1>1, <1>4 DEF Promises
  <2>2. op' # None /\ op'.call.kind = "publish" =>
          \A s \in promised[op'.msg] : s \in op'.to \/ op'.msg \in got[s]
    BY <1>1, <1>4 DEF Promises
  <2> QED BY <1>2, <1>4, <2>1, <2>2 DEF Promises, LinePromises, Reached, InLine
<1>10. Closing(op, waiting, closed, subscribers)'
  <2>1. closed => \/ \E c \in InLine(op', waiting') \cup aborted' : c.kind = "close"
                  \/ subscribers = {} /\ \A c \in InLine(op', waiting') : c.kind = "unsubscribe"
    BY <1>1, <1>4 DEF Closing
  <2>2. \A s \in joined \ subscribers :
          \/ Ended(s)
          \/ op' # None /\ op'.call.kind = "unsubscribe" /\ s \in op'.to
          \/ \E c \in aborted' : c.kind = "unsubscribe"
    BY <1>1, <1>4 DEF Closing
  <2> QED BY <1>2, <2>1, <2>2 DEF Closing, Ended, InLine
<1>11. op' \in Holders \cup {None} /\ (op' # None => op'.on \in op'.to)
  BY <1>1, <1>4
<1> QED BY <1>1, <1>2, <1>5, <1>6, <1>7, <1>8, <1>9, <1>10, <1>11 DEF ChannelInv, Facts

\* The invariant holds when the channel is made.
LEMMA ChannelInitially ==
  ASSUME ChannelInit PROVE ChannelInv
<1>1. /\ bufferSize \in BufferSizes /\ limit \in Limits /\ closed = FALSE
      /\ subscribers = {} /\ topics = [t \in Topics |-> {}] /\ joined = {}
      /\ buffer = [s \in Subs |-> <<>>] /\ subClosed = {} /\ op = None
      /\ sent = 0 /\ called = {} /\ unsubs = [s \in Subs |-> 0]
      /\ promised = [m \in Msgs |-> {}] /\ got = [s \in Subs |-> {}] /\ aborted = {}
  BY DEF ChannelInit
<1>2. /\ waiting \in Seq(Calls) /\ Len(waiting) = 0 /\ Range(waiting) = {}
      /\ \A s \in Subs : /\ buffer[s] \in Seq(Msgs \cup {None}) /\ Len(buffer[s]) = 0
                         /\ Range(buffer[s]) = {}
  <2>1. /\ <<>> \in Seq(Calls) /\ Len(<<>>) = 0 /\ Range(<<>>) = {} /\ <<>> \in Seq(Msgs \cup {None})
    BY EmptySeq, EmptyRange
  <2>2. waiting = <<>> /\ \A s \in Subs : buffer[s] = <<>>
    BY DEF ChannelInit
  <2> QED BY <2>1, <2>2
<1>3. 1..Len(waiting) = {} /\ \A s \in Subs : 1..Len(buffer[s]) = {}
  BY <1>2
<1>4. buffer \in [Subs -> Seq(Msgs \cup {None})]
  <2>1. buffer = [s \in Subs |-> buffer[s]]
    BY <1>1
  <2> QED BY <1>2, <2>1
<1>5. \A s \in Subs : ~Ended(s)
  BY <1>1, <1>2 DEF Ended
<1>6. MaxMsgs \in Nat /\ MaxUnsubs \in Nat /\ limit \in Nat
  BY <1>1, ChannelAssumption
<1>7. Types(waiting, closed, called, sent, promised, subscribers, topics)
  <2>1. topics \in [Topics -> SUBSET Subs] /\ promised \in [Msgs -> SUBSET Subs]
    BY <1>1
  <2>2. got \in [Subs -> SUBSET Msgs]
    BY <1>1
  <2>3. sent \in 0..MaxMsgs /\ closed \in BOOLEAN
    <3>1. sent = 0
      BY <1>1
    <3>2. closed \in BOOLEAN
      BY <1>1, Zenon
    <3>3. sent \in 0..MaxMsgs
      BY <1>6, <3>1
    <3> QED BY <3>2, <3>3
  <2>4. joined \subseteq called /\ subClosed \subseteq Subs /\ called \subseteq Subs
        /\ aborted \subseteq Calls /\ subscribers \subseteq Subs
    BY <1>1
  <2> QED BY <1>1, <1>2, <1>4, <2>1, <2>2, <2>3, <2>4 DEF Types
<1>8. Registered(subscribers, topics)
  BY <1>1, <1>5, <1>6, FS_EmptySet DEF Registered
<1>9. Line(waiting, closed, called, sent) /\ Sending(op, waiting, closed, sent, subscribers)
  BY <1>1, <1>3 DEF Line, Sending
<1>10. Streams(op, waiting, closed, sent, subscribers)
  BY <1>1, <1>2, <1>3, <1>5 DEF Streams, Ordered
<1>11. Promises(op, waiting, sent, promised, subscribers, topics)
  <2>1. 1..sent = {}
    BY <1>1
  <2> QED BY <1>1, <1>3, <2>1 DEF Promises, LinePromises
<1>12. Closing(op, waiting, closed, subscribers)
  BY <1>1 DEF Closing
<1>13. unsubs \in [Subs -> 0..MaxUnsubs]
  BY <1>1, <1>6
<1> QED BY <1>1, <1>7, <1>8, <1>9, <1>10, <1>11, <1>12, <1>13 DEF ChannelInv, Facts

\* Every step keeps the invariant.
LEMMA ChannelStep ==
  ASSUME ChannelInv, [ChannelNext]_channelVars PROVE ChannelInv'
<1>1. CASE ChannelNext
  BY <1>1, SubscribeKeeps, PublishKeeps, UnsubscribeKeeps, CloseKeeps, GrantedKeeps,
     RoomFoundKeeps, ReceiveKeeps, CancelKeeps DEF ChannelNext
<1>2. CASE UNCHANGED channelVars
  <2>1. /\ bufferSize' = bufferSize /\ limit' = limit /\ closed' = closed
        /\ subscribers' = subscribers /\ topics' = topics /\ joined' = joined /\ op' = op
        /\ buffer' = buffer /\ subClosed' = subClosed /\ waiting' = waiting /\ got' = got
        /\ sent' = sent /\ called' = called /\ unsubs' = unsubs /\ promised' = promised
        /\ aborted' = aborted
    BY <1>2 DEF channelVars, settings, registry, history
  <2>2. Types(waiting, closed, called, sent, promised, subscribers, topics)'
    BY <2>1 DEF ChannelInv, Facts, Types
  <2>3. Registered(subscribers, topics)' /\ Line(waiting, closed, called, sent)'
    BY <2>1 DEF ChannelInv, Facts, Registered, Line, Ended
  <2>4. Sending(op, waiting, closed, sent, subscribers)'
    BY <2>1 DEF ChannelInv, Facts, Sending, Ended
  <2>5. Streams(op, waiting, closed, sent, subscribers)'
    BY <2>1 DEF ChannelInv, Facts, Streams, Ended, Ordered, InLine
  <2>6. Promises(op, waiting, sent, promised, subscribers, topics)'
    BY <2>1 DEF ChannelInv, Facts, Promises, LinePromises, Reached, InLine
  <2>7. Closing(op, waiting, closed, subscribers)'
    BY <2>1 DEF ChannelInv, Facts, Closing, Ended, InLine
  <2> QED BY <2>1, <2>2, <2>3, <2>4, <2>5, <2>6, <2>7 DEF ChannelInv, Facts
<1> QED BY <1>1, <1>2

-----------------------------------------------------------------------------
\* The invariant holds in every reachable state.
THEOREM Inductive == ChannelSpec => []ChannelInv
<1>1. ChannelInit => ChannelInv
  BY ChannelInitially
<1>2. ChannelInv /\ [ChannelNext]_channelVars => ChannelInv'
  BY ChannelStep
<1> QED BY <1>1, <1>2, PTL DEF ChannelSpec

\* Every variable has the type the code gives it.
THEOREM ChannelTypeCorrect == ChannelSpec => []ChannelTypeOK
<1>1. ChannelInv => ChannelTypeOK
  <2> SUFFICES ASSUME ChannelInv PROVE ChannelTypeOK
    OBVIOUS
  <2>1. Types(waiting, closed, called, sent, promised, subscribers, topics)
    BY DEF ChannelInv, Facts
  <2> QED BY <2>1 DEF ChannelInv, Types, ChannelTypeOK
<1> QED BY <1>1, Inductive, PTL

\* max_subscribers holds however many subscribe() calls race, and no topic keeps
\* somebody who has left.
THEOREM RegistryKept == ChannelSpec => []MembersKept
<1>1. ChannelInv => MembersKept
  BY DEF ChannelInv, Facts, Registered, MembersKept
<1> QED BY <1>1, Inductive, PTL

\* Messages are read in the order of the publish() calls, and none is put behind
\* an end marker.
THEOREM StreamsInOrder == ChannelSpec => []StreamInOrder
<1>1. ChannelInv => StreamInOrder
  <2> SUFFICES ASSUME ChannelInv, NEW s \in Subs
               PROVE  /\ Ordered(buffer[s])
                      /\ s \in subClosed => \A i \in 1..Len(buffer[s]) : buffer[s][i] = None
    BY DEF StreamInOrder, Ordered
  <2>1. Ordered(buffer[s]) /\ (s \in subClosed => Range(buffer[s]) \subseteq {None})
    BY DEF ChannelInv, Facts, Streams
  <2>2. \A i \in 1..Len(buffer[s]) : buffer[s][i] \in Range(buffer[s])
    <3>1. buffer[s] \in Seq(Msgs \cup {None})
      BY DEF ChannelInv, Facts, Types
    <3> QED BY <3>1, RangeByIndex
  <2> QED BY <2>1, <2>2
<1> QED BY <1>1, Inductive, PTL

\* A publish() that returns has reached everyone who was subscribed when it was
\* called, whatever joined, left, blocked, or closed the channel meanwhile.
THEOREM PublishReaches == ChannelSpec => []ReachesMembers
<1>1. ChannelInv => ReachesMembers
  <2> SUFFICES ASSUME ChannelInv PROVE ReachesMembers
    OBVIOUS
  <2>1. Promises(op, waiting, sent, promised, subscribers, topics)
    BY DEF ChannelInv, Facts
  <2>2. Pending = InLine(op, waiting)
    BY DEF Pending, InLine
  <2> QED BY <2>1, <2>2 DEF Promises, ReachesMembers
<1> QED BY <1>1, Inductive, PTL

\* Once close() has returned nobody is registered, and everyone that ever joined
\* has an end marker to read or has read it.
THEOREM CloseReaches == ChannelSpec => []CloseReachesAll
<1>1. ChannelInv => CloseReachesAll
  <2> SUFFICES ASSUME ChannelInv, closed,
                      \A c \in Pending \cup aborted : c.kind \notin {"close", "unsubscribe"}
               PROVE  subscribers = {} /\ \A s \in joined : Ended(s)
    BY DEF CloseReachesAll, Ended
  <2>1. Closing(op, waiting, closed, subscribers) /\ Pending = InLine(op, waiting)
    BY DEF ChannelInv, Facts, Pending, InLine
  <2>2. subscribers = {}
    BY <2>1 DEF Closing
  <2>3. op # None => op.call \in Pending
    BY DEF Pending
  <2> QED BY <2>1, <2>2, <2>3 DEF Closing
<1> QED BY <1>1, Inductive, PTL
=============================================================================
