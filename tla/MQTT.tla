-------------------------------- MODULE MQTT --------------------------------
(***************************************************************************)
(* MQTTClient of mtaio/protocols/mqtt.py: connect() with its handshake,    *)
(* the receive and ping loops, disconnect(), which users and the receive   *)
(* loop call, publish() and subscribe().  The ping loop would call it too, *)
(* but it writes to no connection that is closing.                         *)
(*                                                                         *)
(* The broker's packets reach the client as bytes, in segments of any      *)
(* size.  A byte is a record: the first of a packet, a digit of its length *)
(* or a byte of its body.  A user connects only while the client is not    *)
(* connected, and one at a time.                                           *)
(***************************************************************************)
EXTENDS Naturals, Sequences, SequencesExt, FiniteSets

CONSTANTS
  MqttUsers,
  Base,             \* 128: what a byte of the length counts up to
  Lengths,          \* lengths of the packets the broker sends
  IdSpace,          \* 65536: message ids are counted modulo
  MaxPackets, MaxConnects, MaxPublishes      \* bounds

Loop == "loop"
Ping == "ping"
Tasks == MqttUsers \cup {Loop, Ping}

ASSUME MqttAssumption ==
  /\ {Loop, Ping} \cap MqttUsers = {}
  /\ Base \in Nat \ {0, 1} /\ Lengths \cup {2} \subseteq 0..Base * Base * Base
  /\ IdSpace \in Nat \ {0}

VARIABLES
  link,        \* the connection: none, up, eof, reset or closed
  wire, buffer,     \* the bytes in transit and those the reader holds
  writer,      \* _reader and _writer are set
  connected, stopping,      \* _connected, _stopping
  task,        \* where each task is suspended
  messageId,
  sent, handled,    \* the packets of this connection, those _handle_packet() got
  connects, publishes                        \* counters of the bounds

linkVars == <<link, wire, buffer>>
mqttVars == <<link, wire, buffer, writer, connected, stopping, task, messageId, sent,
              handled, connects, publishes>>

Resting == [pc |-> "idle"]
At(a, pc) == task[a].pc = pc
Move(a, to) == task' = [task EXCEPT ![a] = to]

\* encode_length(): the digits of n, least first, each but the last marked.
EncodeLength[n \in 0..Base * Base * Base] ==
  IF n < Base THEN <<[digit |-> n, more |-> FALSE]>>
  ELSE <<[digit |-> n % Base, more |-> TRUE]>> \o EncodeLength[n \div Base]

\* The bytes of a packet: encode_publish() and its like.
Byte(part, kind, id, l) == [part |-> part, kind |-> kind, id |-> id,
                            digit |-> l.digit, more |-> l.more]
Blank == [digit |-> 0, more |-> FALSE]
Body(kind, id, n) == [i \in 1..n |-> Byte("body", kind, <<id, i>>, Blank)]
Packet(kind, id, n) ==
  <<Byte("first", kind, <<id, 0>>, Blank)>>
    \o [i \in DOMAIN EncodeLength[n] |-> Byte("length", kind, <<id, 0>>, EncodeLength[n][i])]
    \o Body(kind, id, n)

-----------------------------------------------------------------------------
(* Reading: _read_fixed_header() and the read of the body.  Each step is one  *)
(* read(); it is suspended while the buffer is empty and the connection is up. *)

FirstByte == [pc |-> "first"]
Reading(a) == task[a].pc \in {"first", "length", "body"}

\* What the task a does with the next byte.
ReadFirst(a) ==
  /\ At(a, "first") /\ buffer # <<>>
  /\ Move(a, [pc |-> "length", kind |-> buffer[1].kind, value |-> 0, multiplier |-> 1])
  /\ buffer' = Tail(buffer)

ReadLength(a) ==
  /\ At(a, "length") /\ buffer # <<>>
  /\ buffer' = Tail(buffer)
  /\ LET t == task[a]
         value == t.value + buffer[1].digit * t.multiplier
     IN IF buffer[1].more
        THEN Move(a, [t EXCEPT !.value = value, !.multiplier = @ * Base])
        ELSE Move(a, [pc |-> "body", kind |-> t.kind, value |-> value])

\* read(remaining_length) returns what has arrived, at most that much.
Ready(a) == At(a, "body") /\ (task[a].value = 0 \/ (writer /\ buffer # <<>>))
Arrived(a) == SubSeq(buffer, 1, IF task[a].value < Len(buffer) THEN task[a].value
                                                               ELSE Len(buffer))
\* Less than that is an error, even if the rest is on its way.
WholeOrShort(a, data) == TRUE
Whole(a, data) == Len(data) = task[a].value

\* read() meets the end of the connection, or _reader is None by now.
ReadFails(a) ==
  /\ Reading(a)
  /\ \/ ~(At(a, "body") /\ task[a].value = 0) /\ (~writer \/ (buffer = <<>> /\ link # "up"))
     \/ Ready(a) /\ ~Whole(a, Arrived(a))

-----------------------------------------------------------------------------
(* disconnect() *)

\* Up to its first suspension.  Nothing to do without a writer.  A connection that
\* is closing already suspends drain().
MqttDisconnect(a) ==
  IF ~writer THEN Move(a, Resting) /\ UNCHANGED <<link, stopping>>
  ELSE IF link = "closed" THEN Move(a, [pc |-> "draining"]) /\ UNCHANGED <<link, stopping>>
  ELSE /\ stopping' = TRUE
       /\ link' = IF link = "reset" THEN link ELSE "closed"
       /\ task' = [task EXCEPT ![Ping] = Resting, ![a] = [pc |-> "closing"]]

\* Its finally block after drain(): without a writer it raises.
Drained(a) ==
  /\ At(a, "draining")
  /\ stopping' = TRUE
  /\ task' = [task EXCEPT ![Ping] = Resting, ![a] = IF writer THEN [pc |-> "closing"] ELSE Resting]
  /\ UNCHANGED <<linkVars, writer, connected, messageId, sent, handled, connects, publishes>>

\* Mutant of Closed: the client forgets the connection and stays connected.
ClosedConnected(a) ==
  /\ At(a, "closing")
  /\ Move(a, Resting)
  /\ writer' = FALSE
  /\ UNCHANGED <<linkVars, connected, stopping, messageId, sent, handled, connects, publishes>>

\* wait_closed() returns; after a reset it raises and the client stays connected.
Closed(a) ==
  /\ At(a, "closing")
  /\ Move(a, Resting)
  /\ IF link = "reset" THEN UNCHANGED <<writer, connected>>
     ELSE writer' = FALSE /\ connected' = FALSE
  /\ UNCHANGED <<linkVars, stopping, messageId, sent, handled, connects, publishes>>

UserDisconnect(u) ==
  /\ At(u, "idle") /\ u \in MqttUsers /\ writer
  /\ MqttDisconnect(u)
  /\ UNCHANGED <<wire, buffer, writer, connected, messageId, sent, handled, connects, publishes>>

-----------------------------------------------------------------------------
(* connect() *)

\* open_connection() takes longer than what tasks still do about the end of the
\* last connection.
Connecting ==
  \/ \E a \in Tasks : Reading(a)
  \/ \E a \in Tasks : task[a].pc \in {"failing", "closing", "draining"}

\* open_connection() returns; CONNECT is sent and the broker answers.
MqttConnect(u) ==
  /\ u \in MqttUsers /\ At(u, "idle") /\ ~connected /\ ~Connecting
  /\ connects < MaxConnects
  /\ connects' = connects + 1
  /\ link' = "up" /\ writer' = TRUE /\ buffer' = <<>>
  /\ \E kind \in {"accepted", "refused"} : wire' = Packet(kind, 0, 2)
  /\ sent' = <<>> /\ handled' = <<>>
  /\ Move(u, FirstByte)
  /\ UNCHANGED <<connected, stopping, messageId, publishes>>

\* The handshake is complete: the loops start, and end at once after an earlier
\* disconnect(), for _stopping is never reset.
Connected(u) ==
  /\ u \in MqttUsers /\ Ready(u) /\ Whole(u, Arrived(u))
  /\ task[u].kind = "accepted"
  /\ buffer' = SubSeq(buffer, task[u].value + 1, Len(buffer))
  /\ connected' = TRUE
  /\ task' = [task EXCEPT ![u] = Resting,
                          ![Loop] = IF stopping THEN @ ELSE FirstByte,
                          ![Ping] = IF stopping THEN @ ELSE [pc |-> "sleeping"]]
  /\ UNCHANGED <<link, wire, writer, stopping, messageId, sent, handled, connects, publishes>>

\* The broker refuses, the answer is short or the connection ends: close and wait.
ConnectFails(u) ==
  /\ u \in MqttUsers
  /\ ReadFails(u) \/ (Ready(u) /\ task[u].kind # "accepted")
  /\ Move(u, IF writer THEN [pc |-> "failing"] ELSE Resting)
  /\ link' = IF writer /\ link # "reset" THEN "closed" ELSE link
  /\ UNCHANGED <<wire, buffer, writer, connected, stopping, messageId, sent, handled, connects,
                 publishes>>

ConnectEnds(u) ==
  /\ At(u, "failing")
  /\ Move(u, Resting)
  /\ writer' = (writer /\ link = "reset")
  /\ UNCHANGED <<linkVars, connected, stopping, messageId, sent, handled, connects, publishes>>

-----------------------------------------------------------------------------
(* The loops *)

\* _handle_packet(): a PUBLISH runs the handlers, the others are logged.
Receive ==
  /\ Ready(Loop) /\ Whole(Loop, Arrived(Loop))
  /\ buffer' = SubSeq(buffer, Len(Arrived(Loop)) + 1, Len(buffer))
  /\ handled' = Append(handled, Arrived(Loop))
  /\ Move(Loop, IF task[Loop].kind = "publish" THEN [pc |-> "handling"]
                ELSE IF stopping THEN Resting ELSE FirstByte)
  /\ UNCHANGED <<link, wire, writer, connected, stopping, messageId, sent, connects, publishes>>

HandlersReturn ==
  /\ At(Loop, "handling")
  /\ Move(Loop, IF stopping THEN Resting ELSE FirstByte)
  /\ UNCHANGED <<linkVars, writer, connected, stopping, messageId, sent, handled, connects,
                 publishes>>

ReceiveFails ==
  /\ ReadFails(Loop)
  /\ MqttDisconnect(Loop)
  /\ UNCHANGED <<wire, buffer, writer, connected, messageId, sent, handled, connects, publishes>>

\* publish() and subscribe(); a message of a higher QoS takes the next id, and
\* publish() refuses the id 0.
MqttPublish(u) ==
  /\ At(u, "idle") /\ u \in MqttUsers /\ connected /\ publishes < MaxPublishes
  /\ publishes' = publishes + 1
  /\ messageId' = (messageId + 1) % IdSpace
  /\ UNCHANGED <<linkVars, writer, connected, stopping, task, sent, handled, connects>>

-----------------------------------------------------------------------------
(* The broker and the network (external) *)

BrokerSends(kind, n) ==
  /\ link = "up" /\ Len(sent) < MaxPackets
  /\ connected
  /\ sent' = Append(sent, Body(kind, Len(sent) + 1, n))
  /\ wire' = wire \o Packet(kind, Len(sent) + 1, n)
  /\ UNCHANGED <<link, buffer, writer, connected, stopping, task, messageId, handled, connects,
                 publishes>>

Arrive(n) ==
  /\ link = "up" /\ n <= Len(wire)
  /\ buffer' = buffer \o SubSeq(wire, 1, n)
  /\ wire' = SubSeq(wire, n + 1, Len(wire))
  /\ UNCHANGED <<link, writer, connected, stopping, task, messageId, sent, handled, connects,
                 publishes>>

BreakLink(how) ==
  /\ link = "up" /\ link' = how
  /\ buffer' = IF how = "reset" THEN <<>> ELSE buffer
  /\ UNCHANGED <<wire, writer, connected, stopping, task, messageId, sent, handled, connects,
                 publishes>>

ReadStep(a) ==
  /\ writer /\ (ReadFirst(a) \/ ReadLength(a))
  /\ UNCHANGED <<link, wire, writer, connected, stopping, messageId, sent, handled, connects,
                 publishes>>

-----------------------------------------------------------------------------
MqttInit ==
  /\ link = "none" /\ wire = <<>> /\ buffer = <<>>
  /\ writer = FALSE /\ connected = FALSE /\ stopping = FALSE
  /\ task = [a \in Tasks |-> Resting] /\ messageId = 0
  /\ sent = <<>> /\ handled = <<>> /\ connects = 0 /\ publishes = 0

MqttNext ==
  \/ \E u \in MqttUsers : \/ MqttConnect(u) \/ Connected(u) \/ ConnectFails(u) \/ ConnectEnds(u)
                          \/ UserDisconnect(u) \/ MqttPublish(u)
  \/ \E a \in Tasks : ReadStep(a) \/ Drained(a) \/ Closed(a)
  \/ Receive \/ HandlersReturn \/ ReceiveFails
  \/ \E kind \in {"publish", "ack"}, n \in Lengths : BrokerSends(kind, n)
  \/ \E n \in 1..Len(wire) : Arrive(n)
  \/ \E how \in {"eof", "reset"} : BreakLink(how)

MqttSpec == MqttInit /\ [][MqttNext]_mqttVars

-----------------------------------------------------------------------------
MqttTypeOK ==
  /\ link \in {"none", "up", "eof", "reset", "closed"}
  /\ {writer, connected, stopping} \subseteq BOOLEAN
  /\ connected => writer
  /\ messageId \in 0..IdSpace - 1
  /\ task[Loop].pc \in {"idle", "first", "length", "body", "handling", "draining", "closing"}
  /\ task[Ping].pc \in {"idle", "sleeping"}

\* However the bytes arrive, the packets that are handled are the broker's, whole
\* and in its order: a short read ends the connection and never shifts the frames.
PacketsFramed == IsPrefix(handled, sent)
=============================================================================
