----------------------------- MODULE MCHandover -----------------------------
(***************************************************************************)
(* Small instances of the queue and of the channel, through which tasks    *)
(* hand data to one another.  They share nothing: a behaviour runs the one *)
(* that `part' names, and the other stays in its initial state.            *)
(***************************************************************************)
EXTENDS MCAsyncQueue, MCChannel

VARIABLE part

vars == <<part, queueVars, channelVars>>

Init ==
  /\ part \in {"queue", "channel"}
  /\ QueueInit /\ ChannelInit
  \* the settings of an idle queue or channel make no difference
  /\ part # "queue" => maxsize = 0 /\ kind = "fifo"
  /\ part # "channel" => bufferSize = 0 /\ limit = 1

Next ==
  \/ part = "queue" /\ QueueNext /\ UNCHANGED <<part, channelVars>>
  \/ part = "channel" /\ ChannelNext /\ UNCHANGED <<part, queueVars>>

Spec == Init /\ [][Next]_vars /\ QueueFairness /\ ChannelFairness
=============================================================================
