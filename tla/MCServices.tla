----------------------------- MODULE MCServices -----------------------------
(***************************************************************************)
(* Small instances of the components that keep, move or announce data.     *)
(* They share nothing: a behaviour runs the one that `part' names, and the *)
(* others stay in their initial states.                                    *)
(***************************************************************************)
EXTENDS DistributedCache, Logger, MQTT, Observable, Pipeline, BufferedPipeline,
        PublisherBatch

CONSTANTS n1, n2, k1, k2, v1, u1, u2, facade, client, h1, h2
VARIABLE part

MCNodeOrder == <<n1, n2>>
MCHash == [k \in Keys |-> IF k = k1 THEN 0 ELSE 1]
MCOwnerOf == [u \in Users |-> IF u = u1 THEN client ELSE facade]
MCHandlerLevel == [h \in Handlers |-> IF h = h1 THEN 1 ELSE 2]
MCKinds == <<"filter", "batch">>
MCTopic == [m \in 1..MaxMessages |-> IF m < 3 THEN k1 ELSE k2]

Parts == {"cache", "logger", "mqtt", "observable", "pipeline", "buffered", "publisher"}
vars == <<part, cacheVars, logVars, mqttVars, obsVars, pipeVars, bufferVars,
          publisherVars>>

Init ==
  /\ part \in Parts
  /\ CacheInit /\ LogInit /\ MqttInit /\ ObsInit /\ PipeInit /\ BufferInit
  /\ PublisherInit
  \* the kind and value of an idle observable make no difference
  /\ part # "observable" => isDict /\ cells = [c \in Cells |-> Absent]

Next ==
  \/ /\ part = "cache" /\ CacheNext
     /\ UNCHANGED <<part, logVars, mqttVars, obsVars, pipeVars, bufferVars, publisherVars>>
  \/ /\ part = "logger" /\ LogNext
     /\ UNCHANGED <<part, cacheVars, mqttVars, obsVars, pipeVars, bufferVars, publisherVars>>
  \/ /\ part = "mqtt" /\ MqttNext
     /\ UNCHANGED <<part, cacheVars, logVars, obsVars, pipeVars, bufferVars, publisherVars>>
  \/ /\ part = "observable" /\ ObsNext
     /\ UNCHANGED <<part, cacheVars, logVars, mqttVars, pipeVars, bufferVars, publisherVars>>
  \/ /\ part = "pipeline" /\ PipeNext
     /\ UNCHANGED <<part, cacheVars, logVars, mqttVars, obsVars, bufferVars, publisherVars>>
  \/ /\ part = "buffered" /\ BufferNext
     /\ UNCHANGED <<part, cacheVars, logVars, mqttVars, obsVars, pipeVars, publisherVars>>
  \/ /\ part = "publisher" /\ PublisherNext
     /\ UNCHANGED <<part, cacheVars, logVars, mqttVars, obsVars, pipeVars, bufferVars>>

Spec == Init /\ [][Next]_vars

\* The distributed cache alone, for a larger instance of it.
CacheOnly == Init /\ part = "cache" /\ [][Next]_vars

-----------------------------------------------------------------------------
TypeOK ==
  /\ part \in Parts
  /\ CacheTypeOK /\ LogTypeOK /\ MqttTypeOK /\ ObsTypeOK /\ PipeTypeOK
  /\ BufferTypeOK /\ PublisherTypeOK
=============================================================================
