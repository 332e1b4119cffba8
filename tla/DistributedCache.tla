-------------------------- MODULE DistributedCache --------------------------
(***************************************************************************)
(* The distributed cache of mtaio/cache/distributed.py: nodes that hold    *)
(* entries and serve connections, each in its own handler; CacheClients,   *)
(* which send over one connection; and DistributedCaches, which keep a     *)
(* client per node and write to every replica of a key.                    *)
(*                                                                         *)
(* A message travels whole.  Entries have an age only as far as they are   *)
(* expired or not.  The nodes' broadcasts reach nobody: _connect_to_peer() *)
(* never stores the connection it makes.                                   *)
(***************************************************************************)
EXTENDS Naturals, Sequences, SequencesExt, FiniteSets

CONSTANTS
  Users,         \* tasks that call the cache
  Facades,       \* DistributedCache objects
  Clients,       \* CacheClients used without one
  OwnerOf,       \* the object each task calls
  Nodes, NodeOrder, Keys, Hash, ReplicationFactor, Values,
  None,
  MaxConns, MaxCalls, MaxFaults,     \* bounds
  MaxCancels       \* bound: GETs cancelled while they wait for their answer

Owners == Facades \cup Clients
Conns == 1..MaxConns

ASSUME CacheAssumption ==
  /\ Facades \cap Clients = {} /\ OwnerOf \in [Users -> Owners]
  /\ NodeOrder \in Seq(Nodes) /\ Range(NodeOrder) = Nodes /\ Hash \in [Keys -> Nat]
  /\ ReplicationFactor \in Nat \ {0} /\ MaxConns \in Nat
  /\ None \notin Nodes \cup Keys \cup Users

VARIABLES
  entries,     \* CacheNode._cache: a value and whether it is expired, per key
  accepting,   \* the nodes whose server accepts connections
  conns,       \* the connections made so far: owner, node, whether it is up
  inbox,       \* the requests a node has not read from a connection
  outbox,      \* the answers its client has not read
  reader,      \* the task suspended in a connection's reader.read()
  directory,   \* DistributedCache._clients; for a CacheClient its connection
  call,        \* the call each task makes
  got,         \* the last answer read from a connection
  calls, cancels, faults                         \* counters of the bounds

nodeVars == <<entries, accepting>>
wireVars == <<inbox, outbox, reader, got>>
cacheVars == <<entries, accepting, conns, inbox, outbox, reader, directory, call, got,
               calls, cancels, faults>>

Requests ==
  [op : {"set"}, key : Keys, value : Values]
    \cup [op : {"delete", "get"}, key : Keys] \cup {[op |-> "clear"]}
Entry == [value : Values, expired : BOOLEAN]
Answer == [key : Keys, value : Values \cup {None}]
Delivery == [asked : Keys, answer : Answer]
Call ==
  [pc : {"connecting"}, msg : Requests, conns : SUBSET Conns, todo : Seq(Nodes)]
    \cup [pc : {"reading", "woken"}, conn : Conns, key : Keys]

ASSUME NoneAssumption == None \notin Entry \cup Delivery \cup Call

Up(c) == c \in DOMAIN conns /\ conns[c].up
Link(u, n) == directory[OwnerOf[u]][n]
Idle(u) == call[u] = None

\* _get_nodes_for_key(): the node the key's hash selects and those after it.
ReplicasOf(k) ==
  LET N == Len(NodeOrder)
      copies == IF ReplicationFactor < N THEN ReplicationFactor ELSE N
  IN [i \in 1..copies |-> NodeOrder[((Hash[k] + i - 1) % N) + 1]]

\* A node's entries after a message was handled, or a local call.
Stored(held, m) ==
  [k \in Keys |->
     IF m.op = "clear" THEN None
     ELSE IF m.op = "get" \/ k # m.key THEN held[k]
     ELSE IF m.op = "set" THEN [value |-> m.value, expired |-> FALSE] ELSE None]

\* What writing m to the connections C does to their requests; a connection
\* that is down takes nothing, one that is just being made does.
Write(C, m) ==
  inbox' = [c \in Conns |->
    IF c \in C /\ (c \in DOMAIN conns => conns[c].up) THEN Append(inbox[c], m) ELSE inbox[c]]

\* The end of file wakes whoever reads.
Woken(C) ==
  [u \in Users |->
     IF call[u] # None /\ call[u].pc = "reading" /\ call[u].conn \in C
       THEN [call[u] EXCEPT !.pc = "woken"] ELSE call[u]]

\* Connections end; their requests in transit are lost, answers that arrived
\* can still be read.
Break(C) ==
  /\ conns' = [c \in DOMAIN conns |-> IF c \in C THEN [conns[c] EXCEPT !.up = FALSE]
                                                 ELSE conns[c]]
  /\ inbox' = [c \in Conns |-> IF c \in C THEN <<>> ELSE inbox[c]]
  /\ reader' = [c \in Conns |-> IF c \in C THEN None ELSE reader[c]]

-----------------------------------------------------------------------------
(* DistributedCache *)

\* The loop over the replicas: it goes on with the clients it has and is
\* suspended where it has to connect.  Then set() and delete() write to all
\* they reached; get() hands its coroutines to asyncio.wait(), which refuses
\* them.  Without any client the call fails.
Reach(u, m, todo, reached, known) ==
  LET unknown == {i \in 1..Len(todo) : known[todo[i]] = 0}
      here == {i \in 1..Len(todo) : \A j \in unknown : i < j}
      all == reached \cup {known[todo[i]] : i \in here}
  IN IF unknown # {}
     THEN /\ call' = [call EXCEPT ![u] = [pc |-> "connecting", msg |-> m, conns |-> all,
                                          todo |-> SubSeq(todo, Min(unknown), Len(todo))]]
          /\ UNCHANGED inbox
     ELSE /\ call' = [call EXCEPT ![u] = None]
          /\ IF m.op = "get" THEN UNCHANGED inbox ELSE Write(all, m)

\* set(), get() and delete() of a DistributedCache.
FacadeCall(u, m) ==
  /\ OwnerOf[u] \in Facades /\ Idle(u) /\ calls + faults < MaxCalls /\ m.op # "clear"
  /\ calls' = calls + 1
  /\ Reach(u, m, ReplicasOf(m.key), {}, directory[OwnerOf[u]])
  /\ UNCHANGED <<nodeVars, conns, outbox, reader, directory, got, cancels, faults>>

\* _get_client(): connect() returns, whoever else connected meanwhile; or it
\* fails and the node is left out.
FacadeConnected(u) ==
  LET c == Len(conns) + 1
      o == OwnerOf[u]
      n == Head(call[u].todo)
  IN /\ ~Idle(u) /\ call[u].pc = "connecting"
     /\ n \in accepting /\ c \in Conns
     /\ conns' = Append(conns, [owner |-> o, node |-> n, up |-> TRUE])
     /\ directory' = [directory EXCEPT ![o][n] = c]
     /\ Reach(u, call[u].msg, Tail(call[u].todo), call[u].conns \cup {c}, directory'[o])
     /\ UNCHANGED <<nodeVars, outbox, reader, got, calls, cancels, faults>>

FacadeRefused(u) ==
  /\ ~Idle(u) /\ call[u].pc = "connecting" /\ Head(call[u].todo) \notin accepting
  /\ Reach(u, call[u].msg, Tail(call[u].todo), call[u].conns, directory[OwnerOf[u]])
  /\ UNCHANGED <<nodeVars, conns, outbox, reader, directory, got, calls, cancels, faults>>

-----------------------------------------------------------------------------
(* CacheClient *)

\* connect(): the client's connection is the last one it made.
Connect(u, n) ==
  LET o == OwnerOf[u] IN
    /\ o \in Clients /\ Idle(u) /\ n \in accepting /\ Len(conns) < MaxConns
    /\ \A p \in Nodes : directory[o][p] = 0
    /\ conns' = Append(conns, [owner |-> o, node |-> n, up |-> TRUE])
    /\ directory' = [directory EXCEPT ![o][n] = Len(conns) + 1]
    /\ UNCHANGED <<nodeVars, wireVars, call, calls, cancels, faults>>

\* set(), delete() and clear(): sent and forgotten.
Send(u, m) ==
  /\ OwnerOf[u] \in Clients /\ Idle(u) /\ calls + faults < MaxCalls /\ m.op # "get"
  /\ \E n \in Nodes : Link(u, n) # 0 /\ Write({Link(u, n)}, m)
  /\ calls' = calls + 1
  /\ UNCHANGED <<nodeVars, conns, outbox, reader, directory, call, got, cancels, faults>>

\* The request is written first.  read() fails while another task is suspended in
\* it, and takes an answer that is there at once.
Get(u, k) ==
  /\ OwnerOf[u] \in Clients /\ Idle(u) /\ calls + faults < MaxCalls
  /\ \E n \in Nodes :
       LET c == Link(u, n) IN
         /\ c # 0
         /\ Write({c}, [op |-> "get", key |-> k])
         /\ IF ~conns[c].up \/ reader[c] # None
            THEN UNCHANGED <<outbox, reader, got, call>>
            ELSE IF outbox[c] # <<>>
            THEN /\ outbox' = [outbox EXCEPT ![c] = Tail(@)]
                 /\ got' = [got EXCEPT ![c] = [asked |-> k, answer |-> Head(outbox[c])]]
                 /\ UNCHANGED <<reader, call>>
            ELSE /\ reader' = [reader EXCEPT ![c] = u]
                 /\ call' = [call EXCEPT ![u] = [pc |-> "reading", conn |-> c, key |-> k]]
                 /\ got' = [got EXCEPT ![c] = None]
                 /\ UNCHANGED outbox
  /\ calls' = calls + 1
  /\ UNCHANGED <<nodeVars, conns, directory, cancels, faults>>

\* read() returns what is in the buffer: an answer, or nothing if the connection
\* ended or another task took it, and then get() fails.
GetReturns(u) ==
  /\ ~Idle(u) /\ call[u].pc = "woken"
  /\ LET c == call[u].conn IN
       IF outbox[c] = <<>> THEN UNCHANGED <<outbox, got>>
       ELSE /\ outbox' = [outbox EXCEPT ![c] = Tail(@)]
            /\ got' = [got EXCEPT ![c] = [asked |-> call[u].key, answer |-> Head(outbox[c])]]
  /\ call' = [call EXCEPT ![u] = None]
  /\ UNCHANGED <<nodeVars, conns, inbox, reader, directory, calls, cancels, faults>>

\* A call that is suspended is cancelled, as asyncio.wait_for() does when it takes
\* too long.  What it sent stays sent.
CancelCall(u) ==
  /\ ~Idle(u)
  /\ IF call[u].pc = "connecting" THEN UNCHANGED cancels
     ELSE cancels < MaxCancels /\ cancels' = cancels + 1
  /\ call' = [call EXCEPT ![u] = None]
  /\ reader' = [c \in Conns |-> IF reader[c] = u THEN None ELSE reader[c]]
  /\ UNCHANGED <<nodeVars, conns, inbox, outbox, directory, got, calls, faults>>

\* disconnect() of a CacheClient, close() of a DistributedCache: the clients it
\* knows are disconnected and forgotten.
Disconnect(u) ==
  LET o == OwnerOf[u]
      C == {directory[o][n] : n \in Nodes} \ {0}
  IN /\ Idle(u) /\ C # {}
     /\ Break(C)
     /\ call' = Woken(C)
     /\ directory' = [directory EXCEPT ![o] = [n \in Nodes |-> 0]]
     /\ UNCHANGED <<nodeVars, outbox, got, calls, cancels, faults>>

-----------------------------------------------------------------------------
(* CacheNode *)

\* The node handles the message m of the connection c.  A GET is answered with
\* the entry whether or not it has expired.
Handled(c, m) ==
  LET n == conns[c].node IN
  /\ entries' = [entries EXCEPT ![n] = Stored(@, m)]
  /\ IF m.op # "get" THEN UNCHANGED <<outbox, reader, call>>
     ELSE /\ outbox' = [outbox EXCEPT ![c] = Append(@,
                 [key |-> m.key, value |-> IF entries[n][m.key] = None THEN None
                                           ELSE entries[n][m.key].value])]
          /\ reader' = [reader EXCEPT ![c] = None]
          /\ call' = Woken({c})
  /\ UNCHANGED <<accepting, conns, directory, got, calls, cancels, faults>>

\* A handler with a task of its own per message: not what the code does.
HandleSpawned(c) ==
  /\ Up(c)
  /\ \E i \in DOMAIN inbox[c] :
       Handled(c, inbox[c][i]) /\ inbox' = [inbox EXCEPT ![c] = RemoveAt(@, i)]

\* _handle_connection(), _handle_message(): one message after the other.
Handle(c) ==
  /\ Up(c) /\ inbox[c] # <<>>
  /\ Handled(c, Head(inbox[c]))
  /\ inbox' = [inbox EXCEPT ![c] = Tail(@)]

\* set(), delete() and clear() of the node itself.
NodeCall(n, m) ==
  /\ m.op # "get" /\ calls + faults < MaxCalls
  /\ calls' = calls + 1
  /\ entries' = [entries EXCEPT ![n] = Stored(@, m)]
  /\ UNCHANGED <<accepting, conns, wireVars, directory, call, cancels, faults>>

\* The time to live of an entry passes.
Expire(n, k) ==
  /\ entries[n][k] # None /\ ~entries[n][k].expired
  /\ entries' = [entries EXCEPT ![n][k].expired = TRUE]
  /\ UNCHANGED <<accepting, conns, wireVars, directory, call, calls, cancels, faults>>

\* CacheNode.get() drops the entry it asked for if it has expired; _clean_expired()
\* drops all that have.
Drop(n, K) ==
  /\ K # {} /\ \A k \in K : entries[n][k] # None /\ entries[n][k].expired
  /\ entries' = [entries EXCEPT ![n] = [k \in Keys |-> IF k \in K THEN None ELSE @[k]]]
  /\ UNCHANGED <<accepting, conns, wireVars, directory, call, calls, cancels, faults>>
NodeGet(n, k) == Drop(n, {k})
CleanExpired(n) == Drop(n, {k \in Keys : entries[n][k] # None /\ entries[n][k].expired})

\* stop() keeps the connections that are open; start() accepts new ones.
Stop(n) ==
  /\ n \in accepting /\ faults < MaxFaults /\ calls + faults < MaxCalls
  /\ accepting' = accepting \ {n}
  /\ faults' = faults + 1
  /\ UNCHANGED <<entries, conns, wireVars, directory, call, calls, cancels>>
Start(n) ==
  /\ n \notin accepting
  /\ accepting' = accepting \cup {n}
  /\ UNCHANGED <<entries, conns, wireVars, directory, call, calls, cancels, faults>>

\* A connection breaks; a node's process ends, with its entries and connections.
LoseConnection(c) ==
  /\ Up(c) /\ faults < MaxFaults /\ calls + faults < MaxCalls
  /\ Break({c}) /\ call' = Woken({c})
  /\ faults' = faults + 1
  /\ UNCHANGED <<nodeVars, outbox, directory, got, calls, cancels>>
Crash(n) ==
  LET C == {c \in Conns : Up(c) /\ conns[c].node = n} IN
  /\ faults < MaxFaults /\ calls + faults < MaxCalls
  /\ entries' = [entries EXCEPT ![n] = [k \in Keys |-> None]]
  /\ accepting' = accepting \ {n}
  /\ Break(C) /\ call' = Woken(C)
  /\ faults' = faults + 1
  /\ UNCHANGED <<outbox, directory, got, calls, cancels>>

-----------------------------------------------------------------------------
CacheInit ==
  /\ entries = [n \in Nodes |-> [k \in Keys |-> None]]
  /\ accepting = Nodes /\ conns = <<>>
  /\ inbox = [c \in Conns |-> <<>>] /\ outbox = [c \in Conns |-> <<>>]
  /\ reader = [c \in Conns |-> None] /\ got = [c \in Conns |-> None]
  /\ directory = [o \in Owners |-> [n \in Nodes |-> 0]]
  /\ call = [u \in Users |-> None]
  /\ calls = 0 /\ cancels = 0 /\ faults = 0

CacheNext ==
  \/ \E u \in Users : \/ FacadeConnected(u) \/ FacadeRefused(u) \/ GetReturns(u)
                      \/ CancelCall(u) \/ Disconnect(u)
  \/ \E u \in Users, m \in Requests : FacadeCall(u, m) \/ Send(u, m)
  \/ \E u \in Users, n \in Nodes : Connect(u, n)
  \/ \E u \in Users, k \in Keys : Get(u, k)
  \/ \E c \in Conns : Handle(c) \/ LoseConnection(c)
  \/ \E n \in Nodes : CleanExpired(n) \/ Stop(n) \/ Start(n) \/ Crash(n)
  \/ \E n \in Nodes, k \in Keys : Expire(n, k) \/ NodeGet(n, k)
  \/ \E n \in Nodes, m \in Requests : NodeCall(n, m)

CacheSpec == CacheInit /\ [][CacheNext]_cacheVars

-----------------------------------------------------------------------------
CacheTypeOK ==
  /\ entries \in [Nodes -> [Keys -> Entry \cup {None}]] /\ accepting \subseteq Nodes
  /\ conns \in Seq([owner : Owners, node : Nodes, up : BOOLEAN]) /\ Len(conns) <= MaxConns
  /\ inbox \in [Conns -> Seq(Requests)] /\ outbox \in [Conns -> Seq(Answer)]
  /\ reader \in [Conns -> Users \cup {None}] /\ got \in [Conns -> Delivery \cup {None}]
  /\ directory \in [Owners -> [Nodes -> Nat]] /\ call \in [Users -> Call \cup {None}]
  /\ \A c \in Conns : inbox[c] # <<>> => Up(c)
  /\ \A c \in Conns : reader[c] # None =>
       Up(c) /\ ~Idle(reader[c]) /\ call[reader[c]].pc = "reading"
  /\ \A o \in Owners, n \in Nodes : LET c == directory[o][n] IN
       c # 0 => c \in DOMAIN conns /\ conns[c].owner = o /\ conns[c].node = n

\* What a session is in this module: the values of the entries, and the requests
\* of a connection, of which a GET is the last.
Data == [n \in Nodes |-> [k \in Keys |->
           IF entries[n][k] = None THEN None ELSE entries[n][k].value]]
Home == [c \in Conns |-> IF c \in DOMAIN conns THEN conns[c].node ELSE None]
Asking(c) == inbox[c] # <<>> /\ Last(inbox[c]).op = "get"
Posted == [c \in Conns |-> IF Asking(c) THEN Front(inbox[c]) ELSE inbox[c]]
Asked == [c \in Conns |-> IF Asking(c) THEN Last(inbox[c]).key ELSE None]
Answered == [c \in Conns |-> IF outbox[c] # <<>> THEN outbox[c][1]
                             ELSE IF got[c] = None THEN None ELSE got[c].answer]

\* A connection is a session: writes take effect one by one in the order they were
\* sent, and a GET sees those sent before it and none sent after.  The answer on
\* the wire is the session's answer.  This holds as long as no GET is cancelled and
\* no two tasks use one client.
Sessions == INSTANCE CacheSession WITH
  Sessions <- Conns, data <- Data, home <- Home, posted <- Posted, asked <- Asked,
  answer <- Answered
SessionSpec == Sessions!Spec

\* What CacheClient.get() says: the value of the key it was called with.
AnswersMatch == \A c \in Conns : got[c] # None => got[c].answer.key = got[c].asked
=============================================================================
