---------------------------- MODULE NetworkProofs ----------------------------
(***************************************************************************)
(* Theorems about the components that talk over connections, for any       *)
(* values of their constants: the distributed cache, its refinement of     *)
(* sessions, and the MQTT client.  Of each: an inductive invariant, a      *)
(* lemma per action that it is kept, and what it implies.                  *)
(***************************************************************************)
EXTENDS DistributedCache, MQTT, SequenceLemmas

Conn == [owner : Owners, node : Nodes, up : BOOLEAN]
ConnectCalls == [pc : {"connecting"}, msg : Requests, conns : SUBSET Conns, todo : Seq(Nodes)]
GetCalls == [pc : {"reading", "woken"}, conn : Conns, key : Keys]

\* c is a connection that o has made.
Made(c, o) == c \in DOMAIN conns /\ conns[c].owner = o

CacheTypes ==
  /\ entries \in [Nodes -> [Keys -> Entry \cup {None}]] /\ accepting \subseteq Nodes
  /\ conns \in Seq(Conn) /\ Len(conns) <= MaxConns
  /\ inbox \in [Conns -> Seq(Requests)] /\ outbox \in [Conns -> Seq(Answer)]
  /\ reader \in [Conns -> Users \cup {None}] /\ got \in [Conns -> Delivery \cup {None}]
  /\ directory \in [Owners -> [Nodes -> Nat]]
  /\ call \in [Users -> ConnectCalls \cup GetCalls \cup {None}]

\* Requests travel on connections that are up; a task reads from the connection of
\* its client; a DistributedCache knows, and reaches, connections of its own.
Links ==
  /\ \A o \in Owners, n \in Nodes : directory[o][n] # 0 =>
       Made(directory[o][n], o) /\ conns[directory[o][n]].node = n
  /\ \A u \in Users : call[u] \in ConnectCalls =>
       /\ OwnerOf[u] \in Facades /\ call[u].todo # <<>>
       /\ call[u].msg.op # "clear" /\ \A c \in call[u].conns : Made(c, OwnerOf[u])
  /\ \A u \in Users : call[u] \in GetCalls =>
       OwnerOf[u] \in Clients /\ Made(call[u].conn, OwnerOf[u])
Wires ==
  /\ \A c \in Conns : inbox[c] # <<>> => Up(c)
  /\ \A c \in Conns : reader[c] # None =>
       Up(c) /\ call[reader[c]] \in GetCalls /\ call[reader[c]].pc = "reading"
             /\ call[reader[c]].conn = c

CacheInv == CacheTypes /\ Links /\ Wires

-----------------------------------------------------------------------------
(* The requests of a connection. *)

PostedOf(q) == IF q # <<>> /\ Last(q).op = "get" THEN Front(q) ELSE q
AskedOf(q) == IF q # <<>> /\ Last(q).op = "get" THEN Last(q).key ELSE None
GetIsLast(q) == \A i \in 1..Len(q) : q[i].op = "get" => i = Len(q)
Asks(q) == q # <<>> /\ Last(q).op = "get"

\* What the session of a connection has posted and asked.
LEMMA SessionOf ==
  /\ Posted = [c \in Conns |-> PostedOf(inbox[c])]
  /\ Asked = [c \in Conns |-> AskedOf(inbox[c])]
  /\ Posted' = [c \in Conns |-> PostedOf(inbox'[c])]
  /\ Asked' = [c \in Conns |-> AskedOf(inbox'[c])]
BY DEF Posted, Asked, Asking, PostedOf, AskedOf, Asks

\* A request is a write or a GET of a key.
LEMMA RequestKinds ==
  ASSUME NEW m \in Requests
  PROVE  IF m.op = "get" THEN m.key \in Keys /\ m.key # None ELSE m \in Sessions!Writes
<1>1. CASE m \in [op : {"set"}, key : Keys, value : Values]
  BY <1>1 DEF Sessions!Writes
<1>2. CASE m \in [op : {"delete", "get"}, key : Keys]
  <2>1. m.key \in Keys /\ m.op \in {"delete", "get"} /\ m = [op |-> m.op, key |-> m.key]
    BY <1>2
  <2>2. m.op = "delete" => m \in [op : {"delete"}, key : Keys]
    BY <2>1
  <2> QED BY <2>1, <2>2, CacheAssumption DEF Sessions!Writes
<1>3. CASE m = [op |-> "clear"]
  BY <1>3 DEF Sessions!Writes
<1> QED BY <1>1, <1>2, <1>3 DEF Requests

\* No requests.
LEMMA NothingSent ==
  PostedOf(<<>>) = <<>> /\ AskedOf(<<>>) = None /\ GetIsLast(<<>>) /\ ~Asks(<<>>)
BY EmptySeq DEF PostedOf, AskedOf, GetIsLast, Asks

\* A request behind writes.
LEMMA SendOne ==
  ASSUME NEW q \in Seq(Requests), GetIsLast(q), ~Asks(q), NEW m \in Requests
  PROVE  /\ Append(q, m) \in Seq(Requests) /\ GetIsLast(Append(q, m))
         /\ Asks(Append(q, m)) <=> m.op = "get"
         /\ PostedOf(q) = q /\ AskedOf(q) = None
         /\ IF m.op = "get"
            THEN PostedOf(Append(q, m)) = q /\ AskedOf(Append(q, m)) = m.key
            ELSE PostedOf(Append(q, m)) = Append(q, m) /\ AskedOf(Append(q, m)) = None
<1> DEFINE t == Append(q, m)
           n == Len(q)
<1>1. /\ t \in Seq(Requests) /\ Len(t) = n + 1 /\ t # <<>> /\ n \in Nat
      /\ \A i \in 1..n : t[i] = q[i]
      /\ t[n + 1] = m
  BY AppendRange, AppendProperties, LenProperties
<1>2. Last(t) = m /\ Front(t) \in Seq(Requests) /\ Len(Front(t)) = n
      /\ \A i \in 1..n : Front(t)[i] = t[i]
  <2>1. Last(t) = t[Len(t)] /\ Front(t) \in Seq(Requests) /\ Len(Front(t)) = Len(t) - 1
        /\ \A i \in 1..Len(t) - 1 : Front(t)[i] = t[i]
    BY <1>1, FrontRange
  <2>2. Len(t) - 1 = n
    BY <1>1
  <2> QED BY <1>1, <2>1, <2>2
<1>3. Front(t) = q
  BY <1>1, <1>2, SeqEqual
<1>4. \A i \in 1..n : q[i].op # "get"
  <2>1. q # <<>> => Last(q) = q[n]
    BY FrontRange
  <2>2. \A i \in 1..n : q # <<>>
    BY EmptySeq
  <2> QED BY <2>1, <2>2 DEF GetIsLast, Asks
<1>5. GetIsLast(t)
  <2> HIDE DEF t, n
  <2>1. \A i \in 1..Len(t) : i \in 1..n \/ i = Len(t)
    BY <1>1
  <2> QED BY <1>1, <1>4, <2>1 DEF GetIsLast
<1> HIDE DEF t, n
<1> QED BY <1>1, <1>2, <1>3, <1>5 DEF PostedOf, AskedOf, Asks, t

\* The first request is handled: the GET only when all writes before it have been.
LEMMA HandleOne ==
  ASSUME NEW q \in Seq(Requests), q # <<>>, GetIsLast(q)
  PROVE  /\ Head(q) \in Requests /\ Tail(q) \in Seq(Requests) /\ GetIsLast(Tail(q))
         /\ IF Head(q).op = "get"
            THEN /\ PostedOf(q) = <<>> /\ AskedOf(q) = Head(q).key /\ Asks(q)
                 /\ Tail(q) = <<>>
            ELSE /\ PostedOf(q) # <<>> /\ Head(PostedOf(q)) = Head(q)
                 /\ PostedOf(Tail(q)) = Tail(PostedOf(q)) /\ AskedOf(Tail(q)) = AskedOf(q)
                 /\ Asks(Tail(q)) <=> Asks(q)
<1> DEFINE t == Tail(q)
           n == Len(q)
<1>1. /\ Head(q) \in Requests /\ t \in Seq(Requests) /\ Len(t) = n - 1 /\ Head(q) = q[1]
      /\ n \in Nat \ {0} /\ \A i \in 1..n - 1 : t[i] = q[i + 1]
  BY TailRange, HeadTailProperties, LenProperties, EmptySeq
<1>0. t = <<>> <=> Len(t) = 0
  <2> HIDE DEF t
  <2> QED BY <1>1, EmptySeq
<1>2. /\ Last(q) = q[n] /\ Front(q) \in Seq(Requests) /\ Len(Front(q)) = n - 1
      /\ \A i \in 1..n - 1 : Front(q)[i] = q[i]
  BY FrontRange
<1>3. n > 1 => /\ Last(t) = t[n - 1] /\ Front(t) \in Seq(Requests) /\ Len(Front(t)) = n - 2
               /\ \A i \in 1..n - 2 : Front(t)[i] = t[i]
               /\ t # <<>> /\ Last(t) = q[n]
  <2>1. n > 1 => t # <<>>
    <3> HIDE DEF t, n
    <3>1. Len(t) = n - 1 /\ n \in Nat
      BY <1>1
    <3>2. n > 1 => Len(t) # 0
      BY <3>1, SMTT(30)
    <3> QED BY <1>0, <3>2, Zenon
  <2>2. t # <<>> => /\ Last(t) = t[Len(t)] /\ Front(t) \in Seq(Requests) /\ Len(Front(t)) = Len(t) - 1
                    /\ \A i \in 1..Len(t) - 1 : Front(t)[i] = t[i]
    BY <1>1, FrontRange
  <2> HIDE DEF t, n
  <2>3. n > 1 => n - 1 \in 1..n - 1 /\ n - 1 + 1 = n /\ Len(t) - 1 = n - 2
    BY <1>1
  <2>4. n > 1 => t[n - 1] = q[n]
    BY <1>1, <2>3
  <2>5. Len(t) = n - 1
    BY <1>1
  <2> QED BY <2>1, <2>2, <2>3, <2>4, <2>5, Zenon
<1>4. n = 1 => t = <<>>
  <2> HIDE DEF t, n
  <2> QED BY <1>0, <1>1
<1>5. GetIsLast(t)
  <2> HIDE DEF t
  <2>1. ASSUME NEW i \in 1..Len(t), t[i].op = "get" PROVE i = Len(t)
    <3>1. i + 1 \in 1..n /\ t[i] = q[i + 1] /\ i \in 1..n - 1
      BY <1>1
    <3>2. i + 1 = n
      BY <2>1, <3>1, SMTT(30) DEF GetIsLast
    <3> QED BY <1>1, <3>1, <3>2
  <2> QED BY <2>1 DEF GetIsLast
<1>6. CASE Head(q).op = "get"
  <2>1. n = 1
    <3>1. 1 \in 1..n
      BY <1>1
    <3> QED BY <1>1, <1>6, <3>1 DEF GetIsLast
  <2>2. Front(q) = <<>>
    BY <1>2, <2>1, EmptySeq
  <2>3. t = <<>> /\ Last(q) = Head(q) /\ q # <<>> /\ Last(q).op = "get"
    BY <1>1, <1>2, <1>4, <1>6, <2>1
  <2>4. ~Asks(t) /\ PostedOf(t) = t /\ AskedOf(t) = None
    BY <2>3 DEF PostedOf, AskedOf, Asks
  <2>5. PostedOf(q) = <<>> /\ AskedOf(q) = Last(q).key /\ Asks(q)
    BY <2>2, <2>3 DEF PostedOf, AskedOf, Asks
  <2>6. Head(q) \in Requests /\ t \in Seq(Requests) /\ AskedOf(q) = Head(q).key
    BY <1>1, <2>3, <2>5
  <2> QED BY <1>5, <1>6, <2>3, <2>5, <2>6, Zenon
<1>7. CASE Head(q).op # "get" /\ ~Asks(q)
  <2>1. ~Asks(t)
    <3>1. n = 1 \/ n > 1
      BY <1>1
    <3> QED BY <1>2, <1>3, <1>4, <1>7, <3>1 DEF Asks
  <2> QED BY <1>1, <1>5, <1>7, <2>1 DEF PostedOf, AskedOf, Asks
<1>8. CASE Head(q).op # "get" /\ Asks(q)
  <2>1. n > 1
    <3>1. n = 1 \/ n > 1
      BY <1>1
    <3> QED BY <1>1, <1>2, <1>8, <3>1 DEF Asks
  <2>2. Asks(t) /\ Last(t) = Last(q)
    BY <1>2, <1>3, <1>8, <2>1 DEF Asks
  <2>3. Front(q) # <<>> /\ Head(Front(q)) = Head(q)
    <3>1. Front(q) # <<>>
      BY <1>2, <2>1, EmptySeq
    <3>2. Head(Front(q)) = Front(q)[1]
      BY <1>2, <3>1, TailRange
    <3>3. 1 \in 1..n - 1
      BY <1>1, <2>1
    <3> QED BY <1>1, <1>2, <3>1, <3>2, <3>3
  <2>4. Front(t) = Tail(Front(q))
    <3> DEFINE f == Front(q)
               g == Tail(f)
    <3>1. /\ g \in Seq(Requests) /\ Len(g) = n - 2 /\ \A i \in 1..n - 2 : g[i] = f[i + 1]
      <4>1. /\ g \in Seq(Requests) /\ Len(g) = Len(f) - 1 /\ \A i \in 1..Len(f) - 1 : g[i] = f[i + 1]
        BY <1>2, <2>3, TailRange, HeadTailProperties
      <4>2. Len(f) - 1 = n - 2
        BY <1>1, <1>2
      <4> QED BY <4>1, <4>2
    <3> HIDE DEF f, g
    <3>2. ASSUME NEW i \in 1..n - 2 PROVE Front(t)[i] = g[i]
      <4>1. i \in 1..n - 1 /\ i + 1 \in 1..n - 1
        BY <1>1, <2>1
      <4>2. f[i + 1] = q[i + 1]
        BY <1>2, <4>1 DEF f
      <4> QED BY <1>1, <1>3, <2>1, <3>1, <4>1, <4>2
    <3>3. Front(t) \in Seq(Requests) /\ Len(Front(t)) = n - 2
      BY <1>3, <2>1
    <3>4. Front(t) = g
      BY <3>1, <3>2, <3>3, SeqEqual
    <3> QED BY <3>4 DEF f, g
  <2> QED BY <1>1, <1>5, <1>8, <2>2, <2>3, <2>4 DEF PostedOf, AskedOf, Asks
<1> QED BY <1>6, <1>7, <1>8

-----------------------------------------------------------------------------
(* What the steps of the cache do to its types and links. *)

\* Connections are numbered from one.
LEMMA ConnsDomain ==
  ASSUME CacheTypes
  PROVE  /\ DOMAIN conns = 1..Len(conns) /\ Len(conns) \in Nat /\ DOMAIN conns \subseteq Conns
         /\ \A c \in DOMAIN conns : conns[c] \in Conn /\ c # 0
         /\ Len(conns) + 1 \in Nat /\ Len(conns) + 1 \notin DOMAIN conns /\ Len(conns) + 1 # 0
<1>1. /\ DOMAIN conns = 1..Len(conns) /\ Len(conns) \in Nat
      /\ \A c \in DOMAIN conns : conns[c] \in Conn
  BY LenProperties, ElementOfSeq DEF CacheTypes
<1>2. Len(conns) <= MaxConns /\ MaxConns \in Nat
  BY CacheAssumption DEF CacheTypes
<1> QED BY <1>1, <1>2 DEF Conns

\* A call is none, waits for a connection, or reads.
LEMMA CallKinds ==
  ASSUME CacheTypes, NEW u \in Users
  PROVE  /\ call[u] \in ConnectCalls \cup GetCalls \cup {None}
         /\ Idle(u) <=> call[u] = None
         /\ None \notin ConnectCalls \cup GetCalls
         /\ ~Idle(u) => (call[u] \in ConnectCalls <=> call[u].pc = "connecting")
         /\ ~Idle(u) => (call[u] \in GetCalls <=> call[u].pc \in {"reading", "woken"})
         /\ ~(call[u] \in ConnectCalls /\ call[u] \in GetCalls)
<1>1. call[u] \in ConnectCalls \cup GetCalls \cup {None}
  BY DEF CacheTypes
<1>2. None \notin ConnectCalls \cup GetCalls
  BY NoneAssumption DEF Call, ConnectCalls, GetCalls
<1>3. /\ call[u] \in ConnectCalls => call[u].pc = "connecting"
      /\ call[u] \in GetCalls => call[u].pc \in {"reading", "woken"}
  BY DEF ConnectCalls, GetCalls
<1> QED BY <1>1, <1>2, <1>3 DEF Idle

\* Waking those who read changes nothing else of a call.
LEMMA WokenCalls ==
  ASSUME CacheTypes, NEW C
  PROVE  /\ Woken(C) \in [Users -> ConnectCalls \cup GetCalls \cup {None}]
         /\ \A u \in Users :
              /\ call[u] \notin GetCalls => Woken(C)[u] = call[u]
              /\ call[u] \in GetCalls =>
                   /\ Woken(C)[u] \in GetCalls /\ Woken(C)[u].conn = call[u].conn
                   /\ Woken(C)[u].pc = IF call[u].pc = "reading" /\ call[u].conn \in C
                                       THEN "woken" ELSE call[u].pc
<1> DEFINE f == Woken(C)
<1>1. ASSUME NEW u \in Users
      PROVE  /\ call[u] \notin GetCalls => f[u] = call[u]
             /\ call[u] \in GetCalls =>
                  /\ f[u] \in GetCalls /\ f[u].conn = call[u].conn
                  /\ f[u].pc = IF call[u].pc = "reading" /\ call[u].conn \in C
                               THEN "woken" ELSE call[u].pc
  <2>1. f[u] = IF call[u] # None /\ call[u].pc = "reading" /\ call[u].conn \in C
               THEN [call[u] EXCEPT !.pc = "woken"] ELSE call[u]
    BY DEF Woken
  <2>2. CASE call[u] \notin GetCalls
    BY <2>1, <2>2, CallKinds DEF Idle
  <2>3. CASE call[u] \in GetCalls
    <3> DEFINE x == call[u]
    <3>1. x # None /\ x \in GetCalls
      BY <2>3, CallKinds
    <3>2. [x EXCEPT !.pc = "woken"] \in GetCalls /\ [x EXCEPT !.pc = "woken"].pc = "woken"
          /\ [x EXCEPT !.pc = "woken"].conn = x.conn
      BY <3>1 DEF GetCalls
    <3> QED BY <2>1, <3>1, <3>2
  <2> QED BY <2>2, <2>3
<1>2. ASSUME NEW u \in Users PROVE f[u] \in ConnectCalls \cup GetCalls \cup {None}
  BY <1>1, CallKinds
<1>3. f = [u \in Users |-> f[u]]
  BY DEF Woken
<1> HIDE DEF f
<1>4. f \in [Users -> ConnectCalls \cup GetCalls \cup {None}]
  BY <1>2, <1>3
<1> QED BY <1>1, <1>4 DEF f

\* Connections break.
LEMMA BreakKeeps ==
  ASSUME CacheInv, NEW C, Break(C), call' = Woken(C), UNCHANGED <<outbox, got>>,
         directory' \in [Owners -> [Nodes -> Nat]],
         \A o \in Owners, n \in Nodes : directory'[o][n] \in {0, directory[o][n]},
         entries' \in [Nodes -> [Keys -> Entry \cup {None}]], accepting' \subseteq Nodes
  PROVE  CacheInv'
<1> USE DEF CacheInv
<1>1. /\ DOMAIN conns = 1..Len(conns) /\ Len(conns) \in Nat
      /\ \A c \in DOMAIN conns : conns[c] \in Conn
  BY ConnsDomain
<1>2. /\ DOMAIN conns' = DOMAIN conns /\ conns' \in Seq(Conn) /\ Len(conns') = Len(conns)
      /\ \A c \in DOMAIN conns :
           /\ conns'[c].owner = conns[c].owner /\ conns'[c].node = conns[c].node
           /\ conns'[c].up <=> conns[c].up /\ c \notin C
  <2>1. ASSUME NEW c \in DOMAIN conns
        PROVE  /\ conns'[c] \in Conn
               /\ conns'[c].owner = conns[c].owner /\ conns'[c].node = conns[c].node
               /\ conns'[c].up <=> conns[c].up /\ c \notin C
    <3>1. conns[c] \in Conn /\ conns'[c] = IF c \in C THEN [conns[c] EXCEPT !.up = FALSE] ELSE conns[c]
      BY <1>1 DEF Break
    <3> QED BY <3>1 DEF Conn
  <2>2. conns' = [c \in 1..Len(conns) |-> conns'[c]]
    BY <1>1 DEF Break
  <2>3. conns' \in Seq(Conn) /\ Len(conns') = Len(conns)
    <3> DEFINE s == conns'
    <3>1. s = [c \in 1..Len(conns) |-> s[c]] /\ \A c \in 1..Len(conns) : s[c] \in Conn
      BY <1>1, <2>1, <2>2
    <3> HIDE DEF s
    <3>2. s \in [1..Len(conns) -> Conn]
      BY <3>1
    <3>3. s \in Seq(Conn) /\ Len(s) = Len(conns)
      <4>1. PICK n : n = Len(conns)
        OBVIOUS
      <4>2. n \in Nat /\ s \in [1..n -> Conn]
        BY <1>1, <3>2, <4>1
      <4>3. s \in Seq(Conn) /\ Len(s) = n
        BY <4>2
      <4> QED BY <4>1, <4>3
    <3> QED BY <3>3 DEF s
  <2> QED BY <1>1, <2>1, <2>2, <2>3
<1>3. /\ inbox' \in [Conns -> Seq(Requests)] /\ reader' \in [Conns -> Users \cup {None}]
      /\ \A c \in Conns : /\ inbox'[c] # <<>> => inbox[c] # <<>> /\ c \notin C
                          /\ reader'[c] # None => reader'[c] = reader[c] /\ c \notin C
  BY EmptySeq DEF Break, CacheTypes
<1>4. CacheTypes'
  <2>1. call' \in [Users -> ConnectCalls \cup GetCalls \cup {None}] /\ Len(conns') <= MaxConns
        /\ outbox' = outbox /\ got' = got
    BY <1>2, WokenCalls DEF CacheTypes
  <2>2. ConnectCalls' = ConnectCalls /\ GetCalls' = GetCalls
    OBVIOUS
  <2> QED BY <1>2, <1>3, <2>1 DEF CacheTypes
<1>5. \A c, o : Made(c, o) => Made(c, o)'
  BY <1>2 DEF Made
<1>6. Links'
  <2>1. ASSUME NEW o \in Owners, NEW n \in Nodes, directory'[o][n] # 0
        PROVE  Made(directory[o][n], o)' /\ conns'[directory'[o][n]].node = n
               /\ directory'[o][n] = directory[o][n]
    <3>1. directory'[o][n] = directory[o][n] /\ directory[o][n] # 0
      BY <2>1
    <3>2. Made(directory[o][n], o) /\ conns[directory[o][n]].node = n
      BY <3>1 DEF Links
    <3> QED BY <1>2, <3>1, <3>2 DEF Made
  <2>2. ASSUME NEW u \in Users
        PROVE  /\ call'[u] \in ConnectCalls =>
                    /\ OwnerOf[u] \in Facades /\ call'[u].todo # <<>>
                    /\ call'[u].msg.op # "clear"
                    /\ \A c \in call'[u].conns : Made(c, OwnerOf[u])'
               /\ call'[u] \in GetCalls =>
                    OwnerOf[u] \in Clients /\ Made(call[u].conn, OwnerOf[u])'
                      /\ call'[u].conn = call[u].conn
    <3>1. CASE call[u] \in GetCalls
      <4>1. call'[u] \in GetCalls /\ call'[u].conn = call[u].conn
        BY <3>1, WokenCalls
      <4>2. call'[u] \notin ConnectCalls
        BY <4>1 DEF ConnectCalls, GetCalls
      <4>3. OwnerOf[u] \in Clients /\ Made(call[u].conn, OwnerOf[u])
        BY <3>1 DEF Links
      <4> QED BY <1>5, <4>1, <4>2, <4>3
    <3>2. CASE call[u] \notin GetCalls
      <4>1. call'[u] = call[u]
        BY <3>2, WokenCalls
      <4> QED BY <1>5, <3>2, <4>1 DEF Links
    <3> QED BY <3>1, <3>2
  <2> QED BY <2>1, <2>2 DEF Links
<1>7. Wires'
  <2>1. \A c : Up(c) /\ c \notin C => Up(c)'
    BY <1>2 DEF Up
  <2>2. ASSUME NEW c \in Conns, reader'[c] # None
        PROVE  /\ Up(c)' /\ call'[reader'[c]] \in GetCalls /\ call'[reader'[c]].pc = "reading"
               /\ call'[reader'[c]].conn = c
    <3>1. reader'[c] = reader[c] /\ c \notin C /\ reader[c] \in Users
      BY <1>3, <2>2 DEF CacheTypes
    <3>2. Up(c) /\ call[reader[c]] \in GetCalls /\ call[reader[c]].pc = "reading"
          /\ call[reader[c]].conn = c
      BY <2>2, <3>1 DEF Wires
    <3>3. call'[reader[c]] \in GetCalls /\ call'[reader[c]].conn = c
          /\ call'[reader[c]].pc = "reading"
      BY <3>1, <3>2, WokenCalls
    <3> QED BY <2>1, <3>1, <3>2, <3>3
  <2>3. \A c \in Conns : inbox'[c] # <<>> => Up(c)'
    BY <1>3, <2>1 DEF Wires
  <2> QED BY <2>2, <2>3 DEF Wires
<1> QED BY <1>4, <1>6, <1>7

\* A connection is made.
LEMMA ConnsGrow ==
  ASSUME CacheTypes, NEW o \in Owners, NEW n \in Nodes,
         NEW c \in Conns, c = Len(conns) + 1,
         conns' = Append(conns, [owner |-> o, node |-> n, up |-> TRUE])
  PROVE  /\ conns' \in Seq(Conn) /\ Len(conns') <= MaxConns
         /\ DOMAIN conns' = DOMAIN conns \cup {c}
         /\ conns'[c] = [owner |-> o, node |-> n, up |-> TRUE]
         /\ \A d \in DOMAIN conns : conns'[d] = conns[d]
         /\ \A d, p : Made(d, p) => Made(d, p)'
         /\ \A d : Up(d) => Up(d)'
         /\ Made(c, o)' /\ Up(c)'
<1> DEFINE r == [owner |-> o, node |-> n, up |-> TRUE]
           s == Append(conns, r)
<1>1. /\ DOMAIN conns = 1..Len(conns) /\ Len(conns) \in Nat /\ conns \in Seq(Conn)
      /\ r \in Conn /\ r.owner = o /\ r.up
  BY ConnsDomain DEF CacheTypes, Conn
<1> HIDE DEF r
<1>2. /\ s \in Seq(Conn) /\ Len(s) = Len(conns) + 1 /\ DOMAIN s = 1..Len(s)
      /\ \A d \in 1..Len(conns) : s[d] = conns[d]
      /\ s[c] = r
  BY <1>1, AppendProperties, LenProperties
<1>3. conns' = s
  BY DEF r
<1> HIDE DEF s
<1>4. /\ DOMAIN s = DOMAIN conns \cup {c} /\ Len(s) <= MaxConns
      /\ \A d \in DOMAIN conns : s[d] = conns[d]
  BY <1>1, <1>2, CacheAssumption DEF Conns
<1>5. \A d \in DOMAIN conns : d \in DOMAIN conns' /\ conns'[d] = conns[d]
  BY <1>3, <1>4
<1>6. /\ \A d, p : Made(d, p) => Made(d, p)'
      /\ \A d : Up(d) => Up(d)'
  BY <1>5 DEF Made, Up
<1>7. c \in DOMAIN conns' /\ conns'[c] = r
  BY <1>2, <1>3, <1>4
<1>8. Made(c, o)' /\ Up(c)'
  BY <1>1, <1>3, <1>4, <1>7 DEF Made, Up
<1> QED BY <1>1, <1>2, <1>3, <1>4, <1>6, <1>7, <1>8 DEF r

\* Where a request goes.
Reached(C) == {c \in C : c \in DOMAIN conns => conns[c].up}

\* What a write does to the requests.
LEMMA WriteTypes ==
  ASSUME CacheTypes, NEW C, NEW m \in Requests, Write(C, m)
  PROVE  /\ inbox' \in [Conns -> Seq(Requests)]
         /\ \A c \in Conns : inbox'[c] = IF c \in Reached(C) THEN Append(inbox[c], m) ELSE inbox[c]
<1>1. \A c \in Conns : inbox[c] \in Seq(Requests) /\ Append(inbox[c], m) \in Seq(Requests)
  BY AppendProperties DEF CacheTypes
<1>2. inbox' = [c \in Conns |->
         IF c \in C /\ (c \in DOMAIN conns => conns[c].up) THEN Append(inbox[c], m) ELSE inbox[c]]
  BY DEF Write
<1> QED BY <1>1, <1>2 DEF Reached

\* Replicas are nodes.
LEMMA ReplicasAreNodes == \A k \in Keys : ReplicasOf(k) \in Seq(Nodes)
<1> TAKE k \in Keys
<1> DEFINE N == Len(NodeOrder)
           copies == IF ReplicationFactor < N THEN ReplicationFactor ELSE N
<1>1. /\ N \in Nat /\ copies \in Nat /\ Hash[k] \in Nat
      /\ \A i \in 1..N : NodeOrder[i] \in Nodes
  BY CacheAssumption, LenProperties, ElementOfSeq
<1>2. ASSUME NEW i \in 1..copies PROVE NodeOrder[((Hash[k] + i - 1) % N) + 1] \in Nodes
  <2>1. copies <= N
    BY <1>1, CacheAssumption
  <2> HIDE DEF N, copies
  <2>2. N \in Nat \ {0} /\ Hash[k] + i - 1 \in Nat
    BY <1>1, <2>1
  <2>3. (Hash[k] + i - 1) % N \in 0..N - 1
    BY <2>2
  <2>4. ((Hash[k] + i - 1) % N) + 1 \in 1..N
    BY <2>2, <2>3
  <2> QED BY <1>1, <2>4
<1>3. ReplicasOf(k) = [i \in 1..copies |-> NodeOrder[((Hash[k] + i - 1) % N) + 1]]
  BY DEF ReplicasOf
<1>4. ReplicasOf(k) \in [1..copies -> Nodes]
  BY <1>2, <1>3
<1> QED BY <1>1, <1>4

\* The loop over the replicas ends at a node it has to connect to, or writes to
\* connections of its object, among them those it had.
Reaches(u, m, reached, S) ==
  \/ UNCHANGED inbox
  \/ m.op # "get" /\ \E C \in SUBSET S : reached \subseteq C /\ Write(C, m)

\* That is what the loop does, and its task connects, or makes no call.
LEMMA ReachEffect ==
  ASSUME CacheTypes, NEW u \in Users, NEW m \in Requests, m.op # "clear",
         NEW todo \in Seq(Nodes), NEW S \in SUBSET Conns, NEW reached \in SUBSET S,
         NEW known \in [Nodes -> Nat], \A n \in Nodes : known[n] \in S \cup {0},
         Reach(u, m, todo, reached, known)
  PROVE  /\ call' \in [Users -> ConnectCalls \cup GetCalls \cup {None}]
         /\ \A v \in Users \ {u} : call'[v] = call[v]
         /\ \/ call'[u] = None
            \/ /\ call'[u] \in ConnectCalls /\ call'[u].todo # <<>> /\ call'[u].conns \subseteq S
               /\ call'[u].msg.op # "clear"
         /\ Reaches(u, m, reached, S)
<1> DEFINE unknown == {i \in 1..Len(todo) : known[todo[i]] = 0}
           here == {i \in 1..Len(todo) : \A j \in unknown : i < j}
           all == reached \cup {known[todo[i]] : i \in here}
<1>1. Len(todo) \in Nat /\ \A i \in 1..Len(todo) : todo[i] \in Nodes
  BY LenProperties, ElementOfSeq
<1>2. all \subseteq S
  <2>1. ASSUME NEW i \in here PROVE known[todo[i]] \in S
    <3>1. i \in 1..Len(todo) /\ ~(i < i)
      BY <1>1
    <3>2. i \notin unknown
      BY <3>1
    <3>3. known[todo[i]] # 0 /\ todo[i] \in Nodes
      BY <1>1, <3>1, <3>2
    <3> QED BY <3>3
  <2> QED BY <2>1
<1>3. CASE unknown # {}
  <2> DEFINE first == Min(unknown)
             rest == SubSeq(todo, first, Len(todo))
             x == [pc |-> "connecting", msg |-> m, conns |-> all, todo |-> rest]
  <2>1. call' = [call EXCEPT ![u] = x] /\ UNCHANGED inbox
    BY <1>3 DEF Reach
  <2>2. first \in unknown
    <3>1. unknown \subseteq Nat
      BY <1>1
    <3> HIDE DEF unknown
    <3>2. \E y \in unknown : \A z \in unknown : y <= z
      BY <1>3, <3>1, LeastExists
    <3> QED BY <3>2 DEF Min
  <2>3. first \in 1..Len(todo)
    BY <2>2
  <2> HIDE DEF first
  <2>4. rest \in Seq(Nodes) /\ rest # <<>>
    <3>1. rest \in Seq(Nodes) /\ Len(rest) = Len(todo) - first + 1
      BY <1>1, <2>3, SubSeqProperties
    <3>2. Len(rest) # 0
      BY <1>1, <2>3, <3>1
    <3> QED BY <3>1, <3>2, EmptySeq
  <2> HIDE DEF rest, all
  <2>5. x \in ConnectCalls /\ x.todo = rest /\ x.conns = all /\ x.msg = m
    BY <1>2, <2>4 DEF ConnectCalls
  <2> HIDE DEF x
  <2>6. /\ call' \in [Users -> ConnectCalls \cup GetCalls \cup {None}] /\ call'[u] = x
        /\ \A v \in Users \ {u} : call'[v] = call[v]
    BY <2>1, <2>5 DEF CacheTypes
  <2> QED BY <1>2, <2>1, <2>4, <2>5, <2>6 DEF Reaches
<1>4. CASE unknown = {}
  <2>1. call' = [call EXCEPT ![u] = None] /\ IF m.op = "get" THEN UNCHANGED inbox ELSE Write(all, m)
    BY <1>4 DEF Reach
  <2>2. reached \subseteq all
    OBVIOUS
  <2> HIDE DEF all
  <2>3. Reaches(u, m, reached, S)
    BY <1>2, <2>1, <2>2 DEF Reaches
  <2>4. /\ call' \in [Users -> ConnectCalls \cup GetCalls \cup {None}] /\ call'[u] = None
        /\ \A v \in Users \ {u} : call'[v] = call[v]
    BY <2>1 DEF CacheTypes
  <2> QED BY <2>3, <2>4
<1> QED BY <1>3, <1>4

-----------------------------------------------------------------------------
(* Every step keeps types and links. *)

\* The connections a DistributedCache or a client knows.
LEMMA KnownLinks ==
  ASSUME CacheInv, NEW o \in Owners
  PROVE  /\ directory[o] \in [Nodes -> Nat]
         /\ \A n \in Nodes : directory[o][n] # 0 =>
              /\ directory[o][n] \in DOMAIN conns /\ directory[o][n] \in Conns
              /\ Made(directory[o][n], o)
BY ConnsDomain DEF CacheInv, CacheTypes, Links, Made

\* The connections of o's client may have grown to S, and its directory knows
\* no other: nothing else is touched.
GrowsTo(o, S) ==
  /\ conns' \in Seq(Conn) /\ Len(conns') <= MaxConns
  /\ \A c \in DOMAIN conns : c \in DOMAIN conns' /\ conns'[c] = conns[c]
  /\ \A c \in S : /\ c \in DOMAIN conns' /\ conns'[c].owner = o
                  /\ c \notin DOMAIN conns => conns'[c].up
  /\ directory' \in [Owners -> [Nodes -> Nat]]
  /\ \A p \in Owners, n \in Nodes :
       \/ directory'[p][n] = directory[p][n]
       \/ /\ directory'[p][n] \in DOMAIN conns' /\ conns'[directory'[p][n]].owner = p
          /\ conns'[directory'[p][n]].node = n
  /\ UNCHANGED <<entries, accepting, outbox, reader, got>>

\* The loop over the replicas, after a connection may have been made.
LEMMA ReachKeeps ==
  ASSUME CacheInv, NEW u \in Users, OwnerOf[u] \in Facades, call[u] \notin GetCalls,
         NEW m \in Requests, m.op # "clear", NEW todo \in Seq(Nodes),
         NEW S \in SUBSET Conns, NEW reached \in SUBSET S,
         NEW known \in [Nodes -> Nat], \A n \in Nodes : known[n] \in S \cup {0},
         Reach(u, m, todo, reached, known), GrowsTo(OwnerOf[u], S)
  PROVE  CacheInv'
<1> USE DEF GrowsTo
<1>1. CacheTypes /\ Links /\ Wires
  BY DEF CacheInv
<1>2. /\ call' \in [Users -> ConnectCalls \cup GetCalls \cup {None}]
      /\ \A v \in Users \ {u} : call'[v] = call[v]
      /\ \/ call'[u] = None
         \/ /\ call'[u] \in ConnectCalls /\ call'[u].todo # <<>> /\ call'[u].conns \subseteq S
            /\ call'[u].msg.op # "clear"
      /\ Reaches(u, m, reached, S)
  BY <1>1, ReachEffect
<1>3. /\ \A c, o : Made(c, o) => Made(c, o)'
      /\ \A c : Up(c) => Up(c)'
  BY DEF Made, Up
<1>4. inbox' \in [Conns -> Seq(Requests)] /\ \A c \in Conns : inbox'[c] # <<>> => Up(c)'
  <2>1. CASE UNCHANGED inbox
    BY <1>1, <1>3, <2>1 DEF CacheTypes, Wires
  <2>2. CASE \E C \in SUBSET S : Write(C, m)
    <3>1. PICK C \in SUBSET S : Write(C, m)
      BY <2>2
    <3>2. /\ inbox' \in [Conns -> Seq(Requests)]
          /\ \A c \in Conns : inbox'[c] = IF c \in Reached(C) THEN Append(inbox[c], m) ELSE inbox[c]
      BY <1>1, <3>1, WriteTypes
    <3>3. ASSUME NEW c \in Conns, c \in Reached(C) PROVE Up(c)'
      BY <3>3 DEF Reached, Up
    <3>4. \A c \in Conns : c \notin Reached(C) /\ inbox'[c] # <<>> => Up(c)'
      BY <1>1, <1>3, <3>2 DEF Wires
    <3> QED BY <3>2, <3>3, <3>4
  <2> QED BY <1>2, <2>1, <2>2 DEF Reaches
<1>5. CacheTypes'
  <2>1. ConnectCalls' = ConnectCalls /\ GetCalls' = GetCalls
    OBVIOUS
  <2> QED BY <1>1, <1>2, <1>4, <2>1 DEF CacheTypes
<1>6. Links'
  <2>1. ASSUME NEW o \in Owners, NEW n \in Nodes, directory'[o][n] # 0
        PROVE  /\ directory'[o][n] \in DOMAIN conns' /\ conns'[directory'[o][n]].owner = o
               /\ conns'[directory'[o][n]].node = n
    <3>1. CASE directory'[o][n] = directory[o][n]
      <4>1. Made(directory[o][n], o) /\ conns[directory[o][n]].node = n
        BY <1>1, <2>1, <3>1 DEF Links
      <4> QED BY <3>1, <4>1 DEF Made
    <3> QED BY <3>1
  <2>2. ASSUME NEW v \in Users
        PROVE  /\ call'[v] \in ConnectCalls =>
                    /\ OwnerOf[v] \in Facades /\ call'[v].todo # <<>>
                    /\ call'[v].msg.op # "clear"
                    /\ \A c \in call'[v].conns : Made(c, OwnerOf[v])'
               /\ call'[v] \in GetCalls => OwnerOf[v] \in Clients
               /\ call'[v] \in GetCalls => Made(call[v].conn, OwnerOf[v])'
    <3>1. CASE v = u
      <4>1. call'[u] \notin GetCalls
        <5>1. None \notin GetCalls /\ \A x \in ConnectCalls : x \notin GetCalls
          BY <1>1, CallKinds DEF ConnectCalls, GetCalls
        <5> QED BY <1>2, <5>1
      <4>2. None \notin ConnectCalls
        BY <1>1, CallKinds
      <4> QED BY <1>2, <3>1, <4>1, <4>2 DEF Made
    <3>2. CASE v # u
      <4>1. call'[v] = call[v]
        BY <1>2, <3>2
      <4>2. call[v] \in GetCalls => Made(call[v].conn, OwnerOf[v]) /\ OwnerOf[v] \in Clients
        BY <1>1 DEF Links
      <4>3. call[v] \in GetCalls => Made(call[v].conn, OwnerOf[v])'
        BY <1>3, <4>1, <4>2 DEF Made
      <4> QED BY <1>1, <1>3, <4>1, <4>2, <4>3 DEF Links
    <3> QED BY <3>1, <3>2
  <2>3. ASSUME NEW o \in Owners, NEW n \in Nodes, directory'[o][n] # 0
        PROVE  Made(directory[o][n], o)'
    BY <2>1, <2>3 DEF Made
  <2> QED BY <2>1, <2>2, <2>3 DEF Links
<1>7. Wires'
  <2>1. ASSUME NEW c \in Conns, reader[c] # None
        PROVE  /\ Up(c)' /\ call'[reader[c]] \in GetCalls /\ call'[reader[c]].pc = "reading"
               /\ call'[reader[c]].conn = c
    <3>1. Up(c) /\ call[reader[c]] \in GetCalls /\ call[reader[c]].pc = "reading"
          /\ call[reader[c]].conn = c
      BY <1>1, <2>1 DEF Wires
    <3>2. reader[c] \in Users \ {u}
      BY <1>1, <2>1, <3>1 DEF CacheTypes
    <3> QED BY <1>2, <1>3, <3>1, <3>2
  <2> QED BY <1>4, <2>1 DEF Wires
<1> QED BY <1>5, <1>6, <1>7 DEF CacheInv

\* set(), get() and delete() of a DistributedCache.
LEMMA FacadeCallKeeps ==
  ASSUME CacheInv, NEW u \in Users, NEW m \in Requests, FacadeCall(u, m)
  PROVE  CacheInv'
<1> DEFINE o == OwnerOf[u]
           S == {c \in DOMAIN conns : Made(c, o)}
<1>1. /\ o \in Facades /\ o \in Owners /\ call[u] = None /\ m.op # "clear" /\ m.key \in Keys
      /\ Reach(u, m, ReplicasOf(m.key), {}, directory[o])
      /\ UNCHANGED <<entries, accepting, conns, outbox, reader, directory, got>>
  BY DEF FacadeCall, Idle, Owners, Requests, nodeVars
<1>2. CacheTypes /\ call[u] \notin GetCalls
  BY <1>1, CallKinds DEF CacheInv
<1>3. directory[o] \in [Nodes -> Nat] /\ \A n \in Nodes : directory[o][n] \in S \cup {0}
  BY <1>1, KnownLinks
<1>4. S \in SUBSET Conns /\ {} \in SUBSET S /\ ReplicasOf(m.key) \in Seq(Nodes)
  BY <1>1, <1>2, ConnsDomain, ReplicasAreNodes
<1>5. /\ \A c \in S : c \in DOMAIN conns' /\ conns'[c].owner = OwnerOf[u]
      /\ \A c \in S : c \in DOMAIN conns
      /\ conns' \in Seq(Conn) /\ Len(conns') <= MaxConns
      /\ \A c \in DOMAIN conns : c \in DOMAIN conns' /\ conns'[c] = conns[c]
      /\ directory' \in [Owners -> [Nodes -> Nat]] /\ directory' = directory
  BY <1>1, <1>2 DEF Made, CacheTypes
<1> HIDE DEF S
<1>6. GrowsTo(o, S)
  BY <1>1, <1>5 DEF GrowsTo
<1>7. PICK todo, known : todo = ReplicasOf(m.key) /\ known = directory[o]
  OBVIOUS
<1>8. /\ todo \in Seq(Nodes) /\ known \in [Nodes -> Nat] /\ \A n \in Nodes : known[n] \in S \cup {0}
      /\ Reach(u, m, todo, {}, known)
  BY <1>1, <1>3, <1>4, <1>7
<1> QED BY <1>1, <1>2, <1>4, <1>6, <1>8, ReachKeeps

\* The connection to a node is refused.
LEMMA FacadeRefusedKeeps ==
  ASSUME CacheInv, NEW u \in Users, FacadeRefused(u)
  PROVE  CacheInv'
<1> DEFINE o == OwnerOf[u]
           S == {c \in DOMAIN conns : Made(c, o)}
<1>1. /\ ~Idle(u) /\ call[u].pc = "connecting"
      /\ Reach(u, call[u].msg, Tail(call[u].todo), call[u].conns, directory[o])
      /\ UNCHANGED <<entries, accepting, conns, outbox, reader, directory, got>>
  BY DEF FacadeRefused, nodeVars
<1>2. CacheTypes /\ call[u] \in ConnectCalls /\ call[u] \notin GetCalls
  BY <1>1, CallKinds DEF CacheInv
<1>3. /\ o \in Facades /\ o \in Owners /\ call[u].todo # <<>> /\ call[u].msg.op # "clear"
      /\ \A c \in call[u].conns : Made(c, o)
  BY <1>2 DEF CacheInv, Links, Owners
<1>4. /\ call[u].todo \in Seq(Nodes) /\ call[u].msg \in Requests
      /\ Tail(call[u].todo) \in Seq(Nodes)
  <2>1. call[u].todo \in Seq(Nodes) /\ call[u].msg \in Requests
    BY <1>2 DEF ConnectCalls
  <2> QED BY <1>3, <2>1, TailRange
<1>5. directory[o] \in [Nodes -> Nat] /\ \A n \in Nodes : directory[o][n] \in S \cup {0}
  BY <1>3, KnownLinks
<1>6. S \in SUBSET Conns /\ call[u].conns \in SUBSET S
  BY <1>2, <1>3, ConnsDomain DEF Made
<1>7. /\ \A c \in S : c \in DOMAIN conns' /\ conns'[c].owner = OwnerOf[u]
      /\ \A c \in S : c \in DOMAIN conns
      /\ conns' \in Seq(Conn) /\ Len(conns') <= MaxConns
      /\ \A c \in DOMAIN conns : c \in DOMAIN conns' /\ conns'[c] = conns[c]
      /\ directory' \in [Owners -> [Nodes -> Nat]] /\ directory' = directory
  BY <1>1, <1>2 DEF Made, CacheTypes
<1> HIDE DEF S
<1>8. GrowsTo(o, S)
  BY <1>1, <1>7 DEF GrowsTo
<1>9. PICK m, todo, reached, known :
        m = call[u].msg /\ todo = Tail(call[u].todo) /\ reached = call[u].conns /\ known = directory[o]
  OBVIOUS
<1>10. /\ m \in Requests /\ m.op # "clear" /\ todo \in Seq(Nodes) /\ reached \in SUBSET S
       /\ known \in [Nodes -> Nat] /\ \A n \in Nodes : known[n] \in S \cup {0}
       /\ Reach(u, m, todo, reached, known)
  BY <1>1, <1>3, <1>4, <1>5, <1>6, <1>9
<1> QED BY <1>2, <1>3, <1>6, <1>8, <1>10, ReachKeeps

\* It is made.
LEMMA FacadeConnectedKeeps ==
  ASSUME CacheInv, NEW u \in Users, FacadeConnected(u)
  PROVE  CacheInv'
<1> DEFINE o == OwnerOf[u]
<1>1. PICK c, n : c = Len(conns) + 1 /\ n = Head(call[u].todo)
  OBVIOUS
<1> DEFINE S == {d \in DOMAIN conns : Made(d, o)} \cup {c}
<1>2. /\ ~Idle(u) /\ call[u].pc = "connecting" /\ c \in Conns
      /\ conns' = Append(conns, [owner |-> o, node |-> n, up |-> TRUE])
      /\ directory' = [directory EXCEPT ![o][n] = c]
      /\ Reach(u, call[u].msg, Tail(call[u].todo), call[u].conns \cup {c}, directory'[o])
      /\ UNCHANGED <<entries, accepting, outbox, reader, got>>
  BY <1>1 DEF FacadeConnected, nodeVars
<1>3. CacheTypes /\ call[u] \in ConnectCalls /\ call[u] \notin GetCalls
  BY <1>2, CallKinds DEF CacheInv
<1>4. /\ o \in Facades /\ o \in Owners /\ call[u].todo # <<>> /\ call[u].msg.op # "clear"
      /\ \A d \in call[u].conns : Made(d, o)
  BY <1>3 DEF CacheInv, Links, Owners
<1>5. /\ call[u].todo \in Seq(Nodes) /\ call[u].msg \in Requests
      /\ Tail(call[u].todo) \in Seq(Nodes) /\ n \in Nodes
  <2>1. call[u].todo \in Seq(Nodes) /\ call[u].msg \in Requests
    BY <1>3 DEF ConnectCalls
  <2> QED BY <1>1, <1>4, <2>1, TailRange
<1>6. /\ conns' \in Seq(Conn) /\ Len(conns') <= MaxConns
      /\ DOMAIN conns' = DOMAIN conns \cup {c}
      /\ conns'[c] = [owner |-> o, node |-> n, up |-> TRUE]
      /\ \A d \in DOMAIN conns : conns'[d] = conns[d]
  <2>1. /\ CacheTypes /\ o \in Owners /\ n \in Nodes /\ c \in Conns /\ c = Len(conns) + 1
        /\ conns' = Append(conns, [owner |-> o, node |-> n, up |-> TRUE])
    BY <1>1, <1>2, <1>3, <1>4, <1>5
  <2> QED BY <2>1, ConnsGrow
<1>7. S \in SUBSET Conns /\ (call[u].conns \cup {c}) \in SUBSET S /\ c \in Nat
  BY <1>2, <1>3, <1>4, ConnsDomain DEF Made, Conns
<1>8. /\ directory' \in [Owners -> [Nodes -> Nat]]
      /\ \A p \in Owners, l \in Nodes :
           directory'[p][l] = IF p = o /\ l = n THEN c ELSE directory[p][l]
  BY <1>2, <1>3, <1>4, <1>5, <1>7 DEF CacheTypes
<1>9. directory'[o] \in [Nodes -> Nat] /\ \A l \in Nodes : directory'[o][l] \in S \cup {0}
  <2>1. \A l \in Nodes : directory[o][l] # 0 => directory[o][l] \in S
    BY <1>4, KnownLinks
  <2> QED BY <1>4, <1>8, <2>1
<1>10. /\ \A d \in S : /\ d \in DOMAIN conns' /\ conns'[d].owner = OwnerOf[u]
                       /\ d \notin DOMAIN conns => conns'[d].up
       /\ \A d \in DOMAIN conns : d \in DOMAIN conns' /\ conns'[d] = conns[d]
  BY <1>6 DEF Made
<1>11. \A p \in Owners, l \in Nodes :
         \/ directory'[p][l] = directory[p][l]
         \/ /\ directory'[p][l] \in DOMAIN conns' /\ conns'[directory'[p][l]].owner = p
            /\ conns'[directory'[p][l]].node = l
  BY <1>6, <1>8, SMTT(30)
<1> HIDE DEF S
<1>12. GrowsTo(o, S)
  BY <1>2, <1>6, <1>8, <1>10, <1>11 DEF GrowsTo
<1>13. PICK m, todo, reached, known :
         /\ m = call[u].msg /\ todo = Tail(call[u].todo)
         /\ reached = call[u].conns \cup {c} /\ known = directory'[o]
  OBVIOUS
<1>14. /\ m \in Requests /\ m.op # "clear" /\ todo \in Seq(Nodes) /\ reached \in SUBSET S
       /\ known \in [Nodes -> Nat] /\ \A l \in Nodes : known[l] \in S \cup {0}
       /\ Reach(u, m, todo, reached, known)
  BY <1>2, <1>4, <1>5, <1>7, <1>9, <1>13
<1> QED BY <1>3, <1>4, <1>7, <1>12, <1>14, ReachKeeps

\* What a node holds after a request.
LEMMA StoredTypes ==
  ASSUME NEW held \in [Keys -> Entry \cup {None}], NEW m \in Requests
  PROVE  Stored(held, m) \in [Keys -> Entry \cup {None}]
<1>1. m.op = "set" => m.value \in Values
  BY DEF Requests
<1>2. m.op = "set" => [value |-> m.value, expired |-> FALSE] \in Entry
  BY <1>1 DEF Entry
<1>3. ASSUME NEW k \in Keys
      PROVE  (IF m.op = "clear" THEN None
              ELSE IF m.op = "get" \/ k # m.key THEN held[k]
              ELSE IF m.op = "set" THEN [value |-> m.value, expired |-> FALSE] ELSE None)
               \in Entry \cup {None}
  BY <1>2
<1> QED BY <1>3 DEF Stored

\* Only the entries change, or who accepts connections.
LEMMA EntriesKeep ==
  ASSUME CacheInv, entries' \in [Nodes -> [Keys -> Entry \cup {None}]], accepting' \subseteq Nodes,
         UNCHANGED <<conns, inbox, outbox, reader, got, directory, call>>
  PROVE  CacheInv'
<1>1. CacheTypes'
  BY DEF CacheInv, CacheTypes, ConnectCalls, GetCalls
<1>2. Links' /\ Wires'
  BY DEF CacheInv, Links, Wires, Made, Up, ConnectCalls, GetCalls
<1> QED BY <1>1, <1>2 DEF CacheInv

\* The steps of a node without a connection.
LEMMA NodeKeeps ==
  ASSUME CacheInv, NEW n \in Nodes,
         \/ \E m \in Requests : NodeCall(n, m)
         \/ \E k \in Keys : Expire(n, k)
         \/ \E K \in SUBSET Keys : Drop(n, K)
         \/ Stop(n)
         \/ Start(n)
  PROVE  CacheInv'
<1>1. /\ entries \in [Nodes -> [Keys -> Entry \cup {None}]] /\ accepting \subseteq Nodes
      /\ entries[n] \in [Keys -> Entry \cup {None}]
  BY DEF CacheInv, CacheTypes
<1>2. ASSUME NEW m \in Requests, NodeCall(n, m) PROVE CacheInv'
  <2>1. entries' \in [Nodes -> [Keys -> Entry \cup {None}]] /\ accepting' \subseteq Nodes
    BY <1>1, <1>2, StoredTypes DEF NodeCall
  <2> QED BY <1>2, <2>1, EntriesKeep DEF NodeCall, wireVars
<1>3. ASSUME NEW k \in Keys, Expire(n, k) PROVE CacheInv'
  <2>1. [entries[n][k] EXCEPT !.expired = TRUE] \in Entry
    <3>1. entries[n][k] \in Entry
      BY <1>1, <1>3 DEF Expire
    <3> QED BY <3>1 DEF Entry
  <2>2. entries' = [entries EXCEPT ![n] = [entries[n] EXCEPT ![k] = [entries[n][k] EXCEPT !.expired = TRUE]]]
    BY <1>3 DEF Expire
  <2>3. entries' \in [Nodes -> [Keys -> Entry \cup {None}]] /\ accepting' \subseteq Nodes
    BY <1>1, <1>3, <2>1, <2>2 DEF Expire
  <2> QED BY <1>3, <2>3, EntriesKeep DEF Expire, wireVars
<1>4. ASSUME NEW K \in SUBSET Keys, Drop(n, K) PROVE CacheInv'
  <2>1. entries' \in [Nodes -> [Keys -> Entry \cup {None}]] /\ accepting' \subseteq Nodes
    BY <1>1, <1>4 DEF Drop
  <2> QED BY <1>4, <2>1, EntriesKeep DEF Drop, wireVars
<1>5. CASE Stop(n)
  BY <1>1, <1>5, EntriesKeep DEF Stop, wireVars
<1>6. CASE Start(n)
  BY <1>1, <1>6, EntriesKeep DEF Start, wireVars
<1> QED BY <1>2, <1>3, <1>4, <1>5, <1>6

\* A CacheClient connects.
LEMMA ConnectKeeps ==
  ASSUME CacheInv, NEW u \in Users, NEW n \in Nodes, Connect(u, n)
  PROVE  CacheInv'
<1> DEFINE o == OwnerOf[u]
<1>1. PICK c : c = Len(conns) + 1
  OBVIOUS
<1>2. /\ o \in Owners /\ Len(conns) < MaxConns
      /\ conns' = Append(conns, [owner |-> o, node |-> n, up |-> TRUE])
      /\ directory' = [directory EXCEPT ![o][n] = c]
      /\ UNCHANGED <<entries, accepting, inbox, outbox, reader, got, call>>
  BY <1>1 DEF Connect, Owners, nodeVars, wireVars
<1>3. CacheTypes /\ Links /\ Wires
  BY DEF CacheInv
<1>4. c \in Conns /\ c \in Nat
  BY <1>1, <1>2, <1>3, ConnsDomain, CacheAssumption DEF Conns
<1>5. /\ conns' \in Seq(Conn) /\ Len(conns') <= MaxConns
      /\ DOMAIN conns' = DOMAIN conns \cup {c}
      /\ conns'[c] = [owner |-> o, node |-> n, up |-> TRUE]
      /\ \A d \in DOMAIN conns : conns'[d] = conns[d]
      /\ \A d, p : Made(d, p) => Made(d, p)'
      /\ \A d : Up(d) => Up(d)'
  BY <1>1, <1>2, <1>3, <1>4, ConnsGrow
<1>6. /\ directory' \in [Owners -> [Nodes -> Nat]]
      /\ \A p \in Owners, l \in Nodes :
           directory'[p][l] = IF p = o /\ l = n THEN c ELSE directory[p][l]
  BY <1>2, <1>3, <1>4 DEF CacheTypes
<1>7. CacheTypes'
  BY <1>2, <1>3, <1>5, <1>6 DEF CacheTypes, ConnectCalls, GetCalls
<1>8. Wires'
  BY <1>2, <1>3, <1>5 DEF Wires, GetCalls
<1>9. Links'
  <2>1. ASSUME NEW p \in Owners, NEW l \in Nodes, directory'[p][l] # 0
        PROVE  /\ directory'[p][l] \in DOMAIN conns' /\ conns'[directory'[p][l]].owner = p
               /\ conns'[directory'[p][l]].node = l
    <3>1. CASE p = o /\ l = n
      BY <1>5, <1>6, <3>1
    <3>2. CASE ~(p = o /\ l = n)
      <4>1. directory'[p][l] = directory[p][l]
        BY <1>6, <3>2
      <4>2. Made(directory[p][l], p) /\ conns[directory[p][l]].node = l
        BY <1>3, <2>1, <4>1 DEF Links
      <4> QED BY <1>5, <4>1, <4>2 DEF Made
    <3> QED BY <3>1, <3>2
  <2>2. ASSUME NEW v \in Users, call[v] \in ConnectCalls
        PROVE  /\ OwnerOf[v] \in Facades /\ call[v].todo # <<>> /\ call[v].msg.op # "clear"
               /\ \A d \in call[v].conns : Made(d, OwnerOf[v])'
    BY <1>3, <1>5, <2>2 DEF Links
  <2>3. ASSUME NEW v \in Users, call[v] \in GetCalls
        PROVE  /\ OwnerOf[v] \in Clients
               /\ call[v].conn \in DOMAIN conns' /\ conns'[call[v].conn].owner = OwnerOf[v]
    <3>1. Made(call[v].conn, OwnerOf[v]) /\ OwnerOf[v] \in Clients
      BY <1>3, <2>3 DEF Links
    <3> QED BY <1>5, <3>1 DEF Made
  <2>4. call' = call /\ ConnectCalls' = ConnectCalls /\ GetCalls' = GetCalls
    BY <1>2
  <2> QED BY <2>1, <2>2, <2>3, <2>4 DEF Links, Made
<1> QED BY <1>7, <1>8, <1>9 DEF CacheInv

\* set(), delete() and clear() of a CacheClient.
LEMMA SendKeeps ==
  ASSUME CacheInv, NEW u \in Users, NEW m \in Requests, Send(u, m)
  PROVE  CacheInv'
<1>1. PICK n \in Nodes : Link(u, n) # 0 /\ Write({Link(u, n)}, m)
  BY DEF Send
<1>2. UNCHANGED <<entries, accepting, conns, outbox, reader, directory, got, call>>
  BY DEF Send, nodeVars
<1>3. CacheTypes /\ Links /\ Wires /\ OwnerOf[u] \in Owners
  BY CacheAssumption DEF CacheInv
<1>4. PICK c : c = Link(u, n)
  OBVIOUS
<1>5. c \in DOMAIN conns
  BY <1>1, <1>3, <1>4, KnownLinks DEF Link
<1>6. /\ inbox' \in [Conns -> Seq(Requests)]
      /\ \A d \in Conns : inbox'[d] = IF d \in Reached({c}) THEN Append(inbox[d], m) ELSE inbox[d]
  BY <1>1, <1>3, <1>4, WriteTypes
<1>7. \A d \in Conns : inbox'[d] # <<>> => Up(d)'
  <2>1. \A d \in Reached({c}) : Up(d)
    BY <1>5 DEF Reached, Up
  <2> QED BY <1>2, <1>3, <1>6, <2>1 DEF Wires, Up
<1>8. CacheTypes'
  BY <1>2, <1>3, <1>6 DEF CacheTypes, ConnectCalls, GetCalls
<1>9. Links'
  BY <1>2, <1>3 DEF Links, Made, ConnectCalls, GetCalls
<1>10. Wires'
  BY <1>2, <1>3, <1>7 DEF Wires, Up, GetCalls
<1> QED BY <1>8, <1>9, <1>10 DEF CacheInv

\* What get() does with the connection c: it fails, takes what is there, or waits.
GetFrom(u, c, k) ==
  /\ Write({c}, [op |-> "get", key |-> k])
  /\ \/ /\ ~conns[c].up \/ reader[c] # None
        /\ UNCHANGED <<outbox, reader, got, call>>
     \/ /\ conns[c].up /\ reader[c] = None /\ outbox[c] # <<>>
        /\ outbox' = [outbox EXCEPT ![c] = Tail(@)]
        /\ got' = [got EXCEPT ![c] = [asked |-> k, answer |-> Head(outbox[c])]]
        /\ UNCHANGED <<reader, call>>
     \/ /\ conns[c].up /\ reader[c] = None /\ outbox[c] = <<>>
        /\ reader' = [reader EXCEPT ![c] = u]
        /\ call' = [call EXCEPT ![u] = [pc |-> "reading", conn |-> c, key |-> k]]
        /\ got' = [got EXCEPT ![c] = None]
        /\ UNCHANGED outbox

\* The three ways a get() goes.
LEMMA GetCases ==
  ASSUME NEW u, NEW k, Get(u, k)
  PROVE  \E n \in Nodes : Link(u, n) # 0 /\ GetFrom(u, Link(u, n), k)
BY DEF Get, GetFrom

\* An answer that was read.
LEMMA DeliveryType ==
  ASSUME CacheTypes, NEW c \in Conns, outbox[c] # <<>>, NEW k \in Keys
  PROVE  /\ Head(outbox[c]) \in Answer /\ Tail(outbox[c]) \in Seq(Answer)
         /\ [asked |-> k, answer |-> Head(outbox[c])] \in Delivery
<1>1. Head(outbox[c]) \in Answer /\ Tail(outbox[c]) \in Seq(Answer)
  BY TailRange DEF CacheTypes
<1> QED BY <1>1 DEF Delivery

\* get() of a CacheClient.
LEMMA GetKeeps ==
  ASSUME CacheInv, NEW u \in Users, NEW k \in Keys, Get(u, k)
  PROVE  CacheInv'
<1>1. PICK n \in Nodes : Link(u, n) # 0 /\ GetFrom(u, Link(u, n), k)
  BY GetCases
<1>2. PICK c : c = Link(u, n)
  OBVIOUS
<1> DEFINE m == [op |-> "get", key |-> k]
<1>3. /\ UNCHANGED <<entries, accepting, conns, directory>>
      /\ OwnerOf[u] \in Clients /\ OwnerOf[u] \in Owners /\ call[u] = None
      /\ Write({c}, m) /\ m \in Requests
  BY <1>1, <1>2 DEF Get, nodeVars, Idle, Owners, GetFrom, Requests
<1>4. CacheTypes /\ Links /\ Wires
  BY DEF CacheInv
<1>5. c \in DOMAIN conns /\ c \in Conns /\ Made(c, OwnerOf[u])
  BY <1>1, <1>2, <1>3, KnownLinks DEF Link
<1>6. inbox' \in [Conns -> Seq(Requests)] /\ \A d \in Conns : inbox'[d] # <<>> => Up(d)'
  <2>1. /\ inbox' \in [Conns -> Seq(Requests)]
        /\ \A d \in Conns : inbox'[d] = IF d \in Reached({c}) THEN Append(inbox[d], m) ELSE inbox[d]
    BY <1>3, <1>4, WriteTypes
  <2>2. \A d \in Reached({c}) : Up(d)
    BY <1>5 DEF Reached, Up
  <2> QED BY <1>3, <1>4, <2>1, <2>2 DEF Wires, Up
<1>7. CASE UNCHANGED <<reader, call>> /\ outbox' \in [Conns -> Seq(Answer)]
           /\ got' \in [Conns -> Delivery \cup {None}]
  <2>1. CacheTypes'
    BY <1>3, <1>4, <1>6, <1>7 DEF CacheTypes, ConnectCalls, GetCalls
  <2>2. Links'
    BY <1>3, <1>4, <1>7 DEF Links, Made, ConnectCalls, GetCalls
  <2>3. Wires'
    BY <1>3, <1>4, <1>6, <1>7 DEF Wires, Up, GetCalls
  <2> QED BY <2>1, <2>2, <2>3 DEF CacheInv
<1>8. CASE /\ conns[c].up /\ UNCHANGED outbox
           /\ reader' = [reader EXCEPT ![c] = u]
           /\ call' = [call EXCEPT ![u] = [pc |-> "reading", conn |-> c, key |-> k]]
           /\ got' = [got EXCEPT ![c] = None]
  <2> DEFINE x == [pc |-> "reading", conn |-> c, key |-> k]
  <2>1. x \in GetCalls /\ x.conn = c /\ x.pc = "reading" /\ x \notin ConnectCalls
    BY <1>5 DEF GetCalls, ConnectCalls
  <2>2. call' = [call EXCEPT ![u] = x]
    BY <1>8
  <2> HIDE DEF x
  <2>3. /\ call' \in [Users -> ConnectCalls \cup GetCalls \cup {None}] /\ call'[u] = x
        /\ \A v \in Users \ {u} : call'[v] = call[v]
        /\ reader' \in [Conns -> Users \cup {None}] /\ reader'[c] = u
        /\ \A d \in Conns \ {c} : reader'[d] = reader[d]
        /\ got' \in [Conns -> Delivery \cup {None}]
    BY <1>4, <1>5, <1>8, <2>1, <2>2 DEF CacheTypes
  <2>4. CacheTypes'
    BY <1>3, <1>4, <1>6, <1>8, <2>3 DEF CacheTypes, ConnectCalls, GetCalls
  <2>5. Links'
    <3>1. ASSUME NEW v \in Users
          PROVE  /\ call'[v] \in ConnectCalls =>
                      /\ OwnerOf[v] \in Facades /\ call'[v].todo # <<>>
                      /\ call'[v].msg.op # "clear"
                      /\ \A d \in call'[v].conns : Made(d, OwnerOf[v])
                 /\ call'[v] \in GetCalls =>
                      OwnerOf[v] \in Clients /\ Made(call'[v].conn, OwnerOf[v])
      <4>1. CASE v = u
        BY <1>3, <1>5, <2>1, <2>3, <4>1
      <4>2. CASE v # u
        <5>1. call'[v] = call[v]
          BY <2>3, <4>2
        <5> QED BY <1>4, <5>1 DEF Links
      <4> QED BY <4>1, <4>2
    <3>2. \A d, o : Made(d, o)' <=> Made(d, o)
      BY <1>3 DEF Made
    <3>3. ConnectCalls' = ConnectCalls /\ GetCalls' = GetCalls /\ directory' = directory /\ conns' = conns
      BY <1>3
    <3>4. \A v \in Users : call'[v] \in GetCalls => Made(call[v].conn, OwnerOf[v])'
      BY <3>1, <3>3 DEF Made
    <3>5. \A o \in Owners, l \in Nodes : directory'[o][l] # 0 => Made(directory[o][l], o)'
      BY <1>4, <3>3 DEF Links, Made
    <3> QED BY <1>4, <3>1, <3>2, <3>3, <3>4, <3>5 DEF Links
  <2>6. Wires'
    <3>1. ASSUME NEW d \in Conns, reader'[d] # None
          PROVE  /\ Up(d) /\ call'[reader'[d]] \in GetCalls /\ call'[reader'[d]].pc = "reading"
                 /\ call'[reader'[d]].conn = d
      <4>1. CASE d = c
        BY <1>5, <1>8, <2>1, <2>3, <4>1 DEF Up
      <4>2. CASE d # c
        <5>1. reader'[d] = reader[d] /\ reader[d] \in Users
          BY <1>4, <2>3, <3>1, <4>2 DEF CacheTypes
        <5>2. /\ Up(d) /\ call[reader[d]] \in GetCalls /\ call[reader[d]].pc = "reading"
              /\ call[reader[d]].conn = d
          BY <1>4, <3>1, <5>1 DEF Wires
        <5>3. reader[d] # u
          BY <1>3, <1>4, <5>2, CallKinds
        <5> QED BY <2>3, <5>1, <5>2, <5>3
      <4> QED BY <4>1, <4>2
    <3>2. \A d : Up(d)' <=> Up(d)
      BY <1>3 DEF Up
    <3> QED BY <1>6, <3>1, <3>2 DEF Wires, GetCalls
  <2> QED BY <2>4, <2>5, <2>6 DEF CacheInv
<1>9. GetFrom(u, c, k)
  BY <1>1, <1>2
<1>10. CASE ~conns[c].up \/ reader[c] # None
  BY <1>4, <1>7, <1>9, <1>10 DEF GetFrom, CacheTypes
<1>11. CASE conns[c].up /\ reader[c] = None /\ outbox[c] # <<>>
  <2>1. Tail(outbox[c]) \in Seq(Answer) /\ [asked |-> k, answer |-> Head(outbox[c])] \in Delivery
    BY <1>4, <1>5, <1>11, DeliveryType
  <2>2. /\ UNCHANGED <<reader, call>>
        /\ outbox' = [outbox EXCEPT ![c] = Tail(outbox[c])]
        /\ got' = [got EXCEPT ![c] = [asked |-> k, answer |-> Head(outbox[c])]]
    BY <1>9, <1>11 DEF GetFrom
  <2>3. outbox' \in [Conns -> Seq(Answer)] /\ got' \in [Conns -> Delivery \cup {None}]
    BY <1>4, <2>1, <2>2 DEF CacheTypes
  <2> QED BY <1>7, <2>2, <2>3
<1>12. CASE conns[c].up /\ reader[c] = None /\ outbox[c] = <<>>
  BY <1>8, <1>9, <1>12 DEF GetFrom
<1> QED BY <1>10, <1>11, <1>12

\* A call ends, and no longer reads.
LEMMA EndCallKeeps ==
  ASSUME CacheInv, NEW u \in Users, call' = [call EXCEPT ![u] = None],
         reader' \in [Conns -> Users \cup {None}],
         \A c \in Conns : reader'[c] # None => reader'[c] = reader[c] /\ reader[c] # u,
         outbox' \in [Conns -> Seq(Answer)], got' \in [Conns -> Delivery \cup {None}],
         UNCHANGED <<entries, accepting, conns, inbox, directory>>
  PROVE  CacheInv'
<1>1. CacheTypes /\ Links /\ Wires
  BY DEF CacheInv
<1>2. /\ call' \in [Users -> ConnectCalls \cup GetCalls \cup {None}] /\ call'[u] = None
      /\ \A v \in Users \ {u} : call'[v] = call[v]
      /\ None \notin ConnectCalls \cup GetCalls
  BY <1>1, CallKinds DEF CacheTypes
<1>3. ConnectCalls' = ConnectCalls /\ GetCalls' = GetCalls
  OBVIOUS
<1>4. CacheTypes'
  BY <1>1, <1>2, <1>3 DEF CacheTypes
<1>5. Links'
  <2>1. ASSUME NEW v \in Users, call'[v] \in ConnectCalls \cup GetCalls PROVE call'[v] = call[v]
    BY <1>2, <2>1
  <2>2. \A d, o : Made(d, o)' <=> Made(d, o)
    BY DEF Made
  <2>3. \A v \in Users : call'[v] \in GetCalls => Made(call[v].conn, OwnerOf[v])'
    BY <1>1, <2>1 DEF Made, Links
  <2>4. \A o \in Owners, l \in Nodes : directory'[o][l] # 0 => Made(directory[o][l], o)'
    BY <1>1 DEF Links, Made
  <2>5. \A v \in Users : call'[v] \in ConnectCalls =>
          /\ OwnerOf[v] \in Facades /\ call'[v].todo # <<>> /\ call'[v].msg.op # "clear"
          /\ \A d \in call'[v].conns : Made(d, OwnerOf[v])'
    BY <1>1, <2>1, <2>2 DEF Links
  <2> QED BY <1>1, <1>3, <2>1, <2>3, <2>4, <2>5 DEF Links
<1>6. Wires'
  <2>1. ASSUME NEW c \in Conns, reader'[c] # None
        PROVE  /\ Up(c) /\ call'[reader'[c]] \in GetCalls /\ call'[reader'[c]].pc = "reading"
               /\ call'[reader'[c]].conn = c
    <3>1. reader'[c] = reader[c] /\ reader[c] \in Users \ {u} /\ reader[c] # None
      BY <1>1, <2>1 DEF CacheTypes
    <3> QED BY <1>1, <1>2, <3>1 DEF Wires
  <2>2. \A d : Up(d)' <=> Up(d)
    BY DEF Up
  <2> QED BY <1>1, <1>3, <2>1, <2>2 DEF Wires
<1> QED BY <1>4, <1>5, <1>6 DEF CacheInv

\* read() returns.
LEMMA GetReturnsKeeps ==
  ASSUME CacheInv, NEW u \in Users, GetReturns(u)
  PROVE  CacheInv'
<1>1. CacheTypes /\ Links /\ Wires
  BY DEF CacheInv
<1>2. PICK c : c = call[u].conn
  OBVIOUS
<1>3. /\ ~Idle(u) /\ call[u].pc = "woken" /\ call' = [call EXCEPT ![u] = None]
      /\ UNCHANGED <<entries, accepting, conns, inbox, reader, directory>>
      /\ IF outbox[c] = <<>> THEN UNCHANGED <<outbox, got>>
         ELSE /\ outbox' = [outbox EXCEPT ![c] = Tail(outbox[c])]
              /\ got' = [got EXCEPT ![c] = [asked |-> call[u].key, answer |-> Head(outbox[c])]]
  BY <1>2 DEF GetReturns, nodeVars
<1>4. call[u] \in GetCalls
  BY <1>1, <1>3, CallKinds
<1>5. c \in Conns /\ call[u].key \in Keys
  BY <1>2, <1>4 DEF GetCalls
<1>6. outbox' \in [Conns -> Seq(Answer)] /\ got' \in [Conns -> Delivery \cup {None}]
  <2>1. CASE outbox[c] = <<>>
    BY <1>1, <1>3, <2>1 DEF CacheTypes
  <2>2. CASE outbox[c] # <<>>
    <3>1. /\ Tail(outbox[c]) \in Seq(Answer)
          /\ [asked |-> call[u].key, answer |-> Head(outbox[c])] \in Delivery
      BY <1>1, <1>5, <2>2, DeliveryType
    <3> QED BY <1>1, <1>3, <2>2, <3>1 DEF CacheTypes
  <2> QED BY <2>1, <2>2
<1>7. /\ reader' \in [Conns -> Users \cup {None}]
      /\ \A d \in Conns : reader'[d] # None => reader'[d] = reader[d] /\ reader[d] # u
  BY <1>1, <1>3 DEF CacheTypes, Wires
<1> QED BY <1>3, <1>6, <1>7, EndCallKeeps

\* A call is cancelled.
LEMMA CancelCallKeeps ==
  ASSUME CacheInv, NEW u \in Users, CancelCall(u)
  PROVE  CacheInv'
<1>1. /\ call' = [call EXCEPT ![u] = None]
      /\ reader' = [c \in Conns |-> IF reader[c] = u THEN None ELSE reader[c]]
      /\ UNCHANGED <<entries, accepting, conns, inbox, outbox, directory, got>>
  BY DEF CancelCall, nodeVars
<1>2. CacheTypes
  BY DEF CacheInv
<1>3. /\ reader' \in [Conns -> Users \cup {None}]
      /\ \A c \in Conns : reader'[c] # None => reader'[c] = reader[c] /\ reader[c] # u
      /\ outbox' \in [Conns -> Seq(Answer)] /\ got' \in [Conns -> Delivery \cup {None}]
  BY <1>1, <1>2 DEF CacheTypes
<1> QED BY <1>1, <1>3, EndCallKeeps

\* disconnect(), close().
LEMMA DisconnectKeeps ==
  ASSUME CacheInv, NEW u \in Users, Disconnect(u)
  PROVE  CacheInv'
<1>1. PICK C : C = {directory[OwnerOf[u]][n] : n \in Nodes} \ {0}
  OBVIOUS
<1>2. /\ Break(C) /\ call' = Woken(C) /\ UNCHANGED <<entries, accepting, outbox, got>>
      /\ directory' = [directory EXCEPT ![OwnerOf[u]] = [n \in Nodes |-> 0]]
  BY <1>1 DEF Disconnect, nodeVars
<1>3. CacheTypes
  BY DEF CacheInv
<1>4. /\ directory' \in [Owners -> [Nodes -> Nat]]
      /\ \A o \in Owners, n \in Nodes : directory'[o][n] \in {0, directory[o][n]}
      /\ entries' \in [Nodes -> [Keys -> Entry \cup {None}]] /\ accepting' \subseteq Nodes
  BY <1>2, <1>3 DEF CacheTypes
<1> QED BY <1>2, <1>4, BreakKeeps

\* A connection breaks.
LEMMA LoseConnectionKeeps ==
  ASSUME CacheInv, NEW c \in Conns, LoseConnection(c)
  PROVE  CacheInv'
<1>1. /\ Break({c}) /\ call' = Woken({c})
      /\ UNCHANGED <<entries, accepting, outbox, directory, got>>
  BY DEF LoseConnection, nodeVars
<1>2. CacheTypes
  BY DEF CacheInv
<1>3. /\ directory' \in [Owners -> [Nodes -> Nat]]
      /\ \A o \in Owners, n \in Nodes : directory'[o][n] \in {0, directory[o][n]}
      /\ entries' \in [Nodes -> [Keys -> Entry \cup {None}]] /\ accepting' \subseteq Nodes
  BY <1>1, <1>2 DEF CacheTypes
<1> QED BY <1>1, <1>3, BreakKeeps

\* A node's process ends.
LEMMA CrashKeeps ==
  ASSUME CacheInv, NEW n \in Nodes, Crash(n)
  PROVE  CacheInv'
<1>1. PICK C : C = {c \in Conns : Up(c) /\ conns[c].node = n}
  OBVIOUS
<1>2. /\ Break(C) /\ call' = Woken(C) /\ UNCHANGED <<outbox, directory, got>>
      /\ entries' = [entries EXCEPT ![n] = [k \in Keys |-> None]]
      /\ accepting' = accepting \ {n}
  BY <1>1 DEF Crash
<1>3. CacheTypes
  BY DEF CacheInv
<1>4. /\ directory' \in [Owners -> [Nodes -> Nat]]
      /\ \A o \in Owners, l \in Nodes : directory'[o][l] \in {0, directory[o][l]}
      /\ entries' \in [Nodes -> [Keys -> Entry \cup {None}]] /\ accepting' \subseteq Nodes
  BY <1>2, <1>3 DEF CacheTypes
<1> QED BY <1>2, <1>4, BreakKeeps

\* A request is handled; only a GET is answered, and wakes who waits for it.
HandledBy(c, m, n) ==
  /\ entries' = [entries EXCEPT ![n] = Stored(entries[n], m)]
  /\ inbox' = [inbox EXCEPT ![c] = Tail(inbox[c])]
  /\ IF m.op # "get" THEN UNCHANGED <<outbox, reader, call>>
     ELSE /\ \E a : /\ a = [key |-> m.key, value |-> IF entries[n][m.key] = None THEN None
                                                     ELSE entries[n][m.key].value]
                    /\ outbox' = [outbox EXCEPT ![c] = Append(outbox[c], a)]
          /\ reader' = [reader EXCEPT ![c] = None]
          /\ call' = Woken({c})
  /\ UNCHANGED <<accepting, conns, directory, got>>

\* The step of a node, and that its requests are well formed.
LEMMA HandleCases ==
  ASSUME CacheInv, NEW c \in Conns, Handle(c)
  PROVE  /\ Up(c) /\ inbox[c] # <<>> /\ inbox[c] \in Seq(Requests) /\ Head(inbox[c]) \in Requests
         /\ Tail(inbox[c]) \in Seq(Requests) /\ conns[c].node \in Nodes
         /\ HandledBy(c, Head(inbox[c]), conns[c].node)
<1>1. Up(c) /\ inbox[c] # <<>> /\ inbox[c] \in Seq(Requests) /\ CacheTypes
  BY DEF Handle, CacheInv, CacheTypes
<1>2. Head(inbox[c]) \in Requests /\ Tail(inbox[c]) \in Seq(Requests)
  BY <1>1, TailRange
<1>3. conns[c].node \in Nodes
  BY <1>1, ConnsDomain, SMTT(30) DEF Up, Conn
<1>4. HandledBy(c, Head(inbox[c]), conns[c].node)
  BY DEF Handle, Handled, HandledBy
<1> QED BY <1>1, <1>2, <1>3, <1>4

\* _handle_connection().
LEMMA HandleKeeps ==
  ASSUME CacheInv, NEW c \in Conns, Handle(c)
  PROVE  CacheInv'
<1>1. PICK m, n : m = Head(inbox[c]) /\ n = conns[c].node
  OBVIOUS
<1>2. /\ Up(c) /\ inbox[c] # <<>> /\ m \in Requests /\ Tail(inbox[c]) \in Seq(Requests)
      /\ n \in Nodes /\ HandledBy(c, m, n)
  BY <1>1, HandleCases
<1>3. CacheTypes /\ Links /\ Wires
  BY DEF CacheInv
<1>4. UNCHANGED <<accepting, conns, directory, got>>
  BY <1>2 DEF HandledBy
<1>5. /\ entries' \in [Nodes -> [Keys -> Entry \cup {None}]] /\ accepting' \subseteq Nodes
      /\ inbox' \in [Conns -> Seq(Requests)]
      /\ \A d \in Conns : inbox'[d] # <<>> => Up(d)
  <2>1. Stored(entries[n], m) \in [Keys -> Entry \cup {None}]
    BY <1>2, <1>3, StoredTypes DEF CacheTypes
  <2>2. entries' = [entries EXCEPT ![n] = Stored(entries[n], m)]
        /\ inbox' = [inbox EXCEPT ![c] = Tail(inbox[c])]
    BY <1>2 DEF HandledBy
  <2> QED BY <1>2, <1>3, <1>4, <2>1, <2>2 DEF CacheTypes, Wires
<1>6. ConnectCalls' = ConnectCalls /\ GetCalls' = GetCalls
  OBVIOUS
<1>7. \A d, o : (Made(d, o)' <=> Made(d, o)) /\ (Up(d)' <=> Up(d))
  BY <1>4 DEF Made, Up
<1>8. CASE m.op # "get"
  <2>1. UNCHANGED <<outbox, reader, call>>
    BY <1>2, <1>8 DEF HandledBy
  <2>2. CacheTypes'
    BY <1>3, <1>4, <1>5, <1>6, <2>1 DEF CacheTypes
  <2>3. Links'
    BY <1>3, <1>4, <1>6, <2>1 DEF Links, Made
  <2>4. Wires'
    BY <1>3, <1>5, <1>6, <1>7, <2>1 DEF Wires
  <2> QED BY <2>2, <2>3, <2>4 DEF CacheInv
<1>9. CASE m.op = "get"
  <2>1. PICK a : /\ a = [key |-> m.key, value |-> IF entries[n][m.key] = None THEN None
                                                  ELSE entries[n][m.key].value]
                 /\ outbox' = [outbox EXCEPT ![c] = Append(outbox[c], a)]
    BY <1>2, <1>9 DEF HandledBy
  <2>2. reader' = [reader EXCEPT ![c] = None] /\ call' = Woken({c})
    BY <1>2, <1>9 DEF HandledBy
  <2>3. a \in Answer
    <3>1. m.key \in Keys
      BY <1>2, <1>9, RequestKinds
    <3>2. entries[n][m.key] \in Entry \cup {None}
      BY <1>2, <1>3, <3>1 DEF CacheTypes
    <3> QED BY <2>1, <3>1, <3>2 DEF Answer, Entry
  <2>4. /\ outbox' \in [Conns -> Seq(Answer)] /\ reader' \in [Conns -> Users \cup {None}]
        /\ reader'[c] = None /\ \A d \in Conns \ {c} : reader'[d] = reader[d]
    <3>1. Append(outbox[c], a) \in Seq(Answer)
      BY <1>3, <2>3, AppendProperties DEF CacheTypes
    <3> QED BY <1>3, <2>1, <2>2, <3>1 DEF CacheTypes
  <2>5. /\ call' \in [Users -> ConnectCalls \cup GetCalls \cup {None}]
        /\ \A u \in Users :
             /\ call[u] \notin GetCalls => call'[u] = call[u]
             /\ call[u] \in GetCalls =>
                  /\ call'[u] \in GetCalls /\ call'[u].conn = call[u].conn
                  /\ call'[u].pc = IF call[u].pc = "reading" /\ call[u].conn \in {c}
                                   THEN "woken" ELSE call[u].pc
    BY <1>3, <2>2, WokenCalls
  <2>6. CacheTypes'
    BY <1>3, <1>4, <1>5, <1>6, <2>4, <2>5 DEF CacheTypes
  <2>7. Links'
    <3>1. ASSUME NEW v \in Users
          PROVE  /\ call'[v] \in ConnectCalls => call'[v] = call[v]
                 /\ call'[v] \in GetCalls => call[v] \in GetCalls /\ call'[v].conn = call[v].conn
      <4>1. \A x \in ConnectCalls : x \notin GetCalls
        BY DEF ConnectCalls, GetCalls
      <4> QED BY <2>5, <4>1
    <3>2. \A v \in Users : call'[v] \in GetCalls =>
            OwnerOf[v] \in Clients /\ Made(call[v].conn, OwnerOf[v])'
      BY <1>3, <1>4, <3>1 DEF Links, Made
    <3>3. \A v \in Users : call'[v] \in ConnectCalls =>
            /\ OwnerOf[v] \in Facades /\ call'[v].todo # <<>> /\ call'[v].msg.op # "clear"
            /\ \A d \in call'[v].conns : Made(d, OwnerOf[v])'
      BY <1>3, <1>7, <3>1 DEF Links
    <3>4. \A o \in Owners, l \in Nodes : directory'[o][l] # 0 => Made(directory[o][l], o)'
      BY <1>3, <1>4 DEF Links, Made
    <3> QED BY <1>3, <1>4, <1>6, <3>2, <3>3, <3>4 DEF Links
  <2>8. Wires'
    <3>1. ASSUME NEW d \in Conns, reader'[d] # None
          PROVE  /\ Up(d) /\ call'[reader'[d]] \in GetCalls /\ call'[reader'[d]].pc = "reading"
                 /\ call'[reader'[d]].conn = d
      <4>1. d # c /\ reader'[d] = reader[d] /\ reader[d] \in Users /\ reader[d] # None
        BY <1>3, <2>4, <3>1 DEF CacheTypes
      <4>2. /\ Up(d) /\ call[reader[d]] \in GetCalls /\ call[reader[d]].pc = "reading"
            /\ call[reader[d]].conn = d
        BY <1>3, <4>1 DEF Wires
      <4> QED BY <2>5, <4>1, <4>2
    <3> QED BY <1>5, <1>6, <1>7, <3>1 DEF Wires
  <2> QED BY <2>6, <2>7, <2>8 DEF CacheInv
<1> QED BY <1>8, <1>9

\* Nothing is connected, stored or called at first.
LEMMA CacheInitially == CacheInit => CacheInv
<1> SUFFICES ASSUME CacheInit PROVE CacheInv
  OBVIOUS
<1>1. CacheTypes
  <2>1. conns \in Seq(Conn) /\ Len(conns) <= MaxConns
    BY EmptySeq, CacheAssumption DEF CacheInit
  <2>2. inbox \in [Conns -> Seq(Requests)] /\ outbox \in [Conns -> Seq(Answer)]
    BY EmptySeq DEF CacheInit
  <2> QED BY <2>1, <2>2 DEF CacheInit, CacheTypes
<1>2. Links
  BY <1>1, CallKinds DEF CacheInit, Links
<1>3. Wires
  BY DEF CacheInit, Wires
<1> QED BY <1>1, <1>2, <1>3 DEF CacheInv

\* Every step keeps the invariant.
LEMMA CacheStep == CacheInv /\ [CacheNext]_cacheVars => CacheInv'
<1> SUFFICES ASSUME CacheInv, [CacheNext]_cacheVars PROVE CacheInv'
  OBVIOUS
<1>1. ASSUME NEW u \in Users,
             FacadeConnected(u) \/ FacadeRefused(u) \/ GetReturns(u) \/ CancelCall(u) \/ Disconnect(u)
      PROVE  CacheInv'
  BY <1>1, FacadeConnectedKeeps, FacadeRefusedKeeps, GetReturnsKeeps, CancelCallKeeps, DisconnectKeeps
<1>2. ASSUME NEW u \in Users, NEW m \in Requests, FacadeCall(u, m) \/ Send(u, m)
      PROVE  CacheInv'
  BY <1>2, FacadeCallKeeps, SendKeeps
<1>3. ASSUME NEW u \in Users, NEW n \in Nodes, Connect(u, n)
      PROVE  CacheInv'
  BY <1>3, ConnectKeeps
<1>4. ASSUME NEW u \in Users, NEW k \in Keys, Get(u, k)
      PROVE  CacheInv'
  BY <1>4, GetKeeps
<1>5. ASSUME NEW c \in Conns, Handle(c) \/ LoseConnection(c)
      PROVE  CacheInv'
  BY <1>5, HandleKeeps, LoseConnectionKeeps
<1>6. ASSUME NEW n \in Nodes, CleanExpired(n) \/ Stop(n) \/ Start(n) \/ Crash(n)
      PROVE  CacheInv'
  <2>1. CleanExpired(n) => \E K \in SUBSET Keys : Drop(n, K)
    BY DEF CleanExpired
  <2> QED BY <1>6, <2>1, NodeKeeps, CrashKeeps
<1>7. ASSUME NEW n \in Nodes, NEW k \in Keys, Expire(n, k) \/ NodeGet(n, k)
      PROVE  CacheInv'
  <2>1. NodeGet(n, k) => \E K \in SUBSET Keys : Drop(n, K)
    BY DEF NodeGet
  <2> QED BY <1>7, <2>1, NodeKeeps
<1>8. ASSUME NEW n \in Nodes, NEW m \in Requests, NodeCall(n, m)
      PROVE  CacheInv'
  BY <1>8, NodeKeeps
<1>9. CASE UNCHANGED cacheVars
  BY <1>9, EntriesKeep DEF cacheVars, CacheInv, CacheTypes
<1> QED BY <1>1, <1>2, <1>3, <1>4, <1>5, <1>6, <1>7, <1>8, <1>9 DEF CacheNext

\* The invariant of the cache: requests are in transit only on connections that
\* are up, and whoever reads does so from the connection of its client.
THEOREM CacheInductive == CacheSpec => []CacheInv
BY CacheInitially, CacheStep, PTL DEF CacheSpec

\* The types follow from the invariant.
LEMMA CacheConsequence == CacheInv => CacheTypeOK
<1> SUFFICES ASSUME CacheInv PROVE CacheTypeOK
  OBVIOUS
<1>1. CacheTypes /\ Links /\ Wires /\ ConnectCalls \cup GetCalls = Call
  BY DEF CacheInv, Call, ConnectCalls, GetCalls
<1>2. ASSUME NEW c \in Conns, reader[c] # None
      PROVE  Up(c) /\ ~Idle(reader[c]) /\ call[reader[c]].pc = "reading"
  <3>1. /\ Up(c) /\ call[reader[c]] \in GetCalls /\ call[reader[c]].pc = "reading"
        /\ reader[c] \in Users
    BY <1>1, <1>2 DEF Wires, CacheTypes
  <3> QED BY <1>1, <3>1, CallKinds
<1>3. ASSUME NEW o \in Owners, NEW n \in Nodes, directory[o][n] # 0
      PROVE  /\ directory[o][n] \in DOMAIN conns /\ conns[directory[o][n]].owner = o
             /\ conns[directory[o][n]].node = n
  BY <1>1, <1>3 DEF Links, Made
<1> QED BY <1>1, <1>2, <1>3 DEF CacheTypeOK, CacheTypes, Wires, Conn

\* Types of the distributed cache, and that the clients it knows are connections of
\* its own (DistributedCache._clients).
THEOREM CacheTypesCorrect == CacheSpec => []CacheTypeOK
<1> QED BY CacheConsequence, CacheInductive, PTL

-----------------------------------------------------------------------------
(* Connections as sessions, when each client is used by one task and no GET is *)
(* cancelled.                                                                  *)

OneTaskPerClient ==
  \A u, v \in Users : OwnerOf[u] = OwnerOf[v] /\ OwnerOf[u] \in Clients => u = v

Awake(u, c) == call[u] \in GetCalls /\ call[u].pc = "woken" /\ call[u].conn = c

\* What the mapping to sessions needs: a GET is the last request, its task reads;
\* one answer is on the wire, or none while the task reads, and its task is awake.
SessionInv ==
  /\ cancels = 0
  /\ \A c \in Conns : GetIsLast(inbox[c]) /\ (Asks(inbox[c]) => reader[c] # None)
  /\ \A c \in Conns : reader[c] # None => outbox[c] = <<>>
  /\ \A c \in Conns : outbox[c] # <<>> => Len(outbox[c]) = 1 /\ \E u \in Users : Awake(u, c)

\* A session takes a step, or nothing happens to it.
SessionStep == Sessions!Next \/ UNCHANGED Sessions!vars

\* The connections of a DistributedCache, and those of a client whose task makes
\* no call, are not asked, read or answered.
LEMMA NobodyAsks ==
  ASSUME OneTaskPerClient, CacheInv, SessionInv, NEW c \in Conns, NEW o \in Owners, Made(c, o),
         o \in Facades \/ \E u \in Users : OwnerOf[u] = o /\ call[u] = None
  PROVE  reader[c] = None /\ outbox[c] = <<>> /\ ~Asks(inbox[c])
<1>1. CacheTypes /\ Links /\ Wires
  BY DEF CacheInv
<1>2. ASSUME NEW v \in Users, call[v] \in GetCalls, call[v].conn = c PROVE FALSE
  <2>1. OwnerOf[v] \in Clients /\ Made(c, OwnerOf[v])
    BY <1>1, <1>2 DEF Links
  <2>2. OwnerOf[v] = o
    BY <2>1 DEF Made
  <2>3. o \notin Facades
    BY <2>1, <2>2, CacheAssumption
  <2>4. PICK u \in Users : OwnerOf[u] = o /\ call[u] = None
    BY <2>3
  <2>5. u = v
    BY <2>1, <2>2, <2>4 DEF OneTaskPerClient
  <2> QED BY <1>1, <1>2, <2>4, <2>5, CallKinds
<1>3. reader[c] = None
  <2>1. reader[c] # None => reader[c] \in Users /\ call[reader[c]] \in GetCalls
                            /\ call[reader[c]].conn = c
    BY <1>1 DEF CacheTypes, Wires
  <2> QED BY <1>2, <2>1
<1>4. outbox[c] = <<>>
  BY <1>2 DEF SessionInv, Awake
<1> QED BY <1>3, <1>4 DEF SessionInv

\* Only the entries or who accepts connections change.
LEMMA SessionsAside ==
  ASSUME SessionInv, UNCHANGED <<conns, inbox, outbox, reader, got, call, cancels>>
  PROVE  /\ SessionInv'
         /\ UNCHANGED <<Home, Posted, Asked, Answered>>
BY DEF SessionInv, Awake, GetCalls, Home, Posted, Asked, Asking, Answered

\* The data of a session are the values of the entries.
Worth(e) == IF e = None THEN None ELSE e.value

\* In these terms, before and after a step.
LEMMA DataIsWorth ==
  /\ Data = [n \in Nodes |-> [k \in Keys |-> Worth(entries[n][k])]]
  /\ Data' = [n \in Nodes |-> [k \in Keys |-> Worth(entries'[n][k])]]
BY DEF Data, Worth

\* The values of the entries after a request.
LEMMA StoredData ==
  ASSUME CacheTypes, NEW n \in Nodes, NEW m \in Requests,
         entries' = [entries EXCEPT ![n] = Stored(entries[n], m)]
  PROVE  Data' = IF m.op = "get" THEN Data ELSE [Data EXCEPT ![n] = Sessions!After(Data[n], m)]
<1>1. /\ Data = [l \in Nodes |-> [k \in Keys |-> Worth(entries[l][k])]]
      /\ Data' = [l \in Nodes |-> [k \in Keys |-> Worth(entries'[l][k])]]
  BY DataIsWorth
<1>2. \A l \in Nodes : entries'[l] = IF l = n THEN Stored(entries[n], m) ELSE entries[l]
  BY DEF CacheTypes
<1>3. m.op = "set" => /\ [value |-> m.value, expired |-> FALSE] # None
                      /\ [value |-> m.value, expired |-> FALSE].value = m.value
  <2>1. m.op = "set" => [value |-> m.value, expired |-> FALSE] \in Entry
    BY DEF Requests, Entry
  <2> QED BY <2>1, NoneAssumption
<1>4. ASSUME NEW k \in Keys
      PROVE  Worth(Stored(entries[n], m)[k]) =
               IF m.op = "get" THEN Worth(entries[n][k]) ELSE Sessions!After(Data[n], m)[k]
  <2>1. Stored(entries[n], m)[k] =
          IF m.op = "clear" THEN None
          ELSE IF m.op = "get" \/ k # m.key THEN entries[n][k]
          ELSE IF m.op = "set" THEN [value |-> m.value, expired |-> FALSE] ELSE None
    BY DEF Stored
  <2>2. Sessions!After(Data[n], m)[k] =
          IF m.op = "clear" THEN None
          ELSE IF k # m.key THEN Worth(entries[n][k])
          ELSE IF m.op = "set" THEN m.value ELSE None
    BY <1>1 DEF Sessions!After
  <2> QED BY <1>3, <2>1, <2>2 DEF Worth
<1>5. Sessions!After(Data[n], m) = [k \in Keys |-> Sessions!After(Data[n], m)[k]]
  BY DEF Sessions!After
<1>6. CASE m.op = "get"
  BY <1>1, <1>2, <1>4, <1>6
<1>7. CASE m.op # "get"
  <2>1. [k \in Keys |-> Worth(entries'[n][k])] = Sessions!After(Data[n], m)
    BY <1>2, <1>4, <1>5, <1>7
  <2>2. \A l \in Nodes \ {n} : Data'[l] = Data[l]
    BY <1>1, <1>2
  <2>3. Data'[n] = Sessions!After(Data[n], m)
    BY <1>1, <2>1
  <2> QED BY <1>1, <1>7, <2>2, <2>3
<1> QED BY <1>6, <1>7

\* The steps of a node without a connection: writes of its own, and the loss of
\* entries that have expired.
LEMMA NodeSessions ==
  ASSUME CacheInv, SessionInv, NEW n \in Nodes,
         \/ \E m \in Requests : NodeCall(n, m)
         \/ \E k \in Keys : Expire(n, k)
         \/ \E K \in SUBSET Keys : Drop(n, K)
         \/ Stop(n)
         \/ Start(n)
  PROVE  SessionInv' /\ SessionStep
<1>1. /\ entries \in [Nodes -> [Keys -> Entry \cup {None}]] /\ CacheTypes
  BY DEF CacheInv, CacheTypes
<1>2. SessionInv' /\ UNCHANGED <<Home, Posted, Asked, Answered>>
  <2>1. UNCHANGED <<conns, inbox, outbox, reader, got, call, cancels>>
    BY DEF NodeCall, Expire, Drop, Stop, Start, wireVars
  <2> QED BY <2>1, SessionsAside
<1>3. ASSUME NEW m \in Requests, NodeCall(n, m) PROVE SessionStep
  <2>1. Data' = [Data EXCEPT ![n] = Sessions!After(Data[n], m)]
    BY <1>1, <1>3, StoredData DEF NodeCall
  <2>2. m \in Sessions!Writes
    BY <1>3, RequestKinds DEF NodeCall
  <2>3. Sessions!Local(n, m)
    BY <1>2, <2>1 DEF Sessions!Local
  <2> QED BY <2>2, <2>3 DEF SessionStep, Sessions!Next
<1>4. ASSUME NEW k \in Keys, Expire(n, k) PROVE SessionStep
  <2>1. entries' = [entries EXCEPT ![n] = [entries[n] EXCEPT ![k] = [entries[n][k] EXCEPT !.expired = TRUE]]]
        /\ entries[n][k] # None
    BY <1>4 DEF Expire
  <2>2. PICK e : e = [entries[n][k] EXCEPT !.expired = TRUE]
    OBVIOUS
  <2>3. e # None /\ e.value = entries[n][k].value
    <3>1. entries[n][k] \in Entry
      BY <1>1, <2>1
    <3>2. e \in Entry /\ e.value = entries[n][k].value
      BY <2>2, <3>1 DEF Entry
    <3> QED BY <3>2, NoneAssumption
  <2>4. entries' = [entries EXCEPT ![n] = [entries[n] EXCEPT ![k] = e]]
    BY <2>1, <2>2
  <2>5. \A l \in Nodes, j \in Keys : entries'[l][j] = IF l = n /\ j = k THEN e ELSE entries[l][j]
    BY <1>1, <2>4
  <2>6. Data' = Data
    <3>1. Worth(e) = Worth(entries[n][k])
      BY <2>1, <2>3 DEF Worth
    <3>2. \A l \in Nodes, j \in Keys : Worth(entries'[l][j]) = Worth(entries[l][j])
      BY <2>5, <3>1
    <3> QED BY <3>2, DataIsWorth
  <2> QED BY <1>2, <2>6 DEF SessionStep, Sessions!vars
<1>5. ASSUME NEW K \in SUBSET Keys, Drop(n, K) PROVE SessionStep
  <2>1. entries' = [entries EXCEPT ![n] = [k \in Keys |-> IF k \in K THEN None ELSE entries[n][k]]]
    BY <1>5 DEF Drop
  <2>2. \A l \in Nodes, j \in Keys :
          entries'[l][j] = IF l = n /\ j \in K THEN None ELSE entries[l][j]
    BY <1>1, <2>1
  <2>3. Data' = [Data EXCEPT ![n] = [k \in Keys |-> IF k \in K THEN None ELSE Data[n][k]]]
    <3>1. \A l \in Nodes, j \in Keys :
            Worth(entries'[l][j]) = IF l = n /\ j \in K THEN None ELSE Worth(entries[l][j])
      BY <2>2 DEF Worth
    <3>2. \A l \in Nodes : Data[l] = [j \in Keys |-> Worth(entries[l][j])]
      BY DataIsWorth
    <3>3. Data'[n] = [k \in Keys |-> IF k \in K THEN None ELSE Data[n][k]]
      BY <3>1, <3>2, DataIsWorth
    <3>4. \A l \in Nodes \ {n} : Data'[l] = Data[l]
      BY <3>1, DataIsWorth
    <3> QED BY <3>3, <3>4, DataIsWorth
  <2>4. Sessions!Expire(n, K)
    BY <1>2, <2>3 DEF Sessions!Expire
  <2> QED BY <2>4 DEF SessionStep, Sessions!Next
<1>6. ASSUME Stop(n) \/ Start(n) PROVE SessionStep
  <2>1. Data' = Data
    BY <1>6 DEF Stop, Start, Data
  <2> QED BY <1>2, <2>1 DEF SessionStep, Sessions!vars
<1> QED BY <1>2, <1>3, <1>4, <1>5, <1>6

\* Connections break: their sessions lose what was posted and asked.
LEMMA BreakSessions ==
  ASSUME CacheInv, SessionInv, NEW C, Break(C), call' = Woken(C),
         UNCHANGED <<outbox, got, cancels>>
  PROVE  /\ SessionInv'
         /\ UNCHANGED <<Home, Answered>>
         /\ Posted' = [c \in Conns |-> IF c \in C THEN <<>> ELSE Posted[c]]
         /\ Asked' = [c \in Conns |-> IF c \in C THEN None ELSE Asked[c]]
<1>1. CacheTypes /\ Wires
  BY DEF CacheInv
<1>2. /\ DOMAIN conns' = DOMAIN conns
      /\ \A c \in DOMAIN conns : conns'[c].node = conns[c].node
  <2>1. \A c \in DOMAIN conns : conns[c] \in Conn
    BY <1>1, ConnsDomain
  <2>2. \A c \in DOMAIN conns :
          conns'[c] = IF c \in C THEN [conns[c] EXCEPT !.up = FALSE] ELSE conns[c]
    BY DEF Break
  <2> QED BY <2>1, <2>2 DEF Break, Conn
<1>3. \A c \in Conns : /\ inbox'[c] = IF c \in C THEN <<>> ELSE inbox[c]
                       /\ reader'[c] = IF c \in C THEN None ELSE reader[c]
  BY DEF Break
<1>4. UNCHANGED <<Home, Answered>>
  BY <1>2 DEF Home, Answered
<1>5. \A c \in Conns : Posted[c] = PostedOf(inbox[c]) /\ Asked[c] = AskedOf(inbox[c])
  BY SessionOf
<1>6. /\ Posted' = [c \in Conns |-> PostedOf(inbox'[c])]
      /\ Asked' = [c \in Conns |-> AskedOf(inbox'[c])]
  BY SessionOf
<1>7. /\ Posted' = [c \in Conns |-> IF c \in C THEN <<>> ELSE Posted[c]]
      /\ Asked' = [c \in Conns |-> IF c \in C THEN None ELSE Asked[c]]
  BY <1>3, <1>5, <1>6, NothingSent
<1>8. SessionInv'
  <2>1. \A c \in Conns : GetIsLast(inbox'[c]) /\ (Asks(inbox'[c]) => reader'[c] # None)
    BY <1>3, NothingSent DEF SessionInv
  <2>2. \A c \in Conns : reader'[c] # None => outbox'[c] = <<>>
    BY <1>3 DEF SessionInv
  <2>3. ASSUME NEW c \in Conns, outbox'[c] # <<>>
        PROVE  Len(outbox'[c]) = 1 /\ \E u \in Users : Awake(u, c)'
    <3>1. PICK u \in Users : Awake(u, c)
      BY <2>3 DEF SessionInv
    <3>2. call'[u] \in GetCalls /\ call'[u].conn = c /\ call'[u].pc = "woken"
      BY <1>1, <3>1, WokenCalls DEF Awake
    <3>3. Awake(u, c)'
      BY <3>2 DEF Awake, GetCalls
    <3> QED BY <2>3, <3>3 DEF SessionInv
  <2> QED BY <2>1, <2>2, <2>3 DEF SessionInv
<1> QED BY <1>4, <1>7, <1>8

\* disconnect(), close() and lost connections.
LEMMA LoseSessions ==
  ASSUME CacheInv, SessionInv,
         (\E u \in Users : Disconnect(u)) \/ (\E c \in Conns : LoseConnection(c))
  PROVE  SessionInv' /\ SessionStep
<1>1. PICK C : Break(C) /\ call' = Woken(C) /\ UNCHANGED <<entries, outbox, got, cancels>>
  <2>1. ASSUME NEW u \in Users, Disconnect(u)
        PROVE  \E C : Break(C) /\ call' = Woken(C) /\ UNCHANGED <<entries, outbox, got, cancels>>
    <3>1. PICK C : C = {directory[OwnerOf[u]][n] : n \in Nodes} \ {0}
      OBVIOUS
    <3>2. Break(C) /\ call' = Woken(C) /\ UNCHANGED <<entries, outbox, got, cancels>>
      BY <2>1, <3>1 DEF Disconnect, nodeVars
    <3> QED BY <3>2
  <2>2. ASSUME NEW c \in Conns, LoseConnection(c)
        PROVE  Break({c}) /\ call' = Woken({c}) /\ UNCHANGED <<entries, outbox, got, cancels>>
    BY <2>2 DEF LoseConnection, nodeVars
  <2> QED BY <2>1, <2>2
<1>2. /\ SessionInv' /\ UNCHANGED <<Home, Answered>>
      /\ Posted' = [c \in Conns |-> IF c \in C THEN <<>> ELSE Posted[c]]
      /\ Asked' = [c \in Conns |-> IF c \in C THEN None ELSE Asked[c]]
  BY <1>1, BreakSessions
<1>3. UNCHANGED Data
  BY <1>1 DEF Data
<1>4. PICK S \in SUBSET Conns : S = C \cap Conns
  OBVIOUS
<1>5. Sessions!Lose(S)
  BY <1>2, <1>3, <1>4 DEF Sessions!Lose
<1> QED BY <1>2, <1>5 DEF SessionStep, Sessions!Next

\* A node's process ends: all its sessions lose what was posted, and its data go.
LEMMA CrashSessions ==
  ASSUME CacheInv, SessionInv, NEW n \in Nodes, Crash(n)
  PROVE  SessionInv' /\ SessionStep
<1>1. PICK C : C = {c \in Conns : Up(c) /\ conns[c].node = n}
  OBVIOUS
<1>2. /\ Break(C) /\ call' = Woken(C) /\ UNCHANGED <<outbox, got, cancels>>
      /\ entries' = [entries EXCEPT ![n] = [k \in Keys |-> None]]
  BY <1>1 DEF Crash
<1>3. /\ SessionInv' /\ UNCHANGED <<Home, Answered>>
      /\ Posted' = [c \in Conns |-> IF c \in C THEN <<>> ELSE Posted[c]]
      /\ Asked' = [c \in Conns |-> IF c \in C THEN None ELSE Asked[c]]
  BY <1>2, BreakSessions
<1>4. CacheTypes /\ Wires
  BY DEF CacheInv
<1>5. PICK S \in SUBSET Conns : S = {c \in Conns : Home[c] = n}
  OBVIOUS
<1>6. ASSUME NEW c \in Conns
      PROVE  /\ c \in C => c \in S
             /\ c \in S \ C => Posted[c] = <<>> /\ Asked[c] = None
  <2>1. Home[c] = IF c \in DOMAIN conns THEN conns[c].node ELSE None
    BY DEF Home
  <2>2. c \in C => c \in S
    BY <1>1, <1>5, <2>1 DEF Up
  <2>3. ASSUME c \in S \ C PROVE inbox[c] = <<>>
    <3>1. c \in DOMAIN conns
      BY <1>5, <2>1, <2>3, CacheAssumption
    <3>2. ~Up(c)
      BY <1>1, <1>5, <2>1, <2>3, <3>1
    <3> QED BY <1>4, <3>2 DEF Wires
  <2>4. Posted[c] = PostedOf(inbox[c]) /\ Asked[c] = AskedOf(inbox[c])
    BY SessionOf
  <2> QED BY <2>2, <2>3, <2>4, NothingSent
<1>7. /\ Posted' = [c \in Conns |-> IF c \in S THEN <<>> ELSE Posted[c]]
      /\ Asked' = [c \in Conns |-> IF c \in S THEN None ELSE Asked[c]]
  BY <1>3, <1>6
<1>8. Data' = [Data EXCEPT ![n] = [k \in Keys |-> None]]
  <2>1. \A l \in Nodes, k \in Keys :
          Worth(entries'[l][k]) = IF l = n THEN None ELSE Worth(entries[l][k])
    BY <1>2, <1>4 DEF CacheTypes, Worth
  <2>2. Data'[n] = [k \in Keys |-> None]
    BY <2>1, DataIsWorth
  <2>3. \A l \in Nodes \ {n} : Data'[l] = Data[l]
    BY <2>1, DataIsWorth
  <2> QED BY <2>2, <2>3, DataIsWorth
<1>9. \A s \in Conns : Home[s] = n => s \in S
  BY <1>5
<1>10. Sessions!Lose(S)
  BY <1>3, <1>7, <1>8, <1>9 DEF Sessions!Lose
<1> QED BY <1>3, <1>10 DEF SessionStep, Sessions!Next

\* Reading an answer changes nothing in the session, and ends the only call that
\* could have waited for it.
LEMMA GetReturnsSessions ==
  ASSUME CacheInv, SessionInv, NEW u \in Users, GetReturns(u)
  PROVE  SessionInv' /\ SessionStep
<1>1. CacheTypes /\ Wires
  BY DEF CacheInv
<1>2. PICK c : c = call[u].conn
  OBVIOUS
<1>3. /\ ~Idle(u) /\ call[u].pc = "woken" /\ call' = [call EXCEPT ![u] = None]
      /\ UNCHANGED <<entries, conns, inbox, reader, cancels>>
      /\ IF outbox[c] = <<>> THEN UNCHANGED <<outbox, got>>
         ELSE /\ outbox' = [outbox EXCEPT ![c] = Tail(outbox[c])]
              /\ got' = [got EXCEPT ![c] = [asked |-> call[u].key, answer |-> Head(outbox[c])]]
  BY <1>2 DEF GetReturns, nodeVars
<1>4. call[u] \in GetCalls
  BY <1>1, <1>3, CallKinds
<1>5. c \in Conns /\ call[u].key \in Keys
  BY <1>2, <1>4 DEF GetCalls
<1>6. /\ outbox'[c] = <<>> /\ \A d \in Conns \ {c} : outbox'[d] = outbox[d] /\ got'[d] = got[d]
      /\ IF outbox[c] = <<>> THEN got'[c] = got[c]
         ELSE got'[c] # None /\ got'[c].answer = outbox[c][1]
  <2>1. CASE outbox[c] = <<>>
    BY <1>3, <2>1
  <2>2. CASE outbox[c] # <<>>
    <3>1. /\ outbox[c] \in Seq(Answer) /\ Len(outbox[c]) = 1 /\ Head(outbox[c]) = outbox[c][1]
          /\ Tail(outbox[c]) \in Seq(Answer) /\ Len(Tail(outbox[c])) = Len(outbox[c]) - 1
      BY <1>1, <1>5, <2>2, TailRange DEF SessionInv, CacheTypes
    <3>2. Tail(outbox[c]) = <<>>
      <4>1. PICK t : t = Tail(outbox[c])
        OBVIOUS
      <4>2. t \in Seq(Answer) /\ Len(t) = 0
        BY <3>1, <4>1
      <4> QED BY <4>1, <4>2, EmptySeq
    <3>3. PICK x : x = [asked |-> call[u].key, answer |-> Head(outbox[c])]
      OBVIOUS
    <3>4. x \in Delivery /\ x.answer = Head(outbox[c])
      BY <1>1, <1>5, <2>2, <3>3, DeliveryType
    <3>5. outbox' = [outbox EXCEPT ![c] = <<>>] /\ got' = [got EXCEPT ![c] = x] /\ x # None
      BY <1>3, <2>2, <3>2, <3>3, <3>4, NoneAssumption
    <3> QED BY <1>1, <1>5, <2>2, <3>1, <3>4, <3>5 DEF CacheTypes
  <2> QED BY <2>1, <2>2
<1>7. Answered' = Answered
  <2>1. ASSUME NEW d \in Conns
        PROVE  (IF outbox'[d] # <<>> THEN outbox'[d][1]
                ELSE IF got'[d] = None THEN None ELSE got'[d].answer) =
               (IF outbox[d] # <<>> THEN outbox[d][1]
                ELSE IF got[d] = None THEN None ELSE got[d].answer)
    BY <1>6
  <2> QED BY <2>1 DEF Answered
<1>8. UNCHANGED <<Data, Home, Posted, Asked>>
  BY <1>3 DEF Data, Home, Posted, Asked, Asking
<1>9. SessionInv'
  <2>1. ASSUME NEW d \in Conns, outbox'[d] # <<>>
        PROVE  Len(outbox'[d]) = 1 /\ \E v \in Users : Awake(v, d)'
    <3>1. d # c /\ outbox'[d] = outbox[d]
      BY <1>6, <2>1
    <3>2. PICK v \in Users : Awake(v, d)
      BY <2>1, <3>1 DEF SessionInv
    <3>3. v # u
      BY <1>2, <3>1, <3>2 DEF Awake
    <3>4. call'[v] = call[v]
      BY <1>1, <1>3, <3>3 DEF CacheTypes
    <3>5. Awake(v, d)'
      BY <3>2, <3>4 DEF Awake, GetCalls
    <3> QED BY <2>1, <3>1, <3>5 DEF SessionInv
  <2>2. \A d \in Conns : reader'[d] # None => outbox'[d] = <<>>
    BY <1>3, <1>6 DEF SessionInv
  <2> QED BY <1>3, <2>1, <2>2 DEF SessionInv
<1> QED BY <1>7, <1>8, <1>9 DEF SessionStep, Sessions!vars

\* A call that connects is cancelled.
LEMMA CancelCallSessions ==
  ASSUME MaxCancels = 0, CacheInv, SessionInv, NEW u \in Users, CancelCall(u)
  PROVE  SessionInv' /\ SessionStep
<1>1. CacheTypes /\ Wires
  BY DEF CacheInv
<1>2. /\ ~Idle(u) /\ call[u].pc = "connecting" /\ cancels' = cancels
      /\ call' = [call EXCEPT ![u] = None]
      /\ reader' = [c \in Conns |-> IF reader[c] = u THEN None ELSE reader[c]]
      /\ UNCHANGED <<entries, conns, inbox, outbox, got>>
  BY DEF CancelCall, nodeVars, SessionInv
<1>3. call[u] \notin GetCalls
  BY <1>1, <1>2, CallKinds
<1>4. \A c \in Conns : reader'[c] = reader[c]
  <2>1. \A c \in Conns : reader[c] = u => call[u] \in GetCalls
    BY <1>1, CacheAssumption DEF Wires
  <2> QED BY <1>2, <1>3, <2>1
<1>5. UNCHANGED <<Data, Home, Posted, Asked, Answered>>
  BY <1>2 DEF Data, Home, Posted, Asked, Asking, Answered
<1>6. SessionInv'
  <2>1. ASSUME NEW d \in Conns, outbox'[d] # <<>>
        PROVE  Len(outbox'[d]) = 1 /\ \E v \in Users : Awake(v, d)'
    <3>1. outbox' = outbox
      BY <1>2
    <3>2. PICK v \in Users : Awake(v, d)
      BY <2>1, <3>1 DEF SessionInv
    <3>3. v # u
      BY <1>3, <3>2 DEF Awake
    <3>4. call'[v] = call[v]
      BY <1>1, <1>2, <3>3 DEF CacheTypes
    <3>5. Awake(v, d)'
      BY <3>2, <3>4 DEF Awake, GetCalls
    <3> QED BY <2>1, <3>1, <3>5 DEF SessionInv
  <2> QED BY <1>2, <1>4, <2>1 DEF SessionInv
<1> QED BY <1>5, <1>6 DEF SessionStep, Sessions!vars

\* Writes and new connections disturb nobody who reads.
LEMMA ReadersKeep ==
  ASSUME SessionInv, UNCHANGED <<outbox, reader, cancels>>,
         \A v \in Users : call[v] \in GetCalls => call'[v] = call[v],
         \A c \in Conns : GetIsLast(inbox'[c]) /\ (Asks(inbox'[c]) => reader[c] # None)
  PROVE  SessionInv'
<1>1. ASSUME NEW d \in Conns, outbox'[d] # <<>>
      PROVE  Len(outbox'[d]) = 1 /\ \E v \in Users : Awake(v, d)'
  <2>1. PICK v \in Users : Awake(v, d)
    BY <1>1 DEF SessionInv
  <2>2. Awake(v, d)'
    BY <2>1 DEF Awake, GetCalls
  <2> QED BY <1>1, <2>2 DEF SessionInv
<1> QED BY <1>1 DEF SessionInv

\* A connection that is new has a home; before, it had none and carried nothing.
LEMMA HomeGrows ==
  ASSUME CacheTypes, Wires, NEW o \in Owners, NEW n \in Nodes,
         NEW c \in Conns, c = Len(conns) + 1,
         conns' = Append(conns, [owner |-> o, node |-> n, up |-> TRUE])
  PROVE  Home[c] = None /\ Home' = [Home EXCEPT ![c] = n] /\ inbox[c] = <<>>
<1>1. /\ DOMAIN conns' = DOMAIN conns \cup {c} /\ c \notin DOMAIN conns
      /\ conns'[c] = [owner |-> o, node |-> n, up |-> TRUE]
      /\ \A d \in DOMAIN conns : conns'[d] = conns[d]
  BY ConnsGrow, ConnsDomain
<1>2. \A d \in Conns : /\ Home[d] = IF d \in DOMAIN conns THEN conns[d].node ELSE None
                       /\ Home'[d] = IF d \in DOMAIN conns' THEN conns'[d].node ELSE None
  BY DEF Home
<1>3. \A d \in Conns : Home'[d] = IF d = c THEN n ELSE Home[d]
  BY <1>1, <1>2
<1>4. Home' = [d \in Conns |-> Home'[d]] /\ Home = [d \in Conns |-> Home[d]]
  BY DEF Home
<1>5. Home' = [Home EXCEPT ![c] = n]
  BY <1>3, <1>4
<1> QED BY <1>1, <1>2, <1>5 DEF Wires, Up

\* A write through the connections C, one of which may be new.
LEMMA PostSessions ==
  ASSUME CacheInv, SessionInv, NEW C \in SUBSET Conns, NEW m \in Requests, m.op # "get",
         \A c \in Conns : inbox'[c] = IF c \in C THEN Append(inbox[c], m) ELSE inbox[c],
         \A c \in C : ~Asks(inbox[c]) /\ Home'[c] # None,
         Home' = Home \/ \E s \in C, n \in Nodes : Home[s] = None /\ Home' = [Home EXCEPT ![s] = n],
         \A v \in Users : call[v] \in GetCalls => call'[v] = call[v],
         UNCHANGED <<entries, outbox, reader, got, cancels>>
  PROVE  SessionInv' /\ SessionStep
<1>1. \A c \in Conns : inbox[c] \in Seq(Requests) /\ GetIsLast(inbox[c])
  BY DEF CacheInv, CacheTypes, SessionInv
<1>2. ASSUME NEW c \in C
      PROVE  /\ GetIsLast(inbox'[c]) /\ ~Asks(inbox'[c]) /\ AskedOf(inbox[c]) = None
             /\ PostedOf(inbox'[c]) = Append(PostedOf(inbox[c]), m)
             /\ AskedOf(inbox'[c]) = AskedOf(inbox[c])
  <2>1. PICK q : q = inbox[c]
    OBVIOUS
  <2>2. q \in Seq(Requests) /\ GetIsLast(q) /\ ~Asks(q) /\ inbox'[c] = Append(q, m)
    BY <1>1, <2>1
  <2> QED BY <2>1, <2>2, SendOne
<1>3. SessionInv'
  BY <1>1, <1>2, ReadersKeep DEF SessionInv
<1>4. /\ Posted' = [c \in Conns |-> PostedOf(inbox'[c])] /\ Asked' = [c \in Conns |-> AskedOf(inbox'[c])]
      /\ \A c \in Conns : Posted[c] = PostedOf(inbox[c]) /\ Asked[c] = AskedOf(inbox[c])
      /\ Asked = [c \in Conns |-> AskedOf(inbox[c])]
  BY SessionOf
<1>5. Posted' = [c \in Conns |-> IF c \in C THEN Append(Posted[c], m) ELSE Posted[c]]
  <2>1. ASSUME NEW c \in Conns
        PROVE  PostedOf(inbox'[c]) = IF c \in C THEN Append(Posted[c], m) ELSE Posted[c]
    <3>1. c \notin C => inbox'[c] = inbox[c]
      OBVIOUS
    <3>2. c \notin C => PostedOf(inbox'[c]) = PostedOf(inbox[c])
      BY <3>1
    <3>3. Posted[c] = PostedOf(inbox[c])
      BY <1>4
    <3>4. c \in C => PostedOf(inbox'[c]) = Append(PostedOf(inbox[c]), m)
      BY <1>2
    <3> QED BY <3>2, <3>3, <3>4
  <2> QED BY <1>4, <2>1, Zenon
<1>6. Asked' = Asked
  BY <1>2, <1>4
<1>7. UNCHANGED <<Data, Answered>>
  BY DEF Data, Answered
<1>8. \A c \in C : Home'[c] # None /\ Asked[c] = None
  BY <1>2, <1>4
<1>9. Sessions!Post(C, m)
  BY <1>5, <1>6, <1>7, <1>8 DEF Sessions!Post, Sessions!Opened
<1>10. m \in Sessions!Writes
  BY RequestKinds
<1> QED BY <1>3, <1>9, <1>10 DEF SessionStep, Sessions!Next

\* Nothing is written; a connection may be new.
LEMMA OpenSessions ==
  ASSUME SessionInv,
         Home' = Home \/ \E s \in Conns, n \in Nodes : Home[s] = None /\ Home' = [Home EXCEPT ![s] = n],
         \A v \in Users : call[v] \in GetCalls => call'[v] = call[v],
         UNCHANGED <<entries, inbox, outbox, reader, got, cancels>>
  PROVE  SessionInv' /\ SessionStep
<1>1. SessionInv'
  BY ReadersKeep DEF SessionInv
<1>2. UNCHANGED <<Data, Posted, Asked, Answered>>
  BY DEF Data, Posted, Asked, Asking, Answered
<1>3. ASSUME NEW s \in Conns, NEW n \in Nodes, Home[s] = None, Home' = [Home EXCEPT ![s] = n]
      PROVE  Sessions!Open(s, n)
  BY <1>2, <1>3 DEF Sessions!Open, Sessions!Opened
<1> QED BY <1>1, <1>2, <1>3 DEF SessionStep, Sessions!Next, Sessions!vars

\* A CacheClient connects.
LEMMA ConnectSessions ==
  ASSUME CacheInv, SessionInv, NEW u \in Users, NEW n \in Nodes, Connect(u, n)
  PROVE  SessionInv' /\ SessionStep
<1>1. PICK c, o : c = Len(conns) + 1 /\ o = OwnerOf[u]
  OBVIOUS
<1>2. /\ o \in Owners /\ Len(conns) < MaxConns
      /\ conns' = Append(conns, [owner |-> o, node |-> n, up |-> TRUE])
      /\ UNCHANGED <<entries, inbox, outbox, reader, got, call, cancels>>
  BY <1>1 DEF Connect, Owners, nodeVars, wireVars
<1>3. CacheTypes /\ Wires
  BY DEF CacheInv
<1>4. c \in Conns
  BY <1>1, <1>2, <1>3, ConnsDomain, CacheAssumption DEF Conns
<1>5. Home[c] = None /\ Home' = [Home EXCEPT ![c] = n]
  BY <1>1, <1>2, <1>3, <1>4, HomeGrows
<1> QED BY <1>2, <1>4, <1>5, OpenSessions

\* set(), delete() and clear() of a CacheClient.
LEMMA SendSessions ==
  ASSUME OneTaskPerClient, CacheInv, SessionInv, NEW u \in Users, NEW m \in Requests, Send(u, m)
  PROVE  SessionInv' /\ SessionStep
<1>1. PICK n \in Nodes : Link(u, n) # 0 /\ Write({Link(u, n)}, m)
  BY DEF Send
<1>2. PICK c : c = Link(u, n)
  OBVIOUS
<1>3. /\ UNCHANGED <<entries, conns, outbox, reader, got, call, cancels>>
      /\ m.op # "get" /\ call[u] = None /\ OwnerOf[u] \in Owners
  BY DEF Send, nodeVars, Idle, Owners
<1>4. CacheTypes /\ c \in DOMAIN conns /\ c \in Conns /\ Made(c, OwnerOf[u])
  BY <1>1, <1>2, <1>3, KnownLinks DEF Link, CacheInv
<1>5. ~Asks(inbox[c])
  BY <1>3, <1>4, NobodyAsks
<1>6. \A d \in Conns : inbox'[d] = IF d \in Reached({c}) THEN Append(inbox[d], m) ELSE inbox[d]
  BY <1>1, <1>2, <1>4, WriteTypes
<1>7. PICK C : C = Reached({c})
  OBVIOUS
<1>8. C \subseteq {c} /\ C \in SUBSET Conns
  BY <1>4, <1>7 DEF Reached
<1>9. Home' = Home /\ Home'[c] # None
  <2>1. conns[c].node \in Nodes
    BY <1>4, ConnsDomain DEF Conn
  <2> QED BY <1>3, <1>4, <2>1, CacheAssumption DEF Home
<1>10. /\ \A d \in Conns : inbox'[d] = IF d \in C THEN Append(inbox[d], m) ELSE inbox[d]
       /\ \A d \in C : ~Asks(inbox[d]) /\ Home'[d] # None
       /\ \A v \in Users : call[v] \in GetCalls => call'[v] = call[v]
  BY <1>3, <1>5, <1>6, <1>7, <1>8, <1>9
<1> QED BY <1>3, <1>8, <1>9, <1>10, PostSessions

\* The calls of a DistributedCache go through connections nobody asks or reads: those
\* it had, and one that may be new.
LEMMA ReachSessions ==
  ASSUME OneTaskPerClient, CacheInv, SessionInv, NEW u \in Users, OwnerOf[u] \in Facades,
         call[u] \notin GetCalls, NEW m \in Requests, m.op # "clear", NEW todo \in Seq(Nodes),
         NEW S \in SUBSET Conns, NEW reached \in SUBSET S,
         NEW known \in [Nodes -> Nat], \A n \in Nodes : known[n] \in S \cup {0},
         Reach(u, m, todo, reached, known),
         \A d \in S : Made(d, OwnerOf[u]) \/ (inbox[d] = <<>> /\ d \in reached),
         \A d \in S : Home'[d] # None,
         Home' = Home \/ \E s \in reached, n \in Nodes :
                           /\ Home[s] = None /\ Home' = [Home EXCEPT ![s] = n]
                           /\ s \notin DOMAIN conns,
         UNCHANGED <<entries, outbox, reader, got, cancels>>
  PROVE  SessionInv' /\ SessionStep
<1>1. /\ CacheTypes /\ OwnerOf[u] \in Owners
      /\ \A v \in Users : call[v] \in GetCalls => call'[v] = call[v]
      /\ Reaches(u, m, reached, S)
  <2>1. CacheTypes /\ OwnerOf[u] \in Owners
    BY DEF CacheInv, Owners
  <2>2. (\A v \in Users \ {u} : call'[v] = call[v]) /\ Reaches(u, m, reached, S)
    BY <2>1, ReachEffect
  <2> QED BY <2>1, <2>2
<1>2. CASE UNCHANGED inbox
  <2>1. Home' = Home \/ \E s \in Conns, n \in Nodes : Home[s] = None /\ Home' = [Home EXCEPT ![s] = n]
    OBVIOUS
  <2> QED BY <1>1, <1>2, <2>1, OpenSessions
<1>3. ASSUME m.op # "get", NEW D \in SUBSET S, reached \subseteq D, Write(D, m)
      PROVE  SessionInv' /\ SessionStep
  <2>1. PICK C : C = Reached(D)
    OBVIOUS
  <2>2. C \in SUBSET Conns /\ C \subseteq S
    BY <2>1 DEF Reached
  <2>3. \A d \in Conns : inbox'[d] = IF d \in C THEN Append(inbox[d], m) ELSE inbox[d]
    BY <1>1, <1>3, <2>1, WriteTypes
  <2>4. ASSUME NEW d \in C PROVE ~Asks(inbox[d])
    <3>1. CASE Made(d, OwnerOf[u])
      BY <1>1, <2>2, <3>1, NobodyAsks
    <3>2. CASE inbox[d] = <<>>
      BY <3>2, NothingSent
    <3> QED BY <2>2, <2>4, <3>1, <3>2
  <2>5. \A d \in C : ~Asks(inbox[d]) /\ Home'[d] # None
    BY <2>2, <2>4
  <2>6. Home' = Home \/ \E s \in C, n \in Nodes : Home[s] = None /\ Home' = [Home EXCEPT ![s] = n]
    <3>1. \A s \in reached : s \notin DOMAIN conns => s \in C
      BY <1>3, <2>1 DEF Reached
    <3> QED BY <3>1
  <2> QED BY <1>1, <1>3, <2>2, <2>3, <2>5, <2>6, PostSessions
<1> QED BY <1>1, <1>2, <1>3 DEF Reaches

\* Connections that were made have a home.
LEMMA MadeHome ==
  ASSUME CacheTypes, NEW c \in DOMAIN conns
  PROVE  c \in Conns /\ Home[c] = conns[c].node /\ Home[c] \in Nodes /\ Home[c] # None
<1>1. c \in Conns /\ conns[c].node \in Nodes
  BY ConnsDomain DEF Conn
<1> QED BY <1>1, CacheAssumption DEF Home

\* set(), get() and delete() of a DistributedCache.
LEMMA FacadeCallSessions ==
  ASSUME OneTaskPerClient, CacheInv, SessionInv, NEW u \in Users, NEW m \in Requests,
         FacadeCall(u, m)
  PROVE  SessionInv' /\ SessionStep
<1>1. PICK o : o = OwnerOf[u]
  OBVIOUS
<1>2. PICK S : S = {c \in DOMAIN conns : Made(c, o)}
  OBVIOUS
<1>3. /\ o \in Facades /\ o \in Owners /\ call[u] = None /\ m.op # "clear" /\ m.key \in Keys
      /\ Reach(u, m, ReplicasOf(m.key), {}, directory[o])
      /\ UNCHANGED <<entries, accepting, conns, outbox, reader, directory, got, cancels>>
  BY <1>1 DEF FacadeCall, Idle, Owners, Requests, nodeVars
<1>4. CacheTypes /\ call[u] \notin GetCalls
  BY <1>3, CallKinds DEF CacheInv
<1>5. directory[o] \in [Nodes -> Nat] /\ \A n \in Nodes : directory[o][n] \in S \cup {0}
  BY <1>2, <1>3, KnownLinks
<1>6. S \in SUBSET Conns /\ {} \in SUBSET S /\ ReplicasOf(m.key) \in Seq(Nodes)
  BY <1>2, <1>3, <1>4, ConnsDomain, ReplicasAreNodes
<1>7. Home' = Home
  BY <1>3 DEF Home
<1>8. \A d \in S : Made(d, OwnerOf[u]) /\ Home'[d] # None
  BY <1>1, <1>2, <1>4, <1>7, MadeHome
<1> QED BY <1>1, <1>3, <1>4, <1>5, <1>6, <1>7, <1>8, ReachSessions

\* The connection to a node is refused.
LEMMA FacadeRefusedSessions ==
  ASSUME OneTaskPerClient, CacheInv, SessionInv, NEW u \in Users, FacadeRefused(u)
  PROVE  SessionInv' /\ SessionStep
<1>1. PICK o : o = OwnerOf[u]
  OBVIOUS
<1>2. PICK S : S = {c \in DOMAIN conns : Made(c, o)}
  OBVIOUS
<1>3. /\ ~Idle(u) /\ call[u].pc = "connecting"
      /\ Reach(u, call[u].msg, Tail(call[u].todo), call[u].conns, directory[o])
      /\ UNCHANGED <<entries, accepting, conns, outbox, reader, directory, got, cancels>>
  BY <1>1 DEF FacadeRefused, nodeVars
<1>4. CacheTypes /\ call[u] \in ConnectCalls /\ call[u] \notin GetCalls
  BY <1>3, CallKinds DEF CacheInv
<1>5. /\ o \in Facades /\ o \in Owners /\ call[u].todo # <<>> /\ call[u].msg.op # "clear"
      /\ \A c \in call[u].conns : Made(c, o)
  BY <1>1, <1>4 DEF CacheInv, Links, Owners
<1>6. call[u].todo \in Seq(Nodes) /\ call[u].msg \in Requests
  BY <1>4 DEF ConnectCalls
<1>7. Tail(call[u].todo) \in Seq(Nodes)
  BY <1>5, <1>6, TailRange
<1>8. directory[o] \in [Nodes -> Nat] /\ \A n \in Nodes : directory[o][n] \in S \cup {0}
  BY <1>2, <1>5, KnownLinks
<1>9. S \in SUBSET Conns /\ call[u].conns \in SUBSET S
  BY <1>2, <1>4, <1>5, ConnsDomain DEF Made
<1>10. Home' = Home
  BY <1>3 DEF Home
<1>11. \A d \in S : Made(d, OwnerOf[u]) /\ Home'[d] # None
  BY <1>1, <1>2, <1>4, <1>10, MadeHome
<1>12. PICK m, todo, reached, known :
         /\ m = call[u].msg /\ todo = Tail(call[u].todo)
         /\ reached = call[u].conns /\ known = directory[o]
  OBVIOUS
<1>13. /\ Reach(u, m, todo, reached, known) /\ m \in Requests /\ m.op # "clear"
       /\ todo \in Seq(Nodes) /\ reached \in SUBSET S /\ S \in SUBSET Conns
       /\ known \in [Nodes -> Nat] /\ \A n \in Nodes : known[n] \in S \cup {0}
       /\ OwnerOf[u] \in Facades /\ call[u] \notin GetCalls
       /\ UNCHANGED <<entries, outbox, reader, got, cancels>>
  BY <1>1, <1>3, <1>4, <1>5, <1>6, <1>7, <1>8, <1>9, <1>12
<1> QED BY <1>10, <1>11, <1>13, ReachSessions

\* It is made.
LEMMA FacadeConnectedSessions ==
  ASSUME OneTaskPerClient, CacheInv, SessionInv, NEW u \in Users, FacadeConnected(u)
  PROVE  SessionInv' /\ SessionStep
<1>1. PICK c, n, o : c = Len(conns) + 1 /\ n = Head(call[u].todo) /\ o = OwnerOf[u]
  OBVIOUS
<1>2. PICK S : S = {d \in DOMAIN conns : Made(d, o)} \cup {c}
  OBVIOUS
<1>3. /\ ~Idle(u) /\ call[u].pc = "connecting" /\ c \in Conns
      /\ conns' = Append(conns, [owner |-> o, node |-> n, up |-> TRUE])
      /\ directory' = [directory EXCEPT ![o][n] = c]
      /\ Reach(u, call[u].msg, Tail(call[u].todo), call[u].conns \cup {c}, directory'[o])
      /\ UNCHANGED <<entries, accepting, outbox, reader, got, cancels>>
  BY <1>1 DEF FacadeConnected, nodeVars
<1>4. CacheTypes /\ Wires /\ call[u] \in ConnectCalls /\ call[u] \notin GetCalls
  BY <1>3, CallKinds DEF CacheInv
<1>5. /\ o \in Facades /\ o \in Owners /\ call[u].todo # <<>> /\ call[u].msg.op # "clear"
      /\ \A d \in call[u].conns : Made(d, o)
  BY <1>1, <1>4 DEF CacheInv, Links, Owners
<1>6. call[u].todo \in Seq(Nodes) /\ call[u].msg \in Requests
  BY <1>4 DEF ConnectCalls
<1>7. Tail(call[u].todo) \in Seq(Nodes) /\ n \in Nodes
  BY <1>1, <1>5, <1>6, TailRange
<1>8. S \in SUBSET Conns /\ (call[u].conns \cup {c}) \in SUBSET S /\ c \in Nat /\ c \in S
      /\ c \notin DOMAIN conns
  BY <1>1, <1>2, <1>3, <1>4, <1>5, ConnsDomain DEF Made, Conns
<1>9. PICK known : known = directory'[o]
  OBVIOUS
<1>10. known \in [Nodes -> Nat] /\ \A l \in Nodes : known[l] \in S \cup {0}
  <2>1. \A l \in Nodes : directory[o][l] # 0 => directory[o][l] \in S
    BY <1>2, <1>5, KnownLinks
  <2>2. /\ directory' \in [Owners -> [Nodes -> Nat]]
        /\ \A l \in Nodes : directory'[o][l] = IF l = n THEN c ELSE directory[o][l]
    BY <1>3, <1>4, <1>5, <1>7, <1>8 DEF CacheTypes
  <2> QED BY <1>5, <1>8, <1>9, <2>1, <2>2
<1>11. Home[c] = None /\ Home' = [Home EXCEPT ![c] = n] /\ inbox[c] = <<>>
  BY <1>1, <1>3, <1>4, <1>5, <1>7, HomeGrows
<1>12. \A d \in S : Made(d, OwnerOf[u]) \/ (inbox[d] = <<>> /\ d \in call[u].conns \cup {c})
  BY <1>1, <1>2, <1>11
<1>13. ASSUME NEW d \in S PROVE Home'[d] # None
  <2>1. Home' = [Home EXCEPT ![c] = n] /\ n # None /\ DOMAIN Home = Conns
    BY <1>7, <1>11, CacheAssumption DEF Home
  <2>2. d # c => d \in DOMAIN conns
    BY <1>2
  <2>3. d # c => Home[d] # None
    BY <1>4, <2>2, MadeHome
  <2> QED BY <1>8, <2>1, <2>3
<1>14. \E s \in call[u].conns \cup {c}, l \in Nodes :
         Home[s] = None /\ Home' = [Home EXCEPT ![s] = l] /\ s \notin DOMAIN conns
  BY <1>7, <1>8, <1>11
<1>15. PICK m, todo, reached :
         m = call[u].msg /\ todo = Tail(call[u].todo) /\ reached = call[u].conns \cup {c}
  OBVIOUS
<1>16. /\ Reach(u, m, todo, reached, known) /\ m \in Requests /\ m.op # "clear"
       /\ todo \in Seq(Nodes) /\ reached \in SUBSET S /\ S \in SUBSET Conns
       /\ OwnerOf[u] \in Facades /\ call[u] \notin GetCalls
       /\ UNCHANGED <<entries, outbox, reader, got, cancels>>
  BY <1>1, <1>3, <1>4, <1>5, <1>6, <1>7, <1>8, <1>9, <1>15
<1>17. /\ \A d \in S : Made(d, OwnerOf[u]) \/ (inbox[d] = <<>> /\ d \in reached)
       /\ \A d \in S : Home'[d] # None
       /\ \E s \in reached, l \in Nodes :
            /\ Home[s] = None /\ Home' = [Home EXCEPT ![s] = l] /\ s \notin DOMAIN conns
       /\ known \in [Nodes -> Nat] /\ \A l \in Nodes : known[l] \in S \cup {0}
  BY <1>10, <1>12, <1>13, <1>14, <1>15
<1> QED BY <1>16, <1>17, ReachSessions

\* A GET is asked of a session that is not being asked and holds no answer.
LEMMA GetSessions ==
  ASSUME OneTaskPerClient, CacheInv, SessionInv, NEW u \in Users, NEW k \in Keys, Get(u, k)
  PROVE  SessionInv' /\ SessionStep
<1>1. PICK l \in Nodes : Link(u, l) # 0 /\ GetFrom(u, Link(u, l), k)
  BY GetCases
<1>2. PICK c, m : c = Link(u, l) /\ m = [op |-> "get", key |-> k]
  OBVIOUS
<1>3. /\ UNCHANGED <<entries, conns, cancels>>
      /\ OwnerOf[u] \in Clients /\ OwnerOf[u] \in Owners /\ call[u] = None
      /\ Write({c}, m) /\ m \in Requests /\ m.op = "get" /\ m.key = k
  BY <1>1, <1>2 DEF Get, nodeVars, Idle, Owners, GetFrom, Requests
<1>4. CacheTypes /\ Links /\ Wires
  BY DEF CacheInv
<1>5. c \in DOMAIN conns /\ c \in Conns /\ Made(c, OwnerOf[u])
  BY <1>1, <1>2, <1>3, KnownLinks DEF Link
<1>6. reader[c] = None /\ outbox[c] = <<>> /\ ~Asks(inbox[c])
  BY <1>3, <1>5, NobodyAsks
<1>7. \A d \in Conns : inbox'[d] = IF d \in Reached({c}) THEN Append(inbox[d], m) ELSE inbox[d]
  BY <1>3, <1>4, WriteTypes
<1>8. inbox' = [d \in Conns |-> inbox'[d]] /\ inbox = [d \in Conns |-> inbox[d]]
  BY <1>3, <1>4 DEF Write, CacheTypes
<1>9. Home' = Home /\ Home[c] # None
  BY <1>3, <1>4, <1>5, MadeHome DEF Home
<1>10. CASE ~conns[c].up
  <2>1. UNCHANGED <<outbox, reader, got, call>>
    BY <1>1, <1>2, <1>6, <1>10 DEF GetFrom
  <2>2. inbox' = inbox
    <3>1. Reached({c}) = {}
      BY <1>5, <1>10 DEF Reached
    <3> QED BY <1>7, <1>8, <3>1
  <2> QED BY <1>3, <1>9, <2>1, <2>2, OpenSessions
<1>11. CASE conns[c].up
  <2>1. /\ reader' = [reader EXCEPT ![c] = u]
        /\ call' = [call EXCEPT ![u] = [pc |-> "reading", conn |-> c, key |-> k]]
        /\ got' = [got EXCEPT ![c] = None]
        /\ outbox' = outbox
    BY <1>1, <1>2, <1>6, <1>11 DEF GetFrom
  <2>2. /\ inbox'[c] = Append(inbox[c], m) /\ \A d \in Conns \ {c} : inbox'[d] = inbox[d]
    <3>1. Reached({c}) = {c}
      BY <1>11 DEF Reached
    <3> QED BY <1>5, <1>7, <3>1
  <2>3. /\ GetIsLast(inbox'[c]) /\ AskedOf(inbox[c]) = None /\ AskedOf(inbox'[c]) = k
        /\ PostedOf(inbox'[c]) = PostedOf(inbox[c])
    <3>1. PICK q : q = inbox[c]
      OBVIOUS
    <3>2. q \in Seq(Requests) /\ GetIsLast(q) /\ ~Asks(q) /\ inbox'[c] = Append(q, m)
      BY <1>4, <1>5, <1>6, <2>2, <3>1 DEF CacheTypes, SessionInv
    <3> QED BY <1>3, <3>1, <3>2, SendOne
  <2>4. /\ reader'[c] = u /\ u # None /\ \A d \in Conns \ {c} : reader'[d] = reader[d]
        /\ \A v \in Users \ {u} : call'[v] = call[v]
        /\ got'[c] = None /\ \A d \in Conns \ {c} : got'[d] = got[d]
    BY <1>4, <1>5, <2>1, CacheAssumption DEF CacheTypes
  <2>5. SessionInv'
    <3>1. \A d \in Conns : GetIsLast(inbox'[d]) /\ (Asks(inbox'[d]) => reader'[d] # None)
      BY <2>2, <2>3, <2>4 DEF SessionInv
    <3>2. \A d \in Conns : reader'[d] # None => outbox'[d] = <<>>
      BY <1>6, <2>1, <2>4 DEF SessionInv
    <3>3. ASSUME NEW d \in Conns, outbox'[d] # <<>>
          PROVE  Len(outbox'[d]) = 1 /\ \E v \in Users : Awake(v, d)'
      <4>1. PICK v \in Users : Awake(v, d)
        BY <2>1, <3>3 DEF SessionInv
      <4>2. v # u
        BY <1>3, <1>4, <4>1, CallKinds DEF Awake
      <4>3. Awake(v, d)'
        BY <2>4, <4>1, <4>2 DEF Awake, GetCalls
      <4> QED BY <2>1, <3>3, <4>3 DEF SessionInv
    <3> QED BY <1>3, <3>1, <3>2, <3>3 DEF SessionInv
  <2>6. /\ Posted' = [d \in Conns |-> PostedOf(inbox'[d])] /\ Posted = [d \in Conns |-> PostedOf(inbox[d])]
        /\ Asked' = [d \in Conns |-> AskedOf(inbox'[d])] /\ Asked = [d \in Conns |-> AskedOf(inbox[d])]
    BY SessionOf
  <2>7. Posted' = Posted /\ Asked' = [Asked EXCEPT ![c] = k] /\ Asked[c] = None
    <3>1. \A d \in Conns : PostedOf(inbox'[d]) = PostedOf(inbox[d])
      BY <2>2, <2>3
    <3>2. \A d \in Conns : AskedOf(inbox'[d]) = IF d = c THEN k ELSE AskedOf(inbox[d])
      BY <2>2, <2>3
    <3> QED BY <1>5, <2>3, <2>6, <3>1, <3>2
  <2>8. Answered' = [Answered EXCEPT ![c] = None]
    <3>1. ASSUME NEW d \in Conns
          PROVE  (IF outbox'[d] # <<>> THEN outbox'[d][1]
                  ELSE IF got'[d] = None THEN None ELSE got'[d].answer) =
                 IF d = c THEN None ELSE Answered[d]
      BY <1>6, <2>1, <2>4 DEF Answered
    <3>2. DOMAIN Answered = Conns
      BY DEF Answered
    <3>3. Answered' = [d \in Conns |-> IF d = c THEN None ELSE Answered[d]]
      BY <3>1 DEF Answered
    <3> QED BY <3>2, <3>3
  <2>9. Data' = Data
    BY <1>3 DEF Data
  <2>10. Sessions!Ask(c, k)
    BY <1>9, <2>7, <2>8, <2>9 DEF Sessions!Ask
  <2> QED BY <1>5, <2>5, <2>10 DEF SessionStep, Sessions!Next
<1> QED BY <1>10, <1>11

\* A node handles the first request of a connection: a write takes effect, a GET is
\* answered with what the node holds once all the writes before it have.
LEMMA HandleSessions ==
  ASSUME CacheInv, SessionInv, NEW c \in Conns, Handle(c)
  PROVE  SessionInv' /\ SessionStep
<1>1. PICK q, m, n : q = inbox[c] /\ m = Head(q) /\ n = conns[c].node
  OBVIOUS
<1>2. /\ Up(c) /\ q # <<>> /\ m \in Requests /\ n \in Nodes /\ HandledBy(c, m, n)
      /\ q \in Seq(Requests)
  BY <1>1, HandleCases
<1>3. CacheTypes /\ Wires /\ GetIsLast(q)
  BY <1>1, SMTT(30) DEF CacheInv, SessionInv
<1>4. /\ UNCHANGED <<conns, got, cancels>>
      /\ entries' = [entries EXCEPT ![n] = Stored(entries[n], m)]
      /\ inbox' = [inbox EXCEPT ![c] = Tail(q)]
  BY <1>1, <1>2 DEF Handle, Handled, HandledBy
<1>5. inbox'[c] = Tail(q) /\ \A d \in Conns \ {c} : inbox'[d] = inbox[d]
  BY <1>3, <1>4 DEF CacheTypes
<1>6. /\ GetIsLast(Tail(q))
      /\ IF m.op = "get"
         THEN PostedOf(q) = <<>> /\ AskedOf(q) = m.key /\ Asks(q) /\ Tail(q) = <<>>
         ELSE /\ PostedOf(q) # <<>> /\ Head(PostedOf(q)) = m
              /\ PostedOf(Tail(q)) = Tail(PostedOf(q)) /\ AskedOf(Tail(q)) = AskedOf(q)
              /\ Asks(Tail(q)) <=> Asks(q)
  BY <1>1, <1>2, <1>3, HandleOne
<1>7. Home' = Home /\ Home[c] = n
  BY <1>1, <1>2, <1>3, <1>4, MadeHome DEF Home, Up
<1>8. /\ Posted' = [d \in Conns |-> PostedOf(inbox'[d])] /\ Posted = [d \in Conns |-> PostedOf(inbox[d])]
      /\ Asked' = [d \in Conns |-> AskedOf(inbox'[d])] /\ Asked = [d \in Conns |-> AskedOf(inbox[d])]
  BY SessionOf
<1>9. Data' = IF m.op = "get" THEN Data ELSE [Data EXCEPT ![n] = Sessions!After(Data[n], m)]
  BY <1>2, <1>3, <1>4, StoredData
<1>10. CASE m.op # "get"
  <2>1. UNCHANGED <<outbox, reader, call>>
    BY <1>2, <1>10 DEF HandledBy
  <2>2. SessionInv'
    <3>1. \A d \in Conns : GetIsLast(inbox'[d]) /\ (Asks(inbox'[d]) => reader[d] # None)
      BY <1>1, <1>5, <1>6, <1>10 DEF SessionInv
    <3> QED BY <1>4, <2>1, <3>1, ReadersKeep
  <2>3. Answered' = Answered
    BY <1>4, <2>1 DEF Answered
  <2>4. Asked' = Asked
    BY <1>1, <1>5, <1>6, <1>8, <1>10
  <2>5. Posted[c] # <<>> /\ Head(Posted[c]) = m /\ Posted' = [Posted EXCEPT ![c] = Tail(Posted[c])]
    BY <1>1, <1>5, <1>6, <1>8, <1>10
  <2>6. Data' = [Data EXCEPT ![Home[c]] = Sessions!After(Data[Home[c]], Head(Posted[c]))]
    BY <1>7, <1>9, <1>10, <2>5
  <2>7. Sessions!Apply(c)
    BY <1>7, <2>3, <2>4, <2>5, <2>6 DEF Sessions!Apply
  <2> QED BY <2>2, <2>7 DEF SessionStep, Sessions!Next
<1>11. CASE m.op = "get"
  <2>1. PICK a : /\ a = [key |-> m.key, value |-> IF entries[n][m.key] = None THEN None
                                                  ELSE entries[n][m.key].value]
                 /\ outbox' = [outbox EXCEPT ![c] = Append(outbox[c], a)]
    BY <1>2, <1>11 DEF HandledBy
  <2>2. reader' = [reader EXCEPT ![c] = None] /\ call' = Woken({c})
    BY <1>2, <1>11 DEF HandledBy
  <2>3. /\ reader[c] # None /\ outbox[c] = <<>> /\ reader[c] \in Users
        /\ call[reader[c]] \in GetCalls /\ call[reader[c]].pc = "reading" /\ call[reader[c]].conn = c
    BY <1>1, <1>3, <1>6, <1>11 DEF SessionInv, Wires, CacheTypes
  <2>4. /\ outbox'[c] # <<>> /\ Len(outbox'[c]) = 1 /\ outbox'[c][1] = a
        /\ \A d \in Conns \ {c} : outbox'[d] = outbox[d]
        /\ reader'[c] = None /\ \A d \in Conns \ {c} : reader'[d] = reader[d]
    <3>1. outbox'[c] = <<a>>
      BY <1>3, <2>1, <2>3 DEF CacheTypes
    <3>2. outbox'[c] # <<>> /\ Len(outbox'[c]) = 1 /\ outbox'[c][1] = a
      <4>1. PICK o : o = outbox'[c]
        OBVIOUS
      <4>2. o = <<a>>
        BY <3>1, <4>1
      <4>3. o # <<>> /\ Len(o) = 1 /\ o[1] = a
        BY <4>2
      <4> QED BY <4>1, <4>3
    <3>3. \A d \in Conns \ {c} : outbox'[d] = outbox[d]
      BY <1>3, <2>1 DEF CacheTypes
    <3> QED BY <1>3, <2>2, <3>2, <3>3 DEF CacheTypes
  <2>5. \A u \in Users : call[u] \in GetCalls =>
          /\ call'[u] \in GetCalls /\ call'[u].conn = call[u].conn
          /\ call'[u].pc = IF call[u].pc = "reading" /\ call[u].conn \in {c}
                           THEN "woken" ELSE call[u].pc
    BY <1>3, <2>2, WokenCalls
  <2>6. SessionInv'
    <3>1. \A d \in Conns : GetIsLast(inbox'[d]) /\ (Asks(inbox'[d]) => reader'[d] # None)
      BY <1>5, <1>6, <1>11, <2>4, NothingSent DEF SessionInv
    <3>2. \A d \in Conns : reader'[d] # None => outbox'[d] = <<>>
      BY <2>4 DEF SessionInv
    <3>3. ASSUME NEW d \in Conns, outbox'[d] # <<>>
          PROVE  Len(outbox'[d]) = 1 /\ \E v \in Users : Awake(v, d)'
      <4>1. CASE d = c
        <5>1. PICK u \in Users : u = reader[c]
          BY <2>3
        <5>2. Awake(u, c)'
          BY <2>3, <2>5, <5>1 DEF Awake, GetCalls
        <5> QED BY <2>4, <4>1, <5>2
      <4>2. CASE d # c
        <5>1. PICK v \in Users : Awake(v, d)
          BY <2>4, <3>3, <4>2 DEF SessionInv
        <5>2. Awake(v, d)'
          BY <2>5, <5>1 DEF Awake, GetCalls
        <5> QED BY <2>4, <3>3, <4>2, <5>2 DEF SessionInv
      <4> QED BY <4>1, <4>2
    <3> QED BY <1>4, <3>1, <3>2, <3>3 DEF SessionInv
  <2>7. Posted' = Posted /\ Posted[c] = <<>>
    BY <1>1, <1>5, <1>6, <1>8, <1>11, NothingSent
  <2>8. m.key \in Keys /\ m.key # None /\ Asked[c] = m.key /\ Asked' = [Asked EXCEPT ![c] = None]
    BY <1>1, <1>2, <1>5, <1>6, <1>8, <1>11, NothingSent, RequestKinds
  <2>9. a = [key |-> Asked[c], value |-> Data[Home[c]][Asked[c]]]
    BY <1>2, <1>7, <2>1, <2>8 DEF Data
  <2>10. Answered' = [Answered EXCEPT ![c] = a]
    <3>1. ASSUME NEW d \in Conns
          PROVE  (IF outbox'[d] # <<>> THEN outbox'[d][1]
                  ELSE IF got'[d] = None THEN None ELSE got'[d].answer) =
                 IF d = c THEN a ELSE Answered[d]
      BY <1>4, <2>4 DEF Answered
    <3>2. DOMAIN Answered = Conns
      BY DEF Answered
    <3>3. Answered' = [d \in Conns |-> IF d = c THEN a ELSE Answered[d]]
      BY <3>1 DEF Answered
    <3> QED BY <3>2, <3>3
  <2>11. Data' = Data
    BY <1>9, <1>11
  <2>12. Sessions!Answer(c)
    BY <1>7, <2>7, <2>8, <2>9, <2>10, <2>11 DEF Sessions!Answer
  <2> QED BY <2>6, <2>12 DEF SessionStep, Sessions!Next
<1> QED BY <1>10, <1>11

\* At first nothing is posted, asked or answered.
LEMMA SessionsInitially == CacheInit => SessionInv /\ Sessions!Init
<1> SUFFICES ASSUME CacheInit PROVE SessionInv /\ Sessions!Init
  OBVIOUS
<1>1. /\ entries = [n \in Nodes |-> [k \in Keys |-> None]] /\ conns = <<>> /\ cancels = 0
      /\ inbox = [c \in Conns |-> <<>>] /\ outbox = [c \in Conns |-> <<>>]
      /\ reader = [c \in Conns |-> None] /\ got = [c \in Conns |-> None]
  BY DEF CacheInit
<1>2. SessionInv
  BY <1>1, NothingSent DEF SessionInv
<1>3. Posted = [c \in Conns |-> <<>>] /\ Asked = [c \in Conns |-> None]
  BY <1>1, SessionOf, NothingSent
<1>4. Data = [n \in Nodes |-> [k \in Keys |-> None]]
  BY <1>1, DataIsWorth DEF Worth
<1>5. Answered = [c \in Conns |-> None]
  BY <1>1 DEF Answered
<1>6. Home = [c \in Conns |-> None]
  <2>1. Home = [c \in Conns |-> IF c \in DOMAIN conns THEN conns[c].node ELSE None]
    BY DEF Home
  <2>2. DOMAIN conns = {}
    BY <1>1
  <2> QED BY <2>1, <2>2
<1> QED BY <1>2, <1>3, <1>4, <1>5, <1>6 DEF Sessions!Init

\* Every step of the cache is one of a session, or none.
LEMMA SessionsStep ==
  ASSUME MaxCancels = 0, OneTaskPerClient, CacheInv, SessionInv, [CacheNext]_cacheVars
  PROVE  SessionInv' /\ SessionStep
<1>1. ASSUME NEW u \in Users,
             FacadeConnected(u) \/ FacadeRefused(u) \/ GetReturns(u) \/ CancelCall(u) \/ Disconnect(u)
      PROVE  SessionInv' /\ SessionStep
  BY <1>1, FacadeConnectedSessions, FacadeRefusedSessions, GetReturnsSessions,
     CancelCallSessions, LoseSessions
<1>2. ASSUME NEW u \in Users, NEW m \in Requests, FacadeCall(u, m) \/ Send(u, m)
      PROVE  SessionInv' /\ SessionStep
  BY <1>2, FacadeCallSessions, SendSessions
<1>3. ASSUME NEW u \in Users, NEW n \in Nodes, Connect(u, n)
      PROVE  SessionInv' /\ SessionStep
  BY <1>3, ConnectSessions
<1>4. ASSUME NEW u \in Users, NEW k \in Keys, Get(u, k)
      PROVE  SessionInv' /\ SessionStep
  BY <1>4, GetSessions
<1>5. ASSUME NEW c \in Conns, Handle(c) \/ LoseConnection(c)
      PROVE  SessionInv' /\ SessionStep
  BY <1>5, HandleSessions, LoseSessions
<1>6. ASSUME NEW n \in Nodes, CleanExpired(n) \/ Stop(n) \/ Start(n) \/ Crash(n)
      PROVE  SessionInv' /\ SessionStep
  <2>1. CleanExpired(n) => \E K \in SUBSET Keys : Drop(n, K)
    BY DEF CleanExpired
  <2> QED BY <1>6, <2>1, NodeSessions, CrashSessions
<1>7. ASSUME NEW n \in Nodes, NEW k \in Keys, Expire(n, k) \/ NodeGet(n, k)
      PROVE  SessionInv' /\ SessionStep
  <2>1. NodeGet(n, k) => \E K \in SUBSET Keys : Drop(n, K)
    BY DEF NodeGet
  <2> QED BY <1>7, <2>1, NodeSessions
<1>8. ASSUME NEW n \in Nodes, NEW m \in Requests, NodeCall(n, m)
      PROVE  SessionInv' /\ SessionStep
  BY <1>8, NodeSessions
<1>9. CASE UNCHANGED cacheVars
  <2>1. UNCHANGED <<entries, conns, inbox, outbox, reader, got, call, cancels>>
    BY <1>9 DEF cacheVars
  <2>2. Data' = Data
    BY <2>1 DEF Data
  <2> QED BY <2>1, <2>2, SessionsAside DEF SessionStep, Sessions!vars
<1> QED BY <1>1, <1>2, <1>3, <1>4, <1>5, <1>6, <1>7, <1>8, <1>9 DEF CacheNext

\* A connection of the distributed cache is a session, through crashes of nodes, lost
\* connections and restarts: its writes take effect one by one in the order they were
\* sent, also those of a DistributedCache that connects meanwhile, and a GET is answered
\* with what the writes before it left (CacheClient, CacheNode._handle_connection).
\* The two hypotheses are those without which get() returns answers to other calls.
THEOREM CacheKeepsSessions ==
  ASSUME MaxCancels = 0, OneTaskPerClient
  PROVE  CacheSpec => SessionSpec
<1>1. CacheInit => SessionInv /\ Sessions!Init
  BY SessionsInitially
<1>2. CacheInv /\ SessionInv /\ [CacheNext]_cacheVars => SessionInv'
  BY SessionsStep
<1>3. CacheInv /\ SessionInv /\ [CacheNext]_cacheVars
        => [Sessions!vars' # Sessions!vars /\ Sessions!Next]_(Sessions!vars)
  <2> SUFFICES ASSUME CacheInv, SessionInv, [CacheNext]_cacheVars
               PROVE  Sessions!vars' # Sessions!vars => Sessions!Next
    OBVIOUS
  <2>1. SessionStep
    BY SessionsStep
  <2> QED BY <2>1 DEF SessionStep
<1> QED BY <1>1, <1>2, <1>3, CacheInductive, PTL DEF CacheSpec, SessionSpec, Sessions!Spec

-----------------------------------------------------------------------------
(* The MQTT client: the lengths of packets. *)

Digit == [digit : Nat, more : BOOLEAN]
Numbers == 0..Base * Base * Base
DigitsOf(f, n) ==
  IF n < Base THEN <<[digit |-> n, more |-> FALSE]>>
  ELSE <<[digit |-> n % Base, more |-> TRUE]>> \o f[n \div Base]

\* Division with rest by the base.
LEMMA DivideByBase ==
  ASSUME NEW n \in Nat
  PROVE  /\ n \div Base \in Nat /\ n % Base \in Nat
         /\ n = Base * (n \div Base) + (n % Base)
         /\ n \div Base <= n
         /\ n >= Base => n \div Base < n
<1>1. Base \in Nat /\ Base >= 2
  BY MqttAssumption
<1>2. PICK q, r : q = n \div Base /\ r = n % Base
  OBVIOUS
<1>3. q \in Nat /\ r \in Nat /\ n = Base * q + r
  BY <1>1, <1>2, Z3
<1>4. Base * q >= 2 * q
  BY <1>1, <1>3, Z3
<1>5. q <= n /\ (n >= Base => q < n)
  BY <1>1, <1>3, <1>4
<1> QED BY <1>2, <1>3, <1>5

\* One digit before the digits of the rest.
LEMMA DigitsOfType ==
  ASSUME NEW n \in Nat, NEW f, n >= Base => f[n \div Base] \in Seq(Digit)
  PROVE  DigitsOf(f, n) \in Seq(Digit)
<1>1. Base \in Nat /\ n \div Base \in Nat /\ n % Base \in Nat
  BY DivideByBase, MqttAssumption
<1>2. CASE n < Base
  <2>1. [digit |-> n, more |-> FALSE] \in Digit
    BY DEF Digit
  <2> QED BY <1>2, <2>1 DEF DigitsOf
<1>3. CASE n >= Base
  <2>1. [digit |-> n % Base, more |-> TRUE] \in Digit
    BY <1>1 DEF Digit
  <2>2. PICK x : x = [digit |-> n % Base, more |-> TRUE]
    OBVIOUS
  <2>3. <<x>> \in Seq(Digit)
    BY <2>1, <2>2
  <2>4. <<x>> \o f[n \div Base] \in Seq(Digit)
    BY <1>3, <2>3, ConcatProperties
  <2>5. DigitsOf(f, n) = <<x>> \o f[n \div Base]
    BY <1>1, <1>3, <2>2 DEF DigitsOf
  <2> QED BY <2>4, <2>5
<1> QED BY <1>1, <1>2, <1>3

\* The definition of EncodeLength has a solution: up to any number, else there were a
\* first one where it has none, and the solution below it could be extended.
LEMMA DigitsExist ==
  ASSUME NEW m \in Nat
  PROVE  \E f \in [0..m -> Seq(Digit)] : \A n \in 0..m : f[n] = DigitsOf(f, n)
<1> DEFINE Solved(k) == \E f \in [0..k -> Seq(Digit)] : \A n \in 0..k : f[n] = DigitsOf(f, n)
           Bad == {k \in Nat : ~Solved(k)}
<1>1. SUFFICES ASSUME Bad # {} PROVE FALSE
  <2>1. m \notin Bad => Solved(m)
    OBVIOUS
  <2> QED BY <2>1
<1>2. PICK k \in Bad : \A j \in Bad : k <= j
  <2>1. Bad \in SUBSET Nat
    OBVIOUS
  <2> HIDE DEF Bad
  <2> QED BY <1>1, <2>1, LeastExists
<1>3. PICK g : g \in [0..k - 1 -> Seq(Digit)] /\ \A n \in 0..k - 1 : g[n] = DigitsOf(g, n)
  <2>1. CASE k = 0
    <3> DEFINE e == [n \in 0..k - 1 |-> <<>>]
    <3>1. e \in [0..k - 1 -> Seq(Digit)] /\ 0..k - 1 = {}
      BY <2>1
    <3> QED BY <3>1
  <2>2. CASE k # 0
    <3>1. k - 1 \in Nat /\ ~(k <= k - 1)
      BY <2>2
    <3>2. k - 1 \notin Bad
      BY <1>2, <3>1
    <3>3. Solved(k - 1)
      BY <3>1, <3>2
    <3> QED BY <3>3
  <2> QED BY <2>1, <2>2
<1>4. k \in Nat /\ Base \in Nat \ {0}
  BY MqttAssumption
<1> DEFINE f == [n \in 0..k |-> IF n = k THEN DigitsOf(g, k) ELSE g[n]]
<1>5. DigitsOf(g, k) \in Seq(Digit)
  <2>1. k >= Base => k \div Base \in 0..k - 1
    BY <1>4, DivideByBase
  <2> QED BY <1>3, <1>4, <2>1, DigitsOfType
<1>6. f \in [0..k -> Seq(Digit)]
  BY <1>3, <1>4, <1>5
<1>7. ASSUME NEW n \in 0..k PROVE f[n] = DigitsOf(f, n)
  <2>1. n >= Base => n \div Base \in 0..k - 1 /\ f[n \div Base] = g[n \div Base]
    <3>1. n >= Base => n \div Base \in 0..k /\ n \div Base # k
      BY <1>4, DivideByBase
    <3> QED BY <1>4, <3>1
  <2>2. DigitsOf(f, n) = DigitsOf(g, n)
    <3> HIDE DEF f
    <3> QED BY <1>4, <2>1 DEF DigitsOf
  <2>3. n # k => n \in 0..k - 1
    BY <1>4
  <2>4. f[n] = IF n = k THEN DigitsOf(g, k) ELSE g[n]
    OBVIOUS
  <2> HIDE DEF f
  <2> QED BY <1>3, <2>2, <2>3, <2>4
<1>8. Solved(k)
  <2> HIDE DEF f
  <2> QED BY <1>6, <1>7
<1> QED BY <1>2, <1>8

\* So EncodeLength is what its definition says.
LEMMA EncodeLengthIs ==
  /\ EncodeLength \in [Numbers -> Seq(Digit)]
  /\ \A n \in Numbers : EncodeLength[n] = DigitsOf(EncodeLength, n)
<1>1. PICK m \in Nat : m = Base * Base * Base
  <2>1. Base \in Nat /\ Base * Base \in Nat
    BY MqttAssumption, Z3
  <2> QED BY <2>1, Z3
<1>2. PICK f \in [0..m -> Seq(Digit)] : \A n \in 0..m : f[n] = DigitsOf(f, n)
  BY DigitsExist
<1> DEFINE Body1(g, n) == IF n < Base THEN <<[digit |-> n, more |-> FALSE]>>
                          ELSE <<[digit |-> n % Base, more |-> TRUE]>> \o g[n \div Base]
<1>3. f = [n \in 0..Base * Base * Base |-> Body1(f, n)]
  BY <1>1, <1>2 DEF DigitsOf
<1>4. EncodeLength = [n \in 0..Base * Base * Base |-> Body1(EncodeLength, n)]
  BY <1>3, Zenon DEF EncodeLength
<1>5. /\ DOMAIN EncodeLength = 0..m
      /\ \A n \in 0..m : EncodeLength[n] = DigitsOf(EncodeLength, n)
  <2>1. PICK g : g = EncodeLength
    OBVIOUS
  <2>2. g = [n \in 0..m |-> DigitsOf(g, n)]
    BY <1>1, <1>4, <2>1, Zenon DEF DigitsOf
  <2> QED BY <2>1, <2>2
<1> DEFINE Bad == {n \in 0..m : EncodeLength[n] \notin Seq(Digit)}
<1>6. ASSUME Bad # {} PROVE FALSE
  <2>1. Bad \in SUBSET Nat
    OBVIOUS
  <2>2. PICK k \in Bad : \A j \in Bad : k <= j
    <3> HIDE DEF Bad
    <3> QED BY <1>6, <2>1, LeastExists
  <2>3. k \in 0..m /\ k \in Nat /\ EncodeLength[k] \notin Seq(Digit)
    OBVIOUS
  <2>4. k >= Base => k \div Base \in 0..m /\ k \div Base \notin Bad
    <3>1. k >= Base => k \div Base \in Nat /\ k \div Base < k
      BY <2>3, DivideByBase, MqttAssumption
    <3>2. \A j \in Bad : j >= k
      BY <2>1, <2>2, <2>3
    <3> HIDE DEF Bad
    <3> QED BY <2>3, <3>1, <3>2
  <2>5. k >= Base => EncodeLength[k \div Base] \in Seq(Digit)
    BY <2>4
  <2> QED BY <1>5, <2>3, <2>5, DigitsOfType
<1>7. \A n \in 0..m : EncodeLength[n] \in Seq(Digit)
  BY <1>6
<1>8. EncodeLength \in [0..m -> Seq(Digit)]
  <2>1. EncodeLength = [n \in 0..m |-> EncodeLength[n]]
    BY <1>1, <1>4
  <2> QED BY <1>7, <2>1
<1> QED BY <1>1, <1>5, <1>8 DEF Numbers

-----------------------------------------------------------------------------
(* The bytes of a packet. *)

PacketKinds == {"publish", "ack", "accepted", "refused"}
Bytes == [part : {"first", "length", "body"}, kind : PacketKinds, id : Nat \X Nat,
          digit : Nat, more : BOOLEAN]
LengthBytes(kind, id, n) ==
  [i \in DOMAIN EncodeLength[n] |-> Byte("length", kind, <<id, 0>>, EncodeLength[n][i])]

\* A byte has its type.
LEMMA ByteType ==
  ASSUME NEW place \in {"first", "length", "body"}, NEW kind \in PacketKinds,
         NEW id \in Nat, NEW i \in Nat, NEW l \in Digit
  PROVE  /\ Byte(place, kind, <<id, i>>, l) \in Bytes
         /\ Byte(place, kind, <<id, i>>, l).kind = kind
         /\ Byte(place, kind, <<id, i>>, l).digit = l.digit
         /\ Byte(place, kind, <<id, i>>, l).more = l.more
<1>1. PICK p : p = <<id, i>>
  OBVIOUS
<1>2. p \in Nat \X Nat
  BY <1>1
<1>3. PICK d \in Nat, m \in BOOLEAN : d = l.digit /\ m = l.more
  BY DEF Digit
<1>4. Byte(place, kind, p, l) = [part |-> place, kind |-> kind, id |-> p,
                                digit |-> d, more |-> m]
  BY <1>3 DEF Byte
<1>5. Byte(place, kind, p, l) \in Bytes
  <2>1. [part |-> place, kind |-> kind, id |-> p, digit |-> d, more |-> m] \in Bytes
    BY <1>2 DEF Bytes
  <2> QED BY <1>4, <2>1
<1> QED BY <1>1, <1>3, <1>4, <1>5

\* The digits are those of a sequence.
LEMMA DigitsProperties ==
  ASSUME NEW n \in Numbers
  PROVE  /\ n \in Nat
         /\ Len(EncodeLength[n]) \in Nat
         /\ DOMAIN EncodeLength[n] = 1..Len(EncodeLength[n])
         /\ \A i \in 1..Len(EncodeLength[n]) : EncodeLength[n][i] \in Digit
<1>1. PICK d : d = EncodeLength[n]
  OBVIOUS
<1>2. d \in Seq(Digit)
  BY <1>1, EncodeLengthIs
<1>3. Len(d) \in Nat /\ DOMAIN d = 1..Len(d) /\ \A i \in 1..Len(d) : d[i] \in Digit
  BY <1>2, LenProperties, ElementOfSeq
<1> QED BY <1>1, <1>3 DEF Numbers

\* So are the bytes of a length, and those of a body.
LEMMA LengthBytesType ==
  ASSUME NEW kind \in PacketKinds, NEW id \in Nat, NEW n \in Numbers
  PROVE  /\ LengthBytes(kind, id, n) \in Seq(Bytes)
         /\ Len(LengthBytes(kind, id, n)) = Len(EncodeLength[n])
         /\ \A i \in 1..Len(EncodeLength[n]) :
              LengthBytes(kind, id, n)[i] = Byte("length", kind, <<id, 0>>, EncodeLength[n][i])
<1>1. PICK k \in Nat : k = Len(EncodeLength[n])
  BY DigitsProperties
<1>2. PICK s : s = LengthBytes(kind, id, n)
  OBVIOUS
<1>3. s = [i \in 1..k |-> Byte("length", kind, <<id, 0>>, EncodeLength[n][i])]
  BY <1>1, <1>2, DigitsProperties DEF LengthBytes
<1>4. \A i \in 1..k : Byte("length", kind, <<id, 0>>, EncodeLength[n][i]) \in Bytes
  BY <1>1, DigitsProperties, ByteType
<1>5. s \in Seq(Bytes) /\ Len(s) = k
  BY <1>3, <1>4, SMTT(30)
<1>6. \A i \in 1..k : s[i] = Byte("length", kind, <<id, 0>>, EncodeLength[n][i])
  BY <1>3
<1> QED BY <1>1, <1>2, <1>5, <1>6

\* The rest of a packet is as long as its length says.
LEMMA BodyType ==
  ASSUME NEW kind \in PacketKinds, NEW id \in Nat, NEW n \in Nat
  PROVE  Body(kind, id, n) \in Seq(Bytes) /\ Len(Body(kind, id, n)) = n
<1>1. PICK s : s = Body(kind, id, n)
  OBVIOUS
<1>2. s = [i \in 1..n |-> Byte("body", kind, <<id, i>>, Blank)]
  BY <1>1 DEF Body
<1>3. Blank \in Digit
  BY DEF Blank, Digit
<1>4. \A i \in 1..n : Byte("body", kind, <<id, i>>, Blank) \in Bytes
  BY <1>3, ByteType
<1>5. s \in Seq(Bytes) /\ Len(s) = n
  BY <1>2, <1>4
<1> QED BY <1>1, <1>5

\* A packet is a byte, the digits of a length and a body of that length.
LEMMA PacketParts ==
  ASSUME NEW kind \in PacketKinds, NEW id \in Nat, NEW n \in Numbers
  PROVE  \E f \in Bytes : /\ f.kind = kind
                          /\ Packet(kind, id, n) =
                               <<f>> \o (LengthBytes(kind, id, n) \o Body(kind, id, n))
                          /\ Packet(kind, id, n) \in Seq(Bytes)
<1>1. PICK f : f = Byte("first", kind, <<id, 0>>, Blank)
  OBVIOUS
<1>2. f \in Bytes /\ f.kind = kind
  <2>1. Blank \in Digit
    BY DEF Blank, Digit
  <2> QED BY <1>1, <2>1, ByteType
<1>3. PICK l, b : l = LengthBytes(kind, id, n) /\ b = Body(kind, id, n)
  OBVIOUS
<1>4. l \in Seq(Bytes) /\ b \in Seq(Bytes)
  <2>1. n \in Nat
    BY DigitsProperties
  <2> QED BY <1>3, <2>1, LengthBytesType, BodyType
<1>5. <<f>> \in Seq(Bytes)
  BY <1>2
<1>6. Packet(kind, id, n) = (<<f>> \o l) \o b
  BY <1>1, <1>3 DEF Packet, LengthBytes
<1>7. (<<f>> \o l) \o b = <<f>> \o (l \o b) /\ <<f>> \o (l \o b) \in Seq(Bytes)
  <2>1. PICK g : g = <<f>>
    OBVIOUS
  <2>2. g \in Seq(Bytes)
    BY <1>5, <2>1
  <2>3. (g \o l) \o b = g \o (l \o b)
    BY <1>4, <2>2, ConcatAssociative
  <2>4. l \o b \in Seq(Bytes) /\ g \o (l \o b) \in Seq(Bytes)
    BY <1>4, <2>2, ConcatProperties
  <2> QED BY <2>1, <2>3, <2>4
<1> QED BY <1>2, <1>3, <1>6, <1>7

\* An element before a sequence is its first one.
LEMMA PrependProperties ==
  ASSUME NEW S, NEW e \in S, NEW s \in Seq(S)
  PROVE  /\ <<e>> \o s \in Seq(S) /\ <<e>> \o s # <<>>
         /\ Len(<<e>> \o s) = Len(s) + 1
         /\ (<<e>> \o s)[1] = e /\ Tail(<<e>> \o s) = s
         /\ \A i \in 1..Len(s) : (<<e>> \o s)[i + 1] = s[i]
<1>1. PICK g : g = <<e>>
  OBVIOUS
<1>2. g \in Seq(S) /\ Len(g) = 1 /\ g[1] = e
  BY <1>1
<1>3. PICK t : t = g \o s
  OBVIOUS
<1>4. Len(s) \in Nat
  BY LenProperties
<1>5. /\ t \in Seq(S) /\ Len(t) = 1 + Len(s)
      /\ \A i \in 1..1 + Len(s) : t[i] = IF i <= 1 THEN g[i] ELSE s[i - 1]
  <2>1. /\ t \in Seq(S) /\ Len(t) = Len(g) + Len(s)
        /\ \A i \in 1..Len(g) + Len(s) : t[i] = IF i <= Len(g) THEN g[i] ELSE s[i - Len(g)]
    BY <1>2, <1>3, ConcatProperties, Zenon
  <2>2. PICK n : n = Len(g)
    OBVIOUS
  <2>3. n = 1
    BY <1>2, <2>2
  <2>4. /\ t \in Seq(S) /\ Len(t) = n + Len(s)
        /\ \A i \in 1..n + Len(s) : t[i] = IF i <= n THEN g[i] ELSE s[i - n]
    BY <2>1, <2>2, Zenon
  <2> QED BY <2>3, <2>4
<1>6. t[1] = e /\ \A i \in 1..Len(s) : t[i + 1] = s[i]
  BY <1>2, <1>4, <1>5
<1>7. t # <<>>
  BY <1>4, <1>5, EmptySeq
<1>8. Tail(t) = s
  <2>1. PICK u : u = Tail(t)
    OBVIOUS
  <2>2. u \in Seq(S) /\ Len(u) = Len(t) - 1 /\ \A i \in 1..Len(u) : u[i] = t[i + 1]
    BY <1>5, <1>7, <2>1, HeadTailProperties
  <2>3. Len(u) = Len(s)
    BY <1>4, <1>5, <2>2
  <2>4. \A i \in 1..Len(u) : u[i] = s[i]
    BY <1>6, <2>2, <2>3
  <2>5. u = s
    BY <2>2, <2>3, <2>4, SeqEqual
  <2> QED BY <2>1, <2>5
<1>9. Len(t) = Len(s) + 1
  BY <1>4, <1>5
<1> QED BY <1>1, <1>3, <1>5, <1>6, <1>7, <1>8, <1>9

\* The bytes of a length: one that is not marked, or a marked one and the bytes of what
\* the base leaves.
LEMMA LengthBytesStep ==
  ASSUME NEW kind \in PacketKinds, NEW id \in Nat, NEW n \in Numbers
  PROVE  \E e \in Bytes :
           /\ n < Base => /\ e.digit = n /\ e.more = FALSE
                          /\ LengthBytes(kind, id, n) = <<e>>
           /\ n >= Base => /\ n \div Base \in Numbers /\ e.digit = n % Base /\ e.more = TRUE
                           /\ LengthBytes(kind, id, n) =
                                <<e>> \o LengthBytes(kind, id, n \div Base)
<1>1. PICK s : s = LengthBytes(kind, id, n)
  OBVIOUS
<1>2. PICK d : d = EncodeLength[n]
  OBVIOUS
<1>3. /\ s \in Seq(Bytes) /\ Len(s) = Len(d) /\ Len(d) \in Nat
      /\ \A i \in 1..Len(d) : s[i] = Byte("length", kind, <<id, 0>>, d[i])
  BY <1>1, <1>2, LengthBytesType, DigitsProperties
<1>4. /\ n \in Nat /\ Base \in Nat /\ n % Base \in Nat /\ n \div Base \in Nat
      /\ n \div Base <= n
  BY DigitsProperties, DivideByBase, MqttAssumption
<1>5. d = DigitsOf(EncodeLength, n)
  BY <1>2, EncodeLengthIs
<1>6. CASE n < Base
  <2>1. PICK l : l = [digit |-> n, more |-> FALSE]
    OBVIOUS
  <2>2. d = <<l>> /\ l \in Digit /\ l.digit = n /\ l.more = FALSE
    BY <1>4, <1>5, <1>6, <2>1 DEF DigitsOf, Digit
  <2>3. PICK e : e = Byte("length", kind, <<id, 0>>, l)
    OBVIOUS
  <2>4. e \in Bytes /\ e.digit = n /\ e.more = FALSE
    BY <2>2, <2>3, ByteType
  <2>5. Len(d) = 1 /\ d[1] = l
    BY <2>2
  <2>6. Len(s) = 1 /\ s[1] = e
    BY <1>3, <2>3, <2>5
  <2>7. PICK g : g = <<e>>
    OBVIOUS
  <2>8. g \in Seq(Bytes) /\ Len(g) = 1 /\ g[1] = e
    BY <2>4, <2>7
  <2>9. \A i \in 1..Len(s) : s[i] = g[i]
    BY <2>6, <2>8
  <2>10. s = g
    BY <1>3, <2>6, <2>8, <2>9, SeqEqual
  <2>11. ~(n >= Base)
    BY <1>4, <1>6
  <2> e \in Bytes
    BY <2>4
  <2> WITNESS e \in Bytes
  <2> QED BY <1>1, <2>4, <2>7, <2>10, <2>11
<1>7. CASE n >= Base
  <2>1. PICK l : l = [digit |-> n % Base, more |-> TRUE]
    OBVIOUS
  <2>2. l \in Digit /\ l.digit = n % Base /\ l.more = TRUE
    BY <1>4, <2>1 DEF Digit
  <2>3. PICK q : q = n \div Base
    OBVIOUS
  <2>4. q \in Numbers
    BY <1>4, <2>3 DEF Numbers
  <2>5. PICK c, r : c = EncodeLength[q] /\ r = LengthBytes(kind, id, q)
    OBVIOUS
  <2>6. /\ r \in Seq(Bytes) /\ Len(r) = Len(c) /\ Len(c) \in Nat /\ c \in Seq(Digit)
        /\ \A i \in 1..Len(c) : r[i] = Byte("length", kind, <<id, 0>>, c[i])
    BY <2>4, <2>5, LengthBytesType, DigitsProperties, EncodeLengthIs
  <2>7. d = <<l>> \o c
    BY <1>4, <1>5, <1>7, <2>1, <2>3, <2>5 DEF DigitsOf
  <2>8. Len(d) = Len(c) + 1 /\ d[1] = l /\ \A i \in 1..Len(c) : d[i + 1] = c[i]
    BY <2>2, <2>6, <2>7, PrependProperties
  <2>9. PICK e : e = Byte("length", kind, <<id, 0>>, l)
    OBVIOUS
  <2>10. e \in Bytes /\ e.digit = n % Base /\ e.more = TRUE
    BY <2>2, <2>9, ByteType
  <2>11. PICK t : t = <<e>> \o r
    OBVIOUS
  <2>12. /\ t \in Seq(Bytes) /\ Len(t) = Len(r) + 1 /\ t[1] = e
         /\ \A i \in 1..Len(r) : t[i + 1] = r[i]
    BY <2>6, <2>10, <2>11, PrependProperties
  <2>13. PICK m \in Nat : m = Len(c)
    BY <2>6
  <2>14. Len(d) = m + 1 /\ Len(s) = m + 1 /\ Len(r) = m /\ Len(t) = m + 1
    BY <1>3, <2>6, <2>8, <2>12, <2>13
  <2>15. s[1] = t[1]
    <3>1. s[1] = Byte("length", kind, <<id, 0>>, d[1])
      <4>1. 1 \in 1..Len(d)
        BY <2>13, <2>14
      <4> QED BY <1>3, <4>1
    <3> QED BY <2>8, <2>9, <2>12, <3>1
  <2>16. ASSUME NEW i \in 1..m PROVE s[i + 1] = t[i + 1]
    <3>1. i + 1 \in 1..Len(d)
      BY <2>13, <2>14
    <3>2. s[i + 1] = Byte("length", kind, <<id, 0>>, d[i + 1])
      BY <1>3, <3>1
    <3>3. d[i + 1] = c[i] /\ t[i + 1] = r[i] /\ r[i] = Byte("length", kind, <<id, 0>>, c[i])
      BY <2>6, <2>8, <2>12, <2>13, <2>14
    <3> QED BY <3>2, <3>3
  <2>17. \A i \in 1..Len(s) : s[i] = t[i]
    <3>1. \A i \in 1..m + 1 : i = 1 \/ i - 1 \in 1..m
      BY <2>13
    <3>2. ASSUME NEW i \in 1..m + 1, i - 1 \in 1..m PROVE s[i] = t[i]
      <4>1. PICK j \in 1..m : j = i - 1
        BY <3>2
      <4>2. i = j + 1
        BY <2>13, <4>1
      <4> QED BY <2>16, <4>2
    <3> QED BY <2>14, <2>15, <3>1, <3>2
  <2>18. s = t
    BY <1>3, <2>12, <2>14, <2>17, SeqEqual
  <2>19. LengthBytes(kind, id, n) = <<e>> \o LengthBytes(kind, id, n \div Base)
    BY <1>1, <2>3, <2>5, <2>11, <2>18
  <2>20. ~(n < Base)
    BY <1>4, <1>7
  <2> e \in Bytes
    BY <2>10
  <2> WITNESS e \in Bytes
  <2> QED BY <2>3, <2>4, <2>10, <2>19, <2>20
<1>8. n < Base \/ n >= Base
  BY <1>4
<1> QED BY <1>6, <1>7, <1>8

-----------------------------------------------------------------------------
(* What a reader faces. *)

\* x is a packet, and b its body.
IsPacket(x, b) ==
  \E kind \in PacketKinds, id \in Nat, n \in Numbers :
    b = Body(kind, id, n) /\ x = Packet(kind, id, n)

\* A task that reads, in the state t, faces the bytes s: what is left of the packet that
\* has the body b, and then rest.
Faces(t, s, b, rest) ==
  \/ t.pc = "first" /\ \E x : IsPacket(x, b) /\ s = x \o rest
  \/ /\ t.pc = "length"
     /\ \E kind \in PacketKinds, id \in Nat, n \in Numbers :
          /\ t.value + t.multiplier * n = Len(b)
          /\ s = (LengthBytes(kind, id, n) \o b) \o rest
  \/ t.pc = "body" /\ t.value = Len(b) /\ s = b \o rest

\* A packet is a sequence of bytes and not empty; the length of its body is a number.
LEMMA PacketProperties ==
  ASSUME NEW x, NEW b, IsPacket(x, b)
  PROVE  /\ x \in Seq(Bytes) /\ x # <<>>
         /\ b \in Seq(Bytes) /\ Len(b) \in Numbers /\ Len(b) \in Nat
<1>1. PICK kind \in PacketKinds, id \in Nat, n \in Numbers :
        b = Body(kind, id, n) /\ x = Packet(kind, id, n)
  BY DEF IsPacket
<1>2. n \in Nat
  BY DigitsProperties
<1>3. b \in Seq(Bytes) /\ Len(b) = n
  BY <1>1, <1>2, BodyType
<1>4. PICK f \in Bytes : /\ x = <<f>> \o (LengthBytes(kind, id, n) \o b)
                         /\ x \in Seq(Bytes)
  BY <1>1, PacketParts
<1>5. LengthBytes(kind, id, n) \o b \in Seq(Bytes)
  BY <1>3, LengthBytesType, ConcatProperties
<1>6. x # <<>>
  <2>1. PICK r \in Seq(Bytes) : r = LengthBytes(kind, id, n) \o b
    BY <1>5
  <2> QED BY <1>4, <2>1, PrependProperties
<1> QED BY <1>2, <1>3, <1>4, <1>6

\* Bytes are joined in any order.
LEMMA JoinBytes ==
  \A x, w, y \in Seq(Bytes) : (x \o w) \o y = x \o (w \o y)
BY ConcatAssociative

\* The first byte of a stream and the others, where a packet or what is left of it comes
\* before the rest.
LEMMA StreamHead ==
  ASSUME NEW e \in Bytes, NEW x \in Seq(Bytes), NEW b \in Seq(Bytes), NEW rest \in Seq(Bytes),
         NEW s, s = ((<<e>> \o x) \o b) \o rest
  PROVE  s \in Seq(Bytes) /\ s # <<>> /\ s[1] = e /\ Tail(s) = (x \o b) \o rest
<1>1. PICK g : g = <<e>>
  OBVIOUS
<1>2. g \in Seq(Bytes)
  BY <1>1
<1>3. PICK y \in Seq(Bytes) : y = (x \o b) \o rest
  <2>1. x \o b \in Seq(Bytes)
    BY ConcatProperties
  <2>2. (x \o b) \o rest \in Seq(Bytes)
    BY <2>1, ConcatProperties
  <2> QED BY <2>2
<1>4. s = g \o y
  <2>1. PICK z : z = x \o b
    OBVIOUS
  <2>2. z \in Seq(Bytes)
    BY <2>1, ConcatProperties
  <2>3. (g \o x) \o b = g \o z
    BY <1>2, <2>1, JoinBytes
  <2>4. y = z \o rest
    BY <1>3, <2>1
  <2>5. (g \o z) \o rest = g \o y
    BY <1>2, <2>2, <2>4, JoinBytes, SMTT(30)
  <2> QED BY <1>1, <2>3, <2>5
<1>5. g \o y \in Seq(Bytes) /\ g \o y # <<>> /\ (g \o y)[1] = e /\ Tail(g \o y) = y
  BY <1>1, PrependProperties
<1> QED BY <1>3, <1>4, <1>5

\* The first byte of a packet is read: the length is next.
LEMMA ReadFirstFaces ==
  ASSUME NEW t, NEW s, NEW b, NEW rest \in Seq(Bytes), Faces(t, s, b, rest), t.pc = "first",
         NEW u, u.pc = "length", u.value = 0, u.multiplier = 1
  PROVE  /\ s \in Seq(Bytes) /\ s # <<>> /\ s[1].kind \in PacketKinds
         /\ Faces(u, Tail(s), b, rest)
<1>1. PICK x : IsPacket(x, b) /\ s = x \o rest
  BY DEF Faces
<1>2. PICK kind \in PacketKinds, id \in Nat, n \in Numbers :
        b = Body(kind, id, n) /\ x = Packet(kind, id, n)
  BY <1>1 DEF IsPacket
<1>3. n \in Nat /\ b \in Seq(Bytes) /\ Len(b) = n
  BY <1>2, DigitsProperties, BodyType
<1>4. PICK l \in Seq(Bytes) : l = LengthBytes(kind, id, n)
  BY LengthBytesType
<1>5. PICK f \in Bytes : f.kind = kind /\ x = <<f>> \o (l \o b)
  <2>1. PICK f \in Bytes : f.kind = kind /\ x = <<f>> \o (LengthBytes(kind, id, n) \o b)
    BY <1>2, PacketParts, ZenonT(40)
  <2> QED BY <1>4, <2>1
<1>6. s = ((<<f>> \o l) \o b) \o rest
  <2>1. PICK g : g = <<f>>
    OBVIOUS
  <2>2. g \in Seq(Bytes)
    BY <2>1
  <2>3. (g \o l) \o b = g \o (l \o b)
    BY <1>3, <2>2, JoinBytes
  <2> QED BY <1>1, <1>5, <2>1, <2>3
<1>7. s \in Seq(Bytes) /\ s # <<>> /\ s[1] = f /\ Tail(s) = (l \o b) \o rest
  <2>1. PICK y : y = (l \o b) \o rest
    OBVIOUS
  <2>2. PICK z : z = ((<<f>> \o l) \o b) \o rest
    OBVIOUS
  <2>3. z \in Seq(Bytes) /\ z # <<>> /\ z[1] = f /\ Tail(z) = y
    BY <1>3, <2>1, <2>2, StreamHead, SMTT(30)
  <2> QED BY <1>6, <2>1, <2>2, <2>3
<1>8. 0 + 1 * n = Len(b)
  BY <1>3
<1>9. Faces(u, Tail(s), b, rest)
  BY <1>4, <1>7, <1>8 DEF Faces
<1> QED BY <1>5, <1>7, <1>9

\* A digit more of a number.
LEMMA NextDigit ==
  ASSUME NEW v \in Nat, NEW m \in Nat, NEW base \in Nat, NEW q \in Nat, NEW r \in Nat
  PROVE  /\ v + r * m \in Nat /\ m * base \in Nat
         /\ (v + r * m) + (m * base) * q = v + m * (base * q + r)
<1>1. m * (base * q + r) = (m * base) * q + r * m
  BY Z3
<1>2. r * m \in Nat /\ m * base \in Nat /\ (m * base) * q \in Nat
  BY Z3
<1>3. PICK c \in Nat, d \in Nat : c = r * m /\ d = (m * base) * q
  BY <1>2
<1>4. (v + c) + d = v + (d + c) /\ v + c \in Nat
  OBVIOUS
<1> QED BY <1>1, <1>2, <1>3, <1>4

\* A byte of the length is read: the body is next after the last one, the length still
\* after the others.
LEMMA ReadLengthFaces ==
  ASSUME NEW t, NEW s, NEW b \in Seq(Bytes), NEW rest \in Seq(Bytes), Faces(t, s, b, rest),
         t.pc = "length", t.value \in Nat, t.multiplier \in Nat
  PROVE  /\ s \in Seq(Bytes) /\ s # <<>> /\ s[1].digit \in Nat /\ s[1].more \in BOOLEAN
         /\ t.value + s[1].digit * t.multiplier \in Nat /\ t.multiplier * Base \in Nat
         /\ s[1].more => \A u : /\ u.pc = "length"
                                /\ u.value = t.value + s[1].digit * t.multiplier
                                /\ u.multiplier = t.multiplier * Base
                                => Faces(u, Tail(s), b, rest)
         /\ ~s[1].more => \A u : /\ u.pc = "body"
                                 /\ u.value = t.value + s[1].digit * t.multiplier
                                 => Faces(u, Tail(s), b, rest)
<1>1. PICK kind \in PacketKinds, id \in Nat, n \in Numbers :
        /\ t.value + t.multiplier * n = Len(b)
        /\ s = (LengthBytes(kind, id, n) \o b) \o rest
  BY DEF Faces
<1>2. PICK v \in Nat, m \in Nat : v = t.value /\ m = t.multiplier
  OBVIOUS
<1>3. PICK e \in Bytes :
        /\ n < Base => /\ e.digit = n /\ e.more = FALSE
                       /\ LengthBytes(kind, id, n) = <<e>>
        /\ n >= Base => /\ n \div Base \in Numbers /\ e.digit = n % Base /\ e.more = TRUE
                        /\ LengthBytes(kind, id, n) =
                             <<e>> \o LengthBytes(kind, id, n \div Base)
  BY LengthBytesStep
<1>4. n \in Nat /\ Base \in Nat /\ e.digit \in Nat /\ e.more \in BOOLEAN
  BY DigitsProperties, MqttAssumption DEF Bytes
<1>5. CASE n < Base
  <2>1. e.digit = n /\ e.more = FALSE /\ s = (<<e>> \o b) \o rest
    BY <1>1, <1>3, <1>5
  <2>2. s \in Seq(Bytes) /\ s # <<>> /\ s[1] = e /\ Tail(s) = b \o rest
    <3>1. PICK g : g = <<e>>
      OBVIOUS
    <3>2. g \in Seq(Bytes)
      BY <3>1
    <3>3. PICK y : y = b \o rest
      OBVIOUS
    <3>4. y \in Seq(Bytes)
      BY <3>3, ConcatProperties
    <3>5. s = g \o y
      BY <2>1, <3>1, <3>2, <3>3, JoinBytes
    <3>6. g \o y \in Seq(Bytes) /\ g \o y # <<>> /\ (g \o y)[1] = e /\ Tail(g \o y) = y
      BY <3>1, <3>4, PrependProperties
    <3> QED BY <3>3, <3>5, <3>6
  <2>3. v + n * m = v + m * n /\ v + n * m \in Nat /\ m * Base \in Nat
    BY <1>4, Z3
  <2>4. v + n * m = Len(b)
    BY <1>1, <1>2, <2>3
  <2>5. ASSUME NEW u, u.pc = "body", u.value = v + n * m PROVE Faces(u, Tail(s), b, rest)
    BY <2>2, <2>4, <2>5 DEF Faces
  <2> QED BY <1>2, <1>4, <2>1, <2>2, <2>3, <2>5
<1>6. CASE n >= Base
  <2>1. PICK l \in Seq(Bytes), q \in Numbers : q = n \div Base /\ l = LengthBytes(kind, id, q)
    BY <1>3, <1>6, LengthBytesType
  <2>2. e.digit = n % Base /\ e.more = TRUE /\ s = ((<<e>> \o l) \o b) \o rest
    BY <1>1, <1>3, <1>6, <2>1
  <2>3. s \in Seq(Bytes) /\ s # <<>> /\ s[1] = e /\ Tail(s) = (l \o b) \o rest
    <3>1. PICK y : y = (l \o b) \o rest
      OBVIOUS
    <3>2. PICK z : z = ((<<e>> \o l) \o b) \o rest
      OBVIOUS
    <3>3. z \in Seq(Bytes) /\ z # <<>> /\ z[1] = e /\ Tail(z) = y
      BY <3>1, <3>2, StreamHead, SMTT(30)
    <3> QED BY <2>2, <3>1, <3>2, <3>3
  <2>4. /\ v + (n % Base) * m \in Nat /\ m * Base \in Nat
        /\ (v + (n % Base) * m) + (m * Base) * q = v + m * n
    <3>1. PICK c : c = n % Base
      OBVIOUS
    <3>2. c \in Nat /\ n = Base * q + c
      BY <1>4, <2>1, <3>1, DivideByBase
    <3>3. PICK base \in Nat : base = Base
      BY <1>4
    <3>4. /\ v + c * m \in Nat /\ m * base \in Nat
          /\ (v + c * m) + (m * base) * q = v + m * (base * q + c)
      <4>1. q \in Nat
        BY DEF Numbers
      <4> QED BY <3>2, <4>1, NextDigit
    <3> QED BY <3>1, <3>2, <3>3, <3>4
  <2>5. ASSUME NEW u, u.pc = "length", u.value = v + (n % Base) * m, u.multiplier = m * Base
        PROVE  Faces(u, Tail(s), b, rest)
    <3>1. u.value + u.multiplier * q = Len(b)
      BY <1>1, <1>2, <2>4, <2>5
    <3> QED BY <2>1, <2>3, <2>5, <3>1 DEF Faces
  <2> QED BY <1>2, <1>4, <2>2, <2>3, <2>4, <2>5
<1> QED BY <1>4, <1>5, <1>6

-----------------------------------------------------------------------------
(* A stream of packets. *)

\* s is the packets whose bodies are t[a + 1], t[a + 2] and so on, to the last of t: r[j]
\* is what is left of it after the packet of t[j].
Framed(s, a, t) ==
  \E r \in [Nat -> Seq(Bytes)] :
    /\ r[a] = s /\ r[Len(t)] = <<>>
    /\ \A j \in a + 1..Len(t) : \E x : IsPacket(x, t[j]) /\ r[j - 1] = x \o r[j]

\* Nothing is no packets.
LEMMA FramedEmpty == Framed(<<>>, 0, <<>>)
<1>1. PICK t : t = <<>> /\ t \in Seq(Seq(Bytes)) /\ Len(t) = 0
  BY EmptySeq
<1> DEFINE r == [j \in Nat |-> <<>>]
<1>2. r \in [Nat -> Seq(Bytes)] /\ r[0] = <<>>
  BY EmptySeq
<1>3. 0 + 1..Len(t) = {}
  BY <1>1
<1> HIDE DEF r
<1>4. Framed(<<>>, 0, t)
  BY <1>1, <1>2, <1>3 DEF Framed
<1> QED BY <1>1, <1>4

\* A stream that is not at its end begins with a packet.
LEMMA FramedHead ==
  ASSUME NEW t \in Seq(Seq(Bytes)), NEW a \in 0..Len(t), NEW s, Framed(s, a, t), s # <<>>
  PROVE  /\ a + 1 \in 1..Len(t)
         /\ \E x, rest \in Seq(Bytes) : /\ IsPacket(x, t[a + 1]) /\ s = x \o rest
                                        /\ Framed(rest, a + 1, t)
<1>1. PICK n \in Nat : n = Len(t)
  BY LenProperties
<1>2. PICK r \in [Nat -> Seq(Bytes)] :
        /\ r[a] = s /\ r[n] = <<>>
        /\ \A j \in a + 1..n : \E x : IsPacket(x, t[j]) /\ r[j - 1] = x \o r[j]
  BY <1>1 DEF Framed
<1>3. a \in Nat /\ a <= n
  BY <1>1
<1>4. a + 1 \in 1..n /\ a + 1 \in a + 1..n /\ (a + 1) - 1 = a /\ a + 1 \in Nat
  <2>1. a # n
    BY <1>2
  <2> QED BY <1>3, <2>1
<1>5. PICK b \in Nat : b = a + 1
  BY <1>4
<1>6. PICK x : IsPacket(x, t[b]) /\ r[b - 1] = x \o r[b]
  BY <1>2, <1>4, <1>5
<1>7. x \in Seq(Bytes) /\ r[b] \in Seq(Bytes) /\ s = x \o r[b]
  BY <1>2, <1>4, <1>5, <1>6, PacketProperties
<1>8. \A j \in b + 1..n : j \in a + 1..n
  BY <1>3, <1>5
<1>9. Framed(r[b], b, t)
  BY <1>1, <1>2, <1>8 DEF Framed
<1> QED BY <1>1, <1>4, <1>5, <1>6, <1>7, <1>9

\* What is framed is bytes.
LEMMA FramedType ==
  ASSUME NEW t \in Seq(Seq(Bytes)), NEW a \in Nat, NEW s, Framed(s, a, t)
  PROVE  s \in Seq(Bytes)
<1>1. PICK r \in [Nat -> Seq(Bytes)] : r[a] = s
  BY DEF Framed
<1> QED BY <1>1

\* A packet more at the end of a stream.
LEMMA FramedAppend ==
  ASSUME NEW t \in Seq(Seq(Bytes)), NEW a \in 0..Len(t), NEW s, Framed(s, a, t),
         NEW y \in Seq(Bytes), NEW b, IsPacket(y, b)
  PROVE  Framed(s \o y, a, Append(t, b))
<1>1. PICK n \in Nat : n = Len(t)
  BY LenProperties
<1>2. PICK r \in [Nat -> Seq(Bytes)] :
        /\ r[a] = s /\ r[n] = <<>>
        /\ \A j \in a + 1..n : \E x : IsPacket(x, t[j]) /\ r[j - 1] = x \o r[j]
  BY <1>1 DEF Framed
<1>3. a \in Nat /\ a <= n
  BY <1>1
<1>4. y \in Seq(Bytes) /\ b \in Seq(Bytes)
  BY PacketProperties
<1>5. ASSUME NEW x \in Seq(Bytes), NEW w \in Seq(Bytes)
      PROVE  (x \o w) \o y = x \o (w \o y)
  BY <1>4, JoinBytes, Zenon
<1>6. PICK u : u = Append(t, b)
  OBVIOUS
<1>7. Len(u) = n + 1 /\ (\A j \in 1..n : u[j] = t[j]) /\ u[n + 1] = b
  BY <1>1, <1>4, <1>6, AppendProperties
<1> DEFINE q == [j \in Nat |-> IF j <= n THEN r[j] \o y ELSE <<>>]
<1>8. /\ q \in [Nat -> Seq(Bytes)]
      /\ \A j \in Nat : q[j] = IF j <= n THEN r[j] \o y ELSE <<>>
  <2>1. ASSUME NEW j \in Nat PROVE r[j] \o y \in Seq(Bytes) /\ <<>> \in Seq(Bytes)
    <3>1. r[j] \in Seq(Bytes)
      OBVIOUS
    <3> QED BY <1>4, <3>1, ConcatProperties, EmptySeq
  <2>2. \A j \in Nat : q[j] = IF j <= n THEN r[j] \o y ELSE <<>>
    OBVIOUS
  <2>3. \A j \in Nat : q[j] \in Seq(Bytes)
    BY <2>1
  <2> QED BY <2>2, <2>3
<1> HIDE DEF q
<1>9. q[a] = s \o y
  BY <1>2, <1>3, <1>8
<1>10. q[n + 1] = <<>>
  <2>1. n + 1 \in Nat /\ ~(n + 1 <= n)
    OBVIOUS
  <2> QED BY <1>8, <2>1
<1>11. ASSUME NEW j \in a + 1..n + 1 PROVE \E x : IsPacket(x, u[j]) /\ q[j - 1] = x \o q[j]
  <2>1. CASE j = n + 1
    <3>1. u[j] = b /\ q[j] = <<>> /\ j - 1 = n
      BY <1>7, <1>10, <2>1
    <3>2. q[n] = <<>> \o y
      <4>1. n <= n
        OBVIOUS
      <4>2. q[n] = r[n] \o y
        BY <1>8, <4>1
      <4> QED BY <1>2, <4>2
    <3>3. q[n] = y \o <<>>
      BY <1>4, <3>2, ConcatEmptySeq
    <3> QED BY <3>1, <3>3
  <2>2. CASE j # n + 1
    <3>1. j \in a + 1..n /\ j \in 1..n /\ j \in Nat /\ j - 1 \in Nat /\ j - 1 <= n /\ j <= n
      BY <1>3, <2>2
    <3>2. PICK x : IsPacket(x, t[j]) /\ r[j - 1] = x \o r[j]
      BY <1>2, <3>1
    <3>3. x \in Seq(Bytes)
      BY <3>2, PacketProperties
    <3>4. PICK w \in Seq(Bytes) : w = r[j]
      BY <3>1
    <3>5. (x \o w) \o y = x \o (w \o y)
      BY <1>5, <3>3, <3>4
    <3>6. q[j - 1] = (x \o w) \o y /\ q[j] = w \o y
      BY <1>8, <3>1, <3>2, <3>4
    <3>7. u[j] = t[j]
      BY <1>7, <3>1
    <3> QED BY <3>2, <3>5, <3>6, <3>7
  <2> QED BY <2>1, <2>2
<1>12. Framed(s \o y, a, u)
  <2>1. Len(u) = n + 1
    BY <1>7
  <2> QED BY <1>8, <1>9, <1>10, <1>11, <2>1, Zenon DEF Framed
<1> QED BY <1>6, <1>12

\* Nor does it change what a reader has before it.
LEMMA FacesAppend ==
  ASSUME NEW t, NEW s, NEW b \in Seq(Bytes), NEW rest \in Seq(Bytes), Faces(t, s, b, rest),
         NEW y \in Seq(Bytes)
  PROVE  Faces(t, s \o y, b, rest \o y)
<1>1. ASSUME NEW x \in Seq(Bytes), s = x \o rest PROVE s \o y = x \o (rest \o y)
  BY <1>1, JoinBytes
<1>2. CASE t.pc = "first" /\ \E x : IsPacket(x, b) /\ s = x \o rest
  BY <1>1, <1>2, PacketProperties DEF Faces
<1>3. CASE /\ t.pc = "length"
           /\ \E kind \in PacketKinds, id \in Nat, n \in Numbers :
                /\ t.value + t.multiplier * n = Len(b)
                /\ s = (LengthBytes(kind, id, n) \o b) \o rest
  <2>1. PICK kind \in PacketKinds, id \in Nat, n \in Numbers :
          /\ t.value + t.multiplier * n = Len(b)
          /\ s = (LengthBytes(kind, id, n) \o b) \o rest
    BY <1>3
  <2>2. LengthBytes(kind, id, n) \o b \in Seq(Bytes)
    BY LengthBytesType, ConcatProperties
  <2>3. s \o y = (LengthBytes(kind, id, n) \o b) \o (rest \o y)
    BY <1>1, <2>1, <2>2
  <2> QED BY <1>3, <2>1, <2>3 DEF Faces
<1>4. CASE t.pc = "body" /\ t.value = Len(b) /\ s = b \o rest
  BY <1>1, <1>4 DEF Faces
<1> QED BY <1>2, <1>3, <1>4 DEF Faces

-----------------------------------------------------------------------------
(* The invariant of the client. *)

TaskStates ==
  [pc : {"idle", "first", "handling", "draining", "closing", "failing", "sleeping"}]
    \cup [pc : {"length"}, kind : PacketKinds, value : Nat, multiplier : Nat]
    \cup [pc : {"body"}, kind : PacketKinds, value : Nat]

MqttTypes ==
  /\ link \in {"none", "up", "eof", "reset", "closed"}
  /\ writer \in BOOLEAN /\ connected \in BOOLEAN /\ stopping \in BOOLEAN
  /\ messageId \in 0..IdSpace - 1
  /\ task \in [Tasks -> TaskStates]
  /\ task[Loop].pc \in {"idle", "first", "length", "body", "handling", "draining", "closing"}
  /\ task[Ping].pc \in {"idle", "sleeping"}
  /\ buffer \in Seq(Bytes) /\ wire \in Seq(Bytes)
  /\ sent \in Seq(Seq(Bytes)) /\ handled \in Seq(Seq(Bytes))

\* A user between open_connection() and the end of its connect().
Opening(u) == Reading(u) \/ At(u, "failing")

\* Who may be where: a connected client has a writer, who closes has set _stopping, the
\* loop runs only while connected or stopping, and while a user connects nobody else
\* reads and nothing was sent or handled.
MqttRoles ==
  /\ connected => writer
  /\ \A a \in Tasks : At(a, "closing") => stopping
  /\ ~At(Loop, "idle") => connected \/ stopping
  /\ \A u \in MqttUsers :
       /\ Opening(u) => /\ ~connected /\ ~Reading(Loop)
                        /\ \A v \in MqttUsers : Opening(v) => v = u
       /\ Reading(u) => sent = <<>> /\ handled = <<>>
  /\ link = "reset" => buffer = <<>>

\* The packets that were handled are the first ones sent, and the loop knows the length
\* of the next; the answer to CONNECT has two bytes.
MqttBodies ==
  /\ Len(handled) <= Len(sent)
  /\ \A i \in 1..Len(handled) : handled[i] = sent[i]
  /\ At(Loop, "body") => /\ Len(handled) + 1 \in 1..Len(sent)
                         /\ task[Loop].value = Len(sent[Len(handled) + 1])
  /\ \A u \in MqttUsers : At(u, "body") => task[u].value = 2

\* The loop in state t, where stop says whether it is stopping, faces the stream s: after
\* c packets of se, or in the next one.
LoopFaces(t, stop, s, c, se) ==
  /\ t.pc = "first" \/ (t.pc = "handling" /\ ~stop) => Framed(s, c, se)
  /\ t.pc \in {"length", "body"} =>
       /\ c + 1 \in 1..Len(se)
       /\ \E rest \in Seq(Bytes) : Framed(rest, c + 1, se) /\ Faces(t, s, se[c + 1], rest)

\* A user in state t faces one packet, of two bytes.
UserFaces(t, s) ==
  t.pc \in {"first", "length", "body"} =>
    \E b \in Seq(Bytes) : Len(b) = 2 /\ Faces(t, s, b, <<>>)

\* Unless a reset lost some of it, the stream is what is in the buffer and in transit.
MqttStream ==
  link # "reset" =>
    /\ LoopFaces(task[Loop], stopping, buffer \o wire, Len(handled), sent)
    /\ \A u \in MqttUsers : UserFaces(task[u], buffer \o wire)

MqttInv == MqttTypes /\ MqttRoles /\ MqttBodies /\ MqttStream

\* The tasks differ.
LEMMA TasksDiffer ==
  /\ Loop \in Tasks /\ Ping \in Tasks /\ Loop # Ping /\ MqttUsers \subseteq Tasks
  /\ Loop \notin MqttUsers /\ Ping \notin MqttUsers
  /\ \A a \in Tasks : a \in MqttUsers \/ a = Loop \/ a = Ping
BY MqttAssumption DEF Tasks, Loop, Ping

\* The states of a task that are written.
LEMMA TaskStatesHave ==
  /\ \A p \in {"idle", "first", "handling", "draining", "closing", "failing", "sleeping"} :
       [pc |-> p] \in TaskStates
  /\ \A kind \in PacketKinds, v, m \in Nat :
       /\ [pc |-> "length", kind |-> kind, value |-> v, multiplier |-> m] \in TaskStates
       /\ [pc |-> "body", kind |-> kind, value |-> v] \in TaskStates
BY DEF TaskStates

\* And those that are read.
LEMMA TaskStatesShape ==
  ASSUME NEW t \in TaskStates
  PROVE  /\ t.pc = "length" => /\ t.kind \in PacketKinds
                               /\ t.value \in Nat /\ t.multiplier \in Nat
         /\ t.pc = "body" => t.kind \in PacketKinds /\ t.value \in Nat
BY DEF TaskStates

\* A length or the 2 bytes of an answer to CONNECT are lengths that can be encoded.
LEMMA LengthsEncoded == 2 \in Numbers /\ \A n \in Lengths : n \in Numbers /\ n \in Nat
BY MqttAssumption DEF Numbers

\* A part of the buffer is bytes.
LEMMA PartOfBytes ==
  ASSUME NEW s \in Seq(Bytes), NEW m \in 1..Len(s) + 1, NEW n \in 0..Len(s)
  PROVE  SubSeq(s, m, n) \in Seq(Bytes)
<1>1. \A i \in m..n : s[i] \in Bytes
  <2>1. Len(s) \in Nat
    BY LenProperties
  <2>2. \A i \in m..n : i \in 1..Len(s)
    BY <2>1
  <2> QED BY <2>2, ElementOfSeq
<1>2. m \in Int /\ n \in Int
  BY LenProperties
<1> QED BY <1>1, <1>2, SubSeqProperties

\* A task moves.
LEMMA MoveTo ==
  ASSUME task \in [Tasks -> TaskStates], NEW a \in Tasks, NEW x \in TaskStates, Move(a, x)
  PROVE  /\ task' \in [Tasks -> TaskStates] /\ task'[a] = x
         /\ \A b \in Tasks : b # a => task'[b] = task[b]
BY DEF Move

-----------------------------------------------------------------------------
(* Most steps leave the stream alone, and the tasks that move in them do not *)
(* read.                                                                    *)

Quiet ==
  /\ buffer' = buffer /\ wire' = wire /\ sent' = sent /\ handled' = handled
  /\ link' \in {"none", "up", "eof", "reset", "closed"}
  /\ link' = "reset" <=> link = "reset"
  /\ writer' \in BOOLEAN /\ connected' \in BOOLEAN /\ stopping' \in BOOLEAN
  /\ messageId' \in 0..IdSpace - 1
  /\ connected' => connected /\ writer'
  /\ stopping => stopping'
  /\ task' \in [Tasks -> TaskStates]
  /\ \A a \in Tasks : \/ task'[a] = task[a]
                      \/ task'[a].pc \in {"idle", "draining", "closing"}
                      \/ task'[a].pc = "failing" /\ a \in MqttUsers /\ Opening(a)
  /\ \A a \in Tasks : task'[a].pc = "closing" => stopping'
  /\ task'[Loop].pc # "idle" => connected' \/ stopping'
  /\ task'[Ping].pc \in {"idle", "sleeping"}

\* Such a step keeps the invariant.
LEMMA QuietKeeps ==
  ASSUME MqttInv, Quiet
  PROVE  MqttInv'
<1>1. MqttTypes /\ MqttRoles /\ MqttBodies /\ MqttStream
  BY DEF MqttInv
<1>2. task'[Loop] = task[Loop] \/ task'[Loop].pc \in {"idle", "draining", "closing"}
  BY TasksDiffer DEF Quiet
<1>3. ASSUME NEW u \in MqttUsers
      PROVE  /\ Opening(u)' => Opening(u)
             /\ Reading(u)' => task'[u] = task[u] /\ Reading(u)
  <2>1. \/ task'[u] = task[u] \/ task'[u].pc \in {"idle", "draining", "closing"}
        \/ task'[u].pc = "failing" /\ Opening(u)
    BY TasksDiffer DEF Quiet
  <2> QED BY <2>1 DEF Opening, Reading, At
<1>4. MqttTypes'
  <2>1. task'[Loop].pc \in {"idle", "first", "length", "body", "handling", "draining", "closing"}
    BY <1>1, <1>2 DEF MqttTypes
  <2> QED BY <1>1, <2>1 DEF Quiet, MqttTypes
<1>5. MqttRoles'
  <2>1. Reading(Loop)' => Reading(Loop)
    BY <1>2 DEF Reading
  <2>2. ASSUME NEW u \in MqttUsers
        PROVE  /\ Opening(u)' => /\ ~connected' /\ ~Reading(Loop)'
                                 /\ \A v \in MqttUsers : Opening(v)' => v = u
               /\ Reading(u)' => sent' = <<>> /\ handled' = <<>>
    BY <1>1, <1>3, <2>1 DEF Quiet, MqttRoles
  <2>3. /\ connected' => writer'
        /\ \A a \in Tasks : At(a, "closing")' => stopping'
        /\ ~At(Loop, "idle")' => connected' \/ stopping'
        /\ link' = "reset" => buffer' = <<>>
    BY <1>1 DEF Quiet, MqttRoles, At
  <2> QED BY <2>2, <2>3 DEF MqttRoles
<1>6. MqttBodies'
  <2>1. task'[Loop].pc = "body" => task'[Loop] = task[Loop]
    BY <1>2
  <2>2. sent' = sent /\ handled' = handled
    BY DEF Quiet
  <2>3. \A u \in MqttUsers : At(u, "body")' => task'[u].value = 2
    BY <1>1, <1>3 DEF MqttBodies, At, Reading
  <2> QED BY <1>1, <2>1, <2>2, <2>3 DEF MqttBodies, At
<1>7. MqttStream'
  <2>1. SUFFICES ASSUME link' # "reset"
                 PROVE  /\ LoopFaces(task'[Loop], stopping', buffer' \o wire', Len(handled'),
                                     sent')
                        /\ \A u \in MqttUsers : UserFaces(task'[u], buffer' \o wire')
    BY DEF MqttStream
  <2>2. /\ LoopFaces(task[Loop], stopping, buffer \o wire, Len(handled), sent)
        /\ \A u \in MqttUsers : UserFaces(task[u], buffer \o wire)
    BY <1>1, <2>1 DEF Quiet, MqttStream
  <2>3. buffer' = buffer /\ wire' = wire /\ sent' = sent /\ handled' = handled
        /\ (stopping => stopping')
    BY DEF Quiet
  <2>4. LoopFaces(task'[Loop], stopping', buffer \o wire, Len(handled), sent)
    BY <1>2, <2>2, <2>3 DEF LoopFaces
  <2>5. ASSUME NEW u \in MqttUsers PROVE UserFaces(task'[u], buffer \o wire)
    BY <1>3, <2>2 DEF UserFaces, Reading
  <2> QED BY <2>3, <2>4, <2>5
<1> QED BY <1>4, <1>5, <1>6, <1>7 DEF MqttInv

\* A task that rests, drains, closes or has failed is in one of the states.
LEMMA RestingStates ==
  /\ Resting \in TaskStates /\ Resting.pc = "idle"
  /\ \A p \in {"draining", "closing", "failing"} :
       [pc |-> p] \in TaskStates /\ [pc |-> p].pc = p
BY TaskStatesHave DEF Resting

\* disconnect() up to its first suspension.
LEMMA DisconnectQuiet ==
  ASSUME MqttInv, NEW a \in Tasks, a # Ping, MqttDisconnect(a),
         UNCHANGED <<wire, buffer, writer, connected, messageId, sent, handled>>,
         a = Loop => connected \/ stopping
  PROVE  Quiet
<1>1. MqttTypes /\ MqttRoles
  BY DEF MqttInv
<1>2. CASE ~writer
  <2>1. Move(a, Resting) /\ link' = link /\ stopping' = stopping
    BY <1>2 DEF MqttDisconnect
  <2>2. /\ task' \in [Tasks -> TaskStates] /\ task'[a].pc = "idle"
        /\ \A b \in Tasks : b # a => task'[b] = task[b]
    BY <1>1, <2>1, MoveTo, RestingStates DEF MqttTypes
  <2> QED BY <1>1, <2>1, <2>2, TasksDiffer DEF Quiet, MqttTypes, MqttRoles, At
<1>3. CASE writer /\ link = "closed"
  <2>1. Move(a, [pc |-> "draining"]) /\ link' = link /\ stopping' = stopping
    BY <1>3 DEF MqttDisconnect
  <2>2. PICK x \in TaskStates : x = [pc |-> "draining"] /\ x.pc = "draining"
    BY RestingStates
  <2>3. /\ task' \in [Tasks -> TaskStates] /\ task'[a].pc = "draining"
        /\ \A b \in Tasks : b # a => task'[b] = task[b]
    BY <1>1, <2>1, <2>2, MoveTo DEF MqttTypes
  <2>4. task'[Loop].pc # "idle" => connected \/ stopping
    BY <1>1, <2>3, TasksDiffer DEF MqttRoles, At
  <2> QED BY <1>1, <2>1, <2>3, <2>4, TasksDiffer DEF Quiet, MqttTypes, MqttRoles, At
<1>4. CASE writer /\ link # "closed"
  <2>1. /\ stopping' = TRUE /\ link' = IF link = "reset" THEN link ELSE "closed"
        /\ task' = [task EXCEPT ![Ping] = Resting, ![a] = [pc |-> "closing"]]
    BY <1>4 DEF MqttDisconnect
  <2>2. PICK x \in TaskStates : x = [pc |-> "closing"] /\ x.pc = "closing"
    BY RestingStates
  <2>3. /\ task' \in [Tasks -> TaskStates] /\ task'[a] = x /\ task'[Ping] = Resting
        /\ \A b \in Tasks : b # a /\ b # Ping => task'[b] = task[b]
    BY <1>1, <2>1, <2>2, TasksDiffer, RestingStates DEF MqttTypes
  <2> QED BY <1>1, <2>1, <2>2, <2>3, RestingStates DEF Quiet, MqttTypes, MqttRoles, At
<1> QED BY <1>1, <1>2, <1>3, <1>4 DEF MqttTypes

\* A task whose bytes have gone out rests, or closes the connection.
LEMMA DrainedQuiet ==
  ASSUME MqttInv, NEW a \in Tasks, Drained(a)
  PROVE  Quiet
<1>1. MqttTypes /\ MqttRoles
  BY DEF MqttInv
<1>2. a # Ping
  BY <1>1 DEF MqttTypes, Drained, At
<1>3. PICK x \in TaskStates :
        /\ x = IF writer THEN [pc |-> "closing"] ELSE Resting
        /\ x.pc \in {"closing", "idle"}
  BY RestingStates
<1>4. /\ task' = [task EXCEPT ![Ping] = Resting, ![a] = x] /\ stopping' = TRUE
      /\ buffer' = buffer /\ wire' = wire /\ sent' = sent /\ handled' = handled
      /\ link' = link /\ writer' = writer /\ connected' = connected
      /\ messageId' = messageId
  BY <1>3 DEF Drained, linkVars
<1>5. /\ task' \in [Tasks -> TaskStates] /\ task'[a] = x /\ task'[Ping] = Resting
      /\ \A b \in Tasks : b # a /\ b # Ping => task'[b] = task[b]
  BY <1>1, <1>2, <1>4, TasksDiffer, RestingStates DEF MqttTypes
<1> QED BY <1>1, <1>3, <1>4, <1>5, RestingStates DEF Quiet, MqttTypes, MqttRoles, At

\* A task that has closed the connection rests.
LEMMA ClosedQuiet ==
  ASSUME MqttInv, NEW a \in Tasks, Closed(a)
  PROVE  Quiet
<1>1. MqttTypes /\ MqttRoles
  BY DEF MqttInv
<1>2. a # Ping /\ stopping
  BY <1>1 DEF MqttTypes, MqttRoles, Closed, At
<1>3. /\ Move(a, Resting) /\ stopping' = stopping
      /\ buffer' = buffer /\ wire' = wire /\ sent' = sent /\ handled' = handled
      /\ link' = link /\ messageId' = messageId
      /\ (writer' = writer /\ connected' = connected) \/ (writer' = FALSE /\ connected' = FALSE)
  BY DEF Closed, linkVars
<1>4. /\ task' \in [Tasks -> TaskStates] /\ task'[a].pc = "idle"
      /\ \A b \in Tasks : b # a => task'[b] = task[b]
  BY <1>1, <1>3, MoveTo, RestingStates DEF MqttTypes
<1>5. writer' \in BOOLEAN /\ connected' \in BOOLEAN /\ (connected' => connected /\ writer')
  <2>1. CASE writer' = writer /\ connected' = connected
    <3>1. writer \in BOOLEAN /\ connected \in BOOLEAN /\ (connected => writer)
      BY <1>1 DEF MqttTypes, MqttRoles
    <3> QED BY <2>1, <3>1
  <2>2. CASE writer' = FALSE /\ connected' = FALSE
    BY <2>2, Zenon
  <2> QED BY <1>3, <2>1, <2>2
<1> QED BY <1>1, <1>2, <1>3, <1>4, <1>5, TasksDiffer DEF Quiet, MqttTypes, MqttRoles, At

\* connect() gets no answer it can use: the task closes the connection.
LEMMA ConnectFailsQuiet ==
  ASSUME MqttInv, NEW u \in MqttUsers, ConnectFails(u)
  PROVE  Quiet
<1>1. MqttTypes /\ MqttRoles /\ u \in Tasks /\ u # Loop /\ u # Ping
  BY TasksDiffer DEF MqttInv
<1>2. Opening(u)
  BY DEF ConnectFails, ReadFails, Ready, Opening, Reading, At
<1>3. PICK x \in TaskStates :
        /\ x = IF writer THEN [pc |-> "failing"] ELSE Resting
        /\ x.pc \in {"failing", "idle"}
  BY RestingStates
<1>4. /\ Move(u, x) /\ stopping' = stopping
      /\ buffer' = buffer /\ wire' = wire /\ sent' = sent /\ handled' = handled
      /\ link' = IF writer /\ link # "reset" THEN "closed" ELSE link
      /\ messageId' = messageId /\ writer' = writer /\ connected' = connected
  BY <1>3 DEF ConnectFails
<1>5. /\ task' \in [Tasks -> TaskStates] /\ task'[u] = x
      /\ \A b \in Tasks : b # u => task'[b] = task[b]
  BY <1>1, <1>3, <1>4, MoveTo DEF MqttTypes
<1> QED BY <1>1, <1>2, <1>3, <1>4, <1>5, TasksDiffer DEF Quiet, MqttTypes, MqttRoles, At

\* connect() raises what it caught.
LEMMA ConnectEndsQuiet ==
  ASSUME MqttInv, NEW u \in MqttUsers, ConnectEnds(u)
  PROVE  Quiet
<1>1. MqttTypes /\ MqttRoles /\ u \in Tasks /\ u # Loop /\ u # Ping
  BY TasksDiffer DEF MqttInv
<1>2. ~connected
  BY <1>1 DEF ConnectEnds, MqttRoles, Opening
<1>3. /\ Move(u, Resting) /\ stopping' = stopping
      /\ buffer' = buffer /\ wire' = wire /\ sent' = sent /\ handled' = handled
      /\ link' = link /\ messageId' = messageId /\ writer' = (writer /\ link = "reset")
      /\ connected' = connected
  BY DEF ConnectEnds, linkVars
<1>4. /\ task' \in [Tasks -> TaskStates] /\ task'[u].pc = "idle"
      /\ \A b \in Tasks : b # u => task'[b] = task[b]
  BY <1>1, <1>3, MoveTo, RestingStates DEF MqttTypes
<1>5. writer' \in BOOLEAN
  BY <1>3
<1> QED BY <1>1, <1>2, <1>3, <1>4, <1>5, TasksDiffer DEF Quiet, MqttTypes, MqttRoles, At

\* A message takes the next id.
LEMMA PublishQuiet ==
  ASSUME MqttInv, NEW u \in MqttUsers, MqttPublish(u)
  PROVE  Quiet
<1>1. MqttTypes /\ MqttRoles
  BY DEF MqttInv
<1>2. messageId' \in 0..IdSpace - 1
  <2>1. messageId + 1 \in Nat /\ IdSpace \in Nat /\ IdSpace > 0
    BY <1>1, MqttAssumption DEF MqttTypes
  <2>2. (messageId + 1) % IdSpace \in 0..IdSpace - 1
    BY <2>1
  <2> QED BY <2>2 DEF MqttPublish
<1>3. /\ task' = task /\ stopping' = stopping
      /\ buffer' = buffer /\ wire' = wire /\ sent' = sent /\ handled' = handled
      /\ link' = link /\ writer' = writer /\ connected' = connected
  BY DEF MqttPublish, linkVars
<1> QED BY <1>1, <1>2, <1>3 DEF Quiet, MqttTypes, MqttRoles, At

\* Nothing happens.
LEMMA StutterQuiet ==
  ASSUME MqttInv, UNCHANGED mqttVars
  PROVE  Quiet
BY DEF Quiet, MqttInv, MqttTypes, MqttRoles, At, mqttVars

-----------------------------------------------------------------------------
(* Connecting. *)

\* connect() opens a connection: its stream is one answer, of two bytes.
LEMMA MqttConnectKeeps ==
  ASSUME MqttInv, NEW u \in MqttUsers, MqttConnect(u)
  PROVE  MqttInv'
<1>1. MqttTypes /\ MqttRoles /\ u \in Tasks /\ u # Loop /\ u # Ping
  BY TasksDiffer DEF MqttInv
<1>2. PICK kind \in PacketKinds :
        /\ wire' = Packet(kind, 0, 2) /\ Move(u, FirstByte)
        /\ link' = "up" /\ writer' = TRUE /\ buffer' = <<>> /\ sent' = <<>> /\ handled' = <<>>
        /\ connected' = connected /\ stopping' = stopping /\ messageId' = messageId
  BY DEF MqttConnect, PacketKinds
<1>3. FirstByte \in TaskStates /\ FirstByte.pc = "first"
  BY TaskStatesHave DEF FirstByte
<1>4. /\ task' \in [Tasks -> TaskStates] /\ task'[u] = FirstByte
      /\ \A b \in Tasks : b # u => task'[b] = task[b]
  BY <1>1, <1>2, <1>3, MoveTo DEF MqttTypes
<1>5. /\ ~connected
      /\ \A a \in Tasks : ~Reading(a) /\ task[a].pc \notin {"failing", "closing", "draining"}
  BY DEF MqttConnect, Connecting
<1>6. PICK b : b = Body(kind, 0, 2)
  OBVIOUS
<1>7. IsPacket(wire', b)
  BY <1>2, <1>6, LengthsEncoded DEF IsPacket
<1>8. b \in Seq(Bytes) /\ Len(b) = 2 /\ wire' \in Seq(Bytes)
  BY <1>6, <1>7, PacketProperties, BodyType
<1>9. /\ task'[Loop] = task[Loop] /\ task'[Ping] = task[Ping]
      /\ \A v \in MqttUsers : v # u => task'[v] = task[v] /\ ~Opening(v)
  BY <1>1, <1>4, <1>5, TasksDiffer DEF Opening, At
<1>10. MqttTypes'
  <2>1. buffer' \in Seq(Bytes) /\ sent' \in Seq(Seq(Bytes)) /\ handled' \in Seq(Seq(Bytes))
    BY <1>2, EmptySeq
  <2>2. writer' \in BOOLEAN
    BY <1>2, Zenon
  <2> QED BY <1>1, <1>2, <1>4, <1>8, <1>9, <2>1, <2>2 DEF MqttTypes
<1>11. MqttRoles'
  <2>1. ~Reading(Loop)'
    BY <1>5, <1>9, TasksDiffer DEF Reading
  <2>2. ASSUME NEW v \in MqttUsers
        PROVE  /\ Opening(v)' => /\ ~connected' /\ ~Reading(Loop)'
                                 /\ \A w \in MqttUsers : Opening(w)' => w = v
               /\ Reading(v)' => sent' = <<>> /\ handled' = <<>>
    <3>1. \A w \in MqttUsers : Opening(w)' => w = u
      BY <1>9 DEF Opening, Reading, At
    <3> QED BY <1>2, <1>5, <2>1, <3>1
  <2>3. \A a \in Tasks : At(a, "closing")' => stopping'
    BY <1>1, <1>2, <1>3, <1>4 DEF MqttRoles, At
  <2>4. ~At(Loop, "idle")' => connected' \/ stopping'
    BY <1>1, <1>2, <1>9 DEF MqttRoles, At
  <2> QED BY <1>2, <2>2, <2>3, <2>4 DEF MqttRoles
<1>12. task'[Loop].pc \notin {"first", "length", "body"}
  BY <1>5, <1>9, TasksDiffer DEF Reading
<1>13. MqttBodies'
  <2>1. PICK s \in Seq(Seq(Bytes)) : s = <<>> /\ Len(s) = 0
    BY EmptySeq
  <2>2. sent' = s /\ handled' = s
    BY <1>2, <2>1
  <2>3. \A v \in MqttUsers : ~At(v, "body")'
    BY <1>3, <1>4, <1>9 DEF Opening, Reading, At
  <2> QED BY <1>12, <2>1, <2>2, <2>3 DEF MqttBodies, At
<1>14. MqttStream'
  <2>1. buffer' \o wire' = wire'
    BY <1>2, <1>8, ConcatEmptySeq
  <2>2. UserFaces(FirstByte, wire')
    <3>1. PICK x \in Seq(Bytes) : x = wire'
      BY <1>8
    <3>2. x \o <<>> = x
      BY ConcatEmptySeq
    <3>3. Faces(FirstByte, wire', b, <<>>)
      BY <1>3, <1>7, <3>1, <3>2 DEF Faces
    <3> QED BY <1>8, <3>3 DEF UserFaces
  <2>3. \A v \in MqttUsers : UserFaces(task'[v], wire')
    <3>1. ASSUME NEW v \in MqttUsers, v # u PROVE UserFaces(task'[v], wire')
      BY <1>9, <3>1 DEF UserFaces, Opening, Reading
    <3> QED BY <1>4, <2>2, <3>1
  <2>4. LoopFaces(task'[Loop], stopping', wire', Len(handled'), sent')
    <3>1. task'[Loop].pc = "handling" => stopping'
      BY <1>1, <1>2, <1>5, <1>9 DEF MqttRoles, At
    <3> QED BY <1>12, <3>1 DEF LoopFaces
  <2> QED BY <2>1, <2>3, <2>4 DEF MqttStream
<1> QED BY <1>10, <1>11, <1>13, <1>14 DEF MqttInv

\* What read() returns when all of the body has arrived.
LEMMA ArrivedWhole ==
  ASSUME MqttTypes, NEW a \in Tasks, Ready(a), Whole(a, Arrived(a))
  PROVE  \E v \in 0..Len(buffer) :
           /\ v = task[a].value /\ v \in Nat
           /\ Arrived(a) = SubSeq(buffer, 1, v) /\ SubSeq(buffer, 1, v) \in Seq(Bytes)
           /\ Len(SubSeq(buffer, 1, v)) = v
           /\ SubSeq(buffer, v + 1, Len(buffer)) \in Seq(Bytes)
<1>1. PICK m \in Nat : m = Len(buffer)
  BY LenProperties DEF MqttTypes
<1>2. PICK v \in Nat : v = task[a].value
  <2>1. task[a] \in TaskStates /\ task[a].pc = "body"
    BY DEF MqttTypes, Ready, At
  <2> QED BY <2>1, TaskStatesShape
<1>3. PICK k \in 0..m : k = IF v < m THEN v ELSE m
  BY <1>1
<1>4. Arrived(a) = SubSeq(buffer, 1, k)
  BY <1>1, <1>2, <1>3 DEF Arrived
<1>5. buffer \in Seq(Bytes) /\ 1 \in 1..m + 1
  BY DEF MqttTypes
<1>6. SubSeq(buffer, 1, k) \in Seq(Bytes)
  BY <1>1, <1>5, PartOfBytes
<1>7. Len(SubSeq(buffer, 1, k)) = k
  <2>1. \A i \in 1..k : buffer[i] \in Bytes
    BY <1>1, <1>5, ElementOfSeq
  <2>2. Len(SubSeq(buffer, 1, k)) = IF 1 <= k THEN k - 1 + 1 ELSE 0
    BY <2>1, SubSeqProperties
  <2> QED BY <2>2
<1>8. k = v
  BY <1>2, <1>4, <1>7 DEF Whole
<1>9. SubSeq(buffer, v + 1, Len(buffer)) \in Seq(Bytes)
  <2>1. v + 1 \in 1..Len(buffer) + 1 /\ Len(buffer) \in 0..Len(buffer)
    BY <1>1, <1>3, <1>8
  <2> QED BY <1>5, <2>1, PartOfBytes
<1> QED BY <1>1, <1>2, <1>3, <1>4, <1>6, <1>7, <1>8, <1>9

\* Taking a body from a stream that begins with it, when all of it is in the buffer.
LEMMA StreamTake ==
  ASSUME NEW p \in Seq(Bytes), NEW w \in Seq(Bytes), NEW b \in Seq(Bytes),
         NEW rest \in Seq(Bytes), p \o w = b \o rest,
         NEW v \in 0..Len(p), v = Len(b)
  PROVE  SubSeq(p, 1, v) = b /\ SubSeq(p, v + 1, Len(p)) \o w = rest
<1>1. PICK m \in Nat : m = Len(p)
  BY LenProperties
<1>2. PICK c, d : c = SubSeq(p, 1, v) /\ d = SubSeq(p, v + 1, m)
  OBVIOUS
<1>3. v \in Nat /\ v <= m /\ Len(w) \in Nat /\ Len(rest) \in Nat
  BY <1>1, LenProperties
<1>4. c \in Seq(Bytes) /\ d \in Seq(Bytes)
  <2>1. v + 1 \in 1..Len(p) + 1 /\ m \in 0..Len(p) /\ 1 \in 1..Len(p) + 1
    BY <1>1, <1>3
  <2> QED BY <1>2, <2>1, PartOfBytes
<1>5. Len(c) = v /\ \A i \in 1..v : c[i] = p[i]
  <2>1. \A i \in 1..v : p[i] \in Bytes
    BY <1>1, <1>3, ElementOfSeq
  <2>2. /\ Len(c) = IF 1 <= v THEN v - 1 + 1 ELSE 0
        /\ \A i \in 1..v - 1 + 1 : c[i] = p[1 + i - 1]
    BY <1>2, <1>3, <2>1, SubSeqProperties
  <2> QED BY <1>3, <2>2
<1>6. c \o d = p
  <2>1. 1 \in 1..m + 1 /\ v \in 1 - 1..m /\ m \in v..m
    BY <1>3
  <2>2. SubSeq(p, 1, v) \o SubSeq(p, v + 1, m) = SubSeq(p, 1, m)
    BY <1>1, <2>1, ConcatAdjacentSubSeq
  <2>3. SubSeq(p, 1, m) = p
    BY <1>1, SubSeqFull
  <2> QED BY <1>2, <2>2, <2>3
<1>7. \A i \in 1..v : p[i] = b[i]
  <2>1. /\ \A i \in 1..Len(p) + Len(w) : (p \o w)[i] = IF i <= Len(p) THEN p[i] ELSE w[i - Len(p)]
        /\ \A i \in 1..Len(b) + Len(rest) :
             (b \o rest)[i] = IF i <= Len(b) THEN b[i] ELSE rest[i - Len(b)]
    BY ConcatProperties
  <2>2. ASSUME NEW i \in 1..v PROVE p[i] = b[i]
    <3>1. i \in 1..m + Len(w) /\ i <= m /\ i \in 1..v + Len(rest) /\ i <= v
      BY <1>3
    <3>2. (p \o w)[i] = p[i]
      BY <1>1, <2>1, <3>1
    <3>3. (b \o rest)[i] = b[i]
      BY <2>1, <3>1
    <3> QED BY <3>2, <3>3
  <2> QED BY <2>2
<1>8. c = b
  <2>1. Len(c) = Len(b) /\ \A i \in 1..Len(c) : c[i] = b[i]
    BY <1>5, <1>7
  <2> QED BY <1>4, <2>1, SeqEqual
<1>9. b \o (d \o w) = b \o rest
  <2>1. PICK e : e = d \o w
    OBVIOUS
  <2>2. (c \o d) \o w = c \o e
    BY <1>4, <2>1, JoinBytes, ZenonT(40)
  <2> QED BY <1>6, <1>8, <2>1, <2>2
<1>10. d \o w = rest
  <2>1. d \o w \in Seq(Bytes)
    BY <1>4, ConcatProperties
  <2> QED BY <1>9, <2>1, ConcatSimplifications
<1> QED BY <1>1, <1>2, <1>8, <1>10

\* The handshake ends with its two bytes read, and the stream is empty.
LEMMA ConnectedKeeps ==
  ASSUME MqttInv, NEW u \in MqttUsers, Connected(u)
  PROVE  MqttInv'
<1>1. /\ MqttTypes /\ MqttRoles /\ MqttBodies /\ MqttStream
      /\ u \in Tasks /\ u # Loop /\ u # Ping
  BY TasksDiffer DEF MqttInv
<1>2. Ready(u) /\ Whole(u, Arrived(u)) /\ At(u, "body") /\ Reading(u) /\ Opening(u)
  BY DEF Connected, Ready, Reading, Opening, At
<1>3. task[u].value = 2
  BY <1>1, <1>2 DEF MqttBodies
<1>4. /\ buffer' = SubSeq(buffer, 3, Len(buffer)) /\ connected' = TRUE
      /\ task' = [task EXCEPT ![u] = Resting,
                              ![Loop] = IF stopping THEN @ ELSE FirstByte,
                              ![Ping] = IF stopping THEN @ ELSE [pc |-> "sleeping"]]
      /\ link' = link /\ wire' = wire /\ writer' = writer /\ stopping' = stopping
      /\ messageId' = messageId /\ sent' = sent /\ handled' = handled
  <2>1. 2 + 1 = 3
    OBVIOUS
  <2> QED BY <1>3, <2>1 DEF Connected
<1>5. writer /\ buffer # <<>> /\ link # "reset"
  BY <1>1, <1>2, <1>3 DEF Ready, MqttRoles
<1>6. 2 \in 0..Len(buffer) /\ SubSeq(buffer, 3, Len(buffer)) \in Seq(Bytes)
  <2>1. PICK v \in 0..Len(buffer) :
          v = task[u].value /\ SubSeq(buffer, v + 1, Len(buffer)) \in Seq(Bytes)
    BY <1>1, <1>2, ArrivedWhole
  <2>2. v = 2 /\ 2 + 1 = 3
    BY <1>3, <2>1
  <2> QED BY <2>1, <2>2
<1>7. buffer' \o wire' = <<>>
  <2>1. UserFaces(task[u], buffer \o wire)
    BY <1>1, <1>5 DEF MqttStream
  <2>2. PICK b \in Seq(Bytes) : Len(b) = 2 /\ Faces(task[u], buffer \o wire, b, <<>>)
    BY <1>2, <2>1 DEF UserFaces, At
  <2>3. buffer \o wire = b \o <<>>
    BY <1>2, <2>2 DEF Faces, At
  <2>4. SubSeq(buffer, 2 + 1, Len(buffer)) \o wire = <<>>
    <3>1. buffer \in Seq(Bytes) /\ wire \in Seq(Bytes) /\ <<>> \in Seq(Bytes)
      BY <1>1, EmptySeq DEF MqttTypes
    <3> QED BY <1>6, <2>2, <2>3, <3>1, StreamTake
  <2> QED BY <1>4, <2>4
<1>8. /\ \A p \in {"first", "sleeping"} : [pc |-> p] \in TaskStates /\ [pc |-> p].pc = p
      /\ Resting \in TaskStates /\ Resting.pc = "idle"
      /\ FirstByte \in TaskStates /\ FirstByte.pc = "first"
  BY TaskStatesHave, RestingStates DEF FirstByte
<1>9. /\ task' \in [Tasks -> TaskStates]
      /\ task'[u] = Resting
      /\ task'[Loop] = IF stopping THEN task[Loop] ELSE FirstByte
      /\ task'[Ping] = IF stopping THEN task[Ping] ELSE [pc |-> "sleeping"]
      /\ \A b \in Tasks : b \notin {u, Loop, Ping} => task'[b] = task[b]
  <2>1. PICK x \in TaskStates, y \in TaskStates :
          /\ x = IF stopping THEN task[Loop] ELSE FirstByte
          /\ y = IF stopping THEN task[Ping] ELSE [pc |-> "sleeping"]
    BY <1>1, <1>8, TasksDiffer DEF MqttTypes
  <2>2. task' = [task EXCEPT ![u] = Resting, ![Loop] = x, ![Ping] = y]
    BY <1>4, <2>1
  <2>3. task \in [Tasks -> TaskStates]
    BY <1>1 DEF MqttTypes
  <2>4. /\ task' \in [Tasks -> TaskStates] /\ task'[u] = Resting /\ task'[Loop] = x
        /\ task'[Ping] = y
        /\ \A b \in Tasks : b \notin {u, Loop, Ping} => task'[b] = task[b]
    BY <1>1, <1>8, <2>2, <2>3, TasksDiffer
  <2> QED BY <2>1, <2>4
<1>10. /\ ~Reading(Loop)
       /\ \A v \in MqttUsers : v # u => ~Opening(v) /\ task'[v] = task[v]
       /\ sent = <<>> /\ handled = <<>> /\ ~connected
  BY <1>1, <1>2, <1>9, TasksDiffer DEF MqttRoles
<1>11. \A v \in MqttUsers : ~Opening(v)' /\ ~Reading(v)'
  BY <1>8, <1>9, <1>10 DEF Opening, Reading, At
<1>12. MqttTypes'
  <2>1. /\ task'[Loop].pc \in {"idle", "first", "length", "body", "handling", "draining",
                               "closing"}
        /\ task'[Ping].pc \in {"idle", "sleeping"}
    BY <1>1, <1>8, <1>9 DEF MqttTypes
  <2>2. connected' \in BOOLEAN
    BY <1>4, Zenon
  <2> QED BY <1>1, <1>4, <1>6, <1>9, <2>1, <2>2 DEF MqttTypes
<1>13. MqttRoles'
  <2>1. \A a \in Tasks : At(a, "closing")' => stopping'
    BY <1>1, <1>4, <1>8, <1>9 DEF MqttRoles, At
  <2> QED BY <1>4, <1>5, <1>11, <2>1 DEF MqttRoles
<1>14. task'[Loop].pc \notin {"length", "body"}
  BY <1>8, <1>9, <1>10 DEF Reading
<1>15. MqttBodies'
  <2>1. sent' = sent /\ handled' = handled
    BY <1>4
  <2>2. \A v \in MqttUsers : ~At(v, "body")'
    BY <1>11 DEF Reading, At
  <2> QED BY <1>1, <1>14, <2>1, <2>2 DEF MqttBodies, At
<1>16. MqttStream'
  <2>1. LoopFaces(task'[Loop], stopping', <<>>, Len(handled'), sent')
    <3>1. sent' = <<>> /\ Len(handled') = 0
      BY <1>4, <1>10, EmptySeq
    <3>2. Framed(<<>>, Len(handled'), sent')
      BY <3>1, FramedEmpty
    <3> QED BY <1>14, <3>2 DEF LoopFaces
  <2>2. \A v \in MqttUsers : UserFaces(task'[v], <<>>)
    BY <1>11 DEF UserFaces, Reading
  <2> QED BY <1>7, <2>1, <2>2 DEF MqttStream
<1> QED BY <1>12, <1>13, <1>15, <1>16 DEF MqttInv

-----------------------------------------------------------------------------
(* The network. *)

\* Bytes arrive: they stay in the stream.
LEMMA ArriveKeeps ==
  ASSUME MqttInv, NEW n \in 1..Len(wire), Arrive(n)
  PROVE  MqttInv'
<1>1. MqttTypes /\ MqttRoles /\ MqttBodies /\ MqttStream
  BY DEF MqttInv
<1>2. /\ buffer' = buffer \o SubSeq(wire, 1, n) /\ wire' = SubSeq(wire, n + 1, Len(wire))
      /\ link = "up" /\ link' = link /\ writer' = writer /\ connected' = connected
      /\ stopping' = stopping /\ task' = task /\ messageId' = messageId
      /\ sent' = sent /\ handled' = handled
  BY DEF Arrive
<1>3. PICK m \in Nat : m = Len(wire)
  BY <1>1, LenProperties DEF MqttTypes
<1>4. PICK p \in Seq(Bytes), w \in Seq(Bytes) : p = buffer /\ w = wire
  BY <1>1 DEF MqttTypes
<1>5. PICK c \in Seq(Bytes), d \in Seq(Bytes) : c = SubSeq(w, 1, n) /\ d = SubSeq(w, n + 1, m)
  <2>1. 1 \in 1..Len(w) + 1 /\ n \in 0..Len(w) /\ n + 1 \in 1..Len(w) + 1 /\ m \in 0..Len(w)
    BY <1>3, <1>4
  <2> QED BY <2>1, PartOfBytes
<1>6. c \o d = w
  <2>1. 1 \in 1..m + 1 /\ n \in 1 - 1..m /\ m \in n..m
    BY <1>3
  <2>2. SubSeq(w, 1, n) \o SubSeq(w, n + 1, m) = SubSeq(w, 1, m)
    BY <1>3, <1>4, <2>1, ConcatAdjacentSubSeq
  <2>3. SubSeq(w, 1, m) = w
    BY <1>3, <1>4, SubSeqFull
  <2> QED BY <1>5, <2>2, <2>3
<1>7. (p \o c) \o d = p \o w /\ p \o c \in Seq(Bytes)
  <2>1. p \o c \in Seq(Bytes)
    BY ConcatProperties
  <2>2. (p \o c) \o d = p \o w
    BY <1>6, JoinBytes
  <2> QED BY <2>1, <2>2
<1>8. buffer' \o wire' = buffer \o wire /\ buffer' \in Seq(Bytes) /\ wire' \in Seq(Bytes)
  BY <1>2, <1>3, <1>4, <1>5, <1>7
<1>9. MqttTypes'
  BY <1>1, <1>2, <1>8 DEF MqttTypes
<1>10. MqttRoles'
  BY <1>1, <1>2 DEF MqttRoles, Opening, Reading, At
<1>11. MqttBodies'
  BY <1>1, <1>2 DEF MqttBodies, At
<1>12. MqttStream'
  BY <1>1, <1>2, <1>8 DEF MqttStream
<1> QED BY <1>9, <1>10, <1>11, <1>12 DEF MqttInv

\* The link breaks.
LEMMA BreakLinkKeeps ==
  ASSUME MqttInv, NEW how \in {"eof", "reset"}, BreakLink(how)
  PROVE  MqttInv'
<1>1. MqttTypes /\ MqttRoles /\ MqttBodies /\ MqttStream
  BY DEF MqttInv
<1>2. /\ link = "up" /\ link' = how /\ buffer' = IF how = "reset" THEN <<>> ELSE buffer
      /\ wire' = wire /\ writer' = writer /\ connected' = connected
      /\ stopping' = stopping /\ task' = task /\ messageId' = messageId
      /\ sent' = sent /\ handled' = handled
  BY DEF BreakLink
<1>3. MqttTypes'
  <2>1. buffer' \in Seq(Bytes)
    BY <1>1, <1>2, EmptySeq DEF MqttTypes
  <2> QED BY <1>1, <1>2, <2>1 DEF MqttTypes
<1>4. MqttRoles'
  BY <1>1, <1>2 DEF MqttRoles, Opening, Reading, At
<1>5. MqttBodies'
  BY <1>1, <1>2 DEF MqttBodies, At
<1>6. MqttStream'
  BY <1>1, <1>2 DEF MqttStream
<1> QED BY <1>3, <1>4, <1>5, <1>6 DEF MqttInv

\* The broker sends a packet more.
LEMMA BrokerSendsKeeps ==
  ASSUME MqttInv, NEW kind \in {"publish", "ack"}, NEW n \in Lengths, BrokerSends(kind, n)
  PROVE  MqttInv'
<1>1. MqttTypes /\ MqttRoles /\ MqttBodies /\ MqttStream
  BY DEF MqttInv
<1>2. PICK k \in Nat, c \in Nat : k = Len(sent) /\ c = Len(handled)
  BY <1>1, LenProperties DEF MqttTypes
<1>3. PICK b, y : b = Body(kind, k + 1, n) /\ y = Packet(kind, k + 1, n)
  OBVIOUS
<1>4. /\ connected /\ sent' = Append(sent, b) /\ wire' = wire \o y
      /\ link = "up" /\ link' = link /\ buffer' = buffer
      /\ writer' = writer /\ connected' = connected
      /\ stopping' = stopping /\ task' = task /\ messageId' = messageId /\ handled' = handled
  BY <1>2, <1>3 DEF BrokerSends
<1>5. IsPacket(y, b)
  <2>1. kind \in PacketKinds /\ k + 1 \in Nat /\ n \in Numbers
    BY <1>2, LengthsEncoded DEF PacketKinds
  <2> QED BY <1>3, <2>1 DEF IsPacket
<1>6. y \in Seq(Bytes) /\ b \in Seq(Bytes)
  BY <1>5, PacketProperties
<1>7. PICK t \in Seq(Seq(Bytes)), u \in Seq(Seq(Bytes)) :
        /\ t = sent /\ u = sent' /\ Len(u) = k + 1
        /\ \A i \in 1..k : u[i] = t[i]
  <2>1. /\ Append(sent, b) \in Seq(Seq(Bytes)) /\ Len(Append(sent, b)) = Len(sent) + 1
        /\ \A i \in 1..Len(sent) : Append(sent, b)[i] = sent[i]
    BY <1>1, <1>6, AppendProperties DEF MqttTypes
  <2> QED BY <1>1, <1>2, <1>4, <2>1 DEF MqttTypes
<1>8. PICK s \in Seq(Bytes) : s = buffer \o wire /\ buffer' \o wire' = s \o y
  <2>1. buffer \in Seq(Bytes) /\ wire \in Seq(Bytes)
    BY <1>1 DEF MqttTypes
  <2>2. (buffer \o wire) \o y = buffer \o (wire \o y) /\ buffer \o wire \in Seq(Bytes)
    BY <1>6, <2>1, JoinBytes, ConcatProperties
  <2> QED BY <1>4, <2>2
<1>9. wire' \in Seq(Bytes)
  BY <1>1, <1>4, <1>6, ConcatProperties DEF MqttTypes
<1>10. c <= k /\ \A i \in 1..c : handled[i] = t[i]
  BY <1>1, <1>2, <1>7 DEF MqttBodies
<1>11. \A v \in MqttUsers : ~Opening(v)
  BY <1>1, <1>4 DEF MqttRoles
<1>12. MqttTypes'
  BY <1>1, <1>4, <1>7, <1>9 DEF MqttTypes
<1>13. MqttRoles'
  <2>1. \A v \in MqttUsers : ~Opening(v)' /\ ~Reading(v)'
    BY <1>4, <1>11 DEF Opening, Reading, At
  <2> QED BY <1>1, <1>4, <2>1 DEF MqttRoles, At
<1>14. MqttBodies'
  <2>1. c <= k + 1 /\ \A i \in 1..c : i \in 1..k
    BY <1>10
  <2>2. \A i \in 1..c : handled[i] = u[i]
    BY <1>7, <1>10, <2>1
  <2>3. At(Loop, "body") => /\ c + 1 \in 1..k + 1
                            /\ task[Loop].value = Len(u[c + 1])
    <3>1. At(Loop, "body") => c + 1 \in 1..k /\ task[Loop].value = Len(t[c + 1])
      BY <1>1, <1>2, <1>7 DEF MqttBodies
    <3> QED BY <1>2, <1>7, <3>1
  <2>4. \A v \in MqttUsers : At(v, "body") => task[v].value = 2
    BY <1>1 DEF MqttBodies
  <2> QED BY <1>2, <1>4, <1>7, <2>1, <2>2, <2>3, <2>4 DEF MqttBodies, At
<1>15. MqttStream'
  <2>1. LoopFaces(task[Loop], stopping, s, c, t)
    BY <1>1, <1>2, <1>4, <1>7, <1>8 DEF MqttStream
  <2>2. PICK l : l = task[Loop]
    OBVIOUS
  <2>3. l.pc = "first" \/ (l.pc = "handling" /\ ~stopping) => Framed(s \o y, c, u)
    <3>1. c \in 0..Len(t)
      BY <1>2, <1>7, <1>10
    <3>2. Framed(s, c, t) => Framed(s \o y, c, Append(t, b))
      BY <1>5, <1>6, <3>1, FramedAppend
    <3> QED BY <1>4, <1>7, <2>1, <2>2, <3>2 DEF LoopFaces
  <2>4. ASSUME l.pc \in {"length", "body"}
        PROVE  /\ c + 1 \in 1..Len(u)
               /\ \E rest \in Seq(Bytes) : /\ Framed(rest, c + 1, u)
                                           /\ Faces(l, s \o y, u[c + 1], rest)
    <3>1. PICK rest \in Seq(Bytes) :
            /\ c + 1 \in 1..Len(t)
            /\ Framed(rest, c + 1, t) /\ Faces(l, s, t[c + 1], rest)
      BY <2>1, <2>2, <2>4 DEF LoopFaces
    <3>2. c + 1 \in 0..Len(t) /\ c + 1 \in 1..k /\ c + 1 \in 1..Len(u)
      BY <1>2, <1>7, <3>1
    <3>3. Framed(rest \o y, c + 1, Append(t, b))
      BY <1>5, <1>6, <3>1, <3>2, FramedAppend
    <3>4. t[c + 1] \in Seq(Bytes)
      BY <3>1, ElementOfSeq
    <3>5. Faces(l, s \o y, t[c + 1], rest \o y)
      BY <1>6, <3>1, <3>4, FacesAppend
    <3>6. u[c + 1] = t[c + 1] /\ u = Append(t, b)
      BY <1>4, <1>7, <3>2
    <3>7. rest \o y \in Seq(Bytes)
      BY <1>6, ConcatProperties
    <3> QED BY <3>2, <3>3, <3>5, <3>6, <3>7
  <2>5. LoopFaces(l, stopping, s \o y, c, u)
    BY <2>3, <2>4 DEF LoopFaces
  <2>6. \A v \in MqttUsers : UserFaces(task[v], s \o y)
    BY <1>11 DEF UserFaces, Opening, Reading
  <2> QED BY <1>2, <1>4, <1>7, <1>8, <2>2, <2>5, <2>6 DEF MqttStream
<1> QED BY <1>12, <1>13, <1>14, <1>15 DEF MqttInv

-----------------------------------------------------------------------------
(* The receive loop. *)

\* The handlers of a packet return.
LEMMA HandlersReturnKeeps ==
  ASSUME MqttInv, HandlersReturn
  PROVE  MqttInv'
<1>1. MqttTypes /\ MqttRoles /\ MqttBodies /\ MqttStream
  BY DEF MqttInv
<1>2. PICK x \in TaskStates :
        /\ x = IF stopping THEN Resting ELSE FirstByte
        /\ x.pc = IF stopping THEN "idle" ELSE "first"
  BY RestingStates, TaskStatesHave DEF FirstByte
<1>3. /\ At(Loop, "handling") /\ Move(Loop, x)
      /\ link' = link /\ wire' = wire /\ buffer' = buffer /\ writer' = writer
      /\ connected' = connected /\ stopping' = stopping /\ messageId' = messageId
      /\ sent' = sent /\ handled' = handled
  BY <1>2 DEF HandlersReturn, linkVars
<1>4. /\ task' \in [Tasks -> TaskStates] /\ task'[Loop] = x
      /\ \A b \in Tasks : b # Loop => task'[b] = task[b]
  BY <1>1, <1>3, TasksDiffer, MoveTo DEF MqttTypes
<1>5. task'[Ping] = task[Ping] /\ \A v \in MqttUsers : task'[v] = task[v]
  BY <1>4, TasksDiffer
<1>6. ~stopping => connected
  BY <1>1, <1>3 DEF MqttRoles, At
<1>7. MqttTypes'
  BY <1>1, <1>2, <1>3, <1>4, <1>5 DEF MqttTypes
<1>8. MqttRoles'
  <2>1. \A a \in Tasks : At(a, "closing")' => stopping'
    BY <1>1, <1>2, <1>3, <1>4 DEF MqttRoles, At
  <2>2. ~At(Loop, "idle")' => connected' \/ stopping'
    BY <1>3, <1>6
  <2>3. ASSUME NEW u \in MqttUsers
        PROVE  /\ Opening(u)' => /\ ~connected' /\ ~Reading(Loop)'
                                 /\ \A v \in MqttUsers : Opening(v)' => v = u
               /\ Reading(u)' => sent' = <<>> /\ handled' = <<>>
    <3>1. \A v \in MqttUsers : (Opening(v)' <=> Opening(v)) /\ (Reading(v)' <=> Reading(v))
      BY <1>5 DEF Opening, Reading, At
    <3>2. ~connected => ~Reading(Loop)'
      BY <1>2, <1>4, <1>6 DEF Reading
    <3> QED BY <1>1, <1>3, <3>1, <3>2 DEF MqttRoles
  <2> QED BY <1>1, <1>3, <2>1, <2>2, <2>3 DEF MqttRoles
<1>9. MqttBodies'
  BY <1>1, <1>2, <1>3, <1>4, <1>5 DEF MqttBodies, At
<1>10. MqttStream'
  <2>1. SUFFICES ASSUME link # "reset" PROVE MqttStream'
    BY <1>3 DEF MqttStream
  <2>2. /\ LoopFaces(task[Loop], stopping, buffer \o wire, Len(handled), sent)
        /\ \A u \in MqttUsers : UserFaces(task[u], buffer \o wire)
    BY <1>1, <2>1 DEF MqttStream
  <2>3. LoopFaces(x, stopping, buffer \o wire, Len(handled), sent)
    BY <1>2, <1>3, <2>2 DEF LoopFaces, At
  <2> QED BY <1>3, <1>4, <1>5, <2>2, <2>3 DEF MqttStream
<1> QED BY <1>7, <1>8, <1>9, <1>10 DEF MqttInv

-----------------------------------------------------------------------------
(* Reading a byte. *)

\* The first byte of a buffer that is not empty is that of the stream.
LEMMA BufferHead ==
  ASSUME NEW p \in Seq(Bytes), NEW w \in Seq(Bytes), p # <<>>
  PROVE  /\ Tail(p) \in Seq(Bytes) /\ p \o w # <<>>
         /\ (p \o w)[1] = p[1] /\ Tail(p \o w) = Tail(p) \o w
<1>1. PICK e, q : e = p[1] /\ q = Tail(p)
  OBVIOUS
<1>2. Len(p) \in Nat \ {0} /\ p[1] \in Bytes
  <2>1. Len(p) \in Nat \ {0}
    BY EmptySeq
  <2> QED BY <2>1, ElementOfSeq
<1>3. q \in Seq(Bytes) /\ Len(q) = Len(p) - 1 /\ \A i \in 1..Len(q) : q[i] = p[i + 1]
  BY <1>1, HeadTailProperties
<1>4. PICK t : t = <<e>> \o q
  OBVIOUS
<1>5. /\ t \in Seq(Bytes) /\ Len(t) = Len(q) + 1 /\ t[1] = e
      /\ \A i \in 1..Len(q) : t[i + 1] = q[i]
  BY <1>1, <1>2, <1>3, <1>4, PrependProperties
<1>6. PICK m \in Nat : m = Len(q)
  BY <1>3, LenProperties
<1>7. Len(p) = m + 1 /\ Len(t) = m + 1
  BY <1>2, <1>3, <1>5, <1>6
<1>8. \A i \in 1..m + 1 : p[i] = t[i]
  <2>1. \A i \in 1..m : p[i + 1] = t[i + 1]
    BY <1>3, <1>5, <1>6
  <2>2. ASSUME NEW i \in 1..m + 1 PROVE p[i] = t[i]
    <3>1. CASE i = 1
      BY <1>1, <1>5, <3>1
    <3>2. CASE i # 1
      <4>1. PICK j \in 1..m : i = j + 1
        BY <3>2
      <4> QED BY <2>1, <4>1
    <3> QED BY <3>1, <3>2
  <2> QED BY <2>2
<1>9. p = t
  BY <1>5, <1>7, <1>8, SeqEqual
<1>10. p \o w = <<e>> \o (q \o w)
  <2>1. PICK g : g = <<e>>
    OBVIOUS
  <2>2. g \in Seq(Bytes)
    BY <1>1, <1>2, <2>1
  <2>3. (g \o q) \o w = g \o (q \o w)
    BY <1>3, <2>2, JoinBytes
  <2> QED BY <1>4, <1>9, <2>1, <2>3
<1>11. PICK y \in Seq(Bytes) : y = q \o w
  BY <1>3, ConcatProperties
<1>12. <<e>> \o y # <<>> /\ (<<e>> \o y)[1] = e /\ Tail(<<e>> \o y) = y
  BY <1>1, <1>2, PrependProperties
<1> QED BY <1>1, <1>3, <1>10, <1>11, <1>12

\* The task that reads faces the rest of the packet it faced.
LEMMA ReadStepFaces ==
  ASSUME MqttTypes, NEW a \in Tasks, ReadStep(a),
         NEW b \in Seq(Bytes), NEW rest \in Seq(Bytes),
         Faces(task[a], buffer \o wire, b, rest)
  PROVE  /\ task' \in [Tasks -> TaskStates] /\ buffer' \in Seq(Bytes)
         /\ task'[a].pc \in {"length", "body"}
         /\ Faces(task'[a], buffer' \o wire', b, rest)
<1>1. PICK p \in Seq(Bytes), w \in Seq(Bytes), t \in TaskStates :
        p = buffer /\ w = wire /\ t = task[a]
  BY DEF MqttTypes
<1>2. PICK s : s = p \o w
  OBVIOUS
<1>3. p # <<>> /\ buffer' = Tail(p) /\ wire' = w
  BY <1>1 DEF ReadStep, ReadFirst, ReadLength
<1>4. /\ Tail(p) \in Seq(Bytes) /\ s # <<>> /\ s[1] = p[1] /\ Tail(s) = Tail(p) \o w
  BY <1>2, <1>3, BufferHead
<1>5. Faces(t, s, b, rest)
  BY <1>1, <1>2
<1>6. CASE ReadFirst(a)
  <2>1. t.pc = "first"
    BY <1>1, <1>6 DEF ReadFirst, At
  <2>2. PICK x : x = [pc |-> "length", kind |-> p[1].kind, value |-> 0, multiplier |-> 1]
    OBVIOUS
  <2>3. x.pc = "length" /\ x.value = 0 /\ x.multiplier = 1 /\ x.kind = p[1].kind
    BY <2>2
  <2>4. s[1].kind \in PacketKinds /\ Faces(x, Tail(s), b, rest)
    BY <1>5, <2>1, <2>3, ReadFirstFaces
  <2>5. x \in TaskStates
    BY <1>4, <2>2, <2>4, TaskStatesHave
  <2>6. Move(a, x)
    BY <1>1, <1>6, <2>2 DEF ReadFirst
  <2>7. task' \in [Tasks -> TaskStates] /\ task'[a] = x
    BY <2>5, <2>6, MoveTo DEF MqttTypes
  <2> QED BY <1>3, <1>4, <2>3, <2>4, <2>7
<1>7. CASE ReadLength(a)
  <2>1. t.pc = "length"
    BY <1>1, <1>7 DEF ReadLength, At
  <2>2. PICK kind \in PacketKinds, v \in Nat, m \in Nat :
          kind = t.kind /\ v = t.value /\ m = t.multiplier
    BY <2>1, TaskStatesShape
  <2>3. t.value = v /\ t.multiplier = m /\ t.kind = kind
    BY <2>2
  <2>4. /\ s[1].more \in BOOLEAN
        /\ v + s[1].digit * m \in Nat /\ m * Base \in Nat
        /\ s[1].more => \A u : /\ u.pc = "length"
                               /\ u.value = v + s[1].digit * m
                               /\ u.multiplier = m * Base
                               => Faces(u, Tail(s), b, rest)
        /\ ~s[1].more => \A u : /\ u.pc = "body"
                                /\ u.value = v + s[1].digit * m
                                => Faces(u, Tail(s), b, rest)
    <3>1. t.value \in Nat /\ t.multiplier \in Nat
      BY <2>3
    <3>2. /\ s[1].more \in BOOLEAN
          /\ t.value + s[1].digit * t.multiplier \in Nat /\ t.multiplier * Base \in Nat
          /\ s[1].more => \A u : /\ u.pc = "length"
                                 /\ u.value = t.value + s[1].digit * t.multiplier
                                 /\ u.multiplier = t.multiplier * Base
                                 => Faces(u, Tail(s), b, rest)
          /\ ~s[1].more => \A u : /\ u.pc = "body"
                                  /\ u.value = t.value + s[1].digit * t.multiplier
                                  => Faces(u, Tail(s), b, rest)
      BY <1>5, <2>1, <3>1, ReadLengthFaces
    <3> QED BY <2>3, <3>2
  <2>5. PICK value \in Nat, multiplier \in Nat :
          value = v + s[1].digit * m /\ multiplier = m * Base
    BY <2>4
  <2>6. IF p[1].more THEN Move(a, [t EXCEPT !.value = value, !.multiplier = @ * Base])
        ELSE Move(a, [pc |-> "body", kind |-> kind, value |-> value])
    BY <1>1, <1>4, <1>7, <2>3, <2>5 DEF ReadLength
  <2>7. CASE s[1].more
    <3>1. PICK x : x = [t EXCEPT !.value = value, !.multiplier = multiplier]
      OBVIOUS
    <3>2. x.pc = "length" /\ x.value = value /\ x.multiplier = multiplier /\ x \in TaskStates
      <4>1. t \in [pc : {"length"}, kind : PacketKinds, value : Nat, multiplier : Nat]
        BY <2>1 DEF TaskStates
      <4>2. /\ x \in [pc : {"length"}, kind : PacketKinds, value : Nat, multiplier : Nat]
            /\ x.pc = "length" /\ x.value = value /\ x.multiplier = multiplier
        BY <3>1, <4>1
      <4>3. x \in TaskStates
        BY <4>2 DEF TaskStates
      <4> QED BY <4>2, <4>3
    <3>3. [t EXCEPT !.value = value, !.multiplier = @ * Base] = x
      <4>1. t.multiplier * Base = multiplier
        BY <2>3, <2>5
      <4> QED BY <3>1, <4>1, Zenon
    <3>4. Move(a, x)
      BY <1>4, <2>6, <2>7, <3>3
    <3>5. task' \in [Tasks -> TaskStates] /\ task'[a] = x
      BY <3>2, <3>4, MoveTo DEF MqttTypes
    <3>6. Faces(x, Tail(s), b, rest)
      BY <2>4, <2>5, <2>7, <3>2
    <3> QED BY <1>3, <1>4, <3>2, <3>5, <3>6
  <2>8. CASE ~s[1].more
    <3>1. PICK x : x = [pc |-> "body", kind |-> kind, value |-> value]
      OBVIOUS
    <3>2. x.pc = "body" /\ x.value = value /\ x \in TaskStates
      BY <3>1, TaskStatesHave
    <3>3. Move(a, x)
      BY <1>4, <2>6, <2>8, <3>1
    <3>4. task' \in [Tasks -> TaskStates] /\ task'[a] = x
      BY <3>2, <3>3, MoveTo DEF MqttTypes
    <3>5. Faces(x, Tail(s), b, rest)
      BY <2>4, <2>5, <2>8, <3>2
    <3> QED BY <1>3, <1>4, <3>2, <3>4, <3>5
  <2> QED BY <2>7, <2>8
<1> QED BY <1>6, <1>7 DEF ReadStep

\* A byte is read.
LEMMA ReadStepKeeps ==
  ASSUME MqttInv, NEW a \in Tasks, ReadStep(a)
  PROVE  MqttInv'
<1>1. MqttTypes /\ MqttRoles /\ MqttBodies /\ MqttStream
  BY DEF MqttInv
<1>2. /\ Reading(a) /\ buffer # <<>> /\ writer /\ a # Ping
      /\ link' = link /\ wire' = wire /\ writer' = writer /\ connected' = connected
      /\ stopping' = stopping /\ messageId' = messageId /\ sent' = sent /\ handled' = handled
      /\ link # "reset"
  <2>1. /\ Reading(a) /\ buffer # <<>> /\ writer
        /\ link' = link /\ wire' = wire /\ writer' = writer /\ connected' = connected
        /\ stopping' = stopping /\ messageId' = messageId /\ sent' = sent
        /\ handled' = handled
    BY DEF ReadStep, ReadFirst, ReadLength, At, Reading
  <2> QED BY <1>1, <2>1 DEF MqttTypes, MqttRoles, Reading
<1>3. \A b \in Tasks : b # a => task'[b] = task[b]
  BY <1>1 DEF ReadStep, ReadFirst, ReadLength, Move, MqttTypes
<1>4. PICK s \in Seq(Bytes) : s = buffer \o wire /\ s # <<>>
  <2>1. PICK p \in Seq(Bytes), w \in Seq(Bytes) : p = buffer /\ w = wire
    BY <1>1 DEF MqttTypes
  <2>2. p \o w \in Seq(Bytes) /\ p \o w # <<>>
    BY <1>2, <2>1, BufferHead, ConcatProperties
  <2> QED BY <2>1, <2>2
<1>5. PICK k \in Nat, c \in Nat, t \in Seq(Seq(Bytes)) :
        k = Len(sent) /\ c = Len(handled) /\ t = sent
  BY <1>1, LenProperties DEF MqttTypes
<1>6. /\ LoopFaces(task[Loop], stopping, s, c, t)
      /\ \A u \in MqttUsers : UserFaces(task[u], s)
  BY <1>1, <1>2, <1>4, <1>5 DEF MqttStream
\* what the step needs of the packet it reads, and what it gives
<1> DEFINE Faced(b, rest) == Faces(task[a], buffer \o wire, b, rest)
           Facing == \E b, rest \in Seq(Bytes) : Faced(b, rest)
<1>7. ASSUME Facing
      PROVE  /\ task' \in [Tasks -> TaskStates] /\ buffer' \in Seq(Bytes)
             /\ task'[a].pc \in {"length", "body"}
  BY <1>1, <1>7, ReadStepFaces
<1>8. CASE a = Loop
  <2>1. \E rest \in Seq(Bytes) : /\ c + 1 \in 1..k /\ Framed(rest, c + 1, t)
                                 /\ Faced(t[c + 1], rest)
    <3>1. CASE task[Loop].pc = "first"
      <4>1. Framed(s, c, t)
        BY <1>6, <3>1 DEF LoopFaces
      <4>2. c \in 0..Len(t)
        BY <1>1, <1>5 DEF MqttBodies
      <4>3. /\ c + 1 \in 1..Len(t)
            /\ \E x, rest \in Seq(Bytes) : /\ IsPacket(x, t[c + 1]) /\ s = x \o rest
                                           /\ Framed(rest, c + 1, t)
        BY <1>4, <4>1, <4>2, FramedHead
      <4>4. PICK x \in Seq(Bytes), rest \in Seq(Bytes) :
              IsPacket(x, t[c + 1]) /\ s = x \o rest /\ Framed(rest, c + 1, t)
        BY <4>3
      <4>5. Faced(t[c + 1], rest)
        BY <1>4, <1>8, <3>1, <4>4 DEF Faces
      <4> QED BY <1>5, <4>3, <4>4, <4>5
    <3>2. CASE task[Loop].pc # "first"
      <4>1. task[Loop].pc \in {"length", "body"}
        BY <1>2, <1>8, <3>2 DEF Reading
      <4>2. /\ c + 1 \in 1..Len(t)
            /\ \E rest \in Seq(Bytes) : /\ Framed(rest, c + 1, t)
                                        /\ Faces(task[Loop], s, t[c + 1], rest)
        BY <1>6, <4>1 DEF LoopFaces
      <4> QED BY <1>4, <1>5, <1>8, <4>2
    <3> QED BY <3>1, <3>2
  <2>2. PICK rest \in Seq(Bytes) :
          c + 1 \in 1..k /\ Framed(rest, c + 1, t) /\ Faced(t[c + 1], rest)
    BY <2>1
  <2>3. t[c + 1] \in Seq(Bytes)
    BY <1>5, <2>2, ElementOfSeq
  <2>4. Faces(task'[Loop], buffer' \o wire', t[c + 1], rest)
    BY <1>1, <1>8, <2>2, <2>3, ReadStepFaces
  <2>5. /\ task' \in [Tasks -> TaskStates] /\ buffer' \in Seq(Bytes)
        /\ task'[Loop].pc \in {"length", "body"}
    BY <1>7, <1>8, <2>2, <2>3
  <2>6. task'[Ping] = task[Ping] /\ \A u \in MqttUsers : task'[u] = task[u]
    BY <1>3, <1>8, TasksDiffer
  <2>7. MqttTypes'
    BY <1>1, <1>2, <2>5, <2>6 DEF MqttTypes
  <2>8. MqttRoles'
    <3>1. \A u \in MqttUsers : ~Opening(u)
      BY <1>1, <1>2, <1>8 DEF MqttRoles
    <3>2. \A u \in MqttUsers : ~Opening(u)' /\ ~Reading(u)'
      BY <2>6, <3>1 DEF Opening, Reading, At
    <3>3. connected' \/ stopping'
      BY <1>1, <1>2, <1>8 DEF MqttRoles, Reading, At
    <3>4. \A d \in Tasks : At(d, "closing")' => stopping'
      BY <1>1, <1>2, <1>3, <1>8, <2>5 DEF MqttRoles, At
    <3> QED BY <1>1, <1>2, <3>2, <3>3, <3>4 DEF MqttRoles
  <2>9. MqttBodies'
    <3>1. task'[Loop].pc = "body" => task'[Loop].value = Len(t[c + 1])
      BY <2>4 DEF Faces
    <3>2. At(Loop, "body")' => /\ Len(handled') + 1 \in 1..Len(sent')
                               /\ task'[Loop].value = Len(sent'[Len(handled') + 1])
      BY <1>2, <1>5, <2>2, <3>1 DEF At
    <3>3. \A u \in MqttUsers : At(u, "body")' => task'[u].value = 2
      BY <1>1, <2>6 DEF MqttBodies, At
    <3> QED BY <1>1, <1>2, <3>2, <3>3 DEF MqttBodies
  <2>10. MqttStream'
    <3>1. LoopFaces(task'[Loop], stopping', buffer' \o wire', c, t)
      BY <1>5, <2>2, <2>4, <2>5 DEF LoopFaces
    <3>2. \A u \in MqttUsers : UserFaces(task'[u], buffer' \o wire')
      <4>1. \A u \in MqttUsers : ~Reading(u)
        BY <1>1, <1>2, <1>8 DEF MqttRoles, Opening
      <4> QED BY <2>6, <4>1 DEF UserFaces, Reading
    <3> QED BY <1>2, <1>5, <3>1, <3>2 DEF MqttStream
  <2> QED BY <2>7, <2>8, <2>9, <2>10 DEF MqttInv
<1>9. CASE a \in MqttUsers
  <2>1. UserFaces(task[a], s)
    BY <1>6, <1>9
  <2>2. PICK b \in Seq(Bytes) : Len(b) = 2 /\ Faced(b, <<>>)
    BY <1>2, <1>4, <2>1 DEF UserFaces, Reading
  <2>3. PICK rest \in Seq(Bytes) : rest = <<>>
    BY EmptySeq
  <2>4. Faces(task'[a], buffer' \o wire', b, <<>>)
    BY <1>1, <2>2, <2>3, ReadStepFaces
  <2>5. /\ task' \in [Tasks -> TaskStates] /\ buffer' \in Seq(Bytes)
        /\ task'[a].pc \in {"length", "body"}
    BY <1>7, <2>2, <2>3
  <2>6. a # Loop /\ task'[Ping] = task[Ping] /\ task'[Loop] = task[Loop]
    BY <1>2, <1>3, <1>9, TasksDiffer
  <2>7. \A u \in MqttUsers : u # a => task'[u] = task[u]
    BY <1>3, TasksDiffer
  <2>8. /\ ~connected /\ ~Reading(Loop) /\ sent = <<>> /\ handled = <<>>
        /\ \A v \in MqttUsers : Opening(v) => v = a
    BY <1>1, <1>2, <1>9 DEF MqttRoles, Opening
  <2>9. ~Reading(Loop)' /\ \A v \in MqttUsers : Opening(v)' => v = a
    BY <2>6, <2>7, <2>8 DEF Opening, Reading, At
  <2>10. MqttTypes'
    BY <1>1, <1>2, <2>5, <2>6 DEF MqttTypes
  <2>11. MqttRoles'
    <3>1. \A d \in Tasks : At(d, "closing")' => stopping'
      BY <1>1, <1>2, <1>3, <2>5 DEF MqttRoles, At
    <3>2. ~At(Loop, "idle")' => connected' \/ stopping'
      BY <1>1, <1>2, <2>6 DEF MqttRoles, At
    <3> QED BY <1>1, <1>2, <2>8, <2>9, <3>1, <3>2 DEF MqttRoles
  <2>12. MqttBodies'
    <3>1. At(Loop, "body")' <=> At(Loop, "body")
      BY <2>6 DEF At
    <3>2. \A u \in MqttUsers : At(u, "body")' => task'[u].value = 2
      <4>1. At(a, "body")' => task'[a].value = 2
        BY <2>2, <2>4 DEF Faces, At
      <4> QED BY <1>1, <2>7, <4>1 DEF MqttBodies, At
    <3> QED BY <1>1, <1>2, <2>6, <3>1, <3>2 DEF MqttBodies
  <2>13. MqttStream'
    <3>1. LoopFaces(task'[Loop], stopping', buffer' \o wire', Len(handled'), sent')
      <4>1. task[Loop].pc = "handling" => stopping
        BY <1>1, <2>8 DEF MqttRoles, At
      <4> QED BY <1>2, <2>6, <2>8, <4>1 DEF LoopFaces, Reading
    <3>2. UserFaces(task'[a], buffer' \o wire')
      BY <2>2, <2>4 DEF UserFaces
    <3>3. \A u \in MqttUsers : u # a => UserFaces(task'[u], buffer' \o wire')
      BY <2>9 DEF UserFaces, Opening, Reading
    <3> QED BY <3>1, <3>2, <3>3 DEF MqttStream
  <2> QED BY <2>10, <2>11, <2>12, <2>13 DEF MqttInv
<1> QED BY <1>2, <1>8, <1>9, TasksDiffer

-----------------------------------------------------------------------------
(* A packet is handled. *)

\* The loop has the rest of a packet and handles it: what it hands over is the next
\* packet sent, and the stream goes on with the ones after.
LEMMA ReceiveKeeps ==
  ASSUME MqttInv, Receive
  PROVE  MqttInv'
<1>1. MqttTypes /\ MqttRoles /\ MqttBodies /\ MqttStream
  BY DEF MqttInv
<1>2. Ready(Loop) /\ Whole(Loop, Arrived(Loop)) /\ At(Loop, "body") /\ Reading(Loop)
  BY DEF Receive, Ready, Reading, At
<1>3. PICK v \in 0..Len(buffer) :
        /\ v = task[Loop].value /\ v \in Nat
        /\ Arrived(Loop) = SubSeq(buffer, 1, v) /\ SubSeq(buffer, 1, v) \in Seq(Bytes)
        /\ Len(SubSeq(buffer, 1, v)) = v
        /\ SubSeq(buffer, v + 1, Len(buffer)) \in Seq(Bytes)
  BY <1>1, <1>2, TasksDiffer, ArrivedWhole
<1>4. PICK data \in Seq(Bytes) : data = SubSeq(buffer, 1, v) /\ Len(data) = v
  BY <1>3
<1>5. PICK k \in Nat, c \in Nat, t \in Seq(Seq(Bytes)), h \in Seq(Seq(Bytes)) :
        k = Len(t) /\ c = Len(h) /\ t = sent /\ h = handled
  BY <1>1, LenProperties DEF MqttTypes
<1>6. c + 1 \in 1..k /\ v = Len(t[c + 1])
  BY <1>1, <1>2, <1>3, <1>5 DEF MqttBodies
<1>7. PICK b \in Seq(Bytes) : b = t[c + 1] /\ v = Len(b)
  <2>1. t[c + 1] \in Seq(Bytes)
    BY <1>5, <1>6, ElementOfSeq
  <2> QED BY <1>6, <2>1
<1>8. PICK x \in TaskStates :
        /\ x = IF task[Loop].kind = "publish" THEN [pc |-> "handling"]
               ELSE IF stopping THEN Resting ELSE FirstByte
        /\ x.pc \in {"handling", "idle", "first"}
        /\ x.pc = "first" => ~stopping
        /\ x.pc = "idle" \/ x.pc = "handling" \/ x.pc = "first"
  <2>1. /\ [pc |-> "handling"] \in TaskStates /\ [pc |-> "handling"].pc = "handling"
        /\ FirstByte \in TaskStates /\ FirstByte.pc = "first"
    BY TaskStatesHave DEF FirstByte
  <2> QED BY <2>1, RestingStates
<1>9. /\ buffer' = SubSeq(buffer, v + 1, Len(buffer)) /\ handled' = Append(h, data)
      /\ Move(Loop, x)
      /\ link' = link /\ wire' = wire /\ writer' = writer /\ connected' = connected
      /\ stopping' = stopping /\ messageId' = messageId /\ sent' = t
  BY <1>3, <1>4, <1>5, <1>8 DEF Receive
<1>10. /\ task' \in [Tasks -> TaskStates] /\ task'[Loop] = x
       /\ \A d \in Tasks : d # Loop => task'[d] = task[d]
  BY <1>1, <1>9, TasksDiffer, MoveTo DEF MqttTypes
<1>11. task'[Ping] = task[Ping] /\ \A u \in MqttUsers : task'[u] = task[u]
  BY <1>10, TasksDiffer
<1>12. PICK g \in Seq(Seq(Bytes)) :
         /\ g = handled' /\ Len(g) = c + 1
         /\ \A i \in 1..c : g[i] = h[i]
         /\ g[c + 1] = data
  BY <1>5, <1>9, AppendProperties
\* unless the connection was reset, what is read is the body of the next packet
<1>13. ASSUME link # "reset"
       PROVE  data = b /\ Framed(buffer' \o wire', c + 1, t)
  <2>1. LoopFaces(task[Loop], stopping, buffer \o wire, c, t)
    BY <1>1, <1>5, <1>13 DEF MqttStream
  <2>2. PICK rest \in Seq(Bytes) :
          Framed(rest, c + 1, t) /\ Faces(task[Loop], buffer \o wire, b, rest)
    BY <1>2, <1>7, <2>1 DEF LoopFaces, At
  <2>3. buffer \o wire = b \o rest
    BY <1>2, <2>2 DEF Faces, At
  <2>4. SubSeq(buffer, 1, v) = b /\ SubSeq(buffer, v + 1, Len(buffer)) \o wire = rest
    <3>1. buffer \in Seq(Bytes) /\ wire \in Seq(Bytes)
      BY <1>1 DEF MqttTypes
    <3> QED BY <1>7, <2>3, <3>1, StreamTake
  <2> QED BY <1>4, <1>9, <2>2, <2>4
\* after a reset nothing is left, and only an empty body can be read
<1>14. ASSUME link = "reset" PROVE data = b
  <2>1. v = 0
    BY <1>1, <1>2, <1>3, <1>14 DEF Ready, MqttRoles
  <2>2. data = <<>> /\ b = <<>>
    BY <1>4, <1>7, <2>1, EmptySeq
  <2> QED BY <2>2
<1>15. data = b
  BY <1>13, <1>14
<1>16. MqttTypes'
  BY <1>1, <1>3, <1>5, <1>8, <1>9, <1>10, <1>11, <1>12 DEF MqttTypes
<1>17. MqttRoles'
  <2>1. \A u \in MqttUsers : ~Opening(u)
    BY <1>1, <1>2 DEF MqttRoles
  <2>2. \A u \in MqttUsers : ~Opening(u)' /\ ~Reading(u)'
    BY <1>11, <2>1 DEF Opening, Reading, At
  <2>3. connected' \/ stopping'
    BY <1>1, <1>2, <1>9 DEF MqttRoles, At
  <2>4. \A d \in Tasks : At(d, "closing")' => stopping'
    BY <1>1, <1>8, <1>9, <1>10 DEF MqttRoles, At
  <2>5. link' = "reset" => buffer' = <<>>
    <3>1. ASSUME link = "reset" PROVE buffer' = <<>>
      <4>1. v = 0 /\ buffer = <<>>
        BY <1>1, <1>2, <1>3, <3>1 DEF Ready, MqttRoles
      <4>2. Len(buffer) = 0
        BY <4>1, EmptySeq
      <4>3. SubSeq(buffer, v + 1, Len(buffer)) = <<>>
        BY <4>1, <4>2, SubSeqEmpty
      <4> QED BY <1>9, <4>3
    <3> QED BY <1>9, <3>1
  <2> QED BY <1>1, <1>9, <2>2, <2>3, <2>4, <2>5 DEF MqttRoles
<1>18. MqttBodies'
  <2>1. c + 1 <= k /\ \A i \in 1..c + 1 : i = c + 1 \/ i \in 1..c
    BY <1>6
  <2>2. \A i \in 1..c : h[i] = t[i]
    BY <1>1, <1>5 DEF MqttBodies
  <2>3. \A i \in 1..c + 1 : g[i] = t[i]
    BY <1>7, <1>12, <1>15, <2>1, <2>2
  <2>4. ~At(Loop, "body")' /\ \A u \in MqttUsers : At(u, "body")' => task'[u].value = 2
    BY <1>1, <1>8, <1>10, <1>11 DEF MqttBodies, At
  <2> QED BY <1>5, <1>9, <1>12, <2>1, <2>3, <2>4 DEF MqttBodies
<1>19. MqttStream'
  <2>1. SUFFICES ASSUME link # "reset" PROVE MqttStream'
    BY <1>9 DEF MqttStream
  <2>2. Framed(buffer' \o wire', c + 1, t)
    BY <1>13, <2>1
  <2>3. LoopFaces(task'[Loop], stopping', buffer' \o wire', c + 1, t)
    BY <1>8, <1>10, <2>2 DEF LoopFaces
  <2>4. \A u \in MqttUsers : UserFaces(task'[u], buffer' \o wire')
    <3>1. \A u \in MqttUsers : ~Reading(u)
      BY <1>1, <1>2 DEF MqttRoles, Opening
    <3> QED BY <1>11, <3>1 DEF UserFaces, Reading
  <2> QED BY <1>9, <1>12, <2>3, <2>4 DEF MqttStream
<1> QED BY <1>16, <1>17, <1>18, <1>19 DEF MqttInv

-----------------------------------------------------------------------------
(* The MQTT client: every step, and the theorems. *)

\* Nothing is connected.
LEMMA MqttInitially ==
  ASSUME MqttInit
  PROVE  MqttInv
<1>1. /\ link = "none" /\ wire = <<>> /\ buffer = <<>>
      /\ writer = FALSE /\ connected = FALSE /\ stopping = FALSE
      /\ task = [a \in Tasks |-> Resting] /\ messageId = 0 /\ sent = <<>> /\ handled = <<>>
  BY DEF MqttInit
<1>2. \A a \in Tasks : task[a].pc = "idle" /\ task[a] \in TaskStates
  BY <1>1, RestingStates
<1>3. task \in [Tasks -> TaskStates]
  BY <1>1, RestingStates
<1>4. task[Loop].pc = "idle" /\ task[Ping].pc = "idle"
      /\ \A u \in MqttUsers : task[u].pc = "idle"
  BY <1>2, TasksDiffer
<1>5. MqttTypes
  <2>1. writer \in BOOLEAN /\ connected \in BOOLEAN /\ stopping \in BOOLEAN
    BY <1>1, Zenon
  <2>2. messageId \in 0..IdSpace - 1
    BY <1>1, MqttAssumption
  <2>3. /\ buffer \in Seq(Bytes) /\ wire \in Seq(Bytes)
        /\ sent \in Seq(Seq(Bytes)) /\ handled \in Seq(Seq(Bytes))
    BY <1>1, EmptySeq
  <2> QED BY <1>1, <1>3, <1>4, <2>1, <2>2, <2>3 DEF MqttTypes
<1>6. MqttRoles
  BY <1>1, <1>2, <1>4 DEF MqttRoles, Opening, Reading, At
<1>7. MqttBodies
  <2>1. PICK s \in Seq(Seq(Bytes)) : s = <<>> /\ Len(s) = 0
    BY EmptySeq
  <2> QED BY <1>1, <1>4, <2>1 DEF MqttBodies, At
<1>8. MqttStream
  BY <1>4 DEF MqttStream, LoopFaces, UserFaces
<1> QED BY <1>5, <1>6, <1>7, <1>8 DEF MqttInv

\* Every step of the client, the broker and the network keeps the invariant.
LEMMA MqttStep ==
  ASSUME MqttInv, [MqttNext]_mqttVars
  PROVE  MqttInv'
<1>1. MqttTypes /\ MqttRoles
  BY DEF MqttInv
<1>2. ASSUME NEW u \in MqttUsers, MqttConnect(u) PROVE MqttInv'
  BY <1>2, MqttConnectKeeps
<1>3. ASSUME NEW u \in MqttUsers, Connected(u) PROVE MqttInv'
  BY <1>3, ConnectedKeeps
<1>4. ASSUME NEW u \in MqttUsers, ConnectFails(u) PROVE MqttInv'
  BY <1>4, ConnectFailsQuiet, QuietKeeps
<1>5. ASSUME NEW u \in MqttUsers, ConnectEnds(u) PROVE MqttInv'
  BY <1>5, ConnectEndsQuiet, QuietKeeps
<1>6. ASSUME NEW u \in MqttUsers, UserDisconnect(u) PROVE MqttInv'
  <2>1. u \in Tasks /\ u # Ping /\ u # Loop
    BY TasksDiffer
  <2>2. Quiet
    BY <1>6, <2>1, DisconnectQuiet DEF UserDisconnect
  <2> QED BY <2>2, QuietKeeps
<1>7. ASSUME NEW u \in MqttUsers, MqttPublish(u) PROVE MqttInv'
  BY <1>7, PublishQuiet, QuietKeeps
<1>8. ASSUME NEW a \in Tasks, ReadStep(a) PROVE MqttInv'
  BY <1>8, ReadStepKeeps
<1>9. ASSUME NEW a \in Tasks, Drained(a) PROVE MqttInv'
  BY <1>9, DrainedQuiet, QuietKeeps
<1>10. ASSUME NEW a \in Tasks, Closed(a) PROVE MqttInv'
  BY <1>10, ClosedQuiet, QuietKeeps
<1>11. CASE Receive
  BY <1>11, ReceiveKeeps
<1>12. CASE HandlersReturn
  BY <1>12, HandlersReturnKeeps
<1>13. CASE ReceiveFails
  <2>1. connected \/ stopping
    BY <1>1, <1>13 DEF ReceiveFails, ReadFails, Reading, MqttRoles, At
  <2>2. Quiet
    BY <1>13, <2>1, TasksDiffer, DisconnectQuiet DEF ReceiveFails
  <2> QED BY <2>2, QuietKeeps
<1>14. ASSUME NEW kind \in {"publish", "ack"}, NEW n \in Lengths, BrokerSends(kind, n)
       PROVE  MqttInv'
  BY <1>14, BrokerSendsKeeps
<1>15. ASSUME NEW n \in 1..Len(wire), Arrive(n) PROVE MqttInv'
  BY <1>15, ArriveKeeps
<1>16. ASSUME NEW how \in {"eof", "reset"}, BreakLink(how) PROVE MqttInv'
  BY <1>16, BreakLinkKeeps
<1>17. CASE UNCHANGED mqttVars
  BY <1>17, StutterQuiet, QuietKeeps
<1> QED BY <1>2, <1>3, <1>4, <1>5, <1>6, <1>7, <1>8, <1>9, <1>10, <1>11, <1>12, <1>13,
           <1>14, <1>15, <1>16, <1>17 DEF MqttNext

\* The types, and the packets handled, which are the first ones sent.
LEMMA MqttConsequence ==
  ASSUME MqttInv
  PROVE  MqttTypeOK /\ PacketsFramed
<1>1. PICK k \in Nat, c \in Nat, t \in Seq(Seq(Bytes)), h \in Seq(Seq(Bytes)) :
        k = Len(t) /\ c = Len(h) /\ t = sent /\ h = handled
  BY LenProperties DEF MqttInv, MqttTypes
<1>2. c <= k /\ \A i \in 1..c : h[i] = t[i]
  BY <1>1 DEF MqttInv, MqttBodies
<1>3. \A i \in 1..c : i \in 1..k
  BY <1>2
<1>4. /\ \A i \in 1..c : h[i] \in Seq(Bytes)
      /\ \A i \in 1..c : t[i] \in Seq(Bytes)
  BY <1>1, <1>3, ElementOfSeq
<1>5. PICK x, y : x = SubSeq(h, 1, c) /\ y = SubSeq(t, 1, c)
  OBVIOUS
<1>6. /\ x \in Seq(Seq(Bytes)) /\ Len(x) = IF 1 <= c THEN c - 1 + 1 ELSE 0
      /\ \A i \in 1..c - 1 + 1 : x[i] = h[1 + i - 1]
  BY <1>4, <1>5, SubSeqProperties
<1>7. /\ y \in Seq(Seq(Bytes)) /\ Len(y) = IF 1 <= c THEN c - 1 + 1 ELSE 0
      /\ \A i \in 1..c - 1 + 1 : y[i] = t[1 + i - 1]
  BY <1>4, <1>5, SubSeqProperties
<1>8. Len(x) = c /\ Len(y) = c
  BY <1>1, <1>6, <1>7
<1>9. x = y
  <2>1. ASSUME NEW i \in 1..c PROVE x[i] = y[i]
    <3>1. i \in 1..c - 1 + 1 /\ 1 + i - 1 = i
      OBVIOUS
    <3>2. x[i] = h[i] /\ y[i] = t[i]
      BY <1>6, <1>7, <3>1
    <3> QED BY <1>2, <3>2
  <2> QED BY <1>6, <1>7, <1>8, <2>1, SeqEqual
<1>10. PacketsFramed
  BY <1>1, <1>2, <1>5, <1>9 DEF PacketsFramed, IsPrefix
<1>11. MqttTypeOK
  BY DEF MqttInv, MqttTypes, MqttRoles, MqttTypeOK
<1> QED BY <1>10, <1>11

\* The invariant of the client, in every reachable state.
LEMMA MqttInductive == MqttSpec => []MqttInv
<1>1. MqttInit => MqttInv
  BY MqttInitially
<1>2. MqttInv /\ [MqttNext]_mqttVars => MqttInv'
  BY MqttStep
<1> QED BY <1>1, <1>2, PTL DEF MqttSpec

\* The states of the client have their types: see MqttTypeOK.
THEOREM MqttTypesCorrect == MqttSpec => []MqttTypeOK
<1>1. MqttInv => MqttTypeOK
  BY MqttConsequence
<1> QED BY <1>1, MqttInductive, PTL

\* The packets that are handled are the broker's, whole and in its order, however their
\* bytes arrive, whatever breaks the connection and however many times the client connects.
THEOREM PacketsFramedCorrect == MqttSpec => []PacketsFramed
<1>1. MqttInv => PacketsFramed
  BY MqttConsequence
<1> QED BY <1>1, MqttInductive, PTL
=============================================================================
