---------------------------- MODULE CacheSession ----------------------------
(***************************************************************************)
(* What a connection to a cache node promises the task that uses it: its   *)
(* writes take effect at the node one by one, in the order in which they   *)
(* were sent, and a GET is answered with the value its key has once all    *)
(* the writes sent before it have taken effect.                            *)
(***************************************************************************)
EXTENDS Naturals, Sequences

CONSTANTS Nodes, Keys, Values, Sessions, None

VARIABLES
  data,     \* the values each node holds
  home,     \* the node a session is connected to
  posted,   \* the writes of a session that have not taken effect
  asked,    \* the key of the session's GET in progress
  answer    \* the answer to its last GET

vars == <<data, home, posted, asked, answer>>

Writes ==
  [op : {"set"}, key : Keys, value : Values]
    \cup [op : {"delete"}, key : Keys] \cup {[op |-> "clear"]}

\* What the node n holds after the write w.
After(held, w) ==
  [k \in Keys |-> IF w.op = "clear" THEN None
                  ELSE IF k # w.key THEN held[k]
                  ELSE IF w.op = "set" THEN w.value ELSE None]

Init ==
  /\ data = [n \in Nodes |-> [k \in Keys |-> None]]
  /\ home = [s \in Sessions |-> None]
  /\ posted = [s \in Sessions |-> <<>>]
  /\ asked = [s \in Sessions |-> None]
  /\ answer = [s \in Sessions |-> None]

Opened(s, n) ==
  /\ home[s] = None
  /\ home' = [home EXCEPT ![s] = n]

Open(s, n) == Opened(s, n) /\ UNCHANGED <<data, posted, asked, answer>>

\* One call may write through several sessions at once, one of them new.
Post(S, w) ==
  /\ UNCHANGED home \/ \E s \in S, n \in Nodes : Opened(s, n)
  /\ \A s \in S : home'[s] # None /\ asked[s] = None
  /\ posted' = [s \in Sessions |-> IF s \in S THEN Append(posted[s], w) ELSE posted[s]]
  /\ UNCHANGED <<data, asked, answer>>

Ask(s, k) ==
  /\ home[s] # None /\ asked[s] = None
  /\ asked' = [asked EXCEPT ![s] = k]
  /\ answer' = [answer EXCEPT ![s] = None]
  /\ UNCHANGED <<data, home, posted>>

Apply(s) ==
  /\ posted[s] # <<>>
  /\ data' = [data EXCEPT ![home[s]] = After(@, Head(posted[s]))]
  /\ posted' = [posted EXCEPT ![s] = Tail(@)]
  /\ UNCHANGED <<home, asked, answer>>

Answer(s) ==
  /\ asked[s] # None /\ posted[s] = <<>>
  /\ answer' = [answer EXCEPT ![s] = [key |-> asked[s], value |-> data[home[s]][asked[s]]]]
  /\ asked' = [asked EXCEPT ![s] = None]
  /\ UNCHANGED <<data, home, posted>>

\* Expired values are dropped, and the program that owns the node writes to it.
Expire(n, K) ==
  /\ data' = [data EXCEPT ![n] = [k \in Keys |-> IF k \in K THEN None ELSE @[k]]]
  /\ UNCHANGED <<home, posted, asked, answer>>

Local(n, w) ==
  /\ data' = [data EXCEPT ![n] = After(@, w)]
  /\ UNCHANGED <<home, posted, asked, answer>>

\* Connections break, alone or because their node crashed.
Lose(S) ==
  /\ posted' = [s \in Sessions |-> IF s \in S THEN <<>> ELSE posted[s]]
  /\ asked' = [s \in Sessions |-> IF s \in S THEN None ELSE asked[s]]
  /\ UNCHANGED <<home, answer>>
  /\ \/ UNCHANGED data
     \/ \E n \in Nodes :
          /\ \A s \in Sessions : home[s] = n => s \in S
          /\ data' = [data EXCEPT ![n] = [k \in Keys |-> None]]

Next ==
  \/ \E s \in Sessions, n \in Nodes : Open(s, n)
  \/ \E S \in SUBSET Sessions, w \in Writes : Post(S, w)
  \/ \E s \in Sessions, k \in Keys : Ask(s, k)
  \/ \E s \in Sessions : Apply(s) \/ Answer(s)
  \/ \E n \in Nodes, K \in SUBSET Keys : Expire(n, K)
  \/ \E n \in Nodes, w \in Writes : Local(n, w)
  \/ \E S \in SUBSET Sessions : Lose(S)

\* Said this way a step that changes nothing is seen to be one at once.
Spec == Init /\ [][vars' # vars /\ Next]_vars
=============================================================================
