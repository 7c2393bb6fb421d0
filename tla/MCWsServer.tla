------------------------------ MODULE MCWsServer ------------------------------
(* Instances of WsServer for TLC.                                             *)
EXTENDS WsServer

CONSTANTS c1, c2, c3, f1, f2

\* A client that asks, one that only shakes hands, and a stranger.
MCItems == [c \in Conns |-> IF c = c2 THEN 1 ELSE 2]

\* Bound of the run.  With the token of the build, the connections come in a
\* fixed order, the stranger last, which says nothing; with another token or
\* none, the stranger asks, and one client shakes hands.
Company ==
    \/ /\ auth = "build" /\ sent[c3] = 0
       /\ c2 \in joined => c1 \in joined
       /\ c3 \in joined => c2 \in joined
    \/ auth # "build" /\ c2 \notin joined /\ sent[c1] < 2
=============================================================================
