---------------------------- MODULE ClientSession ----------------------------
(***************************************************************************)
(* What gateway/ws_server.c promises every client, the slots, buffers and  *)
(* sockets left out: a connection that was made is admitted or dropped;    *)
(* one that is admitted shakes hands with its first item, once, and only   *)
(* if it is welcome; then, and only then, its items are taken up one by one  *)
(* and it is told replies; and one that is gone is never served again.     *)
(***************************************************************************)
EXTENDS Naturals

CONSTANTS
    Conns,    \* the connections
    Known,    \* those that present the token
    Replies

VARIABLES
    welcome,  \* all connections, or those that present the token
    phase,    \* how far each connection has come
    taken,    \* how many of its items were taken up
    told      \* the replies each connection got

Init ==
    /\ welcome \in {Known, Conns}
    /\ phase = [c \in Conns |-> "new"]
    /\ taken = [c \in Conns |-> 0] /\ told = [c \in Conns |-> {}]

Move(c, from, to) == phase[c] = from /\ phase' = [phase EXCEPT ![c] = to]
TakeNext(c) == taken' = [taken EXCEPT ![c] = @ + 1]

Knock(c) == Move(c, "new", "waiting") /\ UNCHANGED <<taken, told>>
Admit(c) == Move(c, "waiting", "admitted") /\ UNCHANGED <<taken, told>>

\* The upgrade request is the first item, and is answered once.
Shake(c) ==
    /\ c \in welcome /\ taken[c] = 0
    /\ Move(c, "admitted", "shaken") /\ TakeNext(c)
    /\ UNCHANGED told

TakeText(c) == phase[c] = "shaken" /\ TakeNext(c) /\ UNCHANGED <<phase, told>>
TakeClose(c) == Move(c, "shaken", "gone") /\ TakeNext(c) /\ UNCHANGED told

Tell(c, reply) ==
    /\ phase[c] = "shaken"
    /\ told' = [told EXCEPT ![c] = @ \cup {reply}]
    /\ UNCHANGED <<phase, taken>>

\* No slot for it, a request that is refused, a link that fails, a client
\* that leaves.
Drop(c) ==
    /\ \E from \in {"waiting", "admitted", "shaken"} : Move(c, from, "gone")
    /\ UNCHANGED <<taken, told>>

Next ==
    /\ \E c \in Conns :
          \/ Knock(c) \/ Admit(c) \/ Shake(c) \/ TakeText(c) \/ TakeClose(c) \/ Drop(c)
          \/ \E reply \in Replies : Tell(c, reply)
    /\ UNCHANGED welcome

Spec == Init /\ [][Next]_<<welcome, phase, taken, told>>
=============================================================================
