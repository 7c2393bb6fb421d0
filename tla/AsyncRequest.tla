---------------------------- MODULE AsyncRequest ----------------------------
(***************************************************************************)
(* What gateway/acp_client.c promises its caller, the links and the        *)
(* gateway left out: "one-question-one-answer" (acp_client.c:1640).  One   *)
(* request is open at a time, and one more may be in the hands of the      *)
(* task; requests are told in the order they were asked, none twice, and   *)
(* none that was given up.                                                 *)
(***************************************************************************)
CONSTANTS
    Reqs,     \* the requests
    NoReq

VARIABLES
    open,     \* the request that waits for its answer
    hand,     \* the one whose route was taken and whose notice is on its way
    told      \* the notices taken for each request

Init == open = NoReq /\ hand = NoReq /\ told = [r \in Reqs |-> <<>>]

\* A request is asked when none is open, and again only as a new one.
Ask(r) ==
    /\ open = NoReq /\ hand # r /\ told[r] = <<>>
    /\ open' = r
    /\ UNCHANGED <<hand, told>>

\* It was not sent: nothing will be told for it.
GiveUp ==
    /\ open # NoReq /\ open' = NoReq
    /\ UNCHANGED <<hand, told>>

Take ==
    /\ open # NoReq /\ hand = NoReq
    /\ hand' = open /\ open' = NoReq
    /\ UNCHANGED told

\* The notice is pushed, or lost.
Tell(notice) ==
    /\ hand # NoReq /\ told[hand] = <<>>
    /\ told' = [told EXCEPT ![hand] = <<notice>>]
    /\ hand' = NoReq
    /\ UNCHANGED open

\* There is no memory for the notice of the open request.
Lose ==
    /\ open # NoReq /\ hand = NoReq /\ told[open] = <<>>
    /\ told' = [told EXCEPT ![open] = <<"lost">>]
    /\ open' = NoReq
    /\ UNCHANGED hand

Next ==
    \/ GiveUp \/ Take \/ Lose
    \/ \E r \in Reqs : Ask(r)
    \/ \E notice \in {"reply", "timeout", "lost"} : Tell(notice)

Spec == Init /\ [][Next]_<<open, hand, told>>
=============================================================================
