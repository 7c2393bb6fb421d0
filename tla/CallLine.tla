------------------------------- MODULE CallLine -------------------------------
(***************************************************************************)
(* What ai_mcp_server.c promises the cloud for the requests other than     *)
(* tools/list, the tools, their arguments and the threads left out: a note *)
(* is never answered; every other request is answered at once or, if it is *)
(* a call, joins the line; the line is served one call at a time, in the   *)
(* order of joining, each answered once; and no call is left without an    *)
(* answer unless the server was lost.                                      *)
(***************************************************************************)
EXTENDS Sequences

CONSTANTS
    Reqs,      \* the requests
    Calls,     \* those that call a tool
    Notes,     \* what gets no reply: notifications, requests with an unusable id
    Replies

VARIABLES
    fresh,     \* the requests that have not arrived
    line,      \* the calls that wait for their answers
    answers,   \* the replies to each request
    lost       \* the server was lost

Init == fresh = Reqs /\ line = <<>> /\ answers = [r \in Reqs |-> <<>>] /\ lost = FALSE

Arrive(r) == r \in fresh /\ fresh' = fresh \ {r}
Reply(r, reply) == answers[r] = <<>> /\ answers' = [answers EXCEPT ![r] = <<reply>>]

Ignore(r) == r \in Notes /\ Arrive(r) /\ UNCHANGED <<line, answers, lost>>
AnswerNow(r, reply) == r \notin Notes /\ Arrive(r) /\ Reply(r, reply) /\ UNCHANGED <<line, lost>>
Join(r) == r \in Calls \ Notes /\ Arrive(r) /\ line' = Append(line, r) /\ UNCHANGED <<answers, lost>>

Serve(reply) ==
    /\ line # <<>> /\ Reply(Head(line), reply)
    /\ line' = Tail(line)
    /\ UNCHANGED <<fresh, lost>>

Lose == lost' = TRUE /\ UNCHANGED <<fresh, line, answers>>

Abandon == lost /\ line # <<>> /\ line' = Tail(line) /\ UNCHANGED <<fresh, answers, lost>>

Next ==
    \/ \E r \in Reqs : Ignore(r) \/ Join(r) \/ \E reply \in Replies : AnswerNow(r, reply)
    \/ (\E reply \in Replies : Serve(reply)) \/ Lose \/ Abandon

Spec == Init /\ [][Next]_<<fresh, line, answers, lost>>
=============================================================================
