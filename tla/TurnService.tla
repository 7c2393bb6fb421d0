----------------------------- MODULE TurnService -----------------------------
(***************************************************************************)
(* What agent/agent_loop.c promises the users of the messaging channels,   *)
(* the cloud, the tools and the flags between the threads left out: the    *)
(* messages that are accepted get their turns one at a time, in order of   *)
(* acceptance; a turn asks at most TOOL_LOOP_MAX times and tells its user  *)
(* each time, replies at most once and last; and what is posted leaves in  *)
(* the order of posting.  Any post may be lost.                            *)
(***************************************************************************)
EXTENDS Naturals, Sequences

CONSTANTS
    Msgs,
    NoMsg,
    Out,        \* what is posted: a kind, and the message whose turn it is
    QueueLen,   \* IM_BUS_QUEUE_LEN
    MaxPrompts  \* TOOL_LOOP_MAX

VARIABLES
    line,       \* the messages that wait for their turn
    serving,    \* the message whose turn it is
    prompts,    \* how often its turn has asked
    over,       \* its turn has replied or given up
    out         \* what is posted and has not left

Init == line = <<>> /\ serving = NoMsg /\ prompts = 0 /\ over = FALSE /\ out = <<>>

Arrive(m) ==
    /\ Len(line) < QueueLen /\ line' = Append(line, m)
    /\ UNCHANGED <<serving, prompts, over, out>>

Begin ==
    /\ serving = NoMsg /\ line # <<>>
    /\ serving' = Head(line) /\ line' = Tail(line)
    /\ UNCHANGED <<prompts, over, out>>

Post(msg) == Len(out) < QueueLen /\ out' = Append(out, msg)

\* Posted for the turn, or lost.
Tell(kind) ==
    \/ UNCHANGED out
    \/ \E msg \in Out : msg.kind = kind /\ msg.turn = serving /\ Post(msg)

Prompt ==
    /\ serving # NoMsg /\ ~over /\ prompts < MaxPrompts
    /\ prompts' = prompts + 1 /\ Tell("working")
    /\ UNCHANGED <<line, serving, over>>

Reply ==
    /\ serving # NoMsg /\ ~over /\ prompts > 0
    /\ over' = TRUE /\ Tell("reply")
    /\ UNCHANGED <<line, serving, prompts>>

Finish ==
    /\ over /\ over' = FALSE
    /\ serving' = NoMsg /\ prompts' = 0
    /\ UNCHANGED <<line, out>>

\* Part of a long text, until the turn asks a second time.
Flush ==
    /\ prompts < 2
    /\ \E msg \in Out : msg.kind = "flush" /\ Post(msg)
    /\ UNCHANGED <<line, serving, prompts, over>>

Deliver == out # <<>> /\ out' = Tail(out) /\ UNCHANGED <<line, serving, prompts, over>>

Next ==
    \/ \E m \in Msgs : Arrive(m)
    \/ Begin \/ Prompt \/ Reply \/ Finish \/ Flush \/ Deliver

Spec == Init /\ [][Next]_<<line, serving, prompts, over, out>>
=============================================================================
