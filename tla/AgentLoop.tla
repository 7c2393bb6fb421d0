------------------------------ MODULE AgentLoop ------------------------------
(***************************************************************************)
(* The agent loop and the threads it shares state with:                    *)
(*                                                                         *)
(*   - producers (the IM channels, the cron service, the heartbeat, the    *)
(*     gateways), which push messages on the inbound queue;                *)
(*   - the agent thread (agent/agent_loop.c, agent_loop_task), one turn    *)
(*     per message, one cloud round per iteration of the turn's tool loop; *)
(*   - the thread that delivers the cloud's events                         *)
(*     (src/ducky_claw_chat.c, __ai_chat_handle_event);                    *)
(*   - the work queue that runs MCP tools (ai_mcp_server.c, __tool_call);  *)
(*   - the thread of the network events, which selects the configured      *)
(*     channel again at every connection (src/app_im.c);                   *)
(*   - the dispatcher of the outbound queue (src/app_im.c).                *)
(*                                                                         *)
(* A round is one prompt sent to the cloud and the events that answer it.  *)
(* The code does not tag a round: the events of any round, late or not,    *)
(* write the same stream buffer, the same s_last_response and the same     *)
(* semaphore.  The model tags every text and every tool result with the    *)
(* message it is about, and so can say whose answer goes where.            *)
(***************************************************************************)
EXTENDS Naturals, Sequences

CONSTANTS
    Msgs,        \* the inbound messages
    Channel,     \* the IM channels app_im.c knows
    Chat,        \* chat ids
    Route,       \* Route[m] = <<channel, chat>> of message m, or NoRoute
    NoRoute,     \* cron, heartbeat, system: an unmapped channel and no chat
    ModeChannel, \* the channel app_im_init_evt_cb selects
    SavedChat,   \* the chat id it restores from KV, or NoChat
    NoChat,
    NoMsg,       \* no message, no text, no tool result
    Voice,       \* the tag of a round the user started by speaking
    QueueLen,    \* IM_BUS_QUEUE_LEN
    MaxIter,     \* TOOL_LOOP_MAX
    MaxVoice     \* bound of the model: spoken rounds

ASSUME QueueLenAssumption == QueueLen \in Nat \ {0}
ASSUME MaxIterAssumption  == MaxIter \in Nat \ {0}
ASSUME MaxVoiceAssumption == MaxVoice \in Nat
ASSUME TagAssumption == NoMsg \notin Msgs /\ Voice \notin Msgs /\ Voice # NoMsg
ASSUME RouteAssumption ==
    /\ NoRoute \notin Channel \X Chat
    /\ NoChat \notin Chat
    /\ ModeChannel \in Channel
    /\ SavedChat \in Chat \cup {NoChat}
    /\ Route \in [Msgs -> (Channel \X Chat) \cup {NoRoute}]

VARIABLES
    arrived,     \* messages their producer has pushed, or failed to push
    inq,         \* s_inbound_queue
    outq,        \* s_outbound_queue
    pc,          \* where the agent thread is in agent_loop_task
    cur,         \* the message of the turn (in)
    iter,        \* iteration
    inToolLoop,  \* s_in_tool_loop
    sem,         \* s_turn.sem, a binary semaphore
    toolCalled,  \* s_turn.tool_called
    toolOk,      \* s_turn.tool_call_ok
    toolResult,  \* s_turn.tool_result: the message whose round ran the tool
    lastResp,    \* s_last_response: the message whose round wrote the text
    channel,     \* s_channel
    chatId,      \* s_chat_id
    crossed,     \* history: a connection has moved s_channel since a message set it
    rounds,      \* the rounds the cloud has not finished, oldest first
    stream,      \* stream_data: the message whose round wrote the text
    ending,      \* the event thread is inside the END handler, text stored
    job,         \* the tool call the work queue is running
    voices,      \* spoken rounds so far
    clean        \* history: this turn began with nothing left of earlier ones

busVars   == <<arrived, inq, outq>>
turnVars  == <<sem, toolCalled, toolOk, toolResult, lastResp>>
loopVars  == <<pc, cur, iter, inToolLoop, clean>>
target    == <<channel, chatId, crossed>>
cloudVars == <<rounds, stream, ending, job, voices>>
vars      == <<busVars, turnVars, loopVars, target, cloudVars>>

Tag   == Msgs \cup {Voice}
Text  == Tag \cup {NoMsg}
Round == [about : Tag, phase : {"sent", "text", "tool"}]
NoJob == [about |-> NoMsg, stage |-> "none", ok |-> TRUE]
Job   == [about : Tag, stage : {"run", "reply", "hook"}, ok : BOOLEAN]
Out   == [kind : {"working", "reply", "flush"}, turn : Msgs \cup {NoMsg},
          about : Text, channel : Channel, chat : Chat,
          clean : BOOLEAN, crossed : BOOLEAN]
Pc    == {"idle", "channel", "chat", "clear", "drain", "working", "reset",
          "send", "wait", "check", "reply", "push", "end"}

TypeBus ==
    /\ arrived \subseteq Msgs
    /\ inq \in Seq(Msgs) /\ Len(inq) =< QueueLen
    /\ outq \in Seq(Out) /\ Len(outq) =< QueueLen
TypeLoop ==
    /\ pc \in Pc /\ cur \in Msgs \cup {NoMsg} /\ iter \in 0 .. MaxIter - 1
    /\ inToolLoop \in BOOLEAN /\ clean \in BOOLEAN
    /\ pc # "idle" => cur \in Msgs
TypeTurn ==
    /\ sem \in {0, 1} /\ toolCalled \in BOOLEAN /\ toolOk \in BOOLEAN
    /\ toolResult \in Text /\ lastResp \in Text
TypeTarget ==
    /\ channel \in Channel /\ chatId \in Chat \cup {NoChat}
    /\ crossed \in BOOLEAN
TypeCloud ==
    /\ rounds \in Seq(Round) /\ (ending => rounds # <<>>)
    /\ stream \in Text /\ ending \in BOOLEAN
    /\ job \in Job \cup {NoJob} /\ voices \in 0 .. MaxVoice
TypeOK == TypeBus /\ TypeLoop /\ TypeTurn /\ TypeTarget /\ TypeCloud

Init ==
    /\ arrived = {} /\ inq = <<>> /\ outq = <<>>
    /\ pc = "idle" /\ cur = NoMsg /\ iter = 0 /\ inToolLoop = FALSE
    /\ sem = 0 /\ toolCalled = FALSE /\ toolOk = FALSE
    /\ toolResult = NoMsg /\ lastResp = NoMsg
    /\ channel = ModeChannel /\ chatId = SavedChat /\ crossed = FALSE
    /\ rounds = <<>> /\ stream = NoMsg /\ ending = FALSE /\ job = NoJob
    /\ voices = 0 /\ clean = FALSE

-----------------------------------------------------------------------------
(* The bus and its other users.                                            *)

\* A producer posts m and finds room within the second it waits.
Push(m) ==
    /\ m \notin arrived
    /\ Len(inq) < QueueLen
    /\ arrived' = arrived \cup {m}
    /\ inq' = Append(inq, m)
    /\ UNCHANGED <<outq, turnVars, loopVars, target, cloudVars>>

\* ... or does not: the producer frees the message and forgets it.
PushTimeout(m) ==
    /\ m \notin arrived
    /\ Len(inq) = QueueLen
    /\ arrived' = arrived \cup {m}
    /\ UNCHANGED <<inq, outq, turnVars, loopVars, target, cloudVars>>

\* outbound_dispatch_task takes one message and hands it to its channel.
Dispatch ==
    /\ outq # <<>>
    /\ outq' = Tail(outq)
    /\ UNCHANGED <<arrived, inq, turnVars, loopVars, target, cloudVars>>

\* app_im_bot_send_message_to: addressed to the target as it is now; dropped
\* when no chat is known, or when the queue stays full for a second.
SendOut(kind, about) ==
    LET msg == [kind |-> kind, turn |-> cur, about |-> about,
                channel |-> channel, chat |-> chatId,
                clean |-> clean, crossed |-> crossed]
    IN  outq' = IF chatId = NoChat \/ Len(outq) = QueueLen
                THEN outq ELSE Append(outq, msg)

\* Every connection to the cloud selects the configured channel again and
\* keeps the chat that is known, whatever turn is on (app_im_init_evt_cb).
Connected ==
    /\ channel' = ModeChannel
    /\ crossed' = (crossed \/ channel # ModeChannel)
    /\ UNCHANGED <<chatId, busVars, turnVars, loopVars, cloudVars>>

-----------------------------------------------------------------------------
(* The agent thread: agent_loop_task.                                      *)

Goto(next) == pc' = next /\ UNCHANGED <<cur, iter, inToolLoop>>

PopInbound ==
    /\ pc = "idle" /\ inq # <<>>
    /\ cur' = Head(inq)
    /\ inq' = Tail(inq)
    /\ pc' = "channel" /\ iter' = 0 /\ inToolLoop' = FALSE
    /\ clean' = FALSE
    /\ UNCHANGED <<arrived, outq, turnVars, target, cloudVars>>

\* app_im_set_target writes s_channel, then s_chat_id, under no lock.
SetChannel ==
    /\ pc = "channel"
    /\ channel' = IF Route[cur] = NoRoute THEN channel ELSE Route[cur][1]
    /\ crossed' = (crossed /\ Route[cur] = NoRoute)
    /\ Goto("chat")
    /\ UNCHANGED <<busVars, turnVars, chatId, clean, cloudVars>>

\* Mutant: a chat id that is already known is kept.
SetFirstChatId ==
    /\ pc = "chat"
    /\ chatId' = IF chatId # NoChat \/ Route[cur] = NoRoute THEN chatId
                 ELSE Route[cur][2]
    /\ Goto("clear")
    /\ UNCHANGED <<busVars, turnVars, channel, crossed, clean, cloudVars>>

SetChatId ==
    /\ pc = "chat"
    /\ chatId' = IF Route[cur] = NoRoute THEN chatId ELSE Route[cur][2]
    /\ Goto("clear")
    /\ UNCHANGED <<busVars, turnVars, channel, crossed, clean, cloudVars>>

ClearResponse ==
    /\ pc = "clear"
    /\ lastResp' = NoMsg
    /\ Goto("drain")
    /\ UNCHANGED <<busVars, sem, toolCalled, toolOk, toolResult, clean, target,
                   cloudVars>>

\* Nothing of an earlier round can act on the turn from here on.
Quiet == rounds = <<>> /\ stream = NoMsg /\ ~ending /\ job = NoJob

\* Mutant: the semaphore is not drained.
SkipDrain ==
    /\ pc = "drain"
    /\ clean' = Quiet
    /\ Goto("working")
    /\ UNCHANGED <<busVars, turnVars, target, cloudVars>>

DrainSem ==
    /\ pc = "drain"
    /\ sem' = 0
    /\ clean' = Quiet
    /\ Goto("working")
    /\ UNCHANGED <<busVars, toolCalled, toolOk, toolResult, lastResp, target,
                   cloudVars>>

SendWorking ==
    /\ pc = "working"
    /\ SendOut("working", cur)
    /\ Goto("reset")
    /\ UNCHANGED <<arrived, inq, turnVars, clean, target, cloudVars>>

\* Mutant: the tool state of the previous round is kept.
SkipReset ==
    /\ pc = "reset"
    /\ Goto("send")
    /\ UNCHANGED <<busVars, turnVars, clean, target, cloudVars>>

ResetTool ==
    /\ pc = "reset"
    /\ toolCalled' = FALSE /\ toolOk' = FALSE /\ toolResult' = NoMsg
    /\ Goto("send")
    /\ UNCHANGED <<busVars, sem, lastResp, clean, target, cloudVars>>

\* __build_and_send hands the prompt to the cloud.
BuildAndSend ==
    /\ pc = "send"
    /\ rounds' = Append(rounds, [about |-> cur, phase |-> "sent"])
    /\ Goto("wait")
    /\ UNCHANGED <<busVars, turnVars, clean, target, stream, ending, job, voices>>

\* ... or gives up: no system prompt, a prompt over 32 KB, a failed
\* tuya_ai_text_input.  The caller is not told and waits all the same.
SendFails ==
    /\ pc = "send"
    /\ Goto("wait")
    /\ UNCHANGED <<busVars, turnVars, clean, target, cloudVars>>

Wake ==
    /\ pc = "wait" /\ sem = 1
    /\ sem' = 0
    /\ Goto("check")
    /\ UNCHANGED <<busVars, toolCalled, toolOk, toolResult, lastResp, clean,
                   target, cloudVars>>

\* Mutant: the wait for the semaphore has no timeout.
WaitForever == pc = "wait" /\ sem = 0 /\ UNCHANGED vars

\* TURN_WAIT_MS have passed: the turn ends without a reply.
WaitTimeout ==
    /\ pc = "wait" /\ sem = 0
    /\ Goto("end")
    /\ UNCHANGED <<busVars, turnVars, clean, target, cloudVars>>

IsLast == iter = MaxIter - 1

\* No tool ran, the last one succeeded, or this was the last iteration.
CheckDone ==
    /\ pc = "check"
    /\ ~toolCalled \/ IsLast \/ toolOk
    /\ Goto("reply")
    /\ UNCHANGED <<busVars, turnVars, clean, target, cloudVars>>

\* Mutant: the iteration limit is not checked.
RetryPastLast ==
    /\ pc = "check"
    /\ toolCalled /\ ~toolOk
    /\ pc' = "working" /\ iter' = iter + 1 /\ inToolLoop' = TRUE
    /\ UNCHANGED <<busVars, turnVars, cur, clean, target, cloudVars>>

\* The last tool failed: its result becomes the next prompt.
CheckRetry ==
    /\ pc = "check"
    /\ toolCalled /\ ~IsLast /\ ~toolOk
    /\ pc' = "working" /\ iter' = iter + 1 /\ inToolLoop' = TRUE
    /\ UNCHANGED <<busVars, turnVars, cur, clean, target, cloudVars>>

\* Takes s_last_response_lock, kept until the push below has returned.
LockResponse ==
    /\ pc = "reply"
    /\ Goto("push")
    /\ UNCHANGED <<busVars, turnVars, clean, target, cloudVars>>

PushReply ==
    /\ pc = "push"
    /\ IF lastResp = NoMsg THEN UNCHANGED outq ELSE SendOut("reply", lastResp)
    /\ Goto("end")
    /\ UNCHANGED <<arrived, inq, turnVars, clean, target, cloudVars>>

EndTurn ==
    /\ pc = "end"
    /\ pc' = "idle" /\ inToolLoop' = FALSE
    /\ UNCHANGED <<busVars, turnVars, cur, iter, clean, target, cloudVars>>

Agent ==
    \/ PopInbound \/ SetChannel \/ SetChatId \/ ClearResponse \/ DrainSem
    \/ SendWorking \/ ResetTool \/ BuildAndSend \/ SendFails
    \/ Wake \/ WaitTimeout \/ CheckDone \/ CheckRetry
    \/ LockResponse \/ PushReply \/ EndTurn

-----------------------------------------------------------------------------
(* The cloud's event thread.  The cloud answers its rounds one at a time.  *)

SetPhase(p) == rounds' = [rounds EXCEPT ![1].phase = p]
Answering(p) == rounds # <<>> /\ ~ending /\ rounds[1].phase \in p

\* A round the user started by speaking to the device.
VoiceStart ==
    /\ voices < MaxVoice
    /\ voices' = voices + 1
    /\ rounds' = Append(rounds, [about |-> Voice, phase |-> "sent"])
    /\ clean' = FALSE
    /\ UNCHANGED <<busVars, turnVars, pc, cur, iter, inToolLoop, target, stream,
                   ending, job>>

\* AI_USER_EVT_TEXT_STREAM_START with the first text, and the DATA that fits.
StreamStart ==
    /\ Answering({"sent", "text"})
    /\ SetPhase("text")
    /\ stream' = rounds[1].about
    /\ UNCHANGED <<busVars, turnVars, loopVars, target, ending, job, voices>>

\* AI_USER_EVT_TEXT_STREAM_DATA that overflows the buffer: what it held goes
\* to the IM, unless a tool loop is active, and the buffer starts again.
StreamOverflow ==
    /\ Answering({"text"}) /\ stream = rounds[1].about
    /\ IF inToolLoop THEN UNCHANGED outq ELSE SendOut("flush", stream)
    /\ UNCHANGED <<arrived, inq, turnVars, loopVars, target, cloudVars>>

\* AI_USER_EVT_END, first half: agent_loop_set_last_response, which waits for
\* the lock the agent holds while it pushes a reply.
EndStore ==
    /\ Answering({"sent", "text"})
    /\ pc # "push"
    /\ lastResp' = stream
    /\ ending' = TRUE
    /\ UNCHANGED <<busVars, sem, toolCalled, toolOk, toolResult, loopVars, target,
                   rounds, stream, job, voices>>

\* Second half: agent_loop_notify_turn_done, and the buffer is zeroed.
EndNotify ==
    /\ ending
    /\ sem' = 1
    /\ stream' = NoMsg
    /\ ending' = FALSE
    /\ rounds' = Tail(rounds)
    /\ UNCHANGED <<busVars, toolCalled, toolOk, toolResult, lastResp, loopVars,
                   target, job, voices>>

\* A round is lost, or cancelled by a newer one: its END never comes.
RoundLost ==
    /\ rounds # <<>> /\ ~ending
    /\ rounds' = Tail(rounds)
    /\ UNCHANGED <<busVars, turnVars, loopVars, target, stream, ending, job, voices>>

Cloud == VoiceStart \/ StreamStart \/ StreamOverflow \/ EndStore \/ EndNotify
         \/ RoundLost

-----------------------------------------------------------------------------
(* MCP tools: __tool_call on the work queue, one at a time.                *)

\* The cloud asks for a tool and waits for the reply.
CallTool ==
    /\ Answering({"sent", "text"})
    /\ job = NoJob
    /\ SetPhase("tool")
    /\ \E ok \in BOOLEAN :
          job' = [about |-> rounds[1].about, stage |-> "run", ok |-> ok]
    /\ UNCHANGED <<busVars, turnVars, loopVars, target, stream, ending, voices>>

\* __on_tool_executed, the hook the agent loop registered.
RecordTool ==
    /\ toolCalled' = TRUE
    /\ toolOk' = job.ok
    /\ toolResult' = job.about
    /\ UNCHANGED <<sem, lastResp>>

\* The reply releases the cloud, if it still waits for this call.
ReplyTool ==
    rounds' = IF rounds # <<>> /\ rounds[1].phase = "tool"
              THEN [rounds EXCEPT ![1].phase = "text"] ELSE rounds

\* Mutant: the result is sent before the hook has run.
ToolOkReplyFirst ==
    /\ job.stage = "run" /\ job.ok
    /\ ReplyTool
    /\ job' = [job EXCEPT !.stage = "reply"]
    /\ UNCHANGED <<busVars, turnVars, loopVars, target, stream, ending, voices>>

\* A tool that succeeds: the hook, then the result is sent.
ToolOkHook ==
    /\ job.stage = "run" /\ job.ok
    /\ RecordTool
    /\ job' = [job EXCEPT !.stage = "reply"]
    /\ UNCHANGED <<busVars, loopVars, target, rounds, stream, ending, voices>>

ToolOkReply ==
    /\ job.stage = "reply"
    /\ ReplyTool
    /\ job' = NoJob
    /\ UNCHANGED <<busVars, turnVars, loopVars, target, stream, ending, voices>>

\* A tool that fails: the error is sent first, then the hook.
ToolFailReply ==
    /\ job.stage = "run" /\ ~job.ok
    /\ ReplyTool
    /\ job' = [job EXCEPT !.stage = "hook"]
    /\ UNCHANGED <<busVars, turnVars, loopVars, target, stream, ending, voices>>

ToolFailHook ==
    /\ job.stage = "hook"
    /\ RecordTool
    /\ job' = NoJob
    /\ UNCHANGED <<busVars, loopVars, target, rounds, stream, ending, voices>>

Tools == CallTool \/ ToolOkHook \/ ToolOkReply \/ ToolFailReply \/ ToolFailHook

-----------------------------------------------------------------------------
Next ==
    \/ \E m \in Msgs : Push(m) \/ PushTimeout(m)
    \/ Agent \/ Dispatch \/ Connected \/ Cloud \/ Tools

Spec == Init /\ [][Next]_vars

\* The agent thread and the handler of an event keep running: every call they
\* make that blocks (push, semaphore) has a timeout.  Nothing is assumed of
\* the cloud, of the tools or of the network behind the dispatcher.
FairSpec == Spec /\ WF_vars(Agent) /\ WF_vars(EndNotify)

-----------------------------------------------------------------------------
(* Correctness.                                                            *)

\* While the agent decides what to do with a finished round of a clean turn,
\* the text and the tool result it looks at were produced for its own message
\* (the clear, the drain and the reset at the start of a turn and of an
\* iteration, and the zeroing of the stream buffer after END).
CleanTurnOwnsItsState ==
    clean /\ pc \in {"check", "reply", "push"} =>
        /\ lastResp \in {NoMsg, cur}
        /\ toolCalled => toolResult = cur

\* The channel and the chat of a message, or the ones app_im.c started with.
Destination ==
    {r \in {Route[m] : m \in Msgs} : r # NoRoute} \cup {<<ModeChannel, SavedChat>>}

\* Whatever is queued for the users during a clean turn - progress notes, the
\* reply, flushed text - is about the turn's message and is addressed to the
\* chat that message came from, on its channel; what a cron or heartbeat
\* message causes goes to one user's chat on that user's channel.  A cloud
\* connection that falls between app_im_set_target and the send breaks this,
\* and in one way only: the text goes to the configured channel, with the
\* chat id of the message's own chat.
CleanTurnAnswersItsChat ==
    \A i \in 1 .. Len(outq) :
        LET out == outq[i]
            to  == <<out.channel, out.chat>>
        IN  out.clean =>
                /\ out.about = out.turn
                /\ ~out.crossed =>
                        to \in Destination /\ Route[out.turn] \in {to, NoRoute}
                /\ out.crossed =>
                        /\ out.channel = ModeChannel
                        /\ Route[out.turn] # NoRoute => out.chat = Route[out.turn][2]

\* A clean turn is woken by the END of its own round and by nothing earlier:
\* when it is, the cloud has no round left to answer.
CleanWakeIsOwnEnd ==
    clean /\ pc \in {"check", "reply", "push"} => rounds = <<>>

\* When the END of a round is handled in a clean turn, each tool call of the
\* round that succeeded has been recorded for the loop (__tool_call runs the
\* hook before it replies); only the hook of a failed call can be missing.
CleanEndHasSuccesses ==
    clean /\ ending /\ job # NoJob => job.stage = "hook" /\ ~job.ok

\* A user message that got into the inbound queue gets its turn, and the turn
\* ends, whatever the cloud and the tools do: TURN_WAIT_MS and TOOL_LOOP_MAX.
EveryMessageIsServed ==
    \A m \in Msgs :
        (\E i \in 1 .. Len(inq) : inq[i] = m) ~> (cur = m /\ pc = "idle")

\* The turn as its user sees it.
Begun == pc \notin {"idle", "channel", "chat", "clear", "drain"}
Serving == IF pc = "idle" THEN NoMsg ELSE cur
Prompts == IF ~Begun THEN 0 ELSE IF pc = "working" THEN iter ELSE iter + 1

Turns == INSTANCE TurnService
    WITH MaxPrompts <- MaxIter, line <- inq, serving <- Serving, prompts <- Prompts,
         over <- (pc = "end"), out <- outq

\* The loop serves its users as TurnService promises, with stale rounds,
\* spoken rounds, timeouts and failing tools: turns one at a time and in the
\* order of acceptance, at most TOOL_LOOP_MAX notes and then at most one reply
\* in each, for the message whose turn it is, no text flushed between the
\* prompts of a tool loop, and nothing posted overtaken (agent_loop_task).
TurnsInOrder == Turns!Spec

\* The iterations of a turn, as the refinement needs them.
LoopInv ==
    /\ pc \in {"channel", "chat", "clear", "drain"} => iter = 0
    /\ Begun /\ iter > 0 => inToolLoop

-----------------------------------------------------------------------------
(* The inductive invariant behind the three properties of a clean turn.    *)

\* app_im_set_target keeps the target whole, except between its two writes;
\* a connection moves the channel and leaves the chat.
TargetInv ==
    /\ crossed => channel = ModeChannel
    /\ ~crossed /\ pc # "chat" => <<channel, chatId>> \in Destination
    /\ ~crossed /\ pc = "chat" =>
            IF Route[cur] = NoRoute THEN <<channel, chatId>> \in Destination
            ELSE channel = Route[cur][1]
    /\ pc \notin {"channel", "chat"} /\ cur \in Msgs /\ Route[cur] # NoRoute =>
            /\ chatId = Route[cur][2]
            /\ ~crossed => channel = Route[cur][1]

\* One round at a time, and a post of the semaphore means it is over.
CleanRounds ==
    clean =>
        /\ cur \in Msgs
        /\ pc \notin {"channel", "chat", "clear", "drain"}
        /\ rounds # <<>> => Len(rounds) = 1 /\ rounds[1].about = cur
        /\ pc \in {"working", "reset", "send", "check", "reply", "push"} =>
                rounds = <<>> /\ sem = 0
        /\ pc = "wait" /\ sem = 1 => rounds = <<>>

\* Every text and tool result in reach is of the turn's own message.
CleanTexts ==
    clean =>
        /\ stream \in {NoMsg, cur}
        /\ job # NoJob => job.about = cur
        /\ pc \in {"check", "reply", "push"} \/ (pc = "wait" /\ (sem = 1 \/ ending)) =>
                lastResp \in {NoMsg, cur}
        /\ pc \in {"send", "wait", "check", "reply", "push"} /\ toolCalled =>
                toolResult = cur

\* While a tool runs its round waits; only a failed call outlives its round.
CleanJob ==
    /\ job.stage = "hook" => ~job.ok
    /\ clean /\ job.stage \in {"run", "reply"} =>
            /\ pc \in {"wait", "end", "idle"}
            /\ pc = "wait" => sem = 0
            /\ rounds # <<>> => rounds[1].phase = "tool" /\ ~ending

CleanInv ==
    TypeOK /\ TargetInv /\ CleanRounds /\ CleanTexts /\ CleanJob
    /\ CleanTurnAnswersItsChat

-----------------------------------------------------------------------------
(* What a comment of the code says, and the code does not do.              *)

\* agent_loop.c:435: "a stale value from the previous turn is never forwarded".
StaleNeverForwarded ==
    \A i \in 1 .. Len(outq) : outq[i].kind = "reply" => outq[i].about = outq[i].turn
=============================================================================
