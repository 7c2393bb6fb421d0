------------------------------ MODULE AcpClient ------------------------------
(***************************************************************************)
(* The client of the OpenClaw gateway, gateway/acp_client.c, with the tool *)
(* openclaw_ctrl that is its only caller.                                  *)
(*                                                                         *)
(* The tool, on the MCP work queue, sends one request and returns; the     *)
(* task acp_client waits for the final event of the request's run, or for  *)
(* 180 seconds, and pushes a notice to the chat the request came from.     *)
(* Neither the window nor the events carry the id of the request: here     *)
(* waiting, reply and the events say whose they are, for the properties.   *)
(***************************************************************************)
EXTENDS Naturals, Sequences

CONSTANTS
    Reqs,     \* the calls of openclaw_ctrl, each made once
    Routed,   \* those made when a chat is known; its route bears its name
    NoReq,
    MaxWire   \* bound of the model: events on their way to the task

ASSUME RoutedAssumption == Routed \subseteq Reqs
ASSUME NoReqAssumption == NoReq \notin Reqs
ASSUME MaxWireAssumption == MaxWire \in Nat \ {0}

VARIABLES
    used,      \* the calls made
    tpc,       \* where the tool is
    treq,      \* the call it serves
    waiting,   \* recv_requested: the request whose window is open
    due,       \* 180 seconds since recv_started_ms
    route,     \* pending_channel and pending_chat_id
    clean,     \* history: nothing of an earlier request was left at the start
    connected, \* state
    apc,       \* where the task is
    rx,        \* rx_buf: how many events of wire it holds
    taken,     \* what __acp_take_pending_route returned, and whose it was
    what,      \* the notice being pushed
    reply,     \* reply_buf: whose text
    up,        \* the link, as the gateway sees it
    wire,      \* the events on it
    running,   \* the requests the gateway works on
    accepted,  \* history: requests answered OK by acp_client_inject
    told       \* history: the notices taken for each request

toolVars == <<used, tpc, treq>>
windowVars == <<waiting, due, route>>
taskVars == <<apc, rx, taken, what>>
linkVars == <<up, wire, running>>
histVars == <<accepted, told>>
vars == <<toolVars, windowVars, clean, connected, taskVars, reply, linkVars, histVars>>

ReqOrNone == Reqs \cup {NoReq}
RouteOf(r) == IF r \in Routed THEN r ELSE NoReq
Taken == [req : ReqOrNone, to : ReqOrNone, clean : BOOLEAN]
NotTaken == [req |-> NoReq, to |-> NoReq, clean |-> FALSE]

\* What the task can read: text of the answer, the final event with the
\* answer's text, or a final event without.
Event == [kind : {"text", "final", "bare"}, about : Reqs]

Init ==
    /\ used = {} /\ tpc = "idle" /\ treq = NoReq
    /\ waiting = NoReq /\ due = FALSE /\ route = NoReq
    /\ clean = FALSE /\ connected = FALSE
    /\ apc = "top" /\ rx = 0 /\ taken = NotTaken /\ what = "reply"
    /\ reply = NoReq
    /\ up = FALSE /\ wire = <<>> /\ running = {}
    /\ accepted = {} /\ told = [r \in Reqs |-> <<>>]

-----------------------------------------------------------------------------
(* The tool.                                                               *)

\* __acp_clear_pending_locked
ClearPending == waiting' = NoReq /\ due' = FALSE /\ route' = NoReq

\* Nothing of an earlier request is left at the gateway, on the link, in
\* reply_buf or in the hands of the task.
Quiet ==
    /\ running = {} /\ wire = <<>> /\ reply = NoReq
    /\ apc \notin {"expired", "reply", "push"}

\* A call made while the client is not connected sends nothing.
ToolCall(r) ==
    /\ tpc = "idle" /\ r \notin used
    /\ used' = used \cup {r}
    /\ IF connected THEN tpc' = "check" /\ treq' = r ELSE UNCHANGED <<tpc, treq>>
    /\ UNCHANGED <<windowVars, clean, connected, taskVars, reply, linkVars, histVars>>

\* Mutant: the window is not looked at.
CheckNothing ==
    /\ tpc = "check" /\ tpc' = "route"
    /\ UNCHANGED <<used, treq, windowVars, clean, connected, taskVars, reply, linkVars, histVars>>

\* A second request is refused as long as a window is open.
CheckWindow ==
    /\ tpc = "check"
    /\ tpc' = IF waiting = NoReq THEN "route" ELSE "idle"
    /\ treq' = IF waiting = NoReq THEN treq ELSE NoReq
    /\ UNCHANGED <<used, windowVars, clean, connected, taskVars, reply, linkVars, histVars>>

\* Mutant: the old route is not reset.
SnapshotKeepsRoute ==
    /\ tpc = "route" /\ tpc' = "request"
    /\ route' = (IF route = NoReq THEN RouteOf(treq) ELSE route) /\ clean' = Quiet
    /\ UNCHANGED <<used, treq, waiting, due, connected, taskVars, reply, linkVars, histVars>>

SnapshotRoute ==
    /\ tpc = "route" /\ tpc' = "request"
    /\ route' = RouteOf(treq) /\ clean' = Quiet
    /\ UNCHANGED <<used, treq, waiting, due, connected, taskVars, reply, linkVars, histVars>>

\* No memory for the JSON text: the snapshot stays.
NotBuilt ==
    /\ tpc \in {"route", "request"} /\ tpc' = "idle" /\ treq' = NoReq
    /\ UNCHANGED <<used, windowVars, clean, connected, taskVars, reply, linkVars, histVars>>

OpenWindow ==
    /\ tpc = "request" /\ tpc' = "send"
    /\ waiting' = treq /\ due' = FALSE
    /\ UNCHANGED <<used, treq, route, clean, connected, taskVars, reply, linkVars, histVars>>

\* A message written to a link the gateway has left is lost without an error.
SendOk ==
    /\ tpc = "send" /\ tpc' = "idle" /\ treq' = NoReq
    /\ running' = IF up THEN running \cup {treq} ELSE running
    /\ accepted' = accepted \cup {treq}
    /\ UNCHANGED <<used, windowVars, clean, connected, taskVars, reply, up, wire, told>>

SendFails ==
    /\ tpc = "send" /\ tpc' = "idle" /\ treq' = NoReq
    /\ ClearPending
    /\ UNCHANGED <<used, clean, connected, taskVars, reply, linkVars, histVars>>

Tool ==
    \/ \E r \in Reqs : ToolCall(r)
    \/ CheckWindow \/ SnapshotRoute \/ NotBuilt \/ OpenWindow \/ SendOk \/ SendFails

-----------------------------------------------------------------------------
(* The task.                                                               *)

TimedOut == waiting # NoReq /\ due

\* Mutant: the timeout is looked at on a connection only.
TopConnectsFirst ==
    /\ apc = "top"
    /\ apc' = IF ~connected THEN "link" ELSE IF TimedOut THEN "expired" ELSE "window"
    /\ UNCHANGED <<toolVars, windowVars, clean, connected, rx, taken, what, reply, linkVars, histVars>>

Top ==
    /\ apc = "top"
    /\ apc' = IF TimedOut THEN "expired" ELSE IF connected THEN "window" ELSE "link"
    /\ UNCHANGED <<toolVars, windowVars, clean, connected, rx, taken, what, reply, linkVars, histVars>>

\* Mutant: the window stays open.
TakeRouteOnly ==
    /\ taken' = [req |-> waiting, to |-> route, clean |-> clean]
    /\ apc' = "push"
    /\ UNCHANGED <<toolVars, windowVars, clean, connected, rx, reply, linkVars, histVars>>

\* __acp_take_pending_route, whoever's window is open by now, if any.
TakeRoute ==
    /\ taken' = [req |-> waiting, to |-> route, clean |-> clean]
    /\ ClearPending
    /\ apc' = "push"
    /\ UNCHANGED <<toolVars, clean, connected, rx, reply, linkVars, histVars>>

TakeTimeout == apc = "expired" /\ what' = "timeout" /\ TakeRoute

ConnectOk ==
    /\ apc = "link" /\ apc' = "window"
    /\ connected' = TRUE /\ up' = TRUE /\ wire' = <<>> /\ rx' = 0
    /\ UNCHANGED <<toolVars, windowVars, clean, taken, what, reply, running, histVars>>

ConnectFails ==
    /\ apc = "link" /\ apc' = "top"
    /\ UNCHANGED <<toolVars, windowVars, clean, connected, rx, taken, what, reply, linkVars, histVars>>

\* Without an open window the task waits on recv_sem, never on the socket.
Window ==
    /\ apc = "window"
    /\ apc' = IF waiting = NoReq THEN "top" ELSE "recv"
    /\ UNCHANGED <<toolVars, windowVars, clean, connected, rx, taken, what, reply, linkVars, histVars>>

\* __disconnect: the window and its route survive.
Disconnect ==
    /\ connected' = FALSE /\ reply' = NoReq
    /\ up' = FALSE /\ wire' = <<>> /\ rx' = 0
    /\ apc' = "top"
    /\ UNCHANGED <<toolVars, windowVars, clean, taken, what, running, histVars>>

RecvNothing ==
    /\ apc = "recv" /\ apc' = "top"
    /\ UNCHANGED <<toolVars, windowVars, clean, connected, rx, taken, what, reply, linkVars, histVars>>

RecvEvents ==
    /\ apc = "recv" /\ rx < Len(wire)
    /\ rx' \in rx + 1 .. Len(wire)
    /\ apc' = "frames"
    /\ UNCHANGED <<toolVars, windowVars, clean, connected, taken, what, reply, linkVars, histVars>>

RecvClosed == apc = "recv" /\ ~up /\ Disconnect

\* A frame too large or malformed, or a close frame.
FrameRefused == apc \in {"recv", "frames"} /\ wire # <<>> /\ Disconnect

\* __acp_dispatch: every text overwrites reply_buf; a final event counts if
\* there is text, of whichever event, and a window is open.
Dispatch ==
    /\ apc = "frames" /\ rx > 0
    /\ LET event == Head(wire)
           text == IF event.kind = "bare" THEN reply ELSE event.about
           final == event.kind # "text" /\ text # NoReq
       IN /\ apc' = IF final /\ waiting # NoReq THEN "reply" ELSE "frames"
          /\ reply' = IF final /\ waiting = NoReq THEN NoReq ELSE text
    /\ wire' = Tail(wire) /\ rx' = rx - 1
    /\ UNCHANGED <<toolVars, windowVars, clean, connected, taken, what, up, running, histVars>>

FramesDone ==
    /\ apc = "frames" /\ rx = 0 /\ apc' = "top"
    /\ UNCHANGED <<toolVars, windowVars, clean, connected, rx, taken, what, reply, linkVars, histVars>>

TakeReply == apc = "reply" /\ what' = "reply" /\ TakeRoute

Told(r, notice) ==
    told' = IF r = NoReq THEN told ELSE [told EXCEPT ![r] = Append(@, notice)]

\* No memory for the notice: the request is given up without one.
ReplyNoMemory ==
    /\ apc = "reply" /\ apc' = "frames" /\ reply' = NoReq
    /\ Told(waiting, "lost")
    /\ ClearPending
    /\ UNCHANGED <<toolVars, clean, connected, rx, taken, what, linkVars, accepted>>

\* The push may fail, for want of memory or of room on the bus.
Push(notice) ==
    /\ apc = "push"
    /\ Told(taken.req, notice)
    /\ taken' = NotTaken
    /\ IF what = "reply" THEN apc' = "frames" /\ reply' = NoReq
                         ELSE apc' = "top" /\ UNCHANGED reply
    /\ UNCHANGED <<toolVars, windowVars, clean, connected, rx, what, linkVars, accepted>>

PushOk == Push(what)
PushFails == Push("lost")

Task ==
    \/ Top \/ TakeTimeout \/ ConnectOk \/ ConnectFails \/ Window
    \/ RecvNothing \/ RecvEvents \/ RecvClosed
    \/ FrameRefused \/ Dispatch \/ FramesDone
    \/ TakeReply \/ ReplyNoMemory \/ PushOk \/ PushFails

-----------------------------------------------------------------------------
(* Time, the gateway and the network.  A run outlives the link it was      *)
(* asked on: its events go to the link that is up, or are lost.            *)

TimePasses ==
    /\ waiting # NoReq /\ ~due /\ due' = TRUE
    /\ UNCHANGED <<toolVars, waiting, route, clean, connected, taskVars, reply, linkVars, histVars>>

GwText(r) ==
    /\ r \in running /\ up /\ Len(wire) < MaxWire
    /\ wire' = Append(wire, [kind |-> "text", about |-> r])
    /\ UNCHANGED <<toolVars, windowVars, clean, connected, taskVars, reply, up, running, histVars>>

GwFinal(r, kind) ==
    /\ r \in running /\ Len(wire) < MaxWire
    /\ running' = running \ {r}
    /\ wire' = IF up THEN Append(wire, [kind |-> kind, about |-> r]) ELSE wire
    /\ UNCHANGED <<toolVars, windowVars, clean, connected, taskVars, reply, up, histVars>>

LinkLost ==
    /\ up /\ up' = FALSE
    /\ UNCHANGED <<toolVars, windowVars, clean, connected, taskVars, reply, wire, running, histVars>>

World ==
    \/ TimePasses \/ LinkLost
    \/ \E r \in Reqs : GwText(r) \/ \E kind \in {"final", "bare"} : GwFinal(r, kind)

Next == Tool \/ Task \/ World

Spec == Init /\ [][Next]_vars
FairSpec == Spec /\ WF_vars(Task) /\ WF_vars(TimePasses)

-----------------------------------------------------------------------------
(* Properties.                                                             *)

\* Every variable has its type; the events in rx_buf are the first of wire.
TypeOK ==
    /\ used \subseteq Reqs /\ treq \in ReqOrNone
    /\ tpc \in {"idle", "check", "route", "request", "send"}
    /\ (tpc = "idle") = (treq = NoReq)
    /\ waiting \in ReqOrNone /\ due \in BOOLEAN /\ route \in ReqOrNone
    /\ clean \in BOOLEAN /\ connected \in BOOLEAN
    /\ apc \in {"top", "expired", "link", "window", "recv", "frames", "reply", "push"}
    /\ taken \in Taken /\ what \in {"reply", "timeout"} /\ reply \in ReqOrNone
    /\ up \in BOOLEAN /\ wire \in Seq(Event) /\ rx \in 0 .. Len(wire)
    /\ running \subseteq Reqs /\ accepted \subseteq Reqs
    /\ told \in [Reqs -> Seq({"reply", "timeout", "lost"})]

\* A request made when nothing of an earlier one is left gets a notice at its
\* own chat, and when that is a reply, its own answer: whatever the link, the
\* gateway and the tool do meanwhile (acp_client_inject, __acp_dispatch).
CleanRequestGetsItsAnswer ==
    apc = "push" /\ taken.req # NoReq /\ taken.clean =>
        /\ taken.to = RouteOf(taken.req)
        /\ what = "reply" => reply = taken.req

\* A request is told the reply or the timeout, never both and neither twice,
\* though timeout, late reply, failing send and disconnection race for it
\* (__acp_take_pending_route closes the window with the copy).
NoticeOnce == \A r \in Reqs : Len(told[r]) =< 1

\* A request the tool reported as sent is told an answer or a timeout, or
\* the notice is lost on the bus: even when the gateway never comes back
\* (the timeout is looked at before the connection, acp_client_task).
AcceptedIsTold == \A r \in Reqs : r \in accepted ~> told[r] # <<>>

\* However tool and task interleave, window and taken route serve one request
\* after the other and tell each in its turn, as AsyncRequest says: the check
\* and the opening of the window are apart (acp_client_inject), and so are the
\* taking of the route and the push (__acp_push_notice_to_bus).
Requests == INSTANCE AsyncRequest WITH open <- waiting, hand <- taken.req
ServedOneByOne == Requests!Spec

\* "treats ACP as a one-question-one-answer async side channel"
\* (acp_client.c:1640): the reply told for a request is its own answer.
OneQuestionOneAnswer ==
    apc = "push" /\ what = "reply" /\ taken.req # NoReq => reply = taken.req

(* What holds in every state, proved in AcpClientProofs.                   *)

\* The tool passes the check of the window on its own thread, and only it
\* opens one; a taken route is being pushed; a reply has text.
Order ==
    /\ tpc \in {"route", "request"} => waiting = NoReq
    /\ tpc = "send" => waiting \in {NoReq, treq}
    /\ apc = "reply" => reply # NoReq
    /\ taken.req # NoReq => apc = "push"

\* A request waits, or its route is taken, or it has been told.
Fresh(r) == r \in used /\ told[r] = <<>>
Once ==
    /\ waiting # NoReq => Fresh(waiting) /\ taken.req # waiting
    /\ taken.req # NoReq => Fresh(taken.req)
    /\ tpc \in {"check", "route", "request"} =>
           Fresh(treq) /\ waiting # treq /\ taken.req # treq
    /\ \A r \in Reqs \ used : told[r] = <<>>
    /\ NoticeOnce

\* From its snapshot on, a clean request is alone with the gateway.
Alone ==
    /\ clean /\ tpc = "request" => Quiet /\ route = RouteOf(treq)
    /\ clean /\ waiting # NoReq =>
           /\ route = RouteOf(waiting)
           /\ running \subseteq {waiting} /\ reply \in {NoReq, waiting}
           /\ \A i \in 1 .. Len(wire) : wire[i].about = waiting
    /\ CleanRequestGetsItsAnswer

\* The inductive invariant: the window, the taken route and the clean request
\* of acp_client_inject and acp_client_task, whatever step comes next.
AcpInv == TypeOK /\ Order /\ Once /\ Alone
=============================================================================
