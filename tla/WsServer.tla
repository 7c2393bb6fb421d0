------------------------------- MODULE WsServer -------------------------------
(***************************************************************************)
(* The websocket server of the gateway, gateway/ws_server.c, between its   *)
(* clients and the message bus.                                            *)
(*                                                                         *)
(* The thread claw_ws accepts clients, reads what they send and pushes     *)
(* their messages; the outbound dispatcher (src/app_im.c) calls            *)
(* ws_server_send with the replies.  A mutex guards the client slots; the  *)
(* server holds it over every push and every send.                         *)
(***************************************************************************)
EXTENDS Naturals, Sequences

CONSTANTS
    Conns,      \* connections, each made once
    NoConn,
    Fds,        \* socket numbers; the id a client has before it gives one
    Names,      \* chat ids the clients give; one may look like a socket number
    Known,      \* the connections that present the token
    Listen,     \* the listening socket
    MaxItems,   \* bound of the model: what each connection sends
    MaxClients, \* CLAW_WS_MAX_CLIENTS
    QueueLen    \* IM_BUS_QUEUE_LEN

ASSUME SizeAssumption ==
    MaxClients \in Nat \ {0} /\ QueueLen \in Nat \ {0} /\ MaxItems \in [Conns -> Nat]
ASSUME ConnAssumption ==
    NoConn \notin Conns \cup Fds \cup Names /\ Listen \notin Fds /\ Known \subseteq Conns

VARIABLES
    auth,      \* the token is in the build (KV may replace it), only in KV,
               \* or there is none
    joined,    \* connections made
    open,      \* those whose client has not left
    backlog,   \* those the listening socket still holds
    sent,      \* how many items each client has sent
    net,       \* items the server has not received
    fd,        \* the socket number of each accepted connection
    slots,     \* s_clients
    mutex,     \* who holds s_ws_mutex
    tpc,       \* where claw_ws is
    ready,     \* readfds: watched, then readable
    ti,        \* the slot being served
    inq,       \* s_inbound_queue
    spc,       \* where the dispatcher is
    out,       \* the reply it is sending
    si,        \* the slot it sends to
    read,      \* history: how many items of each connection were taken up
    held,      \* history: the connections that have borne each chat id
    got        \* history: the replies each connection got

clientVars == <<auth, joined, sent>>
slotVars == <<open, net, fd, slots>>
taskVars == <<tpc, ready, ti>>
sendVars == <<spc, out, si>>
histVars == <<read, held, got>>
vars == <<clientVars, backlog, slotVars, mutex, taskVars, inq, sendVars, histVars>>

Chat == Fds \cup Names
\* The upgrade request, which comes first, a text, with a chat id or without,
\* or a close frame; the n-th its client sends.
Item == [kind : {"hello", "text", "close"}, id : Names \cup {NoConn}, n : Nat]
Msg == [from : Conns, chat : Chat]
NoMsg == [from |-> NoConn, chat |-> NoConn]
Slot == [conn : Conns \cup {NoConn}, shaken : BOOLEAN, chat : Chat \cup {NoConn}, rx : Seq(Item)]
FreeSlot == [conn |-> NoConn, shaken |-> FALSE, chat |-> NoConn, rx |-> <<>>]
Client == 1 .. MaxClients
Active(i) == slots[i].conn # NoConn
First(i, S) == i \in S /\ \A j \in S : i =< j

\* Without a token there is no authentication (ws_load_auth_token).
Welcome == IF auth = "none" THEN Conns ELSE Known

Init ==
    /\ auth \in {"none", "stored", "build"}
    /\ joined = {} /\ open = {} /\ backlog = <<>>
    /\ sent = [c \in Conns |-> 0] /\ net = [c \in Conns |-> <<>>]
    /\ fd = [c \in Conns |-> NoConn]
    /\ slots = [i \in Client |-> FreeSlot] /\ mutex = "free"
    /\ tpc = "build" /\ ready = {} /\ ti = 1
    /\ inq = <<>> /\ spc = "idle" /\ out = NoMsg /\ si = 1
    /\ read = [c \in Conns |-> 0] /\ held = [x \in Chat |-> {}]
    /\ got = [c \in Conns |-> {}]

-----------------------------------------------------------------------------
(* The clients.                                                            *)

Connect(c) ==
    /\ c \notin joined /\ joined' = joined \cup {c}
    /\ open' = open \cup {c} /\ backlog' = Append(backlog, c)
    /\ UNCHANGED <<auth, sent, net, fd, slots, mutex, taskVars, inq, sendVars, histVars>>

SendItem(c, kind, id) ==
    /\ c \in open /\ sent[c] < MaxItems[c]
    /\ kind = "hello" <=> sent[c] = 0
    /\ id # NoConn => kind = "text"
    /\ sent' = [sent EXCEPT ![c] = @ + 1]
    /\ net' = [net EXCEPT ![c] = Append(@, [kind |-> kind, id |-> id, n |-> sent[c] + 1])]
    /\ UNCHANGED <<auth, joined, backlog, open, fd, slots, mutex, taskVars, inq, sendVars, histVars>>

Leave(c) ==
    /\ c \in open /\ open' = open \ {c}
    /\ UNCHANGED <<clientVars, backlog, net, fd, slots, mutex, taskVars, inq, sendVars, histVars>>

Clients ==
    \E c \in Conns :
        \/ Connect(c) \/ Leave(c)
        \/ \E kind \in {"hello", "text", "close"}, id \in Names \cup {NoConn} : SendItem(c, kind, id)

-----------------------------------------------------------------------------
(* claw_ws.                                                                *)

\* ws_close_client_locked
CloseSlot(i) ==
    LET c == slots[i].conn
    IN /\ slots' = [slots EXCEPT ![i] = FreeSlot]
       /\ fd' = [fd EXCEPT ![c] = NoConn]
       /\ net' = [net EXCEPT ![c] = <<>>]
       /\ open' = open \ {c}

\* The sockets to watch, collected under the mutex.
Build ==
    /\ tpc = "build" /\ mutex = "free" /\ tpc' = "select"
    /\ ready' = {Listen} \cup {fd[slots[i].conn] : i \in {j \in Client : Active(j)}}
    /\ UNCHANGED <<clientVars, backlog, slotVars, mutex, ti, inq, sendVars, histVars>>

Readable(f) ==
    IF f = Listen THEN backlog # <<>>
    ELSE \E c \in Conns : fd[c] = f /\ (net[c] # <<>> \/ c \notin open)

\* Without the mutex: a watched socket may be closed meanwhile.
Select ==
    /\ tpc = "select"
    /\ ready' = {f \in ready : Readable(f)}
    /\ tpc' = IF ready' = {} THEN "build" ELSE "lock"
    /\ UNCHANGED <<clientVars, backlog, slotVars, mutex, ti, inq, sendVars, histVars>>

LockToServe == tpc = "lock" /\ mutex = "free" /\ mutex' = "task" /\ tpc' = "scan" /\ ti' = 1

Waiting == Listen \in ready /\ backlog # <<>>
FreeSlots == {i \in Client : ~Active(i)}

Accept(f) ==
    /\ LockToServe /\ Waiting /\ \A c \in Conns : fd[c] # f
    /\ \E i \in Client :
          /\ First(i, FreeSlots)
          /\ slots' = [slots EXCEPT ![i] = [FreeSlot EXCEPT !.conn = Head(backlog), !.chat = f]]
    /\ fd' = [fd EXCEPT ![Head(backlog)] = f]
    /\ held' = [held EXCEPT ![f] = @ \cup {Head(backlog)}]
    /\ backlog' = Tail(backlog)
    /\ UNCHANGED <<clientVars, open, net, ready, inq, sendVars, read, got>>

\* No slot is free: the socket is closed at once.
Reject ==
    /\ LockToServe /\ Waiting /\ FreeSlots = {}
    /\ open' = open \ {Head(backlog)} /\ net' = [net EXCEPT ![Head(backlog)] = <<>>]
    /\ backlog' = Tail(backlog)
    /\ UNCHANGED <<clientVars, fd, slots, ready, inq, sendVars, histVars>>

\* Nobody to accept, or accept failed.
AcceptNone ==
    /\ LockToServe
    /\ UNCHANGED <<clientVars, backlog, slotVars, ready, inq, sendVars, histVars>>

Serving(i) == tpc = "scan" /\ i = ti /\ ti \in Client /\ Active(i) /\ fd[slots[i].conn] \in ready
NextClient == tpc' = "scan" /\ ti' = ti + 1 /\ UNCHANGED ready

SkipClient ==
    /\ tpc = "scan" /\ ti \in Client
    /\ Serving(ti) => slots[ti].conn \in open /\ net[slots[ti].conn] = <<>>
    /\ NextClient
    /\ UNCHANGED <<clientVars, backlog, slotVars, mutex, inq, sendVars, histVars>>

\* The client has left, or its request fills the buffer.
RecvClosed ==
    /\ Serving(ti)
    /\ \/ slots[ti].conn \notin open
       \/ ~slots[ti].shaken /\ net[slots[ti].conn] # <<>>
    /\ CloseSlot(ti) /\ NextClient
    /\ UNCHANGED <<clientVars, backlog, mutex, inq, sendVars, histVars>>

RecvItems ==
    /\ Serving(ti)
    /\ LET c == slots[ti].conn
       IN \E k \in 1 .. Len(net[c]) :
             /\ slots' = [slots EXCEPT ![ti].rx = @ \o SubSeq(net[c], 1, k)]
             /\ net' = [net EXCEPT ![c] = SubSeq(@, k + 1, Len(@))]
    /\ tpc' = "frames"
    /\ UNCHANGED <<clientVars, backlog, open, fd, mutex, ready, ti, inq, sendVars, histVars>>

\* The next item of the slot's buffer.
AtItem(kind) == tpc = "frames" /\ slots[ti].rx # <<>> /\ Head(slots[ti].rx).kind = kind
TakeUp == read' = [read EXCEPT ![slots[ti].conn] = Head(slots[ti].rx).n]

\* Mutant: what came behind the request is lost.
HandshakeDropsRest ==
    /\ AtItem("hello") /\ slots[ti].conn \in Welcome
    /\ slots' = [slots EXCEPT ![ti].shaken = TRUE, ![ti].rx = <<>>]
    /\ TakeUp
    /\ UNCHANGED <<clientVars, backlog, open, net, fd, mutex, taskVars, inq, sendVars, held, got>>

\* Mutant: what came behind the request waits for more to come.
HandshakeReturns ==
    /\ AtItem("hello") /\ slots[ti].conn \in Welcome
    /\ slots' = [slots EXCEPT ![ti].shaken = TRUE, ![ti].rx = Tail(@)]
    /\ TakeUp /\ NextClient
    /\ UNCHANGED <<clientVars, backlog, open, net, fd, mutex, inq, sendVars, held, got>>

Handshake ==
    /\ AtItem("hello") /\ slots[ti].conn \in Welcome
    /\ slots' = [slots EXCEPT ![ti].shaken = TRUE, ![ti].rx = Tail(@)]
    /\ TakeUp
    /\ UNCHANGED <<clientVars, backlog, open, net, fd, mutex, taskVars, inq, sendVars, held, got>>

\* A wrong token, a missing header, or an answer that could not be sent.
HandshakeFails ==
    /\ AtItem("hello") /\ CloseSlot(ti) /\ NextClient
    /\ UNCHANGED <<clientVars, backlog, mutex, inq, sendVars, histVars>>

\* A client that gives an id bears it from now on.
ChatOf(i) == IF Head(slots[i].rx).id = NoConn THEN slots[i].chat ELSE Head(slots[i].rx).id

TakeText ==
    /\ AtItem("text") /\ slots[ti].shaken
    /\ slots' = [slots EXCEPT ![ti].chat = ChatOf(ti), ![ti].rx = Tail(@)]
    /\ held' = [held EXCEPT ![ChatOf(ti)] = @ \cup {slots[ti].conn}]
    /\ TakeUp
    /\ UNCHANGED <<clientVars, backlog, open, net, fd, mutex, ready, ti, sendVars, got>>

\* The push may wait for a second, the mutex held, and then give up.
TextPushed ==
    /\ TakeText /\ UNCHANGED tpc
    /\ Len(inq) < QueueLen
    /\ inq' = Append(inq, [from |-> slots[ti].conn, chat |-> ChatOf(ti)])

TextDropped == TakeText /\ UNCHANGED <<tpc, inq>>

CloseFrame ==
    /\ AtItem("close") /\ slots[ti].shaken /\ TakeUp /\ CloseSlot(ti) /\ NextClient
    /\ UNCHANGED <<clientVars, backlog, mutex, inq, sendVars, held, got>>

\* A frame too large for the buffer, or no memory for it.
FrameRefused ==
    /\ tpc = "frames" /\ slots[ti].rx # <<>> /\ slots[ti].shaken
    /\ CloseSlot(ti) /\ NextClient
    /\ UNCHANGED <<clientVars, backlog, mutex, inq, sendVars, histVars>>

FramesDone ==
    /\ tpc = "frames" /\ slots[ti].rx = <<>> /\ NextClient
    /\ UNCHANGED <<clientVars, backlog, slotVars, mutex, inq, sendVars, histVars>>

ScanDone ==
    /\ tpc = "scan" /\ ti \notin Client /\ mutex' = "free" /\ tpc' = "build"
    /\ UNCHANGED <<clientVars, backlog, slotVars, ready, ti, inq, sendVars, histVars>>

Accepting == AcceptNone \/ Reject \/ \E f \in Fds : Accept(f)
Serve ==
    \/ Select \/ SkipClient \/ RecvClosed \/ RecvItems
    \/ Handshake \/ HandshakeFails \/ TextPushed \/ TextDropped
    \/ CloseFrame \/ FrameRefused \/ FramesDone \/ ScanDone

-----------------------------------------------------------------------------
(* The outbound dispatcher.  The turn of the agent between message and     *)
(* reply is left out; AgentLoop models it.                                 *)

TakeReply ==
    /\ spc = "idle" /\ inq # <<>> /\ auth = "build" /\ spc' = "lock"
    /\ out' = Head(inq) /\ inq' = Tail(inq)
    /\ UNCHANGED <<clientVars, backlog, slotVars, mutex, taskVars, si, histVars>>

\* The dispatcher knows the token of the build only: without it no reply is
\* sent, whatever the server itself goes by (__app_im_ws_token_valid).
DropReply ==
    /\ spc = "idle" /\ inq # <<>> /\ auth # "build" /\ inq' = Tail(inq)
    /\ UNCHANGED <<clientVars, backlog, slotVars, mutex, taskVars, sendVars, histVars>>

\* ws_find_client_by_chat_id_locked
Bearers == {i \in Client : Active(i) /\ slots[i].chat = out.chat}
\* Mutant: a client that has not shaken hands is found.
FoundUnshaken(i) == First(i, Bearers)

Found(i) == First(i, Bearers) /\ slots[i].shaken

\* Mutant: the reply is kept until its client is back.
SendNotFoundRetries ==
    /\ spc = "lock" /\ mutex = "free" /\ \A i \in Client : ~Found(i)
    /\ UNCHANGED vars

SendNotFound ==
    /\ spc = "lock" /\ mutex = "free" /\ \A i \in Client : ~Found(i)
    /\ spc' = "idle" /\ out' = NoMsg
    /\ UNCHANGED <<clientVars, backlog, slotVars, mutex, taskVars, inq, si, histVars>>

\* Mutant: the mutex is given back before the reply is sent.
SendFoundUnlocked ==
    /\ spc = "lock" /\ mutex = "free" /\ spc' = "send"
    /\ \E i \in Client : Found(i) /\ si' = i
    /\ UNCHANGED <<clientVars, backlog, slotVars, mutex, taskVars, inq, out, histVars>>

SendFound ==
    /\ spc = "lock" /\ mutex = "free" /\ spc' = "send" /\ mutex' = "send"
    /\ \E i \in Client : Found(i) /\ si' = i
    /\ UNCHANGED <<clientVars, backlog, slotVars, taskVars, inq, out, histVars>>

SendEnd == spc = "send" /\ spc' = "idle" /\ mutex' = "free" /\ out' = NoMsg

\* ws_send_all waits as long as the client does not read.
SendOk ==
    /\ SendEnd
    /\ got' = [got EXCEPT ![slots[si].conn] = @ \cup {out}]
    /\ UNCHANGED <<clientVars, backlog, slotVars, taskVars, inq, si, read, held>>

SendFails ==
    /\ SendEnd /\ CloseSlot(si)
    /\ UNCHANGED <<clientVars, backlog, taskVars, inq, si, histVars>>

SendLock == SendNotFound \/ SendFound

-----------------------------------------------------------------------------
Next ==
    \/ Clients \/ Build \/ Accepting \/ Serve
    \/ TakeReply \/ DropReply \/ SendLock \/ SendOk \/ SendFails

Spec == Init /\ [][Next]_vars

\* claw_ws runs, and so does a dispatcher that has a reply: a waiter for the
\* mutex is served, though it is taken again and again; a client reads what it
\* is sent, or its link fails.
FairSpec ==
    /\ Spec /\ SF_vars(Build \/ Accepting \/ Serve)
    /\ SF_vars(SendLock \/ SendOk \/ SendFails)

-----------------------------------------------------------------------------
(* Properties.                                                             *)

\* Every variable has its type.
ConnTypes ==
    /\ auth \in {"none", "stored", "build"}
    /\ joined \subseteq Conns /\ open \subseteq joined /\ backlog \in Seq(Conns)
    /\ sent \in [Conns -> Nat] /\ net \in [Conns -> Seq(Item)]
    /\ fd \in [Conns -> Fds \cup {NoConn}]
    /\ read \in [Conns -> Nat] /\ held \in [Chat -> SUBSET Conns]
SlotTypes ==
    /\ slots \in [Client -> Slot] /\ mutex \in {"free", "task", "send"}
    /\ tpc \in {"build", "select", "lock", "scan", "frames"}
    /\ ready \subseteq Fds \cup {Listen} /\ ti \in 1 .. MaxClients + 1
    /\ tpc = "frames" => ti \in Client /\ Active(ti)
SendTypes ==
    /\ inq \in Seq(Msg) /\ Len(inq) =< QueueLen
    /\ spc \in {"idle", "lock", "send"} /\ out \in Msg \cup {NoMsg} /\ si \in Client
    /\ got \in [Conns -> SUBSET Msg]
TypeOK == ConnTypes /\ SlotTypes /\ SendTypes

\* What a client has sent is taken up in order, nothing twice and nothing of
\* the slot's former client: the buffer and the socket hold what is missing
\* (ws_process_client_buffer_locked, ws_reset_client).
NothingSkipped ==
    \A i \in Client : Active(i) =>
        LET c == slots[i].conn
            rest == slots[i].rx \o net[c]
        IN /\ Len(rest) = sent[c] - read[c]
           /\ \A k \in 1 .. Len(rest) : rest[k].n = read[c] + k

\* If there is a token, only a client that showed it is heard; and whether
\* there is one or not, nobody else is told anything
\* (ws_do_handshake_locked, ws_server_send, outbound_dispatch_task).
KnownOnly ==
    /\ auth # "none" => \A k \in 1 .. Len(inq) : inq[k].from \in Known
    /\ \A c \in Conns \ Known : got[c] = {}

\* A reply to an id that only the asker has ever borne reaches the asker or
\* nobody, while slots are closed and taken anew (ws_server_send).
OwnReply ==
    \A c \in Conns : \A m \in got[c] : held[m.chat] = {m.from} => c = m.from

\* The parts of the inductive invariant of the proofs.

\* Whoever holds the mutex is in the section it guards.
MutexIsHeld ==
    /\ mutex = "task" <=> tpc \in {"scan", "frames"}
    /\ mutex = "send" <=> spc = "send"

\* A connection waits once, or has one slot and a socket, or neither.
ConnsApart ==
    /\ \A k \in 1 .. Len(backlog) : backlog[k] \in joined
    /\ \A k, l \in 1 .. Len(backlog) : backlog[k] = backlog[l] => k = l
    /\ \A i \in Client : Active(i) =>
          /\ slots[i].conn \in joined /\ fd[slots[i].conn] # NoConn
          /\ slots[i].conn \in held[slots[i].chat] /\ slots[i].chat # NoConn
          /\ \A k \in 1 .. Len(backlog) : backlog[k] # slots[i].conn
    /\ \A i, j \in Client : Active(i) /\ slots[i].conn = slots[j].conn => i = j

\* After r of n items taken up, the buffer and the socket hold the others.
InOrder(rx, rest, r, n) ==
    /\ Len(rx) + Len(rest) + r = n
    /\ \A k \in 1 .. Len(rx) : rx[k].n = r + k
    /\ \A k \in 1 .. Len(rest) : rest[k].n = r + Len(rx) + k

\* Before it is accepted, all a connection sent is in its socket.
NothingReadYet ==
    \A c \in Conns : c \notin joined \/ (\E k \in 1 .. Len(backlog) : backlog[k] = c) =>
        read[c] = 0 /\ InOrder(<<>>, net[c], read[c], sent[c])

\* NothingSkipped, buffer and socket apart.
RestInOrder ==
    \A i \in Client : Active(i) =>
        InOrder(slots[i].rx, net[slots[i].conn], read[slots[i].conn], sent[slots[i].conn])

\* Only welcome clients get past the handshake, and into what follows from it.
KnownOnwards ==
    /\ KnownOnly
    /\ \A i \in Client : Active(i) /\ slots[i].shaken => slots[i].conn \in Welcome

\* A reply is on its way only with the token of the build.
SendingWithToken == spc # "idle" => auth = "build"

\* The reply that is being sent is on its way to a bearer of its chat id.
SendingToBearer ==
    /\ spc # "idle" => out \in Msg
    /\ spc = "send" => Active(si) /\ slots[si].shaken /\ slots[si].chat = out.chat
    /\ \A c \in Conns : \A m \in got[c] : c \in held[m.chat]

\* The inductive invariant of the proofs.
WsInv ==
    /\ TypeOK /\ MutexIsHeld /\ ConnsApart /\ NothingReadYet /\ RestInOrder
    /\ KnownOnwards /\ SendingWithToken /\ SendingToBearer

\* Only the upgrade request comes first, and it is what shakes hands.
Opens(items) == \A k \in 1 .. Len(items) : items[k].kind = "hello" <=> items[k].n = 1
HelloFirst ==
    /\ \A c \in Conns : Opens(net[c])
    /\ \A i \in Client : Active(i) =>
          Opens(slots[i].rx) /\ (slots[i].shaken <=> read[slots[i].conn] > 0)

\* The inductive invariant of the refinement.
SessionInv == WsInv /\ HelloFirst

\* How far a connection has come: where it waits, or what its slot says.
Waits(c) == \E k \in 1 .. Len(backlog) : backlog[k] = c
Has(i, c) == slots[i].conn = c
Phases ==
    [c \in Conns |->
        IF c \notin joined THEN "new"
        ELSE IF Waits(c) THEN "waiting"
        ELSE IF \E i \in Client : Has(i, c) /\ slots[i].shaken THEN "shaken"
        ELSE IF \E i \in Client : Has(i, c) THEN "admitted"
        ELSE "gone"]

Session == INSTANCE ClientSession
    WITH welcome <- Welcome, phase <- Phases, taken <- read, told <- got, Replies <- Msg

\* Every connection is served as ClientSession promises, though slots, buffers
\* and socket numbers are used again: it shakes hands once, with its first
\* item, and with the token if there is one, its items are taken up one by one after that,
\* it is told replies only then, and nothing is taken up of a connection that
\* is gone (ws_task, ws_process_client_buffer_locked, ws_server_send).
SessionsInOrder == Session!Spec

\* Every reply is sent or given up: the mutex always comes free again.
RepliesLeave == spc = "lock" ~> spc = "idle"

\* What an accepted client sends is taken up, or its connection closed.
ItemsAreRead ==
    \A c \in Conns : \A n \in 1 .. MaxItems[c] :
        fd[c] # NoConn /\ sent[c] >= n ~> fd[c] = NoConn \/ read[c] >= n
=============================================================================
