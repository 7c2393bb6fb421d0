--------------------------- MODULE AcpClientProofs ---------------------------
(* The invariants of AcpClient, for every set of requests and any number of  *)
(* events on the link.                                                       *)
EXTENDS AcpClient, TLAPS, SequenceTheorems

\* Sequences the actions build: appending, taking the head and the tail.
LEMMA WireFacts ==
    ASSUME NEW w \in Seq(Event), NEW k \in {"text", "final", "bare"}, NEW r \in Reqs
    PROVE  /\ Append(w, [kind |-> k, about |-> r]) \in Seq(Event)
           /\ Len(Append(w, [kind |-> k, about |-> r])) = Len(w) + 1
           /\ \A i \in 1 .. Len(w) : Append(w, [kind |-> k, about |-> r])[i] = w[i]
           /\ Append(w, [kind |-> k, about |-> r])[Len(w) + 1].about = r
PROOF
  <1>1. [kind |-> k, about |-> r] \in Event  BY DEF Event
  <1>2. QED  BY <1>1

\* What is left of the events when the first is gone.
LEMMA TailFacts ==
    ASSUME NEW w \in Seq(Event), Len(w) > 0
    PROVE  /\ Head(w) \in Event /\ Head(w) = w[1]
           /\ Tail(w) \in Seq(Event) /\ Len(Tail(w)) = Len(w) - 1
           /\ \A i \in 1 .. Len(Tail(w)) : Tail(w)[i] = w[i + 1] /\ i + 1 \in 1 .. Len(w)
PROOF
  <1>1. w # <<>>  OBVIOUS
  <1>2. QED  BY <1>1, HeadTailProperties

\* The notices of one request, one longer.
LEMMA ToldFacts ==
    ASSUME NEW t \in [Reqs -> Seq({"reply", "timeout", "lost"})], NEW r \in Reqs,
           NEW n \in {"reply", "timeout", "lost"}
    PROVE  /\ [t EXCEPT ![r] = Append(@, n)] \in [Reqs -> Seq({"reply", "timeout", "lost"})]
           /\ Len([t EXCEPT ![r] = Append(@, n)][r]) = Len(t[r]) + 1
PROOF
  <1>1. Append(t[r], n) \in Seq({"reply", "timeout", "lost"})  OBVIOUS
  <1>2. Len(Append(t[r], n)) = Len(t[r]) + 1  OBVIOUS
  <1>3. QED  BY <1>1, <1>2

\* Every step keeps the types.
LEMMA TypeStep ==
    ASSUME TypeOK, Next
    PROVE  TypeOK'
PROOF
<1> USE NoReqAssumption, RoutedAssumption DEF TypeOK, ReqOrNone
<1>1. ASSUME NEW r \in Reqs, ToolCall(r) PROVE TypeOK'
  BY <1>1 DEF ToolCall, windowVars, taskVars, linkVars, histVars
<1>2. CASE CheckWindow
  BY <1>2 DEF CheckWindow, windowVars, taskVars, linkVars, histVars
<1>3. CASE SnapshotRoute
  BY <1>3 DEF SnapshotRoute, taskVars, linkVars, histVars, RouteOf, Quiet
<1>4. CASE NotBuilt
  BY <1>4 DEF NotBuilt, windowVars, taskVars, linkVars, histVars
<1>5. CASE OpenWindow
  BY <1>5 DEF OpenWindow, taskVars, linkVars, histVars
<1>6. CASE SendOk
  BY <1>6 DEF SendOk, windowVars, taskVars
<1>7. CASE SendFails
  BY <1>7 DEF SendFails, ClearPending, taskVars, linkVars, histVars
<1>8. CASE Top
  BY <1>8 DEF Top, TimedOut, toolVars, windowVars, linkVars, histVars
<1>9. CASE TakeTimeout
  BY <1>9 DEF TakeTimeout, TakeRoute, ClearPending, toolVars, linkVars, histVars, Taken
<1>10. CASE ConnectOk
  BY <1>10 DEF ConnectOk, toolVars, windowVars, histVars
<1>11. CASE ConnectFails
  BY <1>11 DEF ConnectFails, toolVars, windowVars, linkVars, histVars
<1>12. CASE Window
  BY <1>12 DEF Window, toolVars, windowVars, linkVars, histVars
<1>13. CASE RecvNothing
  BY <1>13 DEF RecvNothing, toolVars, windowVars, linkVars, histVars
<1>14. CASE RecvEvents
  BY <1>14 DEF RecvEvents, toolVars, windowVars, linkVars, histVars
<1>15. CASE RecvClosed
  <2>1. up' \in BOOLEAN /\ connected' \in BOOLEAN  BY <1>15 DEF RecvClosed, Disconnect
  <2>2. wire' = <<>> /\ rx' = 0 /\ apc' = "top" /\ reply' = NoReq
    BY <1>15 DEF RecvClosed, Disconnect
  <2>3. UNCHANGED <<used, tpc, treq, waiting, due, route, clean, taken, what, running, accepted, told>>
    BY <1>15 DEF RecvClosed, Disconnect, toolVars, windowVars, histVars
  <2>4. wire' \in Seq(Event) /\ rx' \in 0 .. Len(wire')  BY <2>2
  <2>5. QED  BY <2>1, <2>2, <2>3, <2>4
<1>16. CASE FrameRefused
  <2>1. up' \in BOOLEAN /\ connected' \in BOOLEAN  BY <1>16 DEF FrameRefused, Disconnect
  <2>2. wire' = <<>> /\ rx' = 0 /\ apc' = "top" /\ reply' = NoReq
    BY <1>16 DEF FrameRefused, Disconnect
  <2>3. UNCHANGED <<used, tpc, treq, waiting, due, route, clean, taken, what, running, accepted, told>>
    BY <1>16 DEF FrameRefused, Disconnect, toolVars, windowVars, histVars
  <2>4. wire' \in Seq(Event) /\ rx' \in 0 .. Len(wire')  BY <2>2
  <2>5. QED  BY <2>1, <2>2, <2>3, <2>4
<1>17. CASE Dispatch
  <2> DEFINE text == IF Head(wire).kind = "bare" THEN reply ELSE Head(wire).about
  <2>1. Head(wire) \in Event /\ Tail(wire) \in Seq(Event) /\ Len(Tail(wire)) = Len(wire) - 1
    BY <1>17, TailFacts DEF Dispatch
  <2>2. text \in Reqs \cup {NoReq} /\ reply' \in {text, NoReq} /\ apc' \in {"reply", "frames"}
    BY <1>17, <2>1 DEF Dispatch, Event
  <2>3. rx - 1 \in 0 .. Len(Tail(wire))  BY <1>17, <2>1 DEF Dispatch
  <2>4. QED  BY <1>17, <2>1, <2>2, <2>3 DEF Dispatch, toolVars, windowVars, histVars
<1>18. CASE FramesDone
  BY <1>18 DEF FramesDone, toolVars, windowVars, linkVars, histVars
<1>19. CASE TakeReply
  BY <1>19 DEF TakeReply, TakeRoute, ClearPending, toolVars, linkVars, histVars, Taken
<1>20. CASE ReplyNoMemory
  <2>1. told' \in [Reqs -> Seq({"reply", "timeout", "lost"})]
    BY <1>20, ToldFacts DEF ReplyNoMemory, Told
  <2>2. QED  BY <1>20, <2>1 DEF ReplyNoMemory, ClearPending, toolVars, linkVars
<1>21. CASE PushOk
  <2>1. told' \in [Reqs -> Seq({"reply", "timeout", "lost"})]
    BY <1>21, ToldFacts DEF PushOk, Push, Told, Taken
  <2>2. taken' \in Taken  BY <1>21 DEF PushOk, Push, Taken, NotTaken
  <2>3. QED  BY <1>21, <2>1, <2>2 DEF PushOk, Push, toolVars, windowVars, linkVars
<1>22. CASE PushFails
  <2>1. told' \in [Reqs -> Seq({"reply", "timeout", "lost"})]
    BY <1>22, ToldFacts DEF PushFails, Push, Told, Taken
  <2>2. taken' \in Taken  BY <1>22 DEF PushFails, Push, Taken, NotTaken
  <2>3. QED  BY <1>22, <2>1, <2>2 DEF PushFails, Push, toolVars, windowVars, linkVars
<1>23. CASE TimePasses
  BY <1>23 DEF TimePasses, toolVars, taskVars, linkVars, histVars
<1>24. CASE LinkLost
  <2>1. up' \in BOOLEAN  BY <1>24 DEF LinkLost
  <2>2. UNCHANGED <<used, tpc, treq, waiting, due, route, clean, connected, apc, rx, taken, what,
                    reply, wire, running, accepted, told>>
    BY <1>24 DEF LinkLost, toolVars, windowVars, taskVars, histVars
  <2>3. QED  BY <2>1, <2>2
<1>25. ASSUME NEW r \in Reqs, GwText(r) PROVE TypeOK'
  <2>1. wire' \in Seq(Event) /\ Len(wire') = Len(wire) + 1
    BY <1>25, WireFacts DEF GwText
  <2>2. QED  BY <1>25, <2>1 DEF GwText, toolVars, windowVars, taskVars, histVars
<1>26. ASSUME NEW r \in Reqs, NEW k \in {"final", "bare"}, GwFinal(r, k) PROVE TypeOK'
  <2>1. wire' \in Seq(Event) /\ Len(wire') >= Len(wire)
    BY <1>26, WireFacts DEF GwFinal
  <2>2. QED  BY <1>26, <2>1 DEF GwFinal, toolVars, windowVars, taskVars, histVars
<1> HIDE DEF TypeOK, ReqOrNone
<1>27. QED
  BY <1>1, <1>2, <1>3, <1>4, <1>5, <1>6, <1>7, <1>8, <1>9, <1>10, <1>11, <1>12, <1>13, <1>14, <1>15, <1>16, <1>17, <1>18, <1>19, <1>20, <1>21, <1>22, <1>23, <1>24, <1>25, <1>26 DEF Next, Tool, Task, World

\* Every step keeps the order of tool and task.
LEMMA OrderStep ==
    ASSUME TypeOK, Order, Next
    PROVE  Order'
PROOF
<1> USE NoReqAssumption DEF TypeOK, ReqOrNone, Order
<1>1. ASSUME NEW r \in Reqs, ToolCall(r) PROVE Order'
  BY <1>1 DEF ToolCall, windowVars, taskVars, linkVars, histVars
<1>2. CASE CheckWindow
  BY <1>2 DEF CheckWindow, windowVars, taskVars, linkVars, histVars
<1>3. CASE SnapshotRoute
  BY <1>3 DEF SnapshotRoute, taskVars, linkVars, histVars
<1>4. CASE NotBuilt
  BY <1>4 DEF NotBuilt, windowVars, taskVars, linkVars, histVars
<1>5. CASE OpenWindow
  BY <1>5 DEF OpenWindow, taskVars, linkVars, histVars
<1>6. CASE SendOk
  BY <1>6 DEF SendOk, windowVars, taskVars
<1>7. CASE SendFails
  BY <1>7 DEF SendFails, ClearPending, taskVars, linkVars, histVars
<1>8. CASE Top
  BY <1>8 DEF Top, TimedOut, toolVars, windowVars, linkVars, histVars
<1>9. CASE TakeTimeout
  BY <1>9 DEF TakeTimeout, TakeRoute, ClearPending, toolVars, linkVars, histVars, Taken
<1>10. CASE ConnectOk
  BY <1>10 DEF ConnectOk, toolVars, windowVars, histVars
<1>11. CASE ConnectFails
  BY <1>11 DEF ConnectFails, toolVars, windowVars, linkVars, histVars
<1>12. CASE Window
  BY <1>12 DEF Window, toolVars, windowVars, linkVars, histVars
<1>13. CASE RecvNothing
  BY <1>13 DEF RecvNothing, toolVars, windowVars, linkVars, histVars
<1>14. CASE RecvEvents
  BY <1>14 DEF RecvEvents, toolVars, windowVars, linkVars, histVars
<1>15. CASE RecvClosed
  BY <1>15 DEF RecvClosed, Disconnect, toolVars, windowVars, histVars
<1>16. CASE FrameRefused
  BY <1>16 DEF FrameRefused, Disconnect, toolVars, windowVars, histVars
<1>17. CASE Dispatch
  BY <1>17 DEF Dispatch, toolVars, windowVars, histVars
<1>18. CASE FramesDone
  BY <1>18 DEF FramesDone, toolVars, windowVars, linkVars, histVars
<1>19. CASE TakeReply
  BY <1>19 DEF TakeReply, TakeRoute, ClearPending, toolVars, linkVars, histVars, Taken
<1>20. CASE ReplyNoMemory
  BY <1>20 DEF ReplyNoMemory, Told, ClearPending, toolVars, linkVars
<1>21. CASE PushOk
  BY <1>21 DEF PushOk, Push, Told, toolVars, windowVars, linkVars, NotTaken
<1>22. CASE PushFails
  BY <1>22 DEF PushFails, Push, Told, toolVars, windowVars, linkVars, NotTaken
<1>23. CASE TimePasses
  BY <1>23 DEF TimePasses, toolVars, taskVars, linkVars, histVars
<1>24. CASE LinkLost
  BY <1>24 DEF LinkLost, toolVars, windowVars, taskVars, histVars
<1>25. ASSUME NEW r \in Reqs, GwText(r) PROVE Order'
  BY <1>25 DEF GwText, toolVars, windowVars, taskVars, histVars
<1>26. ASSUME NEW r \in Reqs, NEW k \in {"final", "bare"}, GwFinal(r, k) PROVE Order'
  BY <1>26 DEF GwFinal, toolVars, windowVars, taskVars, histVars
<1> HIDE DEF TypeOK, ReqOrNone, Order
<1>27. QED
  BY <1>1, <1>2, <1>3, <1>4, <1>5, <1>6, <1>7, <1>8, <1>9, <1>10, <1>11, <1>12, <1>13, <1>14, <1>15, <1>16, <1>17, <1>18, <1>19, <1>20, <1>21, <1>22, <1>23, <1>24, <1>25, <1>26 DEF Next, Tool, Task, World

\* Every step keeps a request from being told twice.
LEMMA OnceStep ==
    ASSUME TypeOK, Order, Once, Next
    PROVE  Once'
PROOF
<1> USE NoReqAssumption DEF TypeOK, ReqOrNone, Order, Once, Fresh, NoticeOnce
<1>1. ASSUME NEW r \in Reqs, ToolCall(r) PROVE Once'
  BY <1>1 DEF ToolCall, windowVars, taskVars, linkVars, histVars
<1>2. CASE CheckWindow
  BY <1>2 DEF CheckWindow, windowVars, taskVars, linkVars, histVars
<1>3. CASE SnapshotRoute
  BY <1>3 DEF SnapshotRoute, taskVars, linkVars, histVars
<1>4. CASE NotBuilt
  BY <1>4 DEF NotBuilt, windowVars, taskVars, linkVars, histVars
<1>5. CASE OpenWindow
  BY <1>5 DEF OpenWindow, taskVars, linkVars, histVars
<1>6. CASE SendOk
  BY <1>6 DEF SendOk, windowVars, taskVars
<1>7. CASE SendFails
  BY <1>7 DEF SendFails, ClearPending, taskVars, linkVars, histVars
<1>8. CASE Top
  BY <1>8 DEF Top, TimedOut, toolVars, windowVars, linkVars, histVars
<1>9. CASE TakeTimeout
  BY <1>9 DEF TakeTimeout, TakeRoute, ClearPending, toolVars, linkVars, histVars, Taken
<1>10. CASE ConnectOk
  BY <1>10 DEF ConnectOk, toolVars, windowVars, histVars
<1>11. CASE ConnectFails
  BY <1>11 DEF ConnectFails, toolVars, windowVars, linkVars, histVars
<1>12. CASE Window
  BY <1>12 DEF Window, toolVars, windowVars, linkVars, histVars
<1>13. CASE RecvNothing
  BY <1>13 DEF RecvNothing, toolVars, windowVars, linkVars, histVars
<1>14. CASE RecvEvents
  BY <1>14 DEF RecvEvents, toolVars, windowVars, linkVars, histVars
<1>15. CASE RecvClosed
  BY <1>15 DEF RecvClosed, Disconnect, toolVars, windowVars, histVars
<1>16. CASE FrameRefused
  BY <1>16 DEF FrameRefused, Disconnect, toolVars, windowVars, histVars
<1>17. CASE Dispatch
  BY <1>17 DEF Dispatch, toolVars, windowVars, histVars
<1>18. CASE FramesDone
  BY <1>18 DEF FramesDone, toolVars, windowVars, linkVars, histVars
<1>19. CASE TakeReply
  BY <1>19 DEF TakeReply, TakeRoute, ClearPending, toolVars, linkVars, histVars, Taken
<1>20. CASE ReplyNoMemory
  <2>1. CASE waiting = NoReq
    BY <1>20, <2>1 DEF ReplyNoMemory, ClearPending, Told, toolVars
  <2>2. CASE waiting # NoReq
    <3>1. Len(told'[waiting]) =< 1 /\ \A r \in Reqs \ {waiting} : told'[r] = told[r]
      BY <1>20, <2>2, ToldFacts DEF ReplyNoMemory, Told
    <3>2. NoticeOnce'
      <4>1. ASSUME NEW r \in Reqs PROVE Len(told'[r]) =< 1
        <5>1. CASE r = waiting  BY <2>2, <3>1, <5>1
        <5>2. CASE r # waiting  BY <2>2, <3>1, <5>2
        <5>3. QED  BY <5>1, <5>2
      <4>2. QED  BY <4>1
    <3>3. apc' = "frames" /\ UNCHANGED <<used, tpc, treq, taken>>
      BY <1>20 DEF ReplyNoMemory, toolVars
    <3>4. waiting' = NoReq  BY <1>20 DEF ReplyNoMemory, ClearPending
    <3>5. taken.req # waiting /\ (tpc \in {"check", "route", "request"} => treq # waiting)  BY <2>2
    <3>6. QED  BY <2>2, <3>1, <3>2, <3>3, <3>4, <3>5 DEF Taken
  <2>3. QED  BY <2>1, <2>2
<1>21. CASE PushOk
  <2>1. taken'.req = NoReq  BY <1>21 DEF PushOk, Push, NotTaken
  <2>2. CASE taken.req = NoReq
    BY <1>21, <2>1, <2>2 DEF PushOk, Push, Told, toolVars, windowVars
  <2>3. CASE taken.req # NoReq
    <3>1. taken.req \in Reqs  BY <2>3 DEF Taken
    <3>2. Len(told'[taken.req]) =< 1 /\ \A r \in Reqs \ {taken.req} : told'[r] = told[r]
      BY <1>21, <2>3, <3>1, ToldFacts DEF PushOk, Push, Told
    <3>3. UNCHANGED <<used, tpc, treq, waiting>>  BY <1>21 DEF PushOk, Push, toolVars, windowVars
    <3>4. NoticeOnce'
      <4>1. ASSUME NEW r \in Reqs PROVE Len(told'[r]) =< 1
        <5>1. CASE r = taken.req  BY <3>1, <3>2, <5>1
        <5>2. CASE r # taken.req  BY <3>1, <3>2, <5>2
        <5>3. QED  BY <5>1, <5>2
      <4>2. QED  BY <4>1
    <3>5. taken.req \in used /\ waiting # taken.req
          /\ (tpc \in {"check", "route", "request"} => treq # taken.req)  BY <2>3
    <3>6. QED  BY <2>1, <3>1, <3>2, <3>3, <3>4, <3>5
  <2>4. QED  BY <2>2, <2>3
<1>22. CASE PushFails
  <2>1. taken'.req = NoReq  BY <1>22 DEF PushFails, Push, NotTaken
  <2>2. CASE taken.req = NoReq
    BY <1>22, <2>1, <2>2 DEF PushFails, Push, Told, toolVars, windowVars
  <2>3. CASE taken.req # NoReq
    <3>1. taken.req \in Reqs  BY <2>3 DEF Taken
    <3>2. Len(told'[taken.req]) =< 1 /\ \A r \in Reqs \ {taken.req} : told'[r] = told[r]
      BY <1>22, <2>3, <3>1, ToldFacts DEF PushFails, Push, Told
    <3>3. UNCHANGED <<used, tpc, treq, waiting>>  BY <1>22 DEF PushFails, Push, toolVars, windowVars
    <3>4. NoticeOnce'
      <4>1. ASSUME NEW r \in Reqs PROVE Len(told'[r]) =< 1
        <5>1. CASE r = taken.req  BY <3>1, <3>2, <5>1
        <5>2. CASE r # taken.req  BY <3>1, <3>2, <5>2
        <5>3. QED  BY <5>1, <5>2
      <4>2. QED  BY <4>1
    <3>5. taken.req \in used /\ waiting # taken.req
          /\ (tpc \in {"check", "route", "request"} => treq # taken.req)  BY <2>3
    <3>6. QED  BY <2>1, <3>1, <3>2, <3>3, <3>4, <3>5
  <2>4. QED  BY <2>2, <2>3
<1>23. CASE TimePasses
  BY <1>23 DEF TimePasses, toolVars, taskVars, linkVars, histVars
<1>24. CASE LinkLost
  BY <1>24 DEF LinkLost, toolVars, windowVars, taskVars, histVars
<1>25. ASSUME NEW r \in Reqs, GwText(r) PROVE Once'
  BY <1>25 DEF GwText, toolVars, windowVars, taskVars, histVars
<1>26. ASSUME NEW r \in Reqs, NEW k \in {"final", "bare"}, GwFinal(r, k) PROVE Once'
  BY <1>26 DEF GwFinal, toolVars, windowVars, taskVars, histVars
<1> HIDE DEF TypeOK, ReqOrNone, Order, Once, Fresh, NoticeOnce
<1>27. QED
  BY <1>1, <1>2, <1>3, <1>4, <1>5, <1>6, <1>7, <1>8, <1>9, <1>10, <1>11, <1>12, <1>13, <1>14, <1>15, <1>16, <1>17, <1>18, <1>19, <1>20, <1>21, <1>22, <1>23, <1>24, <1>25, <1>26 DEF Next, Tool, Task, World

\* Every step keeps a clean request alone with the gateway.
LEMMA AloneStep ==
    ASSUME TypeOK, Order, Alone, Next
    PROVE  Alone'
PROOF
<1> USE NoReqAssumption DEF TypeOK, ReqOrNone, Order, Alone, Quiet, CleanRequestGetsItsAnswer
<1>1. ASSUME NEW r \in Reqs, ToolCall(r) PROVE Alone'
  BY <1>1 DEF ToolCall, windowVars, taskVars, linkVars, histVars
<1>2. CASE CheckWindow
  BY <1>2 DEF CheckWindow, windowVars, taskVars, linkVars, histVars
<1>3. CASE SnapshotRoute
  BY <1>3 DEF SnapshotRoute, taskVars, linkVars, histVars
<1>4. CASE NotBuilt
  BY <1>4 DEF NotBuilt, windowVars, taskVars, linkVars, histVars
<1>5. CASE OpenWindow
  BY <1>5 DEF OpenWindow, taskVars, linkVars, histVars
<1>6. CASE SendOk
  BY <1>6 DEF SendOk, windowVars, taskVars
<1>7. CASE SendFails
  BY <1>7 DEF SendFails, ClearPending, taskVars, linkVars, histVars
<1>8. CASE Top
  BY <1>8 DEF Top, TimedOut, toolVars, windowVars, linkVars, histVars
<1>9. CASE TakeTimeout
  BY <1>9 DEF TakeTimeout, TakeRoute, ClearPending, toolVars, linkVars, histVars, Taken
<1>10. CASE ConnectOk
  BY <1>10 DEF ConnectOk, toolVars, windowVars, histVars
<1>11. CASE ConnectFails
  BY <1>11 DEF ConnectFails, toolVars, windowVars, linkVars, histVars
<1>12. CASE Window
  BY <1>12 DEF Window, toolVars, windowVars, linkVars, histVars
<1>13. CASE RecvNothing
  BY <1>13 DEF RecvNothing, toolVars, windowVars, linkVars, histVars
<1>14. CASE RecvEvents
  BY <1>14 DEF RecvEvents, toolVars, windowVars, linkVars, histVars
<1>15. CASE RecvClosed
  BY <1>15 DEF RecvClosed, Disconnect, toolVars, windowVars, histVars
<1>16. CASE FrameRefused
  BY <1>16 DEF FrameRefused, Disconnect, toolVars, windowVars, histVars
<1>17. CASE Dispatch
  <2>1. /\ Head(wire) = wire[1] /\ 1 \in 1 .. Len(wire) /\ Len(Tail(wire)) = Len(wire) - 1
        /\ \A i \in 1 .. Len(Tail(wire)) : Tail(wire)[i] = wire[i + 1] /\ i + 1 \in 1 .. Len(wire)
    BY <1>17, TailFacts DEF Dispatch
  <2>2. wire # <<>>  BY <1>17 DEF Dispatch
  <2>3. ~(clean /\ tpc = "request")  BY <1>17, <2>2
  <2>4. ASSUME clean, waiting # NoReq
        PROVE  reply' \in {NoReq, waiting} /\ \A i \in 1 .. Len(wire') : wire'[i].about = waiting
    BY <1>17, <2>1, <2>4 DEF Dispatch
  <2>5. apc' # "push"  BY <1>17 DEF Dispatch
  <2>6. QED  BY <1>17, <2>3, <2>4, <2>5 DEF Dispatch, toolVars, windowVars
<1>18. CASE FramesDone
  BY <1>18 DEF FramesDone, toolVars, windowVars, linkVars, histVars
<1>19. CASE TakeReply
  BY <1>19 DEF TakeReply, TakeRoute, ClearPending, toolVars, linkVars, histVars, Taken
<1>20. CASE ReplyNoMemory
  BY <1>20 DEF ReplyNoMemory, Told, ClearPending, toolVars, linkVars
<1>21. CASE PushOk
  BY <1>21 DEF PushOk, Push, Told, toolVars, windowVars, linkVars, NotTaken, Taken
<1>22. CASE PushFails
  BY <1>22 DEF PushFails, Push, Told, toolVars, windowVars, linkVars, NotTaken, Taken
<1>23. CASE TimePasses
  BY <1>23 DEF TimePasses, toolVars, taskVars, linkVars, histVars
<1>24. CASE LinkLost
  BY <1>24 DEF LinkLost, toolVars, windowVars, taskVars, histVars
<1>25. ASSUME NEW r \in Reqs, GwText(r) PROVE Alone'
  <2>1. ASSUME clean, waiting # NoReq PROVE \A i \in 1 .. Len(wire') : wire'[i].about = waiting
    <3>1. r = waiting  BY <1>25, <2>1 DEF GwText
    <3>2. QED  BY <1>25, <2>1, <3>1, WireFacts DEF GwText
  <2>2. QED  BY <1>25, <2>1 DEF GwText, toolVars, windowVars, taskVars
<1>26. ASSUME NEW r \in Reqs, NEW k \in {"final", "bare"}, GwFinal(r, k) PROVE Alone'
  <2>1. ASSUME clean, waiting # NoReq PROVE \A i \in 1 .. Len(wire') : wire'[i].about = waiting
    <3>1. r = waiting  BY <1>26, <2>1 DEF GwFinal
    <3>2. CASE up  BY <1>26, <2>1, <3>1, <3>2, WireFacts DEF GwFinal
    <3>3. CASE ~up  BY <1>26, <2>1, <3>3 DEF GwFinal
    <3>4. QED  BY <3>2, <3>3
  <2>2. QED  BY <1>26, <2>1 DEF GwFinal, toolVars, windowVars, taskVars
<1> HIDE DEF TypeOK, ReqOrNone, Order, Alone, Quiet, CleanRequestGetsItsAnswer
<1>27. QED
  BY <1>1, <1>2, <1>3, <1>4, <1>5, <1>6, <1>7, <1>8, <1>9, <1>10, <1>11, <1>12, <1>13, <1>14, <1>15, <1>16, <1>17, <1>18, <1>19, <1>20, <1>21, <1>22, <1>23, <1>24, <1>25, <1>26 DEF Next, Tool, Task, World

\* The first state.
LEMMA InitInv == Init => AcpInv
PROOF
<1> SUFFICES ASSUME Init PROVE AcpInv
  OBVIOUS
<1>1. TypeOK
  <2>1. wire \in Seq(Event) /\ rx \in 0 .. Len(wire)  BY DEF Init
  <2>2. told \in [Reqs -> Seq({"reply", "timeout", "lost"})]  BY DEF Init
  <2>3. taken \in Taken  BY DEF Init, Taken, NotTaken, ReqOrNone
  <2>4. QED  BY <2>1, <2>2, <2>3 DEF Init, TypeOK, ReqOrNone
<1>2. Order /\ Once /\ Alone
  BY NoReqAssumption DEF Init, Order, Once, Fresh, NoticeOnce, Alone, CleanRequestGetsItsAnswer, NotTaken
<1>3. QED  BY <1>1, <1>2 DEF AcpInv

\* The inductive invariant, on which the next three rest.
THEOREM AcpInvariant == Spec => []AcpInv
PROOF
<1>1. AcpInv /\ [Next]_vars => AcpInv'
  <2> SUFFICES ASSUME AcpInv, [Next]_vars PROVE AcpInv'
    OBVIOUS
  <2>1. CASE Next
    BY <2>1, TypeStep, OrderStep, OnceStep, AloneStep DEF AcpInv
  <2>2. CASE UNCHANGED vars
    BY <2>2 DEF AcpInv, TypeOK, Order, Once, Fresh, NoticeOnce, Alone, Quiet,
        CleanRequestGetsItsAnswer, vars, toolVars, windowVars, taskVars, linkVars, histVars
  <2>3. QED  BY <2>1, <2>2
<1>2. QED  BY InitInv, <1>1, PTL DEF Spec

\* The variables of the client have their types.
THEOREM TypeCorrect == Spec => []TypeOK
PROOF
<1>1. AcpInv => TypeOK  BY DEF AcpInv
<1>2. QED  BY AcpInvariant, <1>1, PTL

\* A request is told at most one of reply and timeout, and once.
THEOREM ToldOnce == Spec => []NoticeOnce
PROOF
<1>1. AcpInv => NoticeOnce  BY DEF AcpInv, Once
<1>2. QED  BY AcpInvariant, <1>1, PTL

\* A request with nothing of an earlier one left gets its answer at its chat.
THEOREM OwnAnswer == Spec => []CleanRequestGetsItsAnswer
PROOF
<1>1. AcpInv => CleanRequestGetsItsAnswer  BY DEF AcpInv, Alone
<1>2. QED  BY AcpInvariant, <1>1, PTL

(* The refinement: what a step does to the open request, to the one in hand  *)
(* and to what was told is a step of AsyncRequest, or nothing.               *)

\* A request taken from the window, or the stutter when none was open.
LEMMA TakeMaps ==
    ASSUME Order, TakeRoute, apc # "push"
    PROVE  [Requests!Next]_<<waiting, taken.req, told>>
PROOF
<1>1. taken.req = NoReq /\ taken'.req = waiting /\ waiting' = NoReq /\ told' = told
  BY DEF Order, TakeRoute, ClearPending, histVars
<1>2. CASE waiting = NoReq  BY <1>1, <1>2
<1>3. CASE waiting # NoReq  BY <1>1, <1>3 DEF Requests!Next, Requests!Take
<1>4. QED  BY <1>2, <1>3

\* A notice told for the request in hand, or the stutter when there is none.
LEMMA TellMaps ==
    ASSUME TypeOK, Once, NEW n \in {"reply", "timeout", "lost"}, Push(n)
    PROVE  [Requests!Next]_<<waiting, taken.req, told>>
PROOF
<1>1. taken'.req = NoReq /\ waiting' = waiting
  BY DEF Push, NotTaken, windowVars
<1>2. CASE taken.req = NoReq  BY <1>1, <1>2 DEF Push, Told
<1>3. CASE taken.req # NoReq
  <2>1. told[taken.req] = <<>>  BY <1>3 DEF Once, Fresh
  <2>2. told' = [told EXCEPT ![taken.req] = Append(told[taken.req], n)]
    BY <1>3 DEF Push, Told
  <2>3. Append(told[taken.req], n) = <<n>>  BY <2>1
  <2>4. told' = [told EXCEPT ![taken.req] = <<n>>]  BY <2>2, <2>3
  <2>5. Requests!Tell(n)  BY <1>1, <1>3, <2>1, <2>4 DEF Requests!Tell
  <2>6. QED  BY <2>5 DEF Requests!Next
<1>4. QED  BY <1>2, <1>3

\* Every step maps to a step of AsyncRequest or to a stutter.
LEMMA RequestStep ==
    ASSUME AcpInv, Next
    PROVE  [Requests!Next]_<<waiting, taken.req, told>>
PROOF
<1> USE DEF AcpInv
<1> DEFINE Still == waiting' = waiting /\ taken'.req = taken.req /\ told' = told
<1>1. ASSUME NEW r \in Reqs, ToolCall(r) PROVE Still
  BY <1>1 DEF ToolCall, windowVars, taskVars, histVars
<1>2. ASSUME CheckWindow PROVE Still
  BY <1>2 DEF CheckWindow, windowVars, taskVars, histVars
<1>3. ASSUME SnapshotRoute PROVE Still
  BY <1>3 DEF SnapshotRoute, taskVars, histVars
<1>4. ASSUME NotBuilt PROVE Still
  BY <1>4 DEF NotBuilt, windowVars, taskVars, histVars
<1>5. CASE OpenWindow
  <2>1. waiting = NoReq /\ waiting' = treq /\ taken'.req = taken.req /\ told' = told
    BY <1>5 DEF OpenWindow, Order, taskVars, histVars
  <2>2. treq \in Reqs  BY <1>5 DEF OpenWindow, TypeOK, ReqOrNone
  <2>3. told[treq] = <<>> /\ taken.req # treq  BY <1>5 DEF OpenWindow, Once, Fresh
  <2>4. Requests!Ask(treq)  BY <2>1, <2>3 DEF Requests!Ask
  <2>5. QED  BY <2>2, <2>4 DEF Requests!Next
<1>6. ASSUME SendOk PROVE Still
  BY <1>6 DEF SendOk, windowVars, taskVars
<1>7. CASE SendFails
  <2>1. waiting' = NoReq /\ taken'.req = taken.req /\ told' = told
    BY <1>7 DEF SendFails, ClearPending, taskVars, histVars
  <2>2. CASE waiting = NoReq  BY <2>1, <2>2
  <2>3. CASE waiting # NoReq  BY <2>1, <2>3 DEF Requests!Next, Requests!GiveUp
  <2>4. QED  BY <2>2, <2>3
<1>8. ASSUME Top PROVE Still
  BY <1>8 DEF Top, windowVars, histVars
<1>9. CASE TakeTimeout
  BY <1>9, TakeMaps DEF TakeTimeout
<1>10. ASSUME ConnectOk PROVE Still
  BY <1>10 DEF ConnectOk, windowVars, histVars
<1>11. ASSUME ConnectFails PROVE Still
  BY <1>11 DEF ConnectFails, windowVars, histVars
<1>12. ASSUME Window PROVE Still
  BY <1>12 DEF Window, windowVars, histVars
<1>13. ASSUME RecvNothing PROVE Still
  BY <1>13 DEF RecvNothing, windowVars, histVars
<1>14. ASSUME RecvEvents PROVE Still
  BY <1>14 DEF RecvEvents, windowVars, histVars
<1>15. ASSUME RecvClosed PROVE Still
  BY <1>15 DEF RecvClosed, Disconnect, windowVars, histVars
<1>16. ASSUME FrameRefused PROVE Still
  BY <1>16 DEF FrameRefused, Disconnect, windowVars, histVars
<1>17. ASSUME Dispatch PROVE Still
  BY <1>17 DEF Dispatch, windowVars, histVars
<1>18. ASSUME FramesDone PROVE Still
  BY <1>18 DEF FramesDone, windowVars, histVars
<1>19. CASE TakeReply
  BY <1>19, TakeMaps DEF TakeReply
<1>20. CASE ReplyNoMemory
  <2>1. waiting' = NoReq /\ taken'.req = taken.req /\ taken.req = NoReq
    BY <1>20 DEF ReplyNoMemory, ClearPending, Order
  <2>2. CASE waiting = NoReq  BY <1>20, <2>1, <2>2 DEF ReplyNoMemory, Told
  <2>3. CASE waiting # NoReq
    <3>1. told[waiting] = <<>>  BY <2>3 DEF Once, Fresh
    <3>2. told' = [told EXCEPT ![waiting] = Append(told[waiting], "lost")]
      BY <1>20, <2>3 DEF ReplyNoMemory, Told
    <3>3. Append(told[waiting], "lost") = <<"lost">>  BY <3>1
    <3>4. told' = [told EXCEPT ![waiting] = <<"lost">>]  BY <3>2, <3>3
    <3>5. Requests!Lose  BY <2>1, <2>3, <3>1, <3>4 DEF Requests!Lose
    <3>6. QED  BY <3>5 DEF Requests!Next
  <2>4. QED  BY <2>2, <2>3
<1>21. CASE PushOk
  BY <1>21, TellMaps DEF PushOk, TypeOK
<1>22. CASE PushFails
  BY <1>22, TellMaps DEF PushFails
<1>23. ASSUME TimePasses PROVE Still
  BY <1>23 DEF TimePasses, taskVars, histVars
<1>24. ASSUME LinkLost PROVE Still
  BY <1>24 DEF LinkLost, windowVars, taskVars, histVars
<1>25. ASSUME NEW r \in Reqs, GwText(r) PROVE Still
  BY <1>25 DEF GwText, windowVars, taskVars, histVars
<1>26. ASSUME NEW r \in Reqs, NEW k \in {"final", "bare"}, GwFinal(r, k) PROVE Still
  BY <1>26 DEF GwFinal, windowVars, taskVars, histVars
<1>27. QED
  BY <1>1, <1>2, <1>3, <1>4, <1>5, <1>6, <1>7, <1>8, <1>9, <1>10, <1>11, <1>12, <1>13, <1>14, <1>15, <1>16, <1>17, <1>18, <1>19, <1>20, <1>21, <1>22, <1>23, <1>24, <1>25, <1>26 DEF Next, Tool, Task, World

\* The client serves its requests as AsyncRequest promises.
THEOREM RequestsImplemented == Spec => ServedOneByOne
PROOF
<1>1. Init => Requests!Init  BY DEF Init, Requests!Init, NotTaken
<1>2. AcpInv /\ [Next]_vars => [Requests!Next]_<<waiting, taken.req, told>>
  <2> SUFFICES ASSUME AcpInv, [Next]_vars
               PROVE  [Requests!Next]_<<waiting, taken.req, told>>
    OBVIOUS
  <2>1. CASE Next  BY <2>1, RequestStep
  <2>2. CASE UNCHANGED vars  BY <2>2 DEF vars, windowVars, taskVars, histVars
  <2>3. QED  BY <2>1, <2>2
<1>3. QED  BY AcpInvariant, <1>1, <1>2, PTL DEF Spec, ServedOneByOne, Requests!Spec
=============================================================================
