--------------------------- MODULE AgentLoopProofs ---------------------------
(* Theorems about AgentLoop, for every value of its constants.               *)
EXTENDS AgentLoop, SequenceTheorems, TLAPS

\* A push that finds room keeps the queue typed and within its bound.
LEMMA AppendFits ==
  ASSUME NEW S, NEW s \in Seq(S), NEW e \in S, NEW n \in Nat, Len(s) < n
  PROVE  Append(s, e) \in Seq(S) /\ Len(Append(s, e)) =< n
  OBVIOUS

\* A pop keeps the queue typed and within its bound, and yields a message.
LEMMA TailFits ==
  ASSUME NEW S, NEW s \in Seq(S), s # <<>>, NEW n \in Nat, Len(s) =< n
  PROVE  /\ Tail(s) \in Seq(S) /\ Len(Tail(s)) =< n /\ Len(s) > 0
         /\ Head(s) \in S /\ Head(s) = s[1]
  OBVIOUS

\* Moving the oldest round to another phase keeps the rounds typed.
LEMMA PhaseRound ==
  ASSUME NEW s \in Seq(Round), s # <<>>, NEW p \in {"sent", "text", "tool"}
  PROVE  /\ [s EXCEPT ![1].phase = p] \in Seq(Round)
         /\ [s EXCEPT ![1].phase = p] # <<>>
         /\ s[1].about \in Tag
  <1>1. 1 \in 1 .. Len(s) /\ s[1] \in Round
    OBVIOUS
  <1>2. [s[1] EXCEPT !.phase = p] \in Round /\ s[1].about \in Tag
    BY <1>1 DEF Round
  <1>3. [s EXCEPT ![1] = [s[1] EXCEPT !.phase = p]] \in Seq(Round)
    BY <1>1, <1>2
  <1>4. Len([s EXCEPT ![1] = [s[1] EXCEPT !.phase = p]]) = Len(s) /\ Len(s) > 0
    BY <1>1, <1>3
  <1> QED BY <1>2, <1>3, <1>4

\* Each part of the type invariant depends on its own variables only.
LEMMA Keep ==
  /\ TypeBus /\ UNCHANGED busVars => TypeBus'
  /\ TypeLoop /\ UNCHANGED loopVars => TypeLoop'
  /\ TypeTurn /\ UNCHANGED turnVars => TypeTurn'
  /\ TypeTarget /\ UNCHANGED target => TypeTarget'
  /\ TypeCloud /\ UNCHANGED cloudVars => TypeCloud'
  BY DEF TypeBus, TypeLoop, TypeTurn, TypeTarget, TypeCloud,
         busVars, loopVars, turnVars, target, cloudVars

\* app_im_bot_send_message_to keeps the outbound queue typed and bounded.
LEMMA SendOutType ==
  ASSUME TypeOK, NEW k \in {"working", "reply", "flush"}, NEW a \in Text,
     SendOut(k, a)
  PROVE  outq' \in Seq(Out) /\ Len(outq') =< QueueLen
  <1> DEFINE msg == [kind |-> k, turn |-> cur, about |-> a,
                     channel |-> channel, chat |-> chatId,
                     clean |-> clean, crossed |-> crossed]
  <1>1. outq \in Seq(Out) /\ Len(outq) =< QueueLen /\ QueueLen \in Nat
    BY QueueLenAssumption DEF TypeOK, TypeBus
  <1>2. CASE chatId = NoChat \/ Len(outq) = QueueLen
    BY <1>1, <1>2 DEF SendOut
  <1>3. CASE ~(chatId = NoChat \/ Len(outq) = QueueLen)
    <2>1. msg \in Out
      BY <1>3 DEF Out, TypeOK, TypeLoop, TypeTarget
    <2>2. outq' = Append(outq, msg) /\ Len(outq) < QueueLen
      BY <1>1, <1>3 DEF SendOut
    <2> HIDE DEF msg
    <2> QED BY <1>1, <2>1, <2>2, AppendFits
  <1> QED BY <1>2, <1>3

\* The initial state is well typed.
LEMMA TypeInit == Init => TypeOK
  <1> SUFFICES ASSUME Init PROVE TypeOK OBVIOUS
  <1>1. arrived \subseteq Msgs /\ Len(inq) =< QueueLen /\ Len(outq) =< QueueLen
    BY QueueLenAssumption DEF Init
  <1>2. inq \in Seq(Msgs) BY DEF Init
  <1>3. outq \in Seq(Out) BY DEF Init
  <1>4. rounds \in Seq(Round) BY DEF Init
  <1>5. stream \in Text /\ ending = FALSE /\ job = NoJob /\ voices \in 0 .. MaxVoice
    BY MaxVoiceAssumption DEF Init, Text
  <1>6. TypeLoop
    <2>1. pc = "idle" /\ cur = NoMsg /\ iter = 0 /\ ~inToolLoop /\ ~clean
      BY DEF Init
    <2>2. iter \in 0 .. MaxIter - 1
      BY <2>1, MaxIterAssumption
    <2>3. inToolLoop \in BOOLEAN /\ clean \in BOOLEAN
      BY DEF Init
    <2>4. pc \in Pc /\ cur \in Msgs \cup {NoMsg} /\ (pc # "idle" => cur \in Msgs)
      BY <2>1 DEF Pc
    <2> QED BY <2>2, <2>3, <2>4 DEF TypeLoop
  <1>7. TypeTurn BY DEF Init, TypeTurn, Text
  <1>8. TypeTarget BY RouteAssumption DEF Init, TypeTarget
  <1>9. TypeBus /\ TypeCloud
    BY <1>1, <1>2, <1>3, <1>4, <1>5 DEF TypeBus, TypeCloud
  <1> QED BY <1>6, <1>7, <1>8, <1>9 DEF TypeOK

\* Every step of every thread keeps the state well typed.
LEMMA TypeNext == TypeOK /\ [Next]_vars => TypeOK'
  <1> SUFFICES ASSUME TypeOK, [Next]_vars PROVE TypeOK'
    OBVIOUS
  <1>1. ASSUME NEW m \in Msgs, Push(m) PROVE TypeOK'
    <2>1. TypeBus'
      BY <1>1, AppendFits, QueueLenAssumption DEF Push, TypeOK, TypeBus
    <2>2. UNCHANGED <<turnVars, loopVars, target, cloudVars>>
      BY <1>1 DEF Push
    <2> QED BY <2>1, <2>2, Keep DEF TypeOK
  <1>2. ASSUME NEW m \in Msgs, PushTimeout(m) PROVE TypeOK'
    <2>1. TypeBus'
      BY <1>2 DEF PushTimeout, TypeOK, TypeBus
    <2>2. UNCHANGED <<turnVars, loopVars, target, cloudVars>>
      BY <1>2 DEF PushTimeout
    <2> QED BY <2>1, <2>2, Keep DEF TypeOK
  <1>3. CASE Dispatch
    <2>1. TypeBus'
      BY <1>3, TailFits, QueueLenAssumption DEF Dispatch, TypeOK, TypeBus
    <2>2. UNCHANGED <<loopVars, turnVars, target, cloudVars>>
      BY <1>3 DEF Dispatch, busVars, loopVars, turnVars, target, cloudVars
    <2> QED BY <2>1, <2>2, Keep DEF TypeOK
  <1>4. CASE PopInbound
    <2>1. TypeBus'
      BY <1>4, TailFits, QueueLenAssumption DEF PopInbound, TypeOK, TypeBus
    <2>2. TypeLoop'
      <3>1. cur' \in Msgs
        BY <1>4, TailFits, QueueLenAssumption DEF PopInbound, TypeOK, TypeBus
      <3>2. iter' \in 0 .. MaxIter - 1
        BY <1>4, MaxIterAssumption DEF PopInbound
      <3>3. pc' \in Pc /\ inToolLoop' \in BOOLEAN /\ clean' \in BOOLEAN
        BY <1>4 DEF PopInbound, Pc
      <3> QED BY <3>1, <3>2, <3>3 DEF TypeLoop
    <2>3. UNCHANGED <<turnVars, target, cloudVars>>
      BY <1>4 DEF PopInbound, busVars, loopVars, turnVars, target, cloudVars
    <2> QED BY <2>1, <2>2, <2>3, Keep DEF TypeOK
  <1>5. CASE SetChannel
    <2>1. TypeLoop'
      BY <1>5 DEF SetChannel, Goto, TypeOK, TypeLoop, Pc
    <2>2. TypeTarget'
      BY <1>5, RouteAssumption DEF SetChannel, TypeOK, TypeLoop, TypeTarget
    <2>3. UNCHANGED <<busVars, turnVars, cloudVars>>
      BY <1>5 DEF SetChannel, busVars, loopVars, turnVars, target, cloudVars, Goto
    <2> QED BY <2>1, <2>2, <2>3, Keep DEF TypeOK
  <1>6. CASE SetChatId
    <2>1. TypeLoop'
      BY <1>6 DEF SetChatId, Goto, TypeOK, TypeLoop, Pc
    <2>2. TypeTarget'
      BY <1>6, RouteAssumption DEF SetChatId, TypeOK, TypeLoop, TypeTarget
    <2>3. UNCHANGED <<busVars, turnVars, cloudVars>>
      BY <1>6 DEF SetChatId, busVars, loopVars, turnVars, target, cloudVars, Goto
    <2> QED BY <2>1, <2>2, <2>3, Keep DEF TypeOK
  <1>7. CASE ClearResponse
    <2>1. TypeLoop'
      BY <1>7 DEF ClearResponse, Goto, TypeOK, TypeLoop, Pc
    <2>2. TypeTurn'
      BY <1>7 DEF ClearResponse, TypeOK, TypeTurn, Text
    <2>3. UNCHANGED <<busVars, target, cloudVars>>
      BY <1>7
      DEF ClearResponse, busVars, loopVars, turnVars, target, cloudVars, Goto
    <2> QED BY <2>1, <2>2, <2>3, Keep DEF TypeOK
  <1>8. CASE DrainSem
    <2>1. TypeLoop'
      BY <1>8 DEF DrainSem, Goto, Quiet, TypeOK, TypeLoop, Pc
    <2>2. TypeTurn'
      BY <1>8 DEF DrainSem, TypeOK, TypeTurn
    <2>3. UNCHANGED <<busVars, target, cloudVars>>
      BY <1>8 DEF DrainSem, busVars, loopVars, turnVars, target, cloudVars, Goto
    <2> QED BY <2>1, <2>2, <2>3, Keep DEF TypeOK
  <1>9. CASE SendWorking
    <2>1. TypeBus'
      BY <1>9, SendOutType DEF SendWorking, TypeOK, TypeBus, TypeLoop, Text, Tag
    <2>2. TypeLoop'
      BY <1>9 DEF SendWorking, Goto, TypeOK, TypeLoop, Pc
    <2>3. UNCHANGED <<turnVars, target, cloudVars>>
      BY <1>9 DEF SendWorking, busVars, loopVars, turnVars, target, cloudVars, Goto
    <2> QED BY <2>1, <2>2, <2>3, Keep DEF TypeOK
  <1>10. CASE ResetTool
    <2>1. TypeLoop'
      BY <1>10 DEF ResetTool, Goto, TypeOK, TypeLoop, Pc
    <2>2. TypeTurn'
      BY <1>10 DEF ResetTool, TypeOK, TypeTurn, Text
    <2>3. UNCHANGED <<busVars, target, cloudVars>>
      BY <1>10 DEF ResetTool, busVars, loopVars, turnVars, target, cloudVars, Goto
    <2> QED BY <2>1, <2>2, <2>3, Keep DEF TypeOK
  <1>11. CASE BuildAndSend
    <2>1. TypeLoop'
      BY <1>11 DEF BuildAndSend, Goto, TypeOK, TypeLoop, Pc
    <2>2. TypeCloud'
      BY <1>11 DEF BuildAndSend, TypeOK, TypeLoop, TypeCloud, Round, Tag
    <2>3. UNCHANGED <<busVars, turnVars, target>>
      BY <1>11 DEF BuildAndSend, busVars, turnVars, target, Goto
    <2> QED BY <2>1, <2>2, <2>3, Keep DEF TypeOK
  <1>12. CASE SendFails
    <2>1. TypeLoop'
      BY <1>12 DEF SendFails, Goto, TypeOK, TypeLoop, Pc
    <2>2. UNCHANGED <<busVars, turnVars, target, cloudVars>>
      BY <1>12 DEF SendFails, busVars, loopVars, turnVars, target, cloudVars, Goto
    <2> QED BY <2>1, <2>2, Keep DEF TypeOK
  <1>13. CASE Wake
    <2>1. TypeLoop'
      BY <1>13 DEF Wake, Goto, TypeOK, TypeLoop, Pc
    <2>2. TypeTurn'
      BY <1>13 DEF Wake, TypeOK, TypeTurn
    <2>3. UNCHANGED <<busVars, target, cloudVars>>
      BY <1>13 DEF Wake, busVars, loopVars, turnVars, target, cloudVars, Goto
    <2> QED BY <2>1, <2>2, <2>3, Keep DEF TypeOK
  <1>14. CASE WaitTimeout
    <2>1. TypeLoop'
      BY <1>14 DEF WaitTimeout, Goto, TypeOK, TypeLoop, Pc
    <2>2. UNCHANGED <<busVars, turnVars, target, cloudVars>>
      BY <1>14 DEF WaitTimeout, busVars, loopVars, turnVars, target, cloudVars, Goto
    <2> QED BY <2>1, <2>2, Keep DEF TypeOK
  <1>15. CASE CheckDone
    <2>1. TypeLoop'
      BY <1>15 DEF CheckDone, Goto, TypeOK, TypeLoop, Pc
    <2>2. UNCHANGED <<busVars, turnVars, target, cloudVars>>
      BY <1>15 DEF CheckDone, busVars, loopVars, turnVars, target, cloudVars, Goto
    <2> QED BY <2>1, <2>2, Keep DEF TypeOK
  <1>16. CASE CheckRetry
    <2>1. TypeLoop'
      BY <1>16, MaxIterAssumption DEF CheckRetry, IsLast, TypeOK, TypeLoop, Pc
    <2>2. UNCHANGED <<busVars, turnVars, target, cloudVars>>
      BY <1>16 DEF CheckRetry, busVars, loopVars, turnVars, target, cloudVars
    <2> QED BY <2>1, <2>2, Keep DEF TypeOK
  <1>17. CASE LockResponse
    <2>1. TypeLoop'
      BY <1>17 DEF LockResponse, Goto, TypeOK, TypeLoop, Pc
    <2>2. UNCHANGED <<busVars, turnVars, target, cloudVars>>
      BY <1>17
      DEF LockResponse, busVars, loopVars, turnVars, target, cloudVars, Goto
    <2> QED BY <2>1, <2>2, Keep DEF TypeOK
  <1>18. CASE PushReply
    <2>1. TypeBus'
      BY <1>18, SendOutType DEF PushReply, TypeOK, TypeBus, TypeTurn
    <2>2. TypeLoop'
      BY <1>18 DEF PushReply, Goto, TypeOK, TypeLoop, Pc
    <2>3. UNCHANGED <<turnVars, target, cloudVars>>
      BY <1>18 DEF PushReply, busVars, loopVars, turnVars, target, cloudVars, Goto
    <2> QED BY <2>1, <2>2, <2>3, Keep DEF TypeOK
  <1>19. CASE EndTurn
    <2>1. TypeLoop'
      BY <1>19 DEF EndTurn, TypeOK, TypeLoop, Pc
    <2>2. UNCHANGED <<busVars, turnVars, target, cloudVars>>
      BY <1>19 DEF EndTurn, busVars, loopVars, turnVars, target, cloudVars
    <2> QED BY <2>1, <2>2, Keep DEF TypeOK
  <1>20. CASE VoiceStart
    <2>1. TypeLoop'
      BY <1>20 DEF VoiceStart, TypeOK, TypeLoop
    <2>2. TypeCloud'
      BY <1>20, MaxVoiceAssumption DEF VoiceStart, TypeOK, TypeCloud, Round, Tag
    <2>3. UNCHANGED <<busVars, turnVars, target>>
      BY <1>20 DEF VoiceStart, busVars, turnVars, target
    <2> QED BY <2>1, <2>2, <2>3, Keep DEF TypeOK
  <1>21. CASE StreamStart
    <2>1. TypeCloud'
      BY <1>21, PhaseRound
      DEF StreamStart, Answering, SetPhase, TypeOK, TypeCloud, Text
    <2>2. UNCHANGED <<busVars, loopVars, turnVars, target>>
      BY <1>21 DEF StreamStart, busVars, loopVars, turnVars, target
    <2> QED BY <2>1, <2>2, Keep DEF TypeOK
  <1>22. CASE StreamOverflow
    <2>1. TypeBus'
      BY <1>22, SendOutType DEF StreamOverflow, TypeOK, TypeBus, TypeCloud
    <2>2. UNCHANGED <<loopVars, turnVars, target, cloudVars>>
      BY <1>22 DEF StreamOverflow, busVars, loopVars, turnVars, target, cloudVars
    <2> QED BY <2>1, <2>2, Keep DEF TypeOK
  <1>23. CASE EndStore
    <2>1. TypeTurn'
      BY <1>23 DEF EndStore, TypeOK, TypeTurn, TypeCloud
    <2>2. TypeCloud'
      BY <1>23 DEF EndStore, Answering, TypeOK, TypeCloud
    <2>3. UNCHANGED <<busVars, loopVars, target>>
      BY <1>23 DEF EndStore, busVars, loopVars, target
    <2> QED BY <2>1, <2>2, <2>3, Keep DEF TypeOK
  <1>24. CASE EndNotify
    <2>1. TypeTurn'
      BY <1>24 DEF EndNotify, TypeOK, TypeTurn
    <2>2. TypeCloud'
      <3>1. rounds # <<>> /\ rounds \in Seq(Round)
        BY <1>24 DEF EndNotify, TypeOK, TypeCloud
      <3>2. Tail(rounds) \in Seq(Round)
        BY <3>1
      <3> QED BY <1>24, <3>2 DEF EndNotify, TypeOK, TypeCloud, Text
    <2>3. UNCHANGED <<busVars, loopVars, target>>
      BY <1>24 DEF EndNotify, busVars, loopVars, target
    <2> QED BY <2>1, <2>2, <2>3, Keep DEF TypeOK
  <1>25. CASE RoundLost
    <2>1. TypeCloud'
      BY <1>25 DEF RoundLost, TypeOK, TypeCloud
    <2>2. UNCHANGED <<busVars, loopVars, turnVars, target>>
      BY <1>25 DEF RoundLost, busVars, loopVars, turnVars, target
    <2> QED BY <2>1, <2>2, Keep DEF TypeOK
  <1>26. CASE CallTool
    <2>1. TypeCloud'
      <3>1. rounds' \in Seq(Round) /\ rounds[1].about \in Tag
        BY <1>26, PhaseRound DEF CallTool, Answering, SetPhase, TypeOK, TypeCloud
      <3>2. PICK ok \in BOOLEAN :
               job' = [about |-> rounds[1].about, stage |-> "run", ok |-> ok]
        BY <1>26 DEF CallTool
      <3>3. job' \in Job
        BY <3>1, <3>2 DEF Job
      <3> QED
        BY <1>26, <3>1, <3>3 DEF CallTool, Answering, TypeOK, TypeCloud
    <2>2. UNCHANGED <<busVars, loopVars, turnVars, target>>
      BY <1>26 DEF CallTool, busVars, loopVars, turnVars, target
    <2> QED BY <2>1, <2>2, Keep DEF TypeOK
  <1>27. CASE ToolOkHook
    <2>1. TypeTurn'
      BY <1>27
      DEF ToolOkHook, RecordTool, TypeOK, TypeTurn, TypeCloud, Job, NoJob, Text
    <2>2. TypeCloud'
      BY <1>27 DEF ToolOkHook, TypeOK, TypeCloud, Job, NoJob
    <2>3. UNCHANGED <<busVars, loopVars, target>>
      BY <1>27 DEF ToolOkHook, busVars, loopVars, target, RecordTool
    <2> QED BY <2>1, <2>2, <2>3, Keep DEF TypeOK
  <1>28. CASE ToolOkReply
    <2>1. TypeCloud'
      BY <1>28, PhaseRound DEF ToolOkReply, ReplyTool, TypeOK, TypeCloud
    <2>2. UNCHANGED <<busVars, loopVars, turnVars, target>>
      BY <1>28 DEF ToolOkReply, busVars, loopVars, turnVars, target
    <2> QED BY <2>1, <2>2, Keep DEF TypeOK
  <1>29. CASE ToolFailReply
    <2>1. TypeCloud'
      <3>1. rounds' \in Seq(Round) /\ (rounds # <<>> => rounds' # <<>>)
        BY <1>29, PhaseRound DEF ToolFailReply, ReplyTool, TypeOK, TypeCloud
      <3>2. job' \in Job
        BY <1>29 DEF ToolFailReply, TypeOK, TypeCloud, Job, NoJob
      <3> QED BY <1>29, <3>1, <3>2 DEF ToolFailReply, TypeOK, TypeCloud
    <2>2. UNCHANGED <<busVars, loopVars, turnVars, target>>
      BY <1>29 DEF ToolFailReply, busVars, loopVars, turnVars, target
    <2> QED BY <2>1, <2>2, Keep DEF TypeOK
  <1>30. CASE ToolFailHook
    <2>1. TypeTurn'
      BY <1>30
      DEF ToolFailHook, RecordTool, TypeOK, TypeTurn, TypeCloud, Job, NoJob, Text
    <2>2. TypeCloud'
      BY <1>30 DEF ToolFailHook, TypeOK, TypeCloud, Job, NoJob
    <2>3. UNCHANGED <<busVars, loopVars, target>>
      BY <1>30 DEF ToolFailHook, busVars, loopVars, target, RecordTool
    <2> QED BY <2>1, <2>2, <2>3, Keep DEF TypeOK
  <1>31. CASE UNCHANGED vars
    BY <1>31, Keep DEF vars, TypeOK
  <1>32. CASE Connected
    <2>1. TypeTarget'
      BY <1>32, RouteAssumption DEF Connected, TypeOK, TypeTarget
    <2>2. UNCHANGED <<busVars, turnVars, loopVars, cloudVars>>
      BY <1>32 DEF Connected, busVars, turnVars, loopVars, cloudVars
    <2> QED BY <2>1, <2>2, Keep DEF TypeOK
  <1> QED
    BY <1>1, <1>2, <1>3, <1>4, <1>5, <1>6, <1>7, <1>8, <1>9, <1>10, <1>11, <1>12,
       <1>13, <1>14, <1>15, <1>16, <1>17, <1>18, <1>19, <1>20, <1>21, <1>22, <1>23,
       <1>24, <1>25, <1>26, <1>27, <1>28, <1>29, <1>30, <1>31, <1>32
    DEF Next, Agent, Cloud, Tools

\* Type correctness, for any number of messages, any queue length and any
\* limit on the tool loop: the queues keep to IM_BUS_QUEUE_LEN, the iteration
\* stays below TOOL_LOOP_MAX, a turn always has a message.
THEOREM TypeCorrect == Spec => []TypeOK
  BY TypeInit, TypeNext, PTL DEF Spec

\* Appending anything makes a sequence one longer.
LEMMA AppendLen ==
  ASSUME NEW S, NEW s \in Seq(S), NEW e
  PROVE  Len(Append(s, e)) = Len(s) + 1
  OBVIOUS

\* A sequence of rounds that goes from empty to one round, or back.
LEMMA SingleRound ==
  ASSUME NEW s \in Seq(Round), NEW r \in Round
  PROVE  /\ s = <<>> => Len(Append(s, r)) = 1 /\ Append(s, r)[1] = r
         /\ s # <<>> /\ Len(s) = 1 => Tail(s) = <<>>
  <1>1. ASSUME s = <<>> PROVE Len(Append(s, r)) = 1 /\ Append(s, r)[1] = r
    BY <1>1
  <1>2. ASSUME s # <<>>, Len(s) = 1 PROVE Tail(s) = <<>>
    <2>1. Tail(s) \in Seq(Round) /\ Len(Tail(s)) = 0
      BY <1>2
    <2> QED BY <2>1, EmptySeq
  <1> QED BY <1>1, <1>2

\* Moving the oldest round to another phase keeps what it is about.
LEMMA PhaseKeeps ==
  ASSUME NEW s \in Seq(Round), s # <<>>, NEW p \in {"sent", "text", "tool"}
  PROVE  /\ Len([s EXCEPT ![1].phase = p]) = Len(s)
         /\ [s EXCEPT ![1].phase = p][1].about = s[1].about
         /\ [s EXCEPT ![1].phase = p][1].phase = p
  <1>1. 1 \in 1 .. Len(s) /\ s[1] \in Round
    OBVIOUS
  <1> QED BY <1>1 DEF Round

\* The target is whole outside app_im_set_target and is the turn's own, but
\* for the channel a connection may have moved.
LEMMA TargetNext == CleanInv /\ [Next]_vars => TargetInv'
  <1> SUFFICES ASSUME CleanInv, [Next]_vars PROVE TargetInv'
    OBVIOUS
  <1> USE DEF CleanInv
  <1>1. ASSUME UNCHANGED <<pc, cur, channel, chatId, crossed>> PROVE TargetInv'
    BY <1>1 DEF TargetInv
  <1>2. ASSUME UNCHANGED <<cur, channel, chatId, crossed>>,
               {pc, pc'} \cap {"channel", "chat"} = {}
        PROVE  TargetInv'
    BY <1>2 DEF TargetInv
  <1>3. CASE PopInbound
    BY <1>3 DEF PopInbound, target, TargetInv
  <1>4. CASE SetChannel
    BY <1>4, RouteAssumption DEF SetChannel, Goto, TargetInv
  <1>5. CASE SetChatId
    <2>1. cur \in Msgs
      BY <1>5 DEF SetChatId, TypeOK, TypeLoop
    <2> QED
      BY <1>5, <2>1, RouteAssumption DEF SetChatId, Goto, TargetInv, Destination
  <1>6. CASE \/ ClearResponse \/ DrainSem \/ SendWorking \/ ResetTool
             \/ BuildAndSend \/ SendFails \/ Wake \/ WaitTimeout
    BY <1>2, <1>6
    DEF ClearResponse, DrainSem, SendWorking, ResetTool, BuildAndSend, SendFails,
        Wake, WaitTimeout, Goto, target
  <1>7. CASE \/ CheckDone \/ CheckRetry \/ LockResponse \/ PushReply \/ EndTurn
    BY <1>2, <1>7
    DEF CheckDone, CheckRetry, LockResponse, PushReply, EndTurn, Goto, target
  <1>8. CASE Cloud \/ Dispatch
    BY <1>1, <1>8
    DEF Cloud, Dispatch, VoiceStart, StreamStart, StreamOverflow, EndStore,
        EndNotify, RoundLost, loopVars, target
  <1>9. CASE Tools
    BY <1>1, <1>9
    DEF Tools, CallTool, ToolOkHook, ToolOkReply, ToolFailReply, ToolFailHook,
        loopVars, target
  <1>10. CASE \/ \E m \in Msgs : Push(m) \/ PushTimeout(m)
              \/ UNCHANGED vars
    BY <1>1, <1>10 DEF Push, PushTimeout, loopVars, target, vars
  <1>11. CASE Connected
    BY <1>11 DEF Connected, TargetInv, loopVars
  <1> QED
    BY <1>3, <1>4, <1>5, <1>6, <1>7, <1>8, <1>9, <1>10, <1>11 DEF Next, Agent

\* A clean turn has at most one round, and a posted semaphore means none.
LEMMA RoundsNext == CleanInv /\ [Next]_vars => CleanRounds'
  <1> SUFFICES ASSUME CleanInv, [Next]_vars PROVE CleanRounds'
    OBVIOUS
  <1> USE DEF CleanInv
  <1>1. ASSUME UNCHANGED <<clean, cur, pc, rounds, sem>> PROVE CleanRounds'
    BY <1>1 DEF CleanRounds
  <1>2. ASSUME NEW m \in Msgs, Push(m) \/ PushTimeout(m) PROVE CleanRounds'
    BY <1>2, <1>1
    DEF Push, PushTimeout, busVars, loopVars, turnVars, target, cloudVars
  <1>3. CASE \/ Dispatch \/ Connected \/ StreamOverflow \/ EndStore \/ ToolOkHook
             \/ ToolFailHook \/ UNCHANGED vars
    BY <1>3, <1>1 DEF Dispatch, Connected, StreamOverflow, EndStore, ToolOkHook, ToolFailHook,
       RecordTool, vars, busVars, loopVars, turnVars, target, cloudVars
  <1>4. CASE PopInbound
    BY <1>4, SingleRound, PhaseKeeps DEF PopInbound, busVars, loopVars, turnVars,
       target, cloudVars, CleanRounds, TypeOK, TypeLoop, TypeCloud, Round, Tag
  <1>5. CASE SetChannel
    BY <1>5, SingleRound, PhaseKeeps DEF SetChannel, Goto, busVars, loopVars,
       turnVars, target, cloudVars, CleanRounds, TypeOK, TypeLoop, TypeCloud,
       Round, Tag
  <1>6. CASE SetChatId
    BY <1>6, SingleRound, PhaseKeeps DEF SetChatId, Goto, busVars, loopVars,
       turnVars, target, cloudVars, CleanRounds, TypeOK, TypeLoop, TypeCloud,
       Round, Tag
  <1>7. CASE ClearResponse
    BY <1>7, SingleRound, PhaseKeeps DEF ClearResponse, Goto, busVars, loopVars,
       turnVars, target, cloudVars, CleanRounds, TypeOK, TypeLoop, TypeCloud,
       Round, Tag
  <1>8. CASE DrainSem
    BY <1>8, SingleRound, PhaseKeeps DEF DrainSem, Goto, busVars, loopVars,
       turnVars, target, cloudVars, CleanRounds, TypeOK, TypeLoop, TypeCloud,
       Round, Tag, Quiet
  <1>9. CASE SendWorking
    BY <1>9, SingleRound, PhaseKeeps DEF SendWorking, Goto, busVars, loopVars,
       turnVars, target, cloudVars, CleanRounds, TypeOK, TypeLoop, TypeCloud,
       Round, Tag
  <1>10. CASE ResetTool
    BY <1>10, SingleRound, PhaseKeeps DEF ResetTool, Goto, busVars, loopVars,
       turnVars, target, cloudVars, CleanRounds, TypeOK, TypeLoop, TypeCloud,
       Round, Tag
  <1>11. CASE BuildAndSend
    BY <1>11, SingleRound, PhaseKeeps DEF BuildAndSend, Goto, busVars, turnVars,
       target, CleanRounds, TypeOK, TypeLoop, TypeCloud, Round, Tag
  <1>12. CASE SendFails
    BY <1>12, SingleRound, PhaseKeeps DEF SendFails, Goto, busVars, loopVars,
       turnVars, target, cloudVars, CleanRounds, TypeOK, TypeLoop, TypeCloud,
       Round, Tag
  <1>13. CASE Wake
    BY <1>13, SingleRound, PhaseKeeps DEF Wake, Goto, busVars, loopVars, turnVars,
       target, cloudVars, CleanRounds, TypeOK, TypeLoop, TypeCloud, Round, Tag
  <1>14. CASE WaitTimeout
    BY <1>14, SingleRound, PhaseKeeps DEF WaitTimeout, Goto, busVars, loopVars,
       turnVars, target, cloudVars, CleanRounds, TypeOK, TypeLoop, TypeCloud,
       Round, Tag
  <1>15. CASE CheckDone
    BY <1>15, SingleRound, PhaseKeeps DEF CheckDone, Goto, busVars, loopVars,
       turnVars, target, cloudVars, CleanRounds, TypeOK, TypeLoop, TypeCloud,
       Round, Tag
  <1>16. CASE CheckRetry
    BY <1>16, SingleRound, PhaseKeeps DEF CheckRetry, busVars, loopVars, turnVars,
       target, cloudVars, CleanRounds, TypeOK, TypeLoop, TypeCloud, Round, Tag
  <1>17. CASE LockResponse
    BY <1>17, SingleRound, PhaseKeeps DEF LockResponse, Goto, busVars, loopVars,
       turnVars, target, cloudVars, CleanRounds, TypeOK, TypeLoop, TypeCloud,
       Round, Tag
  <1>18. CASE PushReply
    BY <1>18, SingleRound, PhaseKeeps DEF PushReply, Goto, busVars, loopVars,
       turnVars, target, cloudVars, CleanRounds, TypeOK, TypeLoop, TypeCloud,
       Round, Tag
  <1>19. CASE EndTurn
    BY <1>19, SingleRound, PhaseKeeps DEF EndTurn, busVars, loopVars, turnVars,
       target, cloudVars, CleanRounds, TypeOK, TypeLoop, TypeCloud, Round, Tag
  <1>20. CASE VoiceStart
    BY <1>20, SingleRound, PhaseKeeps DEF VoiceStart, busVars, turnVars, target,
       CleanRounds, TypeOK, TypeLoop, TypeCloud, Round, Tag
  <1>21. CASE StreamStart
    BY <1>21, SingleRound, PhaseKeeps DEF StreamStart, busVars, loopVars, turnVars,
       target, CleanRounds, TypeOK, TypeLoop, TypeCloud, Round, Tag, Answering,
       SetPhase
  <1>22. CASE EndNotify
    BY <1>22, SingleRound, PhaseKeeps DEF EndNotify, busVars, loopVars, target,
       CleanRounds, TypeOK, TypeLoop, TypeCloud, Round, Tag
  <1>23. CASE RoundLost
    BY <1>23, SingleRound, PhaseKeeps DEF RoundLost, busVars, loopVars, turnVars,
       target, CleanRounds, TypeOK, TypeLoop, TypeCloud, Round, Tag
  <1>24. CASE CallTool
    BY <1>24, SingleRound, PhaseKeeps DEF CallTool, busVars, loopVars, turnVars,
       target, CleanRounds, TypeOK, TypeLoop, TypeCloud, Round, Tag, Answering,
       SetPhase
  <1>25. CASE ToolOkReply
    BY <1>25, SingleRound, PhaseKeeps DEF ToolOkReply, busVars, loopVars, turnVars,
       target, CleanRounds, TypeOK, TypeLoop, TypeCloud, Round, Tag, ReplyTool
  <1>26. CASE ToolFailReply
    BY <1>26, SingleRound, PhaseKeeps DEF ToolFailReply, busVars, loopVars,
       turnVars, target, CleanRounds, TypeOK, TypeLoop, TypeCloud, Round, Tag,
       ReplyTool
  <1> QED
    BY <1>2, <1>3, <1>4, <1>5, <1>6, <1>7, <1>8, <1>9, <1>10, <1>11, <1>12, <1>13,
       <1>14, <1>15, <1>16, <1>17, <1>18, <1>19, <1>20, <1>21, <1>22, <1>23, <1>24,
       <1>25, <1>26 DEF Next, Agent, Cloud, Tools

\* The text and the tool result a clean turn can read are its own.
LEMMA TextsNext == CleanInv /\ [Next]_vars => CleanTexts'
  <1> SUFFICES ASSUME CleanInv, [Next]_vars PROVE CleanTexts'
    OBVIOUS
  <1> USE DEF CleanInv
  <1>1. ASSUME UNCHANGED <<clean, stream, job, pc, sem, ending, lastResp,
     toolCalled, toolResult, cur>> PROVE CleanTexts'
    BY <1>1 DEF CleanTexts
  <1>2. ASSUME NEW m \in Msgs, Push(m) \/ PushTimeout(m) PROVE CleanTexts'
    BY <1>2, <1>1
    DEF Push, PushTimeout, busVars, loopVars, turnVars, target, cloudVars
  <1>3. CASE \/ Dispatch \/ Connected \/ StreamOverflow \/ RoundLost \/ UNCHANGED vars
    BY <1>3, <1>1 DEF Dispatch, Connected, StreamOverflow, RoundLost, vars, busVars, loopVars,
       turnVars, target, cloudVars
  <1>4. CASE PopInbound
    BY <1>4 DEF PopInbound, busVars, loopVars, turnVars, target, cloudVars,
       CleanTexts, TypeOK, TypeLoop, TypeCloud, Job, NoJob, Round, Tag, CleanRounds
  <1>5. CASE SetChannel
    BY <1>5 DEF SetChannel, Goto, busVars, loopVars, turnVars, target, cloudVars,
       CleanTexts, TypeOK, TypeLoop, TypeCloud, Job, NoJob, Round, Tag, CleanRounds
  <1>6. CASE SetChatId
    BY <1>6 DEF SetChatId, Goto, busVars, loopVars, turnVars, target, cloudVars,
       CleanTexts, TypeOK, TypeLoop, TypeCloud, Job, NoJob, Round, Tag, CleanRounds
  <1>7. CASE ClearResponse
    BY <1>7 DEF ClearResponse, Goto, busVars, loopVars, turnVars, target,
       cloudVars, CleanTexts, TypeOK, TypeLoop, TypeCloud, Job, NoJob, Round, Tag,
       CleanRounds
  <1>8. CASE DrainSem
    BY <1>8 DEF DrainSem, Goto, busVars, loopVars, turnVars, target, cloudVars,
       CleanTexts, TypeOK, TypeLoop, TypeCloud, Job, NoJob, Round, Tag, Quiet,
       CleanRounds
  <1>9. CASE SendWorking
    BY <1>9 DEF SendWorking, Goto, busVars, loopVars, turnVars, target, cloudVars,
       CleanTexts, TypeOK, TypeLoop, TypeCloud, Job, NoJob, Round, Tag, CleanRounds
  <1>10. CASE ResetTool
    BY <1>10 DEF ResetTool, Goto, busVars, loopVars, turnVars, target, cloudVars,
       CleanTexts, TypeOK, TypeLoop, TypeCloud, Job, NoJob, Round, Tag, CleanRounds
  <1>11. CASE BuildAndSend
    BY <1>11 DEF BuildAndSend, Goto, busVars, turnVars, target, CleanTexts, TypeOK,
       TypeLoop, TypeCloud, Job, NoJob, Round, Tag, CleanRounds
  <1>12. CASE SendFails
    BY <1>12 DEF SendFails, Goto, busVars, loopVars, turnVars, target, cloudVars,
       CleanTexts, TypeOK, TypeLoop, TypeCloud, Job, NoJob, Round, Tag, CleanRounds
  <1>13. CASE Wake
    BY <1>13 DEF Wake, Goto, busVars, loopVars, turnVars, target, cloudVars,
       CleanTexts, TypeOK, TypeLoop, TypeCloud, Job, NoJob, Round, Tag, CleanRounds
  <1>14. CASE WaitTimeout
    BY <1>14 DEF WaitTimeout, Goto, busVars, loopVars, turnVars, target, cloudVars,
       CleanTexts, TypeOK, TypeLoop, TypeCloud, Job, NoJob, Round, Tag, CleanRounds
  <1>15. CASE CheckDone
    BY <1>15 DEF CheckDone, Goto, busVars, loopVars, turnVars, target, cloudVars,
       CleanTexts, TypeOK, TypeLoop, TypeCloud, Job, NoJob, Round, Tag, CleanRounds
  <1>16. CASE CheckRetry
    BY <1>16 DEF CheckRetry, busVars, loopVars, turnVars, target, cloudVars,
       CleanTexts, TypeOK, TypeLoop, TypeCloud, Job, NoJob, Round, Tag, CleanRounds
  <1>17. CASE LockResponse
    BY <1>17 DEF LockResponse, Goto, busVars, loopVars, turnVars, target,
       cloudVars, CleanTexts, TypeOK, TypeLoop, TypeCloud, Job, NoJob, Round, Tag,
       CleanRounds
  <1>18. CASE PushReply
    BY <1>18 DEF PushReply, Goto, busVars, loopVars, turnVars, target, cloudVars,
       CleanTexts, TypeOK, TypeLoop, TypeCloud, Job, NoJob, Round, Tag, CleanRounds
  <1>19. CASE EndTurn
    BY <1>19 DEF EndTurn, busVars, loopVars, turnVars, target, cloudVars,
       CleanTexts, TypeOK, TypeLoop, TypeCloud, Job, NoJob, Round, Tag, CleanRounds
  <1>20. CASE VoiceStart
    BY <1>20 DEF VoiceStart, busVars, turnVars, target, CleanTexts, TypeOK,
       TypeLoop, TypeCloud, Job, NoJob, Round, Tag, CleanRounds
  <1>21. CASE StreamStart
    BY <1>21 DEF StreamStart, busVars, loopVars, turnVars, target, CleanTexts,
       TypeOK, TypeLoop, TypeCloud, Job, NoJob, Round, Tag, Answering, CleanRounds
  <1>22. CASE EndStore
    BY <1>22 DEF EndStore, busVars, loopVars, target, CleanTexts, TypeOK, TypeLoop,
       TypeCloud, Job, NoJob, Round, Tag, Answering, CleanRounds
  <1>23. CASE EndNotify
    BY <1>23 DEF EndNotify, busVars, loopVars, target, CleanTexts, TypeOK,
       TypeLoop, TypeCloud, Job, NoJob, Round, Tag, CleanRounds
  <1>24. CASE CallTool
    BY <1>24 DEF CallTool, busVars, loopVars, turnVars, target, CleanTexts, TypeOK,
       TypeLoop, TypeCloud, Job, NoJob, Round, Tag, Answering, CleanRounds
  <1>25. CASE ToolOkHook
    BY <1>25 DEF ToolOkHook, busVars, loopVars, target, CleanTexts, TypeOK,
       TypeLoop, TypeCloud, Job, NoJob, Round, Tag, RecordTool, CleanRounds
  <1>26. CASE ToolOkReply
    BY <1>26 DEF ToolOkReply, busVars, loopVars, turnVars, target, CleanTexts,
       TypeOK, TypeLoop, TypeCloud, Job, NoJob, Round, Tag, CleanRounds
  <1>27. CASE ToolFailReply
    BY <1>27 DEF ToolFailReply, busVars, loopVars, turnVars, target, CleanTexts,
       TypeOK, TypeLoop, TypeCloud, Job, NoJob, Round, Tag, CleanRounds
  <1>28. CASE ToolFailHook
    BY <1>28 DEF ToolFailHook, busVars, loopVars, target, CleanTexts, TypeOK,
       TypeLoop, TypeCloud, Job, NoJob, Round, Tag, RecordTool, CleanRounds
  <1> QED
    BY <1>2, <1>3, <1>4, <1>5, <1>6, <1>7, <1>8, <1>9, <1>10, <1>11, <1>12, <1>13,
       <1>14, <1>15, <1>16, <1>17, <1>18, <1>19, <1>20, <1>21, <1>22, <1>23, <1>24,
       <1>25, <1>26, <1>27, <1>28 DEF Next, Agent, Cloud, Tools

\* A tool that runs in a clean turn holds back the END of its round.
LEMMA JobNext == CleanInv /\ [Next]_vars => CleanJob'
  <1> SUFFICES ASSUME CleanInv, [Next]_vars PROVE CleanJob'
    OBVIOUS
  <1> USE DEF CleanInv
  <1>1. ASSUME UNCHANGED <<job, clean, pc, sem, rounds, ending>> PROVE CleanJob'
    BY <1>1 DEF CleanJob
  <1>2. ASSUME NEW m \in Msgs, Push(m) \/ PushTimeout(m) PROVE CleanJob'
    BY <1>2, <1>1
    DEF Push, PushTimeout, busVars, loopVars, turnVars, target, cloudVars
  <1>3. CASE Dispatch \/ Connected \/ StreamOverflow \/ UNCHANGED vars
    BY <1>3, <1>1 DEF Dispatch, Connected, StreamOverflow, vars, busVars, loopVars, turnVars,
       target, cloudVars
  <1>4. CASE PopInbound
    BY <1>4, SingleRound, PhaseKeeps DEF PopInbound, busVars, loopVars, turnVars,
       target, cloudVars, CleanJob, TypeOK, TypeLoop, TypeCloud, Job, NoJob, Round,
       Tag, CleanRounds
  <1>5. CASE SetChannel
    BY <1>5, SingleRound, PhaseKeeps DEF SetChannel, Goto, busVars, loopVars,
       turnVars, target, cloudVars, CleanJob, TypeOK, TypeLoop, TypeCloud, Job,
       NoJob, Round, Tag, CleanRounds
  <1>6. CASE SetChatId
    BY <1>6, SingleRound, PhaseKeeps DEF SetChatId, Goto, busVars, loopVars,
       turnVars, target, cloudVars, CleanJob, TypeOK, TypeLoop, TypeCloud, Job,
       NoJob, Round, Tag, CleanRounds
  <1>7. CASE ClearResponse
    BY <1>7, SingleRound, PhaseKeeps DEF ClearResponse, Goto, busVars, loopVars,
       turnVars, target, cloudVars, CleanJob, TypeOK, TypeLoop, TypeCloud, Job,
       NoJob, Round, Tag, CleanRounds
  <1>8. CASE DrainSem
    BY <1>8, SingleRound, PhaseKeeps DEF DrainSem, Goto, busVars, loopVars,
       turnVars, target, cloudVars, CleanJob, TypeOK, TypeLoop, TypeCloud, Job,
       NoJob, Round, Tag, Quiet, CleanRounds
  <1>9. CASE SendWorking
    BY <1>9, SingleRound, PhaseKeeps DEF SendWorking, Goto, busVars, loopVars,
       turnVars, target, cloudVars, CleanJob, TypeOK, TypeLoop, TypeCloud, Job,
       NoJob, Round, Tag, CleanRounds
  <1>10. CASE ResetTool
    BY <1>10, SingleRound, PhaseKeeps DEF ResetTool, Goto, busVars, loopVars,
       turnVars, target, cloudVars, CleanJob, TypeOK, TypeLoop, TypeCloud, Job,
       NoJob, Round, Tag, CleanRounds
  <1>11. CASE BuildAndSend
    BY <1>11, SingleRound, PhaseKeeps DEF BuildAndSend, Goto, busVars, turnVars,
       target, CleanJob, TypeOK, TypeLoop, TypeCloud, Job, NoJob, Round, Tag,
       CleanRounds
  <1>12. CASE SendFails
    BY <1>12, SingleRound, PhaseKeeps DEF SendFails, Goto, busVars, loopVars,
       turnVars, target, cloudVars, CleanJob, TypeOK, TypeLoop, TypeCloud, Job,
       NoJob, Round, Tag, CleanRounds
  <1>13. CASE Wake
    BY <1>13, SingleRound, PhaseKeeps DEF Wake, Goto, busVars, loopVars, turnVars,
       target, cloudVars, CleanJob, TypeOK, TypeLoop, TypeCloud, Job, NoJob, Round,
       Tag, CleanRounds
  <1>14. CASE WaitTimeout
    BY <1>14, SingleRound, PhaseKeeps DEF WaitTimeout, Goto, busVars, loopVars,
       turnVars, target, cloudVars, CleanJob, TypeOK, TypeLoop, TypeCloud, Job,
       NoJob, Round, Tag, CleanRounds
  <1>15. CASE CheckDone
    BY <1>15, SingleRound, PhaseKeeps DEF CheckDone, Goto, busVars, loopVars,
       turnVars, target, cloudVars, CleanJob, TypeOK, TypeLoop, TypeCloud, Job,
       NoJob, Round, Tag, CleanRounds
  <1>16. CASE CheckRetry
    BY <1>16, SingleRound, PhaseKeeps DEF CheckRetry, busVars, loopVars, turnVars,
       target, cloudVars, CleanJob, TypeOK, TypeLoop, TypeCloud, Job, NoJob, Round,
       Tag, CleanRounds
  <1>17. CASE LockResponse
    BY <1>17, SingleRound, PhaseKeeps DEF LockResponse, Goto, busVars, loopVars,
       turnVars, target, cloudVars, CleanJob, TypeOK, TypeLoop, TypeCloud, Job,
       NoJob, Round, Tag, CleanRounds
  <1>18. CASE PushReply
    BY <1>18, SingleRound, PhaseKeeps DEF PushReply, Goto, busVars, loopVars,
       turnVars, target, cloudVars, CleanJob, TypeOK, TypeLoop, TypeCloud, Job,
       NoJob, Round, Tag, CleanRounds
  <1>19. CASE EndTurn
    BY <1>19, SingleRound, PhaseKeeps DEF EndTurn, busVars, loopVars, turnVars,
       target, cloudVars, CleanJob, TypeOK, TypeLoop, TypeCloud, Job, NoJob, Round,
       Tag, CleanRounds
  <1>20. CASE VoiceStart
    BY <1>20, SingleRound, PhaseKeeps DEF VoiceStart, busVars, turnVars, target,
       CleanJob, TypeOK, TypeLoop, TypeCloud, Job, NoJob, Round, Tag, CleanRounds
  <1>21. CASE StreamStart
    BY <1>21, SingleRound, PhaseKeeps DEF StreamStart, busVars, loopVars, turnVars,
       target, CleanJob, TypeOK, TypeLoop, TypeCloud, Job, NoJob, Round, Tag,
       Answering, SetPhase, CleanRounds
  <1>22. CASE EndStore
    BY <1>22, SingleRound, PhaseKeeps DEF EndStore, busVars, loopVars, target,
       CleanJob, TypeOK, TypeLoop, TypeCloud, Job, NoJob, Round, Tag, Answering,
       CleanRounds
  <1>23. CASE EndNotify
    BY <1>23, SingleRound, PhaseKeeps DEF EndNotify, busVars, loopVars, target,
       CleanJob, TypeOK, TypeLoop, TypeCloud, Job, NoJob, Round, Tag, CleanRounds
  <1>24. CASE RoundLost
    BY <1>24, SingleRound, PhaseKeeps DEF RoundLost, busVars, loopVars, turnVars,
       target, CleanJob, TypeOK, TypeLoop, TypeCloud, Job, NoJob, Round, Tag,
       CleanRounds
  <1>25. CASE CallTool
    <2>1. PICK ok \in BOOLEAN :
             job' = [about |-> rounds[1].about, stage |-> "run", ok |-> ok]
      BY <1>25 DEF CallTool
    <2>2. job'.stage = "run" /\ rounds' # <<>> /\ rounds'[1].phase = "tool" /\ ~ending'
      BY <1>25, <2>1, PhaseRound, PhaseKeeps
      DEF CallTool, Answering, SetPhase, TypeOK, TypeCloud
    <2>3. clean => pc \in {"wait", "end", "idle"} /\ (pc = "wait" => sem = 0)
      BY <1>25 DEF CallTool, Answering, CleanRounds, TypeOK, TypeLoop, TypeTurn, Pc
    <2> QED
      BY <1>25, <2>2, <2>3 DEF CallTool, CleanJob, busVars, loopVars, turnVars
  <1>26. CASE ToolOkHook
    <2>1. job \in Job /\ job'.stage = "reply" /\ job'.ok
      BY <1>26 DEF ToolOkHook, TypeOK, TypeCloud, Job, NoJob
    <2>2. UNCHANGED <<clean, pc, sem, rounds, ending>>
      BY <1>26 DEF ToolOkHook, RecordTool, loopVars
    <2>3. job.stage = "run"
      BY <1>26 DEF ToolOkHook
    <2> QED
      BY <2>1, <2>2, <2>3 DEF CleanJob
  <1>27. CASE ToolOkReply
    BY <1>27, SingleRound, PhaseKeeps DEF ToolOkReply, busVars, loopVars, turnVars,
       target, CleanJob, TypeOK, TypeLoop, TypeCloud, Job, NoJob, Round, Tag,
       ReplyTool, CleanRounds
  <1>28. CASE ToolFailReply
    BY <1>28, SingleRound, PhaseKeeps DEF ToolFailReply, busVars, loopVars,
       turnVars, target, CleanJob, TypeOK, TypeLoop, TypeCloud, Job, NoJob, Round,
       Tag, ReplyTool, CleanRounds
  <1>29. CASE ToolFailHook
    BY <1>29, SingleRound, PhaseKeeps DEF ToolFailHook, busVars, loopVars, target,
       CleanJob, TypeOK, TypeLoop, TypeCloud, Job, NoJob, Round, Tag, CleanRounds
  <1> QED
    BY <1>2, <1>3, <1>4, <1>5, <1>6, <1>7, <1>8, <1>9, <1>10, <1>11, <1>12, <1>13,
       <1>14, <1>15, <1>16, <1>17, <1>18, <1>19, <1>20, <1>21, <1>22, <1>23, <1>24,
       <1>25, <1>26, <1>27, <1>28, <1>29 DEF Next, Agent, Cloud, Tools

\* A text of the turn's own message may be queued: it is addressed rightly.
LEMMA PostFits ==
  ASSUME CleanInv, NEW k \in {"working", "reply", "flush"}, NEW a \in Text,
         SendOut(k, a), clean => a = cur
  PROVE  CleanTurnAnswersItsChat'
  <1> DEFINE msg == [kind |-> k, turn |-> cur, about |-> a,
                     channel |-> channel, chat |-> chatId,
                     clean |-> clean, crossed |-> crossed]
             Fit(out) ==
               /\ out.about = out.turn
               /\ ~out.crossed =>
                       /\ <<out.channel, out.chat>> \in Destination
                       /\ Route[out.turn] \in {<<out.channel, out.chat>>, NoRoute}
               /\ out.crossed =>
                       /\ out.channel = ModeChannel
                       /\ Route[out.turn] # NoRoute => out.chat = Route[out.turn][2]
  <1>1. CASE outq' = outq
    BY <1>1 DEF CleanInv, CleanTurnAnswersItsChat
  <1>2. CASE outq' = Append(outq, msg)
    <2>1. ASSUME clean PROVE Fit(msg)
      <3>1. cur \in Msgs /\ pc \notin {"channel", "chat"} /\ a = cur
        BY <2>1 DEF CleanInv, CleanRounds
      <3>2. crossed \in BOOLEAN /\ (crossed => channel = ModeChannel)
            /\ (~crossed => <<channel, chatId>> \in Destination)
        BY <3>1 DEF CleanInv, TypeOK, TypeTarget, TargetInv
      <3>3. ASSUME Route[cur] # NoRoute
            PROVE  chatId = Route[cur][2] /\ (~crossed => channel = Route[cur][1])
        BY <3>1, <3>3 DEF CleanInv, TargetInv
      <3>4. ASSUME Route[cur] # NoRoute, ~crossed
            PROVE  Route[cur] = <<channel, chatId>>
        <4>1. Route[cur] \in Channel \X Chat
          BY <3>1, <3>4, RouteAssumption
        <4> QED BY <3>3, <3>4, <4>1
      <3> QED BY <3>1, <3>2, <3>3, <3>4
    <2>2. msg.clean = clean
      OBVIOUS
    <2>3. outq \in Seq(Out) /\ Len(outq) \in Nat
      BY DEF CleanInv, TypeOK, TypeBus
    <2>4. ASSUME NEW i \in 1 .. Len(outq'), outq'[i].clean PROVE Fit(outq'[i])
      <3> HIDE DEF msg
      <3>1. CASE i = Len(outq) + 1
        <4>1. outq'[i] = msg
          BY <1>2, <2>3, <3>1
        <4>2. clean
          BY <2>2, <2>4, <4>1
        <4>3. Fit(msg)
          BY <2>1, <4>2
        <4> HIDE DEF Fit
        <4> QED BY <4>1, <4>3
      <3>2. CASE i \in 1 .. Len(outq)
        <4>1. outq'[i] = outq[i]
          BY <1>2, <2>3, <3>2
        <4>2. outq[i].clean
          BY <2>4, <4>1
        <4>3. Fit(outq[i])
          BY <3>2, <4>2 DEF CleanInv, CleanTurnAnswersItsChat
        <4> QED BY <4>1, <4>3
      <3>3. i \in 1 .. Len(outq) + 1
        BY <1>2, <2>3, AppendLen
      <3> HIDE DEF Fit
      <3> QED BY <2>3, <3>1, <3>2, <3>3
    <2> QED BY <2>4 DEF CleanTurnAnswersItsChat
  <1> QED BY <1>1, <1>2 DEF SendOut

\* What is queued in a clean turn is about its message and goes to its chat.
LEMMA OutNext == CleanInv /\ [Next]_vars => CleanTurnAnswersItsChat'
  <1> SUFFICES ASSUME CleanInv, [Next]_vars PROVE CleanTurnAnswersItsChat'
    OBVIOUS
  <1> USE DEF CleanInv
  <1>1. ASSUME UNCHANGED <<outq>> PROVE CleanTurnAnswersItsChat'
    BY <1>1 DEF CleanTurnAnswersItsChat
  <1>2. ASSUME NEW m \in Msgs,
     Push(m) \/ PushTimeout(m) PROVE CleanTurnAnswersItsChat'
    BY <1>2, <1>1
    DEF Push, PushTimeout, busVars, loopVars, turnVars, target, cloudVars
  <1>3. CASE \/ PopInbound \/ SetChannel \/ SetChatId \/ ClearResponse
             \/ DrainSem \/ ResetTool \/ BuildAndSend \/ SendFails \/ Wake
             \/ WaitTimeout \/ CheckDone \/ CheckRetry \/ LockResponse
             \/ EndTurn \/ VoiceStart \/ StreamStart \/ EndStore \/ EndNotify
             \/ RoundLost \/ CallTool \/ ToolOkHook \/ ToolOkReply
             \/ ToolFailReply \/ ToolFailHook \/ Connected \/ UNCHANGED vars
    BY <1>3, <1>1 DEF PopInbound, SetChannel, SetChatId, ClearResponse, DrainSem,
       ResetTool, BuildAndSend, SendFails, Wake, WaitTimeout, CheckDone,
       CheckRetry, LockResponse, EndTurn, VoiceStart, StreamStart, EndStore,
       EndNotify, RoundLost, CallTool, ToolOkHook, ToolOkReply, ToolFailReply,
       ToolFailHook, Connected, Goto, RecordTool, vars, busVars, loopVars, turnVars, target,
       cloudVars
  <1>4. CASE SendWorking
    <2>1. SendOut("working", cur) /\ cur \in Text
      BY <1>4 DEF SendWorking, TypeOK, TypeLoop, Text, Tag
    <2> QED BY <2>1, PostFits
  <1>5. CASE PushReply
    <2>1. CASE lastResp = NoMsg
      BY <1>1, <1>5, <2>1 DEF PushReply
    <2>2. CASE lastResp # NoMsg
      <3>1. SendOut("reply", lastResp) /\ lastResp \in Text
        BY <1>5, <2>2 DEF PushReply, TypeOK, TypeTurn
      <3>2. clean => lastResp = cur
        BY <1>5, <2>2 DEF PushReply, CleanTexts
      <3> QED BY <3>1, <3>2, PostFits
    <2> QED BY <2>1, <2>2
  <1>6. CASE Dispatch
    BY <1>6 DEF Dispatch, busVars, loopVars, turnVars, target, cloudVars,
       CleanTurnAnswersItsChat, TypeOK, TypeBus, TypeLoop, TypeCloud, TargetInv,
       CleanRounds, CleanTexts
  <1>7. CASE StreamOverflow
    <2>1. CASE inToolLoop
      BY <1>1, <1>7, <2>1 DEF StreamOverflow
    <2>2. CASE ~inToolLoop
      <3>1. SendOut("flush", stream) /\ stream \in Text
        BY <1>7, <2>2 DEF StreamOverflow, TypeOK, TypeCloud
      <3>2. clean => stream = cur
        BY <1>7 DEF StreamOverflow, Answering, CleanRounds
      <3> QED BY <3>1, <3>2, PostFits
    <2> QED BY <2>1, <2>2
  <1> QED
    BY <1>2, <1>3, <1>4, <1>5, <1>6, <1>7 DEF Next, Agent, Cloud, Tools

\* The invariant holds at boot.
LEMMA CleanInit == Init => CleanInv
  <1> SUFFICES ASSUME Init PROVE CleanInv OBVIOUS
  <1>1. TypeOK BY TypeInit
  <1>2. ~clean /\ job.stage = "none" /\ outq = <<>>
    BY DEF Init, NoJob
  <1>3. pc = "idle" /\ cur = NoMsg /\ channel = ModeChannel /\ chatId = SavedChat /\ ~crossed
    BY DEF Init
  <1>4. TargetInv BY <1>3, TagAssumption DEF TargetInv, Destination
  <1>5. CleanRounds /\ CleanTexts /\ CleanJob
    BY <1>2 DEF CleanRounds, CleanTexts, CleanJob
  <1>6. CleanTurnAnswersItsChat BY <1>2 DEF CleanTurnAnswersItsChat
  <1> QED BY <1>1, <1>4, <1>5, <1>6 DEF CleanInv

\* The invariant is inductive.
LEMMA CleanNext == CleanInv /\ [Next]_vars => CleanInv'
  BY TypeNext, TargetNext, RoundsNext, TextsNext, JobNext, OutNext DEF CleanInv

\* The inductive invariant holds in every reachable state.
THEOREM CleanInvariant == Spec => []CleanInv
  BY CleanInit, CleanNext, PTL DEF Spec

\* A clean turn decides on its own text and its own tool results, for any
\* number of users, messages and iterations.
THEOREM OwnState == Spec => []CleanTurnOwnsItsState
  <1>1. CleanInv => CleanTurnOwnsItsState
    BY DEF CleanInv, CleanTexts, CleanTurnOwnsItsState
  <1> QED BY <1>1, CleanInvariant, PTL

\* What a clean turn sends is about its message and goes where it came from,
\* or, when a connection fell between, to its chat on the configured channel.
THEOREM OwnChat == Spec => []CleanTurnAnswersItsChat
  <1>1. CleanInv => CleanTurnAnswersItsChat
    BY DEF CleanInv
  <1> QED BY <1>1, CleanInvariant, PTL

\* A clean turn goes on only when its round is over.
THEOREM OwnWake == Spec => []CleanWakeIsOwnEnd
  <1>1. CleanInv => CleanWakeIsOwnEnd
    BY DEF CleanInv, CleanRounds, CleanWakeIsOwnEnd
  <1> QED BY <1>1, CleanInvariant, PTL

\* At the END of a clean turn's round no successful tool call is unrecorded.
THEOREM SuccessesRecorded == Spec => []CleanEndHasSuccesses
  <1>1. CleanInv => CleanEndHasSuccesses
    <2> SUFFICES ASSUME CleanInv, clean, ending, job # NoJob
                 PROVE  job.stage = "hook" /\ ~job.ok
      BY DEF CleanEndHasSuccesses
    <2>1. rounds # <<>> /\ job.stage \in {"run", "reply", "hook"}
      BY DEF CleanInv, TypeOK, TypeCloud, Job
    <2> QED BY <2>1 DEF CleanInv, CleanJob
  <1> QED BY <1>1, CleanInvariant, PTL

-----------------------------------------------------------------------------
(* The loop implements TurnService.                                        *)

\* What SendOut does to the queue: nothing, or one message of this turn.
LEMMA SendOutPosts ==
  ASSUME TypeOK, NEW k \in {"working", "reply", "flush"}, NEW a \in Text,
         SendOut(k, a), outq' # outq
  PROVE  \E msg \in Out : msg.kind = k /\ msg.turn = cur /\ Turns!Post(msg)
  <1> DEFINE msg == [kind |-> k, turn |-> cur, about |-> a,
                     channel |-> channel, chat |-> chatId,
                     clean |-> clean, crossed |-> crossed]
  <1>1. chatId # NoChat /\ Len(outq) # QueueLen /\ outq' = Append(outq, msg)
    BY DEF SendOut
  <1>2. msg \in Out /\ msg.kind = k /\ msg.turn = cur
    BY <1>1 DEF Out, TypeOK, TypeLoop, TypeTarget
  <1>3. Len(outq) < QueueLen
    BY <1>1, QueueLenAssumption DEF TypeOK, TypeBus
  <1> HIDE DEF msg
  <1> QED BY <1>1, <1>2, <1>3 DEF Turns!Post

\* The iterations of a turn.
LEMMA LoopNext == TypeOK /\ LoopInv /\ [Next]_vars => LoopInv'
  <1> SUFFICES ASSUME TypeOK, LoopInv, [Next]_vars PROVE LoopInv'
    OBVIOUS
  <1>1. CASE UNCHANGED <<pc, iter, inToolLoop>>
    BY <1>1 DEF LoopInv, Begun
  <1>2. CASE PopInbound
    BY <1>2 DEF PopInbound, LoopInv, Begun
  <1>3. CASE CheckRetry
    BY <1>3 DEF CheckRetry, LoopInv, Begun
  <1>4. CASE EndTurn
    BY <1>4 DEF EndTurn, LoopInv, Begun
  <1>5. CASE
       \/ SetChannel \/ SetChatId \/ ClearResponse \/ DrainSem \/ SendWorking \/ ResetTool
       \/ BuildAndSend \/ SendFails \/ Wake \/ WaitTimeout \/ CheckDone \/ LockResponse \/ PushReply
    <2>1. UNCHANGED <<iter, inToolLoop>>
          /\ (pc' \in {"channel", "chat", "clear", "drain"} => pc \in {"channel", "chat", "clear", "drain"})
      BY <1>5 DEF SetChannel, SetChatId, ClearResponse, DrainSem, SendWorking, ResetTool,
         BuildAndSend, SendFails, Wake, WaitTimeout, CheckDone, LockResponse, PushReply, Goto
    <2>2. Begun' => Begun \/ iter = 0
      BY <1>5 DEF LoopInv, SetChannel, SetChatId, ClearResponse, DrainSem, SendWorking, ResetTool,
         BuildAndSend, SendFails, Wake, WaitTimeout, CheckDone, LockResponse, PushReply, Goto, Begun
    <2>3. iter \in Nat
      BY DEF TypeOK, TypeLoop
    <2> QED BY <2>1, <2>2, <2>3 DEF LoopInv
  <1>6. CASE (\E m \in Msgs : Push(m) \/ PushTimeout(m)) \/ Dispatch \/ Connected \/ Cloud \/ Tools
    <2>1. UNCHANGED <<pc, iter, inToolLoop>>
      BY <1>6 DEF Cloud, Tools, Push, PushTimeout, Dispatch, Connected, VoiceStart, StreamStart,
         StreamOverflow, EndStore, EndNotify, RoundLost, CallTool, ToolOkHook, ToolOkReply,
         ToolFailReply, ToolFailHook, loopVars
    <2> QED BY <1>1, <2>1
  <1> QED
    BY <1>1, <1>2, <1>3, <1>4, <1>5, <1>6 DEF Next, Agent, vars, loopVars

\* The iterations are counted from the first prompt of a turn, and each but
\* the first belongs to a tool loop.
THEOREM LoopInvariant == Spec => []LoopInv
  <1>1. Init => LoopInv
    BY DEF Init, LoopInv, Begun
  <1> QED BY <1>1, LoopNext, TypeCorrect, PTL DEF Spec

\* Every step maps to a step of TurnService or to a stutter.
LEMMA TurnStep ==
  ASSUME TypeOK, LoopInv, Next
  PROVE  [Turns!Next]_<<inq, Serving, Prompts, pc = "end", outq>>
  <1> USE TagAssumption
  <1> DEFINE Same == UNCHANGED <<inq, Serving, Prompts, pc = "end">>
  <1>1. iter \in Nat /\ iter < MaxIter /\ cur \in Msgs \cup {NoMsg}
        /\ (pc # "idle" => cur \in Msgs)
    BY MaxIterAssumption DEF TypeOK, TypeLoop
  <1>2. ASSUME NEW m \in Msgs, Push(m) PROVE Turns!Arrive(m)
    BY <1>2 DEF Push, Turns!Arrive, loopVars, Serving, Prompts, Begun
  <1>3. CASE PopInbound
    <2>1. /\ pc = "idle" /\ pc' = "channel" /\ inq # <<>> /\ cur' = Head(inq) /\ inq' = Tail(inq)
          /\ outq' = outq
      BY <1>3 DEF PopInbound
    <2>2. Turns!Begin
      BY <2>1 DEF Turns!Begin, Serving, Prompts, Begun
    <2> QED BY <2>2 DEF Turns!Next
  <1>4. CASE DrainSem
    <2>1. pc = "drain" /\ pc' = "working" /\ UNCHANGED <<inq, outq, cur, iter>> /\ iter = 0
      BY <1>4 DEF DrainSem, Goto, busVars, LoopInv
    <2> QED BY <2>1 DEF Serving, Prompts, Begun
  <1>5. CASE SendWorking
    <2>1. /\ pc = "working" /\ pc' = "reset" /\ UNCHANGED <<inq, cur, iter>>
          /\ SendOut("working", cur)
      BY <1>5 DEF SendWorking, Goto
    <2>2. Serving = cur /\ cur \in Msgs /\ Serving' = cur /\ Prompts = iter /\ Prompts' = iter + 1
      BY <1>1, <2>1 DEF Serving, Prompts, Begun
    <2>3. Turns!Tell("working")
      BY <1>1, <2>1, <2>2, SendOutPosts DEF Turns!Tell, Text, Tag
    <2>4. Turns!Prompt
      BY <1>1, <2>1, <2>2, <2>3 DEF Turns!Prompt
    <2> QED BY <2>4 DEF Turns!Next
  <1>6. CASE WaitTimeout \/ PushReply
    <2>1. /\ pc \in {"wait", "push"} /\ pc' = "end" /\ UNCHANGED <<inq, cur, iter>>
          /\ outq' = outq \/ SendOut("reply", lastResp)
      BY <1>6 DEF WaitTimeout, PushReply, Goto, busVars
    <2>2. Serving = cur /\ cur \in Msgs /\ Serving' = cur /\ Prompts = iter + 1 /\ Prompts' = iter + 1
      BY <1>1, <2>1 DEF Serving, Prompts, Begun
    <2>3. Turns!Tell("reply")
      BY <2>1, <2>2, SendOutPosts DEF Turns!Tell, TypeOK, TypeTurn
    <2>4. Turns!Reply
      BY <1>1, <2>1, <2>2, <2>3 DEF Turns!Reply
    <2> QED BY <2>4 DEF Turns!Next
  <1>7. CASE EndTurn
    <2>1. pc = "end" /\ pc' = "idle" /\ UNCHANGED <<inq, outq>>
      BY <1>7 DEF EndTurn, busVars
    <2>2. Turns!Finish
      BY <2>1 DEF Turns!Finish, Serving, Prompts, Begun
    <2> QED BY <2>2 DEF Turns!Next
  <1>8. CASE CheckRetry
    <2>1. pc = "check" /\ pc' = "working" /\ iter' = iter + 1 /\ UNCHANGED <<inq, outq, cur>>
      BY <1>8 DEF CheckRetry, busVars
    <2> QED BY <2>1 DEF Serving, Prompts, Begun
  <1>9. CASE StreamOverflow
    <2>1. UNCHANGED <<inq, pc, cur, iter>>
          /\ (inToolLoop => outq' = outq) /\ (~inToolLoop => SendOut("flush", stream))
      BY <1>9 DEF StreamOverflow, loopVars
    <2>2. Same
      BY <2>1 DEF Serving, Prompts, Begun
    <2>3. CASE outq' = outq
      BY <2>2, <2>3
    <2>4. CASE outq' # outq
      <3>1. ~inToolLoop /\ SendOut("flush", stream) /\ stream \in Text
        BY <2>1, <2>4 DEF TypeOK, TypeCloud
      <3>2. \E msg \in Out : msg.kind = "flush" /\ msg.turn = cur /\ Turns!Post(msg)
        BY <2>4, <3>1, SendOutPosts
      <3>3. Prompts < 2
        BY <1>1, <3>1 DEF LoopInv, Prompts
      <3>4. Turns!Flush
        BY <2>2, <3>2, <3>3 DEF Turns!Flush
      <3> QED BY <3>4 DEF Turns!Next
    <2> QED BY <2>3, <2>4
  <1>10. CASE Dispatch
    <2>1. outq # <<>> /\ outq' = Tail(outq) /\ UNCHANGED <<inq, pc, cur, iter>>
      BY <1>10 DEF Dispatch, loopVars
    <2>2. Turns!Deliver
      BY <2>1 DEF Turns!Deliver, Serving, Prompts, Begun
    <2> QED BY <2>2 DEF Turns!Next
  <1>11. CASE
       \/ SetChannel \/ SetChatId \/ ClearResponse \/ ResetTool \/ BuildAndSend \/ SendFails
       \/ Wake \/ CheckDone \/ LockResponse
    <2>1. /\ UNCHANGED <<inq, outq, cur, iter>> /\ Begun' = Begun
          /\ pc # "idle" /\ pc' # "idle" /\ pc # "end" /\ pc' # "end"
          /\ pc # "working" /\ pc' # "working"
      BY <1>11 DEF SetChannel, SetChatId, ClearResponse, ResetTool, BuildAndSend, SendFails,
         Wake, CheckDone, LockResponse, Goto, Begun, busVars
    <2> QED BY <2>1 DEF Serving, Prompts
  <1>12. CASE
       \/ (\E m \in Msgs : PushTimeout(m)) \/ VoiceStart \/ StreamStart \/ EndStore \/ EndNotify
       \/ RoundLost \/ Connected \/ Tools
    <2>1. UNCHANGED <<inq, outq, pc, cur, iter>>
      BY <1>12 DEF PushTimeout, VoiceStart, StreamStart, EndStore, EndNotify, RoundLost, Connected, Tools,
         CallTool, ToolOkHook, ToolOkReply, ToolFailReply, ToolFailHook, busVars, loopVars
    <2> QED BY <2>1 DEF Serving, Prompts, Begun
  <1>13. CASE \E m \in Msgs : Push(m)
    BY <1>2, <1>13 DEF Turns!Next
  <1> QED
    BY <1>3, <1>4, <1>5, <1>6, <1>7, <1>8, <1>9, <1>10, <1>11, <1>12, <1>13
    DEF Next, Agent, Cloud

\* Users are served as TurnService promises, whatever the cloud and the tools
\* do: turns in order, bounded prompts, one reply at most, nothing overtaken.
THEOREM TurnsImplemented == Spec => TurnsInOrder
  <1>1. Init => Turns!Init
    BY DEF Init, Turns!Init, Serving, Prompts, Begun
  <1>2. TypeOK /\ LoopInv /\ [Next]_vars => [Turns!Next]_<<inq, Serving, Prompts, pc = "end", outq>>
    <2> SUFFICES ASSUME TypeOK, LoopInv, [Next]_vars
                 PROVE  [Turns!Next]_<<inq, Serving, Prompts, pc = "end", outq>>
      OBVIOUS
    <2>1. CASE Next
      BY <2>1, TurnStep
    <2>2. CASE UNCHANGED vars
      BY <2>2 DEF vars, busVars, loopVars, Serving, Prompts, Begun
    <2> QED BY <2>1, <2>2
  <1> QED
    BY <1>1, <1>2, TypeCorrect, LoopInvariant, PTL DEF Spec, TurnsInOrder, Turns!Spec
=============================================================================
