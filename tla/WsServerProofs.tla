---------------------------- MODULE WsServerProofs ----------------------------
(* The invariants of WsServer, for every number of slots, connections and    *)
(* items.                                                                    *)
EXTENDS WsServer, TLAPS, SequenceTheorems


\* What is left of a sequence when the first is gone.
LEMMA HeadFacts ==
    ASSUME NEW S, NEW s \in Seq(S), s # <<>>
    PROVE  /\ Len(s) > 0 /\ Head(s) \in S /\ Head(s) = s[1] /\ Tail(s) \in Seq(S)
           /\ Len(Tail(s)) = Len(s) - 1
           /\ \A k \in 1 .. Len(Tail(s)) : k + 1 \in 1 .. Len(s) /\ Tail(s)[k] = s[k + 1]
PROOF
  BY HeadTailProperties

\* One more behind a sequence.
LEMMA AppendFacts ==
    ASSUME NEW S, NEW s \in Seq(S), NEW e \in S
    PROVE  /\ Append(s, e) \in Seq(S) /\ Len(Append(s, e)) = Len(s) + 1
           /\ \A k \in 1 .. Len(s) : Append(s, e)[k] = s[k]
           /\ Append(s, e)[Len(s) + 1] = e
PROOF
  OBVIOUS

\* The first k of t behind s, and what is left of t.
LEMMA SplitFacts ==
    ASSUME NEW S, NEW s \in Seq(S), NEW t \in Seq(S), NEW k \in 1 .. Len(t)
    PROVE  /\ SubSeq(t, 1, k) \in Seq(S)
           /\ s \o SubSeq(t, 1, k) \in Seq(S) /\ Len(s \o SubSeq(t, 1, k)) = Len(s) + k
           /\ \A i \in 1 .. Len(s) : (s \o SubSeq(t, 1, k))[i] = s[i]
           /\ \A i \in Len(s) + 1 .. Len(s) + k :
                 i - Len(s) \in 1 .. Len(t) /\ (s \o SubSeq(t, 1, k))[i] = t[i - Len(s)]
           /\ SubSeq(t, k + 1, Len(t)) \in Seq(S) /\ Len(SubSeq(t, k + 1, Len(t))) = Len(t) - k
           /\ \A i \in 1 .. Len(t) - k :
                 k + i \in 1 .. Len(t) /\ SubSeq(t, k + 1, Len(t))[i] = t[k + i]
PROOF
  <1>1. /\ SubSeq(t, 1, k) \in Seq(S) /\ Len(SubSeq(t, 1, k)) = k
        /\ \A i \in 1 .. k : SubSeq(t, 1, k)[i] = t[i]
    BY SubSeqProperties
  <1>2. /\ SubSeq(t, k + 1, Len(t)) \in Seq(S) /\ Len(SubSeq(t, k + 1, Len(t))) = Len(t) - k
        /\ \A i \in 1 .. Len(t) - k : SubSeq(t, k + 1, Len(t))[i] = t[k + i]
    <2>1. CASE k = Len(t)  BY <2>1, SubSeqProperties
    <2>2. CASE k < Len(t)  BY <2>2, SubSeqProperties
    <2>3. QED  BY <2>1, <2>2
  <1>3. DEFINE h == SubSeq(t, 1, k)
  <1>4. s \o h \in Seq(S) /\ Len(s \o h) = Len(s) + k
        /\ \A i \in 1 .. Len(s) + k : (s \o h)[i] = IF i =< Len(s) THEN s[i] ELSE h[i - Len(s)]
    BY <1>1, ConcatProperties
  <1>5. QED  BY <1>1, <1>2, <1>4

\* The slot whose buffer is read.
LEMMA ServedFacts ==
    ASSUME TypeOK, tpc = "frames"
    PROVE  /\ ti \in Client /\ Active(ti) /\ slots[ti] \in Slot
           /\ slots[ti].conn \in Conns /\ slots[ti].rx \in Seq(Item)
PROOF
  <1>1. ti \in Client /\ Active(ti) /\ slots[ti] \in Slot  BY DEF TypeOK, SlotTypes
  <1>2. QED  BY <1>1 DEF Slot, Active

\* A slot that is closed.
LEMMA CloseFacts ==
    ASSUME TypeOK, NEW i \in Client, Active(i), CloseSlot(i)
    PROVE  LET c == slots[i].conn
           IN /\ c \in Conns
              /\ slots' \in [Client -> Slot] /\ ~Active(i)'
              /\ \A j \in Client : j # i => slots'[j] = slots[j]
              /\ fd' \in [Conns -> Fds \cup {NoConn}] /\ net' \in [Conns -> Seq(Item)]
              /\ \A d \in Conns : d # c => fd'[d] = fd[d] /\ net'[d] = net[d]
              /\ open' \subseteq open
PROOF
  <1>1. slots \in [Client -> Slot] /\ slots[i] \in Slot  BY DEF TypeOK, SlotTypes
  <1>2. slots[i].conn \in Conns  BY <1>1 DEF Slot, Active
  <1>3. FreeSlot \in Slot /\ FreeSlot.conn = NoConn
    <2>1. <<>> \in Seq(Item) OBVIOUS
    <2>2. QED  BY <2>1 DEF FreeSlot, Slot
  <1>4. slots' = [slots EXCEPT ![i] = FreeSlot]  BY DEF CloseSlot
  <1>5. slots' \in [Client -> Slot] /\ slots'[i] = FreeSlot
        /\ \A j \in Client : j # i => slots'[j] = slots[j]
    BY <1>1, <1>3, <1>4
  <1>6. fd \in [Conns -> Fds \cup {NoConn}] /\ net \in [Conns -> Seq(Item)]
    BY DEF TypeOK, ConnTypes
  <1>7. /\ fd' = [fd EXCEPT ![slots[i].conn] = NoConn]
        /\ net' = [net EXCEPT ![slots[i].conn] = <<>>]
        /\ open' \subseteq open
    BY DEF CloseSlot
  <1>8. /\ fd' \in [Conns -> Fds \cup {NoConn}] /\ net' \in [Conns -> Seq(Item)]
        /\ \A d \in Conns : d # slots[i].conn => fd'[d] = fd[d] /\ net'[d] = net[d]
    BY <1>2, <1>6, <1>7
  <1>9. QED  BY <1>2, <1>3, <1>5, <1>7, <1>8 DEF Active

\* A slot that is taken by the connection that waited longest.
LEMMA AcceptFacts ==
    ASSUME TypeOK, NEW f \in Fds, Accept(f)
    PROVE  /\ Head(backlog) \in Conns /\ Head(backlog) = backlog[1] /\ 1 \in 1 .. Len(backlog)
           /\ backlog' = Tail(backlog) /\ backlog' \in Seq(Conns) /\ Len(backlog') = Len(backlog) - 1
           /\ \A k \in 1 .. Len(backlog') : k + 1 \in 1 .. Len(backlog) /\ backlog'[k] = backlog[k + 1]
           /\ \E i \in Client :
                 /\ ~Active(i) /\ slots' \in [Client -> Slot]
                 /\ slots'[i].conn = Head(backlog) /\ slots'[i].chat = f /\ ~slots'[i].shaken
                 /\ slots'[i].rx = <<>>
                 /\ \A j \in Client : j # i => slots'[j] = slots[j]
           /\ fd' \in [Conns -> Fds \cup {NoConn}] /\ fd'[Head(backlog)] = f
           /\ \A d \in Conns : d # Head(backlog) => fd'[d] = fd[d]
           /\ held' \in [Chat -> SUBSET Conns] /\ Head(backlog) \in held'[f]
           /\ \A x \in Chat : held[x] \subseteq held'[x]
PROOF
  <1>1. backlog \in Seq(Conns) /\ backlog # <<>> /\ backlog' = Tail(backlog)
    BY DEF TypeOK, ConnTypes, Accept, Waiting
  <1>2. /\ Head(backlog) \in Conns /\ Head(backlog) = backlog[1] /\ 1 \in 1 .. Len(backlog)
        /\ backlog' \in Seq(Conns) /\ Len(backlog') = Len(backlog) - 1
        /\ \A k \in 1 .. Len(backlog') : k + 1 \in 1 .. Len(backlog) /\ backlog'[k] = backlog[k + 1]
    BY <1>1, HeadFacts
  <1>3. PICK i \in Client : First(i, FreeSlots)
           /\ slots' = [slots EXCEPT ![i] = [FreeSlot EXCEPT !.conn = Head(backlog), !.chat = f]]
    BY DEF Accept
  <1>4. ~Active(i)  BY <1>3 DEF First, FreeSlots
  <1>5. DEFINE new == [FreeSlot EXCEPT !.conn = Head(backlog), !.chat = f]
  <1>6. new \in Slot /\ new.conn = Head(backlog) /\ new.chat = f /\ ~new.shaken /\ new.rx = <<>>
    <2>1. <<>> \in Seq(Item) /\ f \in Chat  BY DEF Chat
    <2>2. QED  BY <1>2, <2>1 DEF FreeSlot, Slot
  <1>7. slots \in [Client -> Slot]  BY DEF TypeOK, SlotTypes
  <1> HIDE DEF new
  <1>8. slots' \in [Client -> Slot] /\ slots'[i] = new
        /\ \A j \in Client : j # i => slots'[j] = slots[j]
    BY <1>3, <1>6, <1>7 DEF new
  <1>9. /\ fd \in [Conns -> Fds \cup {NoConn}] /\ fd' = [fd EXCEPT ![Head(backlog)] = f]
        /\ held \in [Chat -> SUBSET Conns] /\ held' = [held EXCEPT ![f] = @ \cup {Head(backlog)}]
    BY DEF TypeOK, ConnTypes, Accept
  <1>10. /\ fd' \in [Conns -> Fds \cup {NoConn}] /\ fd'[Head(backlog)] = f
         /\ \A d \in Conns : d # Head(backlog) => fd'[d] = fd[d]
    BY <1>2, <1>9
  <1>11. f \in Chat  BY DEF Chat
  <1>12. held' \in [Chat -> SUBSET Conns] /\ Head(backlog) \in held'[f]
         /\ \A x \in Chat : held[x] \subseteq held'[x]
    BY <1>2, <1>9, <1>11
  <1>13. /\ ~Active(i) /\ slots' \in [Client -> Slot]
         /\ slots'[i].conn = Head(backlog) /\ slots'[i].chat = f /\ ~slots'[i].shaken
         /\ slots'[i].rx = <<>>
         /\ \A j \in Client : j # i => slots'[j] = slots[j]
    BY <1>4, <1>6, <1>8
  <1>14. QED  BY <1>1, <1>2, <1>10, <1>12, <1>13

\* What is received moves from the socket to the buffer.
LEMMA RecvFacts ==
    ASSUME TypeOK, RecvItems
    PROVE  /\ ti \in Client /\ Active(ti) /\ slots[ti].conn \in Conns
           /\ slots' \in [Client -> Slot] /\ net' \in [Conns -> Seq(Item)]
           /\ slots'[ti].conn = slots[ti].conn /\ slots'[ti].chat = slots[ti].chat
           /\ slots'[ti].shaken = slots[ti].shaken
           /\ \A j \in Client : j # ti => slots'[j] = slots[j]
           /\ \A d \in Conns : d # slots[ti].conn => net'[d] = net[d]
           /\ \E k \in 1 .. Len(net[slots[ti].conn]) :
                 /\ slots'[ti].rx = slots[ti].rx \o SubSeq(net[slots[ti].conn], 1, k)
                 /\ net'[slots[ti].conn] =
                       SubSeq(net[slots[ti].conn], k + 1, Len(net[slots[ti].conn]))
PROOF
  <1>1. /\ ti \in Client /\ Active(ti) /\ slots \in [Client -> Slot] /\ slots[ti] \in Slot
        /\ net \in [Conns -> Seq(Item)]
    BY DEF TypeOK, SlotTypes, ConnTypes, RecvItems, Serving
  <1>2. slots[ti].conn \in Conns /\ slots[ti].rx \in Seq(Item)  BY <1>1 DEF Slot, Active
  <1>3. DEFINE c == slots[ti].conn
  <1>4. PICK k \in 1 .. Len(net[c]) :
             /\ slots' = [slots EXCEPT ![ti].rx = @ \o SubSeq(net[c], 1, k)]
             /\ net' = [net EXCEPT ![c] = SubSeq(@, k + 1, Len(@))]
    BY DEF RecvItems
  <1>5. DEFINE rest == SubSeq(net[c], k + 1, Len(net[c]))
               rx == slots[ti].rx \o SubSeq(net[c], 1, k)
  <1>6. net[c] \in Seq(Item)  BY <1>1, <1>2
  <1>7. rx \in Seq(Item) /\ rest \in Seq(Item)  BY <1>2, <1>6, SplitFacts
  <1>8. net' = [net EXCEPT ![c] = rest] /\ slots' = [slots EXCEPT ![ti] = [slots[ti] EXCEPT !.rx = rx]]
    BY <1>1, <1>2, <1>4
  <1> HIDE DEF rest, rx
  <1>9. net' \in [Conns -> Seq(Item)] /\ net'[c] = rest /\ \A d \in Conns : d # c => net'[d] = net[d]
    BY <1>1, <1>2, <1>7, <1>8
  <1>10. DEFINE new == [slots[ti] EXCEPT !.rx = rx]
  <1>11. /\ new \in Slot /\ new.rx = rx /\ new.conn = slots[ti].conn /\ new.chat = slots[ti].chat
         /\ new.shaken = slots[ti].shaken
    BY <1>1, <1>7 DEF Slot
  <1> HIDE DEF new
  <1>12. slots' \in [Client -> Slot] /\ slots'[ti] = new
         /\ \A j \in Client : j # ti => slots'[j] = slots[j]
    BY <1>1, <1>8, <1>11 DEF new
  <1>13. /\ slots'[ti].rx = slots[ti].rx \o SubSeq(net[c], 1, k)
         /\ net'[c] = SubSeq(net[c], k + 1, Len(net[c]))
    BY <1>9, <1>11, <1>12 DEF rest, rx
  <1>14. QED  BY <1>1, <1>2, <1>9, <1>11, <1>12, <1>13

\* A handshake leaves what came behind the request.
LEMMA HandshakeFacts ==
    ASSUME TypeOK, Handshake
    PROVE  /\ slots' \in [Client -> Slot] /\ slots'[ti].shaken /\ slots'[ti].rx = Tail(slots[ti].rx)
           /\ slots'[ti].conn = slots[ti].conn /\ slots'[ti].chat = slots[ti].chat
           /\ \A j \in Client : j # ti => slots'[j] = slots[j]
PROOF
  <1>1. tpc = "frames" /\ slots[ti].rx # <<>>  BY DEF Handshake, AtItem
  <1>2. /\ ti \in Client /\ slots[ti] \in Slot /\ Tail(slots[ti].rx) \in Seq(Item)
        /\ slots \in [Client -> Slot]
    BY <1>1, ServedFacts, HeadFacts DEF TypeOK, SlotTypes
  <1>3. DEFINE new == [slots[ti] EXCEPT !.shaken = TRUE, !.rx = Tail(@)]
  <1>4. slots' = [slots EXCEPT ![ti] = new]  BY <1>2 DEF Handshake
  <1>5. /\ new \in Slot /\ new.rx = Tail(slots[ti].rx) /\ new.shaken
        /\ new.conn = slots[ti].conn /\ new.chat = slots[ti].chat
    BY <1>2 DEF Slot
  <1> HIDE DEF new
  <1>6. slots' \in [Client -> Slot] /\ slots'[ti] = new
        /\ \A j \in Client : j # ti => slots'[j] = slots[j]
    BY <1>2, <1>4, <1>5
  <1>7. QED  BY <1>5, <1>6

\* A text gives its slot an id, or leaves it the one it has.
LEMMA TextFacts ==
    ASSUME TypeOK, ConnsApart, TakeText
    PROVE  /\ slots' \in [Client -> Slot] /\ slots'[ti].rx = Tail(slots[ti].rx)
           /\ slots'[ti].shaken = slots[ti].shaken /\ slots[ti].shaken
           /\ slots'[ti].conn = slots[ti].conn /\ slots'[ti].chat = ChatOf(ti) /\ ChatOf(ti) \in Chat
           /\ \A j \in Client : j # ti => slots'[j] = slots[j]
           /\ held' \in [Chat -> SUBSET Conns] /\ slots[ti].conn \in held'[ChatOf(ti)]
           /\ \A x \in Chat : held[x] \subseteq held'[x]
PROOF
  <1>1. tpc = "frames" /\ slots[ti].rx # <<>> /\ slots[ti].shaken  BY DEF TakeText, AtItem
  <1>2. /\ ti \in Client /\ slots[ti] \in Slot /\ Tail(slots[ti].rx) \in Seq(Item)
        /\ slots \in [Client -> Slot] /\ Head(slots[ti].rx) \in Item /\ Active(ti)
        /\ slots[ti].conn \in Conns
    BY <1>1, ServedFacts, HeadFacts DEF TypeOK, SlotTypes
  <1>3. ChatOf(ti) \in Chat
    BY <1>2 DEF ChatOf, Item, Slot, Chat, ConnsApart
  <1>4. DEFINE new == [slots[ti] EXCEPT !.chat = ChatOf(ti), !.rx = Tail(@)]
  <1>5. slots' = [slots EXCEPT ![ti] = new]  BY <1>2 DEF TakeText
  <1>6. /\ new \in Slot /\ new.rx = Tail(slots[ti].rx) /\ new.shaken = slots[ti].shaken
        /\ new.conn = slots[ti].conn /\ new.chat = ChatOf(ti)
    BY <1>2, <1>3 DEF Slot
  <1> HIDE DEF new
  <1>7. slots' \in [Client -> Slot] /\ slots'[ti] = new
        /\ \A j \in Client : j # ti => slots'[j] = slots[j]
    BY <1>2, <1>5, <1>6
  <1>8. held \in [Chat -> SUBSET Conns]  BY DEF TypeOK, ConnTypes
  <1>9. held' = [held EXCEPT ![ChatOf(ti)] = @ \cup {slots[ti].conn}]  BY DEF TakeText
  <1>10. held' \in [Chat -> SUBSET Conns] /\ slots[ti].conn \in held'[ChatOf(ti)]
         /\ \A x \in Chat : held[x] \subseteq held'[x]
    BY <1>2, <1>3, <1>8, <1>9
  <1>11. QED  BY <1>1, <1>3, <1>6, <1>7, <1>10

\* An item taken up.
LEMMA TakeUpFacts ==
    ASSUME TypeOK, tpc = "frames", slots[ti].rx # <<>>, TakeUp
    PROVE  /\ read' \in [Conns -> Nat] /\ read'[slots[ti].conn] = slots[ti].rx[1].n
           /\ \A d \in Conns : d # slots[ti].conn => read'[d] = read[d]
PROOF
  <1>1. slots[ti].conn \in Conns /\ slots[ti].rx \in Seq(Item)  BY ServedFacts
  <1>2. Head(slots[ti].rx) \in Item /\ Head(slots[ti].rx) = slots[ti].rx[1]  BY <1>1, HeadFacts
  <1>3. Head(slots[ti].rx).n \in Nat  BY <1>2 DEF Item
  <1>4. read \in [Conns -> Nat]  BY DEF TypeOK, ConnTypes
  <1>5. read' = [read EXCEPT ![slots[ti].conn] = Head(slots[ti].rx).n]  BY DEF TakeUp
  <1>6. QED  BY <1>1, <1>2, <1>3, <1>4, <1>5

\* What the actions of claw_ws and of the dispatcher that close a slot share.
LEMMA ClosingFacts ==
    ASSUME TypeOK, MutexIsHeld, SendingToBearer,
           RecvClosed \/ HandshakeFails \/ CloseFrame \/ FrameRefused \/ SendFails
    PROVE  /\ UNCHANGED <<joined, sent, backlog, held, got>>
           /\ inq' = inq /\ si' = si
           /\ \/ /\ ti \in Client /\ Active(ti) /\ CloseSlot(ti) /\ NextClient
                 /\ mutex = "task" /\ UNCHANGED <<mutex, spc, out>>
              \/ si \in Client /\ Active(si) /\ CloseSlot(si) /\ SendFails /\ read' = read
           /\ read' = read \/ (tpc = "frames" /\ slots[ti].rx # <<>> /\ TakeUp /\ CloseSlot(ti))
PROOF
  <1> USE DEF clientVars, slotVars, taskVars, sendVars, histVars
  <1>1. CASE RecvClosed
    <2>1. ti \in Client /\ Active(ti)  BY <1>1 DEF RecvClosed, Serving
    <2>2. mutex = "task"  BY <1>1 DEF RecvClosed, Serving, MutexIsHeld
    <2>3. QED  BY <1>1, <2>1, <2>2 DEF RecvClosed
  <1>2. CASE HandshakeFails
    <2>1. tpc = "frames"  BY <1>2 DEF HandshakeFails, AtItem
    <2>2. ti \in Client /\ Active(ti) /\ mutex = "task"  BY <2>1, ServedFacts DEF MutexIsHeld
    <2>3. QED  BY <1>2, <2>1, <2>2 DEF HandshakeFails
  <1>3. CASE CloseFrame
    <2>1. tpc = "frames" /\ slots[ti].rx # <<>>  BY <1>3 DEF CloseFrame, AtItem
    <2>2. ti \in Client /\ Active(ti) /\ mutex = "task"  BY <2>1, ServedFacts DEF MutexIsHeld
    <2>3. QED  BY <1>3, <2>1, <2>2 DEF CloseFrame
  <1>4. CASE FrameRefused
    <2>1. tpc = "frames"  BY <1>4 DEF FrameRefused
    <2>2. ti \in Client /\ Active(ti) /\ mutex = "task"  BY <2>1, ServedFacts DEF MutexIsHeld
    <2>3. QED  BY <1>4, <2>1, <2>2 DEF FrameRefused
  <1>5. CASE SendFails
    <2>1. si \in Client /\ Active(si)
      BY <1>5 DEF SendFails, SendEnd, SendingToBearer, TypeOK, SendTypes
    <2>2. QED  BY <1>5, <2>1 DEF SendFails
  <1>6. QED  BY <1>1, <1>2, <1>3, <1>4, <1>5

\* The holder of the mutex.
LEMMA MutexStep ==
    ASSUME TypeOK, MutexIsHeld, Next
    PROVE  MutexIsHeld'
PROOF
<1> USE DEF TypeOK, SlotTypes, SendTypes
<1>1. CASE Build
  BY <1>1 DEF Build, Active, MutexIsHeld, clientVars, slotVars, taskVars, sendVars,
    histVars
<1>2. CASE Select
  BY <1>2 DEF Select, Readable, MutexIsHeld, clientVars, slotVars, taskVars, sendVars,
    histVars
<1>3. ASSUME NEW f \in Fds, Accept(f) PROVE MutexIsHeld'
  BY <1>3 DEF Accept, LockToServe, Waiting, First, FreeSlots, Active, FreeSlot,
    MutexIsHeld, clientVars, slotVars, taskVars, sendVars, histVars
<1>4. CASE Reject
  BY <1>4 DEF Reject, LockToServe, Waiting, FreeSlots, MutexIsHeld, clientVars,
    slotVars, taskVars, sendVars, histVars
<1>5. CASE AcceptNone
  BY <1>5 DEF AcceptNone, LockToServe, MutexIsHeld, clientVars, slotVars, taskVars,
    sendVars, histVars
<1>6. CASE SkipClient
  BY <1>6 DEF SkipClient, NextClient, MutexIsHeld, clientVars, slotVars, taskVars,
    sendVars, histVars
<1>7. CASE RecvClosed
  BY <1>7 DEF RecvClosed, Serving, Active, CloseSlot, NextClient, FreeSlot, MutexIsHeld,
    clientVars, slotVars, taskVars, sendVars, histVars
<1>8. CASE RecvItems
  BY <1>8 DEF RecvItems, Serving, Active, MutexIsHeld, clientVars, slotVars, taskVars,
    sendVars, histVars
<1>9. CASE HandshakeFails
  BY <1>9 DEF HandshakeFails, AtItem, CloseSlot, NextClient, FreeSlot, MutexIsHeld,
    clientVars, slotVars, taskVars, sendVars, histVars
<1>10. CASE CloseFrame
  BY <1>10 DEF CloseFrame, AtItem, TakeUp, CloseSlot, NextClient, FreeSlot, MutexIsHeld,
    clientVars, slotVars, taskVars, sendVars, histVars
<1>11. CASE FrameRefused
  BY <1>11 DEF FrameRefused, CloseSlot, NextClient, FreeSlot, MutexIsHeld, clientVars,
    slotVars, taskVars, sendVars, histVars
<1>12. CASE FramesDone
  BY <1>12 DEF FramesDone, NextClient, MutexIsHeld, clientVars, slotVars, taskVars,
    sendVars, histVars
<1>13. CASE ScanDone
  BY <1>13 DEF ScanDone, MutexIsHeld, clientVars, slotVars, taskVars, sendVars, histVars
<1>14. CASE TakeReply \/ DropReply
  BY <1>14 DEF TakeReply, DropReply, MutexIsHeld, clientVars, slotVars, taskVars, sendVars,
    histVars
<1>15. CASE SendNotFound
  BY <1>15 DEF SendNotFound, MutexIsHeld, clientVars, slotVars, taskVars, sendVars,
    histVars
<1>16. CASE SendFound
  BY <1>16 DEF SendFound, Found, First, Bearers, Active, MutexIsHeld, clientVars,
    slotVars, taskVars, sendVars, histVars
<1>17. CASE SendOk
  BY <1>17 DEF SendOk, SendEnd, MutexIsHeld, clientVars, slotVars, taskVars, sendVars,
    histVars
<1>18. CASE SendFails
  BY <1>18 DEF SendFails, SendEnd, CloseSlot, FreeSlot, MutexIsHeld, clientVars,
    slotVars, taskVars, sendVars, histVars
<1>19. CASE
     \/ (\E c \in Conns : Connect(c))
     \/ (\E c \in Conns, kind \in {"hello", "text", "close"}, id \in Names \cup {NoConn} : SendItem(c, kind, id))
     \/ (\E c \in Conns : Leave(c)) \/ Handshake \/ TextPushed \/ TextDropped
  <2>1. UNCHANGED <<mutex, tpc, spc>>
    BY <1>19 DEF Connect, SendItem, Leave, Handshake, TextPushed, TextDropped, AtItem,
    TakeUp, TakeText, ChatOf, clientVars, slotVars, taskVars, sendVars, histVars
  <2>2. QED  BY <2>1 DEF MutexIsHeld
<1> QED
  BY <1>1, <1>2, <1>3, <1>4, <1>5, <1>6, <1>7, <1>8, <1>9, <1>10, <1>11, <1>12, <1>13,
    <1>14, <1>15, <1>16, <1>17, <1>18, <1>19 DEF Next, Clients, Accepting, Serve, SendLock

\* Where the token is from does not change.
LEMMA AuthStays ==
    ASSUME Next
    PROVE  auth' = auth /\ Welcome' = Welcome
PROOF
<1>1. auth' = auth
  BY DEF Next, Clients, Accepting, Serve, SendLock, Connect, SendItem, Leave, Build,
    Select, Accept, Reject, AcceptNone, SkipClient, RecvClosed, RecvItems, Handshake,
    HandshakeFails, TextPushed, TextDropped, TakeText, CloseFrame, FrameRefused,
    FramesDone, ScanDone, TakeReply, DropReply, SendNotFound, SendFound, SendOk,
    SendFails, clientVars
<1>2. QED  BY <1>1 DEF Welcome

\* The types of the connections.
LEMMA ConnTypesStep ==
    ASSUME TypeOK, MutexIsHeld, ConnsApart, SendingToBearer, Next
    PROVE  ConnTypes'
PROOF
<1>a. auth' = auth  BY AuthStays
<1> USE <1>a
<1> USE SizeAssumption, ConnAssumption
<1>1. ASSUME NEW c \in Conns, Connect(c) PROVE ConnTypes'
  <2>1. Append(backlog, c) \in Seq(Conns)  BY AppendFacts DEF TypeOK, ConnTypes
  <2>2. QED  BY <1>1, <2>1 DEF Connect, TypeOK, ConnTypes, clientVars, slotVars, histVars
<1>2. ASSUME NEW c \in Conns, NEW kind \in {"hello", "text", "close"}, NEW id \in Names \cup {NoConn},
             SendItem(c, kind, id)
      PROVE  ConnTypes'
  <2>1. [kind |-> kind, id |-> id, n |-> sent[c] + 1] \in Item  BY DEF TypeOK, ConnTypes, Item
  <2>2. Append(net[c], [kind |-> kind, id |-> id, n |-> sent[c] + 1]) \in Seq(Item)
    BY <2>1, AppendFacts DEF TypeOK, ConnTypes
  <2>3. net' \in [Conns -> Seq(Item)] /\ sent' \in [Conns -> Nat]
    BY <1>2, <2>2 DEF SendItem, TypeOK, ConnTypes
  <2>4. UNCHANGED <<joined, backlog, open, fd, read, held>>  BY <1>2 DEF SendItem, histVars
  <2>5. QED  BY <2>3, <2>4 DEF TypeOK, ConnTypes
<1>3. ASSUME NEW c \in Conns, Leave(c) PROVE ConnTypes'
  BY <1>3 DEF Leave, TypeOK, ConnTypes, clientVars, slotVars, histVars
<1>4. ASSUME NEW f \in Fds, Accept(f) PROVE ConnTypes'
  <2>1. UNCHANGED <<joined, sent, open, net, read>>  BY <1>4 DEF Accept, clientVars
  <2>2. QED  BY <1>4, <2>1, AcceptFacts DEF TypeOK, ConnTypes
<1>5. CASE Reject
  <2>1. backlog \in Seq(Conns) /\ backlog # <<>> /\ net \in [Conns -> Seq(Item)]
    BY <1>5 DEF Reject, Waiting, TypeOK, ConnTypes
  <2>2. Tail(backlog) \in Seq(Conns)  BY <2>1, HeadFacts
  <2>3. net' \in [Conns -> Seq(Item)]  BY <1>5, <2>1 DEF Reject
  <2>4. UNCHANGED <<joined, sent, fd, read, held>> /\ open' \subseteq open /\ backlog' = Tail(backlog)
    BY <1>5 DEF Reject, clientVars, histVars
  <2>5. QED  BY <2>2, <2>3, <2>4 DEF TypeOK, ConnTypes
<1>6. CASE RecvClosed \/ HandshakeFails \/ CloseFrame \/ FrameRefused \/ SendFails
  <2>1. UNCHANGED <<joined, sent, backlog, held>> /\ read' \in [Conns -> Nat]
    BY <1>6, ClosingFacts, TakeUpFacts DEF TypeOK, ConnTypes
  <2>2. PICK i \in Client : Active(i) /\ CloseSlot(i)  BY <1>6, ClosingFacts
  <2>3. /\ fd' \in [Conns -> Fds \cup {NoConn}] /\ net' \in [Conns -> Seq(Item)]
        /\ open' \subseteq open
    BY <2>2, CloseFacts
  <2>4. QED  BY <2>1, <2>3 DEF TypeOK, ConnTypes
<1>7. CASE RecvItems
  <2>1. UNCHANGED <<joined, sent, open, fd, read, held, backlog>>
    BY <1>7 DEF RecvItems, clientVars, histVars
  <2>2. QED  BY <1>7, <2>1, RecvFacts DEF TypeOK, ConnTypes
<1>8. CASE Handshake
  <2>1. tpc = "frames" /\ slots[ti].rx # <<>> /\ TakeUp  BY <1>8 DEF Handshake, AtItem
  <2>2. UNCHANGED <<joined, sent, open, fd, net, held, backlog>>  BY <1>8 DEF Handshake, clientVars
  <2>3. QED  BY <2>1, <2>2, TakeUpFacts DEF TypeOK, ConnTypes
<1>9. CASE TextPushed
  <2>1. tpc = "frames" /\ slots[ti].rx # <<>> /\ TakeUp /\ TakeText  BY <1>9 DEF TextPushed, TakeText, AtItem
  <2>2. read' \in [Conns -> Nat]  BY <2>1, TakeUpFacts
  <2>3. held' \in [Chat -> SUBSET Conns]  BY <2>1, TextFacts
  <2>4. UNCHANGED <<joined, open, backlog, sent, net, fd>>
    BY <1>9 DEF TextPushed, TakeText, clientVars
  <2>5. QED  BY <2>2, <2>3, <2>4 DEF TypeOK, ConnTypes
<1>10. CASE TextDropped
  <2>1. tpc = "frames" /\ slots[ti].rx # <<>> /\ TakeUp /\ TakeText  BY <1>10 DEF TextDropped, TakeText, AtItem
  <2>2. read' \in [Conns -> Nat]  BY <2>1, TakeUpFacts
  <2>3. held' \in [Chat -> SUBSET Conns]  BY <2>1, TextFacts
  <2>4. UNCHANGED <<joined, open, backlog, sent, net, fd>>
    BY <1>10 DEF TextDropped, TakeText, clientVars
  <2>5. QED  BY <2>2, <2>3, <2>4 DEF TypeOK, ConnTypes
<1>11. CASE
     \/ Build \/ Select \/ AcceptNone \/ SkipClient \/ FramesDone \/ ScanDone \/ TakeReply \/ DropReply
     \/ SendNotFound \/ SendFound \/ SendOk
  <2>1. UNCHANGED <<joined, open, backlog, sent, net, fd, read, held>>
    BY <1>11 DEF Build, Select, AcceptNone, SkipClient, FramesDone, ScanDone, TakeReply, DropReply,
    SendNotFound, SendFound, SendOk, Active, Readable, LockToServe, NextClient, Found,
    First, Bearers, SendEnd, clientVars, slotVars, taskVars, sendVars, histVars
  <2>2. QED  BY <2>1 DEF TypeOK, ConnTypes
<1> QED
  BY <1>1, <1>2, <1>3, <1>4, <1>5, <1>6, <1>7, <1>8, <1>9, <1>10, <1>11 DEF Next, Clients, Accepting, Serve, SendLock

\* The types of the slots.
LEMMA SlotTypesStep ==
    ASSUME TypeOK, MutexIsHeld, ConnsApart, SendingToBearer, Next
    PROVE  SlotTypes'
PROOF
<1> USE SizeAssumption, ConnAssumption
<1>1. CASE Build
  <2>1. \A i \in Client : Active(i) => fd[slots[i].conn] \in Fds
    <3> SUFFICES ASSUME NEW i \in Client, Active(i) PROVE fd[slots[i].conn] \in Fds  OBVIOUS
    <3>1. slots[i] \in Slot  BY DEF TypeOK, SlotTypes
    <3>2. slots[i].conn \in Conns  BY <3>1 DEF Slot, Active
    <3>3. QED  BY <3>2 DEF TypeOK, ConnTypes, ConnsApart
  <2>2. ready' \subseteq Fds \cup {Listen}  BY <1>1, <2>1 DEF Build
  <2>3. UNCHANGED <<slots, mutex, ti>> /\ tpc' = "select"  BY <1>1 DEF Build, slotVars
  <2>4. QED  BY <2>2, <2>3 DEF TypeOK, SlotTypes
<1>2. CASE Select
  <2>1. ready' \subseteq ready /\ tpc' \in {"build", "lock"} /\ UNCHANGED <<slots, mutex, ti>>
    BY <1>2 DEF Select, slotVars
  <2>2. QED  BY <2>1 DEF TypeOK, SlotTypes
<1>3. ASSUME NEW f \in Fds, Accept(f) PROVE SlotTypes'
  <2>1. mutex' = "task" /\ tpc' = "scan" /\ ti' = 1 /\ ready' = ready  BY <1>3 DEF Accept, LockToServe
  <2>2. slots' \in [Client -> Slot]  BY <1>3, AcceptFacts
  <2>3. QED  BY <2>1, <2>2 DEF TypeOK, SlotTypes
<1>4. CASE Reject
  <2>1. mutex' = "task" /\ tpc' = "scan" /\ ti' = 1 /\ ready' = ready /\ slots' = slots
    BY <1>4 DEF Reject, LockToServe, slotVars
  <2>2. QED  BY <2>1 DEF TypeOK, SlotTypes
<1>5. CASE AcceptNone
  <2>1. mutex' = "task" /\ tpc' = "scan" /\ ti' = 1 /\ ready' = ready /\ slots' = slots
    BY <1>5 DEF AcceptNone, LockToServe, slotVars
  <2>2. QED  BY <2>1 DEF TypeOK, SlotTypes
<1>6. CASE SkipClient
  <2>1. ti \in Client /\ tpc' = "scan" /\ ti' = ti + 1 /\ UNCHANGED <<slots, mutex, ready>>
    BY <1>6 DEF SkipClient, NextClient, slotVars
  <2>2. ti + 1 \in 1 .. MaxClients + 1  BY <2>1 DEF Client
  <2>3. QED  BY <2>1, <2>2 DEF TypeOK, SlotTypes
<1>7. CASE RecvClosed \/ HandshakeFails \/ CloseFrame \/ FrameRefused
  <2>1. PICK i \in Client : Active(i) /\ CloseSlot(i)  BY <1>7, ClosingFacts
  <2>2. slots' \in [Client -> Slot]  BY <2>1, CloseFacts
  <2>3. ti \in Client
    BY <1>7, ServedFacts DEF RecvClosed, HandshakeFails, CloseFrame, FrameRefused, Serving, AtItem
  <2>4. tpc' = "scan" /\ ti' = ti + 1 /\ ready' = ready /\ mutex' = mutex
    BY <1>7 DEF RecvClosed, HandshakeFails, CloseFrame, FrameRefused, NextClient
  <2>5. ti + 1 \in 1 .. MaxClients + 1  BY <2>3 DEF Client
  <2>6. QED  BY <2>2, <2>4, <2>5 DEF TypeOK, SlotTypes
<1>8. CASE RecvItems
  <2>1. tpc' = "frames" /\ UNCHANGED <<mutex, ready, ti>>  BY <1>8 DEF RecvItems
  <2>2. ti \in Client /\ slots' \in [Client -> Slot] /\ Active(ti)'  BY <1>8, <2>1, RecvFacts DEF Active
  <2>3. QED  BY <2>1, <2>2 DEF TypeOK, SlotTypes
<1>9. CASE Handshake
  <2>1. tpc = "frames" /\ UNCHANGED <<mutex, tpc, ready, ti>>  BY <1>9 DEF Handshake, AtItem, taskVars
  <2>2. ti \in Client /\ Active(ti)  BY <2>1, ServedFacts
  <2>3. slots' \in [Client -> Slot] /\ Active(ti)'
    BY <1>9, <2>1, <2>2, HandshakeFacts DEF Active
  <2>4. QED  BY <2>1, <2>2, <2>3 DEF TypeOK, SlotTypes
<1>10. CASE TextPushed
  <2>1. tpc = "frames" /\ TakeText /\ UNCHANGED <<mutex, tpc, ready, ti>>  BY <1>10 DEF TextPushed, TakeText, AtItem
  <2>2. ti \in Client /\ Active(ti)  BY <2>1, ServedFacts
  <2>3. slots' \in [Client -> Slot] /\ Active(ti)'  BY <2>1, <2>2, TextFacts DEF Active
  <2>4. QED  BY <2>1, <2>2, <2>3 DEF TypeOK, SlotTypes
<1>11. CASE TextDropped
  <2>1. tpc = "frames" /\ TakeText /\ UNCHANGED <<mutex, tpc, ready, ti>>  BY <1>11 DEF TextDropped, TakeText, AtItem
  <2>2. ti \in Client /\ Active(ti)  BY <2>1, ServedFacts
  <2>3. slots' \in [Client -> Slot] /\ Active(ti)'  BY <2>1, <2>2, TextFacts DEF Active
  <2>4. QED  BY <2>1, <2>2, <2>3 DEF TypeOK, SlotTypes
<1>12. CASE FramesDone
  <2>1. ti \in Client /\ tpc' = "scan" /\ ti' = ti + 1 /\ UNCHANGED <<slots, mutex, ready>>
    BY <1>12, ServedFacts DEF FramesDone, NextClient, slotVars
  <2>2. ti + 1 \in 1 .. MaxClients + 1  BY <2>1 DEF Client
  <2>3. QED  BY <2>1, <2>2 DEF TypeOK, SlotTypes
<1>13. CASE ScanDone
  <2>1. mutex' = "free" /\ tpc' = "build" /\ UNCHANGED <<slots, ready, ti>>  BY <1>13 DEF ScanDone, slotVars
  <2>2. QED  BY <2>1 DEF TypeOK, SlotTypes
<1>14. CASE SendFound
  <2>1. mutex' = "send" /\ UNCHANGED <<slots, tpc, ready, ti>>  BY <1>14 DEF SendFound, slotVars, taskVars
  <2>2. QED  BY <2>1 DEF TypeOK, SlotTypes, Active
<1>15. CASE SendOk
  <2>1. mutex' = "free" /\ UNCHANGED <<slots, tpc, ready, ti>>  BY <1>15 DEF SendOk, SendEnd, slotVars, taskVars
  <2>2. QED  BY <2>1 DEF TypeOK, SlotTypes, Active
<1>16. CASE SendFails
  <2>1. /\ UNCHANGED <<tpc, ready, ti>> /\ mutex' = "free" /\ si \in Client
        /\ Active(si) /\ CloseSlot(si) /\ spc = "send"
    BY <1>16 DEF SendFails, SendEnd, taskVars, TypeOK, SendTypes, SendingToBearer
  <2>2. slots' \in [Client -> Slot]  BY <2>1, CloseFacts
  <2>3. tpc # "frames"  BY <2>1 DEF MutexIsHeld
  <2>4. QED  BY <2>1, <2>2, <2>3 DEF TypeOK, SlotTypes
<1>17. CASE
     \/ (\E c \in Conns : Connect(c))
     \/ (\E c \in Conns, kind \in {"hello", "text", "close"}, id \in Names \cup {NoConn} : SendItem(c, kind, id))
     \/ (\E c \in Conns : Leave(c)) \/ TakeReply \/ DropReply \/ SendNotFound
  <2>1. UNCHANGED <<slots, mutex, tpc, ready, ti>>
    BY <1>17 DEF Connect, SendItem, Leave, TakeReply, DropReply, SendNotFound, clientVars,
    slotVars, taskVars, sendVars, histVars
  <2>2. QED  BY <2>1 DEF TypeOK, SlotTypes, Active
<1> QED
  BY <1>1, <1>2, <1>3, <1>4, <1>5, <1>6, <1>7, <1>8, <1>9, <1>10, <1>11, <1>12, <1>13,
    <1>14, <1>15, <1>16, <1>17 DEF Next, Clients, Accepting, Serve, SendLock

\* The types of the messages.
LEMMA SendTypesStep ==
    ASSUME TypeOK, MutexIsHeld, ConnsApart, SendingToBearer, Next
    PROVE  SendTypes'
PROOF
<1> USE SizeAssumption, ConnAssumption
<1>1. CASE TextPushed
  <2>1. tpc = "frames" /\ TakeText /\ UNCHANGED <<spc, out, si, got>>
    BY <1>1 DEF TextPushed, TakeText, AtItem, sendVars
  <2>2. ti \in Client /\ slots[ti].conn \in Conns /\ ChatOf(ti) \in Chat
    BY <2>1, ServedFacts, TextFacts
  <2>3. [from |-> slots[ti].conn, chat |-> ChatOf(ti)] \in Msg  BY <2>2 DEF Msg
  <2>4. inq' \in Seq(Msg) /\ Len(inq') =< QueueLen
    BY <1>1, <2>3, AppendFacts DEF TextPushed, TypeOK, SendTypes
  <2>5. QED  BY <2>1, <2>4 DEF TypeOK, SendTypes
<1>2. CASE TakeReply
  <2>1. inq \in Seq(Msg) /\ inq # <<>> /\ Len(inq) =< QueueLen
    BY <1>2 DEF TakeReply, TypeOK, SendTypes
  <2>2. Head(inq) \in Msg /\ Tail(inq) \in Seq(Msg) /\ Len(Tail(inq)) =< QueueLen
    BY <2>1, HeadFacts
  <2>3. inq' = Tail(inq) /\ out' = Head(inq) /\ spc' = "lock" /\ UNCHANGED <<si, got>>
    BY <1>2 DEF TakeReply, histVars
  <2>4. QED  BY <2>2, <2>3 DEF TypeOK, SendTypes
<1>a. CASE DropReply
  <2>1. inq' = Tail(inq) /\ UNCHANGED <<spc, out, si, got>> /\ inq # <<>>
    BY <1>a DEF DropReply, sendVars, histVars
  <2>2. inq' \in Seq(Msg) /\ Len(inq') =< QueueLen
    BY <2>1, HeadFacts DEF TypeOK, SendTypes
  <2>3. QED  BY <2>1, <2>2 DEF TypeOK, SendTypes
<1>3. CASE SendNotFound
  BY <1>3 DEF SendNotFound, histVars, TypeOK, SendTypes
<1>4. CASE SendFound
  BY <1>4 DEF SendFound, histVars, TypeOK, SendTypes
<1>5. CASE SendOk
  <2>1. out \in Msg  BY <1>5 DEF SendOk, SendEnd, SendingToBearer
  <2>2. got' = [got EXCEPT ![slots[si].conn] = got[slots[si].conn] \cup {out}]
    BY <1>5 DEF SendOk, TypeOK, SendTypes
  <2>3. spc' = "idle" /\ out' = NoMsg /\ UNCHANGED <<inq, si>>  BY <1>5 DEF SendOk, SendEnd
  <2>4. got' \in [Conns -> SUBSET Msg]  BY <2>1, <2>2 DEF TypeOK, SendTypes
  <2>5. QED  BY <2>3, <2>4 DEF TypeOK, SendTypes
<1>6. CASE SendFails
  BY <1>6 DEF SendFails, SendEnd, histVars, TypeOK, SendTypes
<1>7. CASE
     \/ (\E c \in Conns : Connect(c))
     \/ (\E c \in Conns, kind \in {"hello", "text", "close"}, id \in Names \cup {NoConn} : SendItem(c, kind, id))
     \/ (\E c \in Conns : Leave(c)) \/ Build \/ Select \/ (\E f \in Fds : Accept(f))
     \/ Reject \/ AcceptNone \/ SkipClient \/ RecvClosed \/ RecvItems \/ Handshake
     \/ HandshakeFails \/ TextDropped \/ CloseFrame \/ FrameRefused \/ FramesDone
     \/ ScanDone
  <2>1. UNCHANGED <<inq, spc, out, si, got>>
    BY <1>7 DEF Connect, SendItem, Leave, Build, Select, Accept, Reject, AcceptNone,
    SkipClient, RecvClosed, RecvItems, Handshake, HandshakeFails, TextDropped,
    CloseFrame, FrameRefused, FramesDone, ScanDone, Active, Readable, LockToServe,
    Waiting, First, FreeSlots, FreeSlot, NextClient, Serving, CloseSlot, AtItem, TakeUp,
    TakeText, ChatOf, clientVars, slotVars, taskVars, sendVars, histVars
  <2>2. QED  BY <2>1 DEF TypeOK, SendTypes
<1> QED
  BY <1>1, <1>2, <1>a, <1>3, <1>4, <1>5, <1>6, <1>7 DEF Next, Clients, Accepting, Serve, SendLock

\* Closing a slot leaves the others apart.
LEMMA CloseKeepsApart ==
    ASSUME TypeOK, ConnsApart, NEW i \in Client, Active(i), ~Active(i)',
           UNCHANGED <<joined, backlog, held>>,
           \A j \in Client : j # i => slots'[j] = slots[j],
           \A d \in Conns : d # slots[i].conn => fd'[d] = fd[d]
    PROVE  ConnsApart'
PROOF
  <1>1. \A j \in Client : Active(j)' => j # i /\ slots'[j] = slots[j] /\ Active(j)
    BY DEF Active
  <1>2. \A j \in Client : Active(j)' => slots[j].conn # slots[i].conn
    BY <1>1 DEF ConnsApart
  <1>3. \A j \in Client : Active(j) => slots[j].conn \in Conns
    BY DEF TypeOK, ConnTypes, ConnsApart
  <1>4. \A j \in Client : Active(j)' => fd'[slots'[j].conn] = fd[slots[j].conn]
    BY <1>1, <1>2, <1>3
  <1>5. QED  BY <1>1, <1>4 DEF ConnsApart, Active

\* Connections stay apart.
LEMMA ConnsApartStep ==
    ASSUME TypeOK, MutexIsHeld, ConnsApart, SendingToBearer, Next
    PROVE  ConnsApart'
PROOF
<1>1. ASSUME NEW c \in Conns, Connect(c) PROVE ConnsApart'
  <2>1. UNCHANGED <<slots, fd, held>> /\ joined' = joined \cup {c} /\ c \notin joined
    BY <1>1 DEF Connect, histVars
  <2>2. backlog \in Seq(Conns) /\ backlog' = Append(backlog, c)  BY <1>1 DEF Connect, TypeOK, ConnTypes
  <2>3. /\ Len(backlog') = Len(backlog) + 1 /\ backlog'[Len(backlog) + 1] = c /\ Len(backlog) \in Nat
        /\ \A k \in 1 .. Len(backlog) : backlog'[k] = backlog[k]
    BY <2>2, AppendFacts
  <2>4. \A k \in 1 .. Len(backlog') : \/ k \in 1 .. Len(backlog) /\ backlog'[k] \in joined
                                      \/ k = Len(backlog) + 1 /\ backlog'[k] = c
    BY <2>3 DEF ConnsApart
  <2>5. \A k \in 1 .. Len(backlog') : backlog'[k] \in joined'  BY <2>1, <2>4
  <2>6. \A k, l \in 1 .. Len(backlog') : backlog'[k] = backlog'[l] => k = l
    BY <2>1, <2>3, <2>4 DEF ConnsApart
  <2>7. \A i \in Client : Active(i) => slots[i].conn \in joined
           /\ \A k \in 1 .. Len(backlog') : backlog'[k] # slots[i].conn
    BY <2>1, <2>3, <2>4 DEF ConnsApart
  <2>8. QED  BY <2>1, <2>5, <2>6, <2>7 DEF ConnsApart, Active
<1>2. ASSUME NEW f \in Fds, Accept(f) PROVE ConnsApart'
  <2> DEFINE c == Head(backlog)
  <2>1. joined' = joined  BY <1>2 DEF Accept, clientVars
  <2>2. PICK i \in Client :
           /\ ~Active(i) /\ slots' \in [Client -> Slot]
           /\ slots'[i].conn = c /\ slots'[i].chat = f
           /\ \A j \in Client : j # i => slots'[j] = slots[j]
    BY <1>2, AcceptFacts
  <2>3. /\ c \in Conns /\ c = backlog[1] /\ 1 \in 1 .. Len(backlog)
        /\ Len(backlog') = Len(backlog) - 1
        /\ \A k \in 1 .. Len(backlog') : k + 1 \in 1 .. Len(backlog) /\ backlog'[k] = backlog[k + 1]
        /\ fd'[c] = f /\ \A d \in Conns : d # c => fd'[d] = fd[d]
        /\ c \in held'[f] /\ \A x \in Chat : held[x] \subseteq held'[x]
    BY <1>2, AcceptFacts
  <2> HIDE DEF c
  <2>4. c \in joined /\ f # NoConn  BY <2>3, ConnAssumption DEF ConnsApart
  <2>5. \A k \in 1 .. Len(backlog') : backlog'[k] \in joined /\ backlog'[k] # c
    BY <2>3 DEF ConnsApart
  <2>6. \A k, l \in 1 .. Len(backlog') : backlog'[k] = backlog'[l] => k = l
    <3> SUFFICES ASSUME NEW k \in 1 .. Len(backlog'), NEW l \in 1 .. Len(backlog'),
                        backlog'[k] = backlog'[l]
                 PROVE  k = l
      OBVIOUS
    <3>1. k + 1 = l + 1  BY <2>3 DEF ConnsApart
    <3>2. QED  BY <3>1
  <2>7. \A j \in Client : j # i => (Active(j)' <=> Active(j))  BY <2>2 DEF Active
  <2>8. \A j \in Client : Active(j) => slots[j].conn # c /\ slots[j].conn \in Conns /\ slots[j].chat \in Chat
    BY <2>3 DEF TypeOK, ConnTypes, SlotTypes, Slot, ConnsApart
  <2>9. \A j \in Client : j # i /\ Active(j)' =>
           /\ slots'[j].conn \in joined /\ fd'[slots'[j].conn] # NoConn
           /\ slots'[j].conn \in held'[slots'[j].chat] /\ slots'[j].chat # NoConn
           /\ \A k \in 1 .. Len(backlog') : backlog'[k] # slots'[j].conn
    BY <2>2, <2>3, <2>7, <2>8 DEF ConnsApart
  <2>10. /\ slots'[i].conn \in joined /\ fd'[slots'[i].conn] # NoConn
         /\ slots'[i].conn \in held'[slots'[i].chat] /\ slots'[i].chat # NoConn
         /\ \A k \in 1 .. Len(backlog') : backlog'[k] # slots'[i].conn
    BY <2>2, <2>3, <2>4, <2>5
  <2>11. \A j, l \in Client : Active(j)' /\ slots'[j].conn = slots'[l].conn => j = l
    <3> SUFFICES ASSUME NEW j \in Client, NEW l \in Client, Active(j)', slots'[j].conn = slots'[l].conn
                 PROVE  j = l
      OBVIOUS
    <3>1. Active(l)'  BY DEF Active
    <3>2. CASE j = i \/ l = i  BY <2>2, <2>7, <2>8, <3>1, <3>2
    <3>3. CASE j # i /\ l # i  BY <2>2, <2>7, <3>3 DEF ConnsApart
    <3>4. QED  BY <3>2, <3>3
  <2>12. QED  BY <2>1, <2>5, <2>6, <2>9, <2>10, <2>11 DEF ConnsApart
<1>3. CASE Reject
  <2>1. UNCHANGED <<joined, slots, fd, held>> /\ backlog' = Tail(backlog) /\ backlog # <<>>
    BY <1>3 DEF Reject, Waiting, clientVars, histVars
  <2>2. /\ Len(backlog') = Len(backlog) - 1
        /\ \A k \in 1 .. Len(backlog') : k + 1 \in 1 .. Len(backlog) /\ backlog'[k] = backlog[k + 1]
    BY <2>1, HeadFacts DEF TypeOK, ConnTypes
  <2>3. \A k, l \in 1 .. Len(backlog') : backlog'[k] = backlog'[l] => k = l
    <3> SUFFICES ASSUME NEW k \in 1 .. Len(backlog'), NEW l \in 1 .. Len(backlog'),
                        backlog'[k] = backlog'[l]
                 PROVE  k = l
      OBVIOUS
    <3>1. k + 1 = l + 1  BY <2>2 DEF ConnsApart
    <3>2. QED  BY <3>1
  <2>4. \A k \in 1 .. Len(backlog') : backlog'[k] \in joined  BY <2>2 DEF ConnsApart
  <2>5. \A i \in Client : Active(i) => \A k \in 1 .. Len(backlog') : backlog'[k] # slots[i].conn
    BY <2>2 DEF ConnsApart
  <2>6. QED  BY <2>1, <2>3, <2>4, <2>5 DEF ConnsApart, Active
<1>4. CASE RecvClosed \/ HandshakeFails \/ CloseFrame \/ FrameRefused \/ SendFails
  <2>1. PICK i \in Client : Active(i) /\ CloseSlot(i)  BY <1>4, ClosingFacts
  <2>2. UNCHANGED <<joined, backlog, held>>  BY <1>4, ClosingFacts
  <2>3. /\ ~Active(i)' /\ \A j \in Client : j # i => slots'[j] = slots[j]
        /\ \A d \in Conns : d # slots[i].conn => fd'[d] = fd[d]
    BY <2>1, CloseFacts
  <2>4. QED  BY <2>1, <2>2, <2>3, CloseKeepsApart
<1>5. CASE RecvItems
  <2>1. UNCHANGED <<joined, backlog, fd, held>>  BY <1>5 DEF RecvItems, clientVars, histVars
  <2>2. \A j \in Client : slots'[j].conn = slots[j].conn /\ slots'[j].chat = slots[j].chat
    BY <1>5, RecvFacts
  <2>3. QED  BY <2>1, <2>2 DEF ConnsApart, Active
<1>6. CASE Handshake
  <2>1. UNCHANGED <<joined, backlog, fd, held>>  BY <1>6 DEF Handshake, clientVars, histVars
  <2>2. \A j \in Client : slots'[j].conn = slots[j].conn /\ slots'[j].chat = slots[j].chat
    BY <1>6, HandshakeFacts
  <2>3. QED  BY <2>1, <2>2 DEF ConnsApart, Active
<1>7. CASE TextPushed
  <2>1. TakeText /\ UNCHANGED <<joined, backlog, fd>> /\ tpc = "frames"
    BY <1>7 DEF TextPushed, TakeText, AtItem, clientVars
  <2>2. ti \in Client /\ Active(ti)  BY <2>1, ServedFacts
  <2>3. \A j \in Client : slots'[j].conn = slots[j].conn  BY <2>1, TextFacts
  <2>4. /\ slots[ti].conn \in held'[slots'[ti].chat] /\ slots'[ti].chat \in Chat
        /\ \A j \in Client : j # ti => slots'[j] = slots[j]
        /\ \A x \in Chat : held[x] \subseteq held'[x]
    BY <2>1, TextFacts
  <2>5. \A j \in Client : Active(j) => slots[j].chat \in Chat
    BY DEF TypeOK, SlotTypes, Slot, ConnsApart
  <2>6. \A j \in Client : Active(j) =>
           slots'[j].conn \in held'[slots'[j].chat] /\ slots'[j].chat # NoConn
    BY <2>2, <2>3, <2>4, <2>5, ConnAssumption DEF ConnsApart, Chat
  <2>7. QED  BY <2>1, <2>3, <2>6 DEF ConnsApart, Active
<1>8. CASE TextDropped
  <2>1. TakeText /\ UNCHANGED <<joined, backlog, fd>> /\ tpc = "frames"
    BY <1>8 DEF TextDropped, TakeText, AtItem, clientVars
  <2>2. ti \in Client /\ Active(ti)  BY <2>1, ServedFacts
  <2>3. \A j \in Client : slots'[j].conn = slots[j].conn  BY <2>1, TextFacts
  <2>4. /\ slots[ti].conn \in held'[slots'[ti].chat] /\ slots'[ti].chat \in Chat
        /\ \A j \in Client : j # ti => slots'[j] = slots[j]
        /\ \A x \in Chat : held[x] \subseteq held'[x]
    BY <2>1, TextFacts
  <2>5. \A j \in Client : Active(j) => slots[j].chat \in Chat
    BY DEF TypeOK, SlotTypes, Slot, ConnsApart
  <2>6. \A j \in Client : Active(j) =>
           slots'[j].conn \in held'[slots'[j].chat] /\ slots'[j].chat # NoConn
    BY <2>2, <2>3, <2>4, <2>5, ConnAssumption DEF ConnsApart, Chat
  <2>7. QED  BY <2>1, <2>3, <2>6 DEF ConnsApart, Active
<1>9. CASE

     \/ (\E c \in Conns, kind \in {"hello", "text", "close"}, id \in Names \cup {NoConn} : SendItem(c, kind, id))
     \/ (\E c \in Conns : Leave(c)) \/ Build \/ Select \/ AcceptNone \/ SkipClient
     \/ FramesDone \/ ScanDone \/ TakeReply \/ DropReply \/ SendNotFound \/ SendFound \/ SendOk
  <2>1. UNCHANGED <<backlog, joined, slots, fd, held>>
    BY <1>9 DEF SendItem, Leave, Build, Select, AcceptNone, SkipClient, FramesDone,
    ScanDone, TakeReply, DropReply, SendNotFound, SendFound, SendOk, Active, Readable, LockToServe,
    NextClient, Found, First, Bearers, SendEnd, clientVars, slotVars, taskVars,
    sendVars, histVars
  <2>2. QED  BY <2>1 DEF ConnsApart, Active
<1> QED
  BY <1>1, <1>2, <1>3, <1>4, <1>5, <1>6, <1>7, <1>8, <1>9 DEF Next, Clients, Accepting, Serve, SendLock

\* An item sent keeps the order.
LEMMA OrderSent ==
    ASSUME NEW rx \in Seq(Item), NEW t \in Seq(Item), NEW r \in Nat, NEW n \in Nat,
           InOrder(rx, t, r, n), NEW item \in Item, item.n = n + 1
    PROVE  InOrder(rx, Append(t, item), r, n + 1)
PROOF
  <1>1. /\ Len(Append(t, item)) = Len(t) + 1 /\ Append(t, item)[Len(t) + 1] = item
        /\ \A k \in 1 .. Len(t) : Append(t, item)[k] = t[k]
    BY AppendFacts
  <1>2. Len(rx) \in Nat /\ Len(t) \in Nat  OBVIOUS
  <1>3. /\ Len(rx) + Len(t) + r = n
        /\ \A k \in 1 .. Len(rx) : rx[k].n = r + k
        /\ \A k \in 1 .. Len(t) : t[k].n = r + Len(rx) + k
    BY DEF InOrder
  <1> DEFINE more == Append(t, item)
  <1> HIDE DEF more
  <1>4. Len(rx) + Len(more) + r = n + 1
    <2>1. Len(more) = Len(t) + 1 /\ Len(rx) + Len(t) + r = n  BY <1>1, <1>3 DEF more
    <2>2. QED  BY <1>2, <2>1
  <1>5. \A k \in 1 .. Len(more) : more[k].n = r + Len(rx) + k
    <2> SUFFICES ASSUME NEW k \in 1 .. Len(more) PROVE more[k].n = r + Len(rx) + k  OBVIOUS
    <2>1. Len(more) = Len(t) + 1 /\ Len(rx) + Len(t) + r = n  BY <1>1, <1>3 DEF more
    <2>2. CASE k = Len(t) + 1
      <3>1. more[k] = item  BY <1>1, <2>2 DEF more
      <3>2. QED  BY <1>2, <2>1, <2>2, <3>1
    <2>3. CASE k \in 1 .. Len(t)
      <3>1. more[k] = t[k]  BY <1>1, <2>3 DEF more
      <3>2. QED  BY <1>3, <2>3, <3>1
    <2>4. QED  BY <1>2, <2>1, <2>2, <2>3
  <1>6. QED  BY <1>3, <1>4, <1>5 DEF InOrder, more

\* What is received keeps the order.
LEMMA OrderReceived ==
    ASSUME NEW rx \in Seq(Item), NEW t \in Seq(Item), NEW r \in Nat, NEW n \in Nat,
           InOrder(rx, t, r, n), NEW k \in 1 .. Len(t)
    PROVE  InOrder(rx \o SubSeq(t, 1, k), SubSeq(t, k + 1, Len(t)), r, n)
PROOF
  <1> DEFINE more == rx \o SubSeq(t, 1, k)
             rest == SubSeq(t, k + 1, Len(t))
  <1>1. /\ Len(more) = Len(rx) + k
        /\ \A i \in 1 .. Len(rx) : more[i] = rx[i]
        /\ \A i \in Len(rx) + 1 .. Len(rx) + k : i - Len(rx) \in 1 .. Len(t) /\ more[i] = t[i - Len(rx)]
        /\ Len(rest) = Len(t) - k
        /\ \A i \in 1 .. Len(t) - k : k + i \in 1 .. Len(t) /\ rest[i] = t[k + i]
    BY SplitFacts
  <1>2. Len(rx) \in Nat /\ Len(t) \in Nat /\ k \in Nat  OBVIOUS
  <1>3. /\ Len(rx) + Len(t) + r = n
        /\ \A i \in 1 .. Len(rx) : rx[i].n = r + i
        /\ \A i \in 1 .. Len(t) : t[i].n = r + Len(rx) + i
    BY DEF InOrder
  <1> HIDE DEF more, rest
  <1>4. Len(more) + Len(rest) + r = n
    <2>1. Len(more) = Len(rx) + k /\ Len(rest) = Len(t) - k  BY <1>1
    <2>2. Len(rx) + Len(t) + r = n  BY <1>3
    <2>3. QED  BY <1>2, <2>1, <2>2
  <1>5. \A i \in 1 .. Len(more) : more[i].n = r + i
    <2> SUFFICES ASSUME NEW i \in 1 .. Len(more) PROVE more[i].n = r + i  OBVIOUS
    <2>1. CASE i \in 1 .. Len(rx)  BY <1>1, <1>3, <2>1
    <2>2. CASE i \in Len(rx) + 1 .. Len(rx) + k
      <3>1. i - Len(rx) \in 1 .. Len(t) /\ more[i] = t[i - Len(rx)]  BY <1>1, <2>2
      <3>2. t[i - Len(rx)].n = r + Len(rx) + (i - Len(rx))  BY <1>3, <3>1
      <3>3. QED  BY <1>2, <3>1, <3>2
    <2>3. QED  BY <1>1, <1>2, <2>1, <2>2
  <1>6. \A i \in 1 .. Len(rest) : rest[i].n = r + Len(more) + i
    <2> SUFFICES ASSUME NEW i \in 1 .. Len(rest) PROVE rest[i].n = r + Len(more) + i  OBVIOUS
    <2>1. k + i \in 1 .. Len(t) /\ rest[i] = t[k + i]  BY <1>1
    <2>2. t[k + i].n = r + Len(rx) + (k + i)  BY <1>3, <2>1
    <2>3. QED  BY <1>1, <1>2, <2>1, <2>2
  <1>7. QED  BY <1>4, <1>5, <1>6 DEF InOrder, more, rest

\* What is taken up keeps the order.
LEMMA OrderTaken ==
    ASSUME NEW rx \in Seq(Item), NEW t \in Seq(Item), NEW r \in Nat, NEW n \in Nat,
           InOrder(rx, t, r, n), rx # <<>>
    PROVE  InOrder(Tail(rx), t, rx[1].n, n)
PROOF
  <1>1. /\ Len(rx) > 0 /\ Tail(rx) \in Seq(Item) /\ Len(Tail(rx)) = Len(rx) - 1
        /\ \A k \in 1 .. Len(Tail(rx)) : k + 1 \in 1 .. Len(rx) /\ Tail(rx)[k] = rx[k + 1]
    BY HeadFacts
  <1>2. Len(rx) \in Nat /\ Len(t) \in Nat  OBVIOUS
  <1>3. /\ Len(rx) + Len(t) + r = n
        /\ \A k \in 1 .. Len(rx) : rx[k].n = r + k
        /\ \A k \in 1 .. Len(t) : t[k].n = r + Len(rx) + k
    BY DEF InOrder
  <1>4. rx[1].n = r + 1  BY <1>1, <1>2, <1>3
  <1> DEFINE rest == Tail(rx)
  <1> HIDE DEF rest
  <1>5. Len(rest) + Len(t) + (r + 1) = n  BY <1>1, <1>2, <1>3 DEF rest
  <1>6. \A k \in 1 .. Len(rest) : rest[k].n = (r + 1) + k
    <2> SUFFICES ASSUME NEW k \in 1 .. Len(rest) PROVE rest[k].n = (r + 1) + k  OBVIOUS
    <2>1. k + 1 \in 1 .. Len(rx) /\ rest[k] = rx[k + 1]  BY <1>1 DEF rest
    <2>2. rx[k + 1].n = r + (k + 1)  BY <1>3, <2>1
    <2>3. QED  BY <1>1, <1>2, <2>1, <2>2 DEF rest
  <1>7. \A k \in 1 .. Len(t) : t[k].n = (r + 1) + Len(rest) + k
    <2> SUFFICES ASSUME NEW k \in 1 .. Len(t) PROVE t[k].n = (r + 1) + Len(rest) + k  OBVIOUS
    <2>1. t[k].n = r + Len(rx) + k /\ k \in Int  BY <1>3
    <2>2. Len(rest) = Len(rx) - 1  BY <1>1 DEF rest
    <2>3. QED  BY <1>2, <2>1, <2>2
  <1>8. QED  BY <1>4, <1>5, <1>6, <1>7 DEF InOrder, rest

\* What SendItem does to one connection.
LEMMA SendItemFacts ==
    ASSUME TypeOK, NEW c \in Conns, NEW kind \in {"hello", "text", "close"},
           NEW id \in Names \cup {NoConn}, SendItem(c, kind, id)
    PROVE  /\ UNCHANGED <<joined, backlog, slots, read>>
           /\ \A d \in Conns : d # c => net'[d] = net[d] /\ sent'[d] = sent[d]
           /\ \A rx \in Seq(Item) :
                 InOrder(rx, net[c], read[c], sent[c]) => InOrder(rx, net'[c], read[c], sent'[c])
PROOF
  <1>1. UNCHANGED <<joined, backlog, slots, read>> /\ sent' = [sent EXCEPT ![c] = sent[c] + 1]
    BY DEF SendItem, histVars, TypeOK, ConnTypes
  <1>2. net' = [net EXCEPT ![c] = Append(net[c], [kind |-> kind, id |-> id, n |-> sent[c] + 1])]
    BY DEF SendItem, TypeOK, ConnTypes
  <1> DEFINE item == [kind |-> kind, id |-> id, n |-> sent[c] + 1]
  <1>3. /\ sent \in [Conns -> Nat] /\ net \in [Conns -> Seq(Item)] /\ read \in [Conns -> Nat]
    BY DEF TypeOK, ConnTypes
  <1>4. item \in Item /\ item.n = sent[c] + 1  BY <1>3 DEF Item
  <1> HIDE DEF item
  <1>5. net'[c] = Append(net[c], item) /\ sent'[c] = sent[c] + 1  BY <1>1, <1>2, <1>3 DEF item
  <1>6. \A d \in Conns : d # c => net'[d] = net[d] /\ sent'[d] = sent[d]  BY <1>1, <1>2, <1>3
  <1>7. SUFFICES ASSUME NEW rx \in Seq(Item), InOrder(rx, net[c], read[c], sent[c])
                 PROVE  InOrder(rx, net'[c], read[c], sent'[c])
    BY <1>1, <1>6
  <1>8. QED  BY <1>3, <1>4, <1>5, <1>7, OrderSent

\* A step that touches one slot only leaves the unread connections alone.
LEMMA ServingKeepsUnread ==
    ASSUME ConnsApart, NothingReadYet, NEW i \in Client, Active(i),
           UNCHANGED <<joined, backlog, sent>>,
           \A d \in Conns : d # slots[i].conn => net'[d] = net[d] /\ read'[d] = read[d]
    PROVE  NothingReadYet'
PROOF
  <1>1. slots[i].conn \in joined /\ \A k \in 1 .. Len(backlog) : backlog[k] # slots[i].conn
    BY DEF ConnsApart
  <1>2. SUFFICES ASSUME NEW c \in Conns,
                        c \notin joined \/ (\E k \in 1 .. Len(backlog) : backlog[k] = c)
                 PROVE  read'[c] = 0 /\ InOrder(<<>>, net'[c], read'[c], sent'[c])
    BY DEF NothingReadYet
  <1>3. net'[c] = net[c] /\ read'[c] = read[c]  BY <1>1, <1>2
  <1>4. QED  BY <1>2, <1>3 DEF NothingReadYet

\* Nothing of a waiting connection is read.
LEMMA NothingReadYetStep ==
    ASSUME TypeOK, MutexIsHeld, ConnsApart, SendingToBearer, NothingReadYet, Next
    PROVE  NothingReadYet'
PROOF
<1>1. ASSUME NEW c \in Conns, Connect(c) PROVE NothingReadYet'
  <2>1. UNCHANGED <<read, sent, net>> /\ joined' = joined \cup {c} /\ c \notin joined
    BY <1>1 DEF Connect, slotVars, histVars
  <2>2. backlog \in Seq(Conns) /\ backlog' = Append(backlog, c)  BY <1>1 DEF Connect, TypeOK, ConnTypes
  <2>3. /\ Len(backlog') = Len(backlog) + 1 /\ backlog'[Len(backlog) + 1] = c /\ Len(backlog) \in Nat
        /\ \A k \in 1 .. Len(backlog) : backlog'[k] = backlog[k]
    BY <2>2, AppendFacts
  <2>4. \A d \in Conns : d \notin joined' \/ (\E k \in 1 .. Len(backlog') : backlog'[k] = d) =>
           d \notin joined \/ (\E k \in 1 .. Len(backlog) : backlog[k] = d)
    BY <2>1, <2>3
  <2>5. QED  BY <2>1, <2>4 DEF NothingReadYet
<1>2. ASSUME NEW c \in Conns, NEW kind \in {"hello", "text", "close"}, NEW id \in Names \cup {NoConn},
             SendItem(c, kind, id)
      PROVE  NothingReadYet'
  <2>1. /\ UNCHANGED <<joined, backlog, read>>
        /\ \A d \in Conns : d # c => net'[d] = net[d] /\ sent'[d] = sent[d]
        /\ \A rx \in Seq(Item) :
              InOrder(rx, net[c], read[c], sent[c]) => InOrder(rx, net'[c], read[c], sent'[c])
    BY <1>2, SendItemFacts
  <2>2. <<>> \in Seq(Item)  OBVIOUS
  <2>3. QED  BY <2>1, <2>2 DEF NothingReadYet
<1>3. ASSUME NEW f \in Fds, Accept(f) PROVE NothingReadYet'
  <2>1. UNCHANGED <<joined, read, sent, net>>  BY <1>3 DEF Accept, clientVars
  <2>2. \A k \in 1 .. Len(backlog') : k + 1 \in 1 .. Len(backlog) /\ backlog'[k] = backlog[k + 1]
    BY <1>3, AcceptFacts
  <2>3. QED  BY <2>1, <2>2 DEF NothingReadYet
<1>4. CASE Reject
  <2>1. UNCHANGED <<joined, read, sent>> /\ backlog # <<>> /\ backlog' = Tail(backlog)
    BY <1>4 DEF Reject, Waiting, clientVars, histVars
  <2>2. /\ \A k \in 1 .. Len(backlog') : k + 1 \in 1 .. Len(backlog) /\ backlog'[k] = backlog[k + 1]
        /\ Head(backlog) = backlog[1] /\ 1 \in 1 .. Len(backlog)
    BY <2>1, HeadFacts DEF TypeOK, ConnTypes
  <2>3. \A k \in 1 .. Len(backlog') : backlog'[k] # Head(backlog)  BY <2>2 DEF ConnsApart
  <2>4. Head(backlog) \in joined  BY <2>2 DEF ConnsApart
  <2>5. \A d \in Conns : d # Head(backlog) => net'[d] = net[d]  BY <1>4 DEF Reject, TypeOK, ConnTypes
  <2>6. \A d \in Conns : d \notin joined \/ (\E k \in 1 .. Len(backlog') : backlog'[k] = d) =>
           /\ net'[d] = net[d]
           /\ d \notin joined \/ (\E k \in 1 .. Len(backlog) : backlog[k] = d)
    BY <2>2, <2>3, <2>4, <2>5
  <2>7. QED  BY <2>1, <2>6 DEF NothingReadYet
<1>5. CASE RecvClosed \/ HandshakeFails \/ CloseFrame \/ FrameRefused \/ SendFails
  <2>1. PICK i \in Client : Active(i) /\ CloseSlot(i) /\ (i = ti \/ read' = read)
    BY <1>5, ClosingFacts
  <2>2. UNCHANGED <<joined, sent, backlog, held, got, inq, si>>  BY <1>5, ClosingFacts
  <2>3. \A d \in Conns : d # slots[i].conn => fd'[d] = fd[d] /\ net'[d] = net[d] /\ read'[d] = read[d]
    BY <1>5, <2>1, CloseFacts, ClosingFacts, TakeUpFacts
  <2>4. ~Active(i)' /\ \A j \in Client : j # i => slots'[j] = slots[j]  BY <2>1, CloseFacts
  <2>5. QED  BY <2>1, <2>2, <2>3, ServingKeepsUnread
<1>6. CASE RecvItems
  <2>1. UNCHANGED <<joined, backlog, sent, read>>  BY <1>6 DEF RecvItems, clientVars, histVars
  <2>2. /\ ti \in Client /\ Active(ti)
        /\ \A d \in Conns : d # slots[ti].conn => net'[d] = net[d]
    BY <1>6, RecvFacts
  <2>3. QED  BY <2>1, <2>2, ServingKeepsUnread
<1>7. CASE Handshake
  <2>1. /\ ti \in Client /\ Active(ti) /\ UNCHANGED <<joined, backlog, sent, net>>
        /\ tpc = "frames" /\ slots[ti].rx # <<>> /\ TakeUp
    BY <1>7, ServedFacts DEF Handshake, TakeText, AtItem, clientVars
  <2>2. \A d \in Conns : d # slots[ti].conn => read'[d] = read[d]  BY <2>1, TakeUpFacts
  <2>3. QED  BY <2>1, <2>2, ServingKeepsUnread
<1>8. CASE TextPushed
  <2>1. /\ ti \in Client /\ Active(ti) /\ UNCHANGED <<joined, backlog, sent, net>>
        /\ tpc = "frames" /\ slots[ti].rx # <<>> /\ TakeUp
    BY <1>8, ServedFacts DEF TextPushed, TakeText, AtItem, clientVars
  <2>2. \A d \in Conns : d # slots[ti].conn => read'[d] = read[d]  BY <2>1, TakeUpFacts
  <2>3. QED  BY <2>1, <2>2, ServingKeepsUnread
<1>9. CASE TextDropped
  <2>1. /\ ti \in Client /\ Active(ti) /\ UNCHANGED <<joined, backlog, sent, net>>
        /\ tpc = "frames" /\ slots[ti].rx # <<>> /\ TakeUp
    BY <1>9, ServedFacts DEF TextDropped, TakeText, AtItem, clientVars
  <2>2. \A d \in Conns : d # slots[ti].conn => read'[d] = read[d]  BY <2>1, TakeUpFacts
  <2>3. QED  BY <2>1, <2>2, ServingKeepsUnread
<1>10. CASE
     \/ (\E c \in Conns : Leave(c)) \/ Build \/ Select \/ AcceptNone \/ SkipClient
     \/ FramesDone \/ ScanDone \/ TakeReply \/ DropReply \/ SendNotFound \/ SendFound \/ SendOk
  <2>1. UNCHANGED <<joined, backlog, read, net, sent>>
    BY <1>10 DEF Leave, Build, Select, AcceptNone, SkipClient, FramesDone, ScanDone,
    TakeReply, DropReply, SendNotFound, SendFound, SendOk, Active, Readable, LockToServe,
    NextClient, Found, First, Bearers, SendEnd, clientVars, slotVars, taskVars,
    sendVars, histVars
  <2>2. QED  BY <2>1 DEF NothingReadYet
<1> QED
  BY <1>1, <1>2, <1>3, <1>4, <1>5, <1>6, <1>7, <1>8, <1>9, <1>10 DEF Next, Clients, Accepting, Serve, SendLock

\* A step that touches one slot only, and keeps its order, keeps all.
LEMMA ServingKeepsOrder ==
    ASSUME TypeOK, ConnsApart, RestInOrder, NEW i \in Client, UNCHANGED sent,
           Active(i) => slots[i].conn = slots'[i].conn,
           \A j \in Client : j # i => slots'[j] = slots[j] /\ slots'[j].conn # slots'[i].conn,
           \A d \in Conns : d # slots'[i].conn => net'[d] = net[d] /\ read'[d] = read[d],
           InOrder(slots'[i].rx, net'[slots'[i].conn], read'[slots'[i].conn], sent[slots'[i].conn])
    PROVE  RestInOrder'
PROOF
  <1>1. SUFFICES ASSUME NEW j \in Client, Active(j)'
                 PROVE  InOrder(slots'[j].rx, net'[slots'[j].conn], read'[slots'[j].conn],
                                sent'[slots'[j].conn])
    BY DEF RestInOrder
  <1>2. CASE j = i  BY <1>2
  <1>3. CASE j # i
    <2>1. slots'[j] = slots[j] /\ Active(j)  BY <1>1, <1>3 DEF Active
    <2>2. slots[j].conn \in Conns  BY <2>1 DEF ConnsApart, TypeOK, ConnTypes
    <2>3. /\ net'[slots[j].conn] = net[slots[j].conn]
          /\ read'[slots[j].conn] = read[slots[j].conn]
      BY <1>3, <2>1, <2>2
    <2>4. QED  BY <2>1, <2>3 DEF RestInOrder
  <1>4. QED  BY <1>2, <1>3

\* So does one that takes up the next item of a slot.
LEMMA TakingKeepsOrder ==
    ASSUME TypeOK, ConnsApart, RestInOrder, tpc = "frames", slots[ti].rx # <<>>, TakeUp,
           UNCHANGED <<net, sent>>,
           slots'[ti].rx = Tail(slots[ti].rx), slots'[ti].conn = slots[ti].conn,
           \A j \in Client : j # ti => slots'[j] = slots[j]
    PROVE  RestInOrder'
PROOF
  <1> DEFINE c == slots[ti].conn
  <1>1. ti \in Client /\ Active(ti) /\ c \in Conns /\ slots[ti].rx \in Seq(Item)
    BY ServedFacts
  <1>2. /\ read'[c] = slots[ti].rx[1].n
        /\ \A d \in Conns : d # c => read'[d] = read[d]
    BY TakeUpFacts
  <1>3. read[c] \in Nat /\ sent[c] \in Nat /\ net[c] \in Seq(Item)
    BY <1>1 DEF TypeOK, ConnTypes
  <1>4. InOrder(slots[ti].rx, net[c], read[c], sent[c])  BY <1>1 DEF RestInOrder
  <1>5. InOrder(slots'[ti].rx, net'[c], read'[c], sent[c])
    BY <1>1, <1>2, <1>3, <1>4, OrderTaken
  <1>6. \A j \in Client : j # ti => slots'[j].conn # c
    BY <1>1 DEF ConnsApart
  <1>7. QED  BY <1>1, <1>2, <1>5, <1>6, ServingKeepsOrder

\* What is left of a connection stays in order.
LEMMA RestInOrderStep ==
    ASSUME TypeOK, MutexIsHeld, ConnsApart, SendingToBearer, NothingReadYet, RestInOrder, Next
    PROVE  RestInOrder'
PROOF
<1>1. ASSUME NEW c \in Conns, NEW kind \in {"hello", "text", "close"}, NEW id \in Names \cup {NoConn},
             SendItem(c, kind, id)
      PROVE  RestInOrder'
  <2>1. /\ UNCHANGED <<slots, read>>
        /\ \A d \in Conns : d # c => net'[d] = net[d] /\ sent'[d] = sent[d]
        /\ \A rx \in Seq(Item) :
              InOrder(rx, net[c], read[c], sent[c]) => InOrder(rx, net'[c], read[c], sent'[c])
    BY <1>1, SendItemFacts
  <2>2. \A i \in Client : Active(i) => slots[i].conn \in Conns /\ slots[i].rx \in Seq(Item)
    BY DEF TypeOK, SlotTypes, ConnTypes, Slot, ConnsApart
  <2>3. QED  BY <2>1, <2>2 DEF RestInOrder, Active
<1>2. ASSUME NEW f \in Fds, Accept(f) PROVE RestInOrder'
  <2> DEFINE c == Head(backlog)
  <2>1. UNCHANGED <<read, sent, net>>  BY <1>2 DEF Accept, clientVars
  <2>2. c \in Conns /\ c = backlog[1] /\ 1 \in 1 .. Len(backlog)  BY <1>2, AcceptFacts
  <2>3. PICK i \in Client :
           /\ slots'[i].conn = c /\ slots'[i].rx = <<>>
           /\ \A j \in Client : j # i => slots'[j] = slots[j]
    BY <1>2, AcceptFacts
  <2> HIDE DEF c
  <2>4. InOrder(<<>>, net[c], read[c], sent[c])  BY <2>2 DEF NothingReadYet
  <2>5. SUFFICES ASSUME NEW j \in Client, Active(j)'
                 PROVE  InOrder(slots'[j].rx, net[slots'[j].conn], read[slots'[j].conn],
                                sent[slots'[j].conn])
    BY <2>1 DEF RestInOrder
  <2>6. CASE j = i  BY <2>3, <2>4, <2>6
  <2>7. CASE j # i
    <3>1. slots'[j] = slots[j] /\ Active(j)  BY <2>3, <2>5, <2>7 DEF Active
    <3>2. QED  BY <3>1 DEF RestInOrder
  <2>8. QED  BY <2>6, <2>7
<1>3. CASE Reject
  <2>1. UNCHANGED <<slots, read, sent>> /\ backlog # <<>>
    BY <1>3 DEF Reject, Waiting, clientVars, slotVars, histVars
  <2>2. Head(backlog) = backlog[1] /\ 1 \in 1 .. Len(backlog)
    BY <2>1, HeadFacts DEF TypeOK, ConnTypes
  <2>3. \A d \in Conns : d # Head(backlog) => net'[d] = net[d]  BY <1>3 DEF Reject, TypeOK, ConnTypes
  <2>4. \A i \in Client : Active(i) => slots[i].conn \in Conns /\ slots[i].conn # Head(backlog)
    BY <2>2 DEF ConnsApart, TypeOK, ConnTypes
  <2>5. \A i \in Client : Active(i) => net'[slots[i].conn] = net[slots[i].conn]  BY <2>3, <2>4
  <2>6. QED  BY <2>1, <2>5 DEF RestInOrder, Active
<1>4. CASE RecvClosed \/ HandshakeFails \/ CloseFrame \/ FrameRefused \/ SendFails
  <2>1. PICK i \in Client : Active(i) /\ CloseSlot(i) /\ (i = ti \/ read' = read)
    BY <1>4, ClosingFacts
  <2>2. UNCHANGED <<joined, sent, backlog, held, got, inq, si>>  BY <1>4, ClosingFacts
  <2>3. \A d \in Conns : d # slots[i].conn => fd'[d] = fd[d] /\ net'[d] = net[d] /\ read'[d] = read[d]
    BY <1>4, <2>1, CloseFacts, ClosingFacts, TakeUpFacts
  <2>4. ~Active(i)' /\ \A j \in Client : j # i => slots'[j] = slots[j]  BY <2>1, CloseFacts
  <2>5. \A j \in Client : Active(j)' =>
           /\ j # i /\ Active(j) /\ slots'[j] = slots[j]
           /\ slots[j].conn \in Conns /\ slots[j].conn # slots[i].conn
    BY <2>4 DEF Active, ConnsApart, TypeOK, ConnTypes
  <2>6. \A j \in Client : Active(j)' =>
           /\ net'[slots[j].conn] = net[slots[j].conn]
           /\ read'[slots[j].conn] = read[slots[j].conn]
    BY <2>3, <2>5
  <2>7. QED  BY <2>2, <2>5, <2>6 DEF RestInOrder
<1>5. CASE RecvItems
  <2> DEFINE c == slots[ti].conn
             rx == slots[ti].rx
             t == net[c]
  <2>1. UNCHANGED <<sent, read>>  BY <1>5 DEF RecvItems, clientVars, histVars
  <2>2. /\ ti \in Client /\ Active(ti) /\ c \in Conns /\ slots'[ti].conn = c
        /\ \A j \in Client : j # ti => slots'[j] = slots[j]
        /\ \A d \in Conns : d # c => net'[d] = net[d]
    BY <1>5, RecvFacts
  <2>3. PICK k \in 1 .. Len(t) :
           slots'[ti].rx = rx \o SubSeq(t, 1, k) /\ net'[c] = SubSeq(t, k + 1, Len(t))
    BY <1>5, RecvFacts
  <2>4. rx \in Seq(Item) /\ t \in Seq(Item) /\ read[c] \in Nat /\ sent[c] \in Nat
    BY <2>2 DEF TypeOK, SlotTypes, ConnTypes, Slot
  <2>5. InOrder(rx, t, read[c], sent[c])  BY <2>2 DEF RestInOrder
  <2>6. InOrder(slots'[ti].rx, net'[c], read'[c], sent[c])
    BY <2>1, <2>3, <2>4, <2>5, OrderReceived
  <2>7. \A j \in Client : j # ti => slots'[j].conn # c  BY <2>2 DEF ConnsApart
  <2>8. QED  BY <2>1, <2>2, <2>6, <2>7, ServingKeepsOrder
<1>6. CASE Handshake
  <2>1. /\ tpc = "frames" /\ slots[ti].rx # <<>> /\ TakeUp
        /\ UNCHANGED <<net, sent>>
    BY <1>6 DEF Handshake, AtItem, clientVars
  <2>2. QED  BY <1>6, <2>1, HandshakeFacts, TakingKeepsOrder
<1>7. CASE TextPushed
  <2>1. /\ tpc = "frames" /\ slots[ti].rx # <<>> /\ TakeUp /\ TakeText
        /\ UNCHANGED <<net, sent>>
    BY <1>7 DEF TextPushed, TakeText, AtItem, clientVars
  <2>2. QED  BY <2>1, TextFacts, TakingKeepsOrder
<1>8. CASE TextDropped
  <2>1. /\ tpc = "frames" /\ slots[ti].rx # <<>> /\ TakeUp /\ TakeText
        /\ UNCHANGED <<net, sent>>
    BY <1>8 DEF TextDropped, TakeText, AtItem, clientVars
  <2>2. QED  BY <2>1, TextFacts, TakingKeepsOrder
<1>9. CASE
     \/ (\E c \in Conns : Connect(c)) \/ (\E c \in Conns : Leave(c)) \/ Build \/ Select
     \/ AcceptNone \/ SkipClient \/ FramesDone \/ ScanDone \/ TakeReply \/ DropReply \/ SendNotFound
     \/ SendFound \/ SendOk
  <2>1. UNCHANGED <<slots, net, read, sent>>
    BY <1>9 DEF Connect, Leave, Build, Select, AcceptNone, SkipClient, FramesDone,
    ScanDone, TakeReply, DropReply, SendNotFound, SendFound, SendOk, Active, Readable, LockToServe,
    NextClient, Found, First, Bearers, SendEnd, clientVars, slotVars, taskVars,
    sendVars, histVars
  <2>2. QED  BY <2>1 DEF RestInOrder, Active
<1> QED
  BY <1>1, <1>2, <1>3, <1>4, <1>5, <1>6, <1>7, <1>8, <1>9 DEF Next, Clients, Accepting, Serve, SendLock

\* Without the token of the build, no reply is taken up.
LEMMA SendingWithTokenStep ==
    ASSUME SendingWithToken, Next
    PROVE  SendingWithToken'
PROOF
<1>1. spc' = spc \/ spc' = "idle" \/ spc # "idle" \/ TakeReply
  BY DEF Next, Clients, Accepting, Serve, SendLock, Connect, SendItem, Leave, Build,
    Select, Accept, Reject, AcceptNone, SkipClient, RecvClosed, RecvItems, Handshake,
    HandshakeFails, TextPushed, TextDropped, TakeText, CloseFrame, FrameRefused,
    FramesDone, ScanDone, DropReply, SendNotFound, SendFound, SendOk, SendFails, SendEnd,
    sendVars
<1>2. TakeReply => auth = "build"  BY DEF TakeReply
<1>3. QED  BY <1>1, <1>2, AuthStays DEF SendingWithToken

\* Nobody unwelcome gets past the handshake.
LEMMA KnownOnwardsStep ==
    ASSUME TypeOK, MutexIsHeld, ConnsApart, SendingWithToken, SendingToBearer, KnownOnwards,
           Next
    PROVE  KnownOnwards'
PROOF
<1>a. auth' = auth /\ Welcome' = Welcome  BY AuthStays
<1> USE <1>a
<1>1. ASSUME NEW f \in Fds, Accept(f) PROVE KnownOnwards'
  <2>1. UNCHANGED <<inq, got>>  BY <1>1 DEF Accept
  <2>2. PICK i \in Client :
           ~slots'[i].shaken /\ \A j \in Client : j # i => slots'[j] = slots[j]
    BY <1>1, AcceptFacts
  <2>3. QED  BY <2>1, <2>2 DEF KnownOnwards, KnownOnly, Active
<1>2. CASE RecvClosed \/ HandshakeFails \/ CloseFrame \/ FrameRefused \/ SendFails
  <2>1. PICK i \in Client : Active(i) /\ CloseSlot(i) /\ (i = ti \/ read' = read)
    BY <1>2, ClosingFacts
  <2>2. UNCHANGED <<joined, sent, backlog, held, got, inq, si>>  BY <1>2, ClosingFacts
  <2>3. \A d \in Conns : d # slots[i].conn => fd'[d] = fd[d] /\ net'[d] = net[d] /\ read'[d] = read[d]
    BY <1>2, <2>1, CloseFacts, ClosingFacts, TakeUpFacts
  <2>4. ~Active(i)' /\ \A j \in Client : j # i => slots'[j] = slots[j]  BY <2>1, CloseFacts
  <2>5. QED  BY <2>2, <2>4 DEF KnownOnwards, KnownOnly, Active
<1>3. CASE RecvItems
  <2>1. UNCHANGED <<inq, got>>  BY <1>3 DEF RecvItems, histVars
  <2>2. \A j \in Client : slots'[j].conn = slots[j].conn /\ (slots'[j].shaken <=> slots[j].shaken)
    BY <1>3, RecvFacts
  <2>3. QED  BY <2>1, <2>2 DEF KnownOnwards, KnownOnly, Active
<1>4. CASE Handshake
  <2>1. UNCHANGED <<inq, got>> /\ slots[ti].conn \in Welcome  BY <1>4 DEF Handshake
  <2>2. /\ slots'[ti].conn = slots[ti].conn
        /\ \A j \in Client : j # ti => slots'[j] = slots[j]
    BY <1>4, HandshakeFacts
  <2>3. QED  BY <2>1, <2>2 DEF KnownOnwards, KnownOnly, Active
<1>5. CASE TextPushed
  <2>1. tpc = "frames" /\ TakeText /\ got' = got  BY <1>5 DEF TextPushed, TakeText, AtItem
  <2>2. ti \in Client /\ Active(ti)  BY <2>1, ServedFacts
  <2>3. /\ slots[ti].shaken
        /\ \A j \in Client : slots'[j].conn = slots[j].conn /\ (slots'[j].shaken <=> slots[j].shaken)
    BY <2>1, TextFacts
  <2>4. slots[ti].conn \in Welcome  BY <2>2, <2>3 DEF KnownOnwards
  <2> DEFINE m == [from |-> slots[ti].conn, chat |-> ChatOf(ti)]
  <2>5. auth # "none" => \A k \in 1 .. Len(inq') : inq'[k].from \in Known
    <3>1. m \in Msg  BY <2>1, ServedFacts, TextFacts DEF Msg
    <3>2. inq' = Append(inq, m) /\ (auth # "none" => m.from \in Known)
      BY <1>5, <2>4 DEF TextPushed, Welcome
    <3> HIDE DEF m
    <3>3. /\ Len(inq') = Len(inq) + 1 /\ inq'[Len(inq) + 1] = m /\ Len(inq) \in Nat
          /\ \A k \in 1 .. Len(inq) : inq'[k] = inq[k]
      BY <3>1, <3>2, AppendFacts DEF TypeOK, SendTypes
    <3>4. QED  BY <3>2, <3>3 DEF KnownOnwards, KnownOnly
  <2>6. QED  BY <2>1, <2>3, <2>5 DEF KnownOnwards, KnownOnly, Active
<1>6. CASE TextDropped
  <2>1. tpc = "frames" /\ TakeText /\ got' = got  BY <1>6 DEF TextDropped, TakeText, AtItem
  <2>2. ti \in Client /\ Active(ti)  BY <2>1, ServedFacts
  <2>3. /\ slots[ti].shaken
        /\ \A j \in Client : slots'[j].conn = slots[j].conn /\ (slots'[j].shaken <=> slots[j].shaken)
    BY <2>1, TextFacts
  <2>4. slots[ti].conn \in Welcome  BY <2>2, <2>3 DEF KnownOnwards
  <2>5. auth # "none" => \A k \in 1 .. Len(inq') : inq'[k].from \in Known
    BY <1>6 DEF TextDropped, KnownOnwards, KnownOnly
  <2>6. QED  BY <2>1, <2>3, <2>5 DEF KnownOnwards, KnownOnly, Active
<1>7. CASE TakeReply \/ DropReply
  <2>1. UNCHANGED <<slots, got>> /\ inq # <<>> /\ inq' = Tail(inq)
    BY <1>7 DEF TakeReply, DropReply, slotVars, histVars
  <2>2. \A k \in 1 .. Len(inq') : k + 1 \in 1 .. Len(inq) /\ inq'[k] = inq[k + 1]
    BY <2>1, HeadFacts DEF TypeOK, SendTypes
  <2>3. QED  BY <2>1, <2>2 DEF KnownOnwards, KnownOnly, Active
<1>8. CASE SendOk
  <2>1. UNCHANGED <<slots, inq>>  BY <1>8 DEF SendOk, slotVars
  <2>2. si \in Client /\ Active(si) /\ slots[si].shaken
    BY <1>8 DEF SendOk, SendEnd, SendingToBearer, TypeOK, SendTypes
  <2>3. slots[si].conn \in Known
    BY <1>8, <2>2 DEF KnownOnwards, Welcome, SendingWithToken, SendOk, SendEnd
  <2>4. \A c \in Conns \ Known : got'[c] = got[c]
    BY <1>8, <2>3 DEF SendOk, TypeOK, SendTypes
  <2>5. QED  BY <2>1, <2>4 DEF KnownOnwards, KnownOnly, Active
<1>9. CASE
     \/ (\E c \in Conns : Connect(c))
     \/ (\E c \in Conns, kind \in {"hello", "text", "close"}, id \in Names \cup {NoConn} : SendItem(c, kind, id))
     \/ (\E c \in Conns : Leave(c)) \/ Build \/ Select \/ Reject \/ AcceptNone
     \/ SkipClient \/ FramesDone \/ ScanDone \/ SendNotFound \/ SendFound
  <2>1. UNCHANGED <<inq, got, slots>>
    BY <1>9 DEF Connect, SendItem, Leave, Build, Select, Reject, AcceptNone, SkipClient,
    FramesDone, ScanDone, SendNotFound, SendFound, Active, Readable, LockToServe,
    Waiting, FreeSlots, NextClient, Found, First, Bearers, clientVars, slotVars,
    taskVars, sendVars, histVars
  <2>2. QED  BY <2>1 DEF KnownOnwards, KnownOnly, Active
<1> QED
  BY <1>1, <1>2, <1>3, <1>4, <1>5, <1>6, <1>7, <1>8, <1>9 DEF Next, Clients, Accepting, Serve, SendLock

\* Chat ids only gain bearers, so a reply delivered was for one of them.
LEMMA BearersStay ==
    ASSUME TypeOK, SendingToBearer, got' = got, \A x \in Chat : held[x] \subseteq held'[x]
    PROVE  \A c \in Conns : \A m \in got'[c] : c \in held'[m.chat]
PROOF
  <1>1. \A c \in Conns : \A m \in got[c] : m.chat \in Chat
    BY DEF TypeOK, SendTypes, Msg
  <1>2. QED  BY <1>1 DEF SendingToBearer

\* A reply on its way stays on its way to a bearer of its chat id.
LEMMA SendingStep ==
    ASSUME TypeOK, MutexIsHeld, ConnsApart, SendingToBearer, Next
    PROVE  SendingToBearer'
PROOF
<1>1. ASSUME NEW f \in Fds, Accept(f) PROVE SendingToBearer'
  <2>1. spc # "send" /\ UNCHANGED <<spc, out, got>>
    BY <1>1 DEF Accept, LockToServe, MutexIsHeld, sendVars, histVars
  <2>2. \A x \in Chat : held[x] \subseteq held'[x]  BY <1>1, AcceptFacts
  <2>3. QED  BY <2>1, <2>2, BearersStay DEF SendingToBearer
<1>2. CASE RecvClosed \/ HandshakeFails \/ CloseFrame \/ FrameRefused \/ SendFails
  <2>1. UNCHANGED <<held, got>>  BY <1>2, ClosingFacts
  <2>2. spc' # "send" /\ (spc' # "idle" => spc' = spc /\ out' = out)
    BY <1>2, ClosingFacts DEF SendFails, SendEnd, MutexIsHeld, TypeOK, SlotTypes
  <2>3. QED  BY <2>1, <2>2 DEF SendingToBearer
<1>3. CASE RecvItems
  <2>1. spc # "send" /\ UNCHANGED <<spc, out, got>>
    BY <1>3 DEF RecvItems, Serving, MutexIsHeld, sendVars, histVars
  <2>2. \A x \in Chat : held[x] \subseteq held'[x]  BY <1>3 DEF RecvItems, histVars
  <2>3. QED  BY <2>1, <2>2, BearersStay DEF SendingToBearer
<1>4. CASE Handshake
  <2>1. spc # "send" /\ UNCHANGED <<spc, out, got>>
    BY <1>4 DEF Handshake, AtItem, MutexIsHeld, sendVars, histVars
  <2>2. \A x \in Chat : held[x] \subseteq held'[x]  BY <1>4 DEF Handshake
  <2>3. QED  BY <2>1, <2>2, BearersStay DEF SendingToBearer
<1>5. CASE TextPushed
  <2>1. TakeText /\ tpc = "frames" /\ UNCHANGED <<spc, out, got>>
    BY <1>5 DEF TextPushed, TakeText, AtItem, sendVars
  <2>2. spc # "send"  BY <2>1 DEF MutexIsHeld
  <2>3. \A x \in Chat : held[x] \subseteq held'[x]  BY <2>1, TextFacts
  <2>4. QED  BY <2>1, <2>2, <2>3, BearersStay DEF SendingToBearer
<1>6. CASE TextDropped
  <2>1. TakeText /\ tpc = "frames" /\ UNCHANGED <<spc, out, got>>
    BY <1>6 DEF TextDropped, TakeText, AtItem, sendVars
  <2>2. spc # "send"  BY <2>1 DEF MutexIsHeld
  <2>3. \A x \in Chat : held[x] \subseteq held'[x]  BY <2>1, TextFacts
  <2>4. QED  BY <2>1, <2>2, <2>3, BearersStay DEF SendingToBearer
<1>7. CASE TakeReply
  <2>1. inq \in Seq(Msg) /\ inq # <<>>  BY <1>7 DEF TakeReply, TypeOK, SendTypes
  <2>2. Head(inq) \in Msg  BY <2>1, HeadFacts
  <2>3. out' = Head(inq) /\ spc' = "lock" /\ UNCHANGED <<held, got>>  BY <1>7 DEF TakeReply, histVars
  <2>4. QED  BY <2>2, <2>3 DEF SendingToBearer
<1>8. CASE SendNotFound
  BY <1>8 DEF SendNotFound, histVars, SendingToBearer
<1>9. CASE SendFound
  <2>1. UNCHANGED <<slots, out, held, got>> /\ spc' = "send" /\ out \in Msg
    BY <1>9 DEF SendFound, slotVars, histVars, SendingToBearer
  <2>2. Found(si')  BY <1>9 DEF SendFound
  <2>3. Active(si') /\ slots[si'].shaken /\ slots[si'].chat = out.chat
    BY <2>2 DEF Found, First, Bearers
  <2>4. QED  BY <2>1, <2>3 DEF SendingToBearer, Active
<1>10. CASE SendOk
  <2>1. /\ held' = held /\ spc' = "idle" /\ out \in Msg /\ slots[si].chat = out.chat
        /\ si \in Client /\ Active(si)
    BY <1>10 DEF SendOk, SendEnd, SendingToBearer, TypeOK, SendTypes
  <2>2. slots[si].conn \in held[out.chat]  BY <2>1 DEF ConnsApart
  <2>3. got' = [got EXCEPT ![slots[si].conn] = got[slots[si].conn] \cup {out}]
    BY <1>10 DEF SendOk, TypeOK, SendTypes
  <2>4. got \in [Conns -> SUBSET Msg]  BY DEF TypeOK, SendTypes
  <2>5. \A c \in Conns : \A m \in got'[c] : c \in held[m.chat]
    BY <2>2, <2>3, <2>4 DEF SendingToBearer
  <2>6. QED  BY <2>1, <2>5 DEF SendingToBearer
<1>11. CASE
     \/ (\E c \in Conns : Connect(c))
     \/ (\E c \in Conns, kind \in {"hello", "text", "close"}, id \in Names \cup {NoConn} : SendItem(c, kind, id))
     \/ (\E c \in Conns : Leave(c)) \/ Build \/ Select \/ Reject \/ AcceptNone
     \/ SkipClient \/ FramesDone \/ ScanDone \/ DropReply
  <2>1. UNCHANGED <<spc, out, slots, si, got, held>>
    BY <1>11 DEF Connect, SendItem, Leave, Build, Select, Reject, AcceptNone,
    SkipClient, FramesDone, ScanDone, DropReply, Active, Readable, LockToServe, Waiting, FreeSlots,
    NextClient, clientVars, slotVars, taskVars, sendVars, histVars
  <2>2. QED  BY <2>1 DEF SendingToBearer, Active
<1> QED
  BY <1>1, <1>2, <1>3, <1>4, <1>5, <1>6, <1>7, <1>8, <1>9, <1>10, <1>11 DEF Next, Clients, Accepting, Serve, SendLock

\* The initial states.
LEMMA InitHolds ==
    ASSUME Init
    PROVE  WsInv
PROOF
  <1> USE SizeAssumption, ConnAssumption
  <1>1. <<>> \in Seq(Conns) /\ <<>> \in Seq(Item) /\ <<>> \in Seq(Msg) /\ FreeSlot \in Slot
    <2>1. <<>> \in Seq(Conns) /\ <<>> \in Seq(Item) /\ <<>> \in Seq(Msg)  OBVIOUS
    <2>2. QED  BY <2>1 DEF FreeSlot, Slot
  <1>2. ConnTypes  BY <1>1 DEF Init, ConnTypes
  <1>3. \A i \in Client : ~Active(i)  BY DEF Init, Active, FreeSlot
  <1>4. SlotTypes
    <2>1. slots \in [Client -> Slot]  BY <1>1 DEF Init
    <2>2. QED  BY <2>1 DEF Init, SlotTypes
  <1>5. SendTypes  BY <1>1 DEF Init, SendTypes, Client
  <1>6. MutexIsHeld /\ ConnsApart /\ RestInOrder /\ KnownOnwards
    BY <1>3 DEF Init, MutexIsHeld, ConnsApart, RestInOrder, KnownOnwards, KnownOnly
  <1>7. InOrder(<<>>, <<>>, 0, 0)  BY DEF InOrder
  <1>8. NothingReadYet  BY <1>7 DEF Init, NothingReadYet
  <1>9. SendingToBearer /\ SendingWithToken  BY DEF Init, SendingToBearer, SendingWithToken
  <1>10. QED  BY <1>2, <1>4, <1>5, <1>6, <1>8, <1>9 DEF WsInv, TypeOK

\* The inductive invariant: types, the holder of the mutex, connections kept
\* apart, what is read of each, who got past the handshake, with which
\* token replies are sent, and to whom.
THEOREM WsInvariant == Spec => []WsInv
PROOF
  <1>1. WsInv /\ Next => WsInv'
    <2>1. SUFFICES ASSUME WsInv, Next PROVE WsInv'  OBVIOUS
    <2>2. /\ TypeOK /\ MutexIsHeld /\ ConnsApart /\ NothingReadYet /\ RestInOrder
          /\ KnownOnwards /\ SendingWithToken /\ SendingToBearer
      BY <2>1 DEF WsInv
    <2>3. ConnTypes' /\ SlotTypes' /\ SendTypes'
      BY <2>1, <2>2, ConnTypesStep, SlotTypesStep, SendTypesStep
    <2>4. MutexIsHeld' /\ ConnsApart' /\ NothingReadYet'
      BY <2>1, <2>2, MutexStep, ConnsApartStep, NothingReadYetStep
    <2>5. RestInOrder' /\ KnownOnwards' /\ SendingWithToken' /\ SendingToBearer'
      BY <2>1, <2>2, RestInOrderStep, KnownOnwardsStep, SendingWithTokenStep, SendingStep
    <2>6. QED  BY <2>3, <2>4, <2>5 DEF WsInv, TypeOK
  <1>2. WsInv /\ UNCHANGED vars => WsInv'
    BY DEF WsInv, TypeOK, ConnTypes, SlotTypes, SendTypes, MutexIsHeld, ConnsApart, NothingReadYet,
           RestInOrder, KnownOnwards, KnownOnly, Welcome, SendingWithToken, SendingToBearer, Active, vars, clientVars,
           slotVars, taskVars, sendVars, histVars
  <1>3. QED  BY InitHolds, <1>1, <1>2, PTL DEF Spec

\* Every variable keeps its type; the buffer that is read is that of a client.
THEOREM TypeCorrect == Spec => []TypeOK
PROOF
  <1>1. WsInv => TypeOK  BY DEF WsInv
  <1>2. QED  BY <1>1, WsInvariant, PTL

\* A client's items are taken up in order, none twice and none left out, and
\* a slot never holds anything of the client it had before.
THEOREM InSequence == Spec => []NothingSkipped
PROOF
  <1>1. WsInv => NothingSkipped
    <2>1. SUFFICES ASSUME WsInv, NEW i \in Client, Active(i)
                   PROVE  LET c == slots[i].conn
                              rest == slots[i].rx \o net[c]
                          IN /\ Len(rest) = sent[c] - read[c]
                             /\ \A k \in 1 .. Len(rest) : rest[k].n = read[c] + k
      BY DEF NothingSkipped
    <2> DEFINE c == slots[i].conn
               rx == slots[i].rx
               t == net[c]
               all == rx \o t
    <2>2. rx \in Seq(Item) /\ t \in Seq(Item) /\ read[c] \in Nat /\ sent[c] \in Nat
      BY <2>1 DEF WsInv, TypeOK, ConnTypes, SlotTypes, Slot, ConnsApart
    <2>3. InOrder(rx, t, read[c], sent[c])  BY <2>1 DEF WsInv, RestInOrder
    <2> HIDE DEF c, rx, t
    <2>4. /\ Len(rx) + Len(t) + read[c] = sent[c]
          /\ \A k \in 1 .. Len(rx) : rx[k].n = read[c] + k
          /\ \A k \in 1 .. Len(t) : t[k].n = read[c] + Len(rx) + k
      BY <2>3 DEF InOrder
    <2>5. /\ Len(all) = Len(rx) + Len(t)
          /\ \A k \in 1 .. Len(rx) + Len(t) :
                all[k] = IF k =< Len(rx) THEN rx[k] ELSE t[k - Len(rx)]
      BY <2>2, ConcatProperties
    <2>6. Len(rx) \in Nat /\ Len(t) \in Nat  BY <2>2
    <2> HIDE DEF all
    <2>7. Len(all) = sent[c] - read[c]
      <3>1. Len(all) = Len(rx) + Len(t) /\ Len(rx) + Len(t) + read[c] = sent[c]  BY <2>4, <2>5
      <3>2. QED  BY <2>2, <2>6, <3>1
    <2>8. \A k \in 1 .. Len(all) : all[k].n = read[c] + k
      <3> SUFFICES ASSUME NEW k \in 1 .. Len(all) PROVE all[k].n = read[c] + k  OBVIOUS
      <3>1. CASE k =< Len(rx)
        <4>1. k \in 1 .. Len(rx) /\ all[k] = rx[k]  BY <2>5, <2>6, <3>1
        <4>2. QED  BY <2>4, <4>1
      <3>2. CASE k > Len(rx)
        <4>1. k - Len(rx) \in 1 .. Len(t) /\ all[k] = t[k - Len(rx)]  BY <2>5, <2>6, <3>2
        <4>2. t[k - Len(rx)].n = read[c] + Len(rx) + (k - Len(rx))  BY <2>4, <4>1
        <4>3. QED  BY <2>2, <2>6, <4>1, <4>2
      <3>3. QED  BY <2>6, <3>1, <3>2
    <2>9. QED  BY <2>7, <2>8 DEF c, rx, t, all
  <1>2. QED  BY <1>1, WsInvariant, PTL

\* Whoever did not show the token is not heard where there is one, and never
\* told anything.
THEOREM OnlyKnown == Spec => []KnownOnly
PROOF
  <1>1. WsInv => KnownOnly  BY DEF WsInv, KnownOnwards
  <1>2. QED  BY <1>1, WsInvariant, PTL

\* A reply to an id only the asker has borne reaches nobody else.
THEOREM NoStrangersReply == Spec => []OwnReply
PROOF
  <1>1. WsInv => OwnReply  BY DEF WsInv, SendingToBearer, OwnReply
  <1>2. QED  BY <1>1, WsInvariant, PTL

-----------------------------------------------------------------------------
(* The server serves every connection as ClientSession promises.             *)

\* One more item, if it opens when it is the first.
LEMMA OpensMore ==
    ASSUME NEW s \in Seq(Item), NEW item \in Item, Opens(s), item.kind = "hello" <=> item.n = 1
    PROVE  Opens(Append(s, item))
PROOF
  <1>1. /\ Len(Append(s, item)) = Len(s) + 1 /\ Append(s, item)[Len(s) + 1] = item
        /\ \A k \in 1 .. Len(s) : Append(s, item)[k] = s[k]
    BY AppendFacts
  <1> DEFINE more == Append(s, item)
  <1> HIDE DEF more
  <1>2. Len(s) \in Nat  OBVIOUS
  <1>3. \A k \in 1 .. Len(more) : more[k].kind = "hello" <=> more[k].n = 1
    BY <1>1, <1>2 DEF Opens, more
  <1>4. QED  BY <1>3 DEF Opens, more

\* What is received, and what is left in the socket.
LEMMA OpensSplit ==
    ASSUME NEW s \in Seq(Item), NEW t \in Seq(Item), NEW k \in 1 .. Len(t), Opens(s), Opens(t)
    PROVE  Opens(s \o SubSeq(t, 1, k)) /\ Opens(SubSeq(t, k + 1, Len(t)))
PROOF
  <1> DEFINE more == s \o SubSeq(t, 1, k)
             rest == SubSeq(t, k + 1, Len(t))
  <1>1. /\ Len(more) = Len(s) + k
        /\ \A i \in 1 .. Len(s) : more[i] = s[i]
        /\ \A i \in Len(s) + 1 .. Len(s) + k : i - Len(s) \in 1 .. Len(t) /\ more[i] = t[i - Len(s)]
        /\ Len(rest) = Len(t) - k
        /\ \A i \in 1 .. Len(t) - k : k + i \in 1 .. Len(t) /\ rest[i] = t[k + i]
    BY SplitFacts
  <1>2. Len(s) \in Nat /\ k \in Nat  OBVIOUS
  <1> HIDE DEF more, rest
  <1>3. \A i \in 1 .. Len(more) : more[i].kind = "hello" <=> more[i].n = 1
    <2> SUFFICES ASSUME NEW i \in 1 .. Len(more) PROVE more[i].kind = "hello" <=> more[i].n = 1
      OBVIOUS
    <2>1. CASE i \in 1 .. Len(s)  BY <1>1, <2>1 DEF Opens
    <2>2. CASE i \in Len(s) + 1 .. Len(s) + k
      <3>1. PICK j \in 1 .. Len(t) : more[i] = t[j]  BY <1>1, <2>2
      <3>2. t[j].kind = "hello" <=> t[j].n = 1  BY DEF Opens
      <3>3. QED  BY <3>1, <3>2
    <2>3. QED  BY <1>1, <1>2, <2>1, <2>2
  <1>4. \A i \in 1 .. Len(rest) : rest[i].kind = "hello" <=> rest[i].n = 1
    <2> SUFFICES ASSUME NEW i \in 1 .. Len(rest) PROVE rest[i].kind = "hello" <=> rest[i].n = 1
      OBVIOUS
    <2>1. k + i \in 1 .. Len(t) /\ rest[i] = t[k + i]  BY <1>1
    <2>2. QED  BY <2>1 DEF Opens
  <1>5. QED  BY <1>3, <1>4 DEF Opens, more, rest

\* What is left of the buffer when its first item is taken up.
LEMMA OpensRest ==
    ASSUME NEW s \in Seq(Item), s # <<>>, Opens(s)
    PROVE  Opens(Tail(s)) /\ (s[1].kind = "hello" <=> s[1].n = 1)
PROOF
  <1>1. /\ Len(s) > 0 /\ \A k \in 1 .. Len(Tail(s)) : k + 1 \in 1 .. Len(s) /\ Tail(s)[k] = s[k + 1]
    BY HeadFacts
  <1>2. 1 \in 1 .. Len(s)  BY <1>1
  <1>3. QED  BY <1>1, <1>2 DEF Opens

\* The next item is the one after those taken up.
LEMMA NextItem ==
    ASSUME TypeOK, RestInOrder, HelloFirst, tpc = "frames", slots[ti].rx # <<>>
    PROVE  LET c == slots[ti].conn
           IN /\ read[c] \in Nat /\ slots[ti].rx[1].n = read[c] + 1
              /\ slots[ti].shaken <=> read[c] > 0
              /\ Head(slots[ti].rx).kind = "hello" <=> read[c] = 0
PROOF
  <1>1. ti \in Client /\ Active(ti) /\ slots[ti].conn \in Conns /\ slots[ti].rx \in Seq(Item)
    BY ServedFacts
  <1>2. Len(slots[ti].rx) > 0 /\ Head(slots[ti].rx) = slots[ti].rx[1]  BY <1>1, HeadFacts
  <1>3. InOrder(slots[ti].rx, net[slots[ti].conn], read[slots[ti].conn], sent[slots[ti].conn])
    BY <1>1 DEF RestInOrder
  <1>4. read[slots[ti].conn] \in Nat  BY <1>1 DEF TypeOK, ConnTypes
  <1>5. slots[ti].rx[1].n = read[slots[ti].conn] + 1
    <2>1. 1 \in 1 .. Len(slots[ti].rx)  BY <1>1, <1>2
    <2>2. QED  BY <1>3, <2>1 DEF InOrder
  <1>6. Opens(slots[ti].rx) /\ (slots[ti].shaken <=> read[slots[ti].conn] > 0)
    BY <1>1 DEF HelloFirst
  <1>7. slots[ti].rx[1].kind = "hello" <=> slots[ti].rx[1].n = 1  BY <1>1, <1>6, OpensRest
  <1>8. QED  BY <1>2, <1>4, <1>5, <1>6, <1>7

\* A step that touches one slot, and its connection only.
LEMMA ServingKeepsHello ==
    ASSUME TypeOK, ConnsApart, HelloFirst, NEW i \in Client, NEW c \in Conns,
           \A j \in Client : j # i => slots'[j] = slots[j] /\ slots[j].conn # c,
           \A d \in Conns : d # c => net'[d] = net[d] /\ read'[d] = read[d],
           Opens(net'[c]),
           Active(i)' => /\ slots'[i].conn = c /\ Opens(slots'[i].rx)
                         /\ slots'[i].shaken <=> read'[c] > 0
    PROVE  HelloFirst'
PROOF
  <1>1. \A d \in Conns : Opens(net'[d])  BY DEF HelloFirst
  <1>2. ASSUME NEW j \in Client, Active(j)'
        PROVE  Opens(slots'[j].rx) /\ (slots'[j].shaken <=> read'[slots'[j].conn] > 0)
    <2>1. CASE j = i  BY <1>2, <2>1
    <2>2. CASE j # i
      <3>1. slots'[j] = slots[j] /\ Active(j) /\ slots[j].conn # c  BY <1>2, <2>2 DEF Active
      <3>2. slots[j].conn \in Conns  BY <3>1 DEF ConnsApart, TypeOK, ConnTypes
      <3>3. QED  BY <3>1, <3>2 DEF HelloFirst
    <2>3. QED  BY <2>1, <2>2
  <1>3. QED  BY <1>1, <1>2 DEF HelloFirst, Opens

\* So does one that takes up the next item and goes on with the slot.
LEMMA TakingKeepsHello ==
    ASSUME TypeOK, ConnsApart, RestInOrder, HelloFirst, tpc = "frames", slots[ti].rx # <<>>,
           TakeUp, net' = net, slots'[ti].rx = Tail(slots[ti].rx),
           slots'[ti].conn = slots[ti].conn, slots'[ti].shaken,
           \A j \in Client : j # ti => slots'[j] = slots[j]
    PROVE  HelloFirst'
PROOF
  <1>1. ti \in Client /\ Active(ti) /\ slots[ti].conn \in Conns /\ slots[ti].rx \in Seq(Item)
    BY ServedFacts
  <1>2. /\ read'[slots[ti].conn] = slots[ti].rx[1].n
        /\ \A d \in Conns : d # slots[ti].conn => read'[d] = read[d]
    BY TakeUpFacts
  <1>3. read[slots[ti].conn] \in Nat /\ slots[ti].rx[1].n = read[slots[ti].conn] + 1  BY NextItem
  <1>4. read'[slots[ti].conn] > 0  BY <1>2, <1>3
  <1>5. Opens(net[slots[ti].conn]) /\ Opens(Tail(slots[ti].rx))
    BY <1>1, OpensRest DEF HelloFirst
  <1>6. \A j \in Client : j # ti => slots[j].conn # slots[ti].conn  BY <1>1 DEF ConnsApart
  <1>7. QED  BY <1>1, <1>2, <1>4, <1>5, <1>6, ServingKeepsHello

\* The upgrade request stays the first item, and the first handshake.
LEMMA HelloFirstStep ==
    ASSUME WsInv, HelloFirst, Next
    PROVE  HelloFirst'
PROOF
<1> USE DEF WsInv
<1>1. ASSUME NEW c \in Conns, NEW kind \in {"hello", "text", "close"}, NEW id \in Names \cup {NoConn},
             SendItem(c, kind, id)
      PROVE  HelloFirst'
  <2> DEFINE item == [kind |-> kind, id |-> id, n |-> sent[c] + 1]
  <2>1. /\ UNCHANGED <<slots, read>> /\ (kind = "hello" <=> sent[c] = 0)
        /\ net' = [net EXCEPT ![c] = Append(net[c], item)]
    BY <1>1 DEF SendItem, histVars, TypeOK, ConnTypes
  <2>2. sent[c] \in Nat /\ net \in [Conns -> Seq(Item)]  BY DEF TypeOK, ConnTypes
  <2>3. item \in Item /\ (item.kind = "hello" <=> item.n = 1)  BY <1>1, <2>2 DEF Item, SendItem
  <2> HIDE DEF item
  <2>4. Opens(Append(net[c], item))  BY <2>2, <2>3, OpensMore DEF HelloFirst
  <2>5. \A d \in Conns : Opens(net'[d])  BY <2>1, <2>2, <2>4 DEF HelloFirst
  <2>6. slots' = slots /\ read' = read  BY <2>1
  <2>7. QED  BY <2>5, <2>6 DEF HelloFirst, Active, Opens
<1>2. ASSUME NEW f \in Fds, Accept(f) PROVE HelloFirst'
  <2>1. UNCHANGED <<read, net>>  BY <1>2 DEF Accept
  <2>2. Head(backlog) \in Conns /\ Head(backlog) = backlog[1] /\ 1 \in 1 .. Len(backlog)
    BY <1>2, AcceptFacts
  <2>3. PICK i \in Client :
           /\ slots'[i].conn = Head(backlog) /\ slots'[i].rx = <<>> /\ ~slots'[i].shaken
           /\ \A j \in Client : j # i => slots'[j] = slots[j]
    BY <1>2, AcceptFacts
  <2>4. read[Head(backlog)] = 0  BY <2>2 DEF NothingReadYet
  <2>5. \A j \in Client : slots[j].conn # Head(backlog)
    BY <2>2, ConnAssumption DEF ConnsApart, Active
  <2>6. Opens(slots'[i].rx) /\ ~(read'[Head(backlog)] > 0)  BY <2>1, <2>3, <2>4 DEF Opens
  <2>7. Opens(net'[Head(backlog)])  BY <2>1, <2>2 DEF HelloFirst
  <2>8. QED  BY <2>1, <2>2, <2>3, <2>5, <2>6, <2>7, ServingKeepsHello
<1>3. CASE Reject
  <2>1. UNCHANGED <<slots, read>> /\ net' = [net EXCEPT ![Head(backlog)] = <<>>]
    BY <1>3 DEF Reject, slotVars, histVars
  <2>2. Opens(<<>>)  BY DEF Opens
  <2>3. \A d \in Conns : net'[d] = net[d] \/ net'[d] = <<>>  BY <2>1 DEF TypeOK, ConnTypes
  <2>4. \A d \in Conns : Opens(net'[d])  BY <2>2, <2>3 DEF HelloFirst
  <2>5. slots' = slots /\ read' = read  BY <2>1
  <2>6. QED  BY <2>4, <2>5 DEF HelloFirst, Active, Opens
<1>4. CASE RecvClosed \/ HandshakeFails \/ CloseFrame \/ FrameRefused \/ SendFails
  <2>1. PICK i \in Client : Active(i) /\ CloseSlot(i) /\ (i = ti \/ read' = read)
    BY <1>4, ClosingFacts
  <2>2. slots[i].conn \in Conns  BY <2>1, CloseFacts
  <2>3. \A d \in Conns : d # slots[i].conn => net'[d] = net[d] /\ read'[d] = read[d]
    BY <1>4, <2>1, CloseFacts, ClosingFacts, TakeUpFacts
  <2>4. ~Active(i)' /\ \A j \in Client : j # i => slots'[j] = slots[j]  BY <2>1, CloseFacts
  <2>5. \A j \in Client : j # i => slots[j].conn # slots[i].conn  BY <2>1 DEF ConnsApart
  <2>6. Opens(net'[slots[i].conn])
    <3>1. net'[slots[i].conn] = <<>>  BY <2>1, <2>2 DEF CloseSlot, TypeOK, ConnTypes
    <3>2. QED  BY <3>1 DEF Opens
  <2>7. QED  BY <2>2, <2>3, <2>4, <2>5, <2>6, ServingKeepsHello
<1>5. CASE RecvItems
  <2> DEFINE c == slots[ti].conn
             t == net[c]
  <2>1. read' = read  BY <1>5 DEF RecvItems, histVars
  <2>2. /\ ti \in Client /\ Active(ti) /\ c \in Conns /\ slots'[ti].conn = c
        /\ slots'[ti].shaken = slots[ti].shaken
        /\ \A j \in Client : j # ti => slots'[j] = slots[j]
        /\ \A d \in Conns : d # c => net'[d] = net[d]
    BY <1>5, RecvFacts
  <2>3. PICK k \in 1 .. Len(t) :
           slots'[ti].rx = slots[ti].rx \o SubSeq(t, 1, k) /\ net'[c] = SubSeq(t, k + 1, Len(t))
    BY <1>5, RecvFacts
  <2>4. slots[ti].rx \in Seq(Item) /\ t \in Seq(Item)
    BY <2>2 DEF TypeOK, SlotTypes, ConnTypes, Slot
  <2>5. Opens(slots[ti].rx) /\ Opens(t) /\ (slots[ti].shaken <=> read[c] > 0)
    BY <2>2 DEF HelloFirst
  <2>6. Opens(slots'[ti].rx) /\ Opens(net'[c])  BY <2>3, <2>4, <2>5, OpensSplit
  <2>7. \A j \in Client : j # ti => slots[j].conn # c  BY <2>2 DEF ConnsApart
  <2>8. slots'[ti].shaken <=> read'[c] > 0  BY <2>1, <2>2, <2>5
  <2>9. QED  BY <2>1, <2>2, <2>6, <2>7, <2>8, ServingKeepsHello
<1>6. CASE Handshake
  <2>1. tpc = "frames" /\ slots[ti].rx # <<>> /\ TakeUp /\ net' = net
    BY <1>6 DEF Handshake, AtItem
  <2>2. QED  BY <1>6, <2>1, HandshakeFacts, TakingKeepsHello
<1>7. CASE TextPushed \/ TextDropped
  <2>1. tpc = "frames" /\ slots[ti].rx # <<>> /\ TakeUp /\ TakeText /\ net' = net
    BY <1>7 DEF TextPushed, TextDropped, TakeText, AtItem
  <2>2. QED  BY <2>1, TextFacts, TakingKeepsHello
<1>8. CASE
     \/ (\E c \in Conns : Connect(c)) \/ (\E c \in Conns : Leave(c)) \/ Build \/ Select
     \/ AcceptNone \/ SkipClient \/ FramesDone \/ ScanDone \/ TakeReply \/ DropReply \/ SendNotFound
     \/ SendFound \/ SendOk
  <2>1. slots' = slots /\ net' = net /\ read' = read
    BY <1>8 DEF Connect, Leave, Build, Select, AcceptNone, SkipClient, FramesDone,
    ScanDone, TakeReply, DropReply, SendNotFound, SendFound, SendOk, Active, Readable, LockToServe,
    NextClient, Found, First, Bearers, SendEnd, clientVars, slotVars, taskVars,
    sendVars, histVars
  <2>2. QED  BY <2>1 DEF HelloFirst, Active, Opens
<1> QED
  BY <1>1, <1>2, <1>3, <1>4, <1>5, <1>6, <1>7, <1>8 DEF Next, Clients, Accepting, Serve, SendLock

\* The upgrade request comes first and is what shakes hands.
THEOREM SessionInvariant == Spec => []SessionInv
PROOF
  <1>1. Init => HelloFirst
    <2> SUFFICES ASSUME Init PROVE HelloFirst  OBVIOUS
    <2>1. \A c \in Conns : Opens(net[c])  BY DEF Init, Opens
    <2>2. \A i \in Client : ~Active(i)  BY DEF Init, Active, FreeSlot
    <2>3. QED  BY <2>1, <2>2 DEF HelloFirst
  <1>2. WsInv /\ HelloFirst /\ [Next]_vars => HelloFirst'
    <2>1. UNCHANGED vars /\ HelloFirst => HelloFirst'
      BY DEF HelloFirst, Opens, Active, vars, clientVars, slotVars, taskVars, sendVars, histVars
    <2>2. QED  BY <2>1, HelloFirstStep
  <1>3. QED  BY WsInvariant, <1>1, <1>2, PTL DEF Spec, SessionInv

\* Where a connection is that a slot has, and where one is that waits.
LEMMA PhaseFacts ==
    ASSUME ConnsApart, NEW c \in Conns
    PROVE  /\ c \notin joined => Phases[c] = "new"
           /\ Waits(c) => Phases[c] = "waiting"
           /\ \A i \in Client : Active(i) /\ Has(i, c) =>
                 Phases[c] = IF slots[i].shaken THEN "shaken" ELSE "admitted"
PROOF
  <1>1. Waits(c) => c \in joined  BY DEF ConnsApart, Waits
  <1>2. ASSUME NEW i \in Client, Active(i), Has(i, c)
        PROVE  /\ c \in joined /\ ~Waits(c)
               /\ \A j \in Client : Has(j, c) => j = i
    BY <1>2 DEF ConnsApart, Waits, Has, Active
  <1>3. QED  BY <1>1, <1>2 DEF Phases

\* A step that moves no connection.
LEMMA PhasesStay ==
    ASSUME joined' = joined, backlog' = backlog,
           \A i \in Client : slots'[i].conn = slots[i].conn /\ slots'[i].shaken = slots[i].shaken
    PROVE  Phases' = Phases
PROOF
  <1>1. \A c \in Conns : Waits(c)' = Waits(c)  BY DEF Waits
  <1>2. \A c \in Conns, i \in Client : Has(i, c)' = Has(i, c)  BY DEF Has
  <1>3. QED  BY <1>1, <1>2 DEF Phases

\* A step that moves one.
LEMMA OneMoves ==
    ASSUME NEW c \in Conns, NEW p, Phases'[c] = p,
           \A d \in Conns : d # c =>
              /\ d \in joined' <=> d \in joined
              /\ Waits(d)' <=> Waits(d)
              /\ \A i \in Client : Has(i, d)' <=> Has(i, d)
              /\ \A i \in Client : Has(i, d) => slots'[i].shaken = slots[i].shaken
    PROVE  Phases' = [Phases EXCEPT ![c] = p]
PROOF
  <1>1. \A d \in Conns : d # c => Phases'[d] = Phases[d]  BY DEF Phases
  <1>2. /\ Phases = [d \in Conns |-> Phases[d]] /\ Phases' = [d \in Conns |-> Phases'[d]]
    BY DEF Phases
  <1>3. QED  BY <1>1, <1>2

\* What the backlog still holds when its first has been taken.
LEMMA WaitsLess ==
    ASSUME TypeOK, ConnsApart, backlog # <<>>, backlog' = Tail(backlog),
           NEW c \in Conns, c = Head(backlog)
    PROVE  /\ Waits(c) /\ ~Waits(c)' /\ c \in joined
           /\ \A d \in Conns : d # c => (Waits(d)' <=> Waits(d))
           /\ \A i \in Client : ~Has(i, c)
PROOF
  <1>1. backlog \in Seq(Conns)  BY DEF TypeOK, ConnTypes
  <1>2. /\ Len(backlog) > 0 /\ Len(backlog) \in Nat
        /\ c = backlog[1] /\ Len(backlog') = Len(backlog) - 1
        /\ \A k \in 1 .. Len(backlog') : k + 1 \in 1 .. Len(backlog) /\ backlog'[k] = backlog[k + 1]
    BY <1>1, HeadFacts
  <1>3. 1 \in 1 .. Len(backlog)  BY <1>2
  <1>4. Waits(c)  BY <1>2, <1>3 DEF Waits
  <1>5. ~Waits(c)'
    <2> SUFFICES ASSUME NEW k \in 1 .. Len(backlog'), backlog'[k] = c PROVE FALSE
      BY DEF Waits
    <2>1. k + 1 \in 1 .. Len(backlog) /\ backlog[k + 1] = backlog[1]  BY <1>2
    <2>2. k + 1 = 1  BY <1>3, <2>1 DEF ConnsApart
    <2>3. QED  BY <2>2
  <1>6. ASSUME NEW d \in Conns, d # c PROVE Waits(d)' <=> Waits(d)
    <2>1. ASSUME Waits(d)' PROVE Waits(d)  BY <1>2, <2>1 DEF Waits
    <2>2. ASSUME Waits(d) PROVE Waits(d)'
      <3>1. PICK k \in 1 .. Len(backlog) : backlog[k] = d  BY <2>2 DEF Waits
      <3>2. k # 1  BY <1>2, <1>6, <3>1
      <3>3. k - 1 \in 1 .. Len(backlog') /\ (k - 1) + 1 = k  BY <1>2, <3>1, <3>2
      <3>4. backlog'[k - 1] = d  BY <1>2, <3>1, <3>3
      <3>5. QED  BY <3>3, <3>4 DEF Waits
    <2>3. QED  BY <2>1, <2>2
  <1>7. \A i \in Client : ~Has(i, c)
    BY <1>2, <1>3, ConnAssumption DEF ConnsApart, Active, Has
  <1>8. QED  BY <1>2, <1>3, <1>4, <1>5, <1>6, <1>7 DEF ConnsApart

\* A connection whose slot is closed is gone, and no other moves.
LEMMA CloseMoves ==
    ASSUME TypeOK, ConnsApart, NEW i \in Client, Active(i), CloseSlot(i),
           joined' = joined, backlog' = backlog
    PROVE  /\ slots[i].conn \in Conns
           /\ Phases[slots[i].conn] = IF slots[i].shaken THEN "shaken" ELSE "admitted"
           /\ Phases' = [Phases EXCEPT ![slots[i].conn] = "gone"]
PROOF
  <1>1. PICK c \in Conns : c = slots[i].conn  BY CloseFacts
  <1>2. /\ c \in joined /\ ~Waits(c)
        /\ \A j \in Client : Has(j, c) => j = i
    BY <1>1 DEF ConnsApart, Waits, Has, Active
  <1>3. Phases[c] = IF slots[i].shaken THEN "shaken" ELSE "admitted"
    BY <1>1, PhaseFacts DEF Has
  <1>4. ~Active(i)' /\ \A j \in Client : j # i => slots'[j] = slots[j]  BY CloseFacts
  <1>5. \A j \in Client : ~Has(j, c)'  BY <1>2, <1>4, ConnAssumption DEF Has, Active
  <1>6. Phases'[c] = "gone"
    <2>1. c \in joined' /\ ~Waits(c)'  BY <1>2 DEF Waits
    <2>2. QED  BY <1>5, <2>1 DEF Phases
  <1>7. ASSUME NEW d \in Conns, d # c
        PROVE  /\ d \in joined' <=> d \in joined
               /\ Waits(d)' <=> Waits(d)
               /\ \A j \in Client : Has(j, d)' <=> Has(j, d)
               /\ \A j \in Client : Has(j, d) => slots'[j].shaken = slots[j].shaken
    <2>1. ~Has(i, d) /\ ~Has(i, d)'  BY <1>1, <1>4, <1>7, ConnAssumption DEF Has, Active
    <2>2. QED  BY <1>4, <2>1 DEF Waits, Has
  <1>8. Phases' = [Phases EXCEPT ![c] = "gone"]  BY <1>6, <1>7, OneMoves
  <1>9. QED  BY <1>1, <1>3, <1>8

\* An item taken up is the next one.
LEMMA TakesNext ==
    ASSUME SessionInv, tpc = "frames", slots[ti].rx # <<>>, TakeUp
    PROVE  /\ slots[ti].conn \in Conns
           /\ read' = [read EXCEPT ![slots[ti].conn] = read[slots[ti].conn] + 1]
PROOF
  <1>1. TypeOK /\ RestInOrder /\ HelloFirst  BY DEF SessionInv, WsInv
  <1>2. slots[ti].conn \in Conns /\ slots[ti].rx \in Seq(Item)  BY <1>1, ServedFacts
  <1>3. Head(slots[ti].rx) = slots[ti].rx[1]  BY <1>2, HeadFacts
  <1>4. slots[ti].rx[1].n = read[slots[ti].conn] + 1  BY <1>1, NextItem
  <1>5. QED  BY <1>2, <1>3, <1>4 DEF TakeUp

\* Every step is one of ClientSession or a stutter.
LEMMA SessionStep ==
    ASSUME SessionInv, Next
    PROVE  [Session!Next]_<<Welcome, Phases, read, got>>
PROOF
<1> USE DEF SessionInv, WsInv
<1>0. Welcome' = Welcome  BY AuthStays
<1>1. ASSUME NEW c \in Conns, Connect(c) PROVE Session!Knock(c)
  <2>1. /\ c \notin joined /\ joined' = joined \cup {c} /\ backlog' = Append(backlog, c)
        /\ UNCHANGED <<slots, read, got>> /\ backlog \in Seq(Conns)
    BY <1>1 DEF Connect, histVars, TypeOK, ConnTypes
  <2>2. /\ Len(backlog') = Len(backlog) + 1 /\ backlog'[Len(backlog) + 1] = c /\ Len(backlog) \in Nat
        /\ \A k \in 1 .. Len(backlog) : backlog'[k] = backlog[k]
    BY <2>1, AppendFacts
  <2>3. Phases[c] = "new"  BY <2>1, PhaseFacts
  <2>4. Waits(c)'
    <3>1. Len(backlog) + 1 \in 1 .. Len(backlog')  BY <2>2
    <3>2. QED  BY <2>2, <3>1 DEF Waits
  <2>5. Phases'[c] = "waiting"  BY <2>1, <2>4 DEF Phases
  <2>6. ASSUME NEW d \in Conns, d # c
        PROVE  /\ d \in joined' <=> d \in joined
               /\ Waits(d)' <=> Waits(d)
               /\ \A j \in Client : Has(j, d)' <=> Has(j, d)
               /\ \A j \in Client : Has(j, d) => slots'[j].shaken = slots[j].shaken
    <3>1. Waits(d)' <=> Waits(d)  BY <2>2, <2>6 DEF Waits
    <3>2. QED  BY <2>1, <2>6, <3>1 DEF Has
  <2>7. Phases' = [Phases EXCEPT ![c] = "waiting"]  BY <2>5, <2>6, OneMoves
  <2>8. QED  BY <2>1, <2>3, <2>7 DEF Session!Knock, Session!Move
<1>2. ASSUME NEW f \in Fds, Accept(f) PROVE \E c \in Conns : Session!Admit(c)
  <2>1. /\ backlog # <<>> /\ backlog' = Tail(backlog)
        /\ UNCHANGED <<joined, read, got>>
    BY <1>2 DEF Accept, Waiting, clientVars
  <2>2. PICK c \in Conns : c = Head(backlog)  BY <1>2, AcceptFacts
  <2>3. PICK i \in Client :
           /\ ~Active(i) /\ slots'[i].conn = c /\ ~slots'[i].shaken
           /\ \A j \in Client : j # i => slots'[j] = slots[j]
    BY <1>2, <2>2, AcceptFacts
  <2>4. /\ Waits(c) /\ ~Waits(c)' /\ c \in joined
        /\ \A d \in Conns : d # c => (Waits(d)' <=> Waits(d))
        /\ \A j \in Client : ~Has(j, c)
    BY <2>1, <2>2, WaitsLess
  <2>5. Phases[c] = "waiting"  BY <2>4, PhaseFacts
  <2>6. Phases'[c] = "admitted"
    <3>1. Has(i, c)' /\ \A j \in Client : Has(j, c)' => j = i  BY <2>3, <2>4 DEF Has
    <3>2. QED  BY <2>1, <2>3, <2>4, <3>1 DEF Phases
  <2>7. ASSUME NEW d \in Conns, d # c
        PROVE  /\ d \in joined' <=> d \in joined
               /\ Waits(d)' <=> Waits(d)
               /\ \A j \in Client : Has(j, d)' <=> Has(j, d)
               /\ \A j \in Client : Has(j, d) => slots'[j].shaken = slots[j].shaken
    <3>1. ~Has(i, d) /\ ~Has(i, d)'  BY <2>3, <2>7, ConnAssumption DEF Has, Active
    <3>2. QED  BY <2>1, <2>3, <2>4, <2>7, <3>1 DEF Has
  <2>8. Phases' = [Phases EXCEPT ![c] = "admitted"]  BY <2>6, <2>7, OneMoves
  <2>9. Session!Admit(c)  BY <2>1, <2>5, <2>8 DEF Session!Admit, Session!Move
  <2>10. QED  BY <2>9
<1>3. ASSUME Reject PROVE \E c \in Conns : Session!Drop(c)
  <2>1. /\ backlog # <<>> /\ backlog' = Tail(backlog)
        /\ UNCHANGED <<joined, slots, read, got>>
    BY <1>3 DEF Reject, Waiting, clientVars, histVars
  <2>2. PICK c \in Conns : c = Head(backlog)  BY <2>1, HeadFacts DEF TypeOK, ConnTypes
  <2>3. /\ Waits(c) /\ ~Waits(c)' /\ c \in joined
        /\ \A d \in Conns : d # c => (Waits(d)' <=> Waits(d))
        /\ \A j \in Client : ~Has(j, c)
    BY <2>1, <2>2, WaitsLess
  <2>4. Phases[c] = "waiting"  BY <2>3, PhaseFacts
  <2>5. Phases'[c] = "gone"
    <3>1. \A j \in Client : ~Has(j, c)'  BY <2>1, <2>3 DEF Has
    <3>2. QED  BY <2>1, <2>3, <3>1 DEF Phases
  <2>6. \A d \in Conns : d # c =>
           /\ d \in joined' <=> d \in joined
           /\ Waits(d)' <=> Waits(d)
           /\ \A j \in Client : Has(j, d)' <=> Has(j, d)
           /\ \A j \in Client : Has(j, d) => slots'[j].shaken = slots[j].shaken
    BY <2>1, <2>3 DEF Has
  <2>7. Phases' = [Phases EXCEPT ![c] = "gone"]  BY <2>5, <2>6, OneMoves
  <2>8. Session!Drop(c)  BY <2>1, <2>4, <2>7 DEF Session!Drop, Session!Move
  <2>9. QED  BY <2>8
<1>4. ASSUME RecvClosed \/ HandshakeFails \/ FrameRefused \/ SendFails
      PROVE  \E c \in Conns : Session!Drop(c)
  <2>1. PICK i \in Client : Active(i) /\ CloseSlot(i)  BY <1>4, ClosingFacts
  <2>2. UNCHANGED <<joined, backlog, got>>  BY <1>4, ClosingFacts
  <2>3. read' = read
    BY <1>4 DEF RecvClosed, HandshakeFails, FrameRefused, SendFails, histVars
  <2>4. PICK c \in Conns :
           /\ Phases[c] \in {"shaken", "admitted"}
           /\ Phases' = [Phases EXCEPT ![c] = "gone"]
    BY <2>1, <2>2, CloseMoves
  <2>5. Session!Drop(c)  BY <2>2, <2>3, <2>4 DEF Session!Drop, Session!Move
  <2>6. QED  BY <2>5
<1>5. ASSUME CloseFrame PROVE \E c \in Conns : Session!TakeClose(c)
  <2>1. /\ tpc = "frames" /\ slots[ti].rx # <<>> /\ slots[ti].shaken /\ TakeUp /\ CloseSlot(ti)
        /\ UNCHANGED <<joined, backlog, got>>
    BY <1>5 DEF CloseFrame, AtItem, clientVars
  <2>2. ti \in Client /\ Active(ti)  BY <2>1, ServedFacts
  <2>3. PICK c \in Conns :
           /\ c = slots[ti].conn /\ Phases[c] = "shaken"
           /\ Phases' = [Phases EXCEPT ![c] = "gone"]
    BY <2>1, <2>2, CloseMoves
  <2>4. read' = [read EXCEPT ![c] = read[c] + 1]  BY <2>1, <2>3, TakesNext
  <2>5. Session!TakeClose(c)
    BY <2>1, <2>3, <2>4 DEF Session!TakeClose, Session!Move, Session!TakeNext
  <2>6. QED  BY <2>5
<1>6. ASSUME Handshake PROVE \E c \in Conns : Session!Shake(c)
  <2>1. /\ tpc = "frames" /\ slots[ti].rx # <<>> /\ slots[ti].conn \in Welcome /\ TakeUp
        /\ Head(slots[ti].rx).kind = "hello" /\ UNCHANGED <<joined, backlog, got>>
    BY <1>6 DEF Handshake, AtItem, clientVars
  <2>2. ti \in Client /\ Active(ti)  BY <2>1, ServedFacts
  <2>3. PICK c \in Conns : c = slots[ti].conn  BY <2>1, TakesNext
  <2>4. read' = [read EXCEPT ![c] = read[c] + 1]  BY <2>1, <2>3, TakesNext
  <2>5. read[c] = 0 /\ ~slots[ti].shaken  BY <2>1, <2>3, NextItem
  <2>6. Phases[c] = "admitted"  BY <2>2, <2>3, <2>5, PhaseFacts DEF Has
  <2>7. /\ slots'[ti].shaken /\ slots'[ti].conn = c
        /\ \A j \in Client : j # ti => slots'[j] = slots[j]
    BY <1>6, <2>3, HandshakeFacts
  <2>8. c \in joined /\ ~Waits(c)  BY <2>2, <2>3 DEF ConnsApart, Waits
  <2>9. Phases'[c] = "shaken"
    <3>1. c \in joined' /\ ~Waits(c)'  BY <2>1, <2>8 DEF Waits
    <3>2. \E j \in Client : Has(j, c)' /\ slots'[j].shaken  BY <2>2, <2>7 DEF Has
    <3>3. QED  BY <3>1, <3>2 DEF Phases
  <2>10. ASSUME NEW d \in Conns, d # c
         PROVE  /\ d \in joined' <=> d \in joined
                /\ Waits(d)' <=> Waits(d)
                /\ \A j \in Client : Has(j, d)' <=> Has(j, d)
                /\ \A j \in Client : Has(j, d) => slots'[j].shaken = slots[j].shaken
    BY <2>1, <2>3, <2>7, <2>10 DEF Waits, Has
  <2>11. Phases' = [Phases EXCEPT ![c] = "shaken"]  BY <2>9, <2>10, OneMoves
  <2>12. Session!Shake(c)
    BY <2>1, <2>3, <2>4, <2>5, <2>6, <2>11 DEF Session!Shake, Session!Move, Session!TakeNext
  <2>13. QED  BY <2>12
<1>7. ASSUME TextPushed \/ TextDropped PROVE \E c \in Conns : Session!TakeText(c)
  <2>1. /\ tpc = "frames" /\ slots[ti].rx # <<>> /\ slots[ti].shaken /\ TakeUp /\ TakeText
        /\ UNCHANGED <<joined, backlog, got>>
    BY <1>7 DEF TextPushed, TextDropped, TakeText, AtItem, clientVars
  <2>2. ti \in Client /\ Active(ti)  BY <2>1, ServedFacts
  <2>3. PICK c \in Conns : c = slots[ti].conn  BY <2>1, TakesNext
  <2>4. read' = [read EXCEPT ![c] = read[c] + 1]  BY <2>1, <2>3, TakesNext
  <2>5. Phases[c] = "shaken"  BY <2>1, <2>2, <2>3, PhaseFacts DEF Has
  <2>6. \A j \in Client : slots'[j].conn = slots[j].conn /\ slots'[j].shaken = slots[j].shaken
    BY <2>1, TextFacts
  <2>7. Phases' = Phases  BY <2>1, <2>6, PhasesStay
  <2>8. Session!TakeText(c)  BY <2>1, <2>4, <2>5, <2>7 DEF Session!TakeText, Session!TakeNext
  <2>9. QED  BY <2>8
<1>8. ASSUME SendOk PROVE \E c \in Conns, m \in Msg : Session!Tell(c, m)
  <2>1. /\ si \in Client /\ Active(si) /\ slots[si].shaken /\ out \in Msg
        /\ UNCHANGED <<joined, backlog, slots, read>>
        /\ got' = [got EXCEPT ![slots[si].conn] = @ \cup {out}]
    BY <1>8 DEF SendOk, SendEnd, SendingToBearer, TypeOK, SendTypes, clientVars, slotVars
  <2>2. PICK c \in Conns : c = slots[si].conn  BY <2>1 DEF ConnsApart, TypeOK, ConnTypes
  <2>3. Phases[c] = "shaken"  BY <2>1, <2>2, PhaseFacts DEF Has
  <2>4. Phases' = Phases  BY <2>1, PhasesStay
  <2>5. Session!Tell(c, out)  BY <2>1, <2>2, <2>3, <2>4 DEF Session!Tell
  <2>6. QED  BY <2>1, <2>5
<1>9. CASE
     \/ (\E c \in Conns, kind \in {"hello", "text", "close"}, id \in Names \cup {NoConn} : SendItem(c, kind, id))
     \/ (\E c \in Conns : Leave(c)) \/ Build \/ Select
     \/ AcceptNone \/ SkipClient \/ RecvItems \/ FramesDone \/ ScanDone \/ TakeReply \/ DropReply \/ SendNotFound
     \/ SendFound
  <2>1. UNCHANGED <<joined, backlog, read, got>>
    BY <1>9 DEF SendItem, Leave, Build, Select, AcceptNone, SkipClient, RecvItems, FramesDone,
    ScanDone, TakeReply, DropReply, SendNotFound, SendFound, LockToServe, NextClient,
    clientVars, slotVars, taskVars, sendVars, histVars
  <2>2. \A i \in Client : slots'[i].conn = slots[i].conn /\ slots'[i].shaken = slots[i].shaken
    <3>1. CASE RecvItems  BY <3>1, RecvFacts
    <3>2. CASE ~RecvItems
      <4>1. slots' = slots
        BY <1>9, <3>2 DEF SendItem, Leave, Build, Select, AcceptNone, SkipClient, FramesDone,
        ScanDone, TakeReply, DropReply, SendNotFound, SendFound, LockToServe, NextClient,
        clientVars, slotVars, taskVars, sendVars, histVars
      <4>2. QED  BY <4>1
    <3>3. QED  BY <3>1, <3>2
  <2>3. Phases' = Phases  BY <2>1, <2>2, PhasesStay
  <2>4. QED  BY <1>0, <2>1, <2>3
<1>10. CASE
     \/ (\E c \in Conns : Connect(c)) \/ (\E f \in Fds : Accept(f)) \/ Reject \/ RecvClosed
     \/ HandshakeFails \/ FrameRefused \/ SendFails \/ CloseFrame \/ Handshake
     \/ TextPushed \/ TextDropped \/ SendOk
  BY <1>1, <1>2, <1>3, <1>4, <1>5, <1>6, <1>7, <1>8, <1>10, <1>0 DEF Session!Next
<1> QED
  BY <1>9, <1>10 DEF Next, Clients, Accepting, Serve, SendLock

\* The server serves its clients as ClientSession promises.
THEOREM SessionsImplemented == Spec => SessionsInOrder
PROOF
<1>1. Init => Session!Init
  <2> SUFFICES ASSUME Init PROVE Session!Init  OBVIOUS
  <2>1. Phases = [c \in Conns |-> "new"]  BY DEF Init, Phases
  <2>2. Welcome \in {Known, Conns}  BY DEF Welcome
  <2>3. QED  BY <2>1, <2>2 DEF Init, Session!Init
<1>2. SessionInv /\ [Next]_vars => [Session!Next]_<<Welcome, Phases, read, got>>
  <2> SUFFICES ASSUME SessionInv, [Next]_vars
               PROVE  [Session!Next]_<<Welcome, Phases, read, got>>
    OBVIOUS
  <2>1. CASE Next  BY <2>1, SessionStep
  <2>2. CASE UNCHANGED vars
    <3>1. UNCHANGED <<joined, backlog, slots, read, got>>
      BY <2>2 DEF vars, clientVars, slotVars, histVars
    <3>2. Phases' = Phases  BY <3>1, PhasesStay
    <3>3. Welcome' = Welcome  BY <2>2 DEF vars, clientVars, Welcome
    <3>4. QED  BY <3>1, <3>2, <3>3
  <2>3. QED  BY <2>1, <2>2
<1>3. QED  BY SessionInvariant, <1>1, <1>2, PTL DEF Spec, SessionsInOrder, Session!Spec
=============================================================================
