-------------------------- MODULE TelegramBotProofs --------------------------
(* The invariants of TelegramBot, for any bots, any length of the ring and   *)
(* any number of updates, connections, restarts and changes of the token.    *)
EXTENDS TelegramBot, TLAPS

\* Saving writes the offset or nothing.
LEMMA SaveFacts ==
    ASSUME TypeOK, Save
    PROVE  /\ kv' \in Stores /\ last' \in Nat
           /\ upset' \subseteq Upsets /\ upset \subseteq upset'
           /\ "crossed" \in upset' <=> "crossed" \in upset
           /\ "lagged" \in upset' <=> "lagged" \in upset
           /\ kv'.token = kv.token
           /\ kv'.offset \in {kv.offset, offset}
PROOF
  BY DEF TypeOK, Save, Upsets, Stores

\* A poll that is under way, and its next stations.
LEMMA PollFacts ==
    ASSUME TypeOK, Busy
    PROVE  /\ poll \in Polls /\ poll.bot \in Bots /\ poll.next \in Nat /\ poll.to \in Nat
           /\ \A x \in {"take", "save", "push"} :
                 [poll EXCEPT !.at = x] \in Polls
           /\ \A n \in Nat : [poll EXCEPT !.at = "take", !.to = n] \in Polls
           /\ [poll EXCEPT !.next = @ + 1] \in Polls
           /\ [poll EXCEPT !.at = "take", !.next = @ + 1] \in Polls
PROOF
  <1>1. poll \in Polls  BY DEF TypeOK, Busy, Asleep, Idle
  <1>2. poll.bot \in Bots /\ poll.next \in Nat /\ poll.to \in Nat  BY <1>1 DEF Polls
  <1>3. ASSUME NEW x \in {"take", "save", "push"} PROVE [poll EXCEPT !.at = x] \in Polls
    BY <1>1 DEF Polls
  <1>4. ASSUME NEW n \in Nat PROVE [poll EXCEPT !.at = "take", !.to = n] \in Polls
    BY <1>1 DEF Polls
  <1>5. [poll EXCEPT !.next = @ + 1] \in Polls
    BY <1>1 DEF Polls
  <1>6. [poll EXCEPT !.at = "take", !.next = @ + 1] \in Polls
    <2>1. ASSUME NEW n \in Nat PROVE [poll EXCEPT !.at = "take", !.next = n] \in Polls
      BY <1>1 DEF Polls
    <2>2. poll.next + 1 \in Nat  BY <1>2
    <2>3. QED  BY <2>1, <2>2
  <1>7. QED  BY <1>1, <1>2, <1>3, <1>4, <1>5, <1>6

\* A counter, one higher.
LEMMA CountFacts ==
    ASSUME TypeOK
    PROVE  /\ [count EXCEPT !.boots = @ + 1, !.links = 0] \in Counts
           /\ [count EXCEPT !.links = @ + 1] \in Counts
           /\ [count EXCEPT !.changes = @ + 1] \in Counts
PROOF
  <1>1. count \in Counts  BY DEF TypeOK
  <1>2. [count EXCEPT !.boots = @ + 1, !.links = 0] \in Counts
    <2>1. ASSUME NEW n \in Nat PROVE [count EXCEPT !.boots = n, !.links = 0] \in Counts
      BY <1>1 DEF Counts
    <2>2. count.boots + 1 \in Nat  BY <1>1 DEF Counts
    <2>3. QED  BY <2>1, <2>2
  <1>3. [count EXCEPT !.links = @ + 1] \in Counts  BY <1>1 DEF Counts
  <1>4. [count EXCEPT !.changes = @ + 1] \in Counts  BY <1>1 DEF Counts
  <1>5. QED  BY <1>2, <1>3, <1>4

\* The ring and its keys.
LEMMA RingFacts ==
    ASSUME TypeOK
    PROVE  /\ RingSize \in Nat \ {0}
           /\ \A i \in 1 .. RingSize : ring[i] \in Update \cup {NoKey}
           /\ \A k \in Update :
                 [i \in 1 .. RingSize |-> IF i = 1 THEN k ELSE ring[i - 1]]
                     \in [1 .. RingSize -> Update \cup {NoKey}]
           /\ [i \in 1 .. RingSize |-> NoKey] \in [1 .. RingSize -> Update \cup {NoKey}]
PROOF
  <1>1. RingSize \in Nat \ {0} /\ \A i \in 1 .. RingSize : i = 1 \/ i - 1 \in 1 .. RingSize
    BY SizeAssumption
  <1>2. QED  BY <1>1 DEF TypeOK

\* Every step keeps the types.
LEMMA TypeStep ==
    ASSUME TypeOK, Next
    PROVE  TypeOK'
PROOF
<1>1. ASSUME NEW b \in Bots, Arrive(b) PROVE TypeOK'
  <2>1. sent' \in [Bots -> Nat]  BY <1>1 DEF Arrive, TypeOK
  <2>2. QED  BY <1>1, <2>1 DEF Arrive, TypeOK
<1>2. CASE Request
  <2>1. poll' \in Polls  BY <1>2 DEF Request, From, Polls, TypeOK
  <2>2. QED  BY <1>2, <2>1 DEF Request, TypeOK
<1>3. CASE Answer
  <2>1. Busy  BY <1>3 DEF Answer, Busy
  <2>2. sent[poll.bot] \in Nat  BY <2>1, PollFacts DEF TypeOK
  <2>3. poll' \in {Idle} \cup Polls  BY <1>3, <2>1, <2>2, PollFacts DEF Answer
  <2>4. QED  BY <1>3, <2>3 DEF Answer, TypeOK
<1>4. CASE AnswerFails
  BY <1>4 DEF AnswerFails, TypeOK
<1>5. CASE Take
  <2>1. Busy  BY <1>5 DEF Take, Busy
  <2>2. poll' \in Polls  BY <1>5, <2>1, PollFacts DEF Take
  <2>3. poll.next \in Nat  BY <2>1, PollFacts
  <2>4. span \in [lo : Nat, hi : Nat] /\ offset \in Nat  BY DEF TypeOK
  <2>5. poll.next + 1 \in Nat /\ span \in [lo : Nat, hi : Nat] /\ offset \in Nat
    BY <2>3, <2>4
  <2>6. offset' \in Nat  BY <1>5, <2>5 DEF Take
  <2>7. span' \in [lo : Nat, hi : Nat]  BY <1>5, <2>5 DEF Take
  <2>8. QED  BY <1>5, <2>2, <2>6, <2>7 DEF Take, TypeOK
<1>6. CASE SaveTaken
  <2>1. Busy  BY <1>6 DEF SaveTaken, Busy
  <2>2. poll' \in Polls  BY <1>6, <2>1, PollFacts DEF SaveTaken
  <2>3. QED  BY <1>6, <2>2, SaveFacts DEF SaveTaken, TypeOK
<1>7. CASE Push
  <2>1. Busy  BY <1>7 DEF Push, Busy
  <2>2. Key \in Update /\ poll' \in Polls  BY <1>7, <2>1, PollFacts DEF Push, Key, Update
  <2>3. ring' \in [1 .. RingSize -> Update \cup {NoKey}]
    BY <1>7, <2>2, RingFacts DEF Push, TypeOK
  <2>4. top' \in Nat  BY <1>7, <2>1, PollFacts DEF Push, TypeOK
  <2>5. QED  BY <1>7, <2>2, <2>3, <2>4 DEF Push, TypeOK
<1>8. CASE BatchDone
  <2>1. poll' = Idle  BY <1>8 DEF BatchDone
  <2>2. QED  BY <1>8, <2>1, SaveFacts DEF BatchDone, TypeOK
<1>9. CASE Restart
  <2>1. InFlight \subseteq Update
    <3>1. CASE poll.at \in {"save", "push"}
      <4>1. Busy  BY <3>1 DEF Busy
      <4>2. poll.bot \in Bots /\ poll.next \in Nat  BY <4>1, PollFacts
      <4>3. InFlight = {<<poll.bot, poll.next>>}  BY <3>1 DEF InFlight
      <4>4. QED  BY <4>2, <4>3 DEF Update
    <3>2. QED  BY <3>1 DEF InFlight
  <2>2. upset' \subseteq Upsets  BY <1>9 DEF Restart, TypeOK, Upsets
  <2>3. dropped' \subseteq Update  BY <1>9, <2>1 DEF Restart, TypeOK
  <2>4. QED  BY <1>9, <2>2, <2>3, CountFacts, RingFacts DEF Restart, TypeOK
<1>10. CASE Connected
  <2>1. kv.token \in Bots \cup {NoBot} /\ kv.offset \in Nat  BY DEF TypeOK, Stores
  <2>2. upset' \subseteq Upsets  BY <1>10 DEF Connected, TypeOK, Upsets
  <2>3. QED  BY <1>10, <2>1, <2>2, CountFacts DEF Connected, TypeOK
<1>11. CASE Loaded
  <2>1. Started \in {Asleep, Idle} \cup Polls  BY DEF Started, TypeOK
  <2>2. upset' \subseteq Upsets  BY <1>11 DEF Loaded, TypeOK, Upsets
  <2>3. span' \in [lo : Nat, hi : Nat] /\ offset' \in Nat /\ last' \in Nat
    BY <1>11 DEF Loaded, TypeOK
  <2>4. QED  BY <1>11, <2>1, <2>2, <2>3 DEF Loaded, TypeOK
<1>12. ASSUME NEW b \in Bots, SetToken(b) PROVE TypeOK'
  <2>1. upset' \subseteq Upsets  BY <1>12 DEF SetToken, TypeOK, Upsets
  <2>2. QED  BY <1>12, <2>1, CountFacts DEF SetToken, TypeOK
<1>13. CASE ForgetOffset
  <2>1. kv' \in Stores  BY <1>13 DEF ForgetOffset, TypeOK, Stores
  <2>2. cli' \in [at : {"forget", "store"}, bot : Bots]
    BY <1>13 DEF ForgetOffset, TypeOK, Quiet
  <2>3. QED  BY <1>13, <2>1, <2>2 DEF ForgetOffset, TypeOK
<1>14. CASE StoreToken
  <2>1. kv' \in Stores
    <3>1. cli.bot \in Bots  BY <1>14 DEF StoreToken, TypeOK, Quiet
    <3>2. kv \in Stores /\ kv' = [kv EXCEPT !.token = cli.bot]
      BY <1>14 DEF StoreToken, TypeOK
    <3>3. QED  BY <3>1, <3>2 DEF Stores
  <2>2. QED  BY <1>14, <2>1 DEF StoreToken, TypeOK
<1>15. QED
  BY <1>1, <1>2, <1>3, <1>4, <1>5, <1>6, <1>7, <1>8, <1>9, <1>10, <1>11, <1>12, <1>13, <1>14
     DEF Next, Polling, Changing

-----------------------------------------------------------------------------
\* Which bot is whose.
LEMMA BotStep ==
    ASSUME TypeOK, InvBot, Next
    PROVE  InvBot'
PROOF
<1> USE DEF InvBot, Crossed, Busy
<1>1. ASSUME NEW b \in Bots, Arrive(b) PROVE InvBot'
  BY <1>1 DEF Arrive
<1>2. CASE Request
  <2>1. poll'.next > 0 /\ poll'.bot = token
    BY <1>2 DEF Request, From, TypeOK
  <2>2. poll # Asleep  BY <1>2 DEF Request, Asleep
  <2>3. token # NoBot  BY <1>2 DEF Request
  <2>4. QED  BY <1>2, <2>1, <2>2, <2>3 DEF Request
<1>3. CASE Answer
  <2>1. token # NoBot \/ Crossed  BY <1>3 DEF Answer, Asleep
  <2>2. poll \in Polls  BY <1>3, PollFacts DEF Answer
  <2>3. poll' = Idle \/ (poll'.bot = poll.bot /\ poll'.next = poll.next)
    <3>1. poll' = Idle \/ poll' = [poll EXCEPT !.at = "take", !.to = sent[poll.bot]]
      BY <1>3 DEF Answer
    <3>2. ASSUME poll' = [poll EXCEPT !.at = "take", !.to = sent[poll.bot]]
          PROVE  poll'.bot = poll.bot /\ poll'.next = poll.next
      BY <2>2, <3>2 DEF Polls
    <3>3. QED  BY <3>1, <3>2
  <2>4. Idle.at = "idle"  BY DEF Idle, Asleep
  <2>5. Busy  BY <1>3 DEF Answer
  <2>6. QED  BY <1>3, <2>1, <2>3, <2>4, <2>5 DEF Answer
<1>4. CASE AnswerFails
  <2>1. token # NoBot \/ Crossed  BY <1>4 DEF AnswerFails, Asleep
  <2>2. Idle.at = "idle"  BY DEF Idle, Asleep
  <2>3. QED  BY <1>4, <2>1, <2>2 DEF AnswerFails
<1>5. CASE Take
  <2>1. token # NoBot \/ Crossed  BY <1>5 DEF Take, Asleep
  <2>2. Busy  BY <1>5 DEF Take
  <2>3. poll'.bot = poll.bot /\ poll'.next \in {poll.next, poll.next + 1}
    <3>1. poll \in Polls  BY <2>2, PollFacts
    <3>2. poll' = [poll EXCEPT !.next = @ + 1] \/ poll' = [poll EXCEPT !.at = "save"]
      BY <1>5 DEF Take
    <3>3. QED  BY <3>1, <3>2 DEF Polls
  <2>4. poll.next \in Nat  BY <2>2, PollFacts
  <2>5. ~Crossed => poll'.next > 0  BY <2>2, <2>3, <2>4
  <2>6. QED  BY <1>5, <2>1, <2>2, <2>3, <2>5 DEF Take
<1>6. CASE SaveTaken
  <2>1. token # NoBot \/ Crossed  BY <1>6 DEF SaveTaken, Asleep
  <2>2. Busy  BY <1>6 DEF SaveTaken
  <2>3. poll'.bot = poll.bot /\ poll'.next = poll.next
    BY <1>6, <2>2, PollFacts DEF SaveTaken, Polls
  <2>4. QED  BY <1>6, <2>1, <2>2, <2>3, SaveFacts DEF SaveTaken
<1>7. CASE Push
  <2>1. token # NoBot \/ Crossed  BY <1>7 DEF Push, Asleep
  <2>2. Busy  BY <1>7 DEF Push
  <2>3. poll'.bot = poll.bot /\ poll'.next = poll.next + 1
    BY <1>7, <2>2, PollFacts DEF Push, Polls
  <2>4. poll.next \in Nat  BY <2>2, PollFacts
  <2>5. ~Crossed => poll'.next > 0  BY <2>2, <2>3, <2>4
  <2>6. QED  BY <1>7, <2>1, <2>2, <2>3, <2>5 DEF Push
<1>8. CASE BatchDone
  <2>1. token # NoBot \/ Crossed  BY <1>8 DEF BatchDone, Asleep
  <2>2. Idle.at = "idle"  BY DEF Idle, Asleep
  <2>3. QED  BY <1>8, <2>1, <2>2, SaveFacts DEF BatchDone
<1>9. CASE Restart
  <2>1. Asleep.at = "none"  BY DEF Asleep
  <2>2. QED  BY <1>9, <2>1 DEF Restart
<1>10. CASE Connected
  BY <1>10 DEF Connected, TypeOK, Stores, Asleep
<1>11. CASE Loaded
  <2>1. upset' \cap {"crossed"} = upset \cap {"crossed"}  BY <1>11 DEF Loaded
  <2>2. Started = poll \/ (Started = Idle /\ token # NoBot)  BY DEF Started
  <2>3. Idle.at = "idle" /\ Idle # Asleep  BY DEF Idle, Asleep
  <2>4. QED  BY <1>11, <2>1, <2>2, <2>3 DEF Loaded
<1>12. ASSUME NEW b \in Bots, SetToken(b) PROVE InvBot'
  <2>1. b # NoBot /\ cli' # Quiet /\ cli'.bot = b
    BY <1>12, BotAssumption DEF SetToken, Quiet
  <2>2. CASE Busy \/ link # -1
    BY <1>12, <2>2 DEF SetToken
  <2>3. CASE ~(Busy \/ link # -1)
    BY <1>12, <2>1, <2>3 DEF SetToken
  <2>4. QED  BY <2>2, <2>3
<1>13. CASE ForgetOffset
  <2>1. cli # Quiet /\ cli' # Quiet /\ cli'.bot = cli.bot
    BY <1>13 DEF ForgetOffset, TypeOK, Quiet
  <2>2. QED  BY <1>13, <2>1 DEF ForgetOffset
<1>14. CASE StoreToken
  <2>1. cli # Quiet /\ kv'.token = cli.bot
    BY <1>14 DEF StoreToken, TypeOK, Stores, Quiet
  <2>2. QED  BY <1>14, <2>1 DEF StoreToken
<1>15. QED
  BY <1>1, <1>2, <1>3, <1>4, <1>5, <1>6, <1>7, <1>8, <1>9, <1>10, <1>11, <1>12, <1>13, <1>14
     DEF Next, Polling, Changing

\* What is accounted for stays so.
LEMMA AccountGrows ==
    ASSUME TypeOK, Next
    PROVE  Accounted \subseteq Accounted'
PROOF
<1> USE DEF Accounted, InFlight
<1>1. ASSUME NEW b \in Bots, Arrive(b) PROVE Accounted \subseteq Accounted'
  BY <1>1 DEF Arrive
<1>2. CASE Request
  BY <1>2 DEF Request
<1>3. CASE Answer
  BY <1>3 DEF Answer
<1>4. CASE AnswerFails
  BY <1>4 DEF AnswerFails
<1>5. CASE Take
  BY <1>5 DEF Take
<1>6. CASE SaveTaken
  <2>1. Busy  BY <1>6 DEF SaveTaken, Busy
  <2>2. poll' = [poll EXCEPT !.at = "push"]  BY <1>6 DEF SaveTaken
  <2>3. poll'.at = "push" /\ poll'.bot = poll.bot /\ poll'.next = poll.next
    BY <2>1, <2>2, PollFacts DEF Polls
  <2>4. QED  BY <1>6, <2>3 DEF SaveTaken
<1>7. CASE Push
  BY <1>7 DEF Push, Key
<1>8. CASE BatchDone
  BY <1>8 DEF BatchDone
<1>9. CASE Restart
  BY <1>9 DEF Restart
<1>10. CASE Connected
  BY <1>10 DEF Connected
<1>11. CASE Loaded
  BY <1>11 DEF Loaded, Started, Asleep
<1>12. ASSUME NEW b \in Bots, SetToken(b) PROVE Accounted \subseteq Accounted'
  BY <1>12 DEF SetToken
<1>13. CASE ForgetOffset
  BY <1>13 DEF ForgetOffset
<1>14. CASE StoreToken
  BY <1>14 DEF StoreToken
<1>15. QED
  BY <1>1, <1>2, <1>3, <1>4, <1>5, <1>6, <1>7, <1>8, <1>9, <1>10, <1>11, <1>12, <1>13, <1>14
     DEF Next, Polling, Changing

\* Facts about a number up to which all are in a set.
LEMMA UptoFacts ==
    ASSUME NEW b, NEW o \in Int, NEW S, NEW T
    PROVE  /\ o < 2 => Upto(b, o, S)
           /\ Upto(b, o, S) /\ S \subseteq T => Upto(b, o, T)
           /\ Upto(b, o, S) /\ <<b, o>> \in S => Upto(b, o + 1, S)
           /\ \A p \in Int : Upto(b, o, S) /\ p <= o => Upto(b, p, S)
PROOF
  <1>1. o < 2 => Upto(b, o, S)  BY DEF Upto
  <1>2. Upto(b, o, S) /\ S \subseteq T => Upto(b, o, T)  BY DEF Upto
  <1>3. Upto(b, o, S) /\ <<b, o>> \in S => Upto(b, o + 1, S)
    <2>1. \A u \in Nat : u < o + 1 => u < o \/ u = o  OBVIOUS
    <2>2. QED  BY <2>1 DEF Upto
  <1>4. \A p \in Int : Upto(b, o, S) /\ p <= o => Upto(b, p, S)
    <2>1. \A p \in Int, u \in Nat : p <= o /\ u < p => u < o  OBVIOUS
    <2>2. QED  BY <2>1 DEF Upto
  <1>5. QED  BY <1>1, <1>2, <1>3, <1>4

\* Every number up to which the updates are passed has only updates below it
\* that there is an account of.
LEMMA DoneStep ==
    ASSUME TypeOK, InvBot, InvDone, Next
    PROVE  InvDone'
PROOF
<1>1. \A b, o : o \in Int /\ Upto(b, o, Accounted) => Upto(b, o, Accounted')
  BY AccountGrows, UptoFacts
<1>2. offset \in Int /\ link \in Int /\ kv.offset \in Int /\ token \in Bots \cup {NoBot}
  BY DEF TypeOK, Stores
<1> USE DEF InvDone, Done, Crossed
<1>3. InvDone' <=>
        (~Crossed' => /\ Upto(token', offset', Accounted')
                      /\ link' # -1 => Upto(token', link', Accounted')
                      /\ cli' = Quiet => Upto(kv'.token, kv'.offset, Accounted')
                      /\ cli'.at = "store" => Upto(token', kv'.offset, Accounted')
                      /\ Busy' => Upto(token', poll'.next, Accounted'))
  BY DEF Quiet
<1>4. ASSUME Busy PROVE poll.next \in Nat
  BY <1>4, PollFacts
<1>5. \A b, o, S : o \in Int /\ o < 2 => Upto(b, o, S)
  BY UptoFacts
<1>6. ASSUME Busy, ~Crossed
      PROVE  token # NoBot /\ poll.bot = token /\ (cli = Quiet => kv.token = token)
  BY <1>6 DEF InvBot, Busy, Asleep
<1>7. ASSUME NEW b \in Bots, Arrive(b) PROVE InvDone'
  BY <1>1, <1>2, <1>3, <1>4, <1>7 DEF Arrive, Busy
<1>8. CASE Request
  <2>1. poll'.next = offset \/ (poll'.next = 1 /\ offset = 0)  BY <1>8 DEF Request, From
  <2>2. poll'.next = 1 => Upto(token, poll'.next, Accounted')  BY <1>5
  <2>3. QED  BY <1>1, <1>2, <1>3, <1>8, <2>1, <2>2 DEF Request
<1>9. CASE Answer
  <2>1. Busy /\ poll \in Polls  BY <1>9, PollFacts DEF Answer, Busy
  <2>2. poll' = Idle \/ poll' = [poll EXCEPT !.at = "take", !.to = sent[poll.bot]]
    BY <1>9 DEF Answer
  <2>3. Busy' => poll'.next = poll.next
    BY <2>1, <2>2 DEF Busy, Idle, Asleep, Polls
  <2>4. QED  BY <1>1, <1>2, <1>3, <1>4, <1>9, <2>1, <2>3 DEF Answer
<1>10. CASE AnswerFails
  <2>1. ~Busy'  BY <1>10 DEF AnswerFails, Busy, Idle, Asleep
  <2>2. QED  BY <1>1, <1>2, <1>3, <1>10, <2>1 DEF AnswerFails
<1>11. CASE Take
  <2>1. Busy /\ poll \in Polls  BY <1>11, PollFacts DEF Take, Busy
  <2>2. CASE poll.next < offset
    <3>1. poll'.next = poll.next + 1  BY <1>11, <2>1, <2>2 DEF Take, Polls
    <3>2. poll.next + 1 \in Int /\ poll.next + 1 <= offset  BY <1>2, <1>4, <2>1, <2>2
    <3>3. Upto(token, offset, Accounted) => Upto(token, poll.next + 1, Accounted)
      BY <1>2, <3>2, UptoFacts
    <3>4. QED  BY <1>1, <1>2, <1>3, <1>11, <2>2, <3>1, <3>2, <3>3 DEF Take
  <2>3. CASE ~(poll.next < offset)
    <3>1. poll'.next = poll.next /\ poll'.bot = poll.bot /\ poll'.at = "save"
      BY <1>11, <2>1, <2>3 DEF Take, Polls
    <3>2. <<poll.bot, poll.next>> \in Accounted'  BY <3>1 DEF Accounted, InFlight
    <3>3. poll.next \in Int  BY <1>4, <2>1
    <3>4. ~Crossed => Upto(token, poll.next, Accounted')  BY <1>1, <2>1, <3>3
    <3>5. ~Crossed => Upto(token, poll.next + 1, Accounted')
      BY <1>6, <2>1, <3>2, <3>3, <3>4, UptoFacts
    <3>6. QED  BY <1>1, <1>2, <1>3, <1>11, <2>3, <3>1, <3>3, <3>4, <3>5 DEF Take
  <2>4. QED  BY <2>2, <2>3
<1>12. CASE SaveTaken
  <2>1. Busy /\ poll \in Polls  BY <1>12, PollFacts DEF SaveTaken, Busy
  <2>2. poll'.next = poll.next  BY <1>12, <2>1 DEF SaveTaken, Polls
  <2>3. QED
    BY <1>1, <1>2, <1>3, <1>4, <1>6, <1>12, <2>1, <2>2, SaveFacts DEF SaveTaken
<1>13. CASE Push
  <2>1. Busy /\ poll \in Polls /\ poll.at = "push"  BY <1>13, PollFacts DEF Push, Busy
  <2>2. poll'.next = poll.next + 1  BY <1>13, <2>1 DEF Push, Polls
  <2>3. Key \in Accounted'  BY <1>13 DEF Push, Accounted
  <2>4. poll.next \in Int  BY <1>4, <2>1
  <2>5. ~Crossed => Upto(token, poll.next, Accounted')  BY <1>1, <2>1, <2>4
  <2>6. ~Crossed => Upto(token, poll.next + 1, Accounted')
    BY <1>6, <2>1, <2>3, <2>4, <2>5, UptoFacts DEF Key
  <2>7. QED  BY <1>1, <1>2, <1>3, <1>13, <2>2, <2>6 DEF Push
<1>14. CASE BatchDone
  <2>1. Busy /\ ~Busy'  BY <1>14 DEF BatchDone, Busy, Idle, Asleep
  <2>2. QED  BY <1>1, <1>2, <1>3, <1>6, <1>14, <2>1, SaveFacts DEF BatchDone
<1>15. CASE Restart
  <2>1. ~Busy' /\ offset' = 0 /\ link' = -1 /\ cli' = Quiet /\ Quiet.at = "none"
    BY <1>15 DEF Restart, Busy, Asleep, Quiet
  <2>2. ~Crossed' => ~Crossed /\ cli = Quiet  BY <1>15 DEF Restart
  <2>3. Upto(token', offset', Accounted')  BY <1>5, <2>1
  <2>4. kv' = kv  BY <1>15 DEF Restart
  <2>5. QED  BY <1>1, <1>2, <1>3, <2>1, <2>2, <2>3, <2>4
<1>16. CASE Connected
  <2>1. ASSUME ~Crossed' PROVE ~Crossed /\ cli = Quiet  BY <1>16, <2>1 DEF Connected
  <2>2. Busy' <=> Busy  BY <1>16 DEF Connected, Busy
  <2>3. ASSUME token = NoBot, ~Crossed PROVE offset < 2 /\ ~Busy
    <3>1. ~Busy  BY <2>3 DEF InvBot, Busy, Asleep
    <3>2. \A u \in Nat : <<NoBot, u>> \notin Accounted
      BY <3>1, BotAssumption DEF Accounted, InFlight, Busy, TypeOK, Update
    <3>3. Upto(NoBot, offset, Accounted)  BY <2>3
    <3>4. 1 < offset => <<NoBot, 1>> \in Accounted  BY <3>3 DEF Upto
    <3>5. QED  BY <1>2, <3>1, <3>2, <3>4
  <2>4. ~Crossed' => Upto(token', offset', Accounted')
    <3>1. CASE token = NoBot  BY <1>2, <1>5, <1>16, <2>1, <2>3, <3>1 DEF Connected
    <3>2. CASE token # NoBot
      <4>1. ~Crossed' => token' = token  BY <1>16, <2>1, <3>2 DEF Connected, InvBot
      <4>2. QED  BY <1>1, <1>2, <1>16, <2>1, <4>1 DEF Connected
    <3>3. QED  BY <3>1, <3>2
  <2>5. ~Crossed' => kv.token = token'
    BY <1>16, <2>1 DEF Connected, InvBot
  <2>6. ~Crossed' /\ Busy => token' = token  BY <1>6, <2>1, <2>5
  <2>7. link' = kv.offset /\ cli' = cli /\ kv' = kv /\ poll' = poll
    BY <1>16 DEF Connected
  <2>8. Quiet.at # "store"  BY DEF Quiet
  <2>9. QED  BY <1>1, <1>2, <1>3, <1>4, <2>1, <2>2, <2>4, <2>5, <2>6, <2>7, <2>8
<1>17. CASE Loaded
  <2>1. Crossed' <=> Crossed  BY <1>17 DEF Loaded
  <2>2. offset' = offset \/ (offset' = link /\ link # -1)  BY <1>17 DEF Loaded
  <2>3. Busy' => Busy /\ poll' = poll
    BY <1>17 DEF Loaded, Started, Busy, Idle, Asleep
  <2>4. link' = -1 /\ UNCHANGED <<token, kv, cli>>  BY <1>17 DEF Loaded
  <2>5. QED  BY <1>1, <1>2, <1>3, <1>4, <2>1, <2>2, <2>3, <2>4
<1>18. ASSUME NEW b \in Bots, SetToken(b) PROVE InvDone'
  <2>1. ~Crossed' => ~Busy' /\ link' = -1  BY <1>18 DEF SetToken, Busy
  <2>2. Upto(token', offset', Accounted')  BY <1>5, <1>18 DEF SetToken
  <2>3. cli'.at = "forget" /\ cli' # Quiet  BY <1>18 DEF SetToken, Quiet
  <2>4. QED  BY <1>3, <2>1, <2>2, <2>3
<1>19. CASE ForgetOffset
  <2>1. kv'.offset = 0  BY <1>19 DEF ForgetOffset, TypeOK, Stores
  <2>2. \A x : Upto(x, kv'.offset, Accounted')  BY <1>5, <2>1
  <2>3. (Crossed' <=> Crossed) /\ (Busy' <=> Busy) /\ UNCHANGED <<token, offset, poll, link>>
    BY <1>19 DEF ForgetOffset, Busy
  <2>4. QED  BY <1>1, <1>2, <1>3, <1>4, <2>2, <2>3
<1>20. CASE StoreToken
  <2>1. cli # Quiet /\ kv'.token = cli.bot /\ kv'.offset = kv.offset
    BY <1>20 DEF StoreToken, TypeOK, Stores, Quiet
  <2>2. ~Crossed => cli.bot = token  BY <2>1 DEF InvBot
  <2>3. cli.at = "store" /\ cli' = Quiet /\ Quiet.at # "store"  BY <1>20 DEF StoreToken, Quiet
  <2>4. (Crossed' <=> Crossed) /\ (Busy' <=> Busy) /\ UNCHANGED <<token, offset, poll, link>>
    BY <1>20 DEF StoreToken, Busy
  <2>5. QED  BY <1>1, <1>2, <1>3, <1>4, <2>1, <2>2, <2>3, <2>4
<1>21. QED
  BY <1>7, <1>8, <1>9, <1>10, <1>11, <1>12, <1>13, <1>14, <1>15, <1>16, <1>17, <1>18, <1>19, <1>20
     DEF Next, Polling, Changing

-----------------------------------------------------------------------------
\* What an offset may be, with the highest one hi and the lowest lo.
LEMMA SpanFacts ==
    ASSUME TypeOK
    PROVE  /\ span \in [lo : Nat, hi : Nat] /\ span.lo \in Nat /\ span.hi \in Nat
           /\ offset \in Nat /\ kv.offset \in Nat /\ link \in Int /\ link >= -1
           /\ RingSize \in Nat /\ RingSize > 0
           /\ poll = Asleep \/ poll = Idle \/ (Busy /\ poll \in Polls /\ poll.next \in Nat)
           /\ Asleep # Idle /\ Asleep.at = "none" /\ Idle.at = "idle"
PROOF
  <1>1. /\ span \in [lo : Nat, hi : Nat] /\ span.lo \in Nat /\ span.hi \in Nat
        /\ offset \in Nat /\ kv.offset \in Nat /\ link \in Int /\ link >= -1
    BY DEF TypeOK, Stores
  <1>2. RingSize \in Nat /\ RingSize > 0  BY SizeAssumption
  <1>3. Asleep # Idle /\ Asleep.at = "none" /\ Idle.at = "idle"  BY DEF Asleep, Idle
  <1>4. poll \in Polls => Busy /\ poll.next \in Nat  BY DEF Polls, Busy
  <1>5. poll = Asleep \/ poll = Idle \/ poll \in Polls  BY DEF TypeOK
  <1>6. QED  BY <1>1, <1>2, <1>3, <1>4, <1>5

\* Whatever offset is used lies where this start or token has been.
LEMMA SpanStep ==
    ASSUME TypeOK, InvBot, InvSpan, Next
    PROVE  InvSpan'
PROOF
<1> USE SpanFacts DEF InvSpan, Orderly
<1>1. ASSUME NEW b \in Bots, Arrive(b) PROVE InvSpan'
  BY <1>1 DEF Arrive, Busy
<1>2. CASE Request
  <2>1. poll # Asleep /\ poll'.next = From(offset) /\ poll'.at = "wait" /\ poll' # Asleep
    BY <1>2 DEF Request, Asleep
  <2>2. ASSUME Orderly PROVE From(offset) <= From(span.hi)
    BY <2>2 DEF From
  <2>3. QED  BY <1>2, <2>1, <2>2 DEF Request
<1>3. CASE Answer
  <2>1. Busy /\ poll \in Polls  BY <1>3 DEF Answer, Busy
  <2>2. poll' = Idle \/ poll' = [poll EXCEPT !.at = "take", !.to = sent[poll.bot]]
    BY <1>3 DEF Answer
  <2>3. /\ Busy' => poll'.next = poll.next
        /\ poll # Asleep /\ poll' # Asleep /\ poll'.at \in {"idle", "take"}
    BY <2>1, <2>2 DEF Busy, Idle, Asleep, Polls
  <2>4. QED  BY <1>3, <2>1, <2>3 DEF Answer
<1>4. CASE AnswerFails
  <2>1. poll # Asleep /\ ~Busy'  BY <1>4 DEF AnswerFails, Busy
  <2>2. QED  BY <1>4, <2>1 DEF AnswerFails
<1>5. CASE Take
  <2>1. Busy /\ poll \in Polls /\ poll # Asleep  BY <1>5 DEF Take, Busy
  <2>5. poll.next \in Nat /\ span.hi \in Nat /\ span.lo \in Nat /\ offset \in Nat
    BY <2>1 DEF Polls
  <2>6. ASSUME Orderly
        PROVE  /\ span.lo <= offset /\ offset <= span.hi /\ span.hi - offset <= RingSize
               /\ link <= span.hi /\ (cli.at = "forget" \/ kv.offset <= span.hi)
               /\ kv.offset = 0 \/ span.lo <= kv.offset
               /\ link < 1 \/ span.lo <= link
    BY <2>1, <2>6
  <2>2. CASE poll.next < offset
    <3>1. poll'.next = poll.next + 1 /\ poll'.at = "take" /\ poll' # Asleep
      BY <1>5, <2>1, <2>2 DEF Take, Polls, Asleep
    <3>2. ASSUME Orderly PROVE poll.next + 1 <= From(span.hi)
      BY <2>2, <2>5, <2>6, <3>2 DEF From
    <3>3. QED  BY <1>5, <2>1, <2>2, <3>1, <3>2 DEF Take
  <2>3. CASE ~(poll.next < offset)
    <3>1. poll'.next = poll.next /\ poll'.at = "save" /\ poll' # Asleep
      BY <1>5, <2>1, <2>3 DEF Take, Polls, Asleep
    <3>2. /\ offset' = poll.next + 1 /\ span'.lo = span.lo
          /\ span'.hi = IF span.hi > poll.next THEN span.hi ELSE poll.next + 1
      BY <1>5, <2>3 DEF Take
    <3>3. ring' = ring /\ kv' = kv /\ link' = link /\ cli' = cli /\ upset' = upset
      BY <1>5 DEF Take
    <3>4. poll'.next < span'.hi /\ span.hi <= span'.hi /\ offset' <= span'.hi
          /\ From(span'.hi) = span'.hi
      BY <2>5, <3>1, <3>2 DEF From
    <3>5. ASSUME Orderly
          PROVE  /\ span.lo <= poll.next /\ span'.hi - poll.next <= RingSize
                 /\ span'.hi - offset' <= RingSize /\ span'.lo <= offset'
      BY <2>3, <2>5, <2>6, <3>2, <3>5
    <3>6. span'.hi \in Nat /\ Busy'  BY <2>5, <3>1, <3>2 DEF Busy
    <3>7. poll # Asleep /\ poll' # Asleep  BY <2>1, <3>1
    <3>8. ASSUME Orderly' PROVE link' <= span'.hi /\ (cli'.at = "forget" \/ kv'.offset <= span'.hi)
      BY <2>5, <2>6, <3>3, <3>4, <3>6, <3>8
    <3>9. QED  BY <2>5, <2>6, <3>1, <3>2, <3>3, <3>4, <3>5, <3>6, <3>7, <3>8
  <2>7. QED  BY <2>2, <2>3
<1>6. CASE SaveTaken
  <2>1. Busy /\ poll \in Polls /\ poll # Asleep  BY <1>6 DEF SaveTaken, Busy
  <2>2. poll'.next = poll.next /\ poll'.at = "push" /\ poll' # Asleep
    BY <1>6, <2>1 DEF SaveTaken, Polls, Asleep
  <2>3. Orderly' => Orderly /\ kv'.offset \in {kv.offset, offset}
    BY <1>6, SaveFacts DEF SaveTaken
  <2>4. QED  BY <1>6, <2>1, <2>2, <2>3 DEF SaveTaken
<1>7. CASE Push
  <2>1. Busy /\ poll \in Polls /\ poll # Asleep  BY <1>7 DEF Push, Busy
  <2>2. poll'.next = poll.next + 1 /\ poll'.at = "take" /\ poll' # Asleep
    BY <1>7, <2>1 DEF Push, Polls, Asleep
  <2>3. ASSUME Orderly PROVE poll.next + 1 <= From(span.hi)
    BY <1>7, <2>1, <2>3 DEF Push, From
  <2>4. QED  BY <1>7, <2>1, <2>2, <2>3 DEF Push
<1>8. CASE BatchDone
  <2>1. poll # Asleep /\ ~Busy'  BY <1>8 DEF BatchDone, Busy
  <2>2. Orderly' => Orderly /\ kv'.offset \in {kv.offset, offset}
    BY <1>8, SaveFacts DEF BatchDone
  <2>3. QED  BY <1>8, <2>1, <2>2 DEF BatchDone
<1>9. CASE Restart
  <2>1. ~Busy' /\ poll'.at = "none"  BY <1>9 DEF Restart, Busy
  <2>2. \A i \in 1 .. RingSize : ring'[i] = NoKey  BY <1>9 DEF Restart
  <2>3. QED  BY <1>9, <2>1, <2>2 DEF Restart
<1>10. CASE Connected
  <2>1. Orderly' => Orderly /\ cli = Quiet  BY <1>10 DEF Connected
  <2>2. Quiet.at # "forget"  BY DEF Quiet
  <2>3. Busy' <=> Busy  BY <1>10 DEF Connected, Busy
  <2>4. QED  BY <1>10, <2>1, <2>2, <2>3 DEF Connected
<1>11. CASE Loaded
  <2>1. poll' = poll \/ (poll = Asleep /\ poll' = Idle)  BY <1>11 DEF Loaded, Started
  <2>2. CASE link = 0
    BY <1>11, <2>1, <2>2 DEF Loaded, Busy
  <2>3. CASE link # 0
    <3>1. offset' = link /\ link >= 1 /\ link' = -1 /\ ring' = ring /\ kv' = kv /\ cli' = cli
      BY <1>11, <2>3 DEF Loaded
    <3>2. Orderly' => Orderly /\ span.hi - link <= RingSize
      BY <1>11, <2>3 DEF Loaded
    <3>3. CASE poll = Asleep /\ span.hi = 0
      <4>1. span'.lo = link /\ span'.hi = link  BY <1>11, <2>3, <3>3 DEF Loaded
      <4>2. QED  BY <2>1, <3>1, <3>2, <3>3, <4>1 DEF Busy
    <3>4. CASE ~(poll = Asleep /\ span.hi = 0)
      <4>1. span' = span  BY <1>11, <2>3, <3>4 DEF Loaded
      <4>2. QED  BY <2>1, <3>1, <3>2, <3>4, <4>1 DEF Busy
    <3>5. QED  BY <3>3, <3>4
  <2>4. QED  BY <2>2, <2>3
<1>12. ASSUME NEW b \in Bots, SetToken(b) PROVE InvSpan'
  <2>1. Orderly' => ~Busy /\ link = -1  BY <1>12 DEF SetToken
  <2>2. offset' = 0 /\ span'.lo = 0 /\ span'.hi = 0 /\ cli'.at = "forget"
    BY <1>12 DEF SetToken
  <2>3. UNCHANGED <<ring, poll, link, kv>>  BY <1>12 DEF SetToken
  <2>4. QED  BY <2>1, <2>2, <2>3 DEF Busy
<1>13. CASE ForgetOffset
  <2>1. kv'.offset = 0  BY <1>13 DEF ForgetOffset, TypeOK, Stores
  <2>2. Orderly => link = -1  BY <1>13 DEF ForgetOffset, InvBot, Crossed, Quiet
  <2>3. QED  BY <1>13, <2>1, <2>2 DEF ForgetOffset, Busy
<1>14. CASE StoreToken
  <2>1. kv'.offset = kv.offset /\ cli.at = "store"
    BY <1>14 DEF StoreToken, TypeOK, Stores
  <2>2. QED  BY <1>14, <2>1 DEF StoreToken, Busy
<1>15. QED
  BY <1>1, <1>2, <1>3, <1>4, <1>5, <1>6, <1>7, <1>8, <1>9, <1>10, <1>11, <1>12, <1>13, <1>14
     DEF Next, Polling, Changing

\* What the ring says when the span, the bot or the ring changes.
LEMMA KeptFacts ==
    ASSUME TypeOK, NEW h \in Nat, NEW lo \in Nat, NEW b \in Bots, h > 0
    PROVE  LET r == [i \in 1 .. RingSize |-> IF i = 1 THEN <<b, h - 1>> ELSE ring[i - 1]]
           IN  /\ Kept(h - 1, lo, b, ring) => Kept(h, lo, b, r)
               /\ \A t \in Nat : Below(h - 1, b, t, ring) =>
                      Below(h, b, t, r) /\ Below(h, b, h - 1, r) /\ Below(h, b, t, ring)
PROOF
  <1> DEFINE r == [i \in 1 .. RingSize |-> IF i = 1 THEN <<b, h - 1>> ELSE ring[i - 1]]
  <1>1. RingSize \in Nat /\ RingSize > 0  BY SizeAssumption
  <1>2. r[1] = <<b, h - 1>> /\ \A i \in 1 .. RingSize : i # 1 => r[i] = ring[i - 1]
    BY <1>1
  <1> HIDE DEF r
  <1>3. ASSUME Kept(h - 1, lo, b, ring) PROVE Kept(h, lo, b, r)
    <2>1. ASSUME NEW u \in Nat, 0 < u, lo <= u, u < h, <<b, u>> \notin Silent, h - u <= RingSize
          PROVE  \E k \in 1 .. RingSize : k <= h - u /\ r[k] = <<b, u>>
      <3>1. CASE u = h - 1
        BY <1>1, <1>2, <3>1
      <3>2. CASE u < h - 1
        <4>1. PICK k \in 1 .. RingSize : k <= h - 1 - u /\ ring[k] = <<b, u>>
          BY <1>1, <1>3, <2>1, <3>2 DEF Kept
        <4>2. k + 1 \in 1 .. RingSize /\ k + 1 <= h - u /\ k + 1 # 1 /\ (k + 1) - 1 = k
          BY <1>1, <2>1, <4>1
        <4>3. r[k + 1] = <<b, u>>  BY <1>2, <4>1, <4>2
        <4>4. QED  BY <4>2, <4>3
      <3>3. QED  BY <2>1, <3>1, <3>2
    <2>2. QED  BY <2>1 DEF Kept
  <1>4. ASSUME NEW t \in Nat, Below(h - 1, b, t, ring)
        PROVE  Below(h, b, t, r) /\ Below(h, b, h - 1, r) /\ Below(h, b, t, ring)
    <2>1. \A k \in 1 .. RingSize : ring[k] # NoKey /\ ring[k][1] = b => ring[k][2] < h
      <3>1. ASSUME NEW k \in 1 .. RingSize, ring[k] # NoKey, ring[k][1] = b PROVE ring[k][2] < h
        <4>1. ring[k][2] \in Nat  BY <3>1, RingFacts DEF Update
        <4>2. ring[k][2] < h - 1  BY <1>4, <3>1 DEF Below
        <4>3. QED  BY <4>1, <4>2
      <3>2. QED  BY <3>1
    <2>2. \A k \in 1 .. RingSize : r[k] # NoKey /\ r[k][1] = b => r[k][2] < h
      <3>1. ASSUME NEW k \in 1 .. RingSize, r[k] # NoKey, r[k][1] = b PROVE r[k][2] < h
        <4>1. CASE k = 1  BY <1>2, <4>1
        <4>2. CASE k # 1
          <5>1. k - 1 \in 1 .. RingSize  BY <1>1, <4>2
          <5>2. QED  BY <1>2, <2>1, <3>1, <4>2, <5>1
        <4>3. QED  BY <4>1, <4>2
      <3>2. QED  BY <3>1
    <2>3. (t = 0 \/ t < h) /\ h - 1 < h  BY <1>4 DEF Below
    <2>4. QED  BY <2>1, <2>2, <2>3 DEF Below
  <1>5. QED  BY <1>3, <1>4 DEF r

\* An empty ring, and a span of nothing.
LEMMA EmptyFacts ==
    ASSUME TypeOK, NEW b \in Bots \cup {NoBot}, NEW r, NEW h \in Nat
    PROVE  /\ Kept(h, h, b, r)
           /\ (\A i \in 1 .. RingSize : r[i] = NoKey) => Below(h, b, 0, r)
PROOF
  BY DEF Kept, Below

\* The messages that a poll may see again are in the ring.
LEMMA RingStep ==
    ASSUME TypeOK, InvBot, InvSpan, InvRing, Next
    PROVE  InvRing'
PROOF
<1> DEFINE All(h, lo, b, t, r) == Kept(h, lo, b, r) /\ Below(h, b, t, r)
<1>1. InvRing' <=>
        (Orderly' => \/ All(span'.hi, span'.lo, token', top', ring')
                     \/ /\ poll'.at \in {"save", "push"} /\ poll'.next = span'.hi - 1
                        /\ All(span'.hi - 1, span'.lo, token', top', ring'))
  BY DEF InvRing
<1>2. Orderly =>
        \/ All(span.hi, span.lo, token, top, ring)
        \/ /\ poll.at \in {"save", "push"} /\ poll.next = span.hi - 1
           /\ All(span.hi - 1, span.lo, token, top, ring)
  BY DEF InvRing
<1>3. ASSUME Busy, Orderly
      PROVE  token \in Bots /\ poll.bot = token /\ poll \in Polls /\ poll.next \in Nat /\ poll.next > 0
  <2>1. ~Crossed  BY <1>3 DEF Orderly, Crossed
  <2>2. poll # Asleep  BY <1>3 DEF Busy, Asleep
  <2>3. QED  BY <1>3, <2>1, <2>2, PollFacts DEF InvBot, TypeOK
<1>4. span.hi \in Nat /\ span.lo \in Nat  BY SpanFacts
<1> USE DEF Orderly
<1>5. ASSUME NEW b \in Bots, Arrive(b) PROVE InvRing'
  <2> HIDE DEF All
  <2>1. QED  BY <1>1, <1>2, <1>5 DEF Arrive
<1>6. CASE Request \/ Answer \/ AnswerFails
  <2> HIDE DEF All
  <2>1. poll.at \notin {"save", "push"}  BY <1>6 DEF Request, Answer, AnswerFails
  <2>2. UNCHANGED <<upset, span, token, top, ring>>  BY <1>6 DEF Request, Answer, AnswerFails
  <2>3. QED  BY <1>1, <1>2, <2>1, <2>2
<1>7. CASE Take
  <2>1. Busy /\ poll.at = "take" /\ UNCHANGED <<upset, token, top, ring>>
    BY <1>7 DEF Take, Busy
  <2>2. Orderly => All(span.hi, span.lo, token, top, ring)  BY <1>2, <2>1
  <2>3. CASE span' = span
    <3> HIDE DEF All
    <3>1. QED  BY <1>1, <2>1, <2>2, <2>3
  <2>4. CASE span' # span
    <3>1. ~(poll.next < offset) /\ span' = [span EXCEPT !.hi = IF @ > poll.next THEN @ ELSE poll.next + 1]
      BY <1>7, <2>4 DEF Take
    <3>2. ~(span.hi > poll.next) /\ span'.hi = poll.next + 1 /\ span'.lo = span.lo
      <4>1. span \in [lo : Nat, hi : Nat]  BY SpanFacts
      <4>2. span.hi > poll.next => span' = span  BY <3>1, <4>1
      <4>3. QED  BY <2>4, <3>1, <4>1, <4>2
    <3>3. poll'.at = "save" /\ poll'.next = poll.next
      <4>1. poll' = [poll EXCEPT !.at = "save"]  BY <1>7, <3>1 DEF Take
      <4>2. poll \in Polls  BY <2>1, PollFacts
      <4>3. QED  BY <4>1, <4>2 DEF Polls
    <3>4. ASSUME Orderly PROVE All(poll.next, span.lo, token, top, ring)
      <4>1. poll.next <= From(span.hi)  BY <2>1, <3>4 DEF InvSpan
      <4>2. CASE poll.next = span.hi
        <5> HIDE DEF All
        <5>1. QED  BY <2>2, <3>4, <4>2
      <4>3. CASE poll.next # span.hi
        <5>1. poll.next = 1 /\ span.hi = 0
          BY <1>3, <1>4, <2>1, <3>2, <3>4, <4>1, <4>3 DEF From
        <5>2. Kept(1, span.lo, token, ring)  BY DEF Kept
        <5>3. Below(0, token, top, ring)  BY <2>2, <3>4, <5>1
        <5>4. \A k \in 1 .. RingSize : ring[k] # NoKey => ring[k][2] \in Nat
          BY RingFacts DEF Update
        <5>5. top \in Nat  BY DEF TypeOK
        <5>6. \A n \in Nat : ~(n < 0)  OBVIOUS
        <5>7. Below(1, token, top, ring)  BY <5>3, <5>4, <5>5, <5>6 DEF Below
        <5>8. QED  BY <5>1, <5>2, <5>7
      <4>4. QED  BY <4>2, <4>3
    <3>5. ASSUME Orderly PROVE poll.next \in Nat  BY <1>3, <2>1, <3>5
    <3> HIDE DEF All
    <3>6. Orderly => poll'.next = span'.hi - 1 /\ span'.hi - 1 = poll.next  BY <3>2, <3>3, <3>5
    <3>7. QED  BY <1>1, <2>1, <3>2, <3>3, <3>4, <3>6
  <2>5. QED  BY <2>3, <2>4
<1>8. CASE SaveTaken
  <2> HIDE DEF All
  <2>1. Busy /\ poll.at = "save" /\ UNCHANGED <<span, token, top, ring>>
    BY <1>8 DEF SaveTaken, Busy
  <2>2. Orderly' => Orderly  BY <1>8, SaveFacts DEF SaveTaken
  <2>3. poll \in Polls  BY <2>1, PollFacts
  <2>4. poll'.at = "push" /\ poll'.next = poll.next  BY <1>8, <2>3 DEF SaveTaken, Polls
  <2>5. QED  BY <1>1, <1>2, <2>1, <2>2, <2>4
<1>9. CASE Push
  <2>1. Busy /\ poll.at = "push" /\ UNCHANGED <<upset, span, token>>
    BY <1>9 DEF Push, Busy
  <2>2. SUFFICES ASSUME Orderly PROVE All(span.hi, span.lo, token, top', ring')
    BY <1>1, <2>1
  <2>3. /\ span.lo <= poll.next /\ poll.next < span.hi /\ span.hi - poll.next <= RingSize
        /\ token \in Bots /\ poll.bot = token /\ poll.next \in Nat /\ poll.next > 0
        /\ span.hi > 0 /\ token # NoBot
    BY <1>3, <1>4, <2>1, <2>2, BotAssumption DEF InvSpan
  <2>4. Key = <<token, poll.next>>  BY <2>3 DEF Key
  <2>5. CASE Unseen
    <3>1. ~Kept(span.hi, span.lo, token, ring)
      <4>1. SUFFICES ASSUME Kept(span.hi, span.lo, token, ring) PROVE FALSE
        OBVIOUS
      <4>2. Key \notin Silent  BY <2>5 DEF Unseen
      <4>3. \E k \in 1 .. RingSize : ring[k] = <<token, poll.next>>
        BY <2>3, <2>4, <4>1, <4>2 DEF Kept
      <4>4. QED  BY <2>4, <2>5, <4>3 DEF Unseen
    <3>2. poll.next = span.hi - 1 /\ All(span.hi - 1, span.lo, token, top, ring)
      BY <1>2, <2>2, <3>1
    <3>3. ring' = [i \in 1 .. RingSize |-> IF i = 1 THEN <<token, span.hi - 1>> ELSE ring[i - 1]]
      BY <1>9, <2>4, <2>5, <3>2 DEF Push
    <3>4. top' = top \/ top' = span.hi - 1  BY <1>9, <2>5, <3>2 DEF Push
    <3>5. top \in Nat  BY DEF TypeOK
    <3>6. Kept(span.hi, span.lo, token, ring')  BY <1>4, <2>3, <3>2, <3>3, KeptFacts
    <3>7. Below(span.hi, token, top, ring') /\ Below(span.hi, token, span.hi - 1, ring')
      BY <1>4, <2>3, <3>2, <3>3, <3>5, KeptFacts
    <3>8. QED  BY <3>4, <3>6, <3>7
  <2>6. CASE ~Unseen
    <3>1. ring' = ring /\ top' = top  BY <1>9, <2>6 DEF Push
    <3>2. CASE All(span.hi, span.lo, token, top, ring)
      BY <3>1, <3>2
    <3>3. CASE poll.next = span.hi - 1 /\ All(span.hi - 1, span.lo, token, top, ring)
      <4>1. \A k \in 1 .. RingSize : ring[k] # Key
        <5>1. SUFFICES ASSUME NEW k \in 1 .. RingSize, ring[k] = Key PROVE FALSE
          OBVIOUS
        <5>2. ring[k] # NoKey /\ ring[k][1] = token /\ ring[k][2] = poll.next
          BY <2>3, <2>4, <5>1 DEF NoKey
        <5>3. ring[k][2] < span.hi - 1  BY <3>3, <5>2 DEF Below
        <5>4. QED  BY <1>4, <3>3, <5>2, <5>3
      <4>2. <<token, span.hi - 1>> \in Silent  BY <2>4, <2>6, <3>3, <4>1 DEF Unseen
      <4>3. Kept(span.hi, span.lo, token, ring)
        <5>1. ASSUME NEW u \in Nat, 0 < u, span.lo <= u, u < span.hi, <<token, u>> \notin Silent,
                     span.hi - u <= RingSize
              PROVE  \E k \in 1 .. RingSize : k <= span.hi - u /\ ring[k] = <<token, u>>
          <6>1. u # span.hi - 1  BY <4>2, <5>1
          <6>2. u < span.hi - 1 /\ (span.hi - 1) - u <= RingSize
            BY <1>4, <5>1, <6>1, SizeAssumption
          <6>3. PICK k \in 1 .. RingSize : k <= (span.hi - 1) - u /\ ring[k] = <<token, u>>
            BY <3>3, <5>1, <6>2 DEF Kept
          <6>4. k <= span.hi - u  BY <1>4, <6>3, SizeAssumption
          <6>5. QED  BY <6>3, <6>4
        <5>2. QED  BY <5>1 DEF Kept
      <4>4. top \in Nat  BY DEF TypeOK
      <4>5. Below(span.hi, token, top, ring)  BY <1>4, <2>3, <3>3, <4>4, KeptFacts
      <4>6. QED  BY <3>1, <4>3, <4>5
    <3>4. QED  BY <1>2, <2>2, <3>2, <3>3
  <2>7. QED  BY <2>5, <2>6
<1>10. CASE BatchDone
  <2> HIDE DEF All
  <2>1. poll.at = "take" /\ UNCHANGED <<span, token, top, ring>>  BY <1>10 DEF BatchDone
  <2>2. Orderly' => Orderly  BY <1>10, SaveFacts DEF BatchDone
  <2>3. QED  BY <1>1, <1>2, <2>1, <2>2
<1>11. CASE Restart
  <2>1. \A i \in 1 .. RingSize : ring'[i] = NoKey  BY <1>11 DEF Restart
  <2>2. token' = NoBot /\ top' = 0 /\ span'.lo = 0 /\ span'.hi = 0  BY <1>11 DEF Restart
  <2>3. Kept(0, 0, NoBot, ring')  BY EmptyFacts
  <2>4. Below(0, NoBot, 0, ring')  BY <2>1 DEF Below
  <2>5. All(0, 0, NoBot, 0, ring')  BY <2>3, <2>4
  <2> HIDE DEF All
  <2>6. QED  BY <1>1, <2>2, <2>5
<1>12. CASE Connected
  <2>1. Orderly' => Orderly /\ cli = Quiet  BY <1>12 DEF Connected
  <2>2. UNCHANGED <<poll, span, top, ring>>  BY <1>12 DEF Connected
  <2>3. CASE token' = token
    <3> HIDE DEF All
    <3>1. QED  BY <1>1, <1>2, <2>1, <2>2, <2>3
  <2>4. CASE token' # token
    <3>1. SUFFICES ASSUME Orderly, cli = Quiet
                   PROVE  All(span.hi, span.lo, token', top, ring)
      BY <1>1, <2>1, <2>2
    <3>2. token = NoBot \/ cli # Quiet  BY <1>12, <2>4, <3>1 DEF Connected, InvBot, Crossed
    <3>3. token = NoBot  BY <3>1, <3>2
    <3>4. poll = Asleep  BY <3>1, <3>3 DEF InvBot, Crossed
    <3>5. \A i \in 1 .. RingSize : ring[i] = NoKey  BY <3>4 DEF InvSpan
    <3>6. All(span.hi, span.lo, NoBot, top, ring)
      BY <1>2, <3>1, <3>3, <3>4, SpanFacts
    <3>7. \A u \in Nat : <<NoBot, u>> \notin Silent
      BY SilentAssumption, BotAssumption
    <3>8. Kept(span.hi, span.lo, token', ring)
      <4>1. SUFFICES ASSUME NEW u \in Nat, 0 < u, span.lo <= u, u < span.hi,
                            span.hi - u <= RingSize
                     PROVE  FALSE
        BY DEF Kept
      <4>2. \E k \in 1 .. RingSize : ring[k] = <<NoBot, u>>
        BY <3>6, <3>7, <4>1 DEF Kept
      <4>3. QED  BY <3>5, <4>1, <4>2 DEF NoKey
    <3>9. Below(span.hi, token', top, ring)  BY <3>5, <3>6 DEF Below
    <3>10. QED  BY <3>8, <3>9
  <2>5. QED  BY <2>3, <2>4
<1>13. CASE Loaded
  <2>1. Orderly' => Orderly  BY <1>13 DEF Loaded
  <2>2. UNCHANGED <<token, top, ring>>  BY <1>13 DEF Loaded
  <2>3. poll' = poll \/ (poll = Asleep /\ poll' = Idle)  BY <1>13 DEF Loaded, Started
  <2>4. CASE span' = span
    <3> HIDE DEF All
    <3>1. poll' = poll \/ poll.at \notin {"save", "push"}  BY <2>3, SpanFacts
    <3>2. QED  BY <1>1, <1>2, <2>1, <2>2, <2>4, <3>1
  <2>5. CASE span' # span
    <3>1. poll = Asleep /\ span.hi = 0 /\ span'.lo = link /\ span'.hi = link /\ link # -1
      BY <1>13, <2>5 DEF Loaded
    <3>2. SUFFICES ASSUME Orderly PROVE All(link, link, token, top, ring)
      BY <1>1, <2>1, <2>2, <3>1
    <3>3. \A i \in 1 .. RingSize : ring[i] = NoKey  BY <3>1 DEF InvSpan
    <3>4. Below(0, token, top, ring)  BY <1>2, <3>1, <3>2, SpanFacts
    <3>5. top = 0  BY <3>4 DEF Below, TypeOK
    <3>6. link \in Nat /\ token \in Bots \cup {NoBot}  BY <3>1 DEF TypeOK
    <3>7. Kept(link, link, token, ring)  BY <3>6, EmptyFacts
    <3>8. Below(link, token, top, ring)  BY <3>3, <3>5 DEF Below
    <3>9. QED  BY <3>7, <3>8
  <2>6. QED  BY <2>4, <2>5
<1>14. ASSUME NEW b \in Bots, SetToken(b) PROVE InvRing'
  <2>1. token' = b /\ top' = 0 /\ span'.lo = 0 /\ span'.hi = 0 /\ ring' = ring
    BY <1>14 DEF SetToken
  <2>2. Orderly' => \A i \in 1 .. RingSize : ring[i][1] # b  BY <1>14 DEF SetToken
  <2>3. Orderly' => All(0, 0, b, 0, ring)
    BY <2>2 DEF Kept, Below
  <2> HIDE DEF All
  <2>4. QED  BY <1>1, <2>1, <2>3
<1>15. CASE ForgetOffset \/ StoreToken
  <2> HIDE DEF All
  <2>1. UNCHANGED <<upset, span, token, top, ring, poll>>  BY <1>15 DEF ForgetOffset, StoreToken
  <2>2. QED  BY <1>1, <1>2, <2>1
<1>16. QED
  BY <1>5, <1>6, <1>7, <1>8, <1>9, <1>10, <1>11, <1>12, <1>13, <1>14, <1>15
     DEF Next, Polling, Changing

-----------------------------------------------------------------------------
\* No variable changes when no step is taken.
LEMMA Stutter ==
    ASSUME TgInv, UNCHANGED vars
    PROVE  TgInv'
PROOF
  <1>1. TypeOK'  BY DEF TgInv, TypeOK, vars
  <1>2. InvBot'  BY DEF TgInv, InvBot, Crossed, Busy, vars
  <1>3. Accounted' = Accounted  BY DEF Accounted, InFlight, vars
  <1>4. InvDone'  BY <1>3 DEF TgInv, InvDone, Done, Crossed, Busy, vars
  <1>5. InvSpan'  BY DEF TgInv, InvSpan, Orderly, Busy, vars
  <1>6. InvRing'  BY DEF TgInv, InvRing, Orderly, vars
  <1>7. QED  BY <1>1, <1>2, <1>4, <1>5, <1>6 DEF TgInv

\* A device that has just been switched on.
LEMMA InitInv ==
    ASSUME Init
    PROVE  TgInv
PROOF
  <1> USE DEF Init
  <1>1. TypeOK
    <2>1. kv \in Stores  BY DEF Stores
    <2>2. ring \in [1 .. RingSize -> Update \cup {NoKey}]  OBVIOUS
    <2>3. count \in Counts  BY DEF Counts
    <2>4. QED  BY <2>1, <2>2, <2>3 DEF TypeOK
  <1>2. poll = Asleep /\ ~Busy /\ cli = Quiet /\ Quiet.at = "none" /\ Asleep.at = "none"
    BY DEF Busy, Asleep, Quiet
  <1>3. InvBot  BY <1>2 DEF InvBot
  <1>4. kv.offset = 0  OBVIOUS
  <1>5. \A b : Upto(b, 0, Accounted)  BY DEF Upto
  <1>6. InvDone  BY <1>2, <1>4, <1>5 DEF InvDone, Done
  <1>7. InvSpan  BY <1>2, <1>4, SizeAssumption DEF InvSpan
  <1>8. InvRing
    <2>1. Kept(0, 0, NoBot, ring) /\ Below(0, NoBot, 0, ring)
      BY <1>1, EmptyFacts
    <2>2. QED  BY <2>1 DEF InvRing
  <1>9. QED  BY <1>1, <1>3, <1>6, <1>7, <1>8 DEF TgInv

\* The inductive invariant holds in every state, for any bots and bounds.
THEOREM TelegramInvariance == Spec => []TgInv
PROOF
  <1>1. Init => TgInv  BY InitInv
  <1>2. TgInv /\ [Next]_vars => TgInv'
    <2>1. ASSUME TgInv, Next PROVE TgInv'
      BY <2>1, TypeStep, BotStep, DoneStep, SpanStep, RingStep DEF TgInv
    <2>2. QED  BY <2>1, Stutter
  <1>3. QED  BY <1>1, <1>2, PTL DEF Spec

\* The variables have their types.
THEOREM TelegramTypes == Spec => []TypeOK
PROOF
  <1>1. TgInv => TypeOK  BY DEF TgInv
  <1>2. QED  BY <1>1, TelegramInvariance, PTL

\* process_updates with seen_msg_contains, and telegram_bot_init in another
\* thread: no message is pushed twice, and none after a later one, as long as no
\* connection sets the offset back further than the ring goes.
THEOREM PushedOnceInOrder == Spec => []PushedInOrder
PROOF
  <1>1. ASSUME TgInv PROVE PushedInOrder
    <2>1. SUFFICES ASSUME poll.at = "push", Unseen, Orderly PROVE poll.next > top
      BY DEF PushedInOrder, Orderly
    <2>2. Busy /\ ~Crossed /\ poll # Asleep
      BY <2>1 DEF Busy, Orderly, Crossed, Asleep
    <2>3. poll.bot = token /\ poll.next \in Nat /\ poll.next > 0 /\ top \in Nat
          /\ span.hi \in Nat /\ span.lo \in Nat
      BY <1>1, <2>2, PollFacts, SpanFacts DEF TgInv, InvBot, TypeOK
    <2>4. span.lo <= poll.next /\ poll.next < span.hi /\ span.hi - poll.next <= RingSize
      BY <1>1, <2>1 DEF TgInv, InvSpan
    <2>5. ~Kept(span.hi, span.lo, token, ring)
      <3>1. SUFFICES ASSUME Kept(span.hi, span.lo, token, ring) PROVE FALSE
        OBVIOUS
      <3>2. Key = <<token, poll.next>> /\ Key \notin Silent  BY <2>1, <2>3 DEF Key, Unseen
      <3>3. \E k \in 1 .. RingSize : ring[k] = <<token, poll.next>>
        BY <2>3, <2>4, <3>1, <3>2 DEF Kept
      <3>4. QED  BY <2>1, <3>2, <3>3 DEF Unseen
    <2>6. poll.next = span.hi - 1 /\ Below(span.hi - 1, token, top, ring)
      BY <1>1, <2>1, <2>5 DEF TgInv, InvRing
    <2>7. top = 0 \/ top < poll.next  BY <2>6 DEF Below
    <2>8. QED  BY <2>3, <2>7
  <1>2. QED  BY <1>1, TelegramInvariance, PTL

\* Every update the offset has passed, in memory or in flash, was looked at,
\* apart from the one a restart cut off.
THEOREM NoUpdateSkipped == Spec => []NothingSkipped
PROOF
  <1>1. ASSUME TgInv PROVE NothingSkipped
    <2>1. SUFFICES ASSUME Settled PROVE Upto(token, Passed, Accounted)
      <3>1. offset \in Nat /\ kv.offset \in Nat  BY <1>1, SpanFacts DEF TgInv
      <3>2. Passed \in Nat  BY <3>1 DEF Passed
      <3>3. \A u \in 1 .. Passed - 1 : u \in Nat /\ 0 < u /\ u < Passed  BY <3>2
      <3>4. QED  BY <3>3 DEF NothingSkipped, Upto
    <2>2. Upto(token, offset, Accounted) /\ Upto(kv.token, kv.offset, Accounted)
      BY <1>1, <2>1 DEF Settled, TgInv, InvDone, Done, Crossed
    <2>3. QED  BY <2>2 DEF Passed
  <1>2. QED  BY <1>1, TelegramInvariance, PTL

-----------------------------------------------------------------------------
\* The counters, and how many connections can have set the offset back.
LEMMA LoadFacts ==
    ASSUME TypeOK
    PROVE  /\ count.boots \in Nat /\ count.links \in Nat /\ count.changes \in Nat
           /\ Loads \in Int /\ Loads <= count.links
           /\ last \in Nat /\ SaveStep \in Nat /\ SaveStep > 0 /\ MaxLinks \in Nat
PROOF
  <1>1. count.boots \in Nat /\ count.links \in Nat /\ count.changes \in Nat
    BY DEF TypeOK, Counts
  <1>2. QED  BY <1>1, SizeAssumption DEF TypeOK, Loads

\* Where a step of the poll goes on.
LEMMA PollMoves ==
    ASSUME TypeOK
    PROVE  /\ Request => poll # Asleep /\ poll'.at = "wait" /\ poll'.next = From(offset)
           /\ Answer => poll # Asleep /\ poll'.at \in {"idle", "take"}
                        /\ (Busy' => Busy /\ poll'.next = poll.next)
           /\ AnswerFails => poll # Asleep /\ poll'.at = "idle"
           /\ Take => /\ Busy /\ poll # Asleep
                      /\ \/ poll.next < offset /\ poll'.at = "take" /\ poll'.next = poll.next + 1
                         \/ ~(poll.next < offset) /\ poll'.at = "save" /\ poll'.next = poll.next
           /\ SaveTaken => Busy /\ poll # Asleep /\ poll'.at = "push" /\ poll'.next = poll.next
           /\ Push => Busy /\ poll # Asleep /\ poll'.at = "take" /\ poll'.next = poll.next + 1
           /\ BatchDone => poll # Asleep /\ poll'.at = "idle"
PROOF
  <1> USE SpanFacts
  <1>1. Request => poll # Asleep /\ poll'.at = "wait" /\ poll'.next = From(offset)
    BY DEF Request
  <1>2. Answer => poll # Asleep /\ poll'.at \in {"idle", "take"}
                  /\ (Busy' => Busy /\ poll'.next = poll.next)
    <2>1. SUFFICES ASSUME Answer
                   PROVE  poll # Asleep /\ poll'.at \in {"idle", "take"}
                          /\ (Busy' => Busy /\ poll'.next = poll.next)
      OBVIOUS
    <2>2. Busy /\ poll \in Polls  BY <2>1, PollFacts DEF Answer, Busy
    <2>3. poll' = Idle \/ poll' = [poll EXCEPT !.at = "take", !.to = sent[poll.bot]]
      BY <2>1 DEF Answer
    <2>4. QED  BY <2>1, <2>2, <2>3 DEF Answer, Polls, Busy
  <1>3. AnswerFails => poll # Asleep /\ poll'.at = "idle"
    BY DEF AnswerFails
  <1>4. Take => /\ Busy /\ poll # Asleep
                /\ \/ poll.next < offset /\ poll'.at = "take" /\ poll'.next = poll.next + 1
                   \/ ~(poll.next < offset) /\ poll'.at = "save" /\ poll'.next = poll.next
    BY DEF Take, Busy, Polls
  <1>5. SaveTaken => Busy /\ poll # Asleep /\ poll'.at = "push" /\ poll'.next = poll.next
    BY DEF SaveTaken, Busy, Polls
  <1>6. Push => Busy /\ poll # Asleep /\ poll'.at = "take" /\ poll'.next = poll.next + 1
    BY DEF Push, Busy, Polls
  <1>7. BatchDone => poll # Asleep /\ poll'.at = "idle"
    BY DEF BatchDone
  <1>8. QED  BY <1>1, <1>2, <1>3, <1>4, <1>5, <1>6, <1>7

\* No offset is above the highest one, and without a connection no thread runs.
LEMMA HighStep ==
    ASSUME TypeOK, InvBot, InvHigh, Next
    PROVE  InvHigh'
PROOF
<1> USE SpanFacts, LoadFacts DEF InvHigh, Crossed, Loads
<1>1. ASSUME NEW b \in Bots, Arrive(b) PROVE InvHigh'
  BY <1>1 DEF Arrive, Busy
<1>2. CASE Request
  <2>1. poll # Asleep /\ poll'.next = From(offset) /\ poll'.at = "wait" /\ poll' # Asleep
    BY <1>2, PollMoves
  <2>2. ASSUME ~Crossed PROVE From(offset) <= From(span.hi)
    BY <2>2 DEF From
  <2>3. QED  BY <1>2, <2>1, <2>2 DEF Request
<1>3. CASE Answer
  <2>1. /\ poll # Asleep /\ poll'.at \in {"idle", "take"} /\ poll' # Asleep
        /\ Busy' => Busy /\ poll'.next = poll.next
    BY <1>3, PollMoves
  <2>2. QED  BY <1>3, <2>1 DEF Answer
<1>4. CASE AnswerFails
  <2>1. poll # Asleep /\ ~Busy' /\ poll'.at = "idle"  BY <1>4, PollMoves DEF Busy
  <2>2. QED  BY <1>4, <2>1 DEF AnswerFails
<1>5. CASE Take
  <2>1. Busy /\ poll # Asleep  BY <1>5, PollMoves
  <2>2. poll.next \in Nat /\ span.hi \in Nat /\ offset \in Nat  BY <2>1, PollFacts
  <2>3. UNCHANGED <<kv, link, cli, upset, count>>  BY <1>5 DEF Take
  <2>4. CASE poll.next < offset
    <3>1. poll'.next = poll.next + 1 /\ poll'.at = "take" /\ poll' # Asleep
      BY <1>5, <2>4, PollMoves
    <3>2. ASSUME ~Crossed PROVE poll.next + 1 <= From(span.hi)
      BY <2>2, <2>4, <3>2 DEF From
    <3>3. UNCHANGED <<offset, span>>  BY <1>5, <2>4 DEF Take
    <3>4. QED  BY <2>1, <2>3, <3>1, <3>2, <3>3
  <2>5. CASE ~(poll.next < offset)
    <3>1. poll'.next = poll.next /\ poll'.at = "save" /\ poll' # Asleep
      BY <1>5, <2>5, PollMoves
    <3>2. /\ offset' = poll.next + 1
          /\ span'.hi = IF span.hi > poll.next THEN span.hi ELSE poll.next + 1
      BY <1>5, <2>5 DEF Take
    <3>3. /\ poll'.next < span'.hi /\ span.hi <= span'.hi /\ offset' <= span'.hi
          /\ From(span'.hi) = span'.hi /\ span'.hi \in Nat
      BY <2>2, <3>1, <3>2 DEF From
    <3>4. QED  BY <2>1, <2>2, <2>3, <3>1, <3>2, <3>3
  <2>6. QED  BY <2>4, <2>5
<1>6. CASE SaveTaken
  <2>1. poll # Asleep /\ poll'.at = "push" /\ poll' # Asleep /\ poll'.next = poll.next /\ Busy
    BY <1>6, PollMoves
  <2>2. Crossed' <=> Crossed  BY <1>6, SaveFacts DEF SaveTaken
  <2>3. kv'.offset \in {kv.offset, offset}  BY <1>6, SaveFacts DEF SaveTaken
  <2>4. UNCHANGED <<offset, link, cli, span, count>>  BY <1>6 DEF SaveTaken
  <2>5. poll.at = "save"  BY <1>6 DEF SaveTaken
  <2>6. QED  BY <2>1, <2>2, <2>3, <2>4, <2>5
<1>7. CASE Push
  <2>1. Busy /\ poll # Asleep /\ poll'.at = "take" /\ poll' # Asleep /\ poll'.next = poll.next + 1
    BY <1>7, PollMoves
  <2>2. ~Crossed => poll.next + 1 <= From(span.hi)  BY <1>7, <2>1 DEF Push, From
  <2>3. QED  BY <1>7, <2>1, <2>2 DEF Push
<1>8. CASE BatchDone
  <2>1. poll # Asleep /\ ~Busy' /\ poll'.at = "idle"  BY <1>8, PollMoves DEF Busy
  <2>2. Crossed' <=> Crossed  BY <1>8, SaveFacts DEF BatchDone
  <2>3. kv'.offset \in {kv.offset, offset}  BY <1>8, SaveFacts DEF BatchDone
  <2>4. UNCHANGED <<offset, link, cli, span, count>>  BY <1>8 DEF BatchDone
  <2>5. QED  BY <2>1, <2>2, <2>3, <2>4
<1>9. CASE Restart
  <2>1. ~Busy' /\ poll' = Asleep /\ offset' = 0 /\ span'.hi = 0 /\ link' = -1
    BY <1>9 DEF Restart, Busy
  <2>2. count'.links = 0  BY <1>9 DEF Restart, TypeOK, Counts
  <2>3. QED  BY <2>1, <2>2
<1>10. CASE Connected
  <2>1. (Crossed' = Crossed /\ cli = Quiet) \/ Crossed'  BY <1>10 DEF Connected
  <2>2. count'.links = count.links + 1 /\ count.links < MaxLinks
    BY <1>10 DEF Connected, TypeOK, Counts
  <2>3. UNCHANGED <<offset, kv, poll, cli, span>> /\ link = -1 /\ link' = kv.offset
    BY <1>10 DEF Connected
  <2>4. Quiet.at # "forget"  BY DEF Quiet
  <2>5. QED  BY <2>1, <2>2, <2>3, <2>4 DEF Busy
<1>11. CASE Loaded
  <2>1. poll' = poll \/ (poll = Asleep /\ poll' = Idle)  BY <1>11 DEF Loaded, Started
  <2>2. link # -1 /\ link' = -1 /\ UNCHANGED <<kv, cli, count>> /\ (Crossed' <=> Crossed)
    BY <1>11 DEF Loaded
  <2>3. count.links > 0  BY <2>2
  <2>4. CASE link = 0
    <3>1. UNCHANGED <<offset, span>>  BY <1>11, <2>4 DEF Loaded
    <3>2. QED  BY <2>1, <2>2, <2>3, <2>4, <3>1 DEF Busy
  <2>5. CASE link # 0
    <3>1. offset' = link /\ link >= 1  BY <1>11, <2>2, <2>5 DEF Loaded
    <3>2. CASE poll = Asleep /\ span.hi = 0
      <4>1. span'.hi = link  BY <1>11, <2>5, <3>2 DEF Loaded
      <4>2. QED  BY <2>1, <2>2, <2>3, <3>1, <3>2, <4>1 DEF Busy
    <3>3. CASE ~(poll = Asleep /\ span.hi = 0)
      <4>1. span' = span  BY <1>11, <2>5, <3>3 DEF Loaded
      <4>2. QED  BY <2>1, <2>2, <2>3, <3>1, <3>3, <4>1 DEF Busy
    <3>4. QED  BY <3>2, <3>3
  <2>6. QED  BY <2>4, <2>5
<1>12. ASSUME NEW b \in Bots, SetToken(b) PROVE InvHigh'
  <2>1. ~Crossed' => ~Busy /\ link = -1  BY <1>12 DEF SetToken
  <2>2. offset' = 0 /\ span'.hi = 0 /\ cli'.at = "forget"  BY <1>12 DEF SetToken
  <2>3. UNCHANGED <<poll, link, kv>>  BY <1>12 DEF SetToken
  <2>4. count'.links = count.links  BY <1>12 DEF SetToken, TypeOK, Counts
  <2>5. QED  BY <2>1, <2>2, <2>3, <2>4 DEF Busy
<1>13. CASE ForgetOffset
  <2>1. kv'.offset = 0  BY <1>13 DEF ForgetOffset, TypeOK, Stores
  <2>2. ~Crossed => link = -1  BY <1>13 DEF ForgetOffset, InvBot, Quiet
  <2>3. UNCHANGED <<offset, poll, link, span, upset, count>>  BY <1>13 DEF ForgetOffset
  <2>4. QED  BY <2>1, <2>2, <2>3 DEF Busy
<1>14. CASE StoreToken
  <2>1. kv'.offset = kv.offset /\ cli.at = "store"
    BY <1>14 DEF StoreToken, TypeOK, Stores
  <2>2. UNCHANGED <<offset, poll, link, span, upset, count>>  BY <1>14 DEF StoreToken
  <2>3. QED  BY <2>1, <2>2 DEF Busy
<1>15. QED
  BY <1>1, <1>2, <1>3, <1>4, <1>5, <1>6, <1>7, <1>8, <1>9, <1>10, <1>11, <1>12, <1>13, <1>14
     DEF Next, Polling, Changing

\* A saving keeps what is stored close behind the highest offset, whether it
\* writes or finds nothing to write yet.
LEMMA SaveBack ==
    ASSUME TypeOK, InvHigh, InvBack, poll # Asleep, Save,
           ~Crossed, "failed" \notin upset', cli.at # "forget", kv'.offset # 0
    PROVE  /\ last' = kv'.offset /\ kv'.offset <= offset
           /\ span.hi - kv'.offset <= SaveStep + Loads - 2
PROOF
<1> USE SpanFacts, LoadFacts
<1>1. offset <= span.hi /\ Loads > 0 /\ "failed" \notin upset
  BY SaveFacts DEF InvHigh, TypeOK
<1>2. CASE offset > 0 /\ kv' = [kv EXCEPT !.offset = offset] /\ last' = offset
  <2>1. kv'.offset = offset  BY <1>2 DEF TypeOK, Stores
  <2>2. CASE offset = span.hi
    BY <1>1, <1>2, <2>1, <2>2
  <2>3. CASE offset # span.hi
    BY <1>1, <1>2, <2>1, <2>3 DEF InvBack, Behind
  <2>4. QED  BY <2>2, <2>3
<1>3. CASE (offset = 0 \/ (last # 0 /\ offset - last < SaveStep)) /\ UNCHANGED <<kv, last>>
  <2>1. kv'.offset = kv.offset /\ last = kv.offset /\ kv.offset <= offset /\ Behind
    BY <1>1, <1>3 DEF InvBack
  <2>2. QED  BY <1>1, <1>3, <2>1 DEF Behind
<1>4. QED  BY <1>2, <1>3 DEF Save

\* What is stored stays within the saving steps and the connections of the
\* highest offset.
LEMMA BackStep ==
    ASSUME TypeOK, InvBot, InvHigh, InvBack, Next
    PROVE  InvBack'
PROOF
<1> USE SpanFacts, LoadFacts DEF Crossed
<1>1. ASSUME NEW b \in Bots, Arrive(b) PROVE InvBack'
  BY <1>1 DEF Arrive, InvBack, Behind, Loads
<1>2. CASE Request \/ Answer \/ AnswerFails
  <2>1. poll # Asleep /\ poll' # Asleep /\ poll.at # "save" /\ poll'.at # "save"
    BY <1>2, PollMoves DEF Request, Answer, AnswerFails
  <2>2. UNCHANGED <<offset, last, kv, link, cli, span, upset, count>>
    BY <1>2 DEF Request, Answer, AnswerFails
  <2>3. QED  BY <2>1, <2>2 DEF InvBack, Behind, Loads
<1>3. CASE Take
  <2>1. Busy /\ poll # Asleep /\ poll' # Asleep /\ poll.at = "take"
    BY <1>3, PollMoves DEF Take
  <2>2. poll.next \in Nat  BY <2>1, PollFacts
  <2>3. UNCHANGED <<last, kv, link, cli, upset, count>>  BY <1>3 DEF Take
  <2>4. CASE poll.next < offset
    <3>1. UNCHANGED <<offset, span>>  BY <1>3, <2>4 DEF Take
    <3>2. QED  BY <2>1, <2>3, <3>1 DEF InvBack, Behind, Loads
  <2>5. CASE ~(poll.next < offset)
    <3>1. poll'.at = "save"  BY <1>3, <2>5, PollMoves
    <3>2. /\ offset' = poll.next + 1
          /\ span'.hi = IF span.hi > poll.next THEN span.hi ELSE poll.next + 1
      BY <1>3, <2>5 DEF Take
    <3>3. ~Crossed => poll.next <= From(span.hi)  BY <2>1 DEF InvHigh
    <3>4. SUFFICES ASSUME ~Crossed, "failed" \notin upset
                   PROVE  /\ cli.at = "forget" \/ kv.offset = 0 => offset' = span'.hi
                          /\ cli.at # "forget" /\ kv.offset # 0 =>
                                 last = kv.offset /\ kv.offset <= offset' /\ Behind'
      BY <2>3 DEF InvBack
    <3>5. ASSUME cli.at = "forget" \/ kv.offset = 0 PROVE offset' = span'.hi
      <4>1. offset = span.hi  BY <3>4, <3>5 DEF InvBack
      <4>2. QED  BY <2>2, <2>5, <3>2, <4>1
    <3>6. ASSUME cli.at # "forget", kv.offset # 0
          PROVE  last = kv.offset /\ kv.offset <= offset' /\ Behind'
      <4>1. last = kv.offset /\ kv.offset <= offset /\ Behind
        BY <2>1, <3>4, <3>6 DEF InvBack
      <4>2. span.hi > 0  BY <3>4, <3>6, <4>1 DEF InvHigh
      <4>3. poll.next <= span.hi  BY <3>3, <3>4, <4>2 DEF From
      <4>4. span.hi - kv.offset <= SaveStep + Loads - 2  BY <2>1, <4>1 DEF Behind
      <4>5. Loads' = Loads  BY <2>3 DEF Loads
      <4>6. CASE span.hi > poll.next
        BY <2>2, <2>3, <2>5, <3>2, <4>1, <4>4, <4>5, <4>6 DEF Behind
      <4>7. CASE ~(span.hi > poll.next)
        <5>1. span'.hi = offset' /\ offset' = span.hi + 1  BY <2>2, <3>2, <4>3, <4>7
        <5>2. span'.hi - kv'.offset <= SaveStep + Loads' - 1
          BY <2>3, <4>4, <4>5, <5>1
        <5>3. Behind'  BY <3>1, <5>1, <5>2 DEF Behind
        <5>4. kv.offset <= offset'  BY <2>2, <2>5, <3>2, <4>1
        <5>5. QED  BY <4>1, <5>3, <5>4
      <4>8. QED  BY <4>6, <4>7
    <3>7. QED  BY <3>5, <3>6
  <2>6. QED  BY <2>4, <2>5
<1>4. CASE SaveTaken \/ BatchDone
  <2>1. poll # Asleep /\ poll' # Asleep
    BY <1>4, PollMoves
  <2>2. Save /\ UNCHANGED <<offset, link, cli, span, count>>
    BY <1>4 DEF SaveTaken, BatchDone
  <2>3. (Crossed' <=> Crossed) /\ upset \subseteq upset'  BY <2>2, SaveFacts
  <2>4. SUFFICES ASSUME ~Crossed, "failed" \notin upset'
                 PROVE  /\ cli.at = "forget" \/ kv'.offset = 0 => offset = span.hi
                        /\ cli.at # "forget" /\ kv'.offset # 0 =>
                               last' = kv'.offset /\ kv'.offset <= offset /\ Behind'
    BY <2>2, <2>3 DEF InvBack
  <2>5. Loads' = Loads  BY <2>2 DEF Loads
  <2>6. ASSUME cli.at # "forget", kv'.offset # 0
        PROVE  last' = kv'.offset /\ kv'.offset <= offset /\ Behind'
    <3>1. /\ last' = kv'.offset /\ kv'.offset <= offset
          /\ span.hi - kv'.offset <= SaveStep + Loads - 2
      BY <2>1, <2>2, <2>4, <2>6, SaveBack
    <3>2. Behind'  BY <2>2, <2>5, <3>1 DEF Behind
    <3>3. QED  BY <3>1, <3>2
  <2>7. ASSUME cli.at = "forget" \/ kv'.offset = 0 PROVE offset = span.hi
    <3>1. kv'.offset = 0 => kv.offset = 0
      BY <2>2 DEF Save, TypeOK, Stores
    <3>2. QED  BY <2>3, <2>4, <2>7, <3>1 DEF InvBack
  <2>8. QED  BY <2>6, <2>7
<1>5. CASE Push
  <2>1. poll # Asleep /\ poll' # Asleep /\ poll.at = "push"
    BY <1>5, PollMoves DEF Push
  <2>2. UNCHANGED <<offset, last, kv, link, cli, span, upset, count>>  BY <1>5 DEF Push
  <2>3. QED  BY <2>1, <2>2 DEF InvBack, Behind, Loads
<1>6. CASE Restart
  <2>1. poll' = Asleep /\ offset' = 0 /\ span'.hi = 0 /\ last' = 0
    BY <1>6 DEF Restart
  <2>2. QED  BY <2>1 DEF InvBack
<1>7. CASE Connected
  <2>1. UNCHANGED <<offset, last, kv, poll, cli, span>> /\ link = -1 /\ link' = kv.offset
    BY <1>7 DEF Connected
  <2>2. count'.links = count.links + 1  BY <1>7 DEF Connected, TypeOK, Counts
  <2>3. Loads' = Loads  BY <2>1, <2>2 DEF Loads
  <2>4. upset \subseteq upset'  BY <1>7 DEF Connected
  <2>5. Behind => Behind'  BY <2>1, <2>3 DEF Behind
  <2>6. QED  BY <2>1, <2>4, <2>5 DEF InvBack
<1>8. CASE Loaded
  <2>1. poll' = poll \/ (poll = Asleep /\ poll' = Idle)  BY <1>8 DEF Loaded, Started
  <2>2. link # -1 /\ link' = -1 /\ UNCHANGED <<kv, cli, count>> /\ (Crossed' <=> Crossed)
        /\ upset \subseteq upset'
    BY <1>8 DEF Loaded
  <2>3. Loads' = Loads + 1 /\ Loads >= 0  BY <2>2 DEF Loads, InvHigh
  <2>4. SUFFICES ASSUME ~Crossed, "failed" \notin upset'
                 PROVE  /\ cli.at = "forget" \/ kv.offset = 0 => offset' = span'.hi
                        /\ cli.at # "forget" /\ kv.offset # 0 =>
                               last' = kv.offset /\ kv.offset <= offset' /\ Behind'
    BY <2>2 DEF InvBack
  <2>5. cli.at # "forget"  BY <2>2, <2>4 DEF InvBot, Quiet
  <2>6. "failed" \notin upset  BY <2>2, <2>4
  <2>7. CASE link = 0
    <3>1. UNCHANGED <<offset, last, span>>  BY <1>8, <2>7 DEF Loaded
    <3>2. kv.offset = 0 => offset' = span'.hi  BY <2>4, <2>6, <3>1 DEF InvBack
    <3>3. ASSUME kv.offset # 0
          PROVE  last' = kv.offset /\ kv.offset <= offset' /\ Behind'
      <4>1. poll # Asleep  BY <2>4, <2>7, <3>3 DEF InvHigh
      <4>2. last = kv.offset /\ kv.offset <= offset /\ Behind
        BY <2>4, <2>5, <2>6, <3>3, <4>1 DEF InvBack
      <4>3. span'.hi - kv'.offset <= SaveStep + Loads' - 2
        BY <2>2, <2>3, <3>1, <4>2 DEF Behind
      <4>4. QED  BY <3>1, <4>2, <4>3 DEF Behind
    <3>4. QED  BY <2>5, <3>2, <3>3
  <2>8. CASE link # 0
    <3>1. offset' = link /\ last' = link /\ kv.offset = link
      BY <1>8, <2>4, <2>8 DEF Loaded
    <3>2. span'.hi - kv.offset <= SaveStep + Loads' - 2
      <4>1. CASE poll = Asleep /\ span.hi = 0
        <5>1. span'.hi = link  BY <1>8, <2>8, <4>1 DEF Loaded
        <5>2. QED  BY <2>3, <3>1, <5>1
      <4>2. CASE ~(poll = Asleep /\ span.hi = 0)
        <5>1. span' = span  BY <1>8, <2>8, <4>2 DEF Loaded
        <5>2. Behind  BY <2>4, <2>5, <2>6, <2>8, <3>1, <4>2 DEF InvBack
        <5>3. QED  BY <2>3, <5>1, <5>2 DEF Behind
      <4>3. QED  BY <4>1, <4>2
    <3>3. Behind'  BY <2>2, <3>2 DEF Behind
    <3>4. QED  BY <2>5, <2>8, <3>1, <3>3
  <2>9. QED  BY <2>7, <2>8
<1>9. ASSUME NEW b \in Bots, SetToken(b) PROVE InvBack'
  BY <1>9 DEF SetToken, InvBack
<1>10. CASE ForgetOffset
  <2>1. kv'.offset = 0 /\ cli.at = "forget"  BY <1>10 DEF ForgetOffset, TypeOK, Stores
  <2>2. UNCHANGED <<offset, span, upset>>  BY <1>10 DEF ForgetOffset
  <2>3. QED  BY <2>1, <2>2 DEF InvBack
<1>11. CASE StoreToken
  <2>1. kv'.offset = kv.offset /\ cli.at = "store" /\ cli'.at # "forget"
    BY <1>11 DEF StoreToken, TypeOK, Stores, Quiet
  <2>2. UNCHANGED <<offset, last, poll, link, span, upset, count>>  BY <1>11 DEF StoreToken
  <2>3. Behind => Behind'  BY <2>1, <2>2 DEF Behind, Loads
  <2>4. QED  BY <2>1, <2>2, <2>3 DEF InvBack
<1>12. QED
  BY <1>1, <1>2, <1>3, <1>4, <1>5, <1>6, <1>7, <1>8, <1>9, <1>10, <1>11
     DEF Next, Polling, Changing

\* A ring that is long enough is never outrun by a connection.
LEMMA LagStep ==
    ASSUME TypeOK, InvBot, InvHigh, InvBack, InvLag, Next
    PROVE  InvLag'
PROOF
<1> USE SpanFacts, LoadFacts DEF Crossed
<1>1. ASSUME NEW b \in Bots, Arrive(b) PROVE InvLag'
  BY <1>1 DEF Arrive, InvLag
<1>2. CASE Request \/ Answer \/ AnswerFails \/ Take \/ Push
  BY <1>2 DEF Request, Answer, AnswerFails, Take, Push, InvLag
<1>3. CASE SaveTaken \/ BatchDone
  <2>1. Save /\ UNCHANGED <<cli, count>>  BY <1>3 DEF SaveTaken, BatchDone
  <2>2. upset \subseteq upset' /\ ("lagged" \in upset' <=> "lagged" \in upset)
    BY <2>1, SaveFacts
  <2>3. QED  BY <2>1, <2>2 DEF InvLag
<1>4. CASE Restart
  BY <1>4 DEF Restart, InvLag
<1>5. CASE Connected
  <2>1. count'.changes = count.changes /\ cli' = cli
    BY <1>5 DEF Connected, TypeOK, Counts
  <2>2. upset \subseteq upset' /\ ("lagged" \in upset' <=> "lagged" \in upset)
    BY <1>5 DEF Connected
  <2>3. QED  BY <2>1, <2>2 DEF InvLag
<1>6. CASE Loaded
  <2>1. UNCHANGED <<kv, cli, count>> /\ upset \subseteq upset' /\ link # -1
    BY <1>6 DEF Loaded
  <2>2. SUFFICES ASSUME SaveStep + MaxLinks <= RingSize + 2, "lagged" \in upset', "lagged" \notin upset
                 PROVE  Crossed' \/ "failed" \in upset'
    BY <2>1 DEF InvLag
  <2>3. link # 0 /\ span.hi - link > RingSize /\ (kv.offset = link \/ "failed" \in upset')
    BY <1>6, <2>2 DEF Loaded
  <2>4. SUFFICES ASSUME ~Crossed, "failed" \notin upset, kv.offset = link PROVE FALSE
    BY <2>1, <2>3
  <2>5. cli.at # "forget"  BY <2>1, <2>4 DEF InvBot, Quiet
  <2>6. Behind  BY <2>3, <2>4, <2>5 DEF InvBack
  <2>7. Loads <= MaxLinks - 1  BY <2>1 DEF Loads, InvHigh
  <2>8. QED  BY <2>2, <2>3, <2>4, <2>6, <2>7 DEF Behind
<1>7. ASSUME NEW b \in Bots, SetToken(b) PROVE InvLag'
  <2>1. count'.changes > 0  BY <1>7 DEF SetToken, TypeOK, Counts
  <2>2. QED  BY <2>1 DEF InvLag
<1>8. CASE ForgetOffset
  <2>1. cli # Quiet  BY <1>8 DEF ForgetOffset, Quiet
  <2>2. UNCHANGED <<upset, count>>  BY <1>8 DEF ForgetOffset
  <2>3. QED  BY <2>1, <2>2 DEF InvLag
<1>9. CASE StoreToken
  <2>1. cli' = Quiet /\ UNCHANGED <<upset, count>>  BY <1>9 DEF StoreToken
  <2>2. QED  BY <2>1 DEF InvLag
<1>10. QED
  BY <1>1, <1>2, <1>3, <1>4, <1>5, <1>6, <1>7, <1>8, <1>9
     DEF Next, Polling, Changing

\* How far what is stored lies behind, in every state, for any length of the
\* ring and any saving step.
THEOREM BackInvariance == Spec => []BackInv
PROOF
  <1>1. Init => BackInv
    <2>1. ASSUME Init PROVE BackInv
      <3>1. TypeOK  BY <2>1, InitInv DEF TgInv
      <3>2. /\ poll = Asleep /\ ~Busy /\ poll.at = "none" /\ offset = 0 /\ span.hi = 0
            /\ kv.offset = 0 /\ link = -1 /\ last = 0 /\ cli = Quiet /\ upset = {}
            /\ count.links = 0 /\ count.changes = 0 /\ Loads = 0
        BY <2>1 DEF Init, Busy, Asleep, Loads
      <3>3. InvHigh  BY <3>2, SizeAssumption DEF InvHigh
      <3>4. InvBack  BY <3>2 DEF InvBack
      <3>5. InvLag  BY <3>2 DEF InvLag
      <3>6. QED  BY <3>3, <3>4, <3>5 DEF BackInv
    <2>2. QED  BY <2>1
  <1>2. TgInv /\ BackInv /\ [Next]_vars => BackInv'
    <2>1. ASSUME TgInv, BackInv, Next PROVE BackInv'
      BY <2>1, HighStep, BackStep, LagStep DEF TgInv, BackInv
    <2>2. ASSUME BackInv, UNCHANGED vars PROVE BackInv'
      <3>1. InvHigh'  BY <2>2 DEF BackInv, InvHigh, Loads, Crossed, Busy, vars
      <3>2. InvBack'  BY <2>2 DEF BackInv, InvBack, Behind, Loads, Crossed, vars
      <3>3. InvLag'  BY <2>2 DEF BackInv, InvLag, Crossed, vars
      <3>4. QED  BY <3>1, <3>2, <3>3 DEF BackInv
    <2>3. QED  BY <2>1, <2>2
  <1>3. QED  BY <1>1, <1>2, TelegramInvariance, PTL DEF Spec

\* save_update_offset_if_needed, against the connections that set the offset
\* back: what is stored is less than a saving step and the connections behind.
THEOREM SetbackSmall == Spec => []SetbackIsSmall
PROOF
  <1>1. ASSUME TgInv, BackInv PROVE SetbackIsSmall
    <2> USE SpanFacts, LoadFacts DEF TgInv, BackInv
    <2>1. SUFFICES ASSUME Settled, "failed" \notin upset, kv.offset # 0
                   PROVE  span.hi - kv.offset <
                              SaveStep + count.links - (IF poll.at = "save" THEN 0 ELSE 1)
      BY DEF SetbackIsSmall
    <2>2. cli.at # "forget" /\ ~Crossed  BY <2>1 DEF Settled, Quiet, Crossed
    <2>3. Loads >= 0  BY <1>1 DEF InvHigh
    <2>4. CASE poll = Asleep /\ span.hi = 0
      BY <1>1, <2>1, <2>3, <2>4
    <2>5. CASE Behind
      BY <1>1, <2>5 DEF Behind
    <2>6. QED  BY <1>1, <2>1, <2>2, <2>4, <2>5 DEF InvBack
  <1>2. QED  BY <1>1, TelegramInvariance, BackInvariance, PTL

\* TG_DEDUP_CACHE_SIZE against TG_OFFSET_SAVE_STEP: with a ring two short of the
\* saving step and the connections together, no connection alone makes a message
\* be pushed twice or late.
THEOREM RingIsEnough == Spec => []RingSuffices
PROOF
  <1>1. ASSUME BackInv, PushedInOrder PROVE RingSuffices
    <2>1. SUFFICES ASSUME SaveStep + MaxLinks <= RingSize + 2, count.changes = 0,
                          upset \cap {"crossed", "failed"} = {}, poll.at = "push", Unseen
                   PROVE  poll.next > top
      BY DEF RingSuffices
    <2>2. "lagged" \notin upset  BY <1>1, <2>1 DEF BackInv, InvLag, Crossed
    <2>3. QED  BY <1>1, <2>1, <2>2 DEF PushedInOrder
  <1>2. QED  BY <1>1, PushedOnceInOrder, BackInvariance, PTL
=============================================================================
