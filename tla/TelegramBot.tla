----------------------------- MODULE TelegramBot -----------------------------
(***************************************************************************)
(* The Telegram channel (IM/channels/telegram_bot.c): the thread           *)
(* im_tg_poll asks for the updates from s_update_offset on and pushes the  *)
(* texts into the inbound queue.  The offset moves on before the push and  *)
(* is stored now and then; every connection to the cloud, by another       *)
(* thread, sets it back to what is stored, and a ring of the last messages *)
(* keeps what is then fetched again from being pushed again.  A command of *)
(* the command line changes the token.  No lock protects any of it.        *)
(***************************************************************************)
EXTENDS Integers

CONSTANTS
    Bots, NoBot,   \* the tokens, and none
    RingSize,      \* TG_DEDUP_CACHE_SIZE, 64
    SaveStep,      \* TG_OFFSET_SAVE_STEP, 10
    Silent,        \* the updates that hold no message
    RespMax,       \* updates that fit into TG_HTTP_RESP_BUF_SIZE
    MaxSent,       \* for each bot, and
    MaxBoots, MaxLinks, MaxChanges   \* bounds of the instance

ASSUME BotAssumption == NoBot \notin Bots
ASSUME SilentAssumption == Silent \subseteq Bots \X Nat
ASSUME SizeAssumption == /\ RingSize \in Nat \ {0} /\ SaveStep \in Nat \ {0}
                         /\ RespMax \in Nat /\ MaxSent \in [Bots -> Nat]
                         /\ MaxBoots \in Nat /\ MaxLinks \in Nat /\ MaxChanges \in Nat

VARIABLES
    token,     \* s_bot_token
    offset,    \* s_update_offset
    last,      \* s_last_saved_offset, 0 for none
    kv,        \* token and offset in flash, 0 for no offset
    ring,      \* s_seen_msg_keys, the youngest first
    poll,      \* im_tg_poll: where it is, whose updates it has, from next up to last
    link,      \* app_im_init_evt_cb: the offset it has read, or -1
    cli,       \* telegram_set_token: what is left to do, and the token
    sent,      \* how many updates each bot has got
    top,       \* history: the last one pushed since the start or change of token
    handled,   \* history: the updates that were looked at
    dropped,   \* history: the updates that a restart cut off
    span,      \* history: lowest and highest offset since start or change
    upset,     \* history: the Upsets since the start or change of token
    count      \* how many restarts, connections and changes there were

vars == <<token, offset, last, kv, ring, poll, link, cli, sent, top, handled,
          dropped, span, upset, count>>

Update == Bots \X Nat
NoKey  == <<NoBot, 0>>
Asleep == [at |-> "none", bot |-> NoBot, next |-> 0, to |-> 0]
Idle   == [Asleep EXCEPT !.at = "idle"]
Quiet  == [at |-> "none", bot |-> NoBot]

\* A token changed under a poll, a connection or another change; an offset set
\* back further than the ring goes, or a token back whose messages the ring
\* still has; a saving that failed, or came after the offset was read.
Upsets == {"crossed", "lagged", "failed"}

Busy     == poll.at \notin {"none", "idle"}
\* The update whose offset is passed but which has not been looked at.
InFlight == IF poll.at \in {"save", "push"} THEN {<<poll.bot, poll.next>>} ELSE {}
Accounted == handled \cup dropped \cup InFlight

Polls  == [at : {"wait", "take", "save", "push"}, bot : Bots, next : Nat, to : Nat]
Stores == [token : Bots \cup {NoBot}, offset : Nat]
Counts == [boots : Nat, links : Nat, changes : Nat]

TypeOK ==
    /\ token \in Bots \cup {NoBot}
    /\ offset \in Nat /\ last \in Nat
    /\ kv \in Stores
    /\ ring \in [1 .. RingSize -> Update \cup {NoKey}]
    /\ poll \in {Asleep, Idle} \cup Polls
    /\ link \in Nat \cup {-1}
    /\ cli \in {Quiet} \cup [at : {"forget", "store"}, bot : Bots]
    /\ sent \in [Bots -> Nat]
    /\ top \in Nat /\ handled \subseteq Update /\ dropped \subseteq Update
    /\ span \in [lo : Nat, hi : Nat]
    /\ upset \subseteq Upsets
    /\ count \in Counts

Init ==
    /\ token = NoBot /\ offset = 0 /\ last = 0
    /\ kv \in [token : Bots \cup {NoBot}, offset : {0}]
    /\ ring = [i \in 1 .. RingSize |-> NoKey]
    /\ poll = Asleep /\ link = -1 /\ cli = Quiet
    /\ sent = [b \in Bots |-> 0]
    /\ top = 0 /\ handled = {} /\ dropped = {} /\ span = [lo |-> 0, hi |-> 0]
    /\ upset = {}
    /\ count = [boots |-> 0, links |-> 0, changes |-> 0]

-----------------------------------------------------------------------------
(* The server: it hands out an update as often as it is asked for.         *)

Arrive(b) ==
    /\ sent[b] < MaxSent[b] /\ sent' = [sent EXCEPT ![b] = @ + 1]
    /\ UNCHANGED <<token, offset, last, kv, ring, poll, link, cli, top, handled,
                   dropped, span, upset, count>>

-----------------------------------------------------------------------------
(* im_tg_poll.                                                             *)

From(o) == IF o = 0 THEN 1 ELSE o

Request ==
    /\ poll.at = "idle" /\ token # NoBot
    /\ poll' = [at |-> "wait", bot |-> token, next |-> From(offset), to |-> 0]
    /\ UNCHANGED <<token, offset, last, kv, ring, link, cli, sent, top, handled,
                   dropped, span, upset, count>>

\* An answer that is cut off at the end of the buffer is no JSON any more, and
\* nothing of it is processed.
Answer ==
    /\ poll.at = "wait"
    /\ poll' = IF sent[poll.bot] + 1 - poll.next > RespMax THEN Idle
               ELSE [poll EXCEPT !.at = "take", !.to = sent[poll.bot]]
    /\ UNCHANGED <<token, offset, last, kv, ring, link, cli, sent, top, handled,
                   dropped, span, upset, count>>

\* A mutant: the thread ends.
AnswerFailsEnd ==
    /\ poll.at = "wait"
    /\ poll' = Asleep
    /\ UNCHANGED <<token, offset, last, kv, ring, link, cli, sent, top, handled,
                   dropped, span, upset, count>>

AnswerFails ==
    /\ poll.at = "wait"
    /\ poll' = Idle
    /\ UNCHANGED <<token, offset, last, kv, ring, link, cli, sent, top, handled,
                   dropped, span, upset, count>>

\* The offset passes the update; one below it is skipped.
Take ==
    /\ poll.at = "take" /\ poll.next <= poll.to
    /\ IF poll.next < offset
       THEN /\ poll' = [poll EXCEPT !.next = @ + 1]
            /\ UNCHANGED <<offset, span>>
       ELSE /\ offset' = poll.next + 1
            /\ span' = [span EXCEPT !.hi = IF @ > poll.next THEN @ ELSE poll.next + 1]
            /\ poll' = [poll EXCEPT !.at = "save"]
    /\ UNCHANGED <<token, last, kv, ring, link, cli, sent, top, handled, dropped,
                   upset, count>>

\* A mutant: a step too many without saving.
SaveLate ==
    \/ /\ offset > 0
       /\ kv' = [kv EXCEPT !.offset = offset] /\ last' = offset
       /\ UNCHANGED upset
    \/ /\ offset = 0 \/ (last # 0 /\ offset - last <= SaveStep)
       /\ UNCHANGED <<kv, last, upset>>

\* save_update_offset_if_needed: the first offset, one SaveStep beyond the
\* last, and one when 5 seconds have passed.  Writing may fail.
Save ==
    \/ /\ offset > 0
       /\ kv' = [kv EXCEPT !.offset = offset] /\ last' = offset
       /\ UNCHANGED upset
    \/ /\ offset > 0
       /\ upset' = upset \cup {"failed"} /\ UNCHANGED <<kv, last>>
    \/ /\ offset = 0 \/ (last # 0 /\ offset - last < SaveStep)
       /\ UNCHANGED <<kv, last, upset>>

SaveTaken ==
    /\ poll.at = "save" /\ Save
    /\ poll' = [poll EXCEPT !.at = "push"]
    /\ UNCHANGED <<token, offset, ring, link, cli, sent, top, handled, dropped,
                   span, count>>

Key == <<poll.bot, poll.next>>

\* A mutant: the oldest entry of the ring is not looked at.
UnseenButLast == Key \notin Silent /\ Key \notin {ring[i] : i \in 1 .. RingSize - 1}

Unseen == Key \notin Silent /\ Key \notin {ring[i] : i \in 1 .. RingSize}

\* A mutant: the ring does not learn of a message that is refused.
PushForgets ==
    /\ poll.at = "push"
    /\ IF Unseen
       THEN \/ /\ ring' = [i \in 1 .. RingSize |-> IF i = 1 THEN Key ELSE ring[1]]
               /\ top' = poll.next
            \/ UNCHANGED <<ring, top>>
       ELSE UNCHANGED <<ring, top>>
    /\ handled' = handled \cup {Key}
    /\ poll' = [poll EXCEPT !.at = "take", !.next = @ + 1]
    /\ UNCHANGED <<token, offset, last, kv, link, cli, sent, dropped, span, upset,
                   count>>

\* The ring, and the inbound queue, which may be full for the second the push
\* waits.  A message without text ends like one the queue refuses.
Push ==
    /\ poll.at = "push"
    /\ IF Unseen
       THEN /\ ring' = [i \in 1 .. RingSize |-> IF i = 1 THEN Key ELSE ring[i - 1]]
            /\ top' \in {top, poll.next}
       ELSE UNCHANGED <<ring, top>>
    /\ handled' = handled \cup {Key}
    /\ poll' = [poll EXCEPT !.at = "take", !.next = @ + 1]
    /\ UNCHANGED <<token, offset, last, kv, link, cli, sent, dropped, span, upset,
                   count>>

BatchDone ==
    /\ poll.at = "take" /\ poll.next > poll.to /\ Save
    /\ poll' = Idle
    /\ UNCHANGED <<token, offset, ring, link, cli, sent, top, handled, dropped,
                   span, count>>

Polling == Request \/ Answer \/ AnswerFails \/ Take \/ SaveTaken \/ Push \/ BatchDone

-----------------------------------------------------------------------------
(* A restart, and app_im_init_evt_cb, which every connection to the cloud   *)
(* calls: telegram_bot_init and telegram_bot_start.                        *)

Restart ==
    /\ count.boots < MaxBoots
    /\ count' = [count EXCEPT !.boots = @ + 1, !.links = 0]
    /\ dropped' = dropped \cup InFlight
    /\ token' = NoBot /\ offset' = 0 /\ last' = 0
    /\ ring' = [i \in 1 .. RingSize |-> NoKey]
    /\ poll' = Asleep /\ link' = -1 /\ cli' = Quiet
    /\ top' = 0 /\ span' = [lo |-> 0, hi |-> 0]
    /\ upset' = (upset \cap {"crossed"}) \cup (IF cli = Quiet THEN {} ELSE {"crossed"})
    /\ UNCHANGED <<kv, sent, handled>>

Connected ==
    /\ link = -1 /\ count.links < MaxLinks
    /\ count' = [count EXCEPT !.links = @ + 1]
    /\ token' = IF kv.token = NoBot THEN token ELSE kv.token
    /\ link' = kv.offset
    /\ upset' = IF cli = Quiet THEN upset ELSE upset \cup {"crossed"}
    /\ UNCHANGED <<offset, last, kv, ring, poll, cli, sent, top, handled, dropped,
                   span>>

Started == IF poll = Asleep /\ token # NoBot THEN Idle ELSE poll

\* The offset read is the offset, and the thread starts unless it runs.
Loaded ==
    /\ link # -1 /\ link' = -1
    /\ poll' = Started
    /\ IF link = 0 THEN UNCHANGED <<offset, last, span, upset>>
       ELSE /\ offset' = link /\ last' = link
            /\ span' = IF poll = Asleep /\ span.hi = 0 THEN [lo |-> link, hi |-> link] ELSE span
            /\ upset' = upset \cup (IF span.hi - link > RingSize THEN {"lagged"} ELSE {})
                              \cup (IF kv.offset # link THEN {"failed"} ELSE {})
    /\ UNCHANGED <<token, kv, ring, cli, sent, top, handled, dropped, count>>

-----------------------------------------------------------------------------
(* telegram_set_token, by a command.                                       *)

\* A mutant: the offset of the former bot stays.
SetTokenOnly(b) ==
    /\ cli = Quiet /\ count.changes < MaxChanges
    /\ count' = [count EXCEPT !.changes = @ + 1]
    /\ token' = b /\ cli' = [at |-> "forget", bot |-> b]
    /\ upset' = IF Busy \/ link # -1 THEN {"crossed"} ELSE {}
    /\ UNCHANGED <<offset, last, kv, ring, poll, link, sent, top, handled, dropped, span>>

SetToken(b) ==
    /\ cli = Quiet /\ count.changes < MaxChanges
    /\ count' = [count EXCEPT !.changes = @ + 1]
    /\ token' = b /\ offset' = 0 /\ last' = 0
    /\ cli' = [at |-> "forget", bot |-> b]
    /\ top' = 0 /\ span' = [lo |-> 0, hi |-> 0]
    /\ upset' = (IF Busy \/ link # -1 THEN {"crossed"} ELSE {})
                \cup (IF \E i \in 1 .. RingSize : ring[i][1] = b THEN {"lagged"} ELSE {})
    /\ UNCHANGED <<kv, ring, poll, link, sent, handled, dropped>>

ForgetOffset ==
    /\ cli.at = "forget"
    /\ kv' = [kv EXCEPT !.offset = 0]
    /\ cli' = [cli EXCEPT !.at = "store"]
    /\ UNCHANGED <<token, offset, last, ring, poll, link, sent, top, handled,
                   dropped, span, upset, count>>

StoreToken ==
    /\ cli.at = "store" /\ cli' = Quiet
    /\ kv' = [kv EXCEPT !.token = cli.bot]
    /\ UNCHANGED <<token, offset, last, ring, poll, link, sent, top, handled,
                   dropped, span, upset, count>>

Changing == (\E b \in Bots : SetToken(b)) \/ ForgetOffset \/ StoreToken

Next == (\E b \in Bots : Arrive(b)) \/ Polling \/ Restart \/ Connected \/ Loaded \/ Changing

Spec == Init /\ [][Next]_vars

\* The thread goes on; a poll repeated for ever is answered in the end; after a
\* start the network is there in the end.
FairSpec ==
    /\ Spec /\ WF_vars(Polling) /\ SF_vars(Answer) /\ WF_vars(Loaded)
    /\ WF_vars(Connected /\ poll = Asleep)

-----------------------------------------------------------------------------
Settled == cli = Quiet /\ "crossed" \notin upset

\* No message is pushed twice, and none after a later one, although connections
\* set the offset back at any point of a poll.
PushedInOrder ==
    poll.at = "push" /\ Unseen /\ upset \cap {"crossed", "lagged"} = {} => poll.next > top

\* What the offset, stored or not, has passed was looked at, apart from one
\* update for every restart.
Passed == IF kv.token = token /\ kv.offset > offset THEN kv.offset ELSE offset
NothingSkipped ==
    Settled => \A u \in 1 .. Passed - 1 : <<token, u>> \in Accounted

\* The ring of 64 covers the 10 steps a saving may wait, and one more for each
\* connection that keeps the offset just passed from being saved.
SetbackIsSmall ==
    Settled /\ "failed" \notin upset /\ kv.offset # 0 =>
        span.hi - kv.offset < SaveStep + count.links - (IF poll.at = "save" THEN 0 ELSE 1)

\* As long as the token is not changed and no saving fails or comes after the
\* offset was read, a ring that is this long is long enough, whatever the
\* connections do: nothing is pushed twice, or after a later message.
RingSuffices ==
    /\ SaveStep + MaxLinks =< RingSize + 2
    /\ count.changes = 0 /\ upset \cap {"crossed", "failed"} = {}
    /\ poll.at = "push" /\ Unseen
    => poll.next > top

\* The offset gets past every update the bot has, unless more has gathered
\* than fits into the buffer.
CaughtUp(b) ==
    token = b /\ (From(offset) > sent[b] \/ sent[b] + 1 - From(offset) > RespMax)
CatchesUp == poll # Asleep /\ Settled ~> ~Settled \/ \E b \in Bots : CaughtUp(b)

-----------------------------------------------------------------------------
(* The inductive invariant behind the first two.                           *)

Crossed == "crossed" \in upset
Orderly == upset \cap {"crossed", "lagged"} = {}

\* Which bot is whose.
InvBot ==
    ~Crossed =>
        /\ Busy => poll.bot = token /\ poll.next > 0
        /\ token = NoBot => poll = Asleep
        /\ cli = Quiet /\ token # NoBot => kv.token = token
        /\ cli # Quiet => cli.bot = token /\ link = -1

\* What a number up to which the updates are passed says of bot b.
Upto(b, o, S) == \A u \in Nat : 0 < u /\ u < o => <<b, u>> \in S
Done(b, o) == Upto(b, o, Accounted)
InvDone ==
    ~Crossed =>
        /\ Done(token, offset)
        /\ link # -1 => Done(token, link)
        /\ cli = Quiet => Done(kv.token, kv.offset)
        /\ cli.at = "store" => Done(token, kv.offset)
        /\ Busy => Done(token, poll.next)

\* Whatever offset is used, it lies where this start or token has been, and not
\* further back than the ring goes.
InvSpan ==
    /\ poll = Asleep => \A i \in 1 .. RingSize : ring[i] = NoKey
    /\ Orderly =>
        /\ span.lo <= offset /\ offset <= span.hi /\ span.hi - offset <= RingSize
        /\ kv.offset = 0 \/ span.lo <= kv.offset
        /\ link < 1 \/ span.lo <= link
        /\ \/ poll = Asleep /\ span.hi = 0
           \/ link <= span.hi /\ (cli.at = "forget" \/ kv.offset <= span.hi)
        /\ poll = Asleep /\ link # -1 => kv.offset = link
        /\ Busy => poll.next <= From(span.hi)
        /\ poll.at \in {"save", "push"} =>
               span.lo <= poll.next /\ poll.next < span.hi /\ span.hi - poll.next <= RingSize

\* The ring r has the messages of bot b below h, unless there are RingSize later
\* ones, and nothing of b from h on; h is above the last one pushed.
Kept(h, lo, b, r) ==
    \A u \in Nat : 0 < u /\ lo <= u /\ u < h /\ <<b, u>> \notin Silent /\ h - u <= RingSize =>
        \E k \in 1 .. RingSize : k <= h - u /\ r[k] = <<b, u>>
Below(h, b, t, r) ==
    /\ t = 0 \/ t < h
    /\ \A k \in 1 .. RingSize : r[k] # NoKey /\ r[k][1] = b => r[k][2] < h

\* All up to the highest offset have been through the ring, or all but the
\* update that is just being looked at.
InvRing ==
    Orderly =>
        \/ Kept(span.hi, span.lo, token, ring) /\ Below(span.hi, token, top, ring)
        \/ /\ poll.at \in {"save", "push"} /\ poll.next = span.hi - 1
           /\ Kept(span.hi - 1, span.lo, token, ring)
           /\ Below(span.hi - 1, token, top, ring)

TgInv == TypeOK /\ InvBot /\ InvDone /\ InvSpan /\ InvRing

(* The one behind the last two.                                            *)

\* How many connections have set the offset back, or could have.
Loads == IF link = -1 THEN count.links ELSE count.links - 1

\* The thread was started by a connection; no offset is above the highest.
InvHigh ==
    /\ Loads >= 0 /\ count.links =< MaxLinks
    /\ poll # Asleep => Loads > 0
    /\ ~Crossed =>
        /\ offset =< span.hi
        /\ cli.at = "forget" \/ kv.offset =< span.hi \/ (poll = Asleep /\ span.hi = 0)
        /\ link =< span.hi \/ (poll = Asleep /\ span.hi = 0)
        /\ poll = Asleep /\ link # -1 => kv.offset = link
        /\ Busy => poll.next =< From(span.hi)
        /\ poll.at \in {"save", "push"} => poll.next < span.hi

\* How far what is stored lies behind the highest offset, in saving steps and
\* connections: SaveStep while the save is due, and one less after it.
Behind ==
    \/ span.hi - kv.offset =< SaveStep + Loads - 2
    \/ /\ poll.at = "save" /\ offset = span.hi
       /\ span.hi - kv.offset =< SaveStep + Loads - 1

\* Nothing sets the offset back as long as nothing is stored; then what was
\* saved last is what is stored.
InvBack ==
    ~Crossed /\ "failed" \notin upset =>
        /\ cli.at = "forget" \/ kv.offset = 0 => offset = span.hi
        /\ cli.at # "forget" /\ kv.offset # 0 =>
            \/ poll = Asleep /\ span.hi = 0 /\ last = 0
            \/ last = kv.offset /\ kv.offset =< offset /\ Behind

\* What the ring does not cover is another's fault.
InvLag ==
    /\ cli # Quiet => count.changes > 0
    /\ SaveStep + MaxLinks =< RingSize + 2 /\ "lagged" \in upset =>
           count.changes > 0 \/ Crossed \/ "failed" \in upset

BackInv == InvHigh /\ InvBack /\ InvLag
=============================================================================
