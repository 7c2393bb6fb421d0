# DuckyClaw in TLA+

DuckyClaw is the firmware of a small device that connects chat channels
(Feishu, Telegram, Discord, Weixin, a websocket gateway) to a cloud AI, and the
AI to tools on the device.  This directory holds TLA+ specifications of the
parts of the firmware where threads, queues, timeouts and restarts meet, the TLC
configurations that check them, and proofs that TLAPS checks.

## 1. Inventory

| part | source | state | operations | talks to | what is hard |
|---|---|---|---|---|---|
| Message bus | `IM/bus/message_bus.c` | two bounded queues of messages | push (gives up after one second), pop (waits) | every producer of messages, the agent loop, the outbound dispatcher | a full queue drops; order and bound |
| Agent loop | `agent/agent_loop.c`, `src/ducky_claw_chat.c` | one turn (`s_turn`): semaphore, tool flags; last response; history | take a message, ask the cloud, wait for its END, call again after a failed tool, answer | bus, cloud session, MCP server, IM routing | four threads on one turn; rounds that end late |
| IM routing and outbound dispatch | `src/app_im.c` | current channel and chat id, outbound queue | set target, send to target, dispatch to the channel, go back to the configured channel at every connection, keep the chat id in KV | bus, channels | two fields written one after the other without a lock, one of them also by every cloud connection |
| Cron service | `cron_service/cron_service.c`, `tools/tool_cron.c` | table of 8 jobs and its count, `cron.json` | check every 10 s, remind, report overdue, add, remove, save, load | bus, MCP server | two threads on the table without a lock; saves that fail or leave an entry out; restarts that do not load |
| ACP client | `gateway/acp_client.c`, `tools/tool_openclaw_ctrl.c` | connection state, the pending request and its route, collected text | connect, send a request, collect the answer, time out, reconnect | the OpenClaw gateway, MCP server, bus | answers that come after the timeout; disconnection in between; another thread sends |
| Gateway server | `gateway/ws_server.c` | 4 client slots, their buffers and chat ids, the token | accept, handshake, decode frames, push messages, send | websocket clients, bus, outbound dispatch | a mutex held during a push; ids chosen by clients |
| MCP server | `ai_components/ai_mcp/src`, `tools/tools_register.c` | list of tools with their properties, execution hook, queued calls | initialize (twice on Linux), register, destroy, list in pages, parse a call, run it, reply, report | cloud session, work queue, tools, agent loop | three threads on it without a lock; order of hook and reply; a list that grows while it is paged |
| Telegram channel | `IM/channels/telegram_bot.c` | token, update offset in memory and in flash, ring of 64 seen ids | poll, drop duplicates, push, save the offset now and then, load it at every connection, change the token | Telegram's server, bus, KV, command line | offset moved before the push; offset and token written by other threads during a poll |
| Other channels | `IM/channels/{discord,weixin,feishu}_bot.c` | session or cursor, ring of seen ids, credentials | receive, drop duplicates, push, send, reconnect | websocket and HTTP services, bus | login and reconnection |
| Session store and memory | `memory/*.c` | one file per session | append, read the last n, clear | agent loop, tools | a ring over a file that may be cut |
| Heartbeat | `heartbeat/heartbeat.c` | timer | look for tasks in a file, push | bus | a dropped push |
| Chat modes | `ai_components/ai_mode/src`, `ai_components/ai_main/src/ai_chat_main.c` | the current mode; of each mode the state it wants and the state it is in, whether it is awake | note an event, enter a state (every 20 ms), switch, start at a connection, time out | button, wake word, audio input, cloud session, player, MCP tool | state written by several threads and entered by one; a switch in three steps that can fail half way |
| Audio | `ai_components/ai_audio/src` | ring buffer, detection state, player queue | record, detect speech, play, stop | modes, cloud session | a callback against a task |
| Skills, picture, video, UI | `ai_components/*` | - | parse, convert, show | cloud session | mostly data and drivers |
| File, exec, hardware tools | `tools/*.c` | - | file system, shell, pins | MCP server | mostly I/O |
| Startup, command line, proxy, certificates | `src/*.c`, `IM/proxy`, `IM/certs` | - | wiring | all | mostly I/O |

What makes each part correct, in a sentence: the **bus** loses nothing it
accepted and keeps the order; a **turn** answers the message it took, in the chat
it came from, with what the cloud said about it; a **job** reminds when it is due,
once, and survives a restart; a **request** to the gateway gets its own answer, in
the chat that asked; a **channel** gives every message to the bus once; a **tool
call** is answered once and runs with its own arguments; what a **mode** shows is what
the microphone does.  The
places where the code could fail to do so are the hazards of `PROJECT.json`, each
at its line, with the properties that watch it.

### Behaviours that are hard to test

* **Late events.**  A round of the cloud, or a request to the gateway, that
  outlives the wait for it still ends some day.  END carries no round and a final
  event no request that the code compares, so what comes late falls into whatever
  is waiting by then.
* **Four threads on one turn.**  The agent, the event thread of the cloud session,
  the MCP work queue and the outbound dispatcher write `s_turn`, `s_last_response`,
  `s_channel` and `s_chat_id`; only some of it is under a lock.
* **Two threads on the job table**, `claw_cron` and the MCP work queue, with no lock
  at all, and a push of up to a second in the middle of one of them.
* **Restarts and failing saves.**  `cron.json` is emptied, then written; results of
  saves are dropped; a file that grew too long is not loaded.
* **Bounded queues** whose pushes give up after a second, whoever pushes.
* **Links** that die unnoticed, between a check of the connection and its use.
* **Wanted and entered.**  A chat mode writes down the state it wants on any thread,
  and another thread enters it up to 20 ms later and publishes whatever is wanted by
  then.
* **Set back by a reconnection.**  Every connection to the cloud loads the stored
  offset again, starts the stored mode again and goes back to the configured channel,
  whatever is going on.
* **Tools registered while they are listed**, and the server taken down when one
  of them cannot be.

## 2. Modules

| module | models | kind |
|---|---|---|
| `AgentLoop` | bus, agent loop, cloud session, MCP tool calls, IM routing and outbound dispatch, composed | detailed; implements `TurnService` |
| `TurnService` | what the loop promises its users: turns one at a time and in order, notes, then one reply | abstract specification |
| `AgentLoopProofs` | theorems about it | proofs |
| `CronService` | job table, check loop, cron tools, file, restarts | detailed |
| `CronServiceProofs` | theorems about it | proofs |
| `AsyncRequest` | what the gateway client promises: requests told one by one, in order, once | abstract specification |
| `AcpClient` | gateway client and `openclaw_ctrl` | detailed; implements `AsyncRequest` |
| `AcpClientProofs` | theorems about it | proofs |
| `ClientSession` | what the gateway server promises a client: one handshake, items in order after it, replies, and nothing once it is gone | abstract specification |
| `WsServer` | gateway server, its clients, and the dispatcher that sends to them | detailed; implements `ClientSession` |
| `WsServerProofs` | theorems about it | proofs |
| `TelegramBot` | polling channel, its offset and ring, connections, restarts, changes of the token | detailed |
| `TelegramBotProofs` | theorems about it | proofs |
| `CallLine` | what the MCP server promises the cloud: calls served in line, each answered once | abstract specification |
| `McpServer` | MCP server, registration, the cloud's listing and calls, the work queue | detailed; implements `CallLine` |
| `McpServerProofs` | theorems about it | proofs |
| `ChatModes` | the four chat modes, the manager that switches them, and the audio input they drive | detailed |
| `ChatModesProofs` | theorems about it | proofs |
| `MCAgentLoop`, `MCCronService`, `MCAcpClient`, `MCWsServer`, `MCTelegramBot`, `MCMcpServer`, `MCChatModes` | values for TLC | instances |

A definition under a comment that begins with "Mutant" or "A mutant" is a bug the
properties have been seen to catch; it takes part in no specification.

### AgentLoop

The agent's thread follows `agent_loop_task` statement by statement where another
thread can come in between: `pc` runs through *idle, channel, chat, clear, drain,
working, reset, send, wait, check, reply, push, end*.  `Dispatch` is the outbound
dispatcher of `app_im.c`; `StreamStart`, `EndStore` and `EndNotify` are the handlers
of `ducky_claw_chat.c` on the event thread, END in the two steps its lock separates;
`CallTool`, `ToolOkHook`, `ToolOkReply`, `ToolFailReply` and `ToolFailHook` are
`__tool_call` on the work queue, whose order of hook and reply differs between
success and failure.

Texts are not strings.  A text, a tool result or a round is tagged with the
message it is *about*: the question every property asks is whose answer this is.
`rounds` is what the cloud has not finished, oldest first; the cloud ends them in
that order, or loses one (`RoundLost`).  A turn is `clean` if it began with no round,
tool call or END handler of an earlier turn left.

`TurnService` says what is left of this for a user: `serving` is `cur` from the pop on,
`prompts` counts the notes of the turn, `over` is the place *end*.  Rounds, tools,
semaphore and flags are gone.  Every post of a note, a reply or a part of a text may be
lost there, as it is in the code when the target is not known or the queue is full.

`Connected` is `app_im_init_evt_cb`, which at every connection to the cloud sets
`s_channel` to the configured channel and leaves `s_chat_id` alone, whatever turn is on.
`crossed` says that one has done so since the message set the target: what is sent
then goes to the configured channel with the chat id of the message's own channel
(app_im.c:160-225).  `CleanTurnAnswersItsChat` states just that: without such a connection
both are the message's own, with it the chat still is.

The two queues are what `message_bus.c` makes them: bounded, with pushes that give up and
a pop that waits.  That the queues of the operating system keep order and bound is
taken for granted, not checked.  `app_im_bot_send_message` reads channel and chat in one step.

Left out: the texts of prompts and history, the saving of the chat id in KV, a change of the
configured channel, the contents of tool results beyond success and failure.

### CronService

`cpc` is where `claw_cron` is (*sleep, scan, mark, save*), `tpc` where the tool is on
the work queue.  A copy of one or of all entries is one step and so is each
statement that changes `s_job_count`; between such statements the other thread may
do anything.  So a removal by the tool is a step that shifts and a step that counts,
one by the check a step that marks and shifts (`MarkDeleted`) and one that counts (`Drop`),
and `count` can become -1 when both threads decrement.  A job added then is written in
front of `s_jobs` (`AddOutside`, cron_service.c:489); what that destroys is not in the source,
so `Outside` is where the model ends.  A save has
three stages: build the text, open (and empty) the file, write it; each can fail,
and no caller looks.  A text can also be built without an entry there was no memory for
(`SaveBuildGaps`, cron_service.c:230), and the save is then a success.  `Restart` happens at
any point.  It loads what is in the file, or starts with an empty table: because the file is longer
than `CRON_FILE_MAX` (the sets of jobs that are not are `Fitting`), or there is no memory for
it, or it cannot be read.  `broken` says that the file is not the table for one of these
reasons, or for a save that failed.

One tick of `now` is one check interval of ten seconds.  `Tick` is only enabled while
the running check has taken less than one interval: a check pushes at most eight
messages of at most one second each, and then sleeps one interval, so two checks
are never more than two ticks apart.  This is what makes `Overdue = 2` (twenty
seconds) the interesting value.  `Clock` is 0 until the device is synchronized.

Left out: ids that collide (they are random), the local date to epoch conversion of
`tool_cron.c`, edits of the file by the file tools, and an entry whose JSON lacks a single field for
want of memory (a load would take `enabled` for true).

### AcpClient

`tpc` is the tool `openclaw_ctrl` on the work queue, `apc` the task.  The window
(`recv_requested`), the taken route and `reply_buf` say in the model whose they are;
no action of the code reads that, only the histories and the properties do.
`wire` holds the events on the socket and in `rx_buf`, the first `rx` of them in the
buffer.  An event is a text, a final with text, or a bare final, which counts with
whatever text is in `reply_buf`.  The gateway's work on a request (`running`)
outlives a link: a final goes to the link that is up when it comes.  The check of
the connection by the tool and the one inside `acp_client_inject` are one step;
either leads to nothing being sent.  A message written to a link the other side
has left is accepted and lost.

`AsyncRequest` says the same of the requests alone: `open` is `waiting`, `hand` is the request
in `taken`, `told` is shared.  The check of the window, its opening, the copy of the route
and the push are apart in the code; that they amount to one request after the other is
the refinement (`ServedOneByOne`).

Left out: bytes of frames (a frame is received, or refused with the link), the
contents of the handshake, `acp_client_stop` and the reply callback, which nothing
in the repository calls or sets, and the Feishu fallback, which is compiled out.

### WsServer

`tpc` is where `claw_ws` is: it builds the set of sockets to watch, selects, takes the
mutex, accepts one client, serves the readable slots (*scan*), and for each works
through the frames in its buffer (*frames*); `spc` is where the outbound dispatcher is
(*idle, lock, send*).  The mutex is free between the choice of the sockets and the
end of the select, so a watched socket may be closed, and its number and its slot given to
somebody else, before it is served.  It is held over the push of a message, which may
wait for the bus, and over the sending of a reply, which may wait for the client.

`fd` maps a connection to its socket number; a number is used again once it is
closed.  The chat id of a client is its number (`ws_<fd>` in the code) until it gives an
id of its own, which may be any text, also one that looks like somebody's number.
Items are received whole: a partial frame or request stays in `net`.  The
histories `read`, `held` and `got` are read by properties only.

`auth` is where the token the server goes by since its start comes from: there is one in the
build (*build*; KV may replace it), only KV has one (*stored*), or there is none.  With none
everybody is welcome, which is what the warning of ws_server.c:773 is about; with one only
the `Known` clients, who show it, are.  The dispatcher of `app_im.c` asks for the token of
the build alone, so a server opened by a KV token, or by none, hears its clients and never
answers one (`DropReply`).

A reply goes to the first client in the table that bears the id by then.
`OwnReply` states what the code does give: as long as only the asker has ever borne
the id, nobody else gets the reply.

`ClientSession` knows connections only.  `Phases` reads how far one has come from the places
the code has it in: *waiting* in the backlog of the listening socket, *admitted* or *shaken*
in a slot, *gone* in neither.

Left out: bytes, pings, the agent's turn between a message and its reply, and a change
of the token or a stop while the server runs.

### TelegramBot

`poll` is where `im_tg_poll` is: *idle*, *wait* for the server, *take* the next update of
the answer and let the offset pass it, *save* the offset if that is due, *push* the text.
`link` is `app_im_init_evt_cb`, which at every connection reads the token and the offset
from flash and only then writes the offset: a save that falls in between is undone
in memory.  `cli` is `telegram_set_token` with its three steps.  `Restart` keeps `kv` and
nothing else.

An update is its bot and its number; the server hands out an update as often as it is
asked from its number on.  The 5 seconds after which a save is due may have
passed at any time; writing may fail.  The inbound queue may be full.  `Silent`
updates hold no message.  A message whose text is missing ends like one the queue refuses.

`upset` is a history of what the properties make an exception for: a token
changed under a poll, a connection or another change (*crossed*), a setback further than the
ring goes (*lagged*), a save that failed (*failed*).  The code handles none of them.

Left out: sending, the proxy, TLS, message keys that collide (64 bits), a bot that
starts again from lower numbers.

### McpServer

Three threads share `s_server_ctx` without a lock.  `epc` is the event thread of the first
connection: the hook of the agent loop, the first initialization, the built-in tools, the second
initialization (on Linux), the other tools one after the other.  The AI thread handles one message
per step; `lpc` is the cloud that follows `nextCursor`.  `wpc` is the work queue.

Tools are numbered in the order of their registration, and since a new tool becomes the
head of the list, the list is the set of the numbers from the largest down.  A page ends
before the first tool that does not fit behind the ones before it.  The values of a call
start from a copy of what the tool has (`own`), are overwritten by the arguments in the order
they are given, and are refused if one has the wrong type or is out of its range, or if a
property ends without a value.  Numbers are counted in parts (`Scale` to a one), as JSON has
them, and an integer argument is what cJSON keeps of it, cut towards zero and held
within an `int` (`ValueInt`); its range is checked after that.

`Silent` messages get no answer: what is not JSON-RPC 2.0 or has no method, a notification,
a request whose id is no string (a number included), one whose params are no object.

A failed registration of a built-in tool destroys the server: the tools of queued
calls are freed, and `__reply_error` finds no function to send with.  `alive` becomes false
there; the properties exclude servers that were destroyed.

`CallLine` is the server for somebody who does not list tools: `Unanswered` is the call at work,
until its answer is sent, followed by the work queue.  A failed call is answered and then
reported, a successful one reported and then answered; in the line both are one step.

Left out: what the tools do, and how a reply is put together.

### ChatModes

A mode has a state it wants (`set`, `sg_mode_set_state`) and a state it is in (`cur`).
`task` is one pass of `ai_chat_mode`: it reads `set`, does what entering that state takes,
and then copies `set`, as it is by then, into `cur`.  `Told` are the events, from the
cloud's callbacks, the player, the button and the wake word.  `sw` is a switch, by double
click or by the tool, in its three steps; `Connected` starts the saved mode again if it is
registered.  `saved` is the mode in KV: what a change of the volume finds
current (`SetVolume`), or the default mode (`Default`) while there is none, and what a switch by button leaves
current, also one that fails: the mode that stayed, or number 0 for *hold* when there was
none.

`rec` and `input` are the part of `ai_audio_input.c` and of the cloud's session the modes
drive: whether voice is detected or the button decides, whether the recorder is awake,
whether somebody speaks, whether the cloud listens.  The four source files of the modes are
nearly the same; `Listens`, `ThinkAwake` and `ThinkWake` name what differs.

`clean` and `strayed` are histories.  An event that comes before the pass has taken up the
one before it ends cleanness, until a pass for a quiet state goes through undisturbed; a
start that fails, a connection that changes the mode and two threads switching at once make
the mode stray for good.  The code gives no guarantee in either case, so the four properties
are about the histories without them, and the hazards those cases stand for are listed
without a property.  `HeldIsHeard` further excepts an input that a text of the agent loop
has closed (`cut`).

Left out: the idle timer of the wake word mode (see section 5), sounds, leds, the loudness itself,
a KV store that fails, the bytes of the recording.

## 3. Runs

| run | instance | what it checks | states |
|---|---|---|---|
| `agent_safety` | a message of a user who is not on the configured channel and one without a route, connections at any point, one spoken round, queues of one, two iterations | a clean turn decides on its own state, wakes on its own END, answers its message in its chat, but for the channel after a connection; every success is recorded before END | 5.6 M |
| `agent_live` | a user's message and one without a route, queues of two, connections at any point | the loop is a `TurnService`; every accepted message is served | 0.3 M |
| `agent_stale` | two users | *violated*: an old round's text is forwarded to the next user | |
| `cron_restart` | three jobs for a table of two: one deleted after it ran, one kept, one recurring; clock unknown at first; saves that fail or leave an entry out; a file of two jobs that is too long; one restart | no second reminder; on time is not overdue; the mark lands on the pushed job; accepted jobs stay, and survive the restart; the file is the table | 2.9 M |
| `cron_live` | a one-shot and a recurring job, races included | a due job is taken up | 0.8 M |
| `cron_race` | two jobs | *violated*: the job that reminded is the one that is deleted | |
| `acp_live` | two requests, one without a chat; three events on the link | own answer for a clean request; one notice; the client is an `AsyncRequest`; a notice for every accepted request | 0.09 M |
| `acp_slip` | two requests | *violated*: the reply told for a request is its own | |
| `ws_live` | two clients who know the token and a stranger for two slots and two socket numbers; the token in the build, in KV, or none; clients leave at any point | items are taken up in order and none skipped; strangers are not heard if there is a token, and never answered; a reply stays with its asker; the server serves every connection as `ClientSession` says; every reply leaves the dispatcher, every item is read or its link closed | 0.17 M |
| `telegram` | two bots with three updates and one; a ring, a buffer and a save step of two; one restart, two connections, one change of the token | nothing is pushed twice or after a later message; the offset passes nothing unseen; what is stored lags by no more than the ring covers, and the ring is long enough for it; every update is reached | 1.1 M |
| `mcp_tools` | four tools in two registrations; a page that one tool or two fill to the last byte; two calls with arguments missing, doubled, defaulted and with fractions, one out of range, a call with a number for its id, a request whose params are a list, a notification, an `initialize` | a listing is the tools there were; one answer per request, none for what is dropped; one report per call; own arguments; the server is a `CallLine`; every call answered, every listing ends | 0.19 M |
| `chat_modes` | the hold and the wake word mode, two threads that switch, reconnections | what is shown is real; no recording without the button; speech under the button reaches the cloud; ears are the current mode's: each for histories without an event that comes too early or a mode that strays | 1.3 M |

The three violated runs are recorded as findings, with the line each contradicts.

**Bounds.**  `agent_*`: two messages are what it takes for one turn to disturb the next; a
queue of one is full as soon as a message waits, a queue of two has an order; two iterations
have a first, a retry and a last; the user is on the channel that is not the configured one,
where a connection matters.  `cron_*`: a table of two has an entry that moves and can be
full with three jobs; four or two ticks after `MinEpoch` let a job be due, missed and
overdue; one restart can hit every state before it, and the properties speak about one life
of the process.  `cron_restart` follows a behaviour up to the first moment both threads are
inside the service, and up to the first job added after the restart (`CONSTRAINT
OnceFilled`): what the code does beyond the first is the subject of `cron_race`, and of
`cron_live` and the proof of `TypeOK`, which have no such condition; the second keeps the
run small.  `acp_live`: two requests are what it takes for one to be told the other's
answer; the link holds a text and two finals.
`cron_restart` takes the file of the two jobs that stay for too long (`MCFitting`), so a start finds
one of either kind.
`ws_live`: two socket numbers for three clients make one be used again, two slots make the
third client be refused, two clients with the token make a reply have another bearer to go
to, a queue of one is full after one message, and the one chat id clients give looks like a
socket number, the hardest case for a reply.  `CONSTRAINT Company`: with the token of the
build the clients come in one order and the stranger, the last, only connects; with a token
of KV or none, where nobody is answered, the stranger asks and one client shakes hands.
`telegram`: three updates overflow the ring and the buffer of two and make a save due; one
restart, two connections and one change of the token can fall into each other.
`mcp_tools`: one tool that fills a page and two that do together put a page's end at every
kind of place; numbers are counted in halves (`Scale = 2`), the coarsest with fractions, and
no argument comes near `IntMax`; the requests that no call depends on come in one order
(`CONSTRAINT InTurn`).  `chat_modes`: the hold mode is the one with a button and without
detection, the wake word mode has both the detection and the wake word; a behaviour is
followed up to the first stray change of the mode, and no switch is followed on from an
event that came too early (`CONSTRAINT Followed`); the default mode is one that is not
registered.
`agent_live` has no spoken rounds; that they do not disturb the order of the turns is part of
the proof of `TurnsInOrder`.
Every safety property of the passing runs is also proved for all values of the
constants, and without the constraints, so no bound matters for those.  The type invariants
of the agent loop, the cron service, the gateway server and the MCP server are proved only.

**Fairness.**  `AgentLoop`: weak fairness of the agent's thread, which the scheduler
of the RTOS gives every thread, and of the second half of the END handler, which
waits for nothing but a lock whose holder is fair; none of the cloud, the tools or
the users.  A wait ends because of `TURN_WAIT_MS`, not because the cloud answers.
`CronService`: weak fairness of `claw_cron` only.  `AcpClient`: of the task, and of the
passing of 180 seconds; none of the gateway, the link or the tool.
`WsServer`: strong fairness of `claw_ws` and of a dispatcher that has a reply, as the mutex
of the RTOS hands itself to a waiter though it is taken again and again; the end of a send
is part of it, because a client reads what it is sent or its link fails: `ws_send_all` tries
again without end while the socket is not ready (ws_server.c:218-223), mutex in hand, and is
assumed to end.  No client is assumed to send, to stay or to leave.
`TelegramBot`: weak fairness of the poll, of the second half of a connection's callback, and
of the connection after a start; strong fairness of an answer, as a poll that is repeated
for ever gets through in the end.  `McpServer`: weak fairness of the work queue, as tools
return, and of the cloud following the cursors; none of the event thread.  `ChatModes`
states none: its properties are about quiet moments. Deadlock is checked for `AcpClient`,
`WsServer` and `ChatModes`; the others stop in the model when their messages, requests or
ticks are used up.

## 4. Proofs

`tlapm` checks, for every set of messages, jobs, requests, tools, bots and modes and every bound:

* **AgentLoop.**  `TypeCorrect`; `CleanInvariant` and from it `OwnState`, `OwnChat`,
  `OwnWake`, `SuccessesRecorded`.  `TurnsImplemented` is the refinement of `TurnService`,
  with `LoopInvariant`: no iteration has passed before the turn begins, and a later one
  means the loop was entered for a failed tool, so nothing is flushed.  Whatever the cloud,
  the tools and the flags do is a stutter, a flush or the end of the wait, so this holds of
  every turn, clean or not.  The properties of a clean turn alone are not inductive: that a
  turn answers its own message rests on what may be in flight while it is clean.  `CleanInv`
  adds that from the moment both fields are written the chat is the message's, and the
  channel too, unless a connection has moved it to the configured one (`TargetInv`), that
  every round, text and job in flight is about the message (`CleanRounds`, `CleanTexts`,
  `CleanJob`).
* **CronService.**  `TypeCorrect` holds whatever the threads do to each other, up to a first write in
  front of `s_jobs`; `WritesInside` says that such a write takes two threads inside at once.
  `CronInvariant`, and from it `FiredOnce`, `MarksItsJob`, `OnTime`, `Saved` and `Kept`, hold up to the
  first race.  `CronInv` adds: an enabled entry has a time (`AllTimed`), one thread is
  inside (`OneInside`), ids are unique, the job being marked has fired and still lies
  where the loop looks (`MarkedIsFired`), the text of a save is the table
  (`SaveIsTable`), and, for the punctuality of reminders, that an enabled entry is at
  most as late as the loop's position allows (`Punctual`, `LateBy`).
  `Survives` rests on `FileInvariant`: while no thread writes the file and every save was whole,
  it holds every accepted job that has not reminded or been removed (`FileHasJobs`).  A job
  is accepted only after the save that follows it, which is why the tool's `added` is left out
  of the converse.  It is about starts that take the file over; one that does not, one after a save that
  failed or left an entry out, and one in the moment after `cron_service.c:262` has emptied the
  file do lose jobs.  `SavedIds` adds that what is being saved names each job once.
* **AcpClient.**  `AcpInvariant`, and from it `TypeCorrect`, `ToldOnce`, `OwnAnswer` and
  `RequestsImplemented`: each step maps to one of `AsyncRequest` or to a stutter, with the
  window as the open request and the taken route as the one in hand.  `AcpInv` adds that
  only the tool opens a window and passes the check first (`Order`), that a request waits,
  has its route taken or has been told (`Once`), and that from the snapshot of its route on
  a clean request is alone with the gateway (`Alone`).  The snapshot is the point where
  cleanness must begin: were it the opening of the window, the task could still take the
  route in between, for a late reply.
* **WsServer.**  `WsInvariant`, and from it `TypeCorrect`, `InSequence`, `OnlyKnown` and
  `NoStrangersReply`.  `WsInv` adds that the mutex is held exactly where the two threads
  believe it is (`MutexIsHeld`), that no two slots share a connection and none that has a
  slot still waits to be accepted (`ConnsApart`), that nothing of a client is read before it
  has a slot (`NothingReadYet`), that buffer and network hold the rest of what the client
  sent, in order (`RestInOrder`), that with a token only a client who showed it is past its
  handshake (`KnownOnwards`), that the dispatcher sends only where the build has one
  (`SendingWithToken`), and that the slot it sends to still bears the id
  (`SendingToBearer`).  The last one is where the mutex matters: without it the slot could
  change hands between the search and the send. `SessionsImplemented` is the refinement of
  `ClientSession`, with `SessionInvariant`: the request comes first of what is left of a
  client, and a slot is shaken exactly if something of its client was taken up
  (`HelloFirst`).  Most of the proof is that a step which touches one slot or the backlog
  moves one connection and leaves the phases of the others (`OneMoves`, `PhasesStay`).
* **TelegramBot.**  `TelegramInvariance`, and from it `TelegramTypes`, `PushedOnceInOrder`
  and `NoUpdateSkipped`.  `TgInv` adds whose updates a poll, a connection and a ring hold
  (`InvBot`), that everything below the offset, the stored one and the one a connection has
  read was looked at, and that a poll starts no later than that (`InvDone`), how far offset
  and setbacks have gone (`InvSpan`), and what the ring must still hold (`InvRing`): every
  message pushed at or above the lowest offset a setback may return to.  `BackInvariance`
  bounds how far back that is: as long as nothing fails or is crossed, what was saved last
  is what is stored, and the offset is ahead of it by less than a saving step, and one more
  for each connection, since a connection that comes between the step of the offset and its
  saving makes that saving fall out (`Behind`).  So `SetbackSmall`, and with the ring
  `RingIsEnough`: if the ring is no more than two shorter than a saving step and the
  connections together, no setback makes a message be pushed twice.  With 10 and 64 this
  allows 56 connections.
* **McpServer.**  `McpInvariance`, and from it `McpTypes`, `ListedAreTheTools`,
  `RepliedOnce`, `ToldOfEachCall` and `OwnArguments`.  `RepliedOnce` is about the requests
  whose id and params can be used and says that the others get no answer; `OwnArguments` is
  about the integers the numbers of a request are cut to.  `McpInv` adds that tools
  registered since a listing began lie above those it began with, and that what was listed
  is exactly what lies above the cursor (`ListInv`), that the hook is kept and the values of
  the tools are those of their definitions (`ServerInv`), and what a call has been answered
  and reported at each place of the work queue (`CallInv`).  `LineImplemented` is the
  refinement of `CallLine`: the answer is the step at which a call leaves the line, wherever
  the report falls.
* **ChatModes.**  `ModeInvariance`, and from it `ModeTypes`, `ShownIsReal`,
  `QuietWithoutButton`, `HeardWhileHeld` and `EarsOfMode`, for every list of the four
  modes.  `ModeInv` adds what a switch has done at each of its steps (`InvSwitch`,
  `InvEars`), which mode and state the pass at work is about as long as nothing has come in
  between (`InvPass`), and what the hold mode may want without its button (`InvHold`).

The assumptions are those the modules name about their constants: bounds are positive, the
number of parts of a one too, the `No...` values are not members, the default mode is one of
the four, the overdue threshold is two intervals, the built-in tools are registered by one
function, the list of modes names each once.

The inductive invariants are not among the invariants of the runs: they are proved, and
TLC has checked each of them on the instance of its component.

Only model-checked: liveness (`EveryMessageIsServed`, `DueIsTaken`, `AcceptedIsTold`,
`RepliesLeave`, `ItemsAreRead`, `CatchesUp`, `CallsAreAnswered`, `ListingEnds`), which is beyond
the prover, and the three violations, which are about one behaviour each.

## 5. Seen in the code, and not a property

* A tool's answer is OK although the save failed (`cron_save_jobs`).
* The clock is read twice when a job is added: a job due in between is stored
  disabled and reported as added.
* A reminder the bus did not accept is deleted like one it did.
* Overdue and kept one-shot jobs never leave the table of eight.
* A table of long texts can exceed `CRON_FILE_MAX` and is then ignored at the next start, as
  is a file that cannot be read or for which there is no memory (`cron_service.c:116-133`);
  the next save overwrites it.
* An entry there is no memory for is left out of a save that returns OK (`cron_service.c:230`).
* With a count of -1, after two removals of one job, the next job is written to `s_jobs[-1]`
  (`cron_service.c:489`).
* A connection to the cloud in the middle of a turn sets the channel to the configured one and leaves the
  chat id (`app_im.c:160-225`): the reply goes to another channel with an id of this one.
* A successful tool call ends the loop, where `agent_loop.c:13` says it continues.
* The timeout of a request is 180 s; `acp_client.h:79` and the text of
  `acp_client.c:1401` say 120.
* A final event without text counts with text that an earlier event left behind,
  and a timeout does not clear it.
* The task does not read an idle link, so a link closed meanwhile costs the next
  request its answer.
* A failed tool call is replied to before it is recorded, so END can be handled while
  the failure is not recorded yet; `ducky_claw_chat.c:258` says that at END all calls are done.
* `cron.json` is emptied before it is written: a power cut between the two loses every job
  (`cron_service.c:262`).  `AcceptedSurvives` excludes this moment, and histories in which a
  save failed or left an entry out or a start did not take the file over.
* The idle timer of the wake word mode is created into a local variable that hides the static
  one (`ai_mode_wakeup.c:154`): a mode that listens and hears nothing listens for ever.
* A button released within the 20 ms before the listening is entered is ignored, and the
  recording goes on without it (`ai_mode_hold.c:284`).
* The update offset passes a message before it is pushed: a restart in between, or a full
  inbound queue, loses it (`telegram_bot.c:348`).
* The token of Telegram changed while an answer for the old one is worked through: its
  offsets become those of the new bot.  A token set where there was none is not polled until the
  next connection.
* An answer of more than 16 KiB is cut, cannot be parsed, and is asked for again for ever.
* A failed registration of a built-in tool destroys the MCP server under its queued calls, and
  `__reply_error` calls a `send_message` that is then null (`ai_mcp_server.c:919`).
* A property of a tool there is no memory for is left out of the tool without a word.
* A request with a number for its id, or with params that are no object, is dropped without an answer
  (`ai_mcp_server.c:1285-1296`), though JSON-RPC allows the first.
* 100.9 passes a maximum of 100 as 100, and 3.7 runs as 3 (`ai_mcp_server.c:1113-1124`).
* A tool whose description is longer than a page is never listed, and the cursor stays on it.
* A gateway server opened by a token in KV, or by none at all, hears its clients, but the
  dispatcher asks for the token of the build and drops every reply.
* A switch by button that fails saves the mode that stayed, and number 0, the hold mode, when none was on
  (`ai_manage_mode.c:337-339`, `ai_chat_main.c:264-272`).
* The chat id of a client that gave none is its socket number.  The number is used
  again, so a reply that comes after its client left may reach the next one, and a client
  may give the number of another as its own id.

## 6. Not modelled

Modelled for the most part: the queues of the message bus as their users see them, agent
loop, routing and dispatch, cron service, gateway client and server, Telegram channel, MCP
server, chat modes, and the part of the audio input the modes drive.  What is left out of
each is said in section 2.

Worth a module, in this order:

1. Session, heartbeat and resume of Discord, and the login and cursor of Weixin.
2. The history of a turn and the session ring read back from a file, as functions with
   a reference definition.
3. The chat id in KV over a reboot (`app_im.c`), the audio ring buffer and the player's
   queue against their users.
4. The search for the epoch of a local date (`tool_cron.c`), as a function.

Worth proving next: that `CronService` implements an abstract reminder (asked, then
reminded once, reported or removed), `TelegramBot` an abstract channel (each update pushed at
most once, in order), and `ChatModes` an abstract mode switch.

Not modelled, because there is little to check: user interface, fonts, pictures and video,
certificates and the proxy, file, shell and pin tools, skills, the prompts, the command line and
the startup: input and output over third-party libraries, with no state of their own
worth a model.
