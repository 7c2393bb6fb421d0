------------------------------ MODULE McpServer ------------------------------
(***************************************************************************)
(* The MCP server, ai_components/ai_mcp/src/ai_mcp_server.c, and the       *)
(* registration of its tools, ai_mcp_tools.c and tools/tools_register.c.   *)
(*                                                                         *)
(* Three threads share the server without a lock: the event thread, which  *)
(* sets it up when the device is online and registers the tools one after  *)
(* the other; the AI thread, which handles the messages of the cloud; and  *)
(* the work queue, which runs the tools.  Tools are numbered in the order  *)
(* of their registration.  A new one becomes the head of the list, so the  *)
(* list is the set of the registered numbers, from the largest down.       *)
(* A reply always finds the memory it needs.                               *)
(***************************************************************************)
EXTENDS Integers, Sequences, Functions

CONSTANTS
    NTools,    \* tools of all registrations; 1 .. Builtins are the built-in ones
    Builtins,
    GroupEnd,  \* the last tool of the function that registers a tool
    Size,      \* length of a tool's description, and the limit for a page:
    PageMax,   \* MCP_MAX_PAYLOAD_SIZE less 100
    Linux,     \* PLATFORM_LINUX
    Def,       \* the properties of each tool, by name
    NoVal,
    Reqs,      \* messages of the cloud other than tools/list
    Req,       \* what a message holds
    NoReq,
    Scale,     \* a number of a message is counted in units of 1 / Scale
    IntMax,    \* INT_MAX
    MaxLists   \* bound of the model: listings of the tools

Tools == 1 .. NTools
Types == {"bool", "int", "str"}
PropDef == [type : Types, ranged : BOOLEAN, lo : Int, hi : Int, default : Int \cup {NoVal}]

ASSUME ToolsAssumption == NTools \in Nat /\ Builtins \in Tools /\ Linux \in BOOLEAN
ASSUME GroupAssumption ==
    /\ GroupEnd \in [Tools -> Tools] /\ \A t \in Tools : t =< GroupEnd[t]
    /\ \A t \in 1 .. Builtins : GroupEnd[t] = Builtins
ASSUME SizeAssumption == Size \in [Tools -> Nat] /\ PageMax \in Nat /\ MaxLists \in Nat
ASSUME NoValAssumption == NoVal \notin Int /\ NoReq \notin Reqs
ASSUME DefAssumption ==
    /\ DOMAIN Def = Tools
    /\ \A t \in Tools : Def[t] \in [DOMAIN Def[t] -> PropDef]
ASSUME NumberAssumption == Scale \in Nat \ {0} /\ IntMax \in Nat
ASSUME ReqAssumption ==
    \A r \in Reqs :
        /\ Req[r].kind \in {"malformed", "notification", "initialize", "call", "other"}
        /\ Req[r].id \in {"string", "other"} /\ Req[r].params \in {"object", "none", "other"}
        /\ Req[r].tool \in Int
        /\ \A i \in DOMAIN Req[r].args : Req[r].args[i].type \in Types /\ Req[r].args[i].val \in Int

VARIABLES
    alive,     \* the device has not crashed
    epc, next, \* the event thread: what it does, the tool it registers next
    inited, hook,         \* of s_server_ctx; send_message is set with inited
    tools, own,           \* the tools, and the values of their properties
    lists, lpc, cursor,   \* the cloud's listing: the next cursor it was given
    got, twice, atStart,  \* history: tools listed, one of them twice, tools at its start
    state, seen,          \* of a request, and the arguments its call carries
    workq, wpc, wreq,     \* the work queue, and the call it runs
    answers, reports,     \* history: replies to a request, reports of its call
    hooked, destroyed     \* history: the agent loop set the hook, the server was lost

serverVars == <<inited, hook, tools, own, hooked, destroyed>>
listVars   == <<lists, lpc, cursor, got, twice, atStart>>
workVars   == <<wpc, wreq>>
callVars   == <<state, seen, workq, answers>>
vars == <<alive, epc, next, serverVars, listVars, callVars, workVars, reports>>

Reply  == {"result", "error"}

NoArgs == [p \in {} |-> 0]

TypeServer ==
    /\ alive \in BOOLEAN /\ inited \in BOOLEAN /\ hook \in BOOLEAN
    /\ hooked \in BOOLEAN /\ destroyed \in BOOLEAN
    /\ epc \in {"hook", "init", "again", "register", "done"} /\ next \in 1 .. NTools + 1
    /\ tools \subseteq 1 .. next - 1 /\ DOMAIN own = Tools
    /\ \A t \in tools : own[t] \in [DOMAIN own[t] -> Int \cup {NoVal}]
TypeList ==
    /\ lists \in 0 .. MaxLists /\ lpc \in {"idle", "more", "end"} /\ cursor \in 0 .. NTools
    /\ got \subseteq Tools /\ atStart \subseteq Tools /\ twice \in BOOLEAN
TypeCall ==
    /\ state \in [Reqs -> {"new", "queued", "running", "ended", "done"}]
    /\ DOMAIN seen = Reqs /\ workq \in Seq(Reqs)
    /\ answers \in [Reqs -> Seq(Reply)] /\ reports \in [Reqs -> Nat]
TypeWork ==
    /\ wpc \in {"idle", "ok", "reported", "failed", "replied"}
    /\ IF wpc = "idle" THEN wreq = NoReq ELSE wreq \in Reqs /\ state[wreq] = "running"
    /\ \A i \in DOMAIN workq : state[workq[i]] = "queued"
    /\ \A i, k \in DOMAIN workq : workq[i] = workq[k] => i = k
TypeOK == TypeServer /\ TypeList /\ TypeCall /\ TypeWork

Init ==
    /\ alive = TRUE /\ epc = "hook" /\ next = 1
    /\ inited = FALSE /\ hook = FALSE /\ tools = {} /\ own = [t \in Tools |-> NoArgs]
    /\ lists = 0 /\ lpc = "idle" /\ cursor = 0 /\ got = {} /\ twice = FALSE /\ atStart = {}
    /\ state = [r \in Reqs |-> "new"] /\ seen = [r \in Reqs |-> NoArgs]
    /\ workq = <<>> /\ wpc = "idle" /\ wreq = NoReq
    /\ answers = [r \in Reqs |-> <<>>] /\ reports = [r \in Reqs |-> 0]
    /\ hooked = FALSE /\ destroyed = FALSE

-----------------------------------------------------------------------------
(* The event thread, on EVENT_MQTT_CONNECTED.                              *)

\* The agent loop subscribes with SUBSCRIBE_TYPE_EMERGENCY and is called
\* first; it sets the hook, unless it fails before.
SetHook ==
    /\ epc = "hook" /\ epc' = "init"
    /\ hook' \in BOOLEAN /\ hooked' = hook'
    /\ UNCHANGED <<alive, next, inited, tools, own, destroyed, listVars, callVars, workVars,
                   reports>>

\* Mutant: the whole context is cleared.
FreshForgetsHook == tools' = {} /\ inited' = TRUE /\ hook' = FALSE

\* ai_mcp_server_init of a server that is not initialized: a cleared context
\* with the hook that was set before.
Fresh == tools' = {} /\ inited' = TRUE /\ UNCHANGED hook

\* Mutant: a server that runs is initialized again.
InitializedAgain == Fresh

Initialized == IF inited THEN UNCHANGED <<inited, hook, tools>> ELSE Fresh

InitBuiltin ==
    /\ epc = "init"
    /\ Initialized /\ epc' = "register" /\ next' = 1
    /\ UNCHANGED <<alive, own, hooked, destroyed, listVars, callVars, workVars, reports>>

\* Without memory for the name or the version the callback gives up.
InitFails ==
    /\ ~inited
    /\ \/ epc = "init" /\ epc' = "again"
       \/ epc = "again" /\ Linux /\ epc' = "done"
    /\ UNCHANGED <<alive, next, serverVars, listVars, callVars, workVars, reports>>

\* tools_register.c initializes the server too, on Linux only.
InitAgain ==
    /\ epc = "again"
    /\ IF Linux THEN Initialized ELSE UNCHANGED <<inited, hook, tools>>
    /\ epc' = "register" /\ next' = Builtins + 1
    /\ UNCHANGED <<alive, own, hooked, destroyed, listVars, callVars, workVars, reports>>

\* The callbacks of the event follow each other.
AfterTools == IF next' = Builtins + 1 THEN epc' = "again" ELSE UNCHANGED epc

\* ai_mcp_tool_register: a property there is no memory for is left out.
AddTool ==
    /\ epc = "register" /\ next \in Tools /\ inited
    /\ \E P \in SUBSET DOMAIN Def[next] :
          own' = [own EXCEPT ![next] = [p \in P |-> Def[next][p].default]]
    /\ tools' = tools \cup {next}
    /\ next' = next + 1 /\ AfterTools
    /\ UNCHANGED <<alive, inited, hook, hooked, destroyed, listVars, callVars, workVars,
                   reports>>

\* Without memory, or without a server, a tool is refused, and the function
\* returns; only the built-in one takes the server down with it.
Refused ==
    /\ epc = "register" /\ next \in Builtins + 1 .. NTools
    /\ next' = GroupEnd[next] + 1
    /\ UNCHANGED <<alive, epc, serverVars, listVars, callVars, workVars, reports>>

\* ai_mcp_server_destroy: the tools are freed, the whole context is cleared.
Destroy ==
    /\ epc = "register" /\ next \in 1 .. Builtins
    /\ epc' = "again" /\ next' = Builtins + 1
    /\ inited' = FALSE /\ hook' = FALSE /\ tools' = {} /\ destroyed' = TRUE
    /\ UNCHANGED <<alive, own, hooked, listVars, callVars, workVars, reports>>

Registered ==
    /\ epc = "register" /\ next > NTools /\ epc' = "done"
    /\ UNCHANGED <<alive, next, serverVars, listVars, callVars, workVars, reports>>

\* With every further connection the agent loop tries to start again.
HookLater ==
    /\ epc = "done" /\ ~hook /\ ~hooked /\ hook' = TRUE
    /\ UNCHANGED <<alive, epc, next, inited, tools, own, hooked, destroyed, listVars, callVars,
                   workVars, reports>>

Register ==
    \/ HookLater \/ SetHook \/ InitBuiltin \/ InitFails \/ InitAgain
    \/ AddTool \/ Refused \/ Destroy \/ Registered

-----------------------------------------------------------------------------
(* tools/list: the cloud follows nextCursor through the pages.             *)

\* The tools from the cursor on; 0 stands for no cursor.
From(c) ==
    IF c = 0 THEN tools
    ELSE IF c \in tools THEN {t \in tools : t =< c} ELSE {}

\* Mutant: a tool that fills a page to the last byte does not fit.
UnfitAtLimit(c) ==
    {t \in From(c) : SumFunctionOnSet(Size, {u \in From(c) : u >= t}) >= PageMax}

\* Those that do not fit behind the ones before them.
Unfit(c) ==
    {t \in From(c) : SumFunctionOnSet(Size, {u \in From(c) : u >= t}) > PageMax}

\* The page ends before the first of them, whose name is the next cursor.
\* The cloud had listed the tools in before.
Listed(c, before, dup) ==
    LET Page(page) == /\ got' = before \cup page
                      /\ twice' = (dup \/ before \cap page # {})
    IN  \/ Unfit(c) = {} /\ lpc' = "end" /\ cursor' = 0 /\ Page(From(c))
        \/ \E n \in Unfit(c) :
              /\ \A u \in Unfit(c) : u =< n
              /\ lpc' = "more" /\ cursor' = n /\ Page({t \in From(c) : t > n})

FirstPage ==
    /\ lpc # "more" /\ lists < MaxLists /\ inited
    /\ Listed(0, {}, FALSE)
    /\ atStart' = tools /\ lists' = lists + 1
    /\ UNCHANGED <<alive, epc, next, serverVars, callVars, workVars, reports>>

NextPage ==
    /\ lpc = "more" /\ inited
    /\ Listed(cursor, got, twice)
    /\ UNCHANGED <<alive, epc, next, serverVars, lists, atStart, callVars, workVars, reports>>

\* The callback is gone, nobody answers.
NoPage ==
    /\ lpc = "more" /\ ~inited
    /\ lpc' = "end"
    /\ UNCHANGED <<alive, epc, next, serverVars, lists, cursor, got, twice, atStart, callVars,
                   workVars, reports>>

-----------------------------------------------------------------------------
(* The other messages: ai_mcp_server_parse_message.                        *)

Answer(r, reply) == answers' = [answers EXCEPT ![r] = Append(@, reply)]

\* What gets no reply: a message that is not of version 2.0 or names no method,
\* a notification, and a request whose id is no string, though it may be a
\* number in JSON-RPC, or is missing, or whose params are not an object.
Silent(r) ==
    \/ Req[r].kind \in {"malformed", "notification"}
    \/ Req[r].id # "string" \/ Req[r].params = "other"

Pending(r) == inited /\ state[r] = "new"

Arrives(r, kinds) == Pending(r) /\ ~Silent(r) /\ Req[r].kind \in kinds

Ignored(r) ==
    /\ Pending(r) /\ Silent(r)
    /\ state' = [state EXCEPT ![r] = "done"]
    /\ UNCHANGED <<alive, epc, next, serverVars, listVars, seen, workq, answers, workVars,
                   reports>>

Initialize(r) ==
    /\ Arrives(r, {"initialize"})
    /\ state' = [state EXCEPT ![r] = "done"] /\ Answer(r, "result")
    /\ UNCHANGED <<alive, epc, next, serverVars, listVars, seen, workq, workVars, reports>>

\* The arguments of the request with the name p, and the last of them.
Given(r, p) == {i \in DOMAIN Req[r].args : Req[r].args[i].name = p}
Last(r, p) == CHOOSE i \in Given(r, p) : \A k \in Given(r, p) : k =< i

\* valueint of a number: its fraction is cut off, and it ends at the bounds of
\* an int.
ValueInt(v) ==
    LET whole == IF v >= 0 THEN v \div Scale ELSE -((-v) \div Scale)
    IN  IF whole > IntMax THEN IntMax
        ELSE IF whole < -IntMax - 1 THEN -IntMax - 1 ELSE whole

\* Any number is taken for an integer.
Parsed(arg) == IF arg.type = "int" THEN ValueInt(arg.val) ELSE arg.val

\* __parse_property_value: the type is checked, and the range of an integer,
\* after the fraction is gone.
Fits(d, arg) ==
    /\ arg.type = d.type
    /\ d.type = "int" /\ d.ranged => Parsed(arg) \in d.lo .. d.hi

\* The values the call starts with: a copy of the tool's own.
Value(r, p) ==
    IF Given(r, p) = {} THEN own[Req[r].tool][p] ELSE Parsed(Req[r].args[Last(r, p)])
Arguments(r) == [p \in DOMAIN own[Req[r].tool] |-> Value(r, p)]

\* There are params, the tool exists, every argument is one of its properties,
\* and every property has a value.
Valid(r) ==
    LET t == Req[r].tool
    IN  /\ Req[r].params = "object" /\ t \in tools
        /\ \A i \in DOMAIN Req[r].args :
              LET arg == Req[r].args[i]
              IN  arg.name \in DOMAIN own[t] /\ Fits(Def[t][arg.name], arg)
        /\ \A p \in DOMAIN own[t] : Value(r, p) # NoVal

\* Mutant: the values are parsed into the properties of the tool.
AcceptInPlace(r) ==
    /\ Arrives(r, {"call"}) /\ Valid(r)
    /\ state' = [state EXCEPT ![r] = "queued"] /\ workq' = Append(workq, r)
    /\ seen' = [seen EXCEPT ![r] = Arguments(r)]
    /\ own' = [own EXCEPT ![Req[r].tool] = Arguments(r)]
    /\ UNCHANGED <<alive, epc, next, inited, hook, tools, hooked, destroyed, listVars,
                   answers, workVars, reports>>

\* __handle_tools_call: the call goes to the work queue.
Accept(r) ==
    /\ Arrives(r, {"call"}) /\ Valid(r)
    /\ state' = [state EXCEPT ![r] = "queued"] /\ workq' = Append(workq, r)
    /\ seen' = [seen EXCEPT ![r] = Arguments(r)]
    /\ UNCHANGED <<alive, epc, next, serverVars, listVars, answers, workVars, reports>>

\* A request that is not valid, one there is no memory or no room in the work
\* queue for, and a method the server does not know.
Reject(r) ==
    /\ Arrives(r, {"call", "other"})
    /\ state' = [state EXCEPT ![r] = "done"] /\ Answer(r, "error")
    /\ UNCHANGED <<alive, epc, next, serverVars, listVars, seen, workq, workVars, reports>>

Parse ==
    \/ FirstPage \/ NextPage \/ NoPage
    \/ \E r \in Reqs : Ignored(r) \/ Initialize(r) \/ Accept(r) \/ Reject(r)

-----------------------------------------------------------------------------
(* The work queue: __tool_call.                                            *)

\* A tool the server was destroyed under: only built-in ones were there.
Freed(r) == destroyed /\ Req[r].tool =< Builtins

\* Mutant: the job stays in the queue.
RunKeeps ==
    /\ wpc = "idle" /\ workq # <<>>
    /\ wreq' = Head(workq)
    /\ wpc' \in {"ok", "failed"}
    /\ state' = [state EXCEPT ![wreq'] = "running"]
    /\ UNCHANGED <<alive, epc, next, serverVars, listVars, workq, seen, answers, reports>>

\* The tool runs, and succeeds or fails.  One that was freed may still be
\* intact.
Run ==
    /\ wpc = "idle" /\ workq # <<>>
    /\ wreq' = Head(workq) /\ workq' = Tail(workq)
    /\ wpc' \in {"ok", "failed"}
    /\ state' = [state EXCEPT ![wreq'] = "running"]
    /\ UNCHANGED <<alive, epc, next, serverVars, listVars, seen, answers, reports>>

\* Or it is not.
RunFreed ==
    /\ wpc = "idle" /\ workq # <<>> /\ Freed(Head(workq))
    /\ alive' = FALSE
    /\ UNCHANGED <<epc, next, serverVars, listVars, callVars, workVars, reports>>

Report == reports' = IF hook THEN [reports EXCEPT ![wreq] = @ + 1] ELSE reports
Ended  == wpc' = "idle" /\ wreq' = NoReq /\ state' = [state EXCEPT ![wreq] = "ended"]

\* The success is reported before it is replied ...
ReportOk ==
    /\ wpc = "ok" /\ wpc' = "reported" /\ Report
    /\ UNCHANGED <<alive, epc, next, serverVars, listVars, callVars, wreq>>

\* ... as an error if the result could not be formatted.  A server that is
\* gone replies no result.
ReplyResult ==
    /\ wpc = "reported" /\ Ended
    /\ \/ ~inited /\ UNCHANGED answers
       \/ inited /\ \E reply \in Reply : Answer(wreq, reply)
    /\ UNCHANGED <<alive, epc, next, serverVars, listVars, seen, workq, reports>>

\* Mutant: the handling of a failure falls through to that of a success.
ReplyErrorOnly ==
    /\ wpc = "failed" /\ inited
    /\ Answer(wreq, "error") /\ wpc' = "ok"
    /\ UNCHANGED <<alive, epc, next, serverVars, listVars, state, seen, workq, wreq, reports>>

\* Mutant: the failure is not replied.
ReplyNoError ==
    /\ wpc = "failed" /\ inited
    /\ wpc' = "replied"
    /\ UNCHANGED <<alive, epc, next, serverVars, listVars, callVars, wreq, reports>>

\* A failure is replied before it is reported ...
ReplyError ==
    /\ wpc = "failed" /\ inited
    /\ Answer(wreq, "error") /\ wpc' = "replied"
    /\ UNCHANGED <<alive, epc, next, serverVars, listVars, state, seen, workq, wreq, reports>>

\* ... and __reply_error does not look whether there is a send_message.
ReplyToNobody ==
    /\ (wpc = "failed" \/ wpc = "reported") /\ ~inited
    /\ alive' = FALSE
    /\ UNCHANGED <<epc, next, serverVars, listVars, callVars, workVars, reports>>

ReportFailure ==
    /\ wpc = "replied" /\ Report /\ Ended
    /\ UNCHANGED <<alive, epc, next, serverVars, listVars, seen, workq, answers>>

Work == \/ Run \/ RunFreed \/ ReportOk \/ ReplyResult \/ ReplyError \/ ReplyToNobody
        \/ ReportFailure

-----------------------------------------------------------------------------
Next == alive /\ (Register \/ Parse \/ Work)

Spec == Init /\ [][Next]_vars

\* The work queue keeps running, as its tools return, and the cloud follows
\* the cursors.  Nothing is assumed of the event thread.
FairSpec == /\ Spec
            /\ WF_vars(alive /\ Work)
            /\ WF_vars(alive /\ (NextPage \/ NoPage))

-----------------------------------------------------------------------------
(* Correctness.                                                            *)

\* A cloud that follows the cursors to the last page has been told each tool
\* that was registered when it began, and no tool twice, although tools are
\* registered meanwhile and the server is initialized a second time.
PagesAreTheTools ==
    lpc = "end" /\ ~destroyed => got = atStart /\ ~twice

\* No request is answered twice, and every one that is done with is answered,
\* whether it is refused at once, fails on the work queue, or its result cannot
\* be formatted; but notifications, what is not JSON-RPC 2.0, and requests whose
\* id is no string or whose params are no object never are.
AnsweredOnce ==
    \A r \in Reqs :
        /\ Len(answers[r]) =< 1
        /\ Silent(r) => answers[r] = <<>>
        /\ state[r] \in {"done", "ended"} /\ ~destroyed /\ ~Silent(r) => answers[r] # <<>>

\* If the agent loop was there before the server, it is told of each call that
\* ran, once, and of a success before the cloud gets the result: the two
\* initializations do not lose the hook.
ReportedOnce ==
    \A r \in Reqs :
        /\ reports[r] =< 1
        /\ hooked /\ ~destroyed =>
              /\ state[r] = "ended" => reports[r] = 1
              /\ Req[r].kind = "call" /\ answers[r] = <<"result">> => reports[r] = 1

\* A tool is called with the last value its own request gives for a property,
\* a number without its fraction, or the default of its definition, never with
\* what another call gave; no property lacks a value, no argument is lost, and
\* what is left of each number is in the range of its property.
ArgumentsAreOwn ==
    \A r \in Reqs :
        state[r] \in {"queued", "running", "ended"} =>
            LET d(p) == Def[Req[r].tool][p]
            IN  /\ \A i \in DOMAIN Req[r].args :
                      /\ Req[r].args[i].name \in DOMAIN seen[r]
                      /\ Fits(d(Req[r].args[i].name), Req[r].args[i])
                /\ \A p \in DOMAIN seen[r] :
                      /\ seen[r][p] # NoVal
                      /\ seen[r][p] = IF Given(r, p) = {} THEN d(p).default
                                      ELSE Parsed(Req[r].args[Last(r, p)])

\* The call that is run, until it is answered, and those that wait behind it.
Unanswered == (IF wpc \in {"idle", "replied"} THEN <<>> ELSE <<wreq>>) \o workq

Line == INSTANCE CallLine
    WITH Calls <- {r \in Reqs : Req[r].kind = "call"}, Notes <- {r \in Reqs : Silent(r)},
         Replies <- Reply,
         fresh <- {r \in Reqs : state[r] = "new"}, line <- Unanswered, lost <- destroyed

\* The requests are served as CallLine promises: calls are answered in the
\* order they were accepted, one at a time and once, though a failure is
\* answered before its report and a success after it, though others are
\* refused meanwhile, and though the server is set up twice; none is left
\* without an answer unless the server was destroyed (__tool_call).
AnsweredInOrder == Line!Spec

\* Every call the work queue takes is answered, as long as the server stays.
CallsAreAnswered ==
    \A r \in {c \in Reqs : Req[c].kind = "call"} :
        state[r] = "queued" ~> Len(answers[r]) = 1 \/ destroyed

\* Every listing comes to an end if each tool fits in a page of its own.
ListingEnds ==
    (\A t \in Tools : Size[t] =< PageMax) => (lpc = "more" ~> lpc = "end" \/ destroyed)

-----------------------------------------------------------------------------
(* The inductive invariant behind the safety properties.                   *)

\* The tools of a listing are below those registered since it began.
ListInv ==
    ~destroyed =>
        /\ ~inited => tools = {} /\ lpc = "idle"
        /\ atStart \subseteq tools
        /\ \A t \in tools \ atStart, s \in atStart : t > s
        /\ lpc = "more" => /\ cursor \in atStart /\ ~twice
                           /\ got = {t \in atStart : t > cursor}

ServerInv ==
    /\ hooked /\ ~destroyed => hook
    /\ epc \in {"hook", "init"} => ~inited /\ ~destroyed
    /\ epc = "again" => tools \subseteq 1 .. Builtins
    /\ ~inited /\ ~destroyed => \A r \in Reqs : state[r] = "new"
    /\ \A t \in tools : \A p \in DOMAIN own[t] :
          p \in DOMAIN Def[t] /\ own[t][p] = Def[t][p].default

CallInv ==
    \A r \in Reqs :
        /\ state[r] \in {"new", "queued"} => answers[r] = <<>> /\ reports[r] = 0
        /\ state[r] \in {"queued", "running", "ended"} => Req[r].kind = "call" /\ ~Silent(r)
        /\ state[r] = "done" => reports[r] = 0
        /\ state[r] = "done" /\ Req[r].kind = "call" =>
              answers[r] = IF Silent(r) THEN <<>> ELSE <<"error">>
        /\ state[r] = "running" =>
              /\ wreq = r
              /\ wpc \in {"ok", "failed"} => answers[r] = <<>> /\ reports[r] = 0
              /\ wpc = "reported" => /\ answers[r] = <<>> /\ reports[r] =< 1
                                     /\ hooked /\ ~destroyed => reports[r] = 1
              /\ wpc = "replied" => answers[r] = <<"error">> /\ reports[r] = 0

McpInv ==
    /\ TypeOK /\ ListInv /\ ServerInv /\ CallInv
    /\ PagesAreTheTools /\ AnsweredOnce /\ ReportedOnce /\ ArgumentsAreOwn
=============================================================================
