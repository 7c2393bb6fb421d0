--------------------------- MODULE McpServerProofs ---------------------------
(***************************************************************************)
(* McpInv is inductive, for every list of tools and every set of requests. *)
(* That a page holds what the cloud has not been told rests on the order   *)
(* of the list: a tool registered during a listing is above the cursor.    *)
(* That every call is reported rests on the hook being set before the      *)
(* first request can arrive.                                               *)
(***************************************************************************)
EXTENDS McpServer, SequenceTheorems, TLAPS

LEMMA SomeTools == ASSUME McpInv PROVE tools \subseteq Tools /\ Tools \subseteq Nat
  BY ToolsAssumption DEF McpInv, TypeOK, TypeServer, Tools

LEMMA CountTools ==
    /\ NTools \in Nat /\ Builtins \in Nat \ {0} /\ Builtins =< NTools
    /\ 1 \in 1 .. NTools + 1 /\ Builtins + 1 \in 1 .. NTools + 1
<1>1. NTools \in Nat /\ Builtins \in 1 .. NTools
  BY ToolsAssumption DEF Tools
<1> QED
  BY <1>1

\* What a reply to tools/list changes.
LEMMA OfFrom == ASSUME NEW c PROVE From(c) \subseteq tools /\ Unfit(c) \subseteq From(c)
  BY DEF From, Unfit

LEMMA PageOrLast ==
    ASSUME NEW c, NEW before, NEW dup, Listed(c, before, dup)
    PROVE \/ /\ lpc' = "end" /\ cursor' = 0 /\ got' = before \cup From(c)
             /\ twice' = (dup \/ before \cap From(c) # {})
          \/ \E n \in From(c) :
                /\ lpc' = "more" /\ cursor' = n
                /\ got' = before \cup {t \in From(c) : t > n}
                /\ twice' = (dup \/ before \cap {t \in From(c) : t > n} # {})
<1>1. CASE Unfit(c) = {} /\ lpc' = "end"
  BY <1>1 DEF Listed
<1>2. CASE ~(Unfit(c) = {} /\ lpc' = "end")
  <2>1. PICK n \in Unfit(c) :
           /\ lpc' = "more" /\ cursor' = n
           /\ got' = before \cup {t \in From(c) : t > n}
           /\ twice' = (dup \/ before \cap {t \in From(c) : t > n} # {})
    BY <1>2 DEF Listed
  <2> QED
    BY <2>1, OfFrom
<1> QED
  BY <1>1, <1>2

\* The first reply to a request is its only one.
LEMMA FirstReply ==
    ASSUME NEW reply \in Reply
    PROVE /\ Append(<<>>, reply) = <<reply>> /\ Len(<<reply>>) = 1
          /\ <<reply>> # <<>> /\ <<"error">> # <<"result">> /\ Len(<<>>) = 0
          /\ <<"error">> # <<>>
<1>1. Append(<<>>, reply) = <<reply>> /\ Len(<<reply>>) = 1 /\ Len(<<>>) = 0
  OBVIOUS
<1>2. <<"error">>[1] # <<"result">>[1]
  OBVIOUS
<1> QED
  BY <1>1, <1>2

\* The work queue holds each queued request once.
LEMMA Popped ==
    ASSUME TypeCall, TypeWork, workq # <<>>
    PROVE /\ Head(workq) \in Reqs /\ Tail(workq) \in Seq(Reqs)
          /\ state[Head(workq)] = "queued"
          /\ \A i \in DOMAIN Tail(workq) :
                /\ Tail(workq)[i] # Head(workq) /\ state[Tail(workq)[i]] = "queued"
                /\ \A k \in DOMAIN Tail(workq) : Tail(workq)[i] = Tail(workq)[k] => i = k
<1>1. workq \in Seq(Reqs) /\ Len(workq) \in Nat \ {0} /\ DOMAIN workq = 1 .. Len(workq)
  BY EmptySeq DEF TypeCall
<1>2. Head(workq) = workq[1] /\ Head(workq) \in Reqs /\ Tail(workq) \in Seq(Reqs)
      /\ Len(Tail(workq)) = Len(workq) - 1
      /\ \A i \in 1 .. Len(Tail(workq)) : Tail(workq)[i] = workq[i + 1]
  BY <1>1, HeadTailProperties DEF TypeCall
<1>3. DOMAIN Tail(workq) = 1 .. Len(workq) - 1
  BY <1>2
<1>4. \A i \in DOMAIN Tail(workq) : i + 1 \in DOMAIN workq /\ i + 1 # 1
  BY <1>1, <1>3
<1>5. \A i \in DOMAIN workq : state[workq[i]] = "queued"
  BY DEF TypeWork
<1>6. \A i, k \in DOMAIN workq : workq[i] = workq[k] => i = k
  BY DEF TypeWork
<1>7. 1 \in DOMAIN workq
  BY <1>1
<1>8. ASSUME NEW i \in DOMAIN Tail(workq)
      PROVE /\ Tail(workq)[i] # Head(workq) /\ state[Tail(workq)[i]] = "queued"
            /\ \A k \in DOMAIN Tail(workq) : Tail(workq)[i] = Tail(workq)[k] => i = k
  BY <1>2, <1>3, <1>4, <1>5, <1>6, <1>7
<1> QED
  BY <1>2, <1>5, <1>7, <1>8

\* The event thread.
LEMMA TypeServerStep ==
    ASSUME McpInv, [Next]_vars PROVE TypeServer'
<1>1. CASE HookLater
  BY <1>1 DEF HookLater, TypeServer, McpInv, TypeOK, serverVars
<1>2. CASE SetHook
  BY <1>2 DEF SetHook, TypeServer, McpInv, TypeOK, serverVars
<1>3. CASE InitBuiltin
  <2>1. tools' = {} /\ next' = 1 /\ inited' = TRUE /\ epc' = "register"
        /\ UNCHANGED <<alive, own, hook, hooked, destroyed>>
    BY <1>3 DEF InitBuiltin, Initialized, Fresh, McpInv, ServerInv
  <2> QED
    BY <2>1, CountTools DEF TypeServer, McpInv, TypeOK
<1>4. CASE InitFails
  BY <1>4 DEF InitFails, serverVars, TypeServer, McpInv, TypeOK
<1>5. CASE InitAgain
  <2>1. /\ tools' \subseteq tools /\ next' = Builtins + 1 /\ epc' = "register"
        /\ inited' \in BOOLEAN /\ hook' \in BOOLEAN
        /\ UNCHANGED <<alive, own, hooked, destroyed>>
    BY <1>5 DEF InitAgain, Initialized, Fresh, McpInv, TypeOK, TypeServer
  <2>2. tools' \subseteq 1 .. next' - 1
    BY <1>5, <2>1, CountTools DEF InitAgain, McpInv, ServerInv
  <2> QED
    BY <2>1, <2>2, CountTools DEF TypeServer, McpInv, TypeOK
<1>6. CASE AddTool
  <2>1. PICK P \in SUBSET DOMAIN Def[next] :
           own' = [own EXCEPT ![next] = [p \in P |-> Def[next][p].default]]
    BY <1>6 DEF AddTool
  <2>2. next \in Tools /\ next' = next + 1 /\ tools' = tools \cup {next}
    BY <1>6 DEF AddTool
  <2>3. \A p \in P : Def[next][p].default \in Int \cup {NoVal}
    BY <2>1, <2>2, DefAssumption DEF PropDef
  <2>4. \A t \in tools' : own'[t] \in [DOMAIN own'[t] -> Int \cup {NoVal}]
    <3> SUFFICES ASSUME NEW t \in tools' PROVE own'[t] \in [DOMAIN own'[t] -> Int \cup {NoVal}]
      OBVIOUS
    <3>1. CASE t = next
      <4>1. own'[t] = [p \in P |-> Def[next][p].default]
        BY <3>1, <2>1, <2>2 DEF McpInv, TypeOK, TypeServer
      <4> QED
        BY <4>1, <2>3
    <3>2. CASE t # next
      <4>1. t \in tools /\ own'[t] = own[t]
        BY <3>2, <2>1, <2>2 DEF McpInv, TypeOK, TypeServer
      <4> QED
        BY <4>1 DEF McpInv, TypeOK, TypeServer
    <3> QED
      BY <3>1, <3>2
  <2> QED
    BY <1>6, <2>1, <2>2, <2>4, ToolsAssumption
    DEF AddTool, AfterTools, TypeServer, McpInv, TypeOK, Tools
<1>7. CASE Refused
   BY <1>7, GroupAssumption, ToolsAssumption DEF Refused, serverVars, Tools, TypeServer,
    McpInv, TypeOK
<1>8. CASE Destroy
  <2>1. /\ tools' = {} /\ next' = Builtins + 1 /\ epc' = "again" /\ inited' = FALSE
        /\ hook' = FALSE /\ destroyed' = TRUE /\ UNCHANGED <<alive, own, hooked>>
    BY <1>8 DEF Destroy
  <2> QED
    BY <2>1, CountTools DEF TypeServer, McpInv, TypeOK
<1>9. CASE Registered
  BY <1>9 DEF Registered, serverVars, TypeServer, McpInv, TypeOK
<1>10. CASE RunFreed
  BY <1>10 DEF RunFreed, serverVars, TypeServer, McpInv, TypeOK
<1>11. CASE ReplyToNobody
  BY <1>11 DEF ReplyToNobody, serverVars, TypeServer, McpInv, TypeOK
<1>12. CASE UNCHANGED <<alive, epc, next, serverVars>>
  BY <1>12 DEF TypeServer, McpInv, TypeOK, serverVars
<1> QED
  BY <1>1, <1>2, <1>3, <1>4, <1>5, <1>6, <1>7, <1>8, <1>9, <1>10, <1>11, <1>12
   DEF Next, Register, Parse, Work, FirstPage, NextPage, NoPage, Ignored, Initialize,
    Accept, Reject, Run, ReportOk, ReplyResult, ReplyError, ReportFailure, vars, serverVars,
    listVars, callVars, workVars

\* The listing.
LEMMA TypeListStep ==
    ASSUME McpInv, [Next]_vars PROVE TypeList'
<1>1. CASE FirstPage
  <2>1. Listed(0, {}, FALSE) /\ got \subseteq Tools /\ tools \subseteq Tools
    BY <1>1, SomeTools DEF FirstPage, McpInv, TypeOK, TypeList
  <2>2. From(0) \subseteq Tools
    BY <2>1, OfFrom
  <2>3. /\ lpc' \in {"idle", "more", "end"} /\ cursor' \in 0 .. NTools
        /\ got' \subseteq Tools /\ twice' \in BOOLEAN
    <3>1. CASE lpc' = "end" /\ cursor' = 0 /\ got' = {} \cup From(0)
               /\ twice' = (FALSE \/ {} \cap From(0) # {})
      BY <3>1, <2>1, <2>2, ToolsAssumption
    <3>2. ASSUME NEW n \in From(0), lpc' = "more", cursor' = n,
                 got' = {} \cup {t \in From(0) : t > n},
                 twice' = (FALSE \/ {} \cap {t \in From(0) : t > n} # {})
          PROVE /\ lpc' \in {"idle", "more", "end"} /\ cursor' \in 0 .. NTools
                /\ got' \subseteq Tools /\ twice' \in BOOLEAN
      <4>1. n \in Tools /\ n \in 0 .. NTools
        BY <2>2, CountTools DEF Tools
      <4>2. {t \in From(0) : t > n} \subseteq Tools
        BY <2>2
      <4>3. got' \subseteq Tools
        BY <3>2, <4>2, <2>1
      <4> QED
        BY <3>2, <4>1, <4>3
    <3> QED
      BY <2>1, <3>1, <3>2, PageOrLast
  <2> QED
    BY <1>1, <2>1, <2>3, SizeAssumption DEF FirstPage, McpInv, TypeOK, TypeList
<1>2. CASE NextPage
  <2>1. Listed(cursor, got, twice) /\ got \subseteq Tools /\ tools \subseteq Tools
    BY <1>2, SomeTools DEF NextPage, McpInv, TypeOK, TypeList
  <2>2. From(cursor) \subseteq Tools
    BY <2>1, OfFrom
  <2>3. /\ lpc' \in {"idle", "more", "end"} /\ cursor' \in 0 .. NTools
        /\ got' \subseteq Tools /\ twice' \in BOOLEAN
    <3>1. CASE lpc' = "end" /\ cursor' = 0 /\ got' = got \cup From(cursor)
               /\ twice' = (twice \/ got \cap From(cursor) # {})
      BY <3>1, <2>1, <2>2, ToolsAssumption
    <3>2. ASSUME NEW n \in From(cursor), lpc' = "more", cursor' = n,
                 got' = got \cup {t \in From(cursor) : t > n},
                 twice' = (twice \/ got \cap {t \in From(cursor) : t > n} # {})
          PROVE /\ lpc' \in {"idle", "more", "end"} /\ cursor' \in 0 .. NTools
                /\ got' \subseteq Tools /\ twice' \in BOOLEAN
      <4>1. n \in Tools /\ n \in 0 .. NTools
        BY <2>2, CountTools DEF Tools
      <4>2. {t \in From(cursor) : t > n} \subseteq Tools
        BY <2>2
      <4>3. got' \subseteq Tools
        BY <3>2, <4>2, <2>1
      <4> QED
        BY <3>2, <4>1, <4>3
    <3> QED
      BY <2>1, <3>1, <3>2, PageOrLast
  <2> QED
    BY <1>2, <2>1, <2>3, SizeAssumption DEF NextPage, McpInv, TypeOK, TypeList
<1>3. CASE NoPage
  BY <1>3 DEF NoPage, TypeList, McpInv, TypeOK, listVars
<1>4. CASE UNCHANGED <<listVars>>
  BY <1>4 DEF TypeList, McpInv, TypeOK, listVars
<1> QED
  BY <1>1, <1>2, <1>3, <1>4
   DEF Next, Register, Parse, Work, HookLater, SetHook, InitBuiltin, InitFails, InitAgain,
    AddTool, Refused, Destroy, Registered, Ignored, Initialize, Accept, Reject, Run,
    RunFreed, ReportOk, ReplyResult, ReplyError, ReplyToNobody, ReportFailure, vars,
    serverVars, listVars, callVars, workVars

\* The requests.
LEMMA TypeCallStep ==
    ASSUME McpInv, [Next]_vars PROVE TypeCall'
<1>1. ASSUME NEW r \in Reqs, Ignored(r) PROVE TypeCall'
  BY <1>1 DEF Ignored, Pending, Silent, Reply, TypeCall, McpInv, TypeOK, callVars
<1>2. ASSUME NEW r \in Reqs, Initialize(r) PROVE TypeCall'
  BY <1>2 DEF Initialize, Arrives, Pending, Answer, Reply, TypeCall, McpInv, TypeOK, callVars
<1>3. ASSUME NEW r \in Reqs, Accept(r) PROVE TypeCall'
  BY <1>3 DEF Accept, Arrives, Pending, Reply, TypeCall, McpInv, TypeOK, callVars
<1>4. ASSUME NEW r \in Reqs, Reject(r) PROVE TypeCall'
  BY <1>4 DEF Reject, Arrives, Pending, Answer, Reply, TypeCall, McpInv, TypeOK, callVars
<1>5. CASE Run
  BY <1>5, Popped DEF Run, TypeCall, McpInv, TypeOK, callVars
<1>6. CASE ReportOk
  BY <1>6 DEF ReportOk, Report, TypeWork, TypeCall, McpInv, TypeOK, callVars
<1>7. CASE ReplyResult
  <2>1. wreq \in Reqs
    BY <1>7 DEF ReplyResult, McpInv, TypeOK, TypeWork
  <2>2. ASSUME NEW reply \in Reply, Answer(wreq, reply)
        PROVE answers' \in [Reqs -> Seq(Reply)]
    BY <2>1, <2>2 DEF Answer, McpInv, TypeOK, TypeCall
  <2>3. answers' \in [Reqs -> Seq(Reply)]
    BY <1>7, <2>2 DEF ReplyResult, McpInv, TypeOK, TypeCall
  <2> QED
    BY <1>7, <2>1, <2>3 DEF ReplyResult, Ended, McpInv, TypeOK, TypeCall
<1>8. CASE ReplyError
  BY <1>8 DEF ReplyError, Answer, TypeWork, Reply, TypeCall, McpInv, TypeOK, callVars
<1>9. CASE ReportFailure
  BY <1>9 DEF ReportFailure, Report, Ended, TypeWork, TypeCall, McpInv, TypeOK, callVars
<1>10. CASE UNCHANGED <<callVars, reports>>
  BY <1>10 DEF TypeCall, McpInv, TypeOK, callVars
<1> QED
  BY <1>1, <1>2, <1>3, <1>4, <1>5, <1>6, <1>7, <1>8, <1>9, <1>10
   DEF Next, Register, Parse, Work, HookLater, SetHook, InitBuiltin, InitFails, InitAgain,
    AddTool, Refused, Destroy, Registered, FirstPage, NextPage, NoPage, RunFreed,
    ReplyToNobody, vars, serverVars, listVars, callVars, workVars

\* The work queue.
LEMMA TypeWorkStep ==
    ASSUME McpInv, [Next]_vars PROVE TypeWork'
<1>1. ASSUME NEW r \in Reqs, Ignored(r) PROVE TypeWork'
   BY <1>1 DEF Ignored, Pending, Silent, TypeCall, workVars, callVars, CallInv, TypeWork, McpInv,
    TypeOK
<1>2. ASSUME NEW r \in Reqs, Initialize(r) PROVE TypeWork'
   BY <1>2 DEF Initialize, Arrives, Pending, Answer, TypeCall, workVars, callVars, CallInv, TypeWork,
    McpInv, TypeOK
<1>3. ASSUME NEW r \in Reqs, Accept(r) PROVE TypeWork'
  <2>1. TypeCall /\ TypeWork /\ state[r] = "new" /\ workq \in Seq(Reqs)
        /\ UNCHANGED workVars /\ workq' = Append(workq, r)
        /\ state' = [state EXCEPT ![r] = "queued"]
    BY <1>3 DEF Accept, Arrives, Pending, McpInv, TypeOK, TypeCall
  <2>2. /\ DOMAIN workq = 1 .. Len(workq) /\ Len(workq) \in Nat
        /\ DOMAIN workq' = 1 .. Len(workq) + 1 /\ workq'[Len(workq) + 1] = r
        /\ \A i \in 1 .. Len(workq) : workq'[i] = workq[i]
    BY <2>1
  <2>3. \A i \in 1 .. Len(workq) : workq[i] \in Reqs /\ state[workq[i]] = "queued" /\ workq[i] # r
    BY <2>1, <2>2 DEF TypeWork
  <2>4. \A i \in DOMAIN workq' : state'[workq'[i]] = "queued"
    BY <2>1, <2>2, <2>3 DEF TypeCall
  <2>5. \A i, k \in DOMAIN workq' : workq'[i] = workq'[k] => i = k
    BY <2>1, <2>2, <2>3 DEF TypeWork
  <2>6. IF wpc' = "idle" THEN wreq' = NoReq ELSE wreq' \in Reqs /\ state'[wreq'] = "running"
    BY <2>1 DEF TypeWork, TypeCall, workVars
  <2> QED
    BY <2>1, <2>4, <2>5, <2>6 DEF TypeWork, workVars
<1>4. ASSUME NEW r \in Reqs, Reject(r) PROVE TypeWork'
   BY <1>4 DEF Reject, Arrives, Pending, Answer, TypeCall, workVars, callVars, CallInv, TypeWork,
    McpInv, TypeOK
<1>5. CASE Run
  <2>1. /\ wreq' = Head(workq) /\ workq' = Tail(workq) /\ wpc' \in {"ok", "failed"}
        /\ state' = [state EXCEPT ![Head(workq)] = "running"] /\ workq # <<>>
    BY <1>5 DEF Run
  <2>2. /\ Head(workq) \in Reqs
        /\ \A i \in DOMAIN Tail(workq) :
              /\ Tail(workq)[i] # Head(workq) /\ state[Tail(workq)[i]] = "queued"
              /\ \A k \in DOMAIN Tail(workq) : Tail(workq)[i] = Tail(workq)[k] => i = k
    BY <2>1, Popped DEF McpInv, TypeOK
  <2>3. Tail(workq) \in Seq(Reqs)
    BY <2>1, Popped DEF McpInv, TypeOK
  <2>4. state'[wreq'] = "running" /\ wreq' \in Reqs
    BY <2>1, <2>2 DEF McpInv, TypeOK, TypeCall
  <2>5. \A i \in DOMAIN workq' : state'[workq'[i]] = "queued"
    BY <2>1, <2>2, <2>3 DEF McpInv, TypeOK, TypeCall
  <2> QED
    BY <2>1, <2>2, <2>4, <2>5 DEF TypeWork
<1>6. CASE ReportOk
  BY <1>6 DEF ReportOk, callVars, TypeWork, McpInv, TypeOK
<1>7. CASE ReplyResult
  BY <1>7 DEF ReplyResult, Ended, TypeCall, CallInv, TypeWork, McpInv, TypeOK
<1>8. CASE ReplyError
  BY <1>8 DEF ReplyError, TypeWork, McpInv, TypeOK
<1>9. CASE ReportFailure
  BY <1>9 DEF ReportFailure, Ended, TypeCall, CallInv, TypeWork, McpInv, TypeOK
<1>10. CASE UNCHANGED <<wpc, wreq, state, workq>>
  BY <1>10 DEF TypeWork, McpInv, TypeOK
<1> QED
  BY <1>1, <1>2, <1>3, <1>4, <1>5, <1>6, <1>7, <1>8, <1>9, <1>10
   DEF Next, Register, Parse, Work, HookLater, SetHook, InitBuiltin, InitFails, InitAgain,
    AddTool, Refused, Destroy, Registered, FirstPage, NextPage, NoPage, RunFreed,
    ReplyToNobody, vars, serverVars, listVars, callVars, workVars

\* What is left of a listing: the cloud has been told the tools above the cursor,
\* and those registered since are above them.
LEMMA TheRestBelow ==
    ASSUME McpInv, ~destroyed, lpc = "more"
    PROVE From(cursor) = {t \in atStart : t =< cursor} /\ got \cap From(cursor) = {}
<1>1. tools \subseteq Nat
  BY SomeTools
<1>2. /\ cursor \in atStart /\ got = {t \in atStart : t > cursor} /\ atStart \subseteq tools
      /\ \A t \in tools \ atStart, s \in atStart : t > s
  BY DEF McpInv, ListInv
<1>3. cursor # 0
  BY <1>2 DEF McpInv, TypeOK, TypeList, Tools
<1>4. From(cursor) = {t \in tools : t =< cursor}
  BY <1>2, <1>3 DEF From
<1>5. ASSUME NEW t \in tools, t =< cursor PROVE t \in atStart
  <2>1. t \in Nat /\ cursor \in Nat /\ ~(t > cursor)
    BY <1>1, <1>2, <1>5
  <2> QED
    BY <1>2, <2>1
<1>6. \A t \in got : ~(t =< cursor)
  BY <1>1, <1>2
<1> QED
  BY <1>2, <1>4, <1>5, <1>6

\* The order of the tools, and what is listed.
LEMMA ListStep ==
    ASSUME McpInv, [Next]_vars PROVE ListInv'
<1>1. CASE InitBuiltin
  BY <1>1 DEF InitBuiltin, Initialized, Fresh, listVars, ListInv, McpInv, TypeOK
<1>2. CASE InitAgain
  BY <1>2 DEF InitAgain, Initialized, Fresh, listVars, ListInv, McpInv, TypeOK
<1>3. CASE AddTool
   BY <1>3, ToolsAssumption DEF AddTool, TypeServer, TypeList, Tools, listVars, ListInv,
    McpInv, TypeOK
<1>4. CASE Destroy
  BY <1>4 DEF Destroy, ListInv, McpInv, TypeOK, listVars
<1>5. CASE FirstPage
  <2> SUFFICES ASSUME ~destroyed PROVE ListInv'
    BY <1>5 DEF FirstPage, serverVars, ListInv
  <2>1. atStart' = tools /\ From(0) = tools /\ Listed(0, {}, FALSE) /\ inited
    BY <1>5 DEF FirstPage, From
  <2>2. ASSUME NEW n \in From(0), lpc' = "more", cursor' = n,
               got' = {} \cup {t \in From(0) : t > n},
               twice' = (FALSE \/ {} \cap {t \in From(0) : t > n} # {})
        PROVE cursor' \in tools /\ ~twice' /\ got' = {t \in tools : t > cursor'}
    BY <2>1, <2>2
  <2>3. lpc' = "more" => /\ cursor' \in tools /\ ~twice' /\ got' = {t \in tools : t > cursor'}
    BY <2>1, <2>2, PageOrLast
  <2> QED
    BY <1>5, <2>1, <2>3 DEF FirstPage, serverVars, ListInv
<1>6. CASE NextPage
  <2> SUFFICES ASSUME ~destroyed PROVE ListInv'
    BY <1>6 DEF NextPage, serverVars, ListInv
  <2>1. /\ lpc = "more" /\ cursor \in atStart /\ got = {t \in atStart : t > cursor}
        /\ atStart \subseteq tools /\ ~twice /\ inited
    BY <1>6 DEF NextPage, McpInv, ListInv
  <2>2. tools \subseteq Nat
    BY SomeTools
  <2>3. From(cursor) = {t \in atStart : t =< cursor} /\ got \cap From(cursor) = {}
    BY <2>1, <2>2, TheRestBelow
  <2>4. lpc' = "more" => /\ cursor' \in atStart /\ ~twice'
                         /\ got' = {t \in atStart : t > cursor'}
    <3>1. ASSUME NEW n \in From(cursor), lpc' = "more", cursor' = n,
                 got' = got \cup {t \in From(cursor) : t > n},
                 twice' = (twice \/ got \cap {t \in From(cursor) : t > n} # {})
          PROVE cursor' \in atStart /\ ~twice' /\ got' = {t \in atStart : t > cursor'}
      <4>1. n \in atStart /\ n \in Nat /\ cursor \in Nat /\ n =< cursor
        BY <2>1, <2>2, <2>3
      <4>2. ~twice'
        BY <3>1, <2>1, <2>3
      <4>3. ASSUME NEW t \in atStart PROVE t \in got' <=> t > n
        <5>1. t \in Nat
          BY <2>1, <2>2
        <5>2. t \in got <=> t > cursor
          BY <2>1
        <5>3. t \in From(cursor) <=> t =< cursor
          BY <2>3
        <5> QED
          BY <3>1, <4>1, <5>1, <5>2, <5>3
      <4>4. got' \subseteq atStart
        BY <3>1, <2>1, <2>3
      <4> QED
        BY <3>1, <4>1, <4>2, <4>3, <4>4
    <3> QED
      BY <1>6, <3>1, PageOrLast DEF NextPage
  <2> QED
    BY <1>6, <2>1, <2>4 DEF NextPage, serverVars, McpInv, ListInv
<1>7. CASE NoPage
  BY <1>7 DEF NoPage, serverVars, ListInv, McpInv, TypeOK, listVars
<1>8. CASE UNCHANGED <<destroyed, inited, tools, listVars>>
  BY <1>8 DEF ListInv, McpInv, TypeOK, listVars
<1> QED
  BY <1>1, <1>2, <1>3, <1>4, <1>5, <1>6, <1>7, <1>8
   DEF Next, Register, Parse, Work, HookLater, SetHook, InitFails, Refused, Registered,
    Ignored, Initialize, Accept, Reject, Run, RunFreed, ReportOk, ReplyResult, ReplyError,
    ReplyToNobody, ReportFailure, vars, serverVars, listVars, callVars, workVars

\* The hook, and the properties of the tools.
LEMMA ServerStep ==
    ASSUME McpInv, [Next]_vars PROVE ServerInv'
<1>1. CASE HookLater
  BY <1>1 DEF HookLater, callVars, ServerInv, McpInv, TypeOK, serverVars
<1>2. CASE SetHook
  BY <1>2 DEF SetHook, callVars, ServerInv, McpInv, TypeOK, serverVars
<1>3. CASE InitBuiltin
   BY <1>3 DEF InitBuiltin, Initialized, Fresh, callVars, ServerInv, McpInv, TypeOK,
    serverVars
<1>4. CASE InitFails
  BY <1>4 DEF InitFails, ListInv, callVars, ServerInv, McpInv, TypeOK, serverVars
<1>5. CASE InitAgain
  BY <1>5 DEF InitAgain, Initialized, Fresh, callVars, ServerInv, McpInv, TypeOK, serverVars
<1>6. CASE AddTool
  <2>1. PICK P \in SUBSET DOMAIN Def[next] :
           own' = [own EXCEPT ![next] = [p \in P |-> Def[next][p].default]]
    BY <1>6 DEF AddTool
  <2>2. next \in Tools /\ tools' = tools \cup {next} /\ DOMAIN own = Tools /\ tools \subseteq Tools
    BY <1>6, ToolsAssumption DEF AddTool, McpInv, TypeOK, TypeServer, Tools
  <2>3. \A t \in tools' : \A p \in DOMAIN own'[t] :
           p \in DOMAIN Def[t] /\ own'[t][p] = Def[t][p].default
    BY <2>1, <2>2 DEF McpInv, ServerInv
  <2>4. epc' = "again" => tools' \subseteq 1 .. Builtins
    <3>1. epc' = "again" => next' - 1 = Builtins
      BY <1>6, CountTools DEF AddTool, AfterTools
    <3> QED
      BY <3>1, TypeServerStep DEF TypeServer
  <2> QED
    BY <1>6, <2>3, <2>4 DEF AddTool, AfterTools, McpInv, ServerInv, callVars
<1>7. CASE Destroy
  BY <1>7 DEF Destroy, ServerInv, McpInv, TypeOK, serverVars
<1>8. CASE Registered
  BY <1>8 DEF Registered, callVars, ServerInv, McpInv, TypeOK, serverVars
<1>9. ASSUME NEW r \in Reqs, Ignored(r) PROVE ServerInv'
  BY <1>9 DEF Ignored, Pending, Silent, TypeCall, ServerInv, McpInv, TypeOK, serverVars
<1>10. ASSUME NEW r \in Reqs, Initialize(r) PROVE ServerInv'
  BY <1>10 DEF Initialize, Arrives, Pending, Answer, TypeCall, ServerInv, McpInv, TypeOK, serverVars
<1>11. ASSUME NEW r \in Reqs, Accept(r) PROVE ServerInv'
  BY <1>11 DEF Accept, Arrives, Pending, TypeCall, ServerInv, McpInv, TypeOK, serverVars
<1>12. ASSUME NEW r \in Reqs, Reject(r) PROVE ServerInv'
  BY <1>12 DEF Reject, Arrives, Pending, Answer, TypeCall, ServerInv, McpInv, TypeOK, serverVars
<1>13. CASE Run
  BY <1>13, Popped DEF Run, TypeCall, TypeWork, ServerInv, McpInv, TypeOK, serverVars
<1>14. CASE ReplyResult
  BY <1>14 DEF ReplyResult, Ended, TypeCall, TypeWork, ServerInv, McpInv, TypeOK, serverVars
<1>15. CASE ReportFailure
   BY <1>15 DEF ReportFailure, Ended, TypeCall, TypeWork, ServerInv, McpInv, TypeOK,
    serverVars
<1>16. CASE UNCHANGED <<serverVars, epc, state>>
  BY <1>16 DEF ServerInv, McpInv, TypeOK, serverVars
<1> QED
   BY <1>1, <1>2, <1>3, <1>4, <1>5, <1>6, <1>7, <1>8, <1>9, <1>10, <1>11, <1>12, <1>13,
    <1>14, <1>15, <1>16
   DEF Next, Register, Parse, Work, Refused, FirstPage, NextPage, NoPage, RunFreed,
    ReportOk, ReplyError, ReplyToNobody, vars, serverVars, listVars, callVars, workVars

\* The way of a request.
LEMMA CallStep ==
    ASSUME McpInv, [Next]_vars PROVE CallInv'
<1>1. CASE SetHook
  BY <1>1 DEF SetHook, ServerInv, callVars, CallInv, McpInv, TypeOK
<1>2. CASE Destroy
  BY <1>2 DEF Destroy, callVars, workVars, CallInv, McpInv, TypeOK
<1>3. ASSUME NEW r \in Reqs, Ignored(r) PROVE CallInv'
  BY <1>3 DEF Ignored, Pending, Silent, TypeCall, serverVars, workVars, CallInv, McpInv, TypeOK
<1>4. ASSUME NEW r \in Reqs, Initialize(r) PROVE CallInv'
   BY <1>4 DEF Initialize, Arrives, Pending, Answer, TypeCall, serverVars, workVars, CallInv, McpInv,
    TypeOK
<1>5. ASSUME NEW r \in Reqs, Accept(r) PROVE CallInv'
  BY <1>5 DEF Accept, Arrives, Pending, TypeCall, serverVars, workVars, CallInv, McpInv, TypeOK
<1>6. ASSUME NEW r \in Reqs, Reject(r) PROVE CallInv'
  <2>1. state[r] = "new" /\ state' = [state EXCEPT ![r] = "done"] /\ ~Silent(r)
        /\ answers' = [answers EXCEPT ![r] = Append(@, "error")]
        /\ UNCHANGED <<reports, wpc, wreq, hooked, destroyed>>
    BY <1>6 DEF Reject, Arrives, Pending, Answer, serverVars, workVars
  <2>2. answers[r] = <<>> /\ reports[r] = 0
    BY <2>1 DEF McpInv, CallInv
  <2>3. answers'[r] = <<"error">>
    BY <2>1, <2>2, FirstReply DEF McpInv, TypeOK, TypeCall, Reply
  <2> QED
    BY <2>1, <2>2, <2>3 DEF McpInv, CallInv, TypeOK, TypeCall
<1>7. CASE Run
  <2>1. /\ state' = [state EXCEPT ![Head(workq)] = "running"] /\ wreq' = Head(workq)
        /\ wpc' \in {"ok", "failed"} /\ wpc = "idle"
        /\ UNCHANGED <<answers, reports, hooked, destroyed>>
    BY <1>7 DEF Run, serverVars
  <2>2. Head(workq) \in Reqs /\ state[Head(workq)] = "queued"
    BY <1>7, Popped DEF Run, McpInv, TypeOK
  <2>3. \A r \in Reqs : state[r] # "running"
    BY <2>1, NoValAssumption DEF McpInv, TypeOK, TypeWork, CallInv
  <2> QED
    BY <2>1, <2>2, <2>3 DEF McpInv, CallInv, TypeOK, TypeCall
<1>8. CASE ReportOk
   BY <1>8 DEF ReportOk, Report, ServerInv, TypeCall, TypeWork, callVars, serverVars,
    CallInv, McpInv, TypeOK
<1>9. CASE ReplyResult
   BY <1>9 DEF ReplyResult, Ended, Answer, TypeCall, TypeWork, serverVars, CallInv, McpInv,
    TypeOK
<1>10. CASE ReplyError
  <2>1. /\ wpc = "failed" /\ wpc' = "replied" /\ wreq \in Reqs /\ state[wreq] = "running"
        /\ answers' = [answers EXCEPT ![wreq] = Append(@, "error")]
        /\ UNCHANGED <<state, reports, wreq, hooked, destroyed>>
    BY <1>10 DEF ReplyError, Answer, serverVars, McpInv, TypeOK, TypeWork
  <2>2. answers[wreq] = <<>> /\ reports[wreq] = 0
    BY <2>1 DEF McpInv, CallInv
  <2>3. answers'[wreq] = <<"error">>
    BY <2>1, <2>2, FirstReply DEF McpInv, TypeOK, TypeCall, Reply
  <2>4. \A r \in Reqs : r # wreq => answers'[r] = answers[r] /\ state[r] # "running"
    BY <2>1 DEF McpInv, CallInv, TypeOK, TypeCall
  <2> QED
    BY <2>1, <2>2, <2>3, <2>4 DEF McpInv, CallInv
<1>11. CASE ReportFailure
   BY <1>11 DEF ReportFailure, Report, Ended, TypeCall, TypeWork, serverVars, CallInv,
    McpInv, TypeOK
<1>12. CASE UNCHANGED <<state, answers, reports, wpc, wreq, hooked, destroyed>>
  BY <1>12 DEF CallInv, McpInv, TypeOK
<1> QED
  BY <1>1, <1>2, <1>3, <1>4, <1>5, <1>6, <1>7, <1>8, <1>9, <1>10, <1>11, <1>12
   DEF Next, Register, Parse, Work, HookLater, InitBuiltin, InitFails, InitAgain, AddTool,
    Refused, Registered, FirstPage, NextPage, NoPage, RunFreed, ReplyToNobody, vars,
    serverVars, listVars, callVars, workVars

\* A listing that has ended.
LEMMA PagesStep ==
    ASSUME McpInv, [Next]_vars PROVE PagesAreTheTools'
<1>1. CASE Destroy
  BY <1>1 DEF Destroy, PagesAreTheTools, McpInv, TypeOK
<1>2. CASE FirstPage
  BY <1>2, PageOrLast DEF FirstPage, From, serverVars, PagesAreTheTools, McpInv, TypeOK
<1>3. CASE NextPage
  <2> SUFFICES ASSUME lpc' = "end", ~destroyed PROVE got' = atStart /\ ~twice'
    BY <1>3 DEF NextPage, serverVars, PagesAreTheTools
  <2>1. /\ lpc = "more" /\ got = {t \in atStart : t > cursor} /\ cursor \in atStart
        /\ atStart \subseteq Nat /\ ~twice
    BY <1>3, ToolsAssumption DEF NextPage, McpInv, ListInv, TypeOK, TypeList, Tools
  <2>2. From(cursor) = {t \in atStart : t =< cursor} /\ got \cap From(cursor) = {}
    BY <2>1, TheRestBelow
  <2>3. got' = got \cup From(cursor) /\ twice' = (twice \/ got \cap From(cursor) # {})
    BY <1>3, PageOrLast DEF NextPage
  <2>4. ASSUME NEW t \in atStart PROVE t \in got'
    <3>1. t \in Nat /\ cursor \in Nat
      BY <2>1
    <3> QED
      BY <3>1, <2>1, <2>2, <2>3
  <2> QED
    BY <1>3, <2>1, <2>2, <2>3, <2>4 DEF NextPage
<1>4. CASE NoPage
  BY <1>4 DEF NoPage, ListInv, serverVars, PagesAreTheTools, McpInv, TypeOK
<1>5. CASE UNCHANGED <<lpc, destroyed, got, atStart, twice>>
  BY <1>5 DEF PagesAreTheTools, McpInv, TypeOK
<1> QED
  BY <1>1, <1>2, <1>3, <1>4, <1>5
   DEF Next, Register, Parse, Work, HookLater, SetHook, InitBuiltin, InitFails, InitAgain,
    AddTool, Refused, Registered, Ignored, Initialize, Accept, Reject, Run, RunFreed,
    ReportOk, ReplyResult, ReplyError, ReplyToNobody, ReportFailure, vars, serverVars,
    listVars, callVars, workVars

\* The replies.
LEMMA AnsweredStep ==
    ASSUME McpInv, [Next]_vars PROVE AnsweredOnce'
<1>1. CASE Destroy
  BY <1>1 DEF Destroy, callVars, AnsweredOnce, McpInv, TypeOK
<1>2. ASSUME NEW r \in Reqs, Ignored(r) PROVE AnsweredOnce'
   BY <1>2, FirstReply DEF Ignored, Pending, Silent, CallInv, TypeCall, Reply, serverVars,
    AnsweredOnce, McpInv, TypeOK
<1>3. ASSUME NEW r \in Reqs, Initialize(r) PROVE AnsweredOnce'
   BY <1>3, FirstReply DEF Initialize, Arrives, Pending, Answer, CallInv, TypeCall, Reply,
    serverVars, AnsweredOnce, McpInv, TypeOK
<1>4. ASSUME NEW r \in Reqs, Accept(r) PROVE AnsweredOnce'
   BY <1>4, FirstReply DEF Accept, Arrives, Pending, CallInv, TypeCall, Reply, serverVars,
    AnsweredOnce, McpInv, TypeOK
<1>5. ASSUME NEW r \in Reqs, Reject(r) PROVE AnsweredOnce'
   BY <1>5, FirstReply DEF Reject, Arrives, Pending, Answer, CallInv, TypeCall, Reply, serverVars,
    AnsweredOnce, McpInv, TypeOK
<1>6. CASE Run
  BY <1>6, Popped DEF Run, CallInv, TypeCall, serverVars, AnsweredOnce, McpInv, TypeOK
<1>7. CASE ReplyResult
   BY <1>7, FirstReply DEF ReplyResult, Ended, Answer, CallInv, ServerInv, TypeCall,
    TypeWork, Reply, serverVars, AnsweredOnce, McpInv, TypeOK
<1>8. CASE ReplyError
   BY <1>8, FirstReply DEF ReplyError, Answer, CallInv, TypeCall, TypeWork, Reply,
    serverVars, AnsweredOnce, McpInv, TypeOK
<1>9. CASE ReportFailure
   BY <1>9, FirstReply DEF ReportFailure, Ended, Reply, CallInv, TypeCall, TypeWork,
    serverVars, AnsweredOnce, McpInv, TypeOK
<1>10. CASE UNCHANGED <<answers, state, destroyed>>
  BY <1>10 DEF AnsweredOnce, McpInv, TypeOK
<1> QED
  BY <1>1, <1>2, <1>3, <1>4, <1>5, <1>6, <1>7, <1>8, <1>9, <1>10
   DEF Next, Register, Parse, Work, HookLater, SetHook, InitBuiltin, InitFails, InitAgain,
    AddTool, Refused, Registered, FirstPage, NextPage, NoPage, RunFreed, ReportOk,
    ReplyToNobody, vars, serverVars, listVars, callVars, workVars

\* The reports.
LEMMA ReportedStep ==
    ASSUME McpInv, [Next]_vars PROVE ReportedOnce'
<1>1. CASE SetHook
  <2>1. \A r \in Reqs : state[r] = "new"
    BY <1>1 DEF SetHook, McpInv, ServerInv
  <2>2. \A r \in Reqs : answers[r] = <<>> /\ reports[r] = 0
    BY <2>1 DEF McpInv, CallInv
  <2>3. <<>> # <<"result">>
    BY FirstReply DEF Reply
  <2> QED
    BY <1>1, <2>1, <2>2, <2>3 DEF SetHook, callVars, ReportedOnce
<1>2. CASE Destroy
  BY <1>2 DEF Destroy, callVars, ReportedOnce, McpInv, TypeOK
<1>3. ASSUME NEW r \in Reqs, Ignored(r) PROVE ReportedOnce'
   BY <1>3, FirstReply DEF Ignored, Pending, Silent, CallInv, TypeCall, Reply, serverVars,
    ReportedOnce, McpInv, TypeOK
<1>4. ASSUME NEW r \in Reqs, Initialize(r) PROVE ReportedOnce'
   BY <1>4, FirstReply DEF Initialize, Arrives, Pending, Answer, CallInv, TypeCall, Reply,
    serverVars, ReportedOnce, McpInv, TypeOK
<1>5. ASSUME NEW r \in Reqs, Accept(r) PROVE ReportedOnce'
   BY <1>5, FirstReply DEF Accept, Arrives, Pending, CallInv, TypeCall, Reply, serverVars,
    ReportedOnce, McpInv, TypeOK
<1>6. ASSUME NEW r \in Reqs, Reject(r) PROVE ReportedOnce'
   BY <1>6, FirstReply DEF Reject, Arrives, Pending, Answer, CallInv, TypeCall, Reply, serverVars,
    ReportedOnce, McpInv, TypeOK
<1>7. CASE Run
  BY <1>7, Popped DEF Run, TypeCall, serverVars, ReportedOnce, McpInv, TypeOK
<1>8. CASE ReportOk
   BY <1>8 DEF ReportOk, Report, CallInv, ServerInv, TypeCall, TypeWork, callVars,
    serverVars, ReportedOnce, McpInv, TypeOK
<1>9. CASE ReplyResult
   BY <1>9, FirstReply DEF ReplyResult, Ended, Answer, CallInv, ServerInv, TypeCall,
    TypeWork, Reply, serverVars, ReportedOnce, McpInv, TypeOK
<1>10. CASE ReplyError
   BY <1>10, FirstReply DEF ReplyError, Answer, CallInv, TypeCall, TypeWork, Reply,
    serverVars, ReportedOnce, McpInv, TypeOK
<1>11. CASE ReportFailure
   BY <1>11, FirstReply DEF ReportFailure, Report, Ended, Reply, CallInv, ServerInv,
    TypeCall, TypeWork, serverVars, ReportedOnce, McpInv, TypeOK
<1>12. CASE UNCHANGED <<reports, hooked, destroyed, state, answers>>
  BY <1>12 DEF ReportedOnce, McpInv, TypeOK
<1> QED
  BY <1>1, <1>2, <1>3, <1>4, <1>5, <1>6, <1>7, <1>8, <1>9, <1>10, <1>11, <1>12
   DEF Next, Register, Parse, Work, HookLater, InitBuiltin, InitFails, InitAgain, AddTool,
    Refused, Registered, FirstPage, NextPage, NoPage, RunFreed, ReplyToNobody, vars,
    serverVars, listVars, callVars, workVars

\* The arguments.
LEMMA ArgumentsStep ==
    ASSUME McpInv, [Next]_vars PROVE ArgumentsAreOwn'
<1>1. ASSUME NEW r \in Reqs, Ignored(r) PROVE ArgumentsAreOwn'
  BY <1>1 DEF Ignored, Pending, Silent, TypeCall, ArgumentsAreOwn, McpInv, TypeOK
<1>2. ASSUME NEW r \in Reqs, Initialize(r) PROVE ArgumentsAreOwn'
  BY <1>2 DEF Initialize, Arrives, Pending, TypeCall, ArgumentsAreOwn, McpInv, TypeOK
<1>3. ASSUME NEW r \in Reqs, Accept(r) PROVE ArgumentsAreOwn'
  <2> DEFINE t == Req[r].tool
  <2>1. /\ Valid(r) /\ state' = [state EXCEPT ![r] = "queued"]
        /\ seen' = [seen EXCEPT ![r] = Arguments(r)]
    BY <1>3 DEF Accept
  <2>2. seen'[r] = Arguments(r) /\ DOMAIN seen'[r] = DOMAIN own[t]
    BY <2>1 DEF McpInv, TypeOK, TypeCall, Arguments
  <2>3. \A i \in DOMAIN Req[r].args :
           /\ Req[r].args[i].name \in DOMAIN own[t]
           /\ Fits(Def[t][Req[r].args[i].name], Req[r].args[i])
    BY <2>1 DEF Valid
  <2>4. ASSUME NEW p \in DOMAIN own[t]
        PROVE /\ seen'[r][p] # NoVal
              /\ seen'[r][p] = IF Given(r, p) = {} THEN Def[t][p].default
                               ELSE Parsed(Req[r].args[Last(r, p)])
    <3>1. seen'[r][p] = Value(r, p) /\ Value(r, p) # NoVal
      BY <2>1, <2>2 DEF Arguments, Valid
    <3>2. own[t][p] = Def[t][p].default
      BY <2>1 DEF Valid, McpInv, ServerInv
    <3> QED
      BY <3>1, <3>2 DEF Value
  <2>5. ASSUME NEW s \in Reqs, s # r
        PROVE state'[s] = state[s] /\ seen'[s] = seen[s]
    BY <2>1, <2>5 DEF McpInv, TypeOK, TypeCall
  <2> HIDE DEF t
  <2> QED
    BY <2>2, <2>3, <2>4, <2>5 DEF ArgumentsAreOwn, McpInv, t
<1>4. ASSUME NEW r \in Reqs, Reject(r) PROVE ArgumentsAreOwn'
  BY <1>4 DEF Reject, Arrives, Pending, TypeCall, ArgumentsAreOwn, McpInv, TypeOK
<1>5. CASE Run
  BY <1>5, Popped DEF Run, TypeCall, ArgumentsAreOwn, McpInv, TypeOK
<1>6. CASE ReplyResult
  BY <1>6 DEF ReplyResult, Ended, TypeCall, TypeWork, ArgumentsAreOwn, McpInv, TypeOK
<1>7. CASE ReportFailure
  BY <1>7 DEF ReportFailure, Ended, TypeCall, TypeWork, ArgumentsAreOwn, McpInv, TypeOK
<1>8. CASE UNCHANGED <<state, seen>>
  BY <1>8 DEF ArgumentsAreOwn, McpInv, TypeOK
<1> QED
  BY <1>1, <1>2, <1>3, <1>4, <1>5, <1>6, <1>7, <1>8
   DEF Next, Register, Parse, Work, HookLater, SetHook, InitBuiltin, InitFails, InitAgain,
    AddTool, Refused, Destroy, Registered, FirstPage, NextPage, NoPage, RunFreed, ReportOk,
    ReplyError, ReplyToNobody, vars, serverVars, listVars, callVars, workVars

\* The initial states.
LEMMA McpInvInit == Init => McpInv
<1> SUFFICES ASSUME Init PROVE McpInv
  OBVIOUS
<1>1. TypeServer
  BY CountTools DEF Init, TypeServer
<1>2. 0 \in 0 .. MaxLists /\ 0 \in 0 .. NTools
  BY CountTools, SizeAssumption
<1>3. /\ lists \in 0 .. MaxLists /\ lpc = "idle" /\ cursor \in 0 .. NTools
      /\ got = {} /\ atStart = {} /\ twice = FALSE
  BY <1>2 DEF Init
<1>4. TypeList
  BY <1>3 DEF TypeList
<1>5. TypeCall /\ TypeWork
  BY DEF Init, TypeCall, TypeWork
<1>6. ListInv /\ ServerInv /\ CallInv
  BY DEF Init, ListInv, ServerInv, CallInv
<1>7. PagesAreTheTools /\ ArgumentsAreOwn
  BY DEF Init, PagesAreTheTools, ArgumentsAreOwn
<1>8. AnsweredOnce /\ ReportedOnce
  BY FirstReply DEF Init, AnsweredOnce, ReportedOnce, Reply
<1> QED
  BY <1>1, <1>4, <1>5, <1>6, <1>7, <1>8 DEF McpInv, TypeOK

LEMMA McpInvNext == McpInv /\ [Next]_vars => McpInv'
<1> SUFFICES ASSUME McpInv, [Next]_vars PROVE McpInv'
  OBVIOUS
<1>1. TypeServer' /\ TypeList' /\ TypeCall' /\ TypeWork'
  BY TypeServerStep, TypeListStep, TypeCallStep, TypeWorkStep
<1>2. ListInv' /\ ServerInv' /\ CallInv'
  BY ListStep, ServerStep, CallStep
<1>3. PagesAreTheTools' /\ AnsweredOnce' /\ ReportedOnce' /\ ArgumentsAreOwn'
  BY PagesStep, AnsweredStep, ReportedStep, ArgumentsStep
<1>4. McpInv' <=> /\ TypeServer' /\ TypeList' /\ TypeCall' /\ TypeWork'
                  /\ ListInv' /\ ServerInv' /\ CallInv'
                  /\ PagesAreTheTools' /\ AnsweredOnce' /\ ReportedOnce' /\ ArgumentsAreOwn'
  BY DEF McpInv, TypeOK
<1> QED
  BY <1>1, <1>2, <1>3, <1>4

-----------------------------------------------------------------------------
\* The inductive invariant holds in every behaviour of the server.
THEOREM McpInvariance == Spec => []McpInv
<1> QED
  BY McpInvInit, McpInvNext, PTL DEF Spec

\* The variables have their types, and the work queue holds each call once.
THEOREM McpTypes == Spec => []TypeOK
<1>1. McpInv => TypeOK
  BY DEF McpInv
<1> QED
  BY <1>1, McpInvariance, PTL

\* A cloud that follows the cursors of tools/list has been told exactly the tools
\* that were registered when it began, however many are registered meanwhile.
THEOREM ListedAreTheTools == Spec => []PagesAreTheTools
<1>1. McpInv => PagesAreTheTools
  BY DEF McpInv
<1> QED
  BY <1>1, McpInvariance, PTL

\* No request gets two replies, and none that is done with goes without.
THEOREM RepliedOnce == Spec => []AnsweredOnce
<1>1. McpInv => AnsweredOnce
  BY DEF McpInv
<1> QED
  BY <1>1, McpInvariance, PTL

\* The agent loop is told of each call once, of a success before the cloud is.
THEOREM ToldOfEachCall == Spec => []ReportedOnce
<1>1. McpInv => ReportedOnce
  BY DEF McpInv
<1> QED
  BY <1>1, McpInvariance, PTL

\* A tool sees the arguments of its own request, and defaults.
THEOREM OwnArguments == Spec => []ArgumentsAreOwn
<1>1. McpInv => ArgumentsAreOwn
  BY DEF McpInv
<1> QED
  BY <1>1, McpInvariance, PTL

-----------------------------------------------------------------------------
(* The server implements CallLine.                                         *)

\* One call before the others.
LEMMA BeforeOthers ==
    ASSUME NEW x \in Reqs, NEW s \in Seq(Reqs)
    PROVE  /\ <<>> \o s = s
           /\ <<x>> \o s # <<>> /\ Head(<<x>> \o s) = x /\ Tail(<<x>> \o s) = s
           /\ \A r \in Reqs : Append(<<x>> \o s, r) = <<x>> \o Append(s, r)
           /\ s # <<>> => <<Head(s)>> \o Tail(s) = s
<1>1. <<>> \o s = s
  OBVIOUS
<1>2. <<x>> \o s # <<>> /\ Head(<<x>> \o s) = x /\ Tail(<<x>> \o s) = s
  OBVIOUS
<1>3. ASSUME NEW r \in Reqs PROVE Append(<<x>> \o s, r) = <<x>> \o Append(s, r)
  OBVIOUS
<1>4. s # <<>> => <<Head(s)>> \o Tail(s) = s
  OBVIOUS
<1> QED
  BY <1>1, <1>2, <1>3, <1>4

\* A step of the threads that moves no request.
LEMMA LineStays ==
    ASSUME UNCHANGED <<state, workq, wpc, wreq, answers, destroyed>>
    PROVE  UNCHANGED <<{r \in Reqs : state[r] = "new"}, Unanswered, answers, destroyed>>
  BY DEF Unanswered

\* A request that arrives leaves the fresh ones.
LEMMA Arriving ==
    ASSUME McpInv, NEW r \in Reqs, state[r] = "new", NEW to \in {"done", "queued"},
           state' = [state EXCEPT ![r] = to]
    PROVE  /\ Line!Arrive(r) /\ answers[r] = <<>>
<1>1. state \in [Reqs -> {"new", "queued", "running", "ended", "done"}]
  BY DEF McpInv, TypeOK, TypeCall
<1>2. r \in {x \in Reqs : state[x] = "new"}
      /\ {x \in Reqs : state'[x] = "new"} = {x \in Reqs : state[x] = "new"} \ {r}
  BY <1>1
<1>3. answers[r] = <<>>
  BY DEF McpInv, CallInv
<1> QED
  BY <1>2, <1>3 DEF Line!Arrive

\* A request answered for the first time.
LEMMA Answering ==
    ASSUME McpInv, NEW r \in Reqs, NEW reply \in Reply, answers[r] = <<>>, Answer(r, reply)
    PROVE  Line!Reply(r, reply)
<1>1. answers' = [answers EXCEPT ![r] = Append(answers[r], reply)]
  BY DEF Answer
<1>2. Append(answers[r], reply) = <<reply>>
  BY FirstReply
<1> QED
  BY <1>1, <1>2 DEF Line!Reply

\* The call that is run, before those that wait.
LEMMA Running ==
    ASSUME McpInv, wpc \in {"ok", "reported", "failed"}
    PROVE  /\ wreq \in Reqs /\ state[wreq] = "running" /\ workq \in Seq(Reqs)
           /\ Unanswered = <<wreq>> \o workq /\ Unanswered # <<>>
           /\ Head(Unanswered) = wreq /\ Tail(Unanswered) = workq
           /\ wpc \in {"reported", "failed"} => answers[wreq] = <<>>
<1>1. wreq \in Reqs /\ state[wreq] = "running" /\ workq \in Seq(Reqs)
  BY DEF McpInv, TypeOK, TypeWork, TypeCall
<1>2. Unanswered = <<wreq>> \o workq
  BY DEF Unanswered
<1>3. wpc \in {"reported", "failed"} => answers[wreq] = <<>>
  BY <1>1 DEF McpInv, CallInv
<1> QED
  BY <1>1, <1>2, <1>3, BeforeOthers

\* Once it is answered, those that wait are all.
LEMMA NobodyRuns ==
    ASSUME McpInv, wpc' \in {"idle", "replied"}, workq' = workq
    PROVE  Unanswered' = workq
<1>1. workq \in Seq(Reqs)
  BY DEF McpInv, TypeOK, TypeCall
<1>2. <<>> \o workq = workq
  BY <1>1
<1> QED
  BY <1>2 DEF Unanswered

\* A request that was not new and is not gets no fresher.
LEMMA NoneFresher ==
    ASSUME McpInv, NEW r \in Reqs, state[r] # "new", NEW to, to # "new",
           state' = [state EXCEPT ![r] = to]
    PROVE  {x \in Reqs : state'[x] = "new"} = {x \in Reqs : state[x] = "new"}
<1>1. state \in [Reqs -> {"new", "queued", "running", "ended", "done"}]
  BY DEF McpInv, TypeOK, TypeCall
<1>2. \A x \in Reqs : x # r => state'[x] = state[x]
  BY <1>1
<1>3. state'[r] # "new"
  BY <1>1
<1> QED
  BY <1>2, <1>3

\* Every step maps to a step of CallLine or to a stutter.
LEMMA LineStep ==
    ASSUME McpInv, Next
    PROVE  [Line!Next]_<<{r \in Reqs : state[r] = "new"}, Unanswered, answers, destroyed>>
<1> DEFINE Unarrived(st) == {r \in Reqs : st[r] = "new"}
           Still == UNCHANGED <<Unarrived(state), Unanswered, answers, destroyed>>
<1>1. ASSUME NEW r \in Reqs, Ignored(r) PROVE Line!Ignore(r)
  <2>1. state[r] = "new" /\ Silent(r) /\ state' = [state EXCEPT ![r] = "done"]
        /\ UNCHANGED <<wpc, wreq, workq, answers, destroyed>>
    BY <1>1 DEF Ignored, Pending, workVars, serverVars
  <2>2. Unanswered' = Unanswered
    BY <2>1 DEF Unanswered
  <2>3. Line!Arrive(r)
    BY <2>1, Arriving
  <2> QED
    BY <2>1, <2>2, <2>3 DEF Line!Ignore
<1>2. ASSUME NEW r \in Reqs, Initialize(r) PROVE Line!AnswerNow(r, "result")
  <2>1. state[r] = "new" /\ ~Silent(r) /\ state' = [state EXCEPT ![r] = "done"]
        /\ Answer(r, "result") /\ UNCHANGED <<wpc, wreq, workq, destroyed>>
    BY <1>2 DEF Initialize, Arrives, Pending, workVars, serverVars
  <2>2. Unanswered' = Unanswered
    BY <2>1 DEF Unanswered
  <2>3. Line!Arrive(r) /\ answers[r] = <<>>
    BY <2>1, Arriving
  <2>4. Line!Reply(r, "result")
    BY <2>1, <2>3, Answering DEF Reply
  <2> QED
    BY <2>1, <2>2, <2>3, <2>4 DEF Line!AnswerNow
<1>3. ASSUME NEW r \in Reqs, Accept(r) PROVE Line!Join(r)
  <2>1. /\ state[r] = "new" /\ Req[r].kind = "call" /\ ~Silent(r)
        /\ state' = [state EXCEPT ![r] = "queued"]
        /\ workq' = Append(workq, r) /\ UNCHANGED <<wpc, wreq, answers, destroyed>>
    BY <1>3 DEF Accept, Arrives, Pending, workVars, serverVars
  <2>2. workq \in Seq(Reqs)
    BY DEF McpInv, TypeOK, TypeCall
  <2>3. Unanswered' = Append(Unanswered, r)
    <3>1. CASE wpc \in {"idle", "replied"}
      <4>1. <<>> \o workq = workq /\ <<>> \o Append(workq, r) = Append(workq, r)
        BY <2>2
      <4> QED
        BY <2>1, <3>1, <4>1 DEF Unanswered
    <3>2. CASE wpc \notin {"idle", "replied"}
      <4>1. wreq \in Reqs
        BY <3>2 DEF McpInv, TypeOK, TypeWork
      <4>2. Append(<<wreq>> \o workq, r) = <<wreq>> \o Append(workq, r)
        BY <2>2, <4>1, BeforeOthers
      <4> QED
        BY <2>1, <3>2, <4>2 DEF Unanswered
    <3> QED
      BY <3>1, <3>2
  <2>4. Line!Arrive(r)
    BY <2>1, Arriving
  <2> QED
    BY <2>1, <2>3, <2>4 DEF Line!Join
<1>4. ASSUME NEW r \in Reqs, Reject(r) PROVE Line!AnswerNow(r, "error")
  <2>1. state[r] = "new" /\ ~Silent(r) /\ state' = [state EXCEPT ![r] = "done"]
        /\ Answer(r, "error") /\ UNCHANGED <<wpc, wreq, workq, destroyed>>
    BY <1>4 DEF Reject, Arrives, Pending, workVars, serverVars
  <2>2. Unanswered' = Unanswered
    BY <2>1 DEF Unanswered
  <2>3. Line!Arrive(r) /\ answers[r] = <<>>
    BY <2>1, Arriving
  <2>4. Line!Reply(r, "error")
    BY <2>1, <2>3, Answering DEF Reply
  <2> QED
    BY <2>1, <2>2, <2>3, <2>4 DEF Line!AnswerNow
<1>5. ASSUME Run PROVE Still
  <2>1. /\ wpc = "idle" /\ workq # <<>> /\ wreq' = Head(workq) /\ workq' = Tail(workq)
        /\ wpc' \in {"ok", "failed"} /\ state' = [state EXCEPT ![Head(workq)] = "running"]
        /\ UNCHANGED <<answers, destroyed>>
    BY <1>5 DEF Run, serverVars
  <2>2. Head(workq) \in Reqs /\ state[Head(workq)] = "queued" /\ workq \in Seq(Reqs)
    BY <2>1, Popped DEF McpInv, TypeOK, TypeCall
  <2>3. <<>> \o workq = workq /\ <<Head(workq)>> \o Tail(workq) = workq
    BY <2>1, <2>2, BeforeOthers
  <2>4. Unanswered = workq /\ Unanswered' = workq
    BY <2>1, <2>3 DEF Unanswered
  <2>5. Unarrived(state') = Unarrived(state)
    BY <2>1, <2>2, NoneFresher
  <2> QED
    BY <2>1, <2>4, <2>5
<1>6. ASSUME ReportOk PROVE Still
  <2>1. wpc = "ok" /\ wpc' = "reported" /\ UNCHANGED <<state, workq, wreq, answers, destroyed>>
    BY <1>6 DEF ReportOk, callVars, serverVars
  <2>2. Unanswered' = Unanswered
    BY <2>1 DEF Unanswered
  <2> QED
    BY <2>1, <2>2
<1>7. ASSUME ReplyResult PROVE Line!Abandon \/ \E reply \in Reply : Line!Serve(reply)
  <2>1. /\ wpc = "reported" /\ wpc' = "idle" /\ state' = [state EXCEPT ![wreq] = "ended"]
        /\ UNCHANGED <<workq, destroyed>>
    BY <1>7 DEF ReplyResult, Ended, serverVars
  <2>2. /\ wreq \in Reqs /\ state[wreq] = "running" /\ Unanswered # <<>>
        /\ Head(Unanswered) = wreq /\ Tail(Unanswered) = workq /\ answers[wreq] = <<>>
    BY <2>1, Running
  <2>3. Unanswered' = Tail(Unanswered)
    BY <2>1, <2>2, NobodyRuns
  <2>4. Unarrived(state') = Unarrived(state)
    BY <2>1, <2>2, NoneFresher
  <2>5. CASE ~inited /\ answers' = answers
    <3>1. destroyed
      BY <2>2, <2>5 DEF McpInv, ServerInv
    <3>2. Line!Abandon
      BY <2>1, <2>2, <2>3, <2>4, <2>5, <3>1 DEF Line!Abandon
    <3> QED
      BY <3>2
  <2>6. ASSUME NEW reply \in Reply, Answer(wreq, reply) PROVE Line!Serve(reply)
    <3>1. Line!Reply(wreq, reply)
      BY <2>2, <2>6, Answering
    <3> QED
      BY <2>1, <2>2, <2>3, <2>4, <3>1 DEF Line!Serve
  <2> QED
    BY <1>7, <2>5, <2>6 DEF ReplyResult
<1>8. ASSUME ReplyError PROVE Line!Serve("error")
  <2>1. /\ wpc = "failed" /\ wpc' = "replied" /\ Answer(wreq, "error")
        /\ UNCHANGED <<state, workq, destroyed>>
    BY <1>8 DEF ReplyError, serverVars
  <2>2. /\ wreq \in Reqs /\ Unanswered # <<>>
        /\ Head(Unanswered) = wreq /\ Tail(Unanswered) = workq /\ answers[wreq] = <<>>
    BY <2>1, Running
  <2>3. Unanswered' = Tail(Unanswered)
    BY <2>1, <2>2, NobodyRuns
  <2>4. Line!Reply(wreq, "error")
    BY <2>1, <2>2, Answering DEF Reply
  <2> QED
    BY <2>1, <2>2, <2>3, <2>4 DEF Line!Serve
<1>9. ASSUME ReportFailure PROVE Still
  <2>1. /\ wpc = "replied" /\ wpc' = "idle" /\ state' = [state EXCEPT ![wreq] = "ended"]
        /\ UNCHANGED <<workq, answers, destroyed>>
    BY <1>9 DEF ReportFailure, Ended, serverVars
  <2>2. wreq \in Reqs /\ state[wreq] = "running"
    BY <2>1 DEF McpInv, TypeOK, TypeWork
  <2>3. Unarrived(state') = Unarrived(state)
    BY <2>1, <2>2, NoneFresher
  <2>4. Unanswered' = Unanswered
    BY <2>1 DEF Unanswered
  <2> QED
    BY <2>1, <2>3, <2>4
<1>10. ASSUME Destroy PROVE Line!Lose
  <2>1. destroyed' = TRUE /\ UNCHANGED <<state, workq, wpc, wreq, answers>>
    BY <1>10 DEF Destroy, callVars, workVars
  <2>2. Unanswered' = Unanswered
    BY <2>1 DEF Unanswered
  <2> QED
    BY <2>1, <2>2 DEF Line!Lose
<1>11. CASE
     \/ HookLater \/ SetHook \/ InitBuiltin \/ InitFails \/ InitAgain \/ AddTool \/ Refused
     \/ Registered \/ FirstPage \/ NextPage \/ NoPage \/ RunFreed \/ ReplyToNobody
  <2>1. UNCHANGED <<state, workq, wpc, wreq, answers, destroyed>>
    BY <1>11 DEF HookLater, SetHook, InitBuiltin, InitFails, InitAgain, AddTool, Refused,
      Registered, FirstPage, NextPage, NoPage, RunFreed, ReplyToNobody, serverVars, callVars,
      workVars
  <2> QED
    BY <2>1, LineStays
<1>12. CASE Run \/ ReportOk \/ ReportFailure
  BY <1>5, <1>6, <1>9, <1>12
<1>13. CASE \E r \in Reqs : Ignored(r) \/ Initialize(r) \/ Accept(r) \/ Reject(r)
  BY <1>1, <1>2, <1>3, <1>4, <1>13 DEF Line!Next, Reply
<1>14. CASE ReplyResult \/ ReplyError \/ Destroy
  BY <1>7, <1>8, <1>10, <1>14 DEF Line!Next, Reply
<1> QED
  BY <1>11, <1>12, <1>13, <1>14 DEF Next, Register, Parse, Work

\* The server answers its requests as CallLine promises.
THEOREM LineImplemented == Spec => AnsweredInOrder
<1>1. Init => Line!Init
  <2> SUFFICES ASSUME Init PROVE Line!Init
    OBVIOUS
  <2>1. {r \in Reqs : state[r] = "new"} = Reqs
    BY DEF Init
  <2>2. Unanswered = <<>>
    <3>1. <<>> \o <<>> = <<>>
      OBVIOUS
    <3> QED
      BY <3>1 DEF Init, Unanswered
  <2> QED
    BY <2>1, <2>2 DEF Init, Line!Init
<1>2. McpInv /\ [Next]_vars =>
         [Line!Next]_<<{r \in Reqs : state[r] = "new"}, Unanswered, answers, destroyed>>
  <2> SUFFICES ASSUME McpInv, [Next]_vars
               PROVE  [Line!Next]_<<{r \in Reqs : state[r] = "new"}, Unanswered, answers, destroyed>>
    OBVIOUS
  <2>1. CASE Next
    BY <2>1, LineStep
  <2>2. CASE UNCHANGED vars
    <3>1. UNCHANGED <<state, workq, wpc, wreq, answers, destroyed>>
      BY <2>2 DEF vars, serverVars, callVars, workVars
    <3> QED
      BY <3>1, LineStays
  <2> QED
    BY <2>1, <2>2
<1> QED
  BY McpInvariance, <1>1, <1>2, PTL DEF Spec, AnsweredInOrder, Line!Spec
=============================================================================
