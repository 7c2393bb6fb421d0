----------------------------- MODULE MCMcpServer -----------------------------
(* An instance of McpServer for TLC.                                         *)
EXTENDS McpServer

CONSTANTS p, q, both, lone, tooBig, note, numbered, flat, hello

\* Two built-in tools, and two that are registered by one function.  Tool 1
\* fills a page to the last byte, and so do 3 and 4 together.
MCGroupEnd == <<2, 2, 4, 4>>
MCSize == <<4, 1, 2, 2>>

\* Tool 1 has an integer that has to be given, and one with a default.
MCInt(d) == [type |-> "int", ranged |-> TRUE, lo |-> 0, hi |-> 3, default |-> d]
MCNone == [x \in {} |-> MCInt(0)]
MCDef == <<[x \in {p, q} |-> MCInt(IF x = p THEN NoVal ELSE 1)], MCNone, MCNone, MCNone>>

\* Numbers are counted in halves: 7 stands for 3.5, which passes a limit of 3,
\* and -1 for -0.5, which passes one of 0.
MCArg(x, v) == [name |-> x, type |-> "int", val |-> v]
MCCall(i, args) ==
    [kind |-> "call", id |-> i, params |-> "object", tool |-> 1, args |-> args]
MCOther(k, ps) == [kind |-> k, id |-> "string", params |-> ps, tool |-> 0, args |-> <<>>]
MCReq == [r \in Reqs |->
    CASE r = both     -> MCCall("string", <<MCArg(q, 7), MCArg(p, 4), MCArg(p, 5)>>)
      [] r = lone     -> MCCall("string", <<MCArg(p, -1)>>)
      [] r = tooBig   -> MCCall("string", <<MCArg(p, 8)>>)
      [] r = numbered -> MCCall("other", <<MCArg(p, 2)>>)
      [] r = note     -> MCOther("notification", "none")
      [] r = flat     -> MCOther("other", "other")
      [] r = hello    -> MCOther("initialize", "none")]

\* Bound: those of the requests that no call depends on come one after the other.
MCFirst == <<note, numbered, flat, tooBig, hello>>
InTurn ==
    \A i, k \in DOMAIN MCFirst :
        i < k /\ state[MCFirst[i]] = "new" => state[MCFirst[k]] = "new"
=============================================================================
