----------------------------- MODULE MCAgentLoop -----------------------------
(* Instances of AgentLoop for TLC.                                           *)
EXTENDS AgentLoop

CONSTANTS m1, m2, m3, telegram, ws, alice, bob

\* Two users on two channels, and a cron or heartbeat message.
MCRoute == [m \in Msgs |->
               IF m = m1 THEN <<telegram, alice>>
               ELSE IF m = m2 THEN <<ws, bob>> ELSE NoRoute]
=============================================================================
