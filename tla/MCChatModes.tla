----------------------------- MODULE MCChatModes -----------------------------
(* Instance of ChatModes for TLC.                                            *)
EXTENDS ChatModes

MCModes == <<"hold", "wakeup">>

\* Bound of the run: behaviours are followed up to the first stray change of
\* the mode, and no switch is followed on from an event that came too early.
Followed == ~strayed /\ (clean \/ ~Switching)
=============================================================================
