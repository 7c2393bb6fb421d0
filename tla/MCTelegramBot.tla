---------------------------- MODULE MCTelegramBot ----------------------------
EXTENDS TelegramBot

CONSTANTS a, b

\* The first update of a is no message.
MCSilent == {<<a, 1>>}
MCSent == [x \in {a, b} |-> IF x = a THEN 3 ELSE 1]
=============================================================================
