---------------------------- MODULE MCConnection ----------------------------
\* Two instances of Connection in one: a single peer that sends three tokens,
\* and two peers of which one sends a token.
EXTENDS Connection, TLC

CONSTANTS c1, c2

MCBudgets == {c1 :> 4 @@ c2 :> 0, c1 :> 2 @@ c2 :> 1}
=============================================================================
