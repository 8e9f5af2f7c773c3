---------------------------- MODULE MCTurnClient ----------------------------
\* Instances of TurnClient for TLC.
EXTENDS TurnClient

=============================================================================
