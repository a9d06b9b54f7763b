------------------------------ MODULE MCLedger ------------------------------
EXTENDS Ledger

\* Two calls for one event and two for events of other channels.
MCCalls == 1..4
MCEventId == <<"a", "a", "b", "c">>
=============================================================================
