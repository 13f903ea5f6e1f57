----------------------------- MODULE MCStopWait -----------------------------
EXTENDS StopWait

CONSTANTS d1, d2, d3

MCThree == <<d1, d2, d3>>

\* Every combination of faults.
MCProfiles == SUBSET FaultKinds
=============================================================================
