----------------------------- MODULE MCGoBackN -----------------------------
EXTENDS GoBackN

CONSTANTS d1, d2, d3

MCTwo == <<d1, d2>>
MCThree == <<d1, d2, d3>>

\* Reliable acknowledgements, with and without duplicates, and everything.
MCProfiles == {{}, {"duplication"}, FaultKinds}
MCAckLoss == {{"ackLoss"}}
=============================================================================
