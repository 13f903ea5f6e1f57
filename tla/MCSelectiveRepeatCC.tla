------------------------ MODULE MCSelectiveRepeatCC ------------------------
EXTENDS SelectiveRepeatCC

CONSTANTS d1, d2, d3

MCThree == <<d1, d2, d3>>

\* Everything may go wrong, except that the network makes no copies: what is
\* sent again comes twice all the same.
MCMostFaults == {FaultKinds \ {"duplication"}}

\* Acknowledgements may be lost, and nothing else goes wrong.
MCAckLoss == {{"ackLoss"}}

\* A simulated triple after three acknowledgements, and one more after the next.
MCTriples == <<3, 1>>
MCNoTriples == <<>>
=============================================================================
