------------------------- MODULE MCSelectiveRepeat -------------------------
EXTENDS SelectiveRepeat

CONSTANTS d1, d2, d3

MCOne == <<d1>>
MCThree == <<d1, d2, d3>>

\* Nothing lost but data / acknowledgements lost too, and damage / everything.
MCProfiles == {{"duplication"}, {"ackLoss", "corruption"}, FaultKinds}
MCNoFault == {{}}
=============================================================================
