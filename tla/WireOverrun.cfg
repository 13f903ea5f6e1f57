SPECIFICATION Spec
CONSTANTS
  PCK_DATA_SIZE = 512
  Contents <- MCOneSegment
  Numbers <- MCNoNumbers
INVARIANT AcceptedFits
CHECK_DEADLOCK FALSE
