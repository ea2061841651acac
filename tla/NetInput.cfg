SPECIFICATION Spec
CONSTANTS
  MaxFrames = 3
  MaxSends = 1
INVARIANTS RegExact
PROPERTIES SendEnds EveryFrameTaken NoInversion
CHECK_DEADLOCK FALSE
