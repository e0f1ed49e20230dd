\* Two messages, the second of which arrives in two pieces.
SPECIFICATION Spec
CONSTANTS
  LineLength = 4
  MaxMessages = 2
INVARIANTS LinesAreWhole
CHECK_DEADLOCK FALSE
