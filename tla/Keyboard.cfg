\* Three keys held at once, and the codes of two key events in flight.
SPECIFICATION Spec
CONSTANTS
  MaxCodes = 3
  MaxDown = 3
INVARIANT NoStuckModifier
