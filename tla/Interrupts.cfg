\* A call and a handler, or two handlers, on a stack, two scan codes waiting, two
\* terminals and three switches inside rtc_read; a number for each kind of call,
\* and one without a call.
SPECIFICATION FairSpec
CONSTANTS
  MaxDepth = 2
  MaxCodes = 2
  MAX_TTY = 2
  MaxRaces = 3
  Numbers = {0, 2, 3, 4}
INVARIANTS
  InServiceOwned
  NestsByPriority
  NoRequestLost
  MasksAgree
PROPERTY RequestsTaken
