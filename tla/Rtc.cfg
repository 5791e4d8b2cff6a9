\* Two terminals whose programs share the RTC, three switches inside rtc_read,
\* and every kind of frequency. A program that waits once the chip has stopped
\* waits for ever, and with it the machine.
SPECIFICATION FairSpec
CONSTANTS
  MAX_TTY = 2
  Freqs = {0, 1, 2, 1024}
  MaxRaces = 3
INVARIANTS KeyboardReenabled MaskOwned
PROPERTIES ReadWaits ReadReturns
CHECK_DEADLOCK FALSE
