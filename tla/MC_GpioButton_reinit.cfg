\* One button and one periodic timer; the re-init of the button may run
\* while both timers are pending.
CONSTANTS
  b1 = b1
  b2 = b2
  o1 = o1
  Buttons <- MC_OneButton
  Others <- MC_Others
  NoTimer = NoTimer
  TickBits = 3
  MsPerTick = 1
  NL_BUTTON_DEBOUNCE_TIME_INTERVAL_MS = 1
  OtherMs = {1}
  OtherPeriods = {2}
  MaxEdges = 2
  MaxInit = 2
SPECIFICATION Spec
INVARIANT PeriodicKeepsRunning
