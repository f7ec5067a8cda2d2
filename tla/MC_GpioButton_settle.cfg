\* Liveness: two buttons, no other timers, the boot init only (re-init is checked by the button run).
CONSTANTS
  b1 = b1
  b2 = b2
  o1 = o1
  Buttons <- MC_Buttons
  Others <- MC_NoOthers
  NoTimer = NoTimer
  TickBits = 3
  MsPerTick = 1
  NL_BUTTON_DEBOUNCE_TIME_INTERVAL_MS = 1
  OtherMs = {1}
  OtherPeriods = {2}
  MaxEdges = 2
  MaxInit = 1
SPECIFICATION Spec
PROPERTY StableButtonSettles
