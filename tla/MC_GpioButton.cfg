\* Safety: two interchangeable buttons with up to two edges each (a press
\* with a bounce, or a press and a release), one periodic timer of another
\* component, boot init plus one re-init.
CONSTANTS
  b1 = b1
  b2 = b2
  o1 = o1
  Buttons <- MC_Buttons
  Others <- MC_Others
  NoTimer = NoTimer
  TickBits = 3
  MsPerTick = 1
  NL_BUTTON_DEBOUNCE_TIME_INTERVAL_MS = 1
  OtherMs = {1}
  OtherPeriods = {2}
  MaxEdges = 2
  MaxInit = 2
SYMMETRY MC_Symmetry
SPECIFICATION Spec
INVARIANT TypeOK
PROPERTY DebounceAfterQuiet
