\* Both builds; three faults of either kind and six resets, so that a fault
\* can hit an uncleared record, the bootloader and a save in progress.
CONSTANTS
  Builds = {"retained", "temp"}
  Kinds = {"assert", "hard", "wdog", "overflow"}
  MaxFaults = 3
  MaxResets = 6
  HwResets = TRUE
  EarlyResets = FALSE
  FlashFails = TRUE
SPECIFICATION Spec
INVARIANT TypeOK
PROPERTY FaultRecorded NoSavedFaultReplaced
