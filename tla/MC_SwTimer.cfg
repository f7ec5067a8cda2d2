\* Core check: wraps, restarts, cancels from callbacks, tickless sleep,
\* ticks pended only after post_sleep.
CONSTANTS
  t1 = t1
  t2 = t2
  t3 = t3
  Timers <- MC_Timers
  NoTimer = NoTimer
  TickBits = 3
  MsPerTick = 1
  StartMs = {0, 2, 5}
  RestartMs = {1, 3}
  MaxPended = 2
  PendPhases = {"resume"}

SYMMETRY MC_Symmetry

SPECIFICATION Spec

INVARIANT TypeOK
INVARIANT ExpiryEncodesDeadline
INVARIANT NoLateFire
PROPERTY NoEarlyFire
PROPERTY FireOrder
