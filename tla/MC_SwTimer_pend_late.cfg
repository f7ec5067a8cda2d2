\* Ticks may also be pended between vTaskSuspendAll and nl_swtimer_pre_sleep.
CONSTANTS
  t1 = t1
  t2 = t2
  t3 = t3
  Timers <- MC_Timers
  NoTimer = NoTimer
  TickBits = 3
  MsPerTick = 1
  StartMs = {0, 2, 5}
  RestartMs = {1, 3}
  MaxPended = 2
  PendPhases = {"susp", "resume"}

SYMMETRY MC_Symmetry

SPECIFICATION Spec

INVARIANT NoLateFire
