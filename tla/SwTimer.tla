------------------------------ MODULE SwTimer ------------------------------
(***************************************************************************)
(* The software timer core of src/src/nlswtimer.c in the                   *)
(* BUILD_FEATURE_SW_TIMER_USES_RTOS_TICK configuration: the sorted active  *)
(* list s_timer_list, the overflow list s_timer_overflow_list, the private *)
(* tick count s_swtimer_tick_count kept by the RTOS tick hook, the tick    *)
(* handler that fires due timers, and the pre/post sleep hooks called by   *)
(* the tickless idle path.                                                 *)
(*                                                                         *)
(* The RTOS side (xTickCount, uxPendedTicks, the idle task that suspends   *)
(* the scheduler, sleeps and resumes) is the Tick Source Adapter of the    *)
(* spec, modelled from its contract: its tick count does not advance while *)
(* the scheduler is suspended (ticks are pended and added on resume), but  *)
(* the tick hook runs on every tick interrupt; a tickless sleep never      *)
(* carries xTickCount past its wrap point.                                 *)
(*                                                                         *)
(* Ghost state, kept only to state properties: left[t], the number of      *)
(* ticks still to elapse before timer t may fire (its true deadline,       *)
(* independent of the wrapping counter); order, the active timers in the   *)
(* order they were inserted; lastFired, the timer fired by the step just   *)
(* taken; slept, whether a sleep elapsed since the last tick handler.      *)
(***************************************************************************)
EXTENDS Integers, Sequences, SequencesExt, FiniteSets

CONSTANTS
  Timers,      \* the nl_swtimer_t objects owned by callers
  NoTimer,     \* a model value that is not a timer
  TickBits,    \* width of TickType_t (32 in the code)
  MsPerTick,   \* 1000 / configTICK_RATE_HZ
  StartMs,     \* delays passed to nl_swtimer_start
  RestartMs,   \* non-zero restart delays a callback may return
  MaxPended,   \* bound on ticks pended while the scheduler is suspended
  PendPhases   \* idle phases in which a tick may arrive and be pended

TickMod == 2^TickBits
MaxTick == TickMod - 1

(* The literal 3 of the accuracy assertion in nl_swtimer_pre_sleep.        *)
DriftTolerance == 3

IdlePhases == {"run", "susp", "asleep", "awake", "resume"}

ASSUME /\ NoTimer \notin Timers
       /\ TickBits \in Nat \ {0}
       /\ MsPerTick \in Nat \ {0}
       /\ StartMs \subseteq Nat /\ RestartMs \subseteq Nat \ {0}
       /\ MaxPended \in Nat
       /\ PendPhases \subseteq {"susp", "resume"}

VARIABLES
  s_timer_list,           \* Seq(Timers), sorted by delay
  s_timer_overflow_list,  \* Seq(Timers), processed after the count wraps
  delay,                  \* delay[t]: the target tick count of t
  initialized,            \* timers whose func was set by nl_swtimer_init
  s_swtimer_tick_count,   \* our own tick count
  in_tick,                \* the tick handler is running its expiry loop
  xTickCount,             \* RTOS tick count (not advanced when suspended)
  uxPendedTicks,          \* RTOS ticks pended while suspended
  idle,                   \* where the idle task is in its sleep path
  before_sleep,           \* *before_sleep_tick_count from pre_sleep
  idle_budget,            \* *xExpectedIdleTime after pre_sleep clamped it
  assertFailed,           \* an assert() of pre_sleep evaluated to false
  left, order, lastFired, slept   \* ghost

vars == <<s_timer_list, s_timer_overflow_list, delay, initialized,
          s_swtimer_tick_count, in_tick, xTickCount, uxPendedTicks, idle,
          before_sleep, idle_budget, assertFailed, left, order, lastFired,
          slept>>

-----------------------------------------------------------------------------
(* The Tick Source Adapter's millisecond conversion                        *)
(* (nl_time_ms_to_delay_time_native): the ceiling number of ticks, plus    *)
(* the alignment tick that nl_swtimer_start relies on and the restart path *)
(* of the tick handler takes off again.                                    *)
CeilTicks(ms) == (ms + MsPerTick - 1) \div MsPerTick
ms_to_delay_time_native(ms) == CeilTicks(ms) + 1

ASSUME \A ms \in StartMs \cup RestartMs : ms_to_delay_time_native(ms) <= MaxTick

(* The lists as one record, so that the several list operations of one     *)
(* handler step compose.  act, ovf and dl are code state; left and ord are *)
(* the ghost deadline and insertion order.                                 *)
Lists == [act |-> s_timer_list, ovf |-> s_timer_overflow_list, dl |-> delay,
          left |-> left, ord |-> order]

(* timer_in_list_locked / timer_is_active_locked / nl_swtimer_is_active.   *)
IsActive(L, t) == Contains(L.act, t) \/ Contains(L.ovf, t)

Active == {t \in Timers : IsActive(Lists, t)}

(* Mutation: insert before entries of equal delay.                        *)
InsertPos_beforeEqual(s, dl, e) ==
  LET i == SelectInSeq(s, LAMBDA u : e <= dl[u])
  IN  IF i = 0 THEN Len(s) + 1 ELSE i

(* Index of the first entry whose delay is strictly greater than e: the    *)
(* insertion loop of nl_swtimer_insert_locked skips equal delays.          *)
InsertPos(s, dl, e) ==
  LET i == SelectInSeq(s, LAMBDA u : e < dl[u])
  IN  IF i = 0 THEN Len(s) + 1 ELSE i

(* nl_swtimer_insert_locked(t, d) at tick count now; req is the ghost      *)
(* deadline the caller asked for.                                          *)
InsertLocked(L, t, d, now, req) ==
  LET dt  == IF d = 0 THEN 1 ELSE d
      exp == (now + dt) % TickMod
      dl  == [L.dl EXCEPT ![t] = exp]
  IN  [L EXCEPT !.dl = dl,
                !.act = IF exp > now THEN InsertAt(@, InsertPos(@, dl, exp), t) ELSE @,
                !.ovf = IF exp > now THEN @ ELSE InsertAt(@, InsertPos(@, dl, exp), t),
                !.left = [@ EXCEPT ![t] = req],
                !.ord = Append(@, t)]

(* remove_from_list_locked on s_timer_list, then on the overflow list if   *)
(* the timer was not found (nl_swtimer_cancel).                            *)
CancelLocked(L, t) ==
  IF Contains(L.act, t)
  THEN [L EXCEPT !.act = Remove(@, t), !.left = [@ EXCEPT ![t] = 0],
                 !.ord = Remove(@, t)]
  ELSE IF Contains(L.ovf, t)
  THEN [L EXCEPT !.ovf = Remove(@, t), !.left = [@ EXCEPT ![t] = 0],
                 !.ord = Remove(@, t)]
  ELSE L

SetLists(L) ==
  /\ s_timer_list' = L.act
  /\ s_timer_overflow_list' = L.ovf
  /\ delay' = L.dl
  /\ left' = L.left
  /\ order' = L.ord

-----------------------------------------------------------------------------
Init ==
  /\ s_timer_list = <<>>
  /\ s_timer_overflow_list = <<>>
  /\ delay = [t \in Timers |-> 0]
  /\ initialized = {}
  /\ s_swtimer_tick_count \in 0..MaxTick
  /\ xTickCount = s_swtimer_tick_count
  /\ uxPendedTicks = 0
  /\ in_tick = FALSE
  /\ idle = "run"
  /\ before_sleep = 0
  /\ idle_budget = 0
  /\ assertFailed = FALSE
  /\ left = [t \in Timers |-> 0]
  /\ order = <<>>
  /\ lastFired = NoTimer
  /\ slept = FALSE

(* Task and ISR callers of the API run whenever the tick handler is not    *)
(* running and the CPU is not in the tickless sleep window.                *)
CallerMayRun == ~in_tick /\ idle \notin {"asleep", "awake"}

RtosUnchanged == UNCHANGED <<xTickCount, uxPendedTicks, idle, before_sleep,
                             idle_budget, assertFailed>>

(* nl_swtimer_init; the header contract: not on an active timer.           *)
nl_swtimer_init(t) ==
  /\ CallerMayRun
  /\ ~IsActive(Lists, t)
  /\ initialized' = initialized \cup {t}
  /\ lastFired' = NoTimer
  /\ UNCHANGED <<s_timer_list, s_timer_overflow_list, delay, s_swtimer_tick_count,
                 in_tick, left, order, slept>>
  /\ RtosUnchanged

(* nl_swtimer_start: assert(timer->func), then insert under the critical   *)
(* section (whose assert forbids starting an active timer).                *)
nl_swtimer_start(t, ms) ==
  /\ CallerMayRun
  /\ t \in initialized
  /\ ~IsActive(Lists, t)
  /\ SetLists(InsertLocked(Lists, t, ms_to_delay_time_native(ms),
                           s_swtimer_tick_count, CeilTicks(ms) + 1))
  /\ lastFired' = NoTimer
  /\ UNCHANGED <<initialized, s_swtimer_tick_count, in_tick, slept>>
  /\ RtosUnchanged

nl_swtimer_cancel(t) ==
  /\ CallerMayRun
  /\ SetLists(CancelLocked(Lists, t))
  /\ lastFired' = NoTimer
  /\ UNCHANGED <<initialized, s_swtimer_tick_count, in_tick, slept>>
  /\ RtosUnchanged

-----------------------------------------------------------------------------
(* A tick interrupt.  The RTOS advances xTickCount, or pends the tick when *)
(* the scheduler is suspended, and then calls the tick hook.               *)
RtosTickSource ==
  \/ /\ idle = "run"
     /\ xTickCount' = (xTickCount + 1) % TickMod
     /\ UNCHANGED uxPendedTicks
  \/ /\ idle \in PendPhases
     /\ uxPendedTicks < MaxPended
     /\ uxPendedTicks' = uxPendedTicks + 1
     /\ UNCHANGED xTickCount

(* Mutation: the overflow entries are zeroed too when merged.             *)
MergeOnWrap_zeroAll(L) ==
  [L EXCEPT !.dl = [t \in Timers |-> IF Contains(L.act \o L.ovf, t) THEN 0 ELSE @[t]],
            !.act = @ \o L.ovf,
            !.ovf = <<>>]

(* Mutation: the overflow list head is not reset after the splice.        *)
MergeOnWrap_keepOverflow(L) ==
  [L EXCEPT !.dl = [t \in Timers |-> IF Contains(L.act, t) THEN 0 ELSE @[t]],
            !.act = @ \o L.ovf]

(* On a wrap every entry of s_timer_list gets delay 0 and the overflow     *)
(* list is spliced onto its tail.                                          *)
MergeOnWrap(L) ==
  [L EXCEPT !.dl = [t \in Timers |-> IF Contains(L.act, t) THEN 0 ELSE @[t]],
            !.act = @ \o L.ovf,
            !.ovf = <<>>]

(* Entry of nl_swtimer_rtos_tick_handler: count the tick, detect the wrap  *)
(* and merge.  One tick of real time elapses for every active timer.       *)
nl_swtimer_rtos_tick_handler ==
  LET cur  == (s_swtimer_tick_count + 1) % TickMod
      L    == [Lists EXCEPT !.left = [t \in Timers |->
                                IF IsActive(Lists, t) THEN @[t] - 1 ELSE @[t]]]
  IN  /\ ~in_tick
      /\ RtosTickSource
      /\ s_swtimer_tick_count' = cur
      /\ SetLists(IF cur < s_swtimer_tick_count THEN MergeOnWrap(L) ELSE L)
      /\ in_tick' = TRUE
      /\ slept' = FALSE
      /\ lastFired' = NoTimer
      /\ UNCHANGED <<initialized, idle, before_sleep, idle_budget, assertFailed>>

(* What a callback may do besides returning its restart delay: nothing,    *)
(* nl_swtimer_cancel of any timer, or nl_swtimer_start of a timer.         *)
Effects ==
  [kind : {"none"}, u : {NoTimer}, ms : {0}]
    \cup [kind : {"cancel"}, u : Timers, ms : {0}]
    \cup [kind : {"start"}, u : Timers, ms : StartMs]

ApplyEffect(L, e) ==
  CASE e.kind = "none"   -> L
    [] e.kind = "cancel" -> CancelLocked(L, e.u)
    [] e.kind = "start"  -> InsertLocked(L, e.u, ms_to_delay_time_native(e.ms),
                                         s_swtimer_tick_count, CeilTicks(e.ms) + 1)

(* The expiry loop's test: the head of s_timer_list is due.               *)
HeadDue ==
  /\ s_timer_list # <<>>
  /\ s_swtimer_tick_count >= delay[Head(s_timer_list)]

(* One iteration of the expiry loop: the head is due, so it is unlinked    *)
(* and its callback runs with effect e and returns r; a non-zero r         *)
(* re-inserts it without the alignment tick.                               *)
FireHead(e, r) ==
  LET t  == Head(s_timer_list)
      L0 == [Lists EXCEPT !.act = Tail(@), !.ord = Remove(@, t),
                          !.left = [@ EXCEPT ![t] = 0]]
      L1 == ApplyEffect(L0, e)
      L2 == IF r # 0
            THEN InsertLocked(L1, t, (ms_to_delay_time_native(r) - 1) % TickMod,
                              s_swtimer_tick_count, CeilTicks(r))
            ELSE L1
  IN  /\ in_tick
      /\ HeadDue
      /\ e.kind = "start" => /\ e.u \in initialized
                             /\ ~IsActive(L0, e.u)
                             /\ r # 0 => e.u # t
      /\ SetLists(L2)
      /\ lastFired' = t
      /\ UNCHANGED <<initialized, s_swtimer_tick_count, in_tick, slept>>
      /\ RtosUnchanged

(* The loop stops at an empty list or at a head that is not yet due.       *)
TickHandlerDone ==
  /\ in_tick
  /\ ~HeadDue
  /\ in_tick' = FALSE
  /\ lastFired' = NoTimer
  /\ UNCHANGED <<s_timer_list, s_timer_overflow_list, delay, initialized,
                 s_swtimer_tick_count, left, order, slept>>
  /\ RtosUnchanged

-----------------------------------------------------------------------------
(* The RTOS idle task: vTaskSuspendAll, then either no tickless sleep, or  *)
(* nl_swtimer_pre_sleep, the sleep itself (vTaskStepTick), and            *)
(* nl_swtimer_post_sleep; finally xTaskResumeAll adds the pended ticks.    *)
IdleSuspend ==
  /\ ~in_tick /\ idle = "run"
  /\ idle' = "susp"
  /\ lastFired' = NoTimer
  /\ UNCHANGED <<s_timer_list, s_timer_overflow_list, delay, initialized,
                 s_swtimer_tick_count, in_tick, xTickCount, uxPendedTicks,
                 before_sleep, idle_budget, assertFailed, left, order, slept>>

IdleNoSleep ==
  /\ ~in_tick /\ idle = "susp"
  /\ idle' = "resume"
  /\ lastFired' = NoTimer
  /\ UNCHANGED <<s_timer_list, s_timer_overflow_list, delay, initialized,
                 s_swtimer_tick_count, in_tick, xTickCount, uxPendedTicks,
                 before_sleep, idle_budget, assertFailed, left, order, slept>>

(* nl_swtimer_pre_sleep with the RTOS's expected idle time x (which never  *)
(* reaches past the wrap of xTickCount): clamp x to the head's remaining   *)
(* ticks, or refuse to sleep when the head is already due; record          *)
(* xTickCount and evaluate the two drift assertions.                       *)
(* Mutation: the expected idle time is not clamped to the head timer.     *)
IdleClamp_none(x) == x

(* *xExpectedIdleTime after pre_sleep: the ticks until the head of         *)
(* s_timer_list, when that is sooner than x.                               *)
IdleClamp(x) ==
  IF /\ s_timer_list # <<>>
     /\ delay[Head(s_timer_list)] - s_swtimer_tick_count < x
  THEN delay[Head(s_timer_list)] - s_swtimer_tick_count
  ELSE x

nl_swtimer_pre_sleep(x) ==
  LET overdue == /\ s_timer_list # <<>>
                 /\ delay[Head(s_timer_list)] <= s_swtimer_tick_count
  IN  /\ ~in_tick /\ idle = "susp"
      /\ x \in 1..(MaxTick - xTickCount)
      /\ idle' = IF overdue THEN "resume" ELSE "asleep"
      /\ idle_budget' = IF overdue THEN x ELSE IdleClamp(x)
      /\ before_sleep' = xTickCount
      /\ assertFailed' = \/ assertFailed
                         \/ s_swtimer_tick_count < xTickCount
                         \/ s_swtimer_tick_count - xTickCount > DriftTolerance
      /\ lastFired' = NoTimer
      /\ UNCHANGED <<s_timer_list, s_timer_overflow_list, delay, initialized,
                     s_swtimer_tick_count, in_tick, xTickCount, uxPendedTicks,
                     left, order, slept>>

(* The tickless sleep: the CPU sleeps k <= budget ticks (an interrupt may  *)
(* end it early) and vTaskStepTick adds them to xTickCount.                *)
TicklessSleep(k) ==
  /\ idle = "asleep"
  /\ k \in 0..idle_budget
  /\ xTickCount' = xTickCount + k
  /\ left' = [t \in Timers |-> IF t \in Active THEN left[t] - k ELSE left[t]]
  /\ slept' = (slept \/ k > 0)
  /\ idle' = "awake"
  /\ lastFired' = NoTimer
  /\ UNCHANGED <<s_timer_list, s_timer_overflow_list, delay, initialized,
                 s_swtimer_tick_count, in_tick, uxPendedTicks, before_sleep,
                 idle_budget, assertFailed, order>>

(* nl_swtimer_post_sleep: add the ticks xTickCount advanced during sleep   *)
(* to our count, without running the expiry loop.                          *)
(* Mutation: advance by the idle time pre_sleep approved instead of the    *)
(* ticks xTickCount really advanced.                                       *)
PostSleepCount_budget == (s_swtimer_tick_count + idle_budget) % TickMod

(* s_swtimer_tick_count += after_sleep_tick_count - before_sleep_tick_count *)
PostSleepCount == (s_swtimer_tick_count + (xTickCount - before_sleep)) % TickMod

nl_swtimer_post_sleep ==
  /\ idle = "awake"
  /\ s_swtimer_tick_count' = PostSleepCount
  /\ idle' = "resume"
  /\ lastFired' = NoTimer
  /\ UNCHANGED <<s_timer_list, s_timer_overflow_list, delay, initialized,
                 in_tick, xTickCount, uxPendedTicks, before_sleep, idle_budget,
                 assertFailed, left, order, slept>>

IdleResume ==
  /\ ~in_tick /\ idle = "resume"
  /\ xTickCount' = (xTickCount + uxPendedTicks) % TickMod
  /\ uxPendedTicks' = 0
  /\ idle' = "run"
  /\ lastFired' = NoTimer
  /\ UNCHANGED <<s_timer_list, s_timer_overflow_list, delay, initialized,
                 s_swtimer_tick_count, in_tick, before_sleep, idle_budget,
                 assertFailed, left, order, slept>>

-----------------------------------------------------------------------------
Next ==
  \/ \E t \in Timers : nl_swtimer_init(t)
  \/ \E t \in Timers, ms \in StartMs : nl_swtimer_start(t, ms)
  \/ \E t \in Timers : nl_swtimer_cancel(t)
  \/ nl_swtimer_rtos_tick_handler
  \/ \E e \in Effects, r \in {0} \cup RestartMs : FireHead(e, r)
  \/ TickHandlerDone
  \/ IdleSuspend
  \/ IdleNoSleep
  \/ \E x \in 1..MaxTick : nl_swtimer_pre_sleep(x)
  \/ \E k \in 0..MaxTick : TicklessSleep(k)
  \/ nl_swtimer_post_sleep
  \/ IdleResume

Spec == Init /\ [][Next]_vars

-----------------------------------------------------------------------------
(* Every variable has its type, and, as the singly linked lists of         *)
(* nl_swtimer_insert_locked and the wrap splice require, no timer is ever  *)
(* linked twice or into both s_timer_list and s_timer_overflow_list.      *)
TypeOK ==
  /\ s_timer_list \in Seq(Timers) /\ s_timer_overflow_list \in Seq(Timers)
  \* each timer is linked at most once, in one of the two lists
  /\ IsInjective(s_timer_list \o s_timer_overflow_list)
  /\ delay \in [Timers -> 0..MaxTick]
  /\ initialized \subseteq Timers
  /\ s_swtimer_tick_count \in 0..MaxTick /\ xTickCount \in 0..MaxTick
  /\ uxPendedTicks \in 0..MaxPended
  /\ in_tick \in BOOLEAN /\ assertFailed \in BOOLEAN /\ slept \in BOOLEAN
  /\ idle \in IdlePhases
  /\ before_sleep \in 0..MaxTick /\ idle_budget \in 0..MaxTick
  /\ left \in [Timers -> -TickMod..TickMod]
  /\ order \in Seq(Timers)
  /\ lastFired \in Timers \cup {NoTimer}

(* States outside the tick handler's loop and outside the window between  *)
(* the sleep and nl_swtimer_post_sleep, where the count is meant to lag.   *)
Settled == ~in_tick /\ idle # "awake"

(* The stored target tick count of every pending timer, read against the  *)
(* current s_swtimer_tick_count the way the handler and pre_sleep read it, *)
(* gives exactly the ticks left to its true deadline: for s_timer_list     *)
(* entries delay - count, for overflow entries delay + 2^w - count.  This  *)
(* is what lets the handler compare absolute values across wraps, sleeps   *)
(* and restarts.                                                           *)
ExpiryEncodesDeadline ==
  Settled =>
    /\ \A i \in 1..Len(s_timer_list) :
         LET t == s_timer_list[i] IN left[t] = delay[t] - s_swtimer_tick_count
    /\ \A i \in 1..Len(s_timer_overflow_list) :
         LET t == s_timer_overflow_list[i]
         IN  left[t] = delay[t] + TickMod - s_swtimer_tick_count

(* No timer is left pending past its deadline: once the tick handler has   *)
(* run, every pending timer still has at least one tick to go; only a      *)
(* sleep since the last tick (which pre_sleep clamps to wake on the head's *)
(* deadline) may leave a timer exactly at its deadline until the next tick.*)
NoLateFire ==
  Settled =>
    \A t \in Active : left[t] >= 1 \/ (left[t] = 0 /\ slept)

(* The handler never runs a callback before the delay requested of         *)
(* nl_swtimer_start (plus the alignment tick) or returned by the previous  *)
(* run of the callback has elapsed.                                        *)
NoEarlyFire ==
  [][lastFired' # NoTimer => left[lastFired'] <= 0]_vars

(* Position of t in the ghost insertion order.                             *)
OrderPos(t) == SelectInSeq(order, LAMBDA u : u = t)

(* Callbacks run in deadline order, and timers with the same deadline run  *)
(* in the order they were started or restarted: whenever the handler fires *)
(* a timer, no other pending timer has an earlier deadline, or the same    *)
(* deadline and an earlier insertion.                                      *)
FireOrder ==
  [][lastFired' # NoTimer =>
       \A u \in Active \ {lastFired'} :
          \/ left[lastFired'] < left[u]
          \/ left[lastFired'] = left[u] /\ OrderPos(lastFired') < OrderPos(u)]_vars

(* The two assert()s of nl_swtimer_pre_sleep hold: our tick count is not   *)
(* behind xTickCount and not more than 3 ticks ahead of it.                *)
PreSleepAssertionsHold == ~assertFailed

=============================================================================
