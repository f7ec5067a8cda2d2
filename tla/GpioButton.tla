----------------------------- MODULE GpioButton -----------------------------
(***************************************************************************)
(* The debounced GPIO buttons of src/src/nlgpio_button.c                   *)
(* (BUILD_FEATURE_BUTTON_DEBOUNCE, real hardware) composed with the        *)
(* software timer of SwTimer, which they use for their debounce timers.    *)
(*                                                                         *)
(* Every edge of a button's pin raises its GPIO interrupt once the IRQ is  *)
(* requested; the ISR samples the level into raw_button and restarts the   *)
(* button's debounce timer (cancel, then start).  When the timer expires,  *)
(* the handler copies raw_button into debounced_button and calls the       *)
(* application callback if it changed.  nlgpio_button_init requests the   *)
(* IRQs and (re)initialises the debounce timers with nl_swtimer_init; it   *)
(* runs at boot and again from diagnostics commands.                       *)
(*                                                                         *)
(* Other timers of the system share the timer lists: Others are periodic   *)
(* timers whose callbacks restart them.                                    *)
(*                                                                         *)
(* The RTOS idle path is not exercised here (the scheduler keeps running); *)
(* SwTimer covers it.  Ghost: sinceIsr[b], ticks since button b's ISR last *)
(* ran (capped), and started, the other timers started by their owners.    *)
(***************************************************************************)
EXTENDS Integers, Sequences, SequencesExt, FiniteSets

CONSTANTS
  Buttons,                            \* entries of nlgpio_button_config_table
  Others,                             \* periodic timers of other components
  NoTimer, TickBits, MsPerTick,       \* as in SwTimer
  NL_BUTTON_DEBOUNCE_TIME_INTERVAL_MS,
  OtherMs,                            \* first delays of the other timers
  OtherPeriods,                       \* restart delays their callbacks return
  MaxEdges,                           \* bound on pin edges per button
  MaxInit                             \* bound on calls of nlgpio_button_init

ASSUME /\ Buttons \cap Others = {}
       /\ MaxEdges \in Nat /\ MaxInit \in Nat \ {0}
       /\ NL_BUTTON_DEBOUNCE_TIME_INTERVAL_MS \in Nat

VARIABLES
  s_timer_list, s_timer_overflow_list, delay, initialized,
  s_swtimer_tick_count, in_tick, xTickCount, uxPendedTicks, idle,
  before_sleep, idle_budget, assertFailed, left, order, lastFired, slept,
  pin,                     \* logical level of each button (TRUE = down)
  irq_pending,             \* the button's GPIO interrupt is pending
  raw_button, debounced_button, prev_debounced_button, was_down,
  edges,                   \* edges seen per button (bounded)
  inits,                   \* calls of nlgpio_button_init so far
  sinceIsr, started        \* ghost

T == INSTANCE SwTimer WITH Timers <- Buttons \cup Others,
                           StartMs <- {NL_BUTTON_DEBOUNCE_TIME_INTERVAL_MS} \cup OtherMs,
                           RestartMs <- OtherPeriods,
                           MaxPended <- 0, PendPhases <- {}

timerVars == <<s_timer_list, s_timer_overflow_list, delay, initialized,
               s_swtimer_tick_count, in_tick, xTickCount, uxPendedTicks, idle,
               before_sleep, idle_budget, assertFailed, left, order, lastFired,
               slept>>
buttonVars == <<pin, irq_pending, raw_button, debounced_button,
                prev_debounced_button, was_down, edges, inits>>
vars == <<timerVars, buttonVars, sinceIsr, started>>

NoEffect == [kind |-> "none", u |-> NoTimer, ms |-> 0]

(* The ISR's debounce delay in ticks, as the timer counts it.              *)
DebounceTicks == T!CeilTicks(NL_BUTTON_DEBOUNCE_TIME_INTERVAL_MS)

(* Cap of the ghost tick counter sinceIsr.                                 *)
QuietCap == DebounceTicks + 1

-----------------------------------------------------------------------------
Init ==
  /\ T!Init
  /\ pin \in [Buttons -> BOOLEAN]
  /\ irq_pending = [b \in Buttons |-> FALSE]
  /\ raw_button = [b \in Buttons |-> FALSE]
  /\ debounced_button = [b \in Buttons |-> FALSE]
  /\ prev_debounced_button = [b \in Buttons |-> FALSE]
  /\ was_down = [b \in Buttons |-> FALSE]
  /\ edges = [b \in Buttons |-> 0]
  /\ inits = 0
  /\ sinceIsr = [b \in Buttons |-> QuietCap]
  /\ started = {}

(* The pin of button b changes level (a press, a release or a bounce).     *)
(* Once nlgpio_button_init has requested the IRQ, the edge pends it.       *)
PinEdge(b) ==
  /\ edges[b] < MaxEdges
  /\ edges' = [edges EXCEPT ![b] = @ + 1]
  /\ pin' = [pin EXCEPT ![b] = ~@]
  /\ irq_pending' = [irq_pending EXCEPT ![b] = @ \/ inits > 0]
  /\ UNCHANGED <<timerVars, raw_button, debounced_button,
                 prev_debounced_button, was_down, inits, sinceIsr, started>>

-----------------------------------------------------------------------------
(* Mutation: the ISR starts the timer without cancelling it first.         *)
DebounceRestart_noCancel(L, b) ==
  T!InsertLocked(L, b, T!ms_to_delay_time_native(NL_BUTTON_DEBOUNCE_TIME_INTERVAL_MS),
                 s_swtimer_tick_count, DebounceTicks + 1)

(* Mutation: a running debounce timer is left running instead of being     *)
(* restarted.                                                              *)
DebounceRestart_keepRunning(L, b) ==
  IF T!IsActive(L, b) THEN L
  ELSE T!InsertLocked(L, b, T!ms_to_delay_time_native(NL_BUTTON_DEBOUNCE_TIME_INTERVAL_MS),
                      s_swtimer_tick_count, DebounceTicks + 1)

(* Mutation: start, then cancel.                                           *)
DebounceRestart_swapped(L, b) ==
  T!CancelLocked(
    T!InsertLocked(L, b, T!ms_to_delay_time_native(NL_BUTTON_DEBOUNCE_TIME_INTERVAL_MS),
                   s_swtimer_tick_count, DebounceTicks + 1), b)

(* nl_swtimer_cancel then nl_swtimer_start of the button's debounce timer. *)
DebounceRestart(L, b) ==
  T!InsertLocked(T!CancelLocked(L, b), b,
                 T!ms_to_delay_time_native(NL_BUTTON_DEBOUNCE_TIME_INTERVAL_MS),
                 s_swtimer_tick_count, DebounceTicks + 1)

(* nlgpio_button_isr: note the press, sample the level, restart the timer. *)
nlgpio_button_isr(b) ==
  /\ irq_pending[b]
  /\ T!CallerMayRun
  /\ irq_pending' = [irq_pending EXCEPT ![b] = FALSE]
  /\ was_down' = [was_down EXCEPT ![b] = TRUE]
  /\ raw_button' = [raw_button EXCEPT ![b] = pin[b]]
  /\ T!SetLists(DebounceRestart(T!Lists, b))
  /\ sinceIsr' = [sinceIsr EXCEPT ![b] = 0]
  /\ lastFired' = NoTimer
  /\ UNCHANGED <<initialized, s_swtimer_tick_count, in_tick, slept, pin,
                 debounced_button, prev_debounced_button, edges, inits, started>>
  /\ T!RtosUnchanged

(* nl_swtimer_init sets timer->next = NULL: a list that links the timer is *)
(* cut right after it.  nlgpio_button_init does this for every button, so  *)
(* each list keeps its prefix up to its first button timer.                *)
TruncateAtButton(s) ==
  LET i == SelectInSeq(s, LAMBDA u : u \in Buttons)
  IN  IF i = 0 THEN s ELSE SubSeq(s, 1, i)

(* nlgpio_button_init: for every button, request its IRQ, nl_swtimer_init  *)
(* its debounce timer, and set debounced_button and prev_debounced_button  *)
(* to the current level.                                                   *)
nlgpio_button_init ==
  LET act  == TruncateAtButton(s_timer_list)
      ovf  == TruncateAtButton(s_timer_overflow_list)
      kept == Range(act) \cup Range(ovf)
  IN  /\ T!CallerMayRun
      /\ inits < MaxInit
      /\ inits' = inits + 1
      /\ s_timer_list' = act
      /\ s_timer_overflow_list' = ovf
      /\ left' = [t \in Buttons \cup Others |-> IF t \in kept THEN left[t] ELSE 0]
      /\ order' = SelectSeq(order, LAMBDA u : u \in kept)
      /\ initialized' = initialized \cup Buttons
      /\ debounced_button' = pin
      /\ prev_debounced_button' = pin
      /\ lastFired' = NoTimer
      /\ UNCHANGED <<delay, s_swtimer_tick_count, in_tick, slept, pin,
                     irq_pending, raw_button, was_down, edges, sinceIsr, started>>
      /\ T!RtosUnchanged

-----------------------------------------------------------------------------
(* A tick: the hook's entry step; the ghost counters of the buttons age.   *)
Tick ==
  /\ T!nl_swtimer_rtos_tick_handler
  /\ sinceIsr' = [b \in Buttons |-> IF sinceIsr[b] < QuietCap
                                    THEN sinceIsr[b] + 1 ELSE QuietCap]
  /\ UNCHANGED <<buttonVars, started>>

(* nlgpio_button_debounce_handler run by the expiry loop for button b: it  *)
(* returns 0, so the timer is not restarted.                               *)
nlgpio_button_debounce_handler(b) ==
  /\ T!HeadDue
  /\ Head(s_timer_list) = b
  /\ T!FireHead(NoEffect, 0)
  /\ prev_debounced_button' = [prev_debounced_button EXCEPT ![b] = debounced_button[b]]
  /\ debounced_button' = [debounced_button EXCEPT ![b] = raw_button[b]]
  /\ UNCHANGED <<pin, irq_pending, raw_button, was_down, edges, inits,
                 sinceIsr, started>>

(* The callback of another periodic timer: it restarts itself with r.      *)
OtherCallback(o, r) ==
  /\ T!HeadDue
  /\ Head(s_timer_list) = o
  /\ T!FireHead(NoEffect, r)
  /\ UNCHANGED <<buttonVars, sinceIsr, started>>

TickDone ==
  /\ T!TickHandlerDone
  /\ UNCHANGED <<buttonVars, sinceIsr, started>>

(* The owner of another timer initialises and starts it.                   *)
OtherInit(o) ==
  /\ T!nl_swtimer_init(o)
  /\ UNCHANGED <<buttonVars, sinceIsr, started>>

OtherStart(o, ms) ==
  /\ T!nl_swtimer_start(o, ms)
  /\ started' = started \cup {o}
  /\ UNCHANGED <<buttonVars, sinceIsr>>

Next ==
  \/ \E b \in Buttons : PinEdge(b) \/ nlgpio_button_isr(b)
                        \/ nlgpio_button_debounce_handler(b)
  \/ nlgpio_button_init
  \/ Tick
  \/ TickDone
  \/ \E o \in Others : \/ OtherInit(o)
                       \/ \E ms \in OtherMs : OtherStart(o, ms)
                       \/ \E r \in OtherPeriods : OtherCallback(o, r)

(* The tick interrupt is periodic and the expiry loop runs to its end.    *)
(* A pending GPIO interrupt stays latched in the NVIC while the tick       *)
(* handler masks it and is taken once it is unmasked: strong fairness.     *)
Fairness ==
  /\ WF_vars(Tick)
  /\ \A b \in Buttons : SF_vars(nlgpio_button_isr(b))
  /\ WF_vars(TickDone \/ \E b \in Buttons : nlgpio_button_debounce_handler(b)
                      \/ \E o \in Others, r \in OtherPeriods : OtherCallback(o, r))

Spec == Init /\ [][Next]_vars /\ Fairness

-----------------------------------------------------------------------------
(* The types of the button state and of the shared timer state (which     *)
(* includes that no timer is linked twice): the ISR's cancel must unlink   *)
(* the debounce timer before its start links it again.                     *)
TypeOK ==
  /\ T!TypeOK
  /\ pin \in [Buttons -> BOOLEAN] /\ irq_pending \in [Buttons -> BOOLEAN]
  /\ raw_button \in [Buttons -> BOOLEAN]
  /\ debounced_button \in [Buttons -> BOOLEAN]
  /\ prev_debounced_button \in [Buttons -> BOOLEAN]
  /\ was_down \in [Buttons -> BOOLEAN]
  /\ edges \in [Buttons -> 0..MaxEdges] /\ inits \in 0..MaxInit
  /\ sinceIsr \in [Buttons -> 0..QuietCap] /\ started \subseteq Others

(* Debouncing: nlgpio_button_debounce_handler samples a button only after  *)
(* its interrupt has been quiet for more than the whole debounce interval  *)
(* in ticks (the start's alignment tick covers an ISR taken mid-tick),     *)
(* because every ISR restarts the timer; so a bounce burst yields one      *)
(* sample, taken after the last edge.                                      *)
DebounceAfterQuiet ==
  [][\A b \in Buttons : lastFired' = b => sinceIsr'[b] > DebounceTicks]_vars

(* Once the IRQs are requested and the pin stops changing, every button's  *)
(* debounced state eventually equals its level for good: the last ISR's    *)
(* timer is not lost, and the handler copies the last sample.              *)
StableButtonSettles ==
  \A b \in Buttons : <>[](inits > 0 => debounced_button[b] = pin[b])

(* A periodic timer started by another component keeps running: outside   *)
(* the expiry loop, which unlinks it while its callback runs, it is always *)
(* linked in one of the timer lists.                                       *)
PeriodicKeepsRunning ==
  ~in_tick => \A o \in started : T!IsActive(T!Lists, o)

=============================================================================
