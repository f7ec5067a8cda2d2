------------------------------- MODULE IrqTick -------------------------------
(***************************************************************************)
(* Interrupt masking (src/include/arch/nlplatform_arm_cm3.h) composed with *)
(* the swtimer tick handler (src/src/nlswtimer.c) and the button ISR       *)
(* (src/src/nlgpio_button.c), at the level of the list pointers.           *)
(*                                                                         *)
(* nlplatform_interrupt_disable raises BASEPRI and counts int_lock_count;  *)
(* nlplatform_interrupt_enable clears BASEPRI when the count returns to 0, *)
(* whoever raised it.  The RTOS tick ISR raises BASEPRI itself, without    *)
(* the count, and runs nl_swtimer_rtos_tick_handler, whose expiry loop     *)
(* touches s_timer_list with no lock of its own.  The timer P is restarted *)
(* by its callback, which may make an nlplatform-locked call (an nltrace   *)
(* event, a log line, another timer's start); the timer D is the button's  *)
(* debounce timer, cancelled and restarted by the GPIO ISR on every edge.  *)
(* The GPIO ISR outranks the tick ISR, which outranks the task; each runs  *)
(* only while BASEPRI is clear.  A task may hold nested critical sections  *)
(* (vPortEnterCritical is linked to nlplatform_interrupt_disable).         *)
(*                                                                         *)
(* The restart's nl_swtimer_insert_locked is split into its traversal and *)
(* its two stores, the window in which an ISR can change the list.  Ticks  *)
(* stay below the wrap, so the overflow list stays empty and is left out.  *)
(***************************************************************************)
EXTENDS Integers, Sequences, FiniteSets

CONSTANTS
    P, D, Nil,
    Period,          \* ticks P's callback returns, nl_time_ms_to_delay_time_native
    DebounceTicks,   \* NL_BUTTON_DEBOUNCE_TIME_INTERVAL_MS in ticks
    MaxTick,         \* ticks of the behaviour, below the counter's wrap
    MaxEdges,        \* GPIO edges of the behaviour
    MaxNest,         \* depth of the task's nested critical sections
    CallbackLocks    \* P's callback makes an nlplatform-locked call

ASSUME /\ Period \in Nat \ {0} /\ DebounceTicks \in Nat \ {0}
       /\ CallbackLocks \in BOOLEAN /\ Nil \notin {P, D}

Timers == {P, D}

VARIABLES
    head, next, delay,               \* s_timer_list and the entries
    now,                             \* s_swtimer_tick_count
    int_lock_count, basepri,         \* basepri: BASEPRI is raised
    tick_pc, timer_p, timer_pp, succ,\* the tick ISR and its locals
    edges, armed                     \* GPIO edges so far; started timers

list == [head |-> head, next |-> next, delay |-> delay]
vars == <<head, next, delay, now, int_lock_count, basepri, tick_pc, timer_p,
          timer_pp, succ, edges, armed>>

\* The timers met walking next from t, at most fuel of them.
RECURSIVE Chain(_, _, _)
Chain(L, t, fuel) ==
    IF t = Nil \/ fuel = 0 THEN <<>> ELSE <<t>> \o Chain(L, L.next[t], fuel - 1)

Listed(L) == Chain(L, L.head, Cardinality(Timers) + 1)

-----------------------------------------------------------------------------
(* nlplatform_interrupt_disable(); ...; nlplatform_interrupt_enable():     *)
(* the count comes back to where it was, and BASEPRI is cleared if that is *)
(* 0, whether or not it was raised before the pair.                        *)
MaskAfterLockedCall == int_lock_count /= 0

\* The walk of nl_swtimer_insert_locked: the link to overwrite (Nil for
\* s_timer_list itself, else the entry whose next it is) and the entry the
\* new one goes before, the first whose delay is greater than dl.
InsertPoint(L, dl) ==
    LET S == Listed(L)
        k == IF \E i \in 1..Len(S) : dl < L.delay[S[i]]
             THEN CHOOSE i \in 1..Len(S) :
                      dl < L.delay[S[i]] /\ \A j \in 1..(i - 1) : dl >= L.delay[S[j]]
             ELSE Len(S) + 1
    IN  [pp |-> IF k = 1 THEN Nil ELSE S[k - 1],
         succ |-> IF k <= Len(S) THEN S[k] ELSE Nil]

\* *timer_pp = timer; timer->next = timer_p;
Link(L, t, pp, sc) ==
    IF pp = Nil THEN [L EXCEPT !.head = t, !.next[t] = sc]
    ELSE [L EXCEPT !.next[pp] = t, !.next[t] = sc]

nl_swtimer_insert_locked(L, t, ticks) ==
    LET dl == now + (IF ticks = 0 THEN 1 ELSE ticks)
        M  == [L EXCEPT !.delay[t] = dl]
        ip == InsertPoint(M, dl)
    IN  Link(M, t, ip.pp, ip.succ)

\* remove_from_list_locked: the first link on the walk that points at t
\* takes t's next; t's own next is left as it was.
remove_from_list_locked(L, t) ==
    LET S == Listed(L)
        at == {i \in 1..Len(S) : S[i] = t}
    IN  IF at = {} THEN L
        ELSE LET i == CHOOSE i \in at : \A j \in at : i <= j
             IN  IF i = 1 THEN [L EXCEPT !.head = L.next[t]]
                 ELSE [L EXCEPT !.next[S[i - 1]] = L.next[t]]

SetList(L) == head' = L.head /\ next' = L.next /\ delay' = L.delay

-----------------------------------------------------------------------------
(* P was started by the application before the first tick.                 *)
Init ==
    /\ head = P /\ next = [t \in Timers |-> Nil]
    /\ delay = [t \in Timers |-> IF t = P THEN Period ELSE 0]
    /\ now = 0 /\ int_lock_count = 0 /\ basepri = FALSE
    /\ tick_pc = "idle" /\ timer_p = Nil /\ timer_pp = Nil /\ succ = Nil
    /\ edges = 0 /\ armed = {P}

(* vPortEnterCritical / vPortExitCritical in the task. *)
TaskEnterCritical ==
    /\ tick_pc = "idle" /\ int_lock_count < MaxNest
    /\ int_lock_count' = int_lock_count + 1 /\ basepri' = TRUE
    /\ UNCHANGED <<head, next, delay, now, tick_pc, timer_p, timer_pp, succ,
                   edges, armed>>

TaskExitCritical ==
    /\ tick_pc = "idle" /\ int_lock_count > 0
    /\ int_lock_count' = int_lock_count - 1
    /\ basepri' = (int_lock_count' /= 0)
    /\ UNCHANGED <<head, next, delay, now, tick_pc, timer_p, timer_pp, succ,
                   edges, armed>>

(* The tick ISR: the port raises BASEPRI, the handler counts the tick.     *)
TickEnter ==
    /\ tick_pc = "idle" /\ ~basepri /\ now < MaxTick
    /\ basepri' = TRUE /\ now' = now + 1 /\ tick_pc' = "loop"
    /\ UNCHANGED <<head, next, delay, int_lock_count, timer_p, timer_pp, succ,
                   edges, armed>>

(* while (s_timer_list): pop the head if due, else leave the handler and   *)
(* the port clears BASEPRI.                                                *)
TickLoop ==
    /\ tick_pc = "loop"
    /\ IF head /= Nil /\ now >= delay[head]
       THEN /\ timer_p' = head /\ head' = next[head]
            /\ armed' = armed \ {head} /\ tick_pc' = "callback"
            /\ UNCHANGED basepri
       ELSE /\ tick_pc' = "idle" /\ basepri' = FALSE
            /\ UNCHANGED <<timer_p, head, armed>>
    /\ UNCHANGED <<next, delay, now, int_lock_count, timer_pp, succ, edges>>

(* The callback.  P's may take the interrupt lock and returns its period;  *)
(* D's, nlgpio_button_debounce_handler, returns 0.                         *)
TickCallback ==
    /\ tick_pc = "callback"
    /\ basepri' = IF timer_p = P /\ CallbackLocks THEN MaskAfterLockedCall
                  ELSE basepri
    /\ tick_pc' = IF timer_p = P THEN "insert" ELSE "loop"
    /\ UNCHANGED <<head, next, delay, now, int_lock_count, timer_p, timer_pp,
                   succ, edges, armed>>

(* Restart of P: nl_swtimer_insert_locked with the period less the         *)
(* alignment tick, first its walk of the list ...                          *)
TickInsertWalk ==
    LET ticks == IF Period - 1 = 0 THEN 1 ELSE Period - 1
        ip == InsertPoint(list, now + ticks)
    IN  /\ tick_pc = "insert"
        /\ delay' = [delay EXCEPT ![timer_p] = now + ticks]
        /\ timer_pp' = ip.pp /\ succ' = ip.succ /\ tick_pc' = "link"
        /\ UNCHANGED <<head, next, now, int_lock_count, basepri, timer_p,
                       edges, armed>>

(* ... then its two stores, with what the walk found.                      *)
TickInsertLink ==
    /\ tick_pc = "link"
    /\ SetList(Link(list, timer_p, timer_pp, succ))
    /\ armed' = armed \cup {timer_p} /\ tick_pc' = "loop"
    /\ UNCHANGED <<now, int_lock_count, basepri, timer_p, timer_pp, succ, edges>>

(* nlgpio_button_isr: nl_swtimer_cancel then nl_swtimer_start of D, each   *)
(* under the interrupt lock.                                               *)
GpioIsr ==
    /\ ~basepri /\ edges < MaxEdges
    /\ SetList(nl_swtimer_insert_locked(remove_from_list_locked(list, D),
                                        D, DebounceTicks))
    /\ basepri' = MaskAfterLockedCall
    /\ edges' = edges + 1 /\ armed' = armed \cup {D}
    /\ UNCHANGED <<now, int_lock_count, tick_pc, timer_p, timer_pp, succ>>

Next ==
    \/ TaskEnterCritical \/ TaskExitCritical
    \/ TickEnter \/ TickLoop \/ TickCallback \/ TickInsertWalk \/ TickInsertLink
    \/ GpioIsr

Spec == Init /\ [][Next]_vars

-----------------------------------------------------------------------------
(* Properties                                                              *)

TypeOK ==
    /\ head \in Timers \cup {Nil} /\ next \in [Timers -> Timers \cup {Nil}]
    /\ delay \in [Timers -> Nat] /\ now \in 0..MaxTick
    /\ int_lock_count \in 0..MaxNest /\ basepri \in BOOLEAN
    /\ tick_pc \in {"idle", "loop", "callback", "insert", "link"}
    /\ edges \in 0..MaxEdges /\ armed \subseteq Timers

(* s_timer_list holds every started timer that has not yet been popped     *)
(* for firing, once each and sorted by delay (spec.md 4.2, 5: every list   *)
(* mutation is made under the critical section).  Broken if an ISR that   *)
(* also uses the timer API runs inside the tick handler's list walk after *)
(* a callback's locked call has cleared the BASEPRI the port raised.      *)
ArmedTimersListed ==
    LET S == Listed(list)
    IN  /\ {S[i] : i \in 1..Len(S)} = armed /\ Len(S) = Cardinality(armed)
        /\ \A i \in 1..(Len(S) - 1) : delay[S[i]] <= delay[S[i + 1]]
====
