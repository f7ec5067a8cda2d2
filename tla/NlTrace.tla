------------------------------- MODULE NlTrace -------------------------------
(***************************************************************************)
(* The time-stamped event trace of src/src/nltrace.c.                      *)
(*                                                                         *)
(* s_trace is a table of NL_TRACE_MAX_EVENTS slots threaded into a doubly  *)
(* linked list by index (next_ind, prev_ind, head_ind, tail_ind), with     *)
(* INVALID_INDEX = NL_TRACE_MAX_EVENTS + 1 as the null link.  A slot is    *)
(* free when its name is NULL; an event is complete when its end stamp is  *)
(* not 0.  Every operation runs under nlplatform_interrupt_disable, so     *)
(* each is one atomic step here; callers are tasks and ISRs (Ctx) that     *)
(* start an event, keep the returned index, and end it later.  The name    *)
(* pointer a caller passes is its own call site's literal, modelled by the *)
(* caller itself.  Timestamps are the values nltimer_elapsed may return    *)
(* (Stamps); task_name and start_timestamp_us are only printed and are     *)
(* left out.                                                               *)
(*                                                                         *)
(* Ghost state: order is the sequence of occupied slots in the order their *)
(* events started, done marks the slots whose end call was accepted, and   *)
(* initialized records that nltrace_init has run since power-up.           *)
(***************************************************************************)
EXTENDS Integers, Sequences, FiniteSets

CONSTANTS
    MaxEvents,        \* NL_TRACE_MAX_EVENTS
    Ctx,              \* tasks and ISRs that trace events
    NULL,             \* the NULL name pointer
    Stamps,           \* values nltimer_elapsed may return at an event end
    EnableBeforeInit, \* nltrace_enable(true) may come before nltrace_init
    EnableValues      \* the arguments nltrace_enable is called with

ASSUME /\ MaxEvents \in Nat \ {0} /\ NULL \notin Ctx
       /\ Stamps \subseteq Nat /\ EnableBeforeInit \in BOOLEAN
       /\ EnableValues \subseteq BOOLEAN

Slots == 0..(MaxEvents - 1)
INVALID_INDEX == MaxEvents + 1
NoEvent == -1        \* a caller that holds no event index

VARIABLES events, head_ind, tail_ind, s_trace_enable,
          held,          \* the index each caller got from its last start
          order, done, initialized

trace == [ev |-> events, head |-> head_ind, tail |-> tail_ind]
vars == <<events, head_ind, tail_ind, s_trace_enable, held, order, done,
          initialized>>

EmptyEvent == [name |-> NULL, end |-> 0,
               next |-> INVALID_INDEX, prev |-> INVALID_INDEX]

-----------------------------------------------------------------------------
(* The list operations, on a record T = [ev, head, tail] of s_trace.       *)

\* Mutant: the scan runs one slot past the table, i <= NL_TRACE_MAX_EVENTS.
nltrace_alloc_index_locked_pastEnd(T) ==
    LET free == {i \in Slots : T.ev[i].name = NULL}
    IN  IF free = {} THEN MaxEvents
        ELSE CHOOSE i \in free : \A j \in free : i <= j

nltrace_alloc_index_locked(T) ==
    LET free == {i \in Slots : T.ev[i].name = NULL}
    IN  IF free = {} THEN INVALID_INDEX
        ELSE CHOOSE i \in free : \A j \in free : i <= j

\* Mutant: the old tail is not linked forward to the new event.
nltrace_insert_locked_noLink(T, ind) ==
    IF T.head = INVALID_INDEX /\ T.tail = INVALID_INDEX
    THEN [T EXCEPT !.head = ind, !.tail = ind]
    ELSE [T EXCEPT !.ev[ind].prev = T.tail,
                   !.ev[ind].next = INVALID_INDEX, !.tail = ind]

nltrace_insert_locked(T, ind) ==
    IF T.head = INVALID_INDEX /\ T.tail = INVALID_INDEX
    THEN [T EXCEPT !.head = ind, !.tail = ind]
    ELSE [T EXCEPT !.ev[ind].prev = T.tail, !.ev[T.tail].next = ind,
                   !.ev[ind].next = INVALID_INDEX, !.tail = ind]

\* Mutant: removing the head leaves the new head's prev_ind pointing at it.
nltrace_remove_locked_headKeepsPrev(T, ind) ==
    LET next == T.ev[ind].next
        prev == T.ev[ind].prev
        U == CASE next = INVALID_INDEX /\ prev = INVALID_INDEX ->
                      [T EXCEPT !.head = INVALID_INDEX, !.tail = INVALID_INDEX]
               [] next = INVALID_INDEX ->
                      [T EXCEPT !.tail = prev, !.ev[prev].next = INVALID_INDEX]
               [] prev = INVALID_INDEX -> [T EXCEPT !.head = next]
               [] OTHER ->
                      [T EXCEPT !.ev[prev].next = next, !.ev[next].prev = prev]
    IN  [U EXCEPT !.ev[ind] = EmptyEvent]

\* The four unlink cases, then the slot is cleared.
nltrace_remove_locked(T, ind) ==
    LET next == T.ev[ind].next
        prev == T.ev[ind].prev
        U == CASE next = INVALID_INDEX /\ prev = INVALID_INDEX ->
                      [T EXCEPT !.head = INVALID_INDEX, !.tail = INVALID_INDEX]
               [] next = INVALID_INDEX ->
                      [T EXCEPT !.tail = prev, !.ev[prev].next = INVALID_INDEX]
               [] prev = INVALID_INDEX ->
                      [T EXCEPT !.head = next, !.ev[next].prev = INVALID_INDEX]
               [] OTHER ->
                      [T EXCEPT !.ev[prev].next = next, !.ev[next].prev = prev]
    IN  [U EXCEPT !.ev[ind] = EmptyEvent]

\* From the head, print and remove events while their end stamp is set.
RECURSIVE nltrace_print_locked(_, _)
nltrace_print_locked(T, ind) ==
    IF ind /= INVALID_INDEX /\ T.ev[ind].end /= 0
    THEN nltrace_print_locked(nltrace_remove_locked(T, ind), T.ev[ind].next)
    ELSE T

SetTrace(T) ==
    /\ events' = T.ev /\ head_ind' = T.head /\ tail_ind' = T.tail

-----------------------------------------------------------------------------
(* s_trace is zero-initialised static storage before nltrace_init.         *)
Init ==
    /\ events = [i \in Slots |-> [name |-> NULL, end |-> 0, next |-> 0,
                                  prev |-> 0]]
    /\ head_ind = 0 /\ tail_ind = 0 /\ s_trace_enable = FALSE
    /\ held = [c \in Ctx |-> NoEvent]
    /\ order = <<>> /\ done = [i \in Slots |-> FALSE] /\ initialized = FALSE

\* NLER_ASSERT(s_trace_enable == false), then every slot and link reset.
nltrace_init ==
    /\ ~s_trace_enable
    /\ SetTrace([ev |-> [i \in Slots |-> EmptyEvent],
                 head |-> INVALID_INDEX, tail |-> INVALID_INDEX])
    /\ order' = <<>> /\ done' = [i \in Slots |-> FALSE] /\ initialized' = TRUE
    /\ UNCHANGED <<s_trace_enable, held>>

nltrace_enable(enable) ==
    /\ initialized \/ EnableBeforeInit
    /\ s_trace_enable' = enable
    /\ UNCHANGED <<events, head_ind, tail_ind, held, order, done, initialized>>

\* nltrace_event_start: claim the first free slot and append it to the
\* list; a full table or disabled tracing hands back INVALID_INDEX.
nltrace_event_start(c) ==
    LET ind == nltrace_alloc_index_locked(trace)
        T   == [trace EXCEPT !.ev[ind].name = c]
    IN  /\ held[c] = NoEvent
        /\ IF s_trace_enable /\ ind /= INVALID_INDEX
           THEN /\ SetTrace(nltrace_insert_locked(T, ind))
                /\ held' = [held EXCEPT ![c] = ind]
                /\ order' = Append(order, ind)
           ELSE /\ held' = [held EXCEPT ![c] = INVALID_INDEX]
                /\ UNCHANGED <<events, head_ind, tail_ind, order>>
        /\ UNCHANGED <<s_trace_enable, done, initialized>>

\* nltrace_event_end: stamp the event if the slot still carries the
\* caller's name and has no end stamp yet.
nltrace_event_end(c) ==
    LET id == held[c]
    IN  /\ id /= NoEvent
        /\ IF /\ s_trace_enable /\ id < INVALID_INDEX
              /\ events[id].name = c /\ events[id].end = 0
           THEN \E ts \in Stamps :
                    /\ events' = [events EXCEPT ![id].end = ts]
                    /\ done' = [done EXCEPT ![id] = TRUE]
           ELSE UNCHANGED <<events, done>>
        /\ held' = [held EXCEPT ![c] = NoEvent]
        /\ UNCHANGED <<head_ind, tail_ind, s_trace_enable, order, initialized>>

nltrace_print ==
    LET T == nltrace_print_locked(trace, head_ind)
        gone == {i \in Slots : T.ev[i].name = NULL}
    IN  /\ SetTrace(T)
        /\ order' = SelectSeq(order, LAMBDA i : i \notin gone)
        /\ done' = [i \in Slots |-> done[i] /\ i \notin gone]
        /\ UNCHANGED <<s_trace_enable, held, initialized>>

Next ==
    \/ nltrace_init
    \/ \E b \in EnableValues : nltrace_enable(b)
    \/ \E c \in Ctx : nltrace_event_start(c) \/ nltrace_event_end(c)
    \/ nltrace_print

(* Callers end what they start and something keeps calling nltrace_print. *)
Fairness ==
    /\ \A c \in Ctx : WF_vars(nltrace_event_end(c))
    /\ WF_vars(nltrace_print)

Spec == Init /\ [][Next]_vars /\ Fairness

-----------------------------------------------------------------------------
(* Properties                                                              *)

Links == Slots \cup {INVALID_INDEX}

TypeOK ==
    /\ events \in [Slots -> [name : Ctx \cup {NULL}, end : Stamps \cup {0},
                             next : Links, prev : Links]]
    /\ head_ind \in Links /\ tail_ind \in Links
    /\ s_trace_enable \in BOOLEAN
    /\ held \in [Ctx -> Links \cup {NoEvent}]
    /\ done \in [Slots -> BOOLEAN] /\ initialized \in BOOLEAN

\* The slots met walking next_ind from ind, at most fuel of them.
RECURSIVE Walk(_, _)
Walk(ind, fuel) ==
    IF ind = INVALID_INDEX \/ fuel = 0 THEN <<>>
    ELSE <<ind>> \o Walk(events[ind].next, fuel - 1)

(* After nltrace_init, the list threaded through next_ind from head_ind is *)
(* exactly the occupied slots in the order their events started, prev_ind *)
(* mirrors it, tail_ind is its last slot, and every other slot is free:    *)
(* nltrace_remove_locked, run by print from the head in any mix of       *)
(* starts, ends, disables and prints from several callers, never loses,   *)
(* reorders or leaks a slot.                                               *)
TraceListWellFormed ==
    initialized =>
      /\ Walk(head_ind, MaxEvents + 1) = order
      /\ tail_ind = IF order = <<>> THEN INVALID_INDEX ELSE order[Len(order)]
      /\ \A k \in 1..Len(order) :
           events[order[k]].prev = IF k = 1 THEN INVALID_INDEX ELSE order[k - 1]
      /\ \A i \in Slots :
           events[i].name /= NULL <=> \E k \in 1..Len(order) : order[k] = i

\* An event that can no longer be printed: its slot is taken, it has no end
\* stamp, and no caller holds its index (its nltrace_event_end has run, and
\* was ignored or stamped 0).
Stranded(j) ==
    events[j].name /= NULL /\ events[j].end = 0 /\ \A c \in Ctx : held[c] /= j

\* Slot i and the slots before it in the list.
UpTo(i) == {order[k] : k \in {m \in 1..Len(order) :
                                 \E n \in m..Len(order) : order[n] = i}}

(* After nltrace_init, an event whose end nltrace_event_end stamped is     *)
(* eventually printed and its slot freed, unless it or an event before it *)
(* in the list is stranded: nltrace_print stops at the first end stamp of *)
(* 0 (nltrace.c:138), so a disabled end (238) or a zero nltimer_elapsed   *)
(* (245) blocks the rest of the table, and nothing else may.               *)
EndedPrintedUnlessStranded ==
    \A i \in Slots :
        initialized /\ done[i] ~>
            events[i].name = NULL \/ \E j \in UpTo(i) : Stranded(j)
====
