\* Two tracing callers over a table of three slots, so the table fills,
\* events end out of start order and print frees a prefix of the list.
\* Tracing may be enabled before init and disabled at any time, and an end
\* may read 0 from nltimer_elapsed, as the code allows.
CONSTANTS
    MaxEvents = 3
    Ctx = {task, isr}
    NULL = NULL
    Stamps = {0, 1, 2}
    EnableBeforeInit = TRUE
    EnableValues = {TRUE, FALSE}
    task = task
    isr = isr
SPECIFICATION Spec
INVARIANT TypeOK TraceListWellFormed
PROPERTY EndedPrintedUnlessStranded
