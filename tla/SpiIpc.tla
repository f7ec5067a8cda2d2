------------------------------- MODULE SpiIpc -------------------------------
(***************************************************************************)
(* The SPI IPC master of src/src/nlspi_ipc.c (RTOS build), together with   *)
(* the slave on the other end of the MRDY/SRDY handshake.                  *)
(*                                                                         *)
(* Tasks calling nlspi_ipc_send and the worker calling nlspi_ipc_work      *)
(* serialise on spi_ipc_mutex.  Each transaction registers the SRDY        *)
(* rising-edge interrupt, asserts MRDY, names itself in sTaskToNotify and  *)
(* blocks in ulTaskNotifyTake until srdy_deasserted_isr gives it a         *)
(* notification or srdy_timeout_ms passes.  After the transfer it          *)
(* re-registers the SRDY-low interrupt, whose ISR (srdy_asserted_isr)      *)
(* tells the client to run nlspi_ipc_work.                                 *)
(*                                                                         *)
(* Frames are abstracted to their length byte and whether their CRC is     *)
(* intact; the length arithmetic of both receive paths is kept in uint8.   *)
(* A CRC computed over bytes that are not one received frame (stale        *)
(* buffer contents, or an out-of-bounds read) may match or not: both       *)
(* outcomes are possible.                                                  *)
(***************************************************************************)
EXTENDS Integers, FiniteSets

CONSTANTS
    Senders,        \* tasks that call nlspi_ipc_send
    Worker,         \* the task that calls nlspi_ipc_work
    NoTask,         \* a NULL task handle / the mutex is free
    MAX_IPC_DATA_LEN_FROM_SLAVE,
    Headers,        \* length bytes the slave can put on the wire (non-zero)
    DataLens,       \* data_len arguments of nlspi_ipc_send
    MaxSends,       \* bound on nlspi_ipc_send calls
    MaxFrames,      \* bound on frames the slave queues
    MaxCrashes,     \* bound on slave resets
    MaxTimeouts,    \* bound on timeouts of a slow (not dead) slave
    SlowSlave,      \* the slave may not have answered at srdy_timeout_ms
    LateEdge,       \* its edge may come between the timeout and the release
    EarlyEdge       \* the slave may answer before sTaskToNotify is written

Tasks == Senders \cup {Worker}

ASSUME /\ Worker \notin Senders /\ NoTask \notin Tasks
       /\ Headers \subseteq 1..255 /\ DataLens \subseteq 0..70
       /\ {SlowSlave, LateEdge, EarlyEdge} \subseteq BOOLEAN

VARIABLES
    mutex,          \* spi_ipc_mutex holder
    pc,             \* where each task is in its transaction
    dlen,           \* data_len of each sender's current call
    irq,            \* SRDY interrupt registered: "none", "low" or "rising"
    mrdy,           \* MRDY asserted
    notify,         \* each task's FreeRTOS notification count
    sTaskToNotify,
    rx_pending,     \* rx_pending_handler has readied the worker
    slave,          \* "idle", "req", "prep", "ready" or "dead"
    frame,          \* the frame the slave has to send, or NoFrame
    sends, frames, crashes, timeouts,
    dispatched,     \* what check_crc_and_dispatch did last
    oob,            \* rx_buffer was accessed outside its bounds
    doubleReq       \* nlgpio_irq_request called while an irq was registered

vars == <<mutex, pc, dlen, irq, mrdy, notify, sTaskToNotify, rx_pending,
          slave, frame, sends, frames, crashes, timeouts, dispatched, oob,
          doubleReq>>

NoFrame == [hdr |-> 0, ok |-> TRUE]
Frames == [hdr : Headers, ok : BOOLEAN]
None == [kind |-> "none", len |-> 0]

-----------------------------------------------------------------------------
(* Frame arithmetic                                                        *)

\* static uint8_t rx_buffer[MAX_IPC_DATA_LEN_FROM_SLAVE + 1], as its indices
RxBuffer == 0..MAX_IPC_DATA_LEN_FROM_SLAVE

U8(x) == x % 256

\* nlspi_ipc_send receive path for length byte h and data_len d: the data
\* length it computes, the rx_buffer indices the transfers write (index k
\* holds byte k of the slave's data+CRC) and the indices dispatch reads.
SendRx(h, d) ==
    LET rdl  == IF h = 0 THEN 0 ELSE U8(h - 3)
        more == h # 0 /\ rdl <= Cardinality(RxBuffer) /\ rdl > d
    IN  [rdl   |-> rdl,
         recv  |-> (0..d) \cup (IF more THEN (d + 1)..rdl ELSE {}),
         reads |-> IF h = 0 THEN {} ELSE 0..rdl]

WorkRx_numNotMinusOne(h) ==
    LET len  == U8(h - 2)
        skip == h = 0 \/ len > Cardinality(RxBuffer)
        num  == IF skip THEN Cardinality(RxBuffer) ELSE len
    IN  [rdl   |-> U8(num),
         recv  |-> IF skip THEN {} ELSE 0..(len - 1),
         reads |-> IF h = 0 THEN {} ELSE 0..U8(num)]

\* fetch_rx_len_func and the dispatch length xfer[1].num - 1 of nlspi_ipc_work
WorkRx(h) ==
    LET len  == U8(h - 2)
        skip == h = 0 \/ len > Cardinality(RxBuffer)
        num  == IF skip THEN Cardinality(RxBuffer) ELSE len
    IN  [rdl   |-> U8(num - 1),
         recv  |-> IF skip THEN {} ELSE 0..(len - 1),
         reads |-> IF h = 0 THEN {} ELSE 0..U8(num - 1)]

\* check_crc_and_dispatch: nothing for a zero length byte; otherwise the
\* data or the corrupt handler.  The CRC decides only when dispatch reads
\* exactly the frame that was received into rx_buffer.
Dispatch(h, r, f) ==
    LET intact == /\ r.reads \subseteq r.recv \cap RxBuffer
                  /\ h = f.hdr /\ r.rdl = h - 3
        data    == [kind |-> "data", len |-> r.rdl]
        corrupt == [kind |-> "corrupt", len |-> r.rdl]
    IN  CASE h = 0          -> {None}
          [] intact /\ f.ok -> {data}
          [] intact         -> {corrupt}
          [] OTHER          -> {data, corrupt}

-----------------------------------------------------------------------------
(* Master                                                                  *)

SrdyLow == slave \in {"req", "prep"}

Init ==
    /\ mutex = NoTask
    /\ pc = [t \in Tasks |-> "idle"]
    /\ dlen = [t \in Tasks |-> 0]
    /\ irq = "low"                       \* nlspi_ipc_init
    /\ mrdy = FALSE
    /\ notify = [t \in Tasks |-> 0]
    /\ sTaskToNotify = NoTask
    /\ rx_pending = FALSE
    /\ slave = "idle" /\ frame = NoFrame
    /\ sends = 0 /\ frames = 0 /\ crashes = 0 /\ timeouts = 0
    /\ dispatched = None /\ oob = FALSE /\ doubleReq = FALSE

SlaveVars == <<slave, frame, frames, crashes>>

\* nlspi_ipc_send up to asserting MRDY: take the mutex, request the bus,
\* release any registered irq and register the rising-edge one.
nlspi_ipc_send(t, d) ==
    /\ pc[t] = "idle" /\ mutex = NoTask /\ sends < MaxSends
    /\ mutex' = t
    /\ irq' = "rising"
    /\ mrdy' = TRUE
    /\ pc' = [pc EXCEPT ![t] = "arm"]
    /\ dlen' = [dlen EXCEPT ![t] = d]
    /\ sends' = sends + 1
    /\ UNCHANGED <<notify, sTaskToNotify, rx_pending, timeouts, dispatched,
                   oob, doubleReq>> /\ UNCHANGED SlaveVars

nlspi_ipc_work_noGive ==
    /\ pc[Worker] = "idle" /\ rx_pending /\ mutex = NoTask
    /\ rx_pending' = FALSE
    /\ mutex' = Worker
    /\ IF SrdyLow
         THEN /\ irq' = "rising"
              /\ mrdy' = TRUE
              /\ pc' = [pc EXCEPT ![Worker] = "arm"]
         ELSE /\ irq' = "low"
              /\ UNCHANGED <<mrdy, pc>>
    /\ UNCHANGED <<dlen, notify, sTaskToNotify, sends, timeouts, dispatched,
                   oob, doubleReq>> /\ UNCHANGED SlaveVars

\* nlspi_ipc_work up to asserting MRDY.  With SRDY high it re-registers the
\* SRDY-low irq (releasing one first) and gives the mutex back.
nlspi_ipc_work ==
    /\ pc[Worker] = "idle" /\ rx_pending /\ mutex = NoTask
    /\ rx_pending' = FALSE
    /\ IF SrdyLow
         THEN /\ mutex' = Worker
              /\ irq' = "rising"
              /\ mrdy' = TRUE
              /\ pc' = [pc EXCEPT ![Worker] = "arm"]
         ELSE /\ irq' = "low"
              /\ UNCHANGED <<mutex, mrdy, pc>>
    /\ UNCHANGED <<dlen, notify, sTaskToNotify, sends, timeouts, dispatched,
                   oob, doubleReq>> /\ UNCHANGED SlaveVars

\* sTaskToNotify = xTaskGetCurrentTaskHandle(), written after MRDY
Arm(t) ==
    /\ pc[t] = "arm"
    /\ sTaskToNotify' = t
    /\ pc' = [pc EXCEPT ![t] = "wait"]
    /\ UNCHANGED <<mutex, dlen, irq, mrdy, notify, rx_pending, sends,
                   timeouts, dispatched, oob, doubleReq>> /\ UNCHANGED SlaveVars

\* ulTaskNotifyTake(pdTRUE, srdy_timeout) returns the count and clears it;
\* anything but 1 takes the timeout path.
WaitTake(t) ==
    /\ pc[t] = "wait" /\ notify[t] > 0
    /\ notify' = [notify EXCEPT ![t] = 0]
    /\ pc' = [pc EXCEPT ![t] = IF notify[t] = 1 THEN "xfer" ELSE "timedout"]
    /\ UNCHANGED <<mutex, dlen, irq, mrdy, sTaskToNotify, rx_pending, sends,
                   timeouts, dispatched, oob, doubleReq>> /\ UNCHANGED SlaveVars

\* The wait times out when no edge will come: the slave is dead, or it has
\* already raised SRDY and the edge went elsewhere.  A slow slave may also
\* answer only after srdy_timeout_ms.
TimeoutPossible ==
    \/ slave \in {"dead", "ready"}
    \/ SlowSlave /\ timeouts < MaxTimeouts

\* ulTaskNotifyTake returns 0 at srdy_timeout
WaitTimeout(t) ==
    /\ pc[t] = "wait" /\ notify[t] = 0 /\ TimeoutPossible
    /\ pc' = [pc EXCEPT ![t] = "timedout"]
    /\ timeouts' = timeouts + 1
    /\ UNCHANGED <<mutex, dlen, irq, mrdy, notify, sTaskToNotify, rx_pending,
                   sends, dispatched, oob, doubleReq>> /\ UNCHANGED SlaveVars

TimeoutCleanup_noGive(t) ==
    /\ pc[t] = "timedout"
    /\ mrdy' = FALSE
    /\ irq' = "none"
    /\ pc' = [pc EXCEPT ![t] = "idle"]
    /\ UNCHANGED <<mutex, dlen, notify, sTaskToNotify, rx_pending, sends,
                   timeouts, dispatched, oob, doubleReq>> /\ UNCHANGED SlaveVars

\* The timeout path: release MRDY, release the irq, irq_registered = 0,
\* release the bus, srdy_timeout_handler(), give the mutex.  No SRDY-low
\* irq is registered again.
TimeoutCleanup(t) ==
    /\ pc[t] = "timedout"
    /\ mrdy' = FALSE
    /\ irq' = "none"
    /\ mutex' = NoTask
    /\ pc' = [pc EXCEPT ![t] = "idle"]
    /\ UNCHANGED <<dlen, notify, sTaskToNotify, rx_pending, sends, timeouts,
                   dispatched, oob, doubleReq>> /\ UNCHANGED SlaveVars

ReRegisterLow_none ==
    /\ irq' = irq
    /\ doubleReq' = doubleReq

\* irq_registered = 4 / 6; nlgpio_irq_request(TRIGGER_LOW) with no release
\* first: only a printf if an irq is still registered.
ReRegisterLow ==
    /\ irq' = "low"
    /\ doubleReq' = (doubleReq \/ irq # "none")

\* The rest of the transaction after the SRDY edge: clock the frame, register
\* the SRDY-low irq, release MRDY and the bus, check_crc_and_dispatch, give
\* the mutex.  A slave that is not ready puts an arbitrary length byte on
\* the wire and keeps its frame.
Transfer(t) ==
    /\ pc[t] = "xfer"
    /\ \E h \in IF slave = "ready" THEN {frame.hdr} ELSE {0} \cup Headers :
         LET r == IF t = Worker THEN WorkRx(h) ELSE SendRx(h, dlen[t])
         IN  /\ dispatched' \in Dispatch(h, r, frame)
             /\ oob' = (oob \/ ~(r.recv \cup r.reads \subseteq RxBuffer))
    /\ ReRegisterLow
    /\ mrdy' = FALSE
    /\ mutex' = NoTask
    /\ pc' = [pc EXCEPT ![t] = "idle"]
    /\ IF slave = "ready"
         THEN slave' = "idle" /\ frame' = NoFrame
         ELSE UNCHANGED <<slave, frame>>
    /\ UNCHANGED <<dlen, notify, sTaskToNotify, rx_pending, sends, timeouts,
                   frames, crashes>>

-----------------------------------------------------------------------------
(* Slave and interrupts                                                    *)

MasterVars == <<mutex, pc, dlen, mrdy, sends, timeouts, dispatched, oob,
                doubleReq>>

\* The slave queues a frame and pulls SRDY low.
SlaveQueue(f) ==
    /\ slave = "idle" /\ frame = NoFrame /\ frames < MaxFrames
    /\ frame' = f /\ slave' = "req" /\ frames' = frames + 1
    /\ UNCHANGED <<crashes, irq, notify, sTaskToNotify, rx_pending>>
    /\ UNCHANGED MasterVars

\* The slave sees MRDY and prepares the transfer (SRDY low).
SlavePrep ==
    /\ mrdy /\ slave \in {"idle", "req"}
    /\ slave' = "prep"
    /\ UNCHANGED <<frame, frames, crashes, irq, notify, sTaskToNotify,
                   rx_pending>> /\ UNCHANGED MasterVars

\* The slave raises SRDY.  If the rising-edge irq is registered,
\* srdy_deasserted_isr runs: irq_registered = 0, release, and
\* vTaskNotifyGiveFromISR(sTaskToNotify).  A NULL handle gives nothing.
\* EarlyEdge and LateEdge say whether the edge may fall in the window after
\* MRDY is asserted and before sTaskToNotify is written, and in the window
\* after ulTaskNotifyTake timed out and before the irq is released.
SlaveReady ==
    /\ mrdy /\ slave = "prep"
    /\ EarlyEdge \/ \A t \in Tasks : pc[t] # "arm"
    /\ LateEdge \/ \A t \in Tasks : pc[t] # "timedout"
    /\ slave' = "ready"
    /\ IF irq = "rising"
         THEN /\ irq' = "none"
              /\ notify' = IF sTaskToNotify \in Tasks
                             THEN [notify EXCEPT ![sTaskToNotify] = @ + 1]
                             ELSE notify
         ELSE UNCHANGED <<irq, notify>>
    /\ UNCHANGED <<frame, frames, crashes, sTaskToNotify, rx_pending>>
    /\ UNCHANGED MasterVars

\* MRDY released under the slave before a transfer: it goes back to waiting.
SlaveAbort ==
    /\ ~mrdy /\ slave \in {"prep", "ready"}
    /\ slave' = IF frame = NoFrame THEN "idle" ELSE "req"
    /\ UNCHANGED <<frame, frames, crashes, irq, notify, sTaskToNotify,
                   rx_pending>> /\ UNCHANGED MasterVars

\* The slave resets and loses its frame; SRDY floats high.  A reset after
\* it has raised SRDY (in the middle of the transfer) is not modelled.
SlaveCrash ==
    /\ slave \notin {"dead", "ready"} /\ crashes < MaxCrashes
    /\ slave' = "dead" /\ frame' = NoFrame /\ crashes' = crashes + 1
    /\ UNCHANGED <<frames, irq, notify, sTaskToNotify, rx_pending>>
    /\ UNCHANGED MasterVars

SlaveRestart ==
    /\ slave = "dead" /\ ~mrdy
    /\ slave' = "idle"
    /\ UNCHANGED <<frame, frames, crashes, irq, notify, sTaskToNotify,
                   rx_pending>> /\ UNCHANGED MasterVars

\* srdy_asserted_isr: level-triggered on SRDY low; irq_registered = 0,
\* release, rx_pending_handler() readies the worker.
srdy_asserted_isr ==
    /\ irq = "low" /\ SrdyLow
    /\ irq' = "none"
    /\ rx_pending' = TRUE
    /\ UNCHANGED <<notify, sTaskToNotify>> /\ UNCHANGED SlaveVars
    /\ UNCHANGED MasterVars

-----------------------------------------------------------------------------

Next ==
    \/ \E t \in Senders, d \in DataLens : nlspi_ipc_send(t, d)
    \/ nlspi_ipc_work
    \/ \E t \in Tasks : Arm(t) \/ WaitTake(t) \/ WaitTimeout(t)
                        \/ TimeoutCleanup(t) \/ Transfer(t)
    \/ \E f \in Frames : SlaveQueue(f)
    \/ SlavePrep \/ SlaveReady \/ SlaveAbort \/ SlaveCrash \/ SlaveRestart
    \/ srdy_asserted_isr

\* The master's steps after the mutex, the worker once readied, the slave's
\* answer to MRDY and the level-triggered ISR are weakly fair; new sends,
\* new frames and crashes are not.
Fairness ==
    /\ \A t \in Tasks : /\ WF_vars(Arm(t)) /\ WF_vars(WaitTake(t))
                        /\ WF_vars(WaitTimeout(t)) /\ WF_vars(TimeoutCleanup(t))
                        /\ WF_vars(Transfer(t))
    /\ WF_vars(nlspi_ipc_work)
    /\ WF_vars(SlavePrep) /\ WF_vars(SlaveReady) /\ WF_vars(SlaveAbort)
    /\ WF_vars(SlaveRestart) /\ WF_vars(srdy_asserted_isr)

Spec == Init /\ [][Next]_vars /\ Fairness

-----------------------------------------------------------------------------
(* Properties                                                              *)

\* Types, and spi_ipc_mutex held exactly by the task inside a transaction:
\* every path out of nlspi_ipc_send and nlspi_ipc_work gives it back.
TypeOK ==
    /\ pc \in [Tasks -> {"idle", "arm", "wait", "timedout", "xfer"}]
    /\ irq \in {"none", "low", "rising"}
    /\ notify \in [Tasks -> Nat]
    /\ slave \in {"idle", "req", "prep", "ready", "dead"}
    /\ frame \in Frames \cup {NoFrame}
    /\ \A t \in Tasks : pc[t] # "idle" <=> mutex = t

TransferStep(t) == pc[t] = "xfer" /\ pc'[t] = "idle"

\* The master clocks the bus only after the slave has raised SRDY for this
\* transaction: ulTaskNotifyTake returning 1 must mean "this slave edge".
NoClockBeforeReady ==
    [][\A t \in Tasks : TransferStep(t) => slave = "ready"]_vars

\* nlgpio_irq_request is never called while an SRDY irq is registered; the
\* comment at nlspi_ipc_work says the gpio layer would otherwise register a
\* second interrupt.  Only the re-registration after a transfer (526, 355)
\* can find one registered, after a stale notification; no run checks it:
\* with LateEdge = TRUE TLC finds it violated in ten steps.
IrqRequestedOnce == ~doubleReq

\* What the slave sent is what is dispatched: a frame with an intact CRC
\* reaches rx_data_handler with its own data length, a corrupted one
\* rx_corrupt_handler, a zero length byte neither.
SentDispatch ==
    IF frame.hdr = 0 THEN None
    ELSE [kind |-> IF frame.ok THEN "data" ELSE "corrupt", len |-> frame.hdr - 3]

DeliveredIsSent ==
    [][\A t \in Tasks : TransferStep(t) => dispatched' = SentDispatch]_vars

\* No receive path writes or reads rx_buffer outside its
\* MAX_IPC_DATA_LEN_FROM_SLAVE + 1 bytes, whatever length byte arrives.
\* No run checks it: the legal lengths never leave the buffer, and with
\* Headers = {MAX_IPC_DATA_LEN_FROM_SLAVE + 4} or {2} TLC finds it violated.
RxWithinBuffer == ~oob

\* A frame the slave has queued (SRDY held low) is eventually taken by the
\* master, with no further nlspi_ipc_send needed to pick it up, as long as
\* no SRDY timeout has happened.  (After a timeout no SRDY-low irq is
\* registered until the next call, so the unconditional form fails.)
ReceivedEventually ==
    (frame # NoFrame /\ timeouts = 0) ~> (frame = NoFrame \/ timeouts > 0)

\* spi_ipc_mutex is free infinitely often: no path keeps it.
MutexReleased == []<>(mutex = NoTask)

====
