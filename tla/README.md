# TLA+ models of nlplatform

This directory holds TLA+ models of the Nest platform support library under
`src/`. Each model is checked with TLC. Every definition that models code is
listed in `PROJECT.json` ("map"), with the source lines it translates.

## The system and its parts

| Part | Source | State | Operations | Interacts with |
|---|---|---|---|---|
| Software timer | `src/nlswtimer.c` | `s_timer_list` (sorted by absolute expiry), `s_timer_overflow_list`, each entry's `delay` (target tick count), `s_swtimer_tick_count`, `s_system_time_ns` | `nl_swtimer_init`, `_start`, `_cancel`, `_is_active`, `_rtos_tick_handler` (FreeRTOS tick hook), `_pre_sleep` / `_post_sleep` (tickless idle hooks) | FreeRTOS tick count and idle task; callbacks; GPIO button |
| Interrupt masking | `include/arch/nlplatform_arm_cm3.h` | `int_lock_count`, BASEPRI | `nlplatform_interrupt_disable` / `_enable` (nesting) | every critical section |
| GPIO button | `src/nlgpio_button.c` | per button: `raw_button`, `debounced_button`, `prev_debounced_button`, `was_down`, debounce timer | GPIO ISR, debounce callback, `nlgpio_button_init` | software timer |
| SPI IPC | `src/nlspi_ipc.c` | `spi_ipc_mutex`, `irq_registered`, `sTaskToNotify`, the calling task's notification count, `rx_buffer`, MRDY; the slave's SRDY line | `nlspi_ipc_send`, `nlspi_ipc_work` (slave request), `srdy_asserted_isr` (SRDY low), `srdy_deasserted_isr` (SRDY rising edge), SRDY timeout | GPIO irq layer, SPI master driver, FreeRTOS mutex and task notifications, the slave MCU |
| RAM console | `src/nlram_console.c` | `s_ram_console` in the reset-surviving `.ram_console` section (magic, `write_index`, `bytes_written`, `last_*`, `buf_size`, `enabled`, `buf`); the watermark callback context in `.bss` | `nl_ram_console_init_bootloader`, `nl_ram_console_init` (with size conversion), `_write`, `_enable`, `_disable`, `_register_callback`, `_get_info` | bootloader and app images of different buffer sizes; resets |
| Trace | `src/nltrace.c` | `s_trace`: a table of events threaded into a doubly linked list by index, `s_trace_enable` | `nltrace_init`, `_enable`, `_event_start`, `_event_end`, `_print` | tasks and ISRs that trace; interrupt masking |
| Flash | `src/nlflash.c`, `src/nlflash_spi.c`, `src/nlfs.c` | per-device lock and request, `enable_ref`, the partial-page cache (one build), image slots | lock/request/release, read/write/erase/flush, image selection | SPI |
| CRC | `src/nlcrc.c` | none | CRC-8/16/32 | nlfs, IPC |
| Reset info, faults | `src/nlreset_info.c`, `src/nlfault.c`, `cpu/arm/cortex-m0/fault.c` | `g_reset_info` (magic, reset reason, fault record) in retained or overlaid RAM; in the overlaid build also a flash partition and the env key `kFaultDiagsDirtyKey` | `nl_reset_info_prepare_reset` (and its bootloader variant), `_init`, `_get_saved_fault`, `_clear_saved_fault`; `assert_helper`, `crash_dump` and `dump_context_to_reset_info` on a fault; the stack overflow hook | resets, bootloader, flash, env |
| Time | `src/nltime.c` | none | fixed-point conversions | software timer |
| Profiling, watchpoints, MPU, compiler runtime, stubs | `nlprofile.c`, `nlwatchpoint.c`, `nlmpu.c`, `eabi.c`, `builtin.c`, `cxx-symbols.c`, `nlstubs.c` | hardware registers | configuration | — |

What makes the software timer hard:
- It keeps **absolute** target tick counts, so it must be correct across the
  2^32 wrap. It uses two lists and merges them on the wrapping tick.
- Callbacks run **inside** the tick handler. The fired timer has already been
  unlinked, so a callback may restart itself or cancel or start other timers.
- Its tick count runs **apart from FreeRTOS's** `xTickCount`:
  - while the idle task holds the scheduler suspended, FreeRTOS pends ticks
    but still calls the hook;
  - after a tickless sleep, `post_sleep` adds the slept ticks in one step
    without running the expiry loop.

## Modules

### `SwTimer` — software timer with the FreeRTOS tick source (modelled)

**Variables.**
- Code state:
  - `s_timer_list` and `s_timer_overflow_list` are sequences of timers.
  - `delay[t]` is each timer's target count.
  - `s_swtimer_tick_count`.
  - `initialized` holds the timers that `nl_swtimer_init` has been called on.
- RTOS state: `xTickCount`, `uxPendedTicks`, and the idle task's phase
  `idle`. The phases are:
  - `run`: scheduler running;
  - `susp`: suspended;
  - `asleep`: `pre_sleep` said yes;
  - `awake`: after the sleep, before `post_sleep`;
  - `resume`: before `xTaskResumeAll`.
- The RTOS state also holds `before_sleep`, the sleep budget `idle_budget`,
  and `assertFailed`. The last records a failed `assert`; the model then
  continues, as a build with asserts compiled out does.
- `in_tick` is true while the tick handler's expiry loop runs.
- Ghost state, kept only for the properties:
  - `left[t]`: the true ticks remaining to the deadline the caller asked for;
  - `order`: the insertion order;
  - `lastFired`: the timer fired by this step;
  - `slept`: whether a sleep happened since the last tick.

**Actions.**
- `nl_swtimer_init`, `nl_swtimer_start`, `nl_swtimer_cancel`: callers in task
  context.
- `nl_swtimer_rtos_tick_handler`: the hook entry. It increments the count,
  and on a wrap it runs `MergeOnWrap`.
- `FireHead(e, r)`: one iteration of the expiry loop. It unlinks the head and
  runs the callback. The callback's side effect `e` is nothing, a cancel or a
  start of any timer. Its return value `r` is 0 or a restart delay; a
  non-zero `r` re-inserts the timer with `ms_to_delay - 1`.
- `TickHandlerDone`: the loop ends.
- `nl_swtimer_pre_sleep(x)`:
  - clamps the idle time to the head's delay (`IdleClamp`);
  - vetoes the sleep when the head is overdue;
  - evaluates both asserts.
- `nl_swtimer_post_sleep`: adds `xTickCount - before` (`PostSleepCount`).
- The FreeRTOS environment is modelled from its contract, not from source:
  - `RtosTickSource` advances `xTickCount`, or pends the tick while the
    scheduler is suspended;
  - `IdleSuspend`, `IdleNoSleep` and `IdleResume`;
  - `TicklessSleep(k)` advances `xTickCount` by at most the budget, never
    past its wrap.

**Abstractions.**
- A tick with its hook call is one step. The hook's expiry loop is split
  into its iterations, and no other actor runs between them (`in_tick`).
  This is atomicity as on a single core with the tick ISR masking the
  timer's callers.
- Each swtimer call is atomic (its critical section).
- The ms→tick conversion `nl_time_ms_to_delay_time_native` lives outside
  `src/`. It is modelled as its contract, `ceil(ms / ms_per_tick) + 1` (the
  extra tick aligns a start to the next tick boundary).

### `MC_SwTimer` — model-checking instance
- Three timers, given as model values with symmetry.
- `TickBits = 3`, so the count wraps every 8 ticks and a 5 ms timer crosses
  a wrap.
- Start delays {0, 2, 5} ms. The 0 ms start is due on the next tick but
  one (0 ticks plus the alignment tick).
- Restart delays {1, 3} ms. The 1 ms restart is due on the next tick. The
  zero-delay bump at line 238 is reached by no start or restart: the
  conversion adds the alignment tick, so none asks for 0 ticks.
- At most 2 pended ticks.
- `PendPhases` are the idle phases in which FreeRTOS may pend a tick.

### `GpioButton` — debounced buttons composed with `SwTimer` (modelled)
The module instantiates `SwTimer` (`T == INSTANCE SwTimer WITH ...`). The
timer lists are shared by:
- the buttons' debounce timers;
- `Others`, periodic timers of other components whose callbacks restart them.

**Actions.**
- `PinEdge(b)`: the pin toggles. Once `nlgpio_button_init` has requested the
  IRQ, the edge pends it.
- `nlgpio_button_isr(b)`:
  - sets `was_down`;
  - samples the pin into `raw_button`;
  - `DebounceRestart`: cancels, then starts, the debounce timer.
- `nlgpio_button_debounce_handler(b)`: the expiry loop firing the button's
  timer. It runs `prev = debounced; debounced = raw`, then calls the callback
  if the value changed, and returns 0.
- `nlgpio_button_init`:
  - the boot call, and the diagnostics re-init (bounded by `MaxInit`);
  - `nl_swtimer_init` on every debounce timer. It sets `next = NULL`, so each
    list keeps only its prefix up to its first button timer
    (`TruncateAtButton`);
  - sets `debounced_button` and `prev_debounced_button` to the current level.
- `Tick` and `TickDone`: `SwTimer`'s hook.
- `OtherInit`, `OtherStart` and `OtherCallback`: the other components'
  timers.

**Abstractions.**
- The scheduler keeps running, so the idle path is left to `SwTimer`.
- The GPIO ISR is atomic with respect to the tick hook. On FreeRTOS ports
  SysTick has the lowest priority, so it does not preempt the GPIO ISR.
- The ghost `sinceIsr[b]` counts the ticks since the button's last ISR.

`MC_GpioButton` supplies:
- two buttons (symmetric where the run checks only safety);
- one periodic timer;
- a 1 ms debounce at 1 ms per tick;
- up to two edges per button: a press and a bounce, or a press and a
  release;
- at most two calls of `nlgpio_button_init`.

### `SpiIpc` — the SPI IPC master with a model of the slave (modelled)
State:
- `mutex` is `spi_ipc_mutex` (the task that holds it, or `NoTask`);
- `pc[t]` is where task `t` is in a transaction: `arm` (irq registered,
  MRDY about to rise), `wait` (in `ulTaskNotifyTake`), `timedout` (the take
  returned 0, the irq not yet released), `xfer` (clocking);
- `irq` is the SRDY irq registered with the GPIO layer (`none`, `low` for
  `srdy_asserted_isr`, `rising` for `srdy_deasserted_isr`); `mrdy`,
  `notify[t]` (notification count), `sTaskToNotify`, `rx_pending`;
- the slave is `idle`, `req` (SRDY held low with a queued `frame`),
  `prep` (seen MRDY), `ready` (SRDY raised) or `dead` (crashed).

Actions: `nlspi_ipc_send` and `nlspi_ipc_work` take the mutex and register
the rising-edge irq; `Arm` raises MRDY and stores `sTaskToNotify`;
`WaitTake` and `WaitTimeout` are the two returns of `ulTaskNotifyTake`;
`TimeoutCleanup` releases the irq and the mutex on the timeout path;
`Transfer` is the transfer with the length byte (`WorkRx`/`SendRx` are the
second transfer's sizes, `Dispatch` is `check_crc_and_dispatch`), followed
by `ReRegisterLow`, which requests the SRDY-low irq again. The slave's
`SlaveQueue`, `SlavePrep`, `SlaveReady` (the rising edge, which runs
`srdy_deasserted_isr`), `SlaveAbort`, `SlaveCrash` and `SlaveRestart` are
the environment. `srdy_asserted_isr` notifies the worker.

Message content is abstract: a frame is its length byte and whether it
arrives intact. Three timing constants choose which windows a run admits:
`SlowSlave` (the slave may be slower than the SRDY timeout), `LateEdge`
(the edge may fall between the timeout and the irq release) and
`EarlyEdge` (the edge may fall between MRDY and the `sTaskToNotify` store).
A crash is allowed only before the slave raises SRDY; a crash after that is
a slave fault that no master can tell from readiness. The ACK mode
(`NLSPI_IPC_ACK`) is not built in this configuration and is not modelled.

### `RamConsole` — the reset-surviving console log (modelled)
The variables are the fields of `s_ram_console` and of the callback context,
plus `phase` (`rom`, `boot`, `app_pre`, `conv`, `app`), the image's buffer
size `app_size`, the bytes of a write still to copy (`pend`, `wlen`), and
ghost history: `nextByte` numbers every byte written, and `histCur` /
`histPrev` are the bytes written in this boot and the previous one. A
reset keeps `s_ram_console` and clears `.bss` and any write in progress.

`nl_ram_console_write` masks interrupts, so only a reset can come between
its steps. It is split into `WriteChunk` (one pass of the copy loop) and
`WriteEnd` (the clamp of `bytes_written` and `last_bytes_written` and the
watermark callback). The size conversion in `nl_ram_console_init` is split
at the `buf_size` store (line 177): `ConvStart` is the copy out and back,
`ConvFinish` the index fix-up. The run `console` does not reset in that
window (`ResetInConversion = FALSE`); with it TRUE, TLC finds
`IndicesInRange` violated (see below).

`LogsAreTails` is the property that says the log is right: in a settled
state the `bytes_written` bytes before `write_index` are the newest bytes of
this boot, and the `last_bytes_written` bytes before `last_write_index` are
the newest bytes of the previous boot.

### `NlFs` — nlfs files over the nlflash locks and the SPI flash driver (partly modelled)
Two tasks share the external flash. The client (`fs`) holds one
`nlfs_file_t` (`file`: `isOpen`, `mode`, partition, `offset`, `len`,
`currentPos`). The other task stands for getenv, which by the comment at
`nlfs.c:199-203` takes the flash lock and then the CRC lock. The flash lock
(`flOwner`, `flCount`) is the product's lock callback: `fileInit` nests it
(`nlflash_request`, then an `nlflash_read` per ELF chunk), so it is modelled
as a blocking recursive mutex. The CRC lock (`crcOwner`) is the one a
hardware CRC takes in `nlcrc_request`; `CrcLocks = FALSE` is the software
CRC of `nlcrc.c`, which takes none. Flash is a row of cells, each `old`,
`erased` or `data`; the env key `kCurrentImageKey` is `curImage`.

Each nlfs call is one action, except the open of a sub-partition. That open
is split at its lock operations: `SubOpenStart` (fileInit, image selection,
`nlflash_request`), `SubCrcRequest`, `SubSearch` (`elf_find_section_crc`
reading through `readFile`), `SubCrcRelease` and `SubRelease`
(`nlflash_release`, then the section's offset and length). The other task
may instead call `nlflash_read_id` (the request and release of
`nlflash_spi_read_id` under the lock). Each nlflash
operation is lock, driver call, unlock; it is one step, taken when the lock
is free or the task's own.

The driver is `nlflash_spi.c`. Its state is `spi`: the `uint8_t`
`enable_ref` and whether the chip is powered. Which build runs is the
variable `build`, chosen at Init from `Builds`, so one run checks both.
Without `FLASH_SPI_USE_PARTIAL_PAGE_BUFFER` (`direct`):
- `SpiRequest` and `SpiRelease` translate `nlflash_spi_request` and
  `nlflash_spi_release`, arithmetic modulo 256 included.
- A power-up can fail (`PowerUpFails`). Then `enable_ref` is reset to 0.
- Every driver read, erase and write is bracketed by a request and a
  release (`DevCall`). The release runs even when the request failed, as at
  `done:` in the code.
- An erase issues the commands of `ErasePlan`: the bulk erase, or leading
  sub-sectors, whole sectors and trailing sub-sectors.
- A write issues the page programs of `PagePrograms`: a leading partial
  page, whole pages, then a trailing partial page.
- A call that fails stops after the first `k` commands, reports their
  `retlen`, and counts against `MaxFaults`.
- The flush of this build returns 0, so a write-only `nlfs_close` always
  succeeds.

With the partial-page buffer (`buffered`), `cache` is `write_loc`,
`partial_page_index` and the page buffer. Each cached byte is recorded as
the address it was written for; `-1` is the `0xff` fill of
`nlflash_spi_init`.
- `BufWrite` is the buffered `nlflash_spi_write` (577-659), composed of
  one operator per step:
  1. `BufAppendCheck`: a write that does not append to the cache flushes
     it, and sets `write_loc` whatever the flush returned;
  2. `BufCacheHead` and `BufFlushFull`: the head of a page is cached, and
     the cache is flushed when it is full;
  3. `BufPages`: whole pages are programmed, and `write_loc` takes the
     address reached;
  4. `BufCacheTail`: the tail is cached.
- `retlen` counts the cached bytes.
- `SpiFlush` is `nlflash_spi_flush`. It programs the cache from
  `write_loc`'s offset at `write_loc`, and resets the cache only on
  success.
- Either write-internal call can be the one that fails.
- This build issues no request or release, so `spi` does not change.
- `nlfs_close` clears `isOpen` only when the flush succeeded; a failed
  close leaves the file open, and the client may write or close again.
- A page program marks each byte's cell `data` when the byte was meant for
  that cell. It marks the cell `wrong` when the byte was meant for another,
  and leaves it as it was for a `0xff` byte (`Burn`).

The client follows the return values: it uses the file only after an open
that returned `>= 0`, and opens again only after a close that returned
`>= 0`. Ghost variables record that history (`valid`, `opened`), the cells
the last read touched and the page programs of the last write
(`programs`).

### `ResetInfo` — the reset reason and fault record across resets (modelled)
`nlreset_info.c` has two builds, and one run checks both (`build` is chosen
in `Init`):
- **retained**: `g_reset_info` lives in dedicated retained RAM, and its
  `fault_info` is the only copy of a saved fault;
- **temp** (`BUILD_FEATURE_RESET_INFO_IN_TEMP_RAM`): the RAM is overlaid
  once boot is done. `nl_reset_info_init` copies a pending fault to a flash
  partition (`diag`) and then sets the env key `kFaultDiagsDirtyKey`
  (`dirty`).

State: `ri` is `g_reset_info` (magic, reason, and `fi` = the fault
record's reason, registers and description). `stage` is where the CPU is:
the bootloader, the application before init, the three steps of
`save_fault_to_flash`, or the application after init. A fault event is
`[id, kind]`. Its id stands for its registers and, for an assert, its
description; a zeroed field is 0, garbage is -1.

Actions:
- `Fault(k)` is one step, because the code runs it with the scheduler
  stopped:
  1. for an assert, `assert_helper` prepares the reset with reason ASSERT
     and a description;
  2. the trap's `crash_dump` calls `dump_context_to_reset_info`
     (`DumpContext`). The retained build writes registers only over a
     cleared record or an assert's. The description is zeroed when
     `get_reset_reason` is still UNKNOWN;
  3. `nlplatform_reset(HARD_FAULT)` prepares the reset and resets. In
     the bootloader every prepare is `_prepare_reset_bootloader`.

  Kind `wdog` is the pre-watchdog interrupt (`nlfault_pre_watchdog_handler_c`).
  Its crash dump has type WDT. `kCrashTypeToResetReason` maps that to
  WATCHDOG. After the register copy, `dump_watchdog_flags` writes the
  watchdog's flags over the description. The product hook that may ignore
  a pre-watchdog interrupt (`BUILD_FEATURE_PRE_WATCHDOG_ISR_EXTENSION`) is
  left out.
- `StackOverflow` is `nlfault_freertos_stack_overflow_handler_c`, the
  FreeRTOS hook, in an application task. `OverflowDump` is its save: in the
  retained build it writes registers and the "<task> stack overflow"
  description only over a cleared record or an assert's. Unlike
  `DumpContext`, it never zeroes the description. It then calls
  `nlplatform_reset(STACK_OVERFLOW)`.
- `SwReset`, `HwReset` (keeps RAM, announces nothing) and `PowerOn` (RAM
  becomes garbage; flash and env are kept) are the other resets.
- `nl_reset_info_init_retained` and `nl_reset_info_init_temp` model the two
  inits. In the temp build, `SaveErase`, `SaveWrite` and `SaveEnv` are the
  steps of `save_fault_to_flash`. Any of them may fail, and a reset or a
  fault may come between them.
- `nl_reset_info_clear_saved_fault`: the application has processed the
  fault. `Saved` is what `nl_reset_info_get_saved_fault` returns.

Only release builds are modelled: `crash_dump` always resets. The register
copy, backtrace and breadcrumbs are abstracted to the fault id. The DEBUG
print and reason cache are left out. `nlplatform_reset` is implemented
outside `src/`; the model takes it as prepare-then-reset, as `crash_dump`'s
own non-resetting path (line 911) does.

Ghost variables:
- `pending` is the reason the next init must process, by the API's rules:
  the first reason announced, except that a bootloader fault replaces it;
- `hadSaved`: a saved record existed when the fault was announced;
- `failed`: a save step of this boot failed.

### `NlTrace` — the time-stamped event trace (modelled)
`s_trace` is a table of `NL_TRACE_MAX_EVENTS` slots (`MaxEvents`). The
slots are threaded into a doubly linked list by index (`next_ind`,
`prev_ind`, `head_ind`, `tail_ind`), and `INVALID_INDEX = MaxEvents + 1`
is the null link. A slot is free when its name is NULL. An event is
complete when its end stamp is not 0.

Every operation of `nltrace.c` runs under `nlplatform_interrupt_disable`,
so each is one action:
- `nltrace_init`;
- `nltrace_enable(b)`, with `b` from `EnableValues`;
- `nltrace_event_start(c)`: `nltrace_alloc_index_locked`, then
  `nltrace_insert_locked`;
- `nltrace_event_end(c)`, with a stamp from `Stamps`;
- `nltrace_print`: the recursive `nltrace_print_locked`, which removes
  events from the head while their end stamp is set, through the four
  unlink cases of `nltrace_remove_locked`.

The callers (`Ctx`, a task and an ISR) each keep the index their last start
returned. The name a caller passes is its own literal. Init is the
zero-filled static storage, whose links are 0, not `INVALID_INDEX`. Ghost
state: `order` (the occupied slots in start order), `done` (the ends that
were accepted) and `initialized`.

### `IrqTick` — interrupt masking with the tick handler and the button ISR (modelled)
This module composes three parts at the level of the list pointers:
- `int_lock_count` and BASEPRI (`nlplatform_arm_cm3.h`);
- the expiry loop of `nl_swtimer_rtos_tick_handler` and the restart of a
  periodic timer `P` by its callback;
- the button ISR's cancel and start of its debounce timer `D`.

The port raises BASEPRI on tick entry without counting it (`TickEnter`).
`TickLoop` pops due timers. `TickCallback` is `P`'s callback; it may make
an nlplatform-locked call (`CallbackLocks`), after which BASEPRI is
whatever `nlplatform_interrupt_enable` leaves (`MaskAfterLockedCall`).
The restart's `nl_swtimer_insert_locked` is split into two actions:
- `TickInsertWalk`: the walk (264-277);
- `TickInsertLink`: the two stores (280-281).

`GpioIsr` runs only while BASEPRI is clear; the task's nested critical
sections are `TaskEnterCritical` and `TaskExitCritical`. Ticks stay below
the counter wrap, so the overflow list is left out (`SwTimer` models it).

## Runs

| Run | cfg | Expect | Checks |
|---|---|---|---|
| `core` | `MC_SwTimer.cfg` | pass | `TypeOK`, `ExpiryEncodesDeadline`, `NoLateFire`, `NoEarlyFire`, `FireOrder`, with ticks pended only after a sleep (`PendPhases = {"resume"}`) |
| `pend_late` | `MC_SwTimer_pend_late.cfg` | violation | `NoLateFire`, with ticks also pended before `pre_sleep` |
| `button` | `MC_GpioButton.cfg` | pass | `TypeOK`, `DebounceAfterQuiet` (2.3 M states, under 1 min) |
| `button_settle` | `MC_GpioButton_settle.cfg` | pass | `StableButtonSettles` (liveness, no other timers, the boot init only; 164 k states) |
| `button_reinit` | `MC_GpioButton_reinit.cfg` | violation | `PeriodicKeepsRunning` |
| `spi` | `MC_SpiIpc.cfg` | pass | `TypeOK`, `DeliveredIsSent`, `ReceivedEventually`, `MutexReleased` (29 k states, one slave crash and one slow-slave timeout) |
| `spi_late_edge` | `MC_SpiIpc_late_edge.cfg` | violation | `NoClockBeforeReady`, with `LateEdge` |
| `console` | `MC_RamConsole.cfg` | pass | `TypeOK`, `IndicesInRange`, `LogsAreTails` (319 k states, three boots) |
| `fs` | `MC_NlFs.cfg` | pass | `TypeOK`, `ReadsWithinFile`, `ProgramsWithinPage`, `WrittenBytesOnFlash`, `WritesLandErased`, `CallsReturn`, both driver builds (399 k states, 30 s) |
| `reset_info` | `MC_ResetInfo.cfg` | pass | `TypeOK`, `FaultRecorded`, `NoSavedFaultReplaced`, both builds, four fault kinds (39 k states) |
| `trace` | `MC_NlTrace.cfg` | pass | `TypeOK`, `TraceListWellFormed`, `EndedPrintedUnlessStranded` (liveness; disables, zero stamps and enable before init; 69 k states) |
| `tick_unmask` | `MC_IrqTick_unmask.cfg` | violation | `ArmedTimersListed`, with a locked call in a timer callback |

What the properties say:
- `TypeOK`: the types, plus "no timer is linked twice or in both lists".
- `ExpiryEncodesDeadline`: whenever the system is settled, the stored
  absolute `delay` read against the current count gives exactly the true
  ticks left. For the active list that is `delay - count`; for the overflow
  list it is `delay + 2^w - count`. This is the representation invariant
  that wrap, sleep and restart must all keep.
- `NoLateFire`: no pending timer is left past its deadline after a tick.
- `NoEarlyFire`: no callback runs before its requested delay has elapsed.
- `FireOrder`: timers fire in deadline order, and in start order on equal
  deadlines.

`core` explores 2.4 million distinct states to depth 32, in about
1.5 minutes with two workers.

### What `core` shows
Across counter wraps, callbacks that restart themselves, and callbacks that
cancel or start other timers (including the next head), the timer keeps its
representation invariant. It fires every timer exactly at its deadline, in
order. Sleeps clamped by `pre_sleep` never make a timer late. The mutants in
`PROJECT.json` show that each property catches a plausible slip in the code:
- `<=` instead of `<` in the insertion loop;
- zeroing the overflow entries on the merge;
- not clearing the overflow list after the splice;
- no clamp in `pre_sleep`;
- adding the sleep budget instead of the measured ticks in `post_sleep`.

### What the button runs show
- **`DebounceAfterQuiet`**: the debounce handler samples a button only after
  more than the rounded-up debounce interval has passed since its last ISR.
  The start's alignment tick covers an ISR taken mid-tick.
- **`StableButtonSettles`**: once the pin stops changing, the debounced
  state eventually equals the level, and keeps it.
- **`button_reinit`**: a re-init while a debounce timer is pending cuts the
  list behind it. A periodic timer started by another component is dropped
  and never runs again (`nlgpio_button.c:111`, `nlswtimer.c:225`).

### What the violation runs show
The comment at `nlswtimer.c:179-184` expects our count to lead `xTickCount`
only by ticks that FreeRTOS has pended. The violation run starts from this.
- The same setting breaks the assertion at line 185: a tick pended at the
  wrap makes our count wrap to 0 while `xTickCount` is 7, and
  `assert(s_swtimer_tick_count >= before)` fails although no drift
  occurred. `PreSleepAssertionsHold` states it; checked under
  `MC_SwTimer_pend_late.cfg` it fails. It has no run of its own.
- **`pend_late`**: our count leads `xTickCount` by two pended ticks, and a
  timer waits on the overflow list. `pre_sleep` clamps only to
  `s_timer_list`, so the sleep runs to the budget. `post_sleep` then carries
  our count past its wrap with `+=` (line 211). The wrap merge of the tick
  handler never runs, so the overflow timer waits a whole counter period
  more.

The comment at line 206, "the sleep should never span the wrap point", is
true of `xTickCount` but not of our count.

### What the SPI runs show
- **`spi`**: with legal frame lengths and edges that come after
  `sTaskToNotify` is stored and before a timeout, the mutex discipline
  holds on every exit (`MutexReleased`), only frames the slave sent are
  dispatched (`DeliveredIsSent`), and every queued frame is fetched while
  no timeout has happened (`ReceivedEventually`).
- Three properties are stated in `SpiIpc` and checked by no run, because
  the `spi` run's constants make them hold whatever the code does, and
  the constants that exercise them make them fail:
  - `NoClockBeforeReady` needs a stale notification, which only the edge
    windows create (`spi_late_edge` checks it);
  - `IrqRequestedOnce` (no SRDY-low request while an irq is registered,
    line 526) fails in ten steps with `LateEdge = TRUE`: the stale
    notification starts a transfer with the rising-edge irq still
    registered;
  - `RxWithinBuffer` fails with the illegal lengths below.
- Not modelled: the `g_spi_ipc_device.connected()` early return (393),
  which changes nothing, and the transfer error path (`goto done`, 492).
- **`spi_late_edge`**: the edge arrives after the timeout and before the
  irq release (`nlspi_ipc.c:314`); the stale notification lets the next
  transaction clock before its slave is ready.
- Found while modelling and listed as hazards in `PROJECT.json`, each
  with the setting in which TLC finds its property violated:
  - `sTaskToNotify` is stored after MRDY is raised (line 309); a quick
    edge notifies the previous task, which clocks on it
    (`NoClockBeforeReady` with `EarlyEdge = TRUE`);
  - `rx_data_len <= sizeof(rx_buffer)` (line 503) lets a payload one byte
    too long write past `rx_buffer` (`RxWithinBuffer` with a length byte
    of `MAX_IPC_DATA_LEN_FROM_SLAVE + 4`);
  - a length byte of 2 underflows to 255 in both receive paths
    (`RxWithinBuffer` with a length byte of 2);
  - after a timeout no SRDY-low irq is requested, so the slave's later
    requests go unheard (`ReceivedEventually` without its
    `timeouts = 0` guard).

### What the console runs show
- **`console`**: across resets anywhere outside the conversion, wrapping
  writes, and app images that grow or shrink the buffer, the indices stay
  inside the buffer and both logs are exactly the newest bytes of their
  boots.
- The conversion stores the new `buf_size` before it fixes the indices
  (line 177). A reset in between, shrinking 3 to 2, leaves
  `bytes_written = 3 > buf_size = 2`, and the next init sees equal sizes
  and keeps it. With `ResetInConversion = TRUE` in `MC_RamConsole.cfg`,
  TLC finds `IndicesInRange` violated. It has no run of its own; the
  hazards list records it.

### What the flash runs show
- **`fs`**: the run has one failed driver command anywhere: an erase
  sub-sector, a page program, a read, or an ELF search read. It shows:
  - the erase plan covers a partition that starts and ends off a sector
    boundary exactly, so every write lands on erased cells
    (`WritesLandErased`);
  - no page program crosses a page, at any position the client reaches
    (`ProgramsWithinPage`);
  - reads stay inside the opened file (`ReadsWithinFile`);
  - the flash-then-CRC lock order of a sub-partition open never deadlocks
    with getenv (`CallsReturn`).
  - in the buffered build, every byte `nlfs_write_cb` was told was
    written is on flash at its own address once a close succeeds
    (`WrittenBytesOnFlash`). That includes a flush at a page end or in
    `nlfs_close` that fails and is retried by the next write or close.
- `RefCounted` states that `enable_ref` counts the outstanding
  requests and the chip is on exactly while it is positive. No run
  checks it: with the chip always powering up, every driver call is a
  matched request and release. A power-up failure breaks it, a code bug
  reproduced with `PowerUpFails = TRUE` in `MC_NlFs.cfg`. The first driver call, here the erase of a write-only open,
  fails to power the chip up.
  `nlflash_spi_request` resets `enable_ref` to 0. `nlflash_spi_erase`
  (437, 538) still calls `nlflash_spi_release`, whose
  `nlASSERT(enable_ref > 0)` fails. Without asserts, `enable_ref` wraps to
  255 and the chip is never powered down again. Read and write have the
  same `done:` path. `nlfs.c:204` ignores a failed `nlflash_request` and
  releases anyway.
- `IsOpenMatchesOpened` states that `nlfs_is_open` tells the truth. Checked
  with `MC_NlFs.cfg`, it fails in one step: `fileInit` marks the file open
  (`nlfs.c:152`) before a write-only open of a read-only partition is
  refused. A read-only `nlfs_close` also leaves the file open (364-371).
  The property has no run of its own; the hazards list records it.

- Two paths of the buffered build are not checked by the run, and the
  hazards list records them:
  - it programs without `nlflash_spi_request`, so the chip may be
    powered down and the bus not taken;
  - a failed flush at a write that does not append still moves
    `write_loc` (588), so the old cached bytes are later programmed at the
    new page or dropped. The one nlfs client never writes elsewhere while
    bytes are cached, so `fs` does not reach this. A second writer of the
    device would, such as `save_fault_to_flash`.

### What the trace run shows
- **`trace`**: two callers start, end and print events in any order over
  a table of three slots. The table fills, events end out of start order,
  tracing may be enabled before init and disabled at any time, and an end
  may read 0 from `nltimer_elapsed` (`Stamps = {0, 1, 2}`,
  `EnableValues = {TRUE, FALSE}`, `EnableBeforeInit = TRUE`). It shows:
  - `TraceListWellFormed`: after init, the list from `head_ind` is exactly
    the occupied slots in start order, `prev_ind` mirrors it, and
    `tail_ind` is its last slot;
  - `EndedPrintedUnlessStranded`: after init, an event whose end was
    stamped is eventually printed and its slot freed, unless it or an
    event before it in the list is stranded: taken, with an end stamp of
    0, and held by no caller. Print stops at the first stamp of 0
    (line 138), so a stamp of 0 or an end refused while tracing is
    disabled blocks every later event, and nothing else may.
- The unconditional form (every ended event is printed) fails in this
  run. Before `nltrace_init`, enabling the trace on the zero-filled table
  makes slot 0 look linked and print stalls; nothing obliges init to come,
  so that stall is not checked (the hazards list records it).

### What `tick_unmask` shows
**`tick_unmask`** (a code bug): `P`'s callback makes a locked call, and
the `nlplatform_interrupt_enable` at its end clears BASEPRI in the
middle of the tick ISR. The GPIO ISR then cancels and restarts `D` between
the restart walk of `P` and its stores. The stores write the link that the
walk read before `D` moved, so `D` is cut from `s_timer_list` and never
fires. TLC finds `ArmedTimersListed` violated 6 steps after the first tick.
Without `CallbackLocks` the property holds.

### What the reset-info run shows
- **`reset_info`**, for both builds:
  - `FaultRecorded`: after init, `get_saved_fault` returns the fault the
    API promised to keep. That holds through nested faults, bootloader
    faults, resets and faults in the middle of `save_fault_to_flash`, and
    the retry on the next boot. The exceptions are a record already
    waiting, or a failed flash step;
  - `NoSavedFaultReplaced`: before the application clears it, only a
    bootloader fault or power loss changes a saved fault.
- The run sets `EarlyResets` FALSE. The retained build loses faults when a
  reason is announced on a cold boot before init, as a software reset by
  the bootloader or a fault before `nl_reset_info_init` would. Init then
  sees a valid magic and keeps the power-on `fault_info`, whose reason is
  not UNKNOWN (random, or 0 = UNSPECIFIED). `nl_reset_info_set` (269) and
  the dump guard (fault.c:624) then refuse every fault until the
  application clears a record it was never shown. With `EarlyResets`
  TRUE and `Builds = {"retained"}`, TLC finds `FaultRecorded` violated in
  seven steps.
- A saved record can hold two faults' data:
  - an uncleared assert takes a later hard fault's registers (fault.c:624);
  - a bootloader fault keeps a pending assert's description
    (nlreset_info.c:192);
  - in the retained build, a bootloader fault over an uncleared
    application hard fault, or over power-on garbage, skips the dump but
    still overrides the reason (nlreset_info.c:270-272). The saved fault
    then carries older or garbage registers;
  - in the temp build, a fault during the save overwrites the pending
    fault's registers.

  `SavedRegsNotOlder` states that a saved fault's registers are its own or
  a later fault's. With `INVARIANT SavedRegsNotOlder` in
  `MC_ResetInfo.cfg`, TLC finds the bootloader path. No run checks it,
  because every path above breaks it; the hazards list records them.

## Fairness
`SwTimer` checks only safety and assumes no fairness. Its callers are
external, and nothing in the code obliges them to act.

`GpioButton.Spec` assumes:
- weak fairness of the tick, because SysTick is periodic;
- weak fairness of the expiry loop's steps, because the handler runs its
  loop to the end;
- strong fairness of each button's ISR. A GPIO interrupt pended in the NVIC
  stays latched while the tick handler masks it, and is taken once it is
  unmasked.

Pin edges, calls of `nlgpio_button_init` and the other components' calls are
not fair, and they are bounded.

`SpiIpc.Spec` assumes weak fairness of each task's steps once it holds the
mutex (the task runs its function to the end), of the worker's start once
a request is pending and the mutex is free (the worker task waits on it),
of the GPIO ISR (a latched edge is taken), and of the slave's prepare,
ready, abort and restart steps (the slave firmware answers MRDY). Crashes,
queued frames and new sends are not fair, and they are bounded.

`RamConsole`, `ResetInfo` and `IrqTick` check only safety.

`NlTrace.Spec` assumes weak fairness of each caller's `nltrace_event_end`
(a caller ends what it started) and of `nltrace_print` (the product prints
the trace from a periodic task). Starts, enables and inits are not fair.

`NlFs.Spec` assumes weak fairness of the steps of an open of a
sub-partition and of getenv once started: a task that holds or waits on a
blocking lock is scheduled whenever the lock is free. New calls are not
fair, so the tasks may stop, and the cfg does not check deadlock; a
deadlock would show as a `CallsReturn` violation.

## Bounds
- A 3-bit count is the smallest width at which:
  - a start lands on the overflow list;
  - a restart from a callback wraps;
  - a sleep of several ticks fits before the wrap.
- The properties speak of differences modulo 2^w, so nothing in them depends
  on the width.
- Three timers are enough for a fired timer, a tie, and a third timer that
  the callback cancels or starts.
- `GpioButton`: two buttons and two edges. The `button` run allows one
  diagnostics re-init after boot. The liveness run `button_settle` has no
  other timers and only the boot init: a re-init is a safety question
  (`button_reinit`), and without it a debounce that never settles still
  shows within two edges.

- `SpiIpc`: one sender and the worker, payload lengths 0 and 1, two sends,
  two slave frames, one crash and one timeout. The buffer is the real 244
  bytes: the model keeps sizes as numbers, not bytes.
- `RamConsole`: a 3-byte bootloader buffer and app buffers of 2, 3 and 4
  bytes, scratch buffers of 1 and 4, writes of 1 and 3 bytes, six bytes in
  all over three boots. A write of 3 into a 2- or 3-byte buffer wraps;
  the sizes cover growing, shrinking and equal images, a scratch smaller
  than the log, and a last log clamped by the current one.

- `NlFs`: nine cells, with sub-sectors of one cell and sectors and pages of
  two. The partitions are:
  - a read-only boot cell;
  - a four-cell data partition at offset 1, whose erase needs a leading
    sub-sector, a sector and a trailing sub-sector;
  - two two-cell images, each with sections of one cell at either end.

  Reads and writes are of 1, 2 and 3 cells. A 3-cell write at an odd
  address is a partial page followed by a whole page. Seeks are by 1 and by
  15 in a 4-bit position; 15 is the wrapping backward seek. The client
  makes six calls, plus one getenv and one driver failure. That is enough
  to open, fail, reopen, write across a page and a short write, read to the
  end and close.

- `NlTrace`: three slots and two callers, enough for a full table (a
  start that gets `INVALID_INDEX`), an end out of order, and the unlink
  cases print reaches (it removes only the head: the sole event, or the
  head of a longer list).
- `IrqTick`: two timers, four ticks, two edges and critical sections
  nested twice. The run stops at the first violation.

- `ResetInfo`: three faults of any of the four kinds and six resets, with resets
  that keep RAM and failing flash steps. That is enough for a fault over an
  uncleared record, a bootloader fault after an application fault, a
  nested fault or a reset inside each save step followed by the retry, and
  power loss.

## Not modelled yet, and the plan
In order of importance:
1. **An abstract timer**: a set of pending timers with deadlines. `SwTimer`
   will be shown to refine it (`INSTANCE ... WITH`, mapping both lists to
   that set).
2. **A second writer of the flash device** in `NlFs`: the fault save of
   `nlreset_info.c`. It would reach the buffered build's `write_loc`
   overwrite after a failed flush.
3. The `NL_FEATURE_SIMULATEABLE_HW` build of `nlgpio_button.c`.

Register-level drivers, the register and backtrace copy of fault dumps, profiling, watchpoints, the MPU, the
compiler runtime and stubs have no protocol state to check (see
`PROJECT.json`, "components").

`nltime.c` converts 64-bit nanosecond counts with 64-bit fixed-point
multiplies. Its overflow edges lie at widths TLC's integers cannot reach,
and a scaled-down width would not check the code's constants.
`nlprofile.c` samples the program counter into a buffer, and nothing in
`src/` calls it.
