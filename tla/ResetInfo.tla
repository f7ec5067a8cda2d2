----------------------------- MODULE ResetInfo -----------------------------
(***************************************************************************)
(* The reset reason and fault record that survive a reset: g_reset_info of *)
(* src/src/nlreset_info.c and its writers on the fault path.               *)
(*                                                                         *)
(* Two builds share the API.  In the "retained" build g_reset_info lives   *)
(* in dedicated retained RAM and fault_info is the backing store.  In the  *)
(* "temp" build (BUILD_FEATURE_RESET_INFO_IN_TEMP_RAM) the RAM is overlaid *)
(* after boot, so nl_reset_info_init copies a pending fault to an external *)
(* flash partition and marks it with the env key kFaultDiagsDirtyKey.      *)
(*                                                                         *)
(* A fault is one atomic step, as the code runs it with the scheduler      *)
(* stopped: for an assert, assert_helper (nlfault.c) prepares the reset    *)
(* with reason ASSERT and a file:line description and traps; crash_dump    *)
(* (cortex-m0/fault.c) copies the registers to fault_info through          *)
(* dump_context_to_reset_info and resets through nlplatform_reset(HARD_    *)
(* FAULT), which prepares the reset and resets the chip.  In the           *)
(* bootloader every prepare is the _bootloader variant (linker alias).     *)
(*                                                                         *)
(* A fault event is [id, kind]; its id also stands for its registers and,  *)
(* for an assert, its description.  0 in regs or desc is a zeroed field,   *)
(* -1 a garbage one; a garbage reason that reads as a valid fault has id 0.*)
(***************************************************************************)
EXTENDS Integers

CONSTANTS
    Builds,        \* the builds checked: a subset of {"retained", "temp"}
    Kinds,         \* fault kinds: "assert" (assert_helper), "hard" (crash_dump),
                   \* "wdog" (crash_dump from the pre-watchdog interrupt) and
                   \* "overflow" (the FreeRTOS stack overflow hook)
    MaxFaults,     \* fault events in a behaviour
    MaxResets,     \* resets of any kind in a behaviour
    HwResets,      \* resets that keep RAM but skip nlplatform_reset (pin, watchdog)
    EarlyResets,   \* a reset is announced before nl_reset_info_init: the bootloader
                   \* resets by software, or the application faults before init
    FlashFails     \* nlflash_erase, nlflash_write and nl_env_set may fail

VARIABLES
    build,     \* the build, fixed for a behaviour
    ri,        \* g_reset_info: [magic, rsn (reset_reason), fi (fault_info)]
    stage,     \* "boot", "app_pre" (before nl_reset_info_init), "erase",
               \* "write", "env" (inside save_fault_to_flash), "app"
    diag,      \* the fault-diags flash partition (temp build)
    dirty,     \* kFaultDiagsDirtyKey exists in the env (temp build)
    faults,    \* fault events so far (ids are 1..faults)
    resets,    \* resets so far
    pending,   \* ghost: the reason the next init must process, by the API rules
    hadSaved,  \* ghost: a saved fault existed when pending became a fault
    failed     \* ghost: a flash or env operation of this boot's save failed

vars == <<build, ri, stage, diag, dirty, faults, resets, pending, hadSaved, failed>>

\* A reason is [id, kind]; only the faults' carry an id.
Rsn(k) == [id |-> 0, kind |-> k]

Unknown == Rsn("unknown")

None == [id |-> -1, kind |-> "none"]

FaultRsns == [id : 0..MaxFaults, kind : Kinds]

Reasons == {Unknown, Rsn("sw"), Rsn("garbage")} \cup FaultRsns

\* IS_VALID_FAULT_REASON
IsFault(r) == r \in FaultRsns

Recs == [rsn : Reasons, regs : -1..MaxFaults, desc : -1..MaxFaults]

\* Flash or RAM contents that are no record (erased, half written, random).
GarbageRec == [rsn |-> Rsn("garbage"), regs |-> -1, desc |-> -1]

\* RAM after power-on or after the overlay of init_done: any contents; the
\* magic matching NL_RESET_INFO_MAGIC by chance is left out.
GarbageRams ==
  [magic : {FALSE}, rsn : {Rsn("garbage")},
   fi : {[GarbageRec EXCEPT !.rsn = r]
           : r \in {Rsn("garbage"), Unknown} \cup [id : {0}, kind : Kinds]}]

\* nl_reset_info_clear_saved_fault, retained build: memset and UNKNOWN.
ClearedFi == [rsn |-> Unknown, regs |-> 0, desc |-> 0]

\* nl_reset_info_set of the temp build: fault_info is only a cache, so its
\* reason is reset; d = 0 is a NULL description.
SetTemp(s, r, d) ==
  [magic |-> TRUE, rsn |-> r,
   fi |-> IF IsFault(r)
            THEN [s.fi EXCEPT !.rsn = Unknown, !.desc = IF d # 0 THEN d ELSE @]
            ELSE s.fi]

\* Mutant: the retained build's set overrides an uncleared record always.
SetRetained_override(s, r, d, override) ==
  [magic |-> TRUE, rsn |-> r,
   fi |-> IF IsFault(r)
            THEN [s.fi EXCEPT !.rsn = r, !.desc = IF d # 0 THEN d ELSE @]
            ELSE s.fi]

\* nl_reset_info_set of the retained build: a fault is written to
\* fault_info only over a cleared record, or on override.
SetRetained(s, r, d, override) ==
  [magic |-> TRUE, rsn |-> r,
   fi |-> IF IsFault(r) /\ (s.fi.rsn = Unknown \/ override)
            THEN [s.fi EXCEPT !.rsn = r, !.desc = IF d # 0 THEN d ELSE @]
            ELSE s.fi]

Set(s, r, d, override) ==
  IF build = "temp" THEN SetTemp(s, r, d) ELSE SetRetained(s, r, d, override)

\* nl_reset_info_prepare_reset: a nested call keeps the first reason.
Prepare(s, r, d) == IF ~s.magic THEN Set(s, r, d, FALSE) ELSE s

\* nl_reset_info_prepare_reset_bootloader: a fault always replaces.
PrepareBootloader(s, r, d) == IF ~s.magic \/ IsFault(r) THEN Set(s, r, d, TRUE) ELSE s

PrepareIn(st, s, r, d) ==
  IF st = "boot" THEN PrepareBootloader(s, r, d) ELSE Prepare(s, r, d)

\* nl_reset_info_get_reset_reason
GetResetReason(s) == IF s.magic /\ s.rsn # Rsn("garbage") THEN s.rsn ELSE Unknown

\* dump_watchdog_flags_default: nlwatchdog_log_flags writes the watchdog's
\* flags over the description.
dump_watchdog_flags(s, id) == [s EXCEPT !.fi.desc = id]

\* dump_context_to_reset_info_default, for crash_dump's reset reason r: the
\* retained build saves only over a cleared record or an assert's; the
\* description is zeroed when no reason is set yet, and a watchdog's then
\* takes its flags.
DumpContext(s, id, r) ==
  IF build = "temp" \/ s.fi.rsn = Unknown
       \/ (IsFault(s.fi.rsn) /\ s.fi.rsn.kind = "assert")
    THEN LET d == [s EXCEPT !.fi.regs = id,
                     !.fi.desc = IF GetResetReason(s) = Unknown THEN 0 ELSE @]
         IN  IF r.kind = "wdog" THEN dump_watchdog_flags(d, id) ELSE d
    ELSE s

\* The save of nlfault_freertos_stack_overflow_handler_c: in the retained
\* build only over a cleared record or an assert's, as the dump above; the
\* registers and the "<task> stack overflow" description are written, and
\* the reason is left to the reset.
OverflowDump(s, id) ==
  IF build = "temp" \/ s.fi.rsn = Unknown
       \/ (IsFault(s.fi.rsn) /\ s.fi.rsn.kind = "assert")
    THEN [s EXCEPT !.fi.regs = id, !.fi.desc = id]
    ELSE s

\* The reason of the record nl_reset_info_get_saved_fault returns, or None.
Saved ==
  IF build = "retained"
    THEN IF IsFault(ri.fi.rsn) THEN ri.fi.rsn ELSE None
    ELSE IF dirty /\ IsFault(diag.rsn) THEN diag.rsn ELSE None

\* The API's promise for the reason the next boot processes: the first one
\* announced, except that a bootloader fault replaces it.
Announce(p, r, st) == IF p = None \/ (st = "boot" /\ IsFault(r)) THEN r ELSE p

-----------------------------------------------------------------------------
(* Resets.  Every reset restarts in the bootloader.                        *)

Restart == stage' = "boot" /\ resets' = resets + 1

\* A fault: assert_helper's prepare (assert only), crash_dump's
\* dump_context_to_reset_info, then nlplatform_reset with the reason of
\* kCrashTypeToResetReason: WATCHDOG for the pre-watchdog interrupt's WDT
\* crash type, HARD_FAULT for the rest.
Fault(k) ==
  /\ faults < MaxFaults /\ resets < MaxResets
  /\ stage = "app_pre" => EarlyResets
  /\ LET id == faults + 1
         a  == [id |-> id, kind |-> "assert"]
         h  == [id |-> id, kind |-> IF k = "wdog" THEN "wdog" ELSE "hard"]
         s1 == IF k = "assert" THEN PrepareIn(stage, ri, a, id) ELSE ri
         p1 == IF k = "assert" THEN Announce(pending, a, stage) ELSE pending
     IN /\ ri' = PrepareIn(stage, DumpContext(s1, id, h), h, 0)
        /\ pending' = Announce(p1, h, stage)
  /\ hadSaved' = IF pending' # pending THEN Saved # None ELSE hadSaved
  /\ faults' = faults + 1
  /\ Restart
  /\ UNCHANGED <<build, diag, dirty, failed>>

\* The FreeRTOS stack overflow hook, in a task of the application: the
\* save, then nlplatform_reset(NL_RESET_REASON_STACK_OVERFLOW).
StackOverflow ==
  /\ "overflow" \in Kinds
  /\ stage \in {"app_pre", "app"} /\ faults < MaxFaults /\ resets < MaxResets
  /\ stage = "app_pre" => EarlyResets
  /\ LET id == faults + 1
         o  == [id |-> id, kind |-> "overflow"]
     IN /\ ri' = Prepare(OverflowDump(ri, id), o, 0)
        /\ pending' = Announce(pending, o, stage)
  /\ hadSaved' = IF pending' # pending THEN Saved # None ELSE hadSaved
  /\ faults' = faults + 1
  /\ Restart
  /\ UNCHANGED <<build, diag, dirty, failed>>

\* nlplatform_reset(NL_RESET_REASON_SW_REQUESTED) from the app or, where the
\* bootloader does so, from the bootloader.
SwReset ==
  /\ stage \in {"boot", "app"} /\ resets < MaxResets
  /\ stage = "boot" => EarlyResets
  /\ ri' = PrepareIn(stage, ri, Rsn("sw"), 0)
  /\ pending' = Announce(pending, Rsn("sw"), stage)
  /\ Restart
  /\ UNCHANGED <<build, diag, dirty, faults, hadSaved, failed>>

\* A reset that keeps RAM and announces nothing.
HwReset ==
  /\ HwResets /\ resets < MaxResets
  /\ Restart
  /\ UNCHANGED <<build, ri, diag, dirty, faults, pending, hadSaved, failed>>

\* Power loss: RAM is lost, flash and env are kept.
PowerOn ==
  /\ resets < MaxResets
  /\ ri' \in GarbageRams
  /\ pending' = None
  /\ Restart
  /\ UNCHANGED <<build, diag, dirty, faults, hadSaved, failed>>

\* The bootloader starts the application.
JumpToApp ==
  /\ stage = "boot"
  /\ stage' = "app_pre"
  /\ failed' = FALSE
  /\ UNCHANGED <<build, ri, diag, dirty, faults, resets, pending, hadSaved>>

-----------------------------------------------------------------------------
(* nl_reset_info_init and save_fault_to_flash.                             *)

\* The tail of nl_reset_info_init: magic = 0, then init_done, after which
\* the temp build's RAM belongs to another section.
InitDone(s) ==
  /\ IF build = "temp" THEN ri' \in GarbageRams
                       ELSE ri' = [s EXCEPT !.magic = FALSE]
  /\ stage' = "app"
  /\ pending' = None

nl_reset_info_init_retained ==
  /\ stage = "app_pre" /\ build = "retained"
  /\ InitDone(IF ri.magic THEN ri ELSE [ri EXCEPT !.rsn = Unknown, !.fi = ClearedFi])
  /\ UNCHANGED <<build, diag, dirty, faults, resets, hadSaved, failed>>

\* Mutant: magic is cleared before the save instead of after it.
nl_reset_info_init_temp_magicFirst ==
  /\ stage = "app_pre" /\ build = "temp"
  /\ LET s == IF ri.magic THEN ri
                ELSE [ri EXCEPT !.rsn = Unknown, !.fi.rsn = Unknown]
     IN IF ri.magic /\ IsFault(ri.rsn) /\ ~dirty
          THEN /\ ri' = [s EXCEPT !.fi.rsn = s.rsn, !.magic = FALSE]
               /\ stage' = "erase"
               /\ UNCHANGED pending
          ELSE InitDone(s)
  /\ UNCHANGED <<build, diag, dirty, faults, resets, hadSaved, failed>>

\* Temp build: a pending fault starts save_fault_to_flash unless the env
\* says the partition holds an unprocessed record.
nl_reset_info_init_temp ==
  /\ stage = "app_pre" /\ build = "temp"
  /\ LET s == IF ri.magic THEN ri
                ELSE [ri EXCEPT !.rsn = Unknown, !.fi.rsn = Unknown]
     IN IF ri.magic /\ IsFault(ri.rsn) /\ ~dirty
          THEN /\ ri' = [s EXCEPT !.fi.rsn = s.rsn]
               /\ stage' = "erase"
               /\ UNCHANGED pending
          ELSE InitDone(s)
  /\ UNCHANGED <<build, diag, dirty, faults, resets, hadSaved, failed>>

SaveErase ==
  /\ stage = "erase"
  /\ \/ /\ diag' = GarbageRec /\ stage' = "write"
        /\ UNCHANGED <<ri, pending, failed>>
     \/ /\ FlashFails /\ diag' = GarbageRec /\ failed' = TRUE
        /\ InitDone(ri)
  /\ UNCHANGED <<build, dirty, faults, resets, hadSaved>>

\* Mutant: the write copies all of g_reset_info, not its fault_info.
SaveWrite_wholeInfo ==
  /\ stage = "write"
  /\ \/ /\ diag' = ri /\ stage' = "env"
        /\ UNCHANGED <<ri, pending, failed>>
     \/ /\ FlashFails /\ diag' = GarbageRec /\ failed' = TRUE
        /\ InitDone(ri)
  /\ UNCHANGED <<build, dirty, faults, resets, hadSaved>>

SaveWrite ==
  /\ stage = "write"
  /\ \/ /\ diag' = ri.fi /\ stage' = "env"
        /\ UNCHANGED <<ri, pending, failed>>
     \/ /\ FlashFails /\ diag' = GarbageRec /\ failed' = TRUE
        /\ InitDone(ri)
  /\ UNCHANGED <<build, dirty, faults, resets, hadSaved>>

SaveEnv ==
  /\ stage = "env"
  /\ \/ dirty' = TRUE /\ UNCHANGED failed
     \/ FlashFails /\ failed' = TRUE /\ UNCHANGED dirty
  /\ InitDone(ri)
  /\ UNCHANGED <<build, diag, faults, resets, hadSaved>>

\* The application has processed the saved fault.
nl_reset_info_clear_saved_fault ==
  /\ stage = "app"
  /\ IF build = "temp" THEN dirty' = FALSE /\ UNCHANGED ri
                       ELSE ri' = [ri EXCEPT !.fi = ClearedFi] /\ UNCHANGED dirty
  /\ UNCHANGED <<build, stage, diag, faults, resets, pending, hadSaved, failed>>

Init ==
  /\ build \in Builds
  /\ ri \in GarbageRams
  /\ stage = "boot"
  /\ diag = GarbageRec
  /\ dirty = FALSE
  /\ faults = 0 /\ resets = 0
  /\ pending = None /\ hadSaved = FALSE /\ failed = FALSE

Next ==
  \/ \E k \in Kinds \ {"overflow"} : Fault(k)
  \/ StackOverflow
  \/ SwReset \/ HwReset \/ PowerOn \/ JumpToApp
  \/ nl_reset_info_init_retained \/ nl_reset_info_init_temp
  \/ SaveErase \/ SaveWrite \/ SaveEnv
  \/ nl_reset_info_clear_saved_fault

Spec == Init /\ [][Next]_vars

-----------------------------------------------------------------------------
(* The state's types. *)
TypeOK ==
  /\ build \in {"retained", "temp"}
  /\ ri \in [magic : BOOLEAN, rsn : Reasons, fi : Recs]
  /\ stage \in {"boot", "app_pre", "erase", "write", "env", "app"}
  /\ diag \in Recs
  /\ dirty \in BOOLEAN
  /\ faults \in 0..MaxFaults /\ resets \in 0..MaxResets
  /\ pending \in {None} \cup Reasons
  /\ hadSaved \in BOOLEAN /\ failed \in BOOLEAN

(* A fault is recorded: when nl_reset_info_init finishes after a reset      *)
(* that announced a fault (the first one, or the last bootloader one), the  *)
(* record nl_reset_info_get_saved_fault returns carries that fault, unless  *)
(* an unprocessed record already held the place or the flash failed.  It    *)
(* spans a fault, resets and crashes in the middle of save_fault_to_flash   *)
(* and the retry of the next boot.                                          *)
FaultRecorded ==
  [][ (stage # "app" /\ stage' = "app" /\ IsFault(pending))
        => \/ Saved' = pending
           \/ hadSaved
           \/ failed' ]_vars

(* A saved fault is never replaced by another before the application has   *)
(* cleared it: neither nested faults, nor set's fault_info guard, nor the   *)
(* dirty check of save_fault_to_flash lets the application overwrite it.    *)
(* Only a bootloader fault (prepare_reset_bootloader overrides by design)    *)
(* and power loss (garbage RAM) change it.                                  *)
NoSavedFaultReplaced ==
  [][ (Saved # None /\ Saved' # None /\ Saved' # Saved)
        => stage = "boot" \/ Saved'.id = 0 ]_vars

(* The saved record's registers come from the fault its reason names or  *)
(* from a later one, never from an older fault: dump_context_to_reset_info *)
(* and nl_reset_info_set decide separately whether to write fault_info.    *)
SavedRegsNotOlder ==
  Saved # None /\ Saved.id > 0 =>
    (IF build = "retained" THEN ri.fi.regs ELSE diag.regs) >= Saved.id

=============================================================================
