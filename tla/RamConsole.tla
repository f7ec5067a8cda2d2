----------------------------- MODULE RamConsole -----------------------------
(***************************************************************************)
(* The persistent RAM console of src/src/nlram_console.c across boots.     *)
(*                                                                         *)
(* s_ram_console lives in a RAM section that survives a reset; the         *)
(* callback context is ordinary .bss and is cleared on every boot.  Each   *)
(* boot runs the bootloader (nl_ram_console_init_bootloader, then its      *)
(* output), jumps to the app (output, nl_ram_console_init, enable,         *)
(* output), and may be reset at any point, including between the chunks   *)
(* of one nl_ram_console_write and between the two halves of the buffer   *)
(* size conversion in nl_ram_console_init.  A software update may install  *)
(* an app whose RAM_CONSOLE_BUF_SIZE differs from the one in RAM.          *)
(*                                                                         *)
(* Every byte written is a distinct number, so the logs the indices        *)
(* describe can be compared with what was really written: histCur holds    *)
(* the bytes written since the bootloader last started a log, histPrev     *)
(* the bytes of the log before it.  Index 0 of buf holds "never written".  *)
(***************************************************************************)
EXTENDS Integers, Sequences, FiniteSets

CONSTANTS
    BootSize,       \* the bootloader's RAM_CONSOLE_BUF_SIZE
    AppSizes,       \* RAM_CONSOLE_BUF_SIZE of the app images that may run
    ScratchSizes,   \* aScratchBufSize the app may pass to nl_ram_console_init
    WriteLens,      \* lengths of nl_ram_console_write calls
    Watermarks,     \* aWatermark values of nl_ram_console_register_callback
    MaxBytes,       \* bound on the bytes written over the whole behaviour
    MaxBoots,       \* bound on resets
    ResetInConversion \* a reset may fall inside the size conversion

ASSUME /\ BootSize \in Nat \ {0} /\ AppSizes \subseteq Nat \ {0}
       /\ ResetInConversion \in BOOLEAN

MaxSize == LET S == AppSizes \cup {BootSize}
           IN  CHOOSE m \in S : \A x \in S : x <= m

Phases == {"rom", "boot", "app_pre", "conv", "app"}

VARIABLES
    magic, write_index, bytes_written, last_write_index, last_bytes_written,
    buf_size, enabled, buf,                          \* s_ram_console
    cb_watermark, cb_bytes, cb_on,                   \* s_ram_console_cb_ctx
    phase,          \* where the boot is
    app_size,       \* RAM_CONSOLE_BUF_SIZE of the app image installed
    pend,           \* bytes of the current write not yet copied
    wlen,           \* orig_len of the current write, 0 when none
    conv,           \* locals carried across the size conversion
    nextByte, histCur, histPrev, boots

console == <<magic, write_index, bytes_written, last_write_index,
             last_bytes_written, buf_size, enabled, buf>>
cbctx == <<cb_watermark, cb_bytes, cb_on>>
ghost == <<nextByte, histCur, histPrev>>
vars == <<console, cbctx, phase, app_size, pend, wlen, conv, ghost, boots>>

MinOf(a, b) == IF a < b THEN a ELSE b

\* The n bytes of buf that end just before index e, oldest first.
Region(e, n) == [i \in 1..n |-> buf[(e - n + i - 1) % buf_size]]

\* The newest n elements of s.
Newest(s, n) == SubSeq(s, Len(s) - n + 1, Len(s))

NoConv == [btp |-> 0, bw |-> 0, last |-> 0]

-----------------------------------------------------------------------------
(* Cold boot: persistent RAM holds garbage and the magic does not match.   *)
Init ==
    /\ magic = FALSE
    /\ write_index = 0 /\ bytes_written = 0
    /\ last_write_index = 0 /\ last_bytes_written = 0
    /\ buf_size = BootSize /\ enabled = FALSE
    /\ buf = [i \in 0..(MaxSize - 1) |-> 0]
    /\ cb_watermark = 0 /\ cb_bytes = 0 /\ cb_on = FALSE
    /\ phase = "rom" /\ app_size \in AppSizes
    /\ pend = 0 /\ wlen = 0 /\ conv = NoConv
    /\ nextByte = 0 /\ histCur = <<>> /\ histPrev = <<>> /\ boots = 0

\* init_ram_console with this image's RAM_CONSOLE_BUF_SIZE
init_ram_console(size) ==
    /\ magic' = TRUE
    /\ last_bytes_written' = 0 /\ last_write_index' = 0
    /\ bytes_written' = 0 /\ write_index' = 0
    /\ cb_watermark' = 0 /\ cb_bytes' = 0 /\ cb_on' = FALSE
    /\ buf_size' = size
    /\ histCur' = <<>> /\ histPrev' = <<>>

Idle == pend = 0 /\ wlen = 0

nl_ram_console_init_bootloader_noZero ==
    /\ phase = "rom"
    /\ IF magic
         THEN /\ last_bytes_written' = bytes_written
              /\ last_write_index' = write_index
              /\ histPrev' = histCur /\ histCur' = <<>>
              /\ UNCHANGED <<magic, write_index, bytes_written, buf_size,
                             cbctx>>
         ELSE init_ram_console(BootSize)
    /\ enabled' = TRUE
    /\ phase' = "boot"
    /\ UNCHANGED <<buf, app_size, pend, wlen, conv, nextByte, boots>>

\* The bootloader pushes the current log to "last" and starts a new one
\* at the same write_index, or initialises the console on a cold boot.
nl_ram_console_init_bootloader ==
    /\ phase = "rom"
    /\ IF magic
         THEN /\ last_bytes_written' = bytes_written
              /\ last_write_index' = write_index
              /\ bytes_written' = 0
              /\ histPrev' = histCur /\ histCur' = <<>>
              /\ UNCHANGED <<magic, write_index, buf_size, cbctx>>
         ELSE init_ram_console(BootSize)
    /\ enabled' = TRUE
    /\ phase' = "boot"
    /\ UNCHANGED <<buf, app_size, pend, wlen, conv, nextByte, boots>>

\* The bootloader jumps to the app.
JumpToApp ==
    /\ phase = "boot" /\ Idle
    /\ phase' = "app_pre"
    /\ UNCHANGED <<console, cbctx, app_size, pend, wlen, conv, ghost, boots>>

\* Any reset: persistent RAM survives, .bss and any write in progress do
\* not.  The next image may have another RAM_CONSOLE_BUF_SIZE.
Reset ==
    /\ boots < MaxBoots
    /\ phase # "conv" \/ ResetInConversion
    /\ phase' = "rom"
    /\ cb_watermark' = 0 /\ cb_bytes' = 0 /\ cb_on' = FALSE
    /\ app_size' \in AppSizes
    /\ pend' = 0 /\ wlen' = 0 /\ conv' = NoConv
    /\ boots' = boots + 1
    /\ UNCHANGED <<console, ghost>>

-----------------------------------------------------------------------------
(* nl_ram_console_write, with interrupts disabled: only a reset can come   *)
(* between its chunks and its accounting.                                  *)

Writing == phase \in {"boot", "app_pre", "app"}

\* Start a write of len bytes; a disabled console drops it.
nl_ram_console_write(len) ==
    /\ Writing /\ Idle /\ enabled
    /\ nextByte + len <= MaxBytes
    /\ pend' = len /\ wlen' = len
    /\ UNCHANGED <<console, cbctx, phase, app_size, conv, ghost, boots>>

WriteChunk_wrapLate ==
    LET before == buf_size - write_index
        n      == IF before < 0 \/ pend < before THEN pend ELSE before
        at     == write_index..(write_index + n - 1)
    IN  /\ pend > 0
        /\ buf' = [i \in DOMAIN buf |->
                     IF i \in at THEN nextByte + 1 + i - write_index ELSE buf[i]]
        /\ write_index' = IF write_index + n > buf_size THEN 0
                          ELSE write_index + n
        /\ pend' = pend - n
        /\ nextByte' = nextByte + n
        /\ histCur' = histCur \o [k \in 1..n |-> nextByte + k]
        /\ UNCHANGED <<magic, bytes_written, last_write_index,
                       last_bytes_written, buf_size, enabled, cbctx, phase,
                       app_size, wlen, conv, histPrev, boots>>

\* One pass of the copy loop: up to the end of the buffer, then wrap.
\* A write_index at or past buf_size makes buf_size - write_index wrap
\* (as a size_t), so the whole rest is copied from write_index on.
WriteChunk ==
    LET before == buf_size - write_index
        n      == IF before < 0 \/ pend < before THEN pend ELSE before
        at     == write_index..(write_index + n - 1)
    IN  /\ pend > 0
        /\ buf' = [i \in DOMAIN buf |->
                     IF i \in at THEN nextByte + 1 + i - write_index ELSE buf[i]]
        /\ write_index' = IF write_index + n >= buf_size THEN 0
                          ELSE write_index + n
        /\ pend' = pend - n
        /\ nextByte' = nextByte + n
        /\ histCur' = histCur \o [k \in 1..n |-> nextByte + k]
        /\ UNCHANGED <<magic, bytes_written, last_write_index,
                       last_bytes_written, buf_size, enabled, cbctx, phase,
                       app_size, wlen, conv, histPrev, boots>>

WriteEnd_noLastClamp ==
    LET bw == MinOf(bytes_written + wlen, buf_size)
    IN  /\ pend = 0 /\ wlen > 0
        /\ bytes_written' = bw
        /\ IF cb_on
             THEN cb_bytes' = IF cb_bytes + wlen >= cb_watermark THEN 0
                              ELSE cb_bytes + wlen
             ELSE UNCHANGED cb_bytes
        /\ wlen' = 0
        /\ UNCHANGED <<magic, write_index, last_write_index, last_bytes_written,
                       buf_size, enabled, buf, cb_watermark, cb_on, phase,
                       app_size, pend, conv, ghost, boots>>

\* After the loop: bytes_written += orig_len clamped to buf_size, the last
\* log shrunk to what the current one leaves, and the watermark callback
\* called (and its count reset) once callback_bytes_written reaches it.
WriteEnd ==
    LET bw == MinOf(bytes_written + wlen, buf_size)
    IN  /\ pend = 0 /\ wlen > 0
        /\ bytes_written' = bw
        /\ last_bytes_written' = MinOf(last_bytes_written, buf_size - bw)
        /\ IF cb_on
             THEN cb_bytes' = IF cb_bytes + wlen >= cb_watermark THEN 0
                              ELSE cb_bytes + wlen
             ELSE UNCHANGED cb_bytes
        /\ wlen' = 0
        /\ UNCHANGED <<magic, write_index, last_write_index, buf_size, enabled,
                       buf, cb_watermark, cb_on, phase, app_size, pend, conv,
                       ghost, boots>>

-----------------------------------------------------------------------------
(* nl_ram_console_init in the app                                          *)

Read(j) == IF j \in DOMAIN buf THEN buf[j] ELSE 0

\* Magic invalid: initialise; same size: nothing; either way the console
\* starts disabled.
AppInitPlain ==
    /\ phase = "app_pre" /\ Idle
    /\ ~magic \/ buf_size = app_size
    /\ IF ~magic THEN init_ram_console(app_size)
       ELSE UNCHANGED <<magic, last_bytes_written, last_write_index,
                        bytes_written, write_index, cbctx, buf_size, histCur,
                        histPrev>>
    /\ enabled' = FALSE
    /\ phase' = "app"
    /\ UNCHANGED <<buf, app_size, pend, wlen, conv, nextByte, boots>>

\* The size changed: bytes_to_preserve newest bytes (bounded by the new
\* size and the scratch buffer) go out to scratch in up to two chunks,
\* buf_size takes the new size, and they come back to the start of buf.
\* start_index is a uint32: write_index - bytes_to_preserve wraps when
\* negative, and the test start_index > old_buf_size catches the wrap.
\* With nothing to preserve the console is initialised.
ConvStart(scratch) ==
    LET btp == MinOf(MinOf(last_bytes_written + bytes_written, app_size),
                     scratch)
        O   == buf_size
        s   == write_index - btp
        start == IF s < 0 \/ s > O THEN s + O ELSE s
        until_end == O - start
        copy == [i \in 0..(btp - 1) |->
                   IF i < until_end THEN Read(start + i)
                   ELSE Read(i - until_end)]
    IN  /\ phase = "app_pre" /\ Idle /\ magic /\ buf_size # app_size
        /\ IF btp > 0
             THEN /\ buf_size' = app_size
                  /\ buf' = [i \in DOMAIN buf |->
                               IF i < btp THEN copy[i] ELSE buf[i]]
                  /\ conv' = [btp |-> btp, bw |-> bytes_written,
                              last |-> last_bytes_written]
                  /\ phase' = "conv"
                  /\ UNCHANGED <<magic, write_index, bytes_written,
                                 last_write_index, last_bytes_written,
                                 enabled, cbctx, histCur, histPrev>>
             ELSE /\ init_ram_console(app_size)
                  /\ enabled' = FALSE
                  /\ phase' = "app"
                  /\ UNCHANGED <<buf, conv>>
        /\ UNCHANGED <<app_size, pend, wlen, nextByte, boots>>

ConvFinish_noWrap ==
    LET btp  == conv.btp
        wi   == IF btp = buf_size THEN 0 ELSE btp
        bw   == MinOf(conv.bw, btp)
        last == MinOf(conv.last, btp - bw)
    IN  /\ phase = "conv"
        /\ write_index' = wi
        /\ bytes_written' = bw
        /\ IF last > 0
             THEN /\ last_bytes_written' = last
                  /\ last_write_index' = wi - bw
             ELSE last_bytes_written' = 0 /\ last_write_index' = 0
        /\ enabled' = FALSE
        /\ phase' = "app"
        /\ conv' = NoConv
        /\ UNCHANGED <<magic, buf_size, buf, cbctx, app_size, pend, wlen,
                       ghost, boots>>

\* The indices for the preserved bytes: write_index after them (0 if they
\* fill the buffer), the current log clamped first, the last log takes
\* what is left, and last_write_index = write_index - bytes_written with
\* the same uint32 wrap test.
ConvFinish ==
    LET btp  == conv.btp
        wi   == IF btp = buf_size THEN 0 ELSE btp
        bw   == MinOf(conv.bw, btp)
        last == MinOf(conv.last, btp - bw)
        lwi  == IF wi - bw < 0 \/ wi - bw > buf_size THEN wi - bw + buf_size
                ELSE wi - bw
    IN  /\ phase = "conv"
        /\ write_index' = wi
        /\ bytes_written' = bw
        /\ IF last > 0
             THEN /\ last_bytes_written' = last
                  /\ last_write_index' = lwi
             ELSE last_bytes_written' = 0 /\ last_write_index' = 0
        /\ enabled' = FALSE
        /\ phase' = "app"
        /\ conv' = NoConv
        /\ UNCHANGED <<magic, buf_size, buf, cbctx, app_size, pend, wlen,
                       ghost, boots>>

-----------------------------------------------------------------------------
(* The rest of the API, called by the app                                  *)

nl_ram_console_enable ==
    /\ phase \in {"app_pre", "app"} /\ Idle /\ ~enabled
    /\ enabled' = TRUE
    /\ UNCHANGED <<magic, write_index, bytes_written, last_write_index,
                   last_bytes_written, buf_size, buf, cbctx, phase, app_size,
                   pend, wlen, conv, ghost, boots>>

nl_ram_console_disable ==
    /\ phase \in {"app_pre", "app"} /\ Idle /\ enabled
    /\ enabled' = FALSE
    /\ UNCHANGED <<magic, write_index, bytes_written, last_write_index,
                   last_bytes_written, buf_size, buf, cbctx, phase, app_size,
                   pend, wlen, conv, ghost, boots>>

nl_ram_console_register_callback(w) ==
    /\ phase \in {"app_pre", "app"} /\ Idle
    /\ cb_watermark' = w /\ cb_bytes' = 0 /\ cb_on' = TRUE
    /\ UNCHANGED <<console, phase, app_size, pend, wlen, conv, ghost, boots>>

Next ==
    \/ nl_ram_console_init_bootloader
    \/ JumpToApp
    \/ \E n \in WriteLens : nl_ram_console_write(n)
    \/ WriteChunk
    \/ WriteEnd
    \/ AppInitPlain
    \/ \E sc \in ScratchSizes : ConvStart(sc)
    \/ ConvFinish
    \/ nl_ram_console_enable
    \/ nl_ram_console_disable
    \/ \E w \in Watermarks : nl_ram_console_register_callback(w)
    \/ Reset

Spec == Init /\ [][Next]_vars

-----------------------------------------------------------------------------
(* Properties                                                              *)

\* Types; last_write_index is an index of buf, never a wrapped uint32.
TypeOK ==
    /\ magic \in BOOLEAN /\ enabled \in BOOLEAN
    /\ {write_index, bytes_written, last_write_index, last_bytes_written}
         \subseteq 0..MaxSize
    /\ buf \in [0..(MaxSize - 1) -> 0..MaxBytes]
    /\ phase \in Phases

\* Whenever the console is valid, the indices nl_ram_console_write and
\* nl_ram_console_get_info use lie inside buf_size and the two logs fit in
\* it together -- across resets, bootloader pushes, size conversions and
\* torn writes.
IndicesInRange ==
    magic /\ phase # "conv" =>
        /\ write_index < buf_size
        /\ last_write_index < buf_size
        /\ bytes_written + last_bytes_written <= buf_size

\* The logs get_info describes are what was written: the bytes_written
\* bytes before write_index are the newest bytes written since the
\* bootloader started the current log, and the last_bytes_written bytes
\* before last_write_index the newest bytes of the log before it.
LogsAreTails ==
    magic /\ Idle /\ phase \in {"boot", "app_pre", "app"} =>
        /\ bytes_written <= Len(histCur)
        /\ Region(write_index, bytes_written) = Newest(histCur, bytes_written)
        /\ last_bytes_written <= Len(histPrev)
        /\ Region(last_write_index, last_bytes_written)
             = Newest(histPrev, last_bytes_written)

====
