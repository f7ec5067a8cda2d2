-------------------------------- MODULE NlFs --------------------------------
(***************************************************************************)
(* The flash file interface of nlfs.c over the locking wrappers of         *)
(* nlflash.c, on one external flash device.                                *)
(*                                                                         *)
(* Two tasks share the device.  "fs" is a client of nlfs with one          *)
(* nlfs_file_t; it opens partitions, sub-partitions (an ELF section inside *)
(* the current image, found by elf_find_section_crc while it holds the     *)
(* flash and the CRC lock), reads, writes, seeks and closes.  "env" stands *)
(* for getenv, which by the comment at nlfs.c:199-203 takes the flash lock *)
(* and then the CRC lock.  The flash lock is the product's lock callback   *)
(* (nlflash_set_lock); fileInit nests it (request, then a read per ELF     *)
(* chunk), so it is a recursive mutex, and it blocks.  The CRC lock is the *)
(* one a hardware CRC takes in nlcrc_request (nlcrc_set_locking).          *)
(*                                                                         *)
(* The device is the SPI NOR driver of nlflash_spi.c, whose request,      *)
(* release and flush fill the table entry, built without                   *)
(* FLASH_SPI_USE_PARTIAL_PAGE_BUFFER.  Flash is a row of cells, each "old" *)
(* (earlier content), "erased" or "data"; one cell is one erase sub-sector *)
(* unit.  A driver call fails when the chip does not come up (power-up)    *)
(* or when one of its erase or page-program commands fails, at most        *)
(* MaxFaults times.                                                        *)
(***************************************************************************)
EXTENDS Integers, FiniteSets, Sequences

LOCAL INSTANCE SequencesExt

CONSTANTS
    Parts,          \* partitions of g_flash_partitions
    PartOffset,     \* [Parts -> Nat]
    PartSize,       \* [Parts -> Nat]
    ReadOnlyParts,  \* partitions with isReadOnly
    Img0, Img1,     \* kImage0, kImage1
    Sections,       \* where elf_find_section_crc may find the section:
                    \* [off, size] from the start of the image
    Lens,           \* byte counts passed to nlfs_read / nlfs_write
    SeekOffs,       \* offsets passed to nlfs_seek
    PosMod,         \* 2^w: currentPos and offsets are uint32
    MaxCalls,       \* nlfs calls made by the client
    MaxEnv,         \* getenv calls
    MaxFaults,      \* device operations that fail
    CrcLocks,       \* the CRC implementation locks (hardware CRC)
    EraseSize,      \* FLASH_SPI_ERASE_SIZE (sub-sector)
    FastEraseSize,  \* FLASH_SPI_FAST_ERASE_SIZE (sector)
    PageSize,       \* FLASH_SPI_WRITE_SIZE (page program)
    FlashSize,      \* FLASH_SPI_SIZE
    PowerUpFails,   \* check_chip_id can fail on every attempt
    Builds          \* nlflash_spi.c builds: "direct", "buffered"

Cells == UNION {PartOffset[p]..(PartOffset[p] + PartSize[p] - 1) : p \in Parts}
Region(o, n) == o..(o + n - 1)
\* nlfs file ids: plain partitions, kImage (resolved by location) and an
\* EXT_SUB sub-partition.
Fids == (Parts \ {Img0, Img1}) \cup {"kImage", "sub"}
Locs == {"IMAGE0", "IMAGE1", "INSTALLED", "ALTERNATE"}
None == "none"

VARIABLES
    file,       \* the client's nlfs_file_t
    cell,       \* flash contents
    curImage,   \* the env key kCurrentImageKey: "none", "0" or "1"
    flOwner,    \* holder of the flash lock, or None
    flCount,    \* its recursion count
    crcOwner,   \* holder of the CRC lock, or None
    fspc,       \* where the client is inside nlfs_open of a sub-partition
    sub,        \* that open's locals: image, retval, section
    envpc,      \* where getenv is
    valid,      \* ghost: the last nlfs_open returned >= 0 and no nlfs_close
                \* has returned >= 0 since
    opened,     \* ghost: the cells that successful open gave the client
    readCells,  \* ghost: the cells nlfs_read_cb read in the last step
    programs,   \* ghost: the page programs (CMD_PP) of the last step
    spi,        \* flash_spi_device: enable_ref and whether the chip is on
    build,      \* which build of nlflash_spi_write and flush runs
    cache,      \* flash_spi_device's partial page, in the buffered build
    calls, envCalls, faults

lockVars == <<flOwner, flCount, crcOwner>>
io == <<readCells, programs>>
vars == <<file, cell, curImage, lockVars, fspc, sub, envpc, valid, opened,
          io, spi, build, cache, calls, envCalls, faults>>

NoSub == [img |-> Img0, ret |-> 0, sec |-> [off |-> 0, size |-> 0]]

\* nlflash_spi_init's memset to 0xff, and the cache after a flush.
NoCache == [loc |-> 0, idx |-> 0, tag |-> [j \in 0..(PageSize - 1) |-> -1]]

Init ==
    /\ file = [isOpen |-> FALSE, mode |-> "RO", part |-> Img0,
               offset |-> 0, len |-> 0, pos |-> 0]
    /\ cell = [c \in Cells |-> "old"]
    /\ curImage \in {"none", "0", "1"}
    /\ flOwner = None /\ flCount = 0 /\ crcOwner = None
    /\ fspc = "idle" /\ sub = NoSub /\ envpc = "idle"
    /\ valid = FALSE /\ opened = {} /\ readCells = {} /\ programs = {}
    /\ spi = [ref |-> 0, pw |-> FALSE]
    /\ build \in Builds /\ cache = NoCache
    /\ calls = 0 /\ envCalls = 0 /\ faults = 0

-----------------------------------------------------------------------------
(* nlflash.c: every operation takes the device lock around the driver call *)
(* (lock, call, unlock), so an operation of task t can run when the lock   *)
(* is free or already t's.                                                 *)

LockFree(t) == flOwner \in {None, t}

\* nlflash_spi_request: enable_ref (uint8) counts up; the first request
\* powers the chip up, and if the chip does not answer, enable_ref is
\* reset to 0 and the request fails.
SpiRequest(s, up) ==
    LET r == (s.ref + 1) % 256
    IN  IF r > 1 THEN [s EXCEPT !.ref = r]
        ELSE IF up THEN [ref |-> r, pw |-> TRUE]
        ELSE [ref |-> 0, pw |-> FALSE]

\* nlflash_spi_release: enable_ref counts down (uint8; the nlASSERT that
\* it is positive is not compiled into a release build) and the chip is
\* powered down when it reaches 0.
SpiRelease(s) ==
    LET r == (s.ref - 1) % 256
    IN  [ref |-> r, pw |-> IF r = 0 THEN FALSE ELSE s.pw]

\* Whether a request by the driver needs the power-up that can fail.
PowerUps(s) ==
    IF (s.ref + 1) % 256 <= 1 /\ PowerUpFails /\ faults < MaxFaults
      THEN BOOLEAN ELSE {TRUE}

CountFault(o) == faults' = IF o.ret < 0 THEN faults + 1 ELSE faults

\* nlflash_request: the lock, then the driver's request, whose result
\* nlfs ignores.
nlflash_request(t, up) ==
    /\ flOwner' = t /\ flCount' = flCount + 1
    /\ spi' = SpiRequest(spi, up)
    /\ faults' = IF up THEN faults ELSE faults + 1

\* nlflash_release: the driver's release, then the unlock.
nlflash_release(t) ==
    /\ spi' = SpiRelease(spi)
    /\ flCount' = flCount - 1
    /\ flOwner' = IF flCount = 1 THEN None ELSE t

\* nlcrc_request / nlcrc_release: a hardware CRC takes and gives its lock;
\* the software CRC of nlcrc.c only checks the configuration.
nlcrc_request(t) == crcOwner' = IF CrcLocks THEN t ELSE crcOwner
nlcrc_release == crcOwner' = IF CrcLocks THEN None ELSE crcOwner

ErasePlan_secFromAddr(addr, len) ==
    LET big  == len >= FastEraseSize
        left == addr % FastEraseSize
        beg  == IF ~big THEN len \div EraseSize
                ELSE IF left # 0 THEN (FastEraseSize - left) \div EraseSize
                ELSE 0
        secs == IF big THEN (len - beg * EraseSize) \div FastEraseSize ELSE 0
        fin  == IF big THEN (len - beg * EraseSize - secs * FastEraseSize)
                            \div EraseSize ELSE 0
    IN  [i \in 1..beg  |-> [at |-> addr + (i - 1) * EraseSize, n |-> EraseSize]]
        \o [i \in 1..secs |-> [at |-> addr + (i - 1) * FastEraseSize,
                               n |-> FastEraseSize]]
        \o [i \in 1..fin  |-> [at |-> addr + secs * FastEraseSize + (i - 1) * EraseSize,
                               n |-> EraseSize]]

\* The commands nlflash_spi_erase issues for [addr, addr + len): a bulk
\* erase of the whole chip, or sub-sectors up to the next sector boundary,
\* whole sectors, then the sub-sectors left; below one sector, sub-sectors.
ErasePlan(addr, len) ==
    LET big  == len >= FastEraseSize
        left == addr % FastEraseSize
        beg  == IF ~big THEN len \div EraseSize
                ELSE IF left # 0 THEN (FastEraseSize - left) \div EraseSize
                ELSE 0
        len1 == len - beg * EraseSize
        secs == IF big THEN len1 \div FastEraseSize ELSE 0
        fin  == IF big THEN (len1 - secs * FastEraseSize) \div EraseSize
                ELSE 0
        at2  == addr + beg * EraseSize
        at3  == at2 + secs * FastEraseSize
    IN  IF addr = 0 /\ len = FlashSize
          THEN <<[at |-> 0, n |-> FlashSize]>>
          ELSE [i \in 1..beg  |-> [at |-> addr + (i - 1) * EraseSize, n |-> EraseSize]]
            \o [i \in 1..secs |-> [at |-> at2 + (i - 1) * FastEraseSize,
                                   n |-> FastEraseSize]]
            \o [i \in 1..fin  |-> [at |-> at3 + (i - 1) * EraseSize, n |-> EraseSize]]

PagePrograms_noLeadSplit(addr, len) ==
    LET off  == addr % PageSize
        lead == IF off = 0 THEN 0 ELSE len
        rest == len - lead
        full == rest \div PageSize
    IN  (IF off # 0 THEN <<[at |-> addr, n |-> lead]>> ELSE <<>>)
        \o [i \in 1..full |-> [at |-> addr + lead + (i - 1) * PageSize, n |-> PageSize]]
        \o (IF rest % PageSize # 0
              THEN <<[at |-> addr + lead + full * PageSize, n |-> rest % PageSize]>>
              ELSE <<>>)

\* The page programs (write_internal) of nlflash_spi_write: the leading
\* part of a page when addr is not page aligned (issued even when len is
\* 0), whole pages, then the trailing part of a page.
PagePrograms(addr, len) ==
    LET off  == addr % PageSize
        lead == IF off = 0 THEN 0
                ELSE IF off + len > PageSize THEN PageSize - off ELSE len
        rest == len - lead
        full == rest \div PageSize
        at2  == addr + lead
    IN  (IF off # 0 THEN <<[at |-> addr, n |-> lead]>> ELSE <<>>)
        \o [i \in 1..full |-> [at |-> at2 + (i - 1) * PageSize, n |-> PageSize]]
        \o (IF rest % PageSize # 0
              THEN <<[at |-> at2 + full * PageSize, n |-> rest % PageSize]>>
              ELSE <<>>)

\* How a driver call over the commands cmds ends: all done; or one of the
\* MaxFaults failures, after the first k commands, or at power-up.
Outcomes(cmds) ==
    {[up |-> TRUE, k |-> Len(cmds), ret |-> 0]} \cup
    (IF faults < MaxFaults
       THEN {[up |-> TRUE, k |-> j, ret |-> -1] : j \in 0..(Len(cmds) - 1)}
            \cup (IF FALSE \in PowerUps(spi)
                    THEN {[up |-> FALSE, k |-> 0, ret |-> -1]} ELSE {})
       ELSE {})

\* The cells the first k commands covered, and the retlen they add up to.
Done(cmds, k) == UNION {Region(cmds[i].at, cmds[i].n) : i \in 1..k}
RetLen(cmds, k) == FoldLeft(LAMBDA acc, c : acc + c.n, 0, SubSeq(cmds, 1, k))

\* A driver read, erase or write is bracketed by nlflash_spi_request and
\* nlflash_spi_release, the release also when the request failed.
DevCall(o) == spi' = SpiRelease(SpiRequest(spi, o.up)) /\ CountFault(o)

\* nlflash_erase / nlflash_write: the cells of the commands that completed.
nlflash_erase(cmds, o) ==
    cell' = [c \in Cells |-> IF c \in Done(cmds, o.k) THEN "erased" ELSE cell[c]]

nlflash_write(cmds, o) ==
    cell' = [c \in Cells |-> IF c \in Done(cmds, o.k) THEN "data" ELSE cell[c]]

(* The FLASH_SPI_USE_PARTIAL_PAGE_BUFFER build.  partial_page is modelled  *)
(* by the address each byte was written for (-1 for the 0xff fill);        *)
(* write_loc and partial_page_index as loc and idx.  A page program        *)
(* carries, for each of its bytes, the address it was meant for.          *)
Page(at, n) == [at |-> at, n |-> n, tag |-> [j \in 0..(n - 1) |-> at + j]]

\* Bytes [off, off + n) of the cache take the addresses from a on.
CacheBytes(c, off, n, a) ==
    [c EXCEPT !.tag = [j \in 0..(PageSize - 1) |->
                         IF off <= j /\ j < off + n THEN a + j - off ELSE @[j]],
              !.idx = off + n]

SpiFlush_resetOnFail(c, i, f) ==
    IF c.idx = 0 THEN [c |-> c, ret |-> 0, calls |-> i, progs |-> <<>>]
    ELSE LET off == c.loc % PageSize
             n   == IF c.idx > off THEN c.idx - off ELSE 0
             p   == [at |-> c.loc, n |-> n, tag |-> [j \in 0..(n - 1) |-> c.tag[off + j]]]
         IN  IF i + 1 = f THEN [c |-> NoCache, ret |-> -1, calls |-> i + 1, progs |-> <<>>]
             ELSE [c |-> NoCache, ret |-> 0, calls |-> i + 1, progs |-> <<p>>]

\* nlflash_spi_flush, as write_internal call number i + 1 of a driver call
\* whose call number f fails: the cached bytes from write_loc's offset up
\* to partial_page_index are programmed at write_loc, and the cache is
\* reset only if that succeeds.
SpiFlush(c, i, f) ==
    IF c.idx = 0 THEN [c |-> c, ret |-> 0, calls |-> i, progs |-> <<>>]
    ELSE LET off == c.loc % PageSize
             n   == IF c.idx > off THEN c.idx - off ELSE 0
             p   == [at |-> c.loc, n |-> n, tag |-> [j \in 0..(n - 1) |-> c.tag[off + j]]]
         IN  IF i + 1 = f THEN [c |-> c, ret |-> -1, calls |-> i + 1, progs |-> <<>>]
             ELSE [c |-> NoCache, ret |-> 0, calls |-> i + 1, progs |-> <<p>>]

\* nlflash_spi_flush called from nlflash_spi_write, on the state s of that
\* write: its result and programs are added to the write's.
FlushInto(s, f) ==
    LET r == SpiFlush(s.c, s.calls, f)
    IN  [s EXCEPT !.c = r.c, !.ret = r.ret, !.calls = r.calls,
                  !.progs = @ \o r.progs]

\* The buffered nlflash_spi_write works through s = [c: the cache, ret,
\* calls: write_internal calls so far, progs, a: address, left: length,
\* written].  1: a write that does not append to the cache flushes it,
\* and write_loc takes addr whatever the flush returned.
BufAppendCheck(c0, addr, len, f) ==
    LET s == [c |-> c0, ret |-> 0, calls |-> 0, progs |-> <<>>, a |-> addr,
              left |-> len, written |-> 0]
    IN  IF len > 0 /\ addr /= c0.loc - (c0.loc % PageSize) + c0.idx
        THEN [FlushInto(s, f) EXCEPT !.c.loc = addr]
        ELSE s

\* 2: a write starting inside a page caches up to the page end ...
BufCacheHead(s) ==
    LET off == s.a % PageSize
        n   == IF PageSize - off < s.left THEN PageSize - off ELSE s.left
    IN  IF s.ret >= 0 /\ s.left > 0 /\ off > 0
        THEN [s EXCEPT !.c = CacheBytes(s.c, off, n, s.a), !.a = @ + n,
                       !.left = @ - n, !.written = @ + n]
        ELSE s

\* ... and a full cache is flushed (a write of len > 0 only).
BufFlushFull(s, len, f) ==
    IF s.ret >= 0 /\ len > 0 /\ s.c.idx = PageSize THEN FlushInto(s, f) ELSE s

\* 3: whole pages are programmed until one fails, and write_loc takes the
\* address reached.
BufPages(s, f) ==
    LET full == s.left \div PageSize
        k    == IF s.calls < f /\ f <= s.calls + full THEN f - s.calls - 1 ELSE full
    IN  IF s.ret >= 0 /\ s.left > 0
        THEN [s EXCEPT !.progs = @ \o [i \in 1..k |-> Page(s.a + (i - 1) * PageSize,
                                                           PageSize)],
                       !.a = @ + k * PageSize, !.left = @ - k * PageSize,
                       !.written = @ + k * PageSize,
                       !.ret = IF k < full THEN -1 ELSE @,
                       !.calls = @ + (IF k < full THEN k + 1 ELSE full),
                       !.c.loc = s.a + k * PageSize]
        ELSE s

\* 4: the rest is cached.
BufCacheTail(s) ==
    IF s.ret >= 0 /\ s.left > 0
    THEN [s EXCEPT !.c = CacheBytes(s.c, s.a % PageSize, s.left, s.a),
                   !.a = @ + s.left, !.left = 0, !.written = @ + s.left]
    ELSE s

\* The buffered nlflash_spi_write of len bytes at addr over the cache c0,
\* when write_internal call number f fails (0: none does); retlen is
\* written, which counts the cached bytes.
BufWrite(c0, addr, len, f) ==
    BufCacheTail(BufPages(BufFlushFull(BufCacheHead(BufAppendCheck(c0, addr, len, f)),
                                       len, f), f))

\* The page programs ps as they reach the cells: a byte meant for its own
\* address leaves "data", one meant for another "wrong"; 0xff bytes leave
\* the cell as it was.
Burn(ps) ==
    [c \in Cells |->
       LET meant == {p.tag[c - p.at] : p \in {q \in ps : c \in Region(q.at, q.n)}}
                    \ {-1}
       IN  IF meant = {} THEN cell[c] ELSE IF meant = {c} THEN "data" ELSE "wrong"]

\* get_image_offset: IMAGE0/IMAGE1 name the image; INSTALLED and
\* ALTERNATE read the current image from the environment, which is set to
\* image 0 if missing.
ImageFor(loc) ==
    CASE loc = "IMAGE1" -> Img1
      [] loc = "IMAGE0" -> Img0
      [] curImage = "0" /\ loc = "ALTERNATE" -> Img1
      [] curImage = "1" /\ loc = "INSTALLED" -> Img1
      [] OTHER -> Img0

get_image_offset(loc) ==
    curImage' = IF loc \in {"INSTALLED", "ALTERNATE"} /\ curImage = "none"
                  THEN "0" ELSE curImage

\* nl_env_get_string takes the flash and the CRC lock itself, so it waits
\* while getenv holds either.
EnvFree(loc) ==
    loc \in {"INSTALLED", "ALTERNATE"} => (LockFree("fs") /\ crcOwner = None)

\* A step that is not a read or a write of nlfs.
NoIO == readCells' = {} /\ programs' = {}

Idle == fspc = "idle"
Call == Idle /\ calls < MaxCalls /\ calls' = calls + 1

\* The client's discipline: it opens only a handle it holds no open file
\* with, and uses a handle only after an open that returned >= 0.
CanOpen == ~valid

-----------------------------------------------------------------------------
(* nlfs_open_cb with isFat = false                                         *)

\* The argument checks at 250-262 fail: -EINVAL, the file untouched.
OpenRejected(fid, mode, loc) ==
    /\ Call /\ CanOpen
    /\ \/ mode = "WO" /\ fid = "sub"
       \/ loc # "INSTALLED" /\ fid \notin {"kImage", "sub"}
    /\ UNCHANGED <<build, cache, file, cell, curImage, lockVars, fspc, sub, envpc, valid,
                   opened, spi, envCalls, faults>>
    /\ NoIO

\* fileInit for a main partition: the file is marked open with position 0
\* and takes the partition's offset and size.
fileInit(mode, part) ==
    file' = [isOpen |-> TRUE, mode |-> mode, part |-> part,
             offset |-> PartOffset[part], len |-> PartSize[part], pos |-> 0]

\* nlfs_open_cb: fileInit for a main partition (kImage resolved by
\* location), then, for WRITE_ONLY, the erase of the whole partition.
\* fileInit marks the file open before anything can fail.
OpenPartition(fid, mode, loc) ==
    LET part == IF fid = "kImage" THEN ImageFor(loc) ELSE fid
        off  == PartOffset[part]
        len  == PartSize[part]
        cmds == ErasePlan(off, len)
    IN
    /\ Call /\ CanOpen
    /\ fid # "sub"
    /\ loc = "INSTALLED" \/ fid = "kImage"
    /\ fid = "kImage" => EnvFree(loc)
    /\ fileInit(mode, part)
    /\ IF fid = "kImage" THEN get_image_offset(loc) ELSE UNCHANGED curImage
    /\ IF mode = "RO"
         THEN /\ valid' = TRUE /\ opened' = Region(off, len)
              /\ UNCHANGED <<cell, spi, faults>>
       ELSE IF part \in ReadOnlyParts
         THEN /\ valid' = FALSE
              /\ UNCHANGED <<cell, spi, faults, opened>>
       ELSE /\ LockFree("fs")
            /\ \E o \in Outcomes(cmds) :
                 /\ nlflash_erase(cmds, o)
                 /\ DevCall(o)
                 \* -EIO when retlen # len
                 /\ valid' = (o.ret >= 0 /\ RetLen(cmds, o.k) = len)
                 /\ opened' = IF valid' THEN Region(off, len) ELSE opened
    /\ NoIO
    /\ UNCHANGED <<build, cache, lockVars, fspc, sub, envpc, envCalls>>

SubOpenStart_noRequest(loc) ==
    /\ Call /\ CanOpen
    /\ EnvFree(loc)
    /\ file' = [file EXCEPT !.isOpen = TRUE, !.mode = "RO", !.part = "sub",
                            !.pos = 0]
    /\ get_image_offset(loc)
    /\ sub' = [NoSub EXCEPT !.img = ImageFor(loc)]
    /\ fspc' = "crc"
    /\ NoIO
    /\ UNCHANGED <<build, cache, cell, lockVars, envpc, valid, opened, spi, envCalls, faults>>

\* A sub-partition (EXT_SUB): fileInit marks the file open, resolves the
\* image, and takes the flash with nlflash_request so that the flash lock
\* comes before the CRC lock (199-204); a failed request is ignored.
SubOpenStart(loc) ==
    /\ Call /\ CanOpen
    /\ EnvFree(loc) /\ LockFree("fs")
    /\ file' = [file EXCEPT !.isOpen = TRUE, !.mode = "RO", !.part = "sub",
                            !.pos = 0]
    /\ get_image_offset(loc)
    /\ \E up \in PowerUps(spi) : nlflash_request("fs", up)
    /\ sub' = [NoSub EXCEPT !.img = ImageFor(loc)]
    /\ fspc' = "crc"
    /\ NoIO
    /\ UNCHANGED <<build, cache, cell, crcOwner, envpc, valid, opened, envCalls>>

\* nlcrc_request (221-225).
SubCrcRequest ==
    /\ fspc = "crc"
    /\ CrcLocks => crcOwner = None
    /\ nlcrc_request("fs")
    /\ fspc' = "search"
    /\ UNCHANGED <<build, cache, file, cell, curImage, flOwner, flCount, sub, envpc, valid,
                   opened, spi, calls, envCalls, faults>>
    /\ NoIO

\* elf_find_section_crc (227) reads the image through readFile, one
\* nlflash_read (lock, driver request, read, release, unlock) per chunk,
\* and finds the section or fails on a read that fails.
SubSearch ==
    /\ fspc = "search"
    /\ LockFree("fs")
    /\ \/ \E s \in Sections :
            /\ sub' = [sub EXCEPT !.ret = 0, !.sec = s]
            /\ spi' = SpiRelease(SpiRequest(spi, TRUE))
            /\ UNCHANGED faults
       \/ \E up \in PowerUps(spi) :
            /\ faults < MaxFaults /\ faults' = faults + 1
            /\ sub' = [sub EXCEPT !.ret = -1]
            /\ spi' = SpiRelease(SpiRequest(spi, up))
    /\ fspc' = "crcrel"
    /\ UNCHANGED <<build, cache, file, cell, curImage, lockVars, envpc, valid, opened,
                   calls, envCalls>>
    /\ NoIO

SubCrcRelease ==
    /\ fspc = "crcrel"
    /\ nlcrc_release
    /\ fspc' = "rel"
    /\ UNCHANGED <<build, cache, file, cell, curImage, flOwner, flCount, sub, envpc, valid,
                   opened, spi, calls, envCalls, faults>>
    /\ NoIO

\* nlflash_release (233), then, if the section was found, the file takes
\* its offset and length (236-239); on failure the file keeps the offset
\* and length of whatever it held before, and stays marked open.
SubRelease ==
    /\ fspc = "rel"
    /\ nlflash_release("fs")
    /\ IF sub.ret >= 0
         THEN /\ file' = [file EXCEPT
                            !.offset = PartOffset[sub.img] + sub.sec.off,
                            !.len = sub.sec.size]
              /\ valid' = TRUE
              /\ opened' = Region(file'.offset, file'.len)
         ELSE UNCHANGED <<file, valid, opened>>
    /\ fspc' = "idle" /\ sub' = NoSub
    /\ UNCHANGED <<build, cache, cell, curImage, crcOwner, envpc, calls,
                   envCalls, faults>>
    /\ NoIO

-----------------------------------------------------------------------------
(* getenv, as the comment at 199-203 describes it: flash lock, then CRC    *)
(* lock, read, release.                                                    *)

EnvLockFlash ==
    /\ envpc = "idle" /\ envCalls < MaxEnv /\ flOwner = None
    /\ flOwner' = "env" /\ flCount' = 1
    /\ envpc' = "flash" /\ envCalls' = envCalls + 1
    /\ UNCHANGED <<build, cache, file, cell, curImage, crcOwner, fspc, sub, valid, opened,
                   spi, calls, faults>>
    /\ NoIO

\* nlflash_spi_read_id: request, busy check, RDID, release; the request's
\* error is the result (the RDID bytes are left out).
nlflash_spi_read_id(up) == DevCall([up |-> up, ret |-> IF up THEN 0 ELSE -1])

\* nlflash_read_id from the second task: the flash lock (the task waits
\* while the client holds it), nlflash_spi_read_id's request, busy check,
\* RDID and release, and the unlock, with no other step of the task in
\* between; a failed power-up is the call's error.
nlflash_read_id ==
    /\ envpc = "idle" /\ envCalls < MaxEnv /\ flOwner = None
    /\ \E up \in PowerUps(spi) : nlflash_spi_read_id(up)
    /\ envCalls' = envCalls + 1
    /\ UNCHANGED <<build, cache, file, cell, curImage, lockVars, fspc, sub, envpc,
                   valid, opened, calls>>
    /\ NoIO

EnvLockCrc ==
    /\ envpc = "flash"
    /\ CrcLocks => crcOwner = None
    /\ nlcrc_request("env")
    /\ envpc' = "crc"
    /\ UNCHANGED <<build, cache, file, cell, curImage, flOwner, flCount, fspc, sub, valid,
                   opened, spi, calls, envCalls, faults>>
    /\ NoIO

\* The environment is read with nlflash_read (a driver request and
\* release around the read), then both locks are given back.
EnvRelease ==
    /\ envpc = "crc"
    /\ \E up \in PowerUps(spi) :
         /\ spi' = SpiRelease(SpiRequest(spi, up))
         /\ faults' = IF up THEN faults ELSE faults + 1
    /\ nlcrc_release
    /\ flOwner' = None /\ flCount' = 0
    /\ envpc' = "idle"
    /\ UNCHANGED <<build, cache, file, cell, curImage, fspc, sub, valid, opened, calls,
                   envCalls>>
    /\ NoIO

-----------------------------------------------------------------------------
(* nlfs_read_cb, nlfs_write_cb, nlfs_seek, nlfs_close                      *)

Clamp_none(n) == n

\* The count clamped to the end of the file (305-308, 346-349).
Clamp(n) == IF file.pos + n > file.len THEN file.len - file.pos ELSE n

Use == Call /\ valid

nlfs_read_advanceReq(n) ==
    LET cmds == <<[at |-> file.offset + file.pos, n |-> Clamp(n)]>>
    IN
    /\ Use
    /\ IF ~file.isOpen \/ file.mode # "RO"
         THEN UNCHANGED <<file, spi, faults>> /\ NoIO
         ELSE /\ LockFree("fs")
              /\ \E o \in Outcomes(cmds) :
                   /\ readCells' = Done(cmds, o.k)
                   /\ programs' = {}
                   /\ file' = [file EXCEPT !.pos = IF o.ret >= 0 THEN @ + n ELSE @]
                   /\ DevCall(o)
    /\ UNCHANGED <<build, cache, cell, curImage, lockVars, fspc, sub, envpc, valid, opened,
                   envCalls>>

\* nlfs_read_cb: nlflash_read (nlflash_spi_read: one read command, retlen
\* all or nothing), and currentPos advances by retlen on success.
nlfs_read(n) ==
    LET cmds == <<[at |-> file.offset + file.pos, n |-> Clamp(n)]>>
    IN
    /\ Use
    /\ IF ~file.isOpen \/ file.mode # "RO"
         THEN UNCHANGED <<file, spi, faults>> /\ NoIO
         ELSE /\ LockFree("fs")
              /\ \E o \in Outcomes(cmds) :
                   /\ readCells' = Done(cmds, o.k)
                   /\ programs' = {}
                   /\ file' = [file EXCEPT !.pos =
                                 IF o.ret >= 0 THEN @ + RetLen(cmds, o.k) ELSE @]
                   /\ DevCall(o)
    /\ UNCHANGED <<build, cache, cell, curImage, lockVars, fspc, sub, envpc, valid, opened,
                   envCalls>>

\* nlflash_write over the direct build: the page programs of
\* nlflash_spi_write, bracketed by request and release, stop at the first
\* that fails, and retlen counts the pages programmed.
WriteDirect(addr, len) ==
    LET cmds == PagePrograms(addr, len)
    IN  \E o \in Outcomes(cmds) :
          /\ nlflash_write(cmds, o)
          /\ programs' = {Page(cmds[i].at, cmds[i].n) : i \in 1..o.k}
          /\ file' = [file EXCEPT !.pos = @ + RetLen(cmds, o.k)]
          /\ DevCall(o)
          /\ UNCHANGED cache

\* nlflash_write over the buffered build, which programs without
\* nlflash_spi_request, and whose retlen counts the cached bytes.
WriteBuffered(addr, len) ==
    LET max == BufWrite(cache, addr, len, 0).calls
    IN  \E f \in {0} \cup (IF faults < MaxFaults THEN 1..max ELSE {}) :
        \E w \in {BufWrite(cache, addr, len, f)} :
          /\ cache' = w.c
          /\ programs' = ToSet(w.progs) /\ cell' = Burn(ToSet(w.progs))
          /\ file' = [file EXCEPT !.pos = @ + w.written]
          /\ faults' = IF w.ret < 0 THEN faults + 1 ELSE faults
          /\ UNCHANGED spi

\* nlfs_write_cb: nlflash_write of what is left of the request within the
\* file, and currentPos advances by the retlen reported, also when the
\* write failed part way.
nlfs_write(n) ==
    /\ Use
    /\ IF ~file.isOpen \/ file.mode # "WO"
         THEN UNCHANGED <<file, cell, spi, cache, faults>> /\ NoIO
         ELSE /\ LockFree("fs")
              /\ readCells' = {}
              /\ IF build = "direct"
                   THEN WriteDirect(file.offset + file.pos, Clamp(n))
                   ELSE WriteBuffered(file.offset + file.pos, Clamp(n))
    /\ UNCHANGED <<build, curImage, lockVars, fspc, sub, envpc, valid, opened,
                   envCalls>>

\* currentPos + offset is uint32 arithmetic (406).
nlfs_seek(off, fromStart) ==
    LET target == IF fromStart THEN off ELSE (file.pos + off) % PosMod
    IN  /\ Use
        /\ IF file.isOpen /\ file.mode = "RO" /\ target < file.len
             THEN file' = [file EXCEPT !.pos = target]
             ELSE UNCHANGED file
        /\ NoIO
        /\ UNCHANGED <<build, cache, cell, curImage, lockVars, fspc, sub, envpc, valid,
                       opened, spi, envCalls, faults>>

\* nlflash_flush (lock, the driver's flush, unlock): the direct build has
\* nothing buffered and returns 0; the buffered one writes the cache,
\* which can fail.
nlflash_flush ==
    IF build = "direct" THEN {[c |-> cache, ret |-> 0, calls |-> 0, progs |-> <<>>]}
    ELSE {SpiFlush(cache, 0, f) : f \in {0} \cup (IF faults < MaxFaults THEN {1} ELSE {})}

\* nlfs_close: a WRITE_ONLY file is flushed and marked closed if the flush
\* succeeded; a READ_ONLY file returns 0 at once.
nlfs_close ==
    /\ Use
    /\ file.isOpen
    /\ IF file.mode = "WO"
         THEN /\ LockFree("fs")
              /\ \E fl \in nlflash_flush :
                   /\ cache' = fl.c
                   /\ programs' = ToSet(fl.progs) /\ cell' = Burn(ToSet(fl.progs))
                   /\ faults' = IF fl.ret < 0 THEN faults + 1 ELSE faults
                   /\ IF fl.ret >= 0
                        THEN file' = [file EXCEPT !.isOpen = FALSE] /\ valid' = FALSE
                        ELSE UNCHANGED <<file, valid>>
         ELSE /\ valid' = FALSE
              /\ UNCHANGED <<file, cache, cell, programs, faults>>
    /\ readCells' = {}
    /\ UNCHANGED <<build, curImage, lockVars, fspc, sub, envpc, opened, spi,
                   envCalls>>

Next ==
    \/ \E fid \in Fids, mode \in {"RO", "WO"}, loc \in Locs :
         \/ OpenRejected(fid, mode, loc)
         \/ OpenPartition(fid, mode, loc)
    \/ \E loc \in Locs : SubOpenStart(loc)
    \/ SubCrcRequest \/ SubSearch \/ SubCrcRelease \/ SubRelease
    \/ EnvLockFlash \/ EnvLockCrc \/ EnvRelease \/ nlflash_read_id
    \/ \E n \in Lens : nlfs_read(n) \/ nlfs_write(n)
    \/ \E off \in SeekOffs, b \in BOOLEAN : nlfs_seek(off, b)
    \/ nlfs_close

\* The client's open of a sub-partition and getenv run to the end once
\* started (each task is scheduled while runnable and the locks block);
\* new calls are not fair.
Fairness ==
    /\ WF_vars(SubCrcRequest) /\ WF_vars(SubSearch)
    /\ WF_vars(SubCrcRelease) /\ WF_vars(SubRelease)
    /\ WF_vars(EnvLockCrc) /\ WF_vars(EnvRelease)

Spec == Init /\ [][Next]_vars /\ Fairness

-----------------------------------------------------------------------------
(* Properties                                                              *)

TypeOK ==
    /\ file.isOpen \in BOOLEAN /\ file.mode \in {"RO", "WO"}
    /\ file.part \in Parts \cup {"sub"}
    /\ file.pos \in 0..file.len
    /\ cell \in [Cells -> {"old", "erased", "data", "wrong"}]
    /\ curImage \in {"none", "0", "1"}
    /\ flOwner \in {None, "fs", "env"} /\ crcOwner \in {None, "fs", "env"}
    /\ (flOwner = None) = (flCount = 0)
    /\ fspc \in {"idle", "crc", "search", "crcrel", "rel"}
    /\ envpc \in {"idle", "flash", "crc"}
    /\ readCells \subseteq Cells
    /\ \A p \in programs : p.at \in 0..FlashSize /\ p.n \in 0..PageSize
    /\ build \in Builds /\ cache.idx \in 0..PageSize
    /\ spi \in [ref : 0..255, pw : BOOLEAN]

\* The cells the page programs of the last step covered.
Programmed(ps) == UNION {Region(p.at, p.n) : p \in ps}

\* Flash is programmed only where the partition the client opened for
\* writing was erased by that open and not programmed since: nlfs_open_cb
\* erases the whole partition (nlflash_spi_erase's sub-sectors and
\* sectors must cover it exactly), and nlfs_write_cb advances currentPos by
\* the retlen the driver reports, also when the write fails part way.
WritesLandErased ==
    [][Programmed(programs') \subseteq {c \in opened : cell[c] = "erased"}]_vars

\* No page program crosses a page boundary (the chip would wrap to the
\* start of the page): nlflash_spi_write splits every write, at whatever
\* position nlfs_write_cb has reached, into pieces within one page.
ProgramsWithinPage ==
    \A p \in programs :
        p.n > 0 => p.at \div PageSize = (p.at + p.n - 1) \div PageSize

\* enable_ref counts the driver requests not yet released (the one
\* nlflash_request of an open of a sub-partition, between calls none), and
\* the chip is powered exactly while it is positive.  No run checks it:
\* when power-up fails, nlflash_spi_request sets enable_ref to 0 and every
\* caller still releases (nlflash_spi.c:437/538), so with PowerUpFails =
\* TRUE TLC finds enable_ref wrapped to 255 after one step.
RefCounted ==
    /\ spi.ref = IF fspc = "idle" THEN 0 ELSE 1
    /\ spi.pw = (spi.ref > 0)

\* nlfs_read_cb reads only inside the file the client opened, however it
\* seeks (uint32 wrap included) and whatever lengths it asks for.
ReadsWithinFile == readCells \subseteq opened

\* An open of a sub-partition and a getenv both return: taking the flash
\* lock with nlflash_request before the CRC lock keeps the two tasks from
\* waiting on each other (the deadlock the comment at 199-203 reports).
CallsReturn ==
    /\ fspc # "idle" ~> fspc = "idle"
    /\ envpc # "idle" ~> envpc = "idle"

\* nlfs_is_open tells the truth: between calls the file is marked open
\* exactly when the client's last nlfs_open succeeded and no nlfs_close has
\* succeeded since.
IsOpenMatchesOpened == Idle => (file.isOpen = valid)

(* In both builds, once nlfs_close has succeeded on a file opened for     *)
(* writing, every byte nlfs_write_cb reported written (currentPos) is on   *)
(* flash at its own address.  The buffered build reports cached bytes as  *)
(* written: they must reach flash through the flush of a later write or   *)
(* of the close, which may fail, and nlfs_close must keep the file open    *)
(* until a flush succeeds.                                                 *)
WrittenBytesOnFlash ==
    file.mode = "WO" /\ ~file.isOpen =>
        \A c \in Region(file.offset, file.pos) : cell[c] = "data"

=============================================================================
