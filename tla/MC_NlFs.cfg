\* One client with six nlfs calls, one getenv, one failed erase, page
\* program or read, a locking (hardware) CRC, offsets with a 4-bit wrap;
\* the chip always comes up.
CONSTANTS
  Parts <- MC_Parts
  PartOffset <- MC_PartOffset
  PartSize <- MC_PartSize
  ReadOnlyParts = {"boot"}
  Img0 = "img0"
  Img1 = "img1"
  Sections <- MC_Sections
  Lens = {1, 2, 3}
  SeekOffs = {1, 15}
  PosMod = 16
  MaxCalls = 6
  MaxEnv = 1
  MaxFaults = 1
  CrcLocks = TRUE
  EraseSize = 1
  FastEraseSize = 2
  PageSize = 2
  FlashSize = 9
  PowerUpFails = FALSE
  Builds = {"direct", "buffered"}
CHECK_DEADLOCK FALSE
SPECIFICATION Spec
INVARIANT TypeOK ReadsWithinFile ProgramsWithinPage WrittenBytesOnFlash
PROPERTY WritesLandErased CallsReturn
