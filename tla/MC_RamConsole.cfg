\* RAM console across resets, software updates that change the buffer size,
\* torn writes and scratch buffers smaller than the log.
CONSTANTS
    BootSize = 3
    AppSizes = {2, 3, 4}
    ScratchSizes = {1, 4}
    WriteLens = {1, 3}
    Watermarks = {2}
    MaxBytes = 6
    MaxBoots = 3
    ResetInConversion = FALSE
SPECIFICATION Spec
CHECK_DEADLOCK FALSE
INVARIANT TypeOK IndicesInRange LogsAreTails
