\* SPI IPC: a slave that answers after srdy_timeout_ms.
CONSTANTS
    s1 = s1
    w = w
    null = null
    Senders <- MC_Senders
    Worker = w
    NoTask = null
    MAX_IPC_DATA_LEN_FROM_SLAVE = 244
    Headers <- MC_Headers
    DataLens = {0, 1}
    MaxSends = 2
    MaxFrames = 2
    MaxCrashes = 0
    MaxTimeouts = 1
    SlowSlave = TRUE
    LateEdge = TRUE
    EarlyEdge = FALSE
SPECIFICATION Spec
CHECK_DEADLOCK FALSE
PROPERTY NoClockBeforeReady
