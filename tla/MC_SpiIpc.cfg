\* SPI IPC safety: a slave that may reset or be slow, legal frames.
CONSTANTS
    s1 = s1
    w = w
    null = null
    Senders <- MC_Senders
    Worker = w
    NoTask = null
    MAX_IPC_DATA_LEN_FROM_SLAVE = 244
    Headers <- MC_Headers
    DataLens = {0, 1}
    MaxSends = 2
    MaxFrames = 2
    MaxCrashes = 1
    MaxTimeouts = 1
    SlowSlave = TRUE
    LateEdge = FALSE
    EarlyEdge = FALSE
SPECIFICATION Spec
CHECK_DEADLOCK FALSE
INVARIANT TypeOK
PROPERTY DeliveredIsSent ReceivedEventually MutexReleased
