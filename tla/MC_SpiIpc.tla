------------------------------ MODULE MC_SpiIpc ------------------------------
(* Model-checking instance of SpiIpc: one sender task and the worker.      *)
EXTENDS SpiIpc

CONSTANTS s1, w, null

MC_Senders == {s1}
\* a zero-data frame, a one-byte frame and the largest legal frame
MC_Headers == {3, 4, MAX_IPC_DATA_LEN_FROM_SLAVE + 3}
====
