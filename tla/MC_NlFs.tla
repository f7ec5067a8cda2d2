------------------------------- MODULE MC_NlFs -------------------------------
(* Four partitions on a nine-cell device with two-cell sectors and pages:  *)
(* a read-only boot cell, a writable data partition that starts and ends  *)
(* off a sector boundary (so its erase needs leading sub-sectors, a whole  *)
(* sector and trailing sub-sectors, and writes split at page boundaries),  *)
(* and the two images; sections of one cell at either end of an image.    *)
EXTENDS NlFs

MC_Parts == {"data", "boot", "img0", "img1"}
MC_PartOffset == [p \in MC_Parts |->
                    CASE p = "boot" -> 0 [] p = "data" -> 1
                      [] p = "img0" -> 5 [] p = "img1" -> 7]
MC_PartSize == [p \in MC_Parts |->
                  CASE p = "boot" -> 1 [] p = "data" -> 4 [] OTHER -> 2]
MC_Sections == {[off |-> 0, size |-> 1], [off |-> 1, size |-> 1]}
=============================================================================
