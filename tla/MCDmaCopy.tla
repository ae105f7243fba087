------------------------------ MODULE MCDmaCopy ------------------------------
(***************************************************************************)
(* A DMA copy of files that do and do not fit a buffer, where every step   *)
(* of either side may fail, except that the host's recvfrom fails only     *)
(* when the DPU is gone.                                                   *)
(***************************************************************************)
EXTENDS DmaCopy

AnyFault ==
    ({"host"} \X (HostSteps \ {"status_len", "status_done"})) \cup ({"dpu"} \X DpuSteps)
=============================================================================
