------------------------------- MODULE DmaCopy -------------------------------
(***************************************************************************)
(* The DMA copy application (dma_copy_core.c): a host and a DPU, one of    *)
(* which has a file, negotiate the direction and the size of the copy over *)
(* the Comm Channel, the host exports a buffer, the DPU copies between its *)
(* own buffer and the exported one with a DMA task, and the side that did  *)
(* not have the file saves what its buffer then holds.                     *)
(*                                                                         *)
(* Messages carry no tag: each side takes the next one for the message it  *)
(* waits for.  "kind" records what the sender meant; the code sees it only *)
(* where it compares the length of a direction message.  The Comm Channel  *)
(* is external: reliable, in order, never full here (at most a message or  *)
(* two are under way, the queues hold ten), and a host whose DPU is gone   *)
(* gets an error from recvfrom once its queue is empty.                    *)
(***************************************************************************)
EXTENDS Naturals, Sequences

CONSTANTS
    Sizes,        \* the sizes a file may have
    MaxBufSize,   \* the largest buffer a DMA task takes
    Faults        \* the steps that may fail, as pairs <<side, step>>

HostSteps == {"connect", "send_dir", "recv_dir", "prepare", "send_export",
              "status_export", "fill", "send_addr", "status_addr", "send_len",
              "status_len", "status_done", "save"}
DpuSteps == {"setup", "recv_dir", "reply", "alloc", "recv_export", "ack_export",
             "map_export", "recv_addr", "ack_addr", "recv_len", "ack_len",
             "bufs", "fill", "submit", "dma", "save"}

ASSUME DmaAssumption ==
    /\ Sizes \subseteq Nat \ {0} /\ MaxBufSize \in Nat
    /\ Faults \subseteq ({"host"} \X HostSteps) \cup ({"dpu"} \X DpuSteps)

VARIABLES
    host, dpu,           \* the step each side takes next; "free", "end"
    hostHas, dpuHas,     \* is_file_found_locally of each side
    hostSize, dpuSize,   \* cfg->file_size of each side
    hostBuf, dpuBuf,     \* a buffer: "none", "junk" (allocated) or "data"
    hostFile, dpuFile,   \* a file: "none", "partial", "junk" or "data"
    dpuLen,              \* host_dma_offset: the length the DPU received
    toHost, toDpu,       \* messages under way
    hostRes, dpuRes,     \* what each side returns: "ok" or "error"
    fault                \* some step has failed

hostVars == <<host, hostHas, hostSize, hostBuf, hostFile, hostRes>>
dpuVars == <<dpu, dpuHas, dpuSize, dpuBuf, dpuFile, dpuLen, dpuRes>>
vars == <<hostVars, dpuVars, toHost, toDpu, fault>>

\* A message is what it is sent as, or the step it acknowledges; "failure" is
\* a status message with is_success = false.
Kinds == {"dir", "export", "addr", "len",
          "ack_export", "ack_addr", "ack_len", "done", "failure"}
Message(kind) == [kind |-> kind, inHost |-> FALSE, size |-> 0]
Direction(h, n) == [kind |-> "dir", inHost |-> h, size |-> n]
Length(n) == [kind |-> "len", inHost |-> FALSE, size |-> n]
Messages == [kind : Kinds, inHost : BOOLEAN, size : Sizes \cup {0}]

Fails(side, step) == <<side, step>> \in Faults

\* args_validation_callback finds the file, and its size, on either side,
\* on both or on neither.
Init ==
    /\ host = "connect" /\ dpu = "setup"
    /\ hostHas \in BOOLEAN /\ dpuHas \in BOOLEAN
    /\ \E n \in Sizes : /\ hostSize = IF hostHas THEN n ELSE 0
                        /\ dpuSize = IF dpuHas THEN n ELSE 0
    /\ hostFile = IF hostHas THEN "data" ELSE "none"
    /\ dpuFile = IF dpuHas THEN "data" ELSE "none"
    /\ hostBuf = "none" /\ dpuBuf = "none" /\ dpuLen = 0
    /\ toHost = <<>> /\ toDpu = <<>>
    /\ hostRes = "ok" /\ dpuRes = "ok" /\ fault = FALSE

-----------------------------------------------------------------------------
\* host_start_dma_copy

HostGo(next) == host' = next /\ UNCHANGED hostRes
HostError == host' = "free" /\ hostRes' = "error"

HostSend(step, msg, next) ==
    /\ host = step /\ toDpu' = Append(toDpu, msg) /\ HostGo(next)
    /\ UNCHANGED <<hostHas, hostSize, hostBuf, hostFile, dpuVars, toHost, fault>>

\* wait_for_successful_status_msg
HostStatus(step, next) ==
    /\ host = step /\ toHost # <<>> /\ toHost' = Tail(toHost)
    /\ IF Head(toHost).kind # "failure" THEN HostGo(next) ELSE HostError
    /\ UNCHANGED <<hostHas, hostSize, hostBuf, hostFile, dpuVars, toDpu, fault>>

\* The host is started once the DPU listens; its connection is refused when
\* the DPU has given up by then.
HostConnect ==
    /\ host = "connect" /\ dpu \notin {"setup", "free"}
    /\ IF dpu = "end" THEN HostError ELSE HostGo("send_dir")
    /\ UNCHANGED <<hostHas, hostSize, hostBuf, hostFile, dpuVars, toHost, toDpu, fault>>

HostSendDirection ==
    HostSend("send_dir", Direction(hostHas, hostSize), "recv_dir")

\* msg_len = sizeof(struct cc_msg_dma_direction): only a direction is as long.
IsDirection(msg) == msg.kind = "dir"

HostReceiveDirection ==
    /\ host = "recv_dir" /\ toHost # <<>> /\ toHost' = Tail(toHost)
    /\ \/ IsDirection(Head(toHost)) /\ HostGo("prepare")
          /\ hostSize' = IF hostHas THEN hostSize ELSE Head(toHost).size
       \/ ~IsDirection(Head(toHost)) /\ HostError /\ UNCHANGED hostSize
    /\ UNCHANGED <<hostHas, hostBuf, hostFile, dpuVars, toDpu, fault>>

\* The device is opened, the buffer allocated, mapped and exported.
HostPrepare ==
    /\ host = "prepare" /\ hostBuf' = "junk" /\ HostGo("send_export")
    /\ UNCHANGED <<hostHas, hostSize, hostFile, dpuVars, toHost, toDpu, fault>>

HostSendExport == HostSend("send_export", Message("export"), "status_export")

\* Mutant: the host does not wait until the DPU has the export descriptor.
ExportStatusSkipped ==
    /\ host = "status_export" /\ HostGo("fill")
    /\ UNCHANGED <<hostHas, hostSize, hostBuf, hostFile, dpuVars, toHost, toDpu, fault>>

HostExportStatus == HostStatus("status_export", "fill")

\* Mutant: the host's buffer is filled after its address was sent.
FillAfterSend ==
    /\ host = "fill" /\ HostGo("send_addr") /\ UNCHANGED hostBuf
    /\ UNCHANGED <<hostHas, hostSize, hostFile, dpuVars, toHost, toDpu, fault>>

HostFill ==
    /\ host = "fill" /\ HostGo("send_addr")
    /\ hostBuf' = IF hostHas THEN hostFile ELSE hostBuf
    /\ UNCHANGED <<hostHas, hostSize, hostFile, dpuVars, toHost, toDpu, fault>>

HostSendAddress == HostSend("send_addr", Message("addr"), "status_addr")

HostAddressStatus == HostStatus("status_addr", "send_len")

HostSendLength == HostSend("send_len", Length(hostSize), "status_len")

\* Mutant: the acknowledgement of the length is taken for the end of the copy.
LengthStatusEnds == HostStatus("status_len", "save")

HostLengthStatus == HostStatus("status_len", "status_done")

\* Mutant: the last status is waited for and not looked at.
DoneUnchecked ==
    /\ host = "status_done" /\ toHost # <<>> /\ toHost' = Tail(toHost) /\ HostGo("save")
    /\ UNCHANGED <<hostHas, hostSize, hostBuf, hostFile, dpuVars, toDpu, fault>>

HostDone == HostStatus("status_done", "save")

\* The file is saved by the side that did not have it.
HostSave ==
    /\ host = "save" /\ HostGo("free")
    /\ hostFile' = IF hostHas THEN hostFile ELSE hostBuf
    /\ UNCHANGED <<hostHas, hostSize, hostBuf, dpuVars, toHost, toDpu, fault>>

\* free_buffer, destroy_mmap, close_device, then main: destroy_cc.
HostFree ==
    /\ host = "free" /\ hostBuf' = "none" /\ HostGo("end")
    /\ UNCHANGED <<hostHas, hostSize, hostFile, dpuVars, toHost, toDpu, fault>>

\* A call fails; a failing save may leave a file behind.
HostFails ==
    /\ host \in HostSteps /\ Fails("host", host) /\ HostError /\ fault' = TRUE
    /\ IF host = "save" /\ ~hostHas THEN hostFile' \in {"none", "partial"}
                                    ELSE UNCHANGED hostFile
    /\ UNCHANGED <<hostHas, hostSize, hostBuf, dpuVars, toHost, toDpu>>

\* The DPU has left and nothing more will come.
HostReset ==
    /\ host \in {"recv_dir", "status_export", "status_addr", "status_len", "status_done"}
    /\ dpu = "end" /\ toHost = <<>> /\ HostError
    /\ UNCHANGED <<hostHas, hostSize, hostBuf, hostFile, dpuVars, toHost, toDpu, fault>>

HostStep ==
    \/ HostConnect \/ HostSendDirection \/ HostReceiveDirection \/ HostPrepare
    \/ HostSendExport \/ HostExportStatus \/ HostFill \/ HostSendAddress
    \/ HostAddressStatus \/ HostSendLength \/ HostLengthStatus \/ HostDone
    \/ HostSave \/ HostFree \/ HostReset

-----------------------------------------------------------------------------
\* dpu_start_dma_copy

DpuGo(next) == dpu' = next /\ UNCHANGED dpuRes
DpuError == dpu' = "free" /\ dpuRes' = "error"
DpuTells(kind) == toHost' = Append(toHost, Message(kind))

\* allocate_dma_copy_resources, doca_ctx_start, doca_comm_channel_ep_listen
DpuSetup ==
    /\ dpu = "setup" /\ DpuGo("recv_dir")
    /\ UNCHANGED <<dpuHas, dpuSize, dpuBuf, dpuFile, dpuLen, hostVars, toHost, toDpu, fault>>

\* "Make sure file is located only on one side"
OnOneSide(inHost) == dpuHas # inHost

DpuReceiveDirection ==
    /\ dpu = "recv_dir" /\ toDpu # <<>> /\ toDpu' = Tail(toDpu)
    /\ \/ /\ OnOneSide(Head(toDpu).inHost) /\ DpuGo("reply")
          /\ dpuSize' = IF dpuHas THEN dpuSize ELSE Head(toDpu).size
          /\ UNCHANGED toHost
       \/ /\ ~OnOneSide(Head(toDpu).inHost) /\ DpuError /\ DpuTells("failure")
          /\ UNCHANGED dpuSize
    /\ UNCHANGED <<dpuHas, dpuBuf, dpuFile, dpuLen, hostVars, fault>>

\* "Verify file size against the HW limitation"; the direction message says
\* where the DPU believes the file to be, and the size it found itself.
DpuReply ==
    /\ dpu = "reply"
    /\ \/ dpuSize > MaxBufSize /\ DpuError /\ DpuTells("failure")
       \/ /\ dpuSize <= MaxBufSize /\ DpuGo("alloc")
          /\ toHost' = Append(toHost, Direction(~dpuHas, IF dpuHas THEN dpuSize ELSE 0))
    /\ UNCHANGED <<dpuHas, dpuSize, dpuBuf, dpuFile, dpuLen, hostVars, toDpu, fault>>

\* memory_alloc_and_populate
DpuAlloc ==
    /\ dpu = "alloc" /\ dpuBuf' = "junk" /\ DpuGo("recv_export")
    /\ UNCHANGED <<dpuHas, dpuSize, dpuFile, dpuLen, hostVars, toHost, toDpu, fault>>

\* The next message is taken for the one that is waited for.
DpuReceive(step, next) ==
    /\ dpu = step /\ toDpu # <<>> /\ toDpu' = Tail(toDpu) /\ DpuGo(next)
    /\ dpuLen' = IF step = "recv_len" THEN Head(toDpu).size ELSE dpuLen
    /\ UNCHANGED <<dpuHas, dpuSize, dpuBuf, dpuFile, hostVars, toHost, fault>>

DpuAck(step, next) ==
    /\ dpu = step /\ DpuTells(step) /\ DpuGo(next)
    /\ UNCHANGED <<dpuHas, dpuSize, dpuBuf, dpuFile, dpuLen, hostVars, toDpu, fault>>

DpuReceiveExport == DpuReceive("recv_export", "ack_export")

\* Mutant: the export descriptor is mapped without an acknowledgement.
ExportNotAcked ==
    /\ dpu = "ack_export" /\ DpuGo("map_export")
    /\ UNCHANGED <<dpuHas, dpuSize, dpuBuf, dpuFile, dpuLen, hostVars, toHost, toDpu, fault>>

DpuAckExport == DpuAck("ack_export", "map_export")

\* doca_mmap_create_from_export
DpuMapExport ==
    /\ dpu = "map_export" /\ DpuGo("recv_addr")
    /\ UNCHANGED <<dpuHas, dpuSize, dpuBuf, dpuFile, dpuLen, hostVars, toHost, toDpu, fault>>

DpuReceiveAddress == DpuReceive("recv_addr", "ack_addr")

DpuAckAddress == DpuAck("ack_addr", "recv_len")

DpuReceiveLength == DpuReceive("recv_len", "ack_len")

DpuAckLength == DpuAck("ack_len", "bufs")

\* The two DOCA buffers are made: each must lie within its memory map.
DpuBuffers ==
    /\ dpu = "bufs"
    /\ \/ dpuLen <= dpuSize /\ DpuGo("fill") /\ UNCHANGED toHost
       \/ dpuLen > dpuSize /\ DpuError /\ DpuTells("failure")
    /\ UNCHANGED <<dpuHas, dpuSize, dpuBuf, dpuFile, dpuLen, hostVars, toDpu, fault>>

DpuFill ==
    /\ dpu = "fill" /\ DpuGo("submit")
    /\ dpuBuf' = IF dpuHas THEN dpuFile ELSE dpuBuf
    /\ UNCHANGED <<dpuHas, dpuSize, dpuFile, dpuLen, hostVars, toHost, toDpu, fault>>

DpuSubmit ==
    /\ dpu = "submit" /\ DpuGo("dma")
    /\ UNCHANGED <<dpuHas, dpuSize, dpuBuf, dpuFile, dpuLen, hostVars, toHost, toDpu, fault>>

\* The hardware copies; the completion callback ends the wait.
DpuDma ==
    /\ dpu = "dma" /\ DpuGo("save")
    /\ hostBuf' = IF dpuHas THEN dpuBuf ELSE hostBuf
    /\ dpuBuf' = IF dpuHas THEN dpuBuf ELSE hostBuf
    /\ UNCHANGED <<dpuHas, dpuSize, dpuFile, dpuLen, host, hostHas, hostSize,
                   hostFile, hostRes, toHost, toDpu, fault>>

\* The file is saved and the host is told.
DpuSave ==
    /\ dpu = "save" /\ DpuTells("done") /\ DpuGo("free")
    /\ dpuFile' = IF dpuHas THEN dpuFile ELSE dpuBuf
    /\ UNCHANGED <<dpuHas, dpuSize, dpuBuf, dpuLen, hostVars, toDpu, fault>>

\* The clean-up labels, then main: destroy_cc.
DpuFree ==
    /\ dpu = "free" /\ dpuBuf' = "none" /\ DpuGo("end")
    /\ UNCHANGED <<dpuHas, dpuSize, dpuFile, dpuLen, hostVars, toHost, toDpu, fault>>

\* The steps whose failure reaches the host as a status message.  After the
\* others it finds the connection gone; at "recv_dir" the code tries, but has
\* no peer address yet.
Reported == {"recv_export", "recv_addr", "recv_len", "bufs", "fill",
             "submit", "dma", "save"}

DpuFails ==
    /\ dpu \in DpuSteps /\ Fails("dpu", dpu) /\ DpuError /\ fault' = TRUE
    /\ IF dpu \in Reported THEN DpuTells("failure") ELSE UNCHANGED toHost
    /\ IF dpu = "save" /\ ~dpuHas THEN dpuFile' \in {"none", "partial"}
                                  ELSE UNCHANGED dpuFile
    /\ UNCHANGED <<dpuHas, dpuSize, dpuBuf, dpuLen, hostVars, toDpu>>

DpuStep ==
    \/ DpuSetup \/ DpuReceiveDirection \/ DpuReply \/ DpuAlloc \/ DpuReceiveExport
    \/ DpuAckExport \/ DpuMapExport \/ DpuReceiveAddress \/ DpuAckAddress
    \/ DpuReceiveLength \/ DpuAckLength \/ DpuBuffers \/ DpuFill \/ DpuSubmit
    \/ DpuDma \/ DpuSave \/ DpuFree

-----------------------------------------------------------------------------
Next == HostStep \/ DpuStep \/ HostFails \/ DpuFails

Spec == Init /\ [][Next]_vars

\* Both programs run, poll with naps, and the hardware completes its task.
FairSpec == Spec /\ WF_vars(HostStep) /\ WF_vars(DpuStep)

-----------------------------------------------------------------------------
\* Properties

\* The types of both sides' state.
TypeOK ==
    /\ host \in HostSteps \cup {"free", "end"} /\ dpu \in DpuSteps \cup {"free", "end"}
    /\ hostHas \in BOOLEAN /\ dpuHas \in BOOLEAN /\ fault \in BOOLEAN
    /\ hostSize \in Sizes \cup {0} /\ dpuSize \in Sizes \cup {0}
    /\ dpuLen \in Sizes \cup {0}
    /\ hostBuf \in {"none", "junk", "data"} /\ dpuBuf \in {"none", "junk", "data"}
    /\ hostFile \in {"none", "partial", "junk", "data"}
    /\ dpuFile \in {"none", "partial", "junk", "data"}
    /\ toHost \in Seq(Messages) /\ toDpu \in Seq(Messages)
    /\ hostRes \in {"ok", "error"} /\ dpuRes \in {"ok", "error"}

\* The message each side takes the next one for.
HostExpects == [recv_dir |-> "dir", status_export |-> "ack_export",
                status_addr |-> "ack_addr", status_len |-> "ack_len",
                status_done |-> "done"]
DpuExpects == [recv_dir |-> "dir", recv_export |-> "export",
               recv_addr |-> "addr", recv_len |-> "len"]

\* The two sides stay in step although messages carry no tag: what a side
\* receives is what it takes it for, and a status is about "last message sent".
PhaseAgreement ==
    /\ toHost # <<>> /\ host \in DOMAIN HostExpects =>
           Head(toHost).kind \in {HostExpects[host], "failure"}
    /\ toDpu # <<>> /\ dpu \in DOMAIN DpuExpects =>
           Head(toDpu).kind = DpuExpects[dpu]

\* While the DMA task runs, the host's buffer is still allocated, both buffers
\* are as long as the copy, and the source holds the file ("Fill the buffer
\* before DPU starts DMA operation").
DmaSafe ==
    dpu = "dma" =>
        /\ hostBuf # "none" /\ dpuBuf # "none"
        /\ dpuLen = hostSize /\ dpuLen = dpuSize
        /\ (IF dpuHas THEN dpuBuf ELSE hostBuf) = "data"

\* A host that returns success has made the copy: both sides have the file.
CopyComplete ==
    host = "end" /\ hostRes = "ok" => hostFile = "data" /\ dpuFile = "data"

\* The file itself is never overwritten, and nothing but the file is ever
\* saved, whatever fails on either side.
FilesKept ==
    /\ hostHas => hostFile = "data"
    /\ dpuHas => dpuFile = "data"
    /\ {hostFile, dpuFile} \subseteq {"none", "partial", "data"}

\* Without failures both sides end, also when the negotiation is refused.
Completes == <>(fault \/ (host = "end" /\ dpu = "end"))
=============================================================================
