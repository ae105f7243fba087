---------------------------- MODULE DmaCopyProofs ----------------------------
(***************************************************************************)
(* The DMA copy, for all file sizes, every limit of the buffer and every   *)
(* set of failing steps: the messages are never mistaken for one another,  *)
(* the file is never overwritten and a host that returns success has made  *)
(* the copy; and, as long as the host's wait for the last two statuses     *)
(* does not fail, the DMA task runs on buffers that exist, are as long as  *)
(* the copy and hold the file.                                             *)
(*                                                                         *)
(* The inductive invariant is a table: which steps of the two sides can    *)
(* meet, and what is then under way.  It has three parts, for two running  *)
(* sides, for a host whose DPU is gone and for a DPU whose host is gone.   *)
(* The other parts of the invariant follow the sizes, the buffers and the  *)
(* files through that table.                                               *)
(***************************************************************************)
EXTENDS DmaCopy, TLAPS

HostRuns == host \in HostSteps
DpuRuns == dpu \in DpuSteps

Copying == {"bufs", "fill", "submit", "dma", "save"}   \* after the last ack
HasLength == Copying \cup {"ack_len"}

\* The two direction messages, as long as they are under way.
FromHost == Direction(hostHas, hostSize)
FromDpu == Direction(~dpuHas, IF dpuHas THEN dpuSize ELSE 0)

Quiet == toHost = <<>> /\ toDpu = <<>>
Told(msg) == toHost = <<msg>> /\ toDpu = <<>>
Asked(msg) == toHost = <<>> /\ toDpu = <<msg>>

\* Both sides run: at most one message is under way.
InStep ==
    \/ host = "connect" /\ dpu \in {"setup", "recv_dir"} /\ Quiet
    \/ host = "send_dir" /\ dpu = "recv_dir" /\ Quiet
    \/ host = "recv_dir" /\ dpu = "recv_dir" /\ Asked(FromHost)
    \/ host = "recv_dir" /\ dpu = "reply" /\ Quiet
    \/ host = "recv_dir" /\ dpu \in {"alloc", "recv_export"} /\ Told(FromDpu)
    \/ host \in {"prepare", "send_export"} /\ dpu \in {"alloc", "recv_export"} /\ Quiet
    \/ /\ host = "status_export" /\ dpu \in {"alloc", "recv_export"}
       /\ Asked(Message("export"))
    \/ host = "status_export" /\ dpu = "ack_export" /\ Quiet
    \/ /\ host = "status_export" /\ dpu \in {"map_export", "recv_addr"}
       /\ Told(Message("ack_export"))
    \/ host \in {"fill", "send_addr"} /\ dpu \in {"map_export", "recv_addr"} /\ Quiet
    \/ /\ host = "status_addr" /\ dpu \in {"map_export", "recv_addr"}
       /\ Asked(Message("addr"))
    \/ host = "status_addr" /\ dpu = "ack_addr" /\ Quiet
    \/ host = "status_addr" /\ dpu = "recv_len" /\ Told(Message("ack_addr"))
    \/ host = "send_len" /\ dpu = "recv_len" /\ Quiet
    \/ host = "status_len" /\ dpu = "recv_len" /\ Asked(Length(hostSize))
    \/ host = "status_len" /\ dpu = "ack_len" /\ Quiet
    \/ host = "status_len" /\ dpu \in Copying /\ Told(Message("ack_len"))
    \/ host = "status_done" /\ dpu \in Copying /\ Quiet

\* What a DPU that has left may have told a host that waits for msg next.
LastWords(msg) == {<<>>, <<Message("failure")>>, <<msg>>, <<msg, Message("failure")>>}

DpuLeft ==
    \/ host \in {"connect", "send_dir", "recv_dir"} /\ toHost \in LastWords(FromDpu)
    \/ /\ host \in {"prepare", "send_export", "status_export"}
       /\ toHost \in LastWords(Message("ack_export"))
    \/ /\ host \in {"fill", "send_addr", "status_addr"}
       /\ toHost \in LastWords(Message("ack_addr"))
    \/ /\ host \in {"send_len", "status_len"}
       /\ toHost \in LastWords(Message("ack_len"))
                       \cup {<<Message("ack_len"), Message("done")>>}
    \/ /\ host = "status_done"
       /\ toHost \in {<<>>, <<Message("failure")>>, <<Message("done")>>}
    \/ host = "save" /\ toHost = <<>>

\* What a host that has left may have asked of a running DPU.
HostLeft ==
    \/ dpu \in {"setup", "reply", "ack_export", "ack_addr"} \cup HasLength /\ toDpu = <<>>
    \/ dpu = "recv_dir" /\ toDpu \in {<<>>, <<FromHost>>}
    \/ dpu \in {"alloc", "recv_export"} /\ toDpu \in {<<>>, <<Message("export")>>}
    \/ dpu \in {"map_export", "recv_addr"} /\ toDpu \in {<<>>, <<Message("addr")>>}
    \/ dpu = "recv_len" /\ toDpu \in {<<>>, <<Length(hostSize)>>}

Table ==
    /\ HostRuns /\ DpuRuns => InStep
    /\ HostRuns /\ ~DpuRuns => DpuLeft
    /\ ~HostRuns /\ DpuRuns => HostLeft

\* The DPU's direction message, or the length, is the next message.
DirectionTold == HostRuns /\ toHost # <<>> /\ Head(toHost).kind = "dir"
LengthAsked == DpuRuns /\ toDpu # <<>> /\ Head(toDpu).kind = "len"

\* The host knows the direction; so does the DPU.
HostAgreed == HostSteps \ {"connect", "send_dir", "recv_dir"}
DpuAgreed == DpuSteps \ {"setup", "recv_dir"}

\* The DPU accepts a file on one side only, and both sides get its size.
SizesAgree ==
    /\ dpu \in DpuAgreed \/ DirectionTold =>
           hostHas # dpuHas /\ (hostHas => dpuSize = hostSize)
    /\ host \in HostAgreed \/ LengthAsked => hostHas # dpuHas /\ dpuSize = hostSize
    /\ dpu \in HasLength => dpuLen = hostSize /\ dpuLen = dpuSize

\* The last status is under way, or the host has it.
DoneTold ==
    \/ toHost \in {<<Message("ack_len"), Message("done")>>, <<Message("done")>>}
    \/ host = "save"

Buffers ==
    /\ host \in HostAgreed \ {"prepare"} => hostBuf # "none"
    /\ host \in {"send_addr", "status_addr", "send_len", "status_len", "status_done",
                 "save"} /\ hostHas => hostBuf = "data"
    /\ (dpu \in HasLength \/ LengthAsked) /\ hostHas => hostBuf # "junk"
    /\ dpu \in DpuAgreed \ {"reply", "alloc", "save"} => dpuBuf # "none"
    /\ dpu \in {"submit", "dma", "save"} /\ dpuHas => dpuBuf = "data"
    /\ dpu = "save" => dpuBuf # "junk"
    /\ HostRuns /\ dpu = "save" => hostBuf = "data" /\ dpuBuf = "data"
    /\ HostRuns /\ DoneTold => hostBuf = "data"

Files ==
    /\ FilesKept
    /\ HostRuns /\ DoneTold => dpuFile = "data"
    /\ HostRuns => hostRes = "ok"
    /\ ~HostRuns /\ hostRes = "ok" => ~DpuRuns /\ hostFile = "data" /\ dpuFile = "data"

\* The host does not give up while the DPU may use its buffer.
HostWaits == {<<"host", "status_len">>, <<"host", "status_done">>} \cap Faults = {}
HostStays ==
    HostWaits /\ (dpu \in HasLength \/ (dpu = "recv_len" /\ toDpu # <<>>)) => HostRuns

IInv == TypeOK /\ Table /\ SizesAgree /\ Buffers /\ Files /\ HostStays

-----------------------------------------------------------------------------
\* Queues of at most two messages.
LEMMA ShortQueues ==
  ASSUME NEW a, NEW b
  PROVE  /\ Head(<<a>>) = a /\ Tail(<<a>>) = <<>>
         /\ Head(<<a, b>>) = a /\ Tail(<<a, b>>) = <<b>>
         /\ Append(<<>>, a) = <<a>> /\ Append(<<a>>, b) = <<a, b>>
         /\ <<a>> # <<>> /\ <<a, b>> # <<>>
  <1> DEFINE S == {a, b}
             s == Append(<<a>>, b)
             t == <<a, b>>
  <1>1. <<a>> \in Seq(S) /\ Len(<<a>>) = 1 /\ <<a>>[1] = a
    OBVIOUS
  <1>2. s \in Seq(S) /\ Len(s) = 2 /\ s[1] = a /\ s[2] = b
    BY <1>1
  <1>3. t \in Seq(S) /\ Len(t) = 2 /\ t[1] = a /\ t[2] = b
    OBVIOUS
  <1>4. \A i \in 1..2 : s[i] = t[i]
    BY <1>2, <1>3
  <1>5. s = t
    <2> HIDE DEF s, t, S
    <2> QED BY <1>2, <1>3, <1>4
  <1> QED
    BY <1>5

\* What a message is sent as is what it is.
LEMMA MessageKinds ==
  /\ \A k : Message(k).kind = k
  /\ \A h, n : /\ Direction(h, n).kind = "dir" /\ Direction(h, n).inHost = h
               /\ Direction(h, n).size = n
  /\ \A n : Length(n).kind = "len" /\ Length(n).size = n
  BY DEF Message, Direction, Length

LEMMA MessageTypes ==
  /\ \A k \in Kinds : Message(k) \in Messages
  /\ \A h \in BOOLEAN, n \in Sizes \cup {0} : Direction(h, n) \in Messages
  /\ \A n \in Sizes \cup {0} : Length(n) \in Messages
  BY DEF Message, Direction, Length, Messages, Kinds

LEMMA QueueTypes ==
  ASSUME NEW q \in Seq(Messages), NEW m \in Messages
  PROVE  /\ Append(q, m) \in Seq(Messages)
         /\ q # <<>> => /\ Tail(q) \in Seq(Messages) /\ Head(q) \in Messages
                        /\ Head(q).size \in Sizes \cup {0}
  <1>1. Append(q, m) \in Seq(Messages)
    OBVIOUS
  <1>2. q # <<>> => Tail(q) \in Seq(Messages) /\ Head(q) \in Messages
    OBVIOUS
  <1>3. Head(q) \in Messages => Head(q).size \in Sizes \cup {0}
    BY DEF Messages
  <1> QED
    BY <1>1, <1>2, <1>3

LEMMA InitIInv == Init => IInv
  <1> SUFFICES ASSUME Init PROVE IInv
    OBVIOUS
  <1> USE DmaAssumption DEF Init, HostSteps, DpuSteps
  <1>1. TypeOK
    <2>1. hostSize \in Sizes \cup {0} /\ dpuSize \in Sizes \cup {0}
      OBVIOUS
    <2>2. /\ hostHas \in BOOLEAN /\ dpuHas \in BOOLEAN /\ fault \in BOOLEAN
          /\ hostFile \in {"none", "data"} /\ dpuFile \in {"none", "data"}
      OBVIOUS
    <2> QED
      BY <2>1, <2>2 DEF TypeOK
  <1>2. Table
    BY DEF Table, HostRuns, DpuRuns, InStep, Quiet
  <1>3. SizesAgree /\ Buffers
    BY DEF SizesAgree, Buffers, HasLength, Copying, DirectionTold, LengthAsked, HostAgreed, DpuAgreed,
       DoneTold, HostRuns
  <1>4. Files
    BY DEF Files, FilesKept, HostRuns, DoneTold
  <1>5. HostStays
    BY DEF HostStays, HasLength, Copying
  <1> QED
    BY <1>1, <1>2, <1>3, <1>4, <1>5 DEF IInv

\* A DPU that leaves a running host, with or without a word.
LEMMA Leaves ==
  ASSUME IInv, HostRuns, DpuRuns, UNCHANGED <<host, dpuHas, dpuSize>>,
         toHost' = toHost \/ toHost' = Append(toHost, Message("failure"))
  PROVE  DpuLeft'
  <1> USE DEF HostRuns, DpuRuns, HostSteps, DpuSteps, LastWords, FromDpu
  <1>0. InStep
    BY DEF IInv, Table
  <1>1. CASE toHost = <<>>
    <2>1. toHost' \in {<<>>, <<Message("failure")>>}
      BY <1>1, ShortQueues
    <2>2. host # "save"
      BY <1>0 DEF InStep
    <2> QED
      BY <2>1, <2>2 DEF DpuLeft
  <1>2. CASE host = "recv_dir" /\ toHost = <<FromDpu>>
    BY <1>2, ShortQueues DEF DpuLeft
  <1>3. CASE host = "status_export" /\ toHost = <<Message("ack_export")>>
    BY <1>3, ShortQueues DEF DpuLeft
  <1>4. CASE host = "status_addr" /\ toHost = <<Message("ack_addr")>>
    BY <1>4, ShortQueues DEF DpuLeft
  <1>5. CASE host = "status_len" /\ toHost = <<Message("ack_len")>>
    BY <1>5, ShortQueues DEF DpuLeft
  <1> QED
    BY <1>0, <1>1, <1>2, <1>3, <1>4, <1>5 DEF InStep, Quiet, Told, Asked

\* A DPU that leaves after a running host has received its last status, or
\* with a failure, has not told the end of the copy.
LEMMA LeavesNotDone ==
  ASSUME IInv, HostRuns, DpuRuns, UNCHANGED host,
         toHost' = toHost \/ toHost' = Append(toHost, Message("failure"))
  PROVE  ~DoneTold'
  <1> USE DEF HostRuns, DpuRuns, HostSteps, DpuSteps
  <1>0. InStep
    BY DEF IInv, Table
  <1>1. host # "save" /\ (toHost = <<>> \/ \E m : toHost = <<m>> /\ m.kind # "done")
    BY <1>0, MessageKinds DEF InStep, Quiet, Told, Asked, FromDpu
  <1>2. Message("failure") # Message("done")
    BY MessageKinds
  <1>3. CASE toHost = <<>>
    <2>1. toHost' = <<>> \/ toHost' = <<Message("failure")>>
      BY <1>3, ShortQueues
    <2> QED
      BY <1>1, <1>2, <2>1 DEF DoneTold
  <1>4. CASE toHost # <<>>
    <2>1. PICK m : toHost = <<m>> /\ m.kind # "done"
      BY <1>1, <1>4
    <2>2. m # Message("done")
      BY <2>1, MessageKinds
    <2>3. toHost' = <<m>> \/ toHost' = <<m, Message("failure")>>
      BY <2>1, ShortQueues
    <2> QED
      BY <1>1, <1>2, <2>2, <2>3 DEF DoneTold
  <1> QED
    BY <1>3, <1>4

LEMMA HostIInv == IInv /\ (HostStep \/ HostFails) => IInv'
  <1> SUFFICES ASSUME IInv, HostStep \/ HostFails PROVE IInv'
    OBVIOUS
  <1> USE DmaAssumption DEF HostSteps, DpuSteps, HostRuns, DpuRuns, HostAgreed,
      DpuAgreed, HasLength, Copying, hostVars, dpuVars, FromHost, FromDpu
  <1>0. TypeOK
    BY DEF IInv
  <1>1. CASE HostConnect
    <2> USE <1>1 DEF HostConnect, HostGo, HostError
    <2>1. TypeOK'
      BY <1>0 DEF TypeOK
    <2>2. Table'
      BY DEF IInv, Table, InStep, DpuLeft, HostLeft, LastWords, Quiet, Told, Asked
    <2>3. SizesAgree'
      BY DEF IInv, SizesAgree, DirectionTold, LengthAsked
    <2>4. Buffers'
      BY DEF IInv, Buffers, LengthAsked, DoneTold
    <2>5. Files'
      BY DEF IInv, Files, FilesKept, DoneTold
    <2>6. HostStays'
      BY DEF IInv, HostStays, HostWaits
    <2> QED
      BY <2>1, <2>2, <2>3, <2>4, <2>5, <2>6 DEF IInv
  <1>2. CASE HostSendDirection
    <2> USE <1>2 DEF HostSendDirection, HostSend, HostGo
    <2>1. TypeOK'
      BY <1>0, QueueTypes, MessageTypes DEF TypeOK, Kinds
    <2>2. Table'
      <3>1. CASE DpuRuns
        <4>1. Quiet /\ InStep
          BY <3>1 DEF IInv, Table, InStep
        <4>2. toHost' = <<>> /\ toDpu' = <<FromHost>>
          BY <4>1, ShortQueues DEF Quiet
        <4> QED
          BY <3>1, <4>1, <4>2 DEF Table, InStep, Asked
      <3>2. CASE ~DpuRuns
        BY <3>2 DEF IInv, Table, DpuLeft, LastWords
      <3> QED
        BY <3>1, <3>2
    <2>3. SizesAgree'
      BY ShortQueues, MessageKinds
         DEF IInv, Table, InStep, DpuLeft, HostLeft, LastWords, Quiet, Told, Asked,
             SizesAgree, DirectionTold, LengthAsked
    <2>4. Buffers'
      BY ShortQueues, MessageKinds
         DEF IInv, Table, InStep, DpuLeft, HostLeft, LastWords, Quiet, Told, Asked,
             Buffers, SizesAgree, Files, FilesKept, DirectionTold, LengthAsked,
             DoneTold
    <2>5. Files'
      BY DEF IInv, Files, FilesKept, DoneTold
    <2>6. HostStays'
      BY DEF IInv, HostStays, HostWaits
    <2> QED
      BY <2>1, <2>2, <2>3, <2>4, <2>5, <2>6 DEF IInv
  <1>3. CASE HostReceiveDirection
    <2> USE <1>3 DEF HostReceiveDirection, HostGo, HostError, IsDirection
    <2>a. /\ host = "recv_dir" /\ toHost # <<>>
          /\ \/ DpuRuns /\ Told(FromDpu) /\ dpu \in {"alloc", "recv_export"}
             \/ ~DpuRuns /\ toHost \in LastWords(FromDpu)
      BY ShortQueues DEF IInv, Table, InStep, DpuLeft, Quiet, Told, Asked
    <2>b. \/ /\ DpuRuns /\ toDpu = <<>> /\ dpu \in {"alloc", "recv_export"}
             /\ toHost' = <<>> /\ host' = "prepare" /\ hostRes' = hostRes
          \/ ~DpuRuns /\ host' = "free" /\ hostRes' = "error"
          \/ /\ ~DpuRuns /\ toHost' \in {<<>>, <<Message("failure")>>}
             /\ host' = "prepare" /\ hostRes' = hostRes
      <3>1. FromDpu.kind = "dir" /\ Message("failure").kind = "failure"
        BY MessageKinds
      <3>2. CASE toHost = <<Message("failure")>>
        BY <2>a, <3>1, <3>2, ShortQueues DEF Told
      <3>3. CASE toHost = <<FromDpu>>
        BY <2>a, <3>1, <3>3, ShortQueues DEF Told
      <3>4. CASE toHost = <<FromDpu, Message("failure")>>
        BY <2>a, <3>1, <3>4, ShortQueues DEF Told
      <3> QED
        BY <2>a, <3>2, <3>3, <3>4 DEF Told, LastWords
    <2>c. HostRuns' => ~DoneTold'
      <3>1. Message("failure") # Message("done")
        BY MessageKinds
      <3>2. toHost' \in {<<>>, <<Message("failure")>>} /\ host' # "save" => ~DoneTold'
        BY <3>1 DEF DoneTold
      <3> QED
        BY <2>b, <3>2
    <2>d. host' = "prepare" => hostHas # dpuHas /\ hostSize' = dpuSize
      <3>1. CASE ~IsDirection(Head(toHost))
        BY <3>1
      <3>2. CASE IsDirection(Head(toHost))
        <4>1. hostHas # dpuHas /\ (hostHas => dpuSize = hostSize)
          BY <2>a, <3>2 DEF IInv, SizesAgree, DirectionTold
        <4>2. Head(toHost) = FromDpu
          BY <2>a, <3>2, ShortQueues, MessageKinds DEF Told, LastWords
        <4>3. Head(toHost).size = IF dpuHas THEN dpuSize ELSE 0
          BY <4>2, MessageKinds
        <4> QED
          BY <1>0, <3>2, <4>1, <4>3 DEF TypeOK
      <3> QED
        BY <3>1, <3>2
    <2>1. TypeOK'
      BY <1>0, <2>a, QueueTypes, MessageTypes DEF TypeOK
    <2>2. Table'
      BY <2>a, <2>b, ShortQueues DEF Table, InStep, DpuLeft, Quiet, Told, Asked, LastWords
    <2>3. SizesAgree'
      BY <2>a, <2>b, <2>d, ShortQueues, MessageKinds DEF IInv, SizesAgree, DirectionTold, LengthAsked
    <2>4. Buffers'
      BY <2>a, <2>b, <2>c DEF IInv, Buffers, LengthAsked
    <2>5. Files'
      BY <2>a, <2>b, <2>c DEF IInv, Files, FilesKept
    <2>6. HostStays'
      BY <2>a, <2>b DEF IInv, HostStays, HostWaits
    <2> QED
      BY <2>1, <2>2, <2>3, <2>4, <2>5, <2>6 DEF IInv
  <1>4. CASE HostPrepare
    <2> USE <1>4 DEF HostPrepare, HostGo
    <2>1. TypeOK'
      BY <1>0 DEF TypeOK
    <2>2. Table'
      BY DEF IInv, Table, InStep, DpuLeft, HostLeft, LastWords, Quiet, Told, Asked
    <2>3. SizesAgree'
      BY DEF IInv, SizesAgree, DirectionTold, LengthAsked
    <2>4. Buffers'
      BY ShortQueues, MessageKinds
         DEF IInv, Table, InStep, DpuLeft, HostLeft, LastWords, Quiet, Told, Asked,
             Buffers, SizesAgree, Files, FilesKept, DirectionTold, LengthAsked,
             DoneTold
    <2>5. Files'
      BY DEF IInv, Files, FilesKept, DoneTold
    <2>6. HostStays'
      BY DEF IInv, HostStays, HostWaits
    <2> QED
      BY <2>1, <2>2, <2>3, <2>4, <2>5, <2>6 DEF IInv
  <1>5. CASE HostSendExport
    <2> USE <1>5 DEF HostSendExport, HostSend, HostGo
    <2>1. TypeOK'
      BY <1>0, QueueTypes, MessageTypes DEF TypeOK, Kinds
    <2>2. Table'
      <3>1. CASE DpuRuns
        <4>1. Quiet /\ InStep
          BY <3>1 DEF IInv, Table, InStep
        <4>2. toHost' = <<>> /\ toDpu' = <<Message("export")>>
          BY <4>1, ShortQueues DEF Quiet
        <4> QED
          BY <3>1, <4>1, <4>2 DEF Table, InStep, Asked
      <3>2. CASE ~DpuRuns
        BY <3>2 DEF IInv, Table, DpuLeft, LastWords
      <3> QED
        BY <3>1, <3>2
    <2>3. SizesAgree'
      BY DEF IInv, SizesAgree, DirectionTold, LengthAsked
    <2>4. Buffers'
      BY ShortQueues, MessageKinds
         DEF IInv, Table, InStep, DpuLeft, HostLeft, LastWords, Quiet, Told, Asked,
             Buffers, SizesAgree, Files, FilesKept, DirectionTold, LengthAsked,
             DoneTold
    <2>5. Files'
      BY DEF IInv, Files, FilesKept, DoneTold
    <2>6. HostStays'
      BY DEF IInv, HostStays, HostWaits
    <2> QED
      BY <2>1, <2>2, <2>3, <2>4, <2>5, <2>6 DEF IInv
  <1>6. CASE HostExportStatus
    <2> USE <1>6 DEF HostExportStatus, HostStatus, HostGo, HostError
    <2>a. /\ host = "status_export" /\ toHost # <<>>
          /\ \/ DpuRuns /\ Told(Message("ack_export")) /\ dpu \in {"map_export", "recv_addr"}
             \/ ~DpuRuns /\ toHost \in LastWords(Message("ack_export"))
      BY ShortQueues DEF IInv, Table, InStep, DpuLeft, Quiet, Told, Asked
    <2>b. \/ /\ DpuRuns /\ Told(Message("ack_export")) /\ dpu \in {"map_export", "recv_addr"}
             /\ toHost' = <<>> /\ host' = "fill" /\ hostRes' = hostRes
          \/ ~DpuRuns /\ host' = "free" /\ hostRes' = "error"
          \/ /\ ~DpuRuns /\ toHost' \in {<<>>, <<Message("failure")>>}
             /\ host' = "fill" /\ hostRes' = hostRes
      <3>1. Message("ack_export").kind # "failure" /\ Message("failure").kind = "failure"
        BY MessageKinds
      <3>2. CASE toHost = <<Message("failure")>>
        BY <2>a, <3>1, <3>2, ShortQueues DEF Told
      <3>3. CASE toHost = <<Message("ack_export")>>
        BY <2>a, <3>1, <3>3, ShortQueues DEF Told
      <3>4. CASE toHost = <<Message("ack_export"), Message("failure")>>
        BY <2>a, <3>1, <3>4, ShortQueues DEF Told
      <3> QED
        BY <2>a, <3>2, <3>3, <3>4 DEF Told, LastWords
    <2>1. TypeOK'
      BY <1>0, <2>a, QueueTypes, MessageTypes DEF TypeOK
    <2>2. Table'
      BY <2>a, <2>b, ShortQueues DEF Table, InStep, DpuLeft, Quiet, Told, Asked, LastWords
    <2>3. SizesAgree'
      BY <2>a, <2>b, ShortQueues, MessageKinds DEF IInv, SizesAgree, DirectionTold, LengthAsked
    <2>c. HostRuns' => ~DoneTold'
      <3>1. Message("failure") # Message("done")
        BY MessageKinds
      <3>2. toHost' \in {<<>>, <<Message("failure")>>} /\ host' # "save" => ~DoneTold'
        BY <3>1 DEF DoneTold
      <3> QED
        BY <2>b, <3>2
    <2>4. Buffers'
      BY <2>a, <2>b, <2>c DEF IInv, Buffers, DirectionTold, LengthAsked
    <2>5. Files'
      BY <2>a, <2>b, <2>c DEF IInv, Files, FilesKept
    <2>6. HostStays'
      BY <2>a, <2>b DEF IInv, HostStays, HostWaits
    <2> QED
      BY <2>1, <2>2, <2>3, <2>4, <2>5, <2>6 DEF IInv
  <1>7. CASE HostFill
    <2> USE <1>7 DEF HostFill, HostGo
    <2>1. TypeOK'
      BY <1>0 DEF IInv, TypeOK, Files, FilesKept
    <2>2. Table'
      BY DEF IInv, Table, InStep, DpuLeft, HostLeft, LastWords, Quiet, Told, Asked
    <2>3. SizesAgree'
      BY DEF IInv, SizesAgree, DirectionTold, LengthAsked
    <2>4. Buffers'
      BY ShortQueues, MessageKinds
         DEF IInv, Table, InStep, DpuLeft, HostLeft, LastWords, Quiet, Told, Asked,
             Buffers, SizesAgree, Files, FilesKept, DirectionTold, LengthAsked,
             DoneTold
    <2>5. Files'
      BY DEF IInv, Files, FilesKept, DoneTold
    <2>6. HostStays'
      BY DEF IInv, HostStays, HostWaits
    <2> QED
      BY <2>1, <2>2, <2>3, <2>4, <2>5, <2>6 DEF IInv
  <1>8. CASE HostSendAddress
    <2> USE <1>8 DEF HostSendAddress, HostSend, HostGo
    <2>1. TypeOK'
      BY <1>0, QueueTypes, MessageTypes DEF TypeOK, Kinds
    <2>2. Table'
      <3>1. CASE DpuRuns
        <4>1. Quiet /\ InStep
          BY <3>1 DEF IInv, Table, InStep
        <4>2. toHost' = <<>> /\ toDpu' = <<Message("addr")>>
          BY <4>1, ShortQueues DEF Quiet
        <4> QED
          BY <3>1, <4>1, <4>2 DEF Table, InStep, Asked
      <3>2. CASE ~DpuRuns
        BY <3>2 DEF IInv, Table, DpuLeft, LastWords
      <3> QED
        BY <3>1, <3>2
    <2>3. SizesAgree'
      BY DEF IInv, SizesAgree, DirectionTold, LengthAsked
    <2>4. Buffers'
      BY DEF IInv, Buffers, LengthAsked, DoneTold
    <2>5. Files'
      BY DEF IInv, Files, FilesKept, DoneTold
    <2>6. HostStays'
      BY DEF IInv, HostStays, HostWaits
    <2> QED
      BY <2>1, <2>2, <2>3, <2>4, <2>5, <2>6 DEF IInv
  <1>9. CASE HostAddressStatus
    <2> USE <1>9 DEF HostAddressStatus, HostStatus, HostGo, HostError
    <2>a. /\ host = "status_addr" /\ toHost # <<>>
          /\ \/ DpuRuns /\ Told(Message("ack_addr")) /\ dpu \in {"recv_len"}
             \/ ~DpuRuns /\ toHost \in LastWords(Message("ack_addr"))
      BY ShortQueues DEF IInv, Table, InStep, DpuLeft, Quiet, Told, Asked
    <2>b. \/ /\ DpuRuns /\ Told(Message("ack_addr")) /\ dpu \in {"recv_len"}
             /\ toHost' = <<>> /\ host' = "send_len" /\ hostRes' = hostRes
          \/ ~DpuRuns /\ host' = "free" /\ hostRes' = "error"
          \/ /\ ~DpuRuns /\ toHost' \in {<<>>, <<Message("failure")>>}
             /\ host' = "send_len" /\ hostRes' = hostRes
      <3>1. Message("ack_addr").kind # "failure" /\ Message("failure").kind = "failure"
        BY MessageKinds
      <3>2. CASE toHost = <<Message("failure")>>
        BY <2>a, <3>1, <3>2, ShortQueues DEF Told
      <3>3. CASE toHost = <<Message("ack_addr")>>
        BY <2>a, <3>1, <3>3, ShortQueues DEF Told
      <3>4. CASE toHost = <<Message("ack_addr"), Message("failure")>>
        BY <2>a, <3>1, <3>4, ShortQueues DEF Told
      <3> QED
        BY <2>a, <3>2, <3>3, <3>4 DEF Told, LastWords
    <2>1. TypeOK'
      BY <1>0, <2>a, QueueTypes, MessageTypes DEF TypeOK
    <2>2. Table'
      BY <2>a, <2>b, ShortQueues DEF Table, InStep, DpuLeft, Quiet, Told, Asked, LastWords
    <2>3. SizesAgree'
      BY <2>a, <2>b, ShortQueues, MessageKinds DEF IInv, SizesAgree, DirectionTold, LengthAsked
    <2>c. HostRuns' => ~DoneTold'
      <3>1. Message("failure") # Message("done")
        BY MessageKinds
      <3>2. toHost' \in {<<>>, <<Message("failure")>>} /\ host' # "save" => ~DoneTold'
        BY <3>1 DEF DoneTold
      <3> QED
        BY <2>b, <3>2
    <2>4. Buffers'
      BY <2>a, <2>b, <2>c DEF IInv, Buffers, DirectionTold, LengthAsked
    <2>5. Files'
      BY <2>a, <2>b, <2>c DEF IInv, Files, FilesKept
    <2>6. HostStays'
      BY <2>a, <2>b DEF IInv, HostStays, HostWaits
    <2> QED
      BY <2>1, <2>2, <2>3, <2>4, <2>5, <2>6 DEF IInv
  <1>10. CASE HostSendLength
    <2> USE <1>10 DEF HostSendLength, HostSend, HostGo
    <2>1. TypeOK'
      BY <1>0, QueueTypes, MessageTypes DEF TypeOK, Kinds
    <2>2. Table'
      <3>1. CASE DpuRuns
        <4>1. Quiet /\ InStep
          BY <3>1 DEF IInv, Table, InStep
        <4>2. toHost' = <<>> /\ toDpu' = <<Length(hostSize)>>
          BY <4>1, ShortQueues DEF Quiet
        <4> QED
          BY <3>1, <4>1, <4>2 DEF Table, InStep, Asked
      <3>2. CASE ~DpuRuns
        BY <3>2 DEF IInv, Table, DpuLeft, LastWords
      <3> QED
        BY <3>1, <3>2
    <2>3. SizesAgree'
      BY DEF IInv, SizesAgree, DirectionTold, LengthAsked
    <2>4. Buffers'
      BY DEF IInv, Buffers, LengthAsked, DoneTold
    <2>5. Files'
      BY DEF IInv, Files, FilesKept, DoneTold
    <2>6. HostStays'
      BY DEF IInv, HostStays, HostWaits
    <2> QED
      BY <2>1, <2>2, <2>3, <2>4, <2>5, <2>6 DEF IInv
  <1>11. CASE HostLengthStatus
    <2> USE <1>11 DEF HostLengthStatus, HostStatus, HostGo, HostError
    <2>a. /\ host = "status_len" /\ toHost # <<>>
          /\ \/ DpuRuns /\ Told(Message("ack_len")) /\ dpu \in Copying
             \/ /\ ~DpuRuns
                /\ toHost \in LastWords(Message("ack_len"))
                              \cup {<<Message("ack_len"), Message("done")>>}
      BY ShortQueues DEF IInv, Table, InStep, DpuLeft, Quiet, Told, Asked
    <2>b. \/ /\ DpuRuns /\ Told(Message("ack_len")) /\ dpu \in Copying
             /\ toHost' = <<>> /\ host' = "status_done" /\ hostRes' = hostRes
          \/ ~DpuRuns /\ host' = "free" /\ hostRes' = "error"
          \/ /\ ~DpuRuns /\ toHost' = <<Message("done")>> /\ DoneTold
             /\ host' = "status_done" /\ hostRes' = hostRes
          \/ /\ ~DpuRuns /\ toHost' \in {<<>>, <<Message("failure")>>}
             /\ host' = "status_done" /\ hostRes' = hostRes
      <3>1. Message("ack_len").kind # "failure" /\ Message("failure").kind = "failure"
        BY MessageKinds
      <3>2. CASE toHost = <<Message("failure")>>
        BY <2>a, <3>1, <3>2, ShortQueues DEF Told
      <3>3. CASE toHost = <<Message("ack_len")>>
        BY <2>a, <3>1, <3>3, ShortQueues DEF Told
      <3>4. CASE toHost = <<Message("ack_len"), Message("failure")>>
        BY <2>a, <3>1, <3>4, ShortQueues DEF Told
      <3>5. CASE toHost = <<Message("ack_len"), Message("done")>>
        BY <2>a, <3>1, <3>5, ShortQueues DEF Told, DoneTold
      <3> QED
        BY <2>a, <3>2, <3>3, <3>4, <3>5 DEF Told, LastWords
    <2>1. TypeOK'
      BY <1>0, <2>a, QueueTypes, MessageTypes DEF TypeOK
    <2>2. Table'
      BY <2>a, <2>b, ShortQueues DEF Table, InStep, DpuLeft, Quiet, Told, Asked, LastWords
    <2>3. SizesAgree'
      BY <2>a, <2>b, ShortQueues, MessageKinds DEF IInv, SizesAgree, DirectionTold, LengthAsked
    <2>c. HostRuns' /\ DoneTold' => HostRuns /\ DoneTold
      <3>1. Message("failure") # Message("done")
        BY MessageKinds
      <3>2. toHost' \in {<<>>, <<Message("failure")>>} /\ host' # "save" => ~DoneTold'
        BY <3>1 DEF DoneTold
      <3> QED
        BY <2>a, <2>b, <3>2
    <2>4. Buffers'
      BY <2>a, <2>b, <2>c DEF IInv, Buffers, DirectionTold, LengthAsked
    <2>5. Files'
      BY <2>a, <2>b, <2>c DEF IInv, Files, FilesKept
    <2>6. HostStays'
      BY <2>a, <2>b DEF IInv, HostStays, HostWaits
    <2> QED
      BY <2>1, <2>2, <2>3, <2>4, <2>5, <2>6 DEF IInv
  <1>12. CASE HostDone
    <2> USE <1>12 DEF HostDone, HostStatus, HostGo, HostError
    <2>0. host = "status_done" /\ toHost # <<>> /\ toHost' = Tail(toHost)
      OBVIOUS
    <2>a. ~DpuRuns /\ toHost \in {<<Message("failure")>>, <<Message("done")>>}
      <3>1. CASE DpuRuns
        BY <2>0, <3>1 DEF IInv, Table, InStep, HostRuns, HostSteps, Quiet, Told
      <3>2. CASE ~DpuRuns
        BY <2>0, <3>2 DEF IInv, Table, DpuLeft, HostRuns, HostSteps
      <3> QED
        BY <3>1, <3>2
    <2>b. \/ toHost = <<Message("failure")>> /\ toHost' = <<>> /\ host' = "free" /\ hostRes' = "error"
          \/ toHost = <<Message("done")>> /\ toHost' = <<>> /\ host' = "save" /\ hostRes' = hostRes
      <3>1. Message("done").kind # "failure" /\ Message("failure").kind = "failure"
        BY MessageKinds
      <3>2. CASE toHost = <<Message("failure")>>
        BY <3>1, <3>2, ShortQueues
      <3>3. CASE toHost = <<Message("done")>>
        BY <3>1, <3>3, ShortQueues
      <3> QED
        BY <2>a, <3>2, <3>3
    <2>1. TypeOK'
      BY <1>0, QueueTypes, MessageTypes DEF TypeOK
    <2>2. Table'
      BY <2>a, <2>b DEF Table, DpuLeft, HostRuns, DpuRuns, HostSteps
    <2>3. SizesAgree'
      BY <2>b DEF IInv, SizesAgree, DirectionTold, LengthAsked
    <2>4. Buffers'
      BY <2>a, <2>b DEF IInv, Buffers, DirectionTold, LengthAsked, DoneTold
    <2>5. Files'
      BY <2>a, <2>b DEF IInv, Files, FilesKept, DoneTold
    <2>6. HostStays'
      BY <2>a, <2>b DEF IInv, HostStays, HostWaits
    <2> QED
      BY <2>1, <2>2, <2>3, <2>4, <2>5, <2>6 DEF IInv
  <1>13. CASE HostSave
    <2> USE <1>13 DEF HostSave, HostGo
    <2>1. TypeOK'
      BY <1>0 DEF TypeOK
    <2>2. Table'
      BY DEF IInv, Table, InStep, DpuLeft, HostLeft, LastWords, Quiet, Told, Asked
    <2>3. SizesAgree'
      BY DEF IInv, SizesAgree, DirectionTold, LengthAsked
    <2>4. Buffers'
      BY DEF IInv, Buffers, LengthAsked, DoneTold
    <2>5. Files'
      BY ShortQueues, MessageKinds
         DEF IInv, Table, InStep, DpuLeft, HostLeft, LastWords, Quiet, Told, Asked,
             Files, FilesKept, Buffers, SizesAgree, DoneTold
    <2>6. HostStays'
      BY ShortQueues, MessageKinds
         DEF IInv, Table, InStep, DpuLeft, HostLeft, LastWords, Quiet, Told, Asked,
             HostStays, HostWaits
    <2> QED
      BY <2>1, <2>2, <2>3, <2>4, <2>5, <2>6 DEF IInv
  <1>14. CASE HostFree
    <2> USE <1>14 DEF HostFree, HostGo
    <2>1. TypeOK'
      BY <1>0 DEF TypeOK
    <2>2. Table'
      BY DEF IInv, Table, InStep, DpuLeft, HostLeft, LastWords, Quiet, Told, Asked
    <2>3. SizesAgree'
      BY DEF IInv, SizesAgree, DirectionTold, LengthAsked
    <2>4. Buffers'
      BY DEF IInv, Buffers, LengthAsked, DoneTold
    <2>5. Files'
      BY DEF IInv, Files, FilesKept, DoneTold
    <2>6. HostStays'
      BY DEF IInv, HostStays, HostWaits
    <2> QED
      BY <2>1, <2>2, <2>3, <2>4, <2>5, <2>6 DEF IInv
  <1>15. CASE HostReset
    <2> USE <1>15 DEF HostReset, HostError
    <2>1. TypeOK'
      BY <1>0 DEF TypeOK
    <2>2. Table'
      BY DEF IInv, Table, InStep, DpuLeft, HostLeft, LastWords, Quiet, Told, Asked
    <2>3. SizesAgree'
      BY DEF IInv, SizesAgree, DirectionTold, LengthAsked
    <2>4. Buffers'
      BY DEF IInv, Buffers, LengthAsked, DoneTold
    <2>5. Files'
      BY DEF IInv, Files, FilesKept, DoneTold
    <2>6. HostStays'
      BY DEF IInv, HostStays, HostWaits
    <2> QED
      BY <2>1, <2>2, <2>3, <2>4, <2>5, <2>6 DEF IInv
  <1>16. CASE HostFails
    <2> USE <1>16 DEF HostFails, HostError, Fails
    <2>1. TypeOK'
      BY <1>0 DEF TypeOK
    <2>2. Table'
      BY DEF IInv, Table, InStep, DpuLeft, HostLeft, LastWords, Quiet, Told, Asked
    <2>3. SizesAgree'
      BY DEF IInv, SizesAgree, DirectionTold, LengthAsked
    <2>4. Buffers'
      BY DEF IInv, Buffers, LengthAsked, DoneTold
    <2>5. Files'
      BY DEF IInv, Files, FilesKept, DoneTold
    <2>6. HostStays'
      BY ShortQueues, MessageKinds
         DEF IInv, Table, InStep, DpuLeft, HostLeft, LastWords, Quiet, Told, Asked,
             HostStays, HostWaits
    <2> QED
      BY <2>1, <2>2, <2>3, <2>4, <2>5, <2>6 DEF IInv
  <1> QED
    BY <1>1, <1>2, <1>3, <1>4, <1>5, <1>6, <1>7, <1>8, <1>9, <1>10, <1>11, <1>12, <1>13, <1>14, <1>15, <1>16 DEF HostStep

LEMMA DpuIInv == IInv /\ (DpuStep \/ DpuFails) => IInv'
  <1> SUFFICES ASSUME IInv, DpuStep \/ DpuFails PROVE IInv'
    OBVIOUS
  <1> USE DmaAssumption DEF HostSteps, DpuSteps, HostRuns, DpuRuns, HostAgreed,
      DpuAgreed, HasLength, Copying, hostVars, dpuVars, FromHost, FromDpu
  <1>0. TypeOK
    BY DEF IInv
  <1>t. /\ toHost \in Seq(Messages)
        /\ Append(toHost, Message("failure")) \in Seq(Messages)
        /\ Append(toHost, Message("done")) \in Seq(Messages)
    <2>1. toHost \in Seq(Messages)
      BY <1>0 DEF TypeOK
    <2>2. Message("failure") \in Messages /\ Message("done") \in Messages
      BY MessageTypes DEF Kinds
    <2> QED
      BY <2>1, <2>2, QueueTypes
  <1>1. CASE DpuSetup
    <2> USE <1>1 DEF DpuSetup, DpuGo
    <2>1. TypeOK'
      BY <1>0 DEF TypeOK
    <2>2. Table'
      BY DEF IInv, Table, InStep, DpuLeft, HostLeft, LastWords, Quiet, Told, Asked
    <2>3. SizesAgree'
      BY DEF IInv, SizesAgree, DirectionTold, LengthAsked
    <2>4. Buffers'
      BY DEF IInv, Buffers, LengthAsked, DoneTold
    <2>5. Files'
      BY DEF IInv, Files, FilesKept, DoneTold
    <2>6. HostStays'
      BY DEF IInv, HostStays, HostWaits
    <2> QED
      BY <2>1, <2>2, <2>3, <2>4, <2>5, <2>6 DEF IInv
  <1>2. CASE DpuReceiveDirection
    <2> USE <1>2 DEF DpuReceiveDirection, DpuGo, DpuError, DpuTells, OnOneSide
    <2>a. /\ dpu = "recv_dir" /\ toDpu = <<FromHost>>
          /\ HostRuns => host = "recv_dir" /\ toHost = <<>>
      BY ShortQueues DEF IInv, Table, InStep, HostLeft, Quiet, Told, Asked
    <2>b. /\ toDpu' = <<>>
          /\ Head(toDpu).inHost = hostHas /\ Head(toDpu).size = hostSize
      BY <2>a, ShortQueues, MessageKinds
    <2>1. TypeOK'
      <3>1. toHost' \in Seq(Messages)
        BY <1>t
      <3>2. dpuSize' \in Sizes \cup {0}
        BY <1>0, <2>b DEF TypeOK
      <3>3. toDpu' \in Seq(Messages)
        BY <1>0, <2>a, QueueTypes, MessageTypes DEF TypeOK
      <3> QED
        BY <1>0, <3>1, <3>2, <3>3 DEF TypeOK
    <2>c. DpuRuns' => dpu' = "reply" /\ dpuHas # hostHas /\ toHost' = toHost
      BY <2>b
    <2>d. dpuSize' = IF dpu' = "reply" /\ ~dpuHas THEN hostSize ELSE dpuSize
      BY <2>b
    <2>e. ~DpuRuns' => toHost' = Append(toHost, Message("failure")) /\ dpuSize' = dpuSize
      OBVIOUS
    <2>f. HostRuns' => ~DoneTold'
      BY <2>a, <2>c, <2>e, LeavesNotDone
    <2>2. Table'
      <3>1. CASE DpuRuns'
        BY <2>a, <2>b, <2>c, <3>1 DEF Table, InStep, HostLeft, Quiet
      <3>2. CASE ~DpuRuns'
        BY <2>a, <2>e, <3>2, Leaves DEF Table
      <3> QED
        BY <3>1, <3>2
    <2>3. SizesAgree'
      BY <1>0, <2>a, <2>b, <2>c, <2>d, <2>e, ShortQueues, MessageKinds
         DEF IInv, SizesAgree, DirectionTold, LengthAsked, TypeOK
    <2>4. Buffers'
      BY <2>a, <2>b, <2>c, <2>e, <2>f DEF IInv, Buffers, LengthAsked
    <2>5. Files'
      BY <2>a, <2>c, <2>f DEF IInv, Files, FilesKept
    <2>6. HostStays'
      BY <2>a, <2>b, <2>c DEF IInv, HostStays
    <2> QED
      BY <2>1, <2>2, <2>3, <2>4, <2>5, <2>6 DEF IInv
  <1>3. CASE DpuReply
    <2> USE <1>3 DEF DpuReply, DpuGo, DpuError, DpuTells
    <2>1. TypeOK'
      <3>a. Direction(~dpuHas, IF dpuHas THEN dpuSize ELSE 0) \in Messages
        BY <1>0, MessageTypes DEF TypeOK
      <3>b. Append(toHost, FromDpu) \in Seq(Messages)
        BY <1>t, <3>a, QueueTypes
      <3>1. toHost' \in Seq(Messages)
        BY <1>t, <3>b
      <3> QED
        BY <1>0, <3>1 DEF TypeOK
    <2>a. /\ dpu = "reply" /\ toDpu = <<>>
          /\ HostRuns => host = "recv_dir" /\ toHost = <<>>
      BY DEF IInv, Table, InStep, HostLeft, Quiet
    <2>b. \/ dpu' = "alloc" /\ (HostRuns => toHost' = <<FromDpu>>)
          \/ ~DpuRuns' /\ toHost' = Append(toHost, Message("failure"))
      BY <2>a, ShortQueues
    <2>2. Table'
      <3>1. CASE DpuRuns'
        BY <2>a, <2>b, <3>1 DEF Table, InStep, HostLeft, Told
      <3>2. CASE ~DpuRuns'
        BY <2>a, <2>b, <3>2, Leaves DEF Table
      <3> QED
        BY <3>1, <3>2
    <2>3. SizesAgree'
      BY DEF IInv, SizesAgree, DirectionTold, LengthAsked
    <2>4. Buffers'
      BY ShortQueues, MessageKinds
         DEF IInv, Table, InStep, DpuLeft, HostLeft, LastWords, Quiet, Told, Asked,
             Buffers, SizesAgree, Files, FilesKept, DirectionTold, LengthAsked,
             DoneTold
    <2>5. Files'
      BY ShortQueues, MessageKinds
         DEF IInv, Table, InStep, DpuLeft, HostLeft, LastWords, Quiet, Told, Asked,
             Files, FilesKept, Buffers, SizesAgree, DoneTold
    <2>6. HostStays'
      BY DEF IInv, HostStays, HostWaits
    <2> QED
      BY <2>1, <2>2, <2>3, <2>4, <2>5, <2>6 DEF IInv
  <1>4. CASE DpuAlloc
    <2> USE <1>4 DEF DpuAlloc, DpuGo
    <2>1. TypeOK'
      BY <1>0 DEF TypeOK
    <2>2. Table'
      BY DEF IInv, Table, InStep, DpuLeft, HostLeft, LastWords, Quiet, Told, Asked
    <2>3. SizesAgree'
      BY DEF IInv, SizesAgree, DirectionTold, LengthAsked
    <2>4. Buffers'
      BY DEF IInv, Buffers, LengthAsked, DoneTold
    <2>5. Files'
      BY DEF IInv, Files, FilesKept, DoneTold
    <2>6. HostStays'
      BY DEF IInv, HostStays, HostWaits
    <2> QED
      BY <2>1, <2>2, <2>3, <2>4, <2>5, <2>6 DEF IInv
  <1>5. CASE DpuReceiveExport
    <2> USE <1>5 DEF DpuReceiveExport, DpuReceive, DpuGo
    <2>1. TypeOK'
      BY <1>0, QueueTypes DEF TypeOK
    <2>2. Table'
      BY ShortQueues, MessageKinds DEF IInv, Table, InStep, DpuLeft, HostLeft, LastWords, Quiet, Told, Asked
    <2>3. SizesAgree'
      BY ShortQueues, MessageKinds
         DEF IInv, Table, InStep, DpuLeft, HostLeft, LastWords, Quiet, Told, Asked,
             SizesAgree, DirectionTold, LengthAsked
    <2>4. Buffers'
      BY ShortQueues, MessageKinds
         DEF IInv, Table, InStep, DpuLeft, HostLeft, LastWords, Quiet, Told, Asked,
             Buffers, SizesAgree, Files, FilesKept, DirectionTold, LengthAsked,
             DoneTold
    <2>5. Files'
      BY DEF IInv, Files, FilesKept, DoneTold
    <2>6. HostStays'
      BY DEF IInv, HostStays, HostWaits
    <2> QED
      BY <2>1, <2>2, <2>3, <2>4, <2>5, <2>6 DEF IInv
  <1>6. CASE DpuAckExport
    <2> USE <1>6 DEF DpuAckExport, DpuAck, DpuTells, DpuGo
    <2>a. HostRuns => Quiet /\ InStep
      BY DEF IInv, Table, InStep
    <2>b. HostRuns => toHost' = <<Message("ack_export")>> /\ toDpu' = <<>>
      BY <2>a, ShortQueues DEF Quiet
    <2>c. HostRuns' => ~DoneTold'
      <3>1. Message("ack_export") # Message("done")
        BY MessageKinds
      <3> QED
        BY <2>a, <2>b, <3>1 DEF InStep, DoneTold
    <2>1. TypeOK'
      BY <1>0, QueueTypes, MessageTypes DEF TypeOK, Kinds
    <2>2. Table'
      BY <2>a, <2>b DEF IInv, Table, InStep, HostLeft, Told
    <2>3. SizesAgree'
      BY DEF IInv, SizesAgree, DirectionTold, LengthAsked
    <2>4. Buffers'
      BY <2>a, <2>b, <2>c, ShortQueues, MessageKinds
         DEF IInv, Buffers, LengthAsked, Table, HostLeft
    <2>5. Files'
      BY <2>a, <2>c DEF IInv, Files, FilesKept
    <2>6. HostStays'
      BY DEF IInv, HostStays, HostWaits
    <2> QED
      BY <2>1, <2>2, <2>3, <2>4, <2>5, <2>6 DEF IInv
  <1>7. CASE DpuMapExport
    <2> USE <1>7 DEF DpuMapExport, DpuGo
    <2>1. TypeOK'
      BY <1>0 DEF TypeOK
    <2>2. Table'
      BY DEF IInv, Table, InStep, DpuLeft, HostLeft, LastWords, Quiet, Told, Asked
    <2>3. SizesAgree'
      BY DEF IInv, SizesAgree, DirectionTold, LengthAsked
    <2>4. Buffers'
      BY DEF IInv, Buffers, LengthAsked, DoneTold
    <2>5. Files'
      BY DEF IInv, Files, FilesKept, DoneTold
    <2>6. HostStays'
      BY DEF IInv, HostStays, HostWaits
    <2> QED
      BY <2>1, <2>2, <2>3, <2>4, <2>5, <2>6 DEF IInv
  <1>8. CASE DpuReceiveAddress
    <2> USE <1>8 DEF DpuReceiveAddress, DpuReceive, DpuGo
    <2>1. TypeOK'
      BY <1>0, QueueTypes DEF TypeOK
    <2>a. /\ dpu = "recv_addr" /\ dpu' = "ack_addr" /\ toDpu = <<Message("addr")>>
          /\ HostRuns => host = "status_addr" /\ toHost = <<>>
      BY DEF IInv, Table, InStep, HostLeft, Quiet, Told, Asked
    <2>b. toDpu' = <<>> /\ toHost' = toHost /\ host' = host
      BY <2>a, ShortQueues
    <2>2. Table'
      BY <2>a, <2>b DEF Table, InStep, HostLeft, Quiet
    <2>3. SizesAgree'
      BY <2>a, <2>b DEF IInv, SizesAgree, DirectionTold, LengthAsked
    <2>4. Buffers'
      BY <2>a, <2>b DEF IInv, Buffers, LengthAsked, DoneTold
    <2>5. Files'
      BY DEF IInv, Files, FilesKept, DoneTold
    <2>6. HostStays'
      BY DEF IInv, HostStays, HostWaits
    <2> QED
      BY <2>1, <2>2, <2>3, <2>4, <2>5, <2>6 DEF IInv
  <1>9. CASE DpuAckAddress
    <2> USE <1>9 DEF DpuAckAddress, DpuAck, DpuTells, DpuGo
    <2>a. HostRuns => Quiet /\ InStep
      BY DEF IInv, Table, InStep
    <2>b. HostRuns => toHost' = <<Message("ack_addr")>> /\ toDpu' = <<>>
      BY <2>a, ShortQueues DEF Quiet
    <2>c. HostRuns' => ~DoneTold'
      <3>1. Message("ack_addr") # Message("done")
        BY MessageKinds
      <3> QED
        BY <2>a, <2>b, <3>1 DEF InStep, DoneTold
    <2>1. TypeOK'
      BY <1>0, QueueTypes, MessageTypes DEF TypeOK, Kinds
    <2>2. Table'
      BY <2>a, <2>b DEF IInv, Table, InStep, HostLeft, Told
    <2>3. SizesAgree'
      BY DEF IInv, SizesAgree, DirectionTold, LengthAsked
    <2>4. Buffers'
      BY <2>a, <2>b, <2>c, ShortQueues, MessageKinds
         DEF IInv, Buffers, LengthAsked, Table, HostLeft
    <2>5. Files'
      BY <2>a, <2>c DEF IInv, Files, FilesKept
    <2>6. HostStays'
      BY ShortQueues, MessageKinds
         DEF IInv, Table, InStep, DpuLeft, HostLeft, LastWords, Quiet, Told, Asked,
             HostStays, HostWaits
    <2> QED
      BY <2>1, <2>2, <2>3, <2>4, <2>5, <2>6 DEF IInv
  <1>10. CASE DpuReceiveLength
    <2> USE <1>10 DEF DpuReceiveLength, DpuReceive, DpuGo
    <2>1. TypeOK'
      BY <1>0, QueueTypes DEF TypeOK
    <2>2. Table'
      BY ShortQueues, MessageKinds DEF IInv, Table, InStep, DpuLeft, HostLeft, LastWords, Quiet, Told, Asked
    <2>3. SizesAgree'
      BY ShortQueues, MessageKinds
         DEF IInv, Table, InStep, DpuLeft, HostLeft, LastWords, Quiet, Told, Asked,
             SizesAgree, DirectionTold, LengthAsked
    <2>4. Buffers'
      BY ShortQueues, MessageKinds
         DEF IInv, Table, InStep, DpuLeft, HostLeft, LastWords, Quiet, Told, Asked,
             Buffers, SizesAgree, Files, FilesKept, DirectionTold, LengthAsked,
             DoneTold
    <2>5. Files'
      BY DEF IInv, Files, FilesKept, DoneTold
    <2>6. HostStays'
      BY DEF IInv, HostStays, HostWaits
    <2> QED
      BY <2>1, <2>2, <2>3, <2>4, <2>5, <2>6 DEF IInv
  <1>11. CASE DpuAckLength
    <2> USE <1>11 DEF DpuAckLength, DpuAck, DpuTells, DpuGo
    <2>a. HostRuns => Quiet /\ InStep
      BY DEF IInv, Table, InStep
    <2>b. HostRuns => toHost' = <<Message("ack_len")>> /\ toDpu' = <<>>
      BY <2>a, ShortQueues DEF Quiet
    <2>c. HostRuns' => ~DoneTold'
      <3>1. Message("ack_len") # Message("done")
        BY MessageKinds
      <3> QED
        BY <2>a, <2>b, <3>1 DEF InStep, DoneTold
    <2>1. TypeOK'
      BY <1>0, QueueTypes, MessageTypes DEF TypeOK, Kinds
    <2>2. Table'
      BY <2>a, <2>b DEF IInv, Table, InStep, HostLeft, Told
    <2>3. SizesAgree'
      BY DEF IInv, SizesAgree, DirectionTold, LengthAsked
    <2>4. Buffers'
      BY <2>a, <2>b, <2>c, ShortQueues, MessageKinds
         DEF IInv, Buffers, LengthAsked, Table, HostLeft
    <2>5. Files'
      BY <2>a, <2>c DEF IInv, Files, FilesKept
    <2>6. HostStays'
      BY DEF IInv, HostStays, HostWaits
    <2> QED
      BY <2>1, <2>2, <2>3, <2>4, <2>5, <2>6 DEF IInv
  <1>12. CASE DpuBuffers
    <2> USE <1>12 DEF DpuBuffers, DpuGo, DpuError, DpuTells
    <2>1. TypeOK'
      <3>1. toHost' \in Seq(Messages)
        BY <1>0, QueueTypes, MessageTypes DEF TypeOK, Kinds
      <3> QED
        BY <1>0, <3>1 DEF TypeOK
    <2>2. Table'
      <3>1. CASE DpuRuns'
        BY <3>1 DEF IInv, Table, InStep, HostLeft, Quiet, Told
      <3>2. CASE ~DpuRuns'
        BY <3>2, Leaves DEF Table
      <3> QED
        BY <3>1, <3>2
    <2>3. SizesAgree'
      BY DEF IInv, SizesAgree, DirectionTold, LengthAsked
    <2>4. Buffers'
      BY ShortQueues, MessageKinds
         DEF IInv, Table, InStep, DpuLeft, HostLeft, LastWords, Quiet, Told, Asked,
             Buffers, SizesAgree, Files, FilesKept, DirectionTold, LengthAsked,
             DoneTold
    <2>5. Files'
      BY ShortQueues, MessageKinds
         DEF IInv, Table, InStep, DpuLeft, HostLeft, LastWords, Quiet, Told, Asked,
             Files, FilesKept, Buffers, SizesAgree, DoneTold
    <2>6. HostStays'
      BY DEF IInv, HostStays, HostWaits
    <2> QED
      BY <2>1, <2>2, <2>3, <2>4, <2>5, <2>6 DEF IInv
  <1>13. CASE DpuFill
    <2> USE <1>13 DEF DpuFill, DpuGo
    <2>1. TypeOK'
      BY <1>0 DEF IInv, TypeOK, Files, FilesKept
    <2>2. Table'
      BY DEF IInv, Table, InStep, DpuLeft, HostLeft, LastWords, Quiet, Told, Asked
    <2>3. SizesAgree'
      BY DEF IInv, SizesAgree, DirectionTold, LengthAsked
    <2>4. Buffers'
      BY ShortQueues, MessageKinds
         DEF IInv, Table, InStep, DpuLeft, HostLeft, LastWords, Quiet, Told, Asked,
             Buffers, SizesAgree, Files, FilesKept, DirectionTold, LengthAsked,
             DoneTold
    <2>5. Files'
      BY DEF IInv, Files, FilesKept, DoneTold
    <2>6. HostStays'
      BY DEF IInv, HostStays, HostWaits
    <2> QED
      BY <2>1, <2>2, <2>3, <2>4, <2>5, <2>6 DEF IInv
  <1>14. CASE DpuSubmit
    <2> USE <1>14 DEF DpuSubmit, DpuGo
    <2>1. TypeOK'
      BY <1>0 DEF TypeOK
    <2>2. Table'
      BY DEF IInv, Table, InStep, DpuLeft, HostLeft, LastWords, Quiet, Told, Asked
    <2>3. SizesAgree'
      BY DEF IInv, SizesAgree, DirectionTold, LengthAsked
    <2>4. Buffers'
      BY DEF IInv, Buffers, LengthAsked, DoneTold
    <2>5. Files'
      BY DEF IInv, Files, FilesKept, DoneTold
    <2>6. HostStays'
      BY DEF IInv, HostStays, HostWaits
    <2> QED
      BY <2>1, <2>2, <2>3, <2>4, <2>5, <2>6 DEF IInv
  <1>15. CASE DpuDma
    <2> USE <1>15 DEF DpuDma, DpuGo
    <2>a. ~dpuHas => hostHas
      <3>1. hostHas # dpuHas /\ hostHas \in BOOLEAN /\ dpuHas \in BOOLEAN
        BY <1>0 DEF IInv, SizesAgree, TypeOK
      <3> QED
        BY <3>1
    <2>b. HostRuns => InStep /\ ~DoneTold'
      BY LeavesNotDone DEF IInv, Table
    <2>1. TypeOK'
      BY <1>0 DEF TypeOK
    <2>2. Table'
      BY DEF IInv, Table, InStep, DpuLeft, HostLeft, LastWords, Quiet, Told, Asked
    <2>3. SizesAgree'
      BY DEF IInv, SizesAgree, DirectionTold, LengthAsked
    <2>4. Buffers'
      <3>1. dpuHas => dpuBuf = "data" /\ dpuBuf' = "data" /\ hostBuf' = "data"
        BY DEF IInv, Buffers
      <3>2. ~dpuHas => hostBuf # "junk" /\ dpuBuf' = hostBuf /\ hostBuf' = hostBuf
        BY <2>a DEF IInv, Buffers
      <3>3. ~dpuHas /\ HostRuns => hostBuf = "data"
        BY <2>a, <2>b DEF IInv, Buffers, InStep
      <3>4. HostRuns => hostBuf' # "none"
        BY <3>1, <3>3
      <3> QED
        BY <2>a, <2>b, <3>1, <3>2, <3>3, <3>4 DEF IInv, Buffers, LengthAsked
    <2>5. Files'
      BY DEF IInv, Files, FilesKept, DoneTold
    <2>6. HostStays'
      BY DEF IInv, HostStays, HostWaits
    <2> QED
      BY <2>1, <2>2, <2>3, <2>4, <2>5, <2>6 DEF IInv
  <1>16. CASE DpuSave
    <2> USE <1>16 DEF DpuSave, DpuTells, DpuGo
    <2>1. TypeOK'
      <3>1. toHost' \in Seq(Messages)
        BY <1>t
      <3> QED
        BY <1>0, <3>1 DEF TypeOK
    <2>2. Table'
      <3>1. HostRuns => \/ host = "status_len" /\ toHost = <<Message("ack_len")>>
                        \/ host = "status_done" /\ toHost = <<>>
        BY DEF IInv, Table, InStep, Told, Quiet
      <3>2. HostRuns => \/ /\ host = "status_len"
                           /\ toHost' = <<Message("ack_len"), Message("done")>>
                        \/ host = "status_done" /\ toHost' = <<Message("done")>>
        <4>1. CASE toHost = <<Message("ack_len")>>
          BY <3>1, <4>1, ShortQueues
        <4>2. CASE toHost = <<>>
          BY <3>1, <4>2, ShortQueues
        <4> QED
          BY <3>1, <4>1, <4>2
      <3> QED
        BY <3>2 DEF Table, DpuLeft
    <2>3. SizesAgree'
      BY DEF IInv, SizesAgree, DirectionTold, LengthAsked
    <2>4. Buffers'
      BY DEF IInv, Buffers, LengthAsked, DoneTold
    <2>5. Files'
      <3>1. HostRuns => dpuFile' = "data"
        BY DEF IInv, Files, FilesKept, Buffers
      <3>2. ~HostRuns => hostRes # "ok"
        BY DEF IInv, Files
      <3> QED
        BY <1>0, <3>1, <3>2 DEF IInv, Files, FilesKept, Buffers, TypeOK
    <2>6. HostStays'
      BY DEF IInv, HostStays, HostWaits
    <2> QED
      BY <2>1, <2>2, <2>3, <2>4, <2>5, <2>6 DEF IInv
  <1>17. CASE DpuFree
    <2> USE <1>17 DEF DpuFree, DpuGo
    <2>1. TypeOK'
      BY <1>0 DEF TypeOK
    <2>2. Table'
      BY DEF IInv, Table, InStep, DpuLeft, HostLeft, LastWords, Quiet, Told, Asked
    <2>3. SizesAgree'
      BY DEF IInv, SizesAgree, DirectionTold, LengthAsked
    <2>4. Buffers'
      BY DEF IInv, Buffers, LengthAsked, DoneTold
    <2>5. Files'
      BY DEF IInv, Files, FilesKept, DoneTold
    <2>6. HostStays'
      BY DEF IInv, HostStays, HostWaits
    <2> QED
      BY <2>1, <2>2, <2>3, <2>4, <2>5, <2>6 DEF IInv
  <1>18. CASE DpuFails
    <2> USE <1>18 DEF DpuFails, DpuError, DpuTells, Fails, Reported
    <2>a. toHost' = toHost \/ toHost' = Append(toHost, Message("failure"))
      OBVIOUS
    <2>b. HostRuns' => ~DoneTold'
      BY <2>a, LeavesNotDone
    <2>1. TypeOK'
      <3>1. toHost' \in Seq(Messages)
        BY <1>t, <2>a
      <3>2. dpuFile' \in {"none", "partial", "junk", "data"}
        BY <1>0 DEF TypeOK
      <3>3. fault' \in BOOLEAN
        OBVIOUS
      <3> QED
        BY <1>0, <3>1, <3>2, <3>3 DEF TypeOK
    <2>2. Table'
      BY <2>a, Leaves DEF Table
    <2>3. SizesAgree'
      BY DEF IInv, SizesAgree, DirectionTold, LengthAsked
    <2>4. Buffers'
      BY <2>a, <2>b DEF IInv, Buffers, LengthAsked
    <2>5. Files'
      BY <2>b DEF IInv, Files, FilesKept
    <2>6. HostStays'
      BY DEF IInv, HostStays, HostWaits
    <2> QED
      BY <2>1, <2>2, <2>3, <2>4, <2>5, <2>6 DEF IInv
  <1> QED
    BY <1>1, <1>2, <1>3, <1>4, <1>5, <1>6, <1>7, <1>8, <1>9, <1>10, <1>11, <1>12, <1>13, <1>14, <1>15, <1>16, <1>17, <1>18 DEF DpuStep

LEMMA NextIInv == IInv /\ [Next]_vars => IInv'
  <1> SUFFICES ASSUME IInv, UNCHANGED vars PROVE IInv'
    BY HostIInv, DpuIInv DEF Next
  <1> USE DEF vars, hostVars, dpuVars
  <1>1. TypeOK'
    BY DEF IInv, TypeOK
  <1>2. Table'
    BY DEF IInv, Table, HostRuns, DpuRuns, InStep, DpuLeft, HostLeft, Quiet, Told,
       Asked, LastWords, FromHost, FromDpu
  <1>3. SizesAgree' /\ Buffers' /\ Files' /\ HostStays'
    BY DEF IInv, SizesAgree, Buffers, Files, FilesKept, HostStays, HostRuns, DpuRuns,
       DirectionTold, LengthAsked, DoneTold
  <1> QED
    BY <1>1, <1>2, <1>3 DEF IInv

LEMMA SpecIInv == Spec => []IInv
  BY InitIInv, NextIInv, PTL DEF Spec

\* Type correctness of both sides.
THEOREM TypeCorrect == Spec => []TypeOK
  <1>1. IInv => TypeOK
    BY DEF IInv
  <1> QED
    BY <1>1, SpecIInv, PTL

\* No message is ever taken for another one, although messages carry no tag
\* and either side may fail, or leave, at any step.
THEOREM PhaseAgreementHolds == Spec => []PhaseAgreement
  <1>1. IInv => PhaseAgreement
    <2> SUFFICES ASSUME IInv PROVE PhaseAgreement
      OBVIOUS
    <2> USE DEF HostRuns, DpuRuns, HostSteps, DpuSteps
    <2>1. ASSUME toHost # <<>>, host \in DOMAIN HostExpects
          PROVE  Head(toHost).kind \in {HostExpects[host], "failure"}
      <3>1. HostRuns
        BY <2>1 DEF HostExpects
      <3>2. CASE DpuRuns
        BY <2>1, <3>1, <3>2, ShortQueues, MessageKinds
           DEF IInv, Table, InStep, Quiet, Told, Asked, FromDpu, HostExpects
      <3>3. CASE ~DpuRuns
        BY <2>1, <3>1, <3>3, ShortQueues, MessageKinds
           DEF IInv, Table, DpuLeft, LastWords, FromDpu, HostExpects
      <3> QED
        BY <3>2, <3>3
    <2>2. ASSUME toDpu # <<>>, dpu \in DOMAIN DpuExpects
          PROVE  Head(toDpu).kind = DpuExpects[dpu]
      <3>1. DpuRuns
        BY <2>2 DEF DpuExpects
      <3>2. CASE HostRuns
        BY <2>2, <3>1, <3>2, ShortQueues, MessageKinds
           DEF IInv, Table, InStep, Quiet, Told, Asked, FromHost, DpuExpects
      <3>3. CASE ~HostRuns
        BY <2>2, <3>1, <3>3, ShortQueues, MessageKinds
           DEF IInv, Table, HostLeft, FromHost, DpuExpects
      <3> QED
        BY <3>2, <3>3
    <2> QED
      BY <2>1, <2>2 DEF PhaseAgreement
  <1> QED
    BY <1>1, SpecIInv, PTL

\* The DMA task runs on two buffers that exist, are as long as the copy, and
\* the source of which holds the file.  The host's recvfrom must not fail
\* while it waits for the last two statuses: it then frees its buffer under
\* the running DMA task.
THEOREM DmaSafeHolds ==
  ASSUME {<<"host", "status_len">>, <<"host", "status_done">>} \cap Faults = {}
  PROVE  Spec => []DmaSafe
  <1>1. IInv => DmaSafe
    <2> SUFFICES ASSUME IInv, dpu = "dma" PROVE DmaSafe
      BY DEF DmaSafe
    <2> USE DEF HasLength, Copying, HostRuns, DpuRuns, DpuSteps, HostSteps
    <2>1. HostRuns
      BY DEF IInv, HostStays, HostWaits
    <2>2. host \in {"status_len", "status_done"}
      BY <2>1 DEF IInv, Table, InStep
    <2>3. hostBuf # "none" /\ dpuBuf # "none"
      BY <2>2 DEF IInv, Buffers, HostAgreed, DpuAgreed
    <2>4. dpuLen = hostSize /\ dpuLen = dpuSize
      BY DEF IInv, SizesAgree
    <2>5. ~dpuHas => hostHas
      <3>1. hostHas # dpuHas /\ hostHas \in BOOLEAN /\ dpuHas \in BOOLEAN
        BY DEF IInv, SizesAgree, TypeOK, DpuAgreed
      <3> QED
        BY <3>1
    <2>6. (IF dpuHas THEN dpuBuf ELSE hostBuf) = "data"
      BY <2>2, <2>5 DEF IInv, Buffers
    <2> QED
      BY <2>3, <2>4, <2>6 DEF DmaSafe
  <1> QED
    BY <1>1, SpecIInv, PTL

\* A host that returns success has made the copy, whatever fails.
THEOREM CopyCompleteHolds == Spec => []CopyComplete
  <1>1. IInv => CopyComplete
    BY DEF IInv, Files, CopyComplete, HostRuns, HostSteps
  <1> QED
    BY <1>1, SpecIInv, PTL

\* The file is never overwritten, and nothing but the file is saved.
THEOREM FilesKeptHolds == Spec => []FilesKept
  <1>1. IInv => FilesKept
    BY DEF IInv, Files
  <1> QED
    BY <1>1, SpecIInv, PTL
=============================================================================
