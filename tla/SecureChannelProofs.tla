------------------------- MODULE SecureChannelProofs -------------------------
(***************************************************************************)
(* The secure channel, for every number of messages and every set of       *)
(* failing calls: the type invariant, the peer address, the wake-up and    *)
(* the early end of the send thread, and, as long as the receive thread    *)
(* can be created, the use of the endpoint.                                *)
(*                                                                         *)
(* They follow from one inductive invariant, which says how far sc_start   *)
(* is when a thread exists, what it holds then, that the signal SIGUSR1    *)
(* and everything the send thread does after sigwait imply that the peer   *)
(* is known, and that on the host a cancellation goes back to SIGINT.      *)
(***************************************************************************)
EXTENDS SecureChannel, TLAPS

\* Where sc_start can be while the send (receive) thread may be running.
SendSpan == {"create_recv", "join_send", "join_recv", "teardown", "returned", "exit"}
RecvSpan == {"join_send", "join_recv", "teardown", "returned", "exit"}

Locks ==
    /\ send = "sendto" <=> mutex = "send" /\ send # "exit"
    /\ recv = "recvfrom" <=> mutex = "recv" /\ recv # "exit"

Spans ==
    /\ send # "none" => main \in SendSpan
    /\ recv # "none" \/ usr => main \in RecvSpan
    /\ send \in SendCalls \ {"epoll_ctl"} => left > 0
    /\ main \in {"join_recv", "teardown"} => send = "exit"
    /\ main = "teardown" => recv = "exit"

\* The resources the threads use, from their creation to the teardown.
ChannelSpan == {"validate", "init_signaling", "create_send", "create_recv",
                "join_send", "join_recv", "teardown"}
Holds ==
    /\ main \in ChannelSpan \cup {"init_cc"} => "mutex" \in held
    /\ main \in ChannelSpan => "ep" \in held

PeerKnown ==
    /\ mode = "host" /\ (send # "none" \/ main \in {"validate", "init_signaling", "create_send"})
          => peer
    /\ usr \/ recv = "kill" => peer
    /\ send \in {"lock", "sendto", "arm", "epoll_wait"} => peer
    /\ send = "sigwait" => mode = "dpu"

\* Joined before sc_start returns, unless the receive thread cannot start.
Joined ==
    <<"main", "create_recv">> \notin Faults /\ main \in {"returned", "exit"}
        => send \in {"none", "exit"} /\ recv \in {"none", "exit"}

\* On the host nobody sends SIGUSR1, so only SIGINT readies the interrupt fd.
HostEnds ==
    mode = "host" =>
        /\ ~usr /\ recv \notin {"accept", "kill"}
        /\ cancel => int
        /\ send = "exit" /\ left > 0 => int \/ ~sendRes \/ ~recvRes

IInv == /\ TypeOK /\ Locks /\ Spans /\ Holds /\ PeerKnown /\ NoLostWakeup /\ Joined
        /\ HostEnds

LEMMA InitIInv == Init => IInv
  <1> SUFFICES ASSUME Init PROVE IInv
    OBVIOUS
  <1> USE DEF Init
  <1>0. arrived \in 0..MaxMsgs /\ inbox \in 0..arrived /\ left \in 0..MsgNb
    BY ConfigAssumption
  <1>1. TypeOK
    BY <1>0 DEF TypeOK, MainCalls, SendCalls, RecvCalls
  <1>2. Locks /\ Spans /\ NoLostWakeup
    BY DEF Locks, Spans, NoLostWakeup, SendCalls
  <1>3. Holds /\ PeerKnown /\ Joined
    BY DEF Holds, PeerKnown, Joined, ChannelSpan
  <1>4. HostEnds
    BY DEF HostEnds
  <1> QED
    BY <1>1, <1>2, <1>3, <1>4 DEF IInv

LEMMA MainIInv == IInv /\ (MainStep \/ MainFails) => IInv'
  <1> SUFFICES ASSUME IInv, MainStep \/ MainFails PROVE IInv'
    OBVIOUS
  <1> USE ConfigAssumption DEF IInv, TypeOK, Locks, Spans, Holds, PeerKnown,
     NoLostWakeup, Joined, HostEnds, SendSpan, RecvSpan,
     ChannelSpan, MainCalls, SendCalls, RecvCalls,
     threadVars, Channel
  <1>1. CASE InitMutex  BY <1>1 DEF InitMutex
  <1>2. CASE InitCc  BY <1>2 DEF InitCc
  <1>3. CASE Validate  BY <1>3 DEF Validate
  <1>4. CASE InitSignaling  BY <1>4 DEF InitSignaling
  <1>5. CASE CreateSend  BY <1>5 DEF CreateSend
  <1>6. CASE CreateRecv  BY <1>6 DEF CreateRecv
  <1>7. CASE Join  BY <1>7 DEF Join
  <1>8. CASE Teardown  BY <1>8 DEF Teardown
  <1>9. CASE Exit  BY <1>9 DEF Exit
  <1>10. CASE MainFails
    <2>1. TypeOK'  BY <1>10 DEF MainFails, Kept
    <2>2. Locks'  BY <1>10 DEF MainFails
    <2>3. Spans'  BY <1>10 DEF MainFails
    <2>4. Holds'  BY <1>10 DEF MainFails
    <2>5. PeerKnown'  BY <1>10 DEF MainFails
    <2>6. NoLostWakeup'  BY <1>10 DEF MainFails
    <2>7. Joined'  BY <1>10 DEF MainFails, Fails
    <2>8. HostEnds'  BY <1>10 DEF MainFails
    <2> QED BY <2>1, <2>2, <2>3, <2>4, <2>5, <2>6, <2>7, <2>8
  <1> QED
    BY <1>1, <1>2, <1>3, <1>4, <1>5, <1>6, <1>7, <1>8, <1>9, <1>10 DEF MainStep

LEMMA SendIInv == IInv /\ (SendStep \/ SendFails) => IInv'
  <1> SUFFICES ASSUME IInv, SendStep \/ SendFails PROVE IInv'
    OBVIOUS
  <1> USE ConfigAssumption DEF IInv, TypeOK, Locks, Spans, Holds, PeerKnown,
     NoLostWakeup, Joined, HostEnds, SendSpan, RecvSpan,
     ChannelSpan, MainCalls, SendCalls, RecvCalls,
     threadVars, Running
  <1>1. CASE SendStart  BY <1>1 DEF SendStart
  <1>2. CASE SendLoop  BY <1>2 DEF SendLoop
  <1>3. CASE SendSigwait
    <2>1. TypeOK'  BY <1>3 DEF SendSigwait
    <2>2. Locks'  BY <1>3 DEF SendSigwait
    <2>3. Spans'  BY <1>3 DEF SendSigwait
    <2>4. Holds'  BY <1>3 DEF SendSigwait
    <2>5. PeerKnown'  BY <1>3 DEF SendSigwait
    <2>6. NoLostWakeup'  BY <1>3 DEF SendSigwait
    <2>7. Joined'  BY <1>3 DEF SendSigwait
    <2>8. HostEnds'  BY <1>3 DEF SendSigwait
    <2> QED BY <2>1, <2>2, <2>3, <2>4, <2>5, <2>6, <2>7, <2>8
  <1>4. CASE SendCancelled  BY <1>4 DEF SendCancelled
  <1>5. CASE SendLock  BY <1>5 DEF SendLock
  <1>6. CASE SendTo
    <2>0. left' \in 0..MsgNb  BY <1>6 DEF SendTo
    <2>1. TypeOK'  BY <1>6, <2>0 DEF SendTo
    <2>2. Locks'  BY <1>6 DEF SendTo
    <2>3. Spans'  BY <1>6 DEF SendTo
    <2>4. Holds'  BY <1>6 DEF SendTo
    <2>5. PeerKnown'  BY <1>6 DEF SendTo
    <2>6. NoLostWakeup'  BY <1>6 DEF SendTo
    <2>7. Joined'  BY <1>6 DEF SendTo
    <2>8. HostEnds'  BY <1>6 DEF SendTo
    <2> QED BY <2>1, <2>2, <2>3, <2>4, <2>5, <2>6, <2>7, <2>8
  <1>7. CASE SendArm  BY <1>7 DEF SendArm
  <1>8. CASE SendEpoll
    <2>1. TypeOK'  BY <1>8 DEF SendEpoll
    <2>2. Locks'  BY <1>8 DEF SendEpoll
    <2>3. Spans'  BY <1>8 DEF SendEpoll
    <2>4. Holds'  BY <1>8 DEF SendEpoll
    <2>5. PeerKnown'  BY <1>8 DEF SendEpoll
    <2>6. NoLostWakeup'  BY <1>8 DEF SendEpoll
    <2>7. Joined'  BY <1>8 DEF SendEpoll
    <2>8. HostEnds'  BY <1>8 DEF SendEpoll, SendInterrupted
    <2> QED BY <2>1, <2>2, <2>3, <2>4, <2>5, <2>6, <2>7, <2>8
  <1>9. CASE SendFails
    <2>0. sendRes' \in BOOLEAN /\ recvRes' \in BOOLEAN  BY <1>9 DEF SendFails
    <2>1. TypeOK'  BY <1>9, <2>0 DEF SendFails
    <2>2. Locks'  BY <1>9 DEF SendFails
    <2>3. Spans'  BY <1>9 DEF SendFails
    <2>4. Holds'  BY <1>9 DEF SendFails
    <2>5. PeerKnown'  BY <1>9 DEF SendFails
    <2>6. NoLostWakeup'  BY <1>9 DEF SendFails
    <2>7. Joined'  BY <1>9 DEF SendFails
    <2>8. HostEnds'  BY <1>9 DEF SendFails
    <2> QED BY <2>1, <2>2, <2>3, <2>4, <2>5, <2>6, <2>7, <2>8
  <1> QED BY <1>1, <1>2, <1>3, <1>4, <1>5, <1>6, <1>7, <1>8, <1>9 DEF SendStep

LEMMA RecvIInv == IInv /\ (RecvStep \/ RecvFails) => IInv'
  <1> SUFFICES ASSUME IInv, RecvStep \/ RecvFails PROVE IInv'
    OBVIOUS
  <1> USE ConfigAssumption DEF IInv, TypeOK, Locks, Spans, Holds, PeerKnown,
     NoLostWakeup, Joined, HostEnds, SendSpan, RecvSpan,
     ChannelSpan, MainCalls, SendCalls, RecvCalls,
     threadVars, Running
  <1>1. CASE RecvStart  BY <1>1 DEF RecvStart
  <1>2. CASE RecvLock  BY <1>2 DEF RecvLock
  <1>3. CASE RecvFrom  BY <1>3 DEF RecvFrom, ChannelCreated
  <1>4. CASE RecvAccept  BY <1>4 DEF RecvAccept
  <1>5. CASE RecvKill
    <2>1. TypeOK'  BY <1>5 DEF RecvKill
    <2>2. Locks'  BY <1>5 DEF RecvKill
    <2>3. Spans'  BY <1>5 DEF RecvKill
    <2>4. Holds'  BY <1>5 DEF RecvKill
    <2>5. PeerKnown'  BY <1>5 DEF RecvKill
    <2>6. NoLostWakeup'  BY <1>5 DEF RecvKill
    <2>7. Joined'  BY <1>5 DEF RecvKill
    <2>8. HostEnds'  BY <1>5 DEF RecvKill
    <2> QED BY <2>1, <2>2, <2>3, <2>4, <2>5, <2>6, <2>7, <2>8
  <1>6. CASE RecvArm  BY <1>6 DEF RecvArm
  <1>7. CASE RecvInterrupted  BY <1>7 DEF RecvInterrupted
  <1>8. CASE RecvEvent  BY <1>8 DEF RecvEvent
  <1>9. CASE RecvFails
    <2>0. recvRes' \in BOOLEAN  BY <1>9 DEF RecvFails
    <2>1. TypeOK'  BY <1>9, <2>0 DEF RecvFails
    <2>2. Locks'  BY <1>9 DEF RecvFails
    <2>3. Spans'  BY <1>9 DEF RecvFails
    <2>4. Holds'  BY <1>9 DEF RecvFails
    <2>5. PeerKnown'  BY <1>9 DEF RecvFails
    <2>6. NoLostWakeup'  BY <1>9 DEF RecvFails
    <2>7. Joined'  BY <1>9 DEF RecvFails
    <2>8. HostEnds'  BY <1>9 DEF RecvFails
    <2> QED BY <2>1, <2>2, <2>3, <2>4, <2>5, <2>6, <2>7, <2>8
  <1> QED BY <1>1, <1>2, <1>3, <1>4, <1>5, <1>6, <1>7, <1>8, <1>9 DEF RecvStep

LEMMA NextIInv == IInv /\ [Next]_vars => IInv'
  <1> SUFFICES ASSUME IInv, [Next]_vars PROVE IInv'
    OBVIOUS
  <1> USE DEF IInv, TypeOK, Locks, Spans, Holds, PeerKnown, NoLostWakeup, Joined,
     HostEnds
  <1>1. CASE Arrive
    BY <1>1, ConfigAssumption DEF Arrive, threadVars
  <1>2. CASE Interrupt
    BY <1>2 DEF Interrupt, threadVars
  <1>3. CASE UNCHANGED vars
    BY <1>3 DEF vars
  <1> QED
    BY <1>1, <1>2, <1>3, MainIInv, SendIInv, RecvIInv DEF Next, Over

LEMMA SpecIInv == Spec => []IInv
  BY InitIInv, NextIInv, PTL DEF Spec

\* Type correctness of sc_start and its threads.
THEOREM TypeCorrect == Spec => []TypeOK
  <1>1. IInv => TypeOK
    BY DEF IInv
  <1> QED
    BY <1>1, SpecIInv, PTL

\* The send thread never passes a NULL peer address to the Comm Channel,
\* whatever calls fail and however the two threads interleave.
THEOREM NeverSendToNullHolds == Spec => []NeverSendToNull
  <1>1. IInv => NeverSendToNull
    BY DEF IInv, PeerKnown, NeverSendToNull
  <1> QED
    BY <1>1, SpecIInv, PTL

\* The signal that announces a connection is never lost.
THEOREM NoLostWakeupHolds == Spec => []NoLostWakeup
  <1>1. IInv => NoLostWakeup
    BY DEF IInv
  <1> QED
    BY <1>1, SpecIInv, PTL

\* The endpoint is used by one thread at a time and only while it exists,
\* provided that the receive thread can be created (sc_start returns, and
\* releases everything, under a running send thread when it cannot).
THEOREM EndpointSafeHolds ==
  ASSUME <<"main", "create_recv">> \notin Faults
  PROVE  Spec => []EndpointSafe
  <1>1. IInv => EndpointSafe
    BY DEF IInv, TypeOK, Locks, Spans, Holds, Joined, EndpointSafe, SendSpan,
       RecvSpan, ChannelSpan
  <1> QED
    BY <1>1, SpecIInv, PTL

\* The send thread of the host never stops before its last message, except on
\* SIGINT or with an error: not on a timeout of epoll_wait, and not because
\* the receive thread cancelled it.
THEOREM HostExitOnlyOnInterruptHolds == Spec => []HostExitOnlyOnInterrupt
  <1>1. IInv => HostExitOnlyOnInterrupt
    BY DEF IInv, HostEnds, HostExitOnlyOnInterrupt, ExitOnlyOnInterrupt
  <1> QED
    BY <1>1, SpecIInv, PTL
=============================================================================
