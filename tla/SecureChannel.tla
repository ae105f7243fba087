---------------------------- MODULE SecureChannel ----------------------------
(***************************************************************************)
(* The secure channel application: sc_start sets up a DOCA Comm Channel    *)
(* endpoint, two epoll instances and two signalfds, runs a send and a      *)
(* receive thread on the endpoint and tears everything down once both are  *)
(* joined (secure_channel_core.c).  The threads share the endpoint under   *)
(* ctx->mutex, the address of the peer without any lock, and talk through  *)
(* signals: SIGUSR1 tells the send thread of the DPU that a host connected,*)
(* SIGINT ends both threads, and the receive thread cancels the send       *)
(* thread when no connection was ever made.                                *)
(*                                                                         *)
(* A program counter holds the name of the call its thread makes next.     *)
(* The Comm Channel library is external: sendto succeeds, fails or has no  *)
(* room (DOCA_ERROR_AGAIN); recvfrom takes the next arrived message, fails *)
(* on it, fails without one, or finds none; an armed event channel wakes   *)
(* epoll_wait once the library has something to report.                    *)
(***************************************************************************)
EXTENDS Naturals

CONSTANTS
    MsgNb,     \* cfg->send_msg_nb
    MaxMsgs,   \* bound on the messages that arrive at this side
    Faults     \* the calls that may fail, as pairs <<thread, call>>

MainCalls == {"init_mutex", "init_cc", "validate", "init_signaling",
              "create_send", "create_recv"}
SendCalls == {"epoll_ctl", "sigwait", "lock", "sendto", "arm", "epoll_wait"}
RecvCalls == {"epoll_ctl", "lock", "recvfrom", "arm", "epoll_wait", "kill"}

\* messages_number_callback refuses fewer than one message.
ASSUME ConfigAssumption ==
    /\ MsgNb \in Nat \ {0}
    /\ MaxMsgs \in Nat
    /\ Faults \subseteq ({"main"} \X MainCalls) \cup ({"send"} \X SendCalls)
                            \cup ({"recv"} \X RecvCalls)

VARIABLES
    mode,      \* cfg->mode: "dpu" (SC_MODE_DPU) or "host" (SC_MODE_HOST)
    main,      \* where sc_start is
    send,      \* where sendto_channel is; "none" before pthread_create
    recv,      \* where recvfrom_channel is
    mutex,     \* the owner of ctx->mutex: "send", "recv" or "none"
    peer,      \* ctx->peer # NULL
    usr,       \* SIGUSR1 is pending for the send thread
    int,       \* SIGINT is pending for the process (no thread reads it away)
    cancel,    \* the send thread was asked to cancel
    inbox,     \* messages the library holds for recvfrom
    arrived,   \* messages that have arrived so far
    left,      \* msg_nb of the send thread
    sendRes,   \* results->sendto_result is DOCA_SUCCESS
    recvRes,   \* results->recvfrom_result is DOCA_SUCCESS
    result,    \* what sc_start returns: "none" while it runs, "ok", "error"
    held       \* what sc_start has acquired and not released

threadVars == <<mode, mutex, peer, usr, cancel, left, sendRes, recvRes>>
vars == <<mode, main, send, recv, mutex, peer, usr, int, cancel, inbox,
          arrived, left, sendRes, recvRes, result, held>>

Fails(thread, call) == <<thread, call>> \in Faults

-----------------------------------------------------------------------------
\* sc_start

Channel == {"ep", "dev"} \cup (IF mode = "dpu" THEN {"rep"} ELSE {})

Init ==
    /\ mode \in {"dpu", "host"}
    /\ main = "init_mutex" /\ send = "none" /\ recv = "none"
    /\ mutex = "none" /\ peer = FALSE /\ usr = FALSE /\ int = FALSE
    /\ cancel = FALSE /\ inbox = 0 /\ arrived = 0 /\ left = MsgNb
    /\ sendRes = TRUE /\ recvRes = TRUE /\ result = "none" /\ held = {}

InitMutex ==
    /\ main = "init_mutex" /\ main' = "init_cc" /\ held' = {"mutex"}
    /\ UNCHANGED <<send, recv, int, inbox, arrived, threadVars, result>>

\* The endpoint and its device are opened; the DPU listens, the host connects.
InitCc ==
    /\ main = "init_cc" /\ held' = held \cup Channel /\ peer' = (mode = "host")
    /\ main' = IF mode = "host" THEN "validate" ELSE "init_signaling"
    /\ UNCHANGED <<mode, send, recv, mutex, usr, int, cancel, inbox, arrived,
                   left, sendRes, recvRes, result>>

\* The host waits until its connection is validated.
Validate ==
    /\ main = "validate" /\ main' = "init_signaling"
    /\ UNCHANGED <<send, recv, int, inbox, arrived, threadVars, result, held>>

InitSignaling ==
    /\ main = "init_signaling" /\ main' = "create_send"
    /\ held' = held \cup {"fds"}
    /\ UNCHANGED <<send, recv, int, inbox, arrived, threadVars, result>>

CreateSend ==
    /\ main = "create_send" /\ main' = "create_recv" /\ send' = "epoll_ctl"
    /\ UNCHANGED <<recv, int, inbox, arrived, threadVars, result, held>>

CreateRecv ==
    /\ main = "create_recv" /\ main' = "join_send" /\ recv' = "epoll_ctl"
    /\ UNCHANGED <<send, int, inbox, arrived, threadVars, result, held>>

\* What sc_start still holds after a failing call and the releases that
\* follow it: everything, except after the validation of the host's
\* connection (endpoint and device stay open) and init_signaling_polling (the
\* mutex is not destroyed).
Kept(call) == CASE call = "validate" -> Channel
                [] call = "init_signaling" -> {"mutex"}
                [] OTHER -> {}

\* A failing call makes sc_start return its error.
MainFails ==
    /\ main \in MainCalls /\ Fails("main", main)
    /\ main' = "returned" /\ result' = "error" /\ held' = Kept(main)
    /\ UNCHANGED <<send, recv, int, inbox, arrived, threadVars>>

\* start_threads waits for the send thread, then for the receive thread.
Join ==
    /\ \/ main = "join_send" /\ send = "exit" /\ main' = "join_recv"
       \/ main = "join_recv" /\ recv = "exit" /\ main' = "teardown"
    /\ UNCHANGED <<send, recv, int, inbox, arrived, threadVars, result, held>>

\* Both results are looked at, the second assignment is the one returned;
\* close_fd, destroy_cc and pthread_mutex_destroy only log their errors.
Teardown ==
    /\ main = "teardown" /\ main' = "returned" /\ held' = {}
    /\ result' = IF recvRes THEN "ok" ELSE "error"
    /\ UNCHANGED <<send, recv, int, inbox, arrived, threadVars>>

\* main() cleans up and ends the process, and every thread with it.
Exit ==
    /\ main = "returned" /\ main' = "exit"
    /\ UNCHANGED <<send, recv, int, inbox, arrived, threadVars, result, held>>

Running == main # "exit"

-----------------------------------------------------------------------------
\* sendto_channel

\* A call that fails ends the thread with an error.  The one of epoll_ctl is
\* stored in the receive thread's result; a failing call at "sendto" is the
\* unlock that follows it, which leaves the mutex locked.
SendFails ==
    /\ Running /\ send \in SendCalls /\ Fails("send", send)
    /\ send' = "exit"
    /\ IF send = "epoll_ctl" THEN recvRes' = FALSE /\ UNCHANGED sendRes
                             ELSE sendRes' = FALSE /\ UNCHANGED recvRes
    /\ UNCHANGED <<mode, main, recv, mutex, peer, usr, int, cancel, inbox, arrived,
                   left, result, held>>

SendStart ==
    /\ Running /\ send = "epoll_ctl" /\ send' = "loop"
    /\ UNCHANGED <<main, recv, int, inbox, arrived, threadVars, result, held>>

\* while (msg_nb): the peer is read without the mutex.
SendLoop ==
    /\ Running /\ send = "loop"
    /\ send' = CASE left = 0 -> "exit"
                 [] left > 0 /\ ~peer /\ mode = "dpu" -> "sigwait"
                 [] OTHER -> "lock"
    /\ UNCHANGED <<main, recv, int, inbox, arrived, threadVars, result, held>>

\* sigwait takes the pending SIGUSR1.
SendSigwait ==
    /\ Running /\ send = "sigwait" /\ usr /\ ~cancel
    /\ send' = "lock" /\ usr' = FALSE
    /\ UNCHANGED <<mode, main, recv, mutex, peer, int, cancel, inbox, arrived, left,
                   sendRes, recvRes, result, held>>

\* sigwait and epoll_wait are cancellation points; neither holds the mutex.
SendCancelled ==
    /\ Running /\ cancel /\ send \in {"sigwait", "epoll_wait"}
    /\ send' = "exit"
    /\ UNCHANGED <<main, recv, int, inbox, arrived, threadVars, result, held>>

SendLock ==
    /\ Running /\ send = "lock" /\ mutex = "none"
    /\ mutex' = "send" /\ send' = "sendto"
    /\ UNCHANGED <<mode, main, recv, peer, usr, int, cancel, inbox, arrived, left,
                   sendRes, recvRes, result, held>>

\* The call and the unlock after it: no room in the queue, or the message was
\* sent or refused and counts as done.
SendTo ==
    /\ Running /\ send = "sendto" /\ mutex' = "none"
    /\ \/ send' = "arm" /\ UNCHANGED left
       \/ send' = "loop" /\ left' = left - 1
    /\ UNCHANGED <<mode, main, recv, peer, usr, int, cancel, inbox, arrived,
                   sendRes, recvRes, result, held>>

SendArm ==
    /\ Running /\ send = "arm" /\ send' = "epoll_wait"
    /\ UNCHANGED <<main, recv, int, inbox, arrived, threadVars, result, held>>

\* Mutant: any return of epoll_wait, a timeout too, is taken for the interrupt.
TimeoutIsInterrupt == TRUE

\* send_intr_fd is readable while SIGINT or SIGUSR1, the two signals of its
\* mask, is pending for the thread that polls it.
SendInterrupted == int \/ usr

\* 10 ms pass, the queue has room again, or the interrupt fd is readable;
\* epoll_wait reports every fd that is ready, and the interrupt fd ends the
\* thread, which first asks for its own cancellation.
SendEpoll ==
    /\ Running /\ send = "epoll_wait" /\ ~cancel
    /\ IF SendInterrupted THEN send' = "exit" /\ cancel' = TRUE
                          ELSE send' = "loop" /\ UNCHANGED cancel
    /\ UNCHANGED <<mode, main, recv, mutex, peer, usr, int, inbox, arrived, left,
                   sendRes, recvRes, result, held>>

SendStep ==
    \/ SendStart \/ SendLoop \/ SendSigwait \/ SendCancelled \/ SendLock
    \/ SendTo \/ SendArm \/ SendEpoll

-----------------------------------------------------------------------------
\* recvfrom_channel

\* A call that fails ends the thread with an error and tells nobody; at
\* "recvfrom" it is the unlock, which leaves the mutex locked.
RecvFails ==
    /\ Running /\ recv \in RecvCalls /\ Fails("recv", recv)
    /\ recv' = "exit" /\ recvRes' = FALSE
    /\ UNCHANGED <<mode, main, send, mutex, peer, usr, int, cancel, inbox, arrived,
                   left, sendRes, result, held>>

RecvStart ==
    /\ Running /\ recv = "epoll_ctl" /\ recv' = "lock"
    /\ UNCHANGED <<main, send, int, inbox, arrived, threadVars, result, held>>

\* Mutant: the receive thread does not take the lock.
RecvUnlocked ==
    /\ Running /\ recv = "lock"
    /\ mutex' = "recv" /\ recv' = "recvfrom"
    /\ UNCHANGED <<mode, main, send, peer, usr, int, cancel, inbox, arrived, left,
                   sendRes, recvRes, result, held>>

RecvLock ==
    /\ Running /\ recv = "lock" /\ mutex = "none"
    /\ mutex' = "recv" /\ recv' = "recvfrom"
    /\ UNCHANGED <<mode, main, send, peer, usr, int, cancel, inbox, arrived, left,
                   sendRes, recvRes, result, held>>

\* channel_created is a local of the thread: set with ctx->peer, on the DPU.
ChannelCreated == mode = "dpu" /\ peer

\* The call and the unlock after it: nothing there, an error (of the message
\* taken, or of the endpoint: then nothing is taken and the next call may
\* fail again), or a message received.  Every error but DOCA_ERROR_AGAIN only
\* runs recvfrom again.  The first message on the DPU is a connection.
RecvFrom ==
    /\ Running /\ recv = "recvfrom" /\ mutex' = "none"
    /\ \/ inbox = 0 /\ recv' = "arm" /\ UNCHANGED inbox
       \/ inbox > 0 /\ recv' = "lock" /\ inbox' = inbox - 1
       \/ recv' = "lock" /\ UNCHANGED inbox
       \/ /\ inbox > 0 /\ inbox' = inbox - 1
          /\ recv' = IF ChannelCreated \/ mode = "host" THEN "lock" ELSE "accept"
    /\ UNCHANGED <<mode, main, send, peer, usr, int, cancel, arrived, left,
                   sendRes, recvRes, result, held>>

\* Mutant: the signal is sent before the peer is set.
AcceptAfterSignal ==
    /\ Running /\ recv = "accept"
    /\ usr' = TRUE /\ recv' = "kill"
    /\ UNCHANGED <<mode, main, send, mutex, peer, int, cancel, inbox, arrived, left,
                   sendRes, recvRes, result, held>>

\* Accept new connection from Host: the peer is set, then the signal is sent.
RecvAccept ==
    /\ Running /\ recv = "accept"
    /\ peer' = TRUE /\ recv' = "kill"
    /\ UNCHANGED <<mode, main, send, mutex, usr, int, cancel, inbox, arrived, left,
                   sendRes, recvRes, result, held>>

\* Mutant: the peer is recorded for the send thread, which is not signalled.
KillForgotten ==
    /\ Running /\ recv = "kill" /\ recv' = "lock"
    /\ UNCHANGED <<main, send, int, inbox, arrived, threadVars, result, held>>

\* pthread_kill on a thread that has ended does nothing (or fails: RecvFails).
RecvKill ==
    /\ Running /\ recv = "kill"
    /\ usr' = (usr \/ send # "exit") /\ recv' = "lock"
    /\ UNCHANGED <<mode, main, send, mutex, peer, int, cancel, inbox, arrived, left,
                   sendRes, recvRes, result, held>>

RecvArm ==
    /\ Running /\ recv = "arm" /\ recv' = "epoll_wait"
    /\ UNCHANGED <<main, send, int, inbox, arrived, threadVars, result, held>>

\* Mutant: the interrupt leaves the loop over the events, not the thread.
InterruptContinues ==
    /\ Running /\ recv = "epoll_wait" /\ int
    /\ recv' = "lock" /\ cancel' = (cancel \/ ~ChannelCreated)
    /\ UNCHANGED <<mode, main, send, mutex, peer, usr, int, inbox, arrived, left,
                   sendRes, recvRes, result, held>>

\* The interrupt ends the thread; SIGUSR1, sent to the other thread, is not
\* readable here.  Cancelling a thread that has ended does nothing.
RecvInterrupted ==
    /\ Running /\ recv = "epoll_wait" /\ int
    /\ recv' = "exit" /\ cancel' = (cancel \/ ~ChannelCreated)
    /\ UNCHANGED <<mode, main, send, mutex, peer, usr, int, inbox, arrived, left,
                   sendRes, recvRes, result, held>>

RecvEvent ==
    /\ Running /\ recv = "epoll_wait" /\ ~int /\ inbox > 0
    /\ recv' = "lock"
    /\ UNCHANGED <<main, send, int, inbox, arrived, threadVars, result, held>>

RecvStep ==
    \/ RecvStart \/ RecvLock \/ RecvFrom \/ RecvAccept \/ RecvKill \/ RecvArm
    \/ RecvInterrupted \/ RecvEvent

-----------------------------------------------------------------------------
\* The environment: the other side sends, the user interrupts.

Arrive ==
    /\ Running /\ "ep" \in held /\ arrived < MaxMsgs
    /\ arrived' = arrived + 1 /\ inbox' = inbox + 1
    /\ UNCHANGED <<main, send, recv, int, threadVars, result, held>>

\* Before init_signaling_polling blocks it, SIGINT ends the process at once.
Interrupt ==
    /\ Running /\ "fds" \in held /\ ~int /\ int' = TRUE
    /\ UNCHANGED <<main, send, recv, inbox, arrived, threadVars, result, held>>

\* The process is gone.
Over == main = "exit" /\ UNCHANGED vars

MainStep ==
    \/ InitMutex \/ InitCc \/ Validate \/ InitSignaling \/ CreateSend
    \/ CreateRecv \/ Join \/ Teardown \/ Exit

Next == \/ MainStep \/ SendStep \/ RecvStep
        \/ MainFails \/ SendFails \/ RecvFails
        \/ Arrive \/ Interrupt \/ Over

Spec == Init /\ [][Next]_vars

\* The operating system runs every thread that can run.  Nothing is assumed
\* about the peer, the user, or the mutex's choice between two waiting threads.
FairSpec == Spec /\ WF_vars(MainStep) /\ WF_vars(SendStep) /\ WF_vars(RecvStep)

-----------------------------------------------------------------------------
\* Properties

\* The types of the state of sc_start and its two threads.
TypeOK ==
    /\ mode \in {"dpu", "host"}
    /\ main \in MainCalls \cup {"join_send", "join_recv", "teardown", "returned", "exit"}
    /\ send \in SendCalls \cup {"none", "loop", "exit"}
    /\ recv \in RecvCalls \cup {"none", "accept", "exit"}
    /\ mutex \in {"send", "recv", "none"}
    /\ peer \in BOOLEAN /\ usr \in BOOLEAN /\ int \in BOOLEAN /\ cancel \in BOOLEAN
    /\ arrived \in 0..MaxMsgs /\ inbox \in 0..arrived /\ left \in 0..MsgNb
    /\ sendRes \in BOOLEAN /\ recvRes \in BOOLEAN
    /\ result \in {"none", "ok", "error"}
    /\ held \subseteq {"mutex", "ep", "dev", "rep", "fds"}

\* ctx->mutex serialises the threads' traffic on the endpoint, and no thread
\* is inside sendto or recvfrom once sc_start has destroyed endpoint or mutex.
EndpointSafe ==
    /\ send = "sendto" <=> mutex = "send" /\ send # "exit"
    /\ recv = "recvfrom" <=> mutex = "recv" /\ recv # "exit"
    /\ send = "sendto" \/ recv = "recvfrom" => {"ep", "mutex"} \subseteq held

\* The send thread passes a peer address to sendto, never NULL: it reads
\* ctx->peer and blocks in sigwait at two different moments, and the receive
\* thread sets the address and signals at two others.
NeverSendToNull == send \in {"lock", "sendto"} => peer

\* No wake-up is lost: while the send thread waits for a connection that has
\* been accepted, the signal is pending or about to be sent (or its sending
\* failed and the receive thread ended with an error).
NoLostWakeup ==
    send = "sigwait" /\ peer => usr \/ recv = "kill" \/ (recv = "exit" /\ ~recvRes)

\* The send thread ends early only on SIGINT or with an error: the branch of
\* its epoll_wait is commented "Check if interrupt was received".  A start
\* signal that the DPU's send thread did not need takes that branch too.
ExitOnlyOnInterrupt ==
    send = "exit" /\ left > 0 => int \/ ~sendRes \/ ~recvRes

\* On the host, where nobody sends SIGUSR1, it is so.
HostExitOnlyOnInterrupt == mode = "host" => ExitOnlyOnInterrupt

\* start_threads: "Start threads and wait for them to finish".  Not when the
\* second one cannot be created.
ThreadsFinished ==
    main = "returned" => send \in {"none", "exit"} /\ recv \in {"none", "exit"}

\* From some moment on recvfrom fails whenever it is called, so that the
\* receive thread never polls its descriptors again.
RecvFailsForEver ==
    <>[](recv \in {"lock", "recvfrom"}) /\ []<>(recv = "recvfrom")

\* SIGINT ends the program: both threads notice it, or are cancelled, and
\* sc_start returns, wherever the threads were when it came, unless a thread
\* has failed (it may then have left the mutex locked, or the other waiting)
\* or recvfrom fails for ever.
InterruptEnds ==
    (int ~> main = "exit" \/ ~sendRes \/ ~recvRes) \/ RecvFailsForEver

\* recv_intr_fd is the "File descriptor to catch interrupts on receive
\* thread": once the thread runs, SIGINT ends it.  Not while recvfrom fails.
InterruptCaught == int /\ recv # "none" ~> recv = "exit" \/ main = "exit"
=============================================================================
