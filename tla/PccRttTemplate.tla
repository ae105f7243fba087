--------------------------- MODULE PccRttTemplate ---------------------------
(***************************************************************************)
(* The congestion control algorithm of the pcc application on the device   *)
(* (rtt_template.c), for one flow: every event of the flow calls           *)
(* rtt_template_algo, which answers with a rate and whether the NIC shall   *)
(* measure the round trip time again.  The measurement is a loop: an       *)
(* answer asks for the next one.  The request, the event that reports that *)
(* it was sent and the answer may each be lost; the handler of TX events   *)
(* then asks again, after ABORT_TIME << abort_cnt once the request is known *)
(* to be sent, or after the second further TX event while it is not.       *)
(*                                                                         *)
(* Integers are scaled: timestamps are taken modulo Time = 2^Bits, factors *)
(* and rates modulo Word (2^32 each in the code), abort_cnt modulo AbortMod *)
(* (256), and Unit is 1.0 in fixed point (2^16).  The parameters take all  *)
(* the values that rtt_template_init admits: the update factor goes up to  *)
(* 10.0, and the first rate may be below the lowest one.  External: the    *)
(* NIC holds one request of a flow until it sends it, reports it before    *)
(* the answer can come, and a flow that sends has TX events at every time. *)
(***************************************************************************)
EXTENDS Integers, FiniteSets

CONSTANTS
    Bits,          \* width of a timestamp
    AbortMod,      \* 2 to the width of abort_cnt
    AbortTime,     \* ABORT_TIME
    Word,          \* 2 to the width of factors and rates
    Unit,          \* 1.0 of the factors
    UpdateFactor, AI, BaseRtt, NewFlowRate, MinRate, MaxDelay,  \* param[]
    MaxRate,       \* DOCA_PCC_DEV_MAX_RATE
    MaxFlying      \* bound: measurements under way

Time == 2^Bits

ASSUME PccAssumption ==
    /\ {Bits, AbortMod, AbortTime, Unit, MaxFlying} \subseteq Nat \ {0}
    /\ {AI, BaseRtt, MaxDelay, MaxRate, Word} \subseteq Nat
    /\ UpdateFactor \in 1..(10 * Unit) /\ MinRate \in 1..MaxRate /\ NewFlowRate \in 1..MaxRate
    \* 2^20 + 2^20 and 10.0 fit 32 bits.
    /\ MaxRate + AI < Word /\ 10 * Unit < Word
    \* So it is for ABORT_TIME in 32 bits: a time limit can be exceeded.
    /\ \A n \in 0..(Bits - 1) : (AbortTime * 2^n) % Time < Time - 2

\* A fact of arithmetic, for the provers, which know nothing of powers.
ASSUME TimeAssumption == Time \in Nat \ {0}

VARIABLES
    now,         \* doca_pcc_dev_get_timestamp
    cur_rate, start_delay, abort_cnt, rtt_meas_psn, rtt_req_to_rtt_sent,
    was_nack, was_cnp,   \* cc_ctxt_rtt_template_t
    asked,       \* results->rtt_req, until the NIC has sent the request
    flying,      \* send times of the requests whose answer may still come
    cnp,         \* history: a CNP was handled since the last measurement
    awaited      \* history: a request was sent since the last measurement

loop == <<start_delay, abort_cnt, rtt_meas_psn, rtt_req_to_rtt_sent>>
flags == <<was_nack, was_cnp, cnp>>
vars == <<now, cur_rate, loop, flags, asked, flying, awaited>>

\* libpcc hands out a zeroed context.
Init ==
    /\ now = 0 /\ cur_rate = 0 /\ start_delay = 0 /\ abort_cnt = 0
    /\ rtt_meas_psn = 0 /\ rtt_req_to_rtt_sent = 0
    /\ was_nack = FALSE /\ was_cnp = FALSE /\ cnp = FALSE
    /\ asked = FALSE /\ flying = {} /\ awaited = FALSE

\* A difference of timestamps; "+= UINT32_MAX" takes one off when it wrapped.
Elapsed(from, to) ==
    IF from > to THEN to - from + Time - 1 ELSE to - from

\* (uint32_t)ABORT_TIME << abort_cnt.  Beyond the width the shift is undefined:
\* the device takes the count modulo the width, or the compiler takes zero.
AbortAfter ==
    IF abort_cnt < Bits THEN {(AbortTime * 2^abort_cnt) % Time}
    ELSE {(AbortTime * 2^(abort_cnt % Bits)) % Time, 0}

-----------------------------------------------------------------------------
\* rtt_template_handle_new_flow: the first event, of whatever kind.
HandleNewFlow ==
    /\ cur_rate = 0 /\ cur_rate' = NewFlowRate
    /\ start_delay' = now /\ rtt_meas_psn' = 0 /\ rtt_req_to_rtt_sent' = 1
    /\ abort_cnt' = 0 /\ was_nack' = FALSE /\ asked' = TRUE
    /\ UNCHANGED <<now, was_cnp, cnp, flying, awaited>>

\* Mutant: only the time limit is looked at.
WatchTimeOnly(time, pending) ==
    LET till == IF rtt_meas_psn = 0 THEN 0 ELSE Elapsed(start_delay, time)
    IN  \E limit \in AbortAfter :
          /\ asked' = (pending \/ till > limit)
          /\ abort_cnt' = IF till > limit THEN (abort_cnt + 1) % AbortMod ELSE abort_cnt
          /\ UNCHANGED <<start_delay, rtt_meas_psn, rtt_req_to_rtt_sent>>

\* rtt_template_handle_roce_tx without RTT_REQ_SENT, or with it when a request
\* is already waited for: the measurement under way is given up, or not.  A
\* request the NIC still holds is pending.
Watch(time, pending) ==
    LET till == IF rtt_meas_psn = 0 THEN 0 ELSE Elapsed(start_delay, time)
        unsent == rtt_req_to_rtt_sent + (IF rtt_meas_psn = 0 THEN 1 ELSE 0)
    IN  \E limit \in AbortAfter :
          /\ \/ /\ till > limit \/ unsent > 2
                /\ asked' = TRUE /\ rtt_req_to_rtt_sent' = 1
                /\ abort_cnt' = IF till > limit THEN (abort_cnt + 1) % AbortMod
                                                ELSE abort_cnt
             \/ /\ till <= limit /\ unsent <= 2
                /\ rtt_req_to_rtt_sent' = unsent /\ asked' = pending /\ UNCHANGED abort_cnt
          /\ UNCHANGED <<start_delay, rtt_meas_psn>>

\* A TX event of the sending flow, at a later time.
HandleTx ==
    /\ cur_rate # 0 /\ now' = (now + 1) % Time /\ Watch(now', asked)
    /\ UNCHANGED <<cur_rate, flags, flying, awaited>>

\* The NIC sends the request; the TX event that says so is handled, or lost.
RequestSent(reported) ==
    /\ asked /\ cur_rate # 0 /\ Cardinality(flying) < MaxFlying /\ awaited' = TRUE
    /\ \/ flying' = flying \cup {now}
       \/ UNCHANGED flying          \* the request or its answer is lost
    /\ IF ~reported
       THEN asked' = FALSE /\ UNCHANGED loop
       ELSE \/ /\ rtt_meas_psn = 0 /\ rtt_meas_psn' = 1 /\ rtt_req_to_rtt_sent' = 0
               /\ start_delay' = now /\ asked' = FALSE /\ UNCHANGED abort_cnt
            \/ rtt_meas_psn # 0 /\ Watch(now, FALSE)
    /\ UNCHANGED <<now, cur_rate, flags>>

-----------------------------------------------------------------------------
\* doca_pcc_dev_fxp_mult, of a product in twice the width
Times(factor, rate) == ((factor * rate) \div Unit) % Word

\* DEC_FACTOR, CNP_DEC_FACTOR and NACK_DEC_FACTOR: unsigned, so they wrap.
Factor(n) == (Unit - n * UpdateFactor) % Word

Clamped(rate) ==
    LET r == IF rate > MaxRate THEN MaxRate ELSE rate
    IN  IF r < MinRate THEN MinRate ELSE r

\* algorithm_core
\* Mutant: a CNP counts only while the answers are slow.
CoreCnpIfSlow(rtt) ==
    LET slow == rtt >= MaxDelay IN
    \/ /\ was_nack /\ slow /\ was_nack' = FALSE /\ UNCHANGED was_cnp
       /\ cur_rate' = Clamped(Times(Factor(5), cur_rate))
    \/ /\ ~(was_nack /\ slow) /\ slow /\ was_cnp' = FALSE /\ UNCHANGED was_nack
       /\ cur_rate' = Clamped(Times(Factor(2), cur_rate))
    \/ /\ ~slow /\ UNCHANGED <<was_nack, was_cnp>>
       /\ cur_rate' = Clamped(IF rtt > BaseRtt THEN Times(Factor(1), cur_rate)
                                               ELSE cur_rate + AI)

AlgorithmCore(rtt) ==
    LET slow == rtt >= MaxDelay IN
    \/ /\ was_nack /\ slow /\ was_nack' = FALSE /\ UNCHANGED was_cnp
       /\ cur_rate' = Clamped(Times(Factor(5), cur_rate))
    \/ /\ ~(was_nack /\ slow) /\ (was_cnp \/ slow) /\ was_cnp' = FALSE /\ UNCHANGED was_nack
       /\ cur_rate' = Clamped(Times(Factor(2), cur_rate))
    \/ /\ ~was_cnp /\ ~slow /\ UNCHANGED <<was_nack, was_cnp>>
       /\ cur_rate' = Clamped(IF rtt > BaseRtt THEN Times(Factor(1), cur_rate)
                                               ELSE cur_rate + AI)

\* "the one we are waiting for"
Unexpected == rtt_meas_psn = 0 /\ rtt_req_to_rtt_sent = 0

\* rtt_template_handle_roce_rtt: any answer that is still under way.
HandleRtt ==
    /\ cur_rate # 0
    /\ \E sent \in flying :
         /\ flying' = flying \ {sent}
         /\ IF Unexpected THEN UNCHANGED <<cur_rate, loop, flags, asked, awaited>>
            ELSE /\ rtt_meas_psn' = 0 /\ abort_cnt' = 0 /\ rtt_req_to_rtt_sent' = 1
                 /\ AlgorithmCore(Elapsed(sent, now)) /\ asked' = TRUE
                 /\ cnp' = FALSE /\ awaited' = FALSE /\ UNCHANGED start_delay
    /\ UNCHANGED now

\* The answer, or its event, is lost.
LoseAnswer ==
    /\ \E sent \in flying : flying' = flying \ {sent}
    /\ UNCHANGED <<now, cur_rate, loop, flags, asked, awaited>>

HandleCnp ==
    /\ cur_rate # 0 /\ was_cnp' = TRUE /\ cnp' = TRUE
    /\ UNCHANGED <<now, cur_rate, loop, was_nack, asked, flying, awaited>>

\* The handler of NACKs does not set results->rtt_req.
HandleNack ==
    /\ cur_rate # 0 /\ was_nack' = TRUE /\ asked' \in {asked, TRUE}
    /\ UNCHANGED <<now, cur_rate, loop, was_cnp, cnp, flying, awaited>>

-----------------------------------------------------------------------------
\* rtt_template_algo
Next ==
    \/ HandleNewFlow \/ HandleTx \/ RequestSent(TRUE) \/ RequestSent(FALSE)
    \/ HandleRtt \/ LoseAnswer \/ HandleCnp \/ HandleNack

\* The flow sends on.
FairSpec == Init /\ [][Next]_vars /\ WF_vars(HandleNewFlow) /\ WF_vars(HandleTx)

-----------------------------------------------------------------------------
\* The flow's context stays within its widths.
TypeOK ==
    /\ {now, start_delay} \subseteq 0..(Time - 1) /\ flying \subseteq 0..(Time - 1)
    /\ cur_rate \in 0..MaxRate
    /\ abort_cnt \in 0..(AbortMod - 1) /\ rtt_meas_psn \in 0..1
    /\ rtt_req_to_rtt_sent \in 0..2
    /\ {was_nack, was_cnp, cnp, asked, awaited} \subseteq BOOLEAN

\* An answer that comes when no request was sent since the last measurement
\* belongs to a request that was repeated by mistake; "the one we are waiting
\* for" it is not, and rtt_template_handle_roce_rtt leaves the flow alone.
OnlyAwaited == [][HandleRtt /\ ~awaited => UNCHANGED <<cur_rate, loop, flags>>]_vars

\* A measurement after a CNP lowers the rate, or finds it lowest, however many
\* TX events, aborted requests and NACKs came between the two, and although
\* a NACK may have been answered first.  With an update factor above a fifth
\* NACK_DEC_FACTOR wraps and does not lower the rate.
CongestionHeeded == [][HandleRtt /\ cnp => cur_rate' < cur_rate \/ cur_rate' = MinRate]_vars

\* Whatever is lost (the request, the event that reports it, the answer), a
\* flow that goes on sending asks for a measurement again; also when
\* abort_cnt has grown so far that the shift of the time limit overflows.
LoopSurvives == (cur_rate # 0 /\ ~asked /\ flying = {}) ~> asked
=============================================================================
