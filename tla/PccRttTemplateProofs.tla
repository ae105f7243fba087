------------------------ MODULE PccRttTemplateProofs ------------------------
(***************************************************************************)
(* The measurement loop and the reaction to congestion, for every value of *)
(* the algorithm's parameters that PccAssumption admits, and the           *)
(* types of a flow's context.  Whether the loop survives losses is a       *)
(* question of liveness and stays with TLC.                                *)
(***************************************************************************)
EXTENDS PccRttTemplate, TLAPS

\* What the loop needs of the types: the counters are numbers.
Counters ==
    /\ cur_rate \in 0..MaxRate /\ rtt_meas_psn \in 0..1 /\ rtt_req_to_rtt_sent \in Nat
    /\ was_cnp \in BOOLEAN /\ cnp \in BOOLEAN

\* A started flow waits for an answer, with the time limit running, or for a
\* request to be reported sent, with the counter of TX events running.
WaitsForSomething == cur_rate # 0 => ~Unexpected

\* A CNP that no measurement has answered is still remembered.
CnpRemembered == cnp => was_cnp

\* The inductive invariant.
IInv == Counters /\ WaitsForSomething /\ CnpRemembered

\* The parameters are numbers.
LEMMA ParamTypes ==
    /\ Unit \in Nat /\ UpdateFactor \in Nat /\ MinRate \in Nat /\ MaxRate \in Nat
    /\ AI \in Nat /\ NewFlowRate \in 1..MaxRate /\ Word \in Nat
    /\ Unit > 0 /\ UpdateFactor > 0 /\ MinRate > 0 /\ MinRate <= MaxRate
    /\ MaxRate < Word /\ Unit < Word
BY PccAssumption

\* A factor is a word, also when it wrapped.
LEMMA FactorType ==
    ASSUME NEW n \in Nat
    PROVE  Factor(n) \in Nat
<1>1. n * UpdateFactor \in Nat
  BY ParamTypes
<1>2. Unit - n * UpdateFactor \in Int
  BY <1>1, ParamTypes
<1> QED
  BY <1>2, ParamTypes DEF Factor

\* So is a product.
LEMMA TimesType ==
    ASSUME NEW factor \in Nat, NEW rate \in Nat
    PROVE  Times(factor, rate) \in Nat
<1>1. factor * rate \in Nat
  OBVIOUS
<1>2. (factor * rate) \div Unit \in Nat
  BY <1>1, ParamTypes
<1> QED
  BY <1>2, ParamTypes DEF Times

\* doca_pcc_dev_fxp_mult by a factor below 1.0 gives less.
LEMMA TimesLess ==
    ASSUME NEW factor \in Nat, NEW rate \in 1..MaxRate, factor < Unit
    PROVE  Times(factor, rate) < rate
<1> DEFINE q == (factor * rate) \div Unit
<1>1. Unit \in Nat /\ Unit > 0 /\ rate \in Nat /\ rate > 0 /\ rate < Word /\ Word \in Nat
  BY ParamTypes
<1>2. factor * rate \in Nat /\ factor * rate < Unit * rate
  BY <1>1
<1>3. q \in Nat /\ q * Unit <= factor * rate
  BY <1>1, <1>2
<1>4. q < rate
  <2>1. SUFFICES ASSUME q >= rate PROVE FALSE
    BY <1>1, <1>3
  <2>2. q * Unit >= rate * Unit
    BY <1>1, <1>3, <2>1
  <2> QED
    BY <1>1, <1>2, <1>3, <2>2
<1> HIDE DEF q
<1>5. q % Word = q
  BY <1>1, <1>3, <1>4
<1> QED
  BY <1>4, <1>5 DEF Times, q

\* A decrease factor that does not wrap is below 1.0.
LEMMA FactorLess ==
    ASSUME NEW n \in 1..5, 5 * UpdateFactor <= Unit
    PROVE  Factor(n) \in Nat /\ Factor(n) < Unit
<1>1. n * UpdateFactor \in Nat /\ n * UpdateFactor <= 5 * UpdateFactor /\ n * UpdateFactor > 0
  BY ParamTypes
<1>2. Unit - n * UpdateFactor \in Nat /\ Unit - n * UpdateFactor < Unit
  BY <1>1, ParamTypes
<1>3. (Unit - n * UpdateFactor) % Word = Unit - n * UpdateFactor
  BY <1>2, ParamTypes
<1> QED
  BY <1>2, <1>3 DEF Factor

\* The limits on the rate keep it a rate, never zero.
LEMMA ClampedRate ==
    ASSUME NEW rate \in Nat
    PROVE  /\ Clamped(rate) \in MinRate..MaxRate
           /\ Clamped(rate) = MinRate \/ Clamped(rate) <= rate
BY ParamTypes DEF Clamped

-----------------------------------------------------------------------------
LEMMA InitInvariant == Init => IInv
<1> SUFFICES ASSUME Init PROVE IInv
  OBVIOUS
<1>1. cur_rate \in 0..MaxRate /\ rtt_meas_psn \in 0..1 /\ rtt_req_to_rtt_sent \in Nat
  BY ParamTypes, SMT DEF Init
<1>2. was_cnp \in BOOLEAN /\ cnp \in BOOLEAN /\ ~cnp /\ cur_rate = 0
  BY Zenon DEF Init
<1> QED
  BY <1>1, <1>2 DEF IInv, Counters, WaitsForSomething, CnpRemembered

\* The handler of TX events keeps the loop waiting for something.
LEMMA WatchKeeps ==
    ASSUME Counters, ~Unexpected, NEW time, NEW pending, Watch(time, pending)
    PROVE  rtt_meas_psn' \in 0..1 /\ rtt_req_to_rtt_sent' \in Nat /\ ~Unexpected'
<1> DEFINE till == IF rtt_meas_psn = 0 THEN 0 ELSE Elapsed(start_delay, time)
           unsent == rtt_req_to_rtt_sent + (IF rtt_meas_psn = 0 THEN 1 ELSE 0)
<1>1. PICK limit \in AbortAfter :
        /\ \/ (till > limit \/ unsent > 2) /\ rtt_req_to_rtt_sent' = 1
           \/ till <= limit /\ unsent <= 2 /\ rtt_req_to_rtt_sent' = unsent
        /\ rtt_meas_psn' = rtt_meas_psn
  BY Zenon DEF Watch
<1>2. rtt_meas_psn' = rtt_meas_psn /\ (rtt_req_to_rtt_sent' = 1 \/ rtt_req_to_rtt_sent' = unsent)
  BY <1>1
<1> QED
  BY <1>2 DEF Counters, Unexpected

\* What algorithm_core may do to the rate and to the flag of the CNP.
LEMMA CoreCases ==
    ASSUME NEW rtt, AlgorithmCore(rtt)
    PROVE  \/ cur_rate' = Clamped(Times(Factor(5), cur_rate)) /\ was_cnp' = was_cnp
           \/ cur_rate' = Clamped(Times(Factor(2), cur_rate)) /\ was_cnp' = FALSE
           \/ /\ cur_rate' \in {Clamped(Times(Factor(1), cur_rate)), Clamped(cur_rate + AI)}
              /\ ~was_cnp /\ was_cnp' = was_cnp
BY Zenon DEF AlgorithmCore

\* After a measurement the rate is within its limits, whatever was computed.
LEMMA CoreRate ==
    ASSUME Counters, NEW rtt, AlgorithmCore(rtt)
    PROVE  cur_rate' \in MinRate..MaxRate /\ was_cnp' \in BOOLEAN
<1>1. cur_rate \in Nat
  BY ParamTypes DEF Counters
<1>2. /\ Times(Factor(5), cur_rate) \in Nat /\ Times(Factor(2), cur_rate) \in Nat
      /\ Times(Factor(1), cur_rate) \in Nat /\ cur_rate + AI \in Nat
  <2>1. Factor(5) \in Nat /\ Factor(2) \in Nat /\ Factor(1) \in Nat
    BY FactorType
  <2>2. \A f \in Nat : Times(f, cur_rate) \in Nat
    BY <1>1, TimesType
  <2> QED
    BY <1>1, <2>1, <2>2, ParamTypes
<1>3. \A r \in Nat : Clamped(r) \in MinRate..MaxRate
  BY ClampedRate
<1>4. cur_rate' \in {Clamped(Times(Factor(5), cur_rate)), Clamped(Times(Factor(2), cur_rate)),
                     Clamped(Times(Factor(1), cur_rate)), Clamped(cur_rate + AI)}
  BY CoreCases, Zenon
<1>5. was_cnp' \in BOOLEAN
  BY CoreCases, Zenon DEF Counters
<1>6. cur_rate' \in MinRate..MaxRate
  BY <1>2, <1>3, <1>4
<1> QED
  BY <1>5, <1>6, Zenon

\* After a CNP it is lower, or lowest, when no decrease factor wraps.
LEMMA CoreLowers ==
    ASSUME Counters, cur_rate # 0, was_cnp, 5 * UpdateFactor <= Unit,
           NEW rtt, AlgorithmCore(rtt)
    PROVE  cur_rate' < cur_rate \/ cur_rate' = MinRate
<1> DEFINE nack == Times(Factor(5), cur_rate)
           cnpd == Times(Factor(2), cur_rate)
<1>1. cur_rate \in 1..MaxRate /\ cur_rate \in Nat
  BY ParamTypes DEF Counters
<1>2. nack \in Nat /\ nack < cur_rate
  <2>1. Factor(5) \in Nat /\ Factor(5) < Unit
    BY FactorLess
  <2> QED
    BY <1>1, <2>1, TimesLess, TimesType
<1>3. cnpd \in Nat /\ cnpd < cur_rate
  <2>1. Factor(2) \in Nat /\ Factor(2) < Unit
    BY FactorLess
  <2> QED
    BY <1>1, <2>1, TimesLess, TimesType
<1>4. cur_rate' = Clamped(nack) \/ cur_rate' = Clamped(cnpd)
  BY CoreCases, Zenon
<1> HIDE DEF nack, cnpd
<1>5. \A r \in {nack, cnpd} : /\ Clamped(r) \in Nat
                              /\ Clamped(r) = MinRate \/ Clamped(r) <= r
  BY <1>2, <1>3, ClampedRate, ParamTypes
<1> QED
  BY <1>1, <1>2, <1>3, <1>4, <1>5

\* Every event keeps the invariant.
LEMMA NextInvariant == IInv /\ [Next]_vars => IInv'
<1> SUFFICES ASSUME IInv, [Next]_vars PROVE IInv'
  OBVIOUS
<1> USE DEF IInv
<1>1. CASE HandleNewFlow
  BY <1>1, ParamTypes DEF HandleNewFlow, Counters, WaitsForSomething, Unexpected, CnpRemembered
<1>2. CASE HandleTx
  <2>1. ~Unexpected /\ Watch(now', asked)
    BY <1>2 DEF HandleTx, WaitsForSomething
  <2>2. rtt_meas_psn' \in 0..1 /\ rtt_req_to_rtt_sent' \in Nat /\ ~Unexpected'
    BY <2>1, WatchKeeps
  <2> QED
    BY <1>2, <2>2 DEF HandleTx, flags, Counters, WaitsForSomething, CnpRemembered
<1>3. ASSUME NEW reported \in BOOLEAN, RequestSent(reported) PROVE IInv'
  <2>1. ~Unexpected
    BY <1>3 DEF RequestSent, WaitsForSomething
  <2>2. CASE Watch(now, FALSE)
    <3>1. rtt_meas_psn' \in 0..1 /\ rtt_req_to_rtt_sent' \in Nat /\ ~Unexpected'
      BY <2>1, <2>2, WatchKeeps
    <3> QED
      BY <1>3, <3>1 DEF RequestSent, flags, Counters, WaitsForSomething, CnpRemembered
  <2>3. CASE rtt_meas_psn' = 1 /\ rtt_req_to_rtt_sent' = 0
    BY <1>3, <2>3 DEF RequestSent, flags, Counters, WaitsForSomething, Unexpected, CnpRemembered
  <2>4. CASE UNCHANGED loop
    BY <1>3, <2>1, <2>4 DEF RequestSent, loop, flags, Counters, WaitsForSomething, Unexpected, CnpRemembered
  <2> QED
    BY <1>3, <2>2, <2>3, <2>4 DEF RequestSent
<1>4. CASE HandleRtt
  <2>1. PICK sent \in flying :
          /\ rtt_meas_psn' = 0 /\ rtt_req_to_rtt_sent' = 1 /\ cnp' = FALSE
          /\ AlgorithmCore(Elapsed(sent, now))
    BY <1>4 DEF HandleRtt, WaitsForSomething
  <2>2. cur_rate' \in 0..MaxRate /\ cur_rate' # 0 /\ was_cnp' \in BOOLEAN
    BY <2>1, CoreRate, ParamTypes
  <2>3. rtt_meas_psn' \in 0..1 /\ rtt_req_to_rtt_sent' \in Nat /\ ~Unexpected'
    BY <2>1, SMT DEF Unexpected
  <2>4. ~cnp' /\ cnp' \in BOOLEAN
    BY <2>1, Zenon
  <2> QED
    BY <2>2, <2>3, <2>4, Zenon DEF Counters, WaitsForSomething, CnpRemembered
<1>5. CASE LoseAnswer
  BY <1>5 DEF LoseAnswer, loop, flags, Counters, WaitsForSomething, Unexpected, CnpRemembered
<1>6. CASE HandleCnp
  BY <1>6 DEF HandleCnp, loop, Counters, WaitsForSomething, Unexpected, CnpRemembered
<1>7. CASE HandleNack
  BY <1>7 DEF HandleNack, loop, Counters, WaitsForSomething, Unexpected, CnpRemembered
<1>8. CASE UNCHANGED vars
  BY <1>8 DEF vars, loop, flags, Counters, WaitsForSomething, Unexpected, CnpRemembered
<1> QED
  BY <1>1, <1>2, <1>3, <1>4, <1>5, <1>6, <1>7, <1>8 DEF Next

-----------------------------------------------------------------------------
\* The test of rtt_template_handle_roce_rtt for an answer that is not waited
\* for succeeds in no behaviour of a started flow and for no parameters:
\* what OnlyAwaited asks of it, it never does.
THEOREM TestNeverSucceeds == FairSpec => [](cur_rate # 0 => ~Unexpected)
<1>1. IInv => (cur_rate # 0 => ~Unexpected)
  BY DEF IInv, WaitsForSomething
<1> QED
  BY InitInvariant, NextInvariant, <1>1, PTL DEF FairSpec

\* The first measurement after a CNP lowers the rate or finds it lowest, for
\* every update factor up to a fifth; above it NACK_DEC_FACTOR wraps, and the
\* property fails.
THEOREM CongestionHeededHolds ==
    ASSUME 5 * UpdateFactor <= Unit
    PROVE  FairSpec => CongestionHeeded
<1>1. IInv /\ [Next]_vars => [HandleRtt /\ cnp => cur_rate' < cur_rate \/ cur_rate' = MinRate]_vars
  <2> SUFFICES ASSUME IInv, HandleRtt, cnp
               PROVE  cur_rate' < cur_rate \/ cur_rate' = MinRate
    OBVIOUS
  <2>1. PICK sent \in flying : AlgorithmCore(Elapsed(sent, now))
    BY DEF HandleRtt, IInv, WaitsForSomething
  <2>2. was_cnp /\ cur_rate # 0 /\ Counters
    BY DEF IInv, CnpRemembered, HandleRtt
  <2> QED
    BY <2>1, <2>2, CoreLowers
<1> QED
  BY InitInvariant, NextInvariant, <1>1, PTL DEF FairSpec, CongestionHeeded

-----------------------------------------------------------------------------
(***************************************************************************)
(* The widths of the flow's context, field by field.                       *)
(***************************************************************************)
Clock ==
    /\ now \in 0..(Time - 1) /\ start_delay \in 0..(Time - 1)
    /\ flying \subseteq 0..(Time - 1)
Loop == abort_cnt \in 0..(AbortMod - 1) /\ rtt_meas_psn \in 0..1 /\ rtt_req_to_rtt_sent \in 0..2
Flags == {was_nack, was_cnp, cnp, asked, awaited} \subseteq BOOLEAN

LEMMA ClockNext == Clock /\ [Next]_vars => Clock'
<1> SUFFICES ASSUME Clock, [Next]_vars PROVE Clock'
  OBVIOUS
<1> USE TimeAssumption
<1> HIDE DEF Time
<1>1. CASE HandleTx
  <2>1. now' \in 0..(Time - 1)
    BY <1>1 DEF HandleTx, Clock
  <2>2. start_delay' = start_delay /\ flying' = flying
    BY <1>1, Zenon DEF HandleTx, Watch
  <2> QED
    BY <2>1, <2>2 DEF Clock
<1>2. ASSUME NEW reported \in BOOLEAN, RequestSent(reported) PROVE Clock'
  <2>1. flying' = flying \cup {now} \/ flying' = flying
    BY <1>2, Zenon DEF RequestSent
  <2>2. start_delay' = start_delay \/ start_delay' = now
    BY <1>2, Zenon DEF RequestSent, Watch, loop
  <2>3. now' = now
    BY <1>2, Zenon DEF RequestSent
  <2> QED
    BY <2>1, <2>2, <2>3 DEF Clock
<1>3. CASE HandleRtt \/ LoseAnswer
  <2>1. now' = now /\ start_delay' = start_delay /\ \E sent \in flying : flying' = flying \ {sent}
    BY <1>3, Zenon DEF HandleRtt, LoseAnswer, loop
  <2> QED
    BY <2>1 DEF Clock
<1>4. CASE HandleNewFlow \/ HandleCnp \/ HandleNack \/ UNCHANGED vars
  <2>1. now' = now /\ (start_delay' = start_delay \/ start_delay' = now) /\ flying' = flying
    BY <1>4, Zenon DEF HandleNewFlow, HandleCnp, HandleNack, vars, loop
  <2> QED
    BY <2>1 DEF Clock
<1> QED
  BY <1>1, <1>2, <1>3, <1>4 DEF Next

LEMMA WatchLoop ==
    ASSUME Loop, NEW time, NEW pending, Watch(time, pending)
    PROVE  Loop'
<1> DEFINE till == IF rtt_meas_psn = 0 THEN 0 ELSE Elapsed(start_delay, time)
           unsent == rtt_req_to_rtt_sent + (IF rtt_meas_psn = 0 THEN 1 ELSE 0)
<1>1. /\ \/ rtt_req_to_rtt_sent' = 1
         \/ rtt_req_to_rtt_sent' = unsent /\ unsent <= 2
      /\ abort_cnt' = (abort_cnt + 1) % AbortMod \/ abort_cnt' = abort_cnt
      /\ rtt_meas_psn' = rtt_meas_psn
  BY Zenon DEF Watch
<1>2. AbortMod \in Nat \ {0}
  BY PccAssumption
<1>3. abort_cnt' \in 0..(AbortMod - 1)
  BY <1>1, <1>2 DEF Loop
<1>4. rtt_req_to_rtt_sent' \in 0..2
  BY <1>1 DEF Loop
<1> QED
  BY <1>1, <1>3, <1>4 DEF Loop

LEMMA LoopNext == Loop /\ [Next]_vars => Loop'
<1> SUFFICES ASSUME Loop, [Next]_vars PROVE Loop'
  OBVIOUS
<1>0. 0 \in 0..(AbortMod - 1)
  BY PccAssumption
<1>1. CASE HandleNewFlow
  BY <1>0, <1>1 DEF HandleNewFlow, Loop
<1>2. CASE HandleTx
  BY <1>2, WatchLoop, Zenon DEF HandleTx
<1>3. ASSUME NEW reported \in BOOLEAN, RequestSent(reported) PROVE Loop'
  <2>1. \/ UNCHANGED loop
        \/ rtt_meas_psn' = 1 /\ rtt_req_to_rtt_sent' = 0 /\ abort_cnt' = abort_cnt
        \/ Watch(now, FALSE)
    BY <1>3, Zenon DEF RequestSent
  <2>2. CASE UNCHANGED loop
    BY <2>2 DEF loop, Loop
  <2>3. CASE rtt_meas_psn' = 1 /\ rtt_req_to_rtt_sent' = 0 /\ abort_cnt' = abort_cnt
    BY <2>3 DEF Loop
  <2>4. CASE Watch(now, FALSE)
    BY <2>4, WatchLoop
  <2> QED
    BY <2>1, <2>2, <2>3, <2>4
<1>4. CASE HandleRtt
  <2>1. UNCHANGED loop \/ (rtt_meas_psn' = 0 /\ abort_cnt' = 0 /\ rtt_req_to_rtt_sent' = 1)
    BY <1>4, Zenon DEF HandleRtt
  <2> QED
    BY <1>0, <2>1 DEF loop, Loop
<1>5. CASE UNCHANGED loop
  BY <1>5 DEF loop, Loop
<1> QED
  BY <1>1, <1>2, <1>3, <1>4, <1>5, Zenon DEF Next, LoseAnswer, HandleCnp, HandleNack, vars

LEMMA FlagsNext == Flags /\ [Next]_vars => Flags'
<1> SUFFICES ASSUME Flags, [Next]_vars PROVE Flags'
  OBVIOUS
<1>0. /\ was_nack \in BOOLEAN /\ was_cnp \in BOOLEAN /\ cnp \in BOOLEAN
      /\ asked \in BOOLEAN /\ awaited \in BOOLEAN
  BY Zenon DEF Flags
<1>1. was_nack' \in {was_nack, TRUE, FALSE}
  BY Zenon DEF Next, HandleNewFlow, HandleTx, RequestSent, HandleRtt, AlgorithmCore, LoseAnswer,
               HandleCnp, HandleNack, vars, flags
<1>2. was_cnp' \in {was_cnp, TRUE, FALSE}
  BY Zenon DEF Next, HandleNewFlow, HandleTx, RequestSent, HandleRtt, AlgorithmCore, LoseAnswer,
               HandleCnp, HandleNack, vars, flags
<1>3. cnp' \in {cnp, TRUE, FALSE}
  BY Zenon DEF Next, HandleNewFlow, HandleTx, RequestSent, HandleRtt, LoseAnswer,
               HandleCnp, HandleNack, vars, flags
<1>4. asked' \in {asked, TRUE, FALSE}
  BY Zenon DEF Next, HandleNewFlow, HandleTx, RequestSent, Watch, HandleRtt, LoseAnswer,
               HandleCnp, HandleNack, vars
<1>5. awaited' \in {awaited, TRUE, FALSE}
  BY Zenon DEF Next, HandleNewFlow, HandleTx, RequestSent, HandleRtt, LoseAnswer,
               HandleCnp, HandleNack, vars
<1>6. /\ was_nack' \in BOOLEAN /\ was_cnp' \in BOOLEAN /\ cnp' \in BOOLEAN
      /\ asked' \in BOOLEAN /\ awaited' \in BOOLEAN
  BY <1>0, <1>1, <1>2, <1>3, <1>4, <1>5, Zenon
<1> QED
  BY <1>6, Zenon DEF Flags

\* The flow's context stays within its widths in every order of events: the
\* counter of TX events never passes 2 (Watch repeats the request first), the
\* rate stays within the highest one, also when a decrease factor wraps, and
\* a timestamp is one however often the clock has wrapped.
THEOREM TypeCorrect == FairSpec => []TypeOK
<1>1. Init => Clock /\ Loop /\ Flags
  <2> SUFFICES ASSUME Init PROVE Clock /\ Loop /\ Flags
    OBVIOUS
  <2>1. 0 \in 0..(Time - 1) /\ 0 \in 0..(AbortMod - 1)
    BY TimeAssumption, PccAssumption
  <2>2. Clock /\ Loop
    BY <2>1 DEF Init, Clock, Loop
  <2>3. Flags
    BY Zenon DEF Init, Flags
  <2> QED
    BY <2>2, <2>3
<1>2. Clock /\ Loop /\ Flags /\ [Next]_vars => Clock' /\ Loop' /\ Flags'
  BY ClockNext, LoopNext, FlagsNext
<1>3. IInv /\ Clock /\ Loop /\ Flags => TypeOK
  BY Zenon DEF IInv, Counters, Clock, Loop, Flags, TypeOK
<1> QED
  BY InitInvariant, NextInvariant, <1>1, <1>2, <1>3, PTL DEF FairSpec
=============================================================================
