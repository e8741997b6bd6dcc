------------------------ MODULE CircuitBreakerProofs ------------------------
(***************************************************************************)
(* Proofs about CircuitBreaker, for any number of calls, any threshold,    *)
(* reset time and retry bound, and any set of outcomes.                    *)
(***************************************************************************)
EXTENDS CircuitBreaker, TLAPS

(* The methods keep the breaker's fields well formed. *)
LEMMA MethodTypes ==
  ASSUME NEW b \in Breaker
  PROVE  /\ Sync(b) \in Breaker
         /\ AfterAllow(b) \in Breaker
         /\ AfterSuccess(b) \in Breaker
         /\ Counted(b) \in Breaker
         /\ AfterFailure(b) \in Breaker
<1>1. Sync(b) \in Breaker
  BY DEF Sync, Breaker
<1>2. AfterAllow(b) \in Breaker
  BY <1>1 DEF AfterAllow, Breaker
<1>3. Counted(b) \in Breaker
  BY <1>1 DEF Counted, Breaker
<1>4. AfterFailure(b) \in Breaker
  BY <1>3 DEF AfterFailure, Trip, Breaker
<1> QED
  BY <1>1, <1>2, <1>3, <1>4 DEF AfterSuccess, Breaker

(* _sync and allow never open or close the circuit, nor touch the count. *)
LEMMA AllowKeepsCount ==
  ASSUME NEW b \in Breaker
  PROVE  /\ Sync(b).state = "closed" <=> b.state = "closed"
         /\ Sync(b).failures = b.failures
         /\ AfterAllow(b).state = Sync(b).state
         /\ AfterAllow(b).failures = b.failures
<1>1. /\ Sync(b).state = "closed" <=> b.state = "closed"
      /\ Sync(b).failures = b.failures
  BY DEF Sync, Breaker
<1>2. Sync(b) \in Breaker
  BY MethodTypes
<1> QED
  BY <1>1, <1>2 DEF AfterAllow, Breaker

(* record_failure counts in a closed circuit and trips any other. *)
LEMMA FailureEffect ==
  ASSUME NEW b \in Breaker
  PROVE  /\ b.state # "closed" => AfterFailure(b).state = "open"
         /\ b.state = "closed" =>
              /\ AfterFailure(b).failures = b.failures + 1
              /\ AfterFailure(b).state =
                   IF b.failures + 1 >= FailureThreshold THEN "open" ELSE "closed"
<1>1. Sync(b) \in Breaker /\ Counted(b) \in Breaker
  BY MethodTypes
<1>2. CASE b.state = "closed"
  <2>1. Sync(b) = b
    BY <1>2 DEF Sync
  <2>2. Counted(b).state = "closed" /\ Counted(b).failures = b.failures + 1
    BY <1>2, <2>1 DEF Counted, Breaker
  <2> QED
    BY <1>1, <1>2, <2>2 DEF AfterFailure, Trips, Trip, Breaker
<1>3. CASE b.state # "closed"
  <2>1. Sync(b).state # "closed"
    BY <1>3, AllowKeepsCount
  <2>2. Counted(b).state # "closed"
    BY <1>1, <2>1 DEF Counted
  <2> QED
    BY <1>1, <1>3, <2>2 DEF AfterFailure, Trips, Trip, Breaker
<1> QED
  BY <1>2, <1>3

LEMMA IndInvInit == Init => IndInv
  BY NumbersAssumption
  DEF Init, IndInv, TypeOK, Breaker, BackoffHasRetries, TripsOnUnbrokenRun, OneProbePerEpisode

(* The top of the retry loop, for an attempt within the bound. *)
LEMMA TryAttemptKeeps ==
  ASSUME IndInv, NEW c \in Call, NEW n \in 0..MaxRetries, TryAttempt(c, n)
  PROVE  IndInv'
<1> USE DEF IndInv, TypeOK
<1>1. AfterAllow(circuit) \in Breaker /\ Sync(circuit) \in Breaker
  BY MethodTypes
<1>2. TypeOK'
  <2>1. admitted' \in Nat
    BY DEF TryAttempt
  <2>2. pc' \in [Call -> {"idle", "sending", "backoff"} \cup Ended]
    BY DEF TryAttempt, Ended
  <2>3. attempt' \in [Call -> 0..MaxRetries] /\ circuit' \in Breaker
    BY <1>1 DEF TryAttempt
  <2> QED
    BY <2>1, <2>2, <2>3 DEF TryAttempt
<1>3. BackoffHasRetries'
  BY DEF TryAttempt, BackoffHasRetries
<1>4. TripsOnUnbrokenRun'
  BY <1>1, AllowKeepsCount DEF TryAttempt, TripsOnUnbrokenRun
<1>5. OneProbePerEpisode'
  <2> SUFFICES ASSUME circuit'.state = "half_open"
               PROVE  admitted' = IF circuit'.slot = "taken" THEN 1 ELSE 0
    BY DEF OneProbePerEpisode
  <2>1. Sync(circuit).state = "half_open"
    BY AllowKeepsCount DEF TryAttempt
  <2>2. circuit'.slot = "taken"
    BY <1>1, <2>1 DEF TryAttempt, AfterAllow, Breaker
  <2>3. CASE circuit.state # "half_open"
    BY <2>1, <2>2, <2>3 DEF TryAttempt, Enters
  <2>4. CASE circuit.state = "half_open"
    <3>1. Sync(circuit) = circuit
      BY <2>4 DEF Sync
    <3> QED
      BY <2>1, <2>2, <2>4, <3>1 DEF TryAttempt, Enters, Allow, OneProbePerEpisode, Breaker
  <2> QED
    BY <2>3, <2>4
<1> QED
  BY <1>2, <1>3, <1>4, <1>5

LEMMA IndInvNext == IndInv /\ [Next]_vars => IndInv'
<1> SUFFICES ASSUME IndInv, [Next]_vars PROVE IndInv'
  OBVIOUS
<1> USE NumbersAssumption DEF IndInv, TypeOK
<1>1. ASSUME NEW c \in Call, Begin(c) PROVE IndInv'
  BY <1>1, TryAttemptKeeps DEF Begin
<1>2. ASSUME NEW c \in Call, Retry(c) PROVE IndInv'
  <2>1. NextAttempt(c) \in 0..MaxRetries
    BY <1>2 DEF Retry, NextAttempt, BackoffHasRetries
  <2> QED
    BY <1>2, <2>1, TryAttemptKeeps DEF Retry
<1>3. ASSUME NEW c \in Call, Succeed(c) PROVE IndInv'
  BY <1>3, MethodTypes
  DEF Succeed, AfterSuccess, Ended, BackoffHasRetries, TripsOnUnbrokenRun, OneProbePerEpisode
<1>4. ASSUME NEW c \in Call, FailRetryable(c) PROVE IndInv'
  <2>1. circuit' \in Breaker /\ circuit' = AfterFailure(circuit)
    BY <1>4, MethodTypes DEF FailRetryable
  <2>2. TypeOK'
    BY <1>4, <2>1 DEF FailRetryable, Ended
  <2>3. BackoffHasRetries'
    BY <1>4 DEF FailRetryable, OutOfRetries, BackoffHasRetries
  <2>4. circuit.failures \in Nat
    BY DEF Breaker
  <2>5. TripsOnUnbrokenRun'
    BY <1>4, <2>1, <2>4, FailureEffect DEF FailRetryable, TripsOnUnbrokenRun
  <2>6. OneProbePerEpisode'
    BY <2>1, FailureEffect DEF OneProbePerEpisode
  <2> QED
    BY <2>2, <2>3, <2>5, <2>6
<1>5. ASSUME NEW c \in Call, FailFatal(c) PROVE IndInv'
  BY <1>5 DEF FailFatal, Ended, BackoffHasRetries, TripsOnUnbrokenRun, OneProbePerEpisode
<1>6. ASSUME NEW c \in Call, Cancel(c) PROVE IndInv'
  BY <1>6 DEF Cancel, Ended, BackoffHasRetries, TripsOnUnbrokenRun, OneProbePerEpisode
<1>7. CASE ReadState
  <2>1. circuit' = Sync(circuit) /\ circuit' # circuit /\ Sync(circuit) \in Breaker
    BY <1>7, MethodTypes DEF ReadState
  <2>2. circuit'.slot = "free"
    BY <2>1 DEF Sync, Breaker
  <2>3. TripsOnUnbrokenRun'
    BY <1>7, <2>1, AllowKeepsCount DEF ReadState, TripsOnUnbrokenRun
  <2> QED
    BY <1>7, <2>1, <2>2, <2>3 DEF ReadState, BackoffHasRetries, OneProbePerEpisode
<1>8. CASE Tick
  BY <1>8 DEF Tick, BackoffHasRetries, TripsOnUnbrokenRun, OneProbePerEpisode
<1>9. CASE UNCHANGED vars
  BY <1>9 DEF vars, BackoffHasRetries, TripsOnUnbrokenRun, OneProbePerEpisode
<1> QED
  BY <1>1, <1>2, <1>3, <1>4, <1>5, <1>6, <1>7, <1>8, <1>9 DEF Next, Answered

LEMMA Inductive == Spec => []IndInv
  BY IndInvInit, IndInvNext, PTL DEF Spec

(* The fields of the breaker and of every retry loop stay in range; no     *)
(* call makes more than 1 + max_retries attempts (retry.py:146, 164).      *)
THEOREM TypeCorrect == Spec => []TypeOK
<1>1. IndInv => TypeOK
  BY DEF IndInv
<1> QED
  BY <1>1, Inductive, PTL

(* The circuit is closed exactly while the unbroken run of recorded        *)
(* failures is below the threshold (retry.py:41-42, 93-113).               *)
THEOREM TripsExactlyOnUnbrokenRun == Spec => []TripsOnUnbrokenRun
<1>1. IndInv => TripsOnUnbrokenRun
  BY DEF IndInv
<1> QED
  BY <1>1, Inductive, PTL

(* One half-open episode hands its probe slot out at most once             *)
(* (retry.py:84-91).                                                       *)
THEOREM ProbeSlotHandedOutOnce == Spec => []OneProbePerEpisode
<1>1. IndInv => OneProbePerEpisode
  BY DEF IndInv
<1> QED
  BY <1>1, Inductive, PTL
=============================================================================
