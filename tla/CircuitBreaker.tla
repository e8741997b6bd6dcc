--------------------------- MODULE CircuitBreaker ---------------------------
(***************************************************************************)
(* credbroker/reliability/retry.py: one CircuitBreaker shared by any       *)
(* number of concurrent call_with_retries loops (the calls of one provider *)
(* in one InvokeService).                                                  *)
(*                                                                         *)
(* The breaker has no lock: its methods run between awaits of one event    *)
(* loop, so each is atomic, and calls interleave only while they await     *)
(* fn() or sleep().  _clock() - _opened_at is modelled by sinceTrip, which *)
(* stops growing at ResetTime, where the code stops telling values apart.  *)
(***************************************************************************)
EXTENDS Naturals

CONSTANTS
  Call,             \* concurrent call_with_retries loops
  FailureThreshold, \* settings.circuit_failure_threshold
  ResetTime,        \* settings.circuit_reset_seconds, in ticks
  MaxRetries,       \* settings.outbound_max_retries
  Outcomes          \* how awaiting fn() may end, a subset of AllOutcomes

(* ok: fn() returned.  retryable: timeout, transport error, provider 5xx.  *)
(* fatal: any other exception, such as a provider 4xx.  cancelled: the     *)
(* task is cancelled, which no "except Exception" sees.                    *)
AllOutcomes == {"ok", "retryable", "fatal", "cancelled"}

ASSUME NumbersAssumption ==
  /\ FailureThreshold \in Nat \ {0}
  /\ ResetTime \in Nat
  /\ MaxRetries \in Nat
ASSUME OutcomesAssumption == Outcomes \subseteq AllOutcomes

VARIABLES
  circuit,          \* the breaker: _state, _consecutive_failures, _probe_in_flight
  sinceTrip,        \* time since the last _trip, at most ResetTime
  pc,               \* pc[c]: where call c is, or how it ended
  attempt,          \* attempt[c]: the loop variable
  streak,           \* history: failures recorded since the last success, capped
  admitted          \* history: calls let through since the circuit went half-open

vars == <<circuit, sinceTrip, pc, attempt, streak, admitted>>

Ended == {"ok", "failed", "unavailable", "cancelled"}

Breaker ==
  [state: {"closed", "open", "half_open"}, failures: Nat, slot: {"free", "taken"}]

-----------------------------------------------------------------------------
(* The breaker's methods, as functions of its fields. *)

(* _sync: an open circuit whose reset window is over is half-open. *)
Sync(b) ==
  IF b.state = "open" /\ sinceTrip >= ResetTime
    THEN [b EXCEPT !.state = "half_open", !.slot = "free"]
    ELSE b

(* allow(): the answer ... *)
Allow(b) ==
  \/ Sync(b).state = "closed"
  \/ Sync(b).state = "half_open" /\ Sync(b).slot = "free"

(* Mutation: the probe slot is never claimed. *)
NoClaim(b) == Sync(b)

(* ... and the effect: the first caller of a half-open circuit takes the slot. *)
AfterAllow(b) ==
  IF Sync(b).state = "half_open" THEN [Sync(b) EXCEPT !.slot = "taken"] ELSE Sync(b)

(* Mutation: a success closes the circuit but keeps the count. *)
KeepCount(b) == [state |-> "closed", failures |-> b.failures, slot |-> "free"]

(* record_success *)
AfterSuccess(b) == [state |-> "closed", failures |-> 0, slot |-> "free"]

(* _trip *)
Trip(b) == [b EXCEPT !.state = "open", !.slot = "free"]

(* record_failure *)
Counted(b) ==
  IF Sync(b).state = "closed" THEN [Sync(b) EXCEPT !.failures = @ + 1] ELSE Sync(b)

Trips(b) == Counted(b).state = "closed" => Counted(b).failures >= FailureThreshold

AfterFailure(b) == IF Trips(b) THEN Trip(Counted(b)) ELSE Counted(b)

-----------------------------------------------------------------------------
(* call_with_retries. *)

Enters(b) == b.state # "half_open" /\ Sync(b).state = "half_open"

(* The top of the loop for attempt number n: ask the breaker, then send. *)
TryAttempt(c, n) ==
  /\ attempt' = [attempt EXCEPT ![c] = n]
  /\ circuit' = AfterAllow(circuit)
  /\ pc' = [pc EXCEPT ![c] = IF Allow(circuit) THEN "sending" ELSE "unavailable"]
  /\ admitted' = IF Enters(circuit) THEN 1
                 ELSE IF Allow(circuit) /\ Sync(circuit).state = "half_open"
                      THEN admitted + 1 ELSE admitted
  /\ UNCHANGED <<sinceTrip, streak>>

(* A call arrives; an ended call stands for the next one. *)
Begin(c) ==
  /\ pc[c] \in {"idle"} \cup Ended
  /\ TryAttempt(c, 0)

(* fn() returned: record_success, return the result. *)
Succeed(c) ==
  /\ pc[c] = "sending" /\ "ok" \in Outcomes
  /\ circuit' = AfterSuccess(circuit)
  /\ pc' = [pc EXCEPT ![c] = "ok"]
  /\ streak' = 0
  /\ UNCHANGED <<sinceTrip, attempt, admitted>>

(* Mutation: one retry too many. *)
LateStop(c) == attempt[c] > MaxRetries

OutOfRetries(c) == attempt[c] >= MaxRetries

(* A retryable failure: record_failure, then give up or back off. *)
FailRetryable(c) ==
  /\ pc[c] = "sending" /\ "retryable" \in Outcomes
  /\ circuit' = AfterFailure(circuit)
  /\ sinceTrip' = IF Trips(circuit) THEN 0 ELSE sinceTrip
  /\ pc' = [pc EXCEPT ![c] = IF OutOfRetries(c) THEN "failed" ELSE "backoff"]
  /\ streak' = IF streak < FailureThreshold THEN streak + 1 ELSE streak
  /\ UNCHANGED <<attempt, admitted>>

(* Any other exception is re-raised at once and records nothing; so is a   *)
(* cancellation, while sending or while sleeping.                          *)
FailFatal(c) ==
  /\ pc[c] = "sending" /\ "fatal" \in Outcomes
  /\ pc' = [pc EXCEPT ![c] = "failed"]
  /\ UNCHANGED <<circuit, sinceTrip, attempt, streak, admitted>>

Cancel(c) ==
  /\ pc[c] \in {"sending", "backoff"} /\ "cancelled" \in Outcomes
  /\ pc' = [pc EXCEPT ![c] = "cancelled"]
  /\ UNCHANGED <<circuit, sinceTrip, attempt, streak, admitted>>

(* Mutation: the loop variable stands still. *)
SameAttempt(c) == attempt[c]

NextAttempt(c) == attempt[c] + 1

(* sleep() is over: the next attempt. *)
Retry(c) ==
  /\ pc[c] = "backoff"
  /\ TryAttempt(c, NextAttempt(c))

(* Somebody reads the state property, which synchronises first. *)
ReadState ==
  /\ circuit' = Sync(circuit)
  /\ circuit' # circuit
  /\ admitted' = 0
  /\ UNCHANGED <<sinceTrip, pc, attempt, streak>>

Tick ==
  /\ sinceTrip < ResetTime
  /\ sinceTrip' = sinceTrip + 1
  /\ UNCHANGED <<circuit, pc, attempt, streak, admitted>>

-----------------------------------------------------------------------------
Init ==
  /\ circuit = [state |-> "closed", failures |-> 0, slot |-> "free"]
  /\ sinceTrip = ResetTime
  /\ pc = [c \in Call |-> "idle"]
  /\ attempt = [c \in Call |-> 0]
  /\ streak = 0
  /\ admitted = 0

Answered(c) == Succeed(c) \/ FailRetryable(c) \/ FailFatal(c) \/ Cancel(c)

Next ==
  \/ \E c \in Call : Begin(c) \/ Retry(c) \/ Answered(c)
  \/ ReadState
  \/ Tick

Spec == Init /\ [][Next]_vars

(* fn() ends, if only by the HTTP client's timeout; sleep() ends; time     *)
(* passes.  No call is ever forced to begin.                               *)
Fairness ==
  /\ \A c \in Call : WF_vars(Retry(c)) /\ WF_vars(Answered(c))
  /\ WF_vars(Tick)

FairSpec == Spec /\ Fairness

-----------------------------------------------------------------------------
(* Properties. *)

TypeOK ==
  /\ circuit \in Breaker
  /\ sinceTrip \in 0..ResetTime
  /\ pc \in [Call -> {"idle", "sending", "backoff"} \cup Ended]
  /\ attempt \in [Call -> 0..MaxRetries]
  /\ streak \in 0..FailureThreshold
  /\ admitted \in Nat

(* "A recorded success always resets the consecutive-failure count, so     *)
(* only an unbroken run of failures can trip the circuit" (retry.py:41-42):*)
(* however the calls interleave, the circuit is closed exactly while the   *)
(* run of failures since the last success is shorter than the threshold,   *)
(* and a closed circuit's count is that run.                               *)
TripsOnUnbrokenRun ==
  /\ circuit.state = "closed" <=> streak < FailureThreshold
  /\ circuit.state = "closed" => circuit.failures = streak

(* Each half-open episode lets at most one call through, and the slot is   *)
(* taken exactly when it did: no order of allow, state reads and straggler *)
(* records hands the slot out twice (retry.py:36-38).                      *)
OneProbePerEpisode ==
  circuit.state = "half_open" => admitted = IF circuit.slot = "taken" THEN 1 ELSE 0

(* Every call ends: the retries are bounded whatever the other calls do to *)
(* the breaker meanwhile ("at most 1 + max_retries attempts",              *)
(* retry.py:146).                                                          *)
CallsEnd == \A c \in Call : pc[c] \in {"sending", "backoff"} ~> pc[c] \in Ended

(* The probe slot does not stay taken: half-open rejects other calls only  *)
(* "until the probe records" (retry.py:37-38).                             *)
ProbeSlotReturned ==
  circuit.state = "half_open" /\ circuit.slot = "taken" ~>
    ~(circuit.state = "half_open" /\ circuit.slot = "taken")

(* A call that sleeps has a retry left. *)
BackoffHasRetries == \A c \in Call : pc[c] = "backoff" => attempt[c] < MaxRetries

IndInv == TypeOK /\ BackoffHasRetries /\ TripsOnUnbrokenRun /\ OneProbePerEpisode
==============================================================================
