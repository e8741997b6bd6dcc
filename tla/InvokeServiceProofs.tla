------------------------- MODULE InvokeServiceProofs -------------------------
(***************************************************************************)
(* Proofs about InvokeService, for any number of concurrent invocations,   *)
(* keyed or not, any number of retries and any combination of faults.      *)
(***************************************************************************)
EXTENDS InvokeService, TLAPS

-----------------------------------------------------------------------------
(* What the invariants rest on, one named part per idea. *)

(* An invocation on its way to settle, audit or reply has an outcome. *)
OutcomeKnown ==
  \A i \in Invocation :
    pc[i] \in {"settle", "audit", "close", "replied"} => loc[i].out \in Statuses

(* Nobody sleeps before an attempt that is not there to be made. *)
RetryLeft ==
  \A i \in Invocation : pc[i] = "backoff" => loc[i].attempt < MaxRetries

Typed == TypeOK /\ OutcomeKnown /\ RetryLeft

(* The attempts made with the credential that a refresh has replaced. *)
Earlier(i) == IF loc[i].refreshed THEN 1 + MaxRetries ELSE 0

(* What has been sent at each await: nothing before the first re-check, at *)
(* most one full round before the only refresh that follows a send, and at *)
(* most one round more after it.                                           *)
SendsAt(i) ==
  /\ pc[i] \in {"start", "fast", "load", "rate", "get", "reserve", "account", "decrypt"} =>
       sends[i] = 0 /\ ~loc[i].refreshed
  /\ pc[i] = "refresh" => sends[i] <= 1 + MaxRetries /\ ~loc[i].refreshed
  /\ pc[i] \in {"recheck", "recheckDB"} => sends[i] <= Earlier(i)
  /\ pc[i] \in {"sending", "backoff"} => sends[i] <= Earlier(i) + loc[i].attempt + 1
  /\ sends[i] <= 2 * (1 + MaxRetries)

SendsCounted == \A i \in Invocation : SendsAt(i)

(* doomed is what its name says. *)
DoomedRevoked == doomed # {} => revoked

(* Only a keyed invocation that got past reserve holds the reservation,    *)
(* knowingly or with the answer lost, and if it knows, it has given it up  *)
(* when it comes to audit.                                                 *)
ReservedAt(i) ==
  /\ loc[i].reserved \/ i \in orphaned => i \in Keyed
  /\ Mine(i) => loc[i].reserved \/ i \in orphaned
  /\ pc[i] \in {"start", "fast", "load", "rate", "get", "reserve"} => ~loc[i].reserved
  /\ pc[i] \in {"get", "reserve"} => i \in Keyed
  /\ pc[i] \in {"audit", "close", "replied"} /\ i \notin unsettled \cup orphaned => ~Mine(i)

ReservationHeld == \A i \in Invocation : ReservedAt(i)

(* A provider success belongs to the invocation, or to one with its key.   *)
Carried(i) == i \in delivered \/ (i \in Keyed /\ delivered \cap Keyed # {})

(* An invocation that got a result is past its provider call and counts as *)
(* a success, unless settling it failed; a success, or a cached result,    *)
(* stands for a provider's result.                                         *)
EarnedAt(i) ==
  /\ i \in delivered =>
       /\ pc[i] \in {"settle", "audit", "close", "replied", "raised", "cut"}
       /\ i \notin unsettled => loc[i].out = "success"
  /\ loc[i].out = "success" => Carried(i)

CacheEarned == idem # None /\ idem.kind = "result" => delivered \cap Keyed # {}

SuccessEarned == CacheEarned /\ \A i \in Invocation : EarnedAt(i)

-----------------------------------------------------------------------------
(* How the helpers of the actions move an invocation. *)

PcValue == {"start"} \cup Waiting \cup Ended

LEMMA GotoMoves ==
  ASSUME TypeOK, NEW i \in Invocation, NEW next \in PcValue, Goto(i, next)
  PROVE  /\ pc' \in [Invocation -> PcValue] /\ pc'[i] = next
         /\ \A j \in Invocation \ {i} : pc'[j] = pc[j]
BY DEF TypeOK, Goto, PcValue

(* Finish sets the outcome, leaves the other locals, and moves on.         *)
LEMMA FinishMoves ==
  ASSUME TypeOK, NEW i \in Invocation, NEW s \in Statuses, Finish(i, s)
  PROVE  /\ pc' \in [Invocation -> PcValue] /\ loc' \in [Invocation -> Locals]
         /\ pc'[i] = IF loc[i].reserved THEN "settle" ELSE "audit"
         /\ loc'[i].out = s
         /\ loc'[i].fast = loc[i].fast /\ loc'[i].refreshed = loc[i].refreshed
         /\ loc'[i].reserved = loc[i].reserved /\ loc'[i].attempt = loc[i].attempt
         /\ \A j \in Invocation \ {i} : pc'[j] = pc[j] /\ loc'[j] = loc[j]
<1>1. AfterOutcome(i) \in PcValue
  BY DEF AfterOutcome, PcValue, Waiting
<1>2. Goto(i, AfterOutcome(i))
  BY DEF Finish
<1>3. /\ pc' \in [Invocation -> PcValue] /\ pc'[i] = AfterOutcome(i)
      /\ \A j \in Invocation \ {i} : pc'[j] = pc[j]
  BY <1>1, <1>2, GotoMoves
<1>4. loc[i] \in Locals
  BY DEF TypeOK
<1>5. [loc[i] EXCEPT !.out = s] \in Locals
  BY <1>4 DEF Locals
<1>6. loc' = [loc EXCEPT ![i] = [loc[i] EXCEPT !.out = s]]
  BY DEF Finish
<1>7. loc' \in [Invocation -> Locals] /\ loc'[i] = [loc[i] EXCEPT !.out = s]
      /\ \A j \in Invocation \ {i} : loc'[j] = loc[j]
  BY <1>5, <1>6 DEF TypeOK
<1> QED
  BY <1>3, <1>4, <1>7 DEF AfterOutcome, Locals

(* An attempt is sent, or refused with an outcome. *)
LEMMA SendMoves ==
  ASSUME TypeOK, NEW i \in Invocation, NEW n \in 0..MaxRetries, Send(i, n)
  PROVE  \/ /\ pc' \in [Invocation -> PcValue] /\ loc' \in [Invocation -> Locals]
            /\ sends' \in [Invocation -> Nat]
            /\ pc'[i] = "sending" /\ sends'[i] = sends[i] + 1
            /\ loc'[i].attempt = n /\ loc'[i].out = loc[i].out
            /\ loc'[i].fast = loc[i].fast /\ loc'[i].refreshed = loc[i].refreshed
            /\ loc'[i].reserved = loc[i].reserved
            /\ \A j \in Invocation \ {i} :
                 pc'[j] = pc[j] /\ loc'[j] = loc[j] /\ sends'[j] = sends[j]
         \/ Finish(i, "failed") /\ sends' = sends
<1>1. CASE Finish(i, "failed") /\ UNCHANGED sends
  BY <1>1
<1>2. CASE /\ loc' = [loc EXCEPT ![i].attempt = n] /\ Goto(i, "sending")
           /\ sends' = [sends EXCEPT ![i] = @ + 1]
  <2>1. "sending" \in PcValue
    BY DEF PcValue, Waiting
  <2>2. /\ pc' \in [Invocation -> PcValue] /\ pc'[i] = "sending"
        /\ \A j \in Invocation \ {i} : pc'[j] = pc[j]
    BY <1>2, <2>1, GotoMoves
  <2>3. loc[i] \in Locals
    BY DEF TypeOK
  <2>4. [loc[i] EXCEPT !.attempt = n] \in Locals
    BY <2>3 DEF Locals
  <2>5. loc' = [loc EXCEPT ![i] = [loc[i] EXCEPT !.attempt = n]]
    BY <1>2
  <2>6. loc' \in [Invocation -> Locals] /\ loc'[i] = [loc[i] EXCEPT !.attempt = n]
        /\ \A j \in Invocation \ {i} : loc'[j] = loc[j]
    BY <2>4, <2>5 DEF TypeOK
  <2>7. sends' \in [Invocation -> Nat] /\ sends'[i] = sends[i] + 1
        /\ \A j \in Invocation \ {i} : sends'[j] = sends[j]
    BY <1>2 DEF TypeOK
  <2> QED
    BY <2>2, <2>3, <2>6, <2>7 DEF Locals
<1> QED
  BY <1>1, <1>2 DEF Send

(* What a step of invocation i leaves alone: everything of the others.     *)
Framed(i) ==
  /\ pc' \in [Invocation -> PcValue] /\ loc' \in [Invocation -> Locals]
  /\ sends' \in [Invocation -> Nat]
  /\ \A j \in Invocation \ {i} :
       pc'[j] = pc[j] /\ loc'[j] = loc[j] /\ sends'[j] = sends[j]

(* An outcome, or one await after another with the same locals.            *)
LEMMA FinishFrames ==
  ASSUME TypeOK, NEW i \in Invocation, NEW s \in Statuses, Finish(i, s), UNCHANGED sends
  PROVE  Framed(i)
BY FinishMoves DEF Framed, TypeOK

LEMMA GotoFrames ==
  ASSUME TypeOK, NEW i \in Invocation, NEW next \in PcValue,
         Goto(i, next), UNCHANGED <<loc, sends>>
  PROVE  Framed(i)
BY GotoMoves DEF Framed, TypeOK

(* Setting one local of i keeps the others' and the type of all.           *)
LEMMA FastMoves ==
  ASSUME TypeOK, NEW i \in Invocation, NEW b \in BOOLEAN,
         loc' = [loc EXCEPT ![i].fast = b]
  PROVE  /\ loc' \in [Invocation -> Locals]
         /\ loc'[i].out = loc[i].out /\ loc'[i].refreshed = loc[i].refreshed
         /\ loc'[i].reserved = loc[i].reserved /\ loc'[i].attempt = loc[i].attempt
         /\ \A j \in Invocation \ {i} : loc'[j] = loc[j]
<1>1. loc[i] \in Locals
  BY DEF TypeOK
<1>2. [loc[i] EXCEPT !.fast = b] \in Locals
  BY <1>1 DEF Locals
<1>3. loc' = [loc EXCEPT ![i] = [loc[i] EXCEPT !.fast = b]]
  OBVIOUS
<1>4. loc' \in [Invocation -> Locals] /\ loc'[i] = [loc[i] EXCEPT !.fast = b]
      /\ \A j \in Invocation \ {i} : loc'[j] = loc[j]
  BY <1>2, <1>3 DEF TypeOK
<1> QED
  BY <1>1, <1>4 DEF Locals

LEMMA RefreshedMoves ==
  ASSUME TypeOK, NEW i \in Invocation, loc' = [loc EXCEPT ![i].refreshed = TRUE]
  PROVE  /\ loc' \in [Invocation -> Locals]
         /\ loc'[i].refreshed /\ loc'[i].out = loc[i].out
         /\ loc'[i].reserved = loc[i].reserved /\ loc'[i].attempt = loc[i].attempt
         /\ \A j \in Invocation \ {i} : loc'[j] = loc[j]
<1>1. loc[i] \in Locals
  BY DEF TypeOK
<1>2. [loc[i] EXCEPT !.refreshed = TRUE] \in Locals
  BY <1>1 DEF Locals
<1>3. loc' = [loc EXCEPT ![i] = [loc[i] EXCEPT !.refreshed = TRUE]]
  OBVIOUS
<1>4. loc' \in [Invocation -> Locals] /\ loc'[i] = [loc[i] EXCEPT !.refreshed = TRUE]
      /\ \A j \in Invocation \ {i} : loc'[j] = loc[j]
  BY <1>2, <1>3 DEF TypeOK
<1> QED
  BY <1>1, <1>4 DEF Locals

LEMMA ReservedMoves ==
  ASSUME TypeOK, NEW i \in Invocation, loc' = [loc EXCEPT ![i].reserved = TRUE]
  PROVE  /\ loc' \in [Invocation -> Locals]
         /\ loc'[i].reserved /\ loc'[i].out = loc[i].out
         /\ loc'[i].refreshed = loc[i].refreshed /\ loc'[i].attempt = loc[i].attempt
         /\ \A j \in Invocation \ {i} : loc'[j] = loc[j]
<1>1. loc[i] \in Locals
  BY DEF TypeOK
<1>2. [loc[i] EXCEPT !.reserved = TRUE] \in Locals
  BY <1>1 DEF Locals
<1>3. loc' = [loc EXCEPT ![i] = [loc[i] EXCEPT !.reserved = TRUE]]
  OBVIOUS
<1>4. loc' \in [Invocation -> Locals] /\ loc'[i] = [loc[i] EXCEPT !.reserved = TRUE]
      /\ \A j \in Invocation \ {i} : loc'[j] = loc[j]
  BY <1>2, <1>3 DEF TypeOK
<1> QED
  BY <1>1, <1>4 DEF Locals

LEMMA OutMoves ==
  ASSUME TypeOK, NEW i \in Invocation, loc' = [loc EXCEPT ![i].out = "failed"]
  PROVE  /\ loc' \in [Invocation -> Locals]
         /\ loc'[i].out = "failed" /\ loc'[i].reserved = loc[i].reserved
         /\ loc'[i].refreshed = loc[i].refreshed /\ loc'[i].attempt = loc[i].attempt
         /\ \A j \in Invocation \ {i} : loc'[j] = loc[j]
<1>1. loc[i] \in Locals
  BY DEF TypeOK
<1>2. [loc[i] EXCEPT !.out = "failed"] \in Locals
  BY <1>1 DEF Locals, Statuses
<1>3. loc' = [loc EXCEPT ![i] = [loc[i] EXCEPT !.out = "failed"]]
  OBVIOUS
<1>4. loc' \in [Invocation -> Locals] /\ loc'[i] = [loc[i] EXCEPT !.out = "failed"]
      /\ \A j \in Invocation \ {i} : loc'[j] = loc[j]
  BY <1>2, <1>3 DEF TypeOK
<1> QED
  BY <1>1, <1>4 DEF Locals

-----------------------------------------------------------------------------
(* TypeOK, with what an outcome and a retry need. *)

(* The part of the invariant that one invocation's own state decides.      *)
TypedAt(i) ==
  /\ pc[i] \in {"settle", "audit", "close", "replied"} => loc[i].out \in Statuses
  /\ pc[i] = "backoff" => loc[i].attempt < MaxRetries

LEMMA TypedOwn ==
  ASSUME Typed, NEW i \in Invocation, Verify(i) \/ Step(i) \/ Cancel(i)
  PROVE  Framed(i) /\ TypedAt(i)'
<1> SUFFICES Framed(i) /\ TypedAt(i)'
  OBVIOUS
<1> USE DEF Typed, OutcomeKnown, RetryLeft, TypedAt, history
<1>0. /\ TypeOK /\ TypedAt(i) /\ loc[i] \in Locals
      /\ Waiting \subseteq PcValue /\ Ended \subseteq PcValue
      /\ {"success", "failed", "denied"} = Statuses
  BY DEF TypeOK, PcValue, Statuses
<1>a. ASSUME NEW next \in PcValue \ {"settle", "audit", "close", "replied", "backoff"},
             Goto(i, next), UNCHANGED <<loc, sends>>
      PROVE  Framed(i) /\ TypedAt(i)'
  BY <1>0, <1>a, GotoFrames, GotoMoves
<1>b. ASSUME NEW s \in Statuses, Finish(i, s), UNCHANGED sends
      PROVE  Framed(i) /\ TypedAt(i)'
  BY <1>0, <1>b, FinishFrames, FinishMoves
<1>c. /\ {"fast", "load", "rate", "get", "reserve", "account", "refresh", "decrypt",
           "recheck", "recheckDB", "sending", "refused", "raised", "cut"}
           \subseteq PcValue \ {"settle", "audit", "close", "replied", "backoff"}
      /\ {"audit", "close", "replied", "backoff"} \subseteq PcValue
  BY DEF PcValue, Waiting, Ended
<1>d. ASSUME NEW next \in PcValue \ {"close", "replied", "backoff"},
             Goto(i, next), UNCHANGED sends,
             loc' \in [Invocation -> Locals],
             \A j \in Invocation \ {i} : loc'[j] = loc[j],
             next \in {"settle", "audit"} => loc'[i].out \in Statuses
      PROVE  Framed(i) /\ TypedAt(i)'
  <2>1. /\ pc' \in [Invocation -> PcValue] /\ pc'[i] = next
        /\ \A j \in Invocation \ {i} : pc'[j] = pc[j]
    BY <1>0, <1>d, GotoMoves
  <2>2. Framed(i)
    BY <1>0, <1>d, <2>1 DEF Framed, TypeOK
  <2> QED
    BY <1>d, <2>1, <2>2
<1>1. CASE Verify(i)
  BY <1>1, <1>a, <1>c DEF Verify
<1>2. CASE FastCheck(i)
  <2>1. CASE loc' = [loc EXCEPT ![i].fast = marker] /\ Goto(i, "load")
    <3>1. marker \in BOOLEAN
      BY <1>0 DEF TypeOK
    <3>2. sends' = sends
      BY <1>2 DEF FastCheck
    <3> QED
      BY <2>1, <3>1, <3>2, <1>0, <1>c, <1>d, FastMoves
  <2>2. CASE Goto(i, "raised") /\ UNCHANGED loc
    BY <1>2, <2>2, <1>a, <1>c DEF FastCheck
  <2> QED
    BY <1>2, <2>1, <2>2 DEF FastCheck
<1>3. CASE LoadGrant(i)
  BY <1>3, <1>0, <1>a, <1>b, <1>c DEF LoadGrant
<1>4. CASE RateCheck(i)
  BY <1>4, <1>0, <1>a, <1>b, <1>c DEF RateCheck
<1>5. CASE IdemGet(i)
  BY <1>5, <1>0, <1>a, <1>b, <1>c DEF IdemGet
<1>6. CASE IdemReserve(i)
  <2>1. CASE loc' = [loc EXCEPT ![i].reserved = TRUE] /\ Goto(i, "account")
    <3>1. sends' = sends
      BY <1>6 DEF IdemReserve
    <3> QED
      BY <2>1, <3>1, <1>0, <1>c, <1>d, ReservedMoves
  <2> QED
    BY <1>6, <2>1, <1>0, <1>a, <1>b, <1>c DEF IdemReserve
<1>7. CASE LoadAccount(i)
  BY <1>7, <1>0, <1>a, <1>b, <1>c DEF LoadAccount
<1>8. CASE Refresh(i)
  <2>1. CASE loc' = [loc EXCEPT ![i].refreshed = TRUE] /\ Goto(i, "recheck")
    <3>1. sends' = sends
      BY <1>8 DEF Refresh
    <3> QED
      BY <2>1, <3>1, <1>0, <1>c, <1>d, RefreshedMoves
  <2> QED
    BY <1>8, <2>1, <1>0, <1>a, <1>b, <1>c DEF Refresh, Ready
<1>9. CASE Decrypt(i)
  BY <1>9, <1>0, <1>a, <1>b, <1>c DEF Decrypt, Ready
<1>10. CASE RecheckCache(i)
  BY <1>10, <1>0, <1>a, <1>b, <1>c DEF RecheckCache
<1>11. ASSUME NEW n \in 0..MaxRetries, Send(i, n) PROVE Framed(i) /\ TypedAt(i)'
  BY <1>11, <1>0, <1>b, SendMoves DEF Framed
<1>12. CASE RecheckDB(i)
  <2>1. 0 \in 0..MaxRetries
    BY ConstantsAssumption
  <2> QED
    BY <1>12, <2>1, <1>0, <1>b, <1>11 DEF RecheckDB
<1>13. CASE Answer(i)
  <2>1. CASE ~OutOfRetries(i) /\ Goto(i, "backoff") /\ UNCHANGED loc
    <3>1. loc[i].attempt < MaxRetries
      BY <2>1, <1>0, ConstantsAssumption DEF OutOfRetries, Locals
    <3> QED
      BY <1>13, <2>1, <3>1, <1>0, <1>c, GotoFrames, GotoMoves DEF Answer
  <2> QED
    BY <1>13, <2>1, <1>0, <1>a, <1>b, <1>c DEF Answer
<1>14. CASE Wake(i)
  <2>1. loc[i].attempt + 1 \in 0..MaxRetries
    BY <1>14, <1>0, ConstantsAssumption DEF Wake, Locals
  <2> QED
    BY <1>14, <2>1, <1>11 DEF Wake
<1>15. CASE Settle(i)
  <2>1. CASE loc' = [loc EXCEPT ![i].out = "failed"]
    <3>1. Goto(i, "audit") /\ sends' = sends
      BY <1>15 DEF Settle
    <3>2. /\ loc'[i].out = "failed" /\ loc' \in [Invocation -> Locals]
          /\ \A j \in Invocation \ {i} : loc'[j] = loc[j]
      BY <2>1, <1>0, OutMoves
    <3>3. "audit" \in PcValue \ {"close", "replied", "backoff"} /\ loc'[i].out \in Statuses
      BY <1>0, <1>c, <3>2
    <3> QED
      BY <3>1, <3>2, <3>3, <1>d
  <2>2. CASE UNCHANGED loc
    BY <1>15, <2>2, <1>0, <1>c, GotoFrames, GotoMoves DEF Settle
  <2> QED
    BY <1>15, <2>1, <2>2 DEF Settle
<1>16. CASE RecordCall(i)
  BY <1>16, <1>0, <1>c, GotoFrames, GotoMoves DEF RecordCall
<1>17. CASE Reply(i)
  BY <1>17, <1>0, <1>c, GotoFrames, GotoMoves DEF Reply
<1>18. CASE Cancel(i)
  BY <1>18, <1>a, <1>c DEF Cancel
<1> QED
  BY <1>1, <1>2, <1>3, <1>4, <1>5, <1>6, <1>7, <1>8, <1>9, <1>10, <1>12, <1>13, <1>14,
     <1>15, <1>16, <1>17, <1>18 DEF Step

IdemValue == [kind: {"pending", "result"}, by: Invocation] \cup {None}

(* The steps of an invocation and the rest of the state. *)
LEMMA TypedShared ==
  ASSUME Typed, NEW i \in Invocation, Verify(i) \/ Step(i) \/ Cancel(i)
  PROVE  /\ UNCHANGED grantVars
         /\ account' \in [expiry: {"later", "margin", "past"}, refreshable: BOOLEAN]
         /\ idem' \in IdemValue
         /\ audit' \in [Invocation -> Seq(Statuses)]
         /\ delivered' \subseteq Invocation /\ doomed' \subseteq Invocation
         /\ unsettled' \subseteq Invocation /\ orphaned' \subseteq Invocation
<1> DEFINE Goal ==
      /\ UNCHANGED grantVars
      /\ account' \in [expiry: {"later", "margin", "past"}, refreshable: BOOLEAN]
      /\ idem' \in IdemValue
      /\ audit' \in [Invocation -> Seq(Statuses)]
      /\ delivered' \subseteq Invocation /\ doomed' \subseteq Invocation
      /\ unsettled' \subseteq Invocation /\ orphaned' \subseteq Invocation
<1> SUFFICES Goal
  OBVIOUS
<1> USE DEF history
<1>0. /\ account \in [expiry: {"later", "margin", "past"}, refreshable: BOOLEAN]
      /\ idem \in IdemValue
      /\ audit \in [Invocation -> Seq(Statuses)]
      /\ delivered \subseteq Invocation /\ doomed \subseteq Invocation
      /\ unsettled \subseteq Invocation /\ orphaned \subseteq Invocation
  BY DEF Typed, TypeOK, IdemValue
<1>1. CASE UNCHANGED <<grantVars, account, idem, audit, delivered, doomed, unsettled, orphaned>>
  BY <1>0, <1>1
<1>a. [kind |-> "pending", by |-> i] \in IdemValue
  BY DEF IdemValue
<1>b. Refreshed \in [expiry: {"later", "margin", "past"}, refreshable: BOOLEAN]
  BY <1>0 DEF Refreshed
<1>c. Settled(i) \in IdemValue
  <2>1. [kind |-> "result", by |-> i] \in IdemValue /\ None \in IdemValue
    BY DEF IdemValue
  <2> QED
    BY <1>0, <2>1 DEF Settled
<1>2. CASE IdemReserve(i)
  BY <1>0, <1>2, <1>a DEF IdemReserve, SetPending, Orphan
<1>3. CASE Refresh(i)
  BY <1>0, <1>3, <1>b DEF Refresh, Ready
<1>4. CASE Decrypt(i)
  BY <1>0, <1>4 DEF Decrypt, Ready
<1>5. CASE Answer(i)
  BY <1>0, <1>5 DEF Answer
<1>6. CASE Settle(i)
  BY <1>0, <1>6, <1>c DEF Settle
<1>7. CASE RecordCall(i)
  <2>1. loc[i].out \in Statuses
    BY <1>7 DEF Typed, OutcomeKnown, RecordCall
  <2>2. Append(audit[i], loc[i].out) \in Seq(Statuses)
    BY <1>0, <2>1
  <2> QED
    BY <1>0, <1>7, <2>2 DEF RecordCall
<1>8. CASE Verify(i) \/ FastCheck(i) \/ LoadGrant(i) \/ RateCheck(i) \/ IdemGet(i) \/ Reply(i)
  BY <1>1, <1>8 DEF Verify, FastCheck, LoadGrant, RateCheck, IdemGet, Reply
<1>9. CASE LoadAccount(i) \/ RecheckCache(i) \/ RecheckDB(i) \/ Wake(i)
  BY <1>1, <1>9 DEF LoadAccount, RecheckCache, RecheckDB, Wake
<1>10. CASE Cancel(i)
  BY <1>0, <1>10, <1>a, <1>b, <1>c DEF Cancel, SetPending, Orphan
<1> QED
  BY <1>2, <1>3, <1>4, <1>5, <1>6, <1>7, <1>8, <1>9, <1>10 DEF Step

(* The grant, the credential and the key change without the invocations.   *)
Environment == Revoke \/ Mark \/ LoseMarker \/ Expire \/ AgeCredential \/ ExpireKey

LEMMA EnvironmentFrames ==
  ASSUME TypeOK, Environment
  PROVE  UNCHANGED <<pc, loc, audit, history>> /\ idem' \in {idem, None}
BY DEF Environment, Revoke, Mark, LoseMarker, Expire, AgeCredential, ExpireKey, history,
       grantVars

LEMMA TypedEnvironment ==
  ASSUME Typed, Environment
  PROVE  TypeOK'
<1>1. UNCHANGED <<pc, loc, audit, history>> /\ idem' \in {idem, None}
  BY EnvironmentFrames DEF Typed
<1>2. revoked' \in BOOLEAN /\ marker' \in BOOLEAN /\ expired' \in BOOLEAN
  BY DEF Environment, Revoke, Mark, LoseMarker, Expire, AgeCredential, ExpireKey,
         grantVars, Typed, TypeOK
<1>3. account' \in [expiry: {"later", "margin", "past"}, refreshable: BOOLEAN]
  <2>0. account \in [expiry: {"later", "margin", "past"}, refreshable: BOOLEAN]
    BY DEF Typed, TypeOK
  <2>1. CASE AgeCredential
    BY <2>0, <2>1 DEF AgeCredential
  <2>2. CASE UNCHANGED account
    BY <2>0, <2>2
  <2> QED
    BY <2>1, <2>2 DEF Environment, Revoke, Mark, LoseMarker, Expire, ExpireKey
<1> QED
  BY <1>1, <1>2, <1>3 DEF Typed, TypeOK, history

LEMMA TypedInitial == Init => Typed
<1> SUFFICES ASSUME Init PROVE Typed
  OBVIOUS
<1>1. [fast |-> FALSE, refreshed |-> FALSE, reserved |-> FALSE, attempt |-> 0, out |-> "none"]
        \in Locals
  BY ConstantsAssumption DEF Locals
<1>2. /\ loc \in [Invocation -> Locals] /\ sends \in [Invocation -> Nat]
      /\ \A i \in Invocation : loc[i].out = "none"
  BY <1>1 DEF Init
<1>3. pc \in [Invocation -> {"start"} \cup Waiting \cup Ended]
      /\ \A i \in Invocation : pc[i] = "start"
  BY DEF Init
<1>4. audit \in [Invocation -> Seq(Statuses)]
  BY DEF Init
<1>5. account \in [expiry: {"later", "margin", "past"}, refreshable: BOOLEAN]
  BY DEF Init
<1>6. TypeOK
  BY <1>2, <1>3, <1>4, <1>5 DEF Init, TypeOK
<1> QED
  BY <1>3, <1>6 DEF Typed, OutcomeKnown, RetryLeft

LEMMA TypedInductive == Typed /\ [Next]_vars => Typed'
<1> SUFFICES ASSUME Typed, [Next]_vars PROVE Typed'
  OBVIOUS
<1>1. ASSUME NEW i \in Invocation, Verify(i) \/ Step(i) \/ Cancel(i) PROVE Typed'
  <2>1. Framed(i) /\ TypedAt(i)'
    BY <1>1, TypedOwn
  <2>2. TypeOK'
    BY <1>1, <2>1, TypedShared DEF Framed, PcValue, IdemValue, Typed, TypeOK, grantVars
  <2>3. \A j \in Invocation : TypedAt(j)'
    BY <2>1 DEF Typed, OutcomeKnown, RetryLeft, TypedAt, Framed
  <2> QED
    BY <2>2, <2>3 DEF Typed, OutcomeKnown, RetryLeft, TypedAt
<1>2. CASE Environment
  <2>1. TypeOK'
    BY <1>2, TypedEnvironment
  <2>2. UNCHANGED <<pc, loc>>
    BY <1>2, EnvironmentFrames DEF Typed
  <2> QED
    BY <2>1, <2>2 DEF Typed, OutcomeKnown, RetryLeft
<1>3. CASE UNCHANGED vars
  BY <1>3 DEF vars, Typed, TypeOK, OutcomeKnown, RetryLeft
<1> QED
  BY <1>1, <1>2, <1>3 DEF Next, Environment

(* The type invariant: every outcome that is audited is one of the three   *)
(* statuses the log knows, and no attempt is numbered beyond max_retries.  *)
THEOREM TypeCorrect == Spec => []TypeOK
<1>1. Typed => TypeOK
  BY DEF Typed
<1> QED
  BY <1>1, TypedInitial, TypedInductive, PTL DEF Spec

-----------------------------------------------------------------------------
(* SendsBounded: the count of attempts, await by await. *)

LEMMA SendsOwn ==
  ASSUME Typed, Typed', SendsCounted, NEW i \in Invocation,
         Verify(i) \/ Step(i) \/ Cancel(i)
  PROVE  SendsAt(i)'
<1> SUFFICES SendsAt(i)'
  OBVIOUS
<1> USE DEF history
<1>0. /\ TypeOK /\ SendsAt(i) /\ MaxRetries \in Nat /\ sends[i] \in Nat
      /\ loc[i].refreshed \in BOOLEAN /\ loc[i].attempt \in 0..MaxRetries
      /\ {"success", "failed", "denied"} = Statuses
      /\ Waiting \cup Ended \subseteq PcValue
  BY ConstantsAssumption DEF Typed, TypeOK, SendsCounted, SendsAt, Locals, Statuses, PcValue
<1>a. ASSUME NEW s \in Statuses, Finish(i, s), UNCHANGED sends
      PROVE  SendsAt(i)'
  <2>1. pc'[i] \in {"settle", "audit"}
    BY <1>0, <1>a, FinishMoves
  <2> QED
    BY <1>0, <1>a, <2>1 DEF SendsAt
<1>b. ASSUME NEW next \in {"settle", "audit", "close", "replied", "refused", "raised", "cut"},
             Goto(i, next), UNCHANGED sends
      PROVE  SendsAt(i)'
  <2>1. pc'[i] = next
    BY <1>0, <1>b, GotoMoves DEF Waiting, Ended
  <2> QED
    BY <1>0, <1>b, <2>1 DEF SendsAt
<1>c. ASSUME NEW next \in {"fast", "load", "rate", "get", "reserve", "account", "decrypt",
                           "refresh", "recheck"},
             Goto(i, next), UNCHANGED <<loc, sends>>, sends[i] = 0, ~loc[i].refreshed
      PROVE  SendsAt(i)'
  <2>1. pc'[i] = next
    BY <1>0, <1>c, GotoMoves DEF Waiting, Ended
  <2> QED
    BY <1>0, <1>c, <2>1 DEF SendsAt, Earlier
<1>d. ASSUME NEW n \in 0..MaxRetries, Send(i, n), sends[i] <= Earlier(i) + n
      PROVE  SendsAt(i)'
  <2>1. CASE Finish(i, "failed") /\ sends' = sends
    BY <1>0, <1>a, <2>1
  <2>2. CASE /\ pc'[i] = "sending" /\ sends'[i] = sends[i] + 1
             /\ loc'[i].attempt = n /\ loc'[i].refreshed = loc[i].refreshed
    BY <1>0, <1>d, <2>2 DEF SendsAt, Earlier
  <2> QED
    BY <1>0, <1>d, <2>1, <2>2, SendMoves
<1>1. CASE Verify(i)
  BY <1>0, <1>1, <1>b, <1>c DEF Verify, SendsAt
<1>2. CASE FastCheck(i)
  <2>1. CASE loc' = [loc EXCEPT ![i].fast = marker] /\ Goto(i, "load")
    <3>1. pc'[i] = "load" /\ loc'[i].refreshed = loc[i].refreshed
      BY <1>0, <2>1, GotoMoves, FastMoves DEF Waiting, TypeOK
    <3> QED
      BY <1>0, <1>2, <3>1 DEF FastCheck, SendsAt
  <2> QED
    BY <1>2, <2>1, <1>b DEF FastCheck
<1>3. CASE LoadGrant(i)
  BY <1>0, <1>3, <1>a, <1>b, <1>c DEF LoadGrant, SendsAt
<1>4. CASE RateCheck(i)
  BY <1>0, <1>4, <1>a, <1>c DEF RateCheck, SendsAt
<1>5. CASE IdemGet(i)
  BY <1>0, <1>5, <1>a, <1>c DEF IdemGet, SendsAt
<1>6. CASE IdemReserve(i)
  <2>1. CASE loc' = [loc EXCEPT ![i].reserved = TRUE] /\ Goto(i, "account")
    <3>1. pc'[i] = "account" /\ loc'[i].refreshed = loc[i].refreshed
      BY <1>0, <2>1, GotoMoves, ReservedMoves DEF Waiting
    <3> QED
      BY <1>0, <1>6, <3>1 DEF IdemReserve, SendsAt
  <2> QED
    BY <1>0, <1>6, <2>1, <1>a DEF IdemReserve
<1>7. CASE LoadAccount(i)
  BY <1>0, <1>7, <1>a, <1>c DEF LoadAccount, SendsAt
<1>8. CASE Refresh(i)
  <2>1. CASE loc' = [loc EXCEPT ![i].refreshed = TRUE] /\ Goto(i, "recheck")
    <3>1. pc'[i] = "recheck" /\ loc'[i].refreshed
      BY <1>0, <2>1, GotoMoves, RefreshedMoves DEF Waiting
    <3> QED
      BY <1>0, <1>8, <3>1 DEF Refresh, SendsAt, Earlier
  <2> QED
    BY <1>0, <1>8, <2>1, <1>a DEF Refresh, Ready
<1>9. CASE Decrypt(i)
  BY <1>0, <1>9, <1>a, <1>c DEF Decrypt, Ready, SendsAt
<1>10. CASE RecheckCache(i)
  <2>1. CASE Goto(i, "recheckDB") /\ UNCHANGED loc
    <3>1. pc'[i] = "recheckDB"
      BY <1>0, <2>1, GotoMoves DEF Waiting
    <3> QED
      BY <1>0, <1>10, <2>1, <3>1 DEF RecheckCache, SendsAt, Earlier
  <2> QED
    BY <1>0, <1>10, <2>1, <1>a DEF RecheckCache
<1>11. CASE RecheckDB(i)
  <2>1. 0 \in 0..MaxRetries /\ sends[i] <= Earlier(i) + 0
    BY <1>0, <1>11 DEF RecheckDB, SendsAt, Earlier
  <2> QED
    BY <1>0, <1>11, <2>1, <1>a, <1>d DEF RecheckDB
<1>12. CASE Answer(i)
  <2>1. CASE Goto(i, "backoff") /\ UNCHANGED loc
    <3>1. pc'[i] = "backoff"
      BY <1>0, <2>1, GotoMoves DEF Waiting
    <3> QED
      BY <1>0, <1>12, <2>1, <3>1 DEF Answer, SendsAt, Earlier
  <2>2. CASE MayRefresh(i) /\ Goto(i, "refresh") /\ UNCHANGED loc
    <3>1. pc'[i] = "refresh"
      BY <1>0, <2>2, GotoMoves DEF Waiting
    <3> QED
      BY <1>0, <1>12, <2>2, <3>1 DEF Answer, SendsAt, Earlier, MayRefresh
  <2> QED
    BY <1>0, <1>12, <2>1, <2>2, <1>a DEF Answer
<1>13. CASE Wake(i)
  <2>1. loc[i].attempt + 1 \in 0..MaxRetries
    BY <1>0, <1>13 DEF Wake, Typed, RetryLeft
  <2>2. sends[i] <= Earlier(i) + (loc[i].attempt + 1)
    BY <1>0, <1>13 DEF Wake, SendsAt, Earlier
  <2> QED
    BY <1>13, <2>1, <2>2, <1>d DEF Wake
<1>14. CASE Settle(i)
  BY <1>14, <1>b DEF Settle
<1>15. CASE RecordCall(i) \/ Reply(i)
  BY <1>15, <1>b DEF RecordCall, Reply
<1>16. CASE Cancel(i)
  BY <1>16, <1>b DEF Cancel
<1> QED
  BY <1>1, <1>2, <1>3, <1>4, <1>5, <1>6, <1>7, <1>8, <1>9, <1>10, <1>11, <1>12, <1>13,
     <1>14, <1>15, <1>16 DEF Step

LEMMA SendsInductive == Typed /\ Typed' /\ SendsCounted /\ [Next]_vars => SendsCounted'
<1> SUFFICES ASSUME Typed, Typed', SendsCounted, [Next]_vars PROVE SendsCounted'
  OBVIOUS
<1>1. ASSUME NEW i \in Invocation, Verify(i) \/ Step(i) \/ Cancel(i) PROVE SendsCounted'
  <2>1. SendsAt(i)'
    BY <1>1, SendsOwn
  <2>2. Framed(i)
    BY <1>1, TypedOwn
  <2>3. \A j \in Invocation : SendsAt(j)'
    BY <2>1, <2>2 DEF SendsCounted, SendsAt, Framed, Earlier
  <2> QED
    BY <2>3 DEF SendsCounted
<1>2. CASE Environment
  BY <1>2, EnvironmentFrames DEF Typed, SendsCounted, SendsAt, Earlier, history
<1>3. CASE UNCHANGED vars
  BY <1>3 DEF vars, SendsCounted, SendsAt, Earlier
<1> QED
  BY <1>1, <1>2, <1>3 DEF Next, Environment

(* However often the provider times out or answers 401, and whatever is    *)
(* revoked, lost or cancelled meanwhile, the recovery loop around the      *)
(* retries sends a credential at most twice 1 + max_retries times.         *)
THEOREM SendsAreBounded == Spec => []SendsBounded
<1>1. Init => SendsCounted
  <2> SUFFICES ASSUME Init, NEW i \in Invocation PROVE SendsAt(i)
    BY DEF SendsCounted
  <2>1. pc[i] = "start" /\ sends[i] = 0 /\ loc[i].refreshed = FALSE
    BY DEF Init
  <2> QED
    BY <2>1, ConstantsAssumption DEF SendsAt
<1>2. SendsCounted => SendsBounded
  BY DEF SendsCounted, SendsAt, SendsBounded
<1> QED
  BY <1>1, <1>2, TypedInitial, TypedInductive, SendsInductive, PTL DEF Spec

-----------------------------------------------------------------------------
(* Which steps lead to a send, to a backoff, to a row and to a reply. *)
LEMMA ControlFlow ==
  ASSUME Typed, NEW i \in Invocation, Verify(i) \/ Step(i) \/ Cancel(i)
  PROVE  /\ pc[i] \in {"start"} \cup Waiting
         /\ pc'[i] = "close" => RecordCall(i)
         /\ pc'[i] = "replied" => Reply(i)
         /\ pc'[i] = "sending" => (RecheckDB(i) /\ ~revoked) \/ Wake(i)
         /\ pc'[i] = "backoff" => Answer(i)
<1> DEFINE Goal ==
      /\ pc[i] \in {"start"} \cup Waiting
      /\ pc'[i] = "close" => RecordCall(i)
      /\ pc'[i] = "replied" => Reply(i)
      /\ pc'[i] = "sending" => (RecheckDB(i) /\ ~revoked) \/ Wake(i)
      /\ pc'[i] = "backoff" => Answer(i)
<1> SUFFICES Goal
  OBVIOUS
<1>0. /\ TypeOK /\ {"success", "failed", "denied"} = Statuses
      /\ Waiting \cup Ended \subseteq PcValue
  BY DEF Typed, Statuses, PcValue
<1>1. pc[i] \in {"start"} \cup Waiting
  BY DEF Verify, Step, Cancel, FastCheck, LoadGrant, RateCheck, IdemGet, IdemReserve,
         LoadAccount, Refresh, Decrypt, RecheckCache, RecheckDB, Answer, Wake, Settle,
         RecordCall, Reply, Waiting
<1>a. ASSUME NEW s \in Statuses, Finish(i, s) PROVE Goal
  <2>1. pc'[i] \in {"settle", "audit"}
    BY <1>0, <1>a, FinishMoves
  <2> QED
    BY <1>1, <2>1
<1>b. ASSUME NEW next \in (Waiting \cup Ended) \ {"close", "replied", "sending", "backoff"},
             Goto(i, next)
      PROVE  Goal
  <2>1. pc'[i] = next
    BY <1>0, <1>b, GotoMoves
  <2> QED
    BY <1>1, <1>b, <2>1
<1>c. {"fast", "load", "rate", "get", "reserve", "account", "refresh", "decrypt", "recheck",
       "recheckDB", "settle", "audit", "refused", "raised", "cut"}
        \subseteq (Waiting \cup Ended) \ {"close", "replied", "sending", "backoff"}
  BY DEF Waiting, Ended
<1> HIDE DEF Goal
<1>2. CASE Verify(i) \/ FastCheck(i) \/ Cancel(i)
  BY <1>2, <1>b, <1>c DEF Verify, FastCheck, Cancel
<1>3. CASE LoadGrant(i) \/ RateCheck(i)
  BY <1>0, <1>3, <1>a, <1>b, <1>c DEF LoadGrant, RateCheck
<1>4. CASE IdemGet(i) \/ IdemReserve(i)
  BY <1>0, <1>4, <1>a, <1>b, <1>c DEF IdemGet, IdemReserve
<1>5. CASE LoadAccount(i)
  BY <1>0, <1>5, <1>a, <1>b, <1>c DEF LoadAccount
<1>6. CASE Refresh(i) \/ Decrypt(i)
  BY <1>0, <1>6, <1>a, <1>b, <1>c DEF Refresh, Decrypt, Ready
<1>7. CASE RecheckCache(i)
  BY <1>0, <1>7, <1>a, <1>b, <1>c DEF RecheckCache
<1>8. CASE RecheckDB(i)
  <2>1. CASE ~LiveRow(i) /\ Goto(i, "sending")
    <3>1. pc'[i] = "sending"
      BY <1>0, <2>1, GotoMoves DEF Waiting
    <3> QED
      BY <1>1, <1>8, <2>1, <3>1 DEF Goal, LiveRow
  <2> QED
    BY <1>0, <1>8, <2>1, <1>a DEF RecheckDB, Send
<1>9. CASE Answer(i)
  <2>1. CASE Goto(i, "backoff")
    <3>1. pc'[i] = "backoff"
      BY <1>0, <2>1, GotoMoves DEF Waiting
    <3> QED
      BY <1>1, <1>9, <3>1 DEF Goal
  <2> QED
    BY <1>0, <1>9, <2>1, <1>a, <1>b, <1>c DEF Answer
<1>10. CASE Wake(i)
  <2>1. CASE Goto(i, "sending")
    <3>1. pc'[i] = "sending"
      BY <1>0, <2>1, GotoMoves DEF Waiting
    <3> QED
      BY <1>1, <1>10, <3>1 DEF Goal
  <2> QED
    BY <1>0, <1>10, <2>1, <1>a DEF Wake, Send
<1>11. CASE Settle(i)
  BY <1>11, <1>b, <1>c DEF Settle
<1>13. CASE RecordCall(i)
  <2>1. CASE Goto(i, "close")
    <3>1. pc'[i] = "close"
      BY <1>0, <2>1, GotoMoves DEF Waiting
    <3> QED
      BY <1>1, <1>13, <3>1 DEF Goal
  <2> QED
    BY <1>13, <2>1, <1>b, <1>c DEF RecordCall
<1>12. CASE Reply(i)
  <2>1. CASE Goto(i, "replied")
    <3>1. pc'[i] = "replied"
      BY <1>0, <2>1, GotoMoves DEF Ended
    <3> QED
      BY <1>1, <1>12, <3>1 DEF Goal
  <2> QED
    BY <1>12, <2>1, <1>b, <1>c DEF Reply
<1> QED
  BY <1>2, <1>3, <1>4, <1>5, <1>6, <1>7, <1>8, <1>9, <1>10, <1>11, <1>12, <1>13 DEF Step

-----------------------------------------------------------------------------
(* Only record_call writes a row, and it writes one when there is none:    *)
(* AuditedOnce is inductive as it stands, once types are known.            *)
LEMMA AuditInductive == Typed /\ AuditedOnce /\ [Next]_vars => AuditedOnce'
<1> SUFFICES ASSUME Typed, AuditedOnce, [Next]_vars PROVE AuditedOnce'
  OBVIOUS
<1> USE DEF AuditedOnce
<1>1. ASSUME NEW i \in Invocation, Verify(i) \/ Step(i) \/ Cancel(i)
      PROVE  AuditedOnce'
  <2>0. Framed(i) /\ audit \in [Invocation -> Seq(Statuses)]
    BY <1>1, TypedOwn DEF Typed, TypeOK
  <2>1. pc[i] \notin {"replied", "raised", "cut"}
    BY <1>1, ControlFlow DEF Waiting
  <2>2. pc[i] # "close" => audit[i] = <<>>
    BY <2>1
  <2>3. CASE RecordCall(i)
    <3>1. CASE audit' = [audit EXCEPT ![i] = Append(@, loc[i].out)] /\ Goto(i, "close")
      <4>1. audit'[i] = Append(<<>>, loc[i].out)
            /\ \A j \in Invocation \ {i} : audit'[j] = audit[j]
        BY <2>0, <2>2, <2>3, <3>1 DEF RecordCall
      <4>2. audit'[i] = <<loc[i].out>>
        BY <4>1
      <4>3. pc'[i] = "close" /\ loc' = loc
        BY <2>3, <3>1, GotoMoves DEF RecordCall, PcValue, Waiting, Typed
      <4> QED
        BY <2>0, <4>1, <4>2, <4>3 DEF Framed
    <3>2. CASE Goto(i, "raised") /\ UNCHANGED audit
      <4>1. pc'[i] = "raised" /\ audit[i] = <<>>
        BY <2>2, <2>3, <3>2, GotoMoves DEF RecordCall, PcValue, Ended, Typed
      <4> QED
        BY <2>0, <3>2, <4>1 DEF Framed
    <3> QED
      BY <2>3, <3>1, <3>2 DEF RecordCall
  <2>4. CASE Reply(i) \/ Cancel(i)
    <3>1. pc'[i] \in {"replied", "raised", "cut"} /\ UNCHANGED <<loc, audit>>
      BY <2>4, GotoMoves DEF Reply, Cancel, PcValue, Ended, Typed
    <3>2. Reply(i) => audit[i] = <<loc[i].out>>
      BY DEF Reply
    <3>3. Cancel(i) => pc'[i] = "cut"
      BY GotoMoves DEF Cancel, PcValue, Ended, Typed
    <3> QED
      BY <2>0, <2>4, <3>1, <3>2, <3>3 DEF Framed
  <2>5. CASE ~RecordCall(i) /\ ~Reply(i) /\ ~Cancel(i)
    <3>1. audit' = audit /\ pc[i] # "close"
      BY <1>1, <2>5 DEF Verify, Step, FastCheck, LoadGrant, RateCheck, IdemGet, IdemReserve,
           LoadAccount, Refresh, Decrypt, RecheckCache, RecheckDB, Answer, Wake, Settle
    <3>2. pc'[i] \notin {"close", "replied"}
      BY <1>1, <2>5, ControlFlow
    <3> QED
      BY <2>0, <2>2, <3>1, <3>2 DEF Framed
  <2> QED
    BY <2>3, <2>4, <2>5
<1>2. CASE Environment
  BY <1>2, EnvironmentFrames DEF Typed
<1>3. CASE UNCHANGED vars
  BY <1>3 DEF vars
<1> QED
  BY <1>1, <1>2, <1>3 DEF Next, Environment

(* Whatever fails, races or is cut off, an invocation that is replied to   *)
(* under a resolved grant has exactly one audit row, with the status of    *)
(* the reply; no invocation ever has two, and one with a row and no reply  *)
(* lost it to an error or a cut after the row was committed.               *)
THEOREM ReplyIsAudited == Spec => []AuditedOnce
<1>1. Init => AuditedOnce
  BY DEF Init, AuditedOnce
<1> QED
  BY <1>1, TypedInitial, TypedInductive, AuditInductive, PTL DEF Spec

-----------------------------------------------------------------------------
(* RevokedNeverSent: the last re-check reads the row itself. *)
LEMMA RevokedInductive ==
  Typed /\ DoomedRevoked /\ RevokedNeverSent /\ [Next]_vars => DoomedRevoked' /\ RevokedNeverSent'
<1> SUFFICES ASSUME Typed, DoomedRevoked, RevokedNeverSent, [Next]_vars
             PROVE  DoomedRevoked' /\ RevokedNeverSent'
  OBVIOUS
<1> USE DEF DoomedRevoked, RevokedNeverSent
<1>0. doomed \subseteq Invocation
  BY DEF Typed, TypeOK
<1>1. ASSUME NEW i \in Invocation, Verify(i) \/ Step(i) \/ Cancel(i)
      PROVE  DoomedRevoked' /\ RevokedNeverSent'
  <2>1. Framed(i) /\ revoked' = revoked
    BY <1>1, TypedOwn, TypedShared DEF grantVars
  <2>2. \/ doomed' = doomed
        \/ doomed' = doomed \cup {i} /\ revoked /\ pc'[i] = "recheck"
    <3>1. CASE Refresh(i) \/ Decrypt(i)
      <4>1. CASE Ready(i)
        <5>1. pc'[i] = "recheck"
          BY <4>1, GotoMoves DEF Ready, PcValue, Waiting, Typed
        <5> QED
          BY <4>1, <5>1 DEF Ready
      <4> QED
        BY <3>1, <4>1 DEF Refresh, Decrypt
    <3> QED
      BY <1>1, <3>1 DEF Verify, Step, Cancel, FastCheck, LoadGrant, RateCheck, IdemGet,
         IdemReserve, LoadAccount, RecheckCache, RecheckDB, Answer, Wake, Settle, RecordCall,
         Reply, history
  <2>3. DoomedRevoked'
    BY <2>1, <2>2
  <2>4. ASSUME i \in doomed' PROVE pc'[i] \notin {"sending", "backoff"}
    <3>1. CASE i \notin doomed
      BY <2>2, <2>4, <3>1
    <3>2. CASE i \in doomed
      <4>1. revoked /\ pc[i] \notin {"sending", "backoff"}
        BY <3>2
      <4>2. ~Wake(i) /\ ~Answer(i)
        BY <4>1 DEF Wake, Answer
      <4> QED
        BY <1>1, <4>1, <4>2, ControlFlow
    <3> QED
      BY <3>1, <3>2
  <2>5. \A j \in doomed' \ {i} : j \in doomed /\ pc'[j] = pc[j]
    BY <1>0, <2>1, <2>2 DEF Framed
  <2> QED
    BY <2>3, <2>4, <2>5
<1>2. CASE Environment
  <2>1. UNCHANGED <<pc, doomed>>
    BY <1>2, EnvironmentFrames DEF Typed, history
  <2>2. revoked => revoked'
    BY <1>2 DEF Environment, Revoke, Mark, LoseMarker, Expire, AgeCredential, ExpireKey,
                grantVars
  <2> QED
    BY <2>1, <2>2
<1>3. CASE UNCHANGED vars
  BY <1>3 DEF vars
<1> QED
  BY <1>1, <1>2, <1>3 DEF Next, Environment

(* If the grant was revoked by the time the credential was at hand, before *)
(* the call or after the refresh that follows a 401, the credential is     *)
(* never on its way to the provider again, whatever Redis has forgotten.   *)
THEOREM RevokedIsNeverSent == Spec => []RevokedNeverSent
<1>1. Init => DoomedRevoked /\ RevokedNeverSent
  BY DEF Init, DoomedRevoked, RevokedNeverSent
<1> QED
  BY <1>1, TypedInitial, TypedInductive, RevokedInductive, PTL DEF Spec

-----------------------------------------------------------------------------
(* ReservationSettled: who may hold the key at which await. *)

LEMMA ReservationOwn ==
  ASSUME Typed, ReservationHeld, NEW i \in Invocation, Verify(i) \/ Step(i) \/ Cancel(i)
  PROVE  ReservedAt(i)'
<1> SUFFICES ReservedAt(i)'
  OBVIOUS
<1> USE DEF history
<1>0. /\ TypeOK /\ ReservedAt(i) /\ {"success", "failed", "denied"} = Statuses
      /\ Waiting \cup Ended \subseteq PcValue /\ loc[i].reserved \in BOOLEAN
  BY DEF Typed, TypeOK, ReservationHeld, Statuses, PcValue, Locals
<1>a. ASSUME NEW s \in Statuses, Finish(i, s), UNCHANGED <<idem, unsettled, orphaned>>
      PROVE  ReservedAt(i)'
  <2>1. /\ pc'[i] = IF loc[i].reserved THEN "settle" ELSE "audit"
        /\ loc'[i].reserved = loc[i].reserved
    BY <1>0, <1>a, FinishMoves
  <2> QED
    BY <1>0, <1>a, <2>1 DEF ReservedAt, Mine
<1>b. ASSUME NEW next \in (Waiting \cup Ended) \ {"audit", "close", "replied"},
             Goto(i, next), loc'[i].reserved = loc[i].reserved,
             UNCHANGED <<idem, unsettled, orphaned>>,
             next \in {"fast", "load", "rate", "get", "reserve"} => ~loc[i].reserved,
             next \in {"get", "reserve"} => i \in Keyed
      PROVE  ReservedAt(i)'
  <2>1. pc'[i] = next
    BY <1>0, <1>b, GotoMoves
  <2>2. next # "start"
    BY <1>b DEF Waiting, Ended
  <2> QED
    BY <1>0, <1>b, <2>1, <2>2 DEF ReservedAt, Mine
<1>c. {"fast", "load", "rate", "get", "reserve", "account", "refresh", "decrypt", "recheck",
       "recheckDB", "sending", "backoff", "settle", "refused", "raised", "cut"}
        \subseteq (Waiting \cup Ended) \ {"audit", "close", "replied"}
  BY DEF Waiting, Ended
<1>1. CASE Verify(i)
  BY <1>0, <1>1, <1>b, <1>c DEF Verify, ReservedAt
<1>2. CASE FastCheck(i)
  <2>1. CASE loc' = [loc EXCEPT ![i].fast = marker] /\ Goto(i, "load")
    <3>1. loc'[i].reserved = loc[i].reserved
      BY <1>0, <2>1, FastMoves DEF TypeOK
    <3> QED
      BY <1>0, <1>2, <1>b, <1>c, <2>1, <3>1 DEF FastCheck, ReservedAt
  <2> QED
    BY <1>0, <1>2, <2>1, <1>b, <1>c DEF FastCheck
<1>3. CASE LoadGrant(i)
  BY <1>0, <1>3, <1>a, <1>b, <1>c DEF LoadGrant, ReservedAt
<1>4. CASE RateCheck(i)
  BY <1>0, <1>4, <1>a, <1>b, <1>c DEF RateCheck, ReservedAt
<1>5. CASE IdemGet(i)
  BY <1>0, <1>5, <1>a, <1>b, <1>c DEF IdemGet, ReservedAt
<1>6. CASE IdemReserve(i)
  <2>1. CASE loc' = [loc EXCEPT ![i].reserved = TRUE] /\ Goto(i, "account")
    <3>1. loc'[i].reserved /\ pc'[i] = "account"
      BY <1>0, <2>1, ReservedMoves, GotoMoves DEF Waiting
    <3> QED
      BY <1>0, <1>6, <3>1 DEF IdemReserve, ReservedAt
  <2>2. ASSUME NEW s \in Statuses, Finish(i, s), i \in orphaned'
        PROVE  ReservedAt(i)'
    <3>1. pc'[i] \in {"settle", "audit"} /\ loc'[i].reserved = loc[i].reserved
      BY <1>0, <2>2, FinishMoves
    <3>2. i \in Keyed
      BY <1>0, <1>6 DEF IdemReserve, ReservedAt
    <3> QED
      BY <2>2, <3>1, <3>2 DEF ReservedAt
  <2> QED
    BY <1>0, <1>6, <2>1, <2>2, <1>a DEF IdemReserve, Orphan
<1>7. CASE LoadAccount(i)
  BY <1>0, <1>7, <1>a, <1>b, <1>c DEF LoadAccount
<1>8. CASE Refresh(i)
  <2>1. CASE loc' = [loc EXCEPT ![i].refreshed = TRUE] /\ Goto(i, "recheck")
    <3>1. loc'[i].reserved = loc[i].reserved
      BY <1>0, <2>1, RefreshedMoves
    <3> QED
      BY <1>0, <1>8, <1>b, <1>c, <2>1, <3>1 DEF Refresh
  <2> QED
    BY <1>0, <1>8, <2>1, <1>a DEF Refresh, Ready
<1>9. CASE Decrypt(i)
  BY <1>0, <1>9, <1>a, <1>b, <1>c DEF Decrypt, Ready
<1>10. CASE RecheckCache(i)
  BY <1>0, <1>10, <1>a, <1>b, <1>c DEF RecheckCache
<1>11. ASSUME NEW n \in 0..MaxRetries, Send(i, n), UNCHANGED <<idem, unsettled, orphaned>>
       PROVE  ReservedAt(i)'
  <2>1. CASE Finish(i, "failed")
    BY <1>0, <1>a, <1>11, <2>1
  <2>2. CASE pc'[i] = "sending" /\ loc'[i].reserved = loc[i].reserved
    BY <1>0, <1>11, <2>2 DEF ReservedAt, Mine
  <2> QED
    BY <1>0, <1>11, <2>1, <2>2, SendMoves
<1>12. CASE RecheckDB(i)
  <2>1. 0 \in 0..MaxRetries
    BY ConstantsAssumption
  <2> QED
    BY <1>0, <1>12, <2>1, <1>a, <1>11 DEF RecheckDB
<1>13. CASE Answer(i)
  BY <1>0, <1>13, <1>a, <1>b, <1>c DEF Answer
<1>14. CASE Wake(i)
  <2>1. loc[i].attempt + 1 \in 0..MaxRetries
    BY <1>14, ConstantsAssumption DEF Wake, Typed, TypeOK, RetryLeft, Locals
  <2> QED
    BY <1>14, <2>1, <1>11 DEF Wake
<1>15. CASE Settle(i)
  <2>0. pc'[i] = "audit" /\ orphaned' = orphaned
    BY <1>0, <1>15, GotoMoves DEF Settle, Waiting
  <2>1. CASE idem' = Settled(i) /\ UNCHANGED <<loc, unsettled>>
    <3>1. ~Mine(i)'
      BY <2>1 DEF Settled, Mine
    <3> QED
      BY <1>0, <2>0, <2>1, <3>1 DEF ReservedAt
  <2>2. CASE /\ loc' = [loc EXCEPT ![i].out = "failed"]
             /\ unsettled' = unsettled \cup {i} /\ idem' \in {idem, Settled(i)}
    <3>1. loc'[i].reserved = loc[i].reserved
      BY <1>0, <2>2, OutMoves
    <3>2. Mine(i)' => Mine(i)
      BY <2>2 DEF Settled, Mine
    <3> QED
      BY <1>0, <2>0, <2>2, <3>1, <3>2 DEF ReservedAt
  <2> QED
    BY <1>15, <2>1, <2>2 DEF Settle
<1>16. CASE RecordCall(i) \/ Reply(i)
  <2>1. pc'[i] \in {"close", "replied", "raised"}
    BY <1>0, <1>16, GotoMoves DEF RecordCall, Reply, Waiting, Ended
  <2> QED
    BY <1>0, <1>16, <2>1 DEF RecordCall, Reply, ReservedAt, Mine
<1>17. CASE Cancel(i)
  <2>1. pc'[i] = "cut" /\ loc' = loc
    BY <1>0, <1>17, GotoMoves DEF Cancel, Ended
  <2>2. Mine(i)' => (Mine(i) /\ orphaned' = orphaned) \/ i \in orphaned'
    BY <1>17 DEF Cancel, Orphan, Settled, Mine
  <2>3. i \in orphaned' => i \in Keyed
    BY <1>0, <1>17 DEF Cancel, Orphan, ReservedAt
  <2> QED
    BY <1>0, <2>1, <2>2, <2>3 DEF ReservedAt
<1> QED
  BY <1>1, <1>2, <1>3, <1>4, <1>5, <1>6, <1>7, <1>8, <1>9, <1>10, <1>12, <1>13, <1>14,
     <1>15, <1>16, <1>17 DEF Step

(* Nobody takes a reservation for somebody else, and unsettled and         *)
(* orphaned only grow by the invocation that acts.                         *)
LEMMA OthersKey ==
  ASSUME Typed, NEW i \in Invocation, Verify(i) \/ Step(i) \/ Cancel(i),
         NEW j \in Invocation \ {i}
  PROVE  /\ Mine(j)' => Mine(j)
         /\ j \in unsettled' <=> j \in unsettled
         /\ j \in orphaned' <=> j \in orphaned
<1>1. CASE UNCHANGED <<idem, unsettled, orphaned>>
  BY <1>1 DEF Mine
<1>2. CASE IdemReserve(i)
  BY <1>2 DEF IdemReserve, SetPending, Orphan, Mine
<1>3. CASE Settle(i)
  BY <1>3 DEF Settle, Settled, Mine
<1>4. CASE Cancel(i)
  BY <1>4 DEF Cancel, SetPending, Orphan, Settled, Mine
<1> QED
  BY <1>1, <1>2, <1>3, <1>4 DEF Verify, Step, FastCheck, LoadGrant, RateCheck, IdemGet,
     LoadAccount, Refresh, Decrypt, RecheckCache, RecheckDB, Answer, Wake, RecordCall, Reply,
     history

LEMMA ReservationInductive == Typed /\ ReservationHeld /\ [Next]_vars => ReservationHeld'
<1> SUFFICES ASSUME Typed, ReservationHeld, [Next]_vars PROVE ReservationHeld'
  OBVIOUS
<1>1. ASSUME NEW i \in Invocation, Verify(i) \/ Step(i) \/ Cancel(i) PROVE ReservationHeld'
  <2>1. ReservedAt(i)' /\ Framed(i)
    BY <1>1, ReservationOwn, TypedOwn
  <2>2. \A j \in Invocation \ {i} : ReservedAt(j)'
    BY <1>1, <2>1, OthersKey DEF ReservationHeld, ReservedAt, Framed
  <2> QED
    BY <2>1, <2>2 DEF ReservationHeld
<1>2. CASE Environment
  <2>1. UNCHANGED <<pc, loc, unsettled, orphaned>> /\ idem' \in {idem, None}
    BY <1>2, EnvironmentFrames DEF Typed, history
  <2> QED
    BY <2>1 DEF ReservationHeld, ReservedAt, Mine
<1>3. CASE UNCHANGED vars
  BY <1>3 DEF vars, ReservationHeld, ReservedAt, Mine
<1> QED
  BY <1>1, <1>2, <1>3 DEF Next, Environment

LEMMA ReservationInitial == Init => ReservationHeld
<1> SUFFICES ASSUME Init, NEW i \in Invocation PROVE ReservedAt(i)
  BY DEF ReservationHeld
<1>1. pc[i] = "start" /\ loc[i].reserved = FALSE /\ idem = None /\ orphaned = {}
  BY DEF Init
<1> QED
  BY <1>1 DEF ReservedAt, Mine

(* Whoever replied has left no reservation behind, unless Redis refused to *)
(* settle it or never told that it was made: no outcome, error path or     *)
(* concurrent caller of the key makes the broker forget one that it knows. *)
THEOREM ReservationIsSettled == Spec => []ReservationSettled
<1>1. ReservationHeld => ReservationSettled
  BY DEF ReservationHeld, ReservedAt, ReservationSettled
<1> QED
  BY <1>1, TypedInitial, TypedInductive, ReservationInitial, ReservationInductive, PTL DEF Spec

-----------------------------------------------------------------------------
(* AuditTruthful: where a success comes from, and what may replace it. *)

LEMMA EarnedOwn ==
  ASSUME Typed, ReservationHeld, SuccessEarned, NEW i \in Invocation,
         Verify(i) \/ Step(i) \/ Cancel(i)
  PROVE  EarnedAt(i)' /\ CacheEarned'
<1> DEFINE Goal == EarnedAt(i)' /\ CacheEarned'
<1> SUFFICES Goal
  OBVIOUS
<1> USE DEF history
<1>0. /\ TypeOK /\ EarnedAt(i) /\ CacheEarned /\ ReservedAt(i)
      /\ {"success", "failed", "denied"} = Statuses
      /\ Waiting \cup Ended \subseteq PcValue
  BY DEF Typed, SuccessEarned, ReservationHeld, Statuses, PcValue
<1>a. ASSUME NEW s \in Statuses, Finish(i, s), UNCHANGED <<idem, delivered, unsettled>>,
             i \notin delivered, s = "success" => Carried(i)
      PROVE  Goal
  <2>1. loc'[i].out = s
    BY <1>0, <1>a, FinishMoves
  <2> QED
    BY <1>0, <1>a, <2>1 DEF EarnedAt, CacheEarned, Carried
<1>b. ASSUME NEW next \in (Waiting \cup Ended) \ {"settle", "audit", "close", "replied"},
             Goto(i, next), i \notin delivered, loc'[i].out = loc[i].out,
             UNCHANGED <<idem, delivered>>
      PROVE  Goal
  <2>1. pc'[i] = next
    BY <1>0, <1>b, GotoMoves
  <2> QED
    BY <1>0, <1>b, <2>1 DEF EarnedAt, CacheEarned, Carried
<1>c. {"fast", "load", "rate", "get", "reserve", "account", "refresh", "decrypt", "recheck",
       "recheckDB", "sending", "backoff", "refused", "raised", "cut"}
        \subseteq (Waiting \cup Ended) \ {"settle", "audit", "close", "replied"}
  BY DEF Waiting, Ended
<1>d. pc[i] \notin {"settle", "audit", "close", "replied", "raised", "cut"} => i \notin delivered
  BY <1>0 DEF EarnedAt
<1>e. /\ loc' = [loc EXCEPT ![i].fast = marker] => loc'[i].out = loc[i].out
      /\ loc' = [loc EXCEPT ![i].refreshed = TRUE] => loc'[i].out = loc[i].out
      /\ loc' = [loc EXCEPT ![i].reserved = TRUE] => loc'[i].out = loc[i].out
  BY <1>0, FastMoves, RefreshedMoves, ReservedMoves DEF TypeOK
<1>f. i \in Keyed /\ Carried(i) => delivered \cap Keyed # {}
  BY DEF Carried
<1>g. ASSUME pc[i] = "settle", idem' = Settled(i), delivered' = delivered PROVE CacheEarned'
  <2>1. CASE Mine(i) /\ loc[i].out = "success"
    <3>1. delivered \cap Keyed # {}
      BY <1>0, <1>f, <2>1 DEF ReservedAt, EarnedAt
    <3> QED
      BY <1>g, <3>1 DEF CacheEarned
  <2>2. CASE ~(Mine(i) /\ loc[i].out = "success")
    <3>1. idem' = idem \/ idem' = None
      BY <1>g, <2>2 DEF Settled
    <3> QED
      BY <1>0, <1>g, <3>1 DEF CacheEarned
  <2> QED
    BY <2>1, <2>2
<1> HIDE DEF Goal
<1>1. CASE Verify(i)
  BY <1>1, <1>b, <1>c, <1>d DEF Verify
<1>2. CASE FastCheck(i)
  BY <1>2, <1>b, <1>c, <1>d, <1>e DEF FastCheck
<1>3. CASE LoadGrant(i)
  BY <1>0, <1>3, <1>a, <1>b, <1>c, <1>d DEF LoadGrant
<1>4. CASE RateCheck(i)
  BY <1>0, <1>4, <1>a, <1>b, <1>c, <1>d DEF RateCheck
<1>5. CASE IdemGet(i)
  <2>1. i \in Keyed /\ i \notin delivered
    BY <1>0, <1>5, <1>d DEF IdemGet, ReservedAt
  <2>2. CASE idem # None /\ Finish(i, IF idem.kind = "result" THEN "success" ELSE "denied")
    <3>1. CASE idem.kind = "result"
      <4>1. Carried(i) /\ Finish(i, "success")
        BY <1>0, <2>1, <2>2, <3>1 DEF CacheEarned, Carried
      <4> QED
        BY <1>0, <1>5, <1>a, <2>1, <4>1 DEF IdemGet
    <3>2. CASE idem.kind # "result"
      BY <1>0, <1>5, <1>a, <2>1, <2>2, <3>2 DEF IdemGet
    <3> QED
      BY <3>1, <3>2
  <2> QED
    BY <1>0, <1>5, <1>a, <1>b, <1>c, <2>1, <2>2 DEF IdemGet
<1>6. CASE IdemReserve(i)
  <2>0. i \notin delivered /\ UNCHANGED <<delivered, unsettled>>
    BY <1>6, <1>d DEF IdemReserve
  <2>1. CacheEarned'
    BY <1>0, <1>6 DEF IdemReserve, SetPending, Orphan, CacheEarned
  <2>2. CASE Goto(i, "account") /\ loc' = [loc EXCEPT ![i].reserved = TRUE]
    BY <1>0, <1>e, <2>0, <2>1, <2>2 DEF Goal, EarnedAt, Carried
  <2>3. ASSUME NEW s \in {"failed", "denied"}, Finish(i, s) PROVE Goal
    <3>1. loc'[i].out = s
      BY <1>0, <2>3, FinishMoves
    <3> QED
      BY <2>0, <2>1, <2>3, <3>1 DEF Goal, EarnedAt
  <2> QED
    BY <1>6, <2>2, <2>3 DEF IdemReserve
<1>7. CASE LoadAccount(i)
  BY <1>0, <1>7, <1>a, <1>b, <1>c, <1>d DEF LoadAccount
<1>8. CASE Refresh(i) \/ Decrypt(i)
  BY <1>0, <1>8, <1>a, <1>b, <1>c, <1>d, <1>e DEF Refresh, Decrypt, Ready
<1>9. CASE RecheckCache(i)
  BY <1>0, <1>9, <1>a, <1>b, <1>c, <1>d DEF RecheckCache
<1>h. ASSUME NEW n \in 0..MaxRetries, Send(i, n), UNCHANGED <<idem, delivered, unsettled>>,
             i \notin delivered
      PROVE  Goal
  <2>1. CASE Finish(i, "failed")
    BY <1>0, <1>a, <1>h, <2>1
  <2>2. CASE loc'[i].out = loc[i].out
    BY <1>0, <1>h, <2>2 DEF Goal, EarnedAt, CacheEarned, Carried
  <2> QED
    BY <1>0, <1>h, <2>1, <2>2, SendMoves
<1>10. CASE RecheckDB(i)
  <2>1. 0 \in 0..MaxRetries
    BY ConstantsAssumption
  <2> QED
    BY <1>0, <1>10, <1>a, <1>d, <1>h, <2>1 DEF RecheckDB
<1>w. CASE Wake(i)
  <2>1. loc[i].attempt + 1 \in 0..MaxRetries
    BY <1>w, ConstantsAssumption DEF Wake, Typed, TypeOK, RetryLeft, Locals
  <2> QED
    BY <1>w, <1>d, <1>h, <2>1 DEF Wake
<1>11. CASE Answer(i)
  <2>1. CASE Finish(i, "success") /\ delivered' = delivered \cup {i}
    <3>1. loc'[i].out = "success" /\ pc'[i] \in {"settle", "audit"}
      BY <1>0, <2>1, FinishMoves
    <3> QED
      BY <1>0, <1>11, <2>1, <3>1 DEF Answer, Goal, EarnedAt, CacheEarned, Carried
  <2> QED
    BY <1>0, <1>11, <1>a, <1>b, <1>c, <1>d, <2>1 DEF Answer
<1>12. CASE Settle(i)
  <2>0. pc'[i] = "audit" /\ delivered' = delivered
    BY <1>0, <1>12, GotoMoves DEF Settle, Waiting
  <2>1. CASE idem' = Settled(i) /\ UNCHANGED <<loc, unsettled>>
    <3>1. CacheEarned'
      BY <1>12, <1>g, <2>0, <2>1 DEF Settle
    <3>2. EarnedAt(i)'
      BY <1>0, <1>12, <2>0, <2>1 DEF Settle, EarnedAt, Carried
    <3> QED
      BY <3>1, <3>2 DEF Goal
  <2>2. CASE /\ loc' = [loc EXCEPT ![i].out = "failed"]
             /\ unsettled' = unsettled \cup {i} /\ idem' \in {idem, Settled(i)}
    <3>1. loc'[i].out = "failed"
      BY <1>0, <2>2, OutMoves
    <3>2. CacheEarned'
      BY <1>0, <1>12, <1>g, <2>0, <2>2 DEF Settle, CacheEarned
    <3> QED
      BY <2>0, <2>2, <3>1, <3>2 DEF Goal, EarnedAt
  <2> QED
    BY <1>12, <2>1, <2>2 DEF Settle
<1>13. CASE RecordCall(i) \/ Reply(i)
  <2>1. pc'[i] \in {"close", "replied", "raised"}
    BY <1>0, <1>13, GotoMoves DEF RecordCall, Reply, Waiting, Ended
  <2> QED
    BY <1>0, <1>13, <2>1 DEF RecordCall, Reply, Goal, EarnedAt, CacheEarned, Carried
<1>14. CASE Cancel(i)
  <2>1. pc'[i] = "cut" /\ UNCHANGED <<loc, delivered, unsettled>>
    BY <1>0, <1>14, GotoMoves DEF Cancel, Ended
  <2>2. CacheEarned'
    <3>1. CASE pc[i] = "settle" /\ idem' = Settled(i)
      BY <1>g, <2>1, <3>1
    <3>2. CASE idem' = idem \/ idem' = [kind |-> "pending", by |-> i]
      BY <1>0, <2>1, <3>2 DEF CacheEarned
    <3> QED
      BY <1>14, <3>1, <3>2 DEF Cancel, Orphan, SetPending
  <2> QED
    BY <1>0, <2>1, <2>2 DEF Goal, EarnedAt, Carried
<1> QED
  BY <1>1, <1>2, <1>3, <1>4, <1>5, <1>6, <1>7, <1>8, <1>9, <1>10, <1>w, <1>11, <1>12, <1>13,
     <1>14 DEF Step

(* Who has a result keeps it; only the acting invocation joins.            *)
LEMMA OthersDelivered ==
  ASSUME Typed, NEW i \in Invocation, Verify(i) \/ Step(i) \/ Cancel(i)
  PROVE  delivered \subseteq delivered' /\ delivered' \subseteq delivered \cup {i}
BY DEF Verify, Step, Cancel, FastCheck, LoadGrant, RateCheck, IdemGet, IdemReserve, LoadAccount,
     Refresh, Decrypt, RecheckCache, RecheckDB, Answer, Wake, Settle, RecordCall, Reply, history

LEMMA EarnedInductive ==
  Typed /\ ReservationHeld /\ SuccessEarned /\ [Next]_vars => SuccessEarned'
<1> SUFFICES ASSUME Typed, ReservationHeld, SuccessEarned, [Next]_vars PROVE SuccessEarned'
  OBVIOUS
<1>1. ASSUME NEW i \in Invocation, Verify(i) \/ Step(i) \/ Cancel(i) PROVE SuccessEarned'
  <2>1. EarnedAt(i)' /\ CacheEarned' /\ Framed(i)
    BY <1>1, EarnedOwn, TypedOwn
  <2>2. delivered \subseteq delivered' /\ delivered' \subseteq delivered \cup {i}
    BY <1>1, OthersDelivered
  <2>3. \A j \in Invocation \ {i} : EarnedAt(j)'
    <3> SUFFICES ASSUME NEW j \in Invocation \ {i} PROVE EarnedAt(j)'
      OBVIOUS
    <3>1. pc'[j] = pc[j] /\ loc'[j] = loc[j] /\ (j \in unsettled' <=> j \in unsettled)
      BY <1>1, <2>1, OthersKey DEF Framed
    <3>2. EarnedAt(j) /\ (Carried(j) => Carried(j)')
      BY <2>2 DEF SuccessEarned, Carried
    <3> QED
      BY <2>2, <3>1, <3>2 DEF EarnedAt
  <2> QED
    BY <2>1, <2>3 DEF SuccessEarned
<1>2. CASE Environment
  <2>1. UNCHANGED <<pc, loc, delivered, unsettled>> /\ idem' \in {idem, None}
    BY <1>2, EnvironmentFrames DEF Typed, history
  <2> QED
    BY <2>1 DEF SuccessEarned, EarnedAt, CacheEarned, Carried
<1>3. CASE UNCHANGED vars
  BY <1>3 DEF vars, SuccessEarned, EarnedAt, CacheEarned, Carried
<1> QED
  BY <1>1, <1>2, <1>3 DEF Next, Environment

LEMMA EarnedInitial == Init => SuccessEarned
<1> SUFFICES ASSUME Init PROVE SuccessEarned
  OBVIOUS
<1>1. delivered = {} /\ idem = None /\ \A i \in Invocation : loc[i].out = "none"
  BY DEF Init
<1> QED
  BY <1>1 DEF SuccessEarned, EarnedAt, CacheEarned

(* The log is truthful: a "success" row stands for a provider's result     *)
(* that reached this invocation or one with its key, and an invocation     *)
(* with a result whose settling did not fail has no other row.             *)
THEOREM AuditIsTruthful == Spec => []AuditTruthful
<1>1. SuccessEarned /\ AuditedOnce => AuditTruthful
  <2> SUFFICES ASSUME SuccessEarned, AuditedOnce,
                      NEW i \in Invocation \ unsettled, audit[i] # <<>>
               PROVE  /\ i \in delivered => audit[i] = <<"success">>
                      /\ audit[i] = <<"success">> =>
                           i \in delivered \/ (i \in Keyed /\ delivered \cap Keyed # {})
    BY DEF AuditTruthful
  <2>1. audit[i] = <<loc[i].out>> /\ EarnedAt(i)
    BY DEF AuditedOnce, SuccessEarned
  <2>2. i \in delivered => loc[i].out = "success"
    BY <2>1 DEF EarnedAt
  <2>3. loc[i].out = "success" => Carried(i)
    BY <2>1 DEF EarnedAt
  <2>4. audit[i] = <<"success">> => loc[i].out = "success"
    BY <2>1
  <2> QED
    BY <2>1, <2>2, <2>3, <2>4 DEF Carried
<1>2. Init => AuditedOnce
  BY DEF Init, AuditedOnce
<1> QED
  BY <1>1, <1>2, TypedInitial, TypedInductive, ReservationInitial, ReservationInductive,
     EarnedInitial, EarnedInductive, AuditInductive, PTL DEF Spec
==============================================================================
