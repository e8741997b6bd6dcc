---------------------------- MODULE InvokeService ----------------------------
(***************************************************************************)
(* credbroker/invoke/service.py: InvokeService.invoke, run concurrently    *)
(* under one grant while the grant is revoked, expires, and the connected  *)
(* account's credential ages.                                              *)
(*                                                                         *)
(* One action is the code between two awaits.  The breaker's answer and    *)
(* the rate limiter's are free choices here; complete and release are one  *)
(* step each, and the refresh of a credential is one step: their inner     *)
(* interleavings belong to CircuitBreaker and IdempotencyStore.  An        *)
(* exception inside _invoke_resolved ends in the backstop of invoke, which *)
(* is the outcome "failed".  A command whose answer is lost, to an error   *)
(* or to the end of the task, may have been applied.                       *)
(***************************************************************************)
EXTENDS Naturals, Sequences

CONSTANTS
  Invocation,       \* concurrent runs of invoke under the grant
  Keyed,            \* the ones that carry the (same) idempotency key
  MaxRetries,       \* settings.outbound_max_retries
  Faults,           \* a subset of {"redis", "db", "cut"}
  None              \* no value

ASSUME ConstantsAssumption ==
  /\ Keyed \subseteq Invocation
  /\ MaxRetries \in Nat
  /\ Faults \subseteq {"redis", "db", "cut"}

VARIABLES
  revoked,          \* grants.revoked_at is not NULL
  marker,           \* Redis holds the grant's revocation marker
  expired,          \* grants.expires_at has passed
  account,          \* the connected account: expiry of its credential, and
                    \* whether _can_refresh
  idem,             \* the idempotency key: None, or its kind and its author
  pc,               \* pc[i]: the await invocation i is in, or how it ended
  loc,              \* loc[i]: its locals
  audit,            \* audit[i]: its rows of tool_call_audit_log, by status
  sends,            \* history: sends[i] the attempts that reached the provider
  delivered,        \* history: invocations whose provider call succeeded
  doomed,           \* history: invocations whose grant was already revoked
                    \* when their credential became ready
  unsettled,        \* history: invocations whose complete or release raised
  orphaned          \* history: invocations whose SET NX was applied, but
                    \* its answer lost

grantVars == <<revoked, marker, expired>>
history   == <<sends, delivered, doomed, unsettled, orphaned>>
vars == <<revoked, marker, expired, account, idem, pc, loc, audit, sends,
          delivered, doomed, unsettled, orphaned>>

Statuses == {"success", "failed", "denied"}
Waiting  == {"fast", "load", "rate", "get", "reserve", "account", "refresh", "decrypt",
             "recheck", "recheckDB", "sending", "backoff", "settle", "audit", "close"}
Ended    == {"refused", "replied", "raised", "cut"}

Locals == [fast: BOOLEAN, refreshed: BOOLEAN, reserved: BOOLEAN,
           attempt: 0..MaxRetries, out: Statuses \cup {"none"}]

Fault(f) == f \in Faults

-----------------------------------------------------------------------------
Goto(i, next) == pc' = [pc EXCEPT ![i] = next]

(* Mutation: an outcome that holds no reservation skips the audit. *)
SkipAudit(i) == IF loc[i].reserved THEN "settle" ELSE "replied"

AfterOutcome(i) == IF loc[i].reserved THEN "settle" ELSE "audit"

(* _invoke_resolved has outcome s: settle the reservation, if any, audit.  *)
Finish(i, s) ==
  /\ loc' = [loc EXCEPT ![i].out = s]
  /\ Goto(i, AfterOutcome(i))

(* verify_grant_token and the tool name: a refusal here, as for a token    *)
(* without a row, is answered but has no grant to audit against.  The      *)
(* token's exp is expires_at cut to whole seconds: never later than it.    *)
Verify(i) ==
  /\ pc[i] = "start"
  /\ \/ ~expired /\ Goto(i, "fast")
     \/ Goto(i, "refused")
  /\ UNCHANGED <<grantVars, account, idem, loc, audit, history>>

(* The cached revocation marker.  No backstop yet: a Redis error escapes.  *)
FastCheck(i) ==
  /\ pc[i] = "fast"
  /\ \/ loc' = [loc EXCEPT ![i].fast = marker] /\ Goto(i, "load")
     \/ Fault("redis") /\ Goto(i, "raised") /\ UNCHANGED loc
  /\ UNCHANGED <<grantVars, account, idem, audit, history>>

(* The grant row, then revocation and expiry. *)
LoadGrant(i) ==
  /\ pc[i] = "load"
  /\ \/ Goto(i, "refused") /\ UNCHANGED loc
     \/ Fault("db") /\ Goto(i, "raised") /\ UNCHANGED loc
     \/ (loc[i].fast \/ revoked \/ expired) /\ Finish(i, "denied")
     \/ ~(loc[i].fast \/ revoked \/ expired) /\ Goto(i, "rate") /\ UNCHANGED loc
  /\ UNCHANGED <<grantVars, account, idem, audit, history>>

(* Rate limit, then tool and scope. *)
RateCheck(i) ==
  /\ pc[i] = "rate"
  /\ \/ Finish(i, "denied")
     \/ Fault("redis") /\ Finish(i, "failed")
     \/ Goto(i, IF i \in Keyed THEN "get" ELSE "account") /\ UNCHANGED loc
  /\ UNCHANGED <<grantVars, account, idem, audit, history>>

IdemGet(i) ==
  /\ pc[i] = "get"
  /\ \/ idem = None /\ Goto(i, "reserve") /\ UNCHANGED loc
     \/ idem # None /\ Finish(i, IF idem.kind = "result" THEN "success" ELSE "denied")
     \/ Fault("redis") /\ Finish(i, "failed")
  /\ UNCHANGED <<grantVars, account, idem, audit, history>>

(* The SET NX of reserve is applied. *)
SetPending(i) == idem = None /\ idem' = [kind |-> "pending", by |-> i]

(* Nobody will settle the marker that the SET NX of i has left. *)
Orphan(i) == SetPending(i) /\ orphaned' = orphaned \cup {i}

(* reserve: if an applied SET NX's answer is lost, the client raises, or   *)
(* repeats the command and meets its own marker.                           *)
IdemReserve(i) ==
  /\ pc[i] = "reserve"
  /\ \/ /\ SetPending(i)
        /\ loc' = [loc EXCEPT ![i].reserved = TRUE]
        /\ Goto(i, "account")
        /\ UNCHANGED orphaned
     \/ idem # None /\ Finish(i, "denied") /\ UNCHANGED <<idem, orphaned>>
     \/ Fault("redis") /\ Finish(i, "failed") /\ UNCHANGED <<idem, orphaned>>
     \/ /\ Fault("redis") /\ Orphan(i)
        /\ Finish(i, "failed") \/ Finish(i, "denied")
  /\ UNCHANGED <<grantVars, account, audit, sends, delivered, doomed, unsettled>>

(* The account: gone, stale and refreshable, dead, or usable. *)
LoadAccount(i) ==
  /\ pc[i] = "account"
  /\ LET stale == account.expiry # "later" IN
     \/ Finish(i, "failed")
     \/ stale /\ account.refreshable /\ Goto(i, "refresh") /\ UNCHANGED loc
     \/ account.expiry = "past" /\ ~account.refreshable /\ Finish(i, "failed")
     \/ (stale => ~account.refreshable /\ account.expiry = "margin")
        /\ Goto(i, "decrypt") /\ UNCHANGED loc
  /\ UNCHANGED <<grantVars, account, idem, audit, history>>

(* The plaintext credential is at hand; the revocation re-check comes next. *)
Ready(i) ==
  /\ Goto(i, "recheck")
  /\ doomed' = IF revoked THEN doomed \cup {i} ELSE doomed

Refreshed == [account EXCEPT !.expiry = "later"]

(* _refresh_or_outcome: redeem, persist, commit; or a failed outcome.      *)
Refresh(i) ==
  /\ pc[i] = "refresh"
  /\ \/ /\ account' = Refreshed
        /\ loc' = [loc EXCEPT ![i].refreshed = TRUE]
        /\ Ready(i)
     \/ Finish(i, "failed") /\ UNCHANGED <<account, doomed>>
     \/ Fault("db") /\ Finish(i, "failed") /\ account' = Refreshed /\ UNCHANGED doomed
  /\ UNCHANGED <<grantVars, idem, audit, sends, delivered, unsettled, orphaned>>

Decrypt(i) ==
  /\ pc[i] = "decrypt"
  /\ \/ Ready(i) /\ UNCHANGED loc
     \/ Finish(i, "failed") /\ UNCHANGED doomed
  /\ UNCHANGED <<grantVars, account, idem, audit, sends, delivered, unsettled, orphaned>>

(* call_with_retries, attempt n: the breaker lets it through or refuses.   *)
Send(i, n) ==
  \/ /\ loc' = [loc EXCEPT ![i].attempt = n]
     /\ Goto(i, "sending")
     /\ sends' = [sends EXCEPT ![i] = @ + 1]
  \/ Finish(i, "failed") /\ UNCHANGED sends

(* _is_revoked_now: the Redis marker ... *)
RecheckCache(i) ==
  /\ pc[i] = "recheck"
  /\ \/ marker /\ Finish(i, "denied")
     \/ ~marker /\ Goto(i, "recheckDB") /\ UNCHANGED loc
     \/ Fault("redis") /\ Finish(i, "failed")
  /\ UNCHANGED <<grantVars, account, idem, audit, history>>

(* Mutation: the row of the session's identity map, as loaded before. *)
StaleRow(i) == FALSE

(* ... then the column, straight from the database. *)
LiveRow(i) == revoked

RecheckDB(i) ==
  /\ pc[i] = "recheckDB"
  /\ \/ LiveRow(i) /\ Finish(i, "denied") /\ UNCHANGED sends
     \/ ~LiveRow(i) /\ Send(i, 0)
     \/ Fault("db") /\ Finish(i, "failed") /\ UNCHANGED sends
  /\ UNCHANGED <<grantVars, account, idem, audit, delivered, doomed, unsettled, orphaned>>

(* Mutation: one retry too many. *)
LateStop(i) == loc[i].attempt > MaxRetries

OutOfRetries(i) == loc[i].attempt >= MaxRetries

(* Mutation: every 401 triggers a refresh. *)
AlwaysRefresh(i) == account.refreshable

MayRefresh(i) == ~loc[i].refreshed /\ account.refreshable

(* The provider's answer: a result; a timeout, transport error or 5xx;     *)
(* a 401; any other error.                                                 *)
Answer(i) ==
  /\ pc[i] = "sending"
  /\ \/ Finish(i, "success") /\ delivered' = delivered \cup {i}
     \/ /\ ~OutOfRetries(i) /\ Goto(i, "backoff")
        /\ UNCHANGED <<loc, delivered>>
     \/ OutOfRetries(i) /\ Finish(i, "failed") /\ UNCHANGED delivered
     \/ MayRefresh(i) /\ Goto(i, "refresh") /\ UNCHANGED <<loc, delivered>>
     \/ Finish(i, "failed") /\ UNCHANGED delivered
  /\ UNCHANGED <<grantVars, account, idem, audit, sends, doomed, unsettled, orphaned>>

(* The backoff sleep is over. *)
Wake(i) ==
  /\ pc[i] = "backoff"
  /\ Send(i, loc[i].attempt + 1)
  /\ UNCHANGED <<grantVars, account, idem, audit, delivered, doomed, unsettled, orphaned>>

Mine(i) == idem # None /\ idem.kind = "pending" /\ idem.by = i

(* Mutation: the outcome is cached whatever its status. *)
CacheAnyway(i) == IF Mine(i) THEN [kind |-> "result", by |-> i] ELSE idem

(* Mutation: only a success settles the reservation. *)
LeaveOnFailure(i) ==
  IF Mine(i) /\ loc[i].out = "success" THEN [kind |-> "result", by |-> i] ELSE idem

(* complete after a success, release otherwise, by the owner only.         *)
Settled(i) ==
  IF ~Mine(i) THEN idem
  ELSE IF loc[i].out = "success" THEN [kind |-> "result", by |-> i] ELSE None

(* A Redis error in complete or release reaches the backstop. *)
Settle(i) ==
  /\ pc[i] = "settle"
  /\ \/ idem' = Settled(i) /\ UNCHANGED <<loc, unsettled>>
     \/ /\ Fault("redis")
        /\ loc' = [loc EXCEPT ![i].out = "failed"]
        /\ unsettled' = unsettled \cup {i}
        /\ idem' \in {idem, Settled(i)}
  /\ Goto(i, "audit")
  /\ UNCHANGED <<grantVars, account, audit, sends, delivered, doomed, orphaned>>

(* record_call: the row is committed, or the INSERT or the COMMIT fails.   *)
RecordCall(i) ==
  /\ pc[i] = "audit"
  /\ \/ audit' = [audit EXCEPT ![i] = Append(@, loc[i].out)] /\ Goto(i, "close")
     \/ Fault("db") /\ Goto(i, "raised") /\ UNCHANGED audit
  /\ UNCHANGED <<grantVars, account, idem, loc, history>>

(* The COMMIT is answered, the session closes and the outcome is returned; *)
(* or the answer is lost.                                                  *)
Reply(i) ==
  /\ pc[i] = "close"
  /\ \/ Goto(i, "replied")
     \/ Fault("db") /\ Goto(i, "raised")
  /\ UNCHANGED <<grantVars, account, idem, loc, audit, history>>

(* CancelledError at an await, or the death of the broker: no "except      *)
(* Exception" runs.  What the task was waiting for may have been done.     *)
Cancel(i) ==
  /\ Fault("cut") /\ pc[i] \in Waiting
  /\ Goto(i, "cut")
  /\ \/ UNCHANGED <<idem, account, orphaned>>
     \/ pc[i] = "reserve" /\ Orphan(i) /\ UNCHANGED account
     \/ pc[i] = "settle" /\ idem' = Settled(i) /\ UNCHANGED <<account, orphaned>>
     \/ pc[i] = "refresh" /\ account' = Refreshed /\ UNCHANGED <<idem, orphaned>>
  /\ UNCHANGED <<grantVars, loc, audit, sends, delivered, doomed, unsettled>>

-----------------------------------------------------------------------------
(* The environment. *)

(* revoke_grant commits, then marks; Redis may lose the marker. *)
Revoke ==
  /\ ~revoked /\ revoked' = TRUE
  /\ UNCHANGED <<marker, expired, account, idem, pc, loc, audit, history>>

Mark ==
  /\ revoked /\ ~marker /\ marker' = TRUE
  /\ UNCHANGED <<revoked, expired, account, idem, pc, loc, audit, history>>

LoseMarker ==
  /\ marker /\ marker' = FALSE
  /\ UNCHANGED <<revoked, expired, account, idem, pc, loc, audit, history>>

Expire ==
  /\ ~expired /\ expired' = TRUE
  /\ UNCHANGED <<revoked, marker, account, idem, pc, loc, audit, history>>

(* The stored access token comes within the refresh margin, then expires.  *)
AgeCredential ==
  /\ \/ account.expiry = "later" /\ account' = [account EXCEPT !.expiry = "margin"]
     \/ account.expiry = "margin" /\ account' = [account EXCEPT !.expiry = "past"]
  /\ UNCHANGED <<grantVars, idem, pc, loc, audit, history>>

(* A reservation or a cached result runs out. *)
ExpireKey ==
  /\ idem # None /\ idem' = None
  /\ UNCHANGED <<grantVars, account, pc, loc, audit, history>>

-----------------------------------------------------------------------------
Init ==
  /\ revoked = FALSE /\ marker = FALSE /\ expired = FALSE
  /\ account \in [expiry: {"later", "margin"}, refreshable: BOOLEAN]
  /\ idem = None
  /\ pc = [i \in Invocation |-> "start"]
  /\ loc = [i \in Invocation |-> [fast |-> FALSE, refreshed |-> FALSE, reserved |-> FALSE,
                                  attempt |-> 0, out |-> "none"]]
  /\ audit = [i \in Invocation |-> <<>>]
  /\ sends = [i \in Invocation |-> 0]
  /\ delivered = {} /\ doomed = {} /\ unsettled = {} /\ orphaned = {}

Step(i) ==
  \/ FastCheck(i) \/ LoadGrant(i) \/ RateCheck(i)
  \/ IdemGet(i) \/ IdemReserve(i)
  \/ LoadAccount(i) \/ Refresh(i) \/ Decrypt(i)
  \/ RecheckCache(i) \/ RecheckDB(i)
  \/ Answer(i) \/ Wake(i)
  \/ Settle(i) \/ RecordCall(i) \/ Reply(i)

Next ==
  \/ \E i \in Invocation : Verify(i) \/ Step(i) \/ Cancel(i)
  \/ Revoke \/ Mark \/ LoseMarker \/ Expire \/ AgeCredential \/ ExpireKey

Spec == Init /\ [][Next]_vars

-----------------------------------------------------------------------------
(* Properties. *)

TypeOK ==
  /\ revoked \in BOOLEAN /\ marker \in BOOLEAN /\ expired \in BOOLEAN
  /\ account \in [expiry: {"later", "margin", "past"}, refreshable: BOOLEAN]
  /\ idem \in [kind: {"pending", "result"}, by: Invocation] \cup {None}
  /\ pc \in [Invocation -> {"start"} \cup Waiting \cup Ended]
  /\ loc \in [Invocation -> Locals]
  /\ audit \in [Invocation -> Seq(Statuses)]
  /\ sends \in [Invocation -> Nat]
  /\ delivered \subseteq Invocation /\ doomed \subseteq Invocation
  /\ unsettled \subseteq Invocation /\ orphaned \subseteq Invocation

(* "exactly one audit row per outcome with a resolved grant"               *)
(* (service.py:246): whatever fails on the way, an agent that gets a reply *)
(* under a resolved grant has exactly one row, with the replied status;    *)
(* and a row is the only one of its invocation, has the status it was to   *)
(* reply, and was written when all else was done: who has one is about to  *)
(* reply, has, or lost the reply to an error or a cut after the commit.    *)
AuditedOnce ==
  \A i \in Invocation :
    /\ pc[i] \in {"close", "replied"} => audit[i] = <<loc[i].out>>
    /\ audit[i] # <<>> =>
         audit[i] = <<loc[i].out>> /\ pc[i] \in {"close", "replied", "raised", "cut"}

(* "A revocation that landed while this invocation was in flight ... must  *)
(* still abort it" (service.py:419-421): if the grant was revoked by the   *)
(* time the credential was at hand, after a refresh following a 401 too,   *)
(* the credential is not sent, whatever Redis has forgotten.               *)
RevokedNeverSent ==
  \A i \in doomed : pc[i] \notin {"sending", "backoff"}

(* "Every grant issuance and tool call is audited: who, what, when,        *)
(* result" (docs/DESIGN.md:21): a row says "success" exactly when a        *)
(* provider's result reached this invocation, or one whose result was      *)
(* replayed under the same key (what the provider did in a call that timed *)
(* out the broker cannot know: that is a "failed" row).  The exception is  *)
(* a Redis error in complete, which turns a result at hand into a "failed" *)
(* row (service.py:226-244, 360).                                          *)
AuditTruthful ==
  \A i \in Invocation \ unsettled : audit[i] # <<>> =>
    /\ i \in delivered => audit[i] = <<"success">>
    /\ audit[i] = <<"success">> => i \in delivered \/ (i \in Keyed /\ delivered \cap Keyed # {})

(* "An unexpected error must not wedge the idempotency key"                *)
(* (service.py:350): who replied has left no reservation behind, unless    *)
(* Redis itself refused to settle it, or the answer to the SET NX was lost *)
(* and the invocation never knew that it held the key.                     *)
ReservationSettled ==
  \A i \in Invocation \ (unsettled \cup orphaned) : pc[i] = "replied" => ~Mine(i)

(* "a 401 on a credential this call has not already refreshed triggers a   *)
(* single refresh and retry ...; a second 401 fails" (service.py:428-430): *)
(* the recovery loop and the retries together never send a credential more *)
(* than twice 1 + max_retries times.                                       *)
SendsBounded == \A i \in Invocation : sends[i] <= 2 * (1 + MaxRetries)

(* "InvokeTool checks revocation again immediately before the outbound     *)
(* call so an in-flight invoke is killed too" (docs/DESIGN.md:93-94), read *)
(* for every attempt: no retry goes out under a revoked grant.             *)
RetriesStopOnRevocation ==
  [][\A i \in Invocation :
       pc[i] = "backoff" /\ pc'[i] = "sending" => ~revoked]_vars
==============================================================================
