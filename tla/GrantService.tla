---------------------------- MODULE GrantService ----------------------------
(***************************************************************************)
(* credbroker/grants/service.py: request_grant and revoke_grant, run by    *)
(* any number of concurrent RPC or console handlers, with the agent row    *)
(* lock, the grants table and the Redis grant cache (cache/grants_cache).  *)
(*                                                                         *)
(* One action is one stretch of code between two awaits on the database or *)
(* on Redis.  A handler may be cut off at any await (cancelled RPC, broker *)
(* crash): its session is rolled back, which frees the row lock.  Redis    *)
(* may lose any key at any moment, and any Redis write may raise.          *)
(***************************************************************************)
EXTENDS Naturals, FiniteSets

CONSTANTS
  Request,          \* handlers running request_grant
  Revoker,          \* handlers running revoke_grant
  Argument,         \* the arguments a caller may present
  KnownAgent,       \* ids of the rows of the agents table
  KnownTool,        \* names in TOOL_REGISTRY
  Scope,            \* action classes ("read", "write")
  Account,          \* ids that connected accounts can have
  GrantId,          \* ids that grants can have
  AgentUser, AllowedTools, ToolScope, ToolProvider,
  AccountUser, AccountProvider,
  MaxActive,        \* settings.max_active_grants_per_agent_scope
  TTL,              \* settings.grant_token_ttl_seconds
  MaxTime,          \* bound on the clock
  None              \* NULL, and "nobody" for the row lock

VARIABLES
  clock,            \* utcnow(), one clock for every broker instance
  created,          \* created[c]: created_at of account c, None before OAuth
  grants,           \* the grants table: grants[g] is a row or None
  lock,             \* lock[a]: the request holding agent a's row lock
  pc,               \* pc[r]: where request r is, or how it ended
  req,              \* req[r]: the arguments and locals of request r
  rpc,              \* rpc[v]: where revoker v is, or how it ended
  rev,              \* rev[v]: the arguments and locals of revoker v
  issuedKey,        \* Redis: the grants with a "grant:<hash>" key
  revokedKey        \* Redis: the grants with a "revoked:<hash>" key

dbVars    == <<created, grants, lock>>
redisVars == <<issuedKey, revokedKey>>
vars == <<clock, created, grants, lock, pc, req, rpc, rev, issuedKey, revokedKey>>

GrantRow ==
  [agent: KnownAgent, tool: KnownTool, scope: Scope, account: Account,
   issued: Nat, expires: Nat, revoked: Nat \cup {None}]

(* The locals request_grant and revoke_grant keep across an await. *)
Locals ==
  [arg: Argument, account: Account \cup {None}, now: Nat,
   grant: GrantId \cup {None}]
RevokeLocals == [grant: GrantId, at: Nat]

Holding  == {"bind", "count", "commit"}           \* the row lock is held
Running  == {"lock", "cache"} \cup Holding
Denials  == {"RateLimited", "UnknownAgent", "UnknownTool", "PolicyDenied",
             "ScopeMismatch", "NoConnectedAccount", "ConcurrencyLimit"}
Ended    == Denials \cup {"issued", "error", "cut"}

Revoking     == {"update", "mark", "unmark"}
RevokeEnded  == {"NotFound", "revoked", "error", "cut"}

ASSUME NumbersAssumption == MaxActive \in Nat /\ TTL \in Nat /\ MaxTime \in Nat
ASSUME TablesAssumption ==
  /\ ToolScope \in [KnownTool -> Scope]
  /\ \A x \in Argument : DOMAIN x = {"agent", "tool", "scope"}
ASSUME FiniteAssumption == IsFiniteSet(GrantId)
ASSUME NoneAssumption == None \notin Nat \cup Request \cup GrantRow

-----------------------------------------------------------------------------
(* Queries. *)

Issued == {g \in GrantId : grants[g] # None}

(* select(func.count()) over the grants that are neither revoked nor       *)
(* expired at now, for one agent, tool and scope.                          *)
Active(a, t, s, now) ==
  {g \in Issued : /\ grants[g].agent = a
                  /\ grants[g].tool = t
                  /\ grants[g].scope = s
                  /\ grants[g].revoked = None
                  /\ grants[g].expires > now}

IsRevoked(g) == g \in Issued /\ grants[g].revoked # None

(* Mutation: the account query forgets the owner. *)
AnyOwner(r) ==
  {c \in Account : /\ created[c] # None
                   /\ AccountProvider[c] = ToolProvider[req[r].arg.tool]}

(* The connected accounts of the agent's own user with the tool's provider. *)
OwnAccounts(r) ==
  {c \in Account : /\ created[c] # None
                   /\ AccountUser[c] = AgentUser[req[r].arg.agent]
                   /\ AccountProvider[c] = ToolProvider[req[r].arg.tool]}

(* ORDER BY created_at DESC LIMIT 1; equal timestamps leave the choice open. *)
Newest(S) == {c \in S : \A d \in S : created[d] <= created[c]}

-----------------------------------------------------------------------------
(* request_grant. *)

(* Mutation: the error paths leave the transaction open. *)
KeepLock(r) == lock

(* Leaving the session, by commit or by rollback, frees the row lock. *)
Unlock(r) == [a \in KnownAgent |-> IF lock[a] = r THEN None ELSE lock[a]]

(* request r stops with result o; its transaction is rolled back. *)
End(r, o) ==
  /\ pc' = [pc EXCEPT ![r] = o]
  /\ lock' = Unlock(r)

(* A handler starts and spends one hit on the rate limiter, which may      *)
(* refuse it, or fail with a Redis error.                                  *)
CheckRate(r) ==
  /\ pc[r] = "idle"
  /\ \E next \in {"lock", "RateLimited", "error"} : pc' = [pc EXCEPT ![r] = next]
  /\ UNCHANGED <<clock, dbVars, req, rpc, rev, redisVars>>

(* Mutation: a plain SELECT, which no lock holder blocks. *)
NoWait(r) == TRUE

(* SELECT ... FOR UPDATE returns once nobody else holds the agent's row. *)
LockFree(r) == lock[req[r].arg.agent] = None

LockAgent(r) ==
  /\ pc[r] = "lock"
  /\ IF req[r].arg.agent \in KnownAgent
       THEN /\ LockFree(r)
            /\ lock' = [lock EXCEPT ![req[r].arg.agent] = r]
            /\ pc' = [pc EXCEPT ![r] = "bind"]
       ELSE End(r, "UnknownAgent")
  /\ UNCHANGED <<clock, created, grants, req, rpc, rev, redisVars>>

(* Mutation: the agent's policy is not consulted. *)
NoPolicy(r) ==
  IF req[r].arg.tool \notin KnownTool THEN "UnknownTool"
  ELSE IF req[r].arg.scope # ToolScope[req[r].arg.tool] THEN "ScopeMismatch"
  ELSE "none"

(* get_tool, the policy check, the scope check, in that order: the first   *)
(* that fails decides the error.                                           *)
PolicyError(r) ==
  IF req[r].arg.tool \notin KnownTool THEN "UnknownTool"
  ELSE IF req[r].arg.tool \notin AllowedTools[req[r].arg.agent] THEN "PolicyDenied"
  ELSE IF req[r].arg.scope # ToolScope[req[r].arg.tool] THEN "ScopeMismatch"
  ELSE "none"

(* The account query, and now := utcnow() once it has answered. *)
BindAccount(r) ==
  /\ pc[r] = "bind"
  /\ \/ /\ PolicyError(r) # "none"
        /\ End(r, PolicyError(r))
        /\ UNCHANGED req
     \/ /\ PolicyError(r) = "none"
        /\ OwnAccounts(r) = {}
        /\ End(r, "NoConnectedAccount")
        /\ UNCHANGED req
     \/ /\ PolicyError(r) = "none"
        /\ \E c \in Newest(OwnAccounts(r)) :
             req' = [req EXCEPT ![r] = [@ EXCEPT !.account = c, !.now = clock]]
        /\ pc' = [pc EXCEPT ![r] = "count"]
        /\ UNCHANGED lock
  /\ UNCHANGED <<clock, created, grants, rpc, rev, redisVars>>

(* The active grants that compete with request r, as of its now. *)
Competing(r) == Active(req[r].arg.agent, req[r].arg.tool, req[r].arg.scope, req[r].now)

CountActive(r) ==
  /\ pc[r] = "count"
  /\ \/ /\ Cardinality(Competing(r)) >= MaxActive
        /\ End(r, "ConcurrencyLimit")
     \/ /\ Cardinality(Competing(r)) < MaxActive
        /\ pc' = [pc EXCEPT ![r] = "commit"]
        /\ UNCHANGED lock
  /\ UNCHANGED <<clock, created, grants, req, rpc, rev, redisVars>>

(* Mutation: the row is added without its account. *)
UnboundRow(r) ==
  [agent |-> req[r].arg.agent, tool |-> req[r].arg.tool, scope |-> req[r].arg.scope,
   account |-> None, issued |-> req[r].now,
   expires |-> req[r].now + TTL, revoked |-> None]

NewRow(r) ==
  [agent |-> req[r].arg.agent, tool |-> req[r].arg.tool, scope |-> req[r].arg.scope,
   account |-> req[r].account, issued |-> req[r].now,
   expires |-> req[r].now + TTL, revoked |-> None]

(* INSERT of the row under a fresh uuid4, and COMMIT. *)
CommitGrant(r, g) ==
  /\ pc[r] = "commit"
  /\ grants[g] = None
  /\ grants' = [grants EXCEPT ![g] = NewRow(r)]
  /\ req' = [req EXCEPT ![r].grant = g]
  /\ End(r, "cache")
  /\ UNCHANGED <<clock, created, rpc, rev, redisVars>>

(* grant_cache.record_issued, and the reply that carries the token.  A     *)
(* Redis error is raised to the caller although the row is committed.      *)
RecordIssued(r) ==
  /\ pc[r] = "cache"
  /\ \/ /\ issuedKey' = issuedKey \cup {req[r].grant}
        /\ pc' = [pc EXCEPT ![r] = "issued"]
     \/ /\ pc' = [pc EXCEPT ![r] = "error"]
        /\ UNCHANGED issuedKey
  /\ UNCHANGED <<clock, dbVars, req, rpc, rev, revokedKey>>

(* The handler is cancelled, or its broker dies, at an await. *)
CutRequest(r) ==
  /\ pc[r] \in Running
  /\ End(r, "cut")
  /\ UNCHANGED <<clock, created, grants, req, rpc, rev, redisVars>>

-----------------------------------------------------------------------------
(* revoke_grant. *)

(* session.get(Grant, grant_id); revoked_at is computed now, written later. *)
LoadGrant(v) ==
  /\ rpc[v] = "idle"
  /\ rev' = [rev EXCEPT ![v].at = clock]
  /\ rpc' = [rpc EXCEPT ![v] = IF rev[v].grant \notin Issued THEN "NotFound"
                               ELSE IF IsRevoked(rev[v].grant) THEN "mark"
                               ELSE "update"]
  /\ UNCHANGED <<clock, dbVars, pc, req, redisVars>>

(* Mutation: the revocation flag is toggled instead of set. *)
ToggleRevoked(v) ==
  [grants[rev[v].grant] EXCEPT !.revoked = IF @ = None THEN rev[v].at ELSE None]

RevokedRow(v) == [grants[rev[v].grant] EXCEPT !.revoked = rev[v].at]

(* UPDATE grants SET revoked_at = ... WHERE id = ...; COMMIT.  No row lock *)
(* was taken by the SELECT, so another revoker may have committed since.   *)
UpdateRevoked(v) ==
  /\ rpc[v] = "update"
  /\ grants' = [grants EXCEPT ![rev[v].grant] = RevokedRow(v)]
  /\ rpc' = [rpc EXCEPT ![v] = "mark"]
  /\ UNCHANGED <<clock, created, lock, pc, req, rev, redisVars>>

(* Mutation: the marker is written before the database commit. *)
MarkEarly(v) == {"update", "mark"}

(* The marker is written once the row is known to be revoked. *)
MarkableAt(v) == {"mark"}

(* record_revoked: SET revoked:<hash> ... *)
MarkRevoked(v) ==
  /\ rpc[v] \in MarkableAt(v)
  /\ \/ /\ revokedKey' = revokedKey \cup {rev[v].grant}
        /\ rpc' = [rpc EXCEPT ![v] = "unmark"]
     \/ /\ rpc' = [rpc EXCEPT ![v] = "error"]
        /\ UNCHANGED revokedKey
  /\ UNCHANGED <<clock, dbVars, pc, req, rev, issuedKey>>

(* ... then DELETE grant:<hash>, and the reply. *)
UnmarkIssued(v) ==
  /\ rpc[v] = "unmark"
  /\ \/ /\ issuedKey' = issuedKey \ {rev[v].grant}
        /\ rpc' = [rpc EXCEPT ![v] = "revoked"]
     \/ /\ rpc' = [rpc EXCEPT ![v] = "error"]
        /\ UNCHANGED issuedKey
  /\ UNCHANGED <<clock, dbVars, pc, req, rev, revokedKey>>

CutRevoker(v) ==
  /\ rpc[v] \in Revoking
  /\ rpc' = [rpc EXCEPT ![v] = "cut"]
  /\ UNCHANGED <<clock, dbVars, pc, req, rev, redisVars>>

-----------------------------------------------------------------------------
(* The environment. *)

(* The OAuth callback commits a connected account. *)
ConnectAccount(c) ==
  /\ created[c] = None
  /\ created' = [created EXCEPT ![c] = clock]
  /\ UNCHANGED <<clock, grants, lock, pc, req, rpc, rev, redisVars>>

(* Redis drops a key: its TTL ran out, it was evicted, or Redis restarted. *)
LoseKey(g) ==
  /\ \/ g \in issuedKey /\ issuedKey' = issuedKey \ {g} /\ UNCHANGED revokedKey
     \/ g \in revokedKey /\ revokedKey' = revokedKey \ {g} /\ UNCHANGED issuedKey
  /\ UNCHANGED <<clock, dbVars, pc, req, rpc, rev>>

Tick ==
  /\ clock < MaxTime
  /\ clock' = clock + 1
  /\ UNCHANGED <<dbVars, pc, req, rpc, rev, redisVars>>

-----------------------------------------------------------------------------
Init ==
  /\ clock = 0
  /\ created = [c \in Account |-> None]
  /\ grants = [g \in GrantId |-> None]
  /\ lock = [a \in KnownAgent |-> None]
  /\ pc = [r \in Request |-> "idle"]
  /\ req \in [Request -> [arg: Argument, account: {None}, now: {0}, grant: {None}]]
  /\ rpc = [v \in Revoker |-> "idle"]
  /\ rev \in [Revoker -> [grant: GrantId, at: {0}]]
  /\ issuedKey = {}
  /\ revokedKey = {}

RequestStep(r) ==
  \/ LockAgent(r)
  \/ BindAccount(r)
  \/ CountActive(r)
  \/ \E g \in GrantId : CommitGrant(r, g)
  \/ RecordIssued(r)

RevokerStep(v) ==
  \/ UpdateRevoked(v)
  \/ MarkRevoked(v)
  \/ UnmarkIssued(v)

Next ==
  \/ \E r \in Request : CheckRate(r) \/ RequestStep(r) \/ CutRequest(r)
  \/ \E v \in Revoker : LoadGrant(v) \/ RevokerStep(v) \/ CutRevoker(v)
  \/ \E c \in Account : ConnectAccount(c)
  \/ \E g \in GrantId : LoseKey(g)
  \/ Tick

Spec == Init /\ [][Next]_vars

(* An await on PostgreSQL, Redis or the rate limiter eventually returns,   *)
(* and PostgreSQL grants a row lock to its waiters in turn, so a waiter is *)
(* not passed over forever.  Nothing forces a request to arrive or to be   *)
(* cut off, nor Redis to lose a key.                                       *)
Fairness ==
  /\ \A r \in Request : WF_vars(RequestStep(r)) /\ SF_vars(LockAgent(r))
  /\ \A v \in Revoker : WF_vars(RevokerStep(v))

FairSpec == Spec /\ Fairness

-----------------------------------------------------------------------------
(* Properties. *)

TypeOK ==
  /\ clock \in Nat
  /\ created \in [Account -> Nat \cup {None}]
  /\ grants \in [GrantId -> GrantRow \cup {None}]
  /\ lock \in [KnownAgent -> Request \cup {None}]
  /\ pc \in [Request -> {"idle"} \cup Running \cup Ended]
  /\ req \in [Request -> Locals]
  /\ rpc \in [Revoker -> {"idle"} \cup Revoking \cup RevokeEnded]
  /\ rev \in [Revoker -> RevokeLocals]
  /\ issuedKey \subseteq GrantId
  /\ revokedKey \subseteq GrantId

(* However requests for one agent interleave, time out or die, the agent   *)
(* never holds more than max_active_grants_per_agent_scope grants that are *)
(* neither revoked nor expired for one tool and scope: "so the concurrency *)
(* count below cannot be raced" (service.py:79-80).                        *)
ActiveLimit ==
  \A a \in KnownAgent, t \in KnownTool, s \in Scope :
    Cardinality(Active(a, t, s, clock)) <= MaxActive

(* No grant is ever bound to an account of another user, or of another     *)
(* provider than its tool's: "a grant must never attach to another user's  *)
(* connected account, no matter how recently it was added"                 *)
(* (service.py:93-94).                                                     *)
TenantIsolation ==
  \A g \in Issued :
    /\ AccountUser[grants[g].account] = AgentUser[grants[g].agent]
    /\ AccountProvider[grants[g].account] = ToolProvider[grants[g].tool]
    /\ created[grants[g].account] # None

(* A hit on a revocation key may be acted on without asking the database   *)
(* ("Only a cache HIT on the revocation key is safe to act on directly",   *)
(* grants_cache.py:21-22): the row behind it is revoked, whichever steps   *)
(* of other revokers were lost, and no key exists for a grant that does    *)
(* not.                                                                    *)
CacheBehindDB ==
  /\ \A g \in revokedKey : IsRevoked(g)
  /\ issuedKey \subseteq Issued

(* A revoke call that is past its database step, and so every one that     *)
(* answered "revoked", leaves a revoked row behind, whatever the others do *)
(* and whatever Redis forgets.                                             *)
RevocationDurable ==
  \A v \in Revoker :
    rpc[v] \in {"mark", "unmark", "revoked"} => IsRevoked(rev[v].grant)

(* The row lock of an agent is held only by a request that is between its  *)
(* SELECT FOR UPDATE and its commit: no error path and no cut leaks it.    *)
LockHeldByRunning ==
  \A a \in KnownAgent :
    lock[a] # None => pc[lock[a]] \in Holding /\ req[lock[a]].arg.agent = a

(* The interleaved handlers implement the atomic ledger of GrantLedger.    *)
Ledger == INSTANCE GrantLedger

ImplementsLedger == Ledger!Spec

(* Every request that passed the rate limiter is answered: no crossing of  *)
(* waits, errors and cut handlers leaves an agent's row locked for good.   *)
RequestsAnswered ==
  \A r \in Request : pc[r] = "lock" ~> pc[r] \in Ended

-----------------------------------------------------------------------------
(* What makes the safety properties inductive. *)

(* The holder of a row lock, seen from the request. *)
HoldersLocked ==
  \A r \in Request : pc[r] \in Holding =>
    /\ req[r].arg.agent \in KnownAgent
    /\ lock[req[r].arg.agent] = r

(* A request past BindAccount has passed the policy and owns its account.  *)
BoundWithinPolicy ==
  \A r \in Request : pc[r] \in {"count", "commit"} =>
    /\ PolicyError(r) = "none"
    /\ req[r].account \in OwnAccounts(r)
    /\ req[r].now <= clock

(* The count a request has taken stays an upper bound until it commits. *)
CountStillHolds ==
  \A r \in Request : pc[r] = "commit" => Cardinality(Competing(r)) < MaxActive

(* What a handler is about to write to Redis is about a committed row. *)
WritesAboutRows ==
  /\ \A r \in Request : pc[r] = "cache" => req[r].grant \in Issued
  /\ \A v \in Revoker : rpc[v] = "update" => rev[v].grant \in Issued /\ rev[v].at <= clock

IndInv ==
  /\ TypeOK
  /\ HoldersLocked
  /\ LockHeldByRunning
  /\ BoundWithinPolicy
  /\ CountStillHolds
  /\ WritesAboutRows
  /\ ActiveLimit
  /\ TenantIsolation
  /\ CacheBehindDB
  /\ RevocationDurable
==============================================================================
