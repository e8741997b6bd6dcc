----------------------------- MODULE GrantLedger -----------------------------
(***************************************************************************)
(* What credbroker/grants promises, without its locks, sessions and cache: *)
(* a ledger of grants in which issuing a grant is ONE step that respects   *)
(* the agent's policy and the active-grant limit, and in which a revoked   *)
(* grant stays revoked and no other column of a row ever changes.          *)
(* GrantService is shown to implement this specification.                  *)
(***************************************************************************)
EXTENDS Naturals, FiniteSets

CONSTANTS
  KnownAgent,       \* ids of the rows of the agents table
  KnownTool,        \* names in TOOL_REGISTRY
  Account,          \* ids that connected accounts can have
  GrantId,          \* ids that grants can have
  AgentUser,        \* AgentUser[a]: the user agent a acts for
  AllowedTools,     \* AllowedTools[a]: agents.allowed_scopes
  ToolScope,        \* ToolScope[t]: the action class of tool t
  ToolProvider,     \* ToolProvider[t]: the provider tool t calls
  AccountUser,      \* AccountUser[c]: the owner of account c
  AccountProvider,  \* AccountProvider[c]: the provider of account c
  MaxActive,        \* settings.max_active_grants_per_agent_scope
  TTL,              \* settings.grant_token_ttl_seconds
  None              \* NULL

VARIABLES
  clock,            \* the current time
  grants            \* grants[g]: the row with id g, None if there is none

vars == <<clock, grants>>

Issued == {g \in GrantId : grants[g] # None}

(* The grants the active-grant count counts at time now. *)
Active(a, t, s, now) ==
  {g \in Issued : /\ grants[g].agent = a
                  /\ grants[g].tool = t
                  /\ grants[g].scope = s
                  /\ grants[g].revoked = None
                  /\ grants[g].expires > now}

(* A grant is only ever bound to an account of the agent's own user, with  *)
(* the tool's provider, for a tool and scope the agent's policy allows.    *)
WithinPolicy(row) ==
  /\ row.agent \in KnownAgent
  /\ row.tool \in KnownTool \cap AllowedTools[row.agent]
  /\ row.scope = ToolScope[row.tool]
  /\ row.account \in Account
  /\ AccountUser[row.account] = AgentUser[row.agent]
  /\ AccountProvider[row.account] = ToolProvider[row.tool]

Init ==
  /\ clock = 0
  /\ grants = [g \in GrantId |-> None]

Tick ==
  /\ clock' = clock + 1
  /\ UNCHANGED grants

Issue(g, a, t, c, now) ==
  LET row == [agent |-> a, tool |-> t, scope |-> ToolScope[t], account |-> c,
              issued |-> now, expires |-> now + TTL, revoked |-> None]
  IN  /\ grants[g] = None
      /\ now <= clock
      /\ WithinPolicy(row)
      /\ Cardinality(Active(a, t, ToolScope[t], clock)) < MaxActive
      /\ grants' = [grants EXCEPT ![g] = row]
      /\ UNCHANGED clock

Revoke(g, at) ==
  /\ grants[g] # None
  /\ at <= clock
  /\ grants' = [grants EXCEPT ![g].revoked = at]
  /\ UNCHANGED clock

Next ==
  \/ Tick
  \/ \E g \in GrantId, a \in KnownAgent, t \in KnownTool, c \in Account,
        now \in 0..clock : Issue(g, a, t, c, now)
  \/ \E g \in GrantId, at \in 0..clock : Revoke(g, at)

Spec == Init /\ [][Next]_vars
==============================================================================
