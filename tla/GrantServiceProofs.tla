------------------------- MODULE GrantServiceProofs -------------------------
(***************************************************************************)
(* Proofs about GrantService, for any number of handlers, agents, tools,   *)
(* accounts and grants.  IndInv is shown to be inductive one conjunct at a *)
(* time; each lemma below is the preservation of one conjunct (or of a     *)
(* group that moves together) by every action of Next.                     *)
(***************************************************************************)
EXTENDS GrantService, FiniteSetTheorems, TLAPS

(* Sets of grants are finite, so they can be counted and compared. *)
LEMMA CountSubset ==
  ASSUME NEW S \in SUBSET GrantId, NEW T \in SUBSET S
  PROVE  /\ Cardinality(S) \in Nat
         /\ Cardinality(T) \in Nat
         /\ Cardinality(T) <= Cardinality(S)
  BY FS_Subset, FS_CardinalityType, FiniteAssumption

(* One more grant raises a count by at most one. *)
LEMMA CountOneMore ==
  ASSUME NEW S \in SUBSET GrantId, NEW g \in GrantId, NEW T \in SUBSET (S \cup {g})
  PROVE  /\ Cardinality(S) \in Nat
         /\ Cardinality(T) \in Nat
         /\ Cardinality(T) <= Cardinality(S) + 1
<1>1. IsFiniteSet(S)
  BY FS_Subset, FiniteAssumption
<1>2. S \cup {g} \in SUBSET GrantId
  OBVIOUS
<1>3. Cardinality(S) \in Nat
  BY <1>1, FS_CardinalityType
<1>a. Cardinality(S \cup {g}) = IF g \in S THEN Cardinality(S) ELSE Cardinality(S) + 1
  BY <1>1, FS_AddElement
<1>4. Cardinality(T) <= Cardinality(S \cup {g}) /\ Cardinality(T) \in Nat
      /\ Cardinality(S \cup {g}) \in Nat
  BY <1>2, CountSubset
<1> QED
  BY <1>3, <1>a, <1>4

(* An error of the policy checks is one of the denials. *)
LEMMA PolicyErrorType ==
  ASSUME NEW r \in Request
  PROVE  PolicyError(r) \in Denials \cup {"none"}
  BY DEF PolicyError, Denials

(* The row a request inserts is a well-formed row. *)
LEMMA NewRowType ==
  ASSUME TypeOK, HoldersLocked, BoundWithinPolicy,
         NEW r \in Request, pc[r] = "commit"
  PROVE  NewRow(r) \in GrantRow
<1>1. req[r] \in Locals
  BY DEF TypeOK
<1>2. req[r].now \in Nat /\ req[r].now + TTL \in Nat
  BY <1>1, NumbersAssumption DEF Locals
<1>3. req[r].arg.agent \in KnownAgent
  BY DEF HoldersLocked, Holding
<1>4. req[r].account \in Account
  BY DEF BoundWithinPolicy, OwnAccounts
<1>5. req[r].arg.tool \in KnownTool /\ req[r].arg.scope = ToolScope[req[r].arg.tool]
  BY DEF BoundWithinPolicy, PolicyError
<1>6. req[r].arg.scope \in Scope
  BY <1>5, TablesAssumption
<1> QED
  BY <1>2, <1>3, <1>4, <1>5, <1>6 DEF NewRow, GrantRow

(* Unlock keeps the lock table well formed. *)
LEMMA UnlockType ==
  ASSUME TypeOK, NEW r \in Request
  PROVE  Unlock(r) \in [KnownAgent -> Request \cup {None}]
  BY DEF TypeOK, Unlock

LEMMA TypeInit == Init => TypeOK
  BY DEF Init, TypeOK, Locals, RevokeLocals, Running, Ended, Revoking, RevokeEnded

LEMMA TypeNext ==
  ASSUME TypeOK, HoldersLocked, BoundWithinPolicy, WritesAboutRows, [Next]_vars
  PROVE  TypeOK'
<1> USE DEF TypeOK, Running, Ended, Denials, Holding, Revoking, RevokeEnded, dbVars, redisVars
<1>1. ASSUME NEW r \in Request, CheckRate(r) PROVE TypeOK'
  BY <1>1 DEF CheckRate
<1>2. ASSUME NEW r \in Request, LockAgent(r) PROVE TypeOK'
  BY <1>2, UnlockType DEF LockAgent, End
<1>3. ASSUME NEW r \in Request, BindAccount(r) PROVE TypeOK'
  <2>1. CASE UNCHANGED req
    BY <1>3, <2>1, UnlockType, PolicyErrorType DEF BindAccount, End
  <2>2. ASSUME NEW c \in Newest(OwnAccounts(r)),
               req' = [req EXCEPT ![r] = [@ EXCEPT !.account = c, !.now = clock]]
        PROVE  req' \in [Request -> Locals]
    BY <2>2 DEF Newest, OwnAccounts, Locals
  <2>3. CASE \E c \in Newest(OwnAccounts(r)) :
               req' = [req EXCEPT ![r] = [@ EXCEPT !.account = c, !.now = clock]]
    <3>1. req' \in [Request -> Locals]
      BY <2>2, <2>3
    <3>2. CASE pc' = [pc EXCEPT ![r] = "count"] /\ UNCHANGED lock
      BY <1>3, <3>1, <3>2 DEF BindAccount
    <3>3. CASE UNCHANGED req
      BY <2>1, <3>3
    <3> QED
      BY <1>3, <3>2, <3>3 DEF BindAccount
  <2> QED
    BY <1>3, <2>1, <2>3 DEF BindAccount
<1>4. ASSUME NEW r \in Request, CountActive(r) PROVE TypeOK'
  BY <1>4, UnlockType DEF CountActive, End
<1>5. ASSUME NEW r \in Request, NEW g \in GrantId, CommitGrant(r, g) PROVE TypeOK'
  <2>1. NewRow(r) \in GrantRow
    BY <1>5, NewRowType DEF CommitGrant
  <2>2. req' \in [Request -> Locals]
    BY <1>5 DEF CommitGrant, Locals
  <2> QED
    BY <1>5, <2>1, <2>2, UnlockType DEF CommitGrant, End
<1>6. ASSUME NEW r \in Request, RecordIssued(r) PROVE TypeOK'
  BY <1>6 DEF RecordIssued, WritesAboutRows, Issued
<1>7. ASSUME NEW r \in Request, CutRequest(r) PROVE TypeOK'
  BY <1>7, UnlockType DEF CutRequest, End
<1>8. ASSUME NEW v \in Revoker, LoadGrant(v) PROVE TypeOK'
  <2>1. rev' \in [Revoker -> RevokeLocals]
    BY <1>8 DEF LoadGrant, RevokeLocals
  <2> QED
    BY <1>8, <2>1 DEF LoadGrant
<1>9. ASSUME NEW v \in Revoker, UpdateRevoked(v) PROVE TypeOK'
  <2>1. rev[v].grant \in Issued /\ rev[v].at \in Nat
    BY <1>9 DEF UpdateRevoked, WritesAboutRows, RevokeLocals
  <2>2. RevokedRow(v) \in GrantRow
    BY <2>1 DEF RevokedRow, GrantRow, Issued
  <2> QED
    BY <1>9, <2>2 DEF UpdateRevoked
<1>10. ASSUME NEW v \in Revoker, MarkRevoked(v) PROVE TypeOK'
  BY <1>10 DEF MarkRevoked, MarkableAt, RevokeLocals
<1>11. ASSUME NEW v \in Revoker, UnmarkIssued(v) PROVE TypeOK'
  BY <1>11 DEF UnmarkIssued
<1>12. ASSUME NEW v \in Revoker, CutRevoker(v) PROVE TypeOK'
  BY <1>12 DEF CutRevoker
<1>13. ASSUME NEW c \in Account, ConnectAccount(c) PROVE TypeOK'
  BY <1>13 DEF ConnectAccount
<1>14. ASSUME NEW g \in GrantId, LoseKey(g) PROVE TypeOK'
  BY <1>14 DEF LoseKey
<1>15. CASE Tick
  BY <1>15 DEF Tick
<1>16. CASE UNCHANGED vars
  BY <1>16 DEF vars
<1> QED
  BY <1>1, <1>2, <1>3, <1>4, <1>5, <1>6, <1>7, <1>8, <1>9, <1>10, <1>11, <1>12,
     <1>13, <1>14, <1>15, <1>16 DEF Next, RequestStep, RevokerStep
-----------------------------------------------------------------------------
(* The row lock. *)

(* The request that holds a lock holds only its own agent's. *)
LEMMA UnlockEffect ==
  ASSUME TypeOK, HoldersLocked, LockHeldByRunning, NEW r \in Request,
         lock' = Unlock(r), UNCHANGED req, NEW o, o \notin Holding,
         pc' = [pc EXCEPT ![r] = o]
  PROVE  HoldersLocked' /\ LockHeldByRunning'
<1>1. ASSUME NEW q \in Request, pc'[q] \in Holding
      PROVE  req'[q].arg.agent \in KnownAgent /\ lock'[req'[q].arg.agent] = q
  BY <1>1 DEF TypeOK, Unlock, HoldersLocked
<1>2. ASSUME NEW a \in KnownAgent, lock'[a] # None
      PROVE  pc'[lock'[a]] \in Holding /\ req'[lock'[a]].arg.agent = a
  BY <1>2 DEF TypeOK, Unlock, LockHeldByRunning
<1> QED
  BY <1>1, <1>2 DEF HoldersLocked, LockHeldByRunning

LEMMA LockNext ==
  ASSUME TypeOK, HoldersLocked, LockHeldByRunning, [Next]_vars
  PROVE  HoldersLocked' /\ LockHeldByRunning'
<1> USE DEF dbVars, redisVars, Holding
<1>1. ASSUME NEW r \in Request, CheckRate(r) PROVE HoldersLocked' /\ LockHeldByRunning'
  BY <1>1 DEF CheckRate, TypeOK, HoldersLocked, LockHeldByRunning
<1>2. ASSUME NEW r \in Request, LockAgent(r) PROVE HoldersLocked' /\ LockHeldByRunning'
  <2>1. CASE req[r].arg.agent \notin KnownAgent
    BY <1>2, <2>1, UnlockEffect DEF LockAgent, End
  <2>2. CASE req[r].arg.agent \in KnownAgent
    BY <1>2, <2>2, NoneAssumption DEF LockAgent, LockFree, TypeOK, HoldersLocked, LockHeldByRunning
  <2> QED
    BY <2>1, <2>2
<1>3. ASSUME NEW r \in Request, BindAccount(r) PROVE HoldersLocked' /\ LockHeldByRunning'
  <2>1. CASE UNCHANGED req /\ \E o \in Denials \cup {"none"} : End(r, o)
    BY <2>1, UnlockEffect DEF End, Denials
  <2>2. ASSUME NEW c, req' = [req EXCEPT ![r] = [@ EXCEPT !.account = c, !.now = clock]],
               pc' = [pc EXCEPT ![r] = "count"], UNCHANGED lock
        PROVE  HoldersLocked' /\ LockHeldByRunning'
    <3>1. \A q \in Request : req'[q].arg = req[q].arg
      BY <2>2 DEF TypeOK, Locals
    <3>2. pc[r] = "bind"
      BY <1>3 DEF BindAccount
    <3>3. \A q \in Request : pc'[q] \in Holding <=> pc[q] \in Holding
      BY <2>2, <3>2 DEF TypeOK
    <3> QED
      BY <2>2, <3>1, <3>3 DEF TypeOK, HoldersLocked, LockHeldByRunning
  <2> QED
    BY <1>3, <2>1, <2>2, PolicyErrorType DEF BindAccount, Denials
<1>4. ASSUME NEW r \in Request, CountActive(r) PROVE HoldersLocked' /\ LockHeldByRunning'
  <2>1. CASE End(r, "ConcurrencyLimit")
    BY <1>4, <2>1, UnlockEffect DEF CountActive, End
  <2>2. CASE pc' = [pc EXCEPT ![r] = "commit"] /\ UNCHANGED lock
    BY <1>4, <2>2 DEF CountActive, TypeOK, HoldersLocked, LockHeldByRunning
  <2> QED
    BY <1>4, <2>1, <2>2 DEF CountActive
<1>5. ASSUME NEW r \in Request, NEW g \in GrantId, CommitGrant(r, g)
      PROVE  HoldersLocked' /\ LockHeldByRunning'
  <2>1. \A q \in Request : req'[q].arg = req[q].arg
    BY <1>5 DEF CommitGrant, TypeOK, Locals
  <2>2. pc' = [pc EXCEPT ![r] = "cache"] /\ lock' = Unlock(r)
    BY <1>5 DEF CommitGrant, End
  <2>3. ASSUME NEW q \in Request, pc'[q] \in Holding
        PROVE  req'[q].arg.agent \in KnownAgent /\ lock'[req'[q].arg.agent] = q
    BY <2>1, <2>2, <2>3 DEF TypeOK, Unlock, HoldersLocked
  <2>4. ASSUME NEW a \in KnownAgent, lock'[a] # None
        PROVE  pc'[lock'[a]] \in Holding /\ req'[lock'[a]].arg.agent = a
    BY <2>1, <2>2, <2>4 DEF TypeOK, Unlock, LockHeldByRunning
  <2> QED
    BY <2>3, <2>4 DEF HoldersLocked, LockHeldByRunning
<1>6. ASSUME NEW r \in Request, RecordIssued(r) PROVE HoldersLocked' /\ LockHeldByRunning'
  BY <1>6 DEF RecordIssued, TypeOK, HoldersLocked, LockHeldByRunning
<1>7. ASSUME NEW r \in Request, CutRequest(r) PROVE HoldersLocked' /\ LockHeldByRunning'
  BY <1>7, UnlockEffect DEF CutRequest, End
<1>8. CASE UNCHANGED <<lock, pc, req>>
  BY <1>8 DEF HoldersLocked, LockHeldByRunning
<1> QED
  BY <1>1, <1>2, <1>3, <1>4, <1>5, <1>6, <1>7, <1>8
  DEF Next, RequestStep, RevokerStep, LoadGrant, UpdateRevoked, MarkRevoked, UnmarkIssued,
      CutRevoker, ConnectAccount, LoseKey, Tick, vars
-----------------------------------------------------------------------------
(* Frames: what any step of the system leaves alone. *)

LEMMA EnvironmentGrows ==
  ASSUME TypeOK, [Next]_vars
  PROVE  /\ clock' \in Nat /\ clock' >= clock
         /\ \A c \in Account : created[c] # None => created'[c] = created[c]
<1> USE DEF dbVars, TypeOK
<1>1. CASE Tick
  BY <1>1 DEF Tick
<1>2. ASSUME NEW c \in Account, ConnectAccount(c)
      PROVE  /\ clock' \in Nat /\ clock' >= clock
             /\ \A d \in Account : created[d] # None => created'[d] = created[d]
  BY <1>2 DEF ConnectAccount
<1>3. CASE UNCHANGED <<clock, created>>
  BY <1>3
<1> QED
  BY <1>1, <1>2, <1>3
  DEF Next, RequestStep, RevokerStep, CheckRate, LockAgent, BindAccount, CountActive,
      CommitGrant, RecordIssued, CutRequest, LoadGrant, UpdateRevoked, MarkRevoked,
      UnmarkIssued, CutRevoker, LoseKey, vars

(* The grants table changes in two places only. *)
LEMMA TableStep ==
  ASSUME [Next]_vars
  PROVE  \/ UNCHANGED grants
         \/ \E r \in Request, g \in GrantId : CommitGrant(r, g)
         \/ \E v \in Revoker : UpdateRevoked(v)
  BY DEF Next, RequestStep, RevokerStep, CheckRate, LockAgent, BindAccount, CountActive,
         RecordIssued, CutRequest, LoadGrant, MarkRevoked,
         UnmarkIssued, CutRevoker, ConnectAccount, LoseKey, Tick, vars, dbVars

(* A request keeps its arguments, and its locals once they are bound. *)
LEMMA RequestFrame ==
  ASSUME TypeOK, [Next]_vars, NEW q \in Request
  PROVE  /\ req'[q].arg = req[q].arg
         /\ pc'[q] \in {"count", "commit"} =>
              \/ pc[q] \in {"count", "commit"} /\ req'[q] = req[q]
              \/ pc'[q] = "count" /\ BindAccount(q)
         /\ pc'[q] = "commit" => pc[q] = "commit" \/ CountActive(q)
<1> USE DEF TypeOK, Locals, dbVars
<1> DEFINE Goal == /\ req'[q].arg = req[q].arg
                   /\ pc'[q] \in {"count", "commit"} =>
                        \/ pc[q] \in {"count", "commit"} /\ req'[q] = req[q]
                        \/ pc'[q] = "count" /\ BindAccount(q)
                   /\ pc'[q] = "commit" => pc[q] = "commit" \/ CountActive(q)
<1>1. ASSUME NEW r \in Request, CheckRate(r) PROVE Goal
  BY <1>1 DEF CheckRate
<1>2. ASSUME NEW r \in Request, LockAgent(r) PROVE Goal
  BY <1>2 DEF LockAgent, End
<1>3. ASSUME NEW r \in Request, BindAccount(r) PROVE Goal
  <2>1. pc[r] = "bind" /\ (\A x \in Request : x # r => pc'[x] = pc[x] /\ req'[x] = req[x])
    BY <1>3 DEF BindAccount, End
  <2>2. req'[r].arg = req[r].arg
    <3>1. ASSUME NEW c, req' = [req EXCEPT ![r] = [@ EXCEPT !.account = c, !.now = clock]]
          PROVE  req'[r].arg = req[r].arg
      BY <3>1
    <3> QED
      BY <1>3, <3>1 DEF BindAccount
  <2>3. pc'[r] \in {"count", "commit"} => pc'[r] = "count"
    BY <1>3, PolicyErrorType DEF BindAccount, End, Denials
  <2>4. CASE r = q
    BY <1>3, <2>2, <2>3, <2>4
  <2>5. CASE r # q
    BY <2>1, <2>5
  <2> QED
    BY <2>4, <2>5
<1>4. ASSUME NEW r \in Request, CountActive(r) PROVE Goal
  <2>1. pc[r] = "count" /\ (\A x \in Request : x # r => pc'[x] = pc[x]) /\ UNCHANGED req
    BY <1>4 DEF CountActive, End
  <2>2. CASE r = q
    BY <1>4, <2>1, <2>2
  <2>3. CASE r # q
    BY <2>1, <2>3
  <2> QED
    BY <2>2, <2>3
<1>5. ASSUME NEW r \in Request, NEW g \in GrantId, CommitGrant(r, g) PROVE Goal
  BY <1>5 DEF CommitGrant, End
<1>6. ASSUME NEW r \in Request, RecordIssued(r) PROVE Goal
  BY <1>6 DEF RecordIssued
<1>7. ASSUME NEW r \in Request, CutRequest(r) PROVE Goal
  BY <1>7 DEF CutRequest, End
<1>8. CASE UNCHANGED <<pc, req>>
  BY <1>8
<1> QED
  BY <1>1, <1>2, <1>3, <1>4, <1>5, <1>6, <1>7, <1>8
  DEF Next, RequestStep, RevokerStep, LoadGrant, UpdateRevoked, MarkRevoked, UnmarkIssued,
      CutRevoker, ConnectAccount, LoseKey, Tick, vars

-----------------------------------------------------------------------------
(* Counting active grants across a step. *)

(* Time passing, and a revocation, only take grants out of the count. *)
LEMMA ActiveShrinks ==
  ASSUME TypeOK, WritesAboutRows,
         UNCHANGED grants \/ \E v \in Revoker : UpdateRevoked(v),
         NEW a, NEW t, NEW s, NEW n \in Nat, NEW m \in Nat, n <= m
  PROVE  Active(a, t, s, m)' \subseteq Active(a, t, s, n)
<1>1. \A g \in Issued : grants[g].expires \in Nat
  BY DEF TypeOK, Issued, GrantRow
<1>2. CASE UNCHANGED grants
  BY <1>1, <1>2 DEF Active, Issued
<1>3. ASSUME NEW v \in Revoker, UpdateRevoked(v)
      PROVE  Active(a, t, s, m)' \subseteq Active(a, t, s, n)
  <2>1. rev[v].at \in Nat /\ rev[v].at # None /\ rev[v].grant \in Issued
    BY <1>3, NoneAssumption DEF UpdateRevoked, WritesAboutRows, TypeOK, RevokeLocals
  <2>2. grants[rev[v].grant] \in GrantRow
    BY <2>1 DEF TypeOK, Issued
  <2>3. RevokedRow(v).revoked # None
    BY <2>1, <2>2 DEF RevokedRow, GrantRow
  <2>4. \A g \in GrantId : g # rev[v].grant => grants'[g] = grants[g]
    BY <1>3 DEF UpdateRevoked, TypeOK
  <2>5. grants'[rev[v].grant] = RevokedRow(v)
    BY <1>3, <2>1 DEF UpdateRevoked, TypeOK, Issued
  <2> QED
    BY <1>1, <2>3, <2>4, <2>5 DEF Active, Issued
<1> QED
  BY <1>2, <1>3

(* A commit adds the new grant to its own count, and to no other. *)
LEMMA ActiveAfterCommit ==
  ASSUME TypeOK, NEW r \in Request, NEW g \in GrantId, CommitGrant(r, g),
         NEW a, NEW t, NEW s, NEW n \in Nat, NEW m \in Nat, n <= m
  PROVE  /\ Active(a, t, s, m)' \subseteq Active(a, t, s, n) \cup {g}
         /\ \/ a # req[r].arg.agent
            \/ t # req[r].arg.tool
            \/ s # req[r].arg.scope
            => Active(a, t, s, m)' \subseteq Active(a, t, s, n)
<1>1. \A h \in Issued : grants[h].expires \in Nat
  BY DEF TypeOK, Issued, GrantRow
<1>2. \A h \in GrantId : h # g => grants'[h] = grants[h]
  BY DEF CommitGrant, TypeOK
<1>3. /\ grants'[g].agent = req[r].arg.agent
      /\ grants'[g].tool = req[r].arg.tool
      /\ grants'[g].scope = req[r].arg.scope
  BY DEF CommitGrant, TypeOK, NewRow
<1> QED
  BY <1>1, <1>2, <1>3 DEF Active, Issued
-----------------------------------------------------------------------------
(* The remaining conjuncts of IndInv. *)

LEMMA BoundNext ==
  ASSUME TypeOK, BoundWithinPolicy, [Next]_vars
  PROVE  BoundWithinPolicy'
<1> SUFFICES ASSUME NEW q \in Request, pc'[q] \in {"count", "commit"}
             PROVE  /\ PolicyError(q)' = "none"
                    /\ req'[q].account \in OwnAccounts(q)'
                    /\ req'[q].now <= clock'
  BY DEF BoundWithinPolicy
<1>1. clock \in Nat /\ clock' \in Nat /\ clock' >= clock
  BY EnvironmentGrows DEF TypeOK
<1>2. req'[q].arg = req[q].arg
  BY RequestFrame
<1>3. PolicyError(q)' = PolicyError(q)
  BY <1>2 DEF PolicyError
<1>4. OwnAccounts(q) \subseteq OwnAccounts(q)'
  BY <1>2, EnvironmentGrows DEF OwnAccounts
<1>5. CASE pc[q] \in {"count", "commit"} /\ req'[q] = req[q]
  <2>1. req[q].now \in Nat
    BY DEF TypeOK, Locals
  <2> QED
    BY <1>1, <1>3, <1>4, <1>5, <2>1 DEF BoundWithinPolicy
<1>6. CASE pc'[q] = "count" /\ BindAccount(q)
  <2>1. PolicyError(q) = "none" /\ clock' = clock
    BY <1>6, PolicyErrorType DEF BindAccount, End, TypeOK, Denials
  <2>2. PICK c \in Newest(OwnAccounts(q)) :
          req' = [req EXCEPT ![q] = [@ EXCEPT !.account = c, !.now = clock]]
    BY <1>6, <2>1 DEF BindAccount, End, TypeOK
  <2>3. req'[q].account = c /\ req'[q].now = clock
    BY <2>2 DEF TypeOK, Locals
  <2>4. c \in OwnAccounts(q)
    BY DEF Newest
  <2> QED
    BY <1>1, <1>3, <1>4, <2>1, <2>3, <2>4
<1> QED
  BY <1>5, <1>6, RequestFrame

LEMMA CountNext ==
  ASSUME TypeOK, HoldersLocked, BoundWithinPolicy, WritesAboutRows, CountStillHolds, [Next]_vars
  PROVE  CountStillHolds'
<1> SUFFICES ASSUME NEW q \in Request, pc'[q] = "commit"
             PROVE  Cardinality(Competing(q)') < MaxActive
  BY DEF CountStillHolds
<1>1. pc[q] \in {"count", "commit"} /\ req'[q] = req[q]
  BY RequestFrame
<1>2. PICK a, t, s, n : /\ a = req[q].arg.agent /\ t = req[q].arg.tool
                        /\ s = req[q].arg.scope /\ n = req[q].now
  OBVIOUS
<1>3. n \in Nat
  BY <1>2 DEF TypeOK, Locals
<1>4. Competing(q) = Active(a, t, s, n) /\ Competing(q)' = Active(a, t, s, n)'
  BY <1>1, <1>2 DEF Competing, Active, Issued
<1>5. CASE pc[q] = "commit"
  <2>1. Active(a, t, s, n)' \subseteq Active(a, t, s, n)
    <3>1. CASE UNCHANGED grants \/ \E v \in Revoker : UpdateRevoked(v)
      BY <1>3, <3>1, ActiveShrinks
    <3>2. ASSUME NEW r \in Request, NEW g \in GrantId, CommitGrant(r, g)
          PROVE  Active(a, t, s, n)' \subseteq Active(a, t, s, n)
      <4>1. pc[r] = "commit" /\ pc'[r] = "cache"
        BY <3>2 DEF CommitGrant, End, TypeOK
      <4>2. r # q
        BY <4>1
      <4>3. a # req[r].arg.agent
        BY <1>2, <1>5, <4>1, <4>2 DEF HoldersLocked, Holding
      <4> QED
        BY <1>3, <3>2, <4>3, ActiveAfterCommit
    <3> QED
      BY <3>1, <3>2, TableStep
  <2>2. Active(a, t, s, n) \in SUBSET GrantId
    BY DEF Active, Issued
  <2>3. /\ Cardinality(Active(a, t, s, n)) \in Nat
        /\ Cardinality(Active(a, t, s, n)') \in Nat
        /\ Cardinality(Active(a, t, s, n)') <= Cardinality(Active(a, t, s, n))
    BY <2>1, <2>2, CountSubset
  <2>4. Cardinality(Active(a, t, s, n)) < MaxActive
    BY <1>4, <1>5 DEF CountStillHolds
  <2> QED
    BY <1>4, <2>3, <2>4, NumbersAssumption
<1>6. CASE CountActive(q)
  <2>1. Cardinality(Competing(q)) < MaxActive
    BY <1>6 DEF CountActive, End, TypeOK
  <2>2. Competing(q)' = Competing(q)
    BY <1>1, <1>6 DEF CountActive, Competing, Active, Issued
  <2> QED
    BY <2>1, <2>2
<1> QED
  BY <1>5, <1>6, RequestFrame

LEMMA LimitNext ==
  ASSUME TypeOK, HoldersLocked, BoundWithinPolicy, WritesAboutRows, CountStillHolds,
         ActiveLimit, [Next]_vars
  PROVE  ActiveLimit'
<1> SUFFICES ASSUME NEW a \in KnownAgent, NEW t \in KnownTool, NEW s \in Scope
             PROVE  Cardinality(Active(a, t, s, clock)') <= MaxActive
  BY DEF ActiveLimit
<1>1. PICK n, m : n = clock /\ m = clock'
  OBVIOUS
<1>2. n \in Nat /\ m \in Nat /\ n <= m
  BY <1>1, EnvironmentGrows DEF TypeOK
<1>3. Active(a, t, s, clock) = Active(a, t, s, n) /\ Active(a, t, s, clock)' = Active(a, t, s, m)'
  BY <1>1 DEF Active, Issued
<1>4. Cardinality(Active(a, t, s, n)) <= MaxActive
  BY <1>3 DEF ActiveLimit
<1>5. \A k : Active(a, t, s, k) \in SUBSET GrantId
  BY DEF Active, Issued
<1>6. CASE Active(a, t, s, m)' \subseteq Active(a, t, s, n)
  BY <1>3, <1>4, <1>5, <1>6, CountSubset, NumbersAssumption
<1>7. ASSUME NEW r \in Request, NEW g \in GrantId, CommitGrant(r, g),
             a = req[r].arg.agent, t = req[r].arg.tool, s = req[r].arg.scope
      PROVE  Cardinality(Active(a, t, s, clock)') <= MaxActive
  <2>1. PICK k : k = req[r].now
    OBVIOUS
  <2>2. pc[r] = "commit" /\ k \in Nat /\ k <= n /\ clock' = clock
    BY <1>1, <1>7, <2>1 DEF CommitGrant, TypeOK, Locals, BoundWithinPolicy
  <2>3. Competing(r) = Active(a, t, s, k)
    BY <1>7, <2>1 DEF Competing
  <2>4. Cardinality(Active(a, t, s, k)) < MaxActive
    BY <2>2, <2>3 DEF CountStillHolds
  <2>5. Active(a, t, s, m)' \subseteq Active(a, t, s, k) \cup {g}
    BY <1>1, <1>2, <1>7, <2>2, ActiveAfterCommit
  <2>6. /\ Cardinality(Active(a, t, s, k)) \in Nat
        /\ Cardinality(Active(a, t, s, m)') \in Nat
        /\ Cardinality(Active(a, t, s, m)') <= Cardinality(Active(a, t, s, k)) + 1
    BY <1>5, <2>5, CountOneMore
  <2> QED
    BY <1>3, <2>4, <2>6, NumbersAssumption
<1>8. CASE UNCHANGED grants \/ \E v \in Revoker : UpdateRevoked(v)
  BY <1>2, <1>6, <1>8, ActiveShrinks
<1>9. ASSUME NEW r \in Request, NEW g \in GrantId, CommitGrant(r, g),
             a # req[r].arg.agent \/ t # req[r].arg.tool \/ s # req[r].arg.scope
      PROVE  Cardinality(Active(a, t, s, clock)') <= MaxActive
  BY <1>2, <1>6, <1>9, ActiveAfterCommit
<1> QED
  BY <1>7, <1>8, <1>9, TableStep
(* A committed row stays, keeps its columns, and is never un-revoked. *)
LEMMA RowsStay ==
  ASSUME TypeOK, HoldersLocked, BoundWithinPolicy, WritesAboutRows, [Next]_vars,
         NEW g \in Issued
  PROVE  /\ g \in Issued'
         /\ grants'[g].agent = grants[g].agent
         /\ grants'[g].tool = grants[g].tool
         /\ grants'[g].account = grants[g].account
         /\ IsRevoked(g) => IsRevoked(g)'
<1>1. g \in GrantId /\ grants[g] \in GrantRow
  BY DEF TypeOK, Issued
<1>2. CASE UNCHANGED grants
  BY <1>2 DEF Issued, IsRevoked
<1>3. ASSUME NEW r \in Request, NEW h \in GrantId, CommitGrant(r, h)
      PROVE  grants'[g] = grants[g]
  BY <1>1, <1>3 DEF CommitGrant, TypeOK, Issued
<1>4. ASSUME NEW v \in Revoker, UpdateRevoked(v), rev[v].grant = g
      PROVE  /\ grants'[g] \in GrantRow /\ grants'[g].revoked # None
             /\ grants'[g].agent = grants[g].agent
             /\ grants'[g].tool = grants[g].tool
             /\ grants'[g].account = grants[g].account
  <2>1. rev[v].at \in Nat /\ rev[v].at # None
    BY NoneAssumption DEF TypeOK, RevokeLocals
  <2>2. grants'[g] = [grants[g] EXCEPT !.revoked = rev[v].at]
    BY <1>1, <1>4 DEF UpdateRevoked, RevokedRow, TypeOK
  <2> QED
    BY <1>1, <2>1, <2>2 DEF GrantRow
<1>5. ASSUME NEW v \in Revoker, UpdateRevoked(v), rev[v].grant # g
      PROVE  grants'[g] = grants[g]
  BY <1>1, <1>5 DEF UpdateRevoked, TypeOK
<1>6. None \notin GrantRow
  BY NoneAssumption
<1> QED
  BY <1>1, <1>2, <1>3, <1>4, <1>5, <1>6, TableStep DEF Issued, IsRevoked

LEMMA IsolationNext ==
  ASSUME TypeOK, HoldersLocked, BoundWithinPolicy, WritesAboutRows, TenantIsolation, [Next]_vars
  PROVE  TenantIsolation'
<1> SUFFICES ASSUME NEW g \in Issued'
             PROVE  /\ AccountUser[grants'[g].account] = AgentUser[grants'[g].agent]
                    /\ AccountProvider[grants'[g].account] = ToolProvider[grants'[g].tool]
                    /\ created'[grants'[g].account] # None
  BY DEF TenantIsolation
<1>1. CASE g \in Issued
  <2>1. grants[g].account \in Account
    BY <1>1 DEF TypeOK, Issued, GrantRow
  <2> QED
    BY <1>1, <2>1, RowsStay, EnvironmentGrows DEF TenantIsolation
<1>2. CASE g \notin Issued
  <2>1. PICK r \in Request : CommitGrant(r, g)
    <3>1. g \in GrantId /\ grants[g] = None /\ grants'[g] # None
      BY <1>2 DEF Issued
    <3>2. ASSUME NEW v \in Revoker, UpdateRevoked(v) PROVE FALSE
      BY <3>1, <3>2 DEF UpdateRevoked, WritesAboutRows, Issued, TypeOK
    <3>3. ASSUME NEW r \in Request, NEW h \in GrantId, CommitGrant(r, h) PROVE h = g
      BY <3>1, <3>3 DEF CommitGrant, TypeOK
    <3> QED
      BY <3>1, <3>2, <3>3, TableStep
  <2>2. pc[r] = "commit" /\ grants'[g] = NewRow(r) /\ created' = created /\ g \in GrantId
    BY <2>1 DEF CommitGrant, TypeOK, Issued
  <2>3. req[r].account \in OwnAccounts(r)
    BY <2>2 DEF BoundWithinPolicy
  <2> QED
    BY <2>2, <2>3 DEF OwnAccounts, NewRow
<1> QED
  BY <1>1, <1>2

LEMMA CacheNext ==
  ASSUME TypeOK, HoldersLocked, BoundWithinPolicy, WritesAboutRows, CacheBehindDB,
         RevocationDurable, [Next]_vars
  PROVE  WritesAboutRows' /\ CacheBehindDB' /\ RevocationDurable'
<1> DEFINE Goal == WritesAboutRows' /\ CacheBehindDB' /\ RevocationDurable'
<1> USE DEF dbVars, redisVars
<1>1. Issued \subseteq Issued' /\ \A g \in GrantId : IsRevoked(g) => IsRevoked(g)'
  BY RowsStay DEF IsRevoked
<1>2. clock \in Nat /\ clock' \in Nat /\ clock' >= clock
  BY EnvironmentGrows DEF TypeOK
<1>3. \A v \in Revoker : rev[v].at \in Nat /\ rev[v].grant \in GrantId
  BY DEF TypeOK, RevokeLocals
<1>4. issuedKey \subseteq GrantId /\ revokedKey \subseteq GrantId
  BY DEF TypeOK
<1> USE DEF WritesAboutRows, CacheBehindDB, RevocationDurable
<1>5. CASE UNCHANGED <<rpc, rev, issuedKey, revokedKey, req>>
           /\ \A r \in Request : pc'[r] = "cache" => pc[r] = "cache"
  BY <1>1, <1>2, <1>3, <1>4, <1>5
<1>6. ASSUME NEW r \in Request, BindAccount(r) PROVE Goal
  <2>1. \A q \in Request : pc'[q] = "cache" => pc[q] = "cache" /\ req'[q] = req[q]
    BY <1>6, PolicyErrorType DEF BindAccount, End, Denials, TypeOK
  <2> QED
    BY <1>1, <1>2, <1>3, <1>4, <1>6, <2>1 DEF BindAccount
<1>7. ASSUME NEW r \in Request, NEW g \in GrantId, CommitGrant(r, g) PROVE Goal
  <2>1. g \in Issued'
    <3>1. grants'[g] \in GrantRow
      BY <1>7, NewRowType DEF CommitGrant, TypeOK
    <3> QED
      BY <3>1, NoneAssumption DEF Issued
  <2>2. \A q \in Request : pc'[q] = "cache" =>
          (q = r /\ req'[q].grant = g) \/ (pc[q] = "cache" /\ req'[q] = req[q])
    BY <1>7 DEF CommitGrant, End, TypeOK, Locals
  <2> QED
    BY <1>1, <1>2, <1>3, <1>4, <1>7, <2>1, <2>2 DEF CommitGrant
<1>8. ASSUME NEW r \in Request, RecordIssued(r) PROVE Goal
  BY <1>1, <1>2, <1>3, <1>4, <1>8 DEF RecordIssued, TypeOK
<1>9. ASSUME NEW v \in Revoker, LoadGrant(v) PROVE Goal
  <2>1. /\ rev'[v].grant = rev[v].grant /\ rev'[v].at = clock
        /\ \A w \in Revoker : w # v => rev'[w] = rev[w] /\ rpc'[w] = rpc[w]
    BY <1>9 DEF LoadGrant, TypeOK, RevokeLocals
  <2>2. /\ rpc'[v] = "update" => rev[v].grant \in Issued
        /\ rpc'[v] \in {"mark", "unmark", "revoked"} => IsRevoked(rev[v].grant)
    BY <1>9 DEF LoadGrant, TypeOK
  <2> QED
    BY <1>1, <1>2, <1>3, <1>4, <1>9, <2>1, <2>2 DEF LoadGrant
<1>10. ASSUME NEW v \in Revoker, UpdateRevoked(v) PROVE Goal
  <2>1. IsRevoked(rev[v].grant)'
    <3>1. rev[v].grant \in Issued /\ rev[v].at # None /\ rev' = rev
      BY <1>3, <1>10, NoneAssumption DEF UpdateRevoked
    <3>2. grants[rev[v].grant] \in GrantRow
      BY <3>1 DEF TypeOK, Issued
    <3>3. grants'[rev[v].grant] = RevokedRow(v)
      BY <1>3, <1>10 DEF UpdateRevoked, TypeOK
    <3>4. RevokedRow(v).revoked # None
      BY <3>1, <3>2 DEF RevokedRow, GrantRow
    <3> QED
      BY <1>1, <3>1, <3>3, <3>4 DEF IsRevoked
  <2> QED
    BY <1>1, <1>2, <1>3, <1>4, <1>10, <2>1 DEF UpdateRevoked, TypeOK
<1>11. ASSUME NEW v \in Revoker, MarkRevoked(v) PROVE Goal
  BY <1>1, <1>2, <1>3, <1>4, <1>11 DEF MarkRevoked, MarkableAt, TypeOK
<1>12. ASSUME NEW v \in Revoker, UnmarkIssued(v) PROVE Goal
  BY <1>1, <1>2, <1>3, <1>4, <1>12 DEF UnmarkIssued, TypeOK
<1>13. ASSUME NEW v \in Revoker, CutRevoker(v) PROVE Goal
  BY <1>1, <1>2, <1>3, <1>4, <1>13 DEF CutRevoker, TypeOK
<1>14. ASSUME NEW g \in GrantId, LoseKey(g) PROVE Goal
  BY <1>1, <1>2, <1>3, <1>4, <1>14 DEF LoseKey
<1>15. ASSUME NEW r \in Request, CheckRate(r) \/ LockAgent(r) \/ CountActive(r) \/ CutRequest(r)
       PROVE  Goal
  BY <1>5, <1>15 DEF CheckRate, LockAgent, CountActive, CutRequest, End, TypeOK
<1>16. CASE (\E c \in Account : ConnectAccount(c)) \/ Tick \/ UNCHANGED vars
  BY <1>5, <1>16 DEF ConnectAccount, Tick, vars
<1> QED
  BY <1>6, <1>7, <1>8, <1>9, <1>10, <1>11, <1>12, <1>13, <1>14, <1>15, <1>16
  DEF Next, RequestStep, RevokerStep
-----------------------------------------------------------------------------
(* The invariant. *)

LEMMA IndInvInit == Init => IndInv
<1> SUFFICES ASSUME Init PROVE IndInv
  OBVIOUS
<1>1. TypeOK
  BY TypeInit
<1>2. Issued = {}
  BY DEF Init, Issued
<1>3. ActiveLimit
  <2>1. \A a, t, s : Active(a, t, s, clock) = {}
    BY <1>2 DEF Active
  <2> QED
    BY <2>1, FS_EmptySet, NumbersAssumption DEF ActiveLimit
<1>4. HoldersLocked /\ LockHeldByRunning /\ BoundWithinPolicy /\ CountStillHolds
  BY DEF Init, HoldersLocked, LockHeldByRunning, BoundWithinPolicy, CountStillHolds, Holding
<1>5. WritesAboutRows /\ TenantIsolation /\ CacheBehindDB /\ RevocationDurable
  BY <1>2 DEF Init, WritesAboutRows, TenantIsolation, CacheBehindDB, RevocationDurable
<1> QED
  BY <1>1, <1>3, <1>4, <1>5 DEF IndInv

LEMMA IndInvNext == IndInv /\ [Next]_vars => IndInv'
  BY TypeNext, LockNext, BoundNext, CountNext, LimitNext, IsolationNext, CacheNext
  DEF IndInv

LEMMA Inductive == Spec => []IndInv
  BY IndInvInit, IndInvNext, PTL DEF Spec

(* Every reachable state of request_grant and revoke_grant is well typed:  *)
(* in particular each stored row names an existing agent, tool and account *)
(* (the columns request_grant fills in service.py:142-151).                *)
THEOREM TypeCorrect == Spec => []TypeOK
<1>1. IndInv => TypeOK
  BY DEF IndInv
<1> QED
  BY <1>1, Inductive, PTL

(* The row lock of service.py:79-81 does what its comment says: whatever   *)
(* the number of brokers and requests, the active-grant limit of           *)
(* service.py:125 is never exceeded.                                       *)
THEOREM LimitHolds == Spec => []ActiveLimit
<1>1. IndInv => ActiveLimit
  BY DEF IndInv
<1> QED
  BY <1>1, Inductive, PTL

(* No interleaving of connecting accounts and requesting grants binds a    *)
(* grant to another user's account (service.py:93-105).                    *)
THEOREM TenantsIsolated == Spec => []TenantIsolation
<1>1. IndInv => TenantIsolation
  BY DEF IndInv
<1> QED
  BY <1>1, Inductive, PTL

(* A revocation marker in Redis is always backed by a revoked row, so      *)
(* denying on a cache hit is safe (grants_cache.py:21-22).                 *)
THEOREM CacheHitIsSafe == Spec => []CacheBehindDB
<1>1. IndInv => CacheBehindDB
  BY DEF IndInv
<1> QED
  BY <1>1, Inductive, PTL

(* A revocation that was answered is never undone (service.py:180-188).    *)
THEOREM RevocationIsDurable == Spec => []RevocationDurable
<1>1. IndInv => RevocationDurable
  BY DEF IndInv
<1> QED
  BY <1>1, Inductive, PTL

(* No error path or cut of request_grant leaks the agent's row lock.       *)
THEOREM LockNeverLeaks == Spec => []LockHeldByRunning
<1>1. IndInv => LockHeldByRunning
  BY DEF IndInv
<1> QED
  BY <1>1, Inductive, PTL

-----------------------------------------------------------------------------
(* The refinement. *)

LEMMA SameActive == \A a, t, s, n : Ledger!Active(a, t, s, n) = Active(a, t, s, n)
  BY DEF Active, Issued, Ledger!Active, Ledger!Issued

LEMMA SameCardinality == \A S : Ledger!Cardinality(S) = Cardinality(S)
  BY Zenon DEF Cardinality, Ledger!Cardinality

(* A commit of request_grant is an atomic, policy-respecting Issue. *)
LEMMA CommitIssues ==
  ASSUME IndInv, NEW r \in Request, NEW g \in GrantId, CommitGrant(r, g)
  PROVE  Ledger!Next
<1>1. PICK a, t, c, n : /\ a = req[r].arg.agent /\ t = req[r].arg.tool
                        /\ c = req[r].account /\ n = req[r].now
  OBVIOUS
<1>2. pc[r] = "commit" /\ grants[g] = None /\ grants' = [grants EXCEPT ![g] = NewRow(r)]
      /\ clock' = clock
  BY DEF CommitGrant
<1>3. a \in KnownAgent
  BY <1>1, <1>2 DEF IndInv, HoldersLocked, Holding
<1>4. t \in KnownTool /\ t \in AllowedTools[a] /\ req[r].arg.scope = ToolScope[t]
  BY <1>1, <1>2 DEF IndInv, BoundWithinPolicy, PolicyError
<1>5. c \in Account /\ AccountUser[c] = AgentUser[a] /\ AccountProvider[c] = ToolProvider[t]
  BY <1>1, <1>2 DEF IndInv, BoundWithinPolicy, OwnAccounts
<1>6. n \in Nat /\ clock \in Nat /\ n <= clock /\ n \in 0..clock
  BY <1>1, <1>2 DEF IndInv, BoundWithinPolicy, TypeOK, Locals
<1>7. Cardinality(Active(a, t, ToolScope[t], clock)) < MaxActive
  <2>1. Competing(r) = Active(a, t, ToolScope[t], n)
    BY <1>1, <1>4 DEF Competing
  <2>2. Cardinality(Competing(r)) < MaxActive
    BY <1>2 DEF IndInv, CountStillHolds
  <2>3. \A h \in Issued : grants[h].expires \in Nat
    BY DEF IndInv, TypeOK, Issued, GrantRow
  <2>4. Active(a, t, ToolScope[t], clock) \subseteq Active(a, t, ToolScope[t], n)
    BY <1>6, <2>3 DEF Active
  <2>5. Active(a, t, ToolScope[t], n) \in SUBSET GrantId
    BY DEF Active, Issued
  <2> QED
    BY <2>1, <2>2, <2>4, <2>5, CountSubset, NumbersAssumption
<1>8. NewRow(r) = [agent |-> a, tool |-> t, scope |-> ToolScope[t], account |-> c,
                   issued |-> n, expires |-> n + TTL, revoked |-> None]
  BY <1>1, <1>4 DEF NewRow
<1>9. Ledger!Issue(g, a, t, c, n)
  BY <1>2, <1>3, <1>4, <1>5, <1>6, <1>7, <1>8, SameActive, SameCardinality
  DEF Ledger!Issue, Ledger!WithinPolicy
<1> QED
  BY <1>3, <1>4, <1>5, <1>6, <1>9 DEF Ledger!Next

(* The UPDATE of revoke_grant is an atomic Revoke. *)
LEMMA UpdateRevokes ==
  ASSUME IndInv, NEW v \in Revoker, UpdateRevoked(v)
  PROVE  Ledger!Next
<1>1. PICK g, n : g = rev[v].grant /\ n = rev[v].at
  OBVIOUS
<1>2. g \in Issued /\ n <= clock /\ n \in Nat /\ clock \in Nat
  BY <1>1 DEF IndInv, UpdateRevoked, WritesAboutRows, TypeOK, RevokeLocals
<1>3. grants' = [grants EXCEPT ![g] = [@ EXCEPT !.revoked = n]] /\ clock' = clock
  BY <1>1 DEF UpdateRevoked, RevokedRow
<1>4. g \in GrantId /\ grants[g] # None /\ n \in 0..clock
  BY <1>2 DEF Issued
<1>5. Ledger!Revoke(g, n)
  BY <1>2, <1>3, <1>4, SMTT(30) DEF Ledger!Revoke
<1> QED
  BY <1>4, <1>5 DEF Ledger!Next

LEMMA StepImplements == IndInv /\ [Next]_vars => [Ledger!Next]_(Ledger!vars)
<1> SUFFICES ASSUME IndInv, [Next]_vars PROVE [Ledger!Next]_(Ledger!vars)
  OBVIOUS
<1>1. CASE UNCHANGED <<clock, grants>>
  BY <1>1 DEF Ledger!vars
<1>2. CASE Tick
  BY <1>2 DEF Tick, dbVars, Ledger!Next, Ledger!Tick
<1> QED
  BY <1>1, <1>2, CommitIssues, UpdateRevokes
  DEF Next, RequestStep, RevokerStep, CheckRate, LockAgent, BindAccount, CountActive,
      RecordIssued, CutRequest, LoadGrant, MarkRevoked, UnmarkIssued, CutRevoker,
      ConnectAccount, LoseKey, vars, dbVars

(* The interleaved, lock-based service implements the atomic ledger: what  *)
(* request_grant and revoke_grant do over many awaits looks, in the grants *)
(* table, like one legal Issue or Revoke at a time.                        *)
THEOREM ServiceImplementsLedger == Spec => ImplementsLedger
<1>1. Init => Ledger!Init
  BY DEF Init, Ledger!Init
<1> QED
  BY <1>1, Inductive, StepImplements, PTL DEF Spec, ImplementsLedger, Ledger!Spec
=============================================================================
