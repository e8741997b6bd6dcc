------------------------ MODULE CredentialVaultProofs ------------------------
(***************************************************************************)
(* Proofs about CredentialVault, for any number of flows, callbacks,       *)
(* invocations and restarts.                                               *)
(***************************************************************************)
EXTENDS CredentialVault, TokenCipherProofs, TLAPS

Field == {"acct", "row", "presented", "access", "refresh", "refreshed", "newAccess", "newRefresh"}

(* Every task has its locals. *)
LocalsShape ==
  /\ loc = [t \in Task |-> loc[t]]
  /\ \A t \in Task : loc[t] = [x \in Field |-> loc[t][x]]

(* What a task holds in plaintext is registered. *)
HeldRegistered == \A t \in Task : Held(t) \subseteq registry

Inv == LocalsShape /\ HeldRegistered /\ OnlyMalformedLeaks

(* A step that changes one task's locals r, to ones with nothing in        *)
(* plaintext but what was held before or is registered now, is safe.       *)
LEMMA OneTask ==
  ASSUME Inv, NEW t \in Task, NEW r,
         loc' = [loc EXCEPT ![t] = r],
         r = [x \in Field |-> r[x]],
         {r.presented, r.access, r.refresh} \ {0} \subseteq registry',
         registry \subseteq registry', emitted' = emitted
  PROVE  Inv'
<1> USE DEF Inv, LocalsShape, HeldRegistered, OnlyMalformedLeaks, Held
<1>1. loc' = [u \in Task |-> IF u = t THEN r ELSE loc[u]]
  OBVIOUS
<1>2. loc'[t] = r /\ \A u \in Task \ {t} : loc'[u] = loc[u]
  BY <1>1
<1>3. LocalsShape'
  BY <1>1, <1>2
<1>4. HeldRegistered'
  BY <1>2
<1> QED
  BY <1>3, <1>4

LEMMA SameLocals ==
  ASSUME Inv, loc' = loc, registry \subseteq registry', emitted' = emitted
  PROVE  Inv'
  BY DEF Inv, LocalsShape, HeldRegistered, OnlyMalformedLeaks, Held

LEMMA NoLocalsShape ==
  /\ NoLocals = [x \in Field |-> NoLocals[x]]
  /\ NoLocals.presented = 0 /\ NoLocals.access = 0 /\ NoLocals.refresh = 0
  BY DEF NoLocals, Field

(* Fail leaves nothing in plaintext. *)
LEMMA FailSafe ==
  ASSUME Inv, NEW t \in Task, Fail(t), registry \subseteq registry', emitted' = emitted
  PROVE  Inv'
<1>1. CASE t \in Callback
  <2>1. loc' = [loc EXCEPT ![t] = NoLocals]
    BY <1>1 DEF Fail
  <2> QED
    BY <2>1, NoLocalsShape, OneTask
<1>2. CASE t \notin Callback
  <2> DEFINE r == [loc[t] EXCEPT !.presented = 0, !.access = 0, !.refresh = 0]
  <2>1. loc' = [loc EXCEPT ![t] = r]
    BY <1>2 DEF Fail
  <2>2. loc[t] = [x \in Field |-> loc[t][x]]
    BY DEF Inv, LocalsShape
  <2>3. r = [x \in Field |-> r[x]] /\ r.presented = 0 /\ r.access = 0 /\ r.refresh = 0
    BY <2>2 DEF Field
  <2> QED
    BY <2>1, <2>3, OneTask
<1> QED
  BY <1>1, <1>2

(* Parse registers both tokens as it takes them. *)
LEMMA ParseSafe ==
  ASSUME Inv, NEW t \in Task, NEW both \in BOOLEAN, Parse(t, both), emitted' = emitted
  PROVE  Inv'
<1> DEFINE access == Len(issued) + 1
           refresh == IF both THEN Len(issued) + 2 ELSE 0
           r == [loc[t] EXCEPT !.access = access, !.refresh = refresh]
<1>1. loc[t] = [x \in Field |-> loc[t][x]]
  BY DEF Inv, LocalsShape
<1>2. registry' = registry \cup {access} \cup ({refresh} \ {0})
  BY DEF Parse
<1>3. loc' = [loc EXCEPT ![t] = r]
  BY DEF Parse
<1> HIDE DEF access, refresh
<1>4. r = [x \in Field |-> r[x]] /\ r.presented = loc[t].presented
      /\ r.access = access /\ r.refresh = refresh
  BY <1>1 DEF Field
<1>5. {loc[t].presented} \ {0} \subseteq registry
  BY DEF Inv, HeldRegistered, Held
<1> HIDE DEF r
<1> QED
  BY <1>2, <1>3, <1>4, <1>5, OneTask

(* The steps of the cipher register what they return or were given. *)
LEMMA CipherSafe ==
  ASSUME Inv, NEW t \in Task,
         EncryptAccess(t) \/ EncryptRefresh(t) \/ OpenAccess(t) \/ DecryptRefresh(t)
  PROVE  Inv'
<1>0. loc[t] = [x \in Field |-> loc[t][x]] /\ Held(t) \subseteq registry
  BY DEF Inv, LocalsShape, HeldRegistered
<1>1. emitted' = emitted
  BY DEF EncryptAccess, EncryptRefresh, OpenAccess, DecryptRefresh
<1>2. CASE Fail(t) /\ registry \subseteq registry'
  BY <1>1, <1>2, FailSafe
<1>3. ASSUME NEW blob, registry \subseteq registry',
             \/ loc' = [loc EXCEPT ![t].newAccess = blob]
             \/ loc' = [loc EXCEPT ![t].newRefresh = blob]
      PROVE  Inv'
  <2>1. PICK r \in {[loc[t] EXCEPT !.newAccess = blob], [loc[t] EXCEPT !.newRefresh = blob]} :
          loc' = [loc EXCEPT ![t] = r]
    BY <1>3
  <2>2. r = [x \in Field |-> r[x]] /\ r.presented = loc[t].presented
        /\ r.access = loc[t].access /\ r.refresh = loc[t].refresh
    BY <1>0, <2>1 DEF Field
  <2> QED
    BY <1>0, <1>1, <1>3, <2>1, <2>2, OneTask DEF Held
<1>4. ASSUME NEW token, registry' = registry \cup Registers(token),
             \/ loc' = [loc EXCEPT ![t].access = token]
             \/ loc' = [loc EXCEPT ![t].presented = token, ![t].refreshed = TRUE]
      PROVE  Inv'
  <2>1. PICK r \in {[loc[t] EXCEPT !.access = token],
                    [loc[t] EXCEPT !.presented = token, !.refreshed = TRUE]} :
          loc' = [loc EXCEPT ![t] = r]
    BY <1>4
  <2>2. r = [x \in Field |-> r[x]] /\ r.presented \in {token, loc[t].presented}
        /\ r.access \in {token, loc[t].access} /\ r.refresh = loc[t].refresh
    BY <1>0, <2>1 DEF Field
  <2> QED
    BY <1>0, <1>1, <1>4, <2>1, <2>2, OneTask DEF Held, Registers
<1>5. CASE EncryptAccess(t)
  BY <1>2, <1>3, <1>5 DEF EncryptAccess
<1>6. CASE EncryptRefresh(t)
  BY <1>2, <1>3, <1>6 DEF EncryptRefresh
<1>7. CASE OpenAccess(t)
  BY <1>2, <1>4, <1>7 DEF OpenAccess
<1>8. CASE DecryptRefresh(t)
  BY <1>2, <1>4, <1>8 DEF DecryptRefresh
<1> QED
  BY <1>5, <1>6, <1>7, <1>8

LEMMA InvNext == Inv /\ [Next]_vars => Inv'
<1> SUFFICES ASSUME Inv, [Next]_vars PROVE Inv'
  OBVIOUS
<1>1. ASSUME NEW f \in Flow, Authorize(f) \/ ExpireState(f) PROVE Inv'
  BY <1>1, SameLocals DEF Authorize, ExpireState
<1>2. ASSUME NEW h \in Callback, NEW f \in Flow, BeginCallback(h, f) PROVE Inv'
  <2> DEFINE r == [NoLocals EXCEPT !.acct = h, !.row.flow = f]
  <2>1. emitted' = emitted /\ registry' = registry /\ h \in Task
    BY <1>2 DEF BeginCallback, Task
  <2>2. CASE loc' = loc
    BY <2>1, <2>2, SameLocals
  <2>3. CASE loc' = [loc EXCEPT ![h] = r]
    <3>1. r = [x \in Field |-> r[x]] /\ r.presented = 0 /\ r.access = 0 /\ r.refresh = 0
      BY DEF NoLocals, Field
    <3> QED
      BY <2>1, <2>3, <3>1, OneTask
  <2> QED
    BY <1>2, <2>2, <2>3 DEF BeginCallback
<1>3. ASSUME NEW h \in Callback, Exchange(h) PROVE Inv'
  <2>1. emitted' = emitted /\ h \in Task
    BY <1>3 DEF Exchange, Task
  <2>2. (Fail(h) /\ registry' = registry) \/ \E both \in BOOLEAN : Parse(h, both)
    BY <1>3 DEF Exchange
  <2> QED
    BY <2>1, <2>2, FailSafe, ParseSafe
<1>4. ASSUME NEW h \in Callback, Insert(h) PROVE Inv'
  <2>1. emitted' = emitted /\ registry' = registry /\ h \in Task
    BY <1>4 DEF Insert, Task
  <2>2. Fail(h) \/ loc' = [loc EXCEPT ![h] = NoLocals]
    BY <1>4 DEF Insert
  <2> QED
    BY <2>1, <2>2, FailSafe, NoLocalsShape, OneTask
<1>5. ASSUME NEW i \in Invocation, NEW h \in Callback, Load(i, h) PROVE Inv'
  <2> DEFINE r == [NoLocals EXCEPT !.acct = h, !.row = account[h]]
  <2>1. emitted' = emitted /\ registry' = registry /\ i \in Task
        /\ loc' = [loc EXCEPT ![i] = r]
    BY <1>5 DEF Load, Task
  <2>2. r = [x \in Field |-> r[x]] /\ r.presented = 0 /\ r.access = 0 /\ r.refresh = 0
    BY DEF NoLocals, Field
  <2> QED
    BY <2>1, <2>2, OneTask
<1>6. ASSUME NEW t \in Task,
             EncryptAccess(t) \/ EncryptRefresh(t) \/ OpenAccess(t) \/ DecryptRefresh(t)
      PROVE  Inv'
  BY <1>6, CipherSafe
<1>7. ASSUME NEW i \in Invocation, Redeem(i) PROVE Inv'
  <2>1. emitted' = emitted /\ i \in Task
    BY <1>7 DEF Redeem, Task
  <2>2. (Fail(i) /\ registry' = registry) \/ \E both \in BOOLEAN : Parse(i, both)
    BY <1>7 DEF Redeem
  <2> QED
    BY <2>1, <2>2, FailSafe, ParseSafe
<1>8. ASSUME NEW i \in Invocation, Commit(i) PROVE Inv'
  <2> DEFINE r == [loc[i] EXCEPT !.presented = 0, !.refresh = 0,
                                 !.newAccess = Null, !.newRefresh = Null]
  <2>1. emitted' = emitted /\ registry' = registry /\ i \in Task
    BY <1>8 DEF Commit, Task
  <2>2. loc' = [loc EXCEPT ![i] = r] \/ loc' = [loc EXCEPT ![i] = NoLocals]
    BY <1>8 DEF Commit
  <2>3. loc[i] = [x \in Field |-> loc[i][x]] /\ Held(i) \subseteq registry
    BY <2>1 DEF Inv, LocalsShape, HeldRegistered
  <2>4. r = [x \in Field |-> r[x]] /\ r.presented = 0 /\ r.access = loc[i].access
        /\ r.refresh = 0
    BY <2>3 DEF Field
  <2> HIDE DEF r
  <2> QED
    BY <2>1, <2>2, <2>3, <2>4, NoLocalsShape, OneTask DEF Held
<1>9. ASSUME NEW i \in Invocation, EndCall(i) PROVE Inv'
  <2> DEFINE r == [loc[i] EXCEPT !.access = 0]
  <2>1. emitted' = emitted /\ registry' = registry /\ i \in Task
        /\ loc' = [loc EXCEPT ![i] = r]
    BY <1>9 DEF EndCall, Task
  <2>2. loc[i] = [x \in Field |-> loc[i][x]] /\ Held(i) \subseteq registry
    BY <2>1 DEF Inv, LocalsShape, HeldRegistered
  <2>3. r = [x \in Field |-> r[x]] /\ r.presented = loc[i].presented /\ r.access = 0
        /\ r.refresh = loc[i].refresh
    BY <2>2 DEF Field
  <2> HIDE DEF r
  <2> QED
    BY <2>1, <2>2, <2>3, OneTask DEF Held
<1>10. ASSUME NEW t \in Task, (t \in Invocation /\ RecordCall(t)) \/ Cut(t) PROVE Inv'
  <2>1. emitted' = emitted /\ registry' = registry /\ loc' = [loc EXCEPT ![t] = NoLocals]
    BY <1>10 DEF RecordCall, Cut
  <2> QED
    BY <2>1, NoLocalsShape, OneTask
<1>11. ASSUME NEW t \in Task, Log(t) PROVE Inv'
  <2> DEFINE record == [part \in {"msg", "exc_text", "stack_info"} |-> Held(t)]
  <2>1. Held(t) \ registry = {} /\ emitted \subseteq {"malformed"}
    BY DEF Inv, HeldRegistered, OnlyMalformedLeaks
  <2>2. \A part \in DOMAIN record : Filter(record, "wellFormed")[part] = {}
    BY <2>1 DEF Filter, Scrub
  <2>3. PICK kind \in {"wellFormed", "malformed"} :
          emitted' = IF \E part \in DOMAIN record : Filter(record, kind)[part] # {}
                     THEN emitted \cup {kind} ELSE emitted
    BY <1>11 DEF Log
  <2> HIDE DEF record
  <2>4. emitted' \subseteq {"malformed"}
    BY <2>1, <2>2, <2>3
  <2>5. loc' = loc /\ registry' = registry
    BY <1>11 DEF Log
  <2> QED
    BY <2>4, <2>5 DEF Inv, LocalsShape, HeldRegistered, OnlyMalformedLeaks, Held
<1>12. CASE Restart
  <2>1. loc' = [t \in Task |-> NoLocals] /\ emitted' = emitted
    BY <1>12 DEF Restart
  <2> QED
    BY <2>1, NoLocalsShape DEF Inv, LocalsShape, HeldRegistered, OnlyMalformedLeaks, Held
<1>13. CASE UNCHANGED vars
  BY <1>13, SameLocals DEF vars
<1>14. Invocation \subseteq Task
  BY DEF Task
<1> QED
  BY <1>1, <1>2, <1>3, <1>4, <1>5, <1>6, <1>7, <1>8, <1>9, <1>10, <1>11, <1>12, <1>13, <1>14
  DEF Next

(* Whatever is logged, by however many tasks and over however many         *)
(* restarts, no record that can be formatted carries a credential: what a  *)
(* task holds in plaintext is registered before it can log it (kms.py:132  *)
(* and 170, google.py:81-82, logging_config.py:34-79).                     *)
THEOREM FormattedLogsAreClean == Spec => []OnlyMalformedLeaks
<1>1. Init => Inv
  BY NoLocalsShape DEF Init, Inv, LocalsShape, HeldRegistered, OnlyMalformedLeaks, Held
<1>2. Inv => OnlyMalformedLeaks
  BY DEF Inv
<1> QED
  BY <1>1, <1>2, InvNext, PTL DEF Spec

-----------------------------------------------------------------------------
(* Where tokens and columns come from. *)

Entry == [flow: Flow, kind: {"access", "refresh"}]

(* The tokens of one kind issued to flow f, in the sequence s of tokens. *)
Given(s, f, kind) == {t \in 1..Len(s) : s[t] = [flow |-> f, kind |-> kind]}

(* Column c holds such a token, encrypted under one of the first m + 1     *)
(* master keys.                                                            *)
Sealed(c, s, m, f, kind) ==
  c # Null /\ \E k \in 0..m, t \in Given(s, f, kind) : c = Encrypt(k, t)

GoodRow(r, s, m, sp) ==
  /\ r.flow \in sp
  /\ Sealed(r.access, s, m, r.flow, "access")
  /\ r.refresh = Null \/ Sealed(r.refresh, s, m, r.flow, "refresh")

(* The locals r of a task hold tokens of the flow it works for. *)
GoodLocals(r, s, m) ==
  /\ r.presented \in Given(s, r.row.flow, "refresh") \cup {0}
  /\ r.access \in Given(s, r.row.flow, "access") \cup {0}
  /\ r.refresh \in Given(s, r.row.flow, "refresh") \cup {0}
  /\ r.newAccess = Null \/ Sealed(r.newAccess, s, m, r.row.flow, "access")
  /\ r.newRefresh = Null \/ Sealed(r.newRefresh, s, m, r.row.flow, "refresh")

Storing == {"encAccess", "encRefresh", "insert"}

(* What task t, waiting in p with locals r, can rely on. *)
GoodPlace(t, p, r, st, sp) ==
  /\ t \in Callback => /\ p \in {"idle", "exchange"} \cup Storing \cup Ended
                       /\ p = "exchange" => r.row.flow \in st
                       /\ p \in Storing => r.row.flow \in sp
  /\ t \in Invocation => /\ p \notin {"exchange", "insert"}
                         /\ p \in Waiting \ {"audit"} => r.acct # None
  /\ p \notin Waiting => r = NoLocals
  /\ (t \in Callback \/ r.acct = None) => r.row.refresh = Null
  /\ p = "decrypt" => r.row.refresh # Null
  /\ p = "encAccess" => r.access # 0
  /\ p = "encRefresh" => r.refresh # 0
  /\ p \in {"encRefresh", "insert"} => r.newAccess # Null

(* The row that an invocation loaded, and the one it would update. *)
Refers(r, acc, p, s, m, sp) ==
  /\ r.acct \in Callback /\ p[r.acct] = "connected"
  /\ GoodRow(r.row, s, m, sp) /\ GoodRow(acc[r.acct], s, m, sp)
  /\ acc[r.acct].flow = r.row.flow

World ==
  /\ keyed \in BOOLEAN /\ restarts \in 0..MaxRestarts /\ master \in 0..restarts
  /\ keyed => master = 0
  /\ started \subseteq Flow /\ expired \subseteq started /\ spent \subseteq started
  /\ lost \subseteq Flow
  /\ issued \in Seq(Entry) /\ live \in [Flow -> 0..Len(issued)]
  /\ pc \in [Task -> {"idle"} \cup Waiting \cup Ended]
  /\ registry \subseteq 1..Len(issued)
  /\ account = [h \in Callback |-> account[h]]

RowsGood ==
  \A h \in Callback :
    /\ account[h] # None => pc[h] = "connected"
    /\ pc[h] = "connected" => GoodRow(account[h], issued, master, spent)

TasksGood ==
  \A t \in Task :
    /\ GoodLocals(loc[t], issued, master) /\ GoodPlace(t, pc[t], loc[t], started, spent)
    /\ (t \in Invocation /\ loc[t].acct # None) =>
         Refers(loc[t], account, pc, issued, master, spent)

VaultInv == World /\ RowsGood /\ TasksGood

(* The provider's list of tokens only grows at its end. *)
Grows(s, s2) ==
  Len(s) \in Nat /\ Len(s2) \in Nat /\ Len(s) <= Len(s2) /\ \A i \in 1..Len(s) : s2[i] = s[i]

LEMMA GivenGrows ==
  ASSUME NEW s, NEW s2, Grows(s, s2)
  PROVE  \A f, k : Given(s, f, k) \subseteq Given(s2, f, k)
BY DEF Grows, Given

LEMMA GoodGrows ==
  ASSUME NEW s, NEW s2, Grows(s, s2), NEW m \in Nat, NEW m2 \in Nat, m <= m2,
         NEW sp, NEW sp2, sp \subseteq sp2
  PROVE  /\ \A r : GoodRow(r, s, m, sp) => GoodRow(r, s2, m2, sp2)
         /\ \A r : GoodLocals(r, s, m) => GoodLocals(r, s2, m2)
<1>1. \A f, k : Given(s, f, k) \subseteq Given(s2, f, k)
  BY GivenGrows
<1>2. 0..m \subseteq 0..m2
  OBVIOUS
<1>3. \A c, f, k : Sealed(c, s, m, f, k) => Sealed(c, s2, m2, f, k)
  BY <1>1, <1>2, Zenon DEF Sealed
<1>4. \A r : GoodRow(r, s, m, sp) => GoodRow(r, s2, m2, sp2)
  BY <1>3, Zenon DEF GoodRow
<1>5. \A r : GoodLocals(r, s, m) => GoodLocals(r, s2, m2)
  BY <1>1, <1>3 DEF GoodLocals
<1> QED
  BY <1>4, <1>5

LEMMA GrowsSelf ==
  ASSUME NEW S, NEW s \in Seq(S)
  PROVE  Grows(s, s)
BY LenProperties DEF Grows

(* What Issue appends. *)
LEMMA Issued ==
  ASSUME issued \in Seq(Entry), NEW f \in Flow, NEW both \in BOOLEAN, Issue(f, both)
  PROVE  /\ issued' \in Seq(Entry) /\ Grows(issued, issued')
         /\ Len(issued') = Len(issued) + (IF both THEN 2 ELSE 1)
         /\ Len(issued) + 1 \in Given(issued', f, "access")
         /\ both => Len(issued) + 2 \in Given(issued', f, "refresh")
<1> DEFINE a == [flow |-> f, kind |-> "access"]
           b == [flow |-> f, kind |-> "refresh"]
<1>0. a \in Entry /\ b \in Entry
  BY DEF Entry
<1> DEFINE s2 == issued \o <<a>>
           s3 == s2 \o <<b>>
<1>1. issued' = IF both THEN s3 ELSE s2 \o <<>>
  BY DEF Issue
<1>2. Len(issued) \in Nat
  BY LenProperties
<1> HIDE DEF a, b
<1>3. /\ s2 \in Seq(Entry) /\ Len(s2) = Len(issued) + 1 /\ s2[Len(issued) + 1] = a
      /\ \A i \in 1..Len(issued) : s2[i] = issued[i]
  BY <1>0, <1>2
<1> HIDE DEF s2
<1>4. s2 \o <<>> = s2
  BY <1>3
<1>5. /\ s3 \in Seq(Entry) /\ Len(s3) = Len(s2) + 1 /\ s3[Len(s2) + 1] = b
      /\ \A i \in 1..Len(s2) : s3[i] = s2[i]
  BY <1>0, <1>2, <1>3
<1> HIDE DEF s3
<1>6. /\ Len(issued) + 1 \in 1..Len(s2) /\ Len(s2) + 1 = Len(issued) + 2
      /\ \A i \in 1..Len(issued) : i \in 1..Len(s2)
  BY <1>2, <1>3
<1>7. /\ s3[Len(issued) + 1] = a /\ s3[Len(issued) + 2] = b
      /\ \A i \in 1..Len(issued) : s3[i] = issued[i]
  BY <1>3, <1>5, <1>6
<1>8. CASE both
  BY <1>1, <1>2, <1>3, <1>5, <1>7, <1>8 DEF Grows, Given, a, b
<1>9. CASE ~both
  BY <1>1, <1>2, <1>3, <1>4, <1>9 DEF Grows, Given, a
<1> QED
  BY <1>8, <1>9

(* A column opens to the token it holds, or not at all; under the only     *)
(* master key there ever was it opens, and damaged it does not.            *)
LEMMA SealedOpens ==
  ASSUME NEW s, Len(s) \in Nat, NEW m \in Nat, NEW f, NEW kind, NEW c,
         Sealed(c, s, m, f, kind)
  PROVE  /\ Decrypt(m, c) \in Given(s, f, kind) \cup {Refused}
         /\ m = 0 => Decrypt(m, c) \in Given(s, f, kind)
         /\ \A b \in Damaged(c) : Decrypt(m, b) = Refused
<1>1. PICK k \in 0..m, t \in Given(s, f, kind) : c = Encrypt(k, t) /\ c # <<>>
  BY DEF Sealed, Null
<1>2. k \in Nat /\ t \in Nat \ {0} /\ (m = 0 => k = m) /\ t \in Nat
  BY DEF Given
<1>3. Decrypt(m, c) = IF m = k THEN t ELSE Refused
  BY <1>1, <1>2, DecryptEncrypt
<1>4. \A b \in Damaged(c) : Decrypt(m, b) = Refused
  BY <1>1, <1>2, DamagedRefused
<1> QED
  BY <1>1, <1>2, <1>3, <1>4

-----------------------------------------------------------------------------
(* Every column is a token of its own kind and its own flow. *)

(* A step of task t, to p with locals r, that updates rows by good ones. *)
LEMMA GoodStep ==
  ASSUME Inv, VaultInv, World', NEW t \in Task, NEW r, NEW p,
         loc' = [loc EXCEPT ![t] = r], pc' = [pc EXCEPT ![t] = p], pc[t] \notin Ended,
         Grows(issued, issued'), master' = master, started' = started, spent \subseteq spent',
         GoodLocals(r, issued', master), GoodPlace(t, p, r, started, spent'),
         (t \in Invocation /\ r.acct # None) => Refers(r, account, pc, issued, master, spent),
         (t \in Callback /\ p = "connected") => GoodRow(account'[t], issued', master, spent'),
         \A h \in Callback :
           \/ account'[h] = account[h]
           \/ /\ GoodRow(account'[h], issued', master, spent') /\ pc'[h] = "connected"
              /\ pc[h] = "connected" => account'[h].flow = account[h].flow
  PROVE  VaultInv'
<1>1. /\ loc'[t] = r /\ pc'[t] = p
      /\ \A u \in Task \ {t} : loc'[u] = loc[u] /\ pc'[u] = pc[u]
  <2>1. loc = [u \in Task |-> loc[u]] /\ pc = [u \in Task |-> pc[u]]
    BY DEF Inv, LocalsShape, VaultInv, World
  <2> QED
    BY <2>1
<1>2. \A u \in Task : pc[u] = "connected" => pc'[u] = "connected"
  BY <1>1 DEF Ended
<1>3. master \in Nat /\ master <= master
  BY VaultAssumption DEF VaultInv, World
<1>4. /\ \A q : GoodRow(q, issued, master, spent) => GoodRow(q, issued', master, spent')
      /\ \A q : GoodLocals(q, issued, master) => GoodLocals(q, issued', master)
  BY <1>3, GoodGrows
<1>5. \A q : Refers(q, account, pc, issued, master, spent) =>
               Refers(q, account', pc', issued', master, spent')
  <2> TAKE q
  <2> HAVE Refers(q, account, pc, issued, master, spent)
  <2> DEFINE h == q.acct
  <2>1. /\ h \in Callback /\ pc[h] = "connected" /\ GoodRow(q.row, issued, master, spent)
        /\ GoodRow(account[h], issued, master, spent) /\ account[h].flow = q.row.flow
    BY DEF Refers
  <2>2. h \in Task
    BY <2>1 DEF Task
  <2> HIDE DEF h
  <2>3. GoodRow(account'[h], issued', master, spent') /\ account'[h].flow = q.row.flow
    BY <1>4, <2>1
  <2>4. pc'[h] = "connected" /\ GoodRow(q.row, issued', master, spent')
    BY <1>2, <1>4, <2>1, <2>2
  <2> QED
    BY <2>1, <2>3, <2>4 DEF Refers, h
<1>6. RowsGood'
  <2> SUFFICES ASSUME NEW h \in Callback
               PROVE  /\ account'[h] # None => pc'[h] = "connected"
                      /\ pc'[h] = "connected" => GoodRow(account'[h], issued', master, spent')
    BY DEF RowsGood
  <2>1. CASE account'[h] = account[h]
    <3>1. /\ account[h] # None => pc[h] = "connected"
          /\ pc[h] = "connected" => GoodRow(account[h], issued, master, spent)
          /\ h \in Task
      BY DEF VaultInv, RowsGood, Task
    <3>2. h # t => pc'[h] = pc[h]
      BY <1>1, <3>1
    <3> QED
      BY <1>1, <1>2, <1>4, <2>1, <3>1, <3>2
  <2> QED
    BY <2>1
<1>7. TasksGood'
  <2> SUFFICES ASSUME NEW u \in Task
               PROVE  /\ GoodLocals(loc'[u], issued', master)
                      /\ GoodPlace(u, pc'[u], loc'[u], started, spent')
                      /\ (u \in Invocation /\ loc'[u].acct # None) =>
                            Refers(loc'[u], account', pc', issued', master, spent')
    BY DEF TasksGood
  <2>1. CASE u = t
    BY <1>1, <1>5, <2>1
  <2>2. CASE u # t
    <3>1. loc'[u] = loc[u] /\ pc'[u] = pc[u]
      BY <1>1, <2>2
    <3>2. /\ GoodLocals(loc[u], issued, master) /\ GoodPlace(u, pc[u], loc[u], started, spent)
          /\ (u \in Invocation /\ loc[u].acct # None) =>
               Refers(loc[u], account, pc, issued, master, spent)
      BY DEF VaultInv, TasksGood
    <3>3. GoodPlace(u, pc[u], loc[u], started, spent')
      BY <3>2 DEF GoodPlace
    <3> QED
      BY <1>4, <1>5, <3>1, <3>2, <3>3
  <2> QED
    BY <2>1, <2>2
<1> QED
  BY <1>6, <1>7 DEF VaultInv

(* A step that leaves the tasks, the rows and the tokens alone. *)
LEMMA SameTasks ==
  ASSUME VaultInv, World', loc' = loc, pc' = pc, account' = account, issued' = issued,
         master' = master, spent' = spent, started \subseteq started'
  PROVE  VaultInv'
<1>1. RowsGood'
  BY DEF VaultInv, RowsGood
<1>2. TasksGood'
  <2>1. \A t, p, r : GoodPlace(t, p, r, started, spent) => GoodPlace(t, p, r, started', spent)
    BY DEF GoodPlace
  <2> QED
    BY <2>1 DEF VaultInv, TasksGood
<1> QED
  BY <1>1, <1>2 DEF VaultInv

LEMMA NoLocalsGood ==
  /\ \A s, m : GoodLocals(NoLocals, s, m)
  /\ NoLocals.acct = None /\ NoLocals.row.refresh = Null
BY DEF NoLocals, GoodLocals, Columns

LEMMA FailGood ==
  ASSUME Inv, VaultInv, World', NEW t \in Task, Fail(t), pc[t] \in Waiting,
         Grows(issued, issued'), master' = master, started' = started, spent \subseteq spent',
         account' = account
  PROVE  VaultInv'
<1>0. pc[t] \notin Ended
  BY DEF Waiting, Ended
<1>1. CASE t \in Callback
  <2>1. loc' = [loc EXCEPT ![t] = NoLocals] /\ pc' = [pc EXCEPT ![t] = "error"]
    BY <1>1 DEF Fail, Goto
  <2>2. GoodPlace(t, "error", NoLocals, started, spent') /\ t \notin Invocation
    BY <1>1, VaultAssumption, NoLocalsGood DEF GoodPlace, Storing, Ended, Waiting
  <2> QED
    BY <1>0, <2>1, <2>2, NoLocalsGood, GoodStep
<1>2. CASE t \notin Callback
  <2> DEFINE r == [loc[t] EXCEPT !.presented = 0, !.access = 0, !.refresh = 0]
  <2>1. loc' = [loc EXCEPT ![t] = r] /\ pc' = [pc EXCEPT ![t] = "audit"]
    BY <1>2 DEF Fail, Goto
  <2>2. loc[t] = [x \in Field |-> loc[t][x]]
    BY DEF Inv, LocalsShape
  <2>3. /\ r.acct = loc[t].acct /\ r.row = loc[t].row /\ r.presented = 0 /\ r.access = 0
        /\ r.refresh = 0 /\ r.newAccess = loc[t].newAccess /\ r.newRefresh = loc[t].newRefresh
    BY <2>2 DEF Field
  <2> HIDE DEF r
  <2>4. /\ GoodLocals(loc[t], issued, master) /\ GoodPlace(t, pc[t], loc[t], started, spent)
        /\ (t \in Invocation /\ loc[t].acct # None) =>
             Refers(loc[t], account, pc, issued, master, spent)
    BY DEF VaultInv, TasksGood
  <2>5. GoodLocals(r, issued', master)
    <3>1. master \in Nat /\ master <= master
      BY VaultAssumption DEF VaultInv, World
    <3>2. GoodLocals(loc[t], issued', master)
      BY <2>4, <3>1, GoodGrows
    <3> QED
      BY <2>3, <3>2 DEF GoodLocals
  <2>6. GoodPlace(t, "audit", r, started, spent')
    BY <1>2, <2>3, <2>4 DEF GoodPlace, Waiting, Ended, Storing
  <2>7. (t \in Invocation /\ r.acct # None) => Refers(r, account, pc, issued, master, spent)
    BY <2>3, <2>4 DEF Refers
  <2> QED
    BY <1>0, <2>1, <2>5, <2>6, <2>7, GoodStep
<1> QED
  BY <1>1, <1>2

LEMMA ParseGood ==
  ASSUME Inv, VaultInv, World', NEW t \in Task, NEW both \in BOOLEAN,
         Issue(loc[t].row.flow, both), Parse(t, both), pc[t] \in Waiting,
         loc[t].row.flow \in Flow, loc[t].row.flow \in spent',
         t \in Invocation => loc[t].acct # None,
         master' = master, started' = started, spent \subseteq spent', account' = account
  PROVE  VaultInv'
<1> DEFINE a == Len(issued) + 1
           b == IF both THEN Len(issued) + 2 ELSE 0
           r == [loc[t] EXCEPT !.access = a, !.refresh = b]
           f == loc[t].row.flow
<1>0. pc[t] \notin Ended
  BY DEF Waiting, Ended
<1>1. loc' = [loc EXCEPT ![t] = r] /\ pc' = [pc EXCEPT ![t] = "encAccess"]
  BY DEF Parse, Goto
<1>2. /\ Grows(issued, issued') /\ a \in Given(issued', f, "access")
      /\ b \in Given(issued', f, "refresh") \cup {0}
  BY Issued DEF VaultInv, World
<1>3. a # 0
  BY <1>2 DEF Given
<1>4. loc[t] = [x \in Field |-> loc[t][x]]
  BY DEF Inv, LocalsShape
<1> HIDE DEF a, b
<1>5. /\ r.acct = loc[t].acct /\ r.row = loc[t].row /\ r.presented = loc[t].presented
      /\ r.access = a /\ r.refresh = b
      /\ r.newAccess = loc[t].newAccess /\ r.newRefresh = loc[t].newRefresh
  BY <1>4 DEF Field
<1> HIDE DEF r
<1>6. /\ GoodLocals(loc[t], issued, master) /\ GoodPlace(t, pc[t], loc[t], started, spent)
      /\ (t \in Invocation /\ loc[t].acct # None) =>
           Refers(loc[t], account, pc, issued, master, spent)
  BY DEF VaultInv, TasksGood
<1>7. GoodLocals(r, issued', master)
  <2>1. master \in Nat /\ master <= master
    BY VaultAssumption DEF VaultInv, World
  <2>2. GoodLocals(loc[t], issued', master)
    BY <1>2, <1>6, <2>1, GoodGrows
  <2> QED
    BY <1>2, <1>5, <2>2 DEF GoodLocals
<1>8. GoodPlace(t, "encAccess", r, started, spent')
  BY <1>3, <1>5, <1>6 DEF GoodPlace, Waiting, Ended, Storing
<1>9. (t \in Invocation /\ r.acct # None) => Refers(r, account, pc, issued, master, spent)
  BY <1>5, <1>6 DEF Refers
<1> QED
  BY <1>0, <1>1, <1>2, <1>7, <1>8, <1>9, GoodStep

(* The flow of a token is a flow. *)
LEMMA GivenFlow ==
  ASSUME NEW s \in Seq(Entry), NEW f, NEW kind, NEW t \in Given(s, f, kind)
  PROVE  f \in Flow
<1>1. s[t] \in Entry /\ s[t] = [flow |-> f, kind |-> kind]
  BY ElementOfSeq DEF Given
<1> QED
  BY <1>1 DEF Entry

LEMMA TokensIssued ==
  ASSUME VaultInv, NEW t \in Task
  PROVE  Held(t) \subseteq 1..Len(issued) /\ Forgets(t) \subseteq Flow
<1>1. GoodLocals(loc[t], issued, master) /\ issued \in Seq(Entry) /\ lost \subseteq Flow
  BY DEF VaultInv, TasksGood, World
<1>2. Held(t) \subseteq 1..Len(issued)
  BY <1>1 DEF Held, GoodLocals, Given
<1>3. loc[t].refresh # 0 => loc[t].row.flow \in Flow
  BY <1>1, GivenFlow DEF GoodLocals
<1> QED
  BY <1>1, <1>2, <1>3 DEF Forgets

(* What cipher.decrypt returns of the row an invocation loaded. *)
LEMMA OpensRow ==
  ASSUME VaultInv, NEW i \in Invocation, pc[i] \in {"open", "decrypt"}
  PROVE  /\ Refers(loc[i], account, pc, issued, master, spent)
         /\ Decrypt(master, loc[i].row.access)
              \in Given(issued, loc[i].row.flow, "access") \cup {Refused}
         /\ pc[i] = "decrypt" => Decrypt(master, loc[i].row.refresh)
              \in Given(issued, loc[i].row.flow, "refresh") \cup {Refused}
<1>0. i \in Task /\ master \in Nat /\ Len(issued) \in Nat
  BY VaultAssumption, LenProperties DEF VaultInv, World, Task
<1>1. GoodPlace(i, pc[i], loc[i], started, spent)
  BY <1>0 DEF VaultInv, TasksGood
<1>2. loc[i].acct # None /\ (pc[i] = "decrypt" => loc[i].row.refresh # Null)
  BY <1>1 DEF GoodPlace, Waiting
<1>3. Refers(loc[i], account, pc, issued, master, spent)
  BY <1>0, <1>2 DEF VaultInv, TasksGood
<1>4. GoodRow(loc[i].row, issued, master, spent)
  BY <1>3 DEF Refers
<1> QED
  BY <1>0, <1>2, <1>3, <1>4, SealedOpens DEF GoodRow

LEMMA WorldNext ==
  ASSUME Inv, VaultInv, Next
  PROVE  World'
<1> DEFINE Place == {"idle"} \cup Waiting \cup Ended
<1>0. /\ World /\ Len(issued) \in Nat /\ Callback \subseteq Task /\ Invocation \subseteq Task
  BY LenProperties DEF VaultInv, World, Task
<1>1. ASSUME NEW t \in Task, NEW p \in Place, Goto(t, p) PROVE pc' \in [Task -> Place]
  BY <1>0, <1>1 DEF World, Goto
<1>2. ASSUME NEW t \in Task, Fail(t) PROVE pc' \in [Task -> Place]
  <2>1. \A p \in {"error", "audit"} : p \in Place
    BY DEF Waiting, Ended
  <2> QED
    BY <1>1, <1>2, <2>1 DEF Fail
<1>3. ASSUME NEW t \in Task, NEW both \in BOOLEAN, Issue(loc[t].row.flow, both),
             loc[t].row.flow \in Flow
      PROVE  /\ issued' \in Seq(Entry) /\ live' \in [Flow -> 0..Len(issued')]
             /\ registry \subseteq 1..Len(issued')
             /\ Parse(t, both) => registry' \subseteq 1..Len(issued') /\ pc' \in [Task -> Place]
  <2>1. /\ issued' \in Seq(Entry)
        /\ Len(issued') = Len(issued) + (IF both THEN 2 ELSE 1)
    BY <1>0, <1>3, Issued DEF World
  <2>2. live' \in [Flow -> 0..Len(issued')]
    BY <1>0, <1>3, <2>1 DEF World, Issue
  <2>3. registry \subseteq 1..Len(issued')
    BY <1>0, <2>1 DEF World
  <2>4. Parse(t, both) => registry' \subseteq 1..Len(issued')
    BY <1>0, <2>1, <2>3 DEF Parse
  <2>5. Parse(t, both) => pc' \in [Task -> Place]
    <3>1. "encAccess" \in Place
      BY DEF Waiting
    <3> QED
      BY <1>1, <3>1 DEF Parse
  <2> QED
    BY <2>1, <2>2, <2>3, <2>4, <2>5
<1>4. /\ \A p \in {"exchange", "open", "decrypt", "redeem", "encAccess", "encRefresh",
                   "insert", "commit", "call", "audit", "connected", "refused", "replied", "cut"} :
           p \in Place
  BY DEF Waiting, Ended
<1> HIDE DEF Place
<1> USE DEF World, brokerVars, providerVars
<1>5. ASSUME NEW f \in Flow, Authorize(f) \/ ExpireState(f) PROVE World'
  BY <1>0, <1>5 DEF Authorize, ExpireState
<1>6. ASSUME NEW h \in Callback, NEW f \in Flow, BeginCallback(h, f) PROVE World'
  <2>1. pc' \in [Task -> Place]
    BY <1>0, <1>1, <1>4, <1>6 DEF BeginCallback
  <2> QED
    BY <1>0, <1>6, <2>1 DEF BeginCallback, Place
<1>7. ASSUME NEW h \in Callback, Exchange(h) PROVE World'
  <2> DEFINE f == loc[h].row.flow
  <2>0. h \in Task /\ f \in started /\ f \in Flow
    <3>1. GoodPlace(h, pc[h], loc[h], started, spent) /\ pc[h] = "exchange"
      BY <1>0, <1>7 DEF VaultInv, TasksGood, Exchange
    <3> QED
      BY <1>0, <3>1 DEF GoodPlace
  <2>1. CASE Fail(h) /\ UNCHANGED <<registry, providerVars>>
    <3>1. pc' \in [Task -> Place]
      BY <1>2, <2>0, <2>1
    <3> QED
      BY <1>0, <1>7, <2>1, <3>1 DEF Exchange, Place
  <2>2. ASSUME NEW both \in BOOLEAN, Issue(f, both), spent' = spent \cup {f},
               (Fail(h) /\ UNCHANGED registry) \/ Parse(h, both)
        PROVE  World'
    <3>1. /\ issued' \in Seq(Entry) /\ live' \in [Flow -> 0..Len(issued')]
          /\ registry' \subseteq 1..Len(issued') /\ pc' \in [Task -> Place]
      BY <1>2, <1>3, <2>0, <2>2
    <3>2. spent' \subseteq started
      BY <1>0, <2>0, <2>2
    <3> QED
      BY <1>0, <1>7, <3>1, <3>2 DEF Exchange, Place
  <2> QED
    BY <1>7, <2>1, <2>2 DEF Exchange
<1>8. ASSUME NEW h \in Callback, Insert(h) PROVE World'
  <2>1. pc' \in [Task -> Place]
    BY <1>0, <1>1, <1>2, <1>4, <1>8 DEF Insert
  <2>2. account' = [g \in Callback |-> account'[g]]
    BY <1>0, <1>8 DEF Insert
  <2> QED
    BY <1>0, <1>8, <2>1, <2>2 DEF Insert, Place
<1>9. ASSUME NEW i \in Invocation, NEW h \in Callback, Load(i, h) PROVE World'
  <2>1. pc' \in [Task -> Place]
    BY <1>0, <1>1, <1>4, <1>9 DEF Load
  <2> QED
    BY <1>0, <1>9, <2>1 DEF Load, Place
<1>10. ASSUME NEW i \in Invocation, OpenAccess(i) \/ DecryptRefresh(i) PROVE World'
  <2>1. pc' \in [Task -> Place]
    BY <1>0, <1>1, <1>2, <1>4, <1>10 DEF OpenAccess, DecryptRefresh
  <2>2. /\ pc[i] = "open" => Decrypt(master, loc[i].row.access) \in 1..Len(issued) \cup {Refused}
        /\ pc[i] = "decrypt" =>
             Decrypt(master, loc[i].row.refresh) \in 1..Len(issued) \cup {Refused}
    BY OpensRow DEF Given
  <2>3. registry' \subseteq 1..Len(issued)
    BY <1>0, <1>10, <2>2 DEF OpenAccess, DecryptRefresh, Registers
  <2> QED
    BY <1>0, <1>10, <2>1, <2>3 DEF OpenAccess, DecryptRefresh, Place
<1>11. ASSUME NEW i \in Invocation, Redeem(i) PROVE World'
  <2> DEFINE f == loc[i].row.flow
  <2>0. i \in Task /\ f \in Flow
    <3>1. GoodPlace(i, pc[i], loc[i], started, spent) /\ pc[i] = "redeem"
      BY <1>0, <1>11 DEF VaultInv, TasksGood, Redeem
    <3>2. loc[i].acct # None
      BY <3>1 DEF GoodPlace, Waiting
    <3> QED
      BY <1>0, <3>2 DEF VaultInv, TasksGood, Refers, GoodRow
  <2>1. CASE Fail(i) /\ UNCHANGED <<registry, issued, live, lost>>
    <3>1. pc' \in [Task -> Place]
      BY <1>2, <2>0, <2>1
    <3> QED
      BY <1>0, <1>11, <2>1, <3>1 DEF Redeem, Place
  <2>2. ASSUME NEW both \in BOOLEAN, Issue(f, both), lost' \subseteq lost \cup {f},
               (Fail(i) /\ UNCHANGED registry) \/ Parse(i, both)
        PROVE  World'
    <3>1. /\ issued' \in Seq(Entry) /\ live' \in [Flow -> 0..Len(issued')]
          /\ registry' \subseteq 1..Len(issued') /\ pc' \in [Task -> Place]
      BY <1>2, <1>3, <2>0, <2>2
    <3>2. lost' \subseteq Flow
      BY <1>0, <2>0, <2>2
    <3> QED
      BY <1>0, <1>11, <3>1, <3>2 DEF Redeem, Place
  <2> QED
    BY <1>11, <2>1, <2>2 DEF Redeem
<1>12. ASSUME NEW i \in Invocation, Commit(i) \/ EndCall(i) \/ RecordCall(i) PROVE World'
  <2>0. i \in Task /\ Forgets(i) \subseteq Flow
    BY <1>0, TokensIssued
  <2>1. pc' \in [Task -> Place]
    BY <1>0, <1>1, <1>4, <1>12 DEF Commit, EndCall, RecordCall
  <2>2. account' = [g \in Callback |-> account'[g]]
    BY <1>0, <1>12 DEF Commit, EndCall, RecordCall
  <2>3. lost' \subseteq Flow
    BY <1>0, <1>12, <2>0 DEF Commit, EndCall, RecordCall
  <2> QED
    BY <1>0, <1>12, <2>1, <2>2, <2>3 DEF Commit, EndCall, RecordCall, Place
<1>13. ASSUME NEW t \in Task, EncryptAccess(t) \/ EncryptRefresh(t) PROVE World'
  <2>0. Forgets(t) \subseteq Flow /\ Held(t) \subseteq 1..Len(issued)
    BY TokensIssued
  <2>1. pc' \in [Task -> Place]
    BY <1>0, <1>1, <1>2, <1>4, <1>13 DEF EncryptAccess, EncryptRefresh
  <2>2. lost' \subseteq Flow
    BY <1>0, <1>13, <2>0 DEF EncryptAccess, EncryptRefresh
  <2>3. registry' \subseteq 1..Len(issued)
    <3>1. GoodPlace(t, pc[t], loc[t], started, spent)
      BY DEF VaultInv, TasksGood
    <3>2. /\ pc[t] = "encAccess" => loc[t].access \in Held(t)
          /\ pc[t] = "encRefresh" => loc[t].refresh \in Held(t)
      BY <3>1 DEF GoodPlace, Held
    <3> QED
      BY <1>0, <1>13, <2>0, <3>2 DEF EncryptAccess, EncryptRefresh
  <2> QED
    BY <1>0, <1>13, <2>1, <2>2, <2>3 DEF EncryptAccess, EncryptRefresh, Place
<1>14. ASSUME NEW t \in Task, Log(t) \/ Cut(t) PROVE World'
  <2>1. pc' \in [Task -> Place]
    BY <1>0, <1>1, <1>4, <1>14 DEF Log, Cut, Place
  <2>2. lost' \subseteq Flow
    BY <1>0, <1>14, TokensIssued DEF Log, Cut
  <2> QED
    BY <1>0, <1>14, <2>1, <2>2 DEF Log, Cut, Place
<1>15. CASE Restart
  <2>1. pc' \in [Task -> Place]
    BY <1>0, <1>4, <1>15 DEF Restart, Place
  <2>2. lost' \subseteq Flow
    <3>1. \A t \in Task : Forgets(t) \subseteq Flow
      BY TokensIssued
    <3>2. lost' = lost \cup UNION {Forgets(t) : t \in Task}
      BY <1>15 DEF Restart
    <3> QED
      BY <1>0, <3>1, <3>2
  <2>3. restarts' \in 0..MaxRestarts /\ master' \in 0..restarts' /\ (keyed => master' = 0)
    BY <1>0, <1>15, VaultAssumption DEF Restart
  <2> QED
    BY <1>0, <1>15, <2>1, <2>2, <2>3 DEF Restart, Place
<1> QED
  BY <1>5, <1>6, <1>7, <1>8, <1>9, <1>10, <1>11, <1>12, <1>13, <1>14, <1>15 DEF Next

(* The row after an UPDATE keeps its flow and takes columns of that flow. *)
LEMMA FlushedGood ==
  ASSUME VaultInv, NEW i \in Invocation, loc[i].acct # None
  PROVE  /\ loc[i].acct \in Callback /\ pc[loc[i].acct] = "connected"
         /\ GoodRow(Flushed(i), issued, master, spent)
         /\ Flushed(i).flow = account[loc[i].acct].flow
<1>1. GoodLocals(loc[i], issued, master) /\ Refers(loc[i], account, pc, issued, master, spent)
  BY DEF VaultInv, TasksGood, Task
<1> DEFINE a == account[loc[i].acct]
<1>2. /\ Flushed(i).flow = a.flow
      /\ Flushed(i).access = IF loc[i].newAccess = Null THEN a.access ELSE loc[i].newAccess
      /\ Flushed(i).refresh = IF loc[i].newRefresh = Null THEN a.refresh ELSE loc[i].newRefresh
  BY DEF Flushed, Columns, Updated
<1>3. GoodRow(a, issued, master, spent) /\ a.flow = loc[i].row.flow
  BY <1>1 DEF Refers
<1> HIDE DEF a
<1>4. GoodRow(Flushed(i), issued, master, spent)
  BY <1>1, <1>2, <1>3 DEF GoodRow, GoodLocals
<1> QED
  BY <1>1, <1>2, <1>4 DEF Refers, a

LEMMA VaultNext == Inv /\ VaultInv /\ [Next]_vars => VaultInv'
<1> SUFFICES ASSUME Inv, VaultInv, [Next]_vars PROVE VaultInv'
  OBVIOUS
<1>1. CASE UNCHANGED vars
  BY <1>1 DEF vars, VaultInv, World, RowsGood, TasksGood
<1> SUFFICES ASSUME Next PROVE VaultInv'
  BY <1>1
<1>2. World'
  BY WorldNext
<1>3. /\ Callback \subseteq Task /\ Invocation \subseteq Task
      /\ \A t \in Callback : t \notin Invocation
  BY VaultAssumption DEF Task
<1>4. Grows(issued, issued) /\ spent \subseteq spent
  BY GrowsSelf DEF VaultInv, World
<1>5. \A t \in Task : pc[t] \in Waiting \cup {"idle"} => pc[t] \notin Ended
  BY DEF Waiting, Ended
<1>6. ASSUME NEW t \in Task
      PROVE  /\ loc[t] = [x \in Field |-> loc[t][x]] /\ GoodLocals(loc[t], issued, master)
             /\ GoodPlace(t, pc[t], loc[t], started, spent)
             /\ (t \in Invocation /\ loc[t].acct # None) =>
                   Refers(loc[t], account, pc, issued, master, spent)
  BY DEF Inv, LocalsShape, VaultInv, TasksGood
<1>7. ASSUME NEW t \in Task, NEW p \in Ended, loc' = [loc EXCEPT ![t] = NoLocals],
             Goto(t, p), pc[t] \in Waiting, issued' = issued, master' = master,
             started' = started, spent' = spent,
             (t \in Callback /\ p = "connected") => GoodRow(account'[t], issued, master, spent),
             \A h \in Callback :
               \/ account'[h] = account[h]
               \/ /\ GoodRow(account'[h], issued, master, spent) /\ pc'[h] = "connected"
                  /\ pc[h] = "connected" => account'[h].flow = account[h].flow
      PROVE  VaultInv'
  <2>1. GoodPlace(t, p, NoLocals, started, spent)
    BY NoLocalsGood DEF GoodPlace, Waiting, Ended, Storing
  <2>2. pc' = [pc EXCEPT ![t] = p]
    BY <1>7 DEF Goto
  <2> QED
    BY <1>2, <1>4, <1>5, <1>7, <2>1, <2>2, NoLocalsGood, GoodStep
<1>8. ASSUME NEW t \in Task, NEW r, NEW p, loc' = [loc EXCEPT ![t] = r], Goto(t, p),
             pc[t] \in Waiting, UNCHANGED <<issued, master, started, spent, account>>,
             r.acct = loc[t].acct, r.row = loc[t].row, p # "connected",
             GoodLocals(r, issued, master), GoodPlace(t, p, r, started, spent)
      PROVE  VaultInv'
  <2>1. (t \in Invocation /\ r.acct # None) => Refers(r, account, pc, issued, master, spent)
    BY <1>6, <1>8 DEF Refers
  <2>2. pc' = [pc EXCEPT ![t] = p]
    BY <1>8 DEF Goto
  <2> QED
    BY <1>2, <1>4, <1>5, <1>8, <2>1, <2>2, GoodStep
<1>9. ASSUME NEW f \in Flow, Authorize(f) \/ ExpireState(f) PROVE VaultInv'
  BY <1>2, <1>9, SameTasks DEF Authorize, ExpireState, brokerVars, providerVars
<1>10. ASSUME NEW h \in Callback, NEW f \in Flow, BeginCallback(h, f) PROVE VaultInv'
  <2>0. /\ h \in Task /\ h \notin Invocation /\ pc[h] = "idle" /\ f \in started
        /\ UNCHANGED <<issued, master, started, spent, account>>
    BY <1>3, <1>10 DEF BeginCallback, brokerVars, providerVars
  <2>1. loc[h] = NoLocals /\ loc = [loc EXCEPT ![h] = loc[h]]
    <3>1. loc[h] = NoLocals
      BY <1>6, <2>0 DEF GoodPlace, Waiting
    <3> QED
      BY <2>0, <3>1 DEF Inv, LocalsShape
  <2>2. CASE Goto(h, "refused") /\ UNCHANGED loc
    <3>1. GoodPlace(h, "refused", NoLocals, started, spent)
      BY NoLocalsGood DEF GoodPlace, Waiting, Ended, Storing
    <3>2. loc' = [loc EXCEPT ![h] = NoLocals] /\ pc' = [pc EXCEPT ![h] = "refused"]
      BY <2>1, <2>2 DEF Goto
    <3> QED
      BY <1>2, <1>4, <1>5, <2>0, <3>1, <3>2, NoLocalsGood, GoodStep
  <2> DEFINE r == [NoLocals EXCEPT !.acct = h, !.row.flow = f]
  <2>3. CASE Goto(h, "exchange") /\ loc' = [loc EXCEPT ![h] = r]
    <3>1. /\ r.row.flow = f /\ r.row.refresh = Null /\ r.presented = 0 /\ r.access = 0 /\ r.refresh = 0
          /\ r.newAccess = Null /\ r.newRefresh = Null
      BY DEF NoLocals, Columns
    <3> HIDE DEF r
    <3>2. GoodLocals(r, issued, master)
      BY <3>1 DEF GoodLocals
    <3>3. GoodPlace(h, "exchange", r, started, spent)
      BY <2>0, <3>1 DEF GoodPlace, Waiting, Ended, Storing
    <3>4. pc' = [pc EXCEPT ![h] = "exchange"]
      BY <2>3 DEF Goto
    <3> QED
      BY <1>2, <1>4, <1>5, <2>0, <2>3, <3>2, <3>3, <3>4, GoodStep
  <2> QED
    BY <1>10, <2>2, <2>3 DEF BeginCallback
<1>11. ASSUME NEW h \in Callback, Exchange(h) PROVE VaultInv'
  <2> DEFINE f == loc[h].row.flow
  <2>0. /\ h \in Task /\ h \notin Invocation /\ pc[h] = "exchange" /\ pc[h] \in Waiting
        /\ UNCHANGED <<master, started, account>> /\ issued \in Seq(Entry)
    BY <1>3, <1>11 DEF Exchange, brokerVars, Waiting, VaultInv, World
  <2>1. f \in Flow
    BY <1>6, <2>0 DEF GoodPlace, VaultInv, World
  <2>2. CASE Fail(h) /\ UNCHANGED <<registry, providerVars>>
    <3>1. issued' = issued /\ spent' = spent
      BY <2>2 DEF providerVars
    <3> QED
      BY <1>2, <1>4, <2>0, <2>2, <3>1, FailGood
  <2>3. ASSUME NEW both \in BOOLEAN, Issue(f, both), spent' = spent \cup {f}, Fail(h)
        PROVE  VaultInv'
    <3>1. Grows(issued, issued') /\ spent \subseteq spent'
      BY <2>0, <2>1, <2>3, Issued
    <3> QED
      BY <1>2, <2>0, <2>3, <3>1, FailGood
  <2>4. ASSUME NEW both \in BOOLEAN, Issue(f, both), spent' = spent \cup {f}, Parse(h, both)
        PROVE  VaultInv'
    <3>1. f \in spent' /\ spent \subseteq spent'
      BY <2>4
    <3> QED
      BY <1>2, <2>0, <2>1, <2>4, <3>1, ParseGood
  <2> QED
    BY <1>11, <2>2, <2>3, <2>4 DEF Exchange
<1>12. ASSUME NEW h \in Callback, Insert(h) PROVE VaultInv'
  <2>0. /\ h \in Task /\ pc[h] = "insert" /\ pc[h] \in Waiting /\ pc[h] \notin Ended
        /\ UNCHANGED <<issued, master, started, spent>>
    BY <1>3, <1>12 DEF Insert, brokerVars, providerVars, Waiting, Ended
  <2>1. CASE Fail(h) /\ UNCHANGED account
    BY <1>2, <1>4, <2>0, <2>1, FailGood
  <2> DEFINE row == Columns(loc[h].row.flow, loc[h].newAccess, loc[h].newRefresh)
  <2>2. CASE /\ account' = [account EXCEPT ![h] = row] /\ Goto(h, "connected")
             /\ loc' = [loc EXCEPT ![h] = NoLocals]
    <3>1. /\ row.flow = loc[h].row.flow /\ row.access = loc[h].newAccess
          /\ row.refresh = loc[h].newRefresh
      BY DEF Columns
    <3>2. loc[h].row.flow \in spent /\ loc[h].newAccess # Null
      BY <1>6, <2>0 DEF GoodPlace, Storing
    <3>3. GoodLocals(loc[h], issued, master)
      BY <1>6, <2>0
    <3> HIDE DEF row
    <3>4. GoodRow(row, issued, master, spent)
      BY <3>1, <3>2, <3>3 DEF GoodRow, GoodLocals
    <3>5. account'[h] = row /\ \A g \in Callback \ {h} : account'[g] = account[g]
      BY <2>2 DEF VaultInv, World
    <3>6. pc'[h] = "connected" /\ "connected" \in Ended
      BY <2>0, <2>2 DEF Goto, VaultInv, World, Ended
    <3> QED
      BY <1>7, <2>0, <2>2, <3>4, <3>5, <3>6
  <2> QED
    BY <1>12, <2>1, <2>2 DEF Insert
<1>13. ASSUME NEW i \in Invocation, NEW h \in Callback, Load(i, h) PROVE VaultInv'
  <2> DEFINE r == [NoLocals EXCEPT !.acct = h, !.row = account[h]]
  <2>0. /\ i \in Task /\ i \notin Callback /\ pc[i] = "idle" /\ account[h] # None
        /\ UNCHANGED <<issued, master, started, spent, account>> /\ loc' = [loc EXCEPT ![i] = r]
    BY <1>3, <1>13 DEF Load, brokerVars, providerVars
  <2>1. /\ r.acct = h /\ r.row = account[h] /\ r.presented = 0 /\ r.access = 0
        /\ r.refresh = 0 /\ r.newAccess = Null /\ r.newRefresh = Null
    BY DEF NoLocals
  <2> HIDE DEF r
  <2>2. Refers(r, account, pc, issued, master, spent)
    BY <2>0, <2>1 DEF Refers, VaultInv, RowsGood
  <2>3. GoodLocals(r, issued, master)
    BY <2>1 DEF GoodLocals
  <2>4. PICK p \in {"open", "decrypt", "audit"} :
          Goto(i, p) /\ (p = "decrypt" => account[h].refresh # Null)
    BY <1>13 DEF Load
  <2>5. r.acct # None
    BY <2>1, VaultAssumption
  <2>6. GoodPlace(i, p, r, started, spent)
    BY <2>0, <2>1, <2>4, <2>5 DEF GoodPlace, Waiting, Ended, Storing
  <2>7. pc' = [pc EXCEPT ![i] = p]
    BY <2>4 DEF Goto
  <2> QED
    BY <1>2, <1>4, <1>5, <2>0, <2>2, <2>3, <2>6, <2>7, GoodStep
<1>14. ASSUME NEW i \in Invocation, OpenAccess(i) \/ DecryptRefresh(i) PROVE VaultInv'
  <2>0. /\ i \in Task /\ i \notin Callback /\ pc[i] \in {"open", "decrypt"} /\ pc[i] \in Waiting
        /\ UNCHANGED <<issued, master, started, spent, account>>
    BY <1>3, <1>14 DEF OpenAccess, DecryptRefresh, brokerVars, providerVars, Waiting
  <2>1. CASE Fail(i)
    BY <1>2, <1>4, <2>0, <2>1, FailGood
  <2>2. loc[i].acct # None
    BY <1>6, <2>0 DEF GoodPlace, Waiting
  <2>3. ASSUME NEW token \in Given(issued, loc[i].row.flow, "access"), Goto(i, "call"),
               loc' = [loc EXCEPT ![i].access = token]
        PROVE  VaultInv'
    <3> DEFINE r == [loc[i] EXCEPT !.access = token]
    <3>1. loc' = [loc EXCEPT ![i] = r]
      BY <2>3
    <3>2. /\ r.acct = loc[i].acct /\ r.row = loc[i].row /\ r.access = token
          /\ r.presented = loc[i].presented /\ r.refresh = loc[i].refresh
          /\ r.newAccess = loc[i].newAccess /\ r.newRefresh = loc[i].newRefresh
      BY <1>6, <2>0 DEF Field
    <3> HIDE DEF r
    <3>3. GoodLocals(r, issued, master)
      BY <1>6, <2>0, <3>2 DEF GoodLocals
    <3>4. GoodPlace(i, "call", r, started, spent)
      BY <1>6, <2>0, <2>2, <3>2 DEF GoodPlace, Waiting, Ended, Storing
    <3> QED
      BY <1>8, <2>0, <2>3, <3>1, <3>2, <3>3, <3>4
  <2>4. ASSUME NEW token \in Given(issued, loc[i].row.flow, "refresh"), Goto(i, "redeem"),
               loc' = [loc EXCEPT ![i].presented = token, ![i].refreshed = TRUE]
        PROVE  VaultInv'
    <3> DEFINE r == [loc[i] EXCEPT !.presented = token, !.refreshed = TRUE]
    <3>1. loc' = [loc EXCEPT ![i] = r]
      BY <2>4
    <3>2. /\ r.acct = loc[i].acct /\ r.row = loc[i].row /\ r.access = loc[i].access
          /\ r.presented = token /\ r.refresh = loc[i].refresh
          /\ r.newAccess = loc[i].newAccess /\ r.newRefresh = loc[i].newRefresh
      BY <1>6, <2>0 DEF Field
    <3> HIDE DEF r
    <3>3. GoodLocals(r, issued, master)
      BY <1>6, <2>0, <3>2 DEF GoodLocals
    <3>4. GoodPlace(i, "redeem", r, started, spent)
      BY <1>6, <2>0, <2>2, <3>2 DEF GoodPlace, Waiting, Ended, Storing
    <3> QED
      BY <1>8, <2>0, <2>4, <3>1, <3>2, <3>3, <3>4
  <2>5. CASE OpenAccess(i)
    <3>1. Decrypt(master, loc[i].row.access) # Refused =>
            Decrypt(master, loc[i].row.access) \in Given(issued, loc[i].row.flow, "access")
      BY <2>0, OpensRow
    <3> QED
      BY <2>1, <2>3, <2>5, <3>1 DEF OpenAccess
  <2>6. CASE DecryptRefresh(i)
    <3>1. Decrypt(master, loc[i].row.refresh) # Refused =>
            Decrypt(master, loc[i].row.refresh) \in Given(issued, loc[i].row.flow, "refresh")
      BY <2>0, <2>6, OpensRow DEF DecryptRefresh
    <3> QED
      BY <2>1, <2>4, <2>6, <3>1 DEF DecryptRefresh
  <2> QED
    BY <1>14, <2>5, <2>6
<1>15. ASSUME NEW i \in Invocation, Redeem(i) PROVE VaultInv'
  <2> DEFINE f == loc[i].row.flow
  <2>0. /\ i \in Task /\ pc[i] = "redeem" /\ pc[i] \in Waiting
        /\ UNCHANGED <<master, started, account, spent>> /\ issued \in Seq(Entry)
    BY <1>3, <1>15 DEF Redeem, brokerVars, Waiting, VaultInv, World
  <2>1. loc[i].acct # None
    BY <1>6, <2>0 DEF GoodPlace, Waiting
  <2>2. f \in spent /\ f \in Flow
    BY <1>6, <2>0, <2>1 DEF Refers, GoodRow, VaultInv, World
  <2>3. CASE Fail(i) /\ UNCHANGED issued
    BY <1>2, <1>4, <2>0, <2>3, FailGood
  <2>4. ASSUME NEW both \in BOOLEAN, Issue(f, both), Fail(i) PROVE VaultInv'
    <3>1. Grows(issued, issued')
      BY <2>0, <2>2, <2>4, Issued
    <3> QED
      BY <1>2, <1>4, <2>0, <2>4, <3>1, FailGood
  <2>5. ASSUME NEW both \in BOOLEAN, Issue(f, both), Parse(i, both) PROVE VaultInv'
    BY <1>2, <1>4, <2>0, <2>1, <2>2, <2>5, ParseGood
  <2> QED
    BY <1>15, <2>3, <2>4, <2>5 DEF Redeem
<1>16. ASSUME NEW i \in Invocation, Commit(i) PROVE VaultInv'
  <2>0. /\ i \in Task /\ i \notin Callback /\ pc[i] = "commit" /\ pc[i] \in Waiting
        /\ UNCHANGED <<issued, master, started, spent>>
    BY <1>3, <1>16 DEF Commit, brokerVars, providerVars, Waiting
  <2>1. loc[i].acct # None
    BY <1>6, <2>0 DEF GoodPlace, Waiting
  <2> DEFINE r == [loc[i] EXCEPT !.presented = 0, !.refresh = 0,
                                 !.newAccess = Null, !.newRefresh = Null]
  <2>2. CASE /\ account' = [account EXCEPT ![loc[i].acct] = Flushed(i)]
             /\ loc' = [loc EXCEPT ![i] = r] /\ Goto(i, "call")
    <3>1. /\ r.acct = loc[i].acct /\ r.row = loc[i].row /\ r.access = loc[i].access
          /\ r.presented = 0 /\ r.refresh = 0 /\ r.newAccess = Null /\ r.newRefresh = Null
      BY <1>6, <2>0 DEF Field
    <3> HIDE DEF r
    <3>2. GoodLocals(r, issued, master)
      BY <1>6, <2>0, <3>1 DEF GoodLocals
    <3>3. GoodPlace(i, "call", r, started, spent)
      BY <1>6, <2>0, <2>1, <3>1 DEF GoodPlace, Waiting, Ended, Storing
    <3>4. Refers(r, account, pc, issued, master, spent)
      BY <1>6, <2>0, <2>1, <3>1 DEF Refers
    <3>5. pc' = [pc EXCEPT ![i] = "call"]
      BY <2>2 DEF Goto
    <3>6. \A h \in Callback : pc'[h] = pc[h]
      BY <2>0, <3>5 DEF VaultInv, World
    <3>7. \A h \in Callback :
            \/ account'[h] = account[h]
            \/ /\ GoodRow(account'[h], issued, master, spent) /\ pc'[h] = "connected"
               /\ pc[h] = "connected" => account'[h].flow = account[h].flow
      BY <2>1, <2>2, <3>6, FlushedGood DEF VaultInv, World
    <3> QED
      BY <1>2, <1>4, <1>5, <2>0, <2>2, <3>2, <3>3, <3>4, <3>5, <3>7, GoodStep
  <2>3. CASE loc' = [loc EXCEPT ![i] = NoLocals] /\ Goto(i, "audit") /\ UNCHANGED account
    <3>1. GoodPlace(i, "audit", NoLocals, started, spent)
      BY <2>0, NoLocalsGood DEF GoodPlace, Waiting, Ended, Storing
    <3>2. pc' = [pc EXCEPT ![i] = "audit"]
      BY <2>3 DEF Goto
    <3> QED
      BY <1>2, <1>4, <1>5, <2>0, <2>3, <3>1, <3>2, NoLocalsGood, GoodStep
  <2> QED
    BY <1>16, <2>2, <2>3 DEF Commit
<1>17. ASSUME NEW i \in Invocation, EndCall(i) PROVE VaultInv'
  <2> DEFINE r == [loc[i] EXCEPT !.access = 0]
  <2>0. /\ i \in Task /\ i \notin Callback /\ pc[i] = "call" /\ pc[i] \in Waiting
        /\ UNCHANGED <<issued, master, started, spent, account>> /\ loc' = [loc EXCEPT ![i] = r]
    BY <1>3, <1>17 DEF EndCall, brokerVars, providerVars, Waiting
  <2>1. loc[i].acct # None
    BY <1>6, <2>0 DEF GoodPlace, Waiting
  <2>2. /\ r.acct = loc[i].acct /\ r.row = loc[i].row /\ r.access = 0
        /\ r.presented = loc[i].presented /\ r.refresh = loc[i].refresh
        /\ r.newAccess = loc[i].newAccess /\ r.newRefresh = loc[i].newRefresh
    BY <1>6, <2>0 DEF Field
  <2> HIDE DEF r
  <2>3. GoodLocals(r, issued, master)
    BY <1>6, <2>0, <2>2 DEF GoodLocals
  <2>4. PICK p \in {"decrypt", "audit"} :
          Goto(i, p) /\ (p = "decrypt" => loc[i].row.refresh # Null)
    BY <1>17 DEF EndCall
  <2>5. GoodPlace(i, p, r, started, spent)
    BY <1>6, <2>0, <2>1, <2>2, <2>4 DEF GoodPlace, Waiting, Ended, Storing
  <2> QED
    BY <1>8, <2>0, <2>2, <2>3, <2>4, <2>5
<1>18. ASSUME NEW i \in Invocation, RecordCall(i) PROVE VaultInv'
  <2>0. /\ i \in Task /\ i \notin Callback /\ pc[i] \in Waiting /\ "replied" \in Ended
        /\ UNCHANGED <<issued, master, started, spent>>
        /\ loc' = [loc EXCEPT ![i] = NoLocals] /\ Goto(i, "replied")
    BY <1>3, <1>18 DEF RecordCall, brokerVars, providerVars, Waiting, Ended
  <2>1. \A h \in Callback : pc'[h] = pc[h]
    BY <2>0 DEF Goto, VaultInv, World
  <2>2. \A h \in Callback :
          \/ account'[h] = account[h]
          \/ /\ GoodRow(account'[h], issued, master, spent) /\ pc'[h] = "connected"
             /\ pc[h] = "connected" => account'[h].flow = account[h].flow
    BY <1>18, <2>1, FlushedGood DEF RecordCall, VaultInv, World
  <2> QED
    BY <1>7, <2>0, <2>2
<1>19. ASSUME NEW t \in Task, EncryptAccess(t) \/ EncryptRefresh(t) PROVE VaultInv'
  <2>0. /\ pc[t] \in {"encAccess", "encRefresh"} /\ pc[t] \in Waiting
        /\ UNCHANGED <<issued, master, started, spent, account>>
    BY <1>19 DEF EncryptAccess, EncryptRefresh, brokerVars, providerVars, Waiting
  <2>1. CASE Fail(t)
    BY <1>2, <1>4, <2>0, <2>1, FailGood
  <2>2. /\ t \in Callback => loc[t].row.flow \in spent
        /\ t \in Invocation => loc[t].acct # None
    BY <1>6, <2>0 DEF GoodPlace, Waiting, Storing
  <2>3. t \in Callback \/ t \in Invocation
    BY DEF Task
  <2>4. master \in 0..master
    BY VaultAssumption DEF VaultInv, World
  <2>5. CASE EncryptAccess(t) /\ ~Fail(t)
    <3> DEFINE blob == Encrypt(master, loc[t].access)
               r == [loc[t] EXCEPT !.newAccess = blob]
               p == IF loc[t].refresh # 0 THEN "encRefresh"
                    ELSE IF t \in Callback THEN "insert" ELSE "commit"
    <3>1. blob # Null /\ loc' = [loc EXCEPT ![t] = r] /\ Goto(t, p) /\ pc[t] = "encAccess"
      BY <2>5 DEF EncryptAccess
    <3>2. loc[t].access \in Given(issued, loc[t].row.flow, "access")
      BY <1>6, <3>1 DEF GoodPlace, GoodLocals
    <3>3. Sealed(blob, issued, master, loc[t].row.flow, "access")
      BY <2>4, <3>1, <3>2 DEF Sealed
    <3> HIDE DEF blob
    <3>4. /\ r.acct = loc[t].acct /\ r.row = loc[t].row /\ r.access = loc[t].access
          /\ r.presented = loc[t].presented /\ r.refresh = loc[t].refresh
          /\ r.newAccess = blob /\ r.newRefresh = loc[t].newRefresh
      BY <1>6 DEF Field
    <3> HIDE DEF r
    <3>5. GoodLocals(r, issued, master)
      BY <1>6, <3>3, <3>4 DEF GoodLocals
    <3>6. GoodPlace(t, p, r, started, spent)
      BY <1>3, <1>6, <2>2, <2>3, <3>1, <3>4 DEF GoodPlace, Waiting, Ended, Storing
    <3>7. p # "connected"
      OBVIOUS
    <3> HIDE DEF p
    <3> QED
      BY <1>8, <2>0, <3>1, <3>4, <3>5, <3>6, <3>7
  <2>6. CASE EncryptRefresh(t) /\ ~Fail(t)
    <3> DEFINE blob == Encrypt(master, loc[t].refresh)
               r == [loc[t] EXCEPT !.newRefresh = blob]
               p == IF t \in Callback THEN "insert" ELSE "commit"
    <3>1. blob # Null /\ loc' = [loc EXCEPT ![t] = r] /\ Goto(t, p) /\ pc[t] = "encRefresh"
      BY <2>6 DEF EncryptRefresh
    <3>2. loc[t].refresh \in Given(issued, loc[t].row.flow, "refresh") /\ loc[t].newAccess # Null
      BY <1>6, <3>1 DEF GoodPlace, GoodLocals
    <3>3. Sealed(blob, issued, master, loc[t].row.flow, "refresh")
      BY <2>4, <3>1, <3>2 DEF Sealed
    <3> HIDE DEF blob
    <3>4. /\ r.acct = loc[t].acct /\ r.row = loc[t].row /\ r.access = loc[t].access
          /\ r.presented = loc[t].presented /\ r.refresh = loc[t].refresh
          /\ r.newAccess = loc[t].newAccess /\ r.newRefresh = blob
      BY <1>6 DEF Field
    <3> HIDE DEF r
    <3>5. GoodLocals(r, issued, master)
      BY <1>6, <3>3, <3>4 DEF GoodLocals
    <3>6. GoodPlace(t, p, r, started, spent)
      BY <1>3, <1>6, <2>2, <2>3, <3>1, <3>2, <3>4 DEF GoodPlace, Waiting, Ended, Storing
    <3>7. p # "connected"
      OBVIOUS
    <3> HIDE DEF p
    <3> QED
      BY <1>8, <2>0, <3>1, <3>4, <3>5, <3>6, <3>7
  <2> QED
    BY <1>19, <2>1, <2>5, <2>6
<1>20. ASSUME NEW t \in Task, Log(t) PROVE VaultInv'
  BY <1>2, <1>20, SameTasks DEF Log, brokerVars, providerVars
<1>21. ASSUME NEW t \in Task, Cut(t) PROVE VaultInv'
  <2>1. "cut" \in Ended
    BY DEF Ended
  <2> QED
    BY <1>7, <1>21, <2>1 DEF Cut, brokerVars, providerVars
<1>22. CASE Restart
  <2>1. /\ loc' = [t \in Task |-> NoLocals] /\ UNCHANGED <<started, spent, issued, account>>
        /\ pc' = [t \in Task |-> IF pc[t] \in Waiting THEN "cut" ELSE pc[t]]
    BY <1>22 DEF Restart, providerVars
  <2>2. master \in Nat /\ master' \in Nat /\ master <= master'
    BY <1>22, VaultAssumption DEF Restart, VaultInv, World
  <2>3. \A q : GoodRow(q, issued, master, spent) => GoodRow(q, issued, master', spent)
    BY <1>4, <2>2, GoodGrows
  <2>4. RowsGood'
    BY <1>3, <1>5, <2>1, <2>3 DEF VaultInv, RowsGood, Waiting
  <2>5. TasksGood'
    <3> SUFFICES ASSUME NEW t \in Task
                 PROVE  /\ GoodLocals(NoLocals, issued', master')
                        /\ GoodPlace(t, pc'[t], NoLocals, started', spent')
                        /\ NoLocals.acct = None
      BY <2>1 DEF TasksGood
    <3>1. pc'[t] \in {"idle"} \cup Ended
      BY <2>1 DEF VaultInv, World, Ended
    <3>2. GoodPlace(t, pc'[t], NoLocals, started', spent')
      BY <3>1, NoLocalsGood DEF GoodPlace, Waiting, Ended, Storing
    <3> QED
      BY <3>2, NoLocalsGood
  <2> QED
    BY <1>2, <2>4, <2>5 DEF VaultInv
<1> QED
  BY <1>9, <1>10, <1>11, <1>12, <1>13, <1>14, <1>15, <1>16, <1>17, <1>18, <1>19, <1>20, <1>21,
     <1>22 DEF Next

LEMMA VaultInit == Init => Inv /\ VaultInv
<1> SUFFICES ASSUME Init PROVE Inv /\ VaultInv
  OBVIOUS
<1>1. Inv
  BY NoLocalsShape DEF Init, Inv, LocalsShape, HeldRegistered, OnlyMalformedLeaks, Held
<1>2. World
  BY VaultAssumption DEF Init, World
<1>3. RowsGood
  BY DEF Init, RowsGood, Task
<1>4. TasksGood
  <2>1. \A t \in Task : GoodPlace(t, "idle", NoLocals, started, spent)
    BY NoLocalsGood DEF GoodPlace, Waiting, Storing
  <2> QED
    BY <2>1, NoLocalsGood DEF Init, TasksGood
<1> QED
  BY <1>1, <1>2, <1>3, <1>4 DEF VaultInv

LEMMA VaultInvariant == Spec => [](Inv /\ VaultInv)
<1>1. Inv /\ VaultInv /\ [Next]_vars => (Inv /\ VaultInv)'
  BY InvNext, VaultNext
<1> QED
  BY <1>1, VaultInit, PTL DEF Spec

(* A column opens to a token of its flow and kind, or after the loss of    *)
(* the master key not at all.                                              *)
LEMMA ColumnReadable ==
  ASSUME VaultInv, NEW c, NEW f, NEW kind, Sealed(c, issued, master, f, kind)
  PROVE  /\ Stored(c) \in IssuedTo(f, kind)
                            \cup (IF keyed \/ restarts = 0 THEN {} ELSE {Refused})
         /\ \A b \in Damaged(c) : Stored(b) = Refused
<1>1. master \in Nat /\ Len(issued) \in Nat /\ (keyed \/ restarts = 0 => master = 0)
  BY LenProperties, VaultAssumption DEF VaultInv, World
<1>2. IssuedTo(f, kind) = Given(issued, f, kind)
  BY DEF IssuedTo, Given
<1>3. /\ Decrypt(master, c) \in Given(issued, f, kind) \cup {Refused}
      /\ master = 0 => Decrypt(master, c) \in Given(issued, f, kind)
      /\ \A b \in Damaged(c) : Decrypt(master, b) = Refused
  BY <1>1, SealedOpens
<1> QED
  BY <1>1, <1>2, <1>3 DEF Stored

(* Every row, local and registered secret is what the code says it is, and *)
(* every token in it one the provider issued.                              *)
THEOREM TypeCorrect == Spec => []TypeOK
<1>1. ASSUME Inv, VaultInv PROVE TypeOK
  <2>1. World /\ master \in 0..MaxRestarts /\ 0..master \subseteq 0..MaxRestarts
    BY <1>1, VaultAssumption DEF VaultInv, World
  <2>2. \A c, f, kind : Sealed(c, issued, master, f, kind) => c # Null /\ Blob(c)
    BY <2>1 DEF Sealed, Given, Blob, Token
  <2>3. ASSUME NEW h \in Callback, account[h] # None
        PROVE  /\ account[h].flow \in Flow
               /\ account[h].access # Null /\ Blob(account[h].access) /\ Blob(account[h].refresh)
    <3>1. GoodRow(account[h], issued, master, spent)
      BY <1>1, <2>3 DEF VaultInv, RowsGood
    <3>2. account[h].flow \in Flow
      BY <2>1, <3>1 DEF GoodRow, World
    <3> QED
      BY <2>2, <3>1, <3>2 DEF GoodRow, Blob
  <2>4. \A t \in Task : Held(t) \subseteq Token
    BY <1>1, TokensIssued DEF Token
  <2>5. issued \in Seq([flow: Flow, kind: {"access", "refresh"}])
    BY <2>1 DEF World, Entry
  <2>6. live \in [Flow -> Token \cup {0}]
    <3>1. 0..Len(issued) = Token \cup {0}
      BY <2>5, LenProperties DEF Token
    <3> QED
      BY <2>1, <3>1 DEF World
  <2>7. registry \subseteq Token /\ emitted \subseteq {"wellFormed", "malformed"}
    BY <1>1, <2>1 DEF World, Token, Inv, OnlyMalformedLeaks
  <2> QED
    BY <2>1, <2>3, <2>4, <2>5, <2>6, <2>7 DEF TypeOK, World
<1> QED
  BY <1>1, VaultInvariant, PTL

(* Every column of an account opens to a token of its own kind that the    *)
(* provider issued to the account's own flow, whatever invocations         *)
(* refreshed it and however often the broker restarted with a configured   *)
(* key (kms.py:146-171, service.py:509-538, router.py:91-116).             *)
THEOREM RowsStayReadable == Spec => []StoredReadable
<1>1. ASSUME VaultInv PROVE StoredReadable
  <2> SUFFICES ASSUME NEW h \in Callback, account[h] # None
               PROVE  /\ Stored(account[h].access) \in IssuedTo(account[h].flow, "access")
                           \cup (IF keyed \/ restarts = 0 THEN {} ELSE {Refused})
                      /\ account[h].refresh # Null =>
                           Stored(account[h].refresh) \in IssuedTo(account[h].flow, "refresh")
                             \cup (IF keyed \/ restarts = 0 THEN {} ELSE {Refused})
    BY DEF StoredReadable
  <2>1. GoodRow(account[h], issued, master, spent)
    BY <1>1 DEF VaultInv, RowsGood
  <2> QED
    BY <1>1, <2>1, ColumnReadable DEF GoodRow
<1> QED
  BY <1>1, VaultInvariant, PTL

(* No damaged copy of a stored credential opens, for blobs of any size     *)
(* (kms.py:146-171).                                                       *)
THEOREM DamageIsRefused == Spec => []DamageRefused
<1>1. ASSUME VaultInv PROVE DamageRefused
  <2>1. \A h \in Callback : account[h] # None =>
          Sealed(account[h].access, issued, master, account[h].flow, "access")
    BY <1>1 DEF VaultInv, RowsGood, GoodRow
  <2> QED
    BY <1>1, <2>1, ColumnReadable DEF DamageRefused
<1> QED
  BY <1>1, VaultInvariant, PTL

-----------------------------------------------------------------------------
(* The refresh token the provider accepts is never overwritten.  All of    *)
(* this is about a broker with a configured key, whose master key is 0.    *)

(* The token in column c. *)
Opened(c) == Decrypt(0, c)

(* Flow f is, or is about to be, the flow of the account of callback h. *)
Owns(h, f, p, l, acc) ==
  \/ p[h] \in Storing /\ l[h].row.flow = f
  \/ p[h] = "connected" /\ acc[h].flow = f

OneOwner ==
  \A h, g \in Callback : \A f : Owns(h, f, pc, loc, account) /\ Owns(g, f, pc, loc, account) => h = g

LiveIssued == \A f \in Flow : live[f] \in Given(issued, f, "refresh") \cup {0}

(* Nobody presents token r, and no column holds it, loaded or stored. *)
Away(r, p, l, acc) ==
  /\ \A u \in Task : /\ l[u].presented # r
                     /\ l[u].row.refresh # Null => Opened(l[u].row.refresh) # r
  /\ \A h \in Callback :
       p[h] = "connected" /\ acc[h].refresh # Null => Opened(acc[h].refresh) # r

(* A new refresh token that is not committed yet is the one the provider   *)
(* accepts, and with one task only.                                        *)
SoleHolder ==
  \A t \in Task : loc[t].refresh # 0 =>
    /\ loc[t].refresh = live[loc[t].row.flow] /\ pc[t] \in Storing \cup {"commit"}
    /\ \A u \in Task \ {t} : loc[u].refresh # loc[t].refresh
    /\ Away(loc[t].refresh, pc, loc, account)

(* A refresh column is assigned the new token, right before the commit. *)
Assigned(p, r) ==
  /\ r.newRefresh # Null => /\ r.refresh # 0 /\ p \in {"insert", "commit"}
                            /\ Opened(r.newRefresh) = r.refresh
  /\ p \in {"insert", "commit"} /\ r.refresh # 0 => r.newRefresh # Null

ColumnsAssigned == \A t \in Task : Assigned(pc[t], loc[t])

TokenKept ==
  \A h \in Callback :
    (pc[h] = "connected" /\ account[h].refresh # Null /\ account[h].flow \notin lost) =>
      \/ Opened(account[h].refresh) = live[account[h].flow]
      \/ \E i \in Invocation : /\ loc[i].acct = h /\ loc[i].refresh # 0
                               /\ loc[i].refresh = live[account[h].flow]

KeptParts == OneOwner /\ LiveIssued /\ SoleHolder /\ ColumnsAssigned /\ TokenKept
KeptInv == keyed => KeptParts

(* With a configured key, what a good refresh column opens to. *)
LEMMA OpenedIssued ==
  ASSUME VaultInv, keyed
  PROVE  /\ master = 0 /\ Len(issued) \in Nat
         /\ \A r : GoodRow(r, issued, master, spent) /\ r.refresh # Null =>
                     /\ Opened(r.refresh) \in Given(issued, r.flow, "refresh")
                     /\ Opened(r.refresh) \in 1..Len(issued)
<1>1. master = 0 /\ Len(issued) \in Nat
  BY LenProperties DEF VaultInv, World
<1>2. ASSUME NEW r, GoodRow(r, issued, master, spent), r.refresh # Null
      PROVE  Opened(r.refresh) \in Given(issued, r.flow, "refresh")
  <2>1. Sealed(r.refresh, issued, 0, r.flow, "refresh")
    BY <1>1, <1>2 DEF GoodRow
  <2> QED
    BY <1>1, <2>1, SealedOpens DEF Opened
<1>3. \A f, kind : Given(issued, f, kind) \subseteq 1..Len(issued)
  BY DEF Given
<1> QED
  BY <1>1, <1>2, <1>3

(* Every token a task knows of has been issued. *)
LEMMA KnownIssued ==
  ASSUME VaultInv, keyed
  PROVE  /\ \A u \in Task : /\ loc[u].presented \in 0..Len(issued)
                            /\ loc[u].refresh \in 0..Len(issued)
                            /\ loc[u].row.refresh # Null =>
                                 Opened(loc[u].row.refresh) \in 1..Len(issued)
         /\ \A h \in Callback : pc[h] = "connected" /\ account[h].refresh # Null =>
              Opened(account[h].refresh) \in 1..Len(issued)
<1>1. /\ Len(issued) \in Nat
      /\ \A r : GoodRow(r, issued, master, spent) /\ r.refresh # Null =>
                  Opened(r.refresh) \in 1..Len(issued)
  BY OpenedIssued
<1>2. ASSUME NEW u \in Task
      PROVE  /\ loc[u].presented \in 0..Len(issued) /\ loc[u].refresh \in 0..Len(issued)
             /\ loc[u].row.refresh # Null => Opened(loc[u].row.refresh) \in 1..Len(issued)
  <2>1. /\ GoodLocals(loc[u], issued, master) /\ GoodPlace(u, pc[u], loc[u], started, spent)
        /\ (u \in Invocation /\ loc[u].acct # None) =>
             Refers(loc[u], account, pc, issued, master, spent)
    BY DEF VaultInv, TasksGood
  <2>2. loc[u].presented \in 0..Len(issued) /\ loc[u].refresh \in 0..Len(issued)
    BY <1>1, <2>1 DEF GoodLocals, Given
  <2>3. loc[u].row.refresh # Null => GoodRow(loc[u].row, issued, master, spent)
    BY <2>1 DEF GoodPlace, Refers, Task
  <2> QED
    BY <1>1, <2>2, <2>3
<1>3. \A h \in Callback : pc[h] = "connected" => GoodRow(account[h], issued, master, spent)
  BY DEF VaultInv, RowsGood
<1> QED
  BY <1>1, <1>2, <1>3

(* An owned flow has had its code redeemed. *)
LEMMA OwnedSpent ==
  ASSUME VaultInv, NEW h \in Callback, NEW f, Owns(h, f, pc, loc, account)
  PROVE  f \in spent
<1>1. h \in Task
  BY DEF Task
<1>2. GoodPlace(h, pc[h], loc[h], started, spent)
  BY <1>1 DEF VaultInv, TasksGood
<1>3. pc[h] = "connected" => GoodRow(account[h], issued, master, spent)
  BY DEF VaultInv, RowsGood
<1> QED
  BY <1>2, <1>3 DEF Owns, GoodPlace, GoodRow

(* Task t goes to p with locals r.  Its new refresh token is none, the one *)
(* it had, or one the provider has just issued ...                         *)
TakesRefresh(t, r, p) ==
  \/ r.refresh = 0
  \/ /\ r.refresh = loc[t].refresh /\ r.row = loc[t].row /\ r.acct = loc[t].acct
     /\ p \in Storing \cup {"commit"} /\ live' = live
  \/ /\ r.refresh \notin 0..Len(issued) /\ r.refresh = live'[r.row.flow]
     /\ p \in Storing \cup {"commit"}

(* ... it lets go of one only into its row, or into lost ... *)
DropsRefresh(t, r) ==
  (loc[t].refresh # 0 /\ r.refresh # loc[t].refresh) =>
    \/ t \in Callback
    \/ loc[t].row.flow \in lost'
    \/ Opened(account'[loc[t].acct].refresh) = loc[t].refresh

(* ... presents only what it loaded, and loads only what is stored. *)
Presents(t, r) ==
  \/ r.presented \in {0, loc[t].presented}
  \/ loc[t].row.refresh # Null /\ r.presented = Opened(loc[t].row.refresh)

Loads(t, r) ==
  \/ r.row.refresh = Null \/ r.row = loc[t].row
  \/ \E h \in Callback : pc[h] = "connected" /\ r.row = account[h]

(* A callback gets hold of a flow by redeeming its code. *)
Claims(t, r, p) ==
  (t \in Callback /\ p \in Storing) =>
    (pc[t] \in Storing /\ r.row = loc[t].row) \/ r.row.flow \notin spent

(* A refresh column stays as it is, or takes the token of task t. *)
Stores(t, r) ==
  \A h \in Callback : pc'[h] = "connected" =>
    \/ /\ pc[h] = "connected" /\ account'[h].flow = account[h].flow
       /\ account'[h].refresh = account[h].refresh
    \/ /\ Owns(h, account'[h].flow, pc, loc, account) /\ live' = live /\ r.refresh = 0
       /\ account'[h].flow = loc[t].row.flow
       /\ account'[h].refresh # Null => /\ loc[t].refresh # 0
                                        /\ Opened(account'[h].refresh) = loc[t].refresh

(* The provider replaces a token only as task t takes or loses its         *)
(* successor, while no other task has one of the flow's in its hands.      *)
Rotates(t, r) ==
  \A f \in Flow :
    \/ live'[f] = live[f]
    \/ /\ live'[f] \in Given(issued', f, "refresh")
       /\ \A u \in Task \ {t} : loc[u].refresh # 0 => loc[u].row.flow # f
       /\ \A h \in Callback : pc[h] = "connected" /\ account[h].flow = f =>
            \/ f \in lost'
            \/ /\ t \in Invocation /\ r.acct = h
               /\ r.refresh # 0 /\ r.refresh = live'[f]

LEMMA KeptStep ==
  ASSUME Inv, VaultInv, KeptParts, keyed, NEW t \in Task, NEW r, NEW p,
         loc' = [loc EXCEPT ![t] = r], pc' = [pc EXCEPT ![t] = p],
         Grows(issued, issued'), lost \subseteq lost',
         TakesRefresh(t, r, p), DropsRefresh(t, r), Presents(t, r), Loads(t, r),
         Assigned(p, r), Claims(t, r, p), Stores(t, r), Rotates(t, r)
  PROVE  KeptParts'
<1>1. /\ loc'[t] = r /\ pc'[t] = p
      /\ \A u \in Task \ {t} : loc'[u] = loc[u] /\ pc'[u] = pc[u]
  <2>1. loc = [u \in Task |-> loc[u]] /\ pc = [u \in Task |-> pc[u]]
    BY DEF Inv, LocalsShape, VaultInv, World
  <2> QED
    BY <2>1
<1>2. Callback \subseteq Task /\ Invocation \subseteq Task
  BY DEF Task
<1>3. /\ \A u \in Task : /\ loc[u].presented \in 0..Len(issued)
                         /\ loc[u].refresh \in 0..Len(issued)
                         /\ loc[u].row.refresh # Null =>
                              Opened(loc[u].row.refresh) \in 1..Len(issued)
      /\ \A h \in Callback : pc[h] = "connected" /\ account[h].refresh # Null =>
           Opened(account[h].refresh) \in 1..Len(issued)
      /\ Len(issued) \in Nat
  BY KnownIssued, OpenedIssued
<1>4. \A u \in Task : loc[u].refresh # 0 => loc[u].row.flow \in Flow
  BY GivenFlow DEF VaultInv, World, TasksGood, GoodLocals
<1>5. OneOwner'
  <2>1. ASSUME NEW h \in Callback, NEW f, Owns(h, f, pc', loc', account')
        PROVE  Owns(h, f, pc, loc, account) \/ (h = t /\ f \notin spent)
    <3>1. CASE pc'[h] = "connected" /\ account'[h].flow = f
      BY <3>1 DEF Stores, Owns
    <3>2. CASE pc'[h] \in Storing /\ loc'[h].row.flow = f /\ h # t
      BY <1>1, <1>2, <3>2 DEF Owns
    <3>3. CASE pc'[h] \in Storing /\ loc'[h].row.flow = f /\ h = t
      BY <1>1, <3>3 DEF Claims, Owns
    <3> QED
      BY <2>1, <3>1, <3>2, <3>3 DEF Owns
  <2>2. \A h \in Callback : \A f : Owns(h, f, pc, loc, account) => f \in spent
    BY OwnedSpent
  <2>3. OneOwner
    BY DEF KeptParts
  <2> SUFFICES ASSUME NEW h \in Callback, NEW g \in Callback, NEW f,
                      Owns(h, f, pc', loc', account'), Owns(g, f, pc', loc', account')
               PROVE  h = g
    BY DEF OneOwner
  <2> QED
    BY <2>1, <2>2, <2>3 DEF OneOwner
<1>6. LiveIssued'
  <2>1. \A f \in Flow : live[f] \in Given(issued, f, "refresh") \cup {0}
    BY DEF KeptParts, LiveIssued
  <2>2. \A f, k : Given(issued, f, k) \subseteq Given(issued', f, k)
    BY GivenGrows
  <2> QED
    BY <2>1, <2>2 DEF LiveIssued, Rotates
<1>7. ASSUME NEW x, x \notin {0, r.presented},
             \A u \in Task \ {t} : loc[u].presented # x,
             r.row.refresh # Null => Opened(r.row.refresh) # x,
             \A u \in Task \ {t} : loc[u].row.refresh # Null => Opened(loc[u].row.refresh) # x,
             \A h \in Callback : pc'[h] = "connected" /\ account'[h].refresh # Null =>
               Opened(account'[h].refresh) # x
      PROVE  Away(x, pc', loc', account')
  BY <1>1, <1>7 DEF Away
<1>8. SoleHolder'
  <2> SUFFICES ASSUME NEW u \in Task, loc'[u].refresh # 0
               PROVE  /\ loc'[u].refresh = live'[loc'[u].row.flow]
                      /\ pc'[u] \in Storing \cup {"commit"}
                      /\ \A v \in Task \ {u} : loc'[v].refresh # loc'[u].refresh
                      /\ Away(loc'[u].refresh, pc', loc', account')
    BY DEF SoleHolder
  <2>0. \A v \in Task : loc[v].refresh # 0 =>
          /\ loc[v].refresh = live[loc[v].row.flow] /\ pc[v] \in Storing \cup {"commit"}
          /\ \A w \in Task \ {v} : loc[w].refresh # loc[v].refresh
          /\ Away(loc[v].refresh, pc, loc, account)
    BY DEF KeptParts, SoleHolder
  <2>1. CASE u # t
    <3> DEFINE x == loc[u].refresh
    <3>0. loc'[u] = loc[u] /\ pc'[u] = pc[u] /\ x # 0 /\ x \in 0..Len(issued)
      BY <1>1, <1>3, <2>1
    <3>1. /\ x = live[loc[u].row.flow] /\ pc[u] \in Storing \cup {"commit"}
          /\ \A w \in Task \ {u} : loc[w].refresh # x
          /\ Away(x, pc, loc, account)
      BY <2>0, <3>0
    <3>2. x = live'[loc[u].row.flow]
      <4>1. loc[u].row.flow \in Flow /\ u \in Task \ {t}
        BY <1>4, <2>1, <3>0
      <4> QED
        BY <3>0, <3>1, <4>1 DEF Rotates
    <3> HIDE DEF x
    <3>3. r.refresh # x
      BY <2>1, <3>0, <3>1 DEF TakesRefresh
    <3>4. \A v \in Task \ {u} : loc'[v].refresh # x
      BY <1>1, <3>1, <3>3
    <3>5. Away(x, pc', loc', account')
      <4>1. r.presented # x
        BY <3>0, <3>1 DEF Presents, Away
      <4>2. r.row.refresh # Null => Opened(r.row.refresh) # x
        BY <3>1 DEF Loads, Away
      <4>3. \A h \in Callback : pc'[h] = "connected" /\ account'[h].refresh # Null =>
              Opened(account'[h].refresh) # x
        <5>1. loc[t].refresh # x
          BY <2>1, <3>1
        <5> QED
          BY <3>1, <5>1 DEF Stores, Away
      <4>4. \A v \in Task : /\ loc[v].presented # x
                            /\ loc[v].row.refresh # Null => Opened(loc[v].row.refresh) # x
        BY <3>1 DEF Away
      <4> QED
        BY <1>7, <3>0, <4>1, <4>2, <4>3, <4>4
    <3> QED
      BY <3>0, <3>1, <3>2, <3>4, <3>5 DEF x
  <2>2. CASE u = t /\ r.refresh \in 0..Len(issued)
    <3> DEFINE x == r.refresh
    <3>0. /\ loc'[t] = r /\ pc'[t] = p /\ x # 0
      BY <1>1, <2>2
    <3>1. /\ x = loc[t].refresh /\ r.row = loc[t].row
          /\ p \in Storing \cup {"commit"} /\ live' = live
      BY <2>2, <3>0 DEF TakesRefresh
    <3>2. /\ x = live[loc[t].row.flow]
          /\ \A w \in Task \ {t} : loc[w].refresh # x
          /\ Away(x, pc, loc, account)
      BY <2>0, <3>0, <3>1
    <3>3. x = live'[r.row.flow]
      BY <3>1, <3>2
    <3>4. \A h \in Callback : pc'[h] = "connected" /\ account'[h].refresh # Null =>
            Opened(account'[h].refresh) # x
      BY <3>0, <3>2 DEF Stores, Away
    <3> HIDE DEF x
    <3>5. \A v \in Task \ {t} : loc'[v].refresh # x
      BY <1>1, <3>2
    <3>6. Away(x, pc', loc', account')
      <4>1. r.presented # x
        BY <3>0, <3>2 DEF Presents, Away
      <4>2. r.row.refresh # Null => Opened(r.row.refresh) # x
        BY <3>2 DEF Loads, Away
      <4>3. \A v \in Task : /\ loc[v].presented # x
                            /\ loc[v].row.refresh # Null => Opened(loc[v].row.refresh) # x
        BY <3>2 DEF Away
      <4> QED
        BY <1>7, <3>0, <3>4, <4>1, <4>2, <4>3
    <3> QED
      BY <2>2, <3>0, <3>1, <3>3, <3>5, <3>6 DEF x
  <2>3. CASE u = t /\ r.refresh \notin 0..Len(issued)
    <3> DEFINE x == r.refresh
    <3>0. loc'[t] = r /\ pc'[t] = p /\ x # 0 /\ x \notin 0..Len(issued)
      BY <1>1, <2>3
    <3>1. x = live'[r.row.flow] /\ p \in Storing \cup {"commit"}
      BY <1>3, <2>3, <3>0 DEF TakesRefresh
    <3>2. \A h \in Callback : pc'[h] = "connected" /\ account'[h].refresh # Null =>
            Opened(account'[h].refresh) # x
      <4>1. \A h \in Callback : pc'[h] = "connected" =>
              pc[h] = "connected" /\ account'[h].refresh = account[h].refresh
        BY <3>0 DEF Stores
      <4>2. 1..Len(issued) \subseteq 0..Len(issued)
        BY <1>3
      <4> QED
        BY <1>3, <3>0, <4>1, <4>2
    <3> HIDE DEF x
    <3>3. \A v \in Task \ {t} : loc'[v].refresh # x
      BY <1>1, <1>3, <3>0
    <3>4. \A v \in Task : /\ loc[v].presented # x
                          /\ loc[v].row.refresh # Null => Opened(loc[v].row.refresh) # x
      <4>1. 1..Len(issued) \subseteq 0..Len(issued)
        BY <1>3
      <4> QED
        BY <1>3, <3>0, <4>1
    <3>5. r.presented # x
      BY <3>0, <3>4 DEF Presents
    <3>6. r.row.refresh # Null => Opened(r.row.refresh) # x
      <4>1. \A h \in Callback : pc[h] = "connected" /\ account[h].refresh # Null =>
              Opened(account[h].refresh) # x
        <5>1. 1..Len(issued) \subseteq 0..Len(issued)
          BY <1>3
        <5> QED
          BY <1>3, <3>0, <5>1
      <4> QED
        BY <3>4, <4>1 DEF Loads
    <3>7. Away(x, pc', loc', account')
      BY <1>7, <3>0, <3>2, <3>4, <3>5, <3>6
    <3> QED
      BY <2>3, <3>0, <3>1, <3>3, <3>7 DEF x
  <2> QED
    BY <2>1, <2>2, <2>3
<1>9. ColumnsAssigned'
  BY <1>1 DEF KeptParts, ColumnsAssigned
<1>10. TokenKept'
  <2> SUFFICES ASSUME NEW h \in Callback, pc'[h] = "connected", account'[h].refresh # Null,
                      account'[h].flow \notin lost'
               PROVE  \/ Opened(account'[h].refresh) = live'[account'[h].flow]
                      \/ \E i \in Invocation : /\ loc'[i].acct = h /\ loc'[i].refresh # 0
                                               /\ loc'[i].refresh = live'[account'[h].flow]
    BY DEF TokenKept
  <2> DEFINE f == account'[h].flow
  <2>1. CASE /\ pc[h] = "connected" /\ f = account[h].flow
             /\ account'[h].refresh = account[h].refresh
    <3>1. f \in Flow /\ f \notin lost
      BY <2>1 DEF VaultInv, World, RowsGood, GoodRow
    <3>2. CASE live'[f] # live[f]
      <4>1. t \in Invocation /\ r.acct = h /\ r.refresh # 0 /\ r.refresh = live'[f]
        BY <2>1, <3>1, <3>2 DEF Rotates
      <4> QED
        BY <1>1, <4>1
    <3>3. CASE live'[f] = live[f] /\ Opened(account[h].refresh) = live[f]
      BY <2>1, <3>3
    <3>4. CASE live'[f] = live[f] /\ Opened(account[h].refresh) # live[f]
      <4>1. PICK i \in Invocation : loc[i].acct = h /\ loc[i].refresh # 0 /\ loc[i].refresh = live[f]
        BY <2>1, <3>1, <3>4 DEF KeptParts, TokenKept
      <4>2. CASE i # t
        BY <1>1, <1>2, <3>4, <4>1, <4>2
      <4>3. CASE i = t /\ r.refresh = loc[t].refresh
        <5>1. r.acct = h
          BY <1>3, <4>1, <4>3 DEF TakesRefresh
        <5> QED
          BY <1>1, <3>4, <4>1, <4>3, <5>1
      <4>4. CASE i = t /\ r.refresh # loc[t].refresh
        <5>1. t \notin Callback /\ loc[t].acct # None
          BY <4>1, <4>4, VaultAssumption
        <5>2. loc[t].row.flow = f
          BY <2>1, <4>1, <4>4, <5>1 DEF VaultInv, TasksGood, Refers
        <5>3. Opened(account'[h].refresh) = loc[t].refresh
          BY <4>1, <4>4, <5>1, <5>2 DEF DropsRefresh
        <5> QED
          BY <3>4, <4>1, <4>4, <5>3
      <4> QED
        BY <4>2, <4>3, <4>4
    <3> QED
      BY <3>2, <3>3, <3>4
  <2>2. CASE /\ live' = live /\ f = loc[t].row.flow
             /\ loc[t].refresh # 0 /\ Opened(account'[h].refresh) = loc[t].refresh
    <3>1. loc[t].refresh = live[loc[t].row.flow]
      BY <2>2 DEF KeptParts, SoleHolder
    <3> QED
      BY <2>2, <3>1
  <2> QED
    BY <2>1, <2>2 DEF Stores
<1> QED
  BY <1>5, <1>6, <1>8, <1>9, <1>10 DEF KeptParts

(* A step that stores nothing and keeps the provider's tokens. *)
LEMMA KeptQuiet ==
  ASSUME Inv, VaultInv, KeptParts, keyed, NEW t \in Task, NEW r, NEW p,
         loc' = [loc EXCEPT ![t] = r], pc' = [pc EXCEPT ![t] = p], p # "connected",
         Grows(issued, issued'), lost \subseteq lost', Rotates(t, r),
         \A h \in Callback : pc[h] = "connected" =>
           account'[h].flow = account[h].flow /\ account'[h].refresh = account[h].refresh,
         TakesRefresh(t, r, p), DropsRefresh(t, r), Presents(t, r), Loads(t, r),
         Assigned(p, r), Claims(t, r, p)
  PROVE  KeptParts'
<1>1. pc = [u \in Task |-> pc[u]] /\ Callback \subseteq Task
  BY DEF VaultInv, World, Task
<1>2. \A h \in Callback : pc'[h] = "connected" => pc[h] = "connected"
  BY <1>1
<1>3. Stores(t, r)
  BY <1>2 DEF Stores
<1> QED
  BY <1>3, KeptStep

LEMMA SameLive ==
  ASSUME live' = live, NEW t, NEW r
  PROVE  Rotates(t, r)
BY DEF Rotates

LEMMA HolderSpent ==
  ASSUME VaultInv, KeptParts, NEW u \in Task, loc[u].refresh # 0
  PROVE  loc[u].row.flow \in spent
<1>1. pc[u] \in Storing \cup {"commit"}
  BY DEF KeptParts, SoleHolder
<1>2. /\ GoodPlace(u, pc[u], loc[u], started, spent)
      /\ (u \in Invocation /\ loc[u].acct # None) =>
           Refers(loc[u], account, pc, issued, master, spent)
  BY DEF VaultInv, TasksGood
<1>3. CASE u \in Callback
  BY <1>1, <1>2, <1>3 DEF GoodPlace, Storing, Ended
<1>4. CASE u \in Invocation
  <2>1. loc[u].acct # None
    BY <1>1, <1>2, <1>4 DEF GoodPlace, Storing, Waiting
  <2> QED
    BY <1>2, <1>4, <2>1 DEF Refers, GoodRow
<1> QED
  BY <1>3, <1>4 DEF Task

(* The provider issues a refresh token for flow f to the callback that     *)
(* redeems its code, or to an invocation that presents the newest one:     *)
(* no other task has one in its hands, and the row it goes to is f's.      *)
LEMMA IssueRotates ==
  ASSUME VaultInv, KeptParts, keyed, NEW t \in Task, NEW both \in BOOLEAN, NEW r, NEW f \in Flow,
         f = loc[t].row.flow, Issue(f, both),
         \/ t \in Callback /\ f \notin spent
         \/ /\ t \in Invocation /\ loc[t].acct # None
            /\ loc[t].presented = live[f]
            /\ both => f \in lost' \/ (r.acct = loc[t].acct /\ r.refresh = Len(issued) + 2)
  PROVE  Rotates(t, r)
<1>1. CASE ~both
  BY <1>1, SameLive DEF Issue
<1>2. CASE both
  <2>1. Len(issued) \in Nat /\ Len(issued) + 2 # 0
    BY LenProperties DEF VaultInv, World
  <2>2. live'[f] = Len(issued) + 2 /\ \A g \in Flow \ {f} : live'[g] = live[g]
    BY <1>2 DEF Issue, VaultInv, World
  <2>3. live'[f] \in Given(issued', f, "refresh")
    BY <1>2, <2>2, Issued DEF VaultInv, World
  <2>4. ASSUME NEW u \in Task \ {t}, loc[u].refresh # 0 PROVE loc[u].row.flow # f
    <3>1. /\ loc[u].row.flow \in spent
          /\ loc[u].refresh = live[loc[u].row.flow] /\ loc[t].presented # loc[u].refresh
      BY <2>4, HolderSpent DEF KeptParts, SoleHolder, Away
    <3> QED
      BY <3>1
  <2>5. ASSUME NEW h \in Callback, pc[h] = "connected", account[h].flow = f
        PROVE  \/ f \in lost'
               \/ t \in Invocation /\ r.acct = h /\ r.refresh # 0 /\ r.refresh = live'[f]
    <3>1. Owns(h, f, pc, loc, account)
      BY <2>5 DEF Owns
    <3>2. f \in spent
      BY <3>1, OwnedSpent
    <3>3. /\ t \in Invocation /\ loc[t].acct # None
          /\ f \in lost' \/ (r.acct = loc[t].acct /\ r.refresh = Len(issued) + 2)
      BY <1>2, <3>2
    <3>4. Refers(loc[t], account, pc, issued, master, spent)
      BY <3>3 DEF VaultInv, TasksGood
    <3>5. loc[t].acct \in Callback /\ Owns(loc[t].acct, f, pc, loc, account)
      BY <3>4 DEF Refers, Owns
    <3>6. loc[t].acct = h
      BY <3>1, <3>5 DEF KeptParts, OneOwner
    <3> QED
      BY <2>1, <2>2, <3>3, <3>6
  <2> QED
    BY <2>2, <2>3, <2>4, <2>5 DEF Rotates
<1> QED
  BY <1>1, <1>2

LEMMA NoLocalsKept ==
  /\ NoLocals.refresh = 0 /\ NoLocals.presented = 0 /\ NoLocals.row.refresh = Null
  /\ NoLocals.newRefresh = Null
  /\ \A p : Assigned(p, NoLocals)
BY DEF NoLocals, Columns, Assigned

(* A task that gives up. *)
LEMMA KeptLeave ==
  ASSUME Inv, VaultInv, KeptParts, keyed, NEW t \in Task, NEW p \in Ended \cup {"audit"},
         p # "connected", loc' = [loc EXCEPT ![t] = NoLocals], pc' = [pc EXCEPT ![t] = p],
         Grows(issued, issued'), lost \subseteq lost', Rotates(t, NoLocals),
         \A h \in Callback : pc[h] = "connected" =>
           account'[h].flow = account[h].flow /\ account'[h].refresh = account[h].refresh,
         loc[t].refresh # 0 => t \in Callback \/ loc[t].row.flow \in lost'
  PROVE  KeptParts'
<1>1. TakesRefresh(t, NoLocals, p) /\ DropsRefresh(t, NoLocals)
  BY NoLocalsKept DEF TakesRefresh, DropsRefresh
<1>2. Presents(t, NoLocals) /\ Loads(t, NoLocals) /\ Assigned(p, NoLocals)
  BY NoLocalsKept DEF Presents, Loads
<1>3. Claims(t, NoLocals, p)
  BY DEF Claims, Storing, Ended
<1> QED
  BY <1>1, <1>2, <1>3, KeptQuiet

LEMMA FailKept ==
  ASSUME Inv, VaultInv, KeptParts, keyed, NEW t \in Task, Fail(t), pc[t] # "commit",
         Grows(issued, issued'), lost \subseteq lost', account' = account, Rotates(t, NoLocals),
         loc[t].refresh # 0 => t \in Callback \/ loc[t].row.flow \in lost'
  PROVE  KeptParts'
<1>1. CASE t \in Callback
  <2>1. loc' = [loc EXCEPT ![t] = NoLocals] /\ pc' = [pc EXCEPT ![t] = "error"]
    BY <1>1 DEF Fail, Goto
  <2>2. "error" \in Ended \cup {"audit"}
    BY DEF Ended
  <2> QED
    BY <2>1, <2>2, KeptLeave
<1>2. CASE t \notin Callback
  <2> DEFINE r == [loc[t] EXCEPT !.presented = 0, !.access = 0, !.refresh = 0]
  <2>1. loc' = [loc EXCEPT ![t] = r] /\ pc' = [pc EXCEPT ![t] = "audit"] /\ t \in Invocation
    BY <1>2 DEF Fail, Goto, Task
  <2>2. loc[t] = [x \in Field |-> loc[t][x]]
    BY DEF Inv, LocalsShape
  <2>3. /\ r.row = loc[t].row /\ r.presented = 0 /\ r.refresh = 0
        /\ r.newRefresh = loc[t].newRefresh
    BY <2>2 DEF Field
  <2> HIDE DEF r
  <2>4. loc[t].newRefresh = Null
    <3>1. pc[t] # "insert"
      BY <2>1 DEF VaultInv, TasksGood, GoodPlace
    <3> QED
      BY <3>1 DEF KeptParts, ColumnsAssigned, Assigned
  <2>5. Assigned("audit", r) /\ TakesRefresh(t, r, "audit") /\ Presents(t, r) /\ Loads(t, r)
    BY <2>3, <2>4 DEF Assigned, TakesRefresh, Presents, Loads
  <2>6. DropsRefresh(t, r) /\ Claims(t, r, "audit")
    BY <1>2, <2>3 DEF DropsRefresh, Claims
  <2>7. Rotates(t, r)
    BY <2>3, NoLocalsKept DEF Rotates
  <2> QED
    BY <2>1, <2>5, <2>6, <2>7, KeptQuiet
<1> QED
  BY <1>1, <1>2

LEMMA ParseKept ==
  ASSUME Inv, VaultInv, KeptParts, keyed, NEW t \in Task, NEW both \in BOOLEAN, NEW f \in Flow,
         f = loc[t].row.flow, Issue(f, both), Parse(t, both),
         lost' = lost, account' = account, pc[t] \in {"exchange", "redeem"},
         \/ t \in Callback /\ f \notin spent
         \/ t \in Invocation /\ loc[t].acct # None /\ loc[t].presented = live[f]
  PROVE  KeptParts'
<1> DEFINE a == Len(issued) + 1
           b == IF both THEN Len(issued) + 2 ELSE 0
           r == [loc[t] EXCEPT !.access = a, !.refresh = b]
<1>1. loc' = [loc EXCEPT ![t] = r] /\ pc' = [pc EXCEPT ![t] = "encAccess"]
  BY DEF Parse, Goto
<1>2. Grows(issued, issued')
  BY Issued DEF VaultInv, World
<1>3. Len(issued) \in Nat /\ Len(issued) + 2 \notin 0..Len(issued)
  BY LenProperties DEF VaultInv, World
<1>4. loc[t] = [x \in Field |-> loc[t][x]]
  BY DEF Inv, LocalsShape
<1>5. both => live'[f] = Len(issued) + 2
  BY DEF Issue, VaultInv, World
<1>6. loc[t].refresh = 0 /\ loc[t].newRefresh = Null
  <2>1. loc[t].refresh = 0
    BY DEF KeptParts, SoleHolder, Storing
  <2> QED
    BY <2>1 DEF KeptParts, ColumnsAssigned, Assigned
<1>7. /\ r.acct = loc[t].acct /\ r.row = loc[t].row /\ r.presented = loc[t].presented
      /\ r.refresh = b /\ r.newRefresh = Null
  BY <1>4, <1>6 DEF Field
<1>8. b = 0 \/ (both /\ b = Len(issued) + 2)
  OBVIOUS
<1>9. both => b = Len(issued) + 2
  OBVIOUS
<1> HIDE DEF a, b, r
<1>10. Rotates(t, r)
  BY <1>7, <1>9, IssueRotates
<1>11. TakesRefresh(t, r, "encAccess")
  BY <1>3, <1>5, <1>7, <1>8 DEF TakesRefresh, Storing
<1>12. DropsRefresh(t, r) /\ Presents(t, r) /\ Loads(t, r) /\ Assigned("encAccess", r)
  BY <1>6, <1>7 DEF DropsRefresh, Presents, Loads, Assigned
<1>13. Claims(t, r, "encAccess")
  <2>1. t \in Callback => f \notin spent
    BY VaultAssumption
  <2> QED
    BY <1>7, <2>1 DEF Claims
<1> QED
  BY <1>1, <1>2, <1>10, <1>11, <1>12, <1>13, KeptQuiet

LEMMA KeptNext == Inv /\ VaultInv /\ KeptInv /\ [Next]_vars => KeptInv'
<1> SUFFICES ASSUME Inv, VaultInv, KeptInv, [Next]_vars, keyed' PROVE KeptParts'
  BY DEF KeptInv
<1>1. keyed
  BY DEF Next, vars, brokerVars, Authorize, ExpireState, BeginCallback, Exchange, Insert, Load,
         OpenAccess, DecryptRefresh, Redeem, Commit, EndCall, RecordCall, EncryptAccess,
         EncryptRefresh, Log, Cut, Restart
<1>2. KeptParts
  BY <1>1 DEF KeptInv
<1>3. ASSUME UNCHANGED <<pc, loc, account, issued, live, lost>> PROVE KeptParts'
  BY <1>2, <1>3 DEF KeptParts, OneOwner, LiveIssued, SoleHolder, ColumnsAssigned, TokenKept
<1>4. CASE UNCHANGED vars
  BY <1>3, <1>4 DEF vars
<1> SUFFICES ASSUME Next PROVE KeptParts'
  BY <1>4
<1>5. /\ Callback \subseteq Task /\ Invocation \subseteq Task
      /\ \A t \in Callback : t \notin Invocation
  BY VaultAssumption DEF Task
<1>6. Grows(issued, issued)
  BY GrowsSelf DEF VaultInv, World
<1>7. ASSUME NEW t \in Task
      PROVE  /\ loc[t] = [x \in Field |-> loc[t][x]]
             /\ GoodPlace(t, pc[t], loc[t], started, spent)
             /\ (t \in Invocation /\ loc[t].acct # None) =>
                   Refers(loc[t], account, pc, issued, master, spent)
             /\ Assigned(pc[t], loc[t])
             /\ loc[t].refresh # 0 => pc[t] \in Storing \cup {"commit"}
  BY <1>2 DEF Inv, LocalsShape, VaultInv, TasksGood, KeptParts, ColumnsAssigned, SoleHolder
<1>8. ASSUME NEW t \in Task, NEW r, NEW p, loc' = [loc EXCEPT ![t] = r], Goto(t, p),
             UNCHANGED <<issued, live, lost, account>>, p # "connected",
             TakesRefresh(t, r, p), DropsRefresh(t, r), Presents(t, r), Loads(t, r),
             Assigned(p, r), Claims(t, r, p)
      PROVE  KeptParts'
  <2>1. pc' = [pc EXCEPT ![t] = p] /\ Rotates(t, r)
    BY <1>8, SameLive DEF Goto
  <2> QED
    BY <1>1, <1>2, <1>6, <1>8, <2>1, KeptQuiet
<1>9. ASSUME NEW f \in Flow, Authorize(f) \/ ExpireState(f) PROVE KeptParts'
  BY <1>3, <1>9 DEF Authorize, ExpireState, providerVars
<1>10. ASSUME NEW h \in Callback, NEW f \in Flow, BeginCallback(h, f) PROVE KeptParts'
  <2>0. h \in Task /\ pc[h] = "idle" /\ UNCHANGED <<issued, live, lost, account>>
    BY <1>5, <1>10 DEF BeginCallback, providerVars
  <2>1. loc[h] = NoLocals /\ loc = [loc EXCEPT ![h] = loc[h]]
    <3>1. loc[h] = NoLocals
      BY <1>7, <2>0 DEF GoodPlace, Waiting
    <3> QED
      BY <2>0, <3>1 DEF Inv, LocalsShape
  <2>2. CASE Goto(h, "refused") /\ UNCHANGED loc
    <3>1. /\ loc' = [loc EXCEPT ![h] = NoLocals] /\ pc' = [pc EXCEPT ![h] = "refused"]
          /\ "refused" \in Ended \cup {"audit"} /\ Rotates(h, NoLocals)
      BY <2>0, <2>1, <2>2, SameLive DEF Goto, Ended
    <3> QED
      BY <1>1, <1>2, <1>6, <2>0, <3>1, KeptLeave
  <2> DEFINE r == [NoLocals EXCEPT !.acct = h, !.row.flow = f]
  <2>3. CASE Goto(h, "exchange") /\ loc' = [loc EXCEPT ![h] = r]
    <3>1. /\ r.row.refresh = Null /\ r.presented = 0 /\ r.refresh = 0 /\ r.newRefresh = Null
      BY DEF NoLocals, Columns
    <3> HIDE DEF r
    <3>2. /\ TakesRefresh(h, r, "exchange") /\ DropsRefresh(h, r) /\ Presents(h, r)
          /\ Loads(h, r) /\ Assigned("exchange", r) /\ Claims(h, r, "exchange")
      BY <3>1 DEF TakesRefresh, DropsRefresh, Presents, Loads, Assigned, Claims, Storing
    <3> QED
      BY <1>8, <2>0, <2>3, <3>2
  <2> QED
    BY <1>10, <2>2, <2>3 DEF BeginCallback
<1>11. ASSUME NEW h \in Callback, Exchange(h) PROVE KeptParts'
  <2> DEFINE f == loc[h].row.flow
  <2>0. /\ h \in Task /\ pc[h] = "exchange" /\ UNCHANGED <<account, lost>>
        /\ issued \in Seq(Entry) /\ lost \subseteq lost'
    BY <1>5, <1>11 DEF Exchange, VaultInv, World
  <2>1. f \in Flow
    BY <1>7, <2>0 DEF GoodPlace, VaultInv, World
  <2>2. CASE Fail(h) /\ UNCHANGED <<registry, providerVars>>
    <3>1. issued' = issued /\ Rotates(h, NoLocals)
      BY <2>2, SameLive DEF providerVars
    <3> QED
      BY <1>1, <1>2, <1>6, <2>0, <2>2, <3>1, FailKept
  <2>3. ASSUME NEW both \in BOOLEAN, Issue(f, both), f \notin spent, Fail(h)
        PROVE  KeptParts'
    <3>1. Grows(issued, issued')
      BY <2>0, <2>1, <2>3, Issued
    <3>2. Rotates(h, NoLocals)
      BY <1>1, <1>2, <2>0, <2>1, <2>3, IssueRotates
    <3> QED
      BY <1>1, <1>2, <2>0, <2>3, <3>1, <3>2, FailKept
  <2>4. ASSUME NEW both \in BOOLEAN, Issue(f, both), f \notin spent, Parse(h, both)
        PROVE  KeptParts'
    BY <1>1, <1>2, <2>0, <2>1, <2>4, ParseKept
  <2> QED
    BY <1>11, <2>2, <2>3, <2>4 DEF Exchange
<1>12. ASSUME NEW h \in Callback, Insert(h) PROVE KeptParts'
  <2>0. /\ h \in Task /\ pc[h] = "insert" /\ UNCHANGED <<issued, live, lost>>
        /\ lost \subseteq lost'
    BY <1>5, <1>12 DEF Insert, providerVars
  <2>1. CASE Fail(h) /\ UNCHANGED account
    <3>1. Rotates(h, NoLocals)
      BY <2>0, SameLive
    <3> QED
      BY <1>1, <1>2, <1>6, <2>0, <2>1, <3>1, FailKept
  <2> DEFINE row == Columns(loc[h].row.flow, loc[h].newAccess, loc[h].newRefresh)
  <2>2. CASE /\ account' = [account EXCEPT ![h] = row] /\ Goto(h, "connected")
             /\ loc' = [loc EXCEPT ![h] = NoLocals]
    <3>1. row.flow = loc[h].row.flow /\ row.refresh = loc[h].newRefresh
      BY DEF Columns
    <3> HIDE DEF row
    <3>2. account'[h] = row /\ \A g \in Callback \ {h} : account'[g] = account[g]
      BY <2>2 DEF VaultInv, World
    <3>3. pc' = [pc EXCEPT ![h] = "connected"] /\ \A g \in Callback \ {h} : pc'[g] = pc[g]
      BY <1>5, <2>0, <2>2 DEF Goto, VaultInv, World
    <3>4. Owns(h, row.flow, pc, loc, account)
      BY <2>0, <3>1 DEF Owns, Storing
    <3>5. Assigned("insert", loc[h])
      BY <1>7, <2>0
    <3>6. row.refresh # Null => loc[h].refresh # 0 /\ Opened(row.refresh) = loc[h].refresh
      BY <3>1, <3>5 DEF Assigned
    <3>7. Stores(h, NoLocals)
      BY <2>0, <3>1, <3>2, <3>3, <3>4, <3>6, NoLocalsKept DEF Stores
    <3>8. /\ TakesRefresh(h, NoLocals, "connected") /\ DropsRefresh(h, NoLocals)
          /\ Presents(h, NoLocals) /\ Loads(h, NoLocals) /\ Assigned("connected", NoLocals)
          /\ Claims(h, NoLocals, "connected") /\ Rotates(h, NoLocals)
      BY <2>0, NoLocalsKept, SameLive
      DEF TakesRefresh, DropsRefresh, Presents, Loads, Claims, Storing
    <3> QED
      BY <1>1, <1>2, <1>6, <2>0, <2>2, <3>3, <3>7, <3>8, KeptStep
  <2> QED
    BY <1>12, <2>1, <2>2 DEF Insert
<1>13. ASSUME NEW i \in Invocation, NEW h \in Callback, Load(i, h) PROVE KeptParts'
  <2> DEFINE r == [NoLocals EXCEPT !.acct = h, !.row = account[h]]
  <2>0. /\ i \in Task /\ i \notin Callback /\ pc[i] = "idle" /\ account[h] # None
        /\ UNCHANGED <<issued, live, lost, account>> /\ loc' = [loc EXCEPT ![i] = r]
    BY <1>5, <1>13 DEF Load, providerVars
  <2>1. r.row = account[h] /\ r.presented = 0 /\ r.refresh = 0 /\ r.newRefresh = Null
    BY DEF NoLocals
  <2> HIDE DEF r
  <2>2. PICK p \in {"open", "decrypt", "audit"} : Goto(i, p)
    BY <1>13 DEF Load
  <2>3. pc[h] = "connected"
    BY <2>0 DEF VaultInv, RowsGood
  <2>4. loc[i].refresh = 0
    BY <1>7, <2>0 DEF Storing
  <2>5. /\ TakesRefresh(i, r, p) /\ DropsRefresh(i, r) /\ Presents(i, r)
        /\ Loads(i, r) /\ Assigned(p, r) /\ Claims(i, r, p)
    BY <2>0, <2>1, <2>3, <2>4 DEF TakesRefresh, DropsRefresh, Presents, Loads, Assigned, Claims
  <2>6. p # "connected"
    BY <2>2
  <2> QED
    BY <1>8, <2>0, <2>2, <2>5, <2>6
<1>14. ASSUME NEW i \in Invocation, OpenAccess(i) \/ DecryptRefresh(i) PROVE KeptParts'
  <2>0. /\ i \in Task /\ i \notin Callback /\ pc[i] \in {"open", "decrypt"}
        /\ UNCHANGED <<issued, live, lost, account>> /\ lost \subseteq lost'
    BY <1>5, <1>14 DEF OpenAccess, DecryptRefresh, providerVars
  <2>1. loc[i].refresh = 0 /\ loc[i].newRefresh = Null
    <3>1. loc[i].refresh = 0 /\ Assigned(pc[i], loc[i])
      BY <1>7, <2>0 DEF Storing
    <3> QED
      BY <3>1 DEF Assigned
  <2>2. CASE Fail(i)
    <3>1. Rotates(i, NoLocals)
      BY <2>0, SameLive
    <3> QED
      BY <1>1, <1>2, <1>6, <2>0, <2>1, <2>2, <3>1, FailKept
  <2>3. CASE OpenAccess(i) /\ ~Fail(i)
    <3> DEFINE r == [loc[i] EXCEPT !.access = Decrypt(master, loc[i].row.access)]
    <3>1. loc' = [loc EXCEPT ![i] = r] /\ Goto(i, "call")
      BY <2>3 DEF OpenAccess
    <3>2. /\ r.row = loc[i].row /\ r.presented = loc[i].presented /\ r.refresh = 0
          /\ r.newRefresh = Null
      BY <1>7, <2>0, <2>1 DEF Field
    <3> HIDE DEF r
    <3>3. /\ TakesRefresh(i, r, "call") /\ DropsRefresh(i, r) /\ Presents(i, r)
          /\ Loads(i, r) /\ Assigned("call", r) /\ Claims(i, r, "call")
      BY <2>0, <2>1, <3>2 DEF TakesRefresh, DropsRefresh, Presents, Loads, Assigned, Claims
    <3> QED
      BY <1>8, <2>0, <3>1, <3>3
  <2>4. CASE DecryptRefresh(i) /\ ~Fail(i)
    <3> DEFINE r == [loc[i] EXCEPT !.presented = Decrypt(master, loc[i].row.refresh),
                                   !.refreshed = TRUE]
    <3>1. loc' = [loc EXCEPT ![i] = r] /\ Goto(i, "redeem") /\ pc[i] = "decrypt"
      BY <2>4 DEF DecryptRefresh
    <3>2. loc[i].row.refresh # Null /\ master = 0
      BY <1>1, <1>7, <2>0, <3>1, OpenedIssued DEF GoodPlace
    <3>3. /\ r.row = loc[i].row /\ r.presented = Opened(loc[i].row.refresh) /\ r.refresh = 0
          /\ r.newRefresh = Null
      BY <1>7, <2>0, <2>1, <3>2 DEF Field, Opened
    <3> HIDE DEF r
    <3>4. /\ TakesRefresh(i, r, "redeem") /\ DropsRefresh(i, r) /\ Presents(i, r)
          /\ Loads(i, r) /\ Assigned("redeem", r) /\ Claims(i, r, "redeem")
      BY <2>0, <2>1, <3>2, <3>3 DEF TakesRefresh, DropsRefresh, Presents, Loads, Assigned, Claims
    <3> QED
      BY <1>8, <2>0, <3>1, <3>4
  <2> QED
    BY <1>14, <2>2, <2>3, <2>4
<1>15. ASSUME NEW i \in Invocation, Redeem(i) PROVE KeptParts'
  <2> DEFINE f == loc[i].row.flow
  <2>0. /\ i \in Task /\ i \notin Callback /\ pc[i] = "redeem" /\ account' = account
        /\ issued \in Seq(Entry) /\ lost \subseteq lost' /\ loc[i].refresh = 0
    BY <1>5, <1>7, <1>15 DEF Redeem, VaultInv, World, Storing
  <2>1. loc[i].acct # None
    BY <1>7, <2>0 DEF GoodPlace, Waiting
  <2>2. f \in Flow
    BY <1>7, <2>0, <2>1 DEF Refers, GoodRow, VaultInv, World
  <2>3. CASE Fail(i) /\ UNCHANGED <<issued, live, lost>>
    <3>1. Rotates(i, NoLocals)
      BY <2>3, SameLive
    <3> QED
      BY <1>1, <1>2, <1>6, <2>0, <2>3, <3>1, FailKept
  <2>4. ASSUME NEW both \in BOOLEAN, Issue(f, both), loc[i].presented = live[f], Fail(i),
               lost' = IF both THEN lost \cup {f} ELSE lost
        PROVE  KeptParts'
    <3>1. Grows(issued, issued') /\ (both => f \in lost')
      BY <2>0, <2>2, <2>4, Issued
    <3>2. Rotates(i, NoLocals)
      BY <1>1, <1>2, <2>0, <2>1, <2>2, <2>4, <3>1, IssueRotates
    <3> QED
      BY <1>1, <1>2, <2>0, <2>4, <3>1, <3>2, FailKept
  <2>5. ASSUME NEW both \in BOOLEAN, Issue(f, both), loc[i].presented = live[f],
               Parse(i, both), lost' = lost
        PROVE  KeptParts'
    BY <1>1, <1>2, <2>0, <2>1, <2>2, <2>5, ParseKept
  <2> QED
    BY <1>15, <2>3, <2>4, <2>5 DEF Redeem
<1>16. ASSUME NEW i \in Invocation, Commit(i) PROVE KeptParts'
  <2>0. /\ i \in Task /\ i \notin Callback /\ pc[i] = "commit" /\ UNCHANGED <<issued, live>>
        /\ lost \subseteq lost'
    BY <1>5, <1>16 DEF Commit, providerVars, Forgets
  <2>1. loc[i].acct # None
    BY <1>7, <2>0 DEF GoodPlace, Waiting
  <2>2. Refers(loc[i], account, pc, issued, master, spent) /\ Assigned("commit", loc[i])
    BY <1>7, <2>0, <2>1
  <2> DEFINE h == loc[i].acct
             r == [loc[i] EXCEPT !.presented = 0, !.refresh = 0,
                                 !.newAccess = Null, !.newRefresh = Null]
  <2>3. h \in Callback /\ pc[h] = "connected" /\ account[h].flow = loc[i].row.flow
    BY <2>2 DEF Refers
  <2>4. /\ Flushed(i).flow = account[h].flow
        /\ Flushed(i).refresh = IF loc[i].newRefresh = Null THEN account[h].refresh
                                                            ELSE loc[i].newRefresh
    BY DEF Flushed, Columns, Updated
  <2>5. CASE /\ account' = [account EXCEPT ![h] = Flushed(i)]
             /\ loc' = [loc EXCEPT ![i] = r] /\ Goto(i, "call") /\ UNCHANGED lost
    <3>1. r.row = loc[i].row /\ r.presented = 0 /\ r.refresh = 0 /\ r.newRefresh = Null
      BY <1>7, <2>0 DEF Field
    <3> HIDE DEF r, h
    <3>2. account'[h] = Flushed(i) /\ \A g \in Callback \ {h} : account'[g] = account[g]
      BY <2>3, <2>5 DEF VaultInv, World
    <3>3. pc' = [pc EXCEPT ![i] = "call"] /\ \A g \in Callback : pc'[g] = pc[g]
      BY <1>5, <2>0, <2>5 DEF Goto, VaultInv, World
    <3>4. loc[i].newRefresh # Null => loc[i].refresh # 0 /\ Opened(loc[i].newRefresh) = loc[i].refresh
      BY <2>2 DEF Assigned
    <3>5. Owns(h, account[h].flow, pc, loc, account)
      BY <2>3 DEF Owns
    <3>6. Stores(i, r)
      <4> SUFFICES ASSUME NEW g \in Callback, pc'[g] = "connected"
                   PROVE  \/ /\ pc[g] = "connected" /\ account'[g].flow = account[g].flow
                             /\ account'[g].refresh = account[g].refresh
                          \/ /\ Owns(g, account'[g].flow, pc, loc, account)
                             /\ live' = live /\ r.refresh = 0
                             /\ account'[g].flow = loc[i].row.flow
                             /\ account'[g].refresh # Null =>
                                  /\ loc[i].refresh # 0
                                  /\ Opened(account'[g].refresh) = loc[i].refresh
        BY DEF Stores
      <4>1. CASE g # h
        BY <3>2, <3>3, <4>1
      <4>2. CASE g = h /\ loc[i].newRefresh = Null
        BY <2>3, <2>4, <3>2, <4>2
      <4>3. CASE g = h /\ loc[i].newRefresh # Null
        BY <2>0, <2>3, <2>4, <3>1, <3>2, <3>4, <3>5, <4>3
      <4> QED
        BY <4>1, <4>2, <4>3
    <3>7. DropsRefresh(i, r)
      <4>1. loc[i].refresh # 0 => loc[i].newRefresh # Null
        BY <2>2 DEF Assigned
      <4>2. loc[i].refresh # 0 => Opened(account'[h].refresh) = loc[i].refresh
        BY <2>4, <3>2, <3>4, <4>1
      <4> QED
        BY <4>2 DEF DropsRefresh, h
    <3>8. /\ TakesRefresh(i, r, "call") /\ Presents(i, r) /\ Loads(i, r)
          /\ Assigned("call", r) /\ Claims(i, r, "call") /\ Rotates(i, r)
      BY <2>0, <3>1, SameLive DEF TakesRefresh, Presents, Loads, Assigned, Claims
    <3> QED
      BY <1>1, <1>2, <1>6, <2>0, <2>5, <3>3, <3>6, <3>7, <3>8, KeptStep
  <2>6. CASE /\ loc' = [loc EXCEPT ![i] = NoLocals] /\ Goto(i, "audit")
             /\ lost' = Forgets(i) /\ UNCHANGED account
    <3>1. pc' = [pc EXCEPT ![i] = "audit"] /\ Rotates(i, NoLocals)
      BY <2>0, <2>6, SameLive DEF Goto
    <3>2. loc[i].refresh # 0 => loc[i].row.flow \in lost'
      BY <2>6 DEF Forgets
    <3> QED
      BY <1>1, <1>2, <1>6, <2>0, <2>6, <3>1, <3>2, KeptLeave
  <2> QED
    BY <1>16, <2>5, <2>6 DEF Commit
<1>17. ASSUME NEW i \in Invocation, EndCall(i) PROVE KeptParts'
  <2> DEFINE r == [loc[i] EXCEPT !.access = 0]
  <2>0. /\ i \in Task /\ i \notin Callback /\ pc[i] = "call"
        /\ UNCHANGED <<issued, live, lost, account>> /\ loc' = [loc EXCEPT ![i] = r]
    BY <1>5, <1>17 DEF EndCall, providerVars
  <2>1. loc[i].refresh = 0 /\ loc[i].newRefresh = Null
    <3>1. loc[i].refresh = 0 /\ Assigned(pc[i], loc[i])
      BY <1>7, <2>0 DEF Storing
    <3> QED
      BY <2>0, <3>1 DEF Assigned
  <2>2. /\ r.row = loc[i].row /\ r.presented = loc[i].presented /\ r.refresh = 0
        /\ r.newRefresh = Null
    BY <1>7, <2>0, <2>1 DEF Field
  <2> HIDE DEF r
  <2>3. PICK p \in {"decrypt", "audit"} : Goto(i, p)
    BY <1>17 DEF EndCall
  <2>4. /\ TakesRefresh(i, r, p) /\ DropsRefresh(i, r) /\ Presents(i, r)
        /\ Loads(i, r) /\ Assigned(p, r) /\ Claims(i, r, p)
    BY <2>0, <2>1, <2>2 DEF TakesRefresh, DropsRefresh, Presents, Loads, Assigned, Claims
  <2>5. p # "connected"
    BY <2>3
  <2> QED
    BY <1>8, <2>0, <2>3, <2>4, <2>5
<1>18. ASSUME NEW i \in Invocation, RecordCall(i) PROVE KeptParts'
  <2>0. /\ i \in Task /\ i \notin Callback /\ pc[i] = "audit" /\ "replied" \in Ended \cup {"audit"}
        /\ UNCHANGED <<issued, live, lost>> /\ lost \subseteq lost'
        /\ loc' = [loc EXCEPT ![i] = NoLocals] /\ pc' = [pc EXCEPT ![i] = "replied"]
    BY <1>5, <1>18 DEF RecordCall, providerVars, Ended, Goto
  <2>1. loc[i].refresh = 0 /\ loc[i].newRefresh = Null
    <3>1. loc[i].refresh = 0 /\ Assigned(pc[i], loc[i])
      BY <1>7, <2>0 DEF Storing
    <3> QED
      BY <2>0, <3>1 DEF Assigned
  <2>2. /\ Flushed(i).flow = account[loc[i].acct].flow
        /\ Flushed(i).refresh = account[loc[i].acct].refresh
    BY <2>1 DEF Flushed, Columns, Updated
  <2>3. account' = account \/ account' = [account EXCEPT ![loc[i].acct] = Flushed(i)]
    BY <1>18 DEF RecordCall
  <2>4. \A h \in Callback : pc[h] = "connected" =>
          account'[h].flow = account[h].flow /\ account'[h].refresh = account[h].refresh
    BY <2>2, <2>3 DEF VaultInv, World
  <2>5. Rotates(i, NoLocals)
    BY <2>0, SameLive
  <2> QED
    BY <1>1, <1>2, <1>6, <2>0, <2>1, <2>4, <2>5, KeptLeave
<1>19. ASSUME NEW t \in Task, EncryptAccess(t) \/ EncryptRefresh(t) PROVE KeptParts'
  <2>0. /\ pc[t] \in {"encAccess", "encRefresh"} /\ UNCHANGED <<issued, live, account>>
        /\ lost \subseteq lost'
    BY <1>19 DEF EncryptAccess, EncryptRefresh, providerVars, Forgets
  <2>1. loc[t].newRefresh = Null
    <3>1. Assigned(pc[t], loc[t])
      BY <1>7
    <3> QED
      BY <2>0, <3>1 DEF Assigned
  <2>2. CASE Fail(t) /\ lost' = Forgets(t)
    <3>1. Rotates(t, NoLocals)
      BY <2>0, SameLive
    <3>2. loc[t].refresh # 0 => loc[t].row.flow \in lost'
      BY <2>2 DEF Forgets
    <3> QED
      BY <1>1, <1>2, <1>6, <2>0, <2>2, <3>1, <3>2, FailKept
  <2>3. CASE EncryptAccess(t) /\ ~(Fail(t) /\ lost' = Forgets(t))
    <3> DEFINE r == [loc[t] EXCEPT !.newAccess = Encrypt(master, loc[t].access)]
               p == IF loc[t].refresh # 0 THEN "encRefresh"
                    ELSE IF t \in Callback THEN "insert" ELSE "commit"
    <3>1. loc' = [loc EXCEPT ![t] = r] /\ Goto(t, p) /\ UNCHANGED lost
      BY <2>3 DEF EncryptAccess
    <3>2. /\ r.acct = loc[t].acct /\ r.row = loc[t].row /\ r.presented = loc[t].presented
          /\ r.refresh = loc[t].refresh /\ r.newRefresh = Null
      BY <1>7, <2>1 DEF Field
    <3> HIDE DEF r
    <3>3. Assigned(p, r) /\ p # "connected" /\ p \in Storing \cup {"commit"}
      BY <3>2 DEF Assigned, Storing
    <3> HIDE DEF p
    <3>4. /\ TakesRefresh(t, r, p) /\ DropsRefresh(t, r) /\ Presents(t, r)
          /\ Loads(t, r) /\ Claims(t, r, p)
      BY <2>0, <3>2, <3>3 DEF TakesRefresh, DropsRefresh, Presents, Loads, Claims, Storing
    <3> QED
      BY <1>8, <2>0, <3>1, <3>3, <3>4
  <2>4. CASE EncryptRefresh(t) /\ ~(Fail(t) /\ lost' = Forgets(t))
    <3> DEFINE blob == Encrypt(master, loc[t].refresh)
               r == [loc[t] EXCEPT !.newRefresh = blob]
               p == IF t \in Callback THEN "insert" ELSE "commit"
    <3>1. /\ loc' = [loc EXCEPT ![t] = r] /\ Goto(t, p) /\ UNCHANGED lost
          /\ pc[t] = "encRefresh" /\ blob # <<>>
      BY <2>4 DEF EncryptRefresh, Null
    <3>2. loc[t].refresh # 0
      BY <1>7, <3>1 DEF GoodPlace
    <3>3. Opened(blob) = loc[t].refresh
      <4>1. master = 0 /\ 0 \in Nat /\ loc[t].refresh \in Nat \ {0}
        <5>1. loc[t].refresh \in 0..Len(issued) /\ Len(issued) \in Nat /\ master = 0
          BY <1>1, KnownIssued, OpenedIssued
        <5> QED
          BY <3>2, <5>1
      <4>2. Decrypt(0, Encrypt(0, loc[t].refresh)) = loc[t].refresh
        BY <3>1, <4>1, DecryptEncrypt
      <4> QED
        BY <4>1, <4>2 DEF Opened
    <3> HIDE DEF blob
    <3>4. /\ r.acct = loc[t].acct /\ r.row = loc[t].row /\ r.presented = loc[t].presented
          /\ r.refresh = loc[t].refresh /\ r.newRefresh = blob
      BY <1>7 DEF Field
    <3> HIDE DEF r
    <3>5. Assigned(p, r) /\ p # "connected" /\ p \in Storing \cup {"commit"}
      BY <3>1, <3>2, <3>3, <3>4 DEF Assigned, Storing, Null
    <3> HIDE DEF p
    <3>6. /\ TakesRefresh(t, r, p) /\ DropsRefresh(t, r) /\ Presents(t, r)
          /\ Loads(t, r) /\ Claims(t, r, p)
      BY <2>0, <3>4, <3>5 DEF TakesRefresh, DropsRefresh, Presents, Loads, Claims, Storing
    <3> QED
      BY <1>8, <2>0, <3>1, <3>5, <3>6
  <2> QED
    BY <1>19, <2>2, <2>3, <2>4 DEF EncryptAccess, EncryptRefresh
<1>20. ASSUME NEW t \in Task, Log(t) PROVE KeptParts'
  BY <1>3, <1>20 DEF Log, providerVars
<1>21. ASSUME NEW t \in Task, Cut(t) PROVE KeptParts'
  <2>1. /\ UNCHANGED <<issued, live, account>> /\ lost \subseteq lost'
        /\ "cut" \in Ended \cup {"audit"} /\ Rotates(t, NoLocals)
        /\ loc' = [loc EXCEPT ![t] = NoLocals] /\ pc' = [pc EXCEPT ![t] = "cut"]
        /\ loc[t].refresh # 0 => loc[t].row.flow \in lost'
    BY <1>21, SameLive DEF Cut, providerVars, Ended, Forgets, Goto
  <2> QED
    BY <1>1, <1>2, <1>6, <2>1, KeptLeave
<1>22. CASE Restart
  <2>1. /\ loc' = [t \in Task |-> NoLocals] /\ UNCHANGED <<issued, live, account>>
        /\ pc' = [t \in Task |-> IF pc[t] \in Waiting THEN "cut" ELSE pc[t]]
        /\ lost' = lost \cup UNION {Forgets(t) : t \in Task}
    BY <1>22 DEF Restart, providerVars
  <2>2. \A h \in Callback : pc'[h] \notin Storing /\ (pc'[h] = "connected" <=> pc[h] = "connected")
    BY <1>5, <2>1 DEF Waiting, Storing
  <2>3. \A t \in Task : loc'[t] = NoLocals
    BY <2>1
  <2>4. OneOwner'
    <3>1. \A h \in Callback : \A f :
            Owns(h, f, pc', loc', account') => Owns(h, f, pc, loc, account)
      BY <2>1, <2>2 DEF Owns
    <3> QED
      BY <1>2, <3>1 DEF KeptParts, OneOwner
  <2>5. LiveIssued'
    BY <1>2, <2>1 DEF KeptParts, LiveIssued
  <2>6. SoleHolder' /\ ColumnsAssigned'
    BY <2>3, NoLocalsKept DEF SoleHolder, ColumnsAssigned
  <2>7. TokenKept'
    <3> SUFFICES ASSUME NEW h \in Callback, pc[h] = "connected", account[h].refresh # Null,
                        account[h].flow \notin lost'
                 PROVE  Opened(account[h].refresh) = live[account[h].flow]
      BY <2>1, <2>2 DEF TokenKept
    <3>1. account[h].flow \notin lost
      BY <2>1
    <3> SUFFICES ASSUME NEW i \in Invocation, loc[i].acct = h, loc[i].refresh # 0 PROVE FALSE
      BY <1>2, <3>1 DEF KeptParts, TokenKept
    <3>2. Refers(loc[i], account, pc, issued, master, spent)
      BY <1>5, <1>7, VaultAssumption
    <3>3. account[h].flow = loc[i].row.flow
      BY <3>2 DEF Refers
    <3>4. account[h].flow \in Forgets(i)
      BY <3>3 DEF Forgets
    <3> QED
      BY <1>5, <2>1, <3>4
  <2> QED
    BY <2>4, <2>5, <2>6, <2>7 DEF KeptParts
<1> QED
  BY <1>9, <1>10, <1>11, <1>12, <1>13, <1>14, <1>15, <1>16, <1>17, <1>18, <1>19, <1>20, <1>21,
     <1>22 DEF Next

(* However many invocations that loaded a row earlier interleave their     *)
(* refreshes of it, the one refresh token the provider still accepts is in *)
(* the row, or with the invocation about to commit it: only a failure      *)
(* between the provider's answer and the commit loses it                   *)
(* (service.py:509-538 and google.py:116-134).                             *)
THEOREM NewestTokenKept == Spec => []RefreshTokenKept
<1>1. Init => KeptInv
  <2> SUFFICES ASSUME Init PROVE KeptParts
    BY DEF KeptInv
  <2>1. /\ \A t \in Task : pc[t] = "idle" /\ loc[t] = NoLocals
        /\ \A f \in Flow : live[f] = 0
    BY DEF Init
  <2>2. \A h \in Callback : pc[h] = "idle"
    BY <2>1 DEF Task
  <2>3. OneOwner
    BY <2>2 DEF OneOwner, Owns, Storing
  <2>4. LiveIssued /\ TokenKept
    BY <2>1, <2>2 DEF LiveIssued, TokenKept
  <2>5. SoleHolder /\ ColumnsAssigned
    BY <2>1, NoLocalsKept DEF SoleHolder, ColumnsAssigned
  <2> QED
    BY <2>3, <2>4, <2>5 DEF KeptParts
<1>2. ASSUME VaultInv, KeptInv PROVE RefreshTokenKept
  <2> SUFFICES ASSUME NEW h \in Callback, keyed, account[h] # None, account[h].refresh # Null,
                      account[h].flow \notin lost
               PROVE  \/ Stored(account[h].refresh) = live[account[h].flow]
                      \/ \E i \in Invocation : /\ loc[i].acct = h
                                               /\ loc[i].refresh = live[account[h].flow]
    BY DEF RefreshTokenKept
  <2>1. pc[h] = "connected" /\ master = 0
    BY <1>2 DEF VaultInv, RowsGood, World
  <2>2. TokenKept
    BY <1>2 DEF KeptInv, KeptParts
  <2> QED
    BY <2>1, <2>2 DEF TokenKept, Stored, Opened
<1>3. Inv /\ VaultInv /\ KeptInv /\ [Next]_vars => (Inv /\ VaultInv /\ KeptInv)'
  BY InvNext, VaultNext, KeptNext
<1> QED
  BY <1>1, <1>2, <1>3, VaultInit, PTL DEF Spec
==============================================================================
