--------------------------- MODULE CredentialVault ---------------------------
(***************************************************************************)
(* The life of a provider credential: the OAuth connect flow (oauth/), the *)
(* connected_accounts rows, envelope encryption (TokenCipher), its use and *)
(* its refresh by concurrent invocations (_execute_call and                *)
(* _refresh_credential of invoke/service.py), restarts of the broker, and  *)
(* the registry of secrets that log lines are scrubbed with                *)
(* (logging_config.py).                                                    *)
(*                                                                         *)
(* One action is the code between two awaits.  Whether a credential is     *)
(* stale, and what the provider answers, are free choices; the provider    *)
(* accepts each authorization code once and, of one consent, the newest    *)
(* refresh token only.  A flow stands for the user who started it.  Tokens *)
(* are no shorter than _MIN_SECRET_LEN.                                    *)
(***************************************************************************)
EXTENDS TokenCipher

CONSTANTS
  Flow,             \* connect flows, each with its signed state and its code
  Callback,         \* runs of callback; the id of the account each one inserts
  Invocation,       \* runs of _execute_call
  MaxRestarts,      \* bound on the restarts of the broker
  None              \* no row

ASSUME VaultAssumption ==
  /\ MaxRestarts \in Nat /\ None \notin Flow \cup Callback
  /\ Callback \cap Invocation = {}

VARIABLES
  keyed,            \* a master key is configured (kms_key_id, local_master_key_b64)
  master,           \* the master key in use
  restarts,         \* how often the broker was restarted
  started, expired, \* flows whose state was minted; whose state has expired
  account,          \* account[h]: the row inserted by callback h, or None
  pc,               \* pc[t]: the await task t is in, or how it ended
  loc,              \* loc[t]: its locals and its session's unflushed changes
  registry,         \* _SECRET_REGISTRY
  emitted,          \* the kinds of log record that carried a credential out
  spent,            \* provider: the flows whose code was redeemed
  issued,           \* provider: the tokens it has issued, in order
  live,             \* provider: live[f] the refresh token it accepts, or 0
  lost              \* history: flows whose newest refresh token went away
                    \* between the provider's answer and the commit

brokerVars   == <<keyed, master, restarts>>
providerVars == <<spent, issued, live>>
vars == <<keyed, master, restarts, started, expired, account, pc, loc, registry,
          emitted, spent, issued, live, lost>>

Task == Callback \cup Invocation
Waiting == {"exchange", "open", "decrypt", "redeem", "encAccess", "encRefresh",
            "insert", "commit", "call", "audit"}
Ended   == {"connected", "refused", "error", "replied", "cut"}

Null == <<>>        \* a NULL column, or one the session has not changed

(* Mutation: the two columns change places. *)
Swapped(f, access, refresh) == [flow |-> f, access |-> refresh, refresh |-> access]

(* The columns of a ConnectedAccount that matter here. *)
Columns(f, access, refresh) == [flow |-> f, access |-> access, refresh |-> refresh]

NoLocals == [acct |-> None, row |-> Columns(None, Null, Null), presented |-> 0,
             access |-> 0, refresh |-> 0, refreshed |-> FALSE,
             newAccess |-> Null, newRefresh |-> Null]

(* The plaintext credentials a task has in its locals. *)
Held(t) == {loc[t].presented, loc[t].access, loc[t].refresh} \ {0}

-----------------------------------------------------------------------------
(* Helpers. *)

Goto(t, next) == pc' = [pc EXCEPT ![t] = next]

(* Task t, of flow f, is about to forget a refresh token nobody stored. *)
Forgets(t) ==
  IF loc[t].refresh # 0 THEN lost \cup {loc[t].row.flow} ELSE lost

(* A callback ends; an invocation returns a failed outcome and goes on to  *)
(* record_call, in a session that keeps what was assigned so far.          *)
Fail(t) ==
  /\ Goto(t, IF t \in Callback THEN "error" ELSE "audit")
  /\ loc' = [loc EXCEPT ![t] =
       IF t \in Callback THEN NoLocals
       ELSE [@ EXCEPT !.presented = 0, !.access = 0, !.refresh = 0]]

(* The provider issues an access token and, if it chooses to, a refresh    *)
(* token, which is then the only one it accepts for the consent.           *)
Issue(f, both) ==
  /\ issued' = issued \o <<[flow |-> f, kind |-> "access"]>>
                      \o (IF both THEN <<[flow |-> f, kind |-> "refresh"]>> ELSE <<>>)
  /\ live' = IF both THEN [live EXCEPT ![f] = Len(issued) + 2] ELSE live

(* _parse_token_response: both tokens are registered, then held. *)
Parse(t, both) ==
  LET access  == Len(issued) + 1
      refresh == IF both THEN Len(issued) + 2 ELSE 0
  IN  /\ registry' = registry \cup {access} \cup ({refresh} \ {0})
      /\ loc' = [loc EXCEPT ![t].access = access, ![t].refresh = refresh]
      /\ Goto(t, "encAccess")

-----------------------------------------------------------------------------
(* The connect flow. *)

(* authorize: a state is minted; the user consents and holds a code. *)
Authorize(f) ==
  /\ f \notin started
  /\ started' = started \cup {f}
  /\ UNCHANGED <<brokerVars, expired, account, pc, loc, registry, emitted, providerVars, lost>>

(* The state's oauth_state_ttl_seconds are over. *)
ExpireState(f) ==
  /\ f \in started \ expired
  /\ expired' = expired \cup {f}
  /\ UNCHANGED <<brokerVars, started, account, pc, loc, registry, emitted, providerVars, lost>>

(* callback, possibly once more for the same redirect: a provider error or *)
(* a missing parameter, or a state that fails verify_state, is refused.    *)
BeginCallback(h, f) ==
  /\ pc[h] = "idle" /\ f \in started
  /\ \/ Goto(h, "refused") /\ UNCHANGED loc
     \/ /\ f \notin expired
        /\ Goto(h, "exchange")
        /\ loc' = [loc EXCEPT ![h] = [NoLocals EXCEPT !.acct = h, !.row.flow = f]]
  /\ UNCHANGED <<brokerVars, started, expired, account, registry, emitted, providerVars, lost>>

(* exchange_code: refused or unreachable; carried out but the answer lost  *)
(* or malformed; or answered.                                              *)
Exchange(h) ==
  LET f == loc[h].row.flow IN
  /\ pc[h] = "exchange"
  /\ \/ Fail(h) /\ UNCHANGED <<registry, providerVars>>
     \/ /\ f \notin spent
        /\ spent' = spent \cup {f}
        /\ \E both \in BOOLEAN :
             /\ Issue(f, both)
             /\ \/ Fail(h) /\ UNCHANGED registry
                \/ Parse(h, both)
  /\ UNCHANGED <<brokerVars, started, expired, account, emitted, lost>>

(* INSERT and COMMIT of the connected account. *)
Insert(h) ==
  /\ pc[h] = "insert"
  /\ \/ /\ account' = [account EXCEPT ![h] =
             Columns(loc[h].row.flow, loc[h].newAccess, loc[h].newRefresh)]
        /\ Goto(h, "connected")
        /\ loc' = [loc EXCEPT ![h] = NoLocals]
     \/ Fail(h) /\ UNCHANGED account
  /\ UNCHANGED <<brokerVars, started, expired, registry, emitted, providerVars, lost>>

-----------------------------------------------------------------------------
(* cipher.encrypt of the new tokens, for callback and _refresh_credential: *)
(* registered first, whatever becomes of it.                               *)

EncryptAccess(t) ==
  LET blob == Encrypt(master, loc[t].access) IN
  /\ pc[t] = "encAccess"
  /\ \/ /\ blob # Null
        /\ loc' = [loc EXCEPT ![t].newAccess = blob]
        /\ Goto(t, IF loc[t].refresh # 0 THEN "encRefresh"
                   ELSE IF t \in Callback THEN "insert" ELSE "commit")
        /\ UNCHANGED lost
     \/ Fail(t) /\ lost' = Forgets(t)
  /\ registry' = registry \cup {loc[t].access}
  /\ UNCHANGED <<brokerVars, started, expired, account, emitted, providerVars>>

EncryptRefresh(t) ==
  LET blob == Encrypt(master, loc[t].refresh) IN
  /\ pc[t] = "encRefresh"
  /\ \/ /\ blob # Null
        /\ loc' = [loc EXCEPT ![t].newRefresh = blob]
        /\ Goto(t, IF t \in Callback THEN "insert" ELSE "commit")
        /\ UNCHANGED lost
     \/ Fail(t) /\ lost' = Forgets(t)
  /\ registry' = registry \cup {loc[t].refresh}
  /\ UNCHANGED <<brokerVars, started, expired, account, emitted, providerVars>>

-----------------------------------------------------------------------------
(* _execute_call and _refresh_credential. *)

(* session.get: the row as it is now.  A stale credential is refreshed, if *)
(* it can be, or given up once it has expired; any other is opened.        *)
Load(i, h) ==
  /\ pc[i] = "idle" /\ account[h] # None
  /\ loc' = [loc EXCEPT ![i] = [NoLocals EXCEPT !.acct = h, !.row = account[h]]]
  /\ \/ Goto(i, "open")
     \/ account[h].refresh # Null /\ Goto(i, "decrypt")
     \/ account[h].refresh = Null /\ Goto(i, "audit")
  /\ UNCHANGED <<brokerVars, started, expired, account, registry, emitted, providerVars, lost>>

(* Mutation: decrypt does not register what it returns. *)
Unregistered(token) == {}

(* What decrypt adds to the registry. *)
Registers(token) == {token}

(* cipher.decrypt of the stored access token; KMS may fail. *)
OpenAccess(i) ==
  LET token == Decrypt(master, loc[i].row.access) IN
  /\ pc[i] = "open"
  /\ \/ /\ token # Refused
        /\ registry' = registry \cup Registers(token)
        /\ loc' = [loc EXCEPT ![i].access = token]
        /\ Goto(i, "call")
     \/ Fail(i) /\ UNCHANGED registry
  /\ UNCHANGED <<brokerVars, started, expired, account, emitted, providerVars, lost>>

(* cipher.decrypt of the refresh token as loaded. *)
DecryptRefresh(i) ==
  LET token == Decrypt(master, loc[i].row.refresh) IN
  /\ pc[i] = "decrypt"
  /\ \/ /\ token # Refused
        /\ registry' = registry \cup Registers(token)
        /\ loc' = [loc EXCEPT ![i].presented = token, ![i].refreshed = TRUE]
        /\ Goto(i, "redeem")
     \/ Fail(i) /\ UNCHANGED registry
  /\ UNCHANGED <<brokerVars, started, expired, account, emitted, providerVars, lost>>

(* refresh_access_token: refused or unreachable; carried out but the       *)
(* answer lost or malformed; or answered.                                  *)
Redeem(i) ==
  LET f == loc[i].row.flow IN
  /\ pc[i] = "redeem"
  /\ \/ Fail(i) /\ UNCHANGED <<registry, issued, live, lost>>
     \/ /\ loc[i].presented = live[f]
        /\ \E both \in BOOLEAN :
             /\ Issue(f, both)
             /\ \/ Fail(i) /\ UNCHANGED registry
                   /\ lost' = IF both THEN lost \cup {f} ELSE lost
                \/ Parse(i, both) /\ UNCHANGED lost
  /\ UNCHANGED <<brokerVars, started, expired, account, emitted, spent>>

Updated(old, new) == IF new = Null THEN old ELSE new

(* Mutation: the UPDATE writes every column, as loaded or as assigned. *)
WholeRow(i) ==
  Columns(account[loc[i].acct].flow,
          Updated(loc[i].row.access, loc[i].newAccess),
          Updated(loc[i].row.refresh, loc[i].newRefresh))

(* The row after the UPDATE of the session's changed columns. *)
Flushed(i) ==
  Columns(account[loc[i].acct].flow,
          Updated(account[loc[i].acct].access, loc[i].newAccess),
          Updated(account[loc[i].acct].refresh, loc[i].newRefresh))

(* session.commit, or a database error, which the backstop rolls back. *)
Commit(i) ==
  /\ pc[i] = "commit"
  /\ \/ /\ account' = [account EXCEPT ![loc[i].acct] = Flushed(i)]
        /\ loc' = [loc EXCEPT ![i].presented = 0, ![i].refresh = 0,
                              ![i].newAccess = Null, ![i].newRefresh = Null]
        /\ Goto(i, "call")
        /\ UNCHANGED lost
     \/ /\ loc' = [loc EXCEPT ![i] = NoLocals]
        /\ Goto(i, "audit")
        /\ lost' = Forgets(i)
        /\ UNCHANGED account
  /\ UNCHANGED <<brokerVars, started, expired, registry, emitted, providerVars>>

(* The grant turns out revoked, or the provider call ends; one 401 leads   *)
(* to a refresh of the loaded row.                                         *)
EndCall(i) ==
  /\ pc[i] = "call"
  /\ \/ ~loc[i].refreshed /\ loc[i].row.refresh # Null /\ Goto(i, "decrypt")
     \/ Goto(i, "audit")
  /\ loc' = [loc EXCEPT ![i].access = 0]
  /\ UNCHANGED <<brokerVars, started, expired, account, registry, emitted, providerVars, lost>>

(* record_call commits the session: the audit row, and whatever a refresh  *)
(* that failed half-way had assigned.                                      *)
RecordCall(i) ==
  /\ pc[i] = "audit"
  /\ \/ /\ loc[i].acct # None
        /\ account' = [account EXCEPT ![loc[i].acct] = Flushed(i)]
     \/ UNCHANGED account
  /\ Goto(i, "replied")
  /\ loc' = [loc EXCEPT ![i] = NoLocals]
  /\ UNCHANGED <<brokerVars, started, expired, registry, emitted, providerVars, lost>>

-----------------------------------------------------------------------------
(* Logging, restarts. *)

(* scrub *)
Scrub(mentioned) == mentioned \ registry

(* SecretRedactionFilter.filter: message, traceback and stack; a record    *)
(* whose message cannot be formatted passes as it is.                      *)
Filter(record, kind) ==
  IF kind = "malformed" THEN record
  ELSE [part \in DOMAIN record |-> Scrub(record[part])]

(* A task logs a record that mentions all it knows, in every part.  Of a   *)
(* malformed one logging prints the message and its arguments.             *)
Log(t) ==
  /\ pc[t] \in Waiting
  /\ \E kind \in {"wellFormed", "malformed"} :
       LET record == [part \in {"msg", "exc_text", "stack_info"} |-> Held(t)]
           leaves == \E part \in DOMAIN record : Filter(record, kind)[part] # {}
       IN  emitted' = IF leaves THEN emitted \cup {kind} ELSE emitted
  /\ UNCHANGED <<brokerVars, started, expired, account, pc, loc, registry, providerVars, lost>>

(* Task t is cancelled at its await. *)
Cut(t) ==
  /\ pc[t] \in Waiting
  /\ Goto(t, "cut")
  /\ loc' = [loc EXCEPT ![t] = NoLocals]
  /\ lost' = Forgets(t)
  /\ UNCHANGED <<brokerVars, started, expired, account, registry, emitted, providerVars>>

(* The broker dies and comes back: its tasks and its registry are gone;    *)
(* build_token_cipher draws a new master key if none is configured.        *)
Restart ==
  /\ restarts < MaxRestarts
  /\ restarts' = restarts + 1
  /\ master' = IF keyed THEN master ELSE master + 1
  /\ pc' = [t \in Task |-> IF pc[t] \in Waiting THEN "cut" ELSE pc[t]]
  /\ loc' = [t \in Task |-> NoLocals]
  /\ registry' = {}
  /\ lost' = lost \cup UNION {Forgets(t) : t \in Task}
  /\ UNCHANGED <<keyed, started, expired, account, emitted, providerVars>>

-----------------------------------------------------------------------------
Init ==
  /\ keyed \in BOOLEAN /\ master = 0 /\ restarts = 0
  /\ started = {} /\ expired = {}
  /\ account = [h \in Callback |-> None]
  /\ pc = [t \in Task |-> "idle"]
  /\ loc = [t \in Task |-> NoLocals]
  /\ registry = {} /\ emitted = {}
  /\ spent = {} /\ issued = <<>>
  /\ live = [f \in Flow |-> 0]
  /\ lost = {}

Next ==
  \/ \E f \in Flow : Authorize(f) \/ ExpireState(f)
  \/ \E h \in Callback, f \in Flow : BeginCallback(h, f)
  \/ \E h \in Callback : Exchange(h) \/ Insert(h)
  \/ \E i \in Invocation, h \in Callback : Load(i, h)
  \/ \E i \in Invocation : \/ OpenAccess(i) \/ DecryptRefresh(i) \/ Redeem(i)
                           \/ Commit(i) \/ EndCall(i) \/ RecordCall(i)
  \/ \E t \in Task : EncryptAccess(t) \/ EncryptRefresh(t) \/ Log(t) \/ Cut(t)
  \/ Restart

Spec == Init /\ [][Next]_vars

-----------------------------------------------------------------------------
(* Properties. *)

(* The tokens the provider has issued. *)
Token == 1..Len(issued)

(* A stored or a remembered column. *)
Blob(c) == c = Null \/ \E t \in Token, m \in 0..MaxRestarts : c = Encrypt(m, t)

TypeOK ==
  /\ keyed \in BOOLEAN /\ master \in 0..MaxRestarts /\ restarts \in 0..MaxRestarts
  /\ started \subseteq Flow /\ expired \subseteq started /\ spent \subseteq started
  /\ \A h \in Callback : account[h] # None =>
       /\ account[h].flow \in Flow
       /\ account[h].access # Null /\ Blob(account[h].access) /\ Blob(account[h].refresh)
  /\ pc \in [Task -> {"idle"} \cup Waiting \cup Ended]
  /\ \A t \in Task : Held(t) \subseteq Token
  /\ registry \subseteq Token /\ emitted \subseteq {"wellFormed", "malformed"}
  /\ issued \in Seq([flow: Flow, kind: {"access", "refresh"}])
  /\ live \in [Flow -> Token \cup {0}] /\ lost \subseteq Flow

(* The token a column holds, as the broker of today reads it. *)
Stored(blob) == Decrypt(master, blob)

(* "keep the new one" (service.py:528) and "callers must keep the stored   *)
(* refresh token in that case" (google.py:122-123): however invocations    *)
(* that loaded the row earlier interleave their refreshes, the one refresh *)
(* token the provider still accepts is in the row, or in the hands of the  *)
(* invocation about to commit it; only a failure between the provider's    *)
(* answer and the commit can lose it.                                      *)
RefreshTokenKept ==
  \A h \in Callback :
    (keyed /\ account[h] # None /\ account[h].refresh # Null /\ account[h].flow \notin lost) =>
      \/ Stored(account[h].refresh) = live[account[h].flow]
      \/ \E i \in Invocation : loc[i].acct = h /\ loc[i].refresh = live[account[h].flow]

IssuedTo(f, kind) == {t \in 1..Len(issued) : issued[t] = [flow |-> f, kind |-> kind]}

(* Every column of an account opens, after any number of restarts with a   *)
(* configured key, to a token of its own kind that the provider issued to  *)
(* the account's own flow; without a configured key a restart may leave it *)
(* unreadable (kms.py:178-180), but never reading as anything else.        *)
StoredReadable ==
  \A h \in Callback : account[h] # None =>
    /\ Stored(account[h].access) \in IssuedTo(account[h].flow, "access")
         \cup (IF keyed \/ restarts = 0 THEN {} ELSE {Refused})
    /\ account[h].refresh # Null =>
         Stored(account[h].refresh) \in IssuedTo(account[h].flow, "refresh")
           \cup (IF keyed \/ restarts = 0 THEN {} ELSE {Refused})

(* "Corrupt, truncated, or unknown-version blobs raise ValueError"         *)
(* (kms.py:19): no damaged copy of a stored credential opens.  (Refused is *)
(* whatever exception says so: under KMS a damaged wrapped key raises      *)
(* ClientError.)                                                           *)
DamageRefused ==
  \A h \in Callback : account[h] # None =>
    \A b \in Damaged(account[h].access) : Stored(b) = Refused

(* "even a buggy or overly chatty log statement cannot leak a live token"  *)
(* (logging_config.py:4-5): whatever a task logs while it holds plaintext  *)
(* credentials, of this process or decrypted from rows an earlier process  *)
(* wrote, no log line carries one.  The exception is a statement whose     *)
(* arguments do not fit its message: the filter lets such a record pass    *)
(* unscrubbed (logging_config.py:55-57).                                   *)
OnlyMalformedLeaks == emitted \subseteq {"malformed"}
==============================================================================
