-------------------------- MODULE IdempotencyStore --------------------------
(***************************************************************************)
(* credbroker/reliability/idempotency.py and its one user, steps 6 to 10   *)
(* of InvokeService._invoke_resolved: get, reserve, the provider call, and *)
(* complete or release, by any number of concurrent invocations.           *)
(*                                                                         *)
(* Every await on Redis is a step of its own, so complete and release are  *)
(* a compare step and an act step.  Time passes in ticks; a Redis key has  *)
(* its remaining time to live (0: no expiry), a call the time since its    *)
(* reservation.                                                            *)
(***************************************************************************)
EXTENDS Naturals

CONSTANTS
  Call,             \* invocations; each is one run of _invoke_resolved
  Key,              \* full idempotency keys (agent, account, tool, caller's key)
  KeyOf,            \* KeyOf[c]: the key of call c
  ReservationTTL,   \* RESERVATION_TTL_SECONDS, in ticks
  Window,           \* settings.idempotency_window_seconds, in ticks
  CallBudget,       \* bound: the longest time from reservation to reply
  UrgentAct,        \* TRUE if no key goes away between a compare and its act
  Faults,           \* a subset of {"cut", "flush"}
  None              \* no value

ASSUME NumbersAssumption ==
  /\ ReservationTTL \in Nat \ {0}
  /\ Window \in Nat \ {0}
  /\ CallBudget \in Nat
ASSUME KeyAssumption == KeyOf \in [Call -> Key]
ASSUME FlagsAssumption == UrgentAct \in BOOLEAN /\ Faults \subseteq {"cut", "flush"}

VARIABLES
  store,            \* store[k]: the value of "idem:<k>", None if absent
  pc,               \* pc[c]: the await call c is in, or how it ended
  age,              \* age[c]: time since call c's reservation
  fresh             \* history: fresh[k] time left of the window that the
                    \* last provider success for k opened

vars == <<store, pc, age, fresh>>

(* Every value in the store says who wrote it and will expire. *)
Entry == [kind: {"pending", "result"}, by: Call, left: Nat \ {0}]
ASSUME NoneAssumption == None \notin Entry

(* The call holds a reservation, as far as it knows. *)
Held  == {"call", "completeGet", "completeSet", "releaseGet", "releaseDel"}
Ended == {"conflict", "replayed", "success", "failed", "cut"}

(* Mutation: SET NX without an expiry. *)
MarkerForever(c) == [kind |-> "pending", by |-> c, left |-> 0]

(* The pending marker with c's owner token. *)
Marker(c) == [kind |-> "pending", by |-> c, left |-> ReservationTTL]

(* Mutation: the result keeps the reservation's lifetime. *)
ShortResult(c) == [kind |-> "result", by |-> c, left |-> ReservationTTL]

(* c's JSON result, for the whole window. *)
Result(c) == [kind |-> "result", by |-> c, left |-> Window]

(* value == self._pending_value(owner) *)
IsMarkerOf(e, c) == e # None /\ e.kind = "pending" /\ e.by = c

-----------------------------------------------------------------------------
(* Mutation: whatever is stored is taken for a result. *)
AnyIsResult(e) == IF e = None THEN "reserve" ELSE "replayed"

(* Where a stored value sends the caller. *)
Answer(e) ==
  IF e = None THEN "reserve" ELSE IF e.kind = "pending" THEN "conflict" ELSE "replayed"

(* get: serve a cached result, refuse a pending key, or go on. *)
Get(c) ==
  /\ pc[c] = "idle"
  /\ pc' = [pc EXCEPT ![c] = Answer(store[KeyOf[c]])]
  /\ UNCHANGED <<store, age, fresh>>

(* Mutation: a plain SET, without NX. *)
AlwaysClaims(c) == TRUE

(* SET NX finds the key free. *)
Claims(c) == store[KeyOf[c]] = None

(* reserve *)
Reserve(c) ==
  /\ pc[c] = "reserve"
  /\ \/ /\ Claims(c)
        /\ store' = [store EXCEPT ![KeyOf[c]] = Marker(c)]
        /\ pc' = [pc EXCEPT ![c] = "call"]
        /\ age' = [age EXCEPT ![c] = 0]
     \/ /\ ~Claims(c)
        /\ pc' = [pc EXCEPT ![c] = "conflict"]
        /\ UNCHANGED <<store, age>>
  /\ UNCHANGED fresh

(* _execute_call returns a successful outcome ... *)
Succeed(c) ==
  /\ pc[c] = "call"
  /\ pc' = [pc EXCEPT ![c] = "completeGet"]
  /\ fresh' = [fresh EXCEPT ![KeyOf[c]] = Window]
  /\ UNCHANGED <<store, age>>

(* ... or another outcome, or raises. *)
Fail(c) ==
  /\ pc[c] = "call"
  /\ pc' = [pc EXCEPT ![c] = "releaseGet"]
  /\ UNCHANGED <<store, age, fresh>>

(* Mutation: complete and release do not look at the owner token. *)
AnyMarker(c) == store[KeyOf[c]] # None

(* The owner check of complete and of release. *)
StillOwns(c) == IsMarkerOf(store[KeyOf[c]], c)

(* complete: GET and compare, then SET. *)
CompleteGet(c) ==
  /\ pc[c] = "completeGet"
  /\ pc' = [pc EXCEPT ![c] = IF StillOwns(c) THEN "completeSet" ELSE "success"]
  /\ UNCHANGED <<store, age, fresh>>

CompleteSet(c) ==
  /\ pc[c] = "completeSet"
  /\ store' = [store EXCEPT ![KeyOf[c]] = Result(c)]
  /\ pc' = [pc EXCEPT ![c] = "success"]
  /\ UNCHANGED <<age, fresh>>

(* release: GET and compare, then DELETE. *)
ReleaseGet(c) ==
  /\ pc[c] = "releaseGet"
  /\ pc' = [pc EXCEPT ![c] = IF StillOwns(c) THEN "releaseDel" ELSE "failed"]
  /\ UNCHANGED <<store, age, fresh>>

ReleaseDel(c) ==
  /\ pc[c] = "releaseDel"
  /\ store' = [store EXCEPT ![KeyOf[c]] = None]
  /\ pc' = [pc EXCEPT ![c] = "failed"]
  /\ UNCHANGED <<age, fresh>>

(* The handler ends at an await without a word to the store: its task is   *)
(* cancelled, its broker dies, or Redis raises.                            *)
Cut(c) ==
  /\ "cut" \in Faults
  /\ pc[c] \in {"reserve"} \cup Held
  /\ pc' = [pc EXCEPT ![c] = "cut"]
  /\ UNCHANGED <<store, age, fresh>>

(* Nobody is between the compare and the act of complete or release, or    *)
(* else a key may go away there.                                           *)
NotMidAct == UrgentAct => \A c \in Call : pc[c] \notin {"completeSet", "releaseDel"}

(* Redis drops the key before its time. *)
Flush(k) ==
  /\ "flush" \in Faults
  /\ NotMidAct
  /\ store[k] # None
  /\ store' = [store EXCEPT ![k] = None]
  /\ UNCHANGED <<pc, age, fresh>>

(* One tick of a key's time to live. *)
Aged(e) ==
  IF e = None \/ e.left = 1 THEN None
  ELSE IF e.left = 0 THEN e
  ELSE [e EXCEPT !.left = @ - 1]

Tick ==
  /\ \A c \in Call : pc[c] \in Held => age[c] < CallBudget
  /\ NotMidAct
  /\ store' = [k \in Key |-> Aged(store[k])]
  /\ age' = [c \in Call |-> IF pc[c] \in Held THEN age[c] + 1 ELSE 0]
  /\ fresh' = [k \in Key |-> IF fresh[k] > 0 THEN fresh[k] - 1 ELSE 0]
  /\ UNCHANGED pc

-----------------------------------------------------------------------------
Init ==
  /\ store = [k \in Key |-> None]
  /\ pc = [c \in Call |-> "idle"]
  /\ age = [c \in Call |-> 0]
  /\ fresh = [k \in Key |-> 0]

Step(c) ==
  \/ Reserve(c)
  \/ Succeed(c) \/ Fail(c)
  \/ CompleteGet(c) \/ CompleteSet(c)
  \/ ReleaseGet(c) \/ ReleaseDel(c)

Next ==
  \/ \E c \in Call : Get(c) \/ Step(c) \/ Cut(c)
  \/ \E k \in Key : Flush(k)
  \/ Tick

Spec == Init /\ [][Next]_vars

(* Redis answers, the provider call ends (it has a timeout), time passes.  *)
Fairness == WF_vars(Tick) /\ \A c \in Call : WF_vars(Step(c))
FairSpec == Spec /\ Fairness

-----------------------------------------------------------------------------
(* Properties. *)

TypeOK ==
  /\ store \in [Key -> Entry \cup {None}]
  /\ pc \in [Call -> {"idle", "reserve"} \cup Held \cup Ended]
  /\ age \in [Call -> 0..CallBudget]
  /\ fresh \in [Key -> 0..Window]

(* "running a second provider call concurrently would defeat the           *)
(* at-most-once guarantee" (idempotency.py:74-76): two calls with one key  *)
(* are never both between their reservation and their release.             *)
OneCallInFlight ==
  \A c, d \in Call :
    pc[c] \in Held /\ pc[d] \in Held /\ KeyOf[c] = KeyOf[d] => c = d

(* "the broker must guarantee the underlying provider call happens at most *)
(* once per key within the configured window" (idempotency.py:4-6): no     *)
(* provider call starts for a key within the window of an earlier success. *)
OncePerWindow ==
  [][\A c \in Call : pc[c] # "call" /\ pc'[c] = "call" => fresh[KeyOf[c]] = 0]_vars

(* "a stale holder can no longer delete or overwrite the new holder's      *)
(* state" (idempotency.py:18-20): whoever is about to SET a result or to   *)
(* DELETE the key still has its own marker there.                          *)
ActsOnOwnMarker ==
  \A c \in Call :
    pc[c] \in {"completeSet", "releaseDel"} => IsMarkerOf(store[KeyOf[c]], c)

(* "a completed result is never discarded" (idempotency.py:131-132): no    *)
(* step of any call, late or not, takes a cached result away or replaces   *)
(* it; only time and Redis do.                                             *)
ResultsKept ==
  [][\A k \in Key : store[k] # None /\ store[k].kind = "result" /\ pc' # pc =>
       store'[k] = store[k]]_vars

(* "SET NX with a short TTL so a crashed holder cannot wedge the key       *)
(* forever" (idempotency.py:11-12): every reservation goes away, whoever   *)
(* died holding it.                                                        *)
KeyNotWedged ==
  \A k \in Key : store[k] # None /\ store[k].kind = "pending" ~>
                   ~(store[k] # None /\ store[k].kind = "pending")

(* How far a call is, to its caller. *)
Stage(q) ==
  IF q \in {"idle", "reserve"} THEN "idle"
  ELSE IF q \in {"completeGet", "completeSet"} THEN "succeeded"
  ELSE IF q \in {"releaseGet", "releaseDel"} THEN "failing"
  ELSE q

Once == INSTANCE CallOnce WITH
  state      <- [c \in Call |-> Stage(pc[c])],
  remembered <- {k \in Key : fresh[k] > 0}

(* The protocol of get, reserve, complete and release, with its markers    *)
(* and lifetimes in Redis (idempotency.py:70-143), keeps the promise made  *)
(* to agents that retry: it implements CallOnce.                           *)
ImplementsCallOnce == Once!Spec

-----------------------------------------------------------------------------
(* What makes the safety properties inductive when no call outlives its    *)
(* reservation.                                                            *)

(* A holder's marker is in the store, and exactly as old as the call.      *)
HoldersOwn ==
  \A c \in Call : pc[c] \in Held =>
    /\ age[c] <= CallBudget
    /\ store[KeyOf[c]] = [kind |-> "pending", by |-> c, left |-> ReservationTTL - age[c]]

(* While the window of a success is open the key is taken: by its cached   *)
(* result, or by the caller about to cache it.                             *)
WindowCovered ==
  \A k \in Key : fresh[k] > 0 =>
    \/ store[k] # None /\ store[k].kind = "result" /\ store[k].left >= fresh[k]
    \/ \E c \in Call : KeyOf[c] = k /\ pc[c] \in {"completeGet", "completeSet"}

(* What is in the store was put there for its key by a call that got past  *)
(* the reservation: a result by one that has succeeded.                    *)
EntriesExplained ==
  \A k \in Key : store[k] # None =>
    /\ KeyOf[store[k].by] = k
    /\ pc[store[k].by] \in IF store[k].kind = "result" THEN {"success"} ELSE Held
==============================================================================
