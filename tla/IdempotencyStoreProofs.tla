----------------------- MODULE IdempotencyStoreProofs -----------------------
(***************************************************************************)
(* Proofs about IdempotencyStore, for any number of calls and keys and any *)
(* lifetimes.  Two groups: what holds when no call outlives its            *)
(* reservation, and what still holds when calls do.                        *)
(***************************************************************************)
EXTENDS IdempotencyStore, TLAPS

(* Ageing keeps an entry an entry, or removes it. *)
LEMMA AgedType ==
  ASSUME NEW e \in Entry \cup {None}
  PROVE  Aged(e) \in Entry \cup {None}
<1>1. CASE e = None \/ e.left = 1
  BY <1>1 DEF Aged
<1>2. CASE e # None /\ e.left # 1
  <2>1. e \in Entry /\ e.left \in Nat \ {0} /\ e.left - 1 \in Nat \ {0}
    BY <1>2 DEF Entry
  <2> QED
    BY <1>2, <2>1 DEF Aged, Entry
<1> QED
  BY <1>1, <1>2

LEMMA TypeInit == Init => TypeOK
  BY NumbersAssumption DEF Init, TypeOK

LEMMA TypeNext == TypeOK /\ [Next]_vars => TypeOK'
<1> SUFFICES ASSUME TypeOK, [Next]_vars PROVE TypeOK'
  OBVIOUS
<1> USE NumbersAssumption, KeyAssumption DEF TypeOK, Held, Ended
<1>1. \A c \in Call : Marker(c) \in Entry /\ Result(c) \in Entry
  BY DEF Marker, Result, Entry
<1>2. ASSUME NEW c \in Call, Get(c) PROVE TypeOK'
  BY <1>2 DEF Get, Answer
<1>3. ASSUME NEW c \in Call, Reserve(c) PROVE TypeOK'
  BY <1>1, <1>3 DEF Reserve
<1>4. ASSUME NEW c \in Call, Succeed(c) PROVE TypeOK'
  BY <1>4 DEF Succeed
<1>5. ASSUME NEW c \in Call, Fail(c) PROVE TypeOK'
  BY <1>5 DEF Fail
<1>6. ASSUME NEW c \in Call, CompleteGet(c) PROVE TypeOK'
  BY <1>6 DEF CompleteGet
<1>7. ASSUME NEW c \in Call, CompleteSet(c) PROVE TypeOK'
  BY <1>1, <1>7 DEF CompleteSet
<1>8. ASSUME NEW c \in Call, ReleaseGet(c) PROVE TypeOK'
  BY <1>8 DEF ReleaseGet
<1>9. ASSUME NEW c \in Call, ReleaseDel(c) PROVE TypeOK'
  BY <1>9 DEF ReleaseDel
<1>10. ASSUME NEW c \in Call, Cut(c) PROVE TypeOK'
  BY <1>10 DEF Cut
<1>11. ASSUME NEW k \in Key, Flush(k) PROVE TypeOK'
  BY <1>11 DEF Flush
<1>12. CASE Tick
  <2>1. store' \in [Key -> Entry \cup {None}]
    BY <1>12, AgedType DEF Tick
  <2>2. age' \in [Call -> 0..CallBudget]
    BY <1>12 DEF Tick
  <2>3. fresh' \in [Key -> 0..Window]
    BY <1>12 DEF Tick
  <2> QED
    BY <1>12, <2>1, <2>2, <2>3 DEF Tick
<1>13. CASE UNCHANGED vars
  BY <1>13 DEF vars
<1> QED
  BY <1>2, <1>3, <1>4, <1>5, <1>6, <1>7, <1>8, <1>9, <1>10, <1>11, <1>12, <1>13
  DEF Next, Step

(* The store, the calls and their clocks stay in range, whatever the       *)
(* faults (idempotency.py:70-143).                                         *)
THEOREM TypeCorrect == Spec => []TypeOK
  BY TypeInit, TypeNext, PTL DEF Spec

-----------------------------------------------------------------------------
(* No call outlives its reservation. *)

(* Two holders of one key would both own its marker. *)
LEMMA OwnersDiffer ==
  ASSUME HoldersOwn, NEW c \in Call, NEW d \in Call,
         pc[c] \in Held, pc[d] \in Held, KeyOf[c] = KeyOf[d]
  PROVE  c = d
<1>1. store[KeyOf[c]] = [kind |-> "pending", by |-> c, left |-> ReservationTTL - age[c]]
  BY DEF HoldersOwn
<1>2. store[KeyOf[d]] = [kind |-> "pending", by |-> d, left |-> ReservationTTL - age[d]]
  BY DEF HoldersOwn
<1>3. \A n : [kind |-> "pending", by |-> c, left |-> n].by = c
  OBVIOUS
<1>4. \A n : [kind |-> "pending", by |-> d, left |-> n].by = d
  OBVIOUS
<1> QED
  BY <1>1, <1>2, <1>3, <1>4

LEMMA HoldersOwnNext ==
  ASSUME TypeOK, HoldersOwn, [Next]_vars,
         CallBudget < ReservationTTL, "flush" \notin Faults
  PROVE  HoldersOwn'
<1> USE NumbersAssumption, KeyAssumption
<1> SUFFICES ASSUME NEW d \in Call, pc'[d] \in Held
             PROVE  /\ age'[d] <= CallBudget
                    /\ store'[KeyOf[d]] =
                         [kind |-> "pending", by |-> d, left |-> ReservationTTL - age'[d]]
  BY DEF HoldersOwn
<1> DEFINE Goal == /\ age'[d] <= CallBudget
                   /\ store'[KeyOf[d]] =
                        [kind |-> "pending", by |-> d, left |-> ReservationTTL - age'[d]]
<1>1. CASE pc[d] \in Held /\ UNCHANGED <<store, age>>
  BY <1>1 DEF HoldersOwn
<1>2. ASSUME NEW c \in Call,
             Get(c) \/ Succeed(c) \/ Fail(c) \/ CompleteGet(c) \/ ReleaseGet(c) \/ Cut(c)
      PROVE  Goal
  <2>1. pc[d] \in Held
    BY <1>2 DEF Get, Answer, Succeed, Fail, CompleteGet, ReleaseGet, Cut, TypeOK, Held
  <2> QED
    BY <1>1, <1>2, <2>1 DEF Get, Answer, Succeed, Fail, CompleteGet, ReleaseGet, Cut
<1>3. ASSUME NEW c \in Call, Reserve(c) PROVE Goal
  <2>1. CASE c = d
    <3>1. Claims(c) /\ age'[d] = 0 /\ store'[KeyOf[d]] = Marker(d)
      BY <1>3, <2>1 DEF Reserve, TypeOK, Held
    <3> QED
      BY <3>1 DEF Marker
  <2>2. CASE c # d
    <3>1. pc[d] \in Held
      BY <1>3, <2>2 DEF Reserve, TypeOK
    <3>2. store[KeyOf[d]].kind = "pending" /\ store[KeyOf[d]].left = ReservationTTL - age[d]
          /\ store[KeyOf[d]] = [kind |-> "pending", by |-> d, left |-> ReservationTTL - age[d]]
      BY <3>1 DEF HoldersOwn
    <3>3. store[KeyOf[d]] \in Entry
      <4>1. ReservationTTL - age[d] \in Nat \ {0}
        BY <3>1 DEF HoldersOwn, TypeOK
      <4> QED
        BY <3>2, <4>1 DEF Entry
    <3>4. Claims(c) => KeyOf[c] # KeyOf[d]
      BY <3>3, NoneAssumption DEF Claims
    <3>5. store'[KeyOf[d]] = store[KeyOf[d]] /\ age'[d] = age[d]
      BY <1>3, <2>2, <3>4 DEF Reserve, TypeOK
    <3> QED
      BY <3>1, <3>5 DEF HoldersOwn
  <2> QED
    BY <2>1, <2>2
<1>4. ASSUME NEW c \in Call, CompleteSet(c) \/ ReleaseDel(c) PROVE Goal
  <2>1. c # d /\ pc[d] \in Held /\ pc[c] \in Held
    BY <1>4 DEF CompleteSet, ReleaseDel, TypeOK, Held
  <2>2. KeyOf[c] # KeyOf[d]
    BY <2>1, OwnersDiffer
  <2>3. store'[KeyOf[d]] = store[KeyOf[d]] /\ age'[d] = age[d]
    BY <1>4, <2>2 DEF CompleteSet, ReleaseDel, TypeOK
  <2> QED
    BY <2>1, <2>3 DEF HoldersOwn
<1>5. CASE Tick
  <2>1. pc[d] \in Held /\ age[d] < CallBudget /\ age'[d] = age[d] + 1 /\ age[d] \in Nat
    BY <1>5 DEF Tick, TypeOK
  <2>2. PICK e : e = store[KeyOf[d]]
    OBVIOUS
  <2>3. e = [kind |-> "pending", by |-> d, left |-> ReservationTTL - age[d]]
    BY <2>1, <2>2 DEF HoldersOwn
  <2>4. e.left = ReservationTTL - age[d] /\ e.left > 1 /\ e.left \in Nat
    BY <2>1, <2>3
  <2>5. e \in Entry
    BY <2>3, <2>4 DEF Entry
  <2>6. Aged(e) = [e EXCEPT !.left = e.left - 1]
    BY <2>4, <2>5, NoneAssumption DEF Aged
  <2>7. Aged(e) = [kind |-> "pending", by |-> d, left |-> ReservationTTL - (age[d] + 1)]
    BY <2>1, <2>3, <2>4, <2>6
  <2>8. store'[KeyOf[d]] = Aged(e)
    BY <1>5, <2>2 DEF Tick
  <2> QED
    BY <2>1, <2>7, <2>8
<1>6. CASE UNCHANGED vars
  BY <1>1, <1>6 DEF vars
<1> QED
  BY <1>2, <1>3, <1>4, <1>5, <1>6 DEF Next, Step, Flush

(* If every call ends within the reservation's lifetime, and Redis keeps   *)
(* its keys, then two calls with one key never overlap, whoever is cut     *)
(* off at whatever await (idempotency.py:74-76, 98-105).                   *)
THEOREM CallsExcludeEachOther ==
  ASSUME CallBudget < ReservationTTL, "flush" \notin Faults
  PROVE  Spec => []OneCallInFlight
<1>1. Init => TypeOK /\ HoldersOwn
  BY TypeInit DEF Init, HoldersOwn, Held
<1>2. TypeOK /\ HoldersOwn /\ [Next]_vars => TypeOK' /\ HoldersOwn'
  BY TypeNext, HoldersOwnNext
<1>3. HoldersOwn => OneCallInFlight
  BY OwnersDiffer DEF OneCallInFlight
<1> QED
  BY <1>1, <1>2, <1>3, PTL DEF Spec
-----------------------------------------------------------------------------
(* At most one success per window, when nothing is cut either. *)

LEMMA WindowCoveredNext ==
  ASSUME TypeOK, HoldersOwn, WindowCovered, [Next]_vars,
         CallBudget < ReservationTTL, Faults = {}
  PROVE  WindowCovered'
<1> USE NumbersAssumption, KeyAssumption
<1> DEFINE Cached(e, n) == e # None /\ e.kind = "result" /\ e.left >= n
           Caching(q, k) == \E x \in Call : KeyOf[x] = k /\ q[x] \in {"completeGet", "completeSet"}
<1> SUFFICES ASSUME NEW k \in Key, fresh'[k] > 0
             PROVE  Cached(store'[k], fresh'[k]) \/ Caching(pc', k)
  BY DEF WindowCovered
<1> DEFINE Goal == Cached(store'[k], fresh'[k]) \/ Caching(pc', k)
<1>0. fresh[k] > 0 => Cached(store[k], fresh[k]) \/ Caching(pc, k)
  BY DEF WindowCovered
<1>1. ASSUME NEW c \in Call, Get(c) \/ Fail(c) \/ ReleaseGet(c) PROVE Goal
  <2>1. UNCHANGED <<store, fresh>>
    BY <1>1 DEF Get, Answer, Fail, ReleaseGet
  <2>2. \A x \in Call : pc[x] \in {"completeGet", "completeSet"} => pc'[x] = pc[x]
    BY <1>1 DEF Get, Answer, Fail, ReleaseGet, TypeOK
  <2> QED
    BY <1>0, <2>1, <2>2
<1>2. ASSUME NEW c \in Call, Reserve(c) PROVE Goal
  <2>1. \A x \in Call : pc[x] \in {"completeGet", "completeSet"} => pc'[x] = pc[x]
    BY <1>2 DEF Reserve, TypeOK
  <2>2. fresh' = fresh
    BY <1>2 DEF Reserve
  <2>3. Cached(store[k], fresh[k]) => store'[k] = store[k]
    BY <1>2 DEF Reserve, Claims, TypeOK
  <2> QED
    BY <1>0, <2>1, <2>2, <2>3
<1>3. ASSUME NEW c \in Call, Succeed(c) PROVE Goal
  <2>1. pc'[c] = "completeGet" /\ store' = store
    BY <1>3 DEF Succeed, TypeOK
  <2>2. \A x \in Call : x # c => pc'[x] = pc[x]
    BY <1>3 DEF Succeed, TypeOK
  <2>3. CASE KeyOf[c] = k
    BY <2>1, <2>3
  <2>4. CASE KeyOf[c] # k
    <3>1. fresh'[k] = fresh[k]
      BY <1>3, <2>4 DEF Succeed, TypeOK
    <3>2. Caching(pc, k) => Caching(pc', k)
      BY <2>2, <2>4
    <3> QED
      BY <1>0, <2>1, <3>1, <3>2
  <2> QED
    BY <2>3, <2>4
<1>4. ASSUME NEW c \in Call, CompleteGet(c) PROVE Goal
  <2>1. pc[c] = "completeGet" /\ UNCHANGED <<store, fresh>>
    BY <1>4 DEF CompleteGet
  <2>2. store[KeyOf[c]] = [kind |-> "pending", by |-> c, left |-> ReservationTTL - age[c]]
        /\ ReservationTTL - age[c] \in Nat \ {0}
    BY <2>1 DEF HoldersOwn, Held, TypeOK
  <2>3. store[KeyOf[c]] \in Entry
    BY <2>2 DEF Entry
  <2>4. StillOwns(c)
    BY <2>2, <2>3, NoneAssumption DEF StillOwns, IsMarkerOf
  <2>5. \A x \in Call : pc[x] \in {"completeGet", "completeSet"}
                          => pc'[x] \in {"completeGet", "completeSet"}
    BY <1>4, <2>4 DEF CompleteGet, TypeOK
  <2> QED
    BY <1>0, <2>1, <2>5
<1>5. ASSUME NEW c \in Call, CompleteSet(c) PROVE Goal
  <2>1. CASE KeyOf[c] = k
    <3>1. store'[k] = Result(c) /\ fresh' = fresh
      BY <1>5, <2>1 DEF CompleteSet, TypeOK
    <3>2. fresh[k] \in 0..Window
      BY DEF TypeOK
    <3>3. Result(c) \in Entry /\ Result(c).kind = "result" /\ Result(c).left = Window
      BY DEF Result, Entry
    <3> QED
      BY <3>1, <3>2, <3>3, NoneAssumption
  <2>2. CASE KeyOf[c] # k
    <3>1. store'[k] = store[k] /\ fresh' = fresh
      BY <1>5, <2>2 DEF CompleteSet, TypeOK
    <3>2. \A x \in Call : x # c => pc'[x] = pc[x]
      BY <1>5 DEF CompleteSet, TypeOK
    <3> QED
      BY <1>0, <2>2, <3>1, <3>2
  <2> QED
    BY <2>1, <2>2
<1>6. ASSUME NEW c \in Call, ReleaseDel(c) PROVE Goal
  <2>1. pc[c] = "releaseDel" /\ fresh' = fresh
    BY <1>6 DEF ReleaseDel
  <2>2. \A x \in Call : pc[x] \in {"completeGet", "completeSet"} => pc'[x] = pc[x]
    BY <1>6 DEF ReleaseDel, TypeOK
  <2>3. store[KeyOf[c]] = [kind |-> "pending", by |-> c, left |-> ReservationTTL - age[c]]
    BY <2>1 DEF HoldersOwn, Held
  <2>4. \A n : [kind |-> "pending", by |-> c, left |-> n].kind = "pending"
    OBVIOUS
  <2>5. Cached(store[k], fresh[k]) => store'[k] = store[k]
    BY <1>6, <2>3, <2>4 DEF ReleaseDel, TypeOK
  <2> QED
    BY <1>0, <2>1, <2>2, <2>5
<1>7. CASE Tick
  <2>1. fresh[k] \in Nat /\ fresh[k] > 0 /\ fresh'[k] = fresh[k] - 1 /\ fresh[k] > 1
    BY <1>7 DEF Tick, TypeOK
  <2>2. pc' = pc /\ store'[k] = Aged(store[k])
    BY <1>7 DEF Tick
  <2>3. ASSUME Cached(store[k], fresh[k]) PROVE Cached(store'[k], fresh'[k])
    <3>1. PICK e : e = store[k]
      OBVIOUS
    <3>2. e \in Entry /\ e.kind = "result" /\ e.left >= fresh[k] /\ e.left \in Nat
      BY <2>3, <3>1 DEF TypeOK, Entry
    <3>3. Aged(e) = [e EXCEPT !.left = e.left - 1]
      BY <2>1, <3>2, NoneAssumption DEF Aged
    <3>4. Aged(e) \in Entry /\ Aged(e).kind = "result" /\ Aged(e).left = e.left - 1
      BY <2>1, <3>2, <3>3 DEF Entry
    <3> QED
      BY <2>1, <2>2, <3>1, <3>2, <3>4, NoneAssumption
  <2> QED
    BY <1>0, <2>1, <2>2, <2>3
<1>8. CASE UNCHANGED vars
  BY <1>0, <1>8 DEF vars
<1> QED
  BY <1>1, <1>2, <1>3, <1>4, <1>5, <1>6, <1>7, <1>8 DEF Next, Step, Cut, Flush

(* Nobody reserves a key whose window is open. *)
LEMMA StartsOutsideWindow ==
  ASSUME TypeOK, HoldersOwn, WindowCovered, [Next]_vars, CallBudget < ReservationTTL,
         NEW c \in Call, pc[c] # "call", pc'[c] = "call"
  PROVE  fresh[KeyOf[c]] = 0
<1> USE KeyAssumption
<1>1. Reserve(c)
  BY DEF Next, Step, Get, Answer, Reserve, Succeed, Fail, CompleteGet, CompleteSet, ReleaseGet,
         ReleaseDel, Cut, Flush, Tick, vars, TypeOK
<1>2. store[KeyOf[c]] = None
  BY <1>1 DEF Reserve, Claims, TypeOK
<1>3. ASSUME NEW d \in Call, KeyOf[d] = KeyOf[c], pc[d] \in {"completeGet", "completeSet"}
      PROVE  FALSE
  <2>1. store[KeyOf[d]] = [kind |-> "pending", by |-> d, left |-> ReservationTTL - age[d]]
        /\ ReservationTTL - age[d] \in Nat \ {0}
    BY <1>3, NumbersAssumption DEF HoldersOwn, Held, TypeOK
  <2>2. store[KeyOf[d]] \in Entry
    BY <2>1 DEF Entry
  <2> QED
    BY <1>2, <1>3, <2>2, NoneAssumption
<1> QED
  BY <1>2, <1>3 DEF WindowCovered, TypeOK
(* If moreover no handler is cut and Redis keeps its keys, no provider     *)
(* call starts for a key within the window of an earlier success           *)
(* (idempotency.py:4-6).                                                   *)
THEOREM AtMostOncePerWindow ==
  ASSUME CallBudget < ReservationTTL, Faults = {}
  PROVE  Spec => OncePerWindow
<1>1. Init => TypeOK /\ HoldersOwn /\ WindowCovered
  BY TypeInit, NumbersAssumption DEF Init, HoldersOwn, WindowCovered, Held
<1>2. TypeOK /\ HoldersOwn /\ WindowCovered /\ [Next]_vars
        => TypeOK' /\ HoldersOwn' /\ WindowCovered'
  BY TypeNext, HoldersOwnNext, WindowCoveredNext
<1>3. TypeOK /\ HoldersOwn /\ WindowCovered /\ [Next]_vars =>
        [\A c \in Call : pc[c] # "call" /\ pc'[c] = "call" => fresh[KeyOf[c]] = 0]_vars
  BY StartsOutsideWindow
<1> QED
  BY <1>1, <1>2, <1>3, PTL DEF Spec, OncePerWindow

-----------------------------------------------------------------------------
(* Calls may outlive their reservation. *)

LEMMA OwnMarkerNext ==
  ASSUME TypeOK, ActsOnOwnMarker, [Next]_vars, UrgentAct
  PROVE  ActsOnOwnMarker'
<1> USE KeyAssumption
<1> SUFFICES ASSUME NEW d \in Call, pc'[d] \in {"completeSet", "releaseDel"}
             PROVE  IsMarkerOf(store'[KeyOf[d]], d)
  BY DEF ActsOnOwnMarker, IsMarkerOf
<1> DEFINE Goal == IsMarkerOf(store'[KeyOf[d]], d)
<1>1. CASE pc[d] \in {"completeSet", "releaseDel"} /\ UNCHANGED store
  BY <1>1 DEF ActsOnOwnMarker
<1>2. ASSUME NEW c \in Call, Get(c) \/ Succeed(c) \/ Fail(c) \/ Cut(c) PROVE Goal
  BY <1>1, <1>2 DEF Get, Answer, Succeed, Fail, Cut, TypeOK
<1>3. ASSUME NEW c \in Call, CompleteGet(c) \/ ReleaseGet(c) PROVE Goal
  <2>1. CASE c = d
    <3>1. StillOwns(d) /\ store' = store
      BY <1>3, <2>1 DEF CompleteGet, ReleaseGet, TypeOK
    <3> QED
      BY <3>1 DEF StillOwns
  <2>2. CASE c # d
    BY <1>1, <1>3, <2>2 DEF CompleteGet, ReleaseGet, TypeOK
  <2> QED
    BY <2>1, <2>2
<1>4. ASSUME NEW c \in Call, Reserve(c) PROVE Goal
  <2>1. c # d /\ pc[d] \in {"completeSet", "releaseDel"}
    BY <1>4 DEF Reserve, TypeOK
  <2>2. IsMarkerOf(store[KeyOf[d]], d)
    BY <2>1 DEF ActsOnOwnMarker
  <2>3. store'[KeyOf[d]] = store[KeyOf[d]]
    BY <1>4, <2>2 DEF Reserve, Claims, IsMarkerOf, TypeOK
  <2> QED
    BY <2>2, <2>3
<1>5. ASSUME NEW c \in Call, CompleteSet(c) \/ ReleaseDel(c) PROVE Goal
  <2>1. c # d /\ pc[d] \in {"completeSet", "releaseDel"} /\ pc[c] \in {"completeSet", "releaseDel"}
    BY <1>5 DEF CompleteSet, ReleaseDel, TypeOK
  <2>2. IsMarkerOf(store[KeyOf[d]], d) /\ IsMarkerOf(store[KeyOf[c]], c)
    BY <2>1 DEF ActsOnOwnMarker
  <2>3. KeyOf[c] # KeyOf[d]
    BY <2>1, <2>2 DEF IsMarkerOf
  <2>4. store'[KeyOf[d]] = store[KeyOf[d]]
    BY <1>5, <2>3 DEF CompleteSet, ReleaseDel, TypeOK
  <2> QED
    BY <2>2, <2>4
<1>6. ASSUME Tick \/ \E k \in Key : Flush(k) PROVE Goal
  BY <1>6 DEF Tick, Flush, NotMidAct
<1>7. CASE UNCHANGED vars
  BY <1>1, <1>7 DEF vars
<1> QED
  BY <1>2, <1>3, <1>4, <1>5, <1>6, <1>7 DEF Next, Step

(* A cached result is not touched by any handler. *)
LEMMA ResultStep ==
  ASSUME TypeOK, ActsOnOwnMarker, [Next]_vars, pc' # pc,
         NEW k \in Key, store[k] # None, store[k].kind = "result"
  PROVE  store'[k] = store[k]
<1> USE KeyAssumption
<1>1. ASSUME NEW c \in Call, Reserve(c) PROVE store'[k] = store[k]
  BY <1>1 DEF Reserve, Claims, TypeOK
<1>2. ASSUME NEW c \in Call, CompleteSet(c) \/ ReleaseDel(c) PROVE store'[k] = store[k]
  <2>1. IsMarkerOf(store[KeyOf[c]], c)
    BY <1>2 DEF CompleteSet, ReleaseDel, ActsOnOwnMarker
  <2> QED
    BY <1>2, <2>1 DEF CompleteSet, ReleaseDel, IsMarkerOf, TypeOK
<1> QED
  BY <1>1, <1>2
  DEF Next, Step, Get, Answer, Succeed, Fail, CompleteGet, ReleaseGet, Cut, Flush, Tick, vars

(* However long the calls take, a stale holder neither overwrites nor      *)
(* deletes its successor's marker, whoever dies and whatever Redis loses,  *)
(* as long as the key does not go away between a compare and its act       *)
(* (idempotency.py:18-26).                                                 *)
THEOREM StaleHolderHarmless ==
  ASSUME UrgentAct
  PROVE  Spec => []ActsOnOwnMarker
<1>1. Init => TypeOK /\ ActsOnOwnMarker
  BY TypeInit DEF Init, ActsOnOwnMarker
<1>2. TypeOK /\ ActsOnOwnMarker /\ [Next]_vars => TypeOK' /\ ActsOnOwnMarker'
  BY TypeNext, OwnMarkerNext
<1> QED
  BY <1>1, <1>2, PTL DEF Spec

(* Under the same condition no call discards or replaces a completed       *)
(* result (idempotency.py:131-132).                                        *)
THEOREM ResultsSurvive ==
  ASSUME UrgentAct
  PROVE  Spec => ResultsKept
<1>1. Init => TypeOK /\ ActsOnOwnMarker
  BY TypeInit DEF Init, ActsOnOwnMarker
<1>2. TypeOK /\ ActsOnOwnMarker /\ [Next]_vars => TypeOK' /\ ActsOnOwnMarker'
  BY TypeNext, OwnMarkerNext
<1>3. TypeOK /\ ActsOnOwnMarker /\ [Next]_vars =>
        [\A k \in Key : store[k] # None /\ store[k].kind = "result" /\ pc' # pc =>
           store'[k] = store[k]]_vars
  BY ResultStep
<1> QED
  BY <1>1, <1>2, <1>3, PTL DEF Spec, ResultsKept

-----------------------------------------------------------------------------
(* The refinement. *)

(* A holder is found in the store. *)
LEMMA HolderStored ==
  ASSUME TypeOK, HoldersOwn, CallBudget < ReservationTTL, NEW c \in Call, pc[c] \in Held
  PROVE  store[KeyOf[c]] # None /\ store[KeyOf[c]].kind = "pending" /\ store[KeyOf[c]].by = c
<1>1. PICK n : n = ReservationTTL - age[c]
  OBVIOUS
<1>2. n \in Nat \ {0}
  BY <1>1, NumbersAssumption DEF HoldersOwn, TypeOK
<1>3. store[KeyOf[c]] = [kind |-> "pending", by |-> c, left |-> n]
  BY <1>1 DEF HoldersOwn
<1>4. store[KeyOf[c]] \in Entry
  BY <1>2, <1>3 DEF Entry
<1> QED
  BY <1>3, <1>4, NoneAssumption

LEMMA EntriesExplainedNext ==
  ASSUME TypeOK, HoldersOwn, EntriesExplained, [Next]_vars,
         CallBudget < ReservationTTL, Faults = {}
  PROVE  EntriesExplained'
<1> USE KeyAssumption
<1> DEFINE Explained(e, q, k) ==
      e # None => /\ KeyOf[e.by] = k
                  /\ q[e.by] \in IF e.kind = "result" THEN {"success"} ELSE Held
<1> SUFFICES ASSUME NEW k \in Key PROVE Explained(store'[k], pc', k)
  BY DEF EntriesExplained
<1>0. Explained(store[k], pc, k) /\ (store[k] # None => store[k].by \in Call)
  BY DEF EntriesExplained, TypeOK, Entry
<1>1. ASSUME NEW c \in Call,
             Get(c) \/ Succeed(c) \/ Fail(c) \/ CompleteGet(c) \/ ReleaseGet(c)
      PROVE  Explained(store'[k], pc', k)
  <2>1. store' = store
    BY <1>1 DEF Get, Succeed, Fail, CompleteGet, ReleaseGet
  <2>2. \A x \in Call : pc[x] = "success" => pc'[x] = "success"
    BY <1>1 DEF Get, Succeed, Fail, CompleteGet, ReleaseGet, TypeOK
  <2>3. pc[c] \in Held => StillOwns(c)
    BY HolderStored DEF StillOwns, IsMarkerOf
  <2>4. \A x \in Call : pc[x] \in Held => pc'[x] \in Held
    BY <1>1, <2>3 DEF Get, Succeed, Fail, CompleteGet, ReleaseGet, TypeOK, Held
  <2> QED
    BY <1>0, <2>1, <2>2, <2>4
<1>2. ASSUME NEW c \in Call, Reserve(c) PROVE Explained(store'[k], pc', k)
  <2>1. \A x \in Call : pc[x] \in Held \cup {"success"} => pc'[x] = pc[x]
    BY <1>2 DEF Reserve, TypeOK, Held
  <2>2. CASE store'[k] = store[k]
    BY <1>0, <2>1, <2>2
  <2>3. CASE store'[k] # store[k]
    <3>1. k = KeyOf[c] /\ store'[k] = Marker(c) /\ pc'[c] = "call"
      BY <1>2, <2>3 DEF Reserve, TypeOK
    <3> QED
      BY <3>1 DEF Marker, Held
  <2> QED
    BY <2>2, <2>3
<1>3. ASSUME NEW c \in Call, CompleteSet(c) \/ ReleaseDel(c)
      PROVE  Explained(store'[k], pc', k)
  <2>1. CASE KeyOf[c] = k
    <3>1. CASE CompleteSet(c)
      <4>1. store'[k] = Result(c) /\ pc'[c] = "success"
        BY <2>1, <3>1 DEF CompleteSet, TypeOK
      <4> QED
        BY <2>1, <4>1 DEF Result
    <3>2. CASE ReleaseDel(c)
      BY <2>1, <3>2 DEF ReleaseDel, TypeOK
    <3> QED
      BY <1>3, <3>1, <3>2
  <2>2. CASE KeyOf[c] # k
    <3>1. store'[k] = store[k] /\ \A x \in Call : x # c => pc'[x] = pc[x]
      BY <1>3, <2>2 DEF CompleteSet, ReleaseDel, TypeOK
    <3> QED
      BY <1>0, <2>2, <3>1
  <2> QED
    BY <2>1, <2>2
<1>4. CASE Tick
  <2>1. store'[k] = Aged(store[k]) /\ pc' = pc
    BY <1>4 DEF Tick
  <2>2. store'[k] # None =>
          store[k] # None /\ store'[k].by = store[k].by /\ store'[k].kind = store[k].kind
    BY <2>1 DEF Aged, TypeOK, Entry
  <2> QED
    BY <1>0, <2>1, <2>2
<1>5. CASE UNCHANGED vars
  BY <1>0, <1>5 DEF vars
<1> QED
  BY <1>1, <1>2, <1>3, <1>4, <1>5 DEF Next, Step, Cut, Flush

(* Whoever finds a key taken has a rival that is busy or has succeeded. *)
LEMMA RivalFound ==
  ASSUME TypeOK, EntriesExplained, NEW c \in Call, pc[c] \in {"idle", "reserve"},
         store[KeyOf[c]] # None
  PROVE  /\ store[KeyOf[c]].by \in Once!Rival(c)
         /\ Stage(pc[store[KeyOf[c]].by]) \in Once!Busy \cup {"success"}
         /\ store[KeyOf[c]].kind # "pending" => pc[store[KeyOf[c]].by] = "success"
<1> USE KeyAssumption
<1>1. store[KeyOf[c]] \in Entry
  BY DEF TypeOK
<1>2. PICK d \in Call : d = store[KeyOf[c]].by
  BY <1>1 DEF Entry
<1>3. KeyOf[d] = KeyOf[c] /\ pc[d] \in Held \cup {"success"}
  BY <1>2 DEF EntriesExplained
<1>4. d # c
  BY <1>3 DEF Held
<1>5. Stage(pc[d]) \in Once!Busy \cup {"success"}
  BY <1>3 DEF Stage, Held, Once!Busy
<1>6. store[KeyOf[c]].kind # "pending" => pc[d] = "success"
  BY <1>1, <1>2 DEF EntriesExplained, Entry
<1> QED
  BY <1>2, <1>3, <1>4, <1>5, <1>6 DEF Once!Rival

(* Every step of the store is a step of CallOnce, or none. *)
LEMMA OnceStep ==
  ASSUME TypeOK, HoldersOwn, WindowCovered, EntriesExplained, [Next]_vars,
         CallBudget < ReservationTTL, Faults = {}
  PROVE  [Once!Next]_(Once!vars)
<1> USE NumbersAssumption, KeyAssumption
<1> DEFINE state == [c \in Call |-> Stage(pc[c])]
           remembered == {k \in Key : fresh[k] > 0}
<1>1. ASSUME NEW c \in Call, NEW q, pc' = [pc EXCEPT ![c] = q]
      PROVE  state' = [state EXCEPT ![c] = Stage(q)] /\ state[c] = Stage(pc[c])
  BY <1>1 DEF TypeOK
<1>2. fresh' = fresh => remembered' = remembered
  OBVIOUS
<1> DEFINE Goal == Once!Next \/ (state' = state /\ remembered' = remembered)
<1> SUFFICES Goal
  BY DEF Once!vars
<1>3. ASSUME NEW c \in Call, Get(c) PROVE Goal
  <2> DEFINE e == store[KeyOf[c]]
  <2>1. pc[c] = "idle" /\ pc' = [pc EXCEPT ![c] = Answer(e)] /\ fresh' = fresh
    BY <1>3 DEF Get
  <2>2. state' = [state EXCEPT ![c] = Stage(Answer(e))] /\ state[c] = "idle"
        /\ remembered' = remembered
    BY <1>1, <1>2, <2>1 DEF Stage
  <2>3. CASE e = None
    <3>1. Stage(Answer(e)) = "idle"
      BY <2>3 DEF Answer, Stage
    <3> QED
      BY <2>2, <3>1
  <2>4. CASE e # None /\ e.kind = "pending"
    <3>1. Stage(Answer(e)) = "conflict"
      BY <2>4 DEF Answer, Stage
    <3>2. Once!Refuse(c)
      BY <2>1, <2>2, <2>4, <3>1, RivalFound DEF Once!Refuse, Once!Goto, Once!Rival
    <3> QED
      BY <3>2 DEF Once!Next
  <2>5. CASE e # None /\ e.kind # "pending"
    <3>1. Stage(Answer(e)) = "replayed"
      BY <2>5 DEF Answer, Stage
    <3>2. e.by \in Once!Rival(c) /\ state[e.by] = "success"
      BY <2>1, <2>5, RivalFound DEF Stage, Once!Rival
    <3>3. Once!Replay(c)
      BY <2>2, <3>1, <3>2 DEF Once!Replay, Once!Goto
    <3> QED
      BY <3>3 DEF Once!Next
  <2> QED
    BY <2>3, <2>4, <2>5
<1>4. ASSUME NEW c \in Call, Reserve(c) PROVE Goal
  <2>1. pc[c] = "reserve" /\ remembered' = remembered /\ state[c] = "idle"
    BY <1>2, <1>4 DEF Reserve, Stage
  <2>2. CASE Claims(c)
    <3>1. pc' = [pc EXCEPT ![c] = "call"] /\ store[KeyOf[c]] = None
      BY <1>4, <2>2 DEF Reserve, Claims
    <3>2. state' = [state EXCEPT ![c] = "call"]
      BY <1>1, <3>1 DEF Stage
    <3>3. \A d \in Once!Rival(c) : pc[d] \notin Held
      BY <3>1, HolderStored DEF Once!Rival
    <3>4. \A d \in Once!Rival(c) : state[d] \notin Once!Busy
      BY <3>3 DEF TypeOK, Once!Rival, Once!Busy, Stage, Held, Ended
    <3>5. pc'[c] = "call"
      BY <3>1 DEF TypeOK
    <3>6. fresh[KeyOf[c]] = 0
      BY <2>1, <3>5, StartsOutsideWindow
    <3>7. Once!Start(c)
      BY <2>1, <3>2, <3>4, <3>6 DEF Once!Start, Once!Goto
    <3> QED
      BY <3>7 DEF Once!Next
  <2>3. CASE ~Claims(c)
    <3>1. pc' = [pc EXCEPT ![c] = "conflict"] /\ store[KeyOf[c]] # None
      BY <1>4, <2>3 DEF Reserve, Claims
    <3>2. state' = [state EXCEPT ![c] = "conflict"]
      BY <1>1, <3>1 DEF Stage
    <3>3. Once!Refuse(c)
      BY <2>1, <3>1, <3>2, RivalFound DEF Once!Refuse, Once!Goto, Once!Rival
    <3> QED
      BY <3>3 DEF Once!Next
  <2> QED
    BY <2>2, <2>3
<1>5. ASSUME NEW c \in Call, Succeed(c) PROVE Goal
  <2>1. state' = [state EXCEPT ![c] = "succeeded"] /\ state[c] = "call"
    BY <1>1, <1>5 DEF Succeed, Stage
  <2>2. remembered' = remembered \cup {KeyOf[c]}
    BY <1>5 DEF Succeed, TypeOK
  <2>3. Once!Succeed(c)
    BY <2>1, <2>2 DEF Once!Succeed, Once!Goto
  <2> QED
    BY <2>3 DEF Once!Next
<1>6. ASSUME NEW c \in Call, Fail(c) PROVE Goal
  <2>1. state' = [state EXCEPT ![c] = "failing"] /\ state[c] = "call"
        /\ remembered' = remembered
    BY <1>1, <1>2, <1>6 DEF Fail, Stage
  <2>2. Once!Fail(c)
    BY <2>1 DEF Once!Fail, Once!Goto
  <2> QED
    BY <2>2 DEF Once!Next
<1>7. ASSUME NEW c \in Call, CompleteGet(c) \/ ReleaseGet(c) PROVE Goal
  <2>1. StillOwns(c)
    BY <1>7, HolderStored DEF CompleteGet, ReleaseGet, StillOwns, IsMarkerOf, Held
  <2>2. remembered' = remembered
    BY <1>2, <1>7 DEF CompleteGet, ReleaseGet
  <2>3. state' = [state EXCEPT ![c] = state[c]]
    BY <1>1, <1>7, <2>1 DEF CompleteGet, ReleaseGet, Stage
  <2> QED
    BY <2>2, <2>3
<1>8. ASSUME NEW c \in Call, CompleteSet(c) \/ ReleaseDel(c) PROVE Goal
  <2>1. remembered' = remembered
    BY <1>2, <1>8 DEF CompleteSet, ReleaseDel
  <2>2. \/ state[c] = "succeeded" /\ state' = [state EXCEPT ![c] = "success"]
        \/ state[c] = "failing" /\ state' = [state EXCEPT ![c] = "failed"]
    BY <1>1, <1>8 DEF CompleteSet, ReleaseDel, Stage
  <2>3. Once!Reply(c)
    BY <2>1, <2>2 DEF Once!Reply, Once!Goto
  <2> QED
    BY <2>3 DEF Once!Next
<1>9. CASE Tick
  <2>1. state' = state
    BY <1>9 DEF Tick
  <2>2. remembered' \subseteq remembered
    BY <1>9 DEF Tick, TypeOK
  <2>3. Once!Forget
    BY <2>1, <2>2 DEF Once!Forget
  <2> QED
    BY <2>3 DEF Once!Next
<1>10. CASE UNCHANGED vars
  BY <1>2, <1>10 DEF vars
<1> QED
  BY <1>3, <1>4, <1>5, <1>6, <1>7, <1>8, <1>9, <1>10 DEF Next, Step, Cut, Flush

(* If every call ends within its reservation's lifetime, no handler is cut *)
(* and Redis keeps its keys, the store is an implementation of CallOnce,   *)
(* for any number of calls and keys (idempotency.py:70-143).               *)
THEOREM StoreRefinesCallOnce ==
  ASSUME CallBudget < ReservationTTL, Faults = {}
  PROVE  Spec => ImplementsCallOnce
<1>1. Init => TypeOK /\ HoldersOwn /\ WindowCovered /\ EntriesExplained
  BY TypeInit, NumbersAssumption DEF Init, HoldersOwn, WindowCovered, EntriesExplained, Held
<1>2. TypeOK /\ HoldersOwn /\ WindowCovered /\ EntriesExplained /\ [Next]_vars
        => TypeOK' /\ HoldersOwn' /\ WindowCovered' /\ EntriesExplained'
  BY TypeNext, HoldersOwnNext, WindowCoveredNext, EntriesExplainedNext
<1>3. Init => Once!Init
  BY NumbersAssumption DEF Init, Stage, Once!Init
<1>4. TypeOK /\ HoldersOwn /\ WindowCovered /\ EntriesExplained /\ [Next]_vars
        => [Once!Next]_(Once!vars)
  BY OnceStep
<1> QED
  BY <1>1, <1>2, <1>3, <1>4, PTL DEF Spec, ImplementsCallOnce, Once!Spec
=============================================================================
