-------------------------- MODULE RateLimiterProofs --------------------------
(***************************************************************************)
(* Proofs about RateLimiter, for any number of checks, any limit and any   *)
(* window length.                                                          *)
(***************************************************************************)
EXTENDS RateLimiter, FiniteSetTheorems, TLAPS

(* The index of a window never exceeds the time: the counters the model    *)
(* keeps are enough.                                                       *)
LEMMA WindowInRange ==
  ASSUME NEW t \in 0..MaxTime
  PROVE  WindowAt(t) \in Windows
<1>1. t \in Nat /\ WindowLen \in Nat /\ WindowLen >= 1
  BY NumbersAssumption
<1>2. t \div WindowLen \in 0..t
  BY <1>1, SMTT(30)
<1> QED
  BY <1>1, <1>2, NumbersAssumption DEF WindowAt, Windows

(* The type invariant: window indices stay in range, and no counter has    *)
(* more than window_seconds to live, whatever is lost or late.             *)
THEOREM TypeCorrect == Spec => []TypeOK
<1> USE NumbersAssumption
<1>1. Init => TypeOK
  BY DEF Init, TypeOK, Windows, Pending, Ended
<1>2. TypeOK /\ [Next]_vars => TypeOK'
  <2> SUFFICES ASSUME TypeOK, [Next]_vars PROVE TypeOK'
    OBVIOUS
  <2> USE DEF TypeOK, redisVars, history, Pending, Ended
  <2>1. ASSUME NEW c \in Check, Begin(c) PROVE TypeOK'
    <3>1. WindowAt(clock) \in Windows
      BY WindowInRange
    <3> QED
      BY <2>1, <3>1 DEF Begin
  <2>2. ASSUME NEW c \in Check, Incr(c) PROVE TypeOK'
    <3>1. counter[CounterKey(c)] + 1 \in Nat
      BY DEF CounterKey
    <3> QED
      BY <2>2, <3>1 DEF Incr, Answer
  <2>3. ASSUME NEW c \in Check, Expire(c) PROVE TypeOK'
    <3>1. left' \in [Windows -> 0..WindowLen]
      <4>1. CASE counter[CounterKey(c)] = 0
        BY <2>3, <4>1 DEF Expire
      <4>2. CASE counter[CounterKey(c)] # 0
        <5>1. WindowLen \in 0..WindowLen
          OBVIOUS
        <5>2. left' = [left EXCEPT ![CounterKey(c)] = WindowLen]
          BY <2>3, <4>2 DEF Expire, Lifetime
        <5> QED
          BY <5>1, <5>2
      <4> QED
        BY <4>1, <4>2
    <3> QED
      BY <2>3, <3>1 DEF Expire, Answer
  <2>4. ASSUME NEW c \in Check, Cut(c) PROVE TypeOK'
    BY <2>4 DEF Cut
  <2>5. ASSUME Flush PROVE TypeOK'
    <3>1. WindowAt(clock) \in Windows
      BY WindowInRange
    <3> QED
      BY <2>5, <3>1 DEF Flush
  <2>6. ASSUME Tick PROVE TypeOK'
    BY <2>6 DEF Tick
  <2>7. CASE UNCHANGED vars
    BY <2>7 DEF vars
  <2> QED
    BY <2>1, <2>2, <2>3, <2>4, <2>5, <2>6, <2>7 DEF Next
<1> QED
  BY <1>1, <1>2, PTL DEF Spec

-----------------------------------------------------------------------------
(* A counter never runs ahead of the requests that were counted for it,    *)
(* and neither does what INCR returned.                                    *)
CounterBehindHits ==
  \A w \in Windows : counter[w] <= Cardinality(HitsOf(w))

CountBehindHits ==
  \A c \in hits : count[c] <= Cardinality(HitsOf(index[c]))

(* Only a check whose INCR was carried out is counted, waits for EXPIRE or *)
(* is answered, and it is refused for what INCR returned.                  *)
CountedOnce ==
  \A c \in Check :
    /\ pc[c] \in {"idle", "incr"} => c \notin hits
    /\ pc[c] \in {"expire", "allowed", "denied"} => c \in hits
    /\ pc[c] = "denied" => count[c] > Limit

IInv == TypeOK /\ CounterBehindHits /\ CountBehindHits /\ CountedOnce

LEMMA HitsFinite ==
  ASSUME TypeOK, NEW w
  PROVE  IsFiniteSet(HitsOf(w)) /\ Cardinality(HitsOf(w)) \in Nat
<1>1. HitsOf(w) \subseteq Check
  BY DEF TypeOK, HitsOf
<1> QED
  BY <1>1, CheckAssumption, FS_Subset, FS_CardinalityType

LEMMA IInvInitial == Init => IInv
<1> SUFFICES ASSUME Init PROVE IInv
  OBVIOUS
<1>1. TypeOK
  BY NumbersAssumption DEF Init, TypeOK, Windows, Pending, Ended
<1>2. CounterBehindHits
  BY <1>1, HitsFinite DEF Init, CounterBehindHits
<1>3. CountBehindHits /\ CountedOnce
  BY DEF Init, CountBehindHits, CountedOnce
<1> QED
  BY <1>1, <1>2, <1>3 DEF IInv

LEMMA OneMore ==
  ASSUME NEW S, NEW c, IsFiniteSet(S), c \notin S
  PROVE  Cardinality(S \cup {c}) = Cardinality(S) + 1
BY FS_AddElement

(* INCR adds one to one counter and one request to the window it counts.   *)
LEMMA IncrCounts ==
  ASSUME IInv, TypeOK', NEW c \in Check, Incr(c)
  PROVE  IInv'
<1> USE DEF IInv, TypeOK
<1> DEFINE k == index[c]
<1>1. /\ k \in Windows /\ c \notin hits /\ index' = index
      /\ hits' = hits \cup {c}
      /\ counter' = [counter EXCEPT ![k] = counter[k] + 1]
      /\ count' = [count EXCEPT ![c] = counter[k] + 1]
  BY DEF Incr, CounterKey, CountedOnce
<1>2. HitsOf(k)' = HitsOf(k) \cup {c} /\ c \notin HitsOf(k)
  BY <1>1 DEF HitsOf
<1>3. \A w \in Windows \ {k} : HitsOf(w)' = HitsOf(w)
  BY <1>1 DEF HitsOf
<1>4. \A w : Cardinality(HitsOf(w)) \in Nat /\ IsFiniteSet(HitsOf(w))
  BY HitsFinite
<1>5. Cardinality(HitsOf(k)') = Cardinality(HitsOf(k)) + 1
  <2>1. Cardinality(HitsOf(k) \cup {c}) = Cardinality(HitsOf(k)) + 1
    BY <1>2, <1>4, OneMore
  <2> QED
    BY <1>2, <2>1
<1>6. CounterBehindHits'
  <2> SUFFICES ASSUME NEW w \in Windows
               PROVE  counter'[w] <= Cardinality(HitsOf(w)')
    BY DEF CounterBehindHits
  <2>1. CASE w = k
    BY <2>1, <1>1, <1>4, <1>5 DEF CounterBehindHits
  <2>2. CASE w # k
    BY <2>2, <1>1, <1>3, <1>4 DEF CounterBehindHits
  <2> QED
    BY <2>1, <2>2
<1>7. CountBehindHits'
  <2> SUFFICES ASSUME NEW d \in hits'
               PROVE  count'[d] <= Cardinality(HitsOf(index[d])')
    BY <1>1 DEF CountBehindHits
  <2>1. CASE d = c
    BY <2>1, <1>1, <1>4, <1>5 DEF CounterBehindHits
  <2>2. CASE d # c
    <3>1. d \in hits /\ d \in Check /\ count'[d] = count[d] /\ index[d] \in Windows
      BY <2>2, <1>1
    <3>2. count[d] \in Nat /\ count[d] <= Cardinality(HitsOf(index[d]))
      BY <3>1 DEF CountBehindHits
    <3>3. CASE index[d] = k
      <4>1. HitsOf(index[d])' = HitsOf(k)'
        BY <3>3, <1>1 DEF HitsOf
      <4> QED
        BY <4>1, <3>1, <3>2, <3>3, <1>4, <1>5
    <3>4. CASE index[d] # k
      <4>1. HitsOf(index[d])' = HitsOf(index[d])
        BY <3>4, <1>1 DEF HitsOf
      <4> QED
        BY <4>1, <3>1, <3>2
    <3> QED
      BY <3>3, <3>4
  <2> QED
    BY <2>1, <2>2
<1>8. CountedOnce'
  BY <1>1, NumbersAssumption DEF CountedOnce, Incr, Answer, CounterKey
<1> QED
  BY <1>6, <1>7, <1>8

(* Every other step leaves the counted requests and their windows alone,   *)
(* and lowers counters or leaves them.                                     *)
LEMMA IInvInductive == IInv /\ [Next]_vars /\ TypeOK' => IInv'
<1> SUFFICES ASSUME IInv, [Next]_vars, TypeOK' PROVE IInv'
  OBVIOUS
<1> USE NumbersAssumption DEF IInv, TypeOK, redisVars, history
<1>0. \A w : Cardinality(HitsOf(w)) \in Nat
  BY HitsFinite
<1>1. ASSUME NEW c \in Check, Begin(c) PROVE IInv'
  <2>1. c \notin hits /\ hits' = hits /\ \A d \in hits : index'[d] = index[d]
    BY <1>1 DEF Begin, CountedOnce
  <2>2. \A w \in Windows : HitsOf(w)' = HitsOf(w)
    BY <2>1 DEF HitsOf
  <2>3. CounterBehindHits'
    BY <1>1, <2>2 DEF Begin, CounterBehindHits
  <2>4. CountBehindHits'
    BY <1>1, <2>1, <2>2 DEF Begin, CountBehindHits
  <2>5. CountedOnce'
    BY <1>1 DEF Begin, CountedOnce
  <2> QED
    BY <2>3, <2>4, <2>5
<1>2. ASSUME NEW c \in Check, Incr(c) PROVE IInv'
  BY <1>2, IncrCounts
<1>3. ASSUME NEW c \in Check, Expire(c) PROVE IInv'
  <2>1. \A w : HitsOf(w)' = HitsOf(w)
    BY <1>3 DEF Expire, HitsOf
  <2>2. CounterBehindHits' /\ CountBehindHits'
    BY <1>3, <2>1 DEF Expire, CounterBehindHits, CountBehindHits
  <2>3. CountedOnce'
    BY <1>3 DEF Expire, Answer, CountedOnce
  <2> QED
    BY <2>2, <2>3
<1>4. ASSUME NEW c \in Check, Cut(c) PROVE IInv'
  <2>1. \A w : HitsOf(w)' = HitsOf(w)
    BY <1>4 DEF Cut, HitsOf
  <2>2. CounterBehindHits' /\ CountBehindHits'
    BY <1>4, <2>1 DEF Cut, CounterBehindHits, CountBehindHits
  <2>3. CountedOnce'
    BY <1>4 DEF Cut, CountedOnce
  <2> QED
    BY <2>2, <2>3
<1>5. ASSUME Flush PROVE IInv'
  <2>1. \A w : HitsOf(w)' = HitsOf(w)
    BY <1>5 DEF Flush, HitsOf
  <2>2. CounterBehindHits' /\ CountBehindHits'
    BY <1>5, <2>1, <1>0 DEF Flush, CounterBehindHits, CountBehindHits
  <2>3. CountedOnce'
    BY <1>5 DEF Flush, CountedOnce
  <2> QED
    BY <2>2, <2>3
<1>6. ASSUME Tick PROVE IInv'
  <2>1. \A w : HitsOf(w)' = HitsOf(w)
    BY <1>6 DEF Tick, HitsOf
  <2>2. CounterBehindHits' /\ CountBehindHits'
    BY <1>6, <2>1, <1>0 DEF Tick, CounterBehindHits, CountBehindHits
  <2>3. CountedOnce'
    BY <1>6 DEF Tick, CountedOnce
  <2> QED
    BY <2>2, <2>3
<1>7. CASE UNCHANGED vars
  BY <1>7 DEF vars, CounterBehindHits, CountBehindHits, CountedOnce, HitsOf
<1> QED
  BY <1>1, <1>2, <1>3, <1>4, <1>5, <1>6, <1>7 DEF Next

(* A refused check is one of more than limit requests counted for its own  *)
(* window: no flush, lost EXPIRE, late INCR or dead handler makes check    *)
(* refuse a request within the budget.                                     *)
THEOREM LimitNeverTightens == Spec => []NeverTightens
<1>1. IInv => NeverTightens
  <2> SUFFICES ASSUME IInv, NEW c \in Check, pc[c] = "denied"
               PROVE  Cardinality(HitsOf(index[c])) > Limit
    BY DEF NeverTightens
  <2>1. c \in hits /\ count[c] > Limit /\ count[c] \in Nat
    BY DEF IInv, CountedOnce, TypeOK
  <2>2. count[c] <= Cardinality(HitsOf(index[c]))
    BY <2>1 DEF IInv, CountBehindHits
  <2>3. Cardinality(HitsOf(index[c])) \in Nat
    BY HitsFinite DEF IInv
  <2> QED
    BY <2>1, <2>2, <2>3, NumbersAssumption
<1> QED
  BY <1>1, IInvInitial, IInvInductive, TypeCorrect, PTL DEF Spec

-----------------------------------------------------------------------------
(* WindowBudget.  A counter that gets its time to live after its window    *)
(* has begun outlives the window, so that within an undisturbed window no  *)
(* two requests are told the same number.                                  *)

(* When window w begins. *)
StartOf(w) == w * WindowLen

(* The requests counted for window w while it was the current one. *)
InTimeHits(w) == {c \in hits : index[c] = w /\ InTime(c)}

(* No window is indexed before it begins, no request counted in the future. *)
NothingEarly ==
  /\ \A c \in Check : StartOf(index[c]) <= clock
  /\ \A c \in hits : at[c] <= clock

(* A time to live does not end before the window of its counter does. *)
LivesThrough ==
  \A w \in Windows : left[w] > 0 => StartOf(w + 1) <= clock + left[w]

(* The counter of the current window has not been reset since the first    *)
(* request of the window.                                                  *)
CounterAhead ==
  \A w \in Windows \ disturbed :
    w = WindowAt(clock) => \A c \in InTimeHits(w) : count[c] <= counter[w]

CountsDistinct ==
  \A w \in Windows \ disturbed :
    \A c, d \in InTimeHits(w) : count[c] = count[d] => c = d

(* A request is let through for what INCR returned, which is never 0. *)
AllowedWithin ==
  /\ \A c \in hits : count[c] >= 1
  /\ \A c \in Check : pc[c] = "allowed" => count[c] <= Limit

BudgetInv == NothingEarly /\ LivesThrough /\ CounterAhead /\ CountsDistinct /\ AllowedWithin

LEMMA StartSteps ==
  ASSUME NEW w \in Nat
  PROVE  StartOf(w) \in Nat /\ StartOf(w + 1) = StartOf(w) + WindowLen
BY NumbersAssumption, SMTT(30) DEF StartOf

(* A time lies between the beginning and the end of its window. *)
LEMMA WindowSpans ==
  ASSUME NEW t \in Nat
  PROVE  /\ WindowAt(t) \in Nat
         /\ StartOf(WindowAt(t)) <= t /\ t < StartOf(WindowAt(t) + 1)
<1>1. t \div WindowLen \in Nat
  BY NumbersAssumption, SMTT(30)
<1>2. (t \div WindowLen) * WindowLen <= t /\ t < (t \div WindowLen + 1) * WindowLen
  BY NumbersAssumption, SMTT(30)
<1> QED
  BY <1>1, <1>2 DEF StartOf, WindowAt

LEMMA WindowMonotone ==
  ASSUME NEW t \in Nat, NEW u \in Nat, t <= u
  PROVE  WindowAt(t) <= WindowAt(u)
BY NumbersAssumption, SMTT(30) DEF WindowAt

(* A step that counts nobody and moves neither the clock nor a counter     *)
(* keeps the counts as they are.                                           *)
LEMMA CountsKept ==
  ASSUME TypeOK, BudgetInv, UNCHANGED <<clock, counter, count, at, hits, disturbed>>,
         \A c \in hits : index'[c] = index[c]
  PROVE  CounterAhead' /\ CountsDistinct'
<1>1. \A w : InTimeHits(w)' = InTimeHits(w)
  BY DEF InTimeHits, InTime
<1> QED
  BY <1>1 DEF BudgetInv, CounterAhead, CountsDistinct

LEMMA BeginKeepsBudget ==
  ASSUME IInv, BudgetInv, NEW c \in Check, Begin(c)
  PROVE  BudgetInv'
<1> USE DEF redisVars, history
<1>1. c \notin hits /\ TypeOK
  BY DEF Begin, IInv, CountedOnce
<1>2. CounterAhead' /\ CountsDistinct'
  BY <1>1, CountsKept DEF Begin, TypeOK
<1>3. clock \in Nat
  BY <1>1, NumbersAssumption DEF TypeOK
<1>4. StartOf(WindowAt(clock)) <= clock
  BY <1>3, WindowSpans
<1>5. NothingEarly'
  BY <1>1, <1>4 DEF Begin, BudgetInv, NothingEarly, TypeOK
<1>6. LivesThrough' /\ AllowedWithin'
  BY <1>1 DEF Begin, BudgetInv, LivesThrough, AllowedWithin, TypeOK
<1> QED
  BY <1>2, <1>5, <1>6 DEF BudgetInv

(* INCR hands out a number above all that its window has handed out. *)
LEMMA IncrKeepsBudget ==
  ASSUME IInv, BudgetInv, NEW c \in Check, Incr(c)
  PROVE  BudgetInv'
<1> DEFINE k == index[c]
           n == counter[k] + 1
<1>1. /\ TypeOK /\ c \notin hits /\ k \in Windows /\ n \in Nat /\ n >= 1
      /\ clock \in Nat /\ Limit \in Nat
  BY NumbersAssumption DEF Incr, IInv, CountedOnce, TypeOK
<1>2. /\ UNCHANGED <<clock, left, index, disturbed>>
      /\ hits' = hits \cup {c} /\ hits \subseteq Check
      /\ counter' = [counter EXCEPT ![k] = n] /\ counter \in [Windows -> Nat]
      /\ count' = [count EXCEPT ![c] = n] /\ count \in [Check -> Nat]
      /\ at' = [at EXCEPT ![c] = clock] /\ at \in [Check -> 0..MaxTime]
      /\ disturbed \subseteq Windows
  BY <1>1 DEF Incr, CounterKey, TypeOK
<1>3. \A w \in Windows : InTimeHits(w)' \subseteq InTimeHits(w) \cup {c}
  BY <1>1, <1>2 DEF InTimeHits, InTime
<1>4. ASSUME NEW w \in Windows, c \in InTimeHits(w)'
      PROVE  w = k /\ w = WindowAt(clock)
  BY <1>1, <1>2, <1>4 DEF InTimeHits, InTime
<1>5. \A w \in Windows : \A d \in InTimeHits(w) :
        d \in hits /\ d # c /\ count'[d] = count[d] /\ count[d] \in Nat
  BY <1>1, <1>2 DEF InTimeHits
<1>6. count'[c] = n /\ counter'[k] = n
  BY <1>1, <1>2
<1>7. NothingEarly'
  BY <1>1, <1>2 DEF BudgetInv, NothingEarly
<1>8. LivesThrough'
  BY <1>2 DEF BudgetInv, LivesThrough
<1>9. CounterAhead'
  <2> SUFFICES ASSUME NEW w \in Windows \ disturbed, w = WindowAt(clock),
                      NEW d \in InTimeHits(w)'
               PROVE  count'[d] <= counter'[w]
    BY <1>2 DEF CounterAhead
  <2>1. CASE d = c
    BY <2>1, <1>1, <1>4, <1>6
  <2>2. CASE d # c
    <3>1. d \in InTimeHits(w)
      BY <2>2, <1>3
    <3>2. count'[d] = count[d] /\ count[d] \in Nat /\ count[d] <= counter[w]
      BY <3>1, <1>5 DEF BudgetInv, CounterAhead
    <3>3. counter[w] \in Nat /\ counter[w] <= counter'[w]
      BY <1>1, <1>2
    <3>4. counter'[w] \in Nat
      BY <1>1, <1>2
    <3> QED
      BY <3>2, <3>3, <3>4
  <2> QED
    BY <2>1, <2>2
<1>10. CountsDistinct'
  <2>1. ASSUME NEW w \in Windows \ disturbed, c \in InTimeHits(w)', NEW d \in InTimeHits(w)
        PROVE  count'[d] # count'[c]
    <3>1. w = k /\ w = WindowAt(clock)
      BY <2>1, <1>4
    <3>2. count[d] <= counter[k] /\ counter[k] \in Nat
      BY <2>1, <3>1, <1>1, <1>2 DEF BudgetInv, CounterAhead
    <3>3. count'[d] = count[d] /\ count[d] \in Nat
      BY <2>1, <1>5
    <3> QED
      BY <3>2, <3>3, <1>6
  <2> SUFFICES ASSUME NEW w \in Windows \ disturbed, NEW d \in InTimeHits(w)',
                      NEW e \in InTimeHits(w)', count'[d] = count'[e]
               PROVE  d = e
    BY <1>2 DEF CountsDistinct
  <2>2. CASE d # c /\ e # c
    <3>1. d \in InTimeHits(w) /\ e \in InTimeHits(w)
      BY <2>2, <1>3
    <3> QED
      BY <3>1, <1>5 DEF BudgetInv, CountsDistinct
  <2> QED
    BY <2>1, <2>2, <1>3
<1>11. AllowedWithin'
  <2>1. \A d \in hits' : count'[d] >= 1
    BY <1>1, <1>2 DEF BudgetInv, AllowedWithin
  <2>2. ASSUME NEW d \in Check, pc'[d] = "allowed" PROVE count'[d] <= Limit
    <3>1. CASE d = c
      <4>1. pc'[c] = "allowed" => n <= Limit
        BY <1>1 DEF Incr, Answer, CounterKey, TypeOK
      <4> QED
        BY <2>2, <3>1, <4>1, <1>6
    <3>2. CASE d # c
      <4>1. pc'[d] = pc[d] /\ count'[d] = count[d]
        BY <3>2, <1>1, <1>2 DEF Incr, Answer, TypeOK
      <4> QED
        BY <2>2, <4>1 DEF BudgetInv, AllowedWithin
    <3> QED
      BY <3>1, <3>2
  <2> QED
    BY <2>1, <2>2 DEF AllowedWithin
<1> QED
  BY <1>7, <1>8, <1>9, <1>10, <1>11 DEF BudgetInv

(* EXPIRE comes after the window began, so the counter outlives it. *)
LEMMA ExpireKeepsBudget ==
  ASSUME IInv, BudgetInv, NEW c \in Check, Expire(c)
  PROVE  BudgetInv'
<1> USE DEF history
<1>0. Windows \subseteq Nat /\ 0..MaxTime \subseteq Nat
  BY NumbersAssumption DEF Windows
<1>1. /\ TypeOK /\ index[c] \in Windows /\ Windows \subseteq Nat /\ clock \in Nat
      /\ WindowLen \in Nat
  BY <1>0, NumbersAssumption DEF IInv, TypeOK
<1>2. CounterAhead' /\ CountsDistinct'
  <2>1. UNCHANGED <<clock, counter, index, count, at, hits, disturbed>>
    BY DEF Expire
  <2> QED
    BY <1>1, <2>1, CountsKept
<1>3. LivesThrough'
  <2> SUFFICES ASSUME NEW w \in Windows, left'[w] > 0
               PROVE  StartOf(w + 1) <= clock + left'[w]
    BY DEF Expire, LivesThrough
  <2>1. CASE left'[w] = left[w]
    BY <2>1 DEF BudgetInv, LivesThrough
  <2>2. CASE w = index[c] /\ left'[w] = WindowLen
    <3>1. StartOf(w) <= clock
      BY <2>2 DEF BudgetInv, NothingEarly
    <3>2. StartOf(w) \in Nat /\ StartOf(w + 1) = StartOf(w) + WindowLen
      BY <1>1, StartSteps
    <3> QED
      BY <1>1, <2>2, <3>1, <3>2
  <2> QED
    BY <1>1, <2>1, <2>2 DEF Expire, Lifetime, CounterKey, TypeOK
<1>4. NothingEarly'
  BY DEF Expire, BudgetInv, NothingEarly
<1>5. AllowedWithin'
  BY <1>1, NumbersAssumption DEF Expire, Answer, BudgetInv, AllowedWithin, TypeOK
<1> QED
  BY <1>2, <1>3, <1>4, <1>5 DEF BudgetInv

LEMMA CutKeepsBudget ==
  ASSUME IInv, BudgetInv, NEW c \in Check, Cut(c)
  PROVE  BudgetInv'
<1> USE DEF redisVars, history
<1>1. TypeOK
  BY DEF IInv
<1>2. CounterAhead' /\ CountsDistinct'
  BY <1>1, CountsKept DEF Cut
<1>3. NothingEarly' /\ LivesThrough' /\ AllowedWithin'
  BY <1>1 DEF Cut, BudgetInv, NothingEarly, LivesThrough, AllowedWithin, TypeOK
<1> QED
  BY <1>2, <1>3 DEF BudgetInv

(* A flush gives up the current window only: no other is still counted in. *)
LEMMA FlushKeepsBudget ==
  ASSUME IInv, BudgetInv, Flush
  PROVE  BudgetInv'
<1>1. UNCHANGED <<clock, pc, index, count, at, hits>> /\ disturbed' = disturbed \cup {WindowAt(clock)}
  BY DEF Flush
<1>2. \A w : InTimeHits(w)' = InTimeHits(w)
  BY <1>1 DEF InTimeHits, InTime
<1>3. CounterAhead' /\ CountsDistinct'
  BY <1>1, <1>2 DEF BudgetInv, CounterAhead, CountsDistinct
<1>4. \A w \in Windows : left'[w] = 0
  BY DEF Flush
<1>5. NothingEarly' /\ LivesThrough' /\ AllowedWithin'
  BY <1>1, <1>4 DEF BudgetInv, NothingEarly, LivesThrough, AllowedWithin
<1> QED
  BY <1>3, <1>5 DEF BudgetInv

(* A counter that runs out does so when its window is over. *)
LEMMA TickKeepsBudget ==
  ASSUME IInv, BudgetInv, Tick
  PROVE  BudgetInv'
<1>1. /\ TypeOK /\ clock \in Nat /\ clock' = clock + 1 /\ Windows \subseteq Nat
      /\ left \in [Windows -> 0..WindowLen] /\ WindowLen \in Nat
      /\ hits \subseteq Check /\ at \in [Check -> 0..MaxTime] /\ 0..MaxTime \subseteq Nat
      /\ index \in [Check -> Windows]
  <2>1. /\ TypeOK /\ clock \in 0..MaxTime /\ left \in [Windows -> 0..WindowLen]
        /\ hits \subseteq Check /\ at \in [Check -> 0..MaxTime] /\ index \in [Check -> Windows]
    BY DEF IInv, TypeOK
  <2>2. Windows \subseteq Nat /\ 0..MaxTime \subseteq Nat /\ WindowLen \in Nat
    BY NumbersAssumption DEF Windows
  <2>3. clock' = clock + 1
    BY DEF Tick
  <2> QED
    BY <2>1, <2>2, <2>3
<1>2. UNCHANGED <<pc, index, count, at, hits, disturbed>>
  BY DEF Tick, history
<1>3. \A w : InTimeHits(w)' = InTimeHits(w)
  BY <1>2 DEF InTimeHits, InTime
<1>4. \A w \in Nat : StartOf(w) \in Nat
  BY StartSteps
<1>5. NothingEarly'
  <2>1. \A c \in Check : StartOf(index[c]) \in Nat /\ StartOf(index[c]) <= clock
    BY <1>1, <1>4 DEF BudgetInv, NothingEarly
  <2>2. \A c \in hits : at[c] \in Nat /\ at[c] <= clock
    BY <1>1 DEF BudgetInv, NothingEarly
  <2>3. \A c \in Check : StartOf(index[c]) <= clock + 1
    BY <1>1, <2>1
  <2>4. \A c \in hits : at[c] <= clock + 1
    BY <1>1, <2>2
  <2> QED
    BY <1>1, <1>2, <2>3, <2>4 DEF NothingEarly
<1>6. LivesThrough'
  <2> SUFFICES ASSUME NEW w \in Windows, left'[w] > 0
               PROVE  StartOf(w + 1) <= clock' + left'[w]
    BY DEF LivesThrough
  <2>1. left[w] > 0 /\ left'[w] = left[w] - 1 /\ left[w] \in Nat
    BY <1>1 DEF Tick
  <2>2. StartOf(w + 1) <= clock + left[w]
    BY <2>1 DEF BudgetInv, LivesThrough
  <2>3. StartOf(w + 1) \in Nat
    BY <1>1, <1>4
  <2> QED
    BY <1>1, <2>1, <2>2, <2>3
<1>7. CounterAhead'
  <2> SUFFICES ASSUME NEW w \in Windows \ disturbed, w = WindowAt(clock + 1),
                      NEW c \in InTimeHits(w)
               PROVE  count[c] <= counter'[w]
    BY <1>1, <1>2, <1>3 DEF CounterAhead
  <2>1. c \in hits /\ WindowAt(at[c]) = w /\ at[c] \in Nat /\ at[c] <= clock
    BY <1>1 DEF InTimeHits, InTime, BudgetInv, NothingEarly
  <2>2. WindowAt(at[c]) <= WindowAt(clock) /\ WindowAt(clock) <= WindowAt(clock + 1)
    BY <1>1, <2>1, WindowMonotone
  <2>3. WindowAt(clock) \in Nat /\ w \in Nat
    BY <1>1, WindowSpans
  <2>4. w = WindowAt(clock)
    BY <2>1, <2>2, <2>3
  <2>5. count[c] <= counter[w]
    BY <2>4 DEF BudgetInv, CounterAhead
  <2>6. left[w] # 1
    <3>1. clock + 1 < StartOf(w + 1) /\ StartOf(w + 1) \in Nat
      BY <1>1, <1>4, <2>3, WindowSpans
    <3>2. left[w] > 0 => StartOf(w + 1) <= clock + left[w]
      BY DEF BudgetInv, LivesThrough
    <3> QED
      BY <1>1, <3>1, <3>2
  <2> QED
    BY <2>5, <2>6 DEF Tick
<1>8. CountsDistinct' /\ AllowedWithin'
  BY <1>2, <1>3 DEF BudgetInv, CountsDistinct, AllowedWithin
<1> QED
  BY <1>5, <1>6, <1>7, <1>8 DEF BudgetInv

LEMMA BudgetInitial == Init => BudgetInv
<1> SUFFICES ASSUME Init PROVE BudgetInv
  OBVIOUS
<1>1. StartOf(0) = 0
  BY NumbersAssumption DEF StartOf
<1>2. NothingEarly
  BY <1>1 DEF Init, NothingEarly
<1>3. LivesThrough /\ AllowedWithin
  BY DEF Init, LivesThrough, AllowedWithin
<1>4. \A w : InTimeHits(w) = {}
  BY DEF Init, InTimeHits
<1>5. CounterAhead /\ CountsDistinct
  BY <1>4 DEF CounterAhead, CountsDistinct
<1> QED
  BY <1>2, <1>3, <1>5 DEF BudgetInv

LEMMA BudgetInductive == IInv /\ BudgetInv /\ [Next]_vars => BudgetInv'
<1> SUFFICES ASSUME IInv, BudgetInv, [Next]_vars PROVE BudgetInv'
  OBVIOUS
<1>1. ASSUME NEW c \in Check, Begin(c) \/ Incr(c) \/ Expire(c) \/ Cut(c) PROVE BudgetInv'
  BY <1>1, BeginKeepsBudget, IncrKeepsBudget, ExpireKeepsBudget, CutKeepsBudget
<1>2. CASE Flush
  BY <1>2, FlushKeepsBudget
<1>3. CASE Tick
  BY <1>3, TickKeepsBudget
<1>4. CASE UNCHANGED vars
  <2>1. CounterAhead' /\ CountsDistinct'
    BY <1>4, CountsKept DEF vars, IInv
  <2> QED
    BY <1>4, <2>1 DEF vars, BudgetInv, NothingEarly, LivesThrough, AllowedWithin
<1> QED
  BY <1>1, <1>2, <1>3, <1>4 DEF Next

(* Distinct numbers between 1 and limit: at most limit requests. *)
LEMMA BudgetHolds == IInv /\ BudgetInv => WindowBudget
<1> SUFFICES ASSUME IInv, BudgetInv, NEW w \in Windows \ disturbed
             PROVE  Cardinality({c \in Check : pc[c] = "allowed" /\ index[c] = w /\ InTime(c)})
                      <= Limit
  BY DEF WindowBudget
<1> DEFINE A == {c \in Check : pc[c] = "allowed" /\ index[c] = w /\ InTime(c)}
           f == [c \in A |-> count[c]]
<1>1. A \subseteq InTimeHits(w) /\ A \subseteq Check
  BY DEF InTimeHits, IInv, CountedOnce
<1>2. \A c \in A : count[c] \in 1..Limit
  BY <1>1, NumbersAssumption DEF InTimeHits, BudgetInv, AllowedWithin, IInv, TypeOK
<1>3. f \in [A -> 1..Limit]
  BY <1>2
<1>4. \A c, d \in A : f[c] = f[d] => c = d
  BY <1>1 DEF BudgetInv, CountsDistinct
<1>5. IsFiniteSet(A) /\ Cardinality(A) \in Nat
  BY <1>1, CheckAssumption, FS_Subset, FS_CardinalityType
<1>6. IsFiniteSet(1..Limit) /\ Cardinality(1..Limit) = Limit
  <2>1. 1 \in Int /\ Limit \in Int
    BY NumbersAssumption
  <2> QED
    BY <2>1, FS_Interval, NumbersAssumption
<1> HIDE DEF A, f
<1>7. ~(Cardinality(1..Limit) < Cardinality(A))
  <2> SUFFICES ASSUME Cardinality(1..Limit) < Cardinality(A) PROVE FALSE
    OBVIOUS
  <2>1. \E c, d \in A : c # d /\ f[c] = f[d]
    BY <1>3, <1>5, <1>6, FS_PigeonHole
  <2> QED
    BY <1>4, <2>1
<1>8. Cardinality(A) <= Limit
  BY <1>5, <1>6, <1>7, NumbersAssumption
<1> QED
  BY <1>8 DEF A

(* However the checks interleave and whichever EXPIREs are late or lost, a *)
(* window in which Redis is not flushed lets at most limit of the requests *)
(* through that were counted during it.                                    *)
THEOREM BudgetKept == Spec => []WindowBudget
<1> QED
  BY IInvInitial, IInvInductive, TypeCorrect, BudgetInitial, BudgetInductive, BudgetHolds,
     PTL DEF Spec
==============================================================================
