----------------------------- MODULE RateLimiter -----------------------------
(***************************************************************************)
(* credbroker/cache/ratelimit.py: RateLimiter.check for one key, run by    *)
(* any number of concurrent handlers of any number of broker instances.    *)
(*                                                                         *)
(* One action is the code between two awaits on Redis: the window index is *)
(* computed in one step, INCR and EXPIRE are two more, and the clock may   *)
(* move between them.                                                      *)
(***************************************************************************)
EXTENDS Naturals, FiniteSets

CONSTANTS
  Check,            \* runs of check(key, limit)
  Limit,            \* grants_per_minute_per_agent or invokes_per_minute_per_agent
  WindowLen,        \* window_seconds, in ticks
  MaxTime,          \* bound on the clock
  Faults            \* a subset of {"cut", "flush"}

ASSUME NumbersAssumption ==
  Limit \in Nat /\ WindowLen \in Nat \ {0} /\ MaxTime \in Nat
ASSUME CheckAssumption == IsFiniteSet(Check)
ASSUME FaultsAssumption == Faults \subseteq {"cut", "flush"}

VARIABLES
  clock,            \* time.time(), one clock for every broker instance
  counter,          \* Redis: counter[w] of "ratelimit:<key>:<w>", 0 if absent
  left,             \* Redis: left[w] its time to live, 0 if it has none
  pc,               \* pc[c]: the await check c is in, or its answer
  index,            \* index[c]: window_index of check c
  count,            \* count[c]: what INCR returned to check c
  at,               \* history: at[c] when check c's INCR was carried out
  hits,             \* history: the checks whose INCR was carried out
  disturbed         \* history: the windows during which Redis was flushed

redisVars == <<counter, left>>
history   == <<at, hits, disturbed>>
vars == <<clock, counter, left, pc, index, count, at, hits, disturbed>>

Windows == 0..MaxTime
Pending == {"incr", "expire"}
Ended   == {"allowed", "denied", "cut"}

-----------------------------------------------------------------------------
(* int(time.time() // window_seconds) *)
WindowAt(t) == t \div WindowLen

Begin(c) ==
  /\ pc[c] = "idle"
  /\ index' = [index EXCEPT ![c] = WindowAt(clock)]
  /\ pc' = [pc EXCEPT ![c] = "incr"]
  /\ UNCHANGED <<clock, redisVars, count, history>>

(* Mutation: the window index is left out of the counter's name. *)
OneName(c) == 0

(* The counter's name, as far as one key's counters differ. *)
CounterKey(c) == index[c]

(* return count <= limit *)
Answer(c, n) == pc' = [pc EXCEPT ![c] = IF n <= Limit THEN "allowed" ELSE "denied"]

(* INCR creates the counter without a time to live.  Whoever made it 1     *)
(* still has to send EXPIRE; anybody else is answered.                     *)
Incr(c) ==
  LET n == counter[CounterKey(c)] + 1 IN
  /\ pc[c] = "incr"
  /\ counter' = [counter EXCEPT ![CounterKey(c)] = n]
  /\ count' = [count EXCEPT ![c] = n]
  /\ IF n = 1 THEN pc' = [pc EXCEPT ![c] = "expire"] ELSE Answer(c, n)
  /\ hits' = hits \cup {c}
  /\ at' = [at EXCEPT ![c] = clock]
  /\ UNCHANGED <<clock, left, index, disturbed>>

(* Mutation: the counter lives one tick too short. *)
ShortLife(c) == WindowLen - 1

(* Mutation: the counter outlives two windows. *)
DoubleLife(c) == 2 * WindowLen

Lifetime(c) == WindowLen

(* EXPIRE; it does nothing if the counter is gone. *)
Expire(c) ==
  /\ pc[c] = "expire"
  /\ left' = IF counter[CounterKey(c)] = 0 THEN left
             ELSE [left EXCEPT ![CounterKey(c)] = Lifetime(c)]
  /\ Answer(c, count[c])
  /\ UNCHANGED <<clock, counter, index, count, history>>

(* The handler is cancelled, its broker dies, or Redis raises. *)
Cut(c) ==
  /\ "cut" \in Faults
  /\ pc[c] \in Pending
  /\ pc' = [pc EXCEPT ![c] = "cut"]
  /\ UNCHANGED <<clock, redisVars, index, count, history>>

(* Redis is flushed, or restarts empty. *)
Flush ==
  /\ "flush" \in Faults
  /\ counter' = [w \in Windows |-> 0]
  /\ left' = [w \in Windows |-> 0]
  /\ disturbed' = disturbed \cup {WindowAt(clock)}
  /\ UNCHANGED <<clock, pc, index, count, at, hits>>

(* Time passes; Redis drops the counters whose time is up. *)
Tick ==
  /\ clock < MaxTime
  /\ clock' = clock + 1
  /\ counter' = [w \in Windows |-> IF left[w] = 1 THEN 0 ELSE counter[w]]
  /\ left' = [w \in Windows |-> IF left[w] = 0 THEN 0 ELSE left[w] - 1]
  /\ UNCHANGED <<pc, index, count, history>>

-----------------------------------------------------------------------------
Init ==
  /\ clock = 0
  /\ counter = [w \in Windows |-> 0]
  /\ left = [w \in Windows |-> 0]
  /\ pc = [c \in Check |-> "idle"]
  /\ index = [c \in Check |-> 0]
  /\ count = [c \in Check |-> 0]
  /\ at = [c \in Check |-> 0]
  /\ hits = {} /\ disturbed = {}

Next ==
  \/ \E c \in Check : Begin(c) \/ Incr(c) \/ Expire(c) \/ Cut(c)
  \/ Flush
  \/ Tick

Spec == Init /\ [][Next]_vars

-----------------------------------------------------------------------------
(* Properties. *)

TypeOK ==
  /\ clock \in 0..MaxTime
  /\ counter \in [Windows -> Nat]
  /\ left \in [Windows -> 0..WindowLen]
  /\ pc \in [Check -> {"idle"} \cup Pending \cup Ended]
  /\ index \in [Check -> Windows]
  /\ count \in [Check -> Nat]
  /\ at \in [Check -> 0..MaxTime]
  /\ hits \subseteq Check
  /\ disturbed \subseteq Windows

(* The requests counted for window w. *)
HitsOf(w) == {c \in hits : index[c] = w}

(* A flush "briefly relaxes - never wrongly tightens - the limit"          *)
(* (ratelimit.py:11-12), and neither does a lost EXPIRE (47-49): a request *)
(* is refused only if more than limit requests were counted for its own    *)
(* window, whatever was lost, flushed or late.                             *)
NeverTightens ==
  \A c \in Check : pc[c] = "denied" => Cardinality(HitsOf(index[c])) > Limit

(* Check c was counted while its window was still the current one. *)
InTime(c) == WindowAt(at[c]) = index[c]

(* "Returns True while the current fixed window has seen at most limit     *)
(* requests (this one included), False once the budget is exhausted"       *)
(* (ratelimit.py:34-36): however the checks interleave and whichever       *)
(* EXPIREs are late or lost, a window in which Redis is not flushed lets   *)
(* at most limit of the requests through that were counted during it.      *)
WindowBudget ==
  \A w \in Windows \ disturbed :
    Cardinality({c \in Check : pc[c] = "allowed" /\ index[c] = w /\ InTime(c)}) <= Limit
==============================================================================
