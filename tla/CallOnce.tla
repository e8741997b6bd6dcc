------------------------------ MODULE CallOnce ------------------------------
(***************************************************************************)
(* What reliability/idempotency.py promises to the agents that retry,      *)
(* without Redis, markers, owner tokens and lifetimes: of the calls with   *)
(* one key one at a time runs, none starts while a success is remembered,  *)
(* and a caller that does not run is either given the result of a call     *)
(* that succeeded or told of another call.  IdempotencyStore is shown to   *)
(* implement this specification.                                           *)
(***************************************************************************)
CONSTANTS
  Call,             \* invocations
  KeyOf             \* KeyOf[c]: the idempotency key of call c

VARIABLES
  state,            \* state[c]: how far call c is
  remembered        \* the keys with a success whose window is open

vars == <<state, remembered>>

Busy  == {"call", "succeeded", "failing"}
Rival(c) == {d \in Call \ {c} : KeyOf[d] = KeyOf[c]}

Init ==
  /\ state = [c \in Call |-> "idle"]
  /\ remembered = {}

Goto(c, from, to) == state[c] = from /\ state' = [state EXCEPT ![c] = to]

Start(c) ==
  /\ Goto(c, "idle", "call")
  /\ KeyOf[c] \notin remembered
  /\ \A d \in Rival(c) : state[d] \notin Busy
  /\ UNCHANGED remembered

Succeed(c) ==
  /\ Goto(c, "call", "succeeded")
  /\ remembered' = remembered \cup {KeyOf[c]}

Fail(c) == Goto(c, "call", "failing") /\ UNCHANGED remembered

Reply(c) ==
  /\ Goto(c, "succeeded", "success") \/ Goto(c, "failing", "failed")
  /\ UNCHANGED remembered

Replay(c) ==
  /\ Goto(c, "idle", "replayed")
  /\ \E d \in Rival(c) : state[d] = "success"
  /\ UNCHANGED remembered

Refuse(c) ==
  /\ Goto(c, "idle", "conflict")
  /\ \E d \in Rival(c) : state[d] \in Busy \cup {"success"}
  /\ UNCHANGED remembered

(* Time passes. *)
Forget ==
  /\ remembered' \subseteq remembered
  /\ UNCHANGED state

Next ==
  \/ \E c \in Call : \/ Start(c) \/ Succeed(c) \/ Fail(c)
                     \/ Reply(c) \/ Replay(c) \/ Refuse(c)
  \/ Forget

Spec == Init /\ [][Next]_vars
=============================================================================
