--------------------------- MODULE MCGrantService ---------------------------
(***************************************************************************)
(* Instances of GrantService for TLC: two users, one agent each, a read    *)
(* tool and a write tool of one provider.                                  *)
(***************************************************************************)
EXTENDS GrantService, TLC

CONSTANTS alice, bob, ghost, list, send, a1, b1, r1, r2, r3, v1, v2, g1, g2, g3

MCAgentUser       == alice :> "alice" @@ bob :> "bob"
MCAllowedTools    == alice :> {list, send} @@ bob :> {list}
MCToolScope       == list :> "read" @@ send :> "write"
MCToolProvider    == list :> "google" @@ send :> "google"
MCAccountUser     == a1 :> "alice" @@ b1 :> "bob"
MCAccountProvider == a1 :> "google" @@ b1 :> "google"

Arg(a, t, s) == [agent |-> a, tool |-> t, scope |-> s]

(* A legal call and one outside its agent's policy. *)
TwoArguments == {Arg(alice, list, "read"), Arg(bob, send, "write")}

(* Every kind of call: unknown agent, unknown tool, tool outside the       *)
(* policy, wrong scope, and a legal call by each agent.                    *)
EveryArgument ==
  {Arg(ghost, list, "read"), Arg(alice, ghost, "read"), Arg(bob, send, "write"),
   Arg(alice, list, "write"), Arg(alice, list, "read"), Arg(bob, list, "read")}

HandlerSymmetry ==
  Permutations({r1, r2, r3}) \cup Permutations({g1, g2, g3}) \cup Permutations({v1, v2})
=============================================================================
