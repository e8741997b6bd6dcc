--------------------------- MODULE MCBrokerProcess ---------------------------
(***************************************************************************)
(* Instances of BrokerProcess for TLC.                                     *)
(***************************************************************************)
EXTENDS BrokerProcess

CONSTANTS c1, c2, q1, q2
==============================================================================
