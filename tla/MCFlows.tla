------------------------------ MODULE MCFlows -------------------------------
(***************************************************************************)
(* The simulation's flows for TLC.                                         *)
(***************************************************************************)
EXTENDS Flows

CONSTANTS j1, j2

alice == [type |-> "human", id |-> "alice"]
bob == [type |-> "human", id |-> "bob"]

People == {alice, bob}
Nothing == {}

=============================================================================
