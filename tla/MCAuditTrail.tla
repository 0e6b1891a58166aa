--------------------------- MODULE MCAuditTrail -----------------------------
(***************************************************************************)
(* Small instances of the engine and the reader for TLC.                   *)
(***************************************************************************)
EXTENDS AuditTrail

CONSTANT j1

person == [type |-> "human", id |-> "bob"]

OnePerson == {person}
NoHandBuilt == {}
NoCitations == {}

=============================================================================
