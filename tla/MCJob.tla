------------------------------- MODULE MCJob --------------------------------
(***************************************************************************)
(* Small instances of the job engine for TLC.                              *)
(***************************************************************************)
EXTENDS JobProperties, Refusals

CONSTANTS j1, j2

person == [type |-> "human", id |-> "bob"]

OnePerson == {person}
\* Nothing tells two blank job objects apart.
Interchangeable == Permutations(Jobs)

NoHandBuilt == {}
NoCitations == {}

=============================================================================
