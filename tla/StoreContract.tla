--------------------------- MODULE StoreContract ----------------------------
(***************************************************************************)
(* What an event store owes, whatever it is built on: the obligations of   *)
(* packages/observability/devfactory_observability/contract.py, as the     *)
(* only step a store may be seen to take.                                  *)
(*                                                                         *)
(*   1  append-only          every step extends one tenant's sequence      *)
(*   2  isolated by tenant   by the sequence of the tenant a record names  *)
(*   3  totally ordered      at its end                                    *)
(*   4  idempotent           by a record whose id that tenant lacks        *)
(*                                                                         *)
(* Obligation 5, the digest, is a hash of the sequence's ids in order: a    *)
(* value of the history, with no step of its own.                          *)
(***************************************************************************)
EXTENDS Sequences, SequencesExt

CONSTANTS
  NONE,     \* Python's None, and every other value a record may leave empty
  Tenants,
  Records   \* [event_id, tenant_id, subject_id]

VARIABLE held  \* what each tenant holds, in order

ids_of(trail) == {e.event_id : e \in Range(trail)}

\* MissingTenant and MissingSubject are the other two refusals.
attributable(event) == event.tenant_id \in Tenants /\ event.subject_id # NONE

Append_once(event) ==
  /\ attributable(event)
  /\ event.event_id \notin ids_of(held[event.tenant_id])
  /\ held' = [held EXCEPT ![event.tenant_id] = Append(@, event)]

Init == held = [t \in Tenants |-> <<>>]

Next == \E event \in Records : Append_once(event)

Spec == Init /\ [][Next]_held

=============================================================================
