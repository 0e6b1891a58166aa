------------------------------ MODULE EventLog ------------------------------
(***************************************************************************)
(* The in-memory event log: EventLog of                                    *)
(* packages/observability/devfactory_observability/store.py.               *)
(*                                                                         *)
(* Writers are the threads that call append() and extend() on one log, as  *)
(* conformance/store_contract.py runs them.  append() holds no lock, so    *)
(* its three accesses to the log are three steps: it looks the id up in    *)
(* the tenant's seen set, appends to the tenant's partition, and adds the  *)
(* id to the seen set.  append() of one record is extend() of one record.  *)
(*                                                                         *)
(* Abstracted: of a record only its id, its tenant and its subject matter  *)
(* to the log; a field left empty is NONE.                                 *)
(*                                                                         *)
(* An operator named ..._slip is the next definition with a mistake in it, *)
(* kept to show that a property can fail; nothing here uses one.           *)
(***************************************************************************)
EXTENDS Naturals, Sequences, SequencesExt

CONSTANTS
  NONE,
  Tenants,
  Writers,
  Feeds,     \* the records each writer has to write
  MaxBatch   \* bound: records in one extend()

Records == UNION {Feeds[w] : w \in Writers}

Errors == {"MissingTenant", "MissingSubject", "DuplicateEvent"}

\* None is no tenant and no error, and a record has a tenant or none.
ASSUME LogAssumption ==
  /\ NONE \notin Tenants \union Errors
  /\ \A w \in Writers : \A r \in Feeds[w] : r.tenant_id \in Tenants \union {NONE}
  /\ MaxBatch \in Nat

VARIABLES
  partitions,  \* _partitions: each tenant's records in append order
  seen,        \* _seen: the ids known per tenant
  call         \* each writer's extend() in progress, or its last one

vars == <<partitions, seen, call>>

\* "done" records of the batch are in; error is why the next one is not.
Call ==
  [events : Seq(Records), done : Nat,
   pc : {"returned", "checking", "storing", "marking"},
   error : Errors \union {NONE}]

current(w) == call[w].events[call[w].done + 1]

\* The id is looked for in every tenant's set.
duplicate_slip(event) == \E t \in Tenants : event.event_id \in seen[t]

duplicate(event) == event.event_id \in seen[event.tenant_id]

\* Why append() refuses a record, in the order it asks.
refusal(event) ==
  IF event.tenant_id = NONE THEN "MissingTenant"
  ELSE IF event.subject_id = NONE THEN "MissingSubject"
  ELSE IF duplicate(event) THEN "DuplicateEvent"
  ELSE NONE

-----------------------------------------------------------------------------
\* extend() is called; a writer calls again once it has returned.
Extend(w) ==
  /\ call[w].pc = "returned"
  /\ \E n \in 1 .. MaxBatch : \E events \in [1 .. n -> Feeds[w]] :
       call' = [call EXCEPT ![w] =
                  [events |-> events, done |-> 0, pc |-> "checking", error |-> NONE]]
  /\ UNCHANGED <<partitions, seen>>

\* append() refuses, and the exception ends the batch, or it goes on.
Check(w) ==
  /\ call[w].pc = "checking"
  /\ LET why == refusal(current(w))
     IN call' = [call EXCEPT ![w].pc = IF why = NONE THEN "storing" ELSE "returned",
                             ![w].error = why]
  /\ UNCHANGED <<partitions, seen>>

\* Newest first.
Store_slip(w) ==
  /\ call[w].pc = "storing"
  /\ partitions' = [partitions EXCEPT ![current(w).tenant_id] = <<current(w)>> \o @]
  /\ call' = [call EXCEPT ![w].pc = "marking"]
  /\ UNCHANGED seen

Store(w) ==
  /\ call[w].pc = "storing"
  /\ partitions' = [partitions EXCEPT ![current(w).tenant_id] = Append(@, current(w))]
  /\ call' = [call EXCEPT ![w].pc = "marking"]
  /\ UNCHANGED seen

\* The id is not remembered.
Mark_slip(w) ==
  /\ call[w].pc = "marking"
  /\ call' = [call EXCEPT ![w].done = @ + 1,
                          ![w].pc = IF call[w].done + 1 = Len(call[w].events)
                                      THEN "returned" ELSE "checking"]
  /\ UNCHANGED <<partitions, seen>>

\* One record too many.
Mark_overrun_slip(w) ==
  /\ call[w].pc = "marking"
  /\ seen' = [seen EXCEPT ![current(w).tenant_id] = @ \union {current(w).event_id}]
  /\ call' = [call EXCEPT ![w].done = @ + 1,
                          ![w].pc = IF call[w].done = Len(call[w].events)
                                      THEN "returned" ELSE "checking"]
  /\ UNCHANGED partitions

\* The next record of the batch is next, or extend() returns what it wrote.
Mark(w) ==
  /\ call[w].pc = "marking"
  /\ seen' = [seen EXCEPT ![current(w).tenant_id] = @ \union {current(w).event_id}]
  /\ call' = [call EXCEPT ![w].done = @ + 1,
                          ![w].pc = IF call[w].done + 1 = Len(call[w].events)
                                      THEN "returned" ELSE "checking"]
  /\ UNCHANGED partitions

Init ==
  /\ partitions = [t \in Tenants |-> <<>>]
  /\ seen = [t \in Tenants |-> {}]
  /\ call = [w \in Writers |->
               [events |-> <<>>, done |-> 0, pc |-> "returned", error |-> NONE]]

Next == \E w \in Writers : Extend(w) \/ Check(w) \/ Store(w) \/ Mark(w)

Spec == Init /\ [][Next]_vars

-----------------------------------------------------------------------------
Contract == INSTANCE StoreContract WITH held <- partitions

TypeOK ==
  /\ partitions \in [Tenants -> Seq(Records)]
  /\ seen \in [Tenants -> SUBSET {r.event_id : r \in Records}]
  /\ call \in [Writers -> Call]
  /\ \A w \in Writers : call[w].pc # "returned" => call[w].done < Len(call[w].events)

\* No two writers are given the same id for the same tenant to write: each
\* reads its own producer, or one thread does all the writing.
DisjointFeeds ==
  \A v, w \in Writers : \A e \in Feeds[v], f \in Feeds[w] :
    v # w => e.event_id # f.event_id \/ e.tenant_id # f.tenant_id

\* contract.py, obligation 4: re-appending a record the tenant already holds is
\* refused, not duplicated.  An id names one record of a tenant.
EachOnce ==
  \A t \in Tenants : \A m, n \in DOMAIN partitions[t] :
    partitions[t][m].event_id = partitions[t][n].event_id => m = n

\* RFC-0014's correction to obligation 4, a refusal answers no question about
\* another tenant: a record refused as a duplicate is one its own tenant holds,
\* whatever the other tenants hold and whoever else is writing.
RefusedByItsOwn ==
  \A w \in Writers : call[w].error = "DuplicateEvent" =>
    current(w).event_id \in Contract!ids_of(partitions[current(w).tenant_id])

\* Where an id stands in a tenant's partition.
position(t, id) == CHOOSE n \in DOMAIN partitions[t] : partitions[t][n].event_id = id

\* Obligation 3 and "a partial append leaves the events that were valid in the
\* log": whatever extend() has written so far, the batch refused half way
\* included, is in the log in the order it was given, no matter what the other
\* writers put in between.
BatchInOrder ==
  \A w \in Writers : \A i, k \in 1 .. call[w].done :
    LET e == call[w].events[i]
        f == call[w].events[k]
    IN i < k /\ e.tenant_id = f.tenant_id =>
         position(e.tenant_id, e.event_id) < position(f.tenant_id, f.event_id)

\* Every change of the log is one the contract allows, the obligations as a
\* whole: one record, attributable and new to its tenant, at the end of that
\* tenant's sequence.
MeetsContract == Contract!Spec

=============================================================================
