----------------------------- MODULE MCEventLog ------------------------------
(***************************************************************************)
(* Small instances of the event log for TLC.                               *)
(***************************************************************************)
EXTENDS EventLog

CONSTANTS w1, w2

record(id, tenant, subject) ==
  [event_id |-> id, tenant_id |-> tenant, subject_id |-> subject]

\* Two producers of their own; the same id occurs in two tenants, and the
\* first producer has records nobody can attribute.
TwoProducers ==
  (w1 :> {record("e1", "t1", "s"), record("e2", "t1", "s"), record("e1", NONE, "s"),
          record("e3", "t1", NONE)})
  @@ (w2 :> {record("e1", "t2", "s"), record("e2", "t2", "s"), record("e3", "t1", "s")})

\* Two threads reading the same feed.
SharedFeed ==
  (w1 :> {record("e1", "t1", "s")}) @@ (w2 :> {record("e1", "t1", "s")})

=============================================================================
