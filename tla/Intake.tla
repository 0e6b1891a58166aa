------------------------------- MODULE Intake -------------------------------
(***************************************************************************)
(* Events this repository did not produce: accept_external of              *)
(* packages/observability/devfactory_observability/intake.py.              *)
(*                                                                         *)
(* A payload is a record of what the sender wrote; NONE is a field left    *)
(* out, or left empty where an empty field is treated alike.  Which of     *)
(* several errors a refused payload raises is not kept.                    *)
(*                                                                         *)
(* Abstracted: text is a placeholder, malformed, or neither.  Fields that  *)
(* are carried through for nobody to read (actor, workspace, correlation,  *)
(* metadata, the sender's timestamp) are left out.                         *)
(***************************************************************************)
EXTENDS States

CONSTANTS
  Placeholders,  \* PLACEHOLDERS: "none", "-", "0", ...
  Malformed      \* what no identifier and no event type may look like

\* None is no text.
ASSUME IntakeAssumption == NONE \notin Placeholders \union Malformed

\* validate_id after _looks_fabricated: a value that names something.
identifies(value) == value \notin {NONE} \union Placeholders \union Malformed

\* The resolver is asked only when the sender named no tenant.
tenant_of(payload, answer) ==
  IF payload.tenant_id = NONE THEN answer ELSE payload.tenant_id

accepts(payload, answer) ==
  /\ identifies(tenant_of(payload, answer))
  /\ payload.subject_id \notin {NONE} \union Malformed
  /\ payload.job_id # NONE => identifies(payload.job_id)
  /\ payload.system # NONE
  /\ payload.event_type \notin {NONE} \union Malformed
  /\ payload.sequence # NONE => payload.sequence >= 1

\* The sender's word for where the event came from is taken.
accepted_slip(payload, answer, fresh) ==
  [kind |-> payload.event_type,
   event_id |-> IF payload.event_id = NONE THEN fresh ELSE payload.event_id,
   tenant_id |-> tenant_of(payload, answer),
   subject_id |-> payload.subject_id,
   job_id |-> payload.job_id,
   sequence |-> payload.sequence,
   source |-> payload.source_kind]

\* The event that goes on: its source is external by the fact of arriving
\* here, and an absent job is absent.
accepted(payload, answer, fresh) ==
  [kind |-> payload.event_type,
   event_id |-> IF payload.event_id = NONE THEN fresh ELSE payload.event_id,
   tenant_id |-> tenant_of(payload, answer),
   subject_id |-> payload.subject_id,
   job_id |-> payload.job_id,
   sequence |-> payload.sequence,
   source |-> "external"]

=============================================================================
