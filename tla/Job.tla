-------------------------------- MODULE Job ---------------------------------
(***************************************************************************)
(* The job engine: packages/core/devfactory_core/job.py, with the decision *)
(* records of decision.py and the audit events of events.py.               *)
(*                                                                         *)
(* A Job is an object of one process; several objects share the clock.     *)
(* Each method either performs one whole transition or raises and leaves   *)
(* the job untouched, so a refused call is a step the model does not take. *)
(* Inside one call the clock is read several times: the guard on an        *)
(* approval's deadline reads it at "now", and the STATE_TRANSITION record  *)
(* is stamped by a later read, "at".                                       *)
(*                                                                         *)
(* Abstracted: a reason is present or absent; an event carries the fields  *)
(* a reader of the trail interprets; an event's id is its position in its  *)
(* job's trail, and a minted decision id is its job with a serial number   *)
(* (uuid4 in the source: fresh, and nothing else).                         *)
(*                                                                         *)
(* An operator named ..._slip is the next definition with a mistake in it, *)
(* kept to show that a property can fail; nothing here uses one.           *)
(***************************************************************************)
EXTENDS States, Sequences, SequencesExt

CONSTANTS
  Jobs,        \* the Job objects the process may construct
  Ids,         \* job ids: nothing makes two objects' ids differ
  Tenants,
  Workspaces,
  Principals,  \* who may act, each with its type
  Deadlines,   \* the expires_at values callers pass to decide()
  Citations,   \* the supersedes_job_id values callers pass to Job()
  HandBuilt,   \* decisions callers build themselves and pass to transition()
  MaxTime,     \* bound: the last clock reading
  MaxHistory   \* bound: transitions per job

PrincipalType == {"human", "agent", "service"}

\* new_decision_id(): <<j, n>> with n > 0 is minted by job j, and <<j, 0>> is
\* an id minted outside the engine, by whoever builds a decision by hand.
DecisionId == Jobs \X Nat

Decision ==
  [decision_id : DecisionId, tenant_id : Tenants,
   workspace_id : Workspaces \union {NONE}, subject : Ids,
   decision : DecisionType, authority : Principals,
   expires_at : Nat \union {NONE},
   supersedes_decision_id : DecisionId \union {NONE}]

\* The fields __init__ fixes.
Identity ==
  [job_id : Ids, tenant_id : Tenants, workspace_id : Workspaces,
   principal : Principals, supersedes_job_id : Ids \union {NONE}]

\* None is not a value of any other kind, and a principal has a type.
ASSUME JobAssumption ==
  /\ NONE \notin Principals /\ NONE \notin Ids /\ NONE \notin Workspaces
  /\ NONE \notin Nat /\ NONE \notin DecisionId
  /\ NONE \notin Decision /\ NONE \notin Identity
  /\ \A p \in Principals : p.type \in PrincipalType
  /\ Deadlines \subseteq Nat
  /\ Citations \subseteq Ids
  /\ HandBuilt \subseteq Decision
  /\ MaxTime \in Nat /\ MaxHistory \in Nat

VARIABLES
  ident,          \* the fields __init__ fixes, NONE until constructed
  state,
  awaiting_from,
  approval,       \* the APPROVE in force, NONE when there is none
  decisions,
  history,
  events,         \* the job's audit trail
  now             \* the clock the objects share

vars == <<ident, state, awaiting_from, approval, decisions, history, events, now>>

constructed(j) == ident[j] # NONE

-----------------------------------------------------------------------------
\* Event: one audit record, by the fields a reader of the trail interprets.
JobCreated_slip(id, tenant, supersedes) ==
  [kind |-> "JOB_CREATED", job_id |-> id, tenant_id |-> NONE,
   supersedes_job_id |-> supersedes]

JobCreated(id, tenant, supersedes) ==
  [kind |-> "JOB_CREATED", job_id |-> id, tenant_id |-> tenant,
   supersedes_job_id |-> supersedes]

GovernanceDecision(id, tenant, record) ==
  [kind |-> "GOVERNANCE_DECISION", job_id |-> id, tenant_id |-> tenant,
   approval |-> record]

StateTransition(id, tenant, from, to, at) ==
  [kind |-> "STATE_TRANSITION", job_id |-> id, tenant_id |-> tenant,
   from |-> from, to |-> to, occurred_at |-> at]

JobCompleted(id, tenant) ==
  [kind |-> "JOB_COMPLETED", job_id |-> id, tenant_id |-> tenant]

JobSettled(id, tenant, terminal, count) ==
  [kind |-> "JOB_SETTLED", job_id |-> id, tenant_id |-> tenant,
   settled_as |-> terminal, event_count |-> count]

Event ==
  [kind : {"JOB_CREATED"}, job_id : Ids, tenant_id : Tenants,
   supersedes_job_id : Ids \union {NONE}]
  \union
  [kind : {"GOVERNANCE_DECISION"}, job_id : Ids, tenant_id : Tenants,
   approval : Decision]
  \union
  [kind : {"STATE_TRANSITION"}, job_id : Ids, tenant_id : Tenants,
   from : JobState, to : JobState, occurred_at : Nat]
  \union
  [kind : {"JOB_COMPLETED"}, job_id : Ids, tenant_id : Tenants]
  \union
  [kind : {"JOB_SETTLED"}, job_id : Ids, tenant_id : Tenants,
   settled_as : TERMINAL, event_count : Nat]

\* None is not an event either.
ASSUME EventAssumption == NONE \notin Event

\* "event" is the position of the STATE_TRANSITION in the trail (event_id).
TransitionRecord ==
  [from : JobState, to : JobState, at : Nat,
   decision_id : DecisionId \union {NONE}, event : Nat]

-----------------------------------------------------------------------------
\* What a handler reads.
is_expired_slip(record, t) == record.expires_at # NONE /\ t > record.expires_at

is_expired(record, t) == record.expires_at # NONE /\ t >= record.expires_at

approval_expired(j) == approval[j] # NONE /\ is_expired(approval[j], now)

allowed_targets_slip(j) ==
  TRANSITIONS[state[j]]
    \union (IF state[j] = "AWAITING_APPROVAL" THEN APPROVAL_PAUSABLE ELSE {})

allowed_targets(j) == reachable_from(state[j], awaiting_from[j])

known_decisions(j) == {d.decision_id : d \in Range(decisions[j])}

last_decision_id_slip(j) ==
  IF Len(decisions[j]) < 2 THEN NONE
  ELSE decisions[j][Len(decisions[j]) - 1].decision_id

last_decision_id(j) ==
  IF decisions[j] = <<>> THEN NONE ELSE Last(decisions[j]).decision_id

\* decide() and _decision_for() mint a record for this job with a fresh id.
minted(j, verdict, authority, expires, cites) ==
  [decision_id |-> <<j, Len(decisions[j]) + 1>>,
   tenant_id |-> ident[j].tenant_id, workspace_id |-> ident[j].workspace_id,
   subject |-> ident[j].job_id, decision |-> verdict, authority |-> authority,
   expires_at |-> expires, supersedes_decision_id |-> cites]

REASON_REQUIRED == {"FAILED", "CANCELLED", "TIMED_OUT"}

guards_pass(j, to, reason, principal, decides) ==
  /\ to \in REASON_REQUIRED => reason
  /\ to = "CANCELLED" => principal # NONE
  /\ decides # NONE => principal # NONE /\ reason
  /\ to \in POST_APPROVAL => approval[j] # NONE /\ ~approval_expired(j)

is_self_approval(j, authority) ==
  authority.type = "agent" /\ authority.id = ident[j].principal.id

decision_fits_slip(j, record, decides) ==
  /\ record.decision = decides
  /\ record.subject = ident[j].job_id
  /\ record.decision = "APPROVE" => ~is_self_approval(j, record.authority)

decision_fits(j, record, decides) ==
  /\ record.decision = decides
  /\ record.subject = ident[j].job_id
  /\ record.tenant_id = ident[j].tenant_id
  /\ record.workspace_id \in {NONE, ident[j].workspace_id}
  /\ record.decision = "APPROVE" => ~is_self_approval(j, record.authority)

-----------------------------------------------------------------------------
\* _settle: every record of the trail, the closing one included, when "sofar"
\* of this transition's are already written.
event_count_slip(j, sofar) == Len(events[j]) + sofar

event_count(j, sofar) == Len(events[j]) + sofar + 1

\* The events one transition appends, the verdict before the move it caused
\* and the closing record last.
emitted_slip(j, to, record, at) ==
  LET id == ident[j].job_id
      tenant == ident[j].tenant_id
  IN (IF record = NONE THEN <<>> ELSE <<GovernanceDecision(id, tenant, record)>>)
     \o (IF to \in TERMINAL
           THEN <<JobSettled(id, tenant, to, event_count(j, 1))>> ELSE <<>>)
     \o <<StateTransition(id, tenant, state[j], to, at)>>
     \o (IF to = "COMPLETED" THEN <<JobCompleted(id, tenant)>> ELSE <<>>)

emitted(j, to, record, at) ==
  LET id == ident[j].job_id
      tenant == ident[j].tenant_id
      verdict == IF record = NONE THEN <<>>
                 ELSE <<GovernanceDecision(id, tenant, record)>>
      moved == Append(verdict, StateTransition(id, tenant, state[j], to, at))
      delivered == IF to = "COMPLETED" THEN Append(moved, JobCompleted(id, tenant))
                   ELSE moved
  IN IF to \in TERMINAL
       THEN Append(delivered,
                   JobSettled(id, tenant, to, event_count(j, Len(delivered))))
       ELSE delivered

\* The record transition() settles on: the caller's, or one it mints itself.
settled_record(j, decides, principal, decision) ==
  IF decides = NONE THEN NONE
  ELSE IF decision # NONE THEN decision
  ELSE minted(j, decides, principal, NONE, last_decision_id(j))

\* The return address is taken on entry to a pause and dropped on the way out.
awaiting_after_slip(j, to) ==
  IF to = "AWAITING_APPROVAL" THEN state[j] ELSE awaiting_from[j]

awaiting_after(j, to) ==
  IF to = "AWAITING_APPROVAL" THEN state[j]
  ELSE IF state[j] = "AWAITING_APPROVAL" THEN NONE
  ELSE awaiting_from[j]

\* Any verdict but an APPROVE leaves the job unauthorised.
approval_after_slip(j, record) == IF record = NONE THEN approval[j] ELSE record

approval_after(j, record) ==
  IF record = NONE THEN approval[j]
  ELSE IF record.decision = "APPROVE" THEN record
  ELSE NONE

\* Everything transition() assigns once nothing has refused.
move(j, to, record, at) ==
  /\ awaiting_from' = [awaiting_from EXCEPT ![j] = awaiting_after(j, to)]
  /\ approval' = [approval EXCEPT ![j] = approval_after(j, record)]
  /\ state' = [state EXCEPT ![j] = to]
  /\ decisions' = [decisions EXCEPT ![j] =
                     IF record = NONE THEN @ ELSE Append(@, record)]
  /\ events' = [events EXCEPT ![j] = @ \o emitted(j, to, record, at)]
  /\ history' = [history EXCEPT ![j] =
       Append(@, [from |-> state[j], to |-> to, at |-> at,
                  decision_id |-> IF record = NONE THEN NONE ELSE record.decision_id,
                  event |-> Len(events[j]) + (IF record = NONE THEN 1 ELSE 2)])]
  /\ now' = at
  /\ UNCHANGED ident

transition(j, to, reason, principal, decision, at) ==
  LET decides == decision_for_edge(state[j], to)
      record == settled_record(j, decides, principal, decision)
  IN /\ constructed(j)
     /\ Len(history[j]) < MaxHistory
     /\ state[j] \notin TERMINAL
     /\ to \in allowed_targets(j)
     /\ guards_pass(j, to, reason, principal, decides)
     /\ decides = NONE => decision = NONE
     /\ decides # NONE => decision_fits(j, record, decides)
     /\ at \in now .. MaxTime
     /\ move(j, to, record, at)

-----------------------------------------------------------------------------
\* A replacement whose creation record does not say whom it replaces.
construct_slip(j, id, tenant, workspace, principal, supersedes) ==
  /\ ~constructed(j)
  /\ supersedes # id
  /\ ident' = [ident EXCEPT ![j] =
       [job_id |-> id, tenant_id |-> tenant, workspace_id |-> workspace,
        principal |-> principal, supersedes_job_id |-> supersedes]]
  /\ events' = [events EXCEPT ![j] = <<JobCreated(id, tenant, NONE)>>]
  /\ UNCHANGED <<state, awaiting_from, approval, decisions, history, now>>

\* Job.__init__
construct(j, id, tenant, workspace, principal, supersedes) ==
  /\ ~constructed(j)
  /\ supersedes # id
  /\ ident' = [ident EXCEPT ![j] =
       [job_id |-> id, tenant_id |-> tenant, workspace_id |-> workspace,
        principal |-> principal, supersedes_job_id |-> supersedes]]
  /\ events' = [events EXCEPT ![j] = <<JobCreated(id, tenant, supersedes)>>]
  /\ UNCHANGED <<state, awaiting_from, approval, decisions, history, now>>

NewJob(j) ==
  \E id \in Ids, tenant \in Tenants, workspace \in Workspaces,
     principal \in Principals, supersedes \in Citations \union {NONE} :
    construct(j, id, tenant, workspace, principal, supersedes)

\* transition() called directly: any target, with or without a reason, an
\* actor and a decision of the caller's making.
Transition(j) ==
  \E to \in JobState, reason \in BOOLEAN, principal \in Principals \union {NONE},
     decision \in HandBuilt \union {NONE}, at \in now .. MaxTime :
    transition(j, to, reason, principal, decision, at)

SubmitForGovernance(j) ==
  \E reason \in BOOLEAN, at \in now .. MaxTime :
    transition(j, "GOVERNANCE_ANALYSIS", reason, NONE, NONE, at)

\* decide(): approve() may set a deadline, and a citation supplied by hand
\* must name a decision already recorded on this job.
Decide(j, verdict) ==
  \E authority \in Principals, expires \in Deadlines \union {NONE},
     supplied \in (UNION {known_decisions(k) : k \in Jobs}) \union {NONE},
     at \in now .. MaxTime :
    LET cites == IF supplied = NONE THEN last_decision_id(j) ELSE supplied
    IN /\ constructed(j)
       /\ supplied # NONE => supplied \in known_decisions(j)
       /\ transition(j, DECISION_TARGET[verdict], TRUE, authority,
                     minted(j, verdict, authority, expires, cites), at)

PauseForApproval(j) ==
  \E reason \in BOOLEAN, at \in now .. MaxTime :
    transition(j, "AWAITING_APPROVAL", reason, NONE, NONE, at)

Resume(j) ==
  /\ state[j] = "AWAITING_APPROVAL" /\ awaiting_from[j] # NONE
  /\ \E reason \in BOOLEAN, principal \in Principals \union {NONE},
        at \in now .. MaxTime :
       transition(j, awaiting_from[j], reason, principal, NONE, at)

Fail(j) ==
  \E principal \in Principals \union {NONE}, at \in now .. MaxTime :
    transition(j, "FAILED", TRUE, principal, NONE, at)

Cancel(j) ==
  \E principal \in Principals, at \in now .. MaxTime :
    transition(j, "CANCELLED", TRUE, principal, NONE, at)

TimeOut(j) ==
  \E principal \in Principals \union {NONE}, at \in now .. MaxTime :
    transition(j, "TIMED_OUT", TRUE, principal, NONE, at)

\* Waking the settled job instead of constructing a replacement.
Supersede_slip(j, new) ==
  /\ constructed(j)
  /\ state[j] \in SUPERSEDABLE
  /\ state' = [state EXCEPT ![j] = "DRAFT"]
  /\ UNCHANGED <<ident, awaiting_from, approval, decisions, history, events, now>>

\* supersede(): the replacement takes the settled job's scope and names it.
Supersede(j, new) ==
  /\ constructed(j)
  /\ state[j] \in SUPERSEDABLE
  /\ \E id \in Ids, principal \in Principals \union {NONE} :
       construct(new, id, ident[j].tenant_id, ident[j].workspace_id,
                 IF principal = NONE THEN ident[j].principal ELSE principal,
                 ident[j].job_id)

\* Dropping an approval the moment it lapses.
Tick_slip ==
  /\ \E later \in now + 1 .. MaxTime : now' = later
  /\ approval' = [j \in Jobs |->
       IF approval[j] # NONE /\ is_expired(approval[j], now') THEN NONE ELSE approval[j]]
  /\ UNCHANGED <<ident, state, awaiting_from, decisions, history, events>>

\* Time passes between calls, as much as it likes.
Tick ==
  /\ \E later \in now + 1 .. MaxTime : now' = later
  /\ UNCHANGED <<ident, state, awaiting_from, approval, decisions, history, events>>

-----------------------------------------------------------------------------
Init ==
  /\ ident = [j \in Jobs |-> NONE]
  /\ state = [j \in Jobs |-> "DRAFT"]
  /\ awaiting_from = [j \in Jobs |-> NONE]
  /\ approval = [j \in Jobs |-> NONE]
  /\ decisions = [j \in Jobs |-> <<>>]
  /\ history = [j \in Jobs |-> <<>>]
  /\ events = [j \in Jobs |-> <<>>]
  /\ now = 0

Next ==
  \/ \E j \in Jobs :
       \/ NewJob(j)
       \/ Transition(j)
       \/ SubmitForGovernance(j)
       \/ \E verdict \in DecisionType : Decide(j, verdict)
       \/ PauseForApproval(j)
       \/ Resume(j)
       \/ Fail(j)
       \/ Cancel(j)
       \/ TimeOut(j)
       \/ \E new \in Jobs : Supersede(j, new)
  \/ Tick

Spec == Init /\ [][Next]_vars

=============================================================================
