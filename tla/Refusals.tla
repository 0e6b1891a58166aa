------------------------------ MODULE Refusals ------------------------------
(***************************************************************************)
(* Which error a call of the engine raises: the checks of job.py in the    *)
(* order they are made, and the errors of core/errors.py they answer with. *)
(*                                                                         *)
(* Job has the same checks as one conjunction, which says whether a call   *)
(* is made; here the first that fails gives the refusal its name, and NONE *)
(* is a call that is not refused.  RefusalProofs proves that the two say   *)
(* the same.  InvalidIdentifier is identifier syntax and UnmappedDecision  *)
(* needs a fourth decision type: nothing here raises them.                 *)
(***************************************************************************)
EXTENDS Job

\* The base class: catching it catches every refusal of the engine.
JobStateMachineError ==
  {"InvalidTransition", "TerminalState", "MissingReason", "MissingPrincipal",
   "MissingApprovalContext", "WrongResumeState", "ExecutionBeforeApproval",
   "ExpiredApproval", "UnknownSupersededDecision", "SelfSupersedingJob",
   "MissingAuthority", "IncompleteDecision", "SelfApproval", "CrossTenantDecision",
   "WrongDecisionSubject", "DecisionStateMismatch"}

\* A call that is not refused raises none of them.
ASSUME RefusalAssumption == NONE \notin JobStateMachineError

\* _check_edge: a refusal with a specific reason says it.
raised_by_edge(j, to) ==
  IF to \in allowed_targets(j) THEN NONE
  ELSE IF state[j] = "AWAITING_APPROVAL" /\ to \in APPROVAL_PAUSABLE THEN "WrongResumeState"
  ELSE IF to = "AWAITING_APPROVAL" THEN "MissingApprovalContext"
  ELSE "InvalidTransition"

\* An approval that has lapsed shuts every way on, not only those into execution.
raised_by_guards_slip(j, to, reason, principal, decides) ==
  IF to \in REASON_REQUIRED /\ ~reason THEN "MissingReason"
  ELSE IF to = "CANCELLED" /\ principal = NONE THEN "MissingPrincipal"
  ELSE IF decides # NONE /\ ~(principal # NONE /\ reason) THEN "MissingAuthority"
  ELSE IF to \in POST_APPROVAL /\ approval[j] = NONE THEN "ExecutionBeforeApproval"
  ELSE IF approval_expired(j) THEN "ExpiredApproval"
  ELSE NONE

\* _check_guards
raised_by_guards(j, to, reason, principal, decides) ==
  IF to \in REASON_REQUIRED /\ ~reason THEN "MissingReason"
  ELSE IF to = "CANCELLED" /\ principal = NONE THEN "MissingPrincipal"
  ELSE IF decides # NONE /\ ~(principal # NONE /\ reason) THEN "MissingAuthority"
  ELSE IF to \in POST_APPROVAL /\ approval[j] = NONE THEN "ExecutionBeforeApproval"
  ELSE IF to \in POST_APPROVAL /\ approval_expired(j) THEN "ExpiredApproval"
  ELSE NONE

\* _check_decision
raised_by_decision(j, record, decides) ==
  IF record.decision # decides THEN "DecisionStateMismatch"
  ELSE IF record.subject # ident[j].job_id THEN "WrongDecisionSubject"
  ELSE IF record.tenant_id # ident[j].tenant_id THEN "CrossTenantDecision"
  ELSE IF record.workspace_id \notin {NONE, ident[j].workspace_id} THEN "CrossTenantDecision"
  ELSE IF record.decision = "APPROVE" /\ is_self_approval(j, record.authority)
    THEN "SelfApproval"
  ELSE NONE

\* transition(): terminal, edge, guards, decision.
raised_by_transition(j, to, reason, principal, decision) ==
  LET decides == decision_for_edge(state[j], to)
      by_edge == raised_by_edge(j, to)
      by_guards == raised_by_guards(j, to, reason, principal, decides)
  IN IF state[j] \in TERMINAL THEN "TerminalState"
     ELSE IF by_edge # NONE THEN by_edge
     ELSE IF by_guards # NONE THEN by_guards
     ELSE IF decides # NONE
       THEN raised_by_decision(j, settled_record(j, decides, principal, decision), decides)
     ELSE IF decision # NONE THEN "DecisionStateMismatch"
     ELSE NONE

\* decide(): the citation is looked up before the record is built, and a record
\* without a reason is not built.
raised_by_decide(j, verdict, authority, reason, supplied) ==
  IF supplied # NONE /\ supplied \notin known_decisions(j) THEN "UnknownSupersededDecision"
  ELSE IF ~reason THEN "IncompleteDecision"
  ELSE raised_by_transition(j, DECISION_TARGET[verdict], TRUE, authority,
         minted(j, verdict, authority, NONE, supplied))

raised_by_resume(j, principal) ==
  IF state[j] # "AWAITING_APPROVAL" \/ awaiting_from[j] = NONE THEN "InvalidTransition"
  ELSE raised_by_transition(j, awaiting_from[j], FALSE, principal, NONE)

raised_by_supersede(j, id) ==
  IF state[j] \notin SUPERSEDABLE THEN "InvalidTransition"
  ELSE IF id = ident[j].job_id THEN "SelfSupersedingJob"
  ELSE NONE

-----------------------------------------------------------------------------
\* Every call of transition() a caller can make on a job.
Asked == [to : JobState, reason : BOOLEAN, by : Principals \union {NONE},
          decision : HandBuilt \union {NONE}]

answer(j, c) == raised_by_transition(j, c.to, c.reason, c.by, c.decision)

\* The backstop never fires (job.py: it "can only fire if the table is edited
\* wrongly"): whatever a caller asks, by whatever route the job came where it
\* is, execution is never refused for the lack of an approval alone, because a
\* job without one has no edge into execution.
BackstopNeverFires ==
  \A j \in Jobs : constructed(j) =>
    \A c \in Asked : answer(j, c) # "ExecutionBeforeApproval"

\* The ways out that a refusal names and that are calls of this engine are open,
\* so that no caller is sent from one refusal to the next.  A job stuck on a lapsed
\* approval can be cancelled, and from APPROVED timed out (core/errors.py,
\* ExpiredApproval), after which another job can replace it.  A job asked to
\* resume in the wrong place can resume in the right one, if its approval still
\* stands.  A settled job that did not deliver can be replaced by another job, and
\* one that delivered cannot.  A call refused for want of a reason, an actor or an
\* authority is not refused for that again once it has a reason and somebody to
\* answer for it.  The "fresh decision" ExpiredApproval asks for is not claimed to
\* be open: no edge leads this job back to the gate.
RemedyIsOpen ==
  \A j \in Jobs : constructed(j) => \A c \in Asked : \A p \in Principals :
    LET why == answer(j, c)
    IN /\ why = "ExpiredApproval" =>
            /\ raised_by_transition(j, "CANCELLED", TRUE, p, NONE) = NONE
            /\ state[j] = "APPROVED" =>
                 raised_by_transition(j, "TIMED_OUT", TRUE, p, NONE) = NONE
       /\ why = "WrongResumeState" =>
            /\ awaiting_from[j] # c.to
            /\ raised_by_resume(j, p) \in {NONE, "ExpiredApproval"}
            /\ raised_by_resume(j, p) = NONE <=> ~approval_expired(j)
       /\ why = "TerminalState" =>
            \A id \in Ids \ {ident[j].job_id} :
              raised_by_supersede(j, id) = NONE <=> state[j] # "COMPLETED"
       /\ why \in {"MissingReason", "MissingPrincipal", "MissingAuthority"} =>
            answer(j, [c EXCEPT !.reason = TRUE, !.by = p])
              \in {NONE, "DecisionStateMismatch", "WrongDecisionSubject",
                   "CrossTenantDecision", "SelfApproval"}

=============================================================================
