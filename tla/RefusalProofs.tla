--------------------------- MODULE RefusalProofs ----------------------------
(***************************************************************************)
(* The engine's refusals: a call is made exactly when no check raises, and *)
(* the backstop of the direction lock is never what stops one.             *)
(***************************************************************************)
EXTENDS JobProofs, Refusals

\* _check_edge lets a call through exactly when the table and the job's way
\* back do.
LEMMA EdgePasses ==
  ASSUME NEW j \in Jobs, NEW to
  PROVE  raised_by_edge(j, to) = NONE <=> to \in allowed_targets(j)
  BY RefusalAssumption DEF raised_by_edge, JobStateMachineError

\* _check_guards lets a call through exactly when every guard holds.
LEMMA GuardsPass ==
  ASSUME NEW j \in Jobs, NEW to, NEW reason \in BOOLEAN, NEW principal, NEW decides
  PROVE  raised_by_guards(j, to, reason, principal, decides) = NONE
           <=> guards_pass(j, to, reason, principal, decides)
  BY RefusalAssumption DEF raised_by_guards, guards_pass, JobStateMachineError

\* _check_decision lets a record through exactly when it fits the job and the
\* edge.
LEMMA DecisionFits ==
  ASSUME NEW j \in Jobs, NEW record, NEW decides
  PROVE  raised_by_decision(j, record, decides) = NONE
           <=> decision_fits(j, record, decides)
  BY RefusalAssumption DEF raised_by_decision, decision_fits, JobStateMachineError

\* transition() performs the whole move or raises, and which of the two is
\* settled by its checks alone: a call moves a job exactly when none of them
\* raises, and then everything the method assigns is assigned.  (MaxHistory and
\* MaxTime bound the instance.)
THEOREM RefusedOrMade ==
  ASSUME NEW j \in Jobs, NEW to \in JobState, NEW reason \in BOOLEAN,
         NEW principal \in Principals \union {NONE},
         NEW decision \in Decision \union {NONE}, NEW at
  PROVE  transition(j, to, reason, principal, decision, at)
           <=> /\ constructed(j) /\ Len(history[j]) < MaxHistory /\ at \in now .. MaxTime
               /\ raised_by_transition(j, to, reason, principal, decision) = NONE
               /\ move(j, to,
                    settled_record(j, decision_for_edge(state[j], to), principal, decision), at)
<1> DEFINE decides == decision_for_edge(state[j], to)
           record == settled_record(j, decides, principal, decision)
           unrefused ==
             /\ state[j] \notin TERMINAL
             /\ to \in allowed_targets(j)
             /\ guards_pass(j, to, reason, principal, decides)
             /\ decides = NONE => decision = NONE
             /\ decides # NONE => decision_fits(j, record, decides)
<1>1. raised_by_transition(j, to, reason, principal, decision) = NONE <=> unrefused
  <2>1. raised_by_edge(j, to) = NONE <=> to \in allowed_targets(j)
    BY EdgePasses
  <2>2. raised_by_guards(j, to, reason, principal, decides) = NONE
          <=> guards_pass(j, to, reason, principal, decides)
    BY GuardsPass
  <2>3. raised_by_decision(j, record, decides) = NONE <=> decision_fits(j, record, decides)
    BY DecisionFits
  <2> HIDE DEF decides, record
  <2>4. raised_by_transition(j, to, reason, principal, decision) =
          IF state[j] \in TERMINAL THEN "TerminalState"
          ELSE IF raised_by_edge(j, to) # NONE THEN raised_by_edge(j, to)
          ELSE IF raised_by_guards(j, to, reason, principal, decides) # NONE
            THEN raised_by_guards(j, to, reason, principal, decides)
          ELSE IF decides # NONE THEN raised_by_decision(j, record, decides)
          ELSE IF decision # NONE THEN "DecisionStateMismatch"
          ELSE NONE
    BY DEF raised_by_transition, decides, record
  <2>5. NONE \notin {"TerminalState", "DecisionStateMismatch"}
    BY RefusalAssumption DEF JobStateMachineError
  <2>6. QED
    BY <2>1, <2>2, <2>3, <2>4, <2>5
<1>2. QED
  BY <1>1 DEF transition

\* decide() gives its verdict whole or refuses, and the checks made in it and in
\* the transition() it calls settle which: a citation that is not one of this job's decisions, an edge that is no
\* verdict and a record that does not fit are found before anything is assigned,
\* and what is recorded is the record decide() made, under the citation it
\* settled on.
THEOREM VerdictRefusedOrGiven ==
  ASSUME TypeOK, NEW j \in Jobs, constructed(j), NEW verdict \in DecisionType,
         NEW authority \in Principals, NEW expires \in Nat \union {NONE},
         NEW supplied \in DecisionId \union {NONE}, NEW at,
         NEW cites, cites = (IF supplied = NONE THEN last_decision_id(j) ELSE supplied),
         NEW record, record = minted(j, verdict, authority, expires, cites)
  PROVE  ((supplied # NONE => supplied \in known_decisions(j))
            /\ transition(j, DECISION_TARGET[verdict], TRUE, authority, record, at))
           <=> /\ Len(history[j]) < MaxHistory /\ at \in now .. MaxTime
               /\ raised_by_decide(j, verdict, authority, TRUE, supplied) = NONE
               /\ move(j, DECISION_TARGET[verdict], record, at)
<1>1. PICK to, decides, tried :
        /\ to = DECISION_TARGET[verdict] /\ decides = decision_for_edge(state[j], to)
        /\ tried = minted(j, verdict, authority, NONE, supplied)
  OBVIOUS
<1>2. to \in JobState
  BY <1>1 DEF DECISION_TARGET, DecisionType, JobState
<1>3. last_decision_id(j) \in DecisionId \union {NONE}
  BY LastDecision
<1>4. record \in Decision /\ tried \in Decision /\ record # NONE /\ tried # NONE
  <2>1. cites \in DecisionId \union {NONE}
    BY <1>3
  <2>2. record \in Decision /\ tried \in Decision
    BY <1>1, <2>1, MintedIsDecision
  <2>3. QED BY <2>2, JobAssumption
<1>5. /\ record.decision = tried.decision /\ record.subject = tried.subject
      /\ record.tenant_id = tried.tenant_id /\ record.workspace_id = tried.workspace_id
      /\ record.authority = tried.authority
  BY <1>1 DEF minted
<1>6. raised_by_decision(j, record, decides) = raised_by_decision(j, tried, decides)
  BY <1>5 DEF raised_by_decision
<1>7. settled_record(j, decides, authority, record) = (IF decides = NONE THEN NONE ELSE record)
      /\ settled_record(j, decides, authority, tried) = (IF decides = NONE THEN NONE ELSE tried)
  BY <1>4 DEF settled_record
<1>8. raised_by_transition(j, to, TRUE, authority, record)
        = raised_by_transition(j, to, TRUE, authority, tried)
  BY <1>1, <1>4, <1>6, <1>7 DEF raised_by_transition
<1>9. raised_by_decide(j, verdict, authority, TRUE, supplied) = NONE
        <=> /\ supplied # NONE => supplied \in known_decisions(j)
            /\ raised_by_transition(j, to, TRUE, authority, record) = NONE
  BY <1>1, <1>8, RefusalAssumption DEF raised_by_decide, JobStateMachineError
<1>10. raised_by_transition(j, to, TRUE, authority, record) = NONE =>
         settled_record(j, decides, authority, record) = record
  BY <1>1, <1>4, <1>7, RefusalAssumption DEF raised_by_transition, JobStateMachineError
<1>11. transition(j, to, TRUE, authority, record, at)
         <=> /\ Len(history[j]) < MaxHistory /\ at \in now .. MaxTime
             /\ raised_by_transition(j, to, TRUE, authority, record) = NONE
             /\ move(j, to, record, at)
  <2>1. transition(j, to, TRUE, authority, record, at)
         <=> /\ constructed(j) /\ Len(history[j]) < MaxHistory /\ at \in now .. MaxTime
             /\ raised_by_transition(j, to, TRUE, authority, record) = NONE
             /\ move(j, to, settled_record(j, decides, authority, record), at)
    BY <1>1, <1>2, <1>4, RefusedOrMade
  <2>2. QED BY <1>10, <2>1
<1>12. QED BY <1>1, <1>9, <1>11

\* A job without an approval has no edge into execution: a table that let one
\* in would have to be edited, or the approval taken away behind its back.
LEMMA NoApprovalNoEdge ==
  ASSUME LockInv, NEW j \in Jobs, approval[j] = NONE,
         NEW to \in POST_APPROVAL, state[j] \notin TERMINAL
  PROVE  to \notin allowed_targets(j)
<1>1. state[j] \in {"DRAFT", "GOVERNANCE_ANALYSIS", "REJECTED"}
  BY DEF LockInv, TypeOK, ExecutionLock, AUTHORISED, POST_APPROVAL, TERMINAL, JobState
<1>2. allowed_targets(j) = TRANSITIONS[state[j]]
  BY <1>1 DEF allowed_targets, reachable_from
<1>3. QED
  BY <1>1, <1>2 DEF TRANSITIONS, CrossCuttingExits, Progression, POST_APPROVAL,
                    TERMINAL, JobState

\* The backstop never fires, whatever a caller asks and however the job came
\* where it is (job.py, _check_guards).
THEOREM BackstopIsIdle == Spec => []BackstopNeverFires
<1>1. LockInv => BackstopNeverFires
  <2> SUFFICES ASSUME LockInv, NEW j \in Jobs, NEW c \in Asked,
                      answer(j, c) = "ExecutionBeforeApproval"
               PROVE  FALSE
    BY DEF BackstopNeverFires
  <2> DEFINE decides == decision_for_edge(state[j], c.to)
  <2>1. "ExecutionBeforeApproval" # NONE
    BY RefusalAssumption DEF JobStateMachineError
  <2>2. raised_by_edge(j, c.to) # "ExecutionBeforeApproval"
    BY <2>1 DEF raised_by_edge
  <2>3. \A record : raised_by_decision(j, record, decides) # "ExecutionBeforeApproval"
    BY <2>1 DEF raised_by_decision
  <2>4. /\ state[j] \notin TERMINAL
        /\ raised_by_edge(j, c.to) = NONE
        /\ raised_by_guards(j, c.to, c.reason, c.by, decides) = "ExecutionBeforeApproval"
    BY <2>1, <2>2, <2>3 DEF answer, raised_by_transition
  <2>5. c.to \in POST_APPROVAL /\ approval[j] = NONE
    BY <2>1, <2>4 DEF raised_by_guards
  <2>6. QED
    BY <2>4, <2>5, EdgePasses, NoApprovalNoEdge
<1>2. QED
  BY <1>1, LockInvariant, PTL

-----------------------------------------------------------------------------
(* What a refusal tells its caller to do.                                  *)

\* What is true of a job when it refuses a call with each of these errors.
LEMMA WhyRefused ==
  ASSUME NEW j \in Jobs, NEW c \in Asked
  PROVE  LET why == answer(j, c)
             decides == decision_for_edge(state[j], c.to)
         IN /\ why = "TerminalState" => state[j] \in TERMINAL
            /\ why = "WrongResumeState" =>
                 /\ state[j] = "AWAITING_APPROVAL"
                 /\ c.to \notin allowed_targets(j)
            /\ why = "ExpiredApproval" => state[j] \notin TERMINAL
            /\ why \in {"MissingReason", "MissingPrincipal", "MissingAuthority"} =>
                 /\ state[j] \notin TERMINAL
                 /\ raised_by_edge(j, c.to) = NONE
                 /\ c.to \in {"FAILED", "CANCELLED", "TIMED_OUT"} \/ decides # NONE
<1> DEFINE decides == decision_for_edge(state[j], c.to)
           record == settled_record(j, decides, c.by, c.decision)
           E == {"ExpiredApproval", "MissingReason", "MissingPrincipal", "MissingAuthority"}
<1> HIDE DEF decides, record
<1>1. /\ NONE \notin E \union {"WrongResumeState", "TerminalState", "DecisionStateMismatch"}
      /\ NONE \notin {"InvalidTransition", "MissingApprovalContext"}
  BY RefusalAssumption DEF JobStateMachineError, E
<1>2. raised_by_edge(j, c.to) \in
        {NONE, "WrongResumeState", "MissingApprovalContext", "InvalidTransition"}
  BY DEF raised_by_edge
<1>3. raised_by_edge(j, c.to) = "WrongResumeState" =>
        state[j] = "AWAITING_APPROVAL" /\ c.to \notin allowed_targets(j)
  BY <1>1 DEF raised_by_edge
<1>4. raised_by_guards(j, c.to, c.reason, c.by, decides) \in
        {NONE, "ExecutionBeforeApproval"} \union E
  BY DEF raised_by_guards
<1>5. raised_by_guards(j, c.to, c.reason, c.by, decides) \in E \ {"ExpiredApproval"} =>
        c.to \in {"FAILED", "CANCELLED", "TIMED_OUT"} \/ decides # NONE
  BY <1>1 DEF raised_by_guards, REASON_REQUIRED
<1>6. raised_by_decision(j, record, decides) \in
        {NONE, "DecisionStateMismatch", "WrongDecisionSubject", "CrossTenantDecision",
         "SelfApproval"}
  BY DEF raised_by_decision
<1>7. answer(j, c) =
        IF state[j] \in TERMINAL THEN "TerminalState"
        ELSE IF raised_by_edge(j, c.to) # NONE THEN raised_by_edge(j, c.to)
        ELSE IF raised_by_guards(j, c.to, c.reason, c.by, decides) # NONE
          THEN raised_by_guards(j, c.to, c.reason, c.by, decides)
        ELSE IF decides # NONE THEN raised_by_decision(j, record, decides)
        ELSE IF c.decision # NONE THEN "DecisionStateMismatch"
        ELSE NONE
  BY DEF answer, raised_by_transition, decides, record
<1>8. CASE state[j] \in TERMINAL
  BY <1>7, <1>8
<1>9. CASE state[j] \notin TERMINAL /\ raised_by_edge(j, c.to) # NONE
  BY <1>2, <1>3, <1>7, <1>9
<1>10. CASE /\ state[j] \notin TERMINAL /\ raised_by_edge(j, c.to) = NONE
            /\ raised_by_guards(j, c.to, c.reason, c.by, decides) # NONE
  BY <1>1, <1>4, <1>5, <1>7, <1>10 DEF decides
<1>11. CASE /\ state[j] \notin TERMINAL /\ raised_by_edge(j, c.to) = NONE
            /\ raised_by_guards(j, c.to, c.reason, c.by, decides) = NONE
  BY <1>1, <1>6, <1>7, <1>11
<1>12. QED
  BY <1>8, <1>9, <1>10, <1>11

\* A job that has not settled can be cancelled, whatever became of its approval,
\* and one that waits in APPROVED can be timed out.
LEMMA WayOutIsOpen ==
  ASSUME LockInv, NEW j \in Jobs, state[j] \notin TERMINAL, NEW p \in Principals
  PROVE  /\ raised_by_transition(j, "CANCELLED", TRUE, p, NONE) = NONE
         /\ state[j] = "APPROVED" =>
              raised_by_transition(j, "TIMED_OUT", TRUE, p, NONE) = NONE
<1>1. state[j] \in JobState /\ p # NONE
  BY JobAssumption DEF LockInv, TypeOK
<1>2. "CANCELLED" \in TRANSITIONS[state[j]] /\ "TIMED_OUT" \in TRANSITIONS["APPROVED"]
  BY <1>1 DEF TRANSITIONS, CrossCuttingExits, TERMINAL, TIMEOUTABLE, JobState
<1>3. TRANSITIONS[state[j]] \subseteq allowed_targets(j)
  BY DEF allowed_targets, reachable_from
<1>4. ASSUME NEW to \in {"CANCELLED", "TIMED_OUT"}, to \in allowed_targets(j)
      PROVE  raised_by_transition(j, to, TRUE, p, NONE) = NONE
  <2>1. decision_for_edge(state[j], to) = NONE
    BY <1>1, VerdictEdges DEF JobState
  <2>2. raised_by_edge(j, to) = NONE
    BY <1>4, EdgePasses
  <2>3. raised_by_guards(j, to, TRUE, p, NONE) = NONE
    BY <1>1, <1>4 DEF raised_by_guards, POST_APPROVAL
  <2>4. QED
    BY <2>1, <2>2, <2>3 DEF raised_by_transition
<1>5. QED
  BY <1>2, <1>3, <1>4

\* resume() asks only that the job is paused with a place to go back to.  Of all
\* that transition() then asks, the one thing that can stop a return which got
\* that far is time: the terminal check, the edge, the reason, the principal, the
\* missing approval and the decision never do, whoever resumes and whether or not
\* they say why, and a lapsed approval does (test_guards.py: a pause that outlasts
\* the approval cannot be resumed).  A return that is not stopped is a whole move
\* to the place of the pause, with no decision.
THEOREM OnlyALapseStopsAReturn ==
  ASSUME LockInv, NEW j \in Jobs, NEW reason \in BOOLEAN,
         NEW principal \in Principals \union {NONE}, NEW at,
         state[j] = "AWAITING_APPROVAL", awaiting_from[j] # NONE
  PROVE  /\ raised_by_transition(j, awaiting_from[j], reason, principal, NONE) =
              IF approval_expired(j) THEN "ExpiredApproval" ELSE NONE
         /\ transition(j, awaiting_from[j], reason, principal, NONE, at)
              <=> /\ Len(history[j]) < MaxHistory /\ at \in now .. MaxTime
                  /\ ~approval_expired(j)
                  /\ move(j, awaiting_from[j], NONE, at)
<1>1. PICK to : to = awaiting_from[j]
  OBVIOUS
<1>2. to \in APPROVAL_PAUSABLE /\ to \in allowed_targets(j) /\ constructed(j)
  BY <1>1 DEF LockInv, ReturnAddress, BlankUntilConstructed, allowed_targets, reachable_from
<1>3. to \in POST_APPROVAL \ REASON_REQUIRED /\ to \in JobState \ {"CANCELLED"}
  BY <1>2 DEF APPROVAL_PAUSABLE, POST_APPROVAL, REASON_REQUIRED, JobState
<1>4. approval[j] # NONE
  BY DEF LockInv, ExecutionLock, AUTHORISED, POST_APPROVAL
<1>5. decision_for_edge(state[j], to) = NONE
  BY <1>3, VerdictEdges DEF JobState
<1>6. raised_by_edge(j, to) = NONE
  BY <1>2, EdgePasses
<1>7. raised_by_guards(j, to, reason, principal, NONE) =
        IF approval_expired(j) THEN "ExpiredApproval" ELSE NONE
  BY <1>3, <1>4 DEF raised_by_guards
<1>8. "ExpiredApproval" # NONE /\ state[j] \notin TERMINAL
  BY RefusalAssumption DEF JobStateMachineError, TERMINAL
<1>9. raised_by_transition(j, to, reason, principal, NONE) =
        IF approval_expired(j) THEN "ExpiredApproval" ELSE NONE
  BY <1>5, <1>6, <1>7, <1>8 DEF raised_by_transition
<1>10. settled_record(j, NONE, principal, NONE) = NONE
  BY DEF settled_record
<1>11. transition(j, to, reason, principal, NONE, at)
         <=> /\ constructed(j) /\ Len(history[j]) < MaxHistory /\ at \in now .. MaxTime
             /\ raised_by_transition(j, to, reason, principal, NONE) = NONE
             /\ move(j, to,
                  settled_record(j, decision_for_edge(state[j], to), principal, NONE), at)
  <2>1. to \in JobState
    BY <1>3
  <2>2. QED BY <2>1, RefusedOrMade
<1>12. transition(j, to, reason, principal, NONE, at)
         <=> /\ Len(history[j]) < MaxHistory /\ at \in now .. MaxTime
             /\ ~approval_expired(j)
             /\ move(j, to, NONE, at)
  BY <1>2, <1>5, <1>8, <1>9, <1>10, <1>11
<1>13. QED BY <1>1, <1>9, <1>12

\* A paused job goes back where it paused, unless its approval has lapsed.
LEMMA WayBackIsOpen ==
  ASSUME LockInv, NEW j \in Jobs, state[j] = "AWAITING_APPROVAL", NEW p \in Principals
  PROVE  /\ awaiting_from[j] \in allowed_targets(j)
         /\ raised_by_resume(j, p) =
              IF approval_expired(j) THEN "ExpiredApproval" ELSE NONE
<1>1. awaiting_from[j] # NONE /\ awaiting_from[j] \in allowed_targets(j)
  BY DEF LockInv, ReturnAddress, allowed_targets, reachable_from
<1>2. raised_by_transition(j, awaiting_from[j], FALSE, p, NONE) =
        IF approval_expired(j) THEN "ExpiredApproval" ELSE NONE
  BY <1>1, OnlyALapseStopsAReturn
<1>3. QED BY <1>1, <1>2 DEF raised_by_resume

\* A call on a verdict or an exit that says why and who is refused, if at all,
\* for the decision it carries.
LEMMA FilledInIsHeard ==
  ASSUME LockInv, NEW j \in Jobs, state[j] \notin TERMINAL,
         NEW to \in JobState, NEW p \in Principals, NEW decision,
         raised_by_edge(j, to) = NONE,
         \/ to \in {"FAILED", "CANCELLED", "TIMED_OUT"}
         \/ decision_for_edge(state[j], to) # NONE
  PROVE  raised_by_transition(j, to, TRUE, p, decision)
           \in {NONE, "DecisionStateMismatch", "WrongDecisionSubject",
                "CrossTenantDecision", "SelfApproval"}
<1> DEFINE decides == decision_for_edge(state[j], to)
           record == settled_record(j, decides, p, decision)
<1>1. to \notin POST_APPROVAL
  BY VerdictEdges DEF LockInv, TypeOK, POST_APPROVAL
<1> HIDE DEF decides, record
<1>2. raised_by_guards(j, to, TRUE, p, decides) = NONE
  BY <1>1, JobAssumption DEF raised_by_guards
<1>3. raised_by_decision(j, record, decides) \in
        {NONE, "DecisionStateMismatch", "WrongDecisionSubject", "CrossTenantDecision",
         "SelfApproval"}
  BY DEF raised_by_decision
<1>4. raised_by_transition(j, to, TRUE, p, decision) =
        IF decides # NONE THEN raised_by_decision(j, record, decides)
        ELSE IF decision # NONE THEN "DecisionStateMismatch"
        ELSE NONE
  BY <1>2 DEF raised_by_transition, decides, record
<1>5. QED
  BY <1>3, <1>4

\* What a refusal tells its caller to do can be done, whatever the job has been
\* through (the messages of core/errors.py).
THEOREM RemediesAreOpen == Spec => []RemedyIsOpen
<1>1. LockInv => RemedyIsOpen
  <2> SUFFICES ASSUME LockInv, NEW j \in Jobs, NEW c \in Asked, NEW p \in Principals
               PROVE  LET why == answer(j, c)
                      IN /\ why = "ExpiredApproval" =>
                              /\ raised_by_transition(j, "CANCELLED", TRUE, p, NONE) = NONE
                              /\ state[j] = "APPROVED" =>
                                   raised_by_transition(j, "TIMED_OUT", TRUE, p, NONE) = NONE
                         /\ why = "WrongResumeState" =>
                              /\ awaiting_from[j] # c.to
                              /\ raised_by_resume(j, p) \in {NONE, "ExpiredApproval"}
                              /\ raised_by_resume(j, p) = NONE <=> ~approval_expired(j)
                         /\ why = "TerminalState" =>
                              \A id \in Ids \ {ident[j].job_id} :
                                raised_by_supersede(j, id) = NONE <=> state[j] # "COMPLETED"
                         /\ why \in {"MissingReason", "MissingPrincipal", "MissingAuthority"} =>
                              answer(j, [c EXCEPT !.reason = TRUE, !.by = p])
                                \in {NONE, "DecisionStateMismatch", "WrongDecisionSubject",
                                     "CrossTenantDecision", "SelfApproval"}
    BY DEF RemedyIsOpen
  <2>1. answer(j, c) = "ExpiredApproval" =>
          /\ raised_by_transition(j, "CANCELLED", TRUE, p, NONE) = NONE
          /\ state[j] = "APPROVED" =>
               raised_by_transition(j, "TIMED_OUT", TRUE, p, NONE) = NONE
    BY WhyRefused, WayOutIsOpen
  <2>2. ASSUME answer(j, c) = "WrongResumeState"
        PROVE  /\ awaiting_from[j] # c.to
               /\ raised_by_resume(j, p) \in {NONE, "ExpiredApproval"}
               /\ raised_by_resume(j, p) = NONE <=> ~approval_expired(j)
    <3>1. state[j] = "AWAITING_APPROVAL" /\ c.to \notin allowed_targets(j)
      BY <2>2, WhyRefused
    <3>2. "ExpiredApproval" # NONE
      BY RefusalAssumption DEF JobStateMachineError
    <3>3. QED
      BY <3>1, <3>2, WayBackIsOpen
  <2>3. ASSUME answer(j, c) = "TerminalState", NEW id \in Ids \ {ident[j].job_id}
        PROVE  raised_by_supersede(j, id) = NONE <=> state[j] # "COMPLETED"
    <3>1. state[j] \in TERMINAL
      BY <2>3, WhyRefused
    <3>2. NONE \notin {"InvalidTransition", "SelfSupersedingJob"}
      BY RefusalAssumption DEF JobStateMachineError
    <3>3. QED
      BY <3>1, <3>2 DEF raised_by_supersede, SUPERSEDABLE
  <2>4. ASSUME answer(j, c) \in {"MissingReason", "MissingPrincipal", "MissingAuthority"}
        PROVE  answer(j, [c EXCEPT !.reason = TRUE, !.by = p])
                 \in {NONE, "DecisionStateMismatch", "WrongDecisionSubject",
                      "CrossTenantDecision", "SelfApproval"}
    <3>1. /\ state[j] \notin TERMINAL
          /\ raised_by_edge(j, c.to) = NONE
          /\ \/ c.to \in {"FAILED", "CANCELLED", "TIMED_OUT"}
             \/ decision_for_edge(state[j], c.to) # NONE
      BY <2>4, WhyRefused
    <3>2. /\ c.to \in JobState
          /\ answer(j, [c EXCEPT !.reason = TRUE, !.by = p]) =
               raised_by_transition(j, c.to, TRUE, p, c.decision)
      BY DEF Asked, answer
    <3>3. QED
      BY <3>1, <3>2, FilledInIsHeard
  <2>5. QED
    BY <2>1, <2>2, <2>3, <2>4
<1>2. QED
  BY <1>1, LockInvariant, PTL

=============================================================================
