--------------------------- MODULE JobProperties ----------------------------
(***************************************************************************)
(* What the job engine promises, stated over its state and its trail.      *)
(***************************************************************************)
EXTENDS Job, FiniteSets

\* Every variable has its type.  A job that was never constructed is blank.
TypeOK ==
  /\ ident \in [Jobs -> Identity \union {NONE}]
  /\ state \in [Jobs -> JobState]
  /\ awaiting_from \in [Jobs -> JobState \union {NONE}]
  /\ approval \in [Jobs -> Decision \union {NONE}]
  /\ decisions \in [Jobs -> Seq(Decision)]
  /\ history \in [Jobs -> Seq(TransitionRecord)]
  /\ events \in [Jobs -> Seq(Event)]
  /\ now \in Nat

\* Every state a job can be in only after it was approved, the settled ones
\* that only authorised work reaches included.
AUTHORISED == {"APPROVED", "COMPLETED", "FAILED"} \union POST_APPROVAL

-----------------------------------------------------------------------------
\* "Execution is locked until the job holds an APPROVE record": a job that is
\* authorised, delivered or failed holds an APPROVE, that APPROVE is the last
\* verdict of its own decision list, and it was about this job; a job that is
\* still to be judged, or was sent back, holds none.
ExecutionLock ==
  \A j \in Jobs :
    /\ state[j] \in AUTHORISED =>
         /\ approval[j] # NONE
         /\ approval[j].decision = "APPROVE"
         /\ approval[j].subject = ident[j].job_id
         /\ decisions[j] # <<>> /\ approval[j] = Last(decisions[j])
    /\ state[j] \in {"DRAFT", "GOVERNANCE_ANALYSIS", "REJECTED"} =>
         approval[j] = NONE

\* No agent approves the job it is the principal for, by whichever method the
\* verdict came, and no verdict of another tenant, workspace or job is ever
\* recorded on a job.
SeparationOfDuties ==
  \A j \in Jobs : \A d \in Range(decisions[j]) :
    /\ d.subject = ident[j].job_id
    /\ d.tenant_id = ident[j].tenant_id
    /\ d.workspace_id \in {NONE, ident[j].workspace_id}
    /\ d.decision = "APPROVE" =>
         ~(d.authority.type = "agent" /\ d.authority.id = ident[j].principal.id)

\* The way back out of a pause exists exactly while the job is paused, and it
\* is the pausable state its last recorded transition left.
ReturnAddress ==
  \A j \in Jobs :
    /\ awaiting_from[j] # NONE <=> state[j] = "AWAITING_APPROVAL"
    /\ awaiting_from[j] # NONE =>
         /\ awaiting_from[j] \in APPROVAL_PAUSABLE
         /\ awaiting_from[j] = Last(history[j]).from

\* The records of a trail of one kind, and the history's own account of the
\* transition record at its i-th entry.
recorded(j, kind) == {n \in DOMAIN events[j] : events[j][n].kind = kind}

\* "No silent state change": the history chains from DRAFT to the present
\* state, every entry of it is one STATE_TRANSITION of the trail and every
\* STATE_TRANSITION one entry, and a verdict stands directly before the move
\* it caused, its decision the one that edge is.
TrailExplainsState ==
  \A j \in Jobs : LET h == history[j] IN
    /\ state[j] = IF h = <<>> THEN "DRAFT" ELSE Last(h).to
    /\ Cardinality(recorded(j, "STATE_TRANSITION")) = Len(h)
    /\ Cardinality(recorded(j, "GOVERNANCE_DECISION")) = Len(decisions[j])
    /\ \A i \in DOMAIN h :
         /\ h[i].from = IF i = 1 THEN "DRAFT" ELSE h[i - 1].to
         /\ events[j][h[i].event] =
              StateTransition(ident[j].job_id, ident[j].tenant_id,
                              h[i].from, h[i].to, h[i].at)
         /\ h[i].decision_id = NONE <=> decision_for_edge(h[i].from, h[i].to) = NONE
         /\ h[i].decision_id # NONE =>
              LET verdict == events[j][h[i].event - 1]
              IN /\ verdict.kind = "GOVERNANCE_DECISION"
                 /\ verdict.approval.decision_id = h[i].decision_id
                 /\ verdict.approval.decision = decision_for_edge(h[i].from, h[i].to)

\* A settled job's trail is closed: exactly one JOB_SETTLED, the last record,
\* naming the terminal and counting every record of the trail; JOB_COMPLETED
\* announces a delivery and nothing else; and an open job's trail has neither.
TrailClosed ==
  \A j \in Jobs :
    LET last == Len(events[j]) IN
    /\ recorded(j, "JOB_SETTLED") = IF state[j] \in TERMINAL THEN {last} ELSE {}
    /\ recorded(j, "JOB_COMPLETED") = IF state[j] = "COMPLETED" THEN {last - 1} ELSE {}
    /\ state[j] \in TERMINAL =>
         /\ events[j][last].settled_as = state[j]
         /\ events[j][last].event_count = last

\* "Changing one's mind is a second decision citing the first": on every job
\* the decision ids differ, the first decision cites nothing, and every later
\* one cites a decision recorded before it on the same job, so that citations
\* never dangle, never cross jobs and never form a cycle.
CitationsHoldUp ==
  \A j \in Jobs : \A n \in DOMAIN decisions[j] :
    LET d == decisions[j][n]
        earlier == {decisions[j][m].decision_id : m \in 1 .. n - 1}
    IN /\ d.decision_id \notin earlier
       /\ IF n = 1 THEN d.supersedes_decision_id = NONE
          ELSE d.supersedes_decision_id \in earlier

\* A chain of attempts can be read back: a job that names a predecessor, when
\* only supersede() supplies the name, names a job of its own tenant that
\* settled without delivering, and that never woke up since.
AttemptChain ==
  \A j \in Jobs :
    constructed(j) /\ ident[j].supersedes_job_id # NONE =>
      \E old \in Jobs \ {j} :
        /\ constructed(old)
        /\ ident[old].job_id = ident[j].supersedes_job_id
        /\ ident[old].tenant_id = ident[j].tenant_id
        /\ ident[old].workspace_id = ident[j].workspace_id
        /\ state[old] \in {"FAILED", "CANCELLED", "TIMED_OUT"}

-----------------------------------------------------------------------------
\* The trail is append-only, and so are the history and the decisions: no step
\* rewrites what is written, and a job changes state only with one new entry.
AppendOnly ==
  [][\A j \in Jobs :
       /\ IsPrefix(events[j], events'[j])
       /\ IsPrefix(history[j], history'[j])
       /\ IsPrefix(decisions[j], decisions'[j])
       /\ <<state[j], awaiting_from[j], approval[j]>>'
            # <<state[j], awaiting_from[j], approval[j]>>
          => Len(history'[j]) = Len(history[j]) + 1]_vars

\* A job whose trail is closed is never woken: nothing about it changes again, not when it
\* is superseded and not when any other job moves.
SettledIsFinal ==
  [][\A j \in Jobs : recorded(j, "JOB_SETTLED") # {} =>
       UNCHANGED <<ident[j], state[j], awaiting_from[j], approval[j],
                   decisions[j], history[j], events[j]>>]_vars

\* A job leaves a pause for the state it paused in, or for good.
ResumesWherePaused ==
  [][\A j \in Jobs :
       state[j] = "AWAITING_APPROVAL" /\ state'[j] # "AWAITING_APPROVAL" =>
         state'[j] \in {Last(history[j]).from} \union TERMINAL]_vars

Lapsed(j) ==
  /\ approval[j] # NONE
  /\ approval[j].expires_at # NONE
  /\ now >= approval[j].expires_at

\* Once the approval in force has lapsed the only way on is out: whatever the
\* job does next settles it.
LapsedOnlySettles ==
  [][\A j \in Jobs :
       Lapsed(j) /\ state'[j] # state[j] => state'[j] \in TERMINAL]_vars

\* packages/core/state-machine.md, "Approval expiry": "What remains is a fresh
\* APPROVE, CANCELLED, or TIMED_OUT".
LapsedLeavesAsDocumented ==
  [][\A j \in Jobs :
       Lapsed(j) /\ state'[j] # state[j] =>
         \/ state'[j] \in {"CANCELLED", "TIMED_OUT"}
         \/ Len(decisions'[j]) > Len(decisions[j]) /\ Last(decisions'[j]).decision = "APPROVE"]_vars

-----------------------------------------------------------------------------
\* Where a job stands at the gate.
stage ==
  [j \in Jobs |->
     IF ~constructed(j) THEN "absent"
     ELSE IF state[j] = "COMPLETED" THEN "delivered"
     ELSE IF state[j] \in TERMINAL THEN "stopped"
     ELSE IF state[j] \in POST_APPROVAL THEN "working"
     ELSE "waiting"]

TheGate == INSTANCE Gate WITH licence <- approval, verdicts <- decisions

\* "Execution is locked", over whole lives: by whichever methods a job is moved,
\* it is judged only while it waits without an approval, is approved once at
\* most, begins to work only under that approval and never loses or changes it
\* afterwards, and delivers only from work.
KeepsTheGate == TheGate!Spec

=============================================================================
