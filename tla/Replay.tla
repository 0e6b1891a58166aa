------------------------------- MODULE Replay -------------------------------
(***************************************************************************)
(* Reading a trail back: replay_job of                                     *)
(* packages/observability/devfactory_observability/replay.py.              *)
(*                                                                         *)
(* The loop over the trail is a recursive function of the number of        *)
(* records read; what it carries from one record to the next, and what it  *)
(* returns, is the record "reading".  An exception is its "refused" field, *)
(* which stops the reading where it was raised.                            *)
(*                                                                         *)
(* A trail is a sequence of event records as the engine writes them; one   *)
(* that came from outside carries a source.  The lifecycle is not restated *)
(* here: edges are judged by reachable_from, as the engine judges them.    *)
(*                                                                         *)
(* An operator named ..._slip is the next definition with a mistake in it, *)
(* kept to show that a property can fail; nothing here uses one.           *)
(***************************************************************************)
EXTENDS States, Sequences, SequencesExt

\* What a trail may be refused with.
ReplayError ==
  {"EmptyTrail", "UnstartedTrail", "BrokenTrail", "UndeclaredTransition",
   "UnauditedDecision", "UnauditedExecution", "ExecutionAfterExpiry",
   "IncompleteSettlement", "UnsettledTrail", "PrematureSettlement", "MiscountedTrail"}

\* None is no error.
ASSUME ReplayAssumption == NONE \notin ReplayError

\* An event this repository emitted: the engine leaves the source unset.
is_ours(event) == "source" \in DOMAIN event => event.source = "internal"

\* What a reader knows after the creation record.
started(creation) ==
  [refused |-> NONE, job_id |-> creation.job_id, tenant_id |-> creation.tenant_id,
   supersedes_job_id |-> creation.supersedes_job_id,
   state |-> "DRAFT", awaiting_from |-> NONE, approval |-> NONE, pending |-> NONE,
   decision_ids |-> <<>>, history |-> <<>>, completed |-> FALSE, closing |-> NONE]

refusal(error) == [refused |-> error]

\* The decision an edge is; the slip asks the destination alone.
decided_slip(from, to) ==
  IF \E v \in DecisionType : DECISION_TARGET[v] = to
    THEN CHOOSE v \in DecisionType : DECISION_TARGET[v] = to
    ELSE NONE

decided(from, to) == decision_for_edge(from, to)

\* The approval in force once the recorded move is made.
approval_read(reading, event) ==
  LET verdict == decided(reading.state, event.to)
  IN IF verdict = NONE THEN reading.approval
     ELSE IF verdict = "APPROVE" THEN reading.pending
     ELSE NONE

unaudited_decision(reading, event) ==
  LET verdict == decided(reading.state, event.to)
  IN verdict # NONE /\ (reading.pending = NONE \/ reading.pending.decision # verdict)

\* The deadline and the moment are both in the trail.
after_expiry(approval, event) ==
  approval.expires_at # NONE /\ event.occurred_at >= approval.expires_at

transition_refusal_slip(reading, event) ==
  IF unaudited_decision(reading, event) THEN "UnauditedDecision" ELSE NONE

\* Why a STATE_TRANSITION is not believed, in the order the checks are made.
transition_refusal(reading, event) ==
  IF event.from # reading.state THEN "BrokenTrail"
  ELSE IF event.to \notin reachable_from(reading.state, reading.awaiting_from)
    THEN "UndeclaredTransition"
  ELSE IF unaudited_decision(reading, event) THEN "UnauditedDecision"
  ELSE IF event.to \notin POST_APPROVAL THEN NONE
  ELSE LET approval == approval_read(reading, event)
       IN IF approval = NONE THEN "UnauditedExecution"
          ELSE IF after_expiry(approval, event) THEN "ExecutionAfterExpiry"
          ELSE NONE

\* The reading after a transition it believes.
followed(reading, event) ==
  LET verdict == decided(reading.state, event.to)
  IN [reading EXCEPT
        !.approval = approval_read(reading, event),
        !.pending = IF verdict = NONE THEN @ ELSE NONE,
        !.awaiting_from = IF event.to = "AWAITING_APPROVAL" THEN reading.state
                          ELSE IF reading.state = "AWAITING_APPROVAL" THEN NONE
                          ELSE @,
        !.history = Append(@,
           [from |-> event.from, to |-> event.to, at |-> event.occurred_at,
            decision_id |-> IF verdict = NONE THEN NONE
                            ELSE reading.pending.decision_id]),
        !.state = event.to]

\* One turn of the loop.
read_record(reading, event) ==
  IF event.job_id # reading.job_id THEN refusal("BrokenTrail")
  ELSE CASE event.kind = "GOVERNANCE_DECISION" ->
              [reading EXCEPT !.pending = event.approval,
                              !.decision_ids = Append(@, event.approval.decision_id)]
         [] event.kind = "JOB_SETTLED" -> [reading EXCEPT !.closing = event]
         [] event.kind = "JOB_COMPLETED" -> [reading EXCEPT !.completed = TRUE]
         [] event.kind = "STATE_TRANSITION" ->
              LET why == transition_refusal(reading, event)
              IN IF why = NONE THEN followed(reading, event) ELSE refusal(why)
         [] OTHER -> reading

\* The checks that look at the end of a trail rather than through it.
closing_refusal_slip(reading, length) ==
  IF reading.completed # (reading.state = "COMPLETED") THEN "IncompleteSettlement"
  ELSE IF reading.closing = NONE
    THEN (IF reading.state \in TERMINAL THEN "UnsettledTrail" ELSE NONE)
  ELSE IF reading.state \notin TERMINAL THEN "PrematureSettlement"
  ELSE NONE

closing_refusal(reading, length) ==
  IF reading.completed # (reading.state = "COMPLETED") THEN "IncompleteSettlement"
  ELSE IF reading.closing = NONE
    THEN (IF reading.state \in TERMINAL THEN "UnsettledTrail" ELSE NONE)
  ELSE IF reading.state \notin TERMINAL THEN "PrematureSettlement"
  ELSE IF reading.closing.event_count # length THEN "MiscountedTrail"
  ELSE NONE

\* ReplayedJob: the last reading without what only the loop needs.
replayed(reading) ==
  [refused |-> NONE, job_id |-> reading.job_id, tenant_id |-> reading.tenant_id,
   supersedes_job_id |-> reading.supersedes_job_id, state |-> reading.state,
   awaiting_from |-> reading.awaiting_from, approval |-> reading.approval,
   decision_ids |-> reading.decision_ids, history |-> reading.history,
   completed |-> reading.completed,
   settled_as |-> IF reading.closing = NONE THEN NONE ELSE reading.closing.settled_as]

\* The records of a sequence at the positions in P, in their order.
kept(s, P) ==
  LET upto[n \in 0 .. Len(s)] ==
        IF n = 0 THEN <<>>
        ELSE IF n \in P THEN Append(upto[n - 1], s[n])
        ELSE upto[n - 1]
  IN upto[Len(s)]

ours(all) == kept(all, {n \in DOMAIN all : is_ours(all[n])})

\* Once an exception is raised nothing more is read.
read_on(before, event) ==
  IF before.refused # NONE THEN before ELSE read_record(before, event)

\* What is known after each record of a trail that has a first one.
readings(trail) ==
  LET reading[n \in 1 .. Len(trail)] ==
        IF n = 1 THEN started(trail[1]) ELSE read_on(reading[n - 1], trail[n])
  IN reading

replay_job(all) ==
  LET trail == ours(all)
      end == readings(trail)[Len(trail)]
  IN IF trail = <<>> THEN refusal("EmptyTrail")
     ELSE IF trail[1].kind # "JOB_CREATED" THEN refusal("UnstartedTrail")
     ELSE IF end.refused # NONE THEN end
     ELSE LET why == closing_refusal(end, Len(trail))
          IN IF why = NONE THEN replayed(end) ELSE refusal(why)

=============================================================================
