----------------------------- MODULE AuditTrail -----------------------------
(***************************************************************************)
(* The engine and the reader together: what replay_job makes of the trails *)
(* the engine writes, as they are and after records were lost, repeated or *)
(* reordered on the way.                                                   *)
(***************************************************************************)
EXTENDS Job, Replay

\* A STATE_TRANSITION into execution that was stamped at or past the deadline
\* its own guard had found open: the clock moved between the two readings.
StampedLate(j) ==
  /\ approval[j] # NONE
  /\ approval[j].expires_at # NONE
  /\ \E i \in DOMAIN history[j] :
       /\ history[j][i].to \in POST_APPROVAL
       /\ history[j][i].at >= approval[j].expires_at

\* What the trail says of a job is what the job says of itself.
Agrees(j, read) ==
  /\ read.refused = NONE
  /\ read.job_id = ident[j].job_id
  /\ read.tenant_id = ident[j].tenant_id
  /\ read.supersedes_job_id = ident[j].supersedes_job_id
  /\ read.state = state[j]
  /\ read.awaiting_from = awaiting_from[j]
  /\ read.approval = approval[j]
  /\ read.decision_ids = [n \in DOMAIN decisions[j] |-> decisions[j][n].decision_id]
  /\ read.history = [i \in DOMAIN history[j] |->
       [from |-> history[j][i].from, to |-> history[j][i].to, at |-> history[j][i].at,
        decision_id |-> history[j][i].decision_id]]
  /\ read.completed = (state[j] = "COMPLETED")
  /\ read.settled_as = IF state[j] \in TERMINAL THEN state[j] ELSE NONE

Settled(j) == state[j] \in TERMINAL

\* "The trail is complete enough to reconstruct the job from it": a reader of
\* any job's trail, at any moment, arrives at the job as it stands, its return
\* address, approval, decisions and history included.  The one trail refused
\* is one stamped late, and it is refused as execution after expiry.
ReplayAgrees ==
  \A j \in Jobs : constructed(j) =>
    LET read == replay_job(events[j])
    IN IF StampedLate(j) THEN read.refused = "ExecutionAfterExpiry"
       ELSE Agrees(j, read)

\* A settled trail that lost any run of its records does not replay, as long
\* as its closing record or the transition that settled it is still there.
\* (Cut before both, it is the trail of a job still running, and no reader of
\* the trail alone can tell.)
without(trail, from, to) ==
  SubSeq(trail, 1, from - 1) \o SubSeq(trail, to + 1, Len(trail))

SettledGapRefused ==
  \A j \in Jobs : Settled(j) =>
    \A from \in DOMAIN events[j] : \A to \in from .. Len(events[j]) :
      (to < Len(events[j]) \/ from > Last(history[j]).event) =>
        replay_job(without(events[j], from, to)).refused # NONE

\* An open trail cannot vouch for its last record, and does for every other:
\* losing any one of them is refused.
OpenGapRefused ==
  \A j \in Jobs : constructed(j) /\ ~Settled(j) =>
    \A n \in 1 .. Len(events[j]) - 1 :
      replay_job(without(events[j], n, n)).refused # NONE

\* A settled trail that holds any of its records once more, wherever the
\* second copy stands, does not replay: delivery at least once shows.
repeated(trail, n, at) == InsertAt(trail, at, trail[n])

SettledRepeatRefused ==
  \A j \in Jobs : Settled(j) =>
    \A n \in DOMAIN events[j] : \A at \in 1 .. Len(events[j]) + 1 :
      replay_job(repeated(events[j], n, at)).refused # NONE

\* Two neighbouring records in the wrong order are refused or read the same:
\* no reordering of neighbours makes a trail tell a different story.
swapped(trail, n) == [trail EXCEPT ![n] = trail[n + 1], ![n + 1] = trail[n]]

ReorderTellsNoLie ==
  \A j \in Jobs : \A n \in 1 .. Len(events[j]) - 1 :
    LET read == replay_job(swapped(events[j], n))
    IN read.refused = NONE => Agrees(j, read)

\* The copies of a trail the simulation edits by hand, to see them refused.
redirected(trail, n, to) == [trail EXCEPT ![n].to = to]

unjudged(trail) ==
  kept(trail, {n \in DOMAIN trail : trail[n].kind # "GOVERNANCE_DECISION"})

unclosed(trail) == Front(trail)

\* The deadline of every recorded approval is moved to when the clock started.
backdated(trail) ==
  [n \in DOMAIN trail |->
     IF trail[n].kind = "GOVERNANCE_DECISION"
       THEN [trail[n] EXCEPT !.approval.expires_at = 0] ELSE trail[n]]

\* A trail edited by hand: a reader of any job's trail notices that a move
\* another one follows is gone, that a move was made to lead where the table has
\* no edge, that the verdicts were taken out, that the closing record was, and
\* that the deadline of an approval that was acted on was moved to the past; and
\* says which it was (check_replay, check_governance_gate, check_expiry_enforced,
\* check_trail_closure).
EditedTrailsRefused ==
  \A j \in Jobs : constructed(j) /\ ~StampedLate(j) =>
    LET trail == events[j]
        moves == {n \in DOMAIN trail : trail[n].kind = "STATE_TRANSITION"}
    IN /\ \A n \in moves : (\E m \in moves : m > n) =>
            replay_job(without(trail, n, n)).refused = "BrokenTrail"
       /\ \A n \in moves : trail[n].from # "AWAITING_APPROVAL" =>
            \A to \in JobState \ TRANSITIONS[trail[n].from] :
              replay_job(redirected(trail, n, to)).refused = "UndeclaredTransition"
       /\ (\E n \in DOMAIN trail : trail[n].kind = "GOVERNANCE_DECISION") =>
            replay_job(unjudged(trail)).refused = "UnauditedDecision"
       /\ Settled(j) => replay_job(unclosed(trail)).refused = "UnsettledTrail"
       /\ (\E n \in moves : trail[n].to \in POST_APPROVAL) =>
            replay_job(backdated(trail)).refused = "ExecutionAfterExpiry"

\* packages/core/state-machine.md, "Guarantees": the trail is complete enough to
\* reconstruct the job from it.
EngineTrailReplays ==
  \A j \in Jobs : constructed(j) => replay_job(events[j]).refused = NONE

=============================================================================
