------------------------------- MODULE Flows --------------------------------
(***************************************************************************)
(* The journeys of simulation/flows.py and the simulation that drives the  *)
(* engine through them, simulation/e2e_flow.py.                            *)
(*                                                                         *)
(* A flow is a script, a sequence of calls, and its caller makes them one  *)
(* after the other: a call that ought to be accepted and is refused, or    *)
(* the other way round, ends the run there.  simulate() runs one script    *)
(* after another on jobs that share nothing but a clock; here one of them  *)
(* is chosen, on one job or two, and its jobs are filed when it is over    *)
(* (simulate() leaves out those it only made to see a call refused; here   *)
(* the one whose state was set behind the engine's back is).  The forward  *)
(* path is not written out: it is read from the table.                     *)
(***************************************************************************)
EXTENDS Ledger, Refusals

CONSTANTS
  first, second,     \* the Job objects of a flow
  TENANT, WORKSPACE, \* the one scope of all the jobs
  owner, reviewer,   \* who the jobs belong to, and who decides
  Past               \* a deadline behind the clock's first reading

\* The deadlines the flows pass are deadlines callers pass.
ASSUME FlowsAssumption ==
  /\ first \in Jobs /\ second \in Jobs /\ first # second
  /\ TENANT \in Tenants /\ WORKSPACE \in Workspaces
  /\ owner \in Principals /\ reviewer \in Principals
  /\ Past = 0 /\ {Past, MaxTime} \subseteq Deadlines

VARIABLES
  flow,  \* the flow being run
  pc     \* the next of its calls

flow_vars == <<ledger_vars, flow, pc>>

-----------------------------------------------------------------------------
\* Exits that are not progress.
_NOT_FORWARD ==
  (TERMINAL \ {"COMPLETED"}) \union {"REJECTED", "AWAITING_APPROVAL", "DRAFT"}

forward(s) == reachable_from(s, NONE) \ _NOT_FORWARD

\* One state more, while there is exactly one way forward and it is a new one.
onward(line) ==
  line \o SetToSeq({s \in JobState : forward(Last(line)) = {s}} \ Range(line))

\* From DRAFT for as long as there is one.
MAIN_LINE ==
  LET line[n \in 1 .. Cardinality(JobState)] ==
        IF n = 1 THEN <<"DRAFT">> ELSE onward(line[n - 1])
  IN line[Cardinality(JobState)]

\* Calls.
move_to(j, s, reason, principal) ==
  [on |-> j, call |-> "transition", to |-> s, reason |-> reason, by |-> principal]

go(j, s) == move_to(j, s, FALSE, NONE)
submit(j) == move_to(j, "GOVERNANCE_ANALYSIS", TRUE, NONE)
pause(j) == move_to(j, "AWAITING_APPROVAL", TRUE, NONE)
fail(j) == move_to(j, "FAILED", TRUE, NONE)
time_out(j) == move_to(j, "TIMED_OUT", TRUE, NONE)
cancel(j) == move_to(j, "CANCELLED", TRUE, owner)
resume(j) == [on |-> j, call |-> "resume"]
decide(j, verdict, expires) ==
  [on |-> j, call |-> "decide", verdict |-> verdict, expires |-> expires]
approve(j) == decide(j, "APPROVE", NONE)
new(j) == [on |-> j, call |-> "new"]
supersede == [on |-> first, call |-> "supersede"]

\* job._state = s
force(j, s) == [on |-> j, call |-> "force", to |-> s]
\* The clock is pushed forward.
wait(until) == [on |-> first, call |-> "wait", until |-> until]

\* A call made to see it refused, and the errors it may be refused with.
refused(c, errors) == [on |-> c.on, call |-> "refused", tried |-> c, errors |-> errors]

\* _enter
enter(j, s) ==
  IF s = "GOVERNANCE_ANALYSIS" THEN submit(j)
  ELSE IF s = "APPROVED" THEN approve(j)
  ELSE go(j, s)

\* From a fresh job to the state named.
advance_to(j, s) ==
  [n \in 1 .. (CHOOSE i \in DOMAIN MAIN_LINE : MAIN_LINE[i] = s) - 1 |->
     enter(j, MAIN_LINE[n + 1])]

-----------------------------------------------------------------------------
\* The flows, on a job already constructed.
happy_path(j, pause_in) ==
  FlattenSeq([n \in 1 .. Len(MAIN_LINE) - 1 |->
    IF MAIN_LINE[n] = pause_in THEN <<pause(j), resume(j), enter(j, MAIN_LINE[n + 1])>>
    ELSE <<enter(j, MAIN_LINE[n + 1])>>])

rejected_then_resubmitted(j) ==
  <<submit(j), decide(j, "REJECT", NONE), go(j, "DRAFT"), submit(j), approve(j),
    go(j, "TASK_PLANNING")>>

require_changes_then_resubmitted(j) ==
  <<submit(j), decide(j, "REQUIRE_CHANGES", NONE), submit(j), approve(j),
    go(j, "TASK_PLANNING")>>

failed_at(j, s) ==
  (IF s = "AWAITING_APPROVAL" THEN Append(advance_to(j, "IN_PROGRESS"), pause(j))
   ELSE advance_to(j, s)) \o <<fail(j)>>

never_approved(j) == <<submit(j)>>

cancelled_by_a_person(j) == <<submit(j), cancel(j)>>

approval_expired_at(j, expires) ==
  <<submit(j), decide(j, "APPROVE", expires), time_out(j)>>

approval_expired_then_resubmitted(expires) ==
  approval_expired_at(first, expires)
    \o <<supersede, submit(second), approve(second), go(second, "TASK_PLANNING")>>

stalled_awaiting_approval(j) ==
  advance_to(j, "IN_PROGRESS") \o <<pause(j), time_out(j)>>

\* _park_in
park_in(j, s) ==
  IF s = "DRAFT" THEN <<>>
  ELSE IF s = "GOVERNANCE_ANALYSIS" THEN <<submit(j)>>
  ELSE IF s = "REJECTED" THEN <<submit(j), decide(j, "REJECT", NONE)>>
  ELSE <<submit(j), approve(j)>>

-----------------------------------------------------------------------------
\* What e2e_flow drives, and the end it expects of the job it looks at.
ISSUE_7_FLOW ==
  <<"DRAFT", "GOVERNANCE_ANALYSIS", "APPROVED", "TASK_PLANNING", "IN_PROGRESS",
    "VALIDATING", "DEPLOYABLE", "COMPLETED">>

run_of(name, script, of, ends) ==
  [name |-> name, script |-> <<new(first)>> \o script, of |-> of, ends |-> ends]

check_full_flow ==
  {run_of("full", happy_path(first, NONE), first, ISSUE_7_FLOW)} \union
  {run_of("paused", happy_path(first, s), first, <<s, "AWAITING_APPROVAL", s>>
      \o SubSeq(ISSUE_7_FLOW, 1 + CHOOSE i \in DOMAIN ISSUE_7_FLOW : ISSUE_7_FLOW[i] = s,
                Len(ISSUE_7_FLOW))) : s \in APPROVAL_PAUSABLE}

check_rejection_flow ==
  {run_of("rejected", rejected_then_resubmitted(first), first,
     <<"DRAFT", "GOVERNANCE_ANALYSIS", "REJECTED", "DRAFT", "GOVERNANCE_ANALYSIS",
       "APPROVED", "TASK_PLANNING">>),
   run_of("replaced", <<submit(first), approve(first), go(first, "TASK_PLANNING"),
       fail(first), supersede, submit(second), decide(second, "REJECT", NONE),
       go(second, "DRAFT"), refused(go(second, "TASK_PLANNING"), {"InvalidTransition"})>>, second,
     <<"REJECTED", "DRAFT">>)}

check_require_changes_flow ==
  {run_of("told_apart", require_changes_then_resubmitted(first)
       \o <<new(second)>> \o rejected_then_resubmitted(second), first,
     <<"DRAFT", "GOVERNANCE_ANALYSIS", "DRAFT", "GOVERNANCE_ANALYSIS", "APPROVED",
       "TASK_PLANNING">>),
   run_of("sent_back", <<submit(first), decide(first, "REQUIRE_CHANGES", NONE),
       refused(go(first, "TASK_PLANNING"), {"InvalidTransition"})>>, first,
     <<"GOVERNANCE_ANALYSIS", "DRAFT">>)}

check_failure_flow ==
  {run_of("failed", failed_at(first, s)
       \o <<supersede, refused(go(second, "TASK_PLANNING"), {"InvalidTransition"})>>, first,
     <<s, "FAILED">>) : s \in FAILABLE} \union
  {run_of("parked", Append(park_in(first, s), refused(fail(first), JobStateMachineError)), first, <<s>>) :
     s \in JobState \ (FAILABLE \union TERMINAL)}

check_asking_again ==
  {run_of("asked_again", Append(approval_expired_then_resubmitted(Past),
       refused(go(first, "TASK_PLANNING"), {"TerminalState"})), second,
     <<"DRAFT", "GOVERNANCE_ANALYSIS", "APPROVED", "TASK_PLANNING">>),
   run_of("delivered", Append(happy_path(first, NONE),
       refused(supersede, {"InvalidTransition"})), first,
     <<"COMPLETED">>),
   run_of("live", <<submit(first), refused(supersede, {"InvalidTransition"})>>, first,
     <<"GOVERNANCE_ANALYSIS">>)}

check_governance_gate ==
  {run_of("gated", never_approved(first)
       \o SetToSeq({refused(go(first, s), JobStateMachineError) : s \in POST_APPROVAL}), first,
     <<"GOVERNANCE_ANALYSIS">>),
   run_of("forced", <<submit(first), force(first, "APPROVED"),
       refused(go(first, "TASK_PLANNING"), {"ExecutionBeforeApproval"})>>, first,
     <<"GOVERNANCE_ANALYSIS">>),
   run_of("authorised", <<submit(first), approve(first), go(first, "TASK_PLANNING")>>,
     first, <<"APPROVED", "TASK_PLANNING">>)}

\* payload_check: an approval nobody came for in time, and one that held.
check_expiry_enforced ==
  {run_of("lapsed", <<submit(first), decide(first, "APPROVE", MaxTime), wait(MaxTime),
       refused(go(first, "TASK_PLANNING"), {"ExpiredApproval"}), time_out(first)>>, first,
     <<"APPROVED", "TIMED_OUT">>)}

\* simulate(), and what payload_check drives beside it.
Flow ==
  check_full_flow \union check_rejection_flow \union check_require_changes_flow
    \union check_failure_flow \union check_asking_again \union check_governance_gate
    \union check_expiry_enforced
    \union {run_of("cancelled", cancelled_by_a_person(first), first, <<"CANCELLED">>),
            run_of("stalled", stalled_awaiting_approval(first), first,
                   <<"AWAITING_APPROVAL", "TIMED_OUT">>)}

-----------------------------------------------------------------------------
\* The error a call is refused with, NONE when it is not.  A replacement gets a
\* name of its own.
raised_by(c) ==
  IF c.call = "supersede"
    THEN raised_by_supersede(c.on, CHOOSE id \in Ids : id # ident[c.on].job_id)
    ELSE raised_by_transition(c.on, c.to, c.reason, c.by, NONE)

\* One call, when the engine accepts it.
Accepted(c) ==
  \/ /\ c.call = "new"
     /\ \E id \in Ids :
          /\ \A j \in Jobs : constructed(j) => ident[j].job_id # id
          /\ construct(c.on, id, TENANT, WORKSPACE, owner, NONE)
  \/ /\ c.call = "supersede"
     /\ Supersede(c.on, second)
     /\ \A j \in Jobs : constructed(j) => ident[j].job_id # ident'[second].job_id
  \/ /\ c.call = "force"
     /\ state' = [state EXCEPT ![c.on] = c.to]
     /\ UNCHANGED <<ident, awaiting_from, approval, decisions, history, events, now>>
  \/ \E at \in now .. MaxTime :
       \/ /\ c.call = "transition"
          /\ transition(c.on, c.to, c.reason, c.by, NONE, at)
       \/ /\ c.call = "decide"
          /\ transition(c.on, DECISION_TARGET[c.verdict], TRUE, reviewer,
               minted(c.on, c.verdict, reviewer, c.expires, last_decision_id(c.on)), at)
       \/ /\ c.call = "resume"
          /\ state[c.on] = "AWAITING_APPROVAL" /\ awaiting_from[c.on] # NONE
          /\ transition(c.on, awaiting_from[c.on], TRUE, reviewer, NONE, at)
       \/ /\ c.call = "wait" /\ at >= c.until
          /\ now' = at
          /\ UNCHANGED <<ident, state, awaiting_from, approval, decisions, history, events>>

Call(c) ==
  /\ \/ Accepted(c)
     \/ c.call = "refused" /\ raised_by(c.tried) \in c.errors /\ UNCHANGED vars
  /\ UNCHANGED partitions

over == pc > Len(flow.script)

Step ==
  /\ ~over
  /\ Call(flow.script[pc])
  /\ pc' = pc + 1 /\ UNCHANGED flow

\* for job in jobs: log.extend(job.events)
File == over /\ flow.name # "forced" /\ (\E j \in Jobs : FileAll(j)) /\ UNCHANGED <<flow, pc>>

FlowsInit == LedgerInit /\ flow \in Flow /\ pc = 1

FlowsNext == Step \/ File

\* A script makes its next call and the jobs of a finished one are filed: it is
\* one thread of straight-line code, with nothing to wait for.
FlowsSpec == FlowsInit /\ [][FlowsNext]_flow_vars /\ WF_flow_vars(FlowsNext)

-----------------------------------------------------------------------------
\* JobState.DRAFT and then wherever the history says.
visited(j) == <<"DRAFT">> \o [n \in DOMAIN history[j] |-> history[j][n].to]

all_filed ==
  over /\ (flow.name = "forced" \/ \A j \in Jobs : constructed(j) => Whole(j))

\* Every flow plays out: whatever the clock reads from call to call, the engine
\* accepts each call a flow makes in earnest and refuses each it makes to see it
\* refused, with the error the simulation catches, and the trails reach the log.
FlowsFinish == <>all_filed

\* A flow that is over took its job along the route the simulation expects, and
\* the last verdict on it answers the one before and, if an APPROVE, is the one
\* it runs under; a replacement holds an approval of its own.
RouteWalked ==
  over =>
    /\ IsSuffix(flow.ends, visited(flow.of))
    /\ \A j \in Jobs :
         LET given == decisions[j]
         IN /\ \A n \in 2 .. Len(given) :
                 given[n].supersedes_decision_id = given[n - 1].decision_id
            /\ approval[j] = IF given # <<>> /\ Last(given).decision = "APPROVE"
                               THEN Last(given) ELSE NONE
    /\ constructed(first) /\ constructed(second) =>
         known_decisions(first) \intersect known_decisions(second) = {}
    /\ flow.name = "asked_again" => approval_expired(first) /\ approval[second].expires_at = NONE

\* check_replay: the log alone gives back every job the run filed, and tells the
\* job that was sent back for changes from the one that was rejected, though
\* both end in the same state.
ReadBack ==
  all_filed /\ flow.name # "forced" =>
    LET seen == replay_tenant(TENANT)
        passed(r) == {h.to : h \in Range(r.history)}
    IN /\ \A j \in Jobs : constructed(j) => Agrees(j, seen[ident[j].job_id])
       /\ flow.name = "told_apart" =>
            /\ seen[ident[first].job_id].state = seen[ident[second].job_id].state
            /\ "REJECTED" \notin passed(seen[ident[first].job_id])
            /\ "REJECTED" \in passed(seen[ident[second].job_id])

=============================================================================
