------------------------------ MODULE MCLedger ------------------------------
(***************************************************************************)
(* Small instances of the jobs, their log and outside events for TLC.      *)
(***************************************************************************)
EXTENDS Ledger, JobProperties

CONSTANTS j1, j2

\* The agent the job may belong to, and a person.
agent == [type |-> "agent", id |-> "builder"]
person == [type |-> "human", id |-> "bob"]
MCPrincipals == {agent, person}
OnePerson == {person}

\* Decisions a caller builds by hand: an approval by the agent, an approval
\* that belongs to another job, to another tenant or to another workspace, and
\* a rejection.
hand(subject, to, workspace, verdict, authority) ==
  [decision_id |-> <<j1, 0>>, tenant_id |-> to, workspace_id |-> workspace,
   subject |-> subject, decision |-> verdict, authority |-> authority,
   expires_at |-> NONE, supersedes_decision_id |-> NONE]

MCHandBuilt ==
  {hand("a", "t1", NONE, "APPROVE", agent),
   hand("b", "t1", "w1", "APPROVE", person),
   hand("a", "t2", "w1", "APPROVE", person),
   hand("a", "t1", "w2", "APPROVE", person),
   hand("a", "t1", "w1", "REJECT", person)}
NoHandBuilt == {}
NoCitations == {}

\* Nothing tells two blank job objects apart.
Interchangeable == Permutations(Jobs)

\* What an outside system wrote: a message about a deployment, which may or may
\* not name a tenant and a job, and may claim to be from inside.
message(to, job, kind, id) ==
  [tenant_id |-> to, subject_id |-> "deploy", job_id |-> job, system |-> "navi",
   event_type |-> kind, sequence |-> NONE, event_id |-> id, source_kind |-> "internal"]

NoPayloads == {}

\* One that names the job, in the engine's own words; one that names no tenant;
\* one with a placeholder for a job; one sent with an id of its own.
MCPayloads ==
  {message("t1", "a", "JOB_COMPLETED", NONE),
   message(NONE, NONE, "DEPLOYMENT_DONE", NONE),
   message("t1", "n/a", "DEPLOYMENT_DONE", NONE),
   message("t1", "a", "JOB_COMPLETED", <<"navi", 1>>)}

\* A message about a job, named "b", that the tenant may have no record of.
AboutAnyJob == {message("t1", "b", "DEPLOYMENT_DONE", NONE)}

=============================================================================
