------------------------------- MODULE States -------------------------------
(***************************************************************************)
(* The job lifecycle table: packages/core/devfactory_core/states.py.       *)
(*                                                                         *)
(* The source keeps the table as dictionaries of frozen sets.  Here the    *)
(* lifecycle proper is a set of edges, and the static table is a function  *)
(* from a state to the set of its targets.  The one edge the table cannot  *)
(* hold, the way back out of AWAITING_APPROVAL, is added by reachable_from *)
(* from the job's own awaiting_from, exactly as in the source.             *)
(***************************************************************************)
EXTENDS Naturals

CONSTANT NONE  \* Python's None: no state, no decision, no deadline, nobody

JobState ==
  {"DRAFT", "GOVERNANCE_ANALYSIS", "APPROVED", "REJECTED", "TASK_PLANNING",
   "IN_PROGRESS", "AWAITING_APPROVAL", "VALIDATING", "DEPLOYABLE",
   "COMPLETED", "FAILED", "CANCELLED", "TIMED_OUT"}

DecisionType == {"APPROVE", "REJECT", "REQUIRE_CHANGES"}

\* None is not one of the two enumerations' members.
ASSUME NoneAssumption == NONE \notin JobState \union DecisionType

TERMINAL == {"COMPLETED", "FAILED", "CANCELLED", "TIMED_OUT"}

SUPERSEDABLE_slip == TERMINAL

\* The terminals a later job may name in supersedes_job_id.
SUPERSEDABLE == TERMINAL \ {"COMPLETED"}

\* Entering one of these means execution has been authorised.
POST_APPROVAL ==
  {"TASK_PLANNING", "IN_PROGRESS", "AWAITING_APPROVAL", "VALIDATING", "DEPLOYABLE"}

APPROVAL_PAUSABLE == {"IN_PROGRESS", "VALIDATING", "DEPLOYABLE"}

TIMEOUTABLE_slip ==
  {"GOVERNANCE_ANALYSIS", "TASK_PLANNING", "IN_PROGRESS", "AWAITING_APPROVAL", "VALIDATING"}

TIMEOUTABLE ==
  {"GOVERNANCE_ANALYSIS", "APPROVED", "TASK_PLANNING", "IN_PROGRESS",
   "AWAITING_APPROVAL", "VALIDATING"}

FAILABLE ==
  {"TASK_PLANNING", "IN_PROGRESS", "AWAITING_APPROVAL", "VALIDATING", "DEPLOYABLE"}

-----------------------------------------------------------------------------
\* _PROGRESSION: the lifecycle before the cross-cutting exits are folded in.
Progression ==
  {<<"DRAFT", "GOVERNANCE_ANALYSIS">>,
   <<"GOVERNANCE_ANALYSIS", "APPROVED">>,
   <<"GOVERNANCE_ANALYSIS", "REJECTED">>,
   <<"GOVERNANCE_ANALYSIS", "DRAFT">>,
   <<"APPROVED", "TASK_PLANNING">>,
   <<"REJECTED", "DRAFT">>,
   <<"TASK_PLANNING", "IN_PROGRESS">>,
   <<"IN_PROGRESS", "VALIDATING">>,
   <<"IN_PROGRESS", "AWAITING_APPROVAL">>,
   <<"VALIDATING", "DEPLOYABLE">>,
   <<"VALIDATING", "AWAITING_APPROVAL">>,
   <<"DEPLOYABLE", "COMPLETED">>,
   <<"DEPLOYABLE", "AWAITING_APPROVAL">>}

\* _build: what every unsettled state gains from being stoppable, timeoutable
\* and failable.
CrossCuttingExits(s) ==
  {t \in TERMINAL :
     /\ s \notin TERMINAL
     /\ \/ t = "CANCELLED"
        \/ t = "TIMED_OUT" /\ s \in TIMEOUTABLE
        \/ t = "FAILED" /\ s \in FAILABLE}

TRANSITIONS ==
  [s \in JobState |-> {t \in JobState : <<s, t>> \in Progression}
                        \union CrossCuttingExits(s)]

reachable_from(s, awaiting_from) ==
  IF s = "AWAITING_APPROVAL" /\ awaiting_from # NONE
    THEN TRANSITIONS[s] \union {awaiting_from}
    ELSE TRANSITIONS[s]

-----------------------------------------------------------------------------
DECISION_GATE == "GOVERNANCE_ANALYSIS"

DECISION_TARGET ==
  [APPROVE |-> "APPROVED", REJECT |-> "REJECTED", REQUIRE_CHANGES |-> "DRAFT"]

\* The inverse, keyed by the edge: a move is a verdict because of where it
\* leaves from as well as where it goes.
DECISION_BY_EDGE ==
  [e \in {<<DECISION_GATE, DECISION_TARGET[v]>> : v \in DecisionType} |->
     CHOOSE v \in DecisionType : e[2] = DECISION_TARGET[v]]

decision_for_edge(from, to) ==
  IF <<from, to>> \in DOMAIN DECISION_BY_EDGE
    THEN DECISION_BY_EDGE[<<from, to>>]
    ELSE NONE

=============================================================================
