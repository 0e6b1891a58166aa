----------------------------- MODULE JobProofs ------------------------------
(***************************************************************************)
(* Theorems about the job engine, for every set of jobs, ids, tenants,     *)
(* principals, deadlines and hand-built decisions, and every bound.        *)
(***************************************************************************)
EXTENDS JobProperties, TLAPS

-----------------------------------------------------------------------------
(* The table.                                                              *)

\* A job only ever moves along an edge to a state of the lifecycle.
LEMMA TargetsAreStates ==
  ASSUME NEW s \in JobState, NEW a \in JobState \union {NONE}
  PROVE  reachable_from(s, a) \subseteq JobState
  BY DEF reachable_from, TRANSITIONS, CrossCuttingExits, TERMINAL, JobState

\* The edges that are verdicts are the three out of the gate.
LEMMA VerdictEdges ==
  ASSUME NEW from \in JobState, NEW to \in JobState
  PROVE  /\ decision_for_edge(from, to) \in DecisionType \union {NONE}
         /\ decision_for_edge(from, to) = "APPROVE"
              <=> from = "GOVERNANCE_ANALYSIS" /\ to = "APPROVED"
         /\ decision_for_edge(from, to) # NONE
              <=> from = "GOVERNANCE_ANALYSIS" /\ to \in {"APPROVED", "REJECTED", "DRAFT"}
<1> DEFINE E == {<<DECISION_GATE, DECISION_TARGET[v]>> : v \in DecisionType}
<1>1. E = {<<"GOVERNANCE_ANALYSIS", "APPROVED">>, <<"GOVERNANCE_ANALYSIS", "REJECTED">>,
           <<"GOVERNANCE_ANALYSIS", "DRAFT">>}
  BY DEF DECISION_GATE, DECISION_TARGET, DecisionType
<1>2. DOMAIN DECISION_BY_EDGE = E
  BY DEF DECISION_BY_EDGE
<1>3. ASSUME NEW v \in DecisionType
      PROVE  DECISION_BY_EDGE[<<DECISION_GATE, DECISION_TARGET[v]>>] = v
  <2> DEFINE e == <<DECISION_GATE, DECISION_TARGET[v]>>
  <2>1. e \in E
    OBVIOUS
  <2>2. DECISION_BY_EDGE[e] = CHOOSE w \in DecisionType : e[2] = DECISION_TARGET[w]
    BY <2>1 DEF DECISION_BY_EDGE
  <2>3. \A w \in DecisionType : e[2] = DECISION_TARGET[w] => w = v
    BY DEF DECISION_TARGET, DecisionType
  <2>4. QED BY <2>2, <2>3
<1>4. QED
  BY <1>1, <1>2, <1>3, NoneAssumption
  DEF decision_for_edge, DECISION_GATE, DECISION_TARGET, DecisionType

-----------------------------------------------------------------------------
(* Every operation is one of three steps: an object is constructed, a job  *)
(* makes a transition, or time passes.                                     *)

Constructs ==
  \E j \in Jobs, id \in Ids, tenant \in Tenants, workspace \in Workspaces,
     principal \in Principals, supersedes \in Ids \union {NONE} :
    construct(j, id, tenant, workspace, principal, supersedes)

Moves ==
  \E j \in Jobs, to \in JobState, reason \in BOOLEAN,
     principal \in Principals \union {NONE}, decision \in Decision \union {NONE},
     at \in Nat :
    transition(j, to, reason, principal, decision, at)

\* Every verdict leads to a state.
LEMMA TargetsOfDecisions ==
  \A v \in DecisionType : DECISION_TARGET[v] \in JobState
  BY DEF DECISION_TARGET, DecisionType, JobState

\* The id of the decision recorded last, if any, is one.
LEMMA LastDecision ==
  ASSUME TypeOK, NEW j \in Jobs
  PROVE  /\ last_decision_id(j) \in DecisionId \union {NONE}
         /\ known_decisions(j) \subseteq DecisionId
<1>1. decisions[j] \in Seq(Decision)
  BY DEF TypeOK
<1>2. \A n \in DOMAIN decisions[j] : decisions[j][n] \in Decision
  BY <1>1
<1>3. decisions[j] # <<>> => Len(decisions[j]) \in DOMAIN decisions[j]
  BY <1>1
<1>4. \A d \in Decision : d.decision_id \in DecisionId
  BY DEF Decision
<1>5. last_decision_id(j) \in DecisionId \union {NONE}
  BY <1>2, <1>3, <1>4 DEF last_decision_id, Last
<1>6. known_decisions(j) \subseteq DecisionId
  BY <1>2, <1>4 DEF known_decisions, Range
<1>7. QED BY <1>5, <1>6

\* A minted record is a decision, and it is about the job that minted it.
LEMMA MintedIsDecision ==
  ASSUME TypeOK, NEW j \in Jobs, constructed(j),
         NEW verdict \in DecisionType, NEW authority \in Principals,
         NEW expires \in Nat \union {NONE},
         NEW cites \in DecisionId \union {NONE}
  PROVE  minted(j, verdict, authority, expires, cites) \in Decision
<1>1. ident[j] \in Identity
  BY DEF TypeOK, constructed
<1>2. /\ ident[j].job_id \in Ids
      /\ ident[j].tenant_id \in Tenants
      /\ ident[j].workspace_id \in Workspaces
  BY <1>1 DEF Identity
<1>3. Len(decisions[j]) + 1 \in Nat
  BY DEF TypeOK
<1>4. <<j, Len(decisions[j]) + 1>> \in DecisionId
  BY <1>3 DEF DecisionId
<1>5. QED BY <1>2, <1>4 DEF minted, Decision

\* Every operation constructs, transitions or waits.
LEMMA NextCases ==
  ASSUME TypeOK, Next
  PROVE  Constructs \/ Moves \/ Tick
<1> USE JobAssumption
<1>0. now .. MaxTime \subseteq Nat
  BY DEF TypeOK
<1>1. ASSUME NEW j \in Jobs, NewJob(j) PROVE Constructs
  BY <1>1 DEF NewJob, Constructs
<1>2. ASSUME NEW j \in Jobs, Transition(j) PROVE Moves
  <2>1. HandBuilt \union {NONE} \subseteq Decision \union {NONE}
    OBVIOUS
  <2>2. QED BY <1>0, <1>2, <2>1 DEF Transition, Moves
<1>3. ASSUME NEW j \in Jobs, SubmitForGovernance(j) PROVE Moves
  BY <1>0, <1>3 DEF SubmitForGovernance, Moves, JobState
<1>4. ASSUME NEW j \in Jobs, NEW verdict \in DecisionType, Decide(j, verdict)
      PROVE  Moves
  <2>1. PICK authority \in Principals, expires \in Deadlines \union {NONE},
             supplied \in (UNION {known_decisions(k) : k \in Jobs}) \union {NONE},
             at \in now .. MaxTime :
          LET cites == IF supplied = NONE THEN last_decision_id(j) ELSE supplied
          IN /\ constructed(j)
             /\ supplied # NONE => supplied \in known_decisions(j)
             /\ transition(j, DECISION_TARGET[verdict], TRUE, authority,
                           minted(j, verdict, authority, expires, cites), at)
    BY <1>4 DEF Decide
  <2> DEFINE cites == IF supplied = NONE THEN last_decision_id(j) ELSE supplied
             record == minted(j, verdict, authority, expires, cites)
  <2>2. cites \in DecisionId \union {NONE}
    BY <2>1, LastDecision
  <2>3. expires \in Nat \union {NONE}
    OBVIOUS
  <2>4. record \in Decision
    BY <2>1, <2>2, <2>3, MintedIsDecision
  <2>5. transition(j, DECISION_TARGET[verdict], TRUE, authority, record, at)
    BY <2>1
  <2>6. DECISION_TARGET[verdict] \in JobState
    BY TargetsOfDecisions
  <2> HIDE DEF record
  <2>7. QED BY <1>0, <2>4, <2>5, <2>6 DEF Moves
<1>5. ASSUME NEW j \in Jobs, PauseForApproval(j) PROVE Moves
  BY <1>0, <1>5 DEF PauseForApproval, Moves, JobState
<1>6. ASSUME NEW j \in Jobs, Resume(j) PROVE Moves
  <2>1. awaiting_from[j] \in JobState
    BY <1>6 DEF Resume, TypeOK
  <2>2. QED BY <1>0, <1>6, <2>1 DEF Resume, Moves
<1>7. ASSUME NEW j \in Jobs, Fail(j) PROVE Moves
  BY <1>0, <1>7 DEF Fail, Moves, JobState
<1>8. ASSUME NEW j \in Jobs, Cancel(j) PROVE Moves
  BY <1>0, <1>8 DEF Cancel, Moves, JobState
<1>9. ASSUME NEW j \in Jobs, TimeOut(j) PROVE Moves
  BY <1>0, <1>9 DEF TimeOut, Moves, JobState
<1>10. ASSUME NEW j \in Jobs, NEW new \in Jobs, Supersede(j, new) PROVE Constructs
  <2>1. ident[j] \in Identity
    BY <1>10 DEF Supersede, constructed, TypeOK
  <2>2. /\ ident[j].job_id \in Ids /\ ident[j].tenant_id \in Tenants
        /\ ident[j].workspace_id \in Workspaces /\ ident[j].principal \in Principals
    BY <2>1 DEF Identity
  <2>3. PICK id \in Ids, principal \in Principals \union {NONE} :
          construct(new, id, ident[j].tenant_id, ident[j].workspace_id,
                    IF principal = NONE THEN ident[j].principal ELSE principal,
                    ident[j].job_id)
    BY <1>10 DEF Supersede
  <2>4. (IF principal = NONE THEN ident[j].principal ELSE principal) \in Principals
    BY <2>2
  <2>5. QED BY <2>2, <2>3, <2>4 DEF Constructs
<1>11. QED
  BY <1>1, <1>2, <1>3, <1>4, <1>5, <1>6, <1>7, <1>8, <1>9, <1>10 DEF Next

\* A transition seen by what it assigns: the record it settled on and what the
\* guards established of it, whoever asked for the move and however.
Moving(j, to, record, at) ==
  /\ constructed(j)
  /\ state[j] \notin TERMINAL
  /\ to \in reachable_from(state[j], awaiting_from[j])
  /\ to \in POST_APPROVAL => approval[j] # NONE /\ ~approval_expired(j)
  /\ record = NONE <=> decision_for_edge(state[j], to) = NONE
  /\ record # NONE => decision_fits(j, record, decision_for_edge(state[j], to))
  /\ at \in now .. MaxTime
  /\ move(j, to, record, at)

Moved == \E j \in Jobs, to \in JobState, record \in Decision \union {NONE}, at \in Nat :
           Moving(j, to, record, at)

\* A transition asked for in any way is one that passed its guards.
LEMMA MovesAreMoving ==
  ASSUME TypeOK, Moves
  PROVE  Moved
<1>1. PICK j \in Jobs, to \in JobState, reason \in BOOLEAN,
           principal \in Principals \union {NONE}, decision \in Decision \union {NONE},
           at \in Nat :
        transition(j, to, reason, principal, decision, at)
  BY DEF Moves
<1> DEFINE decides == decision_for_edge(state[j], to)
           record == settled_record(j, decides, principal, decision)
<1>2. /\ constructed(j)
      /\ state[j] \notin TERMINAL
      /\ to \in allowed_targets(j)
      /\ guards_pass(j, to, reason, principal, decides)
      /\ decides = NONE => decision = NONE
      /\ decides # NONE => decision_fits(j, record, decides)
      /\ at \in now .. MaxTime
      /\ move(j, to, record, at)
  BY <1>1 DEF transition
<1>3. decides \in DecisionType \union {NONE}
  BY VerdictEdges DEF TypeOK
<1>4. decides # NONE => principal \in Principals
  BY <1>2 DEF guards_pass
<1>5. record \in Decision \union {NONE} /\ (record = NONE <=> decides = NONE)
  <2>1. CASE decides = NONE
    BY <2>1 DEF settled_record
  <2>2. CASE decides # NONE /\ decision # NONE
    BY <2>2 DEF settled_record
  <2>3. CASE decides # NONE /\ decision = NONE
    <3>1. minted(j, decides, principal, NONE, last_decision_id(j)) \in Decision
      BY <1>2, <1>3, <1>4, <2>3, LastDecision, MintedIsDecision
    <3>2. record = minted(j, decides, principal, NONE, last_decision_id(j))
      BY <2>3 DEF settled_record
    <3>3. QED BY <2>3, <3>1, <3>2, JobAssumption
  <2>4. QED BY <2>1, <2>2, <2>3
<1>6. to \in POST_APPROVAL => approval[j] # NONE /\ ~approval_expired(j)
  BY <1>2 DEF guards_pass
<1> HIDE DEF record, decides
<1>7. QED
  <2>1. Moving(j, to, record, at)
    BY <1>2, <1>5, <1>6 DEF Moving, allowed_targets, decides
  <2>2. QED BY <1>5, <2>1 DEF Moved

\* The three kinds of step.
LEMMA Steps ==
  ASSUME TypeOK, Next
  PROVE  Constructs \/ Moved \/ Tick
  BY NextCases, MovesAreMoving

-----------------------------------------------------------------------------
(* Type correctness.                                                       *)

\* What one transition appends to the trail are events.
LEMMA EmittedType ==
  ASSUME TypeOK, NEW j \in Jobs, constructed(j), NEW to \in JobState,
         NEW record \in Decision \union {NONE}, NEW at \in Nat
  PROVE  emitted(j, to, record, at) \in Seq(Event)
<1> DEFINE id == ident[j].job_id
           tenant == ident[j].tenant_id
           verdict == IF record = NONE THEN <<>>
                      ELSE <<GovernanceDecision(id, tenant, record)>>
           moved == Append(verdict, StateTransition(id, tenant, state[j], to, at))
           delivered == IF to = "COMPLETED" THEN Append(moved, JobCompleted(id, tenant))
                        ELSE moved
           closing == JobSettled(id, tenant, to, event_count(j, Len(delivered)))
<1>1. id \in Ids /\ tenant \in Tenants
  BY DEF TypeOK, constructed, Identity
<1>2. state[j] \in JobState /\ events[j] \in Seq(Event)
  BY DEF TypeOK
<1> HIDE DEF id, tenant
<1>3. record # NONE => GovernanceDecision(id, tenant, record) \in Event
  BY <1>1 DEF GovernanceDecision, Event
<1>4. StateTransition(id, tenant, state[j], to, at) \in Event
  BY <1>1, <1>2 DEF StateTransition, Event
<1>5. JobCompleted(id, tenant) \in Event
  BY <1>1 DEF JobCompleted, Event
<1>6. verdict \in Seq(Event)
  BY <1>3
<1>7. moved \in Seq(Event)
  BY <1>4, <1>6
<1>8. delivered \in Seq(Event)
  BY <1>5, <1>7
<1>9. to \in TERMINAL => closing \in Event
  <2>1. Len(events[j]) \in Nat
    BY <1>2
  <2>2. Len(delivered) \in Nat
    <3> HIDE DEF delivered
    <3> QED BY <1>8
  <2>3. event_count(j, Len(delivered)) \in Nat
    <3> HIDE DEF delivered
    <3> QED BY <2>1, <2>2 DEF event_count
  <2>4. QED BY <1>1, <2>3 DEF JobSettled, Event
<1>10. (IF to \in TERMINAL THEN Append(delivered, closing) ELSE delivered) \in Seq(Event)
  BY <1>8, <1>9
<1>11. QED
  BY <1>10 DEF emitted, id, tenant

\* A transition keeps every variable in its type.
LEMMA MovedType ==
  ASSUME TypeOK, Moved
  PROVE  TypeOK'
<1>1. PICK j \in Jobs, to \in JobState, record \in Decision \union {NONE}, at \in Nat :
        Moving(j, to, record, at)
  BY DEF Moved
<1>2. constructed(j) /\ move(j, to, record, at)
  BY <1>1 DEF Moving
<1>3. ident' = ident /\ now' \in Nat
  BY <1>2 DEF move
<1>4. state' \in [Jobs -> JobState]
  BY <1>2 DEF move, TypeOK
<1>5. awaiting_from' \in [Jobs -> JobState \union {NONE}]
  BY <1>2 DEF move, TypeOK, awaiting_after
<1>6. approval' \in [Jobs -> Decision \union {NONE}]
  BY <1>2 DEF move, TypeOK, approval_after
<1>7. decisions' \in [Jobs -> Seq(Decision)]
  BY <1>2 DEF move, TypeOK
<1>8. events' \in [Jobs -> Seq(Event)]
  <2>1. emitted(j, to, record, at) \in Seq(Event)
    BY <1>2, EmittedType
  <2>2. events[j] \o emitted(j, to, record, at) \in Seq(Event)
    BY <2>1 DEF TypeOK
  <2>3. QED BY <1>2, <2>2 DEF move, TypeOK
<1>9. history' \in [Jobs -> Seq(TransitionRecord)]
  <2> DEFINE entry ==
        [from |-> state[j], to |-> to, at |-> at,
         decision_id |-> IF record = NONE THEN NONE ELSE record.decision_id,
         event |-> Len(events[j]) + (IF record = NONE THEN 1 ELSE 2)]
  <2>1. (IF record = NONE THEN NONE ELSE record.decision_id) \in DecisionId \union {NONE}
    BY DEF Decision
  <2>2. Len(events[j]) + (IF record = NONE THEN 1 ELSE 2) \in Nat
    BY DEF TypeOK
  <2>3. entry \in TransitionRecord
    BY <2>1, <2>2 DEF TransitionRecord, TypeOK
  <2>4. Append(history[j], entry) \in Seq(TransitionRecord)
    BY <2>3 DEF TypeOK
  <2>5. QED BY <1>2, <2>4 DEF move, TypeOK
<1>10. QED
  BY <1>3, <1>4, <1>5, <1>6, <1>7, <1>8, <1>9 DEF TypeOK

\* So does constructing an object.
LEMMA ConstructsType ==
  ASSUME TypeOK, Constructs
  PROVE  TypeOK'
<1>1. PICK j \in Jobs, id \in Ids, tenant \in Tenants, workspace \in Workspaces,
           principal \in Principals, supersedes \in Ids \union {NONE} :
        construct(j, id, tenant, workspace, principal, supersedes)
  BY DEF Constructs
<1>2. ident' \in [Jobs -> Identity \union {NONE}]
  BY <1>1 DEF construct, TypeOK, Identity
<1>3. JobCreated(id, tenant, supersedes) \in Event
  BY DEF JobCreated, Event
<1>4. <<JobCreated(id, tenant, supersedes)>> \in Seq(Event)
  BY <1>3
<1>5. events' \in [Jobs -> Seq(Event)]
  BY <1>1, <1>4 DEF construct, TypeOK
<1>6. QED
  BY <1>1, <1>2, <1>5 DEF construct, TypeOK

\* Every variable of the engine keeps its type in every run.
THEOREM TypeCorrect == Spec => []TypeOK
<1>1. Init => TypeOK
  BY DEF Init, TypeOK, JobState
<1>2. TypeOK /\ [Next]_vars => TypeOK'
  <2> SUFFICES ASSUME TypeOK, [Next]_vars PROVE TypeOK'
    OBVIOUS
  <2>1. CASE Constructs
    BY <2>1, ConstructsType
  <2>2. CASE Moved
    BY <2>2, MovedType
  <2>3. CASE Tick
    BY <2>3 DEF Tick, TypeOK
  <2>4. CASE UNCHANGED vars
    BY <2>4 DEF vars, TypeOK
  <2>5. QED
    BY <2>1, <2>2, <2>3, <2>4, Steps
<1>3. QED
  BY <1>1, <1>2, PTL DEF Spec

-----------------------------------------------------------------------------
(* The execution lock and the return address.                              *)

\* Where an edge into each part of the lifecycle can come from, for a job
\* whose return address, if it has one, is a pausable state.
LEMMA EdgeSources ==
  ASSUME NEW s \in JobState, NEW a \in APPROVAL_PAUSABLE \union {NONE},
         NEW to \in reachable_from(s, a)
  PROVE  /\ to = "AWAITING_APPROVAL" => s \in APPROVAL_PAUSABLE
         /\ to \in {"COMPLETED", "FAILED"} => s \in POST_APPROVAL
         /\ to = "APPROVED" => s = "GOVERNANCE_ANALYSIS"
         /\ to \in {"DRAFT", "GOVERNANCE_ANALYSIS", "REJECTED"} =>
              s \in {"DRAFT", "GOVERNANCE_ANALYSIS", "REJECTED"}
         /\ s = "AWAITING_APPROVAL" => to \in {a} \union TERMINAL
  BY DEF reachable_from, TRANSITIONS, CrossCuttingExits, Progression, TERMINAL,
         JobState, APPROVAL_PAUSABLE, POST_APPROVAL, FAILABLE, TIMEOUTABLE

\* An object nobody constructed yet is blank.
BlankUntilConstructed ==
  \A j \in Jobs : ~constructed(j) =>
    /\ state[j] = "DRAFT"
    /\ decisions[j] = <<>> /\ history[j] = <<>> /\ events[j] = <<>>

\* The invariant the lock rests on: with the return address pausable, no edge
\* leads from a state that holds no approval to one that needs it, and none
\* back from a state that holds one to the gate.
LockInv == TypeOK /\ BlankUntilConstructed /\ ReturnAddress /\ ExecutionLock

\* A pausable address, NONE when the job is not paused.
LEMMA AddressIsPausable ==
  ASSUME LockInv, NEW j \in Jobs
  PROVE  awaiting_from[j] \in APPROVAL_PAUSABLE \union {NONE}
  BY DEF LockInv, ReturnAddress

\* Nothing is authorised at the start.
LEMMA InitLock == Init => LockInv
<1> SUFFICES ASSUME Init PROVE LockInv
  OBVIOUS
<1>1. TypeOK
  BY DEF Init, TypeOK, JobState
<1>2. BlankUntilConstructed
  BY DEF Init, BlankUntilConstructed
<1>3. ReturnAddress
  BY DEF Init, ReturnAddress
<1>4. ExecutionLock
  BY DEF Init, ExecutionLock, AUTHORISED, POST_APPROVAL
<1>5. QED
  BY <1>1, <1>2, <1>3, <1>4 DEF LockInv

\* Appending keeps what stands before it and puts the new entry last.
LEMMA LastOfAppend ==
  ASSUME NEW S, NEW s \in Seq(S), NEW e \in S
  PROVE  /\ Last(Append(s, e)) = e
         /\ Append(s, e) # <<>>
  BY DEF Last

\* A transition keeps the lock and the return address.
LEMMA MovedLock ==
  ASSUME LockInv, Moved
  PROVE  LockInv'
<1>1. PICK j \in Jobs, to \in JobState, record \in Decision \union {NONE}, at \in Nat :
        Moving(j, to, record, at)
  BY DEF Moved
<1>2. /\ constructed(j) /\ state[j] \notin TERMINAL
      /\ to \in reachable_from(state[j], awaiting_from[j])
      /\ to \in POST_APPROVAL => approval[j] # NONE
      /\ record = NONE <=> decision_for_edge(state[j], to) = NONE
      /\ record # NONE => decision_fits(j, record, decision_for_edge(state[j], to))
      /\ move(j, to, record, at)
  BY <1>1 DEF Moving
<1> DEFINE entry ==
      [from |-> state[j], to |-> to, at |-> at,
       decision_id |-> IF record = NONE THEN NONE ELSE record.decision_id,
       event |-> Len(events[j]) + (IF record = NONE THEN 1 ELSE 2)]
<1>3. TypeOK /\ TypeOK'
  BY <1>1, MovedType DEF Moved, LockInv
<1>4. /\ ident' = ident
      /\ state' = [state EXCEPT ![j] = to]
      /\ awaiting_from' = [awaiting_from EXCEPT ![j] = awaiting_after(j, to)]
      /\ approval' = [approval EXCEPT ![j] = approval_after(j, record)]
      /\ decisions' = [decisions EXCEPT ![j] =
                         IF record = NONE THEN @ ELSE Append(@, record)]
      /\ history' = [history EXCEPT ![j] = Append(@, entry)]
  BY <1>2 DEF move
<1>5. /\ state[j] \in JobState
      /\ awaiting_from[j] \in APPROVAL_PAUSABLE \union {NONE}
      /\ state'[j] = to
      /\ history'[j] = Append(history[j], entry)
  BY <1>3, <1>4, AddressIsPausable DEF TypeOK
<1>6. /\ to = "AWAITING_APPROVAL" => state[j] \in APPROVAL_PAUSABLE
      /\ to \in {"COMPLETED", "FAILED"} => state[j] \in POST_APPROVAL
      /\ to = "APPROVED" => state[j] = "GOVERNANCE_ANALYSIS"
      /\ to \in {"DRAFT", "GOVERNANCE_ANALYSIS", "REJECTED"} =>
           state[j] \in {"DRAFT", "GOVERNANCE_ANALYSIS", "REJECTED"}
  BY <1>2, <1>5, EdgeSources
<1>7. \A k \in Jobs \ {j} :
        /\ ident'[k] = ident[k] /\ state'[k] = state[k]
        /\ awaiting_from'[k] = awaiting_from[k] /\ approval'[k] = approval[k]
        /\ decisions'[k] = decisions[k] /\ history'[k] = history[k]
        /\ events'[k] = events[k]
  BY <1>2, <1>3 DEF move, TypeOK
<1>8. BlankUntilConstructed'
  BY <1>2, <1>4, <1>7 DEF LockInv, BlankUntilConstructed, constructed
<1>9. ReturnAddress'
  <2>1. Last(history'[j]) = entry
    <3>1. history[j] \in Seq(TransitionRecord) /\ history'[j] \in Seq(TransitionRecord)
      BY <1>3 DEF TypeOK
    <3>2. Len(history'[j]) = Len(history[j]) + 1 /\ history'[j][Len(history[j]) + 1] = entry
      BY <1>5, <3>1
    <3>3. QED BY <3>2 DEF Last
  <2>2. awaiting_from'[j] =
          IF to = "AWAITING_APPROVAL" THEN state[j]
          ELSE IF state[j] = "AWAITING_APPROVAL" THEN NONE ELSE awaiting_from[j]
    BY <1>3, <1>4 DEF awaiting_after, TypeOK
  <2>3. awaiting_from[j] # NONE <=> state[j] = "AWAITING_APPROVAL"
    BY DEF LockInv, ReturnAddress
  <2>4. NONE \notin APPROVAL_PAUSABLE
    BY NoneAssumption DEF APPROVAL_PAUSABLE, JobState
  <2>5. awaiting_from'[j] # NONE <=> state'[j] = "AWAITING_APPROVAL"
    BY <1>5, <1>6, <2>2, <2>3, <2>4
  <2>6. awaiting_from'[j] # NONE =>
          /\ awaiting_from'[j] \in APPROVAL_PAUSABLE
          /\ awaiting_from'[j] = Last(history'[j]).from
    BY <1>5, <1>6, <2>1, <2>2, <2>3
  <2>7. QED
    BY <1>7, <2>5, <2>6 DEF LockInv, ReturnAddress, Last
<1>10. ExecutionLock'
  <2>1. CASE record = NONE
    <3>1. decisions'[j] = decisions[j] /\ approval'[j] = approval[j]
      BY <1>3, <1>4, <2>1 DEF TypeOK, approval_after
    <3>2. ~(state[j] = "GOVERNANCE_ANALYSIS" /\ to \in {"APPROVED", "REJECTED", "DRAFT"})
      BY <1>2, <1>5, <2>1, VerdictEdges
    <3>3. to \in AUTHORISED => state[j] \in AUTHORISED \/ approval[j] # NONE
      BY <1>2, <1>6, <3>2 DEF AUTHORISED
    <3>4. approval[j] # NONE => state[j] \in AUTHORISED
      BY <1>2, <1>5 DEF LockInv, ExecutionLock, AUTHORISED, POST_APPROVAL, JobState, TERMINAL
    <3>5. to \in AUTHORISED => state[j] \in AUTHORISED
      BY <3>3, <3>4
    <3>6. ident'[j] = ident[j] /\ state'[j] = to
      BY <1>4, <1>5
    <3>7. to \in {"DRAFT", "GOVERNANCE_ANALYSIS", "REJECTED"} =>
            state[j] \in {"DRAFT", "GOVERNANCE_ANALYSIS", "REJECTED"}
      BY <1>6
    <3>8. \A k \in Jobs :
            /\ ident'[k] = ident[k] /\ approval'[k] = approval[k]
            /\ decisions'[k] = decisions[k]
            /\ state'[k] \in AUTHORISED => state[k] \in AUTHORISED
            /\ state'[k] \in {"DRAFT", "GOVERNANCE_ANALYSIS", "REJECTED"} =>
                 state[k] \in {"DRAFT", "GOVERNANCE_ANALYSIS", "REJECTED"}
      BY <1>7, <3>1, <3>5, <3>6, <3>7
    <3>9. QED
      BY <3>8, Zenon DEF LockInv, ExecutionLock
  <2>2. CASE record # NONE
    <3>1. state[j] = "GOVERNANCE_ANALYSIS" /\ to \in {"APPROVED", "REJECTED", "DRAFT"}
      BY <1>2, <1>5, <2>2, VerdictEdges
    <3>2. record \in Decision /\ decision_fits(j, record, decision_for_edge(state[j], to))
      BY <1>2, <2>2
    <3>3. decisions'[j] = Append(decisions[j], record) /\ decisions[j] \in Seq(Decision)
      BY <1>3, <1>4, <2>2 DEF TypeOK
    <3>4. Last(decisions'[j]) = record /\ decisions'[j] # <<>>
      BY <3>2, <3>3, LastOfAppend
    <3>5. approval'[j] = IF record.decision = "APPROVE" THEN record ELSE NONE
      BY <1>3, <1>4, <2>2 DEF TypeOK, approval_after
    <3>6. record.decision = "APPROVE" <=> to = "APPROVED"
      BY <1>5, <3>1, <3>2, VerdictEdges DEF decision_fits
    <3>7. record.subject = ident'[j].job_id
      BY <1>4, <3>2 DEF decision_fits
    <3>8. to \in AUTHORISED => to = "APPROVED"
      BY <3>1 DEF AUTHORISED, POST_APPROVAL
    <3>9. QED
      BY <1>4, <1>5, <1>7, <2>2, <3>1, <3>4, <3>5, <3>6, <3>7, <3>8
      DEF LockInv, ExecutionLock
  <2>3. QED BY <2>1, <2>2
<1>11. QED
  BY <1>3, <1>8, <1>9, <1>10 DEF LockInv

\* A new job is authorised to nothing.
LEMMA ConstructsLock ==
  ASSUME LockInv, Constructs
  PROVE  LockInv'
<1>1. PICK j \in Jobs, id \in Ids, tenant \in Tenants, workspace \in Workspaces,
           principal \in Principals, supersedes \in Ids \union {NONE} :
        construct(j, id, tenant, workspace, principal, supersedes)
  BY DEF Constructs
<1>2. TypeOK'
  BY ConstructsType DEF LockInv
<1>3. /\ ~constructed(j) /\ state[j] = "DRAFT"
      /\ ident'[j] # NONE
      /\ \A k \in Jobs \ {j} : ident'[k] = ident[k] /\ events'[k] = events[k]
      /\ UNCHANGED <<state, awaiting_from, approval, decisions, history, now>>
  <2>1. [job_id |-> id, tenant_id |-> tenant, workspace_id |-> workspace,
         principal |-> principal, supersedes_job_id |-> supersedes] \in Identity
    BY DEF Identity
  <2>2. QED
    BY <1>1, <2>1, JobAssumption DEF construct, LockInv, TypeOK, BlankUntilConstructed
<1>4. BlankUntilConstructed'
  BY <1>3 DEF LockInv, BlankUntilConstructed, constructed
<1>5. ReturnAddress'
  BY <1>3 DEF LockInv, ReturnAddress
<1>6. ExecutionLock'
  BY <1>3 DEF LockInv, ExecutionLock, AUTHORISED, POST_APPROVAL
<1>7. QED
  BY <1>2, <1>4, <1>5, <1>6 DEF LockInv

\* No step opens the lock.
LEMMA NextLock ==
  ASSUME LockInv, [Next]_vars
  PROVE  LockInv'
<1>1. CASE Constructs
  BY <1>1, ConstructsLock
<1>2. CASE Moved
  BY <1>2, MovedLock
<1>3. CASE Tick
  BY <1>3 DEF Tick, LockInv, TypeOK, BlankUntilConstructed, constructed,
              ReturnAddress, ExecutionLock
<1>4. CASE UNCHANGED vars
  BY <1>4 DEF vars, LockInv, TypeOK, BlankUntilConstructed, constructed,
              ReturnAddress, ExecutionLock
<1>5. QED
  BY <1>1, <1>2, <1>3, <1>4, Steps DEF LockInv

\* The invariant holds in every run.
LEMMA LockInvariant == Spec => []LockInv
  BY InitLock, NextLock, PTL DEF Spec

\* No job is authorised, delivered or failed without an APPROVE of its own,
\* its latest verdict, and no job before or back at the gate holds one.
THEOREM ExecutionIsLocked == Spec => []ExecutionLock
<1>1. LockInv => ExecutionLock
  BY DEF LockInv
<1>2. QED BY <1>1, LockInvariant, PTL

\* A paused job, and no other, has a way back, to the state it paused in.
THEOREM ReturnAddressKept == Spec => []ReturnAddress
<1>1. LockInv => ReturnAddress
  BY DEF LockInv
<1>2. QED BY <1>1, LockInvariant, PTL

-----------------------------------------------------------------------------
(* What a step may do.                                                     *)

\* A job that changes state in a step makes a transition in it.
LEMMA OnlyMovesMove ==
  ASSUME TypeOK, Next, NEW j \in Jobs, state'[j] # state[j]
  PROVE  \E to \in JobState, record \in Decision \union {NONE}, at \in Nat :
           Moving(j, to, record, at) /\ state'[j] = to
<1>1. Moved
  BY Steps DEF Constructs, construct, Tick
<1>2. PICK k \in Jobs, to \in JobState, record \in Decision \union {NONE}, at \in Nat :
        Moving(k, to, record, at)
  BY <1>1 DEF Moved
<1>3. state' = [state EXCEPT ![k] = to]
  BY <1>2 DEF Moving, move
<1>4. k = j /\ state'[j] = to
  BY <1>3 DEF TypeOK
<1>5. QED BY <1>2, <1>4

\* A pause ends where it began or ends the job.
THEOREM PauseEndsWhereItBegan == Spec => ResumesWherePaused
<1> DEFINE Resumes ==
      \A j \in Jobs :
        state[j] = "AWAITING_APPROVAL" /\ state'[j] # "AWAITING_APPROVAL" =>
          state'[j] \in {Last(history[j]).from} \union TERMINAL
<1>1. ASSUME LockInv, [Next]_vars PROVE [Resumes]_vars
  <2> SUFFICES ASSUME NEW j \in Jobs, Next, state[j] = "AWAITING_APPROVAL",
                      state'[j] # "AWAITING_APPROVAL"
               PROVE  state'[j] \in {Last(history[j]).from} \union TERMINAL
    BY <1>1
  <2>1. PICK to \in JobState, record \in Decision \union {NONE}, at \in Nat :
          Moving(j, to, record, at) /\ state'[j] = to
    BY <1>1, OnlyMovesMove DEF LockInv
  <2>2. /\ awaiting_from[j] = Last(history[j]).from
        /\ awaiting_from[j] \in APPROVAL_PAUSABLE \union {NONE}
    BY <1>1 DEF LockInv, ReturnAddress
  <2>3. state[j] \in JobState /\ to \in reachable_from(state[j], awaiting_from[j])
    BY <1>1, <2>1 DEF LockInv, TypeOK, Moving
  <2>4. to \in {awaiting_from[j]} \union TERMINAL
    BY <2>2, <2>3, EdgeSources
  <2>5. QED BY <2>1, <2>2, <2>4
<1>2. QED BY <1>1, InitLock, NextLock, PTL DEF Spec, ResumesWherePaused

\* A job whose approval has lapsed has no move left but one that settles it.
THEOREM LapsedApprovalAuthorisesNothing == Spec => LapsedOnlySettles
<1> DEFINE Settles ==
      \A j \in Jobs : Lapsed(j) /\ state'[j] # state[j] => state'[j] \in TERMINAL
<1>1. ASSUME LockInv, [Next]_vars PROVE [Settles]_vars
  <2> SUFFICES ASSUME NEW j \in Jobs, Next, Lapsed(j), state'[j] # state[j]
               PROVE  state'[j] \in TERMINAL
    BY <1>1
  <2>1. PICK to \in JobState, record \in Decision \union {NONE}, at \in Nat :
          Moving(j, to, record, at) /\ state'[j] = to
    BY <1>1, OnlyMovesMove DEF LockInv
  <2>2. to \notin POST_APPROVAL
    BY <2>1 DEF Moving, Lapsed, approval_expired, is_expired
  <2>3. state[j] \notin {"DRAFT", "GOVERNANCE_ANALYSIS", "REJECTED"}
    BY <1>1 DEF LockInv, ExecutionLock, Lapsed
  <2>4. to \notin {"DRAFT", "GOVERNANCE_ANALYSIS", "REJECTED", "APPROVED"}
    <3>1. state[j] \in JobState /\ to \in reachable_from(state[j], awaiting_from[j])
      BY <1>1, <2>1 DEF LockInv, TypeOK, Moving
    <3>2. awaiting_from[j] \in APPROVAL_PAUSABLE \union {NONE}
      BY <1>1, AddressIsPausable
    <3>3. QED BY <2>3, <3>1, <3>2, EdgeSources
  <2>5. QED BY <2>1, <2>2, <2>4 DEF JobState, POST_APPROVAL, TERMINAL
<1>2. QED BY <1>1, InitLock, NextLock, PTL DEF Spec, LapsedOnlySettles

-----------------------------------------------------------------------------
(* The engine keeps the gate: every run of it, with any jobs, callers and  *)
(* hand-built decisions, is a run of the abstract gate.                    *)

\* Only work is delivered.
LEMMA DeliveredFromWork ==
  ASSUME NEW s \in JobState, NEW a \in APPROVAL_PAUSABLE \union {NONE},
         "COMPLETED" \in reachable_from(s, a)
  PROVE  s \in POST_APPROVAL /\ s \notin TERMINAL
  BY DEF reachable_from, TRANSITIONS, CrossCuttingExits, Progression, TERMINAL,
         JobState, APPROVAL_PAUSABLE, POST_APPROVAL

\* Work is left for more work or for good.
LEMMA WorkGoesOn ==
  ASSUME NEW s \in POST_APPROVAL, NEW a \in APPROVAL_PAUSABLE \union {NONE},
         NEW to \in reachable_from(s, a)
  PROVE  to \in POST_APPROVAL \union TERMINAL
  BY DEF reachable_from, TRANSITIONS, CrossCuttingExits, Progression, TERMINAL,
         JobState, APPROVAL_PAUSABLE, POST_APPROVAL

\* A blank process is an empty gate.
LEMMA InitGate == Init => TheGate!Init
  BY DEF Init, TheGate!Init, stage, constructed

\* A job constructed comes to wait at the gate.
LEMMA ConstructsOpens ==
  ASSUME LockInv, Constructs
  PROVE  TheGate!Next
<1>1. PICK j \in Jobs, id \in Ids, tenant \in Tenants, workspace \in Workspaces,
           principal \in Principals, supersedes \in Ids \union {NONE} :
        construct(j, id, tenant, workspace, principal, supersedes)
  BY DEF Constructs
<1>2. /\ ~constructed(j) /\ state[j] = "DRAFT"
      /\ ident'[j] # NONE
      /\ \A k \in Jobs \ {j} : ident'[k] = ident[k]
      /\ UNCHANGED <<state, approval, decisions>>
  <2>1. [job_id |-> id, tenant_id |-> tenant, workspace_id |-> workspace,
         principal |-> principal, supersedes_job_id |-> supersedes] \in Identity
    BY DEF Identity
  <2>2. QED
    BY <1>1, <2>1, JobAssumption DEF construct, LockInv, TypeOK, BlankUntilConstructed
<1>3. stage[j] = "absent" /\ stage' = [stage EXCEPT ![j] = "waiting"]
  BY <1>2 DEF stage, constructed, TERMINAL, POST_APPROVAL
<1>4. TheGate!Open(j)
  BY <1>2, <1>3 DEF TheGate!Open, TheGate!enters
<1>5. QED
  BY <1>4 DEF TheGate!Next

\* A transition is a verdict, the beginning or the end of work, or nothing the
\* gate sees.
LEMMA MovedAtTheGate ==
  ASSUME LockInv, Moved
  PROVE  TheGate!Next \/ UNCHANGED TheGate!gate_vars
<1>1. PICK j \in Jobs, to \in JobState, record \in Decision \union {NONE}, at \in Nat :
        Moving(j, to, record, at)
  BY DEF Moved
<1> DEFINE from == state[j]
           a == awaiting_from[j]
           where(s) == IF s = "COMPLETED" THEN "delivered"
                       ELSE IF s \in TERMINAL THEN "stopped"
                       ELSE IF s \in POST_APPROVAL THEN "working"
                       ELSE "waiting"
<1>2. /\ constructed(j) /\ from \notin TERMINAL
      /\ to \in reachable_from(from, a)
      /\ to \in POST_APPROVAL => approval[j] # NONE
      /\ record = NONE <=> decision_for_edge(from, to) = NONE
      /\ record # NONE => record.decision = decision_for_edge(from, to)
      /\ move(j, to, record, at)
  BY <1>1 DEF Moving, decision_fits
<1>3. /\ TypeOK /\ from \in JobState
      /\ a \in APPROVAL_PAUSABLE \union {NONE}
  BY AddressIsPausable DEF LockInv, TypeOK
<1>4. /\ ident' = ident
      /\ state' = [state EXCEPT ![j] = to]
      /\ approval' = [approval EXCEPT ![j] = approval_after(j, record)]
      /\ decisions' = [decisions EXCEPT ![j] =
                         IF record = NONE THEN @ ELSE Append(@, record)]
  BY <1>2 DEF move
<1>5. stage[j] = where(from) /\ stage' = [stage EXCEPT ![j] = where(to)]
  BY <1>2, <1>3, <1>4 DEF stage, constructed, TypeOK, TERMINAL
<1>6. CASE record # NONE
  <2>1. from = "GOVERNANCE_ANALYSIS" /\ to \in {"APPROVED", "REJECTED", "DRAFT"}
    BY <1>2, <1>3, <1>6, VerdictEdges
  <2>2. stage[j] = "waiting" /\ stage' = stage
    <3>1. where(from) = "waiting" /\ where(to) = "waiting"
      BY <2>1 DEF TERMINAL, POST_APPROVAL
    <3>2. stage \in [Jobs -> {"absent", "delivered", "stopped", "working", "waiting"}]
      BY DEF stage
    <3>3. QED BY <1>5, <3>1, <3>2
  <2>3. approval[j] = NONE
    BY <2>1 DEF LockInv, ExecutionLock
  <2>4. /\ decisions'[j] = Append(decisions[j], record)
        /\ Last(decisions'[j]) = record /\ decisions'[j] # <<>>
    <3>1. decisions[j] \in Seq(Decision) /\ record \in Decision
      BY <1>3, <1>6 DEF TypeOK
    <3>2. decisions'[j] = Append(decisions[j], record)
      BY <1>3, <1>4, <1>6 DEF TypeOK
    <3>3. QED BY <3>1, <3>2, LastOfAppend
  <2>5. decisions' = [decisions EXCEPT ![j] = Append(@, record)]
    BY <1>4, <1>6
  <2>6. approval' = [approval EXCEPT ![j] =
                       IF record.decision = "APPROVE" THEN record ELSE NONE]
    BY <1>4, <1>6 DEF approval_after
  <2>7. TheGate!Judge(j)
    BY <2>2, <2>3, <2>4, <2>5, <2>6 DEF TheGate!Judge, TheGate!Last, Last
  <2>8. QED BY <2>7 DEF TheGate!Next
<1>7. CASE record = NONE
  <2>1. decisions' = decisions /\ approval' = approval
    BY <1>3, <1>4, <1>7 DEF approval_after, TypeOK
  <2>2. CASE to = "COMPLETED"
    <3>1. from \in POST_APPROVAL /\ from \notin TERMINAL
      BY <1>2, <1>3, <2>2, DeliveredFromWork
    <3>2. stage[j] = "working" /\ stage' = [stage EXCEPT ![j] = "delivered"]
      BY <1>5, <2>2, <3>1 DEF TERMINAL
    <3>3. TheGate!Deliver(j)
      BY <2>1, <3>2 DEF TheGate!Deliver, TheGate!enters
    <3>4. QED BY <3>3 DEF TheGate!Next
  <2>3. CASE to \in TERMINAL \ {"COMPLETED"}
    <3>1. stage[j] \in {"waiting", "working"} /\ stage' = [stage EXCEPT ![j] = "stopped"]
      BY <1>2, <1>5, <2>3 DEF TERMINAL
    <3>2. TheGate!Stop(j)
      BY <2>1, <3>1 DEF TheGate!Stop, TheGate!enters
    <3>3. QED BY <3>2 DEF TheGate!Next
  <2>4. CASE to \in POST_APPROVAL /\ from \notin POST_APPROVAL
    <3>1. stage[j] = "waiting" /\ stage' = [stage EXCEPT ![j] = "working"]
      BY <1>2, <1>5, <2>4 DEF TERMINAL, POST_APPROVAL
    <3>2. TheGate!Begin(j)
      BY <1>2, <2>1, <2>4, <3>1 DEF TheGate!Begin, TheGate!enters
    <3>3. QED BY <3>2 DEF TheGate!Next
  <2>5. CASE to \notin TERMINAL /\ (to \in POST_APPROVAL <=> from \in POST_APPROVAL)
    <3>1. where(to) = where(from)
      BY <1>2, <2>5 DEF TERMINAL
    <3>2. stage' = stage
      BY <1>5, <3>1 DEF stage
    <3>3. QED BY <2>1, <3>2 DEF TheGate!gate_vars
  <2>6. from \in POST_APPROVAL => to \in POST_APPROVAL \union TERMINAL
    BY <1>2, <1>3, WorkGoesOn
  <2>7. QED BY <2>2, <2>3, <2>4, <2>5, <2>6 DEF TERMINAL
<1>8. QED BY <1>6, <1>7

\* The engine implements the gate: a job is judged, licensed, put to work and
\* delivered in that order and no other, by whichever calls it is driven.
THEOREM EngineKeepsTheGate == Spec => KeepsTheGate
<1>1. ASSUME LockInv, [Next]_vars
      PROVE  [TheGate!Next]_TheGate!gate_vars
  <2>1. CASE Constructs
    BY <1>1, <2>1, ConstructsOpens
  <2>2. CASE Moved
    BY <1>1, <2>2, MovedAtTheGate
  <2>3. CASE Tick \/ UNCHANGED vars
    BY <2>3 DEF Tick, vars, TheGate!gate_vars, stage, constructed
  <2>4. QED
    BY <1>1, <2>1, <2>2, <2>3, Steps DEF LockInv
<1>2. QED
  BY <1>1, InitGate, LockInvariant, PTL DEF Spec, KeepsTheGate, TheGate!Spec


-----------------------------------------------------------------------------
(* The verdicts recorded on a job, whatever decisions callers build.       *)

\* Recording one more verdict adds that verdict to those on record.
LEMMA RangeOfAppend ==
  ASSUME NEW S, NEW s \in Seq(S), NEW e \in S
  PROVE  Range(Append(s, e)) = Range(s) \union {e}
<1> DEFINE t == Append(s, e)
<1>1. /\ DOMAIN t = 1 .. Len(s) + 1 /\ DOMAIN s = 1 .. Len(s) /\ Len(s) \in Nat
      /\ t[Len(s) + 1] = e /\ \A n \in 1 .. Len(s) : t[n] = s[n]
  OBVIOUS
<1> HIDE DEF t
<1>2. {t[n] : n \in DOMAIN t} = {s[n] : n \in DOMAIN s} \union {e}
  BY <1>1
<1>3. QED
  BY <1>2 DEF Range, t

SeparationInv == LockInv /\ SeparationOfDuties

\* A transition records a verdict only if it fits the job.
LEMMA MovedSeparates ==
  ASSUME SeparationInv, Moved
  PROVE  SeparationInv'
<1>1. PICK j \in Jobs, to \in JobState, record \in Decision \union {NONE}, at \in Nat :
        Moving(j, to, record, at)
  BY DEF Moved
<1>2. /\ record # NONE => decision_fits(j, record, decision_for_edge(state[j], to))
      /\ move(j, to, record, at)
  BY <1>1 DEF Moving
<1>3. TypeOK /\ LockInv'
  BY MovedLock DEF SeparationInv, LockInv
<1>4. /\ ident' = ident
      /\ decisions[j] \in Seq(Decision)
      /\ decisions'[j] = IF record = NONE THEN decisions[j] ELSE Append(decisions[j], record)
      /\ \A k \in Jobs \ {j} : decisions'[k] = decisions[k]
  BY <1>2, <1>3 DEF move, TypeOK
<1>5. \A d \in Range(decisions'[j]) : d \in Range(decisions[j]) \/ (record # NONE /\ d = record)
  BY <1>4, RangeOfAppend
<1>6. ASSUME NEW k \in Jobs, NEW d \in Range(decisions'[k])
      PROVE  /\ d.subject = ident[k].job_id
             /\ d.tenant_id = ident[k].tenant_id
             /\ d.workspace_id \in {NONE, ident[k].workspace_id}
             /\ d.decision = "APPROVE" =>
                  ~(d.authority.type = "agent" /\ d.authority.id = ident[k].principal.id)
  <2>1. CASE d \in Range(decisions[k])
    BY <2>1 DEF SeparationInv, SeparationOfDuties
  <2>2. CASE k = j /\ record # NONE /\ d = record
    BY <1>2, <2>2 DEF decision_fits, is_self_approval
  <2>3. QED BY <1>4, <1>5, <1>6, <2>1, <2>2
<1>7. QED
  BY <1>3, <1>4, <1>6 DEF SeparationInv, SeparationOfDuties

\* A job just constructed has no verdicts.
LEMMA ConstructsSeparates ==
  ASSUME SeparationInv, Constructs
  PROVE  SeparationInv'
<1>1. PICK j \in Jobs, id \in Ids, tenant \in Tenants, workspace \in Workspaces,
           principal \in Principals, supersedes \in Ids \union {NONE} :
        construct(j, id, tenant, workspace, principal, supersedes)
  BY DEF Constructs
<1>2. LockInv'
  BY ConstructsLock DEF SeparationInv
<1>3. /\ decisions' = decisions /\ decisions[j] = <<>>
      /\ \A k \in Jobs \ {j} : ident'[k] = ident[k]
  BY <1>1 DEF construct, SeparationInv, LockInv, TypeOK, BlankUntilConstructed
<1>4. Range(<<>>) = {}
  BY DEF Range
<1>5. QED
  BY <1>2, <1>3, <1>4 DEF SeparationInv, SeparationOfDuties

\* No agent's approval of its own job, and no verdict about another job or of
\* another tenant or workspace, is ever recorded, by hand or otherwise.
THEOREM DutiesAreSeparate == Spec => []SeparationOfDuties
<1>1. Init => SeparationInv
  <2>1. Range(<<>>) = {}
    BY DEF Range
  <2>2. QED
    BY <2>1, InitLock DEF SeparationInv, SeparationOfDuties, Init
<1>2. ASSUME SeparationInv, [Next]_vars PROVE SeparationInv'
  <2>1. LockInv'
    BY <1>2, NextLock DEF SeparationInv
  <2>2. CASE UNCHANGED <<ident, decisions>>
    BY <1>2, <2>1, <2>2 DEF SeparationInv, SeparationOfDuties
  <2>3. QED
    BY <1>2, <2>2, MovedSeparates, ConstructsSeparates, Steps
    DEF SeparationInv, LockInv, Tick, vars
<1>3. SeparationInv => SeparationOfDuties
  BY DEF SeparationInv
<1>4. QED BY <1>1, <1>2, <1>3, PTL DEF Spec

-----------------------------------------------------------------------------
(* What a decision cites, when nobody builds one by hand.                  *)

\* A verdict the engine minted, with the citation it settled on.
Cites(j, record) ==
  \E verdict \in DecisionType, authority \in Principals, expires \in Nat \union {NONE},
     cites \in known_decisions(j) \union {last_decision_id(j)} :
    record = minted(j, verdict, authority, expires, cites)

\* One job's verdicts after a step: as they were, or one more.
OneMore(j) ==
  \/ decisions'[j] = decisions[j]
  \/ \E record : Cites(j, record) /\ decisions'[j] = Append(decisions[j], record)

\* A transition that was handed no decision but one the engine minted records
\* such a one or none.
LEMMA TransitionCites ==
  ASSUME TypeOK, NEW j \in Jobs, NEW to \in JobState, NEW reason \in BOOLEAN,
         NEW principal \in Principals \union {NONE}, NEW decision, NEW at,
         decision # NONE => Cites(j, decision),
         transition(j, to, reason, principal, decision, at)
  PROVE  \A k \in Jobs : OneMore(k)
<1> DEFINE decides == decision_for_edge(state[j], to)
           record == settled_record(j, decides, principal, decision)
<1>1. /\ guards_pass(j, to, reason, principal, decides)
      /\ move(j, to, record, at)
  BY DEF transition
<1>2. decides \in DecisionType \union {NONE}
  BY VerdictEdges DEF TypeOK
<1>3. record # NONE => Cites(j, record)
  <2>1. CASE decides = NONE
    BY <2>1 DEF settled_record
  <2>2. CASE decides # NONE /\ decision # NONE
    BY <2>2 DEF settled_record
  <2>3. CASE decides # NONE /\ decision = NONE
    <3>1. record = minted(j, decides, principal, NONE, last_decision_id(j))
      BY <2>3 DEF settled_record
    <3>2. decides \in DecisionType /\ principal \in Principals
      BY <1>1, <1>2, <2>3 DEF guards_pass
    <3>3. QED
      BY <3>1, <3>2 DEF Cites
  <2>4. QED
    BY <2>1, <2>2, <2>3
<1> HIDE DEF record, decides
<1>4. /\ \A k \in Jobs \ {j} : decisions'[k] = decisions[k]
      /\ decisions'[j] = IF record = NONE THEN decisions[j] ELSE Append(decisions[j], record)
  BY <1>1 DEF move, TypeOK
<1>5. QED
  BY <1>3, <1>4 DEF OneMore

\* So does every step, by whichever method, when callers build none themselves.
LEMMA StepsCite ==
  ASSUME TypeOK, HandBuilt = {}, [Next]_vars
  PROVE  \A k \in Jobs : OneMore(k)
<1> USE JobAssumption
<1>1. ASSUME NEW j \in Jobs, Transition(j) PROVE \A k \in Jobs : OneMore(k)
  BY <1>1, TransitionCites DEF Transition
<1>2. ASSUME NEW j \in Jobs, NEW verdict \in DecisionType, Decide(j, verdict)
      PROVE  \A k \in Jobs : OneMore(k)
  <2>1. PICK authority \in Principals, expires \in Deadlines \union {NONE},
             supplied \in (UNION {known_decisions(k) : k \in Jobs}) \union {NONE},
             at \in now .. MaxTime :
          LET cites == IF supplied = NONE THEN last_decision_id(j) ELSE supplied
          IN /\ constructed(j)
             /\ supplied # NONE => supplied \in known_decisions(j)
             /\ transition(j, DECISION_TARGET[verdict], TRUE, authority,
                           minted(j, verdict, authority, expires, cites), at)
    BY <1>2 DEF Decide
  <2> DEFINE cites == IF supplied = NONE THEN last_decision_id(j) ELSE supplied
             record == minted(j, verdict, authority, expires, cites)
  <2>2. expires \in Nat \union {NONE}
    OBVIOUS
  <2>3. Cites(j, record)
    BY <2>1, <2>2 DEF Cites
  <2>4. DECISION_TARGET[verdict] \in JobState
    BY TargetsOfDecisions
  <2>5. transition(j, DECISION_TARGET[verdict], TRUE, authority, record, at)
    BY <2>1
  <2> HIDE DEF record
  <2>6. QED
    BY <2>3, <2>4, <2>5, TransitionCites
<1>3. ASSUME NEW j \in Jobs, Resume(j) PROVE \A k \in Jobs : OneMore(k)
  <2>1. awaiting_from[j] \in JobState
    BY <1>3 DEF Resume, TypeOK
  <2>2. QED
    BY <1>3, <2>1, TransitionCites DEF Resume
<1>4. ASSUME NEW j \in Jobs,
             SubmitForGovernance(j) \/ PauseForApproval(j) \/ Fail(j) \/ Cancel(j) \/ TimeOut(j)
      PROVE  \A k \in Jobs : OneMore(k)
  BY <1>4, TransitionCites
  DEF SubmitForGovernance, PauseForApproval, Fail, Cancel, TimeOut, JobState
<1>5. CASE UNCHANGED decisions
  BY <1>5 DEF OneMore
<1>6. ASSUME NEW j \in Jobs, NewJob(j) \/ \E new \in Jobs : Supersede(j, new)
      PROVE  UNCHANGED decisions
  BY <1>6 DEF NewJob, Supersede, construct
<1>7. QED
  BY <1>1, <1>2, <1>3, <1>4, <1>5, <1>6 DEF Next, Tick, vars

\* A decision minted by the engine carries its place on its job as its id.
NumberedAsMade ==
  \A j \in Jobs : \A n \in DOMAIN decisions[j] : decisions[j][n].decision_id = <<j, n>>

CitationInv == TypeOK /\ NumberedAsMade /\ CitationsHoldUp

\* One more verdict, minted by the engine, keeps the chain of citations whole.
LEMMA OneMoreHoldsUp ==
  ASSUME CitationInv, NEW j \in Jobs, OneMore(j)
  PROVE  \A n \in DOMAIN decisions'[j] :
           LET d == decisions'[j][n]
               earlier == {decisions'[j][m].decision_id : m \in 1 .. n - 1}
           IN /\ d.decision_id = <<j, n>>
              /\ d.decision_id \notin earlier
              /\ IF n = 1 THEN d.supersedes_decision_id = NONE
                 ELSE d.supersedes_decision_id \in earlier
<1>1. CASE decisions'[j] = decisions[j]
  BY <1>1 DEF CitationInv, NumberedAsMade, CitationsHoldUp
<1>2. CASE \E record : Cites(j, record) /\ decisions'[j] = Append(decisions[j], record)
  <2>1. PICK record : Cites(j, record) /\ decisions'[j] = Append(decisions[j], record)
    BY <1>2
  <2>2. PICK old, last : old = decisions[j] /\ last = Len(old) + 1
    OBVIOUS
  <2>3. /\ Len(old) \in Nat /\ DOMAIN old = 1 .. Len(old)
        /\ DOMAIN decisions'[j] = 1 .. last
        /\ decisions'[j][last] = record
        /\ \A n \in 1 .. Len(old) : decisions'[j][n] = old[n]
    BY <2>1, <2>2 DEF CitationInv, TypeOK
  <2>4. \A n \in 1 .. Len(old) : old[n].decision_id = <<j, n>>
    BY <2>2, <2>3 DEF CitationInv, NumberedAsMade
  <2>5. /\ record.decision_id = <<j, last>>
        /\ record.supersedes_decision_id \in known_decisions(j) \union {last_decision_id(j)}
    BY <2>1, <2>2 DEF Cites, minted
  <2>6. /\ known_decisions(j) = {old[m].decision_id : m \in 1 .. Len(old)}
        /\ last_decision_id(j) = IF Len(old) = 0 THEN NONE ELSE old[Len(old)].decision_id
    <3>1. old = <<>> <=> Len(old) = 0
      BY <2>2 DEF CitationInv, TypeOK
    <3>2. QED
      BY <2>2, <2>3, <3>1 DEF known_decisions, last_decision_id, Range, Last
  <2>7. ASSUME NEW n \in 1 .. Len(old)
        PROVE  LET earlier == {decisions'[j][m].decision_id : m \in 1 .. n - 1}
               IN /\ old[n].decision_id \notin earlier
                  /\ IF n = 1 THEN old[n].supersedes_decision_id = NONE
                     ELSE old[n].supersedes_decision_id \in earlier
    <3>1. {decisions'[j][m].decision_id : m \in 1 .. n - 1}
            = {old[m].decision_id : m \in 1 .. n - 1}
      BY <2>3
    <3>2. n \in DOMAIN decisions[j]
      BY <2>2, <2>3
    <3>3. LET earlier == {old[m].decision_id : m \in 1 .. n - 1}
          IN /\ old[n].decision_id \notin earlier
             /\ IF n = 1 THEN old[n].supersedes_decision_id = NONE
                ELSE old[n].supersedes_decision_id \in earlier
      <4>1. LET d == decisions[j][n]
                earlier == {decisions[j][m].decision_id : m \in 1 .. n - 1}
            IN /\ d.decision_id \notin earlier
               /\ IF n = 1 THEN d.supersedes_decision_id = NONE
                  ELSE d.supersedes_decision_id \in earlier
        BY <3>2, Zenon DEF CitationInv, CitationsHoldUp
      <4>2. {decisions[j][m].decision_id : m \in 1 .. n - 1} = {old[m].decision_id : m \in 1 .. n - 1}
        BY <2>2
      <4>3. QED
        BY <2>2, <4>1, <4>2
    <3>4. QED
      BY <3>1, <3>3
  <2>8. LET earlier == {decisions'[j][m].decision_id : m \in 1 .. last - 1}
        IN /\ record.decision_id \notin earlier
           /\ IF last = 1 THEN record.supersedes_decision_id = NONE
              ELSE record.supersedes_decision_id \in earlier
    <3>1. {decisions'[j][m].decision_id : m \in 1 .. last - 1} = known_decisions(j)
      <4>1. 1 .. last - 1 = 1 .. Len(old)
        BY <2>2, <2>3
      <4>2. {decisions'[j][m].decision_id : m \in 1 .. Len(old)}
              = {old[m].decision_id : m \in 1 .. Len(old)}
        BY <2>3
      <4>3. QED
        BY <2>6, <4>1, <4>2
    <3>2. record.decision_id \notin known_decisions(j)
      <4>1. \A m \in 1 .. Len(old) : old[m].decision_id # <<j, last>>
        <5>1. \A m \in 1 .. Len(old) : m # last
          BY <2>2, <2>3
        <5>2. QED
          BY <2>4, <5>1
      <4>2. QED
        BY <2>5, <2>6, <4>1
    <3>3. last = 1 => known_decisions(j) = {} /\ last_decision_id(j) = NONE
      BY <2>2, <2>3, <2>6
    <3>4. last # 1 => last_decision_id(j) \in known_decisions(j)
      BY <2>2, <2>3, <2>6
    <3>5. QED
      BY <2>5, <3>1, <3>2, <3>3, <3>4
  <2>9. ASSUME NEW n \in DOMAIN decisions'[j]
        PROVE  n = last \/ n \in 1 .. Len(old)
    BY <2>2, <2>3
  <2>10. QED
    BY <2>3, <2>4, <2>5, <2>7, <2>8, <2>9
<1>3. QED
  BY <1>1, <1>2 DEF OneMore

\* As long as every decision is minted by the engine, an id supplied to decide()
\* by hand included, the decisions of a job form one chain: the first cites
\* nothing and each later one an earlier one of the same job.
THEOREM CitationsFormAChain == HandBuilt = {} => (Spec => []CitationsHoldUp)
<1> SUFFICES ASSUME HandBuilt = {} PROVE Spec => []CitationsHoldUp
  OBVIOUS
<1>1. Init => CitationInv
  <2>1. ASSUME Init PROVE NumberedAsMade /\ CitationsHoldUp
    BY <2>1 DEF Init, NumberedAsMade, CitationsHoldUp
  <2>2. QED
    BY <2>1, InitLock DEF CitationInv, LockInv
<1>2. ASSUME CitationInv, LockInv, [Next]_vars PROVE CitationInv'
  <2>1. TypeOK'
    BY <1>2, NextLock DEF LockInv
  <2>2. \A j \in Jobs : OneMore(j)
    BY <1>2, StepsCite DEF CitationInv
  <2>3. QED
    BY <1>2, <2>1, <2>2, OneMoreHoldsUp DEF CitationInv, NumberedAsMade, CitationsHoldUp
<1>3. CitationInv => CitationsHoldUp
  BY DEF CitationInv
<1>4. QED
  BY <1>1, <1>2, <1>3, LockInvariant, PTL DEF Spec

=============================================================================
