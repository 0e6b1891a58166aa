---------------------------- MODULE LedgerProofs ----------------------------
(***************************************************************************)
(* Theorems about the jobs and their log together, for every set of jobs,  *)
(* ids, tenants, callers and outside systems, for trails of every length   *)
(* and for every order in which records reach the log.                     *)
(***************************************************************************)
EXTENDS Ledger, ReplayProofs

-----------------------------------------------------------------------------
(* Every record of a job names the job and its tenant.                     *)

SignedBy(who, e) == e.job_id = who.job_id /\ e.tenant_id = who.tenant_id

OwnRecords ==
  \A j \in Jobs : \A n \in DOMAIN events[j] : SignedBy(ident[j], events[j][n])

\* What one transition emits is signed.
LEMMA EmittedSigned ==
  ASSUME TypeOK, NEW j \in Jobs, constructed(j), NEW to \in JobState,
         NEW record \in Decision \union {NONE}, NEW at \in Nat
  PROVE  emitted(j, to, record, at) \in Seq({e \in Event : SignedBy(ident[j], e)})
<1> DEFINE E == {e \in Event : SignedBy(ident[j], e)}
<1>1. PICK id, of, verdict, moved, delivered, closing :
        /\ id = ident[j].job_id /\ of = ident[j].tenant_id
        /\ verdict = (IF record = NONE THEN <<>> ELSE <<GovernanceDecision(id, of, record)>>)
        /\ moved = Append(verdict, StateTransition(id, of, state[j], to, at))
        /\ delivered = (IF to = "COMPLETED" THEN Append(moved, JobCompleted(id, of)) ELSE moved)
        /\ closing = JobSettled(id, of, to, event_count(j, Len(delivered)))
  OBVIOUS
<1>2. emitted(j, to, record, at) =
        IF to \in TERMINAL THEN Append(delivered, closing) ELSE delivered
  BY <1>1 DEF emitted
<1>3. id \in Ids /\ of \in Tenants /\ state[j] \in JobState /\ events[j] \in Seq(Event)
  BY <1>1 DEF TypeOK, constructed, Identity
<1>4. record # NONE => GovernanceDecision(id, of, record) \in E
  BY <1>1, <1>3 DEF GovernanceDecision, Event, SignedBy
<1>5. StateTransition(id, of, state[j], to, at) \in E
  BY <1>1, <1>3 DEF StateTransition, Event, SignedBy
<1>6. JobCompleted(id, of) \in E
  BY <1>1, <1>3 DEF JobCompleted, Event, SignedBy
<1> HIDE DEF E
<1>7. delivered \in Seq(E)
  <2>1. verdict \in Seq(E)
    BY <1>1, <1>4
  <2>2. moved \in Seq(E)
    BY <1>1, <1>5, <2>1
  <2>3. QED BY <1>1, <1>6, <2>2
<1>8. to \in TERMINAL => closing \in E
  <2>1. event_count(j, Len(delivered)) \in Nat
    <3>1. Len(events[j]) \in Nat /\ Len(delivered) \in Nat
      BY <1>3, <1>7
    <3>2. QED BY <3>1 DEF event_count
  <2>2. QED BY <1>1, <1>3, <2>1 DEF JobSettled, Event, SignedBy, E
<1>9. QED
  BY <1>2, <1>7, <1>8 DEF E

\* Every step writes records of the job they are about.
LEMMA NextOwn ==
  ASSUME StoryInv, OwnRecords, [Next]_vars
  PROVE  OwnRecords'
<1>0. TypeOK
  BY DEF StoryInv, TrailInv, LockInv
<1>1. CASE Constructs
  <2>1. PICK j \in Jobs, id \in Ids, tenant_id \in Tenants, workspace \in Workspaces,
             principal \in Principals, supersedes \in Ids \union {NONE} :
          construct(j, id, tenant_id, workspace, principal, supersedes)
    BY <1>1 DEF Constructs
  <2>2. /\ events'[j] = <<JobCreated(id, tenant_id, supersedes)>>
        /\ ident'[j].job_id = id /\ ident'[j].tenant_id = tenant_id
        /\ \A i \in Jobs \ {j} : events'[i] = events[i] /\ ident'[i] = ident[i]
    BY <1>0, <2>1 DEF construct, TypeOK, StoryInv, TrailInv, LockInv, BlankUntilConstructed
  <2>3. SignedBy(ident'[j], JobCreated(id, tenant_id, supersedes))
    BY <2>2 DEF SignedBy, JobCreated
  <2>4. \A n \in DOMAIN events'[j] : SignedBy(ident'[j], events'[j][n])
    BY <2>2, <2>3
  <2>5. \A i \in Jobs \ {j} : \A n \in DOMAIN events'[i] : SignedBy(ident'[i], events'[i][n])
    BY <2>2 DEF OwnRecords
  <2>6. QED BY <2>4, <2>5 DEF OwnRecords
<1>2. CASE Moved
  <2>1. PICK j \in Jobs, to \in JobState, record \in Decision \union {NONE}, at \in Nat :
          Moving(j, to, record, at)
    BY <1>2 DEF Moved
  <2>2. PICK old, new, who : /\ old = events[j] /\ new = emitted(j, to, record, at)
                             /\ who = ident[j]
    OBVIOUS
  <2>3. /\ constructed(j) /\ ident' = ident /\ events'[j] = old \o new
        /\ \A i \in Jobs \ {j} : events'[i] = events[i]
    BY <1>0, <2>1, <2>2 DEF Moving, move, TypeOK
  <2>4. new \in Seq({e \in Event : SignedBy(who, e)})
    BY <1>0, <2>2, <2>3, EmittedSigned
  <2>5. old \in Seq({e \in Event : SignedBy(who, e)})
    <3>1. old \in Seq(Event) /\ \A n \in DOMAIN old : SignedBy(who, old[n])
      BY <1>0, <2>2 DEF TypeOK, OwnRecords
    <3>2. QED BY <3>1
  <2>6. \A n \in DOMAIN (old \o new) : SignedBy(who, (old \o new)[n])
    BY <2>4, <2>5
  <2>7. QED BY <2>2, <2>3, <2>6 DEF OwnRecords
<1>3. CASE UNCHANGED <<ident, events>>
  BY <1>3 DEF OwnRecords
<1>4. QED
  BY <1>0, <1>1, <1>2, <1>3, Steps DEF Tick, vars

\* No record, no stranger's record.
LEMMA InitOwn == Init => OwnRecords
  BY DEF Init, OwnRecords

\* A job constructed stays the one it is, and keeps the records it has.
LEMMA RecordsStay ==
  ASSUME StoryInv, [Next]_vars, NEW j \in Jobs, constructed(j)
  PROVE  /\ ident'[j] = ident[j]
         /\ \A n \in DOMAIN events[j] : n \in DOMAIN events'[j] /\ events'[j][n] = events[j][n]
<1>0. TypeOK
  BY DEF StoryInv, TrailInv, LockInv
<1>1. CASE Constructs
  <2>1. PICK k \in Jobs, id \in Ids, tenant_id \in Tenants, workspace \in Workspaces,
             principal \in Principals, supersedes \in Ids \union {NONE} :
          construct(k, id, tenant_id, workspace, principal, supersedes)
    BY <1>1 DEF Constructs
  <2>2. k # j
    BY <2>1 DEF construct
  <2>3. QED BY <1>0, <2>1, <2>2 DEF construct, TypeOK
<1>2. CASE Moved
  <2>1. PICK k \in Jobs, to \in JobState, record \in Decision \union {NONE}, at \in Nat :
          Moving(k, to, record, at)
    BY <1>2 DEF Moved
  <2>2. PICK old, new : old = events[j] /\ new = emitted(j, to, record, at)
    OBVIOUS
  <2>3. ident'[j] = ident[j] /\ (k # j => events'[j] = old) /\ (k = j => events'[j] = old \o new)
    BY <1>0, <2>1, <2>2 DEF Moving, move, TypeOK
  <2>4. old \in Seq(Event) /\ new \in Seq(Event)
    BY <1>0, <2>2, EmittedType DEF TypeOK
  <2>5. \A n \in DOMAIN old : n \in DOMAIN (old \o new) /\ (old \o new)[n] = old[n]
    BY <2>4
  <2>6. QED BY <2>2, <2>3, <2>5
<1>3. CASE UNCHANGED <<ident, events>>
  BY <1>3
<1>4. QED
  BY <1>0, <1>1, <1>2, <1>3, Steps DEF Tick, vars

-----------------------------------------------------------------------------
(* What the log holds.                                                     *)

\* A record a job filed for the tenant.
FromJob(t, e) ==
  \E j \in Jobs : /\ constructed(j) /\ tenant(j) = t
                  /\ \E n \in DOMAIN events[j] : e = filed(j, n)

\* One that came from outside, with nothing its sender or the resolver did not name.
FromOutside(t, e) ==
  /\ "source" \in DOMAIN e /\ e.source = "external"
  /\ \E payload \in Payloads : \E answer \in Answers :
       /\ t \in {payload.tenant_id, answer} /\ e.tenant_id = t
       /\ e.job_id = payload.job_id
       /\ e.job_id \notin Placeholders \union Malformed

SequenceOf(s) == s \in Seq(Range(s))

Holdings ==
  /\ DOMAIN partitions = Tenants
  /\ \A t \in Tenants :
       /\ SequenceOf(partitions[t])
       /\ \A e \in Range(partitions[t]) : FromJob(t, e) \/ FromOutside(t, e)

\* The invariant: what is known of the trails, whose records they are, and that
\* the log holds nothing else but what came from outside.
LedgerInv == StoryInv /\ OwnRecords /\ Holdings

\* A sequence that grew at its end.
LEMMA GrownByMany ==
  ASSUME NEW s, SequenceOf(s), NEW m \in Nat, NEW u, DOMAIN u = 1 .. m, u = [n \in 1 .. m |-> u[n]]
  PROVE  SequenceOf(s \o u) /\ Range(s \o u) = Range(s) \union Range(u)
<1>1. PICK S : S = Range(s) \union Range(u)
  OBVIOUS
<1>2. s \in Seq(S) /\ u \in Seq(S) /\ Len(u) = m
  BY <1>1 DEF SequenceOf, Range
<1>3. PICK t : t = s \o u
  OBVIOUS
<1>4. /\ t \in Seq(S) /\ Len(s) \in Nat /\ Len(t) = Len(s) + m
      /\ \A n \in 1 .. Len(s) : t[n] = s[n]
      /\ \A n \in 1 .. m : Len(s) + n \in DOMAIN t /\ t[Len(s) + n] = u[n]
  BY <1>2, <1>3
<1>5. Range(t) = S
  <2>1. \A n \in DOMAIN t : t[n] \in S
    BY <1>4
  <2>2. \A n \in DOMAIN s : n \in DOMAIN t /\ t[n] = s[n]
    BY <1>2, <1>4
  <2>3. QED BY <1>1, <1>4, <2>1, <2>2 DEF Range
<1>6. QED BY <1>1, <1>3, <1>4, <1>5 DEF SequenceOf

\* What is filed carries the record and says whose it is.
Carries(f, e) == \A field \in DOMAIN e : field \in DOMAIN f /\ f[field] = e[field]

\* What a record that is filed carries of the one it was.
LEMMA FiledFields ==
  ASSUME TypeOK, OwnRecords, NEW j \in Jobs, NEW n \in DOMAIN events[j]
  PROVE  /\ Carries(filed(j, n), events[j][n]) /\ filed(j, n).event_id = <<j, n>>
         /\ is_ours(filed(j, n)) /\ "source" \notin DOMAIN filed(j, n)
         /\ SignedBy(ident[j], filed(j, n))
<1>1. PICK e, f : e = events[j][n] /\ f = filed(j, n)
  OBVIOUS
<1>2. e \in Event
  BY <1>1 DEF TypeOK
<1>3. /\ {"event_id", "subject_id", "source"} \cap DOMAIN e = {}
      /\ "job_id" \in DOMAIN e /\ "tenant_id" \in DOMAIN e
  BY <1>2 DEF Event
<1>4. f = [field \in DOMAIN e \union {"event_id", "subject_id"} |->
             CASE field = "event_id" -> <<j, n>>
               [] field = "subject_id" -> ident[j].job_id
               [] OTHER -> e[field]]
  BY <1>1 DEF filed
<1>5. /\ DOMAIN f = DOMAIN e \union {"event_id", "subject_id"}
      /\ f.event_id = <<j, n>>
      /\ \A field \in DOMAIN e : field # "event_id" /\ field # "subject_id" => f[field] = e[field]
  BY <1>4
<1>6. Carries(f, e) /\ "source" \notin DOMAIN f
  BY <1>3, <1>5 DEF Carries
<1>7. SignedBy(ident[j], e)
  BY <1>1 DEF OwnRecords
<1>8. SignedBy(ident[j], f)
  BY <1>3, <1>6, <1>7 DEF SignedBy, Carries
<1>9. QED
  BY <1>1, <1>5, <1>6, <1>8 DEF is_ours

\* What a job filed stays what it filed.
LEMMA FiledStays ==
  ASSUME StoryInv, [Next]_vars, NEW t, NEW e, FromJob(t, e)
  PROVE  FromJob(t, e)'
<1>0. PICK j \in Jobs : \E n \in DOMAIN events[j] :
        constructed(j) /\ tenant(j) = t /\ e = filed(j, n)
  BY DEF FromJob
<1>1. PICK n \in DOMAIN events[j] : constructed(j) /\ tenant(j) = t /\ e = filed(j, n)
  BY <1>0
<1>2. ident'[j] = ident[j] /\ n \in DOMAIN events'[j] /\ events'[j][n] = events[j][n]
  BY <1>1, RecordsStay
<1>3. filed(j, n)' = filed(j, n) /\ tenant(j)' = tenant(j) /\ constructed(j)'
  BY <1>1, <1>2 DEF filed, tenant, constructed
<1>4. QED
  BY <1>1, <1>2, <1>3 DEF FromJob

\* The records the log takes in one step, whoever hands them over.
LEMMA TakenIn ==
  ASSUME StoryInv, Holdings, [Next]_vars, NEW t \in Tenants, NEW m \in Nat, NEW u,
         DOMAIN u = 1 .. m, u = [n \in 1 .. m |-> u[n]],
         partitions' = [partitions EXCEPT ![t] = @ \o u],
         \A e \in Range(u) : FromJob(t, e)' \/ FromOutside(t, e)
  PROVE  Holdings'
<1>1. DOMAIN partitions' = Tenants
  BY DEF Holdings
<1>2. ASSUME NEW s \in Tenants
      PROVE  /\ SequenceOf(partitions'[s])
             /\ \A e \in Range(partitions'[s]) : FromJob(s, e)' \/ FromOutside(s, e)
  <2>1. /\ SequenceOf(partitions[s])
        /\ \A e \in Range(partitions[s]) : FromJob(s, e)' \/ FromOutside(s, e)
    BY FiledStays DEF Holdings
  <2>2. CASE s = t
    <3>1. partitions'[s] = partitions[s] \o u
      BY <2>2 DEF Holdings
    <3>2. PICK log : log = partitions[s]
      OBVIOUS
    <3>3. SequenceOf(log \o u) /\ Range(log \o u) = Range(log) \union Range(u)
      BY <2>1, <3>2, GrownByMany
    <3>4. QED BY <2>1, <2>2, <3>1, <3>2, <3>3
  <2>3. CASE s # t
    <3>1. partitions'[s] = partitions[s]
      BY <2>3 DEF Holdings
    <3>2. QED BY <2>1, <3>1
  <2>4. QED BY <2>2, <2>3
<1>3. QED
  BY <1>1, <1>2 DEF Holdings, FromOutside

\* The same of a single record.
LEMMA OneTakenIn ==
  ASSUME StoryInv, Holdings, [Next]_vars, NEW e, Contract!Append_once(e),
         FromJob(e.tenant_id, e)' \/ FromOutside(e.tenant_id, e)
  PROVE  Holdings'
<1>1. PICK t \in Tenants : t = e.tenant_id
  BY DEF Contract!Append_once, Contract!attributable
<1>2. partitions' = [partitions EXCEPT ![t] = Append(partitions[t], e)]
  BY <1>1 DEF Contract!Append_once
<1>3. PICK u : u = [n \in 1 .. 1 |-> e]
  OBVIOUS
<1>4. Append(partitions[t], e) = partitions[t] \o u
  <2>1. partitions[t] \in Seq(Range(partitions[t]))
    BY DEF Holdings, SequenceOf
  <2>2. QED BY <1>3, <2>1
<1>5. /\ DOMAIN u = 1 .. 1 /\ u = [n \in 1 .. 1 |-> u[n]] /\ Range(u) = {e} /\ 1 \in Nat
  BY <1>3 DEF Range
<1>6. partitions' = [partitions EXCEPT ![t] = partitions[t] \o u]
  BY <1>2, <1>4
<1>7. QED
  BY <1>1, <1>5, <1>6, TakenIn

\* The log is no business of the engine's: every step of the two together is a
\* step of the engine or none.
LEMMA EngineSteps == [LedgerNext]_ledger_vars => [Next]_vars
  BY DEF LedgerNext, ledger_vars, FileAll, Forward, Outside

\* What is filed is a record some job wrote, or came from outside.
LEMMA NextHoldings ==
  ASSUME LedgerInv, [LedgerNext]_ledger_vars
  PROVE  Holdings'
<1>0. StoryInv /\ OwnRecords /\ Holdings /\ TypeOK /\ [Next]_vars
  BY EngineSteps DEF LedgerInv, StoryInv, TrailInv, LockInv
<1>1. CASE UNCHANGED partitions
  <2>1. ASSUME NEW t \in Tenants, NEW e \in Range(partitions[t])
        PROVE  FromJob(t, e)' \/ FromOutside(t, e)
    BY <1>0, <2>1, FiledStays DEF Holdings
  <2>2. QED
    BY <1>0, <1>1, <2>1 DEF Holdings, FromOutside
<1>2. ASSUME NEW j \in Jobs, FileAll(j)
      PROVE  Holdings'
  <2>1. PICK fresh, m, u, t :
          /\ fresh = {n \in DOMAIN events[j] : \A i \in 1 .. n : i \notin held_of(j)}
          /\ m = Cardinality(fresh) /\ u = [n \in 1 .. m |-> filed(j, n)] /\ t = tenant(j)
    OBVIOUS
  <2>2. /\ constructed(j) /\ partitions' = [partitions EXCEPT ![t] = @ \o u]
        /\ UNCHANGED vars
    BY <1>2, <2>1 DEF FileAll
  <2>3. m \in Nat /\ 1 .. m \subseteq DOMAIN events[j]
    <3>1. Len(events[j]) \in Nat /\ DOMAIN events[j] = 1 .. Len(events[j])
      BY <1>0 DEF TypeOK
    <3>2. /\ IsFiniteSet(1 .. Len(events[j]))
          /\ Cardinality(1 .. Len(events[j])) = Len(events[j])
      BY <3>1, FS_Interval
    <3>3. fresh \subseteq 1 .. Len(events[j])
      BY <2>1, <3>1
    <3>4. /\ Cardinality(fresh) \in Nat /\ Cardinality(fresh) <= Len(events[j])
      BY <3>2, <3>3, FS_Subset, FS_CardinalityType
    <3>5. m \in Nat /\ m <= Len(events[j])
      BY <2>1, <3>4
    <3>6. \A n \in 1 .. m : n \in 1 .. Len(events[j])
      BY <3>1, <3>5
    <3>7. QED BY <3>1, <3>5, <3>6
  <2>4. t \in Tenants
    BY <1>0, <2>1, <2>2 DEF TypeOK, constructed, Identity, tenant
  <2>5. DOMAIN u = 1 .. m /\ u = [n \in 1 .. m |-> u[n]]
    BY <2>1
  <2>6. ASSUME NEW e \in Range(u)
        PROVE  FromJob(t, e)'
    <3>1. PICK n \in 1 .. m : e = u[n]
      BY <2>5 DEF Range
    <3>2. e = filed(j, n) /\ n \in DOMAIN events[j]
      BY <2>1, <2>3, <3>1
    <3>3. FromJob(t, e)
      BY <2>1, <2>2, <3>2 DEF FromJob
    <3>4. QED BY <1>0, <3>3, FiledStays
  <2>7. QED BY <1>0, <2>2, <2>3, <2>4, <2>5, <2>6, TakenIn
<1>3. ASSUME NEW j \in Jobs, NEW n \in DOMAIN events[j], Forward(j, n)
      PROVE  Holdings'
  <2>1. PICK e : e = filed(j, n)
    OBVIOUS
  <2>2. constructed(j) /\ Contract!Append_once(e)
    BY <1>3, <2>1 DEF Forward
  <2>3. e.tenant_id = tenant(j)
    BY <1>0, <2>1, FiledFields DEF SignedBy, tenant
  <2>4. FromJob(e.tenant_id, e)
    BY <2>1, <2>2, <2>3 DEF FromJob
  <2>5. QED BY <1>0, <2>2, <2>4, FiledStays, OneTakenIn
<1>4. ASSUME NEW payload \in Payloads, NEW answer \in Answers, Outside(payload, answer)
      PROVE  Holdings'
  <2>1. PICK e : e = accepted(payload, answer, <<"outside", Cardinality(outside)>>)
    OBVIOUS
  <2>2. accepts(payload, answer) /\ Contract!Append_once(e)
    BY <1>4, <2>1 DEF Outside
  <2>3. /\ "source" \in DOMAIN e /\ e.source = "external" /\ e.job_id = payload.job_id
        /\ e.tenant_id = tenant_of(payload, answer)
    BY <2>1 DEF accepted
  <2>4. e.tenant_id \in {payload.tenant_id, answer}
    BY <2>3 DEF tenant_of
  <2>5. e.job_id \notin Placeholders \union Malformed
    BY <2>2, <2>3, IntakeAssumption DEF accepts, identifies
  <2>6. FromOutside(e.tenant_id, e)
    BY <2>3, <2>4, <2>5 DEF FromOutside
  <2>7. QED BY <1>0, <2>2, <2>6, OneTakenIn
<1>5. QED
  BY <1>1, <1>2, <1>3, <1>4 DEF LedgerNext, ledger_vars

\* The parts of the invariant, kept together.
LEMMA LedgerInvariant == LedgerSpec => []LedgerInv
<1>1. LedgerInit => LedgerInv
  <2>1. LedgerInit => Holdings
    <3> SUFFICES ASSUME LedgerInit PROVE Holdings
      OBVIOUS
    <3>1. partitions = [t \in Tenants |-> <<>>]
      BY DEF LedgerInit
    <3>2. SequenceOf(<<>>) /\ Range(<<>>) = {}
      BY DEF SequenceOf, Range
    <3>3. QED BY <3>1, <3>2 DEF Holdings
  <2>2. QED BY <2>1, InitStory, InitOwn DEF LedgerInit, LedgerInv
<1>2. LedgerInv /\ [LedgerNext]_ledger_vars => LedgerInv'
  BY EngineSteps, NextStory, NextOwn, NextHoldings DEF LedgerInv
<1>3. QED BY <1>1, <1>2, PTL DEF LedgerSpec

\* What is proved of the engine alone holds of it beside the log.
LEMMA EngineInside == LedgerSpec => Spec
<1>1. LedgerInit => Init
  BY DEF LedgerInit
<1>2. QED BY <1>1, EngineSteps, PTL DEF LedgerSpec, Spec

\* Nothing in the log was invented: each record is one a job of its tenant
\* wrote, or one from outside that names what its sender or the resolver named.
THEOREM LogInventsNothing == LedgerSpec => []NothingInvented
<1>1. LedgerInv => NothingInvented
  <2> SUFFICES ASSUME LedgerInv, NEW t \in Tenants, NEW e \in Range(partitions[t])
               PROVE  \/ \E j \in Jobs : \E n \in DOMAIN events[j] :
                           e.event_id = <<j, n>> /\ tenant(j) = t
                      \/ FromOutside(t, e)
    BY DEF NothingInvented, FromOutside
  <2>1. TypeOK /\ OwnRecords
    BY DEF LedgerInv, StoryInv, TrailInv, LockInv
  <2>2. FromJob(t, e) \/ FromOutside(t, e)
    BY DEF LedgerInv, Holdings
  <2>3. CASE FromJob(t, e)
    <3>1. PICK j \in Jobs : /\ constructed(j) /\ tenant(j) = t
                            /\ \E n \in DOMAIN events[j] : e = filed(j, n)
      BY <2>3 DEF FromJob
    <3>2. PICK n \in DOMAIN events[j] : e = filed(j, n)
      BY <3>1
    <3>3. e.event_id = <<j, n>>
      BY <2>1, <3>2, FiledFields
    <3>4. QED BY <3>1, <3>3
  <2>4. QED BY <2>2, <2>3
<1>2. QED BY <1>1, LedgerInvariant, PTL

-----------------------------------------------------------------------------
(* What is filed reads as what was written.                                *)

\* Two readings that tell the same: all that differs is that one holds the
\* closing record as it was filed.
SameReading(a, b) ==
  /\ a.refused = b.refused
  /\ a.refused = NONE =>
       /\ DOMAIN a = Fields /\ DOMAIN b = Fields
       /\ \A field \in Fields \ {"closing"} : a[field] = b[field]
       /\ (a.closing = NONE) = (b.closing = NONE)
       /\ b.closing # NONE => /\ a.closing.settled_as = b.closing.settled_as
                              /\ a.closing.event_count = b.closing.event_count

\* A record as it was filed, of which None is none.
AsFiled(f, e) == Carries(f, e) /\ (e.kind = "JOB_SETTLED" => f # NONE)

\* One turn of the loop reads a record as filed and as written alike.
LEMMA SameTurn ==
  ASSUME NEW a, NEW b, SameReading(a, b), a.refused = NONE,
         NEW e \in Event, NEW f, AsFiled(f, e)
  PROVE  SameReading(read_on(a, f), read_on(b, e))
<1>1. /\ DOMAIN a = Fields /\ DOMAIN b = Fields /\ b.refused = NONE
      /\ a.job_id = b.job_id /\ a.state = b.state /\ a.awaiting_from = b.awaiting_from
      /\ a.approval = b.approval /\ a.pending = b.pending /\ a.history = b.history
      /\ a.decision_ids = b.decision_ids /\ a.completed = b.completed
      /\ a.tenant_id = b.tenant_id /\ a.supersedes_job_id = b.supersedes_job_id
      /\ (a.closing = NONE) = (b.closing = NONE)
      /\ b.closing # NONE => /\ a.closing.settled_as = b.closing.settled_as
                             /\ a.closing.event_count = b.closing.event_count
  BY DEF SameReading, Fields
<1>2. f.kind = e.kind /\ f.job_id = e.job_id
  BY DEF Event, AsFiled, Carries
<1>3. PICK x, y : x = read_on(a, f) /\ y = read_on(b, e)
  OBVIOUS
<1>4. x = read_record(a, f) /\ y = read_record(b, e)
  BY <1>1, <1>3 DEF read_on
<1>5. \A error \in ReplayError : refusal(error).refused # NONE /\ refusal(error).refused = error
  BY ReplayAssumption DEF refusal
<1>6. CASE e.job_id # b.job_id
  <2>1. x = refusal("BrokenTrail") /\ y = refusal("BrokenTrail")
    BY <1>1, <1>2, <1>4, <1>6 DEF read_record
  <2>2. QED BY <1>3, <1>5, <2>1 DEF SameReading, ReplayError
<1>7. CASE e.job_id = b.job_id /\ e.kind = "GOVERNANCE_DECISION"
  <2>1. f.approval = e.approval
    BY <1>7 DEF Event, AsFiled, Carries
  <2>2. /\ x = [a EXCEPT !.pending = f.approval,
                         !.decision_ids = Append(@, f.approval.decision_id)]
        /\ y = [b EXCEPT !.pending = e.approval,
                         !.decision_ids = Append(@, e.approval.decision_id)]
    BY <1>1, <1>2, <1>4, <1>7 DEF read_record
  <2>3. SameReading(x, y)
    BY <1>1, <2>1, <2>2 DEF SameReading, Fields
  <2>4. QED BY <1>3, <2>3
<1>8. CASE e.job_id = b.job_id /\ e.kind = "JOB_SETTLED"
  <2>1. f.settled_as = e.settled_as /\ f.event_count = e.event_count /\ f # NONE
    BY <1>8 DEF Event, AsFiled, Carries
  <2>2. x = [a EXCEPT !.closing = f] /\ y = [b EXCEPT !.closing = e]
    BY <1>1, <1>2, <1>4, <1>8 DEF read_record
  <2>3. e # NONE
    BY EventAssumption
  <2>4. SameReading(x, y)
    BY <1>1, <2>1, <2>2, <2>3 DEF SameReading, Fields
  <2>5. QED BY <1>3, <2>4
<1>9. CASE e.job_id = b.job_id /\ e.kind = "JOB_COMPLETED"
  <2>1. x = [a EXCEPT !.completed = TRUE] /\ y = [b EXCEPT !.completed = TRUE]
    BY <1>1, <1>2, <1>4, <1>9 DEF read_record
  <2>2. SameReading(x, y)
    BY <1>1, <2>1 DEF SameReading, Fields
  <2>3. QED BY <1>3, <2>2
<1>10. CASE e.job_id = b.job_id /\ e.kind = "JOB_CREATED"
  <2>1. x = a /\ y = b
    BY <1>1, <1>2, <1>4, <1>10 DEF read_record
  <2>2. QED BY <1>3, <2>1
<1>11. CASE e.job_id = b.job_id /\ e.kind = "STATE_TRANSITION"
  <2>1. f.from = e.from /\ f.to = e.to /\ f.occurred_at = e.occurred_at
    BY <1>11 DEF Event, AsFiled, Carries
  <2>2. PICK verdict, granted : verdict = decided(b.state, e.to) /\ granted = approval_read(b, e)
    OBVIOUS
  <2>3. /\ verdict = decided(a.state, f.to) /\ granted = approval_read(a, f)
        /\ unaudited_decision(a, f) = unaudited_decision(b, e)
        /\ after_expiry(granted, f) = after_expiry(granted, e)
    BY <1>1, <2>1, <2>2 DEF approval_read, unaudited_decision, after_expiry
  <2>4. transition_refusal(a, f) = transition_refusal(b, e)
    BY <1>1, <2>1, <2>2, <2>3 DEF transition_refusal
  <2>5. PICK why : why = transition_refusal(b, e)
    OBVIOUS
  <2>6. /\ x = IF why = NONE THEN followed(a, f) ELSE refusal(why)
        /\ y = IF why = NONE THEN followed(b, e) ELSE refusal(why)
    BY <1>1, <1>2, <1>4, <1>11, <2>4, <2>5 DEF read_record
  <2>7. CASE why # NONE
    BY <1>3, <2>6, <2>7 DEF SameReading, refusal
  <2>8. CASE why = NONE
    <3>1. PICK pending, waits, moves :
            /\ pending = IF verdict = NONE THEN b.pending ELSE NONE
            /\ waits = IF e.to = "AWAITING_APPROVAL" THEN b.state
                       ELSE IF b.state = "AWAITING_APPROVAL" THEN NONE
                       ELSE b.awaiting_from
            /\ moves = Append(b.history,
                 [from |-> e.from, to |-> e.to, at |-> e.occurred_at,
                  decision_id |-> IF verdict = NONE THEN NONE ELSE b.pending.decision_id])
      OBVIOUS
    <3>2. y = [b EXCEPT !.approval = granted, !.pending = pending, !.awaiting_from = waits,
                        !.history = moves, !.state = e.to]
      BY <1>1, <2>2, <2>6, <2>8, <3>1 DEF followed, Fields
    <3>3. x = [a EXCEPT !.approval = granted, !.pending = pending, !.awaiting_from = waits,
                        !.history = moves, !.state = e.to]
      BY <1>1, <2>1, <2>2, <2>3, <2>6, <2>8, <3>1 DEF followed, Fields
    <3>4. SameReading(x, y)
      BY <1>1, <3>2, <3>3 DEF SameReading, Fields
    <3>5. QED BY <1>3, <3>4
  <2>9. QED BY <2>7, <2>8
<1>12. e.kind \in {"GOVERNANCE_DECISION", "JOB_SETTLED", "JOB_COMPLETED", "JOB_CREATED",
                   "STATE_TRANSITION"}
  BY DEF Event
<1>13. QED
  BY <1>6, <1>7, <1>8, <1>9, <1>10, <1>11, <1>12

\* The whole of a trail, record by record.
FiledFrom(other, trail) ==
  /\ SequenceOf(other) /\ Len(other) = Len(trail)
  /\ \A n \in DOMAIN trail : AsFiled(other[n], trail[n])

\* So does the whole loop.
LEMMA SameReadings ==
  ASSUME NEW trail \in Seq(Event), NEW other, FiledFrom(other, trail), trail # <<>>,
         trail[1].kind = "JOB_CREATED"
  PROVE  SameReading(end(other), end(trail))
<1>1. PICK l, r, q : l = Len(trail) /\ r = readings(other) /\ q = readings(trail)
  OBVIOUS
<1>2. l \in Nat /\ l >= 1 /\ Len(other) = l /\ DOMAIN trail = 1 .. l
  BY <1>1 DEF FiledFrom
<1>3. /\ r[1] = started(other[1]) /\ q[1] = started(trail[1])
      /\ \A n \in 2 .. l : r[n] = read_on(r[n - 1], other[n]) /\ q[n] = read_on(q[n - 1], trail[n])
  BY <1>1, <1>2, ReadingByReading
<1> DEFINE S == {n \in Nat : n <= l => SameReading(r[n], q[n])}
<1>4. 1 \in S
  <2>1. trail[1] \in Event /\ AsFiled(other[1], trail[1])
    BY <1>2 DEF FiledFrom
  <2>2. /\ other[1].job_id = trail[1].job_id /\ other[1].tenant_id = trail[1].tenant_id
        /\ other[1].supersedes_job_id = trail[1].supersedes_job_id
    BY <2>1 DEF AsFiled, Carries, Event
  <2>3. SameReading(r[1], q[1])
    BY <1>3, <2>2 DEF started, SameReading, Fields
  <2>4. QED BY <2>3
<1>5. ASSUME NEW n \in Nat, n >= 1, n \in S
      PROVE  n + 1 \in S
  <2> SUFFICES ASSUME n + 1 <= l PROVE SameReading(r[n + 1], q[n + 1])
    OBVIOUS
  <2>1. n + 1 \in 2 .. l /\ n + 1 \in 1 .. l /\ (n + 1) - 1 = n /\ n <= l
    BY <1>2, <1>5
  <2>2. /\ r[n + 1] = read_on(r[n], other[n + 1]) /\ q[n + 1] = read_on(q[n], trail[n + 1])
        /\ SameReading(r[n], q[n])
    BY <1>3, <1>5, <2>1
  <2>3. trail[n + 1] \in Event /\ AsFiled(other[n + 1], trail[n + 1])
    BY <1>2, <2>1 DEF FiledFrom
  <2>4. CASE r[n].refused = NONE
    BY <2>2, <2>3, <2>4, SameTurn
  <2>5. CASE r[n].refused # NONE
    <3>1. r[n + 1] = r[n] /\ q[n + 1] = q[n]
      BY <2>2, <2>5 DEF read_on, SameReading
    <3>2. QED BY <2>2, <3>1
  <2>6. QED BY <2>4, <2>5
<1> HIDE DEF S
<1>6. l \in S
  BY <1>2, <1>4, <1>5, Counting
<1>7. QED
  BY <1>1, <1>2, <1>6 DEF S, end

\* What replay_job makes of them is the same: the same refusal, or the same job.
LEMMA SameReplay ==
  ASSUME NEW trail \in Seq(Event), NEW other, FiledFrom(other, trail), trail # <<>>,
         trail[1].kind = "JOB_CREATED", NEW all, ours(all) = other
  PROVE  /\ replay_job(all).refused = replay_job(trail).refused
         /\ replay_job(trail).refused = NONE => replay_job(all) = replay_job(trail)
<1>1. PICK x, y, l : x = end(other) /\ y = end(trail) /\ l = Len(trail)
  OBVIOUS
<1>2. /\ SameReading(x, y) /\ Len(other) = l /\ l \in Nat /\ l >= 1 /\ other # <<>>
      /\ other[1].kind = "JOB_CREATED"
  <2>1. SameReading(x, y)
    BY <1>1, SameReadings
  <2>2. Len(other) = l /\ l \in Nat /\ l >= 1 /\ 1 \in DOMAIN trail
    BY <1>1 DEF FiledFrom
  <2>3. AsFiled(other[1], trail[1]) /\ trail[1] \in Event
    BY <2>2 DEF FiledFrom
  <2>4. QED BY <2>1, <2>2, <2>3 DEF AsFiled, Carries, Event
<1>3. PICK w, z : w = closing_refusal(x, l) /\ z = closing_refusal(y, l)
  OBVIOUS
<1>4. replay_job(trail) = IF y.refused # NONE THEN y
                          ELSE IF z = NONE THEN replayed(y) ELSE refusal(z)
  BY <1>1, <1>2, <1>3, AllOurs DEF replay_job, end
<1>5. replay_job(all) = IF x.refused # NONE THEN x
                        ELSE IF w = NONE THEN replayed(x) ELSE refusal(w)
  BY <1>1, <1>2, <1>3 DEF replay_job, end
<1>6. CASE x.refused # NONE
  BY <1>2, <1>4, <1>5, <1>6 DEF SameReading
<1>7. CASE x.refused = NONE
  <2>1. /\ y.refused = NONE /\ x.job_id = y.job_id /\ x.state = y.state
        /\ x.awaiting_from = y.awaiting_from /\ x.approval = y.approval
        /\ x.history = y.history /\ x.decision_ids = y.decision_ids
        /\ x.completed = y.completed /\ x.tenant_id = y.tenant_id
        /\ x.supersedes_job_id = y.supersedes_job_id
        /\ (x.closing = NONE) = (y.closing = NONE)
        /\ y.closing # NONE => /\ x.closing.settled_as = y.closing.settled_as
                               /\ x.closing.event_count = y.closing.event_count
    BY <1>2, <1>7 DEF SameReading, Fields
  <2>2. w = z
    BY <1>3, <2>1 DEF closing_refusal
  <2>3. replayed(x) = replayed(y)
    BY <2>1 DEF replayed
  <2>4. QED BY <1>4, <1>5, <1>7, <2>1, <2>2, <2>3
<1>8. QED BY <1>6, <1>7

-----------------------------------------------------------------------------
(* What a reader finds of a job in the log.                                *)

\* One record more is kept if it is ours.
LEMMA OursOfAppend ==
  ASSUME NEW S, NEW s \in Seq(S), NEW e \in S
  PROVE  ours(Append(s, e)) = IF is_ours(e) THEN Append(ours(s), e) ELSE ours(s)
<1>1. PICK t, P, Q : /\ t = Append(s, e) /\ P = {n \in DOMAIN s : is_ours(s[n])}
                     /\ Q = {n \in DOMAIN t : is_ours(t[n])}
  OBVIOUS
<1>2. /\ Len(s) \in Nat /\ DOMAIN t = 1 .. Len(s) + 1 /\ t[Len(s) + 1] = e
      /\ \A n \in 1 .. Len(s) : t[n] = s[n]
  BY <1>1
<1>3. \A n \in 1 .. Len(s) : n \in P <=> n \in Q
  BY <1>1, <1>2
<1>4. kept(t, Q) = IF Len(s) + 1 \in Q THEN Append(kept(s, P), e) ELSE kept(s, P)
  BY <1>1, <1>3, KeptOfAppend
<1>5. Len(s) + 1 \in Q <=> is_ours(e)
  BY <1>1, <1>2
<1>6. ours(t) = kept(t, Q) /\ ours(s) = kept(s, P)
  BY <1>1 DEF ours
<1>7. QED BY <1>1, <1>4, <1>5, <1>6

\* What is kept comes from where it was, and what of it is ours could have been
\* kept at once.
LEMMA KeptFrom ==
  ASSUME NEW s, SequenceOf(s), NEW P
  PROVE  /\ kept(s, P) \in Seq({s[n] : n \in P \cap DOMAIN s})
         /\ ours(kept(s, P)) = kept(s, {n \in P : is_ours(s[n])})
<1>1. PICK m, X, Q : /\ m = Len(s) /\ X = {s[n] : n \in P \cap DOMAIN s}
                     /\ Q = {n \in P : is_ours(s[n])}
  OBVIOUS
<1>2. m \in Nat /\ DOMAIN s = 1 .. m
  BY <1>1 DEF SequenceOf
<1>3. PICK u : Picks(u, s, P, m) /\ kept(s, P) = u[m]
  BY <1>1, <1>2, KeptPicks
<1>4. PICK v : Picks(v, s, Q, m) /\ kept(s, Q) = v[m]
  BY <1>1, <1>2, KeptPicks
<1>5. /\ u[0] = <<>> /\ v[0] = <<>>
      /\ \A n \in 1 .. m : /\ u[n] = IF n \in P THEN Append(u[n - 1], s[n]) ELSE u[n - 1]
                           /\ v[n] = IF n \in Q THEN Append(v[n - 1], s[n]) ELSE v[n - 1]
  <2>1. 0 \in 0 .. m /\ \A n \in 1 .. m : n \in 0 .. m /\ n # 0
    BY <1>2
  <2>2. QED BY <1>3, <1>4, <2>1 DEF Picks
<1> DEFINE T == {n \in Nat : n <= m => u[n] \in Seq(X) /\ ours(u[n]) = v[n]}
<1>6. 0 \in T
  <2>1. ours(<<>>) = <<>>
    BY KeptOfNone DEF ours
  <2>2. u[0] \in Seq(X) /\ ours(u[0]) = v[0]
    BY <1>5, <2>1
  <2>3. QED BY <2>2
<1>7. ASSUME NEW n \in Nat, n >= 0, n \in T
      PROVE  n + 1 \in T
  <2> SUFFICES ASSUME n + 1 <= m PROVE u[n + 1] \in Seq(X) /\ ours(u[n + 1]) = v[n + 1]
    OBVIOUS
  <2>1. n + 1 \in 1 .. m /\ (n + 1) - 1 = n /\ n <= m
    BY <1>2
  <2>2. u[n] \in Seq(X) /\ ours(u[n]) = v[n]
    BY <1>7, <2>1
  <2>3. /\ u[n + 1] = IF n + 1 \in P THEN Append(u[n], s[n + 1]) ELSE u[n]
        /\ v[n + 1] = IF n + 1 \in Q THEN Append(v[n], s[n + 1]) ELSE v[n]
    BY <1>5, <2>1
  <2>4. n + 1 \in Q <=> n + 1 \in P /\ is_ours(s[n + 1])
    BY <1>1
  <2>5. CASE n + 1 \in P
    <3>1. s[n + 1] \in X
      BY <1>1, <1>2, <2>1, <2>5
    <3>2. ours(Append(u[n], s[n + 1])) =
            IF is_ours(s[n + 1]) THEN Append(ours(u[n]), s[n + 1]) ELSE ours(u[n])
      BY <2>2, <3>1, OursOfAppend
    <3>3. Append(u[n], s[n + 1]) \in Seq(X)
      BY <2>2, <3>1
    <3>4. QED BY <2>2, <2>3, <2>4, <2>5, <3>2, <3>3
  <2>6. CASE n + 1 \notin P
    BY <2>2, <2>3, <2>4, <2>6
  <2>7. QED BY <2>5, <2>6
<1> HIDE DEF T
<1>8. m \in T
  BY <1>2, <1>6, <1>7, Counting
<1>9. u[m] \in Seq(X) /\ ours(u[m]) = v[m]
  BY <1>2, <1>8 DEF T
<1>10. QED
  BY <1>1, <1>3, <1>4, <1>9

\* A closing record as it is filed is one of FiledClosing, and so is not None.
LEMMA ClosingIsARecord ==
  ASSUME TypeOK, NEW j \in Jobs, constructed(j), NEW n \in DOMAIN events[j],
         events[j][n].kind = "JOB_SETTLED"
  PROVE  filed(j, n) # NONE
<1>1. PICK e, f : e = events[j][n] /\ f = filed(j, n)
  OBVIOUS
<1>2. e \in Event /\ e.kind = "JOB_SETTLED" /\ n \in Nat
  BY <1>1 DEF TypeOK
<1>3. e \in [kind : {"JOB_SETTLED"}, job_id : Ids, tenant_id : Tenants,
             settled_as : TERMINAL, event_count : Nat]
  BY <1>2 DEF Event
<1>4. f = [field \in DOMAIN e \union {"event_id", "subject_id"} |->
             CASE field = "event_id" -> <<j, n>>
               [] field = "subject_id" -> ident[j].job_id
               [] OTHER -> e[field]]
  BY <1>1 DEF filed
<1>5. ident[j].job_id \in Ids
  BY <1>1, <1>2 DEF TypeOK, Identity, constructed
<1>6. f \in FiledClosing
  BY <1>2, <1>3, <1>4, <1>5 DEF FiledClosing
<1>7. QED BY <1>1, <1>6, LedgerAssumption

-----------------------------------------------------------------------------
(* A job filed whole reads as it stands.                                   *)

\* A record of our own in the log is one its job filed.
LEMMA OursIsFiled ==
  ASSUME LedgerInv, NEW t \in Tenants, NEW e \in Range(partitions[t]), is_ours(e)
  PROVE  \E k \in Jobs : \E m \in DOMAIN events[k] :
           /\ constructed(k) /\ tenant(k) = t /\ e = filed(k, m)
           /\ e.event_id = <<k, m>> /\ e.job_id = ident[k].job_id
<1>1. FromJob(t, e)
  BY DEF LedgerInv, Holdings, FromOutside, is_ours
<1>2. PICK k \in Jobs : \E m \in DOMAIN events[k] :
        constructed(k) /\ tenant(k) = t /\ e = filed(k, m)
  BY <1>1 DEF FromJob
<1>3. PICK m \in DOMAIN events[k] : constructed(k) /\ tenant(k) = t /\ e = filed(k, m)
  BY <1>2
<1>4. e.event_id = <<k, m>> /\ e.job_id = ident[k].job_id
  BY <1>3, FiledFields DEF LedgerInv, StoryInv, TrailInv, LockInv, SignedBy
<1>5. QED BY <1>3, <1>4

\* What the log holds of a job.
LEMMA OwnIsFiled ==
  ASSUME LedgerInv, NEW j \in Jobs, constructed(j)
  PROVE  /\ own(j) \in Seq({filed(j, m) : m \in DOMAIN events[j]})
         /\ \A m \in DOMAIN events[j] : /\ filed(j, m).event_id = <<j, m>>
                                        /\ filed(j, m).job_id = ident[j].job_id
         /\ tenant(j) \in Tenants /\ SequenceOf(partitions[tenant(j)])
<1>1. PICK t, log, P : /\ t = tenant(j) /\ log = partitions[t]
                       /\ P = {n \in DOMAIN log : is_ours(log[n]) /\ log[n].event_id[1] = j}
  OBVIOUS
<1>2. TypeOK /\ OwnRecords /\ Holdings
  BY DEF LedgerInv, StoryInv, TrailInv, LockInv
<1>3. t \in Tenants /\ SequenceOf(log)
  BY <1>1, <1>2 DEF TypeOK, constructed, Identity, tenant, Holdings
<1>4. ASSUME NEW n \in P \cap DOMAIN log
      PROVE  log[n] \in {filed(j, m) : m \in DOMAIN events[j]}
  <2>1. log[n] \in Range(partitions[t]) /\ is_ours(log[n]) /\ log[n].event_id[1] = j
    BY <1>1 DEF Range
  <2>2. PICK k \in Jobs : \E m \in DOMAIN events[k] :
          log[n] = filed(k, m) /\ log[n].event_id = <<k, m>>
    BY <1>3, <2>1, OursIsFiled
  <2>3. k = j
    BY <2>1, <2>2
  <2>4. QED BY <2>2, <2>3
<1>5. own(j) \in Seq({log[n] : n \in P \cap DOMAIN log})
  BY <1>1, <1>3, KeptFrom DEF own
<1>6. {log[n] : n \in P \cap DOMAIN log} \subseteq {filed(j, m) : m \in DOMAIN events[j]}
  BY <1>4
<1>7. own(j) \in Seq({filed(j, m) : m \in DOMAIN events[j]})
  <2>1. PICK X, Y, o : /\ X = {log[n] : n \in P \cap DOMAIN log} /\ o = own(j)
                       /\ Y = {filed(j, m) : m \in DOMAIN events[j]}
    OBVIOUS
  <2>2. o \in Seq(X) /\ X \subseteq Y
    BY <1>5, <1>6, <2>1
  <2>3. o \in Seq(Y)
    BY <2>2
  <2>4. QED BY <2>1, <2>3
<1>8. QED
  BY <1>1, <1>2, <1>3, <1>7, FiledFields DEF SignedBy

\* The reader of a job that shares its id with nobody is handed the job's own
\* records, and besides those only what came from outside.
LEMMA ReadIsOwn ==
  ASSUME LedgerInv, NEW j \in Jobs, constructed(j), Named(j)
  PROVE  ours(read(tenant(j), ident[j].job_id)) = own(j)
<1>1. PICK t, log, id, P, Q, R :
        /\ t = tenant(j) /\ log = partitions[t] /\ id = ident[j].job_id
        /\ P = {n \in DOMAIN log : log[n].job_id = id}
        /\ Q = {n \in P : is_ours(log[n])}
        /\ R = {n \in DOMAIN log : is_ours(log[n]) /\ log[n].event_id[1] = j}
  OBVIOUS
<1>2. t \in Tenants /\ SequenceOf(log)
  BY <1>1, OwnIsFiled
<1>3. ASSUME NEW n \in DOMAIN log, is_ours(log[n])
      PROVE  log[n].job_id = id <=> log[n].event_id[1] = j
  <2>1. log[n] \in Range(partitions[t])
    BY <1>1 DEF Range
  <2>2. PICK k \in Jobs : \E m \in DOMAIN events[k] :
          /\ constructed(k) /\ tenant(k) = t
          /\ log[n].event_id = <<k, m>> /\ log[n].job_id = ident[k].job_id
    BY <1>2, <1>3, <2>1, OursIsFiled
  <2>3. log[n].event_id[1] = k
    BY <2>2
  <2>4. k # j => ident[k].job_id # id
    BY <1>1, <2>2 DEF Named
  <2>5. QED BY <1>1, <2>2, <2>3, <2>4
<1>4. Q = R
  BY <1>1, <1>3
<1>5. ours(kept(log, P)) = kept(log, Q)
  <2>1. SequenceOf(log)
    BY <1>2
  <2>2. ours(kept(log, P)) = kept(log, {n \in P : is_ours(log[n])})
    BY <2>1, KeptFrom
  <2>3. QED BY <1>1, <2>2
<1>6. read(t, id) = kept(log, P) /\ own(j) = kept(log, R)
  BY <1>1 DEF read, own
<1>7. QED
  BY <1>1, <1>4, <1>5, <1>6

\* Filed whole, they are its trail as it was filed.
LEMMA WholeIsFiled ==
  ASSUME LedgerInv, NEW j \in Jobs, constructed(j), Whole(j)
  PROVE  FiledFrom(own(j), events[j])
<1>1. PICK o, trail : o = own(j) /\ trail = events[j]
  OBVIOUS
<1>2. trail \in Seq(Event) /\ TypeOK /\ OwnRecords
  BY <1>1 DEF LedgerInv, StoryInv, TrailInv, LockInv, TypeOK
<1>3. PICK F : F = {filed(j, m) : m \in DOMAIN trail}
  OBVIOUS
<1>4. o \in Seq(F) /\ \A m \in DOMAIN trail : filed(j, m).event_id = <<j, m>>
  BY <1>1, <1>3, OwnIsFiled
<1>5. DOMAIN o = DOMAIN trail /\ \A n \in DOMAIN trail : o[n].event_id = <<j, n>>
  <2>1. [n \in DOMAIN o |-> o[n].event_id] = [n \in DOMAIN trail |-> <<j, n>>]
    BY <1>1 DEF Whole
  <2>2. DOMAIN o = DOMAIN trail
    BY <2>1
  <2>3. QED BY <2>1, <2>2
<1>6. Len(o) = Len(trail) /\ o \in Seq(Range(o))
  <2>1. Len(o) \in Nat /\ Len(trail) \in Nat /\ DOMAIN o = 1 .. Len(o)
        /\ DOMAIN trail = 1 .. Len(trail)
    BY <1>2, <1>4
  <2>2. Len(o) = Len(trail)
    <3>1. PICK a, b : a = Len(o) /\ b = Len(trail)
      OBVIOUS
    <3>2. a \in Nat /\ b \in Nat /\ 1 .. a = 1 .. b
      BY <1>5, <2>1, <3>1
    <3>3. a = b
      BY <3>2
    <3>4. QED BY <3>1, <3>3
  <2>3. \A n \in 1 .. Len(o) : o[n] \in Range(o)
    BY <2>1 DEF Range
  <2>4. o = [n \in 1 .. Len(o) |-> o[n]]
    BY <1>4
  <2>5. QED BY <2>1, <2>2, <2>3, <2>4
<1>7. ASSUME NEW n \in DOMAIN trail
      PROVE  AsFiled(o[n], trail[n])
  <2>1. o[n] \in F
    BY <1>4, <1>5
  <2>2. PICK m \in DOMAIN trail : o[n] = filed(j, m)
    BY <1>3, <2>1
  <2>3. <<j, m>> = <<j, n>>
    BY <1>4, <1>5, <2>2
  <2>4. o[n] = filed(j, n)
    BY <2>2, <2>3
  <2>5. Carries(filed(j, n), trail[n])
    BY <1>1, <1>2, FiledFields
  <2>6. trail[n].kind = "JOB_SETTLED" => filed(j, n) # NONE
    BY <1>1, <1>2, ClosingIsARecord
  <2>7. QED BY <2>4, <2>5, <2>6 DEF AsFiled
<1>8. QED
  BY <1>1, <1>6, <1>7 DEF FiledFrom, SequenceOf

\* The reader's dictionary has the job, once the log holds a record of it.
LEMMA ReadByTenant ==
  ASSUME LedgerInv, NEW j \in Jobs, constructed(j), own(j) # <<>>
  PROVE  /\ ident[j].job_id \in DOMAIN replay_tenant(tenant(j))
         /\ replay_tenant(tenant(j))[ident[j].job_id]
              = replay_job(read(tenant(j), ident[j].job_id))
<1>1. PICK t, log, id, P : /\ t = tenant(j) /\ log = partitions[t] /\ id = ident[j].job_id
                           /\ P = {n \in DOMAIN log : is_ours(log[n]) /\ log[n].event_id[1] = j}
  OBVIOUS
<1>2. /\ own(j) \in Seq({filed(j, m) : m \in DOMAIN events[j]})
      /\ \A m \in DOMAIN events[j] : filed(j, m).job_id = id
      /\ t \in Tenants /\ SequenceOf(log)
  BY <1>1, OwnIsFiled
<1>3. own(j) \in Seq({log[n] : n \in P \cap DOMAIN log})
  <2>1. kept(log, P) \in Seq({log[n] : n \in P \cap DOMAIN log})
    BY <1>2, KeptFrom
  <2>2. QED BY <1>1, <2>1 DEF own
<1>4. PICK o : o = own(j)
  OBVIOUS
<1>5. 1 \in DOMAIN o /\ o[1] \in {log[n] : n \in P \cap DOMAIN log}
  <2>1. PICK X : X = {log[n] : n \in P \cap DOMAIN log}
    OBVIOUS
  <2>2. o \in Seq(X) /\ o # <<>>
    BY <1>3, <1>4, <2>1
  <2>3. 1 \in DOMAIN o /\ o[1] \in X
    BY <2>2
  <2>4. QED BY <2>1, <2>3
<1>6. o[1].job_id = id
  <2>1. PICK X : X = {filed(j, m) : m \in DOMAIN events[j]}
    OBVIOUS
  <2>2. o \in Seq(X)
    BY <1>2, <1>4, <2>1
  <2>3. o[1] \in X
    BY <1>5, <2>2
  <2>4. QED BY <1>2, <2>1, <2>3
<1>7. \E n \in DOMAIN log : log[n].job_id = id
  BY <1>5, <1>6
<1>8. id \in {e.job_id : e \in Range(log)}
  BY <1>7 DEF Range
<1>9. id # NONE
  <2>1. id \in Ids
    BY <1>1 DEF LedgerInv, StoryInv, TrailInv, LockInv, TypeOK, constructed, Identity
  <2>2. QED BY <2>1, JobAssumption
<1>10. id \in {e.job_id : e \in Range(partitions[t])} \ {NONE}
  BY <1>1, <1>8, <1>9
<1>11. id \in DOMAIN replay_tenant(t) /\ replay_tenant(t)[id] = replay_job(read(t, id))
  BY <1>10 DEF replay_tenant
<1>12. QED
  BY <1>1, <1>11

\* A job filed whole under an id of its own reads as it stands, or, stamped
\* late, is refused for that, whatever stands between its records in the log.
THEOREM JobsReadFromTheLog == LedgerSpec => []EveryJobReads
<1>1. LedgerInv /\ ReplayAgrees => EveryJobReads
  <2> SUFFICES ASSUME LedgerInv, ReplayAgrees, NEW j \in Jobs,
                      constructed(j), Named(j), Whole(j)
               PROVE  LET r == replay_tenant(tenant(j))[ident[j].job_id]
                      IN IF StampedLate(j) THEN r.refused = "ExecutionAfterExpiry"
                                           ELSE Agrees(j, r)
    BY DEF EveryJobReads
  <2>1. PICK all, trail, r, x :
          /\ all = read(tenant(j), ident[j].job_id) /\ trail = events[j]
          /\ r = replay_tenant(tenant(j))[ident[j].job_id] /\ x = replay_job(trail)
    OBVIOUS
  <2>2. trail \in Seq(Event) /\ trail # <<>> /\ trail[1].kind = "JOB_CREATED"
    BY <2>1 DEF LedgerInv, StoryInv, TrailInv, LockInv, TypeOK, Layout, LaidOut
  <2>3. ours(all) = own(j) /\ FiledFrom(own(j), trail)
    BY <2>1, ReadIsOwn, WholeIsFiled
  <2>4. own(j) # <<>>
    BY <2>2, <2>3 DEF FiledFrom
  <2>5. r = replay_job(all)
    BY <2>1, <2>4, ReadByTenant
  <2>6. r.refused = x.refused /\ (x.refused = NONE => r = x)
    BY <2>1, <2>2, <2>3, <2>5, SameReplay
  <2>7. IF StampedLate(j) THEN x.refused = "ExecutionAfterExpiry" ELSE Agrees(j, x)
    BY <2>1 DEF ReplayAgrees
  <2>8. CASE StampedLate(j)
    BY <2>1, <2>6, <2>7, <2>8
  <2>9. CASE ~StampedLate(j)
    <3>1. Agrees(j, x) /\ x.refused = NONE
      BY <2>7, <2>9 DEF Agrees
    <3>2. r = x
      BY <2>6, <3>1
    <3>3. QED BY <2>1, <2>9, <3>1, <3>2
  <2>10. QED BY <2>8, <2>9
<1>2. QED
  BY <1>1, LedgerInvariant, EngineInside, ReaderArrivesAtTheJob, PTL

-----------------------------------------------------------------------------
(* Jobs that share an id.                                                  *)

\* The records a reader of one id is handed, as their jobs wrote them.
Pooled(t, id, trail) ==
  /\ trail \in Seq(Event) /\ FiledFrom(ours(read(t, id)), trail)
  /\ \A n \in DOMAIN trail : \E k \in Jobs :
       /\ constructed(k) /\ tenant(k) = t /\ ident[k].job_id = id
       /\ \E m \in DOMAIN events[k] : trail[n] = events[k][m]

\* The log under one name is the pooled trail of the jobs of that name.
LEMMA SharedTrail ==
  ASSUME LedgerInv, NEW t \in Tenants, NEW id
  PROVE  \E trail : Pooled(t, id, trail)
<1>1. PICK log, P, Q, o :
        /\ log = partitions[t] /\ P = {n \in DOMAIN log : log[n].job_id = id}
        /\ Q = {n \in P : is_ours(log[n])} /\ o = ours(read(t, id))
  OBVIOUS
<1>2. TypeOK /\ OwnRecords /\ SequenceOf(log)
  BY <1>1 DEF LedgerInv, StoryInv, TrailInv, LockInv, Holdings
<1>3. o = kept(log, Q)
  <2>1. ours(kept(log, P)) = kept(log, {n \in P : is_ours(log[n])})
    BY <1>2, KeptFrom
  <2>2. QED BY <1>1, <2>1 DEF read
<1>4. PICK X : X = {log[n] : n \in Q \cap DOMAIN log} /\ o \in Seq(X)
  <2>1. kept(log, Q) \in Seq({log[n] : n \in Q \cap DOMAIN log})
    BY <1>2, KeptFrom
  <2>2. QED BY <1>3, <2>1
<1>5. PICK l : l = Len(o) /\ l \in Nat /\ DOMAIN o = 1 .. l /\ \A n \in 1 .. l : o[n] \in X
  BY <1>4
<1>6. ASSUME NEW n \in 1 .. l
      PROVE  \E k \in Jobs : \E m \in DOMAIN events[k] :
               /\ constructed(k) /\ tenant(k) = t /\ ident[k].job_id = id
               /\ o[n] = filed(k, m) /\ o[n].event_id = <<k, m>>
  <2>1. PICK i \in Q \cap DOMAIN log : o[n] = log[i]
    BY <1>4, <1>5
  <2>2. o[n] \in Range(partitions[t]) /\ is_ours(o[n]) /\ o[n].job_id = id
    BY <1>1, <2>1 DEF Range
  <2>3. PICK k \in Jobs : \E m \in DOMAIN events[k] :
          /\ constructed(k) /\ tenant(k) = t /\ o[n] = filed(k, m)
          /\ o[n].event_id = <<k, m>> /\ o[n].job_id = ident[k].job_id
    BY <2>2, OursIsFiled
  <2>4. QED BY <2>2, <2>3
<1>7. PICK trail : trail = [n \in 1 .. l |-> events[o[n].event_id[1]][o[n].event_id[2]]]
  OBVIOUS
<1>8. ASSUME NEW n \in 1 .. l
      PROVE  \E k \in Jobs : \E m \in DOMAIN events[k] :
               /\ constructed(k) /\ tenant(k) = t /\ ident[k].job_id = id
               /\ o[n] = filed(k, m) /\ trail[n] = events[k][m]
               /\ trail[n] \in Event /\ AsFiled(o[n], trail[n])
  <2>1. PICK k \in Jobs : \E m \in DOMAIN events[k] :
          /\ constructed(k) /\ tenant(k) = t /\ ident[k].job_id = id
          /\ o[n] = filed(k, m) /\ o[n].event_id = <<k, m>>
    BY <1>6
  <2>2. PICK m \in DOMAIN events[k] :
          /\ constructed(k) /\ tenant(k) = t /\ ident[k].job_id = id
          /\ o[n] = filed(k, m) /\ o[n].event_id = <<k, m>>
    BY <2>1
  <2>3. trail[n] = events[k][m]
    <3>1. o[n].event_id[1] = k /\ o[n].event_id[2] = m
      BY <2>2
    <3>2. QED BY <1>7, <3>1
  <2>4. trail[n] \in Event
    BY <1>2, <2>3 DEF TypeOK
  <2>5. Carries(filed(k, m), trail[n])
    BY <1>2, <2>3, FiledFields
  <2>6. trail[n].kind = "JOB_SETTLED" => filed(k, m) # NONE
    BY <1>2, <2>2, <2>3, ClosingIsARecord
  <2>7. QED BY <2>2, <2>3, <2>4, <2>5, <2>6 DEF AsFiled
<1>9. trail \in Seq(Event) /\ Len(trail) = l /\ DOMAIN trail = 1 .. l
  <2>1. trail = [n \in 1 .. l |-> trail[n]] /\ \A n \in 1 .. l : trail[n] \in Event
    BY <1>7, <1>8
  <2>2. QED BY <1>5, <2>1
<1>10. SequenceOf(o)
  <2>1. \A n \in 1 .. l : o[n] \in Range(o)
    BY <1>5 DEF Range
  <2>2. o = [n \in 1 .. l |-> o[n]]
    BY <1>4, <1>5
  <2>3. QED BY <1>5, <2>1, <2>2 DEF SequenceOf
<1>11. FiledFrom(o, trail)
  BY <1>5, <1>8, <1>9, <1>10 DEF FiledFrom
<1>12. \A n \in DOMAIN trail : \E k \in Jobs :
         /\ constructed(k) /\ tenant(k) = t /\ ident[k].job_id = id
         /\ \E m \in DOMAIN events[k] : trail[n] = events[k][m]
  BY <1>8, <1>9
<1>13. QED
  BY <1>1, <1>9, <1>11, <1>12 DEF Pooled

\* The more is picked, the longer what is kept.
LEMMA KeptMore ==
  ASSUME NEW s, SequenceOf(s), NEW P, NEW Q, P \subseteq Q, NEW q \in Q \ P, q \in DOMAIN s
  PROVE  Len(kept(s, P)) < Len(kept(s, Q))
<1>1. PICK m, S : m = Len(s) /\ S = Range(s)
  OBVIOUS
<1>2. m \in Nat /\ DOMAIN s = 1 .. m /\ q \in 1 .. m /\ \A n \in 1 .. m : s[n] \in S
  BY <1>1 DEF SequenceOf
<1>3. PICK u : Picks(u, s, P, m) /\ kept(s, P) = u[m]
  BY <1>1, <1>2, KeptPicks
<1>4. PICK v : Picks(v, s, Q, m) /\ kept(s, Q) = v[m]
  BY <1>1, <1>2, KeptPicks
<1>5. /\ u[0] = <<>> /\ v[0] = <<>>
      /\ \A n \in 1 .. m : /\ u[n] = IF n \in P THEN Append(u[n - 1], s[n]) ELSE u[n - 1]
                           /\ v[n] = IF n \in Q THEN Append(v[n - 1], s[n]) ELSE v[n - 1]
  <2>1. 0 \in 0 .. m /\ \A n \in 1 .. m : n \in 0 .. m /\ n # 0
    BY <1>2
  <2>2. QED BY <1>3, <1>4, <2>1 DEF Picks
<1> DEFINE Ahead(n) == /\ u[n] \in Seq(S) /\ v[n] \in Seq(S) /\ Len(u[n]) <= Len(v[n])
                       /\ n >= q => Len(u[n]) < Len(v[n])
           T == {n \in Nat : n <= m => Ahead(n)}
<1>6. 0 \in T
  <2>1. u[0] \in Seq(S) /\ v[0] \in Seq(S) /\ Len(u[0]) = 0 /\ Len(v[0]) = 0
    BY <1>5
  <2>2. ~(0 >= q)
    BY <1>2
  <2>3. QED BY <2>1, <2>2
<1>7. ASSUME NEW n \in Nat, n >= 0, n \in T
      PROVE  n + 1 \in T
  <2> SUFFICES ASSUME n + 1 <= m PROVE Ahead(n + 1)
    OBVIOUS
  <2>1. n + 1 \in 1 .. m /\ (n + 1) - 1 = n /\ n <= m
    BY <1>2
  <2>2. Ahead(n)
    BY <1>7, <2>1
  <2>3. PICK a, b, c, d, e : /\ a = u[n] /\ b = v[n] /\ c = u[n + 1] /\ d = v[n + 1]
                             /\ e = s[n + 1]
    OBVIOUS
  <2>4. /\ a \in Seq(S) /\ b \in Seq(S) /\ Len(a) <= Len(b) /\ e \in S
        /\ n >= q => Len(a) < Len(b)
        /\ c = IF n + 1 \in P THEN Append(a, e) ELSE a
        /\ d = IF n + 1 \in Q THEN Append(b, e) ELSE b
    BY <1>2, <1>5, <2>1, <2>2, <2>3
  <2>5. /\ Append(a, e) \in Seq(S) /\ Len(Append(a, e)) = Len(a) + 1
        /\ Append(b, e) \in Seq(S) /\ Len(Append(b, e)) = Len(b) + 1
        /\ Len(a) \in Nat /\ Len(b) \in Nat
    BY <2>4
  <2>6. /\ n + 1 \in P => n + 1 \in Q
        /\ n + 1 >= q => n >= q \/ (n + 1 \in Q /\ n + 1 \notin P)
    BY <1>2
  <2>7. /\ c \in Seq(S) /\ d \in Seq(S) /\ Len(c) <= Len(d)
        /\ n + 1 >= q => Len(c) < Len(d)
    BY <2>4, <2>5, <2>6
  <2>8. QED BY <2>3, <2>7
<1> HIDE DEF T
<1>8. m \in T
  BY <1>2, <1>6, <1>7, Counting
<1>9. Ahead(m) /\ m >= q
  BY <1>2, <1>8 DEF T
<1>10. QED
  BY <1>3, <1>4, <1>9

\* A trail that was never closed reads as a job still open, or is refused.
LEMMA UnclosedIsOpen ==
  ASSUME NEW trail \in Seq(Event), ~Refused(trail),
         \A n \in DOMAIN trail : trail[n].kind # "JOB_SETTLED"
  PROVE  replay_job(trail).settled_as = NONE /\ ~replay_job(trail).completed
<1>1. PICK last, l : last = end(trail) /\ l = Len(trail)
  OBVIOUS
<1>2. /\ trail # <<>> /\ trail[1].kind = "JOB_CREATED" /\ ToldThroughout(trail)
      /\ last.refused = NONE /\ closing_refusal(last, l) = NONE
  BY <1>1, OnlyIfBelieved, BelievedThroughout
<1>3. ClosingRecords(trail, l) = {}
  BY <1>1 DEF ClosingRecords
<1>4. last.closing = NONE
  BY <1>1, <1>2, <1>3, ClosingIsRecorded
<1>5. "IncompleteSettlement" # NONE /\ "UnsettledTrail" # NONE
  BY ReplayAssumption DEF ReplayError
<1>6. last.completed = (last.state = "COMPLETED") /\ last.state \notin TERMINAL
  BY <1>2, <1>4, <1>5 DEF closing_refusal
<1>7. ~last.completed
  BY <1>6 DEF TERMINAL
<1>8. replay_job(trail) = replayed(last)
  BY <1>1, <1>2, AllOurs DEF replay_job, end
<1>9. QED
  BY <1>4, <1>7, <1>8 DEF replayed

\* Each of several jobs under one id counts fewer records than a reader of the
\* id is handed.
LEMMA SharedIsMore ==
  ASSUME LedgerInv, NEW j \in Jobs, NEW k \in Jobs \ {j},
         constructed(j), constructed(k), Whole(j), Whole(k),
         tenant(k) = tenant(j), ident[k].job_id = ident[j].job_id
  PROVE  Len(events[j]) < Len(ours(read(tenant(j), ident[j].job_id)))
<1>1. PICK t, log, id, P, Q, R, S :
        /\ t = tenant(j) /\ log = partitions[t] /\ id = ident[j].job_id
        /\ P = {n \in DOMAIN log : log[n].job_id = id}
        /\ Q = {n \in P : is_ours(log[n])}
        /\ R = {n \in DOMAIN log : is_ours(log[n]) /\ log[n].event_id[1] = j}
        /\ S = {n \in DOMAIN log : is_ours(log[n]) /\ log[n].event_id[1] = k}
  OBVIOUS
<1>2. t \in Tenants /\ SequenceOf(log)
  BY <1>1, OwnIsFiled
<1>3. ours(read(t, id)) = kept(log, Q)
  <2>1. ours(kept(log, P)) = kept(log, {n \in P : is_ours(log[n])})
    BY <1>2, KeptFrom
  <2>2. QED BY <1>1, <2>1 DEF read
<1>4. ASSUME NEW i \in {j, k}, NEW n \in DOMAIN log, is_ours(log[n]), log[n].event_id[1] = i
      PROVE  n \in Q
  <2>1. log[n] \in Range(partitions[t])
    BY <1>1 DEF Range
  <2>2. PICK h \in Jobs : \E m \in DOMAIN events[h] :
          log[n].event_id = <<h, m>> /\ log[n].job_id = ident[h].job_id
    BY <1>2, <1>4, <2>1, OursIsFiled
  <2>3. h = i
    BY <1>4, <2>2
  <2>4. log[n].job_id = id
    BY <1>1, <2>2, <2>3
  <2>5. QED BY <1>1, <1>4, <2>4
<1>5. R \subseteq Q /\ S \subseteq Q
  BY <1>1, <1>4
<1>6. own(j) = kept(log, R) /\ own(k) = kept(log, S)
  BY <1>1 DEF own
<1>7. PICK q \in S : q \in DOMAIN log
  <2>1. Len(own(k)) = Len(events[k]) /\ events[k] # <<>> /\ events[k] \in Seq(Event)
    BY WholeIsFiled DEF FiledFrom, LedgerInv, StoryInv, Layout, TrailInv, LockInv, TypeOK
  <2>2. PICK X : X = {log[n] : n \in S \cap DOMAIN log} /\ own(k) \in Seq(X)
    <3>1. kept(log, S) \in Seq({log[n] : n \in S \cap DOMAIN log})
      BY <1>2, KeptFrom
    <3>2. QED BY <1>6, <3>1
  <2>3. own(k)[1] \in X
    BY <2>1, <2>2
  <2>4. QED BY <2>2, <2>3
<1>8. q \in Q /\ q \notin R
  BY <1>1, <1>5, <1>7
<1>9. Len(kept(log, R)) < Len(kept(log, Q))
  BY <1>2, <1>5, <1>7, <1>8, KeptMore
<1>10. Len(own(j)) = Len(events[j])
  BY WholeIsFiled DEF FiledFrom
<1>11. QED
  BY <1>1, <1>3, <1>6, <1>9, <1>10

\* Jobs filed whole under one id are read as one trail, and that trail is
\* refused or reads as a job still open: it never passes for a settled one.
THEOREM SharedIdStaysOpen == LedgerSpec => []SharedIdNeverSettles
<1>1. ASSUME LedgerInv, NEW j \in Jobs, constructed(j), NEW alike, NEW r,
             alike = {k \in Jobs : /\ constructed(k) /\ tenant(k) = tenant(j)
                                   /\ ident[k].job_id = ident[j].job_id},
             r = replay_tenant(tenant(j))[ident[j].job_id],
             alike # {j}, \A k \in alike : Whole(k), r.refused = NONE
      PROVE  r.settled_as = NONE /\ ~r.completed
  <2>1. PICK t, id, all : t = tenant(j) /\ id = ident[j].job_id /\ all = read(t, id)
    OBVIOUS
  <2>2. j \in alike /\ t \in Tenants
    BY <1>1, <2>1, OwnIsFiled
  <2>3. events[j] # <<>> /\ events[j] \in Seq(Event)
    BY <1>1 DEF LedgerInv, StoryInv, Layout, TrailInv, LockInv, TypeOK
  <2>4. own(j) # <<>>
    <3>1. FiledFrom(own(j), events[j])
      BY <1>1, <2>2, WholeIsFiled
    <3>2. QED BY <2>3, <3>1 DEF FiledFrom
  <2>5. r = replay_job(all)
    BY <1>1, <2>1, <2>4, ReadByTenant
  <2>6. PICK trail : Pooled(t, id, trail)
    BY <1>1, <2>2, SharedTrail
  <2>7. ASSUME NEW k \in alike
        PROVE  Len(events[k]) < Len(trail)
    <3>1. PICK i \in alike : i # k
      BY <1>1, <2>2
    <3>2. /\ k \in Jobs /\ i \in Jobs \ {k} /\ constructed(k) /\ constructed(i)
          /\ tenant(k) = t /\ tenant(i) = t /\ ident[k].job_id = id /\ ident[i].job_id = id
          /\ Whole(k) /\ Whole(i)
      BY <1>1, <2>1, <3>1
    <3>3. Len(events[k]) < Len(ours(read(tenant(k), ident[k].job_id)))
      BY <1>1, <3>2, SharedIsMore
    <3>4. QED BY <2>1, <2>6, <3>2, <3>3 DEF Pooled, FiledFrom
  <2>8. ASSUME NEW n \in DOMAIN trail, trail[n].kind = "JOB_SETTLED"
        PROVE  trail[n].event_count # Len(trail)
    <3>1. PICK k \in Jobs : /\ constructed(k) /\ tenant(k) = t /\ ident[k].job_id = id
                            /\ \E m \in DOMAIN events[k] : trail[n] = events[k][m]
      BY <2>6 DEF Pooled
    <3>2. PICK m \in DOMAIN events[k] : trail[n] = events[k][m]
      BY <3>1
    <3>3. m \in recorded(k, "JOB_SETTLED")
      BY <2>8, <3>2 DEF recorded
    <3>4. m = Len(events[k]) /\ events[k][m].event_count = m
      BY <1>1, <3>3 DEF LedgerInv, StoryInv, TrailInv, TrailClosed
    <3>5. k \in alike
      BY <1>1, <2>1, <3>1
    <3>6. Len(events[k]) < Len(trail) /\ Len(trail) \in Nat /\ Len(events[k]) \in Nat
      BY <1>1, <2>6, <2>7, <3>5 DEF Pooled, LedgerInv, StoryInv, TrailInv, LockInv, TypeOK
    <3>7. QED BY <3>2, <3>4, <3>6
  <2>9. trail # <<>> /\ 1 \in DOMAIN trail /\ Len(ours(all)) = Len(trail)
    <3>1. Len(events[j]) < Len(trail) /\ Len(events[j]) \in Nat /\ Len(trail) \in Nat
      BY <2>2, <2>3, <2>6, <2>7 DEF Pooled
    <3>2. QED BY <2>1, <2>6, <3>1 DEF Pooled, FiledFrom
  <2>10. trail[1].kind = "JOB_CREATED"
    <3>1. ours(all)[1].kind = trail[1].kind /\ ours(all) # <<>>
      <4>1. AsFiled(ours(all)[1], trail[1]) /\ trail[1] \in Event
        BY <2>1, <2>6, <2>9 DEF Pooled, FiledFrom
      <4>2. ours(all) # <<>>
        BY <2>9
      <4>3. QED BY <4>1, <4>2 DEF AsFiled, Carries, Event
    <3>2. SUFFICES ASSUME trail[1].kind # "JOB_CREATED" PROVE FALSE
      OBVIOUS
    <3>3. r.refused = "UnstartedTrail"
      BY <2>5, <3>1, <3>2 DEF replay_job, refusal
    <3>4. QED BY <1>1, <3>3, ReplayAssumption DEF ReplayError
  <2>11. /\ r.refused = replay_job(trail).refused
         /\ replay_job(trail).refused = NONE => r = replay_job(trail)
    BY <2>1, <2>5, <2>6, <2>9, <2>10, SameReplay DEF Pooled
  <2>12. ~Refused(trail) /\ r = replay_job(trail)
    BY <1>1, <2>11 DEF Refused
  <2>13. \A n \in DOMAIN trail : trail[n].kind # "JOB_SETTLED"
    BY <2>6, <2>8, <2>12, MiscountedIsRefused DEF Pooled
  <2>14. QED BY <2>6, <2>12, <2>13, UnclosedIsOpen DEF Pooled
<1>2. LedgerInv => SharedIdNeverSettles
  <2> SUFFICES ASSUME LedgerInv, NEW j \in Jobs PROVE
        LET alike == {k \in Jobs : /\ constructed(k) /\ tenant(k) = tenant(j)
                                   /\ ident[k].job_id = ident[j].job_id}
            r == replay_tenant(tenant(j))[ident[j].job_id]
        IN constructed(j) /\ alike # {j} /\ (\A k \in alike : Whole(k)) =>
             (r.refused = NONE => r.settled_as = NONE /\ ~r.completed)
    BY DEF SharedIdNeverSettles
  <2>1. QED BY <1>1
<1>3. QED BY <1>2, LedgerInvariant, PTL

-----------------------------------------------------------------------------
(* The walk back along a chain of attempts.                                *)

\* The walk, up to the m-th stop.
Walks(w, known, id, m) ==
  w = [n \in 1 .. m |-> IF n = 1 THEN <<id>> ELSE further(known, w[n - 1])]

\* A walk can be taken one stop further.
LEMMA OneMoreStop ==
  ASSUME NEW known, NEW id, NEW m \in Nat, NEW w, Walks(w, known, id, m)
  PROVE  \E v : Walks(v, known, id, m + 1)
<1> DEFINE body(f, n) == IF n = 1 THEN <<id>> ELSE further(known, f[n - 1])
           v == [n \in 1 .. m + 1 |-> IF n = m + 1 THEN body(w, n) ELSE w[n]]
<1>1. w = [n \in 1 .. m |-> body(w, n)]
  BY DEF Walks
<1>2. \A n \in 1 .. m : v[n] = w[n] /\ w[n] = body(w, n)
  <2>1. \A n \in 1 .. m : n \in 1 .. m + 1 /\ n # m + 1
    OBVIOUS
  <2> HIDE DEF body
  <2>2. QED
    BY <1>1, <2>1
<1>3. ASSUME NEW n \in 1 .. m + 1
      PROVE  v[n] = body(v, n)
  <2>1. v[n] = body(w, n)
    <3> HIDE DEF body
    <3>1. CASE n = m + 1
      BY <3>1
    <3>2. CASE n # m + 1
      <4>1. n \in 1 .. m
        BY <3>2
      <4>2. QED BY <1>2, <4>1
    <3>3. QED BY <3>1, <3>2
  <2>2. n # 1 => n - 1 \in 1 .. m
    OBVIOUS
  <2>3. n # 1 => v[n - 1] = w[n - 1]
    BY <1>2, <2>2
  <2> HIDE DEF v
  <2>4. QED
    BY <2>1, <2>3
<1>4. v = [n \in 1 .. m + 1 |-> body(v, n)]
  <2>1. v = [n \in 1 .. m + 1 |-> v[n]]
    OBVIOUS
  <2> HIDE DEF v
  <2>2. QED
    BY <1>3, <2>1
<1>5. QED
  BY <1>4 DEF Walks

\* So there is a walk of every length.
LEMMA WalksExist ==
  ASSUME NEW known, NEW id, NEW m \in Nat
  PROVE  \E w : Walks(w, known, id, m)
<1> DEFINE S == {n \in Nat : \E w : Walks(w, known, id, n)}
<1>1. 0 \in S
  <2> DEFINE w == [n \in 1 .. 0 |-> 0]
  <2>1. Walks(w, known, id, 0)
    <3>1. 1 .. 0 = {}
      OBVIOUS
    <3>2. QED BY <3>1 DEF Walks
  <2>2. QED
    BY <2>1
<1>2. \A n \in Nat : n >= 0 /\ n \in S => n + 1 \in S
  BY OneMoreStop
<1> HIDE DEF S
<1>3. m \in S
  BY <1>1, <1>2, Counting
<1>4. QED
  BY <1>3 DEF S

\* chain_from() is where the walk ends.
LEMMA ChainWalks ==
  ASSUME NEW known, NEW id, NEW m \in Nat, m = Cardinality(Jobs) + 1
  PROVE  \E w : Walks(w, known, id, m) /\ chain_from(known, id) = w[m]
<1> DEFINE body(f, n) == IF n = 1 THEN <<id>> ELSE further(known, f[n - 1])
           w == CHOOSE f : f = [n \in 1 .. m |-> body(f, n)]
<1>1. \E f : f = [n \in 1 .. m |-> body(f, n)]
  <2>1. PICK f : Walks(f, known, id, m)
    BY WalksExist
  <2>2. QED BY <2>1 DEF Walks
<1>2. chain_from(known, id) = w[m]
  BY DEF chain_from
<1>3. w = [n \in 1 .. m |-> body(w, n)]
  BY <1>1
<1> HIDE DEF w
<1>4. QED
  BY <1>2, <1>3 DEF Walks

\* Every id is known and names one of lower rank, or none.
Falling(D, known, up, rank, top) ==
  /\ NONE \notin D /\ up \in [D -> D \union {NONE}] /\ rank \in [D -> Nat]
  /\ top \in Nat /\ Cardinality(Jobs) \in Nat /\ top <= Cardinality(Jobs)
  /\ \A x \in D : /\ x \in DOMAIN known /\ known[x].supersedes_job_id = up[x]
                  /\ rank[x] < top
                  /\ up[x] # NONE => rank[up[x]] < rank[x]

\* There the walk goes from each to the one it names and ends at one that names
\* none.
LEMMA WalkEnds ==
  ASSUME NEW D, NEW known, NEW up, NEW rank, NEW top, Falling(D, known, up, rank, top),
         NEW id \in D
  PROVE  LET chain == chain_from(known, id) IN
         /\ chain \in Seq(D) /\ Len(chain) >= 1 /\ up[Last(chain)] = NONE
         /\ \A n \in 2 .. Len(chain) : chain[n] = up[chain[n - 1]]
<1>0. /\ NONE \notin D /\ up \in [D -> D \union {NONE}] /\ rank \in [D -> Nat]
      /\ top \in Nat /\ Cardinality(Jobs) \in Nat /\ top <= Cardinality(Jobs)
      /\ \A x \in D : /\ x \in DOMAIN known /\ known[x].supersedes_job_id = up[x]
                      /\ rank[x] < top
                      /\ up[x] # NONE => rank[up[x]] < rank[x]
  BY DEF Falling
<1>1. PICK m : m = Cardinality(Jobs) + 1 /\ m \in Nat /\ m >= 1
  BY <1>0
<1>2. PICK w : Walks(w, known, id, m) /\ chain_from(known, id) = w[m]
  BY <1>1, ChainWalks
<1>3. /\ w[1] = <<id>>
      /\ \A n \in 2 .. m : w[n] = further(known, w[n - 1])
  <2>1. w = [n \in 1 .. m |-> IF n = 1 THEN <<id>> ELSE further(known, w[n - 1])]
    BY <1>2 DEF Walks
  <2>2. 1 \in 1 .. m /\ \A n \in 2 .. m : n \in 1 .. m /\ n # 1
    BY <1>1
  <2>3. QED BY <2>1, <2>2
<1> DEFINE Walked(c, n) ==
             /\ c \in Seq(D) /\ Len(c) >= 1
             /\ \A i \in 2 .. Len(c) : c[i] = up[c[i - 1]]
             /\ \A i \in 1 .. Len(c) : rank[c[i]] >= rank[c[Len(c)]]
             /\ up[c[Len(c)]] = NONE \/ rank[c[Len(c)]] + n <= top
           T == {n \in Nat : n <= m => Walked(w[n], n)}
<1>4. 1 \in T
  <2>1. PICK c : c = <<id>>
    OBVIOUS
  <2>2. c \in Seq(D) /\ Len(c) = 1 /\ c[1] = id
    BY <2>1
  <2>3. Walked(c, 1)
    BY <1>0, <2>2
  <2> HIDE DEF Walked
  <2>4. QED BY <1>3, <2>1, <2>3
<1>5. ASSUME NEW n \in Nat, n >= 1, n \in T
      PROVE  n + 1 \in T
  <2> SUFFICES ASSUME n + 1 <= m PROVE Walked(w[n + 1], n + 1)
    OBVIOUS
  <2>1. n + 1 \in 2 .. m /\ (n + 1) - 1 = n /\ n <= m
    BY <1>1, <1>5
  <2>2. PICK c, d, l, x : /\ c = w[n] /\ d = w[n + 1] /\ l = Len(c) /\ x = c[l]
    OBVIOUS
  <2>3. Walked(c, n) /\ d = further(known, c)
    <3>1. w[n + 1] = further(known, w[n])
      BY <1>3, <2>1
    <3>2. Walked(w[n], n)
      BY <1>5, <2>1
    <3> HIDE DEF Walked
    <3>3. QED BY <2>2, <3>1, <3>2
  <2>4. l \in Nat /\ l >= 1 /\ x \in D /\ Last(c) = x /\ DOMAIN c = 1 .. l
    BY <1>0, <2>2, <2>3 DEF Last
  <2>5. d = IF up[x] = NONE \/ up[x] \in Range(c) THEN c ELSE Append(c, up[x])
    BY <1>0, <2>3, <2>4 DEF further
  <2>6. CASE up[x] = NONE
    BY <2>2, <2>3, <2>5, <2>6
  <2>7. CASE up[x] # NONE
    <3>1. up[x] \in D /\ rank[up[x]] < rank[x] /\ rank[up[x]] \in Nat /\ rank[x] \in Nat
      BY <1>0, <2>4, <2>7
    <3>2. \A i \in 1 .. l : c[i] \in D /\ rank[c[i]] \in Nat /\ rank[c[i]] >= rank[x]
      BY <1>0, <2>2, <2>3, <2>4
    <3>3. up[x] \notin Range(c)
      <4>1. \A i \in 1 .. l : c[i] # up[x]
        BY <3>1, <3>2
      <4>2. QED BY <2>4, <4>1 DEF Range
    <3>4. d = Append(c, up[x])
      BY <2>5, <2>7, <3>3
    <3>5. /\ d \in Seq(D) /\ Len(d) = l + 1 /\ d[l + 1] = up[x]
          /\ \A i \in 1 .. l : d[i] = c[i]
      BY <2>2, <2>3, <2>4, <3>1, <3>4
    <3>6. \A i \in 2 .. l + 1 : d[i] = up[d[i - 1]]
      <4>1. ASSUME NEW i \in 2 .. l + 1, i <= l PROVE d[i] = up[d[i - 1]]
        <5>1. i \in 1 .. l /\ i - 1 \in 1 .. l /\ i \in 2 .. Len(c)
          BY <2>2, <2>4, <4>1
        <5>2. c[i] = up[c[i - 1]]
          BY <2>3, <5>1
        <5>3. QED BY <3>5, <5>1, <5>2
      <4>2. d[l + 1] = up[d[(l + 1) - 1]]
        <5>1. (l + 1) - 1 = l /\ l \in 1 .. l
          BY <2>4
        <5>2. d[l] = x
          BY <2>2, <3>5, <5>1
        <5>3. d[(l + 1) - 1] = x
          BY <5>1, <5>2
        <5>4. QED BY <3>5, <5>3
      <4>3. \A i \in 2 .. l + 1 : i <= l \/ i = l + 1
        BY <2>4
      <4>4. QED BY <4>1, <4>2, <4>3
    <3>7. \A i \in 1 .. l + 1 : rank[d[i]] >= rank[up[x]]
      <4>1. \A i \in 1 .. l : rank[d[i]] >= rank[up[x]]
        BY <3>1, <3>2, <3>5
      <4>2. rank[d[l + 1]] >= rank[up[x]]
        BY <1>0, <3>1, <3>5
      <4>3. \A i \in 1 .. l + 1 : i \in 1 .. l \/ i = l + 1
        BY <2>4
      <4>4. QED BY <4>1, <4>2, <4>3
    <3>8. rank[up[x]] + (n + 1) <= top
      <4>1. rank[x] + n <= top
        BY <2>2, <2>3, <2>7
      <4>2. PICK a, b : a = rank[x] /\ b = rank[up[x]]
        OBVIOUS
      <4>3. a \in Nat /\ b \in Nat /\ b < a /\ a + n <= top
        BY <1>0, <3>1, <4>1, <4>2
      <4>4. b + (n + 1) <= top
        BY <1>0, <4>3
      <4>5. QED BY <4>2, <4>4
    <3>9. Walked(d, n + 1)
      BY <1>0, <2>4, <3>5, <3>6, <3>7, <3>8
    <3> HIDE DEF Walked
    <3>10. QED BY <2>2, <3>9
  <2>8. QED BY <2>6, <2>7
<1> HIDE DEF T
<1>6. m \in T
  BY <1>1, <1>4, <1>5, Counting
<1>7. PICK c : c = chain_from(known, id) /\ Walked(c, m)
  <2> HIDE DEF Walked
  <2>1. Walked(w[m], m)
    BY <1>1, <1>6 DEF T
  <2>2. QED BY <1>2, <2>1
<1>8. Last(c) = c[Len(c)] /\ c[Len(c)] \in D
  BY <1>7 DEF Last
<1>9. ~(rank[c[Len(c)]] + m <= top)
  BY <1>0, <1>1, <1>8
<1>10. QED
  BY <1>7, <1>8, <1>9

\* The jobs there are.
Made == {j \in Jobs : constructed(j)}

\* A job counts those made before it, and names one of them or none.
Ordered(rank) ==
  /\ rank \in [Jobs -> Nat]
  /\ \A j \in Made : rank[j] < Cardinality(Made)
  /\ \A j \in Made : ident[j].supersedes_job_id # NONE =>
       \E old \in Made : /\ rank[old] < rank[j]
                         /\ ident[old].job_id = ident[j].supersedes_job_id
                         /\ ident[old].tenant_id = ident[j].tenant_id

InOrder == IsFiniteSet(Made) /\ \E rank : Ordered(rank)

\* A step that makes no job leaves the order as it is.
LEMMA NobodyMade ==
  ASSUME InOrder, UNCHANGED ident
  PROVE  InOrder'
<1>1. Made' = Made
  BY DEF Made, constructed
<1>2. PICK rank : Ordered(rank)
  BY DEF InOrder
<1>3. Ordered(rank)'
  BY <1>1, <1>2 DEF Ordered
<1>4. QED
  BY <1>1, <1>3 DEF InOrder

\* A job made next counts them all.
LEMMA OneMade ==
  ASSUME InOrder, NEW n \in Jobs, ~constructed(n), constructed(n)',
         \A k \in Jobs \ {n} : ident'[k] = ident[k],
         ident'[n].supersedes_job_id # NONE =>
           \E old \in Made : /\ ident[old].job_id = ident'[n].supersedes_job_id
                             /\ ident[old].tenant_id = ident'[n].tenant_id
  PROVE  InOrder'
<1>1. PICK rank : Ordered(rank)
  BY DEF InOrder
<1>2. n \notin Made /\ Made' = Made \union {n} /\ \A k \in Made : k \in Jobs /\ ident'[k] = ident[k]
  BY DEF Made, constructed
<1>3. PICK c : c = Cardinality(Made) /\ c \in Nat
  BY FS_CardinalityType DEF InOrder
<1>4. IsFiniteSet(Made') /\ Cardinality(Made') = c + 1
  BY <1>2, <1>3, FS_AddElement DEF InOrder
<1>5. PICK r : r = [j \in Jobs |-> IF j = n THEN c ELSE rank[j]]
  OBVIOUS
<1>6. /\ r \in [Jobs -> Nat] /\ r[n] = c
      /\ \A k \in Made : r[k] = rank[k] /\ rank[k] \in Nat /\ rank[k] < c
  BY <1>1, <1>2, <1>3, <1>5 DEF Ordered
<1>7. \A j \in Made' : r[j] < Cardinality(Made')
  BY <1>2, <1>3, <1>4, <1>6
<1>8. ASSUME NEW j \in Made', ident'[j].supersedes_job_id # NONE
      PROVE  \E old \in Made' : /\ r[old] < r[j]
                                /\ ident'[old].job_id = ident'[j].supersedes_job_id
                                /\ ident'[old].tenant_id = ident'[j].tenant_id
  <2>1. CASE j = n
    <3>1. PICK old \in Made : /\ ident[old].job_id = ident'[n].supersedes_job_id
                              /\ ident[old].tenant_id = ident'[n].tenant_id
      BY <1>8, <2>1
    <3>2. QED BY <1>2, <1>6, <2>1, <3>1
  <2>2. CASE j # n
    <3>1. j \in Made /\ ident'[j] = ident[j]
      BY <1>2, <2>2
    <3>2. PICK old \in Made : /\ rank[old] < rank[j]
                              /\ ident[old].job_id = ident[j].supersedes_job_id
                              /\ ident[old].tenant_id = ident[j].tenant_id
      BY <1>1, <1>8, <3>1 DEF Ordered
    <3>3. QED BY <1>2, <1>6, <3>1, <3>2
  <2>3. QED BY <2>1, <2>2
<1>9. Ordered(r)'
  BY <1>6, <1>7, <1>8 DEF Ordered
<1>10. QED
  BY <1>4, <1>9 DEF InOrder

\* When no caller names a predecessor, a job is made after the one it replaces.
LEMMA MadeInOrder == Citations = {} => (Spec => []InOrder)
<1> SUFFICES ASSUME Citations = {} PROVE Spec => []InOrder
  OBVIOUS
<1>1. Init => InOrder
  <2> SUFFICES ASSUME Init PROVE InOrder
    OBVIOUS
  <2>1. Made = {}
    BY DEF Init, Made, constructed
  <2>2. IsFiniteSet(Made)
    BY <2>1, FS_EmptySet
  <2>3. PICK rank : rank = [j \in Jobs |-> 0]
    OBVIOUS
  <2>4. Ordered(rank)
    BY <2>1, <2>3 DEF Ordered
  <2>5. QED BY <2>2, <2>4 DEF InOrder
<1>2. ASSUME TypeOK, InOrder, [Next]_vars PROVE InOrder'
  <2>1. CASE UNCHANGED ident
    BY <1>2, <2>1, NobodyMade
  <2>2. ASSUME NEW n \in Jobs, NewJob(n)
        PROVE  InOrder'
    <3>1. /\ ~constructed(n) /\ constructed(n)'
          /\ \A k \in Jobs \ {n} : ident'[k] = ident[k]
          /\ ident'[n].supersedes_job_id = NONE
      <4>1. PICK id \in Ids, of \in Tenants, workspace \in Workspaces, principal \in Principals,
                 supersedes \in Citations \union {NONE} :
              construct(n, id, of, workspace, principal, supersedes)
        BY <2>2 DEF NewJob
      <4>2. ident'[n] \in Identity /\ ~constructed(n) /\ ident'[n].supersedes_job_id = NONE
            /\ \A k \in Jobs \ {n} : ident'[k] = ident[k]
        BY <1>2, <4>1 DEF construct, TypeOK, Identity
      <4>3. QED BY <4>2, JobAssumption DEF constructed
    <3>2. QED BY <1>2, <3>1, OneMade
  <2>3. ASSUME NEW o \in Jobs, NEW n \in Jobs, Supersede(o, n)
        PROVE  InOrder'
    <3>1. /\ constructed(o) /\ ~constructed(n) /\ constructed(n)'
          /\ \A k \in Jobs \ {n} : ident'[k] = ident[k]
          /\ ident'[n].supersedes_job_id = ident[o].job_id
          /\ ident'[n].tenant_id = ident[o].tenant_id
      <4>1. /\ constructed(o) /\ ~constructed(n) /\ ident'[n] \in Identity
            /\ \A k \in Jobs \ {n} : ident'[k] = ident[k]
            /\ ident'[n].supersedes_job_id = ident[o].job_id
            /\ ident'[n].tenant_id = ident[o].tenant_id
        BY <1>2, <2>3 DEF Supersede, construct, TypeOK, Identity, constructed
      <4>2. QED BY <4>1, JobAssumption DEF constructed
    <3>2. o \in Made
      BY <3>1 DEF Made
    <3>3. QED BY <1>2, <3>1, <3>2, OneMade
  <2>4. QED BY <1>2, <2>1, <2>2, <2>3, WhoIsWho DEF vars
<1>3. LockInv => TypeOK
  BY DEF LockInv
<1>4. QED
  BY <1>1, <1>2, <1>3, LockInvariant, PTL DEF Spec

\* What a reader of the tenant knows of a job filed whole and never late.
LEMMA SeenAsItIs ==
  ASSUME LedgerInv, EveryJobReads, NEW j \in Jobs, constructed(j), Named(j), Whole(j),
         ~StampedLate(j)
  PROVE  LET seen == replay_tenant(tenant(j))
             id == ident[j].job_id
         IN /\ id \in DOMAIN seen
            /\ seen[id].supersedes_job_id = ident[j].supersedes_job_id
            /\ seen[id].settled_as = IF state[j] \in TERMINAL THEN state[j] ELSE NONE
<1>1. Agrees(j, replay_tenant(tenant(j))[ident[j].job_id])
  BY DEF EveryJobReads
<1>2. own(j) # <<>>
  <2>1. events[j] # <<>> /\ events[j] \in Seq(Event)
    BY DEF LedgerInv, StoryInv, Layout, TrailInv, LockInv, TypeOK
  <2>2. FiledFrom(own(j), events[j])
    BY WholeIsFiled
  <2>3. QED BY <2>1, <2>2 DEF FiledFrom
<1>3. ident[j].job_id \in DOMAIN replay_tenant(tenant(j))
  BY <1>2, ReadByTenant
<1>4. QED
  BY <1>1, <1>3 DEF Agrees

\* When only supersede() names predecessors and a tenant's jobs are filed whole,
\* named apart and none was stamped late, the walk back along any chain names the
\* job each was filed to replace, finds each settled without delivering, and ends
\* at one that replaced nobody.
THEOREM ChainsReadBack ==
  Citations = {} /\ IsFiniteSet(Jobs) => (LedgerSpec => []ChainReadsBack)
<1> SUFFICES ASSUME Citations = {}, IsFiniteSet(Jobs) PROVE LedgerSpec => []ChainReadsBack
  OBVIOUS
<1>1. ASSUME LedgerInv, EveryJobReads, AttemptChain, InOrder, NEW t \in Tenants,
             NEW mine, mine = {j \in Jobs : constructed(j) /\ tenant(j) = t},
             NEW seen, seen = replay_tenant(t),
             NEW replaced,
             replaced = [id \in {ident[j].job_id : j \in mine} |->
               ident[CHOOSE j \in mine : ident[j].job_id = id].supersedes_job_id],
             \A j \in mine : Named(j) /\ Whole(j) /\ ~StampedLate(j),
             NEW j \in mine, NEW chain, chain = chain_from(seen, ident[j].job_id)
      PROVE  /\ replaced[Last(chain)] = NONE
             /\ \A n \in 2 .. Len(chain) :
                  /\ chain[n] = replaced[chain[n - 1]]
                  /\ seen[chain[n]].settled_as \in {"FAILED", "CANCELLED", "TIMED_OUT"}
  <2>1. PICK D, who :
          /\ D = {ident[k].job_id : k \in mine}
          /\ who = [id \in D |-> CHOOSE k \in mine : ident[k].job_id = id]
    OBVIOUS
  <2>2. \A k \in mine : k \in Jobs /\ constructed(k) /\ tenant(k) = t /\ k \in Made
    BY <1>1 DEF Made
  <2>3. \A x \in D : who[x] \in mine /\ ident[who[x]].job_id = x
    BY <2>1
  <2>4. ASSUME NEW k \in mine, NEW i \in mine, ident[k].job_id = ident[i].job_id
        PROVE  k = i
    BY <1>1, <2>2, <2>4 DEF Named
  <2>5. \A k \in mine : ident[k].job_id \in D /\ who[ident[k].job_id] = k
    BY <2>1, <2>3, <2>4
  <2>6. DOMAIN replaced = D /\ \A x \in D : replaced[x] = ident[who[x]].supersedes_job_id
    BY <1>1, <2>1
  <2>7. PICK order : Ordered(order)
    BY <1>1 DEF InOrder
  <2>8. PICK rank : rank = [x \in D |-> order[who[x]]]
    OBVIOUS
  <2>9. ASSUME NEW x \in D, replaced[x] # NONE
        PROVE  /\ replaced[x] \in D /\ rank[replaced[x]] < rank[x]
               /\ state[who[replaced[x]]] \in {"FAILED", "CANCELLED", "TIMED_OUT"}
    <3>1. PICK k : k = who[x] /\ k \in mine /\ ident[k].supersedes_job_id = replaced[x]
      BY <2>3, <2>6
    <3>2. PICK old \in Made : /\ order[old] < order[k]
                              /\ ident[old].job_id = replaced[x]
                              /\ ident[old].tenant_id = ident[k].tenant_id
      BY <2>2, <2>7, <2>9, <3>1 DEF Ordered
    <3>3. old \in mine
      BY <1>1, <2>2, <3>1, <3>2 DEF Made, tenant
    <3>4. replaced[x] \in D /\ who[replaced[x]] = old
      BY <2>5, <3>2, <3>3
    <3>5. PICK halted \in Jobs :
            /\ constructed(halted) /\ ident[halted].job_id = replaced[x]
            /\ ident[halted].tenant_id = ident[k].tenant_id
            /\ state[halted] \in {"FAILED", "CANCELLED", "TIMED_OUT"}
      <4>1. AttemptChain /\ k \in Jobs /\ constructed(k) /\ ident[k].supersedes_job_id # NONE
        BY <1>1, <2>2, <2>9, <3>1
      <4>2. PICK halted \in Jobs :
              /\ constructed(halted) /\ ident[halted].job_id = ident[k].supersedes_job_id
              /\ ident[halted].tenant_id = ident[k].tenant_id
              /\ state[halted] \in {"FAILED", "CANCELLED", "TIMED_OUT"}
        BY <4>1 DEF AttemptChain
      <4>3. QED BY <3>1, <4>2
    <3>6. halted \in mine
      BY <1>1, <2>2, <3>1, <3>5 DEF tenant
    <3>7. halted = old
      BY <2>4, <3>2, <3>3, <3>5, <3>6
    <3>8. QED BY <2>8, <3>1, <3>2, <3>4, <3>5, <3>7
  <2>10. ASSUME NEW x \in D
         PROVE  /\ x \in DOMAIN seen /\ seen[x].supersedes_job_id = replaced[x]
                /\ seen[x].settled_as = IF state[who[x]] \in TERMINAL THEN state[who[x]] ELSE NONE
    <3>1. PICK k : k = who[x] /\ k \in mine /\ ident[k].job_id = x
      BY <2>3
    <3>2. LET known == replay_tenant(tenant(k))
              id == ident[k].job_id
          IN /\ id \in DOMAIN known
             /\ known[id].supersedes_job_id = ident[k].supersedes_job_id
             /\ known[id].settled_as = IF state[k] \in TERMINAL THEN state[k] ELSE NONE
      BY <1>1, <2>2, <3>1, SeenAsItIs
    <3>3. QED BY <1>1, <2>2, <2>6, <3>1, <3>2
  <2>11. PICK top : /\ top = Cardinality(Made) /\ top \in Nat /\ Cardinality(Jobs) \in Nat
                    /\ top <= Cardinality(Jobs)
    <3>1. Made \subseteq Jobs
      BY DEF Made
    <3>2. QED BY <3>1, FS_Subset, FS_CardinalityType
  <2>12. /\ NONE \notin D /\ replaced \in [D -> D \union {NONE}] /\ rank \in [D -> Nat]
         /\ ident[j].job_id \in D /\ \A x \in D : rank[x] < top
    <3>1. NONE \notin D
      <4>1. \A k \in mine : ident[k].job_id \in Ids
        BY <1>1, <2>2 DEF LedgerInv, StoryInv, TrailInv, LockInv, TypeOK, constructed, Identity
      <4>2. QED BY <2>1, <4>1, JobAssumption
    <3>2. replaced \in [D -> D \union {NONE}]
      <4>1. replaced = [x \in D |-> replaced[x]]
        BY <1>1, <2>1
      <4>2. \A x \in D : replaced[x] \in D \union {NONE}
        BY <2>9
      <4>3. QED BY <4>1, <4>2
    <3>3. \A x \in D : order[who[x]] \in Nat /\ order[who[x]] < top
      BY <2>2, <2>3, <2>7, <2>11 DEF Ordered
    <3>4. QED BY <2>5, <2>8, <3>1, <3>2, <3>3
  <2>13. \A x \in D : /\ x \in DOMAIN seen /\ seen[x].supersedes_job_id = replaced[x]
                      /\ rank[x] < top
                      /\ replaced[x] # NONE => rank[replaced[x]] < rank[x]
    BY <2>9, <2>10, <2>12
  <2>14. PICK id : id = ident[j].job_id /\ id \in D /\ chain = chain_from(seen, id)
    BY <1>1, <2>12
  <2>15. /\ chain \in Seq(D) /\ Len(chain) >= 1 /\ replaced[Last(chain)] = NONE
         /\ \A n \in 2 .. Len(chain) : chain[n] = replaced[chain[n - 1]]
    <3>1. Falling(D, seen, replaced, rank, top)
      BY <2>11, <2>12, <2>13 DEF Falling
    <3>2. LET walk == chain_from(seen, id) IN
          /\ walk \in Seq(D) /\ Len(walk) >= 1 /\ replaced[Last(walk)] = NONE
          /\ \A n \in 2 .. Len(walk) : walk[n] = replaced[walk[n - 1]]
      <4>1. id \in D
        BY <2>14
      <4>2. QED BY <3>1, <4>1, WalkEnds
    <3>3. chain_from(seen, id) = chain
      BY <2>14
    <3>4. QED BY <3>2, <3>3
  <2>16. ASSUME NEW n \in 2 .. Len(chain)
         PROVE  seen[chain[n]].settled_as \in {"FAILED", "CANCELLED", "TIMED_OUT"}
    <3>1. chain[n] \in D /\ chain[n - 1] \in D /\ chain[n] = replaced[chain[n - 1]]
      <4>1. Len(chain) \in Nat /\ n \in 1 .. Len(chain) /\ n - 1 \in 1 .. Len(chain)
        BY <2>15
      <4>2. QED BY <2>15, <4>1
    <3>2. chain[n] # NONE
      BY <2>12, <3>1
    <3>3. state[who[chain[n]]] \in {"FAILED", "CANCELLED", "TIMED_OUT"}
      BY <2>9, <3>1, <3>2
    <3>4. QED BY <2>10, <3>1, <3>3 DEF TERMINAL
  <2>17. QED BY <2>15, <2>16
<1>2. LedgerInv /\ EveryJobReads /\ AttemptChain /\ InOrder => ChainReadsBack
  BY <1>1 DEF ChainReadsBack
<1>3. QED
  BY <1>2, LedgerInvariant, EngineInside, JobsReadFromTheLog, AttemptsFormAChain, MadeInOrder,
     PTL

-----------------------------------------------------------------------------
(* What a reading that was not refused holds of the records it read, in    *)
(* whichever order they came.                                              *)

\* A sequence that grew at its end.
LEMMA GrownByOne ==
  ASSUME NEW s, SequenceOf(s), NEW e
  PROVE  /\ SequenceOf(Append(s, e)) /\ Range(Append(s, e)) = Range(s) \union {e}
         /\ Len(Append(s, e)) = Len(s) + 1 /\ Len(s) \in Nat
<1>1. PICK S : S = Range(s) \union {e}
  OBVIOUS
<1>2. s \in Seq(S) /\ e \in S
  BY <1>1 DEF SequenceOf
<1>3. PICK t : t = Append(s, e)
  OBVIOUS
<1>4. /\ t \in Seq(S) /\ Len(s) \in Nat /\ Len(t) = Len(s) + 1 /\ t[Len(s) + 1] = e
      /\ \A n \in 1 .. Len(s) : t[n] = s[n]
  BY <1>2, <1>3
<1>5. Range(t) = S
  <2>1. \A n \in DOMAIN t : t[n] \in S
    BY <1>4
  <2>2. \A n \in DOMAIN s : n \in DOMAIN t /\ t[n] = s[n]
    BY <1>2, <1>4
  <2>3. Len(s) + 1 \in DOMAIN t
    BY <1>4
  <2>4. QED BY <1>1, <1>4, <2>1, <2>2, <2>3 DEF Range
<1>6. QED BY <1>1, <1>3, <1>4, <1>5 DEF SequenceOf

\* What else one record that is believed does to the reading.
Heard(before, e, after) ==
  /\ after.decision_ids = IF e.kind = "GOVERNANCE_DECISION"
                            THEN Append(before.decision_ids, e.approval.decision_id)
                          ELSE before.decision_ids
  /\ IF e.kind # "STATE_TRANSITION"
       THEN /\ after.approval = before.approval /\ after.awaiting_from = before.awaiting_from
            /\ after.history = before.history
     ELSE /\ e.to \in reachable_from(before.state, before.awaiting_from)
          /\ ~unaudited_decision(before, e)
          /\ after.approval = approval_read(before, e)
          /\ after.awaiting_from = IF e.to = "AWAITING_APPROVAL" THEN before.state
                                   ELSE IF before.state = "AWAITING_APPROVAL" THEN NONE
                                   ELSE before.awaiting_from
          /\ \E h : /\ h.from = e.from /\ h.to = e.to
                    /\ after.history = Append(before.history, h)

\* A record that is not refused is heard as what it is.
LEMMA RecordHeard ==
  ASSUME NEW before, NEW e, DOMAIN before = Fields, before.refused = NONE,
         NEW after, after = read_on(before, e), after.refused = NONE
  PROVE  Heard(before, e, after)
<1>1. \A error \in ReplayError : refusal(error).refused # NONE
  BY ReplayAssumption DEF refusal
<1>2. after = read_record(before, e)
  BY DEF read_on
<1>3. e.job_id = before.job_id
  BY <1>1, <1>2 DEF read_record, ReplayError
<1>4. CASE e.kind = "STATE_TRANSITION"
  <2>1. PICK why : why = transition_refusal(before, e)
    OBVIOUS
  <2>2. after = IF why = NONE THEN followed(before, e) ELSE refusal(why)
    BY <1>2, <1>3, <1>4, <2>1 DEF read_record
  <2>3. why = NONE
    BY <2>2 DEF refusal
  <2>4. "BrokenTrail" # NONE /\ "UndeclaredTransition" # NONE /\ "UnauditedDecision" # NONE
    BY ReplayAssumption DEF ReplayError
  <2>5. /\ e.to \in reachable_from(before.state, before.awaiting_from)
        /\ ~unaudited_decision(before, e)
    BY <2>1, <2>3, <2>4 DEF transition_refusal
  <2>6. after = followed(before, e)
    BY <2>2, <2>3
  <2>7. PICK h : h = [from |-> e.from, to |-> e.to, at |-> e.occurred_at,
                      decision_id |-> IF decided(before.state, e.to) = NONE THEN NONE
                                      ELSE before.pending.decision_id]
    OBVIOUS
  <2>8. /\ after.history = Append(before.history, h)
        /\ after.decision_ids = before.decision_ids
        /\ after.approval = approval_read(before, e)
        /\ after.awaiting_from = IF e.to = "AWAITING_APPROVAL" THEN before.state
                                 ELSE IF before.state = "AWAITING_APPROVAL" THEN NONE
                                 ELSE before.awaiting_from
    BY <2>6, <2>7 DEF followed, Fields
  <2>9. h.from = e.from /\ h.to = e.to
    BY <2>7
  <2>10. QED BY <1>4, <2>5, <2>8, <2>9 DEF Heard
<1>5. CASE e.kind = "GOVERNANCE_DECISION"
  <2>1. after = [before EXCEPT !.pending = e.approval,
                               !.decision_ids = Append(@, e.approval.decision_id)]
    BY <1>2, <1>3, <1>5 DEF read_record
  <2>2. /\ after.decision_ids = Append(before.decision_ids, e.approval.decision_id)
        /\ after.approval = before.approval /\ after.awaiting_from = before.awaiting_from
        /\ after.history = before.history
    BY <2>1 DEF Fields
  <2>3. QED BY <1>5, <2>2 DEF Heard
<1>6. CASE e.kind = "JOB_SETTLED"
  <2>1. after = [before EXCEPT !.closing = e]
    BY <1>2, <1>3, <1>6 DEF read_record
  <2>2. QED BY <1>6, <2>1 DEF Heard, Fields
<1>7. CASE e.kind = "JOB_COMPLETED"
  <2>1. after = [before EXCEPT !.completed = TRUE]
    BY <1>2, <1>3, <1>7 DEF read_record
  <2>2. QED BY <1>7, <2>1 DEF Heard, Fields
<1>8. CASE e.kind \notin {"STATE_TRANSITION", "GOVERNANCE_DECISION", "JOB_SETTLED", "JOB_COMPLETED"}
  <2>1. after = before
    BY <1>2, <1>3, <1>8 DEF read_record
  <2>2. QED BY <1>8, <2>1 DEF Heard
<1>9. QED BY <1>4, <1>5, <1>6, <1>7, <1>8

\* The moves and the verdicts among the first n records.
MovesIn(trail, n) == {k \in 1 .. n : trail[k].kind = "STATE_TRANSITION"}

VerdictsIn(trail, n) == {k \in 1 .. n : trail[k].kind = "GOVERNANCE_DECISION"}

Approves(e) == e.from = "GOVERNANCE_ANALYSIS" /\ e.to = "APPROVED"

\* The verdicts it lists are those it read, and the one it waits with, or counts
\* as an approval, is one of them.
KnowsVerdicts(r, trail, n) ==
  /\ SequenceOf(r.decision_ids)
  /\ Range(r.decision_ids) = {trail[k].approval.decision_id : k \in VerdictsIn(trail, n)}
  /\ r.pending # NONE => \E k \in VerdictsIn(trail, n) : r.pending = trail[k].approval
  /\ r.approval # NONE => /\ r.approval.decision = "APPROVE"
                          /\ \E k \in VerdictsIn(trail, n) : r.approval = trail[k].approval

\* The moves it lists are those it read, each of them once, and none of them out
\* of a settled state.
KnowsMoves(r, trail, n) ==
  /\ SequenceOf(r.history) /\ Len(r.history) = Cardinality(MovesIn(trail, n))
  /\ {<<h.from, h.to>> : h \in Range(r.history)}
       = {<<trail[k].from, trail[k].to>> : k \in MovesIn(trail, n)}
  /\ r.state = "DRAFT" \/ \E k \in MovesIn(trail, n) : r.state = trail[k].to
  /\ \A k \in MovesIn(trail, n) : trail[k].from \notin TERMINAL

\* It holds an approval from the move that granted one on: nothing it can follow
\* from there leads back to the gate.
KnowsWhetherApproved(r, trail, n) ==
  /\ r.state \in JobState /\ r.awaiting_from \in APPROVAL_PAUSABLE \union {NONE}
  /\ r.approval # NONE => r.state \notin {"DRAFT", "GOVERNANCE_ANALYSIS", "REJECTED"}
  /\ r.approval = NONE => \A k \in MovesIn(trail, n) : ~Approves(trail[k])

\* One record more is one move more, one verdict more, or neither.
LEMMA OneMoreIn ==
  ASSUME NEW trail, NEW n \in Nat
  PROVE  /\ MovesIn(trail, n + 1) = IF trail[n + 1].kind = "STATE_TRANSITION"
                                      THEN MovesIn(trail, n) \union {n + 1}
                                    ELSE MovesIn(trail, n)
         /\ VerdictsIn(trail, n + 1) = IF trail[n + 1].kind = "GOVERNANCE_DECISION"
                                         THEN VerdictsIn(trail, n) \union {n + 1}
                                       ELSE VerdictsIn(trail, n)
         /\ IsFiniteSet(MovesIn(trail, n)) /\ n + 1 \notin MovesIn(trail, n)
<1>1. 1 .. n + 1 = (1 .. n) \union {n + 1} /\ n + 1 \notin 1 .. n
  OBVIOUS
<1>2. MovesIn(trail, n) \subseteq 1 .. n
  BY DEF MovesIn
<1>3. IsFiniteSet(1 .. n)
  BY FS_Interval
<1>4. IsFiniteSet(MovesIn(trail, n))
  BY <1>2, <1>3, FS_Subset
<1>5. QED BY <1>1, <1>2, <1>4 DEF MovesIn, VerdictsIn

\* The verdicts known stay the verdicts read.
LEMMA VerdictsKnown ==
  ASSUME NEW trail, NEW n \in Nat, NEW before, NEW after,
         Told(before, trail[n + 1], after), Heard(before, trail[n + 1], after),
         KnowsVerdicts(before, trail, n)
  PROVE  KnowsVerdicts(after, trail, n + 1)
<1>1. PICK e, V, W : e = trail[n + 1] /\ V = VerdictsIn(trail, n) /\ W = VerdictsIn(trail, n + 1)
  OBVIOUS
<1>2. W = IF e.kind = "GOVERNANCE_DECISION" THEN V \union {n + 1} ELSE V
  BY <1>1, OneMoreIn
<1>3. /\ SequenceOf(before.decision_ids)
      /\ Range(before.decision_ids) = {trail[k].approval.decision_id : k \in V}
      /\ before.pending # NONE => \E k \in V : before.pending = trail[k].approval
      /\ before.approval # NONE => /\ before.approval.decision = "APPROVE"
                                   /\ \E k \in V : before.approval = trail[k].approval
  BY <1>1 DEF KnowsVerdicts
<1>4. Told(before, e, after) /\ Heard(before, e, after)
  BY <1>1
<1>5. CASE e.kind = "GOVERNANCE_DECISION"
  <2>1. W = V \union {n + 1} /\ trail[n + 1] = e
    BY <1>1, <1>2, <1>5
  <2>2. /\ after.decision_ids = Append(before.decision_ids, e.approval.decision_id)
        /\ after.approval = before.approval /\ after.pending = e.approval
    BY <1>4, <1>5 DEF Told, Heard
  <2>3. /\ SequenceOf(after.decision_ids)
        /\ Range(after.decision_ids) = Range(before.decision_ids) \union {e.approval.decision_id}
    BY <1>3, <2>2, GrownByOne
  <2>4. Range(after.decision_ids) = {trail[k].approval.decision_id : k \in W}
    BY <1>3, <2>1, <2>3
  <2>5. QED BY <1>1, <1>3, <2>1, <2>2, <2>3, <2>4 DEF KnowsVerdicts
<1>6. CASE e.kind = "STATE_TRANSITION"
  <2>1. W = V
    BY <1>2, <1>6
  <2>2. /\ after.decision_ids = before.decision_ids
        /\ after.approval = approval_read(before, e) /\ ~unaudited_decision(before, e)
        /\ after.pending = IF decided(before.state, e.to) # NONE THEN NONE ELSE before.pending
    BY <1>4, <1>6 DEF Told, Heard
  <2>3. \/ after.approval = before.approval
        \/ after.approval = before.pending /\ before.pending.decision = "APPROVE"
        \/ after.approval = NONE
    BY <2>2 DEF approval_read, unaudited_decision
  <2>4. after.pending = NONE \/ after.pending = before.pending
    BY <2>2
  <2>5. QED BY <1>1, <1>3, <2>1, <2>2, <2>3, <2>4 DEF KnowsVerdicts
<1>7. CASE e.kind \notin {"GOVERNANCE_DECISION", "STATE_TRANSITION"}
  <2>1. W = V
    BY <1>2, <1>7
  <2>2. /\ after.decision_ids = before.decision_ids /\ after.approval = before.approval
        /\ after.pending = before.pending
    BY <1>4, <1>7 DEF Told, Heard
  <2>3. QED BY <1>1, <1>3, <2>1, <2>2 DEF KnowsVerdicts
<1>8. QED BY <1>5, <1>6, <1>7

\* Nothing is reached from a settled state.
LEMMA NoneGoesOn ==
  ASSUME NEW s \in TERMINAL, NEW a
  PROVE  reachable_from(s, a) = {}
  BY DEF reachable_from, TRANSITIONS, CrossCuttingExits, Progression, TERMINAL, JobState

\* The moves known stay the moves read.
LEMMA MovesKnown ==
  ASSUME NEW trail, NEW n \in Nat, NEW before, NEW after,
         Told(before, trail[n + 1], after), Heard(before, trail[n + 1], after),
         KnowsMoves(before, trail, n)
  PROVE  KnowsMoves(after, trail, n + 1)
<1>1. PICK e, V, W : e = trail[n + 1] /\ V = MovesIn(trail, n) /\ W = MovesIn(trail, n + 1)
  OBVIOUS
<1>2. /\ W = IF e.kind = "STATE_TRANSITION" THEN V \union {n + 1} ELSE V
      /\ IsFiniteSet(V) /\ n + 1 \notin V
  BY <1>1, OneMoreIn
<1>3. /\ SequenceOf(before.history) /\ Len(before.history) = Cardinality(V)
      /\ {<<h.from, h.to>> : h \in Range(before.history)}
           = {<<trail[k].from, trail[k].to>> : k \in V}
      /\ before.state = "DRAFT" \/ \E k \in V : before.state = trail[k].to
      /\ \A k \in V : trail[k].from \notin TERMINAL
  BY <1>1 DEF KnowsMoves
<1>4. Told(before, e, after) /\ Heard(before, e, after)
  BY <1>1
<1>5. CASE e.kind = "STATE_TRANSITION"
  <2>1. W = V \union {n + 1} /\ trail[n + 1] = e
    BY <1>1, <1>2, <1>5
  <2>2. PICK h : h.from = e.from /\ h.to = e.to /\ after.history = Append(before.history, h)
    BY <1>4, <1>5 DEF Heard
  <2>3. /\ SequenceOf(after.history) /\ Len(after.history) = Len(before.history) + 1
        /\ Range(after.history) = Range(before.history) \union {h}
    BY <1>3, <2>2, GrownByOne
  <2>4. Cardinality(W) = Cardinality(V) + 1
    BY <1>2, <2>1, FS_AddElement
  <2>5. {<<g.from, g.to>> : g \in Range(after.history)}
          = {<<g.from, g.to>> : g \in Range(before.history)} \union {<<h.from, h.to>>}
    BY <2>3
  <2>6. {<<trail[k].from, trail[k].to>> : k \in W}
          = {<<trail[k].from, trail[k].to>> : k \in V} \union {<<e.from, e.to>>}
    BY <2>1
  <2>7. after.state = e.to
    BY <1>4, <1>5 DEF Told
  <2>8. \E k \in W : after.state = trail[k].to
    BY <2>1, <2>7
  <2>9. {<<g.from, g.to>> : g \in Range(after.history)}
          = {<<trail[k].from, trail[k].to>> : k \in W}
    BY <1>3, <2>2, <2>5, <2>6
  <2>10. e.from \notin TERMINAL
    <3>1. e.from = before.state /\ e.to \in reachable_from(before.state, before.awaiting_from)
      BY <1>4, <1>5 DEF Told, Heard
    <3>2. QED BY <3>1, NoneGoesOn
  <2>11. \A k \in W : trail[k].from \notin TERMINAL
    BY <1>3, <2>1, <2>10
  <2>12. QED BY <1>1, <1>3, <2>3, <2>4, <2>8, <2>9, <2>11 DEF KnowsMoves
<1>6. CASE e.kind # "STATE_TRANSITION"
  <2>1. W = V
    BY <1>2, <1>6
  <2>2. after.history = before.history /\ after.state = before.state
    BY <1>4, <1>6 DEF Told, Heard
  <2>3. QED BY <1>1, <1>3, <2>1, <2>2 DEF KnowsMoves
<1>7. QED BY <1>5, <1>6

\* No state that follows an approval is the gate, and none leads back to it or to
\* what comes before it.
LEMMA NoWayBack ==
  ASSUME NEW s \in JobState, NEW a \in APPROVAL_PAUSABLE \union {NONE},
         NEW to \in reachable_from(s, a)
  PROVE  /\ to \in JobState
         /\ to = "AWAITING_APPROVAL" => s \in APPROVAL_PAUSABLE
         /\ s \notin {"DRAFT", "GOVERNANCE_ANALYSIS", "REJECTED"} =>
              /\ to \notin {"DRAFT", "GOVERNANCE_ANALYSIS", "REJECTED"}
              /\ decided(s, to) = NONE
         /\ (decided(s, to) = "APPROVE") = (s = "GOVERNANCE_ANALYSIS" /\ to = "APPROVED")
<1>1. /\ to \in JobState
      /\ to = "AWAITING_APPROVAL" => s \in APPROVAL_PAUSABLE
      /\ s \notin {"DRAFT", "GOVERNANCE_ANALYSIS", "REJECTED"} =>
           to \notin {"DRAFT", "GOVERNANCE_ANALYSIS", "REJECTED"}
  BY DEF reachable_from, TRANSITIONS, CrossCuttingExits, Progression, TERMINAL,
         JobState, APPROVAL_PAUSABLE, FAILABLE, TIMEOUTABLE
<1>2. QED BY <1>1, VerdictEdges, NoneAssumption DEF decided, DecisionType

\* Whether the job is approved is known from the moves read.
LEMMA ApprovalKnown ==
  ASSUME NEW trail, NEW n \in Nat, NEW before, NEW after,
         Told(before, trail[n + 1], after), Heard(before, trail[n + 1], after),
         KnowsWhetherApproved(before, trail, n)
  PROVE  KnowsWhetherApproved(after, trail, n + 1)
<1>1. PICK e, s, a, V, W :
        /\ e = trail[n + 1] /\ V = MovesIn(trail, n) /\ W = MovesIn(trail, n + 1)
        /\ s = before.state /\ a = before.awaiting_from
  OBVIOUS
<1>2. W = IF e.kind = "STATE_TRANSITION" THEN V \union {n + 1} ELSE V
  BY <1>1, OneMoreIn
<1>3. /\ s \in JobState /\ a \in APPROVAL_PAUSABLE \union {NONE}
      /\ before.approval # NONE => s \notin {"DRAFT", "GOVERNANCE_ANALYSIS", "REJECTED"}
      /\ before.approval = NONE => \A k \in V : ~Approves(trail[k])
  BY <1>1 DEF KnowsWhetherApproved
<1>4. Told(before, e, after) /\ Heard(before, e, after)
  BY <1>1
<1>5. CASE e.kind = "STATE_TRANSITION"
  <2>1. W = V \union {n + 1} /\ trail[n + 1] = e
    BY <1>1, <1>2, <1>5
  <2>2. /\ e.to \in reachable_from(s, a) /\ ~unaudited_decision(before, e)
        /\ after.approval = approval_read(before, e)
        /\ after.awaiting_from = IF e.to = "AWAITING_APPROVAL" THEN s
                                 ELSE IF s = "AWAITING_APPROVAL" THEN NONE ELSE a
        /\ after.state = e.to /\ e.from = s
    BY <1>1, <1>4, <1>5 DEF Told, Heard
  <2>3. PICK verdict : verdict = decided(s, e.to)
    OBVIOUS
  <2>4. /\ e.to \in JobState
        /\ e.to = "AWAITING_APPROVAL" => s \in APPROVAL_PAUSABLE
        /\ s \notin {"DRAFT", "GOVERNANCE_ANALYSIS", "REJECTED"} =>
             /\ e.to \notin {"DRAFT", "GOVERNANCE_ANALYSIS", "REJECTED"}
             /\ verdict = NONE
        /\ (verdict = "APPROVE") = (s = "GOVERNANCE_ANALYSIS" /\ e.to = "APPROVED")
    BY <1>3, <2>2, <2>3, NoWayBack
  <2>5. after.state \in JobState /\ after.awaiting_from \in APPROVAL_PAUSABLE \union {NONE}
    BY <1>3, <2>2, <2>4
  <2>6. /\ verdict = NONE => after.approval = before.approval
        /\ verdict = "APPROVE" => after.approval # NONE
        /\ verdict \notin {NONE, "APPROVE"} => after.approval = NONE
    <3>1. verdict = decided(before.state, e.to)
      BY <1>1, <2>3
    <3>2. "APPROVE" # NONE
      BY NoneAssumption DEF DecisionType
    <3>3. /\ after.approval = IF verdict = NONE THEN before.approval
                              ELSE IF verdict = "APPROVE" THEN before.pending ELSE NONE
          /\ verdict # NONE => before.pending # NONE
      BY <2>2, <3>1 DEF approval_read, unaudited_decision
    <3>4. QED BY <3>2, <3>3
  <2>7. Approves(e) = (verdict = "APPROVE")
    BY <2>2, <2>4 DEF Approves
  <2>8. after.approval # NONE => e.to \notin {"DRAFT", "GOVERNANCE_ANALYSIS", "REJECTED"}
    <3>1. CASE verdict = NONE
      BY <1>3, <2>4, <2>6, <3>1
    <3>2. CASE verdict = "APPROVE"
      BY <2>4, <3>2
    <3>3. CASE verdict \notin {NONE, "APPROVE"}
      BY <2>6, <3>3
    <3>4. QED BY <3>1, <3>2, <3>3
  <2>9. after.approval = NONE => \A k \in W : ~Approves(trail[k])
    <3> SUFFICES ASSUME after.approval = NONE PROVE \A k \in W : ~Approves(trail[k])
      OBVIOUS
    <3>1. verdict # "APPROVE"
      BY <2>6
    <3>2. before.approval = NONE
      BY <1>3, <2>4, <2>6
    <3>3. QED BY <1>3, <2>1, <2>7, <3>1, <3>2
  <2>10. QED BY <1>1, <2>2, <2>5, <2>8, <2>9 DEF KnowsWhetherApproved
<1>6. CASE e.kind # "STATE_TRANSITION"
  <2>1. W = V
    BY <1>2, <1>6
  <2>2. /\ after.approval = before.approval /\ after.awaiting_from = a /\ after.state = s
    BY <1>1, <1>4, <1>6 DEF Told, Heard
  <2>3. QED BY <1>1, <1>3, <2>1, <2>2 DEF KnowsWhetherApproved
<1>7. QED BY <1>5, <1>6

Knows(r, trail, n) ==
  KnowsVerdicts(r, trail, n) /\ KnowsMoves(r, trail, n) /\ KnowsWhetherApproved(r, trail, n)

\* All of it holds of the reading a believed trail ends with.
LEMMA BelievedIsKnown ==
  ASSUME NEW trail \in Seq(Event), trail # <<>>, trail[1].kind = "JOB_CREATED",
         end(trail).refused = NONE
  PROVE  Knows(end(trail), trail, Len(trail))
<1> DEFINE r == readings(trail)
           l == Len(trail)
           S == {n \in Nat : n <= l => Knows(r[n], trail, n)}
<1>1. l \in Nat /\ l >= 1
  OBVIOUS
<1>2. ToldThroughout(trail)
  BY BelievedThroughout
<1>3. /\ \A n \in 2 .. l : r[n] = read_on(r[n - 1], trail[n])
      /\ r[1] = started(trail[1])
  BY <1>1, ReadingByReading
<1> HIDE DEF r, l
<1>4. /\ \A n \in 1 .. l : r[n].refused = NONE /\ DOMAIN r[n] = Fields
      /\ \A n \in 2 .. l : Told(r[n - 1], trail[n], r[n])
  BY <1>2 DEF ToldThroughout, r, l
<1>5. 1 \in S
  <2>1. MovesIn(trail, 1) = {} /\ VerdictsIn(trail, 1) = {}
    <3>1. 1 .. 1 = {1}
      OBVIOUS
    <3>2. QED BY <3>1 DEF MovesIn, VerdictsIn
  <2>2. /\ r[1].decision_ids = <<>> /\ r[1].history = <<>> /\ r[1].pending = NONE
        /\ r[1].approval = NONE /\ r[1].state = "DRAFT" /\ r[1].awaiting_from = NONE
    BY <1>3 DEF started
  <2>3. SequenceOf(<<>>) /\ Range(<<>>) = {} /\ Len(<<>>) = 0
    BY DEF SequenceOf, Range
  <2>4. KnowsVerdicts(r[1], trail, 1)
    BY <2>1, <2>2, <2>3 DEF KnowsVerdicts
  <2>5. KnowsMoves(r[1], trail, 1)
    BY <2>1, <2>2, <2>3, FS_EmptySet DEF KnowsMoves
  <2>6. KnowsWhetherApproved(r[1], trail, 1)
    BY <2>1, <2>2 DEF KnowsWhetherApproved, JobState
  <2>7. QED BY <2>4, <2>5, <2>6 DEF Knows
<1>6. ASSUME NEW n \in Nat, n >= 1, n \in S
      PROVE  n + 1 \in S
  <2> SUFFICES ASSUME n + 1 <= l PROVE Knows(r[n + 1], trail, n + 1)
    OBVIOUS
  <2>1. n + 1 \in 2 .. l /\ n \in 1 .. l /\ n + 1 \in 1 .. l /\ (n + 1) - 1 = n /\ n <= l
    BY <1>1, <1>6
  <2>2. PICK before, after : before = r[n] /\ after = r[n + 1]
    OBVIOUS
  <2>3. /\ before.refused = NONE /\ DOMAIN before = Fields /\ after.refused = NONE
        /\ after = read_on(before, trail[n + 1]) /\ Told(before, trail[n + 1], after)
    BY <1>3, <1>4, <2>1, <2>2
  <2>4. Heard(before, trail[n + 1], after)
    BY <2>3, RecordHeard
  <2>5. Knows(before, trail, n)
    BY <1>6, <2>1, <2>2
  <2>6. /\ KnowsVerdicts(before, trail, n) /\ KnowsMoves(before, trail, n)
        /\ KnowsWhetherApproved(before, trail, n)
    BY <2>5 DEF Knows
  <2>7. KnowsVerdicts(after, trail, n + 1)
    BY <2>3, <2>4, <2>6, VerdictsKnown
  <2>8. KnowsMoves(after, trail, n + 1)
    BY <2>3, <2>4, <2>6, MovesKnown
  <2>9. KnowsWhetherApproved(after, trail, n + 1)
    BY <2>3, <2>4, <2>6, ApprovalKnown
  <2>10. QED BY <2>2, <2>7, <2>8, <2>9 DEF Knows
<1> HIDE DEF S
<1>7. \A n \in Nat : n >= 1 => n \in S
  BY <1>5, <1>6, Counting
<1>8. Knows(r[l], trail, l)
  BY <1>1, <1>7 DEF S
<1>9. QED
  BY <1>8 DEF r, l, end

-----------------------------------------------------------------------------
(* The log holds no record twice.                                          *)

Distinct(s) == \A a, b \in DOMAIN s : s[a].event_id = s[b].event_id => a = b

NoRepeats == \A t \in Tenants : Distinct(partitions[t])

\* What is appended differs from what was there.
LEMMA DistinctGrows ==
  ASSUME NEW s, SequenceOf(s), NEW m \in Nat, NEW u, DOMAIN u = 1 .. m,
         u = [n \in 1 .. m |-> u[n]], Distinct(s), Distinct(u),
         \A a \in DOMAIN s : \A b \in DOMAIN u : s[a].event_id # u[b].event_id
  PROVE  Distinct(s \o u)
<1>1. PICK S : S = Range(s) \union Range(u)
  OBVIOUS
<1>2. s \in Seq(S) /\ u \in Seq(S) /\ Len(u) = m
  BY <1>1 DEF SequenceOf, Range
<1>3. PICK t : t = s \o u
  OBVIOUS
<1>4. /\ Len(s) \in Nat /\ DOMAIN s = 1 .. Len(s) /\ DOMAIN t = 1 .. Len(s) + m
      /\ \A n \in 1 .. Len(s) : t[n] = s[n]
      /\ \A n \in 1 .. m : t[Len(s) + n] = u[n]
  BY <1>2, <1>3
<1>5. ASSUME NEW n \in DOMAIN t
      PROVE  \/ n \in DOMAIN s /\ t[n] = s[n]
             \/ \E i \in DOMAIN u : n = Len(s) + i /\ t[n] = u[i]
  <2>1. CASE n \in 1 .. Len(s)
    BY <1>4, <2>1
  <2>2. CASE n \notin 1 .. Len(s)
    <3>1. n - Len(s) \in 1 .. m /\ n = Len(s) + (n - Len(s))
      BY <1>4, <2>2
    <3>2. QED BY <1>4, <3>1
  <2>3. QED BY <2>1, <2>2
<1>6. ASSUME NEW a \in DOMAIN t, NEW b \in DOMAIN t, t[a].event_id = t[b].event_id
      PROVE  a = b
  <2>1. CASE a \in DOMAIN s /\ t[a] = s[a] /\ b \in DOMAIN s /\ t[b] = s[b]
    BY <1>6, <2>1 DEF Distinct
  <2>2. CASE (\E i \in DOMAIN u : a = Len(s) + i /\ t[a] = u[i])
               /\ (\E i \in DOMAIN u : b = Len(s) + i /\ t[b] = u[i])
    BY <1>6, <2>2 DEF Distinct
  <2>3. CASE a \in DOMAIN s /\ t[a] = s[a] /\ \E i \in DOMAIN u : b = Len(s) + i /\ t[b] = u[i]
    BY <1>6, <2>3
  <2>4. CASE b \in DOMAIN s /\ t[b] = s[b] /\ \E i \in DOMAIN u : a = Len(s) + i /\ t[a] = u[i]
    BY <1>6, <2>4
  <2>5. QED BY <1>5, <2>1, <2>2, <2>3, <2>4
<1>7. QED BY <1>3, <1>6 DEF Distinct

\* A record of a new id repeats none.
LEMMA DistinctAppend ==
  ASSUME NEW s, SequenceOf(s), Distinct(s), NEW e,
         \A a \in DOMAIN s : s[a].event_id # e.event_id
  PROVE  Distinct(Append(s, e))
<1>1. PICK S : S = Range(s) \union {e}
  OBVIOUS
<1>2. s \in Seq(S) /\ e \in S
  BY <1>1 DEF SequenceOf
<1>3. PICK t : t = Append(s, e)
  OBVIOUS
<1>4. /\ Len(s) \in Nat /\ DOMAIN s = 1 .. Len(s) /\ DOMAIN t = 1 .. Len(s) + 1
      /\ t[Len(s) + 1] = e /\ \A n \in 1 .. Len(s) : t[n] = s[n]
  BY <1>2, <1>3
<1>5. \A n \in DOMAIN t : \/ n \in DOMAIN s /\ t[n] = s[n]
                          \/ n = Len(s) + 1 /\ t[n] = e
  BY <1>4
<1>6. QED BY <1>3, <1>5 DEF Distinct

\* A set of numbers from 1 on that has every number below one of its own is a run
\* from 1, as long as the set has members.
LEMMA InitialRun ==
  ASSUME NEW l \in Nat, NEW F, F \subseteq 1 .. l, \A n \in F : 1 .. n \subseteq F
  PROVE  F = 1 .. Cardinality(F) /\ Cardinality(F) \in Nat
<1> DEFINE T == {n \in Nat : n + 1 \notin F}
<1>1. l \in T
  OBVIOUS
<1>2. PICK k \in T : \A y \in T : k <= y
  BY <1>1, LeastNumber
<1>3. k \in Nat /\ k + 1 \notin F
  OBVIOUS
<1>4. ASSUME NEW n \in 1 .. k
      PROVE  n \in F
  <2>1. n - 1 \in Nat /\ ~(k <= n - 1) /\ (n - 1) + 1 = n
    BY <1>3
  <2>2. n - 1 \notin T
    BY <1>2, <2>1
  <2>3. QED BY <2>1, <2>2
<1>5. ASSUME NEW n \in F
      PROVE  n \in 1 .. k
  <2>1. n \in Nat /\ n >= 1
    OBVIOUS
  <2>2. n > k => k + 1 \in 1 .. n
    BY <1>3, <2>1
  <2>3. QED BY <1>3, <2>1, <2>2
<1> HIDE DEF T
<1>6. F = 1 .. k
  BY <1>4, <1>5
<1>7. Cardinality(1 .. k) = k
  BY <1>3, FS_Interval
<1>8. QED BY <1>3, <1>6, <1>7

\* A record handed over one by one is one the log did not have.
LEMMA OneIsNew ==
  ASSUME Holdings, NoRepeats, NEW e, Contract!Append_once(e)
  PROVE  NoRepeats'
<1>1. PICK t \in Tenants : t = e.tenant_id
  BY DEF Contract!Append_once, Contract!attributable
<1>2. PICK log : log = partitions[t]
  OBVIOUS
<1>3. /\ partitions' = [partitions EXCEPT ![t] = Append(log, e)]
      /\ e.event_id \notin {o.event_id : o \in Range(log)}
  BY <1>1, <1>2 DEF Contract!Append_once, Contract!ids_of, Contract!Range, Range
<1>4. SequenceOf(log) /\ Distinct(log) /\ DOMAIN partitions = Tenants
  BY <1>2 DEF Holdings, NoRepeats
<1>5. \A a \in DOMAIN log : log[a].event_id # e.event_id
  BY <1>3 DEF Range
<1>6. Distinct(Append(log, e))
  BY <1>4, <1>5, DistinctAppend
<1>7. /\ partitions'[t] = Append(log, e)
      /\ \A s \in Tenants \ {t} : partitions'[s] = partitions[s]
  BY <1>3, <1>4
<1>8. QED BY <1>6, <1>7 DEF NoRepeats

\* A record is filed when the log does not hold it.
LEMMA NextNoRepeats ==
  ASSUME LedgerInv, NoRepeats, [LedgerNext]_ledger_vars
  PROVE  NoRepeats'
<1>0. TypeOK /\ OwnRecords /\ Holdings
  BY DEF LedgerInv, StoryInv, TrailInv, LockInv
<1>1. CASE UNCHANGED partitions
  BY <1>1 DEF NoRepeats
<1>2. ASSUME NEW j \in Jobs, FileAll(j)
      PROVE  NoRepeats'
  <2>1. PICK fresh, m, u, t, log :
          /\ fresh = {n \in DOMAIN events[j] : \A i \in 1 .. n : i \notin held_of(j)}
          /\ m = Cardinality(fresh) /\ u = [n \in 1 .. m |-> filed(j, n)] /\ t = tenant(j)
          /\ log = partitions[t]
    OBVIOUS
  <2>2. constructed(j) /\ partitions' = [partitions EXCEPT ![t] = log \o u]
    BY <1>2, <2>1 DEF FileAll
  <2>3. Len(events[j]) \in Nat /\ DOMAIN events[j] = 1 .. Len(events[j])
    BY <1>0 DEF TypeOK
  <2>4. fresh \subseteq 1 .. Len(events[j])
    BY <2>1, <2>3
  <2>5. ASSUME NEW n \in fresh
        PROVE  1 .. n \subseteq fresh
    <3>1. n \in 1 .. Len(events[j]) /\ \A i \in 1 .. n : i \notin held_of(j)
      BY <2>1, <2>3
    <3>2. \A k \in 1 .. n : k \in 1 .. Len(events[j]) /\ 1 .. k \subseteq 1 .. n
      BY <2>3, <3>1
    <3>3. QED BY <2>1, <2>3, <3>1, <3>2
  <2>6. m \in Nat /\ fresh = 1 .. m
    BY <2>1, <2>3, <2>4, <2>5, InitialRun
  <2>7. ASSUME NEW n \in 1 .. m
        PROVE  n \in DOMAIN events[j] /\ n \notin held_of(j) /\ u[n].event_id = <<j, n>>
    <3>1. n \in DOMAIN events[j] /\ n \in 1 .. n /\ n \in fresh
      BY <2>1, <2>6
    <3>2. n \notin held_of(j)
      BY <2>1, <3>1
    <3>3. u[n] = filed(j, n)
      BY <2>1
    <3>4. QED BY <1>0, <3>1, <3>2, <3>3, FiledFields
  <2>8. t \in Tenants
    BY <1>0, <2>1, <2>2 DEF TypeOK, constructed, Identity, tenant
  <2>9. DOMAIN u = 1 .. m /\ u = [n \in 1 .. m |-> u[n]]
    BY <2>1
  <2>10. SequenceOf(log) /\ Distinct(log) /\ DOMAIN partitions = Tenants
    BY <1>0, <2>1, <2>8 DEF Holdings, NoRepeats
  <2>11. Distinct(u)
    <3>1. ASSUME NEW a \in 1 .. m, NEW b \in 1 .. m, u[a].event_id = u[b].event_id
          PROVE  a = b
      BY <2>7, <3>1
    <3>2. QED BY <2>9, <3>1 DEF Distinct
  <2>12. \A a \in DOMAIN log : \A b \in DOMAIN u : log[a].event_id # u[b].event_id
    <3>1. ASSUME NEW a \in DOMAIN log, NEW b \in 1 .. m, log[a].event_id = <<j, b>>
          PROVE  FALSE
      <4>1. <<j, b>> \in {o.event_id : o \in Range(log)}
        BY <3>1 DEF Range
      <4>2. b \in held_of(j)
        BY <2>1, <2>7, <4>1 DEF held_of, Contract!ids_of, Contract!Range, Range
      <4>3. QED BY <2>7, <4>2
    <3>2. QED BY <2>7, <2>9, <3>1
  <2>13. Distinct(log \o u)
    BY <2>6, <2>9, <2>10, <2>11, <2>12, DistinctGrows
  <2>14. /\ partitions'[t] = log \o u
         /\ \A s \in Tenants \ {t} : partitions'[s] = partitions[s]
    BY <2>2, <2>8, <2>10
  <2>15. QED BY <2>13, <2>14 DEF NoRepeats
<1>3. ASSUME NEW j \in Jobs, NEW n \in DOMAIN events[j], Forward(j, n)
      PROVE  NoRepeats'
  BY <1>0, <1>3, OneIsNew DEF Forward
<1>4. ASSUME NEW payload \in Payloads, NEW answer \in Answers, Outside(payload, answer)
      PROVE  NoRepeats'
  BY <1>0, <1>4, OneIsNew DEF Outside
<1>5. QED
  BY <1>1, <1>2, <1>3, <1>4 DEF LedgerNext, ledger_vars

\* Records that differ still differ when some are picked out.
LEMMA KeptDistinct ==
  ASSUME NEW s, SequenceOf(s), Distinct(s), NEW P
  PROVE  Distinct(kept(s, P))
<1> DEFINE m == Len(s)
<1>1. m \in Nat /\ DOMAIN s = 1 .. m
  BY DEF SequenceOf
<1> HIDE DEF m
<1>2. PICK u : Picks(u, s, P, m) /\ kept(s, P) = u[m]
  BY <1>1, KeptPicks DEF m
<1>3. /\ u[0] = <<>>
      /\ \A n \in 1 .. m : u[n] = IF n \in P THEN Append(u[n - 1], s[n]) ELSE u[n - 1]
  <2>1. 0 \in 0 .. m /\ \A n \in 1 .. m : n \in 0 .. m /\ n # 0
    BY <1>1
  <2>2. QED BY <1>2, <2>1 DEF Picks
<1> DEFINE upto(n) == /\ SequenceOf(u[n]) /\ Distinct(u[n])
                      /\ \A a \in DOMAIN u[n] : \E i \in 1 .. n : u[n][a] = s[i]
           T == {n \in Nat : n <= m => upto(n)}
<1>4. 0 \in T
  <2>1. SequenceOf(<<>>) /\ DOMAIN <<>> = {}
    BY DEF SequenceOf, Range
  <2>2. upto(0)
    BY <1>3, <2>1 DEF Distinct
  <2>3. QED BY <2>2
<1>5. ASSUME NEW n \in Nat, n >= 0, n \in T
      PROVE  n + 1 \in T
  <2> SUFFICES ASSUME n + 1 <= m PROVE upto(n + 1)
    OBVIOUS
  <2>1. n + 1 \in 1 .. m /\ (n + 1) - 1 = n /\ n <= m /\ n + 1 \in 1 .. n + 1
        /\ (\A i \in 1 .. n : i \in 1 .. n + 1 /\ i \in 1 .. m /\ i # n + 1)
    BY <1>1
  <2>2. upto(n)
    BY <1>5, <2>1
  <2>3. PICK old, grown, e : old = u[n] /\ grown = u[n + 1] /\ e = s[n + 1]
    OBVIOUS
  <2>4. grown = IF n + 1 \in P THEN Append(old, e) ELSE old
    BY <1>3, <2>1, <2>3
  <2>5. /\ SequenceOf(old) /\ Distinct(old)
        /\ \A a \in DOMAIN old : \E i \in 1 .. n : old[a] = s[i]
    BY <2>2, <2>3
  <2>6. \A i \in 1 .. n : s[i].event_id # e.event_id
    BY <1>1, <2>1, <2>3 DEF Distinct
  <2>7. CASE n + 1 \in P
    <3>1. \A a \in DOMAIN old : old[a].event_id # e.event_id
      BY <2>5, <2>6
    <3>2. SequenceOf(grown) /\ Distinct(grown) /\ Range(grown) = Range(old) \union {e}
      BY <2>4, <2>5, <2>7, <3>1, DistinctAppend, GrownByOne
    <3>3. ASSUME NEW a \in DOMAIN grown
          PROVE  \E i \in 1 .. n + 1 : grown[a] = s[i]
      <4>1. grown[a] \in Range(old) \union {e}
        BY <3>2 DEF Range
      <4>2. QED BY <2>1, <2>3, <2>5, <4>1 DEF Range
    <3>4. QED BY <2>3, <3>2, <3>3
  <2>8. CASE n + 1 \notin P
    BY <2>1, <2>3, <2>4, <2>5, <2>8
  <2>9. QED BY <2>7, <2>8
<1> HIDE DEF T, upto
<1>6. m \in T
  BY <1>1, <1>4, <1>5, Counting
<1>7. upto(m)
  BY <1>1, <1>6 DEF T
<1>8. QED BY <1>2, <1>7 DEF upto

-----------------------------------------------------------------------------
(* A settled reading is true.                                              *)

\* Records of a trail, each at most once and in any order.
Rearranged(story, trail, pos) ==
  /\ story \in Seq(Event) /\ pos \in Injection(1 .. Len(story), DOMAIN trail)
  /\ \A n \in 1 .. Len(story) : story[n] = trail[pos[n]]

\* What the log holds of a job are records of its trail as they were filed, each
\* at most once.
LEMMA OwnIsRearranged ==
  ASSUME LedgerInv, NoRepeats, NEW j \in Jobs, constructed(j)
  PROVE  \E story, pos : Rearranged(story, events[j], pos) /\ FiledFrom(own(j), story)
<1>1. PICK o, trail : o = own(j) /\ trail = events[j]
  OBVIOUS
<1>2. TypeOK /\ OwnRecords /\ trail \in Seq(Event)
  BY <1>1 DEF LedgerInv, StoryInv, TrailInv, LockInv, TypeOK
<1>3. PICK F : F = {filed(j, m) : m \in DOMAIN trail}
  OBVIOUS
<1>4. /\ o \in Seq(F) /\ \A m \in DOMAIN trail : filed(j, m).event_id = <<j, m>>
      /\ tenant(j) \in Tenants /\ SequenceOf(partitions[tenant(j)])
  BY <1>1, <1>3, OwnIsFiled
<1>5. Distinct(o)
  <2>1. PICK log, P : /\ log = partitions[tenant(j)]
                      /\ P = {n \in DOMAIN log : is_ours(log[n]) /\ log[n].event_id[1] = j}
    OBVIOUS
  <2>2. SequenceOf(log) /\ Distinct(log)
    BY <1>4, <2>1 DEF NoRepeats
  <2>3. o = kept(log, P)
    BY <1>1, <2>1 DEF own
  <2>4. QED BY <2>2, <2>3, KeptDistinct
<1>6. PICK l : l = Len(o) /\ l \in Nat /\ DOMAIN o = 1 .. l
  BY <1>4
<1>7. PICK pos : pos = [n \in 1 .. l |-> o[n].event_id[2]]
  OBVIOUS
<1>8. ASSUME NEW n \in 1 .. l
      PROVE  /\ pos[n] \in DOMAIN trail /\ o[n] = filed(j, pos[n])
             /\ o[n].event_id = <<j, pos[n]>>
  <2>1. o[n] \in F
    BY <1>4, <1>6
  <2>2. PICK m \in DOMAIN trail : o[n] = filed(j, m)
    BY <1>3, <2>1
  <2>3. o[n].event_id = <<j, m>>
    BY <1>4, <2>2
  <2>4. pos[n] = m
    BY <1>7, <2>3
  <2>5. QED BY <2>2, <2>3, <2>4
<1>9. PICK story : story = [n \in 1 .. l |-> trail[pos[n]]]
  OBVIOUS
<1>10. story \in Seq(Event) /\ Len(story) = l /\ DOMAIN story = 1 .. l
  <2>1. \A n \in 1 .. l : trail[pos[n]] \in Event
    BY <1>2, <1>8
  <2>2. QED BY <1>6, <1>9, <2>1
<1>11. pos \in Injection(1 .. l, DOMAIN trail)
  <2>1. pos \in [1 .. l -> DOMAIN trail]
    BY <1>7, <1>8
  <2>2. ASSUME NEW a \in 1 .. l, NEW b \in 1 .. l, pos[a] = pos[b]
        PROVE  a = b
    <3>1. o[a].event_id = o[b].event_id
      BY <1>8, <2>2
    <3>2. QED BY <1>5, <1>6, <3>1 DEF Distinct
  <2>3. QED BY <2>1, <2>2 DEF Injection, IsInjective
<1>12. Rearranged(story, trail, pos)
  BY <1>9, <1>10, <1>11 DEF Rearranged
<1>13. FiledFrom(o, story)
  <2>1. SequenceOf(o)
    <3>1. \A n \in 1 .. l : o[n] \in Range(o)
      BY <1>6 DEF Range
    <3>2. o = [n \in 1 .. l |-> o[n]]
      BY <1>4, <1>6
    <3>3. QED BY <1>6, <3>1, <3>2 DEF SequenceOf
  <2>2. ASSUME NEW n \in 1 .. l
        PROVE  AsFiled(o[n], story[n])
    <3>1. story[n] = trail[pos[n]] /\ o[n] = filed(j, pos[n]) /\ pos[n] \in DOMAIN trail
      BY <1>8, <1>9
    <3>2. Carries(filed(j, pos[n]), trail[pos[n]])
      BY <1>1, <1>2, <3>1, FiledFields
    <3>3. trail[pos[n]].kind = "JOB_SETTLED" => filed(j, pos[n]) # NONE
      BY <1>1, <1>2, <3>1, ClosingIsARecord
    <3>4. QED BY <3>1, <3>2, <3>3 DEF AsFiled
  <2>3. QED BY <1>6, <1>10, <2>1, <2>2 DEF FiledFrom
<1>14. QED BY <1>1, <1>12, <1>13

\* Every number up to l, each of them once.
Reorders(pos, l) ==
  /\ \A m \in 1 .. l : \E n \in 1 .. l : pos[n] = m
  /\ \A n \in 1 .. l : pos[n] \in 1 .. l
  /\ \A a, b \in 1 .. l : pos[a] = pos[b] => a = b

\* As many of them as the trail has are the whole trail.
LEMMA AllOfThem ==
  ASSUME NEW trail \in Seq(Event), NEW story, NEW pos, Rearranged(story, trail, pos),
         Len(story) = Len(trail)
  PROVE  Reorders(pos, Len(trail))
<1>1. PICK l : l = Len(trail) /\ l \in Nat /\ DOMAIN trail = 1 .. l /\ l = Len(story)
  OBVIOUS
<1>2. pos \in Injection(1 .. l, 1 .. l)
  BY <1>1 DEF Rearranged
<1>3. IsFiniteSet(1 .. l)
  BY <1>1, FS_Interval
<1>4. pos \in Surjection(1 .. l, 1 .. l)
  BY <1>2, <1>3, FS_Injection
<1>5. \A m \in 1 .. l : \E n \in 1 .. l : pos[n] = m
  BY <1>4 DEF Surjection
<1>6. /\ pos \in [1 .. l -> 1 .. l]
      /\ \A a, b \in 1 .. l : pos[a] = pos[b] => a = b
  BY <1>2 DEF Injection, IsInjective
<1>7. QED BY <1>1, <1>5, <1>6 DEF Reorders

\* The moves of a whole trail, in any order, are as many.
LEMMA AsManyMoves ==
  ASSUME NEW trail \in Seq(Event), NEW story, NEW pos, Rearranged(story, trail, pos),
         Len(story) = Len(trail)
  PROVE  Cardinality(MovesIn(story, Len(story))) = Cardinality(MovesIn(trail, Len(trail)))
<1>1. PICK l, V, W : /\ l = Len(trail) /\ l \in Nat /\ DOMAIN trail = 1 .. l /\ l = Len(story)
                     /\ V = MovesIn(story, l) /\ W = MovesIn(trail, l)
  OBVIOUS
<1>2. /\ \A m \in 1 .. l : \E n \in 1 .. l : pos[n] = m
      /\ \A n \in 1 .. l : pos[n] \in 1 .. l
      /\ \A a, b \in 1 .. l : pos[a] = pos[b] => a = b
  <2>1. Reorders(pos, Len(trail))
    BY AllOfThem
  <2>2. QED BY <1>1, <2>1 DEF Reorders
<1>3. \A n \in 1 .. l : story[n] = trail[pos[n]]
  BY <1>1 DEF Rearranged
<1>4. PICK f : f = [k \in V |-> pos[k]]
  OBVIOUS
<1>5. \A k \in V : k \in 1 .. l /\ pos[k] \in W
  BY <1>1, <1>2, <1>3 DEF MovesIn
<1>6. ASSUME NEW m \in W
      PROVE  \E k \in V : pos[k] = m
  <2>1. m \in 1 .. l /\ trail[m].kind = "STATE_TRANSITION"
    BY <1>1 DEF MovesIn
  <2>2. PICK k \in 1 .. l : pos[k] = m
    BY <1>2, <2>1
  <2>3. k \in V
    BY <1>1, <1>3, <2>1, <2>2 DEF MovesIn
  <2>4. QED BY <2>2, <2>3
<1>7. f \in [V -> W]
  BY <1>4, <1>5
<1>8. \A a, b \in V : f[a] = f[b] => a = b
  BY <1>2, <1>4, <1>5
<1>9. \A m \in W : \E k \in V : f[k] = m
  BY <1>4, <1>6
<1>10. f \in Bijection(V, W)
  BY <1>7, <1>8, <1>9 DEF Bijection, Injection, Surjection, IsInjective
<1>11. ExistsBijection(V, W)
  BY <1>10 DEF ExistsBijection
<1>12. IsFiniteSet(V)
  BY <1>1, OneMoreIn
<1>13. QED BY <1>1, <1>11, <1>12, FS_Bijection

\* The moves of a job's trail are the entries of its history.
LEMMA MovesAreEntries ==
  ASSUME StoryInv, NEW j \in Jobs
  PROVE  LET h == history[j]
             trail == events[j]
             moved == MovesIn(trail, Len(trail))
         IN /\ \A i \in DOMAIN h : /\ h[i].event \in moved
                                   /\ trail[h[i].event].from = h[i].from
                                   /\ trail[h[i].event].to = h[i].to
            /\ \A k \in moved : \E i \in DOMAIN h : k = h[i].event
            /\ moved = recorded(j, "STATE_TRANSITION")
            /\ VerdictsIn(trail, Len(trail)) = recorded(j, "GOVERNANCE_DECISION")
<1>1. PICK h, trail, moved :
        h = history[j] /\ trail = events[j] /\ moved = MovesIn(trail, Len(trail))
  OBVIOUS
<1>2. Story(trail, h)
  BY <1>1, EveryTrailIsAStory
<1>3. DOMAIN trail = 1 .. Len(trail) /\ Len(trail) \in Nat
  BY <1>2 DEF Story
<1>4. \A i \in DOMAIN h : /\ h[i].event \in DOMAIN trail
                          /\ trail[h[i].event].kind = "STATE_TRANSITION"
                          /\ trail[h[i].event].from = h[i].from
                          /\ trail[h[i].event].to = h[i].to
                          /\ h[i].decision_id # NONE =>
                               trail[h[i].event - 1].kind = "GOVERNANCE_DECISION"
  BY <1>2 DEF Story, Entered
<1>5. ASSUME NEW k \in DOMAIN trail, trail[k].kind = "STATE_TRANSITION"
      PROVE  \E i \in DOMAIN h : k = h[i].event
  <2>1. k # 1
    <3>1. trail # <<>>
      BY <1>3
    <3>2. QED BY <1>2, <1>5, <3>1 DEF Story
  <2>2. \/ \E i \in DOMAIN h : k = h[i].event
        \/ \E i \in DOMAIN h : k = h[i].event - 1 /\ h[i].decision_id # NONE
        \/ trail[k].kind \in {"JOB_COMPLETED", "JOB_SETTLED"}
    BY <1>2, <2>1 DEF Story
  <2>3. QED BY <1>4, <1>5, <2>2
<1>6. /\ moved = {k \in DOMAIN trail : trail[k].kind = "STATE_TRANSITION"}
      /\ VerdictsIn(trail, Len(trail)) = {k \in DOMAIN trail : trail[k].kind = "GOVERNANCE_DECISION"}
  BY <1>1, <1>3 DEF MovesIn, VerdictsIn
<1>7. /\ moved = recorded(j, "STATE_TRANSITION")
      /\ VerdictsIn(trail, Len(trail)) = recorded(j, "GOVERNANCE_DECISION")
  BY <1>1, <1>6 DEF recorded
<1>8. /\ \A i \in DOMAIN h : /\ h[i].event \in moved
                             /\ trail[h[i].event].from = h[i].from
                             /\ trail[h[i].event].to = h[i].to
      /\ \A k \in moved : \E i \in DOMAIN h : k = h[i].event
  BY <1>4, <1>5, <1>6
<1>9. QED BY <1>1, <1>7, <1>8

\* A job that holds an approval has the move that granted it on its trail.
LEMMA ApprovalIsOnTrail ==
  ASSUME StoryInv, VerdictInv, NEW j \in Jobs, approval[j] # NONE
  PROVE  \E k \in MovesIn(events[j], Len(events[j])) : Approves(events[j][k])
<1>1. PICK h, trail, moved :
        h = history[j] /\ trail = events[j] /\ moved = MovesIn(trail, Len(trail))
  OBVIOUS
<1>2. /\ \A i \in DOMAIN h : /\ h[i].event \in moved
                             /\ trail[h[i].event].from = h[i].from
                             /\ trail[h[i].event].to = h[i].to
      /\ moved = recorded(j, "STATE_TRANSITION")
  BY <1>1, MovesAreEntries
<1>3. Story(trail, h)
  BY <1>1, EveryTrailIsAStory
<1>4. approval[j] \in Judged(j) /\ approval[j].decision = "APPROVE"
  BY DEF VerdictInv, VerdictsHeld
<1>5. PICK k \in DOMAIN trail : trail[k].kind = "GOVERNANCE_DECISION" /\ trail[k].approval = approval[j]
  BY <1>1, <1>4 DEF Judged, recorded
<1>6. PICK i \in DOMAIN h : k = h[i].event - 1 /\ h[i].decision_id # NONE
  <2>1. trail \in Seq(Event) /\ trail # <<>>
    BY <1>3 DEF Story
  <2>2. k # 1
    BY <1>3, <1>5, <2>1 DEF Story
  <2>3. \A n \in DOMAIN h : trail[h[n].event].kind = "STATE_TRANSITION"
    BY <1>3 DEF Story, Entered
  <2>4. QED BY <1>3, <1>5, <2>2, <2>3 DEF Story
<1>7. trail[k].approval.decision = decision_for_edge(h[i].from, h[i].to)
  BY <1>1, <1>6 DEF StoryInv, ExplainInv, TrailExplainsState
<1>8. h[i].from \in JobState /\ h[i].to \in JobState
  <2>1. h \in Seq(TransitionRecord)
    BY <1>3 DEF Story
  <2>2. h[i] \in TransitionRecord
    BY <1>6, <2>1
  <2>3. QED BY <2>2 DEF TransitionRecord
<1>9. h[i].from = "GOVERNANCE_ANALYSIS" /\ h[i].to = "APPROVED"
  BY <1>4, <1>5, <1>7, <1>8, VerdictEdges
<1>10. Approves(trail[h[i].event]) /\ h[i].event \in moved
  BY <1>2, <1>6, <1>9 DEF Approves
<1>11. QED BY <1>1, <1>10

\* What a reader who is told of a settled job read: every record of its trail,
\* each once.
ReadInFull(j, r, story, pos, last) ==
  /\ Rearranged(story, events[j], pos) /\ Len(story) = Len(events[j])
  /\ Knows(last, story, Len(story)) /\ last.state \in TERMINAL
  /\ r.state = last.state /\ r.approval = last.approval /\ r.history = last.history
  /\ r.decision_ids = last.decision_ids /\ r.completed = (last.state = "COMPLETED")
  /\ r.settled_as = state[j] /\ state[j] \in TERMINAL

\* A job that reads as settled was read in full.
LEMMA SettledIsReadInFull ==
  ASSUME LedgerInv, NoRepeats, NEW j \in Jobs, constructed(j), Named(j),
         NEW r, r = replay_job(read(tenant(j), ident[j].job_id)),
         r.refused = NONE, r.settled_as # NONE
  PROVE  \E story, pos, last : ReadInFull(j, r, story, pos, last)
<1>1. PICK o, trail, all :
        /\ o = own(j) /\ trail = events[j] /\ all = read(tenant(j), ident[j].job_id)
  OBVIOUS
<1>2. trail \in Seq(Event) /\ TrailClosed
  BY <1>1 DEF LedgerInv, StoryInv, TrailInv, LockInv, TypeOK
<1>3. ours(all) = o
  BY <1>1, ReadIsOwn
<1>4. PICK story, pos : Rearranged(story, trail, pos) /\ FiledFrom(o, story)
  BY <1>1, OwnIsRearranged
<1>5. PICK l : /\ l = Len(story) /\ l \in Nat /\ DOMAIN story = 1 .. l
               /\ story \in Seq(Event) /\ Len(o) = l
  BY <1>4 DEF Rearranged, FiledFrom
<1>6. o # <<>> /\ o[1].kind = "JOB_CREATED"
  <2>1. PICK final, why : final = readings(o)[Len(o)] /\ why = closing_refusal(final, Len(o))
    OBVIOUS
  <2>2. r = IF o = <<>> THEN refusal("EmptyTrail")
            ELSE IF o[1].kind # "JOB_CREATED" THEN refusal("UnstartedTrail")
            ELSE IF final.refused # NONE THEN final
            ELSE IF why = NONE THEN replayed(final) ELSE refusal(why)
    BY <1>1, <1>3, <2>1 DEF replay_job
  <2>3. "EmptyTrail" # NONE /\ "UnstartedTrail" # NONE
    BY ReplayAssumption DEF ReplayError
  <2>4. \A error : refusal(error).refused = error
    BY DEF refusal
  <2>5. QED BY <2>2, <2>3, <2>4
<1>7. story # <<>> /\ story[1].kind = "JOB_CREATED"
  <2>1. o \in Seq(Range(o))
    BY <1>4 DEF FiledFrom, SequenceOf
  <2>2. l # 0
    BY <1>5, <1>6, <2>1
  <2>3. 1 \in DOMAIN story /\ story # <<>>
    BY <1>5, <2>2
  <2>4. AsFiled(o[1], story[1])
    BY <1>4, <2>3 DEF FiledFrom
  <2>5. "kind" \in DOMAIN story[1]
    <3>1. story[1] \in Event
      BY <1>5, <2>3
    <3>2. QED BY <3>1 DEF Event
  <2>6. o[1].kind = story[1].kind
    BY <2>4, <2>5 DEF AsFiled, Carries
  <2>7. QED BY <1>6, <2>3, <2>6
<1>8. replay_job(story) = r /\ ~Refused(story)
  <2>1. /\ replay_job(all).refused = replay_job(story).refused
        /\ replay_job(story).refused = NONE => replay_job(all) = replay_job(story)
    BY <1>3, <1>4, <1>5, <1>7, SameReplay
  <2>2. QED BY <1>1, <2>1 DEF Refused
<1>9. PICK last : last = end(story)
  OBVIOUS
<1>10. last.refused = NONE /\ closing_refusal(last, l) = NONE
  BY <1>5, <1>8, <1>9, OnlyIfBelieved
<1>11. r = replayed(last)
  <2>1. ours(story) = story
    BY <1>5, AllOurs
  <2>2. PICK why : why = closing_refusal(last, l)
    OBVIOUS
  <2>3. replay_job(story) =
          IF story = <<>> THEN refusal("EmptyTrail")
          ELSE IF story[1].kind # "JOB_CREATED" THEN refusal("UnstartedTrail")
          ELSE IF last.refused # NONE THEN last
          ELSE IF why = NONE THEN replayed(last) ELSE refusal(why)
    BY <1>5, <1>9, <2>1, <2>2 DEF replay_job, end
  <2>4. QED BY <1>7, <1>8, <1>10, <2>2, <2>3
<1>12. PICK closing : closing = last.closing
  OBVIOUS
<1>13. /\ r.state = last.state /\ r.approval = last.approval /\ r.history = last.history
       /\ r.decision_ids = last.decision_ids /\ r.completed = last.completed
       /\ r.settled_as = IF closing = NONE THEN NONE ELSE closing.settled_as
  BY <1>11, <1>12 DEF replayed
<1>14. closing # NONE
  BY <1>13
<1>15. closing \in ClosingRecords(story, l)
  <2>1. ToldThroughout(story)
    BY <1>5, <1>7, <1>9, <1>10, BelievedThroughout
  <2>2. IF ClosingRecords(story, l) = {} THEN closing = NONE
        ELSE closing \in ClosingRecords(story, l)
    BY <1>5, <1>7, <1>9, <1>12, <2>1, ClosingIsRecorded
  <2>3. QED BY <1>14, <2>2
<1>16. PICK k \in 1 .. l : closing = story[k] /\ story[k].kind = "JOB_SETTLED"
  BY <1>15 DEF ClosingRecords
<1>17. closing = trail[pos[k]] /\ pos[k] \in DOMAIN trail
  BY <1>4, <1>5, <1>16 DEF Rearranged, Injection
<1>18. pos[k] \in recorded(j, "JOB_SETTLED")
  BY <1>1, <1>16, <1>17 DEF recorded
<1>19. /\ state[j] \in TERMINAL /\ closing.settled_as = state[j]
       /\ closing.event_count = Len(trail)
  <2>1. /\ recorded(j, "JOB_SETTLED") = IF state[j] \in TERMINAL THEN {Len(trail)} ELSE {}
        /\ state[j] \in TERMINAL => /\ trail[Len(trail)].settled_as = state[j]
                                    /\ trail[Len(trail)].event_count = Len(trail)
    BY <1>1, <1>2 DEF TrailClosed
  <2>2. state[j] \in TERMINAL /\ pos[k] = Len(trail)
    BY <1>18, <2>1
  <2>3. QED BY <1>17, <2>1, <2>2
<1>20. /\ last.completed = (last.state = "COMPLETED") /\ last.state \in TERMINAL
       /\ closing.event_count = l
  <2>1. /\ "IncompleteSettlement" # NONE /\ "PrematureSettlement" # NONE
        /\ "MiscountedTrail" # NONE
    BY ReplayAssumption DEF ReplayError
  <2>2. QED BY <1>10, <1>12, <1>14, <2>1 DEF closing_refusal
<1>21. Knows(last, story, l)
  BY <1>5, <1>7, <1>9, <1>10, BelievedIsKnown
<1>22. Len(story) = Len(trail)
  BY <1>5, <1>19, <1>20
<1>23. ReadInFull(j, r, story, pos, last)
  BY <1>1, <1>4, <1>5, <1>13, <1>14, <1>19, <1>20, <1>21, <1>22 DEF ReadInFull
<1>24. QED BY <1>23

\* Every record of a trail was read, and nothing else.
LEMMA ReadRecords ==
  ASSUME NEW trail \in Seq(Event), NEW story, NEW pos, Rearranged(story, trail, pos),
         Len(story) = Len(trail)
  PROVE  LET l == Len(trail)
         IN /\ \A k \in MovesIn(story, l) : pos[k] \in MovesIn(trail, l) /\ story[k] = trail[pos[k]]
            /\ \A m \in MovesIn(trail, l) : \E k \in MovesIn(story, l) : story[k] = trail[m]
            /\ \A k \in VerdictsIn(story, l) : pos[k] \in VerdictsIn(trail, l) /\ story[k] = trail[pos[k]]
            /\ \A m \in VerdictsIn(trail, l) : \E k \in VerdictsIn(story, l) : story[k] = trail[m]
<1>1. PICK l : l = Len(trail) /\ l = Len(story)
  OBVIOUS
<1>2. /\ \A m \in 1 .. l : \E n \in 1 .. l : pos[n] = m
      /\ \A n \in 1 .. l : pos[n] \in 1 .. l
  <2>1. Reorders(pos, Len(trail))
    BY AllOfThem
  <2>2. QED BY <1>1, <2>1 DEF Reorders
<1>3. \A n \in 1 .. l : story[n] = trail[pos[n]]
  BY <1>1 DEF Rearranged
<1>4. /\ \A k \in MovesIn(story, l) : pos[k] \in MovesIn(trail, l) /\ story[k] = trail[pos[k]]
      /\ \A m \in MovesIn(trail, l) : \E k \in MovesIn(story, l) : story[k] = trail[m]
  <2>1. ASSUME NEW k \in MovesIn(story, l)
        PROVE  pos[k] \in MovesIn(trail, l) /\ story[k] = trail[pos[k]]
    <3>1. k \in 1 .. l /\ story[k].kind = "STATE_TRANSITION"
      BY <2>1 DEF MovesIn
    <3>2. pos[k] \in 1 .. l /\ story[k] = trail[pos[k]]
      BY <1>2, <1>3, <3>1
    <3>3. trail[pos[k]].kind = "STATE_TRANSITION"
      BY <3>1, <3>2
    <3>4. QED BY <3>2, <3>3 DEF MovesIn
  <2>2. ASSUME NEW m \in MovesIn(trail, l)
        PROVE  \E k \in MovesIn(story, l) : story[k] = trail[m]
    <3>1. m \in 1 .. l /\ trail[m].kind = "STATE_TRANSITION"
      BY <2>2 DEF MovesIn
    <3>2. PICK k \in 1 .. l : pos[k] = m
      BY <1>2, <3>1
    <3>3. story[k] = trail[m]
      BY <1>3, <3>2
    <3>4. k \in MovesIn(story, l)
      BY <3>1, <3>3 DEF MovesIn
    <3>5. QED BY <3>3, <3>4
  <2>3. QED BY <2>1, <2>2
<1>5. /\ \A k \in VerdictsIn(story, l) : pos[k] \in VerdictsIn(trail, l) /\ story[k] = trail[pos[k]]
      /\ \A m \in VerdictsIn(trail, l) : \E k \in VerdictsIn(story, l) : story[k] = trail[m]
  <2>1. ASSUME NEW k \in VerdictsIn(story, l)
        PROVE  pos[k] \in VerdictsIn(trail, l) /\ story[k] = trail[pos[k]]
    <3>1. k \in 1 .. l /\ story[k].kind = "GOVERNANCE_DECISION"
      BY <2>1 DEF VerdictsIn
    <3>2. pos[k] \in 1 .. l /\ story[k] = trail[pos[k]]
      BY <1>2, <1>3, <3>1
    <3>3. trail[pos[k]].kind = "GOVERNANCE_DECISION"
      BY <3>1, <3>2
    <3>4. QED BY <3>2, <3>3 DEF VerdictsIn
  <2>2. ASSUME NEW m \in VerdictsIn(trail, l)
        PROVE  \E k \in VerdictsIn(story, l) : story[k] = trail[m]
    <3>1. m \in 1 .. l /\ trail[m].kind = "GOVERNANCE_DECISION"
      BY <2>2 DEF VerdictsIn
    <3>2. PICK k \in 1 .. l : pos[k] = m
      BY <1>2, <3>1
    <3>3. story[k] = trail[m]
      BY <1>3, <3>2
    <3>4. k \in VerdictsIn(story, l)
      BY <3>1, <3>3 DEF VerdictsIn
    <3>5. QED BY <3>3, <3>4
  <2>3. QED BY <2>1, <2>2
<1>6. QED BY <1>1, <1>4, <1>5

\* So the reader arrives at the job as it settled.
LEMMA ReadInFullIsTrue ==
  ASSUME LedgerInv, VerdictInv, NEW j \in Jobs, NEW r, NEW story, NEW pos, NEW last,
         ReadInFull(j, r, story, pos, last)
  PROVE  /\ r.state = state[j] /\ r.settled_as = state[j]
         /\ r.approval = approval[j]
         /\ r.completed = (state[j] = "COMPLETED")
         /\ Range(r.decision_ids) = known_decisions(j)
         /\ Len(r.history) = Len(history[j])
         /\ {<<e.from, e.to>> : e \in Range(r.history)}
              = {<<e.from, e.to>> : e \in Range(history[j])}
<1>1. PICK trail, h, l, V, W, X, Y :
        /\ trail = events[j] /\ h = history[j] /\ l = Len(trail)
        /\ V = MovesIn(story, l) /\ W = MovesIn(trail, l)
        /\ X = VerdictsIn(story, l) /\ Y = VerdictsIn(trail, l)
  OBVIOUS
<1>2. StoryInv /\ TypeOK /\ trail \in Seq(Event) /\ h \in Seq(TransitionRecord)
  BY <1>1 DEF LedgerInv, StoryInv, TrailInv, LockInv, TypeOK
<1>3. /\ Rearranged(story, trail, pos) /\ Len(story) = l
      /\ KnowsVerdicts(last, story, l) /\ KnowsMoves(last, story, l)
      /\ KnowsWhetherApproved(last, story, l) /\ last.state \in TERMINAL
      /\ r.state = last.state /\ r.approval = last.approval /\ r.history = last.history
      /\ r.decision_ids = last.decision_ids /\ r.completed = (last.state = "COMPLETED")
      /\ r.settled_as = state[j]
  BY <1>1 DEF ReadInFull, Knows
<1>4. /\ \A k \in V : pos[k] \in W /\ story[k] = trail[pos[k]]
      /\ \A m \in W : \E k \in V : story[k] = trail[m]
      /\ \A k \in X : pos[k] \in Y /\ story[k] = trail[pos[k]]
      /\ \A m \in Y : \E k \in X : story[k] = trail[m]
  BY <1>1, <1>2, <1>3, ReadRecords
<1>5. /\ \A i \in DOMAIN h : /\ h[i].event \in W
                             /\ trail[h[i].event].from = h[i].from
                             /\ trail[h[i].event].to = h[i].to
      /\ \A k \in W : \E i \in DOMAIN h : k = h[i].event
      /\ W = recorded(j, "STATE_TRANSITION")
      /\ Y = recorded(j, "GOVERNANCE_DECISION")
  BY <1>1, <1>2, MovesAreEntries
<1>6. \A i \in DOMAIN h : h[i].from \notin TERMINAL
  <2> SUFFICES ASSUME NEW i \in DOMAIN h PROVE h[i].from \notin TERMINAL
    OBVIOUS
  <2>1. PICK k \in V : story[k] = trail[h[i].event]
    BY <1>4, <1>5
  <2>2. story[k].from \notin TERMINAL
    BY <1>1, <1>3 DEF KnowsMoves
  <2>3. QED BY <1>5, <2>1, <2>2
<1>7. last.state = state[j]
  <2>1. PICK k \in V : last.state = story[k].to
    BY <1>1, <1>3 DEF KnowsMoves, TERMINAL
  <2>2. PICK i \in DOMAIN h : pos[k] = h[i].event /\ last.state = h[i].to
    BY <1>4, <1>5, <2>1
  <2>3. Len(h) \in Nat /\ DOMAIN h = 1 .. Len(h)
    BY <1>2
  <2>4. i = Len(h)
    <3>1. SUFFICES ASSUME i # Len(h) PROVE FALSE
      OBVIOUS
    <3>2. i + 1 \in DOMAIN h /\ i + 1 # 1 /\ (i + 1) - 1 = i
      BY <2>2, <2>3, <3>1
    <3>3. h[i + 1].from = h[i].to
      <4>1. h[i + 1].from = IF i + 1 = 1 THEN "DRAFT" ELSE h[(i + 1) - 1].to
        BY <1>1, <1>2, <3>2 DEF StoryInv, ExplainInv, TrailExplainsState
      <4>2. QED BY <3>2, <4>1
    <3>4. QED BY <1>3, <1>6, <2>2, <3>2, <3>3
  <2>5. h # <<>> /\ Last(h) = h[Len(h)]
    BY <2>2 DEF Last
  <2>6. state[j] = IF h = <<>> THEN "DRAFT" ELSE Last(h).to
    BY <1>1, <1>2 DEF StoryInv, ExplainInv, TrailExplainsState
  <2>7. QED BY <2>2, <2>4, <2>5, <2>6
<1>8. last.approval = approval[j]
  <2>1. VerdictsHeld(j)
    BY DEF VerdictInv
  <2>2. last.approval # NONE => last.approval = approval[j]
    <3> SUFFICES ASSUME last.approval # NONE PROVE last.approval = approval[j]
      OBVIOUS
    <3>1. PICK k \in X : last.approval = story[k].approval
      BY <1>1, <1>3 DEF KnowsVerdicts
    <3>2. last.approval.decision = "APPROVE"
      BY <1>3 DEF KnowsVerdicts
    <3>3. pos[k] \in recorded(j, "GOVERNANCE_DECISION") /\ last.approval = events[j][pos[k]].approval
      BY <1>1, <1>4, <1>5, <3>1
    <3>4. last.approval \in Judged(j)
      BY <3>3 DEF Judged
    <3>5. QED BY <2>1, <3>2, <3>4 DEF VerdictsHeld
  <2>3. last.approval = NONE => approval[j] = NONE
    <3> SUFFICES ASSUME last.approval = NONE, approval[j] # NONE PROVE FALSE
      OBVIOUS
    <3>1. PICK m \in W : Approves(trail[m])
      BY <1>1, <1>2, ApprovalIsOnTrail
    <3>2. PICK k \in V : story[k] = trail[m]
      BY <1>4
    <3>3. ~Approves(story[k])
      BY <1>1, <1>3 DEF KnowsWhetherApproved
    <3>4. QED BY <3>1, <3>2, <3>3
  <2>4. QED BY <2>2, <2>3
<1>9. Range(last.decision_ids) = known_decisions(j)
  <2>1. Range(last.decision_ids) = {story[k].approval.decision_id : k \in X}
    BY <1>1, <1>3 DEF KnowsVerdicts
  <2>2. {story[k].approval.decision_id : k \in X} = {trail[m].approval.decision_id : m \in Y}
    <3>1. \A k \in X : \E m \in Y : story[k].approval.decision_id = trail[m].approval.decision_id
      BY <1>4
    <3>2. \A m \in Y : \E k \in X : story[k].approval.decision_id = trail[m].approval.decision_id
      BY <1>4
    <3>3. QED BY <3>1, <3>2
  <2>3. {trail[m].approval.decision_id : m \in Y} = {d.decision_id : d \in Judged(j)}
    BY <1>1, <1>5 DEF Judged
  <2>4. Judged(j) = Range(decisions[j])
    BY DEF VerdictInv, VerdictsHeld
  <2>5. QED BY <2>1, <2>2, <2>3, <2>4 DEF known_decisions
<1>10. Len(last.history) = Len(h)
  <2>1. Len(last.history) = Cardinality(V)
    BY <1>1, <1>3 DEF KnowsMoves
  <2>2. Cardinality(V) = Cardinality(W)
    <3>1. Cardinality(MovesIn(story, Len(story))) = Cardinality(MovesIn(trail, Len(trail)))
      BY <1>1, <1>2, <1>3, AsManyMoves
    <3>2. QED BY <1>1, <1>3, <3>1
  <2>3. Cardinality(W) = Len(h)
    BY <1>1, <1>2, <1>5 DEF StoryInv, ExplainInv, TrailExplainsState
  <2>4. QED BY <2>1, <2>2, <2>3
<1>11. {<<e.from, e.to>> : e \in Range(last.history)} = {<<e.from, e.to>> : e \in Range(h)}
  <2>1. {<<e.from, e.to>> : e \in Range(last.history)} = {<<story[k].from, story[k].to>> : k \in V}
    BY <1>1, <1>3 DEF KnowsMoves
  <2>2. ASSUME NEW k \in V
        PROVE  \E i \in DOMAIN h : story[k].from = h[i].from /\ story[k].to = h[i].to
    BY <1>4, <1>5
  <2>3. ASSUME NEW i \in DOMAIN h
        PROVE  \E k \in V : story[k].from = h[i].from /\ story[k].to = h[i].to
    BY <1>4, <1>5
  <2>4. {<<story[k].from, story[k].to>> : k \in V} = {<<h[i].from, h[i].to>> : i \in DOMAIN h}
    BY <2>2, <2>3
  <2>5. {<<h[i].from, h[i].to>> : i \in DOMAIN h} = {<<e.from, e.to>> : e \in Range(h)}
    BY DEF Range
  <2>6. QED BY <2>1, <2>4, <2>5
<1>12. QED BY <1>1, <1>3, <1>7, <1>8, <1>9, <1>10, <1>11

\* A settled reading is true, whichever records of a job were filed and in
\* whichever order: what replays as a settled job is a job that settled, so and
\* under that approval, with those moves and no others.
THEOREM SettledReadsTrue == LedgerSpec => []SettledReadingIsTrue
<1>1. LedgerInv /\ NoRepeats /\ VerdictInv => SettledReadingIsTrue
  <2> SUFFICES ASSUME LedgerInv, NoRepeats, VerdictInv, NEW j \in Jobs,
                      constructed(j), Named(j),
                      NEW r, r = replay_job(read(tenant(j), ident[j].job_id)),
                      r.refused = NONE, r.settled_as # NONE
               PROVE  /\ r.state = state[j] /\ r.settled_as = state[j]
                      /\ r.approval = approval[j]
                      /\ r.completed = (state[j] = "COMPLETED")
                      /\ Range(r.decision_ids) = known_decisions(j)
                      /\ Len(r.history) = Len(history[j])
                      /\ {<<e.from, e.to>> : e \in Range(r.history)}
                           = {<<e.from, e.to>> : e \in Range(history[j])}
    BY DEF SettledReadingIsTrue
  <2>1. PICK story, pos, last : ReadInFull(j, r, story, pos, last)
    BY SettledIsReadInFull
  <2>2. QED BY <2>1, ReadInFullIsTrue
<1>2. LedgerSpec => []NoRepeats
  <2>1. LedgerInit => NoRepeats
    BY DEF LedgerInit, NoRepeats, Distinct
  <2>2. QED BY <2>1, NextNoRepeats, LedgerInvariant, PTL DEF LedgerSpec
<1>3. QED
  BY <1>1, <1>2, LedgerInvariant, EngineInside, VerdictInvariant, PTL
=============================================================================
