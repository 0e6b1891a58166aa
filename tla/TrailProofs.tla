---------------------------- MODULE TrailProofs -----------------------------
(***************************************************************************)
(* Theorems about the audit trail the job engine writes: how it is closed, *)
(* and that nothing follows, for every value of the constants.             *)
(***************************************************************************)
EXTENDS JobProofs, FiniteSetTheorems

-----------------------------------------------------------------------------
(* One transition's records.                                               *)

\* What a transition may append: a verdict perhaps, the move, a delivery when the
\* job is delivered, and the closing record, which counts itself, when it
\* settles; the closing record last, the delivery directly before it.
OneTransition(new, to, before) ==
  /\ new \in Seq(Event) /\ Len(new) >= 1
  /\ \A n \in 1 .. Len(new) :
       /\ new[n].kind = "JOB_SETTLED" <=> to \in TERMINAL /\ n = Len(new)
       /\ new[n].kind = "JOB_COMPLETED" <=> to = "COMPLETED" /\ n = Len(new) - 1
  /\ to \in TERMINAL =>
       /\ new[Len(new)].settled_as = to
       /\ new[Len(new)].event_count = before + Len(new)
  /\ to = "COMPLETED" => Len(new) >= 2

\* Every transition appends its records in that shape.
LEMMA EmittedShape ==
  ASSUME TypeOK, NEW j \in Jobs, constructed(j), NEW to \in JobState,
         NEW record \in Decision \union {NONE}, NEW at \in Nat
  PROVE  OneTransition(emitted(j, to, record, at), to, Len(events[j]))
<1>0. PICK new : new = emitted(j, to, record, at)
  OBVIOUS
<1> SUFFICES OneTransition(new, to, Len(events[j]))
  BY <1>0
<1> DEFINE id == ident[j].job_id
           tenant == ident[j].tenant_id
           verdict == IF record = NONE THEN <<>>
                      ELSE <<GovernanceDecision(id, tenant, record)>>
           moved == Append(verdict, StateTransition(id, tenant, state[j], to, at))
           delivered == IF to = "COMPLETED" THEN Append(moved, JobCompleted(id, tenant))
                        ELSE moved
           closing == JobSettled(id, tenant, to, event_count(j, Len(delivered)))
<1>1. new \in Seq(Event)
  BY <1>0, EmittedType
<1>2. new = IF to \in TERMINAL THEN Append(delivered, closing) ELSE delivered
  BY <1>0 DEF emitted
<1>3. Len(events[j]) \in Nat
  BY DEF TypeOK
<1> DEFINE quiet(e) == e.kind \notin {"JOB_SETTLED", "JOB_COMPLETED"}
<1>4. /\ verdict \in Seq({GovernanceDecision(id, tenant, record)})
      /\ \A n \in 1 .. Len(verdict) : quiet(verdict[n])
  <2> DEFINE g == GovernanceDecision(id, tenant, record)
  <2>1. quiet(g)
    BY DEF GovernanceDecision
  <2> HIDE DEF g
  <2>2. verdict = <<>> \/ verdict = <<g>>
    BY DEF g
  <2>3. verdict \in Seq({g}) /\ \A n \in 1 .. Len(verdict) : verdict[n] = g
    <3> HIDE DEF verdict
    <3>1. CASE verdict = <<>>
      BY <3>1
    <3>2. CASE verdict = <<g>>
      <4>1. <<g>> \in Seq({g}) /\ Len(<<g>>) = 1 /\ <<g>>[1] = g
        OBVIOUS
      <4>2. QED BY <3>2, <4>1
    <3>3. QED BY <2>2, <3>1, <3>2
  <2>4. QED BY <2>1, <2>3 DEF g
<1>5. quiet(StateTransition(id, tenant, state[j], to, at))
  BY DEF StateTransition
<1> HIDE DEF id, tenant, verdict
<1>6. /\ moved \in Seq({GovernanceDecision(id, tenant, record),
                        StateTransition(id, tenant, state[j], to, at)})
      /\ Len(moved) >= 1
      /\ \A n \in 1 .. Len(moved) : quiet(moved[n])
  BY <1>4, <1>5
<1> DEFINE S == {GovernanceDecision(id, tenant, record), JobCompleted(id, tenant),
                 StateTransition(id, tenant, state[j], to, at)}
<1> HIDE DEF moved
<1>7. /\ delivered \in Seq(S)
      /\ Len(delivered) >= 1
      /\ \A n \in 1 .. Len(delivered) :
           /\ delivered[n].kind # "JOB_SETTLED"
           /\ delivered[n].kind = "JOB_COMPLETED" <=> to = "COMPLETED" /\ n = Len(delivered)
      /\ to = "COMPLETED" => Len(delivered) >= 2
  <2>1. JobCompleted(id, tenant).kind = "JOB_COMPLETED"
    BY DEF JobCompleted
  <2>2. moved \in Seq(S)
    BY <1>6
  <2>3. JobCompleted(id, tenant) \in S
    OBVIOUS
  <2> HIDE DEF S
  <2>4. CASE to # "COMPLETED"
    BY <1>6, <2>2, <2>4
  <2>5. CASE to = "COMPLETED"
    BY <1>6, <2>1, <2>2, <2>3, <2>5
  <2>6. QED BY <2>4, <2>5
<1> HIDE DEF delivered, S
<1>8. /\ closing.kind = "JOB_SETTLED" /\ closing.settled_as = to
      /\ closing.event_count = Len(events[j]) + Len(delivered) + 1
  BY DEF JobSettled, event_count
<1> HIDE DEF closing
<1>9. CASE to \notin TERMINAL
  BY <1>1, <1>2, <1>7, <1>9 DEF TERMINAL, OneTransition
<1>10. CASE to \in TERMINAL
  <2>1. new = Append(delivered, closing)
    BY <1>2, <1>10
  <2>2. /\ Len(new) = Len(delivered) + 1 /\ new[Len(delivered) + 1] = closing
        /\ \A n \in 1 .. Len(delivered) : new[n] = delivered[n]
        /\ Len(delivered) \in Nat
    BY <1>7, <2>1
  <2>3. \A n \in 1 .. Len(new) :
          /\ new[n].kind = "JOB_SETTLED" <=> n = Len(new)
          /\ new[n].kind = "JOB_COMPLETED" <=> to = "COMPLETED" /\ n = Len(new) - 1
    <3> SUFFICES ASSUME NEW n \in 1 .. Len(new)
                 PROVE  /\ new[n].kind = "JOB_SETTLED" <=> n = Len(new)
                        /\ new[n].kind = "JOB_COMPLETED"
                             <=> to = "COMPLETED" /\ n = Len(new) - 1
      OBVIOUS
    <3>1. CASE n = Len(new)
      BY <1>8, <2>2, <3>1
    <3>2. CASE n # Len(new)
      BY <1>7, <2>2, <3>2
    <3>3. QED BY <3>1, <3>2
  <2>4. new[Len(new)].settled_as = to /\ new[Len(new)].event_count = Len(events[j]) + Len(new)
    <3>1. new[Len(new)] = closing
      BY <2>2
    <3>2. Len(events[j]) + Len(delivered) + 1 = Len(events[j]) + Len(new)
      <4>1. Len(new) = Len(delivered) + 1 /\ Len(delivered) \in Nat
        BY <2>2
      <4>2. \A a, b \in Nat : a + b + 1 = a + (b + 1)
        OBVIOUS
      <4>3. QED BY <1>3, <4>1, <4>2, Zenon
    <3>3. QED BY <1>8, <3>1, <3>2
  <2>5. Len(new) >= 1 /\ (to = "COMPLETED" => Len(new) >= 2)
    BY <1>7, <2>2
  <2>6. QED
    BY <1>1, <1>10, <2>3, <2>4, <2>5 DEF OneTransition
<1>11. QED BY <1>9, <1>10

-----------------------------------------------------------------------------
(* How a trail is closed.                                                  *)

TrailInv == LockInv /\ TrailClosed

\* A transition closes the trail exactly when it settles the job.
LEMMA MovedTrail ==
  ASSUME TrailInv, Moved
  PROVE  TrailInv'
<1>1. PICK j \in Jobs, to \in JobState, record \in Decision \union {NONE}, at \in Nat :
        Moving(j, to, record, at)
  BY DEF Moved
<1>2. PICK new : new = emitted(j, to, record, at)
  OBVIOUS
<1>3. PICK old : old = events[j]
  OBVIOUS
<1>4. /\ constructed(j) /\ state[j] \notin TERMINAL /\ move(j, to, record, at)
  BY <1>1 DEF Moving
<1>5. TypeOK /\ TypeOK' /\ LockInv'
  BY <1>1, MovedType, MovedLock DEF Moved, TrailInv, LockInv
<1>6. /\ events'[j] = old \o new /\ state'[j] = to
      /\ \A k \in Jobs \ {j} : events'[k] = events[k] /\ state'[k] = state[k]
  BY <1>2, <1>3, <1>4, <1>5 DEF move, TypeOK
<1>7. old \in Seq(Event) /\ new \in Seq(Event)
  <2>1. new \in Seq(Event)
    BY <1>2, <1>4, <1>5, EmittedType
  <2>2. QED BY <1>3, <1>5, <2>1 DEF TypeOK
<1> DEFINE last == Len(old) + Len(new)
<1>8. /\ Len(old) \in Nat /\ Len(new) \in Nat /\ Len(events'[j]) = last
      /\ DOMAIN events'[j] = 1 .. last /\ DOMAIN old = 1 .. Len(old)
      /\ \A n \in 1 .. Len(old) : events'[j][n] = old[n]
      /\ \A n \in 1 .. Len(new) : events'[j][Len(old) + n] = new[n]
  BY <1>6, <1>7
<1>9. \A n \in 1 .. Len(old) : old[n].kind \notin {"JOB_SETTLED", "JOB_COMPLETED"}
  BY <1>3, <1>4, <1>8 DEF TrailInv, TrailClosed, recorded, TERMINAL
<1>10. /\ Len(new) >= 1
       /\ \A n \in 1 .. Len(new) :
            /\ new[n].kind = "JOB_SETTLED" <=> to \in TERMINAL /\ n = Len(new)
            /\ new[n].kind = "JOB_COMPLETED" <=> to = "COMPLETED" /\ n = Len(new) - 1
       /\ to \in TERMINAL =>
            new[Len(new)].settled_as = to /\ new[Len(new)].event_count = last
       /\ to = "COMPLETED" => Len(new) >= 2
  <2>1. OneTransition(new, to, Len(old))
    BY <1>2, <1>3, <1>4, <1>5, EmittedShape
  <2>2. QED BY <2>1 DEF OneTransition
<1> HIDE DEF last
<1>11. ASSUME NEW n \in 1 .. last
       PROVE  /\ events'[j][n].kind = "JOB_SETTLED" <=> to \in TERMINAL /\ n = last
              /\ events'[j][n].kind = "JOB_COMPLETED" <=> to = "COMPLETED" /\ n = last - 1
  <2>1. CASE n \in 1 .. Len(old)
    BY <1>8, <1>9, <1>10, <2>1 DEF last
  <2>2. CASE n \notin 1 .. Len(old)
    <3>0. last = Len(old) + Len(new) /\ Len(old) \in Nat /\ Len(new) \in Nat
      BY <1>8 DEF last
    <3>1. PICK m \in 1 .. Len(new) : n = Len(old) + m
      <4>1. n - Len(old) \in 1 .. Len(new) /\ n = Len(old) + (n - Len(old))
        BY <2>2, <3>0
      <4>2. QED BY <4>1
    <3>2. events'[j][n] = new[m]
      BY <1>8, <3>1
    <3>3. (m = Len(new) <=> n = last) /\ (m = Len(new) - 1 <=> n = last - 1)
      BY <3>0, <3>1
    <3>4. QED BY <1>10, <3>2, <3>3
  <2>3. QED BY <2>1, <2>2
<1>12. last \in 1 .. last /\ (to = "COMPLETED" => last - 1 \in 1 .. last)
  BY <1>8, <1>10 DEF last
<1>13. to \in TERMINAL =>
         events'[j][last].settled_as = to /\ events'[j][last].event_count = last
  <2>1. events'[j][last] = new[Len(new)]
    BY <1>8, <1>10 DEF last
  <2>2. QED BY <1>10, <2>1
<1>14. /\ recorded(j, "JOB_SETTLED")' = IF to \in TERMINAL THEN {last} ELSE {}
       /\ recorded(j, "JOB_COMPLETED")' = IF to = "COMPLETED" THEN {last - 1} ELSE {}
  BY <1>8, <1>11, <1>12 DEF recorded
<1>15. TrailClosed'
  <2>1. ASSUME NEW k \in Jobs \ {j}
        PROVE  \A kind : recorded(k, kind)' = recorded(k, kind)
    BY <1>6 DEF recorded
  <2>2. ASSUME NEW k \in Jobs \ {j}
        PROVE  /\ recorded(k, "JOB_SETTLED")' =
                    IF state'[k] \in TERMINAL THEN {Len(events'[k])} ELSE {}
               /\ recorded(k, "JOB_COMPLETED")' =
                    IF state'[k] = "COMPLETED" THEN {Len(events'[k]) - 1} ELSE {}
               /\ state'[k] \in TERMINAL =>
                    /\ events'[k][Len(events'[k])].settled_as = state'[k]
                    /\ events'[k][Len(events'[k])].event_count = Len(events'[k])
    BY <1>6, <2>1 DEF TrailInv, TrailClosed
  <2>3. /\ recorded(j, "JOB_SETTLED")' =
             IF state'[j] \in TERMINAL THEN {Len(events'[j])} ELSE {}
        /\ recorded(j, "JOB_COMPLETED")' =
             IF state'[j] = "COMPLETED" THEN {Len(events'[j]) - 1} ELSE {}
        /\ state'[j] \in TERMINAL =>
             /\ events'[j][Len(events'[j])].settled_as = state'[j]
             /\ events'[j][Len(events'[j])].event_count = Len(events'[j])
    BY <1>6, <1>8, <1>13, <1>14
  <2>4. QED
    BY <2>2, <2>3 DEF TrailClosed
<1>16. QED BY <1>5, <1>15 DEF TrailInv

\* A new job's trail is open.
LEMMA ConstructsTrail ==
  ASSUME TrailInv, Constructs
  PROVE  TrailInv'
<1>1. PICK j \in Jobs, id \in Ids, tenant \in Tenants, workspace \in Workspaces,
           principal \in Principals, supersedes \in Ids \union {NONE} :
        construct(j, id, tenant, workspace, principal, supersedes)
  BY DEF Constructs
<1>2. LockInv'
  BY ConstructsLock DEF TrailInv
<1>3. /\ state[j] = "DRAFT" /\ state' = state
      /\ events'[j] = <<JobCreated(id, tenant, supersedes)>>
      /\ \A k \in Jobs \ {j} : events'[k] = events[k]
  BY <1>1 DEF construct, TrailInv, LockInv, TypeOK, BlankUntilConstructed
<1>4. recorded(j, "JOB_SETTLED")' = {} /\ recorded(j, "JOB_COMPLETED")' = {}
  BY <1>3 DEF recorded, JobCreated
<1>5. \A k \in Jobs \ {j} : \A kind : recorded(k, kind)' = recorded(k, kind)
  BY <1>3 DEF recorded
<1>6. TrailClosed'
  BY <1>3, <1>4, <1>5 DEF TrailInv, TrailClosed, TERMINAL
<1>7. QED BY <1>2, <1>6 DEF TrailInv

\* No trail is closed at the start.
LEMMA InitTrail == Init => TrailInv
<1> SUFFICES ASSUME Init PROVE TrailInv
  OBVIOUS
<1>1. TrailClosed
  BY DEF Init, TrailClosed, recorded, TERMINAL
<1>2. QED BY <1>1, InitLock DEF TrailInv

\* No step closes a trail early or adds to a closed one.
LEMMA NextTrail ==
  ASSUME TrailInv, [Next]_vars
  PROVE  TrailInv'
<1>1. LockInv'
  BY NextLock DEF TrailInv
<1>2. CASE Constructs
  BY <1>2, ConstructsTrail
<1>3. CASE Moved
  BY <1>3, MovedTrail
<1>4. CASE state' = state /\ events' = events
  BY <1>1, <1>4 DEF TrailInv, TrailClosed, recorded
<1>5. QED
  BY <1>2, <1>3, <1>4, Steps DEF TrailInv, LockInv, Tick, vars

\* A trail is closed exactly when its job has settled: by one record, the last,
\* that names the terminal and counts the whole trail.
THEOREM TrailIsClosed == Spec => []TrailClosed
<1>1. TrailInv => TrailClosed
  BY DEF TrailInv
<1>2. QED BY <1>1, InitTrail, NextTrail, PTL DEF Spec

\* A job whose trail is closed never changes again.
THEOREM SettledStaysSettled == Spec => SettledIsFinal
<1> DEFINE Final ==
      \A j \in Jobs : recorded(j, "JOB_SETTLED") # {} =>
        UNCHANGED <<ident[j], state[j], awaiting_from[j], approval[j],
                    decisions[j], history[j], events[j]>>
<1>1. ASSUME TrailInv, [Next]_vars PROVE [Final]_vars
  <2> SUFFICES ASSUME NEW j \in Jobs, recorded(j, "JOB_SETTLED") # {}, Next
               PROVE  UNCHANGED <<ident[j], state[j], awaiting_from[j], approval[j],
                                  decisions[j], history[j], events[j]>>
    BY <1>1
  <2>1. state[j] \in TERMINAL /\ events[j] # <<>> /\ constructed(j)
    BY <1>1 DEF TrailInv, TrailClosed, LockInv, BlankUntilConstructed, recorded
  <2>2. CASE Constructs
    <3>1. PICK k \in Jobs, id \in Ids, tenant \in Tenants, workspace \in Workspaces,
               principal \in Principals, supersedes \in Ids \union {NONE} :
            construct(k, id, tenant, workspace, principal, supersedes)
      BY <2>2 DEF Constructs
    <3>2. k # j
      BY <2>1, <3>1 DEF construct
    <3>3. QED BY <1>1, <3>1, <3>2 DEF construct, TrailInv, LockInv, TypeOK
  <2>3. CASE Moved
    <3>1. PICK k \in Jobs, to \in JobState, record \in Decision \union {NONE}, at \in Nat :
            Moving(k, to, record, at)
      BY <2>3 DEF Moved
    <3>2. k # j
      BY <2>1, <3>1 DEF Moving
    <3>3. QED BY <1>1, <3>1, <3>2 DEF Moving, move, TrailInv, LockInv, TypeOK
  <2>4. CASE Tick
    BY <2>4 DEF Tick
  <2>5. QED BY <1>1, <2>2, <2>3, <2>4, Steps DEF TrailInv, LockInv
<1>2. QED BY <1>1, InitTrail, NextTrail, PTL DEF Spec, SettledIsFinal

-----------------------------------------------------------------------------
(* What is written stays written.                                          *)

\* A sequence is a prefix of itself and of whatever it begins.
LEMMA PrefixOfConcat ==
  ASSUME NEW S, NEW s \in Seq(S), NEW t \in Seq(S)
  PROVE  IsPrefix(s, s) /\ IsPrefix(s, s \o t)
<1>1. Len(s) \in Nat /\ Len(s) <= Len(s \o t)
  OBVIOUS
<1>2. SubSeq(s, 1, Len(s)) = SubSeq(s \o t, 1, Len(s))
  OBVIOUS
<1>3. QED
  BY <1>1, <1>2 DEF IsPrefix

\* Or begins by one element.
LEMMA PrefixOfAppend ==
  ASSUME NEW S, NEW s \in Seq(S), NEW e
  PROVE  IsPrefix(s, Append(s, e))
<1>1. Len(s) \in Nat /\ Len(s) <= Len(Append(s, e))
  OBVIOUS
<1>2. SubSeq(s, 1, Len(s)) = SubSeq(Append(s, e), 1, Len(s))
  OBVIOUS
<1>3. QED
  BY <1>1, <1>2 DEF IsPrefix

\* No step rewrites what is written, and a job changes state only with one new
\* entry in its history.
THEOREM NothingIsRewritten == Spec => AppendOnly
<1> DEFINE Kept(j) ==
      /\ IsPrefix(events[j], events'[j])
      /\ IsPrefix(history[j], history'[j])
      /\ IsPrefix(decisions[j], decisions'[j])
      /\ <<state[j], awaiting_from[j], approval[j]>>'
           # <<state[j], awaiting_from[j], approval[j]>>
         => Len(history'[j]) = Len(history[j]) + 1
<1>1. ASSUME LockInv, [Next]_vars, NEW j \in Jobs PROVE Kept(j)
  <2>0. /\ events[j] \in Seq(Event) /\ history[j] \in Seq(TransitionRecord)
        /\ decisions[j] \in Seq(Decision)
    BY <1>1 DEF LockInv, TypeOK
  <2>1. ASSUME state'[j] = state[j], awaiting_from'[j] = awaiting_from[j],
               approval'[j] = approval[j], decisions'[j] = decisions[j],
               history'[j] = history[j],
               \/ events'[j] = events[j]
               \/ events[j] = <<>> /\ events'[j] \in Seq(Event)
        PROVE  Kept(j)
    <3>1. IsPrefix(events[j], events'[j])
      <4>1. CASE events'[j] = events[j]
        BY <2>0, <4>1, PrefixOfConcat
      <4>2. CASE events[j] = <<>> /\ events'[j] \in Seq(Event)
        <5>1. events'[j] = events[j] \o events'[j]
          BY <4>2
        <5>2. QED
          BY <2>0, <4>2, <5>1, PrefixOfConcat
      <4>3. QED
        BY <2>1, <4>1, <4>2
    <3>2. IsPrefix(history[j], history'[j]) /\ IsPrefix(decisions[j], decisions'[j])
      BY <2>0, <2>1, PrefixOfConcat
    <3>3. QED
      BY <2>1, <3>1, <3>2
  <2> HIDE DEF Kept
  <2>2. CASE Constructs
    <3>1. PICK k \in Jobs, id \in Ids, tenant \in Tenants, workspace \in Workspaces,
               principal \in Principals, supersedes \in Ids \union {NONE} :
            construct(k, id, tenant, workspace, principal, supersedes)
      BY <2>2 DEF Constructs
    <3>2. TypeOK'
      BY <1>1, <2>2, ConstructsType DEF LockInv
    <3>3. k = j => events[j] = <<>>
      BY <1>1, <3>1 DEF construct, LockInv, BlankUntilConstructed
    <3>4. k # j => events'[j] = events[j]
      BY <1>1, <3>1 DEF construct, LockInv, TypeOK
    <3>5. QED
      BY <2>1, <3>1, <3>2, <3>3, <3>4 DEF construct, TypeOK
  <2>3. CASE Moved
    <3>1. PICK k \in Jobs, to \in JobState, record \in Decision \union {NONE}, at \in Nat :
            Moving(k, to, record, at)
      BY <2>3 DEF Moved
    <3>2. constructed(k) /\ move(k, to, record, at)
      BY <3>1 DEF Moving
    <3>3. CASE k # j
      BY <1>1, <2>1, <3>2, <3>3 DEF move, LockInv, TypeOK
    <3>4. CASE k = j
      <4>1. emitted(j, to, record, at) \in Seq(Event)
        BY <1>1, <3>2, <3>4, EmittedType DEF LockInv
      <4>2. events'[j] = events[j] \o emitted(j, to, record, at)
        BY <1>1, <3>2, <3>4 DEF move, LockInv, TypeOK
      <4>3. IsPrefix(events[j], events'[j])
        BY <2>0, <4>1, <4>2, PrefixOfConcat
      <4>4. decisions'[j] = IF record = NONE THEN decisions[j] ELSE Append(decisions[j], record)
        BY <1>1, <3>2, <3>4 DEF move, LockInv, TypeOK
      <4>5. IsPrefix(decisions[j], decisions'[j])
        BY <2>0, <4>4, PrefixOfConcat, PrefixOfAppend
      <4>6. \E entry : history'[j] = Append(history[j], entry)
        BY <1>1, <3>2, <3>4 DEF move, LockInv, TypeOK
      <4>7. IsPrefix(history[j], history'[j]) /\ Len(history'[j]) = Len(history[j]) + 1
        BY <2>0, <4>6, PrefixOfAppend
      <4>8. QED
        BY <4>3, <4>5, <4>7 DEF Kept
    <3>5. QED
      BY <3>3, <3>4
  <2>4. CASE Tick \/ UNCHANGED vars
    BY <2>1, <2>4 DEF Tick, vars
  <2>5. QED
    BY <1>1, <2>2, <2>3, <2>4, Steps DEF LockInv
<1>2. ASSUME LockInv, [Next]_vars PROVE [\A j \in Jobs : Kept(j)]_vars
  BY <1>1, <1>2
<1>3. QED
  BY <1>2, LockInvariant, PTL DEF Spec, AppendOnly

-----------------------------------------------------------------------------
(* The chain of attempts.                                                  *)

\* What a step does to who the jobs are: one is constructed, or nothing.
LEMMA WhoIsWho ==
  ASSUME Next
  PROVE  \/ UNCHANGED ident
         \/ \E j \in Jobs : NewJob(j)
         \/ \E j, new \in Jobs : Supersede(j, new)
<1>1. \A j, to, reason, principal, decision, at :
        transition(j, to, reason, principal, decision, at) => UNCHANGED ident
  BY DEF transition, move
<1>2. ASSUME NEW j \in Jobs,
             \/ Transition(j) \/ SubmitForGovernance(j) \/ PauseForApproval(j) \/ Resume(j)
             \/ Fail(j) \/ Cancel(j) \/ TimeOut(j)
             \/ \E verdict \in DecisionType : Decide(j, verdict)
      PROVE  UNCHANGED ident
  BY <1>1, <1>2 DEF Transition, SubmitForGovernance, PauseForApproval, Resume, Fail, Cancel,
                    TimeOut, Decide
<1>3. Tick => UNCHANGED ident
  BY DEF Tick
<1>4. QED
  BY <1>2, <1>3 DEF Next

\* A job that stopped without delivering stays stopped.
LEMMA StoppedStaysStopped ==
  ASSUME TypeOK, [Next]_vars, NEW j \in Jobs, state[j] \in TERMINAL
  PROVE  state'[j] = state[j]
<1>1. CASE Moved
  BY <1>1 DEF Moved, Moving, move, TypeOK
<1>2. CASE Constructs
  BY <1>2 DEF Constructs, construct
<1>3. QED
  BY <1>1, <1>2, Steps DEF Tick, vars

\* As long as only supersede() names predecessors, a job that names one names a
\* job of its own tenant and workspace that stopped without delivering and that
\* never woke up since.
THEOREM AttemptsFormAChain == Citations = {} => (Spec => []AttemptChain)
<1> SUFFICES ASSUME Citations = {} PROVE Spec => []AttemptChain
  OBVIOUS
<1> DEFINE follows(j, old) ==
      /\ constructed(old)
      /\ ident[old].job_id = ident[j].supersedes_job_id
      /\ ident[old].tenant_id = ident[j].tenant_id
      /\ ident[old].workspace_id = ident[j].workspace_id
      /\ state[old] \in {"FAILED", "CANCELLED", "TIMED_OUT"}
<1>1. Init => AttemptChain
  BY DEF Init, AttemptChain, constructed
<1>2. ASSUME LockInv, AttemptChain, [Next]_vars PROVE AttemptChain'
  <2> SUFFICES ASSUME NEW j \in Jobs, constructed(j)', ident'[j].supersedes_job_id # NONE
               PROVE  \E old \in Jobs \ {j} : follows(j, old)'
    BY DEF AttemptChain
  <2>0. TypeOK
    BY <1>2 DEF LockInv
  <2>1. ASSUME constructed(j), ident'[j] = ident[j],
               \A k \in Jobs : constructed(k) => ident'[k] = ident[k]
        PROVE  \E old \in Jobs \ {j} : follows(j, old)'
    <3>1. PICK old \in Jobs \ {j} : follows(j, old)
      BY <1>2, <2>1 DEF AttemptChain
    <3>2. state'[old] = state[old]
      BY <1>2, <2>0, <3>1, StoppedStaysStopped DEF TERMINAL
    <3>3. follows(j, old)'
      BY <2>1, <3>1, <3>2 DEF constructed
    <3>4. QED
      BY <3>3
  <2>2. CASE UNCHANGED ident
    BY <2>1, <2>2 DEF constructed
  <2>3. ASSUME NEW n \in Jobs, NewJob(n)
        PROVE  \E old \in Jobs \ {j} : follows(j, old)'
    <3>1. /\ ~constructed(n)
          /\ \A k \in Jobs \ {n} : ident'[k] = ident[k]
          /\ ident'[n].supersedes_job_id = NONE
      BY <2>0, <2>3 DEF NewJob, construct, TypeOK
    <3>2. j # n
      BY <3>1
    <3>3. QED
      BY <2>1, <3>1, <3>2 DEF constructed
  <2>4. ASSUME NEW o \in Jobs, NEW n \in Jobs, Supersede(o, n)
        PROVE  \E old \in Jobs \ {j} : follows(j, old)'
    <3>1. /\ constructed(o) /\ ~constructed(n) /\ state[o] \in SUPERSEDABLE
          /\ \A k \in Jobs \ {n} : ident'[k] = ident[k]
          /\ ident'[n].supersedes_job_id = ident[o].job_id
          /\ ident'[n].tenant_id = ident[o].tenant_id
          /\ ident'[n].workspace_id = ident[o].workspace_id
          /\ state' = state
      BY <2>0, <2>4 DEF Supersede, construct, TypeOK
    <3>2. CASE j = n
      <4>1. o \in Jobs \ {j} /\ follows(j, o)'
        BY <3>1, <3>2 DEF SUPERSEDABLE, TERMINAL, constructed
      <4>2. QED
        BY <4>1
    <3>3. CASE j # n
      BY <2>1, <3>1, <3>3 DEF constructed
    <3>4. QED
      BY <3>2, <3>3
  <2>5. QED
    BY <1>2, <2>2, <2>3, <2>4, WhoIsWho DEF vars
<1>3. QED
  BY <1>1, <1>2, LockInvariant, PTL DEF Spec

-----------------------------------------------------------------------------
(* The trail explains the state.                                           *)

\* The first records of a transition: the verdict, when it is one, and the move.
Leads(new, record, verdict, moved) ==
  LET k == IF record = NONE THEN 1 ELSE 2
  IN /\ new \in Seq(Event) /\ k <= Len(new)
     /\ new[k] = moved
     /\ record # NONE => new[1] = verdict
     /\ \A n \in 1 .. Len(new) :
          /\ new[n].kind = "STATE_TRANSITION" <=> n = k
          /\ new[n].kind = "GOVERNANCE_DECISION" <=> record # NONE /\ n = 1

\* A delivery or a closing record behind them changes nothing about that.
LEMMA LeadsOn ==
  ASSUME NEW new, NEW record, NEW verdict, NEW moved, Leads(new, record, verdict, moved),
         NEW e \in Event, e.kind \notin {"STATE_TRANSITION", "GOVERNANCE_DECISION"}
  PROVE  Leads(Append(new, e), record, verdict, moved)
<1> DEFINE k == IF record = NONE THEN 1 ELSE 2
<1>1. /\ new \in Seq(Event) /\ k <= Len(new) /\ new[k] = moved
      /\ record # NONE => new[1] = verdict
      /\ \A n \in 1 .. Len(new) :
           /\ new[n].kind = "STATE_TRANSITION" <=> n = k
           /\ new[n].kind = "GOVERNANCE_DECISION" <=> record # NONE /\ n = 1
  BY DEF Leads
<1>2. k \in Nat /\ k >= 1 /\ (record # NONE => k = 2)
  OBVIOUS
<1> HIDE DEF k
<1> DEFINE longer == Append(new, e)
<1>3. /\ longer \in Seq(Event) /\ Len(longer) = Len(new) + 1 /\ Len(new) \in Nat
      /\ longer[Len(new) + 1] = e
      /\ \A n \in 1 .. Len(new) : longer[n] = new[n]
  BY <1>1
<1> HIDE DEF longer
<1>4. ASSUME NEW n \in 1 .. Len(longer)
      PROVE  /\ longer[n].kind = "STATE_TRANSITION" <=> n = k
             /\ longer[n].kind = "GOVERNANCE_DECISION" <=> record # NONE /\ n = 1
  <2>1. CASE n \in 1 .. Len(new)
    BY <1>1, <1>3, <2>1
  <2>2. CASE n = Len(new) + 1
    <3>1. n # k /\ n # 1
      BY <1>1, <1>2, <1>3, <2>2
    <3>2. QED
      BY <1>3, <2>2, <3>1
  <2>3. QED
    BY <1>3, <2>1, <2>2
<1>5. k <= Len(longer) /\ longer[k] = moved /\ (record # NONE => longer[1] = verdict)
  BY <1>1, <1>2, <1>3
<1>6. QED
  BY <1>3, <1>4, <1>5 DEF Leads, k, longer

\* A pair is a sequence of two.
LEMMA PairIsSeq ==
  ASSUME NEW S, NEW a \in S, NEW b \in S, NEW s, s = Append(<<a>>, b)
  PROVE  s \in Seq(S) /\ Len(s) = 2 /\ s[1] = a /\ s[2] = b
<1>1. <<a>> \in Seq(S) /\ Len(<<a>>) = 1 /\ <<a>>[1] = a
  OBVIOUS
<1>2. QED
  BY <1>1

\* Every transition's records begin so.
LEMMA EmittedLeads ==
  ASSUME TypeOK, NEW j \in Jobs, constructed(j), NEW to \in JobState,
         NEW record \in Decision \union {NONE}, NEW at \in Nat
  PROVE  Leads(emitted(j, to, record, at), record,
               GovernanceDecision(ident[j].job_id, ident[j].tenant_id, record),
               StateTransition(ident[j].job_id, ident[j].tenant_id, state[j], to, at))
<1> DEFINE id == ident[j].job_id
           tenant == ident[j].tenant_id
           judged == GovernanceDecision(id, tenant, record)
           move_record == StateTransition(id, tenant, state[j], to, at)
           verdict == IF record = NONE THEN <<>> ELSE <<judged>>
           moved == Append(verdict, move_record)
           delivered == IF to = "COMPLETED" THEN Append(moved, JobCompleted(id, tenant))
                        ELSE moved
           closing == JobSettled(id, tenant, to, event_count(j, Len(delivered)))
<1>1. id \in Ids /\ tenant \in Tenants /\ state[j] \in JobState /\ Len(events[j]) \in Nat
  BY DEF TypeOK, constructed, Identity
<1>2. emitted(j, to, record, at) =
        IF to \in TERMINAL THEN Append(delivered, closing) ELSE delivered
  BY DEF emitted
<1> HIDE DEF id, tenant
<1>3. /\ record # NONE => judged \in Event
      /\ judged.kind = "GOVERNANCE_DECISION"
      /\ move_record \in Event /\ move_record.kind = "STATE_TRANSITION"
  BY <1>1 DEF GovernanceDecision, StateTransition, Event
<1>4. JobCompleted(id, tenant) \in Event /\ JobCompleted(id, tenant).kind = "JOB_COMPLETED"
  BY <1>1 DEF JobCompleted, Event
<1> HIDE DEF judged, move_record
<1>5. Leads(moved, record, judged, move_record)
  <2>1. CASE record = NONE
    <3>1. moved = <<move_record>>
      BY <2>1
    <3> HIDE DEF moved
    <3>2. QED
      BY <1>3, <2>1, <3>1 DEF Leads
  <2>2. CASE record # NONE
    <3>1. moved = Append(<<judged>>, move_record)
      BY <2>2
    <3> HIDE DEF moved
    <3>2. moved \in Seq(Event) /\ Len(moved) = 2 /\ moved[1] = judged /\ moved[2] = move_record
      BY <1>3, <2>2, <3>1, PairIsSeq
    <3>3. QED
      BY <1>3, <2>2, <3>2 DEF Leads
  <2>3. QED
    BY <2>1, <2>2
<1> HIDE DEF moved
<1>6. Leads(delivered, record, judged, move_record)
  BY <1>4, <1>5, LeadsOn
<1>7. to \in TERMINAL => closing \in Event /\ closing.kind = "JOB_SETTLED"
  <2>1. Len(delivered) \in Nat
    <3> HIDE DEF delivered
    <3> QED BY <1>6 DEF Leads
  <2> HIDE DEF delivered
  <2>2. event_count(j, Len(delivered)) \in Nat
    BY <1>1, <2>1 DEF event_count
  <2>3. QED
    BY <1>1, <2>2 DEF JobSettled, Event
<1> HIDE DEF delivered, closing
<1>8. Leads(IF to \in TERMINAL THEN Append(delivered, closing) ELSE delivered,
            record, judged, move_record)
  BY <1>6, <1>7, LeadsOn
<1>9. QED
  BY <1>2, <1>8 DEF judged, move_record, id, tenant

\* What is recorded in a longer trail: what was, and the new records.
LEMMA RecordedGrows ==
  ASSUME NEW old \in Seq(Event), NEW new \in Seq(Event), NEW kind
  PROVE  {n \in DOMAIN (old \o new) : (old \o new)[n].kind = kind} =
           {n \in DOMAIN old : old[n].kind = kind}
             \union {Len(old) + m : m \in {n \in DOMAIN new : new[n].kind = kind}}
<1> DEFINE long == old \o new
           before == {n \in DOMAIN old : old[n].kind = kind}
           added == {n \in DOMAIN new : new[n].kind = kind}
<1>1. /\ Len(old) \in Nat /\ DOMAIN old = 1 .. Len(old)
      /\ Len(new) \in Nat /\ DOMAIN new = 1 .. Len(new)
      /\ DOMAIN long = 1 .. Len(old) + Len(new)
      /\ \A n \in 1 .. Len(old) : long[n] = old[n]
      /\ \A n \in 1 .. Len(new) : long[Len(old) + n] = new[n]
  OBVIOUS
<1> HIDE DEF long
<1>2. ASSUME NEW n \in DOMAIN long, long[n].kind = kind
      PROVE  n \in before \union {Len(old) + m : m \in added}
  <2>1. CASE n \in 1 .. Len(old)
    BY <1>1, <1>2, <2>1
  <2>2. CASE n \notin 1 .. Len(old)
    <3>1. n - Len(old) \in 1 .. Len(new) /\ Len(old) + (n - Len(old)) = n
      BY <1>1, <1>2, <2>2
    <3>2. n - Len(old) \in added
      BY <1>1, <1>2, <3>1
    <3>3. QED
      BY <3>1, <3>2
  <2>3. QED
    BY <2>1, <2>2
<1>3. ASSUME NEW n \in before
      PROVE  n \in DOMAIN long /\ long[n].kind = kind
  BY <1>1
<1>4. ASSUME NEW m \in added
      PROVE  Len(old) + m \in DOMAIN long /\ long[Len(old) + m].kind = kind
  BY <1>1
<1>5. QED
  BY <1>2, <1>3, <1>4 DEF long

\* An entry of the history points into the trail, at the move and, when there is
\* one, the verdict before it.
PointsIn ==
  \A j \in Jobs : \A i \in DOMAIN history[j] :
    /\ history[j][i].event \in DOMAIN events[j]
    /\ history[j][i].decision_id # NONE => history[j][i].event - 1 \in DOMAIN events[j]

\* What TrailExplainsState says of one job, an entry at a time.
EntryExplained(j, i) ==
  LET h == history[j] IN
  /\ h[i].from = IF i = 1 THEN "DRAFT" ELSE h[i - 1].to
  /\ events[j][h[i].event] =
       StateTransition(ident[j].job_id, ident[j].tenant_id, h[i].from, h[i].to, h[i].at)
  /\ h[i].decision_id = NONE <=> decision_for_edge(h[i].from, h[i].to) = NONE
  /\ h[i].decision_id # NONE =>
       LET verdict == events[j][h[i].event - 1]
       IN /\ verdict.kind = "GOVERNANCE_DECISION"
          /\ verdict.approval.decision_id = h[i].decision_id
          /\ verdict.approval.decision = decision_for_edge(h[i].from, h[i].to)

JobExplained(j) ==
  /\ state[j] = IF history[j] = <<>> THEN "DRAFT" ELSE Last(history[j]).to
  /\ Cardinality(recorded(j, "STATE_TRANSITION")) = Len(history[j])
  /\ Cardinality(recorded(j, "GOVERNANCE_DECISION")) = Len(decisions[j])
  /\ \A i \in DOMAIN history[j] : EntryExplained(j, i)

\* The property, entry by entry.
LEMMA ExplainedOneByOne ==
  TrailExplainsState <=> \A j \in Jobs : JobExplained(j)
BY DEF TrailExplainsState, JobExplained, EntryExplained

\* A job none of whose records change is explained as it was.
LEMMA ExplainedStays ==
  ASSUME NEW j, JobExplained(j), ident'[j] = ident[j], state'[j] = state[j],
         history'[j] = history[j], decisions'[j] = decisions[j], events'[j] = events[j]
  PROVE  JobExplained(j)'
<1>1. \A kind : recorded(j, kind)' = recorded(j, kind)
  BY DEF recorded
<1>2. \A i : EntryExplained(j, i)' <=> EntryExplained(j, i)
  BY DEF EntryExplained, StateTransition
<1>3. QED
  BY <1>1, <1>2 DEF JobExplained

ExplainInv == LockInv /\ TrailExplainsState /\ PointsIn

\* Recorded positions are finitely many, and one more makes one more.
LEMMA OneMoreRecorded ==
  ASSUME TypeOK, NEW j \in Jobs, NEW kind, NEW n \in Nat, n > Len(events[j])
  PROVE  Cardinality(recorded(j, kind) \union {n}) = Cardinality(recorded(j, kind)) + 1
<1>1. Len(events[j]) \in Nat /\ DOMAIN events[j] = 1 .. Len(events[j])
  BY DEF TypeOK
<1>2. IsFiniteSet(1 .. Len(events[j]))
  BY <1>1, FS_Interval
<1>3. recorded(j, kind) \subseteq 1 .. Len(events[j])
  BY <1>1 DEF recorded
<1>4. IsFiniteSet(recorded(j, kind)) /\ n \notin recorded(j, kind)
  BY <1>1, <1>2, <1>3, FS_Subset
<1>5. QED
  BY <1>4, FS_AddElement

\* A transition writes one entry, and it says what the trail says.
LEMMA MovedExplains ==
  ASSUME ExplainInv, Moved
  PROVE  TrailExplainsState' /\ PointsIn'
<1>1. PICK j \in Jobs, to \in JobState, record \in Decision \union {NONE}, at \in Nat :
        Moving(j, to, record, at)
  BY DEF Moved
<1>2. PICK new, old, h, id, tenant, from, k, last :
        /\ new = emitted(j, to, record, at)
        /\ old = events[j] /\ h = history[j] /\ from = state[j]
        /\ id = ident[j].job_id /\ tenant = ident[j].tenant_id
        /\ k = (IF record = NONE THEN 1 ELSE 2) /\ last = Len(h) + 1
  OBVIOUS
<1> DEFINE entry ==
      [from |-> from, to |-> to, at |-> at,
       decision_id |-> IF record = NONE THEN NONE ELSE record.decision_id,
       event |-> Len(old) + k]
<1>3. /\ constructed(j) /\ move(j, to, record, at)
      /\ record = NONE <=> decision_for_edge(from, to) = NONE
      /\ record # NONE => record.decision = decision_for_edge(from, to)
  BY <1>1, <1>2 DEF Moving, decision_fits
<1>4. TypeOK
  BY DEF ExplainInv, LockInv
<1>5. /\ events'[j] = old \o new /\ state'[j] = to /\ ident' = ident
      /\ history'[j] = Append(h, entry)
      /\ decisions'[j] = IF record = NONE THEN decisions[j] ELSE Append(decisions[j], record)
      /\ \A i \in Jobs \ {j} :
           /\ events'[i] = events[i] /\ state'[i] = state[i]
           /\ history'[i] = history[i] /\ decisions'[i] = decisions[i]
  BY <1>2, <1>3, <1>4 DEF move, TypeOK
<1>6. Leads(new, record, GovernanceDecision(id, tenant, record),
            StateTransition(id, tenant, from, to, at))
  BY <1>2, <1>3, <1>4, EmittedLeads
<1> HIDE DEF entry
<1>7. /\ old \in Seq(Event) /\ new \in Seq(Event) /\ h \in Seq(TransitionRecord)
      /\ k \in 1 .. Len(new) /\ k \in {1, 2} /\ (record # NONE <=> k = 2)
  BY <1>2, <1>4, <1>6 DEF Leads, TypeOK
<1>8. /\ Len(old) \in Nat /\ Len(new) \in Nat /\ DOMAIN old = 1 .. Len(old)
      /\ DOMAIN events'[j] = 1 .. Len(old) + Len(new)
      /\ \A n \in 1 .. Len(old) : events'[j][n] = old[n]
      /\ \A n \in 1 .. Len(new) : events'[j][Len(old) + n] = new[n]
  BY <1>5, <1>7
<1>9. /\ Len(h) \in Nat /\ DOMAIN h = 1 .. Len(h) /\ last \in Nat /\ last = Len(h) + 1
      /\ DOMAIN history'[j] = 1 .. last /\ Len(history'[j]) = last
      /\ history'[j][last] = entry
      /\ \A i \in 1 .. Len(h) : history'[j][i] = h[i]
  BY <1>2, <1>5, <1>7
<1>10. /\ new[k] = StateTransition(id, tenant, from, to, at)
       /\ record # NONE => new[1] = GovernanceDecision(id, tenant, record)
       /\ \A n \in 1 .. Len(new) :
            /\ new[n].kind = "STATE_TRANSITION" <=> n = k
            /\ new[n].kind = "GOVERNANCE_DECISION" <=> record # NONE /\ n = 1
  BY <1>2, <1>6 DEF Leads
<1>11. \A kind : recorded(j, kind)' =
         recorded(j, kind) \union {Len(old) + m : m \in {n \in DOMAIN new : new[n].kind = kind}}
  <2> TAKE kind
  <2>1. recorded(j, kind)' = {n \in DOMAIN (old \o new) : (old \o new)[n].kind = kind}
    BY <1>5 DEF recorded
  <2>2. recorded(j, kind) = {n \in DOMAIN old : old[n].kind = kind}
    BY <1>2 DEF recorded
  <2>3. QED
    BY <1>7, <2>1, <2>2, RecordedGrows
<1>12. /\ recorded(j, "STATE_TRANSITION")' =
            recorded(j, "STATE_TRANSITION") \union {Len(old) + k}
       /\ recorded(j, "GOVERNANCE_DECISION")' =
            IF record = NONE THEN recorded(j, "GOVERNANCE_DECISION")
            ELSE recorded(j, "GOVERNANCE_DECISION") \union {Len(old) + 1}
  <2>1. DOMAIN new = 1 .. Len(new) /\ 1 \in 1 .. Len(new)
    BY <1>7, <1>8
  <2>2. {n \in DOMAIN new : new[n].kind = "STATE_TRANSITION"} = {k}
    BY <1>7, <1>10, <2>1
  <2>3. {n \in DOMAIN new : new[n].kind = "GOVERNANCE_DECISION"} =
          IF record = NONE THEN {} ELSE {1}
    BY <1>10, <2>1
  <2>4. {Len(old) + m : m \in {k}} = {Len(old) + k} /\ {Len(old) + m : m \in {1}} = {Len(old) + 1}
        /\ {Len(old) + m : m \in {}} = {}
    OBVIOUS
  <2>5. recorded(j, "STATE_TRANSITION")' =
          recorded(j, "STATE_TRANSITION") \union {Len(old) + k}
    BY <1>11, <2>2, <2>4
  <2>6. recorded(j, "GOVERNANCE_DECISION")' =
          recorded(j, "GOVERNANCE_DECISION")
            \union {Len(old) + m : m \in IF record = NONE THEN {} ELSE {1}}
    BY <1>11, <2>3
  <2>7. CASE record = NONE
    BY <2>4, <2>5, <2>6, <2>7
  <2>8. CASE record # NONE
    BY <2>4, <2>5, <2>6, <2>8
  <2>9. QED
    BY <2>7, <2>8
<1>13. /\ Cardinality(recorded(j, "STATE_TRANSITION")') = last
       /\ Cardinality(recorded(j, "GOVERNANCE_DECISION")') = Len(decisions'[j])
  <2>1. /\ Cardinality(recorded(j, "STATE_TRANSITION")) = Len(h)
        /\ Cardinality(recorded(j, "GOVERNANCE_DECISION")) = Len(decisions[j])
    BY <1>2 DEF ExplainInv, TrailExplainsState
  <2>2. \A n \in {1, 2} : Len(old) + n \in Nat /\ Len(old) + n > Len(events[j])
    BY <1>2, <1>8
  <2>3. \A kind : \A n \in {1, 2} :
          Cardinality(recorded(j, kind) \union {Len(old) + n}) = Cardinality(recorded(j, kind)) + 1
    BY <1>4, <2>2, OneMoreRecorded
  <2>4. Len(decisions'[j]) = IF record = NONE THEN Len(decisions[j]) ELSE Len(decisions[j]) + 1
    BY <1>4, <1>5 DEF TypeOK
  <2>5. QED
    BY <1>7, <1>9, <1>12, <2>1, <2>3, <2>4
<1> DEFINE explained(i, e, x, kk) ==
      /\ e = StateTransition(id, tenant, x.from, x.to, x.at)
      /\ x.decision_id = NONE <=> decision_for_edge(x.from, x.to) = NONE
      /\ x.decision_id # NONE =>
           /\ kk.kind = "GOVERNANCE_DECISION"
           /\ kk.approval.decision_id = x.decision_id
           /\ kk.approval.decision = decision_for_edge(x.from, x.to)
<1>14. ASSUME NEW i \in DOMAIN h
       PROVE  /\ history'[j][i] = h[i]
              /\ h[i].from = IF i = 1 THEN "DRAFT" ELSE history'[j][i - 1].to
              /\ h[i].event \in DOMAIN events'[j]
              /\ h[i].decision_id # NONE => h[i].event - 1 \in DOMAIN events'[j]
              /\ explained(i, events'[j][h[i].event], h[i], events'[j][h[i].event - 1])
  <2>1. /\ h[i].from = IF i = 1 THEN "DRAFT" ELSE h[i - 1].to
        /\ explained(i, old[h[i].event], h[i], old[h[i].event - 1])
    BY <1>2 DEF ExplainInv, TrailExplainsState
  <2>2. /\ h[i].event \in DOMAIN old
        /\ h[i].decision_id # NONE => h[i].event - 1 \in DOMAIN old
    BY <1>2 DEF ExplainInv, PointsIn
  <2>3. \A n \in DOMAIN old : n \in DOMAIN events'[j] /\ events'[j][n] = old[n]
    BY <1>8
  <2>4. i # 1 => history'[j][i - 1] = h[i - 1]
    BY <1>9
  <2>5. history'[j][i] = h[i]
    BY <1>9
  <2>6. QED
    BY <2>1, <2>2, <2>3, <2>4, <2>5
<1>15. /\ entry.from = IF last = 1 THEN "DRAFT" ELSE history'[j][last - 1].to
       /\ entry.event \in DOMAIN events'[j]
       /\ entry.decision_id # NONE => entry.event - 1 \in DOMAIN events'[j]
       /\ explained(last, events'[j][entry.event], entry, events'[j][entry.event - 1])
  <2>1. entry.from = IF last = 1 THEN "DRAFT" ELSE history'[j][last - 1].to
    <3>1. from = IF h = <<>> THEN "DRAFT" ELSE h[Len(h)].to
      BY <1>2 DEF ExplainInv, TrailExplainsState, Last
    <3>2. h = <<>> <=> last = 1
      BY <1>7, <1>9
    <3>3. last # 1 => history'[j][last - 1] = h[Len(h)]
      BY <1>9
    <3>4. QED
      BY <3>1, <3>2, <3>3 DEF entry
  <2>2. entry.event = Len(old) + k /\ events'[j][entry.event] = new[k]
    BY <1>7, <1>8 DEF entry
  <2>3. entry.event \in DOMAIN events'[j]
    BY <1>7, <1>8, <2>2
  <2>4. entry.decision_id = NONE <=> record = NONE
    BY JobAssumption DEF entry, Decision
  <2>5. record # NONE => entry.event - 1 \in DOMAIN events'[j] /\ events'[j][entry.event - 1] = new[1]
    <3>1. record # NONE => entry.event - 1 = Len(old) + 1 /\ 1 \in 1 .. Len(new)
      BY <1>7, <1>8, <2>2
    <3>2. \A n \in 1 .. Len(new) : Len(old) + n \in DOMAIN events'[j]
      BY <1>8
    <3>3. QED
      BY <1>8, <3>1, <3>2
  <2>6. record # NONE =>
          /\ new[1].kind = "GOVERNANCE_DECISION"
          /\ new[1].approval.decision_id = entry.decision_id
          /\ new[1].approval.decision = decision_for_edge(from, to)
    BY <1>3, <1>10 DEF entry, GovernanceDecision
  <2>7. entry.from = from /\ entry.to = to /\ entry.at = at
    BY DEF entry
  <2>8. QED
    BY <1>3, <1>10, <2>1, <2>2, <2>3, <2>4, <2>5, <2>6, <2>7
<1>16. state'[j] = IF history'[j] = <<>> THEN "DRAFT" ELSE Last(history'[j]).to
  <2>1. Last(history'[j]) = entry
    BY <1>9 DEF Last
  <2>2. history'[j] # <<>>
    BY <1>9
  <2>3. entry.to = to
    BY DEF entry
  <2>4. QED
    BY <1>5, <2>1, <2>2, <2>3
<1>17. \A i \in DOMAIN history'[j] : i \in DOMAIN h \/ i = last
  BY <1>9
<1>18. PointsIn'
  <2>1. ASSUME NEW n \in Jobs
        PROVE  \A i \in DOMAIN history'[n] :
                 /\ history'[n][i].event \in DOMAIN events'[n]
                 /\ history'[n][i].decision_id # NONE =>
                      history'[n][i].event - 1 \in DOMAIN events'[n]
    <3>1. CASE n = j
      BY <1>9, <1>14, <1>15, <1>17, <3>1
    <3>2. CASE n # j
      BY <1>5, <3>2 DEF ExplainInv, PointsIn
    <3>3. QED
      BY <3>1, <3>2
  <2>2. QED
    BY <2>1 DEF PointsIn
<1>19. \A n \in Jobs \ {j} : JobExplained(n)'
  BY <1>5, ExplainedOneByOne, ExplainedStays DEF ExplainInv
<1>20. JobExplained(j)'
  <2>1. ASSUME NEW i \in DOMAIN history'[j]
        PROVE  EntryExplained(j, i)'
    <3>1. /\ history'[j][i].from = IF i = 1 THEN "DRAFT" ELSE history'[j][i - 1].to
          /\ explained(i, events'[j][history'[j][i].event], history'[j][i],
                       events'[j][history'[j][i].event - 1])
      BY <1>9, <1>14, <1>15, <1>17
    <3>2. QED
      BY <1>2, <1>5, <3>1 DEF EntryExplained, StateTransition
  <2>2. QED
    BY <1>9, <1>13, <1>16, <2>1 DEF JobExplained
<1>21. TrailExplainsState'
  <2>1. \A n \in Jobs : JobExplained(n)'
    BY <1>19, <1>20
  <2>2. QED
    BY <2>1 DEF TrailExplainsState, JobExplained, EntryExplained
<1>22. QED
  BY <1>18, <1>21

\* A new job's trail is its JOB_CREATED, which explains DRAFT.
LEMMA CreatedExplains ==
  ASSUME ExplainInv, NEW j \in Jobs, NEW e \in Event, e.kind = "JOB_CREATED",
         state'[j] = "DRAFT", history'[j] = <<>>, decisions'[j] = <<>>,
         events'[j] = <<e>>,
         \A i \in Jobs \ {j} :
           /\ ident'[i] = ident[i] /\ state'[i] = state[i] /\ history'[i] = history[i]
           /\ decisions'[i] = decisions[i] /\ events'[i] = events[i]
  PROVE  TrailExplainsState' /\ PointsIn'
<1>1. \A kind \in {"STATE_TRANSITION", "GOVERNANCE_DECISION"} : recorded(j, kind)' = {}
  <2> SUFFICES ASSUME NEW kind \in {"STATE_TRANSITION", "GOVERNANCE_DECISION"},
                      NEW n \in DOMAIN events'[j], events'[j][n].kind = kind
               PROVE  FALSE
    BY DEF recorded
  <2>1. n = 1 /\ events'[j][1] = e
    OBVIOUS
  <2>2. QED
    BY <2>1
<1>2. DOMAIN history'[j] = {} /\ Len(history'[j]) = 0 /\ Len(decisions'[j]) = 0
  OBVIOUS
<1>3. JobExplained(j)'
  BY <1>1, <1>2, FS_EmptySet DEF JobExplained
<1>4. \A n \in Jobs \ {j} : JobExplained(n)'
  BY ExplainedOneByOne, ExplainedStays DEF ExplainInv
<1>5. \A n \in Jobs : JobExplained(n)'
  BY <1>3, <1>4
<1>6. TrailExplainsState'
  BY <1>5 DEF TrailExplainsState, JobExplained, EntryExplained
<1>7. PointsIn'
  BY <1>2 DEF ExplainInv, PointsIn
<1>8. QED
  BY <1>6, <1>7

\* There is nothing to explain at the start.
LEMMA InitExplains == Init => TrailExplainsState /\ PointsIn
<1> SUFFICES ASSUME Init PROVE TrailExplainsState /\ PointsIn
  OBVIOUS
<1>1. \A j \in Jobs :
        /\ state[j] = "DRAFT" /\ history[j] = <<>> /\ decisions[j] = <<>> /\ events[j] = <<>>
        /\ DOMAIN history[j] = {} /\ Len(history[j]) = 0 /\ Len(decisions[j]) = 0
        /\ DOMAIN events[j] = {}
  BY DEF Init
<1>2. \A j \in Jobs : \A kind : recorded(j, kind) = {}
  BY <1>1 DEF recorded
<1>3. \A j \in Jobs : JobExplained(j)
  BY <1>1, <1>2, FS_EmptySet DEF JobExplained
<1>4. QED
  BY <1>1, <1>3, ExplainedOneByOne DEF PointsIn

\* No step leaves a state its trail does not explain.
LEMMA NextExplains ==
  ASSUME ExplainInv, [Next]_vars
  PROVE  ExplainInv'
<1>1. LockInv'
  BY NextLock DEF ExplainInv
<1>2. CASE Constructs
  <2>1. PICK j \in Jobs, id \in Ids, tenant \in Tenants, workspace \in Workspaces,
             principal \in Principals, supersedes \in Ids \union {NONE} :
          construct(j, id, tenant, workspace, principal, supersedes)
    BY <1>2 DEF Constructs
  <2>2. /\ state'[j] = "DRAFT" /\ history'[j] = <<>> /\ decisions'[j] = <<>>
        /\ events'[j] = <<JobCreated(id, tenant, supersedes)>>
        /\ \A i \in Jobs \ {j} :
             /\ ident'[i] = ident[i] /\ state'[i] = state[i] /\ history'[i] = history[i]
             /\ decisions'[i] = decisions[i] /\ events'[i] = events[i]
    BY <2>1 DEF construct, ExplainInv, LockInv, TypeOK, BlankUntilConstructed
  <2>3. /\ JobCreated(id, tenant, supersedes) \in Event
        /\ JobCreated(id, tenant, supersedes).kind = "JOB_CREATED"
    BY DEF JobCreated, Event
  <2>4. QED
    BY <1>1, <2>2, <2>3, CreatedExplains DEF ExplainInv
<1>3. CASE Moved
  BY <1>1, <1>3, MovedExplains DEF ExplainInv
<1>4. CASE UNCHANGED <<ident, state, decisions, history, events>>
  <2>1. \A j \in Jobs : JobExplained(j)'
    BY <1>4, ExplainedOneByOne, ExplainedStays DEF ExplainInv
  <2>2. TrailExplainsState'
    BY <2>1 DEF TrailExplainsState, JobExplained, EntryExplained
  <2>3. PointsIn'
    BY <1>4 DEF ExplainInv, PointsIn
  <2>4. QED
    BY <1>1, <2>2, <2>3 DEF ExplainInv
<1>5. QED
  BY <1>2, <1>3, <1>4, Steps DEF ExplainInv, LockInv, Tick, vars

\* "No silent state change": the trail accounts for the state a job is in, for
\* every entry of its history and for every verdict on it.
THEOREM TrailTellsAll == Spec => []TrailExplainsState
<1>1. Init => ExplainInv
  BY InitLock, InitExplains DEF ExplainInv
<1>2. ExplainInv => TrailExplainsState
  BY DEF ExplainInv
<1>3. QED
  BY <1>1, <1>2, NextExplains, PTL DEF Spec

-----------------------------------------------------------------------------
(* The trail holds the verdicts.                                           *)

\* The verdicts a job's trail holds.
Judged(j) == {events[j][n].approval : n \in recorded(j, "GOVERNANCE_DECISION")}

\* They are the job's own list, and the APPROVE in force is the only one in it:
\* an approval is never replaced by another.
VerdictsHeld(j) ==
  /\ Judged(j) = Range(decisions[j])
  /\ \A d \in Range(decisions[j]) : d.decision = "APPROVE" => d = approval[j]
  /\ approval[j] # NONE => approval[j] \in Range(decisions[j]) /\ approval[j].decision = "APPROVE"

VerdictInv == \A j \in Jobs : VerdictsHeld(j)

\* A job left alone keeps its verdicts.
LEMMA VerdictsStay ==
  ASSUME NEW j, VerdictsHeld(j), approval'[j] = approval[j], decisions'[j] = decisions[j],
         events'[j] = events[j]
  PROVE  VerdictsHeld(j)'
<1>1. Judged(j)' = Judged(j)
  BY DEF Judged, recorded
<1>2. QED BY <1>1 DEF VerdictsHeld

\* What a list grown by one holds.
LEMMA OneMoreVerdict ==
  ASSUME NEW s \in Seq(Decision), NEW d \in Decision
  PROVE  Range(Append(s, d)) = Range(s) \union {d}
<1>1. PICK longer : longer = Append(s, d)
  OBVIOUS
<1>2. /\ DOMAIN s = 1 .. Len(s) /\ Len(s) \in Nat /\ DOMAIN longer = 1 .. Len(s) + 1
      /\ longer[Len(s) + 1] = d /\ \A n \in 1 .. Len(s) : longer[n] = s[n]
  BY <1>1
<1>3. \A n \in DOMAIN longer : longer[n] \in Range(s) \union {d}
  BY <1>2 DEF Range
<1>4. \A n \in DOMAIN s : n \in DOMAIN longer /\ s[n] = longer[n]
  BY <1>2
<1>5. Len(s) + 1 \in DOMAIN longer
  BY <1>2
<1>6. QED BY <1>1, <1>2, <1>3, <1>4, <1>5 DEF Range

\* A transition that writes a verdict records its decision.
LEMMA MovedJudges ==
  ASSUME LockInv, VerdictInv, Moved
  PROVE  VerdictInv'
<1>1. PICK j \in Jobs, to \in JobState, record \in Decision \union {NONE}, at \in Nat :
        Moving(j, to, record, at)
  BY DEF Moved
<1>2. PICK new, old, k, verdict, going :
        /\ new = emitted(j, to, record, at) /\ old = events[j]
        /\ k = (IF record = NONE THEN 1 ELSE 2)
        /\ verdict = GovernanceDecision(ident[j].job_id, ident[j].tenant_id, record)
        /\ going = StateTransition(ident[j].job_id, ident[j].tenant_id, state[j], to, at)
  OBVIOUS
<1>3. /\ constructed(j) /\ move(j, to, record, at) /\ TypeOK
      /\ record = NONE <=> decision_for_edge(state[j], to) = NONE
  BY <1>1 DEF Moving, LockInv
<1>4. /\ events'[j] = old \o new
      /\ decisions'[j] = (IF record = NONE THEN decisions[j] ELSE Append(decisions[j], record))
      /\ approval'[j] = approval_after(j, record)
      /\ \A i \in Jobs \ {j} : /\ events'[i] = events[i] /\ decisions'[i] = decisions[i]
                               /\ approval'[i] = approval[i]
  BY <1>2, <1>3 DEF move, TypeOK
<1>5. Leads(new, record, verdict, going)
  BY <1>2, <1>3, EmittedLeads
<1>6. /\ old \in Seq(Event) /\ new \in Seq(Event) /\ k \in {1, 2} /\ k <= Len(new)
      /\ record # NONE => new[1] = verdict
      /\ \A n \in 1 .. Len(new) : new[n].kind = "GOVERNANCE_DECISION" <=> record # NONE /\ n = 1
  BY <1>2, <1>3, <1>5 DEF Leads, TypeOK
<1>7. PICK before, added, long :
        /\ long = old \o new
        /\ before = {n \in DOMAIN old : old[n].kind = "GOVERNANCE_DECISION"}
        /\ added = {n \in DOMAIN new : new[n].kind = "GOVERNANCE_DECISION"}
  OBVIOUS
<1>8. /\ Len(old) \in Nat /\ DOMAIN old = 1 .. Len(old) /\ DOMAIN new = 1 .. Len(new)
      /\ 1 \in DOMAIN new
      /\ \A n \in DOMAIN old : long[n] = old[n]
      /\ \A n \in DOMAIN new : long[Len(old) + n] = new[n]
  BY <1>6, <1>7
<1>9. added = IF record = NONE THEN {} ELSE {1}
  BY <1>6, <1>7, <1>8
<1>10. recorded(j, "GOVERNANCE_DECISION")' = before \union {Len(old) + m : m \in added}
  BY <1>4, <1>6, <1>7, RecordedGrows DEF recorded
<1>11. Judged(j) = {old[n].approval : n \in before}
  BY <1>2, <1>7 DEF Judged, recorded
<1>12. Judged(j)' = Judged(j) \union (IF record = NONE THEN {} ELSE {record})
  <2>1. Judged(j)' = {long[n].approval : n \in before \union {Len(old) + m : m \in added}}
    BY <1>4, <1>7, <1>10 DEF Judged
  <2>2. \A n \in before : long[n] = old[n]
    BY <1>7, <1>8
  <2>3. {long[n].approval : n \in before} = Judged(j)
    BY <1>11, <2>2
  <2>4. CASE record = NONE
    <3>1. {Len(old) + m : m \in added} = {}
      BY <1>9, <2>4
    <3>2. QED BY <2>1, <2>3, <2>4, <3>1
  <2>5. CASE record # NONE
    <3>1. {Len(old) + m : m \in added} = {Len(old) + 1}
      BY <1>9, <2>5
    <3>2. long[Len(old) + 1].approval = record
      BY <1>2, <1>6, <1>8, <2>5 DEF GovernanceDecision
    <3>3. {long[n].approval : n \in before \union {Len(old) + 1}}
            = {long[n].approval : n \in before} \union {long[Len(old) + 1].approval}
      OBVIOUS
    <3>4. QED BY <2>1, <2>3, <2>5, <3>1, <3>2, <3>3
  <2>6. QED BY <2>4, <2>5
<1>13. Range(decisions'[j]) = Range(decisions[j]) \union (IF record = NONE THEN {} ELSE {record})
  <2>1. decisions[j] \in Seq(Decision)
    BY <1>3 DEF TypeOK
  <2>2. CASE record = NONE
    BY <1>4, <2>2
  <2>3. CASE record # NONE
    BY <1>4, <2>1, <2>3, OneMoreVerdict
  <2>4. QED BY <2>2, <2>3
<1>14. VerdictsHeld(j)
  BY DEF VerdictInv
<1>15. record # NONE => approval[j] = NONE
  <2> SUFFICES ASSUME record # NONE PROVE approval[j] = NONE
    OBVIOUS
  <2>1. state[j] = "GOVERNANCE_ANALYSIS"
    BY <1>3 DEF decision_for_edge, DECISION_BY_EDGE, DECISION_GATE
  <2>2. QED BY <2>1 DEF LockInv, ExecutionLock
<1>16. VerdictsHeld(j)'
  <2>1. Judged(j)' = Range(decisions'[j])
    BY <1>12, <1>13, <1>14 DEF VerdictsHeld
  <2>2. CASE record = NONE
    <3>1. approval'[j] = approval[j] /\ Range(decisions'[j]) = Range(decisions[j])
      BY <1>4, <1>13, <2>2 DEF approval_after
    <3>2. QED BY <1>14, <2>1, <3>1 DEF VerdictsHeld
  <2>3. CASE record # NONE
    <3>1. /\ approval'[j] = IF record.decision = "APPROVE" THEN record ELSE NONE
          /\ Range(decisions'[j]) = Range(decisions[j]) \union {record}
      BY <1>4, <1>13, <2>3 DEF approval_after
    <3>2. \A d \in Range(decisions[j]) : d.decision # "APPROVE"
      <4>1. \A d \in Range(decisions[j]) : d \in Decision
        BY <1>3 DEF TypeOK, Range
      <4>2. NONE \notin Decision
        BY JobAssumption
      <4>3. QED BY <1>14, <1>15, <2>3, <4>1, <4>2 DEF VerdictsHeld
    <3>3. QED BY <2>1, <2>3, <3>1, <3>2 DEF VerdictsHeld
  <2>4. QED BY <2>2, <2>3
<1>17. \A i \in Jobs \ {j} : VerdictsHeld(i)'
  BY <1>4, VerdictsStay DEF VerdictInv
<1>18. QED BY <1>16, <1>17 DEF VerdictInv

\* So does every step.
LEMMA NextJudges ==
  ASSUME LockInv, VerdictInv, [Next]_vars
  PROVE  VerdictInv'
<1>1. CASE Constructs
  <2>1. PICK j \in Jobs, id \in Ids, tenant_given \in Tenants, workspace \in Workspaces,
             principal \in Principals, supersedes \in Ids \union {NONE} :
          construct(j, id, tenant_given, workspace, principal, supersedes)
    BY <1>1 DEF Constructs
  <2>2. /\ approval'[j] = NONE /\ decisions'[j] = <<>>
        /\ events'[j] = <<JobCreated(id, tenant_given, supersedes)>>
        /\ \A i \in Jobs \ {j} : /\ events'[i] = events[i] /\ decisions'[i] = decisions[i]
                                 /\ approval'[i] = approval[i]
    <3>1. state[j] = "DRAFT" /\ decisions[j] = <<>>
      BY <2>1 DEF construct, LockInv, BlankUntilConstructed
    <3>2. approval[j] = NONE
      BY <3>1 DEF LockInv, ExecutionLock
    <3>3. QED BY <2>1, <3>1, <3>2 DEF construct, LockInv, TypeOK
  <2>3. Range(decisions'[j]) = {}
    BY <2>2 DEF Range
  <2>4. Judged(j)' = {}
    <3>1. \A n \in DOMAIN events'[j] : events'[j][n].kind = "JOB_CREATED"
      BY <2>2 DEF JobCreated
    <3>2. QED BY <3>1 DEF Judged, recorded
  <2>5. VerdictsHeld(j)'
    BY <2>2, <2>3, <2>4 DEF VerdictsHeld
  <2>6. QED BY <2>2, <2>5, VerdictsStay DEF VerdictInv
<1>2. CASE Moved
  BY <1>2, MovedJudges
<1>3. CASE UNCHANGED <<approval, decisions, events>>
  BY <1>3, VerdictsStay DEF VerdictInv
<1>4. QED
  BY <1>1, <1>2, <1>3, Steps DEF LockInv, Tick, vars

\* Nothing is judged at the start.
LEMMA InitJudges == Init => VerdictInv
<1> SUFFICES ASSUME Init PROVE VerdictInv
  OBVIOUS
<1>1. ASSUME NEW j \in Jobs PROVE VerdictsHeld(j)
  <2>1. approval[j] = NONE /\ decisions[j] = <<>> /\ events[j] = <<>>
    BY DEF Init
  <2>2. Range(decisions[j]) = {} /\ Judged(j) = {}
    BY <2>1 DEF Range, Judged, recorded
  <2>3. QED BY <2>1, <2>2 DEF VerdictsHeld
<1>2. QED BY <1>1 DEF VerdictInv

\* The verdicts of a trail are the decisions of its job.
LEMMA VerdictInvariant == Spec => []VerdictInv
  BY InitJudges, NextJudges, LockInvariant, PTL DEF Spec
=============================================================================
