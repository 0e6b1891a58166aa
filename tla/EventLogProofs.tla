--------------------------- MODULE EventLogProofs ---------------------------
(***************************************************************************)
(* What the event log keeps for any number of writers, any feeds and any   *)
(* batches: its types, and that a tenant's own records alone refuse one.   *)
(* Provided no two writers are given the same id for the same tenant it    *)
(* meets its contract too, and writes a batch in its order.  Without that  *)
(* it does not meet it, as a run shows.                                    *)
(***************************************************************************)
EXTENDS EventLog, TLAPS

\* A record stored and not yet marked as seen.
marking(w, t, id) ==
  /\ call[w].pc = "marking"
  /\ current(w).tenant_id = t /\ current(w).event_id = id

holds(t, id) == \E n \in DOMAIN partitions[t] : partitions[t][n].event_id = id

\* Every writer writes its own feed.
OwnFeed == \A w \in Writers : call[w].events \in Seq(Feeds[w])

\* The seen sets lag behind the partitions by the records being marked.
Lag ==
  \A t \in Tenants : \A id :
    /\ id \in seen[t] => holds(t, id)
    /\ holds(t, id) => id \in seen[t] \/ \E w \in Writers : marking(w, t, id)

\* Past the checks a record is attributable, and past the append it is there.
Admitted ==
  \A w \in Writers :
    /\ call[w].pc \in {"storing", "marking"} => Contract!attributable(current(w))
    /\ call[w].pc = "marking" => holds(current(w).tenant_id, current(w).event_id)

\* What the lookup found is still so when the record is stored.
StillNew ==
  \A w \in Writers :
    call[w].pc = "storing" => ~holds(current(w).tenant_id, current(w).event_id)

\* What holds whoever writes what, and what needs feeds that are disjoint.
WriterInv == TypeOK /\ OwnFeed /\ Lag /\ Admitted
LogInv == WriterInv /\ StillNew /\ EachOnce

-----------------------------------------------------------------------------
\* The record a writer is at is one of its own feed.
LEMMA CurrentIsOwn ==
  ASSUME TypeOK, OwnFeed, NEW w \in Writers, call[w].pc # "returned"
  PROVE  current(w) \in Feeds[w] /\ current(w) \in Records
<1>1. call[w].done \in Nat /\ call[w].done < Len(call[w].events)
  BY DEF TypeOK, Call
<1>2. call[w].events \in Seq(Feeds[w])
  BY DEF OwnFeed
<1>3. current(w) \in Feeds[w]
  BY <1>1, <1>2 DEF current
<1>4. QED
  BY <1>3 DEF Records

\* Two writers are never at the same id of the same tenant.
LEMMA Apart ==
  ASSUME DisjointFeeds, TypeOK, OwnFeed, NEW v \in Writers, NEW w \in Writers, v # w,
         call[v].pc # "returned", call[w].pc # "returned"
  PROVE  current(v).event_id # current(w).event_id
           \/ current(v).tenant_id # current(w).tenant_id
  BY CurrentIsOwn DEF DisjointFeeds

\* An empty log is in order.
LEMMA InitLog == Init => LogInv
<1> SUFFICES ASSUME Init PROVE LogInv
  OBVIOUS
<1>1. TypeOK
  BY DEF Init, TypeOK, Call
<1>2. OwnFeed
  <2>1. \A w \in Writers : call[w].events = <<>>
    BY DEF Init
  <2>2. ASSUME NEW S PROVE <<>> \in Seq(S)
    OBVIOUS
  <2>3. QED BY <2>1, <2>2 DEF OwnFeed
<1>3. Lag /\ Admitted /\ StillNew /\ EachOnce
  BY DEF Init, Lag, Admitted, StillNew, EachOnce, holds
<1>4. QED BY <1>1, <1>2, <1>3 DEF LogInv, WriterInv

\* What one writer's step leaves alone about the others.
LEMMA Others ==
  ASSUME TypeOK, NEW w \in Writers, NEW c, call' = [call EXCEPT ![w] = c]
  PROVE  \A v \in Writers \ {w} :
           /\ call'[v] = call[v] /\ current(v)' = current(v)
           /\ \A t, id : marking(v, t, id)' <=> marking(v, t, id)
<1>1. \A v \in Writers \ {w} : call'[v] = call[v]
  BY DEF TypeOK
<1>2. QED BY <1>1 DEF current, marking

\* Starting a batch touches no log.
LEMMA ExtendKeeps ==
  ASSUME WriterInv, NEW w \in Writers, Extend(w)
  PROVE  WriterInv' /\ (LogInv => LogInv')
<1>0. PICK n \in 1 .. MaxBatch : \E events \in [1 .. n -> Feeds[w]] :
        call' = [call EXCEPT ![w] =
                  [events |-> events, done |-> 0, pc |-> "checking", error |-> NONE]]
  BY DEF Extend
<1>1. PICK events \in [1 .. n -> Feeds[w]] :
        call' = [call EXCEPT ![w] =
                  [events |-> events, done |-> 0, pc |-> "checking", error |-> NONE]]
  BY <1>0
<1>2. call[w].pc = "returned" /\ UNCHANGED <<partitions, seen>>
  BY DEF Extend
<1>3. n \in Nat /\ n > 0 /\ events \in Seq(Feeds[w]) /\ events \in Seq(Records)
      /\ Len(events) = n
  BY LogAssumption DEF Records
<1>4. call'[w] = [events |-> events, done |-> 0, pc |-> "checking", error |-> NONE]
  BY <1>1 DEF WriterInv, TypeOK
<1>5. \A v \in Writers \ {w} :
        /\ call'[v] = call[v] /\ current(v)' = current(v)
        /\ \A t, id : marking(v, t, id)' <=> marking(v, t, id)
  BY <1>1, Others DEF WriterInv
<1>6. \A t, id : ~marking(w, t, id) /\ ~marking(w, t, id)'
  BY <1>2, <1>4 DEF marking
<1>7. call'[w] \in Call
  BY <1>3, <1>4 DEF Call
<1>8. TypeOK'
  BY <1>1, <1>2, <1>3, <1>4, <1>5, <1>7 DEF WriterInv, TypeOK
<1>9. OwnFeed'
  BY <1>3, <1>4, <1>5 DEF WriterInv, OwnFeed
<1>10. Lag'
  BY <1>2, <1>5, <1>6 DEF WriterInv, Lag, holds
<1>11. Admitted'
  BY <1>2, <1>4, <1>5 DEF WriterInv, Admitted, holds, Contract!attributable
<1>12. WriterInv'
  BY <1>8, <1>9, <1>10, <1>11 DEF WriterInv
<1>13. ASSUME LogInv PROVE StillNew' /\ EachOnce'
  BY <1>2, <1>4, <1>5, <1>13 DEF LogInv, StillNew, EachOnce, holds
<1>14. QED BY <1>12, <1>13 DEF LogInv

\* What the lookup lets through is new to its tenant: whatever the seen set is
\* missing belongs to another writer's feed.
LEMMA CheckKeeps ==
  ASSUME WriterInv, NEW w \in Writers, Check(w)
  PROVE  WriterInv' /\ (DisjointFeeds /\ LogInv => LogInv')
<1> DEFINE event == current(w)
           why == refusal(event)
           next == [call[w] EXCEPT !.pc = IF why = NONE THEN "storing" ELSE "returned",
                                   !.error = why]
<1>1. call[w].pc = "checking" /\ UNCHANGED <<partitions, seen>>
  BY DEF Check
<1>2. call[w] \in Call /\ event \in Feeds[w]
  BY <1>1, CurrentIsOwn DEF WriterInv, TypeOK
<1>3. why \in Errors \union {NONE}
  BY DEF refusal, Errors
<1>4. call' = [call EXCEPT ![w] = next]
  BY <1>2 DEF Check, Call
<1>5. /\ call'[w] = next /\ next \in Call
      /\ next.events = call[w].events /\ next.done = call[w].done /\ current(w)' = event
      /\ next.pc = IF why = NONE THEN "storing" ELSE "returned"
  BY <1>2, <1>3, <1>4 DEF WriterInv, TypeOK, Call, current
<1>6. \A v \in Writers \ {w} :
        /\ call'[v] = call[v] /\ current(v)' = current(v)
        /\ \A t, id : marking(v, t, id)' <=> marking(v, t, id)
  BY <1>4, Others DEF WriterInv
<1>7. \A t, id : ~marking(w, t, id) /\ ~marking(w, t, id)'
  BY <1>1, <1>5 DEF marking
<1> HIDE DEF next, why
<1>8. TypeOK'
  BY <1>1, <1>4, <1>5, <1>6 DEF WriterInv, TypeOK
<1>9. OwnFeed'
  BY <1>5, <1>6 DEF WriterInv, OwnFeed
<1>10. Lag'
  BY <1>1, <1>6, <1>7 DEF WriterInv, Lag, holds
<1>11. ASSUME why = NONE
       PROVE  /\ Contract!attributable(event)
              /\ event.event_id \notin seen[event.tenant_id]
  <2>1. event.tenant_id \in Tenants /\ event.subject_id # NONE
    BY <1>2, <1>11, LogAssumption DEF why, refusal, Errors
  <2>2. event.event_id \notin seen[event.tenant_id]
    BY <1>11, <2>1, LogAssumption DEF why, refusal, duplicate, Errors
  <2>3. QED
    BY <2>1, <2>2 DEF Contract!attributable
<1>12. Admitted'
  BY <1>1, <1>5, <1>6, <1>11 DEF WriterInv, Admitted, holds, Contract!attributable
<1>13. WriterInv'
  BY <1>8, <1>9, <1>10, <1>12 DEF WriterInv
<1>14. ASSUME DisjointFeeds, LogInv PROVE StillNew' /\ EachOnce'
  <2>1. \A v \in Writers : ~marking(v, event.tenant_id, event.event_id)
    BY <1>1, <1>14, Apart DEF WriterInv, marking
  <2>2. why = NONE => ~holds(event.tenant_id, event.event_id)
    BY <1>11, <2>1 DEF WriterInv, Lag, Contract!attributable
  <2>3. StillNew'
    BY <1>1, <1>5, <1>6, <1>14, <2>2 DEF LogInv, StillNew, holds
  <2>4. EachOnce'
    BY <1>1, <1>14 DEF LogInv, EachOnce
  <2>5. QED
    BY <2>3, <2>4
<1>15. QED
  BY <1>13, <1>14 DEF LogInv

\* An appended record adds its id to the ids of a sequence and no other.
LEMMA AppendedIds ==
  ASSUME NEW S, NEW s \in Seq(S), NEW e \in S, NEW id
  PROVE  (\E n \in DOMAIN Append(s, e) : Append(s, e)[n].event_id = id)
           <=> (\E n \in DOMAIN s : s[n].event_id = id) \/ id = e.event_id
<1> DEFINE new == Append(s, e)
<1>1. /\ DOMAIN new = 1 .. Len(s) + 1 /\ DOMAIN s = 1 .. Len(s) /\ Len(s) \in Nat
      /\ \A n \in 1 .. Len(s) : new[n] = s[n]
      /\ new[Len(s) + 1] = e
  OBVIOUS
<1>2. \A n \in DOMAIN new : n \in DOMAIN s \/ n = Len(s) + 1
  BY <1>1
<1>3. DOMAIN s \subseteq DOMAIN new /\ Len(s) + 1 \in DOMAIN new
  BY <1>1
<1>4. \A n \in DOMAIN s : new[n] = s[n]
  BY <1>1
<1>5. new[Len(s) + 1] = e
  BY <1>1
<1> HIDE DEF new
<1>6. QED
  BY <1>2, <1>3, <1>4, <1>5 DEF new

\* The step that changes what the log holds.
LEMMA StoreKeeps ==
  ASSUME WriterInv, NEW w \in Writers, Store(w)
  PROVE  /\ WriterInv'
         /\ DisjointFeeds /\ LogInv => LogInv' /\ Contract!Append_once(current(w))
<1> DEFINE next == [call[w] EXCEPT !.pc = "marking"]
<1>0. PICK event, tenant : event = current(w) /\ tenant = event.tenant_id
  OBVIOUS
<1>1. call[w].pc = "storing" /\ UNCHANGED seen
  BY DEF Store
<1>2. /\ call[w] \in Call /\ event \in Records
      /\ Contract!attributable(event) /\ tenant \in Tenants
  BY <1>0, <1>1, CurrentIsOwn DEF WriterInv, TypeOK, Admitted, Contract!attributable
<1>3. call' = [call EXCEPT ![w] = next]
  BY <1>2 DEF Store, Call
<1>4. /\ call'[w] = next /\ next \in Call
      /\ next.events = call[w].events /\ next.done = call[w].done
      /\ next.pc = "marking" /\ current(w)' = event
  BY <1>0, <1>2, <1>3 DEF WriterInv, TypeOK, Call, current
<1>5. \A v \in Writers \ {w} :
        /\ call'[v] = call[v] /\ current(v)' = current(v)
        /\ \A t, id : marking(v, t, id)' <=> marking(v, t, id)
  BY <1>3, Others DEF WriterInv
<1>6. partitions' = [partitions EXCEPT ![tenant] = Append(@, event)]
  BY <1>0 DEF Store
<1>7. /\ partitions[tenant] \in Seq(Records)
      /\ partitions'[tenant] = Append(partitions[tenant], event)
      /\ \A t \in Tenants \ {tenant} : partitions'[t] = partitions[t]
  BY <1>2, <1>6 DEF WriterInv, TypeOK
<1> HIDE DEF next
<1>8. partitions' \in [Tenants -> Seq(Records)]
  BY <1>2, <1>6, <1>7 DEF WriterInv, TypeOK
<1>9. TypeOK'
  BY <1>1, <1>3, <1>4, <1>5, <1>8 DEF WriterInv, TypeOK
<1>10. OwnFeed'
  BY <1>4, <1>5 DEF WriterInv, OwnFeed
<1>11. ASSUME NEW t \in Tenants, NEW id
       PROVE  holds(t, id)' <=> holds(t, id) \/ (t = tenant /\ id = event.event_id)
  <2>1. CASE t # tenant
    BY <1>7, <2>1 DEF holds
  <2>2. CASE t = tenant
    <3>1. partitions[t] \in Seq(Records) /\ partitions'[t] = Append(partitions[t], event)
      BY <1>7, <2>2
    <3>2. holds(t, id)' <=> \E n \in DOMAIN Append(partitions[t], event) :
                              Append(partitions[t], event)[n].event_id = id
      BY <3>1 DEF holds
    <3>3. holds(t, id)' <=> holds(t, id) \/ id = event.event_id
      BY <1>2, <3>1, <3>2, AppendedIds DEF holds
    <3>4. QED BY <2>2, <3>3
  <2>3. QED BY <2>1, <2>2
<1>12. \A t, id : ~marking(w, t, id)
  BY <1>1 DEF marking
<1>13. marking(w, tenant, event.event_id)'
  BY <1>0, <1>4 DEF marking
<1>14. Lag'
  BY <1>1, <1>5, <1>11, <1>12, <1>13 DEF WriterInv, Lag
<1>15. Admitted'
  <2>1. ASSUME NEW v \in Writers \ {w}, call[v].pc = "marking"
        PROVE  holds(current(v).tenant_id, current(v).event_id)'
    <3>1. PICK other : other = current(v)
      OBVIOUS
    <3>2. other = current(v)'
      BY <1>5, <3>1
    <3>3. other.tenant_id \in Tenants /\ holds(other.tenant_id, other.event_id)
      BY <2>1, <3>1 DEF WriterInv, Admitted, Contract!attributable
    <3>4. holds(other.tenant_id, other.event_id)'
      BY <1>11, <3>3
    <3>5. QED BY <3>2, <3>4 DEF holds
  <2>2. holds(tenant, event.event_id)'
    BY <1>2, <1>11
  <2>3. /\ Contract!attributable(current(w))'
        /\ holds(current(w).tenant_id, current(w).event_id)'
    BY <1>0, <1>2, <1>4, <2>2 DEF Contract!attributable, holds
  <2>4. \A v \in Writers \ {w} :
          Contract!attributable(current(v))' <=> Contract!attributable(current(v))
    BY <1>5 DEF Contract!attributable
  <2>5. QED
    BY <1>5, <2>1, <2>3, <2>4 DEF WriterInv, Admitted
<1>16. WriterInv'
  BY <1>9, <1>10, <1>14, <1>15 DEF WriterInv
<1>17. ASSUME DisjointFeeds, LogInv
       PROVE  StillNew' /\ EachOnce' /\ Contract!Append_once(current(w))
  <2>0. ~holds(tenant, event.event_id)
    BY <1>0, <1>1, <1>17 DEF LogInv, StillNew
  <2>1. StillNew'
    <3>1. ASSUME NEW v \in Writers \ {w}, call[v].pc = "storing"
          PROVE  ~holds(current(v).tenant_id, current(v).event_id)'
      <4>1. PICK other : other = current(v)
        OBVIOUS
      <4>2. other = current(v)'
        BY <1>5, <4>1
      <4>3. other.tenant_id \in Tenants /\ ~holds(other.tenant_id, other.event_id)
        BY <1>17, <3>1, <4>1 DEF LogInv, WriterInv, Admitted, StillNew, Contract!attributable
      <4>4. other.event_id # event.event_id \/ other.tenant_id # tenant
        BY <1>0, <1>1, <1>17, <3>1, <4>1, Apart DEF WriterInv
      <4>5. ~holds(other.tenant_id, other.event_id)'
        BY <1>11, <4>3, <4>4
      <4>6. QED BY <4>2, <4>5 DEF holds
    <3>2. call'[w].pc = "marking"
      BY <1>4
    <3>3. QED
      BY <1>5, <3>1, <3>2 DEF StillNew
  <2>2. EachOnce'
    <3> SUFFICES ASSUME NEW t \in Tenants, NEW m \in DOMAIN partitions'[t],
                        NEW n \in DOMAIN partitions'[t], m # n
                 PROVE  partitions'[t][m].event_id # partitions'[t][n].event_id
      BY DEF EachOnce
    <3>1. CASE t # tenant
      BY <1>7, <1>17, <3>1 DEF LogInv, EachOnce
    <3>2. CASE t = tenant
      <4> DEFINE trail == partitions[tenant]
      <4>1. /\ DOMAIN partitions'[tenant] = 1 .. Len(trail) + 1
            /\ partitions'[tenant][Len(trail) + 1] = event
            /\ Len(trail) \in Nat /\ DOMAIN trail = 1 .. Len(trail)
        BY <1>7
      <4>2. \A i \in 1 .. Len(trail) :
              partitions'[tenant][i] = trail[i] /\ trail[i].event_id # event.event_id
        BY <1>7, <2>0 DEF holds
      <4>3. \A i, k \in 1 .. Len(trail) : trail[i].event_id = trail[k].event_id => i = k
        BY <1>2, <1>17, <4>1 DEF LogInv, EachOnce
      <4> HIDE DEF trail
      <4>4. QED BY <3>2, <4>1, <4>2, <4>3
    <3>3. QED BY <3>1, <3>2
  <2>3. Contract!Append_once(current(w))
    <3>1. event.event_id \notin Contract!ids_of(partitions[tenant])
      BY <1>2, <2>0 DEF Contract!ids_of, Contract!Range, holds
    <3>2. QED BY <1>0, <1>2, <1>6, <3>1 DEF Contract!Append_once
  <2>4. QED
    BY <2>1, <2>2, <2>3
<1>18. QED
  BY <1>16, <1>17 DEF LogInv

\* Marking a stored record as seen ends the lag it was.
LEMMA MarkKeeps ==
  ASSUME WriterInv, NEW w \in Writers, Mark(w)
  PROVE  WriterInv' /\ (LogInv => LogInv')
<1> DEFINE next == [call[w] EXCEPT !.done = @ + 1,
                                   !.pc = IF call[w].done + 1 = Len(call[w].events)
                                            THEN "returned" ELSE "checking"]
<1>0. PICK event, tenant : event = current(w) /\ tenant = event.tenant_id
  OBVIOUS
<1>1. /\ call[w].pc = "marking" /\ UNCHANGED partitions
      /\ seen' = [seen EXCEPT ![tenant] = @ \union {event.event_id}]
  BY <1>0 DEF Mark
<1>2. /\ call[w] \in Call /\ event \in Records /\ tenant \in Tenants
      /\ call[w].done \in Nat /\ call[w].done < Len(call[w].events)
      /\ Len(call[w].events) \in Nat
  BY <1>0, <1>1, CurrentIsOwn DEF WriterInv, TypeOK, Admitted, Contract!attributable, Call
<1>3. call' = [call EXCEPT ![w] = next]
  BY <1>2 DEF Mark, Call
<1>4. /\ call'[w] = next /\ next \in Call
      /\ next.events = call[w].events /\ next.pc \in {"returned", "checking"}
      /\ next.pc # "returned" => next.done < Len(next.events)
  <2>1. call'[w] = next
    BY <1>3 DEF WriterInv, TypeOK
  <2>2. /\ next.events = call[w].events /\ next.done = call[w].done + 1
        /\ next.pc = (IF call[w].done + 1 = Len(call[w].events)
                        THEN "returned" ELSE "checking")
    BY <1>2 DEF Call
  <2>3. next \in Call
    <3> DEFINE pc == IF call[w].done + 1 = Len(call[w].events)
                       THEN "returned" ELSE "checking"
    <3> HIDE DEF pc
    <3>0. pc \in {"returned", "checking"} /\ next = [call[w] EXCEPT !.done = @ + 1, !.pc = pc]
      BY DEF pc
    <3> HIDE DEF next
    <3>1. next = [events |-> call[w].events, done |-> call[w].done + 1, pc |-> pc,
                  error |-> call[w].error]
      BY <1>2, <3>0 DEF Call
    <3>2. /\ call[w].events \in Seq(Records) /\ call[w].done + 1 \in Nat
          /\ call[w].error \in Errors \union {NONE}
      BY <1>2 DEF Call
    <3>3. QED BY <3>0, <3>1, <3>2 DEF Call
  <2> HIDE DEF next
  <2>4. QED BY <1>2, <2>1, <2>2, <2>3
<1>5. \A v \in Writers \ {w} :
        /\ call'[v] = call[v] /\ current(v)' = current(v)
        /\ \A t, id : marking(v, t, id)' <=> marking(v, t, id)
  BY <1>3, Others DEF WriterInv
<1> HIDE DEF next
<1>6. seen' \in [Tenants -> SUBSET {r.event_id : r \in Records}]
  BY <1>1, <1>2 DEF WriterInv, TypeOK
<1>7. TypeOK'
  BY <1>1, <1>3, <1>4, <1>5, <1>6 DEF WriterInv, TypeOK
<1>8. OwnFeed'
  BY <1>4, <1>5 DEF WriterInv, OwnFeed
<1>9. \A t \in Tenants : \A id :
        id \in seen'[t] <=> id \in seen[t] \/ (t = tenant /\ id = event.event_id)
  BY <1>1, <1>2 DEF WriterInv, TypeOK
<1>10. \A t, id : marking(w, t, id) <=> t = tenant /\ id = event.event_id
  BY <1>0, <1>1 DEF marking
<1>11. \A t, id : ~marking(w, t, id)'
  BY <1>4 DEF marking
<1>12. \A t, id : holds(t, id)' <=> holds(t, id)
  BY <1>1 DEF holds
<1>13. holds(tenant, event.event_id)
  BY <1>0, <1>1 DEF WriterInv, Admitted
<1>14. Lag'
  BY <1>5, <1>9, <1>10, <1>11, <1>12, <1>13 DEF WriterInv, Lag
<1>15. Admitted'
  BY <1>1, <1>4, <1>5 DEF WriterInv, Admitted, holds, Contract!attributable
<1>16. WriterInv'
  BY <1>7, <1>8, <1>14, <1>15 DEF WriterInv
<1>17. ASSUME LogInv PROVE StillNew' /\ EachOnce'
  BY <1>1, <1>4, <1>5, <1>17 DEF LogInv, StillNew, EachOnce, holds
<1>18. QED BY <1>16, <1>17 DEF LogInv

-----------------------------------------------------------------------------
\* Every step of every writer keeps what a writer knows, and with feeds that are
\* disjoint the log in order and the contract with it.
LEMMA StepsKeep ==
  ASSUME WriterInv, [Next]_vars
  PROVE  /\ WriterInv'
         /\ DisjointFeeds /\ LogInv => LogInv' /\ [Contract!Next]_partitions
<1>1. ASSUME NEW w \in Writers, Extend(w) \/ Check(w) \/ Mark(w)
      PROVE  WriterInv' /\ UNCHANGED partitions /\ (DisjointFeeds /\ LogInv => LogInv')
  BY <1>1, ExtendKeeps, CheckKeeps, MarkKeeps DEF Extend, Check, Mark
<1>2. ASSUME NEW w \in Writers, Store(w)
      PROVE  WriterInv' /\ (DisjointFeeds /\ LogInv => LogInv' /\ Contract!Next)
  <2>1. current(w) \in Records
    BY <1>2, CurrentIsOwn DEF WriterInv, Store
  <2>2. WriterInv' /\ (DisjointFeeds /\ LogInv => LogInv' /\ Contract!Append_once(current(w)))
    BY <1>2, StoreKeeps
  <2>3. QED BY <2>1, <2>2 DEF Contract!Next
<1>3. CASE UNCHANGED vars
  <2>1. partitions' = partitions /\ seen' = seen /\ call' = call
    BY <1>3 DEF vars
  <2>2. TypeOK' /\ OwnFeed'
    BY <2>1 DEF WriterInv, TypeOK, OwnFeed
  <2>3. Lag'
    BY <2>1 DEF WriterInv, Lag, holds, marking, current
  <2>4. Admitted'
    BY <2>1 DEF WriterInv, Admitted, holds, current, Contract!attributable
  <2>5. WriterInv'
    BY <2>2, <2>3, <2>4 DEF WriterInv
  <2>6. LogInv => StillNew' /\ EachOnce'
    BY <2>1 DEF LogInv, StillNew, EachOnce, holds, current
  <2>7. QED BY <2>1, <2>5, <2>6 DEF LogInv
<1>4. CASE Next
  <2>1. PICK w \in Writers : Extend(w) \/ Check(w) \/ Store(w) \/ Mark(w)
    BY <1>4 DEF Next
  <2>2. QED BY <1>1, <1>2, <2>1
<1>5. QED
  BY <1>3, <1>4

\* Every step of a writer keeps it.
LEMMA WriterInvariant == Spec => []WriterInv
<1>1. Init => WriterInv
  BY InitLog DEF LogInv
<1>2. WriterInv /\ [Next]_vars => WriterInv'
  BY StepsKeep
<1>3. QED BY <1>1, <1>2, PTL DEF Spec

\* Whatever is written, by however many writers with feeds of their own, every
\* tenant holds each of its ids once.
THEOREM IdempotentLog == DisjointFeeds => (Spec => []EachOnce)
<1> SUFFICES ASSUME DisjointFeeds PROVE Spec => []EachOnce
  OBVIOUS
<1>1. LogInv /\ [Next]_vars => LogInv'
  BY StepsKeep DEF LogInv
<1>2. LogInv => EachOnce
  BY DEF LogInv
<1>3. QED BY <1>1, <1>2, InitLog, PTL DEF Spec

\* Every step of the log is a step its contract allows, or none.
THEOREM LogMeetsContract == DisjointFeeds => (Spec => MeetsContract)
<1> SUFFICES ASSUME DisjointFeeds PROVE Spec => Contract!Spec
  BY DEF MeetsContract
<1>1. Init => Contract!Init
  BY DEF Init, Contract!Init
<1>2. LogInv /\ [Next]_vars => LogInv' /\ [Contract!Next]_partitions
  BY StepsKeep DEF LogInv
<1>3. QED BY <1>1, <1>2, InitLog, PTL DEF Spec, Contract!Spec

\* The log, what is known of it and every call keep their types.
THEOREM LogTypeCorrect == Spec => []TypeOK
<1>1. WriterInv => TypeOK
  BY DEF WriterInv
<1>2. QED BY <1>1, WriterInvariant, PTL

-----------------------------------------------------------------------------
(* What a writer is told, and the order its batch goes in.                 *)

\* A record refused as a duplicate is held by its own tenant, and was when the
\* batch ended there.
Refused ==
  \A w \in Writers : call[w].error = "DuplicateEvent" =>
    /\ call[w].pc = "returned"
    /\ holds(current(w).tenant_id, current(w).event_id)

\* The records of a batch that are in the log, the one being marked included.
written(w) == IF call[w].pc = "marking" THEN call[w].done + 1 ELSE call[w].done

\* One id stands before another in a tenant's partition.
before(t, first, second) ==
  \A m, n \in DOMAIN partitions[t] :
    partitions[t][m].event_id = first /\ partitions[t][n].event_id = second => m < n

\* All of them are in the log, each behind those of its tenant that came before
\* it in the batch.
InOrder ==
  \A w \in Writers : \A k \in 1 .. written(w) :
    LET batch == call[w].events
        t == batch[k].tenant_id
    IN /\ holds(t, batch[k].event_id)
       /\ \A i \in 1 .. k - 1 :
            batch[i].tenant_id = t => before(t, batch[i].event_id, batch[k].event_id)

BatchInv == LogInv /\ Refused /\ InOrder

\* What a store does to the log: one record, new to its tenant, at the end.
LEMMA StoreAppends ==
  ASSUME WriterInv, NEW w \in Writers, Store(w)
  PROVE  LET event == current(w)
             t == event.tenant_id
         IN /\ t \in Tenants
            /\ Len(partitions[t]) \in Nat
            /\ DOMAIN partitions[t] = 1 .. Len(partitions[t])
            /\ DOMAIN partitions'[t] = 1 .. Len(partitions[t]) + 1
            /\ \A n \in DOMAIN partitions[t] : partitions'[t][n] = partitions[t][n]
            /\ partitions'[t][Len(partitions[t]) + 1] = event
            /\ \A u : u # t => partitions'[u] = partitions[u]
<1> DEFINE event == current(w)
           t == event.tenant_id
<1>1. t \in Tenants
  BY DEF Store, WriterInv, Admitted, Contract!attributable
<1> HIDE DEF event, t
<1>2. partitions' = [partitions EXCEPT ![t] = Append(@, event)]
  BY DEF Store, event, t
<1>3. /\ partitions \in [Tenants -> Seq(Records)]
      /\ partitions[t] \in Seq(Records) /\ event \in Records
  BY <1>1, CurrentIsOwn DEF WriterInv, TypeOK, Store, event
<1>4. partitions'[t] = Append(partitions[t], event)
  BY <1>1, <1>2, <1>3
<1>5. ASSUME NEW u, u # t PROVE partitions'[u] = partitions[u]
  <2>1. CASE u \in Tenants
    BY <1>2, <1>3, <1>5, <2>1
  <2>2. CASE u \notin Tenants
    BY <1>2, <1>3, <1>5, <2>2
  <2>3. QED BY <2>1, <2>2
<1>6. QED
  BY <1>1, <1>3, <1>4, <1>5 DEF event, t

\* The other writers' steps aside, a step keeps what a writer was told and the
\* order its batch went in.
LEMMA BatchSteps ==
  ASSUME WriterInv, Refused, NEW w \in Writers,
         Extend(w) \/ Check(w) \/ Mark(w)
  PROVE  Refused' /\ (InOrder => InOrder')
<1>1. TypeOK /\ UNCHANGED partitions /\ call[w] \in Call
  BY DEF WriterInv, TypeOK, Extend, Check, Mark
<1>2. PICK c : call' = [call EXCEPT ![w] = c]
  BY <1>1 DEF Extend, Check, Mark, Call
<1>3. /\ call'[w] = c
      /\ \A v \in Writers \ {w} :
           /\ call'[v] = call[v] /\ current(v)' = current(v) /\ written(v)' = written(v)
  BY <1>1, <1>2 DEF TypeOK, current, written
<1>4. /\ \A t, id : holds(t, id)' <=> holds(t, id)
      /\ \A t, first, second : before(t, first, second)' <=> before(t, first, second)
  BY <1>1 DEF holds, before
<1>5. /\ call[w].error = "DuplicateEvent" => call[w].pc = "returned"
      /\ "DuplicateEvent" # NONE
  BY LogAssumption DEF Refused, Errors
<1>6. CASE Extend(w)
  <2>1. c.error = NONE /\ c.done = 0 /\ c.pc = "checking"
    BY <1>1, <1>3, <1>6 DEF Extend, TypeOK
  <2>2. \A k : k \notin 1 .. written(w)'
    BY <1>3, <2>1 DEF written
  <2>3. Refused'
    BY <1>3, <1>4, <1>5, <2>1 DEF Refused
  <2>4. InOrder => InOrder'
    BY <1>3, <1>4, <2>2 DEF InOrder
  <2>5. QED
    BY <2>3, <2>4
<1>7. CASE Check(w)
  <2>1. /\ call[w].pc = "checking"
        /\ c.events = call[w].events /\ c.done = call[w].done
        /\ c.error = refusal(current(w)) /\ c.pc \in {"storing", "returned"}
        /\ c.error # NONE => c.pc = "returned"
    BY <1>1, <1>3, <1>7 DEF Check, TypeOK, Call
  <2>2. written(w)' = written(w) /\ current(w)' = current(w)
    BY <1>3, <2>1 DEF written, current
  <2>3. ASSUME c.error = "DuplicateEvent"
        PROVE  holds(current(w).tenant_id, current(w).event_id)
    <3>1. current(w).tenant_id # NONE /\ duplicate(current(w))
      BY <1>5, <2>1, <2>3 DEF refusal
    <3>2. current(w) \in Feeds[w]
      BY <2>1, CurrentIsOwn DEF WriterInv
    <3>3. current(w).tenant_id \in Tenants
      BY <3>1, <3>2, LogAssumption
    <3>4. QED
      BY <3>1, <3>3 DEF duplicate, WriterInv, Lag
  <2>4. Refused'
    BY <1>3, <1>4, <1>5, <2>1, <2>2, <2>3 DEF Refused
  <2>5. InOrder => InOrder'
    BY <1>3, <1>4, <2>1, <2>2 DEF InOrder
  <2>6. QED
    BY <2>4, <2>5
<1>8. CASE Mark(w)
  <2>1. /\ call[w].pc = "marking"
        /\ c.events = call[w].events /\ c.done = call[w].done + 1
        /\ c.error = call[w].error /\ c.pc \in {"checking", "returned"}
    BY <1>1, <1>3, <1>8 DEF Mark, TypeOK, Call
  <2>2. written(w)' = written(w)
    BY <1>3, <2>1 DEF written
  <2>3. Refused'
    BY <1>3, <1>4, <1>5, <2>1 DEF Refused
  <2>4. InOrder => InOrder'
    BY <1>3, <1>4, <2>1, <2>2 DEF InOrder
  <2>5. QED
    BY <2>3, <2>4
<1>9. QED
  BY <1>6, <1>7, <1>8

\* Nothing the log holds is lost by a store.
LEMMA StoreRefused ==
  ASSUME WriterInv, Refused, NEW w \in Writers, Store(w)
  PROVE  Refused'
<1>1. ASSUME NEW u, NEW id, holds(u, id) PROVE holds(u, id)'
  <2>1. PICK n \in DOMAIN partitions[u] : partitions[u][n].event_id = id
    BY <1>1 DEF holds
  <2>2. CASE u # current(w).tenant_id
    BY <2>1, <2>2, StoreAppends DEF holds
  <2>3. CASE u = current(w).tenant_id
    BY <2>1, <2>3, StoreAppends DEF holds
  <2>4. QED
    BY <2>2, <2>3
<1>2. /\ call[w].pc = "storing" /\ call[w] \in Call
      /\ call' = [call EXCEPT ![w].pc = "marking"]
  BY DEF Store, WriterInv, TypeOK
<1>3. /\ \A v \in Writers \ {w} : call'[v] = call[v] /\ current(v)' = current(v)
      /\ call'[w].error = call[w].error
  BY <1>2 DEF WriterInv, TypeOK, Call, current
<1> SUFFICES ASSUME NEW v \in Writers, call'[v].error = "DuplicateEvent"
             PROVE  /\ call'[v].pc = "returned"
                    /\ holds(current(v).tenant_id, current(v).event_id)'
  BY DEF Refused
<1>4. v # w
  BY <1>2, <1>3 DEF Refused
<1>5. /\ call[v].pc = "returned"
      /\ holds(current(v).tenant_id, current(v).event_id)
  BY <1>3, <1>4 DEF Refused
<1>6. PICK u, id : u = current(v).tenant_id /\ id = current(v).event_id
  OBVIOUS
<1>7. holds(u, id)'
  BY <1>1, <1>5, <1>6
<1>8. (u = current(v).tenant_id /\ id = current(v).event_id)'
  BY <1>3, <1>4, <1>6
<1>9. QED
  BY <1>3, <1>4, <1>5, <1>7, <1>8 DEF holds

\* A record stored goes behind all that its tenant holds.
LEMMA BatchStore ==
  ASSUME BatchInv, NEW w \in Writers, Store(w)
  PROVE  InOrder'
<1>0. PICK event, t, last :
        event = current(w) /\ t = event.tenant_id /\ last = Len(partitions[t]) + 1
  OBVIOUS
<1>1. /\ t \in Tenants /\ ~holds(t, event.event_id)
      /\ last \in Nat /\ \A n \in DOMAIN partitions[t] : n \in Nat /\ n < last
      /\ DOMAIN partitions'[t] = DOMAIN partitions[t] \union {last}
      /\ \A n \in DOMAIN partitions[t] : partitions'[t][n] = partitions[t][n]
      /\ partitions'[t][last] = event
      /\ \A u : u # t => partitions'[u] = partitions[u]
  <2>1. /\ t \in Tenants /\ ~holds(t, event.event_id)
        /\ \A n \in DOMAIN partitions[t] : partitions'[t][n] = partitions[t][n]
        /\ \A u : u # t => partitions'[u] = partitions[u]
    BY <1>0, StoreAppends DEF BatchInv, LogInv, StillNew, Store
  <2>2. PICK n : n = Len(partitions[t])
    OBVIOUS
  <2>3. /\ n \in Nat /\ last = n + 1
        /\ DOMAIN partitions[t] = 1 .. n /\ DOMAIN partitions'[t] = 1 .. n + 1
        /\ partitions'[t][n + 1] = event
    BY <1>0, <2>2, StoreAppends DEF BatchInv, LogInv
  <2>4. QED
    BY <2>1, <2>3
<1>2. /\ call[w].pc = "storing" /\ call[w] \in Call
      /\ call' = [call EXCEPT ![w].pc = "marking"]
  BY DEF Store, BatchInv, LogInv, WriterInv, TypeOK
<1>3. /\ \A v \in Writers \ {w} : call'[v] = call[v] /\ current(v)' = current(v)
      /\ call'[w].events = call[w].events /\ call'[w].done = call[w].done
      /\ call'[w].error = call[w].error /\ call'[w].pc = "marking"
      /\ call[w].done \in Nat
  BY <1>2 DEF BatchInv, LogInv, WriterInv, TypeOK, Call, current
<1>4. event = call[w].events[call[w].done + 1]
  BY <1>0 DEF current
<1>5. /\ \A v \in Writers \ {w} : written(v)' = written(v)
      /\ written(w) = call[w].done /\ written(w)' = call[w].done + 1
  BY <1>2, <1>3 DEF written
<1>6. ASSUME NEW u, NEW id, holds(u, id)
      PROVE  /\ holds(u, id)'
             /\ \A n \in DOMAIN partitions'[u] : partitions'[u][n].event_id = id =>
                  n \in DOMAIN partitions[u] /\ partitions'[u][n] = partitions[u][n]
  <2>1. CASE u # t
    BY <1>1, <1>6, <2>1 DEF holds
  <2>2. CASE u = t
    <3>1. id # event.event_id
      BY <1>1, <1>6, <2>2
    <3>2. QED
      BY <1>1, <1>6, <2>2, <3>1 DEF holds
  <2>3. QED
    BY <2>1, <2>2
<1>7. InOrder'
  <2> SUFFICES ASSUME NEW v \in Writers, NEW k \in 1 .. written(v)',
                      NEW batch, batch = call'[v].events
               PROVE  /\ holds(batch[k].tenant_id, batch[k].event_id)'
                      /\ \A i \in 1 .. k - 1 :
                           batch[i].tenant_id = batch[k].tenant_id =>
                             before(batch[k].tenant_id, batch[i].event_id, batch[k].event_id)'
    BY DEF InOrder, holds, before
  <2>1. batch = call[v].events
    BY <1>3
  <2>2. ASSUME NEW i \in 1 .. written(v)
        PROVE  holds(batch[i].tenant_id, batch[i].event_id)
    BY <2>1, <2>2 DEF BatchInv, InOrder
  <2>3. CASE k \in 1 .. written(v)
    <3>1. PICK u, f : u = batch[k].tenant_id /\ f = batch[k].event_id
      OBVIOUS
    <3>2. holds(u, f)'
      BY <1>6, <2>2, <2>3, <3>1
    <3>3. ASSUME NEW i \in 1 .. k - 1, batch[i].tenant_id = u,
                 NEW m \in DOMAIN partitions'[u], NEW n \in DOMAIN partitions'[u],
                 partitions'[u][m].event_id = batch[i].event_id,
                 partitions'[u][n].event_id = f
          PROVE  m < n
      <4>1. written(v) \in Nat
        BY DEF written, BatchInv, LogInv, WriterInv, TypeOK, Call
      <4>2. i \in 1 .. written(v)
        BY <2>3, <4>1
      <4>3. holds(u, batch[i].event_id) /\ holds(u, f)
        BY <2>2, <2>3, <3>1, <3>3, <4>2
      <4>4. /\ m \in DOMAIN partitions[u] /\ partitions'[u][m] = partitions[u][m]
            /\ n \in DOMAIN partitions[u] /\ partitions'[u][n] = partitions[u][n]
        BY <1>6, <3>3, <4>3
      <4>5. before(u, batch[i].event_id, f)
        BY <2>1, <2>3, <3>1, <3>3 DEF BatchInv, InOrder
      <4>6. QED
        BY <3>3, <4>4, <4>5 DEF before
    <3>4. QED
      BY <3>1, <3>2, <3>3 DEF before
  <2>4. CASE k \notin 1 .. written(v)
    <3>1. v = w /\ k = call[w].done + 1
      BY <1>3, <1>5, <2>4
    <3>2. batch[k] = event
      BY <1>4, <2>1, <3>1
    <3>3. holds(t, event.event_id)'
      BY <1>1 DEF holds
    <3>4. ASSUME NEW i \in 1 .. k - 1, batch[i].tenant_id = t,
                 NEW m \in DOMAIN partitions'[t], NEW n \in DOMAIN partitions'[t],
                 partitions'[t][m].event_id = batch[i].event_id,
                 partitions'[t][n].event_id = event.event_id
          PROVE  m < n
      <4>1. i \in 1 .. written(w)
        BY <1>3, <1>5, <3>1
      <4>2. holds(t, batch[i].event_id)
        BY <2>2, <3>1, <3>4, <4>1
      <4>3. m \in DOMAIN partitions[t]
        BY <1>6, <3>4, <4>2
      <4>4. n = last
        BY <1>1, <3>4 DEF holds
      <4>5. QED
        BY <1>1, <4>3, <4>4
    <3>5. batch[k].tenant_id = t
      BY <1>0, <3>2
    <3>6. QED
      BY <3>2, <3>3, <3>4, <3>5 DEF before
  <2>5. QED
    BY <2>3, <2>4
<1>8. QED
  BY <1>7

\* What a writer was told stays true, whoever writes what.
LEMMA RefusedInvariant == Spec => []Refused
<1>1. Init => Refused
  BY LogAssumption DEF Init, Refused, Errors
<1>2. ASSUME WriterInv, Refused, [Next]_vars PROVE Refused'
  <2>1. CASE UNCHANGED vars
    <3>1. partitions' = partitions /\ call' = call
      BY <2>1 DEF vars
    <3>2. QED
      BY <1>2, <3>1 DEF Refused, holds, current
  <2>2. CASE Next
    <3>1. PICK w \in Writers : Extend(w) \/ Check(w) \/ Store(w) \/ Mark(w)
      BY <2>2 DEF Next
    <3>2. QED
      BY <1>2, <3>1, BatchSteps, StoreRefused
  <2>3. QED
    BY <1>2, <2>1, <2>2
<1>3. QED
  BY <1>1, <1>2, WriterInvariant, PTL DEF Spec

\* A refusal answers no question about another tenant: a record refused as a
\* duplicate is one its own tenant holds, whatever the others hold.
THEOREM RefusalIsTheTenantsOwn == Spec => []RefusedByItsOwn
<1>1. Refused => RefusedByItsOwn
  BY DEF Refused, RefusedByItsOwn, holds, Contract!ids_of, Contract!Range
<1>2. QED
  BY <1>1, RefusedInvariant, PTL

\* Every step of every writer keeps a batch in order.
LEMMA BatchInvariant == DisjointFeeds => (Spec => []BatchInv)
<1> SUFFICES ASSUME DisjointFeeds PROVE Spec => []BatchInv
  OBVIOUS
<1>1. Init => LogInv /\ InOrder
  <2>1. ASSUME Init PROVE InOrder
    BY <2>1 DEF Init, InOrder, written
  <2>2. QED
    BY <2>1, InitLog
<1>2. ASSUME BatchInv, [Next]_vars PROVE LogInv' /\ InOrder'
  <2>1. LogInv'
    BY <1>2, StepsKeep DEF BatchInv, LogInv
  <2>2. CASE UNCHANGED vars
    <3>1. partitions' = partitions /\ call' = call
      BY <2>2 DEF vars
    <3>2. /\ \A t, id : holds(t, id)' <=> holds(t, id)
          /\ \A t, first, second : before(t, first, second)' <=> before(t, first, second)
          /\ \A w : written(w)' = written(w)
      BY <3>1 DEF holds, before, written
    <3>3. InOrder'
      BY <1>2, <3>1, <3>2 DEF BatchInv, InOrder
    <3>4. QED
      BY <2>1, <3>3
  <2>3. CASE Next
    <3>1. PICK w \in Writers : Extend(w) \/ Check(w) \/ Store(w) \/ Mark(w)
      BY <2>3 DEF Next
    <3>2. InOrder'
      BY <1>2, <3>1, BatchSteps, BatchStore DEF BatchInv, LogInv
    <3>3. QED
      BY <2>1, <3>2
  <2>4. QED
    BY <1>2, <2>1, <2>2, <2>3
<1>3. Spec => [](LogInv /\ Refused /\ InOrder)
  <2>1. ASSUME LogInv, Refused, InOrder, [Next]_vars PROVE LogInv' /\ InOrder'
    BY <1>2, <2>1 DEF BatchInv
  <2>2. QED
    BY <1>1, <2>1, RefusedInvariant, PTL DEF Spec
<1>4. QED
  BY <1>3, PTL DEF BatchInv

\* What extend() has written of a batch is in the log in the order of the batch,
\* whatever the other writers put in between.
THEOREM BatchGoesInOrder == DisjointFeeds => (Spec => []BatchInOrder)
<1> SUFFICES ASSUME DisjointFeeds PROVE Spec => []BatchInOrder
  OBVIOUS
<1>1. BatchInv => BatchInOrder
  <2> SUFFICES ASSUME BatchInv, NEW w \in Writers,
                      NEW i \in 1 .. call[w].done, NEW k \in 1 .. call[w].done,
                      i < k, call[w].events[i].tenant_id = call[w].events[k].tenant_id
               PROVE  position(call[w].events[i].tenant_id, call[w].events[i].event_id)
                        < position(call[w].events[k].tenant_id, call[w].events[k].event_id)
    BY DEF BatchInOrder
  <2> DEFINE t == call[w].events[k].tenant_id
             first == call[w].events[i].event_id
             second == call[w].events[k].event_id
  <2>1. call[w].done \in Nat
    BY DEF BatchInv, LogInv, WriterInv, TypeOK, Call
  <2>2. i \in 1 .. written(w) /\ k \in 1 .. written(w) /\ i \in 1 .. k - 1
    BY <2>1 DEF written
  <2>3. holds(t, first) /\ holds(t, second)
    BY <2>2 DEF BatchInv, InOrder
  <2>4. /\ position(t, first) \in DOMAIN partitions[t]
        /\ partitions[t][position(t, first)].event_id = first
        /\ position(t, second) \in DOMAIN partitions[t]
        /\ partitions[t][position(t, second)].event_id = second
    BY <2>3 DEF holds, position
  <2>5. before(t, first, second)
    BY <2>2 DEF BatchInv, InOrder
  <2>6. QED
    BY <2>4, <2>5 DEF before
<1>2. QED
  BY <1>1, BatchInvariant, PTL

=============================================================================
