------------------------------- MODULE Ledger -------------------------------
(***************************************************************************)
(* The two planes together: jobs, the log their callers file the records   *)
(* in, the outside events that share it, and replay_tenant over it.        *)
(*                                                                         *)
(* A caller files a job either whole, log.extend(job.events), or record by *)
(* record, log.append(job.events[n]), in an order of its own and perhaps   *)
(* not all of them.  The log is any store that keeps StoreContract: a      *)
(* record it refuses is a step not taken.  One process does the filing.    *)
(***************************************************************************)
EXTENDS AuditTrail, Intake, FiniteSets

CONSTANTS
  Payloads,    \* what outside systems send
  Answers,     \* what the tenant resolver may answer, NONE for no answer
  MaxOutside,  \* bound: outside events in the log
  MaxLate      \* bound: records of a job that a later one may overtake

\* A closing record as it is filed.
FiledClosing ==
  [kind : {"JOB_SETTLED"}, job_id : Ids, tenant_id : Tenants, settled_as : TERMINAL,
   event_count : Nat, event_id : Jobs \X Nat, subject_id : Ids]

\* None is no record either.
ASSUME LedgerAssumption ==
  /\ MaxOutside \in Nat /\ MaxLate \in Nat
  /\ NONE \notin FiledClosing

VARIABLE partitions  \* the log: each tenant's records in append order

ledger_vars == <<vars, partitions>>

Contract == INSTANCE StoreContract WITH held <- partitions, Records <- {}

\* The record as it is filed; event_id is the position in the job's trail.
filed(j, n) ==
  [field \in DOMAIN events[j][n] \union {"event_id", "subject_id"} |->
     CASE field = "event_id" -> <<j, n>>
       [] field = "subject_id" -> ident[j].job_id
       [] OTHER -> events[j][n][field]]

tenant(j) == ident[j].tenant_id

\* The records of the job's trail that the log holds.
held_of(j) ==
  {n \in DOMAIN events[j] : <<j, n>> \in Contract!ids_of(partitions[tenant(j)])}

outside == {e \in UNION {Range(partitions[t]) : t \in Tenants} : "source" \in DOMAIN e}

-----------------------------------------------------------------------------
\* log.extend(job.events): everything before the first record already held,
\* which is refused and ends the call.
FileAll(j) ==
  /\ constructed(j)
  /\ LET fresh == {n \in DOMAIN events[j] : \A m \in 1 .. n : m \notin held_of(j)}
     IN /\ fresh # {}
        /\ partitions' = [partitions EXCEPT ![tenant(j)] =
                            @ \o [n \in 1 .. Cardinality(fresh) |-> filed(j, n)]]
  /\ UNCHANGED vars

\* log.append(job.events[n])
Forward(j, n) ==
  /\ constructed(j) /\ n \in DOMAIN events[j]
  /\ Cardinality((1 .. n - 1) \ held_of(j)) <= MaxLate
  /\ Contract!Append_once(filed(j, n))
  /\ UNCHANGED vars

\* log.append(accept_external(payload))
Outside(payload, answer) ==
  /\ Cardinality(outside) < MaxOutside
  /\ accepts(payload, answer)
  /\ Contract!Append_once(accepted(payload, answer, <<"outside", Cardinality(outside)>>))
  /\ UNCHANGED vars

LedgerInit == Init /\ partitions = [t \in Tenants |-> <<>>]

LedgerNext ==
  \/ Next /\ UNCHANGED partitions
  \/ \E j \in Jobs : FileAll(j)
  \/ \E j \in Jobs : \E n \in DOMAIN events[j] : Forward(j, n)
  \/ \E payload \in Payloads, answer \in Answers : Outside(payload, answer)

LedgerSpec == LedgerInit /\ [][LedgerNext]_ledger_vars

-----------------------------------------------------------------------------
\* log.read(tenant, job_id = id)
read(t, id) ==
  kept(partitions[t], {n \in DOMAIN partitions[t] : partitions[t][n].job_id = id})

\* replay_tenant: a reading per job named; the call raises if any is refused.
replay_tenant(t) ==
  [id \in {e.job_id : e \in Range(partitions[t])} \ {NONE} |-> replay_job(read(t, id))]

\* Following supersedes_job_id until it runs out, as check_asking_again does.
further(known, sofar) ==
  LET last == Last(sofar)
      next == IF last \in DOMAIN known THEN known[last].supersedes_job_id ELSE NONE
  IN IF next = NONE \/ next \in Range(sofar) THEN sofar ELSE Append(sofar, next)

chain_from(known, id) ==
  LET walk[n \in 1 .. Cardinality(Jobs) + 1] ==
        IF n = 1 THEN <<id>> ELSE further(known, walk[n - 1])
  IN walk[Cardinality(Jobs) + 1]

-----------------------------------------------------------------------------
\* No other job of the tenant has this job's id.
Named(j) ==
  \A k \in Jobs \ {j} :
    constructed(k) /\ tenant(k) = tenant(j) => ident[k].job_id # ident[j].job_id

\* The log holds the job's records, all of them and in their order.
own(j) ==
  LET log == partitions[tenant(j)]
  IN kept(log, {n \in DOMAIN log : is_ours(log[n]) /\ log[n].event_id[1] = j})

Whole(j) ==
  [n \in DOMAIN own(j) |-> own(j)[n].event_id] = [n \in DOMAIN events[j] |-> <<j, n>>]

\* "replay_tenant does it for every job in one partition": a job that was filed
\* whole reads as it stands (or, stamped late, is refused for it), whatever other
\* jobs, other tenants' jobs of the same name and outside events that name it
\* stand between its records.
EveryJobReads ==
  \A j \in Jobs : constructed(j) /\ Named(j) /\ Whole(j) =>
    LET r == replay_tenant(tenant(j))[ident[j].job_id]
    IN IF StampedLate(j) THEN r.refused = "ExecutionAfterExpiry" ELSE Agrees(j, r)

\* Jobs of one tenant under one id, which nothing in either plane prevents, are
\* read as one trail.  That trail never passes for a settled job, whichever of
\* them were delivered, cancelled or are still running: when all of them are
\* filed whole it is refused or it reads as a job still open.
SharedIdNeverSettles ==
  \A j \in Jobs :
    LET alike == {k \in Jobs : /\ constructed(k) /\ tenant(k) = tenant(j)
                               /\ ident[k].job_id = ident[j].job_id}
        r == replay_tenant(tenant(j))[ident[j].job_id]
    IN constructed(j) /\ alike # {j} /\ (\A k \in alike : Whole(k)) =>
         (r.refused = NONE => r.settled_as = NONE /\ ~r.completed)

\* A settled reading is true: whichever records of a job were filed, and in
\* whichever order, if what the log holds replays as a settled job then the job
\* settled, so and under that approval, and made those moves and no others.
SettledReadingIsTrue ==
  \A j \in Jobs : constructed(j) /\ Named(j) =>
    LET r == replay_job(read(tenant(j), ident[j].job_id))
    IN r.refused = NONE /\ r.settled_as # NONE =>
         /\ r.state = state[j] /\ r.settled_as = state[j]
         /\ r.approval = approval[j]
         /\ r.completed = (state[j] = "COMPLETED")
         /\ Range(r.decision_ids) = known_decisions(j)
         /\ Len(r.history) = Len(history[j])
         /\ {<<h.from, h.to>> : h \in Range(r.history)}
              = {<<h.from, h.to>> : h \in Range(history[j])}

\* RFC-0008, "absent means absent": an outside event in the log has the tenant
\* and the job its sender or the resolver named, and none it did not name, and
\* stays recognisable as one from outside.
NothingInvented ==
  \A t \in Tenants : \A e \in Range(partitions[t]) :
    \/ \E j \in Jobs : \E n \in DOMAIN events[j] : e.event_id = <<j, n>> /\ tenant(j) = t
    \/ /\ e.source = "external"
       /\ \E payload \in Payloads : \E answer \in Answers :
            /\ t \in {payload.tenant_id, answer} /\ e.tenant_id = t
            /\ e.job_id = payload.job_id
            /\ e.job_id \notin Placeholders \union Malformed

\* A chain of attempts is readable from the log alone: when a tenant's jobs are
\* filed whole, named apart and none was stamped late, the walk back from any of
\* them names, one after the other, the job each was filed to replace, finds each
\* of those settled without delivering, and ends at one that replaced nobody.
ChainReadsBack ==
  \A t \in Tenants :
    LET mine == {j \in Jobs : constructed(j) /\ tenant(j) = t}
        seen == replay_tenant(t)
        replaced == [id \in {ident[j].job_id : j \in mine} |->
          ident[CHOOSE j \in mine : ident[j].job_id = id].supersedes_job_id]
    IN (\A j \in mine : Named(j) /\ Whole(j) /\ ~StampedLate(j)) =>
         \A j \in mine :
           LET chain == chain_from(seen, ident[j].job_id)
           IN /\ replaced[Last(chain)] = NONE
              /\ \A n \in 2 .. Len(chain) :
                   /\ chain[n] = replaced[chain[n - 1]]
                   /\ seen[chain[n]].settled_as \in {"FAILED", "CANCELLED", "TIMED_OUT"}


=============================================================================
