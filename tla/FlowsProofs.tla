---------------------------- MODULE FlowsProofs -----------------------------
(***************************************************************************)
(* Theorems about the simulation's flows, for every set of jobs and ids,   *)
(* whoever owns and decides, and every clock.                              *)
(***************************************************************************)
EXTENDS Flows, LedgerProofs, RefusalProofs

-----------------------------------------------------------------------------
(* The forward path, read from the table.                                  *)

\* A set of one member is a sequence of one in one way only.
LEMMA SeqOfOne ==
  ASSUME NEW x
  PROVE  SetToSeq({x}) = <<x>>
<1>1. Cardinality({x}) = 1
  BY FS_Singleton
<1>2. \E f \in [1 .. 1 -> {x}] : IsInjective(f)
  <2>1. [n \in 1 .. 1 |-> x] \in [1 .. 1 -> {x}] /\ IsInjective([n \in 1 .. 1 |-> x])
    BY DEF IsInjective
  <2>2. QED BY <2>1
<1>3. SetToSeq({x}) \in [1 .. 1 -> {x}]
  BY <1>1, <1>2 DEF SetToSeq
<1>4. \A f \in [1 .. 1 -> {x}] : f = <<x>>
  OBVIOUS
<1>5. QED BY <1>3, <1>4

\* The empty set is a sequence of none.
LEMMA SeqOfNone == SetToSeq({}) = <<>>
<1>1. Cardinality({}) = 0
  BY FS_EmptySet
<1>2. \E f \in [1 .. 0 -> {}] : IsInjective(f)
  <2>1. <<>> \in [1 .. 0 -> {}] /\ IsInjective(<<>>)
    BY DEF IsInjective
  <2>2. QED BY <2>1
<1>3. SetToSeq({}) \in [1 .. 0 -> {}]
  BY <1>1, <1>2 DEF SetToSeq
<1>4. QED BY <1>3

\* There are thirteen states.
LEMMA ThirteenStates == Cardinality(JobState) = 13
<1> DEFINE f == <<"DRAFT", "GOVERNANCE_ANALYSIS", "APPROVED", "REJECTED", "TASK_PLANNING",
                  "IN_PROGRESS", "AWAITING_APPROVAL", "VALIDATING", "DEPLOYABLE",
                  "COMPLETED", "FAILED", "CANCELLED", "TIMED_OUT">>
<1>1. f \in [1 .. 13 -> JobState]
  BY DEF JobState
<1>2. \A m, n \in 1 .. 13 : f[m] = f[n] => m = n
  OBVIOUS
<1>3. \A s \in JobState : \E n \in 1 .. 13 : f[n] = s
  BY DEF JobState
<1> HIDE DEF f
<1>4. f \in Bijection(1 .. 13, JobState)
  BY <1>1, <1>2, <1>3 DEF Bijection, Injection, Surjection, IsInjective
<1>5. ExistsBijection(1 .. 13, JobState)
  BY <1>4 DEF ExistsBijection
<1>6. QED BY <1>5, FS_CountingElements

\* Where each state leads.
LEMMA WaysForward ==
  /\ \A n \in 1 .. 7 : forward(ISSUE_7_FLOW[n]) = {ISSUE_7_FLOW[n + 1]}
  /\ forward("COMPLETED") = {}
<1>1. /\ reachable_from("DRAFT", NONE) = {"GOVERNANCE_ANALYSIS", "CANCELLED"}
      /\ reachable_from("GOVERNANCE_ANALYSIS", NONE) =
           {"APPROVED", "REJECTED", "DRAFT", "CANCELLED", "TIMED_OUT"}
      /\ reachable_from("APPROVED", NONE) = {"TASK_PLANNING", "CANCELLED", "TIMED_OUT"}
      /\ reachable_from("TASK_PLANNING", NONE) =
           {"IN_PROGRESS", "CANCELLED", "TIMED_OUT", "FAILED"}
  BY DEF reachable_from, TRANSITIONS, Progression, CrossCuttingExits, TERMINAL, JobState,
         TIMEOUTABLE, FAILABLE
<1>2. /\ reachable_from("IN_PROGRESS", NONE) =
           {"VALIDATING", "AWAITING_APPROVAL", "CANCELLED", "TIMED_OUT", "FAILED"}
      /\ reachable_from("VALIDATING", NONE) =
           {"DEPLOYABLE", "AWAITING_APPROVAL", "CANCELLED", "TIMED_OUT", "FAILED"}
      /\ reachable_from("DEPLOYABLE", NONE) =
           {"COMPLETED", "AWAITING_APPROVAL", "CANCELLED", "FAILED"}
      /\ reachable_from("COMPLETED", NONE) = {}
  BY DEF reachable_from, TRANSITIONS, Progression, CrossCuttingExits, TERMINAL, JobState,
         TIMEOUTABLE, FAILABLE
<1>3. QED
  BY <1>1, <1>2 DEF forward, _NOT_FORWARD, TERMINAL, ISSUE_7_FLOW

\* The line so far, and one state more.
LEMMA LineGoesOn ==
  LET soFar(m) == SubSeq(ISSUE_7_FLOW, 1, m)
  IN /\ \A m \in 1 .. 7 : onward(soFar(m)) = soFar(m + 1)
     /\ onward(ISSUE_7_FLOW) = ISSUE_7_FLOW
<1> DEFINE soFar(m) == SubSeq(ISSUE_7_FLOW, 1, m)
<1>1. /\ ISSUE_7_FLOW \in Seq(JobState) /\ Len(ISSUE_7_FLOW) = 8
      /\ \A m, n \in 1 .. 8 : ISSUE_7_FLOW[m] = ISSUE_7_FLOW[n] => m = n
      /\ ISSUE_7_FLOW[8] = "COMPLETED"
  BY DEF ISSUE_7_FLOW, JobState
<1>2. ASSUME NEW m \in 1 .. 7 PROVE onward(soFar(m)) = soFar(m + 1)
  <2>1. PICK s, t : s = ISSUE_7_FLOW /\ t = soFar(m)
    OBVIOUS
  <2>2. /\ t \in Seq(JobState) /\ Len(t) = m /\ \A n \in 1 .. m : t[n] = s[n]
    BY <1>1, <2>1
  <2>3. Last(t) = s[m]
    BY <2>2 DEF Last
  <2>4. {x \in JobState : forward(Last(t)) = {x}} = {s[m + 1]}
    <3>1. forward(Last(t)) = {s[m + 1]}
      BY <2>1, <2>3, WaysForward
    <3>2. s[m + 1] \in JobState
      <4>1. Len(s) = 8
        BY <1>1, <2>1
      <4>2. m + 1 \in 1 .. Len(s)
        BY <4>1
      <4>3. QED BY <1>1, <2>1, <4>2
    <3>3. QED BY <3>1, <3>2
  <2>5. s[m + 1] \notin Range(t)
    <3>1. \A n \in 1 .. m : t[n] # s[m + 1]
      BY <1>1, <2>1, <2>2
    <3>2. DOMAIN t = 1 .. m
      BY <2>2
    <3>3. QED BY <3>1, <3>2 DEF Range
  <2>6. onward(t) = t \o SetToSeq({s[m + 1]})
    <3>1. {s[m + 1]} \ Range(t) = {s[m + 1]}
      BY <2>5
    <3>2. QED BY <2>4, <3>1 DEF onward
  <2>7. onward(t) = t \o <<s[m + 1]>>
    BY <2>6, SeqOfOne
  <2>8. t \o <<s[m + 1]>> = SubSeq(s, 1, m + 1)
    BY <1>1, <2>1, <2>2
  <2>9. QED BY <2>1, <2>7, <2>8
<1>3. onward(ISSUE_7_FLOW) = ISSUE_7_FLOW
  <2>1. PICK s : s = ISSUE_7_FLOW
    OBVIOUS
  <2>2. Last(s) = "COMPLETED"
    BY <1>1, <2>1 DEF Last
  <2>3. {x \in JobState : forward(Last(s)) = {x}} = {}
    BY <2>2, WaysForward
  <2>4. onward(s) = s \o SetToSeq({})
    <3>1. {} \ Range(s) = {}
      OBVIOUS
    <3>2. QED BY <2>3, <3>1 DEF onward
  <2>5. onward(s) = s \o <<>>
    BY <2>4, SeqOfNone
  <2>6. QED BY <1>1, <2>1, <2>5
<1>4. QED BY <1>2, <1>3

\* The table spells the lifecycle of issue #7.
LEMMA MainLine == MAIN_LINE = ISSUE_7_FLOW
<1> DEFINE soFar(m) == SubSeq(ISSUE_7_FLOW, 1, m)
           body(f, n) == IF n = 1 THEN <<"DRAFT">> ELSE onward(f[n - 1])
           g == [n \in 1 .. 13 |-> IF n < 8 THEN soFar(n) ELSE ISSUE_7_FLOW]
           line == CHOOSE f : f = [n \in 1 .. 13 |-> body(f, n)]
<1>1. soFar(1) = <<"DRAFT">> /\ soFar(8) = ISSUE_7_FLOW
  <2>1. PICK s : s = ISSUE_7_FLOW
    OBVIOUS
  <2>2. s \in Seq(JobState) /\ Len(s) = 8 /\ s[1] = "DRAFT"
    BY <2>1 DEF ISSUE_7_FLOW, JobState
  <2>3. SubSeq(s, 1, 1) = <<s[1]>>
    <3>1. /\ SubSeq(s, 1, 1) = [n \in 1 .. 1 |-> s[n]]
          /\ \A n \in 1 .. 1 : n = 1
      BY <2>2
    <3>2. [n \in 1 .. 1 |-> s[n]] = <<s[1]>>
      OBVIOUS
    <3>3. QED BY <3>1, <3>2
  <2>4. SubSeq(s, 1, 8) = s
    BY <2>2
  <2>5. QED BY <2>1, <2>2, <2>3, <2>4
<1>2. \A n \in 2 .. 13 : g[n] = onward(g[n - 1])
  <2> SUFFICES ASSUME NEW n \in 2 .. 13 PROVE g[n] = onward(g[n - 1])
    OBVIOUS
  <2>1. n - 1 \in 1 .. 13 /\ n \in 1 .. 13
    OBVIOUS
  <2> HIDE DEF soFar
  <2>2. CASE n < 8
    <3>1. g[n] = soFar(n) /\ g[n - 1] = soFar(n - 1)
      BY <2>1, <2>2
    <3>2. n - 1 \in 1 .. 7 /\ (n - 1) + 1 = n
      BY <2>2
    <3>3. QED BY <3>1, <3>2, LineGoesOn DEF soFar
  <2>3. CASE n = 8
    <3>1. g[n] = soFar(8) /\ g[n - 1] = soFar(7)
      BY <1>1, <2>1, <2>3
    <3>2. 7 \in 1 .. 7 /\ 7 + 1 = 8
      OBVIOUS
    <3>3. QED BY <3>1, <3>2, LineGoesOn DEF soFar
  <2>4. CASE n > 8
    <3>1. g[n] = ISSUE_7_FLOW /\ g[n - 1] = ISSUE_7_FLOW
      BY <2>1, <2>4
    <3>2. QED BY <3>1, LineGoesOn
  <2>5. QED BY <2>2, <2>3, <2>4
<1>3. g[1] = <<"DRAFT">> /\ g = [n \in 1 .. 13 |-> g[n]]
  BY <1>1
<1> HIDE DEF g, soFar
<1>4. g = [n \in 1 .. 13 |-> body(g, n)]
  <2>1. \A n \in 1 .. 13 : g[n] = body(g, n)
    BY <1>2, <1>3
  <2> HIDE DEF body
  <2>2. QED BY <1>3, <2>1
<1>5. line = [n \in 1 .. 13 |-> body(line, n)]
  BY <1>4
<1>6. MAIN_LINE = line[13]
  BY ThirteenStates DEF MAIN_LINE
<1> HIDE DEF line
<1>7. /\ line[1] = <<"DRAFT">>
      /\ \A n \in 2 .. 13 : line[n] = onward(line[n - 1])
  BY <1>5
<1>8. line[13] = g[13]
  BY <1>2, <1>3, <1>7
<1>9. QED
  BY <1>6, <1>8 DEF g

-----------------------------------------------------------------------------
(* What scripts are made of, and the road each takes its job.              *)

\* The calls that move a job.
moving == {"transition", "decide", "resume"}

\* A call a flow makes; "dated" are the jobs whose approval carries a deadline,
\* and none of its calls takes those into execution.
IsCall(c, dated) ==
  \/ c.call = "new" /\ c.on \in {first, second}
  \/ c.call = "supersede" /\ c.on = first
  \/ c.call = "wait" /\ c.until \in Nat
  \/ c.call = "refused"
  \/ /\ c.call = "transition" /\ c.on \in {first, second}
     /\ c.to \in JobState /\ c.reason \in BOOLEAN /\ c.by \in {NONE, owner}
     /\ c.on \in dated => c.to \notin POST_APPROVAL
  \/ c.call = "resume" /\ c.on \in {first, second} \ dated
  \/ /\ c.call = "decide" /\ c.on \in {first, second}
     /\ c.verdict \in DecisionType /\ c.expires \in Deadlines \union {NONE}
     /\ c.on \notin dated => c.expires = NONE

\* The call takes the job one state further along the path, or leaves it.
Along(c, j, path, here, there) ==
  IF c.call \in moving /\ c.on = j
    THEN /\ there = here + 1
         /\ c.call = "transition" => path[there] = c.to
         /\ c.call = "decide" => path[there] = DECISION_TARGET[c.verdict]
         /\ c.call = "resume" => here > 1 /\ path[there] = path[here - 1]
    ELSE there = here

\* A chart of the script: where on the path the job stands before each call.
Charts(script, j, path, at) ==
  /\ path \in Seq(JobState) /\ at \in Seq(1 .. Len(path))
  /\ Len(at) = Len(script) + 1
  /\ at[1] = 1 /\ path[1] = "DRAFT"
  /\ \A n \in DOMAIN script : Along(script[n], j, path, at[n], at[n + 1])

Calls(script, dated) ==
  /\ Len(script) \in Nat /\ DOMAIN script = 1 .. Len(script)
  /\ \A n \in DOMAIN script : IsCall(script[n], dated)

\* The path ends so.
Ends(ends, path) ==
  /\ Len(ends) <= Len(path)
  /\ \A n \in DOMAIN ends : ends[n] = path[Len(path) - Len(ends) + n]

\* The script has a chart that ends where the simulation expects it to.
Charted(f) ==
  /\ f.of \in {first, second} /\ f.ends \in Seq(JobState)
  /\ \E path, at :
       /\ Charts(f.script, f.of, path, at)
       /\ at[Len(at)] = Len(path)
       /\ Ends(f.ends, path)

\* The way to a state of the main line, call by call.
LEMMA AdvanceTo ==
  ASSUME NEW j
  PROVE  /\ advance_to(j, "TASK_PLANNING") =
              <<submit(j), approve(j), go(j, "TASK_PLANNING")>>
         /\ advance_to(j, "IN_PROGRESS") =
              <<submit(j), approve(j), go(j, "TASK_PLANNING"), go(j, "IN_PROGRESS")>>
         /\ advance_to(j, "VALIDATING") =
              <<submit(j), approve(j), go(j, "TASK_PLANNING"), go(j, "IN_PROGRESS"),
                go(j, "VALIDATING")>>
         /\ advance_to(j, "DEPLOYABLE") =
              <<submit(j), approve(j), go(j, "TASK_PLANNING"), go(j, "IN_PROGRESS"),
                go(j, "VALIDATING"), go(j, "DEPLOYABLE")>>
<1>1. ASSUME NEW k \in 1 .. 8
      PROVE  advance_to(j, ISSUE_7_FLOW[k]) =
               [n \in 1 .. k - 1 |-> enter(j, ISSUE_7_FLOW[n + 1])]
  <2>1. DOMAIN ISSUE_7_FLOW = 1 .. 8
    BY DEF ISSUE_7_FLOW
  <2>2. \A i \in 1 .. 8 : ISSUE_7_FLOW[i] = ISSUE_7_FLOW[k] => i = k
    BY DEF ISSUE_7_FLOW
  <2>3. (CHOOSE i \in 1 .. 8 : ISSUE_7_FLOW[i] = ISSUE_7_FLOW[k]) = k
    BY <2>2
  <2>4. QED BY <2>1, <2>3, MainLine DEF advance_to
<1>2. /\ enter(j, ISSUE_7_FLOW[2]) = submit(j)
      /\ enter(j, ISSUE_7_FLOW[3]) = approve(j)
      /\ \A n \in 4 .. 8 : enter(j, ISSUE_7_FLOW[n]) = go(j, ISSUE_7_FLOW[n])
  BY DEF enter, ISSUE_7_FLOW
<1>3. advance_to(j, ISSUE_7_FLOW[4]) = <<submit(j), approve(j), go(j, ISSUE_7_FLOW[4])>>
  <2>1. advance_to(j, ISSUE_7_FLOW[4]) = [n \in 1 .. 3 |-> enter(j, ISSUE_7_FLOW[n + 1])]
    BY <1>1
  <2>2. QED BY <1>2, <2>1
<1>4. advance_to(j, ISSUE_7_FLOW[5]) =
        <<submit(j), approve(j), go(j, ISSUE_7_FLOW[4]), go(j, ISSUE_7_FLOW[5])>>
  <2>1. advance_to(j, ISSUE_7_FLOW[5]) = [n \in 1 .. 4 |-> enter(j, ISSUE_7_FLOW[n + 1])]
    BY <1>1
  <2>2. QED BY <1>2, <2>1
<1>5. advance_to(j, ISSUE_7_FLOW[6]) =
        <<submit(j), approve(j), go(j, ISSUE_7_FLOW[4]), go(j, ISSUE_7_FLOW[5]),
          go(j, ISSUE_7_FLOW[6])>>
  <2>1. advance_to(j, ISSUE_7_FLOW[6]) = [n \in 1 .. 5 |-> enter(j, ISSUE_7_FLOW[n + 1])]
    BY <1>1
  <2>2. QED BY <1>2, <2>1
<1>6. advance_to(j, ISSUE_7_FLOW[7]) =
        <<submit(j), approve(j), go(j, ISSUE_7_FLOW[4]), go(j, ISSUE_7_FLOW[5]),
          go(j, ISSUE_7_FLOW[6]), go(j, ISSUE_7_FLOW[7])>>
  <2>1. advance_to(j, ISSUE_7_FLOW[7]) = [n \in 1 .. 6 |-> enter(j, ISSUE_7_FLOW[n + 1])]
    BY <1>1
  <2>2. QED BY <1>2, <2>1
<1>7. /\ ISSUE_7_FLOW[4] = "TASK_PLANNING" /\ ISSUE_7_FLOW[5] = "IN_PROGRESS"
      /\ ISSUE_7_FLOW[6] = "VALIDATING" /\ ISSUE_7_FLOW[7] = "DEPLOYABLE"
  BY DEF ISSUE_7_FLOW
<1>8. QED BY <1>3, <1>4, <1>5, <1>6, <1>7

\* Seven sequences laid end to end.
LEMMA Flattened ==
  ASSUME NEW seqs, Len(seqs) = 7
  PROVE  FlattenSeq(seqs) =
           seqs[1] \o seqs[2] \o seqs[3] \o seqs[4] \o seqs[5] \o seqs[6] \o seqs[7]
<1> DEFINE cat(s, t) == s \o t
           body(f, n) == IF n = 1 THEN seqs[n] ELSE cat(f[n - 1], seqs[n])
           flatten == CHOOSE f : f = [n \in 1 .. 7 |-> body(f, n)]
<1>1. FlattenSeq(seqs) = flatten[7]
  BY DEF FlattenSeq
<1>2. seqs[1] \o seqs[2] \o seqs[3] \o seqs[4] \o seqs[5] \o seqs[6] \o seqs[7] =
        cat(cat(cat(cat(cat(cat(seqs[1], seqs[2]), seqs[3]), seqs[4]), seqs[5]), seqs[6]),
            seqs[7])
  OBVIOUS
<1> HIDE DEF cat
<1>3. PICK s2, s3, s4, s5, s6, s7 :
        /\ s2 = cat(seqs[1], seqs[2]) /\ s3 = cat(s2, seqs[3]) /\ s4 = cat(s3, seqs[4])
        /\ s5 = cat(s4, seqs[5]) /\ s6 = cat(s5, seqs[6]) /\ s7 = cat(s6, seqs[7])
  OBVIOUS
<1> DEFINE g == <<seqs[1], s2, s3, s4, s5, s6, s7>>
<1>4. g = [n \in 1 .. 7 |-> body(g, n)]
  <2>1. /\ g[1] = seqs[1] /\ g[2] = cat(g[1], seqs[2]) /\ g[3] = cat(g[2], seqs[3])
        /\ g[4] = cat(g[3], seqs[4]) /\ g[5] = cat(g[4], seqs[5])
        /\ g[6] = cat(g[5], seqs[6]) /\ g[7] = cat(g[6], seqs[7])
    BY <1>3
  <2>2. g = [n \in 1 .. 7 |-> g[n]]
    OBVIOUS
  <2> HIDE DEF g
  <2>3. \A n \in 1 .. 7 : g[n] = body(g, n)
    BY <2>1
  <2> HIDE DEF body
  <2>4. QED BY <2>2, <2>3
<1>5. flatten = [n \in 1 .. 7 |-> body(flatten, n)]
  <2> HIDE DEF g, body
  <2>1. QED BY <1>4
<1> HIDE DEF flatten
<1>6. \A n \in 1 .. 7 : flatten[n] = body(flatten, n)
  <2> HIDE DEF body
  <2>1. QED BY <1>5
<1>7. flatten[7] = s7
  BY <1>3, <1>6
<1>8. QED BY <1>1, <1>2, <1>3, <1>7

\* One element more.
LEMMA OneBehind ==
  ASSUME NEW S, NEW s \in Seq(S), NEW x \in S,
         NEW t \in Seq(S), Len(t) = Len(s) + 1, t[Len(t)] = x,
         \A i \in 1 .. Len(s) : t[i] = s[i]
  PROVE  s \o <<x>> = t
<1>1. PICK u : u = s \o <<x>>
  OBVIOUS
<1>2. u \in Seq(S) /\ Len(u) = Len(s) + 1
  BY <1>1
<1>3. \A i \in 1 .. Len(s) : u[i] = s[i]
  BY <1>1
<1>4. u[Len(s) + 1] = x
  BY <1>1
<1>5. \A i \in 1 .. Len(t) : u[i] = t[i]
  BY <1>2, <1>3, <1>4
<1>6. u = t
  BY <1>2, <1>5
<1>7. QED BY <1>1, <1>6

\* The happy path call by call, straight through and with each of its pauses.
LEMMA HappyPaths ==
  ASSUME NEW j
  PROVE  /\ happy_path(j, NONE) =
              <<submit(j), approve(j), go(j, "TASK_PLANNING"),
                go(j, "IN_PROGRESS"), go(j, "VALIDATING"), go(j, "DEPLOYABLE"),
                go(j, "COMPLETED")>>
         /\ happy_path(j, "IN_PROGRESS") =
              <<submit(j), approve(j), go(j, "TASK_PLANNING"),
                go(j, "IN_PROGRESS"), pause(j), resume(j), go(j, "VALIDATING"),
                go(j, "DEPLOYABLE"), go(j, "COMPLETED")>>
         /\ happy_path(j, "VALIDATING") =
              <<submit(j), approve(j), go(j, "TASK_PLANNING"),
                go(j, "IN_PROGRESS"), go(j, "VALIDATING"), pause(j), resume(j),
                go(j, "DEPLOYABLE"), go(j, "COMPLETED")>>
         /\ happy_path(j, "DEPLOYABLE") =
              <<submit(j), approve(j), go(j, "TASK_PLANNING"),
                go(j, "IN_PROGRESS"), go(j, "VALIDATING"), go(j, "DEPLOYABLE"),
                pause(j), resume(j), go(j, "COMPLETED")>>
<1> DEFINE straight(n) == <<enter(j, ISSUE_7_FLOW[n + 1])>>
           paused(n) == <<pause(j), resume(j), enter(j, ISSUE_7_FLOW[n + 1])>>
<1>1. Len(MAIN_LINE) = 8 /\ MAIN_LINE = ISSUE_7_FLOW
  BY MainLine DEF ISSUE_7_FLOW
<1>2. /\ enter(j, ISSUE_7_FLOW[2]) = submit(j)
      /\ enter(j, ISSUE_7_FLOW[3]) = approve(j)
      /\ enter(j, ISSUE_7_FLOW[4]) = go(j, "TASK_PLANNING")
      /\ enter(j, ISSUE_7_FLOW[5]) = go(j, "IN_PROGRESS")
      /\ enter(j, ISSUE_7_FLOW[6]) = go(j, "VALIDATING")
      /\ enter(j, ISSUE_7_FLOW[7]) = go(j, "DEPLOYABLE")
      /\ enter(j, ISSUE_7_FLOW[8]) = go(j, "COMPLETED")
  BY DEF enter, ISSUE_7_FLOW
<1>3. \A n \in 1 .. 7 :
        /\ ISSUE_7_FLOW[n] # NONE
        /\ ISSUE_7_FLOW[n] = "IN_PROGRESS" <=> n = 5
        /\ ISSUE_7_FLOW[n] = "VALIDATING" <=> n = 6
        /\ ISSUE_7_FLOW[n] = "DEPLOYABLE" <=> n = 7
  BY NoneAssumption DEF ISSUE_7_FLOW, JobState
<1>4. happy_path(j, NONE) =
        <<submit(j), approve(j), go(j, "TASK_PLANNING"), go(j, "IN_PROGRESS"),
          go(j, "VALIDATING"), go(j, "DEPLOYABLE"), go(j, "COMPLETED")>>
  <2> DEFINE piece(n) == IF ISSUE_7_FLOW[n] = NONE THEN paused(n) ELSE straight(n)
             seqs == [n \in 1 .. 7 |-> piece(n)]
  <2>1. happy_path(j, NONE) = FlattenSeq(seqs)
    BY <1>1, <1>2 DEF happy_path
  <2>2. FlattenSeq(seqs) =
          seqs[1] \o seqs[2] \o seqs[3] \o seqs[4] \o seqs[5] \o seqs[6] \o seqs[7]
    <3>1. Len(seqs) = 7
      OBVIOUS
    <3> HIDE DEF seqs
    <3>2. QED BY <3>1, Flattened
  <2>3. \A n \in 1 .. 7 : seqs[n] = straight(n)
    BY <1>3
  <2> HIDE DEF seqs
  <2>4. /\ seqs[1] = <<submit(j)>>
        /\ seqs[2] = <<approve(j)>>
        /\ seqs[3] = <<go(j, "TASK_PLANNING")>>
        /\ seqs[4] = <<go(j, "IN_PROGRESS")>>
        /\ seqs[5] = <<go(j, "VALIDATING")>>
        /\ seqs[6] = <<go(j, "DEPLOYABLE")>>
        /\ seqs[7] = <<go(j, "COMPLETED")>>
    BY <1>2, <2>3
  <2>5. PICK a, b, c, d, e, f, g :
          /\ a = submit(j) /\ b = approve(j) /\ c = go(j, "TASK_PLANNING")
          /\ d = go(j, "IN_PROGRESS") /\ e = go(j, "VALIDATING")
          /\ f = go(j, "DEPLOYABLE") /\ g = go(j, "COMPLETED")
    OBVIOUS
  <2>6. happy_path(j, NONE) =
          <<a>> \o <<b>> \o <<c>> \o <<d>> \o <<e>> \o <<f>> \o <<g>>
    BY <2>1, <2>2, <2>4, <2>5
  <2>7. happy_path(j, NONE) = <<a, b, c, d, e, f, g>>
    <3> DEFINE S == {a, b, c, d, e, f, g}
    <3>1. PICK s1, s2, s3, s4, s5, s6, s7 :
            /\ s1 = <<a>>
            /\ s2 = <<a, b>>
            /\ s3 = <<a, b, c>>
            /\ s4 = <<a, b, c, d>>
            /\ s5 = <<a, b, c, d, e>>
            /\ s6 = <<a, b, c, d, e, f>>
            /\ s7 = <<a, b, c, d, e, f, g>>
      OBVIOUS
    <3>2. /\ s1 \in Seq(S) /\ Len(s1) = 1
          /\ s2 \in Seq(S) /\ Len(s2) = 2
          /\ s3 \in Seq(S) /\ Len(s3) = 3
          /\ s4 \in Seq(S) /\ Len(s4) = 4
      BY <3>1
    <3>3. /\ s5 \in Seq(S) /\ Len(s5) = 5
          /\ s6 \in Seq(S) /\ Len(s6) = 6
          /\ s7 \in Seq(S) /\ Len(s7) = 7
      BY <3>1
    <3>4. s1 \o <<b>> = s2
      <4>1. /\ b \in S /\ s2[Len(s2)] = b
            /\ \A i \in 1 .. Len(s1) : s2[i] = s1[i]
        BY <3>1, <3>2
      <4>2. Len(s2) = Len(s1) + 1 /\ s1 \in Seq(S) /\ s2 \in Seq(S)
        BY <3>2, <3>3
      <4> HIDE DEF S
      <4>3. QED BY <4>1, <4>2, OneBehind
    <3>5. s2 \o <<c>> = s3
      <4>1. /\ c \in S /\ s3[Len(s3)] = c
            /\ \A i \in 1 .. Len(s2) : s3[i] = s2[i]
        BY <3>1, <3>2
      <4>2. Len(s3) = Len(s2) + 1 /\ s2 \in Seq(S) /\ s3 \in Seq(S)
        BY <3>2, <3>3
      <4> HIDE DEF S
      <4>3. QED BY <4>1, <4>2, OneBehind
    <3>6. s3 \o <<d>> = s4
      <4>1. /\ d \in S /\ s4[Len(s4)] = d
            /\ \A i \in 1 .. Len(s3) : s4[i] = s3[i]
        BY <3>1, <3>2
      <4>2. Len(s4) = Len(s3) + 1 /\ s3 \in Seq(S) /\ s4 \in Seq(S)
        BY <3>2, <3>3
      <4> HIDE DEF S
      <4>3. QED BY <4>1, <4>2, OneBehind
    <3>7. s4 \o <<e>> = s5
      <4>1. /\ e \in S /\ s5[Len(s5)] = e
            /\ \A i \in 1 .. Len(s4) : s5[i] = s4[i]
        BY <3>1, <3>2, <3>3
      <4>2. Len(s5) = Len(s4) + 1 /\ s4 \in Seq(S) /\ s5 \in Seq(S)
        BY <3>2, <3>3
      <4> HIDE DEF S
      <4>3. QED BY <4>1, <4>2, OneBehind
    <3>8. s5 \o <<f>> = s6
      <4>1. /\ f \in S /\ s6[Len(s6)] = f
            /\ \A i \in 1 .. Len(s5) : s6[i] = s5[i]
        BY <3>1, <3>3
      <4>2. Len(s6) = Len(s5) + 1 /\ s5 \in Seq(S) /\ s6 \in Seq(S)
        BY <3>2, <3>3
      <4> HIDE DEF S
      <4>3. QED BY <4>1, <4>2, OneBehind
    <3>9. s6 \o <<g>> = s7
      <4>1. /\ g \in S /\ s7[Len(s7)] = g
            /\ \A i \in 1 .. Len(s6) : s7[i] = s6[i]
        BY <3>1, <3>3
      <4>2. Len(s7) = Len(s6) + 1 /\ s6 \in Seq(S) /\ s7 \in Seq(S)
        BY <3>2, <3>3
      <4> HIDE DEF S
      <4>3. QED BY <4>1, <4>2, OneBehind
    <3>10. QED BY <2>6, <3>1, <3>4, <3>5, <3>6, <3>7, <3>8, <3>9
  <2>8. QED BY <2>5, <2>7
<1>5. happy_path(j, "IN_PROGRESS") =
        <<submit(j), approve(j), go(j, "TASK_PLANNING"), go(j, "IN_PROGRESS"),
          pause(j), resume(j), go(j, "VALIDATING"), go(j, "DEPLOYABLE"),
          go(j, "COMPLETED")>>
  <2> DEFINE piece(n) == IF ISSUE_7_FLOW[n] = "IN_PROGRESS" THEN paused(n) ELSE straight(n)
             seqs == [n \in 1 .. 7 |-> piece(n)]
  <2>1. happy_path(j, "IN_PROGRESS") = FlattenSeq(seqs)
    BY <1>1, <1>2 DEF happy_path
  <2>2. FlattenSeq(seqs) =
          seqs[1] \o seqs[2] \o seqs[3] \o seqs[4] \o seqs[5] \o seqs[6] \o seqs[7]
    <3>1. Len(seqs) = 7
      OBVIOUS
    <3> HIDE DEF seqs
    <3>2. QED BY <3>1, Flattened
  <2>3. \A n \in 1 .. 7 : seqs[n] = IF n = 5 THEN paused(n) ELSE straight(n)
    BY <1>3
  <2> HIDE DEF seqs
  <2>4. /\ seqs[1] = <<submit(j)>>
        /\ seqs[2] = <<approve(j)>>
        /\ seqs[3] = <<go(j, "TASK_PLANNING")>>
        /\ seqs[4] = <<go(j, "IN_PROGRESS")>>
        /\ seqs[5] = <<pause(j), resume(j), go(j, "VALIDATING")>>
        /\ seqs[6] = <<go(j, "DEPLOYABLE")>>
        /\ seqs[7] = <<go(j, "COMPLETED")>>
    BY <1>2, <2>3
  <2>5. happy_path(j, "IN_PROGRESS") =
          <<submit(j)>> \o <<approve(j)>> \o <<go(j, "TASK_PLANNING")>>
            \o <<go(j, "IN_PROGRESS")>>
            \o <<pause(j), resume(j), go(j, "VALIDATING")>>
            \o <<go(j, "DEPLOYABLE")>> \o <<go(j, "COMPLETED")>>
    BY <2>1, <2>2, <2>4
  <2>6. QED BY <2>5
<1>6. happy_path(j, "VALIDATING") =
        <<submit(j), approve(j), go(j, "TASK_PLANNING"), go(j, "IN_PROGRESS"),
          go(j, "VALIDATING"), pause(j), resume(j), go(j, "DEPLOYABLE"),
          go(j, "COMPLETED")>>
  <2> DEFINE piece(n) == IF ISSUE_7_FLOW[n] = "VALIDATING" THEN paused(n) ELSE straight(n)
             seqs == [n \in 1 .. 7 |-> piece(n)]
  <2>1. happy_path(j, "VALIDATING") = FlattenSeq(seqs)
    BY <1>1, <1>2 DEF happy_path
  <2>2. FlattenSeq(seqs) =
          seqs[1] \o seqs[2] \o seqs[3] \o seqs[4] \o seqs[5] \o seqs[6] \o seqs[7]
    <3>1. Len(seqs) = 7
      OBVIOUS
    <3> HIDE DEF seqs
    <3>2. QED BY <3>1, Flattened
  <2>3. \A n \in 1 .. 7 : seqs[n] = IF n = 6 THEN paused(n) ELSE straight(n)
    BY <1>3
  <2> HIDE DEF seqs
  <2>4. /\ seqs[1] = <<submit(j)>>
        /\ seqs[2] = <<approve(j)>>
        /\ seqs[3] = <<go(j, "TASK_PLANNING")>>
        /\ seqs[4] = <<go(j, "IN_PROGRESS")>>
        /\ seqs[5] = <<go(j, "VALIDATING")>>
        /\ seqs[6] = <<pause(j), resume(j), go(j, "DEPLOYABLE")>>
        /\ seqs[7] = <<go(j, "COMPLETED")>>
    BY <1>2, <2>3
  <2>5. happy_path(j, "VALIDATING") =
          <<submit(j)>> \o <<approve(j)>> \o <<go(j, "TASK_PLANNING")>>
            \o <<go(j, "IN_PROGRESS")>> \o <<go(j, "VALIDATING")>>
            \o <<pause(j), resume(j), go(j, "DEPLOYABLE")>> \o <<go(j, "COMPLETED")>>
    BY <2>1, <2>2, <2>4
  <2>6. QED BY <2>5
<1>7. happy_path(j, "DEPLOYABLE") =
        <<submit(j), approve(j), go(j, "TASK_PLANNING"), go(j, "IN_PROGRESS"),
          go(j, "VALIDATING"), go(j, "DEPLOYABLE"), pause(j), resume(j),
          go(j, "COMPLETED")>>
  <2> DEFINE piece(n) == IF ISSUE_7_FLOW[n] = "DEPLOYABLE" THEN paused(n) ELSE straight(n)
             seqs == [n \in 1 .. 7 |-> piece(n)]
  <2>1. happy_path(j, "DEPLOYABLE") = FlattenSeq(seqs)
    BY <1>1, <1>2 DEF happy_path
  <2>2. FlattenSeq(seqs) =
          seqs[1] \o seqs[2] \o seqs[3] \o seqs[4] \o seqs[5] \o seqs[6] \o seqs[7]
    <3>1. Len(seqs) = 7
      OBVIOUS
    <3> HIDE DEF seqs
    <3>2. QED BY <3>1, Flattened
  <2>3. \A n \in 1 .. 7 : seqs[n] = IF n = 7 THEN paused(n) ELSE straight(n)
    BY <1>3
  <2> HIDE DEF seqs
  <2>4. /\ seqs[1] = <<submit(j)>>
        /\ seqs[2] = <<approve(j)>>
        /\ seqs[3] = <<go(j, "TASK_PLANNING")>>
        /\ seqs[4] = <<go(j, "IN_PROGRESS")>>
        /\ seqs[5] = <<go(j, "VALIDATING")>>
        /\ seqs[6] = <<go(j, "DEPLOYABLE")>>
        /\ seqs[7] = <<pause(j), resume(j), go(j, "COMPLETED")>>
    BY <1>2, <2>3
  <2>5. happy_path(j, "DEPLOYABLE") =
          <<submit(j)>> \o <<approve(j)>> \o <<go(j, "TASK_PLANNING")>>
            \o <<go(j, "IN_PROGRESS")>> \o <<go(j, "VALIDATING")>>
            \o <<go(j, "DEPLOYABLE")>> \o <<pause(j), resume(j), go(j, "COMPLETED")>>
    BY <2>1, <2>2, <2>4
  <2>6. QED BY <2>5
<1>8. QED BY <1>4, <1>5, <1>6, <1>7

-----------------------------------------------------------------------------
(* The charts, flow by flow.                                               *)

\* What a call does to the job it is made on.
Takes(c, j, s) ==
  /\ c.on = j
  /\ \/ c.call = "transition" /\ c.to = s
     \/ c.call = "decide" /\ DECISION_TARGET[c.verdict] = s

Rests(c) == c.call \notin moving

\* What a call must do to be on the chart.
LEMMA TakesAlong ==
  ASSUME NEW c, NEW j, NEW path, NEW here
  PROVE  /\ Rests(c) \/ c.on # j => Along(c, j, path, here, here)
         /\ Takes(c, j, path[here + 1]) => Along(c, j, path, here, here + 1)
         /\ c = resume(j) /\ here > 1 /\ path[here + 1] = path[here - 1] =>
              Along(c, j, path, here, here + 1)
  BY DEF Rests, Takes, Along, moving, resume

\* The calls by what they do.
LEMMA CallsByEffect ==
  ASSUME NEW j
  PROVE  /\ Takes(submit(j), j, "GOVERNANCE_ANALYSIS")
         /\ Takes(approve(j), j, "APPROVED")
         /\ Takes(pause(j), j, "AWAITING_APPROVAL")
         /\ Takes(fail(j), j, "FAILED")
         /\ Takes(time_out(j), j, "TIMED_OUT")
         /\ Takes(cancel(j), j, "CANCELLED")
         /\ \A s : Takes(go(j, s), j, s)
         /\ \A e : /\ Takes(decide(j, "APPROVE", e), j, "APPROVED")
                   /\ Takes(decide(j, "REJECT", e), j, "REJECTED")
                   /\ Takes(decide(j, "REQUIRE_CHANGES", e), j, "DRAFT")
         /\ Rests(new(j)) /\ Rests(supersede) /\ \A s : Rests(force(j, s))
         /\ \A until : Rests(wait(until))
         /\ \A c, errors : Rests(refused(c, errors))
         /\ resume(j).on = j /\ resume(j).call = "resume"
<1>1. /\ Takes(submit(j), j, "GOVERNANCE_ANALYSIS")
      /\ Takes(pause(j), j, "AWAITING_APPROVAL")
      /\ Takes(fail(j), j, "FAILED")
      /\ Takes(time_out(j), j, "TIMED_OUT")
      /\ Takes(cancel(j), j, "CANCELLED")
      /\ \A s : Takes(go(j, s), j, s)
  BY DEF Takes, submit, pause, fail, time_out, cancel, go, move_to
<1>2. \A e : /\ Takes(decide(j, "APPROVE", e), j, "APPROVED")
             /\ Takes(decide(j, "REJECT", e), j, "REJECTED")
             /\ Takes(decide(j, "REQUIRE_CHANGES", e), j, "DRAFT")
  BY DEF Takes, decide, DECISION_TARGET
<1>3. Rests(new(j)) /\ Rests(supersede) /\ \A s : Rests(force(j, s))
  BY DEF Rests, new, supersede, force, moving
<1>4. /\ \A until : Rests(wait(until))
      /\ \A c, errors : Rests(refused(c, errors))
      /\ resume(j).on = j /\ resume(j).call = "resume"
  BY DEF Rests, wait, refused, resume, moving
<1>5. QED BY <1>1, <1>2, <1>3, <1>4 DEF approve

\* And which of them a flow may make.
LEMMA CallsMade ==
  ASSUME NEW j \in {first, second}, NEW dated
  PROVE  /\ IsCall(new(j), dated) /\ IsCall(supersede, dated)
         /\ IsCall(submit(j), dated)
         /\ IsCall(fail(j), dated) /\ IsCall(time_out(j), dated) /\ IsCall(cancel(j), dated)
         /\ \A s \in JobState \ POST_APPROVAL : IsCall(go(j, s), dated)
         /\ \A v \in DecisionType : IsCall(decide(j, v, NONE), dated)
         /\ IsCall(approve(j), dated)
         /\ j \in dated => \A e \in {Past, MaxTime} : IsCall(decide(j, "APPROVE", e), dated)
         /\ j \notin dated => /\ IsCall(pause(j), dated) /\ IsCall(resume(j), dated)
                              /\ \A s \in JobState : IsCall(go(j, s), dated)
         /\ \A until \in Nat : IsCall(wait(until), dated)
         /\ \A c, errors : IsCall(refused(c, errors), dated)
<1>1. IsCall(new(j), dated) /\ IsCall(supersede, dated)
  BY DEF IsCall, new, supersede
<1>2. /\ IsCall(submit(j), dated)
      /\ IsCall(fail(j), dated) /\ IsCall(time_out(j), dated) /\ IsCall(cancel(j), dated)
  BY DEF IsCall, submit, fail, time_out, cancel, move_to, JobState, POST_APPROVAL
<1>3. \A s \in JobState \ POST_APPROVAL : IsCall(go(j, s), dated)
  BY DEF IsCall, go, move_to
<1>4. \A v \in DecisionType : IsCall(decide(j, v, NONE), dated)
  BY DEF IsCall, decide
<1>5. j \in dated => \A e \in {Past, MaxTime} : IsCall(decide(j, "APPROVE", e), dated)
  BY FlowsAssumption DEF IsCall, decide, DecisionType
<1>6. j \notin dated => /\ IsCall(pause(j), dated) /\ IsCall(resume(j), dated)
                        /\ \A s \in JobState : IsCall(go(j, s), dated)
  BY DEF IsCall, pause, resume, go, move_to, JobState
<1>7. \A until \in Nat : IsCall(wait(until), dated)
  BY DEF IsCall, wait
<1>8. \A c, errors : IsCall(refused(c, errors), dated)
  BY DEF IsCall, refused
<1>9. QED
  BY <1>1, <1>2, <1>3, <1>4, <1>5, <1>6, <1>7, <1>8 DEF approve, DecisionType

\* Issue #7, all the way.
LEMMA FullCharted ==
  LET f == run_of("full", happy_path(first, NONE), first, ISSUE_7_FLOW)
  IN Charted(f) /\ Calls(f.script, {})
<1> DEFINE f == run_of("full", happy_path(first, NONE), first, ISSUE_7_FLOW)
<1>1. PICK s, path, at, dated :
        /\ s = f.script /\ dated = {}
        /\ path = <<"DRAFT", "GOVERNANCE_ANALYSIS", "APPROVED", "TASK_PLANNING",
                    "IN_PROGRESS", "VALIDATING", "DEPLOYABLE", "COMPLETED">>
        /\ at = <<1, 1, 2, 3, 4, 5, 6, 7, 8>>
  OBVIOUS
<1>2. s = <<new(first)>> \o <<submit(first), approve(first), go(first, "TASK_PLANNING"),
             go(first, "IN_PROGRESS"), go(first, "VALIDATING"),
             go(first, "DEPLOYABLE"), go(first, "COMPLETED")>>
  BY <1>1, HappyPaths DEF run_of
<1>3. Len(s) = 8 /\ DOMAIN s = 1 .. 8
  BY <1>2
<1>4. /\ s[1] = new(first) /\ s[2] = submit(first) /\ s[3] = approve(first)
      /\ s[4] = go(first, "TASK_PLANNING") /\ s[5] = go(first, "IN_PROGRESS")
      /\ s[6] = go(first, "VALIDATING") /\ s[7] = go(first, "DEPLOYABLE")
      /\ s[8] = go(first, "COMPLETED")
  BY <1>2
<1>5. f.of = first /\ f.of \in {first, second} /\ first # second
  BY FlowsAssumption DEF run_of
<1> HIDE DEF f
<1>6. \A n \in 1 .. 8 : Along(s[n], first, path, at[n], at[n + 1])
  BY <1>1, <1>4, <1>5, CallsByEffect DEF Takes, Rests, Along, moving
<1>7. \A n \in 1 .. 8 : IsCall(s[n], dated)
  <2>1. first \notin dated /\ second \notin dated
    BY <1>1, <1>5
  <2>2. QED
    BY <1>4, <2>1, CallsMade, JobAssumption DEF JobState, POST_APPROVAL, DecisionType
<1>8. path \in Seq(JobState) /\ at \in Seq(1 .. Len(path)) /\ Len(at) = 9
  BY <1>1 DEF JobState
<1>9. Charts(s, first, path, at) /\ Calls(s, dated)
  BY <1>1, <1>3, <1>6, <1>7, <1>8 DEF Charts, Calls
<1>10. at[Len(at)] = Len(path) /\ Ends(f.ends, path) /\ f.ends \in Seq(JobState)
  BY <1>1 DEF f, run_of, Ends, JobState, ISSUE_7_FLOW
<1>11. Charted(f) /\ Calls(f.script, {})
  BY <1>1, <1>5, <1>9, <1>10 DEF Charted
<1>12. QED BY <1>11 DEF f

\* Rejected, then approved.
LEMMA RejectedCharted ==
  LET f == run_of("rejected", rejected_then_resubmitted(first), first,
     <<"DRAFT", "GOVERNANCE_ANALYSIS", "REJECTED", "DRAFT", "GOVERNANCE_ANALYSIS",
       "APPROVED", "TASK_PLANNING">>)
  IN Charted(f) /\ Calls(f.script, {})
<1> DEFINE f == run_of("rejected", rejected_then_resubmitted(first), first,
     <<"DRAFT", "GOVERNANCE_ANALYSIS", "REJECTED", "DRAFT", "GOVERNANCE_ANALYSIS",
       "APPROVED", "TASK_PLANNING">>)
<1>1. PICK s, path, at, dated :
        /\ s = f.script /\ dated = {}
        /\ path = <<"DRAFT", "GOVERNANCE_ANALYSIS", "REJECTED", "DRAFT",
                    "GOVERNANCE_ANALYSIS", "APPROVED", "TASK_PLANNING">>
        /\ at = <<1, 1, 2, 3, 4, 5, 6, 7>>
  OBVIOUS
<1>2. Len(s) = 7 /\ DOMAIN s = 1 .. 7
  BY <1>1 DEF run_of, rejected_then_resubmitted
<1>3. /\ s[1] = new(first) /\ s[2] = submit(first)
      /\ s[3] = decide(first, "REJECT", NONE) /\ s[4] = go(first, "DRAFT")
      /\ s[5] = submit(first) /\ s[6] = approve(first)
      /\ s[7] = go(first, "TASK_PLANNING")
  BY <1>1 DEF run_of, rejected_then_resubmitted
<1>4. f.of = first /\ f.of \in {first, second} /\ first # second
  BY FlowsAssumption DEF run_of
<1> HIDE DEF f
<1>5. \A n \in 1 .. 7 : Along(s[n], first, path, at[n], at[n + 1])
  BY <1>1, <1>3, <1>4, CallsByEffect DEF Takes, Rests, Along, moving
<1>6. \A n \in 1 .. 7 : IsCall(s[n], dated)
  <2>1. first \notin dated /\ second \notin dated
    BY <1>1, <1>4
  <2>2. QED
    BY <1>3, <2>1, CallsMade, JobAssumption DEF JobState, POST_APPROVAL, DecisionType
<1>7. path \in Seq(JobState) /\ at \in Seq(1 .. Len(path)) /\ Len(at) = 8
  BY <1>1 DEF JobState
<1>8. Charts(s, first, path, at) /\ Calls(s, dated)
  BY <1>1, <1>2, <1>5, <1>6, <1>7 DEF Charts, Calls
<1>9. at[Len(at)] = Len(path) /\ Ends(f.ends, path) /\ f.ends \in Seq(JobState)
  BY <1>1 DEF f, run_of, Ends, JobState
<1>10. Charted(f) /\ Calls(f.script, {})
  BY <1>1, <1>4, <1>8, <1>9 DEF Charted
<1>11. QED BY <1>10 DEF f

\* Failed and replaced, and the replacement rejected.
LEMMA ReplacedCharted ==
  LET f == run_of("replaced", <<submit(first), approve(first), go(first, "TASK_PLANNING"),
       fail(first), supersede, submit(second), decide(second, "REJECT", NONE),
       go(second, "DRAFT"), refused(go(second, "TASK_PLANNING"), {"InvalidTransition"})>>, second,
     <<"REJECTED", "DRAFT">>)
  IN Charted(f) /\ Calls(f.script, {})
<1> DEFINE f == run_of("replaced", <<submit(first), approve(first), go(first, "TASK_PLANNING"),
       fail(first), supersede, submit(second), decide(second, "REJECT", NONE),
       go(second, "DRAFT"), refused(go(second, "TASK_PLANNING"), {"InvalidTransition"})>>, second,
     <<"REJECTED", "DRAFT">>)
<1>1. PICK s, path, at, dated :
        /\ s = f.script /\ dated = {}
        /\ path = <<"DRAFT", "GOVERNANCE_ANALYSIS", "REJECTED", "DRAFT">>
        /\ at = <<1, 1, 1, 1, 1, 1, 1, 2, 3, 4, 4>>
  OBVIOUS
<1>2. Len(s) = 10 /\ DOMAIN s = 1 .. 10
  BY <1>1 DEF run_of
<1>3. /\ s[1] = new(first) /\ s[2] = submit(first) /\ s[3] = approve(first)
      /\ s[4] = go(first, "TASK_PLANNING") /\ s[5] = fail(first) /\ s[6] = supersede
      /\ s[7] = submit(second) /\ s[8] = decide(second, "REJECT", NONE)
      /\ s[9] = go(second, "DRAFT")
      /\ s[10] = refused(go(second, "TASK_PLANNING"), {"InvalidTransition"})
  BY <1>1 DEF run_of
<1>4. f.of = second /\ f.of \in {first, second} /\ first # second
  BY FlowsAssumption DEF run_of
<1> HIDE DEF f
<1>5. \A n \in 1 .. 10 : Along(s[n], second, path, at[n], at[n + 1])
  BY <1>1, <1>3, <1>4, CallsByEffect DEF Takes, Rests, Along, moving
<1>6. \A n \in 1 .. 10 : IsCall(s[n], dated)
  <2>1. first \notin dated /\ second \notin dated
    BY <1>1, <1>4
  <2>2. QED
    BY <1>3, <2>1, CallsMade, JobAssumption DEF JobState, POST_APPROVAL, DecisionType
<1>7. path \in Seq(JobState) /\ at \in Seq(1 .. Len(path)) /\ Len(at) = 11
  BY <1>1 DEF JobState
<1>8. Charts(s, second, path, at) /\ Calls(s, dated)
  BY <1>1, <1>2, <1>5, <1>6, <1>7 DEF Charts, Calls
<1>9. at[Len(at)] = Len(path) /\ Ends(f.ends, path) /\ f.ends \in Seq(JobState)
  BY <1>1 DEF f, run_of, Ends, JobState
<1>10. Charted(f) /\ Calls(f.script, {})
  BY <1>1, <1>4, <1>8, <1>9 DEF Charted
<1>11. QED BY <1>10 DEF f

\* One job sent back for changes beside one rejected.
LEMMA ToldApartCharted ==
  LET f == run_of("told_apart", require_changes_then_resubmitted(first)
       \o <<new(second)>> \o rejected_then_resubmitted(second), first,
     <<"DRAFT", "GOVERNANCE_ANALYSIS", "DRAFT", "GOVERNANCE_ANALYSIS", "APPROVED",
       "TASK_PLANNING">>)
  IN /\ Charted(f) /\ Calls(f.script, {})
     /\ \E path, at :
          /\ Charts(f.script, first, path, at) /\ at[Len(at)] = Len(path)
          /\ path = <<"DRAFT", "GOVERNANCE_ANALYSIS", "DRAFT", "GOVERNANCE_ANALYSIS",
                      "APPROVED", "TASK_PLANNING">>
<1> DEFINE f == run_of("told_apart", require_changes_then_resubmitted(first)
       \o <<new(second)>> \o rejected_then_resubmitted(second), first,
     <<"DRAFT", "GOVERNANCE_ANALYSIS", "DRAFT", "GOVERNANCE_ANALYSIS", "APPROVED",
       "TASK_PLANNING">>)
<1>1. PICK s, path, at, dated :
        /\ s = f.script /\ dated = {}
        /\ path = <<"DRAFT", "GOVERNANCE_ANALYSIS", "DRAFT", "GOVERNANCE_ANALYSIS",
                    "APPROVED", "TASK_PLANNING">>
        /\ at = <<1, 1, 2, 3, 4, 5, 6, 6, 6, 6, 6, 6, 6, 6>>
  OBVIOUS
<1>2. Len(s) = 13 /\ DOMAIN s = 1 .. 13
  BY <1>1 DEF run_of, rejected_then_resubmitted, require_changes_then_resubmitted
<1>3. /\ s[1] = new(first) /\ s[2] = submit(first)
      /\ s[3] = decide(first, "REQUIRE_CHANGES", NONE) /\ s[4] = submit(first)
      /\ s[5] = approve(first) /\ s[6] = go(first, "TASK_PLANNING")
      /\ s[7] = new(second) /\ s[8] = submit(second)
      /\ s[9] = decide(second, "REJECT", NONE) /\ s[10] = go(second, "DRAFT")
      /\ s[11] = submit(second) /\ s[12] = approve(second)
      /\ s[13] = go(second, "TASK_PLANNING")
  BY <1>1 DEF run_of, rejected_then_resubmitted, require_changes_then_resubmitted
<1>4. f.of = first /\ f.of \in {first, second} /\ first # second
  BY FlowsAssumption DEF run_of
<1> HIDE DEF f
<1>5. \A n \in 1 .. 13 : Along(s[n], first, path, at[n], at[n + 1])
  BY <1>1, <1>3, <1>4, CallsByEffect DEF Takes, Rests, Along, moving
<1>6. \A n \in 1 .. 13 : IsCall(s[n], dated)
  <2>1. first \notin dated /\ second \notin dated
    BY <1>1, <1>4
  <2>2. QED
    BY <1>3, <2>1, CallsMade, JobAssumption DEF JobState, POST_APPROVAL, DecisionType
<1>7. path \in Seq(JobState) /\ at \in Seq(1 .. Len(path)) /\ Len(at) = 14
  BY <1>1 DEF JobState
<1>8. Charts(s, first, path, at) /\ Calls(s, dated)
  BY <1>1, <1>2, <1>5, <1>6, <1>7 DEF Charts, Calls
<1>9. at[Len(at)] = Len(path) /\ Ends(f.ends, path) /\ f.ends \in Seq(JobState)
  BY <1>1 DEF f, run_of, Ends, JobState
<1>10. Charted(f) /\ Calls(f.script, {})
  BY <1>1, <1>4, <1>8, <1>9 DEF Charted
<1>11. QED BY <1>1, <1>8, <1>9, <1>10 DEF f

\* Sent back for changes, and no further.
LEMMA SentBackCharted ==
  LET f == run_of("sent_back", <<submit(first), decide(first, "REQUIRE_CHANGES", NONE),
       refused(go(first, "TASK_PLANNING"), {"InvalidTransition"})>>, first,
     <<"GOVERNANCE_ANALYSIS", "DRAFT">>)
  IN Charted(f) /\ Calls(f.script, {})
<1> DEFINE f == run_of("sent_back", <<submit(first), decide(first, "REQUIRE_CHANGES", NONE),
       refused(go(first, "TASK_PLANNING"), {"InvalidTransition"})>>, first,
     <<"GOVERNANCE_ANALYSIS", "DRAFT">>)
<1>1. PICK s, path, at, dated :
        /\ s = f.script /\ dated = {}
        /\ path = <<"DRAFT", "GOVERNANCE_ANALYSIS", "DRAFT">>
        /\ at = <<1, 1, 2, 3, 3>>
  OBVIOUS
<1>2. Len(s) = 4 /\ DOMAIN s = 1 .. 4
  BY <1>1 DEF run_of
<1>3. /\ s[1] = new(first) /\ s[2] = submit(first)
      /\ s[3] = decide(first, "REQUIRE_CHANGES", NONE)
      /\ s[4] = refused(go(first, "TASK_PLANNING"), {"InvalidTransition"})
  BY <1>1 DEF run_of
<1>4. f.of = first /\ f.of \in {first, second} /\ first # second
  BY FlowsAssumption DEF run_of
<1> HIDE DEF f
<1>5. \A n \in 1 .. 4 : Along(s[n], first, path, at[n], at[n + 1])
  BY <1>1, <1>3, <1>4, CallsByEffect DEF Takes, Rests, Along, moving
<1>6. \A n \in 1 .. 4 : IsCall(s[n], dated)
  <2>1. first \notin dated /\ second \notin dated
    BY <1>1, <1>4
  <2>2. QED
    BY <1>3, <2>1, CallsMade, JobAssumption DEF JobState, POST_APPROVAL, DecisionType
<1>7. path \in Seq(JobState) /\ at \in Seq(1 .. Len(path)) /\ Len(at) = 5
  BY <1>1 DEF JobState
<1>8. Charts(s, first, path, at) /\ Calls(s, dated)
  BY <1>1, <1>2, <1>5, <1>6, <1>7 DEF Charts, Calls
<1>9. at[Len(at)] = Len(path) /\ Ends(f.ends, path) /\ f.ends \in Seq(JobState)
  BY <1>1 DEF f, run_of, Ends, JobState
<1>10. Charted(f) /\ Calls(f.script, {})
  BY <1>1, <1>4, <1>8, <1>9 DEF Charted
<1>11. QED BY <1>10 DEF f

\* Lapsed unasked for, and asked for again by another job.
LEMMA AskedAgainCharted ==
  LET f == run_of("asked_again", Append(approval_expired_then_resubmitted(Past),
       refused(go(first, "TASK_PLANNING"), {"TerminalState"})), second,
     <<"DRAFT", "GOVERNANCE_ANALYSIS", "APPROVED", "TASK_PLANNING">>)
  IN Charted(f) /\ Calls(f.script, {first})
<1> DEFINE f == run_of("asked_again", Append(approval_expired_then_resubmitted(Past),
       refused(go(first, "TASK_PLANNING"), {"TerminalState"})), second,
     <<"DRAFT", "GOVERNANCE_ANALYSIS", "APPROVED", "TASK_PLANNING">>)
<1>1. PICK s, path, at, dated :
        /\ s = f.script /\ dated = {first}
        /\ path = <<"DRAFT", "GOVERNANCE_ANALYSIS", "APPROVED", "TASK_PLANNING">>
        /\ at = <<1, 1, 1, 1, 1, 1, 2, 3, 4, 4>>
  OBVIOUS
<1>2. Len(s) = 9 /\ DOMAIN s = 1 .. 9
  BY <1>1 DEF run_of, approval_expired_then_resubmitted, approval_expired_at
<1>3. /\ s[1] = new(first) /\ s[2] = submit(first)
      /\ s[3] = decide(first, "APPROVE", Past) /\ s[4] = time_out(first)
      /\ s[5] = supersede /\ s[6] = submit(second) /\ s[7] = approve(second)
      /\ s[8] = go(second, "TASK_PLANNING")
      /\ s[9] = refused(go(first, "TASK_PLANNING"), {"TerminalState"})
  BY <1>1 DEF run_of, approval_expired_then_resubmitted, approval_expired_at
<1>4. f.of = second /\ f.of \in {first, second} /\ first # second
  BY FlowsAssumption DEF run_of
<1> HIDE DEF f
<1>5. \A n \in 1 .. 9 : Along(s[n], second, path, at[n], at[n + 1])
  BY <1>1, <1>3, <1>4, CallsByEffect DEF Takes, Rests, Along, moving
<1>6. \A n \in 1 .. 9 : IsCall(s[n], dated)
  <2>1. first \in dated /\ second \notin dated
    BY <1>1, <1>4
  <2>2. QED
    BY <1>3, <2>1, CallsMade, JobAssumption DEF JobState, POST_APPROVAL, DecisionType
<1>7. path \in Seq(JobState) /\ at \in Seq(1 .. Len(path)) /\ Len(at) = 10
  BY <1>1 DEF JobState
<1>8. Charts(s, second, path, at) /\ Calls(s, dated)
  BY <1>1, <1>2, <1>5, <1>6, <1>7 DEF Charts, Calls
<1>9. at[Len(at)] = Len(path) /\ Ends(f.ends, path) /\ f.ends \in Seq(JobState)
  BY <1>1 DEF f, run_of, Ends, JobState
<1>10. Charted(f) /\ Calls(f.script, {first})
  BY <1>1, <1>4, <1>8, <1>9 DEF Charted
<1>11. QED BY <1>10 DEF f

\* A delivered job is not replaced.
LEMMA DeliveredCharted ==
  LET f == run_of("delivered", Append(happy_path(first, NONE),
       refused(supersede, {"InvalidTransition"})), first,
     <<"COMPLETED">>)
  IN Charted(f) /\ Calls(f.script, {})
<1> DEFINE f == run_of("delivered", Append(happy_path(first, NONE),
       refused(supersede, {"InvalidTransition"})), first,
     <<"COMPLETED">>)
<1>1. PICK s, path, at, dated :
        /\ s = f.script /\ dated = {}
        /\ path = <<"DRAFT", "GOVERNANCE_ANALYSIS", "APPROVED", "TASK_PLANNING",
                    "IN_PROGRESS", "VALIDATING", "DEPLOYABLE", "COMPLETED">>
        /\ at = <<1, 1, 2, 3, 4, 5, 6, 7, 8, 8>>
  OBVIOUS
<1>2. s = <<new(first)>> \o Append(<<submit(first), approve(first), go(first, "TASK_PLANNING"),
                    go(first, "IN_PROGRESS"), go(first, "VALIDATING"),
                    go(first, "DEPLOYABLE"), go(first, "COMPLETED")>>,
                     refused(supersede, {"InvalidTransition"}))
  BY <1>1, HappyPaths DEF run_of
<1>3. Len(s) = 9 /\ DOMAIN s = 1 .. 9
  BY <1>2
<1>4. /\ s[1] = new(first) /\ s[2] = submit(first) /\ s[3] = approve(first)
      /\ s[4] = go(first, "TASK_PLANNING") /\ s[5] = go(first, "IN_PROGRESS")
      /\ s[6] = go(first, "VALIDATING") /\ s[7] = go(first, "DEPLOYABLE")
      /\ s[8] = go(first, "COMPLETED")
      /\ s[9] = refused(supersede, {"InvalidTransition"})
  BY <1>2
<1>5. f.of = first /\ f.of \in {first, second} /\ first # second
  BY FlowsAssumption DEF run_of
<1> HIDE DEF f
<1>6. \A n \in 1 .. 9 : Along(s[n], first, path, at[n], at[n + 1])
  BY <1>1, <1>4, <1>5, CallsByEffect DEF Takes, Rests, Along, moving
<1>7. \A n \in 1 .. 9 : IsCall(s[n], dated)
  <2>1. first \notin dated /\ second \notin dated
    BY <1>1, <1>5
  <2>2. QED
    BY <1>4, <2>1, CallsMade, JobAssumption DEF JobState, POST_APPROVAL, DecisionType
<1>8. path \in Seq(JobState) /\ at \in Seq(1 .. Len(path)) /\ Len(at) = 10
  BY <1>1 DEF JobState
<1>9. Charts(s, first, path, at) /\ Calls(s, dated)
  BY <1>1, <1>3, <1>6, <1>7, <1>8 DEF Charts, Calls
<1>10. at[Len(at)] = Len(path) /\ Ends(f.ends, path) /\ f.ends \in Seq(JobState)
  BY <1>1 DEF f, run_of, Ends, JobState
<1>11. Charted(f) /\ Calls(f.script, {})
  BY <1>1, <1>5, <1>9, <1>10 DEF Charted
<1>12. QED BY <1>11 DEF f

\* Nor is one still running.
LEMMA LiveCharted ==
  LET f == run_of("live", <<submit(first), refused(supersede, {"InvalidTransition"})>>, first,
     <<"GOVERNANCE_ANALYSIS">>)
  IN Charted(f) /\ Calls(f.script, {})
<1> DEFINE f == run_of("live", <<submit(first), refused(supersede, {"InvalidTransition"})>>, first,
     <<"GOVERNANCE_ANALYSIS">>)
<1>1. PICK s, path, at, dated :
        /\ s = f.script /\ dated = {}
        /\ path = <<"DRAFT", "GOVERNANCE_ANALYSIS">>
        /\ at = <<1, 1, 2, 2>>
  OBVIOUS
<1>2. Len(s) = 3 /\ DOMAIN s = 1 .. 3
  BY <1>1 DEF run_of
<1>3. /\ s[1] = new(first) /\ s[2] = submit(first)
      /\ s[3] = refused(supersede, {"InvalidTransition"})
  BY <1>1 DEF run_of
<1>4. f.of = first /\ f.of \in {first, second} /\ first # second
  BY FlowsAssumption DEF run_of
<1> HIDE DEF f
<1>5. \A n \in 1 .. 3 : Along(s[n], first, path, at[n], at[n + 1])
  BY <1>1, <1>3, <1>4, CallsByEffect DEF Takes, Rests, Along, moving
<1>6. \A n \in 1 .. 3 : IsCall(s[n], dated)
  <2>1. first \notin dated /\ second \notin dated
    BY <1>1, <1>4
  <2>2. QED
    BY <1>3, <2>1, CallsMade, JobAssumption DEF JobState, POST_APPROVAL, DecisionType
<1>7. path \in Seq(JobState) /\ at \in Seq(1 .. Len(path)) /\ Len(at) = 4
  BY <1>1 DEF JobState
<1>8. Charts(s, first, path, at) /\ Calls(s, dated)
  BY <1>1, <1>2, <1>5, <1>6, <1>7 DEF Charts, Calls
<1>9. at[Len(at)] = Len(path) /\ Ends(f.ends, path) /\ f.ends \in Seq(JobState)
  BY <1>1 DEF f, run_of, Ends, JobState
<1>10. Charted(f) /\ Calls(f.script, {})
  BY <1>1, <1>4, <1>8, <1>9 DEF Charted
<1>11. QED BY <1>10 DEF f

\* Approved, and on its way.
LEMMA AuthorisedCharted ==
  LET f == run_of("authorised", <<submit(first), approve(first), go(first, "TASK_PLANNING")>>,
     first, <<"APPROVED", "TASK_PLANNING">>)
  IN Charted(f) /\ Calls(f.script, {})
<1> DEFINE f == run_of("authorised", <<submit(first), approve(first), go(first, "TASK_PLANNING")>>,
     first, <<"APPROVED", "TASK_PLANNING">>)
<1>1. PICK s, path, at, dated :
        /\ s = f.script /\ dated = {}
        /\ path = <<"DRAFT", "GOVERNANCE_ANALYSIS", "APPROVED", "TASK_PLANNING">>
        /\ at = <<1, 1, 2, 3, 4>>
  OBVIOUS
<1>2. Len(s) = 4 /\ DOMAIN s = 1 .. 4
  BY <1>1 DEF run_of
<1>3. /\ s[1] = new(first) /\ s[2] = submit(first) /\ s[3] = approve(first)
      /\ s[4] = go(first, "TASK_PLANNING")
  BY <1>1 DEF run_of
<1>4. f.of = first /\ f.of \in {first, second} /\ first # second
  BY FlowsAssumption DEF run_of
<1> HIDE DEF f
<1>5. \A n \in 1 .. 4 : Along(s[n], first, path, at[n], at[n + 1])
  BY <1>1, <1>3, <1>4, CallsByEffect DEF Takes, Rests, Along, moving
<1>6. \A n \in 1 .. 4 : IsCall(s[n], dated)
  <2>1. first \notin dated /\ second \notin dated
    BY <1>1, <1>4
  <2>2. QED
    BY <1>3, <2>1, CallsMade, JobAssumption DEF JobState, POST_APPROVAL, DecisionType
<1>7. path \in Seq(JobState) /\ at \in Seq(1 .. Len(path)) /\ Len(at) = 5
  BY <1>1 DEF JobState
<1>8. Charts(s, first, path, at) /\ Calls(s, dated)
  BY <1>1, <1>2, <1>5, <1>6, <1>7 DEF Charts, Calls
<1>9. at[Len(at)] = Len(path) /\ Ends(f.ends, path) /\ f.ends \in Seq(JobState)
  BY <1>1 DEF f, run_of, Ends, JobState
<1>10. Charted(f) /\ Calls(f.script, {})
  BY <1>1, <1>4, <1>8, <1>9 DEF Charted
<1>11. QED BY <1>10 DEF f

\* Approved, and not come for in time.
LEMMA LapsedCharted ==
  LET f == run_of("lapsed", <<submit(first), decide(first, "APPROVE", MaxTime), wait(MaxTime),
       refused(go(first, "TASK_PLANNING"), {"ExpiredApproval"}), time_out(first)>>, first,
     <<"APPROVED", "TIMED_OUT">>)
  IN Charted(f) /\ Calls(f.script, {first})
<1> DEFINE f == run_of("lapsed", <<submit(first), decide(first, "APPROVE", MaxTime), wait(MaxTime),
       refused(go(first, "TASK_PLANNING"), {"ExpiredApproval"}), time_out(first)>>, first,
     <<"APPROVED", "TIMED_OUT">>)
<1>1. PICK s, path, at, dated :
        /\ s = f.script /\ dated = {first}
        /\ path = <<"DRAFT", "GOVERNANCE_ANALYSIS", "APPROVED", "TIMED_OUT">>
        /\ at = <<1, 1, 2, 3, 3, 3, 4>>
  OBVIOUS
<1>2. Len(s) = 6 /\ DOMAIN s = 1 .. 6
  BY <1>1 DEF run_of
<1>3. /\ s[1] = new(first) /\ s[2] = submit(first)
      /\ s[3] = decide(first, "APPROVE", MaxTime) /\ s[4] = wait(MaxTime)
      /\ s[5] = refused(go(first, "TASK_PLANNING"), {"ExpiredApproval"})
      /\ s[6] = time_out(first)
  BY <1>1 DEF run_of
<1>4. f.of = first /\ f.of \in {first, second} /\ first # second
  BY FlowsAssumption DEF run_of
<1> HIDE DEF f
<1>5. \A n \in 1 .. 6 : Along(s[n], first, path, at[n], at[n + 1])
  BY <1>1, <1>3, <1>4, CallsByEffect DEF Takes, Rests, Along, moving
<1>6. \A n \in 1 .. 6 : IsCall(s[n], dated)
  <2>1. first \in dated /\ second \notin dated
    BY <1>1, <1>4
  <2>2. QED
    BY <1>3, <2>1, CallsMade, JobAssumption DEF JobState, POST_APPROVAL, DecisionType
<1>7. path \in Seq(JobState) /\ at \in Seq(1 .. Len(path)) /\ Len(at) = 7
  BY <1>1 DEF JobState
<1>8. Charts(s, first, path, at) /\ Calls(s, dated)
  BY <1>1, <1>2, <1>5, <1>6, <1>7 DEF Charts, Calls
<1>9. at[Len(at)] = Len(path) /\ Ends(f.ends, path) /\ f.ends \in Seq(JobState)
  BY <1>1 DEF f, run_of, Ends, JobState
<1>10. Charted(f) /\ Calls(f.script, {first})
  BY <1>1, <1>4, <1>8, <1>9 DEF Charted
<1>11. QED BY <1>10 DEF f

\* Cancelled before it was judged.
LEMMA CancelledCharted ==
  LET f == run_of("cancelled", cancelled_by_a_person(first), first, <<"CANCELLED">>)
  IN Charted(f) /\ Calls(f.script, {})
<1> DEFINE f == run_of("cancelled", cancelled_by_a_person(first), first, <<"CANCELLED">>)
<1>1. PICK s, path, at, dated :
        /\ s = f.script /\ dated = {}
        /\ path = <<"DRAFT", "GOVERNANCE_ANALYSIS", "CANCELLED">>
        /\ at = <<1, 1, 2, 3>>
  OBVIOUS
<1>2. Len(s) = 3 /\ DOMAIN s = 1 .. 3
  BY <1>1 DEF run_of, cancelled_by_a_person
<1>3. /\ s[1] = new(first) /\ s[2] = submit(first) /\ s[3] = cancel(first)
  BY <1>1 DEF run_of, cancelled_by_a_person
<1>4. f.of = first /\ f.of \in {first, second} /\ first # second
  BY FlowsAssumption DEF run_of
<1> HIDE DEF f
<1>5. \A n \in 1 .. 3 : Along(s[n], first, path, at[n], at[n + 1])
  BY <1>1, <1>3, <1>4, CallsByEffect DEF Takes, Rests, Along, moving
<1>6. \A n \in 1 .. 3 : IsCall(s[n], dated)
  <2>1. first \notin dated /\ second \notin dated
    BY <1>1, <1>4
  <2>2. QED
    BY <1>3, <2>1, CallsMade, JobAssumption DEF JobState, POST_APPROVAL, DecisionType
<1>7. path \in Seq(JobState) /\ at \in Seq(1 .. Len(path)) /\ Len(at) = 4
  BY <1>1 DEF JobState
<1>8. Charts(s, first, path, at) /\ Calls(s, dated)
  BY <1>1, <1>2, <1>5, <1>6, <1>7 DEF Charts, Calls
<1>9. at[Len(at)] = Len(path) /\ Ends(f.ends, path) /\ f.ends \in Seq(JobState)
  BY <1>1 DEF f, run_of, Ends, JobState
<1>10. Charted(f) /\ Calls(f.script, {})
  BY <1>1, <1>4, <1>8, <1>9 DEF Charted
<1>11. QED BY <1>10 DEF f

\* Paused, and never resumed.
LEMMA StalledCharted ==
  LET f == run_of("stalled", stalled_awaiting_approval(first), first,
     <<"AWAITING_APPROVAL", "TIMED_OUT">>)
  IN Charted(f) /\ Calls(f.script, {})
<1> DEFINE f == run_of("stalled", stalled_awaiting_approval(first), first,
     <<"AWAITING_APPROVAL", "TIMED_OUT">>)
<1>1. PICK s, path, at, dated :
        /\ s = f.script /\ dated = {}
        /\ path = <<"DRAFT", "GOVERNANCE_ANALYSIS", "APPROVED", "TASK_PLANNING",
                    "IN_PROGRESS", "AWAITING_APPROVAL", "TIMED_OUT">>
        /\ at = <<1, 1, 2, 3, 4, 5, 6, 7>>
  OBVIOUS
<1>2. s = <<new(first)>> \o (<<submit(first), approve(first), go(first, "TASK_PLANNING"),
              go(first, "IN_PROGRESS")>>
              \o <<pause(first), time_out(first)>>)
  BY <1>1, AdvanceTo DEF run_of, stalled_awaiting_approval
<1>3. Len(s) = 7 /\ DOMAIN s = 1 .. 7
  BY <1>2
<1>4. /\ s[1] = new(first) /\ s[2] = submit(first) /\ s[3] = approve(first)
      /\ s[4] = go(first, "TASK_PLANNING") /\ s[5] = go(first, "IN_PROGRESS")
      /\ s[6] = pause(first) /\ s[7] = time_out(first)
  BY <1>2
<1>5. f.of = first /\ f.of \in {first, second} /\ first # second
  BY FlowsAssumption DEF run_of
<1> HIDE DEF f
<1>6. \A n \in 1 .. 7 : Along(s[n], first, path, at[n], at[n + 1])
  BY <1>1, <1>4, <1>5, CallsByEffect DEF Takes, Rests, Along, moving
<1>7. \A n \in 1 .. 7 : IsCall(s[n], dated)
  <2>1. first \notin dated /\ second \notin dated
    BY <1>1, <1>5
  <2>2. QED
    BY <1>4, <2>1, CallsMade, JobAssumption DEF JobState, POST_APPROVAL, DecisionType
<1>8. path \in Seq(JobState) /\ at \in Seq(1 .. Len(path)) /\ Len(at) = 8
  BY <1>1 DEF JobState
<1>9. Charts(s, first, path, at) /\ Calls(s, dated)
  BY <1>1, <1>3, <1>6, <1>7, <1>8 DEF Charts, Calls
<1>10. at[Len(at)] = Len(path) /\ Ends(f.ends, path) /\ f.ends \in Seq(JobState)
  BY <1>1 DEF f, run_of, Ends, JobState
<1>11. Charted(f) /\ Calls(f.script, {})
  BY <1>1, <1>5, <1>9, <1>10 DEF Charted
<1>12. QED BY <1>11 DEF f

\* Failed before work began, and replaced.
LEMMA FailedInTaskPlanningCharted ==
  LET f == run_of("failed", failed_at(first, "TASK_PLANNING")
     \o <<supersede, refused(go(second, "TASK_PLANNING"), {"InvalidTransition"})>>, first,
     <<"TASK_PLANNING", "FAILED">>)
  IN Charted(f) /\ Calls(f.script, {})
<1> DEFINE f == run_of("failed", failed_at(first, "TASK_PLANNING")
     \o <<supersede, refused(go(second, "TASK_PLANNING"), {"InvalidTransition"})>>, first,
     <<"TASK_PLANNING", "FAILED">>)
<1>1. PICK s, path, at, dated :
        /\ s = f.script /\ dated = {}
        /\ path = <<"DRAFT", "GOVERNANCE_ANALYSIS", "APPROVED", "TASK_PLANNING",
                    "FAILED">>
        /\ at = <<1, 1, 2, 3, 4, 5, 5, 5>>
  OBVIOUS
<1>2. s = <<new(first)>> \o (<<submit(first), approve(first), go(first, "TASK_PLANNING")>>
            \o <<fail(first)>> \o <<supersede,
            refused(go(second, "TASK_PLANNING"), {"InvalidTransition"})>>)
  BY <1>1, AdvanceTo DEF run_of, failed_at
<1>3. Len(s) = 7 /\ DOMAIN s = 1 .. 7
  BY <1>2
<1>4. /\ s[1] = new(first) /\ s[2] = submit(first) /\ s[3] = approve(first)
      /\ s[4] = go(first, "TASK_PLANNING") /\ s[5] = fail(first) /\ s[6] = supersede
      /\ s[7] = refused(go(second, "TASK_PLANNING"), {"InvalidTransition"})
  BY <1>2
<1>5. f.of = first /\ f.of \in {first, second} /\ first # second
  BY FlowsAssumption DEF run_of
<1> HIDE DEF f
<1>6. \A n \in 1 .. 7 : Along(s[n], first, path, at[n], at[n + 1])
  BY <1>1, <1>4, <1>5, CallsByEffect DEF Takes, Rests, Along, moving
<1>7. \A n \in 1 .. 7 : IsCall(s[n], dated)
  <2>1. first \notin dated /\ second \notin dated
    BY <1>1, <1>5
  <2>2. QED
    BY <1>4, <2>1, CallsMade, JobAssumption DEF JobState, POST_APPROVAL, DecisionType
<1>8. path \in Seq(JobState) /\ at \in Seq(1 .. Len(path)) /\ Len(at) = 8
  BY <1>1 DEF JobState
<1>9. Charts(s, first, path, at) /\ Calls(s, dated)
  BY <1>1, <1>3, <1>6, <1>7, <1>8 DEF Charts, Calls
<1>10. at[Len(at)] = Len(path) /\ Ends(f.ends, path) /\ f.ends \in Seq(JobState)
  BY <1>1 DEF f, run_of, Ends, JobState
<1>11. Charted(f) /\ Calls(f.script, {})
  BY <1>1, <1>5, <1>9, <1>10 DEF Charted
<1>12. QED BY <1>11 DEF f

\* Failed there, and replaced.
LEMMA FailedInInProgressCharted ==
  LET f == run_of("failed", failed_at(first, "IN_PROGRESS")
     \o <<supersede, refused(go(second, "TASK_PLANNING"), {"InvalidTransition"})>>, first,
     <<"IN_PROGRESS", "FAILED">>)
  IN Charted(f) /\ Calls(f.script, {})
<1> DEFINE f == run_of("failed", failed_at(first, "IN_PROGRESS")
     \o <<supersede, refused(go(second, "TASK_PLANNING"), {"InvalidTransition"})>>, first,
     <<"IN_PROGRESS", "FAILED">>)
<1>1. PICK s, path, at, dated :
        /\ s = f.script /\ dated = {}
        /\ path = <<"DRAFT", "GOVERNANCE_ANALYSIS", "APPROVED", "TASK_PLANNING",
                    "IN_PROGRESS", "FAILED">>
        /\ at = <<1, 1, 2, 3, 4, 5, 6, 6, 6>>
  OBVIOUS
<1>2. s = <<new(first)>> \o (<<submit(first), approve(first), go(first, "TASK_PLANNING"),
              go(first, "IN_PROGRESS")>>
            \o <<fail(first)>> \o <<supersede,
            refused(go(second, "TASK_PLANNING"), {"InvalidTransition"})>>)
  BY <1>1, AdvanceTo DEF run_of, failed_at
<1>3. Len(s) = 8 /\ DOMAIN s = 1 .. 8
  BY <1>2
<1>4. /\ s[1] = new(first) /\ s[2] = submit(first) /\ s[3] = approve(first)
      /\ s[4] = go(first, "TASK_PLANNING") /\ s[5] = go(first, "IN_PROGRESS")
      /\ s[6] = fail(first) /\ s[7] = supersede
      /\ s[8] = refused(go(second, "TASK_PLANNING"), {"InvalidTransition"})
  BY <1>2
<1>5. f.of = first /\ f.of \in {first, second} /\ first # second
  BY FlowsAssumption DEF run_of
<1> HIDE DEF f
<1>6. \A n \in 1 .. 8 : Along(s[n], first, path, at[n], at[n + 1])
  BY <1>1, <1>4, <1>5, CallsByEffect DEF Takes, Rests, Along, moving
<1>7. \A n \in 1 .. 8 : IsCall(s[n], dated)
  <2>1. first \notin dated /\ second \notin dated
    BY <1>1, <1>5
  <2>2. QED
    BY <1>4, <2>1, CallsMade, JobAssumption DEF JobState, POST_APPROVAL, DecisionType
<1>8. path \in Seq(JobState) /\ at \in Seq(1 .. Len(path)) /\ Len(at) = 9
  BY <1>1 DEF JobState
<1>9. Charts(s, first, path, at) /\ Calls(s, dated)
  BY <1>1, <1>3, <1>6, <1>7, <1>8 DEF Charts, Calls
<1>10. at[Len(at)] = Len(path) /\ Ends(f.ends, path) /\ f.ends \in Seq(JobState)
  BY <1>1 DEF f, run_of, Ends, JobState
<1>11. Charted(f) /\ Calls(f.script, {})
  BY <1>1, <1>5, <1>9, <1>10 DEF Charted
<1>12. QED BY <1>11 DEF f

\* Failed there, and replaced.
LEMMA FailedInValidatingCharted ==
  LET f == run_of("failed", failed_at(first, "VALIDATING")
     \o <<supersede, refused(go(second, "TASK_PLANNING"), {"InvalidTransition"})>>, first,
     <<"VALIDATING", "FAILED">>)
  IN Charted(f) /\ Calls(f.script, {})
<1> DEFINE f == run_of("failed", failed_at(first, "VALIDATING")
     \o <<supersede, refused(go(second, "TASK_PLANNING"), {"InvalidTransition"})>>, first,
     <<"VALIDATING", "FAILED">>)
<1>1. PICK s, path, at, dated :
        /\ s = f.script /\ dated = {}
        /\ path = <<"DRAFT", "GOVERNANCE_ANALYSIS", "APPROVED", "TASK_PLANNING",
                    "IN_PROGRESS", "VALIDATING", "FAILED">>
        /\ at = <<1, 1, 2, 3, 4, 5, 6, 7, 7, 7>>
  OBVIOUS
<1>2. s = <<new(first)>> \o (<<submit(first), approve(first), go(first, "TASK_PLANNING"),
              go(first, "IN_PROGRESS"), go(first, "VALIDATING")>>
            \o <<fail(first)>> \o <<supersede,
            refused(go(second, "TASK_PLANNING"), {"InvalidTransition"})>>)
  BY <1>1, AdvanceTo DEF run_of, failed_at
<1>3. Len(s) = 9 /\ DOMAIN s = 1 .. 9
  BY <1>2
<1>4. /\ s[1] = new(first) /\ s[2] = submit(first) /\ s[3] = approve(first)
      /\ s[4] = go(first, "TASK_PLANNING") /\ s[5] = go(first, "IN_PROGRESS")
      /\ s[6] = go(first, "VALIDATING") /\ s[7] = fail(first) /\ s[8] = supersede
      /\ s[9] = refused(go(second, "TASK_PLANNING"), {"InvalidTransition"})
  BY <1>2
<1>5. f.of = first /\ f.of \in {first, second} /\ first # second
  BY FlowsAssumption DEF run_of
<1> HIDE DEF f
<1>6. \A n \in 1 .. 9 : Along(s[n], first, path, at[n], at[n + 1])
  BY <1>1, <1>4, <1>5, CallsByEffect DEF Takes, Rests, Along, moving
<1>7. \A n \in 1 .. 9 : IsCall(s[n], dated)
  <2>1. first \notin dated /\ second \notin dated
    BY <1>1, <1>5
  <2>2. QED
    BY <1>4, <2>1, CallsMade, JobAssumption DEF JobState, POST_APPROVAL, DecisionType
<1>8. path \in Seq(JobState) /\ at \in Seq(1 .. Len(path)) /\ Len(at) = 10
  BY <1>1 DEF JobState
<1>9. Charts(s, first, path, at) /\ Calls(s, dated)
  BY <1>1, <1>3, <1>6, <1>7, <1>8 DEF Charts, Calls
<1>10. at[Len(at)] = Len(path) /\ Ends(f.ends, path) /\ f.ends \in Seq(JobState)
  BY <1>1 DEF f, run_of, Ends, JobState
<1>11. Charted(f) /\ Calls(f.script, {})
  BY <1>1, <1>5, <1>9, <1>10 DEF Charted
<1>12. QED BY <1>11 DEF f

\* Failed there, and replaced.
LEMMA FailedInDeployableCharted ==
  LET f == run_of("failed", failed_at(first, "DEPLOYABLE")
     \o <<supersede, refused(go(second, "TASK_PLANNING"), {"InvalidTransition"})>>, first,
     <<"DEPLOYABLE", "FAILED">>)
  IN Charted(f) /\ Calls(f.script, {})
<1> DEFINE f == run_of("failed", failed_at(first, "DEPLOYABLE")
     \o <<supersede, refused(go(second, "TASK_PLANNING"), {"InvalidTransition"})>>, first,
     <<"DEPLOYABLE", "FAILED">>)
<1>1. PICK s, path, at, dated :
        /\ s = f.script /\ dated = {}
        /\ path = <<"DRAFT", "GOVERNANCE_ANALYSIS", "APPROVED", "TASK_PLANNING",
                    "IN_PROGRESS", "VALIDATING", "DEPLOYABLE", "FAILED">>
        /\ at = <<1, 1, 2, 3, 4, 5, 6, 7, 8, 8, 8>>
  OBVIOUS
<1>2. s = <<new(first)>> \o (<<submit(first), approve(first), go(first, "TASK_PLANNING"),
              go(first, "IN_PROGRESS"), go(first, "VALIDATING"),
              go(first, "DEPLOYABLE")>>
            \o <<fail(first)>> \o <<supersede,
            refused(go(second, "TASK_PLANNING"), {"InvalidTransition"})>>)
  BY <1>1, AdvanceTo DEF run_of, failed_at
<1>3. Len(s) = 10 /\ DOMAIN s = 1 .. 10
  BY <1>2
<1>4. /\ s[1] = new(first) /\ s[2] = submit(first) /\ s[3] = approve(first)
      /\ s[4] = go(first, "TASK_PLANNING") /\ s[5] = go(first, "IN_PROGRESS")
      /\ s[6] = go(first, "VALIDATING") /\ s[7] = go(first, "DEPLOYABLE")
      /\ s[8] = fail(first) /\ s[9] = supersede
      /\ s[10] = refused(go(second, "TASK_PLANNING"), {"InvalidTransition"})
  BY <1>2
<1>5. f.of = first /\ f.of \in {first, second} /\ first # second
  BY FlowsAssumption DEF run_of
<1> HIDE DEF f
<1>6. \A n \in 1 .. 10 : Along(s[n], first, path, at[n], at[n + 1])
  BY <1>1, <1>4, <1>5, CallsByEffect DEF Takes, Rests, Along, moving
<1>7. \A n \in 1 .. 10 : IsCall(s[n], dated)
  <2>1. first \notin dated /\ second \notin dated
    BY <1>1, <1>5
  <2>2. QED
    BY <1>4, <2>1, CallsMade, JobAssumption DEF JobState, POST_APPROVAL, DecisionType
<1>8. path \in Seq(JobState) /\ at \in Seq(1 .. Len(path)) /\ Len(at) = 11
  BY <1>1 DEF JobState
<1>9. Charts(s, first, path, at) /\ Calls(s, dated)
  BY <1>1, <1>3, <1>6, <1>7, <1>8 DEF Charts, Calls
<1>10. at[Len(at)] = Len(path) /\ Ends(f.ends, path) /\ f.ends \in Seq(JobState)
  BY <1>1 DEF f, run_of, Ends, JobState
<1>11. Charted(f) /\ Calls(f.script, {})
  BY <1>1, <1>5, <1>9, <1>10 DEF Charted
<1>12. QED BY <1>11 DEF f

\* Failed there, and replaced.
LEMMA FailedInAwaitingApprovalCharted ==
  LET f == run_of("failed", failed_at(first, "AWAITING_APPROVAL")
     \o <<supersede, refused(go(second, "TASK_PLANNING"), {"InvalidTransition"})>>, first,
     <<"AWAITING_APPROVAL", "FAILED">>)
  IN Charted(f) /\ Calls(f.script, {})
<1> DEFINE f == run_of("failed", failed_at(first, "AWAITING_APPROVAL")
     \o <<supersede, refused(go(second, "TASK_PLANNING"), {"InvalidTransition"})>>, first,
     <<"AWAITING_APPROVAL", "FAILED">>)
<1>1. PICK s, path, at, dated :
        /\ s = f.script /\ dated = {}
        /\ path = <<"DRAFT", "GOVERNANCE_ANALYSIS", "APPROVED", "TASK_PLANNING",
                    "IN_PROGRESS", "AWAITING_APPROVAL", "FAILED">>
        /\ at = <<1, 1, 2, 3, 4, 5, 6, 7, 7, 7>>
  OBVIOUS
<1>2. s = <<new(first)>> \o (Append(<<submit(first), approve(first), go(first, "TASK_PLANNING"),
                     go(first, "IN_PROGRESS")>>, pause(first))
            \o <<fail(first)>> \o <<supersede,
            refused(go(second, "TASK_PLANNING"), {"InvalidTransition"})>>)
  BY <1>1, AdvanceTo DEF run_of, failed_at
<1>3. Len(s) = 9 /\ DOMAIN s = 1 .. 9
  BY <1>2
<1>4. /\ s[1] = new(first) /\ s[2] = submit(first) /\ s[3] = approve(first)
      /\ s[4] = go(first, "TASK_PLANNING") /\ s[5] = go(first, "IN_PROGRESS")
      /\ s[6] = pause(first) /\ s[7] = fail(first) /\ s[8] = supersede
      /\ s[9] = refused(go(second, "TASK_PLANNING"), {"InvalidTransition"})
  BY <1>2
<1>5. f.of = first /\ f.of \in {first, second} /\ first # second
  BY FlowsAssumption DEF run_of
<1> HIDE DEF f
<1>6. \A n \in 1 .. 9 : Along(s[n], first, path, at[n], at[n + 1])
  BY <1>1, <1>4, <1>5, CallsByEffect DEF Takes, Rests, Along, moving
<1>7. \A n \in 1 .. 9 : IsCall(s[n], dated)
  <2>1. first \notin dated /\ second \notin dated
    BY <1>1, <1>5
  <2>2. QED
    BY <1>4, <2>1, CallsMade, JobAssumption DEF JobState, POST_APPROVAL, DecisionType
<1>8. path \in Seq(JobState) /\ at \in Seq(1 .. Len(path)) /\ Len(at) = 10
  BY <1>1 DEF JobState
<1>9. Charts(s, first, path, at) /\ Calls(s, dated)
  BY <1>1, <1>3, <1>6, <1>7, <1>8 DEF Charts, Calls
<1>10. at[Len(at)] = Len(path) /\ Ends(f.ends, path) /\ f.ends \in Seq(JobState)
  BY <1>1 DEF f, run_of, Ends, JobState
<1>11. Charted(f) /\ Calls(f.script, {})
  BY <1>1, <1>5, <1>9, <1>10 DEF Charted
<1>12. QED BY <1>11 DEF f

\* A job parked there cannot fail.
LEMMA ParkedInDraftCharted ==
  LET f == run_of("parked",
     Append(park_in(first, "DRAFT"), refused(fail(first), JobStateMachineError)), first,
     <<"DRAFT">>)
  IN Charted(f) /\ Calls(f.script, {})
<1> DEFINE f == run_of("parked",
     Append(park_in(first, "DRAFT"), refused(fail(first), JobStateMachineError)), first,
     <<"DRAFT">>)
<1>1. PICK s, path, at, dated :
        /\ s = f.script /\ dated = {}
        /\ path = <<"DRAFT">>
        /\ at = <<1, 1, 1>>
  OBVIOUS
<1>2. Len(s) = 2 /\ DOMAIN s = 1 .. 2
  BY <1>1 DEF run_of, park_in
<1>3. /\ s[1] = new(first) /\ s[2] = refused(fail(first), JobStateMachineError)
  BY <1>1 DEF run_of, park_in
<1>4. f.of = first /\ f.of \in {first, second} /\ first # second
  BY FlowsAssumption DEF run_of
<1> HIDE DEF f
<1>5. \A n \in 1 .. 2 : Along(s[n], first, path, at[n], at[n + 1])
  BY <1>1, <1>3, <1>4, CallsByEffect DEF Takes, Rests, Along, moving
<1>6. \A n \in 1 .. 2 : IsCall(s[n], dated)
  <2>1. first \notin dated /\ second \notin dated
    BY <1>1, <1>4
  <2>2. QED
    BY <1>3, <2>1, CallsMade, JobAssumption DEF JobState, POST_APPROVAL, DecisionType
<1>7. path \in Seq(JobState) /\ at \in Seq(1 .. Len(path)) /\ Len(at) = 3
  BY <1>1 DEF JobState
<1>8. Charts(s, first, path, at) /\ Calls(s, dated)
  BY <1>1, <1>2, <1>5, <1>6, <1>7 DEF Charts, Calls
<1>9. at[Len(at)] = Len(path) /\ Ends(f.ends, path) /\ f.ends \in Seq(JobState)
  BY <1>1 DEF f, run_of, Ends, JobState
<1>10. Charted(f) /\ Calls(f.script, {})
  BY <1>1, <1>4, <1>8, <1>9 DEF Charted
<1>11. QED BY <1>10 DEF f

\* A job parked there cannot fail.
LEMMA ParkedInGovernanceAnalysisCharted ==
  LET f == run_of("parked",
     Append(park_in(first, "GOVERNANCE_ANALYSIS"), refused(fail(first), JobStateMachineError)), first,
     <<"GOVERNANCE_ANALYSIS">>)
  IN Charted(f) /\ Calls(f.script, {})
<1> DEFINE f == run_of("parked",
     Append(park_in(first, "GOVERNANCE_ANALYSIS"), refused(fail(first), JobStateMachineError)), first,
     <<"GOVERNANCE_ANALYSIS">>)
<1>1. PICK s, path, at, dated :
        /\ s = f.script /\ dated = {}
        /\ path = <<"DRAFT", "GOVERNANCE_ANALYSIS">>
        /\ at = <<1, 1, 2, 2>>
  OBVIOUS
<1>2. Len(s) = 3 /\ DOMAIN s = 1 .. 3
  BY <1>1 DEF run_of, park_in
<1>3. /\ s[1] = new(first) /\ s[2] = submit(first)
      /\ s[3] = refused(fail(first), JobStateMachineError)
  BY <1>1 DEF run_of, park_in
<1>4. f.of = first /\ f.of \in {first, second} /\ first # second
  BY FlowsAssumption DEF run_of
<1> HIDE DEF f
<1>5. \A n \in 1 .. 3 : Along(s[n], first, path, at[n], at[n + 1])
  BY <1>1, <1>3, <1>4, CallsByEffect DEF Takes, Rests, Along, moving
<1>6. \A n \in 1 .. 3 : IsCall(s[n], dated)
  <2>1. first \notin dated /\ second \notin dated
    BY <1>1, <1>4
  <2>2. QED
    BY <1>3, <2>1, CallsMade, JobAssumption DEF JobState, POST_APPROVAL, DecisionType
<1>7. path \in Seq(JobState) /\ at \in Seq(1 .. Len(path)) /\ Len(at) = 4
  BY <1>1 DEF JobState
<1>8. Charts(s, first, path, at) /\ Calls(s, dated)
  BY <1>1, <1>2, <1>5, <1>6, <1>7 DEF Charts, Calls
<1>9. at[Len(at)] = Len(path) /\ Ends(f.ends, path) /\ f.ends \in Seq(JobState)
  BY <1>1 DEF f, run_of, Ends, JobState
<1>10. Charted(f) /\ Calls(f.script, {})
  BY <1>1, <1>4, <1>8, <1>9 DEF Charted
<1>11. QED BY <1>10 DEF f

\* A job parked there cannot fail.
LEMMA ParkedInRejectedCharted ==
  LET f == run_of("parked",
     Append(park_in(first, "REJECTED"), refused(fail(first), JobStateMachineError)), first,
     <<"REJECTED">>)
  IN Charted(f) /\ Calls(f.script, {})
<1> DEFINE f == run_of("parked",
     Append(park_in(first, "REJECTED"), refused(fail(first), JobStateMachineError)), first,
     <<"REJECTED">>)
<1>1. PICK s, path, at, dated :
        /\ s = f.script /\ dated = {}
        /\ path = <<"DRAFT", "GOVERNANCE_ANALYSIS", "REJECTED">>
        /\ at = <<1, 1, 2, 3, 3>>
  OBVIOUS
<1>2. Len(s) = 4 /\ DOMAIN s = 1 .. 4
  BY <1>1 DEF run_of, park_in
<1>3. /\ s[1] = new(first) /\ s[2] = submit(first)
      /\ s[3] = decide(first, "REJECT", NONE)
      /\ s[4] = refused(fail(first), JobStateMachineError)
  BY <1>1 DEF run_of, park_in
<1>4. f.of = first /\ f.of \in {first, second} /\ first # second
  BY FlowsAssumption DEF run_of
<1> HIDE DEF f
<1>5. \A n \in 1 .. 4 : Along(s[n], first, path, at[n], at[n + 1])
  BY <1>1, <1>3, <1>4, CallsByEffect DEF Takes, Rests, Along, moving
<1>6. \A n \in 1 .. 4 : IsCall(s[n], dated)
  <2>1. first \notin dated /\ second \notin dated
    BY <1>1, <1>4
  <2>2. QED
    BY <1>3, <2>1, CallsMade, JobAssumption DEF JobState, POST_APPROVAL, DecisionType
<1>7. path \in Seq(JobState) /\ at \in Seq(1 .. Len(path)) /\ Len(at) = 5
  BY <1>1 DEF JobState
<1>8. Charts(s, first, path, at) /\ Calls(s, dated)
  BY <1>1, <1>2, <1>5, <1>6, <1>7 DEF Charts, Calls
<1>9. at[Len(at)] = Len(path) /\ Ends(f.ends, path) /\ f.ends \in Seq(JobState)
  BY <1>1 DEF f, run_of, Ends, JobState
<1>10. Charted(f) /\ Calls(f.script, {})
  BY <1>1, <1>4, <1>8, <1>9 DEF Charted
<1>11. QED BY <1>10 DEF f

\* A job parked there cannot fail.
LEMMA ParkedInApprovedCharted ==
  LET f == run_of("parked",
     Append(park_in(first, "APPROVED"), refused(fail(first), JobStateMachineError)), first,
     <<"APPROVED">>)
  IN Charted(f) /\ Calls(f.script, {})
<1> DEFINE f == run_of("parked",
     Append(park_in(first, "APPROVED"), refused(fail(first), JobStateMachineError)), first,
     <<"APPROVED">>)
<1>1. PICK s, path, at, dated :
        /\ s = f.script /\ dated = {}
        /\ path = <<"DRAFT", "GOVERNANCE_ANALYSIS", "APPROVED">>
        /\ at = <<1, 1, 2, 3, 3>>
  OBVIOUS
<1>2. Len(s) = 4 /\ DOMAIN s = 1 .. 4
  BY <1>1 DEF run_of, park_in
<1>3. /\ s[1] = new(first) /\ s[2] = submit(first) /\ s[3] = approve(first)
      /\ s[4] = refused(fail(first), JobStateMachineError)
  BY <1>1 DEF run_of, park_in
<1>4. f.of = first /\ f.of \in {first, second} /\ first # second
  BY FlowsAssumption DEF run_of
<1> HIDE DEF f
<1>5. \A n \in 1 .. 4 : Along(s[n], first, path, at[n], at[n + 1])
  BY <1>1, <1>3, <1>4, CallsByEffect DEF Takes, Rests, Along, moving
<1>6. \A n \in 1 .. 4 : IsCall(s[n], dated)
  <2>1. first \notin dated /\ second \notin dated
    BY <1>1, <1>4
  <2>2. QED
    BY <1>3, <2>1, CallsMade, JobAssumption DEF JobState, POST_APPROVAL, DecisionType
<1>7. path \in Seq(JobState) /\ at \in Seq(1 .. Len(path)) /\ Len(at) = 5
  BY <1>1 DEF JobState
<1>8. Charts(s, first, path, at) /\ Calls(s, dated)
  BY <1>1, <1>2, <1>5, <1>6, <1>7 DEF Charts, Calls
<1>9. at[Len(at)] = Len(path) /\ Ends(f.ends, path) /\ f.ends \in Seq(JobState)
  BY <1>1 DEF f, run_of, Ends, JobState
<1>10. Charted(f) /\ Calls(f.script, {})
  BY <1>1, <1>4, <1>8, <1>9 DEF Charted
<1>11. QED BY <1>10 DEF f

\* Paused there, and resumed.
LEMMA PausedInInProgressCharted ==
  LET f == run_of("paused", happy_path(first, "IN_PROGRESS"), first, <<"IN_PROGRESS", "AWAITING_APPROVAL", "IN_PROGRESS">>
     \o SubSeq(ISSUE_7_FLOW, 1 + CHOOSE i \in DOMAIN ISSUE_7_FLOW : ISSUE_7_FLOW[i] = "IN_PROGRESS",
               Len(ISSUE_7_FLOW)))
  IN Charted(f) /\ Calls(f.script, {})
<1> DEFINE f == run_of("paused", happy_path(first, "IN_PROGRESS"), first, <<"IN_PROGRESS", "AWAITING_APPROVAL", "IN_PROGRESS">>
     \o SubSeq(ISSUE_7_FLOW, 1 + CHOOSE i \in DOMAIN ISSUE_7_FLOW : ISSUE_7_FLOW[i] = "IN_PROGRESS",
               Len(ISSUE_7_FLOW)))
<1>1. PICK s, path, at, dated :
        /\ s = f.script /\ dated = {}
        /\ path = <<"DRAFT", "GOVERNANCE_ANALYSIS", "APPROVED", "TASK_PLANNING",
                    "IN_PROGRESS", "AWAITING_APPROVAL", "IN_PROGRESS", "VALIDATING",
                    "DEPLOYABLE", "COMPLETED">>
        /\ at = <<1, 1, 2, 3, 4, 5, 6, 7, 8, 9, 10>>
  OBVIOUS
<1>2. s = <<new(first)>> \o <<submit(first), approve(first), go(first, "TASK_PLANNING"),
             go(first, "IN_PROGRESS"), pause(first), resume(first),
             go(first, "VALIDATING"), go(first, "DEPLOYABLE"), go(first, "COMPLETED")>>
  BY <1>1, HappyPaths DEF run_of
<1>3. Len(s) = 10 /\ DOMAIN s = 1 .. 10
  BY <1>2
<1>4. /\ s[1] = new(first) /\ s[2] = submit(first) /\ s[3] = approve(first)
      /\ s[4] = go(first, "TASK_PLANNING") /\ s[5] = go(first, "IN_PROGRESS")
      /\ s[6] = pause(first) /\ s[7] = resume(first) /\ s[8] = go(first, "VALIDATING")
      /\ s[9] = go(first, "DEPLOYABLE") /\ s[10] = go(first, "COMPLETED")
  BY <1>2
<1>5. f.of = first /\ f.of \in {first, second} /\ first # second
  BY FlowsAssumption DEF run_of
<1> HIDE DEF f
<1>6. \A n \in 1 .. 10 : Along(s[n], first, path, at[n], at[n + 1])
  BY <1>1, <1>4, <1>5, CallsByEffect DEF Takes, Rests, Along, moving
<1>7. \A n \in 1 .. 10 : IsCall(s[n], dated)
  <2>1. first \notin dated /\ second \notin dated
    BY <1>1, <1>5
  <2>2. QED
    BY <1>4, <2>1, CallsMade, JobAssumption DEF JobState, POST_APPROVAL, DecisionType
<1>8. path \in Seq(JobState) /\ at \in Seq(1 .. Len(path)) /\ Len(at) = 11
  BY <1>1 DEF JobState
<1>9. Charts(s, first, path, at) /\ Calls(s, dated)
  BY <1>1, <1>3, <1>6, <1>7, <1>8 DEF Charts, Calls
<1>10. at[Len(at)] = Len(path) /\ Ends(f.ends, path) /\ f.ends \in Seq(JobState)
  <2>1. (CHOOSE i \in DOMAIN ISSUE_7_FLOW : ISSUE_7_FLOW[i] = "IN_PROGRESS") = 5
    <3>1. \A i \in DOMAIN ISSUE_7_FLOW : ISSUE_7_FLOW[i] = "IN_PROGRESS" <=> i = 5
      BY DEF ISSUE_7_FLOW
    <3>2. 5 \in DOMAIN ISSUE_7_FLOW
      BY DEF ISSUE_7_FLOW
    <3>3. QED BY <3>1, <3>2
  <2>2. SubSeq(ISSUE_7_FLOW, 1 + 5, Len(ISSUE_7_FLOW)) = <<"VALIDATING", "DEPLOYABLE", "COMPLETED">>
    <3>1. PICK u, t : u = ISSUE_7_FLOW /\ t = SubSeq(u, 1 + 5, Len(u))
      OBVIOUS
    <3>2. u \in Seq(JobState) /\ Len(u) = 8
      BY <3>1 DEF ISSUE_7_FLOW, JobState
    <3>3. t \in Seq(JobState) /\ Len(t) = 3 /\ t[1] = u[6] /\ t[2] = u[7] /\ t[3] = u[8]
      <4>1. 1 + 5 = 6 /\ Len(u) = 8
        BY <3>2
      <4>2. t = SubSeq(u, 6, 8)
        BY <3>1, <4>1, Zenon
      <4>3. \A i \in 6 .. 8 : u[i] \in JobState
        BY <3>1 DEF ISSUE_7_FLOW, JobState
      <4>4. /\ t \in Seq(JobState) /\ Len(t) = 3
            /\ \A i \in 1 .. 8 - 6 + 1 : t[i] = u[6 + i - 1]
        BY <4>2, <4>3, SubSeqProperties
      <4>5. QED BY <4>4
    <3>4. t[1] = "VALIDATING" /\ t[2] = "DEPLOYABLE" /\ t[3] = "COMPLETED"
      BY <3>1, <3>3 DEF ISSUE_7_FLOW
    <3>5. t = <<"VALIDATING", "DEPLOYABLE", "COMPLETED">>
      BY <3>3, <3>4
    <3>6. QED BY <3>1, <3>5
  <2>3. f.ends = <<"IN_PROGRESS", "AWAITING_APPROVAL", "IN_PROGRESS">> \o <<"VALIDATING", "DEPLOYABLE", "COMPLETED">>
    BY <2>1, <2>2 DEF f, run_of
  <2>4. QED BY <1>1, <2>3 DEF Ends, JobState
<1>11. Charted(f) /\ Calls(f.script, {})
  BY <1>1, <1>5, <1>9, <1>10 DEF Charted
<1>12. QED BY <1>11 DEF f

\* Paused there, and resumed.
LEMMA PausedInValidatingCharted ==
  LET f == run_of("paused", happy_path(first, "VALIDATING"), first, <<"VALIDATING", "AWAITING_APPROVAL", "VALIDATING">>
     \o SubSeq(ISSUE_7_FLOW, 1 + CHOOSE i \in DOMAIN ISSUE_7_FLOW : ISSUE_7_FLOW[i] = "VALIDATING",
               Len(ISSUE_7_FLOW)))
  IN Charted(f) /\ Calls(f.script, {})
<1> DEFINE f == run_of("paused", happy_path(first, "VALIDATING"), first, <<"VALIDATING", "AWAITING_APPROVAL", "VALIDATING">>
     \o SubSeq(ISSUE_7_FLOW, 1 + CHOOSE i \in DOMAIN ISSUE_7_FLOW : ISSUE_7_FLOW[i] = "VALIDATING",
               Len(ISSUE_7_FLOW)))
<1>1. PICK s, path, at, dated :
        /\ s = f.script /\ dated = {}
        /\ path = <<"DRAFT", "GOVERNANCE_ANALYSIS", "APPROVED", "TASK_PLANNING",
                    "IN_PROGRESS", "VALIDATING", "AWAITING_APPROVAL", "VALIDATING",
                    "DEPLOYABLE", "COMPLETED">>
        /\ at = <<1, 1, 2, 3, 4, 5, 6, 7, 8, 9, 10>>
  OBVIOUS
<1>2. s = <<new(first)>> \o <<submit(first), approve(first), go(first, "TASK_PLANNING"),
             go(first, "IN_PROGRESS"), go(first, "VALIDATING"), pause(first),
             resume(first), go(first, "DEPLOYABLE"), go(first, "COMPLETED")>>
  BY <1>1, HappyPaths DEF run_of
<1>3. Len(s) = 10 /\ DOMAIN s = 1 .. 10
  BY <1>2
<1>4. /\ s[1] = new(first) /\ s[2] = submit(first) /\ s[3] = approve(first)
      /\ s[4] = go(first, "TASK_PLANNING") /\ s[5] = go(first, "IN_PROGRESS")
      /\ s[6] = go(first, "VALIDATING") /\ s[7] = pause(first) /\ s[8] = resume(first)
      /\ s[9] = go(first, "DEPLOYABLE") /\ s[10] = go(first, "COMPLETED")
  BY <1>2
<1>5. f.of = first /\ f.of \in {first, second} /\ first # second
  BY FlowsAssumption DEF run_of
<1> HIDE DEF f
<1>6. \A n \in 1 .. 10 : Along(s[n], first, path, at[n], at[n + 1])
  BY <1>1, <1>4, <1>5, CallsByEffect DEF Takes, Rests, Along, moving
<1>7. \A n \in 1 .. 10 : IsCall(s[n], dated)
  <2>1. first \notin dated /\ second \notin dated
    BY <1>1, <1>5
  <2>2. QED
    BY <1>4, <2>1, CallsMade, JobAssumption DEF JobState, POST_APPROVAL, DecisionType
<1>8. path \in Seq(JobState) /\ at \in Seq(1 .. Len(path)) /\ Len(at) = 11
  BY <1>1 DEF JobState
<1>9. Charts(s, first, path, at) /\ Calls(s, dated)
  BY <1>1, <1>3, <1>6, <1>7, <1>8 DEF Charts, Calls
<1>10. at[Len(at)] = Len(path) /\ Ends(f.ends, path) /\ f.ends \in Seq(JobState)
  <2>1. (CHOOSE i \in DOMAIN ISSUE_7_FLOW : ISSUE_7_FLOW[i] = "VALIDATING") = 6
    <3>1. \A i \in DOMAIN ISSUE_7_FLOW : ISSUE_7_FLOW[i] = "VALIDATING" <=> i = 6
      BY DEF ISSUE_7_FLOW
    <3>2. 6 \in DOMAIN ISSUE_7_FLOW
      BY DEF ISSUE_7_FLOW
    <3>3. QED BY <3>1, <3>2
  <2>2. SubSeq(ISSUE_7_FLOW, 1 + 6, Len(ISSUE_7_FLOW)) = <<"DEPLOYABLE", "COMPLETED">>
    <3>1. PICK u, t : u = ISSUE_7_FLOW /\ t = SubSeq(u, 1 + 6, Len(u))
      OBVIOUS
    <3>2. u \in Seq(JobState) /\ Len(u) = 8
      BY <3>1 DEF ISSUE_7_FLOW, JobState
    <3>3. t \in Seq(JobState) /\ Len(t) = 2 /\ t[1] = u[7] /\ t[2] = u[8]
      <4>1. 1 + 6 = 7 /\ Len(u) = 8
        BY <3>2
      <4>2. t = SubSeq(u, 7, 8)
        BY <3>1, <4>1, Zenon
      <4>3. \A i \in 7 .. 8 : u[i] \in JobState
        BY <3>1 DEF ISSUE_7_FLOW, JobState
      <4>4. /\ t \in Seq(JobState) /\ Len(t) = 2
            /\ \A i \in 1 .. 8 - 7 + 1 : t[i] = u[7 + i - 1]
        BY <4>2, <4>3, SubSeqProperties
      <4>5. QED BY <4>4
    <3>4. t[1] = "DEPLOYABLE" /\ t[2] = "COMPLETED"
      BY <3>1, <3>3 DEF ISSUE_7_FLOW
    <3>5. t = <<"DEPLOYABLE", "COMPLETED">>
      BY <3>3, <3>4
    <3>6. QED BY <3>1, <3>5
  <2>3. f.ends = <<"VALIDATING", "AWAITING_APPROVAL", "VALIDATING">> \o <<"DEPLOYABLE", "COMPLETED">>
    BY <2>1, <2>2 DEF f, run_of
  <2>4. QED BY <1>1, <2>3 DEF Ends, JobState
<1>11. Charted(f) /\ Calls(f.script, {})
  BY <1>1, <1>5, <1>9, <1>10 DEF Charted
<1>12. QED BY <1>11 DEF f

\* Paused there, and resumed.
LEMMA PausedInDeployableCharted ==
  LET f == run_of("paused", happy_path(first, "DEPLOYABLE"), first, <<"DEPLOYABLE", "AWAITING_APPROVAL", "DEPLOYABLE">>
     \o SubSeq(ISSUE_7_FLOW, 1 + CHOOSE i \in DOMAIN ISSUE_7_FLOW : ISSUE_7_FLOW[i] = "DEPLOYABLE",
               Len(ISSUE_7_FLOW)))
  IN Charted(f) /\ Calls(f.script, {})
<1> DEFINE f == run_of("paused", happy_path(first, "DEPLOYABLE"), first, <<"DEPLOYABLE", "AWAITING_APPROVAL", "DEPLOYABLE">>
     \o SubSeq(ISSUE_7_FLOW, 1 + CHOOSE i \in DOMAIN ISSUE_7_FLOW : ISSUE_7_FLOW[i] = "DEPLOYABLE",
               Len(ISSUE_7_FLOW)))
<1>1. PICK s, path, at, dated :
        /\ s = f.script /\ dated = {}
        /\ path = <<"DRAFT", "GOVERNANCE_ANALYSIS", "APPROVED", "TASK_PLANNING",
                    "IN_PROGRESS", "VALIDATING", "DEPLOYABLE", "AWAITING_APPROVAL",
                    "DEPLOYABLE", "COMPLETED">>
        /\ at = <<1, 1, 2, 3, 4, 5, 6, 7, 8, 9, 10>>
  OBVIOUS
<1>2. s = <<new(first)>> \o <<submit(first), approve(first), go(first, "TASK_PLANNING"),
             go(first, "IN_PROGRESS"), go(first, "VALIDATING"),
             go(first, "DEPLOYABLE"), pause(first), resume(first),
             go(first, "COMPLETED")>>
  BY <1>1, HappyPaths DEF run_of
<1>3. Len(s) = 10 /\ DOMAIN s = 1 .. 10
  BY <1>2
<1>4. /\ s[1] = new(first) /\ s[2] = submit(first) /\ s[3] = approve(first)
      /\ s[4] = go(first, "TASK_PLANNING") /\ s[5] = go(first, "IN_PROGRESS")
      /\ s[6] = go(first, "VALIDATING") /\ s[7] = go(first, "DEPLOYABLE")
      /\ s[8] = pause(first) /\ s[9] = resume(first) /\ s[10] = go(first, "COMPLETED")
  BY <1>2
<1>5. f.of = first /\ f.of \in {first, second} /\ first # second
  BY FlowsAssumption DEF run_of
<1> HIDE DEF f
<1>6. \A n \in 1 .. 10 : Along(s[n], first, path, at[n], at[n + 1])
  BY <1>1, <1>4, <1>5, CallsByEffect DEF Takes, Rests, Along, moving
<1>7. \A n \in 1 .. 10 : IsCall(s[n], dated)
  <2>1. first \notin dated /\ second \notin dated
    BY <1>1, <1>5
  <2>2. QED
    BY <1>4, <2>1, CallsMade, JobAssumption DEF JobState, POST_APPROVAL, DecisionType
<1>8. path \in Seq(JobState) /\ at \in Seq(1 .. Len(path)) /\ Len(at) = 11
  BY <1>1 DEF JobState
<1>9. Charts(s, first, path, at) /\ Calls(s, dated)
  BY <1>1, <1>3, <1>6, <1>7, <1>8 DEF Charts, Calls
<1>10. at[Len(at)] = Len(path) /\ Ends(f.ends, path) /\ f.ends \in Seq(JobState)
  <2>1. (CHOOSE i \in DOMAIN ISSUE_7_FLOW : ISSUE_7_FLOW[i] = "DEPLOYABLE") = 7
    <3>1. \A i \in DOMAIN ISSUE_7_FLOW : ISSUE_7_FLOW[i] = "DEPLOYABLE" <=> i = 7
      BY DEF ISSUE_7_FLOW
    <3>2. 7 \in DOMAIN ISSUE_7_FLOW
      BY DEF ISSUE_7_FLOW
    <3>3. QED BY <3>1, <3>2
  <2>2. SubSeq(ISSUE_7_FLOW, 1 + 7, Len(ISSUE_7_FLOW)) = <<"COMPLETED">>
    <3>1. PICK u, t : u = ISSUE_7_FLOW /\ t = SubSeq(u, 1 + 7, Len(u))
      OBVIOUS
    <3>2. u \in Seq(JobState) /\ Len(u) = 8
      BY <3>1 DEF ISSUE_7_FLOW, JobState
    <3>3. t \in Seq(JobState) /\ Len(t) = 1 /\ t[1] = u[8]
      <4>1. 1 + 7 = 8 /\ Len(u) = 8
        BY <3>2
      <4>2. t = SubSeq(u, 8, 8)
        BY <3>1, <4>1, Zenon
      <4>3. \A i \in 8 .. 8 : u[i] \in JobState
        BY <3>1 DEF ISSUE_7_FLOW, JobState
      <4>4. /\ t \in Seq(JobState) /\ Len(t) = 1
            /\ \A i \in 1 .. 8 - 8 + 1 : t[i] = u[8 + i - 1]
        BY <4>2, <4>3, SubSeqProperties
      <4>5. QED BY <4>4
    <3>4. t[1] = "COMPLETED"
      BY <3>1, <3>3 DEF ISSUE_7_FLOW
    <3>5. t = <<"COMPLETED">>
      BY <3>3, <3>4
    <3>6. QED BY <3>1, <3>5
  <2>3. f.ends = <<"DEPLOYABLE", "AWAITING_APPROVAL", "DEPLOYABLE">> \o <<"COMPLETED">>
    BY <2>1, <2>2 DEF f, run_of
  <2>4. QED BY <1>1, <2>3 DEF Ends, JobState
<1>11. Charted(f) /\ Calls(f.script, {})
  BY <1>1, <1>5, <1>9, <1>10 DEF Charted
<1>12. QED BY <1>11 DEF f

\* The other of the two jobs told apart.
LEMMA ToldApartBesideCharted ==
  LET s == <<new(first)>> \o (require_changes_then_resubmitted(first)
             \o <<new(second)>> \o rejected_then_resubmitted(second))
  IN \E path, at :
       /\ Charts(s, second, path, at) /\ at[Len(at)] = Len(path)
       /\ path = <<"DRAFT", "GOVERNANCE_ANALYSIS", "REJECTED", "DRAFT",
                   "GOVERNANCE_ANALYSIS", "APPROVED", "TASK_PLANNING">>
<1>1. PICK s, path, at :
        /\ s = <<new(first)>> \o (require_changes_then_resubmitted(first)
                 \o <<new(second)>> \o rejected_then_resubmitted(second))
        /\ path = <<"DRAFT", "GOVERNANCE_ANALYSIS", "REJECTED", "DRAFT",
                    "GOVERNANCE_ANALYSIS", "APPROVED", "TASK_PLANNING">>
        /\ at = <<1, 1, 1, 1, 1, 1, 1, 1, 2, 3, 4, 5, 6, 7>>
  OBVIOUS
<1>2. Len(s) = 13 /\ DOMAIN s = 1 .. 13
  BY <1>1 DEF rejected_then_resubmitted, require_changes_then_resubmitted
<1>3. /\ s[1] = new(first) /\ s[2] = submit(first)
      /\ s[3] = decide(first, "REQUIRE_CHANGES", NONE) /\ s[4] = submit(first)
      /\ s[5] = approve(first) /\ s[6] = go(first, "TASK_PLANNING")
      /\ s[7] = new(second) /\ s[8] = submit(second)
      /\ s[9] = decide(second, "REJECT", NONE) /\ s[10] = go(second, "DRAFT")
      /\ s[11] = submit(second) /\ s[12] = approve(second)
      /\ s[13] = go(second, "TASK_PLANNING")
  BY <1>1 DEF rejected_then_resubmitted, require_changes_then_resubmitted
<1>4. first # second
  BY FlowsAssumption
<1>5. \A n \in 1 .. 13 : Along(s[n], second, path, at[n], at[n + 1])
  <2>1. \A n \in 1 .. 7 : Rests(s[n]) \/ s[n].on # second
    <3>1. /\ submit(first).on = first /\ go(first, "TASK_PLANNING").on = first
          /\ decide(first, "REQUIRE_CHANGES", NONE).on = first /\ approve(first).on = first
      BY CallsByEffect DEF Takes
    <3>2. Rests(new(first)) /\ Rests(new(second))
      BY CallsByEffect
    <3>3. QED BY <1>3, <1>4, <3>1, <3>2
  <2>2. \A n \in 8 .. 13 : Takes(s[n], second, path[at[n + 1]])
    <3>1. \A n \in 8 .. 13 : at[n + 1] = n - 6
      BY <1>1
    <3>2. /\ path[2] = "GOVERNANCE_ANALYSIS" /\ path[3] = "REJECTED" /\ path[4] = "DRAFT"
          /\ path[5] = "GOVERNANCE_ANALYSIS" /\ path[6] = "APPROVED"
          /\ path[7] = "TASK_PLANNING"
      BY <1>1
    <3>3. /\ Takes(s[8], second, path[2]) /\ Takes(s[9], second, path[3])
          /\ Takes(s[10], second, path[4]) /\ Takes(s[11], second, path[5])
          /\ Takes(s[12], second, path[6]) /\ Takes(s[13], second, path[7])
      BY <1>3, <3>2, CallsByEffect
    <3>4. ASSUME NEW n \in 8 .. 13 PROVE Takes(s[n], second, path[n - 6])
      <4>1. n = 8 \/ n = 9 \/ n = 10 \/ n = 11 \/ n = 12 \/ n = 13
        OBVIOUS
      <4>2. QED BY <3>3, <4>1
    <3>5. QED BY <3>1, <3>4
  <2>3. /\ \A n \in 1 .. 7 : at[n] = 1 /\ at[n + 1] = 1
        /\ \A n \in 8 .. 13 : at[n + 1] = at[n] + 1
    BY <1>1
  <2>4. ASSUME NEW n \in 1 .. 7 PROVE Along(s[n], second, path, at[n], at[n + 1])
    BY <2>1, <2>3, TakesAlong
  <2>5. ASSUME NEW n \in 8 .. 13 PROVE Along(s[n], second, path, at[n], at[n + 1])
    BY <2>2, <2>3, TakesAlong
  <2>6. QED BY <2>4, <2>5
<1>6. path \in Seq(JobState) /\ at \in Seq(1 .. Len(path)) /\ Len(at) = 14
  BY <1>1 DEF JobState
<1>7. Len(at) = Len(s) + 1 /\ at[1] = 1 /\ path[1] = "DRAFT" /\ at[Len(at)] = Len(path)
  BY <1>1, <1>2, <1>6
<1>8. Charts(s, second, path, at)
  BY <1>2, <1>5, <1>6, <1>7 DEF Charts
<1>9. QED BY <1>1, <1>7, <1>8

\* A job whose state was set behind the engine's back, and that went nowhere.
LEMMA ForcedCharted ==
  LET f == run_of("forced", <<submit(first), force(first, "APPROVED"),
       refused(go(first, "TASK_PLANNING"), {"ExecutionBeforeApproval"})>>, first,
     <<"GOVERNANCE_ANALYSIS">>)
  IN Charted(f) /\ f.script = <<new(first), submit(first), force(first, "APPROVED"),
       refused(go(first, "TASK_PLANNING"), {"ExecutionBeforeApproval"})>>
<1> DEFINE f == run_of("forced", <<submit(first), force(first, "APPROVED"),
       refused(go(first, "TASK_PLANNING"), {"ExecutionBeforeApproval"})>>, first,
     <<"GOVERNANCE_ANALYSIS">>)
<1>1. PICK s, path, at :
        /\ s = f.script
        /\ path = <<"DRAFT", "GOVERNANCE_ANALYSIS">>
        /\ at = <<1, 1, 2, 2, 2>>
  OBVIOUS
<1>2. Len(s) = 4 /\ DOMAIN s = 1 .. 4
  BY <1>1 DEF run_of
<1>3. /\ s[1] = new(first) /\ s[2] = submit(first) /\ s[3] = force(first, "APPROVED")
      /\ s[4] = refused(go(first, "TASK_PLANNING"), {"ExecutionBeforeApproval"})
  BY <1>1 DEF run_of
<1>4. f.of = first /\ f.of \in {first, second}
  BY DEF run_of
<1>5. s = <<new(first), submit(first), force(first, "APPROVED"),
            refused(go(first, "TASK_PLANNING"), {"ExecutionBeforeApproval"})>>
  <2>1. PICK S : S = {s[1], s[2], s[3], s[4]}
    OBVIOUS
  <2>2. s \in Seq(S)
    BY <1>1, <1>3, <2>1 DEF run_of
  <2>3. QED BY <1>2, <1>3, <2>2
<1> HIDE DEF f
<1>6. \A n \in 1 .. 4 : Along(s[n], first, path, at[n], at[n + 1])
  BY <1>1, <1>3, CallsByEffect DEF Takes, Rests, Along, moving
<1>7. path \in Seq(JobState) /\ at \in Seq(1 .. Len(path)) /\ Len(at) = 5
  BY <1>1 DEF JobState
<1>8. Charts(s, first, path, at)
  BY <1>1, <1>2, <1>6, <1>7 DEF Charts
<1>9. at[Len(at)] = Len(path) /\ Ends(f.ends, path) /\ f.ends \in Seq(JobState)
  BY <1>1 DEF f, run_of, Ends, JobState
<1>10. Charted(f) /\ f.script = <<new(first), submit(first), force(first, "APPROVED"),
         refused(go(first, "TASK_PLANNING"), {"ExecutionBeforeApproval"})>>
  BY <1>1, <1>4, <1>5, <1>8, <1>9 DEF Charted
<1>11. QED BY <1>10 DEF f

\* A finite set in some order is a sequence of its members.
LEMMA SeqOfSet ==
  ASSUME NEW S, IsFiniteSet(S)
  PROVE  SetToSeq(S) \in Seq(S) /\ Len(SetToSeq(S)) \in Nat
<1>1. Cardinality(S) \in Nat /\ ExistsBijection(1 .. Cardinality(S), S)
  BY FS_CardinalityType
<1>2. \E f \in [1 .. Cardinality(S) -> S] : IsInjective(f)
  BY <1>1 DEF ExistsBijection, Bijection, Injection, IsInjective
<1>3. SetToSeq(S) \in [1 .. Cardinality(S) -> S]
  BY <1>2 DEF SetToSeq
<1>4. QED BY <1>1, <1>3

\* Submitted, never judged, and refused every way into execution.
LEMMA GatedCharted ==
  LET f == run_of("gated", never_approved(first)
       \o SetToSeq({refused(go(first, s), JobStateMachineError) : s \in POST_APPROVAL}), first,
     <<"GOVERNANCE_ANALYSIS">>)
  IN Charted(f) /\ Calls(f.script, {})
<1> DEFINE R == {refused(go(first, s), JobStateMachineError) : s \in POST_APPROVAL}
           f == run_of("gated", never_approved(first) \o SetToSeq(R), first,
                       <<"GOVERNANCE_ANALYSIS">>)
           S == R \union {new(first), submit(first)}
<1>1. IsFiniteSet(R)
  <2> DEFINE way == <<"TASK_PLANNING", "IN_PROGRESS", "AWAITING_APPROVAL", "VALIDATING",
                      "DEPLOYABLE">>
             g == [n \in 1 .. 5 |-> refused(go(first, way[n]), JobStateMachineError)]
  <2>1. \A n \in 1 .. 5 : way[n] \in POST_APPROVAL
    BY DEF POST_APPROVAL
  <2>2. \A s \in POST_APPROVAL : \E n \in 1 .. 5 : way[n] = s
    <3>1. /\ way[1] = "TASK_PLANNING" /\ way[2] = "IN_PROGRESS"
          /\ way[3] = "AWAITING_APPROVAL" /\ way[4] = "VALIDATING"
          /\ way[5] = "DEPLOYABLE"
      OBVIOUS
    <3> HIDE DEF way
    <3>2. QED BY <3>1 DEF POST_APPROVAL
  <2> HIDE DEF way
  <2>3. g \in Surjection(1 .. 5, R)
    BY <2>1, <2>2 DEF Surjection
  <2>4. IsFiniteSet(1 .. 5)
    <3>1. 1 \in Int /\ 5 \in Int
      OBVIOUS
    <3>2. QED BY <3>1, FS_Interval
  <2> HIDE DEF g, R
  <2>5. QED BY <2>3, <2>4, FS_Surjection
<1>2. PICK t : t = SetToSeq(R) /\ t \in Seq(R) /\ Len(t) \in Nat
  BY <1>1, SeqOfSet
<1>3. PICK s : s = f.script
  OBVIOUS
<1>4. s = <<new(first)>> \o (<<submit(first)>> \o t)
  BY <1>2, <1>3 DEF run_of, never_approved
<1>5. t \in Seq(S) /\ <<new(first)>> \in Seq(S) /\ <<submit(first)>> \in Seq(S)
  BY <1>2
<1>6. /\ Len(s) = Len(t) + 2 /\ DOMAIN s = 1 .. Len(t) + 2
      /\ s[1] = new(first) /\ s[2] = submit(first)
      /\ \A n \in 1 .. Len(t) : s[n + 2] = t[n] /\ t[n] \in R
  <2> HIDE DEF R, S
  <2>1. PICK u : u = <<submit(first)>> \o t
    OBVIOUS
  <2>2. /\ u \in Seq(S) /\ Len(u) = Len(t) + 1 /\ u[1] = submit(first)
        /\ \A n \in 1 .. Len(t) : u[n + 1] = t[n]
    BY <1>2, <1>5, <2>1
  <2>3. /\ s \in Seq(S) /\ Len(s) = Len(u) + 1 /\ s[1] = new(first)
        /\ \A n \in 1 .. Len(u) : s[n + 1] = u[n]
    BY <1>4, <1>5, <2>1, <2>2
  <2>4. Len(s) = Len(t) + 2 /\ DOMAIN s = 1 .. Len(t) + 2
    BY <1>2, <2>2, <2>3
  <2>5. s[2] = submit(first)
    BY <1>2, <2>2, <2>3
  <2>6. ASSUME NEW n \in 1 .. Len(t) PROVE s[n + 2] = t[n] /\ t[n] \in R
    <3>1. n + 1 \in 1 .. Len(u) /\ (n + 1) + 1 = n + 2
      BY <1>2, <2>2
    <3>2. s[(n + 1) + 1] = u[n + 1]
      BY <2>3, <3>1
    <3>3. QED BY <1>2, <2>2, <3>1, <3>2
  <2>7. QED BY <2>3, <2>4, <2>5, <2>6
<1>7. \A c \in R : Rests(c) /\ IsCall(c, {})
  BY CallsByEffect, CallsMade
<1> DEFINE path == <<"DRAFT", "GOVERNANCE_ANALYSIS">>
           at == [n \in 1 .. Len(t) + 3 |-> IF n <= 2 THEN 1 ELSE 2]
<1>8. f.of = first /\ f.of \in {first, second}
  BY DEF run_of
<1> HIDE DEF f, R, S
<1>9. \A n \in 1 .. Len(t) + 2 :
        Along(s[n], first, path, at[n], at[n + 1]) /\ IsCall(s[n], {})
  <2>1. /\ Rests(new(first)) /\ IsCall(new(first), {}) /\ IsCall(submit(first), {})
        /\ Takes(submit(first), first, "GOVERNANCE_ANALYSIS")
    BY CallsByEffect, CallsMade
  <2>2. ASSUME NEW n \in 1 .. Len(t) + 2, n > 2
        PROVE  Rests(s[n]) /\ IsCall(s[n], {})
    <3>1. n - 2 \in 1 .. Len(t) /\ (n - 2) + 2 = n
      BY <1>2, <2>2
    <3>2. s[n] = t[n - 2] /\ t[n - 2] \in R
      BY <1>6, <3>1
    <3>3. QED BY <1>7, <3>2
  <2>3. QED BY <1>2, <1>6, <2>1, <2>2 DEF Along, Rests, Takes, moving
<1>10. path \in Seq(JobState) /\ at \in Seq(1 .. Len(path)) /\ Len(at) = Len(t) + 3
  BY <1>2 DEF JobState
<1>11. Charts(s, first, path, at) /\ Calls(s, {})
  <2>1. Len(at) = Len(s) + 1 /\ at[1] = 1 /\ path[1] = "DRAFT"
    BY <1>2, <1>6, <1>10
  <2> HIDE DEF path, at
  <2>2. QED BY <1>2, <1>6, <1>9, <1>10, <2>1 DEF Charts, Calls
<1>12. at[Len(at)] = Len(path) /\ Ends(f.ends, path) /\ f.ends \in Seq(JobState)
  <2>1. f.ends = <<"GOVERNANCE_ANALYSIS">>
    BY DEF f, run_of
  <2>2. Ends(f.ends, path) /\ f.ends \in Seq(JobState)
    BY <2>1 DEF Ends, JobState
  <2>3. at[Len(t) + 3] = 2 /\ Len(path) = 2
    BY <1>2
  <2>4. QED BY <1>10, <2>2, <2>3
<1>13. Charted(f) /\ Calls(f.script, {})
  <2> HIDE DEF path, at
  <2>1. QED BY <1>3, <1>8, <1>11, <1>12 DEF Charted
<1>14. QED BY <1>13 DEF f, R

-----------------------------------------------------------------------------
(* All the flows at once.                                                  *)

told_apart_flow ==
  run_of("told_apart", require_changes_then_resubmitted(first)
       \o <<new(second)>> \o rejected_then_resubmitted(second), first,
     <<"DRAFT", "GOVERNANCE_ANALYSIS", "DRAFT", "GOVERNANCE_ANALYSIS", "APPROVED",
       "TASK_PLANNING">>)

asked_again_flow ==
  run_of("asked_again", Append(approval_expired_then_resubmitted(Past),
       refused(go(first, "TASK_PLANNING"), {"TerminalState"})), second,
     <<"DRAFT", "GOVERNANCE_ANALYSIS", "APPROVED", "TASK_PLANNING">>)

forced_flow ==
  run_of("forced", <<submit(first), force(first, "APPROVED"),
       refused(go(first, "TASK_PLANNING"), {"ExecutionBeforeApproval"})>>, first,
     <<"GOVERNANCE_ANALYSIS">>)

\* The flow is charted and its calls are those a flow makes; the one that sets a
\* state behind the engine's back and the two RouteWalked or ReadBack say more of
\* are no others than these.
Known_flow(f) ==
  /\ Charted(f)
  /\ f.name # "forced" => \E dated \in SUBSET {first} : Calls(f.script, dated)
  /\ f.name = "forced" => f = forced_flow
  /\ f.name = "told_apart" => f = told_apart_flow
  /\ f.name = "asked_again" => f = asked_again_flow

\* What a run is made of.
LEMMA RunOf ==
  \A name, script, of, ends :
    LET f == run_of(name, script, of, ends)
    IN /\ f.name = name /\ f.of = of /\ f.ends = ends
       /\ f.script = <<new(first)>> \o script
  BY DEF run_of

\* The flows, one by one.
LEMMA FlowsAreKnown == \A f \in Flow : Known_flow(f)
<1>1. \A dated \in {{}, {first}} : dated \in SUBSET {first}
  OBVIOUS
<1>2. ASSUME NEW f \in check_full_flow PROVE Known_flow(f)
  <2> DEFINE full == run_of("full", happy_path(first, NONE), first, ISSUE_7_FLOW)
             paused(s) == run_of("paused", happy_path(first, s), first, <<s, "AWAITING_APPROVAL", s>>
               \o SubSeq(ISSUE_7_FLOW,
                         1 + CHOOSE i \in DOMAIN ISSUE_7_FLOW : ISSUE_7_FLOW[i] = s,
                         Len(ISSUE_7_FLOW)))
  <2>1. f \in {full} \union {paused(s) : s \in APPROVAL_PAUSABLE}
    BY Zenon DEF check_full_flow
  <2>2. /\ full.name = "full" /\ Charted(full) /\ Calls(full.script, {})
        /\ \A s : paused(s).name = "paused"
    BY RunOf, FullCharted
  <2>3. Charted(paused("IN_PROGRESS")) /\ Calls(paused("IN_PROGRESS").script, {})
    BY Zenon, PausedInInProgressCharted
  <2>4. Charted(paused("VALIDATING")) /\ Calls(paused("VALIDATING").script, {})
    BY Zenon, PausedInValidatingCharted
  <2>5. Charted(paused("DEPLOYABLE")) /\ Calls(paused("DEPLOYABLE").script, {})
    BY Zenon, PausedInDeployableCharted
  <2> HIDE DEF full, paused
  <2>6. QED
    BY <1>1, <2>1, <2>2, <2>3, <2>4, <2>5 DEF APPROVAL_PAUSABLE, Known_flow
<1>3. ASSUME NEW f \in check_rejection_flow PROVE Known_flow(f)
  <2> DEFINE rejected == run_of("rejected", rejected_then_resubmitted(first), first,
               <<"DRAFT", "GOVERNANCE_ANALYSIS", "REJECTED", "DRAFT", "GOVERNANCE_ANALYSIS",
                 "APPROVED", "TASK_PLANNING">>)
             replaced == run_of("replaced", <<submit(first), approve(first),
               go(first, "TASK_PLANNING"), fail(first), supersede, submit(second),
               decide(second, "REJECT", NONE), go(second, "DRAFT"),
               refused(go(second, "TASK_PLANNING"), {"InvalidTransition"})>>, second,
               <<"REJECTED", "DRAFT">>)
  <2>1. f \in {rejected, replaced}
    BY Zenon DEF check_rejection_flow
  <2>2. rejected.name = "rejected" /\ replaced.name = "replaced"
    BY RunOf
  <2>3. Charted(rejected) /\ Calls(rejected.script, {})
    BY Zenon, RejectedCharted
  <2>4. Charted(replaced) /\ Calls(replaced.script, {})
    BY Zenon, ReplacedCharted
  <2> HIDE DEF rejected, replaced
  <2>5. QED
    BY <1>1, <2>1, <2>2, <2>3, <2>4 DEF Known_flow
<1>4. ASSUME NEW f \in check_require_changes_flow PROVE Known_flow(f)
  <2> DEFINE back == run_of("sent_back", <<submit(first), decide(first, "REQUIRE_CHANGES", NONE),
               refused(go(first, "TASK_PLANNING"), {"InvalidTransition"})>>, first,
               <<"GOVERNANCE_ANALYSIS", "DRAFT">>)
  <2>1. f \in {told_apart_flow, back}
    BY Zenon DEF check_require_changes_flow, told_apart_flow
  <2>2. told_apart_flow.name = "told_apart" /\ back.name = "sent_back"
    BY RunOf DEF told_apart_flow
  <2>3. Charted(told_apart_flow) /\ Calls(told_apart_flow.script, {})
    BY Zenon, ToldApartCharted DEF told_apart_flow
  <2>4. Charted(back) /\ Calls(back.script, {})
    BY Zenon, SentBackCharted
  <2> HIDE DEF back
  <2>5. QED
    BY <1>1, <2>1, <2>2, <2>3, <2>4 DEF Known_flow
<1>5. ASSUME NEW f \in check_failure_flow PROVE Known_flow(f)
  <2> DEFINE failed(s) == run_of("failed", failed_at(first, s)
               \o <<supersede, refused(go(second, "TASK_PLANNING"), {"InvalidTransition"})>>, first,
               <<s, "FAILED">>)
             parked(s) == run_of("parked",
               Append(park_in(first, s), refused(fail(first), JobStateMachineError)), first, <<s>>)
  <2>1. f \in {failed(s) : s \in FAILABLE}
                \union {parked(s) : s \in JobState \ (FAILABLE \union TERMINAL)}
    BY Zenon DEF check_failure_flow
  <2>2. \A s : failed(s).name = "failed" /\ parked(s).name = "parked"
    BY RunOf
  <2>3. Charted(failed("TASK_PLANNING")) /\ Calls(failed("TASK_PLANNING").script, {})
    BY Zenon, FailedInTaskPlanningCharted
  <2>4. Charted(failed("IN_PROGRESS")) /\ Calls(failed("IN_PROGRESS").script, {})
    BY Zenon, FailedInInProgressCharted
  <2>5. Charted(failed("VALIDATING")) /\ Calls(failed("VALIDATING").script, {})
    BY Zenon, FailedInValidatingCharted
  <2>6. Charted(failed("DEPLOYABLE")) /\ Calls(failed("DEPLOYABLE").script, {})
    BY Zenon, FailedInDeployableCharted
  <2>7. Charted(failed("AWAITING_APPROVAL")) /\ Calls(failed("AWAITING_APPROVAL").script, {})
    BY Zenon, FailedInAwaitingApprovalCharted
  <2>8. Charted(parked("DRAFT")) /\ Calls(parked("DRAFT").script, {})
    BY Zenon, ParkedInDraftCharted
  <2>9. Charted(parked("GOVERNANCE_ANALYSIS")) /\ Calls(parked("GOVERNANCE_ANALYSIS").script, {})
    BY Zenon, ParkedInGovernanceAnalysisCharted
  <2>10. Charted(parked("REJECTED")) /\ Calls(parked("REJECTED").script, {})
    BY Zenon, ParkedInRejectedCharted
  <2>11. Charted(parked("APPROVED")) /\ Calls(parked("APPROVED").script, {})
    BY Zenon, ParkedInApprovedCharted
  <2> HIDE DEF failed, parked
  <2>12. ASSUME NEW s \in FAILABLE, f = failed(s) PROVE Known_flow(f)
    BY <1>1, <2>2, <2>3, <2>4, <2>5, <2>6, <2>7, <2>12 DEF FAILABLE, Known_flow
  <2>13. ASSUME NEW s \in JobState \ (FAILABLE \union TERMINAL), f = parked(s)
         PROVE  Known_flow(f)
    <3>1. s \in {"DRAFT", "GOVERNANCE_ANALYSIS", "REJECTED", "APPROVED"}
      BY DEF JobState, FAILABLE, TERMINAL
    <3>2. QED BY <1>1, <2>2, <2>8, <2>9, <2>10, <2>11, <2>13, <3>1 DEF Known_flow
  <2>14. QED BY <2>1, <2>12, <2>13
<1>6. ASSUME NEW f \in check_asking_again PROVE Known_flow(f)
  <2> DEFINE delivered == run_of("delivered", Append(happy_path(first, NONE),
               refused(supersede, {"InvalidTransition"})), first, <<"COMPLETED">>)
             live == run_of("live", <<submit(first), refused(supersede, {"InvalidTransition"})>>,
               first, <<"GOVERNANCE_ANALYSIS">>)
  <2>1. f \in {asked_again_flow, delivered, live}
    BY Zenon DEF check_asking_again, asked_again_flow
  <2>2. /\ asked_again_flow.name = "asked_again" /\ delivered.name = "delivered"
        /\ live.name = "live"
    BY RunOf DEF asked_again_flow
  <2>3. Charted(asked_again_flow) /\ Calls(asked_again_flow.script, {first})
    BY Zenon, AskedAgainCharted DEF asked_again_flow
  <2>4. Charted(delivered) /\ Calls(delivered.script, {})
    BY Zenon, DeliveredCharted
  <2>5. Charted(live) /\ Calls(live.script, {})
    BY Zenon, LiveCharted
  <2> HIDE DEF delivered, live
  <2>6. QED
    BY <1>1, <2>1, <2>2, <2>3, <2>4, <2>5 DEF Known_flow
<1>7. ASSUME NEW f \in check_governance_gate PROVE Known_flow(f)
  <2> DEFINE gated == run_of("gated", never_approved(first)
               \o SetToSeq({refused(go(first, s), JobStateMachineError) : s \in POST_APPROVAL}),
               first, <<"GOVERNANCE_ANALYSIS">>)
             authorised == run_of("authorised",
               <<submit(first), approve(first), go(first, "TASK_PLANNING")>>,
               first, <<"APPROVED", "TASK_PLANNING">>)
  <2>1. f \in {gated, forced_flow, authorised}
    BY Zenon DEF check_governance_gate, forced_flow
  <2>2. /\ gated.name = "gated" /\ forced_flow.name = "forced"
        /\ authorised.name = "authorised"
    BY RunOf DEF forced_flow
  <2>3. Charted(gated) /\ Calls(gated.script, {})
    BY Zenon, GatedCharted
  <2>4. Charted(forced_flow)
    BY Zenon, ForcedCharted DEF forced_flow
  <2>5. Charted(authorised) /\ Calls(authorised.script, {})
    BY Zenon, AuthorisedCharted
  <2> HIDE DEF gated, authorised
  <2>6. QED
    BY <1>1, <2>1, <2>2, <2>3, <2>4, <2>5 DEF Known_flow
<1>8. ASSUME NEW f \in check_expiry_enforced PROVE Known_flow(f)
  <2> DEFINE lapsed == run_of("lapsed", <<submit(first), decide(first, "APPROVE", MaxTime),
               wait(MaxTime), refused(go(first, "TASK_PLANNING"), {"ExpiredApproval"}),
               time_out(first)>>, first, <<"APPROVED", "TIMED_OUT">>)
  <2>1. f = lapsed
    BY Zenon DEF check_expiry_enforced
  <2>2. lapsed.name = "lapsed"
    BY RunOf
  <2>3. Charted(lapsed) /\ Calls(lapsed.script, {first})
    BY Zenon, LapsedCharted
  <2> HIDE DEF lapsed
  <2>4. QED
    BY <1>1, <2>1, <2>2, <2>3 DEF Known_flow
<1>9. ASSUME NEW f \in {run_of("cancelled", cancelled_by_a_person(first), first, <<"CANCELLED">>),
                        run_of("stalled", stalled_awaiting_approval(first), first,
                               <<"AWAITING_APPROVAL", "TIMED_OUT">>)}
      PROVE  Known_flow(f)
  <2> DEFINE cancelled == run_of("cancelled", cancelled_by_a_person(first), first, <<"CANCELLED">>)
             stalled == run_of("stalled", stalled_awaiting_approval(first), first,
                               <<"AWAITING_APPROVAL", "TIMED_OUT">>)
  <2>1. f \in {cancelled, stalled}
    OBVIOUS
  <2>2. cancelled.name = "cancelled" /\ stalled.name = "stalled"
    BY RunOf
  <2>3. Charted(cancelled) /\ Calls(cancelled.script, {})
    BY Zenon, CancelledCharted
  <2>4. Charted(stalled) /\ Calls(stalled.script, {})
    BY Zenon, StalledCharted
  <2> HIDE DEF cancelled, stalled
  <2>5. QED
    BY <1>1, <2>1, <2>2, <2>3, <2>4 DEF Known_flow
<1>10. QED
  BY Zenon, <1>2, <1>3, <1>4, <1>5, <1>6, <1>7, <1>8, <1>9 DEF Flow

-----------------------------------------------------------------------------
(* What a call of a flow does to the engine.                               *)

\* A flow's script is a sequence of calls, each of them one a flow makes or the
\* state set behind the engine's back.
LEMMA ScriptOfCalls ==
  ASSUME NEW f \in Flow
  PROVE  /\ Len(f.script) \in Nat /\ DOMAIN f.script = 1 .. Len(f.script)
         /\ \A n \in DOMAIN f.script :
              \/ \E dated \in SUBSET {first} : IsCall(f.script[n], dated)
              \/ f.name = "forced" /\ f.script[n] = force(first, "APPROVED")
<1>1. Known_flow(f)
  BY FlowsAreKnown
<1>2. CASE f.name # "forced"
  BY <1>1, <1>2 DEF Known_flow, Calls
<1>3. CASE f.name = "forced"
  <2> DEFINE refusing == refused(go(first, "TASK_PLANNING"), {"ExecutionBeforeApproval"})
  <2>1. f.script = <<new(first), submit(first), force(first, "APPROVED"), refusing>>
    BY <1>1, <1>3, ForcedCharted DEF Known_flow, forced_flow
  <2>2. /\ IsCall(new(first), {}) /\ IsCall(submit(first), {}) /\ IsCall(refusing, {})
        /\ {} \in SUBSET {first}
    BY CallsMade
  <2>3. PICK c1, c2, c3, c4 :
          /\ c1 = new(first) /\ c2 = submit(first) /\ c3 = force(first, "APPROVED")
          /\ c4 = refusing
    OBVIOUS
  <2>4. f.script = <<c1, c2, c3, c4>>
    BY <2>1, <2>3
  <2> HIDE DEF refusing
  <2>5. /\ Len(f.script) = 4 /\ DOMAIN f.script = 1 .. 4
        /\ f.script[1] = c1 /\ f.script[2] = c2 /\ f.script[3] = c3 /\ f.script[4] = c4
    BY <2>4
  <2>6. QED BY <1>3, <2>2, <2>3, <2>5
<1>4. QED BY <1>2, <1>3

\* The transition a call makes: on its own job, to the state it names or the one
\* the job paused in, and with a verdict, if any, that cites the one before; a
\* decision is recorded as it was asked for, and no other has a deadline.
Makes(c, to, record, at) ==
  /\ Moving(c.on, to, record, at)
  /\ c.call = "transition" => to = c.to
  /\ c.call = "decide" => to = DECISION_TARGET[c.verdict]
  /\ c.call = "resume" => state[c.on] = "AWAITING_APPROVAL" /\ to = awaiting_from[c.on]
  /\ c.call = "decide" => record # NONE
  /\ record # NONE =>
       \E verdict \in DecisionType, authority \in Principals,
          expires \in Nat \union {NONE} :
         /\ record = minted(c.on, verdict, authority, expires, last_decision_id(c.on))
         /\ c.call = "decide" => verdict = c.verdict /\ expires = c.expires
         /\ c.call # "decide" => expires = NONE

\* A transition of a call that hands over no decision, or the one decide() mints.
LEMMA TransitionIsMade ==
  ASSUME TypeOK, NEW c, c.on \in Jobs, NEW to \in JobState, NEW reason \in BOOLEAN,
         NEW principal \in Principals \union {NONE}, NEW decision, NEW at \in Nat,
         transition(c.on, to, reason, principal, decision, at),
         c.call = "transition" => to = c.to,
         c.call = "decide" => to = DECISION_TARGET[c.verdict],
         c.call = "resume" => state[c.on] = "AWAITING_APPROVAL" /\ to = awaiting_from[c.on],
         c.call # "decide" => decision = NONE,
         c.call = "decide" =>
           /\ c.verdict \in DecisionType /\ c.expires \in Nat \union {NONE}
           /\ \E authority \in Principals :
                decision = minted(c.on, c.verdict, authority, c.expires, last_decision_id(c.on))
  PROVE  \E record \in Decision \union {NONE} : Makes(c, to, record, at)
<1> DEFINE j == c.on
           decides == decision_for_edge(state[j], to)
           record == settled_record(j, decides, principal, decision)
<1>1. /\ constructed(j) /\ state[j] \notin TERMINAL /\ to \in allowed_targets(j)
      /\ guards_pass(j, to, reason, principal, decides)
      /\ decides = NONE => decision = NONE
      /\ decides # NONE => decision_fits(j, record, decides)
      /\ at \in now .. MaxTime
      /\ move(j, to, record, at)
  BY DEF transition
<1>2. decides \in DecisionType \union {NONE}
  BY VerdictEdges DEF TypeOK
<1>3. decides # NONE => principal \in Principals
  BY <1>1 DEF guards_pass
<1>4. last_decision_id(j) \in DecisionId \union {NONE}
  BY LastDecision
<1>5. c.call = "decide" => decision \in Decision /\ decision # NONE
  <2>1. SUFFICES ASSUME c.call = "decide" PROVE decision \in Decision
    BY JobAssumption
  <2>2. PICK authority \in Principals :
          decision = minted(j, c.verdict, authority, c.expires, last_decision_id(j))
    BY <2>1
  <2>3. QED BY <1>1, <1>4, <2>1, <2>2, MintedIsDecision
<1>6. /\ record \in Decision \union {NONE}
      /\ record = NONE <=> decides = NONE
      /\ c.call = "decide" => record # NONE
      /\ record # NONE =>
           \E verdict \in DecisionType, authority \in Principals,
              expires \in Nat \union {NONE} :
             /\ record = minted(j, verdict, authority, expires, last_decision_id(j))
             /\ c.call = "decide" => verdict = c.verdict /\ expires = c.expires
             /\ c.call # "decide" => expires = NONE
  <2>1. CASE decides = NONE
    BY <1>1, <1>5, <2>1 DEF settled_record
  <2>2. CASE decides # NONE /\ decision # NONE
    <3>1. record = decision /\ c.call = "decide"
      BY <2>2 DEF settled_record
    <3>2. QED BY <1>5, <2>2, <3>1
  <2>3. CASE decides # NONE /\ decision = NONE
    <3>1. record = minted(j, decides, principal, NONE, last_decision_id(j))
      BY <2>3 DEF settled_record
    <3>2. minted(j, decides, principal, NONE, last_decision_id(j)) \in Decision
      BY <1>1, <1>2, <1>3, <1>4, <2>3, MintedIsDecision
    <3>3. c.call # "decide"
      BY <1>5, <2>3
    <3>4. record # NONE
      BY <3>1, <3>2, JobAssumption
    <3> HIDE DEF record, decides
    <3>5. QED BY <1>2, <1>3, <2>3, <3>1, <3>2, <3>3, <3>4
  <2>4. QED BY <2>1, <2>2, <2>3
<1>7. to \in POST_APPROVAL => approval[j] # NONE /\ ~approval_expired(j)
  BY <1>1 DEF guards_pass
<1> HIDE DEF record
<1>8. Moving(j, to, record, at)
  BY <1>1, <1>6, <1>7 DEF Moving, allowed_targets
<1>9. Makes(c, to, record, at)
  BY <1>6, <1>8 DEF Makes
<1>10. QED BY <1>6, <1>9

\* An accepted call that moves its job makes one such transition.
LEMMA AcceptedIsMade ==
  ASSUME TypeOK, NEW c, NEW dated, IsCall(c, dated), c.call \in moving, Accepted(c)
  PROVE  \E to \in JobState, record \in Decision \union {NONE}, at \in Nat :
           Makes(c, to, record, at)
<1> USE FlowsAssumption, JobAssumption
<1>1. c.on \in Jobs
  BY DEF IsCall, moving
<1>2. PICK at \in now .. MaxTime :
        \/ /\ c.call = "transition"
           /\ transition(c.on, c.to, c.reason, c.by, NONE, at)
        \/ /\ c.call = "decide"
           /\ transition(c.on, DECISION_TARGET[c.verdict], TRUE, reviewer,
                minted(c.on, c.verdict, reviewer, c.expires, last_decision_id(c.on)), at)
        \/ /\ c.call = "resume"
           /\ state[c.on] = "AWAITING_APPROVAL" /\ awaiting_from[c.on] # NONE
           /\ transition(c.on, awaiting_from[c.on], TRUE, reviewer, NONE, at)
  BY DEF Accepted, moving
<1>3. at \in Nat
  BY DEF TypeOK
<1>4. CASE c.call = "transition" /\ transition(c.on, c.to, c.reason, c.by, NONE, at)
  <2>1. c.to \in JobState /\ c.reason \in BOOLEAN /\ c.by \in Principals \union {NONE}
    BY <1>4 DEF IsCall
  <2>2. \E record \in Decision \union {NONE} : Makes(c, c.to, record, at)
    BY <1>1, <1>3, <1>4, <2>1, TransitionIsMade
  <2>3. QED BY <1>3, <2>1, <2>2
<1>5. CASE /\ c.call = "decide"
           /\ transition(c.on, DECISION_TARGET[c.verdict], TRUE, reviewer,
                minted(c.on, c.verdict, reviewer, c.expires, last_decision_id(c.on)), at)
  <2>1. c.verdict \in DecisionType /\ c.expires \in Nat \union {NONE}
    BY <1>5 DEF IsCall
  <2>2. DECISION_TARGET[c.verdict] \in JobState
    BY <2>1, TargetsOfDecisions
  <2>3. PICK decision :
          decision = minted(c.on, c.verdict, reviewer, c.expires, last_decision_id(c.on))
    OBVIOUS
  <2>4. transition(c.on, DECISION_TARGET[c.verdict], TRUE, reviewer, decision, at)
    BY <1>5, <2>3
  <2>5. \E record \in Decision \union {NONE} : Makes(c, DECISION_TARGET[c.verdict], record, at)
    <3>1. PICK to \in JobState : to = DECISION_TARGET[c.verdict]
      BY <2>2
    <3>2. transition(c.on, to, TRUE, reviewer, decision, at)
      BY <2>4, <3>1
    <3>3. QED BY <1>1, <1>3, <1>5, <2>1, <2>3, <3>1, <3>2, TransitionIsMade
  <2>6. QED BY <1>3, <2>2, <2>5
<1>6. CASE /\ c.call = "resume"
           /\ state[c.on] = "AWAITING_APPROVAL" /\ awaiting_from[c.on] # NONE
           /\ transition(c.on, awaiting_from[c.on], TRUE, reviewer, NONE, at)
  <2>1. awaiting_from[c.on] \in JobState
    BY <1>1, <1>6 DEF TypeOK
  <2>2. QED BY <1>1, <1>3, <1>6, <2>1, TransitionIsMade
<1>7. QED BY <1>2, <1>4, <1>5, <1>6

\* One that moves no job leaves every history, verdict and approval as it was.
LEMMA AcceptedElse ==
  ASSUME NEW c, c.call \notin moving, Accepted(c)
  PROVE  UNCHANGED <<awaiting_from, approval, decisions, history>>
  BY DEF Accepted, moving, Supersede, construct

\* Every call a flow makes is one of the engine's own.
LEMMA AcceptedIsNext ==
  ASSUME TypeOK, NEW c, NEW dated, IsCall(c, dated), Accepted(c)
  PROVE  [Next]_vars
<1> USE FlowsAssumption, JobAssumption
<1>1. CASE c.call = "new"
  <2>1. c.on \in Jobs
    BY <1>1 DEF IsCall
  <2>2. PICK id \in Ids : construct(c.on, id, TENANT, WORKSPACE, owner, NONE)
    BY <1>1 DEF Accepted
  <2>3. NewJob(c.on)
    BY <2>2 DEF NewJob
  <2>4. QED BY <2>1, <2>3 DEF Next
<1>2. CASE c.call = "supersede"
  <2>1. Supersede(c.on, second) /\ c.on \in Jobs
    BY <1>2 DEF Accepted, IsCall
  <2>2. QED BY <2>1 DEF Next
<1>3. CASE c.call = "wait"
  <2>1. PICK at \in now .. MaxTime :
          /\ now' = at
          /\ UNCHANGED <<ident, state, awaiting_from, approval, decisions, history, events>>
    BY <1>3 DEF Accepted
  <2>2. CASE at = now
    BY <2>1, <2>2 DEF vars
  <2>3. CASE at # now
    <3>1. at \in now + 1 .. MaxTime
      BY <2>3 DEF TypeOK
    <3>2. Tick
      BY <2>1, <3>1 DEF Tick
    <3>3. QED BY <3>2 DEF Next
  <2>4. QED BY <2>2, <2>3
<1>4. CASE c.call = "refused" \/ c.call = "force"
  BY <1>4 DEF Accepted, IsCall
<1>5. CASE c.call = "transition"
  <2>1. /\ c.on \in Jobs /\ c.to \in JobState /\ c.reason \in BOOLEAN
        /\ c.by \in Principals \union {NONE}
    BY <1>5 DEF IsCall
  <2>2. \E at \in now .. MaxTime : transition(c.on, c.to, c.reason, c.by, NONE, at)
    BY <1>5 DEF Accepted
  <2>3. Transition(c.on)
    BY <2>1, <2>2 DEF Transition
  <2>4. QED BY <2>1, <2>3 DEF Next
<1>6. CASE c.call = "decide"
  <2>1. c.on \in Jobs /\ c.verdict \in DecisionType /\ c.expires \in Deadlines \union {NONE}
    BY <1>6 DEF IsCall
  <2>2. PICK at \in now .. MaxTime :
          transition(c.on, DECISION_TARGET[c.verdict], TRUE, reviewer,
            minted(c.on, c.verdict, reviewer, c.expires, last_decision_id(c.on)), at)
    BY <1>6 DEF Accepted
  <2>3. constructed(c.on)
    BY <2>2 DEF transition
  <2>4. Decide(c.on, c.verdict)
    <3>1. NONE \in (UNION {known_decisions(k) : k \in Jobs}) \union {NONE}
      OBVIOUS
    <3>2. QED BY <2>1, <2>2, <2>3, <3>1 DEF Decide
  <2>5. QED BY <2>1, <2>4 DEF Next
<1>7. CASE c.call = "resume"
  <2>1. c.on \in Jobs
    BY <1>7 DEF IsCall
  <2>2. /\ state[c.on] = "AWAITING_APPROVAL" /\ awaiting_from[c.on] # NONE
        /\ \E at \in now .. MaxTime :
             transition(c.on, awaiting_from[c.on], TRUE, reviewer, NONE, at)
    BY <1>7 DEF Accepted
  <2>3. Resume(c.on)
    BY <2>2 DEF Resume
  <2>4. QED BY <2>1, <2>3 DEF Next
<1>8. QED
  BY <1>1, <1>2, <1>3, <1>4, <1>5, <1>6, <1>7 DEF IsCall

-----------------------------------------------------------------------------
(* The flows are runs of the engine and the log.                           *)

\* Every variable has its type, the flow is one of the simulation's and the next
\* call is one of its own.
FlowTyped == TypeOK /\ flow \in Flow /\ pc \in 1 .. Len(flow.script) + 1

\* A flow that is not over has a next call.
LEMMA NextCall ==
  ASSUME FlowTyped, ~over
  PROVE  /\ pc \in DOMAIN flow.script /\ pc + 1 \in 1 .. Len(flow.script) + 1
         /\ \/ \E dated \in SUBSET {first} : IsCall(flow.script[pc], dated)
            \/ flow.name = "forced" /\ flow.script[pc] = force(first, "APPROVED")
<1>1. /\ Len(flow.script) \in Nat /\ DOMAIN flow.script = 1 .. Len(flow.script)
      /\ \A n \in DOMAIN flow.script :
           \/ \E dated \in SUBSET {first} : IsCall(flow.script[n], dated)
           \/ flow.name = "forced" /\ flow.script[n] = force(first, "APPROVED")
  BY ScriptOfCalls DEF FlowTyped
<1>2. pc \in DOMAIN flow.script /\ pc + 1 \in 1 .. Len(flow.script) + 1
  BY <1>1 DEF FlowTyped, over
<1>3. QED BY <1>1, <1>2

\* A step of the engine keeps every type.
LEMMA NextType ==
  ASSUME TypeOK, [Next]_vars
  PROVE  TypeOK'
<1>1. CASE UNCHANGED vars
  BY <1>1 DEF TypeOK, vars
<1>2. CASE Tick
  BY <1>2 DEF TypeOK, Tick
<1>3. QED BY <1>1, <1>2, Steps, MovedType, ConstructsType

\* So does every step of a flow, the one behind the engine's back included.
LEMMA FlowKeepsTypes == FlowsSpec => []FlowTyped
<1>1. ASSUME FlowsInit PROVE FlowTyped
  <2>1. TypeOK
    BY <1>1, InitLock DEF FlowsInit, LedgerInit, LockInv
  <2>2. Len(flow.script) \in Nat
    BY <1>1, ScriptOfCalls DEF FlowsInit
  <2>3. QED BY <1>1, <2>1, <2>2 DEF FlowsInit, FlowTyped
<1>2. ASSUME FlowTyped, [FlowsNext]_flow_vars PROVE FlowTyped'
  <2>1. CASE Step
    <3>1. ~over /\ Call(flow.script[pc]) /\ pc' = pc + 1 /\ flow' = flow
      BY <2>1 DEF Step
    <3>2. /\ pc + 1 \in 1 .. Len(flow.script) + 1
          /\ \/ \E dated \in SUBSET {first} : IsCall(flow.script[pc], dated)
             \/ flow.name = "forced" /\ flow.script[pc] = force(first, "APPROVED")
      BY <1>2, <3>1, NextCall
    <3>3. TypeOK'
      <4>1. CASE UNCHANGED vars
        BY <1>2, <4>1, NextType DEF FlowTyped
      <4>2. CASE /\ Accepted(flow.script[pc])
                 /\ \E dated \in SUBSET {first} : IsCall(flow.script[pc], dated)
        BY <1>2, <4>2, AcceptedIsNext, NextType DEF FlowTyped
      <4>3. CASE Accepted(flow.script[pc]) /\ flow.script[pc] = force(first, "APPROVED")
        <5>1. force(first, "APPROVED").call = "force"
          BY DEF force
        <5>2. /\ state' = [state EXCEPT ![first] = "APPROVED"]
              /\ UNCHANGED <<ident, awaiting_from, approval, decisions, history, events, now>>
          BY <4>3, <5>1 DEF Accepted, force
        <5>3. QED BY <1>2, <5>2 DEF FlowTyped, TypeOK, JobState
      <4>4. QED BY <3>1, <3>2, <4>1, <4>2, <4>3 DEF Call
    <3>4. QED BY <1>2, <3>1, <3>2, <3>3 DEF FlowTyped
  <2>2. CASE File
    <3>1. UNCHANGED vars /\ UNCHANGED <<flow, pc>>
      BY <2>2 DEF File, FileAll
    <3>2. TypeOK'
      BY <1>2, <3>1, NextType DEF FlowTyped
    <3>3. QED BY <1>2, <3>1, <3>2 DEF FlowTyped
  <2>3. CASE UNCHANGED flow_vars
    <3>1. UNCHANGED vars /\ UNCHANGED <<flow, pc>>
      BY <2>3 DEF flow_vars, ledger_vars
    <3>2. TypeOK'
      BY <1>2, <3>1, NextType DEF FlowTyped
    <3>3. QED BY <1>2, <3>1, <3>2 DEF FlowTyped
  <2>4. QED BY <1>2, <2>1, <2>2, <2>3 DEF FlowsNext
<1>3. QED BY <1>1, <1>2, PTL DEF FlowsSpec

\* A flow is never exchanged for another.
LEMMA FlowStays == [FlowsNext]_flow_vars => flow' = flow
  BY DEF FlowsNext, Step, File, flow_vars

\* A step of a flow, but for the state set behind the engine's back, is a step of
\* the ledger or leaves it alone.
LEMMA FlowStepIsLedgerStep ==
  ASSUME FlowTyped, flow.name # "forced", [FlowsNext]_flow_vars
  PROVE  [LedgerNext]_ledger_vars
<1>1. CASE Step
  <2>1. ~over /\ Call(flow.script[pc])
    BY <1>1 DEF Step
  <2>2. \E dated \in SUBSET {first} : IsCall(flow.script[pc], dated)
    BY <2>1, NextCall
  <2>3. [Next]_vars /\ UNCHANGED partitions
    BY <2>1, <2>2, AcceptedIsNext DEF Call, FlowTyped
  <2>4. QED BY <2>3 DEF LedgerNext, ledger_vars
<1>2. CASE File
  BY <1>2 DEF File, LedgerNext
<1>3. CASE UNCHANGED flow_vars
  BY <1>3 DEF flow_vars
<1>4. QED BY <1>1, <1>2, <1>3 DEF FlowsNext

\* Every flow that keeps to the engine's methods, whatever the clock reads from
\* call to call, is a run of the ledger: each call a flow makes is a call of the
\* engine, and filing a job when it is over is filing it whole.  So whatever is
\* proved of the engine, of the trail and of the log holds of it.
THEOREM FlowsStayInTheEngine == FlowsSpec /\ flow.name # "forced" => LedgerSpec
<1>1. FlowsInit => LedgerInit
  BY DEF FlowsInit
<1>2. ASSUME FlowTyped, flow.name # "forced", [FlowsNext]_flow_vars
      PROVE  [LedgerNext]_ledger_vars /\ (flow.name # "forced")'
  BY <1>2, FlowStays, FlowStepIsLedgerStep
<1>3. QED BY <1>1, <1>2, FlowKeepsTypes, PTL DEF FlowsSpec, LedgerSpec

-----------------------------------------------------------------------------
(* Routes and verdicts, call by call.                                      *)

\* A step of a flow makes a transition on the job of the call it makes, or it
\* writes nothing a job is judged by.
LEMMA FlowSteps ==
  ASSUME FlowTyped, [FlowsNext]_flow_vars
  PROVE  \/ /\ UNCHANGED <<approval, decisions, history>>
            /\ UNCHANGED <<flow, pc>>
         \/ /\ pc \in DOMAIN flow.script /\ pc' = pc + 1 /\ flow' = flow
            /\ \/ /\ flow.script[pc].call \notin moving
                  /\ UNCHANGED <<approval, decisions, history>>
               \/ /\ flow.script[pc].call \in moving
                  /\ flow.script[pc].on \in {first, second}
                  /\ \E to \in JobState, record \in Decision \union {NONE}, at \in Nat :
                       Makes(flow.script[pc], to, record, at)
<1>1. CASE Step
  <2>1. ~over /\ Call(flow.script[pc]) /\ pc' = pc + 1 /\ flow' = flow
    BY <1>1 DEF Step
  <2>2. /\ pc \in DOMAIN flow.script
        /\ \/ \E dated \in SUBSET {first} : IsCall(flow.script[pc], dated)
           \/ flow.name = "forced" /\ flow.script[pc] = force(first, "APPROVED")
    BY <2>1, NextCall
  <2>3. CASE flow.script[pc].call \in moving
    <3>1. Accepted(flow.script[pc])
      BY <2>1, <2>3 DEF Call, moving
    <3>2. \E dated \in SUBSET {first} : IsCall(flow.script[pc], dated)
      BY <2>2, <2>3 DEF force, moving
    <3>3. flow.script[pc].on \in {first, second}
      BY <2>3, <3>2 DEF IsCall, moving
    <3>4. \E to \in JobState, record \in Decision \union {NONE}, at \in Nat :
            Makes(flow.script[pc], to, record, at)
      BY <2>3, <3>1, <3>2, AcceptedIsMade DEF FlowTyped
    <3>5. QED BY <2>1, <2>2, <2>3, <3>3, <3>4
  <2>4. CASE flow.script[pc].call \notin moving
    <3>1. UNCHANGED <<approval, decisions, history>>
      BY <2>1, <2>4, AcceptedElse DEF Call, vars
    <3>2. QED BY <2>1, <2>2, <2>4, <3>1
  <2>5. QED BY <2>3, <2>4
<1>2. CASE File
  BY <1>2 DEF File, FileAll, vars
<1>3. CASE UNCHANGED flow_vars
  BY <1>3 DEF flow_vars, ledger_vars, vars
<1>4. QED BY <1>1, <1>2, <1>3 DEF FlowsNext

\* What a transition writes: one entry more in its job's history, perhaps one
\* verdict more, and nothing on any other job.
LEMMA MakesWrites ==
  ASSUME TypeOK, NEW c, c.on \in Jobs, NEW to \in JobState,
         NEW record \in Decision \union {NONE}, NEW at \in Nat, Makes(c, to, record, at)
  PROVE  /\ \A k \in Jobs \ {c.on} :
              /\ history'[k] = history[k] /\ decisions'[k] = decisions[k]
              /\ approval'[k] = approval[k]
         /\ Len(history'[c.on]) = Len(history[c.on]) + 1
         /\ \A n \in 1 .. Len(history[c.on]) : history'[c.on][n] = history[c.on][n]
         /\ history'[c.on][Len(history[c.on]) + 1].to = to
         /\ decisions'[c.on] = IF record = NONE THEN decisions[c.on]
                               ELSE Append(decisions[c.on], record)
         /\ approval'[c.on] = IF record = NONE THEN approval[c.on]
                              ELSE IF record.decision = "APPROVE" THEN record ELSE NONE
<1>1. move(c.on, to, record, at)
  BY DEF Makes, Moving
<1>2. PICK h, e :
        /\ h = history[c.on]
        /\ e = [from |-> state[c.on], to |-> to, at |-> at,
                decision_id |-> IF record = NONE THEN NONE ELSE record.decision_id,
                event |-> Len(events[c.on]) + (IF record = NONE THEN 1 ELSE 2)]
  OBVIOUS
<1>3. history' = [history EXCEPT ![c.on] = Append(h, e)]
  BY <1>1, <1>2 DEF move
<1>4. h \in Seq(TransitionRecord) /\ e.to = to
  BY <1>2 DEF TypeOK
<1>5. history'[c.on] = Append(h, e) /\ \A k \in Jobs \ {c.on} : history'[k] = history[k]
  BY <1>3 DEF TypeOK
<1>6. /\ \A k \in Jobs \ {c.on} : decisions'[k] = decisions[k] /\ approval'[k] = approval[k]
      /\ decisions'[c.on] = IF record = NONE THEN decisions[c.on]
                            ELSE Append(decisions[c.on], record)
      /\ approval'[c.on] = IF record = NONE THEN approval[c.on]
                           ELSE IF record.decision = "APPROVE" THEN record ELSE NONE
  BY <1>1 DEF move, TypeOK, approval_after
<1>7. /\ Len(Append(h, e)) = Len(h) + 1 /\ Append(h, e)[Len(h) + 1] = e
      /\ \A n \in 1 .. Len(h) : Append(h, e)[n] = h[n]
  BY <1>4
<1>8. QED BY <1>2, <1>4, <1>5, <1>6, <1>7

\* Each verdict on the job answers the one before, and the last of them, if it is
\* an APPROVE, is the one the job runs under.
InTurn(j) ==
  /\ \A n \in 2 .. Len(decisions[j]) :
       decisions[j][n].supersedes_decision_id = decisions[j][n - 1].decision_id
  /\ approval[j] = IF decisions[j] # <<>> /\ Last(decisions[j]).decision = "APPROVE"
                   THEN Last(decisions[j]) ELSE NONE
  /\ \A n \in DOMAIN decisions[j] : decisions[j][n].decision_id = <<j, n>>

VerdictsInTurn == \A j \in Jobs : InTurn(j)

\* One verdict more.
LEMMA OneMoreInTurn ==
  ASSUME TypeOK, NEW c, c.on \in Jobs, InTurn(c.on), NEW to \in JobState,
         NEW record \in Decision \union {NONE}, NEW at \in Nat, Makes(c, to, record, at)
  PROVE  InTurn(c.on)'
<1>1. PICK j, old : j = c.on /\ old = decisions[j]
  OBVIOUS
<1>2. /\ decisions'[j] = IF record = NONE THEN old ELSE Append(old, record)
      /\ approval'[j] = IF record = NONE THEN approval[j]
                        ELSE IF record.decision = "APPROVE" THEN record ELSE NONE
  BY <1>1, MakesWrites
<1>3. /\ \A n \in 2 .. Len(old) :
           old[n].supersedes_decision_id = old[n - 1].decision_id
      /\ approval[j] = IF old # <<>> /\ Last(old).decision = "APPROVE" THEN Last(old) ELSE NONE
      /\ \A n \in DOMAIN old : old[n].decision_id = <<j, n>>
  BY <1>1 DEF InTurn
<1>4. SUFFICES LET now_given == decisions'[j]
               IN /\ \A n \in 2 .. Len(now_given) :
                       now_given[n].supersedes_decision_id = now_given[n - 1].decision_id
                  /\ approval'[j] = IF now_given # <<>> /\ Last(now_given).decision = "APPROVE"
                                    THEN Last(now_given) ELSE NONE
                  /\ \A n \in DOMAIN now_given : now_given[n].decision_id = <<j, n>>
  BY <1>1 DEF InTurn
<1>5. CASE record = NONE
  BY <1>2, <1>3, <1>5
<1>6. CASE record # NONE
  <2>1. /\ record.decision_id = <<j, Len(old) + 1>>
        /\ record.supersedes_decision_id = last_decision_id(j)
    BY <1>1, <1>6 DEF Makes, minted
  <2>2. PICK given : given = Append(old, record)
    OBVIOUS
  <2>3. old \in Seq(Decision) /\ Len(old) \in Nat /\ DOMAIN old = 1 .. Len(old)
    BY <1>1 DEF TypeOK
  <2>4. /\ given # <<>> /\ Len(given) = Len(old) + 1 /\ DOMAIN given = 1 .. Len(old) + 1
        /\ given[Len(old) + 1] = record /\ \A n \in 1 .. Len(old) : given[n] = old[n]
    BY <2>2, <2>3
  <2>5. Last(given) = record
    BY <2>4 DEF Last
  <2>6. Len(old) > 0 => last_decision_id(j) = old[Len(old)].decision_id
    <3>1. Len(old) > 0 => old # <<>>
      OBVIOUS
    <3>2. QED BY <1>1, <3>1 DEF last_decision_id, Last
  <2>7. ASSUME NEW n \in 2 .. Len(given)
        PROVE  given[n].supersedes_decision_id = given[n - 1].decision_id
    <3>1. CASE n = Len(old) + 1
      <4>1. Len(old) > 0 /\ n - 1 = Len(old) /\ Len(old) \in 1 .. Len(old)
        BY <2>3, <3>1
      <4>2. QED BY <2>1, <2>4, <2>6, <3>1, <4>1
    <3>2. CASE n # Len(old) + 1
      <4>1. n \in 2 .. Len(old) /\ n \in 1 .. Len(old) /\ n - 1 \in 1 .. Len(old)
        BY <2>3, <2>4, <3>2
      <4>2. QED BY <1>3, <2>4, <4>1
    <3>3. QED BY <3>1, <3>2
  <2>8. ASSUME NEW n \in DOMAIN given PROVE given[n].decision_id = <<j, n>>
    BY <1>3, <2>1, <2>3, <2>4
  <2>9. approval'[j] = IF record.decision = "APPROVE" THEN record ELSE NONE
    BY <1>2, <1>6
  <2>10. decisions'[j] = given
    BY <1>2, <1>6, <2>2
  <2>11. QED BY <2>4, <2>5, <2>7, <2>8, <2>9, <2>10
<1>7. QED BY <1>5, <1>6

\* Each call leaves the verdicts of every job in turn.
LEMMA VerdictsComeInTurn == FlowsSpec => []VerdictsInTurn
<1>1. FlowsInit => VerdictsInTurn
  BY DEF FlowsInit, LedgerInit, Init, VerdictsInTurn, InTurn
<1>2. ASSUME FlowTyped, VerdictsInTurn, [FlowsNext]_flow_vars PROVE VerdictsInTurn'
  <2>1. CASE UNCHANGED <<approval, decisions, history>>
    BY <1>2, <2>1 DEF VerdictsInTurn, InTurn
  <2>2. ASSUME NEW c, c.on \in {first, second}, NEW to \in JobState,
               NEW record \in Decision \union {NONE}, NEW at \in Nat,
               Makes(c, to, record, at)
        PROVE  VerdictsInTurn'
    <3>1. c.on \in Jobs /\ TypeOK
      BY <1>2, <2>2, FlowsAssumption DEF FlowTyped
    <3>2. InTurn(c.on)'
      BY <1>2, <2>2, <3>1, OneMoreInTurn DEF VerdictsInTurn
    <3>3. ASSUME NEW k \in Jobs \ {c.on} PROVE InTurn(k)'
      <4>1. decisions'[k] = decisions[k] /\ approval'[k] = approval[k]
        BY <2>2, <3>1, MakesWrites
      <4>2. InTurn(k)
        BY <1>2 DEF VerdictsInTurn
      <4>3. QED BY <4>1, <4>2 DEF InTurn
    <3>4. QED BY <3>2, <3>3 DEF VerdictsInTurn
  <2>3. QED BY <1>2, <2>1, <2>2, FlowSteps
<1>3. QED BY <1>1, <1>2, FlowKeepsTypes, PTL DEF FlowsSpec

\* The state of the job is set behind the engine's back.
Forced == flow.name = "forced"

\* A flow that keeps to the engine's methods has everything the ledger has.
LEMMA LedgerInFlows == FlowsSpec => [](~Forced => LedgerInv /\ EveryJobReads)
<1>1. FlowsInit => LedgerInit
  BY DEF FlowsInit
<1>2. ASSUME FlowTyped, ~Forced, [FlowsNext]_flow_vars
      PROVE  [LedgerNext]_ledger_vars /\ ~Forced'
  BY <1>2, FlowStays, FlowStepIsLedgerStep DEF Forced
<1>3. ASSUME Forced, [FlowsNext]_flow_vars PROVE Forced'
  BY <1>3, FlowStays DEF Forced
<1>4. QED
  BY <1>1, <1>2, <1>3, FlowKeepsTypes, LedgerInvariant, JobsReadFromTheLog, PTL
  DEF FlowsSpec, LedgerSpec

\* Nothing resumes the job whose state was forced.
LEMMA ForcedNeverResumes ==
  ASSUME NEW f \in Flow, f.name = "forced", NEW n \in DOMAIN f.script
  PROVE  f.script[n].call # "resume"
<1>1. f = forced_flow
  BY FlowsAreKnown DEF Known_flow
<1>2. f.script = <<new(first), submit(first), force(first, "APPROVED"),
                   refused(go(first, "TASK_PLANNING"), {"ExecutionBeforeApproval"})>>
  BY <1>1, ForcedCharted DEF forced_flow
<1>3. PICK c1, c2, c3, c4 :
        /\ f.script = <<c1, c2, c3, c4>>
        /\ c1 = new(first) /\ c2 = submit(first) /\ c3 = force(first, "APPROVED")
        /\ c4 = refused(go(first, "TASK_PLANNING"), {"ExecutionBeforeApproval"})
  BY <1>2
<1>4. /\ c1.call = "new" /\ c2.call = "transition" /\ c3.call = "force"
      /\ c4.call = "refused"
  BY <1>3 DEF new, submit, move_to, force, refused
<1>5. QED BY <1>3, <1>4

\* Before each call, every job has been where its chart says, and nowhere else.
OnRoute ==
  \A j \in {first, second} : \A path, at :
    Charts(flow.script, j, path, at) =>
      /\ Len(history[j]) + 1 = at[pc]
      /\ \A n \in DOMAIN history[j] : history[j][n].to = path[n + 1]

\* A job that resumes goes back where it was before it paused.
LEMMA BackWhereItWas ==
  ASSUME LedgerInv, NEW j \in Jobs, state[j] = "AWAITING_APPROVAL",
         NEW to \in JobState, to = awaiting_from[j]
  PROVE  /\ Len(history[j]) > 0
         /\ to = IF Len(history[j]) = 1 THEN "DRAFT" ELSE history[j][Len(history[j]) - 1].to
<1>1. PICK h : h = history[j]
  OBVIOUS
<1>2. /\ TypeOK /\ ReturnAddress /\ TrailExplainsState
  BY DEF LedgerInv, StoryInv, TrailInv, LockInv, ExplainInv
<1>3. /\ state[j] = IF h = <<>> THEN "DRAFT" ELSE Last(h).to
      /\ \A i \in DOMAIN h : h[i].from = IF i = 1 THEN "DRAFT" ELSE h[i - 1].to
  BY <1>1, <1>2 DEF TrailExplainsState
<1>4. to = Last(h).from
  BY <1>1, <1>2, NoneAssumption DEF ReturnAddress
<1>5. h \in Seq(TransitionRecord) /\ h # <<>>
  BY <1>1, <1>2, <1>3 DEF TypeOK
<1>6. Len(h) > 0 /\ Len(h) \in DOMAIN h /\ Last(h) = h[Len(h)]
  BY <1>5 DEF Last
<1>7. QED BY <1>1, <1>3, <1>4, <1>6

\* One transition further along the chart.
LEMMA OneMoreOnRoute ==
  ASSUME FlowTyped, ~Forced => LedgerInv, OnRoute,
         pc \in DOMAIN flow.script, flow.script[pc].call \in moving,
         NEW to \in JobState, NEW record \in Decision \union {NONE}, NEW at \in Nat,
         flow.script[pc].on \in {first, second}, Makes(flow.script[pc], to, record, at),
         NEW path, NEW stops, Charts(flow.script, flow.script[pc].on, path, stops)
  PROVE  LET h == history'[flow.script[pc].on]
         IN /\ Len(h) + 1 = stops[pc + 1]
            /\ \A n \in DOMAIN h : h[n].to = path[n + 1]
<1>1. PICK c, j, old, h :
        /\ c = flow.script[pc] /\ j = c.on /\ old = history[j] /\ h = history'[j]
  OBVIOUS
<1>2. j \in Jobs /\ TypeOK
  BY <1>1, FlowsAssumption DEF FlowTyped
<1>3. /\ old \in Seq(TransitionRecord) /\ Len(old) \in Nat /\ DOMAIN old = 1 .. Len(old)
  BY <1>1, <1>2 DEF TypeOK
<1>4. h \in Seq(TransitionRecord) /\ Len(h) = Len(old) + 1
      /\ (\A n \in 1 .. Len(old) : h[n] = old[n]) /\ h[Len(old) + 1].to = to
  <2>1. Moved
    BY <1>1, <1>2 DEF Moved, Makes
  <2>2. TypeOK'
    BY <1>2, <2>1, MovedType
  <2>3. h \in Seq(TransitionRecord)
    BY <1>1, <1>2, <2>2 DEF TypeOK
  <2>4. Makes(c, to, record, at) /\ c.on \in Jobs
    BY Zenon, <1>1, <1>2
  <2>5. /\ Len(history'[c.on]) = Len(history[c.on]) + 1
        /\ \A n \in 1 .. Len(history[c.on]) : history'[c.on][n] = history[c.on][n]
        /\ history'[c.on][Len(history[c.on]) + 1].to = to
    BY <1>2, <2>4, MakesWrites
  <2>6. QED BY <1>1, <2>3, <2>5
<1>5. /\ Len(old) + 1 = stops[pc]
      /\ \A n \in DOMAIN old : old[n].to = path[n + 1]
  BY <1>1 DEF OnRoute
<1>6. /\ stops[pc + 1] = stops[pc] + 1
      /\ c.call = "transition" => path[stops[pc + 1]] = c.to
      /\ c.call = "decide" => path[stops[pc + 1]] = DECISION_TARGET[c.verdict]
      /\ c.call = "resume" => stops[pc] > 1 /\ path[stops[pc + 1]] = path[stops[pc] - 1]
  BY <1>1 DEF Charts, Along
<1>7. path[1] = "DRAFT"
  BY DEF Charts
<1>8. path[Len(old) + 2] = to
  <2>1. stops[pc + 1] = Len(old) + 2
    BY <1>3, <1>5, <1>6
  <2>2. CASE c.call = "transition" \/ c.call = "decide"
    BY <1>1, <1>6, <2>1, <2>2 DEF Makes
  <2>3. CASE c.call = "resume"
    <3>1. ~Forced
      BY <1>1, <2>3, ForcedNeverResumes DEF FlowTyped, Forced
    <3>2. state[j] = "AWAITING_APPROVAL" /\ to = awaiting_from[j]
      BY <1>1, <2>3 DEF Makes
    <3>3. /\ Len(old) > 0
          /\ to = IF Len(old) = 1 THEN "DRAFT" ELSE old[Len(old) - 1].to
      BY <1>1, <1>2, <3>1, <3>2, BackWhereItWas
    <3>4. path[Len(old) + 2] = path[Len(old)]
      BY <1>3, <1>5, <1>6, <2>1, <2>3
    <3>5. CASE Len(old) = 1
      BY <1>7, <3>3, <3>4, <3>5
    <3>6. CASE Len(old) # 1
      <4>1. Len(old) - 1 \in DOMAIN old /\ (Len(old) - 1) + 1 = Len(old)
        BY <1>3, <3>3, <3>6
      <4>2. old[Len(old) - 1].to = path[Len(old)]
        BY <1>5, <4>1
      <4>3. QED BY <3>3, <3>4, <3>6, <4>2
    <3>7. QED BY <3>5, <3>6
  <2>4. QED BY <1>1, <2>2, <2>3 DEF moving
<1>9. Len(h) + 1 = stops[pc + 1]
  BY <1>3, <1>4, <1>5, <1>6
<1>10. ASSUME NEW n \in DOMAIN h PROVE h[n].to = path[n + 1]
  <2>1. n \in 1 .. Len(old) \/ n = Len(old) + 1
    BY <1>3, <1>4
  <2>2. CASE n \in 1 .. Len(old)
    BY <1>3, <1>4, <1>5, <2>2
  <2>3. CASE n = Len(old) + 1
    <3>1. n + 1 = Len(old) + 2
      BY <1>3, <2>3
    <3>2. QED BY <1>4, <1>8, <2>3, <3>1
  <2>4. QED BY <2>1, <2>2, <2>3
<1>11. QED BY <1>1, <1>9, <1>10

\* Each call takes its job one state along its path, or leaves it.
LEMMA RoutesAreKept == FlowsSpec => []OnRoute
<1>1. ASSUME FlowsInit PROVE OnRoute
  <2>1. \A j \in Jobs : history[j] = <<>>
    BY <1>1 DEF FlowsInit, LedgerInit, Init
  <2>2. first \in Jobs /\ second \in Jobs /\ pc = 1
    BY <1>1, FlowsAssumption DEF FlowsInit
  <2>3. QED BY <2>1, <2>2 DEF OnRoute, Charts
<1>2. ASSUME FlowTyped, ~Forced => LedgerInv, OnRoute, [FlowsNext]_flow_vars
      PROVE  OnRoute'
  <2>1. CASE UNCHANGED <<approval, decisions, history>> /\ UNCHANGED <<flow, pc>>
    BY <1>2, <2>1 DEF OnRoute
  <2>2. CASE pc \in DOMAIN flow.script /\ pc' = pc + 1 /\ flow' = flow
    <3> SUFFICES ASSUME NEW j \in {first, second}, NEW path, NEW stops,
                        Charts(flow.script, j, path, stops)
                 PROVE  /\ Len(history'[j]) + 1 = stops[pc + 1]
                        /\ \A n \in DOMAIN history'[j] : history'[j][n].to = path[n + 1]
      BY <2>2 DEF OnRoute
    <3>1. PICK c : c = flow.script[pc]
      OBVIOUS
    <3>2. /\ Len(history[j]) + 1 = stops[pc]
          /\ \A n \in DOMAIN history[j] : history[j][n].to = path[n + 1]
      BY <1>2 DEF OnRoute
    <3>3. CASE history'[j] = history[j] /\ (c.call \notin moving \/ c.on # j)
      <4>1. stops[pc + 1] = stops[pc]
        BY <2>2, <3>1, <3>3 DEF Charts, Along
      <4>2. QED BY <3>2, <3>3, <4>1
    <3>4. CASE /\ c.call \in moving /\ c.on \in {first, second}
               /\ \E to \in JobState, record \in Decision \union {NONE}, at \in Nat :
                    Makes(c, to, record, at)
      <4>1. PICK to \in JobState, record \in Decision \union {NONE}, at \in Nat :
              Makes(c, to, record, at)
        BY <3>4
      <4>2. CASE c.on = j
        BY <1>2, <2>2, <3>1, <3>4, <4>1, <4>2, OneMoreOnRoute
      <4>3. CASE c.on # j
        <5>1. c.on \in Jobs /\ j \in Jobs \ {c.on} /\ TypeOK
          BY <1>2, <3>4, <4>3, FlowsAssumption DEF FlowTyped
        <5>2. history'[j] = history[j]
          BY <4>1, <5>1, MakesWrites
        <5>3. QED BY <3>3, <4>3, <5>2
      <4>4. QED BY <4>2, <4>3
    <3>5. CASE c.call \notin moving /\ UNCHANGED <<approval, decisions, history>>
      BY <3>3, <3>5
    <3>6. pc' # pc
      BY <1>2, <2>2 DEF FlowTyped
    <3>7. QED BY <1>2, <3>1, <3>4, <3>5, <3>6, FlowSteps
  <2>3. QED BY <1>2, <2>1, <2>2, FlowSteps
<1>3. QED BY <1>1, <1>2, FlowKeepsTypes, LedgerInFlows, PTL DEF FlowsSpec

\* One element ahead.
LEMMA OneAhead ==
  ASSUME NEW S, NEW x \in S, NEW t \in Seq(S), NEW v, v = <<x>> \o t
  PROVE  /\ v \in Seq(S) /\ Len(v) = Len(t) + 1 /\ v[1] = x
         /\ \A n \in 1 .. Len(t) : v[n + 1] = t[n]
  OBVIOUS

\* What ends like the path has that ending.
LEMMA EndsIsSuffix ==
  ASSUME NEW S, NEW s \in Seq(S), NEW t \in Seq(S), Ends(s, t)
  PROVE  IsSuffix(s, t)
<1>1. PICK a, b : a = Reverse(s) /\ b = Reverse(t)
  OBVIOUS
<1>2. Len(s) \in Nat /\ Len(t) \in Nat /\ Len(s) <= Len(t) /\ DOMAIN s = 1 .. Len(s)
  BY DEF Ends
<1>3. /\ a \in Seq(S) /\ Len(a) = Len(s) /\ \A i \in 1 .. Len(s) : a[i] = s[(Len(s) - i) + 1]
  BY <1>1, <1>2 DEF Reverse
<1>4. /\ b \in Seq(S) /\ Len(b) = Len(t) /\ \A i \in 1 .. Len(t) : b[i] = t[(Len(t) - i) + 1]
  BY <1>1, <1>2 DEF Reverse
<1>5. \A i \in 1 .. Len(s) : a[i] = b[i]
  <2> SUFFICES ASSUME NEW i \in 1 .. Len(s) PROVE a[i] = b[i]
    OBVIOUS
  <2>1. /\ (Len(s) - i) + 1 \in 1 .. Len(s) /\ i \in 1 .. Len(t)
        /\ (Len(t) - Len(s)) + ((Len(s) - i) + 1) = (Len(t) - i) + 1
    BY <1>2
  <2>2. s[(Len(s) - i) + 1] = t[(Len(t) - Len(s)) + ((Len(s) - i) + 1)]
    BY <1>2, <2>1 DEF Ends
  <2>3. QED BY <1>3, <1>4, <2>1, <2>2
<1>6. SubSeq(a, 1, Len(a)) = SubSeq(b, 1, Len(a))
  BY <1>2, <1>3, <1>4, <1>5
<1>7. IsPrefix(a, b)
  BY <1>2, <1>3, <1>4, <1>6 DEF IsPrefix
<1>8. QED BY <1>1, <1>7 DEF IsSuffix

\* A flow that is over took its job along the whole of its path.
LEMMA WholePathWalked ==
  ASSUME FlowTyped, OnRoute, over, NEW j \in {first, second}, NEW path, NEW stops,
         Charts(flow.script, j, path, stops), stops[Len(stops)] = Len(path)
  PROVE  /\ path \in Seq(JobState) /\ visited(j) = path
         /\ Len(history[j]) + 1 = Len(path)
         /\ \A n \in DOMAIN history[j] : history[j][n].to = path[n + 1]
<1>1. PICK h, v, rest :
        /\ h = history[j] /\ v = visited(j)
        /\ rest = [n \in DOMAIN history[j] |-> history[j][n].to]
  OBVIOUS
<1>2. h \in Seq(TransitionRecord) /\ Len(h) \in Nat /\ DOMAIN h = 1 .. Len(h)
  BY <1>1, FlowsAssumption DEF FlowTyped, TypeOK
<1>3. pc = Len(stops)
  <2>1. Len(flow.script) \in Nat
    BY ScriptOfCalls DEF FlowTyped
  <2>2. pc = Len(flow.script) + 1
    BY <2>1 DEF FlowTyped, over
  <2>3. QED BY <2>2 DEF Charts
<1>4. /\ path \in Seq(JobState) /\ path[1] = "DRAFT"
      /\ Len(h) + 1 = Len(path)
      /\ \A n \in DOMAIN h : h[n].to = path[n + 1]
  BY <1>1, <1>3 DEF OnRoute, Charts
<1>5. rest \in Seq(JobState) /\ Len(rest) = Len(h) /\ \A n \in 1 .. Len(h) : rest[n] = h[n].to
  <2>1. ASSUME NEW n \in 1 .. Len(h) PROVE h[n].to \in JobState
    <3>1. h[n] \in TransitionRecord
      BY <1>2
    <3>2. QED BY <3>1 DEF TransitionRecord
  <2>2. QED BY <1>1, <1>2, <2>1
<1>6. v = <<"DRAFT">> \o rest
  BY <1>1 DEF visited
<1>7. /\ v \in Seq(JobState) /\ Len(v) = Len(h) + 1 /\ v[1] = "DRAFT"
      /\ \A n \in 1 .. Len(h) : v[n + 1] = rest[n]
  <2>1. "DRAFT" \in JobState
    BY DEF JobState
  <2>2. QED BY <1>5, <1>6, <2>1, OneAhead
<1>8. v = path
  <2>1. ASSUME NEW n \in 1 .. Len(path) PROVE v[n] = path[n]
    <3>1. CASE n = 1
      BY <1>4, <1>7, <3>1
    <3>2. CASE n # 1
      <4>1. n - 1 \in 1 .. Len(h) /\ (n - 1) + 1 = n
        BY <1>2, <1>4, <3>2
      <4>2. QED BY <1>2, <1>4, <1>5, <1>7, <4>1
    <3>3. QED BY <3>1, <3>2
  <2>2. Len(v) = Len(path)
    BY <1>4, <1>7
  <2>3. QED BY <1>4, <1>7, <2>1, <2>2
<1>9. QED BY <1>1, <1>4, <1>8

\* The calls of the flow that asks again.
LEMMA AskedAgainScript ==
  LET s == asked_again_flow.script
  IN /\ Len(s) = 9
     /\ s[3] = decide(first, "APPROVE", Past) /\ s[4] = time_out(first)
     /\ s[5] = supersede /\ s[6] = submit(second) /\ s[7] = approve(second)
     /\ s[8] = go(second, "TASK_PLANNING")
     /\ s[9] = refused(go(first, "TASK_PLANNING"), {"TerminalState"})
<1>1. PICK s : s = asked_again_flow.script
  OBVIOUS
<1>2. Len(s) = 9
  BY <1>1 DEF asked_again_flow, run_of, approval_expired_then_resubmitted, approval_expired_at
<1>3. /\ s[3] = decide(first, "APPROVE", Past) /\ s[4] = time_out(first)
      /\ s[5] = supersede /\ s[6] = submit(second) /\ s[7] = approve(second)
      /\ s[8] = go(second, "TASK_PLANNING")
      /\ s[9] = refused(go(first, "TASK_PLANNING"), {"TerminalState"})
  BY <1>1 DEF asked_again_flow, run_of, approval_expired_then_resubmitted, approval_expired_at
<1>4. QED BY <1>1, <1>2, <1>3

\* The job's last verdict so far is an APPROVE with this deadline.
LastApproves(j, expires) ==
  /\ decisions[j] # <<>>
  /\ Last(decisions[j]).decision = "APPROVE" /\ Last(decisions[j]).expires_at = expires

\* The flow that asks again: the first approval had lapsed when it was given,
\* and the replacement's has no deadline.
AskedAgain ==
  flow.name = "asked_again" =>
    /\ pc > 3 => LastApproves(first, Past)
    /\ pc > 7 => LastApproves(second, NONE)

\* Each of the nine calls leaves the approvals as the flow has them.
LEMMA AskedAgainSoFar == FlowsSpec => []AskedAgain
<1>1. FlowsInit => AskedAgain
  BY DEF FlowsInit, AskedAgain
<1>2. ASSUME FlowTyped, AskedAgain, [FlowsNext]_flow_vars PROVE AskedAgain'
  <2>1. CASE UNCHANGED <<approval, decisions, history>> /\ UNCHANGED <<flow, pc>>
    BY <1>2, <2>1 DEF AskedAgain, LastApproves
  <2>2. CASE pc \in DOMAIN flow.script /\ pc' = pc + 1 /\ flow' = flow
    <3> SUFFICES ASSUME flow.name = "asked_again"
                 PROVE  /\ pc + 1 > 3 => LastApproves(first, Past)'
                        /\ pc + 1 > 7 => LastApproves(second, NONE)'
      BY <2>2 DEF AskedAgain
    <3>1. PICK c, s : c = flow.script[pc] /\ s = flow.script
      OBVIOUS
    <3>2. flow = asked_again_flow
      BY <1>2, FlowsAreKnown DEF FlowTyped, Known_flow
    <3>3. /\ Len(s) = 9
          /\ s[3] = decide(first, "APPROVE", Past) /\ s[4] = time_out(first)
          /\ s[5] = supersede /\ s[6] = submit(second) /\ s[7] = approve(second)
          /\ s[8] = go(second, "TASK_PLANNING")
          /\ s[9] = refused(go(first, "TASK_PLANNING"), {"TerminalState"})
      BY <3>1, <3>2, AskedAgainScript
    <3>4. pc \in 1 .. 9
      <4>1. pc \in 1 .. Len(flow.script) + 1 /\ pc \in DOMAIN flow.script
        BY <1>2, <2>2 DEF FlowTyped
      <4>2. DOMAIN flow.script = 1 .. Len(flow.script)
        BY <1>2, ScriptOfCalls DEF FlowTyped
      <4>3. QED BY <3>1, <3>3, <4>1, <4>2
    <3>5. /\ pc > 3 => LastApproves(first, Past)
          /\ pc > 7 => LastApproves(second, NONE)
      BY <1>2 DEF AskedAgain
    <3>6. first # second /\ first \in Jobs /\ second \in Jobs /\ TypeOK
      BY <1>2, FlowsAssumption DEF FlowTyped
    <3>7. CASE c.call \notin moving /\ UNCHANGED <<approval, decisions, history>>
      <4>1. pc # 3 /\ pc # 7
        BY <3>1, <3>3, <3>7 DEF decide, approve, moving
      <4>2. QED BY <3>4, <3>5, <3>7, <4>1 DEF LastApproves
    <3>8. CASE /\ c.call \in moving /\ c.on \in {first, second}
               /\ \E to \in JobState, record \in Decision \union {NONE}, at \in Nat :
                    Makes(c, to, record, at)
      <4>1. PICK to \in JobState, record \in Decision \union {NONE}, at \in Nat :
              Makes(c, to, record, at)
        BY <3>8
      <4>2. /\ \A k \in Jobs \ {c.on} : decisions'[k] = decisions[k]
            /\ decisions'[c.on] = IF record = NONE THEN decisions[c.on]
                                  ELSE Append(decisions[c.on], record)
        <5>1. c.on \in Jobs
          BY <3>6, <3>8
        <5>2. \A k \in Jobs \ {c.on} : decisions'[k] = decisions[k]
          BY <3>6, <4>1, <5>1, MakesWrites
        <5>3. decisions'[c.on] = IF record = NONE THEN decisions[c.on]
                                 ELSE Append(decisions[c.on], record)
          BY <3>6, <4>1, <5>1 DEF Makes, Moving, move, TypeOK
        <5>4. QED BY <5>2, <5>3
      <4>3. ASSUME NEW e, c = decide(c.on, "APPROVE", e) PROVE LastApproves(c.on, e)'
        <5>1. c.call = "decide" /\ c.verdict = "APPROVE" /\ c.expires = e
          BY <4>3 DEF decide
        <5>2. record # NONE /\ record.decision = "APPROVE" /\ record.expires_at = e
          BY <4>1, <5>1 DEF Makes, minted
        <5>3. PICK old, given : old = decisions[c.on] /\ given = Append(old, record)
          OBVIOUS
        <5>4. old \in Seq(Decision) /\ record \in Decision
          BY <3>6, <3>8, <5>2, <5>3 DEF TypeOK
        <5>5. given # <<>> /\ Last(given) = record
          BY <5>3, <5>4 DEF Last
        <5>6. decisions'[c.on] = given
          BY <4>2, <5>2, <5>3
        <5>7. QED BY <5>2, <5>5, <5>6 DEF LastApproves
      <4>4. ASSUME NEW j \in Jobs, NEW e, LastApproves(j, e),
                   c.on # j \/ (c.call = "transition" /\ c.to \in {"TIMED_OUT", "TASK_PLANNING"})
            PROVE  LastApproves(j, e)'
        <5>1. decisions'[j] = decisions[j]
          <6>1. CASE c.on # j
            BY <4>2, <6>1
          <6>2. CASE c.on = j /\ c.call = "transition" /\ c.to \in {"TIMED_OUT", "TASK_PLANNING"}
            <7>1. to \in {"TIMED_OUT", "TASK_PLANNING"}
              BY <4>1, <6>2 DEF Makes
            <7>2. record = NONE
              BY <3>6, <3>8, <4>1, <7>1, VerdictEdges DEF Makes, Moving, TypeOK
            <7>3. QED BY <4>2, <6>2, <7>2
          <6>3. QED BY <4>4, <6>1, <6>2
        <5>2. QED BY <4>4, <5>1 DEF LastApproves
      <4> DEFINE quiet(j) == c.on # j \/ (c.call = "transition" /\ c.to \in {"TIMED_OUT", "TASK_PLANNING"})
      <4>5. /\ pc > 3 /\ quiet(first) => LastApproves(first, Past)'
            /\ pc > 7 /\ quiet(second) => LastApproves(second, NONE)'
        BY <3>5, <3>6, <4>4
      <4>6. CASE pc < 3
        BY <4>6, <3>4
      <4>7. CASE pc = 3
        <5>1. c = decide(first, "APPROVE", Past) /\ c.on = first
          BY <3>1, <3>3, <4>7 DEF decide
        <5>2. LastApproves(c.on, Past)'
          BY <4>3, <5>1
        <5>3. QED BY <4>7, <5>1, <5>2 DEF LastApproves
      <4>8. CASE pc = 4
        <5>1. c.call = "transition" /\ c.to = "TIMED_OUT"
          BY <3>1, <3>3, <4>8 DEF time_out, move_to
        <5>2. QED BY <4>8, <4>5, <5>1
      <4>9. CASE pc = 6
        <5>1. c.on = second
          BY <3>1, <3>3, <4>9 DEF submit, move_to
        <5>2. QED BY <3>6, <4>9, <4>5, <5>1
      <4>10. CASE pc = 7
        <5>1. c = decide(second, "APPROVE", NONE) /\ c.on = second
          BY <3>1, <3>3, <4>10 DEF decide, approve
        <5>2. LastApproves(c.on, NONE)'
          BY <4>3, <5>1
        <5>3. LastApproves(second, NONE)'
          BY <5>1, <5>2 DEF LastApproves
        <5>4. QED BY <3>6, <4>10, <4>5, <5>1, <5>3
      <4>11. CASE pc = 8
        <5>1. c.on = second /\ c.call = "transition" /\ c.to = "TASK_PLANNING"
          BY <3>1, <3>3, <4>11 DEF go, move_to
        <5>2. QED BY <3>6, <4>11, <4>5, <5>1
      <4>12. pc # 5 /\ pc # 9
        BY <3>1, <3>3, <3>8 DEF supersede, refused, moving
      <4>13. QED BY <3>4, <4>6, <4>7, <4>8, <4>9, <4>10, <4>11, <4>12
    <3>9. pc' # pc
      BY <1>2, <2>2 DEF FlowTyped
    <3>10. QED BY <1>2, <3>1, <3>7, <3>8, <3>9, FlowSteps
  <2>3. QED BY <1>2, <2>1, <2>2, FlowSteps
<1>3. QED BY <1>1, <1>2, FlowKeepsTypes, PTL DEF FlowsSpec

\* Wherever the clock stands from call to call, a flow that is over has taken its
\* job along the route the simulation expects; each verdict on it answers the one
\* before and the last, if an APPROVE, is the one it runs under; no decision is
\* shared between two jobs; and the job asked for again does not run under the
\* approval that lapsed.
THEOREM RoutesAreWalked == FlowsSpec => []RouteWalked
<1>1. ASSUME FlowTyped, OnRoute, VerdictsInTurn, AskedAgain PROVE RouteWalked
  <2> SUFFICES ASSUME over
               PROVE  /\ IsSuffix(flow.ends, visited(flow.of))
                      /\ \A j \in Jobs :
                           LET given == decisions[j]
                           IN /\ \A n \in 2 .. Len(given) :
                                   given[n].supersedes_decision_id = given[n - 1].decision_id
                              /\ approval[j] =
                                   IF given # <<>> /\ Last(given).decision = "APPROVE"
                                   THEN Last(given) ELSE NONE
                      /\ constructed(first) /\ constructed(second) =>
                           known_decisions(first) \intersect known_decisions(second) = {}
                      /\ flow.name = "asked_again" =>
                           approval_expired(first) /\ approval[second].expires_at = NONE
    BY DEF RouteWalked
  <2>1. IsSuffix(flow.ends, visited(flow.of))
    <3>1. Charted(flow)
      BY <1>1, FlowsAreKnown DEF FlowTyped, Known_flow
    <3>2. PICK path, stops :
            /\ Charts(flow.script, flow.of, path, stops)
            /\ stops[Len(stops)] = Len(path) /\ Ends(flow.ends, path)
      BY <3>1 DEF Charted
    <3>3. flow.of \in {first, second} /\ flow.ends \in Seq(JobState)
      BY <3>1 DEF Charted
    <3>4. path \in Seq(JobState) /\ visited(flow.of) = path
      BY <1>1, <3>2, <3>3, WholePathWalked
    <3>5. QED BY <3>2, <3>3, <3>4, EndsIsSuffix
  <2>2. \A j \in Jobs :
          LET given == decisions[j]
          IN /\ \A n \in 2 .. Len(given) :
                  given[n].supersedes_decision_id = given[n - 1].decision_id
             /\ approval[j] = IF given # <<>> /\ Last(given).decision = "APPROVE"
                              THEN Last(given) ELSE NONE
    BY <1>1 DEF VerdictsInTurn, InTurn
  <2>3. known_decisions(first) \intersect known_decisions(second) = {}
    <3>1. ASSUME NEW j \in Jobs, NEW id \in known_decisions(j) PROVE id[1] = j
      BY <1>1 DEF VerdictsInTurn, InTurn, known_decisions, Range
    <3>2. QED BY <3>1, FlowsAssumption
  <2>4. flow.name = "asked_again" =>
          approval_expired(first) /\ approval[second].expires_at = NONE
    <3> SUFFICES ASSUME flow.name = "asked_again"
                 PROVE  approval_expired(first) /\ approval[second].expires_at = NONE
      OBVIOUS
    <3>1. flow = asked_again_flow
      BY <1>1, FlowsAreKnown DEF FlowTyped, Known_flow
    <3>2. pc > 9
      BY <1>1, <3>1, AskedAgainScript DEF FlowTyped, over
    <3>3. LastApproves(first, Past) /\ LastApproves(second, NONE)
      BY <1>1, <3>2 DEF AskedAgain, FlowTyped
    <3>4. ASSUME NEW j \in Jobs, NEW e, LastApproves(j, e)
          PROVE  approval[j] # NONE /\ approval[j].expires_at = e
      <4>1. approval[j] = Last(decisions[j]) /\ decisions[j] # <<>>
        BY <1>1, <3>4 DEF VerdictsInTurn, InTurn, LastApproves
      <4>2. decisions[j] \in Seq(Decision)
        BY <1>1 DEF FlowTyped, TypeOK
      <4>3. Last(decisions[j]) \in Decision
        BY <4>1, <4>2 DEF Last
      <4>4. QED BY <3>4, <4>1, <4>3, JobAssumption DEF LastApproves
    <3>5. /\ approval[first] # NONE /\ approval[first].expires_at = Past
          /\ approval[second].expires_at = NONE
      BY <3>3, <3>4, FlowsAssumption
    <3>6. Past # NONE /\ now >= Past
      BY <1>1, FlowsAssumption, JobAssumption DEF FlowTyped, TypeOK
    <3>7. QED BY <3>5, <3>6 DEF approval_expired, is_expired
  <2>5. QED BY <2>1, <2>2, <2>3, <2>4
<1>2. QED
  BY <1>1, FlowKeepsTypes, RoutesAreKept, VerdictsComeInTurn, AskedAgainSoFar, PTL

-----------------------------------------------------------------------------
(* What the log gives back.                                                *)

\* The jobs of a flow are of one tenant, and no two of them have one id.
OneScope ==
  /\ \A j \in Jobs : constructed(j) => tenant(j) = TENANT
  /\ \A j, k \in Jobs :
       constructed(j) /\ constructed(k) /\ j # k => ident[j].job_id # ident[k].job_id

\* One job more, under an id nobody has.
LEMMA OneJobMore ==
  ASSUME TypeOK, OneScope, NEW new_one \in Jobs, NEW identity,
         ident' = [ident EXCEPT ![new_one] = identity], identity.tenant_id = TENANT,
         \A j \in Jobs : constructed(j) => ident[j].job_id # identity.job_id
  PROVE  OneScope'
<1>1. ident'[new_one] = identity /\ \A j \in Jobs \ {new_one} : ident'[j] = ident[j]
  BY DEF TypeOK
<1>2. ASSUME NEW j \in Jobs, constructed(j)' PROVE tenant(j)' = TENANT
  BY <1>1, <1>2 DEF OneScope, constructed, tenant
<1>3. ASSUME NEW j \in Jobs, NEW k \in Jobs, constructed(j)', constructed(k)', j # k
      PROVE  ident'[j].job_id # ident'[k].job_id
  BY <1>1, <1>3 DEF OneScope, constructed
<1>4. QED BY <1>2, <1>3 DEF OneScope

\* The identities of a flow's jobs, call by call.
LEMMA AcceptedKeepsScope ==
  ASSUME TypeOK, OneScope, NEW c, NEW dated, IsCall(c, dated) \/ c.call = "force", Accepted(c)
  PROVE  OneScope'
<1> USE FlowsAssumption
<1>1. CASE c.call = "new"
  <2>1. c.on \in Jobs
    BY <1>1 DEF IsCall
  <2>2. PICK id \in Ids :
          /\ \A j \in Jobs : constructed(j) => ident[j].job_id # id
          /\ construct(c.on, id, TENANT, WORKSPACE, owner, NONE)
    BY <1>1 DEF Accepted
  <2>3. PICK identity :
          identity = [job_id |-> id, tenant_id |-> TENANT, workspace_id |-> WORKSPACE,
                      principal |-> owner, supersedes_job_id |-> NONE]
    OBVIOUS
  <2>4. ident' = [ident EXCEPT ![c.on] = identity]
    BY <2>2, <2>3 DEF construct
  <2>5. identity.tenant_id = TENANT /\ identity.job_id = id
    BY <2>3
  <2>6. PICK j : j = c.on
    OBVIOUS
  <2>7. j \in Jobs /\ ident' = [ident EXCEPT ![j] = identity]
    BY <2>1, <2>4, <2>6
  <2>8. QED BY <2>2, <2>5, <2>7, OneJobMore
<1>2. CASE c.call = "supersede"
  <2>1. /\ c.on = first /\ Supersede(first, second)
        /\ \A j \in Jobs : constructed(j) => ident[j].job_id # ident'[second].job_id
    BY <1>2 DEF Accepted, IsCall
  <2>2. PICK id \in Ids, principal \in Principals \union {NONE} :
          construct(second, id, ident[first].tenant_id, ident[first].workspace_id,
                    IF principal = NONE THEN ident[first].principal ELSE principal,
                    ident[first].job_id)
    BY <2>1 DEF Supersede
  <2>3. PICK identity :
          identity = [job_id |-> id, tenant_id |-> ident[first].tenant_id,
                      workspace_id |-> ident[first].workspace_id,
                      principal |-> IF principal = NONE THEN ident[first].principal
                                    ELSE principal,
                      supersedes_job_id |-> ident[first].job_id]
    OBVIOUS
  <2>4. ident' = [ident EXCEPT ![second] = identity]
    BY <2>2, <2>3 DEF construct
  <2>5. identity.tenant_id = ident[first].tenant_id
    BY <2>3
  <2>6. ident[first].tenant_id = TENANT
    BY <2>1 DEF Supersede, OneScope, tenant
  <2>7. ident'[second] = identity
    BY <2>4 DEF TypeOK
  <2>8. QED BY <2>1, <2>4, <2>5, <2>6, <2>7, OneJobMore
<1>3. CASE c.call \notin {"new", "supersede"}
  <2>1. ident' = ident
    BY <1>3 DEF Accepted, transition, move
  <2>2. QED BY <2>1 DEF OneScope, constructed, tenant
<1>4. QED BY <1>1, <1>2, <1>3

\* Every job of a flow is made in the one scope, under a name of its own.
LEMMA ScopeIsOne == FlowsSpec => []OneScope
<1>1. FlowsInit => OneScope
  BY DEF FlowsInit, LedgerInit, Init, OneScope, constructed
<1>2. ASSUME FlowTyped, OneScope, [FlowsNext]_flow_vars PROVE OneScope'
  <2>1. CASE UNCHANGED vars
    BY <1>2, <2>1 DEF OneScope, constructed, tenant, vars
  <2>2. CASE Step
    <3>1. ~over /\ Call(flow.script[pc])
      BY <2>2 DEF Step
    <3>2. \/ \E dated \in SUBSET {first} : IsCall(flow.script[pc], dated)
          \/ flow.name = "forced" /\ flow.script[pc] = force(first, "APPROVED")
      BY <1>2, <3>1, NextCall
    <3>3. PICK c : c = flow.script[pc]
      OBVIOUS
    <3>4. (\E dated : IsCall(c, dated)) \/ c.call = "force"
      BY <3>2, <3>3 DEF force
    <3>5. Accepted(c) \/ UNCHANGED vars
      BY <3>1, <3>3 DEF Call
    <3>6. QED BY <1>2, <2>1, <3>4, <3>5, AcceptedKeepsScope DEF FlowTyped
  <2>3. CASE File \/ UNCHANGED flow_vars
    BY <2>1, <2>3 DEF File, FileAll, flow_vars, ledger_vars
  <2>4. QED BY <1>2, <2>2, <2>3 DEF FlowsNext
<1>3. QED BY <1>1, <1>2, FlowKeepsTypes, PTL DEF FlowsSpec

\* A job whose approval may lapse never went into execution.
NoDateAtWork ==
  \A dated \in SUBSET {first} : Calls(flow.script, dated) =>
    /\ \A j \in dated : \A n \in DOMAIN history[j] : history[j][n].to \notin POST_APPROVAL
    /\ \A j \in Jobs \ dated : approval[j] # NONE => approval[j].expires_at = NONE

\* No call takes a job with a dated approval into execution.
LEMMA NoDateSoFar == FlowsSpec => []NoDateAtWork
<1>1. ASSUME FlowsInit PROVE NoDateAtWork
  <2>1. \A j \in Jobs : history[j] = <<>> /\ approval[j] = NONE
    BY <1>1 DEF FlowsInit, LedgerInit, Init
  <2>2. QED BY <2>1, FlowsAssumption DEF NoDateAtWork
<1>2. ASSUME FlowTyped, NoDateAtWork, [FlowsNext]_flow_vars PROVE NoDateAtWork'
  <2>1. CASE UNCHANGED <<approval, decisions, history>> /\ flow' = flow
    BY <1>2, <2>1 DEF NoDateAtWork
  <2>2. CASE /\ pc \in DOMAIN flow.script /\ flow' = flow
             /\ flow.script[pc].on \in {first, second} /\ flow.script[pc].call \in moving
             /\ \E to \in JobState, record \in Decision \union {NONE}, at \in Nat :
                  Makes(flow.script[pc], to, record, at)
    <3> SUFFICES ASSUME NEW dated \in SUBSET {first}, Calls(flow.script, dated)
                 PROVE  /\ \A j \in dated : \A n \in DOMAIN history'[j] :
                             history'[j][n].to \notin POST_APPROVAL
                        /\ \A j \in Jobs \ dated :
                             approval'[j] # NONE => approval'[j].expires_at = NONE
      BY <2>2 DEF NoDateAtWork
    <3>1. PICK c : c = flow.script[pc]
      OBVIOUS
    <3>2. PICK to \in JobState, record \in Decision \union {NONE}, at \in Nat :
            Makes(c, to, record, at)
      BY <2>2, <3>1
    <3>3. c.on \in Jobs /\ TypeOK /\ dated \subseteq Jobs
      BY <1>2, <2>2, <3>1, FlowsAssumption DEF FlowTyped
    <3>4. IsCall(c, dated) /\ c.call \in moving
      BY <2>2, <3>1 DEF Calls
    <3>5. /\ \A j \in dated : \A n \in DOMAIN history[j] : history[j][n].to \notin POST_APPROVAL
          /\ \A j \in Jobs \ dated : approval[j] # NONE => approval[j].expires_at = NONE
      BY <1>2 DEF NoDateAtWork
    <3>6. \A k \in Jobs \ {c.on} : history'[k] = history[k] /\ approval'[k] = approval[k]
      BY <3>2, <3>3, MakesWrites
    <3>7. CASE c.on \in dated
      <4>1. to \notin POST_APPROVAL
        BY <3>2, <3>4, <3>7 DEF IsCall, Makes, moving, DECISION_TARGET, DecisionType, POST_APPROVAL
      <4>2. PICK old, h : old = history[c.on] /\ h = history'[c.on]
        OBVIOUS
      <4>3. Moved
        BY <3>2, <3>3 DEF Moved, Makes
      <4>4. TypeOK'
        BY <3>3, <4>3, MovedType
      <4>5. /\ old \in Seq(TransitionRecord) /\ h \in Seq(TransitionRecord)
        BY <3>3, <4>2, <4>4 DEF TypeOK
      <4>6. /\ Len(h) = Len(old) + 1 /\ (\A n \in 1 .. Len(old) : h[n] = old[n])
            /\ h[Len(old) + 1].to = to
        BY <3>2, <3>3, <4>2, MakesWrites
      <4>7. ASSUME NEW n \in DOMAIN h PROVE h[n].to \notin POST_APPROVAL
        <5>1. n \in 1 .. Len(old) \/ n = Len(old) + 1
          BY <4>5, <4>6
        <5>2. CASE n \in 1 .. Len(old)
          <6>1. n \in DOMAIN old
            BY <4>5, <5>2
          <6>2. QED BY <3>5, <3>7, <4>2, <4>6, <5>2, <6>1
        <5>3. CASE n = Len(old) + 1
          BY <4>1, <4>6, <5>3
        <5>4. QED BY <5>1, <5>2, <5>3
      <4>8. QED BY <3>3, <3>5, <3>6, <3>7, <4>2, <4>7
    <3>8. CASE c.on \notin dated
      <4>1. approval'[c.on] = IF record = NONE THEN approval[c.on]
                              ELSE IF record.decision = "APPROVE" THEN record ELSE NONE
        BY <3>2, <3>3, MakesWrites
      <4>2. record # NONE => record.expires_at = NONE
        <5>1. c.call = "decide" => c.expires = NONE
          BY <3>4, <3>8 DEF IsCall, moving
        <5>2. QED BY <3>2, <5>1 DEF Makes, minted
      <4>3. QED BY <3>3, <3>5, <3>6, <3>8, <4>1, <4>2
    <3>9. QED BY <3>7, <3>8
  <2>3. QED BY <1>2, <2>1, <2>2, FlowSteps
<1>3. QED BY <1>1, <1>2, FlowKeepsTypes, PTL DEF FlowsSpec

\* The states a job and its reading went through are the same.
LEMMA SamePassage ==
  ASSUME NEW j, NEW r, Agrees(j, r)
  PROVE  {h.to : h \in Range(r.history)} = {history[j][i].to : i \in DOMAIN history[j]}
<1>1. PICK g, h : g = r.history /\ h = history[j]
  OBVIOUS
<1>2. g = [i \in DOMAIN h |-> [from |-> h[i].from, to |-> h[i].to, at |-> h[i].at,
                               decision_id |-> h[i].decision_id]]
  BY <1>1 DEF Agrees
<1>3. DOMAIN g = DOMAIN h /\ \A i \in DOMAIN h : g[i].to = h[i].to
  BY <1>2
<1>4. {x.to : x \in Range(g)} = {h[i].to : i \in DOMAIN h}
  BY <1>3 DEF Range
<1>5. QED BY <1>1, <1>4

\* What the two jobs of a flow look like once it took them along paths of their
\* own: there is no telling them apart by where they stand.
LEMMA WhereItEnds ==
  ASSUME FlowTyped, OnRoute, over, LedgerInv, NEW j \in {first, second}, NEW path, NEW stops,
         Charts(flow.script, j, path, stops), stops[Len(stops)] = Len(path), Len(path) > 1
  PROVE  /\ constructed(j) /\ state[j] = path[Len(path)]
         /\ {history[j][i].to : i \in DOMAIN history[j]} = {path[n] : n \in 2 .. Len(path)}
<1>1. PICK h : h = history[j]
  OBVIOUS
<1>2. j \in Jobs /\ TypeOK /\ TrailExplainsState /\ BlankUntilConstructed
  BY FlowsAssumption DEF LedgerInv, StoryInv, TrailInv, LockInv, ExplainInv
<1>3. h \in Seq(TransitionRecord) /\ Len(h) \in Nat /\ DOMAIN h = 1 .. Len(h)
  BY <1>1, <1>2 DEF TypeOK
<1>4. /\ Len(h) + 1 = Len(path)
      /\ \A n \in DOMAIN h : h[n].to = path[n + 1]
  BY <1>1, WholePathWalked
<1>5. Len(h) > 0 /\ h # <<>> /\ Last(h) = h[Len(h)]
  BY <1>3, <1>4 DEF Last
<1>6. state[j] = Last(h).to
  BY <1>1, <1>2, <1>5 DEF TrailExplainsState
<1>7. constructed(j)
  BY <1>1, <1>2, <1>5 DEF BlankUntilConstructed
<1>8. Len(h) \in DOMAIN h
  BY <1>3, <1>5
<1>9. state[j] = path[Len(path)]
  BY <1>4, <1>5, <1>6, <1>8
<1>10. ASSUME NEW n \in 2 .. Len(path) PROVE \E i \in DOMAIN h : h[i].to = path[n]
  <2>1. n - 1 \in DOMAIN h /\ (n - 1) + 1 = n
    BY <1>3, <1>4
  <2>2. QED BY <1>4, <2>1
<1>11. ASSUME NEW i \in DOMAIN h PROVE \E n \in 2 .. Len(path) : h[i].to = path[n]
  <2>1. i + 1 \in 2 .. Len(path)
    BY <1>3, <1>4
  <2>2. QED BY <1>4, <2>1
<1>12. {h[i].to : i \in DOMAIN h} = {path[n] : n \in 2 .. Len(path)}
  BY <1>10, <1>11
<1>13. QED BY <1>1, <1>7, <1>9, <1>12

\* A job that a flow filed is read back as it stands: nobody shares its name, and
\* its deadline, if it has one, is behind no move into execution.
LEMMA FiledReadsBack ==
  ASSUME FlowTyped, ~Forced, EveryJobReads, OneScope, NoDateAtWork,
         NEW j \in Jobs, constructed(j), Whole(j)
  PROVE  Agrees(j, replay_tenant(TENANT)[ident[j].job_id])
<1>1. tenant(j) = TENANT /\ Named(j)
  BY DEF OneScope, Named
<1>2. ~StampedLate(j)
  <2>1. PICK dated \in SUBSET {first} : Calls(flow.script, dated)
    BY FlowsAreKnown DEF FlowTyped, Known_flow, Forced
  <2>2. CASE j \in dated
    BY <2>1, <2>2 DEF NoDateAtWork, StampedLate
  <2>3. CASE j \notin dated
    BY <2>1, <2>3 DEF NoDateAtWork, StampedLate
  <2>4. QED BY <2>2, <2>3
<1>3. PICK r : r = replay_tenant(TENANT)[ident[j].job_id]
  OBVIOUS
<1>4. Agrees(j, r)
  <2>1. r = replay_tenant(tenant(j))[ident[j].job_id]
    BY Zenon, <1>1, <1>3
  <2>2. LET x == replay_tenant(tenant(j))[ident[j].job_id]
        IN IF StampedLate(j) THEN x.refused = "ExecutionAfterExpiry" ELSE Agrees(j, x)
    BY Zenon, <1>1 DEF EveryJobReads
  <2>3. QED BY Zenon, <1>2, <2>1, <2>2
<1>5. QED BY Zenon, <1>3, <1>4

\* Wherever the clock stands from call to call, the log alone gives back every job
\* of a flow that kept to the engine's methods, and tells the job that was sent
\* back for changes from the one that was rejected, though both end in one state.
THEOREM FlowsReadBack == FlowsSpec => []ReadBack
<1>1. ASSUME FlowTyped, OnRoute, OneScope, NoDateAtWork, ~Forced => LedgerInv /\ EveryJobReads
      PROVE  ReadBack
  <2> DEFINE seen == replay_tenant(TENANT)
             passed(r) == {h.to : h \in Range(r.history)}
  <2>1. SUFFICES ASSUME all_filed, flow.name # "forced"
        PROVE /\ \A j \in Jobs : constructed(j) => Agrees(j, seen[ident[j].job_id])
              /\ flow.name = "told_apart" =>
                   /\ seen[ident[first].job_id].state = seen[ident[second].job_id].state
                   /\ "REJECTED" \notin passed(seen[ident[first].job_id])
                   /\ "REJECTED" \in passed(seen[ident[second].job_id])
    BY Zenon DEF ReadBack
  <2>2. /\ over /\ ~Forced /\ LedgerInv /\ EveryJobReads
        /\ \A j \in Jobs : constructed(j) => Whole(j)
    BY <1>1, <2>1 DEF all_filed, Forced
  <2>3. \A j \in Jobs : constructed(j) => Agrees(j, seen[ident[j].job_id])
    BY <1>1, <2>2, FiledReadsBack
  <2> HIDE DEF seen
  <2>4. ASSUME flow.name = "told_apart"
        PROVE  /\ seen[ident[first].job_id].state = seen[ident[second].job_id].state
               /\ "REJECTED" \notin passed(seen[ident[first].job_id])
               /\ "REJECTED" \in passed(seen[ident[second].job_id])
    <3>1. flow = told_apart_flow
      BY <1>1, <2>4, FlowsAreKnown DEF FlowTyped, Known_flow
    <3>2. PICK path, stops :
            /\ Charts(flow.script, first, path, stops) /\ stops[Len(stops)] = Len(path)
            /\ path = <<"DRAFT", "GOVERNANCE_ANALYSIS", "DRAFT", "GOVERNANCE_ANALYSIS",
                        "APPROVED", "TASK_PLANNING">>
      BY <3>1, ToldApartCharted DEF told_apart_flow
    <3>3. PICK path2, stops2 :
            /\ Charts(flow.script, second, path2, stops2) /\ stops2[Len(stops2)] = Len(path2)
            /\ path2 = <<"DRAFT", "GOVERNANCE_ANALYSIS", "REJECTED", "DRAFT",
                         "GOVERNANCE_ANALYSIS", "APPROVED", "TASK_PLANNING">>
      <4>1. flow.script = <<new(first)>> \o (require_changes_then_resubmitted(first)
                \o <<new(second)>> \o rejected_then_resubmitted(second))
        BY <3>1 DEF told_apart_flow, run_of
      <4>2. QED BY Zenon, <4>1, ToldApartBesideCharted
    <3>4. /\ Len(path) = 6 /\ path[6] = "TASK_PLANNING"
          /\ \A n \in 2 .. 6 : path[n] # "REJECTED"
      BY <3>2
    <3>5. Len(path2) = 7 /\ path2[7] = "TASK_PLANNING" /\ path2[3] = "REJECTED"
      BY <3>3
    <3>6. /\ constructed(first) /\ state[first] = "TASK_PLANNING"
          /\ {history[first][i].to : i \in DOMAIN history[first]} = {path[n] : n \in 2 .. 6}
      <4>1. /\ constructed(first) /\ state[first] = path[Len(path)]
            /\ {history[first][i].to : i \in DOMAIN history[first]}
                 = {path[n] : n \in 2 .. Len(path)}
        <5>1. Len(path) > 1 /\ first \in {first, second}
          BY <3>4
        <5>2. Charts(flow.script, first, path, stops) /\ stops[Len(stops)] = Len(path)
          BY <3>2
        <5>3. FlowTyped /\ OnRoute /\ over /\ LedgerInv
          BY <1>1, <2>2
        <5>4. QED BY Zenon, <5>1, <5>2, <5>3, WhereItEnds
      <4>2. QED BY <3>4, <4>1
    <3>7. /\ constructed(second) /\ state[second] = "TASK_PLANNING"
          /\ {history[second][i].to : i \in DOMAIN history[second]} = {path2[n] : n \in 2 .. 7}
      <4>1. /\ constructed(second) /\ state[second] = path2[Len(path2)]
            /\ {history[second][i].to : i \in DOMAIN history[second]}
                 = {path2[n] : n \in 2 .. Len(path2)}
        <5>1. Len(path2) > 1 /\ second \in {first, second}
          BY <3>5
        <5>2. Charts(flow.script, second, path2, stops2) /\ stops2[Len(stops2)] = Len(path2)
          BY <3>3
        <5>3. FlowTyped /\ OnRoute /\ over /\ LedgerInv
          BY <1>1, <2>2
        <5>4. QED BY Zenon, <5>1, <5>2, <5>3, WhereItEnds
      <4>2. QED BY <3>5, <4>1
    <3>8. PICK r, r2 : r = seen[ident[first].job_id] /\ r2 = seen[ident[second].job_id]
      OBVIOUS
    <3>9. Agrees(first, r) /\ Agrees(second, r2)
      BY <2>3, <3>6, <3>7, <3>8, FlowsAssumption
    <3>10. r.state = r2.state
      BY <3>6, <3>7, <3>9 DEF Agrees
    <3>11. passed(r) = {path[n] : n \in 2 .. 6} /\ passed(r2) = {path2[n] : n \in 2 .. 7}
      BY <3>6, <3>7, <3>9, SamePassage
    <3>12. "REJECTED" \notin passed(r)
      BY <3>4, <3>11
    <3>13. "REJECTED" \in passed(r2)
      BY <3>5, <3>11
    <3>14. QED BY <3>8, <3>10, <3>12, <3>13
  <2>5. QED BY Zenon, <2>3, <2>4
<1>2. QED
  BY <1>1, FlowKeepsTypes, RoutesAreKept, ScopeIsOne, NoDateSoFar, LedgerInFlows, PTL

=============================================================================
