-------------------------------- MODULE Gate --------------------------------
(***************************************************************************)
(* What the engine promises of approval, with everything else left out     *)
(* (packages/core/state-machine.md: execution is locked until a job is     *)
(* approved).  A job waits, works and ends.  It is judged while it waits   *)
(* and nobody has approved it; an APPROVE is its licence, the only one it  *)
(* ever gets; it begins to work with the licence in hand, keeps it, and    *)
(* delivers only what it worked on.  Where it waits and where it works,    *)
(* pauses, deadlines, actors and the trail are the engine's business.      *)
(***************************************************************************)
EXTENDS Sequences, SequencesExt

CONSTANTS NONE, Jobs

VARIABLES
  stage,     \* "absent", "waiting", "working", "delivered" or "stopped"
  licence,   \* the APPROVE in force, NONE when there is none
  verdicts   \* the decisions on record

gate_vars == <<stage, licence, verdicts>>

Init ==
  /\ stage = [j \in Jobs |-> "absent"]
  /\ licence = [j \in Jobs |-> NONE]
  /\ verdicts = [j \in Jobs |-> <<>>]

enters(j, where) == stage' = [stage EXCEPT ![j] = where]

Open(j) ==
  /\ stage[j] = "absent"
  /\ enters(j, "waiting")
  /\ UNCHANGED <<licence, verdicts>>

\* Whatever the verdict is, it is the one now last on record.
Judge(j) ==
  /\ stage[j] = "waiting" /\ licence[j] = NONE
  /\ verdicts'[j] # <<>>
  /\ LET record == Last(verdicts'[j])
     IN /\ verdicts' = [verdicts EXCEPT ![j] = Append(@, record)]
        /\ licence' = [licence EXCEPT ![j] =
                         IF record.decision = "APPROVE" THEN record ELSE NONE]
  /\ UNCHANGED stage

Begin(j) ==
  /\ stage[j] = "waiting" /\ licence[j] # NONE
  /\ enters(j, "working")
  /\ UNCHANGED <<licence, verdicts>>

Deliver(j) ==
  /\ stage[j] = "working"
  /\ enters(j, "delivered")
  /\ UNCHANGED <<licence, verdicts>>

Stop(j) ==
  /\ stage[j] \in {"waiting", "working"}
  /\ enters(j, "stopped")
  /\ UNCHANGED <<licence, verdicts>>

Next ==
  \E j \in Jobs :
    \/ Open(j)
    \/ Judge(j)
    \/ Begin(j)
    \/ Deliver(j)
    \/ Stop(j)

Spec == Init /\ [][Next]_gate_vars

=============================================================================
