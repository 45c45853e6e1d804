---------------------------- MODULE JobLifecycle ----------------------------
(***************************************************************************)
(* What the job queue promises about one (event, processor) job, without   *)
(* tasks, channels or tables: it is queued by routing, run one attempt at  *)
(* a time within a budget, and finished for good unless an operator        *)
(* reopens it.  It also says what the queue does not promise: an attempt   *)
(* whose executor is interrupted leaves its job "stranded", a state with   *)
(* no way out.                                                             *)
(***************************************************************************)
EXTENDS Naturals

CONSTANTS Jobs,     \* the jobs
          Budget    \* the attempts each job may take by itself

VARIABLES life,     \* where each job stands
          tries     \* its attempts since it was queued or reopened

vars == <<life, tries>>

LifeState == {"none", "queued", "running", "waiting", "done", "abandoned",
              "replaying", "parked", "stranded"}
Finished == {"done", "abandoned"}
Ready    == {"queued", "waiting"}

Move(j, to) == life' = [life EXCEPT ![j] = to] /\ UNCHANGED tries

\* Routing or an operator enters jobs that have no row.
Queue(S) ==
  /\ S # {} /\ \A j \in S : life[j] = "none"
  /\ life' = [j \in Jobs |-> IF j \in S THEN "queued" ELSE life[j]]
  /\ UNCHANGED tries

\* The daemon takes a job that is ready and within its budget.  The reply to its
\* claim may be lost, and then nobody runs what has been claimed.
Attempt(j, to) ==
  /\ life[j] \in Ready /\ tries[j] < Budget[j]
  /\ to \in {"running", "stranded"}
  /\ life' = [life EXCEPT ![j] = to]
  /\ tries' = [tries EXCEPT ![j] = @ + 1]

Succeed(j) == life[j] = "running" /\ Move(j, "done")
Retry(j)   == life[j] = "running" /\ tries[j] < Budget[j] /\ Move(j, "waiting")
GiveUp(j)  == life[j] = "running" /\ tries[j] = Budget[j] /\ Move(j, "abandoned")

\* The configuration has stopped routing the event to the processor.
Withdraw(j) == life[j] \in Ready /\ Move(j, "abandoned")

\* An operator runs the job once, whatever became of it, unless it is being run.
Reopen(j, to) ==
  /\ life[j] \notin {"none", "running", "replaying", "stranded"}
  /\ to \in {"replaying", "stranded"}
  /\ life' = [life EXCEPT ![j] = to]
  /\ tries' = [tries EXCEPT ![j] = 1]

ReplayEnds(j) == life[j] = "replaying" /\ \E to \in {"done", "parked"} : Move(j, to)

\* The executor stops, or cannot record how the attempt ended.
Interrupt(j) == life[j] \in {"running", "replaying"} /\ Move(j, "stranded")

\* Retention: finished jobs are deleted.
Forget(S) ==
  /\ S # {} /\ \A j \in S : life[j] \in Finished
  /\ life' = [j \in Jobs |-> IF j \in S THEN "none" ELSE life[j]]
  /\ tries' = [j \in Jobs |-> IF j \in S THEN 0 ELSE tries[j]]

Init == life = [j \in Jobs |-> "none"] /\ tries = [j \in Jobs |-> 0]

Next ==
  \/ \E S \in SUBSET Jobs : Queue(S) \/ Forget(S)
  \/ \E j \in Jobs, to \in LifeState : Attempt(j, to) \/ Reopen(j, to)
  \/ \E j \in Jobs : \/ Succeed(j) \/ Retry(j) \/ GiveUp(j) \/ Withdraw(j)
                     \/ ReplayEnds(j) \/ Interrupt(j)

Spec == Init /\ [][Next]_vars

=============================================================================
