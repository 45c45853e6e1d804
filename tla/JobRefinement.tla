---------------------------- MODULE JobRefinement ----------------------------
(***************************************************************************)
(* The scheduler, the cleanup, the replay processes and the tables they    *)
(* share implement JobLifecycle, each job seen through its row and through *)
(* whoever holds it.                                                       *)
(***************************************************************************)
EXTENDS JobScheduler

HeldByScheduler(j) == SchedulerHolds /\ cur.job = j
HeldByReplay(j)    == \E r \in Replayers : ReplayHolds(r) /\ rcur[r].job = j

LifeOf(j) ==
  CASE jobs[j].status = "none"      -> "none"
    [] jobs[j].status = "pending"   -> "queued"
    [] jobs[j].status = "completed" -> "done"
    [] jobs[j].status = "abandoned" -> "abandoned"
    [] jobs[j].status = "failed"    -> IF jobs[j].retry = "null" THEN "parked" ELSE "waiting"
    [] OTHER -> IF HeldByScheduler(j) THEN "running"
                ELSE IF HeldByReplay(j) THEN "replaying" ELSE "stranded"

\* max_retries counts attempts, and 0 allows one.
AttemptBudget(j) == IF MaxRetries[j[2]] = 0 THEN 1 ELSE MaxRetries[j[2]]

Lifecycle == INSTANCE JobLifecycle
  WITH Jobs   <- Jobs,
       Budget <- [j \in Jobs |-> AttemptBudget(j)],
       life   <- [j \in Jobs |-> LifeOf(j)],
       tries  <- [j \in Jobs |-> jobs[j].attempts]

\* Whatever the tasks interleave, every job goes through the life JobLifecycle gives
\* it: attempts within the budget, one executor, final states left only by replay.
ImplementsLifecycle == Lifecycle!Spec

=============================================================================
