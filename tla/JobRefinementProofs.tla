------------------------ MODULE JobRefinementProofs ------------------------
(***************************************************************************)
(* The proof that the job queue implements JobLifecycle, for every set of  *)
(* events and processors, every configuration and every value of the       *)
(* bounds: the initial states map to the initial state, and each step      *)
(* moves one job, or several new or finished ones, or none.                *)
(***************************************************************************)
EXTENDS JobRefinement, JobSchedulerProofs

-----------------------------------------------------------------------------
(* The mapping. *)

\* Where a job stands, by its row.
LEMMA LifeByRow ==
  ASSUME NEW j \in Jobs
  PROVE  /\ jobs[j].status = "none" => LifeOf(j) = "none"
         /\ jobs[j].status = "pending" => LifeOf(j) = "queued"
         /\ jobs[j].status = "completed" => LifeOf(j) = "done"
         /\ jobs[j].status = "abandoned" => LifeOf(j) = "abandoned"
         /\ jobs[j].status = "failed" => LifeOf(j) = IF jobs[j].retry = "null" THEN "parked" ELSE "waiting"
         /\ jobs[j].status = "in_progress" =>
              LifeOf(j) = IF HeldByScheduler(j) THEN "running"
                          ELSE IF HeldByReplay(j) THEN "replaying" ELSE "stranded"
  BY DEF LifeOf

\* The same in the next state.
LEMMA LifeByNextRow ==
  ASSUME NEW j \in Jobs
  PROVE  /\ jobs'[j].status = "none" => LifeOf(j)' = "none"
         /\ jobs'[j].status = "pending" => LifeOf(j)' = "queued"
         /\ jobs'[j].status = "completed" => LifeOf(j)' = "done"
         /\ jobs'[j].status = "abandoned" => LifeOf(j)' = "abandoned"
         /\ jobs'[j].status = "failed" => LifeOf(j)' = IF jobs'[j].retry = "null" THEN "parked" ELSE "waiting"
         /\ jobs'[j].status = "in_progress" =>
              LifeOf(j)' = IF HeldByScheduler(j)' THEN "running"
                           ELSE IF HeldByReplay(j)' THEN "replaying" ELSE "stranded"
  BY DEF LifeOf

\* A job whose row and holder stay as they are stands where it stood.
SameLife(j) ==
  /\ jobs'[j].status = jobs[j].status /\ jobs'[j].attempts = jobs[j].attempts
  /\ (jobs'[j].retry = "null") <=> (jobs[j].retry = "null")
  /\ HeldByScheduler(j)' <=> HeldByScheduler(j)
  /\ HeldByReplay(j)' <=> HeldByReplay(j)

LEMMA SameLifeStays ==
  ASSUME NEW j \in Jobs, SameLife(j)
  PROVE  LifeOf(j)' = LifeOf(j)
  BY DEF SameLife, LifeOf

\* No job moves.
LEMMA Stutter ==
  ASSUME \A j \in Jobs : SameLife(j)
  PROVE  UNCHANGED Lifecycle!vars
<1>1. \A j \in Jobs : LifeOf(j)' = LifeOf(j) /\ jobs'[j].attempts = jobs[j].attempts
  BY SameLifeStays DEF SameLife
<1>2. [j \in Jobs |-> LifeOf(j)]' = [j \in Jobs |-> LifeOf(j)]
  BY <1>1
<1>3. [j \in Jobs |-> jobs[j].attempts]' = [j \in Jobs |-> jobs[j].attempts]
  BY <1>1
<1> QED
  BY <1>2, <1>3 DEF Lifecycle!vars

\* One job moves, and its count stays.
LEMMA OneMoves ==
  ASSUME NEW k \in Jobs, \A j \in Jobs \ {k} : SameLife(j),
         jobs'[k].attempts = jobs[k].attempts
  PROVE  Lifecycle!Move(k, LifeOf(k)')
<1>1. \A j \in Jobs \ {k} : LifeOf(j)' = LifeOf(j) /\ jobs'[j].attempts = jobs[j].attempts
  BY SameLifeStays DEF SameLife
<1>2. [j \in Jobs |-> LifeOf(j)]' = [[j \in Jobs |-> LifeOf(j)] EXCEPT ![k] = LifeOf(k)']
  BY <1>1
<1>3. [j \in Jobs |-> jobs[j].attempts]' = [j \in Jobs |-> jobs[j].attempts]
  BY <1>1
<1> QED
  BY <1>2, <1>3 DEF Lifecycle!Move

\* One job moves, and its count with it.
LEMMA OneCounts ==
  ASSUME NEW k \in Jobs, \A j \in Jobs \ {k} : SameLife(j)
  PROVE  /\ [j \in Jobs |-> LifeOf(j)]' = [[j \in Jobs |-> LifeOf(j)] EXCEPT ![k] = LifeOf(k)']
         /\ [j \in Jobs |-> jobs[j].attempts]' =
              [[j \in Jobs |-> jobs[j].attempts] EXCEPT ![k] = jobs'[k].attempts]
<1>1. \A j \in Jobs \ {k} : LifeOf(j)' = LifeOf(j) /\ jobs'[j].attempts = jobs[j].attempts
  BY SameLifeStays DEF SameLife
<1> QED
  BY <1>1

\* The moves of one job that JobLifecycle allows without a new attempt.
LEMMA MoveIsStep ==
  ASSUME NEW k \in Jobs, \A j \in Jobs \ {k} : SameLife(j),
         jobs'[k].attempts = jobs[k].attempts,
         \/ LifeOf(k) = "running" /\ LifeOf(k)' = "done"
         \/ LifeOf(k) = "running" /\ LifeOf(k)' = "waiting" /\ jobs[k].attempts < AttemptBudget(k)
         \/ LifeOf(k) = "running" /\ LifeOf(k)' = "abandoned" /\ jobs[k].attempts = AttemptBudget(k)
         \/ LifeOf(k) \in {"queued", "waiting"} /\ LifeOf(k)' = "abandoned"
         \/ LifeOf(k) = "replaying" /\ LifeOf(k)' \in {"done", "parked"}
         \/ LifeOf(k) \in {"running", "replaying"} /\ LifeOf(k)' = "stranded"
  PROVE  Lifecycle!Next
<1>1. Lifecycle!Move(k, LifeOf(k)')
  BY OneMoves
<1>2. /\ [j \in Jobs |-> LifeOf(j)][k] = LifeOf(k)
      /\ [j \in Jobs |-> jobs[j].attempts][k] = jobs[k].attempts
      /\ [j \in Jobs |-> AttemptBudget(j)][k] = AttemptBudget(k)
  OBVIOUS
<1>3. \/ Lifecycle!Succeed(k) \/ Lifecycle!Retry(k) \/ Lifecycle!GiveUp(k)
      \/ Lifecycle!Withdraw(k) \/ Lifecycle!ReplayEnds(k) \/ Lifecycle!Interrupt(k)
  BY <1>1, <1>2
  DEF Lifecycle!Succeed, Lifecycle!Retry, Lifecycle!GiveUp, Lifecycle!Withdraw,
      Lifecycle!ReplayEnds, Lifecycle!Interrupt, Lifecycle!Ready
<1> QED
  BY <1>3 DEF Lifecycle!Next

\* The daemon claims a job; an operator reopens one.
LEMMA ClaimIsStep ==
  ASSUME NEW k \in Jobs, \A j \in Jobs \ {k} : SameLife(j),
         \/ /\ LifeOf(k) \in {"queued", "waiting"} /\ LifeOf(k)' \in {"running", "stranded"}
            /\ jobs[k].attempts < AttemptBudget(k)
            /\ jobs'[k].attempts = jobs[k].attempts + 1
         \/ /\ LifeOf(k) \notin {"none", "running", "replaying", "stranded"}
            /\ LifeOf(k)' \in {"replaying", "stranded"}
            /\ jobs'[k].attempts = 1
  PROVE  Lifecycle!Next
<1>1. /\ [j \in Jobs |-> LifeOf(j)]' = [[j \in Jobs |-> LifeOf(j)] EXCEPT ![k] = LifeOf(k)']
      /\ [j \in Jobs |-> jobs[j].attempts]' =
           [[j \in Jobs |-> jobs[j].attempts] EXCEPT ![k] = jobs'[k].attempts]
  BY OneCounts
<1>2. /\ [j \in Jobs |-> LifeOf(j)][k] = LifeOf(k)
      /\ [j \in Jobs |-> jobs[j].attempts][k] = jobs[k].attempts
      /\ [j \in Jobs |-> AttemptBudget(j)][k] = AttemptBudget(k)
  OBVIOUS
<1>3. PICK to \in {"running", "stranded", "replaying"} : to = LifeOf(k)'
  OBVIOUS
<1>4. Lifecycle!Attempt(k, to) \/ Lifecycle!Reopen(k, to)
  <2>1. CASE /\ LifeOf(k) \in {"queued", "waiting"} /\ LifeOf(k)' \in {"running", "stranded"}
             /\ jobs[k].attempts < AttemptBudget(k)
             /\ jobs'[k].attempts = jobs[k].attempts + 1
    BY <1>1, <1>2, <1>3, <2>1 DEF Lifecycle!Attempt, Lifecycle!Ready
  <2>2. CASE /\ LifeOf(k) \notin {"none", "running", "replaying", "stranded"}
             /\ LifeOf(k)' \in {"replaying", "stranded"}
             /\ jobs'[k].attempts = 1
    BY <1>1, <1>2, <1>3, <2>2 DEF Lifecycle!Reopen
  <2> QED
    BY <2>1, <2>2
<1> QED
  BY <1>3, <1>4 DEF Lifecycle!Next, Lifecycle!LifeState

\* Several jobs are entered, or deleted.
LEMMA BulkIsStep ==
  ASSUME NEW S \in SUBSET Jobs, S # {}, \A j \in Jobs \ S : SameLife(j),
         \/ \A j \in S : /\ LifeOf(j) = "none" /\ LifeOf(j)' = "queued"
                         /\ jobs'[j].attempts = jobs[j].attempts
         \/ \A j \in S : /\ LifeOf(j) \in {"done", "abandoned"} /\ LifeOf(j)' = "none"
                         /\ jobs'[j].attempts = 0
  PROVE  Lifecycle!Next
<1>1. \A j \in Jobs \ S : LifeOf(j)' = LifeOf(j) /\ jobs'[j].attempts = jobs[j].attempts
  BY SameLifeStays DEF SameLife
<1>2. CASE \A j \in S : /\ LifeOf(j) = "none" /\ LifeOf(j)' = "queued"
                        /\ jobs'[j].attempts = jobs[j].attempts
  <2>1. [j \in Jobs |-> LifeOf(j)]' =
          [j \in Jobs |-> IF j \in S THEN "queued" ELSE [k \in Jobs |-> LifeOf(k)][j]]
    BY <1>1, <1>2
  <2>2. [j \in Jobs |-> jobs[j].attempts]' = [j \in Jobs |-> jobs[j].attempts]
    BY <1>1, <1>2
  <2>3. Lifecycle!Queue(S)
    BY <1>2, <2>1, <2>2 DEF Lifecycle!Queue
  <2> QED
    BY <2>3 DEF Lifecycle!Next
<1>3. CASE \A j \in S : /\ LifeOf(j) \in {"done", "abandoned"} /\ LifeOf(j)' = "none"
                        /\ jobs'[j].attempts = 0
  <2>1. [j \in Jobs |-> LifeOf(j)]' =
          [j \in Jobs |-> IF j \in S THEN "none" ELSE [k \in Jobs |-> LifeOf(k)][j]]
    BY <1>1, <1>3
  <2>2. [j \in Jobs |-> jobs[j].attempts]' =
          [j \in Jobs |-> IF j \in S THEN 0 ELSE [k \in Jobs |-> jobs[k].attempts][j]]
    BY <1>1, <1>3
  <2>3. Lifecycle!Forget(S)
    BY <1>3, <2>1, <2>2 DEF Lifecycle!Forget, Lifecycle!Finished
  <2> QED
    BY <2>3 DEF Lifecycle!Next
<1> QED
  BY <1>2, <1>3

-----------------------------------------------------------------------------
(* The invariant of the refinement: QueueInv, and what the counts say.     *)

\* A job without a row has no attempts, a running one has at least one, and a job is
\* given up for having used its whole budget.
CountsInv ==
  /\ \A j \in Jobs : jobs[j].status = "none" => jobs[j].attempts = 0
  /\ SchedulerHolds => jobs[cur.job].attempts >= 1
  /\ pc = "verdict" /\ verdict = "abandoned" => jobs[cur.job].attempts = AttemptBudget(cur.job)

LifeInv == QueueInv /\ CountsInv

\* An update through a handle writes its row and no other.
LEMMA RowWritten ==
  ASSUME TypeOK, NEW h \in Handle, RowIs(h), NEW status, NEW n, NEW retry,
         jobs' = SetRow(h, status, n, retry)
  PROVE  /\ h.job \in Jobs
         /\ jobs'[h.job] = [id |-> h.id, status |-> status, attempts |-> n, retry |-> retry]
         /\ \A j \in Jobs : j # h.job => jobs'[j] = jobs[j]
  BY DEF TypeOK, SetRow, Handle

\* Only the scheduler's own last write touches the row it holds.
LEMMA HeldRowStays ==
  ASSUME QueueInv, [Next]_vars, SchedulerHolds, jobs'[cur.job] # jobs[cur.job]
  PROVE  \E o \in Outcome : Complete(o) \/ WriteVerdict(o)
<1> DEFINE k == cur.job
<1>0. /\ TypeOK /\ cur \in Handle /\ \A r \in Replayers : rcur[r] \in Handle
      /\ k \in Jobs /\ jobs[k].status = "in_progress" /\ pc \in {"run", "verdict"}
      /\ \A r \in Replayers : ReplayHolds(r) => rcur[r].job # k
  BY HandleTypes DEF QueueInv, ClaimHeld, OneExecutor, SchedulerHolds, TypeOK
<1>1. ASSUME NEW j \in Jobs, RetryDue(j) PROVE FALSE
  <2>1. jobs[j].status = "failed" /\ HandleOf(j) \in Handle
    BY <1>0, <1>1, HandleTypes DEF RetryDue, QueueInv, RowsConsistent
  <2>2. k = j
    BY <1>0, <1>1, <2>1, UpdateIsLocal DEF RetryDue, SetJobs, UpdateJobStatus, HandleOf
  <2> QED
    BY <1>0, <2>1, <2>2
<1>2. ASSUME NEW e \in Events, NEW o \in Outcome, Register(e, o) PROVE FALSE
  BY <1>0, <1>2 DEF Register, BetweenJobs
<1>3. ASSUME NEW o \in Outcome, Abandon(o) \/ Claim(o) PROVE FALSE
  BY <1>0, <1>3 DEF Abandon, Claim
<1>4. ASSUME CleanupDelete PROVE FALSE
  BY <1>0, <1>4 DEF CleanupDelete, SetJobs, Terminal
<1>5. ASSUME NEW r \in Replayers, NEW o \in Outcome, ReplayCreate(r, o) PROVE FALSE
  BY <1>0, <1>5 DEF ReplayCreate, SetJobs, TypeOK, Exists
<1>6. ASSUME NEW r \in Replayers, NEW o \in Outcome, ReplayClaim(r, o) PROVE FALSE
  <2>1. jobs' = SetRow(rcur[r], "in_progress", 1, "null") /\ jobs[rcur[r].job].status # "in_progress"
    BY <1>6 DEF ReplayClaim, SetJobs
  <2>2. k = rcur[r].job
    BY <1>0, <2>1, UpdateIsLocal
  <2> QED
    BY <1>0, <2>1, <2>2
<1>7. ASSUME NEW r \in Replayers, NEW o \in Outcome, NEW s \in {"completed", "failed"}, ReplayFinish(r, s, o)
      PROVE  FALSE
  <2>1. jobs' = SetRow(rcur[r], s, jobs[rcur[r].job].attempts, "null") /\ ReplayHolds(r)
    BY <1>7 DEF ReplayFinish, SetJobs, UpdateJobStatus, ReplayHolds
  <2>2. k = rcur[r].job
    BY <1>0, <2>1, UpdateIsLocal
  <2> QED
    BY <1>0, <2>1, <2>2
<1>8. jobs' # jobs
  OBVIOUS
<1> QED
  BY <1>1, <1>2, <1>3, <1>4, <1>5, <1>6, <1>7, <1>8, WhoWrites

\* The steps after which the scheduler holds a job.
LEMMA WhoHolds ==
  ASSUME [Next]_vars, ~UNCHANGED <<pc, cur, verdict>>, SchedulerHolds'
  PROVE  \E o \in Outcome : Claim(o) \/ ReadAttempts(o)
<1> USE DEF schedVars
<1>1. ASSUME NEW e \in Events PROVE ~(Arrive(e) \/ Age(e))
  BY DEF Arrive, Age
<1>2. \A j \in Jobs : ~RetryDue(j)
  BY DEF RetryDue
<1>3. ~(Fetch \/ Send \/ Receive \/ Sweep \/ CleanupSelect \/ CleanupDelete \/ CleanupFail \/ Start)
  BY DEF Fetch, Send, Receive, Sweep, CleanupSelect, CleanupDelete, CleanupFail, Start
<1>4. ~Stop
  BY DEF Stop, JobOver, SchedulerHolds
<1>5. ASSUME NEW e \in Events, NEW o \in Outcome PROVE ~Register(e, o)
  BY DEF Register
<1>6. ASSUME NEW h \in work, NEW o \in Outcome PROVE ~NextJob(h, o)
  BY DEF NextJob, BetweenJobs, SchedulerHolds
<1>7. ASSUME NEW o \in Outcome PROVE ~(Abandon(o) \/ Complete(o) \/ WriteVerdict(o))
  BY DEF Abandon, Complete, WriteVerdict, JobOver, SchedulerHolds
<1>8. ASSUME NEW r \in Replayers PROVE ~ReplayStep(r)
  BY DEF ReplayStep, ReplayStart, ReplayLookup, ReplayRelookup, ReplayEnd, ReplayCreate, ReplayClaim,
     ReplayFinish
<1>9. ~UNCHANGED vars
  BY DEF vars
<1> QED
  BY <1>1, <1>2, <1>3, <1>4, <1>5, <1>6, <1>7, <1>8, <1>9 DEF Next, EventLoopNext, SchedulerBody, CleanupNext

\* A row appears with no attempts and disappears with none.
LEMMA AbsentUntried ==
  ASSUME LifeInv, [Next]_vars, NEW j \in Jobs, jobs'[j].status = "none"
  PROVE  jobs'[j].attempts = 0
<1>0. /\ TypeOK /\ cur \in Handle /\ \A r \in Replayers : rcur[r] \in Handle
      /\ jobs[j].status = "none" => jobs[j].attempts = 0
  BY HandleTypes DEF LifeInv, QueueInv, CountsInv, TypeOK
<1>1. CASE jobs'[j] = jobs[j]
  BY <1>0, <1>1
<1>2. CASE jobs'[j] # jobs[j]
  \* Nothing but cleanup leaves a row it changes without a status.
  <2>1. \A h \in Handle, status \in Status \ {"none"}, n \in Nat : \A retry :
           jobs' # SetRow(h, status, n, retry)
    <3> SUFFICES ASSUME NEW h \in Handle, NEW status \in Status \ {"none"}, NEW n \in Nat, NEW retry,
                        jobs' = SetRow(h, status, n, retry)
                 PROVE  FALSE
      OBVIOUS
    <3>1. j = h.job /\ RowIs(h)
      BY <1>0, <1>2, UpdateIsLocal DEF SetRow
    <3>2. jobs'[h.job] = [id |-> h.id, status |-> status, attempts |-> n, retry |-> retry]
      BY <1>0, <3>1, RowWritten
    <3> QED
      BY <3>1, <3>2
  <2>2. \A k \in Jobs : jobs[k].attempts \in Nat /\ jobs[k].status \in Status
    BY <1>0 DEF TypeOK, Row
  <2>3. ASSUME NEW k \in Jobs, RetryDue(k) PROVE FALSE
    <3>1. jobs[k].status = "failed" /\ HandleOf(k) \in Handle
      BY <1>0, <2>3, HandleTypes DEF RetryDue, LifeInv, QueueInv, RowsConsistent
    <3>2. jobs' = SetRow(HandleOf(k), "failed", jobs[k].attempts, "due")
      BY <2>3, <3>1 DEF RetryDue, SetJobs, UpdateJobStatus, HandleOf
    <3> QED
      BY <2>1, <2>2, <3>1, <3>2 DEF Status
  <2>4. ASSUME NEW e \in Events, NEW o \in Outcome, Register(e, o) PROVE FALSE
    BY <1>0, <1>2, <2>4 DEF Register, SetJobs, Inserted
  <2>5. ASSUME NEW o \in Outcome, Abandon(o) \/ Claim(o) \/ Complete(o) \/ WriteVerdict(o) PROVE FALSE
    <3>1. cur.job \in Jobs /\ verdict \in {"none", "failed", "abandoned"}
          /\ (pc = "verdict" => verdict # "none")
      BY <1>0, HandleTypes DEF TypeOK, LifeInv, QueueInv, VerdictCurrent
    <3>2. \E status \in {"abandoned", "in_progress", "completed", "failed"}, n \in Nat : \E retry :
            jobs' = SetRow(cur, status, n, retry)
      <4>1. CASE Abandon(o)
        BY <1>2, <2>2, <3>1, <4>1 DEF Abandon, SetJobs, UpdateJobStatus
      <4>2. CASE Claim(o)
        BY <1>2, <2>2, <3>1, <4>2 DEF Claim, SetJobs
      <4>3. CASE Complete(o)
        BY <1>2, <2>2, <3>1, <4>3 DEF Complete, SetJobs, UpdateJobStatus
      <4>4. CASE WriteVerdict(o)
        BY <1>2, <2>2, <3>1, <4>4 DEF WriteVerdict, SetJobs, UpdateJobStatus
      <4> QED
        BY <2>5, <4>1, <4>2, <4>3, <4>4
    <3> QED
      BY <1>0, <2>1, <3>2 DEF Status
  <2>6. CleanupDelete => jobs'[j].attempts = 0
    BY <1>2 DEF CleanupDelete, SetJobs
  <2>7. ASSUME NEW r \in Replayers, NEW o \in Outcome, ReplayCreate(r, o) PROVE FALSE
    BY <1>0, <1>2, <2>7 DEF ReplayCreate, SetJobs, TypeOK, Inserted
  <2>8. ASSUME NEW r \in Replayers, NEW o \in Outcome, ReplayClaim(r, o) PROVE FALSE
    BY <1>0, <1>2, <2>1, <2>8 DEF ReplayClaim, SetJobs, Status
  <2>9. ASSUME NEW r \in Replayers, NEW o \in Outcome, NEW s \in {"completed", "failed"}, ReplayFinish(r, s, o)
        PROVE  FALSE
    <3>1. jobs' = SetRow(rcur[r], s, jobs[rcur[r].job].attempts, "null") /\ rcur[r].job \in Jobs
      BY <1>0, <1>2, <2>9, HandleTypes DEF ReplayFinish, SetJobs, UpdateJobStatus
    <3> QED
      BY <1>0, <2>1, <2>2, <3>1 DEF Status
  <2> QED
    BY <1>2, <2>3, <2>4, <2>5, <2>6, <2>7, <2>8, <2>9, WhoWrites
<1> QED
  BY <1>1, <1>2

LEMMA CountsStep ==
  ASSUME LifeInv, [Next]_vars
  PROVE  CountsInv'
<1>0. TypeOK /\ TypeOK' /\ QueueInv /\ QueueInv'
  BY TypeStep, QueueInvStep DEF LifeInv, QueueInv
<1>1. \A j \in Jobs : jobs'[j].status = "none" => jobs'[j].attempts = 0
  BY AbsentUntried
<1> DEFINE Counted == /\ jobs[cur.job].attempts >= 1
                      /\ pc = "verdict" /\ verdict = "abandoned"
                           => jobs[cur.job].attempts = AttemptBudget(cur.job)
<1>2. ASSUME SchedulerHolds' PROVE Counted'
  <2>1. CASE UNCHANGED <<pc, cur, verdict>>
    <3>1. SchedulerHolds /\ ~\E o \in Outcome : Complete(o) \/ WriteVerdict(o)
      BY <1>2, <2>1 DEF SchedulerHolds, Complete, WriteVerdict, JobOver
    <3>2. jobs'[cur.job] = jobs[cur.job]
      BY <1>0, <3>1, HeldRowStays
    <3> QED
      BY <2>1, <3>1, <3>2 DEF LifeInv, CountsInv, AttemptBudget
  <2>2. ASSUME NEW o \in Outcome, Claim(o) PROVE Counted'
    <3>1. /\ Claimable(cur) /\ o = "ok" /\ pc' = "run" /\ cur' = cur
          /\ jobs' = SetRow(cur, "in_progress", jobs[cur.job].attempts + 1, "null")
      BY <1>2, <2>2 DEF Claim, JobOver, SchedulerHolds, SetJobs, Applied
    <3>2. jobs'[cur.job].attempts = jobs[cur.job].attempts + 1
      <4>1. jobs'[cur.job] = [id |-> cur.id, status |-> "in_progress",
                              attempts |-> jobs[cur.job].attempts + 1, retry |-> "null"]
        BY <1>0, <3>1, RowWritten DEF Claimable, TypeOK
      <4> QED
        BY <4>1
    <3>3. jobs[cur.job].attempts \in Nat
      BY <1>0, HandleTypes DEF TypeOK, Row
    <3> QED
      BY <3>1, <3>2, <3>3
  <2>3. ASSUME NEW o \in Outcome, ReadAttempts(o) PROVE Counted'
    <3>1. /\ pc = "run" /\ pc' = "verdict" /\ cur' = cur /\ jobs' = jobs
          /\ verdict' = IF RetriesExhausted(cur.job[2], jobs[cur.job].attempts)
                        THEN "abandoned" ELSE "failed"
      BY <1>2, <2>3 DEF ReadAttempts, JobOver, SchedulerHolds, dbVars
    <3>2. jobs[cur.job].attempts >= 1
      BY <3>1 DEF LifeInv, CountsInv, SchedulerHolds
    <3>3. /\ cur.job \in Jobs /\ jobs[cur.job].attempts \in Nat /\ MaxRetries[cur.job[2]] \in Nat
          /\ jobs[cur.job].attempts <= 1 \/ jobs[cur.job].attempts <= MaxRetries[cur.job[2]]
      BY <1>0, HandleTypes, ConstantsAssumption DEF TypeOK, Row, QueueInv, AttemptsBounded, Jobs
    <3>4. verdict' = "abandoned" => jobs[cur.job].attempts = AttemptBudget(cur.job)
      BY <3>1, <3>2, <3>3 DEF RetriesExhausted, AttemptBudget
    <3> QED
      BY <3>1, <3>2, <3>4 DEF AttemptBudget
  <2> QED
    BY <1>2, <2>1, <2>2, <2>3, WhoHolds
<1> QED
  BY <1>1, <1>2 DEF CountsInv, SchedulerHolds

LEMMA LifeInvariant == Spec => []LifeInv
<1>1. Init => LifeInv
  BY QueueInvInit DEF LifeInv, CountsInv, Init, SchedulerHolds
<1>2. LifeInv /\ [Next]_vars => LifeInv'
  BY QueueInvStep, CountsStep DEF LifeInv
<1> QED
  BY <1>1, <1>2, PTL DEF Spec

-----------------------------------------------------------------------------
(* Who holds which job before and after a step.                            *)

\* No step of the abstract queue, or one that leaves it as it is.
LifeStep == Lifecycle!Next \/ UNCHANGED Lifecycle!vars

\* A row the table has in progress is held by nobody else; a row it does not have in
\* progress is held by nobody.
LEMMA HeldInProgress ==
  ASSUME QueueInv, NEW j \in Jobs
  PROVE  /\ HeldByScheduler(j) \/ HeldByReplay(j) => jobs[j].status = "in_progress"
         /\ ~(HeldByScheduler(j) /\ HeldByReplay(j))
  BY DEF HeldByScheduler, HeldByReplay, QueueInv, ClaimHeld, OneExecutor

LEMMA SameHolders ==
  ASSUME UNCHANGED <<pc, cur, rpc, rcur>>, NEW j \in Jobs
  PROVE  /\ HeldByScheduler(j)' <=> HeldByScheduler(j)
         /\ HeldByReplay(j)' <=> HeldByReplay(j)
  BY DEF HeldByScheduler, HeldByReplay, SchedulerHolds, ReplayHolds

LEMMA SchedulerLetsGo ==
  ASSUME JobOver, UNCHANGED <<rpc, rcur>>, NEW j \in Jobs
  PROVE  /\ ~HeldByScheduler(j)'
         /\ HeldByReplay(j)' <=> HeldByReplay(j)
  BY DEF HeldByScheduler, HeldByReplay, SchedulerHolds, ReplayHolds, JobOver

\* A replay process that ends up holding nothing holds nothing of what it held.
LEMMA ReplayLetsGo ==
  ASSUME QueueInv, UNCHANGED <<pc, cur>>, NEW r \in Replayers, NEW h, NEW point, point # "run",
         Replaying(r, h, point), NEW j \in Jobs
  PROVE  /\ HeldByScheduler(j)' <=> HeldByScheduler(j)
         /\ ReplayHolds(r) /\ rcur[r].job = j => ~HeldByReplay(j)'
         /\ ~(ReplayHolds(r) /\ rcur[r].job = j) => (HeldByReplay(j)' <=> HeldByReplay(j))
<1>1. /\ ~ReplayHolds(r)'
      /\ \A q \in Replayers : q # r => rpc'[q] = rpc[q] /\ rcur'[q] = rcur[q]
  BY DEF Replaying, ReplayHolds, QueueInv, TypeOK
<1>2. HeldByReplay(j)' <=> \E q \in Replayers : q # r /\ ReplayHolds(q) /\ rcur[q].job = j
  BY <1>1 DEF HeldByReplay, ReplayHolds
<1>3. ReplayHolds(r) /\ rcur[r].job = j => ~HeldByReplay(j)'
  BY <1>2 DEF QueueInv, OneExecutor
<1>4. ~(ReplayHolds(r) /\ rcur[r].job = j) => (HeldByReplay(j)' <=> HeldByReplay(j))
  BY <1>2 DEF HeldByReplay
<1> QED
  BY <1>3, <1>4 DEF HeldByScheduler, SchedulerHolds

\* A step that changes no row and no holder.
LEMMA NobodyMoves ==
  ASSUME jobs' = jobs, UNCHANGED <<pc, cur, rpc, rcur>>
  PROVE  LifeStep
<1>1. \A j \in Jobs : SameLife(j)
  BY SameHolders DEF SameLife
<1> QED
  BY <1>1, Stutter DEF LifeStep

\* A replay process without a claim moves on and changes no row.
LEMMA ReplayMovesOn ==
  ASSUME QueueInv, jobs' = jobs, UNCHANGED <<pc, cur>>, NEW r \in Replayers, ~ReplayHolds(r),
         NEW h, NEW point, point # "run", Replaying(r, h, point)
  PROVE  LifeStep
<1>1. \A j \in Jobs : SameLife(j)
  BY ReplayLetsGo DEF SameLife
<1> QED
  BY <1>1, Stutter DEF LifeStep

\* An executor that ends without a write leaves its job stranded.
LEMMA SchedulerGivesUp ==
  ASSUME QueueInv, jobs' = jobs, JobOver, UNCHANGED <<rpc, rcur>>
  PROVE  LifeStep
<1>1. CASE SchedulerHolds
  <2>1. cur.job \in Jobs /\ jobs[cur.job].status = "in_progress" /\ HeldByScheduler(cur.job)
    BY <1>1, HandleTypes DEF QueueInv, ClaimHeld, HeldByScheduler
  <2>2. LifeOf(cur.job) = "running"
    BY <2>1, LifeByRow
  <2>3. PICK k \in Jobs : k = cur.job
    BY <2>1
  <2>4. LifeOf(k)' = "stranded"
    BY <2>1, <2>3, LifeByNextRow, SchedulerLetsGo, HeldInProgress
  <2>5. \A j \in Jobs \ {k} : SameLife(j)
    BY <2>3, SchedulerLetsGo DEF SameLife, HeldByScheduler
  <2> QED
    BY <2>2, <2>3, <2>4, <2>5, MoveIsStep DEF LifeStep
<1>2. CASE ~SchedulerHolds
  <2>1. \A j \in Jobs : SameLife(j)
    BY <1>2, SchedulerLetsGo DEF SameLife, HeldByScheduler
  <2> QED
    BY <2>1, Stutter DEF LifeStep
<1> QED
  BY <1>1, <1>2

LEMMA ReplayGivesUp ==
  ASSUME QueueInv, jobs' = jobs, UNCHANGED <<pc, cur>>, NEW r \in Replayers, ReplayHolds(r),
         NEW h, NEW point, point # "run", Replaying(r, h, point)
  PROVE  LifeStep
<1>1. PICK k \in Jobs : k = rcur[r].job
  BY HandleTypes DEF QueueInv
<1>2. jobs[k].status = "in_progress" /\ HeldByReplay(k)
  BY <1>1 DEF QueueInv, ClaimHeld, HeldByReplay
<1>3. LifeOf(k) = "replaying"
  BY <1>2, LifeByRow, HeldInProgress
<1>4. LifeOf(k)' = "stranded"
  BY <1>1, <1>2, LifeByNextRow, ReplayLetsGo, HeldInProgress
<1>5. \A j \in Jobs \ {k} : SameLife(j)
  BY <1>1, ReplayLetsGo DEF SameLife
<1> QED
  BY <1>3, <1>4, <1>5, MoveIsStep DEF LifeStep

-----------------------------------------------------------------------------
(* Each step of the queue is a step of JobLifecycle, or none. *)

\* Time does not move a job: a job waits for its retry whether it is due or not.
LEMMA RetryDueLife ==
  ASSUME LifeInv, NEW k \in Jobs, RetryDue(k)
  PROVE  LifeStep
<1>1. /\ jobs[k].status = "failed" /\ jobs[k].retry = "later" /\ TypeOK
      /\ HandleOf(k) \in Handle /\ HandleOf(k).job = k /\ RowIs(HandleOf(k))
  BY HandleTypes DEF RetryDue, LifeInv, QueueInv, RowsConsistent, HandleOf, RowIs, Exists
<1>2. jobs' = SetRow(HandleOf(k), "failed", jobs[k].attempts, "due")
  BY <1>1 DEF RetryDue, SetJobs, UpdateJobStatus
<1>3. UNCHANGED <<pc, cur, rpc, rcur>>
  BY DEF RetryDue, schedVars, replayVars
<1>4. /\ jobs'[k].status = "failed" /\ jobs'[k].retry = "due"
      /\ jobs'[k].attempts = jobs[k].attempts
      /\ \A j \in Jobs : j # k => jobs'[j] = jobs[j]
  <2>1. jobs'[k] = [id |-> HandleOf(k).id, status |-> "failed", attempts |-> jobs[k].attempts, retry |-> "due"]
    BY <1>1, <1>2, RowWritten
  <2>2. \A j \in Jobs : j # k => jobs'[j] = jobs[j]
    BY <1>1, <1>2, RowWritten
  <2> QED
    BY <2>1, <2>2
<1>5. \A j \in Jobs : SameLife(j)
  BY <1>1, <1>3, <1>4, SameHolders DEF SameLife
<1> QED
  BY <1>5, Stutter DEF LifeStep

\* Routing queues the jobs it inserts, all at once.
LEMMA RegisterLife ==
  ASSUME LifeInv, NEW e \in Events, NEW o \in Outcome, Register(e, o)
  PROVE  LifeStep
<1>1. UNCHANGED <<pc, cur, rpc, rcur>>
  BY DEF Register, replayVars
<1> DEFINE S == {j \in Jobs : jobs'[j] # jobs[j]}
<1>2. \A j \in S : /\ jobs[j].status = "none" /\ jobs'[j].status = "pending"
                   /\ jobs[j].attempts = 0 /\ jobs'[j].attempts = 0
  BY DEF Register, SetJobs, Inserted, Exists, LifeInv, CountsInv
<1>3. \A j \in S : /\ LifeOf(j) = "none" /\ LifeOf(j)' = "queued"
                   /\ jobs'[j].attempts = jobs[j].attempts
  BY <1>2, LifeByRow, LifeByNextRow
<1>4. \A j \in Jobs \ S : SameLife(j)
  BY <1>1, SameHolders DEF SameLife
<1>5. S \in SUBSET Jobs
  OBVIOUS
<1> HIDE DEF S
<1>6. CASE S # {}
  BY <1>3, <1>4, <1>5, <1>6, BulkIsStep DEF LifeStep
<1>7. CASE S = {}
  BY <1>4, <1>7, Stutter DEF LifeStep
<1> QED
  BY <1>6, <1>7

\* A claimed job that is no longer routed is withdrawn.
LEMMA AbandonLife ==
  ASSUME LifeInv, NEW o \in Outcome, Abandon(o)
  PROVE  LifeStep
<1>1. /\ JobOver /\ UNCHANGED <<rpc, rcur>> /\ TypeOK /\ QueueInv
      /\ ~SchedulerHolds /\ cur \in Handle
  BY DEF Abandon, replayVars, LifeInv, QueueInv, SchedulerHolds, TypeOK
<1>2. CASE Claimable(cur) /\ Applied(o)
  <2>1. jobs' = SetRow(cur, "abandoned", jobs[cur.job].attempts, "null") /\ RowIs(cur)
    BY <1>2 DEF Abandon, SetJobs, UpdateJobStatus, Claimable
  <2>2. PICK k \in Jobs : k = cur.job
    BY <1>1, HandleTypes
  <2>3. /\ jobs'[k].status = "abandoned" /\ jobs'[k].attempts = jobs[k].attempts
        /\ \A j \in Jobs : j # k => jobs'[j] = jobs[j]
    <3>1. jobs'[k] = [id |-> cur.id, status |-> "abandoned", attempts |-> jobs[k].attempts, retry |-> "null"]
      BY <1>1, <2>1, <2>2, RowWritten
    <3> QED
      BY <1>1, <2>1, <2>2, <3>1, RowWritten
  <2>4. LifeOf(k) \in {"queued", "waiting"}
    BY <1>2, <2>2, LifeByRow DEF Claimable, Runnable
  <2>5. LifeOf(k)' = "abandoned"
    BY <2>3, LifeByNextRow
  <2>6. \A j \in Jobs \ {k} : SameLife(j)
    BY <1>1, <2>3, SchedulerLetsGo DEF SameLife, HeldByScheduler
  <2> QED
    BY <2>3, <2>4, <2>5, <2>6, MoveIsStep DEF LifeStep
<1>3. CASE ~(Claimable(cur) /\ Applied(o))
  <2>1. jobs' = jobs
    BY <1>3 DEF Abandon
  <2> QED
    BY <1>1, <2>1, SchedulerGivesUp
<1> QED
  BY <1>2, <1>3

\* A claim is an attempt within the budget; one that is not acknowledged is run by nobody.
LEMMA ClaimLife ==
  ASSUME LifeInv, NEW o \in Outcome, Claim(o)
  PROVE  LifeStep
<1>1. /\ UNCHANGED <<rpc, rcur>> /\ TypeOK /\ QueueInv
      /\ ~SchedulerHolds /\ cur \in Handle
  BY DEF Claim, replayVars, LifeInv, QueueInv, SchedulerHolds, TypeOK
<1>2. CASE Claimable(cur) /\ Applied(o)
  <2>1. jobs' = SetRow(cur, "in_progress", jobs[cur.job].attempts + 1, "null") /\ RowIs(cur)
    BY <1>2 DEF Claim, SetJobs, Claimable
  <2>2. PICK k \in Jobs : k = cur.job
    BY <1>1, HandleTypes
  <2>3. /\ jobs'[k].status = "in_progress" /\ jobs'[k].attempts = jobs[k].attempts + 1
        /\ \A j \in Jobs : j # k => jobs'[j] = jobs[j]
    <3>1. jobs'[k] = [id |-> cur.id, status |-> "in_progress",
                      attempts |-> jobs[k].attempts + 1, retry |-> "null"]
      BY <1>1, <2>1, <2>2, RowWritten
    <3> QED
      BY <1>1, <2>1, <2>2, <3>1, RowWritten
  <2>4. LifeOf(k) \in {"queued", "waiting"} /\ jobs[k].status # "in_progress"
    BY <1>2, <2>2, LifeByRow DEF Claimable, Runnable
  <2>5. jobs[k].attempts < AttemptBudget(k)
    <3>1. MaxRetries[k[2]] \in Nat /\ jobs[k].attempts \in Nat
      BY <1>1, ConstantsAssumption DEF Jobs, TypeOK, Row
    <3> QED
      BY <1>1, <1>2, <2>2, <3>1 DEF Claimable, Runnable, QueueInv, RowsConsistent, AttemptBudget
  <2>6. \A j \in Jobs \ {k} : ~HeldByScheduler(j)' /\ ~HeldByScheduler(j)
    BY <1>1, <2>2 DEF Claim, JobOver, HeldByScheduler, SchedulerHolds
  <2>7. \A j \in Jobs : HeldByReplay(j)' <=> HeldByReplay(j)
    BY <1>1 DEF HeldByReplay, ReplayHolds
  <2>8. \A j \in Jobs \ {k} : SameLife(j)
    BY <2>3, <2>6, <2>7 DEF SameLife
  <2>9. ~HeldByReplay(k)'
    BY <1>1, <2>4, <2>7, HeldInProgress
  <2>10. LifeOf(k)' \in {"running", "stranded"}
    BY <2>3, <2>9, LifeByNextRow
  <2> QED
    BY <2>3, <2>4, <2>5, <2>8, <2>10, ClaimIsStep DEF LifeStep
<1>3. CASE ~(Claimable(cur) /\ Applied(o))
  <2>1. jobs' = jobs /\ JobOver
    BY <1>3 DEF Claim, Applied
  <2> QED
    BY <1>1, <2>1, SchedulerGivesUp
<1> QED
  BY <1>2, <1>3

\* What the scheduler writes at the end of an attempt moves its job out of "running".
LEMMA SchedulerWrites ==
  ASSUME QueueInv, SchedulerHolds, JobOver, UNCHANGED <<rpc, rcur>>, NEW status, NEW retry,
         jobs' = SetRow(cur, status, jobs[cur.job].attempts, retry),
         \/ status = "completed"
         \/ status = "failed" /\ retry # "null" /\ jobs[cur.job].attempts < AttemptBudget(cur.job)
         \/ status = "abandoned" /\ jobs[cur.job].attempts = AttemptBudget(cur.job)
  PROVE  LifeStep
<1>1. TypeOK /\ cur \in Handle /\ RowIs(cur) /\ jobs[cur.job].status = "in_progress"
  BY DEF QueueInv, ClaimHeld, TypeOK
<1>2. PICK k \in Jobs : k = cur.job
  BY <1>1, HandleTypes
<1>3. /\ jobs'[k].status = status /\ jobs'[k].retry = retry /\ jobs'[k].attempts = jobs[k].attempts
      /\ \A j \in Jobs : j # k => jobs'[j] = jobs[j]
  <2>1. jobs'[k] = [id |-> cur.id, status |-> status, attempts |-> jobs[k].attempts, retry |-> retry]
    BY <1>1, <1>2, RowWritten
  <2> QED
    BY <1>1, <1>2, <2>1, RowWritten
<1>4. LifeOf(k) = "running"
  BY <1>1, <1>2, LifeByRow DEF HeldByScheduler
<1>5. /\ status = "completed" => LifeOf(k)' = "done"
      /\ status = "failed" /\ retry # "null" => LifeOf(k)' = "waiting"
      /\ status = "abandoned" => LifeOf(k)' = "abandoned"
  BY <1>3, LifeByNextRow
<1>6. \A j \in Jobs \ {k} : SameLife(j)
  BY <1>2, <1>3, SchedulerLetsGo DEF SameLife, HeldByScheduler
<1> QED
  BY <1>2, <1>3, <1>4, <1>5, <1>6, MoveIsStep DEF LifeStep

LEMMA CompleteLife ==
  ASSUME LifeInv, NEW o \in Outcome, Complete(o)
  PROVE  LifeStep
<1>1. QueueInv /\ SchedulerHolds /\ JobOver /\ UNCHANGED <<rpc, rcur>>
  BY DEF Complete, replayVars, LifeInv, SchedulerHolds
<1>2. CASE Applied(o)
  <2>1. jobs' = SetRow(cur, "completed", jobs[cur.job].attempts, "null")
    BY <1>2 DEF Complete, SetJobs, UpdateJobStatus
  <2> QED
    BY <1>1, <2>1, SchedulerWrites
<1>3. CASE ~Applied(o)
  <2>1. jobs' = jobs
    BY <1>3 DEF Complete
  <2> QED
    BY <1>1, <2>1, SchedulerGivesUp
<1> QED
  BY <1>2, <1>3

LEMMA ReadAttemptsLife ==
  ASSUME LifeInv, NEW o \in Outcome, ReadAttempts(o)
  PROVE  LifeStep
<1>1. QueueInv /\ pc = "run" /\ jobs' = jobs /\ UNCHANGED <<rpc, rcur>>
  BY DEF ReadAttempts, dbVars, replayVars, LifeInv
<1>2. CASE JobOver
  BY <1>1, <1>2, SchedulerGivesUp
<1>3. CASE pc' = "verdict" /\ cur' = cur
  <2>1. \A j \in Jobs : SameLife(j)
    BY <1>1, <1>3 DEF SameLife, HeldByScheduler, HeldByReplay, SchedulerHolds, ReplayHolds
  <2> QED
    BY <2>1, Stutter DEF LifeStep
<1> QED
  BY <1>2, <1>3 DEF ReadAttempts

LEMMA WriteVerdictLife ==
  ASSUME LifeInv, NEW o \in Outcome, WriteVerdict(o)
  PROVE  LifeStep
<1>1. /\ QueueInv /\ TypeOK /\ SchedulerHolds /\ pc = "verdict" /\ JobOver /\ UNCHANGED <<rpc, rcur>>
      /\ verdict \in {"failed", "abandoned"}
  BY DEF WriteVerdict, replayVars, LifeInv, QueueInv, SchedulerHolds, VerdictCurrent, TypeOK
<1>2. CASE Applied(o)
  <2>1. jobs' = SetRow(cur, verdict, jobs[cur.job].attempts,
                       IF verdict = "failed" THEN "later" ELSE "null")
    BY <1>2 DEF WriteVerdict, SetJobs, UpdateJobStatus
  <2>2. CASE verdict = "failed"
    <3>1. jobs[cur.job].attempts < AttemptBudget(cur.job)
      <4>1. jobs[cur.job].attempts < MaxRetries[cur.job[2]]
        BY <1>1, <2>2 DEF QueueInv, VerdictCurrent
      <4>2. MaxRetries[cur.job[2]] \in Nat /\ jobs[cur.job].attempts \in Nat
        BY <1>1, HandleTypes, ConstantsAssumption DEF TypeOK, Row, Jobs
      <4> QED
        BY <4>1, <4>2 DEF AttemptBudget
    <3>2. jobs' = SetRow(cur, "failed", jobs[cur.job].attempts, "later")
      BY <2>1, <2>2
    <3> QED
      BY <1>1, <3>1, <3>2, SchedulerWrites
  <2>3. CASE verdict = "abandoned"
    <3>1. jobs[cur.job].attempts = AttemptBudget(cur.job)
      BY <1>1, <2>3 DEF LifeInv, CountsInv
    <3>2. jobs' = SetRow(cur, "abandoned", jobs[cur.job].attempts, "null")
      BY <2>1, <2>3
    <3> QED
      BY <1>1, <3>1, <3>2, SchedulerWrites
  <2> QED
    BY <1>1, <2>2, <2>3
<1>3. CASE ~Applied(o)
  <2>1. jobs' = jobs
    BY <1>3 DEF WriteVerdict
  <2> QED
    BY <1>1, <2>1, SchedulerGivesUp
<1> QED
  BY <1>2, <1>3

\* Retention forgets finished jobs, all at once.
LEMMA CleanupLife ==
  ASSUME LifeInv, CleanupDelete
  PROVE  LifeStep
<1>1. UNCHANGED <<pc, cur, rpc, rcur>>
  BY DEF CleanupDelete, schedVars, replayVars
<1> DEFINE S == {j \in Jobs : j[1] \in candidates /\ jobs[j].status \in Terminal}
<1>2. /\ \A j \in S : /\ jobs[j].status \in {"completed", "abandoned"}
                      /\ jobs'[j].status = "none" /\ jobs'[j].attempts = 0
      /\ \A j \in Jobs \ S : jobs'[j] = jobs[j]
  BY DEF CleanupDelete, SetJobs, Terminal
<1>3. \A j \in S : /\ LifeOf(j) \in {"done", "abandoned"} /\ LifeOf(j)' = "none"
                   /\ jobs'[j].attempts = 0
  BY <1>2, LifeByRow, LifeByNextRow
<1>4. \A j \in Jobs \ S : SameLife(j)
  BY <1>1, <1>2, SameHolders DEF SameLife
<1>5. S \in SUBSET Jobs
  OBVIOUS
<1> HIDE DEF S
<1>6. CASE S # {}
  BY <1>3, <1>4, <1>5, <1>6, BulkIsStep DEF LifeStep
<1>7. CASE S = {}
  BY <1>4, <1>7, Stutter DEF LifeStep
<1> QED
  BY <1>6, <1>7

\* A replay may queue a job that has no row.
LEMMA ReplayCreateLife ==
  ASSUME LifeInv, NEW r \in Replayers, NEW o \in Outcome, ReplayCreate(r, o)
  PROVE  LifeStep
<1>1. QueueInv /\ TypeOK /\ UNCHANGED <<pc, cur>> /\ ~ReplayHolds(r)
  BY DEF ReplayCreate, schedVars, LifeInv, QueueInv, ReplayHolds
<1>2. PICK k \in Jobs : k = rcur[r].job
  BY <1>1, HandleTypes
<1>3. \E h, point : point # "run" /\ Replaying(r, h, point)
  BY DEF ReplayCreate, ReplayExit
<1>4. CASE jobs' = jobs
  BY <1>1, <1>3, <1>4, ReplayMovesOn
<1>5. CASE jobs' # jobs
  <2>1. ~Exists(k) /\ jobs' = [jobs EXCEPT ![k] = Inserted(jobs[k])]
    BY <1>2, <1>5 DEF ReplayCreate, SetJobs
  <2>2. /\ jobs[k].status = "none" /\ jobs'[k].status = "pending"
        /\ jobs[k].attempts = 0 /\ jobs'[k].attempts = 0
        /\ \A j \in Jobs : j # k => jobs'[j] = jobs[j]
    BY <1>1, <2>1 DEF Exists, Inserted, TypeOK, LifeInv, CountsInv
  <2>3. LifeOf(k) = "none" /\ LifeOf(k)' = "queued"
    BY <2>2, LifeByRow, LifeByNextRow
  <2>4. \A j \in Jobs \ {k} : SameLife(j)
    <3>1. \A j \in Jobs : (HeldByScheduler(j)' <=> HeldByScheduler(j))
                          /\ (HeldByReplay(j)' <=> HeldByReplay(j))
      BY <1>1, <1>3, ReplayLetsGo
    <3> QED
      BY <2>2, <3>1 DEF SameLife
  <2>5. /\ {k} \in SUBSET Jobs /\ {k} # {}
        /\ \A j \in {k} : /\ LifeOf(j) = "none" /\ LifeOf(j)' = "queued"
                         /\ jobs'[j].attempts = jobs[j].attempts
    BY <2>2, <2>3
  <2>6. PICK S \in SUBSET Jobs : S = {k}
    BY <2>5
  <2> QED
    BY <2>4, <2>5, <2>6, BulkIsStep DEF LifeStep
<1> QED
  BY <1>4, <1>5

\* A replay reopens a job that nobody runs, whatever became of it.
LEMMA ReplayClaimLife ==
  ASSUME LifeInv, NEW r \in Replayers, NEW o \in Outcome, ReplayClaim(r, o)
  PROVE  LifeStep
<1>1. QueueInv /\ TypeOK /\ UNCHANGED <<pc, cur>> /\ ~ReplayHolds(r) /\ rcur[r] \in Handle
  BY HandleTypes DEF ReplayClaim, schedVars, LifeInv, QueueInv, ReplayHolds
<1>2. PICK k \in Jobs : k = rcur[r].job
  BY <1>1, HandleTypes
<1> DEFINE free == RowIs(rcur[r]) /\ jobs[k].status # "in_progress"
<1>3. CASE free /\ Applied(o)
  <2>1. jobs' = SetRow(rcur[r], "in_progress", 1, "null")
    BY <1>2, <1>3 DEF ReplayClaim, SetJobs
  <2>2. /\ jobs'[k].status = "in_progress" /\ jobs'[k].attempts = 1
        /\ \A j \in Jobs : j # k => jobs'[j] = jobs[j]
    <3>1. jobs'[k] = [id |-> rcur[r].id, status |-> "in_progress", attempts |-> 1, retry |-> "null"]
      BY <1>1, <1>2, <1>3, <2>1, RowWritten
    <3> QED
      BY <1>1, <1>2, <1>3, <2>1, <3>1, RowWritten
  <2>3. jobs[k].status \in {"pending", "failed", "completed", "abandoned"}
    BY <1>1, <1>2, <1>3 DEF RowIs, Exists, TypeOK, Row, Status
  <2>4. LifeOf(k) \in {"queued", "parked", "waiting", "done", "abandoned"}
    BY <2>3, LifeByRow
  <2>5. /\ rcur' \in [Replayers -> Handle] /\ rcur'[r] \in {rcur[r], NoHandle}
        /\ rpc'[r] \in {"run", "next"}
        /\ \A q \in Replayers : q # r => rpc'[q] = rpc[q] /\ rcur'[q] = rcur[q]
        /\ rpc'[r] = "run" => rcur'[r] = rcur[r]
    BY <1>1, NoHandleType DEF ReplayClaim, ReplayContinue, Replaying, TypeOK
  <2>6. \A j \in Jobs : HeldByScheduler(j)' <=> HeldByScheduler(j)
    BY <1>1 DEF HeldByScheduler, SchedulerHolds
  <2>7. ASSUME NEW j \in Jobs \ {k} PROVE HeldByReplay(j)' <=> HeldByReplay(j)
    BY <1>1, <1>2, <2>5 DEF HeldByReplay, ReplayHolds
  <2>8. \A j \in Jobs \ {k} : SameLife(j)
    BY <2>2, <2>6, <2>7 DEF SameLife
  <2>9. ~HeldByScheduler(k)'
    BY <1>1, <2>3, <2>6, HeldInProgress
  <2>10. LifeOf(k)' \in {"replaying", "stranded"}
    BY <2>2, <2>9, LifeByNextRow
  <2> QED
    BY <2>2, <2>4, <2>8, <2>10, ClaimIsStep DEF LifeStep
<1>4. CASE ~(free /\ Applied(o))
  <2>1. jobs' = jobs /\ Replaying(r, NoHandle, "next")
    BY <1>2, <1>4 DEF ReplayClaim, ReplayContinue, Applied
  <2> QED
    BY <1>1, <2>1, ReplayMovesOn
<1> QED
  BY <1>3, <1>4

\* A replay ends in "done" or "parked", unless it could not write its result.
LEMMA ReplayFinishLife ==
  ASSUME LifeInv, NEW r \in Replayers, NEW o \in Outcome, NEW s \in {"completed", "failed"},
         ReplayFinish(r, s, o)
  PROVE  LifeStep
<1>1. /\ QueueInv /\ TypeOK /\ UNCHANGED <<pc, cur>> /\ ReplayHolds(r) /\ rcur[r] \in Handle
      /\ Replaying(r, NoHandle, "next")
  BY HandleTypes DEF ReplayFinish, ReplayContinue, schedVars, LifeInv, QueueInv, ReplayHolds
<1>2. CASE Applied(o)
  <2>1. PICK k \in Jobs : k = rcur[r].job
    BY <1>1, HandleTypes
  <2>2. RowIs(rcur[r]) /\ jobs[k].status = "in_progress" /\ HeldByReplay(k)
    BY <1>1, <2>1 DEF QueueInv, ClaimHeld, HeldByReplay
  <2>3. jobs' = SetRow(rcur[r], s, jobs[k].attempts, "null")
    BY <1>2, <2>1 DEF ReplayFinish, SetJobs, UpdateJobStatus
  <2>4. /\ jobs'[k].status = s /\ jobs'[k].retry = "null" /\ jobs'[k].attempts = jobs[k].attempts
        /\ \A j \in Jobs : j # k => jobs'[j] = jobs[j]
    <3>1. jobs'[k] = [id |-> rcur[r].id, status |-> s, attempts |-> jobs[k].attempts, retry |-> "null"]
      BY <1>1, <2>1, <2>2, <2>3, RowWritten
    <3> QED
      BY <1>1, <2>1, <2>2, <2>3, <3>1, RowWritten
  <2>5. LifeOf(k) = "replaying"
    BY <1>1, <2>2, LifeByRow, HeldInProgress
  <2>6. LifeOf(k)' \in {"done", "parked"}
    BY <2>4, LifeByNextRow
  <2>7. \A j \in Jobs \ {k} : SameLife(j)
    BY <1>1, <2>1, <2>4, ReplayLetsGo DEF SameLife
  <2> QED
    BY <2>4, <2>5, <2>6, <2>7, MoveIsStep DEF LifeStep
<1>3. CASE ~Applied(o)
  <2>1. jobs' = jobs
    BY <1>3 DEF ReplayFinish
  <2> QED
    BY <1>1, <2>1, ReplayGivesUp
<1> QED
  BY <1>2, <1>3

LEMMA ReplayStepLife ==
  ASSUME LifeInv, NEW r \in Replayers, ReplayStep(r)
  PROVE  LifeStep
<1> USE DEF dbVars, schedVars
<1>0. QueueInv
  BY DEF LifeInv
<1>1. ASSUME NEW e \in Events, ReplayStart(r, e) PROVE LifeStep
  <2>1. jobs' = jobs /\ UNCHANGED <<pc, cur>> /\ ~ReplayHolds(r) /\ Replaying(r, NoHandle, "next")
    BY <1>1 DEF ReplayStart, ReplayHolds
  <2> QED
    BY <1>0, <2>1, ReplayMovesOn
<1>2. ASSUME NEW j \in rtodo[r], ReplayLookup(r, j) PROVE LifeStep
  <2>1. /\ jobs' = jobs /\ UNCHANGED <<pc, cur>> /\ ~ReplayHolds(r)
        /\ \E h, point : point # "run" /\ Replaying(r, h, point)
    BY <1>2 DEF ReplayLookup, ReplayHolds
  <2> QED
    BY <1>0, <2>1, ReplayMovesOn
<1>3. ASSUME ReplayRelookup(r) PROVE LifeStep
  <2>1. /\ jobs' = jobs /\ UNCHANGED <<pc, cur>> /\ ~ReplayHolds(r)
        /\ \E h, point : point # "run" /\ Replaying(r, h, point)
    BY <1>3 DEF ReplayRelookup, ReplayHolds, ReplayExit
  <2> QED
    BY <1>0, <2>1, ReplayMovesOn
<1>4. ASSUME ReplayEnd(r) PROVE LifeStep
  <2>1. jobs' = jobs /\ UNCHANGED <<pc, cur>> /\ Replaying(r, NoHandle, "off")
    BY <1>4 DEF ReplayEnd, ReplayExit
  <2> QED
    BY <1>0, <2>1, ReplayMovesOn, ReplayGivesUp
<1> QED
  BY <1>1, <1>2, <1>3, <1>4, ReplayCreateLife, ReplayClaimLife, ReplayFinishLife DEF ReplayStep

\* A daemon that stops leaves the job it runs stranded.
LEMMA StopLife ==
  ASSUME LifeInv, Stop
  PROVE  LifeStep
<1>1. QueueInv /\ jobs' = jobs /\ JobOver /\ UNCHANGED <<rpc, rcur>>
  BY DEF Stop, dbVars, replayVars, LifeInv
<1> QED
  BY <1>1, SchedulerGivesUp

LEMMA NextJobLife ==
  ASSUME LifeInv, NEW h \in work, NEW o \in Outcome, NextJob(h, o)
  PROVE  LifeStep
<1>1. jobs' = jobs /\ UNCHANGED <<rpc, rcur>> /\ ~SchedulerHolds /\ ~SchedulerHolds'
  BY DEF NextJob, BetweenJobs, SchedulerHolds, dbVars, replayVars
<1>2. \A j \in Jobs : SameLife(j)
  BY <1>1 DEF SameLife, HeldByScheduler, HeldByReplay, ReplayHolds
<1> QED
  BY <1>2, Stutter DEF LifeStep

LEMMA NextLife ==
  ASSUME LifeInv, [Next]_vars
  PROVE  LifeStep
<1> USE DEF dbVars, schedVars, replayVars
<1>1. ASSUME NEW e \in Events, Arrive(e) \/ Age(e) PROVE LifeStep
  BY <1>1, NobodyMoves DEF Arrive, Age
<1>2. CASE EventLoopNext \/ Receive \/ Sweep \/ Start
  BY <1>2, NobodyMoves DEF EventLoopNext, Fetch, Send, Receive, Sweep, Start
<1>3. CASE CleanupNext
  BY <1>3, NobodyMoves, CleanupLife DEF CleanupNext, CleanupSelect, CleanupFail
<1>4. CASE SchedulerBody
  BY <1>4, RegisterLife, NextJobLife, AbandonLife, ClaimLife, CompleteLife, ReadAttemptsLife,
     WriteVerdictLife DEF SchedulerBody
<1>5. CASE UNCHANGED vars
  BY <1>5, NobodyMoves DEF vars
<1> QED
  BY <1>1, <1>2, <1>3, <1>4, <1>5, RetryDueLife, ReplayStepLife, StopLife DEF Next

LEMMA InitLife == Init => Lifecycle!Init
<1> SUFFICES ASSUME Init PROVE Lifecycle!Init
  OBVIOUS
<1>1. \A j \in Jobs : jobs[j].status = "none" /\ jobs[j].attempts = 0
  BY DEF Init
<1>2. \A j \in Jobs : LifeOf(j) = "none"
  BY <1>1, LifeByRow
<1> QED
  BY <1>1, <1>2 DEF Lifecycle!Init

\* Whatever the scheduler, the cleanup and the replay processes interleave, every job goes
\* through the life JobLifecycle gives it.
THEOREM QueueImplementsLifecycle == Spec => ImplementsLifecycle
<1>1. LifeInv /\ [Next]_vars => [Lifecycle!Next]_(Lifecycle!vars)
  BY NextLife DEF LifeStep
<1> QED
  BY <1>1, InitLife, LifeInvariant, PTL DEF Spec, ImplementsLifecycle, Lifecycle!Spec

=============================================================================
