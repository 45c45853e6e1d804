------------------------- MODULE JobSchedulerProofs -------------------------
(***************************************************************************)
(* Machine-checked proofs about JobScheduler, for every set of events and  *)
(* processors, every configuration and every value of the bounds.          *)
(***************************************************************************)
EXTENDS JobScheduler, TLAPS

\* A handle that names no row is a handle: the scheduler holds it between jobs.
LEMMA NoHandleType == NoHandle \in Handle
<1>1. PICK e \in Events, p \in Processors : TRUE
  BY ConstantsAssumption
<1>2. <<e, p>> \in Jobs
  BY <1>1 DEF Jobs
<1>3. (CHOOSE j \in Jobs : TRUE) \in Jobs
  BY <1>2
<1> QED
  BY <1>3 DEF NoHandle, Handle

\* What an update of one row does to the table: it replaces the row the handle
\* names, or nothing when that row has gone.
LEMMA UpdateEffect ==
  ASSUME jobs \in [Jobs -> Row], NEW h \in Handle, NEW status \in Status,
         NEW attempts \in Nat, NEW retry \in {"null", "later", "due"}
  PROVE  /\ SetRow(h, status, attempts, retry) \in [Jobs -> Row]
         /\ UpdateJobStatus(h, status, retry) \in [Jobs -> Row]
<1>1. h.job \in Jobs /\ h.id \in Nat /\ jobs[h.job].attempts \in Nat
  BY DEF Handle, Row
<1>2. \A n \in Nat : [id |-> h.id, status |-> status, attempts |-> n, retry |-> retry] \in Row
  BY <1>1 DEF Row
<1> QED
  BY <1>1, <1>2 DEF UpdateJobStatus, SetRow

\* The handles the code forms are well-typed.
LEMMA HandleTypes ==
  ASSUME TypeOK
  PROVE  /\ \A j \in Jobs : HandleOf(j) \in Handle
         /\ \A j \in Jobs : [job |-> j, id |-> 0] \in Handle
         /\ \A j \in Jobs : [job |-> j, id |-> jobs[j].id + 1] \in Handle
         /\ \A j \in Jobs : Inserted(jobs[j]) \in Row
         /\ \A r \in Replayers : rcur[r] \in Handle /\ rcur[r].job \in Jobs
         /\ cur.job \in Jobs
  BY DEF TypeOK, HandleOf, Handle, Row, Inserted, Status

\* A replay process that moves on keeps well-typed local variables.
LEMMA ReplayingType ==
  ASSUME TypeOK, NEW r \in Replayers, NEW h \in Handle,
         NEW point \in {"off", "next", "create", "relookup", "claim", "run"}, Replaying(r, h, point)
  PROVE  /\ rpc' \in [Replayers -> {"off", "next", "create", "relookup", "claim", "run"}]
         /\ rcur' \in [Replayers -> Handle]
  BY DEF TypeOK, Replaying

\* An empty database and a stopped daemon are well-typed.
LEMMA TypeInit == Init => TypeOK
<1> SUFFICES ASSUME Init PROVE TypeOK
  OBVIOUS
<1>1. channel \in Seq(SUBSET Events)
  BY DEF Init
<1> QED
  BY <1>1, NoHandleType, ConstantsAssumption DEF Init, TypeOK, Row, Status

\* Every step keeps the types.
LEMMA TypeStep == TypeOK /\ [Next]_vars => TypeOK'
<1> SUFFICES ASSUME TypeOK, [Next]_vars PROVE TypeOK'
  OBVIOUS
<1> USE DEF TypeOK, dbVars, loopVars, schedVars, daemonVars, replayVars, boundVars
<1>1. ASSUME NEW e \in Events, Arrive(e) PROVE TypeOK'
  BY <1>1 DEF Arrive
<1>2. ASSUME NEW e \in Events, Age(e) PROVE TypeOK'
  BY <1>2 DEF Age
<1>3. ASSUME NEW j \in Jobs, RetryDue(j) PROVE TypeOK'
  <2>1. jobs[j].status \in Status /\ HandleOf(j) \in Handle
    BY HandleTypes DEF Row
  <2>2. UpdateJobStatus(HandleOf(j), jobs[j].status, "due") \in [Jobs -> Row]
    BY <2>1, UpdateEffect
  <2> QED
    BY <1>3, <2>2 DEF RetryDue, SetJobs
<1>4. ASSUME Fetch PROVE TypeOK'
  BY <1>4 DEF Fetch, Lowest, Undispatched
<1>5. ASSUME Send PROVE TypeOK'
  BY <1>5 DEF Send
<1>6. ASSUME Receive PROVE TypeOK'
  BY <1>6 DEF Receive, AtLoop
<1>7. ASSUME NEW e \in Events, NEW o \in Outcome, Register(e, o) PROVE TypeOK'
  <2>1. \A j \in Jobs : Inserted(jobs[j]) \in Row
    BY DEF Inserted, Row, Status
  <2> DEFINE routed   == RoutedTo(e)
             inserted == {j \in routed : ~Exists(j)}
             rows     == [j \in Jobs |-> IF j \in inserted THEN Inserted(jobs[j]) ELSE jobs[j]]
  <2>a. rows \in [Jobs -> Row] /\ routed \subseteq Jobs
    BY <2>1, ConstantsAssumption DEF RoutedTo
  <2>b. SetJobs(rows, routed) \/ UNCHANGED <<jobs, owed>>
    BY <1>7 DEF Register
  <2>2. jobs' \in [Jobs -> Row] /\ owed' \subseteq Jobs
    BY <2>a, <2>b DEF SetJobs
  <2>3. work' \subseteq Handle
    BY <1>7, ConstantsAssumption DEF Register, RoutedTo, Handle, Row
  <2>4. events' \in [Events -> {"absent", "stored", "dispatched", "deleted"}]
    BY <1>7 DEF Register
  <2>5. sweeping' \in BOOLEAN
    BY <1>7, Zenon DEF Register
  <2> QED
    BY <1>7, <2>2, <2>3, <2>4, <2>5 DEF Register, Call
<1>8. ASSUME Sweep PROVE TypeOK'
  BY <1>8 DEF Sweep, Sweepable, HandleOf, Handle, Row
<1>9. ASSUME NEW h \in work, NEW o \in Outcome, NextJob(h, o) PROVE TypeOK'
  BY <1>9 DEF NextJob, Call
<1>10. ASSUME NEW o \in Outcome, Abandon(o) PROVE TypeOK'
  <2>1. UpdateJobStatus(cur, "abandoned", "null") \in [Jobs -> Row]
    BY UpdateEffect DEF Status
  <2> QED
    BY <1>10, <2>1, NoHandleType DEF Abandon, SetJobs, Call, JobOver
<1>11. ASSUME NEW o \in Outcome, Claim(o) PROVE TypeOK'
  <2>1. jobs[cur.job].attempts + 1 \in Nat
    BY HandleTypes DEF Row
  <2>2. SetRow(cur, "in_progress", jobs[cur.job].attempts + 1, "null") \in [Jobs -> Row]
    BY <2>1, UpdateEffect DEF Status
  <2> QED
    BY <1>11, <2>2, NoHandleType DEF Claim, SetJobs, Call, JobOver
<1>12. ASSUME NEW o \in Outcome, Complete(o) PROVE TypeOK'
  <2>1. UpdateJobStatus(cur, "completed", "null") \in [Jobs -> Row]
    BY UpdateEffect DEF Status
  <2> QED
    BY <1>12, <2>1, NoHandleType DEF Complete, SetJobs, Call, JobOver
<1>13. ASSUME NEW o \in Outcome, ReadAttempts(o) PROVE TypeOK'
  BY <1>13, NoHandleType DEF ReadAttempts, Call, JobOver
<1>14. ASSUME NEW o \in Outcome, WriteVerdict(o) PROVE TypeOK'
  <2>1. verdict \in Status
    BY DEF Status
  <2>2. UpdateJobStatus(cur, verdict, IF verdict = "failed" THEN "later" ELSE "null") \in [Jobs -> Row]
    BY <2>1, UpdateEffect
  <2> QED
    BY <1>14, <2>2, NoHandleType DEF WriteVerdict, SetJobs, Call, JobOver
<1>15. ASSUME CleanupSelect PROVE TypeOK'
  BY <1>15 DEF CleanupSelect
<1>16. ASSUME CleanupDelete PROVE TypeOK'
  BY <1>16 DEF CleanupDelete, SetJobs, Row, Status
<1>17. ASSUME CleanupFail PROVE TypeOK'
  BY <1>17 DEF CleanupFail, Call
<1>18. ASSUME NEW r \in Replayers, NEW e \in Events, ReplayStart(r, e) PROVE TypeOK'
  BY <1>18, NoHandleType, ConstantsAssumption DEF ReplayStart, Replaying
<1>19. ASSUME NEW r \in Replayers, NEW j \in rtodo[r], ReplayLookup(r, j) PROVE TypeOK'
  <2>1. j \in Jobs
    BY <1>19
  <2>2. \/ Replaying(r, HandleOf(j), "claim")
        \/ Replaying(r, [job |-> j, id |-> 0], "create")
    BY <1>19 DEF ReplayLookup
  <2> QED
    BY <1>19, <2>1, <2>2, HandleTypes, ReplayingType DEF ReplayLookup
<1>20. ASSUME NEW r \in Replayers, NEW o \in Outcome, ReplayCreate(r, o) PROVE TypeOK'
  <2> DEFINE j == rcur[r].job
  <2>1. j \in Jobs /\ Inserted(jobs[j]) \in Row
    BY <1>20, HandleTypes
  <2>2. jobs' \in [Jobs -> Row] /\ owed' \subseteq Jobs
    BY <1>20, <2>1 DEF ReplayCreate, SetJobs
  <2>3. \/ Replaying(r, [job |-> j, id |-> jobs[j].id + 1], "claim") /\ UNCHANGED rtodo
        \/ Replaying(r, rcur[r], "relookup") /\ UNCHANGED rtodo
        \/ Replaying(r, NoHandle, "off") /\ rtodo' = [rtodo EXCEPT ![r] = {}]
    BY <1>20 DEF ReplayCreate, ReplayExit
  <2>4. /\ rpc' \in [Replayers -> {"off", "next", "create", "relookup", "claim", "run"}]
        /\ rcur' \in [Replayers -> Handle] /\ rtodo' \in [Replayers -> SUBSET Jobs]
    BY <2>1, <2>3, HandleTypes, NoHandleType, ReplayingType
  <2> QED
    BY <1>20, <2>2, <2>4 DEF ReplayCreate, Call
<1>21. ASSUME NEW r \in Replayers, ReplayRelookup(r) PROVE TypeOK'
  <2>1. \/ Replaying(r, HandleOf(rcur[r].job), "claim") /\ UNCHANGED rtodo
        \/ Replaying(r, NoHandle, "off") /\ rtodo' = [rtodo EXCEPT ![r] = {}]
    BY <1>21 DEF ReplayRelookup, ReplayExit
  <2>2. /\ rpc' \in [Replayers -> {"off", "next", "create", "relookup", "claim", "run"}]
        /\ rcur' \in [Replayers -> Handle] /\ rtodo' \in [Replayers -> SUBSET Jobs]
    BY <2>1, HandleTypes, NoHandleType, ReplayingType
  <2> QED
    BY <1>21, <2>2 DEF ReplayRelookup
<1>22. ASSUME NEW r \in Replayers, NEW o \in Outcome, ReplayClaim(r, o) PROVE TypeOK'
  <2>2. SetRow(rcur[r], "in_progress", 1, "null") \in [Jobs -> Row]
    BY UpdateEffect DEF Status
  <2> QED
    BY <1>22, <2>2, NoHandleType DEF ReplayClaim, Replaying, ReplayContinue, SetJobs, Call
<1>23. ASSUME NEW r \in Replayers, NEW o \in Outcome, NEW s \in {"completed", "failed"},
              ReplayFinish(r, s, o)
       PROVE TypeOK'
  <2>1. UpdateJobStatus(rcur[r], s, "null") \in [Jobs -> Row]
    BY <1>23, UpdateEffect DEF Status
  <2> QED
    BY <1>23, <2>1, NoHandleType DEF ReplayFinish, Replaying, ReplayContinue, SetJobs, Call
<1>24. ASSUME NEW r \in Replayers, ReplayEnd(r) PROVE TypeOK'
  BY <1>24, NoHandleType DEF ReplayEnd, Replaying, ReplayExit, Call
<1>25. ASSUME Stop PROVE TypeOK'
  <2>1. channel' \in Seq(SUBSET Events)
    BY <1>25 DEF Stop
  <2>2. up' \in BOOLEAN /\ sweeping' \in BOOLEAN
    BY <1>25, Zenon DEF Stop
  <2> QED
    BY <1>25, <2>1, <2>2, NoHandleType DEF Stop, JobOver
<1>26. ASSUME Start PROVE TypeOK'
  BY <1>26 DEF Start, LoadConfig
<1>27. CASE UNCHANGED vars
  BY <1>27 DEF vars
<1> QED
  BY <1>1, <1>2, <1>3, <1>4, <1>5, <1>6, <1>7, <1>8, <1>9, <1>10, <1>11, <1>12, <1>13, <1>14, <1>15,
     <1>16, <1>17, <1>18, <1>19, <1>20, <1>21, <1>22, <1>23, <1>24, <1>25, <1>26, <1>27
  DEF Next, EventLoopNext, SchedulerBody, CleanupNext, ReplayStep

\* The types hold in every behaviour.
THEOREM TypeCorrect == Spec => []TypeOK
  BY TypeInit, TypeStep, PTL DEF Spec
-----------------------------------------------------------------------------
(* The inductive invariant.  Its heart is ClaimHeld: a row that is          *)
(* in_progress is left alone by everyone but its holder, because every      *)
(* claim, abandonment and deletion tests the status in the statement that   *)
(* changes it.                                                              *)

\* No row and no holder: the invariant holds when nothing has arrived.
LEMMA QueueInvInit == Init => QueueInv
<1> SUFFICES ASSUME Init PROVE QueueInv
  OBVIOUS
<1>1. TypeOK
  BY TypeInit
<1> QED
  BY <1>1 DEF Init, QueueInv, ClaimHeld, OneExecutor, RowsConsistent, AttemptsBounded, OwedUnfinished,
       VerdictCurrent, RunsAsConfigured, SchedulerHolds, ReplayHolds, Exists

\* Steps that touch neither the tables nor a holder.
LEMMA Bystanders ==
  ASSUME QueueInv, TypeOK',
         UNCHANGED <<events, jobs, owed, up, eligible, pc, cur, verdict, rpc, rcur>>
  PROVE  QueueInv'
  BY DEF QueueInv, ClaimHeld, OneExecutor, RowsConsistent, AttemptsBounded, OwedUnfinished, VerdictCurrent,
       RunsAsConfigured, SchedulerHolds, ReplayHolds, Exists, EventExists, RowIs

\* What one row must satisfy for the table to stay consistent.
RowFits(j, row) ==
  /\ row.status # "none"
  /\ row.status = "pending" => row.attempts = 0
  /\ row.retry # "null" => row.status = "failed" /\ row.attempts < MaxRetries[j[2]]
  /\ row.attempts <= 1 \/ row.attempts <= MaxRetries[j[2]]

\* A step that changes one row, to one that fits, keeps the table consistent.
LEMMA OneRowChanges ==
  ASSUME QueueInv, TypeOK', NEW k \in Jobs, NEW row \in Row,
         jobs' = [jobs EXCEPT ![k] = row], owed' = {j \in owed : jobs'[j].status \notin Terminal},
         events' = events, RowFits(k, row), Exists(k) \/ EventExists(k[1])
  PROVE  RowsConsistent' /\ AttemptsBounded' /\ OwedUnfinished'
<1>1. /\ jobs'[k] = row
      /\ \A j \in Jobs : j # k => jobs'[j] = jobs[j]
  BY DEF QueueInv, TypeOK
<1>2. EventExists(k[1])'
  BY DEF QueueInv, RowsConsistent, EventExists
<1>3. RowsConsistent'
  BY <1>1, <1>2 DEF QueueInv, RowsConsistent, RowFits, Exists, EventExists
<1>4. AttemptsBounded'
  BY <1>1 DEF QueueInv, AttemptsBounded, RowFits
<1>5. OwedUnfinished'
  BY <1>1 DEF QueueInv, OwedUnfinished, RowFits, Exists, TypeOK
<1> QED
  BY <1>3, <1>4, <1>5

\* The same for an update through a handle, with what it leaves in the table.
LEMMA UpdateKeepsRows ==
  ASSUME QueueInv, TypeOK', NEW h \in Handle, RowIs(h), NEW status \in Status \ {"none"},
         NEW n \in Nat, NEW retry \in {"null", "later", "due"},
         jobs' = SetRow(h, status, n, retry), owed' = {j \in owed : jobs'[j].status \notin Terminal},
         events' = events, status = "pending" => n = 0,
         retry # "null" => status = "failed" /\ n < MaxRetries[h.job[2]],
         n <= 1 \/ n <= MaxRetries[h.job[2]]
  PROVE  /\ RowsConsistent' /\ AttemptsBounded' /\ OwedUnfinished'
         /\ h.job \in Jobs
         /\ jobs'[h.job] = [id |-> h.id, status |-> status, attempts |-> n, retry |-> retry]
         /\ \A j \in Jobs : j # h.job => jobs'[j] = jobs[j]
<1> DEFINE row == [id |-> h.id, status |-> status, attempts |-> n, retry |-> retry]
<1>1. h.job \in Jobs /\ row \in Row
  BY DEF Handle, Row
<1>2. jobs' = [jobs EXCEPT ![h.job] = row]
  BY DEF SetRow
<1>3. RowFits(h.job, row)
  BY DEF RowFits
<1>4. Exists(h.job)
  BY DEF RowIs
<1>5. RowsConsistent' /\ AttemptsBounded' /\ OwedUnfinished'
  BY <1>1, <1>2, <1>3, <1>4, OneRowChanges
<1> QED
  BY <1>1, <1>2, <1>5 DEF QueueInv, TypeOK

\* A step that releases what the scheduler holds, if anything, and changes no row
\* but its own or one that is not in progress, leaves every claim in force.
LEMMA SchedulerReleases ==
  ASSUME QueueInv, TypeOK', JobOver, UNCHANGED <<up, eligible, rpc, rcur>>,
         \A j \in Jobs : jobs'[j] = jobs[j] \/ (SchedulerHolds /\ cur.job = j) \/ jobs[j].status # "in_progress"
  PROVE  ClaimHeld' /\ OneExecutor' /\ VerdictCurrent' /\ RunsAsConfigured'
<1>1. pc' = "idle"
  BY DEF JobOver
<1>2. \A r \in Replayers : ReplayHolds(r)' =>
         /\ ReplayHolds(r) /\ rcur'[r] = rcur[r] /\ rcur[r].job \in Jobs
         /\ jobs'[rcur[r].job] = jobs[rcur[r].job]
  BY DEF ReplayHolds, QueueInv, TypeOK, Handle, OneExecutor, ClaimHeld
<1>3. ClaimHeld' /\ OneExecutor'
  BY <1>1, <1>2 DEF QueueInv, ClaimHeld, OneExecutor, SchedulerHolds, ReplayHolds, RowIs, Exists
<1>4. VerdictCurrent' /\ RunsAsConfigured'
  BY <1>1 DEF VerdictCurrent, RunsAsConfigured, SchedulerHolds
<1> QED
  BY <1>3, <1>4

\* The same for a step of a replay process that ends up holding nothing.
LEMMA ReplayReleases ==
  ASSUME QueueInv, TypeOK', UNCHANGED <<up, eligible, pc, cur, verdict>>,
         NEW r \in Replayers, NEW h, NEW point, point # "run", Replaying(r, h, point),
         \A j \in Jobs : jobs'[j] = jobs[j] \/ (ReplayHolds(r) /\ rcur[r].job = j) \/ jobs[j].status # "in_progress"
  PROVE  ClaimHeld' /\ OneExecutor' /\ VerdictCurrent' /\ RunsAsConfigured'
<1>1. ~ReplayHolds(r)' /\ \A q \in Replayers : q # r => rpc'[q] = rpc[q] /\ rcur'[q] = rcur[q]
  BY DEF Replaying, ReplayHolds, QueueInv, TypeOK
<1>2. \A q \in Replayers : ReplayHolds(q)' =>
         /\ ReplayHolds(q) /\ rcur'[q] = rcur[q] /\ rcur[q].job \in Jobs
         /\ jobs'[rcur[q].job] = jobs[rcur[q].job]
  <2> SUFFICES ASSUME NEW q \in Replayers, ReplayHolds(q)'
               PROVE  /\ ReplayHolds(q) /\ rcur'[q] = rcur[q] /\ rcur[q].job \in Jobs
                      /\ jobs'[rcur[q].job] = jobs[rcur[q].job]
    OBVIOUS
  <2>1. q # r /\ ReplayHolds(q) /\ rcur'[q] = rcur[q]
    BY <1>1 DEF ReplayHolds
  <2>2. rcur[q].job \in Jobs /\ jobs[rcur[q].job].status = "in_progress"
    BY <2>1 DEF QueueInv, TypeOK, Handle, ClaimHeld
  <2>3. ~(ReplayHolds(r) /\ rcur[r].job = rcur[q].job)
    BY <2>1 DEF QueueInv, OneExecutor
  <2> QED
    BY <2>1, <2>2, <2>3
<1>3. SchedulerHolds => cur.job \in Jobs /\ jobs'[cur.job] = jobs[cur.job]
  BY DEF QueueInv, TypeOK, Handle, OneExecutor, ClaimHeld
<1>4. ClaimHeld' /\ OneExecutor'
  BY <1>2, <1>3 DEF QueueInv, ClaimHeld, OneExecutor, SchedulerHolds, ReplayHolds, RowIs, Exists
<1>5. VerdictCurrent' /\ RunsAsConfigured'
  BY <1>3 DEF QueueInv, VerdictCurrent, RunsAsConfigured, SchedulerHolds
<1> QED
  BY <1>4, <1>5

\* A step that leaves the tables alone keeps them consistent.
LEMMA SameRows ==
  ASSUME QueueInv, UNCHANGED <<events, jobs, owed>>
  PROVE  RowsConsistent' /\ AttemptsBounded' /\ OwedUnfinished'
  BY DEF QueueInv, RowsConsistent, AttemptsBounded, OwedUnfinished, Exists, EventExists

\* What a statement that writes through h, if it has any effect, does to the tables.
Writes(h, status, n, retry) ==
  /\ RowIs(h)
  /\ jobs' = SetRow(h, status, n, retry)
  /\ owed' = {j \in owed : jobs'[j].status \notin Terminal}

\* What is written makes a row that may stand in the table.
Fits(h, status, n, retry) ==
  /\ status \in Status \ {"none"} /\ n \in Nat /\ retry \in {"null", "later", "due"}
  /\ status = "pending" => n = 0
  /\ retry # "null" => status = "failed" /\ n < MaxRetries[h.job[2]]
  /\ n <= 1 \/ n <= MaxRetries[h.job[2]]

\* A write of the model, in those terms.
LEMMA WrittenRows ==
  ASSUME NEW h, RowIs(h), NEW status, NEW n, NEW retry, SetJobs(SetRow(h, status, n, retry), {})
  PROVE  Writes(h, status, n, retry)
<1>1. jobs' = SetRow(h, status, n, retry)
  BY DEF SetJobs
<1>2. owed' = {j \in owed : SetRow(h, status, n, retry)[j].status \notin Terminal}
  <2>1. owed \cup {} = owed
    OBVIOUS
  <2> QED
    BY <2>1 DEF SetJobs
<1> QED
  BY <1>1, <1>2 DEF Writes

\* A write that fits keeps the table consistent, and every other row as it was.
LEMMA WritesKeepRows ==
  ASSUME QueueInv, TypeOK', NEW h \in Handle, NEW status, NEW n, NEW retry,
         Writes(h, status, n, retry), Fits(h, status, n, retry), events' = events
  PROVE  /\ RowsConsistent' /\ AttemptsBounded' /\ OwedUnfinished'
         /\ h.job \in Jobs
         /\ jobs'[h.job] = [id |-> h.id, status |-> status, attempts |-> n, retry |-> retry]
         /\ \A j \in Jobs : j # h.job => jobs'[j] = jobs[j]
  BY UpdateKeepsRows DEF Writes, Fits

\* The end of execute_job, with or without a last write to the row.
LEMMA SchedulerEnds ==
  ASSUME QueueInv, TypeOK', JobOver, UNCHANGED <<events, up, eligible, rpc, rcur>>,
         NEW status, NEW n, NEW retry,
         \/ UNCHANGED <<jobs, owed>>
         \/ /\ Writes(cur, status, n, retry) /\ Fits(cur, status, n, retry)
            /\ SchedulerHolds \/ jobs[cur.job].status # "in_progress"
  PROVE  QueueInv'
<1>1. CASE UNCHANGED <<jobs, owed>>
  BY <1>1, SameRows, SchedulerReleases DEF QueueInv
<1>2. CASE ~UNCHANGED <<jobs, owed>>
  <2>1. cur \in Handle
    BY DEF QueueInv, TypeOK
  <2>2. /\ RowsConsistent' /\ AttemptsBounded' /\ OwedUnfinished'
        /\ \A j \in Jobs : j # cur.job => jobs'[j] = jobs[j]
    BY <1>2, <2>1, WritesKeepRows
  <2>3. \A j \in Jobs : jobs'[j] = jobs[j] \/ (SchedulerHolds /\ cur.job = j) \/ jobs[j].status # "in_progress"
    BY <1>2, <2>2
  <2>4. ClaimHeld' /\ OneExecutor' /\ VerdictCurrent' /\ RunsAsConfigured'
    BY <2>3, SchedulerReleases
  <2> QED
    BY <2>2, <2>4 DEF QueueInv
<1> QED
  BY <1>1, <1>2

\* A step of a replay process that ends up holding nothing, with or without a write.
LEMMA ReplayEnds ==
  ASSUME QueueInv, TypeOK', UNCHANGED <<events, up, eligible, pc, cur, verdict>>,
         NEW r \in Replayers, NEW h, NEW point, point # "run", Replaying(r, h, point),
         NEW status, NEW n, NEW retry,
         \/ UNCHANGED <<jobs, owed>>
         \/ /\ Writes(rcur[r], status, n, retry) /\ Fits(rcur[r], status, n, retry)
            /\ ReplayHolds(r) \/ jobs[rcur[r].job].status # "in_progress"
  PROVE  QueueInv'
<1>1. CASE UNCHANGED <<jobs, owed>>
  BY <1>1, SameRows, ReplayReleases DEF QueueInv
<1>2. CASE ~UNCHANGED <<jobs, owed>>
  <2>1. rcur[r] \in Handle
    BY DEF QueueInv, TypeOK
  <2>2. /\ RowsConsistent' /\ AttemptsBounded' /\ OwedUnfinished'
        /\ \A j \in Jobs : j # rcur[r].job => jobs'[j] = jobs[j]
    BY <1>2, <2>1, WritesKeepRows
  <2>3. \A j \in Jobs : jobs'[j] = jobs[j] \/ (ReplayHolds(r) /\ rcur[r].job = j) \/ jobs[j].status # "in_progress"
    BY <1>2, <2>2
  <2>4. ClaimHeld' /\ OneExecutor' /\ VerdictCurrent' /\ RunsAsConfigured'
    BY <2>3, ReplayReleases
  <2> QED
    BY <2>2, <2>4 DEF QueueInv
<1> QED
  BY <1>1, <1>2

\* Every step of every task keeps the invariant.
LEMMA QueueInvStep == QueueInv /\ [Next]_vars => QueueInv'
<1> SUFFICES ASSUME QueueInv, [Next]_vars PROVE QueueInv'
  OBVIOUS
<1>0. TypeOK /\ TypeOK'
  BY TypeStep DEF QueueInv
<1> USE <1>0 DEF dbVars, loopVars, schedVars, daemonVars, replayVars, boundVars
<1>1. ASSUME NEW e \in Events, Arrive(e) PROVE QueueInv'
  BY <1>1 DEF Arrive, QueueInv, TypeOK, ClaimHeld, OneExecutor, RowsConsistent, AttemptsBounded, OwedUnfinished, VerdictCurrent,
       RunsAsConfigured, SchedulerHolds, ReplayHolds, Exists, EventExists, RowIs, Jobs
<1>2. ASSUME NEW e \in Events, Age(e) PROVE QueueInv'
  BY <1>2, Bystanders DEF Age
<1>3. ASSUME NEW j \in Jobs, RetryDue(j) PROVE QueueInv'
  <2> DEFINE h == HandleOf(j)
             n == jobs[j].attempts
             s == jobs[j].status
  <2>1. h \in Handle /\ h.job = j /\ h.id = jobs[j].id /\ s = "failed" /\ RowIs(h)
    BY <1>3, HandleTypes DEF HandleOf, RetryDue, QueueInv, RowsConsistent, RowIs, Exists
  <2>2. UpdateJobStatus(h, s, "due") = SetRow(h, s, n, "due")
    BY <2>1 DEF UpdateJobStatus
  <2>3. Writes(h, s, n, "due")
    BY <1>3, <2>1, <2>2, WrittenRows DEF RetryDue
  <2>4. Fits(h, s, n, "due")
    BY <1>3, <2>1 DEF RetryDue, TypeOK, Row, Status, QueueInv, RowsConsistent, AttemptsBounded, Fits
  <2>5. UNCHANGED <<events, up, eligible, pc, cur, verdict, rpc, rcur>>
    BY <1>3 DEF RetryDue
  <2>6. /\ RowsConsistent' /\ AttemptsBounded' /\ OwedUnfinished'
        /\ jobs'[j] = [id |-> jobs[j].id, status |-> s, attempts |-> n, retry |-> "due"]
        /\ \A k \in Jobs : k # j => jobs'[k] = jobs[k]
    BY <2>1, <2>3, <2>4, <2>5, WritesKeepRows
  <2>7. \A k \in Jobs : /\ jobs'[k].id = jobs[k].id
                       /\ jobs'[k].status = jobs[k].status
                       /\ jobs'[k].attempts = jobs[k].attempts
    BY <2>6
  <2> HIDE DEF h, n, s
  <2>8. ClaimHeld' /\ OneExecutor' /\ VerdictCurrent' /\ RunsAsConfigured'
    BY <2>5, <2>7, HandleTypes
    DEF QueueInv, ClaimHeld, OneExecutor, VerdictCurrent, RunsAsConfigured, SchedulerHolds, ReplayHolds, RowIs, Exists
  <2> QED
    BY <2>6, <2>8 DEF QueueInv
<1>4. ASSUME Fetch PROVE QueueInv'
  BY <1>4, Bystanders DEF Fetch
<1>5. ASSUME Send PROVE QueueInv'
  BY <1>5, Bystanders DEF Send
<1>6. ASSUME Receive PROVE QueueInv'
  BY <1>6, Bystanders DEF Receive
<1>7. ASSUME NEW e \in Events, NEW o \in Outcome, Register(e, o) PROVE QueueInv'
  <2> DEFINE routed   == RoutedTo(e)
             inserted == {j \in routed : ~Exists(j)}
  <2>1. UNCHANGED <<up, eligible, pc, cur, verdict, rpc, rcur>> /\ pc = "idle"
    BY <1>7 DEF Register, BetweenJobs
  <2>2. CASE UNCHANGED <<jobs, owed, events>>
    BY <2>1, <2>2, Bystanders
  <2>3. CASE ~UNCHANGED <<jobs, owed, events>>
    <3>1. /\ events[e] = "stored" /\ events' = [events EXCEPT ![e] = "dispatched"]
          /\ jobs' = [j \in Jobs |-> IF j \in inserted THEN Inserted(jobs[j]) ELSE jobs[j]]
          /\ owed' = {j \in owed \cup routed : jobs'[j].status \notin Terminal}
      BY <1>7, <2>3 DEF Register, SetJobs
    <3>2. \A f \in Events : EventExists(f) => EventExists(f)'
      BY <3>1 DEF EventExists, TypeOK
    <3>3. \A j \in Jobs : IF j \in inserted
                         THEN /\ jobs'[j].status = "pending" /\ jobs'[j].attempts = 0 /\ jobs'[j].retry = "null"
                              /\ ~Exists(j) /\ EventExists(j[1])'
                         ELSE jobs'[j] = jobs[j]
      BY <3>1 DEF RoutedTo, Inserted, EventExists, TypeOK
    <3>4. RowsConsistent'
      BY <3>2, <3>3 DEF QueueInv, RowsConsistent, Exists, Jobs
    <3>5. AttemptsBounded'
      BY <3>3 DEF QueueInv, AttemptsBounded
    <3>6. \A j \in owed' : j \in Jobs /\ jobs'[j].status \notin Terminal /\ (j \in owed \/ j \in routed)
      BY <3>1, ConstantsAssumption DEF TypeOK
    <3>7. OwedUnfinished'
      BY <3>3, <3>6 DEF QueueInv, OwedUnfinished, Exists
    <3>8. \A j \in Jobs : jobs[j].status = "in_progress" => jobs'[j] = jobs[j]
      BY <3>3 DEF Exists
    <3> HIDE DEF routed, inserted
    <3>9. ClaimHeld' /\ OneExecutor' /\ VerdictCurrent' /\ RunsAsConfigured'
      BY <2>1, <3>8, HandleTypes
      DEF QueueInv, ClaimHeld, OneExecutor, VerdictCurrent, RunsAsConfigured, SchedulerHolds, ReplayHolds, RowIs, Exists
    <3> QED
      BY <3>4, <3>5, <3>7, <3>9 DEF QueueInv
  <2> QED
    BY <2>2, <2>3
<1>8. ASSUME Sweep PROVE QueueInv'
  BY <1>8, Bystanders DEF Sweep
<1>9. ASSUME NEW h \in work, NEW o \in Outcome, NextJob(h, o) PROVE QueueInv'
  BY <1>9 DEF NextJob, BetweenJobs, QueueInv, ClaimHeld, OneExecutor, RowsConsistent, AttemptsBounded, OwedUnfinished, VerdictCurrent,
       RunsAsConfigured, SchedulerHolds, ReplayHolds, Exists, EventExists, RowIs
<1>10. ASSUME NEW o \in Outcome, Abandon(o) PROVE QueueInv'
  <2> DEFINE n == jobs[cur.job].attempts
  <2>1. JobOver /\ UNCHANGED <<events, up, eligible, rpc, rcur>>
    BY <1>10 DEF Abandon
  <2>2. UNCHANGED <<jobs, owed>> \/ (Claimable(cur) /\ Writes(cur, "abandoned", n, "null"))
    <3>1. CASE Claimable(cur) /\ Applied(o)
      <4>1. SetJobs(SetRow(cur, "abandoned", n, "null"), {}) /\ RowIs(cur)
        BY <1>10, <3>1 DEF Abandon, UpdateJobStatus, Claimable
      <4> QED
        BY <3>1, <4>1, WrittenRows
    <3>2. CASE ~(Claimable(cur) /\ Applied(o))
      <4>1. UNCHANGED <<jobs, owed>>
        BY <1>10, <3>2 DEF Abandon
      <4> QED
        BY <4>1
    <3> QED
      BY <3>1, <3>2
  <2>3. Fits(cur, "abandoned", n, "null")
    BY HandleTypes DEF TypeOK, Row, QueueInv, AttemptsBounded, Fits, Status
  <2>4. Claimable(cur) => jobs[cur.job].status # "in_progress"
    BY DEF Claimable, Runnable
  <2> QED
    BY <2>1, <2>2, <2>3, <2>4, SchedulerEnds
<1>11. ASSUME NEW o \in Outcome, Claim(o) PROVE QueueInv'
  <2> DEFINE n == jobs[cur.job].attempts + 1
  <2>1. Claimable(cur) => Fits(cur, "in_progress", n, "null")
    <3> SUFFICES ASSUME Claimable(cur) PROVE Fits(cur, "in_progress", n, "null")
      OBVIOUS
    <3>1. cur.job \in Jobs /\ jobs[cur.job].attempts \in Nat /\ MaxRetries[cur.job[2]] \in Nat
      BY HandleTypes, ConstantsAssumption DEF TypeOK, Row, Jobs
    <3>2. jobs[cur.job].attempts = 0 \/ jobs[cur.job].attempts < MaxRetries[cur.job[2]]
      BY <3>1 DEF QueueInv, RowsConsistent, Claimable, Runnable
    <3>3. n \in Nat /\ (n <= 1 \/ n <= MaxRetries[cur.job[2]])
      BY <3>1, <3>2
    <3> QED
      BY <3>3 DEF Fits, Status
  <2>2. Claimable(cur) => RowIs(cur) /\ jobs[cur.job].status # "in_progress"
    BY DEF Claimable, Runnable
  <2>3. UNCHANGED <<jobs, owed>> \/ (Claimable(cur) /\ Writes(cur, "in_progress", n, "null"))
    <3>1. CASE Claimable(cur) /\ Applied(o)
      <4>1. SetJobs(SetRow(cur, "in_progress", n, "null"), {})
        BY <1>11, <3>1 DEF Claim
      <4> QED
        BY <2>2, <3>1, <4>1, WrittenRows
    <3>2. CASE ~(Claimable(cur) /\ Applied(o))
      <4>1. UNCHANGED <<jobs, owed>>
        BY <1>11, <3>2 DEF Claim
      <4> QED
        BY <4>1
    <3> QED
      BY <3>1, <3>2
  <2>4. UNCHANGED <<events, up, eligible, rpc, rcur>>
    BY <1>11 DEF Claim
  <2>5. CASE JobOver
    BY <2>1, <2>2, <2>3, <2>4, <2>5, SchedulerEnds
  <2>6. CASE ~JobOver
    <3>0. /\ Claimable(cur) /\ SetJobs(SetRow(cur, "in_progress", n, "null"), {})
          /\ pc' = "run" /\ UNCHANGED <<cur, verdict>> /\ cur.job \in eligible /\ up
      BY <1>11, <2>6 DEF Claim, Applied, StillRouted
    <3>1. /\ Claimable(cur) /\ Writes(cur, "in_progress", n, "null")
          /\ pc' = "run" /\ UNCHANGED <<cur, verdict>> /\ cur.job \in eligible /\ up
      BY <2>2, <3>0, WrittenRows
    <3>2. cur \in Handle
      BY DEF TypeOK
    <3>3. /\ RowsConsistent' /\ AttemptsBounded' /\ OwedUnfinished'
          /\ cur.job \in Jobs
          /\ jobs'[cur.job] = [id |-> cur.id, status |-> "in_progress", attempts |-> n, retry |-> "null"]
          /\ \A j \in Jobs : j # cur.job => jobs'[j] = jobs[j]
      BY <2>1, <2>4, <3>1, <3>2, WritesKeepRows
    <3>4. \A r \in Replayers : ReplayHolds(r) => /\ rcur[r].job # cur.job
                                                /\ jobs'[rcur[r].job] = jobs[rcur[r].job]
      BY <2>2, <3>1, <3>3, HandleTypes DEF QueueInv, ClaimHeld
    <3>5. RowIs(cur)' /\ jobs'[cur.job].status = "in_progress"
      BY <3>1, <3>3 DEF RowIs, Exists
    <3>6. ClaimHeld'
      BY <2>4, <3>1, <3>4, <3>5 DEF QueueInv, ClaimHeld, ReplayHolds, SchedulerHolds, RowIs, Exists
    <3>7. OneExecutor'
      BY <2>4, <3>1, <3>4 DEF QueueInv, OneExecutor, ReplayHolds, SchedulerHolds
    <3>8. VerdictCurrent' /\ RunsAsConfigured'
      BY <2>4, <3>1 DEF VerdictCurrent, RunsAsConfigured, SchedulerHolds
    <3> QED
      BY <3>3, <3>6, <3>7, <3>8 DEF QueueInv
  <2> QED
    BY <2>5, <2>6
<1>12. ASSUME NEW o \in Outcome, Complete(o) PROVE QueueInv'
  <2> DEFINE n == jobs[cur.job].attempts
  <2>1. JobOver /\ SchedulerHolds /\ RowIs(cur) /\ UNCHANGED <<events, up, eligible, rpc, rcur>>
    BY <1>12 DEF Complete, SchedulerHolds, QueueInv, ClaimHeld
  <2>2. UNCHANGED <<jobs, owed>> \/ Writes(cur, "completed", n, "null")
    <3>1. UNCHANGED <<jobs, owed>> \/ SetJobs(SetRow(cur, "completed", n, "null"), {})
      BY <1>12 DEF Complete, UpdateJobStatus
    <3> QED
      BY <2>1, <3>1, WrittenRows
  <2>3. Fits(cur, "completed", n, "null")
    BY HandleTypes DEF TypeOK, Row, QueueInv, AttemptsBounded, Fits, Status
  <2> QED
    BY <2>1, <2>2, <2>3, SchedulerEnds
<1>13. ASSUME NEW o \in Outcome, ReadAttempts(o) PROVE QueueInv'
  <2>1. UNCHANGED <<events, jobs, owed, up, eligible, rpc, rcur>> /\ pc = "run"
    BY <1>13 DEF ReadAttempts
  <2>2. CASE JobOver
    BY <2>1, <2>2, SchedulerEnds
  <2>3. CASE ~JobOver
    <3>1. /\ pc' = "verdict" /\ cur' = cur
          /\ verdict' = IF RetriesExhausted(cur.job[2], jobs[cur.job].attempts) THEN "abandoned" ELSE "failed"
      BY <1>13, <2>3 DEF ReadAttempts
    <3>2. MaxRetries[cur.job[2]] \in Nat /\ jobs[cur.job].attempts \in Nat
      BY HandleTypes, ConstantsAssumption DEF TypeOK, Row, Jobs
    <3>3. VerdictCurrent'
      BY <2>1, <3>1, <3>2 DEF VerdictCurrent, RetriesExhausted
    <3>4. ClaimHeld' /\ OneExecutor' /\ RunsAsConfigured'
      BY <2>1, <3>1 DEF QueueInv, ClaimHeld, OneExecutor, RunsAsConfigured, SchedulerHolds, ReplayHolds, RowIs, Exists
    <3> QED
      BY <2>1, <3>3, <3>4, SameRows DEF QueueInv
  <2> QED
    BY <2>2, <2>3
<1>14. ASSUME NEW o \in Outcome, WriteVerdict(o) PROVE QueueInv'
  <2> DEFINE n == jobs[cur.job].attempts
             retry == IF verdict = "failed" THEN "later" ELSE "null"
  <2>1. JobOver /\ SchedulerHolds /\ RowIs(cur) /\ UNCHANGED <<events, up, eligible, rpc, rcur>>
    BY <1>14 DEF WriteVerdict, SchedulerHolds, QueueInv, ClaimHeld
  <2>2. UNCHANGED <<jobs, owed>> \/ Writes(cur, verdict, n, retry)
    <3>1. UNCHANGED <<jobs, owed>> \/ SetJobs(SetRow(cur, verdict, n, retry), {})
      BY <1>14, Zenon DEF WriteVerdict, UpdateJobStatus
    <3> QED
      BY <2>1, <3>1, WrittenRows
  <2>3. Fits(cur, verdict, n, retry)
    BY <1>14, HandleTypes DEF WriteVerdict, TypeOK, Row, QueueInv, VerdictCurrent, AttemptsBounded, Fits, Status
  <2> QED
    BY <2>1, <2>2, <2>3, SchedulerEnds
<1>15. ASSUME CleanupSelect PROVE QueueInv'
  BY <1>15, Bystanders DEF CleanupSelect
<1>16. ASSUME CleanupDelete PROVE QueueInv'
  <2> DEFINE doomed  == {j \in Jobs : j[1] \in candidates /\ jobs[j].status \in Terminal}
             emptied == {e \in candidates : \A p \in Processors : ~Exists(<<e, p>>) \/ <<e, p>> \in doomed}
  <2>1. \A j \in Jobs : IF j \in doomed THEN jobs'[j].status = "none" /\ jobs'[j].attempts = 0 /\ jobs'[j].retry = "null"
                       ELSE jobs'[j] = jobs[j]
    BY <1>16 DEF CleanupDelete, SetJobs
  <2>2. \A j \in doomed : jobs[j].status \in Terminal /\ jobs[j].status # "in_progress"
    BY DEF Terminal
  <2>3. \A j \in Jobs : Exists(j)' => Exists(j) /\ j \notin doomed /\ j[1] \notin emptied
    BY <2>1 DEF Exists, Jobs
  <2>4. \A j \in Jobs : EventExists(j[1]) /\ j[1] \notin emptied => EventExists(j[1])'
    BY <1>16 DEF CleanupDelete, EventExists, Jobs
  <2>5. RowsConsistent' /\ AttemptsBounded'
    BY <2>1, <2>3, <2>4 DEF QueueInv, RowsConsistent, AttemptsBounded, Exists
  <2>6. owed' \subseteq owed /\ \A j \in owed : j \notin doomed
    BY <1>16, <2>2 DEF CleanupDelete, SetJobs, QueueInv, OwedUnfinished
  <2>7. OwedUnfinished'
    BY <2>1, <2>6 DEF QueueInv, TypeOK, OwedUnfinished, Exists
  <2>8. UNCHANGED <<up, eligible, pc, cur, verdict, rpc, rcur>>
    BY <1>16 DEF CleanupDelete
  <2>9. \A j \in Jobs : jobs[j].status = "in_progress" => jobs'[j] = jobs[j]
    BY <2>1, <2>2
  <2> HIDE DEF doomed, emptied
  <2>10. ClaimHeld' /\ OneExecutor' /\ VerdictCurrent' /\ RunsAsConfigured'
    BY <2>8, <2>9, HandleTypes
    DEF QueueInv, ClaimHeld, OneExecutor, VerdictCurrent, RunsAsConfigured, SchedulerHolds, ReplayHolds, RowIs, Exists
  <2> QED
    BY <2>5, <2>7, <2>10 DEF QueueInv
<1>17. ASSUME CleanupFail PROVE QueueInv'
  BY <1>17, Bystanders DEF CleanupFail
<1>18. ASSUME NEW r \in Replayers, NEW e \in Events, ReplayStart(r, e) PROVE QueueInv'
  <2>1. Replaying(r, NoHandle, "next") /\ UNCHANGED <<events, jobs, owed, up, eligible, pc, cur, verdict>>
    BY <1>18 DEF ReplayStart
  <2> QED
    BY <2>1, ReplayEnds
<1>19. ASSUME NEW r \in Replayers, NEW j \in rtodo[r], ReplayLookup(r, j) PROVE QueueInv'
  <2>1. UNCHANGED <<events, jobs, owed, up, eligible, pc, cur, verdict>>
    BY <1>19 DEF ReplayLookup
  <2>2. CASE Replaying(r, HandleOf(j), "claim")
    BY <2>1, <2>2, ReplayEnds
  <2>3. CASE Replaying(r, [job |-> j, id |-> 0], "create")
    BY <2>1, <2>3, ReplayEnds
  <2> QED
    BY <1>19, <2>2, <2>3 DEF ReplayLookup
<1>20. ASSUME NEW r \in Replayers, NEW o \in Outcome, ReplayCreate(r, o) PROVE QueueInv'
  <2> DEFINE j == rcur[r].job
  <2>1. /\ UNCHANGED <<events, up, eligible, pc, cur, verdict>> /\ ~ReplayHolds(r)
        /\ j \in Jobs
    BY <1>20, HandleTypes DEF ReplayCreate, ReplayHolds
  <2>2. PICK h, point : Replaying(r, h, point) /\ point # "run"
    BY <1>20 DEF ReplayCreate, ReplayExit
  <2>3. CASE UNCHANGED <<jobs, owed>>
    BY <2>1, <2>2, <2>3, ReplayEnds
  <2>4. CASE ~UNCHANGED <<jobs, owed>>
    <3>1. /\ EventExists(j[1]) /\ ~Exists(j)
          /\ jobs' = [jobs EXCEPT ![j] = Inserted(jobs[j])]
          /\ owed' = {k \in owed : jobs'[k].status \notin Terminal}
      BY <1>20, <2>4 DEF ReplayCreate, SetJobs
    <3>2. RowFits(j, Inserted(jobs[j])) /\ Inserted(jobs[j]) \in Row
      BY <2>1, HandleTypes DEF RowFits, Inserted
    <3>3. RowsConsistent' /\ AttemptsBounded' /\ OwedUnfinished'
      BY <2>1, <3>1, <3>2, OneRowChanges
    <3>4. \A k \in Jobs : jobs'[k] = jobs[k] \/ jobs[k].status # "in_progress"
      BY <3>1 DEF Exists, TypeOK
    <3>5. ClaimHeld' /\ OneExecutor' /\ VerdictCurrent' /\ RunsAsConfigured'
      BY <2>1, <2>2, <3>4, ReplayReleases
    <3> QED
      BY <3>3, <3>5 DEF QueueInv
  <2> QED
    BY <2>3, <2>4
<1>21. ASSUME NEW r \in Replayers, ReplayRelookup(r) PROVE QueueInv'
  <2>1. UNCHANGED <<events, jobs, owed, up, eligible, pc, cur, verdict>>
    BY <1>21 DEF ReplayRelookup
  <2>2. CASE Replaying(r, HandleOf(rcur[r].job), "claim")
    BY <2>1, <2>2, ReplayEnds
  <2>3. CASE Replaying(r, NoHandle, "off")
    BY <2>1, <2>3, ReplayEnds
  <2> QED
    BY <1>21, <2>2, <2>3 DEF ReplayRelookup, ReplayExit
<1>22. ASSUME NEW r \in Replayers, NEW o \in Outcome, ReplayClaim(r, o) PROVE QueueInv'
  <2> DEFINE h == rcur[r]
             free == RowIs(h) /\ jobs[h.job].status # "in_progress"
  <2>1. UNCHANGED <<events, up, eligible, pc, cur, verdict>> /\ h \in Handle
    BY <1>22, HandleTypes DEF ReplayClaim
  <2>2. UNCHANGED <<jobs, owed>> \/ (free /\ Writes(h, "in_progress", 1, "null"))
    <3>1. CASE free /\ Applied(o)
      <4>1. SetJobs(SetRow(h, "in_progress", 1, "null"), {})
        BY <1>22, <3>1 DEF ReplayClaim
      <4> QED
        BY <3>1, <4>1, WrittenRows
    <3>2. CASE ~(free /\ Applied(o))
      <4>1. UNCHANGED <<jobs, owed>>
        BY <1>22, <3>2 DEF ReplayClaim
      <4> QED
        BY <4>1
    <3> QED
      BY <3>1, <3>2
  <2>3. Fits(h, "in_progress", 1, "null")
    BY DEF Fits, Status
  <2>4. CASE Replaying(r, NoHandle, "next")
    BY <2>1, <2>2, <2>3, <2>4, ReplayEnds
  <2>5. CASE ~Replaying(r, NoHandle, "next")
    <3>1. Replaying(r, h, "run") /\ free /\ Writes(h, "in_progress", 1, "null")
      <4>1. Replaying(r, h, "run") /\ free /\ SetJobs(SetRow(h, "in_progress", 1, "null"), {})
        BY <1>22, <2>5 DEF ReplayClaim, ReplayContinue, Applied
      <4> QED
        BY <4>1, WrittenRows
    <3>2. /\ RowsConsistent' /\ AttemptsBounded' /\ OwedUnfinished'
          /\ h.job \in Jobs
          /\ jobs'[h.job] = [id |-> h.id, status |-> "in_progress", attempts |-> 1, retry |-> "null"]
          /\ \A j \in Jobs : j # h.job => jobs'[j] = jobs[j]
      BY <2>1, <2>3, <3>1, WritesKeepRows
    <3>3. rcur' = rcur /\ ReplayHolds(r)' /\ \A q \in Replayers : q # r => rpc'[q] = rpc[q]
      BY <3>1 DEF Replaying, ReplayHolds, TypeOK
    <3>4. /\ SchedulerHolds => cur.job # h.job /\ cur.job \in Jobs
          /\ \A q \in Replayers : q # r /\ ReplayHolds(q) => rcur[q].job # h.job /\ rcur[q].job \in Jobs
      BY <3>1, HandleTypes DEF QueueInv, ClaimHeld
    <3>5. RowIs(h)' /\ jobs'[h.job].status = "in_progress"
      BY <3>2, <3>3 DEF RowIs, Exists
    <3> HIDE DEF h
    <3>6. \A q \in Replayers : q # r /\ ReplayHolds(q)' => ReplayHolds(q)
      BY <3>3 DEF ReplayHolds
    <3>7. ClaimHeld'
      BY <2>1, <3>2, <3>3, <3>4, <3>5, <3>6 DEF h, QueueInv, ClaimHeld, SchedulerHolds, RowIs, Exists
    <3>8. OneExecutor'
      BY <2>1, <3>3, <3>4, <3>6 DEF h, QueueInv, OneExecutor, SchedulerHolds
    <3>9. VerdictCurrent' /\ RunsAsConfigured'
      BY <2>1, <3>2, <3>4 DEF QueueInv, VerdictCurrent, RunsAsConfigured, SchedulerHolds
    <3> QED
      BY <3>2, <3>7, <3>8, <3>9 DEF QueueInv
  <2> QED
    BY <2>4, <2>5
<1>23. ASSUME NEW r \in Replayers, NEW o \in Outcome, NEW s \in {"completed", "failed"},
              ReplayFinish(r, s, o)
       PROVE QueueInv'
  <2> DEFINE n == jobs[rcur[r].job].attempts
  <2>1. /\ Replaying(r, NoHandle, "next") /\ ReplayHolds(r) /\ RowIs(rcur[r])
        /\ UNCHANGED <<events, up, eligible, pc, cur, verdict>>
    BY <1>23 DEF ReplayFinish, ReplayContinue, ReplayHolds, QueueInv, ClaimHeld
  <2>2. UNCHANGED <<jobs, owed>> \/ Writes(rcur[r], s, n, "null")
    <3>1. UNCHANGED <<jobs, owed>> \/ SetJobs(SetRow(rcur[r], s, n, "null"), {})
      BY <1>23 DEF ReplayFinish, UpdateJobStatus
    <3> QED
      BY <2>1, <3>1, WrittenRows
  <2>3. Fits(rcur[r], s, n, "null")
    BY HandleTypes DEF TypeOK, Row, QueueInv, AttemptsBounded, Fits, Status
  <2> QED
    BY <2>1, <2>2, <2>3, ReplayEnds
<1>24. ASSUME NEW r \in Replayers, ReplayEnd(r) PROVE QueueInv'
  <2>1. /\ Replaying(r, NoHandle, "off")
        /\ UNCHANGED <<events, jobs, owed, up, eligible, pc, cur, verdict>>
    BY <1>24 DEF ReplayEnd, ReplayExit
  <2> QED
    BY <2>1, ReplayEnds
<1>25. ASSUME Stop PROVE QueueInv'
  <2>1. /\ pc' = "idle" /\ UNCHANGED <<events, jobs, owed, rpc, rcur>>
    BY <1>25 DEF Stop, JobOver
  <2>2. ClaimHeld' /\ OneExecutor' /\ VerdictCurrent' /\ RunsAsConfigured'
    BY <2>1 DEF QueueInv, ClaimHeld, OneExecutor, VerdictCurrent, RunsAsConfigured, SchedulerHolds, ReplayHolds, RowIs, Exists
  <2> QED
    BY <2>1, <2>2, SameRows DEF QueueInv
<1>26. ASSUME Start PROVE QueueInv'
  <2>1. /\ pc' = "idle" /\ UNCHANGED <<events, jobs, owed, rpc, rcur>>
    BY <1>26 DEF Start, QueueInv, RunsAsConfigured
  <2>2. ClaimHeld' /\ OneExecutor' /\ VerdictCurrent' /\ RunsAsConfigured'
    BY <2>1 DEF QueueInv, ClaimHeld, OneExecutor, VerdictCurrent, RunsAsConfigured, SchedulerHolds, ReplayHolds, RowIs, Exists
  <2> QED
    BY <2>1, <2>2, SameRows DEF QueueInv
<1>27. CASE UNCHANGED vars
  BY <1>27, Bystanders DEF vars
<1> QED
  BY <1>1, <1>2, <1>3, <1>4, <1>5, <1>6, <1>7, <1>8, <1>9, <1>10, <1>11, <1>12, <1>13, <1>14, <1>15,
     <1>16, <1>17, <1>18, <1>19, <1>20, <1>21, <1>22, <1>23, <1>24, <1>25, <1>26, <1>27
  DEF Next, EventLoopNext, SchedulerBody, CleanupNext, ReplayStep

\* The inductive invariant holds in every behaviour.
THEOREM QueueInvariant == Spec => []QueueInv
  BY QueueInvInit, QueueInvStep, PTL DEF Spec

\* A running attempt keeps its row, in progress, until it writes its own outcome.
THEOREM ClaimsAreHeld == Spec => []ClaimHeld
<1>1. QueueInv => ClaimHeld
  BY DEF QueueInv
<1> QED
  BY <1>1, QueueInvariant, PTL

\* The scheduler and the replay processes never run the same job at the same time.
THEOREM OneExecutorPerJob == Spec => []OneExecutor
<1>1. QueueInv => OneExecutor
  BY DEF QueueInv
<1> QED
  BY <1>1, QueueInvariant, PTL

\* No job is attempted more often than max_retries allows.
THEOREM AttemptsAreBounded == Spec => []AttemptsBounded
<1>1. QueueInv => AttemptsBounded
  BY DEF QueueInv
<1> QED
  BY <1>1, QueueInvariant, PTL

\* A routed job keeps its row and its event until it is completed or abandoned.
THEOREM OwedWorkIsKept == Spec => []OwedWorkKept
<1>1. QueueInv => OwedWorkKept
  BY DEF QueueInv, TypeOK, OwedUnfinished, RowsConsistent, OwedWorkKept
<1> QED
  BY <1>1, QueueInvariant, PTL
-----------------------------------------------------------------------------
(* What a step may never do.                                               *)

\* An update through a handle changes only the row the handle names, and makes no
\* row appear.
LEMMA UpdateIsLocal ==
  ASSUME TypeOK, NEW h \in Handle, NEW status, NEW n, NEW retry,
         jobs' = SetRow(h, status, n, retry), NEW j \in Jobs, jobs'[j] # jobs[j]
  PROVE  j = h.job /\ Exists(j)
  BY DEF TypeOK, SetRow, RowIs

\* The steps that change the table of jobs.
LEMMA WhoWrites ==
  ASSUME [Next]_vars, jobs' # jobs
  PROVE  \/ \E j \in Jobs : RetryDue(j)
         \/ \E e \in Events, o \in Outcome : Register(e, o)
         \/ \E o \in Outcome : Abandon(o) \/ Claim(o) \/ Complete(o) \/ WriteVerdict(o)
         \/ CleanupDelete
         \/ \E r \in Replayers, o \in Outcome : ReplayCreate(r, o) \/ ReplayClaim(r, o)
         \/ \E r \in Replayers, o \in Outcome, s \in {"completed", "failed"} : ReplayFinish(r, s, o)
<1> USE DEF dbVars
<1>1. ASSUME NEW e \in Events, Arrive(e) \/ Age(e) PROVE FALSE
  BY <1>1 DEF Arrive, Age
<1>2. ~(Fetch \/ Send \/ Receive \/ Sweep \/ CleanupSelect \/ CleanupFail \/ Stop \/ Start)
  BY DEF Fetch, Send, Receive, Sweep, CleanupSelect, CleanupFail, Stop, Start
<1>3. ASSUME NEW h \in work, NEW o \in Outcome, NextJob(h, o) PROVE FALSE
  BY <1>3 DEF NextJob
<1>4. ASSUME NEW o \in Outcome, ReadAttempts(o) PROVE FALSE
  BY <1>4 DEF ReadAttempts
<1>5. ASSUME NEW r \in Replayers, NEW e \in Events, ReplayStart(r, e) PROVE FALSE
  BY <1>5 DEF ReplayStart
<1>6. ASSUME NEW r \in Replayers, NEW j \in rtodo[r], ReplayLookup(r, j) PROVE FALSE
  BY <1>6 DEF ReplayLookup
<1>7. ASSUME NEW r \in Replayers, ReplayRelookup(r) \/ ReplayEnd(r) PROVE FALSE
  BY <1>7 DEF ReplayRelookup, ReplayEnd
<1>8. ~UNCHANGED vars
  BY DEF vars
<1> QED
  BY <1>1, <1>2, <1>3, <1>4, <1>5, <1>6, <1>7, <1>8
  DEF Next, EventLoopNext, SchedulerBody, CleanupNext, ReplayStep

\* A statement that writes through a handle, of a row that is not in progress or
\* that its writer has claimed, never meets a finished job.
LEMMA FinishedStep ==
  ASSUME QueueInv, [Next]_vars, NEW j \in Jobs, jobs[j].status \in Terminal, jobs'[j] # jobs[j]
  PROVE  \/ jobs'[j].status = "none" /\ j[1] \in candidates
         \/ /\ jobs'[j].status = "in_progress"
            /\ \E r \in Replayers : rpc[r] = "claim" /\ rcur[r].job = j
<1> DEFINE Goal == \/ jobs'[j].status = "none" /\ j[1] \in candidates
                   \/ /\ jobs'[j].status = "in_progress"
                      /\ \E r \in Replayers : rpc[r] = "claim" /\ rcur[r].job = j
<1> HIDE DEF Goal
<1>0. /\ TypeOK /\ cur \in Handle /\ \A r \in Replayers : rcur[r] \in Handle
      /\ jobs[j].status \notin {"pending", "in_progress", "failed"}
  BY DEF QueueInv, TypeOK, Terminal
<1>1. ASSUME NEW k \in Jobs, RetryDue(k) PROVE FALSE
  <2>1. jobs[k].status = "failed" /\ HandleOf(k) \in Handle
    BY <1>0, <1>1, HandleTypes DEF RetryDue, QueueInv, RowsConsistent
  <2>2. j = k
    BY <1>0, <1>1, <2>1, UpdateIsLocal DEF RetryDue, SetJobs, UpdateJobStatus, HandleOf
  <2> QED
    BY <1>0, <2>1, <2>2
<1>2. ASSUME NEW e \in Events, NEW o \in Outcome, Register(e, o) PROVE FALSE
  BY <1>0, <1>2 DEF Register, SetJobs, Exists, Terminal
<1>3. ASSUME NEW o \in Outcome, Abandon(o) \/ Claim(o) \/ Complete(o) \/ WriteVerdict(o) PROVE FALSE
  <2>1. \E status, n, retry : jobs' = SetRow(cur, status, n, retry)
    BY <1>3 DEF Abandon, Claim, Complete, WriteVerdict, SetJobs, UpdateJobStatus
  <2>2. j = cur.job
    BY <1>0, <2>1, UpdateIsLocal
  <2>3. CASE pc = "claim"
    BY <1>0, <1>3, <2>2, <2>3 DEF Abandon, Claim, Complete, WriteVerdict, Claimable, Runnable
  <2>4. CASE SchedulerHolds
    BY <1>0, <2>2, <2>4 DEF QueueInv, ClaimHeld
  <2> QED
    BY <1>3, <2>3, <2>4 DEF Abandon, Claim, Complete, WriteVerdict, SchedulerHolds
<1>4. ASSUME CleanupDelete PROVE Goal
  BY <1>4 DEF CleanupDelete, SetJobs, Goal
<1>5. ASSUME NEW r \in Replayers, NEW o \in Outcome, ReplayCreate(r, o) PROVE FALSE
  BY <1>0, <1>5 DEF ReplayCreate, SetJobs, TypeOK, Exists, Terminal
<1>6. ASSUME NEW r \in Replayers, NEW o \in Outcome, ReplayClaim(r, o) PROVE Goal
  <2>1. jobs' = SetRow(rcur[r], "in_progress", 1, "null") /\ rpc[r] = "claim" /\ RowIs(rcur[r])
    BY <1>6 DEF ReplayClaim, SetJobs
  <2>2. j = rcur[r].job
    BY <1>0, <2>1, UpdateIsLocal
  <2>3. jobs'[j].status = "in_progress"
    BY <1>0, <2>1, <2>2 DEF SetRow, TypeOK
  <2> QED
    BY <2>1, <2>2, <2>3 DEF Goal
<1>7. ASSUME NEW r \in Replayers, NEW o \in Outcome, NEW s \in {"completed", "failed"}, ReplayFinish(r, s, o)
      PROVE  FALSE
  <2>1. jobs' = SetRow(rcur[r], s, jobs[rcur[r].job].attempts, "null") /\ ReplayHolds(r)
    BY <1>7 DEF ReplayFinish, SetJobs, UpdateJobStatus, ReplayHolds
  <2>2. j = rcur[r].job
    BY <1>0, <2>1, UpdateIsLocal
  <2> QED
    BY <1>0, <2>1, <2>2 DEF QueueInv, ClaimHeld
<1> QED
  BY <1>1, <1>2, <1>3, <1>4, <1>5, <1>6, <1>7, WhoWrites DEF Goal

\* A completed or abandoned job is only deleted by cleanup or claimed by a replay.
THEOREM FinishedJobsAreKept == Spec => FinishedJobsStay
<1>1. QueueInv /\ [Next]_vars =>
        [\A j \in Jobs : jobs[j].status \in Terminal /\ jobs'[j] # jobs[j] =>
           \/ jobs'[j].status = "none" /\ j[1] \in candidates
           \/ /\ jobs'[j].status = "in_progress"
              /\ \E r \in Replayers : rpc[r] = "claim" /\ rcur[r].job = j]_vars
  BY FinishedStep
<1> QED
  BY <1>1, QueueInvariant, PTL DEF Spec, FinishedJobsStay

\* Only the routing transaction, with the mark on the event, or a replay inserts rows.
LEMMA InsertStep ==
  ASSUME QueueInv, [Next]_vars, NEW j \in Jobs, ~Exists(j), jobs'[j].status # "none"
  PROVE  \/ events[j[1]] = "stored" /\ events'[j[1]] = "dispatched"
         \/ \E r \in Replayers : rpc[r] = "create" /\ rcur[r].job = j
<1> DEFINE Goal == \/ events[j[1]] = "stored" /\ events'[j[1]] = "dispatched"
                   \/ \E r \in Replayers : rpc[r] = "create" /\ rcur[r].job = j
<1> HIDE DEF Goal
<1>0. /\ TypeOK /\ cur \in Handle /\ \A r \in Replayers : rcur[r] \in Handle
      /\ \A k \in Jobs : HandleOf(k) \in Handle
      /\ jobs'[j] # jobs[j]
  BY HandleTypes DEF QueueInv, TypeOK, Exists
<1>1. \A h \in Handle : ~\E status, n, retry : jobs' = SetRow(h, status, n, retry)
  BY <1>0, UpdateIsLocal
<1>2. ~\E k \in Jobs : RetryDue(k)
  BY <1>0, <1>1 DEF RetryDue, SetJobs, UpdateJobStatus
<1>3. ASSUME NEW e \in Events, NEW o \in Outcome, Register(e, o) PROVE Goal
  <2>1. j[1] = e /\ events[e] = "stored" /\ events' = [events EXCEPT ![e] = "dispatched"]
    BY <1>0, <1>3 DEF Register, RoutedTo, SetJobs
  <2> QED
    BY <1>0, <2>1 DEF TypeOK, Goal
<1>4. ASSUME NEW o \in Outcome PROVE ~(Abandon(o) \/ Claim(o) \/ Complete(o) \/ WriteVerdict(o))
  BY <1>0, <1>1 DEF Abandon, Claim, Complete, WriteVerdict, SetJobs, UpdateJobStatus
<1>5. ~CleanupDelete
  BY <1>0 DEF CleanupDelete, SetJobs, Exists
<1>6. ASSUME NEW r \in Replayers, NEW o \in Outcome, ReplayCreate(r, o) PROVE Goal
  BY <1>0, <1>6 DEF ReplayCreate, SetJobs, TypeOK, Goal
<1>7. ASSUME NEW r \in Replayers, NEW o \in Outcome PROVE ~ReplayClaim(r, o)
  BY <1>0, <1>1 DEF ReplayClaim, SetJobs
<1>8. ASSUME NEW r \in Replayers, NEW o \in Outcome, NEW s \in {"completed", "failed"}
      PROVE  ~ReplayFinish(r, s, o)
  BY <1>0, <1>1 DEF ReplayFinish, SetJobs, UpdateJobStatus
<1> QED
  BY <1>0, <1>2, <1>3, <1>4, <1>5, <1>6, <1>7, <1>8, WhoWrites DEF Goal

\* An event is routed once; afterwards only a replay adds a job to it.
THEOREM EventsAreRoutedOnce == Spec => RoutedOnce
<1>1. QueueInv /\ [Next]_vars =>
        [\A j \in Jobs : ~Exists(j) /\ jobs'[j].status # "none" =>
           \/ events[j[1]] = "stored" /\ events'[j[1]] = "dispatched"
           \/ \E r \in Replayers : rpc[r] = "create" /\ rcur[r].job = j]_vars
  BY InsertStep
<1> QED
  BY <1>1, QueueInvariant, PTL DEF Spec, RoutedOnce
=============================================================================
