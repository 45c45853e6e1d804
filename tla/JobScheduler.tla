---------------------------- MODULE JobScheduler ----------------------------
(***************************************************************************)
(* The durable job queue of the mailmux daemon: the events and             *)
(* processor_jobs tables, the event loop that polls undispatched events    *)
(* into a bounded channel, the scheduler task that routes and executes     *)
(* them, the hourly cleanup, and "mailmux replay" processes that run       *)
(* beside the daemon on the same database.                                 *)
(*                                                                         *)
(* One action is one database statement or transaction of one task (with   *)
(* the local steps around it), so that every interleaving of the tasks at  *)
(* the database is a behaviour.  Timestamps are abstracted to what the     *)
(* code compares: an event is past its retention or not, a next_retry_at   *)
(* is NULL, in the future, or due.                                         *)
(***************************************************************************)
EXTENDS Naturals, Sequences, FiniteSets

CONSTANTS Events,        \* event ids, in BIGSERIAL order
          Processors,    \* processor names
          MaxRetries,    \* the max_retries option of each processor
          Configs,       \* the routing tables a config file may hold
          BatchSize,     \* LIMIT of a poll of undispatched events
          SweepLimit,    \* LIMIT of a retry sweep
          ChannelCap,    \* capacity of the event channel
          Replayers,     \* replay processes that may run at once
          MaxFaults,     \* bound on failing database calls
          MaxStops,      \* bound on daemon shutdowns and crashes
          MaxReplays     \* bound on replay commands issued

Jobs == Events \X Processors

ASSUME ConstantsAssumption ==
  /\ Events \subseteq Nat /\ Events # {}
  /\ Processors # {}
  /\ MaxRetries \in [Processors -> Nat]
  /\ Configs \subseteq SUBSET Jobs /\ Configs # {}
  /\ BatchSize \in Nat \ {0} /\ SweepLimit \in Nat \ {0} /\ ChannelCap \in Nat \ {0}
  /\ MaxFaults \in Nat /\ MaxStops \in Nat /\ MaxReplays \in Nat

VARIABLES
  events,      \* the events table: each event's state
  old,         \* the events past the retention period
  jobs,        \* the processor_jobs table, one row per (event, processor)
  owed,        \* history: jobs routed to and never yet completed or abandoned
  up,          \* is the daemon running?
  eligible,    \* the running daemon's routing: (event, processor) matches
  fetched,     \* event loop: the batch it is sending
  channel,     \* batches between the event loop and the scheduler
  batch,       \* scheduler: events of the received batch still to route
  work,        \* scheduler: jobs of the current event or sweep still to execute
  sweeping,    \* scheduler: does work come from a retry sweep?
  pc,          \* scheduler: where execute_job stands for cur
  cur,         \* scheduler: the job being executed
  verdict,     \* scheduler: the status handle_failure decided to write
  candidates,  \* cleanup: events it has selected and locked
  rpc, rtodo, rcur,          \* replay processes: control point, jobs left, current job
  faults, stops, replays     \* what the bounds have used up

dbVars     == <<events, old, jobs, owed>>
loopVars   == <<fetched, channel>>
schedVars  == <<batch, work, sweeping, pc, cur, verdict>>
daemonVars == <<up, eligible>>
replayVars == <<rpc, rtodo, rcur>>
boundVars  == <<faults, stops, replays>>
vars == <<dbVars, loopVars, schedVars, daemonVars, candidates, replayVars, boundVars>>

-----------------------------------------------------------------------------
(* The tables. *)

Status   == {"none", "pending", "in_progress", "failed", "completed", "abandoned"}
Terminal == {"completed", "abandoned"}

\* status "none": no such row; id then counts the rows inserted so far, so an
\* insert takes a number no earlier row of the same key has had.
Row == [id : Nat, status : Status, attempts : Nat, retry : {"null", "later", "due"}]

Handle   == [job : Jobs, id : Nat]     \* a row as Rust code holds it: by id
NoHandle == [job |-> CHOOSE j \in Jobs : TRUE, id |-> 0]

Exists(j)    == jobs[j].status # "none"
HandleOf(j)  == [job |-> j, id |-> jobs[j].id]
RowIs(h)     == Exists(h.job) /\ jobs[h.job].id = h.id
Runnable(j)  == \/ jobs[j].status = "pending"
                \/ jobs[j].status = "failed" /\ jobs[j].retry = "due"
EventExists(e) == events[e] \in {"stored", "dispatched"}

Inserted(row) == [id |-> row.id + 1, status |-> "pending", attempts |-> 0, retry |-> "null"]

\* Every change of the table goes through here, to keep the history variable.
SetJobs(rows, routed) ==
  /\ jobs' = rows
  /\ owed' = {j \in owed \cup routed : rows[j].status \notin Terminal}

\* UPDATE processor_jobs ... WHERE id = h.id.
SetRow(h, status, attempts, retry) ==
  IF RowIs(h)
  THEN [jobs EXCEPT ![h.job] = [id |-> h.id, status |-> status, attempts |-> attempts, retry |-> retry]]
  ELSE jobs

\* update_job_status: no condition on the status, attempts as they are.
UpdateJobStatus(h, status, retry) == SetRow(h, status, jobs[h.job].attempts, retry)

\* A database call succeeds, fails without effect ("lost"), or takes effect and
\* fails all the same because the connection breaks before the reply ("unacked").
Outcome == {"ok", "lost", "unacked"}
Call(o) == /\ o \in Outcome
           /\ IF o = "ok" THEN faults' = faults
              ELSE faults < MaxFaults /\ faults' = faults + 1
           /\ UNCHANGED <<stops, replays>>
Applied(o) == o # "lost"

-----------------------------------------------------------------------------
(* Mail ingestion and time. *)

\* insert_email_with_event commits.  Ids are drawn before the commit, so events
\* may become visible in any order.
Arrive(e) ==
  /\ events[e] = "absent"
  /\ events' = [events EXCEPT ![e] = "stored"]
  /\ UNCHANGED <<old, jobs, owed, loopVars, schedVars, daemonVars, candidates, replayVars, boundVars>>

\* The retention period of an event ends.
Age(e) ==
  /\ EventExists(e) /\ e \notin old
  /\ old' = old \cup {e}
  /\ UNCHANGED <<events, jobs, owed, loopVars, schedVars, daemonVars, candidates, replayVars, boundVars>>

\* The clock reaches next_retry_at.
RetryDue(j) ==
  /\ jobs[j].retry = "later"
  /\ SetJobs(UpdateJobStatus(HandleOf(j), jobs[j].status, "due"), {})
  /\ UNCHANGED <<events, old, loopVars, schedVars, daemonVars, candidates, replayVars, boundVars>>

-----------------------------------------------------------------------------
(* Event loop.  A NOTIFY and a poll tick do the same: read a batch, then   *)
(* wait for room in the channel.  The batch is not read again while the    *)
(* send waits, and nothing marks an event as sent: until the scheduler has *)
(* routed it, every poll sends it again.                                   *)

Lowest(n, S) == {e \in S : Cardinality({f \in S : f < e}) < n}

Undispatched == {e \in Events : events[e] = "stored"}

Fetch ==
  /\ up /\ fetched = {} /\ Undispatched # {}
  /\ fetched' = Lowest(BatchSize, Undispatched)
  /\ UNCHANGED <<dbVars, channel, schedVars, daemonVars, candidates, replayVars, boundVars>>

Send ==
  /\ up /\ fetched # {} /\ Len(channel) < ChannelCap
  /\ channel' = Append(channel, fetched)
  /\ fetched' = {}
  /\ UNCHANGED <<dbVars, schedVars, daemonVars, candidates, replayVars, boundVars>>

-----------------------------------------------------------------------------
(* Scheduler task: between two iterations of its loop it has no batch and  *)
(* no work; within one it executes jobs one after the other.               *)

BetweenJobs == up /\ pc = "idle"
AtLoop      == BetweenJobs /\ batch = {} /\ work = {}

\* select! took the channel.
Receive ==
  /\ AtLoop /\ channel # <<>>
  /\ batch' = Head(channel)
  /\ channel' = Tail(channel)
  /\ UNCHANGED <<dbVars, fetched, work, sweeping, pc, cur, verdict, daemonVars, candidates, replayVars, boundVars>>

\* processors_for_event: the jobs the configuration gives an event.
RoutedTo(e) == {j \in eligible : j[1] = e}

\* Mutant: the insert does not test that the event is still undispatched.
RegisterAgain(e, o) ==
  LET routed   == RoutedTo(e)
      inserted == {j \in routed : ~Exists(j)}
      effect   == EventExists(e) /\ Applied(o)
  IN
  /\ BetweenJobs /\ work = {} /\ e \in batch /\ e \notin candidates
  /\ Call(o)
  /\ batch' = batch \ {e} /\ work' = {} /\ sweeping' = FALSE
  /\ IF effect
     THEN /\ SetJobs([j \in Jobs |-> IF j \in inserted THEN Inserted(jobs[j]) ELSE jobs[j]], routed)
          /\ events' = [events EXCEPT ![e] = "dispatched"]
     ELSE UNCHANGED <<jobs, owed, events>>
  /\ UNCHANGED <<old, loopVars, pc, cur, verdict, daemonVars, candidates, replayVars>>

\* Mutant: the mark on the event commits before the jobs do.
RegisterMarkFirst(e, o) ==
  LET routed == RoutedTo(e) IN
  /\ BetweenJobs /\ work = {} /\ e \in batch /\ events[e] = "stored"
  /\ Call(o)
  /\ batch' = batch \ {e} /\ work' = {} /\ sweeping' = FALSE
  /\ events' = [events EXCEPT ![e] = "dispatched"]
  /\ SetJobs([j \in Jobs |-> IF j \in routed /\ o = "ok" THEN Inserted(jobs[j]) ELSE jobs[j]], routed)
  /\ UNCHANGED <<old, loopVars, pc, cur, verdict, daemonVars, candidates, replayVars>>

\* Mutant: an event that matches no processor stays undispatched.
RegisterOnlyMatched(e, o) ==
  LET routed == RoutedTo(e)
      effect == events[e] = "stored" /\ routed # {} /\ Applied(o)
  IN
  /\ BetweenJobs /\ work = {} /\ e \in batch
  /\ Call(o)
  /\ batch' = batch \ {e} /\ work' = {} /\ sweeping' = FALSE
  /\ IF effect
     THEN /\ SetJobs([j \in Jobs |-> IF j \in routed THEN Inserted(jobs[j]) ELSE jobs[j]], routed)
          /\ events' = [events EXCEPT ![e] = "dispatched"]
     ELSE UNCHANGED <<jobs, owed, events>>
  /\ UNCHANGED <<old, loopVars, pc, cur, verdict, daemonVars, candidates, replayVars>>

\* register_event_dispatch and the first half of process_events: one transaction
\* inserts the missing jobs of every eligible processor and marks the event; only
\* the jobs it inserted are executed.  An event that is gone or already marked, or
\* an error, leaves nothing to execute.
Register(e, o) ==
  LET routed   == RoutedTo(e)
      inserted == {j \in routed : ~Exists(j)}
      effect   == events[e] = "stored" /\ Applied(o)
  IN
  /\ BetweenJobs /\ work = {}
  /\ e \in batch /\ \A f \in batch : e <= f
  /\ e \notin candidates
  /\ Call(o)
  /\ batch' = batch \ {e}
  /\ IF effect
     THEN /\ SetJobs([j \in Jobs |-> IF j \in inserted THEN Inserted(jobs[j]) ELSE jobs[j]], routed)
          /\ events' = [events EXCEPT ![e] = "dispatched"]
     ELSE UNCHANGED <<jobs, owed, events>>
  /\ work' = IF effect /\ o = "ok"
             THEN {[job |-> j, id |-> jobs[j].id + 1] : j \in inserted} ELSE {}
  /\ sweeping' = FALSE
  /\ UNCHANGED <<old, loopVars, pc, cur, verdict, daemonVars, candidates, replayVars>>

\* Mutant: only failed jobs are swept, so a dispatch cut short is forgotten.
SweepableFailed == {j \in Jobs : jobs[j].status = "failed" /\ jobs[j].retry = "due"}

Sweepable == {j \in Jobs : Runnable(j)}

\* The retry tick: retry_sweep reads up to SweepLimit runnable jobs.  Which ones the
\* LIMIT keeps depends on timestamps, so any of them may be left out.
Sweep ==
  /\ AtLoop /\ Sweepable # {}
  /\ \E S \in SUBSET Sweepable :
       /\ \/ S = Sweepable /\ Cardinality(S) <= SweepLimit
          \/ Cardinality(S) = SweepLimit
       /\ work' = {HandleOf(j) : j \in S}
  /\ sweeping' = TRUE
  /\ UNCHANGED <<dbVars, loopVars, batch, pc, cur, verdict, daemonVars, candidates, replayVars, boundVars>>

\* Take the next job.  A sweep loads its event first and skips the job when the
\* event is gone or cannot be read.
NextJob(h, o) ==
  /\ BetweenJobs /\ h \in work
  /\ sweeping \/ o = "ok"
  /\ Call(o)
  /\ work' = work \ {h}
  /\ IF o = "ok" /\ (sweeping => EventExists(h.job[1]))
     THEN pc' = "claim" /\ cur' = h
     ELSE UNCHANGED <<pc, cur>>
  /\ UNCHANGED <<dbVars, loopVars, batch, sweeping, verdict, daemonVars, candidates, replayVars>>

\* The end of execute_job, whatever its outcome.
JobOver == pc' = "idle" /\ cur' = NoHandle /\ verdict' = "none"

\* Mutants: the claim trusts the list of jobs it was given, or refuses only the jobs
\* that run.
ClaimableListed(h)     == RowIs(h)
ClaimableNotRunning(h) == RowIs(h) /\ jobs[h.job].status # "in_progress"

Claimable(h) == RowIs(h) /\ Runnable(h.job)

\* require_processor_for_event: is the event routed to the processor now?
StillRouted(j) == j \in eligible

\* It is not: the configuration no longer routes the event
\* to the processor; abandon_queued_job keeps the attempts.
Abandon(o) ==
  /\ up /\ pc = "claim" /\ ~StillRouted(cur.job)
  /\ Call(o)
  /\ IF Claimable(cur) /\ Applied(o)
     THEN SetJobs(UpdateJobStatus(cur, "abandoned", "null"), {}) ELSE UNCHANGED <<jobs, owed>>
  /\ JobOver
  /\ UNCHANGED <<events, old, loopVars, batch, work, sweeping, daemonVars, candidates, replayVars>>

Claim(o) ==
  /\ up /\ pc = "claim" /\ StillRouted(cur.job)
  /\ Call(o)
  /\ IF Claimable(cur) /\ Applied(o)
     THEN SetJobs(SetRow(cur, "in_progress", jobs[cur.job].attempts + 1, "null"), {})
     ELSE UNCHANGED <<jobs, owed>>
  /\ IF Claimable(cur) /\ o = "ok" THEN pc' = "run" /\ UNCHANGED <<cur, verdict>> ELSE JobOver
  /\ UNCHANGED <<events, old, loopVars, batch, work, sweeping, daemonVars, candidates, replayVars>>

\* The processor reports success; an error of the update is only logged.
Complete(o) ==
  /\ up /\ pc = "run"
  /\ Call(o)
  /\ IF Applied(o) THEN SetJobs(UpdateJobStatus(cur, "completed", "null"), {}) ELSE UNCHANGED <<jobs, owed>>
  /\ JobOver
  /\ UNCHANGED <<events, old, loopVars, batch, work, sweeping, daemonVars, candidates, replayVars>>

\* Mutant: off by one.
RetriesExceeded(p, attempts) == MaxRetries[p] = 0 \/ attempts > MaxRetries[p]

RetriesExhausted(p, attempts) == MaxRetries[p] = 0 \/ attempts >= MaxRetries[p]

\* The processor fails, errs or times out: handle_failure reads the attempts back
\* and decides; without the row it gives up.
ReadAttempts(o) ==
  /\ up /\ pc = "run"
  /\ Call(o)
  /\ IF o = "ok" /\ RowIs(cur)
     THEN /\ pc' = "verdict" /\ cur' = cur
          /\ verdict' = IF RetriesExhausted(cur.job[2], jobs[cur.job].attempts)
                        THEN "abandoned" ELSE "failed"
     ELSE JobOver
  /\ UNCHANGED <<dbVars, loopVars, batch, work, sweeping, daemonVars, candidates, replayVars>>

WriteVerdict(o) ==
  LET retry == IF verdict = "failed" THEN "later" ELSE "null" IN
  /\ up /\ pc = "verdict"
  /\ Call(o)
  /\ IF Applied(o) THEN SetJobs(UpdateJobStatus(cur, verdict, retry), {}) ELSE UNCHANGED <<jobs, owed>>
  /\ JobOver
  /\ UNCHANGED <<events, old, loopVars, batch, work, sweeping, daemonVars, candidates, replayVars>>

-----------------------------------------------------------------------------
(* Housekeeping: one transaction in two parts.  Its first statement locks  *)
(* the events it selects; a job cannot be inserted for a locked event, but *)
(* the job rows themselves are not locked.  The two deletes and the commit *)
(* are one step: a row the first delete has taken can be changed by nobody *)
(* until the commit, and then it is gone.                                  *)

CleanupSelect ==
  LET finished(e) == \A p \in Processors : jobs[<<e, p>>].status \in Terminal \cup {"none"}
      expired == {e \in old : events[e] = "dispatched" /\ finished(e)}
  IN
  /\ up /\ candidates = {} /\ expired # {}
  /\ candidates' = expired
  /\ UNCHANGED <<dbVars, loopVars, schedVars, daemonVars, replayVars, boundVars>>

\* Mutant: the deletes trust the selection and do not look at the jobs again.
CleanupDeleteSelected ==
  /\ up /\ candidates # {}
  /\ SetJobs([j \in Jobs |-> IF j[1] \in candidates
                 THEN [id |-> jobs[j].id, status |-> "none", attempts |-> 0, retry |-> "null"]
                 ELSE jobs[j]], {})
  /\ events' = [e \in Events |-> IF e \in candidates THEN "deleted" ELSE events[e]]
  /\ candidates' = {}
  /\ UNCHANGED <<old, loopVars, schedVars, daemonVars, replayVars, boundVars>>

CleanupDelete ==
  LET doomed == {j \in Jobs : j[1] \in candidates /\ jobs[j].status \in Terminal}
      emptied == {e \in candidates : \A p \in Processors : ~Exists(<<e, p>>) \/ <<e, p>> \in doomed}
  IN
  /\ up /\ candidates # {}
  /\ SetJobs([j \in Jobs |-> IF j \in doomed
                 THEN [id |-> jobs[j].id, status |-> "none", attempts |-> 0, retry |-> "null"]
                 ELSE jobs[j]], {})
  /\ events' = [e \in Events |-> IF e \in emptied THEN "deleted" ELSE events[e]]
  /\ candidates' = {}
  /\ UNCHANGED <<old, loopVars, schedVars, daemonVars, replayVars, boundVars>>

\* A statement of the transaction fails: everything is rolled back.
CleanupFail ==
  /\ up /\ candidates # {}
  /\ Call("lost")
  /\ candidates' = {}
  /\ UNCHANGED <<dbVars, loopVars, schedVars, daemonVars, replayVars>>

-----------------------------------------------------------------------------
(* mailmux replay: a process of its own, with the configuration it read    *)
(* from disk, for one event and one or all of its eligible processors.     *)

Replaying(r, h, point) == rcur' = [rcur EXCEPT ![r] = h] /\ rpc' = [rpc EXCEPT ![r] = point]
ReplayContinue(r) == Replaying(r, NoHandle, "next")
ReplayExit(r) == Replaying(r, NoHandle, "off") /\ rtodo' = [rtodo EXCEPT ![r] = {}]

ReplayStart(r, e) ==
  /\ rpc[r] = "off" /\ EventExists(e)
  /\ replays < MaxReplays /\ replays' = replays + 1
  /\ \E config \in Configs :
       LET matching == {j \in config : j[1] = e} IN
       \E todo \in {matching} \cup {{j} : j \in matching} :
         todo # {} /\ rtodo' = [rtodo EXCEPT ![r] = todo]
  /\ Replaying(r, NoHandle, "next")
  /\ UNCHANGED <<dbVars, loopVars, schedVars, daemonVars, candidates, faults, stops>>

\* get_job_by_event_and_processor: an existing row, or one to create.
ReplayLookup(r, j) ==
  /\ rpc[r] = "next" /\ j \in rtodo[r]
  /\ rtodo' = [rtodo EXCEPT ![r] = @ \ {j}]
  /\ IF Exists(j) THEN Replaying(r, HandleOf(j), "claim")
     ELSE Replaying(r, [job |-> j, id |-> 0], "create")
  /\ UNCHANGED <<dbVars, loopVars, schedVars, daemonVars, candidates, boundVars>>

\* create_job: the insert waits for a cleanup that has locked the event, fails when
\* the event is gone, and does nothing when the row has appeared since the lookup.
ReplayCreate(r, o) ==
  LET j == rcur[r].job
      free == EventExists(j[1]) /\ ~Exists(j)
  IN
  /\ rpc[r] = "create" /\ j[1] \notin candidates
  /\ Call(o)
  /\ IF free /\ Applied(o) THEN SetJobs([jobs EXCEPT ![j] = Inserted(@)], {}) ELSE UNCHANGED <<jobs, owed>>
  /\ IF o = "ok" /\ EventExists(j[1])
     THEN /\ UNCHANGED rtodo
          /\ IF free THEN Replaying(r, [job |-> j, id |-> jobs[j].id + 1], "claim")
             ELSE Replaying(r, rcur[r], "relookup")
     ELSE ReplayExit(r)
  /\ UNCHANGED <<events, old, loopVars, schedVars, daemonVars, candidates>>

\* The second lookup: the row that caused the conflict, unless it has vanished.
ReplayRelookup(r) ==
  LET j == rcur[r].job IN
  /\ rpc[r] = "relookup"
  /\ IF Exists(j) THEN Replaying(r, HandleOf(j), "claim") /\ UNCHANGED rtodo ELSE ReplayExit(r)
  /\ UNCHANGED <<dbVars, loopVars, schedVars, daemonVars, candidates, boundVars>>

\* Mutant: a replay also resets a job that is running.
ReplayClaimRunning(r, o) ==
  LET h == rcur[r] IN
  /\ rpc[r] = "claim"
  /\ Call(o)
  /\ IF RowIs(h) /\ Applied(o) THEN SetJobs(SetRow(h, "in_progress", 1, "null"), {}) ELSE UNCHANGED <<jobs, owed>>
  /\ IF RowIs(h) /\ o = "ok" THEN Replaying(r, h, "run") ELSE ReplayContinue(r)
  /\ UNCHANGED <<events, old, loopVars, schedVars, daemonVars, candidates, rtodo>>

\* reset_and_claim_job_for_replay: any status but in_progress; the count restarts.
ReplayClaim(r, o) ==
  LET h == rcur[r]
      free == RowIs(h) /\ jobs[h.job].status # "in_progress"
  IN
  /\ rpc[r] = "claim"
  /\ Call(o)
  /\ IF free /\ Applied(o) THEN SetJobs(SetRow(h, "in_progress", 1, "null"), {}) ELSE UNCHANGED <<jobs, owed>>
  /\ IF free /\ o = "ok" THEN Replaying(r, h, "run") ELSE ReplayContinue(r)
  /\ UNCHANGED <<events, old, loopVars, schedVars, daemonVars, candidates, rtodo>>

\* Mutant: a failed replay is queued for an automatic retry.
ReplayFinishRetry(r, status, o) ==
  LET retry == IF status = "failed" THEN "later" ELSE "null" IN
  /\ rpc[r] = "run" /\ status \in {"completed", "failed"}
  /\ Call(o)
  /\ IF Applied(o) THEN SetJobs(UpdateJobStatus(rcur[r], status, retry), {}) ELSE UNCHANGED <<jobs, owed>>
  /\ ReplayContinue(r)
  /\ UNCHANGED <<events, old, loopVars, schedVars, daemonVars, candidates, rtodo>>

\* The processor ends; a failure is written without a next_retry_at.
ReplayFinish(r, status, o) ==
  /\ rpc[r] = "run" /\ status \in {"completed", "failed"}
  /\ Call(o)
  /\ IF Applied(o) THEN SetJobs(UpdateJobStatus(rcur[r], status, "null"), {}) ELSE UNCHANGED <<jobs, owed>>
  /\ ReplayContinue(r)
  /\ UNCHANGED <<events, old, loopVars, schedVars, daemonVars, candidates, rtodo>>

\* Nothing left to replay, or the command is killed, or one of its reads fails.
ReplayEnd(r) ==
  /\ rpc[r] # "off"
  /\ IF rpc[r] = "next" /\ rtodo[r] = {} THEN UNCHANGED boundVars ELSE Call("lost")
  /\ ReplayExit(r)
  /\ UNCHANGED <<dbVars, loopVars, schedVars, daemonVars, candidates>>

-----------------------------------------------------------------------------
(* The daemon process.                                                     *)

\* The process ends, by a crash or at the end of a shutdown's grace period, when
\* cmd_run aborts every task where it stands.  The tables stay as they are; an open
\* cleanup transaction is rolled back.
Stop ==
  /\ up /\ stops < MaxStops
  /\ up' = FALSE /\ stops' = stops + 1
  /\ fetched' = {} /\ channel' = <<>>
  /\ batch' = {} /\ work' = {} /\ sweeping' = FALSE
  /\ JobOver
  /\ candidates' = {}
  /\ UNCHANGED <<dbVars, eligible, replayVars, faults, replays>>

\* ProcessorRegistry.from_config: the routing of the processors that are enabled now.
LoadConfig == eligible' \in Configs

\* cmd_run starts with the configuration then on disk and touches no job.
Start ==
  /\ ~up /\ up' = TRUE
  /\ LoadConfig
  /\ UNCHANGED <<dbVars, loopVars, schedVars, candidates, replayVars, boundVars>>

-----------------------------------------------------------------------------
Init ==
  /\ events = [e \in Events |-> "absent"] /\ old = {} /\ owed = {}
  /\ jobs = [j \in Jobs |-> [id |-> 0, status |-> "none", attempts |-> 0, retry |-> "null"]]
  /\ up = FALSE /\ eligible \in Configs
  /\ fetched = {} /\ channel = <<>>
  /\ batch = {} /\ work = {} /\ sweeping = FALSE
  /\ pc = "idle" /\ cur = NoHandle /\ verdict = "none"
  /\ candidates = {}
  /\ rpc = [r \in Replayers |-> "off"]
  /\ rtodo = [r \in Replayers |-> {}]
  /\ rcur = [r \in Replayers |-> NoHandle]
  /\ faults = 0 /\ stops = 0 /\ replays = 0

EventLoopNext == Fetch \/ Send

\* Everything the scheduler does between two turns of its loop.
SchedulerBody ==
  \E o \in Outcome :
    \/ \E e \in Events : Register(e, o)
    \/ \E h \in work : NextJob(h, o)
    \/ Abandon(o) \/ Claim(o) \/ Complete(o) \/ ReadAttempts(o) \/ WriteVerdict(o)

CleanupNext == CleanupSelect \/ CleanupDelete \/ CleanupFail

ReplayStep(r) ==
  \/ \E e \in Events : ReplayStart(r, e)
  \/ \E j \in rtodo[r] : ReplayLookup(r, j)
  \/ ReplayRelookup(r) \/ ReplayEnd(r)
  \/ \E o \in Outcome :
       \/ ReplayCreate(r, o) \/ ReplayClaim(r, o)
       \/ \E status \in {"completed", "failed"} : ReplayFinish(r, status, o)

Next ==
  \/ \E e \in Events : Arrive(e) \/ Age(e)
  \/ \E j \in Jobs : RetryDue(j)
  \/ EventLoopNext \/ Receive \/ Sweep \/ SchedulerBody \/ CleanupNext
  \/ \E r \in Replayers : ReplayStep(r)
  \/ Stop \/ Start

Spec == Init /\ [][Next]_vars

-----------------------------------------------------------------------------
(* Fairness.  Every database call and, by tokio::time::timeout, every      *)
(* processor run ends, so a task that is inside an iteration goes on.      *)
(* select! picks at random among the branches that are ready, and a missed *)
(* tick stays ready, so a branch that is ready again and again at the top  *)
(* of the loop is taken: strong fairness of the two branches.  Time goes   *)
(* on, a stopped daemon is started again, and nothing more is assumed: no  *)
(* mail has to arrive and no replay has to run or to end.                  *)

Fairness ==
  /\ WF_vars(Start) /\ WF_vars(Fetch) /\ WF_vars(Send)
  /\ WF_vars(SchedulerBody)
  /\ SF_vars(Receive) /\ SF_vars(Sweep)
  /\ WF_vars(CleanupDelete \/ CleanupFail)
  /\ \A j \in Jobs : WF_vars(RetryDue(j))

FairSpec == Spec /\ Fairness

-----------------------------------------------------------------------------
(* Properties.                                                             *)

TypeOK ==
  /\ events \in [Events -> {"absent", "stored", "dispatched", "deleted"}]
  /\ old \subseteq Events /\ candidates \subseteq Events
  /\ jobs \in [Jobs -> Row] /\ owed \subseteq Jobs
  /\ up \in BOOLEAN /\ eligible \in Configs
  /\ fetched \subseteq Events /\ channel \in Seq(SUBSET Events)
  /\ batch \subseteq Events /\ work \subseteq Handle /\ sweeping \in BOOLEAN
  /\ pc \in {"idle", "claim", "run", "verdict"} /\ cur \in Handle
  /\ verdict \in {"none", "failed", "abandoned"}
  /\ rpc \in [Replayers -> {"off", "next", "create", "relookup", "claim", "run"}]
  /\ rtodo \in [Replayers -> SUBSET Jobs] /\ rcur \in [Replayers -> Handle]
  /\ faults \in Nat /\ stops \in Nat /\ replays \in Nat

\* Who has claimed a job and not yet given it back.
SchedulerHolds == pc \in {"run", "verdict"}
ReplayHolds(r) == rpc[r] = "run"

\* While an actor runs a processor its row is still the row it claimed and still
\* in_progress: no sweep, duplicate dispatch, replay or cleanup has touched it.  So
\* the status it writes at the end, by id alone, lands on its own attempt.
ClaimHeld ==
  /\ SchedulerHolds => RowIs(cur) /\ jobs[cur.job].status = "in_progress"
  /\ \A r \in Replayers :
       ReplayHolds(r) => RowIs(rcur[r]) /\ jobs[rcur[r].job].status = "in_progress"

\* No event is handed to the same processor by two actors at once, whatever
\* dispatches, sweeps and replays overlap.
OneExecutor ==
  /\ \A r \in Replayers : SchedulerHolds /\ ReplayHolds(r) => rcur[r].job # cur.job
  /\ \A r, q \in Replayers :
       ReplayHolds(r) /\ ReplayHolds(q) /\ r # q => rcur[r].job # rcur[q].job

\* A job runs at most max(1, max_retries) times between two replays, although the
\* decision to retry is taken from a count read in one statement and written back
\* in a later one.
AttemptsBounded == \A j \in Jobs : jobs[j].attempts <= 1 \/ jobs[j].attempts <= MaxRetries[j[2]]

\* "No silent drops": a job that routing owes to a processor has its row, and its
\* event, until it is completed or abandoned, through failed calls, crashes, cleanup
\* and replay.
OwedWorkKept == \A j \in owed : Exists(j) /\ EventExists(j[1])

\* A completed or abandoned job stays as it is until a replay claims it or cleanup
\* deletes it with its event selected: no late or blind update revives it.
FinishedJobsStay ==
  [][\A j \in Jobs : jobs[j].status \in Terminal /\ jobs'[j] # jobs[j] =>
       \/ jobs'[j].status = "none" /\ j[1] \in candidates
       \/ /\ jobs'[j].status = "in_progress"
          /\ \E r \in Replayers : rpc[r] = "claim" /\ rcur[r].job = j]_vars

\* Routing happens once per event: a stale batch, a second poll or a new
\* configuration never creates jobs for an event already marked; only a replay does.
RoutedOnce ==
  [][\A j \in Jobs : ~Exists(j) /\ jobs'[j].status # "none" =>
       \/ events[j[1]] = "stored" /\ events'[j[1]] = "dispatched"
       \/ \E r \in Replayers : rpc[r] = "create" /\ rcur[r].job = j]_vars

\* Every stored event is routed, however many events before it match no processor
\* or fail to be registered, and whenever the daemon is stopped.
EventsDispatched == \A e \in Events : events[e] = "stored" ~> events[e] # "stored"

\* A queued job, new or waiting for a retry, is eventually taken, executed or
\* abandoned: also one whose dispatch was cut short by a crash or a failed call.
Queued(j) == jobs[j].status = "pending" \/ jobs[j].retry # "null"
QueuedJobsTaken == \A j \in Jobs : Queued(j) ~> ~Queued(j)

-----------------------------------------------------------------------------
(* The inductive invariant behind the safety properties.                   *)

\* What a row says of itself: a pending row has not been tried, only a failed row
\* with attempts left waits for a retry, and every row belongs to an event.
RowsConsistent ==
  \A j \in Jobs :
    /\ jobs[j].status = "pending" => jobs[j].attempts = 0
    /\ jobs[j].retry # "null" =>
         jobs[j].status = "failed" /\ jobs[j].attempts < MaxRetries[j[2]]
    /\ Exists(j) => EventExists(j[1])

\* An owed job is queued, running or failed.
OwedUnfinished == \A j \in owed : Exists(j) /\ jobs[j].status \notin Terminal

\* The count handle_failure has read is still the row's when it writes the verdict.
VerdictCurrent ==
  pc = "verdict" => /\ verdict # "none"
                    /\ verdict = "failed" => jobs[cur.job].attempts < MaxRetries[cur.job[2]]

\* A stopped daemon holds nothing; a running one runs a processor only for an event
\* the loaded configuration routes to it, also when the job was queued under an
\* earlier configuration.
RunsAsConfigured == /\ ~up => pc = "idle"
                    /\ SchedulerHolds => cur.job \in eligible

QueueInv == /\ TypeOK
            /\ ClaimHeld /\ OneExecutor
            /\ RowsConsistent /\ AttemptsBounded /\ OwedUnfinished
            /\ VerdictCurrent /\ RunsAsConfigured

-----------------------------------------------------------------------------
(* What the documents say and the code does not do.                        *)

\* "mark remaining in-progress jobs as pending so they are retried on next startup":
\* a job in progress does not stay so for ever.
InterruptedJobsResume ==
  \A j \in Jobs : jobs[j].status = "in_progress" ~> jobs[j].status # "in_progress"

=============================================================================
