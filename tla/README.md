# TLA+ models of mailmux

mailmux is a daemon that watches IMAP mailboxes, stores every new message in
PostgreSQL and on disk, and hands each one as an event to configured processors.
Two programs live beside it in the repository: mailtx, a processor that books bank
mail in Firefly III, and mailindex, a search service that processors feed. This
directory models the core logic of all three in TLA+, checks it with TLC and proves the
main safety results with TLAPS.

`PROJECT.json` lists the runs, which source lines each definition stands for, the
hazards of the code with the properties that watch them, and the theorems.

## 1. Inventory

Paths are relative to `src/mailmux/src`, unless they name another crate.

| Component | State | Operations | Talks to |
|---|---|---|---|
| Mailbox watcher (`imap/sync.rs`, one task per mailbox) | its connection; row of `mailbox_states`; rows of `emails`; `.eml` files | sync and IDLE cycle, incremental sync, ingest a message, checkpoint | IMAP server, PostgreSQL, disk |
| IMAP connection (`imap/connection.rs`) | socket, command tags, responses not read yet | connect, select, fetch range and UID list, search, IDLE, logout | watcher |
| Account manager (`imap/mod.rs`) | set of watcher tasks, recent panics | spawn, restart after all have ended, circuit breaker | watchers |
| Event loop (`events/listener.rs`) | the batch being sent | NOTIFY or poll, fetch undispatched events, send | `events`, channel of 256 batches |
| Job scheduler (`processor/scheduler.rs`, `db/jobs.rs`) | batch, sweep, current job; rows of `processor_jobs` | register dispatch, sweep, claim, execute, record the outcome | channel, tables, processors |
| Event cleanup (`housekeeping.rs`) | a transaction with locked events | select expired events, delete their jobs and them | tables |
| `mailmux replay` (`main.rs`) | a process per command | find or create the job, reset and claim, run, record | tables |
| `mailmux backfill` (`backfill.rs`) | page cursor, counts | count, page, chunk, retry | `emails`, processors |
| Daemon (`main.rs`, `shutdown.rs`) | the loaded configuration | start, grace period, abort | all tasks |
| mailindex (`mailindex/src`) | `documents` with a content hash and an index state; Tantivy index directory | upload, requeue, index worker, rebuild and swap | HTTP clients |
| mailtx (`mailtx/src`) | SQLite table of transfer legs waiting for their counterpart | expire, match, post, store, delete | Firefly III |

How they interact: a watcher commits an email and its event in one transaction that
also sends a NOTIFY; the event loop reads undispatched events and passes them through
the channel; the scheduler inserts one job per eligible processor and marks the event
in one transaction, then runs those jobs one by one; the sweep finds what was left
pending or is due for a retry. Cleanup and replay work on the same rows from outside.
Nothing but the database holds these parties together, so the hard behaviours are
interleavings at its statements, failing calls, and restarts between two statements.

What makes each component correct:

* Queue: a job has one executor; its claim stays in force until its own outcome is
  written; attempts are bounded; an event is routed once and completely; work that is
  owed is never dropped; finished rows stay finished.
* Ingestion: the checkpoint never passes work that is not done, whatever fails or
  arrives in between; a message is stored and announced exactly once; mail that is
  delivered is ingested in the end.
* IMAP connection: commands and responses stay in step; where they do not (a drain that
  timed out), the checkpoint still passes nothing; IDLE misses no mail for good.
* Account manager: one watcher per mailbox; an account all of whose watchers are down is
  started again; a crash loop is throttled; shutdown ends everything.
* Backfill: one run hands no email to the processor twice and ends; its summary accounts
  for every email it counted.
* mailindex: the index state never says "indexed" for a version that is not; a
  rebuild loses no index; what is pending is settled.
* mailtx: a bank transaction is booked once, a transfer once for its two legs, on the
  accounts that the emails name, and what is reported as processed is booked or pending.

The full list of hazards, each at its line, is in `PROJECT.json`.

## 2. Modules

| Module | Contents |
|---|---|
| `JobScheduler` | events, `processor_jobs`, event loop, scheduler, cleanup, replay processes, daemon starts and stops |
| `JobLifecycle` | abstract specification: the life of a job |
| `JobRefinement` | how the queue implements `JobLifecycle` |
| `JobSchedulerProofs` | theorems about `JobScheduler` |
| `MailboxSync` | server mailbox, watcher, files, `emails` with their events, checkpoint |
| `ImapSession` | server, wire and client of one IMAP connection, response by response, with the sync loop that uses it |
| `AccountManager` | the watchers of an account and their supervision |
| `Backfill` | component: one invocation of `mailmux backfill` beside the daemon |
| `TransferBooking` | component: runs of mailtx, the pending legs, Firefly |
| `TransferDetection` | what mailtx makes of an email: reply, account, route, counterpart |
| `BackfillBooking` | composition of the two: a backfill whose processor is mailtx |
| `MessageIndex` | mailindex: documents, uploads, index worker, rebuild |
| `MailboxSyncProofs`, `ImapSessionProofs`, `AccountManagerProofs`, `MessageIndexProofs` | theorems about these modules |
| `JobRefinementProofs` | the queue implements `JobLifecycle` |
| `BackfillProofs` | theorems about the backfill within the composition |
| `BackfillBookingProofs` | theorems about mailtx within the composition |
| `MCJobScheduler`, `MCMailboxSync`, `MCImapSession`, `MCAccountManager`, `MCBackfillBooking`, `MCTransferDetection`, `MCMessageIndex` | instances for TLC |

### JobScheduler

One action is one database statement or transaction of one task, with the local
computation around it. So every interleaving the database can see is a behaviour.

| State | Code |
|---|---|
| `events` | row of `events`: absent, stored, dispatched (`dispatched_at` set), deleted |
| `jobs` | row of `processor_jobs` by (event, processor), with a row id that is new for each insert |
| `fetched`, `channel` | the batch in `fetch_and_dispatch`, the mpsc channel |
| `batch`, `work`, `sweeping`, `pc`, `cur`, `verdict` | local state of `process_events`, `retry_sweep`, `execute_job`, `handle_failure` |
| `candidates` | events locked by the cleanup transaction |
| `rpc`, `rtodo`, `rcur` | each replay process |
| `up`, `eligible` | the daemon and the routing of the configuration it has loaded |
| `owed` | history: routed jobs not completed or abandoned so far |

Abstractions, and why they lose nothing the properties tell apart:

* Times become orderings: an event is past its retention or not (`Age`), a retry is
  later or due (`RetryDue`).
* A failed call either had no effect or took effect without a reply. An await that is
  aborted at shutdown is such a call followed by `Stop`.
* `Stop` stands for a crash and for the abort after the grace period; both leave the
  same rows. `Start` may load another configuration.
* The sweep's `LIMIT 50` keeps any `SweepLimit` of the runnable rows, since the order
  is by time.
* The two deletes of the cleanup and its commit are one step: a row the first delete
  has taken stays locked, and the event lock keeps new jobs out.
* Whether a processor ends with success, failure, error or timeout is open
  (`Complete` or `ReadAttempts`).
* The email row is not modelled. When it cannot be read the code runs the processor
  without it; the queue goes through the same steps.
* One daemon runs on the database, as the code assumes.

### JobLifecycle and the refinement

`JobLifecycle` says what an operator may rely on: none → queued → running → done,
waiting or abandoned; attempts within a budget; final states left only by replay or
retention. It also names what the queue does not promise: `stranded`, a job whose
executor was interrupted or could not record the outcome. `JobRefinement` maps
each row and its holder to that life; the run `queue_safety` checks the implication.

### MailboxSync

One mailbox, one watcher. The server delivers, expunges, and may rebuild the mailbox
under a new UIDVALIDITY, between any two steps of the watcher. The UID list and the
`UID SEARCH` are one step (`Scan`): what the server does between them changes nothing
the code looks at, except which messages are listed, and that `Scan` can see too.

| State | Code |
|---|---|
| `epoch`, `box`, `uidnext`, `pending` | the server (external) |
| `files` | `<uid>.eml`, perhaps cut short (`Torn`) |
| `emails`, `announced` | rows of `emails` and the number of `email_arrived` events of each |
| `state` | row of `mailbox_states` |
| `pc`, `session`, `todo`, `inbox`, `current`, `maxuid` | locals of `sync_and_idle_cycle`, `do_incremental_sync`, `ingest_message` |
| `limited`, `failed` | history: left out by the initial limits; insert failed |

An error anywhere before the insert ends the cycle (`EndCycle`); a failing insert does not.
The watcher then reconnects, unless the error was an authentication failure: then it is
stopped (`sync.rs:72-80`), and only `AccountManager` starts it again, when every watcher of the
account has ended (`Respawn`, which need never happen). A file write that fails or is interrupted may
leave half a file. Messages of a batch are ingested in any order, which covers what a
server may answer.

### ImapSession

`MailboxSync` takes a command for one step. `ImapSession` opens that step: the client reads
responses one by one and takes the first completion for the end of its command, whatever
tag it bears; commands and responses wait on the wire, so timers may fire before an answer
that is on its way.

| State | Code |
|---|---|
| `top`, `untold`, `idling`, `answer` | the server (external): highest UID, EXISTS due, in IDLE, rest of an answer |
| `sent`, `wire` | commands and responses under way |
| `pc`, `got`, `todo`, `noticed`, `validity` | locals of the commands in `connection.rs` and of `do_incremental_sync` |
| `draining` | the FETCH whose late data is read after its completion |
| `polling` | the connection is one of `poll_cycle`, after IDLE was rejected or failed |
| `state`, `ingested` | `mailbox_states`, stored messages |
| `limited` | history: what the initial limits left out |
| `cut`, `passed` | history: something was left unread; an EXISTS was read by a command that ignores it |

Assumed of the server: it answers commands in order and sends messages by ascending UID on
one stream. That is what makes a session that is out of step harmless: late data is either
picked up by the next FETCH or listed again, since the checkpoint stands at the highest UID
that was read. Three things the model shows in the code: LOGIN ends at the first status,
tagged or not (`connection.rs:279`), so SELECT may read LOGIN's completion and the sync run
with UIDVALIDITY 0, `last_seen_uid` 0 and the initial limits once more, so that it may leave out
new mail and checkpoint past it; the drain after DONE ends at any status too (`connection.rs:642-658`,
`722-758`), although the comment above it (`664-670`) means the completion; and an EXISTS
during LIST, FETCH or SEARCH is ignored, so that only the heartbeat or the inactivity limit
finds the message. `IdleNotices` names these exceptions, `MailStored` says that the
heartbeat makes up for them. A connection that breaks makes the watcher reconnect; in IDLE,
where an error that is no timeout falls back to `poll_cycle`, it may also go on polling; and a
rejected LOGIN stops the watcher (`pc = "stopped"`), and `MailStored` excepts one that stays so.

### AccountManager

| State | Code |
|---|---|
| `working`, `delayed`, `returned`, `panicked` | tasks of each mailbox in the `JoinSet`: in a cycle, in a retry delay, ended and not yet joined |
| `manager` | `AccountManager::run`: in its select, in the cooldown, before a restart, ended |
| `recent` | `failure_times` |
| `token` | the cancellation token |
| `rounds`, `crashed`, `refused` | history: restarts after a panic since the last cooldown or the end of a window; was a panic joined since the last restart; watchers that authentication stopped since the last restart |

Tasks are counted, not named, so that two watchers of one mailbox are a state of the model
and `OneWatcher` can fail. `CrashLoopThrottled` counts restarts after panics, not panics: several
watchers may panic in one round, and what the breaker must prevent is that the account comes up
again and again without a cooldown. `AllDownRestarted` speaks of the watchers that panicked: that
those which authentication stopped (`refused`) are started with them is what the code does, and no
promise of it. The mailboxes of an account have distinct names, which
`config.rs` does not check.

The module shows where three sentences of the docs go further than the code: a watcher that
stops on an authentication failure is started again once all of its account have ended
(`docs/design.md:191` says it needs a fix of the configuration and a restart); a watcher that panicked is not restarted while another one runs (`docs/design.md:194`,
`README.md:51`); and nothing restarts an account manager that panics (`design.md:195`).

### Backfill, TransferBooking and BackfillBooking

`Backfill` follows `run_backfill`: count, then page by page, chunk by chunk, with retries,
while the daemon commits rows (not in the order of their ids) and rows are deleted.

| State | Code |
|---|---|
| `table` | rows of `emails` that the filter selects |
| `selected`, `remaining`, `lastId`, `page`, `chunk` | locals of `run_backfill` |
| `status`, `tries` | locals of `execute_email_with_retries` |
| `succeeded`, `failed`, `skipped` | `BackfillSummary` |
| `first`, `handed`, `drifted`, `broken` | history |

`TransferBooking` follows a run of mailtx. A process is named after its email, as its
external id is. Each HTTP request and each SQLite statement is an action that succeeds,
fails without effect, or takes effect without an answer.

| State | Code |
|---|---|
| `rows`, `serial` | `pending_transfers` |
| `booked`, `counted` | Firefly: transactions that bear an external id; transactions that an email's money is part of |
| `pc`, `list`, `reading`, `held` | locals of `run`: expired legs to flush, what was extracted, the counterpart |
| `starts`, `owed`, `torn`, `dropped`, `overlap` | history; `overlap` holds emails that two processes had in hand at once |

Extraction is open: a constant gives what the language model may make of each email. All
legs are of one rule and one amount; several are in `TransferDetection`. A request that was sent is
handled before a later run's lookup.

`BackfillBooking` joins them where `CommandProcessor::process` does: an attempt starts a
process, takes its exit status, or kills its process group at the timeout. Two emails are
executed at once, which the code allows; mailtx's README (line 354) calls one appropriate.

### TransferDetection

What a run of mailtx decides, which `TransferBooking` leaves open: is the model's reply of use,
which account does the text name, is the transaction a leg of a route, which pending leg is its
counterpart, and what is booked in each case. Here one action is a whole run (`Run`, or `Drain`
when it ends without a transaction), and runs follow each other.

| State | Code |
|---|---|
| `config` | the configuration: accounts and rules in their order, default account, backend |
| `pending` | `pending_transfers`, with the rule, leg, amount and accounts of each |
| `ledger` | Firefly: transactions with their accounts and the emails they stand for |
| `read` | history: what was made of each email |

`Init` chooses the configuration, so that one run of TLC goes through all of them. A text is what
the regular expressions of `matcher.rs` capture and the words it contains; a number is a sequence
of digits, since an account matches by its end. Amounts are in tenths of a cent, so that two that
round to one cent can differ. Account ids are distinct and without colon, and none is "default":
the code checks neither, and builds a rule's id from two of them.

* `TransferJoinsBothAccounts`: a transfer joins a withdrawal and a deposit of one amount (but for
  less than a cent) and moves it between the accounts that the two emails name.
* `CouplesMeet`: two legs of one route never wait past each other, in whatever order they come.
* `BestHintDecides` says declaratively (a least element of the hints of a text) what the three
  loops of `matcher.rs` compute.

### MessageIndex

| State | Code |
|---|---|
| `rows` | `documents`: version (the content hash) and index state |
| `uploads` | requests between the hash check and the upsert in `upload` |
| `active`, `fresh`, `old`, `kept` | index directories: in use, rebuilt, moved away, left behind |
| `pc`, `todo`, `batch`, `result`, `poisoned` | `IndexWorker::drain` and the writer's lock |
| `step`, `manifest` | `rebuild_index_with_hooks` |
| `past`, `reverted`, `interrupted` | history |

A version stands for hash, body and attachments; a document is read by two queries, so its
entry in the index may mix two versions. A batch that fails is rolled back; the rollback may
fail as well, which the code does not look at (`worker.rs:144`), and then the writer fails from
then on (`poisoned`). That a writer whose rollback failed goes on with operations of the failed
batch is left out. The worker's notification is left out: its tick
does the same. A search is its hits in the index, shown from their rows (`Finds`). Documents
are numbered by their first upload. A rebuild that finds no
directory has no lock to take; that an operator does not start mailindex during such a
rebuild is assumed. `IndexedSearchable` excepts documents that went back to an earlier
content (`reverted`): there the hash cannot tell that the document changed twice, and a
rebuild may mark a version its index does not hold, contrary to the comment at
`rebuild.rs:184`. It also excepts an index whose swap was cut short (`interrupted`):
`IndexRecoverable` says that a directory still holds what was indexed. A restart does not look for
it (section 3).

## 3. What the runs show

| Run | Question | Bounds | Result |
|---|---|---|---|
| `queue_safety` | safety of the queue and refinement of `JobLifecycle` | 1 event, 2 processors (0 and 2 `max_retries`), 1 replay, 1 fault, 1 stop, routing that may change at a start | holds, 293 000 states |
| `queue_liveness` | are events routed and jobs taken? with a changing configuration | 2 events, batches of 1, 1 processor, 1 fault, 2 stops | holds, 134 000 states |
| `interrupted_jobs` | are interrupted jobs resumed, as design.md says? | 1 stop | violated |
| `mailbox_sync` | does the checkpoint cover only work that is done; is delivered mail ingested? | 3 messages, one too old, cap 1, batches of 1, 2 UIDVALIDITY values, 1 fault, 1 stop | holds, 1.2 million states |
| `failed_insert` | is a message whose insert failed retried, as the log says? | 2 messages, 1 fault | violated |
| `uidvalidity_change` | is a renumbered mailbox synced from scratch, as the log says? | 2 messages, 2 UIDVALIDITY values | violated |
| `imap_session` | do commands and responses stay in step, and is all mail stored? | 4 messages, one too old, cap 2, batches of 2, 1 trouble | holds, 920 000 states |
| `supervision` | one watcher, restart, throttling, shutdown | 3 mailboxes, breaker at 3 | holds, 3 800 states |
| `backfill_booking` | does a backfill add up and book each transaction once? | 3 emails, 2 at once, 1 retry, 1 deletion, 1 fault, 1 kill | holds, 380 000 states |
| `dropped_leg` | is no transaction dropped, as the docs say? | 3 emails, all legs | violated |
| `transfer_detection` | right accounts, right counterpart? | 12 emails, 4 of them read, 3 configurations | holds, 390 000 states |
| `message_index` | does "indexed" mean searchable, and is an index ever lost? | 2 documents, 2 versions, 3 uploads, 1 requeue, 1 rebuild, 1 fault, 1 stop | holds, 540 000 states |

The type invariants of the queue, the mailbox, the session and the index are proved (section 4) and
in no run; that of the queue is a part of `QueueInv`.

Why these bounds suffice. The queue's rows interact only through their event, the
batch and the single scheduler, so two jobs of one event, or one job each of two
events, meet every conflict; two attempts reach both branches of the retry
decision; one replay beside the scheduler and the cleanup gives every race between
two writers of a row, and the proofs cover any number. A batch of one with two events
makes batches stale, a channel of one makes the event loop wait, and one fault or stop
falls at every step. In ingestion, a cap below the number of messages and one message before
the start date exercise the limits. Batches of one make every later sync of two messages fetch
two chunks, and a failure, a stop or an authentication failure can fall between them; that
messages of one batch are stored in any order is left to the theorems, which cover any batch size
(the violations run with batches of two). In a session, four messages give a later sync of two
batches, since the cap holds for the first one alone, and one that arrives while the first are
fetched; batches of two can be read in part. One trouble puts the session out of step at any
response; the theorems cover any number. A trouble is an untagged status at any time, a
drain or command that times out early, or a connection or login that fails. Three watchers can
reach the breaker's threshold in one round and leave one that is never joined during the cooldown. Two legs and a third email give every meeting of a
process with a leg: matched, expired, flushed by a neighbour, held by two. Two documents in
batches of two make a batch partly stale, and the third upload brings a document back to an
earlier content. Four emails make two couples, or a couple with a leg of another route, amount or
account before and between them.

The violations are disagreements between the code and its own words:

1. `docs/design.md:210` promises that jobs still running at the end of the grace
   period are marked pending. `cmd_run` aborts the tasks; the rows stay `in_progress`
   and neither sweep nor replay takes them.
2. `sync.rs:483` and `docs/design.md:193` say that a message which cannot be stored is
   retried in the next cycle. Its UID is under the checkpoint by then.
3. `sync.rs:255` and `docs/features.md:88` promise recovery from a new UIDVALIDITY. The
   rows and files of the old numbering are still keyed by the same UIDs, so a message
   whose new UID is taken is passed over.
4. `mailtx/src/main.rs:67` and `mailtx/docs/transfer-detection.md:130` promise that no
   transaction is lost. When the second email's external id is in Firefly already, posting
   the transfer returns success without posting, and the pending leg is deleted. In the
   run an email's leg is stored, but the process fails; before its retry the leg expires and
   is flushed alone; the retry then meets the counterpart that has come meanwhile.

More disagreements and observations, which have no run:

* An account is tried again after an authentication failure, once all its watchers have ended
  (`imap/mod.rs:104`); `docs/design.md:191` says "stop retrying for this account. Requires config
  fix + restart".
* The initial limits apply whenever `last_seen_uid` is 0 (`sync.rs:288`), while the comment above,
  `README.md:224` and `config.example.toml:49` speak of the first sync. A first sync of an empty
  mailbox leaves 0 behind; and a session whose LOGIN was ended by an untagged status does not know
  its UIDVALIDITY and takes a mailbox with any checkpoint for one never synced. Both then leave out
  new mail for good; `limited` records what they leave out.
* `mailindex/docs/spec.md:92` names recovery after a restart when database and index are out of
  sync. After a rebuild that stopped between its renames (`rebuild.rs:165-172`) the next start opens
  an empty index, its worker reads pending rows only, and the rows that say indexed stay
  unsearchable until an operator rebuilds.
* `README.md:246` calls `max_retries` the maximum of retry attempts; the queue counts the first
  attempt as well (`scheduler.rs:301`), while backfill does not (`backfill.rs:416`).
* The fetch of a range brings in the messages that the start date had left out of it
  (`sync.rs:337`).

### Fairness

* Tasks: a database call answers or fails in the end (the code awaits it without a
  timeout of its own), IMAP commands have `command_timeout`, and every processor run
  ends (`tokio::time::timeout`), so a task inside an iteration goes on: weak
  fairness of `SchedulerBody`, `Fetch`, `Send`, of the cleanup that has begun, and of
  the watcher.
* `select!` picks at random among ready branches, and a tick or a message stays ready
  until it is taken. A branch that is ready again and again is taken: strong fairness of
  `Receive` and `Sweep`.
* The clock goes on (`RetryDue`), and a stopped daemon is started again (`Start`).
* No fairness for replays, arrivals, faults or the mail server of `MailboxSync`, and none for
  `Respawn`: a watcher stopped by an authentication failure waits for its neighbours to end.
* `ImapSession`: the server answers and the client reads (weak fairness of both), the
  timers of `connection.rs` fire, and the watcher reconnects after its delay. Troubles are
  bounded, not fair.
* `AccountManager`: the manager's task is polled when a branch of its select is ready;
  shutdown is such a branch in every delay. The watchers need no fairness.
* `Backfill` and `TransferBooking`: queries, requests and processes end, the last because
  each attempt has a timeout that kills it.
* `MessageIndex`: the worker wakes at every tick, a rebuild that has begun goes on, and
  mailindex is started again.

## 4. Proofs

The theorems hold for every value of the constants that satisfies the module's assumption:
any sets of events, processors, mailboxes, documents and emails, any limits and batch sizes.
Each proof goes by an inductive invariant that TLC confirmed on an instance first.

### The queue

`JobSchedulerProofs` assumes `ConstantsAssumption`.

| Theorem | Says |
|---|---|
| `TypeCorrect` | `[]TypeOK` |
| `QueueInvariant` | `[]QueueInv`, the inductive invariant |
| `ClaimsAreHeld` | while a processor runs, its row is the one claimed, and in progress |
| `OneExecutorPerJob` | scheduler and replays never run the same job |
| `AttemptsAreBounded` | attempts stay within max(1, `max_retries`) |
| `OwedWorkIsKept` | a routed job keeps row and event until it is finished |
| `FinishedJobsAreKept` | finished rows change only by a replay's claim or by cleanup |
| `EventsAreRoutedOnce` | rows appear only with their event's mark, or by replay |

`ClaimHeld` and `OneExecutor` are not inductive: a claim could be broken by any write by id.
`QueueInv` adds why it is not:

* `RowsConsistent`: only a failed row with attempts left waits for a retry, a pending
  row is untried, and a row has its event. So a sweep or a dispatch meets `pending` or
  `failed`, never a row in progress; cleanup meets finished ones only.
* `VerdictCurrent`: the count read by `handle_failure` is still the row's when the
  verdict is written.
* `RunsAsConfigured`: a stopped daemon holds nothing; a running one holds only jobs its
  configuration routes. So a restart needs no repair of the holders.
* `OwedUnfinished`: what is owed has a row that is not finished, which cleanup
  therefore does not delete.

Each action either leaves the tables alone (`Bystanders`, `SameRows`) or changes one
row to one that fits (`OneRowChanges`, `UpdateKeepsRows`), and then either releases a
holder (`SchedulerEnds`, `ReplayEnds`) or takes a claim on a row nobody holds. Only
registration and cleanup change several rows and are treated on their own.

`JobRefinementProofs` proves `QueueImplementsLifecycle`: `Spec` implies
`JobLifecycle`'s specification under the mapping of `JobRefinement`. It takes each step of
the queue to a step of the lives of its jobs or to a stutter, job by job. `QueueInv` does
not suffice for it: that an abandoned job has used up its budget, and that a job with no row
has no attempts, is `CountsInv`.

### Ingestion

`MailboxSyncProofs` assumes `SyncAssumption`.

| Theorem | Says |
|---|---|
| `SyncInvariant` | `[]SyncInv`, the inductive invariant |
| `TypeCorrect` | `[]TypeOK` |
| `CheckpointedAreStored` | a message at or below the checkpoint is stored, left out by the limits, or its insert failed |
| `CheckpointedAreIntact` | and its file is whole |
| `RowsAreAnnouncedOnce` | a row has one event |
| `CheckpointIsBelowNext` | the checkpoint stays below the server's next UID |
| `CheckpointMovesForward` | under one UIDVALIDITY it never moves back |

The checkpoint is the highest UID seen, not a list of what is done, so `CheckpointCovers`
depends on everything between two checkpoints: `Accounted` says that up to the highest UID of
a batch a message is settled or at hand, and up to one that is still to be fetched it is
settled, at hand or to be fetched; `WorkAbove` that fetched and unfetched UIDs do not
overlap; `OneMeaning` that a UID means the same message to server, watcher, row and file.
These hold for the first UIDVALIDITY, of which the two properties speak: after a renumbering
the code does skip messages (run `uidvalidity_change`).

### IMAP session

`ImapSessionProofs` assumes `SessionAssumption`: the theorems hold for each choice of the
orders and answers of servers.

| Theorem | Says |
|---|---|
| `TypeCorrect` | `[]TypeOK` |
| `NothingIsSkipped` | the checkpoint never passes a message that was neither stored nor left out by the limits |
| `StaysInStep` | one completion is owed in a command, none in IDLE before DONE |
| `NothingIsMissed` | a client that idles with no EXISTS to come has stored all mail or left it out by the limits, within the exceptions of `IdleNotices` |

Three invariants are proved one on the other:

* `Inv` is `NoneSkipped` with what makes it inductive. `PhaseInv`: what may be under way at
  each control point. A list never meets a message of a fetch that was given up: that is
  read before the reply to IDLE, which only untagged responses follow (`IdleLast`).
  `FlowInv`: UIDs or messages under way continue what the client has without a gap,
  response by response, and from one FETCH to the next; what the client has is all up to the
  checkpoint, what it received, and what the limits left out, which together have no gap either. So the highest UID received, which
  becomes the checkpoint, has all others below it at hand.
* `StepInv` is `InStep`, with the count for the drain after DONE even when the step is
  broken. `CountAppend` and `CountTail` say how a response more or less changes the count.
* `OrderInv` and `NoticeInv` need the step: when the one completion that is owed has been read,
  and the client received data, no more data can come (a server sends the completion after
  all its data or before), so that what a command returns is all the server answered.
  `NoticeInv` follows each message that was delivered: it is stored, to be fetched, asked for
  or on its way, or an EXISTS tells of it.

### Supervision

`AccountManagerProofs` assumes `SupervisionAssumption`.

| Theorem | Says |
|---|---|
| `SupervisionInvariant` | the inductive invariant |
| `TypeCorrect` | `[]TypeOK`, with the bound on the panics counted in a window |
| `OneWatcherPerMailbox` | no mailbox has two watchers |
| `CrashLoopsAreThrottled` | as long as no panic leaves the window, the account is started again after a panic fewer times than the threshold before a cooldown is slept out |

`OneWatcher` alone is not inductive, since a restart adds a watcher to every mailbox: the
invariant adds that no task is left while the manager waits to restart. Nor is the bound on restarts:
`Paid` adds that each restart after a panic, and the one that is owed, is paid for by a panic that
the window still counts, and that a tripped breaker leaves through its cooldown alone.

### Search index

`MessageIndexProofs` assumes `IndexAssumption`.

| Theorem | Says |
|---|---|
| `IndexInvariant` | `[]IndexInv`, the inductive invariant |
| `TypeCorrect` | `[]TypeOK` |
| `IndexedIsSearchable` | a document marked indexed is found in the active index as its row has it |
| `IndexedIsRecoverable` | while a rebuild has moved the index away, some directory still finds it |

A mark compares the content hash alone. `BatchCurrent` and `ManifestInv` say what that
comparison stands for: while a row keeps the version that a batch or a manifest entry read,
attachments read meanwhile are of that version too and the index that was written holds it.
`BackupInv` does the same for the index that a failed installation puts back.

### Backfill and booking

`BackfillProofs` and `BackfillBookingProofs` prove about the composition, whose daemon,
timeouts and neighbour processes are part of every step. They assume `BackfillAssumption`
and `BookingAssumption`.

| Theorem | Says |
|---|---|
| `RunInvariant`, `StoreInvariant` | the inductive invariants |
| `TypeCorrect` | both components' `TypeOK` |
| `RunsHandOutOnce` | a run hands no email to the processor twice |
| `SummariesAddUp` | succeeded, failed and skipped add up to what was selected |
| `CountedAreProcessed` | what was counted at the start and is still there was handed out, within the exceptions of `CountedProcessed` |
| `NothingBookedTwice` | no external id is booked twice, over retries, timeouts, lost answers and flushes, unless two processes looked it up before either had posted |
| `NothingReportedIsLost` | what a run reported as processed is in Firefly or pending, but for legs deleted unposted |
| `MoneyCountedOnce` | the money of an email that was read once is in one transaction at most, within the exceptions of `CountedOnce` |

* `RunInv`: a page and what was handed out lie below `lastId` and are disjoint (`Passed`),
  so no query returns an email again. `Accounts` equates the selected count with handed out,
  page and remaining. `Counted` carries the count's own set through pages that are read from
  a table in motion: it ranks the counted emails by id, and a page of the first n rows takes
  the first n of them unless one was committed below.
* `BookingInv`: the lookup and the post are two requests. `LookupHolds` bridges them: a
  process about to post has an id which is still not booked, and no other is about to post
  it, or the id is an overlap. Only `Post` books, and it ends its own claim.
* `StoreInv`: ids are not given again and an external id waits once (`Store`), so a leg
  that a process listed or holds is the one it later deletes.
* `MoneyInv`: per email, before its run is over no leg of it exists (`Unsettled`); then it
  has one leg (`OneLeg`), which one process at most holds (`HeldOnce`) and none flushes
  meanwhile (`ListedAlone`); a waiting leg is booked as often as it is counted unless its
  transfer is about to delete it (`WaitsAlone`).

The pages, chunks and counts are finite sets; the induction their lemmas need (`LeastNat`,
`FewerBelow`, `Greatest`) goes by a least element of a set of numbers.

### Only model-checked

Every safety invariant and action property of the passing runs is proved but those of
`TransferDetection` (`TypeOK`, `TransferJoinsBothAccounts`, `CouplesMeet`, `BestHintDecides`): they
say what searches through sequences of accounts, numbers and rules find, for which an induction
over the sequence is needed that the provers here cannot do. Also left to TLC is liveness, which is
out of the provers' reach: `EventsDispatched`, `QueuedJobsTaken`,
`DeliveredHandled`, `MailStored`, `AllDownRestarted`, `ShutdownEnds`, `RunEnds`,
`PendingSettled`.

## 5. Not modelled, and the plan

Not modelled: parsing of mail, MIME and configuration, search queries and their rendering,
the MCP tools, metrics, health and logging, prompts of the language model and the requests to it.
They keep no state the rest depends on, or are pure: what they decide is
a nondeterministic choice where a model needs it (`Readings`, `Configs`). TLS and OAuth
tokens of a connection are left out; they can only make it fail, which `Break` covers. The
email row that a job's processor reads is not modelled: when it cannot be read the processor
runs without it and the job goes through the same steps.

Left to do: `MailboxSync` takes a command for one step and `ImapSession` opens it, but no
refinement mapping links the two. The difficulty is that their histories of what may be
missed differ: `cut` and `passed` have no counterpart in `MailboxSync`, and `ImapSession`
has one mailbox of one UIDVALIDITY.
