---------------------------- MODULE MailboxSync ----------------------------
(***************************************************************************)
(* Ingestion of one IMAP mailbox: the server's mailbox, the watcher task   *)
(* that scans, fetches and ingests, the raw message files, the emails      *)
(* table with the event each insert announces, and the checkpoint          *)
(* (mailbox_states).                                                       *)
(*                                                                         *)
(* One action is one IMAP command, one file write or one transaction.      *)
(* The database rows and files of this mailbox have no other writer.       *)
(***************************************************************************)
EXTENDS Naturals, FiniteSets

CONSTANTS Messages,     \* what may be delivered
          Dated,        \* messages dated before initial_sync_start_date
          SinceFilter,  \* is initial_sync_start_date set?
          Cap,          \* initial_sync_max_messages (MaxUid or more: unlimited)
          FetchBatch,   \* FETCH_BATCH_SIZE
          MaxUid,       \* bound on UIDs
          MaxEpochs,    \* bound on UIDVALIDITY values
          MaxFaults,    \* bound on failing commands, writes and transactions
          MaxStops,     \* bound on daemon shutdowns and crashes
          None,         \* no message
          Torn          \* a file cut short while it was written

Uids == 1..MaxUid

ASSUME SyncAssumption ==
  /\ Dated \subseteq Messages /\ SinceFilter \in BOOLEAN
  /\ None \notin Messages /\ Torn \notin Messages \cup {None}
  /\ Cap \in Nat /\ FetchBatch \in Nat \ {0}
  /\ MaxUid \in Nat /\ MaxEpochs \in Nat \ {0} /\ MaxFaults \in Nat /\ MaxStops \in Nat

VARIABLES
  epoch, box, uidnext,   \* server: UIDVALIDITY, the mailbox by UID, the next UID
  pending,               \* messages not delivered yet
  files,                 \* raw message files, named by UID alone
  emails,                \* the emails table, keyed by UID alone
  announced,             \* email_arrived events inserted for each UID
  state,                 \* the mailbox_states row; validity 0 means none
  pc, session,           \* watcher: control point, UIDVALIDITY of its connection
  todo, inbox,           \* watcher: UIDs still to fetch, messages fetched
  current,               \* watcher: the message saved and not yet inserted
  maxuid,                \* watcher: highest UID of this sync
  limited, failed,       \* history: messages left out by the limits, by a failed insert
  faults, stops          \* what the bounds have used up

serverVars  == <<epoch, box, uidnext, pending>>
dbVars      == <<emails, announced, state>>
watcherVars == <<pc, session, todo, inbox, current, maxuid>>
historyVars == <<limited, failed>>
boundVars   == <<faults, stops>>
vars == <<serverVars, files, dbVars, watcherVars, historyVars, boundVars>>

Outcome == {"ok", "lost", "unacked"}
Call(o) == /\ o \in Outcome
           /\ IF o = "ok" THEN faults' = faults ELSE faults < MaxFaults /\ faults' = faults + 1
           /\ UNCHANGED stops
Applied(o) == o # "lost"

Present == {u \in Uids : box[u] # None}
InBox(m) == \E u \in Uids : box[u] = m
Lowest(n, S)  == {u \in S : Cardinality({v \in S : v < u}) < n}
Highest(n, S) == {u \in S : Cardinality({v \in S : v > u}) < n}

-----------------------------------------------------------------------------
(* The server. *)

Deliver(m) ==
  /\ m \in pending /\ uidnext \in Uids
  /\ pending' = pending \ {m}
  /\ box' = [box EXCEPT ![uidnext] = m]
  /\ uidnext' = uidnext + 1
  /\ UNCHANGED <<epoch, files, dbVars, watcherVars, historyVars, boundVars>>

Expunge(u) ==
  /\ u \in Present
  /\ box' = [box EXCEPT ![u] = None]
  /\ UNCHANGED <<epoch, uidnext, pending, files, dbVars, watcherVars, historyVars, boundVars>>

\* The mailbox is rebuilt: a new UIDVALIDITY, and UIDs from 1 again in the old order.
\* Open sessions end with it.
Renumber ==
  LET rank(u) == Cardinality({v \in Present : v <= u}) IN
  /\ epoch < MaxEpochs /\ epoch' = epoch + 1
  /\ box' = [n \in Uids |-> IF \E u \in Present : rank(u) = n
                            THEN box[CHOOSE u \in Present : rank(u) = n] ELSE None]
  /\ uidnext' = Cardinality(Present) + 1
  /\ UNCHANGED <<pending, files, dbVars, watcherVars, historyVars, boundVars>>

-----------------------------------------------------------------------------
(* The watcher. *)

NoMessage == [uid |-> 0, msg |-> None]

Goto(point) == pc' = point /\ todo' = {} /\ inbox' = {} /\ current' = NoMessage /\ maxuid' = 0

\* An error ends the cycle; the watcher reconnects after a delay, unless AuthFails.
EndCycle == Goto("connect") /\ UNCHANGED session

Connect ==
  /\ pc = "connect"
  /\ session' = epoch /\ Goto("scan")
  /\ UNCHANGED <<serverVars, files, dbVars, historyVars, boundVars>>

\* Mutants: the sync resumes from the stored UID whatever its UIDVALIDITY, or compares the
\* UIDVALIDITY the wrong way round.
ResumeAnyway == state.last
ResumeInverted == IF state.validity # session THEN state.last ELSE 0

LastSeen == IF state.validity = session THEN state.last ELSE 0

\* The initial limits: on or after the start date, and the most recent Cap of those.
Limit(S) == Highest(Cap, {u \in S : SinceFilter => box[u] \notin Dated})

\* The first half of do_incremental_sync: read the checkpoint, list the newer UIDs and,
\* when nothing has been seen, apply the limits.
Scan ==
  LET new  == {u \in Present : u > LastSeen}
      kept == IF LastSeen = 0 THEN Limit(new) ELSE new
  IN
  /\ pc = "scan" /\ session = epoch /\ new # {}
  /\ pc' = IF kept = {} THEN "idle" ELSE "fetch"
  /\ todo' = kept /\ maxuid' = LastSeen
  /\ limited' = limited \cup {box[u] : u \in new \ kept}
  /\ UNCHANGED <<serverVars, files, dbVars, session, inbox, current, failed, boundVars>>

\* The same when nothing is new: only the checkpoint is written.
ScanEmpty(o) ==
  /\ pc = "scan" /\ session = epoch /\ \A u \in Present : u <= LastSeen
  /\ Call(o)
  /\ state' = IF Applied(o) THEN [validity |-> session, last |-> LastSeen] ELSE state
  /\ Goto(IF o = "ok" THEN "idle" ELSE "connect")
  /\ UNCHANGED <<serverVars, files, emails, announced, session, limited, failed>>

\* UID FETCH of the next chunk: everything present between its ends.
Fetch ==
  LET chunk == Lowest(FetchBatch, todo)
      range == {u \in Uids : \E v, w \in chunk : v <= u /\ u <= w}
  IN
  /\ pc = "fetch" /\ session = epoch
  /\ pc' = "ingest"
  /\ todo' = todo \ chunk
  /\ inbox' = {[uid |-> u, msg |-> box[u]] : u \in range \cap Present}
  /\ UNCHANGED <<serverVars, files, dbVars, session, current, maxuid, historyVars, boundVars>>

\* A command fails, or its session has died with the old UIDVALIDITY.
ImapFails ==
  /\ pc \in {"connect", "scan", "fetch"}
  /\ IF session # epoch /\ pc # "connect" THEN UNCHANGED boundVars ELSE Call("lost")
  /\ EndCycle
  /\ UNCHANGED <<serverVars, files, dbVars, historyVars>>

\* An error that speaks of a rejected LOGIN or of authentication, whichever call returns
\* it, stops the watcher instead.
AuthFails ==
  /\ pc \in {"connect", "scan", "fetch"} \/ (pc = "ingest" /\ inbox = {})
  /\ Call("lost")
  /\ Goto("stopped")
  /\ UNCHANGED <<serverVars, files, dbVars, session, historyVars>>

\* The account manager starts a stopped watcher again only when every watcher of the
\* account has ended (AccountManager): it may never happen.
Respawn ==
  /\ pc = "stopped" /\ Goto("connect")
  /\ UNCHANGED <<serverVars, files, dbVars, session, historyVars, boundVars>>

\* The file named after the UID, once the write of m has ended.  Mutant: the write is
\* skipped when the file is there.
WrittenOnce(m, o) ==
  CASE files[m.uid] # None -> files[m.uid]
    [] o = "ok"            -> m.msg
    [] OTHER               -> IF o = "lost" THEN None ELSE Torn

Written(m, o) ==
  CASE o = "ok"      -> m.msg
    [] o = "lost"    -> files[m.uid]
    [] o = "unacked" -> Torn

\* ingest_message, first half: the raw message is written over whatever file has its
\* name.  An error or a crash in the middle may leave half of it.
Save(m, o) ==
  /\ pc = "ingest" /\ m \in inbox
  /\ Call(o)
  /\ files' = [files EXCEPT ![m.uid] = Written(m, o)]
  /\ IF o = "ok"
     THEN /\ pc' = "insert" /\ current' = m /\ inbox' = inbox \ {m}
          /\ maxuid' = IF m.uid > maxuid THEN m.uid ELSE maxuid
          /\ UNCHANGED <<todo, session>>
     ELSE EndCycle
  /\ UNCHANGED <<serverVars, dbVars, historyVars>>

\* Does ON CONFLICT DO NOTHING return a row?  Mutant: an upsert, which always does.
FreshUpsert == TRUE
Fresh == emails[current.uid] = None

\* Second half: insert_email_with_event, one transaction that does nothing when the UID
\* has a row.  Its failure is logged and the batch goes on.
Insert(o) ==
  /\ pc = "insert"
  /\ Call(o)
  /\ IF Fresh /\ Applied(o)
     THEN /\ emails' = [emails EXCEPT ![current.uid] = current.msg]
          /\ announced' = [announced EXCEPT ![current.uid] = @ + 1]
     ELSE UNCHANGED <<emails, announced>>
  /\ failed' = IF Fresh /\ ~Applied(o) THEN failed \cup {current.msg} ELSE failed
  /\ pc' = "ingest" /\ current' = NoMessage
  /\ UNCHANGED <<serverVars, files, state, session, todo, inbox, maxuid, limited>>

\* The checkpoint after a chunk.  Mutant: it is the server's UIDNEXT - 1.
ReachedUidnext == [validity |-> session, last |-> uidnext - 1]
Reached == [validity |-> session, last |-> maxuid]

\* The chunk is done: upsert_mailbox_state, then the next chunk.
Checkpoint(o) ==
  /\ pc = "ingest" /\ inbox = {}
  /\ Call(o)
  /\ state' = IF Applied(o) THEN Reached ELSE state
  /\ IF o = "ok" /\ todo # {}
     THEN pc' = "fetch" /\ UNCHANGED <<todo, inbox, current, maxuid>>
     ELSE Goto(IF o = "ok" THEN "idle" ELSE "connect")
  /\ UNCHANGED <<serverVars, files, emails, announced, session, limited, failed>>

\* IDLE ends with a notification, its heartbeat or the inactivity timeout: sync again
\* on the same connection; or it fails, or was never supported: reconnect.
Wake ==
  /\ pc = "idle"
  /\ Goto("scan") \/ Goto("connect")
  /\ UNCHANGED <<serverVars, files, dbVars, session, historyVars, boundVars>>

\* The daemon ends, between any two steps: at shutdown the watcher stops at the next
\* message without a checkpoint, or is aborted.
Stop ==
  /\ pc # "off" /\ stops < MaxStops /\ stops' = stops + 1
  /\ Goto("off") /\ session' = 0
  /\ UNCHANGED <<serverVars, files, dbVars, historyVars, faults>>

Start ==
  /\ pc = "off" /\ Goto("connect")
  /\ UNCHANGED <<serverVars, files, dbVars, session, historyVars, boundVars>>

-----------------------------------------------------------------------------
Init ==
  /\ epoch = 1 /\ box = [u \in Uids |-> None] /\ uidnext = 1 /\ pending = Messages
  /\ files = [u \in Uids |-> None]
  /\ emails = [u \in Uids |-> None] /\ announced = [u \in Uids |-> 0]
  /\ state = [validity |-> 0, last |-> 0]
  /\ pc = "off" /\ session = 0 /\ todo = {} /\ inbox = {} /\ current = NoMessage /\ maxuid = 0
  /\ limited = {} /\ failed = {}
  /\ faults = 0 /\ stops = 0

Server == Renumber \/ (\E m \in pending : Deliver(m)) \/ (\E u \in Uids : Expunge(u))

Watcher ==
  \/ Connect \/ Scan \/ Fetch \/ ImapFails \/ AuthFails \/ Wake
  \/ \E o \in Outcome :
       \/ ScanEmpty(o) \/ Insert(o) \/ Checkpoint(o)
       \/ \E m \in inbox : Save(m, o)

Next == Server \/ Watcher \/ Respawn \/ Stop \/ Start

Spec == Init /\ [][Next]_vars

\* Commands end (command_timeout), a transaction answers or fails in the end, IDLE ends
\* at the latest after its inactivity timeout, and the daemon is started again.  Nothing
\* makes the other watchers of the account end, so Respawn is not fair.
FairSpec == Spec /\ WF_vars(Watcher) /\ WF_vars(Start)

-----------------------------------------------------------------------------
(* Properties. *)

Content == Messages \cup {None}

TypeOK ==
  /\ epoch \in 1..MaxEpochs /\ box \in [Uids -> Content]
  /\ uidnext \in 1..(MaxUid + 1) /\ pending \subseteq Messages
  /\ files \in [Uids -> Content \cup {Torn}]
  /\ emails \in [Uids -> Content] /\ announced \in [Uids -> Nat]
  /\ state \in [validity : 0..MaxEpochs, last : 0..MaxUid]
  /\ pc \in {"off", "connect", "scan", "fetch", "ingest", "insert", "idle", "stopped"}
  /\ session \in 0..MaxEpochs /\ todo \subseteq Uids /\ maxuid \in 0..MaxUid
  /\ inbox \subseteq [uid : Uids, msg : Messages]
  /\ current \in [uid : Uids, msg : Messages] \cup {NoMessage}
  /\ limited \subseteq Messages /\ failed \subseteq Messages
  /\ faults \in 0..MaxFaults /\ stops \in 0..MaxStops

\* The checkpoint never runs ahead of the work: a message at or below last_seen_uid that
\* is still on the server has its row, unless the initial limits left it out or its
\* insert failed.  After a change of UIDVALIDITY the rows, keyed by UID alone, say
\* nothing about the messages that bear those UIDs now.
CheckpointCovers ==
  epoch = 1 =>
    \A u \in Present : u <= state.last => emails[u] = box[u] \/ box[u] \in limited \cup failed

\* A checkpointed message that the server still has is whole on disk: a write cut short,
\* be it the rewrite of a message stored already, is repeated before the checkpoint
\* passes it, unless the initial limits then leave the message out.
CheckpointedIntact ==
  epoch = 1 =>
    \A u \in Present : u <= state.last /\ emails[u] # None
                         => files[u] = emails[u] \/ box[u] \in limited

\* Crashes and repeated fetches never announce a UID twice, nor store one silently: each
\* row has exactly one event, and was written after its raw file.
AnnouncedOnce ==
  \A u \in Uids : /\ announced[u] = IF emails[u] = None THEN 0 ELSE 1
                  /\ emails[u] # None => files[u] # None

\* Under one UIDVALIDITY the checkpoint never moves back, whatever the order in which
\* messages are fetched.
CheckpointForward ==
  [][state'.validity = state.validity => state'.last >= state.last]_vars

\* A checkpoint that counts for the current UIDVALIDITY lies below the server's next UID:
\* otherwise mail yet to come would be taken for seen.
CheckpointBelowNext == state.validity = epoch => state.last < uidnext

\* The watcher catches up again and again: every message that the server has is ingested,
\* left out by the limits, or its insert has failed; unless the server has changed its
\* UIDVALIDITY, or an authentication failure has stopped the watcher for good.
Stored(m) == \E u \in Uids : emails[u] = m
Handled(m) == Stored(m) \/ m \in limited \cup failed
DeliveredHandled ==
  \/ []<>(epoch > 1 \/ \A m \in Messages : InBox(m) => Handled(m))
  \/ <>[](pc = "stopped")

-----------------------------------------------------------------------------
(* What the documents say and the code does not do. *)

\* "failed to persist message, will retry next cycle".
FailedInsertsRetried == \A m \in Messages : m \in failed ~> Stored(m) \/ ~InBox(m)

\* "UIDVALIDITY changed, re-syncing from scratch": the messages under the new UIDs are
\* ingested like those under the old.
RenumberedIngested ==
  \A m \in Messages : epoch > 1 /\ InBox(m) ~> Stored(m) \/ ~InBox(m)

=============================================================================
