----------------------------- MODULE ImapSession -----------------------------
(***************************************************************************)
(* One watcher's IMAP session, response by response: ImapConnection and    *)
(* the cycle of MailboxWatcher that uses it.  The client ends a command at *)
(* the next completion it reads, whatever its tag; two drains read what    *)
(* may come after one, for a limited time.                                 *)
(*                                                                         *)
(* The server answers commands in order and sends messages in the order of *)
(* their UIDs.  The wire holds what it has sent and the client has not     *)
(* read: a timer of the client may fire before it arrives.  One mailbox of *)
(* one UIDVALIDITY, without expunges; storing a message does not fail      *)
(* (MailboxSync has these).                                                *)
(***************************************************************************)
EXTENDS Naturals, Sequences, FiniteSets, FiniteSetsExt

CONSTANTS MaxUid,         \* bound on messages delivered; their UIDs are 1, 2, ...
          Batch,          \* FETCH_BATCH_SIZE
          Orders,         \* where a server may send a completion: "after" its data, or "before"
          IdleAnswers,    \* how the server may answer IDLE: "accepted", "rejected"
          SinceFilter,    \* is initial_sync_start_date set?
          Dated,          \* the messages before that date
          Cap,            \* initial_sync_max_messages; not set: MaxUid
          MaxTroubles     \* bound on untagged OKs, drains that time out too early, and
                          \* connections that fail, together

ASSUME SessionAssumption ==
  /\ MaxUid \in Nat \ {0} /\ Batch \in Nat \ {0}
  /\ Orders \subseteq {"after", "before"} /\ Orders # {}
  /\ IdleAnswers \subseteq {"accepted", "rejected"} /\ IdleAnswers # {}
  /\ SinceFilter \in BOOLEAN /\ Dated \subseteq 1..MaxUid /\ Cap \in Nat
  /\ MaxTroubles \in Nat

VARIABLES
  top, untold,          \* server: the highest UID; is an EXISTS due?
  idling, answer,       \* server: in IDLE?  The rest of its answer
  sent, wire,           \* commands and responses under way
  pc, draining,         \* client: control point; the command whose late data it drains
  polling,              \* client: is the connection one of poll_cycle?
  validity, got, todo,  \* client: UIDVALIDITY (0: not told), UIDs received, UIDs to fetch
  noticed,              \* client: saw_update
  state, ingested,      \* the database: checkpoint, messages stored
  limited,              \* history: what the limits of the first sync left out
  cut,                  \* history: something was left unread, and no IDLE has ended since
  passed,               \* history: an EXISTS was read by a command that ignores it
  troubles              \* what the bound has used up

serverVars  == <<top, untold, idling, answer>>
clientVars  == <<pc, draining, polling, validity, got, todo, noticed>>
dbVars      == <<state, ingested, limited>>
historyVars == <<cut, passed>>
vars == <<serverVars, sent, wire, clientVars, dbVars, historyVars, troubles>>

Uids == 1..MaxUid
Command == [name : {"login", "select", "list", "search", "fetch", "idle", "done"},
            from : 0..(MaxUid + 1), to : 0..MaxUid]
Response == [kind : {"tagged", "untagged", "validity", "exists", "uid", "body", "search",
                     "accepted", "rejected"}, uid : 0..MaxUid]

\* No connection; and, after an authentication failure, no watcher that would open one.
Down == {"off", "stopped"}

Trouble == troubles < MaxTroubles /\ troubles' = troubles + 1

Plain(name) == [name |-> name, from |-> 0, to |-> 0]
Note(kind) == [kind |-> kind, uid |-> 0]
Items(kind, from, to) == [i \in 1..(to + 1 - from) |-> [kind |-> kind, uid |-> from - 1 + i]]

-----------------------------------------------------------------------------
(* The server. *)

Deliver ==
  /\ top < MaxUid /\ top' = top + 1 /\ untold' = TRUE
  /\ UNCHANGED <<idling, answer, sent, wire, clientVars, dbVars, historyVars, troubles>>

Sends(r) == wire' = Append(wire, r)
Busy == idling \/ answer # <<>> \/ sent # <<>>

\* An EXISTS, while a command is in progress.
Tell ==
  /\ untold /\ Busy /\ Sends(Note("exists")) /\ untold' = FALSE
  /\ UNCHANGED <<top, idling, answer, sent, clientVars, dbVars, historyVars, troubles>>

\* An untagged OK, at any time.
Keepalive ==
  /\ pc \notin Down /\ Trouble
  /\ Sends(Note("untagged"))
  /\ UNCHANGED <<serverVars, sent, clientVars, dbVars, historyVars>>

\* n:* with n above the highest UID is the same as *:n.
Data(c) ==
  CASE c.name = "list"   -> Items("uid", IF c.from <= top THEN c.from ELSE Max({top, 1}), top)
    [] c.name = "fetch"  -> Items("body", c.from, c.to)
    [] c.name = "search" -> <<Note("search")>>
    [] c.name = "select" -> <<Note("validity")>>
    [] OTHER -> <<>>

Answers(c) ==
  CASE c.name = "idle" -> {<<Note(a)>> : a \in IdleAnswers}
    [] c.name \in {"list", "fetch"} ->
         {IF o = "after" THEN Data(c) \o <<Note("tagged")>> ELSE <<Note("tagged")>> \o Data(c) : o \in Orders}
    [] OTHER -> {Data(c) \o <<Note("tagged")>>}

\* The server takes up the next command, and sends its answer bit by bit.
Accept ==
  /\ answer = <<>> /\ sent # <<>>
  /\ answer' \in Answers(Head(sent))
  /\ idling' = (answer'[1].kind = "accepted")
  /\ sent' = Tail(sent)
  /\ UNCHANGED <<top, untold, wire, clientVars, dbVars, historyVars, troubles>>

Emit ==
  /\ answer # <<>> /\ Sends(Head(answer)) /\ answer' = Tail(answer)
  /\ UNCHANGED <<top, untold, idling, sent, clientVars, dbVars, historyVars, troubles>>

-----------------------------------------------------------------------------
(* The client: what it sends, and what a command returns. *)

LastSeen == IF state.validity = validity THEN state.last ELSE 0

Goto(point) == pc' = point /\ draining' = "none"
Send(c) == sent' = Append(sent, c)

StartList ==
  /\ Goto("list") /\ Send([name |-> "list", from |-> LastSeen + 1, to |-> 0])
  /\ got' = {} /\ todo' = {} /\ noticed' = FALSE /\ passed' = FALSE
  /\ UNCHANGED <<polling, validity, dbVars>>

StartFetch(S) ==
  LET chunk == {u \in S : Cardinality({v \in S : v < u}) < Batch} IN
  /\ Goto("fetch") /\ Send([name |-> "fetch", from |-> Min(chunk), to |-> Max(chunk)])
  /\ got' = {} /\ todo' = S \ chunk

Closed(point) == sent' = <<>> /\ Goto(point) /\ validity' = 0

\* The sync has ended: IDLE, or, when polling, the end of the connection.
EndSync ==
  /\ IF polling THEN Closed("off") ELSE Goto("setup") /\ Send(Plain("idle")) /\ UNCHANGED validity
  /\ polling' = FALSE /\ got' = {} /\ todo' = {} /\ noticed' = FALSE

\* A first sync fetches the most recent Cap of S: the rest of it, and left, are left out.
Recent(S) == {u \in S : Cardinality({v \in S : v > u}) < Cap}

FetchRecent(S, left) ==
  /\ limited' = limited \cup left \cup (S \ Recent(S))
  /\ IF Recent(S) = {} THEN EndSync
     ELSE StartFetch(Recent(S)) /\ UNCHANGED <<polling, validity, noticed>>

\* What uid_fetch_uid_list returned: all of it is fetched, but for the limits that apply as
\* long as no UID is checkpointed.
ListEnds(S) ==
  LET new == {u \in S : u > LastSeen} IN
  /\ UNCHANGED <<ingested, passed>>
  /\ \/ new = {} /\ EndSync /\ state' = [validity |-> validity, last |-> LastSeen]
        /\ UNCHANGED limited
     \/ new # {} /\ LastSeen # 0 /\ StartFetch(new)
        /\ UNCHANGED <<polling, validity, noticed, state, limited>>
     \/ new # {} /\ LastSeen = 0 /\ SinceFilter
        /\ Goto("search") /\ Send(Plain("search")) /\ todo' = new /\ got' = {}
        /\ UNCHANGED <<polling, validity, noticed, state, limited>>
     \/ new # {} /\ LastSeen = 0 /\ ~SinceFilter
        /\ FetchRecent(new, {}) /\ UNCHANGED state

\* What uid_search_since returned, of those listed: without its data, no UID at all.
SearchEnds(found) ==
  /\ FetchRecent(found, todo \cap Dated)
  /\ UNCHANGED <<state, ingested, passed>>

\* The checkpoint after a batch.  Mutant: all that was asked for.
ReachedAll(S) == IF todo = {} THEN top ELSE Min(todo) - 1
Reached(S) == Max(S \cup {LastSeen})

\* What uid_fetch_range returned is stored and checkpointed, then the next batch follows.
FetchEnds(S) ==
  /\ ingested' = ingested \cup S
  /\ state' = [validity |-> validity, last |-> Reached(S)]
  /\ IF todo = {} THEN EndSync ELSE StartFetch(todo) /\ UNCHANGED <<polling, validity, noticed>>
  /\ UNCHANGED <<limited, passed>>

Ends(cmd, S) == IF cmd = "list" THEN ListEnds(S) ELSE FetchEnds(S)

-----------------------------------------------------------------------------
(* The client: what it reads. *)

Status == {"tagged", "untagged", "validity"}
Ignores(r) == passed' = (passed \/ r.kind = "exists")
Stays == UNCHANGED <<pc, draining, polling, validity, got, todo, noticed, sent, dbVars>>

\* Completions that are still to come.
Completions(s) == Cardinality({i \in DOMAIN s : s[i].kind = "tagged"})
Owed == Completions(wire) + Completions(answer) + Cardinality({i \in DOMAIN sent : sent[i].name # "idle"})
DataOwed == \E r \in {wire[i] : i \in DOMAIN wire} \cup {answer[i] : i \in DOMAIN answer} :
               r.kind \in {"uid", "body"}

\* LOGIN ends with the first status, tagged or not.
ReadLogin(r) ==
  /\ pc = "login"
  /\ IF r.kind \in Status
     THEN /\ Goto("select") /\ Send(Plain("select"))
          /\ cut' = (r.kind # "tagged")
          /\ UNCHANGED <<polling, validity, got, todo, noticed, passed, dbVars>>
     ELSE Stays /\ UNCHANGED historyVars

\* Does a status end the command?  Mutant: any does.
CompletesAny(r) == r.kind \in Status
Completes(r) == r.kind = "tagged"

ReadSelect(r) ==
  /\ pc = "select" /\ UNCHANGED cut
  /\ IF Completes(r) THEN StartList
     ELSE /\ validity' = IF r.kind = "validity" THEN 1 ELSE validity
          /\ UNCHANGED <<pc, draining, polling, got, todo, noticed, sent, dbVars, passed>>

\* UIDs come with every FETCH response; a message, only with its body.
Taken(cmd, r) ==
  IF r.kind = "body" \/ (cmd = "list" /\ r.kind = "uid") THEN got \cup {r.uid} ELSE got

\* An empty result: is there data behind the completion?
Drains(S) == S = {}

ReadFetch(r) ==
  /\ pc \in {"list", "fetch"} /\ UNCHANGED cut
  /\ IF ~Completes(r)
     THEN /\ got' = Taken(pc, r) /\ Ignores(r)
          /\ UNCHANGED <<pc, draining, polling, validity, todo, noticed, sent, dbVars>>
     ELSE IF Drains(got)
     THEN /\ pc' = "late" /\ draining' = pc
          /\ UNCHANGED <<polling, validity, got, todo, noticed, sent, dbVars, passed>>
     ELSE Ends(pc, got)

\* The drain goes on as long as FETCH responses follow each other.
ReadLate(r) ==
  /\ pc = "late"
  /\ IF r.kind \in {"uid", "body"}
     THEN /\ got' = Taken(draining, r)
          /\ UNCHANGED <<pc, draining, polling, validity, todo, noticed, sent, dbVars, historyVars>>
     ELSE /\ Ends(draining, got)
          /\ cut' = (cut \/ Owed > 0 \/ DataOwed \/ r.kind = "exists")

ReadSearch(r) ==
  /\ pc = "search" /\ UNCHANGED cut
  /\ CASE r.kind = "search" ->
            /\ got' = todo \ Dated
            /\ UNCHANGED <<pc, draining, polling, validity, todo, noticed, sent, dbVars, passed>>
       [] Completes(r) -> SearchEnds(got)
       [] OTHER -> Stays /\ Ignores(r)

\* IDLE is done: the client goes on reading, until its completion or only for a while.
SendDone == Send(Plain("done"))

\* Does an update that comes before IDLE is accepted count?  Mutant: it does not.
SetupUpdateDropped(r) == noticed
SetupUpdate(r) == noticed \/ r.kind = "exists"

ReadSetup(r) ==
  /\ pc = "setup" /\ UNCHANGED <<todo, got, dbVars, historyVars>>
  /\ CASE r.kind = "accepted" ->
            /\ IF noticed THEN Goto("drain") /\ SendDone ELSE Goto("idle") /\ UNCHANGED sent
            /\ UNCHANGED <<polling, validity, noticed>>
       [] r.kind = "rejected" -> Closed("off") /\ polling' = TRUE /\ UNCHANGED noticed
       [] OTHER -> /\ noticed' = SetupUpdate(r)
                   /\ UNCHANGED <<pc, draining, polling, validity, sent>>

ReadIdle(r) ==
  /\ pc = "idle"
  /\ cut' = (cut /\ ~Completes(r))
  /\ CASE Completes(r) -> StartList
       [] r.kind = "exists" ->
            /\ IF noticed THEN UNCHANGED sent ELSE SendDone
            /\ noticed' = TRUE
            /\ UNCHANGED <<pc, draining, polling, validity, got, todo, dbVars, passed>>
       [] OTHER -> Stays /\ UNCHANGED passed

\* The heartbeat, or the inactivity timeout.  Mutant: there is none.
HeartbeatNever == FALSE
HeartbeatDue == pc = "idle"

Heartbeat ==
  /\ HeartbeatDue
  /\ Goto("drain") /\ IF noticed THEN UNCHANGED sent ELSE SendDone
  /\ UNCHANGED <<serverVars, wire, polling, validity, got, todo, noticed, dbVars, historyVars, troubles>>

\* This drain ends with any status.
ReadDrain(r) ==
  /\ pc = "drain"
  /\ IF r.kind \in Status
     THEN StartList /\ cut' = (r.kind # "tagged")
     ELSE Stays /\ UNCHANGED historyVars

Read ==
  /\ wire # <<>> /\ wire' = Tail(wire)
  /\ LET r == Head(wire) IN
     \/ ReadLogin(r) \/ ReadSelect(r) \/ ReadFetch(r) \/ ReadLate(r) \/ ReadSearch(r)
     \/ ReadSetup(r) \/ ReadIdle(r) \/ ReadDrain(r)
  /\ UNCHANGED <<serverVars, troubles>>

\* The drain after an empty FETCH times out; data may still be coming.
LateTimeout ==
  LET early == Owed > 0 \/ DataOwed IN
  /\ pc = "late"
  /\ IF early THEN Trouble ELSE UNCHANGED troubles
  /\ Ends(draining, got)
  /\ cut' = (cut \/ early)
  /\ UNCHANGED <<serverVars, wire>>

\* The drain after DONE times out before the completion.
DrainTimeout ==
  /\ pc = "drain" /\ Trouble
  /\ StartList /\ cut' = TRUE
  /\ UNCHANGED <<serverVars, wire>>

\* Connect, also after a poll or a failure, and log in.
Connect ==
  /\ pc = "off"
  /\ Goto("login") /\ sent' = <<Plain("login")>> /\ wire' = <<>> /\ answer' = <<>>
  /\ idling' = FALSE /\ validity' = 0 /\ got' = {} /\ todo' = {} /\ noticed' = FALSE
  /\ cut' = FALSE /\ passed' = FALSE
  /\ UNCHANGED <<top, untold, polling, dbVars, troubles>>

\* A command fails or times out, or the daemon stops: the cycle ends.  An error of IDLE that
\* is not its timeout leads to polling.
Break ==
  /\ pc \notin Down /\ Trouble
  /\ Closed("off")
  /\ polling' \in IF pc \in {"setup", "idle"} THEN BOOLEAN ELSE {FALSE}
  /\ UNCHANGED <<serverVars, wire, got, todo, noticed, dbVars, historyVars>>

\* "LOGIN rejected", or an error of a command that speaks of authentication: the watcher
\* returns, to be started again with the others of the account, or with the daemon.
AuthFails ==
  /\ pc \in {"login", "select", "list", "search", "fetch"} /\ Trouble
  /\ Closed("stopped") /\ polling' = FALSE
  /\ UNCHANGED <<serverVars, wire, got, todo, noticed, dbVars, historyVars>>

Respawn ==
  /\ pc = "stopped" /\ pc' = "off"
  /\ UNCHANGED <<serverVars, sent, wire, draining, polling, validity, got, todo, noticed,
                 dbVars, historyVars, troubles>>

-----------------------------------------------------------------------------
Init ==
  /\ top = 0 /\ untold = FALSE /\ idling = FALSE /\ answer = <<>>
  /\ sent = <<>> /\ wire = <<>>
  /\ pc = "off" /\ draining = "none" /\ polling = FALSE
  /\ validity = 0 /\ got = {} /\ todo = {} /\ noticed = FALSE
  /\ state = [validity |-> 0, last |-> 0] /\ ingested = {} /\ limited = {}
  /\ cut = FALSE /\ passed = FALSE
  /\ troubles = 0

Server == Accept \/ Emit
Timers == Heartbeat \/ LateTimeout \/ DrainTimeout
Next == \/ Deliver \/ Tell \/ Keepalive \/ Server \/ Read \/ Timers
        \/ Connect \/ Break \/ AuthFails \/ Respawn

Spec == Init /\ [][Next]_vars

\* The server answers, the client reads, the timers fire, and the watcher reconnects.  One
\* that has stopped need not start again.
FairSpec == /\ Spec /\ WF_vars(Server) /\ WF_vars(Read) /\ WF_vars(Connect)
            /\ WF_vars(Heartbeat) /\ WF_vars(LateTimeout)

-----------------------------------------------------------------------------
(* Properties. *)

TypeOK ==
  /\ top \in 0..MaxUid /\ untold \in BOOLEAN /\ idling \in BOOLEAN
  /\ answer \in Seq(Response) /\ wire \in Seq(Response) /\ sent \in Seq(Command)
  /\ pc \in {"off", "stopped", "login", "select", "list", "search", "fetch", "late", "setup", "idle", "drain"}
  /\ draining \in {"none", "list", "fetch"} /\ polling \in BOOLEAN
  /\ validity \in {0, 1} /\ got \subseteq Uids /\ todo \subseteq Uids /\ noticed \in BOOLEAN
  /\ state \in [validity : {0, 1}, last : 0..MaxUid] /\ ingested \subseteq Uids /\ limited \subseteq Uids
  /\ cut \in BOOLEAN /\ passed \in BOOLEAN
  /\ troubles \in 0..MaxTroubles

\* Commands and completions stay in step: the client waits for exactly one completion in
\* a command, and for none in IDLE before DONE.  LOGIN or a drain that ends with an
\* untagged status or times out breaks the step, until the next IDLE is accepted.
InStep ==
  (pc \notin Down /\ ~cut) \/ pc = "idle" =>
    Owed = IF pc \in {"late", "setup"} \/ (pc = "idle" /\ ~noticed) THEN 0 ELSE 1

\* Even out of step, with data read under another command or never, the checkpoint does
\* not pass a message that was neither stored nor left out by the limits.
NoneSkipped == 1..state.last \subseteq ingested \cup limited

\* When the client idles, with no EXISTS on its way, it has stored everything but what the
\* limits left out, unless the EXISTS was read by another command or something was left
\* unread.
IdleNotices ==
  pc = "idle" /\ ~noticed /\ ~untold /\ ~cut /\ ~passed
  /\ (\A i \in DOMAIN wire : wire[i].kind # "exists")
    => 1..top \subseteq ingested \cup limited

\* The session catches up again and again: all mail is stored or left out by the limits,
\* whatever was missed, cut short or out of step; unless an authentication failure has
\* stopped the watcher for good.
MailStored ==
  []<>(\A u \in 1..top : u \in ingested \cup limited) \/ <>[](pc = "stopped")

=============================================================================
