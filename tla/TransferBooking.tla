-------------------------- MODULE TransferBooking --------------------------
(***************************************************************************)
(* mailtx: each invocation reads one email, books its transaction in       *)
(* Firefly, or joins two legs into one transfer.  Legs that wait for their *)
(* counterpart are rows of the state database (PendingStore); every run    *)
(* first flushes those that waited too long.                               *)
(*                                                                         *)
(* A process is named after its email, whose external id is the same in    *)
(* every run.  One action is one HTTP request or one statement; a request  *)
(* that was sent is handled before a later run's lookup.  All legs are of  *)
(* one rule and one amount: others never meet.                             *)
(*                                                                         *)
(* The module is a component: who starts a process (Begin), takes its exit *)
(* status (End) or kills it (Kill) is modelled by the module that uses it. *)
(***************************************************************************)
EXTENDS Naturals, FiniteSets

CONSTANTS Emails,       \* emails, and the processes that read them
          Readings,     \* what extraction may make of each email
          MaxFaults,    \* bound on failing requests and statements
          MaxKills,     \* bound on processes killed
          NoRow         \* no pending leg

Legs == {"withdrawal", "deposit"}
Row == [id : Nat, ext : Emails, leg : Legs, old : BOOLEAN]

\* What the constants are (assumed by the module that uses the component).
BookingConstants ==
  /\ Readings \in [Emails -> SUBSET (Legs \cup {"none", "regular"})]
  /\ MaxFaults \in Nat /\ MaxKills \in Nat
  /\ NoRow \notin Row

VARIABLES
  rows, serial,       \* pending_transfers; the last id given (AUTOINCREMENT)
  booked,             \* Firefly: transactions that bear each external id
  counted,            \* Firefly: transactions that each email's money is part of
  pc,                 \* process: control point
  list,               \* process: expired legs still to flush
  reading,            \* process: what was extracted
  held,               \* process: the counterpart found
  starts,             \* history: runs started for each email
  owed,               \* history: emails with a transaction, reported as processed
  torn,               \* history: legs left pending after their transfer was posted
  dropped,            \* history: legs deleted for a transfer that was not posted
  overlap,            \* history: emails two processes were booking at once
  faults, kills       \* what the bounds have used up

storeVars   == <<rows, serial>>
ledgerVars  == <<booked, counted>>
processVars == <<pc, list, reading, held>>
historyVars == <<starts, owed, torn, dropped, overlap>>
boundVars   == <<faults, kills>>
vars == <<storeVars, ledgerVars, processVars, historyVars, boundVars>>

\* A request or statement succeeds, fails, or takes effect without its answer arriving.
Outcome == {"ok", "lost", "unacked"}
Call(o) == /\ o \in Outcome
           /\ IF o = "ok" THEN faults' = faults ELSE faults < MaxFaults /\ faults' = faults + 1
           /\ UNCHANGED kills
Applied(o) == o # "lost"

\* ORDER BY inserted_at: ids are given in the order of insertion.
Oldest(S) == CHOOSE r \in S : \A s \in S : r.id <= s.id

Without(id) == {r \in rows : r.id # id}
IsPending(x) == \E r \in rows : r.ext = x
Held(row) == \E y \in Emails : held[y] # NoRow /\ held[y].id = row.id
Has(row) == \E r \in rows : r.id = row.id

\* While draining, the process posts for the oldest expired leg, afterwards for its email.
Draining(x) == list[x] # {}
Ext(x) == IF Draining(x) THEN Oldest(list[x]).ext ELSE x
Joined(x) == IF ~Draining(x) /\ held[x] # NoRow THEN {held[x].ext} ELSE {}
Money(x) == {Ext(x)} \cup Joined(x)

Goto(x, point) == pc' = [pc EXCEPT ![x] = point]

\* The next expired leg, or on to the email.
NextLeg(x) ==
  LET rest == list[x] \ {Oldest(list[x])} IN
  /\ list' = [list EXCEPT ![x] = rest]
  /\ Goto(x, IF rest = {} THEN "extract" ELSE "lookup")

\* The run of x ends here: a leg whose transfer is posted may still be pending.
Torn(x) == IF held[x] # NoRow /\ counted[held[x].ext] > 0 /\ Has(held[x])
           THEN torn \cup {held[x].ext} ELSE torn

Fails(x) == Goto(x, "failed") /\ torn' = Torn(x) /\ UNCHANGED <<list, owed>>

Succeeds(x) ==
  /\ Goto(x, "succeeded")
  /\ owed' = IF reading'[x] = "none" THEN owed ELSE owed \cup {x}
  /\ UNCHANGED <<list, torn>>

-----------------------------------------------------------------------------
(* A run of mailtx. *)

Expired == {r \in rows : r.old}

\* drain_expired lists the legs older than the match window.
Begin(x) ==
  /\ pc[x] = "off"
  /\ list' = [list EXCEPT ![x] = Expired]
  /\ Goto(x, IF Expired = {} THEN "extract" ELSE "lookup")
  /\ starts' = [starts EXCEPT ![x] = @ + 1]
  /\ overlap' = overlap \cup {r.ext : r \in {s \in Expired : Held(s)}}
  /\ UNCHANGED <<storeVars, ledgerVars, reading, held, owed, torn, dropped, boundVars>>

\* find_match.  Mutant: legs past the window match too.
MatchesOld(r, leg) == r.leg # leg
Matches(r, leg) == r.leg # leg /\ ~r.old

\* What the answer may be when it holds a transaction, with an amount and a direction, and
\* which of these a transfer rule takes for one of its legs.
Transactions(x) == Readings[x] \ {"none"}
RuleLegs(x) == Transactions(x) \cap Legs

\* The email is read, the model asked, the account resolved: the answer is taken to be
\* nothing, a leg of the rule, or a regular transaction (TransferDetection shows how).
Understands(x, what) ==
  /\ pc[x] = "extract" /\ what \in Readings[x]
  /\ reading' = [reading EXCEPT ![x] = what]
  /\ UNCHANGED <<storeVars, ledgerVars, list, torn, starts, dropped, boundVars>>

\* Any of it fails, or find_match does.
ExtractFails(x) ==
  /\ pc[x] = "extract" /\ Call("lost") /\ Fails(x)
  /\ UNCHANGED <<storeVars, ledgerVars, reading, held, starts, dropped, overlap>>

\* No transaction, or a sender that is not on the list.
Skip(x) == Understands(x, "none") /\ Succeeds(x) /\ UNCHANGED <<held, overlap>>

TakeRegular(x) ==
  \E what \in Transactions(x) \ RuleLegs(x) :
    Understands(x, what) /\ Goto(x, "lookup") /\ UNCHANGED <<held, owed, overlap>>

\* find_match: the oldest counterpart within the window, if there is one.
TakeLeg(x, leg) ==
  LET found == {r \in rows : Matches(r, leg)} IN
  /\ leg \in RuleLegs(x) /\ Understands(x, leg) /\ UNCHANGED owed
  /\ IF found = {} THEN Goto(x, "insert") /\ UNCHANGED <<held, overlap>>
     ELSE /\ Goto(x, "lookup") /\ held' = [held EXCEPT ![x] = Oldest(found)]
          /\ overlap' = IF Held(Oldest(found)) THEN overlap \cup {Oldest(found).ext} ELSE overlap

\* Does Firefly know the external id?  Mutant: nobody asks.
KnownNever(x) == FALSE
Known(x) == booked[Ext(x)] > 0

\* A transaction that exists, or was posted: the pending leg it settles is to be deleted.
Settled(x) == IF Draining(x) \/ held[x] # NoRow
              THEN Goto(x, "delete") /\ UNCHANGED <<list, owed, torn>>
              ELSE Succeeds(x)

\* While draining an error is logged and the leg stays; otherwise the run fails.
PostFails(x) == IF Draining(x) THEN NextLeg(x) /\ UNCHANGED <<owed, torn>> ELSE Fails(x)

\* transaction_exists.
Lookup(x, o) ==
  /\ pc[x] = "lookup" /\ o \in {"ok", "lost"} /\ Call(o)
  /\ overlap' = IF \E y \in Emails \ {x} : pc[y] = "post" /\ Ext(y) = Ext(x)
                THEN overlap \cup {Ext(x)} ELSE overlap
  /\ UNCHANGED reading
  /\ CASE o = "lost" -> PostFails(x)
       [] o = "ok" /\ Known(x) -> Settled(x)
       [] OTHER -> Goto(x, "post") /\ UNCHANGED <<list, owed, torn>>
  /\ UNCHANGED <<storeVars, ledgerVars, held, starts, dropped>>

\* The transaction itself: an unmatched leg, a transfer, or a regular one.
Post(x, o) ==
  /\ pc[x] = "post" /\ Call(o)
  /\ IF Applied(o)
     THEN /\ booked' = [booked EXCEPT ![Ext(x)] = @ + 1]
          /\ counted' = [y \in Emails |-> IF y \in Money(x) THEN counted[y] + 1 ELSE counted[y]]
     ELSE UNCHANGED ledgerVars
  /\ UNCHANGED reading
  /\ IF o = "ok" THEN Settled(x)
     ELSE IF Draining(x) THEN NextLeg(x) /\ UNCHANGED <<owed, torn>>
     ELSE /\ Goto(x, "failed") /\ UNCHANGED <<list, owed>>
          /\ torn' = IF Applied(o) THEN torn \cup Joined(x) ELSE torn
  /\ UNCHANGED <<storeVars, held, starts, dropped, overlap>>

\* The flushed leg, or the counterpart of the transfer, is removed; an error ends the run.
\* The transfer may not be there: its lookup found the email's id on another transaction.
Delete(x, o) ==
  LET row == IF Draining(x) THEN Oldest(list[x]) ELSE held[x] IN
  /\ pc[x] = "delete" /\ Call(o)
  /\ rows' = IF Applied(o) THEN Without(row.id) ELSE rows
  /\ dropped' = IF Applied(o) /\ Has(row) /\ counted[row.ext] = 0
                THEN dropped \cup {row.ext} ELSE dropped
  /\ UNCHANGED reading
  /\ IF o # "ok"
     THEN /\ Goto(x, "failed") /\ UNCHANGED <<list, owed>>
          /\ torn' = IF o = "lost" THEN Torn(x) ELSE torn
     ELSE IF Draining(x) THEN NextLeg(x) /\ UNCHANGED <<owed, torn>> ELSE Succeeds(x)
  /\ UNCHANGED <<serial, ledgerVars, held, starts, overlap>>

\* Is the leg stored already?  Mutant: it counts as stored when any leg is pending.
StoredAny(x) == rows # {}
Stored(x) == IsPending(x)

\* The first leg waits: INSERT OR IGNORE by its external id.
Insert(x, o) ==
  LET row == [id |-> serial + 1, ext |-> x, leg |-> reading[x], old |-> FALSE] IN
  /\ pc[x] = "insert" /\ Call(o)
  /\ IF Applied(o) /\ ~Stored(x)
     THEN rows' = rows \cup {row} /\ serial' = serial + 1
     ELSE UNCHANGED storeVars
  /\ UNCHANGED reading
  /\ IF o = "ok" THEN Succeeds(x) ELSE Fails(x)
  /\ UNCHANGED <<ledgerVars, held, starts, dropped, overlap>>

Step(x) ==
  \/ ExtractFails(x) \/ Skip(x) \/ TakeRegular(x) \/ \E leg \in Legs : TakeLeg(x, leg)
  \/ \E o \in Outcome : Lookup(x, o) \/ Post(x, o) \/ Delete(x, o) \/ Insert(x, o)

Clear(x) ==
  /\ Goto(x, "off") /\ list' = [list EXCEPT ![x] = {}]
  /\ reading' = [reading EXCEPT ![x] = "none"] /\ held' = [held EXCEPT ![x] = NoRow]

\* The process exits, with success or not.
End(x, ok) ==
  /\ pc[x] = IF ok THEN "succeeded" ELSE "failed"
  /\ Clear(x)
  /\ UNCHANGED <<storeVars, ledgerVars, historyVars, boundVars>>

\* It is killed, at any point: mailmux's timeout, or a crash.
Kill(x) ==
  /\ pc[x] \notin {"off", "succeeded", "failed"}
  /\ kills < MaxKills /\ kills' = kills + 1
  /\ Clear(x) /\ torn' = Torn(x)
  /\ UNCHANGED <<storeVars, ledgerVars, starts, owed, dropped, overlap, faults>>

\* The oldest leg within the window is past it.
Expire(row) ==
  /\ row \in rows /\ ~row.old /\ \A r \in rows : r.id < row.id => r.old
  /\ rows' = (rows \ {row}) \cup {[row EXCEPT !.old = TRUE]}
  /\ UNCHANGED <<serial, ledgerVars, processVars, historyVars, boundVars>>

Init ==
  /\ rows = {} /\ serial = 0
  /\ booked = [x \in Emails |-> 0] /\ counted = [x \in Emails |-> 0]
  /\ pc = [x \in Emails |-> "off"] /\ list = [x \in Emails |-> {}]
  /\ reading = [x \in Emails |-> "none"] /\ held = [x \in Emails |-> NoRow]
  /\ starts = [x \in Emails |-> 0]
  /\ owed = {} /\ torn = {} /\ dropped = {} /\ overlap = {}
  /\ faults = 0 /\ kills = 0

-----------------------------------------------------------------------------
(* Properties. *)

TypeOK ==
  /\ rows \subseteq Row
  /\ serial \in Nat /\ booked \in [Emails -> Nat] /\ counted \in [Emails -> Nat]
  /\ pc \in [Emails -> {"off", "extract", "lookup", "post", "delete", "insert",
                        "succeeded", "failed"}]
  /\ list \in [Emails -> SUBSET Row]
  /\ reading \in [Emails -> Legs \cup {"none", "regular"}]
  /\ held \in [Emails -> Row \cup {NoRow}]
  /\ starts \in [Emails -> Nat] /\ owed \cup torn \cup dropped \cup overlap \subseteq Emails
  /\ faults \in 0..MaxFaults /\ kills \in 0..MaxKills

\* No external id is booked twice, whatever fails or is repeated, unless two processes
\* look it up before either has posted.
BookedOnce == \A x \in Emails \ overlap : booked[x] <= 1

\* No money is booked both as a leg and in a transfer, or in two transfers: for an email
\* that was read once, unless a run ended between posting its transfer and deleting the
\* leg, or two processes had it in hand at once.
CountedOnce ==
  \A x \in Emails \ (overlap \cup torn) : starts[x] <= 1 => counted[x] <= 1

\* What mailtx reported as processed is in Firefly or waits as a pending leg, unless the
\* leg was deleted for a transfer that its lookup took for posted.
NothingLost == \A x \in owed \ dropped : counted[x] > 0 \/ IsPending(x)

\* The same without the exception: "nothing is silently lost".
NothingDropped == \A x \in owed : counted[x] > 0 \/ IsPending(x)

=============================================================================
