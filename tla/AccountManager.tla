--------------------------- MODULE AccountManager ---------------------------
(***************************************************************************)
(* Supervision of one account: the manager (AccountManager.run) with its   *)
(* JoinSet of watcher tasks, the watchers' run loop, and the shutdown      *)
(* token that both see.                                                    *)
(*                                                                         *)
(* Time is abstract: a delay is over when its action is taken, and panics  *)
(* leave the circuit breaker's window at any time after they are counted.  *)
(* The mailboxes of an account have distinct names: the configuration is   *)
(* not checked for it, and a name listed twice has two watchers.           *)
(***************************************************************************)
EXTENDS Naturals, FiniteSets

CONSTANTS Mailboxes,    \* the account's mailboxes
          Failures      \* CIRCUIT_BREAKER_FAILURES

ASSUME SupervisionAssumption ==
  IsFiniteSet(Mailboxes) /\ Mailboxes # {} /\ Failures \in Nat \ {0}

VARIABLES
  working, delayed,     \* watcher tasks of each mailbox: in a cycle, in a retry delay
  returned, panicked,   \* tasks of each mailbox that have ended, and not been joined
  manager,              \* the manager's control point
  recent,               \* failure_times: panics joined, still within the window
  token,                \* has shutdown been requested?
  rounds,               \* history: restarts after a panic, since the last cooldown or
                        \* since a panic last left the window
  crashed,              \* history: has a panic been joined since the last restart?
  refused               \* history: mailboxes whose watcher an authentication failure has stopped
                        \* since the last restart

taskVars == <<working, delayed, returned, panicked>>
loopVars == <<rounds, crashed>>
historyVars == <<loopVars, refused>>
vars == <<taskVars, manager, recent, token, historyVars>>

Live(m) == working[m] + delayed[m]
Tasks(m) == Live(m) + returned[m] + panicked[m]
Nowhere == [m \in Mailboxes |-> 0]
Plus(f, m) == [f EXCEPT ![m] = @ + 1]
Minus(f, m) == [f EXCEPT ![m] = @ - 1]

-----------------------------------------------------------------------------
(* A watcher: MailboxWatcher.run. *)

\* A cycle fails: back off.
CycleFails(m) ==
  /\ working[m] > 0
  /\ working' = Minus(working, m) /\ delayed' = Plus(delayed, m)
  /\ UNCHANGED <<returned, panicked, manager, recent, token, historyVars>>

\* The next cycle, or, when shutdown is requested during the delay, the end.
DelayEnds(m) ==
  /\ delayed[m] > 0 /\ delayed' = Minus(delayed, m)
  /\ \/ working' = Plus(working, m) /\ UNCHANGED returned
     \/ token /\ returned' = Plus(returned, m) /\ UNCHANGED working
  /\ UNCHANGED <<panicked, manager, recent, token, historyVars>>

\* The watcher sees the shutdown between two cycles.
Returns(m) ==
  /\ token /\ working[m] > 0
  /\ working' = Minus(working, m) /\ returned' = Plus(returned, m)
  /\ UNCHANGED <<delayed, panicked, manager, recent, token, historyVars>>

\* A cycle ends with a rejected LOGIN or another authentication failure: no retry.
AuthFails(m) ==
  /\ working[m] > 0
  /\ working' = Minus(working, m) /\ returned' = Plus(returned, m)
  /\ refused' = refused \cup {m}
  /\ UNCHANGED <<delayed, panicked, manager, recent, token, loopVars>>

Panics(m) ==
  /\ working[m] > 0
  /\ working' = Minus(working, m) /\ panicked' = Plus(panicked, m)
  /\ UNCHANGED <<delayed, returned, manager, recent, token, historyVars>>

-----------------------------------------------------------------------------
(* The manager. *)

\* join_next gives a task that returned.
JoinReturned(m) ==
  /\ manager = "watch" /\ returned[m] > 0
  /\ returned' = Minus(returned, m)
  /\ UNCHANGED <<working, delayed, panicked, manager, recent, token, historyVars>>

\* Does the n-th panic trip the breaker?  Mutant: only the one after it.
TripsLate(n) == n > Failures
Trips(n) == n >= Failures

\* Where a breaker that trips leads.  Mutant: on to the next task, without the cooldown.
AfterTripWatch == "watch"
AfterTrip == "cooldown"

\* join_next gives a task that panicked: it is counted, and may start a cooldown.
JoinPanicked(m) ==
  /\ manager = "watch" /\ panicked[m] > 0
  /\ panicked' = Minus(panicked, m)
  /\ IF Trips(recent + 1) THEN recent' = 0 /\ manager' = AfterTrip
     ELSE recent' = recent + 1 /\ UNCHANGED manager
  /\ crashed' = TRUE
  /\ UNCHANGED <<working, delayed, returned, token, rounds, refused>>

\* Panics leave the window.
WindowMoves ==
  /\ recent > 0 /\ recent' \in 0..(recent - 1)
  /\ rounds' = 0 /\ crashed' = FALSE
  /\ UNCHANGED <<taskVars, manager, token, refused>>

CooldownEnds ==
  /\ manager = "cooldown" /\ manager' = "watch"
  /\ rounds' = 0 /\ crashed' = FALSE
  /\ UNCHANGED <<taskVars, recent, token, refused>>

\* join_next gives None.  Mutant: some mailbox has no task.
AllEndedAny == \E m \in Mailboxes : Tasks(m) = 0
AllEnded == \A m \in Mailboxes : Tasks(m) = 0

\* Where that leads.  Mutant: the manager ends.
AfterAllEndedStop == "ended"
AfterAllEnded == IF token THEN "ended" ELSE "restart"

SeeAllEnded ==
  /\ manager = "watch" /\ AllEnded
  /\ manager' = AfterAllEnded
  /\ UNCHANGED <<taskVars, recent, token, historyVars>>

SpawnAll == [m \in Mailboxes |-> working[m] + 1]

Restart ==
  /\ manager = "restart" /\ manager' = "watch"
  /\ working' = SpawnAll
  /\ rounds' = IF crashed THEN rounds + 1 ELSE rounds
  /\ crashed' = FALSE /\ refused' = {}
  /\ UNCHANGED <<delayed, returned, panicked, recent, token>>

\* What abort_all, or the drop of the JoinSet, leaves of the tasks.  Mutant: they go on.
AbortedNot(tasks) == tasks
Aborted(tasks) == Nowhere

\* Shutdown is seen, at the loop's select or in a delay.
Shutdown ==
  /\ token /\ manager \in {"watch", "cooldown", "restart"}
  /\ manager' = "ended"
  /\ working' = Aborted(working) /\ delayed' = Aborted(delayed)
  /\ returned' = Aborted(returned) /\ panicked' = Aborted(panicked)
  /\ UNCHANGED <<recent, token, historyVars>>

\* SIGINT or SIGTERM.
Cancel == ~token /\ token' = TRUE /\ UNCHANGED <<taskVars, manager, recent, historyVars>>

-----------------------------------------------------------------------------
Init ==
  /\ working = [m \in Mailboxes |-> 1]
  /\ delayed = Nowhere /\ returned = Nowhere /\ panicked = Nowhere
  /\ manager = "watch" /\ recent = 0 /\ token = FALSE
  /\ rounds = 0 /\ crashed = FALSE /\ refused = {}

Watcher(m) == CycleFails(m) \/ DelayEnds(m) \/ Returns(m) \/ AuthFails(m) \/ Panics(m)
Join == \E m \in Mailboxes : JoinReturned(m) \/ JoinPanicked(m)
Manager == Join \/ SeeAllEnded \/ Restart \/ CooldownEnds \/ Shutdown
Next == Manager \/ WindowMoves \/ Cancel \/ \E m \in Mailboxes : Watcher(m)

Spec == Init /\ [][Next]_vars

\* The manager is polled when a task ends, a delay is over or the token is cancelled; it
\* may take any of these that are ready.
FairSpec == Spec /\ WF_vars(Manager) /\ WF_vars(Shutdown)

-----------------------------------------------------------------------------
(* Properties. *)

Points == {"watch", "cooldown", "restart", "ended"}

TypeOK ==
  /\ {working, delayed, returned, panicked} \subseteq [Mailboxes -> Nat]
  /\ manager \in Points /\ recent \in 0..(Failures - 1) /\ token \in BOOLEAN
  /\ rounds \in Nat /\ crashed \in BOOLEAN /\ refused \subseteq Mailboxes

\* A mailbox has one watcher at most, through panics, cooldowns and restarts: MailboxSync
\* relies on it.  While a watcher's end has not been joined there is no new one.
OneWatcher == \A m \in Mailboxes : Tasks(m) <= 1

\* A crash loop is throttled: as long as no panic leaves the window, the account is started
\* again after a panic at most Failures - 1 times before the manager sleeps out a cooldown.
CrashLoopThrottled == rounds <= Failures - 1

\* A watcher that panicked is not given up: once all watchers of the account are down it is
\* started again, until shutdown, through breaker and cooldown.  (One that authentication
\* has stopped is started with it; the documents say that this takes a restart.)
AllDownRestarted ==
  \A m \in Mailboxes :
    (\A n \in Mailboxes : Live(n) = 0) /\ m \notin refused ~> token \/ Live(m) = 1

\* Shutdown ends the manager and every task, from a cooldown or a restart delay, too.
ShutdownEnds == token ~> manager = "ended" /\ \A m \in Mailboxes : Tasks(m) = 0

=============================================================================
