------------------------ MODULE AccountManagerProofs ------------------------
(***************************************************************************)
(* Theorems about AccountManager, for any set of mailboxes and any         *)
(* threshold of the circuit breaker.                                       *)
(***************************************************************************)
EXTENDS AccountManager, TLAPS

\* The types, with the counters of tasks as functions.
LEMMA TypeFacts ==
  ASSUME TypeOK
  PROVE  /\ working \in [Mailboxes -> Nat] /\ delayed \in [Mailboxes -> Nat]
         /\ returned \in [Mailboxes -> Nat] /\ panicked \in [Mailboxes -> Nat]
         /\ manager \in Points /\ recent \in 0..(Failures - 1) /\ token \in BOOLEAN
         /\ rounds \in Nat /\ crashed \in BOOLEAN /\ refused \subseteq Mailboxes
  BY DEF TypeOK

\* A task that leaves a counter leaves a natural number.
LEMMA OneLess ==
  ASSUME NEW f \in [Mailboxes -> Nat], NEW m \in Mailboxes, f[m] > 0
  PROVE  Minus(f, m) \in [Mailboxes -> Nat]
  BY DEF Minus

LEMMA OneMore ==
  ASSUME NEW f \in [Mailboxes -> Nat], NEW m \in Mailboxes
  PROVE  Plus(f, m) \in [Mailboxes -> Nat]
  BY DEF Plus

-----------------------------------------------------------------------------
(* The inductive invariant: while the manager waits to restart the account no task is *)
(* left, so the watchers it then starts are the only ones; and each restart after a   *)
(* panic, or one still owed to it, is paid for by a panic counted in the window.      *)

Owed == IF crashed THEN 1 ELSE 0

Paid ==
  /\ CrashLoopThrottled
  /\ manager \in {"watch", "restart"} => rounds + Owed <= recent

SupervisionInv ==
  /\ TypeOK
  /\ OneWatcher
  /\ manager = "restart" => AllEnded
  /\ Paid

THEOREM InitInv == Init => SupervisionInv
<1> SUFFICES ASSUME Init PROVE SupervisionInv
  OBVIOUS
<1>1. /\ working \in [Mailboxes -> Nat] /\ delayed \in [Mailboxes -> Nat]
      /\ returned \in [Mailboxes -> Nat] /\ panicked \in [Mailboxes -> Nat]
  BY DEF Init, Nowhere
<1>2. TypeOK
  <2>1. /\ manager \in Points /\ recent = 0 /\ token \in BOOLEAN
        /\ rounds \in Nat /\ crashed \in BOOLEAN /\ refused \subseteq Mailboxes
    BY DEF Init, Points
  <2>2. 0 \in 0..(Failures - 1)
    BY SupervisionAssumption
  <2> QED
    BY <1>1, <2>1, <2>2 DEF TypeOK
<1>3. OneWatcher
  BY DEF Init, Nowhere, OneWatcher, Tasks, Live
<1>4. Paid
  BY SupervisionAssumption DEF Init, Paid, Owed, CrashLoopThrottled
<1> QED
  BY <1>2, <1>3, <1>4 DEF Init, SupervisionInv

\* A step of a watcher moves its one task to another counter.
LEMMA WatcherKeepsInv ==
  ASSUME SupervisionInv, NEW m \in Mailboxes, Watcher(m)
  PROVE  SupervisionInv'
<1> USE TypeFacts DEF SupervisionInv
<1>1. /\ UNCHANGED <<manager, recent, rounds, crashed>> /\ token' = token
      /\ refused' \subseteq Mailboxes
      /\ working' \in [Mailboxes -> Nat] /\ delayed' \in [Mailboxes -> Nat]
      /\ returned' \in [Mailboxes -> Nat] /\ panicked' \in [Mailboxes -> Nat]
  BY OneLess, OneMore
     DEF Watcher, CycleFails, DelayEnds, Returns, AuthFails, Panics, loopVars, historyVars
<1>2. TypeOK'
  BY <1>1 DEF TypeOK
<1>3. \A n \in Mailboxes : Tasks(n)' = Tasks(n)
  BY <1>1 DEF Watcher, CycleFails, DelayEnds, Returns, AuthFails, Panics, Plus, Minus, Tasks, Live
<1>4. OneWatcher' /\ (AllEnded => AllEnded')
  BY <1>3 DEF OneWatcher, AllEnded
<1>5. Paid'
  BY <1>1 DEF Paid, Owed, CrashLoopThrottled
<1> QED
  BY <1>1, <1>2, <1>4, <1>5

\* A step of the manager joins tasks, ends them all, or starts them when none is left.
LEMMA ManagerKeepsInv ==
  ASSUME SupervisionInv, Manager
  PROVE  SupervisionInv'
<1> USE TypeFacts DEF SupervisionInv
<1>1. ASSUME NEW m \in Mailboxes, JoinReturned(m) \/ JoinPanicked(m)
      PROVE  SupervisionInv'
  <2>1. /\ working' = working /\ delayed' = delayed /\ token' = token
        /\ returned' \in [Mailboxes -> Nat] /\ panicked' \in [Mailboxes -> Nat]
        /\ manager' \in {"watch", "cooldown"}
        /\ rounds' = rounds /\ crashed' \in BOOLEAN /\ refused' = refused
    BY <1>1, OneLess DEF JoinReturned, JoinPanicked, AfterTrip, loopVars, historyVars
  <2>2. recent' \in 0..(Failures - 1)
    BY <1>1, SupervisionAssumption DEF JoinReturned, JoinPanicked, Trips
  <2>3. TypeOK'
    BY <2>1, <2>2 DEF TypeOK, Points
  <2>4. \A n \in Mailboxes : Tasks(n)' <= Tasks(n)
    BY <1>1, <2>1 DEF JoinReturned, JoinPanicked, Minus, Tasks, Live
  <2>5. \A n \in Mailboxes : Tasks(n) \in Nat /\ Tasks(n)' \in Nat
    BY <2>1 DEF Tasks, Live
  <2>6. OneWatcher'
    BY <2>4, <2>5 DEF OneWatcher
  <2>7. Paid'
    <3>1. CASE JoinReturned(m)
      BY <2>1, <3>1 DEF JoinReturned, Paid, Owed, CrashLoopThrottled, loopVars, historyVars
    <3>2. CASE JoinPanicked(m) /\ Trips(recent + 1)
      BY <2>1, <3>2 DEF JoinPanicked, AfterTrip, Paid, CrashLoopThrottled
    <3>3. CASE JoinPanicked(m) /\ ~Trips(recent + 1)
      BY <2>1, <3>3 DEF JoinPanicked, Paid, Owed, CrashLoopThrottled
    <3> QED
      BY <1>1, <3>1, <3>2, <3>3
  <2> QED
    BY <2>1, <2>3, <2>6, <2>7
<1>2. CASE SeeAllEnded
  <2>1. TypeOK' /\ OneWatcher'
    BY <1>2 DEF SeeAllEnded, AfterAllEnded, taskVars, loopVars, historyVars, TypeOK, Points,
                OneWatcher, Tasks, Live
  <2>2. AllEnded'
    BY <1>2 DEF SeeAllEnded, taskVars, AllEnded, Tasks, Live
  <2>3. Paid'
    BY <1>2 DEF SeeAllEnded, loopVars, historyVars, Paid, Owed, CrashLoopThrottled
  <2> QED
    BY <2>1, <2>2, <2>3
<1>3. CASE Restart
  <2>1. \A n \in Mailboxes : Tasks(n) = 0
    BY <1>3 DEF Restart, AllEnded
  <2>2. working' \in [Mailboxes -> Nat] /\ \A n \in Mailboxes : working'[n] = working[n] + 1
    BY <1>3 DEF Restart, SpawnAll
  <2>3. OneWatcher'
    BY <1>3, <2>1, <2>2 DEF Restart, OneWatcher, Tasks, Live
  <2>4. rounds' = rounds + Owed /\ crashed' = FALSE /\ recent' = recent
    BY <1>3 DEF Restart, Owed
  <2>5. rounds' <= recent
    BY <1>3, <2>4 DEF Restart, Paid
  <2>6. Paid'
    BY <2>4, <2>5, SupervisionAssumption DEF Paid, Owed, CrashLoopThrottled
  <2>7. TypeOK' /\ manager' = "watch"
    <3>0. rounds \in Nat
      BY TypeFacts
    <3>1. rounds' \in Nat
      BY <2>4, <3>0 DEF Owed
    <3>3. crashed' \in BOOLEAN
      BY <2>4, Zenon
    <3>2. /\ UNCHANGED <<delayed, returned, panicked, recent, token>>
          /\ manager' = "watch" /\ refused' = {}
      BY <1>3 DEF Restart
    <3> QED
      BY <2>2, <3>1, <3>2, <3>3 DEF TypeOK, Points
  <2> QED
    BY <2>3, <2>6, <2>7
<1>4. CASE CooldownEnds
  <2>1. TypeOK' /\ OneWatcher' /\ manager' = "watch"
    BY <1>4 DEF CooldownEnds, taskVars, TypeOK, Points, OneWatcher, Tasks, Live
  <2>2. Paid'
    BY <1>4, SupervisionAssumption DEF CooldownEnds, Paid, Owed, CrashLoopThrottled
  <2> QED
    BY <2>1, <2>2
<1>5. CASE Shutdown
  BY <1>5 DEF Shutdown, Aborted, Nowhere, loopVars, historyVars, TypeOK, Points, OneWatcher,
              Tasks, Live, Paid, CrashLoopThrottled
<1> QED
  BY <1>1, <1>2, <1>3, <1>4, <1>5 DEF Manager, Join

LEMMA StepKeepsInv ==
  ASSUME SupervisionInv, [Next]_vars
  PROVE  SupervisionInv'
<1> USE TypeFacts DEF SupervisionInv
<1>1. CASE WindowMoves
  <2>1. /\ UNCHANGED <<taskVars, manager, token, refused>>
        /\ rounds' = 0 /\ crashed' = FALSE /\ recent' \in 0..(recent - 1)
    BY <1>1 DEF WindowMoves
  <2>3. TypeOK'
    <3>1. recent \in 0..(Failures - 1) /\ recent' \in 0..(recent - 1)
      BY <2>1
    <3>2. rounds' \in Nat /\ recent' \in 0..(Failures - 1)
      BY <2>1, <3>1, SupervisionAssumption
    <3>3. crashed' \in BOOLEAN
      BY <2>1, Zenon
    <3> QED
      BY <2>1, <3>2, <3>3 DEF taskVars, TypeOK
  <2>4. OneWatcher' /\ (AllEnded => AllEnded')
    BY <2>1 DEF taskVars, OneWatcher, AllEnded, Tasks, Live
  <2>2. Paid'
    BY <2>1, SupervisionAssumption DEF Paid, Owed, CrashLoopThrottled
  <2> QED
    BY <2>1, <2>2, <2>3, <2>4
<1>2. CASE Cancel \/ UNCHANGED vars
  <2>1. UNCHANGED <<taskVars, manager, recent, rounds, crashed, refused>> /\ token' \in BOOLEAN
    BY <1>2 DEF Cancel, vars, loopVars, historyVars
  <2> QED
    BY <2>1 DEF taskVars, TypeOK, Points, OneWatcher, AllEnded, Tasks, Live, Paid, Owed,
                CrashLoopThrottled
<1> QED
  BY <1>1, <1>2, WatcherKeepsInv, ManagerKeepsInv DEF Next

THEOREM SupervisionInvariant == Spec => []SupervisionInv
  BY InitInv, StepKeepsInv, PTL DEF Spec

-----------------------------------------------------------------------------
(* The properties. *)

\* Types, among them the bound on the panics counted within one window.
THEOREM TypeCorrect == Spec => []TypeOK
<1>1. SupervisionInv => TypeOK
  BY DEF SupervisionInv
<1> QED
  BY <1>1, SupervisionInvariant, PTL

\* However the watchers of an account fail, panic and are restarted, no mailbox has two.
THEOREM OneWatcherPerMailbox == Spec => []OneWatcher
<1>1. SupervisionInv => OneWatcher
  BY DEF SupervisionInv
<1> QED
  BY <1>1, SupervisionInvariant, PTL

\* However many watchers panic, and in whatever order their ends are joined, as long as no
\* panic leaves the window the account is restarted after a panic fewer than Failures times
\* before the manager sleeps out a cooldown.
THEOREM CrashLoopsAreThrottled == Spec => []CrashLoopThrottled
<1>1. SupervisionInv => CrashLoopThrottled
  BY DEF SupervisionInv, Paid
<1> QED
  BY <1>1, SupervisionInvariant, PTL

=============================================================================
