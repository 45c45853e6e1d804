-------------------------- MODULE MailboxSyncProofs --------------------------
(***************************************************************************)
(* Theorems about MailboxSync, for any messages, limits, batch size and    *)
(* bounds: where the checkpoint stands, what lies below it, and that each  *)
(* row is announced once.                                                  *)
(***************************************************************************)
EXTENDS MailboxSync, FiniteSetTheorems, TLAPS

Mail == [uid : Uids, msg : Messages]

\* What the watcher has at hand for a UID.
InInbox(u) == \E m \in inbox : m.uid = u
AtHand(u) == InInbox(u) \/ (pc = "insert" /\ current.uid = u)

Syncing == pc \in {"fetch", "ingest", "insert"}

\* The control state: a message is inserted after its file was written, and the inbox is
\* empty before a fetch.
ControlInv ==
  /\ pc = "insert" => current \in Mail /\ files[current.uid] # None
  /\ pc \notin {"ingest", "insert"} => inbox = {}
  /\ session <= epoch
  /\ pc \notin {"off", "connect", "stopped"} => session >= 1

\* UIDs under the present UIDVALIDITY lie below the server's next one, and a sync under
\* the stored UIDVALIDITY has started at the stored UID.
NextUidInv ==
  /\ \A u \in Present : u < uidnext
  /\ state.validity <= epoch
  /\ CheckpointBelowNext
  /\ session = epoch => /\ maxuid < uidnext
                        /\ \A m \in inbox : m.uid < uidnext
  /\ Syncing /\ session = state.validity => maxuid >= state.last

\* A message that needs nothing more: stored and whole, or left out, or lost to a failed
\* insert.
Settled(u) ==
  /\ emails[u] = box[u] \/ box[u] \in limited \cup failed
  /\ emails[u] # None => files[u] = emails[u] \/ box[u] \in limited

\* Under the first UIDVALIDITY a UID means one message, in the mailbox, the rows, the
\* inbox and the file names.
OneMeaning ==
  /\ \A u \in Uids : emails[u] # None => u < uidnext
  /\ \A u \in Present : emails[u] # None => emails[u] = box[u]
  /\ \A m \in inbox : m.uid \in Present => box[m.uid] = m.msg
  /\ pc = "insert" => /\ current.uid \in Present => box[current.uid] = current.msg
                      /\ files[current.uid] = current.msg
                      /\ current.uid <= maxuid

\* The work of a sync lies above the checkpoint, and what is still to fetch above all that
\* has been fetched.
WorkAbove ==
  /\ state.validity = epoch \/ state.last = 0
  /\ state.last < uidnext /\ maxuid < uidnext
  /\ \A u \in todo : u < uidnext /\ u > state.last /\ u > maxuid
  /\ \A m \in inbox : m.uid < uidnext /\ m.uid > state.last /\ \A u \in todo : m.uid < u

\* Everything up to the checkpoint is settled, and everything up to a UID that was or
\* will be fetched is settled, at hand, or still to fetch.
Accounted ==
  /\ \A u \in Present : u <= state.last => Settled(u)
  /\ \A u \in Present :
       u <= maxuid \/ (\E m \in inbox : u <= m.uid) => Settled(u) \/ AtHand(u)
  /\ \A u \in Present, v \in todo : u <= v => Settled(u) \/ AtHand(u) \/ u \in todo

FirstInv == OneMeaning /\ WorkAbove /\ Accounted

SyncInv ==
  /\ TypeOK /\ ControlInv /\ NextUidInv /\ AnnouncedOnce
  /\ epoch = 1 => FirstInv

-----------------------------------------------------------------------------
(* Sets of UIDs. *)

LEMMA UidsFinite ==
  ASSUME NEW S \in SUBSET Uids
  PROVE  IsFiniteSet(S) /\ Cardinality(S) \in 0..MaxUid
<1>1. IsFiniteSet(Uids) /\ Cardinality(Uids) = MaxUid
  BY FS_Interval, SyncAssumption DEF Uids
<1> QED
  BY <1>1, FS_Subset, FS_CardinalityType, SyncAssumption

\* The n lowest UIDs of a set: with one of them come all below it.
LEMMA LowestClosed ==
  ASSUME NEW S \in SUBSET Uids, NEW n \in Nat,
         NEW u \in S, NEW w \in Lowest(n, S), u < w
  PROVE  u \in Lowest(n, S)
<1> DEFINE Below(x) == {v \in S : v < x}
<1>0. S \subseteq Nat /\ w \in S
  BY SyncAssumption DEF Lowest, Uids
<1>1. \A v \in S : v < u => v < w
  BY <1>0
<1>2. Below(u) \in SUBSET Below(w) /\ Below(w) \in SUBSET Uids
  BY <1>1
<1>3. Cardinality(Below(u)) <= Cardinality(Below(w))
  BY <1>2, UidsFinite, FS_Subset
<1>4. Cardinality(Below(u)) \in Nat /\ Cardinality(Below(w)) \in Nat
  BY <1>2, UidsFinite
<1> QED
  BY <1>3, <1>4 DEF Lowest

\* The mailbox after a change of UIDVALIDITY has its messages under the lowest UIDs.
LEMMA RenumberedBox ==
  ASSUME TypeOK, Renumber
  PROVE  /\ box' \in [Uids -> Content]
         /\ uidnext' \in 1..(MaxUid + 1)
         /\ \A n \in Uids : box'[n] # None => n < uidnext'
<1> DEFINE rank(u) == Cardinality({v \in Present : v <= u})
<1>1. Present \subseteq Uids
  BY DEF Present
<1>2. Cardinality(Present) \in 0..MaxUid
  BY <1>1, UidsFinite
<1>3. uidnext' = Cardinality(Present) + 1
  BY DEF Renumber
<1>4. uidnext' \in 1..(MaxUid + 1)
  BY <1>2, <1>3, SyncAssumption
<1>5. \A u \in Present : rank(u) \in Nat /\ rank(u) <= Cardinality(Present)
  <2> TAKE u \in Present
  <2> DEFINE S == {v \in Present : v <= u}
  <2>1. S \in SUBSET Present
    OBVIOUS
  <2> QED
    BY <1>1, <2>1, UidsFinite, FS_Subset
<1>6. box' = [n \in Uids |-> IF \E u \in Present : rank(u) = n
                            THEN box[CHOOSE u \in Present : rank(u) = n] ELSE None]
  BY DEF Renumber
<1> HIDE DEF rank
<1>7. \A n \in Uids : box'[n] # None => \E u \in Present : rank(u) = n
  BY <1>6
<1>8. \A n \in Uids : box'[n] # None => n < uidnext'
  BY <1>2, <1>3, <1>5, <1>7
<1>9. ASSUME NEW n \in Uids PROVE box'[n] \in Content
  <2>1. CASE \E u \in Present : rank(u) = n
    <3>1. (CHOOSE u \in Present : rank(u) = n) \in Present
      BY <2>1
    <3> QED
      BY <1>1, <1>6, <2>1, <3>1 DEF TypeOK
  <2>2. CASE ~ \E u \in Present : rank(u) = n
    BY <1>6, <2>2 DEF Content
  <2> QED
    BY <2>1, <2>2
<1> QED
  BY <1>4, <1>6, <1>8, <1>9

-----------------------------------------------------------------------------
(* Types. *)

LEMMA TypeInit == Init => TypeOK
<1> SUFFICES ASSUME Init PROVE TypeOK
  OBVIOUS
<1>1. epoch \in 1..MaxEpochs /\ uidnext \in 1..(MaxUid + 1)
  BY SyncAssumption DEF Init
<1>2. current = NoMessage /\ maxuid \in 0..MaxUid /\ faults \in 0..MaxFaults /\ stops \in 0..MaxStops
  BY SyncAssumption DEF Init
<1>3. state \in [validity : 0..MaxEpochs, last : 0..MaxUid]
  BY SyncAssumption DEF Init
<1> QED
  BY <1>1, <1>2, <1>3 DEF Init, TypeOK, Content

\* A call uses up at most what the bound allows.
LEMMA CallType ==
  ASSUME TypeOK, NEW o, Call(o)
  PROVE  faults' \in 0..MaxFaults /\ stops' = stops
  BY SyncAssumption DEF Call, TypeOK

LEMMA GotoType ==
  ASSUME NEW point \in {"off", "connect", "scan", "idle", "stopped"}, Goto(point)
  PROVE  /\ pc' \in {"off", "connect", "scan", "fetch", "ingest", "insert", "idle", "stopped"}
         /\ todo' \subseteq Uids /\ maxuid' \in 0..MaxUid
         /\ inbox' \subseteq Mail /\ current' \in Mail \cup {NoMessage}
  BY SyncAssumption DEF Goto

LEMMA TypeStep == TypeOK /\ ControlInv /\ [Next]_vars => TypeOK'
<1> SUFFICES ASSUME TypeOK, ControlInv, [Next]_vars PROVE TypeOK'
  OBVIOUS
<1> USE SyncAssumption DEF TypeOK, serverVars, dbVars, watcherVars, historyVars, boundVars
<1>1. ASSUME NEW m \in pending, Deliver(m) PROVE TypeOK'
  BY <1>1 DEF Deliver, Uids, Content
<1>2. ASSUME NEW u \in Uids, Expunge(u) PROVE TypeOK'
  BY <1>2 DEF Expunge, Content
<1>3. CASE Renumber
  <2>1. box' \in [Uids -> Content] /\ uidnext' \in 1..(MaxUid + 1)
    BY <1>3, RenumberedBox
  <2>2. epoch' \in 1..MaxEpochs /\ UNCHANGED <<pending, files, dbVars, watcherVars, historyVars, boundVars>>
    BY <1>3 DEF Renumber
  <2> QED
    BY <2>1, <2>2
<1>4. CASE Connect
  BY <1>4, GotoType DEF Connect, Mail
<1>5. CASE Scan
  <2>1. \A S \in SUBSET Present : Limit(S) \subseteq Present
    BY DEF Limit, Highest
  <2>2. todo' \subseteq Present /\ maxuid' = LastSeen
    BY <1>5, <2>1 DEF Scan
  <2>3. LastSeen \in 0..MaxUid /\ Present \subseteq Uids
    BY DEF LastSeen, Present
  <2>4. \A u \in Present : box[u] \in Messages
    BY DEF Present, Content
  <2>5. limited' \subseteq Messages
    BY <1>5, <2>4 DEF Scan
  <2> QED
    BY <1>5, <2>2, <2>3, <2>5 DEF Scan
<1>6. CASE Fetch
  BY <1>6 DEF Fetch, Lowest, Present, Content
<1>7. CASE ImapFails
  <2>1. faults' \in 0..MaxFaults /\ stops' = stops
    BY <1>7, CallType DEF ImapFails
  <2> QED
    BY <1>7, <2>1, GotoType DEF ImapFails, EndCycle, Mail
<1>8. CASE Wake \/ Respawn
  BY <1>8, GotoType DEF Wake, Respawn, Mail
<1>15. CASE AuthFails
  <2>1. faults' \in 0..MaxFaults /\ stops' = stops
    BY <1>15, CallType DEF AuthFails
  <2> QED
    BY <1>15, <2>1, GotoType DEF AuthFails, Mail
<1>9. ASSUME NEW o \in Outcome, ScanEmpty(o) PROVE TypeOK'
  <2>1. faults' \in 0..MaxFaults /\ stops' = stops
    BY <1>9, CallType DEF ScanEmpty
  <2>2. state' \in [validity : 0..MaxEpochs, last : 0..MaxUid]
    BY <1>9 DEF ScanEmpty, LastSeen
  <2> QED
    BY <1>9, <2>1, <2>2, GotoType DEF ScanEmpty, Mail
<1>10. ASSUME NEW o \in Outcome, Insert(o) PROVE TypeOK'
  <2>1. faults' \in 0..MaxFaults /\ stops' = stops
    BY <1>10, CallType DEF Insert
  <2> QED
    BY <1>10, <2>1 DEF Insert, ControlInv, Mail, Content
<1>11. ASSUME NEW o \in Outcome, Checkpoint(o) PROVE TypeOK'
  <2>1. faults' \in 0..MaxFaults /\ stops' = stops
    BY <1>11, CallType DEF Checkpoint
  <2> QED
    BY <1>11, <2>1, GotoType DEF Checkpoint, Reached, Mail
<1>12. ASSUME NEW o \in Outcome, NEW m \in inbox, Save(m, o) PROVE TypeOK'
  <2>1. faults' \in 0..MaxFaults /\ stops' = stops
    BY <1>12, CallType DEF Save
  <2>2. m \in Mail /\ Written(m, o) \in Content \cup {Torn}
    BY <1>12 DEF Mail, Written, Content, Outcome
  <2>3. files' \in [Uids -> Content \cup {Torn}]
    BY <1>12, <2>2 DEF Save
  <2>4. CASE o = "ok"
    <3>1. maxuid' \in 0..MaxUid
      BY <1>12, <2>2, <2>4 DEF Save, Mail, Uids
    <3> QED
      BY <1>12, <2>1, <2>2, <2>3, <2>4, <3>1 DEF Save, Mail
  <2>5. CASE o # "ok"
    BY <1>12, <2>1, <2>3, <2>5, GotoType DEF Save, EndCycle, Mail
  <2> QED
    BY <2>4, <2>5
<1>13. CASE Stop
  BY <1>13, GotoType DEF Stop, Mail
<1>14. CASE Start
  BY <1>14, GotoType DEF Start, Mail
<1>16. CASE UNCHANGED vars
  BY <1>16 DEF vars
<1> QED
  BY <1>1, <1>2, <1>3, <1>4, <1>5, <1>6, <1>7, <1>8, <1>9, <1>10, <1>11, <1>12, <1>13, <1>14, <1>15, <1>16
     DEF Next, Server, Watcher

-----------------------------------------------------------------------------
(* Where the watcher stands. *)

LEMMA ControlStep == TypeOK /\ ControlInv /\ [Next]_vars => ControlInv'
<1> SUFFICES ASSUME TypeOK, ControlInv, [Next]_vars PROVE ControlInv'
  OBVIOUS
<1> USE SyncAssumption DEF ControlInv, serverVars, dbVars, watcherVars, historyVars, boundVars
<1>1. ASSUME NEW m \in pending, Deliver(m) PROVE ControlInv'
  BY <1>1 DEF Deliver
<1>2. ASSUME NEW u \in Uids, Expunge(u) PROVE ControlInv'
  BY <1>2 DEF Expunge
<1>3. CASE Renumber
  <2>1. epoch' = epoch + 1 /\ UNCHANGED <<files, watcherVars>>
    BY <1>3 DEF Renumber
  <2> QED
    BY <2>1 DEF TypeOK
<1>4. CASE Connect
  BY <1>4 DEF Connect, Goto, TypeOK
<1>5. CASE Scan
  BY <1>5 DEF Scan
<1>6. CASE Fetch
  BY <1>6 DEF Fetch
<1>7. CASE ImapFails \/ AuthFails \/ Respawn \/ Wake
  BY <1>7 DEF ImapFails, EndCycle, AuthFails, Respawn, Wake, Goto, TypeOK
<1>8. ASSUME NEW o \in Outcome, ScanEmpty(o) PROVE ControlInv'
  BY <1>8 DEF ScanEmpty, Goto, TypeOK
<1>9. ASSUME NEW o \in Outcome, Insert(o) PROVE ControlInv'
  BY <1>9 DEF Insert
<1>10. ASSUME NEW o \in Outcome, Checkpoint(o) PROVE ControlInv'
  BY <1>10 DEF Checkpoint, Goto, TypeOK
<1>11. ASSUME NEW o \in Outcome, NEW m \in inbox, Save(m, o) PROVE ControlInv'
  <2>1. CASE o = "ok"
    <3>1. m \in Mail /\ current' = m /\ pc' = "insert"
      BY <1>11, <2>1 DEF Save, TypeOK, Mail
    <3>2. files'[m.uid] = m.msg /\ m.msg # None
      BY <1>11, <2>1, <3>1 DEF Save, Written, TypeOK, Mail
    <3> QED
      BY <1>11, <2>1, <3>1, <3>2 DEF Save
  <2>2. CASE o # "ok"
    BY <1>11, <2>2 DEF Save, EndCycle, Goto
  <2> QED
    BY <2>1, <2>2
<1>12. CASE Stop \/ Start
  BY <1>12 DEF Stop, Start, Goto, TypeOK
<1>13. CASE UNCHANGED vars
  BY <1>13 DEF vars
<1> QED
  BY <1>1, <1>2, <1>3, <1>4, <1>5, <1>6, <1>7, <1>8, <1>9, <1>10, <1>11, <1>12, <1>13
     DEF Next, Server, Watcher

-----------------------------------------------------------------------------
(* Rows, events and files. *)

\* A file that is there stays there, whole or torn.
LEMMA FilesStay ==
  ASSUME TypeOK, [Next]_vars, NEW u \in Uids, files[u] # None
  PROVE  files'[u] # None
<1>1. ASSUME NEW o \in Outcome, NEW m \in inbox, Save(m, o) PROVE files'[u] # None
  <2>1. m \in Mail
    BY <1>1 DEF TypeOK, Mail
  <2>2. Written(m, o) = files[m.uid] \/ Written(m, o) # None
    BY <2>1, SyncAssumption DEF Written, Outcome, Mail
  <2> QED
    BY <1>1, <2>1, <2>2 DEF Save, TypeOK
<1>2. ASSUME NEW o \in Outcome, ScanEmpty(o) \/ Insert(o) \/ Checkpoint(o) PROVE files' = files
  BY <1>2 DEF ScanEmpty, Insert, Checkpoint
<1>3. ASSUME Server \/ Connect \/ Scan \/ Fetch \/ ImapFails \/ AuthFails \/ Respawn \/ Wake \/ Stop \/ Start PROVE files' = files
  BY <1>3 DEF Server, Renumber, Deliver, Expunge, Connect, Scan, Fetch, ImapFails, AuthFails, Respawn, Wake, Stop, Start
<1>4. CASE UNCHANGED vars
  BY <1>4 DEF vars
<1> QED
  BY <1>1, <1>2, <1>3, <1>4 DEF Next, Watcher

\* Only Insert changes rows and events.
LEMMA RowsSame ==
  ASSUME [Next]_vars, ~ \E o \in Outcome : Insert(o)
  PROVE  emails' = emails /\ announced' = announced
<1>1. ASSUME NEW o \in Outcome, ScanEmpty(o) \/ Checkpoint(o) \/ \E m \in inbox : Save(m, o)
      PROVE  emails' = emails /\ announced' = announced
  BY <1>1 DEF ScanEmpty, Checkpoint, Save, dbVars
<1>2. ASSUME Server \/ Connect \/ Scan \/ Fetch \/ ImapFails \/ AuthFails \/ Respawn \/ Wake \/ Stop \/ Start
      PROVE  emails' = emails /\ announced' = announced
  BY <1>2 DEF Server, Renumber, Deliver, Expunge, Connect, Scan, Fetch, ImapFails, AuthFails, Respawn, Wake, Stop, Start, dbVars
<1>3. CASE UNCHANGED vars
  BY <1>3 DEF vars, dbVars
<1> QED
  BY <1>1, <1>2, <1>3 DEF Next, Watcher

LEMMA AnnouncedStep == TypeOK /\ ControlInv /\ AnnouncedOnce /\ [Next]_vars => AnnouncedOnce'
<1> SUFFICES ASSUME TypeOK, ControlInv, AnnouncedOnce, [Next]_vars PROVE AnnouncedOnce'
  OBVIOUS
<1>1. ASSUME NEW o \in Outcome, Insert(o) PROVE AnnouncedOnce'
  <2>1. current \in Mail /\ files[current.uid] # None /\ files' = files
    BY <1>1 DEF Insert, ControlInv
  <2>2. CASE Fresh /\ Applied(o)
    <3>1. /\ emails' = [emails EXCEPT ![current.uid] = current.msg]
          /\ announced' = [announced EXCEPT ![current.uid] = @ + 1]
      BY <1>1, <2>2 DEF Insert
    <3>2. current.uid \in Uids /\ current.msg # None /\ announced[current.uid] = 0
      BY <2>1, <2>2, SyncAssumption DEF Mail, Fresh, AnnouncedOnce
    <3> QED
      BY <2>1, <3>1, <3>2 DEF AnnouncedOnce, TypeOK
  <2>3. CASE ~(Fresh /\ Applied(o))
    BY <1>1, <2>1, <2>3 DEF Insert, AnnouncedOnce
  <2> QED
    BY <2>2, <2>3
<1>2. CASE ~ \E o \in Outcome : Insert(o)
  BY <1>2, RowsSame, FilesStay DEF AnnouncedOnce
<1> QED
  BY <1>1, <1>2

-----------------------------------------------------------------------------
(* UIDs and the server's next one. *)

LEMMA NextUidStep ==
  TypeOK /\ ControlInv /\ NextUidInv /\ [Next]_vars => NextUidInv'
<1> SUFFICES ASSUME TypeOK, ControlInv, NextUidInv, [Next]_vars PROVE NextUidInv'
  OBVIOUS
<1> USE SyncAssumption DEF serverVars, dbVars, watcherVars, historyVars, boundVars
<1>0. /\ uidnext \in Nat /\ state.last \in Nat /\ state.validity \in Nat
      /\ session \in Nat /\ epoch \in Nat \ {0} /\ maxuid \in Nat
      /\ \A m \in inbox : m.uid \in Nat
  BY DEF TypeOK, Uids
<1>1. ASSUME NEW m \in pending, Deliver(m) PROVE NextUidInv'
  <2>1. uidnext' = uidnext + 1 /\ box' = [box EXCEPT ![uidnext] = m]
    BY <1>1 DEF Deliver
  <2>2. UNCHANGED <<epoch, state, session, inbox, maxuid, pc>>
    BY <1>1 DEF Deliver
  <2>3. \A u \in Present' : u = uidnext \/ u \in Present
    BY <2>1 DEF Present, TypeOK
  <2>4. \A u \in Present : u \in Nat /\ u < uidnext
    BY DEF Present, Uids, NextUidInv
  <2>5. \A u \in Present' : u < uidnext'
    <3>1. uidnext < uidnext + 1 /\ \A u \in Present : u < uidnext + 1
      BY <1>0, <2>4
    <3> QED
      BY <2>1, <2>3, <3>1
  <2> QED
    BY <1>0, <2>1, <2>2, <2>5 DEF NextUidInv, CheckpointBelowNext, Syncing
<1>2. ASSUME NEW u \in Uids, Expunge(u) PROVE NextUidInv'
  <2>1. Present' \subseteq Present
    BY <1>2 DEF Expunge, Present, TypeOK
  <2>2. UNCHANGED <<epoch, uidnext, state, session, inbox, maxuid, pc>>
    BY <1>2 DEF Expunge
  <2> QED
    BY <2>1, <2>2 DEF NextUidInv, CheckpointBelowNext, Syncing
<1>3. CASE Renumber
  <2>1. epoch' = epoch + 1 /\ UNCHANGED <<state, session, inbox, maxuid, pc>>
    BY <1>3 DEF Renumber
  <2>2. \A u \in Present' : u < uidnext'
    BY <1>3, RenumberedBox DEF Present
  <2>3. state.validity # epoch' /\ session # epoch'
    BY <1>0, <2>1 DEF NextUidInv, ControlInv
  <2> QED
    BY <1>0, <2>1, <2>2, <2>3 DEF NextUidInv, CheckpointBelowNext, Syncing
<1>4. ASSUME UNCHANGED <<epoch, box, uidnext, state>>, inbox' = {}, maxuid' = 0, ~Syncing'
      PROVE  NextUidInv'
  BY <1>0, <1>4 DEF NextUidInv, CheckpointBelowNext, Present, TypeOK
<1>5. CASE Connect \/ ImapFails \/ AuthFails \/ Respawn \/ Wake \/ Stop \/ Start
  BY <1>4, <1>5 DEF Connect, ImapFails, EndCycle, AuthFails, Respawn, Wake, Stop, Start, Goto, Syncing
<1>6. CASE Scan
  <2>1. /\ session = epoch /\ UNCHANGED <<epoch, box, uidnext, state, session, inbox>>
        /\ maxuid' = LastSeen /\ inbox = {}
    BY <1>6 DEF Scan, ControlInv
  <2>2. LastSeen < uidnext /\ (session = state.validity => LastSeen >= state.last)
    BY <1>0, <2>1 DEF LastSeen, NextUidInv, CheckpointBelowNext, TypeOK
  <2> QED
    BY <2>1, <2>2 DEF NextUidInv, CheckpointBelowNext, Present
<1>7. CASE Fetch
  <2>1. UNCHANGED <<epoch, box, uidnext, state, session, maxuid>> /\ Syncing
    BY <1>7 DEF Fetch, Syncing
  <2>2. \A m \in inbox' : m.uid \in Present
    BY <1>7 DEF Fetch
  <2> QED
    BY <2>1, <2>2 DEF NextUidInv, CheckpointBelowNext, Present
<1>8. ASSUME NEW o \in Outcome, ScanEmpty(o) PROVE NextUidInv'
  <2>1. /\ session = epoch /\ UNCHANGED <<epoch, box, uidnext, session>>
        /\ inbox' = {} /\ maxuid' = 0 /\ ~Syncing'
        /\ state' = state \/ state' = [validity |-> session, last |-> LastSeen]
    BY <1>8 DEF ScanEmpty, Goto, Syncing
  <2>2. LastSeen < uidnext
    BY <1>0, <2>1 DEF LastSeen, NextUidInv, CheckpointBelowNext, TypeOK
  <2> QED
    BY <1>0, <2>1, <2>2 DEF NextUidInv, CheckpointBelowNext, Present, TypeOK
<1>9. ASSUME NEW o \in Outcome, Insert(o) PROVE NextUidInv'
  <2>1. UNCHANGED <<epoch, box, uidnext, state, session, inbox, maxuid>> /\ Syncing
    BY <1>9 DEF Insert, Syncing
  <2> QED
    BY <2>1 DEF NextUidInv, CheckpointBelowNext, Present
<1>10. ASSUME NEW o \in Outcome, Checkpoint(o) PROVE NextUidInv'
  <2>1. /\ UNCHANGED <<epoch, box, uidnext, session>> /\ inbox = {} /\ inbox' = {}
        /\ state' = state \/ state' = [validity |-> session, last |-> maxuid]
        /\ (~Syncing' /\ maxuid' = 0) \/ maxuid' = maxuid
    BY <1>10 DEF Checkpoint, Reached, Goto, Syncing
  <2>2. Syncing
    BY <1>10 DEF Checkpoint, Syncing
  <2> QED
    BY <1>0, <2>1, <2>2 DEF NextUidInv, CheckpointBelowNext, Present, ControlInv, TypeOK
<1>11. ASSUME NEW o \in Outcome, NEW m \in inbox, Save(m, o) PROVE NextUidInv'
  <2>1. CASE o = "ok"
    <3>1. /\ UNCHANGED <<epoch, box, uidnext, state, session>> /\ inbox' \subseteq inbox
          /\ maxuid' = (IF m.uid > maxuid THEN m.uid ELSE maxuid) /\ Syncing
      BY <1>11, <2>1 DEF Save, Syncing
    <3> QED
      BY <1>0, <3>1 DEF NextUidInv, CheckpointBelowNext, Present
  <2>2. CASE o # "ok"
    BY <1>4, <1>11, <2>2 DEF Save, EndCycle, Goto, Syncing
  <2> QED
    BY <2>1, <2>2
<1>12. CASE UNCHANGED vars
  BY <1>12 DEF vars, NextUidInv, CheckpointBelowNext, Present, Syncing
<1> QED
  BY <1>1, <1>2, <1>3, <1>5, <1>6, <1>7, <1>8, <1>9, <1>10, <1>11, <1>12
     DEF Next, Server, Watcher

-----------------------------------------------------------------------------
(* The first UIDVALIDITY. *)

LEMMA Numbers ==
  ASSUME TypeOK
  PROVE  /\ uidnext \in Nat /\ state.last \in Nat /\ state.validity \in Nat
         /\ session \in Nat /\ epoch \in Nat /\ maxuid \in Nat
         /\ todo \subseteq Nat \ {0} /\ Present \subseteq Nat \ {0}
         /\ \A m \in inbox : m.uid \in Nat \ {0}
  BY SyncAssumption DEF TypeOK, Uids, Present

\* A message that is settled stays so while nothing is taken from it.
LEMMA SettledStays ==
  ASSUME NEW u, Settled(u), box'[u] = box[u], emails'[u] = emails[u], files'[u] = files[u],
         limited \subseteq limited', failed \subseteq failed'
  PROVE  Settled(u)'
  BY DEF Settled

\* The end of a sync: nothing is left to do, and the files up to the checkpoint are as
\* they were.
LEMMA ResetKeepsFirst ==
  ASSUME TypeOK, FirstInv, NEW point \in {"off", "connect", "scan", "idle", "stopped"}, Goto(point),
         UNCHANGED <<epoch, box, uidnext, emails, state, limited, failed>>,
         \A u \in Present : u <= state.last => files'[u] = files[u]
  PROVE  FirstInv'
<1>1. Present' = Present
  BY DEF Present
<1>2. todo' = {} /\ inbox' = {} /\ maxuid' = 0 /\ pc' # "insert"
  BY DEF Goto
<1>3. OneMeaning'
  BY <1>1, <1>2 DEF FirstInv, OneMeaning
<1>4. WorkAbove'
  BY <1>2, Numbers DEF FirstInv, WorkAbove
<1>5. \A u \in Present : u <= state.last => Settled(u)'
  BY SettledStays DEF FirstInv, Accounted
<1>6. \A u \in Present : ~(u <= 0)
  BY Numbers
<1>7. Accounted'
  BY <1>1, <1>2, <1>5, <1>6 DEF Accounted
<1> QED
  BY <1>3, <1>4, <1>7 DEF FirstInv

LEMMA DeliverKeepsFirst ==
  ASSUME TypeOK, FirstInv, NEW m \in pending, Deliver(m)
  PROVE  FirstInv'
<1>1. /\ box' = [box EXCEPT ![uidnext] = m] /\ uidnext \in Uids /\ uidnext' = uidnext + 1
      /\ UNCHANGED <<epoch, emails, files, state, limited, failed>>
      /\ UNCHANGED <<pc, todo, inbox, current, maxuid>>
  BY DEF Deliver, dbVars, watcherVars, historyVars
<1>2. \A u \in Uids : u # uidnext => box'[u] = box[u]
  BY <1>1 DEF TypeOK
<1>3. \A u \in Present' : u = uidnext \/ u \in Present
  BY <1>2 DEF Present
<1>4. \A u \in Nat : u < uidnext => u < uidnext'
  BY <1>1, Numbers
<1>5. OneMeaning'
  <2>1. \A u \in Uids : u \in Nat
    BY DEF Uids
  <2>2. \A u \in Uids : emails[u] # None => u < uidnext /\ u # uidnext
    BY <2>1, Numbers DEF FirstInv, OneMeaning
  <2>3. \A u \in Present' : emails[u] # None => emails[u] = box'[u]
    BY <1>2, <1>3, <2>2 DEF FirstInv, OneMeaning, Present
  <2>4. \A n \in inbox : n.uid # uidnext /\ n.uid \in Uids
    BY Numbers DEF FirstInv, WorkAbove, TypeOK
  <2>5. \A n \in inbox : n.uid \in Present' => box'[n.uid] = n.msg
    BY <1>2, <1>3, <2>4 DEF FirstInv, OneMeaning
  <2>6. CASE pc = "insert" /\ current.uid \in Present'
    <3>1. current.uid \in Uids /\ current.uid <= maxuid
      BY <2>6 DEF FirstInv, OneMeaning, Present
    <3>2. current.uid # uidnext
      BY <3>1, Numbers DEF FirstInv, WorkAbove, Uids
    <3>3. box'[current.uid] = current.msg
      BY <1>2, <1>3, <2>6, <3>1, <3>2 DEF FirstInv, OneMeaning
    <3> QED
      BY <1>1, <1>4, <2>1, <2>2, <2>3, <2>5, <3>3 DEF FirstInv, OneMeaning
  <2> QED
    BY <1>1, <1>4, <2>1, <2>2, <2>3, <2>5, <2>6 DEF FirstInv, OneMeaning
<1>6. WorkAbove'
  BY <1>1, <1>4, Numbers DEF FirstInv, WorkAbove
<1>7. Accounted'
  <2>1. \A u \in Present : u # uidnext => (Settled(u) => Settled(u)')
    BY <1>1, <1>2, SettledStays DEF Present
  <2>2. \A u : AtHand(u)' = AtHand(u)
    BY <1>1 DEF AtHand, InInbox
  <2>3. ~(uidnext <= state.last) /\ ~(uidnext <= maxuid)
    BY Numbers DEF FirstInv, WorkAbove
  <2>4. (\A n \in inbox : ~(uidnext <= n.uid)) /\ \A v \in todo : ~(uidnext <= v)
    BY Numbers DEF FirstInv, WorkAbove
  <2>5. \A u \in Present' : u <= state.last => Settled(u)'
    BY <1>3, <2>1, <2>3 DEF FirstInv, Accounted
  <2>6. \A u \in Present' :
          u <= maxuid \/ (\E n \in inbox : u <= n.uid) => Settled(u)' \/ AtHand(u)'
    BY <1>3, <2>1, <2>2, <2>3, <2>4 DEF FirstInv, Accounted
  <2>7. \A u \in Present', v \in todo : u <= v => Settled(u)' \/ AtHand(u)' \/ u \in todo
    BY <1>3, <2>1, <2>2, <2>4 DEF FirstInv, Accounted
  <2> QED
    BY <1>1, <2>5, <2>6, <2>7 DEF Accounted
<1> QED
  BY <1>5, <1>6, <1>7 DEF FirstInv

LEMMA ExpungeKeepsFirst ==
  ASSUME TypeOK, FirstInv, NEW x \in Uids, Expunge(x)
  PROVE  FirstInv'
<1>1. /\ box' = [box EXCEPT ![x] = None]
      /\ UNCHANGED <<epoch, uidnext, emails, files, state, limited, failed>>
      /\ UNCHANGED <<pc, todo, inbox, current, maxuid>>
  BY DEF Expunge, dbVars, watcherVars, historyVars
<1>2. \A u \in Present' : u \in Present /\ box'[u] = box[u]
  BY <1>1 DEF TypeOK, Present
<1>3. \A u \in Present' : Settled(u) => Settled(u)'
  BY <1>1, <1>2, SettledStays
<1>4. \A u : AtHand(u)' = AtHand(u)
  BY <1>1 DEF AtHand, InInbox
<1>5. OneMeaning'
  BY <1>1, <1>2 DEF FirstInv, OneMeaning
<1>6. WorkAbove'
  BY <1>1 DEF FirstInv, WorkAbove
<1>7. Accounted'
  BY <1>1, <1>2, <1>3, <1>4 DEF FirstInv, Accounted
<1> QED
  BY <1>5, <1>6, <1>7 DEF FirstInv

\* What a scan takes up or leaves out are all the messages above the checkpoint.
LEMMA ScanKeepsFirst ==
  ASSUME TypeOK, ControlInv, NextUidInv, FirstInv, epoch = 1, Scan
  PROVE  FirstInv'
<1> DEFINE new  == {u \in Present : u > LastSeen}
           kept == IF LastSeen = 0 THEN Limit(new) ELSE new
<1>1. /\ session = epoch /\ todo' = kept /\ maxuid' = LastSeen /\ pc' # "insert"
      /\ limited' = limited \cup {box[u] : u \in new \ kept}
      /\ UNCHANGED <<epoch, box, uidnext, emails, files, state, inbox, current, failed>>
  BY DEF Scan, serverVars, dbVars
<1>2. inbox = {} /\ LastSeen = state.last
  <2>1. inbox = {}
    BY DEF Scan, ControlInv
  <2>2. state.validity = session \/ state.last = 0
    BY <1>1 DEF FirstInv, WorkAbove
  <2> QED
    BY <2>1, <2>2 DEF LastSeen
<1>3. kept \subseteq new
  BY DEF Limit, Highest
<1>4. \A u \in new : u \in Present /\ u > state.last /\ u < uidnext
  BY <1>2 DEF NextUidInv
<1>5. Present' = Present
  BY <1>1 DEF Present
<1>6. \A u \in Present : Settled(u) => Settled(u)'
  BY <1>1, SettledStays
<1>7. \A u \in new \ kept : Settled(u)'
  BY <1>1, <1>4 DEF Settled, FirstInv, OneMeaning
<1> HIDE DEF new, kept
<1>8. OneMeaning'
  BY <1>1, <1>2, <1>5 DEF FirstInv, OneMeaning
<1>9. WorkAbove'
  BY <1>1, <1>2, <1>3, <1>4, Numbers DEF FirstInv, WorkAbove
<1>10. \A u \in Present : u <= state.last => Settled(u)'
  BY <1>6 DEF FirstInv, Accounted
<1>11. \A u \in Present : u <= state.last \/ u \in new
  BY <1>2, Numbers DEF new
<1>12. Accounted'
  BY <1>1, <1>2, <1>3, <1>5, <1>7, <1>10, <1>11 DEF Accounted
<1> QED
  BY <1>8, <1>9, <1>12 DEF FirstInv

LEMMA ScanEmptyKeepsFirst ==
  ASSUME TypeOK, ControlInv, FirstInv, epoch = 1, NEW o \in Outcome, ScanEmpty(o)
  PROVE  FirstInv'
<1>1. /\ session = epoch
      /\ UNCHANGED <<epoch, box, uidnext, emails, files, limited, failed>>
      /\ state' = state \/ state' = [validity |-> session, last |-> LastSeen]
      /\ todo' = {} /\ inbox' = {} /\ maxuid' = 0 /\ pc' # "insert"
  BY DEF ScanEmpty, Goto, serverVars
<1>2. LastSeen = state.last
  BY <1>1 DEF LastSeen, FirstInv, WorkAbove
<1>3. Present' = Present
  BY <1>1 DEF Present
<1>4. state'.last = state.last /\ (state'.validity = epoch \/ state'.last = 0)
  BY <1>1, <1>2 DEF FirstInv, WorkAbove
<1>5. OneMeaning'
  BY <1>1, <1>3 DEF FirstInv, OneMeaning
<1>6. WorkAbove'
  BY <1>1, <1>4, Numbers DEF FirstInv, WorkAbove
<1>7. \A u \in Present : u <= state.last => Settled(u)'
  BY <1>1, SettledStays DEF FirstInv, Accounted
<1>8. \A u \in Present : ~(u <= 0)
  BY Numbers
<1>9. Accounted'
  BY <1>1, <1>3, <1>4, <1>7, <1>8 DEF Accounted
<1> QED
  BY <1>5, <1>6, <1>9 DEF FirstInv

\* A chunk is the lowest part of what is to be fetched, so its range leaves nothing out.
LEMMA FetchKeepsFirst ==
  ASSUME TypeOK, ControlInv, NextUidInv, FirstInv, Fetch
  PROVE  FirstInv'
<1> DEFINE chunk == Lowest(FetchBatch, todo)
           range == {u \in Uids : \E v, w \in chunk : v <= u /\ u <= w}
<1>1. /\ todo' = todo \ chunk /\ pc = "fetch" /\ pc' = "ingest"
      /\ inbox' = {[uid |-> u, msg |-> box[u]] : u \in range \cap Present}
      /\ UNCHANGED <<epoch, box, uidnext, emails, files, state, maxuid, current, limited, failed>>
  BY DEF Fetch, serverVars, dbVars, historyVars
<1>2. chunk \subseteq todo /\ chunk \subseteq Uids /\ todo \subseteq Uids
  BY DEF Lowest, TypeOK
<1>3. \A u \in todo, w \in chunk : u < w => u \in chunk
  BY <1>2, LowestClosed, SyncAssumption
<1>4. \A u \in todo \ chunk, w \in chunk : w < u
  <2> TAKE u \in todo \ chunk, w \in chunk
  <2>1. ~(u < w) /\ u # w
    BY <1>3
  <2>2. u \in Nat /\ w \in Nat
    BY <1>2, Numbers
  <2> QED
    BY <2>1, <2>2
<1>5. \A m \in inbox' : m.uid \in range \cap Present /\ m.msg = box[m.uid]
  BY <1>1
<1>6. \A u \in range : u \in Nat /\ \E v, w \in chunk : v <= u /\ u <= w
  BY DEF Uids
<1>7. ASSUME NEW u \in chunk, u \in Present PROVE \E m \in inbox' : m.uid = u
  <2>1. u \in Uids /\ u \in Nat
    BY <1>2, Numbers
  <2>2. u \in range \cap Present
    BY <1>7, <2>1
  <2>3. [uid |-> u, msg |-> box[u]] \in inbox'
    BY <1>1, <2>2
  <2> QED
    BY <2>3
<1>8. Present' = Present /\ inbox = {}
  BY <1>1 DEF Present, ControlInv
<1> HIDE DEF chunk, range
<1>9. \A u \in Present : Settled(u) => Settled(u)'
  BY <1>1, SettledStays
<1>10. \A u : ~AtHand(u)
  BY <1>1, <1>8 DEF AtHand, InInbox
<1>11. OneMeaning'
  BY <1>1, <1>5, <1>8 DEF FirstInv, OneMeaning
<1>12. WorkAbove'
  <2>1. \A m \in inbox' : m.uid < uidnext
    BY <1>5 DEF NextUidInv
  <2>2. \A m \in inbox' : m.uid > state.last
    <3> TAKE m \in inbox'
    <3>1. PICK v \in chunk : v <= m.uid
      BY <1>5, <1>6
    <3>2. v > state.last /\ v \in Nat /\ m.uid \in Nat
      BY <1>2, <1>5, <1>6, <3>1, Numbers DEF FirstInv, WorkAbove
    <3> QED
      BY <3>1, <3>2, Numbers
  <2>3. \A m \in inbox', u \in todo' : m.uid < u
    <3> TAKE m \in inbox', u \in todo'
    <3>1. PICK w \in chunk : m.uid <= w
      BY <1>5, <1>6
    <3>2. w < u
      BY <1>1, <1>4
    <3>3. w \in Nat /\ m.uid \in Nat /\ u \in Nat
      BY <1>1, <1>2, <1>5, <1>6, Numbers
    <3> QED
      BY <3>1, <3>2, <3>3
  <2> QED
    BY <1>1, <2>1, <2>2, <2>3 DEF FirstInv, WorkAbove
<1>13. \A u \in Present : u <= state.last => Settled(u)'
  BY <1>9 DEF FirstInv, Accounted
<1>14. \A u \in Present, v \in todo : u <= v => Settled(u)' \/ u \in todo
  BY <1>9, <1>10 DEF FirstInv, Accounted
<1>15. \A u \in todo : u \in Present => u \in todo' \/ AtHand(u)'
  BY <1>1, <1>7 DEF AtHand, InInbox
<1>16. \A u \in Present : u <= maxuid => Settled(u)'
  BY <1>8, <1>9, <1>10 DEF FirstInv, Accounted
<1>17. ASSUME NEW u \in Present, NEW m \in inbox', u <= m.uid
       PROVE  Settled(u)' \/ AtHand(u)'
  <2>1. PICK w \in chunk : m.uid <= w
    BY <1>5, <1>6
  <2>2. u \in Nat /\ m.uid \in Nat /\ w \in Nat
    BY <1>2, <1>5, <1>6, Numbers
  <2>3. u <= w
    BY <1>17, <2>1, <2>2
  <2>4. CASE u \in todo
    <3>1. u \in chunk
      BY <1>4, <2>2, <2>3, <2>4
    <3> QED
      BY <1>7, <3>1 DEF AtHand, InInbox
  <2> QED
    BY <1>2, <1>14, <2>3, <2>4
<1>18. Accounted'
  BY <1>1, <1>8, <1>13, <1>14, <1>15, <1>16, <1>17 DEF Accounted
<1> QED
  BY <1>11, <1>12, <1>18 DEF FirstInv

LEMMA SaveKeepsFirst ==
  ASSUME TypeOK, ControlInv, FirstInv, NEW o \in Outcome, NEW m \in inbox, Save(m, o)
  PROVE  FirstInv'
<1>1. /\ files' = [files EXCEPT ![m.uid] = Written(m, o)] /\ m \in Mail
      /\ UNCHANGED <<epoch, box, uidnext, emails, state, limited, failed>>
  BY DEF Save, serverVars, dbVars, historyVars, TypeOK, Mail
<1>2. \A u \in Uids : u # m.uid => files'[u] = files[u]
  BY <1>1 DEF TypeOK
<1>3. \A u \in Present : u <= state.last => u # m.uid
  BY Numbers DEF FirstInv, WorkAbove
<1>4. CASE o # "ok"
  <2>1. Goto("connect")
    BY <1>4 DEF Save, EndCycle
  <2>2. \A u \in Present : u <= state.last => files'[u] = files[u]
    BY <1>2, <1>3 DEF Present
  <2> QED
    BY <1>1, <2>1, <2>2, ResetKeepsFirst
<1>5. CASE o = "ok"
  <2>1. /\ pc = "ingest" /\ pc' = "insert" /\ current' = m /\ inbox' = inbox \ {m}
        /\ maxuid' = (IF m.uid > maxuid THEN m.uid ELSE maxuid) /\ todo' = todo
    BY <1>5 DEF Save
  <2>2. files'[m.uid] = m.msg
    BY <1>1, <1>5 DEF Written, TypeOK, Mail
  <2>3. Present' = Present
    BY <1>1 DEF Present
  <2>4. \A u \in Present : u # m.uid => (Settled(u) => Settled(u)')
    BY <1>1, <1>2, SettledStays DEF Present
  <2>5. \A u : AtHand(u) => AtHand(u)'
    BY <2>1 DEF AtHand, InInbox
  <2>6. AtHand(m.uid)'
    BY <2>1 DEF AtHand
  <2>7. /\ m.uid \in Nat /\ m.uid < uidnext /\ (\A u \in todo : m.uid < u)
        /\ m.uid <= maxuid' /\ (maxuid' = maxuid \/ maxuid' = m.uid)
    BY <2>1, Numbers DEF FirstInv, WorkAbove
  <2>8. OneMeaning'
    BY <1>1, <2>1, <2>2, <2>3, <2>7 DEF FirstInv, OneMeaning
  <2>9. WorkAbove'
    BY <1>1, <2>1, <2>7 DEF FirstInv, WorkAbove
  <2>10. \A u \in Present : u <= state.last => Settled(u)'
    BY <1>3, <2>4 DEF FirstInv, Accounted
  <2>11. \A u \in Present : Settled(u) \/ AtHand(u) => Settled(u)' \/ AtHand(u)'
    BY <2>4, <2>5, <2>6
  <2>12. \A u \in Present :
           u <= maxuid' \/ (\E n \in inbox' : u <= n.uid) => Settled(u)' \/ AtHand(u)'
    BY <2>1, <2>7, <2>11 DEF FirstInv, Accounted
  <2>13. \A u \in Present, v \in todo : u <= v => Settled(u)' \/ AtHand(u)' \/ u \in todo
    BY <2>11 DEF FirstInv, Accounted
  <2>14. Accounted'
    BY <1>1, <2>1, <2>3, <2>10, <2>12, <2>13 DEF Accounted
  <2> QED
    BY <2>8, <2>9, <2>14 DEF FirstInv
<1> QED
  BY <1>4, <1>5

\* The insert leaves the message stored, or, when it fails, known to have failed.
LEMMA InsertKeepsFirst ==
  ASSUME TypeOK, ControlInv, FirstInv, NEW o \in Outcome, Insert(o)
  PROVE  FirstInv'
<1>1. /\ pc = "insert" /\ pc' = "ingest" /\ current \in Mail
      /\ UNCHANGED <<epoch, box, uidnext, files, state, todo, inbox, maxuid, limited>>
      /\ failed \subseteq failed'
  BY DEF Insert, serverVars, ControlInv
<1> PICK c : c = current.uid
  OBVIOUS
<1>2. c \in Uids /\ current.msg # None /\ files[c] = current.msg
  BY <1>1, SyncAssumption DEF Mail, FirstInv, OneMeaning
<1>3. \A u \in Uids : u # c => emails'[u] = emails[u]
  BY <1>2 DEF Insert, TypeOK
<1>4. emails'[c] = emails[c] \/ emails'[c] = current.msg
  BY <1>2 DEF Insert, TypeOK
<1>5. Present' = Present
  BY <1>1 DEF Present
<1>6. c < uidnext
  BY <1>1, <1>2, Numbers DEF FirstInv, OneMeaning, WorkAbove, Uids
<1>7. c \in Present => box[c] = current.msg
  BY <1>1 DEF FirstInv, OneMeaning
<1>8. OneMeaning'
  <2>1. \A u \in Uids : emails'[u] # None => u < uidnext
    BY <1>3, <1>4, <1>6 DEF FirstInv, OneMeaning
  <2>2. \A u \in Present : emails'[u] # None => emails'[u] = box[u]
    BY <1>3, <1>4, <1>7 DEF FirstInv, OneMeaning, Present
  <2> QED
    BY <1>1, <1>5, <2>1, <2>2 DEF FirstInv, OneMeaning
<1>9. WorkAbove'
  BY <1>1 DEF FirstInv, WorkAbove
<1>10. c \in Present => Settled(c)'
  <2> SUFFICES ASSUME c \in Present PROVE Settled(c)'
    OBVIOUS
  <2>1. CASE Fresh /\ Applied(o)
    <3>1. emails'[c] = current.msg
      BY <1>2, <2>1 DEF Insert, TypeOK
    <3> QED
      BY <1>1, <1>2, <1>7, <3>1 DEF Settled
  <2>2. CASE Fresh /\ ~Applied(o)
    <3>1. emails'[c] = None /\ current.msg \in failed'
      BY <2>2 DEF Insert, Fresh
    <3> QED
      BY <1>1, <1>7, <3>1 DEF Settled
  <2>3. CASE ~Fresh
    <3>1. emails'[c] = emails[c] /\ emails[c] # None
      BY <2>3 DEF Insert, Fresh
    <3>2. emails[c] = current.msg
      BY <1>7, <3>1 DEF FirstInv, OneMeaning
    <3> QED
      BY <1>1, <1>2, <1>7, <3>1, <3>2 DEF Settled
  <2> QED
    BY <2>1, <2>2, <2>3
<1>11. \A u \in Present : u # c => (Settled(u) => Settled(u)')
  BY <1>1, <1>3, SettledStays DEF Present
<1>12. \A u : u # c => (AtHand(u) => AtHand(u)')
  BY <1>1 DEF AtHand, InInbox
<1>13. \A u \in Present : (Settled(u) => Settled(u)')
  BY <1>10, <1>11
<1>14. \A u \in Present : Settled(u) \/ AtHand(u) => Settled(u)' \/ AtHand(u)'
  BY <1>10, <1>12, <1>13
<1>15. Accounted'
  BY <1>1, <1>5, <1>13, <1>14 DEF FirstInv, Accounted
<1> QED
  BY <1>8, <1>9, <1>15 DEF FirstInv

\* The checkpoint moves up to what was fetched, which is settled by then.
LEMMA CheckpointKeepsFirst ==
  ASSUME TypeOK, ControlInv, FirstInv, epoch = 1, NEW o \in Outcome, Checkpoint(o)
  PROVE  FirstInv'
<1>1. /\ pc = "ingest" /\ inbox = {}
      /\ UNCHANGED <<epoch, box, uidnext, emails, files, session, limited, failed>>
      /\ state' = state \/ state' = [validity |-> session, last |-> maxuid]
      /\ pc' # "insert" /\ inbox' = {}
      /\ \/ todo' = todo /\ maxuid' = maxuid /\ state' = [validity |-> session, last |-> maxuid]
         \/ todo' = {} /\ maxuid' = 0
  BY DEF Checkpoint, Reached, Goto, serverVars, Applied
<1>2. session = epoch
  BY <1>1, Numbers DEF ControlInv
<1>3. Present' = Present
  BY <1>1 DEF Present
<1>4. state'.last = state.last \/ state'.last = maxuid
  BY <1>1
<1>5. \A u \in Present : Settled(u) => Settled(u)'
  BY <1>1, SettledStays
<1>6. \A u : ~AtHand(u)
  BY <1>1 DEF AtHand, InInbox
<1>7. OneMeaning'
  BY <1>1, <1>3 DEF FirstInv, OneMeaning
<1>8. WorkAbove'
  BY <1>1, <1>2, Numbers DEF FirstInv, WorkAbove
<1>9. \A u \in Present : u <= state'.last => Settled(u)'
  BY <1>4, <1>5, <1>6 DEF FirstInv, Accounted
<1>10. \A u \in Present : u <= maxuid' => Settled(u)'
  <2>1. \A u \in Present : ~(u <= 0)
    BY Numbers
  <2> QED
    BY <1>1, <1>5, <1>6, <2>1 DEF FirstInv, Accounted
<1>11. \A u \in Present, v \in todo' : u <= v => Settled(u)' \/ u \in todo'
  BY <1>1, <1>5, <1>6 DEF FirstInv, Accounted
<1>12. Accounted'
  BY <1>1, <1>3, <1>9, <1>10, <1>11 DEF Accounted
<1> QED
  BY <1>7, <1>8, <1>12 DEF FirstInv

LEMMA FirstStep ==
  ASSUME SyncInv, [Next]_vars, epoch' = 1
  PROVE  FirstInv'
<1>1. TypeOK /\ ControlInv /\ NextUidInv
  BY DEF SyncInv
<1>2. ~Renumber /\ epoch = 1
  <2>1. ~Renumber
    BY <1>1, Numbers DEF Renumber, TypeOK
  <2>2. ASSUME NEW o \in Outcome, ScanEmpty(o) \/ Insert(o) \/ Checkpoint(o) \/ \E m \in inbox : Save(m, o)
        PROVE  epoch' = epoch
    BY <2>2 DEF ScanEmpty, Insert, Checkpoint, Save, serverVars
  <2>3. ASSUME \/ Connect \/ Scan \/ Fetch \/ ImapFails \/ AuthFails \/ Respawn \/ Wake \/ Stop \/ Start
               \/ (\E m \in pending : Deliver(m)) \/ (\E u \in Uids : Expunge(u))
        PROVE  epoch' = epoch
    BY <2>3 DEF Connect, Scan, Fetch, ImapFails, AuthFails, Respawn, Wake, Stop, Start, Deliver, Expunge, serverVars
  <2>4. UNCHANGED vars => epoch' = epoch
    BY DEF vars, serverVars
  <2> QED
    BY <2>1, <2>2, <2>3, <2>4 DEF Next, Server, Watcher
<1>3. FirstInv
  BY <1>2 DEF SyncInv
<1>4. CASE Connect \/ ImapFails \/ AuthFails \/ Respawn \/ Wake \/ Stop \/ Start
  <2>1. UNCHANGED <<epoch, box, uidnext, emails, state, files, limited, failed>>
    BY <1>4 DEF Connect, ImapFails, AuthFails, Respawn, Wake, Stop, Start, serverVars, dbVars, historyVars
  <2>2. \E point \in {"off", "connect", "scan", "idle", "stopped"} : Goto(point)
    BY <1>4 DEF Connect, ImapFails, EndCycle, AuthFails, Respawn, Wake, Stop, Start
  <2> QED
    BY <1>1, <1>3, <2>1, <2>2, ResetKeepsFirst
<1>5. CASE UNCHANGED vars
  <2>1. /\ UNCHANGED <<epoch, box, uidnext, emails, state, files, limited, failed>>
        /\ UNCHANGED <<pc, todo, inbox, current, maxuid>>
    BY <1>5 DEF vars, serverVars, dbVars, watcherVars, historyVars
  <2> QED
    BY <1>3, <2>1 DEF FirstInv, OneMeaning, WorkAbove, Accounted, Settled, AtHand, InInbox, Present
<1> QED
  BY <1>1, <1>2, <1>3, <1>4, <1>5, DeliverKeepsFirst, ExpungeKeepsFirst, ScanKeepsFirst,
     ScanEmptyKeepsFirst, FetchKeepsFirst, SaveKeepsFirst, InsertKeepsFirst, CheckpointKeepsFirst
     DEF Next, Server, Watcher

-----------------------------------------------------------------------------
(* The theorems. *)

LEMMA SyncInvInit == Init => SyncInv
<1> SUFFICES ASSUME Init PROVE SyncInv
  OBVIOUS
<1>1. Present = {}
  BY DEF Init, Present
<1>2. ControlInv
  BY <1>1 DEF Init, ControlInv
<1>3. NextUidInv
  BY <1>1 DEF Init, NextUidInv, CheckpointBelowNext, Syncing
<1>4. AnnouncedOnce
  BY DEF Init, AnnouncedOnce
<1>5. FirstInv
  BY <1>1 DEF Init, FirstInv, OneMeaning, WorkAbove, Accounted
<1> QED
  BY <1>2, <1>3, <1>4, <1>5, TypeInit DEF SyncInv

LEMMA SyncInvStep == SyncInv /\ [Next]_vars => SyncInv'
  BY TypeStep, ControlStep, NextUidStep, AnnouncedStep, FirstStep DEF SyncInv

\* The mailbox, the rows, the files and the work of the watcher agree, in every state.
THEOREM SyncInvariant == Spec => []SyncInv
  BY SyncInvInit, SyncInvStep, PTL DEF Spec

\* The types of the mailbox, the files, the tables and the watcher.
THEOREM TypeCorrect == Spec => []TypeOK
<1>1. SyncInv => TypeOK
  BY DEF SyncInv
<1> QED
  BY <1>1, SyncInvariant, PTL

\* Whatever fails, crashes or arrives meanwhile, no message below the checkpoint lacks its
\* row, except those the limits left out and those whose insert failed.
THEOREM CheckpointedAreStored == Spec => []CheckpointCovers
<1>1. SyncInv => CheckpointCovers
  BY DEF SyncInv, FirstInv, Accounted, Settled, CheckpointCovers
<1> QED
  BY <1>1, SyncInvariant, PTL

\* No row below the checkpoint has a file that is torn or another message's.
THEOREM CheckpointedAreIntact == Spec => []CheckpointedIntact
<1>1. SyncInv => CheckpointedIntact
  BY DEF SyncInv, FirstInv, Accounted, Settled, CheckpointedIntact
<1> QED
  BY <1>1, SyncInvariant, PTL

\* However often a message is fetched and saved, its row has one event and has a file.
THEOREM RowsAreAnnouncedOnce == Spec => []AnnouncedOnce
<1>1. SyncInv => AnnouncedOnce
  BY DEF SyncInv
<1> QED
  BY <1>1, SyncInvariant, PTL

\* The checkpoint never takes mail yet to come for seen, also across UIDVALIDITY changes.
THEOREM CheckpointIsBelowNext == Spec => []CheckpointBelowNext
<1>1. SyncInv => CheckpointBelowNext
  BY DEF SyncInv, NextUidInv
<1> QED
  BY <1>1, SyncInvariant, PTL

\* Messages are saved in any order, and yet the checkpoint does not move back.
THEOREM CheckpointMovesForward == Spec => CheckpointForward
<1>1. SyncInv /\ [Next]_vars => [state'.validity = state.validity => state'.last >= state.last]_vars
  <2> SUFFICES ASSUME SyncInv, Next, state'.validity = state.validity
               PROVE  state'.last >= state.last
    BY DEF vars, dbVars
  <2>1. TypeOK /\ NextUidInv
    BY DEF SyncInv
  <2>2. ASSUME NEW o \in Outcome, ScanEmpty(o) PROVE state'.last >= state.last
    <3>1. state' = state \/ state' = [validity |-> session, last |-> LastSeen]
      BY <2>2 DEF ScanEmpty
    <3> QED
      BY <2>1, <3>1, Numbers DEF LastSeen
  <2>3. ASSUME NEW o \in Outcome, Checkpoint(o) PROVE state'.last >= state.last
    <3>1. Syncing /\ (state' = state \/ state' = [validity |-> session, last |-> maxuid])
      BY <2>3 DEF Checkpoint, Reached, Syncing
    <3> QED
      BY <2>1, <3>1, Numbers DEF NextUidInv
  <2>4. ASSUME NEW o \in Outcome, Insert(o) \/ \E m \in inbox : Save(m, o) PROVE state' = state
    BY <2>4 DEF Insert, Save, dbVars
  <2>5. ASSUME Server \/ Connect \/ Scan \/ Fetch \/ ImapFails \/ AuthFails \/ Respawn \/ Wake \/ Stop \/ Start
        PROVE  state' = state
    BY <2>5 DEF Server, Renumber, Deliver, Expunge, Connect, Scan, Fetch, ImapFails, AuthFails, Respawn, Wake, Stop, Start, dbVars
  <2> QED
    BY <2>1, <2>2, <2>3, <2>4, <2>5, Numbers DEF Next, Watcher
<1> QED
  BY <1>1, SyncInvariant, PTL DEF Spec, CheckpointForward

=============================================================================
