----------------------- MODULE BackfillBookingProofs ------------------------
(***************************************************************************)
(* Theorems about mailtx under a backfill, for any emails, readings and    *)
(* bounds: no external id is booked twice, what was reported as processed  *)
(* is not lost, and no money is booked twice, each with its exceptions.    *)
(***************************************************************************)
EXTENDS BackfillProofs

\* Who is about to post, what for.
Posting(x) == pc[x] = "post"

\* A process about to post for an id has looked it up since it was last posted, and no
\* other process is about to post for it.
LookupHolds ==
  \A x \in Emails :
    Posting(x) /\ T!Ext(x) \in Emails \ overlap =>
      /\ booked[T!Ext(x)] = 0
      /\ \A y \in Emails \ {x} : Posting(y) => T!Ext(y) # T!Ext(x)

\* The inductive invariant: BookedOnce is kept by a post because its lookup still holds.
BookingInv ==
  /\ DOMAIN pc = Emails /\ DOMAIN list = Emails /\ booked \in [Emails -> Nat]
  /\ T!BookedOnce
  /\ LookupHolds

-----------------------------------------------------------------------------
(* Steps. *)

\* The step is one of process x, which is not about to post afterwards.
StepsAway(x) ==
  /\ DOMAIN pc' = DOMAIN pc /\ DOMAIN list' = DOMAIN list
  /\ \A y \in Emails \ {x} : pc'[y] = pc[y] /\ list'[y] = list[y]
  /\ pc'[x] # "post"

LEMMA SameExt ==
  ASSUME NEW y \in Emails, list'[y] = list[y]
  PROVE  T!Ext(y)' = T!Ext(y)
  BY DEF T!Ext, T!Draining

\* A process that stops short of posting, or gives up, leaves the others' lookups valid.
LEMMA StepAwayKeepsInv ==
  ASSUME BookingInv, NEW x \in Emails, StepsAway(x),
         booked' = booked, overlap \subseteq overlap'
  PROVE  BookingInv'
<1>1. \A y \in Emails : Posting(y)' => y # x /\ Posting(y) /\ T!Ext(y)' = T!Ext(y)
  BY SameExt DEF StepsAway, Posting
<1>2. LookupHolds'
  BY <1>1 DEF BookingInv, LookupHolds
<1>3. T!BookedOnce'
  BY DEF BookingInv, T!BookedOnce
<1> QED
  BY <1>2, <1>3 DEF BookingInv, StepsAway

\* Where a process goes when it is done with a leg or with its email.
LEMMA NextLegStepsAway ==
  ASSUME BookingInv, NEW x \in Emails, T!NextLeg(x)
  PROVE  StepsAway(x)
  BY DEF BookingInv, StepsAway, T!NextLeg, T!Goto

LEMMA FailsStepsAway ==
  ASSUME BookingInv, NEW x \in Emails, T!Fails(x)
  PROVE  StepsAway(x)
  BY DEF BookingInv, StepsAway, T!Fails, T!Goto

LEMMA SucceedsStepsAway ==
  ASSUME BookingInv, NEW x \in Emails, T!Succeeds(x)
  PROVE  StepsAway(x)
  BY DEF BookingInv, StepsAway, T!Succeeds, T!Goto

LEMMA SettledStepsAway ==
  ASSUME BookingInv, NEW x \in Emails, T!Settled(x)
  PROVE  StepsAway(x)
  BY SucceedsStepsAway DEF BookingInv, StepsAway, T!Settled, T!Goto

LEMMA ClearStepsAway ==
  ASSUME BookingInv, NEW x \in Emails, T!Clear(x)
  PROVE  StepsAway(x)
  BY DEF BookingInv, StepsAway, T!Clear, T!Goto

-----------------------------------------------------------------------------
(* The actions of a run of mailtx. *)

\* A run begins, is killed or ends.
LEMMA BeginAndEndKeepInv ==
  ASSUME BookingInv, NEW x \in Emails,
         T!Begin(x) \/ T!Kill(x) \/ \E ok \in BOOLEAN : T!End(x, ok)
  PROVE  BookingInv'
<1>1. CASE T!Begin(x)
  <2>1. StepsAway(x)
    BY <1>1 DEF BookingInv, StepsAway, T!Begin, T!Goto
  <2>2. booked' = booked /\ overlap \subseteq overlap'
    BY <1>1 DEF T!Begin, T!ledgerVars
  <2> QED
    BY <2>1, <2>2, StepAwayKeepsInv
<1>2. CASE T!Kill(x)
  BY <1>2, ClearStepsAway, StepAwayKeepsInv DEF T!Kill, T!ledgerVars
<1>3. ASSUME NEW ok \in BOOLEAN, T!End(x, ok) PROVE BookingInv'
  BY <1>3, ClearStepsAway, StepAwayKeepsInv DEF T!End, T!ledgerVars, T!historyVars
<1> QED
  BY <1>1, <1>2, <1>3

\* The email is read; no step of it posts.
LEMMA ExtractKeepsInv ==
  ASSUME BookingInv, NEW x \in Emails,
         T!ExtractFails(x) \/ T!Skip(x) \/ T!TakeRegular(x) \/ \E leg \in T!Legs : T!TakeLeg(x, leg)
  PROVE  BookingInv'
<1>1. booked' = booked /\ overlap \subseteq overlap'
  BY DEF T!ExtractFails, T!Skip, T!TakeRegular, T!TakeLeg, T!Understands, T!ledgerVars
<1>2. CASE T!ExtractFails(x)
  BY <1>1, <1>2, FailsStepsAway, StepAwayKeepsInv DEF T!ExtractFails
<1>3. CASE T!Skip(x)
  BY <1>1, <1>3, SucceedsStepsAway, StepAwayKeepsInv DEF T!Skip
<1>4. CASE T!TakeRegular(x)
  <2>1. StepsAway(x)
    BY <1>4 DEF T!TakeRegular, T!Understands, T!Goto, BookingInv, StepsAway
  <2> QED
    BY <1>1, <2>1, StepAwayKeepsInv
<1>5. ASSUME NEW leg \in T!Legs, T!TakeLeg(x, leg) PROVE BookingInv'
  <2>1. StepsAway(x)
    BY <1>5 DEF T!TakeLeg, T!Understands, T!Goto, BookingInv, StepsAway
  <2> QED
    BY <1>1, <2>1, StepAwayKeepsInv
<1> QED
  BY <1>2, <1>3, <1>4, <1>5

\* A lookup that finds nothing lets the process post: the id is not booked, and a process
\* about to post for it makes it an overlap.
LEMMA LookupKeepsInv ==
  ASSUME BookingInv, NEW x \in Emails, NEW o \in T!Outcome, T!Lookup(x, o)
  PROVE  BookingInv'
<1>1. booked' = booked /\ overlap \subseteq overlap'
  BY DEF T!Lookup, T!ledgerVars
<1>2. CASE o = "lost"
  <2>1. T!PostFails(x)
    BY <1>2 DEF T!Lookup
  <2> QED
    BY <1>1, <2>1, NextLegStepsAway, FailsStepsAway, StepAwayKeepsInv DEF T!PostFails
<1>3. CASE o = "ok" /\ T!Known(x)
  <2>1. T!Settled(x)
    BY <1>3 DEF T!Lookup
  <2> QED
    BY <1>1, <2>1, SettledStepsAway, StepAwayKeepsInv
<1>4. CASE o = "ok" /\ ~T!Known(x)
  <2>1. T!Goto(x, "post") /\ list' = list
    BY <1>4 DEF T!Lookup
  <2>2. \A y \in Emails : T!Ext(y)' = T!Ext(y) /\ (y # x => Posting(y)' = Posting(y))
    BY <2>1, SameExt DEF T!Goto, Posting, BookingInv
  <2>3. T!Ext(x) \in Emails => booked[T!Ext(x)] = 0
    BY <1>4 DEF T!Known, BookingInv
  <2>4. T!Ext(x) \notin overlap' =>
          \A y \in Emails \ {x} : Posting(y) => T!Ext(y) # T!Ext(x)
    BY DEF T!Lookup, Posting
  <2>5. LookupHolds'
    BY <1>1, <2>2, <2>3, <2>4 DEF LookupHolds, BookingInv
  <2>6. T!BookedOnce'
    BY <1>1 DEF T!BookedOnce, BookingInv
  <2> QED
    BY <1>1, <2>1, <2>5, <2>6 DEF T!Goto, BookingInv
<1> QED
  BY <1>2, <1>3, <1>4 DEF T!Lookup

\* A post books an id whose lookup still holds, so once.
LEMMA PostKeepsInv ==
  ASSUME BookingInv, NEW x \in Emails, NEW o \in T!Outcome, T!Post(x, o)
  PROVE  BookingInv'
<1>1. overlap' = overlap /\ Posting(x)
  BY DEF T!Post, Posting
<1>2. StepsAway(x)
  <2>1. CASE o = "ok"
    BY <2>1, SettledStepsAway DEF T!Post
  <2>2. CASE o # "ok" /\ T!Draining(x)
    BY <2>2, NextLegStepsAway DEF T!Post
  <2>3. CASE o # "ok" /\ ~T!Draining(x)
    BY <2>3 DEF T!Post, T!Goto, BookingInv, StepsAway
  <2> QED
    BY <2>1, <2>2, <2>3
<1>3. booked' \in [Emails -> Nat]
  BY DEF T!Post, T!ledgerVars, BookingInv
<1>4. \A e \in Emails \ {T!Ext(x)} : booked'[e] = booked[e]
  BY DEF T!Post, T!ledgerVars, BookingInv
<1>5. T!Ext(x) \in Emails \ overlap => booked'[T!Ext(x)] <= 1
  <2>1. T!Ext(x) \in Emails \ overlap => booked[T!Ext(x)] = 0
    BY <1>1 DEF BookingInv, LookupHolds
  <2> QED
    BY <2>1 DEF T!Post, T!ledgerVars, BookingInv
<1>6. T!BookedOnce'
  BY <1>1, <1>4, <1>5 DEF T!BookedOnce, BookingInv
<1>7. \A y \in Emails : Posting(y)' => y # x /\ Posting(y) /\ T!Ext(y)' = T!Ext(y)
  BY <1>2, SameExt DEF StepsAway, Posting
<1>8. \A y \in Emails \ {x} : Posting(y) /\ T!Ext(y) \in Emails \ overlap => T!Ext(y) # T!Ext(x)
  BY <1>1 DEF BookingInv, LookupHolds
<1>9. LookupHolds'
  BY <1>1, <1>4, <1>7, <1>8 DEF LookupHolds, BookingInv
<1> QED
  BY <1>2, <1>3, <1>6, <1>9 DEF BookingInv, StepsAway

\* Statements on the pending legs do not post.
LEMMA StatementKeepsInv ==
  ASSUME BookingInv, NEW x \in Emails, NEW o \in T!Outcome, T!Delete(x, o) \/ T!Insert(x, o)
  PROVE  BookingInv'
<1>1. booked' = booked /\ overlap' = overlap
  BY DEF T!Delete, T!Insert, T!ledgerVars
<1>2. CASE T!Delete(x, o)
  <2>1. CASE o # "ok"
    <3>1. StepsAway(x)
      BY <1>2, <2>1 DEF T!Delete, T!Goto, BookingInv, StepsAway
    <3> QED
      BY <1>1, <3>1, StepAwayKeepsInv
  <2>2. CASE o = "ok"
    <3>1. T!NextLeg(x) \/ T!Succeeds(x)
      BY <1>2, <2>2 DEF T!Delete
    <3> QED
      BY <1>1, <3>1, NextLegStepsAway, SucceedsStepsAway, StepAwayKeepsInv
  <2> QED
    BY <2>1, <2>2
<1>3. CASE T!Insert(x, o)
  BY <1>1, <1>3, SucceedsStepsAway, FailsStepsAway, StepAwayKeepsInv DEF T!Insert
<1> QED
  BY <1>2, <1>3

\* Steps that touch neither the processes nor Firefly.
LEMMA StutterKeepsInv ==
  ASSUME BookingInv, UNCHANGED <<pc, list, booked, overlap>>
  PROVE  BookingInv'
  BY DEF BookingInv, T!BookedOnce, LookupHolds, Posting, T!Ext, T!Draining

-----------------------------------------------------------------------------
(* The theorem. *)

THEOREM BookingInit == Init => BookingInv
  BY DEF Init, T!Init, BookingInv, T!BookedOnce, LookupHolds, Posting

THEOREM BookingStep == BookingInv /\ [Next]_vars => BookingInv'
<1> SUFFICES ASSUME BookingInv, [Next]_vars PROVE BookingInv'
  OBVIOUS
<1>1. CASE Backfilling
  BY <1>1, StutterKeepsInv DEF Backfilling, bookingVars
<1>2. CASE Commands
  BY <1>2, BeginAndEndKeepInv DEF Commands, Spawn, TimesOut, Answer
<1>3. CASE Outside
  BY <1>3, StutterKeepsInv
     DEF Outside, bookingVars, T!Expire, T!ledgerVars, T!processVars, T!historyVars
<1>4. ASSUME NEW x \in Emails, Mailtx(x) PROVE BookingInv'
  BY <1>4, ExtractKeepsInv, LookupKeepsInv, PostKeepsInv, StatementKeepsInv DEF Mailtx, T!Step
<1>5. CASE UNCHANGED vars
  BY <1>5, StutterKeepsInv DEF vars, bookingVars
<1> QED
  BY <1>1, <1>2, <1>3, <1>4, <1>5 DEF Next

\* Retries, timeouts, lost answers and flushes book no external id twice, unless two
\* processes look it up before either has posted.
THEOREM NothingBookedTwice == Spec => []BookedOnce
<1>1. BookingInv => BookedOnce
  BY DEF BookingInv, BookedOnce
<1> QED
  BY <1>1, BookingInit, BookingStep, PTL DEF Spec

-----------------------------------------------------------------------------
(* What the state database and the processes hold. *)

Points == {"off", "extract", "lookup", "post", "delete", "insert", "succeeded", "failed"}

BookTypes ==
  /\ rows \subseteq T!Row /\ serial \in Nat
  /\ booked \in [Emails -> Nat] /\ counted \in [Emails -> Nat]
  /\ pc \in [Emails -> Points]
  /\ list \in [Emails -> SUBSET T!Row]
  /\ reading \in [Emails -> T!Legs \cup {"none", "regular"}]
  /\ held \in [Emails -> T!Row \cup {NoRow}]
  /\ starts \in [Emails -> Nat]
  /\ owed \subseteq Emails /\ torn \subseteq Emails /\ dropped \subseteq Emails
  /\ overlap \subseteq Emails
  /\ faults \in 0..MaxFaults /\ kills \in 0..MaxKills

\* A process flushes first and takes a counterpart afterwards; it deletes what it has.
ControlOf(x) ==
  /\ pc[x] \in {"off", "extract", "insert"} => list[x] = {} /\ held[x] = NoRow
  /\ pc[x] = "insert" => reading[x] \in T!Legs
  /\ list[x] # {} => held[x] = NoRow
  /\ pc[x] = "delete" /\ list[x] = {} => held[x] # NoRow /\ booked[x] > 0

Control == \A x \in Emails : ControlOf(x)

\* Ids are not given again, nor does an external id wait twice; what a process knows of a
\* leg is true of it, but for its age: an expired one stays expired.
Store ==
  /\ \A r \in rows : r.id <= serial
  /\ \A r, s \in rows : r.id = s.id \/ r.ext = s.ext => r = s
  /\ \A x \in Emails : \A r \in list[x] : r.id <= serial /\ r.old
       /\ \A s \in rows : s.id = r.id => s.ext = r.ext /\ s.old
  /\ \A x \in Emails : held[x] # NoRow => held[x].id <= serial
       /\ \A s \in rows : s.id = held[x].id => s.ext = held[x].ext

\* A transaction that bears an external id has its email's money in it.
Ledger == \A x \in Emails : booked[x] <= counted[x]

StoreInv == BookTypes /\ Control /\ Store /\ Ledger /\ T!NothingLost

\* An email that CountedOnce speaks of.
Once(x) == x \in Emails \ (overlap \cup torn) /\ starts[x] <= 1

\* The email waits for its first run, or is in it.
Fresh(x) == starts[x] = 0 \/ pc[x] \notin {"off", "succeeded", "failed"}

Lists(z, x) == \E r \in list[z] : r.ext = x
Holds(y, x) == held[y] # NoRow /\ held[y].ext = x
Waits(x) == \E r \in rows : r.ext = x

\* Until its run is over no leg of it waits, and it is not counted but by that run.
Unsettled(x) ==
  Fresh(x) =>
    /\ ~Waits(x) /\ \A y \in Emails : ~Lists(y, x) /\ ~Holds(y, x)
    /\ counted[x] = 0 \/ (pc[x] = "delete" /\ list[x] = {})

\* It has one leg.
OneLeg(x) ==
  \E i \in Nat :
    /\ \A r \in rows : r.ext = x => r.id = i
    /\ \A y \in Emails : \A r \in list[y] : r.ext = x => r.id = i
    /\ \A y \in Emails : Holds(y, x) => held[y].id = i

\* One process at most holds the leg, and none flushes it then; it is not counted before
\* the holder's transfer is posted.
HeldOnce(x) ==
  \A y \in Emails : Holds(y, x) =>
    /\ pc[y] \in {"lookup", "post"} => counted[x] = 0
    /\ \A z \in Emails : ~Lists(z, x) /\ (z # y => ~Holds(z, x))

\* A leg to be flushed is in no transfer: it is counted as often as it is booked.
ListedAlone(x) == (\E z \in Emails : Lists(z, x)) => counted[x] = booked[x]

\* So is one that waits, unless its transfer was posted and it is about to be deleted; and
\* it is not booked within the match window.
WaitsAlone(x) ==
  \A r \in rows : r.ext = x =>
    \/ \E y \in Emails : Holds(y, x) /\ pc[y] = "delete"
    \/ counted[x] = booked[x] /\ (~r.old => counted[x] = 0)

Single(x) ==
  /\ counted[x] <= 1 /\ (pc[x] # "off" => starts[x] > 0)
  /\ Unsettled(x) /\ OneLeg(x) /\ HeldOnce(x) /\ ListedAlone(x) /\ WaitsAlone(x)

\* The money of an email that is read once is in one transaction at most.
MoneyInv == \A x \in Emails : Once(x) => Single(x)

-----------------------------------------------------------------------------
(* Legs. *)

LEMMA RowFacts ==
  /\ NoRow \notin T!Row
  /\ \A r \in T!Row : r.id \in Nat /\ r.ext \in Emails /\ r.leg \in T!Legs /\ r.old \in BOOLEAN
  BY BookingAssumption DEF T!BookingConstants, T!Row

LEMMA OldestIn ==
  ASSUME NEW S, S \subseteq T!Row, S # {}
  PROVE  T!Oldest(S) \in S
<1> DEFINE N == {r.id : r \in S}
<1>1. N \subseteq Nat /\ N # {}
  BY RowFacts
<1>2. \E n \in N : \A m \in N : n <= m
  BY <1>1, LeastNat
<1>3. \E r \in S : \A s \in S : r.id <= s.id
  BY <1>2
<1> QED
  BY <1>3 DEF T!Oldest

\* Who a process posts for is an email, and what it joins is what it holds.
LEMMA ExtFacts ==
  ASSUME BookTypes, NEW x \in Emails
  PROVE  /\ T!Ext(x) \in Emails
         /\ T!Draining(x) <=> list[x] # {}
         /\ list[x] # {} => T!Oldest(list[x]) \in list[x] /\ T!Oldest(list[x]) \in T!Row
                              /\ T!Ext(x) = T!Oldest(list[x]).ext
         /\ list[x] = {} => T!Ext(x) = x
         /\ T!Torn(x) \subseteq Emails /\ torn \subseteq T!Torn(x)
<1>1. list[x] # {} => T!Oldest(list[x]) \in list[x] /\ T!Oldest(list[x]) \in T!Row
  BY OldestIn DEF BookTypes
<1>2. T!Torn(x) \subseteq Emails /\ torn \subseteq T!Torn(x)
  BY RowFacts DEF T!Torn, BookTypes
<1> QED
  BY <1>1, <1>2, RowFacts DEF T!Ext, T!Draining

\* What a process knows stays true when legs are only deleted, and it learns of legs only
\* from the table.
LEMMA StoreKept ==
  ASSUME Store, serial' = serial, \A r \in rows' : r \in rows,
         \A y \in Emails : \A r \in list'[y] : r \in list[y] \/ (r \in rows /\ r.old),
         \A y \in Emails : held'[y] = held[y] \/ held'[y] = NoRow \/ held'[y] \in rows
  PROVE  Store'
<1>1. \A r \in rows' : r.id <= serial'
  BY DEF Store
<1>2. \A r, s \in rows' : r.id = s.id \/ r.ext = s.ext => r = s
  BY DEF Store
<1>3. ASSUME NEW y \in Emails, NEW r \in list'[y]
      PROVE  r.id <= serial' /\ r.old /\ \A s \in rows' : s.id = r.id => s.ext = r.ext /\ s.old
  BY <1>3 DEF Store
<1>4. ASSUME NEW y \in Emails, held'[y] # NoRow
      PROVE  held'[y].id <= serial' /\ \A s \in rows' : s.id = held'[y].id => s.ext = held'[y].ext
  BY <1>4 DEF Store
<1> QED
  BY <1>1, <1>2, <1>3, <1>4 DEF Store

\* Nothing is lost when nothing is deleted and what is reported is counted or waits.
LEMMA NothingLostKept ==
  ASSUME T!NothingLost, owed \subseteq Emails, dropped \subseteq dropped',
         \A y \in Emails : counted[y] > 0 => counted'[y] > 0,
         \A y \in owed' : y \in owed \/ counted'[y] > 0 \/ T!IsPending(y)',
         \A y \in Emails : T!IsPending(y) => T!IsPending(y)' \/ counted'[y] > 0 \/ y \in dropped'
  PROVE  T!NothingLost'
  BY DEF T!NothingLost

-----------------------------------------------------------------------------
(* The ways a process moves. *)

\* Process x goes to p; the others stay where they are.
Turns(x, p) ==
  pc' \in [Emails -> Points] /\ pc'[x] = p /\ \A y \in Emails \ {x} : pc'[y] = pc[y]

\* The other processes know and hold what they did.
Apart(x) ==
  \A y \in Emails \ {x} :
    pc'[y] = pc[y] /\ list'[y] = list[y] /\ held'[y] = held[y] /\ reading'[y] = reading[y]

LEMMA GotoTurns ==
  ASSUME BookTypes, NEW x \in Emails, NEW p \in Points, T!Goto(x, p)
  PROVE  Turns(x, p)
  BY DEF BookTypes, T!Goto, Turns

LEMMA ControlKept ==
  ASSUME Control, NEW x \in Emails, Apart(x), ControlOf(x)',
         \A y \in Emails : booked[y] > 0 => booked'[y] > 0
  PROVE  Control'
  BY DEF Control, ControlOf, Apart

LEMMA NextLegFacts ==
  ASSUME BookTypes, NEW x \in Emails, T!NextLeg(x)
  PROVE  /\ list' \in [Emails -> SUBSET T!Row]
         /\ \A r \in list'[x] : r \in list[x]
         /\ \A y \in Emails \ {x} : list'[y] = list[y]
         /\ Turns(x, IF list'[x] = {} THEN "extract" ELSE "lookup")
  BY DEF BookTypes, T!NextLeg, T!Goto, Turns, Points

LEMMA FailsFacts ==
  ASSUME BookTypes, NEW x \in Emails, T!Fails(x)
  PROVE  /\ Turns(x, "failed") /\ list' = list /\ owed' = owed
         /\ torn' = T!Torn(x) /\ torn' \subseteq Emails
  BY GotoTurns, ExtFacts DEF T!Fails, Points

LEMMA SucceedsFacts ==
  ASSUME BookTypes, NEW x \in Emails, T!Succeeds(x)
  PROVE  /\ Turns(x, "succeeded") /\ list' = list /\ torn' = torn
         /\ owed' \subseteq Emails /\ \A y \in owed' : y \in owed \/ (y = x /\ reading'[x] # "none")
  BY GotoTurns DEF T!Succeeds, Points, BookTypes

\* Settled: on to the deletion, or done.
LEMMA SettledFacts ==
  ASSUME BookTypes, NEW x \in Emails, T!Settled(x)
  PROVE  /\ list' = list /\ torn' = torn /\ owed' \subseteq Emails
         /\ \/ Turns(x, "delete") /\ owed' = owed /\ (list[x] # {} \/ held[x] # NoRow)
            \/ Turns(x, "succeeded") /\ list[x] = {} /\ held[x] = NoRow
         /\ \A y \in owed' : y \in owed \/ (y = x /\ list[x] = {} /\ held[x] = NoRow)
<1>1. CASE list[x] # {} \/ held[x] # NoRow
  BY <1>1, GotoTurns DEF T!Settled, T!Draining, Points, BookTypes
<1>2. CASE list[x] = {} /\ held[x] = NoRow
  <2>1. T!Succeeds(x)
    BY <1>2 DEF T!Settled, T!Draining
  <2> QED
    BY <1>2, <2>1, SucceedsFacts
<1> QED
  BY <1>1, <1>2

\* A call uses up a fault unless it is answered.
LEMMA CallFacts ==
  ASSUME BookTypes, NEW o, T!Call(o)
  PROVE  faults' \in 0..MaxFaults /\ kills' \in 0..MaxKills
<1>1. MaxFaults \in Nat /\ MaxKills \in Nat
  BY BookingAssumption DEF T!BookingConstants
<1> QED
  BY <1>1 DEF BookTypes, T!Call

-----------------------------------------------------------------------------
(* The steps of a run, and what they keep of the store. *)

LEMMA BeginKeepsStore ==
  ASSUME StoreInv, NEW x \in Emails, T!Begin(x)
  PROVE  StoreInv'
<1> USE DEF StoreInv
<1>1. /\ list' = [list EXCEPT ![x] = T!Expired] /\ starts' = [starts EXCEPT ![x] = @ + 1]
      /\ T!Goto(x, IF T!Expired = {} THEN "extract" ELSE "lookup") /\ pc[x] = "off"
      /\ UNCHANGED <<rows, serial, booked, counted, reading, held, owed, torn, dropped, faults, kills>>
      /\ overlap' = overlap \cup {r.ext : r \in {s \in T!Expired : T!Held(s)}}
  BY DEF T!Begin, T!storeVars, T!ledgerVars, T!boundVars
<1>2. \A r \in T!Expired : r \in rows /\ r \in T!Row /\ r.old
  BY DEF T!Expired, BookTypes
<1>3. Turns(x, IF T!Expired = {} THEN "extract" ELSE "lookup")
  BY <1>1, GotoTurns DEF Points
<1>4. /\ list'[x] = T!Expired /\ held'[x] = NoRow
      /\ \A y \in Emails \ {x} : list'[y] = list[y]
  BY <1>1 DEF BookTypes, Control, ControlOf
<1>5. list' \in [Emails -> SUBSET T!Row] /\ starts' \in [Emails -> Nat] /\ overlap' \subseteq Emails
  BY <1>1, <1>2, RowFacts DEF BookTypes
<1>6. BookTypes'
  BY <1>1, <1>3, <1>5 DEF BookTypes, Turns
<1>7. Control'
  <2>1. Apart(x)
    BY <1>1, <1>3, <1>4 DEF Apart, Turns
  <2>2. ControlOf(x)'
    BY <1>1, <1>3, <1>4 DEF ControlOf, Turns
  <2> QED
    BY <1>1, <2>1, <2>2, ControlKept
<1>8. Store'
  BY <1>1, <1>2, <1>4, StoreKept
<1>9. Ledger'
  BY <1>1 DEF Ledger
<1>10. T!NothingLost'
  BY <1>1 DEF T!NothingLost, T!IsPending
<1> QED
  BY <1>6, <1>7, <1>8, <1>9, <1>10

\* A run is over: killed, or it exits.
LEMMA EndKeepsStore ==
  ASSUME StoreInv, NEW x \in Emails, T!Kill(x) \/ \E ok \in BOOLEAN : T!End(x, ok)
  PROVE  StoreInv'
<1> USE DEF StoreInv
<1>1. /\ T!Clear(x) /\ UNCHANGED <<rows, serial, booked, counted, starts, owed, dropped, overlap>>
      /\ torn' = torn \/ torn' = T!Torn(x)
      /\ kills' \in 0..MaxKills /\ faults' = faults
  <2>1. MaxKills \in Nat
    BY BookingAssumption DEF T!BookingConstants
  <2> QED
    BY <2>1 DEF T!Kill, T!End, T!storeVars, T!ledgerVars, T!historyVars, T!boundVars, BookTypes
<1>2. /\ Turns(x, "off") /\ list' = [list EXCEPT ![x] = {}]
      /\ reading' = [reading EXCEPT ![x] = "none"] /\ held' = [held EXCEPT ![x] = NoRow]
  BY <1>1, GotoTurns DEF T!Clear, Points
<1>3. /\ list'[x] = {} /\ held'[x] = NoRow
      /\ \A y \in Emails \ {x} : list'[y] = list[y] /\ held'[y] = held[y] /\ reading'[y] = reading[y]
  BY <1>2 DEF BookTypes
<1>4. torn' \subseteq Emails
  BY <1>1, ExtFacts DEF BookTypes
<1>5. /\ list' \in [Emails -> SUBSET T!Row] /\ held' \in [Emails -> T!Row \cup {NoRow}]
      /\ reading' \in [Emails -> T!Legs \cup {"none", "regular"}]
  BY <1>2 DEF BookTypes
<1>6. BookTypes'
  BY <1>1, <1>2, <1>4, <1>5 DEF BookTypes, Turns
<1>7. Control'
  <2>1. Apart(x) /\ ControlOf(x)'
    BY <1>2, <1>3 DEF Apart, Turns, ControlOf
  <2> QED
    BY <1>1, <2>1, ControlKept
<1>8. Store'
  BY <1>1, <1>3, StoreKept
<1>9. Ledger' /\ T!NothingLost'
  BY <1>1 DEF Ledger, T!NothingLost, T!IsPending
<1> QED
  BY <1>6, <1>7, <1>8, <1>9

\* The email is read; what comes of it.
LEMMA ExtractEffects ==
  ASSUME StoreInv, NEW x \in Emails,
         T!ExtractFails(x) \/ T!Skip(x) \/ T!TakeRegular(x) \/ \E leg \in T!Legs : T!TakeLeg(x, leg)
  PROVE  /\ pc[x] = "extract" /\ list[x] = {} /\ held[x] = NoRow
         /\ UNCHANGED <<rows, serial, booked, counted, list, starts, dropped>>
         /\ faults' \in 0..MaxFaults /\ kills' \in 0..MaxKills
         /\ reading' \in [Emails -> T!Legs \cup {"none", "regular"}]
         /\ \A y \in Emails \ {x} : reading'[y] = reading[y] /\ held'[y] = held[y]
         /\ torn' = torn \/ torn' = T!Torn(x)
         /\ owed' = owed
         /\ \/ held' = held /\ overlap' = overlap
                /\ \/ Turns(x, "failed") \/ Turns(x, "succeeded")
                   \/ Turns(x, "lookup")
                   \/ Turns(x, "insert") /\ reading'[x] \in T!Legs
            \/ \E r \in rows : /\ ~r.old /\ held' = [held EXCEPT ![x] = r] /\ Turns(x, "lookup")
                               /\ overlap' = IF T!Held(r) THEN overlap \cup {r.ext} ELSE overlap
<1> USE DEF StoreInv
<1>1. pc[x] = "extract"
  BY DEF T!ExtractFails, T!Skip, T!TakeRegular, T!TakeLeg, T!Understands
<1>2. list[x] = {} /\ held[x] = NoRow
  BY <1>1 DEF Control, ControlOf
<1>3. UNCHANGED <<rows, serial, booked, counted, starts, dropped>>
  BY DEF T!ExtractFails, T!Skip, T!TakeRegular, T!TakeLeg, T!Understands, T!storeVars, T!ledgerVars
<1>4. CASE T!ExtractFails(x)
  <2>1. T!Fails(x) /\ UNCHANGED <<reading, held, overlap>> /\ T!Call("lost")
    BY <1>4 DEF T!ExtractFails
  <2> QED
    BY <1>1, <1>2, <1>3, <2>1, FailsFacts, CallFacts DEF BookTypes
<1>5. ASSUME NEW what \in Readings[x], T!Understands(x, what)
      PROVE  /\ reading' \in [Emails -> T!Legs \cup {"none", "regular"}] /\ reading'[x] = what
             /\ \A y \in Emails \ {x} : reading'[y] = reading[y]
             /\ UNCHANGED <<list, torn, faults, kills>>
  <2>1. what \in T!Legs \cup {"none", "regular"}
    BY BookingAssumption DEF T!BookingConstants
  <2> QED
    BY <1>5, <2>1 DEF T!Understands, T!boundVars, BookTypes
<1>6. CASE T!Skip(x)
  <2>1. /\ T!Understands(x, "none") /\ "none" \in Readings[x] /\ T!Succeeds(x)
        /\ UNCHANGED <<held, overlap>>
    BY <1>6 DEF T!Skip, T!Understands
  <2>2. reading'[x] = "none" /\ owed' = owed
    BY <1>5, <2>1 DEF T!Succeeds
  <2> QED
    BY <1>1, <1>2, <1>3, <1>5, <2>1, <2>2, SucceedsFacts DEF BookTypes
<1>7. CASE T!TakeRegular(x)
  <2>1. PICK what \in Readings[x] : T!Understands(x, what) /\ T!Goto(x, "lookup")
                                      /\ UNCHANGED <<held, owed, overlap>>
    BY <1>7 DEF T!TakeRegular, T!Transactions, T!RuleLegs
  <2> QED
    BY <1>1, <1>2, <1>3, <1>5, <2>1, GotoTurns DEF Points, BookTypes
<1>8. ASSUME NEW leg \in T!Legs, T!TakeLeg(x, leg)
      PROVE  /\ owed' = owed /\ leg \in Readings[x] /\ T!Understands(x, leg)
             /\ \/ held' = held /\ overlap' = overlap /\ Turns(x, "insert")
                \/ \E r \in rows :
                     /\ ~r.old /\ held' = [held EXCEPT ![x] = r] /\ Turns(x, "lookup")
                     /\ overlap' = IF T!Held(r) THEN overlap \cup {r.ext} ELSE overlap
  <2> DEFINE found == {r \in rows : T!Matches(r, leg)}
  <2>1. /\ leg \in Readings[x] /\ T!Understands(x, leg) /\ owed' = owed
        /\ found = {} => T!Goto(x, "insert") /\ UNCHANGED <<held, overlap>>
        /\ found # {} => /\ T!Goto(x, "lookup") /\ held' = [held EXCEPT ![x] = T!Oldest(found)]
                         /\ overlap' = IF T!Held(T!Oldest(found))
                                       THEN overlap \cup {T!Oldest(found).ext} ELSE overlap
    BY <1>8 DEF T!TakeLeg, T!RuleLegs, T!Transactions
  <2>2. found \subseteq T!Row /\ \A r \in found : r \in rows /\ ~r.old
    BY DEF T!Matches, BookTypes
  <2> HIDE DEF found
  <2>3. CASE found = {}
    BY <2>1, <2>3, GotoTurns DEF Points
  <2>4. CASE found # {}
    BY <2>1, <2>2, <2>4, OldestIn, GotoTurns DEF Points
  <2> QED
    BY <2>1, <2>3, <2>4
<1>9. ASSUME NEW leg \in T!Legs, T!TakeLeg(x, leg)
      PROVE  /\ UNCHANGED <<list, torn, owed, faults, kills>>
             /\ reading' \in [Emails -> T!Legs \cup {"none", "regular"}] /\ reading'[x] \in T!Legs
             /\ \A y \in Emails \ {x} : reading'[y] = reading[y] /\ held'[y] = held[y]
  BY <1>5, <1>8, <1>9 DEF BookTypes
<1>10. CASE \E leg \in T!Legs : T!TakeLeg(x, leg)
  BY <1>1, <1>2, <1>3, <1>8, <1>9, <1>10 DEF BookTypes
<1> QED
  BY <1>4, <1>6, <1>7, <1>10

LEMMA ExtractKeepsStore ==
  ASSUME StoreInv, NEW x \in Emails,
         T!ExtractFails(x) \/ T!Skip(x) \/ T!TakeRegular(x) \/ \E leg \in T!Legs : T!TakeLeg(x, leg)
  PROVE  StoreInv'
<1>1. /\ pc[x] = "extract" /\ list[x] = {} /\ held[x] = NoRow
      /\ UNCHANGED <<rows, serial, booked, counted, list, starts, dropped>>
      /\ faults' \in 0..MaxFaults /\ kills' \in 0..MaxKills
      /\ reading' \in [Emails -> T!Legs \cup {"none", "regular"}]
      /\ \A y \in Emails \ {x} : reading'[y] = reading[y] /\ held'[y] = held[y]
      /\ torn' = torn \/ torn' = T!Torn(x)
      /\ owed' = owed
      /\ \/ held' = held /\ overlap' = overlap
             /\ \/ Turns(x, "failed") \/ Turns(x, "succeeded")
                \/ Turns(x, "lookup")
                \/ Turns(x, "insert") /\ reading'[x] \in T!Legs
         \/ \E r \in rows : /\ ~r.old /\ held' = [held EXCEPT ![x] = r] /\ Turns(x, "lookup")
                            /\ overlap' = IF T!Held(r) THEN overlap \cup {r.ext} ELSE overlap
  BY ExtractEffects
<1> USE DEF StoreInv
<1>2. torn' \subseteq Emails
  BY <1>1, ExtFacts DEF BookTypes
<1>3. /\ held' \in [Emails -> T!Row \cup {NoRow}] /\ overlap' \subseteq Emails
      /\ held'[x] = held[x] \/ held'[x] \in rows
      /\ pc' \in [Emails -> Points] /\ \A y \in Emails \ {x} : pc'[y] = pc[y]
  <2>1. CASE held' = held /\ overlap' = overlap
    BY <1>1, <2>1 DEF BookTypes, Turns
  <2>2. ASSUME NEW r \in rows, held' = [held EXCEPT ![x] = r], Turns(x, "lookup"),
               overlap' = IF T!Held(r) THEN overlap \cup {r.ext} ELSE overlap
        PROVE  <1>3!:
    <3>1. r \in T!Row /\ r.ext \in Emails
      BY RowFacts DEF BookTypes
    <3> QED
      BY <2>2, <3>1 DEF BookTypes, Turns
  <2> QED
    BY <1>1, <2>1, <2>2
<1>4. BookTypes'
  BY <1>1, <1>2, <1>3 DEF BookTypes
<1>5. Control'
  <2>1. Apart(x)
    BY <1>1, <1>3 DEF Apart
  <2>2. ControlOf(x)'
    BY <1>1 DEF ControlOf, Turns
  <2> QED
    BY <1>1, <2>1, <2>2, ControlKept
<1>6. Store'
  <2>1. \A y \in Emails : held'[y] = held[y] \/ held'[y] \in rows
    BY <1>1, <1>3
  <2> QED
    BY <1>1, <2>1, StoreKept
<1>7. Ledger' /\ T!NothingLost'
  BY <1>1 DEF Ledger, T!NothingLost, T!IsPending
<1> QED
  BY <1>4, <1>5, <1>6, <1>7

\* A lookup: the leg or the email is given up, is found to be booked, or is to be posted.
LEMMA LookupEffects ==
  ASSUME StoreInv, NEW x \in Emails, NEW o \in T!Outcome, T!Lookup(x, o)
  PROVE  /\ pc[x] = "lookup"
         /\ UNCHANGED <<rows, serial, booked, counted, reading, held, starts, dropped>>
         /\ overlap \subseteq overlap' /\ overlap' \subseteq Emails
         /\ faults' \in 0..MaxFaults /\ kills' \in 0..MaxKills
         /\ list' \in [Emails -> SUBSET T!Row] /\ owed' \subseteq Emails
         /\ \A y \in Emails \ {x} : list'[y] = list[y]
         /\ torn' = torn \/ torn' = T!Torn(x)
         /\ \A y \in owed' : y \in owed \/ (y = x /\ list[x] = {} /\ booked[x] > 0)
         /\ \/ /\ list[x] # {} /\ \A r \in list'[x] : r \in list[x]
               /\ Turns(x, IF list'[x] = {} THEN "extract" ELSE "lookup")
            \/ list' = list /\ Turns(x, "failed") /\ list[x] = {} /\ torn' = T!Torn(x)
            \/ list' = list /\ Turns(x, "succeeded") /\ list[x] = {} /\ held[x] = NoRow
            \/ /\ list' = list /\ Turns(x, "delete") /\ booked[T!Ext(x)] > 0
               /\ list[x] # {} \/ held[x] # NoRow
            \/ list' = list /\ Turns(x, "post")
<1> USE DEF StoreInv
<1>1. /\ pc[x] = "lookup"
      /\ UNCHANGED <<rows, serial, booked, counted, reading, held, starts, dropped>>
      /\ faults' \in 0..MaxFaults /\ kills' \in 0..MaxKills
      /\ overlap \subseteq overlap' /\ overlap' \subseteq Emails
  BY CallFacts, ExtFacts DEF T!Lookup, T!storeVars, T!ledgerVars, BookTypes
<1>2. CASE o = "lost"
  <2>1. T!PostFails(x)
    BY <1>2 DEF T!Lookup
  <2>2. CASE list[x] # {}
    BY <1>1, <2>1, <2>2, NextLegFacts DEF T!PostFails, T!Draining, BookTypes
  <2>3. CASE list[x] = {}
    BY <1>1, <2>1, <2>3, FailsFacts DEF T!PostFails, T!Draining, BookTypes
  <2> QED
    BY <2>2, <2>3
<1>3. CASE o = "ok" /\ T!Known(x)
  <2>1. T!Settled(x) /\ booked[T!Ext(x)] > 0
    BY <1>3 DEF T!Lookup, T!Known
  <2>2. list[x] = {} => booked[x] > 0
    BY <2>1, ExtFacts
  <2> QED
    BY <1>1, <2>1, <2>2, SettledFacts DEF BookTypes
<1>4. CASE o = "ok" /\ ~T!Known(x)
  <2>1. T!Goto(x, "post") /\ UNCHANGED <<list, owed, torn>>
    BY <1>4 DEF T!Lookup
  <2> QED
    BY <1>1, <2>1, GotoTurns DEF BookTypes, Points
<1> QED
  BY <1>2, <1>3, <1>4 DEF T!Lookup

LEMMA LookupKeepsStore ==
  ASSUME StoreInv, NEW x \in Emails, NEW o \in T!Outcome, T!Lookup(x, o)
  PROVE  StoreInv'
<1>1. /\ pc[x] = "lookup"
      /\ UNCHANGED <<rows, serial, booked, counted, reading, held, starts, dropped>>
      /\ overlap \subseteq overlap' /\ overlap' \subseteq Emails
      /\ faults' \in 0..MaxFaults /\ kills' \in 0..MaxKills
      /\ list' \in [Emails -> SUBSET T!Row] /\ owed' \subseteq Emails
      /\ \A y \in Emails \ {x} : list'[y] = list[y]
      /\ torn' = torn \/ torn' = T!Torn(x)
      /\ \A y \in owed' : y \in owed \/ (y = x /\ list[x] = {} /\ booked[x] > 0)
  BY LookupEffects
<1>2. \/ /\ list[x] # {} /\ \A r \in list'[x] : r \in list[x]
         /\ Turns(x, IF list'[x] = {} THEN "extract" ELSE "lookup")
      \/ list' = list /\ Turns(x, "failed") /\ list[x] = {} /\ torn' = T!Torn(x)
      \/ list' = list /\ Turns(x, "succeeded") /\ list[x] = {} /\ held[x] = NoRow
      \/ /\ list' = list /\ Turns(x, "delete") /\ booked[T!Ext(x)] > 0
         /\ list[x] # {} \/ held[x] # NoRow
      \/ list' = list /\ Turns(x, "post")
  BY LookupEffects
<1> USE DEF StoreInv
<1>3. torn' \subseteq Emails
  BY <1>1, ExtFacts DEF BookTypes
<1>4. /\ pc' \in [Emails -> Points] /\ \A y \in Emails \ {x} : pc'[y] = pc[y]
      /\ \A r \in list'[x] : r \in list[x]
  BY <1>2 DEF Turns
<1>5. BookTypes'
  BY <1>1, <1>3, <1>4 DEF BookTypes
<1>6. Control'
  <2>1. Apart(x)
    BY <1>1, <1>4 DEF Apart
  <2>2. list[x] # {} => held[x] = NoRow
    BY DEF Control, ControlOf
  <2>3. list[x] = {} => T!Ext(x) = x
    BY ExtFacts
  <2>4. ControlOf(x)'
    BY <1>1, <1>2, <2>2, <2>3 DEF ControlOf, Turns
  <2> QED
    BY <1>1, <2>1, <2>4, ControlKept
<1>7. Store'
  <2>1. \A y \in Emails : \A r \in list'[y] : r \in list[y]
    BY <1>1, <1>4
  <2> QED
    BY <1>1, <2>1, StoreKept
<1>8. Ledger'
  BY <1>1 DEF Ledger
<1>9. T!NothingLost'
  <2>1. \A y \in owed' : y \in owed \/ counted'[y] > 0
    BY <1>1 DEF Ledger, BookTypes
  <2> QED
    BY <1>1, <2>1, NothingLostKept DEF BookTypes, T!IsPending
<1> QED
  BY <1>5, <1>6, <1>7, <1>8, <1>9

\* A post: one transaction more bears the id, and more money is counted, if it took effect.
LEMMA PostEffects ==
  ASSUME StoreInv, NEW x \in Emails, NEW o \in T!Outcome, T!Post(x, o)
  PROVE  /\ pc[x] = "post"
         /\ UNCHANGED <<rows, serial, reading, held, starts, dropped, overlap>>
         /\ faults' \in 0..MaxFaults /\ kills' \in 0..MaxKills
         /\ list' \in [Emails -> SUBSET T!Row] /\ owed' \subseteq Emails
         /\ torn \subseteq torn' /\ torn' \subseteq Emails
         /\ \A y \in Emails \ {x} : list'[y] = list[y]
         /\ \A y \in owed' : y \in owed \/ (y = x /\ list[x] = {} /\ o = "ok")
         /\ \/ /\ o # "lost" /\ booked' = [booked EXCEPT ![T!Ext(x)] = @ + 1]
               /\ counted' = [y \in Emails |-> IF y \in T!Money(x) THEN counted[y] + 1
                                                                   ELSE counted[y]]
            \/ o = "lost" /\ booked' = booked /\ counted' = counted
         /\ \/ /\ list[x] # {} /\ (\A r \in list'[x] : r \in list[x])
               /\ Turns(x, IF list'[x] = {} THEN "extract" ELSE "lookup") /\ o # "ok"
            \/ list' = list /\ Turns(x, "delete") /\ o = "ok" /\ (list[x] # {} \/ held[x] # NoRow)
            \/ list' = list /\ Turns(x, "succeeded") /\ o = "ok" /\ list[x] = {} /\ held[x] = NoRow
            \/ /\ list' = list /\ Turns(x, "failed") /\ o # "ok" /\ list[x] = {}
               /\ o = "unacked" => torn' = torn \cup T!Joined(x)
<1> USE DEF StoreInv
<1>1. /\ pc[x] = "post"
      /\ UNCHANGED <<rows, serial, reading, held, starts, dropped, overlap>>
      /\ faults' \in 0..MaxFaults /\ kills' \in 0..MaxKills
  BY CallFacts DEF T!Post, T!storeVars
<1>2. \/ /\ o # "lost" /\ booked' = [booked EXCEPT ![T!Ext(x)] = @ + 1]
         /\ counted' = [y \in Emails |-> IF y \in T!Money(x) THEN counted[y] + 1 ELSE counted[y]]
      \/ o = "lost" /\ booked' = booked /\ counted' = counted
  BY DEF T!Post, T!Applied, T!ledgerVars
<1>3. CASE o = "ok"
  <2>1. T!Settled(x)
    BY <1>3 DEF T!Post
  <2> QED
    BY <1>1, <1>2, <1>3, <2>1, SettledFacts DEF BookTypes
<1>4. CASE o # "ok" /\ list[x] # {}
  <2>1. T!NextLeg(x) /\ UNCHANGED <<owed, torn>>
    BY <1>4 DEF T!Post, T!Draining
  <2> QED
    BY <1>1, <1>2, <1>4, <2>1, NextLegFacts DEF BookTypes
<1>5. CASE o # "ok" /\ list[x] = {}
  <2>1. /\ T!Goto(x, "failed") /\ UNCHANGED <<list, owed>>
        /\ torn' = IF T!Applied(o) THEN torn \cup T!Joined(x) ELSE torn
    BY <1>5 DEF T!Post, T!Draining
  <2>2. T!Joined(x) \subseteq Emails
    BY RowFacts DEF T!Joined, BookTypes
  <2>3. Turns(x, "failed")
    BY <2>1, GotoTurns DEF Points
  <2> QED
    BY <1>1, <1>2, <1>5, <2>1, <2>2, <2>3 DEF BookTypes, T!Applied
<1> QED
  BY <1>3, <1>4, <1>5

LEMMA PostKeepsStore ==
  ASSUME StoreInv, NEW x \in Emails, NEW o \in T!Outcome, T!Post(x, o)
  PROVE  StoreInv'
<1>1. /\ pc[x] = "post"
      /\ UNCHANGED <<rows, serial, reading, held, starts, dropped, overlap>>
      /\ faults' \in 0..MaxFaults /\ kills' \in 0..MaxKills
      /\ list' \in [Emails -> SUBSET T!Row] /\ owed' \subseteq Emails
      /\ torn' \subseteq Emails
      /\ \A y \in Emails \ {x} : list'[y] = list[y]
      /\ \A y \in owed' : y \in owed \/ (y = x /\ list[x] = {} /\ o = "ok")
  BY PostEffects
<1>2. \/ /\ o # "lost" /\ booked' = [booked EXCEPT ![T!Ext(x)] = @ + 1]
         /\ counted' = [y \in Emails |-> IF y \in T!Money(x) THEN counted[y] + 1 ELSE counted[y]]
      \/ o = "lost" /\ booked' = booked /\ counted' = counted
  BY PostEffects
<1>3. \/ /\ list[x] # {} /\ (\A r \in list'[x] : r \in list[x])
         /\ Turns(x, IF list'[x] = {} THEN "extract" ELSE "lookup") /\ o # "ok"
      \/ list' = list /\ Turns(x, "delete") /\ o = "ok" /\ (list[x] # {} \/ held[x] # NoRow)
      \/ list' = list /\ Turns(x, "succeeded") /\ o = "ok" /\ list[x] = {} /\ held[x] = NoRow
      \/ list' = list /\ Turns(x, "failed") /\ o # "ok" /\ list[x] = {}
  BY PostEffects
<1> USE DEF StoreInv
<1>4. /\ pc' \in [Emails -> Points] /\ \A y \in Emails \ {x} : pc'[y] = pc[y]
      /\ \A r \in list'[x] : r \in list[x]
  BY <1>3 DEF Turns
<1>5. T!Ext(x) \in Emails /\ T!Ext(x) \in T!Money(x) /\ (list[x] = {} => T!Ext(x) = x)
  BY ExtFacts DEF T!Money
<1>6. /\ booked' \in [Emails -> Nat] /\ counted' \in [Emails -> Nat]
      /\ \A y \in Emails : booked[y] <= booked'[y] /\ counted[y] <= counted'[y]
      /\ \A y \in Emails : booked'[y] <= counted'[y]
      /\ o # "lost" => booked'[T!Ext(x)] > 0 /\ counted'[T!Ext(x)] > 0
  <2>1. CASE o = "lost"
    BY <1>2, <2>1 DEF BookTypes, Ledger
  <2>2. CASE o # "lost"
    <3>1. /\ \A y \in Emails : booked'[y] = IF y = T!Ext(x) THEN booked[y] + 1 ELSE booked[y]
          /\ \A y \in Emails : counted'[y] = IF y \in T!Money(x) THEN counted[y] + 1
                                             ELSE counted[y]
          /\ booked' \in [Emails -> Nat] /\ counted' \in [Emails -> Nat]
      BY <1>2, <1>5, <2>2 DEF BookTypes
    <3> QED
      BY <1>5, <3>1 DEF BookTypes, Ledger
  <2> QED
    BY <2>1, <2>2
<1>7. BookTypes'
  BY <1>1, <1>4, <1>6 DEF BookTypes
<1>8. Control'
  <2>1. Apart(x)
    BY <1>1, <1>4 DEF Apart
  <2>2. list[x] # {} => held[x] = NoRow
    BY DEF Control, ControlOf
  <2>3. ControlOf(x)'
    BY <1>1, <1>3, <1>5, <1>6, <2>2 DEF ControlOf, Turns
  <2>4. \A y \in Emails : booked[y] > 0 => booked'[y] > 0
    BY <1>6 DEF BookTypes
  <2> QED
    BY <2>1, <2>3, <2>4, ControlKept
<1>9. Store'
  <2>1. \A y \in Emails : \A r \in list'[y] : r \in list[y]
    BY <1>1, <1>4
  <2> QED
    BY <1>1, <2>1, StoreKept
<1>10. Ledger'
  BY <1>6 DEF Ledger
<1>11. T!NothingLost'
  <2>1. \A y \in owed' : y \in owed \/ counted'[y] > 0
    BY <1>1, <1>5, <1>6
  <2>2. \A y \in Emails : counted[y] > 0 => counted'[y] > 0
    BY <1>6 DEF BookTypes
  <2> QED
    BY <1>1, <2>1, <2>2, NothingLostKept DEF BookTypes, T!IsPending
<1> QED
  BY <1>7, <1>8, <1>9, <1>10, <1>11

\* The leg that a process at its deletion is about to delete.
Doomed(x) == IF list[x] # {} THEN T!Oldest(list[x]) ELSE held[x]

LEMMA DeleteEffects ==
  ASSUME StoreInv, NEW x \in Emails, NEW o \in T!Outcome, T!Delete(x, o)
  PROVE  /\ pc[x] = "delete" /\ Doomed(x) \in T!Row
         /\ list[x] # {} => Doomed(x) \in list[x]
         /\ list[x] = {} => held[x] # NoRow /\ Doomed(x) = held[x] /\ booked[x] > 0
         /\ UNCHANGED <<serial, booked, counted, reading, held, starts, overlap>>
         /\ faults' \in 0..MaxFaults /\ kills' \in 0..MaxKills
         /\ rows' = IF o # "lost" THEN {r \in rows : r.id # Doomed(x).id} ELSE rows
         /\ dropped' = IF o # "lost" /\ T!Has(Doomed(x)) /\ counted[Doomed(x).ext] = 0
                       THEN dropped \cup {Doomed(x).ext} ELSE dropped
         /\ list' \in [Emails -> SUBSET T!Row] /\ owed' \subseteq Emails
         /\ \A y \in Emails \ {x} : list'[y] = list[y]
         /\ \A y \in owed' : y \in owed \/ (y = x /\ list[x] = {})
         /\ torn' = IF o = "lost" THEN T!Torn(x) ELSE torn
         /\ \/ list' = list /\ Turns(x, "failed") /\ o # "ok"
            \/ /\ list[x] # {} /\ (\A r \in list'[x] : r \in list[x]) /\ o = "ok"
               /\ Turns(x, IF list'[x] = {} THEN "extract" ELSE "lookup")
            \/ list' = list /\ Turns(x, "succeeded") /\ o = "ok" /\ list[x] = {}
<1> USE DEF StoreInv
<1>1. pc[x] = "delete"
  BY DEF T!Delete
<1>2. list[x] = {} => held[x] # NoRow /\ booked[x] > 0
  BY <1>1 DEF Control, ControlOf
<1>3. Doomed(x) \in T!Row /\ (list[x] # {} => Doomed(x) \in list[x])
      /\ (list[x] = {} => Doomed(x) = held[x])
  BY <1>2, ExtFacts DEF Doomed, BookTypes
<1>4. /\ UNCHANGED <<serial, booked, counted, reading, held, starts, overlap>>
      /\ faults' \in 0..MaxFaults /\ kills' \in 0..MaxKills
      /\ rows' = IF o # "lost" THEN {r \in rows : r.id # Doomed(x).id} ELSE rows
      /\ dropped' = IF o # "lost" /\ T!Has(Doomed(x)) /\ counted[Doomed(x).ext] = 0
                    THEN dropped \cup {Doomed(x).ext} ELSE dropped
  BY CallFacts DEF T!Delete, T!Applied, T!Without, T!Draining, Doomed, T!ledgerVars
<1>5. CASE o # "ok"
  <2>1. /\ T!Goto(x, "failed") /\ UNCHANGED <<list, owed>>
        /\ torn' = IF o = "lost" THEN T!Torn(x) ELSE torn
    BY <1>5 DEF T!Delete
  <2> QED
    BY <1>1, <1>2, <1>3, <1>4, <1>5, <2>1, GotoTurns DEF BookTypes, Points
<1>6. CASE o = "ok" /\ list[x] # {}
  <2>1. T!NextLeg(x) /\ UNCHANGED <<owed, torn>>
    BY <1>6 DEF T!Delete, T!Draining
  <2> QED
    BY <1>1, <1>2, <1>3, <1>4, <1>6, <2>1, NextLegFacts DEF BookTypes
<1>7. CASE o = "ok" /\ list[x] = {}
  <2>1. T!Succeeds(x)
    BY <1>7 DEF T!Delete, T!Draining
  <2> QED
    BY <1>1, <1>2, <1>3, <1>4, <1>7, <2>1, SucceedsFacts DEF BookTypes
<1> QED
  BY <1>5, <1>6, <1>7

LEMMA DeleteKeepsStore ==
  ASSUME StoreInv, NEW x \in Emails, NEW o \in T!Outcome, T!Delete(x, o)
  PROVE  StoreInv'
<1> DEFINE d == Doomed(x)
<1>1. /\ pc[x] = "delete" /\ d \in T!Row
      /\ list[x] # {} => d \in list[x]
      /\ list[x] = {} => held[x] # NoRow /\ d = held[x] /\ booked[x] > 0
      /\ UNCHANGED <<serial, booked, counted, reading, held, starts, overlap>>
      /\ faults' \in 0..MaxFaults /\ kills' \in 0..MaxKills
      /\ rows' = IF o # "lost" THEN {r \in rows : r.id # d.id} ELSE rows
      /\ dropped' = IF o # "lost" /\ T!Has(d) /\ counted[d.ext] = 0
                    THEN dropped \cup {d.ext} ELSE dropped
      /\ list' \in [Emails -> SUBSET T!Row] /\ owed' \subseteq Emails
      /\ \A y \in Emails \ {x} : list'[y] = list[y]
      /\ \A y \in owed' : y \in owed \/ (y = x /\ list[x] = {})
      /\ torn' = IF o = "lost" THEN T!Torn(x) ELSE torn
  BY DeleteEffects
<1>2. \/ list' = list /\ Turns(x, "failed") /\ o # "ok"
      \/ /\ list[x] # {} /\ (\A r \in list'[x] : r \in list[x]) /\ o = "ok"
         /\ Turns(x, IF list'[x] = {} THEN "extract" ELSE "lookup")
      \/ list' = list /\ Turns(x, "succeeded") /\ o = "ok" /\ list[x] = {}
  BY DeleteEffects
<1> HIDE DEF d
<1> USE DEF StoreInv
<1>3. /\ pc' \in [Emails -> Points] /\ \A y \in Emails \ {x} : pc'[y] = pc[y]
      /\ \A r \in list'[x] : r \in list[x]
  BY <1>2 DEF Turns
<1>4. d.ext \in Emails /\ dropped' \subseteq Emails /\ dropped \subseteq dropped'
      /\ torn' \subseteq Emails
  BY <1>1, RowFacts, ExtFacts DEF BookTypes
<1>5. \A r \in rows' : r \in rows
  BY <1>1
<1>6. BookTypes'
  BY <1>1, <1>3, <1>4, <1>5 DEF BookTypes
<1>7. Control'
  <2>1. Apart(x)
    BY <1>1, <1>3 DEF Apart
  <2>2. list[x] # {} => held[x] = NoRow
    BY DEF Control, ControlOf
  <2>3. ControlOf(x)'
    BY <1>1, <1>2, <2>2 DEF ControlOf, Turns
  <2> QED
    BY <1>1, <2>1, <2>3, ControlKept
<1>8. Store'
  <2>1. \A y \in Emails : \A r \in list'[y] : r \in list[y]
    BY <1>1, <1>3
  <2> QED
    BY <1>1, <1>5, <2>1, StoreKept
<1>9. Ledger'
  BY <1>1 DEF Ledger
<1>10. T!NothingLost'
  <2>1. \A y \in owed' : y \in owed \/ counted'[y] > 0
    BY <1>1 DEF Ledger, BookTypes
  <2>2. \A r \in rows : r.id = d.id => r.ext = d.ext
    BY <1>1 DEF Store
  <2>3. ASSUME NEW y \in Emails, T!IsPending(y)
        PROVE  T!IsPending(y)' \/ counted'[y] > 0 \/ y \in dropped'
    <3>1. PICK r \in rows : r.ext = y
      BY <2>3 DEF T!IsPending
    <3>2. CASE r \in rows'
      BY <3>1, <3>2 DEF T!IsPending
    <3>3. CASE r \notin rows'
      <4>1. o # "lost" /\ r.id = d.id /\ y = d.ext
        BY <1>1, <2>2, <3>1, <3>3
      <4>2. T!Has(d)
        BY <4>1 DEF T!Has
      <4> QED
        BY <1>1, <4>1, <4>2 DEF BookTypes
    <3> QED
      BY <3>2, <3>3
  <2> QED
    BY <1>1, <1>4, <2>1, <2>3, NothingLostKept DEF BookTypes
<1> QED
  BY <1>6, <1>7, <1>8, <1>9, <1>10

\* The first leg of a transfer waits, once.
LEMMA InsertEffects ==
  ASSUME StoreInv, NEW x \in Emails, NEW o \in T!Outcome, T!Insert(x, o)
  PROVE  /\ pc[x] = "insert" /\ list[x] = {} /\ held[x] = NoRow
         /\ UNCHANGED <<booked, counted, reading, held, list, starts, dropped, overlap>>
         /\ faults' \in 0..MaxFaults /\ kills' \in 0..MaxKills /\ owed' \subseteq Emails
         /\ torn' = torn
         /\ \/ rows' = rows /\ serial' = serial /\ (o = "ok" => T!IsPending(x))
            \/ \E r \in T!Row : /\ r.id = serial + 1 /\ r.ext = x /\ ~r.old
                                /\ rows' = rows \cup {r} /\ serial' = serial + 1
                                /\ ~T!IsPending(x)
         /\ \/ Turns(x, "failed") /\ owed' = owed
            \/ Turns(x, "succeeded") /\ o = "ok" /\ \A y \in owed' : y \in owed \/ y = x
<1> USE DEF StoreInv
<1>1. pc[x] = "insert" /\ list[x] = {} /\ held[x] = NoRow /\ reading[x] \in T!Legs
  BY DEF T!Insert, Control, ControlOf
<1>2. /\ UNCHANGED <<booked, counted, reading, held, starts, dropped, overlap>>
      /\ faults' \in 0..MaxFaults /\ kills' \in 0..MaxKills
  BY CallFacts DEF T!Insert, T!ledgerVars
<1>3. \/ rows' = rows /\ serial' = serial /\ (o = "ok" => T!IsPending(x))
      \/ \E r \in T!Row : /\ r.id = serial + 1 /\ r.ext = x /\ ~r.old
                          /\ rows' = rows \cup {r} /\ serial' = serial + 1
                          /\ ~T!IsPending(x)
  <2>1. PICK r : r = [id |-> serial + 1, ext |-> x, leg |-> reading[x], old |-> FALSE]
    OBVIOUS
  <2>2. r \in T!Row /\ r.id = serial + 1 /\ r.ext = x /\ ~r.old
    BY <1>1, <2>1 DEF T!Row, BookTypes
  <2>3. IF o # "lost" /\ ~T!IsPending(x)
        THEN rows' = rows \cup {r} /\ serial' = serial + 1
        ELSE rows' = rows /\ serial' = serial
    BY <2>1 DEF T!Insert, T!Applied, T!Stored, T!storeVars
  <2> QED
    BY <2>2, <2>3
<1>4. CASE o = "ok"
  <2>1. T!Succeeds(x)
    BY <1>4 DEF T!Insert
  <2> QED
    BY <1>1, <1>2, <1>3, <1>4, <2>1, SucceedsFacts
<1>5. CASE o # "ok"
  <2>1. T!Fails(x)
    BY <1>5 DEF T!Insert
  <2>2. torn' = torn
    BY <1>1, <2>1 DEF T!Fails, T!Torn
  <2> QED
    BY <1>1, <1>2, <1>3, <2>1, <2>2, FailsFacts DEF BookTypes
<1> QED
  BY <1>4, <1>5

LEMMA InsertKeepsStore ==
  ASSUME StoreInv, NEW x \in Emails, NEW o \in T!Outcome, T!Insert(x, o)
  PROVE  StoreInv'
<1>1. /\ pc[x] = "insert" /\ list[x] = {} /\ held[x] = NoRow
      /\ UNCHANGED <<booked, counted, reading, held, list, starts, dropped, overlap>>
      /\ faults' \in 0..MaxFaults /\ kills' \in 0..MaxKills /\ owed' \subseteq Emails
      /\ torn' = torn
      /\ \/ rows' = rows /\ serial' = serial /\ (o = "ok" => T!IsPending(x))
         \/ \E r \in T!Row : /\ r.id = serial + 1 /\ r.ext = x /\ ~r.old
                             /\ rows' = rows \cup {r} /\ serial' = serial + 1
                             /\ ~T!IsPending(x)
      /\ \/ Turns(x, "failed") /\ owed' = owed
         \/ Turns(x, "succeeded") /\ o = "ok" /\ \A y \in owed' : y \in owed \/ y = x
  BY InsertEffects
<1> USE DEF StoreInv
<1>2. pc' \in [Emails -> Points] /\ \A y \in Emails \ {x} : pc'[y] = pc[y]
  BY <1>1 DEF Turns
<1>3. rows' \subseteq T!Row /\ serial' \in Nat /\ \A r \in rows : r \in rows'
  BY <1>1 DEF BookTypes
<1>4. BookTypes'
  BY <1>1, <1>2, <1>3 DEF BookTypes
<1>5. Control'
  <2>1. Apart(x) /\ ControlOf(x)'
    BY <1>1, <1>2 DEF Apart, Turns, ControlOf
  <2> QED
    BY <1>1, <2>1, ControlKept
<1>6. Store'
  <2>1. CASE rows' = rows /\ serial' = serial
    BY <1>1, <2>1 DEF Store
  <2>2. ASSUME NEW r \in T!Row, r.id = serial + 1, r.ext = x, rows' = rows \cup {r},
               serial' = serial + 1, ~T!IsPending(x)
        PROVE  Store'
    <3>1. \A s \in rows : s.id \in Nat /\ s.id <= serial /\ s.ext # x
      BY <2>2, RowFacts DEF Store, BookTypes, T!IsPending
    <3>2. \A s \in rows' : s.id <= serial'
      BY <2>2, <3>1 DEF BookTypes
    <3>3. \A s \in rows : s.id # r.id /\ s.ext # r.ext
      BY <2>2, <3>1 DEF BookTypes
    <3>4. \A s, t \in rows' : s.id = t.id \/ s.ext = t.ext => s = t
      BY <2>2, <3>3 DEF Store
    <3>5. ASSUME NEW y \in Emails, NEW l \in list'[y]
          PROVE  l.id <= serial' /\ l.old /\ \A s \in rows' : s.id = l.id => s.ext = l.ext /\ s.old
      <4>1. /\ l.id \in Nat /\ l.id <= serial /\ l.old
            /\ \A s \in rows : s.id = l.id => s.ext = l.ext /\ s.old
        BY <1>1, RowFacts DEF Store, BookTypes
      <4> QED
        BY <2>2, <4>1 DEF BookTypes
    <3>6. ASSUME NEW y \in Emails, held'[y] # NoRow
          PROVE  held'[y].id <= serial' /\ \A s \in rows' : s.id = held'[y].id => s.ext = held'[y].ext
      <4>1. /\ held[y].id \in Nat /\ held[y].id <= serial
            /\ \A s \in rows : s.id = held[y].id => s.ext = held[y].ext
        BY <1>1, <3>6, RowFacts DEF Store, BookTypes
      <4> QED
        BY <1>1, <2>2, <4>1 DEF BookTypes
    <3> QED
      BY <3>2, <3>4, <3>5, <3>6 DEF Store
  <2> QED
    BY <1>1, <2>1, <2>2
<1>7. Ledger'
  BY <1>1 DEF Ledger
<1>8. T!NothingLost'
  <2>1. \A y \in Emails : T!IsPending(y) => T!IsPending(y)'
    BY <1>3 DEF T!IsPending
  <2>2. o = "ok" => T!IsPending(x)'
    BY <1>1, <2>1 DEF T!IsPending
  <2> QED
    BY <1>1, <2>1, <2>2, NothingLostKept DEF BookTypes
<1> QED
  BY <1>4, <1>5, <1>6, <1>7, <1>8

\* A leg passes out of the match window.
LEMMA ExpireKeepsStore ==
  ASSUME StoreInv, NEW row \in rows, T!Expire(row)
  PROVE  StoreInv'
<1> USE DEF StoreInv
<1>1. /\ rows' = (rows \ {row}) \cup {[row EXCEPT !.old = TRUE]}
      /\ UNCHANGED <<serial, booked, counted, pc, list, reading, held, starts, owed, torn, dropped,
                     overlap, faults, kills>>
  BY DEF T!Expire, T!ledgerVars, T!processVars, T!historyVars, T!boundVars
<1>2. PICK aged \in T!Row : /\ aged = [row EXCEPT !.old = TRUE]
                            /\ aged.id = row.id /\ aged.ext = row.ext /\ aged.old
  <2>1. PICK aged : aged = [row EXCEPT !.old = TRUE]
    OBVIOUS
  <2>2. row \in [id : Nat, ext : Emails, leg : T!Legs, old : BOOLEAN]
    BY DEF T!Row, BookTypes
  <2>3. aged \in [id : Nat, ext : Emails, leg : T!Legs, old : BOOLEAN]
        /\ aged.id = row.id /\ aged.ext = row.ext /\ aged.old
    BY <2>1, <2>2
  <2> QED
    BY <2>1, <2>3 DEF T!Row
<1>3. rows' = (rows \ {row}) \cup {aged}
  BY <1>1, <1>2
<1>4. BookTypes'
  BY <1>1, <1>3 DEF BookTypes
<1>5. Control' /\ Ledger'
  BY <1>1 DEF Control, ControlOf, Ledger
<1>6. Store'
  <2>1. \A s \in rows' : \E t \in rows : s.id = t.id /\ s.ext = t.ext /\ (t.old => s.old)
                                         /\ (s = t \/ (t = row /\ s = aged))
    BY <1>2, <1>3
  <2>2. \A s \in rows' : s.id <= serial'
    BY <1>1, <2>1 DEF Store
  <2>3. \A s, t \in rows' : s.id = t.id \/ s.ext = t.ext => s = t
    <3>1. \A s, t \in rows : s.id = t.id \/ s.ext = t.ext => s = t
      BY DEF Store
    <3>2. \A s \in rows' : s = aged \/ (s \in rows /\ s # row)
      BY <1>3
    <3>3. \A s \in rows : s # row => s.id # aged.id /\ s.ext # aged.ext
      BY <1>2, <3>1
    <3> QED
      BY <3>1, <3>2, <3>3
  <2>4. ASSUME NEW y \in Emails, NEW l \in list'[y]
        PROVE  l.id <= serial' /\ l.old /\ \A s \in rows' : s.id = l.id => s.ext = l.ext /\ s.old
    BY <1>1, <2>1 DEF Store
  <2>5. ASSUME NEW y \in Emails, held'[y] # NoRow
        PROVE  held'[y].id <= serial' /\ \A s \in rows' : s.id = held'[y].id => s.ext = held'[y].ext
    BY <1>1, <2>1, <2>5 DEF Store
  <2> QED
    BY <2>2, <2>3, <2>4, <2>5 DEF Store
<1>7. T!NothingLost'
  <2>1. \A y \in Emails : T!IsPending(y) => T!IsPending(y)'
    BY <1>2, <1>3 DEF T!IsPending
  <2> QED
    BY <1>1, <2>1, NothingLostKept DEF BookTypes
<1> QED
  BY <1>4, <1>5, <1>6, <1>7

LEMMA StutterKeepsStore ==
  ASSUME StoreInv, UNCHANGED bookingVars
  PROVE  StoreInv'
  BY DEF StoreInv, bookingVars, BookTypes, Control, ControlOf, Store, Ledger, T!NothingLost,
         T!IsPending

LEMMA StoreInit == Init => StoreInv
<1> SUFFICES ASSUME T!Init PROVE StoreInv
  BY DEF Init
<1>1. /\ rows = {} /\ serial = 0 /\ booked = [x \in Emails |-> 0]
      /\ counted = [x \in Emails |-> 0] /\ pc = [x \in Emails |-> "off"]
      /\ list = [x \in Emails |-> {}] /\ reading = [x \in Emails |-> "none"]
      /\ held = [x \in Emails |-> NoRow] /\ starts = [x \in Emails |-> 0]
      /\ owed = {} /\ torn = {} /\ dropped = {} /\ overlap = {} /\ faults = 0 /\ kills = 0
  BY DEF T!Init
<1>2. MaxFaults \in Nat /\ MaxKills \in Nat
  BY BookingAssumption DEF T!BookingConstants
<1>3. BookTypes
  BY <1>1, <1>2 DEF BookTypes, Points
<1>4. Control /\ Store /\ Ledger /\ T!NothingLost
  BY <1>1 DEF Control, ControlOf, Store, Ledger, T!NothingLost
<1> QED
  BY <1>3, <1>4 DEF StoreInv

LEMMA StoreNext == StoreInv /\ [Next]_vars => StoreInv'
<1> SUFFICES ASSUME StoreInv, [Next]_vars PROVE StoreInv'
  OBVIOUS
<1>1. CASE Backfilling
  BY <1>1, StutterKeepsStore DEF Backfilling
<1>2. CASE Commands
  BY <1>2, BeginKeepsStore, EndKeepsStore DEF Commands, Spawn, TimesOut, Answer
<1>3. CASE Outside
  BY <1>3, StutterKeepsStore, ExpireKeepsStore DEF Outside
<1>4. ASSUME NEW x \in Emails, Mailtx(x) PROVE StoreInv'
  BY <1>4, ExtractKeepsStore, LookupKeepsStore, PostKeepsStore, DeleteKeepsStore, InsertKeepsStore
     DEF Mailtx, T!Step
<1>5. CASE UNCHANGED vars
  BY <1>5, StutterKeepsStore DEF vars
<1> QED
  BY <1>1, <1>2, <1>3, <1>4, <1>5 DEF Next

THEOREM StoreInvariant == Spec => []StoreInv
  BY StoreInit, StoreNext, PTL DEF Spec

\* Both components keep their types: of a chunk no email has more than max_retries + 1
\* attempts, the counters stay within the emails there are, and every leg that mailtx
\* stores, lists or holds is a leg of an email.
THEOREM TypeCorrect == Spec => []TypeOK
<1>1. StoreInv => T!TypeOK
  BY DEF StoreInv, BookTypes, T!TypeOK, Points
<1>2. RunInv /\ StoreInv => TypeOK
  BY <1>1, RunTypeCorrect DEF TypeOK
<1> QED
  BY <1>2, RunInvariant, StoreInvariant, PTL

\* Whatever fails, is retried, killed or flushed: an email that mailtx reported as processed
\* has its money in Firefly or waits as a pending leg, unless that leg was deleted for a
\* transfer that was not posted.
THEOREM NothingReportedIsLost == Spec => []NothingLost
<1>1. StoreInv => NothingLost
  BY DEF StoreInv, NothingLost
<1> QED
  BY <1>1, StoreInvariant, PTL

-----------------------------------------------------------------------------
(* Money: what a step that learns of no leg keeps. *)

LEMMA OnceBefore ==
  ASSUME StoreInv, NEW x \in Emails, Once(x)', overlap \subseteq overlap', torn \subseteq torn',
         starts'[x] = starts[x] \/ starts'[x] = starts[x] + 1
  PROVE  Once(x)
<1>1. starts[x] \in Nat
  BY DEF StoreInv, BookTypes
<1> QED
  BY <1>1 DEF Once

\* A process whose run ends leaves no leg pending whose transfer is posted, but the torn.
LEMMA TornFacts ==
  ASSUME StoreInv, NEW p \in Emails, NEW x \in Emails, OneLeg(x), Holds(p, x), x \notin T!Torn(p)
  PROVE  counted[x] = 0 \/ \A r \in rows : r.ext # x
<1>1. ~(counted[x] > 0) \/ ~T!Has(held[p])
  BY DEF T!Torn, Holds
<1>2. ASSUME ~T!Has(held[p]) PROVE \A r \in rows : r.ext # x
  BY <1>2 DEF T!Has, OneLeg
<1> QED
  BY <1>1, <1>2 DEF StoreInv, BookTypes

LEMMA SingleKept ==
  ASSUME StoreInv, NEW p \in Emails, NEW x \in Emails, Single(x), Apart(p),
         counted'[x] = counted[x], booked'[x] = booked[x], starts' = starts,
         pc[p] # "off",
         \A r \in rows' : r.ext = x => r \in rows,
         \A r \in list'[p] : r \in list[p],
         held'[p] = held[p] \/ held'[p] = NoRow,
         held'[p] # NoRow /\ held'[p].ext = x /\ pc'[p] \in {"lookup", "post"} => counted[x] = 0,
         held[p] # NoRow /\ held[p].ext = x /\ pc[p] = "delete" =>
           counted[x] = 0 \/ \A r \in rows' : r.ext # x,
         p = x /\ Fresh(x)' =>
           Fresh(x) /\ (counted[x] = 0 \/ (pc'[x] = "delete" /\ list'[x] = {}))
  PROVE  Single(x)'
<1>1. \A y \in Emails : /\ Lists(y, x)' => Lists(y, x)
                        /\ Holds(y, x)' => Holds(y, x) /\ held'[y] = held[y]
                        /\ \A r \in list'[y] : r \in list[y]
  BY DEF Apart, Lists, Holds
<1>2. Waits(x)' => Waits(x)
  BY DEF Waits
<1>3. p # x => pc'[x] = pc[x] /\ list'[x] = list[x] /\ (Fresh(x)' <=> Fresh(x))
  BY DEF Apart, Fresh
<1>4. Unsettled(x)'
  <2> SUFFICES ASSUME Fresh(x)'
      PROVE  /\ ~Waits(x)' /\ \A y \in Emails : ~Lists(y, x)' /\ ~Holds(y, x)'
             /\ counted'[x] = 0 \/ (pc'[x] = "delete" /\ list'[x] = {})
    BY DEF Unsettled
  <2>1. Fresh(x)
    BY <1>3
  <2>2. counted'[x] = 0 \/ (pc'[x] = "delete" /\ list'[x] = {})
    BY <1>3, <2>1 DEF Single, Unsettled
  <2> QED
    BY <1>1, <1>2, <2>1, <2>2 DEF Single, Unsettled
<1>5. OneLeg(x)'
  <2>1. PICK i \in Nat : /\ \A r \in rows : r.ext = x => r.id = i
                         /\ \A y \in Emails : \A r \in list[y] : r.ext = x => r.id = i
                         /\ \A y \in Emails : Holds(y, x) => held[y].id = i
    BY DEF Single, OneLeg
  <2>2. /\ \A r \in rows' : r.ext = x => r.id = i
        /\ \A y \in Emails : \A r \in list'[y] : r.ext = x => r.id = i
        /\ \A y \in Emails : Holds(y, x)' => held'[y].id = i
    BY <1>1, <2>1
  <2> QED
    BY <2>2 DEF OneLeg
<1>6. HeldOnce(x)'
  <2>1. ASSUME NEW y \in Emails, Holds(y, x)'
        PROVE  /\ pc'[y] \in {"lookup", "post"} => counted'[x] = 0
               /\ \A z \in Emails : ~Lists(z, x)' /\ (z # y => ~Holds(z, x)')
    <3>1. y # p => pc'[y] = pc[y]
      BY DEF Apart
    <3>2. pc'[y] \in {"lookup", "post"} => counted'[x] = 0
      BY <1>1, <2>1, <3>1 DEF Single, HeldOnce, Holds
    <3> QED
      BY <1>1, <2>1, <3>2 DEF Single, HeldOnce
  <2> QED
    BY <2>1 DEF HeldOnce
<1>7. ListedAlone(x)'
  BY <1>1 DEF Single, ListedAlone
<1>8. WaitsAlone(x)'
  <2>1. ASSUME NEW r \in rows', r.ext = x
        PROVE  \/ \E y \in Emails : Holds(y, x)' /\ pc'[y] = "delete"
               \/ counted'[x] = booked'[x] /\ (~r.old => counted'[x] = 0)
    <3>1. r \in rows
      BY <2>1
    <3>2. counted[x] = 0 => counted[x] = booked[x]
      BY DEF StoreInv, BookTypes, Ledger
    <3>3. CASE counted[x] = booked[x] /\ (~r.old => counted[x] = 0)
      BY <3>3
    <3>4. ASSUME NEW y \in Emails, Holds(y, x), pc[y] = "delete"
          PROVE  \/ \E w \in Emails : Holds(w, x)' /\ pc'[w] = "delete"
                 \/ counted'[x] = booked'[x] /\ (~r.old => counted'[x] = 0)
      <4>1. CASE y = p
        BY <2>1, <3>2, <3>4, <4>1 DEF Holds
      <4>2. CASE y # p
        BY <3>4, <4>2 DEF Apart, Holds
      <4> QED
        BY <4>1, <4>2
    <3> QED
      BY <2>1, <3>1, <3>3, <3>4 DEF Single, WaitsAlone
  <2> QED
    BY <2>1 DEF WaitsAlone
<1>9. counted'[x] <= 1 /\ (pc'[x] # "off" => starts'[x] > 0)
  <2>1. pc[x] # "off" \/ pc'[x] = pc[x]
    BY DEF Apart
  <2> QED
    BY <2>1 DEF Single
<1> QED
  BY <1>4, <1>5, <1>6, <1>7, <1>8, <1>9 DEF Single

-----------------------------------------------------------------------------
(* Money: the steps of a run. *)

\* What a run lists as it begins is held by none, so it is in no transfer.
LEMMA BeginKeepsMoney ==
  ASSUME StoreInv, MoneyInv, NEW p \in Emails, T!Begin(p)
  PROVE  MoneyInv'
<1> SUFFICES ASSUME NEW x \in Emails, Once(x)' PROVE Single(x)'
  BY DEF MoneyInv
<1>1. /\ list' = [list EXCEPT ![p] = T!Expired] /\ starts' = [starts EXCEPT ![p] = @ + 1]
      /\ T!Goto(p, IF T!Expired = {} THEN "extract" ELSE "lookup") /\ pc[p] = "off"
      /\ UNCHANGED <<rows, booked, counted, held, torn>>
      /\ overlap' = overlap \cup {r.ext : r \in {s \in T!Expired : T!Held(s)}}
  BY DEF T!Begin, T!storeVars, T!ledgerVars, T!boundVars
<1>2. Turns(p, IF T!Expired = {} THEN "extract" ELSE "lookup")
  BY <1>1, GotoTurns DEF Points, StoreInv
<1>3. /\ list'[p] = T!Expired /\ held[p] = NoRow /\ starts[p] \in Nat /\ starts'[p] = starts[p] + 1
      /\ \A y \in Emails \ {p} : list'[y] = list[y] /\ starts'[y] = starts[y] /\ pc'[y] = pc[y]
  BY <1>1, <1>2 DEF StoreInv, BookTypes, Control, ControlOf, Turns
<1>4. Once(x) /\ Single(x)
  <2>1. Once(x)
    BY <1>1, <1>3, OnceBefore
  <2> QED
    BY <2>1 DEF MoneyInv
<1>5. \A r \in T!Expired : r \in rows /\ r.old
  BY DEF T!Expired
<1>6. Fresh(x)' => (Fresh(x) /\ counted'[x] = 0) \/ (x # p /\ Fresh(x))
  <2>1. CASE x = p
    <3>1. starts[p] = 0
      BY <1>3, <2>1 DEF Once
    <3> QED
      BY <1>1, <1>4, <2>1, <3>1 DEF Fresh, Single, Unsettled
  <2>2. CASE x # p
    BY <1>3, <2>2 DEF Fresh
  <2> QED
    BY <2>1, <2>2
<1>7. \A y \in Emails : Holds(y, x)' <=> Holds(y, x)
  BY <1>1 DEF Holds
<1>8. \A y \in Emails : Lists(y, x)' => Lists(y, x) \/ (y = p /\ Waits(x))
  BY <1>3, <1>5 DEF Lists, Waits
<1>9. PICK i \in Nat : /\ \A r \in rows : r.ext = x => r.id = i
                       /\ \A y \in Emails : \A r \in list[y] : r.ext = x => r.id = i
                       /\ \A y \in Emails : Holds(y, x) => held[y].id = i
  BY <1>4 DEF Single, OneLeg
<1>10. ASSUME NEW y \in Emails, Holds(y, x) PROVE ~Lists(p, x)'
  <2>1. SUFFICES ASSUME NEW r \in T!Expired, r.ext = x PROVE FALSE
    BY <1>3 DEF Lists
  <2>2. T!Held(r)
    BY <1>5, <1>9, <1>10, <2>1 DEF T!Held, Holds
  <2> QED
    BY <1>1, <2>1, <2>2 DEF Once
<1>11. Unsettled(x)'
  <2> SUFFICES ASSUME Fresh(x)'
      PROVE  /\ ~Waits(x)' /\ \A y \in Emails : ~Lists(y, x)' /\ ~Holds(y, x)'
             /\ counted'[x] = 0 \/ (pc'[x] = "delete" /\ list'[x] = {})
    BY DEF Unsettled
  <2>1. Fresh(x) /\ ~Waits(x) /\ \A y \in Emails : ~Lists(y, x) /\ ~Holds(y, x)
    BY <1>4, <1>6 DEF Single, Unsettled
  <2>2. ~Waits(x)'
    BY <1>1, <2>1 DEF Waits
  <2>3. counted'[x] = 0 \/ (pc'[x] = "delete" /\ list'[x] = {})
    BY <1>1, <1>3, <1>4, <1>6, <2>1 DEF Single, Unsettled
  <2> QED
    BY <1>7, <1>8, <2>1, <2>2, <2>3
<1>12. OneLeg(x)'
  <2>1. \A y \in Emails : \A r \in list'[y] : r.ext = x => r.id = i
    BY <1>3, <1>5, <1>9
  <2>2. \A y \in Emails : Holds(y, x)' => held'[y].id = i
    BY <1>1, <1>7, <1>9
  <2> QED
    BY <1>1, <1>9, <2>1, <2>2 DEF OneLeg
<1>13. HeldOnce(x)'
  <2>1. ASSUME NEW y \in Emails, Holds(y, x)'
        PROVE  /\ pc'[y] \in {"lookup", "post"} => counted'[x] = 0
               /\ \A z \in Emails : ~Lists(z, x)' /\ (z # y => ~Holds(z, x)')
    <3>1. Holds(y, x) /\ y # p
      BY <1>3, <1>7, <2>1 DEF Holds
    <3>2. \A z \in Emails : ~Lists(z, x) /\ (z # y => ~Holds(z, x))
      BY <1>4, <3>1 DEF Single, HeldOnce
    <3>3. \A z \in Emails \ {p} : Lists(z, x)' => Lists(z, x)
      BY <1>3 DEF Lists
    <3>4. pc'[y] \in {"lookup", "post"} => counted'[x] = 0
      BY <1>1, <1>3, <1>4, <3>1 DEF Single, HeldOnce
    <3> QED
      BY <1>7, <1>10, <3>1, <3>2, <3>3, <3>4
  <2> QED
    BY <2>1 DEF HeldOnce
<1>14. ListedAlone(x)'
  <2>1. ASSUME NEW z \in Emails, Lists(z, x)' PROVE counted[x] = booked[x]
    <3>1. CASE z # p
      BY <1>3, <1>4, <2>1, <3>1 DEF Single, ListedAlone, Lists
    <3>2. CASE z = p
      <4>1. \A y \in Emails : ~Holds(y, x)
        BY <1>10, <2>1, <3>2
      <4>2. PICK r \in rows : r.ext = x
        BY <1>3, <1>5, <2>1, <3>2 DEF Lists
      <4> QED
        BY <1>4, <4>1, <4>2 DEF Single, WaitsAlone
    <3> QED
      BY <3>1, <3>2
  <2> QED
    BY <1>1, <2>1 DEF ListedAlone
<1>15. WaitsAlone(x)'
  <2>1. \A y \in Emails : Holds(y, x) /\ pc[y] = "delete" => Holds(y, x)' /\ pc'[y] = "delete"
    BY <1>1, <1>3, <1>7
  <2> QED
    BY <1>1, <1>4, <2>1 DEF Single, WaitsAlone
<1>16. counted'[x] <= 1 /\ (pc'[x] # "off" => starts'[x] > 0)
  BY <1>1, <1>3, <1>4 DEF Single
<1> QED
  BY <1>11, <1>12, <1>13, <1>14, <1>15, <1>16 DEF Single

\* A run that is over holds nothing; a leg it leaves behind is torn, or not counted.
LEMMA EndKeepsMoney ==
  ASSUME StoreInv, MoneyInv, NEW p \in Emails, T!Kill(p) \/ \E ok \in BOOLEAN : T!End(p, ok)
  PROVE  MoneyInv'
<1> SUFFICES ASSUME NEW x \in Emails, Once(x)' PROVE Single(x)'
  BY DEF MoneyInv
<1>1. /\ T!Clear(p) /\ UNCHANGED <<rows, booked, counted, starts, overlap>> /\ pc[p] # "off"
      /\ (torn' = torn /\ pc[p] # "delete") \/ torn' = T!Torn(p)
  BY DEF T!Kill, T!End, T!storeVars, T!ledgerVars, T!historyVars
<1>2. /\ Turns(p, "off") /\ list' = [list EXCEPT ![p] = {}]
      /\ reading' = [reading EXCEPT ![p] = "none"] /\ held' = [held EXCEPT ![p] = NoRow]
  BY <1>1, GotoTurns DEF T!Clear, Points, StoreInv
<1>3. /\ list'[p] = {} /\ held'[p] = NoRow /\ pc'[p] = "off"
      /\ Apart(p)
  BY <1>2 DEF StoreInv, BookTypes, Turns, Apart
<1>4. Once(x) /\ Single(x)
  <2>1. torn \subseteq torn'
    BY <1>1, ExtFacts DEF StoreInv
  <2> QED
    BY <1>1, <2>1, OnceBefore DEF MoneyInv
<1>5. Holds(p, x) /\ pc[p] = "delete" => counted[x] = 0 \/ \A r \in rows : r.ext # x
  BY <1>1, <1>4, TornFacts DEF Single, Once
<1>6. p = x /\ Fresh(x)' => Fresh(x) /\ counted[x] = 0
  BY <1>1, <1>3, <1>4 DEF Fresh, Single
<1> QED
  BY <1>1, <1>3, <1>4, <1>5, <1>6, SingleKept DEF Holds

\* The counterpart a run takes is held by none, or it is an overlap, and flushed by none.
LEMMA TakeKeepsMoney ==
  ASSUME StoreInv, NEW p \in Emails, NEW x \in Emails, Single(x), NEW row \in rows, ~row.old,
         pc[p] = "extract", UNCHANGED <<rows, booked, counted, list, starts>>,
         held[p] = NoRow, held' = [held EXCEPT ![p] = row], Turns(p, "lookup"),
         overlap' = IF T!Held(row) THEN overlap \cup {row.ext} ELSE overlap, x \notin overlap'
  PROVE  Single(x)'
<1>1. /\ held'[p] = row /\ row # NoRow /\ \A y \in Emails \ {p} : held'[y] = held[y]
      /\ pc'[p] = "lookup" /\ \A y \in Emails \ {p} : pc'[y] = pc[y]
  BY RowFacts DEF StoreInv, BookTypes, Turns
<1>2. PICK i \in Nat : /\ \A r \in rows : r.ext = x => r.id = i
                       /\ \A y \in Emails : \A r \in list[y] : r.ext = x => r.id = i
                       /\ \A y \in Emails : Holds(y, x) => held[y].id = i
  BY DEF Single, OneLeg
<1>3. /\ \A y \in Emails : Lists(y, x)' <=> Lists(y, x)
      /\ Waits(x)' <=> Waits(x)
      /\ \A y \in Emails \ {p} : Holds(y, x)' <=> Holds(y, x)
      /\ ~Holds(p, x) /\ (Holds(p, x)' <=> row.ext = x)
  BY <1>1 DEF Lists, Waits, Holds
<1>4. row.ext = x =>
        /\ \A y \in Emails : ~Holds(y, x) /\ ~Lists(y, x)
        /\ counted[x] = 0 /\ ~Fresh(x)
  <2> SUFFICES ASSUME row.ext = x
      PROVE  /\ \A y \in Emails : ~Holds(y, x) /\ ~Lists(y, x)
             /\ counted[x] = 0 /\ ~Fresh(x)
    OBVIOUS
  <2>1. ASSUME NEW y \in Emails, Holds(y, x) PROVE FALSE
    <3>1. T!Held(row)
      BY <1>2, <2>1 DEF T!Held, Holds
    <3> QED
      BY <3>1
  <2>2. ASSUME NEW y \in Emails, NEW r \in list[y], r.ext = x PROVE FALSE
    <3>1. r.id = row.id
      BY <1>2, <2>2
    <3> QED
      BY <3>1 DEF StoreInv, Store
  <2>3. counted[x] = 0
    BY <2>1 DEF Single, WaitsAlone
  <2>4. ~Fresh(x)
    BY DEF Single, Unsettled, Waits
  <2> QED
    BY <2>1, <2>2, <2>3, <2>4 DEF Lists
<1>5. Fresh(x)' <=> Fresh(x)
  BY <1>1 DEF Fresh
<1>6. Unsettled(x)'
  BY <1>1, <1>3, <1>4, <1>5 DEF Single, Unsettled
<1>7. OneLeg(x)'
  <2>1. \A y \in Emails : Holds(y, x)' => held'[y].id = i
    BY <1>1, <1>2, <1>3
  <2> QED
    BY <1>2, <2>1 DEF OneLeg
<1>8. HeldOnce(x)'
  <2>1. ASSUME NEW y \in Emails, Holds(y, x)'
        PROVE  /\ pc'[y] \in {"lookup", "post"} => counted'[x] = 0
               /\ \A z \in Emails : ~Lists(z, x)' /\ (z # y => ~Holds(z, x)')
    <3>1. CASE row.ext = x
      BY <1>3, <1>4, <2>1, <3>1
    <3>2. CASE row.ext # x
      BY <1>1, <1>3, <2>1, <3>2 DEF Single, HeldOnce
    <3> QED
      BY <3>1, <3>2
  <2> QED
    BY <2>1 DEF HeldOnce
<1>9. ListedAlone(x)'
  BY <1>3 DEF Single, ListedAlone
<1>10. WaitsAlone(x)'
  <2>1. \A y \in Emails : Holds(y, x) /\ pc[y] = "delete" => Holds(y, x)' /\ pc'[y] = "delete"
    BY <1>1, <1>3
  <2> QED
    BY <2>1 DEF Single, WaitsAlone
<1>11. counted'[x] <= 1 /\ (pc'[x] # "off" => starts'[x] > 0)
  BY <1>1 DEF Single
<1> QED
  BY <1>6, <1>7, <1>8, <1>9, <1>10, <1>11 DEF Single

LEMMA ExtractKeepsMoney ==
  ASSUME StoreInv, MoneyInv, NEW p \in Emails,
         T!ExtractFails(p) \/ T!Skip(p) \/ T!TakeRegular(p) \/ \E leg \in T!Legs : T!TakeLeg(p, leg)
  PROVE  MoneyInv'
<1> SUFFICES ASSUME NEW x \in Emails, Once(x)' PROVE Single(x)'
  BY DEF MoneyInv
<1>1. /\ pc[p] = "extract" /\ list[p] = {} /\ held[p] = NoRow
      /\ UNCHANGED <<rows, serial, booked, counted, list, starts, dropped>>
      /\ \A y \in Emails \ {p} : reading'[y] = reading[y] /\ held'[y] = held[y]
      /\ torn' = torn \/ torn' = T!Torn(p)
      /\ \/ held' = held /\ overlap' = overlap
             /\ \/ Turns(p, "failed") \/ Turns(p, "succeeded")
                \/ Turns(p, "lookup")
                \/ Turns(p, "insert") /\ reading'[p] \in T!Legs
         \/ \E r \in rows : /\ ~r.old /\ held' = [held EXCEPT ![p] = r] /\ Turns(p, "lookup")
                            /\ overlap' = IF T!Held(r) THEN overlap \cup {r.ext} ELSE overlap
  BY ExtractEffects
<1>2. Once(x) /\ Single(x)
  <2>1. torn \subseteq torn' /\ overlap \subseteq overlap'
    BY <1>1, ExtFacts DEF StoreInv
  <2> QED
    BY <1>1, <2>1, OnceBefore DEF MoneyInv
<1>3. CASE held' = held /\ (Turns(p, "failed") \/ Turns(p, "succeeded") \/ Turns(p, "lookup")
                              \/ Turns(p, "insert"))
  <2>1. Apart(p)
    BY <1>1, <1>3 DEF Apart, Turns
  <2>2. p = x => Fresh(x) /\ counted[x] = 0
    BY <1>1, <1>2 DEF Fresh, Single, Unsettled
  <2> QED
    BY <1>1, <1>2, <1>3, <2>1, <2>2, SingleKept
<1>4. ASSUME NEW r \in rows, ~r.old, held' = [held EXCEPT ![p] = r], Turns(p, "lookup"),
             overlap' = IF T!Held(r) THEN overlap \cup {r.ext} ELSE overlap
      PROVE  Single(x)'
  <2>1. x \notin overlap'
    BY DEF Once
  <2> QED
    BY <1>1, <1>2, <1>4, <2>1, TakeKeepsMoney
<1> QED
  BY <1>1, <1>3, <1>4

LEMMA LookupKeepsMoney ==
  ASSUME StoreInv, MoneyInv, NEW p \in Emails, NEW o \in T!Outcome, T!Lookup(p, o)
  PROVE  MoneyInv'
<1> SUFFICES ASSUME NEW x \in Emails, Once(x)' PROVE Single(x)'
  BY DEF MoneyInv
<1>1. /\ pc[p] = "lookup"
      /\ UNCHANGED <<rows, serial, booked, counted, reading, held, starts, dropped>>
      /\ overlap \subseteq overlap'
      /\ \A y \in Emails \ {p} : list'[y] = list[y]
      /\ torn' = torn \/ torn' = T!Torn(p)
  BY LookupEffects
<1>2. /\ \A r \in list'[p] : r \in list[p]
      /\ \A y \in Emails \ {p} : pc'[y] = pc[y]
  BY LookupEffects DEF Turns
<1>3. Once(x) /\ Single(x)
  <2>1. torn \subseteq torn'
    BY <1>1, ExtFacts DEF StoreInv
  <2> QED
    BY <1>1, <2>1, OnceBefore DEF MoneyInv
<1>4. Apart(p)
  BY <1>1, <1>2 DEF Apart
<1>5. Holds(p, x) => counted[x] = 0
  BY <1>1, <1>3 DEF Single, HeldOnce
<1>6. p = x => Fresh(x) /\ counted[x] = 0
  BY <1>1, <1>3 DEF Fresh, Single, Unsettled
<1> QED
  BY <1>1, <1>2, <1>3, <1>4, <1>5, <1>6, SingleKept DEF Holds

\* A leg whose transfer is posted is deleted, or torn.
LEMMA DeleteKeepsMoney ==
  ASSUME StoreInv, MoneyInv, NEW p \in Emails, NEW o \in T!Outcome, T!Delete(p, o)
  PROVE  MoneyInv'
<1> SUFFICES ASSUME NEW x \in Emails, Once(x)' PROVE Single(x)'
  BY DEF MoneyInv
<1>1. /\ pc[p] = "delete"
      /\ list[p] = {} => held[p] # NoRow /\ Doomed(p) = held[p]
      /\ UNCHANGED <<booked, counted, reading, held, starts, overlap>>
      /\ rows' = IF o # "lost" THEN {r \in rows : r.id # Doomed(p).id} ELSE rows
      /\ \A y \in Emails \ {p} : list'[y] = list[y]
      /\ torn' = IF o = "lost" THEN T!Torn(p) ELSE torn
      /\ \/ list' = list /\ Turns(p, "failed") /\ o # "ok"
         \/ /\ list[p] # {} /\ (\A r \in list'[p] : r \in list[p]) /\ o = "ok"
            /\ Turns(p, IF list'[p] = {} THEN "extract" ELSE "lookup")
         \/ list' = list /\ Turns(p, "succeeded") /\ o = "ok" /\ list[p] = {}
  BY DeleteEffects
<1>2. Once(x) /\ Single(x)
  <2>1. torn \subseteq torn'
    BY <1>1, ExtFacts DEF StoreInv
  <2> QED
    BY <1>1, <2>1, OnceBefore DEF MoneyInv
<1>3. Apart(p) /\ (\A r \in list'[p] : r \in list[p]) /\ \A r \in rows' : r \in rows
  BY <1>1 DEF Apart, Turns
<1>4. list[p] # {} => held[p] = NoRow
  BY DEF StoreInv, Control, ControlOf
<1>5. Holds(p, x) => counted[x] = 0 \/ \A r \in rows' : r.ext # x
  <2> SUFFICES ASSUME Holds(p, x) PROVE counted[x] = 0 \/ \A r \in rows' : r.ext # x
    OBVIOUS
  <2>1. Doomed(p) = held[p]
    BY <1>1, <1>4 DEF Holds
  <2>2. CASE o = "lost"
    BY <1>1, <1>2, <2>2, TornFacts DEF Single, Once
  <2>3. CASE o # "lost"
    BY <1>1, <1>2, <2>1, <2>3 DEF Single, OneLeg
  <2> QED
    BY <2>2, <2>3
<1>6. p = x /\ Fresh(x)' => Fresh(x) /\ counted[x] = 0
  <2> SUFFICES ASSUME p = x, Fresh(x)' PROVE Fresh(x) /\ counted[x] = 0
    OBVIOUS
  <2>1. Fresh(x) /\ starts[x] > 0 /\ starts'[x] = starts[x] /\ starts[x] \in Nat
    BY <1>1, <1>2 DEF Fresh, Single, StoreInv, BookTypes
  <2>2. pc'[x] \notin {"failed", "succeeded"}
    BY <2>1 DEF Fresh
  <2>3. list[x] # {}
    BY <1>1, <2>2 DEF Turns
  <2> QED
    BY <1>2, <2>1, <2>3 DEF Single, Unsettled
<1>7. held'[p] # NoRow => pc'[p] \notin {"lookup", "post"}
  BY <1>1, <1>4 DEF Turns
<1> QED
  BY <1>1, <1>2, <1>3, <1>5, <1>6, <1>7, SingleKept DEF Holds

\* The leg that a run leaves to wait is the only one of its email, which is not counted.
LEMMA InsertKeepsMoney ==
  ASSUME StoreInv, MoneyInv, NEW p \in Emails, NEW o \in T!Outcome, T!Insert(p, o)
  PROVE  MoneyInv'
<1> SUFFICES ASSUME NEW x \in Emails, Once(x)' PROVE Single(x)'
  BY DEF MoneyInv
<1>1. /\ pc[p] = "insert" /\ list[p] = {} /\ held[p] = NoRow
      /\ UNCHANGED <<booked, counted, reading, held, list, starts, overlap>> /\ torn' = torn
      /\ \/ rows' = rows
         \/ \E r \in T!Row : /\ r.id = serial + 1 /\ r.ext = p /\ ~r.old
                             /\ rows' = rows \cup {r}
      /\ Turns(p, "failed") \/ Turns(p, "succeeded")
  BY InsertEffects
<1>2. Once(x) /\ Single(x)
  BY <1>1, OnceBefore DEF MoneyInv
<1>3. Apart(p)
  BY <1>1 DEF Apart, Turns
<1>4. p = x => Fresh(x) /\ counted[x] = 0 /\ ~Fresh(x)'
  BY <1>1, <1>2 DEF Fresh, Single, Unsettled, Turns
<1>5. CASE p # x \/ rows' = rows
  <2>1. \A r \in rows' : r.ext = x => r \in rows
    BY <1>1, <1>5
  <2> QED
    BY <1>1, <1>2, <1>3, <1>4, <2>1, SingleKept
<1>6. CASE p = x /\ rows' # rows
  <2>1. PICK row \in T!Row : /\ row.id = serial + 1 /\ row.ext = p /\ ~row.old
                             /\ rows' = rows \cup {row}
    BY <1>1, <1>6
  <2>2. ~Waits(x) /\ \A y \in Emails : ~Lists(y, x) /\ ~Holds(y, x)
    BY <1>2, <1>4, <1>6 DEF Single, Unsettled
  <2>3. /\ \A y \in Emails : ~Lists(y, x)' /\ ~Holds(y, x)'
        /\ \A r \in rows' : r.ext = x => r = row
    BY <1>1, <2>1, <2>2 DEF Lists, Holds, Waits
  <2>4. counted[x] = 0 /\ booked[x] = 0
    BY <1>4, <1>6 DEF StoreInv, BookTypes, Ledger
  <2>5. OneLeg(x)'
    <3>1. row.id \in Nat
      BY RowFacts
    <3> QED
      BY <2>3, <3>1 DEF OneLeg, Lists
  <2>6. counted'[x] <= 1 /\ (pc'[x] # "off" => starts'[x] > 0)
    BY <1>1, <1>2, <1>6 DEF Single
  <2>7. Unsettled(x)' /\ HeldOnce(x)' /\ ListedAlone(x)' /\ WaitsAlone(x)'
    BY <1>1, <1>4, <1>6, <2>3, <2>4 DEF Unsettled, HeldOnce, ListedAlone, WaitsAlone
  <2> QED
    BY <2>5, <2>6, <2>7 DEF Single
<1> QED
  BY <1>5, <1>6

\* A post for email e as it changes the ledger: e, and what the process joins, count more.
LEMMA Booked ==
  ASSUME StoreInv, NEW p \in Emails, NEW o \in T!Outcome, T!Post(p, o), o # "lost", NEW x \in Emails
  PROVE  /\ x = T!Ext(p) => booked'[x] = booked[x] + 1 /\ counted'[x] = counted[x] + 1
         /\ x # T!Ext(p) => booked'[x] = booked[x]
         /\ x # T!Ext(p) /\ list[p] = {} /\ Holds(p, x) => counted'[x] = counted[x] + 1
         /\ x # T!Ext(p) /\ ~(list[p] = {} /\ Holds(p, x)) => counted'[x] = counted[x]
<1>1. /\ booked' = [booked EXCEPT ![T!Ext(p)] = @ + 1]
      /\ counted' = [y \in Emails |-> IF y \in T!Money(p) THEN counted[y] + 1 ELSE counted[y]]
  BY PostEffects
<1>2. x \in T!Money(p) <=> x = T!Ext(p) \/ (list[p] = {} /\ Holds(p, x))
  BY DEF T!Money, T!Joined, T!Draining, Holds
<1> QED
  BY <1>1, <1>2, ExtFacts DEF StoreInv, BookTypes

\* A leg that is flushed: its lookup holds, and it is in no transfer.
LEMMA FlushKeepsSingle ==
  ASSUME StoreInv, BookingInv, NEW p \in Emails, NEW x \in Emails, Single(x), x \notin overlap,
         NEW o \in T!Outcome, T!Post(p, o), o # "lost", list[p] # {}, T!Ext(p) = x
  PROVE  Single(x)'
<1> DEFINE leg == T!Oldest(list[p])
<1>1. leg \in list[p] /\ leg.ext = x /\ Lists(p, x)
  BY ExtFacts DEF StoreInv, Lists
<1> HIDE DEF leg
<1>2. booked[x] = 0 /\ counted[x] = 0
  <2>1. booked[x] = 0
    BY DEF BookingInv, LookupHolds, Posting, T!Post
  <2> QED
    BY <1>1, <2>1 DEF Single, ListedAlone
<1>3. booked'[x] = 1 /\ counted'[x] = 1
  BY <1>2, Booked
<1>4. ~Fresh(x) /\ \A y \in Emails : ~Holds(y, x)
  BY <1>1 DEF Single, Unsettled, HeldOnce
<1>5. /\ UNCHANGED <<rows, held, starts>> /\ pc[p] = "post"
      /\ \A y \in Emails \ {p} : list'[y] = list[y]
  BY PostEffects
<1>6. /\ \A r \in list'[p] : r \in list[p] \/ list' = list
      /\ \A y \in Emails \ {p} : pc'[y] = pc[y]
  BY PostEffects DEF Turns
<1>7. \A y \in Emails : /\ ~Holds(y, x)' /\ (Lists(y, x)' => Lists(y, x))
                        /\ \A r \in list'[y] : r \in list[y]
  BY <1>4, <1>5, <1>6 DEF Holds, Lists
<1>8. \A r \in rows : r.ext = x => r.old
  <2>1. \A r \in rows : r.ext = x => r.id = leg.id
    BY <1>1 DEF Single, OneLeg
  <2> QED
    BY <1>1, <2>1 DEF StoreInv, Store
<1>9. OneLeg(x)'
  <2>1. PICK i \in Nat : /\ \A r \in rows : r.ext = x => r.id = i
                         /\ \A y \in Emails : \A r \in list[y] : r.ext = x => r.id = i
    BY DEF Single, OneLeg
  <2>2. \A y \in Emails : \A r \in list'[y] : r.ext = x => r.id = i
    BY <1>7, <2>1
  <2> QED
    BY <1>5, <1>7, <2>1, <2>2 DEF OneLeg
<1>10. ~Fresh(x)' /\ (pc'[x] # "off" => starts'[x] > 0)
  <2>1. x # p /\ pc'[x] = pc[x]
    BY <1>4, <1>5, <1>6 DEF Fresh
  <2> QED
    BY <1>4, <1>5, <2>1 DEF Fresh, Single
<1>11. Unsettled(x)' /\ HeldOnce(x)' /\ ListedAlone(x)' /\ WaitsAlone(x)'
  BY <1>3, <1>5, <1>7, <1>8, <1>10 DEF Unsettled, HeldOnce, ListedAlone, WaitsAlone
<1> QED
  BY <1>3, <1>9, <1>10, <1>11 DEF Single

\* The run of x posts the transaction of its email: no leg of it ever waited.
LEMMA OwnPostKeepsSingle ==
  ASSUME StoreInv, NEW x \in Emails, Single(x),
         NEW o \in T!Outcome, T!Post(x, o), o # "lost", list[x] = {}
  PROVE  Single(x)'
<1>1. /\ UNCHANGED <<rows, held, starts>> /\ pc[x] = "post" /\ list' = list
      /\ pc'[x] \in {"delete", "succeeded", "failed"}
  BY PostEffects DEF Turns
<1>2. /\ ~Waits(x) /\ \A y \in Emails : ~Lists(y, x) /\ ~Holds(y, x)
      /\ counted[x] = 0
  BY <1>1 DEF Single, Unsettled, Fresh
<1>3. counted'[x] = 1
  BY <1>2, Booked, ExtFacts DEF StoreInv
<1>4. ~Waits(x)' /\ \A y \in Emails : ~Lists(y, x)' /\ ~Holds(y, x)'
  BY <1>1, <1>2 DEF Waits, Lists, Holds
<1>5. starts[x] > 0 /\ starts'[x] > 0 /\ starts[x] \in Nat
  BY <1>1 DEF Single, StoreInv, BookTypes
<1>6. Unsettled(x)'
  BY <1>1, <1>4, <1>5 DEF Unsettled, Fresh
<1>7. OneLeg(x)'
  <2>1. /\ \A r \in rows' : r.ext = x => r.id = 0
        /\ \A y \in Emails : \A r \in list'[y] : r.ext = x => r.id = 0
    BY <1>4 DEF Waits, Lists
  <2> QED
    BY <1>4, <2>1 DEF OneLeg
<1>8. HeldOnce(x)' /\ ListedAlone(x)' /\ WaitsAlone(x)'
  BY <1>4 DEF HeldOnce, ListedAlone, WaitsAlone, Waits
<1> QED
  BY <1>3, <1>5, <1>6, <1>7, <1>8 DEF Single

\* A transfer is posted: the leg that the process holds, and no other does, is in it, and is
\* about to be deleted.
LEMMA JoinKeepsSingle ==
  ASSUME StoreInv, NEW p \in Emails, NEW x \in Emails, Single(x), x # p, Holds(p, x),
         NEW o \in T!Outcome, T!Post(p, o), o # "lost", list[p] = {}, x \notin torn'
  PROVE  Single(x)'
<1>1. /\ UNCHANGED <<rows, held, starts>> /\ pc[p] = "post" /\ list' = list
  BY PostEffects
<1>2. o = "ok" /\ pc'[p] = "delete" /\ \A y \in Emails \ {p} : pc'[y] = pc[y]
  <2>1. T!Joined(p) = {x} /\ held[p] # NoRow
    BY DEF T!Joined, T!Draining, Holds
  <2>2. o \in {"ok", "unacked"}
    BY DEF T!Outcome
  <2>3. o # "unacked"
    BY <2>1, PostEffects
  <2> QED
    BY <2>1, <2>2, <2>3, PostEffects DEF Turns
<1>3. counted[x] = 0 /\ ~Fresh(x) /\ \A z \in Emails : ~Lists(z, x) /\ (z # p => ~Holds(z, x))
  BY <1>1 DEF Single, HeldOnce, Unsettled
<1>4. T!Ext(p) = p
  BY ExtFacts DEF StoreInv
<1>5. counted'[x] = 1
  BY <1>3, <1>4, Booked
<1>6. \A y \in Emails : (Holds(y, x)' <=> Holds(y, x)) /\ (Lists(y, x)' <=> Lists(y, x))
  BY <1>1 DEF Holds, Lists
<1>7. ~Fresh(x)' /\ (pc'[x] # "off" => starts'[x] > 0)
  BY <1>1, <1>2, <1>3 DEF Fresh, Single
<1>8. OneLeg(x)'
  BY <1>1, <1>6 DEF Single, OneLeg
<1>9. HeldOnce(x)'
  BY <1>2, <1>3, <1>6 DEF HeldOnce
<1>10. Unsettled(x)' /\ ListedAlone(x)'
  BY <1>3, <1>6, <1>7 DEF Unsettled, ListedAlone
<1>11. WaitsAlone(x)'
  BY <1>2, <1>6 DEF WaitsAlone
<1> QED
  BY <1>5, <1>7, <1>8, <1>9, <1>10, <1>11 DEF Single

LEMMA PostKeepsMoney ==
  ASSUME StoreInv, BookingInv, MoneyInv, NEW p \in Emails, NEW o \in T!Outcome, T!Post(p, o)
  PROVE  MoneyInv'
<1> SUFFICES ASSUME NEW x \in Emails, Once(x)' PROVE Single(x)'
  BY DEF MoneyInv
<1>1. /\ pc[p] = "post"
      /\ UNCHANGED <<rows, reading, held, starts, overlap>> /\ torn \subseteq torn'
      /\ \A y \in Emails \ {p} : list'[y] = list[y]
      /\ o = "lost" => booked' = booked /\ counted' = counted
  BY PostEffects
<1>2. /\ \A r \in list'[p] : r \in list[p]
      /\ \A y \in Emails \ {p} : pc'[y] = pc[y]
  BY PostEffects DEF Turns
<1>3. Once(x) /\ Single(x) /\ x \notin overlap /\ x \notin torn'
  BY <1>1, OnceBefore DEF MoneyInv, Once
<1>4. Apart(p)
  BY <1>1, <1>2 DEF Apart
<1>5. Holds(p, x) => counted[x] = 0
  BY <1>1, <1>3 DEF Single, HeldOnce
<1>6. p = x => Fresh(x) /\ counted[x] = 0
  BY <1>1, <1>3 DEF Fresh, Single, Unsettled
<1>7. CASE counted'[x] = counted[x] /\ booked'[x] = booked[x]
  BY <1>1, <1>2, <1>3, <1>4, <1>5, <1>6, <1>7, SingleKept DEF Holds
<1>8. CASE o # "lost" /\ list[p] # {} /\ T!Ext(p) = x
  BY <1>3, <1>8, FlushKeepsSingle
<1>9. CASE o # "lost" /\ list[p] = {} /\ T!Ext(p) = x
  <2>1. p = x
    BY <1>9, ExtFacts DEF StoreInv
  <2> QED
    BY <1>3, <1>9, <2>1, OwnPostKeepsSingle
<1>10. CASE o # "lost" /\ list[p] = {} /\ T!Ext(p) # x /\ Holds(p, x)
  <2>1. p # x
    BY <1>10, ExtFacts DEF StoreInv
  <2> QED
    BY <1>3, <1>10, <2>1, JoinKeepsSingle
<1>11. CASE o # "lost" /\ T!Ext(p) # x /\ ~(list[p] = {} /\ Holds(p, x))
  <2>1. counted'[x] = counted[x] /\ booked'[x] = booked[x]
    BY <1>11, Booked
  <2> QED
    BY <1>7, <2>1
<1> QED
  BY <1>1, <1>7, <1>8, <1>9, <1>10, <1>11

\* A leg that passes out of the window is as before, and is no longer matched.
LEMMA ExpireKeepsMoney ==
  ASSUME StoreInv, MoneyInv, NEW row \in rows, T!Expire(row)
  PROVE  MoneyInv'
<1> SUFFICES ASSUME NEW x \in Emails, Once(x)' PROVE Single(x)'
  BY DEF MoneyInv
<1>1. /\ rows' = (rows \ {row}) \cup {[row EXCEPT !.old = TRUE]}
      /\ UNCHANGED <<booked, counted, pc, list, held, starts, torn, overlap>>
  BY DEF T!Expire, T!ledgerVars, T!processVars, T!historyVars
<1>2. Once(x) /\ Single(x)
  BY <1>1, OnceBefore DEF MoneyInv
<1>3. row \in [id : Nat, ext : Emails, leg : T!Legs, old : BOOLEAN]
  BY DEF StoreInv, BookTypes, T!Row
<1>4. PICK aged : aged = [row EXCEPT !.old = TRUE]
  OBVIOUS
<1>5. aged.id = row.id /\ aged.ext = row.ext /\ aged.old
  BY <1>3, <1>4
<1>6. \A r \in rows' : \E s \in rows : r.id = s.id /\ r.ext = s.ext /\ (~r.old => ~s.old \/ r = s)
                                       /\ (r = s \/ r.old)
  BY <1>1, <1>4, <1>5
<1>7. /\ \A y \in Emails : (Holds(y, x)' <=> Holds(y, x)) /\ (Lists(y, x)' <=> Lists(y, x))
      /\ Waits(x)' => Waits(x)
      /\ Fresh(x)' <=> Fresh(x)
  BY <1>1, <1>6 DEF Holds, Lists, Waits, Fresh
<1>8. Unsettled(x)'
  BY <1>1, <1>2, <1>7 DEF Single, Unsettled
<1>9. OneLeg(x)'
  BY <1>1, <1>2, <1>6, <1>7 DEF Single, OneLeg
<1>10. HeldOnce(x)' /\ ListedAlone(x)'
  BY <1>1, <1>2, <1>7 DEF Single, HeldOnce, ListedAlone
<1>11. WaitsAlone(x)'
  <2>1. ASSUME NEW r \in rows', r.ext = x
        PROVE  \/ \E y \in Emails : Holds(y, x) /\ pc[y] = "delete"
               \/ counted[x] = booked[x] /\ (~r.old => counted[x] = 0)
    BY <1>2, <1>6, <2>1 DEF Single, WaitsAlone
  <2> QED
    BY <1>1, <1>7, <2>1 DEF WaitsAlone
<1>12. counted'[x] <= 1 /\ (pc'[x] # "off" => starts'[x] > 0)
  BY <1>1, <1>2 DEF Single
<1> QED
  BY <1>8, <1>9, <1>10, <1>11, <1>12 DEF Single

LEMMA StutterKeepsMoney ==
  ASSUME MoneyInv, UNCHANGED bookingVars
  PROVE  MoneyInv'
  BY DEF MoneyInv, bookingVars, Once, Single, Unsettled, OneLeg, HeldOnce, ListedAlone, WaitsAlone,
         Fresh, Lists, Holds, Waits

LEMMA MoneyInit == Init => MoneyInv
<1> SUFFICES ASSUME T!Init PROVE MoneyInv
  BY DEF Init
<1>1. /\ rows = {} /\ booked = [x \in Emails |-> 0] /\ counted = [x \in Emails |-> 0]
      /\ pc = [x \in Emails |-> "off"] /\ list = [x \in Emails |-> {}]
      /\ held = [x \in Emails |-> NoRow]
  BY DEF T!Init
<1> SUFFICES ASSUME NEW x \in Emails PROVE Single(x)
  BY DEF MoneyInv
<1>2. ~Waits(x) /\ \A y \in Emails : ~Lists(y, x) /\ ~Holds(y, x)
  BY <1>1 DEF Waits, Lists, Holds
<1>3. Unsettled(x) /\ HeldOnce(x) /\ ListedAlone(x) /\ WaitsAlone(x)
  BY <1>1, <1>2 DEF Unsettled, HeldOnce, ListedAlone, WaitsAlone
<1>4. OneLeg(x)
  <2>1. /\ \A r \in rows : r.ext = x => r.id = 0
        /\ \A y \in Emails : \A r \in list[y] : r.ext = x => r.id = 0
    BY <1>1
  <2> QED
    BY <1>2, <2>1 DEF OneLeg
<1> QED
  BY <1>1, <1>3, <1>4 DEF Single

LEMMA MoneyNext == StoreInv /\ BookingInv /\ MoneyInv /\ [Next]_vars => MoneyInv'
<1> SUFFICES ASSUME StoreInv, BookingInv, MoneyInv, [Next]_vars PROVE MoneyInv'
  OBVIOUS
<1>1. CASE Backfilling
  BY <1>1, StutterKeepsMoney DEF Backfilling
<1>2. CASE Commands
  BY <1>2, BeginKeepsMoney, EndKeepsMoney DEF Commands, Spawn, TimesOut, Answer
<1>3. CASE Outside
  BY <1>3, StutterKeepsMoney, ExpireKeepsMoney DEF Outside
<1>4. ASSUME NEW x \in Emails, Mailtx(x) PROVE MoneyInv'
  BY <1>4, ExtractKeepsMoney, LookupKeepsMoney, PostKeepsMoney, DeleteKeepsMoney, InsertKeepsMoney
     DEF Mailtx, T!Step
<1>5. CASE UNCHANGED vars
  BY <1>5, StutterKeepsMoney DEF vars
<1> QED
  BY <1>1, <1>2, <1>3, <1>4, <1>5 DEF Next

\* No email's money is booked both as a leg and in a transfer, or in two transfers, while
\* the email is read once, unless a run ended between posting the transfer and deleting the
\* leg, or two processes had the leg in hand at once.
THEOREM MoneyCountedOnce == Spec => []CountedOnce
<1>1. MoneyInv => CountedOnce
  BY DEF MoneyInv, Once, Single, CountedOnce, T!CountedOnce
<1>2. Init => StoreInv /\ BookingInv /\ MoneyInv
  BY StoreInit, BookingInit, MoneyInit
<1>3. StoreInv /\ BookingInv /\ MoneyInv /\ [Next]_vars => (StoreInv /\ BookingInv /\ MoneyInv)'
  BY StoreNext, BookingStep, MoneyNext
<1> QED
  BY <1>1, <1>2, <1>3, PTL DEF Spec

=============================================================================
