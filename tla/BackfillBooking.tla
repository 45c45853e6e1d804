-------------------------- MODULE BackfillBooking --------------------------
(***************************************************************************)
(* mailmux backfill running the mailtx processor: an attempt of Backfill   *)
(* is a process of TransferBooking (CommandProcessor starts it, takes its  *)
(* exit status, and kills its process group at the timeout).               *)
(***************************************************************************)
EXTENDS Naturals

CONSTANTS Emails, Limit, PageSize, Concurrency, MaxRetries, FailFast, MaxDeletes,
          Readings, MaxFaults, MaxKills, NoRow

VARIABLES table, point, selected, remaining, lastId, page, chunk, status, tries,
          succeeded, failed, skipped, first, handed, drifted, broken, deletes,
          rows, serial, booked, counted, pc, list, reading, held, starts, owed, torn,
          dropped, overlap, faults, kills

B == INSTANCE Backfill
T == INSTANCE TransferBooking

ASSUME BackfillAssumption == B!BackfillConstants
ASSUME BookingAssumption == T!BookingConstants

backfillVars == <<table, point, selected, remaining, lastId, page, chunk, status, tries,
                  succeeded, failed, skipped, first, handed, drifted, broken, deletes>>
bookingVars == <<rows, serial, booked, counted, pc, list, reading, held, starts, owed, torn,
                 dropped, overlap, faults, kills>>
vars == <<backfillVars, bookingVars>>

\* CommandProcessor.process: the command is spawned with the email on its stdin.
Spawn(e) == B!StartAttempt(e) /\ T!Begin(e)

\* Its output and exit status are the result of the attempt.
Answer(e, ok) == T!End(e, ok) /\ B!EndAttempt(e, ok)

\* The timeout, which covers the write to stdin: the process group is killed.
TimesOut(e) == T!Kill(e) /\ B!EndAttempt(e, FALSE)

Init == B!Init /\ T!Init

Backfilling == B!Loop /\ UNCHANGED bookingVars
Mailtx(e) == T!Step(e) /\ UNCHANGED backfillVars
Commands == \E e \in Emails : Spawn(e) \/ TimesOut(e) \/ \E ok \in BOOLEAN : Answer(e, ok)
Outside == \/ (B!FetchFails \/ B!Environment) /\ UNCHANGED bookingVars
           \/ (\E row \in rows : T!Expire(row)) /\ UNCHANGED backfillVars

Next == Backfilling \/ Commands \/ Outside \/ \E e \in Emails : Mailtx(e)

\* Queries, requests and processes end: each attempt has its timeout.
Spec == Init /\ [][Next]_vars
FairSpec == /\ Spec /\ WF_vars(Backfilling) /\ WF_vars(Commands)
            /\ \A e \in Emails : WF_vars(Mailtx(e))

-----------------------------------------------------------------------------
(* The properties of the two components, of the composition. *)

\* Both components keep their types.
TypeOK == B!TypeOK /\ T!TypeOK

\* One run hands no email to mailtx twice, nor more than it selected.
OncePerRun == B!OncePerRun

\* The summary accounts for every selected email.
SummaryAddsUp == B!SummaryAddsUp

\* What was counted and is still there has been processed.
CountedProcessed == B!CountedProcessed

\* A run comes to its end.
RunEnds == B!RunEnds

\* No external id is booked twice, over retries, timeouts and flushes.
BookedOnce == T!BookedOnce

\* No money is booked twice while its email is read once.
CountedOnce == T!CountedOnce

\* What was reported as processed is booked or pending, or was dropped.
NothingLost == T!NothingLost

\* "nothing is silently lost".
NothingDropped == T!NothingDropped

=============================================================================
