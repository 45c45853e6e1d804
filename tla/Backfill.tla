------------------------------ MODULE Backfill ------------------------------
(***************************************************************************)
(* mailmux backfill: one processor is run over the stored emails that a    *)
(* filter selects.  They are counted first and then read page by page, by  *)
(* id, while the daemon goes on inserting; each page is cut into chunks    *)
(* whose emails are executed together, each with its own retries.          *)
(*                                                                         *)
(* The table holds the ids that the filter selects, as far as they are     *)
(* committed.  The module is a component: an attempt (StartAttempt,        *)
(* EndAttempt) is joined with a run of the processor by the module that    *)
(* uses it.                                                                *)
(***************************************************************************)
EXTENDS Naturals, FiniteSets, FiniteSetsExt

CONSTANTS Emails,        \* ids of emails
          Limit,         \* --limit (Cardinality(Emails) or more: none)
          PageSize,      \* PAGE_SIZE
          Concurrency,   \* emails of a chunk
          MaxRetries,    \* max_retries
          FailFast,      \* --fail-fast
          MaxDeletes     \* bound on emails deleted meanwhile

\* What the constants are (assumed by the module that uses the component).
BackfillConstants ==
  /\ Emails \subseteq Nat \ {0} /\ IsFiniteSet(Emails)
  /\ Limit \in Nat /\ PageSize \in Nat \ {0} /\ Concurrency \in Nat \ {0}
  /\ MaxRetries \in Nat /\ FailFast \in BOOLEAN /\ MaxDeletes \in Nat

VARIABLES
  table,                \* emails that the filter selects now
  point,                \* control point
  selected, remaining,  \* the count, and how much of it no page has covered
  lastId,               \* the last id read
  page, chunk,          \* emails of the page still to execute, emails under way
  status, tries,        \* of each email: its execution, attempts made
  succeeded, failed,    \* counters of the summary
  skipped,
  first,                \* history: the emails that were counted
  handed,               \* history: chunks each email was in
  drifted,              \* history: an email was committed below one that was counted
  broken,               \* history: the run ended with a fetch error
  deletes               \* what the bound has used up

counterVars == <<selected, remaining, succeeded, failed, skipped>>
workVars    == <<lastId, page, chunk, status, tries>>
historyVars == <<first, handed, drifted, broken>>
vars == <<table, point, counterVars, workVars, historyVars, deletes>>

Min2(a, b) == IF a < b THEN a ELSE b
Minus(a, b) == IF a > b THEN a - b ELSE 0    \* saturating_sub
Lowest(n, S) == {e \in S : Cardinality({d \in S : d < e}) < n}
Processed == succeeded + failed

-----------------------------------------------------------------------------
(* The daemon and the operator, meanwhile. *)

\* Transactions of several mailboxes commit in any order: ids do not appear in theirs.
Arrive(e) ==
  /\ e \in Emails \ table /\ handed[e] = 0 /\ e \notin first
  /\ table' = table \cup {e}
  /\ drifted' = (drifted \/ \E f \in first : e < f)
  /\ UNCHANGED <<point, counterVars, workVars, first, handed, broken, deletes>>

Remove(e) ==
  /\ e \in table /\ deletes < MaxDeletes /\ deletes' = deletes + 1
  /\ table' = table \ {e}
  /\ UNCHANGED <<point, counterVars, workVars, historyVars>>

-----------------------------------------------------------------------------
(* An invocation. *)

\* The rows that every predicate of the filter selects: the table is modelled as these.
Matching == table

\* run, up to the loop: the count, capped by --limit.  (A dry run ends here.)
Count ==
  /\ point = "start"
  /\ selected' = Min2(Limit, Cardinality(Matching)) /\ remaining' = selected'
  /\ first' = Lowest(selected', Matching)
  /\ point' = IF selected' = 0 THEN "ended" ELSE "fetch"
  /\ UNCHANGED <<table, succeeded, failed, skipped, workVars, handed, drifted, broken, deletes>>

\* The rows of the next page.  Mutants: those from the last id on, or the newest ones.
PageFrom == Lowest(Min2(PageSize, remaining), {e \in Matching : e >= lastId})
PageNewest ==
  LET S == {e \in Matching : e > lastId}
  IN  {e \in S : Cardinality({d \in S : d > e}) < Min2(PageSize, remaining)}
Page == Lowest(Min2(PageSize, remaining), {e \in Matching : e > lastId})

StartChunk(S) ==
  LET now == Lowest(Concurrency, S) IN
  /\ chunk' = now /\ page' = S \ now
  /\ status' = [e \in Emails |-> IF e \in now THEN "wait" ELSE "none"]
  /\ tries' = [e \in Emails |-> 0]
  /\ handed' = [e \in Emails |-> IF e \in now THEN handed[e] + 1 ELSE handed[e]]

FetchPage ==
  /\ point = "fetch" /\ Page # {}
  /\ point' = "chunk" /\ lastId' = Max(Page)
  /\ remaining' = Minus(remaining, Cardinality(Page))
  /\ StartChunk(Page)
  /\ UNCHANGED <<table, selected, succeeded, failed, skipped, first, drifted, broken, deletes>>

\* Where an empty page leads.  Mutant: the loop goes on as long as something remains.
AfterEmptyLoop == "fetch"
AfterEmpty == "ended"

\* No more rows than expected: the rest is skipped.
FetchEmpty ==
  /\ point = "fetch" /\ Page = {}
  /\ point' = AfterEmpty
  /\ skipped' = IF AfterEmpty = "ended" THEN skipped + remaining ELSE skipped
  /\ UNCHANGED <<table, selected, remaining, succeeded, failed, workVars, historyVars, deletes>>

FetchFails ==
  /\ point = "fetch"
  /\ point' = "ended" /\ broken' = TRUE
  /\ skipped' = Minus(selected, Processed)
  /\ UNCHANGED <<table, selected, remaining, succeeded, failed, workVars,
                 first, handed, drifted, deletes>>

StartAttempt(e) ==
  /\ point = "chunk" /\ e \in chunk /\ status[e] = "wait"
  /\ status' = [status EXCEPT ![e] = "running"]
  /\ tries' = [tries EXCEPT ![e] = @ + 1]
  /\ UNCHANGED <<table, point, counterVars, lastId, page, chunk, historyVars, deletes>>

\* May the email be tried again?  Mutant: with one attempt more.
RetriesLeftOneMore(e) == tries[e] <= MaxRetries + 1
RetriesLeft(e) == tries[e] <= MaxRetries

\* An attempt ends: with success, with a failure that is retried after its delay, or for
\* good.
EndAttempt(e, ok) ==
  /\ point = "chunk" /\ status[e] = "running"
  /\ status' = [status EXCEPT ![e] = IF ok THEN "succeeded"
                                     ELSE IF RetriesLeft(e) THEN "wait" ELSE "failed"]
  /\ UNCHANGED <<table, point, counterVars, lastId, page, chunk, tries, historyVars, deletes>>

With(s) == {e \in chunk : status[e] = s}

\* What --fail-fast adds to skipped.  Mutant: what no page has covered.
NotProcessedPages == remaining
NotProcessed == Minus(selected, succeeded' + failed')

\* Every email of the chunk is done: count them, then stop, go on, or fetch again.
EndChunk ==
  LET stop == FailFast /\ With("failed") # {} IN
  /\ point = "chunk" /\ chunk = With("succeeded") \cup With("failed")
  /\ succeeded' = succeeded + Cardinality(With("succeeded"))
  /\ failed' = failed + Cardinality(With("failed"))
  /\ skipped' = IF stop THEN NotProcessed ELSE skipped
  /\ point' = CASE stop -> "ended"
                [] ~stop /\ page # {} -> "chunk"
                [] OTHER -> IF remaining = 0 THEN "ended" ELSE "fetch"
  /\ IF ~stop /\ page # {} THEN StartChunk(page)
     ELSE chunk' = {} /\ page' = {} /\ UNCHANGED <<status, tries, handed>>
  /\ UNCHANGED <<table, selected, remaining, lastId, first, drifted, broken, deletes>>

Init ==
  /\ table = {} /\ point = "start"
  /\ selected = 0 /\ remaining = 0 /\ lastId = 0 /\ page = {} /\ chunk = {}
  /\ status = [e \in Emails |-> "none"] /\ tries = [e \in Emails |-> 0]
  /\ succeeded = 0 /\ failed = 0 /\ skipped = 0
  /\ first = {} /\ handed = [e \in Emails |-> 0] /\ drifted = FALSE /\ broken = FALSE
  /\ deletes = 0

Environment == \E e \in Emails : Arrive(e) \/ Remove(e)
Loop == Count \/ FetchPage \/ FetchEmpty \/ EndChunk

-----------------------------------------------------------------------------
(* Properties. *)

TypeOK ==
  /\ table \subseteq Emails /\ point \in {"start", "fetch", "chunk", "ended"}
  /\ {selected, remaining, succeeded, failed, skipped} \subseteq 0..Cardinality(Emails)
  /\ lastId \in Emails \cup {0}
  /\ page \subseteq Emails /\ chunk \subseteq Emails
  /\ status \in [Emails -> {"none", "wait", "running", "succeeded", "failed"}]
  /\ tries \in [Emails -> 0..(MaxRetries + 1)]
  /\ first \subseteq Emails /\ handed \in [Emails -> Nat]
  /\ drifted \in BOOLEAN /\ broken \in BOOLEAN
  /\ deletes \in 0..MaxDeletes

\* One run hands no email to the processor twice, and no more emails than it selected,
\* whatever is inserted or deleted between the pages.
OncePerRun ==
  /\ \A e \in Emails : handed[e] <= 1
  /\ point # "start" => Cardinality({e \in Emails : handed[e] > 0}) <= selected

\* When a run has ended its summary accounts for every selected email, on each of the
\* ways out of the loop.
SummaryAddsUp == point = "ended" => Processed + skipped = selected

\* A run that ended with nothing skipped, whatever failed, has processed every email it counted
\* that is still there, unless one with a lower id was committed after the count.
CountedProcessed ==
  point = "ended" /\ skipped = 0 /\ ~drifted =>
    \A e \in first \cap table : handed[e] > 0

\* A run comes to its end.
RunEnds == point = "fetch" ~> point = "ended"

=============================================================================
