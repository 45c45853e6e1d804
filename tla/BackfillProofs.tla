--------------------------- MODULE BackfillProofs ---------------------------
(***************************************************************************)
(* Theorems about one run of mailmux backfill, for any emails, limit, page *)
(* size and concurrency: what its pages hand to the processor, what its    *)
(* summary says, and what was counted and is processed.                    *)
(***************************************************************************)
EXTENDS BackfillBooking, FiniteSetTheorems, WellFoundedInduction, TLAPS

\* The operators of FiniteSets are those that Backfill sees.
LEMMA SameCardinality ==
  \A S : B!Cardinality(S) = Cardinality(S) /\ (B!IsFiniteSet(S) <=> IsFiniteSet(S))
  BY DEF B!Cardinality, Cardinality, B!IsFiniteSet, IsFiniteSet

-----------------------------------------------------------------------------
(* The lowest ids of a set, and its greatest. *)

\* A set of naturals has a least element.
LEMMA LeastNat ==
  ASSUME NEW S, S \subseteq Nat, S # {}
  PROVE  \E x \in S : \A y \in S : x <= y
<1> DEFINE R == OpToRel(<, Nat)
<1>1. \A x, y \in Nat : <<y, x>> \in R <=> y < x
  BY DEF OpToRel
<1>2. IsWellFoundedOn(R, Nat)
  BY NatLessThanWellFounded
<1> HIDE DEF R
<1>3. PICK x \in S : \A y \in S : ~(<<y, x>> \in R)
  BY <1>2, WFMin
<1>4. \A y \in S : x \in Nat /\ y \in Nat /\ ~(y < x)
  BY <1>1, <1>3
<1>5. \A y \in S : x <= y
  BY <1>4
<1> QED
  BY <1>5

\* The elements below one, or above it, are fewer than those below a greater one, or
\* above a lesser.
LEMMA FewerBelow ==
  ASSUME NEW S, IsFiniteSet(S), S \subseteq Nat, NEW x \in S, NEW y \in S, x < y
  PROVE  /\ Cardinality({z \in S : z < x}) < Cardinality({z \in S : z < y})
         /\ Cardinality({z \in S : z > y}) < Cardinality({z \in S : z > x})
<1> DEFINE Below(v) == {z \in S : z < v}
           Above(v) == {z \in S : z > v}
<1>1. \A v : /\ IsFiniteSet(Below(v)) /\ Cardinality(Below(v)) \in Nat
             /\ IsFiniteSet(Above(v)) /\ Cardinality(Above(v)) \in Nat
  BY FS_Subset, FS_CardinalityType, \A v : Below(v) \in SUBSET S /\ Above(v) \in SUBSET S
<1>0. x \in Nat /\ y \in Nat /\ \A z \in S : z \in Nat
  OBVIOUS
<1>2. x \in Below(y) /\ x \notin Below(x) /\ \A z \in Below(x) : z \in Below(y)
  BY <1>0
<1>3. y \in Above(x) /\ y \notin Above(y) /\ \A z \in Above(y) : z \in Above(x)
  BY <1>0
<1> HIDE DEF Below, Above
<1>4. Below(x) \in SUBSET Below(y) /\ Below(x) # Below(y)
  BY <1>2
<1>5. Above(y) \in SUBSET Above(x) /\ Above(x) # Above(y)
  BY <1>3
<1>6. Cardinality(Below(x)) < Cardinality(Below(y))
  BY <1>1, <1>4, FS_Subset
<1>7. Cardinality(Above(y)) < Cardinality(Above(x))
  BY <1>1, <1>5, FS_Subset
<1> QED
  BY <1>6, <1>7 DEF Below, Above

\* A finite set of ids has a greatest one.
LEMMA Greatest ==
  ASSUME NEW S, IsFiniteSet(S), S \subseteq Nat, S # {}
  PROVE  B!Max(S) \in S /\ \A y \in S : y <= B!Max(S)
<1> DEFINE Above(v) == Cardinality({z \in S : z > v})
<1>1. \A v : Above(v) \in Nat
  BY FS_Subset, FS_CardinalityType, \A v : {z \in S : z > v} \in SUBSET S
<1>2. \A x, y \in S : x < y => Above(y) < Above(x)
  BY FewerBelow
<1> HIDE DEF Above
<1> DEFINE N == {Above(x) : x \in S}
<1>3. N \subseteq Nat /\ N # {}
  BY <1>1
<1>4. \E n \in N : \A m \in N : n <= m
  BY <1>3, LeastNat
<1>5. PICK x \in S : \A y \in S : Above(x) <= Above(y)
  BY <1>4
<1>6. \A y \in S : x >= y
  BY <1>1, <1>2, <1>5
<1> QED
  BY <1>6 DEF B!Max

\* The n lowest ids: they are no more than n, and one below one of them is among them.
LEMMA LowestFacts ==
  ASSUME NEW n \in Nat, NEW S, IsFiniteSet(S), S \subseteq Nat
  PROVE  /\ B!Lowest(n, S) \subseteq S
         /\ IsFiniteSet(B!Lowest(n, S)) /\ Cardinality(B!Lowest(n, S)) \in Nat
         /\ Cardinality(B!Lowest(n, S)) <= n
         /\ \A e \in B!Lowest(n, S), d \in S : d <= e => d \in B!Lowest(n, S)
<1> DEFINE Rank(e) == Cardinality({d \in S : d < e})
           L == B!Lowest(n, S)
           rank == [e \in L |-> Rank(e)]
<1>1. \A e : Rank(e) \in Nat
  BY FS_Subset, FS_CardinalityType, \A e : {d \in S : d < e} \in SUBSET S
<1>2. \A d, e \in S : d < e => Rank(d) < Rank(e)
  BY FewerBelow
<1>3. L = {e \in S : Rank(e) < n}
  BY SameCardinality DEF B!Lowest
<1> HIDE DEF Rank, L
<1>4. L \subseteq S /\ IsFiniteSet(L) /\ Cardinality(L) \in Nat
  BY <1>3, FS_Subset, FS_CardinalityType
<1>5. rank \in [L -> 0..(n - 1)]
  BY <1>1, <1>3
<1>6. \A d, e \in L : rank[d] = rank[e] => d = e
  <2> SUFFICES ASSUME NEW d \in L, NEW e \in L, Rank(d) = Rank(e) PROVE d = e
    OBVIOUS
  <2>1. d \in Nat /\ e \in Nat
    BY <1>4
  <2> QED
    BY <1>1, <1>2, <1>4, <2>1
<1>7. rank \in Injection(L, 0..(n - 1))
  BY <1>5, <1>6 DEF Injection, IsInjective
<1>8. IsFiniteSet(0..(n - 1)) /\ Cardinality(0..(n - 1)) = n
  BY FS_Interval
<1>9. Cardinality(L) <= n
  BY <1>7, <1>8, FS_Injection
<1>10. \A e \in L, d \in S : d <= e => d \in L
  <2> SUFFICES ASSUME NEW e \in L, NEW d \in S, d <= e PROVE d \in L
    OBVIOUS
  <2>1. e \in S /\ Rank(e) < n
    BY <1>3
  <2>2. CASE d = e
    BY <2>2
  <2>3. CASE d < e
    BY <1>1, <1>2, <1>3, <2>1, <2>3
  <2> QED
    BY <2>1, <2>2, <2>3
<1> QED
  BY <1>4, <1>9, <1>10 DEF L

-----------------------------------------------------------------------------
(* The inductive invariant. *)

\* The emails that were handed to the processor.
Handed == {e \in Emails : handed[e] > 0}
Outcomes == {"none", "wait", "running", "succeeded", "failed"}

RunTypes ==
  /\ table \subseteq Emails /\ page \subseteq Emails /\ chunk \subseteq Emails
  /\ first \subseteq Emails
  /\ point \in {"start", "fetch", "chunk", "ended"}
  /\ selected \in Nat /\ remaining \in Nat /\ succeeded \in Nat /\ failed \in Nat
  /\ skipped \in Nat /\ lastId \in Emails \cup {0}
  /\ status \in [Emails -> Outcomes]
  /\ tries \in [Emails -> 0..(MaxRetries + 1)]
  /\ handed \in [Emails -> 0..1]
  /\ drifted \in BOOLEAN /\ broken \in BOOLEAN /\ deletes \in 0..MaxDeletes

\* What is handed out or read has been passed by lastId; a chunk has been handed out and
\* the page has not.
Passed ==
  /\ \A e \in Emails : handed[e] = 1 \/ e \in page => e <= lastId
  /\ \A e \in chunk : handed[e] = 1
  /\ \A e \in page : handed[e] = 0
  /\ point # "chunk" => page = {} /\ chunk = {}

\* An email that is to be tried again has an attempt left.
AttemptLeft == \A e \in Emails : status[e] = "wait" => tries[e] <= MaxRetries

\* The count is what was handed out, is in the page, or no page has covered; and what was
\* handed out is counted when its chunk is done.
Accounts ==
  /\ point = "start" =>
       Handed = {} /\ first = {} /\ succeeded = 0 /\ failed = 0 /\ skipped = 0 /\ selected = 0
         /\ remaining = 0 /\ lastId = 0
  /\ selected <= Cardinality(Emails)
  /\ point \in {"fetch", "chunk"} =>
       /\ selected = Cardinality(Handed) + Cardinality(page) + remaining
       /\ skipped = 0
  /\ point = "fetch" => remaining > 0
  /\ succeeded + failed + Cardinality(chunk) = Cardinality(Handed)
  /\ Cardinality(Handed) <= selected /\ remaining <= selected
  /\ point = "ended" => succeeded + failed + skipped = selected

\* The counted emails that were passed were read, unless the run stopped within a page; and unless an email was committed below
\* one of them, what was handed out or is still there comes after all of them or is counted.
Counted ==
  /\ Cardinality(first) <= selected
  /\ (point = "ended" => skipped = 0) =>
       \A e \in first : e \in table /\ e <= lastId => handed[e] = 1 \/ e \in page
  /\ ~drifted =>
       \A e \in first, f \in Emails :
         (f \in table \/ f \in page \/ handed[f] = 1) /\ f < e => f \in first

RunInv == RunTypes /\ Passed /\ AttemptLeft /\ Accounts /\ Counted

-----------------------------------------------------------------------------
(* Counting. *)

LEMMA Constants ==
  /\ IsFiniteSet(Emails) /\ Cardinality(Emails) \in Nat
  /\ \A e \in Emails : e \in Nat /\ e > 0
  /\ Limit \in Nat /\ PageSize \in Nat /\ Concurrency \in Nat /\ MaxRetries \in Nat
  /\ MaxDeletes \in Nat
<1>1. IsFiniteSet(Emails)
  BY BackfillAssumption, SameCardinality DEF B!BackfillConstants
<1> QED
  BY <1>1, FS_CardinalityType, BackfillAssumption DEF B!BackfillConstants

\* Sets of emails are finite.
LEMMA EmailSets ==
  ASSUME NEW S, S \subseteq Emails
  PROVE  /\ IsFiniteSet(S) /\ Cardinality(S) \in Nat
         /\ Cardinality(S) <= Cardinality(Emails)
         /\ S \subseteq Nat
<1>1. IsFiniteSet(S) /\ Cardinality(S) <= Cardinality(Emails)
  BY Constants, FS_Subset, S \in SUBSET Emails
<1>2. S \subseteq Nat
  BY Constants
<1> QED
  BY <1>1, <1>2, FS_CardinalityType

\* The sizes of two parts add up.
LEMMA Parts ==
  ASSUME NEW S, NEW R, S \subseteq Emails, R \subseteq Emails, \A e \in S : e \notin R
  PROVE  Cardinality(S \cup R) = Cardinality(S) + Cardinality(R)
<1>1. S \cap R = {}
  OBVIOUS
<1>2. Cardinality(S \cup R) = Cardinality(S) + Cardinality(R) - Cardinality(S \cap R)
  BY EmailSets, FS_Union
<1>3. Cardinality(S \cap R) = 0
  BY <1>1, FS_EmptySet
<1>4. Cardinality(S) \in Nat /\ Cardinality(R) \in Nat
  BY EmailSets
<1> QED
  BY <1>2, <1>3, <1>4

\* A chunk is taken off emails that were not handed out: the chunk is, the rest is not.
LEMMA StartChunkFacts ==
  ASSUME RunTypes, NEW S, S \subseteq Emails, \A e \in S : handed[e] = 0, B!StartChunk(S)
  PROVE  /\ chunk' \subseteq S /\ page' \subseteq S /\ chunk' \subseteq Emails
         /\ page' \subseteq Emails
         /\ \A e \in S : e \in page' <=> e \notin chunk'
         /\ handed' \in [Emails -> 0..1]
         /\ \A e \in Emails : handed'[e] = IF e \in chunk' THEN 1 ELSE handed[e]
         /\ Cardinality(Handed') = Cardinality(Handed) + Cardinality(chunk')
         /\ Cardinality(S) = Cardinality(page') + Cardinality(chunk')
         /\ status' \in [Emails -> Outcomes] /\ tries' \in [Emails -> 0..(MaxRetries + 1)]
         /\ AttemptLeft'
<1> DEFINE now == B!Lowest(Concurrency, S)
<1>1. now \subseteq S
  BY LowestFacts, EmailSets, Constants
<1>2. /\ chunk' = now /\ page' = S \ now
      /\ status' = [e \in Emails |-> IF e \in now THEN "wait" ELSE "none"]
      /\ tries' = [e \in Emails |-> 0]
      /\ handed' = [e \in Emails |-> IF e \in now THEN handed[e] + 1 ELSE handed[e]]
  BY DEF B!StartChunk
<1> HIDE DEF now
<1>3. chunk' \subseteq S /\ page' \subseteq S /\ chunk' \subseteq Emails /\ page' \subseteq Emails
  BY <1>1, <1>2
<1>4. \A e \in S : e \in page' <=> e \notin chunk'
  BY <1>2
<1>5. handed' \in [Emails -> 0..1]
      /\ \A e \in Emails : handed'[e] = IF e \in chunk' THEN 1 ELSE handed[e]
  BY <1>1, <1>2 DEF RunTypes
<1>6. Cardinality(Handed') = Cardinality(Handed) + Cardinality(chunk')
  <2>1. Handed' = Handed \cup chunk'
    BY <1>3, <1>5 DEF Handed, RunTypes
  <2>2. \A e \in Handed : e \notin chunk'
    BY <1>3 DEF Handed
  <2> QED
    BY <1>3, <2>1, <2>2, Parts DEF Handed
<1>7. Cardinality(S) = Cardinality(page') + Cardinality(chunk')
  <2>1. S = page' \cup chunk' /\ \A e \in page' : e \notin chunk'
    BY <1>3, <1>4
  <2> QED
    BY <1>3, <2>1, Parts
<1>8. status' \in [Emails -> Outcomes] /\ tries' \in [Emails -> 0..(MaxRetries + 1)]
      /\ AttemptLeft'
  BY <1>2, Constants DEF Outcomes, AttemptLeft
<1> QED
  BY <1>3, <1>4, <1>5, <1>6, <1>7, <1>8

-----------------------------------------------------------------------------
(* The steps of the daemon, of the operator, and of an attempt. *)

\* What an email arriving, or removed, leaves alone.
LEMMA EnvironmentKeepsInv ==
  ASSUME RunInv, B!Environment
  PROVE  RunInv'
<1>1. PICK e \in Emails : B!Arrive(e) \/ B!Remove(e)
  BY DEF B!Environment
<1>2. UNCHANGED <<point, selected, remaining, succeeded, failed, skipped, lastId, page, chunk,
                  status, tries, first, handed, broken>>
  BY <1>1 DEF B!Arrive, B!Remove, B!counterVars, B!workVars, B!historyVars
<1>3. Passed' /\ AttemptLeft' /\ Accounts'
  BY <1>2 DEF RunInv, Passed, AttemptLeft, Accounts, Handed
<1>4. CASE B!Arrive(e)
  <2>1. /\ table' = table \cup {e} /\ handed[e] = 0 /\ e \notin first /\ deletes' = deletes
        /\ drifted' = (drifted \/ \E f \in first : e < f)
    BY <1>4 DEF B!Arrive
  <2>2. RunTypes'
    BY <1>2, <2>1 DEF RunInv, RunTypes
  <2>3. Counted'
    BY <1>2, <2>1 DEF RunInv, RunTypes, Counted
  <2> QED
    BY <1>3, <2>2, <2>3 DEF RunInv
<1>5. CASE B!Remove(e)
  <2>1. /\ table' = table \ {e} /\ drifted' = drifted
        /\ deletes < MaxDeletes /\ deletes' = deletes + 1
    BY <1>5 DEF B!Remove, B!historyVars
  <2>2. RunTypes'
    BY <1>2, <2>1, Constants DEF RunInv, RunTypes
  <2>3. Counted'
    BY <1>2, <2>1 DEF RunInv, RunTypes, Counted
  <2> QED
    BY <1>3, <2>2, <2>3 DEF RunInv
<1> QED
  BY <1>1, <1>4, <1>5

\* An attempt changes only how the email fares.
LEMMA AttemptKeepsInv ==
  ASSUME RunInv, NEW e \in Emails,
         B!StartAttempt(e) \/ \E ok \in BOOLEAN : B!EndAttempt(e, ok)
  PROVE  RunInv'
<1>1. UNCHANGED <<table, point, selected, remaining, succeeded, failed, skipped, lastId, page,
                  chunk, first, handed, drifted, broken, deletes>>
  BY DEF B!StartAttempt, B!EndAttempt, B!counterVars, B!historyVars
<1>2. Passed' /\ Accounts' /\ Counted'
  BY <1>1 DEF RunInv, Passed, Accounts, Counted, Handed
<1>3. CASE B!StartAttempt(e)
  <2>1. /\ status' = [status EXCEPT ![e] = "running"] /\ status[e] = "wait"
        /\ tries' = [tries EXCEPT ![e] = @ + 1]
    BY <1>3 DEF B!StartAttempt
  <2>2. RunTypes' /\ AttemptLeft'
    BY <1>1, <2>1, Constants DEF RunInv, RunTypes, AttemptLeft, Outcomes
  <2> QED
    BY <1>2, <2>2 DEF RunInv
<1>4. ASSUME NEW ok \in BOOLEAN, B!EndAttempt(e, ok)
      PROVE  RunInv'
  <2>1. /\ tries' = tries
        /\ status' = [status EXCEPT ![e] = IF ok THEN "succeeded"
                        ELSE IF tries[e] <= MaxRetries THEN "wait" ELSE "failed"]
    BY <1>4 DEF B!EndAttempt, B!RetriesLeft
  <2>2. RunTypes' /\ AttemptLeft'
    BY <1>1, <2>1, Constants DEF RunInv, RunTypes, AttemptLeft, Outcomes
  <2> QED
    BY <1>2, <2>2 DEF RunInv
<1> QED
  BY <1>3, <1>4

-----------------------------------------------------------------------------
(* The steps of the loop. *)

\* The count: as many of the lowest ids are counted as were selected, at most.
LEMMA CountKeepsInv ==
  ASSUME RunInv, B!Count
  PROVE  RunInv'
<1> USE DEF RunInv
<1>1. /\ point = "start" /\ selected' = B!Min2(Limit, B!Cardinality(table))
      /\ remaining' = selected' /\ first' = B!Lowest(selected', table)
      /\ point' = IF selected' = 0 THEN "ended" ELSE "fetch"
      /\ UNCHANGED <<table, succeeded, failed, skipped, lastId, page, chunk, status, tries,
                     handed, drifted, broken, deletes>>
  BY DEF B!Count, B!Matching, B!workVars
<1>2. /\ selected' \in Nat /\ selected' <= Cardinality(table)
      /\ Cardinality(table) <= Cardinality(Emails) /\ Cardinality(table) \in Nat
  BY <1>1, SameCardinality, EmailSets, Constants DEF B!Min2, RunTypes
<1>3. /\ first' \subseteq table /\ Cardinality(first') <= selected'
      /\ \A e \in first', d \in table : d <= e => d \in first'
  BY <1>1, <1>2, LowestFacts, EmailSets DEF RunTypes
<1>4. Handed = {} /\ page = {} /\ chunk = {} /\ Handed' = {}
  BY <1>1 DEF Accounts, Passed, Handed
<1>5. RunTypes'
  BY <1>1, <1>2, <1>3, Constants DEF RunTypes
<1>6. Passed' /\ AttemptLeft'
  BY <1>1, <1>4 DEF Passed, AttemptLeft, RunTypes
<1>7. Accounts'
  <2>1. Cardinality(Handed') = 0 /\ Cardinality(page') = 0 /\ Cardinality(chunk') = 0
    BY <1>1, <1>4, FS_EmptySet
  <2>2. succeeded' = 0 /\ failed' = 0 /\ skipped' = 0
    BY <1>1 DEF Accounts
  <2> QED
    BY <1>1, <1>2, Constants, <2>1, <2>2 DEF Accounts
<1>8. Counted'
  <2>1. \A e \in Emails : handed[e] = 0
    BY <1>4 DEF Handed, RunTypes
  <2>2. \A e \in Emails : ~(e <= lastId')
    BY <1>1, Constants DEF Accounts
  <2>3. \A e \in first', f \in Emails : f \in table /\ f < e => f \in first'
    BY <1>3, Constants DEF RunTypes
  <2> QED
    BY <1>1, <1>3, <1>4, <1>5, <2>1, <2>2, <2>3 DEF Counted, RunTypes
<1> QED
  BY <1>5, <1>6, <1>7, <1>8

\* A page: the rows after the last id, as many as remain at most.
LEMMA PageFacts ==
  ASSUME RunInv, point = "fetch"
  PROVE  /\ B!Page \subseteq table /\ B!Page \subseteq Emails
         /\ IsFiniteSet(B!Page) /\ Cardinality(B!Page) \in Nat
         /\ Cardinality(B!Page) <= remaining
         /\ \A e \in B!Page : lastId < e /\ handed[e] = 0
         /\ \A e \in B!Page, d \in table : lastId < d /\ d <= e => d \in B!Page
<1> DEFINE n == B!Min2(PageSize, remaining)
           S == {e \in table : e > lastId}
<1>1. n \in Nat /\ n <= remaining
  BY Constants DEF B!Min2, RunInv, RunTypes
<1>2. S \subseteq Emails /\ S \subseteq table
  BY DEF RunInv, RunTypes
<1>3. B!Page = B!Lowest(n, S)
  BY DEF B!Page, B!Matching
<1>4. \A e \in Emails : e \in Nat
  BY Constants
<1>5. lastId \in Nat
  BY <1>4 DEF RunInv, RunTypes
<1>6. \A e \in S : lastId < e
  BY <1>2, <1>4, <1>5
<1>7. \A d \in table : lastId < d => d \in S
  BY <1>4, <1>5 DEF RunInv, RunTypes
<1> HIDE DEF n, S
<1>8. /\ B!Page \subseteq S /\ IsFiniteSet(B!Page) /\ Cardinality(B!Page) \in Nat
      /\ Cardinality(B!Page) <= n
      /\ \A e \in B!Page, d \in S : d <= e => d \in B!Page
  BY <1>1, <1>2, <1>3, EmailSets, LowestFacts
<1>9. \A e \in S : handed[e] = 0
  <2>1. \A e \in Emails : handed[e] = 1 => e <= lastId
    BY DEF RunInv, Passed
  <2>2. \A e \in Emails : handed[e] = 0 \/ handed[e] = 1
    BY DEF RunInv, RunTypes
  <2> SUFFICES ASSUME NEW e \in S PROVE handed[e] # 1
    BY <1>2, <2>2
  <2>3. e \in Emails /\ e \in Nat /\ lastId < e
    BY <1>2, <1>4, <1>6
  <2> QED
    BY <1>5, <2>1, <2>3
<1>10. Cardinality(B!Page) <= remaining
  BY <1>1, <1>8 DEF RunInv, RunTypes
<1>11. B!Page \subseteq table /\ B!Page \subseteq Emails
  BY <1>2, <1>8
<1> QED
  BY <1>6, <1>7, <1>8, <1>9, <1>10, <1>11

LEMMA FetchPageKeepsInv ==
  ASSUME RunInv, B!FetchPage
  PROVE  RunInv'
<1> DEFINE P == B!Page
<1>1. /\ point = "fetch" /\ P # {} /\ point' = "chunk" /\ lastId' = B!Max(P)
      /\ remaining' = B!Minus(remaining, B!Cardinality(P)) /\ B!StartChunk(P)
      /\ UNCHANGED <<table, selected, succeeded, failed, skipped, first, drifted, broken, deletes>>
  BY DEF B!FetchPage
<1>2. /\ P \subseteq table /\ P \subseteq Emails
      /\ IsFiniteSet(P) /\ Cardinality(P) \in Nat /\ Cardinality(P) <= remaining
      /\ \A e \in P : lastId < e /\ handed[e] = 0
      /\ \A e \in P, d \in table : lastId < d /\ d <= e => d \in P
  BY <1>1, PageFacts
<1> HIDE DEF P
<1>3. /\ lastId' \in P /\ lastId' \in Emails /\ \A e \in P : e <= lastId'
  BY <1>1, <1>2, EmailSets, Greatest
<1>4. lastId < lastId' /\ lastId \in Nat /\ lastId' \in Nat
  BY <1>2, <1>3, Constants DEF RunInv, RunTypes
<1>5. /\ chunk' \subseteq P /\ page' \subseteq P /\ chunk' \subseteq Emails
      /\ page' \subseteq Emails
      /\ \A e \in P : e \in page' <=> e \notin chunk'
      /\ handed' \in [Emails -> 0..1]
      /\ \A e \in Emails : handed'[e] = IF e \in chunk' THEN 1 ELSE handed[e]
      /\ Cardinality(Handed') = Cardinality(Handed) + Cardinality(chunk')
      /\ Cardinality(P) = Cardinality(page') + Cardinality(chunk')
      /\ status' \in [Emails -> Outcomes] /\ tries' \in [Emails -> 0..(MaxRetries + 1)]
      /\ AttemptLeft'
  BY <1>1, <1>2, StartChunkFacts DEF RunInv
<1>6. remaining' \in Nat /\ remaining' = remaining - Cardinality(P)
  BY <1>1, <1>2, SameCardinality DEF B!Minus, RunInv, RunTypes
<1>7. RunTypes'
  BY <1>1, <1>3, <1>5, <1>6 DEF RunInv, RunTypes
<1>8. \A e \in Emails : handed[e] = 1 => e <= lastId
  BY DEF RunInv, Passed
<1>9. Passed'
  <2>1. \A e \in Emails : handed'[e] = 1 \/ e \in page' => e <= lastId'
    BY <1>3, <1>4, <1>5, <1>8, Constants
  <2>2. \A e \in page' : handed'[e] = 0
    BY <1>2, <1>5
  <2> QED
    BY <1>1, <1>5, <2>1, <2>2 DEF Passed
<1>10. Accounts'
  <2>1. /\ Cardinality(Handed) \in Nat /\ Cardinality(chunk') \in Nat /\ Cardinality(page') \in Nat
    BY <1>5, EmailSets DEF Handed
  <2>2. page = {} /\ chunk = {} /\ Cardinality({}) = 0
    BY <1>1, FS_EmptySet DEF RunInv, Passed
  <2>3. /\ selected = Cardinality(Handed) + remaining /\ skipped = 0
        /\ succeeded + failed = Cardinality(Handed)
        /\ selected <= Cardinality(Emails)
    BY <1>1, <2>1, <2>2 DEF RunInv, RunTypes, Accounts
  <2> QED
    BY <1>1, <1>2, <1>5, <1>6, <2>1, <2>3 DEF Accounts, RunInv, RunTypes
<1>11. Counted'
  <2>1. \A e \in first : e \in table /\ e <= lastId => handed[e] = 1
    BY <1>1 DEF RunInv, Counted, Passed
  <2>2. \A e \in first : e \in table /\ e <= lastId' => handed'[e] = 1 \/ e \in page'
    BY <1>2, <1>3, <1>4, <1>5, <2>1, Constants DEF RunInv, RunTypes
  <2>3. ~drifted => \A e \in first, f \in Emails :
           (f \in table \/ handed[f] = 1) /\ f < e => f \in first
    BY DEF RunInv, Counted
  <2>4. ~drifted => \A e \in first, f \in Emails :
           (f \in table \/ f \in page' \/ handed'[f] = 1) /\ f < e => f \in first
    BY <1>2, <1>5, <2>3
  <2> QED
    BY <1>1, <2>2, <2>4 DEF RunInv, Counted
<1> QED
  BY <1>5, <1>7, <1>9, <1>10, <1>11 DEF RunInv

\* An empty page, or a failing query, ends the loop.
LEMMA FetchEndsKeepsInv ==
  ASSUME RunInv, B!FetchEmpty \/ B!FetchFails
  PROVE  RunInv'
<1> USE DEF RunInv
<1>1. /\ point = "fetch" /\ point' = "ended"
      /\ UNCHANGED <<table, selected, remaining, succeeded, failed, lastId, page, chunk, status,
                     tries, first, handed, drifted, deletes>>
      /\ broken' = broken \/ broken' = TRUE
  BY DEF B!FetchEmpty, B!FetchFails, B!AfterEmpty, B!workVars, B!historyVars
<1>2. page = {} /\ chunk = {} /\ page' = {} /\ chunk' = {}
  BY <1>1 DEF Passed
<1>3. /\ Cardinality(page) = 0 /\ Cardinality(chunk) = 0 /\ Cardinality(Handed) \in Nat
      /\ Cardinality(chunk') = 0
  BY <1>2, FS_EmptySet, EmailSets DEF Handed
<1>4. /\ selected = Cardinality(Handed) + remaining /\ remaining > 0 /\ skipped = 0
      /\ succeeded + failed = Cardinality(Handed)
  BY <1>1, <1>3 DEF Accounts, RunTypes
<1>5. skipped' = remaining
  <2>1. CASE B!FetchEmpty
    BY <1>4, <2>1 DEF B!FetchEmpty, B!AfterEmpty, RunTypes
  <2>2. CASE B!FetchFails
    BY <1>4, <2>2, <1>3 DEF B!FetchFails, B!Minus, B!Processed, RunTypes
  <2> QED
    BY <2>1, <2>2
<1>6. RunTypes' /\ AttemptLeft'
  BY <1>1, <1>5 DEF RunTypes, AttemptLeft
<1>7. Passed'
  BY <1>1, <1>2 DEF Passed
<1>8. Handed' = Handed
  BY <1>1 DEF Handed
<1>9. Accounts'
  BY <1>1, <1>3, <1>4, <1>5, <1>8 DEF Accounts, RunTypes
<1>10. Counted'
  BY <1>1, <1>4, <1>5 DEF Counted
<1> QED
  BY <1>6, <1>7, <1>9, <1>10

\* A chunk is done: each of its emails is counted once, as a success or as a failure.
LEMMA ChunkCounts ==
  ASSUME RunInv, B!EndChunk
  PROVE  /\ point = "chunk" /\ succeeded' \in Nat /\ failed' \in Nat
         /\ Cardinality(Handed) \in Nat
         /\ succeeded' + failed' = Cardinality(Handed)
<1>1. /\ point = "chunk" /\ chunk = B!With("succeeded") \cup B!With("failed")
      /\ succeeded' = succeeded + B!Cardinality(B!With("succeeded"))
      /\ failed' = failed + B!Cardinality(B!With("failed"))
  BY DEF B!EndChunk
<1>2. /\ B!With("succeeded") \subseteq Emails /\ B!With("failed") \subseteq Emails
      /\ \A e \in B!With("succeeded") : e \notin B!With("failed")
  BY DEF B!With, RunInv, RunTypes
<1>3. /\ Cardinality(chunk)
           = Cardinality(B!With("succeeded")) + Cardinality(B!With("failed"))
      /\ Cardinality(B!With("succeeded")) \in Nat /\ Cardinality(B!With("failed")) \in Nat
  BY <1>1, <1>2, Parts, EmailSets
<1>4. Cardinality(Handed) \in Nat
  BY EmailSets DEF Handed
<1>5. succeeded + failed + Cardinality(chunk) = Cardinality(Handed)
  BY DEF RunInv, Accounts
<1> QED
  BY <1>1, <1>3, <1>4, <1>5, SameCardinality DEF RunInv, RunTypes

LEMMA EndChunkKeepsInv ==
  ASSUME RunInv, B!EndChunk
  PROVE  RunInv'
<1> DEFINE stop == FailFast /\ B!With("failed") # {}
<1>1. /\ point = "chunk"
      /\ skipped' = IF stop THEN B!NotProcessed ELSE skipped
      /\ UNCHANGED <<table, selected, remaining, lastId, first, drifted, broken, deletes>>
  BY DEF B!EndChunk
<1>2. /\ ~stop /\ page # {} => point' = "chunk" /\ B!StartChunk(page)
      /\ stop \/ page = {} => chunk' = {} /\ page' = {} /\ UNCHANGED <<status, tries, handed>>
      /\ stop => point' = "ended"
      /\ ~stop /\ page = {} => point' = IF remaining = 0 THEN "ended" ELSE "fetch"
  BY DEF B!EndChunk
<1> HIDE DEF stop
<1>3. /\ succeeded' \in Nat /\ failed' \in Nat /\ Cardinality(Handed) \in Nat
      /\ succeeded' + failed' = Cardinality(Handed)
  BY ChunkCounts
<1>4. /\ selected = Cardinality(Handed) + Cardinality(page) + remaining /\ skipped = 0
      /\ Cardinality(page) \in Nat /\ (Cardinality(page) = 0 <=> page = {})
      /\ selected <= Cardinality(Emails)
      /\ selected \in Nat /\ remaining \in Nat
  BY <1>1, EmailSets, FS_EmptySet DEF RunInv, RunTypes, Accounts
<1>5. CASE ~stop /\ page # {}
  <2>1. /\ point' = "chunk" /\ skipped' = 0
        /\ chunk' \subseteq page /\ page' \subseteq page /\ chunk' \subseteq Emails
        /\ page' \subseteq Emails
        /\ \A e \in page : e \in page' <=> e \notin chunk'
        /\ handed' \in [Emails -> 0..1]
        /\ \A e \in Emails : handed'[e] = IF e \in chunk' THEN 1 ELSE handed[e]
        /\ Cardinality(Handed') = Cardinality(Handed) + Cardinality(chunk')
        /\ Cardinality(page) = Cardinality(page') + Cardinality(chunk')
        /\ status' \in [Emails -> Outcomes] /\ tries' \in [Emails -> 0..(MaxRetries + 1)]
        /\ AttemptLeft'
    BY <1>1, <1>2, <1>4, <1>5, StartChunkFacts DEF RunInv, RunTypes, Passed
  <2>2. RunTypes'
    BY <1>1, <1>3, <2>1 DEF RunInv, RunTypes
  <2>3. Passed'
    <3>1. \A e \in Emails : handed'[e] = 1 \/ e \in page' => handed[e] = 1 \/ e \in page
      BY <2>1
    <3>2. \A e \in page' : handed'[e] = 0
      BY <2>1 DEF RunInv, Passed
    <3> QED
      BY <1>1, <2>1, <3>1, <3>2 DEF RunInv, Passed
  <2>4. Accounts'
    <3>1. Cardinality(page') \in Nat /\ Cardinality(chunk') \in Nat
      BY <2>1, EmailSets
    <3> QED
      BY <1>1, <1>3, <1>4, <2>1, <3>1 DEF Accounts
  <2>5. Counted'
    <3>1. \A e \in first : e \in table /\ e <= lastId => handed[e] = 1 \/ e \in page
      BY <1>1 DEF RunInv, Counted
    <3>2. \A e \in Emails : handed[e] = 1 \/ e \in page <=> handed'[e] = 1 \/ e \in page'
      BY <2>1 DEF RunInv, Passed
    <3>3. \A e \in first : e \in Emails
      BY DEF RunInv, RunTypes
    <3> QED
      BY <1>1, <3>1, <3>2, <3>3 DEF RunInv, Counted
  <2> QED
    BY <2>1, <2>2, <2>3, <2>4, <2>5 DEF RunInv
<1>6. CASE stop \/ page = {}
  <2>1. /\ chunk' = {} /\ page' = {} /\ UNCHANGED <<status, tries, handed>>
        /\ point' \in {"ended", "fetch"} /\ (point' = "fetch" => ~stop /\ page = {} /\ remaining > 0)
        /\ (point' = "ended" /\ ~stop => page = {} /\ remaining = 0)
    BY <1>2, <1>4, <1>6
  <2>2. Handed' = Handed /\ Cardinality(chunk') = 0 /\ Cardinality(page') = 0
    BY <2>1, FS_EmptySet DEF Handed
  <2>3. skipped' = IF stop THEN selected - Cardinality(Handed) ELSE 0
    BY <1>1, <1>3, <1>4 DEF B!NotProcessed, B!Minus
  <2>4. RunTypes' /\ AttemptLeft'
    BY <1>1, <1>3, <1>4, <2>1, <2>3 DEF RunInv, RunTypes, AttemptLeft
  <2>5. Passed'
    BY <1>1, <2>1 DEF RunInv, Passed
  <2>6. Accounts'
    BY <1>1, <1>3, <1>4, <2>1, <2>2, <2>3 DEF Accounts
  <2>7. Counted'
    <3>1. ~stop => page = {}
      BY <2>1
    <3>2. stop => point' = "ended" /\ skipped' = Cardinality(page) + remaining
      BY <1>3, <1>4, <2>1, <2>3
    <3>3. (point' = "ended" => skipped' = 0) => page = {}
      BY <1>4, <3>1, <3>2
    <3> QED
      BY <1>1, <2>1, <3>3 DEF RunInv, Counted
  <2> QED
    BY <2>4, <2>5, <2>6, <2>7 DEF RunInv
<1> QED
  BY <1>5, <1>6

-----------------------------------------------------------------------------
(* The invariant, and what follows from it. *)

LEMMA RunInit == Init => RunInv
<1> SUFFICES ASSUME B!Init PROVE RunInv
  BY DEF Init
<1>1. /\ handed = [e \in Emails |-> 0] /\ status = [e \in Emails |-> "none"]
      /\ tries = [e \in Emails |-> 0] /\ page = {} /\ chunk = {}
      /\ table = {} /\ first = {} /\ point = "start" /\ selected = 0 /\ remaining = 0
      /\ lastId = 0 /\ succeeded = 0 /\ failed = 0 /\ skipped = 0 /\ deletes = 0
  BY DEF B!Init
<1>2. Passed /\ AttemptLeft
  BY <1>1 DEF Passed, AttemptLeft
<1>3. handed \in [Emails -> 0..1] /\ status \in [Emails -> Outcomes]
      /\ tries \in [Emails -> 0..(MaxRetries + 1)]
  BY <1>1, Constants DEF Outcomes
<1>4. drifted \in BOOLEAN /\ broken \in BOOLEAN
  BY DEF B!Init
<1>5. RunTypes
  BY <1>1, <1>3, <1>4, Constants DEF RunTypes
<1>6. Handed = {} /\ Cardinality({}) = 0
  BY <1>1, FS_EmptySet DEF Handed
<1>7. Accounts /\ Counted
  BY <1>1, <1>6, Constants DEF Accounts, Counted
<1> QED
  BY <1>2, <1>5, <1>7 DEF RunInv

LEMMA RunStutterKeepsInv ==
  ASSUME RunInv, UNCHANGED backfillVars
  PROVE  RunInv'
  BY DEF backfillVars, RunInv, RunTypes, Passed, AttemptLeft, Accounts, Counted, Handed

LEMMA RunNext == RunInv /\ [Next]_vars => RunInv'
<1> SUFFICES ASSUME RunInv, [Next]_vars PROVE RunInv'
  OBVIOUS
<1>1. CASE Backfilling
  <2>1. B!Count \/ B!FetchPage \/ B!FetchEmpty \/ B!EndChunk
    BY <1>1 DEF Backfilling, B!Loop
  <2> QED
    BY <2>1, CountKeepsInv, FetchPageKeepsInv, FetchEndsKeepsInv, EndChunkKeepsInv
<1>2. CASE Commands
  BY <1>2, AttemptKeepsInv DEF Commands, Spawn, TimesOut, Answer
<1>3. CASE Outside
  BY <1>3, FetchEndsKeepsInv, EnvironmentKeepsInv, RunStutterKeepsInv DEF Outside
<1>4. CASE \E e \in Emails : Mailtx(e)
  BY <1>4, RunStutterKeepsInv DEF Mailtx
<1>5. CASE UNCHANGED vars
  BY <1>5, RunStutterKeepsInv DEF vars
<1> QED
  BY <1>1, <1>2, <1>3, <1>4, <1>5 DEF Next

THEOREM RunInvariant == Spec => []RunInv
  BY RunInit, RunNext, PTL DEF Spec

\* The counters never exceed the emails there are.
LEMMA RunTypeCorrect == RunInv => B!TypeOK
<1> SUFFICES ASSUME RunInv PROVE B!TypeOK
  OBVIOUS
<1>1. {selected, remaining, succeeded, failed, skipped} \subseteq 0..Cardinality(Emails)
  <2>1. Cardinality(chunk) \in Nat /\ Cardinality(Handed) \in Nat
    BY EmailSets DEF RunInv, RunTypes, Handed
  <2>2. /\ selected <= Cardinality(Emails) /\ remaining <= selected
        /\ succeeded + failed <= selected
    BY <2>1 DEF RunInv, RunTypes, Accounts
  <2>3. skipped <= selected
    BY DEF RunInv, RunTypes, Accounts
  <2> QED
    BY <2>2, <2>3, Constants DEF RunInv, RunTypes
<1>2. /\ table \subseteq Emails /\ point \in {"start", "fetch", "chunk", "ended"}
      /\ lastId \in Emails \cup {0} /\ page \subseteq Emails /\ chunk \subseteq Emails
      /\ status \in [Emails -> {"none", "wait", "running", "succeeded", "failed"}]
      /\ tries \in [Emails -> 0..(MaxRetries + 1)]
      /\ first \subseteq Emails /\ deletes \in 0..MaxDeletes
  BY DEF RunInv, RunTypes, Outcomes
<1>3. handed \in [Emails -> Nat]
  BY DEF RunInv, RunTypes
<1>4. drifted \in BOOLEAN /\ broken \in BOOLEAN
  BY DEF RunInv, RunTypes
<1> QED
  BY <1>1, <1>2, <1>3, <1>4, SameCardinality DEF B!TypeOK

\* Over any page size and concurrency, and whatever is inserted or deleted between the
\* pages, one run hands each email to the processor at most once, and no more than it
\* selected (run and process_page_concurrent in backfill.rs).
THEOREM RunsHandOutOnce == Spec => []OncePerRun
<1>1. RunInv => OncePerRun
  <2> SUFFICES ASSUME RunInv PROVE OncePerRun
    OBVIOUS
  <2>1. \A e \in Emails : handed[e] <= 1
    BY DEF RunInv, RunTypes
  <2>2. Cardinality(Handed) <= selected
    BY DEF RunInv, Accounts
  <2> QED
    BY <2>1, <2>2, SameCardinality DEF OncePerRun, B!OncePerRun, Handed
<1> QED
  BY <1>1, RunInvariant, PTL

\* On every way out of the loop (all done, an empty page, a failing query, --fail-fast) the
\* summary of a run accounts for every selected email.
THEOREM SummariesAddUp == Spec => []SummaryAddsUp
<1>1. RunInv => SummaryAddsUp
  BY DEF RunInv, Accounts, SummaryAddsUp, B!SummaryAddsUp, B!Processed
<1> QED
  BY <1>1, RunInvariant, PTL

\* A run that ended with nothing skipped has processed what it counted and is still there,
\* unless an email was committed below one that it counted.
THEOREM CountedAreProcessed == Spec => []CountedProcessed
<1>1. RunInv => CountedProcessed
  <2> SUFFICES ASSUME RunInv, point = "ended", skipped = 0, ~drifted,
                      NEW e \in first, e \in table, ~(handed[e] > 0)
               PROVE  FALSE
    BY DEF CountedProcessed, B!CountedProcessed
  <2> USE DEF RunInv
  <2>1. page = {} /\ chunk = {} /\ Cardinality(chunk) = 0
    BY FS_EmptySet DEF Passed
  <2>2. Cardinality(Handed) = selected
    BY <2>1 DEF Accounts, RunTypes
  <2>3. e \in Emails /\ e \in Nat /\ lastId \in Nat /\ first \subseteq Emails
    BY Constants DEF RunTypes
  <2>4. ~(e <= lastId)
    BY <2>1 DEF Counted
  <2>5. \A f \in Handed : f < e
    BY <2>3, <2>4, Constants DEF Handed, Passed, RunTypes
  <2>6. \A f \in Handed : f \in first
    <3>1. \A f \in Emails : handed[f] = 1 /\ f < e => f \in first
      BY DEF Counted
    <3>2. \A f \in Handed : f \in Emails /\ handed[f] = 1
      BY DEF Handed, RunTypes
    <3> QED
      BY <2>5, <3>1, <3>2
  <2>7. Handed \cup {e} \in SUBSET first /\ e \notin Handed /\ IsFiniteSet(Handed)
    BY <2>3, <2>6, EmailSets DEF Handed
  <2>8. Cardinality(Handed \cup {e}) = Cardinality(Handed) + 1
    BY <2>7, FS_AddElement
  <2>9. Cardinality(Handed \cup {e}) <= Cardinality(first) /\ Cardinality(first) \in Nat
    BY <2>3, <2>7, EmailSets, FS_Subset
  <2>10. Cardinality(first) <= selected
    BY DEF Counted
  <2> QED
    BY <2>2, <2>8, <2>9, <2>10 DEF RunTypes
<1> QED
  BY <1>1, RunInvariant, PTL

=============================================================================
