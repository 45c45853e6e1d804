-------------------------- MODULE ImapSessionProofs --------------------------
(***************************************************************************)
(* Theorems about ImapSession, for any number of messages, batch size and  *)
(* bound on the troubles, and for each of the orders and answers that a    *)
(* server may choose from.                                                 *)
(***************************************************************************)
EXTENDS ImapSession, FiniteSetTheorems, WellFoundedInduction, SequenceTheorems, TLAPS

-----------------------------------------------------------------------------
(* The inductive invariant. *)

\* What is under way on the connection.
InWire(k, u) == \E i \in DOMAIN wire : wire[i].kind = k /\ wire[i].uid = u
InAnswer(k, u) == \E i \in DOMAIN answer : answer[i].kind = k /\ answer[i].uid = u
Asked(name) == \E i \in DOMAIN sent : sent[i].name = name

NoneUnderWay(kinds) ==
  /\ \A i \in DOMAIN wire : wire[i].kind \notin kinds
  /\ \A i \in DOMAIN answer : answer[i].kind \notin kinds

Listing == pc = "list" \/ (pc = "late" /\ draining = "list")
Fetching == pc = "fetch" \/ (pc = "late" /\ draining = "fetch")
IdleReply == {"accepted", "rejected"}

Points == {"off", "stopped", "login", "select", "list", "search", "fetch", "late", "setup", "idle", "drain"}

\* Data bears a UID of the mailbox, and a command that fetches has one to fetch.
DataTypes ==
  /\ \A i \in DOMAIN wire : wire[i].kind \in {"uid", "body"} => wire[i].uid \in Uids
  /\ \A i \in DOMAIN answer : answer[i].kind \in {"uid", "body"} => answer[i].uid \in Uids
  /\ \A i \in DOMAIN sent : sent[i].name \in {"list", "fetch"} => sent[i].from > 0
  /\ \A i \in DOMAIN sent : sent[i].name = "fetch" => sent[i].from <= sent[i].to

\* IDLE is the last command, and nothing but untagged responses follows its reply.
IdleLast ==
  /\ \A i \in DOMAIN sent : sent[i].name = "idle" => i = Len(sent)
  /\ \A i \in DOMAIN answer : answer[i].kind \in IdleReply => Len(answer) = 1 /\ sent = <<>>
  /\ \A i \in DOMAIN wire : wire[i].kind \in IdleReply =>
       /\ answer = <<>> /\ sent = <<>>
       /\ \A j \in DOMAIN wire : j > i => wire[j].kind \in {"exists", "untagged"}

\* What cannot be under way at each point.  The reply to IDLE clears the connection: data
\* of a list or a fetch that was given up is read no later than that.
PhaseInv ==
  /\ pc = "late" <=> draining # "none"
  /\ pc \in {"login", "select", "idle", "drain"} =>
       NoneUnderWay({"uid", "body"}) /\ ~Asked("list") /\ ~Asked("fetch")
  /\ Listing \/ pc = "search" => NoneUnderWay({"body"}) /\ ~Asked("fetch")
  /\ pc \notin {"off", "stopped", "setup"} => NoneUnderWay(IdleReply) /\ ~Asked("idle")
  /\ pc = "setup" => IdleLast

\* What the client has: under the checkpoint, or received by the command in progress; and
\* what it leaves out.
Have == 0..LastSeen \cup got \cup limited

Below(u) == 1..(u - 1)

\* Data comes without a gap: what is below a UID has come, or comes earlier.
Flow(k) ==
  /\ \A v \in got : Below(v) \subseteq Have
  /\ \A i \in DOMAIN wire : wire[i].kind = k => \A w \in Below(wire[i].uid) :
       \/ w \in Have
       \/ \E j \in DOMAIN wire : j < i /\ wire[j].kind = k /\ wire[j].uid = w
  /\ \A i \in DOMAIN answer : answer[i].kind = k => \A w \in Below(answer[i].uid) :
       \/ w \in Have \/ InWire(k, w)
       \/ \E j \in DOMAIN answer : j < i /\ answer[j].kind = k /\ answer[j].uid = w

ListFlow ==
  Listing =>
    /\ Flow("uid")
    /\ \A i \in DOMAIN sent : sent[i].name = "list" => sent[i].from = LastSeen + 1

SearchFlow ==
  pc = "search" =>
    /\ todo # {} /\ got \in {{}, todo \ Dated}
    /\ \A u \in todo : Below(u) \subseteq todo \cup 0..LastSeen \cup limited

\* Messages come on with every FETCH that is under way, and in todo.
Coming(u) == u \in Have \/ InWire("body", u) \/ InAnswer("body", u)
AskedBy(c, u) == c.name = "fetch" /\ u \in c.from..c.to

FetchFlow ==
  Fetching =>
    /\ Flow("body")
    /\ \A i \in DOMAIN sent : sent[i].name = "fetch" => \A w \in Below(sent[i].from) :
         Coming(w) \/ \E j \in DOMAIN sent : j < i /\ AskedBy(sent[j], w)
    /\ \A u \in todo : \A w \in Below(u) :
         w \in todo \/ Coming(w) \/ \E i \in DOMAIN sent : AskedBy(sent[i], w)

FlowInv == ListFlow /\ SearchFlow /\ FetchFlow

\* Commands and completions, in drain and idle even after something was left unread.
StepInv ==
  /\ (pc \notin Down /\ ~cut) \/ pc \in {"idle", "drain"} =>
       Owed = IF pc \in {"late", "setup"} \/ (pc = "idle" /\ ~noticed) THEN 0 ELSE 1
  /\ pc = "login" => ~cut

-----------------------------------------------------------------------------
(* Sequences. *)

LEMMA TailFacts ==
  ASSUME NEW S, NEW s \in Seq(S), s # <<>>
  PROVE  /\ Tail(s) \in Seq(S) /\ Head(s) = s[1] /\ Head(s) \in S
         /\ 1 \in DOMAIN s /\ Len(Tail(s)) = Len(s) - 1
         /\ \A i \in DOMAIN Tail(s) :
              i \in Nat /\ i > 0 /\ i + 1 \in DOMAIN s /\ Tail(s)[i] = s[i + 1]
         /\ \A i \in DOMAIN s :
              i = 1 \/ (i - 1 \in DOMAIN Tail(s) /\ Tail(s)[i - 1] = s[i])
  BY HeadTailProperties

LEMMA AppendFacts ==
  ASSUME NEW S, NEW s \in Seq(S), NEW e \in S
  PROVE  /\ Append(s, e) \in Seq(S) /\ Len(Append(s, e)) = Len(s) + 1
         /\ \A i \in DOMAIN s : i \in DOMAIN Append(s, e) /\ Append(s, e)[i] = s[i]
         /\ Len(s) + 1 \in DOMAIN Append(s, e) /\ Append(s, e)[Len(s) + 1] = e
         /\ \A i \in DOMAIN Append(s, e) : i \in DOMAIN s \/ i = Len(s) + 1
  BY AppendProperties

LEMMA SeqFacts ==
  ASSUME NEW S, NEW s \in Seq(S)
  PROVE  /\ DOMAIN s = 1..Len(s) /\ Len(s) \in Nat /\ \A i \in DOMAIN s : s[i] \in S
         /\ s = <<>> <=> Len(s) = 0
         /\ DOMAIN s = {} <=> s = <<>>
  BY EmptySeq

\* How many of its elements are of a kind.
Count(s, P) == Cardinality({i \in DOMAIN s : s[i] \in P})

LEMMA CountFacts ==
  ASSUME NEW S, NEW s \in Seq(S), NEW P
  PROVE  /\ IsFiniteSet({i \in DOMAIN s : s[i] \in P}) /\ Count(s, P) \in Nat
         /\ Count(s, P) = 0 <=> \A i \in DOMAIN s : s[i] \notin P
<1> DEFINE I == {i \in DOMAIN s : s[i] \in P}
<1>1. IsFiniteSet(1..Len(s)) /\ I \in SUBSET (1..Len(s))
  <2>1. I \in SUBSET (1..Len(s)) /\ 1 \in Int /\ Len(s) \in Int
    BY SeqFacts
  <2> QED
    BY <2>1, FS_Interval
<1>2. IsFiniteSet(I)
  BY <1>1, FS_Subset
<1>3. Cardinality(I) \in Nat /\ (Cardinality(I) = 0 <=> I = {})
  BY <1>2, FS_CardinalityType, FS_EmptySet
<1> QED
  BY <1>2, <1>3 DEF Count

LEMMA CountAppend ==
  ASSUME NEW S, NEW s \in Seq(S), NEW e \in S, NEW P
  PROVE  Count(Append(s, e), P) = Count(s, P) + IF e \in P THEN 1 ELSE 0
<1> DEFINE I == {i \in DOMAIN s : s[i] \in P}
           J == {i \in DOMAIN Append(s, e) : Append(s, e)[i] \in P}
           n == Len(s) + 1
<1>1. IsFiniteSet(I) /\ Count(s, P) = Cardinality(I) /\ Cardinality(I) \in Nat
  BY CountFacts DEF Count
<1>2. n \notin I
  BY SeqFacts
<1>3. CASE e \in P
  <2>1. J = I \cup {n}
    BY <1>3, AppendFacts
  <2>2. Cardinality(J) = Cardinality(I) + 1
    BY <1>1, <1>2, <2>1, FS_AddElement
  <2> QED
    BY <1>1, <1>3, <2>2 DEF Count
<1>4. CASE e \notin P
  <2>1. J = I
    BY <1>2, <1>4, AppendFacts
  <2>2. Count(Append(s, e), P) = Cardinality(J)
    BY DEF Count
  <2> HIDE DEF I, J
  <2> QED
    BY <1>1, <1>4, <2>1, <2>2
<1> QED
  BY <1>3, <1>4

LEMMA CountTail ==
  ASSUME NEW S, NEW s \in Seq(S), s # <<>>, NEW P
  PROVE  Count(s, P) = Count(Tail(s), P) + IF Head(s) \in P THEN 1 ELSE 0
<1> DEFINE I == {i \in DOMAIN s : s[i] \in P}
           J == {i \in DOMAIN Tail(s) : Tail(s)[i] \in P}
           f == [i \in J |-> i + 1]
<1>0. Tail(s) \in Seq(S)
  BY TailFacts
<1>1. IsFiniteSet(I) /\ Count(s, P) = Cardinality(I) /\ Cardinality(I) \in Nat
  BY CountFacts DEF Count
<1>2. IsFiniteSet(J) /\ Count(Tail(s), P) = Cardinality(J) /\ Cardinality(J) \in Nat
  BY <1>0, CountFacts DEF Count
<1>3. f \in Bijection(J, I \ {1})
  <2>1. \A i \in J : i \in Nat /\ i > 0 /\ i + 1 \in I \ {1}
    BY TailFacts
  <2>2. \A j \in I \ {1} : j - 1 \in J /\ j \in Int
    BY TailFacts, SeqFacts
  <2>3. f \in [J -> I \ {1}]
    BY <2>1
  <2>4. \A a, b \in J : f[a] = f[b] => a = b
    BY <2>1
  <2>5. \A j \in I \ {1} : \E a \in J : f[a] = j
    <3> TAKE j \in I \ {1}
    <3>1. f[j - 1] = j
      BY <2>2
    <3> QED
      BY <2>2, <3>1
  <2> HIDE DEF f, I, J
  <2> QED
    BY <2>3, <2>4, <2>5 DEF Bijection, Injection, Surjection, IsInjective
<1>4. Cardinality(J) = Cardinality(I \ {1}) /\ IsFiniteSet(I \ {1})
  <2> HIDE DEF f, I, J
  <2> QED
    BY <1>1, <1>2, <1>3, FS_Bijection, FS_RemoveElement DEF ExistsBijection
<1>5. CASE Head(s) \in P
  <2>1. 1 \in I
    BY <1>5, TailFacts
  <2>2. Cardinality(I \ {1}) = Cardinality(I) - 1
    BY <1>1, <2>1, FS_RemoveElement
  <2> HIDE DEF f, I, J
  <2> QED
    BY <1>1, <1>2, <1>4, <1>5, <2>2
<1>6. CASE Head(s) \notin P
  <2>1. I \ {1} = I
    BY <1>6, TailFacts
  <2> HIDE DEF f, I, J
  <2>2. Cardinality(I \ {1}) = Cardinality(I)
    BY <2>1
  <2> QED
    BY <1>1, <1>2, <1>4, <1>6, <2>2
<1> QED
  BY <1>5, <1>6


-----------------------------------------------------------------------------
(* Sets of UIDs. *)

\* A set of naturals has a least element.
LEMMA LeastNat ==
  ASSUME NEW S, S \subseteq Nat, S # {}
  PROVE  \E x \in S : \A y \in S : x <= y
<1> DEFINE R == OpToRel(<, Nat)
<1>1. \A x, y \in Nat : <<y, x>> \in R <=> y < x
  BY DEF OpToRel
<1>2. IsWellFoundedOn(R, Nat)
  BY NatLessThanWellFounded
<1> HIDE DEF R
<1>3. PICK x \in S : \A y \in S : ~(<<y, x>> \in R)
  BY <1>2, WFMin
<1>4. \A y \in S : x \in Nat /\ y \in Nat /\ ~(y < x)
  BY <1>1, <1>3
<1>5. \A y \in S : x <= y
  BY <1>4
<1> QED
  BY <1>5

LEMMA LeastUid ==
  ASSUME NEW S, S \subseteq 0..MaxUid, S # {}
  PROVE  Min(S) \in S /\ \A u \in S : Min(S) <= u
<1>1. S \subseteq Nat
  BY SessionAssumption
<1>2. \E x \in S : \A y \in S : x <= y
  BY <1>1, LeastNat
<1> QED
  BY <1>2 DEF Min

LEMMA GreatestUid ==
  ASSUME NEW S, S \subseteq 0..MaxUid, S # {}
  PROVE  Max(S) \in S /\ \A u \in S : u <= Max(S)
<1> DEFINE T == {MaxUid - u : u \in S}
<1>0. MaxUid \in Nat /\ \A u \in S : u \in Nat /\ u <= MaxUid
  BY SessionAssumption
<1>1. T \subseteq Nat /\ T # {}
  <2>1. \A u \in S : MaxUid - u \in Nat
    BY <1>0
  <2> QED
    BY <2>1
<1>2. PICK x \in T : \A y \in T : x <= y
  <2> HIDE DEF T
  <2> QED
    BY <1>1, LeastNat
<1>3. PICK u \in S : x = MaxUid - u
  OBVIOUS
<1>4. \A v \in S : MaxUid - u <= MaxUid - v
  BY <1>2, <1>3
<1>5. \A v \in S : u >= v
  <2> SUFFICES ASSUME NEW v \in S PROVE u >= v
    OBVIOUS
  <2>1. u \in Nat /\ v \in Nat /\ MaxUid \in Nat /\ MaxUid - u <= MaxUid - v
    BY <1>0, <1>4
  <2> HIDE DEF T
  <2> QED
    BY <2>1
<1>6. Max(S) \in S /\ \A v \in S : Max(S) >= v
  BY <1>5 DEF Max
<1> QED
  BY <1>4, <1>6

Chunk(S) == {u \in S : Cardinality({v \in S : v < u}) < Batch}

\* A batch is the lowest UIDs of those to be fetched.
LEMMA ChunkFacts ==
  ASSUME NEW S, S \subseteq Uids, S # {}
  PROVE  /\ Min(Chunk(S)) \in Chunk(S) /\ Max(Chunk(S)) \in Chunk(S)
         /\ \A u \in S : Min(Chunk(S)) <= u
         /\ \A u \in Chunk(S) : u <= Max(Chunk(S))
         /\ \A u \in S \ Chunk(S) : Max(Chunk(S)) < u
         /\ Chunk(S) \subseteq S
<1> DEFINE Lower(u) == {v \in S : v < u}
<1>0. /\ S \subseteq 0..MaxUid /\ MaxUid \in Nat /\ Batch \in Nat /\ Batch > 0
      /\ \A u \in S : u \in Nat
  BY SessionAssumption DEF Uids
<1>1. IsFiniteSet(S)
  <2>1. IsFiniteSet(0..MaxUid)
    BY <1>0, FS_Interval
  <2> QED
    BY <1>0, <2>1, FS_Subset
<1>2. \A u : IsFiniteSet(Lower(u)) /\ Cardinality(Lower(u)) \in Nat
  BY <1>1, FS_Subset, FS_CardinalityType, \A u : Lower(u) \in SUBSET S
<1>3. \A u, w \in S : u < w => Cardinality(Lower(u)) <= Cardinality(Lower(w))
  <2> SUFFICES ASSUME NEW u \in S, NEW w \in S, u < w
               PROVE  Cardinality(Lower(u)) <= Cardinality(Lower(w))
    OBVIOUS
  <2>1. Lower(u) \in SUBSET Lower(w)
    <3> SUFFICES ASSUME NEW v \in S, v < u PROVE v < w
      OBVIOUS
    <3> QED
      BY <1>0
  <2> QED
    BY <1>2, <2>1, FS_Subset
<1>4. Min(S) \in S /\ \A u \in S : Min(S) <= u
  BY <1>0, LeastUid
<1>5. Min(S) \in Chunk(S)
  <2>1. Lower(Min(S)) = {}
    <3> SUFFICES ASSUME NEW v \in S, v < Min(S) PROVE FALSE
      OBVIOUS
    <3>1. v \in Nat /\ Min(S) \in Nat /\ Min(S) <= v
      BY <1>0, <1>4
    <3> QED
      BY <3>1
  <2>2. Cardinality(Lower(Min(S))) = 0
    BY <2>1, FS_EmptySet
  <2> QED
    BY <1>0, <1>4, <2>2 DEF Chunk
<1>6. Chunk(S) \subseteq S /\ \A u \in Chunk(S), w \in S : w <= u => w \in Chunk(S)
  <2>1. Chunk(S) \subseteq S /\ \A u \in S : u \in Chunk(S) <=> Cardinality(Lower(u)) < Batch
    BY DEF Chunk
  <2> SUFFICES ASSUME NEW u \in Chunk(S), NEW w \in S, w <= u PROVE w \in Chunk(S)
    BY <2>1
  <2>2. w = u \/ w < u
    <3>1. w \in Nat /\ u \in Nat
      BY <1>0, <2>1
    <3> HIDE DEF Lower
    <3> QED
      BY <3>1
  <2>3. CASE w < u
    <3>1. Cardinality(Lower(w)) <= Cardinality(Lower(u)) /\ Cardinality(Lower(u)) < Batch
      BY <1>3, <2>1, <2>3
    <3> HIDE DEF Lower
    <3> QED
      BY <1>0, <1>2, <2>1, <3>1
  <2> QED
    BY <2>2, <2>3
<1>7. Chunk(S) \subseteq 0..MaxUid /\ Chunk(S) # {}
  BY <1>0, <1>5, <1>6
<1>8. /\ Min(Chunk(S)) \in Chunk(S) /\ \A u \in Chunk(S) : Min(Chunk(S)) <= u
      /\ Max(Chunk(S)) \in Chunk(S) /\ \A u \in Chunk(S) : u <= Max(Chunk(S))
  BY <1>7, LeastUid, GreatestUid
<1> QED
  <2>1. Min(Chunk(S)) = Min(S)
    <3>1. Min(Chunk(S)) \in S /\ Min(S) \in S
      BY <1>4, <1>6, <1>8
    <3>2. Min(Chunk(S)) <= Min(S) /\ Min(S) <= Min(Chunk(S))
      BY <1>4, <1>5, <1>8, <3>1
    <3>3. Min(Chunk(S)) \in Nat /\ Min(S) \in Nat
      BY <1>0, <3>1
    <3> QED
      BY <3>2, <3>3
  <2>2. \A u \in S \ Chunk(S) : Max(Chunk(S)) < u
    <3> SUFFICES ASSUME NEW u \in S, u \notin Chunk(S) PROVE Max(Chunk(S)) < u
      OBVIOUS
    <3>1. ~(u <= Max(Chunk(S))) /\ Max(Chunk(S)) \in S
      BY <1>6, <1>8
    <3>2. u \in Nat /\ Max(Chunk(S)) \in Nat
      BY <1>0, <3>1
    <3> QED
      BY <3>1, <3>2
  <2> QED
    BY <1>4, <1>6, <1>8, <2>1, <2>2


-----------------------------------------------------------------------------
(* Answers. *)

\* The data that answers a command.
Reply(name) ==
  CASE name = "list" -> "uid" [] name = "fetch" -> "body" [] name = "search" -> "search"
    [] name = "select" -> "validity" [] OTHER -> "none"

\* d answers c, but for the completion: UIDs ascend from the one asked for, or the last.
Answered(c, d) ==
  /\ \A i \in DOMAIN d : c.name \in {"list", "fetch"} =>
       /\ d[i].uid \in Uids
       /\ \A w \in c.from..(d[i].uid - 1) : \E j \in DOMAIN d : j < i /\ d[j].uid = w
  /\ c.name = "list" => \A u \in c.from..top : \E i \in DOMAIN d : d[i].uid = u
  /\ c.name = "fetch" => \A u \in c.from..c.to : \E i \in DOMAIN d : d[i].uid = u
  /\ c.name = "search" => \E i \in DOMAIN d : d[i] = Note("search")

LEMMA ItemsFacts ==
  ASSUME NEW kind \in {"uid", "body"}, NEW from \in Uids, NEW to \in 0..MaxUid
  PROVE  /\ Items(kind, from, to) \in Seq(Response)
         /\ DOMAIN Items(kind, from, to) = 1..(to + 1 - from)
         /\ \A i \in 1..(to + 1 - from) :
              /\ Items(kind, from, to)[i].kind = kind
              /\ Items(kind, from, to)[i].uid = from - 1 + i
              /\ from - 1 + i \in Uids
<1>0. MaxUid \in Nat /\ from \in Nat /\ to \in Nat /\ from >= 1 /\ to <= MaxUid
  BY SessionAssumption DEF Uids
<1>1. \A i \in 1..(to + 1 - from) : from - 1 + i \in 1..MaxUid
  BY <1>0
<1>2. \A i \in 1..(to + 1 - from) : [kind |-> kind, uid |-> from - 1 + i] \in Response
  BY <1>1 DEF Response
<1>3. Items(kind, from, to) \in [1..(to + 1 - from) -> Response]
  BY <1>2 DEF Items
<1>4. \E n \in Nat : 1..(to + 1 - from) = 1..n
  <2>1. CASE to + 1 - from \in Nat
    BY <2>1
  <2>2. CASE to + 1 - from \notin Nat
    <3>1. 1..(to + 1 - from) = 1..0
      BY <1>0, <2>2
    <3> QED
      BY <3>1
  <2> QED
    BY <2>1, <2>2
<1>5. Items(kind, from, to) \in Seq(Response)
  <2>1. PICK n \in Nat : 1..(to + 1 - from) = 1..n
    BY <1>4
  <2>2. Items(kind, from, to) \in [1..n -> Response]
    BY <1>3, <2>1
  <2> QED
    BY <2>2, SeqDef
<1> QED
  BY <1>1, <1>3, <1>5 DEF Items, Uids

LEMMA NoteFacts ==
  ASSUME NEW kind \in {"tagged", "untagged", "validity", "exists", "uid", "body", "search",
                       "accepted", "rejected"}
  PROVE  Note(kind) \in Response /\ Note(kind).kind = kind /\ Note(kind).uid = 0
  BY SessionAssumption DEF Note, Response

LEMMA DataFacts ==
  ASSUME NEW c \in Command, top \in 0..MaxUid, c.name \in {"list", "fetch"} => c.from > 0,
         c.name = "fetch" => c.from <= c.to
  PROVE  /\ Data(c) \in Seq(Response) /\ Answered(c, Data(c))
         /\ \A i \in DOMAIN Data(c) : Data(c)[i].kind = Reply(c.name)
         /\ c.name = "search" => Len(Data(c)) = 1
<1>0. /\ MaxUid \in Nat /\ MaxUid > 0 /\ top \in Nat /\ top <= MaxUid
      /\ c.from \in Nat /\ c.to \in Nat /\ c.to <= MaxUid
      /\ c.name \in {"login", "select", "list", "search", "fetch", "idle", "done"}
  BY SessionAssumption DEF Command
<1>1. CASE c.name = "fetch"
  <2>1. c.from \in Uids /\ c.to \in 0..MaxUid
    BY <1>0, <1>1 DEF Uids
  <2>2. Data(c) = Items("body", c.from, c.to)
    BY <1>1 DEF Data
  <2>3. /\ Data(c) \in Seq(Response) /\ DOMAIN Data(c) = 1..(c.to + 1 - c.from)
        /\ \A i \in DOMAIN Data(c) :
             /\ Data(c)[i].kind = "body" /\ Data(c)[i].uid = c.from - 1 + i /\ Data(c)[i].uid \in Uids
    <3>1. LET d == Items("body", c.from, c.to) IN
          /\ d \in Seq(Response) /\ DOMAIN d = 1..(c.to + 1 - c.from)
          /\ \A i \in 1..(c.to + 1 - c.from) :
               d[i].kind = "body" /\ d[i].uid = c.from - 1 + i /\ c.from - 1 + i \in Uids
      BY <2>1, ItemsFacts, "body" \in {"uid", "body"}
    <3> QED
      BY <2>2, <3>1
  <2>4. \A i \in DOMAIN Data(c) : \A w \in c.from..(Data(c)[i].uid - 1) :
          \E j \in DOMAIN Data(c) : j < i /\ Data(c)[j].uid = w
    <3> TAKE i \in DOMAIN Data(c)
    <3> TAKE w \in c.from..(Data(c)[i].uid - 1)
    <3>1. i \in Nat /\ Data(c)[i].uid = c.from - 1 + i /\ i <= c.to + 1 - c.from
      BY <1>0, <2>3
    <3>2. w + 1 - c.from \in 1..(c.to + 1 - c.from) /\ w + 1 - c.from < i
      BY <1>0, <3>1
    <3>3. w + 1 - c.from \in DOMAIN Data(c)
      BY <2>3, <3>2
    <3>4. Data(c)[w + 1 - c.from].uid = c.from - 1 + (w + 1 - c.from)
      BY <2>3, <3>3
    <3>5. c.from - 1 + (w + 1 - c.from) = w
      BY <1>0
    <3> QED
      BY <3>2, <3>3, <3>4, <3>5
  <2>5. \A u \in c.from..c.to : \E i \in DOMAIN Data(c) : Data(c)[i].uid = u
    <3> TAKE u \in c.from..c.to
    <3>1. u + 1 - c.from \in DOMAIN Data(c)
      BY <1>0, <2>3
    <3>2. Data(c)[u + 1 - c.from].uid = u
      BY <1>0, <2>3, <3>1
    <3> QED
      BY <3>1, <3>2
  <2> QED
    BY <1>1, <2>3, <2>4, <2>5 DEF Answered, Reply
<1>2. CASE c.name = "list"
  <2> DEFINE from == IF c.from <= top THEN c.from ELSE Max({top, 1})
  <2>1. Data(c) = Items("uid", from, top)
    BY <1>2 DEF Data
  <2>2. Max({top, 1}) \in {top, 1} /\ Max({top, 1}) >= top /\ Max({top, 1}) >= 1
    <3>1. {top, 1} \subseteq 0..MaxUid
      BY <1>0
    <3> QED
      BY <1>0, <3>1, GreatestUid
  <2>3. from \in Uids /\ top \in 0..MaxUid /\ (from # c.from => c.from > top)
    BY <1>0, <1>2, <2>2 DEF Uids
  <2>3a. from # c.from => from >= top
    BY <2>2
  <2> HIDE DEF from
  <2>4. /\ Data(c) \in Seq(Response) /\ DOMAIN Data(c) = 1..(top + 1 - from)
        /\ \A i \in DOMAIN Data(c) :
             /\ Data(c)[i].kind = "uid" /\ Data(c)[i].uid = from - 1 + i /\ Data(c)[i].uid \in Uids
    <3>1. LET d == Items("uid", from, top) IN
          /\ d \in Seq(Response) /\ DOMAIN d = 1..(top + 1 - from)
          /\ \A i \in 1..(top + 1 - from) :
               d[i].kind = "uid" /\ d[i].uid = from - 1 + i /\ from - 1 + i \in Uids
      BY <2>3, ItemsFacts, "uid" \in {"uid", "body"}
    <3> QED
      BY <2>1, <3>1
  <2>5. \A i \in DOMAIN Data(c) : \A w \in c.from..(Data(c)[i].uid - 1) :
          \E j \in DOMAIN Data(c) : j < i /\ Data(c)[j].uid = w
    <3> TAKE i \in DOMAIN Data(c)
    <3> TAKE w \in c.from..(Data(c)[i].uid - 1)
    <3>1. /\ i \in Nat /\ i >= 1 /\ i <= top + 1 - from /\ from \in Nat
          /\ Data(c)[i].uid = from - 1 + i /\ w \in Nat /\ c.from <= w /\ w <= from - 1 + i - 1
      BY <1>0, <2>3, <2>4 DEF Uids
    <3>2. from = c.from
      BY <1>0, <2>3, <3>1
    <3>3. w + 1 - from \in 1..(top + 1 - from) /\ w + 1 - from < i
      BY <1>0, <3>1, <3>2
    <3>4. w + 1 - from \in DOMAIN Data(c)
      BY <2>4, <3>3
    <3>5. Data(c)[w + 1 - from].uid = from - 1 + (w + 1 - from)
      BY <2>4, <3>4
    <3>6. from - 1 + (w + 1 - from) = w
      BY <3>1
    <3> QED
      BY <3>3, <3>4, <3>5, <3>6
  <2>6. \A u \in c.from..top : \E i \in DOMAIN Data(c) : Data(c)[i].uid = u
    <3> TAKE u \in c.from..top
    <3>1. from = c.from /\ from \in Nat
      BY <1>0, <2>3 DEF Uids
    <3>2. u + 1 - from \in DOMAIN Data(c)
      BY <1>0, <2>4, <3>1
    <3>3. Data(c)[u + 1 - from].uid = from - 1 + (u + 1 - from)
      BY <2>4, <3>2
    <3>4. from - 1 + (u + 1 - from) = u
      BY <1>0, <3>1
    <3> QED
      BY <3>2, <3>3, <3>4
  <2> QED
    BY <1>2, <2>4, <2>5, <2>6 DEF Answered, Reply
<1>3. CASE c.name = "search"
  BY <1>3, NoteFacts DEF Data, Answered, Reply
<1>4. CASE c.name = "select"
  BY <1>4, NoteFacts DEF Data, Answered, Reply
<1>5. CASE c.name \in {"login", "idle", "done"}
  BY <1>5 DEF Data, Answered, Reply
<1> QED
  BY <1>0, <1>1, <1>2, <1>3, <1>4, <1>5


\* a answers c, with its completion at t: behind the data, or, of a fetch, before it.
Answering(c, a, t) ==
  /\ t \in DOMAIN a /\ a[t].kind = "tagged"
  /\ \A i \in DOMAIN a : i # t => a[i].kind = Reply(c.name)
  /\ \/ \A i \in DOMAIN a : i # t => i < t
     \/ c.name \in {"list", "fetch"} /\ \A i \in DOMAIN a : i # t => i > t
  /\ c.name \in {"list", "fetch"} =>
       \A i \in DOMAIN a : i # t =>
         /\ a[i].uid \in Uids
         /\ \A w \in c.from..(a[i].uid - 1) : \E j \in DOMAIN a : j # t /\ j < i /\ a[j].uid = w
  /\ c.name = "list" => \A u \in c.from..top : \E i \in DOMAIN a : i # t /\ a[i].uid = u
  /\ c.name = "fetch" => \A u \in c.from..c.to : \E i \in DOMAIN a : i # t /\ a[i].uid = u
  /\ c.name = "search" => \E i \in DOMAIN a : a[i] = Note("search")

LEMMA AnswerFacts ==
  ASSUME NEW c \in Command, top \in 0..MaxUid, c.name \in {"list", "fetch"} => c.from > 0,
         c.name = "fetch" => c.from <= c.to,
         NEW a \in Answers(c)
  PROVE  /\ a \in Seq(Response) /\ a # <<>>
         /\ c.name = "idle" => Len(a) = 1 /\ a[1].kind \in IdleReply
         /\ c.name # "idle" => \E t \in DOMAIN a : Answering(c, a, t)
<1> DEFINE d == Data(c)
           done == Note("tagged")
<1>1. /\ d \in Seq(Response) /\ Answered(c, d)
      /\ \A i \in DOMAIN d : d[i].kind = Reply(c.name)
      /\ DOMAIN d = 1..Len(d) /\ Len(d) \in Nat
  BY DataFacts, SeqFacts
<1>2. done \in Response /\ done.kind = "tagged"
  BY NoteFacts
<1>3. CASE c.name = "idle"
  <2>1. PICK reply \in IdleAnswers : a = <<Note(reply)>>
    BY <1>3 DEF Answers
  <2>2. reply \in IdleReply
    BY SessionAssumption DEF IdleReply
  <2>3. Note(reply) \in Response /\ Note(reply).kind = reply
    BY <2>2, NoteFacts DEF IdleReply
  <2> QED
    BY <1>3, <2>1, <2>2, <2>3
<1>4. ASSUME c.name # "idle", a = d \o <<done>>
      PROVE  a \in Seq(Response) /\ a # <<>> /\ \E t \in DOMAIN a : Answering(c, a, t)
  <2> DEFINE n == Len(d) + 1
  <2>1. a = Append(d, done)
    BY <1>1, <1>2, <1>4, AppendIsConcat
  <2> HIDE DEF d, done
  <2>2. /\ a \in Seq(Response) /\ n \in DOMAIN a /\ a[n] = done
        /\ \A i \in DOMAIN d : i \in DOMAIN a /\ a[i] = d[i] /\ i < n
        /\ \A i \in DOMAIN a : i \in DOMAIN d \/ i = n
    BY <1>1, <1>2, <2>1, AppendFacts
  <2>3. a # <<>>
    BY <2>2
  <2> HIDE DEF n
  <2>4. \A i \in DOMAIN a : i # n => a[i].kind = Reply(c.name) /\ i < n
    BY <1>1, <2>2
  <2>5. c.name \in {"list", "fetch"} =>
          \A i \in DOMAIN a : i # n =>
            /\ a[i].uid \in Uids
            /\ \A w \in c.from..(a[i].uid - 1) : \E j \in DOMAIN a : j # n /\ j < i /\ a[j].uid = w
    <3> SUFFICES ASSUME c.name \in {"list", "fetch"}, NEW i \in DOMAIN a, i # n,
                        NEW w \in c.from..(a[i].uid - 1)
                 PROVE  \E j \in DOMAIN a : j # n /\ j < i /\ a[j].uid = w
      BY <1>1, <2>2 DEF Answered
    <3>1. i \in DOMAIN d /\ a[i] = d[i]
      BY <2>2
    <3>2. PICK j \in DOMAIN d : j < i /\ d[j].uid = w
      BY <1>1, <3>1 DEF Answered
    <3>3. j \in DOMAIN a /\ a[j] = d[j] /\ j # n
      BY <1>1, <2>2, <3>2
    <3> QED
      BY <3>2, <3>3
  <2>6. /\ c.name = "list" => \A u \in c.from..top : \E i \in DOMAIN a : i # n /\ a[i].uid = u
        /\ c.name = "fetch" => \A u \in c.from..c.to : \E i \in DOMAIN a : i # n /\ a[i].uid = u
        /\ c.name = "search" => \E i \in DOMAIN a : a[i] = Note("search")
    BY <1>1, <2>2 DEF Answered
  <2>7. Answering(c, a, n)
    BY <1>2, <2>2, <2>4, <2>5, <2>6 DEF Answering
  <2> QED
    BY <2>2, <2>3, <2>7
<1>5. ASSUME c.name \in {"list", "fetch"}, a = <<done>> \o d
      PROVE  a \in Seq(Response) /\ a # <<>> /\ \E t \in DOMAIN a : Answering(c, a, t)
  <2>1. <<done>> \in Seq(Response) /\ Len(<<done>>) = 1 /\ <<done>>[1] = done
    BY <1>2
  <2>2. /\ a \in Seq(Response) /\ Len(a) = 1 + Len(d)
        /\ \A i \in 1..(1 + Len(d)) : a[i] = IF i <= 1 THEN <<done>>[i] ELSE d[i - 1]
    BY <1>1, <1>5, <2>1, ConcatProperties
  <2> HIDE DEF d, done
  <2>3. DOMAIN a = 1..(1 + Len(d))
    BY <2>2, SeqFacts
  <2>4. 1 \in DOMAIN a /\ a[1] = done /\ a # <<>>
    BY <1>1, <2>1, <2>2, <2>3
  <2>5. \A i \in DOMAIN a : i # 1 => i > 1 /\ i - 1 \in DOMAIN d /\ a[i] = d[i - 1]
    BY <1>1, <2>2, <2>3
  <2>6. \A i \in DOMAIN d : i + 1 \in DOMAIN a /\ i + 1 # 1 /\ a[i + 1] = d[i]
    <3> TAKE i \in DOMAIN d
    <3>1. i \in Nat /\ i >= 1 /\ i + 1 \in 1..(1 + Len(d)) /\ (i + 1) - 1 = i
      BY <1>1
    <3> QED
      BY <2>2, <2>3, <3>1
  <2>7. \A i \in DOMAIN a : i # 1 =>
          /\ a[i].uid \in Uids
          /\ \A w \in c.from..(a[i].uid - 1) : \E j \in DOMAIN a : j # 1 /\ j < i /\ a[j].uid = w
    <3> SUFFICES ASSUME NEW i \in DOMAIN a, i # 1, NEW w \in c.from..(a[i].uid - 1)
                 PROVE  \E j \in DOMAIN a : j # 1 /\ j < i /\ a[j].uid = w
      BY <1>1, <1>5, <2>5 DEF Answered
    <3>1. i - 1 \in DOMAIN d /\ a[i] = d[i - 1]
      BY <2>5
    <3>2. PICK j \in DOMAIN d : j < i - 1 /\ d[j].uid = w
      BY <1>1, <1>5, <3>1 DEF Answered
    <3>3. j + 1 \in DOMAIN a /\ j + 1 # 1 /\ a[j + 1] = d[j]
      BY <2>6, <3>2
    <3>4. j + 1 < i
      BY <1>1, <2>3, <3>2
    <3> QED
      BY <3>2, <3>3, <3>4
  <2>8. /\ c.name = "list" => \A u \in c.from..top : \E i \in DOMAIN a : i # 1 /\ a[i].uid = u
        /\ c.name = "fetch" => \A u \in c.from..c.to : \E i \in DOMAIN a : i # 1 /\ a[i].uid = u
    BY <1>1, <2>6 DEF Answered
  <2>9. /\ \A i \in DOMAIN a : i # 1 => a[i].kind = Reply(c.name)
        /\ \A i \in DOMAIN a : i # 1 => i > 1
    BY <1>1, <2>5
  <2>10. Answering(c, a, 1)
    <3> USE <1>5, <2>9
    <3>1. /\ 1 \in DOMAIN a /\ a[1].kind = "tagged" /\ c.name # "search"
      BY <1>2, <2>4
    <3> QED
      BY <2>7, <2>8, <3>1 DEF Answering
  <2> QED
    BY <2>2, <2>4, <2>10
<1>6. CASE c.name \in {"list", "fetch"}
  BY <1>4, <1>5, <1>6 DEF Answers
<1>7. CASE c.name \notin {"idle", "list", "fetch"}
  BY <1>4, <1>7 DEF Answers
<1> QED
  BY <1>3, <1>6, <1>7


-----------------------------------------------------------------------------
(* The flow of the data, as responses are sent and read. *)

\* A response is taken from the wire; data, by the client.  Or nothing is read, and what
\* the client has moves under the checkpoint.
LEMMA FlowRead ==
  ASSUME TypeOK, NEW k, Flow(k), Have \subseteq Have', answer' = answer,
         \A v \in got' : Below(v) \subseteq Have',
         \/ wire' = wire
         \/ /\ wire # <<>> /\ wire' = Tail(wire)
            /\ wire[1].kind = k => wire[1].uid \in Have'
  PROVE  Flow(k)' /\ \A u : u \in Have \/ InWire(k, u) \/ InAnswer(k, u) =>
                              u \in Have' \/ InWire(k, u)' \/ InAnswer(k, u)'
<1>1. CASE wire' = wire
  <2>1. (\A u : InWire(k, u) <=> InWire(k, u)') /\ (\A u : InAnswer(k, u) <=> InAnswer(k, u)')
    BY <1>1 DEF InWire, InAnswer
  <2>2. Flow(k)'
    BY <1>1, <2>1 DEF Flow, Below
  <2> QED
    BY <2>1, <2>2
<1>2. CASE wire # <<>> /\ wire' = Tail(wire) /\ (wire[1].kind = k => wire[1].uid \in Have')
  <2>1. /\ \A i \in DOMAIN wire' :
             i \in Nat /\ i > 0 /\ i + 1 \in DOMAIN wire /\ wire'[i] = wire[i + 1]
        /\ \A i \in DOMAIN wire : i = 1 \/ (i - 1 \in DOMAIN wire' /\ wire'[i - 1] = wire[i])
        /\ \A i \in DOMAIN wire : i \in Nat
    BY <1>2, TailFacts, SeqFacts DEF TypeOK
  <2>2. \A u : InWire(k, u) => u \in Have' \/ InWire(k, u)'
    BY <1>2, <2>1 DEF InWire
  <2>3. \A i \in DOMAIN wire' : wire'[i].kind = k => \A w \in Below(wire'[i].uid) :
          \/ w \in Have'
          \/ \E j \in DOMAIN wire' : j < i /\ wire'[j].kind = k /\ wire'[j].uid = w
    <3> SUFFICES ASSUME NEW i \in DOMAIN wire', wire'[i].kind = k, NEW w \in Below(wire'[i].uid),
                        w \notin Have'
                 PROVE  \E j \in DOMAIN wire' : j < i /\ wire'[j].kind = k /\ wire'[j].uid = w
      OBVIOUS
    <3>0. i + 1 \in DOMAIN wire /\ wire[i + 1].kind = k /\ w \in Below(wire[i + 1].uid) /\ w \notin Have
      BY <2>1
    <3>1. PICK j \in DOMAIN wire : j < i + 1 /\ wire[j].kind = k /\ wire[j].uid = w
      BY <3>0 DEF Flow
    <3>2. j # 1
      BY <1>2, <3>1
    <3>3. j - 1 \in DOMAIN wire' /\ wire'[j - 1] = wire[j] /\ j - 1 < i
      BY <2>1, <3>1, <3>2
    <3> QED
      BY <3>1, <3>3
  <2>4. \A i \in DOMAIN answer' : answer'[i].kind = k => \A w \in Below(answer'[i].uid) :
          \/ w \in Have'
          \/ InWire(k, w)'
          \/ \E j \in DOMAIN answer' : j < i /\ answer'[j].kind = k /\ answer'[j].uid = w
    BY <2>2 DEF Flow
  <2>5. \A u : InAnswer(k, u) <=> InAnswer(k, u)'
    BY DEF InAnswer
  <2>6. Flow(k)'
    BY <2>3, <2>4 DEF Flow, InWire, Below
  <2> QED
    BY <2>2, <2>5, <2>6
<1> QED
  BY <1>1, <1>2

\* A response is sent: one that was not asked for, or the next one of an answer.
LEMMA FlowSent ==
  ASSUME TypeOK, NEW k, Flow(k), UNCHANGED <<got, Have>>, NEW r \in Response,
         wire' = Append(wire, r),
         \/ r.kind # k /\ answer' = answer
         \/ answer # <<>> /\ r = answer[1] /\ answer' = Tail(answer)
  PROVE  Flow(k)' /\ \A u : u \in Have \/ InWire(k, u) \/ InAnswer(k, u) =>
                              u \in Have' \/ InWire(k, u)' \/ InAnswer(k, u)'
<1> DEFINE n == Len(wire) + 1
<1>1. /\ \A i \in DOMAIN wire : i \in DOMAIN wire' /\ wire'[i] = wire[i] /\ i < n /\ i \in Nat
      /\ n \in DOMAIN wire' /\ wire'[n] = r
      /\ \A i \in DOMAIN wire' : i \in DOMAIN wire \/ i = n
  BY AppendFacts, SeqFacts DEF TypeOK
<1> HIDE DEF n
<1>2. \A u : InWire(k, u) => InWire(k, u)'
  BY <1>1 DEF InWire
<1>3. CASE r.kind # k /\ answer' = answer
  <2>1. \A i \in DOMAIN wire' : wire'[i].kind = k => i \in DOMAIN wire
    BY <1>1, <1>3
  <2>2. \A u : InAnswer(k, u) <=> InAnswer(k, u)'
    BY <1>3 DEF InAnswer
  <2>3. Flow(k)'
    <3>1. \A v \in got' : (Below(v) \subseteq Have)'
      BY DEF Flow, Below
    <3>2. ASSUME NEW i \in DOMAIN wire', wire'[i].kind = k, NEW w \in Below(wire'[i].uid)
          PROVE  \/ w \in Have
                 \/ \E j \in DOMAIN wire' : j < i /\ wire'[j].kind = k /\ wire'[j].uid = w
      BY <1>1, <2>1, <3>2 DEF Flow
    <3>3. ASSUME NEW i \in DOMAIN answer', answer'[i].kind = k, NEW w \in Below(answer'[i].uid)
          PROVE  \/ w \in Have \/ InWire(k, w)'
                 \/ \E j \in DOMAIN answer' : j < i /\ answer'[j].kind = k /\ answer'[j].uid = w
      BY <1>2, <1>3, <3>3 DEF Flow
    <3> QED
      BY <3>1, <3>2, <3>3 DEF Flow, Below
  <2> QED
    BY <1>2, <2>2, <2>3
<1>4. CASE answer # <<>> /\ r = answer[1] /\ answer' = Tail(answer)
  <2>1. /\ \A i \in DOMAIN answer' :
             i \in Nat /\ i > 0 /\ i + 1 \in DOMAIN answer /\ answer'[i] = answer[i + 1]
        /\ \A i \in DOMAIN answer :
             i \in Nat /\ i >= 1
             /\ (i = 1 \/ (i - 1 \in DOMAIN answer' /\ answer'[i - 1] = answer[i]))
        /\ 1 \in DOMAIN answer
    BY <1>4, TailFacts, SeqFacts DEF TypeOK
  <2>2. \A u : InAnswer(k, u) => InAnswer(k, u)' \/ InWire(k, u)'
    <3> SUFFICES ASSUME NEW u, NEW i \in DOMAIN answer, answer[i].kind = k, answer[i].uid = u
                 PROVE  InAnswer(k, u)' \/ InWire(k, u)'
      BY DEF InAnswer
    <3>1. CASE i = 1
      BY <1>1, <1>4, <3>1 DEF InWire
    <3>2. CASE i # 1
      BY <2>1, <3>2 DEF InAnswer
    <3> QED
      BY <3>1, <3>2
  <2>3. \A i \in DOMAIN wire' : wire'[i].kind = k => \A w \in Below(wire'[i].uid) :
          \/ w \in Have
          \/ \E j \in DOMAIN wire' : j < i /\ wire'[j].kind = k /\ wire'[j].uid = w
    <3> SUFFICES ASSUME NEW i \in DOMAIN wire', wire'[i].kind = k, NEW w \in Below(wire'[i].uid),
                        w \notin Have
                 PROVE  \E j \in DOMAIN wire' : j < i /\ wire'[j].kind = k /\ wire'[j].uid = w
      OBVIOUS
    <3>1. CASE i \in DOMAIN wire
      BY <1>1, <3>1 DEF Flow
    <3>2. CASE i = n
      <4>1. wire'[i] = answer[1]
        BY <1>1, <1>4, <3>2
      <4>2. ~\E j \in DOMAIN answer : j < 1
        BY <2>1
      <4>3. InWire(k, w)
        BY <2>1, <4>1, <4>2 DEF Flow
      <4> QED
        BY <1>1, <3>2, <4>3 DEF InWire
    <3> QED
      BY <1>1, <3>1, <3>2
  <2>4. \A i \in DOMAIN answer' : answer'[i].kind = k => \A w \in Below(answer'[i].uid) :
          \/ w \in Have
          \/ InWire(k, w)'
          \/ \E j \in DOMAIN answer' : j < i /\ answer'[j].kind = k /\ answer'[j].uid = w
    <3> SUFFICES ASSUME NEW i \in DOMAIN answer', answer'[i].kind = k,
                        NEW w \in Below(answer'[i].uid), w \notin Have, ~InWire(k, w)'
                 PROVE  \E j \in DOMAIN answer' : j < i /\ answer'[j].kind = k /\ answer'[j].uid = w
      OBVIOUS
    <3>1. PICK j \in DOMAIN answer : j < i + 1 /\ answer[j].kind = k /\ answer[j].uid = w
      <4>1. ~InWire(k, w)
        BY <1>2
      <4>2. i + 1 \in DOMAIN answer /\ answer[i + 1] = answer'[i]
        BY <2>1
      <4>3. answer[i + 1].kind = k /\ w \in Below(answer[i + 1].uid)
        BY <4>2
      <4> QED
        BY <4>1, <4>2, <4>3 DEF Flow
    <3>2. j # 1
      BY <1>1, <1>4, <3>1 DEF InWire
    <3>3. j - 1 \in DOMAIN answer' /\ answer'[j - 1] = answer[j] /\ j - 1 < i
      BY <2>1, <3>1, <3>2
    <3> QED
      BY <3>1, <3>3
  <2>5. Flow(k)'
    BY <2>3, <2>4 DEF Flow, InWire, Below
  <2> QED
    BY <1>2, <2>2, <2>5
<1> QED
  BY <1>3, <1>4

\* The server takes up a command: its data goes on from what came before.
LEMMA FlowAnswered ==
  ASSUME NEW k, Flow(k), answer = <<>>, UNCHANGED <<got, wire, Have>>,
         \A i \in DOMAIN answer' : answer'[i].kind = k => \A w \in Below(answer'[i].uid) :
           \/ w \in Have \/ InWire(k, w)
           \/ \E j \in DOMAIN answer' : j < i /\ answer'[j].kind = k /\ answer'[j].uid = w
  PROVE  Flow(k)' /\ \A u : u \in Have \/ InWire(k, u) \/ InAnswer(k, u) =>
                              u \in Have' \/ InWire(k, u)' \/ InAnswer(k, u)'
<1>1. \A u : InWire(k, u) <=> InWire(k, u)'
  BY DEF InWire
<1>2. \A u : ~InAnswer(k, u)
  BY DEF InAnswer
<1>3. Flow(k)'
  BY <1>1 DEF Flow, Below
<1> QED
  BY <1>1, <1>2, <1>3


-----------------------------------------------------------------------------
(* Types, phases and flow are kept. *)

PipeInv == TypeOK /\ DataTypes /\ PhaseInv /\ FlowInv

\* One more response on the wire.
LEMMA ResponseKeeps ==
  ASSUME PipeInv, NEW r \in Response, wire' = Append(wire, r),
         \/ r.kind \in {"exists", "untagged"} /\ answer' = answer
         \/ answer # <<>> /\ r = answer[1] /\ answer' = Tail(answer),
         UNCHANGED <<sent, clientVars, dbVars>>
  PROVE  DataTypes' /\ PhaseInv' /\ FlowInv'
<1> DEFINE n == Len(wire) + 1
           emitted == answer # <<>> /\ r = answer[1] /\ answer' = Tail(answer)
           noted == r.kind \in {"exists", "untagged"} /\ answer' = answer
<1>0. /\ UNCHANGED <<pc, draining, polling, validity, got, todo, noticed, state, ingested, limited, sent>>
      /\ LastSeen' = LastSeen /\ Have' = Have
      /\ TypeOK /\ (noted \/ emitted)
  BY DEF PipeInv, clientVars, dbVars, LastSeen, Have
<1>1. /\ \A i \in DOMAIN wire : i \in DOMAIN wire' /\ wire'[i] = wire[i] /\ i < n /\ i \in Nat
      /\ n \in DOMAIN wire' /\ wire'[n] = r
      /\ \A i \in DOMAIN wire' : i \in DOMAIN wire \/ i = n
  BY <1>0, AppendFacts, SeqFacts DEF TypeOK
<1>2. emitted =>
        /\ \A i \in DOMAIN answer' :
             i \in Nat /\ i > 0 /\ i + 1 \in DOMAIN answer /\ answer'[i] = answer[i + 1]
        /\ 1 \in DOMAIN answer /\ Len(answer') = Len(answer) - 1
  BY <1>0, TailFacts, SeqFacts DEF TypeOK
<1> HIDE DEF n
<1>3. DataTypes'
  <2>1. \A i \in DOMAIN wire' : wire'[i].kind \in {"uid", "body"} => wire'[i].uid \in Uids
    BY <1>0, <1>1, <1>2 DEF PipeInv, DataTypes
  <2>2. \A i \in DOMAIN answer' : answer'[i].kind \in {"uid", "body"} => answer'[i].uid \in Uids
    BY <1>0, <1>2 DEF PipeInv, DataTypes
  <2> QED
    BY <1>0, <2>1, <2>2 DEF PipeInv, DataTypes
<1>4. \A K : NoneUnderWay(K) /\ "exists" \notin K /\ "untagged" \notin K => NoneUnderWay(K)'
  BY <1>0, <1>1, <1>2 DEF NoneUnderWay
<1>5. IdleLast => IdleLast'
  <2> SUFFICES ASSUME IdleLast PROVE IdleLast'
    OBVIOUS
  <2>1. \A i \in DOMAIN answer' : answer'[i].kind \in IdleReply => Len(answer') = 1 /\ sent' = <<>>
    <3>1. CASE noted
      BY <1>0, <3>1 DEF IdleLast
    <3>2. CASE emitted
      <4> SUFFICES ASSUME NEW i \in DOMAIN answer', answer'[i].kind \in IdleReply PROVE FALSE
        OBVIOUS
      <4>1. i + 1 \in DOMAIN answer /\ answer[i + 1].kind \in IdleReply /\ i > 0 /\ i \in Nat
        BY <1>2, <3>2
      <4>2. Len(answer) = 1 /\ DOMAIN answer = 1..Len(answer)
        BY <1>0, <4>1, SeqFacts DEF IdleLast, TypeOK
      <4> QED
        BY <4>1, <4>2
    <3> QED
      BY <1>0, <3>1, <3>2
  <2>2. ASSUME NEW i \in DOMAIN wire', wire'[i].kind \in IdleReply
        PROVE  /\ answer' = <<>> /\ sent' = <<>>
               /\ \A j \in DOMAIN wire' : j > i => wire'[j].kind \in {"exists", "untagged"}
    <3>1. CASE i \in DOMAIN wire
      <4>1. /\ answer = <<>> /\ sent = <<>>
            /\ \A j \in DOMAIN wire : j > i => wire[j].kind \in {"exists", "untagged"}
        BY <1>1, <2>2, <3>1 DEF IdleLast
      <4> QED
        BY <1>0, <1>1, <4>1
    <3>2. CASE i = n
      <4>1. emitted
        BY <1>0, <1>1, <2>2, <3>2 DEF IdleReply
      <4>2. Len(answer) = 1 /\ sent = <<>>
        BY <1>1, <1>2, <2>2, <3>2, <4>1 DEF IdleLast
      <4>3. answer' = <<>>
        <5>1. answer' \in Seq(Response) /\ Len(answer') = 0
          <6>1. answer \in Seq(Response) /\ answer # <<>> /\ answer' = Tail(answer)
            BY <1>0, <4>1 DEF TypeOK
          <6>2. Len(answer') = Len(answer) - 1
            BY <1>2, <4>1
          <6> QED
            BY <4>2, <6>1, <6>2, TailFacts
        <5> QED
          BY <5>1, SeqFacts
      <4>4. \A j \in DOMAIN wire' : ~(j > n)
        BY <1>1, SeqFacts, <1>0 DEF TypeOK, n
      <4> QED
        BY <1>0, <3>2, <4>2, <4>3, <4>4
    <3> QED
      BY <1>1, <3>1, <3>2
  <2> QED
    BY <1>0, <2>1, <2>2 DEF IdleLast
<1>6. PhaseInv'
  BY <1>0, <1>4, <1>5 DEF PipeInv, PhaseInv, Asked, Listing, IdleReply
<1>7. ASSUME NEW k \in {"uid", "body"}, Flow(k)
      PROVE  Flow(k)' /\ \A u : u \in Have \/ InWire(k, u) \/ InAnswer(k, u) =>
                                  u \in Have' \/ InWire(k, u)' \/ InAnswer(k, u)'
  <2>1. (r.kind # k /\ answer' = answer) \/ emitted
    BY <1>0
  <2>2. UNCHANGED <<got, Have>>
    BY <1>0
  <2> QED
    BY <1>0, <1>7, <2>1, <2>2, FlowSent
<1>8. FlowInv'
  <2>1. ListFlow'
    BY <1>0, <1>7 DEF PipeInv, FlowInv, ListFlow, Listing
  <2>2. SearchFlow'
    BY <1>0 DEF PipeInv, FlowInv, SearchFlow
  <2>3. FetchFlow'
    <3> SUFFICES ASSUME Fetching PROVE FetchFlow'
      BY <1>0 DEF FetchFlow, Fetching
    <3>1. Flow("body")' /\ \A u : Coming(u) => Coming(u)'
      BY <1>7 DEF PipeInv, FlowInv, FetchFlow, Coming
    <3> QED
      BY <1>0, <3>1 DEF PipeInv, FlowInv, FetchFlow
  <2> QED
    BY <2>1, <2>2, <2>3 DEF FlowInv
<1> QED
  BY <1>3, <1>6, <1>8


\* The server takes up a command.
LEMMA AcceptKeeps ==
  ASSUME PipeInv, Accept
  PROVE  answer' \in Seq(Response) /\ sent' \in Seq(Command) /\ DataTypes' /\ PhaseInv' /\ FlowInv'
<1> DEFINE c == sent[1]
<1>0. /\ UNCHANGED <<pc, draining, polling, validity, got, todo, noticed, state, ingested, limited, wire>>
      /\ LastSeen' = LastSeen /\ Have' = Have
      /\ TypeOK /\ answer = <<>> /\ sent # <<>> /\ top' = top
  BY DEF PipeInv, Accept, clientVars, dbVars, LastSeen, Have
<1>1. /\ c \in Command /\ sent' \in Seq(Command) /\ Len(sent') = Len(sent) - 1 /\ Head(sent) = c
      /\ 1 \in DOMAIN sent
      /\ \A i \in DOMAIN sent' :
           i \in Nat /\ i > 0 /\ i + 1 \in DOMAIN sent /\ sent'[i] = sent[i + 1]
      /\ \A i \in DOMAIN sent :
           i \in Nat /\ i >= 1 /\ (i = 1 \/ (i - 1 \in DOMAIN sent' /\ sent'[i - 1] = sent[i]))
  BY <1>0, TailFacts, SeqFacts DEF TypeOK, Accept
<1>2. /\ answer' \in Seq(Response) /\ answer' # <<>>
      /\ c.name = "idle" => Len(answer') = 1 /\ answer'[1].kind \in IdleReply
      /\ c.name # "idle" => \E t \in DOMAIN answer' : Answering(c, answer', t)
  <2>1. answer' \in Answers(c)
    BY <1>1 DEF Accept
  <2>2. /\ top \in 0..MaxUid /\ (c.name \in {"list", "fetch"} => c.from > 0)
        /\ (c.name = "fetch" => c.from <= c.to)
    BY <1>0, <1>1 DEF PipeInv, DataTypes, TypeOK
  <2> HIDE DEF c
  <2> QED
    BY <1>1, <2>1, <2>2, AnswerFacts
<1>3. \A i \in DOMAIN answer' :
        /\ answer'[i].kind \in IdleReply => c.name = "idle"
        /\ answer'[i].kind = "uid" => c.name = "list"
        /\ answer'[i].kind = "body" => c.name = "fetch"
        /\ answer'[i].kind = "search" => c.name = "search"
        /\ answer'[i].kind \in {"uid", "body"} =>
             /\ answer'[i].uid \in Uids
             /\ \A w \in c.from..(answer'[i].uid - 1) :
                  \E j \in DOMAIN answer' : j < i /\ answer'[j].kind = answer'[i].kind /\ answer'[j].uid = w
  <2>1. CASE c.name = "idle"
    <3>1. \A i \in DOMAIN answer' : i = 1
      BY <1>2, <2>1, SeqFacts
    <3> QED
      BY <1>2, <2>1, <3>1 DEF IdleReply
  <2>2. CASE c.name # "idle"
    <3>1. PICK t \in DOMAIN answer' : Answering(c, answer', t)
      BY <1>2, <2>2
    <3>2. Reply(c.name) \notin IdleReply /\ "tagged" \notin IdleReply
          /\ (Reply(c.name) = "uid" => c.name = "list")
          /\ (Reply(c.name) = "body" => c.name = "fetch")
          /\ (Reply(c.name) = "search" => c.name = "search")
      BY DEF Reply, IdleReply
    <3> HIDE DEF c
    <3>3. \A i \in DOMAIN answer' : answer'[i].kind = IF i = t THEN "tagged" ELSE Reply(c.name)
      BY <3>1 DEF Answering
    <3> QED
      BY <3>1, <3>2, <3>3 DEF Answering
  <2> QED
    BY <2>1, <2>2
<1> HIDE DEF c
<1>4. DataTypes'
  BY <1>0, <1>1, <1>3 DEF PipeInv, DataTypes
<1>5. \A name : ~Asked(name) => ~Asked(name)' /\ c.name # name
  BY <1>1 DEF Asked, c
<1>6. IdleLast => IdleLast'
  <2> SUFFICES ASSUME IdleLast PROVE IdleLast'
    OBVIOUS
  <2>1. \A i \in DOMAIN sent' : sent'[i].name = "idle" => i = Len(sent')
    <3> SUFFICES ASSUME NEW i \in DOMAIN sent', sent'[i].name = "idle" PROVE i = Len(sent')
      OBVIOUS
    <3>1. i + 1 = Len(sent) /\ i \in Nat
      BY <1>1 DEF IdleLast
    <3> QED
      BY <1>1, <3>1
  <2>2. \A i \in DOMAIN answer' : answer'[i].kind \in IdleReply => Len(answer') = 1 /\ sent' = <<>>
    <3> SUFFICES ASSUME c.name = "idle" PROVE Len(answer') = 1 /\ sent' = <<>>
      BY <1>3
    <3>1. Len(sent) = 1
      BY <1>1 DEF IdleLast, c
    <3>2. Len(sent') = 0
      BY <1>1, <3>1
    <3> QED
      BY <1>1, <1>2, <3>2, SeqFacts
  <2>3. \A i \in DOMAIN wire' : wire'[i].kind \notin IdleReply
    BY <1>0 DEF IdleLast
  <2> QED
    BY <2>1, <2>2, <2>3 DEF IdleLast
<1>7. PhaseInv'
  <2>1. /\ (NoneUnderWay({"uid", "body"}) /\ ~Asked("list") /\ ~Asked("fetch"))
             => NoneUnderWay({"uid", "body"})'
        /\ NoneUnderWay({"body"}) /\ ~Asked("fetch") => NoneUnderWay({"body"})'
        /\ NoneUnderWay(IdleReply) /\ ~Asked("idle") => NoneUnderWay(IdleReply)'
    BY <1>0, <1>3, <1>5 DEF NoneUnderWay, IdleReply
  <2> QED
    BY <1>0, <1>5, <1>6, <2>1 DEF PipeInv, PhaseInv, Listing
<1>8. ListFlow'
  <2> SUFFICES ASSUME Listing PROVE ListFlow'
    BY <1>0 DEF ListFlow, Listing
  <2>1. Flow("uid") /\ \A i \in DOMAIN sent : sent[i].name = "list" => sent[i].from = LastSeen + 1
    BY DEF PipeInv, FlowInv, ListFlow
  <2>2. ASSUME NEW i \in DOMAIN answer', answer'[i].kind = "uid", NEW w \in Below(answer'[i].uid)
        PROVE  \/ w \in Have
               \/ \E j \in DOMAIN answer' : j < i /\ answer'[j].kind = "uid" /\ answer'[j].uid = w
    <3>1. c.from = LastSeen + 1 /\ answer'[i].uid \in Uids
      BY <1>1, <1>3, <2>1, <2>2 DEF c
    <3>2. LastSeen \in Nat /\ answer'[i].uid \in Nat
      BY <1>0, <3>1, SessionAssumption DEF TypeOK, LastSeen, Uids
    <3>3. w \in 0..LastSeen \/ w \in c.from..(answer'[i].uid - 1)
      BY <3>1, <3>2 DEF Below
    <3> QED
      BY <1>3, <2>2, <3>3 DEF Have
  <2>3. UNCHANGED <<got, wire, Have>>
    BY <1>0
  <2>4. Flow("uid")'
    BY <1>0, <2>1, <2>2, <2>3, FlowAnswered
  <2> QED
    BY <1>0, <1>1, <2>1, <2>4 DEF ListFlow
<1>9. FetchFlow'
  <2> SUFFICES ASSUME Fetching PROVE FetchFlow'
    BY <1>0 DEF FetchFlow, Fetching
  <2>1. Flow("body")
    BY DEF PipeInv, FlowInv, FetchFlow
  <2>2. ASSUME c.name = "fetch", NEW w \in Below(c.from)
        PROVE  w \in Have \/ InWire("body", w)
    <3>1. ~InAnswer("body", w)
      BY <1>0 DEF InAnswer
    <3>2. ~\E j \in DOMAIN sent : j < 1
      BY <1>1
    <3> QED
      BY <1>1, <2>2, <3>1, <3>2 DEF PipeInv, FlowInv, FetchFlow, Coming, c
  <2>3. ASSUME NEW i \in DOMAIN answer', answer'[i].kind = "body", NEW w \in Below(answer'[i].uid)
        PROVE  \/ w \in Have \/ InWire("body", w)
               \/ \E j \in DOMAIN answer' : j < i /\ answer'[j].kind = "body" /\ answer'[j].uid = w
    <3>1. c.name = "fetch" /\ answer'[i].uid \in Nat /\ c.from \in Nat
      BY <1>1, <1>3, <2>3, SessionAssumption DEF Uids, Command
    <3>2. w \in Below(c.from) \/ w \in c.from..(answer'[i].uid - 1)
      BY <3>1 DEF Below
    <3> QED
      BY <1>3, <2>2, <2>3, <3>1, <3>2
  <2>4. UNCHANGED <<got, wire, Have>>
    BY <1>0
  <2>5. Flow("body")' /\ \A u : Coming(u) => Coming(u)'
    BY <1>0, <2>1, <2>3, <2>4, FlowAnswered DEF Coming
  <2>6. ASSUME NEW u, AskedBy(c, u) PROVE Coming(u)'
    <3>1. PICK t \in DOMAIN answer' : Answering(c, answer', t)
      BY <1>2, <2>6 DEF AskedBy
    <3>2. PICK i \in DOMAIN answer' : i # t /\ answer'[i].uid = u
      BY <2>6, <3>1 DEF Answering, AskedBy
    <3>3. answer'[i].kind = "body"
      BY <2>6, <3>1, <3>2 DEF Answering, Reply, AskedBy
    <3> QED
      BY <3>2, <3>3 DEF Coming, InAnswer
  <2>7. ASSUME NEW u, NEW i \in DOMAIN sent, AskedBy(sent[i], u)
        PROVE  Coming(u)' \/ (i - 1 \in DOMAIN sent' /\ AskedBy(sent'[i - 1], u))
    <3>1. CASE i = 1
      BY <2>6, <2>7, <3>1 DEF c
    <3> QED
      BY <1>1, <2>7, <3>1
  <2>8. ASSUME NEW i \in DOMAIN sent', sent'[i].name = "fetch", NEW u \in Below(sent'[i].from)
        PROVE  Coming(u)' \/ \E j \in DOMAIN sent' : j < i /\ AskedBy(sent'[j], u)
    <3> SUFFICES ASSUME ~Coming(u)' PROVE \E j \in DOMAIN sent' : j < i /\ AskedBy(sent'[j], u)
      OBVIOUS
    <3>1. i + 1 \in DOMAIN sent /\ sent'[i] = sent[i + 1] /\ i \in Nat
      BY <1>1
    <3>2. PICK j \in DOMAIN sent : j < i + 1 /\ AskedBy(sent[j], u)
      <4>1. sent[i + 1].name = "fetch" /\ u \in Below(sent[i + 1].from) /\ ~Coming(u)
        BY <2>5, <2>8, <3>1
      <4> QED
        BY <3>1, <4>1 DEF PipeInv, FlowInv, FetchFlow
    <3>3. j - 1 \in DOMAIN sent' /\ AskedBy(sent'[j - 1], u)
      BY <2>7, <3>2
    <3>4. j - 1 < i
      BY <1>1, <3>1, <3>2
    <3> QED
      BY <3>3, <3>4
  <2>9. ASSUME NEW v \in todo, NEW u \in Below(v)
        PROVE  u \in todo \/ Coming(u)' \/ \E i \in DOMAIN sent' : AskedBy(sent'[i], u)
    <3>1. u \in todo \/ Coming(u) \/ \E i \in DOMAIN sent : AskedBy(sent[i], u)
      BY DEF PipeInv, FlowInv, FetchFlow
    <3> QED
      BY <2>5, <2>7, <3>1
  <2> HIDE DEF c
  <2> QED
    BY <1>0, <2>5, <2>8, <2>9 DEF FetchFlow, Coming, InWire, InAnswer, AskedBy, Below
<1>10. SearchFlow'
  BY <1>0 DEF PipeInv, FlowInv, SearchFlow
<1> QED
  BY <1>1, <1>2, <1>4, <1>7, <1>8, <1>9, <1>10 DEF FlowInv


-----------------------------------------------------------------------------
(* The steps of the client. *)

ClientTypes ==
  /\ pc \in Points /\ draining \in {"none", "list", "fetch"} /\ polling \in BOOLEAN
  /\ validity \in {0, 1} /\ got \subseteq Uids /\ todo \subseteq Uids /\ noticed \in BOOLEAN
  /\ state \in [validity : {0, 1}, last : 0..MaxUid] /\ ingested \subseteq Uids /\ limited \subseteq Uids

Traffic == answer \in Seq(Response) /\ wire \in Seq(Response) /\ sent \in Seq(Command)

Safe == ClientTypes /\ Traffic /\ DataTypes /\ PhaseInv /\ FlowInv /\ NoneSkipped

Inv == PipeInv /\ NoneSkipped

\* A timer fires, or the client reads a response.
Moves ==
  /\ UNCHANGED <<top, answer>>
  /\ wire' = wire \/ (wire # <<>> /\ wire' = Tail(wire))

LEMMA MovesFacts ==
  ASSUME PipeInv, Moves
  PROVE  /\ wire' \in Seq(Response) /\ answer' \in Seq(Response)
         /\ \A K : NoneUnderWay(K) => NoneUnderWay(K)'
         /\ \A i \in DOMAIN wire' : wire'[i].kind \in {"uid", "body"} => wire'[i].uid \in Uids
         /\ \A i \in DOMAIN answer' : answer'[i].kind \in {"uid", "body"} => answer'[i].uid \in Uids
<1>1. TypeOK /\ DataTypes
  BY DEF PipeInv
<1>2. CASE wire' = wire
  BY <1>1, <1>2 DEF TypeOK, DataTypes, Moves, NoneUnderWay
<1>3. CASE wire # <<>> /\ wire' = Tail(wire)
  <2>1. /\ wire' \in Seq(Response)
        /\ \A i \in DOMAIN wire' : i + 1 \in DOMAIN wire /\ wire'[i] = wire[i + 1]
    BY <1>1, <1>3, TailFacts DEF TypeOK
  <2> QED
    BY <1>1, <2>1 DEF TypeOK, DataTypes, Moves, NoneUnderWay
<1> QED
  BY <1>2, <1>3 DEF Moves

LEMMA SendFacts ==
  ASSUME PipeInv, NEW c \in Command, sent' = Append(sent, c),
         c.name \in {"list", "fetch"} => c.from > 0, c.name = "fetch" => c.from <= c.to
  PROVE  /\ sent' \in Seq(Command)
         /\ \A i \in DOMAIN sent : i \in DOMAIN sent' /\ sent'[i] = sent[i] /\ i < Len(sent) + 1
         /\ Len(sent) + 1 \in DOMAIN sent' /\ sent'[Len(sent) + 1] = c
         /\ \A i \in DOMAIN sent' : i \in DOMAIN sent \/ i = Len(sent) + 1
         /\ Len(sent') = Len(sent) + 1
         /\ \A name : ~Asked(name) /\ c.name # name => ~Asked(name)'
         /\ \A i \in DOMAIN sent' : sent'[i].name \in {"list", "fetch"} => sent'[i].from > 0
         /\ \A i \in DOMAIN sent' : sent'[i].name = "fetch" => sent'[i].from <= sent'[i].to
<1> DEFINE n == Len(sent) + 1
<1>1. TypeOK /\ DataTypes /\ sent \in Seq(Command)
  BY DEF PipeInv, TypeOK
<1>2. /\ sent' \in Seq(Command) /\ Len(sent') = n
      /\ \A i \in DOMAIN sent : i \in DOMAIN sent' /\ sent'[i] = sent[i]
      /\ n \in DOMAIN sent' /\ sent'[n] = c
      /\ \A i \in DOMAIN sent' : i \in DOMAIN sent \/ i = n
  BY <1>1, AppendFacts
<1>3. \A i \in DOMAIN sent : i < n
  BY <1>1, SeqFacts
<1> HIDE DEF n
<1>4. \A name : ~Asked(name) /\ c.name # name => ~Asked(name)'
  BY <1>2 DEF Asked
<1>5. /\ \A i \in DOMAIN sent' : sent'[i].name \in {"list", "fetch"} => sent'[i].from > 0
      /\ \A i \in DOMAIN sent' : sent'[i].name = "fetch" => sent'[i].from <= sent'[i].to
  BY <1>1, <1>2 DEF DataTypes
<1> QED
  BY <1>2, <1>3, <1>4, <1>5 DEF n

LEMMA PlainFacts ==
  ASSUME NEW name \in {"login", "select", "list", "search", "fetch", "idle", "done"}
  PROVE  Plain(name) \in Command /\ Plain(name).name = name
  BY SessionAssumption DEF Plain, Command

LEMMA LastSeenType ==
  ASSUME TypeOK
  PROVE  LastSeen \in 0..MaxUid /\ LastSeen \in Nat /\ MaxUid \in Nat
  BY SessionAssumption DEF TypeOK, LastSeen

\* What the client has reaches from the checkpoint to each UID it received.
LEMMA NoGap ==
  ASSUME TypeOK, \A v \in got : Below(v) \subseteq Have
  PROVE  \A v \in got : 1..v \subseteq 1..LastSeen \cup got \cup limited
<1>0. LastSeen \in Nat /\ \A u \in got : u \in Nat /\ u >= 1
  BY LastSeenType DEF TypeOK, Uids
<1> SUFFICES ASSUME NEW v \in got, NEW u \in 1..v
             PROVE  u \in 1..LastSeen \cup got \cup limited
  OBVIOUS
<1>1. u = v \/ u \in Below(v)
  BY <1>0 DEF Below
<1>2. u \in Below(v) => u \in 0..LastSeen \cup got \cup limited
  BY DEF Have
<1> QED
  BY <1>0, <1>1, <1>2

\* A list starts where no data is under way.
LEMMA StartListKeeps ==
  ASSUME Inv, Moves, StartList, pc \in {"select", "idle", "drain"}
  PROVE  Safe'
<1> DEFINE c == [name |-> "list", from |-> LastSeen + 1, to |-> 0]
<1>0. /\ pc' = "list" /\ draining' = "none" /\ sent' = Append(sent, c)
      /\ got' = {} /\ todo' = {} /\ noticed' = FALSE
      /\ UNCHANGED <<polling, validity, state, ingested, limited>> /\ LastSeen' = LastSeen
      /\ PipeInv /\ TypeOK /\ PhaseInv /\ NoneSkipped
  BY DEF Inv, PipeInv, StartList, Goto, Send, dbVars, LastSeen
<1>1. c \in Command /\ c.name = "list" /\ c.from = LastSeen + 1 /\ c.from > 0
  BY <1>0, LastSeenType DEF Command
<1> HIDE DEF c
<1>2. /\ NoneUnderWay({"uid", "body"})' /\ NoneUnderWay(IdleReply)'
      /\ wire' \in Seq(Response) /\ answer' \in Seq(Response)
  BY <1>0, MovesFacts DEF PhaseInv
<1>3. sent' \in Seq(Command) /\ DataTypes'
  BY <1>0, <1>1, SendFacts, MovesFacts DEF DataTypes
<1>4. ~Asked("fetch")' /\ ~Asked("idle")'
  BY <1>0, <1>1, SendFacts DEF PhaseInv
<1>5. \A i \in DOMAIN sent' : sent'[i].name = "list" => sent'[i].from = LastSeen' + 1
  <2>1. \A i \in DOMAIN sent : sent[i].name # "list"
    BY <1>0 DEF PhaseInv, Asked
  <2> QED
    BY <1>0, <1>1, <2>1, SendFacts
<1>6. ListFlow'
  <2>1. Flow("uid")'
    BY <1>0, <1>2 DEF Flow, NoneUnderWay
  <2> QED
    BY <1>5, <2>1 DEF ListFlow
<1>7. PhaseInv'
  <2>1. NoneUnderWay({"body"})'
    BY <1>2 DEF NoneUnderWay
  <2> QED
    BY <1>0, <1>2, <1>4, <2>1 DEF PhaseInv, Listing
<1>8. FlowInv'
  BY <1>0, <1>6 DEF FlowInv, SearchFlow, FetchFlow, Fetching
<1>9. ClientTypes' /\ NoneSkipped'
  BY <1>0 DEF ClientTypes, TypeOK, Points, NoneSkipped
<1> QED
  BY <1>2, <1>3, <1>7, <1>8, <1>9 DEF Safe, Traffic

\* A fetch starts: its first message follows what is coming, or the client has.
LEMMA StartFetchKeeps ==
  ASSUME Inv, Moves, NEW S, S \subseteq Uids, S # {}, StartFetch(S),
         pc \notin {"off", "stopped", "setup"},
         UNCHANGED <<polling, noticed>>, validity' = validity,
         state' \in [validity : {0, 1}, last : 0..MaxUid], ingested' \subseteq Uids,
         limited' \subseteq Uids, NoneSkipped',
         Flow("body")',
         \A v \in S : \A u \in Below(v) :
           u \in S \/ Coming(u)' \/ \E i \in DOMAIN sent : AskedBy(sent[i], u),
         \A i \in DOMAIN sent : sent[i].name = "fetch" => \A u \in Below(sent[i].from) :
           Coming(u)' \/ \E j \in DOMAIN sent : j < i /\ AskedBy(sent[j], u)
  PROVE  Safe'
<1> DEFINE c == [name |-> "fetch", from |-> Min(Chunk(S)), to |-> Max(Chunk(S))]
           n == Len(sent) + 1
<1>0. /\ pc' = "fetch" /\ draining' = "none" /\ sent' = Append(sent, c)
      /\ got' = {} /\ todo' = S \ Chunk(S)
      /\ PipeInv /\ TypeOK /\ PhaseInv
  BY DEF Inv, PipeInv, StartFetch, Goto, Send, Chunk
<1>1. /\ c.from \in Chunk(S) /\ c.to \in Chunk(S) /\ \A u \in S : c.from <= u
      /\ \A u \in Chunk(S) : u <= c.to /\ \A v \in S \ Chunk(S) : c.to < v
      /\ c.name = "fetch" /\ Chunk(S) \subseteq S
  BY ChunkFacts
<1>2. c \in Command /\ c.from > 0 /\ c.from <= c.to
  <2>1. c.from \in Uids /\ c.to \in Uids /\ c.from <= c.to
    BY <1>1
  <2>2. c.from \in 0..(MaxUid + 1) /\ c.to \in 0..MaxUid /\ c.from > 0
    BY <2>1, SessionAssumption DEF Uids
  <2> QED
    BY <2>1, <2>2 DEF Command
<1> HIDE DEF c
<1>2a. \A u \in S : u \in Nat
  BY SessionAssumption DEF Uids
<1>3. /\ \A K : NoneUnderWay(K) => NoneUnderWay(K)'
      /\ wire' \in Seq(Response) /\ answer' \in Seq(Response)
  BY <1>0, MovesFacts
<1>4. sent' \in Seq(Command) /\ DataTypes'
  BY <1>0, <1>1, <1>2, SendFacts, MovesFacts DEF DataTypes
<1>5. PhaseInv'
  <2>1. ~Asked("idle")'
    BY <1>0, <1>1, <1>2, SendFacts DEF PhaseInv
  <2> QED
    BY <1>0, <1>3, <2>1 DEF PhaseInv, Listing
<1>6. /\ \A i \in DOMAIN sent : i \in DOMAIN sent' /\ sent'[i] = sent[i] /\ i < n
      /\ n \in DOMAIN sent' /\ sent'[n] = c
      /\ \A i \in DOMAIN sent' : i \in DOMAIN sent \/ i = n
  BY <1>0, <1>1, <1>2, SendFacts
<1> HIDE DEF n
<1>7. ASSUME NEW i \in DOMAIN sent', sent'[i].name = "fetch", NEW u \in Below(sent'[i].from)
      PROVE  Coming(u)' \/ \E j \in DOMAIN sent' : j < i /\ AskedBy(sent'[j], u)
  <2>1. CASE i \in DOMAIN sent
    <3>1. sent[i].name = "fetch" /\ u \in Below(sent[i].from)
      BY <1>6, <1>7, <2>1
    <3>2. Coming(u)' \/ \E j \in DOMAIN sent : j < i /\ AskedBy(sent[j], u)
      BY <2>1, <3>1
    <3> QED
      BY <1>6, <3>2
  <2>2. CASE i = n
    <3>1. c.from \in S /\ u \in Below(c.from)
      BY <1>1, <1>6, <1>7, <2>2
    <3>2. u \notin S
      <4>1. c.from \in Nat /\ u < c.from
        BY <1>2a, <3>1 DEF Below
      <4>2. u \in S => c.from <= u /\ u \in Nat
        BY <1>1, <1>2a
      <4> QED
        BY <4>1, <4>2
    <3>3. Coming(u)' \/ \E j \in DOMAIN sent : AskedBy(sent[j], u)
      BY <3>1, <3>2
    <3> QED
      BY <1>6, <2>2, <3>3
  <2> QED
    BY <1>6, <1>7, <2>1, <2>2
<1>8. ASSUME NEW v \in todo', NEW u \in Below(v)
      PROVE  u \in todo' \/ Coming(u)' \/ \E i \in DOMAIN sent' : AskedBy(sent'[i], u)
  <2>1. v \in S \ Chunk(S)
    BY <1>0, <1>8
  <2>2. u \in S \/ Coming(u)' \/ \E i \in DOMAIN sent : AskedBy(sent[i], u)
    BY <1>8, <2>1
  <2>3. CASE u \in Chunk(S)
    <3>1. c.from <= u /\ u <= c.to /\ u \in Nat /\ c.from \in Nat /\ c.to \in Nat
      BY <1>1, <1>2a, <2>3
    <3>2. AskedBy(c, u)
      BY <1>1, <3>1 DEF AskedBy
    <3> QED
      BY <1>6, <3>2
  <2> QED
    BY <1>0, <1>6, <2>2, <2>3
<1>9. FlowInv'
  <2>1. FetchFlow'
    BY <1>7, <1>8 DEF FetchFlow, Coming, InWire, InAnswer, AskedBy, Below
  <2> QED
    BY <1>0, <2>1 DEF FlowInv, ListFlow, SearchFlow, Listing
<1>10. ClientTypes'
  BY <1>0 DEF ClientTypes, TypeOK, Points
<1> QED
  BY <1>3, <1>4, <1>5, <1>9, <1>10 DEF Safe, Traffic

\* After a list, and what follows it, nothing of a fetch is under way.
LEMMA FirstFetchKeeps ==
  ASSUME Inv, Moves, NEW S, S \subseteq Uids, S # {}, StartFetch(S),
         pc \notin {"off", "stopped", "setup"}, NoneUnderWay({"body"}), ~Asked("fetch"),
         UNCHANGED <<polling, noticed, validity, state, ingested>>,
         limited \subseteq limited', limited' \subseteq Uids,
         \A v \in S : Below(v) \subseteq S \cup 0..LastSeen \cup limited'
  PROVE  Safe'
<1>1. LastSeen' = LastSeen /\ got' = {} /\ NoneSkipped /\ PipeInv
  BY DEF LastSeen, StartFetch, Inv
<1>2. NoneUnderWay({"body"})'
  BY <1>1, MovesFacts
<1>3. Flow("body")'
  BY <1>1, <1>2 DEF Flow, NoneUnderWay
<1>4. \A v \in S : \A u \in Below(v) : u \in S \/ Coming(u)'
  BY <1>1 DEF Coming, Have
<1>5. \A i \in DOMAIN sent : sent[i].name # "fetch"
  BY DEF Asked
<1>6. /\ state' \in [validity : {0, 1}, last : 0..MaxUid] /\ ingested' \subseteq Uids /\ NoneSkipped'
  BY <1>1 DEF PipeInv, TypeOK, NoneSkipped
<1> QED
  BY <1>3, <1>4, <1>5, <1>6, StartFetchKeeps

\* The end of a sync; nothing but IDLE is left to be sent.
LEMMA EndSyncKeeps ==
  ASSUME Inv, Moves, EndSync, pc \notin {"off", "stopped", "setup"},
         state' \in [validity : {0, 1}, last : 0..MaxUid], ingested' \subseteq Uids,
         limited' \subseteq Uids, NoneSkipped'
  PROVE  Safe'
<1>0. /\ got' = {} /\ todo' = {} /\ noticed' = FALSE /\ polling' = FALSE /\ draining' = "none"
      /\ PipeInv /\ TypeOK /\ DataTypes /\ PhaseInv /\ pc' \in {"off", "setup"}
  BY DEF Inv, PipeInv, EndSync, Closed, Goto
<1>1. /\ \A K : NoneUnderWay(K) => NoneUnderWay(K)'
      /\ wire' \in Seq(Response) /\ answer' \in Seq(Response)
  BY <1>0, MovesFacts
<1>2. FlowInv'
  BY <1>0 DEF FlowInv, ListFlow, SearchFlow, FetchFlow, Listing, Fetching
<1>3. CASE polling
  <2>1. sent' = <<>> /\ pc' = "off" /\ validity' = 0
    BY <1>3 DEF EndSync, Closed, Goto
  <2>2. DataTypes' /\ sent' \in Seq(Command)
    BY <1>0, <2>1, MovesFacts DEF DataTypes
  <2>3. PhaseInv'
    BY <1>0, <2>1 DEF PhaseInv, Listing
  <2>4. ClientTypes'
    BY <1>0, <2>1 DEF ClientTypes, TypeOK, Points
  <2> QED
    BY <1>1, <1>2, <2>2, <2>3, <2>4 DEF Safe, Traffic
<1>4. CASE ~polling
  <2>1. sent' = Append(sent, Plain("idle")) /\ pc' = "setup" /\ validity' = validity
    BY <1>4 DEF EndSync, Goto, Send
  <2>2. Plain("idle") \in Command /\ Plain("idle").name = "idle"
    BY PlainFacts
  <2>3. DataTypes' /\ sent' \in Seq(Command)
    BY <1>0, <2>1, <2>2, SendFacts, MovesFacts DEF DataTypes
  <2>4. IdleLast'
    <3>1. ~Asked("idle") /\ NoneUnderWay(IdleReply)'
      BY <1>0, <1>1 DEF PhaseInv
    <3>2. \A i \in DOMAIN sent' : sent'[i].name = "idle" => i = Len(sent')
      BY <1>0, <2>1, <2>2, <3>1, SendFacts DEF Asked
    <3> QED
      BY <3>1, <3>2 DEF IdleLast, NoneUnderWay
  <2>5. PhaseInv'
    BY <1>0, <2>1, <2>4 DEF PhaseInv, Listing
  <2>6. ClientTypes'
    BY <1>0, <2>1 DEF ClientTypes, TypeOK, Points
  <2> QED
    BY <1>1, <1>2, <2>3, <2>5, <2>6 DEF Safe, Traffic
<1> QED
  BY <1>3, <1>4 DEF TypeOK

LEMMA CheckpointStored ==
  ASSUME TypeOK, NoneSkipped
  PROVE  1..LastSeen \subseteq ingested \cup limited
  BY SessionAssumption DEF TypeOK, NoneSkipped, LastSeen

\* What is left of a set of UIDs by the cap of a first sync is fetched.
LEMMA FetchRecentKeeps ==
  ASSUME Inv, Moves, NEW S, S \subseteq Uids, NEW left, left \subseteq Uids, FetchRecent(S, left),
         pc \notin {"off", "stopped", "setup"}, NoneUnderWay({"body"}), ~Asked("fetch"),
         UNCHANGED <<state, ingested>>,
         \A v \in S : Below(v) \subseteq S \cup 0..LastSeen \cup limited \cup left
  PROVE  Safe'
<1>1. Recent(S) \subseteq S /\ limited' = limited \cup left \cup (S \ Recent(S))
  BY DEF Recent, FetchRecent
<1>2. TypeOK /\ NoneSkipped
  BY DEF Inv, PipeInv
<1>3. limited \subseteq limited' /\ limited' \subseteq Uids
  BY <1>1, <1>2 DEF TypeOK
<1>4. CASE Recent(S) = {}
  <2>1. EndSync
    BY <1>4 DEF FetchRecent
  <2>2. /\ state' \in [validity : {0, 1}, last : 0..MaxUid] /\ ingested' \subseteq Uids
        /\ NoneSkipped'
    BY <1>2, <1>3 DEF TypeOK, NoneSkipped
  <2> QED
    BY <1>3, <2>1, <2>2, EndSyncKeeps
<1>5. CASE Recent(S) # {}
  <2>1. StartFetch(Recent(S)) /\ UNCHANGED <<polling, validity, noticed>>
    BY <1>5 DEF FetchRecent
  <2>2. \A v \in Recent(S) : Below(v) \subseteq Recent(S) \cup 0..LastSeen \cup limited'
    BY <1>1
  <2> QED
    BY <1>1, <1>3, <1>5, <2>1, <2>2, FirstFetchKeeps
<1> QED
  BY <1>4, <1>5

\* A search for the first UIDs to fetch, of those listed.
LEMMA SearchStarts ==
  ASSUME Inv, Moves, NEW S, S \subseteq Uids, S # {},
         \A v \in S : Below(v) \subseteq S \cup 0..LastSeen \cup limited,
         pc \notin {"off", "stopped", "setup"}, NoneUnderWay({"body"}), ~Asked("fetch"),
         Goto("search"), Send(Plain("search")), todo' = S, got' = {},
         UNCHANGED <<polling, noticed, validity, state, ingested, limited>>
  PROVE  Safe'
<1>0. /\ pc' = "search" /\ draining' = "none" /\ sent' = Append(sent, Plain("search"))
      /\ LastSeen' = LastSeen /\ PipeInv /\ TypeOK /\ PhaseInv /\ NoneSkipped
  BY DEF Inv, PipeInv, LastSeen, Goto, Send
<1>1. Plain("search") \in Command /\ Plain("search").name = "search"
  BY PlainFacts
<1>2. /\ \A K : NoneUnderWay(K) => NoneUnderWay(K)'
      /\ wire' \in Seq(Response) /\ answer' \in Seq(Response)
  BY <1>0, MovesFacts
<1>3. sent' \in Seq(Command) /\ DataTypes'
  BY <1>0, <1>1, SendFacts, MovesFacts DEF DataTypes
<1>4. ~Asked("fetch")' /\ ~Asked("idle")'
  BY <1>0, <1>1, SendFacts DEF PhaseInv
<1>5. PhaseInv'
  BY <1>0, <1>2, <1>4 DEF PhaseInv, Listing
<1>6. FlowInv'
  BY <1>0 DEF FlowInv, ListFlow, SearchFlow, FetchFlow, Listing, Fetching, Below
<1>7. ClientTypes' /\ NoneSkipped'
  BY <1>0 DEF ClientTypes, TypeOK, Points, NoneSkipped
<1> QED
  BY <1>2, <1>3, <1>5, <1>6, <1>7 DEF Safe, Traffic

LEMMA ListEndsKeeps ==
  ASSUME Inv, Moves, Listing, ListEnds(got)
  PROVE  Safe'
<1> DEFINE new == {u \in got : u > LastSeen}
<1>0. /\ PipeInv /\ TypeOK /\ PhaseInv /\ NoneSkipped /\ ingested' = ingested
      /\ pc \notin {"off", "stopped", "setup"} /\ NoneUnderWay({"body"}) /\ ~Asked("fetch")
      /\ LastSeen \in Nat /\ LastSeen \in 0..MaxUid /\ got \subseteq Uids /\ limited \subseteq Uids
      /\ \A v \in got : Below(v) \subseteq Have
  BY LastSeenType DEF Inv, PipeInv, PhaseInv, Listing, ListEnds, FlowInv, ListFlow, Flow, TypeOK
<1>1. new \subseteq Uids /\ \A v \in new : Below(v) \subseteq new \cup 0..LastSeen \cup limited
  <2> SUFFICES ASSUME NEW v \in got, NEW w \in Below(v), w \in got, ~(w > LastSeen)
               PROVE  w \in 0..LastSeen
    BY <1>0 DEF Have
  <2>1. w \in Nat
    BY <1>0, SessionAssumption DEF Uids
  <2> QED
    BY <1>0, <2>1
<1>2. CASE new = {} /\ EndSync /\ state' = [validity |-> validity, last |-> LastSeen] /\ UNCHANGED limited
  <2>1. /\ state' \in [validity : {0, 1}, last : 0..MaxUid] /\ ingested' \subseteq Uids
        /\ limited' \subseteq Uids /\ NoneSkipped'
    BY <1>0, <1>2, CheckpointStored DEF TypeOK, NoneSkipped
  <2> QED
    BY <1>0, <1>2, <2>1, EndSyncKeeps
<1>3. CASE new # {} /\ StartFetch(new) /\ UNCHANGED <<polling, validity, noticed, state, limited>>
  <2> HIDE DEF new
  <2> QED
    BY <1>0, <1>1, <1>3, FirstFetchKeeps
<1>4. CASE /\ new # {} /\ Goto("search") /\ Send(Plain("search")) /\ todo' = new /\ got' = {}
           /\ UNCHANGED <<polling, validity, noticed, state, limited>>
  <2> HIDE DEF new
  <2> QED
    BY <1>0, <1>1, <1>4, SearchStarts
<1>5. CASE new # {} /\ FetchRecent(new, {}) /\ UNCHANGED state
  <2>1. \A v \in new : Below(v) \subseteq new \cup 0..LastSeen \cup limited \cup {}
    BY <1>1
  <2> HIDE DEF new
  <2> QED
    BY <1>0, <1>1, <1>5, <2>1, FetchRecentKeeps
<1> QED
  BY <1>2, <1>3, <1>4, <1>5 DEF ListEnds

LEMMA SearchEndsKeeps ==
  ASSUME Inv, Moves, pc = "search", SearchEnds(got)
  PROVE  Safe'
<1>0. /\ PipeInv /\ TypeOK /\ PhaseInv /\ UNCHANGED <<state, ingested>>
      /\ pc \notin {"off", "stopped", "setup"} /\ NoneUnderWay({"body"}) /\ ~Asked("fetch")
      /\ todo \subseteq Uids /\ got \in {{}, todo \ Dated}
      /\ \A u \in todo : Below(u) \subseteq todo \cup 0..LastSeen \cup limited
  BY DEF Inv, PipeInv, PhaseInv, SearchEnds, FlowInv, SearchFlow, TypeOK
<1>1. FetchRecent(got, todo \cap Dated) /\ got \subseteq Uids /\ todo \cap Dated \subseteq Uids
  BY <1>0 DEF SearchEnds
<1>2. \A v \in got : Below(v) \subseteq got \cup 0..LastSeen \cup limited \cup (todo \cap Dated)
  BY <1>0
<1> QED
  BY <1>0, <1>1, <1>2, FetchRecentKeeps

\* The checkpoint moves over what was received: there is no gap under it.
LEMMA FetchEndsKeeps ==
  ASSUME Inv, Moves, Fetching, FetchEnds(got), wire' = wire \/ wire[1].kind # "body"
  PROVE  Safe'
<1>0. /\ PipeInv /\ TypeOK /\ PhaseInv /\ NoneSkipped /\ Flow("body")
      /\ pc \notin {"off", "stopped", "setup"}
      /\ ingested' = ingested \cup got /\ state' = [validity |-> validity, last |-> Reached(got)]
      /\ LastSeen \in Nat /\ LastSeen \in 0..MaxUid /\ got \subseteq Uids /\ todo \subseteq Uids
      /\ \A v \in got : Below(v) \subseteq Have
      /\ MaxUid \in Nat /\ UNCHANGED <<top, answer, limited>> /\ limited \subseteq Uids
  BY LastSeenType DEF Inv, PipeInv, Fetching, FetchEnds, FlowInv, FetchFlow, Flow, TypeOK, Moves
<1>1. Reached(got) \in got \cup {LastSeen} /\ \A u \in got \cup {LastSeen} : u <= Reached(got)
  <2>1. got \cup {LastSeen} \subseteq 0..MaxUid /\ got \cup {LastSeen} # {}
    BY <1>0 DEF Uids
  <2> QED
    BY <2>1, GreatestUid DEF Reached
<1>2. Reached(got) \in 0..MaxUid /\ Reached(got) \in Nat /\ LastSeen <= Reached(got)
  <2>1. got \cup {LastSeen} \subseteq 0..MaxUid
    BY <1>0 DEF Uids
  <2> QED
    BY <1>0, <1>1, <2>1
<1>3. 1..Reached(got) \subseteq ingested \cup limited \cup got
  <2>1. 1..LastSeen \subseteq ingested \cup limited
    BY <1>0, CheckpointStored
  <2>2. CASE Reached(got) \in got
    BY <1>0, <2>1, <2>2, NoGap
  <2> QED
    BY <1>1, <2>1, <2>2
<1>4. /\ state' \in [validity : {0, 1}, last : 0..MaxUid] /\ ingested' \subseteq Uids
      /\ limited' \subseteq Uids /\ NoneSkipped'
  BY <1>0, <1>2, <1>3 DEF TypeOK, NoneSkipped
<1>5. CASE todo = {}
  <2>1. EndSync
    BY <1>5 DEF FetchEnds
  <2> QED
    BY <1>0, <1>4, <2>1, EndSyncKeeps
<1>6. CASE todo # {}
  <2>1. StartFetch(todo) /\ UNCHANGED <<polling, noticed>> /\ validity' = validity
    BY <1>6 DEF FetchEnds
  <2>2. got' = {} /\ LastSeen' = Reached(got)
    BY <1>0, <2>1 DEF StartFetch, LastSeen
  <2>3. Have \subseteq Have'
    <3>1. \A u \in got : u \in 0..Reached(got)
      BY <1>0, <1>1, <1>2 DEF Uids
    <3> QED
      BY <1>0, <1>2, <2>2, <3>1 DEF Have
  <2>4. Flow("body")' /\ \A u : u \in Have \/ InWire("body", u) \/ InAnswer("body", u) =>
                                  u \in Have' \/ InWire("body", u)' \/ InAnswer("body", u)'
    <3>1. \/ wire' = wire
          \/ /\ wire # <<>> /\ wire' = Tail(wire)
             /\ wire[1].kind = "body" => wire[1].uid \in Have'
      BY DEF Moves
    <3> QED
      BY <1>0, <2>2, <2>3, <3>1, FlowRead
  <2>5. \A u : Coming(u) => Coming(u)'
    BY <2>4 DEF Coming
  <2>6. \A v \in todo : \A u \in Below(v) :
          u \in todo \/ Coming(u)' \/ \E i \in DOMAIN sent : AskedBy(sent[i], u)
    BY <2>5 DEF Inv, PipeInv, FlowInv, FetchFlow
  <2>7. \A i \in DOMAIN sent : sent[i].name = "fetch" => \A u \in Below(sent[i].from) :
          Coming(u)' \/ \E j \in DOMAIN sent : j < i /\ AskedBy(sent[j], u)
    BY <2>5 DEF Inv, PipeInv, FlowInv, FetchFlow
  <2> QED
    BY <1>0, <1>4, <1>6, <2>1, <2>4, <2>6, <2>7, StartFetchKeeps
<1> QED
  BY <1>5, <1>6

LEMMA EndsKeeps ==
  ASSUME Inv, Moves, NEW cmd \in {"list", "fetch"}, Ends(cmd, got),
         cmd = "list" => Listing, cmd = "fetch" => Fetching,
         wire' = wire \/ wire[1].kind # "body"
  PROVE  Safe'
  BY ListEndsKeeps, FetchEndsKeeps DEF Ends

\* At the points where no data is expected.
LEMMA QuietKeeps ==
  ASSUME Inv, Moves, pc' \in {"login", "select", "idle", "drain"}, draining' = "none",
         NoneUnderWay({"uid", "body"})', NoneUnderWay(IdleReply)',
         ~Asked("list"), ~Asked("fetch"), ~Asked("idle"),
         \/ sent' = sent
         \/ \E name \in {"select", "done"} : sent' = Append(sent, Plain(name)),
         polling' = polling, validity' \in {0, 1}, noticed' \in BOOLEAN,
         UNCHANGED <<got, todo, state, ingested, limited>>
  PROVE  Safe'
<1>0. PipeInv /\ TypeOK /\ DataTypes /\ NoneSkipped
  BY DEF Inv, PipeInv
<1>1. /\ sent' \in Seq(Command) /\ DataTypes' /\ wire' \in Seq(Response) /\ answer' \in Seq(Response)
      /\ ~Asked("list")' /\ ~Asked("fetch")' /\ ~Asked("idle")'
  <2>1. CASE sent' = sent
    BY <1>0, <2>1, MovesFacts DEF DataTypes, TypeOK, Asked
  <2>2. ASSUME NEW name \in {"select", "done"}, sent' = Append(sent, Plain(name))
        PROVE  /\ sent' \in Seq(Command) /\ DataTypes'
               /\ wire' \in Seq(Response) /\ answer' \in Seq(Response)
               /\ ~Asked("list")' /\ ~Asked("fetch")' /\ ~Asked("idle")'
    <3>1. Plain(name) \in Command /\ Plain(name).name = name
      BY PlainFacts
    <3> QED
      BY <1>0, <2>2, <3>1, SendFacts, MovesFacts DEF DataTypes
  <2> QED
    BY <2>1, <2>2
<1>2. PhaseInv'
  BY <1>1 DEF PhaseInv, Listing
<1>3. FlowInv'
  BY DEF FlowInv, ListFlow, SearchFlow, FetchFlow, Listing, Fetching
<1>4. ClientTypes' /\ NoneSkipped'
  BY <1>0 DEF ClientTypes, TypeOK, Points, NoneSkipped
<1> QED
  BY <1>1, <1>2, <1>3, <1>4 DEF Safe, Traffic

\* Data of the command in progress is read, and taken.
LEMMA FlowTaken ==
  ASSUME TypeOK, NEW k, Flow(k), wire # <<>>, wire' = Tail(wire), answer' = answer,
         LastSeen' = LastSeen, limited' = limited,
         \/ got' = got /\ wire[1].kind # k
         \/ wire[1].kind = k /\ got' = got \cup {wire[1].uid}
  PROVE  Flow(k)' /\ \A u : u \in Have \/ InWire(k, u) \/ InAnswer(k, u) =>
                              u \in Have' \/ InWire(k, u)' \/ InAnswer(k, u)'
<1>1. 1 \in DOMAIN wire /\ \A j \in DOMAIN wire : ~(j < 1)
  BY SeqFacts DEF TypeOK
<1>2. Have \subseteq Have'
  BY DEF Have
<1>3. wire[1].kind = k => Below(wire[1].uid) \subseteq Have
  BY <1>1 DEF Flow
<1>4. \A v \in got' : Below(v) \subseteq Have'
  BY <1>2, <1>3 DEF Flow
<1>5. wire[1].kind = k => wire[1].uid \in Have'
  BY DEF Have
<1> QED
  BY <1>2, <1>4, <1>5, FlowRead

\* A response is read, and the command goes on: data of its kind is taken.
LEMMA ReadOnKeeps ==
  ASSUME Inv, Moves, wire # <<>>, wire' = Tail(wire),
         pc \in {"list", "search", "fetch", "late", "setup"},
         UNCHANGED <<pc, draining, polling, validity, todo, sent, state, ingested, limited>>,
         noticed' \in BOOLEAN,
         \/ /\ got' = got
            /\ Listing => wire[1].kind # "uid"
            /\ Fetching => wire[1].kind # "body"
         \/ /\ \/ Listing /\ wire[1].kind = "uid"
               \/ Fetching /\ wire[1].kind = "body"
            /\ got' = got \cup {wire[1].uid}
         \/ pc = "search" /\ got' = todo \ Dated
  PROVE  Safe'
<1>0. /\ PipeInv /\ TypeOK /\ DataTypes /\ PhaseInv /\ FlowInv /\ NoneSkipped
      /\ LastSeen' = LastSeen /\ answer' = answer
  BY DEF Inv, PipeInv, LastSeen, Moves
<1>1. /\ \A K : NoneUnderWay(K) => NoneUnderWay(K)'
      /\ wire' \in Seq(Response) /\ answer' \in Seq(Response) /\ DataTypes'
  BY <1>0, MovesFacts DEF DataTypes
<1>2. /\ 1 \in DOMAIN wire /\ \A j \in DOMAIN wire : ~(j < 1)
      /\ \A i \in DOMAIN wire' : i \in Nat /\ i + 1 \in DOMAIN wire /\ wire'[i] = wire[i + 1]
  BY <1>0, TailFacts, SeqFacts DEF TypeOK
<1>3. wire[1].kind \in {"uid", "body"} => wire[1].uid \in Uids
  BY <1>0, <1>2 DEF DataTypes
<1>4. got' \subseteq Uids
  BY <1>0, <1>3 DEF TypeOK
<1>5. IdleLast => IdleLast'
  <2> SUFFICES ASSUME IdleLast PROVE IdleLast'
    OBVIOUS
  <2>1. ASSUME NEW i \in DOMAIN wire', wire'[i].kind \in IdleReply
        PROVE  /\ answer = <<>> /\ sent = <<>>
               /\ \A j \in DOMAIN wire' : j > i => wire'[j].kind \in {"exists", "untagged"}
    <3>1. /\ answer = <<>> /\ sent = <<>>
          /\ \A j \in DOMAIN wire : j > i + 1 => wire[j].kind \in {"exists", "untagged"}
      BY <1>2, <2>1 DEF IdleLast
    <3>2. \A j \in DOMAIN wire' : j > i => j + 1 > i + 1
      BY <1>2
    <3> QED
      BY <1>2, <3>1, <3>2
  <2> QED
    BY <1>0, <2>1 DEF IdleLast
<1>6. PhaseInv'
  BY <1>0, <1>1, <1>5 DEF PhaseInv, Listing, Asked
<1>7. ASSUME NEW k \in {"uid", "body"}, Flow(k), k = "uid" <=> Listing, k = "body" <=> Fetching
      PROVE  Flow(k)' /\ \A u : u \in Have \/ InWire(k, u) \/ InAnswer(k, u) =>
                                  u \in Have' \/ InWire(k, u)' \/ InAnswer(k, u)'
  <2>1. \/ got' = got /\ wire[1].kind # k
        \/ wire[1].kind = k /\ got' = got \cup {wire[1].uid}
    BY <1>7 DEF Listing, Fetching
  <2> QED
    BY <1>0, <1>7, <2>1, FlowTaken
<1>8. FlowInv'
  <2>1. ListFlow'
    <3> SUFFICES ASSUME Listing PROVE ListFlow'
      BY DEF ListFlow, Listing
    <3>1. Flow("uid") /\ ~Fetching
      BY <1>0 DEF FlowInv, ListFlow, Listing, Fetching
    <3>2. Flow("uid")'
      BY <1>7, <3>1
    <3> QED
      BY <1>0, <3>2 DEF FlowInv, ListFlow
  <2>2. SearchFlow'
    <3> SUFFICES ASSUME pc = "search" PROVE SearchFlow'
      BY DEF SearchFlow
    <3>1. got' \in {got, todo \ Dated}
      BY DEF Listing, Fetching
    <3> QED
      BY <1>0, <3>1 DEF FlowInv, SearchFlow
  <2>3. FetchFlow'
    <3> SUFFICES ASSUME Fetching PROVE FetchFlow'
      BY DEF FetchFlow, Fetching
    <3>1. Flow("body") /\ ~Listing
      BY <1>0 DEF FlowInv, FetchFlow, Listing, Fetching
    <3>2. Flow("body")' /\ \A u : Coming(u) => Coming(u)'
      BY <1>7, <3>1 DEF Coming
    <3> QED
      BY <1>0, <3>2 DEF FlowInv, FetchFlow
  <2> QED
    BY <2>1, <2>2, <2>3 DEF FlowInv
<1>9. ClientTypes' /\ NoneSkipped'
  BY <1>0, <1>4 DEF ClientTypes, TypeOK, Points, NoneSkipped
<1> QED
  BY <1>0, <1>1, <1>6, <1>8, <1>9 DEF Safe, Traffic, TypeOK

\* The connection ends, or a new one starts.
LEMMA OffKeeps ==
  ASSUME Inv, wire' \in Seq(Response), answer' \in Seq(Response), sent' \in Seq(Command),
         DataTypes', pc' \in Down \/ (pc' = "login" /\ wire' = <<>> /\ answer' = <<>>),
         draining' = "none", polling' \in BOOLEAN, validity' = 0,
         \A i \in DOMAIN sent' : sent'[i].name = "login",
         got' \subseteq Uids, todo' \subseteq Uids, noticed' \in BOOLEAN, UNCHANGED dbVars
  PROVE  Safe'
<1>0. PipeInv /\ TypeOK /\ NoneSkipped
  BY DEF Inv, PipeInv
<1>1. PhaseInv'
  <2>1. ~Asked("list")' /\ ~Asked("fetch")' /\ ~Asked("idle")'
    BY DEF Asked
  <2>2. pc' = "login" => NoneUnderWay({"uid", "body"})' /\ NoneUnderWay(IdleReply)'
    BY DEF NoneUnderWay, Down
  <2> QED
    BY <2>1, <2>2 DEF PhaseInv, Listing, Down
<1>2. FlowInv'
  BY DEF Down, FlowInv, ListFlow, SearchFlow, FetchFlow, Listing, Fetching
<1>3. ClientTypes' /\ NoneSkipped'
  BY <1>0 DEF ClientTypes, TypeOK, Points, NoneSkipped, dbVars, Down
<1> QED
  BY <1>1, <1>2, <1>3 DEF Safe, Traffic

LEMMA ReadKeeps ==
  ASSUME Inv, Read
  PROVE  Safe'
<1> DEFINE r == wire[1]
<1>0. /\ PipeInv /\ TypeOK /\ DataTypes /\ PhaseInv /\ FlowInv /\ Moves
      /\ wire # <<>> /\ wire' = Tail(wire) /\ Head(wire) = r /\ 1 \in DOMAIN wire
      /\ r \in Response
      /\ \A K : NoneUnderWay(K) => r.kind \notin K /\ NoneUnderWay(K)'
  <2>1. PipeInv /\ TypeOK /\ DataTypes /\ PhaseInv /\ FlowInv /\ Moves /\ wire # <<>> /\ wire' = Tail(wire)
    BY DEF Inv, PipeInv, Read, Moves, serverVars
  <2>2. Head(wire) = r /\ 1 \in DOMAIN wire /\ r \in Response
    BY <2>1, TailFacts DEF TypeOK
  <2> QED
    BY <2>1, <2>2, MovesFacts DEF NoneUnderWay
<1>1. \/ ReadLogin(r) \/ ReadSelect(r) \/ ReadFetch(r) \/ ReadLate(r) \/ ReadSearch(r)
      \/ ReadSetup(r) \/ ReadIdle(r) \/ ReadDrain(r)
  BY <1>0 DEF Read
<1>2. pc \in {"login", "select", "idle", "drain"} =>
        /\ draining = "none" /\ NoneUnderWay({"uid", "body"})' /\ NoneUnderWay(IdleReply)'
        /\ ~Asked("list") /\ ~Asked("fetch") /\ ~Asked("idle")
  BY <1>0 DEF PhaseInv
<1>3. validity \in {0, 1} /\ noticed \in BOOLEAN /\ draining \in {"none", "list", "fetch"}
  BY <1>0 DEF TypeOK
<1> HIDE DEF r
<1>4. CASE ReadLogin(r)
  <2>1. \/ pc' = "select" /\ draining' = "none" /\ sent' = Append(sent, Plain("select"))
        \/ pc' = "login" /\ draining' = draining /\ sent' = sent
    BY <1>4 DEF ReadLogin, Goto, Send, Stays
  <2>2. UNCHANGED <<polling, validity, got, todo, noticed, state, ingested, limited>> /\ pc = "login"
    BY <1>4 DEF ReadLogin, Stays, dbVars
  <2> QED
    BY <1>0, <1>2, <1>3, <2>1, <2>2, QuietKeeps
<1>5. CASE ReadSelect(r)
  <2>1. CASE Completes(r)
    BY <1>0, <1>5, <2>1, StartListKeeps DEF ReadSelect
  <2>2. CASE ~Completes(r)
    <3>1. /\ pc = "select" /\ validity' \in {0, 1}
          /\ UNCHANGED <<pc, draining, polling, got, todo, noticed, sent, state, ingested, limited>>
      BY <1>3, <1>5, <2>2 DEF ReadSelect, dbVars
    <3> QED
      BY <1>0, <1>2, <1>3, <3>1, QuietKeeps
  <2> QED
    BY <2>1, <2>2
<1>6. CASE ReadFetch(r)
  <2>0. /\ pc \in {"list", "fetch"} /\ draining = "none" /\ (pc = "list" <=> Listing)
        /\ (pc = "fetch" <=> Fetching)
        /\ Listing => r.kind # "body"
    BY <1>0, <1>6 DEF ReadFetch, PhaseInv, Listing, Fetching
  <2>1. CASE ~Completes(r)
    <3>1. /\ UNCHANGED <<pc, draining, polling, validity, todo, noticed, sent, state, ingested, limited>>
          /\ got' = IF r.kind = "body" \/ (pc = "list" /\ r.kind = "uid") THEN got \cup {r.uid} ELSE got
      BY <1>6, <2>1 DEF ReadFetch, Taken, dbVars
    <3>2. \/ got' = got /\ (Listing => r.kind # "uid") /\ (Fetching => r.kind # "body")
          \/ /\ (Listing /\ r.kind = "uid") \/ (Fetching /\ r.kind = "body")
             /\ got' = got \cup {r.uid}
      BY <2>0, <3>1
    <3> QED
      BY <1>0, <1>3, <2>0, <3>1, <3>2, ReadOnKeeps DEF r
  <2>2. CASE Completes(r) /\ Drains(got)
    <3>1. /\ pc' = "late" /\ draining' = pc
          /\ UNCHANGED <<polling, validity, got, todo, noticed, sent, state, ingested, limited, answer>>
          /\ LastSeen' = LastSeen /\ Have' = Have
      BY <1>0, <1>6, <2>2 DEF ReadFetch, dbVars, LastSeen, Have, Moves
    <3>2. (Listing' <=> Listing) /\ (Fetching' <=> Fetching)
      BY <2>0, <3>1 DEF Listing, Fetching
    <3>3. DataTypes' /\ wire' \in Seq(Response) /\ answer' \in Seq(Response) /\ sent' \in Seq(Command)
      BY <1>0, <3>1, MovesFacts DEF DataTypes, TypeOK
    <3>4. PhaseInv'
      <4>1. \A name : ~Asked(name) => ~Asked(name)'
        BY <3>1 DEF Asked
      <4>2. "none" \notin {"list", "fetch"}
        OBVIOUS
      <4> QED
        BY <1>0, <2>0, <3>1, <3>2, <4>1 DEF PhaseInv
    <3>5. ASSUME NEW k \in {"uid", "body"}, Flow(k)
          PROVE  Flow(k)' /\ \A u : u \in Have \/ InWire(k, u) \/ InAnswer(k, u) =>
                                      u \in Have' \/ InWire(k, u)' \/ InAnswer(k, u)'
      <4>1. r.kind # k
        BY <2>2 DEF Completes
      <4>2. \A v \in got' : Below(v) \subseteq Have'
        BY <3>1, <3>5 DEF Flow
      <4> QED
        BY <1>0, <3>1, <3>5, <4>1, <4>2, FlowRead DEF r
    <3>6. FlowInv'
      <4>1. ListFlow'
        BY <1>0, <3>1, <3>2, <3>5 DEF FlowInv, ListFlow
      <4>2. FetchFlow'
        <5> SUFFICES ASSUME Fetching PROVE FetchFlow'
          BY <3>2 DEF FetchFlow
        <5>1. Flow("body")' /\ \A u : Coming(u) => Coming(u)'
          BY <1>0, <3>5 DEF FlowInv, FetchFlow, Coming
        <5> QED
          BY <1>0, <3>1, <5>1 DEF FlowInv, FetchFlow
      <4> QED
        BY <3>1, <4>1, <4>2 DEF FlowInv, SearchFlow
    <3>7. ClientTypes' /\ NoneSkipped'
      BY <1>0, <2>0, <3>1 DEF ClientTypes, TypeOK, Points, NoneSkipped, Inv
    <3> QED
      BY <3>3, <3>4, <3>6, <3>7 DEF Safe, Traffic
  <2>3. CASE Completes(r) /\ ~Drains(got)
    <3>1. Ends(pc, got) /\ r.kind # "body"
      BY <1>6, <2>3 DEF ReadFetch, Completes
    <3> QED
      BY <1>0, <2>0, <3>1, EndsKeeps DEF r
  <2> QED
    BY <2>1, <2>2, <2>3
<1>7. CASE ReadLate(r)
  <2>0. /\ pc = "late" /\ draining \in {"list", "fetch"} /\ (draining = "list" <=> Listing)
        /\ (draining = "fetch" <=> Fetching)
        /\ Listing => r.kind # "body"
    BY <1>0, <1>3, <1>7 DEF ReadLate, PhaseInv, Listing, Fetching
  <2>1. CASE r.kind \in {"uid", "body"}
    <3>1. /\ UNCHANGED <<pc, draining, polling, validity, todo, noticed, sent, state, ingested, limited>>
          /\ got' = IF r.kind = "body" \/ (draining = "list" /\ r.kind = "uid")
                    THEN got \cup {r.uid} ELSE got
      BY <1>7, <2>1 DEF ReadLate, Taken, dbVars
    <3>2. \/ got' = got /\ (Listing => r.kind # "uid") /\ (Fetching => r.kind # "body")
          \/ /\ (Listing /\ r.kind = "uid") \/ (Fetching /\ r.kind = "body")
             /\ got' = got \cup {r.uid}
      BY <2>0, <3>1
    <3> QED
      BY <1>0, <1>3, <2>0, <3>1, <3>2, ReadOnKeeps DEF r
  <2>2. CASE r.kind \notin {"uid", "body"}
    <3>1. Ends(draining, got) /\ r.kind # "body"
      BY <1>7, <2>2 DEF ReadLate
    <3> QED
      BY <1>0, <2>0, <3>1, EndsKeeps DEF r
  <2> QED
    BY <2>1, <2>2
<1>8. CASE ReadSearch(r)
  <2>0. pc = "search" /\ ~Listing /\ ~Fetching
    BY <1>8 DEF ReadSearch, Listing, Fetching
  <2>1. CASE r.kind # "search" /\ Completes(r)
    <3>1. SearchEnds(got)
      BY <1>8, <2>1 DEF ReadSearch, Completes
    <3> QED
      BY <1>0, <2>0, <3>1, SearchEndsKeeps
  <2>2. CASE ~(r.kind # "search" /\ Completes(r))
    <3>1. /\ UNCHANGED <<pc, draining, polling, validity, todo, noticed, sent, state, ingested, limited>>
          /\ got' = got \/ got' = todo \ Dated
      BY <1>8, <2>2 DEF ReadSearch, Completes, Stays, dbVars
    <3> QED
      BY <1>0, <1>3, <2>0, <3>1, ReadOnKeeps
  <2> QED
    BY <2>1, <2>2
<1>9. CASE ReadSetup(r)
  <2>0. pc = "setup" /\ draining = "none" /\ ~Listing /\ ~Fetching /\ IdleLast
        /\ UNCHANGED <<todo, got, state, ingested, limited>>
    BY <1>0, <1>9 DEF ReadSetup, Listing, Fetching, PhaseInv, dbVars
  <2>1. CASE r.kind = "accepted"
    <3>1. /\ pc' \in {"drain", "idle"} /\ draining' = "none"
          /\ sent' = sent \/ sent' = Append(sent, Plain("done"))
          /\ UNCHANGED <<polling, validity, noticed>>
      BY <1>9, <2>1 DEF ReadSetup, Goto, SendDone, Send
    <3>2. /\ answer = <<>> /\ sent = <<>>
          /\ \A j \in DOMAIN wire : j > 1 => wire[j].kind \in {"exists", "untagged"}
      BY <1>0, <2>0, <2>1 DEF IdleLast, IdleReply, r
    <3>3. \A j \in DOMAIN wire' : wire'[j].kind \in {"exists", "untagged"}
      <4>1. \A j \in DOMAIN wire' : j \in Nat /\ j > 0 /\ j + 1 \in DOMAIN wire /\ wire'[j] = wire[j + 1]
        BY <1>0, TailFacts DEF TypeOK
      <4> QED
        BY <3>2, <4>1
    <3>4. NoneUnderWay({"uid", "body"})' /\ NoneUnderWay(IdleReply)'
      <4>1. answer' = <<>>
        BY <1>0, <3>2 DEF Moves
      <4> QED
        BY <3>3, <4>1 DEF NoneUnderWay, IdleReply
    <3>5. ~Asked("list") /\ ~Asked("fetch") /\ ~Asked("idle")
      BY <3>2 DEF Asked
    <3> QED
      BY <1>0, <1>3, <2>0, <3>1, <3>4, <3>5, QuietKeeps
  <2>2. CASE r.kind = "rejected"
    <3>1. /\ pc' = "off" /\ draining' = "none" /\ sent' = <<>> /\ validity' = 0 /\ polling' = TRUE
          /\ UNCHANGED <<noticed, dbVars, got, todo>>
      BY <1>9, <2>2 DEF ReadSetup, Closed, Goto
    <3>2. wire' \in Seq(Response) /\ answer' \in Seq(Response) /\ DataTypes' /\ sent' \in Seq(Command)
      BY <1>0, <3>1, MovesFacts DEF DataTypes
    <3>3. got' \subseteq Uids /\ todo' \subseteq Uids /\ noticed' \in BOOLEAN
      BY <1>0, <3>1 DEF TypeOK
    <3>4. pc' \in Down
      BY <3>1 DEF Down
    <3> QED
      BY <3>1, <3>2, <3>3, <3>4, OffKeeps
  <2>3. CASE r.kind \notin {"accepted", "rejected"}
    <3>1. /\ UNCHANGED <<pc, draining, polling, validity, sent>> /\ noticed' = SetupUpdate(r)
      BY <1>9, <2>3 DEF ReadSetup
    <3>2. noticed' \in BOOLEAN
      BY <1>3, <3>1 DEF SetupUpdate
    <3> QED
      BY <1>0, <2>0, <3>1, <3>2, ReadOnKeeps
  <2> QED
    BY <2>1, <2>2, <2>3
<1>10. CASE ReadIdle(r)
  <2>1. CASE Completes(r)
    BY <1>0, <1>10, <2>1, StartListKeeps DEF ReadIdle, Completes
  <2>2. CASE ~Completes(r)
    <3>1. /\ pc = "idle" /\ UNCHANGED <<pc, draining, polling, validity, got, todo, state, ingested, limited>>
          /\ noticed' \in {noticed, TRUE}
          /\ sent' = sent \/ sent' = Append(sent, Plain("done"))
      BY <1>10, <2>2 DEF ReadIdle, Stays, SendDone, Send, dbVars
    <3> QED
      BY <1>0, <1>2, <1>3, <3>1, QuietKeeps
  <2> QED
    BY <2>1, <2>2
<1>11. CASE ReadDrain(r)
  <2>1. CASE r.kind \in Status
    BY <1>0, <1>11, <2>1, StartListKeeps DEF ReadDrain
  <2>2. CASE r.kind \notin Status
    <3>1. /\ pc = "drain"
          /\ UNCHANGED <<pc, draining, polling, validity, got, todo, noticed, sent, state, ingested, limited>>
      BY <1>11, <2>2 DEF ReadDrain, Stays, dbVars
    <3> QED
      BY <1>0, <1>2, <1>3, <3>1, QuietKeeps
  <2> QED
    BY <2>1, <2>2
<1> QED
  BY <1>1, <1>4, <1>5, <1>6, <1>7, <1>8, <1>9, <1>10, <1>11

LEMMA TimersKeep ==
  ASSUME Inv, Timers
  PROVE  Safe'
<1>0. PipeInv /\ TypeOK /\ PhaseInv
  BY DEF Inv, PipeInv
<1>1. CASE Heartbeat
  <2>1. /\ pc = "idle" /\ pc' = "drain" /\ draining' = "none" /\ Moves
        /\ sent' = sent \/ sent' = Append(sent, Plain("done"))
        /\ UNCHANGED <<polling, validity, got, todo, noticed, state, ingested, limited>>
    BY <1>1 DEF Heartbeat, HeartbeatDue, Goto, SendDone, Send, Moves, serverVars, dbVars
  <2>2. /\ NoneUnderWay({"uid", "body"})' /\ NoneUnderWay(IdleReply)'
        /\ ~Asked("list") /\ ~Asked("fetch") /\ ~Asked("idle")
    BY <1>0, <2>1, MovesFacts DEF PhaseInv
  <2>3. validity' \in {0, 1} /\ noticed' \in BOOLEAN
    BY <1>0, <2>1 DEF TypeOK
  <2> QED
    BY <2>1, <2>2, <2>3, QuietKeeps
<1>2. CASE LateTimeout
  <2>1. pc = "late" /\ Ends(draining, got) /\ Moves /\ wire' = wire
    BY <1>2 DEF LateTimeout, Moves, serverVars
  <2>2. draining \in {"list", "fetch"}
    BY <1>0, <2>1 DEF PhaseInv, TypeOK
  <2>3. draining = "fetch" => Fetching
    BY <2>1 DEF Fetching
  <2>4. draining = "list" => Listing
    BY <2>1 DEF Listing
  <2> QED
    BY <2>1, <2>2, <2>3, <2>4, EndsKeeps
<1>3. CASE DrainTimeout
  <2>1. pc = "drain" /\ StartList /\ Moves
    BY <1>3 DEF DrainTimeout, Moves, serverVars
  <2> QED
    BY <2>1, StartListKeeps
<1> QED
  BY <1>1, <1>2, <1>3 DEF Timers

LEMMA ConnectionKeeps ==
  ASSUME Inv, Connect \/ Break \/ AuthFails \/ Respawn
  PROVE  Safe'
<1>0. PipeInv /\ TypeOK /\ DataTypes
  BY DEF Inv, PipeInv
<1>1. CASE Connect
  <2>1. /\ pc' = "login" /\ draining' = "none" /\ sent' = <<Plain("login")>>
        /\ wire' = <<>> /\ answer' = <<>> /\ validity' = 0 /\ got' = {} /\ todo' = {}
        /\ noticed' = FALSE /\ polling' = polling /\ UNCHANGED dbVars
    BY <1>1 DEF Connect, Goto
  <2>2. Plain("login") \in Command /\ Plain("login").name = "login"
    BY PlainFacts
  <2>3. \A i \in DOMAIN sent' : sent'[i].name = "login"
    BY <2>1, <2>2
  <2>4. /\ sent' \in Seq(Command) /\ wire' \in Seq(Response) /\ answer' \in Seq(Response)
        /\ DataTypes' /\ polling' \in BOOLEAN
    BY <1>0, <2>1, <2>2, <2>3 DEF DataTypes, TypeOK
  <2> QED
    BY <2>1, <2>3, <2>4, OffKeeps
<1>2. CASE Break \/ AuthFails
  <2>1. /\ pc' \in Down /\ draining' = "none" /\ sent' = <<>> /\ validity' = 0 /\ polling' \in BOOLEAN
        /\ UNCHANGED <<wire, answer, got, todo, noticed, dbVars>>
    BY <1>2 DEF Break, AuthFails, Closed, Goto, serverVars, Down
  <2>2. /\ sent' \in Seq(Command) /\ wire' \in Seq(Response) /\ answer' \in Seq(Response)
        /\ DataTypes' /\ got' \subseteq Uids /\ todo' \subseteq Uids /\ noticed' \in BOOLEAN
    BY <1>0, <2>1 DEF DataTypes, TypeOK
  <2>3. \A i \in DOMAIN sent' : sent'[i].name = "login"
    <3>1. DOMAIN sent' = {}
      BY <2>1
    <3> QED
      BY <3>1
  <2> QED
    BY <2>1, <2>2, <2>3, OffKeeps
<1>3. CASE Respawn
  <2>1. /\ pc = "stopped" /\ pc' = "off" /\ UNCHANGED <<answer, sent, wire, draining, polling, validity>>
        /\ UNCHANGED <<got, todo, noticed, state, ingested, limited>>
    BY <1>3 DEF Respawn, serverVars, dbVars
  <2>2. PhaseInv' /\ FlowInv'
    BY <1>0, <2>1 DEF Inv, PipeInv, PhaseInv, FlowInv, ListFlow, SearchFlow, FetchFlow, Listing, Fetching
  <2>3. ClientTypes' /\ Traffic' /\ DataTypes' /\ NoneSkipped'
    BY <1>0, <2>1 DEF Inv, ClientTypes, Points, Traffic, TypeOK, DataTypes, NoneSkipped
  <2> QED
    BY <2>2, <2>3 DEF Safe
<1> QED
  BY <1>1, <1>2, <1>3

LEMMA ServerKeeps ==
  ASSUME Inv, Deliver \/ Tell \/ Keepalive \/ Server
  PROVE  Safe'
<1>0. /\ PipeInv /\ TypeOK /\ DataTypes /\ PhaseInv /\ FlowInv /\ NoneSkipped
      /\ UNCHANGED <<clientVars, dbVars>>
      /\ UNCHANGED <<pc, draining, polling, validity, got, todo, noticed, state, ingested, limited>>
  BY DEF Inv, PipeInv, Deliver, Tell, Keepalive, Server, Accept, Emit, clientVars, dbVars
<1>1. ClientTypes' /\ NoneSkipped'
  BY <1>0 DEF ClientTypes, TypeOK, Points, NoneSkipped
<1>2. CASE Deliver
  <2>1. UNCHANGED <<answer, sent, wire>> /\ LastSeen' = LastSeen /\ Have' = Have
    BY <1>0, <1>2 DEF Deliver, LastSeen, Have
  <2>2. Traffic' /\ DataTypes'
    BY <1>0, <2>1 DEF Traffic, TypeOK, DataTypes
  <2>3. PhaseInv'
    BY <1>0, <2>1 DEF PhaseInv, Listing, NoneUnderWay, Asked, IdleLast
  <2>4. \A k : Flow(k) => Flow(k)'
    BY <1>0, <2>1 DEF Flow, InWire
  <2>5. \A u : Coming(u) => Coming(u)'
    BY <2>1 DEF Coming, InWire, InAnswer
  <2>6. FlowInv'
    <3>1. ListFlow'
      BY <1>0, <2>1, <2>4 DEF FlowInv, ListFlow, Listing
    <3>2. SearchFlow'
      BY <1>0, <2>1 DEF FlowInv, SearchFlow
    <3>3. FetchFlow'
      BY <1>0, <2>1, <2>4, <2>5 DEF FlowInv, FetchFlow, Fetching
    <3> QED
      BY <3>1, <3>2, <3>3 DEF FlowInv
  <2> QED
    BY <1>1, <2>2, <2>3, <2>6 DEF Safe
<1>3. ASSUME NEW r \in Response, wire' = Append(wire, r),
             \/ r.kind \in {"exists", "untagged"} /\ answer' = answer
             \/ answer # <<>> /\ r = answer[1] /\ answer' = Tail(answer),
             sent' = sent
      PROVE  Safe'
  <2>1. Traffic'
    <3>0. answer \in Seq(Response) /\ wire \in Seq(Response) /\ sent \in Seq(Command)
      BY <1>0 DEF TypeOK
    <3>1. Append(wire, r) \in Seq(Response)
      BY <3>0, AppendFacts
    <3>2. CASE answer # <<>> /\ answer' = Tail(answer)
      <4>1. Tail(answer) \in Seq(Response)
        BY <3>0, <3>2, TailFacts
      <4> QED
        BY <1>3, <3>0, <3>1, <3>2, <4>1 DEF Traffic
    <3>3. CASE answer' = answer
      BY <1>3, <3>0, <3>1, <3>3 DEF Traffic
    <3> QED
      BY <1>3, <3>2, <3>3
  <2>2. DataTypes' /\ PhaseInv' /\ FlowInv'
    BY <1>0, <1>3, ResponseKeeps
  <2> QED
    BY <1>1, <2>1, <2>2 DEF Safe
<1>4. CASE Tell
  <2>1. Note("exists") \in Response /\ Note("exists").kind = "exists"
    BY NoteFacts
  <2> QED
    BY <1>3, <1>4, <2>1 DEF Tell, Sends
<1>5. CASE Keepalive
  <2>1. Note("untagged") \in Response /\ Note("untagged").kind = "untagged"
    BY NoteFacts
  <2> QED
    BY <1>3, <1>5, <2>1 DEF Keepalive, Sends, serverVars
<1>6. CASE Emit
  <2>1. answer # <<>> /\ Head(answer) = answer[1] /\ Head(answer) \in Response
    BY <1>0, <1>6, TailFacts DEF Emit, TypeOK
  <2> QED
    BY <1>3, <1>6, <2>1 DEF Emit, Sends
<1>7. CASE Accept
  <2>1. answer' \in Seq(Response) /\ sent' \in Seq(Command) /\ DataTypes' /\ PhaseInv' /\ FlowInv'
    BY <1>0, <1>7, AcceptKeeps
  <2>2. Traffic'
    BY <1>0, <1>7, <2>1 DEF Traffic, Accept, TypeOK
  <2> QED
    BY <1>1, <2>1, <2>2 DEF Safe
<1> QED
  BY <1>2, <1>4, <1>5, <1>6, <1>7 DEF Server

-----------------------------------------------------------------------------
(* Nothing is skipped. *)

LEMMA InvInit ==
  ASSUME Init
  PROVE  Inv
<1>1. TypeOK
  <2>1. MaxUid \in Nat /\ MaxTroubles \in Nat
    BY SessionAssumption
  <2>2. answer \in Seq(Response) /\ wire \in Seq(Response) /\ sent \in Seq(Command)
    BY DEF Init
  <2>3. state \in [validity : {0, 1}, last : 0..MaxUid]
    BY <2>1 DEF Init
  <2> QED
    <3>1. top \in 0..MaxUid /\ troubles \in 0..MaxTroubles
      BY <2>1 DEF Init
    <3>2. untold \in BOOLEAN /\ idling \in BOOLEAN /\ polling \in BOOLEAN /\ noticed \in BOOLEAN
      BY DEF Init
    <3>3. /\ pc \in Points /\ draining \in {"none", "list", "fetch"} /\ validity \in {0, 1}
          /\ got \subseteq Uids /\ todo \subseteq Uids /\ ingested \subseteq Uids /\ limited \subseteq Uids
      BY DEF Init, Points
    <3>4. cut \in BOOLEAN /\ passed \in BOOLEAN
      BY DEF Init
    <3> QED
      BY <2>2, <2>3, <3>1, <3>2, <3>3, <3>4 DEF TypeOK, Points
<1>2. DataTypes /\ PhaseInv
  BY DEF Init, DataTypes, PhaseInv, NoneUnderWay, Asked, Listing, IdleLast
<1>3. FlowInv
  BY DEF Init, FlowInv, ListFlow, SearchFlow, FetchFlow, Listing, Fetching
<1>4. NoneSkipped
  BY DEF Init, NoneSkipped
<1> QED
  BY <1>1, <1>2, <1>3, <1>4 DEF Inv, PipeInv

\* The rest of the state keeps its type.
LEMMA RestKeepsType ==
  ASSUME TypeOK, Next
  PROVE  /\ top' \in 0..MaxUid /\ untold' \in BOOLEAN /\ idling' \in BOOLEAN
         /\ cut' \in BOOLEAN /\ passed' \in BOOLEAN /\ troubles' \in 0..MaxTroubles
<1>0. /\ top \in 0..MaxUid /\ untold \in BOOLEAN /\ idling \in BOOLEAN
      /\ cut \in BOOLEAN /\ passed \in BOOLEAN /\ troubles \in 0..MaxTroubles
      /\ MaxUid \in Nat /\ MaxTroubles \in Nat
  BY SessionAssumption DEF TypeOK
<1>1. top' \in 0..MaxUid /\ untold' \in BOOLEAN
  <2>1. (top < MaxUid /\ top' = top + 1) \/ top' = top
    BY DEF Next, Deliver, Tell, Keepalive, Server, Accept, Emit, Read, Timers, Heartbeat,
           LateTimeout, DrainTimeout, Connect, Break, AuthFails, Respawn, serverVars
  <2>2. untold' \in {untold, TRUE, FALSE}
    BY DEF Next, Deliver, Tell, Keepalive, Server, Accept, Emit, Read, Timers, Heartbeat,
           LateTimeout, DrainTimeout, Connect, Break, AuthFails, Respawn, serverVars
  <2>3. top' \in 0..MaxUid
    BY <1>0, <2>1
  <2>4. untold' \in BOOLEAN
    BY <1>0, <2>2
  <2> QED
    BY <2>3, <2>4
<1>2. idling' \in BOOLEAN
  BY <1>0 DEF Next, Deliver, Tell, Keepalive, Server, Accept, Emit, Read, Timers, Heartbeat,
              LateTimeout, DrainTimeout, Connect, Break, AuthFails, Respawn, serverVars
<1>3. troubles' \in 0..MaxTroubles
  <2>1. troubles' = troubles \/ (troubles < MaxTroubles /\ troubles' = troubles + 1)
    BY DEF Next, Deliver, Tell, Keepalive, Server, Accept, Emit, Read, Timers, Heartbeat,
           LateTimeout, DrainTimeout, Connect, Break, AuthFails, Respawn, Trouble
  <2> QED
    BY <1>0, <2>1
<1>4. ASSUME NEW cmd, NEW S, Ends(cmd, S) PROVE passed' = passed
  BY <1>4 DEF Ends, ListEnds, FetchEnds
<1>5. StartList => passed' = FALSE
  BY DEF StartList
<1>6. ASSUME Read PROVE cut' \in BOOLEAN /\ passed' \in BOOLEAN
  <2> DEFINE r == Head(wire)
  <2>1. \/ ReadLogin(r) \/ ReadSelect(r) \/ ReadFetch(r) \/ ReadLate(r) \/ ReadSearch(r)
        \/ ReadSetup(r) \/ ReadIdle(r) \/ ReadDrain(r)
    BY <1>6 DEF Read
  <2> HIDE DEF r
  <2>2. cut' \in BOOLEAN
    BY <1>0, <2>1 DEF ReadLogin, ReadSelect, ReadFetch, ReadLate, ReadSearch, ReadSetup, ReadIdle,
                      ReadDrain, historyVars
  <2>3. passed' \in BOOLEAN
    BY <1>0, <1>4, <1>5, <2>1 DEF ReadLogin, ReadSelect, ReadFetch, ReadLate, ReadSearch,
         ReadSetup, ReadIdle, ReadDrain, SearchEnds, Ignores, historyVars
  <2> QED
    BY <2>2, <2>3
<1>7. ASSUME ~Read PROVE cut' \in BOOLEAN /\ passed' \in BOOLEAN
  <2>1. CASE Timers
    BY <1>0, <1>4, <1>5, <2>1 DEF Timers, Heartbeat, LateTimeout, DrainTimeout, historyVars
  <2>2. CASE ~Timers
    BY <1>0, <1>7, <2>2 DEF Next, Deliver, Tell, Keepalive, Server, Accept, Emit, Connect, Break,
                            AuthFails, Respawn, historyVars
  <2> QED
    BY <2>1, <2>2
<1> QED
  BY <1>1, <1>2, <1>3, <1>6, <1>7

LEMMA InvNext ==
  ASSUME Inv, [Next]_vars
  PROVE  Inv'
<1>0. TypeOK
  BY DEF Inv, PipeInv
<1>1. CASE Next
  <2>1. Safe'
    BY <1>1, ServerKeeps, ReadKeeps, TimersKeep, ConnectionKeeps DEF Next
  <2>2. TypeOK'
    BY <1>0, <1>1, <2>1, RestKeepsType DEF TypeOK, Safe, ClientTypes, Traffic, Points
  <2> QED
    BY <2>1, <2>2 DEF Inv, PipeInv, Safe
<1>2. CASE UNCHANGED vars
  <2>0. UNCHANGED <<top, untold, idling, answer, sent, wire, pc, draining, polling, validity, got,
                    todo, noticed, state, ingested, limited, cut, passed, troubles>>
    BY <1>2 DEF vars, serverVars, clientVars, dbVars, historyVars
  <2>1. LastSeen' = LastSeen /\ Have' = Have
    BY <2>0 DEF LastSeen, Have
  <2>2. TypeOK' /\ DataTypes' /\ NoneSkipped'
    BY <2>0 DEF Inv, PipeInv, TypeOK, DataTypes, NoneSkipped
  <2>3. PhaseInv'
    BY <2>0 DEF Inv, PipeInv, PhaseInv, Listing, NoneUnderWay, Asked, IdleLast
  <2>4. FlowInv'
    <3>1. \A k : Flow(k) => Flow(k)'
      BY <2>0, <2>1 DEF Flow, InWire
    <3>2. \A u : Coming(u) => Coming(u)'
      BY <2>0, <2>1 DEF Coming, InWire, InAnswer
    <3>3. ListFlow'
      BY <2>0, <2>1, <3>1 DEF Inv, PipeInv, FlowInv, ListFlow, Listing
    <3>4. SearchFlow'
      BY <2>0, <2>1 DEF Inv, PipeInv, FlowInv, SearchFlow
    <3>5. FetchFlow'
      BY <2>0, <3>1, <3>2 DEF Inv, PipeInv, FlowInv, FetchFlow, Fetching
    <3> QED
      BY <3>3, <3>4, <3>5 DEF FlowInv
  <2> QED
    BY <2>2, <2>3, <2>4 DEF Inv, PipeInv
<1> QED
  BY <1>1, <1>2

LEMMA InvAlways == Spec => []Inv
  BY InvInit, InvNext, PTL DEF Spec

\* Every variable keeps its type, whatever the server sends and in whatever order.
THEOREM TypeCorrect == Spec => []TypeOK
<1>1. Inv => TypeOK
  BY DEF Inv, PipeInv
<1> QED
  BY <1>1, InvAlways, PTL

\* The checkpoint of MailboxWatcher::sync never passes a message that was neither stored nor
\* left out by initial_sync_start_date or initial_sync_max_messages, even where completions
\* are read for the wrong command and drains end too early, in sessions that do not know the
\* UIDVALIDITY and apply these limits again.
THEOREM NothingIsSkipped == Spec => []NoneSkipped
<1>1. Inv => NoneSkipped
  BY DEF Inv
<1> QED
  BY <1>1, InvAlways, PTL

-----------------------------------------------------------------------------
(* Commands and completions. *)

Tagged == {r \in Response : r.kind = "tagged"}
Completed == {c \in Command : c.name # "idle"}

LEMMA CompletionsFacts ==
  ASSUME NEW s \in Seq(Response)
  PROVE  Completions(s) = Count(s, Tagged) /\ Completions(s) \in Nat
<1>1. {i \in DOMAIN s : s[i].kind = "tagged"} = {i \in DOMAIN s : s[i] \in Tagged}
  BY SeqFacts DEF Tagged
<1>2. Count(s, Tagged) \in Nat
  BY CountFacts
<1> QED
  BY <1>1, <1>2 DEF Completions, Count

LEMMA CommandsFacts ==
  ASSUME NEW s \in Seq(Command)
  PROVE  /\ Cardinality({i \in DOMAIN s : s[i].name # "idle"}) = Count(s, Completed)
         /\ Count(s, Completed) \in Nat
<1>1. {i \in DOMAIN s : s[i].name # "idle"} = {i \in DOMAIN s : s[i] \in Completed}
  BY SeqFacts DEF Completed
<1>2. Count(s, Completed) \in Nat
  BY CountFacts
<1> QED
  BY <1>1, <1>2 DEF Count

LEMMA OwedSum ==
  ASSUME Traffic
  PROVE  /\ Owed = Completions(wire) + Completions(answer) + Count(sent, Completed)
         /\ Completions(wire) \in Nat /\ Completions(answer) \in Nat
         /\ Count(sent, Completed) \in Nat /\ Owed \in Nat
<1>1. Owed = Completions(wire) + Completions(answer) + Count(sent, Completed)
  BY CommandsFacts DEF Owed, Traffic
<1>2. /\ Completions(wire) \in Nat /\ Completions(answer) \in Nat
      /\ Count(sent, Completed) \in Nat
  BY CompletionsFacts, CommandsFacts DEF Traffic
<1> QED
  BY <1>1, <1>2

LEMMA OwedSumNext ==
  ASSUME Traffic'
  PROVE  /\ Owed' = Completions(wire') + Completions(answer') + Count(sent', Completed)
         /\ Completions(wire') \in Nat /\ Completions(answer') \in Nat
         /\ Count(sent', Completed) \in Nat /\ Owed' \in Nat
<1>1. Owed' = Completions(wire') + Completions(answer') + Count(sent', Completed)
  BY CommandsFacts DEF Owed, Traffic, Completions
<1>2. /\ Completions(wire') \in Nat /\ Completions(answer') \in Nat
      /\ Count(sent', Completed) \in Nat
  BY CompletionsFacts, CommandsFacts DEF Traffic
<1> QED
  BY <1>1, <1>2

LEMMA CompletionsTail ==
  ASSUME NEW s \in Seq(Response), s # <<>>
  PROVE  Completions(s) = Completions(Tail(s)) + IF s[1].kind = "tagged" THEN 1 ELSE 0
<1>1. Tail(s) \in Seq(Response) /\ Head(s) = s[1] /\ s[1] \in Response
  BY TailFacts
<1>2. Count(s, Tagged) = Count(Tail(s), Tagged) + IF Head(s) \in Tagged THEN 1 ELSE 0
  BY CountTail
<1>3. Completions(s) = Count(s, Tagged) /\ Completions(Tail(s)) = Count(Tail(s), Tagged)
  BY <1>1, CompletionsFacts
<1>4. Head(s) \in Tagged <=> s[1].kind = "tagged"
  BY <1>1 DEF Tagged
<1> QED
  BY <1>2, <1>3, <1>4

LEMMA CompletionsAppend ==
  ASSUME NEW s \in Seq(Response), NEW r \in Response
  PROVE  Completions(Append(s, r)) = Completions(s) + IF r.kind = "tagged" THEN 1 ELSE 0
<1>1. Append(s, r) \in Seq(Response)
  BY AppendFacts
<1>2. Count(Append(s, r), Tagged) = Count(s, Tagged) + IF r \in Tagged THEN 1 ELSE 0
  BY CountAppend
<1>3. Completions(s) = Count(s, Tagged) /\ Completions(Append(s, r)) = Count(Append(s, r), Tagged)
  BY <1>1, CompletionsFacts
<1> QED
  BY <1>2, <1>3 DEF Tagged

\* The client reads a response or not, and sends a command or not.
LEMMA OwedMoves ==
  ASSUME Traffic, Traffic', answer' = answer, NEW b, NEW s,
         \/ wire' = wire /\ b = 0
         \/ wire # <<>> /\ wire' = Tail(wire) /\ b = IF wire[1].kind = "tagged" THEN 1 ELSE 0,
         \/ sent' = sent /\ s = 0
         \/ \E c \in Command : sent' = Append(sent, c) /\ s = IF c.name # "idle" THEN 1 ELSE 0
  PROVE  Owed \in Nat /\ Owed' \in Nat /\ Owed' + b = Owed + s /\ (Owed = 0 => b = 0)
<1>1. Completions(wire) = Completions(wire') + b /\ b \in {0, 1}
  <2>1. CASE wire' = wire /\ b = 0
    BY <2>1, OwedSum
  <2>2. CASE wire # <<>> /\ wire' = Tail(wire) /\ b = IF wire[1].kind = "tagged" THEN 1 ELSE 0
    BY <2>2, CompletionsTail DEF Traffic
  <2> QED
    BY <2>1, <2>2
<1>2. Count(sent', Completed) = Count(sent, Completed) + s /\ s \in {0, 1}
  <2>1. CASE sent' = sent /\ s = 0
    BY <2>1, OwedSum
  <2>2. ASSUME NEW c \in Command, sent' = Append(sent, c), s = IF c.name # "idle" THEN 1 ELSE 0
        PROVE  Count(sent', Completed) = Count(sent, Completed) + s /\ s \in {0, 1}
    <3>1. Count(sent', Completed) = Count(sent, Completed) + IF c \in Completed THEN 1 ELSE 0
      BY <2>2, CountAppend DEF Traffic
    <3> QED
      BY <2>2, <3>1 DEF Completed
  <2> QED
    BY <2>1, <2>2
<1> DEFINE w == Completions(wire)
           v == Completions(wire')
           a == Completions(answer)
           m == Count(sent, Completed)
           n == Count(sent', Completed)
<1>3. Owed = w + a + m /\ w \in Nat /\ a \in Nat /\ m \in Nat /\ Owed \in Nat
  BY OwedSum
<1>4. Owed' = v + a + n /\ v \in Nat /\ n \in Nat /\ Owed' \in Nat
  BY OwedSumNext
<1>5. w = v + b /\ n = m + s /\ b \in {0, 1} /\ s \in {0, 1}
  BY <1>1, <1>2
<1> HIDE DEF w, v, a, m, n
<1> QED
  BY <1>3, <1>4, <1>5

\* The server neither adds a completion nor loses one.
LEMMA OwedByServer ==
  ASSUME Inv, Safe', Deliver \/ Tell \/ Keepalive \/ Server
  PROVE  Owed' = Owed
<1>0. /\ TypeOK /\ DataTypes /\ Traffic /\ Traffic'
      /\ answer \in Seq(Response) /\ wire \in Seq(Response) /\ sent \in Seq(Command)
  BY DEF Inv, PipeInv, TypeOK, Traffic, Safe
<1>1. CASE Deliver
  <2>1. wire' = wire /\ answer' = answer /\ sent' = sent
    BY <1>1 DEF Deliver
  <2> QED
    BY <2>1 DEF Owed, Completions
<1>2. ASSUME NEW r \in Response, r.kind # "tagged", wire' = Append(wire, r), answer' = answer,
             sent' = sent
      PROVE  Owed' = Owed
  <2>1. Completions(wire') = Completions(wire)
    <3>1. Completions(Append(wire, r)) = Completions(wire) + 0
      BY <1>0, <1>2, CompletionsAppend
    <3> QED
      BY <1>0, <1>2, <3>1, OwedSum
  <2> QED
    BY <1>0, <1>2, <2>1, OwedSum, OwedSumNext
<1>3. CASE Tell
  BY <1>2, <1>3, NoteFacts DEF Tell, Sends
<1>4. CASE Keepalive
  BY <1>2, <1>4, NoteFacts DEF Keepalive, Sends, serverVars
<1>5. CASE Emit
  <2> DEFINE b == IF answer[1].kind = "tagged" THEN 1 ELSE 0
             w == Completions(wire)
             v == Completions(wire')
             a == Completions(answer)
             d == Completions(answer')
             m == Count(sent, Completed)
  <2>1. /\ answer # <<>> /\ answer' = Tail(answer) /\ wire' = Append(wire, answer[1])
        /\ answer[1] \in Response /\ sent' = sent
    BY <1>0, <1>5, TailFacts DEF Emit, Sends
  <2>2. a = d + b
    BY <1>0, <2>1, CompletionsTail
  <2>3. v = w + b
    BY <1>0, <2>1, CompletionsAppend
  <2>4. Owed = w + a + m /\ w \in Nat /\ a \in Nat /\ m \in Nat
    BY <1>0, OwedSum
  <2>5. Owed' = v + d + m /\ v \in Nat /\ d \in Nat
    BY <1>0, <2>1, OwedSumNext
  <2>6. b \in {0, 1}
    OBVIOUS
  <2> HIDE DEF b, w, v, a, d, m
  <2> QED
    BY <2>2, <2>3, <2>4, <2>5, <2>6
<1>6. CASE Accept
  <2> DEFINE c == sent[1]
             w == Completions(wire)
             m == Count(sent, Completed)
             n == Count(sent', Completed)
             d == Completions(answer')
  <2>1. /\ answer = <<>> /\ sent # <<>> /\ sent' = Tail(sent) /\ wire' = wire /\ c \in Command
        /\ answer' \in Answers(c) /\ Head(sent) = c /\ 1 \in DOMAIN sent
    BY <1>0, <1>6, TailFacts DEF Accept
  <2>2. /\ answer' \in Seq(Response)
        /\ c.name = "idle" => Len(answer') = 1 /\ answer'[1].kind \in IdleReply
        /\ c.name # "idle" => \E t \in DOMAIN answer' : Answering(c, answer', t)
    <3>1. /\ top \in 0..MaxUid /\ (c.name \in {"list", "fetch"} => c.from > 0)
          /\ (c.name = "fetch" => c.from <= c.to)
      BY <1>0, <2>1 DEF DataTypes, TypeOK
    <3> HIDE DEF c
    <3> QED
      BY <2>1, <3>1, AnswerFacts
  <2>3. m = n + IF c.name = "idle" THEN 0 ELSE 1
    <3>1. m = n + IF Head(sent) \in Completed THEN 1 ELSE 0
      BY <1>0, <2>1, CountTail
    <3> HIDE DEF c, m, n
    <3> QED
      BY <2>1, <3>1 DEF Completed
  <2>4. d = IF c.name = "idle" THEN 0 ELSE 1
    <3>1. CASE c.name = "idle"
      <4>1. \A i \in DOMAIN answer' : answer'[i].kind # "tagged"
        <5>1. \A i \in DOMAIN answer' : i = 1
          BY <2>2, <3>1, SeqFacts
        <5> QED
          BY <2>2, <3>1, <5>1 DEF IdleReply
      <4>2. {i \in DOMAIN answer' : answer'[i].kind = "tagged"} = {}
        BY <4>1
      <4> QED
        BY <3>1, <4>2, FS_EmptySet DEF Completions
    <3>2. CASE c.name # "idle"
      <4>1. PICK t \in DOMAIN answer' : Answering(c, answer', t)
        BY <2>2, <3>2
      <4>2. Reply(c.name) # "tagged"
        BY DEF Reply
      <4>3. {i \in DOMAIN answer' : answer'[i].kind = "tagged"} = {t}
        BY <4>1, <4>2 DEF Answering
      <4>4. Cardinality({t}) = 1
        BY FS_Singleton
      <4> QED
        BY <3>2, <4>3, <4>4 DEF Completions
    <3> QED
      BY <3>1, <3>2
  <2>5. Completions(answer) = 0
    <3>1. {i \in DOMAIN answer : answer[i].kind = "tagged"} = {}
      BY <2>1
    <3> QED
      BY <3>1, FS_EmptySet DEF Completions
  <2>6. Owed = w + 0 + m /\ w \in Nat /\ m \in Nat
    BY <1>0, <2>5, OwedSum
  <2>7. Owed' = w + d + n /\ d \in Nat /\ n \in Nat
    BY <1>0, <2>1, OwedSumNext
  <2> HIDE DEF c, w, m, n, d
  <2> QED
    BY <2>3, <2>4, <2>6, <2>7
<1> QED
  BY <1>1, <1>3, <1>4, <1>5, <1>6 DEF Server

\* What the client sends where a command ends.
LEMMA EndsSends ==
  ASSUME TypeOK, NEW cmd, NEW S, S \subseteq Uids,
         Ends(cmd, S) \/ (cmd = "search" /\ FetchRecent(S, todo \cap Dated))
  PROVE  \/ pc' = "off"
         \/ pc' = "setup" /\ sent' = Append(sent, Plain("idle"))
         \/ pc' \in {"search", "fetch"} /\ \E c \in Command : sent' = Append(sent, c) /\ c.name # "idle"
<1>1. ASSUME EndSync
      PROVE  pc' = "off" \/ (pc' = "setup" /\ sent' = Append(sent, Plain("idle")))
  BY <1>1 DEF EndSync, Closed, Goto, Send
<1>2. ASSUME NEW T, T \subseteq Uids, T # {}, StartFetch(T)
      PROVE  pc' = "fetch" /\ \E c \in Command : sent' = Append(sent, c) /\ c.name # "idle"
  <2> DEFINE c == [name |-> "fetch", from |-> Min(Chunk(T)), to |-> Max(Chunk(T))]
  <2>1. sent' = Append(sent, c) /\ pc' = "fetch"
    BY <1>2 DEF StartFetch, Goto, Send, Chunk
  <2>2. Min(Chunk(T)) \in Uids /\ Max(Chunk(T)) \in Uids
    BY <1>2, ChunkFacts
  <2>3. c \in Command
    BY <2>2, SessionAssumption DEF Uids, Command
  <2> QED
    BY <2>1, <2>3
<1>3. CASE ListEnds(S)
  <2> DEFINE new == {u \in S : u > LastSeen}
  <2>1. \/ EndSync \/ (new # {} /\ StartFetch(new)) \/ (Goto("search") /\ Send(Plain("search")))
        \/ FetchRecent(new, {})
    BY <1>3 DEF ListEnds
  <2>2. new \subseteq Uids
    OBVIOUS
  <2>3. CASE Goto("search") /\ Send(Plain("search"))
    BY <2>3, PlainFacts DEF Goto, Send
  <2> HIDE DEF new
  <2>4. FetchRecent(new, {}) => EndSync \/ (Recent(new) # {} /\ StartFetch(Recent(new)))
    BY DEF FetchRecent
  <2>5. Recent(new) \subseteq Uids
    BY <2>2 DEF Recent
  <2> QED
    BY <1>1, <1>2, <2>1, <2>2, <2>3, <2>4, <2>5
<1>4. CASE FetchEnds(S)
  BY <1>1, <1>2, <1>4 DEF FetchEnds, TypeOK
<1>5. CASE cmd = "search" /\ FetchRecent(S, todo \cap Dated)
  <2>1. EndSync \/ (Recent(S) # {} /\ StartFetch(Recent(S)))
    BY <1>5 DEF FetchRecent
  <2>2. Recent(S) \subseteq Uids
    BY DEF Recent
  <2> QED
    BY <1>1, <1>2, <2>1, <2>2
<1> QED
  BY <1>3, <1>4, <1>5 DEF Ends

\* Where a list or a fetch ends after its completion, the next one is of what it sends.
LEMMA StepAfterCommand ==
  ASSUME Inv, Safe', answer' = answer, NEW b,
         \/ wire' = wire /\ b = 0
         \/ wire # <<>> /\ wire' = Tail(wire) /\ b = IF wire[1].kind = "tagged" THEN 1 ELSE 0,
         \/ pc' = "off"
         \/ pc' = "setup" /\ sent' = Append(sent, Plain("idle"))
         \/ pc' \in {"search", "fetch"} /\ \E c \in Command : sent' = Append(sent, c) /\ c.name # "idle",
         cut' \/ Owed = b
  PROVE  StepInv'
<1>0. Traffic /\ Traffic'
  BY DEF Inv, PipeInv, TypeOK, Traffic, Safe
<1>1. CASE pc' = "off"
  BY <1>1 DEF StepInv, Down
<1>2. CASE pc' = "setup" /\ sent' = Append(sent, Plain("idle"))
  <2>1. Plain("idle") \in Command /\ Plain("idle").name = "idle"
    BY PlainFacts
  <2>2. Owed' + b = Owed + 0 /\ Owed' \in Nat /\ Owed \in Nat
    BY <1>0, <1>2, <2>1, OwedMoves
  <2>3. ~cut' => Owed' = 0
    BY <2>2
  <2> QED
    BY <1>2, <2>3 DEF StepInv, Down
<1>3. CASE pc' \in {"search", "fetch"} /\ \E c \in Command : sent' = Append(sent, c) /\ c.name # "idle"
  <2>1. Owed' + b = Owed + 1 /\ Owed' \in Nat /\ Owed \in Nat
    <3>1. \E c \in Command : sent' = Append(sent, c) /\ 1 = IF c.name # "idle" THEN 1 ELSE 0
      BY <1>3
    <3> HIDE <1>3
    <3> QED
      BY <1>0, <3>1, OwedMoves
  <2>2. ~cut' => Owed' = 1
    BY <2>1
  <2> QED
    BY <1>3, <2>2 DEF StepInv, Down
<1> QED
  BY <1>1, <1>2, <1>3

\* A list is sent where one completion was owed and read, or it does not matter.
LEMMA StepAfterStartList ==
  ASSUME Inv, Safe', answer' = answer, StartList, NEW b,
         \/ wire' = wire /\ b = 0
         \/ wire # <<>> /\ wire' = Tail(wire) /\ b = IF wire[1].kind = "tagged" THEN 1 ELSE 0,
         cut' \/ Owed = b
  PROVE  StepInv'
<1>0. Traffic /\ Traffic' /\ TypeOK
  BY DEF Inv, PipeInv, TypeOK, Traffic, Safe
<1>1. pc' = "list" /\ \E c \in Command : sent' = Append(sent, c) /\ c.name # "idle"
  <2>1. [name |-> "list", from |-> LastSeen + 1, to |-> 0] \in Command
    BY <1>0, LastSeenType DEF Command
  <2> QED
    BY <2>1 DEF StartList, Goto, Send
<1>2. Owed' + b = Owed + 1 /\ Owed' \in Nat /\ Owed \in Nat
  <2>1. \E c \in Command : sent' = Append(sent, c) /\ 1 = IF c.name # "idle" THEN 1 ELSE 0
    BY <1>1
  <2> QED
    BY <1>0, <2>1, OwedMoves
<1>3. ~cut' => Owed' = 1
  BY <1>2
<1> QED
  BY <1>1, <1>3 DEF StepInv, Down

LEMMA StepInRead ==
  ASSUME Inv, Safe', StepInv, Read
  PROVE  StepInv'
<1> DEFINE r == wire[1]
           b == IF wire[1].kind = "tagged" THEN 1 ELSE 0
<1>0. /\ TypeOK /\ PhaseInv /\ FlowInv /\ Traffic /\ Traffic' /\ answer' = answer
      /\ wire # <<>> /\ wire' = Tail(wire) /\ Head(wire) = r /\ 1 \in DOMAIN wire /\ r \in Response
  <2>1. /\ TypeOK /\ PhaseInv /\ FlowInv /\ Traffic /\ Traffic' /\ answer' = answer
        /\ wire # <<>> /\ wire' = Tail(wire)
    BY DEF Inv, PipeInv, Safe, Read, serverVars, TypeOK, Traffic
  <2> QED
    BY <2>1, TailFacts DEF TypeOK
<1>1. \/ ReadLogin(r) \/ ReadSelect(r) \/ ReadFetch(r) \/ ReadLate(r) \/ ReadSearch(r)
      \/ ReadSetup(r) \/ ReadIdle(r) \/ ReadDrain(r)
  BY <1>0 DEF Read
<1>2. b \in {0, 1} /\ (b = 1 <=> r.kind = "tagged")
  OBVIOUS
<1>2a. b = 0 \/ b = 1
  OBVIOUS
<1>3. sent' = sent => Owed' + b = Owed /\ Owed \in Nat /\ Owed' \in Nat
  <2> SUFFICES ASSUME sent' = sent PROVE Owed' + b = Owed /\ Owed \in Nat /\ Owed' \in Nat
    OBVIOUS
  <2>1. Owed' + b = Owed + 0 /\ Owed \in Nat /\ Owed' \in Nat
    BY <1>0, OwedMoves
  <2> HIDE DEF b
  <2> QED
    BY <1>2a, <2>1
<1>4. ASSUME NEW name \in {"select", "done"}, sent' = Append(sent, Plain(name))
      PROVE  Owed' + b = Owed + 1 /\ Owed \in Nat /\ Owed' \in Nat
  <2>1. Plain(name) \in Command /\ Plain(name).name # "idle"
    BY PlainFacts
  <2>2. \E c \in Command : sent' = Append(sent, c) /\ 1 = IF c.name # "idle" THEN 1 ELSE 0
    BY <1>4, <2>1
  <2> HIDE <1>4
  <2> QED
    BY <1>0, <2>2, OwedMoves
<1>5. Owed \in Nat /\ (Owed = 0 => b = 0)
  <2>1. Owed = Completions(wire) + Completions(answer) + Count(sent, Completed)
        /\ Completions(wire) \in Nat /\ Completions(answer) \in Nat /\ Count(sent, Completed) \in Nat
    BY <1>0, OwedSum
  <2>2. Completions(wire) = Completions(wire') + b /\ Completions(wire') \in Nat
    BY <1>0, CompletionsTail, OwedSumNext DEF Traffic
  <2> QED
    BY <1>2, <2>1, <2>2
<1>6. \/ wire' = wire /\ b = 0
      \/ wire # <<>> /\ wire' = Tail(wire) /\ b = IF wire[1].kind = "tagged" THEN 1 ELSE 0
  BY <1>0
<1> HIDE DEF r, b
<1>7. CASE ReadLogin(r)
  <2>0. pc = "login" /\ Owed = 1 /\ ~cut
    BY <1>7 DEF ReadLogin, StepInv, Down
  <2>1. CASE r.kind \in Status
    <3>1. pc' = "select" /\ sent' = Append(sent, Plain("select")) /\ cut' = (r.kind # "tagged")
      BY <1>7, <2>1 DEF ReadLogin, Goto, Send
    <3>2. ~cut' => b = 1
      BY <1>2, <3>1
    <3>3. Owed' + b = Owed + 1 /\ Owed' \in Nat /\ Owed \in Nat
      BY <1>4, <3>1
    <3>4. cut' \/ Owed = b
      BY <2>0, <3>2
    <3>5. ~cut' => Owed' = 1
      BY <3>3, <3>4
    <3> QED
      BY <3>1, <3>5 DEF StepInv, Down
  <2>2. CASE r.kind \notin Status
    <3>1. pc' = "login" /\ sent' = sent /\ cut' = cut
      BY <1>7, <2>2 DEF ReadLogin, Stays, historyVars
    <3>2. b = 0
      BY <1>2, <2>2 DEF Status
    <3>3. Owed' = 1
      BY <1>3, <2>0, <3>1, <3>2
    <3> QED
      BY <2>0, <3>1, <3>3 DEF StepInv, Down
  <2> QED
    BY <2>1, <2>2
<1>8. CASE ReadSelect(r)
  <2>0. pc = "select" /\ cut' = cut /\ (~cut => Owed = 1)
    BY <1>8 DEF ReadSelect, StepInv, Down
  <2>1. CASE Completes(r)
    <3>1. StartList /\ (cut' \/ Owed = b)
      BY <1>2, <1>8, <2>0, <2>1 DEF ReadSelect, Completes
    <3> QED
      BY <1>0, <1>6, <3>1, StepAfterStartList
  <2>2. CASE ~Completes(r)
    <3>1. pc' = "select" /\ sent' = sent
      BY <1>8, <2>2 DEF ReadSelect
    <3>2. b = 0
      BY <1>2, <2>2 DEF Completes
    <3>3. ~cut' => Owed' = 1
      BY <1>3, <2>0, <3>1, <3>2
    <3> QED
      BY <3>1, <3>3 DEF StepInv, Down
  <2> QED
    BY <2>1, <2>2
<1>9. CASE ReadFetch(r)
  <2>0. pc \in {"list", "fetch"} /\ cut' = cut /\ (~cut => Owed = 1)
    BY <1>9 DEF ReadFetch, StepInv, Down
  <2>1. CASE ~Completes(r)
    <3>1. pc' = pc /\ sent' = sent
      BY <1>9, <2>1 DEF ReadFetch
    <3>2. b = 0
      BY <1>2, <2>1 DEF Completes
    <3>3. ~cut' => Owed' = 1
      BY <1>3, <2>0, <3>1, <3>2
    <3> QED
      BY <2>0, <3>1, <3>3 DEF StepInv, Down
  <2>2. CASE Completes(r) /\ Drains(got)
    <3>1. pc' = "late" /\ sent' = sent
      BY <1>9, <2>2 DEF ReadFetch
    <3>2. b = 1
      BY <1>2, <2>2 DEF Completes
    <3>3. ~cut' => Owed' = 0
      BY <1>3, <2>0, <3>1, <3>2
    <3> QED
      BY <3>1, <3>3 DEF StepInv, Down
  <2>3. CASE Completes(r) /\ ~Drains(got)
    <3>1. Ends(pc, got) /\ (cut' \/ Owed = b)
      BY <1>2, <1>9, <2>0, <2>3 DEF ReadFetch, Completes
    <3>2. \/ pc' = "off"
          \/ pc' = "setup" /\ sent' = Append(sent, Plain("idle"))
          \/ pc' \in {"search", "fetch"} /\ \E c \in Command : sent' = Append(sent, c) /\ c.name # "idle"
      BY <1>0, <3>1, EndsSends DEF TypeOK
    <3> QED
      BY <1>0, <1>6, <3>1, <3>2, StepAfterCommand
  <2> QED
    BY <2>1, <2>2, <2>3
<1>10. CASE ReadLate(r)
  <2>0. pc = "late" /\ (~cut => Owed = 0)
    BY <1>10 DEF ReadLate, StepInv, Down
  <2>1. CASE r.kind \in {"uid", "body"}
    <3>1. pc' = "late" /\ sent' = sent /\ cut' = cut
      BY <1>10, <2>1, <2>0 DEF ReadLate, historyVars
    <3>2. b = 0
      BY <1>2, <2>1
    <3>3. ~cut' => Owed' = 0
      BY <1>3, <2>0, <3>1, <3>2
    <3> QED
      BY <3>1, <3>3 DEF StepInv, Down
  <2>2. CASE r.kind \notin {"uid", "body"}
    <3>1. Ends(draining, got) /\ cut' = (cut \/ Owed > 0 \/ DataOwed \/ r.kind = "exists")
      BY <1>10, <2>2 DEF ReadLate
    <3>2. cut' \/ Owed = b
      BY <1>5, <2>0, <3>1
    <3>3. \/ pc' = "off"
          \/ pc' = "setup" /\ sent' = Append(sent, Plain("idle"))
          \/ pc' \in {"search", "fetch"} /\ \E c \in Command : sent' = Append(sent, c) /\ c.name # "idle"
      BY <1>0, <3>1, EndsSends DEF TypeOK
    <3> QED
      BY <1>0, <1>6, <3>2, <3>3, StepAfterCommand
  <2> QED
    BY <2>1, <2>2
<1>11. CASE ReadSearch(r)
  <2>0. pc = "search" /\ cut' = cut /\ (~cut => Owed = 1) /\ todo # {}
    BY <1>0, <1>11 DEF ReadSearch, StepInv, Down, FlowInv, SearchFlow
  <2>1. CASE r.kind # "search" /\ Completes(r)
    <3>1. FetchRecent(got, todo \cap Dated) /\ (cut' \/ Owed = b)
      BY <1>2, <1>11, <2>0, <2>1 DEF ReadSearch, Completes, SearchEnds
    <3>2. \/ pc' = "off"
          \/ pc' = "setup" /\ sent' = Append(sent, Plain("idle"))
          \/ pc' \in {"search", "fetch"} /\ \E c \in Command : sent' = Append(sent, c) /\ c.name # "idle"
      BY <1>0, <3>1, EndsSends DEF TypeOK
    <3> QED
      BY <1>0, <1>6, <3>1, <3>2, StepAfterCommand
  <2>2. CASE ~(r.kind # "search" /\ Completes(r))
    <3>1. pc' = "search" /\ sent' = sent
      BY <1>11, <2>0, <2>2 DEF ReadSearch, Completes, Stays
    <3>2. b = 0
      BY <1>2, <2>2 DEF Completes
    <3>3. ~cut' => Owed' = 1
      BY <1>3, <2>0, <3>1, <3>2
    <3> QED
      BY <3>1, <3>3 DEF StepInv, Down
  <2> QED
    BY <2>1, <2>2
<1>12. CASE ReadSetup(r)
  <2>0. pc = "setup" /\ cut' = cut /\ (~cut => Owed = 0) /\ IdleLast
    BY <1>0, <1>12 DEF ReadSetup, StepInv, Down, PhaseInv, historyVars
  <2>1. CASE r.kind = "accepted"
    <3>1. /\ noticed' = noticed
          /\ \/ noticed /\ pc' = "drain" /\ sent' = Append(sent, Plain("done"))
             \/ ~noticed /\ pc' = "idle" /\ sent' = sent
      BY <1>12, <2>1 DEF ReadSetup, Goto, SendDone, Send
    <3>2. /\ answer = <<>> /\ sent = <<>> /\ b = 0
          /\ \A j \in DOMAIN wire : wire[j].kind # "tagged"
      <4>1. /\ answer = <<>> /\ sent = <<>> /\ b = 0
            /\ \A j \in DOMAIN wire : j > 1 => wire[j].kind \in {"exists", "untagged"}
        BY <1>0, <1>2, <2>0, <2>1 DEF IdleLast, IdleReply, r
      <4>2. \A j \in DOMAIN wire : j > 1 \/ j = 1
        BY <1>0, SeqFacts DEF Traffic
      <4> QED
        BY <2>1, <4>1, <4>2 DEF r
    <3>3. Owed = 0
      <4>1. Completions(wire) = 0 /\ Completions(answer) = 0 /\ Count(sent, Completed) = 0
        <5>1. /\ {i \in DOMAIN wire : wire[i].kind = "tagged"} = {}
              /\ {i \in DOMAIN answer : answer[i].kind = "tagged"} = {}
              /\ {i \in DOMAIN sent : sent[i] \in Completed} = {}
          BY <3>2
        <5> QED
          BY <5>1, FS_EmptySet DEF Completions, Count
      <4> QED
        BY <1>0, <4>1, OwedSum
    <3>4. CASE noticed
      <4>1. Owed' = 1
        BY <1>4, <3>1, <3>2, <3>3, <3>4
      <4> QED
        BY <3>1, <3>4, <4>1 DEF StepInv, Down
    <3>5. CASE ~noticed
      <4>1. Owed' = 0
        BY <1>3, <3>1, <3>2, <3>3, <3>5
      <4> QED
        BY <3>1, <3>5, <4>1 DEF StepInv, Down
    <3> QED
      BY <3>4, <3>5
  <2>2. CASE r.kind = "rejected"
    <3>1. pc' = "off"
      BY <1>12, <2>2 DEF ReadSetup, Closed, Goto
    <3> QED
      BY <3>1 DEF StepInv, Down
  <2>3. CASE r.kind \notin {"accepted", "rejected"}
    <3>1. pc' = "setup" /\ sent' = sent
      BY <1>12, <2>0, <2>3 DEF ReadSetup
    <3>2. ~cut' => Owed' = 0
      BY <1>2, <1>3, <1>5, <2>0, <3>1
    <3> QED
      BY <3>1, <3>2 DEF StepInv, Down
  <2> QED
    BY <2>1, <2>2, <2>3
<1>13. CASE ReadIdle(r)
  <2>0. pc = "idle" /\ cut' = (cut /\ ~Completes(r)) /\ Owed = IF noticed THEN 1 ELSE 0
    BY <1>13 DEF ReadIdle, StepInv, Down
  <2>1. CASE Completes(r)
    <3>1. StartList /\ b = 1
      BY <1>2, <1>13, <2>1 DEF ReadIdle, Completes
    <3>2. Owed = b
      BY <1>5, <2>0, <3>1
    <3> QED
      BY <1>0, <1>6, <3>1, <3>2, StepAfterStartList
  <2>2. CASE ~Completes(r) /\ r.kind = "exists"
    <3>1. /\ pc' = "idle" /\ noticed' = TRUE
          /\ \/ noticed /\ sent' = sent
             \/ ~noticed /\ sent' = Append(sent, Plain("done"))
      BY <1>13, <2>0, <2>2 DEF ReadIdle, SendDone, Send, Completes
    <3>2. b = 0
      BY <1>2, <2>2 DEF Completes
    <3>3. Owed' = 1
      <4>1. CASE noticed
        BY <1>3, <2>0, <3>1, <3>2, <4>1
      <4>2. CASE ~noticed
        BY <1>4, <2>0, <3>1, <3>2, <4>2
      <4> QED
        BY <4>1, <4>2
    <3> QED
      BY <3>1, <3>3 DEF StepInv, Down
  <2>3. CASE ~Completes(r) /\ r.kind # "exists"
    <3>1. pc' = "idle" /\ noticed' = noticed /\ sent' = sent
      BY <1>13, <2>0, <2>3 DEF ReadIdle, Stays, Completes
    <3>2. b = 0
      BY <1>2, <2>3 DEF Completes
    <3>3. Owed' = Owed
      BY <1>3, <3>1, <3>2
    <3> QED
      BY <2>0, <3>1, <3>3 DEF StepInv, Down
  <2> QED
    BY <2>1, <2>2, <2>3
<1>14. CASE ReadDrain(r)
  <2>0. pc = "drain" /\ Owed = 1
    BY <1>14 DEF ReadDrain, StepInv, Down
  <2>1. CASE r.kind \in Status
    <3>1. StartList /\ cut' = (r.kind # "tagged")
      BY <1>14, <2>1 DEF ReadDrain
    <3>2. cut' \/ Owed = b
      BY <1>2, <2>0, <3>1
    <3> QED
      BY <1>0, <1>6, <3>1, <3>2, StepAfterStartList
  <2>2. CASE r.kind \notin Status
    <3>1. pc' = "drain" /\ sent' = sent
      BY <1>14, <2>0, <2>2 DEF ReadDrain, Stays
    <3>2. b = 0
      BY <1>2, <2>2 DEF Status
    <3>3. Owed' = 1
      BY <1>3, <2>0, <3>1, <3>2
    <3> QED
      BY <3>1, <3>3 DEF StepInv, Down
  <2> QED
    BY <2>1, <2>2
<1> QED
  BY <1>1, <1>7, <1>8, <1>9, <1>10, <1>11, <1>12, <1>13, <1>14

LEMMA StepInTimers ==
  ASSUME Inv, Safe', StepInv, Timers
  PROVE  StepInv'
<1>0. /\ TypeOK /\ Traffic /\ Traffic' /\ answer' = answer /\ wire' = wire
      /\ Owed \in Nat
  <2>1. TypeOK /\ Traffic /\ Traffic'
    BY DEF Inv, PipeInv, TypeOK, Traffic, Safe
  <2>2. answer' = answer /\ wire' = wire
    BY DEF Timers, Heartbeat, LateTimeout, DrainTimeout, serverVars
  <2> QED
    BY <2>1, <2>2, OwedSum
<1>1. CASE Heartbeat
  <2>0. pc = "idle" /\ pc' = "drain" /\ Owed = IF noticed THEN 1 ELSE 0
    BY <1>1 DEF Heartbeat, HeartbeatDue, Goto, StepInv, Down
  <2>1. CASE noticed
    <3>1. sent' = sent
      BY <1>1, <2>1 DEF Heartbeat
    <3>2. Owed' = Owed
      BY <1>0, <3>1 DEF Owed, Completions
    <3> QED
      BY <2>0, <2>1, <3>2 DEF StepInv, Down
  <2>2. CASE ~noticed
    <3>1. sent' = Append(sent, Plain("done"))
      BY <1>1, <2>2 DEF Heartbeat, SendDone, Send
    <3>2. \E c \in Command : sent' = Append(sent, c) /\ 1 = IF c.name # "idle" THEN 1 ELSE 0
      <4>1. Plain("done") \in Command /\ Plain("done").name # "idle"
        BY PlainFacts
      <4> QED
        BY <3>1, <4>1
    <3>3. Owed' + 0 = Owed + 1 /\ Owed' \in Nat /\ Owed \in Nat
      BY <1>0, <3>2, OwedMoves
    <3>4. Owed = 0
      BY <2>0, <2>2
    <3>5. Owed' = 1
      <4>1. \A m, n \in Nat : m + 0 = n + 1 /\ n = 0 => m = 1
        OBVIOUS
      <4> QED
        BY <3>3, <3>4, <4>1
    <3> QED
      BY <2>0, <3>5 DEF StepInv, Down
  <2> QED
    BY <2>1, <2>2
<1>2. CASE LateTimeout
  <2>1. pc = "late" /\ (~cut => Owed = 0) /\ Ends(draining, got)
    BY <1>2 DEF LateTimeout, StepInv, Down
  <2>2. cut' = (cut \/ Owed > 0 \/ DataOwed)
    BY <1>2 DEF LateTimeout
  <2>3. cut' \/ Owed = 0
    BY <2>1, <2>2
  <2>4. \/ pc' = "off"
        \/ pc' = "setup" /\ sent' = Append(sent, Plain("idle"))
        \/ pc' \in {"search", "fetch"} /\ \E c \in Command : sent' = Append(sent, c) /\ c.name # "idle"
    BY <1>0, <2>1, EndsSends DEF TypeOK
  <2> QED
    BY <1>0, <2>3, <2>4, StepAfterCommand
<1>3. CASE DrainTimeout
  <2>1. StartList /\ cut'
    BY <1>3 DEF DrainTimeout
  <2> QED
    BY <1>0, <2>1, StepAfterStartList
<1> QED
  BY <1>1, <1>2, <1>3 DEF Timers

LEMMA StepInit ==
  ASSUME Init
  PROVE  StepInv
  BY DEF Init, StepInv, Down

LEMMA StepNext ==
  ASSUME Inv, Inv', StepInv, [Next]_vars
  PROVE  StepInv'
<1>0. Safe'
  BY DEF Inv, PipeInv, TypeOK, Safe, ClientTypes, Traffic, Points
<1>1. CASE Deliver \/ Tell \/ Keepalive \/ Server
  <2>1. UNCHANGED <<pc, noticed, cut>>
    BY <1>1 DEF Deliver, Tell, Keepalive, Server, Accept, Emit, clientVars, historyVars
  <2>2. Owed' = Owed
    BY <1>0, <1>1, OwedByServer
  <2> QED
    BY <2>1, <2>2 DEF StepInv, Down
<1>2. CASE Connect
  <2>1. pc' = "login" /\ cut' = FALSE /\ wire' = <<>> /\ answer' = <<>> /\ sent' = <<Plain("login")>>
    BY <1>2 DEF Connect, Goto
  <2>2. Plain("login") \in Command /\ Plain("login").name = "login"
    BY PlainFacts
  <2>3. Owed' = 1
    <3>1. Completions(wire') = 0 /\ Completions(answer') = 0
      <4>1. {i \in DOMAIN wire' : wire'[i].kind = "tagged"} = {}
        BY <2>1
      <4>2. {i \in DOMAIN answer' : answer'[i].kind = "tagged"} = {}
        BY <2>1
      <4> QED
        BY <4>1, <4>2, FS_EmptySet DEF Completions
    <3>2. Count(sent', Completed) = 1
      <4>1. {i \in DOMAIN sent' : sent'[i] \in Completed} = {1}
        BY <2>1, <2>2 DEF Completed
      <4> QED
        BY <4>1, FS_Singleton DEF Count
    <3>3. Owed' = Completions(wire') + Completions(answer') + Count(sent', Completed)
      BY <1>0, OwedSumNext DEF Safe
    <3> QED
      BY <3>1, <3>2, <3>3
  <2> QED
    BY <2>1, <2>3 DEF StepInv, Down
<1>3. CASE Break \/ AuthFails \/ Respawn
  <2>1. pc' \in Down
    BY <1>3 DEF Break, AuthFails, Respawn, Closed, Goto, Down
  <2> QED
    BY <2>1 DEF StepInv, Down
<1>4. CASE UNCHANGED vars
  <2>1. UNCHANGED <<pc, noticed, cut, wire, answer, sent>>
    BY <1>4 DEF vars, serverVars, clientVars, historyVars
  <2>2. Owed' = Owed
    BY <2>1 DEF Owed, Completions
  <2> QED
    BY <2>1, <2>2 DEF StepInv, Down
<1> QED
  BY <1>0, <1>1, <1>2, <1>3, <1>4, StepInRead, StepInTimers DEF Next

\* The client of ImapConnection waits for one completion in a command and for none before
\* DONE, although it matches no tags; what breaks the step is over at the next IDLE.
THEOREM StaysInStep == Spec => []InStep
<1>1. Spec => []StepInv
  BY InvInit, InvNext, StepInit, StepNext, InvAlways, PTL DEF Spec
<1>2. StepInv => InStep
  BY DEF StepInv, Down, InStep
<1> QED
  BY <1>1, <1>2, PTL

-----------------------------------------------------------------------------
(* What the client is told, and what it misses. *)

\* An EXISTS is due, or on its way.
Told == untold \/ \E i \in DOMAIN wire : wire[i].kind = "exists"

\* A completion follows all data, or the data follows it and none was read.
DataFirst(k) ==
  /\ \A i \in DOMAIN wire : wire[i].kind = k =>
       \/ \E j \in DOMAIN wire : j > i /\ wire[j].kind = "tagged"
       \/ \E j \in DOMAIN answer : answer[j].kind = "tagged"
  /\ \A i \in DOMAIN answer : answer[i].kind = k =>
       \E j \in DOMAIN answer : j > i /\ answer[j].kind = "tagged"

DataLast(k) ==
  /\ got = {}
  /\ \A i \in DOMAIN wire : wire[i].kind = k =>
       \E j \in DOMAIN wire : j < i /\ wire[j].kind = "tagged"
  /\ \A i \in DOMAIN answer : answer[i].kind = k =>
       \/ \E j \in DOMAIN answer : j < i /\ answer[j].kind = "tagged"
       \/ \E j \in DOMAIN wire : wire[j].kind = "tagged"

\* The result of the search is read before its completion.
SearchComing ==
  \/ got = todo \ Dated \/ Asked("search")
  \/ \E i \in DOMAIN wire : wire[i].kind = "search" /\
       \/ \E j \in DOMAIN wire : j > i /\ wire[j].kind = "tagged"
       \/ \E j \in DOMAIN answer : answer[j].kind = "tagged"
  \/ \E i \in DOMAIN answer : answer[i].kind = "search" /\
       \E j \in DOMAIN answer : j > i /\ answer[j].kind = "tagged"

Ordered(k) == DataFirst(k) \/ DataLast(k)

OrderInv == ~cut =>
  /\ pc = "list" => Ordered("uid") /\ (Asked("list") => got = {} /\ NoneUnderWay({"uid"}))
  /\ pc = "fetch" => Ordered("body") /\ (Asked("fetch") => got = {} /\ NoneUnderWay({"body"}))
  /\ pc = "search" => SearchComing

\* Each message that was delivered is stored or on its way, or an EXISTS tells of it.
Listed(u) == u \in Have \/ InWire("uid", u) \/ InAnswer("uid", u)
Requested(u) ==
  u \in todo \/ \E i \in DOMAIN sent : sent[i].name = "fetch" /\ sent[i].from <= u /\ u <= sent[i].to

NoticeInv == ~cut /\ ~passed =>
  /\ Listing => Told \/ Asked("list") \/ \A u \in 1..top : Listed(u)
  /\ pc = "search" => Told \/ \A u \in 1..top : u \in 0..LastSeen \cup limited \/ u \in todo
  /\ Fetching => Told \/ \A u \in 1..top : Requested(u) \/ Coming(u)
  /\ pc \in {"setup", "idle"} => Told \/ noticed \/ 1..top \subseteq ingested \cup limited

LEMMA OrderRead ==
  ASSUME Traffic, NEW k, Ordered(k), wire # <<>>, wire' = Tail(wire), answer' = answer,
         wire[1].kind # "tagged", wire[1].kind # k => got' = got
  PROVE  Ordered(k)'
<1>1. /\ \A i \in DOMAIN wire' :
           i \in Nat /\ i > 0 /\ i + 1 \in DOMAIN wire /\ wire'[i] = wire[i + 1]
      /\ \A i \in DOMAIN wire :
           i \in Nat /\ i >= 1 /\ (i = 1 \/ (i - 1 \in DOMAIN wire' /\ wire'[i - 1] = wire[i]))
      /\ 1 \in DOMAIN wire
  BY TailFacts, SeqFacts DEF Traffic
<1>2. \A i \in DOMAIN wire' : \A j \in DOMAIN wire : wire[j].kind = "tagged" =>
        j - 1 \in DOMAIN wire' /\ wire'[j - 1].kind = "tagged"
        /\ (j > i + 1 => j - 1 > i) /\ (j < i + 1 => j - 1 < i)
  <2> SUFFICES ASSUME NEW i \in DOMAIN wire', NEW j \in DOMAIN wire, wire[j].kind = "tagged"
               PROVE  j - 1 \in DOMAIN wire' /\ wire'[j - 1].kind = "tagged"
                      /\ (j > i + 1 => j - 1 > i) /\ (j < i + 1 => j - 1 < i)
    OBVIOUS
  <2>1. j # 1 /\ j \in Nat /\ i \in Nat
    BY <1>1
  <2> QED
    BY <1>1, <2>1
<1>3. CASE DataFirst(k)
  <2>1. \A i \in DOMAIN wire' : wire'[i].kind = k =>
          \/ \E j \in DOMAIN wire' : j > i /\ wire'[j].kind = "tagged"
          \/ \E j \in DOMAIN answer' : answer'[j].kind = "tagged"
    <3> TAKE i \in DOMAIN wire'
    <3> HAVE wire'[i].kind = k
    <3>1. \/ \E j \in DOMAIN wire : j > i + 1 /\ wire[j].kind = "tagged"
          \/ \E j \in DOMAIN answer : answer[j].kind = "tagged"
      BY <1>1, <1>3 DEF DataFirst
    <3> QED
      BY <1>2, <3>1
  <2> QED
    BY <1>3, <2>1 DEF DataFirst, Ordered
<1>4. CASE DataLast(k)
  <2>1. got' = {}
    <3>1. ~\E j \in DOMAIN wire : j < 1
      BY <1>1
    <3>2. wire[1].kind # k
      BY <1>1, <1>4, <3>1 DEF DataLast
    <3> QED
      BY <1>4, <3>2 DEF DataLast
  <2>2. \A i \in DOMAIN wire' : wire'[i].kind = k =>
          \E j \in DOMAIN wire' : j < i /\ wire'[j].kind = "tagged"
    <3> TAKE i \in DOMAIN wire'
    <3> HAVE wire'[i].kind = k
    <3>1. \E j \in DOMAIN wire : j < i + 1 /\ wire[j].kind = "tagged"
      BY <1>1, <1>4 DEF DataLast
    <3> QED
      BY <1>2, <3>1
  <2>3. (\E j \in DOMAIN wire : wire[j].kind = "tagged") => \E j \in DOMAIN wire' : wire'[j].kind = "tagged"
    BY <1>1
  <2> QED
    BY <1>4, <2>1, <2>2, <2>3 DEF DataLast, Ordered
<1> QED
  BY <1>3, <1>4 DEF Ordered

LEMMA OrderSent ==
  ASSUME Traffic, NEW k, k # "tagged", Ordered(k), got' = got,
         NEW r \in Response, wire' = Append(wire, r),
         \/ r.kind \notin {k, "tagged"} /\ answer' = answer
         \/ answer # <<>> /\ r = answer[1] /\ answer' = Tail(answer)
  PROVE  Ordered(k)'
<1> DEFINE n == Len(wire) + 1
<1>1. /\ \A i \in DOMAIN wire : i \in DOMAIN wire' /\ wire'[i] = wire[i] /\ i < n /\ i \in Nat
      /\ n \in DOMAIN wire' /\ wire'[n] = r
      /\ \A i \in DOMAIN wire' : i \in DOMAIN wire \/ i = n
      /\ n \in Nat
  BY AppendFacts, SeqFacts DEF Traffic
<1> HIDE DEF n
<1>2. CASE r.kind \notin {k, "tagged"} /\ answer' = answer
  <2>1. \A i \in DOMAIN wire' : wire'[i].kind = k => i \in DOMAIN wire
    BY <1>1, <1>2
  <2>2. DataFirst(k) => DataFirst(k)'
    BY <1>1, <1>2, <2>1 DEF DataFirst
  <2>3. DataLast(k) => DataLast(k)'
    BY <1>1, <1>2, <2>1 DEF DataLast
  <2> QED
    BY <2>2, <2>3 DEF Ordered
<1>3. CASE answer # <<>> /\ r = answer[1] /\ answer' = Tail(answer)
  <2>1. /\ \A i \in DOMAIN answer' :
             i \in Nat /\ i > 0 /\ i + 1 \in DOMAIN answer /\ answer'[i] = answer[i + 1]
        /\ \A i \in DOMAIN answer : /\ i \in Nat /\ i >= 1
                                    /\ i = 1 \/ (i - 1 \in DOMAIN answer' /\ answer'[i - 1] = answer[i])
        /\ 1 \in DOMAIN answer
    BY <1>3, TailFacts, SeqFacts DEF Traffic
  <2>2. (\E j \in DOMAIN answer : answer[j].kind = "tagged") =>
          \/ wire'[n].kind = "tagged"
          \/ \E j \in DOMAIN answer' : answer'[j].kind = "tagged"
    <3> SUFFICES ASSUME NEW j \in DOMAIN answer, answer[j].kind = "tagged", wire'[n].kind # "tagged"
                 PROVE  \E m \in DOMAIN answer' : answer'[m].kind = "tagged"
      OBVIOUS
    <3>1. j # 1
      BY <1>1, <1>3
    <3> QED
      BY <2>1, <3>1
  <2>3. CASE DataFirst(k)
    <3>1. \A i \in DOMAIN wire' : wire'[i].kind = k =>
            \/ \E j \in DOMAIN wire' : j > i /\ wire'[j].kind = "tagged"
            \/ \E j \in DOMAIN answer' : answer'[j].kind = "tagged"
      <4> SUFFICES ASSUME NEW i \in DOMAIN wire', wire'[i].kind = k
                   PROVE  \/ \E j \in DOMAIN wire' : j > i /\ wire'[j].kind = "tagged"
                          \/ \E j \in DOMAIN answer' : answer'[j].kind = "tagged"
        OBVIOUS
      <4>1. CASE i \in DOMAIN wire
        <5>1. \/ \E j \in DOMAIN wire : j > i /\ wire[j].kind = "tagged"
              \/ \E j \in DOMAIN answer : answer[j].kind = "tagged"
          BY <1>1, <2>3, <4>1 DEF DataFirst
        <5>2. n > i
          BY <1>1, <4>1
        <5> QED
          BY <1>1, <2>2, <5>1, <5>2
      <4>2. CASE i = n
        <5>1. answer[1].kind = k
          BY <1>1, <1>3, <4>2
        <5>2. \E j \in DOMAIN answer : answer[j].kind = "tagged"
          BY <2>1, <2>3, <5>1 DEF DataFirst
        <5> QED
          BY <2>2, <4>2, <5>2
      <4> QED
        BY <1>1, <4>1, <4>2
    <3>2. \A i \in DOMAIN answer' : answer'[i].kind = k =>
            \E j \in DOMAIN answer' : j > i /\ answer'[j].kind = "tagged"
      <4> SUFFICES ASSUME NEW i \in DOMAIN answer', answer'[i].kind = k
                   PROVE  \E j \in DOMAIN answer' : j > i /\ answer'[j].kind = "tagged"
        OBVIOUS
      <4>1. PICK j \in DOMAIN answer : j > i + 1 /\ answer[j].kind = "tagged"
        BY <2>1, <2>3 DEF DataFirst
      <4>2. j \in Nat /\ i \in Nat /\ i > 0
        BY <2>1
      <4>3. j # 1 /\ j - 1 > i
        BY <4>1, <4>2
      <4> QED
        BY <2>1, <4>1, <4>3
    <3> QED
      BY <3>1, <3>2 DEF DataFirst, Ordered
  <2>4. CASE DataLast(k)
    <3>1. \A i \in DOMAIN wire' : wire'[i].kind = k =>
            \E j \in DOMAIN wire' : j < i /\ wire'[j].kind = "tagged"
      <4> SUFFICES ASSUME NEW i \in DOMAIN wire', wire'[i].kind = k
                   PROVE  \E j \in DOMAIN wire' : j < i /\ wire'[j].kind = "tagged"
        OBVIOUS
      <4>1. CASE i \in DOMAIN wire
        BY <1>1, <2>4, <4>1 DEF DataLast
      <4>2. CASE i = n
        <5>1. answer[1].kind = k
          BY <1>1, <1>3, <4>2
        <5>2. ~\E j \in DOMAIN answer : j < 1
          BY <2>1
        <5>3. PICK j \in DOMAIN wire : wire[j].kind = "tagged"
          BY <2>1, <2>4, <5>1, <5>2 DEF DataLast
        <5> QED
          BY <1>1, <4>2, <5>3
      <4> QED
        BY <1>1, <4>1, <4>2
    <3>2. \A i \in DOMAIN answer' : answer'[i].kind = k =>
            \/ \E j \in DOMAIN answer' : j < i /\ answer'[j].kind = "tagged"
            \/ \E j \in DOMAIN wire' : wire'[j].kind = "tagged"
      <4> SUFFICES ASSUME NEW i \in DOMAIN answer', answer'[i].kind = k,
                          ~\E j \in DOMAIN wire' : wire'[j].kind = "tagged"
                   PROVE  \E j \in DOMAIN answer' : j < i /\ answer'[j].kind = "tagged"
        OBVIOUS
      <4>1. ~\E j \in DOMAIN wire : wire[j].kind = "tagged"
        BY <1>1
      <4>2. PICK j \in DOMAIN answer : j < i + 1 /\ answer[j].kind = "tagged"
        BY <2>1, <2>4, <4>1 DEF DataLast
      <4>3. j # 1
        BY <1>1, <1>3, <4>2
      <4>4. j - 1 < i
        BY <2>1, <4>2, <4>3
      <4> QED
        BY <2>1, <4>2, <4>3, <4>4
    <3> QED
      BY <2>4, <3>1, <3>2 DEF DataLast, Ordered
  <2> QED
    BY <2>3, <2>4 DEF Ordered
<1> QED
  BY <1>2, <1>3

LEMMA SearchRead ==
  ASSUME Traffic, SearchComing, wire # <<>>, wire' = Tail(wire), answer' = answer,
         wire[1].kind \notin {"tagged", "search"}, UNCHANGED <<got, todo, sent>>
  PROVE  SearchComing'
<1>1. /\ \A i \in DOMAIN wire : /\ i \in Nat /\ i >= 1
                                /\ i = 1 \/ (i - 1 \in DOMAIN wire' /\ wire'[i - 1] = wire[i])
  BY TailFacts, SeqFacts DEF Traffic
<1>2. CASE got = todo \ Dated \/ Asked("search")
  BY <1>2 DEF SearchComing, Asked
<1>3. CASE \E i \in DOMAIN wire : wire[i].kind = "search" /\
              \/ \E j \in DOMAIN wire : j > i /\ wire[j].kind = "tagged"
              \/ \E j \in DOMAIN answer : answer[j].kind = "tagged"
  <2>1. PICK i \in DOMAIN wire : wire[i].kind = "search" /\
              \/ \E j \in DOMAIN wire : j > i /\ wire[j].kind = "tagged"
              \/ \E j \in DOMAIN answer : answer[j].kind = "tagged"
    BY <1>3
  <2>2. i - 1 \in DOMAIN wire' /\ wire'[i - 1].kind = "search"
    BY <1>1, <2>1
  <2>3. CASE \E j \in DOMAIN answer : answer[j].kind = "tagged"
    BY <2>2, <2>3 DEF SearchComing
  <2>4. CASE \E j \in DOMAIN wire : j > i /\ wire[j].kind = "tagged"
    <3>1. PICK j \in DOMAIN wire : j > i /\ wire[j].kind = "tagged"
      BY <2>4
    <3>2. j - 1 \in DOMAIN wire' /\ wire'[j - 1].kind = "tagged" /\ j - 1 > i - 1
      BY <1>1, <3>1
    <3> QED
      BY <2>2, <3>2 DEF SearchComing
  <2> QED
    BY <2>1, <2>3, <2>4
<1>4. CASE \E i \in DOMAIN answer : answer[i].kind = "search" /\
             \E j \in DOMAIN answer : j > i /\ answer[j].kind = "tagged"
  BY <1>4 DEF SearchComing
<1> QED
  BY <1>2, <1>3, <1>4 DEF SearchComing

LEMMA SearchSent ==
  ASSUME Traffic, SearchComing, UNCHANGED <<got, todo, sent>>,
         NEW r \in Response, wire' = Append(wire, r),
         answer' = answer \/ (answer # <<>> /\ r = answer[1] /\ answer' = Tail(answer))
  PROVE  SearchComing'
<1> DEFINE n == Len(wire) + 1
<1>1. /\ \A i \in DOMAIN wire : i \in DOMAIN wire' /\ wire'[i] = wire[i] /\ n > i
      /\ n \in DOMAIN wire' /\ wire'[n] = r
  BY AppendFacts, SeqFacts DEF Traffic
<1> HIDE DEF n
<1>2. CASE got = todo \ Dated \/ Asked("search")
  BY <1>2 DEF SearchComing, Asked
<1>3. CASE answer' = answer
  <2>1. CASE \E i \in DOMAIN wire : wire[i].kind = "search" /\
              \/ \E j \in DOMAIN wire : j > i /\ wire[j].kind = "tagged"
              \/ \E j \in DOMAIN answer : answer[j].kind = "tagged"
    BY <1>1, <1>3, <2>1 DEF SearchComing
  <2>2. CASE \E i \in DOMAIN answer : answer[i].kind = "search" /\
               \E j \in DOMAIN answer : j > i /\ answer[j].kind = "tagged"
    BY <1>3, <2>2 DEF SearchComing
  <2> QED
    BY <1>2, <2>1, <2>2 DEF SearchComing
<1>4. CASE answer # <<>> /\ r = answer[1] /\ answer' = Tail(answer)
  <2>1. \A i \in DOMAIN answer : /\ i \in Nat /\ i >= 1
                                 /\ i = 1 \/ (i - 1 \in DOMAIN answer' /\ answer'[i - 1] = answer[i])
    BY <1>4, TailFacts, SeqFacts DEF Traffic
  <2>2. CASE \E i \in DOMAIN wire : wire[i].kind = "search" /\
              \/ \E j \in DOMAIN wire : j > i /\ wire[j].kind = "tagged"
              \/ \E j \in DOMAIN answer : answer[j].kind = "tagged"
    <3>1. PICK i \in DOMAIN wire : wire[i].kind = "search" /\
              \/ \E j \in DOMAIN wire : j > i /\ wire[j].kind = "tagged"
              \/ \E j \in DOMAIN answer : answer[j].kind = "tagged"
      BY <2>2
    <3>2. CASE \E j \in DOMAIN wire : j > i /\ wire[j].kind = "tagged"
      BY <1>1, <3>1, <3>2 DEF SearchComing
    <3>3. CASE \E j \in DOMAIN answer : answer[j].kind = "tagged"
      <4>1. PICK j \in DOMAIN answer : answer[j].kind = "tagged"
        BY <3>3
      <4>2. CASE j = 1
        <5>1. wire'[n].kind = "tagged" /\ n > i /\ wire'[i].kind = "search"
          BY <1>1, <1>4, <3>1, <4>1, <4>2
        <5> QED
          BY <1>1, <5>1 DEF SearchComing
      <4>3. CASE j # 1
        <5>1. j - 1 \in DOMAIN answer' /\ answer'[j - 1].kind = "tagged"
          BY <2>1, <4>1, <4>3
        <5> QED
          BY <1>1, <3>1, <5>1 DEF SearchComing
      <4> QED
        BY <4>2, <4>3
    <3> QED
      BY <3>1, <3>2, <3>3
  <2>3. CASE \E i \in DOMAIN answer : answer[i].kind = "search" /\
               \E j \in DOMAIN answer : j > i /\ answer[j].kind = "tagged"
    <3>1. PICK i \in DOMAIN answer : answer[i].kind = "search" /\
               \E j \in DOMAIN answer : j > i /\ answer[j].kind = "tagged"
      BY <2>3
    <3>2. PICK j \in DOMAIN answer : j > i /\ answer[j].kind = "tagged"
      BY <3>1
    <3>3. j - 1 \in DOMAIN answer' /\ answer'[j - 1].kind = "tagged" /\ j - 1 > i - 1
      BY <2>1, <3>2
    <3>4. CASE i = 1
      BY <1>1, <1>4, <3>1, <3>3, <3>4 DEF SearchComing
    <3>5. CASE i # 1
      BY <2>1, <3>1, <3>3, <3>5 DEF SearchComing
    <3> QED
      BY <3>4, <3>5
  <2> QED
    BY <1>2, <2>2, <2>3 DEF SearchComing
<1> QED
  BY <1>3, <1>4

\* No completion is left: every command was answered, and the answer was read up to it.
LEMMA NoneOwed ==
  ASSUME Traffic, Traffic', answer' = answer, NEW b, Owed = b,
         \/ wire' = wire /\ b = 0
         \/ wire # <<>> /\ wire' = Tail(wire) /\ b = IF wire[1].kind = "tagged" THEN 1 ELSE 0
  PROVE  /\ \A i \in DOMAIN wire' : wire'[i].kind # "tagged"
         /\ \A i \in DOMAIN answer : answer[i].kind # "tagged"
         /\ \A i \in DOMAIN sent : sent[i].name = "idle"
<1> DEFINE w == Completions(wire)
           v == Completions(wire')
           a == Completions(answer)
           m == Count(sent, Completed)
<1>1. w = v + b /\ (b = 0 \/ b = 1)
  <2>1. CASE wire' = wire /\ b = 0
    BY <2>1, OwedSum
  <2>2. CASE wire # <<>> /\ wire' = Tail(wire) /\ b = IF wire[1].kind = "tagged" THEN 1 ELSE 0
    BY <2>2, CompletionsTail DEF Traffic
  <2> QED
    BY <2>1, <2>2
<1>2. Owed = w + a + m /\ w \in Nat /\ a \in Nat /\ m \in Nat
  BY OwedSum
<1>3. v \in Nat
  BY OwedSumNext
<1>4. v = 0 /\ a = 0 /\ m = 0
  <2> HIDE DEF w, v, a, m
  <2>1. v + b + a + m = b
    BY <1>1, <1>2
  <2> QED
    BY <1>1, <1>2, <1>3, <2>1
<1>5. /\ Count(wire', Tagged) = 0 /\ Count(answer, Tagged) = 0
  BY <1>4, CompletionsFacts DEF Traffic
<1>6. /\ \A i \in DOMAIN wire' : wire'[i] \notin Tagged
      /\ \A i \in DOMAIN answer : answer[i] \notin Tagged
      /\ \A i \in DOMAIN sent : sent[i] \notin Completed
  <2> HIDE DEF w, v, a
  <2> QED
    BY <1>4, <1>5, CountFacts DEF Traffic
<1>7. /\ \A i \in DOMAIN wire' : wire'[i] \in Response
      /\ \A i \in DOMAIN answer : answer[i] \in Response
      /\ \A i \in DOMAIN sent : sent[i] \in Command
  BY SeqFacts DEF Traffic
<1> QED
  BY <1>6, <1>7 DEF Tagged, Completed

\* The only completion that is owed is in the answer: no other command is to be answered.
LEMMA LastAnswered ==
  ASSUME Traffic', Owed' = 1, NEW t \in DOMAIN answer', answer'[t].kind = "tagged"
  PROVE  \A i \in DOMAIN sent' : sent'[i].name = "idle"
<1> DEFINE v == Completions(wire')
           d == Completions(answer')
           n == Count(sent', Completed)
<1>1. v + d + n = 1 /\ v \in Nat /\ d \in Nat /\ n \in Nat
  BY OwedSumNext
<1>2. d # 0
  <2>1. answer'[t] \in Tagged /\ d = Count(answer', Tagged)
    BY SeqFacts, CompletionsFacts DEF Traffic, Tagged
  <2> HIDE DEF d
  <2> QED
    BY <2>1, CountFacts DEF Traffic
<1>3. n = 0
  <2> HIDE DEF v, d, n
  <2> QED
    BY <1>1, <1>2
<1>4. \A i \in DOMAIN sent' : sent'[i] \notin Completed /\ sent'[i] \in Command
  BY <1>3, CountFacts, SeqFacts DEF Traffic
<1> QED
  BY <1>4 DEF Completed

LEMMA NoticeInAccept ==
  ASSUME Inv, Safe', StepInv, StepInv', OrderInv, NoticeInv, Accept
  PROVE  OrderInv' /\ NoticeInv'
<1> DEFINE c == sent[1]
<1>0. /\ UNCHANGED <<pc, draining, polling, validity, got, todo, noticed, state, ingested, limited, wire>>
      /\ UNCHANGED <<top, untold, cut, passed>>
      /\ LastSeen' = LastSeen /\ Have' = Have
      /\ PipeInv /\ TypeOK /\ DataTypes /\ PhaseInv /\ FlowInv /\ answer = <<>> /\ sent # <<>>
      /\ Traffic' /\ sent' = Tail(sent)
  BY DEF Inv, PipeInv, Safe, Accept, clientVars, dbVars, historyVars, LastSeen, Have
<1>1. /\ c \in Command /\ Head(sent) = c /\ 1 \in DOMAIN sent
      /\ \A i \in DOMAIN sent : i = 1 \/ (i - 1 \in DOMAIN sent' /\ sent'[i - 1] = sent[i])
      /\ \A i \in DOMAIN sent' : i + 1 \in DOMAIN sent /\ sent'[i] = sent[i + 1]
  BY <1>0, TailFacts DEF TypeOK
<1>2. /\ answer' \in Seq(Response)
      /\ c.name = "idle" => Len(answer') = 1 /\ answer'[1].kind \in IdleReply
      /\ c.name # "idle" => \E t \in DOMAIN answer' : Answering(c, answer', t)
  <2>1. /\ top \in 0..MaxUid /\ (c.name \in {"list", "fetch"} => c.from > 0)
        /\ (c.name = "fetch" => c.from <= c.to) /\ answer' \in Answers(c)
    BY <1>0, <1>1 DEF DataTypes, TypeOK, Accept
  <2> HIDE DEF c
  <2> QED
    BY <1>1, <2>1, AnswerFacts
<1>3. \A i \in DOMAIN answer' :
        /\ answer'[i].kind = "uid" => c.name = "list"
        /\ answer'[i].kind = "body" => c.name = "fetch"
  <2>1. CASE c.name = "idle"
    <3>1. \A i \in DOMAIN answer' : i = 1
      BY <1>2, <2>1, SeqFacts
    <3> QED
      BY <1>2, <2>1, <3>1 DEF IdleReply
  <2>2. CASE c.name # "idle"
    <3>1. PICK t \in DOMAIN answer' : Answering(c, answer', t)
      BY <1>2, <2>2
    <3>2. /\ Reply(c.name) = "uid" => c.name = "list"
          /\ Reply(c.name) = "body" => c.name = "fetch"
      BY DEF Reply
    <3> HIDE DEF c
    <3>3. \A i \in DOMAIN answer' : answer'[i].kind = IF i = t THEN "tagged" ELSE Reply(c.name)
      BY <3>1 DEF Answering
    <3> QED
      BY <3>2, <3>3
  <2> QED
    BY <2>1, <2>2
<1>4. \A name : Asked(name) => Asked(name)' \/ c.name = name
  BY <1>1 DEF Asked, c
<1>5. \A name : Asked(name)' => Asked(name)
  BY <1>1 DEF Asked
<1>6. c.name \in {"list", "fetch", "search"} => Asked(c.name)
  BY <1>1 DEF Asked
<1> HIDE DEF c
<1>7. ASSUME NEW k \in {"uid", "body"}, NEW name, name = IF k = "uid" THEN "list" ELSE "fetch",
             Ordered(k), Asked(name) => got = {} /\ NoneUnderWay({k}),
             ~cut, pc = name
      PROVE  Ordered(k)' /\ (Asked(name)' => got' = {} /\ NoneUnderWay({k})')
  <2>1. CASE c.name = name
    <3>0. name \in {"list", "fetch"}
      BY <1>7
    <3>1. got = {} /\ NoneUnderWay({k})
      BY <1>6, <1>7, <2>1, <3>0
    <3>2. PICK t \in DOMAIN answer' : Answering(c, answer', t)
      BY <1>2, <2>1, <3>0
    <3>3. ~Asked(name)'
      <4>1. Owed' = 1
        BY <1>0, <1>7, <3>0 DEF StepInv, Down
      <4>2. \A i \in DOMAIN sent' : sent'[i].name = "idle"
        BY <1>0, <3>2, <4>1, LastAnswered DEF Answering
      <4> QED
        BY <3>0, <4>2 DEF Asked
    <3>4. Ordered(k)'
      <4>1. answer'[t].kind = "tagged"
            /\ ((\A i \in DOMAIN answer' : i # t => t > i) \/ (\A i \in DOMAIN answer' : i # t => i > t))
        <5>1. t \in Nat /\ \A i \in DOMAIN answer' : i \in Nat
          BY <1>2, SeqFacts
        <5> QED
          BY <3>2, <5>1 DEF Answering
      <4>2. k # "tagged" /\ \A i \in DOMAIN wire' : wire'[i].kind # k
        BY <1>0, <1>7, <3>1 DEF NoneUnderWay
      <4>3. CASE \A i \in DOMAIN answer' : i # t => t > i
        BY <4>1, <4>2, <4>3 DEF Ordered, DataFirst
      <4>4. CASE \A i \in DOMAIN answer' : i # t => i > t
        BY <1>0, <3>1, <4>1, <4>2, <4>4 DEF Ordered, DataLast
      <4> QED
        BY <4>1, <4>3, <4>4
    <3> QED
      BY <3>3, <3>4
  <2>2. CASE c.name # name
    <3>1. \A i \in DOMAIN answer' : answer'[i].kind # k
      BY <1>3, <1>7, <2>2
    <3>2. DataFirst(k) => DataFirst(k)'
      BY <1>0, <3>1 DEF DataFirst
    <3>3. DataLast(k) => DataLast(k)'
      BY <1>0, <3>1 DEF DataLast
    <3>4. NoneUnderWay({k}) => NoneUnderWay({k})'
      BY <1>0, <3>1 DEF NoneUnderWay
    <3> QED
      BY <1>0, <1>5, <1>7, <3>2, <3>3, <3>4 DEF Ordered
  <2> QED
    BY <2>1, <2>2
<1>8. ASSUME pc = "search", SearchComing PROVE SearchComing'
  <2>1. CASE c.name = "search"
    <3>1. PICK t \in DOMAIN answer' : Answering(c, answer', t)
      BY <1>2, <2>1
    <3>2. /\ answer'[t].kind = "tagged" /\ \A i \in DOMAIN answer' : i # t => i < t
          /\ \E i \in DOMAIN answer' : answer'[i] = Note("search")
      BY <2>1, <3>1 DEF Answering
    <3>3. PICK i \in DOMAIN answer' : answer'[i] = Note("search")
      BY <3>2
    <3>4. answer'[i].kind = "search" /\ i # t
      BY <3>2, <3>3, NoteFacts
    <3>5. t > i
      <4>1. t \in Nat /\ i \in Nat
        BY <1>2, SeqFacts
      <4> QED
        BY <3>2, <3>4, <4>1
    <3> QED
      BY <3>2, <3>4, <3>5 DEF SearchComing
  <2>2. CASE c.name # "search"
    <3>1. Asked("search") => Asked("search")'
      BY <1>4, <2>2
    <3>2. ~\E i \in DOMAIN answer : TRUE
      BY <1>0
    <3> QED
      BY <1>0, <1>8, <3>1, <3>2 DEF SearchComing
  <2> QED
    BY <2>1, <2>2
<1>9. OrderInv'
  BY <1>0, <1>7, <1>8 DEF OrderInv
<1>10. /\ Told => Told'
       /\ \A u : Listed(u) => Listed(u)'
       /\ \A u : Coming(u) => Coming(u)'
  <2>1. ~\E i \in DOMAIN answer : TRUE
    BY <1>0
  <2> QED
    BY <1>0, <2>1 DEF Told, Listed, Coming, InWire, InAnswer
<1>11. ASSUME c.name = "list", Listing, ~cut PROVE \A u \in 1..top : Listed(u)'
  <2>1. PICK t \in DOMAIN answer' : Answering(c, answer', t)
    BY <1>2, <1>11
  <2>2. c.from = LastSeen + 1 /\ LastSeen \in Nat /\ top \in Nat
    <3>1. c.from = LastSeen + 1
      BY <1>0, <1>1, <1>11 DEF FlowInv, ListFlow, c
    <3> QED
      BY <1>0, <3>1, LastSeenType, SessionAssumption DEF TypeOK
  <2> SUFFICES ASSUME NEW u \in 1..top, u \notin Have PROVE Listed(u)'
    BY <1>0 DEF Listed
  <2>3. u \in c.from..top
    BY <2>2 DEF Have
  <2>4. PICK i \in DOMAIN answer' : i # t /\ answer'[i].uid = u
    BY <1>11, <2>1, <2>3 DEF Answering
  <2>5. answer'[i].kind = "uid"
    BY <1>11, <2>1, <2>4 DEF Answering, Reply
  <2> QED
    BY <2>4, <2>5 DEF Listed, InAnswer
<1>12. ASSUME NEW u, Requested(u), u \in Nat PROVE Requested(u)' \/ Coming(u)'
  <2>1. CASE u \in todo
    BY <1>0, <2>1 DEF Requested
  <2>2. ASSUME NEW i \in DOMAIN sent, sent[i].name = "fetch", sent[i].from <= u, u <= sent[i].to
        PROVE  Requested(u)' \/ Coming(u)'
    <3>1. CASE i # 1
      BY <1>1, <2>2, <3>1 DEF Requested
    <3>2. CASE i = 1
      <4>1. c.name = "fetch" /\ c.from <= u /\ u <= c.to
        BY <2>2, <3>2 DEF c
      <4>2. u \in c.from..c.to
        <5>1. c.from \in Nat /\ c.to \in Nat
          BY <1>1, SessionAssumption DEF Command
        <5> QED
          BY <1>12, <4>1, <5>1
      <4>3. PICK t \in DOMAIN answer' : Answering(c, answer', t)
        BY <1>2, <4>1
      <4>4. PICK j \in DOMAIN answer' : j # t /\ answer'[j].uid = u
        BY <4>1, <4>2, <4>3 DEF Answering
      <4>5. answer'[j].kind = "body"
        BY <4>1, <4>3, <4>4 DEF Answering, Reply
      <4> QED
        BY <4>4, <4>5 DEF Coming, InAnswer
    <3> QED
      BY <3>1, <3>2
  <2> QED
    BY <1>12, <2>1, <2>2 DEF Requested
<1>13. NoticeInv'
  <2> SUFFICES ASSUME ~cut, ~passed PROVE NoticeInv'
    BY <1>0 DEF NoticeInv
  <2>1. Listing => (Told \/ Asked("list") \/ \A u \in 1..top : Listed(u))'
    <3> SUFFICES ASSUME Listing PROVE Told' \/ Asked("list")' \/ \A u \in 1..top : Listed(u)'
      BY <1>0
    <3>1. Told \/ Asked("list") \/ \A u \in 1..top : Listed(u)
      BY DEF NoticeInv
    <3> QED
      BY <1>4, <1>10, <1>11, <3>1
  <2>2. Fetching => Told' \/ \A u \in 1..top : Requested(u)' \/ Coming(u)'
    <3> SUFFICES ASSUME Fetching, NEW u \in 1..top, ~Told' PROVE Requested(u)' \/ Coming(u)'
      OBVIOUS
    <3>1. Requested(u) \/ Coming(u)
      BY <1>10 DEF NoticeInv
    <3>2. u \in Nat
      BY <1>0, SessionAssumption DEF TypeOK
    <3> QED
      BY <1>10, <1>12, <3>1, <3>2
  <2>3. pc = "search" => Told' \/ \A u \in 1..top : u \in 0..LastSeen \cup limited \/ u \in todo
    BY <1>10 DEF NoticeInv
  <2>4. pc \in {"setup", "idle"} => Told' \/ noticed \/ 1..top \subseteq ingested \cup limited
    BY <1>10 DEF NoticeInv
  <2> QED
    BY <1>0, <2>1, <2>2, <2>3, <2>4 DEF NoticeInv, Listing, Fetching
<1> QED
  BY <1>9, <1>13

LEMMA NoticeByServer ==
  ASSUME Inv, Safe', StepInv, StepInv', OrderInv, NoticeInv, Deliver \/ Tell \/ Keepalive \/ Server
  PROVE  OrderInv' /\ NoticeInv'
<1>0. /\ UNCHANGED <<pc, draining, polling, validity, got, todo, noticed, state, ingested, limited>>
      /\ UNCHANGED <<cut, passed>> /\ LastSeen' = LastSeen /\ Have' = Have
      /\ PipeInv /\ TypeOK /\ FlowInv /\ Traffic
  BY DEF Inv, PipeInv, TypeOK, Traffic, Deliver, Tell, Keepalive, Server, Accept, Emit, clientVars,
         dbVars, historyVars, LastSeen, Have
<1>1. CASE Deliver
  <2>1. untold' = TRUE /\ UNCHANGED <<answer, sent, wire>>
    BY <1>1 DEF Deliver
  <2>2. OrderInv'
    BY <1>0, <2>1 DEF OrderInv, Ordered, DataFirst, DataLast, SearchComing, NoneUnderWay, Asked
  <2>3. Told'
    BY <2>1 DEF Told
  <2> QED
    BY <2>2, <2>3 DEF NoticeInv
<1>2. ASSUME NEW r \in Response, wire' = Append(wire, r), sent' = sent, top' = top,
             \/ r.kind \in {"exists", "untagged"} /\ answer' = answer
             \/ answer # <<>> /\ r = answer[1] /\ answer' = Tail(answer),
             untold' = untold \/ r.kind = "exists"
      PROVE  OrderInv' /\ NoticeInv'
  <2>1. /\ \A i \in DOMAIN wire : i \in DOMAIN wire' /\ wire'[i] = wire[i]
        /\ Len(wire) + 1 \in DOMAIN wire' /\ wire'[Len(wire) + 1] = r
        /\ \A i \in DOMAIN wire' : i \in DOMAIN wire \/ i = Len(wire) + 1
    BY <1>0, <1>2, AppendFacts DEF Traffic
  <2>2. ASSUME NEW k \in {"uid", "body"}, Ordered(k) PROVE Ordered(k)'
    <3>1. \/ r.kind \notin {k, "tagged"} /\ answer' = answer
          \/ answer # <<>> /\ r = answer[1] /\ answer' = Tail(answer)
      BY <1>2
    <3>2. k # "tagged" /\ got' = got
      BY <1>0
    <3> QED
      BY <1>0, <1>2, <2>2, <3>1, <3>2, OrderSent
  <2>3. ASSUME NEW k \in {"uid", "body"}, NoneUnderWay({k}) PROVE NoneUnderWay({k})'
    <3>1. CASE r.kind \in {"exists", "untagged"} /\ answer' = answer
      BY <2>1, <2>3, <3>1 DEF NoneUnderWay
    <3>2. CASE answer # <<>> /\ r = answer[1] /\ answer' = Tail(answer)
      <4>1. 1 \in DOMAIN answer
            /\ \A i \in DOMAIN answer' : i + 1 \in DOMAIN answer /\ answer'[i] = answer[i + 1]
        BY <1>0, <3>2, TailFacts DEF Traffic
      <4> QED
        BY <2>1, <2>3, <3>2, <4>1 DEF NoneUnderWay
    <3> QED
      BY <1>2, <3>1, <3>2
  <2>4. SearchComing => SearchComing'
    BY <1>0, <1>2, SearchSent
  <2>5. OrderInv'
    BY <1>0, <1>2, <2>2, <2>3, <2>4 DEF OrderInv, Asked
  <2>6. Told => Told'
    BY <1>2, <2>1 DEF Told
  <2>7. ASSUME NEW k \in {"uid", "body"}, Flow(k)
        PROVE  \A u : u \in Have \/ InWire(k, u) \/ InAnswer(k, u) =>
                        u \in Have' \/ InWire(k, u)' \/ InAnswer(k, u)'
    <3>1. \/ r.kind # k /\ answer' = answer
          \/ answer # <<>> /\ r = answer[1] /\ answer' = Tail(answer)
      BY <1>2
    <3>2. UNCHANGED <<got, Have>>
      BY <1>0
    <3> QED
      BY <1>0, <1>2, <2>7, <3>1, <3>2, FlowSent
  <2>8. Listing => \A u : Listed(u) => Listed(u)'
    BY <1>0, <2>7 DEF FlowInv, ListFlow, Listed
  <2>9. Fetching => \A u : Coming(u) => Coming(u)'
    BY <1>0, <2>7 DEF FlowInv, FetchFlow, Coming
  <2>10. /\ Asked("list") => Asked("list")'
         /\ \A u : Requested(u) => Requested(u)'
    BY <1>0, <1>2 DEF Asked, Requested
  <2>11. NoticeInv'
    <3> SUFFICES ASSUME ~cut, ~passed PROVE NoticeInv'
      BY <1>0 DEF NoticeInv
    <3>1. Listing => Told' \/ Asked("list")' \/ \A u \in 1..top : Listed(u)'
      BY <2>6, <2>8, <2>10 DEF NoticeInv
    <3>2. Fetching => Told' \/ \A u \in 1..top : Requested(u)' \/ Coming(u)'
      BY <2>6, <2>9, <2>10 DEF NoticeInv
    <3>3. pc = "search" => Told' \/ \A u \in 1..top : u \in 0..LastSeen \cup limited \/ u \in todo
      BY <2>6 DEF NoticeInv
    <3>4. pc \in {"setup", "idle"} => Told' \/ noticed \/ 1..top \subseteq ingested \cup limited
      BY <2>6 DEF NoticeInv
    <3> QED
      BY <1>0, <1>2, <3>1, <3>2, <3>3, <3>4 DEF NoticeInv, Listing, Fetching
  <2> QED
    BY <2>5, <2>11
<1>3. CASE Tell
  <2>1. /\ wire' = Append(wire, Note("exists")) /\ answer' = answer /\ sent' = sent /\ top' = top
        /\ Note("exists") \in Response /\ Note("exists").kind = "exists"
    BY <1>3, NoteFacts DEF Tell, Sends
  <2> QED
    BY <1>2, <2>1
<1>4. CASE Keepalive
  <2>1. /\ wire' = Append(wire, Note("untagged")) /\ answer' = answer /\ sent' = sent /\ top' = top
        /\ Note("untagged") \in Response /\ Note("untagged").kind = "untagged" /\ untold' = untold
    BY <1>4, NoteFacts DEF Keepalive, Sends, serverVars
  <2> QED
    BY <1>2, <2>1
<1>5. CASE Emit
  <2>1. /\ answer # <<>> /\ answer' = Tail(answer) /\ wire' = Append(wire, answer[1])
        /\ answer[1] \in Response /\ sent' = sent /\ top' = top /\ untold' = untold
    BY <1>0, <1>5, TailFacts DEF Emit, Sends, Traffic
  <2> QED
    BY <1>2, <2>1
<1>6. CASE Accept
  BY <1>6, NoticeInAccept
<1> QED
  BY <1>1, <1>3, <1>4, <1>5, <1>6 DEF Server

LEMMA NoticeAfterEndSync ==
  ASSUME EndSync, passed' \/ Told' \/ 1..top' \subseteq ingested' \cup limited'
  PROVE  OrderInv' /\ NoticeInv'
<1>1. pc' \in {"off", "setup"}
  BY DEF EndSync, Closed, Goto
<1> QED
  BY <1>1 DEF OrderInv, NoticeInv, Listing, Fetching

LEMMA NoticeAfterStartFetch ==
  ASSUME PipeInv, NEW S, S \subseteq Uids, S # {}, StartFetch(S), top' = top,
         NoneUnderWay({"body"})',
         passed' \/ Told' \/ \A u \in 1..top : u \in S \/ Coming(u)'
  PROVE  OrderInv' /\ NoticeInv'
<1> DEFINE c == [name |-> "fetch", from |-> Min(Chunk(S)), to |-> Max(Chunk(S))]
<1>0. /\ pc' = "fetch" /\ draining' = "none" /\ sent' = Append(sent, c)
      /\ got' = {} /\ todo' = S \ Chunk(S) /\ sent \in Seq(Command)
  BY DEF PipeInv, TypeOK, StartFetch, Goto, Send, Chunk
<1>1. /\ c.from \in Chunk(S) /\ c.to \in Chunk(S) /\ \A u \in S : c.from <= u
      /\ \A u \in Chunk(S) : u <= c.to /\ c.name = "fetch" /\ Chunk(S) \subseteq S
  BY ChunkFacts
<1>2. c \in Command
  <2>1. c.from \in Uids /\ c.to \in Uids
    BY <1>1
  <2>2. c.from \in 0..(MaxUid + 1) /\ c.to \in 0..MaxUid
    BY <2>1, SessionAssumption DEF Uids
  <2> QED
    BY <2>2 DEF Command
<1> HIDE DEF c
<1>3. Len(sent) + 1 \in DOMAIN sent' /\ sent'[Len(sent) + 1] = c
  BY <1>0, <1>2, AppendFacts
<1>4. \A u \in S : Requested(u)'
  BY <1>0, <1>1, <1>3 DEF Requested
<1>5. OrderInv'
  BY <1>0 DEF OrderInv, Ordered, DataFirst, NoneUnderWay
<1>6. NoticeInv'
  BY <1>0, <1>4 DEF NoticeInv, Listing, Fetching
<1> QED
  BY <1>5, <1>6

\* What the limits leave of the UIDs listed is fetched.
LEMMA NoticeAfterFetchRecent ==
  ASSUME PipeInv, NoneSkipped, NEW S, S \subseteq Uids, NEW left, FetchRecent(S, left), top' = top,
         UNCHANGED <<state, ingested>>, NoneUnderWay({"body"})',
         passed' \/ Told' \/ \A u \in 1..top : u \in 0..LastSeen \cup limited \/ u \in S \/ u \in left
  PROVE  OrderInv' /\ NoticeInv'
<1>0. TypeOK /\ LastSeen \in Nat /\ top \in Nat
  BY LastSeenType, SessionAssumption DEF PipeInv, TypeOK
<1>1. Recent(S) \subseteq S /\ limited' = limited \cup left \cup (S \ Recent(S))
  BY DEF Recent, FetchRecent
<1>2. passed' \/ Told' \/ \A u \in 1..top : u \in 0..LastSeen \/ u \in limited' \/ u \in Recent(S)
  BY <1>1
<1>3. CASE Recent(S) = {}
  <2>1. EndSync
    BY <1>3 DEF FetchRecent
  <2>2. passed' \/ Told' \/ 1..top \subseteq ingested' \cup limited'
    <3> SUFFICES ASSUME NEW u \in 1..top, u \in 0..LastSeen, u \notin limited'
                 PROVE  u \in ingested'
      BY <1>2, <1>3
    <3>1. u \in 1..LastSeen
      BY <1>0
    <3> QED
      BY <1>0, <1>1, <3>1, CheckpointStored
  <2> QED
    BY <2>1, <2>2, NoticeAfterEndSync
<1>4. CASE Recent(S) # {}
  <2>1. StartFetch(Recent(S)) /\ validity' = validity
    BY <1>4 DEF FetchRecent
  <2>2. LastSeen' = LastSeen
    BY <2>1 DEF LastSeen
  <2>3. passed' \/ Told' \/ \A u \in 1..top : u \in Recent(S) \/ Coming(u)'
    BY <1>2, <2>2 DEF Coming, Have
  <2>4. Recent(S) \subseteq Uids
    BY <1>1
  <2> QED
    BY <1>4, <2>1, <2>3, <2>4, NoticeAfterStartFetch
<1> QED
  BY <1>3, <1>4

\* All that a list or a fetch was answered is received.
LEMMA NoticeAfterEnds ==
  ASSUME Inv, Safe', NoticeInv, Moves, untold' = untold, ~cut,
         NEW cmd \in {"list", "fetch"}, Ends(cmd, got),
         cmd = "list" => Listing, cmd = "fetch" => Fetching,
         wire' = wire \/ wire[1].kind \notin {"uid", "body", "exists"},
         NEW k, k = IF cmd = "list" THEN "uid" ELSE "body", NoneUnderWay({k})',
         \A i \in DOMAIN sent : sent[i].name = "idle"
  PROVE  OrderInv' /\ NoticeInv'
<1>0. /\ PipeInv /\ TypeOK /\ PhaseInv /\ FlowInv /\ NoneSkipped /\ top' = top /\ answer' = answer
      /\ LastSeen \in Nat /\ got \subseteq Uids /\ top \in Nat
  BY LastSeenType, SessionAssumption DEF Inv, PipeInv, TypeOK, Moves
<1>1. \A name : name # "idle" => ~Asked(name)
  BY DEF Asked
<1>2. wire' = wire \/ (wire # <<>> /\ wire' = Tail(wire) /\ wire[1].kind \notin {"uid", "body", "exists"})
  BY DEF Moves
<1>3. /\ \A i \in DOMAIN wire' : \E j \in DOMAIN wire : wire[j] = wire'[i]
      /\ \A i \in DOMAIN wire : wire[i].kind \in {"uid", "body", "exists"} =>
           \E j \in DOMAIN wire' : wire'[j] = wire[i]
  <2>1. CASE wire' = wire
    BY <2>1
  <2>2. CASE wire # <<>> /\ wire' = Tail(wire) /\ wire[1].kind \notin {"uid", "body", "exists"}
    <3>1. /\ \A i \in DOMAIN wire' : i + 1 \in DOMAIN wire /\ wire'[i] = wire[i + 1]
          /\ \A i \in DOMAIN wire : i = 1 \/ (i - 1 \in DOMAIN wire' /\ wire'[i - 1] = wire[i])
      BY <1>0, <2>2, TailFacts DEF TypeOK
    <3> QED
      BY <2>2, <3>1
  <2> QED
    BY <1>2, <2>1, <2>2
<1>4. passed' = passed /\ (Told => Told')
  BY <1>3 DEF Told, Ends, ListEnds, FetchEnds
<1>5. \A u : ~InWire(k, u) /\ ~InAnswer(k, u)
  <2>1. k \in {"uid", "body"}
    OBVIOUS
  <2> QED
    BY <1>0, <1>3, <2>1 DEF NoneUnderWay, InWire, InAnswer
<1>6. CASE cmd = "list"
  <2> DEFINE new == {u \in got : u > LastSeen}
  <2>1. Listing /\ ListEnds(got) /\ k = "uid"
    BY <1>6 DEF Ends
  <2>2. passed \/ Told \/ \A u \in 1..top : u \in 0..LastSeen \cup limited \/ u \in new
    <3> SUFFICES ASSUME ~passed, ~Told, NEW u \in 1..top
                 PROVE  u \in 0..LastSeen \cup limited \/ u \in new
      OBVIOUS
    <3>1. u \in Have
      BY <1>1, <1>5, <2>1 DEF NoticeInv, Listed
    <3>2. u \in got /\ u \notin 0..LastSeen => u > LastSeen
      <4>1. u \in Nat
        BY <1>0
      <4> QED
        BY <1>0, <4>1
    <3> QED
      BY <3>1, <3>2 DEF Have
  <2>3. NoneUnderWay({"body"})'
    <3>1. NoneUnderWay({"body"})
      BY <1>0, <2>1 DEF PhaseInv
    <3> QED
      BY <1>0, <3>1, MovesFacts
  <2>4. CASE new = {} /\ EndSync /\ UNCHANGED limited
    <3>1. EndSync /\ ingested' = ingested /\ limited' = limited
      BY <2>1, <2>4 DEF ListEnds
    <3>2. passed \/ Told \/ 1..top \subseteq ingested \cup limited
      <4> SUFFICES ASSUME ~passed, ~Told, NEW u \in 1..top, u \notin limited PROVE u \in ingested
        OBVIOUS
      <4>1. u \in 0..LastSeen /\ u >= 1
        BY <1>0, <2>2, <2>4
      <4>2. u \in 1..LastSeen
        BY <1>0, <4>1
      <4> QED
        BY <1>0, <4>2, CheckpointStored
    <3> QED
      BY <1>0, <1>4, <3>1, <3>2, NoticeAfterEndSync
  <2>5. CASE /\ Goto("search") /\ Send(Plain("search")) /\ todo' = new
             /\ UNCHANGED <<validity, state, limited>>
    <3>1. /\ pc' = "search" /\ draining' = "none" /\ sent' = Append(sent, Plain("search"))
          /\ todo' = new /\ LastSeen' = LastSeen /\ limited' = limited
      BY <2>5 DEF Goto, Send, LastSeen
    <3>2. Asked("search")'
      <4>1. Plain("search") \in Command /\ Plain("search").name = "search"
        BY PlainFacts
      <4>2. Len(sent) + 1 \in DOMAIN sent' /\ sent'[Len(sent) + 1] = Plain("search")
        BY <1>0, <3>1, <4>1, AppendFacts DEF TypeOK
      <4> QED
        BY <4>1, <4>2 DEF Asked
    <3>3. OrderInv'
      BY <3>1, <3>2 DEF OrderInv, SearchComing
    <3>4. NoticeInv'
      BY <1>0, <1>4, <2>2, <3>1 DEF NoticeInv, Listing, Fetching
    <3> QED
      BY <3>3, <3>4
  <2>6. CASE new # {} /\ StartFetch(new) /\ UNCHANGED <<validity, state, limited>>
    <3>1. StartFetch(new) /\ LastSeen' = LastSeen /\ new \subseteq Uids
      BY <1>0, <2>6 DEF LastSeen
    <3>2. passed' \/ Told' \/ \A u \in 1..top : u \in new \/ Coming(u)'
      BY <1>4, <2>2, <2>6, <3>1 DEF Coming, Have
    <3> HIDE DEF new
    <3> QED
      BY <1>0, <2>3, <2>6, <3>1, <3>2, NoticeAfterStartFetch
  <2>7. CASE FetchRecent(new, {}) /\ UNCHANGED <<state, ingested>>
    <3>1. new \subseteq Uids
      BY <1>0
    <3>2. passed' \/ Told' \/ \A u \in 1..top : u \in 0..LastSeen \cup limited \/ u \in new \/ u \in {}
      BY <1>4, <2>2
    <3> HIDE DEF new
    <3> QED
      BY <1>0, <2>3, <2>7, <3>1, <3>2, NoticeAfterFetchRecent
  <2> QED
    BY <2>1, <2>4, <2>5, <2>6, <2>7 DEF ListEnds
<1>7. CASE cmd = "fetch"
  <2>1. Fetching /\ FetchEnds(got) /\ k = "body"
    BY <1>7 DEF Ends
  <2>2. passed \/ Told \/ \A u \in 1..top : u \in todo \/ u \in Have
    <3> SUFFICES ASSUME ~passed, ~Told, NEW u \in 1..top PROVE u \in todo \/ u \in Have
      OBVIOUS
    <3>1. \A i \in DOMAIN sent : sent[i].name # "fetch"
      OBVIOUS
    <3> QED
      BY <1>5, <2>1, <3>1 DEF NoticeInv, Requested, Coming
  <2>3. CASE todo = {}
    <3>1. EndSync /\ ingested' = ingested \cup got /\ limited' = limited
      BY <2>1, <2>3 DEF FetchEnds
    <3>2. passed \/ Told \/ 1..top \subseteq ingested' \cup limited'
      <4> SUFFICES ASSUME ~passed, ~Told, NEW u \in 1..top, u \notin limited PROVE u \in ingested'
        BY <3>1
      <4>1. u \in 0..LastSeen \/ u \in got
        BY <2>2, <2>3 DEF Have
      <4>2. u \in 0..LastSeen => u \in 1..LastSeen
        BY <1>0
      <4> QED
        BY <1>0, <3>1, <4>1, <4>2, CheckpointStored
    <3> QED
      BY <1>0, <1>4, <3>1, <3>2, NoticeAfterEndSync
  <2>4. CASE todo # {}
    <3>1. StartFetch(todo) /\ validity' = validity /\ state' = [validity |-> validity, last |-> Reached(got)]
      BY <2>1, <2>4 DEF FetchEnds
    <3>2. LastSeen' = Reached(got) /\ limited' = limited
      BY <2>1, <3>1 DEF LastSeen, FetchEnds
    <3>3. \A u \in Have : u \in Have'
      <4>1. got \cup {LastSeen} \subseteq 0..MaxUid /\ got \cup {LastSeen} # {}
        BY <1>0, LastSeenType DEF Uids
      <4>2. /\ Reached(got) \in got \cup {LastSeen}
            /\ \A u \in got \cup {LastSeen} : u <= Reached(got)
        BY <4>1, GreatestUid DEF Reached
      <4>3. Reached(got) \in Nat /\ \A u \in got : u \in Nat
        BY <4>1, <4>2, SessionAssumption
      <4>4. \A u \in got : u \in 0..Reached(got)
        BY <4>2, <4>3
      <4>5. \A u \in 0..LastSeen : u \in 0..Reached(got)
        BY <1>0, <4>2, <4>3
      <4> QED
        BY <3>2, <4>4, <4>5 DEF Have
    <3>4. passed' \/ Told' \/ \A u \in 1..top : u \in todo \/ Coming(u)'
      BY <1>4, <2>2, <3>3 DEF Coming
    <3>5. NoneUnderWay({"body"})' /\ todo \subseteq Uids
      BY <1>0, <2>1 DEF TypeOK
    <3> QED
      BY <1>0, <2>4, <3>1, <3>4, <3>5, NoticeAfterStartFetch
  <2> QED
    BY <2>3, <2>4
<1> QED
  BY <1>6, <1>7

\* A list is asked for.
LEMMA NoticeAfterStartList ==
  ASSUME PipeInv, StartList, NoneUnderWay({"uid"})'
  PROVE  OrderInv' /\ NoticeInv'
<1> DEFINE c == [name |-> "list", from |-> LastSeen + 1, to |-> 0]
<1>1. pc' = "list" /\ got' = {} /\ draining' = "none" /\ sent' = Append(sent, c)
  BY DEF StartList, Goto, Send
<1>2. c \in Command /\ c.name = "list" /\ sent \in Seq(Command)
  BY LastSeenType DEF PipeInv, TypeOK, Command
<1> HIDE DEF c
<1>3. Asked("list")'
  <2>1. Len(sent) + 1 \in DOMAIN sent' /\ sent'[Len(sent) + 1] = c
    BY <1>1, <1>2, AppendFacts
  <2> QED
    BY <1>2, <2>1 DEF Asked
<1>4. OrderInv'
  BY <1>1 DEF OrderInv, Ordered, DataFirst, NoneUnderWay
<1>5. NoticeInv'
  BY <1>1, <1>3 DEF NoticeInv, Fetching
<1> QED
  BY <1>4, <1>5

\* After its only completion, a command that returned data has no more of it to come.
LEMMA DataRead ==
  ASSUME Traffic, NEW k, Ordered(k), got # {}, wire # <<>>, wire' = Tail(wire), answer' = answer,
         \A i \in DOMAIN wire' : wire'[i].kind # "tagged",
         \A i \in DOMAIN answer : answer[i].kind # "tagged"
  PROVE  NoneUnderWay({k})'
<1>1. /\ \A i \in DOMAIN wire' : i \in Nat /\ i > 0 /\ i + 1 \in DOMAIN wire /\ wire'[i] = wire[i + 1]
      /\ \A i \in DOMAIN wire :
           i \in Nat /\ (i = 1 \/ (i - 1 \in DOMAIN wire' /\ wire'[i - 1] = wire[i]))
  BY TailFacts, SeqFacts DEF Traffic
<1>2. DataFirst(k)
  BY DEF Ordered, DataLast
<1>3. ASSUME NEW i \in DOMAIN wire', wire'[i].kind = k PROVE FALSE
  <2>1. PICK j \in DOMAIN wire : j > i + 1 /\ wire[j].kind = "tagged"
    BY <1>1, <1>2, <1>3 DEF DataFirst
  <2>2. j # 1
    BY <1>1, <2>1
  <2> QED
    BY <1>1, <2>1, <2>2
<1>4. \A i \in DOMAIN answer : answer[i].kind # k
  BY <1>2 DEF DataFirst
<1> QED
  BY <1>3, <1>4 DEF NoneUnderWay

LEMMA OwedRead ==
  ASSUME Traffic, Traffic', wire # <<>>, wire' = Tail(wire)
  PROVE  Owed \in Nat /\ (Owed = 0 => wire[1].kind # "tagged")
<1> DEFINE w == Completions(wire)
           v == Completions(wire')
<1>1. w = v + IF wire[1].kind = "tagged" THEN 1 ELSE 0
  BY CompletionsTail DEF Traffic
<1>2. w \in Nat /\ v \in Nat /\ Owed \in Nat /\ (Owed = 0 => w = 0)
  <2>1. Owed = w + Completions(answer) + Count(sent, Completed)
    BY OwedSum
  <2>2. w \in Nat /\ Completions(answer) \in Nat /\ Count(sent, Completed) \in Nat /\ v \in Nat
    BY OwedSum, OwedSumNext
  <2> HIDE DEF w, v
  <2> QED
    BY <2>1, <2>2
<1> HIDE DEF w, v
<1> QED
  BY <1>1, <1>2

\* The command goes on, or waits for what may be late.
LEMMA NoticeAfterTaken ==
  ASSUME Inv, OrderInv, NoticeInv, wire # <<>>, wire' = Tail(wire), UNCHANGED <<top, untold, answer>>,
         UNCHANGED <<validity, todo, sent, state, ingested, limited>>,
         cut' = cut, passed' = (passed \/ wire[1].kind = "exists"),
         Listing' <=> Listing, Fetching' <=> Fetching, Listing \/ Fetching,
         pc' \in {"list", "fetch", "late"},
         pc' # "late" => pc' = pc /\ wire[1].kind # "tagged",
         \/ /\ got' = got
            /\ Listing => wire[1].kind # "uid"
            /\ Fetching => wire[1].kind # "body"
         \/ /\ \/ Listing /\ wire[1].kind = "uid"
               \/ Fetching /\ wire[1].kind = "body"
            /\ got' = got \cup {wire[1].uid}
  PROVE  OrderInv' /\ NoticeInv'
<1>0. /\ PipeInv /\ TypeOK /\ Traffic /\ FlowInv /\ PhaseInv /\ LastSeen' = LastSeen
      /\ ~(Listing /\ Fetching)
  BY DEF Inv, PipeInv, TypeOK, Traffic, LastSeen, Listing, Fetching
<1>1. /\ 1 \in DOMAIN wire
      /\ \A i \in DOMAIN wire' : i + 1 \in DOMAIN wire /\ wire'[i] = wire[i + 1]
      /\ \A i \in DOMAIN wire : i = 1 \/ (i - 1 \in DOMAIN wire' /\ wire'[i - 1] = wire[i])
  BY <1>0, TailFacts DEF Traffic
<1>2. ASSUME NEW k \in {"uid", "body"}, NEW name, Ordered(k), Asked(name) => got = {} /\ NoneUnderWay({k}),
             wire[1].kind # "tagged", k = "uid" => Listing, k = "body" => Fetching
      PROVE  Ordered(k)' /\ (Asked(name)' => got' = {} /\ NoneUnderWay({k})')
  <2>1. wire[1].kind # k => got' = got
    BY <1>0, <1>2
  <2>2. Ordered(k)'
    BY <1>0, <1>2, <2>1, OrderRead
  <2>3. NoneUnderWay({k}) => wire[1].kind # k /\ NoneUnderWay({k})'
    BY <1>1 DEF NoneUnderWay
  <2>4. Asked(name)' <=> Asked(name)
    BY DEF Asked
  <2> QED
    BY <1>2, <2>1, <2>2, <2>3, <2>4
<1>3. OrderInv'
  <2> SUFFICES ASSUME ~cut, pc' # "late" PROVE OrderInv'
    BY DEF OrderInv
  <2>1. (pc = "list" => Listing) /\ (pc = "fetch" => Fetching) /\ pc' = pc
    BY DEF Listing, Fetching
  <2>2. CASE pc = "list"
    <3>1. Ordered("uid") /\ (Asked("list") => got = {} /\ NoneUnderWay({"uid"}))
      BY <2>2 DEF OrderInv
    <3>2. Ordered("uid")' /\ (Asked("list")' => got' = {} /\ NoneUnderWay({"uid"})')
      BY <1>2, <2>1, <2>2, <3>1
    <3> QED
      BY <2>1, <2>2, <3>2 DEF OrderInv
  <2>3. CASE pc = "fetch"
    <3>1. Ordered("body") /\ (Asked("fetch") => got = {} /\ NoneUnderWay({"body"}))
      BY <2>3 DEF OrderInv
    <3>2. Ordered("body")' /\ (Asked("fetch")' => got' = {} /\ NoneUnderWay({"body"})')
      BY <1>2, <2>1, <2>3, <3>1
    <3> QED
      BY <2>1, <2>3, <3>2 DEF OrderInv
  <2> QED
    BY <2>1, <2>2, <2>3
<1>4. wire[1].kind # "exists" /\ Told => Told'
  BY <1>1 DEF Told
<1>5. Listing => \A u : Listed(u) => Listed(u)'
  <2> SUFFICES ASSUME Listing PROVE \A u : Listed(u) => Listed(u)'
    OBVIOUS
  <2>1. Flow("uid")
    BY <1>0 DEF FlowInv, ListFlow
  <2>2. \/ got' = got /\ wire[1].kind # "uid"
        \/ wire[1].kind = "uid" /\ got' = got \cup {wire[1].uid}
    BY <1>0
  <2> QED
    BY <1>0, <2>1, <2>2, FlowTaken DEF Listed
<1>6. Fetching => \A u : Coming(u) => Coming(u)'
  <2> SUFFICES ASSUME Fetching PROVE \A u : Coming(u) => Coming(u)'
    OBVIOUS
  <2>1. Flow("body")
    BY <1>0 DEF FlowInv, FetchFlow
  <2>2. \/ got' = got /\ wire[1].kind # "body"
        \/ wire[1].kind = "body" /\ got' = got \cup {wire[1].uid}
    BY <1>0
  <2> QED
    BY <1>0, <2>1, <2>2, FlowTaken DEF Coming
<1>7. (Asked("list") => Asked("list")') /\ \A u : Requested(u) => Requested(u)'
  BY DEF Asked, Requested
<1>8. NoticeInv'
  <2> SUFFICES ASSUME ~cut, ~passed, wire[1].kind # "exists" PROVE NoticeInv'
    BY DEF NoticeInv
  <2>1. Listing => Told' \/ Asked("list")' \/ \A u \in 1..top : Listed(u)'
    BY <1>4, <1>5, <1>7 DEF NoticeInv
  <2>2. Fetching => Told' \/ \A u \in 1..top : Requested(u)' \/ Coming(u)'
    BY <1>4, <1>6, <1>7 DEF NoticeInv
  <2> QED
    BY <2>1, <2>2 DEF NoticeInv
<1> QED
  BY <1>3, <1>8

\* A list or a fetch is over, with nothing left to come.
LEMMA NoticeAfterCommand ==
  ASSUME Inv, Safe', NoticeInv, Moves, untold' = untold, ~cut,
         NEW cmd \in {"list", "fetch"}, Ends(cmd, got),
         cmd = "list" => Listing, cmd = "fetch" => Fetching,
         NEW b, Owed = b,
         \/ wire' = wire /\ b = 0
         \/ /\ wire # <<>> /\ wire' = Tail(wire) /\ b = IF wire[1].kind = "tagged" THEN 1 ELSE 0
            /\ wire[1].kind \notin {"uid", "body", "exists"},
         cmd = "list" => NoneUnderWay({"uid"})', cmd = "fetch" => NoneUnderWay({"body"})'
  PROVE  OrderInv' /\ NoticeInv'
<1>0. Traffic /\ Traffic' /\ answer' = answer
  BY DEF Inv, PipeInv, TypeOK, Traffic, Safe, Moves
<1>1. \A i \in DOMAIN sent : sent[i].name = "idle"
  BY <1>0, NoneOwed
<1> DEFINE k == IF cmd = "list" THEN "uid" ELSE "body"
<1>2. NoneUnderWay({k})'
  <2>1. CASE cmd = "list"
    BY <2>1
  <2>2. CASE cmd = "fetch"
    BY <2>2
  <2> QED
    BY <2>1, <2>2
<1>3. wire' = wire \/ wire[1].kind \notin {"uid", "body", "exists"}
  OBVIOUS
<1> QED
  BY <1>1, <1>2, <1>3, NoticeAfterEnds

LEMMA NoticeInRead ==
  ASSUME Inv, Safe', StepInv, OrderInv, NoticeInv, Read
  PROVE  OrderInv' /\ NoticeInv'
<1> DEFINE r == wire[1]
           b == IF wire[1].kind = "tagged" THEN 1 ELSE 0
<1>0. /\ PipeInv /\ TypeOK /\ PhaseInv /\ FlowInv /\ Traffic /\ Traffic'
      /\ UNCHANGED <<top, untold, answer>> /\ Moves
      /\ wire # <<>> /\ wire' = Tail(wire) /\ Head(wire) = r /\ 1 \in DOMAIN wire /\ r \in Response
  <2>1. /\ PipeInv /\ TypeOK /\ PhaseInv /\ FlowInv /\ Traffic /\ Traffic'
        /\ UNCHANGED <<top, untold, answer>> /\ wire # <<>> /\ wire' = Tail(wire)
    BY DEF Inv, PipeInv, Safe, Read, serverVars, TypeOK, Traffic
  <2>2. Moves
    BY <2>1 DEF Moves
  <2> QED
    BY <2>1, <2>2, TailFacts DEF TypeOK
<1>1. \/ ReadLogin(r) \/ ReadSelect(r) \/ ReadFetch(r) \/ ReadLate(r) \/ ReadSearch(r)
      \/ ReadSetup(r) \/ ReadIdle(r) \/ ReadDrain(r)
  BY <1>0 DEF Read
<1>2. (r.kind = "tagged" => b = 1) /\ (r.kind # "tagged" => b = 0)
      /\ b = IF wire[1].kind = "tagged" THEN 1 ELSE 0
  OBVIOUS
<1>3. r.kind # "exists" /\ Told => Told'
  <2>1. \A i \in DOMAIN wire : i = 1 \/ (i - 1 \in DOMAIN wire' /\ wire'[i - 1] = wire[i])
    BY <1>0, TailFacts DEF TypeOK
  <2> QED
    BY <1>0, <2>1 DEF Told
<1>4. pc \in {"select", "idle", "drain"} /\ StartList => OrderInv' /\ NoticeInv'
  <2> SUFFICES ASSUME pc \in {"select", "idle", "drain"}, StartList
               PROVE  OrderInv' /\ NoticeInv'
    OBVIOUS
  <2>1. NoneUnderWay({"uid", "body"})'
    BY <1>0, MovesFacts DEF PhaseInv
  <2>2. NoneUnderWay({"uid"})'
    BY <2>1 DEF NoneUnderWay
  <2> QED
    BY <1>0, <2>2, NoticeAfterStartList
<1>5. wire[1] = r
  OBVIOUS
<1> HIDE DEF r, b
<1>7. CASE ReadLogin(r)
  <2>1. pc' \in {"login", "select"}
    BY <1>7 DEF ReadLogin, Goto, Stays
  <2> QED
    BY <2>1 DEF OrderInv, NoticeInv, Listing, Fetching
<1>8. CASE ReadSelect(r)
  <2>1. CASE Completes(r)
    BY <1>4, <1>8, <2>1 DEF ReadSelect
  <2>2. CASE ~Completes(r)
    <3>1. pc' = "select"
      BY <1>8, <2>2 DEF ReadSelect
    <3> QED
      BY <3>1 DEF OrderInv, NoticeInv, Listing, Fetching
  <2> QED
    BY <2>1, <2>2
<1>9. CASE ReadFetch(r)
  <2>0. pc \in {"list", "fetch"} /\ cut' = cut /\ passed \in BOOLEAN /\ draining = "none"
    BY <1>0, <1>9 DEF ReadFetch, TypeOK, PhaseInv
  <2>1. CASE ~Completes(r)
    <3>1. /\ got' = Taken(pc, r) /\ passed' = (passed \/ r.kind = "exists") /\ r.kind # "tagged"
          /\ UNCHANGED <<pc, draining, validity, todo, sent, state, ingested, limited>>
      BY <1>9, <2>1 DEF ReadFetch, Ignores, Completes, dbVars
    <3>2. pc = "list" => r.kind # "body"
      BY <1>0, <1>5 DEF PhaseInv, Listing, NoneUnderWay
    <3>3. \/ /\ got' = got
             /\ Listing => r.kind # "uid"
             /\ Fetching => r.kind # "body"
          \/ /\ \/ Listing /\ r.kind = "uid"
                \/ Fetching /\ r.kind = "body"
             /\ got' = got \cup {r.uid}
      BY <2>0, <3>1, <3>2 DEF Taken, Listing, Fetching
    <3>4. /\ Listing' <=> Listing
          /\ Fetching' <=> Fetching
          /\ Listing \/ Fetching
      BY <2>0, <3>1 DEF Listing, Fetching
    <3> QED
      BY <1>0, <1>5, <2>0, <3>1, <3>3, <3>4, NoticeAfterTaken
  <2>2. CASE Completes(r) /\ Drains(got)
    <3>1. /\ got' = got /\ passed' = passed /\ r.kind = "tagged" /\ pc' = "late" /\ draining' = pc
          /\ UNCHANGED <<validity, todo, sent, state, ingested, limited>>
      BY <1>9, <2>2 DEF ReadFetch, Completes, dbVars
    <3>2. /\ Listing' <=> Listing
          /\ Fetching' <=> Fetching
          /\ Listing \/ Fetching
      BY <2>0, <3>1 DEF Listing, Fetching
    <3>3. passed' = (passed \/ r.kind = "exists")
      BY <2>0, <3>1
    <3> QED
      BY <1>0, <1>5, <2>0, <3>1, <3>2, <3>3, NoticeAfterTaken
  <2>3. CASE Completes(r) /\ ~Drains(got)
    <3> SUFFICES ASSUME ~cut PROVE OrderInv' /\ NoticeInv'
      BY <2>0 DEF OrderInv, NoticeInv
    <3>1. Ends(pc, got) /\ r.kind = "tagged" /\ got # {}
      BY <1>9, <2>3 DEF ReadFetch, Completes, Drains
    <3>2. Owed = 1 /\ b = 1
      BY <1>2, <2>0, <3>1 DEF StepInv, Down
    <3>3. /\ \A i \in DOMAIN wire' : wire'[i].kind # "tagged"
          /\ \A i \in DOMAIN answer : answer[i].kind # "tagged"
      BY <1>0, <1>2, <3>2, NoneOwed
    <3>4. /\ pc = "list" => NoneUnderWay({"uid"})'
          /\ pc = "fetch" => NoneUnderWay({"body"})'
      <4>1. \A k : Ordered(k) => NoneUnderWay({k})'
        BY <1>0, <3>1, <3>3, DataRead
      <4>2. (pc = "list" => Ordered("uid")) /\ (pc = "fetch" => Ordered("body"))
        BY DEF OrderInv
      <4> QED
        BY <4>1, <4>2
    <3>5. (pc = "list" => Listing) /\ (pc = "fetch" => Fetching)
      BY DEF Listing, Fetching
    <3>6. Owed = b
      BY <3>2
    <3> QED
      BY <1>0, <1>2, <1>5, <2>0, <3>1, <3>4, <3>5, <3>6, NoticeAfterCommand
  <2> QED
    BY <2>1, <2>2, <2>3
<1>10. CASE ReadLate(r)
  <2>0. pc = "late" /\ draining \in {"list", "fetch"} /\ passed \in BOOLEAN
    BY <1>0, <1>10 DEF ReadLate, TypeOK, PhaseInv
  <2>1. CASE r.kind \in {"uid", "body"}
    <3>1. /\ got' = Taken(draining, r) /\ passed' = passed /\ cut' = cut
          /\ UNCHANGED <<pc, draining, validity, todo, sent, state, ingested, limited>>
      BY <1>10, <2>1 DEF ReadLate, dbVars, historyVars
    <3>2. draining = "list" => r.kind # "body"
      BY <1>0, <1>5, <2>0 DEF PhaseInv, Listing, NoneUnderWay
    <3>3. \/ /\ got' = got
             /\ Listing => r.kind # "uid"
             /\ Fetching => r.kind # "body"
          \/ /\ \/ Listing /\ r.kind = "uid"
                \/ Fetching /\ r.kind = "body"
             /\ got' = got \cup {r.uid}
      BY <2>0, <3>1, <3>2 DEF Taken, Listing, Fetching
    <3>4. /\ Listing' <=> Listing
          /\ Fetching' <=> Fetching
          /\ Listing \/ Fetching
      BY <2>0, <3>1 DEF Listing, Fetching
    <3>5. passed' = (passed \/ r.kind = "exists")
      BY <2>0, <2>1, <3>1
    <3> QED
      BY <1>0, <1>5, <2>0, <3>1, <3>3, <3>4, <3>5, NoticeAfterTaken
  <2>2. CASE r.kind \notin {"uid", "body"}
    <3>1. Ends(draining, got) /\ cut' = (cut \/ Owed > 0 \/ DataOwed \/ r.kind = "exists")
      BY <1>10, <2>2 DEF ReadLate
    <3> SUFFICES ASSUME ~cut' PROVE OrderInv' /\ NoticeInv'
      BY DEF OrderInv, NoticeInv
    <3>2. ~cut /\ ~(Owed > 0) /\ ~DataOwed /\ r.kind # "exists"
      BY <3>1
    <3>3. Owed = 0 /\ b = 0
      <4>1. Owed \in Nat /\ (Owed = 0 => r.kind # "tagged")
        BY <1>0, <1>5, OwedRead
      <4>2. Owed = 0
        BY <3>2, <4>1
      <4> QED
        BY <1>2, <4>1, <4>2
    <3>4. NoneUnderWay({"uid"}) /\ NoneUnderWay({"body"})
      BY <3>2 DEF DataOwed, NoneUnderWay
    <3>5. NoneUnderWay({"uid"})' /\ NoneUnderWay({"body"})'
      BY <1>0, <3>4, MovesFacts
    <3>6. (draining = "list" => Listing) /\ (draining = "fetch" => Fetching)
      BY <2>0 DEF Listing, Fetching
    <3>7. Owed = b /\ wire[1].kind \notin {"uid", "body", "exists"}
      BY <1>5, <2>2, <3>2, <3>3
    <3> QED
      BY <1>0, <1>2, <2>0, <3>1, <3>2, <3>5, <3>6, <3>7, NoticeAfterCommand
  <2> QED
    BY <2>1, <2>2
<1>11. CASE ReadSearch(r)
  <2>0. pc = "search" /\ cut' = cut /\ passed \in BOOLEAN /\ todo # {} /\ todo \subseteq Uids
    BY <1>0, <1>11 DEF ReadSearch, TypeOK, FlowInv, SearchFlow
  <2>1. CASE r.kind = "search"
    <3>1. /\ got' = todo \ Dated /\ passed' = passed
          /\ UNCHANGED <<pc, draining, validity, todo, sent, state, ingested, limited>> /\ LastSeen' = LastSeen
      BY <1>11, <2>1 DEF ReadSearch, Completes, dbVars, LastSeen
    <3>2. Told => Told'
      BY <1>3, <2>1
    <3>3. OrderInv'
      BY <2>0, <3>1 DEF OrderInv, SearchComing
    <3>4. NoticeInv'
      BY <1>0, <2>0, <3>1, <3>2 DEF NoticeInv, Listing, Fetching
    <3> QED
      BY <3>3, <3>4
  <2>2. CASE r.kind # "search" /\ Completes(r)
    <3> SUFFICES ASSUME ~cut PROVE OrderInv' /\ NoticeInv'
      BY <2>0 DEF OrderInv, NoticeInv
    <3>1. SearchEnds(got) /\ r.kind = "tagged" /\ b = 1 /\ Owed = 1
      BY <1>2, <1>11, <2>0, <2>2 DEF ReadSearch, Completes, StepInv, Down
    <3>2. Owed = b
      BY <3>1
    <3>3. /\ \A i \in DOMAIN wire' : wire'[i].kind # "tagged"
          /\ \A i \in DOMAIN answer : answer[i].kind # "tagged"
          /\ \A i \in DOMAIN sent : sent[i].name = "idle"
      BY <1>0, <1>2, <3>2, NoneOwed
    <3>4. got = todo \ Dated
      <4>1. SearchComing
        BY <2>0 DEF OrderInv
      <4>2. ~Asked("search")
        BY <3>3 DEF Asked
      <4>3. \A i \in DOMAIN wire :
              i \in Nat /\ i >= 1 /\ (i = 1 \/ (i - 1 \in DOMAIN wire' /\ wire'[i - 1] = wire[i]))
        BY <1>0, TailFacts, SeqFacts DEF Traffic
      <4>4. \A i, j \in DOMAIN wire : wire[j].kind = "tagged" => ~(j > i)
        BY <3>3, <4>3
      <4> QED
        BY <3>3, <4>1, <4>2, <4>4 DEF SearchComing
    <3>5. FetchRecent(got, todo \cap Dated) /\ UNCHANGED <<state, ingested, passed>>
      BY <3>1 DEF SearchEnds
    <3>6. NoneUnderWay({"body"})'
      <4>1. NoneUnderWay({"body"})
        BY <1>0, <2>0 DEF PhaseInv
      <4> QED
        BY <1>0, <4>1, MovesFacts
    <3>7. \/ passed' \/ Told'
          \/ \A u \in 1..top : u \in 0..LastSeen \cup limited \/ u \in got \/ u \in todo \cap Dated
      <4>1. Told => Told'
        BY <1>3, <3>1
      <4>2. passed \/ Told \/ \A u \in 1..top : u \in 0..LastSeen \cup limited \/ u \in todo
        BY <2>0 DEF NoticeInv
      <4> QED
        BY <3>4, <3>5, <4>1, <4>2
    <3>8. NoneSkipped /\ got \subseteq Uids
      BY <2>0, <3>4 DEF Inv
    <3> QED
      BY <1>0, <3>5, <3>6, <3>7, <3>8, NoticeAfterFetchRecent
  <2>3. CASE r.kind # "search" /\ ~Completes(r)
    <3>1. /\ passed' = (passed \/ r.kind = "exists") /\ r.kind # "tagged"
          /\ UNCHANGED <<pc, draining, validity, got, todo, sent, state, ingested, limited>>
          /\ LastSeen' = LastSeen
      BY <1>11, <2>3 DEF ReadSearch, Completes, Stays, Ignores, dbVars, LastSeen
    <3>2. SearchComing => SearchComing'
      BY <1>0, <1>5, <2>3, <3>1, SearchRead
    <3>3. OrderInv'
      BY <2>0, <3>1, <3>2 DEF OrderInv
    <3>4. NoticeInv'
      BY <1>0, <1>3, <2>0, <3>1 DEF NoticeInv, Listing, Fetching
    <3> QED
      BY <3>3, <3>4
  <2> QED
    BY <2>1, <2>2, <2>3
<1>12. CASE ReadSetup(r)
  <2>0. pc = "setup" /\ UNCHANGED <<cut, passed, ingested, limited>>
    BY <1>12 DEF ReadSetup, dbVars, historyVars
  <2>1. CASE r.kind = "accepted"
    <3>1. pc' \in {"idle", "drain"} /\ noticed' = noticed
      BY <1>12, <2>1 DEF ReadSetup, Goto
    <3>2. Told => Told'
      BY <1>3, <2>1
    <3> QED
      BY <1>0, <2>0, <3>1, <3>2 DEF OrderInv, NoticeInv, Listing, Fetching
  <2>2. CASE r.kind = "rejected"
    <3>1. pc' = "off"
      BY <1>12, <2>2 DEF ReadSetup, Closed, Goto
    <3> QED
      BY <3>1 DEF OrderInv, NoticeInv, Listing, Fetching
  <2>3. CASE r.kind \notin {"accepted", "rejected"}
    <3>1. pc' = "setup" /\ noticed' = (noticed \/ r.kind = "exists")
      BY <1>12, <2>0, <2>3 DEF ReadSetup, SetupUpdate
    <3> QED
      BY <1>0, <1>3, <2>0, <3>1 DEF OrderInv, NoticeInv, Listing, Fetching
  <2> QED
    BY <2>1, <2>2, <2>3
<1>13. CASE ReadIdle(r)
  <2>0. pc = "idle" /\ cut' = (cut /\ ~Completes(r))
    BY <1>13 DEF ReadIdle
  <2>1. CASE Completes(r)
    BY <1>4, <1>13, <2>0, <2>1 DEF ReadIdle, Completes
  <2>2. CASE ~Completes(r)
    <3>1. /\ pc' = "idle" /\ UNCHANGED <<passed, ingested, limited>> /\ (cut <=> cut')
          /\ noticed => noticed'
          /\ r.kind = "exists" => noticed'
      BY <1>13, <2>0, <2>2 DEF ReadIdle, Stays, dbVars
    <3> QED
      BY <1>0, <1>3, <2>0, <3>1 DEF OrderInv, NoticeInv, Listing, Fetching
  <2> QED
    BY <2>1, <2>2
<1>14. CASE ReadDrain(r)
  <2>1. CASE r.kind \in Status
    BY <1>4, <1>14, <2>1 DEF ReadDrain
  <2>2. CASE r.kind \notin Status
    <3>1. pc' = "drain"
      BY <1>14, <2>2 DEF ReadDrain, Stays
    <3> QED
      BY <3>1 DEF OrderInv, NoticeInv, Listing, Fetching
  <2> QED
    BY <2>1, <2>2
<1> QED
  BY <1>1, <1>7, <1>8, <1>9, <1>10, <1>11, <1>12, <1>13, <1>14

LEMMA NoticeInTimers ==
  ASSUME Inv, Safe', StepInv, OrderInv, NoticeInv, Timers
  PROVE  OrderInv' /\ NoticeInv'
<1>0. PipeInv /\ TypeOK /\ PhaseInv /\ Traffic /\ UNCHANGED <<top, untold, answer, wire>> /\ Moves
  BY DEF Inv, PipeInv, TypeOK, Traffic, Timers, Heartbeat, LateTimeout, DrainTimeout, serverVars, Moves
<1>1. CASE Heartbeat
  <2>1. pc' = "drain"
    BY <1>1 DEF Heartbeat, Goto
  <2> QED
    BY <2>1 DEF OrderInv, NoticeInv, Listing, Fetching
<1>2. CASE LateTimeout
  <2>1. /\ pc = "late" /\ draining \in {"list", "fetch"} /\ Ends(draining, got)
        /\ cut' = (cut \/ Owed > 0 \/ DataOwed)
    BY <1>0, <1>2 DEF LateTimeout, TypeOK, PhaseInv
  <2> SUFFICES ASSUME ~cut' PROVE OrderInv' /\ NoticeInv'
    BY DEF OrderInv, NoticeInv
  <2>2. ~cut /\ ~(Owed > 0) /\ ~DataOwed
    BY <2>1
  <2>3. Owed = 0
    BY <2>1, <2>2 DEF StepInv, Down
  <2>4. NoneUnderWay({"uid"}) /\ NoneUnderWay({"body"})
    BY <2>2 DEF DataOwed, NoneUnderWay
  <2>5. NoneUnderWay({"uid"})' /\ NoneUnderWay({"body"})'
    BY <1>0, <2>4, MovesFacts
  <2>6. (draining = "list" => Listing) /\ (draining = "fetch" => Fetching)
    BY <2>1 DEF Listing, Fetching
  <2> QED
    BY <1>0, <2>1, <2>2, <2>3, <2>5, <2>6, NoticeAfterCommand
<1>3. CASE DrainTimeout
  <2>1. cut'
    BY <1>3 DEF DrainTimeout
  <2> QED
    BY <2>1 DEF OrderInv, NoticeInv
<1> QED
  BY <1>1, <1>2, <1>3 DEF Timers

LEMMA NoticeInit ==
  ASSUME Init
  PROVE  OrderInv /\ NoticeInv
  BY DEF Init, OrderInv, NoticeInv, Listing, Fetching

LEMMA NoticeNext ==
  ASSUME Inv, Inv', StepInv, StepInv', OrderInv, NoticeInv, [Next]_vars
  PROVE  OrderInv' /\ NoticeInv'
<1>0. Safe'
  BY DEF Inv, PipeInv, TypeOK, Safe, ClientTypes, Traffic, Points
<1>1. CASE Deliver \/ Tell \/ Keepalive \/ Server
  BY <1>0, <1>1, NoticeByServer
<1>2. CASE Read
  BY <1>0, <1>2, NoticeInRead
<1>3. CASE Timers
  BY <1>0, <1>3, NoticeInTimers
<1>4. CASE Connect \/ Break \/ AuthFails \/ Respawn
  <2>1. pc' \in {"off", "stopped", "login"}
    BY <1>4 DEF Connect, Break, AuthFails, Respawn, Closed, Goto
  <2> QED
    BY <2>1 DEF OrderInv, NoticeInv, Listing, Fetching
<1>5. CASE UNCHANGED vars
  <2>1. /\ UNCHANGED <<top, untold, answer, sent, wire, pc, draining, validity, got, todo, noticed>>
        /\ UNCHANGED <<state, ingested, limited, cut, passed>> /\ LastSeen' = LastSeen
    BY <1>5 DEF vars, serverVars, clientVars, dbVars, historyVars, LastSeen
  <2>2. OrderInv'
    BY <2>1 DEF OrderInv, Ordered, DataFirst, DataLast, SearchComing, NoneUnderWay, Asked
  <2>3. NoticeInv'
    BY <2>1 DEF NoticeInv, Listing, Fetching, Told, Asked, Listed, Requested, Coming, Have,
                InWire, InAnswer
  <2> QED
    BY <2>2, <2>3
<1> QED
  BY <1>1, <1>2, <1>3, <1>4, <1>5 DEF Next

\* What is delivered while the watcher's client is busy is stored, or the client is told of
\* it: it does not sleep in IDLE over a message, unless a command has read the EXISTS.
THEOREM NothingIsMissed == Spec => []IdleNotices
<1>1. Spec => [](OrderInv /\ NoticeInv)
  <2>1. Spec => []StepInv
    BY InvInit, InvNext, StepInit, StepNext, InvAlways, PTL DEF Spec
  <2> QED
    BY <2>1, InvAlways, NoticeInit, NoticeNext, PTL DEF Spec
<1>2. NoticeInv => IdleNotices
  BY DEF NoticeInv, IdleNotices, Told
<1> QED
  BY <1>1, <1>2, PTL

=============================================================================
