------------------------- MODULE MessageIndexProofs -------------------------
(***************************************************************************)
(* Theorems about MessageIndex, for any documents, versions, batch size    *)
(* and bounds: a row that counts as indexed is in the index with its       *)
(* present content, or, when a swap of directories was cut short, in one   *)
(* that is still there.                                                    *)
(***************************************************************************)
EXTENDS MessageIndex, TLAPS

Points == {"off", "idle", "row", "attachments", "write", "mark"}

\* A row has a version and a state, or neither; it had its present version.
RowsInv ==
  \A d \in Docs : /\ rows[d].state # "none" <=> rows[d].ver # 0
                  /\ rows[d].ver # 0 => rows[d].ver \in past[d]

\* The worker holds documents only within a drain, and the rebuild keeps mailindex off
\* until the active directory is moved.
ControlInv ==
  /\ pc = "off" => uploads = {}
  /\ pc \in {"off", "idle"} => todo = {} /\ batch = {}
  /\ pc = "mark" => result # "none"
  /\ step = "built" => pc = "off"
  /\ step \in {"off", "built"} => old = Missing
  /\ step = "off" => fresh = Missing /\ manifest = {}
  /\ step \in {"built", "moved"} => fresh # Missing
  /\ step \in {"installed", "mark"} => active # Missing /\ ~interrupted

\* The documents of a batch are distinct, all but the one being read are complete, and
\* each was read when its row had that version.
BatchShape ==
  /\ todo \subseteq Stored
  /\ \A b \in batch : b.doc \in Stored /\ b.doc \notin todo /\ b.ver \in past[b.doc]
  /\ \A b, c \in batch : b.doc = c.doc => b = c
  /\ \A b, c \in batch : b.att = 0 /\ c.att = 0 => b = c
  /\ pc # "attachments" => \A b \in batch : b.att # 0

\* While the row keeps the version that was read, the attachments read are that
\* version's; a row that counts as indexed meanwhile still has it; and what was committed
\* is in the index.
BatchCurrent ==
  /\ \A b \in batch :
       b.doc \notin reverted =>
         /\ rows[b.doc].ver = b.ver /\ b.att # 0 => b.att = b.ver
         /\ rows[b.doc].state = "indexed" => rows[b.doc].ver = b.ver
  /\ pc = "mark" /\ result = "indexed" => \A b \in batch : active[b.doc] = Document(b)

\* The new index holds every row until the active one may change again; after its
\* installation the manifest's versions that are still the rows' are found in it, and a
\* batch read since holds no other version of them.
ManifestInv ==
  /\ \A m \in manifest : m.ver \in past[m.doc]
  /\ step = "built" \/ (step = "moved" /\ active = Missing) =>
       \A d \in Stored : Holds(fresh, d)
  /\ step \in {"built", "moved"} =>
       \A m \in manifest : fresh[m.doc] = [body |-> m.ver, att |-> m.ver]
  /\ step \in {"installed", "mark"} =>
       \A m \in manifest : rows[m.doc].ver = m.ver => Holds(active, m.doc)
  /\ \A m \in manifest, b \in batch :
       m.doc = b.doc /\ m.doc \notin reverted /\ rows[m.doc].ver = m.ver => b.ver = m.ver

\* The index that a failing installation puts back is as good as the active one was, and
\* nothing depends on the new index before it is installed.
BackupInv ==
  /\ step = "moved" /\ ~interrupted /\ active = Missing =>
       \A d \in Docs : rows[d].state = "indexed" => Holds(old, d)
  /\ \A d \in Docs : rows[d].state = "indexed" =>
       \E index \in kept \cup {active, old} : Holds(index, d)

IndexInv ==
  /\ TypeOK /\ RowsInv /\ ControlInv /\ BatchShape /\ BatchCurrent
  /\ ManifestInv /\ BackupInv /\ IndexedSearchable

-----------------------------------------------------------------------------
(* What an index keeps, what the bounds allow. *)

Read == [doc : Docs, ver : 0..MaxVersion, att : 0..MaxVersion]

\* An index holds a document when its body and attachments are those of the row.
LEMMA HoldsIs ==
  ASSUME NEW index, NEW d \in Docs
  PROVE  Holds(index, d) <=>
           \/ d \in reverted
           \/ /\ index # Missing /\ rows[d].ver # 0
              /\ index[d].body = rows[d].ver /\ index[d].att = rows[d].ver
BY DEF Holds, Finds, Hydrated, Stored

\* The same of the next state.
LEMMA HoldsNext ==
  ASSUME NEW index, NEW d \in Docs
  PROVE  Holds(index, d)' <=>
           \/ d \in reverted'
           \/ /\ index # Missing /\ rows'[d].ver # 0
              /\ index[d].body = rows'[d].ver /\ index[d].att = rows'[d].ver
BY DEF Holds, Finds, Hydrated, Stored

LEMMA EmptyIndex == Empty \in Index /\ Empty # Missing
<1>1. Empty \in Index
  BY IndexAssumption DEF Empty, Index, Entry
<1> QED
  BY <1>1, MissingAssumption

\* A batch is written over the index, each of its documents once.
LEMMA WithBatchIs ==
  ASSUME NEW index \in Index, NEW b \in SUBSET Read
  PROVE  /\ WithBatch(index, b) \in Index /\ WithBatch(index, b) # Missing
         /\ \A d \in Docs : (\A x \in b : x.doc # d) => WithBatch(index, b)[d] = index[d]
         /\ (\A x, y \in b : x.doc = y.doc => x = y) =>
              \A x \in b : WithBatch(index, b)[x.doc] = Document(x)
<1>1. \A d \in Docs : (\E x \in b : x.doc = d) =>
        /\ (CHOOSE x \in b : x.doc = d) \in b
        /\ (CHOOSE x \in b : x.doc = d).doc = d
  OBVIOUS
<1>2. ASSUME NEW d \in Docs PROVE WithBatch(index, b)[d] \in Entry
  <2>1. CASE \E x \in b : x.doc = d
    <3>1. PICK y \in b : y = CHOOSE x \in b : x.doc = d
      BY <1>1, <2>1
    <3>2. WithBatch(index, b)[d] = [body |-> y.ver, att |-> y.att]
      BY <2>1, <3>1 DEF WithBatch, Document
    <3> QED
      BY <3>2 DEF Read, Entry
  <2>2. CASE ~ \E x \in b : x.doc = d
    BY <2>2 DEF WithBatch, Index
  <2> QED
    BY <2>1, <2>2
<1>3. WithBatch(index, b) \in Index
  BY <1>2 DEF WithBatch, Index
<1>4. ASSUME NEW d \in Docs, \A x \in b : x.doc # d
      PROVE  WithBatch(index, b)[d] = index[d]
  BY <1>4 DEF WithBatch
<1>5. ASSUME \A x, y \in b : x.doc = y.doc => x = y, NEW x \in b
      PROVE  WithBatch(index, b)[x.doc] = Document(x)
  <2>1. x.doc \in Docs
    BY DEF Read
  <2>2. (CHOOSE y \in b : y.doc = x.doc) = x
    BY <1>1, <1>5, <2>1
  <2> QED
    BY <2>1, <2>2 DEF WithBatch
<1> QED
  BY <1>3, <1>4, <1>5, MissingAssumption

UsedOK == used \in [DOMAIN Bound -> Nat] /\ \A k \in DOMAIN Bound : used[k] <= Bound[k]

LEMMA UseKeeps ==
  ASSUME UsedOK, NEW k \in DOMAIN Bound, Use(k)
  PROVE  UsedOK'
<1>1. \A j \in DOMAIN Bound : Bound[j] \in Nat
  BY IndexAssumption DEF Bound
<1>2. used' = [used EXCEPT ![k] = used[k] + 1] /\ used[k] < Bound[k]
  BY DEF Use
<1>3. Bound' = Bound
  BY DEF Bound
<1> HIDE DEF Bound
<1> QED
  BY <1>1, <1>2, <1>3 DEF UsedOK

LEMMA BoundKinds == DOMAIN Bound = {"sends", "requeues", "rebuilds", "faults", "stops"}
BY DEF Bound

LEMMA CallKeeps ==
  ASSUME UsedOK, NEW o, Call(o)
  PROVE  UsedOK' /\ o \in Outcome
<1>1. CASE o = "ok"
  BY <1>1 DEF Call, UsedOK, Bound
<1>2. CASE o # "ok"
  BY <1>2, UseKeeps, BoundKinds DEF Call
<1> QED
  BY <1>1, <1>2 DEF Call

-----------------------------------------------------------------------------
(* Type correctness. *)

LEMMA TypeSplit ==
  TypeOK <=>
    /\ rows \in [Docs -> [ver : 0..MaxVersion, state : {"none", "pending", "indexed", "error"}]]
    /\ uploads \subseteq [doc : Docs, ver : Versions]
    /\ active \in Index \cup {Missing}
    /\ pc \in Points
    /\ pc # "off" => active # Missing
    /\ todo \subseteq Docs
    /\ batch \subseteq Read
    /\ result \in {"none", "indexed", "error"} /\ poisoned \in BOOLEAN
    /\ step \in {"off", "built", "moved", "installed", "mark"}
    /\ fresh \in Index \cup {Missing} /\ old \in Index \cup {Missing}
    /\ manifest \subseteq [doc : Docs, ver : 0..MaxVersion] /\ kept \subseteq Index
    /\ past \in [Docs -> SUBSET Versions] /\ reverted \subseteq Docs /\ interrupted \in BOOLEAN
    /\ UsedOK
BY DEF TypeOK, UsedOK, Read, Points

\* The index after a batch, whether it was committed or not.
LEMMA BatchType ==
  ASSUME TypeOK, pc = "write", NEW o,
         active' = IF Applied(o) THEN WithBatch(active, batch) ELSE active
  PROVE  active' \in Index /\ active' # Missing
BY WithBatchIs, MissingAssumption, TypeSplit

LEMMA CorpusIs ==
  ASSUME TypeOK
  PROVE  /\ Corpus \in SUBSET Read
         /\ \A x \in Corpus : x.doc \in Stored /\ x.ver = rows[x.doc].ver /\ x.att = x.ver
         /\ \A d \in Stored : \E x \in Corpus : x.doc = d
         /\ \A x, y \in Corpus : x.doc = y.doc => x = y
<1>1. \A d \in Stored : d \in Docs /\ rows[d].ver \in 0..MaxVersion
  BY DEF Stored, TypeOK
<1> DEFINE whole(d) == [RowOf(d) EXCEPT !.att = AttachmentsOf(d)]
<1>2. Corpus = {whole(d) : d \in Stored}
  BY DEF Corpus
<1>3. \A d \in Stored : /\ whole(d) \in Read /\ whole(d).doc = d
                        /\ whole(d).ver = rows[d].ver /\ whole(d).att = rows[d].ver
  BY <1>1 DEF RowOf, AttachmentsOf, Read
<1> HIDE DEF whole
<1>4. \A x \in Corpus : x \in Read /\ x.doc \in Stored /\ x = whole(x.doc)
  BY <1>2, <1>3
<1>5. \A d \in Stored : whole(d) \in Corpus
  BY <1>2
<1> QED
  BY <1>3, <1>4, <1>5

LEMMA ClientsType ==
  ASSUME IndexInv, Clients
  PROVE  TypeOK'
<1> USE DEF workerVars, rebuildVars, historyVars
<1>0. TypeOK /\ UsedOK
  BY TypeSplit DEF IndexInv
<1>1. ASSUME NEW d \in Docs, Requeue(d) PROVE TypeOK'
  <2>1. UsedOK'
    BY <1>0, <1>1, UseKeeps, BoundKinds DEF Requeue
  <2> QED
    BY <1>0, <1>1, <2>1 DEF Requeue, TypeOK, UsedOK
<1>2. ASSUME NEW d \in Docs, NEW v \in Versions, Upload(d, v) PROVE TypeOK'
  <2>1. UsedOK'
    BY <1>0, <1>2, UseKeeps, BoundKinds DEF Upload
  <2> QED
    BY <1>0, <1>2, <2>1 DEF Upload, TypeOK, UsedOK
<1>3. ASSUME NEW u \in uploads, NEW o \in Outcome, Upsert(u, o) PROVE TypeOK'
  <2>1. UsedOK'
    BY <1>0, <1>3, CallKeeps DEF Upsert
  <2>2. u.doc \in Docs /\ u.ver \in Versions /\ u.ver \in 0..MaxVersion
    BY <1>0, IndexAssumption DEF TypeOK, Versions
  <2>3. CASE Applied(o) /\ Differs(u.doc, u.ver)
    <3>1. rows' = [rows EXCEPT ![u.doc] = [ver |-> u.ver, state |-> "pending"]]
      BY <1>3, <2>3 DEF Upsert, NewState
    <3>2. past' = [past EXCEPT ![u.doc] = past[u.doc] \cup {u.ver}]
      BY <1>3, <2>3 DEF Upsert
    <3>3. reverted' \subseteq Docs
      BY <1>0, <1>3, <2>2, <2>3 DEF Upsert, TypeOK
    <3>4. rows' \in [Docs -> [ver : 0..MaxVersion,
                              state : {"none", "pending", "indexed", "error"}]]
      BY <1>0, <2>2, <3>1 DEF TypeOK
    <3>5. past' \in [Docs -> SUBSET Versions]
      BY <1>0, <2>2, <3>2 DEF TypeOK
    <3> QED
      BY <1>0, <1>3, <2>1, <3>3, <3>4, <3>5 DEF Upsert, TypeOK, UsedOK
  <2>4. CASE ~(Applied(o) /\ Differs(u.doc, u.ver))
    BY <1>0, <1>3, <2>1, <2>4 DEF Upsert, TypeOK, UsedOK
  <2> QED
    BY <2>3, <2>4
<1> QED
  BY <1>1, <1>2, <1>3 DEF Clients

LEMMA WorkerType ==
  ASSUME IndexInv, Worker
  PROVE  TypeOK'
<1> USE DEF workerVars, rebuildVars, historyVars
<1>0. TypeOK /\ UsedOK
  BY TypeSplit DEF IndexInv
<1>1. CASE List
  BY <1>0, <1>1 DEF List, TypeOK, Lowest, Pending
<1>2. CASE ReadFails
  <2>1. UsedOK'
    BY <1>0, <1>2, UseKeeps, BoundKinds DEF ReadFails
  <2> QED
    BY <1>0, <1>2, <2>1 DEF ReadFails, Idle, TypeOK, UsedOK
<1>3. ASSUME NEW d \in todo, ReadRow(d) PROVE TypeOK'
  <2>1. RowOf(d) \in [doc : Docs, ver : 0..MaxVersion, att : 0..MaxVersion]
    BY <1>0, IndexAssumption DEF RowOf, TypeOK
  <2> QED
    BY <1>0, <1>3, <2>1 DEF ReadRow, TypeOK
<1>4. ASSUME NEW b \in batch, ReadAttachments(b) PROVE TypeOK'
  <2>1. [b EXCEPT !.att = AttachmentsOf(b.doc)]
           \in [doc : Docs, ver : 0..MaxVersion, att : 0..MaxVersion]
    BY <1>0 DEF AttachmentsOf, TypeOK
  <2> QED
    BY <1>0, <1>4, <2>1 DEF ReadAttachments, TypeOK
<1>5. ASSUME NEW o \in Outcome, IndexBatch(o) PROVE TypeOK'
  <2>1. UsedOK'
    <3>1. CASE poisoned
      BY <1>0, <1>5, <3>1 DEF IndexBatch, UsedOK, Bound
    <3> QED
      BY <1>0, <1>5, <3>1, CallKeeps DEF IndexBatch
  <2>2. active' \in Index /\ active' # Missing
    BY <1>0, <1>5, BatchType DEF IndexBatch
  <2> QED
    BY <1>0, <1>5, <2>1, <2>2 DEF IndexBatch, FailedState, TypeOK, UsedOK
<1>6. ASSUME NEW o \in Outcome, IndexPanics(o) PROVE TypeOK'
  <2>1. UsedOK'
    BY <1>0, <1>6, CallKeeps DEF IndexPanics
  <2>2. active' \in Index /\ active' # Missing
    BY <1>0, <1>6, BatchType DEF IndexPanics
  <2> QED
    BY <1>0, <1>6, <2>1, <2>2 DEF IndexPanics, Idle, TypeOK, UsedOK
<1>7. ASSUME NEW o \in Outcome, NEW b \in batch, Mark(b, o) PROVE TypeOK'
  <2>1. UsedOK'
    BY <1>0, <1>7, CallKeeps DEF Mark
  <2>2. rows' \in [Docs -> [ver : 0..MaxVersion,
                            state : {"none", "pending", "indexed", "error"}]]
    <3>1. CASE rows' = rows
      BY <1>0, <3>1 DEF TypeOK
    <3>2. CASE rows' = [rows EXCEPT ![b.doc].state = result]
      BY <1>0, <3>2 DEF TypeOK
    <3> QED
      BY <1>7, <3>1, <3>2 DEF Mark
  <2>3. CASE Idle
    BY <1>0, <1>7, <2>1, <2>2, <2>3 DEF Mark, Idle, TypeOK, UsedOK
  <2>4. CASE batch' = batch \ {b} /\ UNCHANGED <<pc, todo, result>>
    BY <1>0, <1>7, <2>1, <2>2, <2>4 DEF Mark, TypeOK, UsedOK
  <2> QED
    BY <1>7, <2>3, <2>4 DEF Mark
<1> QED
  BY <1>1, <1>2, <1>3, <1>4, <1>5, <1>6, <1>7 DEF Worker

LEMMA RebuildType ==
  ASSUME IndexInv, Start \/ Stop \/ Build \/ Rebuild \/ RebuildStops
  PROVE  TypeOK'
<1> USE DEF workerVars, rebuildVars, historyVars
<1>0. TypeOK /\ UsedOK
  BY TypeSplit DEF IndexInv
<1>1. CASE Start
  BY <1>0, <1>1, EmptyIndex DEF Start, Idle, TypeOK, Index
<1>2. CASE Stop
  <2>1. UsedOK'
    BY <1>0, <1>2, UseKeeps, BoundKinds DEF Stop
  <2> QED
    BY <1>0, <1>2, <2>1 DEF Stop, TypeOK, UsedOK
<1>3. CASE Build
  <2>1. UsedOK'
    BY <1>0, <1>3, UseKeeps, BoundKinds DEF Build
  <2>2. fresh' \in Index
    BY <1>0, <1>3, CorpusIs, WithBatchIs, EmptyIndex DEF Build
  <2>3. manifest' \subseteq [doc : Docs, ver : 0..MaxVersion]
    BY <1>0, <1>3, CorpusIs DEF Build, Read
  <2> QED
    BY <1>0, <1>3, <2>1, <2>2, <2>3 DEF Build, TypeOK, UsedOK
<1>4. CASE MoveAway
  BY <1>0, <1>4 DEF MoveAway, TypeOK, IndexInv, ControlInv
<1>5. CASE Install
  BY <1>0, <1>5 DEF Install, TypeOK
<1>6. CASE InstallFails
  <2>1. UsedOK'
    BY <1>0, <1>6, UseKeeps, BoundKinds DEF InstallFails
  <2> QED
    BY <1>0, <1>6, <2>1 DEF InstallFails, EndRebuild, TypeOK, UsedOK
<1>7. CASE RestoreFails
  <2>1. UsedOK'
    <3>1. CASE active = Missing
      BY <1>0, <1>7, <3>1, UseKeeps, BoundKinds DEF RestoreFails
    <3> QED
      BY <1>0, <1>7, <3>1 DEF RestoreFails, UsedOK, Bound
  <2> QED
    BY <1>0, <1>7, <2>1 DEF RestoreFails, EndRebuild, Kept, TypeOK, UsedOK
<1>8. ASSUME NEW o \in Outcome, RemoveBackup(o) PROVE TypeOK'
  <2>1. UsedOK'
    BY <1>0, <1>8, CallKeeps DEF RemoveBackup
  <2> QED
    BY <1>0, <1>8, <2>1 DEF RemoveBackup, EndRebuild, TypeOK, UsedOK
<1>9. ASSUME NEW o \in Outcome, MarkVersions(o) PROVE TypeOK'
  <2>1. UsedOK'
    BY <1>0, <1>9, CallKeeps DEF MarkVersions
  <2>2. rows' \in [Docs -> [ver : 0..MaxVersion,
                            state : {"none", "pending", "indexed", "error"}]]
    BY <1>0, <1>9 DEF MarkVersions, TypeOK
  <2>3. EndRebuild \/ (manifest' \subseteq manifest /\ UNCHANGED <<step, fresh, old>>)
    BY <1>9 DEF MarkVersions
  <2>4. UNCHANGED <<uploads, active, pc, todo, batch, result, poisoned, kept,
                    past, reverted, interrupted>>
    BY <1>9 DEF MarkVersions
  <2> QED
    BY <1>0, <2>1, <2>2, <2>3, <2>4 DEF EndRebuild, TypeOK, UsedOK
<1>10. CASE RebuildStops
  <2>1. UsedOK'
    BY <1>0, <1>10, UseKeeps, BoundKinds DEF RebuildStops
  <2> QED
    BY <1>0, <1>10, <2>1 DEF RebuildStops, EndRebuild, Kept, TypeOK, UsedOK
<1> QED
  BY <1>1, <1>2, <1>3, <1>4, <1>5, <1>6, <1>7, <1>8, <1>9, <1>10 DEF Rebuild

-----------------------------------------------------------------------------
(* Uploads and reindex requests. *)

LEMMA UploadStep ==
  ASSUME IndexInv, NEW d \in Docs, NEW v \in Versions, Upload(d, v)
  PROVE  IndexInv'
<1>1. TypeOK'
  BY ClientsType DEF Clients
<1>2. UNCHANGED <<rows, active, pc, todo, batch, result, poisoned, step, fresh, old,
                  manifest, kept, past, reverted, interrupted>> /\ pc # "off"
  BY DEF Upload, workerVars, rebuildVars, historyVars
<1> QED
  BY <1>1, <1>2 DEF IndexInv, RowsInv, ControlInv, BatchShape, BatchCurrent, ManifestInv,
     BackupInv, IndexedSearchable, Holds, Finds, Hydrated, Stored

LEMMA RequeueStep ==
  ASSUME IndexInv, NEW d \in Docs, Requeue(d)
  PROVE  IndexInv'
<1>0. TypeOK /\ rows[d].ver # 0
  BY DEF IndexInv, Requeue, Stored
<1>1. TypeOK'
  BY ClientsType DEF Clients
<1>2. UNCHANGED <<uploads, active, pc, todo, batch, result, poisoned, step, fresh, old,
                  manifest, kept, past, reverted, interrupted>>
  BY DEF Requeue, workerVars, rebuildVars, historyVars
<1>3. /\ \A e \in Docs : rows'[e].ver = rows[e].ver
      /\ \A e \in Docs : e # d => rows'[e] = rows[e]
      /\ rows'[d].state = "pending"
  BY <1>0 DEF Requeue, TypeOK
<1>4. \A e \in Docs : \A index : Holds(index, e)' <=> Holds(index, e)
  BY <1>2, <1>3, HoldsIs, HoldsNext
<1>5. Stored' = Stored
  BY <1>3 DEF Stored
<1>6. \A b \in batch : b.doc \in Docs
  BY <1>0 DEF TypeOK
<1>7. \A m \in manifest : m.doc \in Docs
  BY <1>0 DEF TypeOK
<1>8. RowsInv'
  BY <1>0, <1>2, <1>3 DEF IndexInv, RowsInv
<1>9. ControlInv' /\ BatchShape'
  BY <1>2, <1>5 DEF IndexInv, ControlInv, BatchShape
<1>10. BatchCurrent'
  BY <1>2, <1>3, <1>6 DEF IndexInv, BatchCurrent
<1>11. ManifestInv'
  BY <1>2, <1>3, <1>4, <1>5, <1>7 DEF IndexInv, ManifestInv, Stored
<1>12. BackupInv' /\ IndexedSearchable'
  BY <1>2, <1>3, <1>4 DEF IndexInv, BackupInv, IndexedSearchable
<1> QED
  BY <1>1, <1>8, <1>9, <1>10, <1>11, <1>12 DEF IndexInv

LEMMA UpsertStep ==
  ASSUME IndexInv, NEW u \in uploads, NEW o \in Outcome, Upsert(u, o)
  PROVE  IndexInv'
<1>0. TypeOK
  BY DEF IndexInv
<1>1. TypeOK'
  BY ClientsType DEF Clients
<1>2. /\ UNCHANGED <<active, pc, todo, batch, result, poisoned, step, fresh, old,
                     manifest, kept, interrupted>>
      /\ uploads' = uploads \ {u}
  BY DEF Upsert, workerVars, rebuildVars
<1>3. pc # "off" /\ active # Missing /\ step # "built"
  BY DEF IndexInv, ControlInv, TypeOK
<1>4. CASE UNCHANGED <<rows, past, reverted>>
  BY <1>1, <1>2, <1>4 DEF IndexInv, RowsInv, ControlInv, BatchShape, BatchCurrent,
     ManifestInv, BackupInv, IndexedSearchable, Holds, Finds, Hydrated, Stored
<1>5. CASE Applied(o) /\ Differs(u.doc, u.ver)
  <2>0. u.doc \in Docs /\ u.ver # 0
    BY <1>0, IndexAssumption DEF TypeOK, Versions
  <2> DEFINE d == u.doc
  <2>1. /\ rows' = [rows EXCEPT ![d] = [ver |-> u.ver, state |-> "pending"]]
        /\ past' = [past EXCEPT ![d] = past[d] \cup {u.ver}]
        /\ reverted' = IF u.ver \in past[d] THEN reverted \cup {d} ELSE reverted
    BY <1>5 DEF Upsert, NewState
  <2>2. /\ \A e \in Docs : e # d => rows'[e] = rows[e] /\ past'[e] = past[e]
        /\ rows'[d].ver = u.ver /\ rows'[d].state = "pending"
        /\ \A e \in Docs : past[e] \subseteq past'[e]
        /\ u.ver \in past'[d]
        /\ reverted \subseteq reverted'
        /\ u.ver \in past[d] => d \in reverted'
    BY <1>0, <2>0, <2>1 DEF TypeOK
  <2> HIDE <2>1 DEF d
  <2>3. d \in Docs
    BY <2>0 DEF d
  <2>4. \A e \in Docs : \A index : e # d /\ Holds(index, e) => Holds(index, e)'
    BY <2>2, HoldsIs, HoldsNext
  <2>5. Stored \subseteq Stored'
    BY <2>0, <2>2 DEF Stored
  <2>6. \A b \in batch : b.doc \in Docs
    BY <1>0 DEF TypeOK
  <2>7. \A m \in manifest : m.doc \in Docs
    BY <1>0 DEF TypeOK
  <2>8. RowsInv'
    BY <2>0, <2>2, <2>3 DEF IndexInv, RowsInv
  <2>9. ControlInv'
    BY <1>2, <1>3 DEF IndexInv, ControlInv
  <2>10. BatchShape'
    <3>1. \A b \in batch : b.doc \in Stored' /\ b.ver \in past'[b.doc]
      BY <2>2, <2>5, <2>6 DEF IndexInv, BatchShape
    <3> QED
      BY <1>2, <2>5, <3>1 DEF IndexInv, BatchShape
  <2>11. BatchCurrent'
    <3>1. \A b \in batch : b.doc = d /\ rows'[d].ver = b.ver => d \in reverted'
      BY <2>2, <2>6 DEF IndexInv, BatchShape
    <3>2. \A b \in batch : b.doc # d => rows'[b.doc] = rows[b.doc]
      BY <2>2, <2>6
    <3> QED
      BY <1>2, <2>2, <3>1, <3>2 DEF IndexInv, BatchCurrent
  <2>12. \A m \in manifest : m.ver \in past[m.doc]
    BY DEF IndexInv, ManifestInv
  <2>13. \A m \in manifest : m.doc = d /\ rows'[d].ver = m.ver => d \in reverted'
    BY <2>2, <2>12
  <2>14. \A m \in manifest : m.doc # d => rows'[m.doc] = rows[m.doc]
    BY <2>2, <2>7
  <2>15. ManifestInv'
    <3>1. \A m \in manifest : m.ver \in past'[m.doc]
      BY <2>2, <2>7, <2>12
    <3>2. ASSUME step \in {"installed", "mark"}, NEW m \in manifest, rows'[m.doc].ver = m.ver
          PROVE  Holds(active, m.doc)'
      <4>1. CASE m.doc = d
        BY <1>2, <2>3, <2>13, <3>2, <4>1, HoldsNext
      <4>2. CASE m.doc # d
        BY <1>2, <2>4, <2>7, <2>14, <3>2, <4>2 DEF IndexInv, ManifestInv
      <4> QED
        BY <4>1, <4>2
    <3>3. \A m \in manifest, b \in batch :
             m.doc = b.doc /\ m.doc \notin reverted' /\ rows'[m.doc].ver = m.ver => b.ver = m.ver
      BY <2>2, <2>13, <2>14 DEF IndexInv, ManifestInv
    <3> QED
      BY <1>2, <1>3, <3>1, <3>2, <3>3 DEF IndexInv, ManifestInv
  <2>16. BackupInv' /\ IndexedSearchable'
    BY <1>2, <1>3, <2>2, <2>3, <2>4 DEF IndexInv, BackupInv, IndexedSearchable
  <2> QED
    BY <1>1, <2>8, <2>9, <2>10, <2>11, <2>15, <2>16 DEF IndexInv
<1> QED
  BY <1>4, <1>5 DEF Upsert

-----------------------------------------------------------------------------
(* The index worker. *)

LEMMA ListStep ==
  ASSUME IndexInv, List
  PROVE  IndexInv'
<1>1. TypeOK'
  BY WorkerType DEF Worker
<1>2. /\ UNCHANGED <<rows, uploads, active, batch, result, step, fresh, old, manifest,
                     kept, past, reverted, interrupted>>
      /\ pc = "idle" /\ pc' = "row" /\ batch = {}
  BY DEF List, rebuildVars, historyVars, IndexInv, ControlInv
<1>3. todo' \subseteq Stored
  BY DEF List, Lowest, Pending, Stored, IndexInv, RowsInv
<1> QED
  BY <1>1, <1>2, <1>3 DEF IndexInv, RowsInv, ControlInv, BatchShape, BatchCurrent,
     ManifestInv, BackupInv, IndexedSearchable, Holds, Finds, Hydrated, Stored

LEMMA ReadRowStep ==
  ASSUME IndexInv, NEW d \in todo, ReadRow(d)
  PROVE  IndexInv'
<1>1. TypeOK'
  BY WorkerType DEF Worker
<1> DEFINE r == [doc |-> d, ver |-> rows[d].ver, att |-> 0]
<1>2. /\ UNCHANGED <<rows, uploads, active, result, step, fresh, old, manifest,
                     kept, past, reverted, interrupted>>
      /\ pc = "row" /\ pc' = "attachments"
      /\ todo' = todo \ {d} /\ batch' = batch \cup {r}
  BY DEF ReadRow, RowOf, rebuildVars, historyVars
<1>3. d \in Docs /\ d \in Stored /\ rows[d].ver \in past[d] /\ \A b \in batch : b.doc # d
  BY DEF IndexInv, BatchShape, RowsInv, Stored
<1>4. r.doc = d /\ r.ver = rows[d].ver /\ r.att = 0
  OBVIOUS
<1> HIDE DEF r
<1>5. RowsInv' /\ ControlInv' /\ BackupInv' /\ IndexedSearchable'
  BY <1>2 DEF IndexInv, RowsInv, ControlInv, BackupInv, IndexedSearchable, Holds, Finds,
     Hydrated, Stored
<1>6. BatchShape'
  BY <1>2, <1>3, <1>4 DEF IndexInv, BatchShape, Stored
<1>7. BatchCurrent'
  BY <1>2, <1>3, <1>4 DEF IndexInv, BatchCurrent
<1>8. ManifestInv'
  <2>1. \A m \in manifest, b \in batch' :
          m.doc = b.doc /\ m.doc \notin reverted /\ rows[m.doc].ver = m.ver => b.ver = m.ver
    BY <1>2, <1>4 DEF IndexInv, ManifestInv
  <2> QED
    BY <1>2, <2>1 DEF IndexInv, ManifestInv, Holds, Finds, Hydrated, Stored
<1> QED
  BY <1>1, <1>5, <1>6, <1>7, <1>8 DEF IndexInv

LEMMA ReadAttachmentsStep ==
  ASSUME IndexInv, NEW a \in batch, ReadAttachments(a)
  PROVE  IndexInv'
<1>1. TypeOK'
  BY WorkerType DEF Worker
<1>0. TypeOK
  BY DEF IndexInv
<1> DEFINE r == [a EXCEPT !.att = rows[a.doc].ver]
<1>2. /\ UNCHANGED <<rows, uploads, active, todo, result, step, fresh, old, manifest,
                     kept, past, reverted, interrupted>>
      /\ pc = "attachments" /\ pc' \in {"write", "row"}
      /\ batch' = (batch \ {a}) \cup {r} /\ a.att = 0
  BY DEF ReadAttachments, AttachmentsOf, rebuildVars, historyVars
<1>3. /\ a.doc \in Docs /\ a.doc \in Stored /\ a.ver \in past[a.doc] /\ a.doc \notin todo
      /\ rows[a.doc].ver # 0
      /\ \A b \in batch \ {a} : b.doc # a.doc /\ b.att # 0
  BY <1>2 DEF IndexInv, BatchShape, Stored
<1>4. r.doc = a.doc /\ r.ver = a.ver /\ r.att = rows[a.doc].ver
  BY <1>0 DEF TypeOK
<1> HIDE DEF r
<1>5. RowsInv' /\ ControlInv' /\ BackupInv' /\ IndexedSearchable'
  BY <1>2 DEF IndexInv, RowsInv, ControlInv, BackupInv, IndexedSearchable, Holds, Finds,
     Hydrated, Stored
<1>6. BatchShape'
  BY <1>2, <1>3, <1>4 DEF IndexInv, BatchShape, Stored
<1>7. BatchCurrent'
  BY <1>2, <1>3, <1>4 DEF IndexInv, BatchCurrent
<1>8. ManifestInv'
  <2>1. \A m \in manifest, b \in batch' :
          m.doc = b.doc /\ m.doc \notin reverted /\ rows[m.doc].ver = m.ver => b.ver = m.ver
    BY <1>2, <1>4 DEF IndexInv, ManifestInv
  <2> QED
    BY <1>2, <2>1 DEF IndexInv, ManifestInv, Holds, Finds, Hydrated, Stored
<1> QED
  BY <1>1, <1>5, <1>6, <1>7, <1>8 DEF IndexInv

\* A drain that ends gives up its batch and changes no row and no index.
LEMMA DrainEnds ==
  ASSUME IndexInv, TypeOK', Idle,
         UNCHANGED <<rows, active, step, fresh, old, manifest, kept, past, reverted,
                     interrupted>>,
         UNCHANGED uploads, pc # "off"
  PROVE  IndexInv'
<1>1. pc' = "idle" /\ todo' = {} /\ batch' = {}
  BY DEF Idle
<1> QED
  BY <1>1 DEF IndexInv, RowsInv, ControlInv, BatchShape, BatchCurrent,
     ManifestInv, BackupInv, IndexedSearchable, Holds, Finds, Hydrated, Stored

LEMMA ReadFailsStep ==
  ASSUME IndexInv, ReadFails
  PROVE  IndexInv'
<1>1. TypeOK'
  BY WorkerType DEF Worker
<1>2. UNCHANGED <<rows, uploads, active, step, fresh, old, manifest, kept, past, reverted,
                  interrupted>> /\ pc # "off" /\ Idle
  BY DEF ReadFails, rebuildVars, historyVars
<1> QED
  BY <1>1, <1>2, DrainEnds

\* What an index held and was not written differently since the row was read, it holds
\* after the batch.
LEMMA BatchHolds ==
  ASSUME IndexInv, pc = "write", NEW o,
         active' = IF Applied(o) THEN WithBatch(active, batch) ELSE active,
         UNCHANGED <<rows, reverted, manifest>>
  PROVE  /\ active' # Missing
         /\ \A d \in Docs : rows[d].state = "indexed" /\ Holds(active, d) => Holds(active, d)'
         /\ \A m \in manifest : rows[m.doc].ver = m.ver /\ Holds(active, m.doc)
                                  => Holds(active, m.doc)'
         /\ Applied(o) => \A b \in batch : active'[b.doc] = Document(b)
<1>0. TypeOK /\ active \in Index /\ active # Missing /\ batch \in SUBSET Read
  BY TypeSplit DEF IndexInv
<1>1. \A x, y \in batch : x.doc = y.doc => x = y
  BY DEF IndexInv, BatchShape
<1>2. active' # Missing
  BY <1>0, BatchType
<1>3. Applied(o) => \A b \in batch : active'[b.doc] = Document(b)
  BY <1>0, <1>1, WithBatchIs
<1>4. ASSUME NEW d \in Docs, Holds(active, d),
             \A b \in batch : b.doc = d /\ d \notin reverted => rows[d].ver = b.ver
      PROVE  Holds(active, d)'
  <2>1. CASE d \in reverted \/ ~Applied(o)
    BY <1>2, <1>4, <2>1, HoldsIs, HoldsNext
  <2>2. CASE Applied(o) /\ d \notin reverted /\ \A b \in batch : b.doc # d
    <3>1. active'[d] = active[d]
      BY <1>0, <2>2, WithBatchIs
    <3> QED
      BY <1>2, <1>4, <2>2, <3>1, HoldsIs, HoldsNext
  <2>3. ASSUME NEW b \in batch, b.doc = d, Applied(o), d \notin reverted
        PROVE  Holds(active, d)'
    <3>1. rows[d].ver = b.ver /\ b.att = b.ver
      BY <1>4, <2>3 DEF IndexInv, BatchShape, BatchCurrent
    <3>2. active'[d] = [body |-> b.ver, att |-> b.att] /\ rows[d].ver # 0
      BY <1>3, <2>3 DEF Document, IndexInv, BatchShape, Stored
    <3> QED
      BY <1>2, <3>1, <3>2, HoldsNext
  <2> QED
    BY <2>1, <2>2, <2>3
<1>5. \A d \in Docs : rows[d].state = "indexed" /\ Holds(active, d) => Holds(active, d)'
  BY <1>4 DEF IndexInv, BatchCurrent
<1>6. \A m \in manifest : m.doc \in Docs
  BY <1>0 DEF TypeOK
<1>7. \A m \in manifest : rows[m.doc].ver = m.ver /\ Holds(active, m.doc)
                            => Holds(active, m.doc)'
  BY <1>4, <1>6 DEF IndexInv, ManifestInv
<1> QED
  BY <1>2, <1>3, <1>5, <1>7

\* What the index holds after a batch, it holds for the rows, the manifest and the backups.
LEMMA BatchKeeps ==
  ASSUME IndexInv, pc = "write", NEW o,
         active' = IF Applied(o) THEN WithBatch(active, batch) ELSE active,
         UNCHANGED <<rows, uploads, step, fresh, old, manifest, kept, past, reverted,
                     interrupted>>,
         batch' \subseteq batch
  PROVE  RowsInv' /\ ManifestInv' /\ BackupInv' /\ IndexedSearchable'
<1>1. /\ active' # Missing /\ step # "built"
      /\ \A d \in Docs : rows[d].state = "indexed" /\ Holds(active, d) => Holds(active, d)'
      /\ \A m \in manifest : rows[m.doc].ver = m.ver /\ Holds(active, m.doc)
                               => Holds(active, m.doc)'
  BY BatchHolds DEF IndexInv, ControlInv
<1>2. \A d \in Docs : \A index : Holds(index, d)' <=> Holds(index, d)
  BY HoldsIs, HoldsNext
<1>3. \A m \in manifest : m.doc \in Docs
  BY DEF IndexInv, TypeOK
<1>4. RowsInv'
  BY DEF IndexInv, RowsInv
<1>5. ManifestInv'
  BY <1>1, <1>3 DEF IndexInv, ManifestInv
<1>6. BackupInv'
  <2>1. ASSUME NEW d \in Docs, rows[d].state = "indexed"
        PROVE  \E index \in (kept \cup {active, old})' : Holds(index, d)'
    <3>1. PICK index \in kept \cup {active, old} : Holds(index, d)
      BY <2>1 DEF IndexInv, BackupInv
    <3>2. CASE index = active
      BY <1>1, <2>1, <3>1, <3>2
    <3>3. CASE index \in kept \cup {old}
      BY <1>2, <3>1, <3>3
    <3> QED
      BY <3>1, <3>2, <3>3
  <2> QED
    BY <1>1, <2>1 DEF BackupInv
<1>7. IndexedSearchable'
  BY <1>1 DEF IndexInv, IndexedSearchable
<1> QED
  BY <1>4, <1>5, <1>6, <1>7

LEMMA IndexBatchStep ==
  ASSUME IndexInv, NEW o \in Outcome, IndexBatch(o)
  PROVE  IndexInv'
<1>1. TypeOK'
  BY WorkerType DEF Worker
<1>2. /\ UNCHANGED <<rows, uploads, todo, batch, step, fresh, old, manifest, kept, past,
                     reverted, interrupted>>
      /\ pc = "write" /\ pc' = "mark" /\ result' \in {"indexed", "error"}
      /\ active' = (IF Applied(o) THEN WithBatch(active, batch) ELSE active)
      /\ result' = "indexed" => Applied(o)
  BY DEF IndexBatch, FailedState, Applied, rebuildVars, historyVars
<1>3. RowsInv' /\ ManifestInv' /\ BackupInv' /\ IndexedSearchable'
  BY <1>2, BatchKeeps
<1>4. active' # Missing /\ (Applied(o) => \A b \in batch : active'[b.doc] = Document(b))
  BY <1>2, BatchHolds
<1>5. ControlInv'
  BY <1>2, <1>4 DEF IndexInv, ControlInv
<1>6. BatchShape'
  BY <1>2 DEF IndexInv, BatchShape, Stored
<1>7. BatchCurrent'
  BY <1>2, <1>4 DEF IndexInv, BatchCurrent, Document
<1> QED
  BY <1>1, <1>3, <1>5, <1>6, <1>7 DEF IndexInv

LEMMA IndexPanicsStep ==
  ASSUME IndexInv, NEW o \in Outcome, IndexPanics(o)
  PROVE  IndexInv'
<1>1. TypeOK'
  BY WorkerType DEF Worker
<1>2. /\ UNCHANGED <<rows, uploads, step, fresh, old, manifest, kept, past,
                     reverted, interrupted>>
      /\ pc = "write" /\ pc' = "idle" /\ todo' = {} /\ batch' = {}
      /\ active' = (IF Applied(o) THEN WithBatch(active, batch) ELSE active)
  BY DEF IndexPanics, Idle, rebuildVars, historyVars
<1>3. RowsInv' /\ ManifestInv' /\ BackupInv' /\ IndexedSearchable'
  BY <1>2, BatchKeeps
<1>4. active' # Missing
  BY <1>2, BatchHolds
<1> QED
  BY <1>1, <1>2, <1>3, <1>4 DEF IndexInv, ControlInv, BatchShape, BatchCurrent

LEMMA MarkStep ==
  ASSUME IndexInv, NEW a \in batch, NEW o \in Outcome, Mark(a, o)
  PROVE  IndexInv'
<1>0. TypeOK /\ a.doc \in Docs
  BY DEF IndexInv, TypeOK
<1>1. TypeOK'
  BY WorkerType DEF Worker
<1>2. /\ UNCHANGED <<uploads, active, step, fresh, old, manifest, kept, past,
                     reverted, interrupted>>
      /\ pc = "mark" /\ active # Missing
      /\ Idle \/ (batch' = batch \ {a} /\ UNCHANGED <<pc, todo, result>>)
  BY DEF Mark, rebuildVars, historyVars, IndexInv, TypeOK
<1>3. CASE UNCHANGED rows
  <2>1. CASE Idle
    BY <1>1, <1>2, <1>3, <2>1, DrainEnds
  <2>2. CASE batch' = batch \ {a} /\ UNCHANGED <<pc, todo, result>>
    BY <1>1, <1>2, <1>3, <2>2 DEF IndexInv, RowsInv, ControlInv, BatchShape, BatchCurrent,
       ManifestInv, BackupInv, IndexedSearchable, Holds, Finds, Hydrated, Stored
  <2> QED
    BY <1>2, <2>1, <2>2
<1>4. CASE SameVersion(a) /\ rows' = [rows EXCEPT ![a.doc].state = result]
  <2>1. /\ \A e \in Docs : rows'[e].ver = rows[e].ver
        /\ \A e \in Docs : e # a.doc => rows'[e] = rows[e]
        /\ rows'[a.doc].state = result /\ result \in {"indexed", "error"}
        /\ rows[a.doc].ver = a.ver /\ rows[a.doc].ver # 0
    BY <1>0, <1>2, <1>4 DEF SameVersion, TypeOK, IndexInv, ControlInv, RowsInv
  <2>2. \A e \in Docs : \A index : Holds(index, e)' <=> Holds(index, e)
    BY <1>2, <2>1, HoldsIs, HoldsNext
  <2>3. Stored' = Stored
    BY <2>1 DEF Stored
  <2>4. rows'[a.doc].state = "indexed" => Holds(active, a.doc)'
    <3>1. CASE a.doc \in reverted
      BY <1>0, <1>2, <3>1, HoldsNext
    <3>2. CASE a.doc \notin reverted /\ result = "indexed"
      <4>1. active[a.doc] = [body |-> a.ver, att |-> a.att]
        BY <1>2, <3>2 DEF IndexInv, BatchCurrent, Document
      <4>2. a.att = a.ver
        BY <1>2, <2>1, <3>2 DEF IndexInv, BatchCurrent, BatchShape
      <4> QED
        BY <1>0, <1>2, <2>1, <4>1, <4>2, HoldsNext
    <3> QED
      BY <2>1, <3>1, <3>2
  <2>5. \A b \in batch : b.doc \in Docs /\ (b.doc = a.doc => b = a)
    BY <1>0 DEF TypeOK, IndexInv, BatchShape
  <2>6. \A m \in manifest : m.doc \in Docs
    BY <1>0 DEF TypeOK
  <2>7. batch' \subseteq batch /\ (batch' # {} => pc' = pc /\ todo' = todo /\ result' = result)
        /\ a \notin batch' /\ (batch' = batch \ {a} \/ (pc' = "idle" /\ todo' = {} /\ batch' = {}))
        /\ pc' # "off" /\ todo' \subseteq todo
    BY <1>2 DEF Idle
  <2>8. RowsInv'
    BY <1>0, <1>2, <2>1 DEF IndexInv, RowsInv
  <2>9. ControlInv'
    BY <1>2, <2>7 DEF IndexInv, ControlInv, Idle
  <2>10. BatchShape'
    BY <1>2, <2>3, <2>7 DEF IndexInv, BatchShape
  <2>11. BatchCurrent'
    <3>1. \A b \in batch' : b \in batch /\ rows'[b.doc] = rows[b.doc]
      BY <2>1, <2>5, <2>7
    <3> QED
      BY <1>2, <2>7, <3>1 DEF IndexInv, BatchCurrent
  <2>12. ManifestInv'
    <3>1. ~(step = "built" \/ (step = "moved" /\ active = Missing))
      BY <1>2 DEF IndexInv, ControlInv
    <3>2. \A m \in manifest : rows'[m.doc].ver = rows[m.doc].ver
      BY <2>1, <2>6
    <3>3. \A m \in manifest, b \in batch' :
             m.doc = b.doc /\ m.doc \notin reverted /\ rows[m.doc].ver = m.ver => b.ver = m.ver
      BY <2>7 DEF IndexInv, ManifestInv
    <3> QED
      BY <1>2, <2>2, <2>6, <3>1, <3>2, <3>3 DEF IndexInv, ManifestInv
  <2>13. BackupInv' /\ IndexedSearchable'
    BY <1>2, <2>1, <2>2, <2>4 DEF IndexInv, BackupInv, IndexedSearchable
  <2> QED
    BY <1>1, <2>8, <2>9, <2>10, <2>11, <2>12, <2>13 DEF IndexInv
<1> QED
  BY <1>3, <1>4 DEF Mark

-----------------------------------------------------------------------------
(* mailindex starts and stops, and the rebuild. *)

LEMMA StartStep ==
  ASSUME IndexInv, Start
  PROVE  IndexInv'
<1>0. TypeOK
  BY DEF IndexInv
<1>1. TypeOK'
  BY RebuildType
<1>2. /\ UNCHANGED <<rows, uploads, step, fresh, old, manifest, kept, past,
                     reverted, interrupted>>
      /\ pc = "off" /\ pc' = "idle" /\ step # "built" /\ todo' = {} /\ batch' = {}
      /\ active' # Missing /\ (active # Missing => active' = active)
  BY EmptyIndex DEF Start, Idle, rebuildVars, historyVars
<1>3. \A d \in Docs : \A index : Holds(index, d)' <=> Holds(index, d)
  BY <1>2, HoldsIs, HoldsNext
<1>4. \A d \in Docs : Holds(active, d) => Holds(active, d)'
  BY <1>2, HoldsIs, HoldsNext
<1>5. \A m \in manifest : m.doc \in Docs
  BY <1>0 DEF TypeOK
<1>6. ManifestInv'
  BY <1>2, <1>4, <1>5 DEF IndexInv, ManifestInv
<1>7. BackupInv'
  <2>1. ASSUME NEW d \in Docs, rows[d].state = "indexed"
        PROVE  \E index \in (kept \cup {active, old})' : Holds(index, d)'
    <3>1. PICK index \in kept \cup {active, old} : Holds(index, d)
      BY <2>1 DEF IndexInv, BackupInv
    <3>2. CASE index = active
      BY <1>4, <2>1, <3>1, <3>2
    <3>3. CASE index \in kept \cup {old}
      BY <1>2, <1>3, <3>1, <3>3
    <3> QED
      BY <3>1, <3>2, <3>3
  <2> QED
    BY <1>2, <2>1 DEF BackupInv
<1>8. IndexedSearchable'
  BY <1>2, <1>4 DEF IndexInv, IndexedSearchable
<1>9. RowsInv' /\ ControlInv' /\ BatchShape' /\ BatchCurrent'
  BY <1>2 DEF IndexInv, RowsInv, ControlInv, BatchShape, BatchCurrent
<1> QED
  BY <1>1, <1>6, <1>7, <1>8, <1>9 DEF IndexInv

LEMMA StopStep ==
  ASSUME IndexInv, Stop
  PROVE  IndexInv'
<1>1. TypeOK'
  BY RebuildType
<1>2. /\ UNCHANGED <<rows, active, step, fresh, old, manifest, kept, past,
                     reverted, interrupted>>
      /\ pc # "off" /\ pc' = "off" /\ todo' = {} /\ batch' = {} /\ uploads' = {}
  BY DEF Stop, rebuildVars, historyVars
<1>3. step # "built" /\ active # Missing
  BY <1>2 DEF IndexInv, ControlInv, TypeOK
<1> QED
  BY <1>1, <1>2, <1>3 DEF IndexInv, RowsInv, ControlInv, BatchShape, BatchCurrent,
     ManifestInv, BackupInv, IndexedSearchable, Holds, Finds, Hydrated, Stored

LEMMA BuildStep ==
  ASSUME IndexInv, Build
  PROVE  IndexInv'
<1>0. TypeOK
  BY DEF IndexInv
<1>1. TypeOK'
  BY RebuildType
<1>2. /\ UNCHANGED <<rows, uploads, active, pc, todo, batch, result, old, kept, past,
                     reverted, interrupted>>
      /\ step = "off" /\ step' = "built" /\ pc = "off"
      /\ fresh' = WithBatch(Empty, Corpus)
      /\ manifest' = {[doc |-> b.doc, ver |-> b.ver] : b \in Corpus}
      /\ batch = {} /\ old = Missing
  BY DEF Build, workerVars, historyVars, IndexInv, ControlInv
<1>3. \A d \in Docs : \A index : Holds(index, d)' <=> Holds(index, d)
  BY <1>2, HoldsIs, HoldsNext
<1>4. /\ fresh' # Missing
      /\ \A x \in Corpus : /\ fresh'[x.doc] = [body |-> x.ver, att |-> x.ver]
                           /\ x.doc \in Docs /\ rows[x.doc].ver = x.ver /\ rows[x.doc].ver # 0
  BY <1>0, <1>2, CorpusIs, WithBatchIs, EmptyIndex DEF Document, Stored
<1>5. \A d \in Stored : \E x \in Corpus : x.doc = d
  BY <1>0, CorpusIs
<1>6. ASSUME NEW d \in Stored PROVE Holds(fresh, d)'
  <2>1. PICK x \in Corpus : x.doc = d
    BY <1>5
  <2>2. /\ d \in Docs /\ rows'[d].ver = x.ver /\ rows'[d].ver # 0
        /\ fresh'[d].body = x.ver /\ fresh'[d].att = x.ver
    <3>1. fresh'[d] = [body |-> x.ver, att |-> x.ver]
      BY <1>4, <2>1
    <3>2. d \in Docs /\ rows'[d].ver = x.ver /\ rows'[d].ver # 0
      BY <1>2, <1>4, <2>1
    <3> QED
      BY <3>1, <3>2
  <2> QED
    BY <1>4, <2>2, HoldsNext
<1>7. \A m \in manifest' : /\ fresh'[m.doc] = [body |-> m.ver, att |-> m.ver]
                           /\ m.ver \in past[m.doc]
  <2>1. \A x \in Corpus : x.ver \in past[x.doc]
    BY <1>4 DEF IndexInv, RowsInv
  <2>2. \A m \in manifest' : \E x \in Corpus : m.doc = x.doc /\ m.ver = x.ver
    BY <1>2
  <2> QED
    BY <1>4, <2>1, <2>2
<1>8. Stored' = Stored
  BY <1>2 DEF Stored
<1>9. ManifestInv'
  BY <1>2, <1>6, <1>7, <1>8 DEF ManifestInv
<1>10. BackupInv' /\ IndexedSearchable'
  BY <1>2, <1>3 DEF IndexInv, BackupInv, IndexedSearchable
<1>11. RowsInv' /\ ControlInv' /\ BatchShape' /\ BatchCurrent'
  BY <1>2, <1>4 DEF IndexInv, RowsInv, ControlInv, BatchShape, BatchCurrent
<1> QED
  BY <1>1, <1>9, <1>10, <1>11 DEF IndexInv

\* The directories move from name to name: what some directory held, one still holds.
LEMMA MoveAwayStep ==
  ASSUME IndexInv, MoveAway
  PROVE  IndexInv'
<1>0. TypeOK
  BY DEF IndexInv
<1>1. TypeOK'
  BY RebuildType DEF Rebuild
<1>2. /\ UNCHANGED <<rows, uploads, pc, todo, batch, result, fresh, manifest, kept, past,
                     reverted, interrupted>>
      /\ step = "built" /\ step' = "moved" /\ old' = active /\ active' = Missing
      /\ pc = "off" /\ batch = {} /\ old = Missing /\ fresh # Missing
  BY DEF MoveAway, workerVars, historyVars, IndexInv, ControlInv
<1>3. \A d \in Docs : \A index : Holds(index, d)' <=> Holds(index, d)
  BY <1>2, HoldsIs, HoldsNext
<1>4. Stored' = Stored /\ Stored \subseteq Docs
  BY <1>2 DEF Stored
<1>5. ManifestInv'
  <2>1. \A d \in Stored : Holds(fresh, d)'
    BY <1>2, <1>3, <1>4 DEF IndexInv, ManifestInv
  <2> QED
    BY <1>2, <1>4, <2>1 DEF IndexInv, ManifestInv
<1>6. ASSUME NEW d \in Docs, rows[d].state = "indexed", ~interrupted
      PROVE  Holds(old, d)'
  BY <1>2, <1>3, <1>6 DEF IndexInv, IndexedSearchable
<1>7. ASSUME NEW d \in Docs, rows[d].state = "indexed"
      PROVE  \E index \in (kept \cup {active, old})' : Holds(index, d)'
  <2>1. PICK index \in kept \cup {active, old} : Holds(index, d)
    BY <1>7 DEF IndexInv, BackupInv
  <2> QED
    BY <1>2, <1>3, <2>1
<1>8. BackupInv' /\ IndexedSearchable'
  BY <1>2, <1>6, <1>7 DEF BackupInv, IndexedSearchable
<1>9. RowsInv' /\ ControlInv' /\ BatchShape' /\ BatchCurrent'
  BY <1>2 DEF IndexInv, RowsInv, ControlInv, BatchShape, BatchCurrent, Stored
<1> QED
  BY <1>1, <1>5, <1>8, <1>9 DEF IndexInv

LEMMA InstallStep ==
  ASSUME IndexInv, Install
  PROVE  IndexInv'
<1>0. TypeOK
  BY DEF IndexInv
<1>1. TypeOK'
  BY RebuildType DEF Rebuild
<1>2. /\ UNCHANGED <<rows, uploads, pc, todo, batch, result, old, manifest, kept, past,
                     reverted>>
      /\ step = "moved" /\ step' = "installed" /\ active = Missing /\ active' = fresh
      /\ interrupted' = FALSE
      /\ pc = "off" /\ batch = {} /\ todo = {} /\ fresh # Missing
  BY <1>0 DEF Install, workerVars, IndexInv, ControlInv, TypeOK
<1>3. \A d \in Docs : \A index : Holds(index, d)' <=> Holds(index, d)
  BY <1>2, HoldsIs, HoldsNext
<1>4. \A d \in Docs : rows[d].state = "indexed" => Holds(active, d)'
  BY <1>2, <1>3 DEF IndexInv, ManifestInv, RowsInv, Stored
<1>5. ManifestInv'
  <2>1. ASSUME NEW m \in manifest PROVE m.doc \in Docs /\ m.ver \in past[m.doc] /\ m.ver # 0
    <3>1. m.doc \in Docs /\ m.ver \in past[m.doc]
      BY <1>0 DEF TypeOK, IndexInv, ManifestInv
    <3>2. m.ver \in Versions
      BY <1>0, <3>1 DEF TypeOK
    <3> QED
      BY <3>1, <3>2, IndexAssumption DEF Versions
  <2>2. \A m \in manifest : fresh[m.doc] = [body |-> m.ver, att |-> m.ver]
    BY <1>2 DEF IndexInv, ManifestInv
  <2>3. ASSUME NEW m \in manifest, rows[m.doc].ver = m.ver PROVE Holds(active, m.doc)'
    <3>1. /\ m.doc \in Docs /\ rows'[m.doc].ver = m.ver /\ rows'[m.doc].ver # 0
          /\ active'[m.doc].body = m.ver /\ active'[m.doc].att = m.ver
      <4>1. active'[m.doc] = [body |-> m.ver, att |-> m.ver]
        BY <1>2, <2>2
      <4>2. m.doc \in Docs /\ rows'[m.doc].ver = m.ver /\ rows'[m.doc].ver # 0
        BY <1>2, <2>1, <2>3
      <4> QED
        BY <4>1, <4>2
    <3> QED
      BY <1>2, <3>1, HoldsNext
  <2> QED
    BY <1>2, <2>1, <2>3 DEF ManifestInv
<1>6. BackupInv' /\ IndexedSearchable'
  BY <1>2, <1>4 DEF BackupInv, IndexedSearchable
<1>7. RowsInv' /\ ControlInv' /\ BatchShape' /\ BatchCurrent'
  BY <1>2 DEF IndexInv, RowsInv, ControlInv, BatchShape, BatchCurrent
<1> QED
  BY <1>1, <1>5, <1>6, <1>7 DEF IndexInv

\* A rebuild that ends leaves no manifest; what the active index, or a backup, is to hold
\* is all that is left to show.
LEMMA RebuildEnds ==
  ASSUME IndexInv, TypeOK', EndRebuild,
         UNCHANGED <<rows, uploads, pc, todo, batch, result, past, reverted>>,
         batch # {} => active' = active,
         \A d \in Docs : rows[d].state = "indexed" =>
            \E index \in kept' \cup {active'} : Holds(index, d),
         ~interrupted' => \A d \in Docs : rows[d].state = "indexed" => Holds(active', d)
  PROVE  IndexInv'
<1>2. step' = "off" /\ fresh' = Missing /\ old' = Missing /\ manifest' = {}
  BY DEF EndRebuild
<1>3. \A d \in Docs : \A index : Holds(index, d)' <=> Holds(index, d)
  BY HoldsIs, HoldsNext
<1>4. Stored' = Stored
  BY DEF Stored
<1>5. RowsInv' /\ ControlInv' /\ BatchShape' /\ BatchCurrent' /\ ManifestInv'
  BY <1>2, <1>4 DEF IndexInv, RowsInv, ControlInv, BatchShape, BatchCurrent, ManifestInv
<1>6. BackupInv'
  BY <1>2, <1>3 DEF BackupInv
<1>7. IndexedSearchable'
  BY <1>3 DEF IndexedSearchable
<1> QED
  BY <1>5, <1>6, <1>7 DEF IndexInv

LEMMA InstallFailsStep ==
  ASSUME IndexInv, InstallFails
  PROVE  IndexInv'
<1>1. TypeOK'
  BY RebuildType DEF Rebuild
<1>2. /\ UNCHANGED <<rows, uploads, pc, todo, batch, result, kept, past, reverted,
                     interrupted>>
      /\ step = "moved" /\ active = Missing /\ active' = old /\ EndRebuild
      /\ batch = {}
  BY DEF InstallFails, workerVars, historyVars, IndexInv, ControlInv, TypeOK
<1>3. ASSUME NEW d \in Docs, rows[d].state = "indexed"
      PROVE  \E index \in kept' \cup {active'} : Holds(index, d)
  <2>1. PICK index \in kept \cup {active, old} : Holds(index, d)
    BY <1>3 DEF IndexInv, BackupInv
  <2>2. CASE index = active
    BY <1>2, <2>1, <2>2, HoldsIs
  <2> QED
    BY <1>2, <2>1, <2>2
<1>4. ~interrupted' => \A d \in Docs : rows[d].state = "indexed" => Holds(active', d)
  BY <1>2 DEF IndexInv, BackupInv
<1> QED
  BY <1>1, <1>2, <1>3, <1>4, RebuildEnds

\* The old index is among the backups, and so is what it held.
LEMMA KeptHolds ==
  ASSUME IndexInv, NEW d \in Docs, rows[d].state = "indexed"
  PROVE  \E index \in Kept \cup {active} : Holds(index, d)
<1>1. PICK index \in kept \cup {active, old} : Holds(index, d)
  BY DEF IndexInv, BackupInv
<1>2. CASE index = old /\ old = Missing
  BY <1>1, <1>2, HoldsIs
<1> QED
  BY <1>1, <1>2 DEF Kept

LEMMA RestoreFailsStep ==
  ASSUME IndexInv, RestoreFails
  PROVE  IndexInv'
<1>1. TypeOK'
  BY RebuildType DEF Rebuild
<1>2. /\ UNCHANGED <<rows, uploads, active, pc, todo, batch, result, past, reverted>>
      /\ kept' = Kept /\ interrupted' = TRUE /\ EndRebuild
  BY DEF RestoreFails, workerVars
<1> QED
  BY <1>1, <1>2, KeptHolds, RebuildEnds

LEMMA RebuildStopsStep ==
  ASSUME IndexInv, RebuildStops
  PROVE  IndexInv'
<1>1. TypeOK'
  BY RebuildType
<1>2. /\ UNCHANGED <<rows, uploads, active, pc, todo, batch, result, past, reverted>>
      /\ kept' = (IF step = "moved" THEN Kept ELSE kept)
      /\ interrupted' = (interrupted \/ step = "moved")
      /\ EndRebuild /\ step # "off"
  BY DEF RebuildStops, workerVars
<1>3. ASSUME NEW d \in Docs, rows[d].state = "indexed"
      PROVE  \E index \in kept' \cup {active'} : Holds(index, d)
  <2>1. CASE step = "moved"
    BY <1>2, <1>3, <2>1, KeptHolds
  <2>2. CASE step = "built"
    <3>1. old = Missing /\ kept' = kept
      BY <1>2, <2>2 DEF IndexInv, ControlInv
    <3> QED
      BY <1>2, <1>3, <3>1, KeptHolds DEF Kept
  <2>3. CASE step \in {"installed", "mark"}
    BY <1>2, <1>3, <2>3 DEF IndexInv, ControlInv, IndexedSearchable
  <2> QED
    BY <1>2, <2>1, <2>2, <2>3 DEF IndexInv, TypeOK
<1>4. ~interrupted' => \A d \in Docs : rows[d].state = "indexed" => Holds(active', d)
  BY <1>2 DEF IndexInv, IndexedSearchable
<1> QED
  BY <1>1, <1>2, <1>3, <1>4, RebuildEnds

LEMMA RemoveBackupStep ==
  ASSUME IndexInv, NEW o \in Outcome, RemoveBackup(o)
  PROVE  IndexInv'
<1>1. TypeOK'
  BY RebuildType DEF Rebuild
<1>2. /\ UNCHANGED <<rows, uploads, active, pc, todo, batch, result, kept, past, reverted,
                     interrupted>>
      /\ step = "installed" /\ ~interrupted /\ active # Missing
  BY DEF RemoveBackup, workerVars, historyVars, IndexInv, ControlInv
<1>3. \A d \in Docs : rows[d].state = "indexed" => Holds(active, d)
  BY <1>2 DEF IndexInv, IndexedSearchable
<1>4. CASE EndRebuild
  BY <1>1, <1>2, <1>3, <1>4, RebuildEnds
<1>5. CASE step' = "mark" /\ old' = Missing /\ UNCHANGED <<fresh, manifest>>
  <2>1. \A d \in Docs : \A index : Holds(index, d)' <=> Holds(index, d)
    BY <1>2, HoldsIs, HoldsNext
  <2>2. \A m \in manifest : m.doc \in Docs
    BY DEF IndexInv, TypeOK
  <2>3. ManifestInv'
    BY <1>2, <1>5, <2>1, <2>2 DEF IndexInv, ManifestInv
  <2>4. BackupInv' /\ IndexedSearchable'
    BY <1>2, <1>3, <1>5, <2>1 DEF BackupInv, IndexedSearchable
  <2>5. RowsInv' /\ ControlInv' /\ BatchShape' /\ BatchCurrent'
    BY <1>2, <1>5 DEF IndexInv, RowsInv, ControlInv, BatchShape, BatchCurrent, Stored
  <2> QED
    BY <1>1, <2>3, <2>4, <2>5 DEF IndexInv
<1> QED
  BY <1>4, <1>5 DEF RemoveBackup

LEMMA MarkVersionsStep ==
  ASSUME IndexInv, NEW o \in Outcome, MarkVersions(o)
  PROVE  IndexInv'
<1>0. TypeOK
  BY DEF IndexInv
<1>1. TypeOK'
  BY RebuildType DEF Rebuild
<1>2. /\ UNCHANGED <<uploads, active, pc, todo, batch, result, kept, past, reverted,
                     interrupted>>
      /\ step = "mark" /\ ~interrupted /\ active # Missing
  BY DEF MarkVersions, workerVars, historyVars, IndexInv, ControlInv
<1>3. PICK now \in SUBSET manifest :
         /\ rows' = [d \in Docs |->
                       IF Applied(o) /\ \E m \in now : m.doc = d /\ SameHash(m)
                       THEN [rows[d] EXCEPT !.state = "indexed"] ELSE rows[d]]
         /\ EndRebuild \/ (manifest' = manifest \ now /\ UNCHANGED <<step, fresh, old>>)
  <2> DEFINE n == {m \in manifest : m.doc \in Lowest(BatchSize, {x.doc : x \in manifest})}
  <2>1. n \in SUBSET manifest
    OBVIOUS
  <2>2. /\ rows' = [d \in Docs |->
                       IF Applied(o) /\ \E m \in n : m.doc = d /\ SameHash(m)
                       THEN [rows[d] EXCEPT !.state = "indexed"] ELSE rows[d]]
        /\ EndRebuild \/ (manifest' = manifest \ n /\ UNCHANGED <<step, fresh, old>>)
    BY DEF MarkVersions
  <2> HIDE DEF n
  <2> QED
    BY <2>1, <2>2
\* A row changes only to indexed, and only while it has a version of the manifest.
<1>4. \A d \in Docs :
        /\ rows'[d].ver = rows[d].ver
        /\ \/ rows'[d] = rows[d]
           \/ /\ rows'[d].state = "indexed"
              /\ \E m \in manifest : m.doc = d /\ m.ver = rows[d].ver
  BY <1>0, <1>3 DEF TypeOK, SameHash
<1>5. \A d \in Docs : \A index : Holds(index, d)' <=> Holds(index, d)
  BY <1>2, <1>4, HoldsIs, HoldsNext
<1>6. Stored' = Stored
  BY <1>4 DEF Stored
<1>7. manifest' \subseteq manifest
  BY <1>3 DEF EndRebuild
<1>8. \A m \in manifest : /\ m.doc \in Docs
                          /\ rows[m.doc].ver = m.ver => Holds(active, m.doc)
  BY <1>0, <1>2 DEF TypeOK, IndexInv, ManifestInv
<1>9. \A d \in Docs : rows'[d].state = "indexed" => Holds(active, d)'
  <2> SUFFICES ASSUME NEW d \in Docs, rows'[d].state = "indexed"
               PROVE  Holds(active, d)
    BY <1>2, <1>5
  <2>1. CASE rows'[d] = rows[d]
    BY <1>2, <2>1 DEF IndexInv, IndexedSearchable
  <2>2. ASSUME NEW m \in manifest, m.doc = d, m.ver = rows[d].ver PROVE Holds(active, d)
    BY <1>8, <2>2
  <2> QED
    BY <1>4, <2>1, <2>2
<1>10. RowsInv'
  <2>1. \A m \in manifest : m.ver # 0
    <3> TAKE m \in manifest
    <3>1. m.ver \in past[m.doc] /\ m.doc \in Docs
      BY <1>8 DEF IndexInv, ManifestInv
    <3>2. m.ver \in Versions
      BY <1>0, <3>1 DEF TypeOK
    <3> QED
      BY <3>2, IndexAssumption DEF Versions
  <2> QED
    BY <1>2, <1>4, <2>1 DEF IndexInv, RowsInv
<1>11. ControlInv' /\ BatchShape'
  BY <1>2, <1>3, <1>6 DEF IndexInv, ControlInv, BatchShape, EndRebuild
<1>12. BatchCurrent'
  <2>1. \A b \in batch : b.doc \in Docs
    BY <1>0 DEF TypeOK
  <2>2. ASSUME NEW b \in batch, b.doc \notin reverted, rows'[b.doc].state = "indexed"
        PROVE  rows[b.doc].ver = b.ver
    <3>1. CASE rows'[b.doc] = rows[b.doc]
      BY <2>2, <3>1 DEF IndexInv, BatchCurrent
    <3>2. ASSUME NEW m \in manifest, m.doc = b.doc, m.ver = rows[b.doc].ver
          PROVE  rows[b.doc].ver = b.ver
      BY <2>2, <3>2 DEF IndexInv, ManifestInv
    <3> QED
      BY <1>4, <2>1, <3>1, <3>2
  <2>3. \A b \in batch : rows'[b.doc].ver = rows[b.doc].ver
    BY <1>4, <2>1
  <2> QED
    BY <1>2, <2>2, <2>3 DEF IndexInv, BatchCurrent
<1>13. ManifestInv'
  <2>1. \A m \in manifest : rows'[m.doc].ver = rows[m.doc].ver
    BY <1>4, <1>8
  <2>2. step' \notin {"built", "moved"}
    BY <1>2, <1>3 DEF EndRebuild
  <2>3. \A m \in manifest : rows'[m.doc].ver = m.ver => Holds(active, m.doc)'
    BY <1>2, <1>5, <1>8, <2>1
  <2> QED
    BY <1>2, <1>7, <2>1, <2>2, <2>3 DEF IndexInv, ManifestInv
<1>14. BackupInv' /\ IndexedSearchable'
  <2>1. step' # "moved"
    BY <1>2, <1>3 DEF EndRebuild
  <2> QED
    BY <1>9, <2>1 DEF BackupInv, IndexedSearchable
<1> QED
  BY <1>1, <1>10, <1>11, <1>12, <1>13, <1>14 DEF IndexInv

-----------------------------------------------------------------------------
(* The theorems. *)

LEMMA IndexStart ==
  ASSUME Init
  PROVE  IndexInv
<1>1. UsedOK
  <2>1. \A k \in DOMAIN Bound : Bound[k] \in Nat
    BY IndexAssumption DEF Bound
  <2> HIDE DEF Bound
  <2> QED
    BY <2>1 DEF Init, UsedOK
<1>2. /\ rows \in [Docs -> [ver : 0..MaxVersion, state : {"none", "pending", "indexed", "error"}]]
      /\ past \in [Docs -> SUBSET Versions]
  BY IndexAssumption DEF Init
<1>3. TypeOK
  BY <1>1, <1>2 DEF Init, TypeOK, UsedOK
<1> QED
  BY <1>3 DEF Init, IndexInv, RowsInv, ControlInv, BatchShape, BatchCurrent, ManifestInv,
     BackupInv, IndexedSearchable

LEMMA IndexStep ==
  ASSUME IndexInv, [Next]_vars
  PROVE  IndexInv'
<1>1. CASE UNCHANGED vars
  BY <1>1 DEF vars, workerVars, rebuildVars, historyVars, IndexInv, TypeOK, RowsInv,
     ControlInv, BatchShape, BatchCurrent, ManifestInv, BackupInv, IndexedSearchable, Holds,
     Finds, Hydrated, Stored, Bound
<1>2. CASE Clients
  BY <1>2, UploadStep, RequeueStep, UpsertStep DEF Clients
<1>3. CASE Worker
  BY <1>3, ListStep, ReadFailsStep, ReadRowStep, ReadAttachmentsStep, IndexBatchStep,
     IndexPanicsStep, MarkStep DEF Worker
<1>4. CASE Start \/ Stop \/ Build \/ RebuildStops
  BY <1>4, StartStep, StopStep, BuildStep, RebuildStopsStep
<1>5. CASE Rebuild
  BY <1>5, MoveAwayStep, InstallStep, InstallFailsStep, RestoreFailsStep, RemoveBackupStep,
     MarkVersionsStep DEF Rebuild
<1> QED
  BY <1>1, <1>2, <1>3, <1>4, <1>5 DEF Next

\* The index, its rows, the worker's batch, the manifest of a rebuild and the directories
\* it moves agree, in every state.
THEOREM IndexInvariant == Spec => []IndexInv
<1>1. Init => IndexInv
  BY IndexStart
<1>2. IndexInv /\ [Next]_vars => IndexInv'
  BY IndexStep
<1> QED
  BY <1>1, <1>2, PTL DEF Spec

\* Every variable keeps its type; a serving process has an index directory.
THEOREM TypeCorrect == Spec => []TypeOK
<1>1. IndexInv => TypeOK
  BY DEF IndexInv
<1> QED
  BY <1>1, IndexInvariant, PTL

\* A row whose index state is indexed is found by a search with its present content.
THEOREM IndexedIsSearchable == Spec => []IndexedSearchable
<1>1. IndexInv => IndexedSearchable
  BY DEF IndexInv
<1> QED
  BY <1>1, IndexInvariant, PTL

\* Wherever a swap of the index directories is cut short, what counts as indexed is in a
\* directory that is still there.
THEOREM IndexedIsRecoverable == Spec => []IndexRecoverable
<1>1. IndexInv => IndexRecoverable
  BY DEF IndexInv, BackupInv, IndexRecoverable
<1> QED
  BY <1>1, IndexInvariant, PTL

=============================================================================
