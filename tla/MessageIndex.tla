---------------------------- MODULE MessageIndex ----------------------------
(***************************************************************************)
(* mailindex: the repository's documents, the uploads that write them, the *)
(* index worker of a serving process, and rebuild-index, which replaces    *)
(* the index directory from another process.                               *)
(*                                                                         *)
(* A document's content is a version number: its hash, body and            *)
(* attachments are those of one version.  One action is one query, one     *)
(* transaction, one index batch or one directory operation.  The process   *)
(* that serves and the one that rebuilds exclude each other only by the    *)
(* writer lock inside the index directory.                                 *)
(***************************************************************************)
EXTENDS Naturals, FiniteSets

CONSTANTS Docs,          \* document ids, in the order of their first upload
          MaxVersion,    \* bound on the contents a document may have
          BatchSize,     \* index.batch_size
          MaxSends,      \* bound on uploads that differ from the stored content
          MaxRequeues,   \* bound on reindex requests
          MaxRebuilds,   \* bound on runs of rebuild-index
          MaxFaults,     \* bound on failing statements, batches and directory operations
          MaxStops,      \* bound on crashes and shutdowns, of either process
          Missing        \* no index directory

ASSUME IndexAssumption ==
  /\ Docs \subseteq Nat /\ IsFiniteSet(Docs)
  /\ MaxVersion \in Nat /\ BatchSize \in Nat \ {0}
  /\ MaxSends \in Nat /\ MaxRequeues \in Nat /\ MaxRebuilds \in Nat
  /\ MaxFaults \in Nat /\ MaxStops \in Nat

\* Contents of a message, told apart by their hash.
Versions == 1..MaxVersion
Entry == [body : 0..MaxVersion, att : 0..MaxVersion]   \* 0: not in the index
Index == [Docs -> Entry]

ASSUME MissingAssumption == Missing \notin Index

VARIABLES
  rows,              \* documents: version (0: no row) and index state
  uploads,           \* uploads past the hash check and not yet stored
  active,            \* the active index directory, as last committed
  pc,                \* worker: control point; "off" when mailindex does not serve
  todo, batch,       \* worker: ids listed and not read, documents read
  result,            \* worker: the state the batch's rows are to get
  poisoned,          \* does every further batch fail?  A batch panicked with the writer
                     \* locked, or the rollback of one failed
  step,              \* rebuild: control point
  fresh, old,        \* rebuild: the new index, the directory moved away
  manifest,          \* rebuild: versions still to mark
  kept,              \* backups that no rebuild removed
  past, reverted,    \* history: versions a row had; documents that got one of them again
  interrupted,       \* history: a swap of directories ended half done
  used               \* what the bounds have used up

workerVars  == <<pc, todo, batch, result, poisoned>>
rebuildVars == <<step, fresh, old, manifest, kept>>
historyVars == <<past, reverted, interrupted>>
vars == <<rows, uploads, active, workerVars, rebuildVars, historyVars, used>>

Bound == [sends |-> MaxSends, requeues |-> MaxRequeues, rebuilds |-> MaxRebuilds,
          faults |-> MaxFaults, stops |-> MaxStops]
Use(k) == used[k] < Bound[k] /\ used' = [used EXCEPT ![k] = @ + 1]

\* A call succeeds, fails, or takes effect and still reports an error.
Outcome == {"ok", "lost", "unacked"}
Call(o) == o \in Outcome /\ IF o = "ok" THEN UNCHANGED used ELSE Use("faults")
Applied(o) == o # "lost"

Empty == [d \in Docs |-> [body |-> 0, att |-> 0]]
\* Does the hash differ from the stored one?
Differs(d, v) == rows[d].ver # v
Stored == {d \in Docs : rows[d].ver # 0}
Pending == {d \in Docs : rows[d].state = "pending"}
Lowest(n, S) == {d \in S : Cardinality({e \in S : e < d}) < n}
IsFirst(d, S) == d \in S /\ \A e \in S : d <= e

-----------------------------------------------------------------------------
(* Uploads and reindex requests, while mailindex serves. *)

\* The first half of upload: the content differs from the stored hash and is parsed.
\* When it does not differ the answer changes nothing (and at most wakes the worker,
\* which wakes by itself on every tick).
Upload(d, v) ==
  /\ pc # "off" /\ Differs(d, v)
  /\ [doc |-> d, ver |-> v] \notin uploads
  /\ Use("sends")
  /\ uploads' = uploads \cup {[doc |-> d, ver |-> v]}
  /\ UNCHANGED <<rows, active, workerVars, rebuildVars, historyVars>>

\* What the upsert leaves of the index state.
NewState(d) == "pending"

\* The second half: one transaction compares the hash again and replaces row and
\* attachments, or inserts them.
Upsert(u, o) ==
  LET d == u.doc IN
  /\ u \in uploads
  /\ rows[d].ver = 0 => \A e \in Docs : e < d => e \in Stored
  /\ Call(o)
  /\ uploads' = uploads \ {u}
  /\ IF Applied(o) /\ Differs(d, u.ver)
     THEN /\ rows' = [rows EXCEPT ![d] = [ver |-> u.ver, state |-> NewState(d)]]
          /\ past' = [past EXCEPT ![d] = @ \cup {u.ver}]
          /\ reverted' = IF u.ver \in past[d] THEN reverted \cup {d} ELSE reverted
     ELSE UNCHANGED <<rows, past, reverted>>
  /\ UNCHANGED <<active, workerVars, rebuildVars, interrupted>>

Requeue(d) ==
  /\ pc # "off" /\ d \in Stored
  /\ Use("requeues")
  /\ rows' = [rows EXCEPT ![d].state = "pending"]
  /\ UNCHANGED <<uploads, active, workerVars, rebuildVars, historyVars>>

-----------------------------------------------------------------------------
(* The index worker. *)

Idle == pc' = "idle" /\ todo' = {} /\ batch' = {} /\ result' = "none"

\* pending(): the ids first, then each document by its own queries.
List ==
  /\ pc = "idle" /\ Pending # {}
  /\ pc' = "row" /\ todo' = Lowest(BatchSize, Pending)
  /\ UNCHANGED <<rows, uploads, active, batch, result, poisoned, rebuildVars, historyVars, used>>

\* A row, with its hash and body; its attachments, which the upsert replaces with it.
RowOf(d) == [doc |-> d, ver |-> rows[d].ver, att |-> 0]
AttachmentsOf(d) == rows[d].ver

\* get_document, first query: the row as it is now.
ReadRow(d) ==
  /\ pc = "row" /\ IsFirst(d, todo)
  /\ pc' = "attachments" /\ todo' = todo \ {d}
  /\ batch' = batch \cup {RowOf(d)}
  /\ UNCHANGED <<rows, uploads, active, result, poisoned, rebuildVars, historyVars, used>>

\* Second query: the attachments, in no transaction with the first.
ReadAttachments(b) ==
  /\ pc = "attachments" /\ b \in batch /\ b.att = 0
  /\ pc' = IF todo = {} THEN "write" ELSE "row"
  /\ batch' = (batch \ {b}) \cup {[b EXCEPT !.att = AttachmentsOf(b.doc)]}
  /\ UNCHANGED <<rows, uploads, active, todo, result, poisoned, rebuildVars, historyVars, used>>

\* A query of pending() fails: the drain ends, the next tick lists again.
ReadFails ==
  /\ pc \in {"row", "attachments"} /\ Use("faults")
  /\ Idle
  /\ UNCHANGED <<rows, uploads, active, poisoned, rebuildVars, historyVars>>

\* What the index keeps of a document that was read.
Document(b) == [body |-> b.ver, att |-> b.att]

\* The index after delete_term and add_document for each document of the batch.
WithBatch(index, b) ==
  [d \in Docs |-> IF \E x \in b : x.doc = d
                  THEN Document(CHOOSE x \in b : x.doc = d) ELSE index[d]]

\* The rows of a batch that failed.  Mutant: they stay pending, to be tried again.
FailedStatePending == "pending"
FailedState == "error"

\* One commit and reload under the writer lock.  A failure is rolled back; one that
\* comes after the commit leaves the commit.  The result of the rollback is not looked at:
\* when it fails too, the writer, whose workers it ends before it opens the index again,
\* may be of no more use.  (Assumed of tantivy: it does not commit with a later batch what
\* a failed rollback left queued.)  A poisoned writer fails every batch.
IndexBatch(o) ==
  /\ pc = "write"
  /\ IF poisoned THEN o = "lost" /\ UNCHANGED used ELSE Call(o)
  /\ active' = IF Applied(o) THEN WithBatch(active, batch) ELSE active
  /\ result' = IF o = "ok" THEN "indexed" ELSE FailedState
  /\ poisoned' \in IF o = "ok" THEN {FALSE} ELSE {poisoned, TRUE}
  /\ pc' = "mark"
  /\ UNCHANGED <<rows, uploads, todo, batch, rebuildVars, historyVars>>

\* The blocking task panics, before its commit or after: nothing is marked.
IndexPanics(o) ==
  /\ pc = "write" /\ ~poisoned /\ o \in {"lost", "unacked"} /\ Call(o)
  /\ active' = IF Applied(o) THEN WithBatch(active, batch) ELSE active
  /\ poisoned' = TRUE /\ Idle
  /\ UNCHANGED <<rows, uploads, rebuildVars, historyVars>>

\* The WHERE clause of mark_indexed and mark_error.  Mutant: the hash is not compared.
SameVersionAny(b) == rows[b.doc].state = "pending"
SameVersion(b) == rows[b.doc].state = "pending" /\ rows[b.doc].ver = b.ver

\* mark_indexed or mark_error for the next row; a failure is only logged.
Mark(b, o) ==
  /\ pc = "mark" /\ b \in batch /\ IsFirst(b.doc, {x.doc : x \in batch})
  /\ Call(o)
  /\ rows' = IF Applied(o) /\ SameVersion(b)
             THEN [rows EXCEPT ![b.doc].state = result] ELSE rows
  /\ IF batch = {b} THEN Idle
     ELSE batch' = batch \ {b} /\ UNCHANGED <<pc, todo, result>>
  /\ UNCHANGED <<uploads, active, poisoned, rebuildVars, historyVars>>

\* serve: the index directory is opened under its writer lock, or created empty.  The
\* rebuild holds that lock until it moves the directory away; an operator does not start
\* mailindex during a rebuild that found no directory to lock.
Start ==
  /\ pc = "off" /\ step # "built"
  /\ active' = IF active = Missing THEN Empty ELSE active
  /\ poisoned' = FALSE /\ Idle
  /\ UNCHANGED <<rows, uploads, rebuildVars, historyVars, used>>

\* mailindex ends, at any point; requests under way are lost.
Stop ==
  /\ pc # "off" /\ Use("stops")
  /\ pc' = "off" /\ todo' = {} /\ batch' = {} /\ result' = "none" /\ poisoned' = FALSE
  /\ uploads' = {}
  /\ UNCHANGED <<rows, active, rebuildVars, historyVars>>

-----------------------------------------------------------------------------
(* rebuild-index. *)

EndRebuild == step' = "off" /\ fresh' = Missing /\ old' = Missing /\ manifest' = {}

\* A backup the rebuild leaves behind.  Mutant: it is removed with the temporary index.
KeptNone == kept
Kept == IF old = Missing THEN kept ELSE kept \cup {old}

\* Every row, read page by page with its attachments.
Corpus == {[RowOf(d) EXCEPT !.att = AttachmentsOf(d)] : d \in Stored}

\* The new index and its manifest, from every row; the writer lock on the active
\* directory keeps mailindex away meanwhile.  An error (a count of the new index that is not
\* the table's is one) or a crash before this point leaves nothing but files that are never
\* read again.
Build ==
  /\ step = "off" /\ pc = "off" /\ Use("rebuilds")
  /\ step' = "built"
  /\ fresh' = WithBatch(Empty, Corpus)
  /\ manifest' = {[doc |-> b.doc, ver |-> b.ver] : b \in Corpus}
  /\ UNCHANGED <<rows, uploads, active, workerVars, old, kept, historyVars>>

\* First rename: the active directory, if there is one, becomes the backup.
MoveAway ==
  /\ step = "built"
  /\ step' = "moved" /\ old' = active /\ active' = Missing
  /\ UNCHANGED <<rows, uploads, workerVars, fresh, manifest, kept, historyVars, used>>

\* Second rename: the new index is installed.
Install ==
  /\ step = "moved" /\ active = Missing
  /\ step' = "installed" /\ active' = fresh /\ fresh' = Missing
  /\ interrupted' = FALSE
  /\ UNCHANGED <<rows, uploads, workerVars, old, manifest, kept, past, reverted, used>>

\* The second rename fails and the backup is moved back.
InstallFails ==
  /\ step = "moved" /\ active = Missing /\ Use("faults")
  /\ active' = old /\ EndRebuild
  /\ UNCHANGED <<rows, uploads, workerVars, kept, historyVars>>

\* It fails and so does the way back, by a fault or because mailindex has been started
\* and has made a directory of its own: the backup stays.
RestoreFails ==
  /\ step = "moved"
  /\ IF active = Missing THEN Use("faults") ELSE UNCHANGED used
  /\ kept' = Kept /\ interrupted' = TRUE /\ EndRebuild
  /\ UNCHANGED <<rows, uploads, active, workerVars, past, reverted>>

\* The backup is removed; when that fails the rebuild ends with no row marked.
RemoveBackup(o) ==
  /\ step = "installed" /\ o \in {"ok", "lost"} /\ Call(o)
  /\ IF o = "ok" THEN step' = "mark" /\ old' = Missing /\ UNCHANGED <<fresh, manifest>>
                 ELSE EndRebuild
  /\ UNCHANGED <<rows, uploads, active, workerVars, kept, historyVars>>

\* The WHERE clause of mark_indexed_versions.
SameHash(m) == rows[m.doc].ver = m.ver

\* mark_indexed_versions for the next batch of the manifest, whatever the rows' state.
MarkVersions(o) ==
  LET ids == Lowest(BatchSize, {m.doc : m \in manifest})
      now == {m \in manifest : m.doc \in ids}
  IN
  /\ step = "mark" /\ Call(o)
  /\ rows' = [d \in Docs |->
                IF Applied(o) /\ \E m \in now : m.doc = d /\ SameHash(m)
                THEN [rows[d] EXCEPT !.state = "indexed"] ELSE rows[d]]
  /\ IF o # "ok" \/ now = manifest THEN EndRebuild
     ELSE manifest' = manifest \ now /\ UNCHANGED <<step, fresh, old>>
  /\ UNCHANGED <<uploads, active, workerVars, kept, historyVars>>

\* The rebuild crashes; between its two renames there is then no active index.
RebuildStops ==
  /\ step # "off" /\ Use("stops")
  /\ kept' = IF step = "moved" THEN Kept ELSE kept
  /\ interrupted' = (interrupted \/ step = "moved")
  /\ EndRebuild
  /\ UNCHANGED <<rows, uploads, active, workerVars, past, reverted>>

-----------------------------------------------------------------------------
(* Searches. *)

\* search_projection: a hit is shown from its row, if it has one.
Hydrated(d) == d \in Stored

\* Does a search for the text of a part, as it is in a version, return the document?
Finds(index, d, part, v) == index[d][part] = v /\ Hydrated(d)

-----------------------------------------------------------------------------
Init ==
  /\ rows = [d \in Docs |-> [ver |-> 0, state |-> "none"]] /\ uploads = {}
  /\ active = Missing
  /\ pc = "off" /\ todo = {} /\ batch = {} /\ result = "none" /\ poisoned = FALSE
  /\ step = "off" /\ fresh = Missing /\ old = Missing /\ manifest = {} /\ kept = {}
  /\ past = [d \in Docs |-> {}] /\ reverted = {} /\ interrupted = FALSE
  /\ used = [k \in DOMAIN Bound |-> 0]

Clients ==
  \/ \E d \in Docs : Requeue(d) \/ \E v \in Versions : Upload(d, v)
  \/ \E u \in uploads, o \in Outcome : Upsert(u, o)

Worker ==
  \/ List \/ ReadFails
  \/ \E d \in todo : ReadRow(d)
  \/ \E b \in batch : ReadAttachments(b)
  \/ \E o \in Outcome : IndexBatch(o) \/ IndexPanics(o) \/ \E b \in batch : Mark(b, o)

Rebuild ==
  \/ MoveAway \/ Install \/ InstallFails \/ RestoreFails
  \/ \E o \in Outcome : RemoveBackup(o) \/ MarkVersions(o)

Next == Clients \/ Worker \/ Start \/ Stop \/ Build \/ Rebuild \/ RebuildStops

Spec == Init /\ [][Next]_vars

\* The worker wakes at every tick, its queries and batches end, a rebuild goes on to its
\* end, and mailindex is started again.
FairSpec == Spec /\ WF_vars(Worker) /\ WF_vars(Rebuild) /\ WF_vars(Start)

-----------------------------------------------------------------------------
(* Properties. *)

TypeOK ==
  /\ rows \in [Docs -> [ver : 0..MaxVersion, state : {"none", "pending", "indexed", "error"}]]
  /\ uploads \subseteq [doc : Docs, ver : Versions]
  /\ active \in Index \cup {Missing}
  /\ pc \in {"off", "idle", "row", "attachments", "write", "mark"}
  /\ pc # "off" => active # Missing
  /\ todo \subseteq Docs
  /\ batch \subseteq [doc : Docs, ver : 0..MaxVersion, att : 0..MaxVersion]
  /\ result \in {"none", "indexed", "error"} /\ poisoned \in BOOLEAN
  /\ step \in {"off", "built", "moved", "installed", "mark"}
  /\ fresh \in Index \cup {Missing} /\ old \in Index \cup {Missing}
  /\ manifest \subseteq [doc : Docs, ver : 0..MaxVersion] /\ kept \subseteq Index
  /\ past \in [Docs -> SUBSET Versions] /\ reverted \subseteq Docs /\ interrupted \in BOOLEAN
  /\ used \in [DOMAIN Bound -> Nat] /\ \A k \in DOMAIN Bound : used[k] <= Bound[k]

\* Is the row's content, body and attachments, found in that index?  A document whose content
\* went back to an earlier version is left out: its hash no longer tells the versions
\* apart, neither for a row and attachments read on both sides of the change nor for the
\* manifest of a rebuild.
Holds(index, d) ==
  \/ d \in reverted
  \/ index # Missing /\ \A part \in {"body", "att"} : Finds(index, d, part, rows[d].ver)

\* A row that says indexed is found by a search with its present content: no upload,
\* failure, reindex or rebuild makes a row count as indexed for a version the index does
\* not hold.  (Between the renames of a rebuild, and after a swap that was cut short, the
\* index is elsewhere.)
IndexedSearchable ==
  ~interrupted /\ step # "moved" =>
    \A d \in Docs : rows[d].state = "indexed" => Holds(active, d)

\* Whatever a swap of the directories leaves behind, an indexed version is in the active
\* directory or in one that the operator can still put back.
IndexRecoverable ==
  \A d \in Docs : rows[d].state = "indexed" =>
    \E index \in kept \cup {active, old, fresh} : Holds(index, d)

\* Every pending document leaves that state, across crashes of the worker, a poisoned
\* writer, rebuilds and lost updates.
PendingSettled == \A d \in Docs : d \in Pending ~> d \notin Pending

=============================================================================
