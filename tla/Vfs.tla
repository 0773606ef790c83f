-------------------------------- MODULE Vfs --------------------------------
(***************************************************************************)
(* The staging layer of the Zenith sidecar: VirtualFileSystem              *)
(* (zenith-sidecar/src/vfs/mod.rs), its write-ahead log (vfs/wal.rs), the  *)
(* disk writer (vfs/storage.rs) and the RPC handlers that drive it         *)
(* (rpc.rs), with crashes of the process and restarts.                     *)
(*                                                                         *)
(* Every handler runs under the write lock of SharedState.vfs, so it is    *)
(* one action, except persist: its file writes are steps of their own,     *)
(* because a crash or a failed write may fall between them.                *)
(*                                                                         *)
(* A text is the set of the changes found in it; how often, and where, is  *)
(* not modelled.  An edit of intent_to_edit carries the whole patched file *)
(* and apply_edits inserts it before the first line instead of replacing   *)
(* the file, so a merged text is the union of its base and of the texts of *)
(* its edits.  A union does not depend on the order of the edits, so       *)
(* transaction_order is the set of listed ids.                             *)
(***************************************************************************)
EXTENDS Naturals, Sequences

CONSTANTS
  Tx,                \* transaction ids
  File,              \* project files
  Edit,              \* edits, each staged at most once: identities of changes
  Intent,            \* mutation intents a client may stage
  fileOf,            \* the file an intent resolves to
  Squash,            \* <<new, old>>: staging new squashes the staged old
  Review,            \* <<new, old>>: OtEngine::transform escalates the pair
  Original,          \* a file's own text, at least its first line
  Below,             \* the lines of a text past the first
  IdeEdit,           \* the change a user makes to a file outside Zenith
  None,              \* Rust's None: no text, no holder, no file
  Torn,              \* the WAL from its first line that does not parse on
  Ops,               \* operations beyond stage, rollback, commit and heal
  Faults,            \* failures of the environment that may happen
  ServeBeforeCrawl   \* may requests be served before the start-up crawl?

Change == Edit \cup {Original, Below, IdeEdit}
Text   == SUBSET Change

\* A staged edit: new_text, inserted where the line it starts on is.
Patch  == {p \in [tx : Tx, file : File, edit : Edit, at : {Original, Below},
                  new_text : Text] : p.edit \in p.new_text}

ASSUME ConstantsAssumption ==
  /\ fileOf \in [Intent -> File]
  /\ Squash \subseteq Intent \X Intent
  /\ Review \subseteq Intent \X Intent
  /\ None \notin Tx /\ None \notin File
  /\ \A text \in Text : text # None
  /\ Torn \notin Patch
  /\ {Original, Below, IdeEdit} \cap Edit = {}
  /\ Original # IdeEdit /\ Original # Below /\ Below # IdeEdit
  /\ ServeBeforeCrawl \in BOOLEAN

VARIABLES
  up,                  \* is the sidecar process running?
  crawled,             \* has the start-up project crawl finished?
  disk,                \* the project's files
  wal,                 \* .zenith/stage.wal, line by line
  wal_open,            \* does the WalWriter hold the file?
  base,                \* VirtualFileSystem.base
  transactions,        \* .transactions, every patch tagged with its id
  transaction_order,   \* .transaction_order, as a set
  merged_cache,        \* .merged_cache
  file_locks,          \* .file_locks
  draft_transactions,  \* .draft_transactions
  staged_intents,      \* .staged_intents
  persisting,          \* is StorageManager::persist under way?
  unwritten,           \* the files it still has to write
  writing,             \* the file it has opened with truncate(true)
  staged               \* history: edits whose staging was answered Success

log      == <<wal, wal_open>>
store    == <<disk, log>>
overlay  == <<transactions, transaction_order, merged_cache, file_locks,
              draft_transactions, staged_intents>>
io       == <<persisting, unwritten, writing>>
vars     == <<up, crawled, store, base, overlay, io, staged>>

-----------------------------------------------------------------------------
(* Texts.                                                                  *)

EmptyText == {}

OriginalText == {Original, Below}

\* apply_edits: an edit whose line the text does not have is skipped.
apply_edits(text, patches) ==
  text \cup UNION {p.new_text : p \in {q \in patches : q.at \in text}}

\* The patches rebuild_merged_cache collects for f: those of the transactions
\* T that the order O lists.
Pending(T, O, f) == {p \in T : p.file = f /\ p.tx \in O}

\* rebuild_merged_cache for every file of fs.
Rebuilt(cache, b, T, O, fs) ==
  [f \in File |->
     IF f \notin fs \/ b[f] = None THEN cache[f]
     ELSE IF Pending(T, O, f) = {} THEN None
     ELSE apply_edits(b[f], Pending(T, O, f))]

FilesOf(patches) == {p.file : p \in patches}
EditsOf(patches) == {p.edit : p \in patches}
PatchesOf(txs)   == {p \in transactions : p.tx \in txs}

\* VirtualFileSystem::read in Shadow mode, from merged texts c and base b.
Shadow(c, b, f) == IF c[f] # None THEN c[f] ELSE b[f]

read(f) == Shadow(merged_cache, base, f)

-----------------------------------------------------------------------------
(* The write-ahead log.  Torn stands for the first line that does not      *)
(* parse and for everything after it: WalReader::read_all stops there.     *)

read_all(lines) == {lines[n] : n \in DOMAIN lines} \ {Torn}

\* The log after one more line: past a torn line it is never read.
Written(lines, line) ==
  IF \E n \in DOMAIN lines : lines[n] = Torn THEN lines ELSE Append(lines, line)

\* WalWriter::append.  A failed one leaves nothing, or part of a line, and stage
\* only warns of it; without a file every append fails.
AppendResults(p) ==
  IF wal_open
    THEN {Written(wal, p)} \cup
         (IF "append" \in Faults THEN {wal, Written(wal, Torn)} ELSE {})
    ELSE {wal}

AppendToLog(p) == wal' \in AppendResults(p) /\ UNCHANGED wal_open

\* WalWriter::truncate.  A locked file is renamed away, or opened again as it
\* is; when that open fails too, the writer is left without a file and every
\* later call fails.  What callers do does not depend on the result.
TruncateResults ==
  IF wal_open
    THEN {[wal |-> <<>>, open |-> TRUE]} \cup
         (IF "truncate" \in Faults
            THEN [wal : {<<>>, wal}, open : BOOLEAN] ELSE {})
    ELSE {[wal |-> wal, open |-> FALSE]}

TruncateLog ==
  \E r \in TruncateResults : wal' = r.wal /\ wal_open' = r.open

-----------------------------------------------------------------------------
(* Initial states, start-up and loss of the process.                       *)

\* The memory of a VirtualFileSystem that has just been created.
FreshOverlay(T) ==
  /\ wal_open' = TRUE
  /\ base' = [f \in File |-> None]
  /\ transactions' = T
  /\ transaction_order' = {p.tx : p \in T}
  /\ merged_cache' = [f \in File |-> None]
  /\ file_locks' = [f \in File |-> None]
  /\ draft_transactions' = {}
  /\ staged_intents' = [t \in Tx |-> {}]
  /\ persisting' = FALSE
  /\ unwritten' = {}
  /\ writing' = None

Init ==
  /\ up = FALSE
  /\ crawled = FALSE
  /\ disk = [f \in File |-> OriginalText]
  /\ wal = <<>>
  /\ wal_open = TRUE
  /\ base = [f \in File |-> None]
  /\ transactions = {}
  /\ transaction_order = {}
  /\ merged_cache = [f \in File |-> None]
  /\ file_locks = [f \in File |-> None]
  /\ draft_transactions = {}
  /\ staged_intents = [t \in Tx |-> {}]
  /\ persisting = FALSE
  /\ unwritten = {}
  /\ writing = None
  /\ staged = {}

\* Start-up: recover_from_wal.  The base is empty, so no merged text is built;
\* drafts and intents are not in the log and come back as neither.
RecoverFromWal ==
  /\ ~up
  /\ up' = TRUE
  /\ crawled' = FALSE
  /\ FreshOverlay(read_all(wal))
  /\ UNCHANGED <<disk, wal, staged>>

\* scan_project: load_file for every file of the project.
ScanProject ==
  /\ up
  /\ ~crawled
  /\ ~persisting
  /\ crawled' = TRUE
  /\ base' = disk
  /\ merged_cache' =
       Rebuilt([f \in File |-> None], disk, transactions, transaction_order,
               File)
  /\ UNCHANGED <<up, store, transactions, transaction_order, file_locks,
                 draft_transactions, staged_intents, io, staged>>

\* What is left of the log: with fault "tear" the process may die inside an
\* append, with "power" the machine loses lines that were never synced.
LogAfterCrash ==
  {wal} \cup (IF "tear" \in Faults THEN {Written(wal, Torn)} ELSE {})
        \cup (IF "power" \in Faults
                THEN {SubSeq(wal, 1, n) : n \in 0..Len(wal)} ELSE {})

\* The process ends (ctrlc handler, kill, panic); with "wipe" also between the
\* truncating open of a file and its write.
Crash ==
  /\ up
  /\ "crash" \in Faults
  /\ writing = None \/ "wipe" \in Faults
  /\ up' = FALSE
  /\ crawled' = FALSE
  /\ FreshOverlay({})
  /\ wal' \in LogAfterCrash
  /\ UNCHANGED <<disk, staged>>

\* The user saves the file in the editor, outside Zenith, and may leave it with
\* fewer lines.
IdeSave(f) ==
  /\ "ide" \in Ops
  /\ IdeEdit \notin disk[f]
  /\ writing # f
  /\ \E lines \in SUBSET {Below} :
       disk' = [disk EXCEPT ![f] =
                  (disk[f] \ {Below}) \cup {Original, IdeEdit} \cup lines]
  /\ UNCHANGED <<up, crawled, log, base, overlay, io, staged>>

-----------------------------------------------------------------------------
(* Requests.                                                               *)

Serving == up /\ ~persisting /\ (ServeBeforeCrawl \/ crawled)

\* VirtualFileSystem::stage: journal first, then memory, then the merged text.
\* The crate's callers stage edits of their own, on lines past the first.
Stage(tx, f) ==
  /\ Serving
  /\ "library" \in Ops
  /\ \E e \in Edit \ staged :
       LET p == [tx |-> tx, file |-> f, edit |-> e, at |-> Below, new_text |-> {e}]
       IN  /\ AppendToLog(p)
           /\ transactions' = transactions \cup {p}
           /\ transaction_order' = transaction_order \cup {tx}
           /\ merged_cache' = Rebuilt(merged_cache, base, transactions',
                                      transaction_order', {f})
           /\ staged' = staged \cup {e}
  /\ UNCHANGED <<up, crawled, disk, base, file_locks, staged_intents, io>>

StagePatch(tx, f) == Stage(tx, f) /\ UNCHANGED draft_transactions

\* stage_draft: MockOverlayEngine's transactions.
StageDraft(tx, f) ==
  /\ Stage(tx, f)
  /\ draft_transactions' = draft_transactions \cup {tx}

(* stage_mutation, parts 1 and 2: conflict detection, then squashing.      *)

NeedsReview(tx, i) ==
  \E t \in Tx \ {tx} : \E j \in staged_intents[t] : <<i, j>> \in Review

SquashedBy(i) == {j \in Intent : <<i, j>> \in Squash}

\* The transactions left with no intent: they are removed, patches and all.
Squashed(i) ==
  {t \in Tx : staged_intents[t] # {} /\ staged_intents[t] \subseteq SquashedBy(i)}

\* load_file: the merged text of f is dropped and built again from the disk's.
\* Mutants: it is not dropped, and stays as it was; it is not built again.
CacheKept(f) == merged_cache

CacheDropped(f) == [merged_cache EXCEPT ![f] = None]

CacheAfterLoad(f) ==
  Rebuilt([merged_cache EXCEPT ![f] = None], [base EXCEPT ![f] = disk[f]],
          transactions, transaction_order, {f})

\* load_file of f, when the base does not hold it yet (JIT load).
LoadedIfAbsent(b, f) == IF b[f] = None THEN [b EXCEPT ![f] = disk[f]] ELSE b

\* Mutant: the push comes first, so a transaction that squashed itself is lost.
OrderPushedFirst(gone, tx) == (transaction_order \cup {tx}) \ gone

\* The order after the ids in gone are dropped and tx is pushed.
OrderAfter(gone, tx) == (transaction_order \ gone) \cup {tx}

\* The merged texts after the transactions in gone are dropped and f, if the
\* base b lacked it, is loaded.
CacheAfterSquash(gone, f, b, c) ==
  Rebuilt(c, LoadedIfAbsent(b, f), transactions \ PatchesOf(gone),
          transaction_order \ gone,
          FilesOf(PatchesOf(gone)) \cup (IF b[f] = None THEN {f} ELSE {}))

\* intent_to_edit: the text it patches is what read returns in the view mode
\* the client chose; the edit it makes is the whole patched file.
EditOf(tx, f, e, b, c) ==
  {[tx |-> tx, file |-> f, edit |-> e, at |-> Original, new_text |-> t \cup {e}] :
     t \in {Shadow(c, b, f)} \cup (IF "toggle_view" \in Ops THEN {b[f]} ELSE {})}

\* The rest of stage_mutation when every step of it succeeds, from base b and
\* merged texts c.
Mutate(tx, i, b, c) ==
  LET f    == fileOf[i]
      gone == Squashed(i)
      b1   == LoadedIfAbsent(b, f)
      c1   == CacheAfterSquash(gone, f, b, c)
  IN \E e \in Edit \ staged : \E p \in EditOf(tx, f, e, b1, c1) :
       /\ AppendToLog(p)
       /\ base' = b1
       /\ transactions' = (transactions \ PatchesOf(gone)) \cup {p}
       /\ transaction_order' = OrderAfter(gone, tx)
       /\ merged_cache' = Rebuilt(c1, b1, transactions', transaction_order', {f})
       /\ staged_intents' =
            [t \in Tx |-> (staged_intents[t] \ SquashedBy(i))
                          \cup (IF t = tx THEN {i} ELSE {})]
       /\ staged' = staged \cup {e}
       /\ UNCHANGED <<up, crawled, disk, file_locks, draft_transactions, io>>

\* rpc stage and stage_batch, answered Success.
RpcStage(tx, i) ==
  /\ Serving
  /\ ~NeedsReview(tx, i)
  /\ Mutate(tx, i, base, merged_cache)

\* rpc stage and stage_batch, answered Error: intent_to_edit fails, before or
\* after it loaded the file; restore_snapshot brings back everything but base.
RpcStageFails(tx, i) ==
  /\ Serving
  /\ "surgical" \in Faults
  /\ ~NeedsReview(tx, i)
  /\ base' = LoadedIfAbsent(base, fileOf[i])
  /\ UNCHANGED <<up, crawled, store, overlay, io, staged>>

(* rpc stage_universal: no snapshot, and the base is crawled when it is empty. *)

Cold == \A f \in File : base[f] = None

CrawledBase == IF Cold THEN disk ELSE base

CrawledCache ==
  IF Cold THEN Rebuilt(merged_cache, disk, transactions, transaction_order, File)
  ELSE merged_cache

UniversalRequest(tx, i) ==
  /\ Serving
  /\ "universal" \in Ops
  /\ CrawledBase[fileOf[i]] # None

StageUniversal(tx, i) ==
  /\ UniversalRequest(tx, i)
  /\ ~NeedsReview(tx, i)
  /\ Mutate(tx, i, CrawledBase, CrawledCache)

\* The transform asks for review: stage_mutation stages nothing, and its result
\* is dropped, so the answer is Success all the same.
StageUniversalReviewed(tx, i) ==
  /\ UniversalRequest(tx, i)
  /\ NeedsReview(tx, i)
  /\ base' = CrawledBase
  /\ merged_cache' = CrawledCache
  /\ \E e \in Edit \ staged : staged' = staged \cup {e}
  /\ UNCHANGED <<up, crawled, store, transactions, transaction_order,
                 file_locks, draft_transactions, staged_intents, io>>

\* intent_to_edit fails after the squashing: what was squashed stays removed.
StageUniversalFails(tx, i) ==
  LET gone == Squashed(i)
  IN  /\ UniversalRequest(tx, i)
      /\ "surgical" \in Faults
      /\ ~NeedsReview(tx, i)
      /\ base' = CrawledBase
      /\ transactions' = transactions \ PatchesOf(gone)
      /\ transaction_order' = transaction_order \ gone
      /\ merged_cache' = Rebuilt(CrawledCache, CrawledBase, transactions',
                           transaction_order', FilesOf(PatchesOf(gone)))
      /\ staged_intents' = [t \in Tx |-> staged_intents[t] \ SquashedBy(i)]
      /\ UNCHANGED <<up, crawled, store, file_locks, draft_transactions, io,
                     staged>>

\* What rollback and commit both release.
LocksReleased(tx) ==
  [f \in File |-> IF file_locks[f] = tx THEN None ELSE file_locks[f]]

\* Mutant: the recorded intents outlive their transaction.
IntentsLeaked(tx) == staged_intents

IntentsCleared(tx) == [staged_intents EXCEPT ![tx] = {}]

\* The merged texts once the transactions in txs are gone.
\* Mutant: their files are not rebuilt.
CacheUnrebuilt(txs) == merged_cache

CacheWithout(txs) ==
  Rebuilt(merged_cache, base, transactions \ PatchesOf(txs), transaction_order,
          FilesOf(PatchesOf(txs)))

\* rpc rollback.  The order keeps the id, and the log keeps the patches.
Rollback(tx) ==
  /\ Serving
  /\ transactions' = transactions \ PatchesOf({tx})
  /\ file_locks' = LocksReleased(tx)
  /\ staged_intents' = IntentsCleared(tx)
  /\ merged_cache' = CacheWithout({tx})
  /\ UNCHANGED <<up, crawled, store, base, transaction_order,
                 draft_transactions, io, staged>>

\* rpc heal_session.  Drafts keep their marks.
Heal ==
  /\ Serving
  /\ TruncateLog
  /\ transactions' = {}
  /\ transaction_order' = {}
  /\ staged_intents' = [t \in Tx |-> {}]
  /\ file_locks' = [f \in File |-> None]
  /\ merged_cache' = [f \in File |-> None]
  /\ UNCHANGED <<up, crawled, disk, base, draft_transactions, io, staged>>

\* rpc harden_wal.
HardenWal ==
  /\ Serving
  /\ "harden" \in Ops
  /\ TruncateLog
  /\ UNCHANGED <<up, crawled, disk, base, overlay, io, staged>>

\* rpc register_ghosts, for one file: load_file_from_disk.
RegisterGhosts(f) ==
  /\ Serving
  /\ base' = [base EXCEPT ![f] = disk[f]]
  /\ merged_cache' = CacheAfterLoad(f)
  /\ UNCHANGED <<up, crawled, store, transactions, transaction_order,
                 file_locks, draft_transactions, staged_intents, io, staged>>

-----------------------------------------------------------------------------
(* Commit: persist writes every merged text, then advances the base.       *)

AllTransactionsAreDrafts ==
  transactions # {} /\ \A p \in transactions : p.tx \in draft_transactions

\* The files StorageManager::persist may write.  It skips a text identical to
\* its base; two texts that show the same changes need not be identical.
ToWrite ==
  LET merged == {f \in File : merged_cache[f] # None}
  IN  {fs \in SUBSET merged : \A f \in merged \ fs : merged_cache[f] = base[f]}

BeginPersist ==
  /\ Serving
  /\ persisting' = TRUE
  /\ unwritten' \in ToWrite
  /\ UNCHANGED <<up, crawled, store, base, overlay, writing, staged>>

\* rpc commit and engine_commit refuse when nothing but drafts is staged.
RpcCommit == ~AllTransactionsAreDrafts /\ BeginPersist

\* rpc persist does not ask.
RpcPersist == BeginPersist

\* write_with_retry opens the file with truncate(true) ...
PersistOpen(f) ==
  /\ persisting
  /\ writing = None
  /\ f \in unwritten
  /\ disk' = [disk EXCEPT ![f] = EmptyText]
  /\ writing' = f
  /\ UNCHANGED <<up, crawled, log, base, overlay, persisting, unwritten, staged>>

\* Mutant: the file stays open for the next one.
PersistWriteUnclosed ==
  /\ writing # None
  /\ disk' = [disk EXCEPT ![writing] = merged_cache[writing]]
  /\ unwritten' = unwritten \ {writing}
  /\ UNCHANGED <<up, crawled, log, base, overlay, persisting, writing, staged>>

\* ... and then writes the text.
PersistWrite ==
  /\ writing # None
  /\ disk' = [disk EXCEPT ![writing] = merged_cache[writing]]
  /\ unwritten' = unwritten \ {writing}
  /\ writing' = None
  /\ UNCHANGED <<up, crawled, log, base, overlay, persisting, staged>>

\* A path is refused or locked, or a write fails: persist returns the error and
\* leaves the files written so far.
PersistFails ==
  /\ persisting
  /\ \/ "io" \in Faults /\ writing = None /\ unwritten # {}
     \/ "wipe" \in Faults /\ writing # None
  /\ persisting' = FALSE
  /\ unwritten' = {}
  /\ writing' = None
  /\ UNCHANGED <<up, crawled, store, base, overlay, staged>>

\* The base takes the merged texts and the log is truncated; the transactions
\* and the merged texts stay.
PersistFinish ==
  /\ persisting
  /\ unwritten = {} /\ writing = None
  /\ persisting' = FALSE
  /\ base' = [f \in File |-> IF merged_cache[f] # None THEN merged_cache[f]
                             ELSE base[f]]
  /\ TruncateLog
  /\ UNCHANGED <<up, crawled, disk, overlay, unwritten, writing, staged>>

-----------------------------------------------------------------------------
(* The two-phase commit and the other calls open to the crate's callers.    *)

\* Mutant: prepare does not look at who holds the file.
MayLockAny(tx, f) == TRUE

MayLock(tx, f) == file_locks[f] \in {None, tx}

Prepare(tx) ==
  LET fs == FilesOf(PatchesOf({tx}))
  IN  /\ Serving
      /\ "library" \in Ops
      /\ PatchesOf({tx}) # {}
      /\ \A f \in fs : MayLock(tx, f)
      /\ file_locks' = [f \in File |-> IF f \in fs THEN tx ELSE file_locks[f]]
      /\ UNCHANGED <<up, crawled, store, base, transactions, transaction_order,
                     merged_cache, draft_transactions, staged_intents, io,
                     staged>>

\* The merged text of each file the transaction touches becomes its base, and
\* the caller writes it out (its write is part of this step).
Commit(tx) ==
  LET fs    == FilesOf(PatchesOf({tx}))
      texts == [f \in File |-> IF read(f) # None THEN read(f) ELSE EmptyText]
  IN  /\ Serving
      /\ "library" \in Ops
      /\ tx \notin draft_transactions
      /\ transactions' = transactions \ PatchesOf({tx})
      /\ base' = [f \in File |-> IF f \in fs THEN texts[f] ELSE base[f]]
      /\ disk' = [f \in File |-> IF f \in fs THEN texts[f] ELSE disk[f]]
      /\ file_locks' = LocksReleased(tx)
      /\ staged_intents' = IntentsCleared(tx)
      /\ merged_cache' = [f \in File |-> IF f \in fs THEN None
                                         ELSE merged_cache[f]]
      /\ TruncateLog
      /\ UNCHANGED <<up, crawled, transaction_order, draft_transactions, io,
                     staged>>

ClearStaging ==
  /\ Serving
  /\ "library" \in Ops
  /\ transactions' = {}
  /\ draft_transactions' = {}
  /\ file_locks' = [f \in File |-> None]
  /\ staged_intents' = [t \in Tx |-> {}]
  /\ merged_cache' = [f \in File |-> None]
  /\ UNCHANGED <<up, crawled, store, base, transaction_order, io, staged>>

-----------------------------------------------------------------------------
Lifecycle == RecoverFromWal \/ ScanProject \/ Crash \/ \E f \in File : IdeSave(f)

StageRequest ==
  \E tx \in Tx, i \in Intent :
    \/ RpcStage(tx, i)
    \/ RpcStageFails(tx, i)
    \/ StageUniversal(tx, i)
    \/ StageUniversalReviewed(tx, i)
    \/ StageUniversalFails(tx, i)

OtherRequest ==
  \/ \E tx \in Tx : Rollback(tx)
  \/ Heal
  \/ HardenWal
  \/ \E f \in File : RegisterGhosts(f)

PersistStep ==
  \/ RpcCommit
  \/ RpcPersist
  \/ \E f \in File : PersistOpen(f)
  \/ PersistWrite
  \/ PersistFails
  \/ PersistFinish

LibraryCall ==
  \/ \E tx \in Tx, f \in File : StagePatch(tx, f) \/ StageDraft(tx, f)
  \/ \E tx \in Tx : Prepare(tx) \/ Commit(tx)
  \/ ClearStaging

Next == Lifecycle \/ StageRequest \/ OtherRequest \/ PersistStep \/ LibraryCall

Spec == Init /\ [][Next]_vars

-----------------------------------------------------------------------------
(* Correctness.                                                            *)

TypeOK ==
  /\ up \in BOOLEAN
  /\ crawled \in BOOLEAN
  /\ disk \in [File -> Text]
  /\ wal \in Seq(Patch \cup {Torn})
  /\ wal_open \in BOOLEAN
  /\ base \in [File -> {None} \cup Text]
  /\ transactions \in SUBSET Patch
  /\ transaction_order \in SUBSET Tx
  /\ merged_cache \in [File -> {None} \cup Text]
  /\ file_locks \in [File -> Tx \cup {None}]
  /\ draft_transactions \in SUBSET Tx
  /\ staged_intents \in [Tx -> SUBSET Intent]
  /\ persisting \in BOOLEAN
  /\ unwritten \in SUBSET {f \in File : merged_cache[f] # None}
  /\ writing \in unwritten \cup {None}
  /\ staged \in SUBSET Edit

\* Every transaction that holds patches is listed in transaction_order.
\* rebuild_merged_cache walks the order, so a patch whose transaction fell out
\* of it would be staged, counted and journaled, and never shown or written.
StagedIsOrdered == \A p \in transactions : p.tx \in transaction_order

\* A transaction with recorded intents still holds patches.  stage_mutation
\* raises a conflict against every recorded intent, so one left behind by a
\* squash, a rollback or a commit would block edits against nothing.
IntentsBackedByPatches ==
  \A t \in Tx : staged_intents[t] # {} => \E p \in transactions : p.tx = t

\* A merged text is made of its base and of the edits still staged for that
\* file: whatever was rolled back, squashed, healed or forgotten by a restart no
\* longer adds to what the proxy serves and persist writes.  (An edit staged
\* while the discarded one was visible carries it: see VfsHistory.)
MergedFromStaged ==
  \A f \in File : merged_cache[f] # None =>
    /\ base[f] # None
    /\ merged_cache[f] \subseteq base[f] \cup
         UNION {p.new_text : p \in Pending(transactions, transaction_order, f)}

\* Once the start-up crawl is over, every edit staged by an intent on a file
\* that is not empty is in what readers of the file see, and so in what the next
\* persist writes: the edits that recovery replayed or a failed request left as
\* they were, too.  (The crate's callers may stage an edit on a line past the
\* end of the file; it is skipped without a word.)
StagedIsVisible ==
  crawled => \A p \in transactions :
    p.at = Original /\ base[p.file] # EmptyText => p.edit \in read(p.file)

\* What the user saved in the editor and Zenith has since loaded stays on disk:
\* persist writes texts built from a base that contains it, never from an older
\* one.  (A save that was not loaded is overwritten, and a write cut off after
\* its truncating open leaves the file empty.)
LoadedSavesSurvive ==
  \A f \in File : base[f] # None /\ IdeEdit \in base[f] /\ disk[f] # EmptyText
    => IdeEdit \in disk[f]

\* A lock passes from one transaction to another only by way of its release.
LockNeverStolen ==
  [][\A f \in File : file_locks[f] # None =>
       file_locks'[f] \in {file_locks[f], None}]_vars

\* Fails: no step writes a patch of a draft transaction to the disk.
DraftsNeverWritten ==
  [][\A p \in transactions :
       p.tx \in draft_transactions /\ p.edit \notin disk[p.file]
         => p.edit \notin disk'[p.file]]_vars

=============================================================================
